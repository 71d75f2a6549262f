------------------------------ MODULE RpcCall ------------------------------
(***************************************************************************)
(* One GrowRPC connection (apps/pkg/GrowRPC/client.go, server.go): callers *)
(* multiplex their requests over it, the receive goroutine matches the     *)
(* responses by sequence number, the server handles requests concurrently  *)
(* and may answer one twice (a timeout and the late handler), the caller's *)
(* context may end, and either side may close the connection at any time.  *)
(*                                                                         *)
(* The lock client.sending is a variable, because send and terminateCalls  *)
(* hold it across several steps; what happens under client.mu is one step. *)
(* What is under way when the transport ends, or is written to it later,   *)
(* may still arrive: bytes wait in buffers on both sides.                  *)
(* A request and its responses are identified by the call they belong to,  *)
(* and carry the sequence number the client gave it.                       *)
(***************************************************************************)
EXTENDS Integers

CONSTANTS Calls, Nobody

ASSUME NobodyApart == Nobody \notin Calls

VARIABLES
  stage,     \* stage[k]: "new", "writing" (registered, holds sending), "waiting", "returned"
  result,    \* result[k]: what Call returned: "none", "reply", "error", "timeout"
  signals,   \* signals[k]: times done() was called; the Done channel holds one
  reply,     \* reply[k]: the call whose body was decoded into k's Reply, or Nobody
  seq,       \* seq[k]: the number registerCall gave to k, 0 before
  next,      \* client.seq
  pending,   \* client.pending as a set of <<seq, call>>
  sending,   \* the call that holds client.sending, or Nobody
  closing,   \* client.closing
  shutdown,  \* client.shutdown
  broken,    \* the transport failed or the server closed it
  recv,      \* receive: "header", "body" (a response of cur), "failed", "ended"
  cur,       \* <<call, kind, payload>> while recv = "body"
  requests,  \* <<seq, call>> on the way to the server
  server,    \* server[k]: "none", "running", "late" (timed out), "answered", "unsent", "over"
  responses  \* <<seq, kind, call>> on the way to the client

clientVars == <<seq, next, pending, sending, closing, shutdown>>
recvVars == <<recv, cur>>
serverVars == <<requests, server, responses>>
vars == <<stage, result, signals, reply, clientVars, broken, recvVars, serverVars>>

Kinds == {"ok", "error"}
NoBody == <<Nobody, "ok", Nobody>>

TypeOK ==
  /\ stage \in [Calls -> {"new", "writing", "waiting", "returned"}]
  /\ result \in [Calls -> {"none", "reply", "error", "timeout"}]
  /\ signals \in [Calls -> Nat]
  /\ reply \in [Calls -> Calls \cup {Nobody}]
  /\ seq \in [Calls -> Nat] /\ next \in Nat \ {0}
  /\ pending \subseteq Nat \X Calls
  /\ sending \in Calls \cup {Nobody}
  /\ closing \in BOOLEAN /\ shutdown \in BOOLEAN /\ broken \in BOOLEAN
  /\ recv \in {"header", "body", "failed", "ended"}
  /\ cur \in (Calls \cup {Nobody}) \X Kinds \X (Calls \cup {Nobody})
  /\ requests \subseteq Nat \X Calls
  /\ server \in [Calls -> {"none", "running", "late", "answered", "unsent", "over"}]
  /\ responses \subseteq Nat \X Kinds \X Calls

\* newClientCodec: 0 is no call's number.
FirstSeq == 1

Init ==
  /\ stage = [k \in Calls |-> "new"] /\ result = [k \in Calls |-> "none"]
  /\ signals = [k \in Calls |-> 0] /\ reply = [k \in Calls |-> Nobody]
  /\ seq = [k \in Calls |-> 0] /\ next = FirstSeq /\ pending = {}
  /\ sending = Nobody /\ closing = FALSE /\ shutdown = FALSE /\ broken = FALSE
  /\ recv = "header" /\ cur = NoBody
  /\ requests = {} /\ server = [k \in Calls |-> "none"] /\ responses = {}

-----------------------------------------------------------------------------
Goto(k, s) == stage' = [stage EXCEPT ![k] = s]

\* call.done(): one more value on the Done channel.
Done(K) == signals' = [k \in Calls |-> IF k \in K THEN signals[k] + 1 ELSE signals[k]]

\* The calls registered under s: removeCall returns it and forgets the entry.
Registered(s) == {k \in Calls : <<s, k>> \in pending}
RemoveCall(s) == pending' = {x \in pending : x[1] # s}

Down == closing \/ broken

-----------------------------------------------------------------------------
(* The caller: send and Call                                               *)

\* registerCall refuses: the call is finished with ErrShutdown.
Refuse(k) ==
  /\ stage[k] = "new" /\ sending = Nobody /\ (closing \/ shutdown)
  /\ Goto(k, "waiting") /\ Done({k})
  /\ UNCHANGED <<result, reply, clientVars, broken, recvVars, serverVars>>

\* Mutant: a call is registered on a connection that is already shut down.
RegisterUnchecked(k) ==
  /\ stage[k] = "new" /\ sending = Nobody
  /\ Goto(k, "writing") /\ sending' = k
  /\ seq' = [seq EXCEPT ![k] = next] /\ next' = next + 1
  /\ pending' = pending \cup {<<next, k>>}
  /\ UNCHANGED <<result, signals, reply, closing, shutdown, broken, recvVars, serverVars>>

\* registerCall: the call takes the next number and the sending lock is held
\* until the request is written.
Register(k) ==
  /\ stage[k] = "new" /\ sending = Nobody /\ ~closing /\ ~shutdown
  /\ Goto(k, "writing") /\ sending' = k
  /\ seq' = [seq EXCEPT ![k] = next] /\ next' = next + 1
  /\ pending' = pending \cup {<<next, k>>}
  /\ UNCHANGED <<result, signals, reply, closing, shutdown, broken, recvVars, serverVars>>

\* A write may seem to succeed on a transport that has ended: the bytes stay in
\* a buffer (the gob and JSON codecs ignore the error of Flush).
Write(k) ==
  /\ stage[k] = "writing" /\ Goto(k, "waiting") /\ sending' = Nobody
  /\ \/ requests' = requests \cup {<<seq[k], k>>}
     \/ Down /\ UNCHANGED requests
  /\ UNCHANGED <<result, signals, reply, seq, next, pending, closing, shutdown,
                 broken, recvVars, server, responses>>

\* cc.Write fails: the call is finished unless receive or the caller took it
\* out of pending before.  The codec closes the transport if it was open.
WriteFails(k) ==
  /\ stage[k] = "writing" /\ Goto(k, "waiting") /\ sending' = Nobody
  /\ Done(Registered(seq[k])) /\ RemoveCall(seq[k]) /\ broken' = TRUE
  /\ UNCHANGED <<result, reply, seq, next, closing, shutdown, recvVars, serverVars>>

\* Mutant: call.Error is not looked at.
ReturnIgnoresError(k) ==
  /\ stage[k] = "waiting" /\ signals[k] > 0 /\ Goto(k, "returned")
  /\ result' = [result EXCEPT ![k] = "reply"]
  /\ UNCHANGED <<signals, reply, clientVars, broken, recvVars, serverVars>>

\* Call receives from Done: the error, or the reply that was decoded.
Return(k) ==
  /\ stage[k] = "waiting" /\ signals[k] > 0 /\ Goto(k, "returned")
  /\ result' = [result EXCEPT ![k] = IF reply[k] # Nobody THEN "reply" ELSE "error"]
  /\ UNCHANGED <<signals, reply, clientVars, broken, recvVars, serverVars>>

\* The caller's context ends; select may choose this although Done is ready.
CtxDone(k) ==
  /\ stage[k] = "waiting" /\ Goto(k, "returned")
  /\ result' = [result EXCEPT ![k] = "timeout"]
  /\ RemoveCall(seq[k])
  /\ UNCHANGED <<signals, reply, seq, next, sending, closing, shutdown, broken,
                 recvVars, serverVars>>

-----------------------------------------------------------------------------
(* receive and terminateCalls                                              *)

\* The header of a response: its call leaves pending, or is unknown by now
\* and the body is skipped, which fails like the reading of any body.
ReadHeader(s, kind, payload) ==
  /\ recv = "header" /\ <<s, kind, payload>> \in responses
  /\ responses' = responses \ {<<s, kind, payload>>}
  /\ RemoveCall(s)
  /\ IF Registered(s) = {} THEN recv' \in {"header", "failed"} /\ UNCHANGED cur
     ELSE recv' = "body" /\ \E k \in Registered(s) : cur' = <<k, kind, payload>>
  /\ UNCHANGED <<stage, result, signals, reply, seq, next, sending, closing, shutdown,
                 broken, requests, server>>

ReadBody ==
  /\ recv = "body"
  /\ recv' = "header" /\ cur' = NoBody /\ Done({cur[1]})
  /\ reply' = IF cur[2] = "ok" THEN [reply EXCEPT ![cur[1]] = cur[3]] ELSE reply
  /\ UNCHANGED <<stage, result, clientVars, broken, serverVars>>

\* Mutant: a body that cannot be read leaves its call unfinished.
ReadBodyFailsSilently ==
  /\ recv = "body"
  /\ recv' = "failed" /\ cur' = NoBody
  /\ UNCHANGED <<stage, result, signals, reply, clientVars, broken, serverVars>>

\* The transport ended or the body does not decode: the call is finished with
\* the error, and receive stops.
ReadBodyFails ==
  /\ recv = "body"
  /\ recv' = "failed" /\ cur' = NoBody /\ Done({cur[1]})
  /\ UNCHANGED <<stage, result, reply, clientVars, broken, serverVars>>

ReadHeaderFails ==
  /\ recv = "header" /\ Down /\ recv' = "failed"
  /\ UNCHANGED <<stage, result, signals, reply, clientVars, broken, cur, serverVars>>

\* Mutant: terminateCalls does not wait for a request that is being written.
TerminateUnlocked ==
  /\ recv = "failed" /\ recv' = "ended"
  /\ shutdown' = TRUE /\ Done({x[2] : x \in pending})
  /\ UNCHANGED <<stage, result, reply, seq, next, pending, sending, closing, broken,
                 cur, serverVars>>

\* terminateCalls, under sending and mu; pending keeps its entries.
Terminate ==
  /\ recv = "failed" /\ sending = Nobody /\ recv' = "ended"
  /\ shutdown' = TRUE /\ Done({x[2] : x \in pending})
  /\ UNCHANGED <<stage, result, reply, seq, next, pending, sending, closing, broken,
                 cur, serverVars>>

\* Client.Close, by the pool or the application.
Close ==
  /\ ~closing /\ closing' = TRUE
  /\ UNCHANGED <<stage, result, signals, reply, seq, next, pending, sending, shutdown,
                 broken, recvVars, serverVars>>

-----------------------------------------------------------------------------
(* The server: serveCodec and handleRequest                                *)

\* readRequest: an unknown method is answered at once, otherwise a goroutine
\* handles the request.
Serve(s, k) ==
  /\ <<s, k>> \in requests /\ requests' = requests \ {<<s, k>>}
  /\ \/ server' = [server EXCEPT ![k] = "running"] /\ UNCHANGED responses
     \/ /\ server' = [server EXCEPT ![k] = "over"]
        /\ responses' = responses \cup {<<s, "error", k>>}
  /\ UNCHANGED <<stage, result, signals, reply, clientVars, broken, recvVars>>

\* The handler returns and its goroutine answers.  After a timeout the shared
\* header already carries the timeout's error.  A response whose Write fails is
\* only logged: the reply does not encode (Protobuf), or the codec closes.
Handled(k) ==
  /\ server[k] \in {"running", "late"}
  /\ \/ /\ server' = [server EXCEPT ![k] = IF @ = "late" THEN "over" ELSE "answered"]
        /\ \E kind \in (IF server[k] = "late" THEN {"error"} ELSE Kinds) :
             responses' = responses \cup {<<seq[k], kind, k>>}
        /\ UNCHANGED broken
     \/ /\ server' = [server EXCEPT ![k] = IF @ = "late" THEN "over" ELSE "unsent"]
        /\ broken' \in {broken, TRUE} /\ UNCHANGED responses
  /\ UNCHANGED <<stage, result, signals, reply, clientVars, recvVars, requests>>

\* time.After fires; select may still choose it when the handler has just
\* answered.
HandleTimeout(k) ==
  /\ server[k] \in {"running", "answered", "unsent"}
  /\ server' = [server EXCEPT ![k] = IF @ = "running" THEN "late" ELSE "over"]
  /\ responses' = responses \cup {<<seq[k], "error", k>>}
  /\ UNCHANGED <<stage, result, signals, reply, clientVars, broken, recvVars, requests>>

Break ==
  /\ ~broken /\ broken' = TRUE
  /\ UNCHANGED <<stage, result, signals, reply, clientVars, recvVars, serverVars>>

-----------------------------------------------------------------------------
Caller(k) == Refuse(k) \/ Register(k) \/ Write(k) \/ WriteFails(k) \/ Return(k)

Receiver == \/ ReadBody \/ ReadBodyFails \/ ReadHeaderFails \/ Terminate
            \/ \E r \in responses : ReadHeader(r[1], r[2], r[3])

Next == \/ \E k \in Calls : Caller(k) \/ CtxDone(k) \/ Handled(k) \/ HandleTimeout(k)
        \/ \E r \in requests : Serve(r[1], r[2])
        \/ Receiver \/ Close \/ Break

Spec == Init /\ [][Next]_vars

\* Callers, the receive goroutine and the server's handlers make progress; a
\* waiting sender gets the lock in its turn (sync.Mutex is fair to waiters that
\* starve, so SF).  No deadline, timeout, close or failure is assumed.
Fairness ==
  /\ \A k \in Calls : SF_vars(Caller(k)) /\ WF_vars(Handled(k))
  /\ WF_vars(\E r \in requests : Serve(r[1], r[2]))
  /\ SF_vars(Receiver)

LiveSpec == Spec /\ Fairness

-----------------------------------------------------------------------------
(* Properties                                                              *)

\* A call is finished at most once: by its response, by a failed write or by
\* terminateCalls.  A second done() would block the receive goroutine, or
\* terminateCalls under both locks, for ever.
DoneOnce == \A k \in Calls : signals[k] <= 1

\* A caller that gets a reply gets the reply to its own request, though
\* responses are reordered, duplicated and arrive after their call gave up.
ReplyMatches == \A k \in Calls : reply[k] \in {k, Nobody}

\* Once the connection is shut down no registered call is left unfinished.
ShutdownFinishesAll ==
  shutdown => \A x \in pending : signals[x[2]] = 1

\* Numbers identify calls: a registered call has a number of its own, and what
\* is pending, requested or answered under a number belongs to its call.
SeqSound ==
  /\ \A k \in Calls : /\ seq[k] < next
                      /\ stage[k] = "new" => seq[k] = 0
                      /\ stage[k] = "writing" => seq[k] # 0
  /\ \A j, k \in Calls : seq[j] = seq[k] /\ seq[j] # 0 => j = k
  /\ \A x \in pending : x[1] = seq[x[2]] /\ x[1] # 0
  /\ \A x \in requests : x[1] = seq[x[2]] /\ x[1] # 0
  /\ \A x \in responses : x[1] = seq[x[3]] /\ x[1] # 0
  /\ \A k \in Calls : server[k] # "none" => seq[k] # 0

\* Who is responsible for finishing a call: a pending one is unfinished until
\* terminateCalls, and the one receive is reading is neither pending nor done.
Responsible ==
  /\ \A k \in Calls : stage[k] = "new" => signals[k] = 0
  /\ \A x \in pending : ~shutdown => signals[x[2]] = 0
  /\ recv = "body" => /\ cur[1] \in Calls /\ cur[3] = cur[1]
                      /\ signals[cur[1]] = 0 /\ stage[cur[1]] # "new"
                      /\ \A x \in pending : x[2] # cur[1]

\* The sending lock is held by the call being written, and a connection shut
\* down by receive accepts no further call.
LockSound ==
  /\ \A k \in Calls : stage[k] = "writing" => sending = k
  /\ shutdown <=> recv = "ended"
  /\ shutdown => sending = Nobody

RpcInv == /\ TypeOK /\ SeqSound /\ Responsible /\ LockSound
          /\ DoneOnce /\ ReplyMatches /\ ShutdownFinishesAll

\* A request is on its way at most once and before its handler starts, and a
\* call returns its own reply or none: what RemoteCalls needs besides RpcInv.
ServedOnce ==
  /\ \A k \in Calls : /\ stage[k] \in {"new", "writing"} => server[k] = "none"
                      /\ result[k] = "none" <=> stage[k] # "returned"
                      /\ result[k] = "reply" => reply[k] = k
  /\ \A x \in requests : /\ server[x[2]] = "none"
                          /\ stage[x[2]] \in {"waiting", "returned"}

\* Every call returns, with no deadline of its own, because the server answers
\* or the connection's end finishes it; the only exception is a call whose
\* response could not be written, for as long as the connection stays up.
CallReturns ==
  \A k \in Calls : stage[k] = "writing" ~>
    (stage[k] = "returned" \/ [](server[k] = "unsent" /\ ~Down))

-----------------------------------------------------------------------------
(* A connection implements RemoteCalls.  The reply of k is offered while   *)
(* the response travels, is being read, or has been decoded for the caller. *)

Offered(k) == \/ <<seq[k], "ok", k>> \in responses
              \/ recv = "body" /\ cur = <<k, "ok", k>>
              \/ reply[k] = k

CallView == [k \in Calls |-> IF stage[k] = "returned" THEN result[k]
                            ELSE IF stage[k] = "new" THEN "new" ELSE "open"]
ExecView == [k \in Calls |-> IF server[k] = "none" THEN "idle"
                            ELSE IF server[k] \in {"running", "late"} THEN "running"
                            ELSE "over"]
OfferedView == {k \in Calls : Offered(k)}

Remote == INSTANCE RemoteCalls WITH
  call <- CallView, exec <- ExecView, offered <- OfferedView

\* Callers see at most one return, of their own reply or of an error, and the
\* server runs a handler at most once per call, through every reordering,
\* duplicate response, timeout, refused write and shutdown of the connection.
ImplementsCalls == Remote!Spec
=============================================================================
