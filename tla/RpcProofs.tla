------------------------------ MODULE RpcProofs -----------------------------
(***************************************************************************)
(* Proofs about GrowRPC: the calls of a connection (RpcCall), the codecs'  *)
(* stream (Wire), the opening of a connection (Handshake) and the client   *)
(* over several servers (XClient).                                         *)
(***************************************************************************)
EXTENDS RpcCall, Wire, Handshake, XClient, TLAPS

-----------------------------------------------------------------------------
(* RpcCall: a call finishes once, with its own reply.                      *)

\* The initial state satisfies the invariant: nothing is registered, and the
\* first number is not that of an unregistered call.
LEMMA InitRpc == Init => RpcInv
<1> SUFFICES ASSUME Init PROVE RpcInv  OBVIOUS
<1> USE NobodyApart DEF Init, FirstSeq
<1>1. NoBody \in (Calls \cup {Nobody}) \X Kinds \X (Calls \cup {Nobody})
  BY DEF NoBody, Kinds
<1>2. TypeOK
  <2>1. /\ stage \in [Calls -> {"new", "writing", "waiting", "returned"}]
        /\ result \in [Calls -> {"none", "reply", "error", "timeout"}]
        /\ server \in [Calls -> {"none", "running", "late", "answered", "unsent", "over"}]
    OBVIOUS
  <2>2. signals \in [Calls -> Nat] /\ seq \in [Calls -> Nat] /\ next \in Nat \ {0}
    OBVIOUS
  <2>3. reply \in [Calls -> Calls \cup {Nobody}]
    OBVIOUS
  <2>4. pending \subseteq Nat \X Calls /\ requests \subseteq Nat \X Calls
    OBVIOUS
  <2>5. responses \subseteq Nat \X Kinds \X Calls
    OBVIOUS
  <2> QED  BY <1>1, <2>1, <2>2, <2>3, <2>4, <2>5 DEF TypeOK
<1>3. SeqSound /\ Responsible /\ LockSound
  BY DEF SeqSound, Responsible, LockSound
<1>4. DoneOnce /\ ReplyMatches /\ ShutdownFinishesAll
  BY DEF DoneOnce, ReplyMatches, ShutdownFinishesAll
<1> QED  BY <1>2, <1>3, <1>4 DEF RpcInv

\* Stuttering changes nothing the invariant speaks of.
LEMMA StutterRpc == RpcInv /\ UNCHANGED vars => RpcInv'
BY DEF vars, clientVars, recvVars, serverVars, RpcInv, TypeOK, SeqSound, Responsible,
   LockSound, DoneOnce, ReplyMatches, ShutdownFinishesAll

\* registerCall refuses: only the signal of a call that was new changes.
LEMMA RefuseRpc ==
  ASSUME RpcInv, NEW k \in Calls, Refuse(k)
  PROVE  RpcInv'
<1> USE NobodyApart DEF RpcInv, TypeOK
<1>1. TypeOK'
  BY DEF Refuse, Goto, Done, clientVars, recvVars, serverVars, Kinds
<1>2. SeqSound'
  BY DEF Refuse, Goto, Done, clientVars, recvVars, serverVars, SeqSound
<1>3. Responsible'
  BY DEF Refuse, Goto, Done, clientVars, recvVars, serverVars, Responsible,
     SeqSound
<1>4. LockSound'
  BY DEF Refuse, Goto, Done, clientVars, recvVars, serverVars, LockSound
<1>5. DoneOnce'
  BY DEF Refuse, Goto, Done, clientVars, recvVars, serverVars, DoneOnce,
     Responsible
<1>6. ReplyMatches'
  BY DEF Refuse, Goto, Done, clientVars, recvVars, serverVars, ReplyMatches
<1>7. ShutdownFinishesAll'
  BY DEF Refuse, Goto, Done, clientVars, recvVars, serverVars, ShutdownFinishesAll,
     Responsible
<1> QED  BY <1>1, <1>2, <1>3, <1>4, <1>5, <1>6, <1>7

\* A registered call takes a number above all that were given out.
LEMMA RegisterRpc ==
  ASSUME RpcInv, NEW k \in Calls, Register(k)
  PROVE  RpcInv'
<1> USE NobodyApart DEF RpcInv, TypeOK
<1>1. TypeOK'
  BY DEF Register, Goto, recvVars, serverVars, Kinds
<1>2. SeqSound'
  BY DEF Register, Goto, recvVars, serverVars, SeqSound
<1>3. Responsible'
  BY DEF Register, Goto, recvVars, serverVars, Responsible
<1>4. LockSound'
  BY DEF Register, Goto, recvVars, serverVars, LockSound
<1>5. DoneOnce'
  BY DEF Register, Goto, recvVars, serverVars, DoneOnce
<1>6. ReplyMatches'
  BY DEF Register, Goto, recvVars, serverVars, ReplyMatches
<1>7. ShutdownFinishesAll'
  BY DEF Register, Goto, recvVars, serverVars, ShutdownFinishesAll
<1> QED  BY <1>1, <1>2, <1>3, <1>4, <1>5, <1>6, <1>7

\* A request carries the number of its call.
LEMMA WriteRpc ==
  ASSUME RpcInv, NEW k \in Calls, Write(k)
  PROVE  RpcInv'
<1> USE NobodyApart DEF RpcInv, TypeOK
<1>1. TypeOK'
  BY DEF Write, Goto, Down, recvVars, Kinds
<1>2. SeqSound'
  BY DEF Write, Goto, Down, recvVars, SeqSound
<1>3. Responsible'
  BY DEF Write, Goto, Down, recvVars, Responsible
<1>4. LockSound'
  BY DEF Write, Goto, Down, recvVars, LockSound
<1>5. DoneOnce'
  BY DEF Write, Goto, Down, recvVars, DoneOnce
<1>6. ReplyMatches'
  BY DEF Write, Goto, Down, recvVars, ReplyMatches
<1>7. ShutdownFinishesAll'
  BY DEF Write, Goto, Down, recvVars, ShutdownFinishesAll
<1> QED  BY <1>1, <1>2, <1>3, <1>4, <1>5, <1>6, <1>7

\* A failed write finishes the call, which is still pending, and no other.
LEMMA WriteFailsRpc ==
  ASSUME RpcInv, NEW k \in Calls, WriteFails(k)
  PROVE  RpcInv'
<1> USE NobodyApart DEF RpcInv, TypeOK
<1>1. TypeOK'
  BY DEF WriteFails, Goto, Done, RemoveCall, Registered, recvVars, serverVars,
     Kinds
<1>2. SeqSound'
  BY DEF WriteFails, Goto, Done, RemoveCall, Registered, recvVars, serverVars,
     SeqSound
<1>3. Responsible'
  BY DEF WriteFails, Goto, Done, RemoveCall, Registered, recvVars, serverVars,
     Responsible, SeqSound
<1>4. LockSound'
  BY DEF WriteFails, Goto, Done, RemoveCall, Registered, recvVars, serverVars,
     LockSound
<1>5. DoneOnce'
  BY DEF WriteFails, Goto, Done, RemoveCall, Registered, recvVars, serverVars,
     DoneOnce, Responsible, LockSound
<1>6. ReplyMatches'
  BY DEF WriteFails, Goto, Done, RemoveCall, Registered, recvVars, serverVars,
     ReplyMatches
<1>7. ShutdownFinishesAll'
  BY DEF WriteFails, Goto, Done, RemoveCall, Registered, recvVars, serverVars,
     ShutdownFinishesAll, SeqSound
<1> QED  BY <1>1, <1>2, <1>3, <1>4, <1>5, <1>6, <1>7

\* Returning from Call touches no state of the connection.
LEMMA ReturnRpc ==
  ASSUME RpcInv, NEW k \in Calls, Return(k)
  PROVE  RpcInv'
<1> USE NobodyApart DEF RpcInv, TypeOK
<1>1. TypeOK'
  BY DEF Return, Goto, clientVars, recvVars, serverVars, Kinds
<1>2. SeqSound'
  BY DEF Return, Goto, clientVars, recvVars, serverVars, SeqSound
<1>3. Responsible'
  BY DEF Return, Goto, clientVars, recvVars, serverVars, Responsible
<1>4. LockSound'
  BY DEF Return, Goto, clientVars, recvVars, serverVars, LockSound
<1>5. DoneOnce'
  BY DEF Return, Goto, clientVars, recvVars, serverVars, DoneOnce
<1>6. ReplyMatches'
  BY DEF Return, Goto, clientVars, recvVars, serverVars, ReplyMatches
<1>7. ShutdownFinishesAll'
  BY DEF Return, Goto, clientVars, recvVars, serverVars, ShutdownFinishesAll
<1> QED  BY <1>1, <1>2, <1>3, <1>4, <1>5, <1>6, <1>7

\* A caller that gives up takes its call out of pending.
LEMMA CtxDoneRpc ==
  ASSUME RpcInv, NEW k \in Calls, CtxDone(k)
  PROVE  RpcInv'
<1> USE NobodyApart DEF RpcInv, TypeOK
<1>1. TypeOK'
  BY DEF CtxDone, Goto, RemoveCall, recvVars, serverVars, Kinds
<1>2. SeqSound'
  BY DEF CtxDone, Goto, RemoveCall, recvVars, serverVars, SeqSound
<1>3. Responsible'
  BY DEF CtxDone, Goto, RemoveCall, recvVars, serverVars, Responsible
<1>4. LockSound'
  BY DEF CtxDone, Goto, RemoveCall, recvVars, serverVars, LockSound
<1>5. DoneOnce'
  BY DEF CtxDone, Goto, RemoveCall, recvVars, serverVars, DoneOnce
<1>6. ReplyMatches'
  BY DEF CtxDone, Goto, RemoveCall, recvVars, serverVars, ReplyMatches
<1>7. ShutdownFinishesAll'
  BY DEF CtxDone, Goto, RemoveCall, recvVars, serverVars, ShutdownFinishesAll
<1> QED  BY <1>1, <1>2, <1>3, <1>4, <1>5, <1>6, <1>7

\* The call of a response leaves pending and is then receive's alone.
LEMMA ReadHeaderRpc ==
  ASSUME RpcInv, NEW s, NEW kind, NEW payload, ReadHeader(s, kind, payload)
  PROVE  RpcInv'
<1> USE NobodyApart DEF RpcInv, TypeOK
<1>1. TypeOK'
  <2>1. s \in Nat /\ kind \in Kinds /\ payload \in Calls
    BY DEF ReadHeader
  <2>2. pending' \subseteq pending /\ responses' \subseteq responses
    BY DEF ReadHeader, RemoveCall
  <2>3. cur' = cur \/ \E k \in Calls : cur' = <<k, kind, payload>>
    BY DEF ReadHeader, Registered
  <2>4. recv' \in {"header", "body", "failed", "ended"}
    BY DEF ReadHeader
  <2> QED  BY <2>1, <2>2, <2>3, <2>4 DEF ReadHeader
<1>2. SeqSound'
  BY DEF ReadHeader, RemoveCall, Registered, SeqSound
<1>3. Responsible'
  <2>1. payload \in Calls /\ s = seq[payload] /\ s # 0
    BY DEF ReadHeader, SeqSound, Kinds
  <2>2. \A x \in pending' : x \in pending /\ x[1] # s
    BY DEF ReadHeader, RemoveCall
  <2>3. ~shutdown
    BY DEF ReadHeader, LockSound
  <2>4. \A k \in Registered(s) : k = payload /\ stage[k] # "new" /\ signals[k] = 0
    BY <2>1, <2>3 DEF Registered, SeqSound, Responsible
  <2>5. CASE Registered(s) = {}
    BY <2>2, <2>5 DEF ReadHeader, Responsible
  <2>6. CASE Registered(s) # {}
    <3>1. PICK k \in Registered(s) : recv' = "body" /\ cur' = <<k, kind, payload>>
      BY <2>6 DEF ReadHeader
    <3>2. \A x \in pending' : x[2] # payload
      BY <2>1, <2>2 DEF SeqSound
    <3>3. k = payload /\ stage[payload] # "new" /\ signals[payload] = 0
      BY <2>4
    <3>4. cur'[1] = payload /\ cur'[3] = payload
      BY <3>1, <3>3
    <3> QED  BY <2>1, <2>2, <3>2, <3>3, <3>4 DEF ReadHeader, Responsible
  <2> QED  BY <2>5, <2>6
<1>4. LockSound'
  BY DEF ReadHeader, RemoveCall, Registered, LockSound
<1>5. DoneOnce'
  BY DEF ReadHeader, RemoveCall, Registered, DoneOnce
<1>6. ReplyMatches'
  BY DEF ReadHeader, RemoveCall, Registered, ReplyMatches
<1>7. ShutdownFinishesAll'
  BY DEF ReadHeader, RemoveCall, Registered, ShutdownFinishesAll
<1> QED  BY <1>1, <1>2, <1>3, <1>4, <1>5, <1>6, <1>7

\* receive finishes the call whose body it read.
LEMMA ReadBodyRpc ==
  ASSUME RpcInv, ReadBody
  PROVE  RpcInv'
<1> USE NobodyApart DEF RpcInv, TypeOK
<1>1. TypeOK'
  BY DEF ReadBody, Done, clientVars, serverVars, NoBody, Responsible, Kinds
<1>2. SeqSound'
  BY DEF ReadBody, Done, clientVars, serverVars, NoBody, SeqSound
<1>3. Responsible'
  BY DEF ReadBody, Done, clientVars, serverVars, NoBody, Responsible
<1>4. LockSound'
  BY DEF ReadBody, Done, clientVars, serverVars, NoBody, LockSound
<1>5. DoneOnce'
  BY DEF ReadBody, Done, clientVars, serverVars, NoBody, DoneOnce, Responsible
<1>6. ReplyMatches'
  BY DEF ReadBody, Done, clientVars, serverVars, NoBody, ReplyMatches, Responsible
<1>7. ShutdownFinishesAll'
  BY DEF ReadBody, Done, clientVars, serverVars, NoBody, ShutdownFinishesAll,
     Responsible
<1> QED  BY <1>1, <1>2, <1>3, <1>4, <1>5, <1>6, <1>7

\* receive finishes the call whose body it could not read.
LEMMA ReadBodyFailsRpc ==
  ASSUME RpcInv, ReadBodyFails
  PROVE  RpcInv'
<1> USE NobodyApart DEF RpcInv, TypeOK
<1>1. TypeOK'
  BY DEF ReadBodyFails, Done, clientVars, serverVars, NoBody, Kinds
<1>2. SeqSound'
  BY DEF ReadBodyFails, Done, clientVars, serverVars, NoBody, SeqSound
<1>3. Responsible'
  BY DEF ReadBodyFails, Done, clientVars, serverVars, NoBody, Responsible
<1>4. LockSound'
  BY DEF ReadBodyFails, Done, clientVars, serverVars, NoBody, LockSound
<1>5. DoneOnce'
  BY DEF ReadBodyFails, Done, clientVars, serverVars, NoBody, DoneOnce, Responsible
<1>6. ReplyMatches'
  BY DEF ReadBodyFails, Done, clientVars, serverVars, NoBody, ReplyMatches
<1>7. ShutdownFinishesAll'
  BY DEF ReadBodyFails, Done, clientVars, serverVars, NoBody, ShutdownFinishesAll,
     Responsible
<1> QED  BY <1>1, <1>2, <1>3, <1>4, <1>5, <1>6, <1>7

\* A failed header ends the loop and finishes no call.
LEMMA ReadHeaderFailsRpc ==
  ASSUME RpcInv, ReadHeaderFails
  PROVE  RpcInv'
<1> USE NobodyApart DEF RpcInv, TypeOK
<1>1. TypeOK'
  BY DEF ReadHeaderFails, Down, clientVars, serverVars, Kinds
<1>2. SeqSound'
  BY DEF ReadHeaderFails, Down, clientVars, serverVars, SeqSound
<1>3. Responsible'
  BY DEF ReadHeaderFails, Down, clientVars, serverVars, Responsible
<1>4. LockSound'
  BY DEF ReadHeaderFails, Down, clientVars, serverVars, LockSound
<1>5. DoneOnce'
  BY DEF ReadHeaderFails, Down, clientVars, serverVars, DoneOnce
<1>6. ReplyMatches'
  BY DEF ReadHeaderFails, Down, clientVars, serverVars, ReplyMatches
<1>7. ShutdownFinishesAll'
  BY DEF ReadHeaderFails, Down, clientVars, serverVars, ShutdownFinishesAll
<1> QED  BY <1>1, <1>2, <1>3, <1>4, <1>5, <1>6, <1>7

\* terminateCalls finishes every pending call, none of which was finished.
LEMMA TerminateRpc ==
  ASSUME RpcInv, Terminate
  PROVE  RpcInv'
<1> USE NobodyApart DEF RpcInv, TypeOK
<1>1. TypeOK'
  BY DEF Terminate, Done, serverVars, Kinds
<1>2. SeqSound'
  BY DEF Terminate, Done, serverVars, SeqSound
<1>3. Responsible'
  BY DEF Terminate, Done, serverVars, Responsible, SeqSound
<1>4. LockSound'
  BY DEF Terminate, Done, serverVars, LockSound
<1>5. DoneOnce'
  BY DEF Terminate, Done, serverVars, DoneOnce, Responsible, LockSound
<1>6. ReplyMatches'
  BY DEF Terminate, Done, serverVars, ReplyMatches
<1>7. ShutdownFinishesAll'
  BY DEF Terminate, Done, serverVars, ShutdownFinishesAll, Responsible, LockSound
<1> QED  BY <1>1, <1>2, <1>3, <1>4, <1>5, <1>6, <1>7

\* Closing and losing the transport finish no call.
LEMMA CloseBreakRpc ==
  ASSUME RpcInv, Close \/ Break
  PROVE  RpcInv'
<1> USE NobodyApart DEF RpcInv, TypeOK
<1>1. TypeOK'
  BY DEF Close, Break, clientVars, recvVars, serverVars, Kinds
<1>2. SeqSound'
  BY DEF Close, Break, clientVars, recvVars, serverVars, SeqSound
<1>3. Responsible'
  BY DEF Close, Break, clientVars, recvVars, serverVars, Responsible
<1>4. LockSound'
  BY DEF Close, Break, clientVars, recvVars, serverVars, LockSound
<1>5. DoneOnce'
  BY DEF Close, Break, clientVars, recvVars, serverVars, DoneOnce
<1>6. ReplyMatches'
  BY DEF Close, Break, clientVars, recvVars, serverVars, ReplyMatches
<1>7. ShutdownFinishesAll'
  BY DEF Close, Break, clientVars, recvVars, serverVars, ShutdownFinishesAll
<1> QED  BY <1>1, <1>2, <1>3, <1>4, <1>5, <1>6, <1>7

\* A request in the server's hands has a number.
LEMMA ServeRpc ==
  ASSUME RpcInv, NEW s, NEW k, Serve(s, k)
  PROVE  RpcInv'
<1> USE NobodyApart DEF RpcInv, TypeOK
<1>1. TypeOK'
  BY DEF Serve, clientVars, recvVars, Kinds
<1>2. SeqSound'
  BY DEF Serve, clientVars, recvVars, SeqSound
<1>3. Responsible'
  BY DEF Serve, clientVars, recvVars, Responsible
<1>4. LockSound'
  BY DEF Serve, clientVars, recvVars, LockSound
<1>5. DoneOnce'
  BY DEF Serve, clientVars, recvVars, DoneOnce
<1>6. ReplyMatches'
  BY DEF Serve, clientVars, recvVars, ReplyMatches
<1>7. ShutdownFinishesAll'
  BY DEF Serve, clientVars, recvVars, ShutdownFinishesAll
<1> QED  BY <1>1, <1>2, <1>3, <1>4, <1>5, <1>6, <1>7

\* What a handler's end changes: its own state, at most one response under the
\* number of its request, and the transport.
LEMMA HandledEffect ==
  ASSUME TypeOK, NEW k \in Calls, Handled(k)
  PROVE  /\ server[k] \in {"running", "late"}
         /\ \E e \in {"answered", "unsent", "over"} : server' = [server EXCEPT ![k] = e]
         /\ \/ responses' = responses
            \/ responses' = responses \cup {<<seq[k], "error", k>>}
            \/ responses' = responses \cup {<<seq[k], "ok", k>>}
         /\ broken' \in BOOLEAN
         /\ UNCHANGED <<stage, result, signals, reply, clientVars, recvVars, requests>>
BY DEF Handled, Kinds, TypeOK

\* A response carries the number of the request it answers.
LEMMA HandledRpc ==
  ASSUME RpcInv, NEW k \in Calls, Handled(k)
  PROVE  RpcInv'
<1> USE NobodyApart DEF RpcInv
<1>8. PICK e \in {"answered", "unsent", "over"} : server' = [server EXCEPT ![k] = e]
  BY HandledEffect
<1>9. UNCHANGED <<stage, result, signals, reply, seq, next, pending, sending, closing,
                  shutdown, recv, cur, requests>>
  BY HandledEffect DEF clientVars, recvVars
<1>10. \A x \in responses' : x \in responses \/ \E kind \in Kinds : x = <<seq[k], kind, k>>
  BY HandledEffect DEF Kinds
<1>1. TypeOK'
  <2>1. responses' \subseteq Nat \X Kinds \X Calls
    BY <1>10 DEF TypeOK
  <2>2. server' \in [Calls -> {"none", "running", "late", "answered", "unsent", "over"}]
    BY <1>8 DEF TypeOK
  <2>3. broken' \in BOOLEAN
    BY HandledEffect
  <2> QED BY <1>9, <2>1, <2>2, <2>3 DEF TypeOK
<1>2. SeqSound'
  <2>1. seq[k] # 0
    BY HandledEffect DEF SeqSound
  <2>2. \A x \in responses' : x[1] = seq[x[3]] /\ x[1] # 0
    BY <1>10, <2>1 DEF SeqSound
  <2>3. \A j \in Calls : server'[j] # "none" => seq[j] # 0
    BY <1>8, <2>1 DEF SeqSound, TypeOK
  <2> QED BY <1>9, <2>2, <2>3 DEF SeqSound
<1>3. Responsible'
  BY <1>9 DEF Responsible
<1>4. LockSound'
  BY <1>9 DEF LockSound
<1>5. DoneOnce' /\ ReplyMatches' /\ ShutdownFinishesAll'
  BY <1>9 DEF DoneOnce, ReplyMatches, ShutdownFinishesAll
<1> QED  BY <1>1, <1>2, <1>3, <1>4, <1>5

\* The timeout's response does, too.
LEMMA HandleTimeoutRpc ==
  ASSUME RpcInv, NEW k \in Calls, HandleTimeout(k)
  PROVE  RpcInv'
<1> USE NobodyApart DEF RpcInv, TypeOK
<1>1. TypeOK'
  BY DEF HandleTimeout, clientVars, recvVars, Kinds
<1>2. SeqSound'
  BY DEF HandleTimeout, clientVars, recvVars, SeqSound
<1>3. Responsible'
  BY DEF HandleTimeout, clientVars, recvVars, Responsible
<1>4. LockSound'
  BY DEF HandleTimeout, clientVars, recvVars, LockSound
<1>5. DoneOnce'
  BY DEF HandleTimeout, clientVars, recvVars, DoneOnce
<1>6. ReplyMatches'
  BY DEF HandleTimeout, clientVars, recvVars, ReplyMatches
<1>7. ShutdownFinishesAll'
  BY DEF HandleTimeout, clientVars, recvVars, ShutdownFinishesAll
<1> QED  BY <1>1, <1>2, <1>3, <1>4, <1>5, <1>6, <1>7

\* RpcInv is an invariant of one connection: one step per action.
THEOREM RpcInvariance == Spec => []RpcInv
<1>1. RpcInv /\ [Next]_vars => RpcInv'
  <2> SUFFICES ASSUME RpcInv, [Next]_vars PROVE RpcInv'  OBVIOUS
  <2>1. CASE \E k \in Calls : Caller(k) \/ CtxDone(k) \/ Handled(k) \/ HandleTimeout(k)
    BY <2>1, RefuseRpc, RegisterRpc, WriteRpc, WriteFailsRpc, ReturnRpc, CtxDoneRpc,
       HandledRpc, HandleTimeoutRpc DEF Caller
  <2>2. CASE \E r \in requests : Serve(r[1], r[2])
    BY <2>2, ServeRpc
  <2>3. CASE Receiver
    BY <2>3, ReadHeaderRpc, ReadBodyRpc, ReadBodyFailsRpc, ReadHeaderFailsRpc,
       TerminateRpc DEF Receiver
  <2>4. CASE Close \/ Break
    BY <2>4, CloseBreakRpc
  <2>5. CASE UNCHANGED vars
    BY <2>5, StutterRpc
  <2> QED  BY <2>1, <2>2, <2>3, <2>4, <2>5 DEF Next
<1> QED  BY <1>1, InitRpc, PTL DEF Spec

\* ServedOnce holds besides RpcInv: a request is written once, by the call that
\* was being written, and served by the step that takes it off the wire.
LEMMA ServedStep ==
  ASSUME RpcInv, ServedOnce, Next
  PROVE  ServedOnce'
<1> USE NobodyApart DEF RpcInv, TypeOK
<1>1. ASSUME NEW k \in Calls, Refuse(k) \/ Register(k) PROVE ServedOnce'
  BY <1>1 DEF Refuse, Register, Goto, clientVars, recvVars, serverVars, ServedOnce
<1>2. ASSUME NEW k \in Calls, Write(k) PROVE ServedOnce'
  BY <1>2 DEF Write, Goto, recvVars, ServedOnce
<1>3. ASSUME NEW k \in Calls, WriteFails(k) PROVE ServedOnce'
  BY <1>3 DEF WriteFails, Goto, recvVars, serverVars, ServedOnce
<1>4. ASSUME NEW k \in Calls, Return(k) PROVE ServedOnce'
  BY <1>4 DEF Return, Goto, clientVars, recvVars, serverVars, ServedOnce, ReplyMatches
<1>5. ASSUME NEW k \in Calls, CtxDone(k) PROVE ServedOnce'
  BY <1>5 DEF CtxDone, Goto, recvVars, serverVars, ServedOnce
<1>6. ASSUME NEW k \in Calls, Handled(k) \/ HandleTimeout(k) PROVE ServedOnce'
  <2>1. PICK e \in {"answered", "late", "unsent", "over"} :
          server' = [server EXCEPT ![k] = e] /\ server[k] # "none"
    BY <1>6, HandledEffect DEF HandleTimeout
  <2>2. UNCHANGED <<stage, result, reply, requests>>
    BY <1>6, HandledEffect DEF HandleTimeout
  <2>3. \A j \in Calls : server'[j] = "none" <=> server[j] = "none"
    BY <2>1
  <2> QED BY <2>2, <2>3 DEF ServedOnce
<1>7. ASSUME NEW r \in requests, Serve(r[1], r[2]) PROVE ServedOnce'
  <2>1. r[2] \in Calls /\ r[1] = seq[r[2]]
    BY DEF SeqSound
  <2>2. \A x \in requests' : x \in requests /\ x[2] # r[2]
    <3> SUFFICES ASSUME NEW x \in requests, x[2] = r[2], x # r PROVE FALSE
      BY <1>7 DEF Serve
    <3>1. x[1] = seq[x[2]]
      BY DEF SeqSound
    <3> QED  BY <2>1, <3>1
  <2>3. \A k \in Calls : k # r[2] => server'[k] = server[k]
    BY <1>7, <2>1 DEF Serve
  <2>4. stage[r[2]] \in {"waiting", "returned"}
    BY DEF ServedOnce
  <2>5. UNCHANGED <<stage, result, reply>>
    BY <1>7 DEF Serve
  <2> QED  BY <2>1, <2>2, <2>3, <2>4, <2>5 DEF ServedOnce
<1>8. ASSUME Receiver \/ Close \/ Break PROVE ServedOnce'
  <2>1. UNCHANGED <<stage, result, requests, server>>
    BY <1>8 DEF Receiver, ReadBody, ReadBodyFails, ReadHeaderFails, Terminate, ReadHeader,
       Close, Break, clientVars, serverVars
  <2>2. \A k \in Calls : reply[k] = k => reply'[k] = k
    <3>1. CASE ReadBody
      BY <3>1 DEF ReadBody, Responsible
    <3>2. CASE UNCHANGED reply
      BY <3>2
    <3> QED  BY <1>8, <3>1, <3>2 DEF Receiver, ReadBodyFails, ReadHeaderFails, Terminate,
               ReadHeader, Close, Break
  <2> QED  BY <2>1, <2>2 DEF ServedOnce
<1> QED  BY <1>1, <1>2, <1>3, <1>4, <1>5, <1>6, <1>7, <1>8 DEF Next, Caller

\* The strengthening of RpcInv that the refinement needs is an invariant.
LEMMA ServedInvariance == Spec => []ServedOnce
<1>1. Init => ServedOnce
  BY DEF Init, ServedOnce
<1>2. RpcInv /\ ServedOnce /\ [Next]_vars => ServedOnce'
  BY ServedStep DEF vars, serverVars, ServedOnce
<1> QED  BY <1>1, <1>2, RpcInvariance, PTL DEF Spec

\* Steps that change neither stage, result nor server leave callers and
\* handlers where RemoteCalls sees them.
LEMMA ViewsKept ==
  ASSUME UNCHANGED <<stage, result, server>>
  PROVE  UNCHANGED <<CallView, ExecView>>
BY DEF CallView, ExecView

\* A step that keeps seq, recv, cur and reply and adds no ok response keeps
\* what is offered.
LEMMA OfferedKept ==
  ASSUME UNCHANGED <<seq, recv, cur, reply>>,
         \A k \in Calls : <<seq[k], "ok", k>> \in responses' <=> <<seq[k], "ok", k>> \in responses
  PROVE  UNCHANGED OfferedView
BY DEF OfferedView, Offered

\* A call is made when registerCall accepts or refuses it; what it offers is
\* nothing yet, because no response has a number that is only now given out.
LEMMA MakeStep ==
  ASSUME RpcInv, NEW k \in Calls, Refuse(k) \/ Register(k)
  PROVE  Remote!Make(k)
<1> USE DEF RpcInv, TypeOK
<1>1. CallView[k] = "new" /\ CallView' = [CallView EXCEPT ![k] = "open"]
  <2>1. PICK t \in {"writing", "waiting"} : stage' = [stage EXCEPT ![k] = t]
    BY DEF Refuse, Register, Goto
  <2>2. stage[k] = "new" /\ UNCHANGED result
    BY DEF Refuse, Register
  <2>3. CallView' = [j \in Calls |-> IF j = k THEN "open" ELSE CallView[j]]
    BY <2>1, <2>2 DEF CallView
  <2>4. CallView[k] = "new"
    BY <2>2 DEF CallView
  <2>5. CallView = [j \in Calls |-> CallView[j]]
    BY DEF CallView
  <2> QED  BY <2>3, <2>4, <2>5
<1>2. UNCHANGED ExecView
  BY DEF Refuse, Register, serverVars, ExecView
<1>3. UNCHANGED OfferedView
  <2>1. UNCHANGED <<recv, cur, reply, responses>>
    BY DEF Refuse, Register, recvVars, serverVars
  <2>2. CASE Refuse(k)
    BY <2>1, <2>2, OfferedKept DEF Refuse, clientVars
  <2>3. CASE Register(k)
    <3>1. \A j \in Calls : j # k => seq'[j] = seq[j]
      BY <2>3 DEF Register
    <3>2. seq[k] = 0 /\ seq'[k] = next /\ \A j \in Calls : seq[j] < next
      BY <2>3 DEF Register, SeqSound
    <3>3. <<seq[k], "ok", k>> \notin responses
      BY <3>2 DEF SeqSound
    <3>4. <<seq'[k], "ok", k>> \notin responses
      <4> SUFFICES ASSUME <<seq'[k], "ok", k>> \in responses PROVE FALSE
        OBVIOUS
      <4>1. seq'[k] = seq[k] /\ seq'[k] # 0
        BY DEF SeqSound
      <4> QED  BY <3>2, <4>1
    <3>5. \A j \in Calls : <<seq'[j], "ok", j>> \in responses <=> <<seq[j], "ok", j>> \in responses
      BY <3>1, <3>3, <3>4
    <3> QED  BY <2>1, <3>5 DEF OfferedView, Offered
  <2> QED  BY <2>2, <2>3
<1> QED  BY <1>1, <1>2, <1>3 DEF Remote!Make

\* Return and the end of the caller's context are the two ways a call returns.
LEMMA ReturnStep ==
  ASSUME RpcInv, ServedOnce, NEW k \in Calls, Return(k) \/ CtxDone(k)
  PROVE  \E r \in {"reply", "error", "timeout"} : Remote!Return(k, r)
<1> USE DEF RpcInv, TypeOK
<1>1. PICK r \in {"reply", "error", "timeout"} :
        result' = [result EXCEPT ![k] = r] /\ (r = "reply" => reply[k] = k)
  BY DEF Return, CtxDone, ReplyMatches
<1>2. CallView[k] = "open" /\ CallView' = [CallView EXCEPT ![k] = r]
  <2>1. stage[k] = "waiting" /\ stage' = [stage EXCEPT ![k] = "returned"]
    BY DEF Return, CtxDone, Goto
  <2>2. CallView' = [j \in Calls |-> IF j = k THEN r ELSE CallView[j]]
    BY <1>1, <2>1 DEF CallView
  <2>3. CallView[k] = "open"
    BY <2>1 DEF CallView
  <2>4. CallView = [j \in Calls |-> CallView[j]]
    BY DEF CallView
  <2> QED  BY <2>2, <2>3, <2>4
<1>3. r = "reply" => k \in OfferedView
  BY <1>1 DEF OfferedView, Offered
<1>4. UNCHANGED ExecView
  BY DEF Return, CtxDone, serverVars, ExecView
<1>5. UNCHANGED <<seq, recv, cur, reply, responses>>
  BY DEF Return, CtxDone, clientVars, recvVars, serverVars
<1>6. UNCHANGED OfferedView
  BY <1>5, OfferedKept
<1> QED  BY <1>2, <1>3, <1>4, <1>6 DEF Remote!Return

\* The request leaves the wire with the start, or the refusal, of its handler.
LEMMA StartStep ==
  ASSUME RpcInv, ServedOnce, NEW q \in requests, Serve(q[1], q[2])
  PROVE  q[2] \in Calls /\ Remote!Start(q[2])
<1> USE DEF RpcInv, TypeOK
<1>1. PICK k \in Calls : k = q[2]
  OBVIOUS
<1>2. server[k] = "none" /\ stage[k] \in {"waiting", "returned"} /\ result[k] # "new"
  BY <1>1 DEF ServedOnce
<1>3. CallView[k] # "new" /\ ExecView[k] = "idle"
  BY <1>2 DEF CallView, ExecView
<1>4. PICK e \in {"running", "over"} : server' = [server EXCEPT ![k] = e]
  BY <1>1 DEF Serve
<1>5. ExecView' = [ExecView EXCEPT ![k] = e]
  BY <1>4 DEF ExecView
<1>6. UNCHANGED CallView
  BY DEF Serve, CallView
<1>7. UNCHANGED <<seq, recv, cur, reply>>
  BY DEF Serve, clientVars, recvVars
<1>8. \A j \in Calls : <<seq[j], "ok", j>> \in responses' <=> <<seq[j], "ok", j>> \in responses
  BY DEF Serve
<1>9. UNCHANGED OfferedView
  BY <1>7, <1>8, OfferedKept
<1> QED  BY <1>1, <1>3, <1>5, <1>6, <1>9 DEF Remote!Start

\* A handler ends once; only one that beat the timeout may offer a reply.
LEMMA FinishStep ==
  ASSUME RpcInv, NEW k \in Calls, Handled(k)
  PROVE  Remote!Finish(k)
<1> USE DEF RpcInv, TypeOK
<1>1. server[k] \in {"running", "late"} /\ \E e \in {"answered", "unsent", "over"} : server' = [server EXCEPT ![k] = e]
  BY HandledEffect
<1>2. ExecView[k] = "running" /\ ExecView' = [ExecView EXCEPT ![k] = "over"]
  <2>1. PICK e \in {"answered", "unsent", "over"} : server' = [server EXCEPT ![k] = e]
    BY <1>1
  <2>2. ExecView' = [j \in Calls |-> IF j = k THEN "over" ELSE ExecView[j]]
    BY <2>1 DEF ExecView
  <2>3. ExecView[k] = "running"
    BY <1>1 DEF ExecView
  <2>4. ExecView = [j \in Calls |-> ExecView[j]]
    BY DEF ExecView
  <2> QED  BY <2>2, <2>3, <2>4
<1>3. UNCHANGED CallView
  BY HandledEffect DEF CallView
<1>4. UNCHANGED <<seq, recv, cur, reply>>
  BY HandledEffect DEF clientVars, recvVars
<1>5. \/ responses' = responses
      \/ responses' = responses \cup {<<seq[k], "error", k>>}
      \/ responses' = responses \cup {<<seq[k], "ok", k>>}
  BY HandledEffect
<1>6. CASE responses' = responses \/ responses' = responses \cup {<<seq[k], "error", k>>}
  <2>1. \A j \in Calls : <<seq[j], "ok", j>> \in responses' <=> <<seq[j], "ok", j>> \in responses
    BY <1>6
  <2> QED  BY <1>2, <1>3, <1>4, <2>1, OfferedKept DEF Remote!Finish
<1>7. CASE responses' = responses \cup {<<seq[k], "ok", k>>}
  <2>1. \A j \in Calls : <<seq[j], "ok", j>> \in responses' <=> j = k \/ <<seq[j], "ok", j>> \in responses
    BY <1>7
  <2>2. \A j \in Calls : Offered(j)' <=> j = k \/ Offered(j)
    BY <1>4, <2>1 DEF Offered
  <2>3. OfferedView' = OfferedView \cup {k}
    BY <2>2 DEF OfferedView
  <2> QED  BY <1>2, <1>3, <2>3 DEF Remote!Finish
<1> QED  BY <1>5, <1>6, <1>7

\* What one response offers may be lost, but not to a caller that has it.
LEMMA LoseStep ==
  ASSUME RpcInv, ServedOnce, NEW k \in Calls, UNCHANGED <<CallView, ExecView>>,
         \A j \in Calls : Offered(j)' => Offered(j),
         \A j \in Calls : j # k => (Offered(j) => Offered(j)'),
         UNCHANGED reply
  PROVE  Remote!Lose(k) \/ UNCHANGED <<CallView, ExecView, OfferedView>>
<1>1. CASE Offered(k)' <=> Offered(k)
  BY <1>1 DEF OfferedView
<1>2. CASE Offered(k) /\ ~Offered(k)'
  <2>1. reply[k] # k
    BY <1>2 DEF Offered
  <2>2. CallView[k] # "reply"
    BY <2>1 DEF CallView, ServedOnce
  <2>3. k \in OfferedView /\ OfferedView' = OfferedView \ {k}
    BY <1>2 DEF OfferedView
  <2> QED  BY <2>2, <2>3 DEF Remote!Lose
<1> QED  BY <1>1, <1>2

\* A header hands the offer over to the body that follows, or drops the
\* response of a call that is no longer pending.
LEMMA HeaderStep ==
  ASSUME RpcInv, ServedOnce, NEW s, NEW kind, NEW payload, ReadHeader(s, kind, payload)
  PROVE  payload \in Calls
         /\ (Remote!Lose(payload) \/ UNCHANGED <<CallView, ExecView, OfferedView>>)
<1> USE DEF RpcInv, TypeOK
<1>1. payload \in Calls /\ s = seq[payload] /\ s # 0 /\ kind \in Kinds
  BY DEF ReadHeader, SeqSound
<1>2. UNCHANGED <<stage, result, server, seq, reply>> /\ recv = "header"
  BY DEF ReadHeader
<1>3. \A j \in Calls : <<seq[j], "ok", j>> \in responses' => <<seq[j], "ok", j>> \in responses
  BY DEF ReadHeader
<1>4. \A j \in Calls : j # payload =>
        (<<seq[j], "ok", j>> \in responses => <<seq[j], "ok", j>> \in responses')
  BY DEF ReadHeader
<1>5. recv' = "body" => cur' = <<payload, kind, payload>>
  <2> SUFFICES ASSUME recv' = "body" PROVE cur' = <<payload, kind, payload>>
    OBVIOUS
  <2>1. PICK k \in Registered(s) : cur' = <<k, kind, payload>>
    BY DEF ReadHeader
  <2>2. k = payload
    BY <1>1 DEF Registered, SeqSound
  <2> QED  BY <2>1, <2>2
<1>6. \A j \in Calls : Offered(j)' => Offered(j)
  <2> SUFFICES ASSUME NEW j \in Calls, Offered(j)' PROVE Offered(j)
    OBVIOUS
  <2>1. CASE <<seq[j], "ok", j>> \in responses'
    BY <1>3, <2>1 DEF Offered
  <2>2. CASE recv' = "body" /\ cur' = <<j, "ok", j>>
    <3>1. j = payload /\ kind = "ok"
      BY <1>5, <2>2
    <3> QED  BY <1>1, <3>1 DEF Offered, ReadHeader
  <2> QED  BY <1>2, <2>1, <2>2 DEF Offered
<1>7. \A j \in Calls : j # payload => (Offered(j) => Offered(j)')
  BY <1>2, <1>4 DEF Offered
<1>8. UNCHANGED <<CallView, ExecView>>
  BY <1>2, ViewsKept
<1> QED  BY <1>1, <1>2, <1>6, <1>7, <1>8, LoseStep

\* A body that is read leaves its reply with the caller.
LEMMA BodyStep ==
  ASSUME RpcInv, ReadBody
  PROVE  UNCHANGED <<CallView, ExecView, OfferedView>>
<1> USE NobodyApart DEF RpcInv, TypeOK
<1>1. PICK k \in Calls, kind \in Kinds : cur = <<k, kind, k>>
  <2>1. PICK a, b, c : cur = <<a, b, c>> /\ b \in Kinds
    OBVIOUS
  <2>2. a \in Calls /\ c = a
    BY <2>1 DEF ReadBody, Responsible
  <2> QED  BY <2>1, <2>2
<1>2. UNCHANGED <<stage, result, server, seq, responses>>
  BY DEF ReadBody, clientVars, serverVars
<1>3. reply' = IF kind = "ok" THEN [reply EXCEPT ![k] = k] ELSE reply
  BY <1>1 DEF ReadBody
<1>4. recv = "body" /\ recv' = "header"
  BY DEF ReadBody
<1>5. \A j \in Calls : Offered(j)' <=> Offered(j)
  <2> SUFFICES ASSUME NEW j \in Calls PROVE Offered(j)' <=> Offered(j)
    OBVIOUS
  <2>1. cur = <<j, "ok", j>> <=> j = k /\ kind = "ok"
    BY <1>1
  <2>2. reply'[j] = j <=> reply[j] = j \/ (j = k /\ kind = "ok")
    BY <1>3
  <2> QED  BY <1>2, <1>4, <2>1, <2>2 DEF Offered
<1>6. UNCHANGED OfferedView
  BY <1>5 DEF OfferedView
<1> QED  BY <1>2, <1>6, ViewsKept

\* A body that cannot be read loses what it offered.
LEMMA BodyFailsStep ==
  ASSUME RpcInv, ServedOnce, ReadBodyFails
  PROVE  \/ \E k \in Calls : Remote!Lose(k)
         \/ UNCHANGED <<CallView, ExecView, OfferedView>>
<1> USE NobodyApart DEF RpcInv, TypeOK
<1>1. PICK k \in Calls : cur[1] = k
  BY DEF ReadBodyFails, Responsible
<1>2. UNCHANGED <<stage, result, server, seq, reply, responses>>
  BY DEF ReadBodyFails, clientVars, serverVars
<1>3. recv' = "failed"
  BY DEF ReadBodyFails
<1>4. \A j \in Calls : Offered(j)' => Offered(j)
  BY <1>2, <1>3 DEF Offered
<1>5. \A j \in Calls : j # k => (Offered(j) => Offered(j)')
  <2> SUFFICES ASSUME NEW j \in Calls, j # k, Offered(j) PROVE Offered(j)'
    OBVIOUS
  <2>1. cur # <<j, "ok", j>>
    BY <1>1
  <2> QED  BY <1>2, <2>1 DEF Offered
<1>6. UNCHANGED <<CallView, ExecView>>
  BY <1>2, ViewsKept
<1> QED  BY <1>2, <1>4, <1>5, <1>6, LoseStep

\* The remaining steps are invisible to callers and handlers.
LEMMA SilentStep ==
  ASSUME RpcInv,
         \/ \E k \in Calls : Write(k) \/ WriteFails(k) \/ HandleTimeout(k)
         \/ ReadHeaderFails \/ Terminate \/ Close \/ Break \/ UNCHANGED vars
  PROVE  UNCHANGED <<CallView, ExecView, OfferedView>>
<1> USE DEF RpcInv, TypeOK
<1>1. ASSUME NEW k \in Calls, Write(k) \/ WriteFails(k)
      PROVE  UNCHANGED <<CallView, ExecView, OfferedView>>
  <2>1. UNCHANGED CallView
    BY <1>1 DEF Write, WriteFails, Goto, CallView
  <2>2. UNCHANGED ExecView
    BY <1>1 DEF Write, WriteFails, serverVars, ExecView
  <2>3. UNCHANGED <<seq, recv, cur, reply, responses>>
    BY <1>1 DEF Write, WriteFails, recvVars, serverVars
  <2> QED  BY <2>1, <2>2, <2>3, OfferedKept
<1>2. ASSUME NEW k \in Calls, HandleTimeout(k)
      PROVE  UNCHANGED <<CallView, ExecView, OfferedView>>
  <2>1. UNCHANGED CallView
    BY <1>2 DEF HandleTimeout, CallView
  <2>2. UNCHANGED ExecView
    BY <1>2 DEF HandleTimeout, ExecView
  <2>3. UNCHANGED <<seq, recv, cur, reply>>
    BY <1>2 DEF HandleTimeout, clientVars, recvVars
  <2>4. \A j \in Calls : <<seq[j], "ok", j>> \in responses' <=> <<seq[j], "ok", j>> \in responses
    BY <1>2 DEF HandleTimeout
  <2> QED  BY <2>1, <2>2, <2>3, <2>4, OfferedKept
<1>3. ASSUME ReadHeaderFails
      PROVE  UNCHANGED <<CallView, ExecView, OfferedView>>
  <2>1. UNCHANGED <<stage, result, server, seq, cur, reply, responses>>
    BY <1>3 DEF ReadHeaderFails, clientVars, serverVars
  <2>2. recv # "body" /\ recv' # "body"
    BY <1>3 DEF ReadHeaderFails
  <2>3. UNCHANGED OfferedView
    BY <2>1, <2>2 DEF OfferedView, Offered
  <2> QED  BY <2>1, <2>3, ViewsKept
<1>4. ASSUME Terminate
      PROVE  UNCHANGED <<CallView, ExecView, OfferedView>>
  <2>1. UNCHANGED <<stage, result, server, seq, cur, reply, responses>>
    BY <1>4 DEF Terminate, serverVars
  <2>2. recv # "body" /\ recv' # "body"
    BY <1>4 DEF Terminate
  <2>3. UNCHANGED OfferedView
    BY <2>1, <2>2 DEF OfferedView, Offered
  <2> QED  BY <2>1, <2>3, ViewsKept
<1>5. ASSUME Close \/ Break \/ UNCHANGED vars
      PROVE  UNCHANGED <<CallView, ExecView, OfferedView>>
  <2>1. UNCHANGED <<stage, result, server, seq, recv, cur, reply, responses>>
    BY <1>5 DEF Close, Break, vars, clientVars, recvVars, serverVars
  <2> QED  BY <2>1, ViewsKept, OfferedKept
<1> QED  BY <1>1, <1>2, <1>3, <1>4, <1>5

\* One connection implements RemoteCalls, for any number of calls: each step is
\* one of RemoteCalls or is invisible.
THEOREM ConnectionImplementsCalls == Spec => ImplementsCalls
<1>1. Init => Remote!Init
  BY NobodyApart DEF Init, Remote!Init, CallView, ExecView, OfferedView, Offered
<1>2. RpcInv /\ ServedOnce /\ [Next]_vars => [Remote!Next]_(Remote!remoteVars)
  <2> SUFFICES ASSUME RpcInv, ServedOnce, [Next]_vars
               PROVE  Remote!Next \/ UNCHANGED <<CallView, ExecView, OfferedView>>
    BY DEF Remote!remoteVars
  <2>1. ASSUME NEW k \in Calls, Refuse(k) \/ Register(k) PROVE Remote!Next
    BY <2>1, MakeStep DEF Remote!Next
  <2>2. ASSUME NEW k \in Calls, Return(k) \/ CtxDone(k) PROVE Remote!Next
    BY <2>2, ReturnStep DEF Remote!Next
  <2>3. ASSUME NEW q \in requests, Serve(q[1], q[2]) PROVE Remote!Next
    BY <2>3, StartStep DEF Remote!Next
  <2>4. ASSUME NEW k \in Calls, Handled(k) PROVE Remote!Next
    BY <2>4, FinishStep DEF Remote!Next
  <2>5. ASSUME NEW r \in responses, ReadHeader(r[1], r[2], r[3])
        PROVE  Remote!Next \/ UNCHANGED <<CallView, ExecView, OfferedView>>
    BY <2>5, HeaderStep DEF Remote!Next
  <2>6. CASE ReadBody
    BY <2>6, BodyStep
  <2>7. CASE ReadBodyFails
    BY <2>7, BodyFailsStep DEF Remote!Next
  <2>8. CASE \/ \E k \in Calls : Write(k) \/ WriteFails(k) \/ HandleTimeout(k)
             \/ ReadHeaderFails \/ Terminate \/ Close \/ Break \/ UNCHANGED vars
    BY <2>8, SilentStep
  <2> QED  BY <2>1, <2>2, <2>3, <2>4, <2>5, <2>6, <2>7, <2>8 DEF Next, Caller, Receiver
<1> QED  BY <1>1, <1>2, RpcInvariance, ServedInvariance, PTL
         DEF Spec, ImplementsCalls, Remote!Spec

\* Every variable keeps its type.
THEOREM RpcTypes == Spec => []TypeOK
BY RpcInvariance, PTL DEF RpcInv

\* A call is finished at most once, whichever of receive, send and
\* terminateCalls gets to it: done() never blocks on the full channel.
THEOREM CallsFinishOnce == Spec => []DoneOnce
BY RpcInvariance, PTL DEF RpcInv

\* A reply is decoded into the call whose request it answers, although
\* responses are reordered, late and duplicated by timeouts.
THEOREM RepliesAreOwn == Spec => []ReplyMatches
BY RpcInvariance, PTL DEF RpcInv

\* terminateCalls leaves no registered call waiting.
THEOREM ShutdownIsComplete == Spec => []ShutdownFinishesAll
BY RpcInvariance, PTL DEF RpcInv

-----------------------------------------------------------------------------
(* Wire: reader and writer of one direction keep in step.                  *)

Parts == {H(f) : f \in Frames} \cup {B(f) : f \in Frames}

(* The variables of Wire.                                                  *)
WireTypes ==
  /\ wire \in Seq(Parts) /\ buffer \in Seq(Parts) /\ open \in BOOLEAN /\ left \in BOOLEAN
  /\ reader \in {"header", "body", "ended"} /\ todo \subseteq Frames

(* Headers stand at every other place, each in front of its own body;      *)
(* after is 0 when a header comes first, 1 when a body does.               *)
Alternates(s, after) ==
  \A i \in 1 .. Len(s) : (i + after) % 2 = 1 =>
    \E f \in Frames : s[i] = H(f) /\ (i < Len(s) => s[i + 1] = B(f))

(* What is on the way begins with what the reader expects, and an open     *)
(* connection ends with a body.                                            *)
StreamSound ==
  /\ reader = "header" => Alternates(wire, 0) /\ (open => Len(wire) % 2 = 0)
  /\ reader = "body" =>
       /\ Alternates(wire, 1) /\ (open => Len(wire) % 2 = 1)
       /\ \E f \in Frames : header = H(f) /\ (wire # <<>> => wire[1] = B(f))

WireInv ==
  WireTypes /\ LeftCause /\ (Derailed \/ (buffer = <<>> /\ StreamSound /\ Paired))

(* The parts of messages.                                                  *)
LEMMA PartTypes == \A f \in Frames : H(f) \in Parts /\ B(f) \in Parts
BY DEF Parts

(* A header is no body.                                                    *)
LEMMA HeaderNotBody == \A f : H(f)[1] = "header" /\ H(f)[2] = f
BY DEF H

(* Two parts more change no parity.                                        *)
LEMMA Parity == \A n \in Nat : n % 2 \in {0, 1} /\ (n + 2) % 2 = n % 2
BY SMT

(* A lost step stays lost: the codec does not change, and no message is    *)
(* written twice.                                                          *)
LEMMA DerailedStays ==
  ASSUME UNCHANGED <<codec, side>>, todo' \subseteq todo, left' = left
  PROVE  (Derailed => Derailed') /\ (LeftCause => LeftCause')
BY DEF Derailed, Spoiled, LeftCause

(* At the start nothing is on the way.                                     *)
LEMMA WireStart == WireInit => WireInv
<1> SUFFICES ASSUME WireInit PROVE WireInv
  OBVIOUS
<1>1. <<>> \in Seq(Parts)
  OBVIOUS
<1>3. WireTypes
  BY <1>1 DEF WireInit, WireTypes
<1>2. StreamSound /\ Paired /\ LeftCause
  BY DEF WireInit, StreamSound, Alternates, Paired, LeftCause, Nothing
<1> QED BY <1>2, <1>3 DEF WireInv, WireInit

(* Writing at the end of what alternates.                                  *)
LEMMA WriteAlternates ==
  ASSUME NEW s \in Seq(Parts), NEW after \in {0, 1}, Alternates(s, after),
         (Len(s) + after) % 2 = 0, NEW f \in Frames
  PROVE  /\ Alternates(s \o <<H(f), B(f)>>, after)
         /\ Alternates(s \o <<H(f)>>, after)
<1> DEFINE r == s \o <<H(f), B(f)>>
           q == s \o <<H(f)>>
<1>1. /\ Len(s) \in Nat /\ Len(r) = Len(s) + 2 /\ Len(q) = Len(s) + 1
      /\ \A i \in 1 .. Len(s) : r[i] = s[i] /\ q[i] = s[i]
      /\ r[Len(s) + 1] = H(f) /\ r[Len(s) + 2] = B(f) /\ q[Len(s) + 1] = H(f)
  BY PartTypes
<1> HIDE DEF r, q
<1>2. ASSUME NEW i \in 1 .. Len(r), (i + after) % 2 = 1
      PROVE  \E g \in Frames : r[i] = H(g) /\ (i < Len(r) => r[i + 1] = B(g))
  <2>1. CASE i \in 1 .. Len(s)
    <3>1. i # Len(s)
      BY <1>1, <1>2
    <3>2. i + 1 \in 1 .. Len(s) /\ i < Len(s)
      BY <1>1, <2>1, <3>1
    <3> QED BY <1>1, <1>2, <2>1, <3>2 DEF Alternates
  <2>2. CASE i = Len(s) + 1
    BY <1>1, <2>2
  <2>3. i # Len(s) + 2
    BY <1>1, <1>2
  <2> QED BY <1>1, <2>1, <2>2, <2>3
<1>3. ASSUME NEW i \in 1 .. Len(q), (i + after) % 2 = 1
      PROVE  \E g \in Frames : q[i] = H(g) /\ (i < Len(q) => q[i + 1] = B(g))
  <2>1. CASE i \in 1 .. Len(s)
    <3>1. i # Len(s)
      BY <1>1, <1>3
    <3>2. i + 1 \in 1 .. Len(s) /\ i < Len(s)
      BY <1>1, <2>1, <3>1
    <3> QED BY <1>1, <1>3, <2>1, <3>2 DEF Alternates
  <2>2. CASE i = Len(s) + 1
    BY <1>1, <2>2
  <2> QED BY <1>1, <2>1, <2>2
<1> QED BY <1>2, <1>3 DEF Alternates, r, q

(* The body a reader waits for stays the first part.                       *)
LEMMA WriteBehind ==
  ASSUME NEW s \in Seq(Parts), s # <<>>, NEW t \in Seq(Parts)
  PROVE  (s \o t)[1] = s[1] /\ Len(s) >= 1
OBVIOUS

(* A whole message, or a header and the end of the connection.             *)
LEMMA WriteKeeps ==
  ASSUME WireInv, NEW f \in Frames, WriteMessage(f) \/ GobWriteFails(f)
  PROVE  WireInv'
<1>1. /\ open /\ buffer' = <<>> /\ UNCHANGED <<codec, side, reader, header, messages, left>>
      /\ todo' = todo \ {f}
      /\ \/ wire' = wire \o buffer \o <<H(f), B(f)>> /\ open' = open
         \/ wire' = wire \o buffer \o <<H(f)>> /\ open' = FALSE
  BY DEF WriteMessage, GobWriteFails
<1>2. WireTypes'
  <2>1. wire' \in Seq(Parts)
    <3>1. <<H(f), B(f)>> \in Seq(Parts) /\ <<H(f)>> \in Seq(Parts)
      BY PartTypes
    <3>2. wire \o buffer \in Seq(Parts)
      BY DEF WireInv, WireTypes
    <3>3. wire \o buffer \o <<H(f), B(f)>> \in Seq(Parts)
      BY <3>1, <3>2
    <3>4. wire \o buffer \o <<H(f)>> \in Seq(Parts)
      BY <3>1, <3>2
    <3> QED BY <1>1, <3>3, <3>4
  <2>2. buffer' \in Seq(Parts)
    BY <1>1
  <2> QED BY <1>1, <2>1, <2>2 DEF WireInv, WireTypes
<1>5. LeftCause' /\ (Derailed => Derailed')
  BY <1>1, DerailedStays DEF WireInv
<1>3. CASE Derailed
  BY <1>2, <1>3, <1>5 DEF WireInv
<1>4. CASE ~Derailed
  <2>1. buffer = <<>> /\ StreamSound /\ Paired /\ wire \in Seq(Parts)
    BY <1>4 DEF WireInv, WireTypes
  <2>2. wire \o buffer = wire
    BY <2>1
  <2>3. Paired'
    BY <1>1, <2>1 DEF Paired
  <2>4. PICK t \in {<<H(f), B(f)>>, <<H(f)>>} :
          wire' = wire \o t /\ (open' => t = <<H(f), B(f)>>)
    BY <1>1, <2>2
  <2>5. /\ t \in Seq(Parts) /\ Len(t) \in {1, 2} /\ (open' => Len(t) = 2)
        /\ Len(wire') = Len(wire) + Len(t) /\ Len(wire) \in Nat /\ t[1] = H(f)
    <3>1. /\ <<H(f), B(f)>> \in Seq(Parts) /\ <<H(f)>> \in Seq(Parts)
          /\ Len(<<H(f), B(f)>>) = 2 /\ Len(<<H(f)>>) = 1
          /\ <<H(f), B(f)>>[1] = H(f) /\ <<H(f)>>[1] = H(f)
      BY PartTypes
    <3>2. t \in Seq(Parts) /\ Len(t) \in {1, 2} /\ (open' => Len(t) = 2) /\ t[1] = H(f)
      BY <2>4, <3>1
    <3> QED BY <2>1, <2>4, <3>2
  <2>6. CASE reader = "header"
    <3>1. Alternates(wire, 0) /\ (Len(wire) + 0) % 2 = 0
      BY <1>1, <2>1, <2>5, <2>6 DEF StreamSound
    <3>2. Alternates(wire', 0)
      BY <2>1, <2>4, <3>1, WriteAlternates
    <3>3. open' => Len(wire') % 2 = 0
      <4> SUFFICES ASSUME open' PROVE Len(wire') % 2 = 0
        OBVIOUS
      <4>1. Len(wire') = Len(wire) + 2 /\ Len(wire) % 2 = 0 /\ Len(wire) \in Nat
        BY <1>1, <2>1, <2>5, <2>6 DEF StreamSound
      <4> QED BY <4>1, Parity
    <3> QED BY <1>1, <1>2, <1>5, <2>3, <2>6, <3>2, <3>3 DEF WireInv, StreamSound
  <2>7. CASE reader = "body"
    <3>1. Alternates(wire, 1) /\ Len(wire) % 2 = 1
      BY <1>1, <2>1, <2>7 DEF StreamSound
    <3>2. (Len(wire) + 1) % 2 = 0 /\ wire # <<>>
      BY <2>1, <2>5, <3>1
    <3>3. Alternates(wire', 1)
      BY <2>1, <2>4, <3>1, <3>2, WriteAlternates
    <3>4. open' => Len(wire') % 2 = 1
      <4> SUFFICES ASSUME open' PROVE Len(wire') % 2 = 1
        OBVIOUS
      <4>1. Len(wire') = Len(wire) + 2 /\ Len(wire) \in Nat
        BY <2>5
      <4> QED BY <3>1, <4>1, Parity
    <3>5. wire'[1] = wire[1]
      BY <2>1, <2>4, <2>5, <3>2, WriteBehind
    <3>6. \E g \in Frames : header' = H(g) /\ wire'[1] = B(g)
      BY <1>1, <2>1, <2>7, <3>2, <3>5 DEF StreamSound
    <3> QED BY <1>1, <1>2, <1>5, <2>3, <2>7, <3>3, <3>4, <3>6 DEF WireInv, StreamSound
  <2>8. CASE reader = "ended"
    BY <1>1, <1>2, <1>5, <2>3, <2>8 DEF WireInv, StreamSound
  <2> QED BY <2>6, <2>7, <2>8 DEF WireInv, WireTypes
<1> QED BY <1>3, <1>4

(* What JSON and Protobuf do with a body that does not encode.             *)
LEMMA SpoilKeeps ==
  ASSUME WireInv, NEW f \in Frames, JsonWriteFails(f) \/ ProtobufWriteFails(f)
  PROVE  WireInv'
<1>1. /\ UNCHANGED <<codec, side, reader, open, left>> /\ todo' = todo \ {f}
      /\ f \in Unencodable /\ codec \in {"json", "protobuf"}
  BY DEF JsonWriteFails, ProtobufWriteFails
<1>4. LeftCause'
  BY <1>1, DerailedStays DEF WireInv
<1>5. Derailed'
  BY <1>1 DEF Derailed, Spoiled
<1>2. CASE JsonWriteFails(f)
  <2>1. wire' \in Seq(Parts) /\ buffer' \in Seq(Parts)
    BY <1>2, PartTypes DEF JsonWriteFails, WireInv, WireTypes
  <2> QED BY <1>1, <1>4, <1>5, <2>1 DEF WireInv, WireTypes
<1>3. CASE ProtobufWriteFails(f)
  <2>1. wire' \in Seq(Parts) /\ buffer' \in Seq(Parts)
    BY <1>3, PartTypes DEF ProtobufWriteFails, WireInv, WireTypes
  <2> QED BY <1>1, <1>4, <1>5, <2>1 DEF WireInv, WireTypes
<1> QED BY <1>2, <1>3

(* A connection that breaks loses the end of the stream.                   *)
LEMMA HangupKeeps == WireInv /\ Hangup => WireInv'
<1> SUFFICES ASSUME WireInv, Hangup PROVE WireInv'
  OBVIOUS
<1>1. PICK n \in 0 .. Len(wire) : wire' = SubSeq(wire, 1, n)
  BY DEF Hangup
<1>2. open' = FALSE /\ UNCHANGED <<codec, side, todo, buffer, reader, header, messages, left>>
  BY DEF Hangup
<1>3. /\ wire \in Seq(Parts) /\ wire' \in Seq(Parts) /\ Len(wire') = n /\ Len(wire) \in Nat
      /\ \A i \in 1 .. n : wire'[i] = wire[i]
  BY <1>1 DEF WireInv, WireTypes
<1>4. WireTypes'
  BY <1>2, <1>3 DEF WireInv, WireTypes
<1>5. ASSUME NEW after \in {0, 1}, Alternates(wire, after) PROVE Alternates(wire', after)
  <2> SUFFICES ASSUME NEW i \in 1 .. n, (i + after) % 2 = 1
               PROVE  \E g \in Frames : wire'[i] = H(g) /\ (i < n => wire'[i + 1] = B(g))
    BY <1>3 DEF Alternates
  <2>1. i \in 1 .. Len(wire) /\ (i < n => i < Len(wire) /\ i + 1 \in 1 .. n)
    <3>1. Len(wire) \in Nat /\ n \in Nat /\ n <= Len(wire)
      BY <1>1, <1>3
    <3> QED BY <3>1
  <2> QED BY <1>3, <1>5, <2>1 DEF Alternates
<1>6. wire' # <<>> => wire # <<>> /\ wire'[1] = wire[1]
  BY <1>1, <1>3
<1>7. StreamSound => StreamSound'
  BY <1>2, <1>5, <1>6 DEF StreamSound
<1>8. LeftCause' /\ (Derailed => Derailed')
  BY <1>2, DerailedStays DEF WireInv
<1> QED BY <1>2, <1>4, <1>7, <1>8 DEF WireInv, Paired

(* The rest of a stream.                                                   *)
LEMMA TailAlternates ==
  ASSUME NEW s \in Seq(Parts), s # <<>>
  PROVE  /\ Tail(s) \in Seq(Parts) /\ Len(Tail(s)) = Len(s) - 1 /\ Head(s) = s[1]
         /\ Alternates(s, 0) => Alternates(Tail(s), 1)
         /\ Alternates(s, 1) => Alternates(Tail(s), 0)
<1> DEFINE r == Tail(s)
<1>1. /\ r \in Seq(Parts) /\ Len(s) \in Nat /\ Len(s) >= 1 /\ Len(r) = Len(s) - 1
      /\ \A i \in 1 .. Len(r) : r[i] = s[i + 1]
  OBVIOUS
<1> HIDE DEF r
<1>2. ASSUME NEW a \in {0, 1}, NEW b \in {0, 1}, a + b = 1, Alternates(s, a)
      PROVE  Alternates(r, b)
  <2> SUFFICES ASSUME NEW i \in 1 .. Len(r), (i + b) % 2 = 1
               PROVE  \E g \in Frames : r[i] = H(g) /\ (i < Len(r) => r[i + 1] = B(g))
    BY DEF Alternates
  <2>1. i + 1 \in 1 .. Len(s) /\ ((i + 1) + a) % 2 = 1
    <3>1. i \in Nat /\ i + 1 \in 1 .. Len(s)
      BY <1>1
    <3>2. CASE a = 0 /\ b = 1
      BY <3>1, <3>2
    <3>3. CASE a = 1 /\ b = 0
      <4>1. (i + 1) + a = i + 2 /\ i % 2 = 1
        BY <3>1, <3>3
      <4> QED BY <3>1, <4>1, Parity
    <3> QED BY <1>2, <3>2, <3>3
  <2>2. PICK g \in Frames : s[i + 1] = H(g) /\ (i + 1 < Len(s) => s[(i + 1) + 1] = B(g))
    BY <1>2, <2>1 DEF Alternates
  <2>3. i < Len(r) => i + 1 < Len(s) /\ i + 1 \in 1 .. Len(r)
    BY <1>1
  <2> QED BY <1>1, <2>2, <2>3
<1>3. Head(s) = s[1]
  OBVIOUS
<1>4. (Alternates(s, 0) => Alternates(r, 1)) /\ (Alternates(s, 1) => Alternates(r, 0))
  BY <1>2
<1> QED BY <1>1, <1>3, <1>4 DEF r

(* What is read as a header is one, and its body comes next.               *)
LEMMA NextHeaderKeeps == WireInv /\ NextHeader => WireInv'
<1> SUFFICES ASSUME WireInv, NextHeader PROVE WireInv'
  OBVIOUS
<1>1. /\ reader = "header" /\ wire # <<>> /\ wire' = Tail(wire) /\ header' = Head(wire)
      /\ UNCHANGED <<codec, side, todo, buffer, open, messages, left>>
      /\ reader' \in {"body"} \cup (IF Head(wire)[1] = "body" THEN {"ended"} ELSE {})
  BY DEF NextHeader
<1>2. wire \in Seq(Parts) /\ Len(wire) \in Nat
  BY DEF WireInv, WireTypes
<1>3. wire' \in Seq(Parts) /\ Len(wire') = Len(wire) - 1 /\ header' = wire[1] /\ Len(wire) >= 1
  BY <1>1, <1>2, TailAlternates
<1>4. WireTypes'
  BY <1>1, <1>3 DEF WireInv, WireTypes
<1>7. LeftCause' /\ (Derailed => Derailed')
  BY <1>1, DerailedStays DEF WireInv
<1>5. CASE Derailed
  BY <1>4, <1>5, <1>7 DEF WireInv
<1>6. CASE ~Derailed
  <2>1. buffer = <<>> /\ Paired /\ Alternates(wire, 0) /\ (open => Len(wire) % 2 = 0)
    BY <1>1, <1>6 DEF WireInv, StreamSound
  <2>2. 1 \in 1 .. Len(wire) /\ (1 + 0) % 2 = 1
    BY <1>2, <1>3
  <2>3. PICK f \in Frames : wire[1] = H(f) /\ (1 < Len(wire) => wire[1 + 1] = B(f))
    BY <2>1, <2>2 DEF Alternates
  <2>4. header' = H(f) /\ header'[1] = "header"
    BY <1>3, <2>3, HeaderNotBody
  <2>5. reader' = "body"
    BY <1>1, <2>4
  <2>6. wire' # <<>> => wire'[1] = B(f)
    BY <1>1, <1>2, <1>3, <2>3
  <2>7. Alternates(wire', 1)
    BY <1>1, <1>2, <2>1, TailAlternates
  <2>8. open' => Len(wire') % 2 = 1
    BY <1>1, <1>2, <1>3, <2>1
  <2>9. StreamSound'
    BY <2>4, <2>5, <2>6, <2>7, <2>8 DEF StreamSound
  <2>10. Paired'
    BY <1>1, <2>1, <2>4 DEF Paired
  <2> QED BY <1>1, <1>4, <1>7, <2>1, <2>9, <2>10 DEF WireInv
<1> QED BY <1>5, <1>6

(* What is read as its body is its body.                                   *)
LEMMA NextBodyKeeps == WireInv /\ NextBody => WireInv'
<1> SUFFICES ASSUME WireInv, NextBody PROVE WireInv'
  OBVIOUS
<1>1. /\ reader = "body" /\ wire # <<>> /\ wire' = Tail(wire) /\ header' = Nothing
      /\ UNCHANGED <<codec, side, todo, buffer, open, left>>
      /\ messages' = messages \cup {<<header, Head(wire)>>}
      /\ reader' \in {"ended", "header"}
  BY DEF NextBody
<1>2. wire \in Seq(Parts) /\ Len(wire) \in Nat
  BY DEF WireInv, WireTypes
<1>3. wire' \in Seq(Parts) /\ Len(wire') = Len(wire) - 1 /\ Head(wire) = wire[1]
  BY <1>1, <1>2, TailAlternates
<1>4. WireTypes'
  BY <1>1, <1>3 DEF WireInv, WireTypes
<1>7. LeftCause' /\ (Derailed => Derailed')
  BY <1>1, DerailedStays DEF WireInv
<1>5. CASE Derailed
  BY <1>4, <1>5, <1>7 DEF WireInv
<1>6. CASE ~Derailed
  <2>1. buffer = <<>> /\ Paired /\ Alternates(wire, 1) /\ (open => Len(wire) % 2 = 1)
    BY <1>1, <1>6 DEF WireInv, StreamSound
  <2>2. PICK f \in Frames : header = H(f) /\ wire[1] = B(f)
    BY <1>1, <1>6 DEF WireInv, StreamSound
  <2>3. Alternates(wire', 0)
    BY <1>1, <1>2, <2>1, TailAlternates
  <2>4. open' => Len(wire') % 2 = 0
    BY <1>1, <1>2, <1>3, <2>1
  <2>5. StreamSound'
    BY <1>1, <2>3, <2>4 DEF StreamSound
  <2>6. Paired'
    <3>1. header'[1] # "body"
      BY <1>1 DEF Nothing
    <3>2. messages' = messages \cup {<<H(f), B(f)>>}
      BY <1>1, <1>3, <2>2
    <3> QED BY <1>6, <2>1, <3>1, <3>2 DEF Paired
  <2> QED BY <1>1, <1>4, <1>7, <2>1, <2>5, <2>6 DEF WireInv
<1> QED BY <1>5, <1>6

(* A body left behind is a request's, and its method takes no Protobuf     *)
(* message unless the step was lost before.                                *)
LEMMA LeaveBodyKeeps == WireInv /\ LeaveBody => WireInv'
<1> SUFFICES ASSUME WireInv, LeaveBody PROVE WireInv'
  OBVIOUS
<1>1. /\ reader = "body" /\ codec = "protobuf" /\ "untyped" \in Targets(header)
      /\ header' = Nothing
      /\ UNCHANGED <<codec, side, todo, buffer, wire, open, messages>>
      /\ \/ side = "request" /\ reader' = "header" /\ left' = TRUE
         \/ reader' = "ended" /\ left' = left
  BY DEF LeaveBody
<1>2. WireTypes'
  BY <1>1 DEF WireInv, WireTypes
<1>3. Spoiled <=> Spoiled'
  BY <1>1 DEF Spoiled
<1>4. Untyped # {} \/ Derailed
  <2> SUFFICES ASSUME ~Derailed PROVE Untyped # {}
    OBVIOUS
  <2>1. PICK f \in Frames : header = H(f)
    BY <1>1 DEF WireInv, StreamSound
  <2>2. Targets(header) = {Target(f)}
    BY <2>1, HeaderNotBody DEF Targets
  <2> QED BY <1>1, <2>2 DEF Target
<1>5. LeftCause'
  <2>1. CASE left
    BY <1>1, <1>3, <2>1 DEF WireInv, LeftCause
  <2>2. CASE ~left
    BY <1>1, <1>3, <1>4, <2>2 DEF LeftCause, Derailed
  <2> QED BY <2>1, <2>2
<1>6. CASE Derailed \/ left'
  BY <1>1, <1>2, <1>3, <1>5, <1>6 DEF WireInv, Derailed
<1>7. CASE ~Derailed /\ ~left'
  <2>1. reader' = "ended" /\ buffer' = <<>> /\ Paired
    BY <1>1, <1>7 DEF WireInv
  <2>2. Paired'
    BY <1>1, <2>1 DEF Paired, Nothing
  <2> QED BY <1>2, <1>5, <2>1, <2>2 DEF WireInv, StreamSound
<1> QED BY <1>6, <1>7

(* Every step of writer and reader keeps the invariant.                    *)
LEMMA WireStep == WireInv /\ [WireNext]_wireVars => WireInv'
<1> SUFFICES ASSUME WireInv, [WireNext]_wireVars PROVE WireInv'
  OBVIOUS
<1>1. CASE EndOfStream
  <2>1. LeftCause' /\ (Derailed => Derailed')
    BY <1>1, DerailedStays DEF EndOfStream, WireInv
  <2> QED BY <1>1, <2>1 DEF EndOfStream, WireInv, WireTypes, StreamSound, Paired
<1>2. CASE UNCHANGED wireVars
  <2>1. LeftCause' /\ (Derailed => Derailed')
    BY <1>2, DerailedStays DEF wireVars, WireInv
  <2> QED BY <1>2, <2>1 DEF wireVars, WireInv, WireTypes, StreamSound, Paired
<1> QED BY <1>1, <1>2, WriteKeeps, SpoilKeeps, HangupKeeps, NextHeaderKeeps, NextBodyKeeps,
           LeaveBodyKeeps DEF WireNext

(* Reader and writer keep in step, for any messages, however many of them  *)
(* are unknown or do not decode, and wherever the connection breaks: only  *)
(* a body that does not encode and a request type that is no proto.Message *)
(* lose it.                                                                *)
THEOREM ReadersInStep == WireSpec => []InStep
<1>1. WireInv => InStep
  BY DEF WireInv, InStep
<1> QED BY <1>1, WireStart, WireStep, PTL DEF WireSpec

-----------------------------------------------------------------------------
(* Handshake: nothing is lost while a connection opens.                    *)

(* What either end may write.                                              *)
ClientUnits == {Connect} \cup {OptionLine(c) : c \in NewCodecFuncMap} \cup {Request(i) : i \in Nat}
ServerUnits == {Answer(b) : b \in BOOLEAN} \cup {Reply(i) : i \in Nat}

(* The variables of Handshake.                                             *)
HandTypes ==
  /\ toServer \in Seq(ClientUnits) /\ ahead \in Seq(ClientUnits) /\ got \in Seq(ClientUnits)
  /\ toClient \in Seq(ServerUnits) /\ answered \in Seq(ServerUnits)
  /\ sent \in Nat /\ replied \in Nat
  /\ codecs \in [client : NewCodecFuncMap \cup {""}, server : NewCodecFuncMap \cup {""}]
  /\ clientClosed \in BOOLEAN

(* How far the dial is, and what it has made.                              *)
DialPhase ==
  /\ dialer = "start" => builder = "idle"
  /\ builder \in {"http", "answer"} => via = "http"
  /\ builder \in {"idle", "http", "answer", "option", "failed"} => codecs.client = ""
  /\ builder = "client" \/ dialled = "client" => codecs.client # ""
  /\ dialled = "nil" => clientClosed
  /\ listener = "http" => via = "http"

(* Before the client has its codec nothing but CONNECT and its answer is   *)
(* on the way, one of the two, and when the option line is about to be     *)
(* written neither is: that is why the buffers thrown away were empty.     *)
Before ==
  /\ ahead = <<>> /\ got = <<>> /\ answered = <<>> /\ sent = 0 /\ replied = 0
  /\ codecs.server = "" /\ listener # "serving"
  /\ toServer = <<>> \/ (Len(toServer) = 1 /\ via = "http")
  /\ toClient = <<>> \/ (Len(toClient) = 1 /\ toServer = <<>> /\ listener \in {"line", "done"})
  /\ builder \in {"idle", "http", "option"} => toServer = <<>> /\ toClient = <<>>
  /\ via = "http" /\ builder = "option" => listener \in {"line", "done"}
  /\ via = "http" /\ listener = "line" => toServer = <<>> /\ builder \notin {"idle", "http"}

(* The client's stream from its k-th unit on: the option line is unit 0.   *)
ClientUnit(c, i) == IF i = 0 THEN OptionLine(c) ELSE Request(i)

Carries(k) ==
  /\ sent = k + Len(ahead) + Len(toServer)
  /\ \A i \in 1 .. Len(ahead) : ahead[i] = ClientUnit(codecs.client, k + i)
  /\ \A i \in 1 .. Len(toServer) : toServer[i] = ClientUnit(codecs.client, k + Len(ahead) + i)

(* What the server has read and answered.                                  *)
Answers ==
  /\ Len(got) = replied /\ \A i \in 1 .. Len(got) : got[i] = Request(i)
  /\ Len(answered) + Len(toClient) = replied
  /\ \A i \in 1 .. Len(answered) : answered[i] = Reply(i)
  /\ \A i \in 1 .. Len(toClient) : toClient[i] = Reply(Len(answered) + i)

(* From then on the stream is whole.                                       *)
After ==
  /\ listener # "http" /\ (via = "http" => listener # "listen")
  /\ Answers
  /\ listener \in {"listen", "line"} => Carries(-1) /\ replied = 0 /\ codecs.server = ""
  /\ listener = "serving" => Carries(replied) /\ codecs.server = codecs.client
  /\ codecs.server \in {"", codecs.client}

HandInv ==
  HandTypes /\ DialPhase /\ IF codecs.client = "" THEN Before ELSE After

(* Units have their types, and no codec is empty.                          *)
LEMMA UnitTypes ==
  /\ Connect \in ClientUnits /\ \A c \in NewCodecFuncMap : OptionLine(c) \in ClientUnits /\ c # ""
  /\ \A i \in Nat : Request(i) \in ClientUnits /\ Reply(i) \in ServerUnits
  /\ Answer(TRUE) \in ServerUnits /\ Answer(FALSE) \in ServerUnits
BY DEF ClientUnits, ServerUnits, NewCodecFuncMap

(* The start.                                                              *)
LEMMA HandStart == HandInit => HandInv
<1> SUFFICES ASSUME HandInit PROVE HandInv
  OBVIOUS
<1>1. <<>> \in Seq(ClientUnits) /\ <<>> \in Seq(ServerUnits)
  OBVIOUS
<1>2. HandTypes
  BY <1>1 DEF HandInit, HandTypes
<1>3. DialPhase /\ Before /\ codecs.client = ""
  BY DEF HandInit, DialPhase, Before
<1> QED BY <1>2, <1>3 DEF HandInv

(* Steps of the dial that touch neither stream nor codec.                  *)
LEMMA DialKeeps == HandInv /\ (XDial \/ DialReturns \/ ConnectTimeout) => HandInv'
<1> SUFFICES ASSUME HandInv, XDial \/ DialReturns \/ ConnectTimeout PROVE HandInv'
  OBVIOUS
<1>1. UNCHANGED <<via, toServer, toClient, serverClosed, ahead, callVars, listener, codecs>>
  BY DEF XDial, DialReturns, ConnectTimeout
<1>2. UNCHANGED <<sent, got, replied, answered>> /\ clientClosed' \in BOOLEAN
  BY <1>1 DEF callVars, XDial, DialReturns, ConnectTimeout, HandInv, HandTypes
<1>3. HandTypes'
  BY <1>1, <1>2 DEF HandInv, HandTypes
<1>4. DialPhase'
  BY <1>1 DEF HandInv, DialPhase, XDial, DialReturns, ConnectTimeout, Build, HandTypes
<1>5. Before => Before'
  BY <1>1, <1>2 DEF HandInv, DialPhase, Before, XDial, DialReturns, ConnectTimeout, Build
<1>6. After => After'
  BY <1>1, <1>2 DEF After, Answers, Carries
<1> QED BY <1>1, <1>3, <1>4, <1>5, <1>6 DEF HandInv

(* CONNECT is the only unit on its way.                                    *)
LEMMA NewHTTPClientKeeps == HandInv /\ NewHTTPClient => HandInv'
<1> SUFFICES ASSUME HandInv, NewHTTPClient PROVE HandInv'
  OBVIOUS
<1>1. UNCHANGED <<via, dialer, dialled, clientClosed, toClient, ahead, callVars, listener, codecs>>
  BY DEF NewHTTPClient
<1>2. UNCHANGED <<sent, got, replied, answered>>
  BY <1>1 DEF callVars
<1>3. builder = "http" /\ codecs.client = "" /\ Before /\ via = "http" /\ toServer = <<>>
  BY DEF NewHTTPClient, HandInv, DialPhase, Before
<1>4. toServer' \in {toServer, Append(toServer, Connect)} /\ builder' \in {"answer", "failed"}
  BY <1>3 DEF NewHTTPClient, WriteServer, Build
<1>5. toServer' \in Seq(ClientUnits) /\ (toServer' = <<>> \/ Len(toServer') = 1)
  <2>1. toServer \in Seq(ClientUnits) /\ Connect \in ClientUnits /\ Len(toServer) = 0
    BY <1>3, UnitTypes DEF HandInv, HandTypes
  <2>2. Append(toServer, Connect) \in Seq(ClientUnits) /\ Len(Append(toServer, Connect)) = 1
    BY <2>1
  <2> QED BY <1>3, <1>4, <2>1, <2>2
<1>6. HandTypes' /\ DialPhase'
  BY <1>1, <1>2, <1>3, <1>4, <1>5 DEF HandInv, HandTypes, DialPhase
<1>7. Before'
  BY <1>1, <1>2, <1>3, <1>4, <1>5 DEF Before
<1> QED BY <1>1, <1>3, <1>6, <1>7 DEF HandInv

(* The answer is all there is when it is read.                             *)
LEMMA ReadAnswerKeeps == HandInv /\ ReadAnswer => HandInv'
<1> SUFFICES ASSUME HandInv, ReadAnswer PROVE HandInv'
  OBVIOUS
<1>1. UNCHANGED <<via, dialer, dialled, clientClosed, toServer, ahead, callVars, listener, codecs>>
  BY DEF ReadAnswer
<1>2. UNCHANGED <<sent, got, replied, answered>>
  BY <1>1 DEF callVars
<1>3. builder = "answer" /\ codecs.client = "" /\ Before /\ via = "http"
  BY DEF ReadAnswer, HandInv, DialPhase
<1>4. toClient \in Seq(ServerUnits)
  BY DEF HandInv, HandTypes
<1>9. ASSUME NEW n \in 1 .. Len(toClient), toClient # <<>>
      PROVE  SubSeq(toClient, n + 1, Len(toClient)) = <<>>
  <2>1. Len(toClient) = 1
    BY <1>3, <1>9 DEF Before
  <2>2. n = 1
    BY <1>9, <2>1
  <2> QED BY <1>4, <2>1, <2>2
<1>5. \/ toClient # <<>> /\ toClient' = <<>> /\ builder' \in {"option", "failed"}
      \/ toClient' = toClient /\ builder' = "failed"
  BY <1>9 DEF ReadAnswer, Build
<1>6. toClient' \in Seq(ServerUnits)
  <2>1. <<>> \in Seq(ServerUnits)
    OBVIOUS
  <2> QED BY <1>4, <1>5, <2>1
<1>7. HandTypes' /\ DialPhase'
  BY <1>1, <1>2, <1>3, <1>5, <1>6 DEF HandInv, HandTypes, DialPhase
<1>8. Before'
  BY <1>1, <1>2, <1>3, <1>5 DEF Before
<1> QED BY <1>1, <1>3, <1>7, <1>8 DEF HandInv

(* The option line starts the client's stream.                             *)
LEMMA NewClientKeeps == HandInv /\ NewClient => HandInv'
<1> SUFFICES ASSUME HandInv, NewClient PROVE HandInv'
  OBVIOUS
<1>1. UNCHANGED <<via, dialer, dialled, toClient, ahead, callVars, listener>>
  BY DEF NewClient
<1>2. UNCHANGED <<sent, got, replied, answered>>
  BY <1>1 DEF callVars
<1>3. /\ builder = "option" /\ codecs.client = "" /\ Before
      /\ toServer = <<>> /\ toClient = <<>> /\ HandTypes /\ DialPhase
  BY DEF NewClient, HandInv, DialPhase, Before
<1>4. CASE builder' = "failed" /\ UNCHANGED <<toServer, codecs>>
  <2>1. clientClosed' \in BOOLEAN /\ (clientClosed => clientClosed')
    BY <1>3 DEF NewClient, HandTypes
  <2>2. HandTypes' /\ DialPhase'
    BY <1>1, <1>2, <1>3, <1>4, <2>1 DEF HandTypes, DialPhase
  <2>3. Before'
    BY <1>1, <1>2, <1>3, <1>4 DEF Before
  <2> QED BY <1>3, <1>4, <2>2, <2>3 DEF HandInv
<1>5. ASSUME NEW c \in NewCodecFuncMap, builder' = "client", UNCHANGED clientClosed,
             toServer' = Append(toServer, OptionLine(c)), codecs' = [codecs EXCEPT !.client = c]
      PROVE  HandInv'
  <2>1. codecs'.client = c /\ codecs'.server = "" /\ c # ""
    BY <1>3, <1>5, UnitTypes DEF HandTypes, Before
  <2>2. /\ toServer' \in Seq(ClientUnits) /\ Len(toServer') = 1 /\ toServer'[1] = OptionLine(c)
        /\ Len(ahead) = 0 /\ Len(got) = 0 /\ Len(answered) = 0 /\ Len(toClient) = 0
    <3>1. OptionLine(c) \in ClientUnits
      BY UnitTypes
    <3>2. toServer \in Seq(ClientUnits) /\ Len(toServer) = 0
      BY <1>3 DEF HandTypes
    <3>3. Append(toServer, OptionLine(c)) \in Seq(ClientUnits)
          /\ Len(Append(toServer, OptionLine(c))) = 1
          /\ Append(toServer, OptionLine(c))[1] = OptionLine(c)
      BY <3>1, <3>2
    <3>4. Len(ahead) = 0 /\ Len(got) = 0 /\ Len(answered) = 0 /\ Len(toClient) = 0
      BY <1>3 DEF Before
    <3> QED BY <1>5, <3>3, <3>4
  <2>3. codecs' \in [client : NewCodecFuncMap \cup {""}, server : NewCodecFuncMap \cup {""}]
    BY <1>3, <1>5 DEF HandTypes
  <2>4. HandTypes' /\ DialPhase'
    BY <1>1, <1>2, <1>3, <1>5, <2>1, <2>2, <2>3 DEF HandTypes, DialPhase
  <2>5. Answers'
    <3>1. Len(got') = 0 /\ Len(answered') = 0 /\ Len(toClient') = 0
      BY <1>1, <1>2, <2>2
    <3>2. replied' = 0
      BY <1>2, <1>3 DEF Before
    <3> QED BY <3>1, <3>2 DEF Answers
  <2>6. Carries(-1)'
    <3>1. /\ \A i \in 1 .. Len(toServer') : i = 1 /\ -1 + Len(ahead) + i = 0
      BY <2>2
    <3>2. sent' = 0 /\ Len(ahead') = 0
      BY <1>1, <1>2, <1>3, <2>2 DEF Before
    <3>3. \A i \in 1 .. Len(toServer') :
            toServer'[i] = ClientUnit(codecs'.client, -1 + Len(ahead') + i)
      BY <1>1, <2>1, <2>2, <3>1, <3>2 DEF ClientUnit
    <3>4. \A i \in 1 .. Len(ahead') : ahead'[i] = ClientUnit(codecs'.client, -1 + i)
      BY <3>2
    <3>5. sent' = -1 + Len(ahead') + Len(toServer')
      BY <2>2, <3>2
    <3> QED BY <3>3, <3>4, <3>5 DEF Carries
  <2>7. listener # "http" /\ (via = "http" => listener # "listen") /\ listener # "serving"
    BY <1>3 DEF Before, DialPhase
  <2> QED BY <1>1, <1>2, <1>3, <2>1, <2>4, <2>5, <2>6, <2>7 DEF HandInv, After, Before
<1> QED BY <1>4, <1>5 DEF NewClient, WriteServer, Build

(* A request is appended to the stream.                                    *)
LEMMA SendRequestKeeps == HandInv /\ SendRequest => HandInv'
<1> SUFFICES ASSUME HandInv, SendRequest PROVE HandInv'
  OBVIOUS
<1>1. UNCHANGED <<dialVars, toClient, clientClosed, ahead, got, replied, answered, listener, codecs>>
      /\ sent' = sent + 1 /\ toServer' = Append(toServer, Request(sent + 1))
  BY DEF SendRequest, WriteServer
<1>2. UNCHANGED <<via, dialer, dialled, builder>>
  BY <1>1 DEF dialVars
<1>3. codecs.client # "" /\ After /\ HandTypes /\ DialPhase
  BY DEF SendRequest, HandInv, DialPhase
<1>4. /\ Request(sent + 1) \in ClientUnits /\ toServer \in Seq(ClientUnits)
      /\ sent \in Nat /\ replied \in Nat /\ ahead \in Seq(ClientUnits)
  <2>1. sent \in Nat
    BY <1>3 DEF HandTypes
  <2>2. Request(sent + 1) \in ClientUnits
    <3>1. sent + 1 \in Nat
      BY <2>1
    <3> QED BY <3>1, UnitTypes
  <2> QED BY <1>3, <2>2 DEF HandTypes
<1>5. /\ toServer' \in Seq(ClientUnits) /\ Len(toServer') = Len(toServer) + 1 /\ Len(toServer) \in Nat
      /\ Len(ahead) \in Nat
      /\ \A i \in 1 .. Len(toServer) : toServer'[i] = toServer[i]
      /\ toServer'[Len(toServer) + 1] = Request(sent + 1)
  BY <1>1, <1>4
<1>6. HandTypes' /\ DialPhase'
  <2>1. sent' \in Nat
    BY <1>1, <1>4
  <2> QED BY <1>1, <1>2, <1>3, <1>5, <2>1 DEF HandTypes, DialPhase
<1>7. ASSUME NEW k \in Nat \cup {-1}, Carries(k) PROVE Carries(k)'
  <2>4. sent = k + Len(ahead) + Len(toServer) /\ k \in Int
    BY <1>7 DEF Carries
  <2>1. sent' = k + Len(ahead') + Len(toServer')
    <3>1. sent' = sent + 1 /\ Len(ahead') = Len(ahead) /\ Len(toServer') = Len(toServer) + 1
      BY <1>1, <1>5
    <3> QED BY <1>5, <2>4, <3>1
  <2>2. \A i \in 1 .. Len(ahead') : ahead'[i] = ClientUnit(codecs'.client, k + i)
    BY <1>1, <1>7 DEF Carries
  <2>3. ASSUME NEW i \in 1 .. Len(toServer')
        PROVE  toServer'[i] = ClientUnit(codecs'.client, k + Len(ahead') + i)
    <3>1. CASE i \in 1 .. Len(toServer)
      BY <1>1, <1>5, <1>7, <3>1 DEF Carries
    <3>2. CASE i = Len(toServer) + 1
      <4>1. k + Len(ahead') + i = sent + 1
        <5>1. Len(ahead') = Len(ahead)
          BY <1>1
        <5> QED BY <1>5, <2>4, <3>2, <5>1
      <4>2. sent + 1 # 0
        BY <1>4
      <4> QED BY <1>5, <3>2, <4>1, <4>2 DEF ClientUnit
    <3> QED BY <1>5, <3>1, <3>2
  <2> QED BY <2>1, <2>2, <2>3 DEF Carries
<1>8. After'
  <2>1. Answers'
    BY <1>1, <1>3 DEF After, Answers
  <2>2. (Carries(-1) => Carries(-1)') /\ (Carries(replied) => Carries(replied)')
    BY <1>1, <1>4, <1>7
  <2> QED BY <1>1, <1>2, <1>3, <2>1, <2>2 DEF After
<1> QED BY <1>1, <1>3, <1>6, <1>8 DEF HandInv

(* The client's codec reads the next reply.                                *)
LEMMA ReceiveReplyKeeps == HandInv /\ ReceiveReply => HandInv'
<1> SUFFICES ASSUME HandInv, ReceiveReply PROVE HandInv'
  OBVIOUS
<1>1. /\ UNCHANGED <<dialVars, toServer, clientClosed, ahead, sent, got, replied, listener, codecs>>
      /\ toClient # <<>> /\ toClient' = Tail(toClient)
      /\ answered' = Append(answered, Head(toClient))
  BY DEF ReceiveReply
<1>2. UNCHANGED <<via, dialer, dialled, builder>>
  BY <1>1 DEF dialVars
<1>3. codecs.client # "" /\ After /\ HandTypes /\ DialPhase
  BY DEF ReceiveReply, HandInv
<1>4. /\ toClient \in Seq(ServerUnits) /\ answered \in Seq(ServerUnits)
  BY <1>3 DEF HandTypes
<1>5. /\ toClient' \in Seq(ServerUnits) /\ Len(toClient') = Len(toClient) - 1
      /\ Len(toClient) \in Nat \ {0} /\ Head(toClient) = toClient[1] /\ Head(toClient) \in ServerUnits
      /\ \A i \in 1 .. Len(toClient') : toClient'[i] = toClient[i + 1]
  BY <1>1, <1>4
<1>6. /\ answered' \in Seq(ServerUnits) /\ Len(answered') = Len(answered) + 1 /\ Len(answered) \in Nat
      /\ \A i \in 1 .. Len(answered) : answered'[i] = answered[i]
      /\ answered'[Len(answered) + 1] = toClient[1]
  BY <1>1, <1>4, <1>5
<1>7. HandTypes' /\ DialPhase'
  BY <1>1, <1>2, <1>3, <1>5, <1>6 DEF HandTypes, DialPhase
<1>8. Answers'
  <2>1. Answers
    BY <1>3 DEF After
  <2>2. toClient[1] = Reply(Len(answered) + 1)
    BY <1>5, <2>1 DEF Answers
  <2>3. \A i \in 1 .. Len(answered') : answered'[i] = Reply(i)
    BY <1>6, <2>1, <2>2 DEF Answers
  <2>4. \A i \in 1 .. Len(toClient') : toClient'[i] = Reply(Len(answered') + i)
    <3> SUFFICES ASSUME NEW i \in 1 .. Len(toClient')
                 PROVE  toClient'[i] = Reply(Len(answered') + i)
      OBVIOUS
    <3>1. i + 1 \in 1 .. Len(toClient) /\ Len(answered) + (i + 1) = Len(answered') + i
      BY <1>5, <1>6
    <3> QED BY <1>5, <2>1, <3>1 DEF Answers
  <2> QED BY <1>1, <1>5, <1>6, <2>1, <2>3, <2>4 DEF Answers
<1>9. After'
  BY <1>1, <1>2, <1>3, <1>8 DEF After, Carries
<1> QED BY <1>1, <1>3, <1>7, <1>9 DEF HandInv

(* Accepting a connection reads nothing of it; over HTTP it comes before   *)
(* the client's codec, for that needs the answer.                          *)
LEMMA AcceptKeeps == HandInv /\ Accept => HandInv'
<1> SUFFICES ASSUME HandInv, Accept PROVE HandInv'
  OBVIOUS
<1>1. UNCHANGED <<via, dialer, dialled, builder, toServer, toClient, clientClosed, ahead,
                  sent, got, replied, answered, codecs>>
      /\ listener = "listen" /\ listener' = IF via = "http" THEN "http" ELSE "line"
  BY DEF Accept, dialVars, streamVars, callVars
<1>2. HandTypes' /\ DialPhase'
  BY <1>1 DEF HandInv, HandTypes, DialPhase
<1>3. Before => Before'
  BY <1>1 DEF Before
<1>4. After => After'
  BY <1>1 DEF After, Answers, Carries
<1> QED BY <1>1, <1>2, <1>3, <1>4 DEF HandInv

(* CONNECT is all there is when it is read.                                *)
LEMMA ServeHTTPKeeps == HandInv /\ ServeHTTP => HandInv'
<1> SUFFICES ASSUME HandInv, ServeHTTP PROVE HandInv'
  OBVIOUS
<1>1. UNCHANGED <<via, dialer, dialled, builder, clientClosed, ahead, sent, got, replied,
                  answered, codecs>>
  BY DEF ServeHTTP, dialVars, callVars
<1>2. /\ listener = "http" /\ codecs.client = "" /\ Before /\ Len(toServer) = 1
      /\ toClient = <<>> /\ builder \notin {"idle", "http", "option"}
  BY DEF ServeHTTP, HandInv, After, Before
<1>3. toServer' = <<>>
  <2>1. PICK n \in 1 .. Len(toServer) : toServer' = SubSeq(toServer, n + 1, Len(toServer))
    BY DEF ServeHTTP
  <2>2. toServer \in Seq(ClientUnits) /\ Len(toServer) = 1
    BY <1>2 DEF HandInv, HandTypes
  <2>3. n = 1
    BY <2>2
  <2> QED BY <2>1, <2>2, <2>3
<1>4. PICK b \in BOOLEAN : toClient' = Append(toClient, Answer(b)) /\ listener' \in {"line", "done"}
  BY DEF ServeHTTP, WriteClient
<1>5. Answer(b) \in ServerUnits
  BY DEF ServerUnits
<1>6. toClient' \in Seq(ServerUnits) /\ Len(toClient') = 1
  <2>1. toClient \in Seq(ServerUnits) /\ Len(toClient) = 0
    BY <1>2 DEF HandInv, HandTypes
  <2> QED BY <1>4, <1>5, <2>1
<1>7. toServer' \in Seq(ClientUnits)
  BY <1>3
<1>8. HandTypes' /\ DialPhase'
  BY <1>1, <1>4, <1>6, <1>7 DEF HandInv, HandTypes, DialPhase
<1>9. Before'
  BY <1>1, <1>2, <1>3, <1>4, <1>6 DEF Before
<1> QED BY <1>1, <1>2, <1>8, <1>9 DEF HandInv

(* The reader takes the front of what has arrived.                         *)
LEMMA FillKeeps == HandInv /\ Fill => HandInv'
<1> SUFFICES ASSUME HandInv, Fill PROVE HandInv'
  OBVIOUS
<1>1. /\ UNCHANGED <<via, dialer, dialled, builder, toClient, clientClosed, sent, got, replied,
                     answered, codecs, listener>>
      /\ listener \in {"line", "serving"} /\ ahead = <<>> /\ toServer # <<>>
  BY DEF Fill, dialVars, callVars
<1>2. PICK n \in 1 .. Len(toServer) :
        ahead' = SubSeq(toServer, 1, n) /\ toServer' = SubSeq(toServer, n + 1, Len(toServer))
  BY DEF Fill
<1>3. codecs.client # "" /\ After
  BY <1>1 DEF HandInv, Before
<1>4. toServer \in Seq(ClientUnits) /\ sent \in Nat /\ replied \in Nat /\ Len(ahead) = 0
  BY <1>1 DEF HandInv, HandTypes
<1>5. /\ ahead' \in Seq(ClientUnits) /\ toServer' \in Seq(ClientUnits)
      /\ Len(toServer) \in Nat /\ n \in Nat
      /\ Len(ahead') = n /\ Len(toServer') = Len(toServer) - n
  BY <1>2, <1>4
<1>6. /\ \A i \in 1 .. n : ahead'[i] = toServer[i]
      /\ \A i \in 1 .. Len(toServer) - n : toServer'[i] = toServer[n + i]
  BY <1>2, <1>4, <1>5
<1>7. HandTypes' /\ DialPhase'
  BY <1>1, <1>5 DEF HandInv, HandTypes, DialPhase
<1>8. ASSUME NEW k \in Nat \cup {-1}, Carries(k) PROVE Carries(k)'
  <2>1. \A i \in 1 .. Len(toServer) : toServer[i] = ClientUnit(codecs.client, k + i)
    BY <1>4, <1>8 DEF Carries
  <2>2. sent' = k + Len(ahead') + Len(toServer')
    BY <1>1, <1>4, <1>5, <1>8 DEF Carries
  <2>3. \A i \in 1 .. Len(ahead') : ahead'[i] = ClientUnit(codecs'.client, k + i)
    BY <1>1, <1>2, <1>5, <1>6, <2>1
  <2>4. ASSUME NEW i \in 1 .. Len(toServer')
        PROVE  toServer'[i] = ClientUnit(codecs'.client, k + Len(ahead') + i)
    <3>1. n + i \in 1 .. Len(toServer) /\ k + (n + i) = k + Len(ahead') + i
      BY <1>2, <1>5
    <3> QED BY <1>1, <1>5, <1>6, <2>1, <3>1
  <2> QED BY <2>2, <2>3, <2>4 DEF Carries
<1>9. After'
  <2>1. Answers'
    BY <1>1, <1>3 DEF After, Answers
  <2>2. (Carries(-1) => Carries(-1)') /\ (Carries(replied) => Carries(replied)')
    BY <1>1, <1>4, <1>8
  <2> QED BY <1>1, <1>3, <2>1, <2>2 DEF After
<1> QED BY <1>1, <1>3, <1>7, <1>9 DEF HandInv

(* The tail of what was read ahead is the stream from the next unit on.    *)
LEMMA TakeCarries ==
  ASSUME HandTypes, NEW k \in Nat \cup {-1}, Carries(k), ahead # <<>>, ahead' = Tail(ahead),
         UNCHANGED <<sent, toServer>>, codecs'.client = codecs.client
  PROVE  Carries(k + 1)' /\ Head(ahead) = ClientUnit(codecs.client, k + 1)
         /\ ahead' \in Seq(ClientUnits) /\ Head(ahead) \in ClientUnits
<1>1. ahead \in Seq(ClientUnits) /\ toServer \in Seq(ClientUnits)
  BY DEF HandTypes
<1>2. /\ ahead' \in Seq(ClientUnits) /\ Len(ahead) \in Nat /\ Len(ahead) >= 1
      /\ Len(ahead') = Len(ahead) - 1 /\ Head(ahead) = ahead[1] /\ Head(ahead) \in ClientUnits
      /\ \A i \in 1 .. Len(ahead') : ahead'[i] = ahead[i + 1]
  BY <1>1
<1>3. Len(toServer) \in Nat
  BY <1>1
<1>4. Head(ahead) = ClientUnit(codecs.client, k + 1)
  BY <1>2 DEF Carries
<1>5. sent' = (k + 1) + Len(ahead') + Len(toServer')
  BY <1>2, <1>3 DEF Carries
<1>6. ASSUME NEW i \in 1 .. Len(ahead') PROVE ahead'[i] = ClientUnit(codecs'.client, (k + 1) + i)
  <2>1. i + 1 \in 1 .. Len(ahead) /\ k + (i + 1) = (k + 1) + i
    BY <1>2
  <2> QED BY <1>2, <2>1 DEF Carries
<1>7. ASSUME NEW i \in 1 .. Len(toServer')
      PROVE  toServer'[i] = ClientUnit(codecs'.client, (k + 1) + Len(ahead') + i)
  <2>1. k + Len(ahead) + i = (k + 1) + Len(ahead') + i
    BY <1>2
  <2> QED BY <2>1 DEF Carries
<1> QED BY <1>2, <1>4, <1>5, <1>6, <1>7 DEF Carries

(* The first line is the client's option line.                             *)
LEMMA ServeConnKeeps == HandInv /\ ServeConn => HandInv'
<1> SUFFICES ASSUME HandInv, ServeConn PROVE HandInv'
  OBVIOUS
<1>1. /\ UNCHANGED <<via, dialer, dialled, builder, toServer, toClient, clientClosed, sent, got,
                     replied, answered>>
      /\ listener = "line" /\ ahead # <<>>
  BY DEF ServeConn, dialVars, callVars
<1>2. codecs.client # "" /\ After /\ HandTypes /\ DialPhase
  BY <1>1 DEF HandInv, Before
<1>3. codecs.client \in NewCodecFuncMap /\ Carries(-1) /\ replied = 0
  BY <1>1, <1>2 DEF After, HandTypes
<1>4. Head(ahead) = OptionLine(codecs.client)
  <2>1. ahead \in Seq(ClientUnits)
    BY <1>2 DEF HandTypes
  <2>2. Head(ahead) = ahead[1] /\ 1 \in 1 .. Len(ahead) /\ -1 + 1 = 0
    BY <1>1, <2>1
  <2> QED BY <1>3, <2>2 DEF Carries, ClientUnit
<1>5. Head(ahead)[1] = "option" /\ Head(ahead)[2] = codecs.client
  BY <1>4 DEF OptionLine
<1>6. /\ codecs' = [codecs EXCEPT !.server = codecs.client] /\ listener' = "serving"
      /\ ahead' = Tail(ahead)
  BY <1>3, <1>5 DEF ServeConn, CodecReader
<1>7. codecs'.client = codecs.client /\ codecs'.server = codecs.client
      /\ codecs' \in [client : NewCodecFuncMap \cup {""}, server : NewCodecFuncMap \cup {""}]
  BY <1>2, <1>3, <1>6 DEF HandTypes
<1>8. Carries(0)' /\ ahead' \in Seq(ClientUnits)
  <2>1. Carries(-1 + 1)' /\ ahead' \in Seq(ClientUnits)
    BY <1>1, <1>2, <1>3, <1>6, <1>7, TakeCarries
  <2> QED BY <2>1
<1>9. HandTypes' /\ DialPhase'
  BY <1>1, <1>2, <1>6, <1>7, <1>8 DEF HandTypes, DialPhase
<1>10. After'
  <2>1. Answers'
    BY <1>1, <1>2 DEF After, Answers
  <2>2. Carries(replied)'
    BY <1>1, <1>3, <1>8
  <2> QED BY <1>6, <1>7, <2>1, <2>2 DEF After
<1> QED BY <1>2, <1>7, <1>9, <1>10 DEF HandInv

(* The next request is read and answered.                                  *)
LEMMA ServeRequestKeeps == HandInv /\ ServeRequest => HandInv'
<1> SUFFICES ASSUME HandInv, ServeRequest PROVE HandInv'
  OBVIOUS
<1>1. /\ UNCHANGED <<via, dialer, dialled, builder, toServer, clientClosed, sent, answered,
                     listener, codecs>>
      /\ listener = "serving" /\ ahead # <<>> /\ ahead' = Tail(ahead)
      /\ got' = Append(got, Head(ahead)) /\ replied' = replied + 1
      /\ toClient' = Append(toClient, Reply(replied + 1))
  BY DEF ServeRequest, dialVars, WriteClient
<1>2. codecs.client # "" /\ After /\ HandTypes /\ DialPhase
  BY <1>1 DEF HandInv, Before
<1>3. Carries(replied) /\ replied \in Nat /\ Answers
  BY <1>1, <1>2 DEF After, HandTypes
<1>4. /\ Carries(replied)' /\ Head(ahead) = ClientUnit(codecs.client, replied + 1)
      /\ ahead' \in Seq(ClientUnits) /\ Head(ahead) \in ClientUnits
  <2>1. PICK k \in Nat : k = replied
    BY <1>3
  <2>2. /\ Carries(k + 1)' /\ Head(ahead) = ClientUnit(codecs.client, k + 1)
        /\ ahead' \in Seq(ClientUnits) /\ Head(ahead) \in ClientUnits
    BY <1>1, <1>2, <1>3, <2>1, TakeCarries
  <2>3. replied' = k + 1
    BY <1>1, <2>1
  <2> QED BY <2>1, <2>2, <2>3
<1>5. Head(ahead) = Request(replied + 1)
  BY <1>3, <1>4 DEF ClientUnit
<1>6. got \in Seq(ClientUnits) /\ toClient \in Seq(ServerUnits) /\ Reply(replied + 1) \in ServerUnits
  <2>1. replied + 1 \in Nat
    BY <1>3
  <2>2. Reply(replied + 1) \in ServerUnits
    BY <2>1, UnitTypes
  <2> QED BY <1>2, <2>2 DEF HandTypes
<1>7. /\ got' \in Seq(ClientUnits) /\ Len(got') = Len(got) + 1 /\ Len(got) \in Nat
      /\ \A i \in 1 .. Len(got) : got'[i] = got[i]
      /\ got'[Len(got) + 1] = Request(replied + 1)
  BY <1>1, <1>4, <1>5, <1>6
<1>8. /\ toClient' \in Seq(ServerUnits) /\ Len(toClient') = Len(toClient) + 1 /\ Len(toClient) \in Nat
      /\ \A i \in 1 .. Len(toClient) : toClient'[i] = toClient[i]
      /\ toClient'[Len(toClient) + 1] = Reply(replied + 1)
  BY <1>1, <1>6
<1>9. HandTypes' /\ DialPhase'
  <2>1. replied' \in Nat
    BY <1>1, <1>3
  <2> QED BY <1>1, <1>2, <1>4, <1>7, <1>8, <2>1 DEF HandTypes, DialPhase
<1>10. Answers'
  <2>1. Len(answered) \in Nat
    <3>1. answered \in Seq(ServerUnits)
      BY <1>2 DEF HandTypes
    <3> QED BY <3>1
  <2>2. \A i \in 1 .. Len(got') : got'[i] = Request(i)
    BY <1>3, <1>7 DEF Answers
  <2>3. \A i \in 1 .. Len(toClient') : toClient'[i] = Reply(Len(answered') + i)
    <3> SUFFICES ASSUME NEW i \in 1 .. Len(toClient')
                 PROVE  toClient'[i] = Reply(Len(answered) + i)
      BY <1>1
    <3>1. CASE i \in 1 .. Len(toClient)
      BY <1>3, <1>8, <3>1 DEF Answers
    <3>2. CASE i = Len(toClient) + 1
      <4>1. Len(answered) + i = replied + 1
        BY <1>3, <1>8, <2>1, <3>2 DEF Answers
      <4> QED BY <1>8, <3>2, <4>1
    <3> QED BY <1>8, <3>1, <3>2
  <2>4. Len(got') = replied' /\ Len(answered') + Len(toClient') = replied'
    BY <1>1, <1>3, <1>7, <1>8, <2>1 DEF Answers
  <2>5. \A i \in 1 .. Len(answered') : answered'[i] = Reply(i)
    BY <1>1, <1>3 DEF Answers
  <2> QED BY <2>2, <2>3, <2>4, <2>5 DEF Answers
<1>11. After'
  BY <1>1, <1>2, <1>4, <1>10 DEF After
<1> QED BY <1>1, <1>2, <1>9, <1>11 DEF HandInv

(* The server's end changes nothing it has read.                           *)
LEMMA ServerEndsKeeps == HandInv /\ ServerEnds => HandInv'
<1> SUFFICES ASSUME HandInv, ServerEnds PROVE HandInv'
  OBVIOUS
<1>1. UNCHANGED <<via, dialer, dialled, builder, toServer, toClient, clientClosed, ahead,
                  sent, got, replied, answered, codecs>>
      /\ listener' = "done"
  BY DEF ServerEnds, dialVars, callVars
<1>2. HandTypes' /\ DialPhase'
  BY <1>1 DEF HandInv, HandTypes, DialPhase
<1>3. Before => Before'
  BY <1>1 DEF Before
<1>4. After => After'
  BY <1>1 DEF After, Answers
<1> QED BY <1>1, <1>2, <1>3, <1>4 DEF HandInv

(* Every step keeps the invariant.                                         *)
LEMMA HandStep == HandInv /\ [HandNext]_handVars => HandInv'
<1> SUFFICES ASSUME HandInv, [HandNext]_handVars PROVE HandInv'
  OBVIOUS
<1>1. CASE UNCHANGED handVars
  <2>1. UNCHANGED <<via, dialer, dialled, builder, toServer, toClient, clientClosed, ahead,
                    sent, got, replied, answered, codecs, listener>>
    BY <1>1 DEF handVars, dialVars, streamVars, callVars
  <2>2. HandTypes' /\ DialPhase'
    BY <2>1 DEF HandInv, HandTypes, DialPhase
  <2>3. (Before => Before') /\ (After => After')
    BY <2>1 DEF Before, After, Answers, Carries
  <2> QED BY <2>1, <2>2, <2>3 DEF HandInv
<1> QED BY <1>1, DialKeeps, NewHTTPClientKeeps, ReadAnswerKeeps, NewClientKeeps, SendRequestKeeps,
           ReceiveReplyKeeps, AcceptKeeps, ServeHTTPKeeps, FillKeeps, ServeConnKeeps,
           ServeRequestKeeps, ServerEndsKeeps DEF HandNext

(* The invariant implies the property.                                     *)
LEMMA HandImplies == HandInv => HandshakeKeepsStream
<1> SUFFICES ASSUME HandInv PROVE HandshakeKeepsStream
  OBVIOUS
<1>1. /\ got \in Seq(ClientUnits) /\ answered \in Seq(ServerUnits)
      /\ \A i \in 1 .. Len(got) : got[i] = Request(i)
      /\ \A i \in 1 .. Len(answered) : answered[i] = Reply(i)
  <2>1. got \in Seq(ClientUnits) /\ answered \in Seq(ServerUnits)
    BY DEF HandInv, HandTypes
  <2>2. CASE Before
    <3>1. Len(got) = 0 /\ Len(answered) = 0
      BY <2>2 DEF Before
    <3> QED BY <2>1, <3>1
  <2>3. CASE After
    BY <2>1, <2>3 DEF After, Answers
  <2> QED BY <2>2, <2>3 DEF HandInv
<1>2. got = [i \in 1 .. Len(got) |-> Request(i)]
  BY <1>1
<1>3. answered = [i \in 1 .. Len(answered) |-> Reply(i)]
  BY <1>1
<1>4. codecs.server \in {"", codecs.client}
  BY DEF HandInv, Before, After
<1> QED BY <1>2, <1>3, <1>4 DEF HandshakeKeepsStream, HandInv, DialPhase

(* Opening a connection loses nothing of the streams it opens, over TCP    *)
(* and HTTP, for any options and any number of pipelined requests.         *)
THEOREM OpeningLosesNothing == HandSpec => []HandshakeKeepsStream
BY HandStart, HandStep, HandImplies, PTL DEF HandSpec

-----------------------------------------------------------------------------
(* XClient: one connection per address, and what Broadcast reports.        *)

WorkerType == [at : {"new", "get", "call", "put", "return", "merge", "done"}, from : Nat,
               err : Servers \cup {NoError, Cancelled}]

(* The variables Broadcast's result depends on.                            *)
XTypes ==
  /\ pool \in [Servers -> Nat] /\ pools \in Nat
  /\ worker \in [Servers -> WorkerType] /\ outcome \in [Servers -> Servers \cup {"none", "ok"}]
  /\ berr \in Servers \cup {NoError} /\ breply \in Servers \cup {NoReply}
  /\ cancelled \in BOOLEAN /\ returned \in BOOLEAN

(* A goroutine holds what its call came to, or the cancellation that       *)
(* another one's failure caused.                                           *)
WorkerSound(s) ==
  /\ worker[s].at \in {"new", "get", "call"} => outcome[s] = "none" /\ worker[s].err = NoError
  /\ worker[s].at \in {"put", "return", "merge", "done"} =>
       \/ worker[s].err = NoError /\ outcome[s] = "ok"
       \/ worker[s].err = s /\ outcome[s] = s
       \/ worker[s].err = Cancelled /\ outcome[s] = "none" /\ cancelled
  /\ worker[s].at = "done" /\ worker[s].err # NoError => berr # NoError
  /\ worker[s].at = "done" /\ worker[s].err = NoError => breply # NoReply

(* The error and the reply are those of a server, and nothing was          *)
(* cancelled before there was an error.                                    *)
ResultSound ==
  /\ cancelled => berr # NoError
  /\ berr # NoError => outcome[berr] = berr
  /\ breply # NoReply => outcome[breply] = "ok"
  /\ returned => \A s \in Servers : worker[s].at = "done"

XInv == XTypes /\ (\A s \in Servers : WorkerSound(s)) /\ ResultSound

(* At the start no call was made.                                          *)
LEMMA XStart == XInit => XInv
<1> SUFFICES ASSUME XInit PROVE XInv
  OBVIOUS
<1>1. XTypes
  BY DEF XInit, XTypes, WorkerType, Idle0
<1>2. \A s \in Servers : WorkerSound(s)
  BY DEF XInit, WorkerSound, Idle0
<1> QED BY <1>1, <1>2 DEF XInv, XInit, ResultSound

(* Pools do not matter to what is reported.                                *)
LEMMA GetOrDialKeeps ==
  ASSUME XInv, NEW s \in Servers, DialPool(s)
  PROVE  XInv'
<1>1. /\ worker[s].at = "new" /\ UNCHANGED <<berr, breply, cancelled, outcome, returned>>
      /\ worker' = [worker EXCEPT ![s].at = "get", ![s].from = pool'[s]]
  BY DEF DialPool
<1>2. pool' \in [Servers -> Nat] /\ pools' \in Nat
  BY DEF DialPool, XInv, XTypes
<1>3. worker' \in [Servers -> WorkerType]
  BY <1>1, <1>2 DEF XInv, XTypes, WorkerType
<1>4. XTypes'
  BY <1>1, <1>2, <1>3 DEF XInv, XTypes
<1>5. /\ worker'[s].at = "get" /\ worker'[s].err = worker[s].err
      /\ \A r \in Servers \ {s} : worker'[r] = worker[r]
  BY <1>1, <1>2 DEF XInv, XTypes, WorkerType
<1>6. \A r \in Servers : WorkerSound(r)'
  BY <1>1, <1>5 DEF XInv, WorkerSound
<1>7. ResultSound'
  BY <1>1, <1>5 DEF XInv, ResultSound
<1> QED BY <1>4, <1>6, <1>7 DEF XInv

(* A goroutine's record stays one.                                         *)
LEMMA WorkerTyped ==
  ASSUME XTypes, NEW s \in Servers, NEW a \in {"call", "put", "merge"},
         NEW e \in Servers \cup {NoError, Cancelled},
         worker' = [worker EXCEPT ![s].at = a, ![s].err = e]
  PROVE  /\ worker' \in [Servers -> WorkerType]
         /\ worker'[s].at = a /\ worker'[s].err = e
         /\ \A r \in Servers \ {s} : worker'[r] = worker[r]
BY DEF XTypes, WorkerType

(* A goroutine's step that ends its call, or moves it on.                  *)
LEMMA WorkerFrame ==
  ASSUME XInv, NEW s \in Servers, worker[s].at \in {"get", "call"},
         UNCHANGED <<pool, pools, berr, breply, cancelled, returned>>,
         NEW a \in {"call", "put", "merge"}, NEW e \in Servers \cup {NoError, Cancelled},
         worker' = [worker EXCEPT ![s].at = a, ![s].err = e],
         NEW o \in {"none", "ok", s}, outcome' = [outcome EXCEPT ![s] = o],
         a = "call" => o = "none" /\ e = NoError,
         a # "call" => \/ e = NoError /\ o = "ok"
                       \/ e = s /\ o = s
                       \/ e = Cancelled /\ o = "none" /\ cancelled
  PROVE  XInv'
<1>1. worker' \in [Servers -> WorkerType] /\ outcome' \in [Servers -> Servers \cup {"none", "ok"}]
  <2>1. worker' \in [Servers -> WorkerType]
    BY WorkerTyped DEF XInv
  <2>2. outcome' \in [Servers -> Servers \cup {"none", "ok"}]
    BY DEF XInv, XTypes
  <2> QED BY <2>1, <2>2
<1>2. XTypes'
  BY <1>1 DEF XInv, XTypes
<1>3. /\ worker'[s].at = a /\ worker'[s].err = e /\ outcome'[s] = o
      /\ \A r \in Servers \ {s} : worker'[r] = worker[r] /\ outcome'[r] = outcome[r]
  <2>1. /\ worker'[s].at = a /\ worker'[s].err = e
        /\ \A r \in Servers \ {s} : worker'[r] = worker[r]
    BY WorkerTyped DEF XInv
  <2>2. outcome'[s] = o /\ \A r \in Servers \ {s} : outcome'[r] = outcome[r]
    BY DEF XInv, XTypes
  <2> QED BY <2>1, <2>2
<1>4. ASSUME NEW r \in Servers PROVE WorkerSound(r)'
  <2>1. CASE r = s
    BY <1>3, <2>1 DEF WorkerSound
  <2>2. CASE r # s
    BY <1>3, <2>2 DEF XInv, WorkerSound
  <2> QED BY <2>1, <2>2
<1>5. outcome[s] = "none" /\ ~returned
  BY DEF XInv, WorkerSound, ResultSound, XTypes
<1>6. (berr # NoError => berr # s /\ berr \in Servers) /\ (breply # NoReply => breply # s /\ breply \in Servers)
  BY <1>5, XClientAssumption DEF XInv, ResultSound, XTypes
<1>7. ResultSound'
  BY <1>3, <1>5, <1>6 DEF XInv, ResultSound
<1> QED BY <1>2, <1>4, <1>7 DEF XInv

(* A connection, or the failure to get one.                                *)
LEMMA GetKeeps ==
  ASSUME XInv, NEW s \in Servers, PoolGet(s)
  PROVE  XInv'
<1>1. worker[s].at = "get" /\ UNCHANGED <<pool, pools, berr, breply, cancelled, returned>>
  BY DEF PoolGet
<1>2. outcome[s] = "none" /\ worker[s].err = NoError
  BY <1>1 DEF XInv, WorkerSound
<1>3. CASE At(s, "call") /\ UNCHANGED outcome
  <2>1. worker' = [worker EXCEPT ![s].at = "call", ![s].err = NoError]
    BY <1>2, <1>3 DEF At, XInv, XTypes, WorkerType
  <2>2. outcome' = [outcome EXCEPT ![s] = "none"]
    BY <1>2, <1>3 DEF XInv, XTypes
  <2> QED BY <1>1, <2>1, <2>2, WorkerFrame
<1>4. CASE /\ worker' = [worker EXCEPT ![s].at = "merge", ![s].err = s]
           /\ outcome' = [outcome EXCEPT ![s] = s]
  BY <1>1, <1>4, WorkerFrame
<1> QED BY <1>3, <1>4 DEF PoolGet

(* A reply, an error, or the cancellation.                                 *)
LEMMA CallEndsKeeps ==
  ASSUME XInv, NEW s \in Servers, ClientCall(s)
  PROVE  XInv'
<1>1. worker[s].at = "call" /\ UNCHANGED <<pool, pools, berr, breply, cancelled, returned>>
  BY DEF ClientCall
<1>2. outcome[s] = "none" /\ worker[s].err = NoError
  BY <1>1 DEF XInv, WorkerSound
<1>3. CASE At(s, "put") /\ outcome' = [outcome EXCEPT ![s] = "ok"]
  <2>1. worker' = [worker EXCEPT ![s].at = "put", ![s].err = NoError]
    BY <1>2, <1>3 DEF At, XInv, XTypes, WorkerType
  <2> QED BY <1>1, <1>3, <2>1, WorkerFrame
<1>4. CASE /\ worker' = [worker EXCEPT ![s].at = "put", ![s].err = s]
           /\ outcome' = [outcome EXCEPT ![s] = s]
  BY <1>1, <1>4, WorkerFrame
<1>5. CASE /\ cancelled /\ worker' = [worker EXCEPT ![s].at = "put", ![s].err = Cancelled]
           /\ UNCHANGED outcome
  <2>1. outcome' = [outcome EXCEPT ![s] = "none"]
    BY <1>2, <1>5 DEF XInv, XTypes
  <2> QED BY <1>1, <1>5, <2>1, WorkerFrame
<1> QED BY <1>3, <1>4, <1>5 DEF ClientCall

(* Giving the connection back, to the pool looked up before.               *)
LEMMA PutKeeps ==
  ASSUME XInv, NEW s \in Servers, putClient(s) \/ PoolPut(s)
  PROVE  XInv'
<1>1. /\ worker[s].at \in {"put", "return"}
      /\ \E a \in {"return", "merge"}, n \in Nat :
           worker' = [worker EXCEPT ![s].at = a, ![s].from = n]
      /\ UNCHANGED <<pool, pools, berr, breply, cancelled, outcome, returned>>
  <2>1. CASE putClient(s)
    BY <2>1 DEF putClient, XInv, XTypes
  <2>2. CASE PoolPut(s)
    <3>1. worker[s].at = "return" /\ worker' = [worker EXCEPT ![s].at = "merge"]
      BY <2>2 DEF PoolPut, At
    <3>2. worker[s].from \in Nat /\ worker[s] \in WorkerType
      BY DEF XInv, XTypes, WorkerType
    <3>3. worker' = [worker EXCEPT ![s].at = "merge", ![s].from = worker[s].from]
      BY <3>1, <3>2 DEF XInv, XTypes, WorkerType
    <3> QED BY <2>2, <3>1, <3>2, <3>3 DEF PoolPut
  <2> QED BY <2>1, <2>2
<1>6. PICK a \in {"return", "merge"}, n \in Nat :
        worker' = [worker EXCEPT ![s].at = a, ![s].from = n]
  BY <1>1
<1>7. worker' \in [Servers -> WorkerType]
  BY <1>6 DEF XInv, XTypes, WorkerType
<1>2. XTypes'
  BY <1>1, <1>7 DEF XInv, XTypes
<1>3. /\ worker'[s].at \in {"return", "merge"} /\ worker'[s].err = worker[s].err
      /\ \A r \in Servers \ {s} : worker'[r] = worker[r]
  BY <1>6 DEF XInv, XTypes, WorkerType
<1>4. \A r \in Servers : WorkerSound(r)'
  BY <1>1, <1>3 DEF XInv, WorkerSound
<1>5. ResultSound'
  BY <1>1, <1>3 DEF XInv, ResultSound
<1> QED BY <1>2, <1>4, <1>5 DEF XInv

(* Under the lock: a cancellation is never the first error.                *)
LEMMA MergeKeeps ==
  ASSUME XInv, NEW s \in Servers, Merge(s)
  PROVE  XInv'
<1>1. /\ worker[s].at = "merge" /\ worker' = [worker EXCEPT ![s].at = "done"]
      /\ UNCHANGED <<pool, pools, outcome, returned>>
  BY DEF Merge, At
<1>2. /\ worker'[s].at = "done" /\ worker'[s].err = worker[s].err
      /\ \A r \in Servers \ {s} : worker'[r] = worker[r]
      /\ worker' \in [Servers -> WorkerType]
  BY <1>1 DEF XInv, XTypes, WorkerType
<1>3. WorkerSound(s) /\ worker[s].err \in Servers \cup {NoError, Cancelled}
  BY DEF XInv, XTypes, WorkerType
<1>4. CASE /\ worker[s].err # NoError
           /\ berr' = IF berr = NoError THEN worker[s].err ELSE berr
           /\ cancelled' = TRUE /\ UNCHANGED breply
  <2>1. berr = NoError => worker[s].err = s /\ outcome[s] = s
    BY <1>1, <1>3, <1>4 DEF WorkerSound, XInv, ResultSound
  <2>2. berr' \in Servers /\ outcome[berr'] = berr' /\ berr' # NoError
    BY <1>4, <2>1, XClientAssumption DEF XInv, XTypes, ResultSound
  <2>3. XTypes'
    BY <1>1, <1>2, <1>4, <2>2 DEF XInv, XTypes
  <2>4. \A r \in Servers : WorkerSound(r)'
    BY <1>1, <1>2, <1>3, <1>4, <2>2 DEF XInv, WorkerSound
  <2>5. ResultSound'
    BY <1>1, <1>2, <1>4, <2>2 DEF XInv, ResultSound
  <2> QED BY <2>3, <2>4, <2>5 DEF XInv
<1>5. CASE /\ worker[s].err = NoError
           /\ breply' = IF breply = NoReply THEN s ELSE breply
           /\ UNCHANGED <<berr, cancelled>>
  <2>1. outcome[s] = "ok"
    BY <1>1, <1>3, <1>5, XClientAssumption DEF WorkerSound, Cancelled, NoError
  <2>2. breply' \in Servers /\ outcome[breply'] = "ok" /\ breply' # NoReply
    BY <1>5, <2>1, XClientAssumption DEF XInv, XTypes, ResultSound
  <2>3. XTypes'
    BY <1>1, <1>2, <1>5, <2>2 DEF XInv, XTypes
  <2>4. \A r \in Servers : WorkerSound(r)'
    BY <1>1, <1>2, <1>3, <1>5, <2>2 DEF XInv, WorkerSound
  <2>5. ResultSound'
    BY <1>1, <1>2, <1>5, <2>2 DEF XInv, ResultSound
  <2> QED BY <2>3, <2>4, <2>5 DEF XInv
<1> QED BY <1>4, <1>5 DEF Merge

(* Broadcast's return and a Close change no call.                          *)
LEMMA ReturnCloseKeeps == XInv /\ (BroadcastReturns \/ XClose) => XInv'
<1> SUFFICES ASSUME XInv, BroadcastReturns \/ XClose PROVE XInv'
  OBVIOUS
<1>1. UNCHANGED <<pools, worker, berr, breply, cancelled, outcome>> /\ pool' \in [Servers -> Nat]
  BY DEF BroadcastReturns, XClose, XInv, XTypes
<1>2. returned' = returned \/ (returned' = TRUE /\ \A s \in Servers : worker[s].at = "done")
  BY DEF BroadcastReturns, XClose
<1>3. XTypes'
  BY <1>1, <1>2 DEF XInv, XTypes
<1> QED BY <1>1, <1>2, <1>3 DEF XInv, WorkerSound, ResultSound

(* Every step of Broadcast keeps the invariant.                            *)
LEMMA XStep == XInv /\ [XNext]_xVars => XInv'
<1> SUFFICES ASSUME XInv, [XNext]_xVars PROVE XInv'
  OBVIOUS
<1>1. CASE UNCHANGED xVars
  BY <1>1 DEF xVars, XInv, XTypes, WorkerSound, ResultSound
<1> QED BY <1>1, GetOrDialKeeps, GetKeeps, CallEndsKeeps, PutKeeps, MergeKeeps, ReturnCloseKeeps
        DEF XNext

(* Broadcast reports what happened, for any set of servers.                *)
THEOREM BroadcastReports == XSpec => []BroadcastFaithful
<1>1. XInv => BroadcastFaithful
  <2> SUFFICES ASSUME XInv, returned PROVE BroadcastFaithful
    BY DEF BroadcastFaithful
  <2>1. \A s \in Servers : worker[s].at = "done" /\ WorkerSound(s)
    BY DEF XInv, ResultSound
  <2>2. berr # NoError => berr \in Servers /\ outcome[berr] = berr /\ outcome[berr] # "ok"
    BY XClientAssumption DEF XInv, XTypes, ResultSound
  <2>3. berr = NoError => \A s \in Servers : outcome[s] = "ok"
    BY <2>1, XClientAssumption DEF WorkerSound, Cancelled, NoError
  <2>4. \A s \in Servers : outcome[s] = "ok" => breply # NoReply
    <3> SUFFICES ASSUME NEW s \in Servers, outcome[s] = "ok", breply = NoReply PROVE FALSE
      OBVIOUS
    <3>1. worker[s].err # NoError /\ worker[s].err # s
      BY <2>1, XClientAssumption DEF WorkerSound
    <3> QED BY <2>1, <3>1 DEF WorkerSound
  <2>5. breply # NoReply => outcome[breply] = "ok"
    BY DEF XInv, ResultSound
  <2> QED BY <2>2, <2>3, <2>4, <2>5 DEF BroadcastFaithful
<1> QED BY <1>1, XStart, XStep, PTL DEF XSpec
=============================================================================
