----------------------------- MODULE Handshake -----------------------------
(***************************************************************************)
(* Opening one GrowRPC connection: XDial, dialTimeout and the goroutine    *)
(* that builds the client (apps/pkg/GrowRPC/client.go) against Accept,     *)
(* ServeHTTP and ServeConn (server.go).  Both ends read through buffers    *)
(* that take more than they look at; over HTTP two of those buffers are    *)
(* thrown away before the codecs start.                                    *)
(*                                                                         *)
(* What travels is a sequence of units: the CONNECT request and its        *)
(* answer, the line with the Option, then requests and replies.  TCP and   *)
(* the HTTP server are external: order is kept, a read returns any         *)
(* non-empty part of what has arrived.                                     *)
(***************************************************************************)
EXTENDS Integers, Sequences

CONSTANTS Addresses,   \* forms of an address: "tcp", "http", "malformed"
          Given,       \* the options a caller passes, see parseOptions
          MaxRequests  \* number of requests the client pipelines

ASSUME HandshakeAssumption ==
  /\ Addresses \subseteq {"tcp", "http", "malformed"} /\ MaxRequests \in Nat
  /\ Given \subseteq {"none", "two", "", "gob", "json", "protobuf", "xml"}

VARIABLES
  via, given,   \* address and options of the dial
  limited,      \* ConnectTimeout is not 0
  dialer,       \* "start", "waiting", "returned"
  dialled,      \* what it returned: "none", "client", "nil"
  builder,      \* goroutine in dialTimeout: "idle", "http", "answer",
                \* "option", "client", "failed", "sent"
  toServer, toClient,       \* units on the way
  clientClosed, serverClosed,
  listener,     \* "listen", "http", "line", "serving", "done"
  ahead,        \* units ServeConn's bufio.Reader has taken
  sent, got,    \* requests written by the client, read by the server's codec
  replied, answered,        \* replies written, read by the client's codec
  codecs        \* codec each end has chosen, "" before

dialVars == <<via, given, limited, dialer, dialled, builder>>
streamVars == <<toServer, toClient, clientClosed, serverClosed, ahead>>
callVars == <<sent, got, replied, answered>>
handVars == <<dialVars, streamVars, callVars, listener, codecs>>

NewCodecFuncMap == {"gob", "json", "protobuf"}

Connect == <<"connect", 0>>
Answer(ok) == <<"answer", IF ok THEN 1 ELSE 0>>
OptionLine(c) == <<"option", c>>
Request(i) == <<"request", i>>
Reply(i) == <<"reply", i>>

(* parseOptions: no option is the default one, an empty codec is its codec. *)
parseOptions == IF given \in {"none", ""} THEN "gob" ELSE given

WriteServer(u) == toServer' = Append(toServer, u)
WriteClient(u) == toClient' = Append(toClient, u)
Build(b) == builder' = b

----------------------------------------------------------------------------
(* XDial and dialTimeout up to the goroutine: a malformed address, two     *)
(* options or a connect that fails end the dial before there is a          *)
(* connection to close.                                                    *)
XDial ==
  /\ dialer = "start"
  /\ \/ dialer' = "returned" /\ dialled' = "nil" /\ clientClosed' = TRUE /\ UNCHANGED builder
     \/ /\ via # "malformed" /\ given # "two"
        /\ dialer' = "waiting" /\ Build(IF via = "http" THEN "http" ELSE "option")
        /\ UNCHANGED <<dialled, clientClosed>>
  /\ UNCHANGED <<via, given, limited, toServer, toClient, serverClosed, ahead, callVars,
                 listener, codecs>>

(* NewHTTPClient writes CONNECT, or fails to.                              *)
NewHTTPClient ==
  /\ builder = "http"
  /\ \/ ~clientClosed /\ WriteServer(Connect) /\ Build("answer")
     \/ UNCHANGED toServer /\ Build("failed")
  /\ UNCHANGED <<via, given, limited, dialer, dialled, toClient, clientClosed, serverClosed,
                 ahead, callVars, listener, codecs>>

(* ReadResponse reads through a bufio.Reader of its own, which is dropped  *)
(* with the units it took after the answer.                                *)
ReadAnswer ==
  /\ builder = "answer"
  /\ \/ /\ toClient # <<>> /\ ~clientClosed
        /\ \E n \in 1 .. Len(toClient) : toClient' = SubSeq(toClient, n + 1, Len(toClient))
        /\ Build(IF Head(toClient) = Answer(TRUE) THEN "option" ELSE "failed")
     \/ /\ clientClosed \/ (serverClosed /\ toClient = <<>>)
        /\ Build("failed") /\ UNCHANGED toClient
  /\ UNCHANGED <<via, given, limited, dialer, dialled, toServer, clientClosed, serverClosed,
                 ahead, callVars, listener, codecs>>

(* NewClient looks the codec up and writes the option line; a failed write *)
(* closes the connection, an unknown codec leaves that to dialTimeout.     *)
NewClient ==
  /\ builder = "option"
  /\ \/ /\ parseOptions \in NewCodecFuncMap /\ ~clientClosed
        /\ WriteServer(OptionLine(parseOptions)) /\ Build("client")
        /\ codecs' = [codecs EXCEPT !.client = parseOptions] /\ UNCHANGED clientClosed
     \/ /\ parseOptions \in NewCodecFuncMap /\ clientClosed' = TRUE
        /\ Build("failed") /\ UNCHANGED <<toServer, codecs>>
     \/ /\ parseOptions \notin NewCodecFuncMap
        /\ Build("failed") /\ UNCHANGED <<toServer, codecs, clientClosed>>
  /\ UNCHANGED <<via, given, limited, dialer, dialled, toClient, serverClosed, ahead,
                 callVars, listener>>

(* The goroutine hands its dialled over on the unbuffered channel.  Without *)
(* a client the deferred function closes the connection.                   *)
DialReturns ==
  /\ dialer = "waiting" /\ builder \in {"client", "failed"}
  /\ dialer' = "returned" /\ Build("sent")
  /\ dialled' = IF builder = "client" THEN "client" ELSE "nil"
  /\ clientClosed' = (clientClosed \/ builder = "failed")
  /\ UNCHANGED <<via, given, limited, toServer, toClient, serverClosed, ahead, callVars,
                 listener, codecs>>

(* The timer fires first: nobody receives from the channel any more.       *)
ConnectTimeout ==
  /\ dialer = "waiting" /\ limited
  /\ dialer' = "returned" /\ dialled' = "nil" /\ clientClosed' = TRUE
  /\ UNCHANGED <<via, given, limited, builder, toServer, toClient, serverClosed, ahead,
                 callVars, listener, codecs>>

(* The caller sends its calls without waiting for anything.                *)
SendRequest ==
  /\ dialled = "client" /\ ~clientClosed /\ sent < MaxRequests
  /\ sent' = sent + 1 /\ WriteServer(Request(sent'))
  /\ UNCHANGED <<dialVars, toClient, clientClosed, serverClosed, ahead, got, replied,
                 answered, listener, codecs>>

(* receive runs as soon as the client exists, returned or not; the end of  *)
(* the stream ends it.                                                     *)
ReceiveReply ==
  /\ codecs.client # "" /\ ~clientClosed /\ toClient # <<>>
  /\ toClient' = Tail(toClient) /\ answered' = Append(answered, Head(toClient))
  /\ UNCHANGED <<dialVars, toServer, clientClosed, serverClosed, ahead, sent, got,
                 replied, listener, codecs>>

----------------------------------------------------------------------------
(* Accept starts ServeConn for a connection; an HTTP server reads the      *)
(* request first, and may take more than the request.                      *)
Accept ==
  /\ listener = "listen" /\ dialer # "start" /\ builder # "idle"
  /\ listener' = IF via = "http" THEN "http" ELSE "line"
  /\ UNCHANGED <<dialVars, streamVars, callVars, codecs>>

(* ServeHTTP: the answer to CONNECT goes out on the hijacked connection,   *)
(* and the buffer that comes with it is dropped.  Another HTTP server, or  *)
(* a hijack that fails, answers something else and closes.                 *)
ServeHTTP ==
  /\ listener = "http" /\ toServer # <<>> /\ Head(toServer) = Connect
  /\ \E n \in 1 .. Len(toServer) : toServer' = SubSeq(toServer, n + 1, Len(toServer))
  /\ \/ WriteClient(Answer(TRUE)) /\ listener' = "line" /\ UNCHANGED serverClosed
     \/ WriteClient(Answer(FALSE)) /\ listener' = "done" /\ serverClosed' = TRUE
  /\ UNCHANGED <<dialVars, clientClosed, ahead, callVars, codecs>>

(* A read of br takes any part of what has arrived.                        *)
Fill ==
  /\ listener \in {"line", "serving"} /\ ahead = <<>> /\ toServer # <<>>
  /\ \E n \in 1 .. Len(toServer) :
       /\ ahead' = SubSeq(toServer, 1, n)
       /\ toServer' = SubSeq(toServer, n + 1, Len(toServer))
  /\ UNCHANGED <<dialVars, toClient, clientClosed, serverClosed, callVars, listener, codecs>>

(* As CodecReader, but the codec reads from the connection itself.         *)
MutCodecReader(rest) == <<>>

(* safeBufferConn: the codec reads what is left in br, then the connection. *)
CodecReader(rest) == rest

(* ServeConn reads one line, parses it and starts the codec it names.      *)
ServeConn ==
  /\ listener = "line" /\ ahead # <<>>
  /\ LET c == Head(ahead)[2]
     IN IF Head(ahead)[1] = "option" /\ c \in NewCodecFuncMap
        THEN /\ codecs' = [codecs EXCEPT !.server = c] /\ listener' = "serving"
             /\ ahead' = CodecReader(Tail(ahead)) /\ UNCHANGED serverClosed
        ELSE listener' = "done" /\ serverClosed' = TRUE /\ UNCHANGED <<codecs, ahead>>
  /\ UNCHANGED <<dialVars, toServer, toClient, clientClosed, callVars>>

(* serveCodec reads a request and answers it (RpcCall has the details).    *)
ServeRequest ==
  /\ listener = "serving" /\ ahead # <<>>
  /\ ahead' = Tail(ahead) /\ got' = Append(got, Head(ahead))
  /\ replied' = replied + 1 /\ WriteClient(Reply(replied'))
  /\ UNCHANGED <<dialVars, toServer, clientClosed, serverClosed, sent, answered, listener,
                 codecs>>

(* The client's end is closed and everything it sent has been read.        *)
ServerEnds ==
  /\ listener \in {"http", "line", "serving"} /\ clientClosed
  /\ toServer = <<>> /\ ahead = <<>>
  /\ listener' = "done" /\ serverClosed' = TRUE
  /\ UNCHANGED <<dialVars, toServer, toClient, clientClosed, ahead, callVars, codecs>>

----------------------------------------------------------------------------
HandInit ==
  /\ via \in Addresses /\ given \in Given /\ limited \in BOOLEAN
  /\ dialer = "start" /\ dialled = "none" /\ builder = "idle"
  /\ toServer = <<>> /\ toClient = <<>> /\ clientClosed = FALSE /\ serverClosed = FALSE
  /\ listener = "listen" /\ ahead = <<>> /\ sent = 0 /\ got = <<>> /\ replied = 0
  /\ answered = <<>> /\ codecs = [client |-> "", server |-> ""]

HandNext ==
  \/ XDial \/ NewHTTPClient \/ ReadAnswer \/ NewClient \/ DialReturns \/ ConnectTimeout
  \/ SendRequest \/ ReceiveReply \/ Accept \/ ServeHTTP \/ Fill \/ ServeConn
  \/ ServeRequest \/ ServerEnds

HandSpec == HandInit /\ [][HandNext]_handVars

----------------------------------------------------------------------------
(* Properties.                                                             *)

(* Opening a connection loses nothing of the streams it opens: the         *)
(* listener's codec reads the client's requests and the client's codec the   *)
(* listener's replies from the first one on, in order, whatever the buffers  *)
(* of the handshake took ahead (safeBufferConn, NewHTTPClient, ServeHTTP); *)
(* the two codecs are the same; and a dial that returned no client, after  *)
(* a timeout too, left no open connection behind (dialTimeout's defer).    *)
HandshakeKeepsStream ==
  /\ got = [i \in 1 .. Len(got) |-> Request(i)]
  /\ answered = [i \in 1 .. Len(answered) |-> Reply(i)]
  /\ codecs.client # "" /\ codecs.server # "" => codecs.client = codecs.server
  /\ dialled = "nil" => clientClosed
=============================================================================
