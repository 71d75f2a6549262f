-------------------------------- MODULE Wire --------------------------------
(***************************************************************************)
(* One direction of a GrowRPC connection as its codec writes and reads it  *)
(* (apps/pkg/GrowRPC/codec): every message is a header and a body, written *)
(* under one lock, and the reader alternates between the two              *)
(* (server.go readRequest, client.go receive).  The codecs differ in what  *)
(* they do with a body that does not encode, that nobody claims, or whose  *)
(* value they cannot decode into.                                          *)
(***************************************************************************)
EXTENDS Integers, Sequences

CONSTANTS Frames,        \* messages to write
          Unencodable,   \* their body does not encode
          Unclaimed,     \* unknown method, or a call that gave up: body drained
          Undecodable,   \* their body is read, but does not decode
          Untyped        \* the reader's value for the body is no proto.Message

ASSUME WireAssumption ==
  Unencodable \cup Unclaimed \cup Undecodable \cup Untyped \subseteq Frames

VARIABLES
  codec,      \* "gob", "json", "protobuf"
  side,       \* "request": the server reads; "response": the client reads
  todo,       \* messages not yet written
  buffer,     \* bufio.Writer: parts not yet flushed
  wire,       \* parts on the way
  open,       \* the writer has not closed the connection
  reader,     \* what is read next: "header", "body", or "ended"
  header,     \* the part read as the last header
  messages,   \* the pairs of parts read as header and body
  left        \* history: a body was left unread and the next header asked for

wireVars == <<codec, side, todo, buffer, wire, open, reader, header, messages, left>>

H(f) == <<"header", f>>
B(f) == <<"body", f>>
Nothing == <<"nothing">>

----------------------------------------------------------------------------
(* Write of a message, the buffer flushed at its end.                      *)
WriteMessage(f) ==
  /\ open /\ f \in todo \ Unencodable /\ todo' = todo \ {f}
  /\ wire' = wire \o buffer \o <<H(f), B(f)>> /\ buffer' = <<>>
  /\ UNCHANGED <<codec, side, open, reader, header, messages, left>>

(* Gob flushes the header and closes the connection.                       *)
GobWriteFails(f) ==
  /\ codec = "gob" /\ open /\ f \in todo \cap Unencodable /\ todo' = todo \ {f}
  /\ wire' = wire \o buffer \o <<H(f)>> /\ buffer' = <<>> /\ open' = FALSE
  /\ UNCHANGED <<codec, side, reader, header, messages, left>>

(* JSON logs the error, flushes the header and reports success.            *)
JsonWriteFails(f) ==
  /\ codec = "json" /\ open /\ f \in todo \cap Unencodable /\ todo' = todo \ {f}
  /\ wire' = wire \o buffer \o <<H(f)>> /\ buffer' = <<>>
  /\ UNCHANGED <<codec, side, open, reader, header, messages, left>>

(* Protobuf reports the error and leaves the header in the buffer.         *)
ProtobufWriteFails(f) ==
  /\ codec = "protobuf" /\ open /\ f \in todo \cap Unencodable /\ todo' = todo \ {f}
  /\ buffer' = Append(buffer, H(f))
  /\ UNCHANGED <<codec, side, wire, open, reader, header, messages, left>>

(* The connection ends; the last parts may be lost.                        *)
Hangup ==
  /\ open /\ open' = FALSE
  /\ \E n \in 0 .. Len(wire) : wire' = SubSeq(wire, 1, n)
  /\ UNCHANGED <<codec, side, todo, buffer, reader, header, messages, left>>

----------------------------------------------------------------------------
(* readRequestHeader, and the loop of receive.  A body taken for a header  *)
(* may decode or not.                                                      *)
NextHeader ==
  /\ reader = "header" /\ wire # <<>> /\ wire' = Tail(wire) /\ header' = Head(wire)
  /\ reader' \in {"body"} \cup (IF Head(wire)[1] = "body" THEN {"ended"} ELSE {})
  /\ UNCHANGED <<codec, side, todo, buffer, open, messages, left>>

(* The value a body is read into: none for an unknown method and a call    *)
(* that gave up, a value that is no proto.Message, or another.  A part     *)
(* wrongly taken for a header may name any of them.                        *)
Target(f) == IF f \in Unclaimed THEN "none" ELSE IF f \in Untyped THEN "untyped" ELSE "typed"
Targets(h) == IF h[1] = "header" THEN {Target(h[2])} ELSE {"none", "untyped", "typed"}

(* Whether ReadBody, having read the part, reports success: gob decodes a  *)
(* body nobody claims into an interface{}, which no concrete body allows.  *)
Decodes(target, p) ==
  IF target = "none" THEN {codec # "gob"}
  ELSE IF p[1] = "body" THEN {p[2] \notin Undecodable}
  ELSE BOOLEAN

(* As NextBody, but a body nobody claims is left where it is.              *)
MutNextBody ==
  /\ reader = "body" /\ wire # <<>> /\ reader' = "header" /\ header' = Nothing
  /\ IF header[2] \in Unclaimed
     THEN UNCHANGED <<wire, messages>>
     ELSE wire' = Tail(wire) /\ messages' = messages \cup {<<header, Head(wire)>>}
  /\ UNCHANGED <<codec, side, todo, buffer, open, left>>

(* ReadBody reads the part.  After an error the server answers, or has     *)
(* ignored it for an unknown method, and goes on; the client stops.        *)
NextBody ==
  /\ reader = "body" /\ wire # <<>> /\ wire' = Tail(wire)
  /\ messages' = messages \cup {<<header, Head(wire)>>} /\ header' = Nothing
  /\ \E target \in Targets(header) :
       /\ target = "untyped" => codec # "protobuf"
       /\ \E ok \in Decodes(target, Head(wire)) :
            reader' = IF ok \/ side = "request" THEN "header" ELSE "ended"
  /\ UNCHANGED <<codec, side, todo, buffer, open, left>>

(* Protobuf's ReadBody refuses a value that is no proto.Message before it  *)
(* reads a byte.  The server answers and asks for the next header, the     *)
(* client stops.                                                           *)
LeaveBody ==
  /\ reader = "body" /\ codec = "protobuf" /\ "untyped" \in Targets(header)
  /\ header' = Nothing
  /\ IF side = "request" THEN reader' = "header" /\ left' = TRUE
                         ELSE reader' = "ended" /\ left' = left
  /\ UNCHANGED <<codec, side, todo, buffer, wire, open, messages>>

EndOfStream ==
  /\ reader # "ended" /\ wire = <<>> /\ ~open /\ reader' = "ended"
  /\ UNCHANGED <<codec, side, todo, buffer, wire, open, header, messages, left>>

----------------------------------------------------------------------------
WireInit ==
  /\ codec \in {"gob", "json", "protobuf"} /\ side \in {"request", "response"}
  /\ todo = Frames /\ buffer = <<>> /\ wire = <<>> /\ open = TRUE
  /\ reader = "header" /\ header = Nothing /\ messages = {} /\ left = FALSE

WireNext ==
  \/ \E f \in Frames : \/ WriteMessage(f) \/ GobWriteFails(f) \/ JsonWriteFails(f)
                       \/ ProtobufWriteFails(f)
  \/ Hangup \/ NextHeader \/ NextBody \/ LeaveBody \/ EndOfStream

WireSpec == WireInit /\ [][WireNext]_wireVars

----------------------------------------------------------------------------
(* Properties.                                                             *)

(* What makes JSON and Protobuf lose the step: a body that does not encode *)
(* was tried, or the server left one unread.                               *)
Spoiled == codec \in {"json", "protobuf"} /\ ~(Unencodable \subseteq todo)
Derailed == Spoiled \/ left

(* A body is left by a Protobuf server only, because of its request type   *)
(* or of an earlier loss of the step.                                      *)
LeftCause == left => codec = "protobuf" /\ side = "request" /\ (Untyped # {} \/ Spoiled)

(* What was read as header and body was written as such, of one message.   *)
Paired == /\ header[1] # "body"
          /\ \A m \in messages : \E f \in Frames : m = <<H(f), B(f)>>

(* Reader and writer keep in step: what is read as a header and a body was *)
(* written as the header and the body of one message, whatever methods are *)
(* unknown, calls gave up, bodies do not decode and wherever the           *)
(* connection breaks (readRequest, receive, ReadBody(nil)).  The step is   *)
(* lost in two ways only: a body that does not encode under JSON or        *)
(* Protobuf, and a Protobuf server whose request type is no proto.Message. *)
InStep == LeftCause /\ (Derailed \/ Paired)
=============================================================================
