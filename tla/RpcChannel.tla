----------------------------- MODULE RpcChannel -----------------------------
(***************************************************************************)
(* A client and a server RpcChannel with their codecs                      *)
(* (starry/net/rpc/rpc_channel.cpp, protobuf_codec_lite.cpp) on the two    *)
(* ends of one connection, with RpcServer::onConnection and the connection *)
(* callback that the echo client installs.                                 *)
(*                                                                         *)
(* The connection is a FIFO stream of frames in each direction, which is   *)
(* what StreamOrder of TcpConnection shows; it arrives in pieces of any    *)
(* size.  Any thread of the client calls CallMethod; everything else runs  *)
(* on the io loop of its end, and a service may call done at any later     *)
(* time and in any order.  A failed assert, a null pointer and the use of  *)
(* a freed channel set crash and end the behaviour.                        *)
(***************************************************************************)
EXTENDS Naturals, Sequences, FiniteSets

CONSTANTS
  Calls,         \* calls of CallMethod
  Sizes,         \* serialized sizes of messages, in bytes
  ErrorCodes,    \* the frames with errors that a foreign peer may send
  MaxBad         \* bound on their number

ASSUME RpcAssumption ==
  /\ Calls # {}
  /\ Sizes \subseteq Nat
  /\ ErrorCodes \subseteq {"kInvalidLength", "kCheckSumError", "kUnknownMessageType", "kParseError"}
  /\ MaxBad \in Nat

VARIABLES
  services,      \* services_: the calls whose service and method the server has
  id,            \* id_ of the client's channel
  pc,            \* where each call is in CallMethod
  callId,        \* the id it was given
  outstandings,  \* outstandings_: a function from ids to calls
  answers,       \* the responses each call's done was called with
  working,       \* requests whose done the server's service still holds
  conn,          \* state_ of each end's TcpConnection
  wire,          \* the frames on their way to each end, in part or in full
  part,          \* how much of the first of them has arrived, see Parts
  buffer,        \* the complete frames in each end's inputBuffer_
  decoding,      \* each end's loop is inside ProtobufCodecLite::onMessage
  failed,        \* each end has called errorCallback_
  bad,           \* frames with errors sent so far
  crash          \* what ended the process

callVars == <<id, pc, callId, outstandings>>
inVars == <<wire, part, buffer, decoding>>
vars == <<services, callVars, answers, working, conn, inVars, failed, bad, crash>>

Ends == {"client", "server"}
Other(e) == IF e = "client" THEN "server" ELSE "client"

\* nothing, less than kMinMessageLen + kHeaderLen, or more but not all of a frame
Parts == {"none", "short", "long"}
Rank(p) == CASE p = "none" -> 0 [] p = "short" -> 1 [] p = "long" -> 2

Frames == [kind : {"REQUEST", "RESPONSE"} \cup ErrorCodes, id : Nat, call : Calls]
Members(s) == {s[i] : i \in DOMAIN s}

Init ==
  /\ services \in SUBSET Calls
  /\ id = 0
  /\ pc = [c \in Calls |-> "idle"]
  /\ callId = [c \in Calls |-> 0]
  /\ outstandings = <<>>
  /\ answers = [c \in Calls |-> <<>>]
  /\ working = {}
  /\ conn = [e \in Ends |-> "kConnected"]
  /\ wire = [e \in Ends |-> <<>>]
  /\ part = [e \in Ends |-> "none"]
  /\ buffer = [e \in Ends |-> <<>>]
  /\ decoding = [e \in Ends |-> FALSE]
  /\ failed = [e \in Ends |-> FALSE]
  /\ bad = 0
  /\ crash = "none"

------------------------------------------------------------------------------
(* The codec: sending *)

\* serializeToBuffer compares the size with its low eight bits; a mismatch makes
\* the assert in fillEmptyBuffer fail
serializeFails(size) == size % 2^8 # size

\* TcpConnection::send, from this end to the other
Sent(e, f) ==
  IF conn[e] = "kConnected" /\ conn[Other(e)] # "kDisconnected"
    THEN [wire EXCEPT ![Other(e)] = Append(@, f)]
    ELSE wire

\* ProtobufCodecLite::send of a message of the given size
codecSend(e, f, size) ==
  IF serializeFails(size)
    THEN crash' = "assert in fillEmptyBuffer" /\ UNCHANGED wire
    ELSE wire' = Sent(e, f) /\ UNCHANGED crash

------------------------------------------------------------------------------
(* RpcChannel::CallMethod, on any thread of the client *)

\* int64_t id = ++id_
AssignId(c) ==
  /\ pc[c] = "idle"
  /\ id' = id + 1
  /\ callId' = [callId EXCEPT ![c] = id + 1]
  /\ pc' = [pc EXCEPT ![c] = "register"]
  /\ UNCHANGED <<outstandings, answers, working, conn, inVars, failed, bad, crash>>

\* outstandings_[id] = out under mutex_
Register(c) ==
  /\ pc[c] = "register"
  /\ outstandings' = [i \in DOMAIN outstandings \cup {callId[c]} |->
                        IF i = callId[c] THEN c ELSE outstandings[i]]
  /\ pc' = [pc EXCEPT ![c] = "send"]
  /\ UNCHANGED <<id, callId, answers, working, conn, inVars, failed, bad, crash>>

\* codec_.send(conn_, message); conn_ is null once the client's connection is down
Send(c) ==
  /\ pc[c] = "send"
  /\ pc' = [pc EXCEPT ![c] = "sent"]
  /\ IF conn["client"] = "kDisconnected"
       THEN crash' = "null conn_" /\ UNCHANGED wire
       ELSE \E size \in Sizes :
              codecSend("client", [kind |-> "REQUEST", id |-> callId[c], call |-> c], size)
  /\ UNCHANGED <<id, callId, outstandings, answers, working, conn, part, buffer,
                 decoding, failed, bad>>

------------------------------------------------------------------------------
(* The codec: receiving *)

\* TcpConnection::handleRead: any number of the bytes on their way are read, and
\* messageCallback_ enters ProtobufCodecLite::onMessage
HandleRead(e) ==
  /\ conn[e] # "kDisconnected"
  /\ ~decoding[e]
  /\ \E n \in 0 .. Len(wire[e]), p \in Parts :
       /\ n = 0 => Rank(p) > Rank(part[e])
       /\ n = Len(wire[e]) => p = "none"
       /\ part' = [part EXCEPT ![e] = p]
       /\ wire' = [wire EXCEPT ![e] = SubSeq(@, n + 1, Len(@))]
       /\ buffer' = [buffer EXCEPT ![e] = @ \o SubSeq(wire[e], 1, n)]
  /\ decoding' = [decoding EXCEPT ![e] = TRUE]
  /\ UNCHANGED <<callVars, answers, working, conn, failed, bad, crash>>

\* the length of the first frame can be read, and is invalid
InvalidLength(e) ==
  \/ buffer[e] # <<>> /\ Head(buffer[e]).kind = "kInvalidLength"
  \/ buffer[e] = <<>> /\ part[e] = "long" /\ Head(wire[e]).kind = "kInvalidLength"

\* the first frame is complete, and parse returns kNoError
ValidFrame(e) == buffer[e] # <<>> /\ Head(buffer[e]).kind \in {"REQUEST", "RESPONSE"}

\* the first frame is complete, and parse finds an error
ParseError(e) ==
  /\ buffer[e] # <<>>
  /\ Head(buffer[e]).kind \in ErrorCodes \ {"kInvalidLength"}

\* too few bytes for a frame: the while loop is left
DecodeWait(e) ==
  /\ decoding[e]
  /\ ~InvalidLength(e) /\ ~ValidFrame(e) /\ ~ParseError(e)
  /\ decoding' = [decoding EXCEPT ![e] = FALSE]
  /\ UNCHANGED <<callVars, answers, working, conn, wire, part, buffer, failed, bad, crash>>

\* Mutant: a frame that cannot be parsed is skipped and decoding goes on.
DecodeErrorSkips(e) ==
  /\ decoding[e]
  /\ InvalidLength(e) \/ ParseError(e)
  /\ failed' = [failed EXCEPT ![e] = TRUE]
  /\ IF buffer[e] # <<>>
       THEN buffer' = [buffer EXCEPT ![e] = Tail(@)] /\ UNCHANGED decoding
       ELSE decoding' = [decoding EXCEPT ![e] = FALSE] /\ UNCHANGED buffer
  /\ UNCHANGED <<callVars, answers, working, conn, wire, part, bad, crash>>

\* errorCallback_, which is defaultErrorCallback, and break
DecodeError(e) ==
  /\ decoding[e]
  /\ InvalidLength(e) \/ ParseError(e)
  /\ failed' = [failed EXCEPT ![e] = TRUE]
  /\ conn' = [conn EXCEPT ![e] = IF @ = "kConnected" THEN "kDisconnecting" ELSE @]
  /\ decoding' = [decoding EXCEPT ![e] = FALSE]
  /\ UNCHANGED <<callVars, answers, working, wire, part, buffer, bad, crash>>

\* buf->retrieve(kHeaderLen + len)
RetrieveFrame(e) == buffer' = [buffer EXCEPT ![e] = Tail(@)]

Delivers(e, kind) == decoding[e] /\ ValidFrame(e) /\ Head(buffer[e]).kind = kind

\* Mutant: if in the place of while, one frame for each call of onMessage.
DecodeRequestOnce ==
  /\ Delivers("server", "REQUEST")
  /\ LET f == Head(buffer["server"]) IN
       working' = IF f.call \notin services THEN working
                  ELSE working \cup {[id |-> f.id, call |-> f.call]}
  /\ RetrieveFrame("server")
  /\ decoding' = [decoding EXCEPT !["server"] = FALSE]
  /\ UNCHANGED <<callVars, answers, conn, wire, part, failed, bad, crash>>

\* Mutant: the whole buffer is retrieved with the first frame.
DecodeRequestRetrievesAll ==
  /\ Delivers("server", "REQUEST")
  /\ LET f == Head(buffer["server"]) IN
       working' = IF f.call \notin services THEN working
                  ELSE working \cup {[id |-> f.id, call |-> f.call]}
  /\ buffer' = [buffer EXCEPT !["server"] = <<>>]
  /\ UNCHANGED <<callVars, answers, conn, wire, part, decoding, failed, bad, crash>>

\* onRpcMessage and callServiceMethod: the service is handed the request and
\* doneCallback; an unknown service or method is ignored
DecodeRequest ==
  /\ Delivers("server", "REQUEST")
  /\ LET f == Head(buffer["server"]) IN
       working' = IF f.call \notin services THEN working
                  ELSE working \cup {[id |-> f.id, call |-> f.call]}
  /\ RetrieveFrame("server")
  /\ UNCHANGED <<callVars, answers, conn, wire, part, decoding, failed, bad, crash>>

\* Mutant: the call is found but not erased.
DecodeResponseNoErase ==
  /\ Delivers("client", "RESPONSE")
  /\ LET f == Head(buffer["client"]) IN
       answers' = IF f.id \notin DOMAIN outstandings THEN answers
                  ELSE [answers EXCEPT ![outstandings[f.id]] = Append(@, f.call)]
  /\ RetrieveFrame("client")
  /\ UNCHANGED <<callVars, working, conn, wire, part, decoding, failed, bad, crash>>

\* onRpcMessage: the call is found and erased under mutex_, and its done called
\* with the response; a response without a call is only logged
DecodeResponse ==
  /\ Delivers("client", "RESPONSE")
  /\ LET f == Head(buffer["client"]) IN
       /\ answers' = IF f.id \notin DOMAIN outstandings THEN answers
                     ELSE [answers EXCEPT ![outstandings[f.id]] = Append(@, f.call)]
       /\ outstandings' = [i \in DOMAIN outstandings \ {f.id} |-> outstandings[i]]
  /\ RetrieveFrame("client")
  /\ UNCHANGED <<id, pc, callId, working, conn, wire, part, decoding, failed, bad, crash>>

\* doneCallback, bound to a raw pointer to the channel, which goes with the
\* context when the server's connection is down
DoneCallback(w) ==
  /\ w \in working
  /\ working' = working \ {w}
  /\ IF conn["server"] = "kDisconnected"
       THEN crash' = "freed RpcChannel" /\ UNCHANGED wire
       ELSE \E size \in Sizes :
              codecSend("server", [kind |-> "RESPONSE", id |-> w.id, call |-> w.call], size)
  /\ UNCHANGED <<callVars, answers, conn, part, buffer, decoding, failed, bad>>

------------------------------------------------------------------------------
(* The connection *)

\* TcpConnection::shutdown by the user of an end, e.g. TcpClient::disconnect
Shutdown(e) ==
  /\ conn[e] = "kConnected"
  /\ conn' = [conn EXCEPT ![e] = "kDisconnecting"]
  /\ UNCHANGED <<callVars, answers, working, inVars, failed, bad, crash>>

\* the FIN of the other end follows its data: handleClose and the connection
\* callback.  What is sent to this end from now on is lost.
HandleClose(e) ==
  /\ conn[e] # "kDisconnected"
  /\ conn[Other(e)] # "kConnected"
  /\ wire[e] = <<>>
  /\ ~decoding[e]
  /\ conn' = [conn EXCEPT ![e] = "kDisconnected"]
  /\ buffer' = [buffer EXCEPT ![e] = <<>>]
  /\ UNCHANGED <<callVars, answers, working, wire, part, decoding, failed, bad, crash>>

\* the other end is not this codec and sends a frame that it does not accept
BadFrame(e) ==
  /\ bad < MaxBad
  /\ conn[Other(e)] = "kConnected"
  /\ bad' = bad + 1
  /\ \E k \in ErrorCodes :
       wire' = Sent(Other(e), [kind |-> k, id |-> 0, call |-> CHOOSE c \in Calls : TRUE])
  /\ UNCHANGED <<callVars, answers, working, conn, part, buffer, decoding, failed, crash>>

------------------------------------------------------------------------------
CallMethod(c) == AssignId(c) \/ Register(c) \/ Send(c)

Decode(e) ==
  \/ DecodeWait(e) \/ DecodeError(e)
  \/ e = "server" /\ DecodeRequest
  \/ e = "client" /\ DecodeResponse

Serve == \E w \in working : DoneCallback(w)

\* a step of a process that has not been aborted
Running(A) == crash = "none" /\ A /\ UNCHANGED services

Next ==
  \/ \E c \in Calls : Running(CallMethod(c))
  \/ \E e \in Ends :
       Running(BadFrame(e) \/ HandleRead(e) \/ Decode(e) \/ Shutdown(e) \/ HandleClose(e))
  \/ Running(Serve)

\* The loops of both ends run, a thread that is inside CallMethod goes on, and
\* services answer.  Nobody need make a call or shut the connection down.
FairSpec ==
  /\ Init
  /\ [][Next]_vars
  /\ \A c \in Calls : WF_vars(Running(Register(c) \/ Send(c)))
  /\ \A e \in Ends : WF_vars(Running(HandleRead(e) \/ Decode(e)))
  /\ WF_vars(Running(Serve))

------------------------------------------------------------------------------
(* Properties *)

\* Types; an id is given out once a call has begun, and outstandings_ holds only ids
\* that were given out.
TypeOK ==
  /\ services \subseteq Calls
  /\ id \in Nat
  /\ pc \in [Calls -> {"idle", "register", "send", "sent"}]
  /\ callId \in [Calls -> 0 .. id]
  /\ \A c \in Calls : callId[c] = 0 <=> pc[c] = "idle"
  /\ DOMAIN outstandings \subseteq 1 .. id
  /\ \A i \in DOMAIN outstandings : outstandings[i] \in Calls
  /\ answers \in [Calls -> Seq(Calls)]
  /\ working \subseteq [id : Nat, call : Calls]
  /\ conn \in [Ends -> {"kConnected", "kDisconnecting", "kDisconnected"}]
  /\ wire \in [Ends -> Seq(Frames)] /\ buffer \in [Ends -> Seq(Frames)]
  /\ part \in [Ends -> Parts]
  /\ \A e \in Ends : part[e] # "none" => wire[e] # <<>>
  /\ decoding \in [Ends -> BOOLEAN] /\ failed \in [Ends -> BOOLEAN]

\* ids of the calls that are somewhere between CallMethod and done
Travelling ==
  working \cup {[id |-> f.id, call |-> f.call] :
    f \in {g \in UNION {Members(wire[e]) \cup Members(buffer[e]) : e \in Ends} :
             g.kind \in {"REQUEST", "RESPONSE"}}}

\* A request, a running service and a response belong to the call that
\* outstandings_ holds under their id, and a call in outstandings_ is not yet
\* answered: no response is unknown when it comes, or goes to another call. With
\* the types.
Routed ==
  /\ TypeOK
  /\ \A w \in Travelling : w.id \in DOMAIN outstandings /\ outstandings[w.id] = w.call
  /\ \A i \in DOMAIN outstandings : answers[outstandings[i]] = <<>>
  /\ \A c \in Calls : answers[c] \in {<<>>, <<c>>}

BothConnected == \A e \in Ends : conn[e] = "kConnected"

\* While both ends are connected, a call that was sent and not answered is in a
\* stream, in a buffer or with its service, whatever arrives in one piece with it.
NoCallLost ==
  crash = "none" /\ BothConnected =>
    \A c \in services :
      pc[c] = "sent" /\ answers[c] = <<>> => \E w \in Travelling : w.call = c

\* Once a frame was found to be invalid the stream is out of step: the channel of
\* that end handles no frame after it.
NothingAfterError ==
  [][/\ failed["client"] => answers' = answers
     /\ failed["server"] => working' \subseteq working]_vars

\* A call that was sent is answered, unless the connection is given up.
CallIsAnswered ==
  \A c \in Calls :
    pc[c] = "sent" /\ c \in services ~> answers[c] # <<>> \/ ~BothConnected \/ crash # "none"
==============================================================================
