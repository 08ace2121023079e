---------------------------- MODULE JsonEndpoint ----------------------------
(***************************************************************************)
(* subsys/json_endpoint: a thread that receives datagrams of a topic and   *)
(* a JSON object, has the application's handler answer them, and replies.  *)
(* The handler is a global that another thread sets at some time; the      *)
(* receive buffer, the request and the response are globals that keep what *)
(* an earlier datagram left in them.                                       *)
(*                                                                         *)
(* A datagram is a name: what matters of it is who sent it and what        *)
(* parsing makes of it.  It is shorter than the buffer, which has the size *)
(* of the largest packet on the network (1280 bytes).                      *)
(***************************************************************************)
EXTENDS FiniteSets

CONSTANTS
  Datagrams, Clients,
  From,         \* who sends which datagram
  None          \* no datagram

EndpointAssumption ==
  /\ From \in [Datagrams -> Clients]
  /\ None \notin Datagrams \union Clients

ASSUME EndpointAssumption

\* What parsing makes of a datagram: there is no '{' in it; json::parse throws
\* a parse_error; it throws another exception, such as the out_of_range for a
\* number that is too large; it returns an object.
Kinds == {"noMap", "malformed", "outOfRange", "object"}

VARIABLES
  kind,         \* what each datagram is
  fate,         \* where each datagram is
  replies,      \* what was given to sendto() successfully
  sock,         \* the socket
  handler,      \* m_json_endpoint_handler is set
  pc,           \* where the thread is
  recvBuf,      \* recv_buf: the datagram it holds
  received,     \* whether the last recvfrom() worked
  clientAddr,   \* client_addr
  request,      \* the global request: the datagram it was parsed from
  valid,        \* what the parsing returned
  response,     \* the global response: the datagram it answers
  trouble       \* history: since the start of the device a socket call failed
                \* or an exception was not caught

network  == <<kind, fate, replies>>
globals  == <<recvBuf, received, clientAddr, request, valid, response>>
endpointVars == <<network, sock, handler, pc, globals, trouble>>

EndpointTypeOK ==
  /\ kind \in [Datagrams -> Kinds]
  /\ fate \in [Datagrams -> {"unsent", "queued", "taken", "done", "lost"}]
  /\ replies \subseteq [to : Clients, about : Datagrams, valid : BOOLEAN]
  /\ sock \in {"none", "open", "bound"}
  /\ handler \in BOOLEAN
  /\ pc \in {"delay", "bind", "recv", "test", "parse", "handle", "reply", "dead"}
  /\ recvBuf \in Datagrams \union {None}
  /\ received \in BOOLEAN
  /\ clientAddr \in Clients \union {None}
  /\ request \in Datagrams \union {None}
  /\ valid \in BOOLEAN
  /\ response \in Datagrams \union {None}
  /\ trouble \in BOOLEAN

\* The RAM after a start.
EndpointCleared ==
  /\ sock' = "none" /\ handler' = FALSE /\ pc' = "delay"
  /\ recvBuf' = None /\ received' = FALSE /\ clientAddr' = None
  /\ request' = None /\ valid' = FALSE /\ response' = None
  /\ trouble' = FALSE

EndpointInit ==
  /\ kind \in [Datagrams -> Kinds]
  /\ fate = [d \in Datagrams |-> "unsent"] /\ replies = {}
  /\ sock = "none" /\ handler = FALSE /\ pc = "delay"
  /\ recvBuf = None /\ received = FALSE /\ clientAddr = None
  /\ request = None /\ valid = FALSE /\ response = None
  /\ trouble = FALSE

-----------------------------------------------------------------------------
(* The network                                                             *)

\* A datagram reaches the socket's queue, or nothing that listens.
Arrive(d) ==
  /\ fate[d] = "unsent"
  /\ fate' = [fate EXCEPT ![d] = IF sock = "bound" THEN "queued" ELSE "lost"]
  /\ UNCHANGED <<kind, replies, sock, handler, pc, globals, trouble>>

\* What is queued or in the thread's hands is open.
Open == {d \in Datagrams : fate[d] \in {"queued", "taken"}}

-----------------------------------------------------------------------------
(* The thread.  It starts a second after the kernel; start_udp's errors    *)
(* are logged and forgotten.  udp_started is never set by then, because    *)
(* nothing calls the send_udp of this file.                                *)

GoTo(there) == pc' = there

Socket ==
  /\ pc = "delay"
  /\ \/ sock' = "open" /\ GoTo("bind") /\ UNCHANGED trouble
     \/ GoTo("recv") /\ trouble' = TRUE /\ UNCHANGED sock
  /\ UNCHANGED <<network, handler, globals>>

Bind ==
  /\ pc = "bind" /\ GoTo("recv")
  /\ \/ sock' = "bound" /\ UNCHANGED trouble
     \/ trouble' = TRUE /\ UNCHANGED sock
  /\ UNCHANGED <<network, handler, globals>>

\* MUTANT of Receive: recvfrom() is not given a place for the address.
ReceiveOnly(d) ==
  /\ pc = "recv" /\ fate[d] = "queued" /\ GoTo("test")
  /\ fate' = [fate EXCEPT ![d] = "taken"]
  /\ recvBuf' = d /\ clientAddr' = None /\ received' = TRUE
  /\ UNCHANGED <<kind, replies, sock, handler, request, valid, response, trouble>>

\* recvfrom() blocks until there is a datagram.
Receive(d) ==
  /\ pc = "recv" /\ fate[d] = "queued" /\ GoTo("test")
  /\ fate' = [fate EXCEPT ![d] = "taken"]
  /\ recvBuf' = d /\ clientAddr' = From[d] /\ received' = TRUE
  /\ UNCHANGED <<kind, replies, sock, handler, request, valid, response, trouble>>

\* It fails at once without a socket, and may fail with one.  The error is
\* logged; the address of this turn is not set, the buffer not changed.
ReceiveFails ==
  /\ pc = "recv" /\ GoTo("test")
  /\ received' = FALSE /\ clientAddr' = None
  /\ trouble' = TRUE
  /\ UNCHANGED <<network, sock, handler, recvBuf, request, valid, response>>

\* An exception that nobody catches ends the thread.
Terminates ==
  /\ GoTo("dead")
  /\ trouble' = TRUE

\* What the thread holds is given up.
Drops == fate' = [d \in Datagrams |-> IF fate[d] = "taken" THEN "done" ELSE fate[d]]

\* MUTANT of TestHandler: the thread ends when there is no handler yet.
TestHandlerOnce ==
  /\ pc = "test"
  /\ \/ ~handler /\ GoTo("dead") /\ Drops /\ UNCHANGED trouble
     \/ handler /\ received /\ GoTo("parse") /\ UNCHANGED <<fate, trouble>>
     \/ handler /\ ~received /\ Terminates /\ UNCHANGED fate
  /\ UNCHANGED <<kind, replies, sock, handler, globals>>

\* Without a handler the datagram is dropped.  With one, the payload is built
\* from received bytes, which throws if their number is -1.
TestHandler ==
  /\ pc = "test"
  /\ \/ ~handler /\ GoTo("recv") /\ Drops /\ UNCHANGED trouble
     \/ handler /\ received /\ GoTo("parse") /\ UNCHANGED <<fate, trouble>>
     \/ handler /\ ~received /\ Terminates /\ UNCHANGED fate
  /\ UNCHANGED <<kind, replies, sock, handler, globals>>

\* MUTANT of Parse: what the parsing returned is not looked at.
ParseUnchecked ==
  /\ pc = "parse"
  /\ IF kind[recvBuf] = "outOfRange"
     THEN Terminates /\ Drops /\ UNCHANGED <<request, valid>>
     ELSE /\ GoTo("handle") /\ UNCHANGED <<fate, trouble>>
          /\ valid' = TRUE
          /\ request' = IF kind[recvBuf] = "object" THEN recvBuf ELSE request
  /\ UNCHANGED <<kind, replies, sock, handler, recvBuf, received, clientAddr, response>>

\* safe_json_topic_paload_parse: the request changes only if it is parsed; only
\* parse_error is caught.
Parse ==
  /\ pc = "parse"
  /\ \/ /\ kind[recvBuf] = "outOfRange"
        /\ Terminates /\ Drops /\ UNCHANGED <<request, valid>>
     \/ /\ kind[recvBuf] = "object" /\ GoTo("handle")
        /\ request' = recvBuf /\ valid' = TRUE
        /\ UNCHANGED <<fate, trouble>>
     \/ /\ kind[recvBuf] \in {"noMap", "malformed"} /\ GoTo("reply")
        /\ valid' = FALSE
        /\ UNCHANGED <<fate, trouble, request>>
  /\ UNCHANGED <<kind, replies, sock, handler, recvBuf, received, clientAddr, response>>

\* The handler answers the global request in the global response.
Handle ==
  /\ pc = "handle" /\ GoTo("reply")
  /\ response' = request
  /\ UNCHANGED <<network, sock, handler, recvBuf, received, clientAddr, request,
                 valid, trouble>>

\* The topic and the response, or the error text; sendto() may fail.
SendReply ==
  /\ pc = "reply" /\ GoTo("recv")
  /\ \/ /\ replies' = replies \union
             {[to |-> clientAddr, about |-> IF valid THEN response ELSE recvBuf,
               valid |-> valid]}
        /\ UNCHANGED trouble
     \/ trouble' = TRUE /\ UNCHANGED replies
  /\ Drops
  /\ UNCHANGED <<kind, sock, handler, globals>>

\* The steps that do not wait for anything but a datagram.
EndpointProceeds ==
  \/ Socket \/ Bind
  \/ \E d \in Datagrams : Receive(d)
  \/ TestHandler \/ Parse \/ Handle \/ SendReply

\* set_endpoint_handler, called by another thread.
SetEndpointHandler ==
  /\ handler' = TRUE
  /\ UNCHANGED <<network, sock, pc, globals, trouble>>

\* A restart of the device: what is queued or in work is lost.
EndpointRestarts ==
  /\ EndpointCleared
  /\ fate' = [d \in Datagrams |-> IF d \in Open THEN "lost" ELSE fate[d]]
  /\ UNCHANGED <<kind, replies>>

-----------------------------------------------------------------------------
(* What it promises                                                        *)

Promise ==
  INSTANCE RequestReply WITH
    Requests <- Datagrams, Valid <- {"object"}, open <- Open,
    asked <- {d \in Datagrams : fate[d] # "unsent"}

\* Whatever comes in which order, from whom, well formed or not, and whatever
\* fails or restarts: a request gets at most one reply, about itself (a result
\* only if it was an object) and to its sender.  The global request and
\* response never carry an earlier request into a later reply.
RequestReplySpec == Promise!Spec

\* The endpoint is never stuck for a reason of its own: once there is a
\* handler, a datagram in the queue is answered, unless the device restarts or
\* since its start a socket call has failed or an exception was not caught.
Answered ==
  \A d \in Datagrams :
    fate[d] = "queued" /\ handler ~>
      \/ \E r \in replies : r.about = d
      \/ fate[d] = "lost" \/ trouble

-----------------------------------------------------------------------------
(* What the promise rests on.                                              *)

Holding == pc \in {"parse", "handle", "reply"} \/ (pc = "test" /\ received)

\* The thread has taken what it holds and knows whose it is, and nothing else.
HoldInv ==
  /\ Holding => recvBuf \in Datagrams /\ fate[recvBuf] = "taken"
                /\ clientAddr = From[recvBuf]
  /\ \A d \in Datagrams : fate[d] = "taken" => Holding /\ recvBuf = d

\* The request, the response and the outcome of parsing are of what it holds.
RequestInv ==
  /\ pc = "handle" => valid /\ request = recvBuf
  /\ pc = "handle" \/ (pc = "reply" /\ valid) => kind[recvBuf] = "object"
  /\ pc = "reply" /\ valid => response = recvBuf
  /\ pc = "reply" /\ ~valid => kind[recvBuf] # "object"

\* The thread ends only after a failure or an uncaught exception.
DeadInv == pc = "dead" => trouble

EndpointInv == HoldInv /\ RequestInv /\ DeadInv
=============================================================================
