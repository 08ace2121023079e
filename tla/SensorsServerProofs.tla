------------------------- MODULE SensorsServerProofs -------------------------
(***************************************************************************)
(* The safety of the sensors server and of its JSON endpoint, for any      *)
(* datagrams and clients, and what its promise means to the clients.       *)
(***************************************************************************)
EXTENDS SensorsServer, TLAPS

-----------------------------------------------------------------------------
(* Types                                                                   *)

\* A step of the endpoint's thread or of the network keeps the types.
LEMMA EndpointTypes ==
  ASSUME TypeOK, HoldInv, RequestInv, EndpointMoves
  PROVE  TypeOK'
<1> USE DEF TypeOK, EndpointTypeOK, GoTo, network, globals
<1>u. UNCHANGED serverVars
  BY DEF EndpointMoves
<1>0. UNCHANGED <<main, uidSet, bmeReady, bmeHandler, started, service>>
  BY <1>u DEF serverVars
<1>1. CASE Socket \/ Bind
  <2>1. /\ sock' \in {"none", "open", "bound"} /\ trouble' \in BOOLEAN
        /\ pc' \in {"bind", "recv"}
    BY <1>1 DEF Socket, Bind
  <2>2. UNCHANGED <<network, handler, globals>>
    BY <1>1 DEF Socket, Bind
  <2> QED
    BY <1>0, <2>1, <2>2
<1>3. ASSUME NEW d \in Datagrams, Receive(d) PROVE TypeOK'
  <2>1. /\ fate' \in [Datagrams -> {"unsent", "queued", "taken", "done", "lost"}]
        /\ recvBuf' \in Datagrams /\ received' \in BOOLEAN /\ pc' = "test"
    BY <1>3 DEF Receive
  <2>2. clientAddr' \in Clients
    BY <1>3, EndpointAssumption DEF Receive, EndpointAssumption
  <2>3. UNCHANGED <<kind, replies, sock, handler, request, valid, response, trouble>>
    BY <1>3 DEF Receive
  <2> QED
    BY <1>0, <2>1, <2>2, <2>3
<1>4. CASE ReceiveFails
  <2>1. /\ received' \in BOOLEAN /\ clientAddr' = None /\ trouble' \in BOOLEAN
        /\ pc' = "test"
    BY <1>4 DEF ReceiveFails
  <2>2. UNCHANGED <<network, sock, handler, recvBuf, request, valid, response>>
    BY <1>4 DEF ReceiveFails
  <2> QED
    BY <1>0, <2>1, <2>2
<1>5. CASE TestHandler
  <2>1. fate' \in [Datagrams -> {"unsent", "queued", "taken", "done", "lost"}]
    BY <1>5 DEF TestHandler, Drops
  <2>2. trouble' \in BOOLEAN /\ pc' \in {"recv", "parse", "dead"}
    BY <1>5 DEF TestHandler, Terminates
  <2>3. UNCHANGED <<kind, replies, sock, handler, globals>>
    BY <1>5 DEF TestHandler
  <2> QED
    BY <1>0, <2>1, <2>2, <2>3
<1>6. CASE Parse
  <2>1. fate' \in [Datagrams -> {"unsent", "queued", "taken", "done", "lost"}]
    BY <1>6 DEF Parse, Drops
  <2>2. trouble' \in BOOLEAN /\ pc' \in {"handle", "reply", "dead"}
        /\ valid' \in BOOLEAN /\ request' \in Datagrams \union {None}
    BY <1>6 DEF Parse, Terminates
  <2>3. UNCHANGED <<kind, replies, sock, handler, recvBuf, received, clientAddr,
                    response>>
    BY <1>6 DEF Parse
  <2> QED
    BY <1>0, <2>1, <2>2, <2>3
<1>7. CASE Handle
  BY <1>0, <1>7 DEF Handle
<1>8. ASSUME NEW d \in Datagrams, Arrive(d) PROVE TypeOK'
  BY <1>0, <1>8 DEF Arrive
<1>9. CASE SendReply
  <2>1. fate' \in [Datagrams -> {"unsent", "queued", "taken", "done", "lost"}]
    BY <1>9 DEF SendReply, Drops
  <2>2. recvBuf \in Datagrams /\ clientAddr \in Clients
    BY <1>9, EndpointAssumption
       DEF SendReply, HoldInv, Holding, EndpointAssumption
  <2>3. valid => response \in Datagrams
    BY <1>9, <2>2 DEF SendReply, RequestInv
  <2>4. replies' \subseteq [to : Clients, about : Datagrams, valid : BOOLEAN]
    BY <1>9, <2>2, <2>3 DEF SendReply
  <2>5. trouble' \in BOOLEAN /\ pc' = "recv"
        /\ UNCHANGED <<kind, sock, handler, globals>>
    BY <1>9 DEF SendReply
  <2> QED
    BY <1>0, <2>1, <2>4, <2>5
<1> QED
  BY <1>1, <1>3, <1>4, <1>5, <1>6, <1>7, <1>8, <1>9
     DEF EndpointMoves, EndpointProceeds

\* Neither does a step of the main thread, of the service or a restart.
LEMMA ServerTypes ==
  ASSUME TypeOK, MainProceeds \/ ServiceProceeds \/ Restart \/ UNCHANGED vars
  PROVE  TypeOK'
<1> USE DEF TypeOK, Starting, Looping, Serving
<1>1. CASE MainProceeds
  <2>1. CASE SetEndpoint
    BY <2>1 DEF SetEndpoint, SetEndpointHandler, MainGoesTo, EndpointTypeOK,
                network, globals
  <2>2. CASE ~SetEndpoint
    <3>1. UNCHANGED endpointVars /\ UNCHANGED <<bmeReady, service>>
          /\ main' \in Starting \union Looping
          /\ uidSet' \in BOOLEAN /\ bmeHandler' \in BOOLEAN /\ started' \in BOOLEAN
      BY <1>1, <2>2
         DEF MainProceeds, InitUid, InitDevices, TestReady, InitBme, StartLibrary,
             SetBmeHandler, SetStarted, PublishState, PublishLight, MainGoesTo
    <3>2. EndpointTypeOK'
      BY <3>1 DEF endpointVars, network, globals, EndpointTypeOK
    <3> QED
      BY <3>1, <3>2
  <2> QED
    BY <2>1, <2>2
<1>2. CASE ServiceProceeds
  <2>1. /\ UNCHANGED <<endpointVars, main, uidSet, bmeReady, bmeHandler, started>>
        /\ service' \in Serving
    BY <1>2 DEF ServiceProceeds, FindStarted, LoadState, Configure, Measure,
                Deliver, PublishEnv, SaveState, ServiceGoesTo
  <2>2. EndpointTypeOK'
    BY <2>1 DEF endpointVars, network, globals, EndpointTypeOK
  <2> QED
    BY <2>1, <2>2
<1>3. CASE Restart
  <2>1. fate' \in [Datagrams -> {"unsent", "queued", "taken", "done", "lost"}]
    BY <1>3 DEF Restart, EndpointRestarts, EndpointTypeOK
  <2>2. EndpointTypeOK'
    BY <1>3, <2>1 DEF Restart, EndpointRestarts, EndpointCleared, EndpointTypeOK
  <2> QED
    BY <1>3, <2>2 DEF Restart
<1>4. CASE UNCHANGED vars
  BY <1>4 DEF vars, endpointVars, network, globals, serverVars, EndpointTypeOK
<1> QED
  BY <1>1, <1>2, <1>3, <1>4

-----------------------------------------------------------------------------
(* What the thread holds                                                   *)

\* What the steps of the other threads leave alone.
LEMMA OthersLeaveEndpoint ==
  ASSUME MainProceeds \/ ServiceProceeds \/ UNCHANGED vars
  PROVE  UNCHANGED <<kind, fate, replies, sock, pc, recvBuf, received, clientAddr,
                     request, valid, response, trouble>>
<1>1. CASE SetEndpoint
  BY <1>1 DEF SetEndpoint, SetEndpointHandler, network, globals
<1>2. CASE ~SetEndpoint
  <2>1. UNCHANGED endpointVars
    BY <1>2
       DEF MainProceeds, InitUid, InitDevices, TestReady, InitBme, StartLibrary,
           SetBmeHandler, SetStarted, PublishState, PublishLight,
           ServiceProceeds, FindStarted, LoadState, Configure, Measure,
           Deliver, PublishEnv, SaveState, ServiceGoesTo, vars
  <2> QED
    BY <2>1 DEF endpointVars, network, globals
<1> QED
  BY <1>1, <1>2

\* The thread's steps keep what it knows of the datagram it holds.
LEMMA EndpointHolds ==
  ASSUME TypeOK, EndpointInv, EndpointMoves
  PROVE  EndpointInv'
<1> USE DEF EndpointInv, HoldInv, Holding, RequestInv, DeadInv, GoTo, network,
            globals
<1>t. fate \in [Datagrams -> {"unsent", "queued", "taken", "done", "lost"}]
  BY DEF TypeOK, EndpointTypeOK
<1>1. CASE Socket
  BY <1>1 DEF Socket
<1>2. CASE Bind
  BY <1>2 DEF Bind
<1>3. ASSUME NEW d \in Datagrams, Receive(d) PROVE EndpointInv'
  BY <1>3, <1>t DEF Receive
<1>4. CASE ReceiveFails
  BY <1>4 DEF ReceiveFails
<1>5. CASE TestHandler
  BY <1>5, <1>t DEF TestHandler, Terminates, Drops
<1>6. CASE Parse
  <2>1. CASE kind[recvBuf] = "outOfRange"
    BY <1>6, <2>1, <1>t DEF Parse, Terminates, Drops
  <2>2. CASE kind[recvBuf] # "outOfRange"
    BY <1>6, <2>2 DEF Parse
  <2> QED
    BY <2>1, <2>2
<1>7. CASE Handle
  BY <1>7 DEF Handle
<1>8. ASSUME NEW d \in Datagrams, Arrive(d) PROVE EndpointInv'
  BY <1>8, <1>t DEF Arrive
<1>9. CASE SendReply
  BY <1>9, <1>t DEF SendReply, Drops
<1> QED
  BY <1>1, <1>2, <1>3, <1>4, <1>5, <1>6, <1>7, <1>8, <1>9
     DEF EndpointMoves, EndpointProceeds

\* Types and what the thread holds, together.
LEMMA EndpointCorrect == Spec => [](TypeOK /\ EndpointInv)
<1>1. Init => TypeOK /\ EndpointInv
  <2> SUFFICES ASSUME Init PROVE TypeOK /\ EndpointInv
    OBVIOUS
  <2>1. fate \in [Datagrams -> {"unsent", "queued", "taken", "done", "lost"}]
    BY DEF Init, EndpointInit
  <2>2. EndpointTypeOK
    BY <2>1 DEF Init, EndpointInit, EndpointTypeOK
  <2>3. TypeOK
    BY <2>2 DEF Init, TypeOK, Starting
  <2>4. EndpointInv
    BY DEF Init, EndpointInit, EndpointInv, HoldInv, Holding, RequestInv, DeadInv
  <2> QED
    BY <2>3, <2>4
<1>2. TypeOK /\ EndpointInv /\ [Next]_vars => (TypeOK /\ EndpointInv)'
  <2> SUFFICES ASSUME TypeOK, EndpointInv, [Next]_vars
               PROVE TypeOK' /\ EndpointInv'
    OBVIOUS
  <2>1. CASE EndpointMoves
    BY <2>1, EndpointTypes, EndpointHolds DEF EndpointInv
  <2>2. CASE MainProceeds \/ ServiceProceeds \/ UNCHANGED vars
    <3>1. EndpointInv'
      BY <2>2, OthersLeaveEndpoint
         DEF EndpointInv, HoldInv, Holding, RequestInv, DeadInv
    <3> QED
      BY <2>2, <3>1, ServerTypes
  <2>3. CASE Restart
    <3>1. \A d \in Datagrams : fate'[d] # "taken"
      BY <2>3 DEF Restart, EndpointRestarts, Open
    <3>2. EndpointInv'
      BY <2>3, <3>1 DEF Restart, EndpointRestarts, EndpointCleared,
                        EndpointInv, HoldInv, Holding, RequestInv, DeadInv
    <3> QED
      BY <2>3, <3>2, ServerTypes
  <2> QED
    BY <2>1, <2>2, <2>3 DEF Next
<1> QED
  BY <1>1, <1>2, PTL DEF Spec

\* Every variable of the server keeps its type.
THEOREM TypeCorrect == Spec => []TypeOK
BY EndpointCorrect, PTL

-----------------------------------------------------------------------------
(* The order of the start                                                  *)

\* The globals tell how far the main thread is.
LEMMA StartCorrect == Spec => []StartInv
<1> USE DEF StartInv, Starting, Looping, Serving
<1>1. Init => StartInv
  BY DEF Init, EndpointInit
<1>2. StartInv /\ [Next]_vars => StartInv'
  <2> SUFFICES ASSUME StartInv, [Next]_vars
               PROVE StartInv'
    OBVIOUS
  <2>1. CASE EndpointMoves
    <3>1. UNCHANGED <<main, uidSet, bmeReady, bmeHandler, started, service, handler>>
      BY <2>1 DEF EndpointMoves, EndpointProceeds, serverVars, Socket, Bind, Receive,
                  ReceiveFails, TestHandler, Parse, Handle, SendReply, Arrive
    <3>2. pc' \in {"parse", "handle"} => handler
      BY <2>1 DEF EndpointMoves, EndpointProceeds, Socket, Bind, Receive, GoTo,
                  ReceiveFails, TestHandler, Terminates, Parse, Handle, SendReply,
                  Arrive
    <3> QED
      BY <3>1, <3>2
  <2>2. CASE MainProceeds
    <3>1. UNCHANGED pc
      BY <2>2, OthersLeaveEndpoint
    <3>2. CASE SetEndpoint
      BY <3>1, <3>2 DEF SetEndpoint, SetEndpointHandler, MainGoesTo
    <3>3. CASE ~SetEndpoint
      <4>1. UNCHANGED handler
        BY <2>2, <3>3 DEF MainProceeds, InitUid, InitDevices, TestReady, InitBme,
             StartLibrary, SetBmeHandler, SetStarted, PublishState, PublishLight,
             endpointVars
      <4> QED
        BY <2>2, <3>1, <3>3, <4>1
           DEF MainProceeds, InitUid, InitDevices, TestReady, InitBme,
             StartLibrary, SetBmeHandler, SetStarted, PublishState, PublishLight,
             MainGoesTo
    <3> QED
      BY <3>2, <3>3
  <2>3. CASE ServiceProceeds
    <3>1. UNCHANGED <<endpointVars, main, uidSet, bmeReady, bmeHandler, started>>
          /\ (started \/ service \in Serving)
      BY <2>3 DEF ServiceProceeds, FindStarted, LoadState, Configure, Measure,
                  Deliver, PublishEnv, SaveState, ServiceGoesTo
    <3> QED
      BY <3>1 DEF endpointVars
  <2>4. CASE Restart
    BY <2>4 DEF Restart, EndpointRestarts, EndpointCleared
  <2>5. CASE UNCHANGED vars
    BY <2>5 DEF vars, endpointVars, serverVars
  <2> QED
    BY <2>1, <2>2, <2>3, <2>4, <2>5 DEF Next
<1> QED
  BY <1>1, <1>2, PTL DEF Spec

\* The service does not use the driver, the library, the handler or the identity
\* before the main thread is done with them; nor does the endpoint's handler run
\* before the devices are initialised.
THEOREM StartOrdered == Spec => []StartedInOrder
<1>1. StartInv => StartedInOrder
  BY DEF StartInv, StartedInOrder
<1> QED
  BY <1>1, StartCorrect, PTL

-----------------------------------------------------------------------------
(* Requests and replies                                                    *)

\* Giving up what is held closes one request.
LEMMA DropsCloses ==
  ASSUME TypeOK, HoldInv, Holding, Drops
  PROVE  /\ recvBuf \in Open
         /\ Open' = Open \ {recvBuf}
         /\ {d \in Datagrams : fate[d] # "unsent"}' = {d \in Datagrams : fate[d] # "unsent"}
BY DEF TypeOK, EndpointTypeOK, HoldInv, Drops, Open

\* For any datagrams, clients, failures and restarts, the endpoint gives at most
\* one reply to a request, about this request and to its sender.
THEOREM AnswersItsRequests == Spec => RequestReplySpec
<1> DEFINE Asked == {d \in Datagrams : fate[d] # "unsent"}
<1>1. Init => Promise!Init
  BY DEF Init, EndpointInit, Promise!Init, Open
<1>2. TypeOK /\ EndpointInv /\ [Next]_vars => [Promise!Next]_(Promise!vars)
  <2> SUFFICES ASSUME TypeOK, EndpointInv, [Next]_vars
               PROVE Promise!Next \/ UNCHANGED <<kind, Open, Asked, replies>>
    BY DEF Promise!vars
  <2>t. fate \in [Datagrams -> {"unsent", "queued", "taken", "done", "lost"}]
    BY DEF TypeOK, EndpointTypeOK
  <2>1. ASSUME UNCHANGED <<kind, fate, replies>>
        PROVE  UNCHANGED <<kind, Open, Asked, replies>>
    BY <2>1 DEF Open
  <2>l. ASSUME UNCHANGED <<kind, Asked, replies>>, Open' \subseteq Open
        PROVE  Promise!Next
    <3>1. Promise!Lose(Open \ Open')
      BY <2>l DEF Promise!Lose
    <3>2. Open \ Open' \in SUBSET Datagrams
      BY DEF Open
    <3> QED
      BY <3>1, <3>2 DEF Promise!Next
  <2>2. CASE Socket \/ Bind \/ ReceiveFails \/ Handle
    BY <2>1, <2>2 DEF Socket, Bind, ReceiveFails, Handle, network
  <2>3. ASSUME NEW d \in Datagrams, Receive(d)
        PROVE  UNCHANGED <<kind, Open, Asked, replies>>
    BY <2>3, <2>t DEF Receive, Open
  <2>4. ASSUME NEW d \in Datagrams, Arrive(d) PROVE Promise!Next
    <3>1. Promise!Ask(d)
      BY <2>4, <2>t DEF Arrive, Promise!Ask, Open
    <3> QED
      BY <3>1 DEF Promise!Next
  <2>5. CASE TestHandler
    <3>1. UNCHANGED <<kind, replies>>
      BY <2>5 DEF TestHandler
    <3>2. CASE Drops
      BY <3>1, <3>2, <2>l, <2>t DEF Drops, Open
    <3>3. CASE UNCHANGED fate
      BY <3>1, <3>3, <2>1
    <3> QED
      BY <2>5, <3>2, <3>3 DEF TestHandler
  <2>6. CASE Parse
    <3>1. UNCHANGED <<kind, replies>>
      BY <2>6 DEF Parse
    <3>2. CASE Drops
      BY <3>1, <3>2, <2>l, <2>t DEF Drops, Open
    <3>3. CASE UNCHANGED fate
      BY <3>1, <3>3, <2>1
    <3> QED
      BY <2>6, <3>2, <3>3 DEF Parse
  <2>7. CASE SendReply
    <3>1. Holding /\ Drops /\ UNCHANGED kind
      BY <2>7 DEF SendReply, Holding
    <3>2. recvBuf \in Open /\ Open' = Open \ {recvBuf} /\ Asked' = Asked
      BY <3>1, DropsCloses DEF EndpointInv
    <3>3. CASE UNCHANGED replies
      BY <3>1, <3>2, <3>3, <2>l
    <3>4. CASE replies' = replies \union
                 {[to |-> clientAddr, about |-> IF valid THEN response ELSE recvBuf,
                   valid |-> valid]}
      <4>1. clientAddr = From[recvBuf] /\ recvBuf \in Datagrams
        BY <3>1 DEF EndpointInv, HoldInv
      <4>2. /\ valid => response = recvBuf /\ kind[recvBuf] = "object"
            /\ ~valid => kind[recvBuf] # "object"
        BY <2>7 DEF SendReply, EndpointInv, RequestInv
      <4>3. valid \in BOOLEAN
        BY DEF TypeOK, EndpointTypeOK
      <4>4. /\ valid = (kind[recvBuf] \in {"object"})
            /\ (IF valid THEN response ELSE recvBuf) = recvBuf
        BY <4>2, <4>3
      <4>5. Promise!Answer(recvBuf)
        BY <3>1, <3>2, <3>4, <4>1, <4>4 DEF Promise!Answer, Promise!Reply
      <4> QED
        BY <4>1, <4>5 DEF Promise!Next
    <3> QED
      BY <2>7, <3>3, <3>4 DEF SendReply
  <2>8. CASE MainProceeds \/ ServiceProceeds \/ UNCHANGED vars
    BY <2>1, <2>8, OthersLeaveEndpoint
  <2>9. CASE Restart
    BY <2>9, <2>l, <2>t DEF Restart, EndpointRestarts, Open
  <2> QED
    BY <2>2, <2>3, <2>4, <2>5, <2>6, <2>7, <2>8, <2>9
       DEF Next, EndpointMoves, EndpointProceeds
<1> QED
  BY <1>1, <1>2, EndpointCorrect, PTL DEF Spec, RequestReplySpec, Promise!Spec

\* What RequestReply makes of the replies: each is the reply to the request it is
\* about, and that request was sent and is no longer open.
RepliesOnce ==
  \A p \in replies :
    /\ p.about \in Datagrams /\ p = Promise!Reply(p.about)
    /\ p.about \notin Open /\ fate[p.about] # "unsent"

\* A consequence of the promise alone, so that it holds of whatever keeps it: a
\* reply goes to the sender of its request, carries a result only if the request
\* was an object, and since a request that was answered is never open again, no
\* client ever gets a second reply to it.
THEOREM PromiseGivesOneReply == RequestReplySpec => []RepliesOnce
<1> DEFINE Asked == {d \in Datagrams : fate[d] # "unsent"}
<1>1. Promise!Init => RepliesOnce
  BY DEF Promise!Init, RepliesOnce
<1>2. RepliesOnce /\ [Promise!Next]_(Promise!vars) => RepliesOnce'
  <2> SUFFICES ASSUME RepliesOnce, [Promise!Next]_(Promise!vars),
                      NEW p \in replies'
               PROVE  /\ p.about \in Datagrams /\ p = Promise!Reply(p.about)'
                      /\ p.about \notin Open' /\ p.about \in Asked'
    BY DEF RepliesOnce
  <2>0. /\ Open \subseteq Datagrams /\ Open \subseteq Asked
        /\ \A q \in replies : /\ q.about \in Datagrams
                             /\ q = Promise!Reply(q.about)
                             /\ q.about \notin Open /\ q.about \in Asked
    BY DEF Open, RepliesOnce
  <2>k. kind' = kind => \A d \in Datagrams : Promise!Reply(d)' = Promise!Reply(d)
    BY DEF Promise!Reply
  <2> HIDE DEF Asked
  <2>1. ASSUME NEW d \in Datagrams, Promise!Ask(d)
        PROVE  /\ p.about \in Datagrams /\ p = Promise!Reply(p.about)'
               /\ p.about \notin Open' /\ p.about \in Asked'
    BY <2>0, <2>1, <2>k DEF Promise!Ask, Asked
  <2>2. ASSUME NEW d \in Datagrams, Promise!Answer(d)
        PROVE  /\ p.about \in Datagrams /\ p = Promise!Reply(p.about)'
               /\ p.about \notin Open' /\ p.about \in Asked'
    <3>1. p \in replies \/ p = Promise!Reply(d)
      BY <2>2 DEF Promise!Answer
    <3>2. Promise!Reply(d).about = d
      BY DEF Promise!Reply
    <3>3. d \in Open /\ Open' = Open \ {d} /\ Asked' = Asked /\ kind' = kind
      BY <2>2 DEF Promise!Answer, Asked
    <3> QED
      BY <2>0, <2>k, <3>1, <3>2, <3>3
  <2>3. ASSUME NEW lost \in SUBSET Datagrams, Promise!Lose(lost)
        PROVE  /\ p.about \in Datagrams /\ p = Promise!Reply(p.about)'
               /\ p.about \notin Open' /\ p.about \in Asked'
    BY <2>0, <2>3, <2>k DEF Promise!Lose, Asked
  <2>4. CASE UNCHANGED Promise!vars
    BY <2>0, <2>4, <2>k DEF Promise!vars, Asked
  <2> QED
    BY <2>1, <2>2, <2>3, <2>4 DEF Promise!Next
<1> QED
  BY <1>1, <1>2, PTL DEF RequestReplySpec, Promise!Spec

\* The endpoint keeps the promise, so nobody gets two replies to a request, nor
\* one that was meant for somebody else.
THEOREM OneReplyEach == Spec => []RepliesOnce
BY AnswersItsRequests, PromiseGivesOneReply, PTL

\* The safety half of "a datagram is answered": one that reached the queue is
\* given up only with a reply about it, for want of a handler, after a failed
\* socket call or an uncaught exception, or with a restart; and the thread is
\* there to answer it as long as there was no such failure.
GivenUp(d) == d \in Open /\ d \notin Open'

GivenUpForAReason ==
  /\ [](pc = "dead" => trouble)
  /\ [][\A d \in Datagrams : GivenUp(d) =>
          \/ \E p \in replies' : p.about = d /\ p.to = From[d]
          \/ ~handler
          \/ trouble'
          \/ fate'[d] = "lost"]_vars

\* GivenUpForAReason holds for any datagrams and clients.
THEOREM NothingDroppedSilently == Spec => GivenUpForAReason
<1> DEFINE Rule == \A d \in Datagrams : GivenUp(d) =>
                     \/ \E p \in replies' : p.about = d /\ p.to = From[d]
                     \/ ~handler
                     \/ trouble'
                     \/ fate'[d] = "lost"
<1>1. EndpointInv => (pc = "dead" => trouble)
  BY DEF EndpointInv, DeadInv
<1>2. TypeOK /\ EndpointInv /\ [Next]_vars => [Rule]_vars
  <2> SUFFICES ASSUME TypeOK, EndpointInv, Next, NEW d \in Datagrams,
                      d \in Open, d \notin Open', handler, ~trouble',
                      fate'[d] # "lost"
               PROVE  \E p \in replies' : p.about = d /\ p.to = From[d]
    BY DEF GivenUp
  <2>t. fate \in [Datagrams -> {"unsent", "queued", "taken", "done", "lost"}]
    BY DEF TypeOK, EndpointTypeOK
  <2>1. SendReply
    <3>1. fate' # fate
      BY DEF Open
    <3>2. CASE MainProceeds \/ ServiceProceeds
      BY <3>1, <3>2, OthersLeaveEndpoint
    <3>3. CASE Restart
      BY <3>3 DEF Restart, EndpointRestarts, Open
    <3>4. ASSUME NEW e \in Datagrams, Receive(e) \/ Arrive(e) PROVE FALSE
      BY <2>t, <3>4 DEF Receive, Arrive, Open
    <3>5. CASE Socket \/ Bind \/ ReceiveFails \/ Handle
      BY <3>1, <3>5 DEF Socket, Bind, ReceiveFails, Handle, network
    <3>6. CASE TestHandler
      BY <3>1, <3>6 DEF TestHandler
    <3>7. CASE Parse
      BY <3>1, <3>7 DEF Parse, Terminates
    <3> QED
      BY <3>2, <3>3, <3>4, <3>5, <3>6, <3>7
         DEF Next, EndpointMoves, EndpointProceeds
  <2>2. d = recvBuf /\ clientAddr = From[d]
    BY <2>1, <2>t DEF SendReply, Drops, Open, EndpointInv, HoldInv
  <2>3. (IF valid THEN response ELSE recvBuf) = d
    BY <2>1, <2>2 DEF SendReply, EndpointInv, RequestInv
  <2>4. [to |-> clientAddr, about |-> IF valid THEN response ELSE recvBuf,
         valid |-> valid] \in replies'
    BY <2>1 DEF SendReply
  <2> QED
    BY <2>2, <2>3, <2>4
<1> QED
  BY <1>1, <1>2, EndpointCorrect, PTL DEF Spec, GivenUpForAReason
=============================================================================
