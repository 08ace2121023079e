------------------------- MODULE UdpBroadcastProofs -------------------------
(***************************************************************************)
(* The safety properties of UdpBroadcast, for any set of threads, and what *)
(* a start leaves behind for good: its sockets and its outcome.            *)
(***************************************************************************)
EXTENDS UdpBroadcast, FunctionTheorems, FiniteSetTheorems, TLAPS

\* Every variable keeps its type.
THEOREM TypeCorrect == Spec => []TypeOK
<1>1. Init => TypeOK
  <2> SUFFICES ASSUME Init PROVE TypeOK
    OBVIOUS
  <2>1. pc \in [Threads -> {"idle", "socket", "store", "connect", "flag",
                             "send"}]
    BY DEF Init
  <2>2. fd \in [Threads -> Int]
    BY DEF Init, InvalidSock
  <2>3. result \in [Threads -> {"none", "sent", "failed"}]
    BY DEF Init
  <2>4. starts \in [Threads -> Nat]
    BY DEF Init
  <2>5. started \in BOOLEAN
    BY DEF Init
  <2>7. sock \in Int
    BY DEF Init, InvalidSock
  <2>6. opened \in Nat /\ connected \subseteq 1..opened
    BY DEF Init
  <2>8. failed \in BOOLEAN
    BY DEF Init
  <2> QED
    BY <2>1, <2>2, <2>3, <2>4, <2>5, <2>6, <2>7, <2>8 DEF TypeOK
<1>2. TypeOK /\ [Next]_vars => TypeOK'
  <2> SUFFICES ASSUME TypeOK, [Next]_vars
               PROVE TypeOK'
    OBVIOUS
  <2> USE DEF TypeOK
  <2>1. ASSUME NEW t \in Threads, Call(t) PROVE TypeOK'
    BY <2>1 DEF Call, GoTo
  <2>2. ASSUME NEW t \in Threads, OpenSocket(t) PROVE TypeOK'
    BY <2>2 DEF OpenSocket, GoTo
  <2>3. ASSUME NEW t \in Threads, OpenSocketFails(t) PROVE TypeOK'
    BY <2>3 DEF OpenSocketFails, GoTo, InvalidSock
  <2>4. ASSUME NEW t \in Threads, StoreSock(t) PROVE TypeOK'
    BY <2>4 DEF StoreSock, GoTo
  <2>5. ASSUME NEW t \in Threads, Connect(t) PROVE TypeOK'
    BY <2>5 DEF Connect, GoTo
  <2>6. ASSUME NEW t \in Threads, ConnectFails(t) PROVE TypeOK'
    BY <2>6 DEF ConnectFails, GoTo
  <2>7. ASSUME NEW t \in Threads, SetStarted(t) PROVE TypeOK'
    BY <2>7 DEF SetStarted, GoTo
  <2>8. ASSUME NEW t \in Threads, Send(t) PROVE TypeOK'
    BY <2>8 DEF Send, GoTo
  <2>9. ASSUME NEW t \in Threads, CheckSock(t) PROVE TypeOK'
    BY <2>9 DEF CheckSock, GoTo
  <2>10. CASE UNCHANGED vars
    BY <2>10 DEF vars
  <2> QED
    BY <2>1, <2>2, <2>3, <2>4, <2>5, <2>6, <2>7, <2>8, <2>9,
       <2>10 DEF Next, Proceed
<1> QED
  BY <1>1, <1>2, PTL DEF Spec

\* A thread before socket() has not called it before.
LEMMA StartCorrect == Spec => []StartInv
<1>1. Init => StartInv
  <2> SUFFICES ASSUME Init, NEW t \in Threads
               PROVE ~(starts[t] > 0) /\ starts[t] = 0 /\ pc[t] = "idle"
    BY DEF StartInv
  <2>1. starts[t] = 0 /\ pc[t] = "idle"
    BY DEF Init
  <2>2. ~(0 > 0)
    OBVIOUS
  <2> QED
    BY <2>1, <2>2
<1>2. StartInv /\ TypeOK /\ TypeOK' /\ [Next]_vars => StartInv'
  <2> SUFFICES ASSUME StartInv, TypeOK, TypeOK', [Next]_vars
               PROVE StartInv'
    OBVIOUS
  <2> USE DEF StartInv, TypeOK
  <2>1. ASSUME NEW t \in Threads, Call(t) PROVE StartInv'
    BY <2>1 DEF Call, GoTo
  <2>2. ASSUME NEW t \in Threads, OpenSocket(t) PROVE StartInv'
    BY <2>2 DEF OpenSocket, GoTo
  <2>3. ASSUME NEW t \in Threads, OpenSocketFails(t) PROVE StartInv'
    BY <2>3 DEF OpenSocketFails, GoTo
  <2>4. ASSUME NEW t \in Threads, StoreSock(t) PROVE StartInv'
    BY <2>4 DEF StoreSock, GoTo
  <2>5. ASSUME NEW t \in Threads, Connect(t) PROVE StartInv'
    BY <2>5 DEF Connect, GoTo
  <2>6. ASSUME NEW t \in Threads, ConnectFails(t) PROVE StartInv'
    BY <2>6 DEF ConnectFails, GoTo
  <2>7. ASSUME NEW t \in Threads, SetStarted(t) PROVE StartInv'
    BY <2>7 DEF SetStarted, GoTo
  <2>8. ASSUME NEW t \in Threads, Send(t) PROVE StartInv'
    BY <2>8 DEF Send, GoTo
  <2>9. ASSUME NEW t \in Threads, CheckSock(t) PROVE StartInv'
    BY <2>9 DEF CheckSock, GoTo
  <2>10. CASE UNCHANGED vars
    BY <2>10 DEF vars
  <2> QED
    BY <2>1, <2>2, <2>3, <2>4, <2>5, <2>6, <2>7, <2>8, <2>9,
       <2>10 DEF Next, Proceed
<1> QED
  BY <1>1, <1>2, TypeCorrect, PTL DEF Spec

\* For any number of threads, in any order and with any faults, each thread
\* opens at most one socket.
THEOREM OneStart == Spec => []OneStartEach
<1>1. Init => OneStartEach
  <2> SUFFICES ASSUME Init, NEW t \in Threads PROVE starts[t] <= 1
    BY DEF OneStartEach
  <2>1. starts[t] = 0
    BY DEF Init
  <2>2. 0 <= 1
    OBVIOUS
  <2> QED
    BY <2>1, <2>2
<1>2. OneStartEach /\ TypeOK /\ TypeOK' /\ StartInv /\ StartInv' /\ [Next]_vars => OneStartEach'
  <2> SUFFICES ASSUME OneStartEach, TypeOK, TypeOK', StartInv, StartInv', [Next]_vars
               PROVE OneStartEach'
    OBVIOUS
  <2> USE DEF OneStartEach, StartInv, TypeOK
  <2>1. ASSUME NEW t \in Threads, Call(t) PROVE OneStartEach'
    BY <2>1 DEF Call, GoTo
  <2>2. ASSUME NEW t \in Threads, OpenSocket(t) PROVE OneStartEach'
    BY <2>2 DEF OpenSocket, GoTo
  <2>3. ASSUME NEW t \in Threads, OpenSocketFails(t) PROVE OneStartEach'
    BY <2>3 DEF OpenSocketFails, GoTo
  <2>4. ASSUME NEW t \in Threads, StoreSock(t) PROVE OneStartEach'
    BY <2>4 DEF StoreSock, GoTo
  <2>5. ASSUME NEW t \in Threads, Connect(t) PROVE OneStartEach'
    BY <2>5 DEF Connect, GoTo
  <2>6. ASSUME NEW t \in Threads, ConnectFails(t) PROVE OneStartEach'
    BY <2>6 DEF ConnectFails, GoTo
  <2>7. ASSUME NEW t \in Threads, SetStarted(t) PROVE OneStartEach'
    BY <2>7 DEF SetStarted, GoTo
  <2>8. ASSUME NEW t \in Threads, Send(t) PROVE OneStartEach'
    BY <2>8 DEF Send, GoTo
  <2>9. ASSUME NEW t \in Threads, CheckSock(t) PROVE OneStartEach'
    BY <2>9 DEF CheckSock, GoTo
  <2>10. CASE UNCHANGED vars
    BY <2>10 DEF vars
  <2> QED
    BY <2>1, <2>2, <2>3, <2>4, <2>5, <2>6, <2>7, <2>8, <2>9,
       <2>10 DEF Next, Proceed
<1> QED
  BY <1>1, <1>2, TypeCorrect, StartCorrect, PTL DEF Spec

\* A stored socket is connected, or will be by a thread on its way to it.
LEMMA ConnectCorrect == Spec => []ConnectInv
<1>1. Init => ConnectInv
  BY DEF Init, ConnectInv, Connecting, TypeOK, InvalidSock
<1>2. ConnectInv /\ TypeOK /\ TypeOK' /\ StartInv /\ StartInv' /\ [Next]_vars => ConnectInv'
  <2> SUFFICES ASSUME ConnectInv, TypeOK, TypeOK', StartInv, StartInv', [Next]_vars
               PROVE ConnectInv'
    OBVIOUS
  <2> USE DEF ConnectInv, Connecting, TypeOK
  <2>1. ASSUME NEW t \in Threads, Call(t) PROVE ConnectInv'
    BY <2>1 DEF Call, GoTo, StartInv
  <2>2. ASSUME NEW t \in Threads, OpenSocket(t) PROVE ConnectInv'
    BY <2>2 DEF OpenSocket, GoTo
  <2>3. ASSUME NEW t \in Threads, OpenSocketFails(t) PROVE ConnectInv'
    BY <2>3 DEF OpenSocketFails, GoTo
  <2>4. ASSUME NEW t \in Threads, StoreSock(t) PROVE ConnectInv'
    BY <2>4 DEF StoreSock, GoTo
  <2>5. ASSUME NEW t \in Threads, Connect(t) PROVE ConnectInv'
    BY <2>5 DEF Connect, SockRead, GoTo
  <2>6. ASSUME NEW t \in Threads, ConnectFails(t) PROVE ConnectInv'
    BY <2>6 DEF ConnectFails, GoTo
  <2>7. ASSUME NEW t \in Threads, SetStarted(t) PROVE ConnectInv'
    BY <2>7 DEF SetStarted, GoTo
  <2>8. ASSUME NEW t \in Threads, Send(t) PROVE ConnectInv'
    BY <2>8 DEF Send, GoTo
  <2>9. ASSUME NEW t \in Threads, CheckSock(t) PROVE ConnectInv'
    BY <2>9 DEF CheckSock, SockRead, GoTo
  <2>10. CASE UNCHANGED vars
    BY <2>10 DEF vars
  <2> QED
    BY <2>1, <2>2, <2>3, <2>4, <2>5, <2>6, <2>7, <2>8, <2>9,
       <2>10 DEF Next, Proceed
<1> QED
  BY <1>1, <1>2, TypeCorrect, StartCorrect, PTL DEF Spec

\* For any number of racing threads, the start ends with a connected socket.
THEOREM SettledSocket == Spec => []SettledConnected
<1>1. ConnectInv => SettledConnected
  BY DEF ConnectInv, SettledConnected
<1> QED
  BY <1>1, ConnectCorrect, PTL

\* A send that fails without a fault met another thread's start.
THEOREM SendFailures == Spec => SendFailsOnlyInRace
<1> DEFINE OnlyInRace ==
      ~failed =>
        \A t \in Threads : pc[t] = "send" /\ result'[t] = "failed" =>
          \/ pc'[t] = "send"
          \/ \E u \in Threads \ {t} : Connecting(u)
<1>1. TypeOK /\ StartInv /\ ConnectInv /\ [Next]_vars => [OnlyInRace]_vars
  <2> SUFFICES ASSUME TypeOK, StartInv, ConnectInv, Next, ~failed,
                      NEW t \in Threads, pc[t] = "send",
                      result'[t] = "failed", pc'[t] # "send"
               PROVE \E u \in Threads \ {t} : Connecting(u)
    OBVIOUS
  <2>1. Send(t)
    BY DEF Next, Proceed, Call, OpenSocket, OpenSocketFails, StoreSock,
       CheckSock, Connect, ConnectFails, SetStarted, Send, GoTo, TypeOK
  <2>2. sock \notin connected
    BY <2>1 DEF Send, TypeOK
  <2> QED
    BY <2>2 DEF ConnectInv, StartInv, Connecting
<1> QED
  BY <1>1, TypeCorrect, StartCorrect, ConnectCorrect, PTL
     DEF Spec, SendFailsOnlyInRace

-----------------------------------------------------------------------------
(* What the start leaves behind.                                           *)

\* Every socket the network stack has opened is the one some thread got, and a
\* thread that has not started anything got none.
SocketInv ==
  /\ \A i \in 1..opened : \E t \in Threads : fd[t] = i
  /\ \A t \in Threads : starts[t] = 0 => fd[t] = InvalidSock

LEMMA SocketCorrect == Spec => []SocketInv
<1>1. Init => SocketInv
  BY DEF Init, SocketInv, InvalidSock
<1>2. SocketInv /\ TypeOK /\ StartInv /\ [Next]_vars => SocketInv'
  <2> SUFFICES ASSUME SocketInv, TypeOK, StartInv, [Next]_vars
               PROVE SocketInv'
    OBVIOUS
  <2> USE DEF SocketInv, StartInv, TypeOK, InvalidSock
  <2>1. ASSUME NEW t \in Threads, Call(t) PROVE SocketInv'
    BY <2>1 DEF Call, GoTo
  <2>2. ASSUME NEW t \in Threads, OpenSocket(t) PROVE SocketInv'
    BY <2>2 DEF OpenSocket, GoTo
  <2>3. ASSUME NEW t \in Threads, OpenSocketFails(t) PROVE SocketInv'
    BY <2>3 DEF OpenSocketFails, GoTo
  <2>4. ASSUME NEW t \in Threads, StoreSock(t) PROVE SocketInv'
    BY <2>4 DEF StoreSock, GoTo
  <2>5. ASSUME NEW t \in Threads, Connect(t) PROVE SocketInv'
    BY <2>5 DEF Connect, GoTo
  <2>6. ASSUME NEW t \in Threads, ConnectFails(t) PROVE SocketInv'
    BY <2>6 DEF ConnectFails, GoTo
  <2>7. ASSUME NEW t \in Threads, SetStarted(t) PROVE SocketInv'
    BY <2>7 DEF SetStarted, GoTo
  <2>8. ASSUME NEW t \in Threads, Send(t) PROVE SocketInv'
    BY <2>8 DEF Send, GoTo
  <2>9. ASSUME NEW t \in Threads, CheckSock(t) PROVE SocketInv'
    BY <2>9 DEF CheckSock, GoTo
  <2>10. CASE UNCHANGED vars
    BY <2>10 DEF vars
  <2> QED
    BY <2>1, <2>2, <2>3, <2>4, <2>5, <2>6, <2>7, <2>8, <2>9,
       <2>10 DEF Next, Proceed
<1> QED
  BY <1>1, <1>2, TypeCorrect, StartCorrect, PTL DEF Spec

\* start_bcast_udp never closes a socket, so those a race or a failure leaves
\* behind stay open; however many calls of send_udp there are, and whatever fails,
\* there are never more than one for each thread that sends.
SocketsBounded == opened <= Cardinality(Threads)

\* SocketsBounded holds for any finite set of threads.
THEOREM NoMoreSocketsThanThreads ==
  ASSUME IsFiniteSet(Threads)
  PROVE  Spec => []SocketsBounded
<1>1. SocketInv /\ TypeOK => SocketsBounded
  <2> SUFFICES ASSUME SocketInv, TypeOK PROVE opened <= Cardinality(Threads)
    BY DEF SocketsBounded
  <2> DEFINE owner == [i \in 1..opened |-> CHOOSE t \in Threads : fd[t] = i]
  <2>1. \A i \in 1..opened : owner[i] \in Threads /\ fd[owner[i]] = i
    BY DEF SocketInv
  <2>2. owner \in Injection(1..opened, Threads)
    <3>1. owner \in [1..opened -> Threads]
      BY <2>1
    <3>2. \A i, j \in 1..opened : owner[i] = owner[j] => i = j
      BY <2>1
    <3> HIDE DEF owner
    <3> QED
      BY <3>1, <3>2, Fun_IsInj
  <2> HIDE DEF owner
  <2>3. opened \in Nat
    BY DEF TypeOK
  <2>4. Cardinality(1..opened) = opened
    BY <2>3, FS_Interval
  <2> QED
    BY <2>2, <2>4, FS_Injection
<1> QED
  BY <1>1, TypeCorrect, SocketCorrect, PTL

\* The flag is set and no thread is inside start_bcast_udp.
Settled == started /\ \A t \in Threads : pc[t] \in {"idle", "send"}

\* From then on no step touches the flag, the socket or its connection.
LEMMA SettledStep ==
  ASSUME TypeOK, Settled, [Next]_vars
  PROVE  Settled' /\ UNCHANGED <<sock, connected, failed>>
<1> USE DEF TypeOK, Settled
<1>1. ASSUME NEW t \in Threads, Call(t)
      PROVE  Settled' /\ UNCHANGED <<sock, connected, failed>>
  BY <1>1 DEF Call, GoTo
<1>2. ASSUME NEW t \in Threads, Send(t)
      PROVE  Settled' /\ UNCHANGED <<sock, connected, failed>>
  BY <1>2 DEF Send, GoTo
<1>3. ASSUME NEW t \in Threads, Proceed(t)
      PROVE  Send(t)
  BY <1>3 DEF Proceed, OpenSocket, OpenSocketFails, StoreSock, CheckSock,
     Connect, ConnectFails, SetStarted
<1>4. CASE UNCHANGED vars
  BY <1>4 DEF vars
<1> QED
  BY <1>1, <1>2, <1>3, <1>4 DEF Next

\* The start is done once and for all, since the flag is set whatever
\* start_bcast_udp returned: when the last thread that took part has left it, every
\* send works from then on, or none ever will, and if no socket() or connect()
\* failed it is the former.
StartIsFinal ==
  /\ [](Settled /\ sock \in connected => [](sock \in connected))
  /\ [](Settled /\ sock \notin connected => [](sock \notin connected))
  /\ [](Settled /\ ~failed => [](~failed /\ sock \in connected))

\* Nothing of the start is repeated or undone, whatever failed in it.
THEOREM NoSecondStart == Spec => StartIsFinal
<1>1. TypeOK /\ (Settled /\ sock \in connected) /\ [Next]_vars
        => (Settled /\ sock \in connected)'
  BY SettledStep
<1>2. TypeOK /\ (Settled /\ sock \notin connected) /\ [Next]_vars
        => (Settled /\ sock \notin connected)'
  BY SettledStep
<1>3. TypeOK /\ (Settled /\ ~failed) /\ [Next]_vars => (Settled /\ ~failed)'
  BY SettledStep
<1>4. SettledConnected /\ Settled /\ ~failed => sock \in connected
  BY DEF SettledConnected, Settled, Connecting
<1> QED
  BY <1>1, <1>2, <1>3, <1>4, TypeCorrect, SettledSocket, PTL
     DEF Spec, StartIsFinal
=============================================================================
