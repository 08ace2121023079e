---------------------------- MODULE UdpBroadcast ----------------------------
(***************************************************************************)
(* subsys/udp_broadcast: the first thread that sends creates and connects  *)
(* the socket.  The flag and the socket are plain global variables and any *)
(* thread calls send_udp or send_udp_buffer: the main thread and, through  *)
(* the application's handler, the thread of the BME688 service.  A step of *)
(* a thread is one access to a global or one socket call.                  *)
(***************************************************************************)
EXTENDS Integers

CONSTANT Threads    \* the threads that send

VARIABLES
  started,     \* udp_bcast_started
  sock,        \* the global sock
  opened,      \* the number of sockets the network stack has opened, from 1 up
  connected,   \* those of them that are connected
  pc,          \* where each thread is in send_udp
  fd,          \* what socket() returned to each thread
  result,      \* what each thread's last send_udp returned
  starts,      \* history: how often each thread called socket()
  failed       \* history: has a socket() or connect() failed?

vars == <<started, sock, opened, connected, pc, fd, result, starts, failed>>

InvalidSock == -1

TypeOK ==
  /\ started \in BOOLEAN
  /\ sock \in Int /\ opened \in Nat
  /\ connected \subseteq 1..opened
  /\ pc \in [Threads -> {"idle", "socket", "store", "check", "connect", "flag", "send"}]
  /\ fd \in [Threads -> Int]
  /\ result \in [Threads -> {"none", "sent", "failed"}]
  /\ starts \in [Threads -> Nat]
  /\ failed \in BOOLEAN

Init ==
  /\ started = FALSE /\ sock = InvalidSock
  /\ opened = 0 /\ connected = {}
  /\ pc = [t \in Threads |-> "idle"]
  /\ fd = [t \in Threads |-> InvalidSock]
  /\ result = [t \in Threads |-> "none"]
  /\ starts = [t \in Threads |-> 0]
  /\ failed = FALSE

GoTo(t, there) == pc' = [pc EXCEPT ![t] = there]

\* MUTANT of Call: the flag is set when it is tested.
CallMarksStarted(t) ==
  /\ pc[t] = "idle"
  /\ GoTo(t, IF started THEN "send" ELSE "socket")
  /\ started' = TRUE
  /\ UNCHANGED <<sock, opened, connected, fd, result, starts, failed>>

\* send_udp tests the flag.
Call(t) ==
  /\ pc[t] = "idle"
  /\ GoTo(t, IF started THEN "send" ELSE "socket")
  /\ UNCHANGED <<started, sock, opened, connected, fd, result, starts, failed>>

\* start_bcast_udp calls socket().
OpenSocket(t) ==
  /\ pc[t] = "socket"
  /\ GoTo(t, "store")
  /\ opened' = opened + 1 /\ fd' = [fd EXCEPT ![t] = opened + 1]
  /\ starts' = [starts EXCEPT ![t] = @ + 1]
  /\ UNCHANGED <<started, sock, connected, result, failed>>

OpenSocketFails(t) ==
  /\ pc[t] = "socket"
  /\ GoTo(t, "store")
  /\ fd' = [fd EXCEPT ![t] = InvalidSock]
  /\ starts' = [starts EXCEPT ![t] = @ + 1]
  /\ failed' = TRUE
  /\ UNCHANGED <<started, sock, opened, connected, result>>

\* MUTANT of StoreSock: start_bcast_udp returns without connecting.
StoreSockOnly(t) ==
  /\ pc[t] = "store"
  /\ sock' = fd[t]
  /\ GoTo(t, "flag")
  /\ UNCHANGED <<started, opened, connected, fd, result, starts, failed>>

\* The result goes to the global, over whatever another thread stored there.
StoreSock(t) ==
  /\ pc[t] = "store"
  /\ sock' = fd[t]
  /\ GoTo(t, "check")
  /\ UNCHANGED <<started, opened, connected, fd, result, starts, failed>>

\* What the code finds in sock after that: the global, which another thread may
\* have stored meanwhile, or its own result, if the compiler has kept it in a
\* register (no call lies between).
SockRead(t) == {sock, fd[t]}

\* sock < 0 ends start_bcast_udp.
CheckSock(t) ==
  /\ pc[t] = "check"
  /\ \E s \in SockRead(t) : GoTo(t, IF s < 0 THEN "flag" ELSE "connect")
  /\ UNCHANGED <<started, sock, opened, connected, fd, result, starts, failed>>

\* MUTANT of Connect: whatever is stored counts as connected.
ConnectAny(t) ==
  /\ pc[t] = "connect"
  /\ GoTo(t, "flag")
  /\ connected' = connected \union {sock}
  /\ UNCHANGED <<started, sock, opened, fd, result, starts, failed>>

\* connect() may so be given a socket that another thread opened.
Connect(t) ==
  /\ pc[t] = "connect"
  /\ GoTo(t, "flag")
  /\ \E s \in SockRead(t) :
       connected' = connected \union ({s} \intersect 1..opened)
  /\ UNCHANGED <<started, sock, opened, fd, result, starts, failed>>

ConnectFails(t) ==
  /\ pc[t] = "connect"
  /\ GoTo(t, "flag")
  /\ failed' = TRUE
  /\ UNCHANGED <<started, sock, opened, connected, fd, result, starts>>

\* MUTANT of SetStarted: the flag is forgotten.
SetStartedNot(t) ==
  /\ pc[t] = "flag"
  /\ GoTo(t, "send")
  /\ UNCHANGED <<started, sock, opened, connected, fd, result, starts, failed>>

\* The flag is set whatever start_bcast_udp returned.
SetStarted(t) ==
  /\ pc[t] = "flag"
  /\ GoTo(t, "send")
  /\ started' = TRUE
  /\ UNCHANGED <<sock, opened, connected, fd, result, starts, failed>>

\* send() needs a connected socket.
Send(t) ==
  /\ pc[t] = "send"
  /\ GoTo(t, "idle")
  /\ result' = [result EXCEPT ![t] = IF sock \in connected THEN "sent" ELSE "failed"]
  /\ UNCHANGED <<started, sock, opened, connected, fd, starts, failed>>

Proceed(t) ==
  \/ OpenSocket(t) \/ OpenSocketFails(t)
  \/ StoreSock(t) \/ CheckSock(t)
  \/ Connect(t) \/ ConnectFails(t)
  \/ SetStarted(t) \/ Send(t)

Next == \E t \in Threads : Call(t) \/ Proceed(t)

Spec == Init /\ [][Next]_vars

\* A thread that is in send_udp gets on with it; none has to call it.
FairSpec == Spec /\ \A t \in Threads : WF_vars(Proceed(t))

-----------------------------------------------------------------------------
(* Properties.                                                             *)

\* However the threads race through the start, no thread opens a second
\* socket: there are never more of them than threads that send.
OneStartEach == \A t \in Threads : starts[t] <= 1

\* A thread has stored its socket and not connected it yet.
Connecting(t) == pc[t] \in {"check", "connect"}

\* As long as no call fails, the global socket is connected once the flag is set
\* and no thread is between storing its socket and connecting: a race of two
\* starts leaves no unconnected socket behind for good.
SettledConnected ==
  /\ ~failed /\ started
  /\ \A t \in Threads : ~Connecting(t)
  => sock \in connected

\* As long as no call fails, a send fails only while another thread is about to
\* connect the socket it has stored over the one that worked.
SendFailsOnlyInRace ==
  [][~failed =>
       \A t \in Threads : pc[t] = "send" /\ result'[t] = "failed" =>
         \/ pc'[t] = "send"
         \/ \E u \in Threads \ {t} : Connecting(u)]_vars

\* Calling send_udp once is enough for the socket to end up connected and stay
\* so, whoever else calls it, unless a socket() or connect() fails.
CallLeadsToConnected ==
  \A t \in Threads : pc[t] # "idle" ~> failed \/ [](sock \in connected)

\* Where the threads are relative to the start.
StartInv ==
  \A t \in Threads :
    /\ pc[t] = "socket" => starts[t] = 0
    /\ pc[t] = "idle" /\ starts[t] > 0 => started
    /\ pc[t] = "send" => started

\* A stored socket that is not connected is that of a thread which still will
\* connect, be it this one or one stored later.
ConnectInv ==
  ~failed =>
    /\ \A t \in Threads : pc[t] = "store" \/ Connecting(t) => fd[t] \in 1..opened
    /\ \/ sock \in connected
       \/ \E t \in Threads : Connecting(t) /\ fd[t] = sock
       \/ /\ sock = InvalidSock /\ ~started
          /\ \A t \in Threads : pc[t] \in {"idle", "socket", "store"}
=============================================================================
