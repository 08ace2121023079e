---------------------------- MODULE RequestReply ----------------------------
(***************************************************************************)
(* What the JSON endpoint promises to those who send it requests: at most  *)
(* one reply to each, to whoever sent it, about nothing but this request.  *)
(* A request that is still open may be lost at any time.                   *)
(***************************************************************************)
EXTENDS FiniteSets

CONSTANTS
  Requests,
  Clients,
  From,        \* who sends which request
  Kinds,       \* what a request may be
  Valid        \* the kinds that are answered with a result, not an error

VARIABLES
  kind,        \* what each request is
  open,        \* requests that may still be answered
  asked,       \* requests that were ever sent
  replies      \* the replies on their way to the clients

vars == <<kind, open, asked, replies>>

Reply(r) == [to |-> From[r], about |-> r, valid |-> kind[r] \in Valid]

Init ==
  /\ kind \in [Requests -> Kinds]
  /\ open = {} /\ asked = {} /\ replies = {}

\* A request may be lost on its way.
Ask(r) ==
  /\ r \notin asked
  /\ asked' = asked \union {r} /\ open' \in {open, open \union {r}}
  /\ UNCHANGED <<kind, replies>>

Answer(r) ==
  /\ r \in open
  /\ open' = open \ {r} /\ replies' = replies \union {Reply(r)}
  /\ UNCHANGED <<kind, asked>>

\* Ignored, or gone with a restart.
Lose(lost) ==
  /\ lost \subseteq open
  /\ open' = open \ lost
  /\ UNCHANGED <<kind, asked, replies>>

Next ==
  \/ \E r \in Requests : Ask(r) \/ Answer(r)
  \/ \E lost \in SUBSET Requests : Lose(lost)

Spec == Init /\ [][Next]_vars
=============================================================================
