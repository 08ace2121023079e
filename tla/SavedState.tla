----------------------------- MODULE SavedState -----------------------------
(***************************************************************************)
(* What saving the state of the BSEC2 library promises across restarts.    *)
(* Saved states are numbered from 1 in the order they are taken; None is   *)
(* no state.  What is kept is one whole state, the last one a save has     *)
(* completed, or nothing: it is lost (or, having been lost, found again)   *)
(* and replaced only while a save is under way.  A save of the state just  *)
(* taken replaces it by that state and no other; only a blind save, which  *)
(* could not get the state and saves what is in its buffer instead, can    *)
(* replace it by an older one.  Each restart continues from what is kept.  *)
(***************************************************************************)
EXTENDS Integers

None == 0

VARIABLES
  taken,   \* how many states have been taken
  complete, \* the last state a save has completed
  kept,    \* the state a restart would find, or None
  base,    \* the last taken state the library builds on, or None
  phase    \* "starting", "running", "saving" or "blind"

vars == <<taken, complete, kept, base, phase>>

Init == taken = 0 /\ complete = None /\ kept = None /\ base = None /\ phase = "starting"

\* Continue from the state that is kept.
Restore ==
  /\ phase = "starting"
  /\ phase' = "running"
  /\ base' = kept
  /\ UNCHANGED <<taken, complete, kept>>

\* Take the library's state and start to save it.
Take ==
  /\ phase = "running"
  /\ phase' = "saving"
  /\ taken' = taken + 1
  /\ base' = taken + 1
  /\ UNCHANGED <<complete, kept>>

\* Start to save what the buffer happens to hold: the last state taken again,
\* or anything else.
TakeFails ==
  /\ phase = "running"
  /\ phase' \in {"saving", "blind"}
  /\ UNCHANGED <<taken, complete, kept, base>>

\* The kept state is lost in the middle of a save, by the save or by a restart
\* that cuts it short.
Lose ==
  /\ phase \in {"saving", "blind"}
  /\ phase' \in {phase, "starting"}
  /\ kept' = None
  /\ base' = IF phase' = "starting" THEN None ELSE base
  /\ UNCHANGED <<taken, complete>>

\* A state that was lost can show up again during a save: the last one
\* completed and no other.
Resurface ==
  /\ phase \in {"saving", "blind"}
  /\ kept' = complete
  /\ UNCHANGED <<taken, complete, base, phase>>

\* A state is completed: the last one taken, or, in a blind save, any of those
\* taken before.  It is kept unless what the erase left behind hides it.
Commit ==
  /\ \/ phase = "saving" /\ complete' = taken
     \/ phase = "blind" /\ complete' \in 1..taken
  /\ kept' \in {complete', None}
  /\ UNCHANGED <<taken, base, phase>>

EndSave ==
  /\ phase \in {"saving", "blind"}
  /\ phase' = "running"
  /\ UNCHANGED <<taken, complete, kept, base>>

\* A restart forgets the library's state and nothing else.
Restart ==
  /\ phase' = "starting"
  /\ base' = None
  /\ UNCHANGED <<taken, complete, kept>>

Next == Restore \/ Take \/ TakeFails \/ Lose \/ Resurface \/ Commit \/ EndSave
        \/ Restart

Spec == Init /\ [][Next]_vars
=============================================================================
