------------------------------ MODULE BsecStore ------------------------------
(***************************************************************************)
(* Saving and restoring the state of the BSEC2 library: load_state and     *)
(* save_state of subsys/bme688_server on the flash page that               *)
(* subsys/app_flash reads, erases and writes.  The device may restart      *)
(* between any two steps and in the middle of an erase or a word's write.  *)
(*                                                                         *)
(* Saved states are numbered in the order bsec2_get_state takes them.      *)
(* Time is the uptime in hours (or finer): one Tick is one unit.           *)
(***************************************************************************)
EXTENDS Integers

CONSTANTS
  FirstSave,   \* the initial next_save_sec
  Period,      \* what a save adds to next_save_sec
  MaxLate,     \* the longest time between two calls of save_state
  Words,       \* flash words the serialized state takes
  Faults,      \* what may fail: a subset of {"read", "erase", "write", "state"}
  MaxUptime,   \* bound: the uptime stops there
  MaxTaken     \* bound: no more states are taken

ASSUME StoreAssumption ==
  /\ FirstSave \in Nat /\ Period \in Nat /\ MaxLate \in Nat
  /\ MaxLate < Period
  /\ Words \in Nat \ {0}
  /\ Faults \subseteq {"read", "erase", "write", "state"}
  /\ MaxUptime \in Nat /\ MaxTaken \in Nat

VARIABLES
  pc,        \* where bme688_service_bsec2 is
  now,       \* the uptime
  late,      \* time since save_state was last called (or since the start)
  nextSave,  \* next_save_sec
  base,      \* the last saved state the library's state builds on, or None
  data,      \* what save_state's buffer holds, word by word
  page,      \* the flash page, word by word; word 0 holds the magic key
  offset,    \* the word flash_write programs next
  complete,  \* history: the last state the page has held whole
  taken,     \* history: how many states have been taken, over all boots
  saves,     \* history: how many saves this boot has started
  savedAt,   \* history: the uptime at which the last of them started
  failed     \* history: has anything failed since the last of them started?

time    == <<now, late>>
ram     == <<nextSave, base, data>>
flash   == <<page, offset>>
history == <<complete, taken, saves, savedAt, failed>>
vars    == <<pc, time, ram, flash, history>>

None    == 0
Blank   == -1      \* an erased word
Garbage == -2      \* a word that is neither erased nor as it was written
Magic   == -3      \* the key 0x59731746
Cells   == Int
Layout  == 0..Words
Body    == 1..Words

TypeOK ==
  /\ pc \in {"load", "loop", "getState", "erase", "write"}
  /\ now \in Nat /\ late \in 0..MaxLate
  /\ nextSave \in Nat
  /\ base \in Nat /\ data \in [Body -> Int]
  /\ page \in [Layout -> Cells] /\ offset \in 0..Words + 1
  /\ complete \in Nat
  /\ taken \in Nat /\ saves \in Nat /\ savedAt \in Nat
  /\ failed \in BOOLEAN

\* bsec_set_state accepts a serialized state only as it was taken: the library
\* checks its integrity (BSEC_E_CONFIG_CRCMISMATCH).
Intact(p, s) == \A w \in Body : p[w] = s

\* The state the body of page contents p is in full, or None.
Whole(p) == IF p[1] > 0 /\ Intact(p, p[1]) THEN p[1] ELSE None

\* What load_state restores from page contents p.
Restored(p) == IF p[0] = Magic THEN Whole(p) ELSE None

Init ==
  /\ pc = "load" /\ now = 0 /\ late = 0
  /\ nextSave = FirstSave /\ base = None /\ data = [w \in Body |-> Garbage]
  /\ page \in {[w \in Layout |-> Blank], [w \in Layout |-> Garbage]}
  /\ offset = 0
  /\ complete = None
  /\ taken = 0 /\ saves = 0 /\ savedAt = 0 /\ failed = FALSE

-----------------------------------------------------------------------------
(* The thread of the service.                                              *)

\* MUTANT of LoadState: no magic key and no integrity check.
LoadStateUnchecked ==
  /\ pc = "load"
  /\ pc' = "loop"
  /\ base' = IF page[1] > 0 THEN page[1] ELSE None
  /\ UNCHANGED <<time, nextSave, data, flash, history>>

\* load_state: with the magic key in place the body goes to the library.
LoadState ==
  /\ pc = "load"
  /\ pc' = "loop"
  /\ base' = Restored(page)
  /\ UNCHANGED <<time, nextSave, data, flash, history>>

\* fss_read_data returns early and load_state goes on with the buffer it did
\* not initialise, which may hold what an earlier boot left in that memory.
LoadStateReadFails ==
  /\ pc = "load" /\ "read" \in Faults
  /\ pc' = "loop"
  /\ base' \in 0..taken /\ failed' = TRUE
  /\ UNCHANGED <<time, nextSave, data, flash, complete, taken, saves, savedAt>>

\* One pass of the loop: save_state finds that it is too early.
SaveNotDue ==
  /\ pc = "loop" /\ now <= nextSave
  /\ late' = 0
  /\ UNCHANGED <<pc, now, ram, flash, history>>

\* MUTANTS of SaveDue: the next save not rescheduled, put off twice, moved
\* backwards, taken an instant early.
SaveDueNoStep ==
  /\ pc = "loop" /\ now > nextSave
  /\ pc' = "getState" /\ late' = 0
  /\ saves' = saves + 1 /\ savedAt' = now /\ failed' = FALSE
  /\ UNCHANGED <<now, ram, flash, complete, taken>>

SaveDueDoubleStep ==
  /\ pc = "loop" /\ now > nextSave
  /\ pc' = "getState" /\ late' = 0
  /\ nextSave' = nextSave + Period + Period
  /\ saves' = saves + 1 /\ savedAt' = now /\ failed' = FALSE
  /\ UNCHANGED <<now, base, data, flash, complete, taken>>

SaveDueBackwards ==
  /\ pc = "loop" /\ now > nextSave
  /\ pc' = "getState" /\ late' = 0
  /\ nextSave' = nextSave - Period
  /\ saves' = saves + 1 /\ savedAt' = now /\ failed' = FALSE
  /\ UNCHANGED <<now, base, data, flash, complete, taken>>

SaveDueEarly ==
  /\ pc = "loop" /\ now >= nextSave
  /\ pc' = "getState" /\ late' = 0
  /\ nextSave' = nextSave + Period
  /\ saves' = saves + 1 /\ savedAt' = now /\ failed' = FALSE
  /\ UNCHANGED <<now, base, data, flash, complete, taken>>

\* save_state starts a save; the next one is scheduled before anything is done.
SaveDue ==
  /\ pc = "loop" /\ now > nextSave
  /\ pc' = "getState" /\ late' = 0
  /\ nextSave' = nextSave + Period
  /\ saves' = saves + 1 /\ savedAt' = now /\ failed' = FALSE
  /\ UNCHANGED <<now, base, data, flash, complete, taken>>

\* bsec2_get_state fills the buffer behind the key.
GetState ==
  /\ pc = "getState" /\ taken < MaxTaken
  /\ pc' = "erase"
  /\ taken' = taken + 1 /\ base' = taken + 1
  /\ data' = [w \in Body |-> taken + 1]
  /\ UNCHANGED <<time, nextSave, flash, complete, saves, savedAt, failed>>

\* bsec_get_state fails, which is only logged: the buffer, never initialised,
\* is saved as it is, with words of any states taken before or none in it.
GetStateFails ==
  /\ pc = "getState" /\ "state" \in Faults
  /\ pc' = "erase" /\ failed' = TRUE
  /\ data' \in [Body -> {Garbage} \union 1..taken]
  /\ UNCHANGED <<time, nextSave, base, flash, complete, taken, saves, savedAt>>

-----------------------------------------------------------------------------
(* fss_write_data.                                                         *)

\* Page contents after an erase that stopped somewhere.
PartlyErased(p) ==
  {q \in [Layout -> {Blank, Garbage} \union {p[w] : w \in Layout}] :
      \A w \in Layout : q[w] \in {p[w], Blank, Garbage}}

\* MUTANT of Erase: the page that is written is not the one erased.
EraseElsewhere ==
  /\ pc = "erase"
  /\ pc' = "write" /\ offset' = 0
  /\ UNCHANGED <<time, ram, page, history>>

Erase ==
  /\ pc = "erase"
  /\ pc' = "write" /\ offset' = 0
  /\ page' = [w \in Layout |-> Blank]
  /\ UNCHANGED <<time, ram, history>>

\* A failing erase is printed; the write follows all the same.
EraseFails ==
  /\ pc = "erase" /\ "erase" \in Faults
  /\ pc' = "write" /\ offset' = 0
  /\ page' \in PartlyErased(page) /\ failed' = TRUE
  /\ UNCHANGED <<time, ram, complete, taken, saves, savedAt>>

\* Programming flash can only clear bits.
Programmed(old, new) ==
  IF old = Blank \/ old = new THEN new ELSE Garbage

Written(w) == IF w = 0 THEN Magic ELSE data[w]

\* Does save_state's buffer hold the last state taken?
TakenLast == data = [w \in Body |-> taken]

WriteWord ==
  /\ pc = "write" /\ offset \in Layout
  /\ page' = [page EXCEPT ![offset] = Programmed(page[offset], Written(offset))]
  /\ offset' = offset + 1
  /\ complete' = IF Whole(page') # None THEN Whole(page') ELSE complete
  /\ UNCHANGED <<pc, time, ram, taken, saves, savedAt, failed>>

WriteDone ==
  /\ pc = "write" /\ offset = Words + 1
  /\ pc' = "loop"
  /\ UNCHANGED <<time, ram, flash, history>>

\* flash_write gives up anywhere; what it wrote stays and nothing is retried.
WriteFails ==
  /\ pc = "write" /\ "write" \in Faults
  /\ pc' = "loop" /\ failed' = TRUE
  /\ UNCHANGED <<time, ram, flash, complete, taken, saves, savedAt>>

-----------------------------------------------------------------------------
(* The surroundings.                                                       *)

\* Time passes at any point of the thread, which calls save_state again
\* within MaxLate.
Tick ==
  /\ now < MaxUptime /\ late < MaxLate
  /\ now' = now + 1 /\ late' = late + 1
  /\ UNCHANGED <<pc, ram, flash, history>>

\* What a restart at this point can leave in the page.
PageAfterCut ==
  IF pc = "erase" THEN PartlyErased(page)
  ELSE {page} \union (IF pc = "write" /\ offset \in Layout
                        THEN {[page EXCEPT ![offset] = Garbage]} ELSE {})

\* A button click, a factory reset, a fatal error or the power: any time.
Restart ==
  /\ page' \in PageAfterCut
  /\ pc' = "load" /\ now' = 0 /\ late' = 0
  /\ nextSave' = FirstSave /\ base' = None /\ offset' = 0
  /\ data' = [w \in Body |-> Garbage]
  /\ saves' = 0 /\ savedAt' = 0 /\ failed' = FALSE
  /\ UNCHANGED <<complete, taken>>

Service ==
  \/ LoadState \/ LoadStateReadFails
  \/ SaveNotDue \/ SaveDue
  \/ GetState \/ GetStateFails
  \/ Erase \/ EraseFails
  \/ WriteWord \/ WriteDone \/ WriteFails

Next == Service \/ Tick \/ Restart

Spec == Init /\ [][Next]_vars

-----------------------------------------------------------------------------
(* Properties.                                                             *)

\* next_save_sec counts the saves this boot has started, each of them was
\* started on time, and save_state is never further behind than MaxLate.
ScheduleInv ==
  /\ nextSave = FirstSave + saves * Period /\ nextSave >= FirstSave
  /\ now - late <= nextSave
  /\ savedAt <= now
  /\ saves > 0 => /\ savedAt > nextSave - Period
                  /\ savedAt <= nextSave - Period + MaxLate
  /\ pc \in {"getState", "erase", "write"} => now > FirstSave

\* No number beyond those taken is anywhere.
NumbersInv ==
  /\ base <= taken /\ complete <= taken
  /\ \A w \in Body : data[w] <= taken
  /\ \A w \in Layout : page[w] <= taken

\* Whatever is torn and mixed by erases and writes that stop anywhere, the page
\* is never a state in full but the last one a save has completed.
KeptInv == Whole(page) \in {None, complete}

\* The inductive invariant behind the properties.
StoreInv == ScheduleInv /\ NumbersInv /\ KeptInv

\* In a save where nothing fails, a write finds and leaves the page as it
\* should be, whatever state earlier failures have left it in.
SoundInv ==
  ~failed =>
    /\ pc \in {"erase", "write"} => TakenLast /\ taken > 0
    /\ pc = "write" =>
         \A w \in Layout : page[w] = IF w < offset THEN Written(w) ELSE Blank
    /\ pc = "load" => saves = 0
    /\ pc = "loop" /\ saves > 0 => Restored(page) = taken

\* The page is erased and rewritten at most once in the first Period after
\* FirstSave and once in every further Period of a boot, however the passes of
\* the loop are delayed: "first after 1h then once every 24h"
\* (bme688_server.cpp, the call of save_state).
WearBound == saves > 0 => FirstSave + (saves - 1) * Period < now

\* Two saves of one boot are never closer than Period less a pass's delay,
\* and never further apart than Period and a pass's delay: a late save neither
\* shifts the later ones nor makes two of them follow each other at once.
SavesSpaced ==
  [][saves > 0 /\ saves' = saves + 1 =>
       /\ savedAt' - savedAt > Period - MaxLate
       /\ savedAt' - savedAt < Period + MaxLate]_vars

\* A device that restarts again and again before its first save is due never
\* touches the page: neither the restarts nor load_state endanger what an
\* earlier boot saved.
QuietUntilFirstSave == [][page' # page => now > FirstSave]_vars

\* An hour and a pass into a boot, whatever has failed before, the last save is
\* no older than Period and a pass's delay; if nothing failed in that save, the
\* page holds the last state taken.  So a save that fails, with the page erased,
\* is made good by the next one that works (save_state schedules the next save
\* before anything can fail, and fss_write_data erases what a failed one left).
StoredIsRecent ==
  pc = "loop" /\ now > FirstSave + MaxLate =>
    /\ saves > 0
    /\ now - savedAt < Period + MaxLate
    /\ ~failed => Restored(page) = taken

\* Where the service is, as SavedState sees it: a save whose buffer does not hold
\* the last state taken is a blind one.
Phase ==
  IF pc = "load" THEN "starting"
  ELSE IF pc \in {"loop", "getState"} THEN "running"
  ELSE IF TakenLast THEN "saving" ELSE "blind"

Saved == INSTANCE SavedState WITH kept <- Restored(page), phase <- Phase

\* Whatever a restart, a failed erase or a failed write does to the page, what
\* load_state restores is the state the last save to complete one has left, or
\* nothing.  A save that got its state can only put that state, the newest, in
\* the place of the kept one, or lose it; one that did not get it can put any
\* older state there, but still a whole one (save_state, load_state and
\* fss_write_data implement SavedState).
SavedStateSpec == Saved!Spec
=============================================================================
