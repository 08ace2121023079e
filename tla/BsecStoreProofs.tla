-------------------------- MODULE BsecStoreProofs --------------------------
(***************************************************************************)
(* The safety properties of BsecStore, for every schedule, state size and  *)
(* set of faults; that it implements SavedState in every behaviour whose   *)
(* reads work, and what a read that fails adds to it in the others.        *)
(***************************************************************************)
EXTENDS BsecStore, TLAPS

\* An erase that stops early, or a restart, leaves cells that are as they were,
\* erased or garbage.
LEMMA CutCells ==
  ASSUME page \in [Layout -> Cells],
         NEW q, q \in PartlyErased(page) \/ q \in PageAfterCut
  PROVE /\ q \in [Layout -> Cells]
        /\ \A w \in Layout : q[w] \in {page[w], Blank, Garbage}
<1>1. CASE q \in PartlyErased(page)
  BY <1>1 DEF PartlyErased, Cells, Blank, Garbage
<1>2. CASE q \in PageAfterCut
  <2>1. CASE pc = "erase"
    BY <1>1, <1>2, <2>1 DEF PageAfterCut, PartlyErased, Cells, Blank, Garbage
  <2>2. CASE pc # "erase"
    BY <1>2, <2>2 DEF PageAfterCut, Cells, Garbage
  <2> QED
    BY <2>1, <2>2
<1> QED
  BY <1>1, <1>2

\* A page is a state in full only with all its words, and every other page is
\* none.
LEMMA WholeCells ==
  ASSUME NEW p \in [Layout -> Cells]
  PROVE  /\ Whole(p) \in Nat
         /\ Whole(p) # None => Whole(p) > 0 /\ \A w \in Body : p[w] = Whole(p)
BY StoreAssumption DEF Whole, Intact, None, Cells, Layout, Body

\* An erase that stops early, or a restart, makes no page a state that it was
\* not before.
LEMMA CutWhole ==
  ASSUME page \in [Layout -> Cells],
         NEW q, q \in PartlyErased(page) \/ q \in PageAfterCut
  PROVE  Whole(q) \in {None, Whole(page)}
<1>1. /\ q \in [Layout -> Cells]
      /\ \A w \in Layout : q[w] \in {page[w], Blank, Garbage}
  BY CutCells
<1>2. SUFFICES ASSUME q[1] > 0, \A w \in Body : q[w] = q[1]
               PROVE  Whole(q) = Whole(page)
  BY DEF Whole, Intact
<1>3. \A w \in Body : page[w] = q[w]
  BY <1>1, <1>2, StoreAssumption DEF Body, Layout, Cells, Blank, Garbage
<1>4. 1 \in Body
  BY StoreAssumption DEF Body
<1> QED
  BY <1>2, <1>3, <1>4 DEF Whole, Intact

\* Every variable keeps its type.
THEOREM TypeCorrect == Spec => []TypeOK
<1>1. Init => TypeOK
  <2> SUFFICES ASSUME Init PROVE TypeOK
    OBVIOUS
  <2>1. failed \in BOOLEAN
    BY DEF Init
  <2>2. page \in [Layout -> Cells]
    BY DEF Init, Blank, Garbage, Cells
  <2>3. base \in Nat /\ data \in [Body -> Int] /\ complete \in Nat
    BY DEF Init, None, Garbage
  <2> QED
    BY <2>1, <2>2, <2>3, StoreAssumption DEF Init, TypeOK
<1>2. TypeOK /\ [Next]_vars => TypeOK'
  <2> SUFFICES ASSUME TypeOK, [Next]_vars
               PROVE TypeOK'
    OBVIOUS
  <2> USE StoreAssumption DEF TypeOK
  <2>1. CASE LoadState
    <3>1. Restored(page) \in Nat
      BY WholeCells DEF Restored, None
    <3> QED
      BY <2>1, <3>1 DEF LoadState, time, flash, history
  <2>2. CASE LoadStateReadFails
    BY <2>2 DEF LoadStateReadFails, time, ram, flash, history
  <2>3. CASE SaveNotDue
    BY <2>3 DEF SaveNotDue, time, ram, flash, history
  <2>4. CASE SaveDue
    <3>1. failed' \in BOOLEAN
      BY <2>4 DEF SaveDue
    <3> QED
      BY <2>4, <3>1 DEF SaveDue, flash
  <2>5. CASE GetState
    BY <2>5 DEF GetState, time, ram, flash, history
  <2>6. CASE GetStateFails
    BY <2>6 DEF GetStateFails, time, flash, Garbage
  <2>7. CASE Erase
    BY <2>7 DEF Erase, time, ram, history, Cells, Blank
  <2>8. CASE EraseFails
    <3>1. page' \in [Layout -> Cells]
      BY <2>8, CutCells DEF EraseFails
    <3> QED
      BY <2>8, <3>1 DEF EraseFails, time, ram, history
  <2>9. CASE WriteWord
    <3>1. page' \in [Layout -> Cells]
      BY <2>9 DEF WriteWord, Programmed, Written, Cells, Garbage, Magic,
         Layout, Body
    <3>2. offset' \in 0..Words + 1
      BY <2>9 DEF WriteWord, Layout
    <3>3. complete' \in Nat
      BY <2>9, <3>1, WholeCells DEF WriteWord
    <3> QED
      BY <2>9, <3>1, <3>2, <3>3 DEF WriteWord, time, ram
  <2>10. CASE WriteDone
    BY <2>10 DEF WriteDone, time, ram, flash, history
  <2>11. CASE WriteFails
    BY <2>11 DEF WriteFails, time, ram, flash, history
  <2>12. CASE Tick
    BY <2>12 DEF Tick, time, ram, flash, history
  <2>13. CASE Restart
    <3>1. page' \in [Layout -> Cells]
      BY <2>13, CutCells DEF Restart
    <3>2. failed' \in BOOLEAN
      BY <2>13 DEF Restart
    <3>3. base' \in Nat /\ data' \in [Body -> Int]
      BY <2>13 DEF Restart, None, Garbage
    <3> QED
      BY <2>13, <3>1, <3>2, <3>3 DEF Restart
  <2>14. CASE UNCHANGED vars
    BY <2>14 DEF vars, time, ram, flash, history
  <2> QED
    BY <2>1, <2>2, <2>3, <2>4, <2>5, <2>6, <2>7, <2>8, <2>9, <2>10, <2>11,
       <2>12, <2>13, <2>14 DEF Next, Service
<1> QED
  BY <1>1, <1>2, PTL DEF Spec

\* next_save_sec follows the saves of this boot, each started on time.
LEMMA ScheduleCorrect == Spec => []ScheduleInv
<1>1. Init => ScheduleInv
  BY StoreAssumption DEF Init, ScheduleInv
<1>2. ScheduleInv /\ TypeOK /\ TypeOK' /\ [Next]_vars => ScheduleInv'
  <2> SUFFICES ASSUME ScheduleInv, TypeOK, TypeOK', [Next]_vars
               PROVE ScheduleInv'
    OBVIOUS
  <2> USE StoreAssumption DEF ScheduleInv, TypeOK
  <2>1. CASE LoadState
    BY <2>1 DEF LoadState, time, ram, flash, history
  <2>2. CASE LoadStateReadFails
    BY <2>2 DEF LoadStateReadFails, time, ram, flash, history
  <2>3. CASE SaveNotDue
    BY <2>3 DEF SaveNotDue, time, ram, flash, history
  <2>4. CASE SaveDue
    <3>1. nextSave' = FirstSave + saves' * Period
      BY <2>4 DEF SaveDue
    <3> QED
      BY <2>4, <3>1 DEF SaveDue, flash
  <2>5. CASE GetState
    BY <2>5 DEF GetState, time, ram, flash, history
  <2>6. CASE GetStateFails
    BY <2>6 DEF GetStateFails, time, ram, flash, history
  <2>7. CASE Erase
    BY <2>7 DEF Erase, time, ram, flash, history
  <2>8. CASE EraseFails
    BY <2>8 DEF EraseFails, time, ram, flash, history
  <2>9. CASE WriteWord
    BY <2>9 DEF WriteWord, time, ram, flash, history
  <2>10. CASE WriteDone
    BY <2>10 DEF WriteDone, time, ram, flash, history
  <2>11. CASE WriteFails
    BY <2>11 DEF WriteFails, time, ram, flash, history
  <2>12. CASE Tick
    BY <2>12 DEF Tick, time, ram, flash, history
  <2>13. CASE Restart
    BY <2>13 DEF Restart, time, ram, flash, history
  <2>14. CASE UNCHANGED vars
    BY <2>14 DEF vars, time, ram, flash, history
  <2> QED
    BY <2>1, <2>2, <2>3, <2>4, <2>5, <2>6, <2>7, <2>8, <2>9, <2>10, <2>11,
       <2>12, <2>13, <2>14 DEF Next, Service
<1> QED
  BY <1>1, <1>2, TypeCorrect, PTL DEF Spec

\* No number beyond those taken is anywhere.
LEMMA NumbersCorrect == Spec => []NumbersInv
<1>1. Init => NumbersInv
  BY StoreAssumption DEF Init, NumbersInv, Blank, Garbage, None, Layout
<1>2. NumbersInv /\ TypeOK /\ TypeOK' /\ [Next]_vars => NumbersInv'
  <2> SUFFICES ASSUME NumbersInv, TypeOK, TypeOK', [Next]_vars
               PROVE NumbersInv'
    OBVIOUS
  <2> USE StoreAssumption DEF NumbersInv, TypeOK
  <2>1. CASE LoadState
    <3>1. Whole(page) <= taken
      BY StoreAssumption DEF Whole, None, Layout
    <3> QED
      BY <2>1, <3>1 DEF LoadState, Restored, None, time, flash, history
  <2>2. CASE LoadStateReadFails
    BY <2>2 DEF LoadStateReadFails, time, ram, flash, history
  <2>3. CASE SaveNotDue
    BY <2>3 DEF SaveNotDue, time, ram, flash, history
  <2>4. CASE SaveDue
    BY <2>4 DEF SaveDue, time, ram, flash, history
  <2>5. CASE GetState
    <3>1. \A w \in Layout : page[w] <= taken + 1
      BY DEF Cells
    <3> QED
      BY <2>5, <3>1 DEF GetState, time, flash
  <2>6. CASE GetStateFails
    BY <2>6 DEF GetStateFails, Garbage, time, flash
  <2>7. CASE Erase
    BY <2>7 DEF Erase, Blank, time, ram, history
  <2>8. CASE EraseFails
    <3>1. \A w \in Layout : page'[w] <= taken
      BY <2>8, CutCells DEF EraseFails, Blank, Garbage, Cells
    <3> QED
      BY <2>8, <3>1 DEF EraseFails, time, ram, history
  <2>9. CASE WriteWord
    <3>1. \A w \in Layout : page'[w] <= taken
      BY <2>9 DEF WriteWord, Programmed, Written, Garbage, Magic, Cells,
         Layout, Body
    <3>2. complete' <= taken
      BY <2>9, <3>1, StoreAssumption DEF WriteWord, Whole, None, Layout
    <3> QED
      BY <2>9, <3>1, <3>2 DEF WriteWord, time, ram
  <2>10. CASE WriteDone
    BY <2>10 DEF WriteDone, time, ram, flash, history
  <2>11. CASE WriteFails
    BY <2>11 DEF WriteFails, time, ram, flash, history
  <2>12. CASE Tick
    BY <2>12 DEF Tick, time, ram, flash, history
  <2>13. CASE Restart
    <3>1. \A w \in Layout : page'[w] <= taken
      BY <2>13, CutCells DEF Restart, Blank, Garbage, Cells
    <3> QED
      BY <2>13, <3>1 DEF Restart, None, Garbage
  <2>14. CASE UNCHANGED vars
    BY <2>14 DEF vars, time, ram, flash, history
  <2> QED
    BY <2>1, <2>2, <2>3, <2>4, <2>5, <2>6, <2>7, <2>8, <2>9, <2>10, <2>11,
       <2>12, <2>13, <2>14 DEF Next, Service
<1> QED
  BY <1>1, <1>2, TypeCorrect, PTL DEF Spec

\* No page but that of the last completed state is ever whole.
LEMMA KeptCorrect == Spec => []KeptInv
<1>1. Init => KeptInv
  BY StoreAssumption DEF Init, KeptInv, Whole, Blank, Garbage, None, Layout
<1>2. KeptInv /\ TypeOK /\ [Next]_vars => KeptInv'
  <2> SUFFICES ASSUME KeptInv, TypeOK, [Next]_vars
               PROVE KeptInv'
    OBVIOUS
  <2> USE DEF KeptInv
  <2>1. CASE UNCHANGED <<page, complete>>
    BY <2>1 DEF Whole, Intact
  <2>2. CASE Erase
    BY <2>2, StoreAssumption DEF Erase, Whole, Blank, Layout, history
  <2>3. CASE EraseFails
    BY <2>3, CutWhole DEF EraseFails, TypeOK
  <2>4. CASE WriteWord
    BY <2>4 DEF WriteWord
  <2>5. CASE Restart
    BY <2>5, CutWhole DEF Restart, TypeOK
  <2> QED
    BY <2>1, <2>2, <2>3, <2>4, <2>5 DEF Next, Service, LoadState,
       LoadStateReadFails, SaveNotDue, SaveDue, GetState, GetStateFails,
       WriteDone, WriteFails, Tick, vars, flash, history
<1> QED
  BY <1>1, <1>2, TypeCorrect, PTL DEF Spec

\* A save in which nothing failed leaves what it took.
LEMMA SoundCorrect == Spec => []SoundInv
<1>1. Init => SoundInv
  BY StoreAssumption DEF Init, SoundInv
<1>2. SoundInv /\ TypeOK /\ TypeOK' /\ [Next]_vars => SoundInv'
  <2> SUFFICES ASSUME SoundInv, TypeOK, TypeOK', [Next]_vars
               PROVE SoundInv'
    OBVIOUS
  <2> USE StoreAssumption DEF SoundInv, TakenLast
  <2>1. CASE LoadState
    BY <2>1 DEF LoadState, time, flash, history
  <2>2. CASE LoadStateReadFails
    BY <2>2 DEF LoadStateReadFails
  <2>3. CASE SaveNotDue
    BY <2>3 DEF SaveNotDue, flash, history, Restored, Whole, Intact
  <2>4. CASE SaveDue
    BY <2>4 DEF SaveDue
  <2>5. CASE GetState
    BY <2>5 DEF GetState, TypeOK, time, flash
  <2>6. CASE GetStateFails
    BY <2>6 DEF GetStateFails
  <2>7. CASE Erase
    BY <2>7 DEF Erase, TypeOK, Layout, time, ram, history
  <2>8. CASE EraseFails
    BY <2>8 DEF EraseFails
  <2>9. CASE WriteWord
    <3>1. \A w \in Layout : w # offset => page'[w] = page[w]
      BY <2>9 DEF WriteWord, TypeOK
    <3>2. page'[offset] = Programmed(page[offset], Written(offset))
      BY <2>9 DEF WriteWord, TypeOK
    <3>3. \A w \in Layout : Written(w)' = Written(w)
      BY <2>9 DEF WriteWord, Written, ram
    <3>4. ~failed => page[offset] = Blank
      BY <2>9 DEF WriteWord, Layout
    <3> QED
      BY <2>9, <3>1, <3>2, <3>3, <3>4 DEF WriteWord, Programmed, TypeOK, Layout,
         ram
  <2>10. CASE WriteDone
    <3>1. ASSUME ~failed PROVE Restored(page) = taken
      <4>1. \A w \in Layout : page[w] = Written(w)
        BY <2>10, <3>1 DEF WriteDone, Layout
      <4>2. /\ 0 \in Layout /\ 1 \in Body
            /\ \A w \in Body : w \in Layout /\ w # 0
        BY DEF Layout, Body
      <4>3. page[0] = Magic /\ \A w \in Body : page[w] = data[w]
        BY <4>1, <4>2 DEF Written
      <4>4. taken > 0 /\ \A w \in Body : data[w] = taken
        BY <2>10, <3>1 DEF WriteDone
      <4> QED
        BY <4>2, <4>3, <4>4 DEF Restored, Whole, Intact
    <3> QED
      BY <2>10, <3>1 DEF WriteDone, Restored, Whole, Intact, flash, history, ram
  <2>11. CASE WriteFails
    BY <2>11 DEF WriteFails
  <2>12. CASE Tick
    BY <2>12 DEF Tick, Written, Restored, Whole, Intact, ram, flash, history
  <2>13. CASE Restart
    BY <2>13 DEF Restart
  <2>14. CASE UNCHANGED vars
    BY <2>14 DEF vars, Written, Restored, Whole, Intact, time, ram, flash, history
  <2> QED
    BY <2>1, <2>2, <2>3, <2>4, <2>5, <2>6, <2>7, <2>8, <2>9, <2>10, <2>11,
       <2>12, <2>13, <2>14 DEF Next, Service
<1> QED
  BY <1>1, <1>2, TypeCorrect, PTL DEF Spec


\* The inductive invariant of BsecStore holds.
THEOREM StoreInvCorrect == Spec => []StoreInv
BY ScheduleCorrect, NumbersCorrect, KeptCorrect, PTL DEF StoreInv

\* For every schedule and however the loop is delayed, a boot wears the page
\* no faster than once a Period.
THEOREM WearBounded == Spec => []WearBound
<1>1. ScheduleInv /\ TypeOK => WearBound
  <2> SUFFICES ASSUME ScheduleInv, TypeOK, saves > 0
               PROVE FirstSave + (saves - 1) * Period < now
    BY DEF WearBound
  <2>1. FirstSave + (saves - 1) * Period = nextSave - Period
    BY StoreAssumption DEF ScheduleInv, TypeOK
  <2> QED
    BY <2>1, StoreAssumption DEF ScheduleInv, TypeOK
<1> QED
  BY <1>1, ScheduleCorrect, TypeCorrect, PTL

\* The saves of a boot keep their distance, whatever the other saves did.
THEOREM SavesKeepDistance == Spec => SavesSpaced
<1> DEFINE Spaced ==
      saves > 0 /\ saves' = saves + 1 =>
        /\ savedAt' - savedAt > Period - MaxLate
        /\ savedAt' - savedAt < Period + MaxLate
<1>1. ScheduleInv /\ TypeOK /\ [Next]_vars => [Spaced]_vars
  <2> SUFFICES ASSUME ScheduleInv, TypeOK, Next,
                      saves > 0, saves' = saves + 1
               PROVE /\ savedAt' - savedAt > Period - MaxLate
                     /\ savedAt' - savedAt < Period + MaxLate
    OBVIOUS
  <2>1. saves' # saves /\ saves' # 0
    BY DEF TypeOK
  <2>2. SaveDue
    BY <2>1 DEF Next, Service, LoadState, LoadStateReadFails, SaveNotDue,
       GetState, GetStateFails, Erase, EraseFails, WriteWord, WriteDone,
       WriteFails, Tick, Restart, time, ram, flash, history
  <2> QED
    BY <2>2, StoreAssumption DEF SaveDue, ScheduleInv, TypeOK
<1> QED
  BY <1>1, ScheduleCorrect, TypeCorrect, PTL DEF Spec, SavesSpaced

\* Boots that end before the first save is due leave the page alone.
THEOREM RestartsAreHarmless == Spec => QuietUntilFirstSave
<1> DEFINE Quiet == page' # page => now > FirstSave
<1>1. ScheduleInv /\ [Next]_vars => [Quiet]_vars
  <2> SUFFICES ASSUME ScheduleInv, Next, page' # page
               PROVE now > FirstSave
    OBVIOUS
  <2>1. pc \in {"erase", "write"}
    BY DEF Next, Service, LoadState, LoadStateReadFails, SaveNotDue, SaveDue,
       GetState, GetStateFails, Erase, EraseFails, WriteWord, WriteDone,
       WriteFails, Tick, Restart, PageAfterCut, time, ram, flash, history
  <2> QED
    BY <2>1 DEF ScheduleInv
<1> QED
  BY <1>1, ScheduleCorrect, PTL DEF Spec, QuietUntilFirstSave

\* A save is never long ago, and where nothing failed in the last one the page
\* holds the last state taken.
THEOREM StoredRecent == Spec => []StoredIsRecent
<1>1. ScheduleInv /\ SoundInv /\ TypeOK => StoredIsRecent
  <2> SUFFICES ASSUME ScheduleInv, SoundInv, TypeOK,
                      pc = "loop", now > FirstSave + MaxLate
               PROVE /\ saves > 0
                     /\ now - savedAt < Period + MaxLate
                     /\ ~failed => Restored(page) = taken
    BY DEF StoredIsRecent
  <2>1. saves > 0
    BY StoreAssumption DEF ScheduleInv, TypeOK
  <2>2. now - savedAt < Period + MaxLate
    BY <2>1, StoreAssumption DEF ScheduleInv, TypeOK
  <2>3. ~failed => Restored(page) = taken
    BY <2>1 DEF SoundInv
  <2> QED
    BY <2>1, <2>2, <2>3
<1> QED
  BY <1>1, ScheduleCorrect, SoundCorrect, TypeCorrect, PTL

\* A restart, or an erase that stops early, loses what the page holds or
\* leaves it.
LEMMA CutLosesOrKeeps ==
  ASSUME TypeOK,
         NEW q, q \in PartlyErased(page) \/ q \in PageAfterCut
  PROVE Restored(q) \in {None, Restored(page)}
<1>1. /\ q \in [Layout -> Cells]
      /\ \A w \in Layout : q[w] \in {page[w], Blank, Garbage}
  BY CutCells DEF TypeOK
<1>2. q[0] = Magic => page[0] = Magic
  BY <1>1, StoreAssumption DEF Layout, Blank, Garbage, Magic
<1>3. Whole(q) \in {None, Whole(page)}
  BY CutWhole DEF TypeOK
<1> QED
  BY <1>2, <1>3 DEF Restored

\* A word that makes the page whole, as it was not before, is a word of the
\* state in save_state's buffer.
LEMMA NewlyWhole ==
  ASSUME TypeOK, TypeOK', KeptInv, WriteWord, complete' # complete
  PROVE  /\ offset \in Body /\ complete' = data[offset]
         /\ complete' > 0 /\ Whole(page') = complete'
<1>1. /\ page \in [Layout -> Cells] /\ page' \in [Layout -> Cells]
      /\ offset \in Layout /\ data \in [Body -> Int]
  BY DEF TypeOK, WriteWord
<1>2. complete' = Whole(page') /\ Whole(page') # None
  BY DEF WriteWord
<1>3. Whole(page') > 0 /\ \A w \in Body : page'[w] = Whole(page')
  BY <1>1, <1>2, WholeCells
<1>4. offset # 0
  <2> SUFFICES ASSUME offset = 0 PROVE FALSE
    OBVIOUS
  <2>1. \A w \in Body : page'[w] = page[w]
    BY <1>1 DEF WriteWord, Body, Layout
  <2>2. 1 \in Body
    BY StoreAssumption DEF Body
  <2>3. Whole(page') = Whole(page)
    BY <2>1, <2>2 DEF Whole, Intact
  <2> QED
    BY <1>2, <2>3 DEF KeptInv
<1>5. offset \in Body
  BY <1>1, <1>4 DEF Layout, Body
<1>6. page'[offset] = Programmed(page[offset], data[offset])
  BY <1>1, <1>4 DEF WriteWord, Written
<1>7. page'[offset] = data[offset]
  BY <1>3, <1>5, <1>6 DEF Programmed, Garbage
<1> QED
  BY <1>2, <1>3, <1>5, <1>7

\* Every invariant the steps towards SavedState are judged by.
PageInv == TypeOK /\ NumbersInv /\ KeptInv

\* They hold whatever fails, reads included.
LEMMA PageCorrect == Spec => []PageInv
BY TypeCorrect, NumbersCorrect, KeptCorrect, PTL DEF PageInv

\* load_state after a read that failed, as SavedState sees it: the library
\* starts from a number it was not given, and what is kept stays as it is.
Misread ==
  /\ Phase = "starting" /\ Phase' = "running"
  /\ base' \in 0..taken
  /\ UNCHANGED <<taken, complete, Restored(page)>>

\* A step of the service, of time or of a restart is a step of SavedState, none
\* at all, or a read that failed.
LEMMA StoreStep ==
  ASSUME PageInv, PageInv', [Next]_vars
  PROVE  \/ Saved!Next \/ UNCHANGED Saved!vars
         \/ LoadStateReadFails /\ Misread
<1> DEFINE kept == Restored(page)
<1> USE DEF PageInv
<1>a. kept \in {None, complete} /\ kept' \in {None, complete'}
  BY DEF Restored, KeptInv
<1>b. page' = page => kept' = kept
  BY DEF Restored, Whole, Intact
<1>1. CASE LoadState
  <2>1. Saved!Restore
    BY <1>1, <1>b DEF LoadState, Saved!Restore, Phase, flash, history
  <2> QED
    BY <2>1 DEF Saved!Next
<1>2. CASE LoadStateReadFails
  <2>1. UNCHANGED <<taken, complete, page>> /\ base' \in 0..taken
    BY <1>2 DEF LoadStateReadFails, flash
  <2>2. Phase = "starting" /\ Phase' = "running"
    BY <1>2 DEF LoadStateReadFails, Phase
  <2>3. Misread
    BY <2>1, <2>2, <1>b DEF Misread
  <2> QED
    BY <1>2, <2>3
<1>3. CASE SaveNotDue
  BY <1>3, <1>b DEF SaveNotDue, Saved!vars, Phase, ram, flash, history
<1>4. CASE SaveDue
  BY <1>4, <1>b DEF SaveDue, Saved!vars, Phase, flash
<1>5. CASE GetState
  <2>1. Saved!Take
    BY <1>5, <1>b DEF GetState, Saved!Take, Phase, TakenLast, flash
  <2> QED
    BY <2>1 DEF Saved!Next
<1>6. CASE GetStateFails
  <2>1. Saved!TakeFails
    BY <1>6, <1>b DEF GetStateFails, Saved!TakeFails, Phase, flash, history
  <2> QED
    BY <2>1 DEF Saved!Next
<1>7. CASE Erase \/ EraseFails
  <2>1. /\ Phase \in {"saving", "blind"} /\ Phase' = Phase
        /\ UNCHANGED <<taken, complete, base>>
    BY <1>7 DEF Erase, EraseFails, Phase, TakenLast, ram, history
  <2>2. CASE kept' = None
    BY <2>1, <2>2 DEF Saved!Lose, Saved!Next, None, Saved!None, Phase
  <2>3. CASE kept' = complete
    BY <2>1, <2>3 DEF Saved!Resurface, Saved!Next
  <2> QED
    BY <1>a, <2>1, <2>2, <2>3
<1>8. CASE WriteWord
  <2>1. /\ Phase \in {"saving", "blind"} /\ Phase' = Phase
        /\ UNCHANGED <<taken, base>>
    BY <1>8 DEF WriteWord, Phase, TakenLast, ram
  <2>2. CASE complete' = complete
    <3>1. CASE kept' = None
      BY <2>1, <2>2, <3>1 DEF Saved!Lose, Saved!Next, None, Saved!None, Phase
    <3>2. CASE kept' = complete
      BY <2>1, <2>2, <3>2 DEF Saved!Resurface, Saved!Next
    <3> QED
      BY <1>a, <2>2, <3>1, <3>2
  <2>3. CASE complete' # complete
    <3>1. offset \in Body /\ complete' = data[offset] /\ complete' > 0
      BY <1>8, <2>3, NewlyWhole
    <3>2. CASE TakenLast
      <4>1. Phase = "saving" /\ complete' = taken
        BY <1>8, <3>1, <3>2 DEF Phase, TakenLast, WriteWord
      <4> QED
        BY <1>a, <2>1, <4>1 DEF Saved!Commit, Saved!Next, None, Saved!None
    <3>3. CASE ~TakenLast
      <4>1. Phase = "blind"
        BY <1>8, <3>3 DEF Phase, WriteWord
      <4>2. complete' \in 1..taken
        BY <2>1, <3>1 DEF NumbersInv, TypeOK
      <4> QED
        BY <1>a, <2>1, <4>1, <4>2 DEF Saved!Commit, Saved!Next, None, Saved!None
    <3> QED
      BY <3>2, <3>3
  <2> QED
    BY <2>2, <2>3
<1>9. CASE WriteDone \/ WriteFails
  <2>1. Saved!EndSave
    BY <1>9, <1>b DEF WriteDone, WriteFails, Saved!EndSave, Phase, ram, flash,
       history
  <2> QED
    BY <2>1 DEF Saved!Next
<1>10. CASE Tick
  BY <1>10, <1>b DEF Tick, Saved!vars, Phase, TakenLast, ram, flash, history
<1>11. CASE Restart
  <2>1. /\ Phase' = "starting" /\ base' = None
        /\ UNCHANGED <<taken, complete>>
    BY <1>11 DEF Restart, Phase
  <2>2. CASE kept' = kept
    BY <2>1, <2>2 DEF Saved!Restart, Saved!Next, None, Saved!None
  <2>3. CASE kept' # kept
    <3>1. kept' = None
      BY <1>11, <2>3, CutLosesOrKeeps DEF Restart, Restored
    <3>2. pc \in {"erase", "write"}
      BY <1>11, <1>b, <2>3 DEF Restart, PageAfterCut
    <3>3. Phase \in {"saving", "blind"}
      BY <3>2 DEF Phase
    <3> QED
      BY <2>1, <3>1, <3>3 DEF Saved!Lose, Saved!Next, None, Saved!None
  <2> QED
    BY <2>2, <2>3
<1>12. CASE UNCHANGED vars
  BY <1>12, <1>b DEF vars, Saved!vars, Phase, TakenLast, ram, flash, history
<1> QED
  BY <1>1, <1>2, <1>3, <1>4, <1>5, <1>6, <1>7, <1>8, <1>9, <1>10, <1>11,
     <1>12 DEF Next, Service

\* The first boot finds nothing.
LEMMA StoreInit == Init => Saved!Init
BY StoreAssumption
   DEF Init, Saved!Init, Restored, Phase, None, Saved!None, Layout, Blank,
   Garbage, Magic

\* Whatever fails, reads included, the boots together implement SavedState but
\* for the base from which a boot goes on when load_state could not read the
\* page: what is kept is never touched by that, nor does it let an older state
\* show up in its place.
THEOREM ImplementsButForReads ==
  Spec => Saved!Init /\ [][Saved!Next \/ Misread]_Saved!vars
<1>1. PageInv /\ PageInv' /\ [Next]_vars => [Saved!Next \/ Misread]_Saved!vars
  BY StoreStep
<1> QED
  BY <1>1, StoreInit, PageCorrect, PTL DEF Spec

\* Every behaviour in which the page is read whenever it is asked for
\* implements SavedState, whatever else fails and whatever may fail.
THEOREM ImplementsWhenRead ==
  Spec /\ [][~LoadStateReadFails]_vars => SavedStateSpec
<1>1. PageInv /\ PageInv' /\ [Next]_vars /\ [~LoadStateReadFails]_vars
        => [Saved!Next]_Saved!vars
  <2> SUFFICES ASSUME PageInv, PageInv', [Next]_vars, [~LoadStateReadFails]_vars
               PROVE  Saved!Next \/ UNCHANGED Saved!vars
    OBVIOUS
  <2>1. CASE UNCHANGED vars
    BY <2>1 DEF vars, Saved!vars, Phase, TakenLast, Restored, Whole, Intact,
       ram, flash, history
  <2>2. CASE ~LoadStateReadFails
    BY <2>2, StoreStep
  <2> QED
    BY <2>1, <2>2
<1> QED
  BY <1>1, StoreInit, PageCorrect, PTL DEF Spec, SavedStateSpec, Saved!Spec

\* With a page that can be read, the boots together implement SavedState: what
\* is restored is the whole state the last save to complete one has left, or
\* nothing; and only a save that could not get its state leaves an older one.
THEOREM ImplementsSavedState ==
  ASSUME "read" \notin Faults
  PROVE  Spec => SavedStateSpec
<1>1. [][~LoadStateReadFails]_vars
  <2>1. ~LoadStateReadFails
    BY DEF LoadStateReadFails
  <2> QED
    BY <2>1, PTL
<1> QED
  BY <1>1, ImplementsWhenRead, PTL

\* Whatever failed in a boot or before it, a load_state that could read the page
\* goes on from the last completed state or afresh, and the last completed state
\* becomes an older one only in a save whose buffer bsec2_get_state did not fill.
NeverGoesBack ==
  [][/\ LoadState => base' \in {None, complete}
     /\ complete' < complete => Phase = "blind"]_vars

\* For any schedule, page size and set of faults only blind saves go back.
THEOREM RestoresTheLast == Spec => NeverGoesBack
<1> DEFINE Rule == /\ LoadState => base' \in {None, complete}
                   /\ complete' < complete => Phase = "blind"
<1>1. PageInv /\ PageInv' /\ [Next]_vars => [Rule]_vars
  <2> SUFFICES ASSUME PageInv, PageInv', Next PROVE Rule
    OBVIOUS
  <2> USE DEF PageInv
  <2>1. LoadState => base' \in {None, complete}
    BY DEF KeptInv, LoadState, Restored
  <2>2. ASSUME complete' < complete PROVE Phase = "blind"
    <3>1. complete' # complete
      BY <2>2 DEF TypeOK
    <3>2. WriteWord
      BY <3>1 DEF Next, Service, LoadState, LoadStateReadFails, SaveNotDue,
         SaveDue, GetState, GetStateFails, Erase, EraseFails, WriteDone,
         WriteFails, Tick, Restart, history
    <3>3. offset \in Body /\ complete' = data[offset]
      BY <3>1, <3>2, NewlyWhole
    <3>4. ~TakenLast
      BY <2>2, <3>3 DEF TakenLast, NumbersInv, TypeOK
    <3> QED
      BY <3>2, <3>4 DEF WriteWord, Phase
  <2> QED
    BY <2>1, <2>2
<1> QED
  BY <1>1, PageCorrect, PTL DEF Spec, NeverGoesBack

\* As long as bsec2_get_state works, no save leaves an older state than the one
\* before: whatever else fails, the boots go forward.
THEOREM NeverOlder ==
  Spec /\ [][~GetStateFails]_vars => [][complete' >= complete]_vars
<1> DEFINE Filled == pc \in {"erase", "write"} => TakenLast
           Forward == complete' >= complete
<1>1. Init => Filled
  BY DEF Init
<1>2. Filled /\ [Next]_vars /\ [~GetStateFails]_vars => Filled'
  <2> SUFFICES ASSUME Filled, [Next]_vars, [~GetStateFails]_vars
               PROVE  Filled'
    OBVIOUS
  <2>1. CASE UNCHANGED vars
    BY <2>1 DEF vars, TakenLast, ram, history
  <2>2. CASE ~GetStateFails
    BY <2>2 DEF Next, Service, LoadState, LoadStateReadFails, SaveNotDue,
       SaveDue, GetState, Erase, EraseFails, WriteWord, WriteDone, WriteFails,
       Tick, Restart, TakenLast, vars, ram, history
  <2> QED
    BY <2>1, <2>2
<1>3. /\ PageInv /\ PageInv' /\ Filled
      /\ [/\ LoadState => base' \in {None, complete}
          /\ complete' < complete => Phase = "blind"]_vars
      => [Forward]_vars
  <2> SUFFICES ASSUME PageInv, PageInv', Filled,
                      complete' < complete => Phase = "blind"
               PROVE  complete' >= complete
    OBVIOUS
  <2>1. Phase # "blind"
    BY DEF Phase, PageInv, TypeOK
  <2> QED
    BY <2>1 DEF PageInv, TypeOK
<1> QED
  BY <1>1, <1>2, <1>3, PageCorrect, RestoresTheLast, PTL DEF Spec, NeverGoesBack
=============================================================================
