-------------------------- MODULE FieldReaderProofs --------------------------
(***************************************************************************)
(* Proofs about FieldReader: for every size of the index from five on the  *)
(* fields come in the order they were measured, none twice, and only       *)
(* overwriting loses one.                                                  *)
(***************************************************************************)
EXTENDS FieldReader, TLAPS

-----------------------------------------------------------------------------
(* The index                                                               *)

\* A product that stays between -M and 2 * M has the factor 0 or 1.
LEMMA SmallFactor ==
  ASSUME NEW M \in Nat, M >= 5, NEW k \in Int, M * k > -M, M * k < 2 * M
  PROVE  k \in {0, 1}
  OBVIOUS

\* The indices of measurements one or two apart differ by as much, or the
\* index wraps around between them.
LEMMA ModClose ==
  ASSUME NEW M \in Nat, M >= 5, NEW x \in Nat, NEW y \in Nat,
         y - x \in 1..2
  PROVE  \/ (y % M) - (x % M) = y - x
         \/ (y % M) - (x % M) = y - x - M
<1>1. x % M \in 0..M - 1 /\ y % M \in 0..M - 1
  OBVIOUS
<1>2. x \div M \in Int /\ y \div M \in Int
  OBVIOUS
<1>3. x = M * (x \div M) + (x % M) /\ y = M * (y \div M) + (y % M)
  OBVIOUS
<1> DEFINE k == (y \div M) - (x \div M)
<1>4. k \in Int
  BY <1>2
<1>5. M * k = (y - x) + (x % M) - (y % M)
  <2>1. ASSUME NEW q \in Int, NEW p \in Int, NEW r \in Int, NEW s \in Int,
               x = M * p + r, y = M * q + s
        PROVE  M * (q - p) = (y - x) + r - s
    BY <2>1
  <2> QED
    BY <1>1, <1>2, <1>3, <2>1
<1>6. M * k > -M /\ M * k < 2 * M
  BY <1>1, <1>5
<1>7. k \in {0, 1}
  <2> HIDE DEF k
  <2> QED
    BY <1>4, <1>6, SmallFactor
<1>8. CASE k = 0
  BY <1>1, <1>5, <1>8
<1>9. CASE k = 1
  BY <1>1, <1>5, <1>9
<1> QED
  BY <1>7, <1>8, <1>9

-----------------------------------------------------------------------------
(* The sort                                                                *)

\* What the fields look like when they are read: the measurements of the new
\* ones are real, different and at most two apart.
Close(a, b) == a.new /\ b.new => a.no # b.no /\ a.no - b.no \in -2..2

Window(f) ==
  /\ f \in [Slots -> Contents]
  /\ \A s \in Slots : f[s].new => f[s].no \in Nat
  /\ Close(f[0], f[1]) /\ Close(f[0], f[2]) /\ Close(f[1], f[2])

\* The comparison of the indices finds the older of two new measurements, and
\* puts what is not new behind what is.
LEMMA OutOfOrderRight ==
  ASSUME NEW a \in Contents, NEW b \in Contents, Close(a, b),
         a.new => a.no \in Nat, b.new => b.no \in Nat
  PROVE  OutOfOrder(a, b) <=> b.new /\ (a.new => b.no < a.no)
<1>1. IndexSize \in Nat /\ IndexSize >= 5
  BY ReaderAssumption DEF ReaderAssumption
<1>2. CASE ~(a.new /\ b.new)
  BY <1>2 DEF OutOfOrder, Contents
<1>3. CASE a.new /\ b.new
  <2> DEFINE diff == MeasIndex(b) - MeasIndex(a)
  <2>1. a.no \in Nat /\ b.no \in Nat /\ a.no # b.no /\ a.no - b.no \in -2..2
    BY <1>3 DEF Close
  <2>2. MeasIndex(a) \in Int /\ MeasIndex(b) \in Int
    BY <1>1, <2>1 DEF MeasIndex
  <2>3. OutOfOrder(a, b) <=> (diff > -3 /\ diff < 0) \/ diff > 2
    BY <1>3 DEF OutOfOrder
  <2>4. CASE b.no - a.no \in 1..2
    <3>1. diff = b.no - a.no \/ diff = b.no - a.no - IndexSize
      BY <1>1, <2>1, <2>4, ModClose DEF MeasIndex
    <3> QED
      BY <1>1, <1>3, <2>1, <2>2, <2>3, <2>4, <3>1
  <2>5. CASE a.no - b.no \in 1..2
    <3>1. -diff = a.no - b.no \/ -diff = a.no - b.no - IndexSize
      <4>1. \/ MeasIndex(a) - MeasIndex(b) = a.no - b.no
            \/ MeasIndex(a) - MeasIndex(b) = a.no - b.no - IndexSize
        BY <1>1, <2>1, <2>5, ModClose DEF MeasIndex
      <4> QED
        BY <2>2, <4>1
    <3> QED
      BY <1>1, <1>3, <2>1, <2>2, <2>3, <2>5, <3>1
  <2> QED
    BY <2>1, <2>4, <2>5
<1> QED
  BY <1>2, <1>3

Behind(a, b) == b.new /\ (a.new => b.no < a.no)

\* One step of the sort puts a pair in order and keeps the fields.
LEMMA SortPairRight ==
  ASSUME NEW f, Window(f), NEW i \in Slots, NEW j \in Slots, i < j
  PROVE  LET g == SortPair(f, i, j) IN
         /\ Window(g)
         /\ g = IF Behind(f[i], f[j]) THEN Swap(f, i, j) ELSE f
         /\ CountNew(g) = CountNew(f)
<1>1. OutOfOrder(f[i], f[j]) <=> Behind(f[i], f[j])
  <2>1. f[i] \in Contents /\ f[j] \in Contents
    BY DEF Window
  <2>2. Close(f[i], f[j])
    BY DEF Window, Slots
  <2>3. (f[i].new => f[i].no \in Nat) /\ (f[j].new => f[j].no \in Nat)
    BY DEF Window
  <2> QED
    BY <2>1, <2>2, <2>3, OutOfOrderRight DEF Behind
<1>2. SortPair(f, i, j) = IF Behind(f[i], f[j]) THEN Swap(f, i, j) ELSE f
  BY <1>1 DEF SortPair
<1>3. Window(Swap(f, i, j)) /\ CountNew(Swap(f, i, j)) = CountNew(f)
  <2>1. Swap(f, i, j) \in [Slots -> Contents]
    BY DEF Window, Swap
  <2>2. \/ i = 0 /\ j = 1
        \/ i = 0 /\ j = 2
        \/ i = 1 /\ j = 2
    BY DEF Slots
  <2>3. /\ Swap(f, i, j)[i] = f[j] /\ Swap(f, i, j)[j] = f[i]
        /\ \A s \in Slots \ {i, j} : Swap(f, i, j)[s] = f[s]
    BY DEF Window, Swap
  <2>4. \A a, b : Close(a, b) /\ a \in Contents /\ b \in Contents => Close(b, a)
    BY DEF Close, Contents
  <2>5. \A s \in Slots : f[s] \in Contents
    BY DEF Window
  <2>6. \A s \in Slots : Swap(f, i, j)[s].new => Swap(f, i, j)[s].no \in Nat
    BY <2>3 DEF Window
  <2>7. 0 \in Slots /\ 1 \in Slots /\ 2 \in Slots
    BY DEF Slots
  <2> HIDE DEF Swap
  <2>8. CASE i = 0 /\ j = 1
    <3>1. /\ Swap(f, 0, 1)[0] = f[1] /\ Swap(f, 0, 1)[1] = f[0]
          /\ Swap(f, 0, 1)[2] = f[2]
      BY <2>3, <2>8 DEF Slots
    <3> QED
      BY <2>1, <2>4, <2>5, <2>6, <2>7, <2>8, <3>1 DEF Window, CountNew
  <2>9. CASE i = 0 /\ j = 2
    <3>1. /\ Swap(f, 0, 2)[0] = f[2] /\ Swap(f, 0, 2)[2] = f[0]
          /\ Swap(f, 0, 2)[1] = f[1]
      BY <2>3, <2>9 DEF Slots
    <3> QED
      BY <2>1, <2>4, <2>5, <2>6, <2>7, <2>9, <3>1 DEF Window, CountNew
  <2>10. CASE i = 1 /\ j = 2
    <3>1. /\ Swap(f, 1, 2)[1] = f[2] /\ Swap(f, 1, 2)[2] = f[1]
          /\ Swap(f, 1, 2)[0] = f[0]
      BY <2>3, <2>10 DEF Slots
    <3> QED
      BY <2>1, <2>4, <2>5, <2>6, <2>7, <2>10, <3>1 DEF Window, CountNew
  <2> QED
    BY <2>2, <2>8, <2>9, <2>10
<1> QED
  BY <1>2, <1>3

\* Afterwards no field is behind a later one.
LEMMA SortedInOrder ==
  ASSUME NEW f, Window(f)
  PROVE  LET g == Sorted(f) IN
         /\ Window(g) /\ CountNew(g) = CountNew(f)
         /\ ~Behind(g[0], g[1]) /\ ~Behind(g[0], g[2]) /\ ~Behind(g[1], g[2])
         /\ \A s \in Slots : \E t \in Slots : g[s] = f[t]
<1> DEFINE f1 == SortPair(f, 0, 1)
           f2 == SortPair(f1, 0, 2)
           f3 == SortPair(f2, 1, 2)
<1>0. 0 \in Slots /\ 1 \in Slots /\ 2 \in Slots
  BY DEF Slots
<1>1. /\ Window(f1) /\ CountNew(f1) = CountNew(f)
      /\ f1 = IF Behind(f[0], f[1]) THEN Swap(f, 0, 1) ELSE f
  BY <1>0, SortPairRight
<1>2. /\ Window(f2) /\ CountNew(f2) = CountNew(f1)
      /\ f2 = IF Behind(f1[0], f1[2]) THEN Swap(f1, 0, 2) ELSE f1
  <2> HIDE DEF f1
  <2> QED
    BY <1>0, <1>1, SortPairRight
<1>3. /\ Window(f3) /\ CountNew(f3) = CountNew(f2)
      /\ f3 = IF Behind(f2[1], f2[2]) THEN Swap(f2, 1, 2) ELSE f2
  <2> HIDE DEF f2
  <2> QED
    BY <1>0, <1>2, SortPairRight
<1>4. Sorted(f) = f3
  BY DEF Sorted
<1> HIDE DEF f1, f2, f3
<1>5. \A h, i, j : Window(h) /\ i \in Slots /\ j \in Slots /\ i # j =>
        /\ Swap(h, i, j)[i] = h[j] /\ Swap(h, i, j)[j] = h[i]
        /\ \A s \in Slots \ {i, j} : Swap(h, i, j)[s] = h[s]
  BY DEF Window, Swap
<1>6. \/ f1[0] = f[0] /\ f1[1] = f[1] /\ f1[2] = f[2] /\ ~Behind(f[0], f[1])
      \/ f1[0] = f[1] /\ f1[1] = f[0] /\ f1[2] = f[2] /\ Behind(f[0], f[1])
  BY <1>1, <1>5 DEF Slots
<1>7. \/ f2[0] = f1[0] /\ f2[1] = f1[1] /\ f2[2] = f1[2] /\ ~Behind(f1[0], f1[2])
      \/ f2[0] = f1[2] /\ f2[1] = f1[1] /\ f2[2] = f1[0] /\ Behind(f1[0], f1[2])
  BY <1>1, <1>2, <1>5 DEF Slots
<1>8. \/ f3[0] = f2[0] /\ f3[1] = f2[1] /\ f3[2] = f2[2] /\ ~Behind(f2[1], f2[2])
      \/ f3[0] = f2[0] /\ f3[1] = f2[2] /\ f3[2] = f2[1] /\ Behind(f2[1], f2[2])
  BY <1>2, <1>3, <1>5 DEF Slots
<1> DEFINE T(x) == x \in Contents /\ (x.new => x.no \in Nat)
<1>9. /\ T(f[0]) /\ T(f[1]) /\ T(f[2])
  BY <1>0 DEF Window
<1>10. /\ \A x, y : T(x) /\ T(y) /\ Behind(x, y) => ~Behind(y, x)
       /\ \A x, y, z : T(x) /\ T(y) /\ T(z) /\ Behind(x, z) /\ ~Behind(x, y)
                         => ~Behind(z, y)
       /\ \A x, y, z : T(x) /\ T(y) /\ T(z) /\ ~Behind(x, y) /\ ~Behind(y, z)
                         => ~Behind(x, z)
  BY DEF Behind, Contents
<1>11. T(f1[0]) /\ T(f1[1]) /\ T(f1[2])
  <2> HIDE DEF T
  <2> QED
    BY <1>6, <1>9
<1>12. T(f2[0]) /\ T(f2[1]) /\ T(f2[2])
  <2> HIDE DEF T
  <2> QED
    BY <1>7, <1>11
<1> HIDE DEF T
<1>13. ~Behind(f1[0], f1[1])
  BY <1>6, <1>9, <1>10
<1>14. ~Behind(f2[0], f2[1]) /\ ~Behind(f2[0], f2[2])
  BY <1>7, <1>10, <1>11, <1>13
<1>15. ~Behind(f3[0], f3[1]) /\ ~Behind(f3[0], f3[2]) /\ ~Behind(f3[1], f3[2])
  BY <1>8, <1>10, <1>12, <1>14
<1>16. \A s \in Slots : \E t \in Slots : f3[s] = f[t]
  <2>1. \A s \in Slots : \E t \in Slots : f1[s] = f[t]
    BY <1>0, <1>6 DEF Slots
  <2>2. \A s \in Slots : \E t \in Slots : f2[s] = f1[t]
    BY <1>0, <1>7 DEF Slots
  <2>3. \A s \in Slots : \E t \in Slots : f3[s] = f2[t]
    BY <1>0, <1>8 DEF Slots
  <2> QED
    BY <2>1, <2>2, <2>3
<1> QED
  BY <1>1, <1>2, <1>3, <1>4, <1>15, <1>16

\* The new fields come first, in the order they were measured.
LEMMA SortedRight ==
  ASSUME NEW f, Window(f)
  PROVE  LET g == Sorted(f)
             n == CountNew(f)
         IN  /\ g \in [Slots -> Contents] /\ n \in 0..3
             /\ \A s \in 0..n - 1 : g[s].new /\ g[s].no \in Nat
             /\ \A s, t \in 0..n - 1 : s < t => g[s].no < g[t].no
             /\ \A s \in 0..n - 1 : \E t \in Slots : g[s] = f[t]
<1> DEFINE g == Sorted(f)
           n == CountNew(f)
<1>1. /\ Window(g) /\ CountNew(g) = n
      /\ ~Behind(g[0], g[1]) /\ ~Behind(g[0], g[2]) /\ ~Behind(g[1], g[2])
      /\ \A s \in Slots : \E t \in Slots : g[s] = f[t]
  BY SortedInOrder
<1>2. 0 \in Slots /\ 1 \in Slots /\ 2 \in Slots
  BY DEF Slots
<1> HIDE DEF g
<1>3. /\ g[0] \in Contents /\ g[1] \in Contents /\ g[2] \in Contents
  BY <1>1, <1>2 DEF Window
<1>4. (g[1].new => g[0].new) /\ (g[2].new => g[1].new)
  BY <1>1 DEF Behind
<1>5. n = CountNew(g)
  BY <1>1
<1> HIDE DEF n
<1>6. \/ n = 0
      \/ n = 1 /\ g[0].new
      \/ n = 2 /\ g[0].new /\ g[1].new
      \/ n = 3 /\ g[0].new /\ g[1].new /\ g[2].new
  BY <1>3, <1>4, <1>5 DEF CountNew, Contents
<1>7. \A s \in Slots : g[s].new => g[s].no \in Nat
  BY <1>1 DEF Window
<1>8. /\ g[0].new /\ g[1].new => g[0].no < g[1].no
      /\ g[0].new /\ g[2].new => g[0].no < g[2].no
      /\ g[1].new /\ g[2].new => g[1].no < g[2].no
  <2>1. ASSUME NEW a, NEW b, Close(a, b), ~Behind(a, b), a.new, b.new,
               a.no \in Nat, b.no \in Nat
        PROVE  a.no < b.no
    BY <2>1 DEF Close, Behind
  <2>2. Close(g[0], g[1]) /\ Close(g[0], g[2]) /\ Close(g[1], g[2])
    BY <1>1 DEF Window
  <2> QED
    BY <1>1, <1>2, <1>7, <2>1, <2>2
<1>9. n \in 0..3
  BY <1>6
<1>10. \A s \in 0..n - 1 : g[s].new /\ g[s].no \in Nat
  <2>1. \A s \in 0..n - 1 : s \in Slots /\ g[s].new
    BY <1>6 DEF Slots
  <2> QED
    BY <1>7, <2>1
<1>11. \A s, t \in 0..n - 1 : s < t => g[s].no < g[t].no
  BY <1>6, <1>8
<1>12. \A s \in 0..n - 1 : \E t \in Slots : g[s] = f[t]
  BY <1>1, <1>6 DEF Slots
<1> QED
  BY <1>1, <1>9, <1>10, <1>11, <1>12 DEF Window, g, n

-----------------------------------------------------------------------------
(* The invariant                                                           *)

\* Each field holds the newest measurement of its turn, so any two are at
\* most two apart, and what is still new was not handed over yet.
FieldInv ==
  \A s \in Slots :
    /\ field[s].no = -1 \/ field[s].no \in 0..made - 1
    /\ field[s].no >= 0 => field[s].no % 3 = s /\ field[s].no >= made - 3
    /\ field[s].new => field[s].no > newest

\* What was read is a window of that kind, and older than any later field.
BuffInv ==
  pc = "settings" =>
    /\ Window(buff)
    /\ \A s \in Slots : buff[s].new => buff[s].no > newest /\ buff[s].no < made
    /\ \A s, t \in Slots : field[s].new /\ buff[t].new => field[s].no > buff[t].no

Inv == TypeOK /\ newest >= -1 /\ newest < made /\ FieldInv /\ BuffInv

LEMMA FieldWindow ==
  ASSUME TypeOK, FieldInv, newest >= -1
  PROVE  Window(field)
<1>1. field \in [Slots -> Contents] /\ made \in Nat /\ newest \in Int
  BY DEF TypeOK
<1>2. \A s \in Slots : field[s].no \in Int
  BY <1>1 DEF Contents
<1>3. \A s \in Slots : field[s].new => field[s].no \in Nat
  BY <1>1, <1>2 DEF FieldInv
<1>4. ASSUME NEW s \in Slots, NEW t \in Slots, s # t
      PROVE  Close(field[s], field[t])
  <2> SUFFICES ASSUME field[s].new, field[t].new
               PROVE  /\ field[s].no # field[t].no
                      /\ field[s].no - field[t].no \in -2..2
    BY DEF Close
  <2>1. field[s].no \in Nat /\ field[t].no \in Nat
    BY <1>3
  <2>2. /\ field[s].no < made /\ field[s].no >= made - 3 /\ field[s].no % 3 = s
        /\ field[t].no < made /\ field[t].no >= made - 3 /\ field[t].no % 3 = t
    BY <1>1, <2>1 DEF FieldInv
  <2> QED
    BY <1>1, <1>4, <2>1, <2>2
<1> QED
  BY <1>1, <1>3, <1>4 DEF Window, Slots

LEMMA InitInv == Init => Inv
<1> SUFFICES ASSUME Init PROVE Inv
  OBVIOUS
<1>1. Empty \in Contents /\ Empty.no = -1 /\ Empty.new = FALSE
  BY DEF Empty, Contents
<1>2. TypeOK
  <2>1. out \in Seq(Int) /\ newest \in Int
    BY DEF Init
  <2>2. made \in Nat /\ nFields \in 0..3 /\ pc \in {"idle", "settings"}
    BY DEF Init
  <2>3. broken \in BOOLEAN
    BY DEF Init
  <2>4. [s \in Slots |-> Empty] \in [Slots -> Contents]
    BY <1>1
  <2> QED
    BY <2>1, <2>2, <2>3, <2>4 DEF Init, TypeOK
<1>3. FieldInv
  BY <1>1 DEF Init, FieldInv
<1> QED
  BY <1>2, <1>3 DEF Init, Inv, BuffInv

LEMMA MeasureInv == Inv /\ Measure => Inv'
<1> SUFFICES ASSUME Inv, Measure PROVE Inv'
  OBVIOUS
<1> DEFINE w == made % 3
           m == [no |-> made, new |-> TRUE]
<1>1. /\ field \in [Slots -> Contents] /\ made \in Nat /\ newest \in Int
      /\ newest >= -1 /\ newest < made
  BY DEF Inv, TypeOK
<1>2. w \in Slots /\ m \in Contents
  BY <1>1 DEF Slots, Contents
<1>3. made' = made + 1 /\ UNCHANGED <<pc, buff, data, nFields, out, newest, broken>>
  BY DEF Measure, driver
<1>4. /\ field'[w] = m
      /\ \A s \in Slots \ {w} : field'[s] = field[s]
  BY <1>1, <1>2 DEF Measure
<1>5. field' \in [Slots -> Contents]
  BY <1>1, <1>2 DEF Measure
<1>6. TypeOK'
  BY <1>1, <1>3, <1>5 DEF Inv, TypeOK
<1>7. FieldInv'
  <2> SUFFICES ASSUME NEW s \in Slots
      PROVE  /\ field'[s].no = -1 \/ field'[s].no \in 0..made' - 1
             /\ field'[s].no >= 0 =>
                  field'[s].no % 3 = s /\ field'[s].no >= made' - 3
             /\ field'[s].new => field'[s].no > newest'
    BY DEF FieldInv
  <2>1. CASE s = w
    BY <1>1, <1>3, <1>4, <2>1
  <2>2. CASE s # w
    <3>1. field'[s] = field[s] /\ field[s].no \in Int
      BY <1>1, <1>4, <2>2 DEF Contents
    <3>2. /\ field[s].no = -1 \/ field[s].no \in 0..made - 1
          /\ field[s].no >= 0 => field[s].no % 3 = s /\ field[s].no >= made - 3
          /\ field[s].new => field[s].no > newest
      BY DEF Inv, FieldInv
    <3>3. field[s].no >= 0 => field[s].no >= made - 2
      BY <1>1, <2>2, <3>1, <3>2
    <3> QED
      BY <1>1, <1>3, <3>1, <3>2, <3>3
  <2> QED
    BY <2>1, <2>2
<1>8. BuffInv'
  <2> SUFFICES ASSUME pc = "settings"
      PROVE  /\ Window(buff)
             /\ \A s \in Slots :
                  buff[s].new => buff[s].no > newest /\ buff[s].no < made'
             /\ \A s, t \in Slots :
                  field'[s].new /\ buff[t].new => field'[s].no > buff[t].no
    BY <1>3 DEF BuffInv, Window, Close
  <2>1. /\ Window(buff)
        /\ \A s \in Slots : buff[s].new => buff[s].no > newest /\ buff[s].no < made
        /\ \A s, t \in Slots : field[s].new /\ buff[t].new => field[s].no > buff[t].no
    BY DEF Inv, BuffInv
  <2>2. \A s \in Slots : buff[s].no \in Int
    BY <2>1 DEF Window, Contents
  <2>3. \A s \in Slots : buff[s].new => buff[s].no > newest /\ buff[s].no < made'
    BY <1>1, <1>3, <2>1, <2>2
  <2>4. ASSUME NEW s \in Slots, NEW t \in Slots, field'[s].new, buff[t].new
        PROVE  field'[s].no > buff[t].no
    <3>1. CASE s = w
      BY <1>1, <1>4, <2>1, <2>2, <2>4, <3>1
    <3>2. CASE s # w
      BY <1>4, <2>1, <2>4, <3>2
    <3> QED
      BY <3>1, <3>2
  <2> QED
    BY <2>1, <2>3, <2>4
<1> QED
  BY <1>1, <1>3, <1>6, <1>7, <1>8 DEF Inv

\* Clearing flags keeps what is known of the fields.
LEMMA ClearedInv ==
  ASSUME Inv, NEW seen \in SUBSET Slots, field' = Cleared(seen),
         made' = made, newest' = newest
  PROVE  /\ field' \in [Slots -> Contents] /\ FieldInv'
         /\ \A s \in Slots : /\ field'[s].no = field[s].no
                             /\ field'[s].new <=> field[s].new /\ s \notin seen
<1>1. field \in [Slots -> Contents]
  BY DEF Inv, TypeOK
<1>2. ASSUME NEW s \in Slots
      PROVE  /\ field'[s] \in Contents /\ field'[s].no = field[s].no
             /\ field'[s].new <=> field[s].new /\ s \notin seen
  <2>1. CASE s \in seen
    BY <1>1, <2>1 DEF Cleared, Contents
  <2>2. CASE s \notin seen
    BY <1>1, <2>2 DEF Cleared
  <2> QED
    BY <2>1, <2>2
<1>3. field' \in [Slots -> Contents]
  BY <1>2 DEF Cleared
<1>4. FieldInv'
  BY <1>2 DEF Inv, FieldInv
<1> QED
  BY <1>2, <1>3, <1>4

\* A read that is over leaves nothing to say about buff.
LEMMA FailedInv ==
  ASSUME Inv, Failed, field' \in [Slots -> Contents], FieldInv'
  PROVE  Inv'
<1>1. TypeOK'
  <2>1. out' \in Seq(Int) /\ nFields' \in 0..3
    BY DEF Failed
  <2>2. pc' \in {"idle", "settings"} /\ broken' \in BOOLEAN
    BY DEF Failed
  <2> QED
    BY <2>1, <2>2 DEF Failed, Inv, TypeOK
<1> QED
  BY <1>1 DEF Failed, Inv, BuffInv

LEMMA ReadInv ==
  Inv /\ (ReadFields \/ ReadFieldsFails \/ ReadSettingsFails) => Inv'
<1> SUFFICES ASSUME Inv, ReadFields \/ ReadFieldsFails \/ ReadSettingsFails
             PROVE  Inv'
  OBVIOUS
<1>1. CASE ReadFields
  <2>1. /\ field' = Cleared(Slots) /\ buff' = field /\ made' = made
        /\ newest' = newest /\ pc' = "settings"
        /\ UNCHANGED <<data, nFields, out, broken>>
    BY <1>1 DEF ReadFields
  <2>2. /\ field' \in [Slots -> Contents] /\ FieldInv'
        /\ \A s \in Slots : ~field'[s].new
    BY <2>1, ClearedInv
  <2>3. Window(field)
    BY FieldWindow DEF Inv
  <2>4. \A s \in Slots : field[s].new => field[s].no > newest /\ field[s].no < made
    BY DEF Inv, FieldInv, TypeOK
  <2>5. BuffInv'
    BY <2>1, <2>2, <2>3, <2>4 DEF BuffInv, Window, Close
  <2>6. TypeOK'
    BY <2>1, <2>2 DEF Inv, TypeOK
  <2> QED
    BY <2>1, <2>2, <2>5, <2>6 DEF Inv
<1>2. CASE ReadFieldsFails
  <2>1. PICK seen \in SUBSET Slots : field' = Cleared(seen)
    BY <1>2 DEF ReadFieldsFails
  <2>2. Failed
    BY <1>2 DEF ReadFieldsFails
  <2>3. field' \in [Slots -> Contents] /\ FieldInv'
    BY <2>1, <2>2, ClearedInv DEF Failed
  <2> QED
    BY <2>2, <2>3, FailedInv
<1>3. CASE ReadSettingsFails
  <2>1. Failed /\ field' = field
    BY <1>3 DEF ReadSettingsFails
  <2>2. field' \in [Slots -> Contents] /\ FieldInv'
    BY <2>1 DEF Failed, Inv, TypeOK, FieldInv
  <2> QED
    BY <2>1, <2>2, FailedInv
<1> QED
  BY <1>1, <1>2, <1>3

\* What a completed read hands over.
LEMMA ReadSettingsOut ==
  ASSUME Inv, ReadSettings
  PROVE  LET n == CountNew(buff) IN
         /\ data' \in [Slots -> Contents] /\ n \in 0..3
         /\ out' \in Seq(newest + 1..made - 1) /\ Len(out') = n
         /\ \A i, j \in 1..n : i < j => out'[i] < out'[j]
         /\ \A i \in 1..n : \E s \in Slots : buff[s].new /\ out'[i] = buff[s].no
<1> DEFINE n == CountNew(buff)
           g == Sorted(buff)
<1>1. /\ Window(buff)
      /\ \A s \in Slots : buff[s].new => buff[s].no > newest /\ buff[s].no < made
  BY DEF Inv, BuffInv, ReadSettings
<1>2. /\ g \in [Slots -> Contents] /\ n \in 0..3
      /\ \A s \in 0..n - 1 : g[s].new /\ g[s].no \in Nat
      /\ \A s, t \in 0..n - 1 : s < t => g[s].no < g[t].no
      /\ \A s \in 0..n - 1 : \E t \in Slots : g[s] = buff[t]
  BY <1>1, SortedRight
<1>3. data' = g /\ out' = [i \in 1..n |-> g[i - 1].no]
  BY DEF ReadSettings
<1>4. made \in Nat /\ newest \in Int
  BY DEF Inv, TypeOK
<1> HIDE DEF g, n
<1>5. \A i \in 1..n : i - 1 \in 0..n - 1 /\ out'[i] = g[i - 1].no
  BY <1>2, <1>3
<1>6. \A i \in 1..n : \E s \in Slots : buff[s].new /\ out'[i] = buff[s].no
  BY <1>2, <1>5
<1>7. \A i \in 1..n : out'[i] \in newest + 1..made - 1
  BY <1>1, <1>2, <1>4, <1>5, <1>6
<1>8. out' \in Seq(newest + 1..made - 1) /\ Len(out') = n
  BY <1>2, <1>3, <1>5, <1>7
<1>9. \A i, j \in 1..n : i < j => out'[i] < out'[j]
  BY <1>2, <1>5
<1> QED
  BY <1>2, <1>3, <1>6, <1>8, <1>9 DEF n

LEMMA ReadSettingsInv == Inv /\ ReadSettings => Inv'
<1> SUFFICES ASSUME Inv, ReadSettings PROVE Inv'
  OBVIOUS
<1> DEFINE n == CountNew(buff)
<1>1. /\ data' \in [Slots -> Contents] /\ n \in 0..3
      /\ out' \in Seq(newest + 1..made - 1) /\ Len(out') = n
      /\ \A i \in 1..n : \E s \in Slots : buff[s].new /\ out'[i] = buff[s].no
  BY ReadSettingsOut
<1>2. /\ pc = "settings" /\ pc' = "idle" /\ nFields' = n
      /\ newest' = IF n = 0 THEN newest ELSE out'[n]
      /\ UNCHANGED <<made, field, buff, broken>>
  BY DEF ReadSettings, sensor
<1>3. made \in Nat /\ newest \in Int /\ newest >= -1 /\ newest < made
  BY DEF Inv, TypeOK
<1> HIDE DEF n
<1>4. newest' \in Int /\ newest' >= -1 /\ newest' < made
  BY <1>1, <1>2, <1>3
<1>5. \A s \in Slots : field[s].new => field[s].no > newest'
  <2>1. CASE n = 0
    BY <1>2, <2>1 DEF Inv, FieldInv
  <2>2. CASE n # 0
    <3>1. PICK t \in Slots : buff[t].new /\ out'[n] = buff[t].no
      BY <1>1, <2>2
    <3> QED
      BY <1>2, <2>2, <3>1 DEF Inv, BuffInv
  <2> QED
    BY <2>1, <2>2
<1>6. FieldInv'
  BY <1>2, <1>5 DEF Inv, FieldInv
<1>7. TypeOK'
  <2>1. out' \in Seq(Int)
    BY <1>1, <1>3
  <2>2. UNCHANGED broken /\ pc' \in {"idle", "settings"}
    BY <1>2
  <2> QED
    BY <1>1, <1>2, <1>4, <2>1, <2>2 DEF Inv, TypeOK
<1> QED
  BY <1>2, <1>4, <1>6, <1>7 DEF Inv, BuffInv

\* Inv holds in every state.
THEOREM Invariant == Spec => []Inv
<1>1. Init => Inv
  BY InitInv
<1>2. Inv /\ [Next]_vars => Inv'
  <2>1. Inv /\ UNCHANGED vars => Inv'
    <3> SUFFICES ASSUME Inv, UNCHANGED vars PROVE Inv'
      OBVIOUS
    <3>1. UNCHANGED <<made, field, pc, buff, data, nFields, out, newest, broken>>
      BY DEF vars, sensor, driver
    <3> QED
      BY <3>1 DEF Inv, TypeOK, FieldInv, BuffInv, Window, Close
  <2> QED
    BY <2>1, MeasureInv, ReadInv, ReadSettingsInv DEF Next
<1> QED
  BY <1>1, <1>2, PTL DEF Spec

\* The type invariant of the reader.
THEOREM TypeCorrect == Spec => []TypeOK
<1>1. Inv => TypeOK
  BY DEF Inv
<1> QED
  BY <1>1, Invariant, PTL

\* Every step of the reader is one the stream allows.
LEMMA StepRefines == Inv /\ [Next]_vars => [Stream!Next]_Stream!vars
<1> SUFFICES ASSUME Inv, [Next]_vars PROVE [Stream!Next]_Stream!vars
  OBVIOUS
<1>1. CASE Measure
  BY <1>1 DEF Measure, Stream!Next, Stream!Make
<1>2. CASE ReadFields
  BY <1>2 DEF ReadFields, Stream!vars
<1>3. CASE ReadFieldsFails
  BY <1>3 DEF ReadFieldsFails, Failed, Stream!Next, Stream!HandOverNothing
<1>4. CASE ReadSettingsFails
  BY <1>4 DEF ReadSettingsFails, Failed, Stream!Next, Stream!HandOverNothing
<1>5. CASE ReadSettings
  <2> DEFINE n == CountNew(buff)
  <2>1. /\ n \in 0..3 /\ out' \in Seq(newest + 1..made - 1) /\ Len(out') = n
        /\ \A i, j \in 1..n : i < j => out'[i] < out'[j]
    BY <1>5, ReadSettingsOut
  <2>2. /\ newest' = IF n = 0 THEN newest ELSE out'[n]
        /\ made' = made
    BY <1>5 DEF ReadSettings, sensor
  <2> HIDE DEF n
  <2>3. CASE n = 0
    <3>1. out' = <<>>
      BY <2>1, <2>3
    <3> QED
      BY <2>2, <2>3, <3>1 DEF Stream!Next, Stream!HandOverNothing
  <2>4. CASE n # 0
    <3>1. out' # <<>>
      BY <2>1, <2>4
    <3> QED
      BY <2>1, <2>2, <2>4, <3>1 DEF Stream!Next, Stream!HandOver
  <2> QED
    BY <2>3, <2>4
<1>6. CASE UNCHANGED vars
  BY <1>6 DEF vars, sensor, Stream!vars
<1> QED
  BY <1>1, <1>2, <1>3, <1>4, <1>5, <1>6 DEF Next

\* For every size of the index from five on, 256 among them, the fields come
\* in the order they were measured, none twice, whatever is overwritten,
\* wraps around or fails.
THEOREM FieldsInOrder == Spec => FieldStreamSpec
<1>1. Init => Stream!Init
  BY DEF Init, Stream!Init
<1> QED
  BY <1>1, StepRefines, Invariant, PTL DEF Spec, FieldStreamSpec, Stream!Spec

-----------------------------------------------------------------------------
(* Nothing is missed but by overwriting                                    *)

\* Of the measurements from..to - 1 the last three, which no later one has
\* overwritten, are new in f.
AllNew(f, from, to) ==
  \A k \in Nat : from <= k /\ to - 3 <= k /\ k < to =>
    f[k % 3].new /\ f[k % 3].no = k

\* A burst read at the moment when m measurements had been made.
ReadAt(m) ==
  /\ AllNew(buff, newest + 1, m)
  /\ \A s \in Slots : buff[s].new => m - 3 <= buff[s].no /\ buff[s].no < m
  /\ AllNew(field, m, made)

\* As long as no transfer fails, what was not handed over yet is still new,
\* in the fields or in the burst that was read.
GapInv ==
  ~broken =>
    /\ pc = "idle" => AllNew(field, newest + 1, made)
    /\ pc = "settings" => \E m \in newest + 1..made : ReadAt(m)

\* A further measurement takes the place of the third last.
LEMMA MeasureAllNew ==
  ASSUME Inv, Measure, NEW from \in Nat, from <= made, AllNew(field, from, made)
  PROVE  AllNew(field', from, made')
<1>1. /\ made \in Nat /\ made' = made + 1 /\ made % 3 \in Slots
      /\ field \in [Slots -> Contents]
      /\ field' = [field EXCEPT ![made % 3] = [no |-> made, new |-> TRUE]]
  BY DEF Inv, TypeOK, Measure, Slots
<1> SUFFICES ASSUME NEW k \in Nat, from <= k, made + 1 - 3 <= k, k < made + 1
             PROVE  field'[k % 3].new /\ field'[k % 3].no = k
  BY <1>1 DEF AllNew
<1>2. CASE k = made
  BY <1>1, <1>2
<1>3. CASE k # made
  <2>1. k % 3 # made % 3 /\ k % 3 \in Slots /\ made - 3 <= k /\ k < made
    BY <1>1, <1>3 DEF Slots
  <2> QED
    BY <1>1, <2>1 DEF AllNew
<1> QED
  BY <1>2, <1>3

\* A completed read hands over the last measurements before the burst, all
\* those since the read before or three of them.
LEMMA ReadConsecutive ==
  ASSUME Inv, ReadSettings, NEW m \in newest + 1..made, ReadAt(m)
  PROVE  /\ newest' = m - 1
         /\ \A i \in 1..Len(out') : out'[i] = out'[1] + i - 1
         /\ out' # <<>> => out'[1] = newest + 1 \/ Len(out') = 3
<1> DEFINE n == CountNew(buff)
           low == IF newest + 1 >= m - 3 THEN newest + 1 ELSE m - 3
<1>1. /\ n \in 0..3 /\ out' \in Seq(newest + 1..made - 1) /\ Len(out') = n
      /\ \A i, j \in 1..n : i < j => out'[i] < out'[j]
      /\ \A i \in 1..n : \E s \in Slots : buff[s].new /\ out'[i] = buff[s].no
  BY ReadSettingsOut
<1>2. /\ newest' = IF n = 0 THEN newest ELSE out'[n]
      /\ made \in Nat /\ newest \in Int /\ newest >= -1
  BY DEF ReadSettings, Inv, TypeOK
<1>3. m \in Nat /\ low \in Nat /\ newest + 1 <= low /\ low <= m /\ m - 3 <= low
  BY <1>2
<1>4. low = newest + 1 \/ low = m - 3
  OBVIOUS
<1>5. buff[0].new \in BOOLEAN /\ buff[1].new \in BOOLEAN /\ buff[2].new \in BOOLEAN
  BY DEF Inv, TypeOK, Contents, Slots
<1>6. \A k \in Nat : low <= k /\ k < m => buff[k % 3].new
  <2>1. AllNew(buff, newest + 1, m)
    BY DEF ReadAt
  <2> HIDE DEF low
  <2> SUFFICES ASSUME NEW k \in Nat, low <= k, k < m PROVE buff[k % 3].new
    OBVIOUS
  <2>2. newest + 1 <= k /\ m - 3 <= k
    BY <1>2, <1>3
  <2> QED
    BY <2>1, <2>2 DEF AllNew
<1> HIDE DEF low
<1>7. n >= m - low
  <2>1. CASE m - low = 0
    BY <1>1, <1>3, <2>1
  <2>2. CASE m - low = 1
    <3>1. low % 3 \in 0..2 /\ buff[low % 3].new
      BY <1>3, <1>6, <2>2
    <3> QED
      BY <1>5, <2>2, <3>1 DEF CountNew
  <2>3. CASE m - low = 2
    <3>1. /\ low % 3 \in 0..2 /\ (low + 1) % 3 \in 0..2 /\ low % 3 # (low + 1) % 3
          /\ buff[low % 3].new /\ buff[(low + 1) % 3].new
      BY <1>3, <1>6, <2>3
    <3> QED
      BY <1>5, <2>3, <3>1 DEF CountNew
  <2>4. CASE m - low = 3
    <3>1. /\ low % 3 \in 0..2 /\ (low + 1) % 3 \in 0..2 /\ (low + 2) % 3 \in 0..2
          /\ low % 3 # (low + 1) % 3 /\ low % 3 # (low + 2) % 3
          /\ (low + 1) % 3 # (low + 2) % 3
          /\ buff[low % 3].new /\ buff[(low + 1) % 3].new /\ buff[(low + 2) % 3].new
      BY <1>3, <1>6, <2>4
    <3> QED
      BY <1>5, <2>4, <3>1 DEF CountNew
  <2> QED
    BY <1>3, <2>1, <2>2, <2>3, <2>4
<1> HIDE DEF n
<1>8. \A i \in 1..n : out'[i] \in Int /\ low <= out'[i] /\ out'[i] < m
  <2> SUFFICES ASSUME NEW i \in 1..n
               PROVE  out'[i] \in Int /\ low <= out'[i] /\ out'[i] < m
    OBVIOUS
  <2>1. out'[i] \in newest + 1..made - 1
    <3>1. ASSUME NEW S, NEW q \in Seq(S), NEW j \in 1..Len(q) PROVE q[j] \in S
      OBVIOUS
    <3>2. i \in 1..Len(out')
      BY <1>1
    <3> QED
      BY <1>1, <3>1, <3>2
  <2>2. m - 3 <= out'[i] /\ out'[i] < m
    BY <1>1 DEF ReadAt
  <2> QED
    BY <1>2, <1>4, <2>1, <2>2
<1>9. n = m - low /\ \A i \in 1..n : out'[i] = low + i - 1
  <2>1. CASE n = 0
    BY <1>3, <1>7, <2>1
  <2>2. CASE n = 1
    <3>1. low <= out'[1] /\ out'[1] < m /\ out'[1] \in Int
      BY <1>8, <2>2
    <3> QED
      BY <1>3, <1>7, <2>2, <3>1
  <2>3. CASE n = 2
    <3>1. /\ low <= out'[1] /\ out'[1] < out'[2] /\ out'[2] < m
          /\ out'[1] \in Int /\ out'[2] \in Int
      BY <1>1, <1>8, <2>3
    <3> QED
      BY <1>3, <1>7, <2>3, <3>1
  <2>4. CASE n = 3
    <3>1. /\ low <= out'[1] /\ out'[1] < out'[2] /\ out'[2] < out'[3]
          /\ out'[3] < m /\ out'[1] \in Int /\ out'[2] \in Int /\ out'[3] \in Int
      BY <1>1, <1>8, <2>4
    <3> QED
      BY <1>3, <1>7, <2>4, <3>1
  <2> QED
    BY <1>1, <2>1, <2>2, <2>3, <2>4
<1>10. newest' = m - 1
  <2>1. CASE n = 0
    BY <1>2, <1>3, <1>4, <1>9, <2>1
  <2>2. CASE n # 0
    <3>1. n \in 1..n
      BY <1>1, <2>2
    <3> QED
      BY <1>2, <1>3, <1>9, <2>2, <3>1
  <2> QED
    BY <2>1, <2>2
<1>11. n # 0 => out'[1] = low
  BY <1>1, <1>3, <1>9
<1>12. \A i \in 1..n : out'[i] = out'[1] + i - 1
  BY <1>1, <1>9, <1>11
<1>13. out' # <<>> => n # 0
  BY <1>1
<1>14. low = newest + 1 \/ n = 3
  BY <1>3, <1>4, <1>9
<1> QED
  BY <1>1, <1>10, <1>11, <1>12, <1>13, <1>14

LEMMA StepGap == Inv /\ GapInv /\ [Next]_vars => GapInv'
<1> SUFFICES ASSUME Inv, GapInv, [Next]_vars, ~broken'
             PROVE  /\ pc' = "idle" => AllNew(field', newest' + 1, made')
                    /\ pc' = "settings" => \E m \in newest' + 1..made' : ReadAt(m)'
  BY DEF GapInv, AllNew
<1>0. /\ made \in Nat /\ newest \in Int /\ newest >= -1 /\ newest < made
      /\ newest + 1 \in Nat /\ newest + 1 <= made
  BY DEF Inv, TypeOK
<1>1. CASE Measure
  <2>1. /\ UNCHANGED <<pc, buff, newest, broken>> /\ made' = made + 1
    BY <1>1 DEF Measure, driver
  <2>2. ASSUME pc = "idle" PROVE AllNew(field', newest' + 1, made')
    <3>1. AllNew(field, newest + 1, made)
      BY <2>1, <2>2 DEF GapInv
    <3> QED
      BY <1>0, <1>1, <2>1, <3>1, MeasureAllNew
  <2>3. ASSUME pc = "settings" PROVE \E m \in newest' + 1..made' : ReadAt(m)'
    <3>1. PICK m \in newest + 1..made : ReadAt(m)
      BY <2>1, <2>3 DEF GapInv
    <3>2. m \in Nat /\ m <= made /\ m \in newest' + 1..made'
      BY <1>0, <2>1
    <3>3. AllNew(field', m, made')
      BY <1>1, <3>1, <3>2, MeasureAllNew DEF ReadAt
    <3>4. ReadAt(m)'
      BY <2>1, <3>1, <3>3 DEF ReadAt, AllNew
    <3> QED
      BY <3>2, <3>4
  <2> QED
    BY <2>1, <2>2, <2>3
<1>2. CASE ReadFields
  <2>1. /\ UNCHANGED <<made, newest, broken>> /\ buff' = field
        /\ pc = "idle" /\ pc' = "settings"
    BY <1>2 DEF ReadFields
  <2>2. AllNew(field, newest + 1, made)
    BY <2>1 DEF GapInv
  <2>3. \A s \in Slots : field[s].new => made - 3 <= field[s].no /\ field[s].no < made
    <3> SUFFICES ASSUME NEW s \in Slots, field[s].new
                 PROVE  made - 3 <= field[s].no /\ field[s].no < made
      OBVIOUS
    <3>1. field[s].no > newest /\ field[s].no \in Int
      BY DEF Inv, FieldInv, TypeOK, Contents
    <3> QED
      BY <1>0, <3>1 DEF Inv, FieldInv
  <2>4. AllNew(field', made', made')
    BY <1>0, <2>1 DEF AllNew
  <2>5. ReadAt(made)'
    BY <2>1, <2>2, <2>3, <2>4 DEF ReadAt, AllNew
  <2>6. made' \in newest' + 1..made'
    BY <1>0, <2>1
  <2> QED
    BY <2>1, <2>5, <2>6
<1>3. CASE ReadSettings
  <2>1. /\ UNCHANGED <<made, field, broken>> /\ pc = "settings" /\ pc' = "idle"
    BY <1>3 DEF ReadSettings, sensor
  <2>2. PICK m \in newest + 1..made : ReadAt(m)
    BY <2>1 DEF GapInv
  <2>3. newest' = m - 1
    BY <1>3, <2>2, ReadConsecutive
  <2>4. newest' + 1 = m
    BY <1>0, <2>3
  <2> QED
    BY <2>1, <2>2, <2>4 DEF ReadAt
<1>4. CASE ReadFieldsFails \/ ReadSettingsFails
  BY <1>4 DEF ReadFieldsFails, ReadSettingsFails, Failed
<1>5. CASE UNCHANGED vars
  <2>1. UNCHANGED <<made, field, pc, buff, newest, broken>>
    BY <1>5 DEF vars, sensor, driver
  <2> QED
    BY <2>1 DEF GapInv, ReadAt, AllNew
<1> QED
  BY <1>1, <1>2, <1>3, <1>4, <1>5 DEF Next

\* Only overwriting loses a measurement: as long as no transfer fails, what a
\* read hands over is consecutive and begins right after the read before,
\* unless all three fields were new (bme68x_get_data).
THEOREM OnlyOverwritten == Spec => GapsOnlyByOverwriting
<1> DEFINE Rule == (pc = "settings" /\ pc' = "idle" /\ ~broken' /\ out' # <<>>) =>
                     /\ \A i \in 1..Len(out') : out'[i] = out'[1] + i - 1
                     /\ out'[1] = newest + 1 \/ Len(out') = 3
<1>1. Init => GapInv
  BY DEF Init, GapInv, AllNew
<1>2. Spec => []GapInv
  BY <1>1, StepGap, Invariant, PTL DEF Spec
<1>3. Inv /\ GapInv /\ [Next]_vars => [Rule]_vars
  <2> SUFFICES ASSUME Inv, GapInv, [Next]_vars, pc = "settings", pc' = "idle",
                      ~broken', out' # <<>>
               PROVE  /\ \A i \in 1..Len(out') : out'[i] = out'[1] + i - 1
                      /\ out'[1] = newest + 1 \/ Len(out') = 3
    OBVIOUS
  <2>1. ReadSettings
    BY DEF Next, Measure, ReadFields, ReadFieldsFails, ReadSettingsFails,
           Failed, vars, driver
  <2>2. \E m \in newest + 1..made : ReadAt(m)
    BY <2>1 DEF GapInv, ReadSettings
  <2> QED
    BY <2>1, <2>2, ReadConsecutive
<1> QED
  BY <1>2, <1>3, Invariant, PTL DEF Spec, GapsOnlyByOverwriting

-----------------------------------------------------------------------------
(* None twice                                                              *)

\* What the stream promises of every measurement: one that is handed over is
\* newer than all that were handed over before, so none comes twice, and it has
\* been made.
EachOnce ==
  [][/\ newest' >= newest
     /\ out' # out =>
          \A i \in 1..Len(out') : newest < out'[i] /\ out'[i] <= newest'
                                  /\ out'[i] < made']_Stream!vars

\* The promise of the abstract stream, from which MeasureGroups takes its
\* fields, is enough for that.
LEMMA StreamGivesEachOnce == FieldStreamSpec => EachOnce
<1> DEFINE Rule ==
      /\ newest' >= newest
      /\ out' # out =>
           \A i \in 1..Len(out') : newest < out'[i] /\ out'[i] <= newest'
                                   /\ out'[i] < made'
           StreamType == made \in Int /\ newest \in Int
<1>0. ASSUME NEW S, NEW q \in Seq(S), NEW j \in 1..Len(q) PROVE q[j] \in S
  OBVIOUS
<1>1. ASSUME StreamType, Stream!HandOver
      PROVE  StreamType' /\ Rule
  <2> DEFINE n == Len(out')
  <2>1. /\ out' \in Seq(newest + 1..made - 1) /\ out' # <<>>
        /\ \A i, j \in 1..n : i < j => out'[i] < out'[j]
        /\ newest' = out'[n] /\ made' = made
    BY <1>1 DEF Stream!HandOver
  <2>2. n \in Nat /\ n >= 1
    BY <2>1
  <2>3. \A i \in 1..n : out'[i] \in newest + 1..made - 1
    BY <1>0, <2>1
  <2> HIDE DEF n
  <2>4. \A i \in 1..n : out'[i] <= out'[n]
    <3> SUFFICES ASSUME NEW i \in 1..n PROVE out'[i] <= out'[n]
      OBVIOUS
    <3>1. n \in 1..n
      BY <2>2
    <3>2. out'[i] \in Int /\ out'[n] \in Int
      BY <1>1, <2>3, <3>1
    <3>3. CASE i = n
      BY <3>2, <3>3
    <3>4. CASE i # n
      <4>1. i < n
        BY <2>2, <3>4
      <4> QED
        BY <2>1, <3>1, <3>2, <4>1
    <3> QED
      BY <3>3, <3>4
  <2>5. newest' \in newest + 1..made - 1
    BY <2>1, <2>2, <2>3
  <2>6. StreamType' /\ newest' >= newest
    BY <1>1, <2>1, <2>5
  <2>7. \A i \in 1..n : newest < out'[i] /\ out'[i] <= newest' /\ out'[i] < made'
    BY <1>1, <2>1, <2>3, <2>4
  <2> QED
    BY <2>6, <2>7 DEF n
<1>2. ASSUME StreamType, Stream!Make \/ Stream!HandOverNothing
      PROVE  StreamType' /\ Rule
  <2>1. newest' = newest /\ made' \in {made, made + 1} /\ (out' = out \/ out' = <<>>)
    BY <1>2 DEF Stream!Make, Stream!HandOverNothing
  <2>2. out' # out => Len(out') = 0
    BY <2>1
  <2> QED
    BY <1>2, <2>1, <2>2
<1>3. Stream!Init => StreamType
  BY DEF Stream!Init
<1>4. StreamType /\ [Stream!Next]_Stream!vars => StreamType' /\ [Rule]_Stream!vars
  <2>1. StreamType /\ UNCHANGED Stream!vars => StreamType'
    BY DEF Stream!vars
  <2> HIDE DEF StreamType, Rule
  <2> QED
    BY <1>1, <1>2, <2>1 DEF Stream!Next
<1> HIDE DEF StreamType
<1> QED
  BY <1>3, <1>4, PTL DEF FieldStreamSpec, Stream!Spec, EachOnce

\* No measurement is handed over twice, whatever is overwritten, wraps around
\* or fails (bme68x_get_data).
THEOREM HandedOverOnce == Spec => EachOnce
BY FieldsInOrder, StreamGivesEachOnce
=============================================================================
