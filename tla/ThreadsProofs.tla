---------------------------- MODULE ThreadsProofs ---------------------------
(***************************************************************************)
(* Four proofs, the last on the first three.                               *)
(*                                                                         *)
(* The scheduler, for every set of threads and priorities, whatever the    *)
(* threads do and whenever the timer ticks, keeps every thread in one      *)
(* place and the order of priorities: three lemmas on lists (one in, one   *)
(* out, the first out), from them on what a call does to the ready list    *)
(* and the timers, and one invariant, IInv.                                *)
(*                                                                         *)
(* The virtual timers keep their deadlines, as Deadlines promises them.    *)
(* Due is the one function with the sums of the delta list as its values,  *)
(* so what an insertion, a removal or a tick does to it is seen from the   *)
(* new sums alone; TimersInv says that outside the timer interrupt every   *)
(* armed timer has ticks left, and each step is one of the promise's.      *)
(*                                                                         *)
(* The I2C driver, for transfers of any lengths: the hardware works        *)
(* exactly while the thread waits, and a transfer that says it went well   *)
(* was carried out.  Neither says enough by itself: the proof needs what   *)
(* each phase of a transfer has done so far, in Phases.                    *)
(*                                                                         *)
(* The threads and the bus are a program of the kernel and a user of the   *)
(* driver, so what is proved of those holds here, for all delays,          *)
(* transfers and priorities with tdUI above the others and these alike;    *)
(* and tdComp never runs before tdParser has initialised what it uses.     *)
(* The order is kept by the ready list: until tdParser is done, it stands  *)
(* before tdComp, and every insertion of a thread keeps it there.          *)
(***************************************************************************)
EXTENDS Threads, SequenceTheorems, WellFoundedInduction, TLAPS

-----------------------------------------------------------------------------
\* The scheduler.

\* What insertion and removal do to a list.
LEMMA Insertion ==
  ASSUME NEW S, NEW s \in Seq(S), NEW i \in 1..(Len(s) + 1), NEW e \in S
  PROVE  /\ InsertAt(s, i, e) \in Seq(S)
         /\ Len(InsertAt(s, i, e)) = Len(s) + 1
         /\ \A j \in 1..(Len(s) + 1) :
              InsertAt(s, i, e)[j] = IF j < i THEN s[j] ELSE IF j = i THEN e ELSE s[j-1]
<1> DEFINE a == SubSeq(s, 1, i-1)
           c == SubSeq(s, i, Len(s))
<1>1. /\ Len(s) \in Nat /\ \A j \in 1..Len(s) : s[j] \in S
      /\ i \in Int
  BY LenProperties, ElementOfSeq
<1>2. /\ a \in Seq(S) /\ Len(a) = i - 1
      /\ \A j \in 1..(i-1) : a[j] = s[j]
  <2>1. \A j \in 1..(i-1) : s[j] \in S
    BY <1>1
  <2>2. /\ a \in Seq(S)
        /\ Len(a) = IF 1 <= i-1 THEN i-1-1+1 ELSE 0
        /\ \A j \in 1..(i-1-1+1) : a[j] = s[1+j-1]
    BY <2>1, <1>1, SubSeqProperties, i-1 \in Int, 1 \in Int
  <2> HIDE DEF a
  <2> QED  BY <2>2, <1>1
<1>3. /\ c \in Seq(S) /\ Len(c) = Len(s) - i + 1
      /\ \A j \in 1..(Len(s) - i + 1) : c[j] = s[i+j-1]
  <2>1. \A j \in i..Len(s) : s[j] \in S
    BY <1>1
  <2>2. /\ c \in Seq(S)
        /\ Len(c) = IF i <= Len(s) THEN Len(s)-i+1 ELSE 0
        /\ \A j \in 1..(Len(s)-i+1) : c[j] = s[i+j-1]
    BY <2>1, <1>1, SubSeqProperties
  <2> HIDE DEF c
  <2> QED  BY <2>2, <1>1
<1> HIDE DEF a, c
<1>4. <<e>> \in Seq(S) /\ Len(<<e>>) = 1 /\ <<e>>[1] = e
  OBVIOUS
<1> DEFINE b == <<e>>
           ab == a \o b
<1>5. /\ ab \in Seq(S) /\ Len(ab) = i
      /\ \A j \in 1..i : ab[j] = IF j < i THEN s[j] ELSE e
  <2> HIDE DEF b
  <2>1. b \in Seq(S) /\ Len(b) = 1 /\ b[1] = e
    BY <1>4 DEF b
  <2>2. /\ ab \in Seq(S) /\ Len(ab) = Len(a) + Len(b)
        /\ \A j \in 1..(Len(a) + Len(b)) : ab[j] = IF j <= Len(a) THEN a[j] ELSE b[j - Len(a)]
    BY <2>1, <1>2, ConcatProperties
  <2> HIDE DEF ab
  <2> QED  BY <2>1, <2>2, <1>2, <1>1
<1>6. InsertAt(s, i, e) = ab \o c
  BY DEF InsertAt, a, c
<1> HIDE DEF ab
<1>7. /\ ab \o c \in Seq(S) /\ Len(ab \o c) = Len(ab) + Len(c)
      /\ \A j \in 1..(Len(ab) + Len(c)) : (ab \o c)[j] = IF j <= Len(ab) THEN ab[j] ELSE c[j - Len(ab)]
  BY <1>3, <1>5, ConcatProperties
<1> QED  BY <1>1, <1>3, <1>5, <1>6, <1>7

LEMMA Removal ==
  ASSUME NEW S, NEW s \in Seq(S), NEW i \in 1..Len(s)
  PROVE  /\ RemoveAt(s, i) \in Seq(S)
         /\ Len(RemoveAt(s, i)) = Len(s) - 1
         /\ \A j \in 1..(Len(s) - 1) : RemoveAt(s, i)[j] = IF j < i THEN s[j] ELSE s[j+1]
<1> DEFINE a == SubSeq(s, 1, i-1)
           c == SubSeq(s, i+1, Len(s))
<1>1. /\ Len(s) \in Nat /\ \A j \in 1..Len(s) : s[j] \in S
      /\ i \in Int
  BY LenProperties, ElementOfSeq
<1>2. /\ a \in Seq(S) /\ Len(a) = i - 1
      /\ \A j \in 1..(i-1) : a[j] = s[j]
  <2>1. \A j \in 1..(i-1) : s[j] \in S
    BY <1>1
  <2>2. /\ a \in Seq(S)
        /\ Len(a) = IF 1 <= i-1 THEN i-1-1+1 ELSE 0
        /\ \A j \in 1..(i-1-1+1) : a[j] = s[1+j-1]
    BY <2>1, <1>1, SubSeqProperties, i-1 \in Int, 1 \in Int
  <2> HIDE DEF a
  <2> QED  BY <2>2, <1>1
<1>3. /\ c \in Seq(S) /\ Len(c) = Len(s) - i
      /\ \A j \in 1..(Len(s) - i) : c[j] = s[i+j]
  <2>1. \A j \in (i+1)..Len(s) : s[j] \in S
    BY <1>1
  <2>2. /\ c \in Seq(S)
        /\ Len(c) = IF i+1 <= Len(s) THEN Len(s)-(i+1)+1 ELSE 0
        /\ \A j \in 1..(Len(s)-(i+1)+1) : c[j] = s[(i+1)+j-1]
    BY <2>1, <1>1, SubSeqProperties, i+1 \in Int
  <2> HIDE DEF c
  <2> QED  BY <2>2, <1>1
<1>4. RemoveAt(s, i) = a \o c
  BY DEF RemoveAt, a, c
<1> HIDE DEF a, c
<1> DEFINE r == a \o c
<1>5. /\ r \in Seq(S) /\ Len(r) = Len(a) + Len(c)
      /\ \A j \in 1..(Len(a) + Len(c)) : r[j] = IF j <= Len(a) THEN a[j] ELSE c[j - Len(a)]
  BY <1>2, <1>3, ConcatProperties
<1> HIDE DEF r
<1>6. /\ Len(r) = Len(s) - 1
      /\ \A j \in 1..(Len(s) - 1) : r[j] = IF j <= i-1 THEN a[j] ELSE c[j - (i-1)]
  <2>1. Len(a) = i-1 /\ Len(a) + Len(c) = Len(s) - 1
    BY <1>1, <1>2, <1>3
  <2> QED  BY <1>5, <2>1
<1>7. ASSUME NEW j \in 1..(Len(s) - 1)
      PROVE  r[j] = IF j < i THEN s[j] ELSE s[j+1]
  <2>1. CASE j <= i-1
    <3>1. j \in 1..(i-1) /\ j < i
      BY <2>1, <1>1
    <3> QED  BY <3>1, <1>6, <1>2
  <2>2. CASE ~(j <= i-1)
    <3>1. j - (i-1) \in 1..(Len(s) - i) /\ i + (j - (i-1)) = j + 1 /\ ~(j < i)
      BY <2>2, <1>1
    <3>2. r[j] = c[j - (i-1)]
      BY <2>2, <1>6
    <3>3. c[j - (i-1)] = s[i + (j - (i-1))]
      BY <3>1, <1>3
    <3> QED  BY <3>1, <3>2, <3>3
  <2> QED  BY <2>1, <2>2
<1>8. r = RemoveAt(s, i)
  BY <1>4 DEF r
<1> QED  BY <1>5, <1>6, <1>7, <1>8

-----------------------------------------------------------------------------
\* Lists of threads.
Sorted(r) == \A i, j \in 1..Len(r) : i < j => Priority[r[i]] >= Priority[r[j]]
Distinct(r) == \A i, j \in 1..Len(r) : r[i] = r[j] => i = j
List(r) == r \in Seq(Threads) /\ Distinct(r)
Adds(q, r, t) == List(q) /\ \A u \in Threads : In(q, u) <=> In(r, u) \/ u = t
Drops(q, r, t) == List(q) /\ \A u \in Threads : In(q, u) <=> In(r, u) /\ u # t

LEMMA ListFacts ==
  ASSUME NEW r, List(r)
  PROVE  /\ Len(r) \in Nat
         /\ \A i \in 1..Len(r) : r[i] \in Threads
BY LenProperties, ElementOfSeq DEF List

LEMMA InsertedThread ==
  ASSUME NEW r, List(r), NEW t \in Threads, NEW k \in 1..(Len(r) + 1)
  PROVE  /\ InsertAt(r, k, t) \in Seq(Threads)
         /\ Len(InsertAt(r, k, t)) = Len(r) + 1
         /\ \A j \in 1..(Len(r) + 1) :
              InsertAt(r, k, t)[j] = IF j < k THEN r[j] ELSE IF j = k THEN t ELSE r[j-1]
<1>1. r \in Seq(Threads)
  BY DEF List
<1>2. InsertAt(r, k, t) \in Seq(Threads)
  BY <1>1, Insertion
<1>3. Len(InsertAt(r, k, t)) = Len(r) + 1
  BY <1>1, Insertion
<1>4. ASSUME NEW j \in 1..(Len(r) + 1)
      PROVE  InsertAt(r, k, t)[j] = IF j < k THEN r[j] ELSE IF j = k THEN t ELSE r[j-1]
  BY <1>1, Insertion
<1> QED  BY <1>2, <1>3, <1>4

\* A list with one more thread is a list of one more thread.
LEMMA InsertedList ==
  ASSUME NEW r, List(r), NEW t \in Threads, ~In(r, t), NEW k \in 1..(Len(r) + 1)
  PROVE  Adds(InsertAt(r, k, t), r, t)
<1> DEFINE q == InsertAt(r, k, t)
<1>1. /\ q \in Seq(Threads) /\ Len(q) = Len(r) + 1
      /\ \A j \in 1..(Len(r) + 1) :
           q[j] = IF j < k THEN r[j] ELSE IF j = k THEN t ELSE r[j-1]
  BY InsertedThread
<1> HIDE DEF q
<1>2. Len(r) \in Nat /\ \A i \in 1..Len(r) : r[i] \in Threads /\ r[i] # t
  BY ListFacts DEF In
<1>3. Distinct(q)
  <2> SUFFICES ASSUME NEW i \in 1..Len(q), NEW j \in 1..Len(q), q[i] = q[j]
               PROVE  i = j
    BY DEF Distinct
  <2> DEFINE at(m) == IF m < k THEN m ELSE m - 1
  <2>1. CASE i = k \/ j = k
    BY <2>1, <1>1, <1>2
  <2>2. CASE i # k /\ j # k
    <3>1. at(i) \in 1..Len(r) /\ at(j) \in 1..Len(r) /\ q[i] = r[at(i)] /\ q[j] = r[at(j)]
      BY <2>2, <1>1, <1>2
    <3>2. at(i) = at(j)
      BY <3>1 DEF List, Distinct
    <3> QED  BY <3>2, <2>2, <1>1, <1>2
  <2> QED  BY <2>1, <2>2
<1>4. ASSUME NEW u \in Threads
      PROVE  In(q, u) <=> In(r, u) \/ u = t
  <2>1. ASSUME In(q, u) PROVE In(r, u) \/ u = t
    <3>1. PICK i \in 1..Len(q) : q[i] = u
      BY <2>1 DEF In
    <3>2. i = k \/ (i < k /\ i \in 1..Len(r)) \/ (i > k /\ i-1 \in 1..Len(r))
      BY <1>1, <1>2
    <3> QED  BY <3>1, <3>2, <1>1, <1>2 DEF In
  <2>2. ASSUME In(r, u) PROVE In(q, u)
    <3>1. PICK i \in 1..Len(r) : r[i] = u
      BY <2>2 DEF In
    <3>2. CASE i < k
      <4>1. i \in 1..Len(q) /\ q[i] = u
        BY <3>1, <3>2, <1>1, <1>2
      <4> QED  BY <4>1 DEF In
    <3>3. CASE ~(i < k)
      <4>1. i+1 \in 1..Len(q) /\ q[i+1] = r[(i+1)-1] /\ (i+1)-1 = i
        BY <3>3, <1>1, <1>2
      <4> QED  BY <4>1, <3>1 DEF In
    <3> QED  BY <3>2, <3>3
  <2>3. In(q, t)
    <3>1. k \in 1..Len(q) /\ q[k] = t
      BY <1>1, <1>2
    <3> QED  BY <3>1 DEF In
  <2> QED  BY <2>1, <2>2, <2>3
<1> QED  BY <1>1, <1>3, <1>4 DEF Adds, List, q

\* Both places for a thread among its equals keep the order.
LEMMA InsertedSorted ==
  ASSUME NEW r, List(r), Sorted(r), NEW t \in Threads, NEW k \in 1..(Len(r) + 1),
         \A j \in 1..(k-1) : Priority[r[j]] >= Priority[t],
         k <= Len(r) => Priority[r[k]] <= Priority[t]
  PROVE  Sorted(InsertAt(r, k, t))
<1> DEFINE q == InsertAt(r, k, t)
<1>1. /\ Len(q) = Len(r) + 1
      /\ \A j \in 1..(Len(r) + 1) :
           q[j] = IF j < k THEN r[j] ELSE IF j = k THEN t ELSE r[j-1]
  BY InsertedThread
<1> HIDE DEF q
<1>2. /\ Len(r) \in Nat
      /\ \A i \in 1..Len(r) : r[i] \in Threads /\ Priority[r[i]] \in Nat
      /\ Priority[t] \in Nat
  BY ListFacts, KernelAssumption
<1>3. \A j \in k..Len(r) : Priority[r[j]] <= Priority[t]
  <2> TAKE j \in k..Len(r)
  <2>1. k \in 1..Len(r) /\ j \in 1..Len(r) /\ (k = j \/ k < j)
    BY <1>2
  <2>2. Priority[r[k]] >= Priority[r[j]]
    BY <2>1, <1>2 DEF Sorted
  <2> QED  BY <2>1, <2>2, <1>2
<1>4. ASSUME NEW i \in 1..Len(q), NEW j \in 1..Len(q), i < j
      PROVE  Priority[q[i]] >= Priority[q[j]]
  <2>1. CASE j < k
    <3>1. i \in 1..Len(r) /\ j \in 1..Len(r) /\ q[i] = r[i] /\ q[j] = r[j]
      BY <2>1, <1>1, <1>2, <1>4
    <3> QED  BY <3>1, <1>4 DEF Sorted
  <2>2. CASE j = k
    <3>1. i \in 1..(k-1) /\ q[i] = r[i] /\ q[j] = t
      BY <2>2, <1>1, <1>2, <1>4
    <3> QED  BY <3>1
  <2>3. CASE j > k /\ i < k
    <3>1. i \in 1..(k-1) /\ i \in 1..Len(r) /\ q[i] = r[i] /\ j-1 \in k..Len(r) /\ j-1 \in 1..Len(r) /\ q[j] = r[j-1]
      BY <2>3, <1>1, <1>2, <1>4
    <3>2. Priority[r[i]] >= Priority[t] /\ Priority[r[j-1]] <= Priority[t]
      BY <3>1, <1>3
    <3> QED  BY <3>1, <3>2, <1>2
  <2>4. CASE j > k /\ i = k
    <3>1. q[i] = t /\ j-1 \in k..Len(r) /\ j-1 \in 1..Len(r) /\ q[j] = r[j-1]
      BY <2>4, <1>1, <1>2, <1>4
    <3> QED  BY <3>1, <1>2, <1>3
  <2>5. CASE j > k /\ i > k
    <3>1. i-1 \in 1..Len(r) /\ j-1 \in 1..Len(r) /\ i-1 < j-1 /\ q[i] = r[i-1] /\ q[j] = r[j-1]
      BY <2>5, <1>1, <1>2, <1>4
    <3> QED  BY <3>1 DEF Sorted
  <2> QED  BY <2>1, <2>2, <2>3, <2>4, <2>5, <1>2
<1> QED  BY <1>4 DEF Sorted, q

LEMMA BehindEqualsAdds ==
  ASSUME NEW r, List(r), Sorted(r), NEW t \in Threads, ~In(r, t), NEW q \in BehindEquals(r, t)
  PROVE  Adds(q, r, t) /\ Sorted(q)
<1>1. PICK k \in 1..(Len(r) + 1) :
        /\ q = InsertAt(r, k, t)
        /\ \A j \in 1..(k-1) : Priority[r[j]] >= Priority[t]
        /\ k <= Len(r) => Priority[r[k]] < Priority[t]
  BY DEF BehindEquals
<1>2. k <= Len(r) => Priority[r[k]] <= Priority[t]
  <2>1. Priority[t] \in Nat /\ Len(r) \in Nat /\ \A i \in 1..Len(r) : Priority[r[i]] \in Nat
    BY ListFacts, KernelAssumption
  <2> QED  BY <1>1, <2>1
<1> QED  BY <1>1, <1>2, InsertedList, InsertedSorted

LEMMA AheadOfEqualsAdds ==
  ASSUME NEW r, List(r), Sorted(r), NEW t \in Threads, ~In(r, t), NEW q \in AheadOfEquals(r, t)
  PROVE  Adds(q, r, t) /\ Sorted(q)
<1>1. PICK k \in 1..(Len(r) + 1) :
        /\ q = InsertAt(r, k, t)
        /\ \A j \in 1..(k-1) : Priority[r[j]] > Priority[t]
        /\ k <= Len(r) => Priority[r[k]] <= Priority[t]
  BY DEF AheadOfEquals
<1>2. \A j \in 1..(k-1) : Priority[r[j]] >= Priority[t]
  <2>1. Priority[t] \in Nat /\ Len(r) \in Nat /\ \A i \in 1..Len(r) : Priority[r[i]] \in Nat
    BY ListFacts, KernelAssumption
  <2> QED  BY <1>1, <2>1
<1> QED  BY <1>1, <1>2, InsertedList, InsertedSorted

\* The first thread leaves the list, and is of the highest priority in it.
LEMMA FirstOut ==
  ASSUME NEW r, List(r), Sorted(r), r # <<>>
  PROVE  /\ Head(r) \in Threads /\ In(r, Head(r))
         /\ Drops(Tail(r), r, Head(r)) /\ Sorted(Tail(r))
         /\ \A i \in 1..Len(Tail(r)) : Priority[Tail(r)[i]] <= Priority[Head(r)]
<1> DEFINE q == Tail(r)
           h == Head(r)
<1>1. /\ h \in Threads /\ q \in Seq(Threads) /\ Len(q) = Len(r) - 1
      /\ \A i \in 1..Len(q) : q[i] = r[i+1]
  BY HeadTailProperties DEF List
<1>2. h = r[1] /\ Len(r) \in Nat \ {0}
  BY EmptySeq DEF List
<1> HIDE DEF q, h
<1>3. \A i \in 1..Len(q) : i+1 \in 1..Len(r) /\ 1 < i+1 /\ 1 \in 1..Len(r)
  BY <1>1, <1>2
<1>4. Distinct(q)
  <2> SUFFICES ASSUME NEW i \in 1..Len(q), NEW j \in 1..Len(q), q[i] = q[j]
               PROVE  i = j
    BY DEF Distinct
  <2>1. i+1 = j+1
    BY <1>1, <1>3 DEF List, Distinct
  <2> QED  BY <2>1
<1>5. Sorted(q)
  <2> SUFFICES ASSUME NEW i \in 1..Len(q), NEW j \in 1..Len(q), i < j
               PROVE  Priority[q[i]] >= Priority[q[j]]
    BY DEF Sorted
  <2>1. i+1 < j+1
    BY <1>1, <1>2
  <2> QED  BY <2>1, <1>1, <1>3 DEF Sorted
<1>6. \A i \in 1..Len(q) : Priority[q[i]] <= Priority[h]
  <2>1. \A i \in 1..Len(q) : Priority[r[1]] >= Priority[r[i+1]]
    BY <1>3 DEF Sorted
  <2>2. Priority[h] \in Nat /\ \A i \in 1..Len(q) : Priority[r[i+1]] \in Nat
    BY <1>1, <1>3, ListFacts, KernelAssumption
  <2> QED  BY <2>1, <2>2, <1>1, <1>2
<1>7. ASSUME NEW u \in Threads
      PROVE  In(q, u) <=> In(r, u) /\ u # h
  <2>1. ASSUME In(q, u) PROVE In(r, u) /\ u # h
    <3>1. PICK i \in 1..Len(q) : q[i] = u
      BY <2>1 DEF In
    <3>2. u # h
      BY <3>1, <1>1, <1>2, <1>3 DEF List, Distinct
    <3> QED  BY <3>1, <3>2, <1>1, <1>3 DEF In
  <2>2. ASSUME In(r, u), u # h PROVE In(q, u)
    <3>1. PICK i \in 1..Len(r) : r[i] = u
      BY <2>2 DEF In
    <3>2. i-1 \in 1..Len(q) /\ (i-1)+1 = i
      BY <3>1, <2>2, <1>1, <1>2
    <3>3. q[i-1] = u
      BY <3>1, <3>2, <1>1
    <3> QED  BY <3>2, <3>3 DEF In
  <2> QED  BY <2>1, <2>2
<1>8. In(r, h)
  BY <1>2 DEF In
<1> QED  BY <1>1, <1>4, <1>5, <1>6, <1>7, <1>8 DEF Drops, List, q, h

LEMMA WithoutDrops ==
  ASSUME NEW r, List(r), NEW t \in Threads
  PROVE  Drops(Without(r, t), r, t)
<1>1. CASE ~In(r, t)
  BY <1>1 DEF Without, Drops
<1>2. CASE In(r, t)
  <2> DEFINE k == At(r, t)
             q == RemoveAt(r, k)
  <2>1. k \in 1..Len(r) /\ r[k] = t
    BY <1>2 DEF At, In
  <2>2. Without(r, t) = q
    BY <1>2 DEF Without
  <2> HIDE DEF k
  <2>3. r \in Seq(Threads)
    BY DEF List
  <2>4. /\ q \in Seq(Threads) /\ Len(q) = Len(r) - 1
        /\ \A j \in 1..(Len(r) - 1) : q[j] = IF j < k THEN r[j] ELSE r[j+1]
    BY <2>1, <2>3, Removal
  <2> HIDE DEF q
  <2>5. Len(r) \in Nat
    BY ListFacts
  <2> DEFINE at(m) == IF m < k THEN m ELSE m + 1
  <2>6. \A j \in 1..Len(q) : at(j) \in 1..Len(r) /\ at(j) # k /\ q[j] = r[at(j)]
    BY <2>1, <2>4, <2>5
  <2>7. Distinct(q)
    <3> SUFFICES ASSUME NEW i \in 1..Len(q), NEW j \in 1..Len(q), q[i] = q[j]
                 PROVE  i = j
      BY DEF Distinct
    <3>1. at(i) = at(j)
      BY <2>6 DEF List, Distinct
    <3> QED  BY <3>1, <2>1, <2>4, <2>5
  <2>8. ASSUME NEW u \in Threads
        PROVE  In(q, u) <=> In(r, u) /\ u # t
    <3>1. ASSUME In(q, u) PROVE In(r, u) /\ u # t
      <4>1. PICK j \in 1..Len(q) : q[j] = u
        BY <3>1 DEF In
      <4>2. at(j) \in 1..Len(r) /\ r[at(j)] = u /\ at(j) # k
        BY <4>1, <2>6
      <4> QED  BY <4>2, <2>1 DEF In, List, Distinct
    <3>2. ASSUME In(r, u), u # t PROVE In(q, u)
      <4>1. PICK i \in 1..Len(r) : r[i] = u
        BY <3>2 DEF In
      <4>2. i # k
        BY <4>1, <3>2, <2>1
      <4>3. CASE i < k
        <5>1. i \in 1..Len(q) /\ q[i] = u
          BY <4>1, <4>3, <2>1, <2>4, <2>5
        <5> QED  BY <5>1 DEF In
      <4>4. CASE i > k
        <5>1. i-1 \in 1..Len(q) /\ ~(i-1 < k) /\ (i-1)+1 = i
          BY <4>1, <4>4, <2>1, <2>4, <2>5
        <5>2. q[i-1] = u
          BY <5>1, <4>1, <2>4
        <5> QED  BY <5>1, <5>2 DEF In
      <4> QED  BY <4>2, <4>3, <4>4, <2>1, <2>5
    <3> QED  BY <3>1, <3>2
  <2> QED  BY <2>2, <2>4, <2>7, <2>8 DEF Drops, List
<1> QED  BY <1>1, <1>2

-----------------------------------------------------------------------------
\* What the lists are while c runs and the states are st: the ready list r
\* holds the ready threads in order, timers are armed only by threads that
\* wait or have been awoken, and Idle does not wait.
Consistent(c, r, st, list) ==
  /\ c \in Threads
  /\ st \in [Threads -> States]
  /\ List(r) /\ Sorted(r)
  /\ List(list)
  /\ \A t \in Threads : st[t] = "current" <=> t = c
  /\ \A t \in Threads : st[t] = "ready" <=> In(r, t)
  /\ \A t \in Threads : In(list, t) => st[t] \in Waits \cup {"ready"}
  /\ st[Idle] \in {"current", "ready"}

HighestRuns == \A i \in 1..Len(ready) : Priority[ready[i]] <= Priority[current]

IInv ==
  /\ Consistent(current, ready, state, timers)
  /\ ticking \in BOOLEAN
  /\ ~ticking => HighestRuns

\* A thread t that is switched in takes the running thread's place.
LEMMA SwitchConsistent ==
  ASSUME NEW t \in Threads, NEW r, NEW st, NEW list, NEW dl,
         st \in [Threads -> States],
         List(r), Sorted(r), ~In(r, t), List(list),
         \A u \in Threads : st[u] # "current",
         \A u \in Threads : u # t => (st[u] = "ready" <=> In(r, u)),
         \A u \in Threads : In(list, u) => st[u] \in Waits \cup {"ready"} \/ u = t,
         st[Idle] = "ready" \/ Idle = t,
         \A i \in 1..Len(r) : Priority[r[i]] <= Priority[t],
         SwitchTo(t, r, st, list, dl)
  PROVE  Consistent(current, ready, state, timers)' /\ HighestRuns'
<1>1. /\ current' = t /\ ready' = r /\ state' = [st EXCEPT ![t] = "current"]
      /\ timers' = Without(list, t)
  BY DEF SwitchTo
<1>2. Drops(timers', list, t)
  BY <1>1, WithoutDrops
<1>3. /\ state' \in [Threads -> States]
      /\ \A u \in Threads : state'[u] = IF u = t THEN "current" ELSE st[u]
  BY <1>1 DEF States
<1>4. \A u \in Threads : In(timers', u) => state'[u] \in Waits \cup {"ready"}
  BY <1>2, <1>3 DEF Drops
<1>5. \A u \in Threads : state'[u] = "ready" <=> In(ready', u)
  BY <1>1, <1>3
<1>6. Idle \in Threads
  BY KernelAssumption
<1>7. state'[Idle] \in {"current", "ready"}
  BY <1>3, <1>6
<1>8. List(timers')
  BY <1>2 DEF Drops
<1>9. Consistent(current', ready', state', timers')
  BY <1>1, <1>3, <1>4, <1>5, <1>7, <1>8 DEF Consistent
<1>10. HighestRuns'
  BY <1>1 DEF HighestRuns
<1> QED  BY <1>9, <1>10

\* A reschedule makes the highest ready thread run, if it is higher.
LEMMA RescheduleConsistent ==
  ASSUME NEW r, NEW st, Consistent(current, r, st, timers), Reschedule(r, st)
  PROVE  Consistent(current, ready, state, timers)' /\ HighestRuns'
<1>0. /\ current \in Threads /\ st \in [Threads -> States]
      /\ List(r) /\ Sorted(r) /\ List(timers)
      /\ \A t \in Threads : st[t] = "current" <=> t = current
      /\ \A t \in Threads : st[t] = "ready" <=> In(r, t)
      /\ \A t \in Threads : In(timers, t) => st[t] \in Waits \cup {"ready"}
      /\ st[Idle] \in {"current", "ready"}
  BY DEF Consistent
<1>p. \A t \in Threads : Priority[t] \in Nat
  BY KernelAssumption
<1>1. CASE ~Preempts(r)
  <2>1. ready' = r /\ state' = st /\ current' = current /\ timers' = timers
    BY <1>1 DEF Reschedule
  <2>2. Consistent(current', ready', state', timers')
    BY <2>1
  <2>3. CASE r = <<>>
    <3>1. 1..Len(r) = {}
      BY <2>3, EmptySeq
    <3> QED  BY <2>1, <2>2, <3>1 DEF HighestRuns
  <2>4. CASE r # <<>>
    <3>1. Head(r) \in Threads /\ ~(Priority[Head(r)] > Priority[current])
      BY <2>4, <1>0, <1>1, FirstOut DEF Preempts
    <3>2. Head(r) = r[1] /\ Len(r) \in Nat \ {0}
      BY <2>4, <1>0, EmptySeq DEF List
    <3>3. \A i \in 1..Len(r) : r[i] \in Threads /\ Priority[r[i]] <= Priority[r[1]]
      <4> TAKE i \in 1..Len(r)
      <4>1. r[i] \in Threads /\ 1 \in 1..Len(r)
        BY <1>0, <3>2, ListFacts
      <4>2. i = 1 \/ 1 < i
        BY <3>2
      <4>3. 1 < i => Priority[r[1]] >= Priority[r[i]]
        BY <4>1, <1>0 DEF Sorted
      <4> QED  BY <4>1, <4>2, <4>3, <1>p, <3>1, <3>2
    <3>4. \A i \in 1..Len(r) : Priority[r[i]] <= Priority[current]
      BY <3>1, <3>2, <3>3, <1>p, <1>0
    <3> QED  BY <2>1, <2>2, <3>4 DEF HighestRuns
  <2> QED  BY <2>3, <2>4
<1>2. CASE Preempts(r)
  <2> DEFINE h == Head(r)
             st2 == [st EXCEPT ![current] = "ready"]
  <2>1. r # <<>> /\ Priority[h] > Priority[current]
    BY <1>2 DEF Preempts
  <2>2. /\ h \in Threads /\ In(r, h)
        /\ Drops(Tail(r), r, h) /\ Sorted(Tail(r))
        /\ \A i \in 1..Len(Tail(r)) : Priority[Tail(r)[i]] <= Priority[h]
    BY <2>1, <1>0, FirstOut
  <2>3. PICK q \in AheadOfEquals(Tail(r), current) : SwitchTo(h, q, st2, timers, delta)
    BY <1>2 DEF Reschedule
  <2>4. st[current] = "current" /\ ~In(r, current)
    BY <1>0
  <2>5. ~In(Tail(r), current) /\ List(Tail(r))
    BY <2>2, <2>4, <1>0 DEF Drops
  <2>6. Adds(q, Tail(r), current) /\ Sorted(q)
    BY <2>2, <2>3, <2>5, <1>0, AheadOfEqualsAdds
  <2>7. current # h
    BY <2>1, <2>2, <1>p
  <2> HIDE DEF h
  <2>8. /\ st2 \in [Threads -> States]
        /\ \A u \in Threads : st2[u] = IF u = current THEN "ready" ELSE st[u]
    BY <1>0 DEF States
  <2>9. List(q) /\ ~In(q, h)
    BY <2>2, <2>6, <2>7 DEF Adds, Drops
  <2>10. \A u \in Threads : st2[u] # "current"
    BY <2>8, <1>0
  <2>11. \A u \in Threads : u # h => (st2[u] = "ready" <=> In(q, u))
    BY <2>2, <2>6, <2>8, <1>0 DEF Adds, Drops
  <2>12. \A u \in Threads : In(timers, u) => st2[u] \in Waits \cup {"ready"} \/ u = h
    BY <2>8, <1>0
  <2>13. st2[Idle] = "ready"
    BY <2>8, <1>0, KernelAssumption
  <2>14. \A i \in 1..Len(q) : Priority[q[i]] <= Priority[h]
    <3> TAKE i \in 1..Len(q)
    <3>1. q[i] \in Threads /\ In(q, q[i])
      BY <2>9, ListFacts DEF In
    <3>2. q[i] = current \/ In(Tail(r), q[i])
      BY <3>1, <2>6 DEF Adds
    <3>3. In(Tail(r), q[i]) => Priority[q[i]] <= Priority[h]
      BY <2>2 DEF In
    <3> QED  BY <3>2, <3>3, <2>1, <2>2, <1>p, <1>0 DEF h
  <2> HIDE DEF st2
  <2> QED  BY <2>2, <2>3, <2>6, <2>8, <2>9, <2>10, <2>11, <2>12, <2>13, <2>14, <1>0, SwitchConsistent
<1> QED  BY <1>1, <1>2

-----------------------------------------------------------------------------
\* A thread goes to sleep; k is given if it arms its timer.
LEMMA SleepConsistent ==
  ASSUME IInv, ~ticking, current # Idle, NEW wait \in Waits,
         NEW list, NEW dl, list = timers \/ Adds(list, timers, current),
         SwitchTo(Head(ready), Tail(ready), [state EXCEPT ![current] = wait], list, dl)
  PROVE  Consistent(current, ready, state, timers)' /\ HighestRuns'
<1> DEFINE h == Head(ready)
           st == [state EXCEPT ![current] = wait]
<1>0. /\ current \in Threads /\ state \in [Threads -> States]
      /\ List(ready) /\ Sorted(ready) /\ List(timers)
      /\ \A t \in Threads : state[t] = "current" <=> t = current
      /\ \A t \in Threads : state[t] = "ready" <=> In(ready, t)
      /\ \A t \in Threads : In(timers, t) => state[t] \in Waits \cup {"ready"}
      /\ state[Idle] \in {"current", "ready"} /\ Idle \in Threads
  BY KernelAssumption DEF IInv, Consistent
<1>1. In(ready, Idle)
  BY <1>0
<1>2. ready # <<>>
  <2>1. 1..Len(<<>>) = {}
    OBVIOUS
  <2> QED  BY <1>1, <2>1 DEF In
<1>3. /\ h \in Threads /\ In(ready, h)
      /\ Drops(Tail(ready), ready, h) /\ Sorted(Tail(ready))
      /\ \A i \in 1..Len(Tail(ready)) : Priority[Tail(ready)[i]] <= Priority[h]
  BY <1>0, <1>2, FirstOut
<1> HIDE DEF h
<1>4. /\ st \in [Threads -> States]
      /\ \A u \in Threads : st[u] = IF u = current THEN wait ELSE state[u]
  BY <1>0 DEF States
<1>5. wait # "current" /\ wait # "ready"
  BY DEF Waits
<1>6. List(Tail(ready)) /\ ~In(Tail(ready), h)
  BY <1>3 DEF Drops
<1>7. \A u \in Threads : u # h => (st[u] = "ready" <=> In(Tail(ready), u))
  BY <1>0, <1>3, <1>4, <1>5 DEF Drops
<1>8. \A u \in Threads : st[u] # "current"
  BY <1>0, <1>4, <1>5
<1>9. List(list) /\ \A u \in Threads : In(list, u) => st[u] \in Waits \cup {"ready"}
  BY <1>0, <1>4 DEF Adds
<1>10. st[Idle] = "ready"
  BY <1>0, <1>4
<1>11. SwitchTo(h, Tail(ready), st, list, dl)
  BY DEF h
<1> HIDE DEF st
<1> QED  BY <1>3, <1>4, <1>6, <1>7, <1>8, <1>9, <1>10, <1>11, SwitchConsistent

LEMMA InitConsistent == KernelInit => IInv
<1> SUFFICES ASSUME KernelInit PROVE IInv
  OBVIOUS
<1>1. Idle \in Threads /\ First \in Threads /\ First # Idle
  BY KernelAssumption
<1>2. ready \in Seq(Threads) /\ Len(ready) = 1 /\ ready[1] = Idle
  BY <1>1 DEF KernelInit
<1>3. List(ready) /\ Sorted(ready) /\ \A t \in Threads : In(ready, t) <=> t = Idle
  BY <1>2 DEF List, Distinct, Sorted, In
<1>4. List(timers) /\ \A t \in Threads : ~In(timers, t)
  BY DEF KernelInit, List, Distinct, In
<1>5. /\ state \in [Threads -> States]
      /\ \A t \in Threads : state[t] = IF t = First THEN "current"
                                     ELSE IF t = Idle THEN "ready" ELSE "none"
  BY DEF KernelInit, States
<1>6. current = First /\ ticking = FALSE
  BY DEF KernelInit
<1>7. Consistent(current, ready, state, timers)
  BY <1>1, <1>3, <1>4, <1>5, <1>6 DEF Consistent
<1>8. HighestRuns
  <2>1. Priority[Idle] < Priority[First] /\ Priority[Idle] \in Nat /\ Priority[First] \in Nat
    BY KernelAssumption
  <2> QED  BY <1>2, <1>6, <2>1 DEF HighestRuns
<1> QED  BY <1>6, <1>7, <1>8 DEF IInv

LEMMA GoSleepStep ==
  ASSUME IInv, NEW wait \in Waits, GoSleep(wait)
  PROVE  IInv'
<1>1. Consistent(current, ready, state, timers)' /\ HighestRuns'
  BY SleepConsistent DEF GoSleep
<1> QED  BY <1>1 DEF IInv, GoSleep

LEMMA GoSleepTimeoutStep ==
  ASSUME IInv, NEW wait \in Waits, NEW ticks, GoSleepTimeout(wait, ticks)
  PROVE  IInv'
<1>1. PICK k \in Earlier(ticks) :
        SwitchTo(Head(ready), Tail(ready), [state EXCEPT ![current] = wait],
                 InsertAt(timers, k + 1, current), DeltasWith(k, current, ticks))
  BY DEF GoSleepTimeout
<1>2. /\ List(timers) /\ current \in Threads /\ Len(timers) \in Nat
      /\ ~In(timers, current)
  <2>1. List(timers) /\ current \in Threads /\ state[current] = "current"
    BY DEF IInv, Consistent
  <2>2. ~In(timers, current)
    BY <2>1 DEF IInv, Consistent, Waits
  <2> QED  BY <2>1, <2>2, ListFacts
<1>3. k + 1 \in 1..(Len(timers) + 1)
  <2>1. k \in 0..Len(timers)
    BY DEF Earlier
  <2> QED  BY <1>2, <2>1
<1>4. Adds(InsertAt(timers, k + 1, current), timers, current)
  BY <1>2, <1>3, InsertedList
<1>5. Consistent(current, ready, state, timers)' /\ HighestRuns'
  BY <1>1, <1>4, SleepConsistent DEF GoSleepTimeout
<1> QED  BY <1>5 DEF IInv, GoSleepTimeout

\* A thread put into the ready list behind its equals, by Create and Awaken.
LEMMA ReadyConsistent ==
  ASSUME IInv, NEW t \in Threads, state[t] \notin {"current", "ready"},
         NEW r \in BehindEquals(ready, t), NEW list,
         List(list), \A u \in Threads : In(list, u) => In(timers, u)
  PROVE  /\ Consistent(current, r, [state EXCEPT ![t] = "ready"], list)
         /\ Adds(r, ready, t)
<1> DEFINE st == [state EXCEPT ![t] = "ready"]
<1>0. /\ current \in Threads /\ state \in [Threads -> States]
      /\ List(ready) /\ Sorted(ready)
      /\ \A u \in Threads : state[u] = "current" <=> u = current
      /\ \A u \in Threads : state[u] = "ready" <=> In(ready, u)
      /\ \A u \in Threads : In(timers, u) => state[u] \in Waits \cup {"ready"}
      /\ state[Idle] \in {"current", "ready"}
  BY DEF IInv, Consistent
<1>1. Adds(r, ready, t) /\ Sorted(r)
  BY <1>0, BehindEqualsAdds
<1>2. /\ st \in [Threads -> States]
      /\ \A u \in Threads : st[u] = IF u = t THEN "ready" ELSE state[u]
  BY <1>0 DEF States
<1>3. Idle \in Threads
  BY KernelAssumption
<1> HIDE DEF st
<1>4. Consistent(current, r, st, list)
  BY <1>0, <1>1, <1>2, <1>3 DEF Consistent, Adds
<1> QED  BY <1>1, <1>4 DEF st

LEMMA CreateStep ==
  ASSUME IInv, NEW t \in Threads, Create(t)
  PROVE  IInv'
<1>0. /\ current \in Threads /\ state \in [Threads -> States]
      /\ List(ready) /\ Sorted(ready) /\ List(timers)
      /\ \A u \in Threads : state[u] = "current" <=> u = current
      /\ \A u \in Threads : state[u] = "ready" <=> In(ready, u)
      /\ \A u \in Threads : In(timers, u) => state[u] \in Waits \cup {"ready"}
      /\ state[Idle] \in {"current", "ready"}
      /\ ~ticking /\ HighestRuns /\ ticking' = ticking /\ state[t] = "none"
  BY DEF IInv, Consistent, Create
<1>p. \A u \in Threads : Priority[u] \in Nat
  BY KernelAssumption
<1>1. CASE Priority[t] <= Priority[current]
  <2>1. PICK r \in BehindEquals(ready, t) : ready' = r
    BY <1>1, <1>0, <1>p DEF Create
  <2>2. state' = [state EXCEPT ![t] = "ready"] /\ current' = current /\ timers' = timers
    BY <1>1, <1>0, <1>p DEF Create
  <2>3. Consistent(current, r, [state EXCEPT ![t] = "ready"], timers) /\ Adds(r, ready, t)
    BY <1>0, ReadyConsistent
  <2>4. Consistent(current', ready', state', timers')
    BY <2>1, <2>2, <2>3
  <2>5. HighestRuns'
    <3> SUFFICES ASSUME NEW i \in 1..Len(r) PROVE Priority[r[i]] <= Priority[current]
      BY <2>1, <2>2 DEF HighestRuns
    <3>1. r[i] \in Threads /\ In(r, r[i])
      BY <2>3, ListFacts DEF Adds, In
    <3>2. r[i] = t \/ In(ready, r[i])
      BY <3>1, <2>3 DEF Adds
    <3>3. In(ready, r[i]) => Priority[r[i]] <= Priority[current]
      BY <1>0 DEF In, HighestRuns
    <3> QED  BY <3>2, <3>3, <1>1
  <2> QED  BY <1>0, <2>4, <2>5 DEF IInv
<1>2. CASE ~(Priority[t] <= Priority[current])
  <2> DEFINE st == [state EXCEPT ![current] = "ready"]
  <2>1. PICK r \in BehindEquals(ready, current) : SwitchTo(t, r, st, timers, delta)
    BY <1>2, <1>0, <1>p DEF Create
  <2>2. ~In(ready, current) /\ ~In(ready, t) /\ t # current /\ ~In(timers, t)
    BY <1>0 DEF Waits
  <2>3. Adds(r, ready, current) /\ Sorted(r)
    BY <1>0, <2>2, BehindEqualsAdds
  <2>4. /\ st \in [Threads -> States]
        /\ \A u \in Threads : st[u] = IF u = current THEN "ready" ELSE state[u]
    BY <1>0 DEF States
  <2>5. Idle \in Threads
    BY KernelAssumption
  <2> HIDE DEF st
  <2>6. /\ List(r) /\ ~In(r, t)
        /\ \A u \in Threads : u # t => (st[u] = "ready" <=> In(r, u))
    BY <1>0, <2>2, <2>3, <2>4 DEF Adds
  <2>7. \A i \in 1..Len(r) : Priority[r[i]] <= Priority[t]
    <3> TAKE i \in 1..Len(r)
    <3>1. r[i] \in Threads /\ In(r, r[i])
      BY <2>6, ListFacts DEF In
    <3>2. r[i] = current \/ In(ready, r[i])
      BY <3>1, <2>3 DEF Adds
    <3>3. In(ready, r[i]) => Priority[r[i]] <= Priority[current]
      BY <1>0 DEF In, HighestRuns
    <3> QED  BY <3>1, <3>2, <3>3, <1>2, <1>p, <1>0
  <2>8. /\ \A u \in Threads : st[u] # "current"
        /\ \A u \in Threads : In(timers, u) => st[u] \in Waits \cup {"ready"} \/ u = t
        /\ st[Idle] = "ready"
    BY <1>0, <2>4, <2>5
  <2>9. Consistent(current, ready, state, timers)' /\ HighestRuns'
    BY <2>1, <2>3, <2>4, <2>6, <2>7, <2>8, <1>0, SwitchConsistent
  <2> QED  BY <1>0, <2>9 DEF IInv
<1> QED  BY <1>1, <1>2

LEMMA AwakenStep ==
  ASSUME IInv, NEW t \in Threads, Awaken(t)
  PROVE  IInv'
<1>1. PICK r \in BehindEquals(ready, t) : Reschedule(r, [state EXCEPT ![t] = "ready"])
  BY DEF Awaken
<1>2. state[t] \notin {"current", "ready"}
  BY DEF Awaken, Waits
<1>3. Consistent(current, r, [state EXCEPT ![t] = "ready"], timers)
  BY <1>2, ReadyConsistent DEF IInv, Consistent
<1>4. Consistent(current, ready, state, timers)' /\ HighestRuns'
  BY <1>1, <1>3, RescheduleConsistent
<1> QED  BY <1>4 DEF IInv, Awaken

LEMMA ExpireStep ==
  ASSUME IInv, Expire
  PROVE  IInv'
<1> DEFINE t == Head(timers)
<1>0. /\ current \in Threads /\ state \in [Threads -> States]
      /\ List(ready) /\ Sorted(ready) /\ List(timers)
      /\ \A u \in Threads : state[u] = "current" <=> u = current
      /\ \A u \in Threads : state[u] = "ready" <=> In(ready, u)
      /\ \A u \in Threads : In(timers, u) => state[u] \in Waits \cup {"ready"}
      /\ state[Idle] \in {"current", "ready"}
      /\ ticking = TRUE /\ ticking' = TRUE /\ current' = current
      /\ timers # <<>> /\ timers' = Tail(timers)
  BY DEF IInv, Consistent, Expire
<1>1. /\ List(timers') /\ t \in Threads /\ In(timers, t)
      /\ \A u \in Threads : In(timers', u) <=> In(timers, u) /\ u # t
  <2>1. t \in Threads /\ Tail(timers) \in Seq(Threads) /\ Len(Tail(timers)) = Len(timers) - 1
        /\ \A i \in 1..Len(Tail(timers)) : Tail(timers)[i] = timers[i+1]
    BY <1>0, HeadTailProperties DEF List
  <2>2. t = timers[1] /\ Len(timers) \in Nat \ {0}
    BY <1>0, EmptySeq DEF List
  <2> HIDE DEF t
  <2>3. \A i \in 1..Len(Tail(timers)) : i+1 \in 1..Len(timers)
    BY <2>1, <2>2
  <2>4. Distinct(Tail(timers))
    <3> SUFFICES ASSUME NEW i \in 1..Len(Tail(timers)), NEW j \in 1..Len(Tail(timers)),
                        Tail(timers)[i] = Tail(timers)[j]
                 PROVE  i = j
      BY DEF Distinct
    <3>1. i+1 = j+1
      BY <2>1, <2>3, <1>0 DEF List, Distinct
    <3> QED  BY <3>1
  <2>5. ASSUME NEW u \in Threads
        PROVE  In(Tail(timers), u) <=> In(timers, u) /\ u # t
    <3>1. ASSUME In(Tail(timers), u) PROVE In(timers, u) /\ u # t
      <4>1. PICK i \in 1..Len(Tail(timers)) : timers[i+1] = u
        BY <3>1, <2>1 DEF In
      <4>2. i+1 \in 1..Len(timers) /\ i+1 # 1 /\ 1 \in 1..Len(timers)
        BY <2>2, <2>3
      <4> QED  BY <4>1, <4>2, <2>2, <1>0 DEF In, List, Distinct
    <3>2. ASSUME In(timers, u), u # t PROVE In(Tail(timers), u)
      <4>1. PICK i \in 1..Len(timers) : timers[i] = u
        BY <3>2 DEF In
      <4>2. i-1 \in 1..Len(Tail(timers)) /\ (i-1)+1 = i
        BY <4>1, <3>2, <2>1, <2>2
      <4> QED  BY <4>1, <4>2, <2>1 DEF In
    <3> QED  BY <3>1, <3>2
  <2>6. In(timers, t)
    BY <2>2 DEF In
  <2> QED  BY <2>1, <2>4, <2>5, <2>6, <1>0 DEF List, t
<1> HIDE DEF t
<1>2. CASE state[t] = "ready"
  <2>1. ready' = ready /\ state' = state
    BY <1>2 DEF Expire, t
  <2>2. Consistent(current', ready', state', timers')
    BY <2>1, <1>0, <1>1 DEF Consistent
  <2> QED  BY <2>2, <1>0 DEF IInv
<1>3. CASE state[t] # "ready"
  <2>1. PICK r \in BehindEquals(ready, t) : ready' = r
    BY <1>3 DEF Expire, t
  <2>2. state' = [state EXCEPT ![t] = "ready"]
    BY <1>3 DEF Expire, t
  <2>3. state[t] \notin {"current", "ready"}
    BY <1>3, <1>0, <1>1 DEF Waits
  <2>4. Consistent(current, r, [state EXCEPT ![t] = "ready"], timers')
    BY <2>3, <1>1, ReadyConsistent
  <2>5. Consistent(current', ready', state', timers')
    BY <2>1, <2>2, <2>4, <1>0
  <2> QED  BY <2>5, <1>0 DEF IInv
<1> QED  BY <1>2, <1>3

LEMMA StepConsistent == IInv /\ [KernelNext]_kvars => IInv'
<1> SUFFICES ASSUME IInv, [KernelNext]_kvars PROVE IInv'
  OBVIOUS
<1>1. CASE \E wait \in Waits : GoSleep(wait)
  BY <1>1, GoSleepStep
<1>2. CASE \E wait \in Waits, ticks \in Delays[current] : GoSleepTimeout(wait, ticks)
  BY <1>2, GoSleepTimeoutStep
<1>3. CASE \E t \in Threads : Create(t)
  BY <1>3, CreateStep
<1>4. CASE \E t \in Threads : Awaken(t)
  BY <1>4, AwakenStep
<1>5. CASE Tick
  BY <1>5 DEF Tick, IInv
<1>6. CASE Expire
  BY <1>6, ExpireStep
<1>7. CASE TickEnd
  <2>1. Consistent(current, ready, state, timers)' /\ HighestRuns'
    BY <1>7, RescheduleConsistent DEF TickEnd, IInv
  <2> QED  BY <1>7, <2>1 DEF IInv, TickEnd
<1>8. CASE UNCHANGED kvars
  <2>1. /\ current' = current /\ ready' = ready /\ state' = state
        /\ timers' = timers /\ ticking' = ticking
    BY <1>8 DEF kvars
  <2>2. Consistent(current', ready', state', timers')
    BY <2>1 DEF IInv
  <2> QED  BY <2>1, <2>2 DEF IInv, HighestRuns
<1> QED  BY <1>1, <1>2, <1>3, <1>4, <1>5, <1>6, <1>7, <1>8 DEF KernelNext

\* The states and lists stay consistent: the invariant behind the two below.
THEOREM KernelInvariance == KernelSpec => []IInv
<1> QED  BY InitConsistent, StepConsistent, PTL DEF KernelSpec

LEMMA ConsistentIsSafe == IInv => OnePlace /\ PriorityOrder
BY DEF IInv, Consistent, OnePlace, PriorityOrder, Ordered, Sorted, List, Distinct, HighestRuns

\* No call and no tick puts a thread in two places or in none.
THEOREM OnePlaceSafe == KernelSpec => []OnePlace
<1> QED  BY KernelInvariance, ConsistentIsSafe, PTL

\* The kernel's assertion of chSchWakeupS never fails, whatever the threads do.
THEOREM PrioritySafe == KernelSpec => []PriorityOrder
<1> QED  BY KernelInvariance, ConsistentIsSafe, PTL

-----------------------------------------------------------------------------
\* The timers.

\* Induction over a set of numbers, without an operator as parameter.
LEMMA Induction ==
  ASSUME NEW S, 0 \in S, \A n \in Nat : n \in S => n + 1 \in S
  PROVE  \A n \in Nat : n \in S
<1> DEFINE T == Nat \ S
<1>1. SUFFICES ASSUME T # {} PROVE FALSE
  OBVIOUS
<1>2. IsWellFoundedOn(OpToRel(<, Nat), Nat)
  BY NatLessThanWellFounded
<1>3. PICK x \in T : \A y \in T : ~(<<y, x>> \in OpToRel(<, Nat))
  <2>1. T \subseteq Nat
    OBVIOUS
  <2> QED  BY <1>1, <1>2, <2>1, WFMin
<1>4. \A y \in T : ~(y < x)
  BY <1>3 DEF OpToRel
<1>5. x # 0 /\ x - 1 \in Nat
  OBVIOUS
<1>6. x - 1 \in S
  BY <1>4, <1>5
<1>7. (x - 1) + 1 \in S
  BY <1>5, <1>6
<1> QED  BY <1>7

\* f[i] is the sum of the first i deltas of a list of n timers.
IsSum(f, list, dl, n) ==
  f = [i \in 0..n |-> IF i = 0 THEN 0 ELSE f[i-1] + dl[list[i]]]

LEMMA SumExists ==
  ASSUME NEW list, NEW dl
  PROVE  \A n \in Nat : \E f : IsSum(f, list, dl, n)
<1> DEFINE S == {n \in Nat : \E f : IsSum(f, list, dl, n)}
<1>1. 0 \in S
  <2>1. IsSum([i \in 0..0 |-> 0], list, dl, 0)
    BY DEF IsSum
  <2> QED  BY <2>1
<1>2. ASSUME NEW n \in Nat, n \in S PROVE n + 1 \in S
  <2>1. PICK f : IsSum(f, list, dl, n)
    BY <1>2
  <2> DEFINE g == [i \in 0..(n+1) |-> IF i <= n THEN f[i] ELSE f[n] + dl[list[n+1]]]
  <2>2. ASSUME NEW i \in 0..(n+1)
        PROVE  g[i] = IF i = 0 THEN 0 ELSE g[i-1] + dl[list[i]]
    <3>1. CASE i = 0
      BY <2>1, <3>1 DEF IsSum
    <3>2. CASE i \in 1..n
      <4>1. g[i] = f[i] /\ g[i-1] = f[i-1]
        BY <3>2
      <4>2. f[i] = f[i-1] + dl[list[i]]
        BY <2>1, <3>2 DEF IsSum
      <4> QED  BY <3>2, <4>1, <4>2
    <3>3. CASE i = n + 1
      <4>1. /\ g[i] = f[n] + dl[list[n+1]]
            /\ g[n] = f[n] /\ i - 1 = n /\ i # 0
        BY <3>3
      <4> HIDE DEF g
      <4> QED  BY <3>3, <4>1
    <3> QED  BY <3>1, <3>2, <3>3
  <2>3. IsSum(g, list, dl, n + 1)
    <3>1. g = [i \in 0..(n+1) |-> g[i]]
      OBVIOUS
    <3> HIDE DEF g
    <3> QED  BY <2>2, <3>1, Zenon DEF IsSum
  <2> QED  BY <2>3
<1>3. \A n \in Nat : n \in S
  <2> HIDE DEF S
  <2> QED  BY <1>1, <1>2, Induction
<1> QED  BY <1>3

\* Due is what its recursion says,
LEMMA DueSums ==
  ASSUME NEW list, NEW dl, Len(list) \in Nat
  PROVE  /\ Due(list, dl)[0] = 0
         /\ \A i \in 1..Len(list) : Due(list, dl)[i] = Due(list, dl)[i-1] + dl[list[i]]
<1> DEFINE f == CHOOSE g : IsSum(g, list, dl, Len(list))
<1>1. \E g : IsSum(g, list, dl, Len(list))
  BY SumExists
<1>2. IsSum(f, list, dl, Len(list))
  BY <1>1
<1>3. Due(list, dl) = f
  BY Zenon DEF Due, IsSum
<1> HIDE DEF f
<1>4. f[0] = 0
  BY <1>2 DEF IsSum
<1>5. ASSUME NEW i \in 1..Len(list) PROVE f[i] = f[i-1] + dl[list[i]]
  <2>1. i \in 0..Len(list) /\ i # 0
    OBVIOUS
  <2> QED  BY <1>2, <2>1 DEF IsSum
<1> QED  BY <1>3, <1>4, <1>5

\* and nothing else is.
Sums(f, list, dl) ==
  f[0] = 0 /\ \A i \in 1..Len(list) : f[i] = f[i-1] + dl[list[i]]
IsDue(f, list, dl) == \A i \in 0..Len(list) : Due(list, dl)[i] = f[i]

LEMMA DueUnique ==
  ASSUME NEW list, NEW dl, Len(list) \in Nat, NEW f, Sums(f, list, dl)
  PROVE  IsDue(f, list, dl)
<1> DEFINE D == Due(list, dl)
           S == {n \in Nat : n <= Len(list) => D[n] = f[n]}
<1>1. D[0] = 0 /\ \A i \in 1..Len(list) : D[i] = D[i-1] + dl[list[i]]
  BY DueSums
<1> HIDE DEF D
<1>2. 0 \in S
  BY <1>1 DEF Sums
<1>3. ASSUME NEW n \in Nat, n \in S PROVE n + 1 \in S
  <2> SUFFICES ASSUME n + 1 <= Len(list) PROVE D[n+1] = f[n+1]
    OBVIOUS
  <2>1. n + 1 \in 1..Len(list) /\ (n + 1) - 1 = n /\ D[n] = f[n]
    BY <1>3
  <2> QED  BY <1>1, <2>1 DEF Sums
<1>4. \A n \in Nat : n \in S
  <2> HIDE DEF S
  <2> QED  BY <1>2, <1>3, Induction
<1> QED  BY <1>4 DEF D, IsDue

LEMMA DueGrows ==
  ASSUME NEW list \in Seq(Threads), NEW dl \in [Threads -> Nat]
  PROVE  /\ \A i \in 0..Len(list) : Due(list, dl)[i] \in Nat
         /\ \A i, j \in 0..Len(list) : i <= j => Due(list, dl)[i] <= Due(list, dl)[j]
<1> DEFINE D == Due(list, dl)
           S == {n \in Nat : n <= Len(list) =>
                    D[n] \in Nat /\ \A i \in 0..n : D[i] \in Nat /\ D[i] <= D[n]}
<1>1. Len(list) \in Nat /\ \A i \in 1..Len(list) : dl[list[i]] \in Nat
  BY LenProperties, ElementOfSeq
<1>2. D[0] = 0 /\ \A i \in 1..Len(list) : D[i] = D[i-1] + dl[list[i]]
  BY <1>1, DueSums
<1> HIDE DEF D
<1>3. 0 \in S
  BY <1>2
<1>4. ASSUME NEW n \in Nat, n \in S PROVE n + 1 \in S
  <2> SUFFICES ASSUME n + 1 <= Len(list)
               PROVE  D[n+1] \in Nat /\ \A i \in 0..(n+1) : D[i] \in Nat /\ D[i] <= D[n+1]
    OBVIOUS
  <2>1. n + 1 \in 1..Len(list) /\ (n + 1) - 1 = n
    OBVIOUS
  <2>2. D[n] \in Nat /\ \A i \in 0..n : D[i] \in Nat /\ D[i] <= D[n]
    BY <1>1, <1>4
  <2>3. D[n+1] = D[n] + dl[list[n+1]] /\ dl[list[n+1]] \in Nat
    BY <1>1, <1>2, <2>1
  <2>4. D[n+1] \in Nat /\ D[n] <= D[n+1]
    BY <2>2, <2>3
  <2>5. \A i \in 0..(n+1) : i \in 0..n \/ i = n + 1
    OBVIOUS
  <2> QED  BY <2>2, <2>4, <2>5
<1>5. \A n \in Nat : n \in S
  <2> HIDE DEF S
  <2> QED  BY <1>3, <1>4, Induction
<1>6. \A i \in 0..Len(list) : D[i] \in Nat
  BY <1>1, <1>5
<1>7. ASSUME NEW i \in 0..Len(list), NEW j \in 0..Len(list), i <= j
      PROVE  D[i] <= D[j]
  <2>1. i \in 0..j /\ j \in Nat /\ j <= Len(list)
    BY <1>1, <1>7
  <2>2. j \in S
    BY <1>5, <2>1
  <2> QED  BY <2>1, <2>2
<1> QED  BY <1>6, <1>7 DEF D

-----------------------------------------------------------------------------
\* The ticks each thread's timer has left, as Deadlines counts them.
Lefts(list, dl) == [u \in Threads |-> IF In(list, u) THEN Due(list, dl)[At(list, u)] ELSE -1]

LEMMA LeftByPlace ==
  ASSUME NEW list, List(list), NEW dl
  PROVE  /\ \A i \in 1..Len(list) : /\ At(list, list[i]) = i
                                    /\ Lefts(list, dl)[list[i]] = Due(list, dl)[i]
         /\ \A u \in Threads : ~In(list, u) => Lefts(list, dl)[u] = -1
<1>1. \A i \in 1..Len(list) : list[i] \in Threads
  BY ListFacts
<1>2. ASSUME NEW i \in 1..Len(list)
      PROVE  At(list, list[i]) = i /\ Lefts(list, dl)[list[i]] = Due(list, dl)[i]
  <2>1. In(list, list[i])
    BY DEF In
  <2>2. At(list, list[i]) = i
    <3>1. \A j \in 1..Len(list) : list[j] = list[i] => j = i
      BY DEF List, Distinct
    <3> QED  BY <3>1 DEF At
  <2> QED  BY <1>1, <2>1, <2>2 DEF Lefts
<1>3. \A u \in Threads : ~In(list, u) => Lefts(list, dl)[u] = -1
  BY DEF Lefts
<1> QED  BY <1>2, <1>3

\* The first timer has its own delta left, and no other has less.
LEMMA LeftOfFirst ==
  ASSUME NEW list, List(list), NEW dl \in [Threads -> Nat]
  PROVE  /\ Lefts(list, dl) \in [Threads -> Nat \cup {-1}]
         /\ \A u \in Threads : In(list, u) <=> Lefts(list, dl)[u] # -1
         /\ list # <<>> =>
              /\ Head(list) \in Threads /\ Head(list) = list[1] /\ 1 \in 1..Len(list)
              /\ Lefts(list, dl)[Head(list)] = dl[Head(list)]
              /\ \A u \in Threads : In(list, u) => Lefts(list, dl)[u] >= dl[Head(list)]
<1> DEFINE D == Due(list, dl)
           L == Lefts(list, dl)
<1>1. list \in Seq(Threads) /\ Len(list) \in Nat /\ \A i \in 1..Len(list) : list[i] \in Threads
  BY ListFacts DEF List
<1>2. /\ \A i \in 0..Len(list) : D[i] \in Nat
      /\ \A i, j \in 0..Len(list) : i <= j => D[i] <= D[j]
  BY <1>1, DueGrows
<1>3. D[0] = 0 /\ \A i \in 1..Len(list) : D[i] = D[i-1] + dl[list[i]]
  BY <1>1, DueSums
<1>4. /\ \A i \in 1..Len(list) : L[list[i]] = D[i]
      /\ \A u \in Threads : ~In(list, u) => L[u] = -1
  BY LeftByPlace
<1>5. L = [u \in Threads |-> L[u]]
  BY DEF Lefts
<1> HIDE DEF D, L
<1>6. \A u \in Threads : In(list, u) => \E i \in 1..Len(list) : list[i] = u
  BY DEF In
<1>7. \A u \in Threads : In(list, u) => L[u] \in Nat
  BY <1>1, <1>2, <1>4, <1>6
<1>8. L \in [Threads -> Nat \cup {-1}] /\ \A u \in Threads : In(list, u) <=> L[u] # -1
  <2>1. \A u \in Threads : L[u] \in Nat \cup {-1} /\ (In(list, u) <=> L[u] # -1)
    BY <1>4, <1>7
  <2> QED  BY <1>5, <2>1
<1>9. ASSUME list # <<>>
      PROVE  /\ Head(list) \in Threads /\ Head(list) = list[1] /\ 1 \in 1..Len(list)
             /\ L[Head(list)] = dl[Head(list)]
             /\ \A u \in Threads : In(list, u) => L[u] >= dl[Head(list)]
  <2>1. Head(list) = list[1] /\ Len(list) \in Nat \ {0}
    BY <1>1, <1>9, EmptySeq
  <2>2. 1 \in 1..Len(list) /\ 1 \in 0..Len(list)
    BY <2>1
  <2>3. D[1] = dl[list[1]] /\ dl[list[1]] \in Nat
    BY <1>1, <1>3, <2>2
  <2>4. \A i \in 1..Len(list) : D[i] >= D[1]
    BY <1>1, <1>2, <2>2
  <2> QED  BY <1>1, <1>4, <1>6, <2>1, <2>2, <2>3, <2>4
<1> QED  BY <1>8, <1>9 DEF L

\* A timer that leaves the list hands its delta on: the others keep theirs.
HandsOn(list, dl, q, e, k) ==
  /\ Len(q) = Len(list) - 1
  /\ \A i \in 1..Len(q) : q[i] = IF i < k THEN list[i] ELSE list[i+1]
  /\ \A i \in 1..Len(list) : i # k =>
       e[list[i]] = IF i = k + 1 THEN dl[list[i]] + dl[list[k]] ELSE dl[list[i]]

LEMMA LeftRemoved ==
  ASSUME NEW list, List(list), NEW dl \in [Threads -> Nat],
         NEW q, List(q), NEW e \in [Threads -> Nat],
         NEW k \in 1..Len(list), HandsOn(list, dl, q, e, k)
  PROVE  Lefts(q, e) = [Lefts(list, dl) EXCEPT ![list[k]] = -1]
<1> DEFINE D == Due(list, dl)
<1>0. /\ Len(q) = Len(list) - 1
      /\ \A i \in 1..Len(q) : q[i] = IF i < k THEN list[i] ELSE list[i+1]
      /\ \A i \in 1..Len(list) : i # k =>
           e[list[i]] = IF i = k + 1 THEN dl[list[i]] + dl[list[k]] ELSE dl[list[i]]
  BY DEF HandsOn
<1>1. /\ list \in Seq(Threads) /\ Len(list) \in Nat /\ Len(q) \in Nat
      /\ \A i \in 1..Len(list) : list[i] \in Threads /\ dl[list[i]] \in Nat
  BY ListFacts DEF List
<1>2. D[0] = 0 /\ \A i \in 1..Len(list) : D[i] = D[i-1] + dl[list[i]]
  BY <1>1, DueSums
<1>3. \A i \in 0..Len(list) : D[i] \in Nat
  BY <1>1, DueGrows
<1> HIDE DEF D
<1>f. PICK f : f = [i \in 0..Len(q) |-> IF i < k THEN D[i] ELSE D[i+1]]
  OBVIOUS
<1>4. f[0] = 0
  BY <1>0, <1>f, <1>1, <1>2
<1>5. ASSUME NEW i \in 1..Len(q) PROVE f[i] = f[i-1] + e[q[i]]
  <2>1. CASE i < k
    <3>1. i \in 1..Len(list) /\ i # k /\ i # k + 1 /\ q[i] = list[i] /\ f[i] = D[i] /\ f[i-1] = D[i-1]
      BY <1>0, <1>f, <1>1, <2>1
    <3>2. e[list[i]] = dl[list[i]]
      BY <1>0, <3>1
    <3> QED  BY <1>2, <3>1, <3>2
  <2>2. CASE i = k
    <3>1. /\ k + 1 \in 1..Len(list) /\ k + 1 # k /\ q[k] = list[k+1]
          /\ f[k] = D[k+1] /\ f[k-1] = D[k-1]
      BY <1>0, <1>f, <1>1, <2>2
    <3>2. e[list[k+1]] = dl[list[k+1]] + dl[list[k]]
      BY <1>0, <3>1
    <3>3. D[k+1] = D[(k+1)-1] + dl[list[k+1]] /\ (k+1)-1 = k /\ D[k] = D[k-1] + dl[list[k]]
      BY <1>2, <3>1
    <3>4. D[k-1] \in Nat /\ dl[list[k]] \in Nat /\ dl[list[k+1]] \in Nat
      BY <1>1, <1>3, <3>1
    <3> QED  BY <2>2, <3>1, <3>2, <3>3, <3>4
  <2>3. CASE i > k
    <3>1. /\ i + 1 \in 1..Len(list) /\ i + 1 # k /\ i + 1 # k + 1 /\ q[i] = list[i+1]
          /\ f[i] = D[i+1] /\ f[i-1] = D[i] /\ (i + 1) - 1 = i
      BY <1>0, <1>f, <1>1, <2>3
    <3>2. e[list[i+1]] = dl[list[i+1]]
      BY <1>0, <3>1
    <3> QED  BY <1>2, <3>1, <3>2
  <2> QED  BY <1>1, <2>1, <2>2, <2>3
<1>6. \A i \in 0..Len(q) : Due(q, e)[i] = f[i]
  <2>1. Sums(f, q, e)
    BY <1>4, <1>5 DEF Sums
  <2>2. IsDue(f, q, e)
    BY <1>1, <2>1, DueUnique
  <2> QED  BY <2>2 DEF IsDue
<1>7. /\ \A i \in 1..Len(list) : Lefts(list, dl)[list[i]] = D[i]
      /\ \A u \in Threads : ~In(list, u) => Lefts(list, dl)[u] = -1
  BY LeftByPlace DEF D
<1>8. /\ \A i \in 1..Len(q) : Lefts(q, e)[q[i]] = Due(q, e)[i]
      /\ \A u \in Threads : ~In(q, u) => Lefts(q, e)[u] = -1
  BY LeftByPlace
<1>9. /\ Lefts(q, e) = [u \in Threads |-> Lefts(q, e)[u]]
      /\ Lefts(list, dl) = [u \in Threads |-> Lefts(list, dl)[u]]
  BY DEF Lefts
<1> DEFINE L == Lefts(list, dl)
           M == Lefts(q, e)
           t == list[k]
<1>10. t \in Threads
  BY <1>1
<1> HIDE DEF L, M
<1>11. ASSUME NEW u \in Threads PROVE M[u] = IF u = t THEN -1 ELSE L[u]
  <2>1. CASE u = t
    <3>1. ~In(q, u)
      <4> SUFFICES ASSUME NEW i \in 1..Len(q), q[i] = u PROVE FALSE
        BY DEF In
      <4>1. CASE i < k
        <5>1. i \in 1..Len(list) /\ list[i] = list[k]
          BY <1>0, <1>1, <2>1, <4>1
        <5> QED  BY <5>1, <4>1 DEF List, Distinct
      <4>2. CASE ~(i < k)
        <5>1. i + 1 \in 1..Len(list) /\ list[i+1] = list[k] /\ i + 1 # k
          BY <1>0, <1>1, <2>1, <4>2
        <5> QED  BY <5>1 DEF List, Distinct
      <4> QED  BY <4>1, <4>2
    <3> QED  BY <1>8, <2>1, <3>1 DEF M
  <2>2. CASE u # t /\ In(list, u)
    <3>1. PICK i \in 1..Len(list) : list[i] = u
      BY <2>2 DEF In
    <3>2. i # k
      BY <2>2, <3>1
    <3>3. CASE i < k
      <4>1. i \in 1..Len(q) /\ i \in 0..Len(q) /\ q[i] = u /\ f[i] = D[i]
        BY <1>0, <1>f, <1>1, <3>1, <3>3
      <4> QED  BY <1>6, <1>7, <1>8, <2>2, <3>1, <4>1 DEF L, M
    <3>4. CASE i > k
      <4>1. /\ i - 1 \in 1..Len(q) /\ i - 1 \in 0..Len(q) /\ (i - 1) + 1 = i /\ ~(i - 1 < k)
        BY <1>0, <1>1, <3>1, <3>4
      <4>2. q[i-1] = u /\ f[i-1] = D[i]
        BY <1>0, <1>f, <3>1, <4>1
      <4> QED  BY <1>6, <1>7, <1>8, <2>2, <3>1, <4>1, <4>2 DEF L, M
    <3> QED  BY <3>2, <3>3, <3>4
  <2>3. CASE u # t /\ ~In(list, u)
    <3>1. ~In(q, u)
      <4> SUFFICES ASSUME NEW i \in 1..Len(q), q[i] = u PROVE FALSE
        BY DEF In
      <4>1. (i < k => i \in 1..Len(list)) /\ i + 1 \in 1..Len(list)
        BY <1>0, <1>1
      <4> QED  BY <1>0, <2>3, <4>1 DEF In
    <3> QED  BY <1>7, <1>8, <2>3, <3>1 DEF L, M
  <2> QED  BY <2>1, <2>2, <2>3
<1> QED  BY <1>9, <1>10, <1>11 DEF L, M

\* A timer put in its place takes its own delta from the one after it.
LEMMA LeftInserted ==
  ASSUME List(timers), delta \in [Threads -> Nat], NEW t \in Threads, ~In(timers, t),
         NEW d \in Nat, NEW k \in Earlier(d)
  PROVE  /\ DeltasWith(k, t, d) \in [Threads -> Nat]
         /\ Lefts(InsertAt(timers, k + 1, t), DeltasWith(k, t, d)) =
              [Lefts(timers, delta) EXCEPT ![t] = d]
<1> DEFINE D == Due(timers, delta)
           q == InsertAt(timers, k + 1, t)
           e == DeltasWith(k, t, d)
           own == d - D[k]
<1>1. /\ timers \in Seq(Threads) /\ Len(timers) \in Nat
      /\ \A i \in 1..Len(timers) : timers[i] \in Threads /\ delta[timers[i]] \in Nat /\ timers[i] # t
  BY ListFacts DEF List, In
<1>2. D[0] = 0 /\ \A i \in 1..Len(timers) : D[i] = D[i-1] + delta[timers[i]]
  BY <1>1, DueSums
<1>3. \A i \in 0..Len(timers) : D[i] \in Nat
  BY <1>1, DueGrows
<1>4. /\ k \in 0..Len(timers)
      /\ \A j \in 1..k : D[j] < d
      /\ k < Len(timers) => D[k+1] >= d
  BY DEF Earlier
<1>5. e = [u \in Threads |-> IF u = t THEN own
                             ELSE IF k < Len(timers) /\ u = timers[k+1] THEN delta[u] - own
                             ELSE delta[u]]
  BY DEF DeltasWith
<1>6. k + 1 \in 1..(Len(timers) + 1)
  BY <1>1, <1>4
<1>7. /\ q \in Seq(Threads) /\ Len(q) = Len(timers) + 1
      /\ \A j \in 1..(Len(timers) + 1) :
           q[j] = IF j < k + 1 THEN timers[j] ELSE IF j = k + 1 THEN t ELSE timers[j-1]
  BY <1>6, InsertedThread
<1>8. List(q)
  BY <1>6, InsertedList DEF Adds
<1> HIDE DEF D, q, e
<1>9. own \in Nat
  <2>1. CASE k = 0
    BY <1>2, <2>1
  <2>2. CASE k # 0
    BY <1>3, <1>4, <2>2
  <2> QED  BY <2>1, <2>2
<1>10. k < Len(timers) =>
         /\ k + 1 \in 1..Len(timers) /\ (k + 1) - 1 = k
         /\ D[k+1] = D[k] + delta[timers[k+1]] /\ delta[timers[k+1]] - own = D[k+1] - d
         /\ delta[timers[k+1]] - own \in Nat
  <2> SUFFICES ASSUME k < Len(timers)
               PROVE  /\ k + 1 \in 1..Len(timers) /\ (k + 1) - 1 = k
                      /\ D[k+1] = D[k] + delta[timers[k+1]]
                      /\ delta[timers[k+1]] - own = D[k+1] - d
                      /\ delta[timers[k+1]] - own \in Nat
    OBVIOUS
  <2>1. k + 1 \in 1..Len(timers) /\ (k + 1) - 1 = k
    BY <1>1, <1>4
  <2>2. D[k+1] = D[k] + delta[timers[k+1]]
    BY <1>2, <2>1
  <2>3. D[k] \in Nat /\ D[k+1] \in Nat /\ delta[timers[k+1]] \in Nat /\ D[k+1] >= d
    BY <1>1, <1>3, <1>4, <2>1
  <2> QED  BY <2>1, <2>2, <2>3
<1> HIDE DEF own
<1>11. e \in [Threads -> Nat]
  <2>1. \A u \in Threads : e[u] \in Nat
    BY <1>5, <1>9, <1>10
  <2> QED  BY <1>5, <2>1
<1>12. /\ e[t] = own
       /\ k < Len(timers) => e[timers[k+1]] = delta[timers[k+1]] - own
       /\ \A i \in 1..Len(timers) : i # k + 1 => e[timers[i]] = delta[timers[i]]
  <2>1. \A i \in 1..Len(timers) : i # k + 1 =>
          ~(k < Len(timers) /\ timers[i] = timers[k+1])
    BY <1>10 DEF List, Distinct
  <2> QED  BY <1>1, <1>5, <1>10, <2>1
<1>f. PICK f : f = [i \in 0..Len(q) |-> IF i <= k THEN D[i] ELSE IF i = k + 1 THEN d ELSE D[i-1]]
  OBVIOUS
<1>13. Sums(f, q, e)
  <2>1. f[0] = 0
    BY <1>f, <1>1, <1>2, <1>4, <1>7
  <2>2. ASSUME NEW i \in 1..Len(q) PROVE f[i] = f[i-1] + e[q[i]]
    <3>1. CASE i < k + 1
      <4>1. i \in 1..Len(timers) /\ q[i] = timers[i] /\ f[i] = D[i] /\ f[i-1] = D[i-1] /\ i # k + 1
        BY <1>f, <1>1, <1>4, <1>7, <3>1
      <4> QED  BY <1>2, <1>12, <4>1
    <3>2. CASE i = k + 1
      <4>1. q[i] = t /\ f[i] = d /\ f[i-1] = D[k]
        BY <1>f, <1>1, <1>4, <1>7, <3>2
      <4>2. D[k] \in Nat
        BY <1>3, <1>4
      <4> QED  BY <1>12, <4>1, <4>2 DEF own
    <3>3. CASE i = k + 2
      <4>1. k < Len(timers) /\ q[i] = timers[k+1] /\ f[i] = D[k+1] /\ f[i-1] = d
        BY <1>f, <1>1, <1>4, <1>7, <3>3
      <4>2. D[k+1] \in Nat
        BY <1>3, <1>10, <4>1
      <4> QED  BY <1>10, <1>12, <4>1, <4>2
    <3>4. CASE i > k + 2
      <4>1. /\ i - 1 \in 1..Len(timers) /\ i - 1 # k + 1 /\ i - 1 \in 0..Len(q)
            /\ i \in 0..Len(q) /\ ~(i < k + 1) /\ i # k + 1 /\ ~(i <= k) /\ ~(i - 1 <= k)
        <5>1. /\ Len(timers) \in Nat /\ Len(q) = Len(timers) + 1
              /\ k \in 0..Len(timers) /\ i \in 1..(Len(timers) + 1)
          BY <1>1, <1>4, <1>7
        <5> QED  BY <5>1, <3>4
      <4>2. q[i] = timers[i-1]
        BY <1>7, <4>1
      <4>3. f[i] = D[i-1] /\ f[i-1] = D[(i-1)-1]
        BY <1>f, <4>1
      <4> QED  BY <1>2, <1>12, <4>1, <4>2, <4>3
    <3> QED  BY <1>4, <1>7, <3>1, <3>2, <3>3, <3>4
  <2> QED  BY <2>1, <2>2 DEF Sums
<1>14. \A i \in 0..Len(q) : Due(q, e)[i] = f[i]
  <2>1. Len(q) \in Nat
    BY <1>1, <1>7
  <2>2. IsDue(f, q, e)
    BY <1>13, <2>1, DueUnique
  <2> QED  BY <2>2 DEF IsDue
<1> DEFINE L == Lefts(timers, delta)
           M == Lefts(q, e)
<1>15. /\ \A i \in 1..Len(timers) : L[timers[i]] = D[i]
       /\ \A u \in Threads : ~In(timers, u) => L[u] = -1
  BY LeftByPlace DEF D
<1>16. /\ \A i \in 1..Len(q) : M[q[i]] = Due(q, e)[i]
       /\ \A u \in Threads : ~In(q, u) => M[u] = -1
  BY <1>8, LeftByPlace
<1>17. L = [u \in Threads |-> L[u]] /\ M = [u \in Threads |-> M[u]]
  BY DEF Lefts
<1>18. \A u \in Threads : In(q, u) <=> In(timers, u) \/ u = t
  BY <1>6, InsertedList DEF Adds, q
<1> HIDE DEF L, M
<1>19. ASSUME NEW u \in Threads PROVE M[u] = IF u = t THEN d ELSE L[u]
  <2>1. CASE u = t
    <3>1. k + 1 \in 1..Len(q) /\ k + 1 \in 0..Len(q) /\ q[k+1] = t /\ f[k+1] = d
      BY <1>f, <1>1, <1>4, <1>7
    <3> QED  BY <1>14, <1>16, <2>1, <3>1
  <2>2. CASE u # t /\ ~In(timers, u)
    BY <1>15, <1>16, <1>18, <2>2
  <2>3. CASE u # t /\ In(timers, u)
    <3>1. PICK i \in 1..Len(timers) : timers[i] = u
      BY <2>3 DEF In
    <3>2. CASE i < k + 1
      <4>1. i \in 1..Len(q) /\ i \in 0..Len(q) /\ q[i] = u /\ f[i] = D[i]
        BY <1>f, <1>1, <1>4, <1>7, <3>1, <3>2
      <4> QED  BY <1>14, <1>15, <1>16, <2>3, <3>1, <4>1
    <3>3. CASE ~(i < k + 1)
      <4>0. k \in Nat /\ Len(timers) \in Nat /\ Len(q) = Len(timers) + 1
        BY <1>1, <1>4, <1>7
      <4>1. i + 1 \in 1..Len(q) /\ i + 1 \in 0..Len(q) /\ (i + 1) - 1 = i /\ i + 1 > k + 1
        BY <3>3, <4>0
      <4>2. q[i+1] = u /\ f[i+1] = D[i]
        BY <1>f, <1>4, <1>7, <3>1, <4>1
      <4> QED  BY <1>14, <1>15, <1>16, <2>3, <3>1, <4>1, <4>2
    <3> QED  BY <3>2, <3>3
  <2> QED  BY <2>1, <2>2, <2>3
<1>20. M = [L EXCEPT ![t] = d]
  BY <1>17, <1>19
<1> QED  BY <1>11, <1>20 DEF L, M, q, e

\* A thread that is switched in has no timer any more.
LEMMA LeftWithout ==
  ASSUME NEW list, List(list), NEW dl \in [Threads -> Nat], NEW t \in Threads
  PROVE  /\ DeltasWithout(list, dl, t) \in [Threads -> Nat]
         /\ Lefts(Without(list, t), DeltasWithout(list, dl, t)) = [Lefts(list, dl) EXCEPT ![t] = -1]
<1> DEFINE e == DeltasWithout(list, dl, t)
           q == Without(list, t)
           k == At(list, t)
<1>1. /\ list \in Seq(Threads) /\ Len(list) \in Nat
      /\ \A i \in 1..Len(list) : list[i] \in Threads
  BY ListFacts DEF List
<1>2. e = [u \in Threads |-> IF u = t THEN 0
                             ELSE IF In(list, t) /\ k < Len(list)
                                     /\ u = list[k+1] THEN dl[u] + dl[t]
                             ELSE dl[u]]
  BY DEF DeltasWithout
<1>3. List(q)
  BY WithoutDrops DEF Drops
<1>q. q = IF In(list, t) THEN RemoveAt(list, k) ELSE list
  BY DEF Without
<1>4. e \in [Threads -> Nat]
  <2> HIDE DEF e
  <2>1. \A u \in Threads : e[u] \in Nat
    BY <1>2
  <2> QED  BY <1>2, <2>1
<1>5. CASE In(list, t)
  <2>1. k \in 1..Len(list) /\ list[k] = t
    BY <1>5 DEF At, In
  <2> HIDE DEF k, e, q
  <2>2. q = RemoveAt(list, k)
    BY <1>5, <1>q
  <2>3. Len(q) = Len(list) - 1 /\ \A i \in 1..Len(q) : q[i] = IF i < k THEN list[i] ELSE list[i+1]
    BY <1>1, <2>1, <2>2, Removal
  <2>4. \A i \in 1..Len(list) : i # k =>
          e[list[i]] = IF i = k + 1 THEN dl[list[i]] + dl[list[k]] ELSE dl[list[i]]
    <3> SUFFICES ASSUME NEW i \in 1..Len(list), i # k
                 PROVE  e[list[i]] = IF i = k + 1 THEN dl[list[i]] + dl[list[k]] ELSE dl[list[i]]
      OBVIOUS
    <3>1. list[i] # t /\ list[i] \in Threads
      BY <1>1, <2>1 DEF List, Distinct
    <3>2. i = k + 1 <=> k < Len(list) /\ list[i] = list[k+1]
      <4>1. k < Len(list) => k + 1 \in 1..Len(list)
        BY <1>1, <2>1
      <4> QED  BY <1>1, <2>1, <4>1 DEF List, Distinct
    <3> QED  BY <1>2, <1>5, <2>1, <3>1, <3>2
  <2>5. HandsOn(list, dl, q, e, k)
    BY <2>3, <2>4 DEF HandsOn
  <2>6. Lefts(q, e) = [Lefts(list, dl) EXCEPT ![list[k]] = -1]
    BY <1>3, <1>4, <2>1, <2>5, LeftRemoved
  <2> QED  BY <1>4, <2>1, <2>6 DEF e, q
<1>6. CASE ~In(list, t)
  <2> HIDE DEF e, q
  <2>1. q = list
    BY <1>6, <1>q
  <2>2. Sums(Due(list, dl), list, e)
    <3>1. \A i \in 1..Len(list) : list[i] # t /\ e[list[i]] = dl[list[i]]
      BY <1>1, <1>2, <1>6 DEF In
    <3>2. /\ Due(list, dl)[0] = 0
          /\ \A i \in 1..Len(list) : Due(list, dl)[i] = Due(list, dl)[i-1] + dl[list[i]]
      BY <1>1, DueSums
    <3> QED  BY <3>1, <3>2 DEF Sums
  <2>3. IsDue(Due(list, dl), list, e)
    BY <1>1, <2>2, DueUnique
  <2>4. \A u \in Threads : In(list, u) => Due(list, e)[At(list, u)] = Due(list, dl)[At(list, u)]
    <3> SUFFICES ASSUME NEW u \in Threads, In(list, u)
                 PROVE  Due(list, e)[At(list, u)] = Due(list, dl)[At(list, u)]
      OBVIOUS
    <3>1. At(list, u) \in 1..Len(list)
      BY DEF At, In
    <3>2. At(list, u) \in 0..Len(list)
      BY <1>1, <3>1
    <3> QED  BY <2>3, <3>2 DEF IsDue
  <2>5. Lefts(list, e) = Lefts(list, dl)
    BY <2>4 DEF Lefts
  <2>6. Lefts(list, dl) = [Lefts(list, dl) EXCEPT ![t] = -1]
    BY <1>6 DEF Lefts
  <2> QED  BY <1>4, <2>1, <2>5, <2>6 DEF e, q
<1> QED  BY <1>5, <1>6

LEMMA LeftSwitched ==
  ASSUME NEW list, List(list), NEW dl \in [Threads -> Nat], NEW t \in Threads,
         NEW r, NEW st, SwitchTo(t, r, st, list, dl)
  PROVE  /\ delta' \in [Threads -> Nat]
         /\ Lefts(timers', delta') = [Lefts(list, dl) EXCEPT ![t] = -1]
BY LeftWithout DEF SwitchTo

-----------------------------------------------------------------------------
\* What each call and interrupt does to the ticks that are left.
Left == Lefts(timers, delta)

\* The deltas are numbers, and outside the timer interrupt no armed timer has
\* used up its ticks: so no delta can fall below 0 in a tick.
TimersInv ==
  /\ delta \in [Threads -> Nat]
  /\ ~ticking => \A u \in Threads : Left[u] # 0

\* At most one timer is disarmed, and nothing else happens to them.
DisarmsOne == Left' = Left \/ \E t \in Threads : Left' = [Left EXCEPT ![t] = -1]

LEMMA LeftKept ==
  ASSUME IInv, TimersInv
  PROVE  /\ List(timers) /\ delta \in [Threads -> Nat]
         /\ Left \in [Threads -> Nat \cup {-1}]
         /\ \A u \in Threads : In(timers, u) <=> Left[u] # -1
<1>1. List(timers) /\ delta \in [Threads -> Nat]
  BY DEF IInv, Consistent, TimersInv
<1> QED  BY <1>1, LeftOfFirst DEF Left

\* None has used up its ticks if the first has not.
LEMMA FirstHasLeft ==
  ASSUME IInv, TimersInv
  PROVE  (timers # <<>> => delta[Head(timers)] # 0) <=> \A u \in Threads : Left[u] # 0
<1>1. /\ List(timers) /\ delta \in [Threads -> Nat]
      /\ Left \in [Threads -> Nat \cup {-1}]
      /\ \A u \in Threads : In(timers, u) <=> Left[u] # -1
  BY LeftKept
<1>2. CASE timers = <<>>
  <2>1. \A u \in Threads : ~In(timers, u)
    BY <1>2 DEF In
  <2> QED  BY <1>1, <1>2, <2>1
<1>3. CASE timers # <<>>
  <2>1. /\ Head(timers) \in Threads
        /\ Left[Head(timers)] = delta[Head(timers)]
        /\ \A u \in Threads : In(timers, u) => Left[u] >= delta[Head(timers)]
    BY <1>1, <1>3, LeftOfFirst DEF Left
  <2>2. delta[Head(timers)] \in Nat
    BY <1>1, <2>1
  <2>3. ASSUME delta[Head(timers)] # 0, NEW u \in Threads PROVE Left[u] # 0
    <3>1. CASE In(timers, u)
      <4>1. Left[u] >= delta[Head(timers)] /\ Left[u] \in Nat
        BY <1>1, <2>1, <3>1
      <4> QED  BY <2>2, <2>3, <4>1
    <3>2. CASE ~In(timers, u)
      BY <1>1, <3>2
    <3> QED  BY <3>1, <3>2
  <2> QED  BY <1>3, <2>1, <2>3
<1> QED  BY <1>2, <1>3

LEMMA RescheduleDisarms ==
  ASSUME List(timers), delta \in [Threads -> Nat], NEW r, List(r), Sorted(r), NEW st,
         Reschedule(r, st)
  PROVE  delta' \in [Threads -> Nat] /\ DisarmsOne
<1>1. CASE ~Preempts(r)
  <2>1. timers' = timers /\ delta' = delta
    BY <1>1 DEF Reschedule
  <2> QED  BY <2>1 DEF DisarmsOne, Left
<1>2. CASE Preempts(r)
  <2>1. PICK q \in AheadOfEquals(Tail(r), current) :
          SwitchTo(Head(r), q, [st EXCEPT ![current] = "ready"], timers, delta)
    BY <1>2 DEF Reschedule
  <2>2. Head(r) \in Threads
    BY <1>2, FirstOut DEF Preempts
  <2>3. /\ delta' \in [Threads -> Nat]
        /\ Lefts(timers', delta') = [Lefts(timers, delta) EXCEPT ![Head(r)] = -1]
    BY <2>1, <2>2, LeftSwitched
  <2> QED  BY <2>2, <2>3 DEF DisarmsOne, Left
<1> QED  BY <1>1, <1>2

\* A call that disarms one timer at most keeps the invariant.
LEMMA DisarmKeeps ==
  ASSUME IInv, TimersInv, delta' \in [Threads -> Nat], DisarmsOne,
         ~ticking' => \A u \in Threads : Left[u] # 0
  PROVE  TimersInv'
<1>1. Left \in [Threads -> Nat \cup {-1}]
  BY LeftKept
<1>2. ASSUME ~ticking', NEW u \in Threads PROVE Left'[u] # 0
  <2>1. CASE Left' = Left
    BY <1>2, <2>1
  <2>2. CASE Left' # Left
    <3>1. PICK t \in Threads : Left' = [Left EXCEPT ![t] = -1]
      BY <2>2 DEF DisarmsOne
    <3>2. Left'[u] = IF u = t THEN -1 ELSE Left[u]
      BY <1>1, <3>1
    <3> QED  BY <1>2, <3>2
  <2> QED  BY <2>1, <2>2
<1> QED  BY <1>2 DEF TimersInv

\* The first ready thread is there, and it is not the one that goes to sleep.
LEMMA NextReady ==
  ASSUME IInv, current # Idle
  PROVE  Head(ready) \in Threads /\ Head(ready) # current
<1>1. /\ current \in Threads /\ List(ready) /\ Sorted(ready)
      /\ \A t \in Threads : state[t] = "current" <=> t = current
      /\ \A t \in Threads : state[t] = "ready" <=> In(ready, t)
      /\ state[Idle] \in {"current", "ready"} /\ Idle \in Threads
  BY KernelAssumption DEF IInv, Consistent
<1>2. In(ready, Idle) /\ ~In(ready, current)
  BY <1>1
<1>3. ready # <<>>
  <2>1. 1..Len(<<>>) = {}
    OBVIOUS
  <2> QED  BY <1>2, <2>1 DEF In
<1>4. Head(ready) \in Threads /\ In(ready, Head(ready))
  BY <1>1, <1>3, FirstOut
<1> QED  BY <1>2, <1>4

LEMMA GoSleepDisarms ==
  ASSUME IInv, TimersInv, NEW wait \in Waits, GoSleep(wait)
  PROVE  TimersInv' /\ DisarmsOne
<1>1. List(timers) /\ delta \in [Threads -> Nat]
  BY LeftKept
<1>2. Head(ready) \in Threads
  BY NextReady DEF GoSleep
<1>3. SwitchTo(Head(ready), Tail(ready), [state EXCEPT ![current] = wait], timers, delta)
  BY DEF GoSleep
<1>4. delta' \in [Threads -> Nat] /\ Left' = [Left EXCEPT ![Head(ready)] = -1]
  BY <1>1, <1>2, <1>3, LeftSwitched DEF Left
<1>5. DisarmsOne
  BY <1>2, <1>4 DEF DisarmsOne
<1> QED  BY <1>4, <1>5, DisarmKeeps DEF TimersInv, GoSleep

\* A sleep with a timeout arms the timer of the one, and disarms the other's.
LEMMA GoSleepTimeoutArms ==
  ASSUME IInv, TimersInv, NEW wait \in Waits, NEW ticks \in Nat \ {0},
         GoSleepTimeout(wait, ticks)
  PROVE  /\ TimersInv'
         /\ current \in Threads /\ Left[current] = -1
         /\ \E u \in Threads \ {current} : Left' = [Left EXCEPT ![current] = ticks, ![u] = -1]
<1> DEFINE h == Head(ready)
<1>1. PICK k \in Earlier(ticks) :
        SwitchTo(h, Tail(ready), [state EXCEPT ![current] = wait],
                 InsertAt(timers, k + 1, current), DeltasWith(k, current, ticks))
  BY DEF GoSleepTimeout
<1>2. /\ List(timers) /\ delta \in [Threads -> Nat]
      /\ Left \in [Threads -> Nat \cup {-1}]
      /\ \A u \in Threads : In(timers, u) <=> Left[u] # -1
  BY LeftKept
<1>3. current \in Threads /\ ~In(timers, current)
  BY DEF IInv, Consistent, Waits
<1>4. h \in Threads /\ h # current
  BY NextReady DEF GoSleepTimeout
<1> HIDE DEF h
<1> DEFINE list == InsertAt(timers, k + 1, current)
           dl == DeltasWith(k, current, ticks)
<1>5. dl \in [Threads -> Nat] /\ Lefts(list, dl) = [Left EXCEPT ![current] = ticks]
  BY <1>2, <1>3, LeftInserted DEF Left
<1>6. List(list)
  <2>1. Len(timers) \in Nat /\ k \in 0..Len(timers)
    BY <1>2, ListFacts DEF Earlier
  <2>2. k + 1 \in 1..(Len(timers) + 1)
    BY <2>1
  <2> QED  BY <1>2, <1>3, <2>2, InsertedList DEF Adds
<1>7. SwitchTo(h, Tail(ready), [state EXCEPT ![current] = wait], list, dl)
  BY <1>1
<1> HIDE DEF list, dl
<1>8. delta' \in [Threads -> Nat] /\ Left' = [Lefts(list, dl) EXCEPT ![h] = -1]
  BY <1>4, <1>5, <1>6, <1>7, LeftSwitched DEF Left
<1>9. Left' = [Left EXCEPT ![current] = ticks, ![h] = -1]
  BY <1>5, <1>8
<1>10. TimersInv'
  <2>1. ~ticking /\ ticking' = ticking
    BY DEF GoSleepTimeout
  <2>2. \A u \in Threads : Left'[u] = IF u = h THEN -1 ELSE IF u = current THEN ticks ELSE Left[u]
    BY <1>2, <1>9
  <2>3. \A u \in Threads : Left'[u] # 0
    BY <2>1, <2>2 DEF TimersInv
  <2> QED  BY <1>8, <2>3 DEF TimersInv
<1>11. h \in Threads \ {current}
  BY <1>4
<1>12. Left[current] = -1
  BY <1>2, <1>3
<1> QED  BY <1>3, <1>9, <1>10, <1>11, <1>12

LEMMA CreateDisarms ==
  ASSUME IInv, TimersInv, NEW t \in Threads, Create(t)
  PROVE  TimersInv' /\ DisarmsOne
<1>1. List(timers) /\ delta \in [Threads -> Nat]
  BY LeftKept
<1>2. delta' \in [Threads -> Nat] /\ DisarmsOne
  <2>1. CASE UNCHANGED <<current, timers, delta>>
    BY <1>1, <2>1 DEF DisarmsOne, Left
  <2>2. CASE \E r \in BehindEquals(ready, current) :
               SwitchTo(t, r, [state EXCEPT ![current] = "ready"], timers, delta)
    <3>1. delta' \in [Threads -> Nat] /\ Left' = [Left EXCEPT ![t] = -1]
      BY <1>1, <2>2, LeftSwitched DEF Left
    <3> QED  BY <3>1 DEF DisarmsOne
  <2> QED  BY <2>1, <2>2 DEF Create
<1> QED  BY <1>2, DisarmKeeps DEF TimersInv, Create

LEMMA AwakenDisarms ==
  ASSUME IInv, TimersInv, NEW t \in Threads, Awaken(t)
  PROVE  TimersInv' /\ DisarmsOne
<1>1. List(timers) /\ delta \in [Threads -> Nat]
  BY LeftKept
<1>2. PICK r \in BehindEquals(ready, t) : Reschedule(r, [state EXCEPT ![t] = "ready"])
  BY DEF Awaken
<1>3. Consistent(current, r, [state EXCEPT ![t] = "ready"], timers)
  <2>1. state[t] \notin {"current", "ready"}
    BY DEF Awaken, Waits
  <2> QED  BY <1>1, <2>1, ReadyConsistent
<1>4. List(r) /\ Sorted(r)
  BY <1>3 DEF Consistent
<1>5. delta' \in [Threads -> Nat] /\ DisarmsOne
  BY <1>1, <1>2, <1>4, RescheduleDisarms
<1> QED  BY <1>5, DisarmKeeps DEF TimersInv, Awaken

LEMMA TickEndDisarms ==
  ASSUME IInv, TimersInv, TickEnd
  PROVE  TimersInv' /\ DisarmsOne
<1>1. List(timers) /\ delta \in [Threads -> Nat]
  BY LeftKept
<1>2. List(ready) /\ Sorted(ready) /\ Reschedule(ready, state)
  BY DEF IInv, Consistent, TickEnd
<1>3. delta' \in [Threads -> Nat] /\ DisarmsOne
  BY <1>1, <1>2, RescheduleDisarms
<1>4. \A u \in Threads : Left[u] # 0
  BY FirstHasLeft DEF TickEnd
<1> QED  BY <1>3, <1>4, DisarmKeeps

\* A tick takes one from the first delta, and so one from every armed timer.
LEMMA TickCounts ==
  ASSUME IInv, TimersInv, Tick
  PROVE  /\ TimersInv'
         /\ \A u \in Threads : Left[u] # 0
         /\ Left' = [u \in Threads |-> IF Left[u] # -1 THEN Left[u] - 1 ELSE -1]
<1>1. /\ List(timers) /\ delta \in [Threads -> Nat]
      /\ Left \in [Threads -> Nat \cup {-1}]
      /\ \A u \in Threads : In(timers, u) <=> Left[u] # -1
  BY LeftKept
<1>2. \A u \in Threads : Left[u] # 0
  BY DEF Tick, TimersInv
<1>3. /\ timers' = timers /\ ticking' = TRUE
      /\ delta' = [t \in Threads |-> IF timers # <<>> /\ t = Head(timers) THEN delta[t] - 1
                                     ELSE delta[t]]
  BY DEF Tick
<1>4. timers # <<>> => delta[Head(timers)] # 0 /\ delta[Head(timers)] \in Nat
  BY <1>1, <1>2, FirstHasLeft, LeftOfFirst
<1>5. delta' \in [Threads -> Nat]
  <2>1. \A t \in Threads : delta'[t] \in Nat
    BY <1>1, <1>3, <1>4
  <2> QED  BY <1>3, <2>1
<1> DEFINE D == Due(timers, delta)
<1>6. Len(timers) \in Nat /\ timers \in Seq(Threads) /\ \A i \in 1..Len(timers) : timers[i] \in Threads
  BY <1>1, ListFacts DEF List
<1>7. D[0] = 0 /\ \A i \in 1..Len(timers) : D[i] = D[i-1] + delta[timers[i]]
  BY <1>6, DueSums
<1>8. \A i \in 0..Len(timers) : D[i] \in Nat
  BY <1>1, <1>6, DueGrows
<1>9. \A i \in 1..Len(timers) : delta[timers[i]] \in Nat
  BY <1>1, <1>6
<1> HIDE DEF D
<1>f. PICK f : f = [i \in 0..Len(timers) |-> IF i = 0 THEN 0 ELSE D[i] - 1]
  OBVIOUS
<1>10. Sums(f, timers, delta')
  <2>1. f[0] = 0
    BY <1>f, <1>6
  <2>2. ASSUME NEW i \in 1..Len(timers) PROVE f[i] = f[i-1] + delta'[timers[i]]
    <3>1. timers # <<>>
      BY <2>2, <1>6, EmptySeq
    <3>2. Head(timers) = timers[1] /\ 1 \in 1..Len(timers)
      BY <1>1, <3>1, LeftOfFirst
    <3>3. CASE i = 1
      <4>1. f[1] = D[1] - 1 /\ f[1-1] = 0 /\ D[1] = 0 + delta[timers[1]]
        BY <1>f, <1>6, <1>7, <3>2, 1 - 1 = 0
      <4>2. delta'[timers[1]] = delta[timers[1]] - 1
        BY <1>3, <1>6, <3>1, <3>2
      <4>3. delta[timers[1]] \in Nat
        BY <1>9, <3>2
      <4> QED  BY <3>3, <4>1, <4>2, <4>3
    <3>4. CASE i # 1
      <4>1. i - 1 \in 1..Len(timers) /\ f[i] = D[i] - 1 /\ f[i-1] = D[i-1] - 1
        BY <1>f, <1>6, <3>4
      <4>2. timers[i] # timers[1]
        BY <1>1, <3>2, <3>4 DEF List, Distinct
      <4>3. delta'[timers[i]] = delta[timers[i]]
        BY <1>3, <1>6, <3>2, <4>2
      <4>4. D[i-1] \in Nat /\ D[i] = D[i-1] + delta[timers[i]] /\ delta[timers[i]] \in Nat
        BY <1>6, <1>7, <1>8, <1>9, <4>1
      <4> QED  BY <4>1, <4>3, <4>4
    <3> QED  BY <3>3, <3>4
  <2> QED  BY <2>1, <2>2 DEF Sums
<1>11. IsDue(f, timers, delta')
  BY <1>6, <1>10, DueUnique
<1>12. /\ \A i \in 1..Len(timers) : Left[timers[i]] = D[i]
       /\ \A u \in Threads : ~In(timers, u) => Left[u] = -1
  BY <1>1, LeftByPlace DEF Left, D
<1>13. /\ \A i \in 1..Len(timers) : Left'[timers[i]] = Due(timers, delta')[i]
       /\ \A u \in Threads : ~In(timers, u) => Left'[u] = -1
  BY <1>1, <1>3, LeftByPlace DEF Left
<1>14. Left' = [u \in Threads |-> Left'[u]]
  BY DEF Left, Lefts
<1>15. ASSUME NEW u \in Threads
       PROVE  Left'[u] = IF Left[u] # -1 THEN Left[u] - 1 ELSE -1
  <2>1. CASE ~In(timers, u)
    BY <1>1, <1>13, <2>1
  <2>2. CASE In(timers, u)
    <3>1. PICK i \in 1..Len(timers) : timers[i] = u
      BY <2>2 DEF In
    <3>2. i \in 0..Len(timers) /\ f[i] = D[i] - 1
      BY <1>f, <1>6
    <3>3. Due(timers, delta')[i] = f[i]
      BY <1>11, <3>2 DEF IsDue
    <3> QED  BY <1>1, <1>12, <1>13, <2>2, <3>1, <3>2, <3>3
  <2> QED  BY <2>1, <2>2
<1>16. Left' = [u \in Threads |-> IF Left[u] # -1 THEN Left[u] - 1 ELSE -1]
  BY <1>14, <1>15
<1> QED  BY <1>2, <1>3, <1>5, <1>16 DEF TimersInv

\* The first timer goes off with nothing left to hand on.
LEMMA ExpireGoesOff ==
  ASSUME IInv, TimersInv, Expire
  PROVE  /\ TimersInv'
         /\ \E t \in Threads : Left[t] = 0 /\ Left' = [Left EXCEPT ![t] = -1]
<1> DEFINE h == Head(timers)
<1>1. List(timers) /\ delta \in [Threads -> Nat] /\ Left \in [Threads -> Nat \cup {-1}]
  BY LeftKept
<1>2. /\ timers # <<>> /\ delta[h] = 0
      /\ timers' = Tail(timers) /\ delta' = delta /\ ticking' = ticking /\ ticking
  BY DEF Expire
<1>3. h \in Threads /\ h = timers[1] /\ 1 \in 1..Len(timers) /\ Left[h] = 0
  BY <1>1, <1>2, LeftOfFirst DEF Left
<1>4. /\ Len(timers) \in Nat /\ Len(Tail(timers)) = Len(timers) - 1
      /\ \A i \in 1..Len(Tail(timers)) : Tail(timers)[i] = timers[i+1]
  BY <1>1, <1>2, HeadTailProperties, ListFacts DEF List
<1>5. List(Tail(timers))
  <2>1. List(timers')
    BY ExpireStep DEF IInv, Consistent
  <2> QED  BY <1>2, <2>1
<1> HIDE DEF h
<1>6. HandsOn(timers, delta, Tail(timers), delta, 1)
  <2>1. \A i \in 1..Len(Tail(timers)) :
          Tail(timers)[i] = IF i < 1 THEN timers[i] ELSE timers[i+1]
    BY <1>4
  <2>2. \A i \in 1..Len(timers) : i # 1 =>
          delta[timers[i]] = IF i = 1 + 1 THEN delta[timers[i]] + delta[timers[1]]
                             ELSE delta[timers[i]]
    <3>1. \A i \in 1..Len(timers) : delta[timers[i]] \in Nat
      BY <1>1, ListFacts
    <3> QED  BY <1>2, <1>3, <3>1
  <2> QED  BY <1>4, <2>1, <2>2 DEF HandsOn
<1>7. Lefts(Tail(timers), delta) = [Lefts(timers, delta) EXCEPT ![timers[1]] = -1]
  BY <1>1, <1>3, <1>5, <1>6, LeftRemoved
<1>8. Left' = [Left EXCEPT ![h] = -1]
  BY <1>2, <1>3, <1>7 DEF Left
<1>9. TimersInv'
  BY <1>1, <1>2 DEF TimersInv
<1> QED  BY <1>3, <1>8, <1>9

-----------------------------------------------------------------------------
LEMMA TimersStep == IInv /\ TimersInv /\ [KernelNext]_kvars => TimersInv'
<1> SUFFICES ASSUME IInv, TimersInv, [KernelNext]_kvars PROVE TimersInv'
  OBVIOUS
<1>1. CASE \E wait \in Waits : GoSleep(wait)
  BY <1>1, GoSleepDisarms
<1>2. CASE \E wait \in Waits, ticks \in Delays[current] : GoSleepTimeout(wait, ticks)
  <2>1. Delays[current] \subseteq Nat \ {0}
    BY KernelAssumption DEF IInv, Consistent
  <2> QED  BY <1>2, <2>1, GoSleepTimeoutArms
<1>3. CASE \E t \in Threads : Create(t)
  BY <1>3, CreateDisarms
<1>4. CASE \E t \in Threads : Awaken(t)
  BY <1>4, AwakenDisarms
<1>5. CASE Tick
  BY <1>5, TickCounts
<1>6. CASE Expire
  BY <1>6, ExpireGoesOff
<1>7. CASE TickEnd
  BY <1>7, TickEndDisarms
<1>8. CASE UNCHANGED kvars
  BY <1>8 DEF kvars, TimersInv, Left
<1> QED  BY <1>1, <1>2, <1>3, <1>4, <1>5, <1>6, <1>7, <1>8 DEF KernelNext

\* Outside the timer interrupt every armed timer has ticks left, and every
\* delta is a number.
THEOREM TimersInvariance == KernelSpec => []TimersInv
<1>1. KernelInit => TimersInv
  <2> SUFFICES ASSUME KernelInit PROVE TimersInv
    OBVIOUS
  <2>1. timers = <<>> /\ delta = [t \in Threads |-> 0]
    BY DEF KernelInit
  <2>2. \A u \in Threads : ~In(timers, u)
    BY <2>1 DEF In
  <2>3. \A u \in Threads : Left[u] = -1
    BY <2>2 DEF Left, Lefts
  <2> QED  BY <2>1, <2>3 DEF TimersInv
<1> QED  BY <1>1, KernelInvariance, TimersStep, PTL DEF KernelSpec

\* The lists hold threads, the states are those of the kernel, and no delta ever
\* wraps below 0.
THEOREM KernelTypes == KernelSpec => []KernelTypeOK
<1>1. IInv /\ TimersInv => KernelTypeOK
  BY DEF IInv, TimersInv, Consistent, List, KernelTypeOK
<1> QED  BY <1>1, KernelInvariance, TimersInvariance, PTL

\* Each step of the kernel is one of the deadlines, or changes none: a call that
\* switches disarms one, a sleep arms one, and the interrupt counts all down.
LEMMA StepKeepsDeadlines ==
  IInv /\ TimersInv /\ [KernelNext]_kvars =>
    [Promise!Next]_[t \in Threads |-> Deadline(t)]
<1> SUFFICES ASSUME IInv, TimersInv, [KernelNext]_kvars
             PROVE  [Promise!Next]_[t \in Threads |-> Deadline(t)]
  OBVIOUS
<1>0. [t \in Threads |-> Deadline(t)] = Left /\ [t \in Threads |-> Deadline(t)]' = Left'
  BY DEF Left, Lefts, Deadline
<1>d. ASSUME DisarmsOne PROVE [Promise!Next]_[t \in Threads |-> Deadline(t)]
  BY <1>0, <1>d DEF DisarmsOne, Promise!Next, Promise!Disarm, Promise!Off
<1>1. CASE \E wait \in Waits : GoSleep(wait)
  BY <1>1, <1>d, GoSleepDisarms
<1>2. CASE \E wait \in Waits, ticks \in Delays[current] : GoSleepTimeout(wait, ticks)
  <2>1. current \in Threads /\ Delays[current] \subseteq Nat \ {0}
    BY KernelAssumption DEF IInv, Consistent
  <2>2. PICK ticks \in Delays[current] :
          /\ Left[current] = -1
          /\ \E u \in Threads \ {current} : Left' = [Left EXCEPT ![current] = ticks, ![u] = -1]
    BY <1>2, <2>1, GoSleepTimeoutArms
  <2>3. PICK u \in Threads \ {current} : Left' = [Left EXCEPT ![current] = ticks, ![u] = -1]
    BY <2>2
  <2>4. Left \in [Threads -> Nat \cup {-1}]
    BY LeftKept
  <2>5. Left'[current] = ticks /\ Left' = [Left EXCEPT ![u] = -1, ![current] = Left'[current]]
    BY <2>1, <2>3, <2>4
  <2>6. Promise!Arm(current)
    BY <1>0, <2>2, <2>5 DEF Promise!Arm, Promise!Armed, Promise!Off
  <2> QED  BY <2>1, <2>6 DEF Promise!Next
<1>3. CASE \E t \in Threads : Create(t)
  BY <1>3, <1>d, CreateDisarms
<1>4. CASE \E t \in Threads : Awaken(t)
  BY <1>4, <1>d, AwakenDisarms
<1>5. CASE Tick
  <2>1. Promise!Tick
    BY <1>0, <1>5, TickCounts DEF Promise!Tick, Promise!Armed, Promise!Off
  <2> QED  BY <2>1 DEF Promise!Next
<1>6. CASE Expire
  <2>1. \E t \in Threads : Promise!GoOff(t)
    BY <1>0, <1>6, ExpireGoesOff DEF Promise!GoOff, Promise!Off
  <2> QED  BY <2>1 DEF Promise!Next
<1>7. CASE TickEnd
  BY <1>7, <1>d, TickEndDisarms
<1>8. CASE UNCHANGED kvars
  BY <1>8, <1>0 DEF kvars, Left
<1> QED  BY <1>1, <1>2, <1>3, <1>4, <1>5, <1>6, <1>7, <1>8 DEF KernelNext

\* The delta list keeps every deadline, whatever is armed and disarmed around it.
THEOREM TimersImplementDeadlines == KernelSpec => TimersKeepDeadlines
<1>1. KernelInit => Promise!Init
  <2> SUFFICES ASSUME KernelInit PROVE Promise!Init
    OBVIOUS
  <2>1. \A u \in Threads : ~In(timers, u)
    BY DEF KernelInit, In
  <2> QED  BY <2>1 DEF Promise!Init, Promise!Off, Deadline
<1> QED  BY <1>1, KernelInvariance, TimersInvariance, StepKeepsDeadlines, PTL
         DEF KernelSpec, TimersKeepDeadlines, Promise!Spec

-----------------------------------------------------------------------------
\* The I2C driver.

\* How far the transfer is in each state of the hardware.
BeforeWriting == txidx = 0 /\ taken = 0 /\ rxidx = 0
AllWritten == txidx = op.tx /\ taken = op.tx /\ op.rx > 0
Phases ==
  /\ twi = "start" => BeforeWriting \/ (AllWritten /\ rxidx = 0)
  /\ twi = "sla_w" => BeforeWriting
  /\ twi = "write" => txidx >= 1 /\ taken = txidx - 1 /\ rxidx = 0
  /\ twi = "sla_r" => AllWritten /\ rxidx = 0
  /\ twi = "read" => AllWritten /\ rxidx < op.rx - 1
  /\ twi = "read_last" => AllWritten /\ rxidx = op.rx - 1

\* The buffer holds what was read, also when the transfer has ended.
Buffer == twi # "off" => rxbuf = 0..(rxidx - 1)
Done ==
  driver = "ACTIVE_TX" /\ twi = "off" /\ msg = "OK" => taken = op.tx /\ rxbuf = 0..(op.rx - 1)

\* The invariant of the driver: its types, who waits, and how far it is.
BusInv == BusTypeOK /\ BusyIffWaited /\ Phases /\ Buffer /\ Done

Progress == Phases /\ Buffer /\ Done

\* The types, apart: numbers, names and truth values.
Counts ==
  /\ op.tx \in Nat \ {0} /\ op.rx \in 0..MaxRead
  /\ txidx \in 0..op.tx /\ rxidx \in 0..op.rx
  /\ taken \in Nat
  /\ rxbuf \subseteq 0..(MaxRead - 1)
Names ==
  /\ driver \in {"READY", "ACTIVE_TX"}
  /\ errors \subseteq Flags
  /\ msg \in {"OK", "RESET"}
  /\ twi \in {"off", "start", "sla_w", "write", "sla_r", "read", "read_last"}
Truths == waiting \in BOOLEAN /\ locked \in BOOLEAN /\ dead \in BOOLEAN

LEMMA Parts == BusInv <=> Counts /\ Names /\ Truths /\ BusyIffWaited /\ Progress
BY Zenon DEF BusInv, BusTypeOK, Counts, Names, Truths, Progress

-----------------------------------------------------------------------------
\* The call, its return, and a device that dies.
LEMMA TransmitStep ==
  ASSUME BusInv, NEW o \in Transfers, Transmit(o)
  PROVE  BusInv'
<1>1. o.tx \in Nat \ {0} /\ o.rx \in 0..MaxRead /\ MaxRead \in Nat
  BY TransfersAssumption
<1>2. Counts /\ Names /\ Truths
  BY Parts
<1>3. Counts'
  BY <1>1 DEF Counts, Transmit
<1>4. Names'
  BY <1>2 DEF Names, Transmit, Flags
<1>5. Truths' /\ BusyIffWaited'
  BY <1>2 DEF Truths, BusyIffWaited, Transmit
<1>6. Progress'
  <2>1. /\ twi' = "start" /\ driver' = "ACTIVE_TX"
        /\ txidx' = 0 /\ rxidx' = 0 /\ taken' = 0 /\ rxbuf' = {}
    BY DEF Transmit
  <2>2. Phases' /\ Done'
    BY <2>1 DEF Phases, Done, BeforeWriting
  <2>3. Buffer'
    BY <2>1 DEF Buffer
  <2> QED  BY <2>2, <2>3 DEF Progress
<1> QED  BY <1>3, <1>4, <1>5, <1>6, Parts, PTL

LEMMA FinishStep ==
  ASSUME BusInv, Finish
  PROVE  BusInv'
<1>1. Counts /\ Names /\ Truths /\ BusyIffWaited /\ Progress
  BY Parts
<1>2. Counts'
  BY <1>1 DEF Counts, Finish
<1>3. Names'
  BY <1>1 DEF Names, Finish
<1>4. Truths' /\ BusyIffWaited'
  BY <1>1 DEF Truths, BusyIffWaited, Finish
<1>5. Progress'
  BY <1>1 DEF Progress, Phases, Buffer, Done, BeforeWriting, AllWritten, Finish
<1> QED  BY <1>2, <1>3, <1>4, <1>5, Parts, PTL

LEMMA DieStep ==
  ASSUME BusInv, Die
  PROVE  BusInv'
<1>1. Counts /\ Names /\ Truths /\ BusyIffWaited /\ Progress
  BY Parts
<1>2. Counts'
  BY <1>1 DEF Counts, Die
<1>3. Names'
  BY <1>1 DEF Names, Die
<1>4. Truths' /\ BusyIffWaited'
  BY <1>1 DEF Truths, BusyIffWaited, Die
<1>5. Progress'
  BY <1>1 DEF Progress, Phases, Buffer, Done, BeforeWriting, AllWritten, Die
<1> QED  BY <1>2, <1>3, <1>4, <1>5, Parts, PTL

\* The numbers of a transfer, for the steps of the interrupt.
LEMMA Numbers ==
  ASSUME Counts
  PROVE  /\ op.tx \in Nat /\ op.tx >= 1 /\ op.rx \in Nat /\ op.rx <= MaxRead
         /\ MaxRead \in Nat
         /\ txidx \in Nat /\ txidx <= op.tx
         /\ rxidx \in Nat /\ rxidx <= op.rx
         /\ taken \in Nat
BY TransfersAssumption DEF Counts

-----------------------------------------------------------------------------
\* The cases of the interrupt.
LEMMA StartSentStep ==
  ASSUME BusInv, StartSent
  PROVE  BusInv'
<1>1. Counts /\ Names /\ Truths /\ BusyIffWaited /\ Progress
  BY Parts
<1>2. /\ twi = "start" /\ twi' = IF txidx = op.tx THEN "sla_r" ELSE "sla_w"
      /\ UNCHANGED <<driver, op, txidx, rxidx, errors, rxbuf, waiting, msg, locked, taken, dead>>
  BY DEF StartSent
<1>3. Counts'
  BY <1>1, <1>2 DEF Counts
<1>4. Names'
  BY <1>1, <1>2 DEF Names
<1>5. Truths' /\ BusyIffWaited'
  BY <1>1, <1>2 DEF Truths, BusyIffWaited
<1>6. Phases'
  <2>1. BeforeWriting \/ (AllWritten /\ rxidx = 0)
    BY <1>1, <1>2 DEF Progress, Phases
  <2>2. txidx = 0 => txidx # op.tx
    BY <1>1, Numbers
  <2> QED  BY <1>2, <2>1, <2>2 DEF Phases, BeforeWriting, AllWritten
<1>7. Buffer' /\ Done'
  BY <1>1, <1>2 DEF Progress, Buffer, Done
<1> QED  BY <1>3, <1>4, <1>5, <1>6, <1>7, Parts, PTL DEF Progress

LEMMA WriteAckedStep ==
  ASSUME BusInv, WriteAcked
  PROVE  BusInv'
<1>1. Counts /\ Names /\ Truths /\ BusyIffWaited /\ Progress
  BY Parts
<1>2. /\ twi \in {"sla_w", "write"}
      /\ twi = "write" => taken' = taken + 1
      /\ twi = "sla_w" => taken' = taken
      /\ UNCHANGED <<driver, op, rxidx, errors, rxbuf, locked, dead>>
  BY <1>1, Numbers DEF WriteAcked
<1>3. taken' = txidx /\ rxidx = 0 /\ rxbuf = {} /\ txidx <= op.tx
  <2>0. /\ op.tx \in Nat /\ op.rx \in Nat /\ txidx \in Nat /\ txidx <= op.tx
        /\ rxidx \in Nat /\ taken \in Nat /\ op.rx <= MaxRead /\ MaxRead \in Nat
    BY <1>1, Numbers
  <2>1. twi = "write" => txidx >= 1 /\ taken = txidx - 1 /\ rxidx = 0
    BY <1>1 DEF Progress, Phases
  <2>2. twi = "sla_w" => txidx = 0 /\ taken = 0 /\ rxidx = 0
    BY <1>1 DEF Progress, Phases, BeforeWriting
  <2>3. rxbuf = 0..(rxidx - 1)
    BY <1>1, <1>2 DEF Progress, Buffer
  <2>4. rxidx = 0 /\ taken' = txidx
    BY <2>0, <1>2, <2>1, <2>2
  <2>5. rxbuf = {}
    BY <2>3, <2>4
  <2> QED  BY <2>0, <2>4, <2>5
<1>4. \/ txidx < op.tx /\ txidx' = txidx + 1 /\ twi' = "write" /\ UNCHANGED <<waiting, msg>>
      \/ txidx = op.tx /\ op.rx > 0 /\ twi' = "start" /\ UNCHANGED <<txidx, waiting, msg>>
      \/ txidx = op.tx /\ op.rx = 0 /\ twi' = "off" /\ Wakeup("OK") /\ UNCHANGED txidx
  <2>0. /\ op.tx \in Nat /\ op.rx \in Nat /\ txidx \in Nat /\ txidx <= op.tx
        /\ rxidx \in Nat /\ taken \in Nat /\ op.rx <= MaxRead /\ MaxRead \in Nat
    BY <1>1, Numbers
  <2> QED  BY <2>0 DEF WriteAcked, AllSent
<1>5. Counts'
  <2>0. /\ op.tx \in Nat /\ op.rx \in Nat /\ txidx \in Nat /\ txidx <= op.tx
        /\ rxidx \in Nat /\ taken \in Nat /\ op.rx <= MaxRead /\ MaxRead \in Nat
    BY <1>1, Numbers
  <2>1. op.tx \in Nat \ {0} /\ op.rx \in 0..MaxRead
    BY <1>1 DEF Counts
  <2>2. txidx' \in 0..op.tx
    BY <2>0, <1>4
  <2> QED  BY <2>0, <2>1, <2>2, <1>2, <1>3 DEF Counts
<1>6. Names'
  BY <1>1, <1>2, <1>4 DEF Names, Wakeup
<1>7. Truths' /\ BusyIffWaited'
  BY <1>1, <1>2, <1>4 DEF Truths, BusyIffWaited, Wakeup
<1>8. Phases'
  <2>0. /\ op.tx \in Nat /\ op.rx \in Nat /\ txidx \in Nat /\ txidx <= op.tx
        /\ rxidx \in Nat /\ taken \in Nat /\ op.rx <= MaxRead /\ MaxRead \in Nat
    BY <1>1, Numbers
  <2> QED  BY <2>0, <1>2, <1>3, <1>4 DEF Phases, BeforeWriting, AllWritten
<1>9. Buffer' /\ Done'
  <2>0. /\ op.tx \in Nat /\ op.rx \in Nat /\ txidx \in Nat /\ txidx <= op.tx
        /\ rxidx \in Nat /\ taken \in Nat /\ op.rx <= MaxRead /\ MaxRead \in Nat
    BY <1>1, Numbers
  <2>1. rxbuf' = 0..(rxidx' - 1)
    BY <1>2, <1>3
  <2>2. twi' = "off" => taken' = op'.tx /\ rxbuf' = 0..(op'.rx - 1)
    BY <1>2, <1>3, <1>4
  <2> QED  BY <2>1, <2>2 DEF Buffer, Done
<1> QED  BY <1>5, <1>6, <1>7, <1>8, <1>9, Parts, PTL DEF Progress

LEMMA ReadAddressAckedStep ==
  ASSUME BusInv, ReadAddressAcked
  PROVE  BusInv'
<1>1. Counts /\ Names /\ Truths /\ BusyIffWaited /\ Progress
  BY Parts
<1>2. /\ twi = "sla_r" /\ twi' = IF rxidx = op.rx - 1 THEN "read_last" ELSE "read"
      /\ UNCHANGED <<driver, op, txidx, rxidx, errors, rxbuf, waiting, msg, locked, taken, dead>>
  BY DEF ReadAddressAcked, ReadFrom
<1>3. Counts'
  BY <1>1, <1>2 DEF Counts
<1>4. Names'
  BY <1>1, <1>2 DEF Names
<1>5. Truths' /\ BusyIffWaited'
  BY <1>1, <1>2 DEF Truths, BusyIffWaited
<1>6. Phases'
  <2>1. AllWritten /\ rxidx = 0
    BY <1>1, <1>2 DEF Progress, Phases
  <2>2. rxidx # op.rx - 1 => rxidx < op.rx - 1
    BY <2>1, <1>1, Numbers DEF AllWritten
  <2> QED  BY <1>2, <2>1, <2>2 DEF Phases, AllWritten
<1>7. Buffer' /\ Done'
  BY <1>1, <1>2 DEF Progress, Buffer, Done
<1> QED  BY <1>3, <1>4, <1>5, <1>6, <1>7, Parts, PTL DEF Progress

LEMMA ByteReadStep ==
  ASSUME BusInv, ByteRead
  PROVE  BusInv'
<1>1. Counts /\ Names /\ Truths /\ BusyIffWaited /\ Progress
  BY Parts
<1>2. /\ twi = "read" /\ twi' = IF rxidx + 1 = op.rx - 1 THEN "read_last" ELSE "read"
      /\ rxidx' = rxidx + 1 /\ rxbuf' = rxbuf \cup {rxidx}
      /\ UNCHANGED <<driver, op, txidx, errors, waiting, msg, locked, taken, dead>>
  BY DEF ByteRead, ReadFrom
<1>3. AllWritten /\ rxidx < op.rx - 1 /\ rxbuf = 0..(rxidx - 1)
  BY <1>1, <1>2 DEF Progress, Phases, Buffer
<1>4. rxbuf' = 0..(rxidx' - 1) /\ rxidx' \in 0..op.rx
  <2>0. /\ op.tx \in Nat /\ op.rx \in Nat /\ txidx \in Nat /\ txidx <= op.tx
        /\ rxidx \in Nat /\ taken \in Nat /\ op.rx <= MaxRead /\ MaxRead \in Nat
    BY <1>1, Numbers
  <2> QED  BY <2>0, <1>2, <1>3
<1>5. Counts'
  <2>0. /\ op.tx \in Nat /\ op.rx \in Nat /\ txidx \in Nat /\ txidx <= op.tx
        /\ rxidx \in Nat /\ taken \in Nat /\ op.rx <= MaxRead /\ MaxRead \in Nat
    BY <1>1, Numbers
  <2>1. rxbuf' \subseteq 0..(MaxRead - 1)
    BY <2>0, <1>2, <1>3, <1>4
  <2> QED  BY <1>1, <1>2, <1>4, <2>1 DEF Counts
<1>6. Names'
  BY <1>1, <1>2 DEF Names
<1>7. Truths' /\ BusyIffWaited'
  BY <1>1, <1>2 DEF Truths, BusyIffWaited
<1>8. Phases'
  <2>1. rxidx + 1 # op.rx - 1 => rxidx + 1 < op.rx - 1
    BY <1>3, <1>1, Numbers
  <2> QED  BY <1>2, <1>3, <2>1 DEF Phases, AllWritten
<1>9. Buffer' /\ Done'
  BY <1>2, <1>4 DEF Buffer, Done
<1> QED  BY <1>5, <1>6, <1>7, <1>8, <1>9, Parts, PTL DEF Progress

LEMMA LastByteReadStep ==
  ASSUME BusInv, LastByteRead
  PROVE  BusInv'
<1>1. Counts /\ Names /\ Truths /\ BusyIffWaited /\ Progress
  BY Parts
<1>2. /\ twi = "read_last" /\ twi' = "off" /\ Wakeup("OK")
      /\ rxbuf' = rxbuf \cup {rxidx} /\ errors' = errors \cup {"ACK_FAILURE"}
      /\ UNCHANGED <<driver, op, txidx, rxidx, locked, taken, dead>>
  BY DEF LastByteRead
<1>3. AllWritten /\ rxidx = op.rx - 1 /\ rxbuf = 0..(rxidx - 1)
  BY <1>1, <1>2 DEF Progress, Phases, Buffer
<1>4. rxbuf' = 0..(op.rx - 1)
  <2>0. /\ op.tx \in Nat /\ op.rx \in Nat /\ txidx \in Nat /\ txidx <= op.tx
        /\ rxidx \in Nat /\ taken \in Nat /\ op.rx <= MaxRead /\ MaxRead \in Nat
    BY <1>1, Numbers
  <2> QED  BY <2>0, <1>2, <1>3 DEF AllWritten
<1>5. Counts'
  <2>1. rxbuf' \subseteq 0..(MaxRead - 1)
    BY <1>1, <1>4, Numbers
  <2> QED  BY <1>1, <1>2, <2>1 DEF Counts
<1>6. Names'
  BY <1>1, <1>2 DEF Names, Wakeup, Flags
<1>7. Truths' /\ BusyIffWaited'
  BY <1>1, <1>2 DEF Truths, BusyIffWaited, Wakeup
<1>8. Progress'
  BY <1>2, <1>3, <1>4 DEF Progress, Phases, Buffer, Done, AllWritten
<1> QED  BY <1>5, <1>6, <1>7, <1>8, Parts, PTL

LEMMA FailStep ==
  ASSUME BusInv, NEW f \in Flags, Fail(f)
  PROVE  BusInv'
<1>1. Counts /\ Names /\ Truths /\ BusyIffWaited /\ Progress
  BY Parts
<1>2. /\ twi # "off" /\ twi' = "off" /\ Wakeup("RESET") /\ errors' = errors \cup {f}
      /\ UNCHANGED <<driver, op, txidx, rxidx, rxbuf, locked, taken, dead>>
  BY DEF Fail
<1>3. msg' = "RESET"
  BY <1>1, <1>2 DEF BusyIffWaited, Wakeup
<1>4. Counts'
  BY <1>1, <1>2 DEF Counts
<1>5. Names'
  BY <1>1, <1>2, <1>3 DEF Names
<1>6. Truths' /\ BusyIffWaited'
  BY <1>1, <1>2 DEF Truths, BusyIffWaited, Wakeup
<1>7. Progress'
  BY <1>2, <1>3 DEF Progress, Phases, Buffer, Done
<1> QED  BY <1>4, <1>5, <1>6, <1>7, Parts, PTL

LEMMA InterruptStep ==
  ASSUME BusInv, TwiInterrupt
  PROVE  BusInv'
BY StartSentStep, WriteAckedStep, ReadAddressAckedStep, ByteReadStep, LastByteReadStep, FailStep
   DEF TwiInterrupt

-----------------------------------------------------------------------------
\* The driver's invariant, for every set of transfers: the types of its state,
\* a thread that waits exactly while the hardware works, and for each state of
\* the hardware how many bytes have gone each way.
THEOREM BusInvariance == BusSpec => []BusInv
<1>1. BusInit => BusInv
  <2> SUFFICES ASSUME BusInit PROVE BusInv
    OBVIOUS
  <2>1. Counts
    <3>1. op.tx = 1 /\ op.rx = 0 /\ txidx = 0 /\ rxidx = 0 /\ taken = 0 /\ rxbuf = {}
      BY DEF BusInit
    <3> QED  BY <3>1, TransfersAssumption DEF Counts
  <2>2. Names
    BY DEF BusInit, Names
  <2>3. Truths /\ BusyIffWaited
    BY DEF BusInit, Truths, BusyIffWaited
  <2>4. Progress
    BY DEF BusInit, Progress, Phases, Buffer, Done
  <2> QED  BY <2>1, <2>2, <2>3, <2>4, Parts
<1>2. BusInv /\ [BusNext]_bvars => BusInv'
  <2> SUFFICES ASSUME BusInv, [BusNext]_bvars PROVE BusInv'
    OBVIOUS
  <2>1. CASE \E o \in Transfers : Transmit(o)
    BY <2>1, TransmitStep
  <2>2. CASE Finish
    BY <2>2, FinishStep
  <2>3. CASE TwiInterrupt
    BY <2>3, InterruptStep
  <2>4. CASE Die
    BY <2>4, DieStep
  <2>5. CASE UNCHANGED bvars
    <3>1. Counts /\ Names /\ Truths /\ BusyIffWaited /\ Progress
      BY Parts
    <3>2. Counts' /\ Names'
      BY <3>1, <2>5 DEF bvars, Counts, Names
    <3>3. Truths' /\ BusyIffWaited'
      BY <3>1, <2>5 DEF bvars, Truths, BusyIffWaited
    <3>4. Progress'
      BY <3>1, <2>5 DEF bvars, Progress, Phases, Buffer, Done, BeforeWriting, AllWritten
    <3> QED  BY <3>2, <3>3, <3>4, Parts, PTL
  <2> QED  BY <2>1, <2>2, <2>3, <2>4, <2>5 DEF BusNext
<1> QED  BY <1>1, <1>2, PTL DEF BusSpec

\* Nobody waits for an interrupt that will not come, and no interrupt writes to
\* the buffer of a call that has returned (i2c_lld.c, TWI_vect and the calls).
THEOREM BusyIffWaitedSafe == BusSpec => []BusyIffWaited
<1>1. BusInv => BusyIffWaited
  BY DEF BusInv
<1> QED  BY <1>1, BusInvariance, PTL

\* MSG_OK is said of a transfer that was carried out in full, and only of it.
THEOREM OkMeansDoneSafe == BusSpec => []OkMeansDone
<1>1. BusInv => OkMeansDone
  BY DEF BusInv, BusyIffWaited, Done, OkMeansDone
<1> QED  BY <1>1, BusInvariance, PTL

\* The interrupts until the end of the transfer, if none of them fails it: one
\* for each start, address and byte.
Writing == twi = "start" /\ txidx # op.tx
TransferLag ==
  IF Writing THEN op.tx + op.rx + 4
  ELSE [off |-> 0, start |-> op.rx + 2, sla_w |-> op.tx - txidx + op.rx + 3,
        write |-> op.tx - txidx + op.rx + 3, sla_r |-> op.rx + 1,
        read |-> op.rx - rxidx, read_last |-> 1][twi]

TransferBounded == TransferLag \in 0..(op.tx + op.rx + 4) /\ (waiting <=> TransferLag > 0)
TransferGetsCloser ==
  [][ waiting => IF TwiInterrupt THEN TransferLag' < TransferLag
                                 ELSE TransferLag' = TransferLag ]_bvars

\* The indices while the hardware works.
LEMMA Indices ==
  ASSUME BusInv
  PROVE  /\ op.tx \in Int /\ op.rx \in Int /\ txidx \in Int /\ rxidx \in Int
         /\ 1 <= op.tx /\ 0 <= op.rx /\ 0 <= txidx /\ txidx <= op.tx /\ 0 <= rxidx
         /\ twi = "sla_w" => txidx = 0
         /\ twi = "start" /\ txidx = op.tx => op.rx > 0
         /\ twi = "sla_r" => rxidx = 0 /\ op.rx > 0 /\ txidx = op.tx
         /\ twi = "read" => rxidx < op.rx - 1
         /\ twi = "read_last" => op.rx >= 1
         /\ twi \in {"off", "start", "sla_w", "write", "sla_r", "read", "read_last"}
<1>1. Counts /\ Names /\ Progress
  BY Parts
<1>2. /\ op.tx \in Int /\ op.rx \in Int /\ txidx \in Int /\ rxidx \in Int
      /\ 1 <= op.tx /\ 0 <= op.rx /\ 0 <= txidx /\ txidx <= op.tx /\ 0 <= rxidx
  BY <1>1, TransfersAssumption DEF Counts
<1>3. /\ twi = "sla_w" => txidx = 0
      /\ twi = "start" /\ txidx = op.tx => op.rx > 0
      /\ twi = "sla_r" => rxidx = 0 /\ op.rx > 0 /\ txidx = op.tx
      /\ twi = "read" => rxidx < op.rx - 1
      /\ twi = "read_last" => op.rx >= 1
  BY <1>1, <1>2 DEF Progress, Phases, BeforeWriting, AllWritten
<1> QED  BY <1>1, <1>2, <1>3 DEF Names

LEMMA LagBounds ==
  ASSUME BusInv
  PROVE  /\ TransferLag \in 0..(op.tx + op.rx + 4)
         /\ TransferLag > 0 <=> twi # "off"
<1> QED  BY Indices DEF TransferLag, Writing

LEMMA InterruptNearer ==
  ASSUME BusInv, BusInv', TwiInterrupt
  PROVE  TransferLag' < TransferLag
<1>1. CASE StartSent
  <2>1. /\ twi = "start" /\ UNCHANGED <<op, txidx>>
        /\ twi' = IF txidx = op.tx THEN "sla_r" ELSE "sla_w"
    BY <1>1 DEF StartSent
  <2>2. CASE txidx = op.tx
    <3>1. TransferLag = op.rx + 2 /\ TransferLag' = op.rx + 1
      BY <2>1, <2>2 DEF TransferLag, Writing
    <3> QED  BY <3>1, Indices
  <2>3. CASE txidx # op.tx
    <3>1. TransferLag = op.tx + op.rx + 4 /\ TransferLag' = op.tx - txidx + op.rx + 3
      BY <2>1, <2>3 DEF TransferLag, Writing
    <3> QED  BY <3>1, Indices
  <2> QED  BY <2>2, <2>3
<1>2. CASE WriteAcked
  <2>1. twi \in {"sla_w", "write"} /\ op' = op
    BY <1>2 DEF WriteAcked
  <2>2. TransferLag = op.tx - txidx + op.rx + 3
    BY <2>1 DEF TransferLag, Writing
  <2>3. CASE twi' = "write" /\ txidx' = txidx + 1
    <3>1. TransferLag' = op.tx - (txidx + 1) + op.rx + 3
      BY <2>1, <2>3 DEF TransferLag, Writing
    <3> QED  BY <2>2, <3>1, Indices
  <2>4. CASE AllSent /\ twi' = "start" /\ txidx' = txidx
    <3>1. txidx = op.tx
      BY <2>4, Indices DEF AllSent
    <3>2. TransferLag' = op.rx + 2
      BY <2>1, <2>4, <3>1 DEF TransferLag, Writing
    <3> QED  BY <2>2, <3>1, <3>2, Indices
  <2>5. CASE twi' = "off"
    <3>1. TransferLag' = 0
      BY <2>5 DEF TransferLag, Writing
    <3> QED  BY <2>2, <3>1, Indices
  <2> QED  BY <1>2, <2>3, <2>4, <2>5 DEF WriteAcked
<1>3. CASE ReadAddressAcked
  <2>1. twi = "sla_r" /\ UNCHANGED <<op, rxidx>> /\ twi' \in {"read", "read_last"}
    BY <1>3 DEF ReadAddressAcked, ReadFrom
  <2>2. TransferLag = op.rx + 1
    BY <2>1 DEF TransferLag, Writing
  <2>3. TransferLag' = op.rx - rxidx \/ TransferLag' = 1
    BY <2>1 DEF TransferLag, Writing
  <2> QED  BY <2>1, <2>2, <2>3, Indices
<1>4. CASE ByteRead
  <2>1. twi = "read" /\ op' = op /\ rxidx' = rxidx + 1 /\ twi' \in {"read", "read_last"}
    BY <1>4 DEF ByteRead, ReadFrom
  <2>2. TransferLag = op.rx - rxidx
    BY <2>1 DEF TransferLag, Writing
  <2>3. TransferLag' = op.rx - (rxidx + 1) \/ TransferLag' = 1
    BY <2>1 DEF TransferLag, Writing
  <2> QED  BY <2>1, <2>2, <2>3, Indices
<1>5. CASE LastByteRead \/ \E f \in Flags : Fail(f)
  <2>1. twi # "off" /\ twi' = "off"
    BY <1>5 DEF LastByteRead, Fail
  <2>2. TransferLag' = 0
    BY <2>1 DEF TransferLag, Writing
  <2>3. TransferLag > 0
    BY <2>1, LagBounds
  <2> QED  BY <2>2, <2>3
<1> QED  BY <1>1, <1>2, <1>3, <1>4, <1>5 DEF TwiInterrupt

\* A transfer of m bytes out and n bytes in ends within m + n + 4 interrupts of
\* the bus, good or bad, and nothing else brings it nearer or puts it off
\* (TWI_vect): TransferEnds, up to the interrupts' coming and tdUI's being
\* scheduled when the last of them resumes it.
THEOREM TransferWithinBytes == BusSpec => []TransferBounded /\ TransferGetsCloser
<1>1. BusInv => TransferBounded
  BY LagBounds DEF BusInv, BusyIffWaited, TransferBounded
<1>2. BusInv /\ BusInv' /\ [BusNext]_bvars =>
        [waiting => IF TwiInterrupt THEN TransferLag' < TransferLag
                                    ELSE TransferLag' = TransferLag]_bvars
  <2> SUFFICES ASSUME BusInv, BusInv', [BusNext]_bvars, waiting
               PROVE  IF TwiInterrupt THEN TransferLag' < TransferLag
                                      ELSE TransferLag' = TransferLag
    OBVIOUS
  <2>1. CASE TwiInterrupt
    BY <2>1, InterruptNearer
  <2>2. CASE ~TwiInterrupt
    <3>1. driver # "READY"
      BY DEF BusInv, BusyIffWaited
    <3>2. Die \/ UNCHANGED bvars
      BY <2>2, <3>1 DEF BusNext, Transmit, Finish
    <3>3. UNCHANGED <<op, txidx, rxidx, twi>>
      BY <3>2 DEF Die, bvars
    <3> QED  BY <2>2, <3>3 DEF TransferLag, Writing
  <2> QED  BY <2>1, <2>2
<1> QED  BY <1>1, <1>2, BusInvariance, PTL DEF BusSpec, TransferGetsCloser

-----------------------------------------------------------------------------
\* The threads.

\* What main has created so far.
Created == created \in 0..3

LEMMA CreatesOne ==
  ASSUME Created, MainCreates
  PROVE  /\ Created' /\ created' = created + 1
         /\ \/ created = 0 /\ Create("tdUI")
            \/ created = 1 /\ Create("tdParser")
            \/ created = 2 /\ Create("tdComp")
<1>1. /\ Len(CreationOrder) = 3
      /\ CreationOrder[1] = "tdUI" /\ CreationOrder[2] = "tdParser" /\ CreationOrder[3] = "tdComp"
  BY DEF CreationOrder
<1>2. /\ created < Len(CreationOrder) /\ Create(CreationOrder[created + 1])
      /\ created' = created + 1
  BY DEF MainCreates
<1>3. created \in {0, 1, 2}
  BY <1>1, <1>2 DEF Created
<1>4. Created'
  BY <1>2, <1>3 DEF Created
<1>5. CASE created = 0
  <2>1. created + 1 = 1
    BY <1>5
  <2> QED  BY <2>1, <1>1, <1>2, <1>4, <1>5
<1>6. CASE created = 1
  <2>1. created + 1 = 2
    BY <1>6
  <2> QED  BY <2>1, <1>1, <1>2, <1>4, <1>6
<1>7. CASE created = 2
  <2>1. created + 1 = 3
    BY <1>7
  <2> QED  BY <2>1, <1>1, <1>2, <1>4, <1>7
<1> QED  BY <1>3, <1>5, <1>6, <1>7

LEMMA CreatedKept == ASSUME Created, [Next]_vars PROVE Created'
<1>1. CASE MainCreates
  BY <1>1, CreatesOne
<1>2. CASE ~MainCreates
  <2>1. created' = created
    BY <1>2 DEF Next, vars, MainSleeps, ParserWaits, ParserPosts, ByteArrives, CompFetches,
                UiSleeps, UiTransmits, UiFinishes, BusInterrupt, BusDies, TimerTicks
  <2> QED  BY <2>1 DEF Created
<1> QED  BY <1>1, <1>2

\* Every step of the threads is a step of the kernel or leaves it alone, and a
\* step of the bus or leaves it alone.
LEMMA KernelStep == ASSUME Created, Next PROVE [KernelNext]_kvars
<1>1. "tdUI" \in Threads /\ "tdParser" \in Threads /\ "tdComp" \in Threads
  BY ThreadsAssumption
<1>2. {"sleeping", "suspended", "wtorevt", "wtsem"} \subseteq Waits
  BY DEF Waits
<1>3. ASSUME NEW t \in Threads, Create(t) \/ Awaken(t) PROVE KernelNext
  BY <1>3 DEF KernelNext
<1>4. ASSUME NEW wait \in Waits, GoSleep(wait) PROVE KernelNext
  BY <1>4 DEF KernelNext
<1>5. ASSUME NEW wait \in Waits, \E ticks \in Delays[current] : GoSleepTimeout(wait, ticks)
      PROVE  KernelNext
  BY <1>5 DEF KernelNext
<1>6. CASE MainCreates
  <2>1. Create("tdUI") \/ Create("tdParser") \/ Create("tdComp")
    BY <1>6, CreatesOne
  <2> QED  BY <2>1, <1>1, <1>3
<1>7. CASE MainSleeps \/ CompFetches \/ UiSleeps
  BY <1>7, <1>2, <1>5 DEF MainSleeps, CompFetches, UiSleeps, Running
<1>8. CASE ParserWaits \/ UiTransmits
  BY <1>8, <1>2, <1>4 DEF ParserWaits, UiTransmits
<1>9. CASE ParserPosts \/ ByteArrives
  BY <1>9, <1>1, <1>3 DEF ParserPosts, ByteArrives
<1>10. CASE BusInterrupt
  BY <1>10, <1>1, <1>3 DEF BusInterrupt
<1>11. CASE UiFinishes \/ BusDies
  BY <1>11 DEF UiFinishes, BusDies
<1>12. CASE TimerTicks
  BY <1>12 DEF TimerTicks, KernelNext
<1> QED  BY <1>6, <1>7, <1>8, <1>9, <1>10, <1>11, <1>12 DEF Next

LEMMA BusStep == ASSUME Next PROVE [BusNext]_bvars
<1>1. CASE UiTransmits \/ UiFinishes \/ BusInterrupt \/ BusDies
  BY <1>1 DEF UiTransmits, UiFinishes, BusInterrupt, BusDies, BusNext
<1>2. CASE ~(UiTransmits \/ UiFinishes \/ BusInterrupt \/ BusDies)
  BY <1>2 DEF Next, MainCreates, MainSleeps, ParserWaits, ParserPosts, ByteArrives,
              CompFetches, UiSleeps, TimerTicks
<1> QED  BY <1>1, <1>2

\* The program is one of the programs the kernel is proved right for, and of
\* those that use the driver as it expects.
LEMMA CreatedSafe == SafeSpec => []Created
<1>1. Init => Created
  BY DEF Init, Created
<1>2. Created /\ [Next]_vars => Created'
  BY CreatedKept
<1> QED  BY <1>1, <1>2, PTL DEF SafeSpec

THEOREM ThreadsUseTheKernel == SafeSpec => KernelSpec
<1>1. Created /\ [Next]_vars => [KernelNext]_kvars
  BY KernelStep DEF vars
<1>2. Init => KernelInit
  BY DEF Init
<1> QED  BY <1>1, <1>2, CreatedSafe, PTL DEF SafeSpec, KernelSpec

THEOREM ThreadsUseTheBus == SafeSpec => BusSpec
<1>1. [Next]_vars => [BusNext]_bvars
  BY BusStep DEF vars
<1>2. Init => BusInit
  BY DEF Init
<1> QED  BY <1>1, <1>2, PTL DEF SafeSpec, BusSpec

-----------------------------------------------------------------------------
\* One thread before another in a list, and what keeps it so.
Before(r, u, v) == \A i, j \in 1..Len(r) : r[i] = u /\ r[j] = v => i < j

LEMMA BeforeInserted ==
  ASSUME NEW r, List(r), NEW t \in Threads, NEW k \in 1..(Len(r) + 1),
         NEW u, NEW v, t # u, t # v, Before(r, u, v)
  PROVE  Before(InsertAt(r, k, t), u, v)
<1> DEFINE q == InsertAt(r, k, t)
<1>1. /\ Len(q) = Len(r) + 1
      /\ \A j \in 1..(Len(r) + 1) :
           q[j] = IF j < k THEN r[j] ELSE IF j = k THEN t ELSE r[j-1]
  BY InsertedThread
<1>2. Len(r) \in Nat
  BY ListFacts
<1> HIDE DEF q
<1>3. ASSUME NEW i \in 1..Len(q), NEW j \in 1..Len(q), q[i] = u, q[j] = v
      PROVE  i < j
  <2> DEFINE at(m) == IF m < k THEN m ELSE m - 1
  <2>1. i # k /\ j # k
    BY <1>1, <1>3
  <2>2. at(i) \in 1..Len(r) /\ at(j) \in 1..Len(r) /\ r[at(i)] = u /\ r[at(j)] = v
    BY <2>1, <1>1, <1>2, <1>3
  <2>3. at(i) < at(j)
    BY <2>2 DEF Before
  <2> QED  BY <2>1, <2>3, <1>1, <1>2
<1> QED  BY <1>3 DEF Before, q

\* A thread ahead of its equals comes before one of them, one behind after.
LEMMA AheadIsBefore ==
  ASSUME NEW r, List(r), NEW u \in Threads, NEW v \in Threads, u # v, ~In(r, u),
         Priority[u] = Priority[v], NEW q \in AheadOfEquals(r, u)
  PROVE  Before(q, u, v)
<1>1. PICK k \in 1..(Len(r) + 1) :
        /\ q = InsertAt(r, k, u)
        /\ \A j \in 1..(k-1) : Priority[r[j]] > Priority[u]
  BY DEF AheadOfEquals
<1>2. r \in Seq(Threads) /\ Len(r) \in Nat
  BY ListFacts DEF List
<1>3. /\ Len(InsertAt(r, k, u)) = Len(r) + 1
      /\ \A j \in 1..(Len(r) + 1) :
           InsertAt(r, k, u)[j] = IF j < k THEN r[j] ELSE IF j = k THEN u ELSE r[j-1]
  BY InsertedThread
<1>4. /\ Len(q) = Len(r) + 1
      /\ \A j \in 1..(Len(r) + 1) :
           q[j] = IF j < k THEN r[j] ELSE IF j = k THEN u ELSE r[j-1]
  BY <1>1, <1>3
<1>5. Priority[u] \in Nat
  BY KernelAssumption
<1>6. ASSUME NEW i \in 1..Len(q), NEW j \in 1..Len(q), q[i] = u, q[j] = v
      PROVE  i < j
  <2>1. i = k
    <3>1. CASE i < k
      <4>1. i \in 1..Len(r) /\ r[i] = u
        BY <3>1, <1>2, <1>4, <1>6
      <4> QED  BY <4>1 DEF In
    <3>2. CASE i > k
      <4>1. i-1 \in 1..Len(r) /\ r[i-1] = u
        BY <3>2, <1>2, <1>4, <1>6
      <4> QED  BY <4>1 DEF In
    <3> QED  BY <3>1, <3>2, <1>2, <1>4
  <2>2. j # k
    BY <1>2, <1>4, <1>6
  <2>3. ~(j < k)
    <3>1. SUFFICES ASSUME j < k PROVE FALSE
      OBVIOUS
    <3>2. r[j] = v /\ j \in 1..(k-1)
      BY <3>1, <1>2, <1>4, <1>6
    <3>3. Priority[v] > Priority[u]
      BY <3>2, <1>1
    <3> QED  BY <3>3, <1>5
  <2> QED  BY <2>1, <2>2, <2>3, <1>2, <1>4
<1> QED  BY <1>6 DEF Before

LEMMA BehindIsAfter ==
  ASSUME NEW r, List(r), Sorted(r), NEW u \in Threads, NEW v \in Threads, u # v, ~In(r, v),
         Priority[u] = Priority[v], NEW q \in BehindEquals(r, v)
  PROVE  Before(q, u, v)
<1>1. PICK k \in 1..(Len(r) + 1) :
        /\ q = InsertAt(r, k, v)
        /\ k <= Len(r) => Priority[r[k]] < Priority[v]
  BY DEF BehindEquals
<1>2. r \in Seq(Threads) /\ Len(r) \in Nat /\ \A i \in 1..Len(r) : r[i] \in Threads
  BY ListFacts DEF List
<1>3. /\ Len(InsertAt(r, k, v)) = Len(r) + 1
      /\ \A j \in 1..(Len(r) + 1) :
           InsertAt(r, k, v)[j] = IF j < k THEN r[j] ELSE IF j = k THEN v ELSE r[j-1]
  BY InsertedThread
<1>4. /\ Len(q) = Len(r) + 1
      /\ \A j \in 1..(Len(r) + 1) :
           q[j] = IF j < k THEN r[j] ELSE IF j = k THEN v ELSE r[j-1]
  BY <1>1, <1>3
<1>5. /\ Priority[v] \in Nat /\ Priority[u] \in Nat
      /\ \A i \in 1..Len(r) : Priority[r[i]] \in Nat
  BY <1>2, KernelAssumption
<1>6. ASSUME NEW i \in 1..Len(q), NEW j \in 1..Len(q), q[i] = u, q[j] = v
      PROVE  i < j
  <2>1. j = k
    <3>1. CASE j < k
      <4>1. j \in 1..Len(r) /\ r[j] = v
        BY <3>1, <1>2, <1>4, <1>6
      <4> QED  BY <4>1 DEF In
    <3>2. CASE j > k
      <4>1. j-1 \in 1..Len(r) /\ r[j-1] = v
        BY <3>2, <1>2, <1>4, <1>6
      <4> QED  BY <4>1 DEF In
    <3> QED  BY <3>1, <3>2, <1>2, <1>4
  <2>2. i # k
    BY <1>2, <1>4, <1>6
  <2>3. ~(i > k)
    <3>1. SUFFICES ASSUME i > k PROVE FALSE
      OBVIOUS
    <3>2. k \in 1..Len(r) /\ i-1 \in 1..Len(r) /\ (k = i-1 \/ k < i-1) /\ r[i-1] = u
      BY <3>1, <1>2, <1>4, <1>6
    <3>3. Priority[r[k]] >= Priority[r[i-1]]
      BY <3>2, <1>5 DEF Sorted
    <3>4. Priority[r[k]] < Priority[v]
      BY <3>2, <1>1, <1>2
    <3> QED  BY <3>2, <3>3, <3>4, <1>5
  <2> QED  BY <2>1, <2>2, <2>3, <1>2, <1>4
<1> QED  BY <1>6 DEF Before

\* The first thread of the list is not the later one, and may leave it.
LEMMA BeforeTail ==
  ASSUME NEW r, List(r), r # <<>>, NEW u \in Threads, NEW v \in Threads, Before(r, u, v)
  PROVE  Before(Tail(r), u, v) /\ (In(r, u) => Head(r) # v)
<1>1. r \in Seq(Threads) /\ Len(r) \in Nat \ {0}
  BY EmptySeq, ListFacts DEF List
<1>2. Head(r) = r[1]
  BY <1>1
<1>3. /\ Len(Tail(r)) = Len(r) - 1
      /\ \A i \in 1..Len(Tail(r)) : Tail(r)[i] = r[i+1]
  BY <1>1, HeadTailProperties
<1>4. ASSUME In(r, u), Head(r) = v PROVE FALSE
  <2>1. PICK i \in 1..Len(r) : r[i] = u
    BY <1>4 DEF In
  <2>2. 1 \in 1..Len(r)
    BY <1>1
  <2>3. i < 1
    BY <2>1, <2>2, <1>2, <1>4 DEF Before
  <2> QED  BY <2>3, <1>1
<1>5. ASSUME NEW i \in 1..Len(Tail(r)), NEW j \in 1..Len(Tail(r)), Tail(r)[i] = u, Tail(r)[j] = v
      PROVE  i < j
  <2>1. i+1 \in 1..Len(r) /\ j+1 \in 1..Len(r)
    BY <1>1, <1>3
  <2>2. r[i+1] = u /\ r[j+1] = v
    BY <1>3, <1>5
  <2>3. i+1 < j+1
    BY <2>1, <2>2 DEF Before
  <2> QED  BY <2>1, <2>3, <1>1, <1>3
<1> QED  BY <1>4, <1>5 DEF Before

-----------------------------------------------------------------------------
\* Until tdParser has run to its first wait: neither it nor tdComp has waited,
\* tdComp has not run, and if both are ready tdParser comes first.
ParserFirst(st, r) ==
  /\ st["tdComp"] \in {"none", "ready"}
  /\ st["tdParser"] \in {"none", "ready", "current"}
  /\ st["tdComp"] = "ready" => st["tdParser"] # "none"
  /\ Before(r, "tdParser", "tdComp")

OrderInv ==
  ~initialised => ParserFirst(state, ready) /\ (created >= 2 => state["tdParser"] # "none")

LEMMA Names5 ==
  /\ {"idle", "main", "tdUI", "tdParser", "tdComp"} = Threads
  /\ Priority["tdParser"] = Priority["tdComp"] /\ Priority["main"] = Priority["tdComp"]
  /\ Priority["tdUI"] > Priority["main"]
  /\ \A t \in Threads : Priority[t] \in Nat
BY ThreadsAssumption, KernelAssumption

\* Another thread gets a new state.
LEMMA OtherState ==
  ASSUME NEW st \in [Threads -> States], NEW r, ParserFirst(st, r),
         NEW t \in Threads \ {"tdParser", "tdComp"}, NEW w
  PROVE  ParserFirst([st EXCEPT ![t] = w], r)
BY Names5 DEF ParserFirst

\* A thread that is not tdComp is switched in.
LEMMA SwitchOrder ==
  ASSUME NEW st \in [Threads -> States], NEW r, ParserFirst(st, r),
         NEW t \in Threads \ {"tdComp"}, NEW list, NEW dl, SwitchTo(t, r, st, list, dl)
  PROVE  ParserFirst(state', ready') /\ (st["tdParser"] # "none" => state'["tdParser"] # "none")
<1>1. ready' = r /\ state' = [st EXCEPT ![t] = "current"]
  BY DEF SwitchTo
<1> QED  BY <1>1, Names5 DEF ParserFirst

\* tdComp is not the first of the ready list.
LEMMA CompIsNotFirst ==
  ASSUME NEW c, NEW r, NEW st, NEW list, Consistent(c, r, st, list), ParserFirst(st, r),
         r # <<>>, c # "tdParser"
  PROVE  Head(r) \in Threads \ {"tdComp"} /\ ParserFirst(st, Tail(r))
<1>1. /\ List(r) /\ Sorted(r)
      /\ \A t \in Threads : st[t] = "current" <=> t = c
      /\ \A t \in Threads : st[t] = "ready" <=> In(r, t)
  BY DEF Consistent
<1>2. "tdParser" \in Threads /\ "tdComp" \in Threads
  BY Names5
<1>3. Head(r) \in Threads /\ In(r, Head(r))
  BY <1>1, FirstOut
<1>4. /\ Before(Tail(r), "tdParser", "tdComp")
      /\ In(r, "tdParser") => Head(r) # "tdComp"
  BY <1>1, <1>2, BeforeTail DEF ParserFirst
<1>5. Head(r) # "tdComp"
  <2> SUFFICES ASSUME Head(r) = "tdComp" PROVE FALSE
    OBVIOUS
  <2>1. st["tdComp"] = "ready"
    BY <1>1, <1>2, <1>3
  <2>2. st["tdParser"] = "ready"
    BY <2>1, <1>1, <1>2 DEF ParserFirst
  <2> QED  BY <2>2, <1>1, <1>2, <1>4
<1> QED  BY <1>3, <1>4, <1>5 DEF ParserFirst

LEMMA SleepOrder ==
  ASSUME IInv, ParserFirst(state, ready), NEW wait \in Waits, NEW list, NEW dl,
         current \notin {"tdParser", "tdComp", Idle},
         SwitchTo(Head(ready), Tail(ready), [state EXCEPT ![current] = wait], list, dl)
  PROVE  ParserFirst(state', ready') /\ (state["tdParser"] # "none" => state'["tdParser"] # "none")
<1> DEFINE st == [state EXCEPT ![current] = wait]
<1>1. /\ Consistent(current, ready, state, timers)
      /\ current \in Threads /\ state \in [Threads -> States]
      /\ state[Idle] \in {"current", "ready"} /\ Idle \in Threads
      /\ \A t \in Threads : state[t] = "current" <=> t = current
      /\ \A t \in Threads : state[t] = "ready" <=> In(ready, t)
  BY KernelAssumption DEF IInv, Consistent
<1>2. ready # <<>>
  <2>1. In(ready, Idle) /\ 1..Len(<<>>) = {}
    BY <1>1
  <2> QED  BY <2>1 DEF In
<1>3. Head(ready) \in Threads \ {"tdComp"} /\ ParserFirst(state, Tail(ready))
  BY <1>1, <1>2, CompIsNotFirst
<1>4. st \in [Threads -> States]
  BY <1>1 DEF States
<1>5. ParserFirst(st, Tail(ready))
  BY <1>1, <1>3, OtherState
<1>6. st["tdParser"] = state["tdParser"]
  BY <1>1, Names5
<1> HIDE DEF st
<1>7. SwitchTo(Head(ready), Tail(ready), st, list, dl)
  BY DEF st
<1> QED  BY <1>3, <1>4, <1>5, <1>6, <1>7, SwitchOrder

LEMMA RescheduleOrder ==
  ASSUME NEW r, NEW st, Consistent(current, r, st, timers), ParserFirst(st, r),
         Reschedule(r, st)
  PROVE  ParserFirst(state', ready') /\ (st["tdParser"] # "none" => state'["tdParser"] # "none")
<1>0. /\ current \in Threads /\ st \in [Threads -> States]
      /\ List(r) /\ Sorted(r)
      /\ \A t \in Threads : st[t] = "current" <=> t = current
      /\ \A t \in Threads : st[t] = "ready" <=> In(r, t)
  BY DEF Consistent
<1>n. "tdParser" \in Threads /\ "tdComp" \in Threads
  BY Names5
<1>1. CASE ~Preempts(r)
  BY <1>1 DEF Reschedule
<1>2. CASE Preempts(r)
  <2> DEFINE h == Head(r)
             st2 == [st EXCEPT ![current] = "ready"]
  <2>1. r # <<>> /\ Priority[h] > Priority[current]
    BY <1>2 DEF Preempts
  <2>2. PICK q \in AheadOfEquals(Tail(r), current) : SwitchTo(h, q, st2, timers, delta)
    BY <1>2 DEF Reschedule
  <2>3. h \in Threads /\ In(r, h) /\ Drops(Tail(r), r, h) /\ Sorted(Tail(r))
    BY <2>1, <1>0, FirstOut
  <2>4. List(Tail(r)) /\ ~In(Tail(r), current)
    BY <2>3, <1>0 DEF Drops
  <2>5. current # "tdComp"
    BY <1>0, <1>n DEF ParserFirst
  <2>6. h # "tdComp"
    <3>1. CASE current = "tdParser"
      BY <3>1, <2>1, Names5
    <3>2. CASE current # "tdParser"
      BY <3>2, <2>1, CompIsNotFirst
    <3> QED  BY <3>1, <3>2
  <2>7. Before(q, "tdParser", "tdComp")
    <3>1. CASE current = "tdParser"
      BY <3>1, <2>2, <2>4, <1>n, Names5, AheadIsBefore
    <3>2. CASE current # "tdParser"
      <4>1. Before(Tail(r), "tdParser", "tdComp")
        BY <2>1, <1>0, <1>n, BeforeTail DEF ParserFirst
      <4>2. PICK k \in 1..(Len(Tail(r)) + 1) : q = InsertAt(Tail(r), k, current)
        BY <2>2 DEF AheadOfEquals
      <4> QED  BY <4>1, <4>2, <3>2, <2>4, <2>5, <1>0, BeforeInserted
    <3> QED  BY <3>1, <3>2
  <2>8. /\ st2 \in [Threads -> States]
        /\ \A u \in Threads : st2[u] = IF u = current THEN "ready" ELSE st[u]
    BY <1>0 DEF States
  <2> HIDE DEF st2, h
  <2>9. ParserFirst(st2, q)
    BY <2>5, <2>7, <2>8, <1>n DEF ParserFirst
  <2>10. st["tdParser"] # "none" => st2["tdParser"] # "none"
    BY <2>8, <1>n
  <2> QED  BY <2>2, <2>3, <2>6, <2>8, <2>9, <2>10, SwitchOrder
<1> QED  BY <1>1, <1>2

\* Another thread is made ready.
LEMMA ReadyOrder ==
  ASSUME IInv, ParserFirst(state, ready),
         NEW t \in Threads \ {"tdParser", "tdComp"}, state[t] \notin {"current", "ready"},
         NEW r \in BehindEquals(ready, t)
  PROVE  ParserFirst([state EXCEPT ![t] = "ready"], r)
<1>1. state \in [Threads -> States] /\ List(ready)
  BY DEF IInv, Consistent
<1>2. PICK k \in 1..(Len(ready) + 1) : r = InsertAt(ready, k, t)
  BY DEF BehindEquals
<1>3. Before(r, "tdParser", "tdComp")
  BY <1>1, <1>2, BeforeInserted DEF ParserFirst
<1>4. ParserFirst(state, r)
  BY <1>3 DEF ParserFirst
<1> QED  BY <1>1, <1>4, OtherState

LEMMA AwakenOrder ==
  ASSUME IInv, ParserFirst(state, ready),
         NEW t \in Threads \ {"tdParser", "tdComp"}, Awaken(t)
  PROVE  ParserFirst(state', ready') /\ (state["tdParser"] # "none" => state'["tdParser"] # "none")
<1>1. PICK r \in BehindEquals(ready, t) : Reschedule(r, [state EXCEPT ![t] = "ready"])
  BY DEF Awaken
<1>2. state[t] \notin {"current", "ready"} /\ state \in [Threads -> States]
  BY DEF Awaken, Waits, IInv, Consistent
<1>3. ParserFirst([state EXCEPT ![t] = "ready"], r)
  BY <1>2, ReadyOrder
<1>4. Consistent(current, r, [state EXCEPT ![t] = "ready"], timers)
  BY <1>2, ReadyConsistent DEF IInv, Consistent
<1>5. [state EXCEPT ![t] = "ready"]["tdParser"] = state["tdParser"]
  BY <1>2, Names5
<1>6. /\ ParserFirst(state', ready')
      /\ [state EXCEPT ![t] = "ready"]["tdParser"] # "none" => state'["tdParser"] # "none"
  BY <1>1, <1>3, <1>4, RescheduleOrder
<1> QED  BY <1>5, <1>6

LEMMA ExpireOrder ==
  ASSUME IInv, ParserFirst(state, ready), Expire
  PROVE  ParserFirst(state', ready') /\ (state["tdParser"] # "none" => state'["tdParser"] # "none")
<1> DEFINE t == Head(timers)
<1>1. /\ state \in [Threads -> States] /\ List(timers) /\ timers # <<>>
      /\ \A u \in Threads : In(timers, u) => state[u] \in Waits \cup {"ready"}
  BY DEF IInv, Consistent, Expire
<1>2. t \in Threads /\ In(timers, t)
  <2>1. timers \in Seq(Threads) /\ Len(timers) \in Nat \ {0}
    BY <1>1, EmptySeq, ListFacts DEF List
  <2>2. t = timers[1] /\ 1 \in 1..Len(timers)
    BY <2>1
  <2> HIDE DEF t
  <2>3. t \in Threads
    BY <2>2, <1>1, ListFacts
  <2> QED  BY <2>2, <2>3 DEF In
<1>3. CASE state[t] = "ready"
  BY <1>3 DEF Expire
<1>4. CASE state[t] # "ready"
  <2>1. PICK r \in BehindEquals(ready, t) : ready' = r
    BY <1>4 DEF Expire
  <2>2. state' = [state EXCEPT ![t] = "ready"]
    BY <1>4 DEF Expire
  <2> HIDE DEF t
  <2>3. state[t] \in Waits
    BY <1>1, <1>2, <1>4
  <2>4. t \notin {"tdParser", "tdComp"} /\ state[t] \notin {"current", "ready"}
    BY <2>3 DEF ParserFirst, Waits
  <2>5. ParserFirst(state', r)
    BY <2>2, <2>4, <1>2, ReadyOrder
  <2>6. state'["tdParser"] = state["tdParser"]
    BY <2>2, <2>4, <1>1, Names5
  <2> QED  BY <2>1, <2>5, <2>6
<1> QED  BY <1>3, <1>4

\* main creates the three in their order.
LEMMA CreateOrder ==
  ASSUME IInv, Created, ParserFirst(state, ready),
         created >= 2 => state["tdParser"] # "none", MainCreates
  PROVE  ParserFirst(state', ready') /\ (created' >= 2 => state'["tdParser"] # "none")
<1>0. /\ Consistent(current, ready, state, timers)
      /\ state \in [Threads -> States] /\ List(ready) /\ Sorted(ready)
      /\ \A u \in Threads : state[u] = "current" <=> u = current
      /\ \A u \in Threads : state[u] = "ready" <=> In(ready, u)
      /\ current = "main" /\ created' = created + 1
  BY CreatesOne DEF IInv, Consistent, MainCreates, Running
<1>n. /\ "main" \in Threads /\ "tdUI" \in Threads /\ "tdParser" \in Threads /\ "tdComp" \in Threads
      /\ Priority["main"] \in Nat /\ Priority["tdUI"] \in Nat
      /\ Priority["tdParser"] \in Nat /\ Priority["tdComp"] \in Nat
  BY Names5
<1>1. CASE created = 0 /\ Create("tdUI")
  <2> DEFINE st == [state EXCEPT !["main"] = "ready"]
  <2>1. PICK r \in BehindEquals(ready, "main") : SwitchTo("tdUI", r, st, timers, delta)
    <3>1. ~(Priority["tdUI"] <= Priority["main"])
      BY <1>n, Names5
    <3> QED  BY <3>1, <1>1, <1>0 DEF Create
  <2>2. PICK k \in 1..(Len(ready) + 1) : r = InsertAt(ready, k, "main")
    BY DEF BehindEquals
  <2>3. Before(r, "tdParser", "tdComp")
    BY <2>2, <1>0, <1>n, BeforeInserted DEF ParserFirst
  <2>4. ParserFirst(state, r)
    BY <2>3 DEF ParserFirst
  <2>5. ParserFirst(st, r)
    BY <2>4, <1>0, <1>n, OtherState
  <2>6. st \in [Threads -> States]
    BY <1>0 DEF States
  <2> HIDE DEF st
  <2>7. ParserFirst(state', ready')
    BY <2>1, <2>5, <2>6, <1>n, SwitchOrder
  <2> QED  BY <2>7, <1>1, <1>0
<1>2. ASSUME NEW t \in {"tdParser", "tdComp"}, Create(t)
      PROVE  /\ state[t] = "none" /\ state' = [state EXCEPT ![t] = "ready"]
             /\ ready' \in BehindEquals(ready, t)
  <2>1. Priority[t] <= Priority[current] /\ ~(Priority[t] > Priority[current])
    BY <1>0, <1>n, Names5
  <2> QED  BY <1>2, <2>1 DEF Create
<1>3. CASE created = 1 /\ Create("tdParser")
  <2>1. /\ state["tdParser"] = "none" /\ state' = [state EXCEPT !["tdParser"] = "ready"]
        /\ ready' \in BehindEquals(ready, "tdParser")
    BY <1>2, <1>3
  <2>2. state["tdComp"] = "none" /\ ~In(ready, "tdComp") /\ ~In(ready, "tdParser")
    BY <2>1, <1>0, <1>n DEF ParserFirst
  <2>3. Adds(ready', ready, "tdParser")
    BY <2>1, <2>2, <1>0, <1>n, BehindEqualsAdds
  <2>4. ~In(ready', "tdComp")
    BY <2>2, <2>3, <1>n DEF Adds
  <2>5. Before(ready', "tdParser", "tdComp")
    BY <2>4 DEF Before, In
  <2>6. state'["tdParser"] = "ready" /\ state'["tdComp"] = "none"
    BY <2>1, <2>2, <1>0, <1>n
  <2> QED  BY <2>5, <2>6 DEF ParserFirst
<1>4. CASE created = 2 /\ Create("tdComp")
  <2>1. /\ state["tdComp"] = "none" /\ state' = [state EXCEPT !["tdComp"] = "ready"]
        /\ ready' \in BehindEquals(ready, "tdComp")
    BY <1>2, <1>4
  <2>2. state["tdParser"] \in {"ready", "current"} /\ ~In(ready, "tdComp")
    BY <2>1, <1>0, <1>n, <1>4 DEF ParserFirst
  <2>3. Before(ready', "tdParser", "tdComp")
    BY <2>1, <2>2, <1>0, <1>n, Names5, BehindIsAfter
  <2>4. state'["tdParser"] = state["tdParser"] /\ state'["tdComp"] = "ready"
    BY <2>1, <1>0, <1>n
  <2> QED  BY <2>2, <2>3, <2>4 DEF ParserFirst
<1> QED  BY <1>1, <1>3, <1>4, CreatesOne

-----------------------------------------------------------------------------
LEMMA OrderKept ==
  ASSUME IInv, Created, OrderInv, [Next]_vars
  PROVE  OrderInv'
<1> SUFFICES ASSUME ~initialised'
             PROVE  ParserFirst(state', ready') /\ (created' >= 2 => state'["tdParser"] # "none")
  BY DEF OrderInv
<1>1. CASE UNCHANGED vars
  <2>1. UNCHANGED <<state, ready, created, initialised>>
    BY <1>1 DEF vars, kvars
  <2>2. ParserFirst(state, ready) /\ (created >= 2 => state["tdParser"] # "none")
    BY <2>1 DEF OrderInv
  <2> QED  BY <2>1, <2>2
<1>2. CASE Next
  <2>0. ~initialised
    BY <1>2 DEF Next, MainCreates, MainSleeps, ParserWaits, ParserPosts, ByteArrives, CompFetches,
                UiSleeps, UiTransmits, UiFinishes, BusInterrupt, BusDies, TimerTicks
  <2>1. ParserFirst(state, ready) /\ (created >= 2 => state["tdParser"] # "none")
    BY <2>0 DEF OrderInv
  <2>2. /\ "main" \in Threads \ {"tdParser", "tdComp"}
        /\ "tdUI" \in Threads \ {"tdParser", "tdComp"}
        /\ "tdComp" \in Threads
    BY Names5
  <2>3. state["tdComp"] # "current" /\ state["tdParser"] # "wtorevt" /\ current # "tdComp"
    BY <2>1, <2>2 DEF ParserFirst, IInv, Consistent
  <2>4. CASE MainCreates
    BY <2>4, <2>1, CreateOrder
  <2>5. ASSUME NEW t \in {"main", "tdUI"}, Running(t), created' = created,
               NEW wait \in Waits,
               GoSleep(wait) \/ \E ticks \in Delays[t] : GoSleepTimeout(wait, ticks)
        PROVE  ParserFirst(state', ready') /\ (created' >= 2 => state'["tdParser"] # "none")
    <3>1. current \notin {"tdParser", "tdComp", Idle}
      BY <2>5, ThreadsAssumption DEF Running
    <3>2. PICK list, dl :
            SwitchTo(Head(ready), Tail(ready), [state EXCEPT ![current] = wait], list, dl)
      BY <2>5 DEF GoSleep, GoSleepTimeout
    <3> QED  BY <3>1, <3>2, <2>1, <2>5, SleepOrder
  <2>6. CASE MainSleeps \/ UiSleeps \/ UiTransmits
    <3>1. {"sleeping", "suspended"} \subseteq Waits
      BY DEF Waits
    <3> QED  BY <2>6, <2>5, <3>1 DEF MainSleeps, UiSleeps, UiTransmits
  <2>7. CASE ParserWaits \/ ParserPosts \/ ByteArrives \/ CompFetches
    BY <2>7, <2>0, <2>3 DEF ParserWaits, ParserPosts, ByteArrives, CompFetches, Running
  <2>8. CASE UiFinishes \/ BusDies
    <3>1. UNCHANGED <<state, ready, created>>
      BY <2>8 DEF UiFinishes, BusDies, kvars
    <3> QED  BY <3>1, <2>1
  <2>9. CASE BusInterrupt
    <3>1. created' = created /\ (Awaken("tdUI") \/ UNCHANGED <<state, ready>>)
      BY <2>9 DEF BusInterrupt, kvars
    <3> QED  BY <3>1, <2>1, <2>2, AwakenOrder
  <2>10. CASE TimerTicks
    <3>1. created' = created
      BY <2>10 DEF TimerTicks
    <3>2. CASE Tick
      BY <3>1, <3>2, <2>1 DEF Tick
    <3>3. CASE Expire
      BY <3>1, <3>3, <2>1, ExpireOrder
    <3>4. CASE TickEnd
      <4>1. Consistent(current, ready, state, timers) /\ Reschedule(ready, state)
        BY <3>4 DEF TickEnd, IInv
      <4> QED  BY <3>1, <4>1, <2>1, RescheduleOrder
    <3> QED  BY <2>10, <3>2, <3>3, <3>4 DEF TimerTicks
  <2> QED  BY <1>2, <2>4, <2>6, <2>7, <2>8, <2>9, <2>10 DEF Next
<1> QED  BY <1>1, <1>2

\* tdComp never fetches from a mailbox that tdParser has not initialised,
\* wherever tdUI and the timer interrupt the two (parserThread.c, xbee_init;
\* main.c, the order of creation).
THEOREM InitBeforeFetchSafe == SafeSpec => []InitBeforeFetch
<1>1. Init => OrderInv
  <2> SUFFICES ASSUME Init PROVE OrderInv
    OBVIOUS
  <2>1. /\ \A t \in Threads : state[t] = IF t = First THEN "current"
                                        ELSE IF t = Idle THEN "ready" ELSE "none"
        /\ ready = <<Idle>> /\ created = 0
    BY DEF Init, KernelInit
  <2>2. state["tdComp"] = "none" /\ state["tdParser"] = "none"
    BY <2>1, Names5, ThreadsAssumption
  <2>3. Len(ready) = 1 /\ ready[1] = "idle"
    BY <2>1, ThreadsAssumption
  <2>4. Before(ready, "tdParser", "tdComp")
    BY <2>3 DEF Before
  <2> QED  BY <2>1, <2>2, <2>4 DEF OrderInv, ParserFirst
<1>2. IInv /\ Created /\ OrderInv /\ [Next]_vars => OrderInv'
  BY OrderKept
<1>3. IInv /\ OrderInv => InitBeforeFetch
  BY Names5 DEF IInv, Consistent, OrderInv, ParserFirst, InitBeforeFetch, Running
<1> QED  BY <1>1, <1>2, <1>3, CreatedSafe, ThreadsUseTheKernel, KernelInvariance, PTL DEF SafeSpec

\* What the kernel and the driver promise holds of the program's threads.
THEOREM ThreadsSafe == SafeSpec => [](PriorityOrder /\ OnePlace /\ BusyIffWaited /\ OkMeansDone)
<1> QED  BY ThreadsUseTheKernel, ThreadsUseTheBus, PrioritySafe, OnePlaceSafe, BusyIffWaitedSafe,
            OkMeansDoneSafe, PTL

LEMMA InitialisedSafe == SafeSpec => [](initialised \in BOOLEAN)
<1>1. Init => initialised \in BOOLEAN
  BY DEF Init
<1>2. initialised \in BOOLEAN /\ [Next]_vars => (initialised \in BOOLEAN)'
  BY DEF Next, vars, MainCreates, MainSleeps, ParserWaits, ParserPosts, ByteArrives, CompFetches,
         UiSleeps, UiTransmits, UiFinishes, BusInterrupt, BusDies, TimerTicks
<1> QED  BY <1>1, <1>2, PTL DEF SafeSpec

\* The types of the kernel's lists, deltas and states, of the driver and of the
\* two counters hold together in the program.
THEOREM TypeCorrect == SafeSpec => []TypeOK
<1>1. BusInv => BusTypeOK
  BY DEF BusInv
<1>2. Created => created \in 0..Len(CreationOrder)
  BY DEF Created, CreationOrder
<1>3. ASSUME KernelTypeOK, OnePlace, BusTypeOK, created \in 0..Len(CreationOrder), initialised \in BOOLEAN
      PROVE  TypeOK
  BY <1>3, Zenon DEF TypeOK
<1> QED  BY <1>1, <1>2, <1>3, ThreadsUseTheKernel, ThreadsUseTheBus, KernelTypes, OnePlaceSafe,
            BusInvariance, CreatedSafe, InitialisedSafe, PTL

\* Every timeout of the program goes off in the tick it was set for, or is
\* disarmed: its deadlines are those of the kernel.
THEOREM ThreadsKeepDeadlines == SafeSpec => TimersKeepDeadlines
<1> QED  BY ThreadsUseTheKernel, TimersImplementDeadlines
=============================================================================
