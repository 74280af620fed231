---------------------------- MODULE InputProofs ----------------------------
(***************************************************************************)
(* Theorems about Input, for any number of sessions, keys, gamepads,       *)
(* fingers, messages and addresses.                                        *)
(***************************************************************************)
EXTENDS Input, SequenceTheorems, FiniteSetTheorems, WellFoundedInduction, TLAPS

-----------------------------------------------------------------------------
(* Sequences: what an insertion, a removal and the loss of the last element *)
(* leave.                                                                  *)
LEMMA LeastExists ==
  ASSUME NEW S, S \subseteq Nat, S # {}
  PROVE  \E x \in S : \A y \in S : x <= y
<1> DEFINE R == {ss \in Nat \X Nat : ss[1] < ss[2]}
<1>1. IsWellFoundedOn(R, Nat)
  BY NatLessThanWellFounded DEF OpToRel
<1> HIDE DEF R
<1>2. PICK x \in S : \A y \in S : ~ (<<y, x>> \in R)
  BY <1>1, WFMin
<1>3. \A y \in S : ~ (y < x)
  <2> TAKE y \in S
  <2>1. <<y, x>> \notin R /\ <<y, x>> \in Nat \X Nat /\ <<y, x>>[1] = y /\ <<y, x>>[2] = x
    BY <1>2
  <2> QED BY <2>1 DEF R
<1> QED BY <1>2, <1>3

(* Min of FiniteSetsExt returns that least element.                        *)
LEMMA MinIsLeast ==
  ASSUME NEW S, S \subseteq Nat, S # {}
  PROVE  Min(S) \in S /\ \A y \in S : Min(S) <= y
BY LeastExists DEF Min

(* What stands where after an insertion.                                   *)
LEMMA Inserted ==
  ASSUME NEW s \in Seq(Delayed), NEW i \in 1..Len(s) + 1, NEW e \in Delayed
  PROVE  /\ InsertAt(s, i, e) \in Seq(Delayed)
         /\ Len(InsertAt(s, i, e)) = Len(s) + 1
         /\ \A j \in 1..Len(s) + 1 :
              InsertAt(s, i, e)[j] = IF j < i THEN s[j] ELSE IF j = i THEN e ELSE s[j - 1]
<1> DEFINE a == SubSeq(s, 1, i - 1)
           b == SubSeq(s, i, Len(s))
<1>1. a \in Seq(Delayed) /\ Len(a) = i - 1 /\ \A j \in 1..i - 1 : a[j] = s[j]
  BY SubSeqProperties
<1>2. b \in Seq(Delayed) /\ Len(b) = Len(s) - i + 1 /\ \A j \in 1..Len(s) - i + 1 : b[j] = s[i + j - 1]
  BY SubSeqProperties
<1>3. /\ <<e>> \in Seq(Delayed) /\ Len(<<e>>) = 1 /\ <<e>>[1] = e
  OBVIOUS
<1> HIDE DEF a, b
<1> DEFINE c == a \o <<e>>
<1>4. c \in Seq(Delayed) /\ Len(c) = i /\ \A j \in 1..i : c[j] = IF j < i THEN s[j] ELSE e
  BY <1>1, <1>3, ConcatProperties
<1> HIDE DEF c
<1>5. Len(s) \in Nat /\ i \in Nat /\ Len(c) + Len(b) = Len(s) + 1
  BY <1>2, <1>4
<1>6. /\ c \o b \in Seq(Delayed) /\ Len(c \o b) = Len(s) + 1
      /\ \A j \in 1..Len(s) + 1 : (c \o b)[j] = IF j <= i THEN c[j] ELSE b[j - i]
  BY <1>2, <1>4, <1>5, ConcatProperties
<1>7. \A j \in 1..Len(s) + 1 : j > i => b[j - i] = s[j - 1]
  BY <1>2, <1>5
<1>8. \A j \in 1..Len(s) + 1 : j <= i => c[j] = IF j < i THEN s[j] ELSE e
  BY <1>4, <1>5
<1>9. InsertAt(s, i, e) = c \o b
  BY DEF InsertAt, a, b, c
<1> QED BY <1>5, <1>6, <1>7, <1>8, <1>9

(* What stands where after a removal.                                      *)
LEMMA Removed ==
  ASSUME NEW T, NEW s \in Seq(T), NEW i \in 1..Len(s)
  PROVE  /\ RemoveAt(s, i) \in Seq(T)
         /\ Len(RemoveAt(s, i)) = Len(s) - 1
         /\ \A j \in 1..Len(s) - 1 : RemoveAt(s, i)[j] = IF j < i THEN s[j] ELSE s[j + 1]
<1> DEFINE a == SubSeq(s, 1, i - 1)
           b == SubSeq(s, i + 1, Len(s))
<1>1. a \in Seq(T) /\ Len(a) = i - 1 /\ \A j \in 1..i - 1 : a[j] = s[j]
  BY SubSeqProperties
<1>2. b \in Seq(T) /\ Len(b) = Len(s) - i /\ \A j \in 1..Len(s) - i : b[j] = s[i + j]
  BY SubSeqProperties
<1> HIDE DEF a, b
<1>3. Len(s) \in Nat /\ i \in Nat /\ Len(a) + Len(b) = Len(s) - 1
  BY <1>1, <1>2
<1>4. /\ a \o b \in Seq(T) /\ Len(a \o b) = Len(s) - 1
      /\ \A j \in 1..Len(s) - 1 : (a \o b)[j] = IF j <= i - 1 THEN a[j] ELSE b[j - (i - 1)]
  BY <1>1, <1>2, <1>3, ConcatProperties
<1>5. \A j \in 1..Len(s) - 1 : j >= i => b[j - (i - 1)] = s[j + 1]
  BY <1>2, <1>3
<1>6. \A j \in 1..Len(s) - 1 : j < i => a[j] = s[j]
  BY <1>1, <1>3
<1>7. RemoveAt(s, i) = a \o b
  BY DEF RemoveAt, a, b
<1> QED BY <1>3, <1>4, <1>5, <1>6, <1>7

(* What is left without the last element.                                  *)
LEMMA Shortened ==
  ASSUME NEW T, NEW s \in Seq(T), s # <<>>
  PROVE  /\ Len(s) \in 1..Len(s) /\ s[Len(s)] \in T
         /\ SubSeq(s, 1, Len(s) - 1) \in Seq(T)
         /\ Len(SubSeq(s, 1, Len(s) - 1)) = Len(s) - 1
         /\ \A j \in 1..Len(s) - 1 : SubSeq(s, 1, Len(s) - 1)[j] = s[j]
<1>1. Len(s) \in Nat \ {0}
  BY EmptySeq
<1>2. \A j \in 1..Len(s) - 1 : s[j] \in T
  BY <1>1, ElementOfSeq
<1>3. Len(s) \in 1..Len(s) /\ s[Len(s)] \in T
  BY <1>1, ElementOfSeq
<1>4. /\ SubSeq(s, 1, Len(s) - 1) \in Seq(T)
      /\ Len(SubSeq(s, 1, Len(s) - 1)) = IF 1 <= Len(s) - 1 THEN Len(s) - 1 - 1 + 1 ELSE 0
      /\ \A j \in 1..Len(s) - 1 - 1 + 1 : SubSeq(s, 1, Len(s) - 1)[j] = s[1 + j - 1]
  BY <1>1, <1>2, SubSeqProperties
<1>5. \A l \in Nat \ {0} : /\ l - 1 - 1 + 1 = l - 1
                            /\ (IF 1 <= l - 1 THEN l - 1 - 1 + 1 ELSE 0) = l - 1
  OBVIOUS
<1>6. Len(SubSeq(s, 1, Len(s) - 1)) = Len(s) - 1
  BY <1>1, <1>4, <1>5
<1>7. \A j \in 1..Len(s) - 1 : 1 + j - 1 = j
  BY <1>1
<1>8. \A j \in 1..Len(s) - 1 : SubSeq(s, 1, Len(s) - 1)[j] = s[j]
  BY <1>1, <1>4, <1>5, <1>7
<1> QED BY <1>3, <1>4, <1>6, <1>8

-----------------------------------------------------------------------------
(* The delayed tasks.  A new task goes where the order asks for it, and an *)
(* id is cancelled with its one task.                                      *)
LEMMA PushedInOrder ==
  ASSUME NEW ts \in Seq(Delayed), NEW t \in Delayed, InOrder(ts), OneEach(ts),
         Find(ts, t.id) = {}
  PROVE  /\ PushDelayed(ts, t) \in Seq(Delayed)
         /\ PushDelayed(ts, t) # <<>>
         /\ InOrder(PushDelayed(ts, t)) /\ OneEach(PushDelayed(ts, t))
         /\ Range(PushDelayed(ts, t)) = Range(ts) \cup {t}
<1> DEFINE p == Position(ts, t.in)
           n == PushDelayed(ts, t)
<1>1. \A u \in Delayed : u.in \in Nat
  BY DEF Delayed
<1>2. Earlier(ts, t.in) \subseteq Nat /\ DOMAIN ts = 1..Len(ts) /\ Len(ts) \in Nat
  BY DEF Earlier
<1>3. /\ p \in 1..Len(ts) + 1
      /\ \A j \in 1..Len(ts) : j < p => ts[j].in >= t.in
      /\ p <= Len(ts) => ts[p].in < t.in
  <2>1. CASE Earlier(ts, t.in) = {}
    BY <1>1, <1>2, <2>1 DEF Position, Earlier
  <2>2. CASE Earlier(ts, t.in) # {}
    <3>1. p \in Earlier(ts, t.in) /\ \A y \in Earlier(ts, t.in) : p <= y
      BY <1>2, <2>2, MinIsLeast DEF Position
    <3> QED BY <1>1, <1>2, <3>1 DEF Earlier
  <2> QED BY <2>1, <2>2
<1> HIDE DEF p
<1>4. /\ n \in Seq(Delayed) /\ Len(n) = Len(ts) + 1 /\ DOMAIN n = 1..Len(ts) + 1
      /\ \A j \in 1..Len(ts) + 1 :
           n[j] = IF j < p THEN ts[j] ELSE IF j = p THEN t ELSE ts[j - 1]
  <2>1. n = InsertAt(ts, p, t)
    BY DEF PushDelayed, p
  <2> HIDE DEF n
  <2>2. /\ InsertAt(ts, p, t) \in Seq(Delayed) /\ Len(InsertAt(ts, p, t)) = Len(ts) + 1
        /\ \A j \in 1..Len(ts) + 1 : InsertAt(ts, p, t)[j]
             = IF j < p THEN ts[j] ELSE IF j = p THEN t ELSE ts[j - 1]
    <3>1. p \in 1..Len(ts) + 1
      BY <1>3
    <3> QED BY ONLY <3>1, ts \in Seq(Delayed), t \in Delayed, Inserted
  <2> QED BY <2>1, <2>2
<1> HIDE DEF n
<1>5. InOrder(n)
  <2> SUFFICES ASSUME NEW i \in 1..Len(ts) + 1, NEW j \in 1..Len(ts) + 1, i < j
               PROVE  n[i].in >= n[j].in
    BY <1>4 DEF InOrder
  <2>1. \A k \in 1..Len(ts) : ts[k] \in Delayed /\ ts[k].in \in Nat
    BY <1>1, <1>2
  <2>2. \A k, m \in 1..Len(ts) : k < m => ts[k].in >= ts[m].in
    BY <1>2 DEF InOrder
  <2>3. t.in \in Nat
    BY <1>1
  <2>4. CASE j < p
    BY <1>2, <1>3, <1>4, <2>1, <2>2, <2>4
  <2>5. CASE j = p
    BY <1>2, <1>3, <1>4, <2>1, <2>2, <2>3, <2>5
  <2>6. CASE j > p
    <3>1. n[j] = ts[j - 1] /\ j - 1 \in 1..Len(ts) /\ j - 1 >= p
      BY <1>2, <1>3, <1>4, <2>6
    <3>2. ts[p].in >= ts[j - 1].in /\ p \in 1..Len(ts)
      BY <1>2, <1>3, <2>1, <2>2, <3>1
    <3>3. CASE i < p
      BY <1>2, <1>3, <1>4, <2>1, <2>2, <3>1, <3>3
    <3>4. CASE i = p
      <4>1. n[i] = t /\ ts[p].in < t.in /\ ts[p].in \in Nat /\ ts[j - 1].in \in Nat
        BY <1>3, <1>4, <2>1, <3>1, <3>2, <3>4
      <4> QED BY <2>3, <3>1, <3>2, <4>1
    <3>5. CASE i > p
      <4>1. n[i] = ts[i - 1] /\ i - 1 \in 1..Len(ts)
        BY <1>2, <1>3, <1>4, <3>5
      <4> QED BY <1>2, <2>2, <3>1, <4>1
    <3> QED BY <1>3, <3>3, <3>4, <3>5
  <2> QED BY <1>3, <2>4, <2>5, <2>6
<1>6. \A i, j \in 1..Len(ts) : ts[i].id = ts[j].id => i = j
  BY <1>2 DEF OneEach
<1>7. \A i \in 1..Len(ts) : ts[i].id # t.id
  BY <1>2 DEF Find
<1>8. OneEach(n)
  <2> SUFFICES ASSUME NEW i \in 1..Len(ts) + 1, NEW j \in 1..Len(ts) + 1, n[i].id = n[j].id
               PROVE  i = j
    BY <1>4 DEF OneEach
  <2>1. CASE i = p \/ j = p
    <3>1. n[p] = t /\ p \in 1..Len(ts) + 1
      BY <1>3, <1>4
    <3>2. ASSUME NEW k \in 1..Len(ts) + 1, k # p
          PROVE  n[k].id # t.id
      <4>1. CASE k < p
        <5>1. n[k] = ts[k] /\ k \in 1..Len(ts)
          BY <1>2, <1>3, <1>4, <4>1
        <5> QED BY <1>7, <5>1
      <4>2. CASE k > p
        <5>1. n[k] = ts[k - 1] /\ k - 1 \in 1..Len(ts)
          BY <1>2, <1>3, <1>4, <4>2
        <5> QED BY <1>7, <5>1
      <4> QED BY <1>3, <3>2, <4>1, <4>2
    <3> QED BY <2>1, <3>1, <3>2
  <2>2. CASE i # p /\ j # p
    <3> DEFINE old(k) == IF k < p THEN k ELSE k - 1
    <3>1. /\ old(i) \in 1..Len(ts) /\ n[i] = ts[old(i)]
          /\ old(j) \in 1..Len(ts) /\ n[j] = ts[old(j)]
      <4>1. \A k \in 1..Len(ts) + 1 : k # p => old(k) \in 1..Len(ts) /\ n[k] = ts[old(k)]
        <5> TAKE k \in 1..Len(ts) + 1
        <5>1. CASE k < p
          BY <1>2, <1>3, <1>4, <5>1
        <5>2. CASE k > p
          BY <1>2, <1>3, <1>4, <5>2
        <5> QED BY <1>3, <5>1, <5>2
      <4> QED BY <2>2, <4>1
    <3>2. old(i) = old(j)
      BY <1>6, <3>1
    <3> QED BY <1>3, <2>2, <3>2
  <2> QED BY <2>1, <2>2
<1>9. Range(n) = Range(ts) \cup {t}
  <2>1. \A x \in Range(n) : x \in Range(ts) \cup {t}
    <3> SUFFICES ASSUME NEW k \in 1..Len(ts) + 1 PROVE n[k] \in Range(ts) \cup {t}
      BY <1>4 DEF Range
    <3>1. CASE k < p
      BY <1>2, <1>3, <1>4, <3>1 DEF Range
    <3>2. CASE k > p
      <4>1. k - 1 \in 1..Len(ts) /\ n[k] = ts[k - 1]
        BY <1>2, <1>3, <1>4, <3>2
      <4> QED BY <1>2, <4>1 DEF Range
    <3>3. CASE k = p
      BY <1>4, <3>3
    <3> QED BY <1>3, <3>1, <3>2, <3>3
  <2>2. \A i \in 1..Len(ts) : \E j \in 1..Len(ts) + 1 : n[j] = ts[i]
    <3> TAKE i \in 1..Len(ts)
    <3>1. CASE i < p
      BY <1>2, <1>3, <1>4, <3>1
    <3>2. CASE i >= p
      <4>1. i + 1 \in 1..Len(ts) + 1 /\ n[i + 1] = ts[i]
        BY <1>2, <1>3, <1>4, <3>2
      <4> QED BY <4>1
    <3> QED BY <1>3, <3>1, <3>2
  <2>3. t \in Range(n)
    BY <1>3, <1>4 DEF Range
  <2> QED BY <1>2, <1>4, <2>1, <2>2, <2>3 DEF Range
<1> QED BY <1>4, <1>5, <1>8, <1>9 DEF n

(* cancel() takes out the task with the id, if there is one, and no other. *)
LEMMA CancelledAlone ==
  ASSUME NEW ts \in Seq(Delayed), NEW id, InOrder(ts), OneEach(ts)
  PROVE  /\ Cancel(ts, id) \in Seq(Delayed)
         /\ InOrder(Cancel(ts, id)) /\ OneEach(Cancel(ts, id))
         /\ Range(Cancel(ts, id)) = {t \in Range(ts) : t.id # id}
<1> DEFINE n == Cancel(ts, id)
<1>1. DOMAIN ts = 1..Len(ts) /\ Len(ts) \in Nat /\ Find(ts, id) \subseteq Nat
  BY DEF Find
<1>2. CASE Find(ts, id) = {}
  BY <1>2 DEF Cancel, Find, Range
<1>3. CASE Find(ts, id) # {}
  <2> DEFINE p == Min(Find(ts, id))
  <2>1. p \in 1..Len(ts) /\ ts[p].id = id
    BY <1>1, <1>3, MinIsLeast DEF Find
  <2>2. n = RemoveAt(ts, p)
    BY <1>3 DEF Cancel
  <2> HIDE DEF p, n
  <2>3. /\ n \in Seq(Delayed) /\ Len(n) = Len(ts) - 1 /\ DOMAIN n = 1..Len(ts) - 1
        /\ \A j \in 1..Len(ts) - 1 : n[j] = IF j < p THEN ts[j] ELSE ts[j + 1]
    <3>1. /\ RemoveAt(ts, p) \in Seq(Delayed) /\ Len(RemoveAt(ts, p)) = Len(ts) - 1
          /\ \A j \in 1..Len(ts) - 1 :
               RemoveAt(ts, p)[j] = IF j < p THEN ts[j] ELSE ts[j + 1]
      BY ONLY <2>1, ts \in Seq(Delayed), Removed
    <3> QED BY <2>2, <3>1
  <2>4. InOrder(n)
    <3>1. \A k, m \in 1..Len(ts) : k < m => ts[k].in >= ts[m].in
      BY <1>1 DEF InOrder
    <3> SUFFICES ASSUME NEW i \in 1..Len(ts) - 1, NEW j \in 1..Len(ts) - 1, i < j
                 PROVE  n[i].in >= n[j].in
      BY <2>3 DEF InOrder
    <3>2. /\ i \in 1..Len(ts) /\ i + 1 \in 1..Len(ts)
          /\ j \in 1..Len(ts) /\ j + 1 \in 1..Len(ts)
      BY <1>1
    <3>3. CASE j < p
      BY <2>1, <2>3, <3>1, <3>2, <3>3
    <3>4. CASE i < p /\ j >= p
      BY <2>1, <2>3, <3>1, <3>2, <3>4
    <3>5. CASE i >= p
      BY <2>1, <2>3, <3>1, <3>2, <3>5
    <3>6. j < p \/ (i < p /\ j >= p) \/ i >= p
      BY <2>1
    <3> HIDE DEF p
    <3> QED BY <3>3, <3>4, <3>5, <3>6
  <2>5. \A i, j \in 1..Len(ts) : ts[i].id = ts[j].id => i = j
    BY <1>1 DEF OneEach
  <2> DEFINE old(k) == IF k < p THEN k ELSE k + 1
  <2>6. \A k \in 1..Len(ts) - 1 : old(k) \in 1..Len(ts) /\ old(k) # p /\ n[k] = ts[old(k)]
    BY <1>1, <2>1, <2>3
  <2>7. OneEach(n)
    <3> SUFFICES ASSUME NEW i \in 1..Len(ts) - 1, NEW j \in 1..Len(ts) - 1, n[i].id = n[j].id
                 PROVE  i = j
      BY <2>3 DEF OneEach
    <3>1. old(i) = old(j)
      BY <2>5, <2>6
    <3> QED BY <2>1, <3>1
  <2>8. \A x \in Range(n) : x \in Range(ts) /\ x.id # id
    <3> SUFFICES ASSUME NEW k \in 1..Len(ts) - 1 PROVE n[k] \in Range(ts) /\ n[k].id # id
      BY <2>3 DEF Range
    <3> HIDE DEF old
    <3> QED BY <1>1, <2>1, <2>5, <2>6 DEF Range
  <2>9. \A i \in 1..Len(ts) : ts[i].id # id => ts[i] \in Range(n)
    <3> SUFFICES ASSUME NEW i \in 1..Len(ts), i # p PROVE \E j \in 1..Len(ts) - 1 : n[j] = ts[i]
      BY <2>1, <2>3 DEF Range
    <3>1. CASE i < p
      <4>1. i \in 1..Len(ts) - 1 /\ n[i] = ts[i]
        BY <1>1, <2>1, <2>3, <3>1
      <4> QED BY <4>1
    <3>2. CASE i > p
      <4>1. i - 1 \in 1..Len(ts) - 1 /\ n[i - 1] = ts[i]
        BY <1>1, <2>1, <2>3, <3>2
      <4> QED BY <4>1
    <3> QED BY <2>1, <3>1, <3>2
  <2> QED BY <1>1, <2>3, <2>4, <2>7, <2>8, <2>9 DEF Range, n
<1> QED BY <1>2, <1>3

(* Popping the last delayed task takes out that one and no other.          *)
LEMMA PoppedLast ==
  ASSUME NEW ts \in Seq(Delayed), InOrder(ts), OneEach(ts), ts # <<>>
  PROVE  LET n == SubSeq(ts, 1, Len(ts) - 1)
         IN /\ n \in Seq(Delayed) /\ InOrder(n) /\ OneEach(n)
            /\ ts[Len(ts)] \in Range(ts)
            /\ Range(n) = {t \in Range(ts) : t.id # ts[Len(ts)].id}
<1> DEFINE n == SubSeq(ts, 1, Len(ts) - 1)
<1>1. DOMAIN ts = 1..Len(ts) /\ Len(ts) \in Nat
  OBVIOUS
<1>2. /\ Len(ts) \in 1..Len(ts) /\ n \in Seq(Delayed) /\ DOMAIN n = 1..Len(ts) - 1
      /\ \A j \in 1..Len(ts) - 1 : n[j] = ts[j]
  BY Shortened
<1> HIDE DEF n
<1>3. \A i, j \in 1..Len(ts) : ts[i].id = ts[j].id => i = j
  BY <1>1 DEF OneEach
<1>4. InOrder(n) /\ OneEach(n)
  BY <1>1, <1>2, <1>3 DEF InOrder, OneEach
<1>5. \A i \in 1..Len(ts) : ts[i].id # ts[Len(ts)].id => i \in 1..Len(ts) - 1
  BY <1>1
<1>6. \A i \in 1..Len(ts) - 1 : i \in 1..Len(ts) /\ ts[i].id # ts[Len(ts)].id
  BY <1>1, <1>2, <1>3
<1>7. Range(n) = {t \in Range(ts) : t.id # ts[Len(ts)].id}
  BY <1>1, <1>2, <1>5, <1>6 DEF Range
<1>8. ts[Len(ts)] \in Range(ts)
  BY <1>1, <1>2 DEF Range
<1> QED BY <1>2, <1>4, <1>7, <1>8 DEF n

(* Time changes neither the order of the delayed tasks nor what they are.  *)
LEMMA TimePasses ==
  ASSUME NEW ts \in Seq(Delayed), InOrder(ts), OneEach(ts)
  PROVE  /\ Passed(ts) \in Seq(Delayed)
         /\ InOrder(Passed(ts)) /\ OneEach(Passed(ts))
         /\ \A u \in Range(Passed(ts)) : \E t \in Range(ts) :
              u.do = t.do /\ u.of = t.of /\ u.id = t.id
         /\ \A t \in Range(ts) : \E u \in Range(Passed(ts)) :
              u.do = t.do /\ u.of = t.of /\ u.id = t.id
<1> DEFINE n == Passed(ts)
           later(t) == [t EXCEPT !.in = IF @ = 0 THEN 0 ELSE @ - 1]
<1>1. DOMAIN ts = 1..Len(ts) /\ Len(ts) \in Nat /\ \A i \in 1..Len(ts) : ts[i] \in Delayed
  OBVIOUS
<1>2. \A t \in Delayed :
        /\ later(t) \in Delayed
        /\ later(t).do = t.do /\ later(t).of = t.of /\ later(t).id = t.id
        /\ later(t).in = IF t.in = 0 THEN 0 ELSE t.in - 1
        /\ t.in \in Nat
  BY DEF Delayed
<1>3. DOMAIN n = 1..Len(ts) /\ \A i \in 1..Len(ts) : n[i] = later(ts[i])
  BY <1>1 DEF Passed
<1>4. n = [i \in 1..Len(ts) |-> later(ts[i])]
  BY <1>1 DEF Passed
<1> HIDE DEF later
<1>5. n \in Seq(Delayed)
  BY <1>1, <1>2, <1>4
<1> HIDE DEF n
<1>6. InOrder(n)
  <2> SUFFICES ASSUME NEW i \in 1..Len(ts), NEW j \in 1..Len(ts), i < j
               PROVE  n[i].in >= n[j].in
    BY <1>3 DEF InOrder
  <2>1. ts[i].in >= ts[j].in /\ ts[i].in \in Nat /\ ts[j].in \in Nat
    BY <1>1, <1>2 DEF InOrder
  <2>2. /\ n[i].in = IF ts[i].in = 0 THEN 0 ELSE ts[i].in - 1
        /\ n[j].in = IF ts[j].in = 0 THEN 0 ELSE ts[j].in - 1
    BY <1>1, <1>2, <1>3
  <2> QED BY <2>1, <2>2
<1>7. OneEach(n)
  BY <1>1, <1>2, <1>3 DEF OneEach
<1> QED BY <1>1, <1>2, <1>3, <1>5, <1>6, <1>7 DEF Range, n
-----------------------------------------------------------------------------
(* What tasks and messages are made of.                                    *)
LEMMA RunningTasks ==
  \A h \in Running :
    /\ h # Idle /\ h.do # "nothing"
    /\ h.do \in {"next", "left"} => h.of \in Sessions
    /\ h.do = "repeat" => h.of \in [key : AllKeys, mod : BOOLEAN]
    /\ h.do = "home" => h.of \in Sessions \X Pads
    /\ h.do = "free" => h.of \in PadIds
BY DEF Running, Undelayed, Idle

(* A task that is popped is one the worker can have in hand.               *)
LEMMA PoppedTasks ==
  /\ \A t \in Undelayed : [do |-> t.do, of |-> t.of, id |-> None] \in Running
  /\ \A t \in Delayed : [do |-> t.do, of |-> t.of, id |-> t.id] \in Running /\ t.id \in Ids
BY DEF Running, Delayed

(* For the provers, which do not see it in the kinds of messages.          *)
LEMMA Booleans == {TRUE} \subseteq BOOLEAN /\ {FALSE} \subseteq BOOLEAN
OBVIOUS

(* The fields a message of each kind has.                                  *)
LEMMA KindsOfMessages ==
  \A m \in Sendable :
    /\ m # Idle
    /\ m.kind \in {"relative", "absolute", "button", "key", "pad", "arrival", "touch"}
    /\ m.kind = "relative" => m.dx \in Int16 /\ m.dy \in Int16
    /\ m.kind = "button" => m.button \in {"left", "right"} /\ m.down \in BOOLEAN
    /\ m.kind = "key" => m.key \in AllKeys /\ m.down \in BOOLEAN /\ m.mod \in BOOLEAN
    /\ m.kind \in {"pad", "arrival"} => m.pad \in Pads
    /\ m.kind = "touch" => m.pointer \in Pointers /\ m.event \in {"DOWN", "MOVE", "UP"}
<1>1. ASSUME NEW m \in AllMessages
      PROVE  /\ m # Idle
             /\ m.kind \in {"relative", "absolute", "button", "key", "pad", "arrival", "touch"}
             /\ m.kind = "relative" => m.dx \in Int16 /\ m.dy \in Int16
             /\ m.kind = "button" => m.button \in {"left", "right"} /\ m.down \in BOOLEAN
             /\ m.kind = "key" => m.key \in AllKeys /\ m.down \in BOOLEAN /\ m.mod \in BOOLEAN
             /\ m.kind \in {"pad", "arrival"} => m.pad \in Pads
             /\ m.kind = "touch" => m.pointer \in Pointers /\ m.event \in {"DOWN", "MOVE", "UP"}
  <2>1. CASE m \in [kind : {"relative"}, dx : Steps, dy : Steps]
    <3>1. m.kind = "relative" /\ m.dx \in Steps /\ m.dy \in Steps
      BY <2>1
    <3> QED BY <2>1, <3>1, InputAssumption DEF Idle
  <2>2. CASE m \in [kind : {"absolute"}, size : {1}]
    BY <2>2 DEF Idle
  <2>3. CASE m \in [kind : {"button"}, button : {"left", "right"}, down : BOOLEAN]
    BY <2>3 DEF Idle
  <2>4. CASE m \in [kind : {"key"}, key : Keys, down : {TRUE}, mod : BOOLEAN]
    <3>1. m # Idle /\ m.kind = "key" /\ m.key \in AllKeys
      BY <2>4 DEF AllKeys, Idle
    <3>2. m.down \in {TRUE} /\ m.mod \in BOOLEAN
      BY <2>4
    <3> QED BY <3>1, <3>2, Booleans
  <2>8. CASE m \in [kind : {"key"}, key : {Mod}, down : {TRUE}, mod : {FALSE}]
    <3>1. m # Idle /\ m.kind = "key" /\ m.key \in AllKeys
      BY <2>8 DEF AllKeys, Idle
    <3>2. m.down \in {TRUE} /\ m.mod \in {FALSE}
      BY <2>8
    <3> QED BY <3>1, <3>2, Booleans
  <2>9. CASE m \in [kind : {"key"}, key : AllKeys, down : {FALSE}, mod : {FALSE}]
    <3>1. m # Idle /\ m.kind = "key" /\ m.key \in AllKeys
      BY <2>9 DEF Idle
    <3>2. m.down \in {FALSE} /\ m.mod \in {FALSE}
      BY <2>9
    <3> QED BY <3>1, <3>2, Booleans
  <2>5. CASE m \in [kind : {"pad"}, pad : Pads, mask : SUBSET Pads,
                    buttons : SUBSET {"BACK"}]
    BY <2>5 DEF Idle
  <2>6. CASE m \in [kind : {"arrival"}, pad : Pads]
    BY <2>6 DEF Idle
  <2>7. CASE m \in [kind : {"touch"}, pointer : Pointers, event : {"DOWN", "MOVE", "UP"}]
    BY <2>7 DEF Idle
  <2> QED BY <2>1, <2>2, <2>3, <2>4, <2>5, <2>6, <2>7, <2>8, <2>9 DEF AllMessages
<1>2. ASSUME NEW m \in [kind : {"relative"}, dx : Int16, dy : Int16]
      PROVE  m # Idle /\ m.kind = "relative" /\ m.dx \in Int16 /\ m.dy \in Int16
  BY DEF Idle
<1> QED BY <1>1, <1>2 DEF Sendable

(* Wrapping gives a 16-bit integer.                                        *)
LEMMA Wraps == \A n \in Int : Wrap16(n) \in Int16
BY DEF Int16, Wrap16

(* Messages of another kind, or touches of another finger, are not merged; *)
(* a touch is merged into the next touch of its finger, with its event.    *)
LEMMA BatchKeeps ==
  ASSUME NEW d \in Sendable, NEW m \in AllMessages
  PROVE  /\ Batch(d, m).result \in {"terminate_batch", "not_batchable", "batched"}
         /\ Batch(d, m).result = "batched" =>
              /\ m.kind = d.kind
              /\ Batch(d, m).message \in Sendable
              /\ Batch(d, m).message.kind = d.kind
              /\ d.kind = "touch" => /\ Batch(d, m).message = m
                                     /\ d.pointer = m.pointer /\ d.event = m.event
         /\ Batch(d, m).result = "not_batchable" /\ d.kind = "touch" =>
              d.pointer # m.pointer
<1>1. m \in Sendable
  BY DEF Sendable
<1>2. /\ d.kind \in {"relative", "absolute", "button", "key", "pad", "arrival", "touch"}
      /\ m.kind \in {"relative", "absolute", "button", "key", "pad", "arrival", "touch"}
  BY <1>1, KindsOfMessages
<1>3. CASE d.kind # m.kind
  BY <1>3 DEF Batch, Terminate
<1>4. CASE d.kind = "relative" /\ m.kind = "relative"
  <2>1. Batch(d, m) = BatchRelative(d, m)
    BY <1>4 DEF Batch
  <2>2. d.dx \in Int /\ d.dy \in Int /\ m.dx \in Int /\ m.dy \in Int
    <3>1. d.dx \in Int16 /\ d.dy \in Int16 /\ m.dx \in Int16 /\ m.dy \in Int16
      BY <1>1, <1>4, KindsOfMessages
    <3>2. \A n \in Int16 : n \in Int
      BY DEF Int16
    <3> QED BY <3>1, <3>2
  <2>4. d \in [kind : {"relative"}, dx : Int16, dy : Int16]
    BY <1>4, InputAssumption DEF Sendable, AllMessages
  <2>5. [d EXCEPT !.dx = Wrap16(@ + m.dx), !.dy = Wrap16(@ + m.dy)]
          \in [kind : {"relative"}, dx : Int16, dy : Int16]
    <3>1. Wrap16(d.dx + m.dx) \in Int16 /\ Wrap16(d.dy + m.dy) \in Int16
      BY <2>2, Wraps
    <3> HIDE DEF Wrap16, Int16
    <3> QED BY <2>4, <3>1
  <2> QED BY <1>4, <2>1, <2>5 DEF BatchRelative, Terminate, Batched, Sendable
<1>5. CASE d.kind = "absolute" /\ m.kind = "absolute"
  <2>1. Batch(d, m) = BatchAbsolute(d, m)
    BY <1>5 DEF Batch
  <2> QED BY <1>1, <1>5, <2>1 DEF BatchAbsolute, Terminate, Batched
<1>6. CASE d.kind = "pad" /\ m.kind = "pad"
  <2>1. Batch(d, m) = BatchPad(d, m)
    BY <1>6 DEF Batch
  <2> QED BY <1>1, <1>6, <2>1 DEF BatchPad, Attempt, Terminate, NotBatchable, Batched
<1>7. CASE d.kind = "touch" /\ m.kind = "touch"
  <2>1. Batch(d, m) = BatchTouch(d, m)
    BY <1>7 DEF Batch
  <2> QED BY <1>1, <1>7, <2>1 DEF BatchTouch, Attempt, Terminate, NotBatchable, Batched
<1>8. CASE d.kind = m.kind /\ d.kind \in {"button", "key", "arrival"}
  <2>1. Batch(d, m) = Terminate
    BY <1>8 DEF Batch
  <2> QED BY <2>1 DEF Terminate
<1> QED BY <1>2, <1>3, <1>4, <1>5, <1>6, <1>7, <1>8

-----------------------------------------------------------------------------
(* The worker has a task in hand exactly while it runs one.                *)
Hands ==
  /\ worker \in {"pop", "lock", "wait"} <=> hand = Idle
  /\ worker \in {"merge", "send"} => hand.do = "next" /\ message \in Sendable
  /\ worker = "repeat" => hand.do = "repeat"
  /\ worker = "merge" => at # 0

(* Only the task of key_press_repeat_id repeats a key, and none waits while *)
(* it runs.                                                                *)
Repeats ==
  \A t \in Range(timers) : t.do = "repeat" => t.id = repeatId /\ hand.do # "repeat"

(* The last event of a finger is the last one queued, or else the one being *)
(* sent, or else the one the operating system was told.                    *)
OfFinger(m, p) == m.kind = "touch" /\ m.pointer = p
InHand(s, p) ==
  worker \in {"merge", "send"} /\ hand.of = s /\ OfFinger(message, p)
LastOf(q, p, i) == OfFinger(q[i], p) /\ \A j \in DOMAIN q : OfFinger(q[j], p) => j <= i
NoneOf(q, p) == \A j \in DOMAIN q : ~OfFinger(q[j], p)
Ends(q, p, told, event) ==
  \/ \E i \in DOMAIN q : LastOf(q, p, i) /\ q[i].event = event
  \/ NoneOf(q, p) /\ told = event
LastTold(s, p) == IF InHand(s, p) THEN message.event ELSE Heard(<<s, p>>)
Kept(s, p) == Ends(queue[s], p, LastTold(s, p), touched[<<s, p>>])
Fingers == \A s \in Sessions, p \in Pointers : Kept(s, p)

(* No touch is merged past another one of its finger.                      *)
Skipped ==
  worker = "merge" /\ message.kind = "touch" =>
    \A j \in DOMAIN queue[hand.of] : j < at => ~OfFinger(queue[hand.of][j], message.pointer)

(* PadsOwned, id by id; no id waits to be freed twice.                     *)
Frees == {i \in DOMAIN tasks : tasks[i].do = "free"}
Plugged ==
  /\ os.pads = mask
  /\ \A id \in PadIds :
       id \in mask <=> (\E x \in Sessions \X Pads : pad[x] = id) \/ id \in Freeing
  /\ \A x, y \in Sessions \X Pads : x # y /\ pad[x] >= 0 => pad[x] # pad[y]
  /\ \A x \in Sessions \X Pads : pad[x] \notin Freeing
  /\ \A i, j \in Frees : tasks[i].of = tasks[j].of => i = j
  /\ hand.do = "free" => \A i \in Frees : tasks[i].of # hand.of

Inv ==
  /\ TypeOK /\ Hands
  /\ NeverSleepsOnWork
  /\ Repeats /\ KeysFollow /\ OnlyMapped /\ ButtonsFollow /\ Fingers /\ Skipped
  /\ Plugged

(* The invariant holds at first.                                           *)
LEMMA Initially == Init => Inv
<1> SUFFICES ASSUME Init PROVE Inv
  OBVIOUS
<1>1. tasks = <<>> /\ timers = <<>> /\ hand = Idle /\ worker = "pop"
  BY DEF Init
<1>2. TypeOK
  <2>1. /\ tasks \in Seq(Undelayed) /\ timers \in Seq(Delayed)
        /\ InOrder(timers) /\ OneEach(timers)
    BY <1>1 DEF InOrder, OneEach
  <2>2. queue \in [Sessions -> Seq(AllMessages)]
    BY DEF Init
  <2>3. os \in Shown
    BY InputAssumption DEF Init, Shown
  <2>10. ignored \in [Sessions \X Pointers -> {"DOWN", "MOVE", "UP", "none"}] /\ abandoned \subseteq Codes
    BY DEF Init
  <2>4. back \in [Sessions \X Pads -> BackStates]
    BY DEF Init, BackStates
  <2>5. sent \in 0..MaxMessages
    BY InputAssumption DEF Init
  <2>8. asked \in Int /\ at \in Nat /\ mask \subseteq PadIds /\ mix \in Mixes
    BY DEF Init
  <2>9. lost \in BOOLEAN
    BY DEF Init
  <2>6. /\ hand \in Running \cup {Idle} /\ message \in Sendable \cup {Idle}
        /\ session \in [Sessions -> {"new", "open", "closed", "gone"}]
        /\ keyPress \in [AllKeys -> BOOLEAN] /\ mousePress \in [{"left", "right"} -> BOOLEAN]
        /\ repeatId \in Ids \cup {None} /\ shortcut \in [Sessions -> BOOLEAN]
        /\ leftTimeout \in [Sessions -> Ids \cup {None, Disabled}]
    BY DEF Init
  <2>7. /\ pad \in [Sessions \X Pads -> PadIds \cup {-1}]
        /\ backTimeout \in [Sessions \X Pads -> Ids \cup {None}]
        /\ touched \in [Sessions \X Pointers -> {"DOWN", "MOVE", "UP"}]
    BY DEF Init
  <2> QED BY <1>1, <2>1, <2>2, <2>3, <2>4, <2>5, <2>6, <2>7, <2>8, <2>9, <2>10 DEF TypeOK
<1>3. Hands
  BY <1>1 DEF Hands
<1>4. NeverSleepsOnWork /\ Repeats /\ KeysFollow /\ OnlyMapped /\ ButtonsFollow
  BY <1>1 DEF Init, NeverSleepsOnWork, Repeats, KeysFollow, OnlyMapped, ButtonsFollow, Range
<1>5. Fingers
  BY <1>1 DEF Init, Fingers, Kept, Ends, NoneOf, LastTold, InHand, Heard
<1>8. Skipped
  BY <1>1 DEF Skipped
<1>6. Freeing = {}
  BY <1>1 DEF Freeing, Idle
<1>7. Plugged
  BY <1>1, <1>6 DEF Init, Plugged, Frees, PadIds, Idle
<1> QED BY <1>2, <1>3, <1>4, <1>5, <1>7, <1>8 DEF Inv
-----------------------------------------------------------------------------
(* What each action does to the delayed tasks.                             *)
TimersOK == timers \in Seq(Delayed) /\ InOrder(timers) /\ OneEach(timers)

(* The delayed tasks are typed and have addresses.                         *)
LEMMA WaitingTasks ==
  ASSUME TimersOK
  PROVE  \A t \in Range(timers) : t \in Delayed /\ t.id \in Ids /\ t.id # None
<1>1. \A t \in Range(timers) : t \in Delayed
  BY DEF TimersOK, Range
<1> QED BY <1>1, PoppedTasks, InputAssumption

(* A new task gets an address no waiting one has.                          *)
LEMMA FreshIsNobodys ==
  ASSUME NEW id \in FreshIds PROVE id \in Ids /\ \A t \in Range(timers) : t.id # id
BY DEF FreshIds, Find, Range

(* pushDelayed() adds one task and keeps the order.                        *)
LEMMA AfterKeeps ==
  ASSUME NEW list \in Seq(Delayed), InOrder(list), OneEach(list),
         Range(list) \subseteq Range(timers),
         NEW do, NEW x, NEW in, NEW id \in FreshIds,
         [do |-> do, of |-> x, in |-> in, id |-> id] \in Delayed,
         After(list, do, x, in, id)
  PROVE  /\ TimersOK' /\ timers' # <<>>
         /\ Range(timers)' = Range(list) \cup {[do |-> do, of |-> x, in |-> in, id |-> id]}
<1> DEFINE t == [do |-> do, of |-> x, in |-> in, id |-> id]
<1>1. t.id = id /\ t \in Delayed
  OBVIOUS
<1>2. timers' = PushDelayed(list, t)
  BY DEF After
<1> HIDE DEF t
<1>3. Find(list, t.id) = {}
  BY <1>1, FreshIsNobodys DEF Find, Range
<1> QED BY <1>1, <1>2, <1>3, PushedInOrder DEF TimersOK, t

(* Tasks with one of these ids go, and these come.                         *)
Moves(gone, new) ==
  TimersOK' /\ Range(timers)' = {t \in Range(timers) : t.id \notin gone} \cup new

(* alloc() delays the nudge of the mouse.                                  *)
LEMMA AllocTimers ==
  ASSUME TimersOK, NEW s \in Sessions, Alloc(s)
  PROVE  \E t : t.do = "nudge" /\ Moves({}, {t})
<1>1. PICK id \in FreshIds : After(timers, "nudge", None, NudgeDelay, id)
  BY DEF Alloc
<1> DEFINE t == [do |-> "nudge", of |-> None, in |-> NudgeDelay, id |-> id]
<1>2. t \in Delayed
  BY <1>1, FreshIsNobodys DEF Delayed, NudgeDelay
<1>3. t.do = "nudge" /\ Moves({}, {t})
  BY <1>1, <1>2, AfterKeeps DEF TimersOK, Moves
<1> QED BY <1>3

(* reset() cancels the repetition and the delayed left release.            *)
LEMMA ResetTimers ==
  ASSUME TimersOK, NEW s \in Sessions, Reset(s)
  PROVE  Moves({repeatId, leftTimeout[s]}, {})
<1> DEFINE first == Cancel(timers, repeatId)
<1>1. /\ first \in Seq(Delayed) /\ InOrder(first) /\ OneEach(first)
      /\ Range(first) = {t \in Range(timers) : t.id # repeatId}
  BY CancelledAlone DEF TimersOK
<1> HIDE DEF first
<1>2. /\ TimersOK'
      /\ Range(timers)' = {t \in Range(first) : t.id # leftTimeout[s]}
  BY <1>1, CancelledAlone DEF Reset, first, TimersOK
<1> QED BY <1>1, <1>2 DEF Moves

(* pop() takes a delayed task only when no other is queued.                *)
LEMMA PopTimers ==
  ASSUME TimersOK, Pop
  PROVE  \/ UNCHANGED timers
         \/ /\ tasks = <<>> /\ UNCHANGED tasks
            /\ \E t \in Range(timers) :
                 hand' = [do |-> t.do, of |-> t.of, id |-> t.id] /\ Moves({t.id}, {})
<1> DEFINE l == timers[Len(timers)]
<1>1. CASE UNCHANGED timers
  BY <1>1
<1>2. CASE /\ timers # <<>> /\ tasks = <<>> /\ UNCHANGED tasks
           /\ hand' = [do |-> l.do, of |-> l.of, id |-> l.id]
           /\ timers' = SubSeq(timers, 1, Len(timers) - 1)
  <2>1. l \in Range(timers) /\ Moves({l.id}, {})
    BY <1>2, PoppedLast DEF TimersOK, Moves
  <2> QED BY <1>2, <2>1
<1> QED BY <1>1, <1>2 DEF Pop, Due, pool

(* The clock keeps the delayed tasks.                                      *)
LEMMA TickTimers ==
  ASSUME TimersOK, Tick
  PROVE  /\ TimersOK'
         /\ \A u \in Range(timers)' : \E t \in Range(timers) :
              u.do = t.do /\ u.of = t.of /\ u.id = t.id
         /\ \A t \in Range(timers) : \E u \in Range(timers)' :
              u.do = t.do /\ u.of = t.of /\ u.id = t.id
BY TimePasses DEF TimersOK, Tick

(* A mouse button may delay a left release.                                *)
LEMMA SendButtonTimers ==
  ASSUME TypeOK, Hands, SendButton
  PROVE  \/ UNCHANGED timers
         \/ \E t : t.do = "left" /\ Moves({}, {t})
<1>1. CASE \E id \in FreshIds : After(timers, "left", hand.of, LeftDelay, id)
  <2>1. PICK id \in FreshIds : After(timers, "left", hand.of, LeftDelay, id)
    BY <1>1
  <2> DEFINE t == [do |-> "left", of |-> hand.of, in |-> LeftDelay, id |-> id]
  <2>2. hand.of \in Sessions
    BY RunningTasks DEF TypeOK, Hands, SendButton, Sends, Idle
  <2>3. t \in Delayed
    BY <2>1, <2>2, FreshIsNobodys DEF Delayed, LeftDelay
  <2>4. t.do = "left" /\ Moves({}, {t})
    BY <2>1, <2>3, AfterKeeps DEF TypeOK, TimersOK, Moves
  <2> QED BY <2>4
<1>2. CASE UNCHANGED timers
  BY <1>2
<1> QED BY <1>1, <1>2 DEF SendButton

(* The delayed tasks but for the repetition.                               *)
LEMMA UnrepeatedTimers ==
  ASSUME TimersOK
  PROVE  /\ Unrepeated \in Seq(Delayed) /\ InOrder(Unrepeated) /\ OneEach(Unrepeated)
         /\ Range(Unrepeated) = {t \in Range(timers) : t.id # repeatId}
<1>1. CASE repeatId = None
  BY <1>1, WaitingTasks DEF TimersOK, Unrepeated
<1>2. CASE repeatId # None
  BY <1>2, CancelledAlone DEF TimersOK, Unrepeated
<1> QED BY <1>1, <1>2

(* A key may replace the task that repeats one.                            *)
LEMMA SendKeyTimers ==
  ASSUME TypeOK, Hands, SendKey
  PROVE  \/ UNCHANGED <<timers, repeatId>>
         \/ \E t : /\ t.do = "repeat" /\ t.id = repeatId' /\ repeatId' \in Ids
                   /\ Moves({repeatId}, {t})
<1>1. CASE UNCHANGED <<timers, repeatId>>
  BY <1>1
<1>2. ASSUME NEW id \in FreshIds, repeatId' = id,
             NEW mod \in BOOLEAN,
             After(Unrepeated, "repeat", [key |-> message.key, mod |-> mod], RepeatDelay, id)
      PROVE  \E t : /\ t.do = "repeat" /\ t.id = repeatId' /\ repeatId' \in Ids
                    /\ Moves({repeatId}, {t})
  <2> DEFINE t == [do |-> "repeat", of |-> [key |-> message.key, mod |-> mod],
                   in |-> RepeatDelay, id |-> id]
  <2>1. message.key \in AllKeys
    BY KindsOfMessages DEF Hands, SendKey, Sends
  <2>2. t \in Delayed
    BY <1>2, <2>1, FreshIsNobodys DEF Delayed, RepeatDelay
  <2>3. TimersOK
    BY DEF TypeOK, TimersOK
  <2>4. t.do = "repeat" /\ t.id = repeatId' /\ repeatId' \in Ids /\ Moves({repeatId}, {t})
    BY <1>2, <2>2, <2>3, AfterKeeps, UnrepeatedTimers, FreshIsNobodys DEF Moves
  <2> QED BY <2>4
<1>3. CASE \E id \in FreshIds :
             /\ After(Unrepeated, "repeat",
                      [key |-> message.key,
                       mod |-> message.down /\ message.key # Mod /\ ~shortcut[hand.of] /\ message.mod],
                      RepeatDelay, id)
             /\ repeatId' = id
  <2> DEFINE mod == message.down /\ message.key # Mod /\ ~shortcut[hand.of] /\ message.mod
  <2>1. mod \in BOOLEAN
    OBVIOUS
  <2>2. PICK id \in FreshIds :
             /\ After(Unrepeated, "repeat", [key |-> message.key, mod |-> mod], RepeatDelay, id)
             /\ repeatId' = id
    BY <1>3
  <2> HIDE DEF mod
  <2> QED BY <1>2, <2>1, <2>2
<1> QED BY <1>1, <1>3 DEF SendKey, keyboard

(* repeat_key() delays itself again.                                       *)
LEMMA RepeatAgainTimers ==
  ASSUME TypeOK, Hands, RepeatAgain
  PROVE  \E t : /\ t.do = "repeat" /\ t.id = repeatId' /\ repeatId' \in Ids
                /\ Moves({}, {t})
<1>1. PICK id \in FreshIds : After(timers, "repeat", hand.of, RepeatPeriod, id) /\ repeatId' = id
  BY DEF RepeatAgain
<1> DEFINE t == [do |-> "repeat", of |-> hand.of, in |-> RepeatPeriod, id |-> id]
<1>2. hand.of \in [key : AllKeys, mod : BOOLEAN]
  BY RunningTasks DEF TypeOK, Hands, RepeatAgain, Idle
<1>3. t \in Delayed
  BY <1>1, <1>2, FreshIsNobodys DEF Delayed, RepeatPeriod
<1>4. t.do = "repeat" /\ t.id = repeatId' /\ repeatId' \in Ids /\ Moves({}, {t})
  BY <1>1, <1>3, AfterKeeps, FreshIsNobodys DEF TypeOK, TimersOK, Moves
<1> QED BY <1>4

(* A gamepad state may begin or cancel the wait of the back button.        *)
LEMMA SendPadTimers ==
  ASSUME TypeOK, Hands, SendPad
  PROVE  \/ UNCHANGED <<timers, lost>>
         \/ (\E t : t.do = "home" /\ Moves({}, {t})) /\ UNCHANGED lost
         \/ \E id : Moves({id}, {}) /\ lost' = (lost \/ LosesLeft(id))
<1> DEFINE x == <<hand.of, message.pad>>
<1>1. x \in Sessions \X Pads
  BY RunningTasks, KindsOfMessages DEF TypeOK, Hands, SendPad, Sends, Idle
<1>2. CASE UNCHANGED <<timers, lost>>
  BY <1>2
<1>3. CASE (\E id \in FreshIds : After(timers, "home", x, BackTimeout, id)) /\ UNCHANGED lost
  <2>1. PICK id \in FreshIds : After(timers, "home", x, BackTimeout, id)
    BY <1>3
  <2> HIDE DEF x
  <2> DEFINE t == [do |-> "home", of |-> x, in |-> BackTimeout, id |-> id]
  <2>2. t \in Delayed
    BY <1>1, <2>1, FreshIsNobodys DEF Delayed, BackTimeout
  <2>3. t.do = "home" /\ Moves({}, {t})
    BY <2>1, <2>2, AfterKeeps DEF TypeOK, TimersOK, Moves
  <2> QED BY <1>3, <2>3
<1>4. CASE timers' = Cancel(timers, backTimeout[x]) /\ lost' = (lost \/ LosesLeft(backTimeout[x]))
  <2>1. Moves({backTimeout[x]}, {})
    BY <1>4, CancelledAlone DEF TypeOK, TimersOK, Moves
  <2> QED BY <1>4, <2>1
<1>5. ASSUME NEW down, BackTimer(x, down)
      PROVE  \/ UNCHANGED <<timers, lost>>
             \/ (\E id \in FreshIds : After(timers, "home", x, BackTimeout, id)) /\ UNCHANGED lost
             \/ timers' = Cancel(timers, backTimeout[x]) /\ lost' = (lost \/ LosesLeft(backTimeout[x]))
  <2> HIDE DEF x
  <2> QED BY <1>5 DEF BackTimer
<1> QED BY <1>2, <1>3, <1>4, <1>5 DEF SendPad

(* The other actions leave them alone.                                     *)
LEMMA TimersLeft ==
  ASSUME [Next]_vars
  PROVE  \/ UNCHANGED timers
         \/ \E s \in Sessions : Alloc(s) \/ Reset(s)
         \/ Pop \/ Tick \/ SendButton \/ SendKey \/ RepeatAgain \/ SendPad
BY DEF Next, Work, vars, pool, Passthrough, Destroy, GiveBack, Lock, NextMessage, Merge,
       Sends, SendRelative, SendAbsolute, SendArrival, SendTouch, LeftRelease, Repeat,
       Release, Nudge, Home, Free

(* Every step keeps the delayed tasks in the order in which they are due,  *)
(* each at an address of its own.                                          *)
LEMMA TimersStep == ASSUME TypeOK, Hands, [Next]_vars PROVE TimersOK'
<1>1. TimersOK
  BY DEF TypeOK, TimersOK
<1>2. CASE UNCHANGED timers
  BY <1>1, <1>2 DEF TimersOK
<1>3. ASSUME NEW s \in Sessions, Alloc(s) \/ Reset(s) PROVE TimersOK'
  BY <1>1, <1>3, AllocTimers, ResetTimers DEF Moves
<1>4. CASE Pop \/ Tick
  BY <1>1, <1>2, <1>4, PopTimers, TickTimers DEF Moves
<1>5. CASE SendButton \/ SendKey
  BY <1>2, <1>5, SendButtonTimers, SendKeyTimers DEF Moves
<1>6. CASE RepeatAgain \/ SendPad
  BY <1>2, <1>6, RepeatAgainTimers, SendPadTimers DEF Moves
<1> QED BY <1>2, <1>3, <1>4, <1>5, <1>6, TimersLeft
-----------------------------------------------------------------------------
(* The control thread and the clock leave the worker's task alone.         *)
Outside ==
  \/ \E s \in Sessions : Alloc(s) \/ Passthrough(s) \/ Reset(s) \/ Destroy(s)
  \/ \E s \in Sessions, c \in Pads : GiveBack(s, c)
  \/ Tick
  \/ UNCHANGED vars

(* What the control thread and the clock leave to the worker.              *)
LEMMA OutsideLeaves ==
  ASSUME Outside
  PROVE  /\ worker' = worker \/ (worker = "wait" /\ worker' = "pop")
         /\ UNCHANGED <<hand, batch, os, keyboard, mouse>>
         /\ tasks' = <<>> \/ worker' # "wait" \/ UNCHANGED tasks
BY DEF Outside, Alloc, Passthrough, Reset, Destroy, GiveBack, Tick, Woken, vars, pool,
       keyboard, mouse, pads

(* A step is one of the worker or of somebody else.                        *)
LEMMA NextIs == ASSUME [Next]_vars PROVE Outside \/ Work
BY DEF Next, Outside

(* The worker has a task in hand exactly while it runs one.                *)
LEMMA HandsStep == ASSUME TypeOK, Hands, [Next]_vars PROVE Hands'
<1> USE DEF Hands, Done, Runs, Sends, batch
<1>1. CASE Outside
  <2>1. worker' = worker \/ (worker = "wait" /\ worker' = "pop")
    BY <1>1, OutsideLeaves
  <2>2. UNCHANGED <<hand, message, at>>
    BY <1>1, OutsideLeaves
  <2> QED BY <2>1, <2>2
<1>2. CASE Pop
  <2>1. CASE tasks # <<>> /\ worker' = "run"
             /\ hand' = [do |-> Head(tasks).do, of |-> Head(tasks).of, id |-> None]
    <3>1. Head(tasks) \in Undelayed
      BY <2>1, HeadTailProperties DEF TypeOK
    <3>2. hand' # Idle
      BY <2>1, <3>1, PoppedTasks, RunningTasks
    <3> QED BY <2>1, <3>2
  <2>2. CASE timers # <<>> /\ worker' = "run"
             /\ hand' = [do |-> timers[Len(timers)].do, of |-> timers[Len(timers)].of,
                         id |-> timers[Len(timers)].id]
    <3>1. timers[Len(timers)] \in Delayed
      BY <2>2, Shortened DEF TypeOK
    <3>2. hand' # Idle
      BY <2>2, <3>1, PoppedTasks, RunningTasks
    <3> QED BY <2>2, <3>2
  <2>3. CASE worker = "pop" /\ worker' = "lock" /\ UNCHANGED hand
    BY <2>3
  <2> QED BY <1>2, <2>1, <2>2, <2>3 DEF Pop, Due
<1>3. CASE Lock
  BY <1>3 DEF Lock
<1>4. CASE NextMessage
  <2>1. CASE Done
    BY <1>4, <2>1 DEF NextMessage
  <2>2. CASE /\ queue[hand.of] # <<>> /\ message' = Head(queue[hand.of]) /\ at' = 1
             /\ worker' = "merge" /\ UNCHANGED hand
    <3>1. hand.of \in Sessions /\ hand # Idle
      BY <1>4, RunningTasks DEF NextMessage, TypeOK, Idle
    <3>2. Head(queue[hand.of]) \in Sendable
      BY <2>2, <3>1, HeadTailProperties DEF TypeOK, Sendable
    <3> QED BY <1>4, <2>2, <3>1, <3>2 DEF NextMessage
  <2> QED BY <1>4, <2>1, <2>2 DEF NextMessage
<1>5. CASE Merge
  <2>1. CASE worker' = "send" /\ UNCHANGED <<hand, message>>
    BY <1>5, <2>1 DEF Merge
  <2>2. CASE at' = at + 1 /\ UNCHANGED <<worker, hand, message>>
    BY <1>5, <2>2 DEF Merge, TypeOK
  <2>3. CASE Outcome.result = "batched" /\ message' = Outcome.message
             /\ UNCHANGED <<worker, hand, at>>
    <3>1. hand.of \in Sessions /\ hand # Idle
      BY <1>5, RunningTasks DEF Merge, TypeOK, Idle
    <3>2. at <= Len(queue[hand.of])
      BY <2>3, <3>1 DEF Outcome, Terminate, TypeOK
    <3>3. at \in 1..Len(queue[hand.of]) /\ queue[hand.of] \in Seq(AllMessages)
      BY <1>5, <3>1, <3>2 DEF Merge, TypeOK
    <3>4. queue[hand.of][at] \in AllMessages
      BY <3>3
    <3>5. message' \in Sendable
      BY <1>5, <2>3, <3>2, <3>3, <3>4, BatchKeeps DEF Merge, Outcome, TypeOK
    <3> QED BY <1>5, <2>3, <3>5 DEF Merge
  <2> QED BY <1>5, <2>1, <2>2, <2>3 DEF Merge
<1>6. CASE SendRelative \/ SendAbsolute \/ SendButton \/ SendKey \/ SendArrival \/ SendPad \/ SendTouch
  BY <1>6 DEF SendRelative, SendAbsolute, SendButton, SendKey, SendArrival, SendPad, SendTouch
<1>7. CASE LeftRelease \/ Release \/ Nudge \/ Home \/ Free \/ RepeatAgain
  BY <1>7 DEF LeftRelease, Release, Nudge, Home, Free, RepeatAgain
<1>8. CASE Repeat
  BY <1>8 DEF Repeat, Idle
<1> QED BY <1>1, <1>2, <1>3, <1>4, <1>5, <1>6, <1>7, <1>8, NextIs DEF Work

-----------------------------------------------------------------------------
(* The worker sleeps only after it has asked under _lock whether anything  *)
(* is to do, and is woken by everything that comes.                        *)
LEMMA AwakeStep ==
  ASSUME TypeOK, Hands, NeverSleepsOnWork, [Next]_vars
  PROVE  NeverSleepsOnWork'
<1> SUFFICES ASSUME worker' = "wait" PROVE ~Ready'
  BY DEF NeverSleepsOnWork
<1>1. CASE Lock
  BY <1>1 DEF Lock, Ready, Due, pool
<1>2. CASE Outside
  <2>1. worker = "wait" /\ ~Ready
    BY <1>2, OutsideLeaves DEF NeverSleepsOnWork
  <2>2. CASE \E s \in Sessions : Alloc(s) \/ Passthrough(s) \/ Reset(s)
    BY <2>2 DEF Alloc, Passthrough, Reset, Woken
  <2>3. CASE \E s \in Sessions, c \in Pads : GiveBack(s, c)
    BY <2>3 DEF GiveBack, Woken
  <2>4. CASE (\E s \in Sessions : Destroy(s)) \/ UNCHANGED vars
    BY <2>1, <2>4 DEF Destroy, vars, pool, Ready, Due
  <2>5. CASE Tick
    BY <2>1, <2>5 DEF Tick, Woken, Ready
  <2> QED BY <1>2, <2>2, <2>3, <2>4, <2>5 DEF Outside
<1>3. ~Pop /\ ~NextMessage /\ ~Merge /\ ~Repeat
  BY DEF Pop, NextMessage, Merge, Repeat, Done, Runs
<1>4. ~SendRelative /\ ~SendAbsolute /\ ~SendButton /\ ~SendKey
      /\ ~SendArrival /\ ~SendPad /\ ~SendTouch
  BY DEF SendRelative, SendAbsolute, SendButton, SendKey, SendArrival, SendPad, SendTouch,
         Sends, Done
<1>5. ~LeftRelease /\ ~RepeatAgain /\ ~Release /\ ~Nudge /\ ~Home /\ ~Free
  BY DEF LeftRelease, RepeatAgain, Release, Nudge, Home, Free, Done
<1> QED BY <1>1, <1>2, <1>3, <1>4, <1>5, NextIs DEF Work

-----------------------------------------------------------------------------
(* One task repeats a key.                                                 *)
LEMMA RepeatsStep ==
  ASSUME TypeOK, Hands, Repeats, [Next]_vars
  PROVE  Repeats'
<1>0. TimersOK
  BY DEF TypeOK, TimersOK
<1>1. ASSUME UNCHANGED timers, repeatId' = repeatId \/ hand.do = "repeat",
             hand'.do = "repeat" => hand.do = "repeat"
      PROVE  Repeats'
  BY <1>1 DEF Repeats
<1>2. ASSUME NEW gone, NEW t, Moves(gone, {t}) \/ Moves(gone, {}), t.do # "repeat",
             UNCHANGED <<repeatId, hand>>
      PROVE  Repeats'
  BY <1>2 DEF Repeats, Moves
<1>3. ASSUME NEW s \in Sessions, Alloc(s) PROVE Repeats'
  BY <1>0, <1>2, <1>3, AllocTimers DEF Alloc, keyboard
<1>4. ASSUME NEW s \in Sessions, Reset(s) PROVE Repeats'
  <2>1. Moves({repeatId, leftTimeout[s]}, {})
    BY <1>0, <1>4, ResetTimers
  <2>2. UNCHANGED <<repeatId, hand>>
    BY <1>4 DEF Reset, keyboard
  <2> QED BY <2>1, <2>2 DEF Repeats, Moves
<1>5. CASE Tick
  BY <1>0, <1>5, TickTimers DEF Tick, keyboard, Repeats
<1>6. CASE Pop
  <2>1. hand = Idle /\ UNCHANGED repeatId
    BY <1>6 DEF Pop, Hands, keyboard
  <2>2. CASE UNCHANGED timers
    <3>1. hand'.do # "repeat"
      <4>1. CASE tasks # <<>> /\ hand'.do = Head(tasks).do
        <5>1. Head(tasks) \in Undelayed
          BY <4>1, HeadTailProperties DEF TypeOK
        <5> QED BY <4>1, <5>1 DEF Undelayed
      <4>2. CASE UNCHANGED hand
        BY <2>1, <4>2 DEF Idle
      <4>3. ~(tasks = <<>> /\ Due(timers) /\ timers' = SubSeq(timers, 1, Len(timers) - 1))
        <5>1. SUFFICES ASSUME timers # <<>> PROVE SubSeq(timers, 1, Len(timers) - 1) # timers
          BY <2>2 DEF Due
        <5>2. Len(SubSeq(timers, 1, Len(timers) - 1)) = Len(timers) - 1 /\ Len(timers) \in Nat
          BY <1>0, <5>1, Shortened DEF TimersOK
        <5> QED BY <5>2
      <4> QED BY <1>6, <4>1, <4>2, <4>3 DEF Pop
    <3> QED BY <1>1, <2>1, <2>2, <3>1
  <2>3. ASSUME NEW t \in Range(timers), hand' = [do |-> t.do, of |-> t.of, id |-> t.id],
               Moves({t.id}, {})
        PROVE  Repeats'
    BY <2>1, <2>3 DEF Repeats, Moves
  <2> QED BY <1>0, <1>6, <2>2, <2>3, PopTimers
<1>7. CASE SendButton
  <2>1. hand' = Idle /\ hand.do # "repeat" /\ UNCHANGED repeatId
    BY <1>7 DEF SendButton, Sends, Done, Hands, keyboard
  <2>2. ASSUME NEW t, t.do = "left", Moves({}, {t}) PROVE Repeats'
    BY <2>1, <2>2 DEF Repeats, Moves, Idle
  <2> QED BY <1>1, <1>7, <2>1, <2>2, SendButtonTimers DEF Idle
<1>8. CASE SendKey
  <2>1. hand' = Idle /\ hand.do # "repeat"
    BY <1>8 DEF SendKey, Sends, Done, Hands
  <2>2. ASSUME NEW t, t.do = "repeat", t.id = repeatId', Moves({repeatId}, {t}) PROVE Repeats'
    BY <2>1, <2>2 DEF Repeats, Moves, Idle
  <2> QED BY <1>1, <1>8, <2>1, <2>2, SendKeyTimers DEF Idle
<1>9. CASE RepeatAgain
  <2>1. hand' = Idle /\ hand.do = "repeat"
    BY <1>9 DEF RepeatAgain, Done, Hands
  <2>2. ASSUME NEW t, t.do = "repeat", t.id = repeatId', Moves({}, {t}) PROVE Repeats'
    BY <2>1, <2>2 DEF Repeats, Moves, Idle
  <2> QED BY <1>9, <2>2, RepeatAgainTimers
<1>10. CASE SendPad
  <2>1. hand' = Idle /\ hand.do # "repeat" /\ UNCHANGED repeatId
    BY <1>10 DEF SendPad, Sends, Done, Hands, keyboard
  <2>2. ASSUME NEW t, t.do = "home", Moves({}, {t}) PROVE Repeats'
    BY <2>1, <2>2 DEF Repeats, Moves, Idle
  <2>3. ASSUME NEW id, Moves({id}, {}) PROVE Repeats'
    BY <2>1, <2>3 DEF Repeats, Moves, Idle
  <2> QED BY <1>1, <1>10, <2>1, <2>2, <2>3, SendPadTimers DEF Idle
<1>11. CASE UNCHANGED timers /\ ~Pop
  <2>1. CASE Outside
    <3>1. UNCHANGED <<hand, repeatId>>
      BY <2>1, OutsideLeaves DEF keyboard
    <3> QED BY <1>1, <1>11, <3>1
  <2>2. CASE Lock \/ NextMessage \/ Merge \/ Repeat
    <3>1. /\ repeatId' = repeatId \/ hand.do = "repeat"
          /\ hand' = hand \/ hand' = Idle
      BY <2>2 DEF Lock, NextMessage, Merge, Repeat, Done, Runs, keyboard
    <3> QED BY <1>1, <1>11, <3>1 DEF Idle
  <2>3. CASE \/ SendRelative \/ SendAbsolute \/ SendArrival \/ SendTouch
             \/ LeftRelease \/ Release \/ Nudge \/ Home \/ Free
    <3>1. repeatId' = repeatId /\ hand' = Idle
      BY <2>3 DEF SendRelative, SendAbsolute, SendArrival, SendTouch, Sends, Done, LeftRelease,
                  Release, Nudge, Home, Free, keyboard
    <3> QED BY <1>1, <1>11, <3>1 DEF Idle
  <2> QED BY <1>7, <1>8, <1>9, <1>10, <1>11, <2>1, <2>2, <2>3, NextIs DEF Work
<1> QED BY <1>3, <1>4, <1>5, <1>6, <1>7, <1>8, <1>9, <1>10, <1>11, TimersLeft
-----------------------------------------------------------------------------
(* No key is down that is not pressed.                                     *)
LEMMA KeysStep ==
  ASSUME TypeOK, Hands, KeysFollow, OnlyMapped, [Next]_vars
  PROVE  KeysFollow' /\ OnlyMapped'
<1>0. /\ os \in Shown /\ keyPress \in [AllKeys -> BOOLEAN]
      /\ os.keys \subseteq Codes
  BY DEF TypeOK, Shown
<1>1. ASSUME os'.keys = os.keys, UNCHANGED <<keyPress, abandoned>> PROVE KeysFollow' /\ OnlyMapped'
  BY <1>1 DEF KeysFollow, Pressed, MapKeycode, OnlyMapped
<1>2. CASE SendKey
  <2> DEFINE k == message.key
             synthetic == message.down /\ k # Mod /\ ~shortcut[hand.of] /\ message.mod
  <2>1. k \in AllKeys /\ message.down \in BOOLEAN
    BY <1>2, KindsOfMessages DEF SendKey, Sends, Hands
  <2>2. CASE keyPress' = [keyPress EXCEPT ![k] = message.down] /\ Struck(k, message.down, synthetic)
    <3> HIDE DEF k, synthetic
    <3>1. /\ os'.keys \subseteq IF message.down THEN os.keys \cup {MapKeycode(k)}
                              ELSE os.keys \ {MapKeycode(k)}
          /\ abandoned' = IF message.down THEN abandoned ELSE abandoned \ {MapKeycode(k)}
      BY <1>0, <2>2 DEF Struck, Shown
    <3>2. \A j \in AllKeys : keyPress'[j] = IF j = k THEN message.down ELSE keyPress[j]
      BY <1>0, <2>1, <2>2
    <3>3. OnlyMapped'
      BY <3>1 DEF OnlyMapped, MapKeycode
    <3>4. KeysFollow'
      BY <1>0, <2>1, <3>1, <3>2 DEF KeysFollow, Pressed, MapKeycode
    <3> QED BY <3>3, <3>4
  <2> QED BY <1>1, <1>2, <2>2 DEF SendKey, keyboard
<1>3. CASE Repeat
  <2>1. CASE keyPress[hand.of.key] /\ Struck(hand.of.key, TRUE, hand.of.mod) /\ UNCHANGED keyPress
    <3>1. os'.keys \subseteq os.keys \cup {MapKeycode(hand.of.key)} /\ UNCHANGED abandoned
      BY <1>0, <2>1 DEF Struck, Shown
    <3>2. hand.of.key \in AllKeys
      BY <1>3, RunningTasks DEF Repeat, Runs, TypeOK, Idle
    <3> QED BY <2>1, <3>1, <3>2 DEF KeysFollow, Pressed, OnlyMapped, MapKeycode
  <2> QED BY <1>1, <1>3, <2>1 DEF Repeat, history, faults
<1>4. CASE Release
  <2>1. /\ os'.keys = os.keys \ Pressed
        /\ abandoned' = (abandoned \cup {MapKeycode(k) : k \in Pressed}) \ Pressed
    BY <1>0, <1>4 DEF Release, Shown
  <2>2. OnlyMapped'
    BY <2>1 DEF OnlyMapped, MapKeycode, Pressed
  <2>3. os'.keys \subseteq abandoned'
    BY <2>1 DEF KeysFollow
  <2> QED BY <2>2, <2>3 DEF KeysFollow
<1>5. CASE Outside
  <2>1. UNCHANGED abandoned
    BY <1>5 DEF Outside, Alloc, Passthrough, Reset, Destroy, GiveBack, Tick, vars, history, faults
  <2> QED BY <1>1, <1>5, <2>1, OutsideLeaves DEF keyboard
<1>6. CASE Pop \/ Lock \/ NextMessage \/ Merge \/ RepeatAgain \/ Nudge \/ Home
  <2>1. UNCHANGED <<os, keyPress, abandoned>>
    BY <1>6 DEF Pop, Lock, NextMessage, Merge, RepeatAgain, Nudge, Home, keyboard, history, faults
  <2> QED BY <1>1, <2>1
<1>7. CASE SendRelative \/ SendAbsolute \/ SendButton \/ SendTouch \/ LeftRelease
  <2>1. os'.keys = os.keys /\ UNCHANGED <<keyPress, abandoned>>
    BY <1>0, <1>7 DEF SendRelative, SendAbsolute, SendButton, SendTouch, LeftRelease,
                      Presses, Releases, Shown, keyboard, history, faults
  <2> QED BY <1>1, <2>1
<1>8. CASE SendArrival \/ SendPad \/ Free
  <2>1. os'.keys = os.keys /\ UNCHANGED <<keyPress, abandoned>>
    BY <1>0, <1>8 DEF SendArrival, SendPad, Free, Plug, Unplug, Shown, keyboard, pads, history, faults
  <2> QED BY <1>1, <2>1
<1> QED BY <1>2, <1>3, <1>4, <1>5, <1>6, <1>7, <1>8, NextIs DEF Work

-----------------------------------------------------------------------------
(* The left button is down only while the program knows, or its release is *)
(* still to come, or was cancelled.                                        *)
LEMMA ToCome ==
  ReleaseToCome <=> (\E t \in Range(timers) : t.do = "left") \/ hand.do = "left"
BY DEF ReleaseToCome, Range

(* Cancelling an id loses the left release waiting at that address, if     *)
(* any.                                                                    *)
LEMMA Loses == \A id : LosesLeft(id) <=> \E t \in Range(timers) : t.id = id /\ t.do = "left"
BY DEF LosesLeft, Find, Range

(* A release that is to come stays so until it runs or is cancelled.       *)
LEMMA ReleaseStays ==
  ASSUME TypeOK, Hands, [Next]_vars, ReleaseToCome \/ lost
  PROVE  (ReleaseToCome \/ lost)' \/ LeftRelease
<1>0. TimersOK
  BY DEF TypeOK, TimersOK
<1> DEFINE Left == \E t \in Range(timers) : t.do = "left"
<1>1. (ReleaseToCome <=> Left \/ hand.do = "left")
      /\ (ReleaseToCome' <=> Left' \/ hand'.do = "left")
  BY ToCome DEF ReleaseToCome, Range
<1>2. Idle.do # "left"
  BY DEF Idle
<1> HIDE DEF Left
<1>3. ASSUME UNCHANGED <<timers, lost>>, hand' = hand \/ hand.do # "left"
      PROVE  (ReleaseToCome \/ lost)'
  BY <1>1, <1>3 DEF Left
<1>4. ASSUME NEW t, Moves({}, {t}), UNCHANGED lost, hand' = hand \/ hand.do # "left"
      PROVE  (ReleaseToCome \/ lost)'
  BY <1>1, <1>4 DEF Left, Moves
<1>5. ASSUME NEW gone, NEW new, Moves(gone, new), hand' = hand \/ hand.do # "left",
             lost' <=> lost \/ \E id \in gone : LosesLeft(id)
      PROVE  (ReleaseToCome \/ lost)'
  BY <1>1, <1>5, Loses DEF Left, Moves
<1>6. ASSUME NEW s \in Sessions, Alloc(s) PROVE (ReleaseToCome \/ lost)'
  BY <1>0, <1>4, <1>6, AllocTimers DEF Alloc, history, faults
<1>7. ASSUME NEW s \in Sessions, Reset(s) PROVE (ReleaseToCome \/ lost)'
  <2>1. Moves({repeatId, leftTimeout[s]}, {})
    BY <1>0, <1>7, ResetTimers
  <2>2. hand' = hand /\ (lost' <=> lost \/ \E id \in {repeatId, leftTimeout[s]} : LosesLeft(id))
    BY <1>7 DEF Reset
  <2> QED BY <1>5, <2>1, <2>2
<1>8. CASE Tick
  <2>1. UNCHANGED <<hand, lost>>
    BY <1>8 DEF Tick, history, faults
  <2>2. Left => Left'
    BY <1>0, <1>8, TickTimers DEF Left
  <2> QED BY <1>1, <2>1, <2>2
<1>9. CASE Pop
  <2>1. hand.do # "left" /\ UNCHANGED lost
    BY <1>2, <1>9 DEF Pop, Hands, history, faults
  <2>2. ASSUME NEW t \in Range(timers), hand' = [do |-> t.do, of |-> t.of, id |-> t.id],
               Moves({t.id}, {})
        PROVE  (ReleaseToCome \/ lost)'
    <3>1. \A u \in Range(timers) : u.id = t.id => u = t
      BY <1>0 DEF TimersOK, OneEach, Range
    <3>2. Left => t.do = "left" \/ Left'
      BY <2>2, <3>1 DEF Left, Moves
    <3> QED BY <1>1, <2>1, <2>2, <3>2
  <2> QED BY <1>0, <1>3, <1>9, <2>1, <2>2, PopTimers
<1>10. CASE SendButton
  <2>1. hand.do # "left" /\ UNCHANGED lost
    BY <1>10 DEF SendButton, Sends, Hands, faults
  <2> QED BY <1>3, <1>4, <1>10, <2>1, SendButtonTimers
<1>11. CASE SendKey
  <2>1. (lost' <=> lost \/ LosesLeft(repeatId)) \/ UNCHANGED <<timers, lost>>
    BY <1>11 DEF SendKey, Sends, Hands, faults
  <2>2. hand.do # "left"
    BY <1>11 DEF SendKey, Sends, Hands, faults
  <2>3. CASE UNCHANGED timers /\ UNCHANGED lost
    BY <1>3, <2>2, <2>3
  <2>4. ASSUME NEW t, Moves({repeatId}, {t}), lost' <=> lost \/ LosesLeft(repeatId)
        PROVE  (ReleaseToCome \/ lost)'
    BY <1>5, <2>2, <2>4
  <2>5. CASE UNCHANGED timers /\ (lost' <=> lost \/ LosesLeft(repeatId))
    BY <1>1, <2>2, <2>5 DEF Left
  <2>6. ASSUME NEW t, Moves({repeatId}, {t}), UNCHANGED <<timers, lost>>
        PROVE  (ReleaseToCome \/ lost)'
    BY <1>3, <2>2, <2>6
  <2> QED BY <1>11, <2>1, <2>3, <2>4, <2>5, <2>6, SendKeyTimers
<1>12. CASE SendPad
  <2>1. hand.do # "left"
    BY <1>12 DEF SendPad, Sends, Hands, faults
  <2>2. ASSUME NEW id, Moves({id}, {}), lost' = (lost \/ LosesLeft(id))
        PROVE  (ReleaseToCome \/ lost)'
    BY <1>5, <2>1, <2>2
  <2> QED BY <1>3, <1>4, <1>12, <2>1, <2>2, SendPadTimers
<1>13. CASE RepeatAgain
  <2>1. hand.do # "left" /\ UNCHANGED lost
    BY <1>13 DEF RepeatAgain, Hands, history, faults
  <2> QED BY <1>4, <1>13, <2>1, RepeatAgainTimers
<1>14. CASE UNCHANGED timers /\ ~Pop
  <2>1. CASE Outside
    <3>1. CASE \E s \in Sessions : Alloc(s) \/ Reset(s)
      BY <1>6, <1>7, <3>1
    <3>2. CASE ~\E s \in Sessions : Alloc(s) \/ Reset(s)
      <4>1. UNCHANGED lost
        BY <2>1, <3>2 DEF Outside, Passthrough, Destroy, GiveBack, Tick, history, faults, vars
      <4> QED BY <1>3, <1>14, <2>1, <4>1, OutsideLeaves
    <3> QED BY <3>1, <3>2
  <2>2. CASE Lock \/ NextMessage \/ Merge \/ Repeat \/ Release \/ Nudge \/ Home \/ Free
    <3>1. UNCHANGED lost /\ (hand' = hand \/ hand.do # "left")
      BY <2>2 DEF Lock, NextMessage, Merge, Repeat, Release, Nudge, Home, Free, Runs, history, faults
    <3> QED BY <1>3, <1>14, <3>1
  <2>3. CASE SendRelative \/ SendAbsolute \/ SendArrival \/ SendTouch
    <3>1. UNCHANGED lost /\ hand.do # "left"
      BY <2>3 DEF SendRelative, SendAbsolute, SendArrival, SendTouch, Sends, Hands, faults
    <3> QED BY <1>3, <1>14, <3>1
  <2> QED BY <1>10, <1>11, <1>12, <1>13, <1>14, <2>1, <2>2, <2>3, NextIs DEF Work
<1> QED BY <1>6, <1>7, <1>8, <1>9, <1>10, <1>11, <1>12, <1>13, <1>14, TimersLeft

(* Every step keeps what is said about buttons.                            *)
LEMMA ButtonsStep ==
  ASSUME TypeOK, Hands, ButtonsFollow, [Next]_vars
  PROVE  ButtonsFollow'
<1>0. /\ os \in Shown /\ mousePress \in [{"left", "right"} -> BOOLEAN]
      /\ os.buttons \subseteq {"left", "right"}
  BY DEF TypeOK, Shown
<1>1. ASSUME os'.buttons \subseteq os.buttons, UNCHANGED mousePress, ~LeftRelease
      PROVE  ButtonsFollow'
  BY <1>1, ReleaseStays DEF ButtonsFollow
<1>2. CASE LeftRelease
  <2>1. CASE mousePress["left"] /\ UNCHANGED <<mousePress, os>>
    BY <2>1 DEF ButtonsFollow
  <2>2. CASE os' = [os EXCEPT !.buttons = @ \ {"left"}]
             /\ mousePress' = [mousePress EXCEPT !["left"] = FALSE]
    <3>1. os'.buttons = os.buttons \ {"left"} /\ mousePress'["right"] = mousePress["right"]
      BY <1>0, <2>2 DEF Shown
    <3> QED BY <3>1 DEF ButtonsFollow
  <2> QED BY <1>2, <2>1, <2>2 DEF LeftRelease, Releases
<1>3. CASE Release
  <2>1. os'.buttons = os.buttons \ {b \in {"left", "right"} : mousePress[b]}
    BY <1>0, <1>3 DEF Release, Shown
  <2>2. "right" \notin os'.buttons /\ ("left" \in os'.buttons => ReleaseToCome \/ lost)
    BY <2>1 DEF ButtonsFollow
  <2>3. ~LeftRelease
    BY <1>3 DEF Release, LeftRelease, Runs
  <2> QED BY <2>2, <2>3, ReleaseStays DEF ButtonsFollow
<1>4. CASE SendButton
  <2> DEFINE b == message.button
             s == hand.of
             click == b = "right" /\ message.down /\ leftTimeout[s] \in Ids
             delayed == b = "left" /\ ~message.down /\ leftTimeout[s] = None
  <2>1. b \in {"left", "right"} /\ message.down \in BOOLEAN
    BY <1>4, KindsOfMessages DEF SendButton, Sends, Hands
  <2>2. ~LeftRelease
    BY <1>4 DEF SendButton, Sends, LeftRelease, Runs
  <2>3. CASE UNCHANGED <<mousePress, os>>
    BY <1>1, <2>2, <2>3
  <2>4. CASE /\ mousePress' = [mousePress EXCEPT ![b] = message.down /\ ~click]
             /\ delayed /\ UNCHANGED os
             /\ \E id \in FreshIds : After(timers, "left", s, LeftDelay, id)
    <3>1. UNCHANGED <<os>> /\ mousePress'["right"] = mousePress["right"]
      BY <1>0, <2>4
    <3>2. ReleaseToCome'
      <4>1. PICK id \in FreshIds : After(timers, "left", s, LeftDelay, id)
        BY <2>4
      <4>2. s \in Sessions
        BY <1>4, RunningTasks DEF SendButton, Sends, Hands, TypeOK, Idle
      <4> DEFINE t == [do |-> "left", of |-> s, in |-> LeftDelay, id |-> id]
      <4>3. t \in Delayed /\ t.do = "left"
        BY <4>1, <4>2, FreshIsNobodys DEF Delayed, LeftDelay
      <4> HIDE DEF s
      <4>4. t \in Range(timers)'
        BY <4>1, <4>3, AfterKeeps DEF TypeOK
      <4> QED BY <4>3, <4>4 DEF ReleaseToCome, Range
    <3> QED BY <3>1, <3>2 DEF ButtonsFollow
  <2>5. CASE /\ mousePress' = [mousePress EXCEPT ![b] = message.down /\ ~click]
             /\ IF message.down /\ ~click THEN Presses(b) ELSE Releases(b)
    <3> HIDE DEF click, b
    <3>1. \A c \in {"left", "right"} :
            mousePress'[c] = IF c = b THEN message.down /\ ~click ELSE mousePress[c]
      BY <1>0, <2>1, <2>5
    <3>2. CASE message.down /\ ~click
      <4>1. os'.buttons = os.buttons \cup {b}
        BY <1>0, <2>5, <3>2 DEF Presses, Shown
      <4> QED BY <2>1, <2>2, <3>1, <3>2, <4>1, ReleaseStays DEF ButtonsFollow
    <3>3. CASE ~(message.down /\ ~click)
      <4>1. os'.buttons = os.buttons \ {b}
        BY <1>0, <2>5, <3>3 DEF Releases, Shown
      <4> QED BY <2>1, <2>2, <3>1, <3>3, <4>1, ReleaseStays DEF ButtonsFollow
    <3> QED BY <3>2, <3>3
  <2> QED BY <1>4, <2>3, <2>4, <2>5 DEF SendButton
<1>5. CASE Outside
  <2>1. CASE LeftRelease
    BY <1>2, <2>1
  <2> QED BY <1>1, <1>5, <2>1, OutsideLeaves DEF mouse
<1>6. CASE Pop \/ Lock \/ NextMessage \/ Merge \/ RepeatAgain \/ Nudge \/ Home
  <2>1. UNCHANGED <<os, mousePress>>
    BY <1>6 DEF Pop, Lock, NextMessage, Merge, RepeatAgain, Nudge, Home, mouse
  <2> QED BY <1>1, <1>2, <2>1
<1>7. CASE SendRelative \/ SendAbsolute \/ SendTouch \/ SendKey \/ Repeat
  <2>1. os'.buttons = os.buttons /\ UNCHANGED mousePress
    BY <1>0, <1>7 DEF SendRelative, SendAbsolute, SendTouch, SendKey, Repeat, Struck, Shown, mouse
  <2> QED BY <1>1, <1>2, <2>1
<1>8. CASE SendArrival \/ SendPad \/ Free
  <2>1. os'.buttons = os.buttons /\ UNCHANGED mousePress
    BY <1>0, <1>8 DEF SendArrival, SendPad, Free, Plug, Unplug, Shown, mouse, pads
  <2> QED BY <1>1, <1>2, <2>1
<1> QED BY <1>2, <1>3, <1>4, <1>5, <1>6, <1>7, <1>8, NextIs DEF Work
-----------------------------------------------------------------------------
(* Touches keep their order.                                               *)
LEMMA TakesSession ==
  ASSUME TypeOK, Hands, worker \in {"merge", "send"} \/ Runs("next")
  PROVE  hand.of \in Sessions /\ hand # Idle /\ queue[hand.of] \in Seq(AllMessages)
BY RunningTasks DEF TypeOK, Hands, Runs, Idle

(* What batch() looks at is a message that is queued.                      *)
LEMMA MergeTakes ==
  ASSUME TypeOK, Hands, Merge, Outcome.result # "terminate_batch"
  PROVE  LET q == queue[hand.of] IN
         /\ at \in 1..Len(q) /\ q \in Seq(AllMessages) /\ q[at] \in AllMessages
         /\ Outcome = Batch(message, q[at]) /\ message \in Sendable
<1> DEFINE q == queue[hand.of]
<1>1. q \in Seq(AllMessages) /\ at \in Nat /\ at # 0 /\ message \in Sendable
  BY TakesSession DEF Merge, TypeOK, Hands
<1>2. at <= Len(q) /\ Outcome = Batch(message, q[at])
  BY <1>1 DEF Outcome, Terminate
<1>3. at \in 1..Len(q) /\ q[at] \in AllMessages
  BY <1>1, <1>2
<1> QED BY <1>1, <1>2, <1>3

(* Every step keeps what is said about touches that are passed over.       *)
LEMMA SkippedStep ==
  ASSUME TypeOK, Hands, Skipped, [Next]_vars
  PROVE  Skipped'
<1> SUFFICES ASSUME worker' = "merge", message'.kind = "touch"
             PROVE  \A j \in DOMAIN queue'[hand'.of] : j < at' =>
                      ~OfFinger(queue'[hand'.of][j], message'.pointer)
  BY DEF Skipped, OfFinger
<1>1. CASE Outside
  <2>1. worker = "merge" /\ UNCHANGED <<hand, message, at>>
    BY <1>1, OutsideLeaves DEF batch
  <2>2. queue'[hand.of] = queue[hand.of]
    <3>1. ASSUME NEW s \in Sessions, Passthrough(s) PROVE queue'[hand.of] = queue[hand.of]
      <4>1. hand.of # s /\ hand.of \in Sessions
        BY <2>1, <3>1, TakesSession DEF Passthrough, Locked
      <4> QED BY <3>1, <4>1 DEF Passthrough, TypeOK
    <3>2. CASE ~\E s \in Sessions : Passthrough(s)
      <4>1. UNCHANGED queue
        BY <1>1, <3>2 DEF Outside, Alloc, Reset, Destroy, GiveBack, Tick, vars
      <4> QED BY <4>1
    <3> QED BY <3>1, <3>2
  <2> QED BY <2>1, <2>2 DEF Skipped, OfFinger
<1>2. CASE NextMessage
  <2>1. hand' = hand /\ at' = 1 /\ queue' = [queue EXCEPT ![hand.of] = Tail(@)]
        /\ queue[hand.of] # <<>>
    BY <1>2 DEF NextMessage, Done
  <2>2. hand.of \in Sessions /\ queue[hand.of] \in Seq(AllMessages)
    BY <1>2, TakesSession DEF NextMessage
  <2>3. queue'[hand.of] = Tail(queue[hand.of]) /\ Tail(queue[hand.of]) \in Seq(AllMessages)
    BY <2>1, <2>2 DEF TypeOK
  <2>4. \A j \in DOMAIN queue'[hand'.of] : j \in Nat \ {0}
    BY <2>1, <2>3
  <2> QED BY <2>1, <2>4
<1>3. CASE Merge
  <2> DEFINE q == queue[hand.of]
  <2>1. worker = "merge" /\ hand' = hand /\ hand.of \in Sessions
    BY <1>3, TakesSession DEF Merge
  <2>2. Outcome.result # "terminate_batch"
    BY <1>3, TakesSession, BatchKeeps DEF Merge
  <2>3. /\ at \in 1..Len(q) /\ q \in Seq(AllMessages) /\ q[at] \in AllMessages
        /\ Outcome = Batch(message, q[at]) /\ message \in Sendable
    BY <1>3, <2>2, MergeTakes
  <2>4. CASE Outcome.result = "batched" /\ message' = Outcome.message /\ UNCHANGED at
             /\ queue' = [queue EXCEPT ![hand.of] = RemoveAt(@, at)]
    <3>1. message.kind = "touch" /\ message'.pointer = message.pointer
      BY <2>3, <2>4, BatchKeeps
    <3>2. queue'[hand.of] = RemoveAt(q, at)
      BY <2>1, <2>4 DEF TypeOK
    <3>3. /\ RemoveAt(q, at) \in Seq(AllMessages) /\ Len(RemoveAt(q, at)) = Len(q) - 1
          /\ \A j \in 1..Len(q) - 1 : RemoveAt(q, at)[j] = IF j < at THEN q[j] ELSE q[j + 1]
      <4> HIDE DEF q
      <4>1. q \in Seq(AllMessages) /\ at \in 1..Len(q)
        BY <2>3
      <4> QED BY ONLY <4>1, Removed
    <3> HIDE DEF q
    <3>4. DOMAIN RemoveAt(q, at) = 1..Len(q) - 1 /\ DOMAIN q = 1..Len(q) /\ Len(q) \in Nat
      BY <2>3, <3>3
    <3>5. \A j \in 1..Len(q) - 1 : j < at =>
            RemoveAt(q, at)[j] = q[j] /\ ~OfFinger(q[j], message.pointer)
      BY <2>1, <2>3, <3>1, <3>3, <3>4 DEF Skipped, q
    <3> QED BY <2>1, <2>4, <3>1, <3>2, <3>4, <3>5
  <2>5. CASE Outcome.result = "not_batchable" /\ at' = at + 1 /\ UNCHANGED <<queue, message>>
    <3>1. ~OfFinger(q[at], message.pointer)
      BY <2>3, <2>5, BatchKeeps DEF OfFinger
    <3> QED BY <2>1, <2>3, <2>5, <3>1 DEF Skipped
  <2> QED BY <1>3, <2>2, <2>4, <2>5 DEF Merge
<1>4. ~Pop /\ ~Lock /\ ~Repeat
  BY DEF Pop, Lock, Repeat, Done
<1>5. ~SendRelative /\ ~SendAbsolute /\ ~SendButton /\ ~SendKey
      /\ ~SendArrival /\ ~SendPad /\ ~SendTouch
  BY DEF SendRelative, SendAbsolute, SendButton, SendKey, SendArrival, SendPad, SendTouch,
         Sends, Done
<1>6. ~LeftRelease /\ ~RepeatAgain /\ ~Release /\ ~Nudge /\ ~Home /\ ~Free
  BY DEF LeftRelease, RepeatAgain, Release, Nudge, Home, Free, Done
<1> QED BY <1>1, <1>2, <1>3, <1>4, <1>5, <1>6, NextIs DEF Work

(* What the last event of a finger is once a message is queued, taken or   *)
(* merged.                                                                 *)
LEMMA EndsQueued ==
  ASSUME NEW q \in Seq(AllMessages), NEW m \in AllMessages, NEW p, NEW told, NEW event,
         Ends(q, p, told, event)
  PROVE  Ends(Append(q, m), p, told, IF OfFinger(m, p) THEN m.event ELSE event)
<1> DEFINE n == Append(q, m)
           e == IF OfFinger(m, p) THEN m.event ELSE event
<1>1. /\ Len(q) \in Nat /\ DOMAIN q = 1..Len(q) /\ DOMAIN n = 1..Len(q) + 1
      /\ n[Len(q) + 1] = m /\ \A j \in 1..Len(q) : n[j] = q[j]
  OBVIOUS
<1> HIDE DEF n
<1>2. CASE OfFinger(m, p)
  <2>1. LastOf(n, p, Len(q) + 1) /\ n[Len(q) + 1].event = e
    BY <1>1, <1>2 DEF LastOf
  <2> HIDE DEF e
  <2>2. Ends(n, p, told, e)
    BY <1>1, <2>1 DEF Ends
  <2> QED BY <2>2 DEF n, e
<1>3. CASE ~OfFinger(m, p)
  <2>1. \A j \in DOMAIN n : OfFinger(n[j], p) => j \in 1..Len(q) /\ OfFinger(q[j], p)
    BY <1>1, <1>3
  <2>2. CASE NoneOf(q, p) /\ told = event
    <3>1. NoneOf(n, p)
      BY <1>1, <2>1, <2>2 DEF NoneOf
    <3>2. Ends(n, p, told, event)
      BY <2>2, <3>1 DEF Ends
    <3> QED BY <1>3, <3>2 DEF n
  <2>3. ASSUME NEW i \in DOMAIN q, LastOf(q, p, i), q[i].event = event
        PROVE  Ends(n, p, told, event)
    <3>1. LastOf(n, p, i) /\ n[i].event = event /\ i \in DOMAIN n
      BY <1>1, <2>1, <2>3 DEF LastOf
    <3> QED BY <3>1 DEF Ends
  <2>4. CASE Ends(n, p, told, event)
    BY <1>3, <2>4 DEF n
  <2> QED BY <2>2, <2>3, <2>4 DEF Ends
<1> QED BY <1>2, <1>3

(* The last event of a finger is the same when the first message is taken  *)
(* out.                                                                    *)
LEMMA EndsTaken ==
  ASSUME NEW q \in Seq(AllMessages), q # <<>>, NEW p, NEW told, NEW event,
         Ends(q, p, told, event)
  PROVE  Ends(Tail(q), p, IF OfFinger(Head(q), p) THEN Head(q).event ELSE told, event)
<1> DEFINE n == Tail(q)
           t == IF OfFinger(Head(q), p) THEN Head(q).event ELSE told
<1>1. /\ Len(q) \in Nat \ {0} /\ DOMAIN q = 1..Len(q) /\ Head(q) = q[1]
      /\ DOMAIN n = 1..Len(q) - 1 /\ \A j \in 1..Len(q) - 1 : n[j] = q[j + 1]
  <2>1. Len(q) \in Nat \ {0} /\ Head(q) = q[1] /\ DOMAIN q = 1..Len(q)
    BY EmptySeq
  <2>2. n \in Seq(AllMessages) /\ Len(n) = Len(q) - 1 /\ \A j \in 1..Len(n) : n[j] = q[j + 1]
    BY HeadTailProperties
  <2> HIDE DEF n
  <2> QED BY <2>1, <2>2
<1> HIDE DEF n
<1>2. \A j \in DOMAIN n : j + 1 \in DOMAIN q /\ n[j] = q[j + 1]
  BY <1>1
<1>3. CASE NoneOf(q, p) /\ told = event
  <2>1. NoneOf(n, p) /\ t = event
    BY <1>1, <1>2, <1>3 DEF NoneOf
  <2> HIDE DEF t
  <2>2. Ends(n, p, t, event)
    BY <2>1 DEF Ends
  <2> QED BY <2>2 DEF n, t
<1>4. ASSUME NEW i \in DOMAIN q, LastOf(q, p, i), q[i].event = event
      PROVE  Ends(n, p, t, event)
  <2>1. \A j \in DOMAIN n : OfFinger(n[j], p) => j + 1 <= i
    BY <1>2, <1>4 DEF LastOf
  <2>2. CASE i = 1
    <3>1. NoneOf(n, p)
      BY <1>1, <2>1, <2>2 DEF NoneOf
    <3>2. t = event
      BY <1>1, <1>4, <2>2 DEF LastOf
    <3> HIDE DEF t
    <3> QED BY <3>1, <3>2 DEF Ends
  <2>3. CASE i # 1
    <3>1. i - 1 \in DOMAIN n /\ n[i - 1] = q[i] /\ \A j \in DOMAIN n : j + 1 <= i => j <= i - 1
      BY <1>1, <2>3
    <3>2. LastOf(n, p, i - 1) /\ n[i - 1].event = event
      BY <1>4, <2>1, <3>1 DEF LastOf
    <3> HIDE DEF t
    <3> QED BY <3>1, <3>2 DEF Ends
  <2> QED BY <2>2, <2>3
<1> HIDE DEF t
<1>5. Ends(n, p, t, event)
  BY <1>3, <1>4 DEF Ends, n, t
<1> QED BY <1>5 DEF n, t

(* A merge takes the first event of the finger there is, which is the one  *)
(* in hand.                                                                *)
LEMMA EndsMerged ==
  ASSUME NEW q \in Seq(AllMessages), NEW k \in 1..Len(q), NEW p, NEW told, NEW event,
         Ends(q, p, told, event),
         OfFinger(q[k], p) =>
           told = q[k].event /\ \A j \in DOMAIN q : j < k => ~OfFinger(q[j], p)
  PROVE  Ends(RemoveAt(q, k), p, told, event)
<1> DEFINE n == RemoveAt(q, k)
<1>1. /\ n \in Seq(AllMessages) /\ Len(n) = Len(q) - 1
      /\ \A j \in 1..Len(q) - 1 : n[j] = IF j < k THEN q[j] ELSE q[j + 1]
  BY ONLY q \in Seq(AllMessages), k \in 1..Len(q), Removed
<1> HIDE DEF n
<1>2. Len(q) \in Nat /\ DOMAIN q = 1..Len(q) /\ DOMAIN n = 1..Len(q) - 1 /\ k \in Nat
  BY <1>1
<1> DEFINE old(j) == IF j < k THEN j ELSE j + 1
<1>3. \A j \in DOMAIN n : old(j) \in DOMAIN q /\ old(j) # k /\ n[j] = q[old(j)]
  BY <1>1, <1>2
<1>4. CASE NoneOf(q, p) /\ told = event
  <2>1. NoneOf(n, p)
    <3> HIDE DEF old
    <3> QED BY <1>3, <1>4 DEF NoneOf
  <2> QED BY <1>4, <2>1 DEF Ends, n
<1>5. ASSUME NEW i \in DOMAIN q, LastOf(q, p, i), q[i].event = event
      PROVE  Ends(n, p, told, event)
  <2>1. \A j \in DOMAIN n : OfFinger(n[j], p) => old(j) <= i
    <3> HIDE DEF old
    <3> QED BY <1>3, <1>5 DEF LastOf
  <2>2. CASE i = k
    <3>1. OfFinger(q[k], p) /\ told = event /\ \A j \in DOMAIN q : j < k => ~OfFinger(q[j], p)
      BY <1>5, <2>2 DEF LastOf
    <3>2. ASSUME NEW j \in DOMAIN n, OfFinger(n[j], p) PROVE FALSE
      <4>1. old(j) < k
        BY <1>2, <1>3, <2>1, <2>2, <3>2
      <4>2. OfFinger(q[old(j)], p) /\ old(j) \in DOMAIN q
        BY <1>3, <3>2
      <4> HIDE DEF old
      <4> QED BY <3>1, <4>1, <4>2
    <3> QED BY <3>1, <3>2 DEF Ends, NoneOf
  <2>3. CASE i # k
    <3> DEFINE l == IF i < k THEN i ELSE i - 1
    <3>1. l \in DOMAIN n /\ n[l] = q[i] /\ \A j \in DOMAIN n : old(j) <= i => j <= l
      BY <1>1, <1>2, <2>3
    <3> HIDE DEF l, old
    <3>2. LastOf(n, p, l) /\ n[l].event = event
      BY <1>5, <2>1, <3>1 DEF LastOf
    <3> QED BY <3>1, <3>2 DEF Ends
  <2> QED BY <2>2, <2>3
<1> QED BY <1>4, <1>5 DEF Ends, n

(* Every step keeps what is said about fingers.                            *)
LEMMA FingersStep ==
  ASSUME TypeOK, Hands, Skipped, Fingers, [Next]_vars
  PROVE  Fingers'
<1> SUFFICES ASSUME NEW s \in Sessions, NEW p \in Pointers PROVE Kept(s, p)'
  BY DEF Fingers
<1>0. /\ Kept(s, p) /\ queue[s] \in Seq(AllMessages) /\ os \in Shown
      /\ queue \in [Sessions -> Seq(AllMessages)] /\ mix \in Mixes
      /\ touched \in [Sessions \X Pointers -> {"DOWN", "MOVE", "UP"}]
  BY DEF Fingers, TypeOK
<1>1. ASSUME queue'[s] = queue[s], UNCHANGED <<touched, ignored>>, os'.touch = os.touch,
             InHand(s, p)' <=> InHand(s, p), InHand(s, p) => message' = message
      PROVE  Kept(s, p)'
  BY <1>0, <1>1 DEF LastTold, Heard, Kept
<1>2. CASE Outside
  <2>1. LastTold(s, p)' = LastTold(s, p)
    <3>1. (worker' \in {"merge", "send"} <=> worker \in {"merge", "send"})
          /\ UNCHANGED <<hand, message, os>>
      BY <1>2, OutsideLeaves DEF batch
    <3>2. UNCHANGED ignored
      BY <1>2 DEF Outside, Alloc, Passthrough, Reset, Destroy, GiveBack, Tick, vars, history, faults
    <3> QED BY <3>1, <3>2 DEF LastTold, Heard, InHand, OfFinger
  <2>2. ASSUME NEW s0 \in Sessions, Passthrough(s0) PROVE Kept(s, p)'
    <3>1. PICK m \in AllMessages :
            /\ queue' = [queue EXCEPT ![s0] = Append(@, m)]
            /\ touched' = IF m.kind = "touch" THEN [touched EXCEPT ![<<s0, m.pointer>>] = m.event]
                          ELSE touched
      BY <2>2 DEF Passthrough
    <3>3. CASE s # s0
      <4>1. queue'[s] = queue[s]
        BY <1>0, <3>1, <3>3
      <4>2. touched'[<<s, p>>] = touched[<<s, p>>]
        BY <1>0, <3>1, <3>3
      <4> QED BY <1>0, <2>1, <4>1, <4>2 DEF Kept
    <3>4. CASE s = s0
      <4>1. queue'[s] = Append(queue[s], m)
        BY <1>0, <3>1, <3>4
      <4>2. touched'[<<s, p>>] = IF OfFinger(m, p) THEN m.event ELSE touched[<<s, p>>]
        BY <1>0, <3>1, <3>4 DEF OfFinger
      <4>3. Ends(Append(queue[s], m), p, LastTold(s, p),
                 IF OfFinger(m, p) THEN m.event ELSE touched[<<s, p>>])
        BY <1>0, EndsQueued DEF Kept
      <4> QED BY <2>1, <4>1, <4>2, <4>3 DEF Kept
    <3> QED BY <3>3, <3>4
  <2>3. CASE ~\E s0 \in Sessions : Passthrough(s0)
    <3>1. UNCHANGED <<queue, touched>>
      BY <1>2, <2>3 DEF Outside, Alloc, Reset, Destroy, GiveBack, Tick, vars, history
    <3> QED BY <1>0, <2>1, <3>1 DEF Kept
  <2> QED BY <2>2, <2>3
<1>3. CASE NextMessage
  <2>1. ~InHand(s, p) /\ hand.of \in Sessions
    BY <1>3, TakesSession DEF NextMessage, Runs, InHand
  <2>2. UNCHANGED <<touched, ignored, os>>
    BY <1>3 DEF NextMessage, history, faults
  <2>3. CASE Done /\ UNCHANGED queue
    BY <1>1, <2>1, <2>2, <2>3 DEF Done, InHand
  <2>4. CASE /\ queue[hand.of] # <<>> /\ message' = Head(queue[hand.of])
             /\ queue' = [queue EXCEPT ![hand.of] = Tail(@)]
             /\ worker' = "merge" /\ UNCHANGED hand
    <3>1. CASE s # hand.of
      <4>1. queue'[s] = queue[s] /\ ~InHand(s, p)'
        BY <1>0, <2>1, <2>4, <3>1 DEF InHand
      <4> QED BY <1>1, <2>1, <2>2, <4>1
    <3>2. CASE s = hand.of
      <4> DEFINE q == queue[s]
      <4>1. q # <<>> /\ queue'[s] = Tail(q) /\ message' = Head(q)
        BY <1>0, <2>1, <2>4, <3>2
      <4>2. LastTold(s, p)' = IF OfFinger(Head(q), p) THEN Head(q).event ELSE LastTold(s, p)
        BY <2>1, <2>2, <2>4, <3>2, <4>1 DEF LastTold, Heard, InHand, OfFinger
      <4>3. Ends(Tail(q), p, IF OfFinger(Head(q), p) THEN Head(q).event ELSE LastTold(s, p),
                 touched[<<s, p>>])
        BY <1>0, <4>1, EndsTaken DEF Kept
      <4> QED BY <2>2, <4>1, <4>2, <4>3 DEF Kept
    <3> QED BY <3>1, <3>2
  <2> QED BY <1>3, <2>3, <2>4 DEF NextMessage
<1>4. CASE Merge
  <2>1. worker = "merge" /\ UNCHANGED <<touched, ignored, os, hand>> /\ hand.of \in Sessions
    BY <1>4, TakesSession DEF Merge, history, faults
  <2>2. CASE worker' \in {"merge", "send"} /\ UNCHANGED <<queue, message>>
    BY <1>1, <2>1, <2>2 DEF InHand, OfFinger
  <2>3. CASE Outcome.result = "batched" /\ message' = Outcome.message
             /\ queue' = [queue EXCEPT ![hand.of] = RemoveAt(@, at)]
             /\ UNCHANGED worker
    <3>1. CASE s # hand.of
      <4>1. queue'[s] = queue[s] /\ ~InHand(s, p)' /\ ~InHand(s, p)
        BY <1>0, <2>1, <2>3, <3>1 DEF InHand
      <4> QED BY <1>1, <2>1, <4>1
    <3>2. CASE s = hand.of
      <4> DEFINE q == queue[s]
      <4>0. Outcome.result # "terminate_batch"
        BY <2>3
      <4>1. /\ at \in 1..Len(q) /\ q \in Seq(AllMessages) /\ q[at] \in AllMessages
            /\ Outcome = Batch(message, q[at]) /\ message \in Sendable
        BY <1>4, <3>2, <4>0, MergeTakes
      <4>2. /\ q[at].kind = message.kind /\ message'.kind = message.kind
            /\ message.kind = "touch" => /\ message' = q[at] /\ message.pointer = q[at].pointer
                                         /\ message.event = q[at].event
        BY <2>3, <4>1, BatchKeeps
      <4>3. queue'[s] = RemoveAt(q, at)
        BY <1>0, <2>3, <3>2
      <4>4. /\ InHand(s, p) <=> OfFinger(message, p)
            /\ InHand(s, p)' <=> OfFinger(message, p)
            /\ OfFinger(q[at], p) <=> OfFinger(message, p)
        BY <2>1, <2>3, <3>2, <4>2 DEF InHand, OfFinger
      <4>5. LastTold(s, p)' = LastTold(s, p)
        BY <2>1, <4>2, <4>4 DEF LastTold, Heard, OfFinger
      <4>6. OfFinger(q[at], p) => LastTold(s, p) = q[at].event
        BY <4>2, <4>4 DEF LastTold, OfFinger
      <4>7. OfFinger(q[at], p) => \A j \in DOMAIN q : j < at => ~OfFinger(q[j], p)
        BY <2>1, <3>2, <4>4 DEF Skipped, OfFinger
      <4>8. Ends(q, p, LastTold(s, p), touched[<<s, p>>])
        BY <1>0 DEF Kept
      <4> HIDE DEF q
      <4>9. Ends(RemoveAt(q, at), p, LastTold(s, p), touched[<<s, p>>])
        BY ONLY <4>1, <4>6, <4>7, <4>8, EndsMerged
      <4> QED BY <2>1, <4>3, <4>5, <4>9 DEF Kept
    <3> QED BY <3>1, <3>2
  <2> QED BY <1>4, <2>1, <2>2, <2>3 DEF Merge
<1>5. CASE SendTouch
  <2>1. /\ worker = "send" /\ message.kind = "touch" /\ hand.of \in Sessions
        /\ message.pointer \in Pointers /\ message.event \in {"DOWN", "MOVE", "UP"}
    BY <1>5, TakesSession, KindsOfMessages DEF SendTouch, Sends, Hands
  <2>2. UNCHANGED <<queue, touched>> /\ ~InHand(s, p)'
    BY <1>5 DEF SendTouch, Sends, Done, InHand
  <2>3. Heard(<<s, p>>)' =
          IF <<s, p>> = <<hand.of, message.pointer>> THEN message.event ELSE Heard(<<s, p>>)
    <3> DEFINE x == <<hand.of, message.pointer>>
    <3>1. x \in Sessions \X Pointers /\ <<s, p>> \in Sessions \X Pointers
      BY <2>1
    <3> HIDE DEF x
    <3>2. ignored \in [Sessions \X Pointers -> {"DOWN", "MOVE", "UP", "none"}]
      BY DEF TypeOK
    <3>3. CASE os' = [os EXCEPT !.touch[x] = message.event] /\ ignored' = [ignored EXCEPT ![x] = "none"]
      <4>1. os'.touch = [os.touch EXCEPT ![x] = message.event]
        BY <1>0, <3>3 DEF Shown
      <4>2. os.touch \in [Sessions \X Pointers -> {"DOWN", "MOVE", "UP"}]
        BY <1>0 DEF Shown
      <4> QED BY <3>1, <3>2, <3>3, <4>1, <4>2 DEF Heard, x
    <3>4. CASE ignored' = [ignored EXCEPT ![x] = message.event] /\ UNCHANGED os
      BY <2>1, <3>1, <3>2, <3>4 DEF Heard, x
    <3> QED BY <1>5, <3>3, <3>4 DEF SendTouch, x
  <2>4. InHand(s, p) <=> <<s, p>> = <<hand.of, message.pointer>>
    BY <2>1 DEF InHand, OfFinger
  <2>5. LastTold(s, p)' = LastTold(s, p)
    BY <2>2, <2>3, <2>4 DEF LastTold
  <2> QED BY <1>0, <2>2, <2>5 DEF Kept
<1>6. CASE SendRelative \/ SendAbsolute \/ SendButton \/ SendKey \/ SendArrival \/ SendPad
  <2>1. UNCHANGED <<queue, touched, ignored>> /\ ~InHand(s, p)' /\ ~InHand(s, p)
    BY <1>6 DEF SendRelative, SendAbsolute, SendButton, SendKey, SendArrival, SendPad,
                Sends, Done, InHand, OfFinger, faults
  <2>2. os'.touch = os.touch
    BY <1>0, <1>6 DEF SendRelative, SendAbsolute, SendButton, SendKey, SendArrival, SendPad,
                      Presses, Releases, Struck, Plug, Unplug, Shown, pads
  <2> QED BY <1>1, <2>1, <2>2
<1>7. CASE Pop \/ Lock \/ LeftRelease \/ Repeat \/ RepeatAgain \/ Release \/ Nudge \/ Home \/ Free
  <2>1. UNCHANGED <<queue, touched, ignored>>
    BY <1>7 DEF Pop, Lock, LeftRelease, Repeat, RepeatAgain, Release, Nudge, Home, Free, history,
                faults
  <2>2. os'.touch = os.touch
    BY <1>0, <1>7 DEF Pop, Lock, LeftRelease, Repeat, RepeatAgain, Release, Nudge, Home, Free,
                      Releases, Struck, Unplug, Shown
  <2>3. ~InHand(s, p)' /\ ~InHand(s, p)
    BY <1>7 DEF Pop, Lock, LeftRelease, Repeat, RepeatAgain, Release, Nudge, Home, Free,
                Runs, Done, InHand
  <2> QED BY <1>1, <2>1, <2>2, <2>3
<1> QED BY <1>2, <1>3, <1>4, <1>5, <1>6, <1>7, NextIs DEF Work
-----------------------------------------------------------------------------
(* Gamepads: each id in the mask is a controller's or waits to be freed,   *)
(* once.                                                                   *)
Once ==
  /\ \A i, j \in Frees : tasks[i].of = tasks[j].of => i = j
  /\ hand.do = "free" => \A i \in Frees : tasks[i].of # hand.of

(* Which gamepads are being freed: by a task that is queued or the one in  *)
(* hand.                                                                   *)
LEMMA FreeingIs ==
  \A id : id \in Freeing <=>
            (\E i \in Frees : tasks[i].of = id) \/ (hand.do = "free" /\ hand.of = id)
BY DEF Freeing, Frees

(* They are gamepads.                                                      *)
LEMMA FreeingKinds == TypeOK => Freeing \subseteq PadIds
<1> SUFFICES ASSUME TypeOK, NEW id \in Freeing PROVE id \in PadIds
  OBVIOUS
<1>1. CASE \E i \in Frees : tasks[i].of = id
  <2>1. PICK i \in Frees : tasks[i].of = id
    BY <1>1
  <2>2. tasks[i] \in Undelayed /\ tasks[i].do = "free"
    BY <2>1 DEF Frees, TypeOK
  <2> QED BY <2>1, <2>2 DEF Undelayed
<1>2. CASE hand.do = "free" /\ hand.of = id
  BY <1>2, RunningTasks DEF TypeOK, Idle
<1> QED BY <1>1, <1>2, FreeingIs

(* Steps that leave the tasks free none.                                   *)
LEMMA FreeingLeft ==
  ASSUME Once, UNCHANGED tasks, hand' = hand \/ (hand.do # "free" /\ hand'.do # "free")
  PROVE  Freeing' = Freeing /\ Once'
<1>1. Frees' = Frees
  BY DEF Frees
<1>2. Once'
  BY <1>1 DEF Once
<1>3. Freeing' = Freeing
  BY DEF Freeing
<1> QED BY <1>2, <1>3

(* A pushed task frees its gamepad, which nobody else frees.               *)
LEMMA FreeingPushed ==
  ASSUME TypeOK, Once, UNCHANGED hand, NEW t \in Undelayed, Push(<<t>>),
         t.do = "free" => t.of \notin Freeing
  PROVE  /\ Once'
         /\ \A id : id \in Freeing' <=> id \in Freeing \/ (t.do = "free" /\ t.of = id)
<1>1. /\ tasks \in Seq(Undelayed) /\ Len(tasks) \in Nat /\ DOMAIN tasks = 1..Len(tasks)
      /\ DOMAIN tasks' = 1..Len(tasks) + 1 /\ tasks'[Len(tasks) + 1] = t
      /\ \A i \in 1..Len(tasks) : tasks'[i] = tasks[i]
  BY DEF TypeOK, Push
<1>2. \A i : i \in Frees' <=> i \in Frees \/ (i = Len(tasks) + 1 /\ t.do = "free")
  BY <1>1 DEF Frees
<1>3. \A i \in Frees : tasks'[i] = tasks[i] /\ i \in 1..Len(tasks)
  BY <1>1 DEF Frees
<1>4. \A id : id \in Freeing' <=>
                (\E i \in Frees' : tasks'[i].of = id) \/ (hand'.do = "free" /\ hand'.of = id)
  BY DEF Freeing, Frees
<1>5. \A id : id \in Freeing' <=> id \in Freeing \/ (t.do = "free" /\ t.of = id)
  BY <1>1, <1>2, <1>3, <1>4, FreeingIs
<1>6. t.do = "free" => /\ \A i \in Frees : tasks[i].of # t.of
                       /\ ~(hand.do = "free" /\ hand.of = t.of)
  BY FreeingIs
<1>7. Once'
  BY <1>1, <1>2, <1>3, <1>6 DEF Once
<1> QED BY <1>5, <1>7

(* Popping a task changes nothing.                                         *)
LEMMA FreeingPopped ==
  ASSUME TypeOK, Hands, Once, Pop
  PROVE  Freeing' = Freeing /\ Once'
<1>1. hand = Idle
  BY DEF Pop, Hands
<1>2. CASE /\ tasks # <<>> /\ tasks' = Tail(tasks)
           /\ hand' = [do |-> Head(tasks).do, of |-> Head(tasks).of, id |-> None]
  <2>1. /\ tasks \in Seq(Undelayed) /\ Len(tasks) \in Nat \ {0} /\ Head(tasks) = tasks[1]
        /\ DOMAIN tasks = 1..Len(tasks)
    BY <1>2, EmptySeq DEF TypeOK
  <2>2. /\ DOMAIN tasks' = 1..Len(tasks) - 1
        /\ \A i \in 1..Len(tasks) - 1 : tasks'[i] = tasks[i + 1]
    <3>1. /\ Tail(tasks) \in Seq(Undelayed) /\ Len(Tail(tasks)) = Len(tasks) - 1
          /\ \A i \in 1..Len(Tail(tasks)) : Tail(tasks)[i] = tasks[i + 1]
      BY <1>2, <2>1, HeadTailProperties
    <3> QED BY <1>2, <2>1, <3>1
  <2>3. hand'.do = tasks[1].do /\ hand'.of = tasks[1].of
    BY <1>2, <2>1
  <2>4. \A i : i \in Frees' => i + 1 \in Frees /\ tasks'[i] = tasks[i + 1] /\ i \in Nat /\ i + 1 # 1
    BY <2>1, <2>2 DEF Frees
  <2>5. \A i \in Frees : i # 1 => i - 1 \in Frees' /\ tasks'[i - 1] = tasks[i]
    BY <2>1, <2>2 DEF Frees
  <2>6. 1 \in Frees <=> hand'.do = "free"
    BY <2>1, <2>3 DEF Frees
  <2>7. \A id : id \in Freeing' <=>
                  (\E i \in Frees' : tasks'[i].of = id) \/ (hand'.do = "free" /\ hand'.of = id)
    BY DEF Freeing, Frees
  <2>8. \A id : id \in Freeing <=> \E i \in Frees : tasks[i].of = id
    BY <1>1, FreeingIs DEF Idle
  <2>9. \A id \in Freeing' : id \in Freeing
    BY <2>3, <2>4, <2>6, <2>7, <2>8
  <2>10. \A id \in Freeing : id \in Freeing'
    BY <2>3, <2>5, <2>6, <2>7, <2>8
  <2>11. \A i, j \in Frees' : tasks'[i].of = tasks'[j].of => i = j
    <3> TAKE i, j \in Frees'
    <3>1. tasks'[i].of = tasks'[j].of => i + 1 = j + 1
      BY <2>4 DEF Once
    <3> QED BY <2>4, <3>1
  <2>12. hand'.do = "free" => \A i \in Frees' : tasks'[i].of # hand'.of
    BY <2>3, <2>4, <2>6 DEF Once
  <2>13. Freeing' = Freeing
    BY <2>9, <2>10
  <2> QED BY <2>11, <2>12, <2>13 DEF Once
<1>3. CASE /\ timers # <<>> /\ UNCHANGED tasks
           /\ hand' = [do |-> timers[Len(timers)].do, of |-> timers[Len(timers)].of,
                       id |-> timers[Len(timers)].id]
  <2>1. timers[Len(timers)] \in Delayed
    BY <1>3, Shortened DEF TypeOK
  <2>2. hand'.do # "free" /\ hand.do # "free"
    BY <1>1, <1>3, <2>1 DEF Delayed, Idle
  <2> QED BY <1>3, <2>2, FreeingLeft
<1>4. CASE UNCHANGED <<hand, tasks>>
  BY <1>4, FreeingLeft
<1> QED BY <1>2, <1>3, <1>4 DEF Pop, Due, pool

(* alloc_id() returns a gamepad that is not in the mask.                   *)
LEMMA LowestIsFree ==
  ASSUME FreePads # {} PROVE Lowest(FreePads) \in PadIds /\ Lowest(FreePads) \notin mask
<1>1. FreePads \subseteq Nat
  BY InputAssumption DEF FreePads, PadIds
<1>2. Lowest(FreePads) \in FreePads
  BY <1>1, LeastExists DEF Lowest
<1> QED BY <1>2 DEF FreePads

(* Steps that leave the gamepads keep what is said about them.             *)
LEMMA PluggedLeft ==
  ASSUME Plugged, UNCHANGED <<pad, mask>>, os'.pads = os.pads, Freeing' = Freeing, Once'
  PROVE  Plugged'
BY DEF Plugged, Once

(* Plugging in the lowest free gamepad keeps it,                           *)
LEMMA PlugStep ==
  ASSUME TypeOK, Plugged, NEW x \in Sessions \X Pads, pad[x] < 0, NEW works \in BOOLEAN,
         Plug(x, works), Freeing' = Freeing, Once'
  PROVE  Plugged'
<1>0. pad \in [Sessions \X Pads -> PadIds \cup {-1}] /\ mask \subseteq PadIds /\ os \in Shown
  BY DEF TypeOK
<1>1. CASE UNCHANGED <<pad, mask, os>>
  BY <1>1, PluggedLeft
<1> DEFINE id == Lowest(FreePads)
<1>2. CASE /\ FreePads # {} /\ pad' = [pad EXCEPT ![x] = id] /\ mask' = mask \cup {id}
           /\ os' = [os EXCEPT !.pads = @ \cup {id}]
  <2>1. id \in PadIds /\ id \notin mask
    BY <1>2, LowestIsFree
  <2>2. pad[x] = -1 /\ -1 \notin PadIds /\ id # -1
    BY <1>0, <2>1, InputAssumption DEF PadIds
  <2> HIDE DEF id
  <2>3. (\A y \in Sessions \X Pads : pad[y] # id) /\ id \notin Freeing
    BY <2>1 DEF Plugged
  <2>4. \A y \in Sessions \X Pads : pad'[y] = IF y = x THEN id ELSE pad[y]
    BY <1>0, <1>2
  <2>5. os'.pads = mask'
    BY <1>0, <1>2 DEF Plugged, Shown
  <2>6. \A d \in PadIds : d \in mask' <=> (\E y \in Sessions \X Pads : pad'[y] = d) \/ d \in Freeing'
    <3>1. \A d \in PadIds : d # id =>
            ((\E y \in Sessions \X Pads : pad'[y] = d) <=> \E y \in Sessions \X Pads : pad[y] = d)
      BY <2>2, <2>4
    <3>2. pad'[x] = id
      BY <2>4
    <3> QED BY <1>2, <3>1, <3>2 DEF Plugged
  <2>7. \A y, z \in Sessions \X Pads : y # z /\ pad'[y] >= 0 => pad'[y] # pad'[z]
    BY <2>3, <2>4 DEF Plugged
  <2>8. \A y \in Sessions \X Pads : pad'[y] \notin Freeing'
    BY <2>3, <2>4 DEF Plugged
  <2> QED BY <2>5, <2>6, <2>7, <2>8 DEF Plugged, Once
<1> QED BY <1>1, <1>2 DEF Plug

(* and so does unplugging one a controller owns,                           *)
LEMMA UnplugStep ==
  ASSUME TypeOK, Plugged, NEW x \in Sessions \X Pads, pad[x] >= 0, Unplug(pad[x]),
         pad' = [pad EXCEPT ![x] = -1], Freeing' = Freeing, Once'
  PROVE  Plugged'
<1>0. pad \in [Sessions \X Pads -> PadIds \cup {-1}] /\ os \in Shown
  BY DEF TypeOK
<1>1. -1 \notin PadIds /\ pad[x] # -1
  BY DEF PadIds
<1>2. \A y \in Sessions \X Pads : pad'[y] = IF y = x THEN -1 ELSE pad[y]
  BY <1>0
<1>3. os'.pads = mask'
  BY <1>0 DEF Plugged, Unplug, Shown
<1>4. (\A y \in Sessions \X Pads : y # x => pad[y] # pad[x]) /\ pad[x] \notin Freeing
  BY DEF Plugged
<1>5. \A d \in PadIds : d \in mask' <=> (\E y \in Sessions \X Pads : pad'[y] = d) \/ d \in Freeing'
  <2>1. \A d \in PadIds : d # pad[x] =>
          ((\E y \in Sessions \X Pads : pad'[y] = d) <=> \E y \in Sessions \X Pads : pad[y] = d)
    BY <1>1, <1>2
  <2>2. ~\E y \in Sessions \X Pads : pad'[y] = pad[x]
    BY <1>1, <1>2, <1>4
  <2> QED BY <1>4, <2>1, <2>2 DEF Plugged, Unplug
<1>6. \A y, z \in Sessions \X Pads : y # z /\ pad'[y] >= 0 => pad'[y] # pad'[z]
  BY <1>2, <1>1 DEF Plugged
<1>7. -1 \notin Freeing
  BY <1>1, FreeingKinds
<1>8. \A y \in Sessions \X Pads : pad'[y] \notin Freeing'
  BY <1>2, <1>7 DEF Plugged
<1> QED BY <1>3, <1>5, <1>6, <1>8 DEF Plugged, Once

(* handing one over to a task when its session ends,                       *)
LEMMA GiveBackStep ==
  ASSUME TypeOK, Plugged, NEW s \in Sessions, NEW c \in Pads, GiveBack(s, c)
  PROVE  Plugged'
<1> DEFINE x == <<s, c>>
           id == pad[x]
<1>0. pad \in [Sessions \X Pads -> PadIds \cup {-1}] /\ x \in Sessions \X Pads
  BY DEF TypeOK
<1>1. -1 \notin PadIds /\ id \in PadIds /\ id # -1
  BY <1>0 DEF PadIds, GiveBack
<1>2. Task("free", id) \in Undelayed /\ Task("free", id).do = "free" /\ Task("free", id).of = id
  BY <1>1 DEF Task, Undelayed
<1>3. /\ Push(<<Task("free", id)>>) /\ UNCHANGED <<hand, mask, os>>
      /\ pad' = [pad EXCEPT ![x] = -1]
  BY DEF GiveBack
<1>4. /\ id \notin Freeing
      /\ \A y \in Sessions \X Pads : y # x => pad[y] # id
  BY <1>0, <1>1 DEF Plugged, PadIds
<1> HIDE DEF id, x
<1>5. Once
  BY DEF Plugged, Once
<1>6. Once' /\ \A d : d \in Freeing' <=> d \in Freeing \/ d = id
  <2> DEFINE t == Task("free", id)
  <2>1. t \in Undelayed /\ t.do = "free" /\ t.of = id /\ Push(<<t>>)
    BY <1>2, <1>3
  <2> HIDE DEF t
  <2> QED BY <1>3, <1>4, <1>5, <2>1, FreeingPushed
<1>7. \A y \in Sessions \X Pads : pad'[y] = IF y = x THEN -1 ELSE pad[y]
  BY <1>0, <1>3
<1>8. pad[x] = id
  BY DEF id
<1>9. \A d \in PadIds : d \in mask' <=> (\E y \in Sessions \X Pads : pad'[y] = d) \/ d \in Freeing'
  <2>1. \A d \in PadIds : d # id =>
          ((\E y \in Sessions \X Pads : pad'[y] = d) <=> \E y \in Sessions \X Pads : pad[y] = d)
    BY <1>1, <1>7, <1>8
  <2>2. id \in mask
    BY <1>0, <1>1, <1>8 DEF Plugged
  <2> QED BY <1>3, <1>6, <2>1, <2>2 DEF Plugged
<1>10. \A y, z \in Sessions \X Pads : y # z /\ pad'[y] >= 0 => pad'[y] # pad'[z]
  BY <1>1, <1>7 DEF Plugged
<1>11. -1 \notin Freeing
  BY <1>1, FreeingKinds
<1>12. \A y \in Sessions \X Pads : pad'[y] \notin Freeing'
  BY <1>1, <1>4, <1>6, <1>7, <1>11 DEF Plugged
<1>13. os'.pads = mask'
  BY <1>3 DEF Plugged
<1> QED BY <1>6, <1>9, <1>10, <1>12, <1>13 DEF Plugged, Once

(* and that task.                                                          *)
LEMMA FreeStep ==
  ASSUME TypeOK, Plugged, Free
  PROVE  Plugged'
<1> DEFINE id == hand.of
<1>1. id \in PadIds /\ hand.do = "free" /\ id \in Freeing
  BY RunningTasks, FreeingIs DEF TypeOK, Free, Runs, Idle
<1>2. UNCHANGED <<tasks, pad>> /\ hand' = Idle /\ hand'.do # "free"
  BY DEF Free, Done, Idle, pool
<1>3. Frees' = Frees
  BY <1>2 DEF Frees
<1>4. Once'
  BY <1>2, <1>3 DEF Plugged, Once
<1>5. \A d : d \in Freeing' <=> \E i \in Frees : tasks[i].of = d
  BY <1>2 DEF Freeing, Frees
<1>6. \A d : d \in Freeing' <=> d \in Freeing /\ d # id
  BY <1>1, <1>5, FreeingIs DEF Plugged
<1>7. mask' = mask \ {id} /\ os'.pads = os.pads \ {id}
  BY DEF Free, Unplug, TypeOK, Shown
<1>8. \A y \in Sessions \X Pads : pad[y] # id
  BY <1>1 DEF Plugged
<1> HIDE DEF id
<1>9. os'.pads = mask'
  BY <1>7 DEF Plugged
<1>10. \A d \in PadIds : d \in mask' <=> (\E y \in Sessions \X Pads : pad'[y] = d) \/ d \in Freeing'
  BY <1>2, <1>6, <1>7, <1>8 DEF Plugged
<1> QED BY <1>2, <1>4, <1>6, <1>9, <1>10 DEF Plugged, Once

(* Every step keeps what is said about gamepads.                           *)
LEMMA PluggedStep ==
  ASSUME TypeOK, Hands, Plugged, [Next]_vars
  PROVE  Plugged'
<1>0. Once /\ os \in Shown
  BY DEF Plugged, Once, TypeOK
<1>1. ASSUME UNCHANGED <<tasks, pad, mask>>, os'.pads = os.pads,
             hand' = hand \/ (hand.do # "free" /\ hand'.do # "free")
      PROVE  Plugged'
  BY <1>0, <1>1, FreeingLeft, PluggedLeft
<1>2. CASE Outside
  <2>1. ASSUME NEW s \in Sessions, Passthrough(s) \/ Reset(s) PROVE Plugged'
    <3> DEFINE t == IF Passthrough(s) THEN Task("next", s) ELSE Task("release", None)
    <3>1. t \in Undelayed /\ t.do # "free"
      BY DEF Task, Undelayed
    <3>2. Push(<<t>>) /\ UNCHANGED <<hand, pad, mask, os>>
      BY <2>1 DEF Passthrough, Reset, pads
    <3> HIDE DEF t
    <3>3. Once' /\ \A id : id \in Freeing' <=> id \in Freeing
      BY <1>0, <3>1, <3>2, FreeingPushed
    <3>4. Freeing' = Freeing
      BY <3>3
    <3> QED BY <3>2, <3>3, <3>4, PluggedLeft
  <2>2. ASSUME NEW s \in Sessions, Alloc(s) \/ Destroy(s) PROVE Plugged'
    <3>1. UNCHANGED <<tasks, pad, mask, os, hand>>
      BY <2>2 DEF Alloc, Destroy, pads, pool
    <3> QED BY <1>1, <3>1
  <2>3. CASE Tick \/ UNCHANGED vars
    <3>1. UNCHANGED <<tasks, pad, mask, os, hand>>
      BY <2>3 DEF Tick, vars, pads, pool
    <3> QED BY <1>1, <3>1
  <2> QED BY <1>2, <2>1, <2>2, <2>3, GiveBackStep DEF Outside
<1>3. CASE Pop
  <2>1. UNCHANGED <<pad, mask, os>>
    BY <1>3 DEF Pop, pads
  <2> QED BY <1>0, <1>3, <2>1, FreeingPopped, PluggedLeft
<1>4. CASE Lock \/ NextMessage \/ Merge \/ LeftRelease \/ Repeat \/ RepeatAgain \/ Release
           \/ Nudge \/ Home
  <2>1. UNCHANGED <<tasks, pad, mask>>
    BY <1>4 DEF Lock, NextMessage, Merge, LeftRelease, Repeat, RepeatAgain, Release, Nudge, Home,
                pads, pool
  <2>2. os'.pads = os.pads
    BY <1>0, <1>4 DEF Lock, NextMessage, Merge, LeftRelease, Repeat, RepeatAgain, Release, Nudge,
                      Home, Releases, Struck, Shown
  <2>3. hand' = hand \/ (hand.do # "free" /\ hand' = Idle)
    <3>1. CASE Lock \/ NextMessage \/ Merge \/ Repeat \/ RepeatAgain
      BY <3>1 DEF Lock, NextMessage, Merge, Repeat, RepeatAgain, Runs, Done, Hands
    <3>2. CASE LeftRelease \/ Release \/ Nudge \/ Home
      BY <3>2 DEF LeftRelease, Release, Nudge, Home, Runs, Done
    <3> QED BY <1>4, <3>1, <3>2
  <2>4. Idle.do # "free"
    BY DEF Idle
  <2> QED BY <1>1, <2>1, <2>2, <2>3, <2>4
<1>5. ASSUME NEW kind, Sends(kind) PROVE Freeing' = Freeing /\ Once'
  <2>1. UNCHANGED tasks /\ hand.do # "free" /\ hand'.do # "free"
    BY <1>5 DEF Sends, Done, Hands, Idle
  <2> QED BY <1>0, <2>1, FreeingLeft
<1>6. CASE SendRelative \/ SendAbsolute \/ SendButton \/ SendKey \/ SendTouch
  <2>1. Freeing' = Freeing /\ Once'
    BY <1>5, <1>6 DEF SendRelative, SendAbsolute, SendButton, SendKey, SendTouch
  <2>2. UNCHANGED <<pad, mask>>
    BY <1>6 DEF SendRelative, SendAbsolute, SendButton, SendKey, SendTouch, pads
  <2>3. os'.pads = os.pads
    BY <1>0, <1>6 DEF SendRelative, SendAbsolute, SendButton, SendKey, SendTouch,
                      Presses, Releases, Struck, Shown
  <2> QED BY <2>1, <2>2, <2>3, PluggedLeft
<1>7. CASE SendArrival \/ SendPad
  <2> DEFINE x == <<hand.of, message.pad>>
  <2>1. Freeing' = Freeing /\ Once'
    BY <1>5, <1>7 DEF SendArrival, SendPad
  <2>2. x \in Sessions \X Pads
    <3>1. hand.of \in Sessions
      BY <1>7, TakesSession DEF SendArrival, SendPad, Sends
    <3>2. message.pad \in Pads
      BY <1>7, KindsOfMessages DEF SendArrival, SendPad, Sends, Hands
    <3> QED BY <3>1, <3>2
  <2>3. pad[x] < 0 \/ pad[x] >= 0
    BY <2>2 DEF TypeOK, PadIds
  <2>4. CASE UNCHANGED <<pad, mask, os>>
    BY <2>1, <2>4, PluggedLeft
  <2>5. ASSUME NEW works \in BOOLEAN, pad[x] < 0, Plug(x, works) PROVE Plugged'
    BY <2>1, <2>2, <2>5, PlugStep
  <2>6. CASE pad[x] >= 0 /\ Unplug(pad[x]) /\ pad' = [pad EXCEPT ![x] = -1]
    BY <2>1, <2>2, <2>6, UnplugStep
  <2>7. CASE SendArrival
    BY <2>3, <2>4, <2>5, <2>7 DEF SendArrival
  <2>8. CASE SendPad
    BY <2>3, <2>4, <2>5, <2>6, <2>8 DEF SendPad, pads
  <2> QED BY <1>7, <2>7, <2>8
<1>8. CASE Free
  BY <1>8, FreeStep
<1> QED BY <1>2, <1>3, <1>4, <1>6, <1>7, <1>8, NextIs DEF Work
-----------------------------------------------------------------------------
(* Types, one group of variables at a time: only the actions named here    *)
(* change them.                                                            *)
LEMMA SessionsType == ASSUME TypeOK, [Next]_vars
  PROVE session' \in [Sessions -> {"new", "open", "closed", "gone"}]
<1>1. UNCHANGED session \/ \E s \in Sessions : Alloc(s) \/ Reset(s) \/ Destroy(s)
  BY DEF Next, Work, vars, pool, Passthrough, GiveBack, Tick, Pop, Lock, NextMessage, Merge,
         Sends, SendRelative, SendAbsolute, SendButton, SendKey, SendArrival, SendPad, SendTouch,
         LeftRelease, Repeat, RepeatAgain, Release, Nudge, Home, Free
<1> QED BY <1>1 DEF TypeOK, Alloc, Reset, Destroy

(* The types: the queues of messages;                                      *)
LEMMA QueuesType == ASSUME TypeOK, Hands, [Next]_vars
  PROVE queue' \in [Sessions -> Seq(AllMessages)]
<1>1. \/ UNCHANGED queue
      \/ (\E s \in Sessions : Passthrough(s)) \/ NextMessage \/ Merge
  BY DEF Next, Work, vars, pool, Alloc, Reset, Destroy, GiveBack, Tick, Pop, Lock,
         Sends, SendRelative, SendAbsolute, SendButton, SendKey, SendArrival, SendPad, SendTouch,
         LeftRelease, Repeat, RepeatAgain, Release, Nudge, Home, Free
<1>2. CASE \E s \in Sessions : Passthrough(s)
  BY <1>2 DEF Passthrough, TypeOK
<1>3. ASSUME NEW q \in Seq(AllMessages), queue' = [queue EXCEPT ![hand.of] = q]
      PROVE  queue' \in [Sessions -> Seq(AllMessages)]
  BY <1>3 DEF TypeOK
<1>4. CASE NextMessage
  <2>1. queue[hand.of] \in Seq(AllMessages)
    BY <1>4, TakesSession DEF NextMessage
  <2>2. queue[hand.of] # <<>> => Tail(queue[hand.of]) \in Seq(AllMessages)
    BY <2>1, HeadTailProperties
  <2> QED BY <1>1, <1>3, <1>4, <2>2 DEF NextMessage, TypeOK
<1>5. CASE Merge
  <2>1. CASE Outcome.result = "batched" /\ queue' = [queue EXCEPT ![hand.of] = RemoveAt(@, at)]
    <3> DEFINE q == queue[hand.of]
    <3>1. Outcome.result # "terminate_batch"
      BY <2>1
    <3>2. at \in 1..Len(q) /\ q \in Seq(AllMessages)
      BY <1>5, <3>1, MergeTakes
    <3> HIDE DEF q
    <3>3. RemoveAt(q, at) \in Seq(AllMessages)
      BY ONLY <3>2, Removed
    <3> QED BY <1>3, <2>1, <3>3 DEF q
  <2> QED BY <1>5, <2>1 DEF Merge, TypeOK
<1> QED BY <1>1, <1>2, <1>4, <1>5 DEF TypeOK

(* the tasks;                                                              *)
LEMMA TasksType == ASSUME TypeOK, [Next]_vars PROVE tasks' \in Seq(Undelayed)
<1>1. \/ UNCHANGED tasks
      \/ \E s \in Sessions : Passthrough(s) \/ Reset(s)
      \/ \E s \in Sessions, c \in Pads : GiveBack(s, c)
      \/ tasks # <<>> /\ tasks' = Tail(tasks)
  BY DEF Next, Work, vars, pool, Alloc, Destroy, Tick, Pop, Lock, NextMessage, Merge,
         Sends, SendRelative, SendAbsolute, SendButton, SendKey, SendArrival, SendPad, SendTouch,
         LeftRelease, Repeat, RepeatAgain, Release, Nudge, Home, Free
<1>2. ASSUME NEW t \in Undelayed, Push(<<t>>) PROVE tasks' \in Seq(Undelayed)
  BY <1>2 DEF Push, TypeOK
<1>3. ASSUME NEW s \in Sessions, Passthrough(s) \/ Reset(s) PROVE tasks' \in Seq(Undelayed)
  <2>1. Task("next", s) \in Undelayed /\ Task("release", None) \in Undelayed
    BY DEF Task, Undelayed
  <2> QED BY <1>2, <1>3, <2>1 DEF Passthrough, Reset
<1>4. ASSUME NEW s \in Sessions, NEW c \in Pads, GiveBack(s, c) PROVE tasks' \in Seq(Undelayed)
  <2>1. pad[<<s, c>>] \in PadIds
    BY <1>4 DEF GiveBack, TypeOK, PadIds
  <2>2. Task("free", pad[<<s, c>>]) \in Undelayed
    BY <2>1 DEF Task, Undelayed
  <2> QED BY <1>2, <1>4, <2>2 DEF GiveBack
<1>5. CASE tasks # <<>> /\ tasks' = Tail(tasks)
  BY <1>5, HeadTailProperties DEF TypeOK
<1> QED BY <1>1, <1>3, <1>4, <1>5 DEF TypeOK

(* the worker and its task;                                                *)
LEMMA WorkerType == ASSUME TypeOK, Hands, [Next]_vars
  PROVE /\ worker' \in {"pop", "lock", "wait", "run", "merge", "send", "repeat"}
        /\ hand' \in Running \cup {Idle}
<1>1. CASE Outside
  BY <1>1, OutsideLeaves DEF TypeOK
<1>2. CASE Pop
  <2>1. CASE tasks # <<>> /\ worker' = "run"
             /\ hand' = [do |-> Head(tasks).do, of |-> Head(tasks).of, id |-> None]
    <3>1. Head(tasks) \in Undelayed
      BY <2>1, HeadTailProperties DEF TypeOK
    <3> QED BY <2>1, <3>1, PoppedTasks
  <2>2. CASE timers # <<>> /\ worker' = "run"
             /\ hand' = [do |-> timers[Len(timers)].do, of |-> timers[Len(timers)].of,
                         id |-> timers[Len(timers)].id]
    <3>1. timers[Len(timers)] \in Delayed
      BY <2>2, Shortened DEF TypeOK
    <3> QED BY <2>2, <3>1, PoppedTasks
  <2>3. CASE worker' = "lock" /\ UNCHANGED hand
    BY <2>3 DEF TypeOK
  <2> QED BY <1>2, <2>1, <2>2, <2>3 DEF Pop, Due
<1>3. CASE Lock \/ NextMessage \/ Merge \/ Repeat
  BY <1>3 DEF Lock, NextMessage, Merge, Repeat, Done, TypeOK
<1>4. CASE SendRelative \/ SendAbsolute \/ SendButton \/ SendKey \/ SendArrival \/ SendPad
           \/ SendTouch
  BY <1>4 DEF SendRelative, SendAbsolute, SendButton, SendKey, SendArrival, SendPad, SendTouch,
              Sends, Done
<1>5. CASE LeftRelease \/ Release \/ Nudge \/ Home \/ Free \/ RepeatAgain
  BY <1>5 DEF LeftRelease, Release, Nudge, Home, Free, RepeatAgain, Done
<1> QED BY <1>1, <1>2, <1>3, <1>4, <1>5, NextIs DEF Work

(* the message being merged;                                               *)
LEMMA BatchType == ASSUME TypeOK, Hands, [Next]_vars
  PROVE message' \in Sendable \cup {Idle} /\ at' \in Nat
<1>1. \/ UNCHANGED batch \/ NextMessage \/ Merge \/ (message' = Idle /\ UNCHANGED at)
  BY DEF Next, Work, vars, Alloc, Passthrough, Reset, Destroy, GiveBack, Tick, Pop, Lock,
         Sends, SendRelative, SendAbsolute, SendButton, SendKey, SendArrival, SendPad, SendTouch,
         LeftRelease, Repeat, RepeatAgain, Release, Nudge, Home, Free
<1>2. CASE NextMessage
  <2>1. queue[hand.of] \in Seq(AllMessages)
    BY <1>2, TakesSession DEF NextMessage
  <2>2. queue[hand.of] # <<>> => Head(queue[hand.of]) \in Sendable
    BY <2>1, HeadTailProperties DEF Sendable
  <2> QED BY <1>2, <2>2 DEF NextMessage, TypeOK, batch
<1>3. CASE Merge
  <2>1. CASE Outcome.result = "batched" /\ message' = Outcome.message /\ UNCHANGED at
    <3>1. Outcome.result # "terminate_batch"
      BY <2>1
    <3>2. /\ queue[hand.of][at] \in AllMessages /\ message \in Sendable
          /\ Outcome = Batch(message, queue[hand.of][at])
      BY <1>3, <3>1, MergeTakes
    <3>3. Outcome.message \in Sendable
      BY <2>1, <3>2, BatchKeeps
    <3> QED BY <2>1, <3>3 DEF TypeOK
  <2>2. CASE UNCHANGED message /\ (at' = 0 \/ at' = at + 1)
    BY <2>2 DEF TypeOK
  <2> QED BY <1>3, <2>1, <2>2 DEF Merge
<1> QED BY <1>1, <1>2, <1>3 DEF TypeOK, batch

(* the keys;                                                               *)
LEMMA KeysType == ASSUME TypeOK, Hands, [Next]_vars
  PROVE /\ keyPress' \in [AllKeys -> BOOLEAN] /\ shortcut' \in [Sessions -> BOOLEAN]
        /\ repeatId' \in Ids \cup {None}
<1>1. CASE SendKey
  <2>1. message.key \in AllKeys /\ message.down \in BOOLEAN /\ hand.of \in Sessions
    BY <1>1, KindsOfMessages, TakesSession DEF SendKey, Sends, Hands
  <2>2. repeatId' \in Ids \cup {None}
    BY <1>1, SendKeyTimers DEF TypeOK
  <2>3. CASE UNCHANGED <<keyPress, shortcut>>
    BY <2>2, <2>3 DEF TypeOK
  <2>4. CASE /\ keyPress' = [keyPress EXCEPT ![message.key] = message.down]
             /\ shortcut' = IF message.key = Mod THEN [shortcut EXCEPT ![hand.of] = message.down]
                            ELSE shortcut
    <3>1. keyPress' \in [AllKeys -> BOOLEAN]
      BY <2>1, <2>4 DEF TypeOK
    <3>2. shortcut' \in [Sessions -> BOOLEAN]
      BY <2>1, <2>4 DEF TypeOK
    <3> QED BY <2>2, <3>1, <3>2
  <2> QED BY <1>1, <2>3, <2>4 DEF SendKey, keyboard
<1>2. CASE Repeat
  BY <1>2 DEF Repeat, TypeOK
<1>3. CASE RepeatAgain
  BY <1>3, RepeatAgainTimers DEF RepeatAgain, TypeOK
<1>4. CASE Release
  BY <1>4 DEF Release, TypeOK
<1>5. CASE UNCHANGED keyboard
  BY <1>5 DEF TypeOK, keyboard
<1>6. UNCHANGED keyboard \/ SendKey \/ Repeat \/ RepeatAgain \/ Release
  BY DEF Next, Work, vars, Alloc, Passthrough, Reset, Destroy, GiveBack, Tick, Pop, Lock,
         NextMessage, Merge, SendRelative, SendAbsolute, SendButton, SendArrival, SendPad,
         SendTouch, LeftRelease, Nudge, Home, Free
<1> QED BY <1>1, <1>2, <1>3, <1>4, <1>5, <1>6

(* the mouse;                                                              *)
LEMMA MouseType == ASSUME TypeOK, Hands, [Next]_vars
  PROVE /\ mousePress' \in [{"left", "right"} -> BOOLEAN]
        /\ leftTimeout' \in [Sessions -> Ids \cup {None, Disabled}]
<1>1. CASE SendRelative \/ SendAbsolute
  <2>1. hand.of \in Sessions
    BY <1>1, TakesSession DEF SendRelative, SendAbsolute, Sends
  <2> QED BY <1>1, <2>1 DEF SendRelative, SendAbsolute, TypeOK, mouse
<1>2. CASE SendButton
  <2>1. message.button \in {"left", "right"} /\ message.down \in BOOLEAN /\ hand.of \in Sessions
    BY <1>2, KindsOfMessages, TakesSession DEF SendButton, Sends, Hands
  <2>2. mousePress' \in [{"left", "right"} -> BOOLEAN]
    <3>1. ASSUME NEW v \in BOOLEAN, mousePress' = [mousePress EXCEPT ![message.button] = v]
          PROVE  mousePress' \in [{"left", "right"} -> BOOLEAN]
      BY <3>1 DEF TypeOK
    <3>2. CASE UNCHANGED mousePress
      BY <3>2 DEF TypeOK
    <3> QED BY <1>2, <3>1, <3>2 DEF SendButton
  <2>3. leftTimeout' \in [Sessions -> Ids \cup {None, Disabled}]
    <3>1. ASSUME NEW id \in FreshIds, leftTimeout' = [leftTimeout EXCEPT ![hand.of] = id]
          PROVE  leftTimeout' \in [Sessions -> Ids \cup {None, Disabled}]
      BY <2>1, <3>1, FreshIsNobodys DEF TypeOK
    <3>2. CASE UNCHANGED leftTimeout
      BY <3>2 DEF TypeOK
    <3> QED BY <1>2, <3>1, <3>2 DEF SendButton
  <2> QED BY <2>2, <2>3
<1>3. CASE LeftRelease
  <2>1. hand.of \in Sessions
    BY <1>3, RunningTasks DEF LeftRelease, Runs, TypeOK, Idle
  <2>2. CASE UNCHANGED <<mousePress, leftTimeout>>
    BY <2>2 DEF TypeOK
  <2>3. CASE mousePress' = [mousePress EXCEPT !["left"] = FALSE]
             /\ leftTimeout' = [leftTimeout EXCEPT ![hand.of] = None]
    <3>1. mousePress' \in [{"left", "right"} -> BOOLEAN]
      BY <2>3 DEF TypeOK
    <3>2. leftTimeout' \in [Sessions -> Ids \cup {None, Disabled}]
      BY <2>1, <2>3 DEF TypeOK
    <3> QED BY <3>1, <3>2
  <2> QED BY <1>3, <2>2, <2>3 DEF LeftRelease
<1>4. CASE Release
  BY <1>4 DEF Release, TypeOK
<1>5. CASE UNCHANGED mouse
  BY <1>5 DEF TypeOK, mouse
<1>6. UNCHANGED mouse \/ SendRelative \/ SendAbsolute \/ SendButton \/ LeftRelease \/ Release
  BY DEF Next, Work, vars, Alloc, Passthrough, Reset, Destroy, GiveBack, Tick, Pop, Lock,
         NextMessage, Merge, SendKey, SendArrival, SendPad,
         SendTouch, Repeat, RepeatAgain, Nudge, Home, Free
<1> QED BY <1>1, <1>2, <1>3, <1>4, <1>5, <1>6

(* The controller of a message is one of its session's.                    *)
LEMMA Controller ==
  ASSUME TypeOK, Hands, SendArrival \/ SendPad
  PROVE  <<hand.of, message.pad>> \in Sessions \X Pads
<1>1. hand.of \in Sessions
  BY TakesSession DEF SendArrival, SendPad, Sends
<1>2. message.pad \in Pads
  BY KindsOfMessages DEF SendArrival, SendPad, Sends, Hands
<1> QED BY <1>1, <1>2

(* the gamepads;                                                           *)
LEMMA PadsType == ASSUME TypeOK, Hands, [Next]_vars
  PROVE pad' \in [Sessions \X Pads -> PadIds \cup {-1}] /\ mask' \subseteq PadIds
<1>1. ASSUME NEW x \in Sessions \X Pads, NEW works \in BOOLEAN, Plug(x, works)
      PROVE  pad' \in [Sessions \X Pads -> PadIds \cup {-1}] /\ mask' \subseteq PadIds
  <2> DEFINE id == Lowest(FreePads)
  <2>1. CASE UNCHANGED <<pad, mask>>
    BY <2>1 DEF TypeOK
  <2>2. CASE FreePads # {} /\ pad' = [pad EXCEPT ![x] = id] /\ mask' = mask \cup {id}
    <3>1. id \in PadIds
      BY <2>2, LowestIsFree
    <3> HIDE DEF id
    <3>2. pad' \in [Sessions \X Pads -> PadIds \cup {-1}]
      BY <2>2, <3>1 DEF TypeOK
    <3> QED BY <2>2, <3>1, <3>2 DEF TypeOK
  <2> QED BY <1>1, <2>1, <2>2 DEF Plug
<1>2. ASSUME NEW id, Unplug(id) PROVE mask' \subseteq PadIds
  BY <1>2 DEF Unplug, TypeOK
<1>3. CASE UNCHANGED <<pad, mask>>
  BY <1>3 DEF TypeOK
<1>4. CASE SendArrival \/ SendPad
  <2> DEFINE x == <<hand.of, message.pad>>
  <2>1. x \in Sessions \X Pads
    BY <1>4, Controller
  <2>2. CASE Unplug(pad[x]) /\ pad' = [pad EXCEPT ![x] = -1]
    BY <1>2, <2>2 DEF TypeOK
  <2>3. CASE SendArrival
    BY <1>1, <1>3, <2>1, <2>3 DEF SendArrival
  <2>4. CASE SendPad
    BY <1>1, <1>3, <2>1, <2>2, <2>4 DEF SendPad, pads
  <2> QED BY <1>4, <2>3, <2>4
<1>5. CASE Free
  BY <1>2, <1>5 DEF Free, TypeOK
<1>6. CASE \E s \in Sessions, c \in Pads : GiveBack(s, c)
  BY <1>6 DEF GiveBack, TypeOK
<1>7. \/ UNCHANGED <<pad, mask>> \/ SendArrival \/ SendPad \/ Free
      \/ \E s \in Sessions, c \in Pads : GiveBack(s, c)
  BY DEF Next, Work, vars, Alloc, Passthrough, Reset, Destroy, Tick, Pop, Lock,
         NextMessage, Merge, SendRelative, SendAbsolute, SendButton, SendKey,
         SendTouch, LeftRelease, Repeat, RepeatAgain, Release, Nudge, Home, pads
<1> QED BY <1>3, <1>4, <1>5, <1>6, <1>7

(* their back buttons;                                                     *)
LEMMA BackType == ASSUME TypeOK, Hands, [Next]_vars
  PROVE /\ back' \in [Sessions \X Pads -> BackStates]
        /\ backTimeout' \in [Sessions \X Pads -> Ids \cup {None}]
<1>1. CASE UNCHANGED <<back, backTimeout>>
  BY <1>1 DEF TypeOK
<1>2. CASE SendPad
  <2> DEFINE x == <<hand.of, message.pad>>
             pressed == "BACK" \in message.buttons
             down == SeenBack(x, pressed)
  <2>1. x \in Sessions \X Pads
    BY <1>2, Controller
  <2>2. [state |-> NextBackState(x, pressed), down |-> down] \in BackStates
    <3>1. back[x].state \in {"NONE", "UP"}
      BY <2>1 DEF TypeOK, BackStates
    <3>2. NextBackState(x, pressed) \in {"NONE", "UP"} /\ down \in BOOLEAN
      BY <3>1 DEF NextBackState, SeenBack
    <3> QED BY <3>2 DEF BackStates
  <2> HIDE DEF x, pressed, down
  <2>3. CASE /\ BackTimer(x, down)
             /\ back' = [back EXCEPT ![x] = [state |-> NextBackState(x, pressed), down |-> down]]
    <3>1. back' \in [Sessions \X Pads -> BackStates]
      BY <2>1, <2>2, <2>3 DEF TypeOK
    <3>2. CASE \E id \in FreshIds : backTimeout' = [backTimeout EXCEPT ![x] = id]
      BY <2>1, <3>1, <3>2, FreshIsNobodys DEF TypeOK
    <3>3. CASE backTimeout' = [backTimeout EXCEPT ![x] = None]
      BY <2>1, <3>1, <3>3 DEF TypeOK
    <3>4. CASE UNCHANGED backTimeout
      BY <3>1, <3>4 DEF TypeOK
    <3> QED BY <2>3, <3>2, <3>3, <3>4 DEF BackTimer
  <2> QED BY <1>1, <1>2, <2>3 DEF SendPad, pads, x, pressed, down
<1>3. CASE Home
  <2>1. hand.of \in Sessions \X Pads
    BY <1>3, RunningTasks DEF Home, Runs, TypeOK, Idle
  <2>2. [state |-> "UP", down |-> FALSE] \in BackStates
    BY DEF BackStates
  <2> QED BY <1>3, <2>1, <2>2 DEF Home, TypeOK
<1>4. UNCHANGED <<back, backTimeout>> \/ SendPad \/ Home
  BY DEF Next, Work, vars, Alloc, Passthrough, Reset, Destroy, GiveBack, Tick, Pop, Lock,
         NextMessage, Merge, SendRelative, SendAbsolute, SendButton, SendKey, SendArrival,
         SendTouch, LeftRelease, Repeat, RepeatAgain, Release, Nudge, Free, pads
<1> QED BY <1>1, <1>2, <1>3, <1>4

(* (distances are integers)                                                *)
LEMMA Distances == Int16 \subseteq Int
BY DEF Int16

(* what the system was told;                                               *)
LEMMA ShownType == ASSUME TypeOK, Hands, [Next]_vars PROVE os' \in Shown
<1>0. os \in Shown
  BY DEF TypeOK
<1>1. CASE UNCHANGED os
  BY <1>0, <1>1
<1>2. ASSUME NEW b \in {"left", "right"}, Presses(b) \/ Releases(b) PROVE os' \in Shown
  BY <1>0, <1>2 DEF Presses, Releases, Shown
<1>3. ASSUME NEW k \in AllKeys, NEW down, NEW synthetic, Struck(k, down, synthetic)
      PROVE  os' \in Shown
  <2>1. MapKeycode(k) \in Codes
    BY InputAssumption DEF MapKeycode
  <2> QED BY <1>0, <1>3, <2>1 DEF Struck, Shown
<1>4. ASSUME NEW x \in Sessions \X Pads, NEW works \in BOOLEAN, Plug(x, works) PROVE os' \in Shown
  BY <1>0, <1>4, LowestIsFree DEF Plug, Shown
<1>5. ASSUME NEW id, Unplug(id) PROVE os' \in Shown
  BY <1>0, <1>5 DEF Unplug, Shown
<1>6. CASE SendRelative
  <2>1. message.dx \in Int
    <3>1. message.dx \in Int16
      BY <1>6, KindsOfMessages DEF SendRelative, Sends, Hands
    <3> QED BY <3>1, Distances
  <2> QED BY <1>0, <1>6, <2>1 DEF SendRelative, Shown
<1>7. CASE SendTouch
  <2>1. /\ hand.of \in Sessions /\ message.pointer \in Pointers
        /\ message.event \in {"DOWN", "MOVE", "UP"}
    BY <1>7, TakesSession, KindsOfMessages DEF SendTouch, Sends, Hands
  <2>2. <<hand.of, message.pointer>> \in Sessions \X Pointers
    BY <2>1
  <2>3. CASE os' = [os EXCEPT !.touch[<<hand.of, message.pointer>>] = message.event]
    BY <1>0, <2>1, <2>2, <2>3 DEF Shown
  <2> QED BY <1>1, <1>7, <2>3 DEF SendTouch
<1>8. CASE SendButton
  <2>1. message.button \in {"left", "right"}
    BY <1>8, KindsOfMessages DEF SendButton, Sends, Hands
  <2> QED BY <1>1, <1>2, <1>8, <2>1 DEF SendButton
<1>9. CASE SendKey
  <2>1. message.key \in AllKeys
    BY <1>9, KindsOfMessages DEF SendKey, Sends, Hands
  <2> QED BY <1>1, <1>3, <1>9, <2>1 DEF SendKey
<1>10. CASE SendArrival
  <2>1. <<hand.of, message.pad>> \in Sessions \X Pads
    BY <1>10, Controller
  <2> QED BY <1>1, <1>4, <1>10, <2>1 DEF SendArrival
<1>11. CASE SendPad
  <2>1. <<hand.of, message.pad>> \in Sessions \X Pads
    BY <1>11, Controller
  <2> QED BY <1>1, <1>4, <1>5, <1>11, <2>1 DEF SendPad
<1>12. CASE LeftRelease
  BY <1>1, <1>2, <1>12 DEF LeftRelease
<1>13. CASE Repeat
  <2>1. hand.of.key \in AllKeys
    BY <1>13, RunningTasks DEF Repeat, Runs, TypeOK, Idle
  <2> QED BY <1>1, <1>3, <1>13, <2>1 DEF Repeat
<1>14. CASE Release
  BY <1>0, <1>14 DEF Release, Shown
<1>15. CASE Free
  BY <1>5, <1>15 DEF Free
<1>16. CASE Outside
  BY <1>1, <1>16, OutsideLeaves
<1>17. CASE Pop \/ Lock \/ NextMessage \/ Merge \/ SendAbsolute \/ RepeatAgain \/ Nudge \/ Home
  BY <1>1, <1>17 DEF Pop, Lock, NextMessage, Merge, SendAbsolute, RepeatAgain, Nudge, Home
<1> QED BY <1>6, <1>7, <1>8, <1>9, <1>10, <1>11, <1>12, <1>13, <1>14, <1>15, <1>16, <1>17,
           NextIs DEF Work

(* and the histories and bounds.                                           *)
LEMMA HistoryType == ASSUME TypeOK, Hands, [Next]_vars
  PROVE /\ asked' \in Int /\ touched' \in [Sessions \X Pointers -> {"DOWN", "MOVE", "UP"}]
        /\ ignored' \in [Sessions \X Pointers -> {"DOWN", "MOVE", "UP", "none"}]
        /\ abandoned' \subseteq Codes
        /\ lost' \in BOOLEAN /\ mix' \in Mixes /\ sent' \in 0..MaxMessages
<1>1. CASE \E s \in Sessions : Passthrough(s)
  <2>1. PICK s \in Sessions : Passthrough(s)
    BY <1>1
  <2>2. PICK m \in AllMessages :
          /\ asked' = IF m.kind = "relative" THEN asked + m.dx ELSE asked
          /\ touched' = IF m.kind = "touch" THEN [touched EXCEPT ![<<s, m.pointer>>] = m.event]
                        ELSE touched
    BY <2>1 DEF Passthrough
  <2>3. asked' \in Int
    <3>1. m.kind = "relative" => m.dx \in Int16
      BY KindsOfMessages DEF Sendable
    <3>2. m.kind = "relative" => m.dx \in Int
      BY <3>1, Distances
    <3> QED BY <2>2, <3>2 DEF TypeOK
  <2>4. touched' \in [Sessions \X Pointers -> {"DOWN", "MOVE", "UP"}]
    <3>1. m.kind = "touch" => m.pointer \in Pointers /\ m.event \in {"DOWN", "MOVE", "UP"}
      BY KindsOfMessages DEF Sendable
    <3> QED BY <2>2, <3>1 DEF TypeOK
  <2>5. sent' \in 0..MaxMessages /\ UNCHANGED <<lost, ignored, abandoned, mix>>
    BY <2>1, InputAssumption DEF Passthrough, TypeOK, faults
  <2> QED BY <2>3, <2>4, <2>5 DEF TypeOK
<1>2. ASSUME lost' \in BOOLEAN, abandoned' \subseteq Codes, UNCHANGED <<asked, touched, ignored, mix, sent>>
      PROVE  /\ asked' \in Int /\ touched' \in [Sessions \X Pointers -> {"DOWN", "MOVE", "UP"}]
             /\ ignored' \in [Sessions \X Pointers -> {"DOWN", "MOVE", "UP", "none"}]
             /\ abandoned' \subseteq Codes
             /\ lost' \in BOOLEAN /\ mix' \in Mixes /\ sent' \in 0..MaxMessages
  BY <1>2 DEF TypeOK
<1>3. \A id : LosesLeft(id) \in BOOLEAN
  BY DEF LosesLeft
<1>4. CASE \E s \in Sessions : Reset(s)
  BY <1>2, <1>3, <1>4 DEF Reset, TypeOK
<1>5. CASE SendKey
  <2>1. abandoned' \subseteq Codes
    BY <1>5 DEF SendKey, Struck, TypeOK
  <2>2. lost' \in BOOLEAN
    BY <1>3, <1>5 DEF SendKey, TypeOK
  <2> QED BY <1>2, <1>5, <2>1, <2>2 DEF SendKey, Sends
<1>6. CASE SendPad
  <2>1. lost' \in BOOLEAN
    BY <1>3, <1>6 DEF SendPad, BackTimer, TypeOK
  <2> QED BY <1>2, <1>6, <2>1 DEF SendPad, Sends, TypeOK
<1>9. CASE SendTouch
  <2>1. /\ <<hand.of, message.pointer>> \in Sessions \X Pointers
        /\ message.event \in {"DOWN", "MOVE", "UP"}
    BY <1>9, TakesSession, KindsOfMessages DEF SendTouch, Sends, Hands
  <2>2. ignored' \in [Sessions \X Pointers -> {"DOWN", "MOVE", "UP", "none"}]
    BY <1>9, <2>1 DEF SendTouch, TypeOK
  <2> QED BY <1>9, <2>2 DEF SendTouch, Sends, TypeOK
<1>10. CASE Release
  <2>1. \A k \in Pressed : MapKeycode(k) \in Codes
    BY InputAssumption DEF MapKeycode, Pressed
  <2>2. abandoned' \subseteq Codes
    BY <1>10, <2>1 DEF Release, TypeOK
  <2> QED BY <1>2, <1>10, <2>2 DEF Release, TypeOK
<1>11. CASE Repeat
  BY <1>2, <1>11 DEF Repeat, history, faults, TypeOK
<1>7. CASE UNCHANGED history
  BY <1>2, <1>7 DEF history, faults, TypeOK
<1>8. \/ UNCHANGED history \/ SendKey \/ SendPad \/ SendTouch \/ Release \/ Repeat
      \/ \E s \in Sessions : Passthrough(s) \/ Reset(s)
  BY DEF Next, Work, vars, Alloc, Destroy, GiveBack, Tick, Pop, Lock,
         NextMessage, Merge, Sends, SendRelative, SendAbsolute, SendButton, SendArrival,
         LeftRelease, RepeatAgain, Nudge, Home, Free, history, faults
<1> QED BY <1>1, <1>4, <1>5, <1>6, <1>7, <1>8, <1>9, <1>10, <1>11

(* Every step keeps the types.                                             *)
LEMMA TypeStep == ASSUME TypeOK, Hands, [Next]_vars PROVE TypeOK'
BY SessionsType, QueuesType, TasksType, TimersStep, WorkerType, BatchType, KeysType, MouseType,
   PadsType, BackType, ShownType, HistoryType DEF TypeOK, TimersOK

-----------------------------------------------------------------------------
(* Inv is an invariant of Input.                                           *)
THEOREM Inductive == Spec => []Inv
<1>1. Inv /\ [Next]_vars => Inv'
  BY TypeStep, HandsStep, AwakeStep, RepeatsStep, KeysStep, ButtonsStep, FingersStep, SkippedStep,
     PluggedStep DEF Inv
<1> QED BY <1>1, Initially, PTL DEF Spec

(* The state of the input keeps its types; the delayed tasks stay in the   *)
(* order in which they are due, each at an address of its own.             *)
THEOREM TypeCorrect == Spec => []TypeOK
<1>1. Inv => TypeOK
  BY DEF Inv
<1> QED BY <1>1, Inductive, PTL

(* With nothing queued or in hand the system knows the last event of every *)
(* finger.                                                                 *)
LEMMA FingersAreTold == Inv => FingersFollow
<1> SUFFICES ASSUME Inv, NEW s \in Sessions, NEW p \in Pointers,
                    queue[s] = <<>>, worker \notin {"merge", "send"}
             PROVE  Heard(<<s, p>>) = touched[<<s, p>>]
  BY DEF FingersFollow
<1>1. Kept(s, p) /\ DOMAIN queue[s] = {} /\ ~InHand(s, p)
  BY DEF Inv, Fingers, InHand
<1> QED BY <1>1 DEF Kept, Ends, LastTold

(* At most one task repeats a key.                                         *)
LEMMA RepeatedOnce == Inv => OneRepeat
<1> SUFFICES ASSUME Inv PROVE OneRepeat
  OBVIOUS
<1> DEFINE R == {i \in DOMAIN timers : timers[i].do = "repeat"}
<1>1. \A i, j \in R : i = j
  <2>1. \A i \in R : timers[i].id = repeatId
    BY DEF Inv, Repeats, Range
  <2> QED BY <2>1 DEF Inv, TypeOK, OneEach
<1>2. worker = "repeat" => R = {}
  <2>1. worker = "repeat" => hand.do = "repeat"
    BY DEF Inv, Hands
  <2> QED BY <2>1 DEF Inv, Repeats, Range
<1>3. CASE R = {}
  BY <1>3, FS_EmptySet DEF OneRepeat
<1>4. CASE R # {}
  <2>1. PICK i \in R : TRUE
    BY <1>4
  <2>2. R = {i}
    BY <1>1, <2>1
  <2>3. Cardinality(R) = 1
    BY <2>2, FS_Singleton
  <2> QED BY <1>2, <1>4, <2>3 DEF OneRepeat
<1> QED BY <1>3, <1>4

(* Nothing stays down in the operating system that the program believes to *)
(* be up but a mapped key that a reset released by the wrong code, fingers *)
(* are where the client last saw them or their last event was ignored, and *)
(* one task repeats a key: whatever sessions reset, merge, cancel and      *)
(* repeat meanwhile, and whatever keys are bound to.                       *)
THEOREM NothingStaysDown == Spec => []KeysAsSent
<1>1. Inv => KeysAsSent
  BY FingersAreTold, RepeatedOnce DEF Inv, KeysAsSent, NothingStuck
<1> QED BY <1>1, Inductive, PTL

(* Every gamepad in the mask is plugged in and has one owner, and none     *)
(* leaks or is freed twice, however many sessions come and go.             *)
THEOREM NoPadLeaks == Spec => []PadsOwned
<1>1. Inv => PadsOwned
  <2> SUFFICES ASSUME Inv PROVE PadsOwned
    OBVIOUS
  <2>1. /\ pad \in [Sessions \X Pads -> PadIds \cup {-1}] /\ mask \subseteq PadIds
        /\ Freeing \subseteq PadIds /\ -1 \notin PadIds
    BY FreeingKinds DEF Inv, TypeOK, PadIds
  <2>2. \A s \in Sessions : \A id :
          id \in Owned(s) <=> id # -1 /\ \E c \in Pads : pad[<<s, c>>] = id
    BY DEF Owned
  <2> HIDE DEF Owned
  <2>3. mask = (UNION {Owned(s) : s \in Sessions}) \cup Freeing
    <3>1. \A x \in Sessions \X Pads : pad[x] # -1 => pad[x] \in PadIds
      BY <2>1
    <3>2. \A id \in PadIds : id \in mask <=>
            (\E s \in Sessions : id \in Owned(s)) \/ id \in Freeing
      <4> TAKE id \in PadIds
      <4>1. id \in mask <=> (\E x \in Sessions \X Pads : pad[x] = id) \/ id \in Freeing
        BY DEF Inv, Plugged
      <4>2. (\E x \in Sessions \X Pads : pad[x] = id)
              <=> \E s \in Sessions : \E c \in Pads : pad[<<s, c>>] = id
        <5>1. \A x \in Sessions \X Pads :
                x[1] \in Sessions /\ x[2] \in Pads /\ x = <<x[1], x[2]>>
          OBVIOUS
        <5>2. \A s \in Sessions, c \in Pads : <<s, c>> \in Sessions \X Pads
          OBVIOUS
        <5>3. ASSUME NEW x \in Sessions \X Pads, pad[x] = id
              PROVE  \E s \in Sessions : \E c \in Pads : pad[<<s, c>>] = id
          <6>1. pad[<<x[1], x[2]>>] = id
            BY <5>1, <5>3
          <6> QED BY <5>1, <6>1
        <5> QED BY <5>2, <5>3
      <4> QED BY <2>1, <2>2, <4>1, <4>2
    <3>3. \A s \in Sessions : Owned(s) \subseteq PadIds
      BY <2>2, <3>1
    <3>4. \A id : id \in mask <=> id \in (UNION {Owned(s) : s \in Sessions}) \cup Freeing
      <4> TAKE id
      <4> DEFINE own == UNION {Owned(s) : s \in Sessions}
      <4>1. id \in own <=> \E s \in Sessions : id \in Owned(s)
        OBVIOUS
      <4> HIDE DEF own
      <4>2. ASSUME id \in PadIds PROVE id \in mask <=> id \in own \cup Freeing
        BY ONLY <3>2, <4>1, <4>2
      <4>3. ASSUME id \notin PadIds PROVE id \in mask <=> id \in own \cup Freeing
        BY ONLY <2>1, <3>3, <4>1, <4>3
      <4>4. id \in mask <=> id \in own \cup Freeing
        BY <4>2, <4>3
      <4> QED BY <4>4 DEF own
    <3> HIDE DEF Freeing
    <3> QED BY <3>4
  <2>4. \A s \in Sessions : Owned(s) \cap Freeing = {}
    <3> SUFFICES ASSUME NEW s \in Sessions, NEW id \in Owned(s), id \in Freeing PROVE FALSE
      OBVIOUS
    <3>1. PICK c \in Pads : pad[<<s, c>>] = id
      BY <2>2
    <3>2. pad[<<s, c>>] \notin Freeing
      BY DEF Inv, Plugged
    <3> QED BY <3>1, <3>2
  <2> QED BY <2>1, <2>3, <2>4 DEF Inv, Plugged, PadsOwned
<1> QED BY <1>1, Inductive, PTL

(* The worker never waits while a task is ready: no push and no timer is   *)
(* slept through.                                                          *)
THEOREM WorkerIsWoken == Spec => []NeverSleepsOnWork
<1>1. Inv => NeverSleepsOnWork
  BY DEF Inv
<1> QED BY <1>1, Inductive, PTL
=============================================================================
