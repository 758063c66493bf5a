---------------------------- MODULE QListProofs -----------------------------
(***************************************************************************)
(* What the operators on q lists return: a scan stops at the least index   *)
(* that stops it, and every insertion or removal changes the set of a      *)
(* list's entries by exactly the entry moved.                              *)
(***************************************************************************)
EXTENDS QLists, SequenceTheorems, WellFoundedInduction, TLAPS

(* A non-empty set of naturals has a least element.                        *)
LEMMA LeastNat ==
  ASSUME NEW T, T \subseteq Nat, T # {}
  PROVE  \E x \in T : \A y \in T : x <= y
<1>1. \E x \in T : \A y \in T : ~ (<<y, x>> \in OpToRel(<, Nat))
  BY NatLessThanWellFounded, WFMin, Zenon
<1>2. PICK x \in T : \A y \in T : ~ (<<y, x>> \in OpToRel(<, Nat))
  BY <1>1, Zenon
<1>3. ASSUME NEW y \in T PROVE x <= y
  <2>1. ~ (<<y, x>> \in {ss \in Nat \X Nat : ss[1] < ss[2]})
    BY <1>2 DEF OpToRel
  <2>2. x \in Nat /\ y \in Nat
    OBVIOUS
  <2>3. ~ (y < x)
    BY <2>1, <2>2
  <2> QED
    BY <2>2, <2>3
<1> QED
  BY <1>3

(* A scan ends: at the first index that stops it, or past the end.         *)
LEMMA StopsAtIsLeast ==
  ASSUME NEW I, NEW n \in Nat
  PROVE  /\ StopsAt(I, n) \in 1..(n + 1)
         /\ StopsAt(I, n) \in I \/ StopsAt(I, n) = n + 1
         /\ \A j \in 1..(StopsAt(I, n) - 1) : j \notin I
<1> DEFINE P(i) == /\ i \in I \/ i = n + 1
                   /\ \A j \in 1..(i - 1) : j \notin I
           T == {i \in 1..(n + 1) : i \in I \/ i = n + 1}
<1>1. T \subseteq Nat /\ n + 1 \in T
  OBVIOUS
<1>2. PICK x \in T : \A y \in T : x <= y
  <2> HIDE DEF T
  <2> QED  BY <1>1, LeastNat, Zenon
<1>3. x \in 1..(n + 1) /\ P(x)
  <2>1. ASSUME NEW j \in 1..(x - 1) PROVE j \notin I
    BY <1>2
  <2> QED
    BY <1>2, <2>1
<1>4. \E i \in 1..(n + 1) : P(i)
  BY <1>3
<1>5. StopsAt(I, n) = CHOOSE i \in 1..(n + 1) : P(i)
  BY DEF StopsAt
<1>6. StopsAt(I, n) \in 1..(n + 1) /\ P(StopsAt(I, n))
  <2> HIDE DEF P
  <2> QED  BY <1>4, <1>5
<1> QED
  BY <1>6

(* InsertAt: the entries before i stay, the others move up by one.         *)
LEMMA InsertAtProperties ==
  ASSUME NEW S, NEW s \in Seq(S), NEW i \in 1..(Len(s) + 1), NEW e \in S
  PROVE  /\ InsertAt(s, i, e) \in Seq(S)
         /\ Len(InsertAt(s, i, e)) = Len(s) + 1
         /\ \A j \in 1..(Len(s) + 1) :
              InsertAt(s, i, e)[j] = IF j < i THEN s[j]
                                     ELSE IF j = i THEN e ELSE s[j - 1]
<1> DEFINE a == SubSeq(s, 1, i - 1)
           b == SubSeq(s, i, Len(s))
<1>1. Len(s) \in Nat /\ \A k \in 1..Len(s) : s[k] \in S
  BY LenProperties, ElementOfSeq
<1>2. a \in Seq(S) /\ Len(a) = i - 1 /\ \A j \in 1..(i - 1) : a[j] = s[j]
  <2>1. \A k \in 1..(i - 1) : s[k] \in S
    BY <1>1
  <2> QED
    BY <1>1, <2>1, SubSeqProperties
<1>3. /\ b \in Seq(S) /\ Len(b) = Len(s) - i + 1
      /\ \A j \in 1..(Len(s) - i + 1) : b[j] = s[i + j - 1]
  <2>1. \A k \in i..Len(s) : s[k] \in S
    BY <1>1
  <2> QED
    BY <1>1, <2>1, SubSeqProperties
<1>4. InsertAt(s, i, e) = a \o <<e>> \o b
  BY DEF InsertAt
<1> HIDE DEF a, b
<1>5. /\ a \o <<e>> \in Seq(S) /\ Len(a \o <<e>>) = i
      /\ \A j \in 1..i : (a \o <<e>>)[j] = IF j < i THEN s[j] ELSE e
  BY <1>2
<1> DEFINE c == a \o <<e>>
<1>6. c \in Seq(S) /\ Len(c) = i /\ \A j \in 1..i : c[j] = IF j < i THEN s[j] ELSE e
  BY <1>5
<1>7. InsertAt(s, i, e) = c \o b
  BY <1>4
<1> HIDE DEF c
<1> DEFINE d == c \o b
<1>8. /\ d \in Seq(S) /\ Len(d) = Len(s) + 1
      /\ \A j \in 1..(Len(s) + 1) : d[j] = IF j <= i THEN c[j] ELSE b[j - i]
  <2>1. /\ d \in Seq(S) /\ Len(d) = Len(c) + Len(b)
        /\ \A j \in 1..(Len(c) + Len(b)) :
             d[j] = IF j <= Len(c) THEN c[j] ELSE b[j - Len(c)]
    BY <1>3, <1>6, ConcatProperties
  <2>2. Len(c) = i /\ Len(c) + Len(b) = Len(s) + 1
    BY <1>1, <1>3, <1>6
  <2> QED
    BY <2>1, <2>2
<1> HIDE DEF d
<1>9. ASSUME NEW j \in 1..(Len(s) + 1)
      PROVE  d[j] = IF j < i THEN s[j] ELSE IF j = i THEN e ELSE s[j - 1]
  <2>1. CASE j <= i
    BY <2>1, <1>1, <1>6, <1>8
  <2>2. CASE j > i
    <3>1. j - i \in 1..(Len(s) - i + 1) /\ i + (j - i) - 1 = j - 1
      BY <2>2, <1>1
    <3>2. b[j - i] = s[j - 1]
      BY <3>1, <1>3
    <3> QED
      BY <3>2, <2>2, <1>1, <1>8
  <2> QED
    BY <2>1, <2>2, <1>1
<1> QED
  BY <1>7, <1>8, <1>9 DEF d

(* RemoveAt: the entries before i stay, the others move down by one.       *)
LEMMA RemoveAtProperties ==
  ASSUME NEW S, NEW s \in Seq(S), NEW i \in 1..Len(s)
  PROVE  /\ RemoveAt(s, i) \in Seq(S)
         /\ Len(RemoveAt(s, i)) = Len(s) - 1
         /\ \A j \in 1..(Len(s) - 1) :
              RemoveAt(s, i)[j] = IF j < i THEN s[j] ELSE s[j + 1]
<1> DEFINE a == SubSeq(s, 1, i - 1)
           b == SubSeq(s, i + 1, Len(s))
<1>1. Len(s) \in Nat /\ \A k \in 1..Len(s) : s[k] \in S
  BY LenProperties, ElementOfSeq
<1>2. a \in Seq(S) /\ Len(a) = i - 1 /\ \A j \in 1..(i - 1) : a[j] = s[j]
  <2>1. \A k \in 1..(i - 1) : s[k] \in S
    BY <1>1
  <2> QED
    BY <1>1, <2>1, SubSeqProperties
<1>3. /\ b \in Seq(S) /\ Len(b) = Len(s) - i
      /\ \A j \in 1..(Len(s) - i) : b[j] = s[i + j]
  <2>1. \A k \in (i + 1)..Len(s) : s[k] \in S
    BY <1>1
  <2>2. /\ b \in Seq(S)
        /\ Len(b) = IF i + 1 <= Len(s) THEN Len(s) - (i + 1) + 1 ELSE 0
        /\ \A j \in 1..(Len(s) - (i + 1) + 1) : b[j] = s[(i + 1) + j - 1]
    BY <1>1, <2>1, SubSeqProperties
  <2> QED
    BY <1>1, <2>2
<1>4. RemoveAt(s, i) = a \o b
  BY DEF RemoveAt
<1> HIDE DEF a, b
<1> DEFINE d == a \o b
<1>5. /\ d \in Seq(S) /\ Len(d) = Len(s) - 1
      /\ \A j \in 1..(Len(s) - 1) :
           d[j] = IF j <= i - 1 THEN a[j] ELSE b[j - (i - 1)]
  <2>1. /\ d \in Seq(S) /\ Len(d) = Len(a) + Len(b)
        /\ \A j \in 1..(Len(a) + Len(b)) :
             d[j] = IF j <= Len(a) THEN a[j] ELSE b[j - Len(a)]
    BY <1>2, <1>3, ConcatProperties
  <2>2. Len(a) = i - 1 /\ Len(a) + Len(b) = Len(s) - 1
    BY <1>1, <1>2, <1>3
  <2> QED
    BY <2>1, <2>2
<1> HIDE DEF d
<1>6. ASSUME NEW j \in 1..(Len(s) - 1)
      PROVE  d[j] = IF j < i THEN s[j] ELSE s[j + 1]
  <2>1. CASE j < i
    BY <2>1, <1>1, <1>2, <1>5
  <2>2. CASE j >= i
    <3>1. j - (i - 1) \in 1..(Len(s) - i) /\ i + (j - (i - 1)) = j + 1
      BY <2>2, <1>1
    <3>2. b[j - (i - 1)] = s[j + 1]
      BY <3>1, <1>3
    <3> QED
      BY <3>2, <2>2, <1>1, <1>5
  <2> QED
    BY <2>1, <2>2, <1>1
<1> QED
  BY <1>4, <1>5, <1>6 DEF d

-----------------------------------------------------------------------------
(* Holds, index by index.                                                  *)
LEMMA HoldsByIndex ==
  ASSUME NEW S, NEW s \in Seq(S), NEW P
  PROVE  Holds(s, P) <=>
           /\ P = {s[i] : i \in 1..Len(s)}
           /\ \A i, j \in 1..Len(s) : s[i] = s[j] => i = j
<1>1. DOMAIN s = 1..Len(s)
  BY LenProperties
<1> QED
  BY <1>1, Zenon DEF Holds, ToSet, IsInjective

(* An inserted entry joins the list's entries.                             *)
LEMMA HoldsInsertAt ==
  ASSUME NEW S, NEW s \in Seq(S), NEW i \in 1..(Len(s) + 1), NEW e \in S,
         NEW P, Holds(s, P), e \notin P
  PROVE  /\ InsertAt(s, i, e) \in Seq(S)
         /\ Holds(InsertAt(s, i, e), P \cup {e})
<1> DEFINE t == InsertAt(s, i, e)
<1>1. /\ t \in Seq(S) /\ Len(t) = Len(s) + 1
      /\ \A j \in 1..(Len(s) + 1) :
           t[j] = IF j < i THEN s[j] ELSE IF j = i THEN e ELSE s[j - 1]
  BY InsertAtProperties
<1>2. /\ P = {s[j] : j \in 1..Len(s)}
      /\ \A j, k \in 1..Len(s) : s[j] = s[k] => j = k
  BY HoldsByIndex
<1>3. Len(s) \in Nat
  BY LenProperties
<1> HIDE DEF t
<1>4. ASSUME NEW x \in P PROVE \E j \in 1..Len(t) : t[j] = x
  <2>1. PICK k \in 1..Len(s) : s[k] = x
    BY <1>2
  <2>2. CASE k < i
    BY <2>1, <2>2, <1>1, <1>3
  <2>3. CASE k >= i
    <3>1. k + 1 \in 1..Len(t) /\ t[k + 1] = s[(k + 1) - 1] /\ (k + 1) - 1 = k
      BY <2>3, <1>1, <1>3
    <3> QED
      BY <3>1, <2>1
  <2> QED
    BY <2>2, <2>3, <1>3
<1>5. t[i] = e /\ i \in 1..Len(t)
  BY <1>1, <1>3
<1>6. ASSUME NEW j \in 1..Len(t) PROVE t[j] \in P \cup {e}
  BY <1>1, <1>2, <1>3
<1>7. P \cup {e} = {t[j] : j \in 1..Len(t)}
  BY <1>4, <1>5, <1>6
<1>8. ASSUME NEW j \in 1..Len(t), NEW k \in 1..Len(t), t[j] = t[k] PROVE j = k
  <2>1. ASSUME NEW l \in 1..Len(t), l # i
        PROVE  /\ (IF l < i THEN l ELSE l - 1) \in 1..Len(s)
               /\ t[l] = s[IF l < i THEN l ELSE l - 1]
               /\ t[l] # e
    BY <2>1, <1>1, <1>2, <1>3
  <2>2. CASE j = i \/ k = i
    BY <2>1, <2>2, <1>5, <1>8
  <2>3. CASE j # i /\ k # i
    <3>1. (IF j < i THEN j ELSE j - 1) = (IF k < i THEN k ELSE k - 1)
      BY <2>1, <2>3, <1>2, <1>8
    <3> QED
      BY <3>1, <2>3, <1>1, <1>3
  <2> QED
    BY <2>2, <2>3
<1>9. Holds(t, P \cup {e})
  BY <1>1, <1>7, <1>8, HoldsByIndex
<1> QED
  BY <1>1, <1>9 DEF t

(* A removed entry leaves the list's entries.                              *)
LEMMA HoldsRemoveAt ==
  ASSUME NEW S, NEW s \in Seq(S), NEW i \in 1..Len(s), NEW P, Holds(s, P)
  PROVE  /\ RemoveAt(s, i) \in Seq(S)
         /\ Holds(RemoveAt(s, i), P \ {s[i]})
<1> DEFINE t == RemoveAt(s, i)
<1>1. /\ t \in Seq(S) /\ Len(t) = Len(s) - 1
      /\ \A j \in 1..(Len(s) - 1) : t[j] = IF j < i THEN s[j] ELSE s[j + 1]
  BY RemoveAtProperties
<1>2. /\ P = {s[j] : j \in 1..Len(s)}
      /\ \A j, k \in 1..Len(s) : s[j] = s[k] => j = k
  BY HoldsByIndex
<1>3. Len(s) \in Nat
  BY LenProperties
<1> HIDE DEF t
<1>4. ASSUME NEW x \in P \ {s[i]} PROVE \E j \in 1..Len(t) : t[j] = x
  <2>1. PICK k \in 1..Len(s) : s[k] = x /\ k # i
    BY <1>2
  <2>2. CASE k < i
    BY <2>1, <2>2, <1>1, <1>3
  <2>3. CASE k > i
    <3>1. k - 1 \in 1..Len(t) /\ t[k - 1] = s[(k - 1) + 1] /\ (k - 1) + 1 = k
      BY <2>3, <1>1, <1>3
    <3> QED
      BY <3>1, <2>1
  <2> QED
    BY <2>1, <2>2, <2>3, <1>3
<1>5. ASSUME NEW l \in 1..Len(t)
      PROVE  /\ (IF l < i THEN l ELSE l + 1) \in 1..Len(s) \ {i}
             /\ t[l] = s[IF l < i THEN l ELSE l + 1]
  BY <1>1, <1>3
<1>6. ASSUME NEW j \in 1..Len(t) PROVE t[j] \in P \ {s[i]}
  BY <1>2, <1>5
<1>7. P \ {s[i]} = {t[j] : j \in 1..Len(t)}
  BY <1>4, <1>6
<1>8. ASSUME NEW j \in 1..Len(t), NEW k \in 1..Len(t), t[j] = t[k] PROVE j = k
  <2>1. (IF j < i THEN j ELSE j + 1) = (IF k < i THEN k ELSE k + 1)
    BY <1>2, <1>5, <1>8
  <2> QED
    BY <2>1, <1>1, <1>3
<1>9. Holds(t, P \ {s[i]})
  BY <1>1, <1>7, <1>8, HoldsByIndex
<1> QED
  BY <1>1, <1>9 DEF t

(* dequeue finds the entry it is to unlink, and only it leaves.            *)
LEMMA HoldsDequeue ==
  ASSUME NEW S, NEW s \in Seq(S), NEW P, Holds(s, P), NEW e \in P
  PROVE  /\ PosOf(s, e) \in 1..Len(s) /\ s[PosOf(s, e)] = e
         /\ Dequeue(s, e) \in Seq(S)
         /\ Holds(Dequeue(s, e), P \ {e})
<1>1. \E i \in 1..Len(s) : s[i] = e
  BY HoldsByIndex
<1>2. PosOf(s, e) \in 1..Len(s) /\ s[PosOf(s, e)] = e
  BY <1>1 DEF PosOf
<1> QED
  BY <1>2, HoldsRemoveAt DEF Dequeue

(* getfirst: the head leaves.                                              *)
LEMMA HoldsTail ==
  ASSUME NEW S, NEW s \in Seq(S), NEW P, Holds(s, P), s # <<>>
  PROVE  /\ Head(s) \in P /\ Head(s) = s[1] /\ 1 \in 1..Len(s)
         /\ Tail(s) \in Seq(S)
         /\ Holds(Tail(s), P \ {Head(s)})
<1>1. Head(s) = s[1] /\ 1 \in 1..Len(s) /\ Len(s) \in Nat
  BY LenProperties, EmptySeq
<1>2. /\ RemoveAt(s, 1) \in Seq(S) /\ Len(RemoveAt(s, 1)) = Len(s) - 1
      /\ \A j \in 1..(Len(s) - 1) :
           RemoveAt(s, 1)[j] = IF j < 1 THEN s[j] ELSE s[j + 1]
  BY <1>1, RemoveAtProperties
<1>3. /\ Tail(s) \in Seq(S) /\ Len(Tail(s)) = Len(s) - 1
      /\ \A j \in 1..Len(Tail(s)) : Tail(s)[j] = s[j + 1]
  BY HeadTailProperties
<1>4. RemoveAt(s, 1) = Tail(s)
  BY <1>1, <1>2, <1>3, SeqEqual
<1>5. Holds(Tail(s), P \ {s[1]})
  <2>1. Holds(RemoveAt(s, 1), P \ {s[1]})
    BY <1>1, HoldsRemoveAt
  <2> QED
    BY <1>4, <2>1, Zenon
<1>6. s[1] \in P
  BY <1>1, HoldsByIndex
<1> QED
  BY <1>1, <1>3, <1>5, <1>6

(* enqueue: the new entry joins at the tail.                               *)
LEMMA HoldsEnqueue ==
  ASSUME NEW S, NEW s \in Seq(S), NEW P, Holds(s, P), NEW e \in S, e \notin P
  PROVE  /\ Enqueue(s, e) \in Seq(S)
         /\ Holds(Enqueue(s, e), P \cup {e})
<1>1. Len(s) \in Nat /\ Len(s) + 1 \in 1..(Len(s) + 1)
  BY LenProperties
<1>2. /\ InsertAt(s, Len(s) + 1, e) \in Seq(S)
      /\ Len(InsertAt(s, Len(s) + 1, e)) = Len(s) + 1
      /\ \A j \in 1..(Len(s) + 1) : InsertAt(s, Len(s) + 1, e)[j] =
           IF j < Len(s) + 1 THEN s[j] ELSE IF j = Len(s) + 1 THEN e ELSE s[j - 1]
  BY <1>1, InsertAtProperties, SMTT(30)
<1>3. /\ Append(s, e) \in Seq(S) /\ Len(Append(s, e)) = Len(s) + 1
      /\ \A j \in 1..Len(s) : Append(s, e)[j] = s[j]
      /\ Append(s, e)[Len(s) + 1] = e
  BY AppendProperties
<1>4. InsertAt(s, Len(s) + 1, e) = Append(s, e)
  <2>1. \A j \in 1..(Len(s) + 1) : InsertAt(s, Len(s) + 1, e)[j] = Append(s, e)[j]
    BY <1>1, <1>2, <1>3
  <2> QED
    BY <1>2, <1>3, <2>1, SeqEqual
<1>5. /\ InsertAt(s, Len(s) + 1, e) \in Seq(S)
      /\ Holds(InsertAt(s, Len(s) + 1, e), P \cup {e})
  BY <1>1, HoldsInsertAt
<1> QED
  BY <1>3, <1>4, <1>5 DEF Enqueue

LEMMA HoldsEmpty ==
  ASSUME NEW S, NEW s \in Seq(S), NEW P, Holds(s, P)
  PROVE  s = <<>> <=> P = {}
<1>1. CASE s = <<>>
  <2>1. P = {s[i] : i \in 1..Len(s)}
    BY HoldsByIndex
  <2>2. Len(s) = 0
    BY <1>1
  <2> QED
    BY <1>1, <2>1, <2>2
<1>2. CASE s # <<>>
  BY <1>2, HoldsTail
<1> QED
  BY <1>1, <1>2

-----------------------------------------------------------------------------
(* Only the keys of the entries matter for the order of a list.            *)
LEMMA SortedAgree ==
  ASSUME NEW s, NEW k1, NEW k2, Sorted(s, k1),
         \A i \in 1..Len(s) : k2[s[i]] = k1[s[i]]
  PROVE  Sorted(s, k2)
BY DEF Sorted

(* insert keeps a list in order.                                           *)
LEMMA SortedInsert ==
  ASSUME NEW S, NEW s \in Seq(S), NEW P, Holds(s, P), NEW e \in S, e \notin P,
         NEW key \in [S -> Int], NEW k \in Int, Sorted(s, key)
  PROVE  /\ Insert(s, e, key, k) \in Seq(S)
         /\ Holds(Insert(s, e, key, k), P \cup {e})
         /\ Sorted(Insert(s, e, key, k), [key EXCEPT ![e] = k])
<1> DEFINE I == {i \in 1..Len(s) : key[s[i]] >= k}
           m == InsertPos(s, key, k)
           t == Insert(s, e, key, k)
           new == [key EXCEPT ![e] = k]
<1>1. Len(s) \in Nat /\ \A i \in 1..Len(s) : s[i] \in S
  BY LenProperties, ElementOfSeq
<1>2. /\ m \in 1..(Len(s) + 1)
      /\ m \in I \/ m = Len(s) + 1
      /\ \A j \in 1..(m - 1) : j \notin I
  <2> HIDE DEF I
  <2>1. m = StopsAt(I, Len(s))
    BY DEF InsertPos, I
  <2> HIDE DEF m
  <2> QED  BY <1>1, <2>1, StopsAtIsLeast
<1>3. t = InsertAt(s, m, e)
  BY DEF Insert
<1>4. /\ t \in Seq(S) /\ Len(t) = Len(s) + 1
      /\ \A j \in 1..(Len(s) + 1) :
           t[j] = IF j < m THEN s[j] ELSE IF j = m THEN e ELSE s[j - 1]
  <2> HIDE DEF m, t, I
  <2>1. /\ InsertAt(s, m, e) \in Seq(S) /\ Len(InsertAt(s, m, e)) = Len(s) + 1
        /\ \A j \in 1..(Len(s) + 1) : InsertAt(s, m, e)[j] =
             IF j < m THEN s[j] ELSE IF j = m THEN e ELSE s[j - 1]
    BY <1>2, InsertAtProperties
  <2> QED
    BY <2>1, <1>3
<1>5. Holds(t, P \cup {e})
  <2> HIDE DEF m, t
  <2> QED  BY <1>2, <1>3, HoldsInsertAt
<1>6. \A i \in 1..Len(s) : s[i] # e
  BY HoldsByIndex
<1>7. \A i \in 1..Len(s) : new[s[i]] = key[s[i]] /\ key[s[i]] \in Int
  BY <1>1, <1>6
<1>8. new[e] = k
  OBVIOUS
<1>9. \A i \in 1..Len(s) : i < m => key[s[i]] < k
  BY <1>1, <1>2, <1>7
<1>10. \A i \in 1..Len(s) : i >= m => key[s[i]] >= k
  <2>1. SUFFICES ASSUME NEW i \in 1..Len(s), i >= m PROVE key[s[i]] >= k
    OBVIOUS
  <2>2. m \in 1..Len(s) /\ key[s[m]] >= k
    BY <1>1, <1>2, <2>1
  <2>3. key[s[m]] <= key[s[i]]
    BY <2>1, <2>2 DEF Sorted
  <2> QED
    BY <2>2, <2>3, <1>7
<1> HIDE DEF t, m, new, I
<1>11. ASSUME NEW i \in 1..Len(t), NEW j \in 1..Len(t), i < j
       PROVE  new[t[i]] <= new[t[j]]
  <2>1. CASE j < m
    <3>1. i < m /\ i \in 1..Len(s) /\ j \in 1..Len(s)
      BY <2>1, <1>1, <1>2, <1>4, <1>11, SMTT(30)
    <3>2. t[i] = s[i] /\ t[j] = s[j]
      BY <3>1, <2>1, <1>4, <1>1, SMTT(30)
    <3> QED
      BY <3>1, <3>2, <1>7, <1>11 DEF Sorted
  <2>2. CASE j = m
    <3>1. i \in 1..Len(s) /\ i < m /\ t[i] = s[i] /\ t[j] = e
      BY <2>2, <1>1, <1>2, <1>4, <1>11
    <3> QED
      BY <3>1, <1>7, <1>8, <1>9
  <2>3. CASE j > m /\ i < m
    <3>1. /\ i \in 1..Len(s) /\ j - 1 \in 1..Len(s) /\ j - 1 >= m
          /\ t[i] = s[i] /\ t[j] = s[j - 1]
      BY <2>3, <1>1, <1>2, <1>4
    <3>2. key[s[i]] < k /\ key[s[j - 1]] >= k
      BY <2>3, <3>1, <1>9, <1>10
    <3> QED
      BY <3>1, <3>2, <1>7
  <2>4. CASE j > m /\ i = m
    <3>1. j - 1 \in 1..Len(s) /\ j - 1 >= m /\ t[i] = e /\ t[j] = s[j - 1]
      BY <2>4, <1>1, <1>2, <1>4
    <3> QED
      BY <3>1, <1>7, <1>8, <1>10
  <2>5. CASE i > m
    <3>1. /\ i - 1 \in 1..Len(s) /\ j - 1 \in 1..Len(s) /\ i - 1 <= j - 1
          /\ t[i] = s[i - 1] /\ t[j] = s[j - 1]
      BY <2>5, <1>1, <1>2, <1>4, <1>11
    <3> QED
      BY <3>1, <1>7 DEF Sorted
  <2> QED
    BY <2>1, <2>2, <2>3, <2>4, <2>5, <1>1, <1>2, <1>4
<1>12. ASSUME NEW i \in 1..Len(t) PROVE new[t[i]] <= new[t[i]]
  <2>1. t[i] = e \/ \E j \in 1..Len(s) : t[i] = s[j]
    <3>1. CASE i < m
      BY <3>1, <1>1, <1>2, <1>4
    <3>2. CASE i = m
      BY <3>2, <1>2, <1>4
    <3>3. CASE i > m
      <4>1. i - 1 \in 1..Len(s) /\ t[i] = s[i - 1]
        BY <3>3, <1>1, <1>2, <1>4
      <4> QED
        BY <4>1
    <3> QED
      BY <3>1, <3>2, <3>3, <1>1, <1>2, <1>4
  <2>2. new[t[i]] \in Int
    BY <2>1, <1>7, <1>8
  <2> QED
    BY <2>2
<1>13. Sorted(t, new)
  <2>1. SUFFICES ASSUME NEW i \in 1..Len(t), NEW j \in 1..Len(t), i <= j
                 PROVE  new[t[i]] <= new[t[j]]
    BY Zenon DEF Sorted
  <2>2. i < j \/ i = j
    BY <2>1
  <2> QED
    BY <2>2, <1>11, <1>12
<1> QED
  BY <1>4, <1>5, <1>13 DEF t, new

(* Taking an entry out keeps a list in order, whatever becomes of its key. *)
LEMMA SortedDequeue ==
  ASSUME NEW S, NEW s \in Seq(S), NEW P, Holds(s, P), NEW e \in P,
         NEW k1 \in [S -> Int], NEW k2, Sorted(s, k1),
         \A x \in P \ {e} : k2[x] = k1[x]
  PROVE  Sorted(Dequeue(s, e), k2)
<1> DEFINE m == PosOf(s, e)
           t == Dequeue(s, e)
<1>1. m \in 1..Len(s) /\ t = RemoveAt(s, m) /\ Holds(t, P \ {e}) /\ t \in Seq(S)
  BY HoldsDequeue DEF Dequeue
<1> HIDE DEF m, t
<1>2. /\ Len(t) = Len(s) - 1
      /\ \A j \in 1..(Len(s) - 1) : t[j] = IF j < m THEN s[j] ELSE s[j + 1]
  BY <1>1, RemoveAtProperties
<1>3. Len(s) \in Nat
  BY LenProperties
<1>4. \A i \in 1..Len(t) : t[i] \in P \ {e}
  <2> DEFINE Q == P \ {e}
  <2> HIDE DEF Q
  <2>1. Q = {t[i] : i \in 1..Len(t)}
    <3>1. Holds(t, Q) /\ t \in Seq(S)
      BY <1>1 DEF Q
    <3> QED
      BY <3>1, HoldsByIndex
  <2> USE DEF Q
  <2> QED
    BY <2>1
<1>5. Sorted(t, k1)
  <2>1. SUFFICES ASSUME NEW i \in 1..Len(t), NEW j \in 1..Len(t), i <= j
                 PROVE  k1[t[i]] <= k1[t[j]]
    BY Zenon DEF Sorted
  <2>2. PICK a \in 1..Len(s), b \in 1..Len(s) :
           a <= b /\ t[i] = s[a] /\ t[j] = s[b]
    <3>1. t[i] = s[IF i < m THEN i ELSE i + 1] /\ t[j] = s[IF j < m THEN j ELSE j + 1]
      BY <1>2, <1>3
    <3>2. /\ (IF i < m THEN i ELSE i + 1) \in 1..Len(s)
          /\ (IF j < m THEN j ELSE j + 1) \in 1..Len(s)
          /\ (IF i < m THEN i ELSE i + 1) <= (IF j < m THEN j ELSE j + 1)
      BY <1>1, <1>2, <1>3, <2>1, SMTT(30)
    <3> QED
      BY <3>1, <3>2
  <2> QED
    BY <2>2 DEF Sorted
<1> QED
  BY <1>4, <1>5, SortedAgree DEF t

(* The last key of a list in order is the greatest.                        *)
LEMMA LastKeyIsGreatest ==
  ASSUME NEW S, NEW s \in Seq(S), NEW key, Sorted(s, key)
  PROVE  /\ s = <<>> => LastKey(s, key) = -1
         /\ s # <<>> => /\ Len(s) \in 1..Len(s)
                        /\ LastKey(s, key) = key[s[Len(s)]]
         /\ \A i \in 1..Len(s) : key[s[i]] <= LastKey(s, key)
<1>1. Len(s) \in Nat /\ (s # <<>> => Len(s) > 0) /\ (s = <<>> => Len(s) = 0)
  BY LenProperties, EmptySeq
<1>2. ASSUME NEW i \in 1..Len(s) PROVE key[s[i]] <= LastKey(s, key)
  <2>1. Len(s) \in 1..Len(s) /\ i <= Len(s) /\ s # <<>>
    BY <1>1
  <2>2. key[s[i]] <= key[s[Len(s)]]
    BY <2>1 DEF Sorted
  <2> QED
    BY <2>1, <2>2 DEF LastKey
<1> QED
  BY <1>1, <1>2 DEF LastKey

-----------------------------------------------------------------------------
(* Elapsed is the running sum of the keys: a function that satisfies its   *)
(* recursion exists, by a least counterexample, and so does its type.      *)
LEMMA ElapsedIsSum ==
  ASSUME NEW S, NEW s \in Seq(S), NEW key \in [S -> Int]
  PROVE  /\ Elapsed(s, key) \in [0..Len(s) -> Int]
         /\ Elapsed(s, key)[0] = 0
         /\ \A i \in 1..Len(s) :
              Elapsed(s, key)[i] = Elapsed(s, key)[i - 1] + key[s[i]]
<1> DEFINE SumTo(g, n) ==
             /\ g \in [0..n -> Int]
             /\ \A i \in 0..n : g[i] = IF i = 0 THEN 0 ELSE g[i - 1] + key[s[i]]
           Bad == {n \in 0..Len(s) : ~ \E g : SumTo(g, n)}
<1>1. Len(s) \in Nat /\ \A i \in 1..Len(s) : key[s[i]] \in Int
  BY LenProperties, ElementOfSeq
<1>2. SumTo([i \in 0..0 |-> 0], 0)
  OBVIOUS
<1>3. ASSUME NEW n \in 1..Len(s), NEW g, SumTo(g, n - 1)
      PROVE  \E h : SumTo(h, n)
  <2> DEFINE h == [i \in 0..n |-> IF i = n THEN g[n - 1] + key[s[n]] ELSE g[i]]
  <2>1. g[n - 1] \in Int
    BY <1>3, <1>1
  <2>2. h \in [0..n -> Int]
    BY <1>1, <1>3, <2>1
  <2>3. ASSUME NEW i \in 0..n
        PROVE  h[i] = IF i = 0 THEN 0 ELSE h[i - 1] + key[s[i]]
    <3>1. CASE i = n
      BY <3>1, <1>1
    <3>2. CASE i # n
      BY <3>2, <1>1, <1>3
    <3> QED
      BY <3>1, <3>2
  <2> QED
    BY <2>2, <2>3
<1>4. Bad = {}
  <2> SUFFICES ASSUME Bad # {} PROVE FALSE
    OBVIOUS
  <2>1. PICK n \in Bad : \A k \in Bad : n <= k
    <3>1. Bad \subseteq Nat
      BY <1>1
    <3> HIDE DEF Bad
    <3> QED  BY <3>1, LeastNat, Zenon
  <2> HIDE DEF SumTo
  <2>2. n # 0
    BY <1>2
  <2>3. n \in 0..Len(s) /\ ~ \E g : SumTo(g, n)
    OBVIOUS
  <2>4. n \in 1..Len(s) /\ n - 1 \in 0..Len(s) /\ ~(n <= n - 1)
    <3> HIDE DEF Bad
    <3> QED  BY <2>2, <2>3, <1>1
  <2>5. n - 1 \notin Bad
    <3> HIDE DEF Bad
    <3> QED  BY <2>1, <2>4
  <2>6. \E g : SumTo(g, n - 1)
    BY <2>4, <2>5, Zenon
  <2> QED
    BY <2>3, <2>4, <2>6, <1>3, Zenon
<1>5. PICK g : SumTo(g, Len(s))
  <2> HIDE DEF SumTo
  <2>1. Len(s) \in 0..Len(s) /\ Len(s) \notin Bad
    BY <1>1, <1>4
  <2> QED
    BY <2>1
<1> DEFINE Rec(f) == f = [i \in 0..Len(s) |->
                           IF i = 0 THEN 0 ELSE f[i - 1] + key[s[i]]]
<1>6. Rec(g)
  BY <1>5
<1>7. Elapsed(s, key) = CHOOSE f : Rec(f)
  BY DEF Elapsed
<1>8. Rec(Elapsed(s, key))
  <2> HIDE DEF Rec
  <2> QED  BY <1>6, <1>7
<1> DEFINE e == Elapsed(s, key)
<1>9. /\ e[0] = 0 /\ DOMAIN e = 0..Len(s)
      /\ \A i \in 1..Len(s) : e[i] = e[i - 1] + key[s[i]]
      /\ e = [i \in 0..Len(s) |-> e[i]]
  <2> HIDE DEF e
  <2>1. Rec(e)
    BY <1>8 DEF e
  <2> QED
    BY <2>1, <1>1
<1> HIDE DEF e
<1>10. \A i \in 0..Len(s) : e[i] \in Int
  <2> DEFINE Odd == {i \in 0..Len(s) : e[i] \notin Int}
  <2> SUFFICES ASSUME Odd # {} PROVE FALSE
    OBVIOUS
  <2>1. PICK n \in Odd : \A k \in Odd : n <= k
    <3>1. Odd \subseteq Nat
      BY <1>1
    <3> HIDE DEF Odd
    <3> QED  BY <3>1, LeastNat, Zenon
  <2>2. n \in 0..Len(s) /\ e[n] \notin Int
    OBVIOUS
  <2>3. n \in 1..Len(s) /\ n - 1 \in 0..Len(s) /\ ~(n <= n - 1)
    <3> HIDE DEF Odd
    <3> QED  BY <2>2, <1>1, <1>9
  <2>4. n - 1 \notin Odd
    <3> HIDE DEF Odd
    <3> QED  BY <2>1, <2>3
  <2>5. e[n - 1] \in Int
    BY <2>3, <2>4, Zenon
  <2>6. e[n] = e[n - 1] + key[s[n]] /\ key[s[n]] \in Int
    BY <2>3, <1>1, <1>9
  <2> QED
    BY <2>2, <2>5, <2>6
<1> QED
  BY <1>9, <1>10 DEF e

(* insertd adds the entry and gives every process an integer key.          *)
LEMMA InsertdProperties ==
  ASSUME NEW S, NEW s \in Seq(S), NEW P, Holds(s, P), NEW e \in S, e \notin P,
         NEW key \in [S -> Int], NEW k \in Int
  PROVE  /\ Insertd(s, e, key, k) \in Seq(S)
         /\ Holds(Insertd(s, e, key, k), P \cup {e})
         /\ InsertdKeys(s, e, key, k) \in [S -> Int]
<1> DEFINE I == {i \in 1..Len(s) : Elapsed(s, key)[i] >= k}
           m == InsertdPos(s, key, k)
           left == k - Elapsed(s, key)[m - 1]
<1>1. Len(s) \in Nat /\ \A i \in 1..Len(s) : s[i] \in P
  BY LenProperties, HoldsByIndex
<1>2. m \in 1..(Len(s) + 1)
  <2>1. m = StopsAt(I, Len(s))
    BY DEF InsertdPos
  <2> HIDE DEF m, I
  <2> QED  BY <1>1, <2>1, StopsAtIsLeast
<1>3. Insertd(s, e, key, k) = InsertAt(s, m, e)
  BY DEF Insertd
<1>4. InsertdKeys(s, e, key, k) =
        [p \in S |-> IF p = e THEN left
                     ELSE IF m <= Len(s) /\ p = s[m] THEN key[p] - left
                     ELSE key[p]]
  BY DEF InsertdKeys
<1> HIDE DEF m, I
<1>5. left \in Int
  <2>1. m - 1 \in 0..Len(s)
    BY <1>1, <1>2
  <2>2. Elapsed(s, key)[m - 1] \in Int
    BY <2>1, ElapsedIsSum
  <2> QED
    BY <2>2
<1> HIDE DEF left
<1>6. InsertAt(s, m, e) \in Seq(S) /\ Holds(InsertAt(s, m, e), P \cup {e})
  BY <1>2, HoldsInsertAt
<1>7. m <= Len(s) => s[m] \in P
  BY <1>1, <1>2
<1> QED
  BY <1>3, <1>4, <1>5, <1>6, <1>7

(* It touches the keys of no process but the new entry and the one that    *)
(* follows it.                                                             *)
LEMMA InsertdKeysElsewhere ==
  ASSUME NEW S, NEW s \in Seq(S), NEW P, Holds(s, P), NEW e \in S, e \notin P,
         NEW key \in [S -> Int], NEW k \in Int, NEW x \in S, x \notin P, x # e
  PROVE  InsertdKeys(s, e, key, k)[x] = key[x]
<1> DEFINE I == {i \in 1..Len(s) : Elapsed(s, key)[i] >= k}
           m == InsertdPos(s, key, k)
           left == k - Elapsed(s, key)[m - 1]
<1>1. Len(s) \in Nat /\ \A i \in 1..Len(s) : s[i] \in P
  BY LenProperties, HoldsByIndex
<1>2. m \in 1..(Len(s) + 1)
  <2>1. m = StopsAt(I, Len(s))
    BY DEF InsertdPos
  <2> HIDE DEF m, I
  <2> QED  BY <1>1, <2>1, StopsAtIsLeast
<1>3. InsertdKeys(s, e, key, k) =
        [p \in S |-> IF p = e THEN left
                     ELSE IF m <= Len(s) /\ p = s[m] THEN key[p] - left
                     ELSE key[p]]
  BY DEF InsertdKeys
<1> HIDE DEF m, left
<1>4. m <= Len(s) => x # s[m]
  BY <1>1, <1>2
<1> QED
  BY <1>3, <1>4
=============================================================================
