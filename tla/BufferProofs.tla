---------------------------- MODULE BufferProofs ----------------------------
(***************************************************************************)
(* Buffer pools and a queue, for any number of pools, buffers and senders. *)
(***************************************************************************)
EXTENDS BufferProps, QListProofs, FiniteSetTheorems

(* What the code needs: the queue has room for every buffer, and one       *)
(* process dequeues.                                                       *)
Room        == NBPOOLS * NumBufs <= QMAX
SingleReceiver == \A p, q \in Receivers : p = q

-----------------------------------------------------------------------------
(* Addresses.                                                              *)
LEMMA Constants ==
  /\ NBPOOLS \in Nat /\ NBPOOLS > 0 /\ NumBufs \in Nat /\ NumBufs > 0
  /\ QMAX \in Nat /\ QMAX > 0 /\ Keys \subseteq Nat /\ IsFiniteSet(Proc)
  /\ Cardinality(Proc) \in Nat /\ Senders \subseteq Proc /\ Receivers \subseteq Proc
  /\ Pool \subseteq Nat /\ MUTEX \notin Pool /\ NULL \in Pool
BY PoolAssumption, QueueAssumption, RoleAssumption, FS_CardinalityType DEF Pool, MUTEX, NULL

LEMMA Times ==
  ASSUME NEW a \in Nat, NEW b \in Nat, NEW n \in Nat, a <= b
  PROVE  a * n \in Nat /\ b * n \in Nat /\ a * n <= b * n
OBVIOUS

First(pool) == NBPOOLS + pool * NumBufs + 1
Final(pool) == NBPOOLS + pool * NumBufs + NumBufs

LEMMA PoolAddresses ==
  ASSUME NEW pool \in Pool
  PROVE  /\ First(pool) \in Nat /\ First(pool) > NBPOOLS /\ Final(pool) \in Nat
         /\ Final(pool) = First(pool) + (NumBufs - 1)
         /\ Final(pool) <= NBPOOLS + NBPOOLS * NumBufs
         /\ BufsOf(pool) = First(pool)..Final(pool)
         /\ IsFiniteSet(BufsOf(pool)) /\ Cardinality(BufsOf(pool)) = NumBufs
<1>1. pool \in Nat /\ pool + 1 \in Nat /\ pool + 1 <= NBPOOLS /\ NBPOOLS \in Nat /\ NumBufs \in Nat
      /\ NumBufs > 0 /\ NBPOOLS > 0
  BY Constants DEF Pool
<1>2. PICK m : m = pool * NumBufs
  OBVIOUS
<1>3. PICK top : top = NBPOOLS * NumBufs
  OBVIOUS
<1>4. m \in Nat /\ top \in Nat /\ m + NumBufs <= top
  <2>1. (pool + 1) * NumBufs \in Nat /\ (pool + 1) * NumBufs <= NBPOOLS * NumBufs
        /\ NBPOOLS * NumBufs \in Nat
    BY <1>1, Times
  <2>2. pool * NumBufs \in Nat
    BY <1>1, Times
  <2>3. (pool + 1) * NumBufs = pool * NumBufs + NumBufs
    BY <1>1
  <2> QED  BY <1>2, <1>3, <2>1, <2>2, <2>3
<1>5. First(pool) = NBPOOLS + m + 1 /\ Final(pool) = NBPOOLS + m + NumBufs
  BY <1>2 DEF First, Final
<1>6. BufsOf(pool) = First(pool)..Final(pool)
  <2>1. BufsOf(pool) = {NBPOOLS + m + k : k \in 1..NumBufs}
    BY <1>2 DEF BufsOf, Addr
  <2>2. ASSUME NEW x \in First(pool)..Final(pool) PROVE x \in {NBPOOLS + m + k : k \in 1..NumBufs}
    <3>1. x - (NBPOOLS + m) \in 1..NumBufs /\ x = NBPOOLS + m + (x - (NBPOOLS + m))
      BY <1>1, <1>4, <1>5
    <3> QED  BY <3>1
  <2>3. ASSUME NEW k \in 1..NumBufs PROVE NBPOOLS + m + k \in First(pool)..Final(pool)
    BY <1>1, <1>4, <1>5
  <2> QED  BY <2>1, <2>2, <2>3
<1>7. /\ First(pool) \in Nat /\ First(pool) > NBPOOLS /\ Final(pool) \in Nat
      /\ Final(pool) = First(pool) + (NumBufs - 1)
      /\ Final(pool) <= NBPOOLS + top
  BY <1>1, <1>4, <1>5
<1>8. /\ IsFiniteSet(First(pool)..Final(pool))
      /\ Cardinality(First(pool)..Final(pool)) = Final(pool) - First(pool) + 1
  <2>1. First(pool) \in Int /\ Final(pool) \in Int /\ ~(First(pool) > Final(pool))
    BY <1>1, <1>7
  <2> QED  BY <2>1, FS_Interval
<1>9. Final(pool) - First(pool) + 1 = NumBufs
  BY <1>1, <1>7
<1> QED  BY <1>3, <1>6, <1>7, <1>8, <1>9

LEMMA BufferFacts ==
  /\ \A b \in Buf : b \in Nat /\ b > NBPOOLS /\ b # NULL /\ b \notin Pool
  /\ \A pool \in Pool : BufsOf(pool) \subseteq Buf
  /\ \A b \in Buf : \E pool \in Pool : b \in BufsOf(pool)
  /\ NULL \notin Buf
  /\ IsFiniteSet(Buf) /\ Cardinality(Buf) <= NBPOOLS * NumBufs
<1>1. Buf \subseteq (NBPOOLS + 1)..(NBPOOLS + NBPOOLS * NumBufs)
  <2> SUFFICES ASSUME NEW pool \in Pool, NEW b \in BufsOf(pool)
               PROVE  b \in (NBPOOLS + 1)..(NBPOOLS + NBPOOLS * NumBufs)
    BY DEF Buf
  <2> HIDE DEF Pool
  <2>1. PICK top : top = NBPOOLS * NumBufs
    OBVIOUS
  <2>2. top \in Nat
    BY <2>1, Constants, Times
  <2>3. /\ First(pool) \in Nat /\ First(pool) > NBPOOLS /\ Final(pool) \in Nat
        /\ Final(pool) <= NBPOOLS + top /\ b \in First(pool)..Final(pool)
    BY <2>1, PoolAddresses
  <2>4. b \in (NBPOOLS + 1)..(NBPOOLS + top)
    BY <2>2, <2>3, Constants
  <2> QED  BY <2>1, <2>4
<1>2. NBPOOLS * NumBufs \in Nat
  BY Constants, Times
<1>3. \A b \in Buf : b \in Nat /\ b > NBPOOLS /\ b # NULL /\ b \notin Pool
  BY <1>1, <1>2, Constants DEF NULL, Pool
<1>4. /\ IsFiniteSet((NBPOOLS + 1)..(NBPOOLS + NBPOOLS * NumBufs))
      /\ Cardinality((NBPOOLS + 1)..(NBPOOLS + NBPOOLS * NumBufs)) = NBPOOLS * NumBufs
  <2>1. PICK top : top = NBPOOLS * NumBufs
    OBVIOUS
  <2>2. NBPOOLS + 1 \in Int /\ NBPOOLS + top \in Int /\ (NBPOOLS + top) - (NBPOOLS + 1) + 1 = top
        /\ (NBPOOLS + 1 > NBPOOLS + top => top = 0)
    BY <1>2, <2>1, Constants
  <2>3. /\ IsFiniteSet((NBPOOLS + 1)..(NBPOOLS + top))
        /\ Cardinality((NBPOOLS + 1)..(NBPOOLS + top))
             = IF NBPOOLS + 1 > NBPOOLS + top THEN 0 ELSE (NBPOOLS + top) - (NBPOOLS + 1) + 1
    BY <2>2, FS_Interval
  <2> QED  BY <2>1, <2>2, <2>3
<1>5. IsFiniteSet(Buf) /\ Cardinality(Buf) <= NBPOOLS * NumBufs
  BY <1>1, <1>4, FS_Subset
<1> QED  BY <1>3, <1>5 DEF Buf

LEMMA PoolsApart ==
  ASSUME NEW pool \in Pool, NEW other \in Pool, pool # other
  PROVE  BufsOf(pool) \cap BufsOf(other) = {}
<1>1. ASSUME NEW r \in Pool, NEW s \in Pool, r < s PROVE BufsOf(r) \cap BufsOf(s) = {}
  <2>1. r \in Nat /\ s \in Nat /\ r + 1 <= s /\ r + 1 \in Nat /\ NumBufs \in Nat /\ NBPOOLS \in Nat
    BY <1>1, Constants
  <2>2. (r + 1) * NumBufs <= s * NumBufs /\ s * NumBufs \in Nat /\ (r + 1) * NumBufs = r * NumBufs + NumBufs
        /\ r * NumBufs \in Nat
    BY <2>1, Times
  <2>3. PICK m, n : m = r * NumBufs /\ n = s * NumBufs
    OBVIOUS
  <2>4. Final(r) = NBPOOLS + m + NumBufs /\ First(s) = NBPOOLS + n + 1
    BY <2>3 DEF First, Final
  <2>5. m \in Nat /\ n \in Nat /\ m + NumBufs <= n
    BY <2>2, <2>3
  <2>6. Final(r) < First(s) /\ Final(r) \in Nat /\ First(s) \in Nat
    BY <2>1, <2>4, <2>5
  <2>7. BufsOf(r) = First(r)..Final(r) /\ BufsOf(s) = First(s)..Final(s)
    BY PoolAddresses
  <2> QED  BY <2>6, <2>7
<1>2. pool < other \/ other < pool
  BY Constants
<1> QED  BY <1>1, <1>2
-----------------------------------------------------------------------------
(* Lists without repetition are as long as their sets are large.           *)
LEMMA HoldsLen ==
  ASSUME NEW S, NEW s \in Seq(S), NEW P, Holds(s, P)
  PROVE  IsFiniteSet(P) /\ Cardinality(P) = Len(s)
<1>1. /\ P = {s[i] : i \in 1..Len(s)} /\ Len(s) \in Nat
      /\ \A i, j \in 1..Len(s) : s[i] = s[j] => i = j
      /\ s \in [1..Len(s) -> S]
  BY HoldsByIndex, LenProperties
<1>2. s \in [1..Len(s) -> P]
  BY <1>1
<1>3. s \in Bijection(1..Len(s), P)
  <2>1. s \in Injection(1..Len(s), P)
    BY <1>1, <1>2 DEF Injection, IsInjective
  <2>2. s \in Surjection(1..Len(s), P)
    BY <1>1, <1>2 DEF Surjection
  <2> QED  BY <2>1, <2>2 DEF Bijection
<1>4. ExistsBijection(1..Len(s), P)
  BY <1>3 DEF ExistsBijection
<1>5. IsFiniteSet(1..Len(s)) /\ Cardinality(1..Len(s)) = Len(s)
  BY <1>1, FS_Interval
<1> QED  BY <1>4, <1>5, FS_Bijection

(* A function without repetition: its arguments and its values.            *)
LEMMA SameCount ==
  ASSUME NEW D, NEW T, NEW f \in [D -> T], IsFiniteSet(T),
         \A x, y \in D : f[x] = f[y] => x = y
  PROVE  /\ IsFiniteSet(D) /\ Cardinality(D) \in Nat
         /\ Cardinality(D) <= Cardinality(T)
         /\ (\A y \in T : \E x \in D : f[x] = y) => Cardinality(D) = Cardinality(T)
<1>1. f \in Injection(D, T)
  BY DEF Injection, IsInjective
<1>2. (\A y \in T : \E x \in D : f[x] = y) => f \in Surjection(D, T)
  BY DEF Surjection
<1>3. /\ IsFiniteSet(D) /\ Cardinality(D) <= Cardinality(T)
      /\ Cardinality(D) = Cardinality(T) <=> f \in Surjection(D, T)
  BY <1>1, FS_Injection
<1> QED  BY <1>2, <1>3, FS_CardinalityType

(* A semaphore: its count says how many wait.                              *)
SemOK(x) ==
  /\ x \in [cnt : Int, q : Seq(Proc)]
  /\ IsInjective(x.q)
  /\ Len(x.q) = IF x.cnt < 0 THEN -x.cnt ELSE 0

LEMMA InQueue ==
  ASSUME NEW x, SemOK(x)
  PROVE  /\ Holds(x.q, ToSet(x.q)) /\ ToSet(x.q) \subseteq Proc
         /\ \A p : Contains(x.q, p) <=> p \in ToSet(x.q)
         /\ Len(x.q) \in Nat /\ Len(x.q) <= Cardinality(Proc)
<1>1. x.q \in Seq(Proc) /\ IsInjective(x.q) /\ Holds(x.q, ToSet(x.q))
  BY DEF SemOK, Holds
<1>2. DOMAIN x.q = 1..Len(x.q) /\ Len(x.q) \in Nat /\ \A i \in 1..Len(x.q) : x.q[i] \in Proc
  BY <1>1, LenProperties, ElementOfSeq
<1>3. ToSet(x.q) \subseteq Proc /\ \A p : Contains(x.q, p) <=> p \in ToSet(x.q)
  BY <1>2 DEF ToSet, Contains
<1>4. Cardinality(ToSet(x.q)) = Len(x.q)
  BY <1>1, HoldsLen
<1>5. Cardinality(ToSet(x.q)) <= Cardinality(Proc)
  BY <1>3, Constants, FS_Subset
<1> QED  BY <1>1, <1>2, <1>3, <1>4, <1>5

LEMMA WaitKeeps ==
  ASSUME NEW x, SemOK(x), NEW p \in Proc, p \notin ToSet(x.q),
         NEW y, y = [cnt |-> x.cnt - 1, q |-> IF x.cnt > 0 THEN x.q ELSE Append(x.q, p)]
  PROVE  /\ SemOK(y) /\ y.cnt = x.cnt - 1
         /\ x.cnt > 0 => /\ y.cnt + Len(y.q) = x.cnt + Len(x.q) - 1
                         /\ ToSet(y.q) = ToSet(x.q)
         /\ ~(x.cnt > 0) => y.cnt + Len(y.q) = x.cnt + Len(x.q)
<1>1. x.cnt \in Int /\ x.q \in Seq(Proc) /\ Holds(x.q, ToSet(x.q))
      /\ Len(x.q) = IF x.cnt < 0 THEN -x.cnt ELSE 0
  BY InQueue DEF SemOK
<1>2. CASE x.cnt > 0
  <2>1. y.cnt = x.cnt - 1 /\ y.q = x.q
    BY <1>2
  <2> QED  BY <1>1, <1>2, <2>1 DEF SemOK
<1>3. CASE ~(x.cnt > 0)
  <2>1. y.cnt = x.cnt - 1 /\ y.q = Append(x.q, p)
    BY <1>3
  <2>2. y.q \in Seq(Proc) /\ Holds(y.q, ToSet(x.q) \cup {p})
    BY <1>1, <2>1, HoldsEnqueue DEF Enqueue
  <2>3. ToSet(y.q) = ToSet(x.q) \cup {p} /\ IsInjective(y.q)
    BY <2>2 DEF Holds
  <2>4. Len(y.q) = Len(x.q) + 1
    BY <1>1, <2>1, AppendProperties
  <2>5. Len(y.q) = (IF y.cnt < 0 THEN -y.cnt ELSE 0) /\ y.cnt + Len(y.q) = x.cnt + Len(x.q)
    BY <1>1, <1>3, <2>1, <2>4
  <2>6. y \in [cnt : Int, q : Seq(Proc)]
    BY <1>1, <1>3, <2>1, <2>2
  <2> QED  BY <1>3, <2>1, <2>3, <2>5, <2>6 DEF SemOK
<1> QED  BY <1>2, <1>3

LEMMA WaitJoins ==
  ASSUME NEW x, SemOK(x), NEW p \in Proc, p \notin ToSet(x.q), ~(x.cnt > 0),
         NEW y, y = [cnt |-> x.cnt - 1, q |-> IF x.cnt > 0 THEN x.q ELSE Append(x.q, p)]
  PROVE  ToSet(y.q) = ToSet(x.q) \cup {p}
<1>1. x.q \in Seq(Proc) /\ Holds(x.q, ToSet(x.q))
  BY InQueue DEF SemOK
<1>2. y.q = Append(x.q, p)
  OBVIOUS
<1>3. Holds(y.q, ToSet(x.q) \cup {p})
  BY <1>1, <1>2, HoldsEnqueue DEF Enqueue
<1> QED  BY <1>3 DEF Holds

LEMMA SignalKeeps ==
  ASSUME NEW x, SemOK(x), NEW y,
         y = [cnt |-> x.cnt + 1, q |-> IF x.cnt < 0 THEN Tail(x.q) ELSE x.q]
  PROVE  /\ SemOK(y)
         /\ x.cnt < 0 => /\ y.cnt + Len(y.q) = x.cnt + Len(x.q)
                         /\ Head(x.q) \in ToSet(x.q) /\ ToSet(y.q) = ToSet(x.q) \ {Head(x.q)}
         /\ ~(x.cnt < 0) => /\ y.cnt + Len(y.q) = x.cnt + Len(x.q) + 1
                            /\ ToSet(y.q) = ToSet(x.q)
<1>1. x.cnt \in Int /\ x.q \in Seq(Proc) /\ Holds(x.q, ToSet(x.q))
      /\ Len(x.q) = IF x.cnt < 0 THEN -x.cnt ELSE 0
  BY InQueue DEF SemOK
<1>2. CASE ~(x.cnt < 0)
  <2>1. y.cnt = x.cnt + 1 /\ y.q = x.q
    BY <1>2
  <2> QED  BY <1>1, <1>2, <2>1 DEF SemOK
<1>3. CASE x.cnt < 0
  <2>1. y.cnt = x.cnt + 1 /\ y.q = Tail(x.q)
    BY <1>3
  <2>2. x.q # <<>>
    <3>1. Len(x.q) > 0
      BY <1>1, <1>3
    <3> QED  BY <3>1, EmptySeq
  <2>3. y.q \in Seq(Proc) /\ Head(x.q) \in ToSet(x.q) /\ Holds(y.q, ToSet(x.q) \ {Head(x.q)})
    BY <1>1, <2>1, <2>2, HoldsTail, ZenonT(30)
  <2>4. ToSet(y.q) = ToSet(x.q) \ {Head(x.q)} /\ IsInjective(y.q)
    BY <2>3 DEF Holds
  <2>5. Len(y.q) = Len(x.q) - 1
    BY <1>1, <2>1, <2>2, HeadTailProperties
  <2>6. Len(y.q) = (IF y.cnt < 0 THEN -y.cnt ELSE 0) /\ y.cnt + Len(y.q) = x.cnt + Len(x.q)
    BY <1>1, <1>3, <2>1, <2>5
  <2>7. y \in [cnt : Int, q : Seq(Proc)]
    BY <1>1, <1>3, <2>1, <2>3
  <2> QED  BY <1>3, <2>3, <2>4, <2>6, <2>7 DEF SemOK
<1> QED  BY <1>2, <1>3

(* A linked list of buffers.                                               *)
NextFree(l, i) == IF i < Len(l) THEN l[i + 1] ELSE NULL

Links(l, first, w) ==
  first = NextFree(l, 0) /\ \A i \in 1..Len(l) : w[l[i]] = NextFree(l, i)

ListOf(first, w, P) == \E l \in Seq(Buf) : Holds(l, P) /\ Links(l, first, w)

(* What is not on the list may change.                                     *)
LEMMA SameList ==
  ASSUME NEW first, NEW w, NEW w2, NEW P, ListOf(first, w, P), \A b \in P : w2[b] = w[b]
  PROVE  ListOf(first, w2, P)
<1>1. PICK l \in Seq(Buf) : Holds(l, P) /\ Links(l, first, w)
  BY DEF ListOf
<1>2. \A i \in 1..Len(l) : l[i] \in P
  BY <1>1, HoldsByIndex
<1>3. Links(l, first, w2)
  BY <1>1, <1>2 DEF Links
<1> QED  BY <1>1, <1>3 DEF ListOf

(* The first buffer is taken.                                              *)
LEMMA ListTaken ==
  ASSUME NEW first, NEW w, NEW P, ListOf(first, w, P), P # {}
  PROVE  /\ first \in P /\ first \in Buf
         /\ \A w2 : (\A b \in P \ {first} : w2[b] = w[b]) => ListOf(w[first], w2, P \ {first})
         /\ w[first] \in Buf \cup {NULL}
<1>1. PICK l \in Seq(Buf) : Holds(l, P) /\ Links(l, first, w)
  BY DEF ListOf
<1>2. l # <<>>
  BY <1>1, HoldsEmpty
<1>3. Head(l) \in P /\ Head(l) = l[1] /\ 1 \in 1..Len(l) /\ Tail(l) \in Seq(Buf)
      /\ Holds(Tail(l), P \ {Head(l)})
  BY <1>1, <1>2, HoldsTail
<1>4. Len(l) \in Nat /\ Len(Tail(l)) = Len(l) - 1 /\ \A i \in 1..Len(Tail(l)) : Tail(l)[i] = l[i + 1]
  BY <1>2, LenProperties, HeadTailProperties
<1>5. first = l[1] /\ l[1] \in Buf
  <2>1. 0 < Len(l) /\ 0 + 1 = 1
    BY <1>3, <1>4
  <2> QED  BY <1>1, <1>3, <2>1, ElementOfSeq DEF Links, NextFree
<1>6. PICK t : t = Tail(l)
  OBVIOUS
<1>7. \A i \in 0..Len(t) : NextFree(t, i) = NextFree(l, i + 1)
  <2> SUFFICES ASSUME NEW i \in 0..Len(t) PROVE NextFree(t, i) = NextFree(l, i + 1)
    OBVIOUS
  <2>1. (i < Len(t) <=> i + 1 < Len(l)) /\ (i < Len(t) => i + 1 \in 1..Len(t))
    BY <1>3, <1>4, <1>6
  <2> QED  BY <1>4, <1>6, <2>1 DEF NextFree
<1>8. w[first] = NextFree(t, 0) /\ w[first] \in Buf \cup {NULL}
  <2>1. w[first] = NextFree(l, 1) /\ 0 \in 0..Len(t) /\ 0 + 1 = 1
    BY <1>1, <1>3, <1>4, <1>5, <1>6 DEF Links
  <2>2. NextFree(l, 1) \in Buf \cup {NULL}
    <3>1. 1 < Len(l) => 1 + 1 \in 1..Len(l)
      BY <1>4
    <3> QED  BY <3>1, ElementOfSeq DEF NextFree
  <2> QED  BY <1>7, <2>1, <2>2
<1>9. ASSUME NEW w2, \A b \in P \ {first} : w2[b] = w[b] PROVE ListOf(w[first], w2, P \ {first})
  <2>1. ASSUME NEW i \in 1..Len(t) PROVE w2[t[i]] = NextFree(t, i)
    <3>1. i \in 0..Len(t) /\ i + 1 \in 1..Len(l) /\ t[i] = l[i + 1]
      BY <1>3, <1>4, <1>6
    <3>2. t[i] \in P \ {first}
      <4>1. t \in Seq(Buf) /\ Holds(t, P \ {first})
        BY <1>3, <1>5, <1>6
      <4>2. P \ {first} = {t[j] : j \in 1..Len(t)}
        BY <4>1, HoldsByIndex
      <4> QED  BY <4>2
    <3>3. w[l[i + 1]] = NextFree(l, i + 1)
      BY <1>1, <3>1 DEF Links
    <3> QED  BY <1>7, <1>9, <3>1, <3>2, <3>3
  <2>2. Links(t, w[first], w2)
    BY <1>8, <2>1 DEF Links
  <2> QED  BY <1>3, <1>5, <1>6, <2>2 DEF ListOf
<1> QED  BY <1>3, <1>5, <1>8, <1>9

(* A buffer is put back, first.                                            *)
LEMMA ListGiven ==
  ASSUME NEW first, NEW w, NEW P, ListOf(first, w, P), NEW b \in Buf, b \notin P,
         NEW w2, w2[b] = first, \A c \in P : w2[c] = w[c]
  PROVE  ListOf(b, w2, P \cup {b})
<1>1. PICK l \in Seq(Buf) : Holds(l, P) /\ Links(l, first, w)
  BY DEF ListOf
<1>2. Len(l) \in Nat /\ 1 \in 1..(Len(l) + 1)
  BY LenProperties
<1>3. PICK t : t = InsertAt(l, 1, b)
  OBVIOUS
<1>4. t \in Seq(Buf) /\ Holds(t, P \cup {b}) /\ Len(t) = Len(l) + 1
      /\ \A j \in 1..(Len(l) + 1) : t[j] = IF j < 1 THEN l[j] ELSE IF j = 1 THEN b ELSE l[j - 1]
  BY <1>1, <1>2, <1>3, HoldsInsertAt, InsertAtProperties, SMTT(30)
<1>5. t[1] = b /\ \A j \in 1..Len(l) : t[j + 1] = l[j]
  <2>1. \A j \in 1..Len(l) : /\ j + 1 \in 1..(Len(l) + 1) /\ ~(j + 1 < 1) /\ j + 1 # 1
                             /\ (j + 1) - 1 = j
    BY <1>2
  <2>2. ~(1 < 1)
    OBVIOUS
  <2> QED  BY <1>2, <1>4, <2>1, <2>2
<1>6. \A i \in 0..Len(l) : NextFree(t, i + 1) = NextFree(l, i)
  <2> SUFFICES ASSUME NEW i \in 0..Len(l) PROVE NextFree(t, i + 1) = NextFree(l, i)
    OBVIOUS
  <2>1. (i + 1 < Len(t) <=> i < Len(l)) /\ (i < Len(l) => i + 1 \in 1..Len(l))
    BY <1>2, <1>4
  <2> QED  BY <1>5, <2>1 DEF NextFree
<1>7. NextFree(t, 0) = b
  BY <1>2, <1>4, <1>5 DEF NextFree
<1>8. ASSUME NEW j \in 1..Len(t) PROVE w2[t[j]] = NextFree(t, j)
  <2>1. CASE j = 1
    <3>1. 0 \in 0..Len(l) /\ 0 + 1 = 1
      BY <1>2
    <3>2. first = NextFree(l, 0)
      BY <1>1 DEF Links
    <3> QED  BY <1>5, <1>6, <2>1, <3>1, <3>2
  <2>2. CASE j # 1
    <3>1. j - 1 \in 1..Len(l) /\ j - 1 \in 0..Len(l) /\ (j - 1) + 1 = j
      BY <1>2, <1>4, <2>2
    <3>2. t[j] = l[j - 1] /\ l[j - 1] \in P
      BY <1>1, <1>5, <3>1, HoldsByIndex
    <3>3. w[l[j - 1]] = NextFree(l, j - 1)
      BY <1>1, <3>1 DEF Links
    <3> QED  BY <1>6, <3>1, <3>2, <3>3
  <2> QED  BY <2>1, <2>2
<1> QED  BY <1>4, <1>7, <1>8 DEF ListOf, Links
-----------------------------------------------------------------------------
(* The inductive invariant.                                                *)
Most   == NumBufs + Cardinality(Proc)
Regs   == [buf : Buf \cup {NULL}, pool : Pool, n : 0..Most, key : Nat]
Places == {User, <<"freebuf", "signal">>}
            \cup {<<"getbuf", step>> : step \in {"count", "test", "store", "take"}}
            \cup {<<op, step>> : op \in {"enq", "deq"}, step \in {"enter", "body", "unlock"}}

Held == {reg[p].buf : p \in Proc}
Used == Held \cup Queued

(* The buffers on a pool's list, and the processes that are to take one    *)
(* or have put one there and not signalled.                                *)
FreeOf(pool) == BufsOf(pool) \ Used
Owed(pool)   == {p \in Proc : /\ pc[p][1] \in {"getbuf", "freebuf"}
                              /\ reg[p].pool = pool
                              /\ p \notin ToSet(sem[pool].q)}

TypesOK ==
  /\ nbpools \in 0..NBPOOLS
  /\ bpnext \in [Pool -> Buf \cup {NULL}]
  /\ bpmaxused \in [Pool -> 0..Most]
  /\ word \in [Buf -> Int]
  /\ pc \in [Proc -> Places]
  /\ reg \in [Proc -> Regs]
  /\ q_count \in Nat
  /\ q_elt \in [Slot -> Buf \cup {NULL}] /\ q_key \in [Slot -> Nat]

(* Who waits for a pool is in getbuf, past the wait.                       *)
SemsOK ==
  /\ sem \in [Pool \cup {MUTEX} -> [cnt : Int, q : Seq(Proc)]]
  /\ \A s \in Pool \cup {MUTEX} : SemOK(sem[s])
  /\ \A pool \in Pool : \A p \in ToSet(sem[pool].q) :
       pc[p] = <<"getbuf", "count">> /\ reg[p].pool = pool

(* What a process has, by its place in the code.                           *)
PlaceOK(p) ==
  /\ pc[p][1] \in {"getbuf", "freebuf"} => reg[p].buf = NULL /\ reg[p].pool < nbpools
  /\ pc[p] \in {<<"enq", "enter">>, <<"enq", "body">>} => reg[p].buf # NULL
  /\ pc[p] \in {<<"deq", "enter">>, <<"deq", "body">>} =>
       reg[p].buf = NULL /\ p \in Receivers /\ q_count > 0

(* A buffer is with one process or once in the queue, and knows its pool.  *)
OwnOK ==
  /\ \A p, q \in Proc : reg[p].buf # NULL /\ reg[p].buf = reg[q].buf => p = q
  /\ \A i \in 0..(q_count - 1) : i \in Slot /\ q_elt[i] \in Buf \ Held
  /\ \A i, j \in 0..(q_count - 1) : q_elt[i] = q_elt[j] => i = j
  /\ \A b \in Used \ {NULL} : word[b] \in 0..(nbpools - 1) /\ b \in BufsOf(word[b])

PoolOK(pool) ==
  /\ pool < nbpools =>
       /\ ListOf(bpnext[pool], word, FreeOf(pool))
       /\ Cardinality(FreeOf(pool)) = sem[pool].cnt + Len(sem[pool].q) + Cardinality(Owed(pool))
  /\ ~(pool < nbpools) => sem[pool].cnt = 0

BInv ==
  /\ TypesOK /\ SemsOK /\ OwnOK
  /\ \A p \in Proc : PlaceOK(p)
  /\ \A pool \in Pool : PoolOK(pool)

-----------------------------------------------------------------------------
(* What the invariant says of one process, one semaphore, one pool.        *)
LEMMA AtFacts ==
  ASSUME SemsOK, NEW p \in Proc, NEW place, At(p, place)
  PROVE  /\ pc[p] = place
         /\ \A s \in Pool \cup {MUTEX} : SemOK(sem[s]) /\ p \notin ToSet(sem[s].q)
<1>1. DOMAIN sem = Pool \cup {MUTEX} /\ \A s \in Pool \cup {MUTEX} : SemOK(sem[s])
  BY DEF SemsOK
<1>2. ASSUME NEW s \in Pool \cup {MUTEX} PROVE p \notin ToSet(sem[s].q)
  <2>1. ~Contains(sem[s].q, p) /\ SemOK(sem[s])
    BY <1>1 DEF At
  <2> QED  BY <2>1, InQueue
<1> QED  BY <1>1, <1>2 DEF At

LEMMA SemFacts ==
  ASSUME NEW x, SemOK(x)
  PROVE  /\ x.cnt \in Int /\ x.q \in Seq(Proc) /\ Len(x.q) \in Nat
         /\ x.cnt >= 0 => Len(x.q) = 0 /\ x.cnt + Len(x.q) = x.cnt
         /\ x.cnt < 0 => Len(x.q) = -x.cnt /\ x.cnt + Len(x.q) = 0
         /\ x.cnt + Len(x.q) >= 0 /\ x.cnt + Len(x.q) \in Int /\ x.cnt <= x.cnt + Len(x.q)
         /\ x.cnt >= -Cardinality(Proc)
<1>1. x.cnt \in Int /\ x.q \in Seq(Proc) /\ Len(x.q) = IF x.cnt < 0 THEN -x.cnt ELSE 0
  BY DEF SemOK
<1>2. Len(x.q) \in Nat /\ Len(x.q) <= Cardinality(Proc) /\ Cardinality(Proc) \in Nat
  BY InQueue, Constants
<1> QED  BY <1>1, <1>2

LEMMA PoolCounts ==
  ASSUME BInv, NEW pool \in Pool
  PROVE  /\ IsFiniteSet(FreeOf(pool)) /\ Cardinality(FreeOf(pool)) \in 0..NumBufs
         /\ IsFiniteSet(Owed(pool)) /\ Cardinality(Owed(pool)) \in Nat
         /\ \A p \in Owed(pool) : Cardinality(Owed(pool)) >= 1
         /\ FreeOf(pool) = {} => Cardinality(FreeOf(pool)) = 0
         /\ SemOK(sem[pool])
<1>1. IsFiniteSet(BufsOf(pool)) /\ Cardinality(BufsOf(pool)) = NumBufs /\ NumBufs \in Nat
  BY PoolAddresses, Constants
<1>2. FreeOf(pool) \in SUBSET BufsOf(pool)
  BY DEF FreeOf
<1>3. IsFiniteSet(FreeOf(pool)) /\ Cardinality(FreeOf(pool)) <= NumBufs
      /\ Cardinality(FreeOf(pool)) \in Nat
  BY <1>1, <1>2, FS_Subset, FS_CardinalityType
<1>4. Owed(pool) \in SUBSET Proc /\ IsFiniteSet(Proc)
  BY Constants DEF Owed
<1>5. IsFiniteSet(Owed(pool)) /\ Cardinality(Owed(pool)) \in Nat
  BY <1>4, FS_Subset, FS_CardinalityType
<1>6. \A p \in Owed(pool) : Cardinality(Owed(pool)) >= 1
  <2>1. \A p \in Owed(pool) : Cardinality(Owed(pool)) # 0
    BY <1>5, FS_EmptySet
  <2> QED  BY <1>5, <2>1
<1>7. SemOK(sem[pool])
  BY DEF BInv, SemsOK
<1> QED  BY <1>1, <1>3, <1>5, <1>6, <1>7, FS_EmptySet

(* A pool that was made: what its semaphore counts.                        *)
LEMMA PoolBalance ==
  ASSUME BInv, NEW pool \in Pool, pool < nbpools
  PROVE  /\ ListOf(bpnext[pool], word, FreeOf(pool))
         /\ Cardinality(FreeOf(pool)) = sem[pool].cnt + Len(sem[pool].q) + Cardinality(Owed(pool))
         /\ sem[pool].cnt \in Int /\ sem[pool].cnt <= NumBufs
         /\ sem[pool].cnt >= -Cardinality(Proc)
         /\ \A p \in Owed(pool) : FreeOf(pool) # {}
         /\ sem[pool].cnt > 0 => FreeOf(pool) # {}
<1>1. /\ ListOf(bpnext[pool], word, FreeOf(pool))
      /\ Cardinality(FreeOf(pool)) = sem[pool].cnt + Len(sem[pool].q) + Cardinality(Owed(pool))
  BY DEF BInv, PoolOK
<1>2. /\ sem[pool].cnt \in Int /\ Len(sem[pool].q) \in Nat /\ sem[pool].cnt + Len(sem[pool].q) >= 0
      /\ sem[pool].cnt <= sem[pool].cnt + Len(sem[pool].q)
      /\ sem[pool].cnt >= -Cardinality(Proc)
  BY PoolCounts, SemFacts
<1>3. /\ Cardinality(FreeOf(pool)) \in 0..NumBufs /\ Cardinality(Owed(pool)) \in Nat
      /\ FreeOf(pool) = {} => Cardinality(FreeOf(pool)) = 0
      /\ \A p \in Owed(pool) : Cardinality(Owed(pool)) >= 1
  BY PoolCounts
<1>4. NumBufs \in Nat /\ Cardinality(Proc) \in Nat
  BY Constants
<1>5. sem[pool].cnt <= NumBufs
  BY <1>1, <1>2, <1>3, <1>4
<1>6. FreeOf(pool) = {} => Cardinality(Owed(pool)) = 0 /\ ~(sem[pool].cnt > 0)
  <2> SUFFICES ASSUME FreeOf(pool) = {}
               PROVE  Cardinality(Owed(pool)) = 0 /\ ~(sem[pool].cnt > 0)
    OBVIOUS
  <2>1. Cardinality(FreeOf(pool)) = 0
    BY <1>3
  <2>2. 0 = sem[pool].cnt + Len(sem[pool].q) + Cardinality(Owed(pool))
    BY <1>1, <2>1
  <2>3. Cardinality(Owed(pool)) \in Nat
    BY <1>3
  <2> QED  BY <1>2, <2>2, <2>3
<1>7. \A p \in Owed(pool) : FreeOf(pool) # {}
  BY <1>3, <1>6
<1> QED  BY <1>1, <1>2, <1>5, <1>6, <1>7

-----------------------------------------------------------------------------
(* A step of one process leaves the places of the others.                  *)
Others(p) == \A q \in Proc : q # p => pc'[q] = pc[q] /\ reg'[q] = reg[q]

SameBufs == \A q \in Proc : reg'[q].buf = reg[q].buf

LEMMA UsedSame ==
  ASSUME SameBufs, UNCHANGED queueVars
  PROVE  Held' = Held /\ Queued' = Queued /\ Used' = Used
         /\ \A pool \in Pool : FreeOf(pool)' = FreeOf(pool)
<1>1. Held' = Held
  BY DEF SameBufs, Held
<1>2. Queued' = Queued
  BY DEF queueVars, Queued
<1> QED  BY <1>1, <1>2 DEF Used, FreeOf

LEMMA OwnKept ==
  ASSUME OwnOK, SameBufs, UNCHANGED queueVars, nbpools \in Int, nbpools' \in Int,
         nbpools' >= nbpools, \A b \in Used \ {NULL} : word'[b] = word[b]
  PROVE  OwnOK'
<1>1. Held' = Held /\ Used' = Used
  BY UsedSame
<1>2. q_count' = q_count /\ q_elt' = q_elt
  BY DEF queueVars
<1>3. \A p, q \in Proc : reg'[p].buf # NULL /\ reg'[p].buf = reg'[q].buf => p = q
  BY DEF OwnOK, SameBufs
<1>4. \A i \in 0..(q_count' - 1) : i \in Slot /\ q_elt'[i] \in Buf \ Held'
  BY <1>1, <1>2 DEF OwnOK
<1>5. \A i, j \in 0..(q_count' - 1) : q_elt'[i] = q_elt'[j] => i = j
  BY <1>2 DEF OwnOK
<1>6. \A b \in Used \ {NULL} : word'[b] \in 0..(nbpools' - 1) /\ b \in BufsOf(word'[b])
  BY DEF OwnOK
<1> QED  BY <1>1, <1>3, <1>4, <1>5, <1>6 DEF OwnOK

LEMMA SemsKept ==
  ASSUME SemsOK, UNCHANGED sem, NEW p \in Proc, Others(p),
         \A pool \in Pool : p \notin ToSet(sem[pool].q)
  PROVE  SemsOK'
<1>1. ASSUME NEW pool \in Pool, NEW q \in ToSet(sem[pool].q)
      PROVE  pc'[q] = <<"getbuf", "count">> /\ reg'[q].pool = pool
  <2>1. q \in Proc /\ q # p
    BY Constants, InQueue DEF SemsOK
  <2> QED  BY <2>1 DEF SemsOK, Others
<1> QED  BY <1>1 DEF SemsOK

LEMMA PlacesKept ==
  ASSUME SingleReceiver, \A q \in Proc : PlaceOK(q), NEW p \in Proc, Others(p), PlaceOK(p)',
         TypesOK, nbpools' \in Int, nbpools' >= nbpools,
         q_count' \in Int, q_count' >= q_count \/ p \in Receivers
  PROVE  \A q \in Proc : PlaceOK(q)'
<1> SUFFICES ASSUME NEW q \in Proc, q # p PROVE PlaceOK(q)'
  OBVIOUS
<1>1. pc'[q] = pc[q] /\ reg'[q] = reg[q] /\ PlaceOK(q)
  BY DEF Others
<1>2. reg[q].pool \in Int /\ nbpools \in Int /\ q_count \in Int
  BY DEF TypesOK, Regs, Pool
<1>3. q \in Receivers => ~(p \in Receivers)
  BY DEF SingleReceiver
<1>4. reg[q].pool < nbpools => reg[q].pool < nbpools'
  BY <1>2
<1>5. q \in Receivers /\ q_count > 0 => q_count' > 0
  BY <1>2, <1>3
<1> QED  BY <1>1, <1>4, <1>5 DEF PlaceOK

LEMMA OwedSame ==
  ASSUME NEW p \in Proc, Others(p), NEW pool \in Pool, sem'[pool].q = sem[pool].q,
         p \in Owed(pool)' <=> p \in Owed(pool)
  PROVE  Owed(pool)' = Owed(pool)
<1>1. ASSUME NEW q \in Proc, q # p PROVE q \in Owed(pool)' <=> q \in Owed(pool)
  BY <1>1 DEF Others, Owed
<1>2. Owed(pool) \subseteq Proc /\ Owed(pool)' \subseteq Proc
  BY DEF Owed
<1> QED  BY <1>1, <1>2

LEMMA PoolKept ==
  ASSUME NEW pool \in Pool, PoolOK(pool), bpnext'[pool] = bpnext[pool], sem'[pool] = sem[pool],
         FreeOf(pool)' = FreeOf(pool), \A b \in FreeOf(pool) : word'[b] = word[b],
         Owed(pool)' = Owed(pool), pool < nbpools' <=> pool < nbpools
  PROVE  PoolOK(pool)'
<1>1. CASE pool < nbpools
  <2>1. ListOf(bpnext'[pool], word', FreeOf(pool)')
    <3>1. ListOf(bpnext[pool], word, FreeOf(pool))
      BY <1>1 DEF PoolOK
    <3>2. ListOf(bpnext[pool], word', FreeOf(pool))
      BY <3>1, SameList
    <3> QED  BY <3>2
  <2>2. Cardinality(FreeOf(pool)') = sem'[pool].cnt + Len(sem'[pool].q) + Cardinality(Owed(pool)')
    BY <1>1 DEF PoolOK
  <2> QED  BY <1>1, <2>1, <2>2 DEF PoolOK
<1>2. CASE ~(pool < nbpools)
  BY <1>2 DEF PoolOK
<1> QED  BY <1>1, <1>2

-----------------------------------------------------------------------------
LEMMA InitBInv == Init => BInv
<1> SUFFICES ASSUME Init PROVE BInv
  OBVIOUS
<1> USE DEF Init, PoolInit, QueueInit
<1>1. /\ NBPOOLS \in Nat /\ NBPOOLS > 0 /\ NumBufs \in Nat /\ Cardinality(Proc) \in Nat
      /\ 0 \in Pool /\ NULL = 0 /\ MUTEX \notin Pool /\ Most \in Nat
  BY Constants DEF NULL, Most
<1>2. TypesOK
  <2>1. User \in Places
    BY DEF Places
  <2>2. [buf |-> NULL, pool |-> 0, n |-> 0, key |-> 0] \in Regs
    BY <1>1 DEF Regs
  <2>3. 0 \in 0..NBPOOLS /\ 0 \in 0..Most
    BY <1>1
  <2> QED  BY <1>1, <2>1, <2>2, <2>3 DEF TypesOK
<1>3. SemsOK
  <2> DEFINE x(s) == [cnt |-> IF s = MUTEX THEN 1 ELSE 0, q |-> <<>>]
  <2>1. ASSUME NEW s PROVE SemOK(x(s)) /\ ToSet(x(s).q) = {}
    <3>1. <<>> \in Seq(Proc) /\ Len(<<>>) = 0 /\ DOMAIN <<>> = {}
      BY EmptySeq, LenProperties
    <3>2. IsInjective(<<>>) /\ ToSet(<<>>) = {}
      BY <3>1 DEF IsInjective, ToSet
    <3>3. x(s).q = <<>> /\ x(s).cnt \in {0, 1} /\ ~(x(s).cnt < 0)
          /\ x(s) \in [cnt : Int, q : Seq(Proc)]
      BY <3>1
    <3> QED  BY <3>1, <3>2, <3>3 DEF SemOK
  <2>2. \A s \in Pool \cup {MUTEX} : sem[s] = x(s)
    OBVIOUS
  <2>3. sem \in [Pool \cup {MUTEX} -> [cnt : Int, q : Seq(Proc)]]
    BY <2>1 DEF SemOK
  <2> HIDE DEF x
  <2> QED  BY <2>1, <2>2, <2>3 DEF SemsOK
<1>4. \A p \in Proc : reg[p].buf = NULL /\ pc[p] = <<"user">>
  BY DEF User
<1>5. Used \ {NULL} = {}
  BY <1>4 DEF Used, Held, Queued
<1>6. OwnOK
  BY <1>4, <1>5 DEF OwnOK
<1>7. ASSUME NEW p \in Proc PROVE PlaceOK(p)
  <2>1. pc[p][1] = "user" /\ \A op, step : pc[p] # <<op, step>>
    BY <1>4
  <2> QED  BY <2>1 DEF PlaceOK
<1>8. ASSUME NEW pool \in Pool PROVE PoolOK(pool)
  <2>1. ~(pool < nbpools) /\ sem[pool].cnt = 0
    BY <1>1, Constants
  <2> QED  BY <2>1 DEF PoolOK
<1> QED  BY <1>2, <1>3, <1>6, <1>7, <1>8 DEF BInv

(* A step that moves one process and no buffer.                            *)
LEMMA QuietStep ==
  ASSUME BInv, SingleReceiver, NEW p \in Proc, Others(p), PlaceOK(p)', TypesOK', SemsOK',
         UNCHANGED <<nbpools, bpnext, word, queueVars>>,
         \A pool \in Pool : sem'[pool] = sem[pool],
         reg'[p].buf = reg[p].buf, reg'[p].pool = reg[p].pool \/ pc[p][1] \notin {"getbuf", "freebuf"},
         pc'[p][1] \in {"getbuf", "freebuf"} <=> pc[p][1] \in {"getbuf", "freebuf"}
  PROVE  BInv'
<1>1. SameBufs
  BY DEF SameBufs, Others
<1>2. nbpools' = nbpools /\ bpnext' = bpnext /\ word' = word /\ UNCHANGED queueVars /\ q_count' = q_count
  BY DEF queueVars
<1>3. nbpools \in Int /\ q_count \in Int /\ TypesOK
  BY DEF BInv, TypesOK
<1>4. OwnOK'
  BY <1>1, <1>2, <1>3, OwnKept DEF BInv
<1>5. \A q \in Proc : PlaceOK(q)'
  BY <1>2, <1>3, PlacesKept DEF BInv
<1>6. ASSUME NEW pool \in Pool PROVE PoolOK(pool)'
  <2>1. FreeOf(pool)' = FreeOf(pool)
    BY <1>1, <1>2, UsedSame
  <2>2. p \in Owed(pool)' <=> p \in Owed(pool)
    BY DEF Owed
  <2>3. Owed(pool)' = Owed(pool)
    BY <2>2, OwedSame
  <2>4. PoolOK(pool)
    BY DEF BInv
  <2> QED  BY <1>2, <2>1, <2>3, <2>4, PoolKept
<1> QED  BY <1>4, <1>5, <1>6 DEF BInv

LEMMA GetbufCountKeeps ==
  ASSUME BInv, SingleReceiver, NEW p \in Proc, GetbufCount(p), UNCHANGED queueVars
  PROVE  BInv'
<1> DEFINE pool == reg[p].pool
           n    == NumBufs - sem[pool].cnt
<1>1. TypesOK /\ SemsOK /\ PlaceOK(p) /\ pc[p] = <<"getbuf", "count">> /\ reg[p] \in Regs
      /\ \A s \in Pool : p \notin ToSet(sem[s].q)
  BY AtFacts DEF BInv, GetbufCount, TypesOK
<1>2. /\ pc' = [pc EXCEPT ![p] = <<"getbuf", "test">>] /\ reg' = [reg EXCEPT ![p].n = n]
      /\ UNCHANGED <<nbpools, bpnext, word, sem, queueVars, bpmaxused>>
  BY DEF GetbufCount, GoTo, poolVars
<1>3. pool \in Pool /\ pool < nbpools /\ reg[p].buf = NULL
  BY <1>1 DEF PlaceOK, Regs
<1>4. n \in 0..Most
  <2>1. sem[pool].cnt \in Int /\ sem[pool].cnt <= NumBufs /\ sem[pool].cnt >= -Cardinality(Proc)
    BY <1>3, PoolBalance
  <2> QED  BY <2>1, Constants DEF Most
<1> HIDE DEF n
<1>5. pc'[p] = <<"getbuf", "test">> /\ reg'[p].buf = reg[p].buf /\ reg'[p].pool = reg[p].pool
  BY <1>1, <1>2 DEF TypesOK, Regs
<1>6. Others(p)
  BY <1>1, <1>2 DEF Others, TypesOK
<1>7. TypesOK'
  <2>1. <<"getbuf", "test">> \in Places
    BY DEF Places
  <2>2. pc' \in [Proc -> Places] /\ reg' \in [Proc -> Regs]
    BY <1>1, <1>2, <1>4, <2>1 DEF TypesOK, Regs
  <2> QED  BY <1>1, <1>2, <2>2 DEF TypesOK, queueVars
<1>8. SemsOK'
  BY <1>1, <1>2, <1>6, SemsKept
<1>9. PlaceOK(p)'
  BY <1>2, <1>3, <1>5 DEF PlaceOK
<1>10. pc'[p][1] \in {"getbuf", "freebuf"} <=> pc[p][1] \in {"getbuf", "freebuf"}
  BY <1>1, <1>5
<1> QED  BY <1>2, <1>5, <1>6, <1>7, <1>8, <1>9, <1>10, QuietStep

LEMMA GetbufTestKeeps ==
  ASSUME BInv, SingleReceiver, NEW p \in Proc, GetbufTest(p), UNCHANGED queueVars
  PROVE  BInv'
<1>1. TypesOK /\ SemsOK /\ PlaceOK(p) /\ pc[p] = <<"getbuf", "test">> /\ reg[p] \in Regs
      /\ \A s \in Pool : p \notin ToSet(sem[s].q)
  BY AtFacts DEF BInv, GetbufTest, TypesOK
<1>2. PICK step \in {"store", "take"} : pc' = [pc EXCEPT ![p] = <<"getbuf", step>>]
  BY DEF GetbufTest, GoTo
<1>3. UNCHANGED <<nbpools, bpnext, word, sem, reg, queueVars, bpmaxused>>
  BY DEF GetbufTest, poolVars
<1>4. pc'[p] = <<"getbuf", step>> /\ pc'[p][1] = "getbuf" /\ pc[p][1] = "getbuf"
  BY <1>1, <1>2 DEF TypesOK
<1>5. Others(p)
  BY <1>1, <1>2, <1>3 DEF Others, TypesOK
<1>6. TypesOK'
  <2>1. <<"getbuf", step>> \in Places
    BY DEF Places
  <2>2. pc' \in [Proc -> Places]
    BY <1>1, <1>2, <2>1 DEF TypesOK
  <2> QED  BY <1>1, <1>3, <2>2 DEF TypesOK, queueVars
<1>7. SemsOK'
  BY <1>1, <1>3, <1>5, SemsKept
<1>8. PlaceOK(p)'
  BY <1>1, <1>3, <1>4 DEF PlaceOK
<1> QED  BY <1>3, <1>4, <1>5, <1>6, <1>7, <1>8, QuietStep

LEMMA GetbufStoreKeeps ==
  ASSUME BInv, SingleReceiver, NEW p \in Proc, GetbufStore(p), UNCHANGED queueVars
  PROVE  BInv'
<1>1. TypesOK /\ SemsOK /\ PlaceOK(p) /\ pc[p] = <<"getbuf", "store">> /\ reg[p] \in Regs
      /\ \A s \in Pool : p \notin ToSet(sem[s].q)
  BY AtFacts DEF BInv, GetbufStore, TypesOK
<1>2. /\ pc' = [pc EXCEPT ![p] = <<"getbuf", "take">>]
      /\ bpmaxused' = [bpmaxused EXCEPT ![reg[p].pool] = reg[p].n]
      /\ UNCHANGED <<nbpools, bpnext, word, sem, reg, queueVars>>
  BY DEF GetbufStore, GoTo
<1>3. pc'[p] = <<"getbuf", "take">> /\ pc'[p][1] = "getbuf" /\ pc[p][1] = "getbuf"
  BY <1>1, <1>2 DEF TypesOK
<1>4. Others(p)
  BY <1>1, <1>2 DEF Others, TypesOK
<1>5. TypesOK'
  <2>1. <<"getbuf", "take">> \in Places
    BY DEF Places
  <2>2. pc' \in [Proc -> Places] /\ bpmaxused' \in [Pool -> 0..Most]
    BY <1>1, <1>2, <2>1 DEF TypesOK, Regs
  <2> QED  BY <1>1, <1>2, <2>2 DEF TypesOK, queueVars
<1>6. SemsOK'
  BY <1>1, <1>2, <1>4, SemsKept
<1>7. PlaceOK(p)'
  BY <1>1, <1>2, <1>3 DEF PlaceOK
<1> QED  BY <1>2, <1>3, <1>4, <1>5, <1>6, <1>7, QuietStep

LEMMA EnqKeeps ==
  ASSUME BInv, SingleReceiver, NEW p \in Proc, NEW key \in Keys, Enq(p, key)
  PROVE  BInv'
<1>1. TypesOK /\ SemsOK /\ PlaceOK(p) /\ pc[p] = <<"user">> /\ reg[p] \in Regs
      /\ \A s \in Pool : p \notin ToSet(sem[s].q)
  BY AtFacts DEF BInv, Enq, TypesOK, User
<1>2. /\ pc' = [pc EXCEPT ![p] = <<"enq", "enter">>] /\ reg' = [reg EXCEPT ![p].key = key]
      /\ UNCHANGED <<nbpools, bpnext, word, sem, queueVars, bpmaxused>> /\ reg[p].buf # NULL
  BY DEF Enq, GoTo, poolVars
<1>3. key \in Nat
  BY Constants
<1>4. /\ pc'[p] = <<"enq", "enter">> /\ pc'[p][1] = "enq" /\ pc[p][1] = "user"
      /\ reg'[p].buf = reg[p].buf
  BY <1>1, <1>2 DEF TypesOK, Regs
<1>5. Others(p)
  BY <1>1, <1>2 DEF Others, TypesOK
<1>6. TypesOK'
  <2>1. <<"enq", "enter">> \in Places
    BY DEF Places
  <2>2. pc' \in [Proc -> Places] /\ reg' \in [Proc -> Regs]
    BY <1>1, <1>2, <1>3, <2>1 DEF TypesOK, Regs
  <2> QED  BY <1>1, <1>2, <2>2 DEF TypesOK, queueVars
<1>7. SemsOK'
  BY <1>1, <1>2, <1>5, SemsKept
<1>8. PlaceOK(p)'
  BY <1>2, <1>4 DEF PlaceOK
<1> QED  BY <1>2, <1>4, <1>5, <1>6, <1>7, <1>8, QuietStep

LEMMA DeqKeeps ==
  ASSUME BInv, SingleReceiver, NEW p \in Receivers, Deq(p)
  PROVE  BInv'
<1>1. TypesOK /\ SemsOK /\ PlaceOK(p) /\ pc[p] = <<"user">> /\ reg[p] \in Regs /\ p \in Proc
      /\ \A s \in Pool : p \notin ToSet(sem[s].q)
  BY AtFacts, Constants DEF BInv, Deq, TypesOK, User
<1>2. /\ pc' = [pc EXCEPT ![p] = <<"deq", "enter">>]
      /\ UNCHANGED <<nbpools, bpnext, word, sem, reg, queueVars, bpmaxused>>
      /\ reg[p].buf = NULL /\ q_count > 0
  BY DEF Deq, GoTo, poolVars
<1>3. pc'[p] = <<"deq", "enter">> /\ pc'[p][1] = "deq" /\ pc[p][1] = "user"
  BY <1>1, <1>2 DEF TypesOK
<1>4. Others(p)
  BY <1>1, <1>2 DEF Others, TypesOK
<1>5. TypesOK'
  <2>1. <<"deq", "enter">> \in Places
    BY DEF Places
  <2>2. pc' \in [Proc -> Places]
    BY <1>1, <1>2, <2>1 DEF TypesOK
  <2> QED  BY <1>1, <1>2, <2>2 DEF TypesOK, queueVars
<1>6. SemsOK'
  BY <1>1, <1>2, <1>4, SemsKept
<1>7. PlaceOK(p)'
  BY <1>2, <1>3 DEF PlaceOK, queueVars
<1> QED  BY <1>1, <1>2, <1>3, <1>4, <1>5, <1>6, <1>7, QuietStep

(* Waiting for the mutex and giving it back change no pool's semaphore.    *)
LEMMA MutexSems ==
  ASSUME SemsOK, NEW p \in Proc, Others(p), \A pool \in Pool : p \notin ToSet(sem[pool].q),
         NEW y, SemOK(y), sem' = [sem EXCEPT ![MUTEX] = y]
  PROVE  SemsOK' /\ \A pool \in Pool : sem'[pool] = sem[pool]
<1>1. /\ sem \in [Pool \cup {MUTEX} -> [cnt : Int, q : Seq(Proc)]]
      /\ \A s \in Pool \cup {MUTEX} : SemOK(sem[s])
      /\ y \in [cnt : Int, q : Seq(Proc)]
  BY DEF SemsOK, SemOK
<1>2. \A pool \in Pool : sem'[pool] = sem[pool]
  BY <1>1, Constants
<1>3. /\ sem' \in [Pool \cup {MUTEX} -> [cnt : Int, q : Seq(Proc)]]
      /\ \A s \in Pool \cup {MUTEX} : SemOK(sem'[s])
  <2>1. sem' \in [Pool \cup {MUTEX} -> [cnt : Int, q : Seq(Proc)]]
    BY <1>1
  <2>2. \A s \in Pool \cup {MUTEX} : sem'[s] = sem[s] \/ sem'[s] = y
    BY <1>1
  <2> QED  BY <1>1, <2>1, <2>2
<1>4. ASSUME NEW pool \in Pool, NEW q \in ToSet(sem'[pool].q)
      PROVE  pc'[q] = <<"getbuf", "count">> /\ reg'[q].pool = pool
  <2>1. q \in ToSet(sem[pool].q) /\ SemOK(sem[pool])
    BY <1>1, <1>2
  <2>2. q \in Proc /\ q # p
    BY <2>1, InQueue
  <2> QED  BY <2>1, <2>2 DEF SemsOK, Others
<1> QED  BY <1>2, <1>3, <1>4 DEF SemsOK

LEMMA AcquireKeeps ==
  ASSUME BInv, SingleReceiver, NEW p \in Proc, NEW op \in {"enq", "deq"}, Acquire(p, op)
  PROVE  BInv'
<1>1. TypesOK /\ SemsOK /\ PlaceOK(p) /\ pc[p] = <<op, "enter">> /\ reg[p] \in Regs
      /\ \A s \in Pool \cup {MUTEX} : SemOK(sem[s]) /\ p \notin ToSet(sem[s].q)
  BY AtFacts DEF BInv, Acquire, TypesOK
<1>2. /\ pc' = [pc EXCEPT ![p] = <<op, "body">>] /\ Waits(MUTEX, p)
      /\ UNCHANGED <<nbpools, bpnext, word, reg, queueVars, bpmaxused>>
  BY DEF Acquire, GoTo, poolVars
<1>3. pc'[p] = <<op, "body">> /\ pc'[p][1] = op /\ pc[p][1] = op /\ reg'[p] = reg[p]
  BY <1>1, <1>2 DEF TypesOK
<1>4. Others(p)
  BY <1>1, <1>2 DEF Others, TypesOK
<1>5. TypesOK'
  <2>1. <<op, "body">> \in Places
    BY DEF Places
  <2>2. pc' \in [Proc -> Places]
    BY <1>1, <1>2, <2>1 DEF TypesOK
  <2> QED  BY <1>1, <1>2, <2>2 DEF TypesOK, queueVars
<1>6. SemsOK' /\ \A pool \in Pool : sem'[pool] = sem[pool]
  <2>1. PICK x : x = sem[MUTEX]
    OBVIOUS
  <2>2. PICK y : y = [cnt |-> x.cnt - 1, q |-> IF x.cnt > 0 THEN x.q ELSE Append(x.q, p)]
    OBVIOUS
  <2>3. SemOK(y)
    BY <1>1, <2>1, <2>2, WaitKeeps
  <2>4. sem' = [sem EXCEPT ![MUTEX] = y]
    BY <1>2, <2>1, <2>2 DEF Waits
  <2> QED  BY <1>1, <1>4, <2>3, <2>4, MutexSems
<1>7. PlaceOK(p)'
  BY <1>1, <1>2, <1>3 DEF PlaceOK, queueVars
<1> QED  BY <1>2, <1>3, <1>4, <1>5, <1>6, <1>7, QuietStep

LEMMA ReleaseKeeps ==
  ASSUME BInv, SingleReceiver, NEW p \in Proc, NEW op \in {"enq", "deq"}, Release(p, op)
  PROVE  BInv'
<1>1. TypesOK /\ SemsOK /\ PlaceOK(p) /\ pc[p] = <<op, "unlock">> /\ reg[p] \in Regs
      /\ \A s \in Pool \cup {MUTEX} : SemOK(sem[s]) /\ p \notin ToSet(sem[s].q)
  BY AtFacts DEF BInv, Release, TypesOK
<1>2. /\ pc' = [pc EXCEPT ![p] = <<"user">>] /\ Signals(MUTEX)
      /\ UNCHANGED <<nbpools, bpnext, word, reg, queueVars, bpmaxused>>
  BY DEF Release, GoTo, poolVars, User
<1>3. pc'[p] = <<"user">> /\ pc'[p][1] = "user" /\ pc[p][1] = op /\ reg'[p] = reg[p]
  BY <1>1, <1>2 DEF TypesOK
<1>4. Others(p)
  BY <1>1, <1>2 DEF Others, TypesOK
<1>5. TypesOK'
  <2>1. <<"user">> \in Places
    BY DEF Places, User
  <2>2. pc' \in [Proc -> Places]
    BY <1>1, <1>2, <2>1 DEF TypesOK
  <2> QED  BY <1>1, <1>2, <2>2 DEF TypesOK, queueVars
<1>6. SemsOK' /\ \A pool \in Pool : sem'[pool] = sem[pool]
  <2>1. PICK x : x = sem[MUTEX]
    OBVIOUS
  <2>2. PICK y : y = [cnt |-> x.cnt + 1, q |-> IF x.cnt < 0 THEN Tail(x.q) ELSE x.q]
    OBVIOUS
  <2>3. SemOK(y)
    BY <1>1, <2>1, <2>2, SignalKeeps
  <2>4. sem' = [sem EXCEPT ![MUTEX] = y]
    BY <1>2, <2>1, <2>2 DEF Signals
  <2> QED  BY <1>1, <1>4, <2>3, <2>4, MutexSems
<1>7. PlaceOK(p)'
  BY <1>3 DEF PlaceOK
<1> QED  BY <1>2, <1>3, <1>4, <1>5, <1>6, <1>7, QuietStep

-----------------------------------------------------------------------------
(* Steps that change the semaphore of a pool.                              *)
LEMMA PoolSems ==
  ASSUME SemsOK, NEW p \in Proc, Others(p), \A s \in Pool : p \notin ToSet(sem[s].q),
         NEW pool \in Pool, NEW y, SemOK(y), sem' = [sem EXCEPT ![pool] = y],
         \A q \in ToSet(y.q) : \/ q \in ToSet(sem[pool].q)
                               \/ q = p /\ pc'[p] = <<"getbuf", "count">> /\ reg'[p].pool = pool
  PROVE  SemsOK' /\ sem'[pool] = y /\ \A s \in Pool : s # pool => sem'[s] = sem[s]
<1>1. /\ sem \in [Pool \cup {MUTEX} -> [cnt : Int, q : Seq(Proc)]]
      /\ \A s \in Pool \cup {MUTEX} : SemOK(sem[s])
      /\ y \in [cnt : Int, q : Seq(Proc)]
  BY DEF SemsOK, SemOK
<1>2. sem'[pool] = y /\ \A s \in Pool \cup {MUTEX} : s # pool => sem'[s] = sem[s]
  BY <1>1
<1>3. /\ sem' \in [Pool \cup {MUTEX} -> [cnt : Int, q : Seq(Proc)]]
      /\ \A s \in Pool \cup {MUTEX} : SemOK(sem'[s])
  <2>1. sem' \in [Pool \cup {MUTEX} -> [cnt : Int, q : Seq(Proc)]]
    BY <1>1
  <2>2. \A s \in Pool \cup {MUTEX} : sem'[s] = sem[s] \/ sem'[s] = y
    BY <1>2
  <2> QED  BY <1>1, <2>1, <2>2
<1>4. ASSUME NEW s \in Pool, NEW q \in ToSet(sem[s].q)
      PROVE  pc'[q] = <<"getbuf", "count">> /\ reg'[q].pool = s
  <2>1. q \in Proc /\ q # p
    BY <1>1, InQueue
  <2> QED  BY <2>1 DEF SemsOK, Others
<1>5. ASSUME NEW s \in Pool, NEW q \in ToSet(sem'[s].q)
      PROVE  pc'[q] = <<"getbuf", "count">> /\ reg'[q].pool = s
  BY <1>2, <1>4
<1> QED  BY <1>2, <1>3, <1>5 DEF SemsOK

LEMMA OwedMoves ==
  ASSUME NEW p \in Proc, Others(p), NEW pool \in Pool,
         NEW q \in Proc, q # p, q \in ToSet(sem'[pool].q) <=> q \in ToSet(sem[pool].q)
  PROVE  q \in Owed(pool)' <=> q \in Owed(pool)
BY DEF Owed, Others

LEMMA OtherPool ==
  ASSUME BInv, NEW p \in Proc, Others(p), NEW r \in Pool,
         p \notin Owed(r), p \notin Owed(r)', bpnext'[r] = bpnext[r], sem'[r] = sem[r],
         FreeOf(r)' = FreeOf(r), \A b \in FreeOf(r) : word'[b] = word[b],
         r < nbpools' <=> r < nbpools
  PROVE  PoolOK(r)'
<1>1. Owed(r)' = Owed(r)
  BY OwedSame
<1>2. PoolOK(r)
  BY DEF BInv
<1> QED  BY <1>1, <1>2, PoolKept

LEMMA OneMore ==
  ASSUME NEW S, NEW x, IsFiniteSet(S)
  PROVE  /\ x \notin S => Cardinality(S \cup {x}) = Cardinality(S) + 1
         /\ x \in S => Cardinality(S \ {x}) = Cardinality(S) - 1
         /\ IsFiniteSet(S \ {x})
BY FS_AddElement, FS_RemoveElement

LEMMA Traded ==
  ASSUME NEW a \in Int, NEW n \in Nat
  PROVE  (a - 1) + (n + 1) = a + n /\ (a + 1) + (n - 1) = a + n
OBVIOUS

LEMMA GetbufKeeps ==
  ASSUME BInv, SingleReceiver, NEW p \in Proc, NEW pool \in Pool, Getbuf(p, pool), UNCHANGED queueVars
  PROVE  BInv'
<1>1. TypesOK /\ SemsOK /\ PlaceOK(p) /\ pc[p] = <<"user">> /\ reg[p] \in Regs
      /\ \A s \in Pool \cup {MUTEX} : SemOK(sem[s]) /\ p \notin ToSet(sem[s].q)
  BY AtFacts DEF BInv, Getbuf, TypesOK, User
<1>2. /\ pc' = [pc EXCEPT ![p] = <<"getbuf", "count">>] /\ Waits(pool, p)
      /\ reg' = [reg EXCEPT ![p].pool = pool]
      /\ UNCHANGED <<nbpools, bpnext, word, queueVars, bpmaxused>>
      /\ reg[p].buf = NULL /\ pool < nbpools
  BY DEF Getbuf, GoTo, poolVars
<1>3. /\ pc'[p] = <<"getbuf", "count">> /\ pc'[p][1] = "getbuf" /\ pc[p][1] = "user"
      /\ reg'[p].buf = reg[p].buf /\ reg'[p].pool = pool
  BY <1>1, <1>2 DEF TypesOK, Regs
<1>4. Others(p)
  BY <1>1, <1>2 DEF Others, TypesOK
<1>5. TypesOK'
  <2>1. <<"getbuf", "count">> \in Places
    BY DEF Places
  <2>2. pc' \in [Proc -> Places] /\ reg' \in [Proc -> Regs]
    BY <1>1, <1>2, <2>1 DEF TypesOK, Regs
  <2> QED  BY <1>1, <1>2, <2>2 DEF TypesOK, queueVars
<1>6. PICK x : x = sem[pool]
  OBVIOUS
<1>7. PICK y : y = [cnt |-> x.cnt - 1, q |-> IF x.cnt > 0 THEN x.q ELSE Append(x.q, p)]
  OBVIOUS
<1>8. /\ SemOK(x) /\ SemOK(y)
      /\ x.cnt > 0 => /\ y.cnt + Len(y.q) = x.cnt + Len(x.q) - 1
                      /\ ToSet(y.q) = ToSet(x.q)
      /\ ~(x.cnt > 0) => /\ y.cnt + Len(y.q) = x.cnt + Len(x.q)
                         /\ ToSet(y.q) = ToSet(x.q) \cup {p}
  <2>1. SemOK(x) /\ p \notin ToSet(x.q)
    BY <1>1, <1>6
  <2>2. SemOK(y)
    BY <1>7, <2>1, WaitKeeps
  <2>3. x.cnt > 0 => /\ y.cnt + Len(y.q) = x.cnt + Len(x.q) - 1
                     /\ ToSet(y.q) = ToSet(x.q)
    BY <1>7, <2>1, WaitKeeps
  <2>4. ~(x.cnt > 0) => /\ y.cnt + Len(y.q) = x.cnt + Len(x.q)
                        /\ ToSet(y.q) = ToSet(x.q) \cup {p}
    <3>1. ~(x.cnt > 0) => y.cnt + Len(y.q) = x.cnt + Len(x.q)
      BY <1>7, <2>1, WaitKeeps
    <3>2. ~(x.cnt > 0) => ToSet(y.q) = ToSet(x.q) \cup {p}
      BY <1>7, <2>1, WaitJoins
    <3> QED  BY <3>1, <3>2
  <2> QED  BY <2>1, <2>2, <2>3, <2>4
<1>9. SemsOK' /\ sem'[pool] = y /\ \A s \in Pool : s # pool => sem'[s] = sem[s]
  <2>1. sem' = [sem EXCEPT ![pool] = y]
    BY <1>2, <1>6, <1>7 DEF Waits
  <2>2. \A q \in ToSet(y.q) : q \in ToSet(sem[pool].q) \/ q = p
    BY <1>6, <1>8
  <2> QED  BY <1>1, <1>3, <1>4, <1>8, <2>1, <2>2, PoolSems, ZenonT(30)
<1>10. SameBufs /\ nbpools' = nbpools /\ nbpools \in Int /\ UNCHANGED queueVars
       /\ q_count' = q_count /\ q_count \in Int
  BY <1>1, <1>2, <1>3, <1>4 DEF SameBufs, Others, queueVars, TypesOK
<1>11. OwnOK'
  BY <1>2, <1>10, OwnKept DEF BInv
<1>12. PlaceOK(p)'
  BY <1>2, <1>3 DEF PlaceOK
<1>13. \A q \in Proc : PlaceOK(q)'
  BY <1>1, <1>4, <1>10, <1>12, PlacesKept DEF BInv
<1>14. \A r \in Pool : FreeOf(r)' = FreeOf(r)
  BY <1>10, UsedSame
<1>15. ASSUME NEW r \in Pool, r # pool PROVE PoolOK(r)'
  <2>1. p \notin Owed(r) /\ p \notin Owed(r)'
    BY <1>3, <1>15 DEF Owed
  <2> QED  BY <1>2, <1>4, <1>9, <1>14, <1>15, <2>1, OtherPool
<1>16. PoolOK(pool)'
  <2>1. Cardinality(FreeOf(pool)) = x.cnt + Len(x.q) + Cardinality(Owed(pool))
        /\ ListOf(bpnext[pool], word, FreeOf(pool))
    BY <1>2, <1>6, PoolBalance
  <2>2. IsFiniteSet(Owed(pool)) /\ Cardinality(Owed(pool)) \in Nat
    BY PoolCounts
  <2>3. p \notin Owed(pool)
    BY <1>3 DEF Owed
  <2>4. ASSUME NEW q \in Proc, q # p PROVE q \in Owed(pool)' <=> q \in Owed(pool)
    <3>1. q \in ToSet(sem'[pool].q) <=> q \in ToSet(sem[pool].q)
      BY <1>6, <1>8, <1>9, <2>4
    <3> QED  BY <1>4, <2>4, <3>1, OwedMoves
  <2>5. p \in Owed(pool)' <=> p \notin ToSet(y.q)
    BY <1>3, <1>9 DEF Owed
  <2>6. Owed(pool) \subseteq Proc /\ Owed(pool)' \subseteq Proc
    BY DEF Owed
  <2>7. /\ x.cnt \in Int /\ y.cnt \in Int /\ Len(x.q) \in Nat /\ Len(y.q) \in Nat
    BY <1>8, SemFacts
  <2>8. Cardinality(FreeOf(pool)) = y.cnt + Len(y.q) + Cardinality(Owed(pool)')
    <3>1. CASE x.cnt > 0
      <4>1. p \in Owed(pool)'
        BY <1>1, <1>6, <1>8, <2>5, <3>1
      <4>2. Owed(pool)' = Owed(pool) \cup {p}
        BY <2>4, <2>6, <4>1
      <4>3. Cardinality(Owed(pool)') = Cardinality(Owed(pool)) + 1
        BY <2>2, <2>3, <4>2, OneMore
      <4>4. y.cnt + Len(y.q) = x.cnt + Len(x.q) - 1
        BY <1>8, <3>1
      <4>5. PICK a, n : a = x.cnt + Len(x.q) /\ n = Cardinality(Owed(pool))
        OBVIOUS
      <4>6. a \in Int /\ n \in Nat
        BY <2>2, <2>7, <4>5
      <4>7. Cardinality(FreeOf(pool)) = a + n
        BY <2>1, <4>5
      <4>8. y.cnt + Len(y.q) = a - 1
        BY <2>7, <4>4, <4>5
      <4>9. Cardinality(Owed(pool)') = n + 1
        BY <4>3, <4>5
      <4> QED  BY <4>6, <4>7, <4>8, <4>9, Traded
    <3>2. CASE ~(x.cnt > 0)
      <4>1. p \notin Owed(pool)'
        BY <1>8, <2>5, <3>2
      <4>2. Owed(pool)' = Owed(pool)
        BY <2>3, <2>4, <2>6, <4>1
      <4> QED  BY <1>8, <2>1, <3>2, <4>2
    <3> QED  BY <3>1, <3>2
  <2> QED  BY <1>2, <1>9, <1>14, <2>1, <2>8 DEF PoolOK
<1> QED  BY <1>5, <1>9, <1>11, <1>13, <1>15, <1>16 DEF BInv

LEMMA FreebufSignalKeeps ==
  ASSUME BInv, SingleReceiver, NEW p \in Proc, FreebufSignal(p), UNCHANGED queueVars
  PROVE  BInv'
<1>1. TypesOK /\ SemsOK /\ PlaceOK(p) /\ pc[p] = <<"freebuf", "signal">> /\ reg[p] \in Regs
      /\ \A s \in Pool \cup {MUTEX} : SemOK(sem[s]) /\ p \notin ToSet(sem[s].q)
  BY AtFacts DEF BInv, FreebufSignal, TypesOK
<1>2. PICK pool : pool = reg[p].pool
  OBVIOUS
<1>3. pool \in Pool /\ pool < nbpools
  BY <1>1, <1>2 DEF PlaceOK, Regs
<1>4. /\ pc' = [pc EXCEPT ![p] = <<"user">>] /\ Signals(pool)
      /\ reg' = [reg EXCEPT ![p].pool = 0]
      /\ UNCHANGED <<nbpools, bpnext, word, queueVars, bpmaxused>>
  BY <1>2 DEF FreebufSignal, GoTo, poolVars, User
<1>5. /\ pc'[p] = <<"user">> /\ pc'[p][1] = "user" /\ pc[p][1] = "freebuf"
      /\ reg'[p].buf = reg[p].buf
  BY <1>1, <1>4 DEF TypesOK, Regs
<1>6. Others(p)
  BY <1>1, <1>4 DEF Others, TypesOK
<1>7. TypesOK'
  <2>1. <<"user">> \in Places /\ 0 \in Pool
    BY Constants DEF Places, User, NULL
  <2>2. pc' \in [Proc -> Places] /\ reg' \in [Proc -> Regs]
    BY <1>1, <1>4, <2>1 DEF TypesOK, Regs
  <2> QED  BY <1>1, <1>4, <2>2 DEF TypesOK, queueVars
<1>8. PICK x : x = sem[pool]
  OBVIOUS
<1>9. PICK y : y = [cnt |-> x.cnt + 1, q |-> IF x.cnt < 0 THEN Tail(x.q) ELSE x.q]
  OBVIOUS
<1>10. /\ SemOK(x) /\ SemOK(y)
       /\ x.cnt < 0 => /\ y.cnt + Len(y.q) = x.cnt + Len(x.q)
                       /\ Head(x.q) \in ToSet(x.q) /\ ToSet(y.q) = ToSet(x.q) \ {Head(x.q)}
       /\ ~(x.cnt < 0) => /\ y.cnt + Len(y.q) = x.cnt + Len(x.q) + 1
                          /\ ToSet(y.q) = ToSet(x.q)
  BY <1>1, <1>3, <1>8, <1>9, SignalKeeps
<1>11. SemsOK' /\ sem'[pool] = y /\ \A s \in Pool : s # pool => sem'[s] = sem[s]
  <2>1. sem' = [sem EXCEPT ![pool] = y]
    BY <1>4, <1>8, <1>9 DEF Signals
  <2>2. \A q \in ToSet(y.q) : q \in ToSet(sem[pool].q)
    BY <1>8, <1>10
  <2> QED  BY <1>1, <1>3, <1>6, <1>10, <2>1, <2>2, PoolSems
<1>12. SameBufs /\ nbpools' = nbpools /\ nbpools \in Int /\ UNCHANGED queueVars
       /\ q_count' = q_count /\ q_count \in Int
  BY <1>1, <1>4, <1>5, <1>6 DEF SameBufs, Others, queueVars, TypesOK
<1>13. OwnOK'
  BY <1>4, <1>12, OwnKept DEF BInv
<1>14. PlaceOK(p)'
  BY <1>5 DEF PlaceOK
<1>15. \A q \in Proc : PlaceOK(q)'
  BY <1>1, <1>6, <1>12, <1>14, PlacesKept DEF BInv
<1>16. \A r \in Pool : FreeOf(r)' = FreeOf(r)
  BY <1>12, UsedSame
<1>17. ASSUME NEW r \in Pool, r # pool PROVE PoolOK(r)'
  <2>1. p \notin Owed(r) /\ p \notin Owed(r)'
    BY <1>2, <1>5, <1>17 DEF Owed
  <2> QED  BY <1>4, <1>6, <1>11, <1>16, <1>17, <2>1, OtherPool
<1>18. PoolOK(pool)'
  <2>1. Cardinality(FreeOf(pool)) = x.cnt + Len(x.q) + Cardinality(Owed(pool))
        /\ ListOf(bpnext[pool], word, FreeOf(pool))
    BY <1>3, <1>8, PoolBalance
  <2>2. IsFiniteSet(Owed(pool)) /\ Cardinality(Owed(pool)) \in Nat
    BY <1>3, PoolCounts
  <2>3. p \in Owed(pool) /\ p \notin Owed(pool)'
    BY <1>1, <1>2, <1>3, <1>5 DEF Owed
  <2>4. IsFiniteSet(Owed(pool) \ {p}) /\ Cardinality(Owed(pool) \ {p}) = Cardinality(Owed(pool)) - 1
    BY <2>2, <2>3, OneMore
  <2>5. Owed(pool) \subseteq Proc /\ Owed(pool)' \subseteq Proc
    BY DEF Owed
  <2>6. /\ x.cnt \in Int /\ y.cnt \in Int /\ Len(x.q) \in Nat /\ Len(y.q) \in Nat
    BY <1>10, SemFacts
  <2>7. Cardinality(FreeOf(pool)) = y.cnt + Len(y.q) + Cardinality(Owed(pool)')
    <3>1. CASE x.cnt < 0
      <4>1. PICK h : h = Head(x.q)
        OBVIOUS
      <4>2. h \in ToSet(x.q) /\ ToSet(y.q) = ToSet(x.q) \ {h}
        BY <1>10, <3>1, <4>1
      <4>3. h \in Proc /\ h # p /\ pc[h] = <<"getbuf", "count">> /\ reg[h].pool = pool
        BY <1>1, <1>3, <1>8, <1>10, <4>2, InQueue DEF SemsOK
      <4>4. h \notin Owed(pool) /\ h \in Owed(pool)'
        <5>1. pc'[h] = <<"getbuf", "count">> /\ reg'[h].pool = pool
          BY <1>6, <4>3 DEF Others
        <5>2. h \notin ToSet(sem'[pool].q)
          BY <1>11, <4>2
        <5> QED  BY <1>8, <4>2, <4>3, <5>1, <5>2 DEF Owed
      <4>5. ASSUME NEW q \in Proc, q # p, q # h PROVE q \in Owed(pool)' <=> q \in Owed(pool)
        <5>1. q \in ToSet(sem'[pool].q) <=> q \in ToSet(sem[pool].q)
          BY <1>8, <1>11, <4>2, <4>5
        <5> QED  BY <1>3, <1>6, <4>5, <5>1, OwedMoves
      <4>6. Owed(pool)' = (Owed(pool) \ {p}) \cup {h}
        BY <2>3, <2>5, <4>3, <4>4, <4>5
      <4>7. Cardinality(Owed(pool)') = Cardinality(Owed(pool) \ {p}) + 1
        BY <2>4, <4>4, <4>6, OneMore
      <4>8. y.cnt + Len(y.q) = x.cnt + Len(x.q)
        BY <1>10, <3>1
      <4> QED  BY <2>1, <2>2, <2>4, <2>6, <4>7, <4>8
    <3>2. CASE ~(x.cnt < 0)
      <4>1. ASSUME NEW q \in Proc, q # p PROVE q \in Owed(pool)' <=> q \in Owed(pool)
        <5>1. q \in ToSet(sem'[pool].q) <=> q \in ToSet(sem[pool].q)
          BY <1>8, <1>10, <1>11, <3>2
        <5> QED  BY <1>3, <1>6, <4>1, <5>1, OwedMoves
      <4>2. Owed(pool)' = Owed(pool) \ {p}
        BY <2>3, <2>5, <4>1
      <4>3. y.cnt + Len(y.q) = x.cnt + Len(x.q) + 1
        BY <1>10, <3>2
      <4>4. x.cnt + Len(x.q) \in Int
        BY <2>6
      <4> QED  BY <2>1, <2>2, <2>4, <4>2, <4>3, <4>4, Traded
    <3> QED  BY <3>1, <3>2
  <2>8. pool < nbpools' /\ bpnext'[pool] = bpnext[pool] /\ word' = word
    BY <1>3, <1>4
  <2> QED  BY <1>3, <1>11, <1>16, <2>1, <2>7, <2>8 DEF PoolOK
<1> QED  BY <1>7, <1>11, <1>13, <1>15, <1>17, <1>18 DEF BInv

-----------------------------------------------------------------------------
(* Steps that take a buffer from its pool's list or put it back.           *)
LEMMA UsedGrows ==
  ASSUME NEW p \in Proc, Others(p), NEW b, reg[p].buf = NULL, reg'[p].buf = b,
         UNCHANGED queueVars
  PROVE  \A z : z # NULL => /\ z \in Held' <=> z \in Held \/ z = b
                            /\ z \in Used' <=> z \in Used \/ z = b
<1>1. Queued' = Queued
  BY DEF queueVars, Queued
<1>2. ASSUME NEW z, z # NULL PROVE z \in Held' <=> z \in Held \/ z = b
  <2>1. ASSUME z \in Held' PROVE z \in Held \/ z = b
    <3>1. PICK q \in Proc : z = reg'[q].buf
      BY <2>1 DEF Held
    <3> QED  BY <3>1 DEF Others, Held
  <2>2. ASSUME z \in Held PROVE z \in Held'
    <3>1. PICK q \in Proc : z = reg[q].buf
      BY <2>2 DEF Held
    <3>2. q # p
      BY <1>2, <3>1
    <3> QED  BY <3>1, <3>2 DEF Others, Held
  <2>3. b \in Held'
    BY DEF Held
  <2> QED  BY <2>1, <2>2, <2>3
<1> QED  BY <1>1, <1>2 DEF Used

LEMMA UsedShrinks ==
  ASSUME OwnOK, NEW p \in Proc, Others(p), NEW b, b # NULL, reg[p].buf = b, reg'[p].buf = NULL
  PROVE  \A z : z # NULL => (z \in Held' <=> z \in Held /\ z # b)
<1> SUFFICES ASSUME NEW z, z # NULL PROVE z \in Held' <=> z \in Held /\ z # b
  OBVIOUS
<1>1. ASSUME z \in Held' PROVE z \in Held /\ z # b
  <2>1. PICK q \in Proc : z = reg'[q].buf
    BY <1>1 DEF Held
  <2>2. q # p /\ z = reg[q].buf
    BY <2>1 DEF Others
  <2> QED  BY <2>2 DEF Held, OwnOK
<1>2. ASSUME z \in Held, z # b PROVE z \in Held'
  <2>1. PICK q \in Proc : z = reg[q].buf
    BY <1>2 DEF Held
  <2>2. q # p
    BY <1>2, <2>1
  <2> QED  BY <2>1, <2>2 DEF Others, Held
<1> QED  BY <1>1, <1>2

LEMMA TakenBuffer ==
  ASSUME BInv, NEW p \in Proc, NEW pool \in Pool, pool < nbpools, FreeOf(pool) # {},
         reg[p].buf = NULL, Taken(p, pool), Others(p), UNCHANGED <<nbpools, queueVars>>,
         NEW b, b = bpnext[pool]
  PROVE  /\ b \in FreeOf(pool) /\ b \in Buf /\ reg'[p].buf = b
         /\ bpnext' \in [Pool -> Buf \cup {NULL}] /\ word' \in [Buf -> Int] /\ reg' \in [Proc -> Regs]
         /\ OwnOK'
         /\ FreeOf(pool)' = FreeOf(pool) \ {b} /\ ListOf(bpnext'[pool], word', FreeOf(pool)')
         /\ \A r \in Pool : r # pool => /\ FreeOf(r)' = FreeOf(r) /\ bpnext'[r] = bpnext[r]
                                        /\ \A c \in FreeOf(r) : word'[c] = word[c]
<1>1. TypesOK /\ OwnOK /\ UNCHANGED queueVars /\ nbpools' = nbpools
  BY DEF BInv
<1>2. ListOf(bpnext[pool], word, FreeOf(pool))
  BY PoolBalance
<1>3. /\ b \in FreeOf(pool) /\ b \in Buf /\ word[b] \in Buf \cup {NULL}
      /\ \A w2 : (\A c \in FreeOf(pool) \ {b} : w2[c] = word[c])
                    => ListOf(word[b], w2, FreeOf(pool) \ {b})
  BY <1>2, ListTaken
<1>4. b # NULL /\ b \in BufsOf(pool) /\ b \notin Used /\ b \notin Held /\ b \notin Queued
  BY <1>3, BufferFacts DEF FreeOf, Used
<1>5. /\ reg' = [reg EXCEPT ![p].buf = b, ![p].pool = 0, ![p].n = 0]
      /\ bpnext' = [bpnext EXCEPT ![pool] = word[b]]
      /\ word' = [c \in Buf |-> IF c = b THEN pool ELSE word[c]]
  <2>1. bpnext[pool] # NULL
    BY <1>4
  <2> QED  BY <2>1 DEF Taken
<1>6. reg'[p].buf = b /\ bpnext'[pool] = word[b] /\ word'[b] = pool
      /\ \A c \in Buf : c # b => word'[c] = word[c]
  BY <1>1, <1>3, <1>5 DEF TypesOK, Regs
<1>7. bpnext' \in [Pool -> Buf \cup {NULL}] /\ word' \in [Buf -> Int] /\ reg' \in [Proc -> Regs]
  <2>1. 0 \in Pool /\ 0 \in 0..Most /\ pool \in Int
    BY Constants DEF NULL, Most
  <2>2. bpnext' \in [Pool -> Buf \cup {NULL}]
    BY <1>1, <1>3, <1>5 DEF TypesOK
  <2>3. word' \in [Buf -> Int]
    BY <1>1, <1>5, <2>1 DEF TypesOK
  <2>4. reg' \in [Proc -> Regs]
    <3>1. PICK r1 : r1 = [reg EXCEPT ![p].buf = b]
      OBVIOUS
    <3>2. r1 \in [Proc -> Regs]
      BY <1>1, <1>3, <3>1 DEF TypesOK, Regs
    <3>3. PICK r2 : r2 = [r1 EXCEPT ![p].pool = 0]
      OBVIOUS
    <3>4. r2 \in [Proc -> Regs]
      BY <2>1, <3>2, <3>3 DEF Regs
    <3>5. reg' = [r2 EXCEPT ![p].n = 0]
      BY <1>5, <3>1, <3>3
    <3> QED  BY <2>1, <3>4, <3>5 DEF Regs
  <2> QED  BY <2>2, <2>3, <2>4
<1>8. \A z : z # NULL => /\ z \in Held' <=> z \in Held \/ z = b
                         /\ z \in Used' <=> z \in Used \/ z = b
  BY <1>1, <1>6, UsedGrows
<1>9. ASSUME NEW r \in Pool PROVE FreeOf(r)' = FreeOf(r) \ {b}
  <2>1. \A c \in BufsOf(r) : c # NULL
    BY BufferFacts
  <2> QED  BY <1>8, <2>1 DEF FreeOf
<1>10. ListOf(bpnext'[pool], word', FreeOf(pool)')
  <2>1. \A c \in FreeOf(pool) \ {b} : word'[c] = word[c]
    BY <1>6, BufferFacts DEF FreeOf
  <2>2. ListOf(word[b], word', FreeOf(pool) \ {b})
    BY <1>3, <2>1
  <2> QED  BY <1>6, <1>9, <2>2
<1>11. ASSUME NEW r \in Pool, r # pool
       PROVE  /\ FreeOf(r)' = FreeOf(r) /\ bpnext'[r] = bpnext[r]
              /\ \A c \in FreeOf(r) : word'[c] = word[c]
  <2>1. b \notin BufsOf(r)
    BY <1>4, <1>11, PoolsApart
  <2>2. FreeOf(r)' = FreeOf(r) /\ \A c \in FreeOf(r) : c # b /\ c \in Buf
    BY <1>9, <2>1, BufferFacts DEF FreeOf
  <2>3. bpnext'[r] = bpnext[r]
    BY <1>1, <1>5, <1>11 DEF TypesOK
  <2> QED  BY <1>6, <2>2, <2>3
<1>12. OwnOK'
  <2>1. \A q, s \in Proc : reg'[q].buf # NULL /\ reg'[q].buf = reg'[s].buf => q = s
    <3>1. \A q \in Proc : q # p => reg'[q].buf = reg[q].buf /\ reg[q].buf # b
      BY <1>4 DEF Others, Held
    <3> QED  BY <1>1, <1>6, <3>1 DEF OwnOK
  <2>2. \A i \in 0..(q_count' - 1) : i \in Slot /\ q_elt'[i] \in Buf \ Held'
    <3>1. q_count' = q_count /\ q_elt' = q_elt
      BY <1>1 DEF queueVars
    <3>2. ASSUME NEW i \in 0..(q_count - 1) PROVE i \in Slot /\ q_elt[i] \in Buf \ Held'
      <4>1. i \in Slot /\ q_elt[i] \in Buf /\ q_elt[i] \notin Held /\ q_elt[i] \in Queued
        BY <1>1 DEF OwnOK, Queued
      <4>2. q_elt[i] # NULL /\ q_elt[i] # b
        BY <1>4, <4>1, BufferFacts
      <4> QED  BY <1>8, <4>1, <4>2
    <3> QED  BY <3>1, <3>2
  <2>3. \A i, j \in 0..(q_count' - 1) : q_elt'[i] = q_elt'[j] => i = j
    BY <1>1 DEF OwnOK, queueVars
  <2>4. \A c \in Used' \ {NULL} : word'[c] \in 0..(nbpools' - 1) /\ c \in BufsOf(word'[c])
    <3> SUFFICES ASSUME NEW c \in Used', c # NULL
                 PROVE  word'[c] \in 0..(nbpools - 1) /\ c \in BufsOf(word'[c])
      BY <1>1
    <3>1. CASE c = b
      <4>1. pool \in 0..(nbpools - 1)
        BY <1>1, Constants DEF TypesOK
      <4> QED  BY <1>4, <1>6, <3>1, <4>1
    <3>2. CASE c # b
      <4>1. c \in Used
        BY <1>8, <3>2
      <4>2. word[c] \in 0..(nbpools - 1) /\ c \in BufsOf(word[c])
        BY <1>1, <4>1 DEF OwnOK
      <4>3. c \in Buf
        <5>1. word[c] \in Pool
          BY <1>1, <4>2, Constants DEF TypesOK, Pool
        <5> QED  BY <4>2, <5>1, BufferFacts
      <4> QED  BY <1>6, <3>2, <4>2, <4>3
    <3> QED  BY <3>1, <3>2
  <2> QED  BY <2>1, <2>2, <2>3, <2>4 DEF OwnOK
<1> QED  BY <1>3, <1>6, <1>7, <1>9, <1>10, <1>11, <1>12

LEMMA GetbufTakeKeeps ==
  ASSUME BInv, SingleReceiver, NEW p \in Proc, GetbufTake(p), UNCHANGED queueVars
  PROVE  BInv'
<1>1. TypesOK /\ SemsOK /\ PlaceOK(p) /\ pc[p] = <<"getbuf", "take">> /\ reg[p] \in Regs
      /\ \A s \in Pool \cup {MUTEX} : SemOK(sem[s]) /\ p \notin ToSet(sem[s].q)
  BY AtFacts DEF BInv, GetbufTake, TypesOK
<1>2. PICK pool : pool = reg[p].pool
  OBVIOUS
<1>3. pool \in Pool /\ pool < nbpools /\ reg[p].buf = NULL
  BY <1>1, <1>2 DEF PlaceOK, Regs
<1>4. /\ pc' = [pc EXCEPT ![p] = <<"user">>] /\ Taken(p, pool)
      /\ UNCHANGED <<nbpools, bpmaxused, sem, queueVars>>
  BY <1>2 DEF GetbufTake, GoTo, User
<1>5. pc'[p] = <<"user">> /\ pc'[p][1] = "user" /\ pc[p][1] = "getbuf"
  BY <1>1, <1>4 DEF TypesOK
<1>6. Others(p)
  BY <1>1, <1>4 DEF Others, TypesOK, Taken
<1>7. p \in Owed(pool) /\ p \notin Owed(pool)' /\ FreeOf(pool) # {}
  <2>1. p \in Owed(pool) /\ p \notin Owed(pool)'
    BY <1>1, <1>2, <1>3, <1>5 DEF Owed
  <2> QED  BY <1>3, <2>1, PoolBalance
<1>8. PICK b : b = bpnext[pool]
  OBVIOUS
<1>9. /\ b \in FreeOf(pool) /\ b \in Buf /\ reg'[p].buf = b
      /\ bpnext' \in [Pool -> Buf \cup {NULL}] /\ word' \in [Buf -> Int] /\ reg' \in [Proc -> Regs]
      /\ OwnOK'
      /\ FreeOf(pool)' = FreeOf(pool) \ {b} /\ ListOf(bpnext'[pool], word', FreeOf(pool)')
      /\ \A r \in Pool : r # pool => /\ FreeOf(r)' = FreeOf(r) /\ bpnext'[r] = bpnext[r]
                                     /\ \A c \in FreeOf(r) : word'[c] = word[c]
  BY <1>3, <1>4, <1>6, <1>7, <1>8, TakenBuffer
<1>10. TypesOK'
  <2>1. <<"user">> \in Places
    BY DEF Places, User
  <2>2. pc' \in [Proc -> Places]
    BY <1>1, <1>4, <2>1 DEF TypesOK
  <2> QED  BY <1>1, <1>4, <1>9, <2>2 DEF TypesOK, queueVars
<1>11. SemsOK'
  BY <1>1, <1>4, <1>6, SemsKept
<1>12. \A q \in Proc : PlaceOK(q)'
  <2>1. PlaceOK(p)'
    BY <1>5 DEF PlaceOK
  <2>2. nbpools' = nbpools /\ nbpools \in Int /\ q_count' = q_count /\ q_count \in Int
    BY <1>1, <1>4 DEF TypesOK, queueVars
  <2> QED  BY <1>1, <1>6, <2>1, <2>2, PlacesKept DEF BInv
<1>13. ASSUME NEW r \in Pool, r # pool PROVE PoolOK(r)'
  <2>1. p \notin Owed(r) /\ p \notin Owed(r)'
    BY <1>2, <1>5, <1>13 DEF Owed
  <2> QED  BY <1>4, <1>6, <1>9, <1>13, <2>1, OtherPool
<1>14. PoolOK(pool)'
  <2>1. Cardinality(FreeOf(pool)) = sem[pool].cnt + Len(sem[pool].q) + Cardinality(Owed(pool))
    BY <1>3, PoolBalance
  <2>2. /\ IsFiniteSet(Owed(pool)) /\ Cardinality(Owed(pool)) \in Nat
        /\ IsFiniteSet(FreeOf(pool)) /\ Cardinality(FreeOf(pool)) \in 0..NumBufs
    BY <1>3, PoolCounts
  <2>3. ASSUME NEW q \in Proc, q # p PROVE q \in Owed(pool)' <=> q \in Owed(pool)
    BY <1>3, <1>4, <1>6, <2>3, OwedMoves
  <2>4. Owed(pool)' = Owed(pool) \ {p}
    <3>1. Owed(pool) \subseteq Proc /\ Owed(pool)' \subseteq Proc
      BY DEF Owed
    <3> QED  BY <1>7, <2>3, <3>1
  <2>5. Cardinality(Owed(pool)') = Cardinality(Owed(pool)) - 1
        /\ Cardinality(FreeOf(pool)') = Cardinality(FreeOf(pool)) - 1
    BY <1>7, <1>9, <2>2, <2>4, OneMore
  <2>6. sem[pool].cnt \in Int /\ Len(sem[pool].q) \in Nat
    BY <1>1, <1>3, SemFacts
  <2>7. Cardinality(FreeOf(pool)') = sem[pool].cnt + Len(sem[pool].q) + Cardinality(Owed(pool)')
    BY <2>1, <2>2, <2>5, <2>6, SMTT(30)
  <2> QED  BY <1>3, <1>4, <1>9, <2>7 DEF PoolOK
<1> QED  BY <1>9, <1>10, <1>11, <1>12, <1>13, <1>14 DEF BInv

LEMMA NbgetbufKeeps ==
  ASSUME BInv, SingleReceiver, NEW p \in Proc, NEW pool \in Pool, Nbgetbuf(p, pool), UNCHANGED queueVars
  PROVE  BInv'
<1>1. TypesOK /\ SemsOK /\ PlaceOK(p) /\ pc[p] = <<"user">> /\ reg[p] \in Regs
      /\ \A s \in Pool \cup {MUTEX} : SemOK(sem[s]) /\ p \notin ToSet(sem[s].q)
  BY AtFacts DEF BInv, Nbgetbuf, TypesOK, User
<1>2. /\ Taken(p, pool) /\ Waits(pool, p) /\ UNCHANGED <<nbpools, pc, queueVars>>
      /\ reg[p].buf = NULL /\ pool < nbpools /\ sem[pool].cnt > 0
  BY DEF Nbgetbuf
<1>3. pc[p][1] = "user" /\ pc' = pc
  BY <1>1, <1>2
<1>4. Others(p)
  BY <1>1, <1>2 DEF Others, TypesOK, Taken
<1>5. FreeOf(pool) # {} /\ sem[pool].cnt <= NumBufs
  BY <1>2, PoolBalance
<1>6. PICK b : b = bpnext[pool]
  OBVIOUS
<1>7. /\ b \in FreeOf(pool) /\ b \in Buf /\ reg'[p].buf = b
      /\ bpnext' \in [Pool -> Buf \cup {NULL}] /\ word' \in [Buf -> Int] /\ reg' \in [Proc -> Regs]
      /\ OwnOK'
      /\ FreeOf(pool)' = FreeOf(pool) \ {b} /\ ListOf(bpnext'[pool], word', FreeOf(pool)')
      /\ \A r \in Pool : r # pool => /\ FreeOf(r)' = FreeOf(r) /\ bpnext'[r] = bpnext[r]
                                     /\ \A c \in FreeOf(r) : word'[c] = word[c]
  BY <1>2, <1>4, <1>5, <1>6, TakenBuffer
<1>8. PICK x : x = sem[pool]
  OBVIOUS
<1>9. PICK y : y = [cnt |-> x.cnt - 1, q |-> IF x.cnt > 0 THEN x.q ELSE Append(x.q, p)]
  OBVIOUS
<1>10. SemOK(x) /\ SemOK(y) /\ y.cnt = x.cnt - 1 /\ y.q = x.q /\ x.cnt \in Int
  <2>1. SemOK(x) /\ p \notin ToSet(x.q) /\ x.cnt > 0 /\ x.cnt \in Int
    BY <1>1, <1>2, <1>8, SemFacts
  <2>2. y.cnt = x.cnt - 1 /\ y.q = x.q
    BY <1>9, <2>1
  <2>3. SemOK(y)
    BY <1>9, <2>1, WaitKeeps
  <2> QED  BY <2>1, <2>2, <2>3
<1>11. SemsOK' /\ sem'[pool] = y /\ \A s \in Pool : s # pool => sem'[s] = sem[s]
  <2>1. sem' = [sem EXCEPT ![pool] = y]
    BY <1>2, <1>8, <1>9 DEF Waits
  <2>2. \A q \in ToSet(y.q) : q \in ToSet(sem[pool].q)
    BY <1>8, <1>10
  <2> QED  BY <1>1, <1>4, <1>10, <2>1, <2>2, PoolSems
<1>12. TypesOK'
  <2>1. PICK n : n = NumBufs - sem'[pool].cnt
    OBVIOUS
  <2>2. n \in 0..Most
    <3>1. x.cnt - 1 \in 0..NumBufs
      BY <1>2, <1>5, <1>8, <1>10, Constants
    <3>2. n = NumBufs - (x.cnt - 1)
      BY <1>10, <1>11, <2>1
    <3> QED  BY <1>10, <3>1, <3>2, Constants DEF Most
  <2>3. bpmaxused' = [bpmaxused EXCEPT ![pool] = IF n > @ THEN n ELSE @]
    BY <2>1 DEF Nbgetbuf
  <2>4. bpmaxused' \in [Pool -> 0..Most]
    BY <1>1, <2>2, <2>3 DEF TypesOK
  <2> QED  BY <1>1, <1>2, <1>7, <2>4 DEF TypesOK, queueVars
<1>13. \A q \in Proc : PlaceOK(q)'
  <2>1. PlaceOK(p)'
    <3>1. pc'[p] = <<"user">> /\ pc'[p][1] = "user"
      BY <1>1, <1>3
    <3> QED  BY <3>1 DEF PlaceOK
  <2>2. nbpools' = nbpools /\ nbpools \in Int /\ q_count' = q_count /\ q_count \in Int
    BY <1>1, <1>2 DEF TypesOK, queueVars
  <2> QED  BY <1>1, <1>4, <2>1, <2>2, PlacesKept DEF BInv
<1>14. \A r \in Pool : p \notin Owed(r) /\ p \notin Owed(r)'
  BY <1>3 DEF Owed
<1>15. ASSUME NEW r \in Pool, r # pool PROVE PoolOK(r)'
  BY <1>2, <1>4, <1>7, <1>11, <1>14, <1>15, OtherPool
<1>16. PoolOK(pool)'
  <2>1. Cardinality(FreeOf(pool)) = x.cnt + Len(x.q) + Cardinality(Owed(pool))
    BY <1>2, <1>8, PoolBalance
  <2>2. /\ Cardinality(Owed(pool)) \in Nat
        /\ IsFiniteSet(FreeOf(pool)) /\ Cardinality(FreeOf(pool)) \in 0..NumBufs
    BY PoolCounts
  <2>3. Owed(pool)' = Owed(pool)
    BY <1>4, <1>8, <1>10, <1>11, <1>14, OwedSame
  <2>4. Cardinality(FreeOf(pool)') = Cardinality(FreeOf(pool)) - 1
    BY <1>7, <2>2, OneMore
  <2>5. Len(x.q) \in Nat
    BY <1>10, SemFacts
  <2>6. Cardinality(FreeOf(pool)') = y.cnt + Len(y.q) + Cardinality(Owed(pool)')
    BY <1>10, <2>1, <2>2, <2>3, <2>4, <2>5
  <2> QED  BY <1>2, <1>7, <1>11, <2>6 DEF PoolOK
<1> QED  BY <1>7, <1>11, <1>12, <1>13, <1>15, <1>16 DEF BInv

LEMMA FreebufKeeps ==
  ASSUME BInv, SingleReceiver, NEW p \in Proc, Freebuf(p), UNCHANGED queueVars
  PROVE  BInv'
<1>1. TypesOK /\ SemsOK /\ OwnOK /\ PlaceOK(p) /\ pc[p] = <<"user">> /\ reg[p] \in Regs
      /\ \A s \in Pool \cup {MUTEX} : SemOK(sem[s]) /\ p \notin ToSet(sem[s].q)
  BY AtFacts DEF BInv, Freebuf, TypesOK, User
<1>2. PICK b : b = reg[p].buf
  OBVIOUS
<1>3. b # NULL /\ b \in Buf /\ b \in Held /\ b \in Used
  BY <1>1, <1>2 DEF Freebuf, Regs, Held, Used
<1>4. PICK pool : pool = word[b]
  OBVIOUS
<1>5. pool \in 0..(nbpools - 1) /\ b \in BufsOf(pool)
  BY <1>1, <1>3, <1>4 DEF OwnOK
<1>6. pool \in Pool /\ pool < nbpools /\ ~(pool >= nbpools)
  BY <1>1, <1>5, Constants DEF TypesOK, Pool
<1>7. /\ word' = [word EXCEPT ![b] = bpnext[pool]] /\ bpnext' = [bpnext EXCEPT ![pool] = b]
      /\ reg' = [reg EXCEPT ![p].buf = NULL, ![p].pool = pool]
      /\ pc' = [pc EXCEPT ![p] = <<"freebuf", "signal">>]
      /\ UNCHANGED <<nbpools, bpmaxused, sem, queueVars>>
  BY <1>2, <1>4, <1>6 DEF Freebuf, GoTo
<1>8. /\ pc'[p] = <<"freebuf", "signal">> /\ pc'[p][1] = "freebuf" /\ pc[p][1] = "user"
      /\ reg'[p].buf = NULL /\ reg'[p].pool = pool /\ bpnext'[pool] = b
      /\ word'[b] = bpnext[pool] /\ \A c \in Buf : c # b => word'[c] = word[c]
  BY <1>1, <1>3, <1>6, <1>7 DEF TypesOK, Regs
<1>9. Others(p)
  BY <1>1, <1>7 DEF Others, TypesOK
<1>10. TypesOK'
  <2>1. <<"freebuf", "signal">> \in Places
    BY DEF Places
  <2>2. PICK r1 : r1 = [reg EXCEPT ![p].buf = NULL]
    OBVIOUS
  <2>3. r1 \in [Proc -> Regs]
    BY <1>1, <2>2 DEF TypesOK, Regs
  <2>4. reg' = [r1 EXCEPT ![p].pool = pool]
    BY <1>7, <2>2
  <2>5. reg' \in [Proc -> Regs]
    BY <1>6, <2>3, <2>4 DEF Regs
  <2>6. pc' \in [Proc -> Places]
    BY <1>1, <1>7, <2>1 DEF TypesOK
  <2>7. bpnext' \in [Pool -> Buf \cup {NULL}]
    BY <1>1, <1>3, <1>7 DEF TypesOK
  <2>8. word' \in [Buf -> Int]
    <3>1. bpnext[pool] \in Int
      BY <1>1, <1>6, BufferFacts DEF TypesOK, NULL
    <3> QED  BY <1>1, <1>7, <3>1 DEF TypesOK
  <2> QED  BY <1>1, <1>7, <2>5, <2>6, <2>7, <2>8 DEF TypesOK, queueVars
<1>11. SemsOK'
  BY <1>1, <1>7, <1>9, SemsKept
<1>12. \A q \in Proc : PlaceOK(q)'
  <2>1. PlaceOK(p)'
    BY <1>6, <1>7, <1>8 DEF PlaceOK
  <2>2. nbpools' = nbpools /\ nbpools \in Int /\ q_count' = q_count /\ q_count \in Int
    BY <1>1, <1>7 DEF TypesOK, queueVars
  <2> QED  BY <1>1, <1>9, <2>1, <2>2, PlacesKept DEF BInv
<1>13. \A z : z # NULL => (z \in Held' <=> z \in Held /\ z # b)
  BY <1>1, <1>2, <1>3, <1>8, <1>9, UsedShrinks
<1>14. Queued' = Queued /\ b \notin Queued
  <2>1. Queued' = Queued
    BY <1>7 DEF queueVars, Queued
  <2>2. \A z \in Queued : z \notin Held
    BY <1>1 DEF OwnOK, Queued
  <2> QED  BY <1>3, <2>1, <2>2
<1>15. \A z : z # NULL => (z \in Used' <=> z \in Used /\ z # b)
  BY <1>13, <1>14 DEF Used
<1>16. FreeOf(pool)' = FreeOf(pool) \cup {b} /\ b \notin FreeOf(pool)
  <2>1. \A z \in BufsOf(pool) : z # NULL
    BY <1>6, BufferFacts
  <2> QED  BY <1>3, <1>5, <1>15, <2>1 DEF FreeOf
<1>17. ASSUME NEW r \in Pool, r # pool
       PROVE  /\ FreeOf(r)' = FreeOf(r) /\ bpnext'[r] = bpnext[r]
              /\ \A c \in FreeOf(r) : word'[c] = word[c]
  <2>1. b \notin BufsOf(r)
    BY <1>5, <1>6, <1>17, PoolsApart
  <2>2. FreeOf(r)' = FreeOf(r) /\ \A c \in FreeOf(r) : c # b /\ c \in Buf
    <3>1. \A z \in BufsOf(r) : z # NULL /\ z \in Buf
      BY BufferFacts
    <3> QED  BY <1>15, <2>1, <3>1 DEF FreeOf
  <2>3. bpnext'[r] = bpnext[r]
    BY <1>1, <1>7, <1>17 DEF TypesOK
  <2> QED  BY <1>8, <2>2, <2>3
<1>18. OwnOK'
  <2>1. \A q, s \in Proc : reg'[q].buf # NULL /\ reg'[q].buf = reg'[s].buf => q = s
    <3>1. \A q \in Proc : q # p => reg'[q].buf = reg[q].buf
      BY <1>9 DEF Others
    <3> QED  BY <1>1, <1>8, <3>1 DEF OwnOK
  <2>2. \A i \in 0..(q_count' - 1) : i \in Slot /\ q_elt'[i] \in Buf \ Held'
    <3>1. q_count' = q_count /\ q_elt' = q_elt
      BY <1>7 DEF queueVars
    <3>2. ASSUME NEW i \in 0..(q_count - 1) PROVE i \in Slot /\ q_elt[i] \in Buf \ Held'
      <4>1. i \in Slot /\ q_elt[i] \in Buf /\ q_elt[i] \notin Held /\ q_elt[i] # NULL
        BY <1>1, BufferFacts DEF OwnOK
      <4> QED  BY <1>13, <4>1
    <3> QED  BY <3>1, <3>2
  <2>3. \A i, j \in 0..(q_count' - 1) : q_elt'[i] = q_elt'[j] => i = j
    BY <1>1, <1>7 DEF OwnOK, queueVars
  <2>4. \A c \in Used' \ {NULL} : word'[c] \in 0..(nbpools' - 1) /\ c \in BufsOf(word'[c])
    <3> SUFFICES ASSUME NEW c \in Used', c # NULL
                 PROVE  word'[c] \in 0..(nbpools - 1) /\ c \in BufsOf(word'[c])
      BY <1>7
    <3>1. c \in Used /\ c # b
      BY <1>15
    <3>2. word[c] \in 0..(nbpools - 1) /\ c \in BufsOf(word[c])
      BY <1>1, <3>1 DEF OwnOK
    <3>3. c \in Buf
      <4>1. word[c] \in Pool
        BY <1>1, <3>2, Constants DEF TypesOK, Pool
      <4> QED  BY <3>2, <4>1, BufferFacts
    <3> QED  BY <1>8, <3>1, <3>2, <3>3
  <2> QED  BY <2>1, <2>2, <2>3, <2>4 DEF OwnOK
<1>19. ASSUME NEW r \in Pool, r # pool PROVE PoolOK(r)'
  <2>1. p \notin Owed(r) /\ p \notin Owed(r)'
    BY <1>8, <1>19 DEF Owed
  <2> QED  BY <1>7, <1>9, <1>17, <1>19, <2>1, OtherPool
<1>20. PoolOK(pool)'
  <2>1. Cardinality(FreeOf(pool)) = sem[pool].cnt + Len(sem[pool].q) + Cardinality(Owed(pool))
        /\ ListOf(bpnext[pool], word, FreeOf(pool))
    BY <1>6, PoolBalance
  <2>2. /\ IsFiniteSet(Owed(pool)) /\ Cardinality(Owed(pool)) \in Nat
        /\ IsFiniteSet(FreeOf(pool)) /\ Cardinality(FreeOf(pool)) \in 0..NumBufs
    BY <1>6, PoolCounts
  <2>3. Owed(pool)' = Owed(pool) \cup {p} /\ p \notin Owed(pool)
    <3>1. ASSUME NEW q \in Proc, q # p PROVE q \in Owed(pool)' <=> q \in Owed(pool)
      BY <1>6, <1>7, <1>9, <3>1, OwedMoves
    <3>2. p \in Owed(pool)' /\ p \notin Owed(pool)
      BY <1>1, <1>6, <1>7, <1>8 DEF Owed
    <3>3. Owed(pool) \subseteq Proc /\ Owed(pool)' \subseteq Proc
      BY DEF Owed
    <3> QED  BY <3>1, <3>2, <3>3
  <2>4. Cardinality(Owed(pool)') = Cardinality(Owed(pool)) + 1
        /\ Cardinality(FreeOf(pool)') = Cardinality(FreeOf(pool)) + 1
    BY <1>16, <2>2, <2>3, OneMore
  <2>5. sem[pool].cnt \in Int /\ Len(sem[pool].q) \in Nat
    BY <1>1, <1>6, SemFacts
  <2>6. Cardinality(FreeOf(pool)') = sem[pool].cnt + Len(sem[pool].q) + Cardinality(Owed(pool)')
    BY <2>1, <2>2, <2>4, <2>5
  <2>7. ListOf(bpnext'[pool], word', FreeOf(pool)')
    <3>1. \A c \in FreeOf(pool) : word'[c] = word[c]
      BY <1>6, <1>8, <1>16, BufferFacts DEF FreeOf
    <3>2. ListOf(b, word', FreeOf(pool) \cup {b})
      BY <1>3, <1>8, <1>16, <2>1, <3>1, ListGiven
    <3> QED  BY <1>8, <1>16, <3>2
  <2> QED  BY <1>6, <1>7, <2>6, <2>7 DEF PoolOK
<1> QED  BY <1>10, <1>11, <1>12, <1>18, <1>19, <1>20 DEF BInv

-----------------------------------------------------------------------------
(* mkpool's list: the buffers of the pool in the order of addresses.       *)
LEMMA FreshList ==
  ASSUME NEW pool \in Pool, NEW w,
         \A b \in BufsOf(pool) : w[b] = IF b = Addr(pool, NumBufs) THEN NULL ELSE b + 1
  PROVE  ListOf(Addr(pool, 1), w, BufsOf(pool))
<1>1. PICK base : base = NBPOOLS + pool * NumBufs
  OBVIOUS
<1>2. /\ base + 1 \in Nat /\ base + NumBufs \in Nat /\ NumBufs \in Nat /\ NumBufs > 0
      /\ BufsOf(pool) = (base + 1)..(base + NumBufs) /\ BufsOf(pool) \subseteq Buf
      /\ Addr(pool, 1) = base + 1 /\ Addr(pool, NumBufs) = base + NumBufs
  BY <1>1, PoolAddresses, BufferFacts, Constants DEF First, Final, Addr
<1>3. base \in Int
  <2>1. NBPOOLS \in Nat /\ pool \in Nat /\ NumBufs \in Nat
    BY Constants
  <2>2. pool * NumBufs \in Nat
    BY <2>1, Times
  <2> QED  BY <1>1, <2>1, <2>2
<1>4. PICK l : l = [i \in 1..NumBufs |-> base + i]
  OBVIOUS
<1>5. \A i \in 1..NumBufs : base + i \in BufsOf(pool) /\ l[i] = base + i
  BY <1>2, <1>3, <1>4
<1>6. l \in Seq(Buf) /\ Len(l) = NumBufs
  <2>1. l \in [1..NumBufs -> Buf]
    BY <1>2, <1>4, <1>5
  <2> QED  BY <1>2, <2>1, LenProperties
<1>7. Holds(l, BufsOf(pool))
  <2>1. BufsOf(pool) = {l[i] : i \in 1..Len(l)}
    <3>1. ASSUME NEW b \in BufsOf(pool) PROVE \E i \in 1..Len(l) : b = l[i]
      <4>1. b - base \in 1..NumBufs /\ base + (b - base) = b
        BY <1>2, <1>3
      <4> QED  BY <1>5, <1>6, <4>1
    <3> QED  BY <1>5, <1>6, <3>1
  <2>2. \A i, j \in 1..Len(l) : l[i] = l[j] => i = j
    BY <1>3, <1>5, <1>6
  <2> QED  BY <1>6, <2>1, <2>2, HoldsByIndex
<1>8. Links(l, base + 1, w)
  <2>1. base + 1 = NextFree(l, 0)
    <3>1. 0 < Len(l) /\ 0 + 1 = 1 /\ 1 \in 1..NumBufs
      BY <1>2, <1>6
    <3> QED  BY <1>5, <3>1 DEF NextFree
  <2>2. ASSUME NEW i \in 1..Len(l) PROVE w[l[i]] = NextFree(l, i)
    <3>1. l[i] = base + i /\ l[i] \in BufsOf(pool)
      BY <1>5, <1>6
    <3>2. CASE i = NumBufs
      <4>1. w[l[i]] = NULL /\ ~(i < Len(l))
        BY <1>2, <1>6, <3>1, <3>2
      <4> QED  BY <4>1 DEF NextFree
    <3>3. CASE i # NumBufs
      <4>1. i < Len(l) /\ i + 1 \in 1..NumBufs /\ base + i # base + NumBufs
            /\ base + (i + 1) = (base + i) + 1
        BY <1>2, <1>3, <1>6, <3>3
      <4>2. w[l[i]] = l[i] + 1 /\ l[i + 1] = base + (i + 1)
        BY <1>2, <1>5, <3>1, <4>1
      <4> QED  BY <3>1, <4>1, <4>2 DEF NextFree
    <3> QED  BY <3>2, <3>3
  <2> QED  BY <2>1, <2>2 DEF Links
<1> QED  BY <1>2, <1>6, <1>7, <1>8 DEF ListOf

LEMMA MkpoolKeeps ==
  ASSUME BInv, SingleReceiver, NEW p \in Proc, Mkpool(p), UNCHANGED queueVars
  PROVE  BInv'
<1>1. TypesOK /\ SemsOK /\ OwnOK
      /\ \A s \in Pool \cup {MUTEX} : SemOK(sem[s]) /\ p \notin ToSet(sem[s].q)
  BY AtFacts DEF BInv, Mkpool
<1>2. PICK k : k = nbpools
  OBVIOUS
<1>3. k \in Pool /\ k \in Nat /\ nbpools = k /\ nbpools' = k + 1 /\ k + 1 \in 0..NBPOOLS
  BY <1>1, <1>2, Constants DEF Mkpool, TypesOK, Pool
<1>4. /\ bpnext' = [bpnext EXCEPT ![k] = Addr(k, 1)]
      /\ word' = [b \in Buf |-> IF b \notin BufsOf(k) THEN word[b]
                                ELSE IF b = Addr(k, NumBufs) THEN NULL ELSE b + 1]
      /\ sem' = [sem EXCEPT ![k].cnt = NumBufs]
      /\ UNCHANGED <<bpmaxused, pc, reg, queueVars>>
  BY <1>2 DEF Mkpool
<1>5. Others(p) /\ SameBufs
  BY <1>4 DEF Others, SameBufs
<1>6. Addr(k, 1) \in Buf /\ bpnext'[k] = Addr(k, 1)
  <2>1. Addr(k, 1) \in BufsOf(k)
    BY Constants DEF BufsOf
  <2> QED  BY <1>1, <1>3, <1>4, <2>1, BufferFacts DEF TypesOK
<1>7. /\ \A b \in BufsOf(k) : word'[b] = IF b = Addr(k, NumBufs) THEN NULL ELSE b + 1
      /\ \A b \in Buf : b \notin BufsOf(k) => word'[b] = word[b]
  BY <1>3, <1>4, BufferFacts
<1>8. TypesOK'
  <2>1. bpnext' \in [Pool -> Buf \cup {NULL}]
    BY <1>1, <1>4, <1>6 DEF TypesOK
  <2>2. word' \in [Buf -> Int]
    <3>1. \A b \in Buf : word[b] \in Int /\ b + 1 \in Int /\ NULL \in Int
      BY <1>1, BufferFacts DEF TypesOK, NULL
    <3> QED  BY <1>4, <3>1
  <2> QED  BY <1>1, <1>3, <1>4, <2>1, <2>2 DEF TypesOK, queueVars
<1>9. sem[k].cnt = 0 /\ SemOK(sem[k]) /\ Len(sem[k].q) = 0
  <2>1. sem[k].cnt = 0
    BY <1>3 DEF BInv, PoolOK
  <2> QED  BY <1>1, <1>3, <2>1, SemFacts
<1>10. PICK y : y = [sem[k] EXCEPT !.cnt = NumBufs]
  OBVIOUS
<1>11. SemOK(y) /\ y.cnt = NumBufs /\ y.q = sem[k].q /\ Len(y.q) = 0
  <2>1. sem[k] \in [cnt : Int, q : Seq(Proc)] /\ IsInjective(sem[k].q)
    BY <1>9 DEF SemOK
  <2>2. y.cnt = NumBufs /\ y.q = sem[k].q /\ y \in [cnt : Int, q : Seq(Proc)]
    BY <1>10, <2>1, Constants
  <2>3. NumBufs \in Nat /\ ~(NumBufs < 0)
    BY Constants
  <2> QED  BY <1>9, <2>1, <2>2, <2>3 DEF SemOK
<1>12. SemsOK' /\ sem'[k] = y /\ \A s \in Pool : s # k => sem'[s] = sem[s]
  <2>1. sem' = [sem EXCEPT ![k] = y]
    BY <1>4, <1>10
  <2>2. \A q \in ToSet(y.q) : q \in ToSet(sem[k].q)
    BY <1>11
  <2> QED  BY <1>1, <1>3, <1>5, <1>11, <2>1, <2>2, PoolSems
<1>13. \A b \in Used \ {NULL} : b \in Buf /\ b \notin BufsOf(k)
  <2> SUFFICES ASSUME NEW b \in Used \ {NULL} PROVE b \in Buf /\ b \notin BufsOf(k)
    OBVIOUS
  <2>1. word[b] \in 0..(nbpools - 1) /\ b \in BufsOf(word[b])
    BY <1>1 DEF OwnOK
  <2>2. word[b] \in Pool /\ word[b] # k
    BY <1>3, <2>1, Constants DEF Pool
  <2> QED  BY <1>3, <2>1, <2>2, PoolsApart, BufferFacts
<1>14. OwnOK'
  <2>1. \A b \in Used \ {NULL} : word'[b] = word[b]
    BY <1>7, <1>13
  <2>2. nbpools \in Int /\ nbpools' \in Int /\ nbpools' >= nbpools
    BY <1>3
  <2> QED  BY <1>1, <1>4, <1>5, <2>1, <2>2, OwnKept
<1>15. \A q \in Proc : PlaceOK(q)'
  <2> SUFFICES ASSUME NEW q \in Proc PROVE PlaceOK(q)'
    OBVIOUS
  <2>1. PlaceOK(q) /\ reg[q].pool \in Int
    BY <1>1 DEF BInv, TypesOK, Regs, Pool
  <2>2. reg[q].pool < nbpools => reg[q].pool < nbpools'
    BY <1>3, <2>1
  <2>3. pc' = pc /\ reg' = reg /\ q_count' = q_count
    BY <1>4 DEF queueVars
  <2> QED  BY <2>1, <2>2, <2>3 DEF PlaceOK
<1>16. \A r \in Pool : FreeOf(r)' = FreeOf(r)
  BY <1>4, <1>5, UsedSame
<1>17. ASSUME NEW r \in Pool, r # k PROVE PoolOK(r)'
  <2>1. Owed(r)' = Owed(r)
    BY <1>4, <1>12, <1>17 DEF Owed
  <2>2. \A b \in FreeOf(r) : word'[b] = word[b]
    <3>1. \A b \in BufsOf(r) : b \in Buf /\ b \notin BufsOf(k)
      BY <1>3, <1>17, PoolsApart, BufferFacts
    <3> QED  BY <1>7, <3>1 DEF FreeOf
  <2>3. bpnext'[r] = bpnext[r]
    BY <1>1, <1>4, <1>17 DEF TypesOK
  <2>4. r < nbpools' <=> r < nbpools
    BY <1>3, <1>17, Constants
  <2>5. PoolOK(r)
    BY DEF BInv
  <2> QED  BY <1>12, <1>16, <1>17, <2>1, <2>2, <2>3, <2>4, <2>5, PoolKept
<1>18. PoolOK(k)'
  <2>1. FreeOf(k)' = BufsOf(k)
    <3>1. \A b \in BufsOf(k) : b # NULL
      BY <1>3, BufferFacts
    <3>2. FreeOf(k) = BufsOf(k)
      BY <1>13, <3>1 DEF FreeOf
    <3> QED  BY <1>3, <1>16, <3>2
  <2>2. ListOf(bpnext'[k], word', BufsOf(k))
    BY <1>3, <1>6, <1>7, FreshList
  <2>3. Cardinality(BufsOf(k)) = NumBufs /\ NumBufs \in Nat
    BY <1>3, PoolAddresses, Constants
  <2>4. Owed(k)' = {}
    <3> SUFFICES ASSUME NEW q \in Proc, pc[q][1] \in {"getbuf", "freebuf"}, reg[q].pool = k
                 PROVE  FALSE
      BY <1>4 DEF Owed
    <3>1. reg[q].pool < nbpools
      BY DEF BInv, PlaceOK
    <3> QED  BY <1>3, <3>1
  <2>5. Cardinality(Owed(k)') = 0
    BY <2>4, FS_EmptySet
  <2>6. Cardinality(FreeOf(k)') = sem'[k].cnt + Len(sem'[k].q) + Cardinality(Owed(k)')
    BY <1>11, <1>12, <2>1, <2>3, <2>5
  <2>7. k < nbpools'
    BY <1>3
  <2> QED  BY <2>1, <2>2, <2>6, <2>7 DEF PoolOK
<1> QED  BY <1>8, <1>12, <1>14, <1>15, <1>17, <1>18 DEF BInv

-----------------------------------------------------------------------------
(* The queue.  The arrays have room for every buffer there is.             *)
LEMMA QueueRoom ==
  ASSUME Room, BInv
  PROVE  /\ q_count \in 0..QMAX
         /\ \A p \in Proc : reg[p].buf # NULL => q_count < QMAX
<1>1. TypesOK /\ OwnOK /\ q_count \in Nat /\ QMAX \in Nat
  BY Constants DEF BInv, TypesOK
<1>2. PICK f : f = [i \in 0..(q_count - 1) |-> q_elt[i]]
  OBVIOUS
<1>3. Cardinality(0..(q_count - 1)) = q_count
  <2>1. 0 \in Int /\ q_count - 1 \in Int /\ (0 > q_count - 1 => q_count = 0) /\ (q_count - 1) - 0 + 1 = q_count
    BY <1>1
  <2> QED  BY <2>1, FS_Interval
<1>4. ASSUME NEW T, IsFiniteSet(T), \A i \in 0..(q_count - 1) : q_elt[i] \in T
      PROVE  q_count <= Cardinality(T)
  <2>1. f \in [0..(q_count - 1) -> T] /\ \A i, j \in 0..(q_count - 1) : f[i] = f[j] => i = j
    BY <1>1, <1>2, <1>4 DEF OwnOK
  <2>2. Cardinality(0..(q_count - 1)) <= Cardinality(T)
    BY <1>4, <2>1, SameCount
  <2> QED  BY <1>3, <2>2
<1>5. PICK n : n = Cardinality(Buf)
  OBVIOUS
<1>6. IsFiniteSet(Buf) /\ n \in Nat /\ n <= QMAX
  <2>1. PICK top : top = NBPOOLS * NumBufs
    OBVIOUS
  <2>2. top \in Nat /\ top <= QMAX
    BY <2>1, Constants, Times DEF Room
  <2>3. IsFiniteSet(Buf) /\ n <= top /\ n \in Nat
    BY <1>5, <2>1, BufferFacts, FS_CardinalityType
  <2> QED  BY <1>1, <2>2, <2>3
<1>7. q_count <= n
  BY <1>1, <1>4, <1>5, <1>6 DEF OwnOK
<1>8. ASSUME NEW p \in Proc, reg[p].buf # NULL PROVE q_count < QMAX
  <2>1. PICK b : b = reg[p].buf
    OBVIOUS
  <2>2. b \in Buf /\ b \in Held
    BY <1>1, <1>8, <2>1 DEF TypesOK, Regs, Held
  <2>3. IsFiniteSet(Buf \ {b}) /\ Cardinality(Buf \ {b}) = n - 1
    BY <1>5, <1>6, <2>2, OneMore
  <2>4. \A i \in 0..(q_count - 1) : q_elt[i] \in Buf \ {b}
    BY <1>1, <2>2 DEF OwnOK
  <2>5. q_count <= n - 1
    BY <1>4, <2>3, <2>4
  <2> QED  BY <1>1, <1>6, <2>5
<1> QED  BY <1>1, <1>6, <1>7, <1>8

(* enq's search from the tail ends somewhere.                              *)
LEMMA PlaceIsInside ==
  ASSUME TypesOK, NEW key \in Nat, NEW count \in Nat, \A j \in 0..(count - 1) : j \in Slot
  PROVE  Place(key, count) \in 0..count
<1> DEFINE Stop(i) == i = 0 \/ key <= q_key[i - 1]
           P(i)    == Stop(i) /\ \A j \in i..(count - 1) : key > q_key[j]
           T       == {m \in Nat : m <= count /\ Stop(count - m)}
<1>1. T \subseteq Nat /\ T # {}
  <2>1. count \in T
    <3>1. count - count = 0 /\ count <= count
      OBVIOUS
    <3> QED  BY <3>1
  <2> QED  BY <2>1
<1>2. PICK m \in T : \A n \in T : m <= n
  <2> HIDE DEF T
  <2> QED  BY <1>1, LeastNat
<1>3. PICK i : i = count - m
  OBVIOUS
<1>4. m \in Nat /\ m <= count /\ i \in 0..count /\ Stop(i)
  BY <1>2, <1>3
<1>5. ASSUME NEW j \in i..(count - 1) PROVE key > q_key[j]
  <2>1. j \in 0..(count - 1) /\ j \in Nat /\ j + 1 \in Nat /\ (j + 1) - 1 = j /\ j + 1 # 0
        /\ count - (j + 1) \in Nat /\ count - (j + 1) < m /\ count - (j + 1) <= count
        /\ count - (count - (j + 1)) = j + 1
    BY <1>3, <1>4
  <2>2. count - (j + 1) \notin T
    <3>1. \A n \in T : ~(n < m) /\ n \in Nat
      BY <1>2, <1>4
    <3> QED  BY <2>1, <3>1
  <2>3. ~Stop(j + 1)
    BY <2>1, <2>2
  <2>4. ~(key <= q_key[j])
    BY <2>1, <2>3
  <2>5. q_key[j] \in Nat
    BY <2>1 DEF TypesOK
  <2> QED  BY <2>4, <2>5
<1>6. \E k \in 0..count : P(k)
  BY <1>4, <1>5
<1>7. Place(key, count) = CHOOSE k \in 0..count : P(k)
  BY DEF Place
<1> HIDE DEF P
<1> QED  BY <1>6, <1>7

LEMMA ShiftedType ==
  ASSUME NEW S, NEW arr \in [Slot -> S], NEW x \in S, NEW count \in Nat,
         \A j \in 0..count : j \in Slot, NEW i \in 0..count
  PROVE  Shifted(arr, i, count, x) \in [Slot -> S]
<1>1. ASSUME NEW j \in Slot PROVE j \in (i + 1)..count => j - 1 \in Slot
  <2>1. j \in (i + 1)..count => j - 1 \in 0..count
    OBVIOUS
  <2> QED  BY <2>1
<1> QED  BY <1>1 DEF Shifted

LEMMA ShiftedValue ==
  ASSUME NEW arr, NEW x, NEW count \in Nat, \A j \in 0..count : j \in Slot,
         NEW i \in 0..count, NEW j \in 0..count
  PROVE  Shifted(arr, i, count, x)[j] = IF j = i THEN x ELSE IF j < i THEN arr[j] ELSE arr[j - 1]
<1>1. j # i => (j \in (i + 1)..count <=> ~(j < i))
  OBVIOUS
<1> QED  BY <1>1 DEF Shifted

LEMMA BodyFacts ==
  ASSUME BInv, NEW p \in Proc, NEW op \in {"enq", "deq"}, Body(p, op)
  PROVE  /\ TypesOK /\ SemsOK /\ OwnOK /\ PlaceOK(p) /\ reg[p] \in Regs
         /\ pc[p] \in {<<op, "enter">>, <<op, "body">>} /\ pc[p][1] = op
         /\ pc' \in [Proc -> Places] /\ pc'[p][1] \in {"user", op}
         /\ pc'[p] \notin {<<op2, step>> : op2 \in {"enq", "deq"}, step \in {"enter", "body"}}
         /\ \A q \in Proc : q # p => pc'[q] = pc[q]
         /\ \A s \in Pool : p \notin ToSet(sem[s].q)
         /\ UNCHANGED <<nbpools, bpnext, bpmaxused, word, sem, q_type>>
<1>1. PICK place : place = <<op, IF NoWait THEN "enter" ELSE "body">>
  OBVIOUS
<1>2. TypesOK /\ SemsOK /\ OwnOK /\ PlaceOK(p) /\ reg[p] \in Regs
  BY DEF BInv, TypesOK
<1>3. pc[p] = place /\ \A s \in Pool : p \notin ToSet(sem[s].q)
  BY <1>1, <1>2, AtFacts DEF Body
<1>4. pc[p] \in {<<op, "enter">>, <<op, "body">>} /\ pc[p][1] = op
  BY <1>1, <1>3
<1>5. PICK to \in {<<"user">>, <<op, "unlock">>} : pc' = [pc EXCEPT ![p] = to]
  BY DEF Body, GoTo, User
<1>6. to \in Places /\ to[1] \in {"user", op}
      /\ to \notin {<<op2, step>> : op2 \in {"enq", "deq"}, step \in {"enter", "body"}}
  <2>1. CASE to = <<"user">>
    BY <2>1 DEF Places, User
  <2>2. CASE to = <<op, "unlock">>
    <3>1. to \in Places
      BY <2>2 DEF Places
    <3>2. to[1] = op /\ to[2] = "unlock" /\ \A op2, step : to = <<op2, step>> => step = "unlock"
      BY <2>2
    <3> QED  BY <3>1, <3>2
  <2> QED  BY <2>1, <2>2
<1>7. pc'[p] = to /\ pc' \in [Proc -> Places] /\ \A q \in Proc : q # p => pc'[q] = pc[q]
  BY <1>2, <1>5, <1>6 DEF TypesOK
<1>8. UNCHANGED <<nbpools, bpnext, bpmaxused, word, sem, q_type>>
  BY DEF Body, poolVars
<1> QED  BY <1>2, <1>3, <1>4, <1>6, <1>7, <1>8

LEMMA BodyKeeps ==
  ASSUME BInv, SingleReceiver, NEW p \in Proc, NEW op \in {"enq", "deq"}, Body(p, op), Others(p),
         TypesOK', OwnOK', \A z : z # NULL => (z \in Used' <=> z \in Used),
         q_count' >= q_count \/ p \in Receivers
  PROVE  BInv'
<1>1. /\ TypesOK /\ SemsOK /\ pc[p][1] = op /\ pc'[p][1] \in {"user", op}
      /\ pc'[p] \notin {<<op2, step>> : op2 \in {"enq", "deq"}, step \in {"enter", "body"}}
      /\ \A s \in Pool : p \notin ToSet(sem[s].q)
      /\ UNCHANGED <<nbpools, bpnext, bpmaxused, word, sem>>
  BY BodyFacts
<1>2. SemsOK'
  BY <1>1, SemsKept
<1>3. \A q \in Proc : PlaceOK(q)'
  <2>1. PlaceOK(p)'
    BY <1>1 DEF PlaceOK
  <2>2. nbpools' = nbpools /\ nbpools \in Int /\ q_count' \in Int
    BY <1>1 DEF TypesOK
  <2> QED  BY <1>1, <2>1, <2>2, PlacesKept DEF BInv
<1>4. ASSUME NEW r \in Pool PROVE PoolOK(r)'
  <2>1. FreeOf(r)' = FreeOf(r)
    <3>1. \A b \in BufsOf(r) : b # NULL
      BY BufferFacts
    <3> QED  BY <3>1 DEF FreeOf
  <2>2. p \notin Owed(r) /\ p \notin Owed(r)'
    BY <1>1 DEF Owed
  <2> QED  BY <1>1, <2>1, <2>2, OtherPool
<1> QED  BY <1>2, <1>3, <1>4 DEF BInv

LEMMA DeqBodyKeeps ==
  ASSUME BInv, SingleReceiver, NEW p \in Proc, DeqBody(p)
  PROVE  BInv'
<1>1. Body(p, "deq")
  BY DEF DeqBody
<1>2. /\ TypesOK /\ OwnOK /\ PlaceOK(p) /\ reg[p] \in Regs
      /\ pc[p] \in {<<"deq", "enter">>, <<"deq", "body">>}
      /\ pc' \in [Proc -> Places] /\ \A q \in Proc : q # p => pc'[q] = pc[q]
      /\ UNCHANGED <<nbpools, bpnext, bpmaxused, word, sem>>
  BY <1>1, BodyFacts
<1>3. PICK b : b = q_elt[0]
  OBVIOUS
<1>4. /\ reg' = [reg EXCEPT ![p].buf = b] /\ q_count' = q_count - 1
      /\ q_elt' = Closed(q_elt) /\ q_key' = Closed(q_key)
  BY <1>3 DEF DeqBody
<1>5. reg[p].buf = NULL /\ p \in Receivers /\ q_count > 0 /\ q_count \in Nat
  BY <1>2 DEF PlaceOK, TypesOK
<1>6. 0 \in 0..(q_count - 1) /\ q_count - 1 \in Nat
  BY <1>5
<1>7. b \in Buf /\ b \notin Held /\ b # NULL /\ b \in Queued
  BY <1>2, <1>3, <1>6, BufferFacts DEF OwnOK, Queued
<1>8. reg'[p].buf = b /\ Others(p) /\ reg' \in [Proc -> Regs]
  BY <1>2, <1>4, <1>7 DEF Others, TypesOK, Regs
<1>9. \A j \in 0..(q_count - 2) : /\ j + 1 \in 0..(q_count - 1) /\ j \in 0..(q_count - 1)
                                  /\ j \in Slot /\ q_elt'[j] = q_elt[j + 1]
  <2> SUFFICES ASSUME NEW j \in 0..(q_count - 2)
               PROVE  /\ j + 1 \in 0..(q_count - 1) /\ j \in 0..(q_count - 1)
                      /\ j \in Slot /\ q_elt'[j] = q_elt[j + 1]
    OBVIOUS
  <2>1. j + 1 \in 0..(q_count - 1) /\ j \in 0..(q_count - 1) /\ j + 1 < q_count
    BY <1>5
  <2>2. j \in Slot
    BY <1>2, <2>1 DEF OwnOK
  <2> QED  BY <1>4, <2>1, <2>2 DEF Closed
<1>10. TypesOK'
  <2>1. ASSUME NEW S, NEW arr \in [Slot -> S] PROVE Closed(arr) \in [Slot -> S]
    <3>1. ASSUME NEW j \in Slot, j + 1 < q_count PROVE j + 1 \in Slot
      <4>1. j + 1 \in 0..(q_count - 1)
        BY <1>5, <3>1, Constants DEF Slot
      <4> QED  BY <1>2, <4>1 DEF OwnOK
    <3> QED  BY <3>1 DEF Closed
  <2>2. q_elt' \in [Slot -> Buf \cup {NULL}] /\ q_key' \in [Slot -> Nat]
    BY <1>2, <1>4, <2>1 DEF TypesOK
  <2> QED  BY <1>2, <1>4, <1>6, <1>8, <2>2 DEF TypesOK
<1>11. (q_count - 1) - 1 = q_count - 2
  BY <1>5
<1>12. Queued' = Queued \ {b}
  <2>1. ASSUME NEW z \in Queued' PROVE z \in Queued \ {b}
    <3>1. PICK j \in 0..(q_count - 2) : z = q_elt'[j]
      BY <1>4, <1>11, <2>1 DEF Queued
    <3>2. z = q_elt[j + 1] /\ j + 1 \in 0..(q_count - 1) /\ j + 1 # 0
      BY <1>9, <3>1
    <3>3. z # b
      BY <1>2, <1>3, <1>6, <3>2 DEF OwnOK
    <3> QED  BY <3>2, <3>3 DEF Queued
  <2>2. ASSUME NEW z \in Queued, z # b PROVE z \in Queued'
    <3>1. PICK j \in 0..(q_count - 1) : z = q_elt[j]
      BY DEF Queued
    <3>2. j # 0
      BY <1>3, <2>2, <3>1
    <3>3. j - 1 \in 0..(q_count - 2) /\ (j - 1) + 1 = j
      BY <1>5, <3>2
    <3>4. q_elt'[j - 1] = z
      BY <1>9, <3>1, <3>3
    <3> QED  BY <1>4, <1>11, <3>3, <3>4 DEF Queued
  <2> QED  BY <2>1, <2>2
<1>13. \A z : z # NULL => (z \in Held' <=> z \in Held \/ z = b)
  <2>1. ASSUME NEW z, z # NULL PROVE z \in Held' <=> z \in Held \/ z = b
    <3>1. ASSUME z \in Held' PROVE z \in Held \/ z = b
      <4>1. PICK q \in Proc : z = reg'[q].buf
        BY <3>1 DEF Held
      <4> QED  BY <1>8, <4>1 DEF Others, Held
    <3>2. ASSUME z \in Held PROVE z \in Held'
      <4>1. PICK q \in Proc : z = reg[q].buf
        BY <3>2 DEF Held
      <4>2. q # p
        BY <1>5, <2>1, <4>1
      <4> QED  BY <1>8, <4>1, <4>2 DEF Others, Held
    <3>3. b \in Held'
      BY <1>8 DEF Held
    <3> QED  BY <3>1, <3>2, <3>3
  <2> QED  BY <2>1
<1>14. \A z : z # NULL => (z \in Used' <=> z \in Used)
  BY <1>7, <1>12, <1>13 DEF Used
<1>15. OwnOK'
  <2>1. \A q, s \in Proc : reg'[q].buf # NULL /\ reg'[q].buf = reg'[s].buf => q = s
    <3>1. \A q \in Proc : q # p => reg'[q].buf = reg[q].buf /\ reg[q].buf # b
      BY <1>7, <1>8 DEF Others, Held
    <3> QED  BY <1>2, <1>8, <3>1 DEF OwnOK
  <2>2. \A i \in 0..(q_count' - 1) : i \in Slot /\ q_elt'[i] \in Buf \ Held'
    <3> SUFFICES ASSUME NEW i \in 0..(q_count - 2) PROVE i \in Slot /\ q_elt'[i] \in Buf \ Held'
      BY <1>4, <1>11
    <3>1. i \in Slot /\ q_elt'[i] = q_elt[i + 1] /\ i + 1 \in 0..(q_count - 1) /\ i + 1 # 0
      BY <1>9
    <3>2. q_elt[i + 1] \in Buf /\ q_elt[i + 1] \notin Held /\ q_elt[i + 1] # b
      BY <1>2, <1>3, <1>6, <3>1 DEF OwnOK
    <3>3. q_elt[i + 1] # NULL
      BY <3>2, BufferFacts
    <3> QED  BY <1>13, <3>1, <3>2, <3>3
  <2>3. \A i, j \in 0..(q_count' - 1) : q_elt'[i] = q_elt'[j] => i = j
    <3> SUFFICES ASSUME NEW i \in 0..(q_count - 2), NEW j \in 0..(q_count - 2), q_elt'[i] = q_elt'[j]
                 PROVE  i = j
      BY <1>4, <1>11
    <3>1. i + 1 \in 0..(q_count - 1) /\ j + 1 \in 0..(q_count - 1) /\ q_elt[i + 1] = q_elt[j + 1]
      BY <1>9
    <3>2. i + 1 = j + 1
      BY <1>2, <3>1 DEF OwnOK
    <3> QED  BY <1>5, <3>2
  <2>4. \A c \in Used' \ {NULL} : word'[c] \in 0..(nbpools' - 1) /\ c \in BufsOf(word'[c])
    BY <1>2, <1>14 DEF OwnOK
  <2> QED  BY <2>1, <2>2, <2>3, <2>4 DEF OwnOK
<1> QED  BY <1>1, <1>5, <1>8, <1>10, <1>14, <1>15, BodyKeeps

LEMMA EnqBodyKeeps ==
  ASSUME Room, BInv, SingleReceiver, NEW p \in Proc, EnqBody(p)
  PROVE  BInv'
<1>1. Body(p, "enq")
  BY DEF EnqBody
<1>2. /\ TypesOK /\ OwnOK /\ PlaceOK(p) /\ reg[p] \in Regs
      /\ pc[p] \in {<<"enq", "enter">>, <<"enq", "body">>}
      /\ pc' \in [Proc -> Places] /\ \A q \in Proc : q # p => pc'[q] = pc[q]
      /\ UNCHANGED <<nbpools, bpnext, bpmaxused, word, sem>>
  BY <1>1, BodyFacts
<1>3. PICK b, key, count : b = reg[p].buf /\ key = reg[p].key /\ count = q_count
  OBVIOUS
<1>4. /\ b # NULL /\ b \in Buf /\ b \in Held /\ key \in Nat /\ count \in Nat
  BY <1>2, <1>3 DEF PlaceOK, TypesOK, Regs, Held
<1>5. count < QMAX /\ \A j \in 0..count : j \in Slot
  <2>1. count < QMAX
    BY <1>3, <1>4, QueueRoom
  <2>2. QMAX \in Nat /\ Cardinality(Proc) \in Nat
    BY Constants
  <2> QED  BY <1>4, <2>1, <2>2 DEF Slot
<1>6. PICK i : i = Place(key, count)
  OBVIOUS
<1>7. i \in 0..count
  <2>1. \A j \in 0..(count - 1) : j \in Slot
    BY <1>4, <1>5
  <2> QED  BY <1>2, <1>4, <1>6, <2>1, PlaceIsInside
<1>8. /\ q_elt' = Shifted(q_elt, i, count, b) /\ q_key' = Shifted(q_key, i, count, key)
      /\ q_count' = count + 1 /\ reg' = [reg EXCEPT ![p].buf = NULL, ![p].key = 0]
  <2>1. ~(q_count < 0)
    BY <1>3, <1>4
  <2>2. (IF q_count < 0 THEN 0 ELSE q_count) = count
    BY <1>3, <2>1
  <2> QED  BY <1>3, <1>6, <2>2 DEF EnqBody
<1>9. /\ q_elt' \in [Slot -> Buf \cup {NULL}] /\ q_elt'[i] = b
      /\ \A j \in 0..(i - 1) : q_elt'[j] = q_elt[j]
      /\ \A j \in i..(count - 1) : q_elt'[j + 1] = q_elt[j]
  <2>1. q_elt' \in [Slot -> Buf \cup {NULL}]
    BY <1>2, <1>4, <1>5, <1>7, <1>8, ShiftedType DEF TypesOK
  <2>2. \A j \in 0..count : q_elt'[j] = IF j = i THEN b ELSE IF j < i THEN q_elt[j] ELSE q_elt[j - 1]
    BY <1>4, <1>5, <1>7, <1>8, ShiftedValue
  <2>3. \A j \in 0..(i - 1) : j \in 0..count /\ j < i /\ j # i
    BY <1>4, <1>7
  <2>4. \A j \in i..(count - 1) : /\ j + 1 \in 0..count /\ ~(j + 1 < i) /\ j + 1 # i
                                  /\ (j + 1) - 1 = j
    BY <1>4, <1>7
  <2> QED  BY <1>7, <2>1, <2>2, <2>3, <2>4
<1>10. q_key' \in [Slot -> Nat]
  BY <1>2, <1>4, <1>5, <1>7, <1>8, ShiftedType DEF TypesOK
<1>11. reg'[p].buf = NULL /\ Others(p) /\ reg' \in [Proc -> Regs]
  <2>1. PICK r1 : r1 = [reg EXCEPT ![p].buf = NULL]
    OBVIOUS
  <2>2. r1 \in [Proc -> Regs]
    BY <1>2, <2>1 DEF TypesOK, Regs
  <2>3. reg' = [r1 EXCEPT ![p].key = 0]
    BY <1>8, <2>1
  <2>4. reg' \in [Proc -> Regs]
    BY <2>2, <2>3 DEF Regs
  <2>5. reg'[p].buf = NULL /\ Others(p)
    BY <1>2, <1>8 DEF Others, TypesOK, Regs
  <2> QED  BY <2>4, <2>5
<1>12. TypesOK'
  BY <1>2, <1>4, <1>8, <1>9, <1>10, <1>11 DEF TypesOK
(* Where an element of the new queue was.                                  *)
<1>13. ASSUME NEW j \in 0..count, j # i
       PROVE  \E k \in 0..(count - 1) : /\ q_elt'[j] = q_elt[k]
                                        /\ k = (IF j < i THEN j ELSE j - 1)
  <2>1. CASE j < i
    <3>1. j \in 0..(i - 1) /\ j \in 0..(count - 1)
      BY <1>4, <1>7, <2>1
    <3> QED  BY <1>9, <2>1, <3>1
  <2>2. CASE ~(j < i)
    <3>1. j - 1 \in i..(count - 1) /\ (j - 1) + 1 = j /\ j - 1 \in 0..(count - 1)
      BY <1>4, <1>7, <1>13, <2>2
    <3> QED  BY <1>9, <2>2, <3>1
  <2> QED  BY <2>1, <2>2
<1>14. \A k \in 0..(count - 1) : /\ k \in 0..(q_count - 1) /\ q_elt[k] \in Buf /\ q_elt[k] \notin Held
                                 /\ q_elt[k] # NULL /\ q_elt[k] # b
  BY <1>2, <1>3, <1>4, BufferFacts DEF OwnOK
<1>15. \A z : z # NULL => (z \in Held' <=> z \in Held /\ z # b)
  BY <1>2, <1>3, <1>4, <1>11, UsedShrinks
<1>16. q_count' - 1 = count
  BY <1>4, <1>8
<1>17. Queued' = Queued \cup {b}
  <2>1. ASSUME NEW z \in Queued' PROVE z \in Queued \cup {b}
    <3>1. PICK j \in 0..count : z = q_elt'[j]
      BY <1>16 DEF Queued
    <3>2. CASE j = i
      BY <1>9, <3>1, <3>2
    <3>3. CASE j # i
      <4>1. PICK k \in 0..(count - 1) : q_elt'[j] = q_elt[k]
        BY <1>13, <3>3
      <4> QED  BY <1>3, <3>1, <4>1 DEF Queued
    <3> QED  BY <3>2, <3>3
  <2>2. b \in Queued'
    BY <1>7, <1>9, <1>16 DEF Queued
  <2>3. ASSUME NEW z \in Queued PROVE z \in Queued'
    <3>1. PICK k \in 0..(count - 1) : z = q_elt[k]
      BY <1>3 DEF Queued
    <3>2. CASE k < i
      <4>1. k \in 0..(i - 1) /\ k \in 0..count
        BY <1>4, <1>7, <3>2
      <4> QED  BY <1>9, <1>16, <3>1, <4>1 DEF Queued
    <3>3. CASE ~(k < i)
      <4>1. k \in i..(count - 1) /\ k + 1 \in 0..count
        BY <1>4, <1>7, <3>3
      <4> QED  BY <1>9, <1>16, <3>1, <4>1 DEF Queued
    <3> QED  BY <3>2, <3>3
  <2> QED  BY <2>1, <2>2, <2>3
<1>18. \A z : z # NULL => (z \in Used' <=> z \in Used)
  BY <1>4, <1>15, <1>17 DEF Used
<1>19. OwnOK'
  <2>1. \A q, s \in Proc : reg'[q].buf # NULL /\ reg'[q].buf = reg'[s].buf => q = s
    <3>1. \A q \in Proc : q # p => reg'[q].buf = reg[q].buf
      BY <1>11 DEF Others
    <3> QED  BY <1>2, <1>11, <3>1 DEF OwnOK
  <2>2. \A j \in 0..(q_count' - 1) : j \in Slot /\ q_elt'[j] \in Buf \ Held'
    <3> SUFFICES ASSUME NEW j \in 0..count PROVE j \in Slot /\ q_elt'[j] \in Buf \ Held'
      BY <1>16
    <3>1. CASE j = i
      BY <1>4, <1>5, <1>9, <1>15, <3>1
    <3>2. CASE j # i
      <4>1. PICK k \in 0..(count - 1) : q_elt'[j] = q_elt[k]
        BY <1>13, <3>2
      <4> QED  BY <1>5, <1>14, <1>15, <4>1
    <3> QED  BY <3>1, <3>2
  <2>3. \A j, k \in 0..(q_count' - 1) : q_elt'[j] = q_elt'[k] => j = k
    <3> SUFFICES ASSUME NEW j \in 0..count, NEW k \in 0..count, q_elt'[j] = q_elt'[k] PROVE j = k
      BY <1>16
    <3>1. ASSUME j = i PROVE k = i
      <4> SUFFICES ASSUME k # i PROVE FALSE
        OBVIOUS
      <4>1. PICK m \in 0..(count - 1) : q_elt'[k] = q_elt[m]
        BY <1>13
      <4> QED  BY <1>9, <1>14, <3>1, <4>1
    <3>2. ASSUME k = i PROVE j = i
      <4> SUFFICES ASSUME j # i PROVE FALSE
        OBVIOUS
      <4>1. PICK m \in 0..(count - 1) : q_elt'[j] = q_elt[m]
        BY <1>13
      <4> QED  BY <1>9, <1>14, <3>2, <4>1
    <3>3. CASE j # i /\ k # i
      <4>1. PICK m \in 0..(count - 1) : q_elt'[j] = q_elt[m] /\ m = (IF j < i THEN j ELSE j - 1)
        BY <1>13, <3>3
      <4>2. PICK n \in 0..(count - 1) : q_elt'[k] = q_elt[n] /\ n = (IF k < i THEN k ELSE k - 1)
        BY <1>13, <3>3
      <4>3. m = n
        BY <1>2, <1>14, <4>1, <4>2 DEF OwnOK
      <4>4. (IF j < i THEN j ELSE j - 1) = (IF k < i THEN k ELSE k - 1)
        BY <4>1, <4>2, <4>3
      <4> QED  BY <1>7, <3>3, <4>4
    <3> QED  BY <3>1, <3>2, <3>3
  <2>4. \A c \in Used' \ {NULL} : word'[c] \in 0..(nbpools' - 1) /\ c \in BufsOf(word'[c])
    BY <1>2, <1>18 DEF OwnOK
  <2> QED  BY <2>1, <2>2, <2>3, <2>4 DEF OwnOK
<1>20. q_count' >= q_count
  BY <1>3, <1>4, <1>8
<1> QED  BY <1>1, <1>11, <1>12, <1>18, <1>19, <1>20, BodyKeeps

-----------------------------------------------------------------------------
LEMMA NextBInv ==
  ASSUME Room, SingleReceiver, BInv, [Next]_vars
  PROVE  BInv'
<1>1. CASE UNCHANGED vars
  <2>1. UNCHANGED <<nbpools, bpnext, bpmaxused, word, sem, pc, reg, q_count, q_elt, q_key>>
    BY <1>1 DEF vars, poolVars, queueVars
  <2>2. Held' = Held /\ Queued' = Queued
    BY <2>1 DEF Held, Queued
  <2>3. Used' = Used /\ \A pool \in Pool : FreeOf(pool)' = FreeOf(pool) /\ Owed(pool)' = Owed(pool)
    BY <2>1, <2>2 DEF Used, FreeOf, Owed
  <2>4. TypesOK' /\ SemsOK' /\ OwnOK'
    BY <2>1, <2>2, <2>3 DEF BInv, TypesOK, SemsOK, OwnOK
  <2>5. \A p \in Proc : PlaceOK(p)'
    BY <2>1 DEF BInv, PlaceOK
  <2>6. \A pool \in Pool : PoolOK(pool)'
    BY <2>1, <2>3 DEF BInv, PoolOK
  <2> QED  BY <2>4, <2>5, <2>6 DEF BInv
<1>2. ASSUME NEW p \in Proc, Call(p) PROVE BInv'
  <2>1. CASE Mkpool(p) /\ UNCHANGED queueVars
    BY <2>1, MkpoolKeeps
  <2>2. ASSUME NEW pool \in Pool, Getbuf(p, pool), UNCHANGED queueVars PROVE BInv'
    BY <2>2, GetbufKeeps
  <2>3. ASSUME NEW pool \in Pool, Nbgetbuf(p, pool), UNCHANGED queueVars PROVE BInv'
    BY <2>3, NbgetbufKeeps
  <2>4. CASE Send(p)
    BY <2>4, EnqKeeps DEF Send
  <2>5. CASE p \in Receivers /\ Deq(p)
    BY <2>5, DeqKeeps
  <2>6. CASE Freebuf(p) /\ UNCHANGED queueVars
    BY <2>6, FreebufKeeps
  <2> QED  BY <1>2, <2>1, <2>2, <2>3, <2>4, <2>5, <2>6 DEF Call
<1>3. ASSUME NEW p \in Proc, Step(p) PROVE BInv'
  <2>1. CASE PoolStep(p) /\ UNCHANGED queueVars
    BY <2>1, GetbufCountKeeps, GetbufTestKeeps, GetbufStoreKeeps, GetbufTakeKeeps,
       FreebufSignalKeeps DEF PoolStep
  <2>2. CASE QueueStep(p)
    BY <2>2, EnqBodyKeeps, DeqBodyKeeps, AcquireKeeps, ReleaseKeeps DEF QueueStep
  <2> QED  BY <1>3, <2>1, <2>2 DEF Step
<1> QED  BY <1>1, <1>2, <1>3 DEF Next

(* Who holds or awaits what while getbuf, freebuf, enq and deq interleave: *)
(* with one receiver and room for every buffer, BInv always holds.         *)
THEOREM BuffersInvariant == Room /\ SingleReceiver => (Spec => []BInv)
<1> SUFFICES ASSUME Room, SingleReceiver PROVE Spec => []BInv
  OBVIOUS
<1>1. Init => BInv
  BY InitBInv
<1>2. BInv /\ [Next]_vars => BInv'
  BY NextBInv
<1> QED  BY <1>1, <1>2, PTL DEF Spec

-----------------------------------------------------------------------------
(* Following the links reads the list, and ends at NULL.                   *)
Stepped(l, w) == IF Last(l) \in Buf THEN Append(l, w[Last(l)]) ELSE l

SeenLen(m, k) == IF k < Len(m) THEN k + 1 ELSE Len(m) + 1
Seen(m, k)    == [i \in 1..SeenLen(m, k) |-> NextFree(m, i - 1)]

LEMMA SeenIsSeq ==
  ASSUME NEW m \in Seq(Buf), NEW k \in Nat
  PROVE  /\ Seen(m, k) \in Seq(Buf \cup {NULL}) /\ Len(Seen(m, k)) = SeenLen(m, k)
         /\ \A i \in 1..SeenLen(m, k) : Seen(m, k)[i] = NextFree(m, i - 1)
         /\ Last(Seen(m, k)) = NextFree(m, SeenLen(m, k) - 1)
<1> DEFINE n == SeenLen(m, k)
<1>1. Len(m) \in Nat /\ n \in Nat /\ n > 0 /\ n <= Len(m) + 1
  BY LenProperties DEF SeenLen
<1>2. \A i \in 1..n : NextFree(m, i - 1) \in Buf \cup {NULL}
  <2> SUFFICES ASSUME NEW i \in 1..n PROVE NextFree(m, i - 1) \in Buf \cup {NULL}
    OBVIOUS
  <2>1. i - 1 < Len(m) => (i - 1) + 1 \in 1..Len(m)
    BY <1>1
  <2> QED  BY <2>1, ElementOfSeq DEF NextFree
<1>3. PICK s : s = Seen(m, k)
  OBVIOUS
<1>4. s = [i \in 1..n |-> NextFree(m, i - 1)]
  BY <1>3 DEF Seen
<1> HIDE DEF n
<1>5. s \in [1..n -> Buf \cup {NULL}] /\ \A i \in 1..n : s[i] = NextFree(m, i - 1)
  BY <1>2, <1>4
<1>6. s \in Seq(Buf \cup {NULL}) /\ Len(s) = n
  BY <1>1, <1>5, LenProperties
<1>7. Last(s) = NextFree(m, n - 1)
  <2>1. n \in 1..n
    BY <1>1
  <2> QED  BY <1>5, <1>6, <2>1 DEF Last
<1> QED  BY <1>1, <1>3, <1>5, <1>6, <1>7 DEF n

LEMMA WalkGoesOn ==
  ASSUME NEW m \in Seq(Buf), NEW w, \A i \in 1..Len(m) : w[m[i]] = NextFree(m, i), NEW k \in Nat
  PROVE  Stepped(Seen(m, k), w) = Seen(m, k + 1)
<1>1. Len(m) \in Nat /\ k + 1 \in Nat
  BY LenProperties
<1>2. PICK s, t : s = Seen(m, k) /\ t = Seen(m, k + 1)
  OBVIOUS
<1>3. CASE k < Len(m)
  <2>1. /\ s \in Seq(Buf \cup {NULL}) /\ Len(s) = k + 1
        /\ \A i \in 1..(k + 1) : s[i] = NextFree(m, i - 1)
        /\ Last(s) = NextFree(m, (k + 1) - 1)
    <3>1. SeenLen(m, k) = k + 1
      BY <1>3 DEF SeenLen
    <3> QED  BY <1>2, <3>1, SeenIsSeq
  <2>2. /\ t \in Seq(Buf \cup {NULL}) /\ Len(t) = k + 2
        /\ \A i \in 1..(k + 2) : t[i] = NextFree(m, i - 1)
    <3>1. SeenLen(m, k + 1) = k + 2
      BY <1>1, <1>3 DEF SeenLen
    <3> QED  BY <1>1, <1>2, <3>1, SeenIsSeq
  <2>3. Last(s) = m[k + 1] /\ k + 1 \in 1..Len(m) /\ m[k + 1] \in Buf
    <3>1. (k + 1) - 1 = k /\ k + 1 \in 1..Len(m)
      BY <1>1, <1>3
    <3> QED  BY <1>3, <2>1, <3>1, ElementOfSeq DEF NextFree
  <2>4. PICK e : e = w[m[k + 1]]
    OBVIOUS
  <2>5. e = NextFree(m, k + 1) /\ e = t[k + 2] /\ e \in Buf \cup {NULL}
    <3>1. (k + 2) - 1 = k + 1 /\ k + 2 \in 1..(k + 2)
      OBVIOUS
    <3>2. e = NextFree(m, k + 1)
      BY <2>3, <2>4
    <3> QED  BY <2>2, <3>1, <3>2, ElementOfSeq
  <2>6. Stepped(s, w) = Append(s, e)
    BY <2>3, <2>4 DEF Stepped
  <2>7. Append(s, e) = t
    <3>1. Append(s, e) \in Seq(Buf \cup {NULL}) /\ Len(Append(s, e)) = Len(t)
      BY <2>1, <2>2, <2>5, AppendProperties
    <3>2. ASSUME NEW i \in 1..Len(t) PROVE Append(s, e)[i] = t[i]
      <4>1. CASE i = k + 2
        BY <2>1, <2>5, <4>1, AppendProperties
      <4>2. CASE i # k + 2
        <5>1. i \in 1..(k + 1) /\ i \in 1..(k + 2) /\ i \in 1..Len(s)
          BY <2>1, <2>2, <4>2
        <5>2. Append(s, e)[i] = s[i]
          BY <2>1, <2>5, <5>1, AppendProperties
        <5> QED  BY <2>1, <2>2, <5>1, <5>2
      <4> QED  BY <4>1, <4>2
    <3> QED  BY <2>2, <3>1, <3>2, SeqEqual
  <2> QED  BY <1>2, <2>6, <2>7
<1>4. CASE ~(k < Len(m))
  <2>1. Last(s) = NextFree(m, (Len(m) + 1) - 1)
    <3>1. SeenLen(m, k) = Len(m) + 1
      BY <1>4 DEF SeenLen
    <3> QED  BY <1>2, <3>1, SeenIsSeq
  <2>2. Last(s) = NULL
    <3>1. (Len(m) + 1) - 1 = Len(m) /\ ~(Len(m) < Len(m))
      BY <1>1
    <3> QED  BY <2>1, <3>1 DEF NextFree
  <2>3. Stepped(s, w) = s
    BY <2>2, BufferFacts DEF Stepped
  <2>4. s = t
    <3>1. ~(k + 1 < Len(m))
      BY <1>1, <1>4
    <3> QED  BY <1>2, <1>4, <3>1 DEF Seen, SeenLen
  <2> QED  BY <1>2, <2>3, <2>4
<1> QED  BY <1>3, <1>4

LEMMA WalkIsSeen ==
  ASSUME NEW pool, NEW m \in Seq(Buf), Links(m, bpnext[pool], word)
  PROVE  Walk(pool) = Seen(m, NumBufs)
<1> DEFINE Rec(f) == f = [n \in 0..NumBufs |-> IF n = 0 THEN <<bpnext[pool]>>
                                               ELSE Stepped(f[n - 1], word)]
           g == [k \in 0..NumBufs |-> Seen(m, k)]
<1>1. NumBufs \in Nat /\ Len(m) \in Nat
  BY Constants, LenProperties
<1>2. <<bpnext[pool]>> = Seen(m, 0)
  <2>1. bpnext[pool] = NextFree(m, 0)
    BY DEF Links
  <2>2. PICK s : s = Seen(m, 0)
    OBVIOUS
  <2>3. 0 \in Nat /\ SeenLen(m, 0) = 1
    BY <1>1 DEF SeenLen
  <2>4. s \in Seq(Buf \cup {NULL}) /\ Len(s) = 1 /\ \A i \in 1..1 : s[i] = NextFree(m, i - 1)
    BY <2>2, <2>3, SeenIsSeq
  <2>5. s[1] = bpnext[pool] /\ bpnext[pool] \in Buf \cup {NULL}
    <3>1. 1 \in 1..1 /\ 1 - 1 = 0 /\ 1 \in 1..Len(s)
      BY <2>4
    <3> QED  BY <2>1, <2>4, <3>1, ElementOfSeq, ZenonT(30)
  <2>6. /\ <<bpnext[pool]>> \in Seq(Buf \cup {NULL}) /\ Len(<<bpnext[pool]>>) = 1
        /\ <<bpnext[pool]>>[1] = bpnext[pool]
    BY <2>5
  <2> QED  BY <2>2, <2>4, <2>5, <2>6, SeqEqual
<1>3. \A k \in 1..NumBufs : Seen(m, k) = Stepped(Seen(m, k - 1), word)
  <2> SUFFICES ASSUME NEW k \in 1..NumBufs PROVE Seen(m, k) = Stepped(Seen(m, k - 1), word)
    OBVIOUS
  <2>1. k - 1 \in Nat /\ (k - 1) + 1 = k
    BY <1>1
  <2>2. Stepped(Seen(m, k - 1), word) = Seen(m, (k - 1) + 1)
    BY <2>1, WalkGoesOn DEF Links
  <2> QED  BY <2>1, <2>2
<1>4. Rec(g)
  <2>1. ASSUME NEW k \in 0..NumBufs
        PROVE  g[k] = IF k = 0 THEN <<bpnext[pool]>> ELSE Stepped(g[k - 1], word)
    <3>1. CASE k = 0
      BY <1>1, <1>2, <3>1
    <3>2. CASE k # 0
      <4>1. k \in 1..NumBufs /\ k - 1 \in 0..NumBufs
        BY <1>1, <3>2
      <4> QED  BY <1>3, <3>2, <4>1
    <3> QED  BY <3>1, <3>2
  <2> QED  BY <2>1
<1> DEFINE upto == CHOOSE f : Rec(f)
<1>5. Walk(pool) = upto[NumBufs]
  BY DEF Walk, Stepped
<1>6. Rec(upto)
  <2> HIDE DEF Rec, g
  <2> QED  BY <1>4
<1> HIDE DEF upto
<1>7. \A k \in 0..NumBufs : upto[k] = IF k = 0 THEN <<bpnext[pool]>> ELSE Stepped(upto[k - 1], word)
  BY <1>6
<1>8. \A k \in 0..NumBufs : upto[k] = Seen(m, k)
  <2> DEFINE Odd == {k \in 0..NumBufs : upto[k] # Seen(m, k)}
  <2> SUFFICES ASSUME Odd # {} PROVE FALSE
    OBVIOUS
  <2>1. PICK k \in Odd : \A j \in Odd : k <= j
    <3>1. Odd \subseteq Nat
      BY <1>1
    <3> HIDE DEF Odd
    <3> QED  BY <3>1, LeastNat, Zenon
  <2>2. k \in 0..NumBufs /\ upto[k] # Seen(m, k)
    OBVIOUS
  <2>3. k # 0
    BY <1>1, <1>2, <1>7, <2>2
  <2>4. k \in 1..NumBufs /\ k - 1 \in 0..NumBufs /\ ~(k <= k - 1)
    <3> HIDE DEF Odd
    <3> QED  BY <1>1, <2>2, <2>3
  <2>5. k - 1 \notin Odd
    <3> HIDE DEF Odd
    <3> QED  BY <2>1, <2>4
  <2>6. upto[k - 1] = Seen(m, k - 1)
    BY <2>4, <2>5
  <2>7. upto[k] = Stepped(upto[k - 1], word)
    <3> HIDE DEF Odd
    <3> QED  BY <1>7, <2>3, <2>4
  <2> QED  BY <1>3, <2>2, <2>4, <2>6, <2>7
<1> QED  BY <1>1, <1>5, <1>8

(* The list of a pool is its free buffers.                                 *)
LEMMA ChainIsFree ==
  ASSUME BInv, NEW pool \in Pool, pool < nbpools
  PROVE  /\ Last(Walk(pool)) = NULL
         /\ Chain(pool) \in Seq(Buf) /\ Holds(Chain(pool), FreeOf(pool))
         /\ Len(Chain(pool)) = Cardinality(FreeOf(pool))
<1>1. PICK m \in Seq(Buf) : Holds(m, FreeOf(pool)) /\ Links(m, bpnext[pool], word)
  BY PoolBalance DEF ListOf
<1>2. Len(m) = Cardinality(FreeOf(pool)) /\ Len(m) \in Nat /\ Len(m) <= NumBufs /\ NumBufs \in Nat
  BY <1>1, HoldsLen, PoolCounts, Constants
<1>3. PICK s : s = Walk(pool)
  OBVIOUS
<1>4. /\ s \in Seq(Buf \cup {NULL}) /\ Len(s) = Len(m) + 1
      /\ \A i \in 1..(Len(m) + 1) : s[i] = NextFree(m, i - 1)
      /\ Last(s) = NextFree(m, (Len(m) + 1) - 1)
  <2>1. s = Seen(m, NumBufs)
    BY <1>1, <1>3, WalkIsSeen
  <2>2. SeenLen(m, NumBufs) = Len(m) + 1
    BY <1>2 DEF SeenLen
  <2> QED  BY <1>2, <2>1, <2>2, SeenIsSeq
<1>5. Last(s) = NULL
  <2>1. (Len(m) + 1) - 1 = Len(m) /\ ~(Len(m) < Len(m))
    BY <1>2
  <2> QED  BY <1>4, <2>1 DEF NextFree
<1>6. Front(s) = m
  <2>1. Front(s) = SubSeq(s, 1, Len(m))
    <3>1. Len(s) - 1 = Len(m)
      BY <1>2, <1>4
    <3> QED  BY <3>1 DEF Front
  <2>2. /\ SubSeq(s, 1, Len(m)) \in Seq(Buf \cup {NULL}) /\ Len(SubSeq(s, 1, Len(m))) = Len(m)
        /\ \A i \in 1..Len(m) : SubSeq(s, 1, Len(m))[i] = s[i]
    <3>1. 1 \in 1..(Len(s) + 1) /\ Len(m) \in 0..Len(s) /\ Len(m) - 1 + 1 = Len(m)
      BY <1>2, <1>4
    <3> QED  BY <1>2, <1>4, <3>1, SubSeqProperties
  <2>3. \A i \in 1..Len(m) : s[i] = m[i]
    <3> SUFFICES ASSUME NEW i \in 1..Len(m) PROVE s[i] = m[i]
      OBVIOUS
    <3>1. i \in 1..(Len(m) + 1) /\ i - 1 < Len(m) /\ (i - 1) + 1 = i
      BY <1>2
    <3> QED  BY <1>4, <3>1 DEF NextFree
  <2>4. m \in Seq(Buf \cup {NULL})
    BY <1>1
  <2> QED  BY <2>1, <2>2, <2>3, <2>4, SeqEqual
<1>7. Chain(pool) = m
  BY <1>3, <1>6 DEF Chain
<1> QED  BY <1>1, <1>2, <1>3, <1>5, <1>7

-----------------------------------------------------------------------------
LEMMA DisjointCount ==
  ASSUME NEW S, IsFiniteSet(S), NEW T, IsFiniteSet(T), S \cap T = {}
  PROVE  Cardinality(S \cup T) = Cardinality(S) + Cardinality(T)
<1>1. PICK a, b : a = Cardinality(S) /\ b = Cardinality(T)
  OBVIOUS
<1>2. a \in Nat /\ b \in Nat
  BY <1>1, FS_CardinalityType
<1>3. PICK U : U = S \cap T
  OBVIOUS
<1>4. PICK c : c = Cardinality(U)
  OBVIOUS
<1>5. c = 0
  <2>1. U = {}
    BY <1>3
  <2>2. Cardinality(U) = 0
    BY <2>1, FS_EmptySet
  <2> QED  BY <1>4, <2>2
<1>6. Cardinality(S \cup T) = a + b - c
  <2>1. Cardinality(S \cup T) = Cardinality(S) + Cardinality(T) - Cardinality(S \cap T)
    BY FS_Union
  <2> QED  BY <1>1, <1>3, <1>4, <2>1, Zenon
<1> QED  BY <1>1, <1>2, <1>5, <1>6

(* The variables have their types and the queue never overflows: enq and   *)
(* deq of gpq.c test the count before they take the mutex, and with one    *)
(* receiver and room for every buffer the test is still good.              *)
THEOREM BuffersTyped == Room /\ SingleReceiver => (Spec => []BuffersTypeOK)
<1> SUFFICES ASSUME Room, SingleReceiver PROVE Spec => []BuffersTypeOK
  OBVIOUS
<1>1. BInv => BuffersTypeOK
  <2> SUFFICES ASSUME BInv PROVE BuffersTypeOK
    OBVIOUS
  <2>1. TypesOK /\ SemsOK
    BY DEF BInv
  <2>2. ASSUME NEW s \in DOMAIN sem PROVE sem[s].cnt \in Int /\ Range(sem[s].q) \subseteq Proc
    <3>1. s \in Pool \cup {MUTEX} /\ SemOK(sem[s])
      BY <2>1 DEF SemsOK
    <3>2. sem[s].cnt \in Int /\ DOMAIN sem[s].q = 1..Len(sem[s].q)
      BY <3>1, SemFacts, LenProperties
    <3>3. \A i \in 1..Len(sem[s].q) : sem[s].q[i] \in Proc
      BY <3>1, SemFacts, ElementOfSeq
    <3> QED  BY <3>2, <3>3 DEF Range
  <2>3. \A p \in Proc : reg[p].buf \in Buf \cup {NULL}
    BY <2>1 DEF TypesOK, Regs
  <2>4. q_count \in 0..QMAX
    BY QueueRoom
  <2> QED  BY <2>1, <2>2, <2>3, <2>4 DEF BuffersTypeOK, TypesOK, Most
<1>2. Spec => []BInv
  BY BuffersInvariant
<1> QED  BY <1>1, <1>2, PTL

(* The semaphore and the list of a pool, which getbuf.c and freebuf.c      *)
(* change apart, agree: who passes the wait finds a buffer on the list.    *)
THEOREM TakersAlwaysFindBuffer == Room /\ SingleReceiver => (Spec => []TakersFindBuffer)
<1> SUFFICES ASSUME Room, SingleReceiver PROVE Spec => []TakersFindBuffer
  OBVIOUS
<1>1. BInv => TakersFindBuffer
  <2> SUFFICES ASSUME BInv, NEW pool \in 0..(nbpools - 1),
                      NEW takers, takers = {p \in Proc : /\ reg[p].pool = pool
                                                         /\ pc[p][1] = "getbuf"
                                                         /\ ~Contains(sem[pool].q, p)},
                      NEW freers, freers = {p \in Proc : /\ pc[p] = <<"freebuf", "signal">>
                                                         /\ reg[p].pool = pool}
               PROVE  /\ Len(Chain(pool)) = sem[pool].cnt + Len(sem[pool].q)
                                              + Cardinality(takers) + Cardinality(freers)
                      /\ Len(sem[pool].q) = IF sem[pool].cnt < 0 THEN -sem[pool].cnt ELSE 0
    BY DEF TakersFindBuffer
  <2>1. TypesOK /\ SemsOK /\ pool \in Pool /\ pool < nbpools
    BY Constants DEF BInv, TypesOK, Pool
  <2>2. SemOK(sem[pool]) /\ IsFiniteSet(Owed(pool)) /\ Cardinality(Owed(pool)) \in Nat
    BY <2>1, PoolCounts
  <2>3. Len(Chain(pool)) = sem[pool].cnt + Len(sem[pool].q) + Cardinality(Owed(pool))
    BY <2>1, ChainIsFree, PoolBalance
  <2>4. Owed(pool) = takers \cup freers /\ takers \cap freers = {}
    <3>1. \A p \in Proc : Contains(sem[pool].q, p) <=> p \in ToSet(sem[pool].q)
      BY <2>2, InQueue
    <3>2. \A p \in Proc : pc[p] = <<"freebuf", "signal">> <=> pc[p][1] = "freebuf"
      <4> SUFFICES ASSUME NEW p \in Proc PROVE pc[p] = <<"freebuf", "signal">> <=> pc[p][1] = "freebuf"
        OBVIOUS
      <4>1. pc[p] \in Places
        BY <2>1 DEF TypesOK
      <4> QED  BY <4>1 DEF Places, User
    <3>3. \A p \in ToSet(sem[pool].q) : pc[p] = <<"getbuf", "count">>
      BY <2>1 DEF SemsOK
    <3>4. \A p \in Proc : pc[p][1] = "freebuf" => p \notin ToSet(sem[pool].q)
      BY <3>3
    <3> QED  BY <3>1, <3>2, <3>4 DEF Owed
  <2>5. IsFiniteSet(takers) /\ IsFiniteSet(freers)
    BY Constants, FS_Subset
  <2>6. Cardinality(takers) \in Nat /\ Cardinality(freers) \in Nat 
    BY <2>5, FS_CardinalityType
  <2>7. Cardinality(Owed(pool)) = Cardinality(takers) + Cardinality(freers)
    BY <2>4, <2>5, DisjointCount
  <2>8. sem[pool].cnt \in Int /\ Len(sem[pool].q) \in Nat
    BY <2>2, SemFacts
  <2>9. Len(Chain(pool)) = sem[pool].cnt + Len(sem[pool].q) + Cardinality(takers) + Cardinality(freers)
    BY <2>3, <2>6, <2>7, <2>8
  <2> QED  BY <2>2, <2>9 DEF SemOK
<1>2. Spec => []BInv
  BY BuffersInvariant
<1> QED  BY <1>1, <1>2, PTL

(* Every buffer of a pool is on its pool's list, with one process or once  *)
(* in the queue, whatever the order of getbuf, freebuf, enq and deq.       *)
THEOREM BuffersAlwaysConserved == Room /\ SingleReceiver => (Spec => []BuffersConserved)
<1> SUFFICES ASSUME Room, SingleReceiver PROVE Spec => []BuffersConserved
  OBVIOUS
<1>1. BInv => BuffersConserved
  <2> SUFFICES ASSUME BInv, NEW pool \in 0..(nbpools - 1),
                      NEW chain, chain = Chain(pool),
                      NEW held, held = {reg[p].buf : p \in HeldFrom(pool)},
                      NEW places, places = {i \in 0..(q_count - 1) : q_elt[i] \in BufsOf(pool)}
               PROVE  /\ Last(Walk(pool)) = NULL
                      /\ Len(chain) + Cardinality(HeldFrom(pool)) + Cardinality(places) = NumBufs
                      /\ Range(chain) \cup held \cup (Queued \cap BufsOf(pool)) = BufsOf(pool)
    BY DEF BuffersConserved
  <2> DEFINE queued == Queued \cap BufsOf(pool)
             free   == FreeOf(pool)
  <2>1. TypesOK /\ OwnOK /\ pool \in Pool /\ pool < nbpools
    BY Constants DEF BInv, TypesOK, Pool
  <2>2. Last(Walk(pool)) = NULL /\ chain \in Seq(Buf) /\ Holds(chain, free)
        /\ Len(chain) = Cardinality(free)
    BY <2>1, ChainIsFree
  <2>3. Range(chain) = free
    <3>1. free = {chain[i] : i \in 1..Len(chain)} /\ DOMAIN chain = 1..Len(chain)
      BY <2>2, HoldsByIndex, LenProperties
    <3> QED  BY <3>1 DEF Range
  <2>4. IsFiniteSet(BufsOf(pool)) /\ Cardinality(BufsOf(pool)) = NumBufs /\ NumBufs \in Nat
        /\ NULL \notin BufsOf(pool)
    BY <2>1, PoolAddresses, Constants, BufferFacts
  <2>5. held = Held \cap BufsOf(pool)
    BY DEF HeldFrom, Held
  <2>6. \A z \in Queued : z \notin Held
    BY <2>1 DEF OwnOK, Queued
  <2>7. /\ free \cup (held \cup queued) = BufsOf(pool) /\ free \cap (held \cup queued) = {}
        /\ held \cap queued = {}
    BY <2>5, <2>6 DEF FreeOf, Used
  <2>8. IsFiniteSet(free) /\ IsFiniteSet(held) /\ IsFiniteSet(queued) /\ IsFiniteSet(held \cup queued)
    <3>1. free \in SUBSET BufsOf(pool) /\ held \in SUBSET BufsOf(pool)
          /\ queued \in SUBSET BufsOf(pool) /\ held \cup queued \in SUBSET BufsOf(pool)
      BY <2>7
    <3> HIDE DEF free, queued
    <3> QED  BY <2>4, <3>1, FS_Subset
  <2>9. Cardinality(HeldFrom(pool)) = Cardinality(held)
    <3>1. PICK f : f = [p \in HeldFrom(pool) |-> reg[p].buf]
      OBVIOUS
    <3>2. f \in [HeldFrom(pool) -> held] /\ \A y \in held : \E p \in HeldFrom(pool) : f[p] = y
      BY <3>1
    <3>3. \A p, q \in HeldFrom(pool) : f[p] = f[q] => p = q
      <4> SUFFICES ASSUME NEW p \in HeldFrom(pool), NEW q \in HeldFrom(pool), f[p] = f[q] PROVE p = q
        OBVIOUS
      <4>1. p \in Proc /\ q \in Proc /\ reg[p].buf \in BufsOf(pool) /\ reg[p].buf = reg[q].buf
        BY <3>1 DEF HeldFrom
      <4>2. reg[p].buf # NULL
        BY <2>4, <4>1
      <4> QED  BY <2>1, <4>1, <4>2 DEF OwnOK
    <3> QED  BY <2>8, <3>2, <3>3, SameCount
  <2>10. Cardinality(places) = Cardinality(queued)
    <3>1. PICK f : f = [i \in places |-> q_elt[i]]
      OBVIOUS
    <3>2. f \in [places -> queued]
      BY <3>1 DEF Queued
    <3>3. \A y \in queued : \E i \in places : f[i] = y
      BY <3>1 DEF Queued
    <3>4. \A i, j \in places : f[i] = f[j] => i = j
      BY <2>1, <3>1 DEF OwnOK
    <3> HIDE DEF queued
    <3> QED  BY <2>8, <3>2, <3>3, <3>4, SameCount
  <2> HIDE DEF free, queued
  <2>11. /\ Cardinality(free) \in Nat /\ Cardinality(held) \in Nat /\ Cardinality(queued) \in Nat
         /\ Cardinality(held \cup queued) \in Nat
    BY <2>8, FS_CardinalityType
  <2>12. Cardinality(held \cup queued) = Cardinality(held) + Cardinality(queued)
    BY <2>7, <2>8, DisjointCount
  <2>13. NumBufs = Cardinality(free) + Cardinality(held \cup queued)
    <3>1. Cardinality(free \cup (held \cup queued)) = Cardinality(free) + Cardinality(held \cup queued)
      BY <2>7, <2>8, DisjointCount
    <3> QED  BY <2>4, <2>7, <3>1
  <2>14. Len(chain) + Cardinality(HeldFrom(pool)) + Cardinality(places) = NumBufs
    <3>1. PICK a, b, c : a = Cardinality(free) /\ b = Cardinality(held) /\ c = Cardinality(queued)
      OBVIOUS
    <3>2. a \in Nat /\ b \in Nat /\ c \in Nat /\ NumBufs = a + (b + c)
      BY <2>11, <2>12, <2>13, <3>1
    <3>3. Len(chain) = a /\ Cardinality(HeldFrom(pool)) = b /\ Cardinality(places) = c
      BY <2>2, <2>9, <2>10, <3>1 DEF free
    <3> QED  BY <3>2, <3>3
  <2>15. Range(chain) \cup held \cup queued = BufsOf(pool)
    BY <2>3, <2>7 DEF free
  <2> QED  BY <2>2, <2>14, <2>15 DEF queued
<1>2. Spec => []BInv
  BY BuffersInvariant
<1> QED  BY <1>1, <1>2, PTL
=============================================================================
