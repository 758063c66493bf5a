----------------------------- MODULE HeapProofs -----------------------------
(***************************************************************************)
(* The kernel heap, for every memory, every set of sizes, and any order of *)
(* allocations and frees, as long as the stacks are an even number of      *)
(* words long: freestk would otherwise free a word that is not the         *)
(* stack's (h/mem.h:29).  And the virtual heaps, with no hypothesis.       *)
(***************************************************************************)
EXTENDS HeapProps, VHeap, QListProofs

EvenStacks == \A n \in StackSizes : n % 2 = 0

Blocks == [at : Nat, len : Nat \ {0}]
Held   == [at : Nat, len : Nat \ {0}, kind : {"mem", "stk"}]

Ordered(m)   == /\ m \in Seq(Blocks)
                /\ \A i, j \in 1..Len(m) : i < j => End(m[i]) < m[j].at
BlocksIn(m)  == {m[i] : i \in 1..Len(m)}
Apart(b, c)  == End(b) <= c.at \/ End(c) <= b.at
Within(b, c) == c.at <= b.at /\ End(b) <= End(c)
Has(b, w)    == b.at <= w /\ w < End(b)

(* The inductive invariant.  What is held has the even length that freemem *)
(* is given when it comes back: so nothing is ever refused, and nothing    *)
(* is lost.                                                                *)
Kept(free, used) ==
  \A i \in 1..Len(Regions), w \in Nat :
    Has(Regions[i], w) => \E b \in free \cup used : Has(b, w)

BlocksOK(free, used) ==
  /\ used \subseteq Held /\ \A b \in used : b.len % 2 = 0
  /\ \A b \in used, f \in free : Apart(b, f)
  /\ \A b, c \in used : b # c => Apart(b, c)
  /\ Kept(free, used)

IInv == Ordered(memlist) /\ BlocksOK(BlocksIn(memlist), inuse)

-----------------------------------------------------------------------------
(* The free list as a sequence.                                            *)
LEMMA OrderedTypes ==
  ASSUME NEW m, Ordered(m)
  PROVE  /\ Len(m) \in Nat /\ m \in Seq(Blocks)
         /\ \A i \in 1..Len(m) : /\ m[i] \in Blocks /\ m[i].at \in Nat
                                 /\ m[i].len \in Nat \ {0}
                                 /\ End(m[i]) \in Nat /\ m[i].at < End(m[i])
         /\ \A i, j \in 1..Len(m) : m[i] = m[j] => i = j
<1>1. m \in Seq(Blocks) /\ Len(m) \in Nat /\ \A i \in 1..Len(m) : m[i] \in Blocks
  BY LenProperties, ElementOfSeq DEF Ordered
<1>2. ASSUME NEW b \in Blocks
      PROVE  /\ b.at \in Nat /\ b.len \in Nat \ {0} /\ End(b) \in Nat /\ b.at < End(b)
  BY DEF Blocks, End
<1>3. ASSUME NEW i \in 1..Len(m), NEW j \in 1..Len(m), m[i] = m[j] PROVE i = j
  <2>1. m[i] \in Blocks /\ m[j] \in Blocks /\ m[i].at < End(m[i]) /\ m[j].at < End(m[j])
        /\ m[i].at \in Nat /\ m[j].at \in Nat /\ End(m[i]) \in Nat /\ End(m[j]) \in Nat
    BY <1>1, <1>2
  <2>2. (i < j => End(m[i]) < m[j].at) /\ (j < i => End(m[j]) < m[i].at)
    BY DEF Ordered
  <2>3. i \in Int /\ j \in Int
    BY <1>1
  <2>4. ~(i < j)
    BY <1>3, <2>1, <2>2
  <2>5. ~(j < i)
    BY <1>3, <2>1, <2>2
  <2> QED  BY <2>3, <2>4, <2>5
<1> QED  BY <1>1, <1>2, <1>3

LEMMA FirstInIsLeast ==
  ASSUME NEW I, NEW n \in Nat
  PROVE  /\ FirstIn(I, n) \in 1..(n + 1)
         /\ FirstIn(I, n) \in I \/ FirstIn(I, n) = n + 1
         /\ \A j \in 1..(FirstIn(I, n) - 1) : j \notin I
<1>1. FirstIn(I, n) = StopsAt(I, n)
  BY DEF FirstIn, StopsAt
<1> QED  BY <1>1, StopsAtIsLeast

LEMMA RemoveBlock ==
  ASSUME NEW m, Ordered(m), NEW i \in 1..Len(m)
  PROVE  Ordered(RemoveAt(m, i)) /\ BlocksIn(RemoveAt(m, i)) = BlocksIn(m) \ {m[i]}
<1> DEFINE t == RemoveAt(m, i)
<1>1. /\ Len(m) \in Nat /\ m \in Seq(Blocks)
      /\ \A j, k \in 1..Len(m) : m[j] = m[k] => j = k
      /\ \A j, k \in 1..Len(m) : j < k => End(m[j]) < m[k].at
  BY OrderedTypes DEF Ordered
<1>2. /\ t \in Seq(Blocks) /\ Len(t) = Len(m) - 1
      /\ \A j \in 1..(Len(m) - 1) : t[j] = IF j < i THEN m[j] ELSE m[j + 1]
  BY <1>1, RemoveAtProperties
<1> HIDE DEF t
<1> DEFINE at(j) == IF j < i THEN j ELSE j + 1
<1>3. \A j \in 1..Len(t) : at(j) \in 1..Len(m) /\ at(j) # i /\ t[j] = m[at(j)]
  BY <1>1, <1>2
<1>4. \A j, k \in 1..Len(t) : j < k => at(j) < at(k)
  BY <1>1, <1>2
<1>5. \A k \in 1..Len(m) : k # i => \E j \in 1..Len(t) : at(j) = k
  <2> SUFFICES ASSUME NEW k \in 1..Len(m), k # i PROVE \E j \in 1..Len(t) : at(j) = k
    OBVIOUS
  <2>1. CASE k < i
    <3>1. k \in 1..Len(t) /\ at(k) = k
      BY <1>1, <1>2, <2>1
    <3> QED  BY <3>1
  <2>2. CASE k > i
    <3>1. k - 1 \in 1..Len(t) /\ at(k - 1) = k
      BY <1>1, <1>2, <2>2
    <3> QED  BY <3>1
  <2> QED  BY <1>1, <2>1, <2>2
<1> HIDE DEF at
<1>6. Ordered(t)
  BY <1>1, <1>2, <1>3, <1>4 DEF Ordered
<1>7. BlocksIn(t) \subseteq BlocksIn(m) \ {m[i]}
  BY <1>1, <1>3 DEF BlocksIn
<1>8. ASSUME NEW k \in 1..Len(m), m[k] # m[i] PROVE m[k] \in BlocksIn(t)
  <2>1. PICK j \in 1..Len(t) : at(j) = k
    BY <1>5, <1>8
  <2> QED  BY <1>3, <2>1 DEF BlocksIn
<1> QED  BY <1>6, <1>7, <1>8 DEF BlocksIn, t

(* t is m with its entry i replaced by x. *)
Replaced(m, i, x, t) ==
  t \in Seq(Blocks) /\ Len(t) = Len(m) /\ \A j \in 1..Len(m) : t[j] = IF j = i THEN x ELSE m[j]

LEMMA ShrinkBlock ==
  ASSUME NEW m, Ordered(m), NEW i \in 1..Len(m), NEW x \in Blocks, Within(x, m[i]),
         NEW t, Replaced(m, i, x, t)
  PROVE  Ordered(t) /\ BlocksIn(t) = (BlocksIn(m) \ {m[i]}) \cup {x}
<1>1. /\ Len(m) \in Nat /\ m \in Seq(Blocks)
      /\ \A j \in 1..Len(m) : m[j].at \in Nat /\ End(m[j]) \in Nat
      /\ \A j, k \in 1..Len(m) : m[j] = m[k] => j = k
      /\ \A j, k \in 1..Len(m) : j < k => End(m[j]) < m[k].at
  BY OrderedTypes DEF Ordered
<1>2. /\ t \in Seq(Blocks) /\ Len(t) = Len(m)
      /\ \A j \in 1..Len(m) : t[j] = IF j = i THEN x ELSE m[j]
  BY DEF Replaced
<1>3. x.at \in Nat /\ End(x) \in Nat
  BY DEF Blocks, End
<1>4. \A j, k \in 1..Len(t) : j < k => End(t[j]) < t[k].at
  BY <1>1, <1>2, <1>3 DEF Within
<1>5. BlocksIn(t) = (BlocksIn(m) \ {m[i]}) \cup {x}
  <2>1. \A j \in 1..Len(t) : t[j] = x \/ t[j] \in BlocksIn(m) \ {m[i]}
    BY <1>1, <1>2 DEF BlocksIn
  <2>2. \A j \in 1..Len(m) : m[j] # m[i] => j \in 1..Len(t) /\ t[j] = m[j]
    BY <1>2
  <2>3. i \in 1..Len(t) /\ t[i] = x
    BY <1>2
  <2> QED  BY <2>1, <2>2, <2>3 DEF BlocksIn
<1> QED  BY <1>2, <1>4, <1>5 DEF Ordered

(* What freemem builds: the entries up to a, a block, the entries from c.  *)
Spliced(m, a, x, c) == SubSeq(m, 1, a) \o <<x>> \o SubSeq(m, c, Len(m))

LEMMA SpliceEntries ==
  ASSUME NEW m \in Seq(Blocks), NEW a \in 0..Len(m), NEW c \in (a + 1)..(Len(m) + 1),
         NEW x \in Blocks
  PROVE  LET t == Spliced(m, a, x, c)
         IN  /\ t \in Seq(Blocks) /\ Len(t) = a + 1 + (Len(m) + 1 - c)
             /\ \A j \in 1..Len(t) :
                  t[j] = IF j <= a THEN m[j]
                         ELSE IF j = a + 1 THEN x ELSE m[j - (a + 1) + c - 1]
<1> DEFINE n == Len(m)
           t == Spliced(m, a, x, c)
<1>0. m \in Seq(Blocks) /\ Len(m) \in Nat
  OBVIOUS
<1> DEFINE u == SubSeq(m, 1, a)
           v == SubSeq(m, c, Len(m))
           w == u \o <<x>>
<1>1. \A k \in 1..n : m[k] \in Blocks
  BY <1>0, ElementOfSeq
<1>2. u \in Seq(Blocks) /\ Len(u) = a /\ \A j \in 1..a : u[j] = m[j]
  <2>1. \A k \in 1..a : m[k] \in Blocks
    BY <1>0, <1>1
  <2> QED  BY <1>0, <2>1, SubSeqProperties
<1>3. v \in Seq(Blocks) /\ Len(v) = n + 1 - c /\ \A j \in 1..(n + 1 - c) : v[j] = m[c + j - 1]
  <2>1. \A k \in c..n : m[k] \in Blocks
    BY <1>0, <1>1
  <2>2. /\ v \in Seq(Blocks) /\ Len(v) = IF c <= n THEN n - c + 1 ELSE 0
        /\ \A j \in 1..(n - c + 1) : v[j] = m[c + j - 1]
    BY <1>0, <2>1, SubSeqProperties
  <2> QED  BY <1>0, <2>2
<1> HIDE DEF u, v
<1>4. /\ w \in Seq(Blocks) /\ Len(w) = a + 1
      /\ \A j \in 1..(a + 1) : w[j] = IF j <= a THEN m[j] ELSE x
  BY <1>0, <1>2
<1>5. t = w \o v
  BY DEF u, v, Spliced
<1> HIDE DEF w, t
<1>6. /\ t \in Seq(Blocks) /\ Len(t) = Len(w) + Len(v)
      /\ \A j \in 1..(Len(w) + Len(v)) : t[j] = IF j <= Len(w) THEN w[j] ELSE v[j - Len(w)]
  BY <1>3, <1>4, <1>5, ConcatProperties
<1>7. Len(t) = a + 1 + (n + 1 - c)
  BY <1>0, <1>3, <1>4, <1>6
<1>8. ASSUME NEW j \in 1..Len(t)
      PROVE  t[j] = IF j <= a THEN m[j] ELSE IF j = a + 1 THEN x ELSE m[j - (a + 1) + c - 1]
  <2>1. CASE j <= a + 1
    <3>1. j \in 1..(a + 1) /\ j <= Len(w) /\ j \in 1..(Len(w) + Len(v))
      BY <1>0, <1>4, <1>6, <1>7, <2>1
    <3>2. t[j] = w[j] /\ w[j] = IF j <= a THEN m[j] ELSE x
      BY <1>4, <1>6, <3>1
    <3>3. ~(j <= a) => j = a + 1
      BY <1>0, <3>1
    <3> QED  BY <3>2, <3>3
  <2>2. CASE j > a + 1
    <3>1. j - (a + 1) \in 1..(n + 1 - c)
      BY <1>0, <1>7, <2>2
    <3>2. v[j - (a + 1)] = m[c + (j - (a + 1)) - 1]
      BY <1>3, <3>1
    <3>3. t[j] = v[j - (a + 1)]
      BY <1>0, <1>3, <1>4, <1>6, <2>2
    <3>4. c + (j - (a + 1)) - 1 = j - (a + 1) + c - 1
      BY <1>0
    <3> QED  BY <1>0, <2>2, <3>2, <3>3, <3>4
  <2> QED  BY <1>0, <1>7, <2>1, <2>2
<1> QED  BY <1>6, <1>7, <1>8 DEF t

LEMMA SpliceBlock ==
  ASSUME NEW m, Ordered(m), NEW a \in 0..Len(m), NEW c \in (a + 1)..(Len(m) + 1),
         NEW x \in Blocks, a >= 1 => End(m[a]) < x.at, c <= Len(m) => End(x) < m[c].at
  PROVE  /\ Ordered(Spliced(m, a, x, c))
         /\ BlocksIn(Spliced(m, a, x, c))
              = {m[k] : k \in 1..a} \cup {x} \cup {m[k] : k \in c..Len(m)}
<1> DEFINE t == Spliced(m, a, x, c)
           n == Len(m)
           at(j) == IF j <= a THEN j ELSE j - (a + 1) + c - 1
<1>0. m \in Seq(Blocks) /\ Len(m) \in Nat
  BY OrderedTypes
<1>1. /\ n \in Nat /\ m \in Seq(Blocks)
      /\ \A j \in 1..n : m[j].at \in Nat /\ End(m[j]) \in Nat /\ m[j].at < End(m[j])
      /\ \A j, k \in 1..n : j < k => End(m[j]) < m[k].at
  BY OrderedTypes DEF Ordered
<1>2. /\ t \in Seq(Blocks) /\ Len(t) = a + 1 + (Len(m) + 1 - c)
      /\ \A j \in 1..Len(t) : t[j] = IF j <= a THEN m[j]
                                     ELSE IF j = a + 1 THEN x ELSE m[j - (a + 1) + c - 1]
  BY <1>0, SpliceEntries
<1>3. x.at \in Nat /\ End(x) \in Nat /\ x.at < End(x)
  BY DEF Blocks, End
<1> HIDE DEF t
<1>4. \A j \in 1..Len(t) : IF j = a + 1 THEN t[j] = x ELSE
        /\ at(j) \in 1..a \cup c..n /\ at(j) \in 1..n /\ t[j] = m[at(j)]
  <2> SUFFICES ASSUME NEW j \in 1..Len(t), j # a + 1
               PROVE  at(j) \in 1..a \cup c..n /\ at(j) \in 1..n /\ t[j] = m[at(j)]
    BY <1>2
  <2>1. CASE j <= a
    <3>1. at(j) = j /\ j \in 1..a /\ j \in 1..n
      BY <1>1, <2>1
    <3> QED  BY <1>2, <2>1, <3>1
  <2>2. CASE j > a
    <3>1. at(j) = j - (a + 1) + c - 1 /\ at(j) \in c..n /\ at(j) \in 1..n
      BY <1>1, <1>2, <2>2
    <3>2. ~(j <= a) /\ t[j] = m[j - (a + 1) + c - 1]
      BY <1>1, <1>2, <2>2
    <3> QED  BY <3>1, <3>2
  <2> QED  BY <1>1, <1>2, <2>1, <2>2
<1>5. /\ \A k \in 1..a : k \in 1..n /\ End(m[k]) < x.at
      /\ \A k \in c..n : k \in 1..n /\ End(x) < m[k].at
  <2>1. ASSUME NEW k \in 1..a PROVE k \in 1..n /\ End(m[k]) < x.at
    <3>1. k \in 1..n /\ a \in 1..n /\ (k = a \/ k < a) /\ End(m[a]) < x.at
      BY <1>1
    <3>2. k < a => End(m[k]) < m[a].at /\ m[a].at < End(m[a])
      BY <1>1, <3>1
    <3> QED  BY <1>1, <1>3, <3>1, <3>2
  <2>2. ASSUME NEW k \in c..n PROVE k \in 1..n /\ End(x) < m[k].at
    <3>1. k \in 1..n /\ c \in 1..n /\ (k = c \/ c < k) /\ End(x) < m[c].at
      BY <1>1
    <3>2. c < k => End(m[c]) < m[k].at /\ m[c].at < End(m[c])
      BY <1>1, <3>1
    <3> QED  BY <1>1, <1>3, <3>1, <3>2
  <2> QED  BY <2>1, <2>2
<1>6. ASSUME NEW j \in 1..Len(t), NEW k \in 1..Len(t), j < k PROVE End(t[j]) < t[k].at
  <2>1. CASE j = a + 1
    <3>1. at(k) \in c..n /\ t[k] = m[at(k)] /\ t[j] = x
      BY <1>1, <1>2, <1>4, <1>6, <2>1
    <3> QED  BY <1>5, <3>1
  <2>2. CASE k = a + 1
    <3>1. at(j) \in 1..a /\ t[j] = m[at(j)] /\ t[k] = x
      BY <1>1, <1>2, <1>4, <1>6, <2>2
    <3> QED  BY <1>5, <3>1
  <2>3. CASE j # a + 1 /\ k # a + 1
    <3>1. /\ at(j) \in 1..n /\ at(k) \in 1..n /\ at(j) < at(k)
      BY <1>1, <1>2, <1>4, <1>6, <2>3
    <3> HIDE DEF at
    <3> QED  BY <1>1, <1>4, <2>3, <3>1
  <2> QED  BY <2>1, <2>2, <2>3
<1>7. /\ a + 1 \in 1..Len(t)
      /\ \A k \in 1..a : k \in 1..Len(t) /\ t[k] = m[k]
      /\ \A k \in c..n : /\ k + a + 2 - c \in 1..Len(t)
                         /\ t[k + a + 2 - c] = m[k]
  <2>1. a + 1 \in 1..Len(t) /\ \A k \in 1..a : k \in 1..Len(t) /\ t[k] = m[k]
    BY <1>1, <1>2
  <2>2. ASSUME NEW k \in c..n
        PROVE  k + a + 2 - c \in 1..Len(t) /\ t[k + a + 2 - c] = m[k]
    <3> DEFINE j == k + a + 2 - c
    <3>1. j \in 1..Len(t) /\ ~(j <= a) /\ j # a + 1 /\ j - (a + 1) + c - 1 = k
      BY <1>1, <1>2
    <3> HIDE DEF j
    <3>2. t[j] = m[k]
      BY <1>2, <3>1
    <3> QED  BY <3>1, <3>2 DEF j
  <2> QED  BY <2>1, <2>2
<1>8. BlocksIn(t) = {m[k] : k \in 1..a} \cup {x} \cup {m[k] : k \in c..n}
  <2>1. ASSUME NEW j \in 1..Len(t)
        PROVE  t[j] \in {m[k] : k \in 1..a} \cup {x} \cup {m[k] : k \in c..n}
    <3> HIDE DEF at
    <3> QED  BY <1>4
  <2>2. x = t[a + 1] /\ x \in BlocksIn(t)
    BY <1>4, <1>7 DEF BlocksIn
  <2>3. \A k \in 1..a : m[k] \in BlocksIn(t)
    BY <1>7 DEF BlocksIn
  <2>4. ASSUME NEW k \in c..n PROVE m[k] \in BlocksIn(t)
    BY <1>7 DEF BlocksIn
  <2>5. BlocksIn(t) \subseteq {m[k] : k \in 1..a} \cup {x} \cup {m[k] : k \in c..n}
    BY <2>1 DEF BlocksIn
  <2> QED  BY <2>2, <2>3, <2>4, <2>5
<1> QED  BY <1>2, <1>6, <1>8 DEF Ordered, t

-----------------------------------------------------------------------------
(* What happens to the words: a block is handed out from a free block, of  *)
(* which the rest stays free; a block comes back and joins its neighbours. *)
LEMMA OthersApart ==
  ASSUME NEW m, Ordered(m)
  PROVE  \A f, g \in BlocksIn(m) : f # g => Apart(f, g)
<1> SUFFICES ASSUME NEW i \in 1..Len(m), NEW j \in 1..Len(m), m[i] # m[j]
             PROVE  Apart(m[i], m[j])
  BY DEF BlocksIn
<1>1. i < j \/ j < i
  BY OrderedTypes
<1>2. /\ m[i].at \in Nat /\ End(m[i]) \in Nat /\ m[j].at \in Nat /\ End(m[j]) \in Nat
      /\ i < j => End(m[i]) < m[j].at
      /\ j < i => End(m[j]) < m[i].at
  BY OrderedTypes DEF Ordered
<1> QED  BY <1>1, <1>2 DEF Apart

LEMMA BlockTypes ==
  ASSUME NEW b \in Blocks \cup Held
  PROVE  b.at \in Nat /\ b.len \in Nat \ {0} /\ End(b) \in Nat /\ b.at < End(b)
<1>1. b.at \in Nat /\ b.len \in Nat /\ b.len # 0
  BY DEF Blocks, Held
<1> QED  BY <1>1 DEF End

LEMMA TakeKeeps ==
  ASSUME NEW free, NEW used, NEW f, NEW b, NEW rest,
         free \subseteq Blocks, BlocksOK(free, used), f \in free,
         \A g \in free : g # f => Apart(f, g),
         b \in Held, b.len % 2 = 0, Within(b, f), rest \subseteq Blocks,
         \A r \in rest : Within(r, f) /\ Apart(b, r),
         \A w \in Nat : Has(f, w) => Has(b, w) \/ \E r \in rest : Has(r, w)
  PROVE  BlocksOK((free \ {f}) \cup rest, used \cup {b})
<1> DEFINE F == (free \ {f}) \cup rest
           U == used \cup {b}
<1>1. /\ used \subseteq Held /\ \A c \in used : c.len % 2 = 0
      /\ \A c \in used, g \in free : Apart(c, g)
      /\ \A c, d \in used : c # d => Apart(c, d)
      /\ Kept(free, used)
  BY DEF BlocksOK
<1>2. U \subseteq Held /\ \A c \in U : c.len % 2 = 0
  BY <1>1
<1>3. ASSUME NEW c \in Blocks \cup Held, Apart(f, c) \/ Apart(c, f),
             NEW r \in Blocks \cup Held, Within(r, f)
      PROVE  Apart(c, r) /\ Apart(r, c)
  <2>1. /\ c.at \in Nat /\ End(c) \in Nat /\ r.at \in Nat /\ End(r) \in Nat
        /\ f.at \in Nat /\ End(f) \in Nat
    BY BlockTypes
  <2> QED  BY <1>3, <2>1 DEF Apart, Within
<1>4. \A c \in U, g \in F : Apart(c, g)
  <2>1. ASSUME NEW c \in used, NEW r \in rest PROVE Apart(c, r)
    BY <1>1, <1>3
  <2>2. ASSUME NEW g \in free, g # f PROVE Apart(b, g)
    BY <1>3, <2>2
  <2> QED  BY <1>1, <2>1, <2>2
<1>5. \A c, d \in U : c # d => Apart(c, d)
  <2>1. ASSUME NEW c \in used PROVE Apart(b, c) /\ Apart(c, b)
    BY <1>1, <1>3
  <2> QED  BY <1>1, <2>1
<1>6. Kept(F, U)
  BY <1>1 DEF Kept
<1> HIDE DEF F, U
<1>7. BlocksOK(F, U)
  BY <1>2, <1>4, <1>5, <1>6 DEF BlocksOK
<1> QED  BY <1>7 DEF F, U

LEMMA JoinKeeps ==
  ASSUME NEW free, NEW used, NEW b, NEW x, NEW keep,
         BlocksOK(free, used), b \in used, free \subseteq Blocks, x \in Blocks,
         keep \subseteq free, Within(b, x), \A g \in free \ keep : Within(g, x),
         \A d \in used \ {b} : Apart(d, x)
  PROVE  BlocksOK(keep \cup {x}, used \ {b})
<1> DEFINE F == keep \cup {x}
           U == used \ {b}
<1>1. /\ used \subseteq Held /\ \A c \in used : c.len % 2 = 0
      /\ \A c \in used, g \in free : Apart(c, g)
      /\ \A c, d \in used : c # d => Apart(c, d)
      /\ Kept(free, used)
  BY DEF BlocksOK
<1>2. U \subseteq Held /\ \A c \in U : c.len % 2 = 0
  BY <1>1
<1>3. \A c \in U, g \in F : Apart(c, g)
  BY <1>1
<1>4. \A c, d \in U : c # d => Apart(c, d)
  BY <1>1
<1>5. ASSUME NEW g \in Blocks \cup Held, Within(g, x), NEW w \in Nat, Has(g, w) PROVE Has(x, w)
  <2>1. g.at \in Nat /\ End(g) \in Nat /\ x.at \in Nat /\ End(x) \in Nat
    BY BlockTypes
  <2> QED  BY <1>5, <2>1 DEF Within, Has
<1>6. ASSUME NEW w \in Nat, NEW g \in free \cup used, Has(g, w)
      PROVE  \E h \in F \cup U : Has(h, w)
  <2>1. CASE g \in F \cup U
    BY <1>6, <2>1
  <2>2. CASE g \notin F \cup U
    <3>1. Within(g, x) /\ g \in Blocks \cup Held
      BY <1>1, <1>6, <2>2
    <3>2. Has(x, w)
      BY <1>5, <1>6, <3>1
    <3> QED  BY <3>2
  <2> QED  BY <2>1, <2>2
<1>7. Kept(F, U)
  <2> HIDE DEF F, U
  <2> QED  BY <1>1, <1>6 DEF Kept
<1> HIDE DEF F, U
<1>8. BlocksOK(F, U)
  BY <1>2, <1>3, <1>4, <1>7 DEF BlocksOK
<1> QED  BY <1>8 DEF F, U

-----------------------------------------------------------------------------
(* One lemma per operation.                                                *)
LEMMA RoundsUp ==
  ASSUME NEW n \in Nat \ {0}
  PROVE  /\ roundmb(n) \in Nat \ {0} /\ roundmb(n) >= n /\ roundmb(n) % 2 = 0
         /\ n % 2 = 0 => roundmb(n) = n
<1>1. n % 2 \in 0..1
  OBVIOUS
<1>2. CASE n % 2 = 0
  BY <1>2 DEF roundmb
<1>3. CASE n % 2 = 1
  <2>1. (n + 1) % 2 = 0
    BY <1>3
  <2> QED  BY <1>3, <2>1 DEF roundmb
<1> QED  BY <1>1, <1>2, <1>3

(* A block of the list gives up words at its start or at its end, and what *)
(* is left of it, x, keeps its place.                                      *)
LEMMA TakeStep ==
  ASSUME IInv, NEW i \in 1..Len(memlist), NEW b \in Held, b.len % 2 = 0, NEW x,
         b.len = memlist[i].len => b.at = memlist[i].at,
         b.len # memlist[i].len =>
           /\ x \in Blocks
           /\ \/ b.at = memlist[i].at /\ x.at = End(b) /\ End(x) = End(memlist[i])
              \/ x.at = memlist[i].at /\ b.at = End(x) /\ End(b) = End(memlist[i]),
         b.len = memlist[i].len => memlist' = RemoveAt(memlist, i),
         b.len # memlist[i].len => Replaced(memlist, i, x, memlist'),
         inuse' = inuse \cup {b}
  PROVE  IInv'
<1> DEFINE f == memlist[i]
           free == BlocksIn(memlist)
<1>1. Ordered(memlist) /\ BlocksOK(free, inuse)
  BY DEF IInv
<1>2. /\ f \in Blocks /\ f \in free /\ free \subseteq Blocks
      /\ \A g \in free : g # f => Apart(f, g)
  BY <1>1, OrderedTypes, OthersApart DEF BlocksIn
<1>3. /\ b.at \in Nat /\ End(b) \in Nat /\ b.at < End(b)
      /\ f.at \in Nat /\ End(f) \in Nat /\ f.at < End(f)
  BY <1>2, BlockTypes
<1>4. CASE b.len = f.len
  <2>1. b.at = f.at /\ End(b) = End(f)
    BY <1>4 DEF End
  <2>2. Ordered(memlist') /\ BlocksIn(memlist') = (free \ {f}) \cup {}
    BY <1>1, <1>4, RemoveBlock
  <2>3. BlocksOK((free \ {f}) \cup {}, inuse \cup {b})
    <3>1. Within(b, f) /\ \A w \in Nat : Has(f, w) => Has(b, w)
      BY <1>3, <2>1 DEF Has, Within
    <3> HIDE DEF free, f
    <3> QED  BY <1>1, <1>2, <3>1, TakeKeeps
  <2> QED  BY <2>2, <2>3 DEF IInv, Ordered, BlocksOK, Kept, BlocksIn
<1>5. CASE b.len # f.len
  <2>1. /\ x \in Blocks
        /\ \/ b.at = f.at /\ x.at = End(b) /\ End(x) = End(f)
           \/ x.at = f.at /\ b.at = End(x) /\ End(b) = End(f)
    BY <1>5
  <2>2. x.at \in Nat /\ End(x) \in Nat /\ x.at < End(x)
    BY <2>1, BlockTypes
  <2>3. Replaced(memlist, i, x, memlist')
    BY <1>5
  <2> HIDE DEF f
  <2>4. /\ Within(b, f) /\ Within(x, f) /\ Apart(b, x)
        /\ \A w \in Nat : Has(f, w) => Has(b, w) \/ Has(x, w)
    <3>1. CASE b.at = f.at /\ x.at = End(b) /\ End(x) = End(f)
      BY <1>3, <2>2, <3>1 DEF Within, Apart, Has
    <3>2. CASE x.at = f.at /\ b.at = End(x) /\ End(b) = End(f)
      BY <1>3, <2>2, <3>2 DEF Within, Apart, Has
    <3> QED  BY <2>1, <3>1, <3>2
  <2>5. Ordered(memlist') /\ BlocksIn(memlist') = (free \ {f}) \cup {x}
    <3>1. Ordered(memlist) /\ x \in Blocks /\ Within(x, memlist[i])
      BY <1>1, <2>1, <2>4 DEF f
    <3> QED  BY <2>3, <3>1, ShrinkBlock DEF f
  <2>6. BlocksOK((free \ {f}) \cup {x}, inuse \cup {b})
    <3> HIDE DEF free
    <3> QED  BY <1>1, <1>2, <2>1, <2>4, TakeKeeps
  <2> QED  BY <2>5, <2>6 DEF IInv, Ordered, BlocksOK, Kept, BlocksIn
<1> QED  BY <1>4, <1>5

LEMMA GetmemStep ==
  ASSUME IInv, NEW n \in MemSizes, Getmem(n)
  PROVE  IInv'
<1> DEFINE nb == roundmb(n)
           I  == {k \in 1..Len(memlist) : memlist[k].len >= nb}
           i  == FirstIn(I, Len(memlist))
           x  == Block(memlist[i].at + nb, memlist[i].len - nb)
           b  == [at |-> memlist[i].at, len |-> nb, kind |-> "mem"]
<1>1. nb \in Nat \ {0} /\ nb % 2 = 0
  BY HeapAssumption, RoundsUp
<1>2. /\ i <= Len(memlist)
      /\ memlist' = IF memlist[i].len = nb THEN RemoveAt(memlist, i)
                    ELSE [memlist EXCEPT ![i] = x]
      /\ inuse' = inuse \cup {b}
  BY DEF Getmem
<1> HIDE DEF nb
<1>3. i \in 1..Len(memlist) /\ memlist[i].len >= nb
  <2>1. Len(memlist) \in Nat
    BY OrderedTypes DEF IInv
  <2> HIDE DEF I
  <2>2. i \in 1..(Len(memlist) + 1) /\ (i \in I \/ i = Len(memlist) + 1)
    BY <2>1, FirstInIsLeast
  <2> HIDE DEF i
  <2>3. i \in I
    BY <1>2, <2>1, <2>2
  <2> QED  BY <2>3 DEF I
<1> HIDE DEF i
<1>4. memlist[i].at \in Nat /\ memlist[i].len \in Nat \ {0}
  BY <1>3, OrderedTypes DEF IInv
<1>5. b \in Held /\ b.len = nb /\ b.at = memlist[i].at /\ End(b) = memlist[i].at + nb
  BY <1>1, <1>4 DEF Held, End
<1>6. /\ x.at = End(b)
      /\ nb # memlist[i].len => x \in Blocks
      /\ End(x) = (memlist[i].at + nb) + (memlist[i].len - nb)
  BY <1>1, <1>3, <1>4, <1>5 DEF Block, Blocks, End
<1>7. End(x) = End(memlist[i])
  BY <1>1, <1>4, <1>6 DEF End
<1>8. nb # memlist[i].len => Replaced(memlist, i, x, memlist')
  <2> HIDE DEF b, x
  <2> QED  BY <1>2, <1>3, <1>6, ExceptSeq, OrderedTypes DEF Replaced, IInv
<1> HIDE DEF b, x
<1> QED  BY <1>1, <1>2, <1>3, <1>5, <1>6, <1>7, <1>8, TakeStep

LEMMA GetstkStep ==
  ASSUME EvenStacks, IInv, NEW n \in StackSizes, Getstk(n)
  PROVE  IInv'
<1>1. n \in Nat \ {0} /\ n % 2 = 0
  BY HeapAssumption DEF EvenStacks
<1>2. PICK i \in 1..Len(memlist) :
        /\ memlist[i].len >= n
        /\ memlist' = IF memlist[i].len = n THEN RemoveAt(memlist, i)
                      ELSE [memlist EXCEPT ![i].len = @ - n]
        /\ inuse' = inuse \cup {[at |-> End(memlist[i]) - n, len |-> n, kind |-> "stk"]}
  BY DEF Getstk
<1> DEFINE x == [memlist[i] EXCEPT !.len = @ - n]
           b == [at |-> End(memlist[i]) - n, len |-> n, kind |-> "stk"]
<1>3. /\ memlist[i] \in Blocks /\ memlist[i].at \in Nat /\ memlist[i].len \in Nat \ {0}
      /\ End(memlist[i]) = memlist[i].at + memlist[i].len
  BY OrderedTypes DEF IInv, End
<1>4. b \in Held /\ b.len = n /\ b.at = End(memlist[i]) - n /\ End(b) = (End(memlist[i]) - n) + n
  BY <1>1, <1>2, <1>3 DEF Held, End
<1>5. /\ x.at = memlist[i].at /\ x.len = memlist[i].len - n
      /\ n # memlist[i].len => x \in Blocks
      /\ End(x) = memlist[i].at + (memlist[i].len - n)
  BY <1>1, <1>2, <1>3 DEF Blocks, End
<1>6. memlist' = IF memlist[i].len = n THEN RemoveAt(memlist, i)
                 ELSE [memlist EXCEPT ![i] = x]
  BY <1>2
<1> HIDE DEF b, x
<1>7. /\ End(b) = End(memlist[i]) /\ b.at = End(x)
      /\ n = memlist[i].len => b.at = memlist[i].at
  BY <1>1, <1>2, <1>3, <1>4, <1>5
<1>8. inuse' = inuse \cup {b}
  BY <1>2 DEF b
<1>9. n # memlist[i].len => Replaced(memlist, i, x, memlist')
  BY <1>5, <1>6, ExceptSeq, OrderedTypes DEF Replaced, IInv
<1> QED  BY <1>1, <1>2, <1>4, <1>5, <1>6, <1>7, <1>8, <1>9, TakeStep

(* Where a block b that is apart from a list's blocks goes in: before the  *)
(* i-th, joined with the one below and the one above if it touches them.   *)
Place(m, b) == FirstIn({k \in 1..Len(m) : m[k].at >= b.at}, Len(m))
TouchBelow(m, b, i) == i > 1 /\ End(m[i - 1]) = b.at
TouchAbove(m, b, i) == i <= Len(m) /\ b.at + b.len = m[i].at
LastKept(m, b, i) == IF TouchBelow(m, b, i) THEN i - 2 ELSE i - 1
NextKept(m, b, i) == IF TouchAbove(m, b, i) THEN i + 1 ELSE i
StartOf(m, b, i) == IF TouchBelow(m, b, i) THEN m[i - 1].at ELSE b.at
StopOf(m, b, i) == IF TouchAbove(m, b, i) THEN End(m[i]) ELSE b.at + b.len

Joins(m, b, a, c, x) ==
  /\ a \in 0..Len(m) /\ c \in 1..(Len(m) + 1) /\ a + 1 <= c
  /\ a >= 1 => End(m[a]) < x.at
  /\ c <= Len(m) => End(x) < m[c].at
  /\ Within(b, x) /\ \A k \in (a + 1)..(c - 1) : Within(m[k], x)
  /\ \A d \in Blocks \cup Held : Apart(d, b) /\ (\A k \in 1..Len(m) : Apart(d, m[k])) => Apart(d, x)

LEMMA BlockJoins ==
  ASSUME NEW m, Ordered(m), NEW b \in Blocks \cup Held, \A k \in 1..Len(m) : Apart(b, m[k]),
         NEW i, i = Place(m, b), NEW x, x = Block(StartOf(m, b, i), StopOf(m, b, i) - StartOf(m, b, i))
  PROVE  /\ i \in 1..(Len(m) + 1)
         /\ i > 1 => i - 1 \in 1..Len(m) /\ End(m[i - 1]) <= b.at
         /\ i <= Len(m) => i \in 1..Len(m) /\ b.at + b.len <= m[i].at
         /\ x \in Blocks /\ x.at = StartOf(m, b, i) /\ End(x) = StopOf(m, b, i)
         /\ Joins(m, b, LastKept(m, b, i), NextKept(m, b, i), x)
<1> DEFINE n == Len(m)
           I == {k \in 1..n : m[k].at >= b.at}
           joinsQ == i > 1 /\ End(m[i - 1]) = b.at
           joinsP == i <= n /\ b.at + b.len = m[i].at
           from   == IF joinsQ THEN m[i - 1].at ELSE b.at
           to     == IF joinsP THEN End(m[i]) ELSE b.at + b.len
           a == IF joinsQ THEN i - 2 ELSE i - 1
           c == IF joinsP THEN i + 1 ELSE i
<1>1. /\ Ordered(m) /\ n \in Nat
      /\ \A k \in 1..n : /\ m[k] \in Blocks /\ m[k].at \in Nat /\ End(m[k]) \in Nat
                         /\ m[k].at < End(m[k])
      /\ \A j, k \in 1..n : j < k => End(m[j]) < m[k].at
  BY OrderedTypes DEF Ordered
<1>2. b.at \in Nat /\ b.len \in Nat \ {0} /\ End(b) = b.at + b.len
  BY BlockTypes DEF End
<1>3. \A k \in 1..n : b.at + b.len <= m[k].at \/ End(m[k]) <= b.at
  BY <1>2 DEF Apart
<1>4. /\ i \in 1..(n + 1) /\ (i \in I \/ i = n + 1)
      /\ \A j \in 1..(i - 1) : j \notin I
  <2> HIDE DEF I, n
  <2>1. i = FirstIn(I, n)
    BY DEF Place, I, n
  <2> QED  BY <1>1, <2>1, FirstInIsLeast
<1>6. i > 1 => i - 1 \in 1..n /\ End(m[i - 1]) <= b.at
  <2> SUFFICES ASSUME i > 1 PROVE i - 1 \in 1..n /\ End(m[i - 1]) <= b.at
    OBVIOUS
  <2>1. i - 1 \in 1..n /\ i - 1 \in 1..(i - 1)
    BY <1>1, <1>4
  <2>2. m[i - 1].at < b.at
    BY <1>1, <1>2, <1>4, <2>1
  <2> QED  BY <1>1, <1>2, <1>3, <2>1, <2>2
<1>7. i <= n => i \in 1..n /\ b.at + b.len <= m[i].at
  <2> SUFFICES ASSUME i <= n PROVE i \in 1..n /\ b.at + b.len <= m[i].at
    OBVIOUS
  <2>1. i \in 1..n /\ m[i].at >= b.at
    BY <1>1, <1>4
  <2> QED  BY <1>1, <1>2, <1>3, <2>1
<1> HIDE DEF I
<1>9. /\ from \in Nat /\ to \in Nat /\ from <= b.at /\ b.at + b.len <= to
      /\ joinsQ => i - 1 \in 1..n /\ from = m[i - 1].at /\ End(m[i - 1]) = b.at
      /\ ~joinsQ => from = b.at
      /\ joinsP => i \in 1..n /\ to = End(m[i]) /\ m[i].at = b.at + b.len
      /\ ~joinsP => to = b.at + b.len
  <2>1. joinsQ => i - 1 \in 1..n /\ End(m[i - 1]) = b.at /\ m[i - 1].at < b.at
    BY <1>1, <1>6
  <2>2. joinsP => i \in 1..n /\ m[i].at = b.at + b.len /\ b.at + b.len < End(m[i])
    BY <1>1, <1>7
  <2>3. /\ from \in Nat /\ from <= b.at
        /\ joinsQ => from = m[i - 1].at
        /\ ~joinsQ => from = b.at
    <3> HIDE DEF joinsQ, joinsP
    <3> QED  BY <1>1, <1>2, <2>1
  <2>4. /\ to \in Nat /\ b.at + b.len <= to
        /\ joinsP => to = End(m[i])
        /\ ~joinsP => to = b.at + b.len
    <3> HIDE DEF joinsQ, joinsP
    <3> QED  BY <1>1, <1>2, <2>2
  <2> HIDE DEF joinsQ, joinsP, from, to
  <2>5. joinsQ => i - 1 \in 1..n /\ from = m[i - 1].at /\ End(m[i - 1]) = b.at
    BY <2>1, <2>3
  <2>6. joinsP => i \in 1..n /\ to = End(m[i]) /\ m[i].at = b.at + b.len
    BY <2>2, <2>4
  <2> QED  BY <2>3, <2>4, <2>5, <2>6
<1>10. /\ a \in 0..n /\ c \in 1..(n + 1) /\ a + 1 <= c
       /\ \A k \in (a + 1)..(c - 1) : (joinsQ /\ k = i - 1) \/ (joinsP /\ k = i)
  <2>1. joinsQ => i - 1 \in 1..n
    BY <1>6
  <2>2. joinsP => i \in 1..n
    BY <1>7
  <2>3. i \in Nat /\ i >= 1 /\ i <= n + 1
    BY <1>1, <1>4
  <2>4. (joinsQ => a = i - 2) /\ (~joinsQ => a = i - 1) /\ (joinsP => c = i + 1) /\ (~joinsP => c = i)
    OBVIOUS
  <2> HIDE DEF a, c, joinsQ, joinsP
  <2>5. a \in 0..n /\ c \in 1..(n + 1) /\ a + 1 <= c
    BY <1>1, <2>1, <2>2, <2>3, <2>4
  <2>6. ASSUME NEW k \in (a + 1)..(c - 1) PROVE (joinsQ /\ k = i - 1) \/ (joinsP /\ k = i)
    BY <1>1, <2>1, <2>2, <2>3, <2>4, <2>5
  <2> QED  BY <2>5, <2>6
<1>8. x = Block(from, to - from)
  BY DEF StartOf, StopOf, TouchBelow, TouchAbove
<1> HIDE DEF from, to
<1>11. x \in Blocks /\ x.at = from /\ End(x) = to
  <2>1. to - from \in Nat \ {0} /\ from + (to - from) = to
    BY <1>2, <1>9
  <2> QED  BY <1>8, <1>9, <2>1 DEF Block, Blocks, End
<1>12. a >= 1 => End(m[a]) < x.at
  <2>1. CASE joinsQ
    <3>1. a >= 1 => a \in 1..n /\ a < i - 1
      <4>1. a = i - 2 /\ i \in 1..(n + 1)
        BY <1>4, <2>1
      <4>2. i - 1 \in 1..n
        BY <1>9, <2>1
      <4> HIDE DEF a, joinsQ
      <4> QED  BY <1>1, <4>1, <4>2
    <3> QED  BY <1>1, <1>9, <1>11, <2>1, <3>1
  <2>2. CASE ~joinsQ
    <3>1. a >= 1 => a = i - 1 /\ i > 1
      BY <1>4, <2>2
    <3> QED  BY <1>1, <1>2, <1>6, <1>9, <1>11, <2>2, <3>1
  <2> QED  BY <2>1, <2>2
<1>13. c <= n => End(x) < m[c].at
  <2>1. CASE joinsP
    <3>1. c <= n => c \in 1..n /\ i < c
      BY <1>1, <1>9, <2>1
    <3> QED  BY <1>1, <1>9, <1>11, <2>1, <3>1
  <2>2. CASE ~joinsP
    <3>1. c <= n => c = i /\ i \in 1..n
      BY <1>4, <2>2
    <3> QED  BY <1>1, <1>2, <1>7, <1>9, <1>11, <2>2, <3>1
  <2> QED  BY <2>1, <2>2
<1>14. Within(b, x) /\ \A k \in (a + 1)..(c - 1) : Within(m[k], x)
  <2>1. Within(b, x)
    BY <1>2, <1>9, <1>11 DEF Within
  <2>2. joinsQ => Within(m[i - 1], x)
    BY <1>1, <1>2, <1>9, <1>11 DEF Within
  <2>3. joinsP => Within(m[i], x)
    BY <1>1, <1>2, <1>9, <1>11 DEF Within
  <2> HIDE DEF a, c, joinsQ, joinsP
  <2> QED  BY <1>10, <2>1, <2>2, <2>3
<1>15. ASSUME NEW d \in Blocks \cup Held, Apart(d, b), \A k \in 1..n : Apart(d, m[k])
       PROVE  Apart(d, x)
  <2>1. d.at \in Nat /\ End(d) \in Nat /\ d.at < End(d)
    BY BlockTypes
  <2>2. End(d) <= b.at \/ b.at + b.len <= d.at
    BY <1>2, <1>15 DEF Apart
  <2>3. End(d) <= b.at => End(d) <= from
    <3>1. joinsQ => End(d) <= m[i - 1].at \/ b.at <= d.at
      BY <1>9, <1>15 DEF Apart
    <3> QED  BY <1>2, <1>9, <2>1, <3>1
  <2>4. b.at + b.len <= d.at => to <= d.at
    <3>1. joinsP => End(d) <= b.at + b.len \/ End(m[i]) <= d.at
      BY <1>9, <1>15 DEF Apart
    <3> QED  BY <1>2, <1>9, <2>1, <3>1
  <2> QED  BY <1>9, <1>11, <2>2, <2>3, <2>4 DEF Apart
<1>16. Joins(m, b, a, c, x)
  <2> HIDE DEF a, c, joinsQ, joinsP
  <2> QED  BY <1>10, <1>11, <1>12, <1>13, <1>14, <1>15 DEF Joins
<1>17. a = LastKept(m, b, i) /\ c = NextKept(m, b, i)
  BY DEF LastKept, NextKept, TouchBelow, TouchAbove
<1>18. from = StartOf(m, b, i) /\ to = StopOf(m, b, i)
  BY DEF from, to, StartOf, StopOf, TouchBelow, TouchAbove
<1> HIDE DEF a, c, joinsQ, joinsP, from, to
<1> QED  BY <1>4, <1>6, <1>7, <1>11, <1>16, <1>17, <1>18

(* freemem gets back what was given out: it never refuses it, and what it  *)
(* frees touches nothing that is still held.                               *)
LEMMA FreememJoins ==
  ASSUME IInv, NEW b \in inuse, Freemem(b.at, b.len)
  PROVE  \E a, c : \E x \in Blocks : Joins(memlist, b, a, c, x) /\ memlist' = Spliced(memlist, a, x, c)
<1> DEFINE i == Place(memlist, b)
           x == Block(StartOf(memlist, b, i), StopOf(memlist, b, i) - StartOf(memlist, b, i))
           overlaps == \/ i > 1 /\ End(memlist[i - 1]) > b.at
                       \/ i <= Len(memlist) /\ b.at + b.len > memlist[i].at
<1>1. /\ b \in Blocks \cup Held /\ Ordered(memlist)
      /\ \A k \in 1..Len(memlist) : Apart(b, memlist[k])
  BY DEF IInv, BlocksOK, BlocksIn
<1>2. /\ i \in 1..(Len(memlist) + 1)
      /\ i > 1 => i - 1 \in 1..Len(memlist) /\ End(memlist[i - 1]) <= b.at
      /\ i <= Len(memlist) => i \in 1..Len(memlist) /\ b.at + b.len <= memlist[i].at
      /\ x \in Blocks /\ Joins(memlist, b, LastKept(memlist, b, i), NextKept(memlist, b, i), x)
  <2> HIDE DEF i
  <2>1. i = Place(memlist, b)
    BY DEF i
  <2> QED  BY <1>1, <2>1, BlockJoins
<1>3. memlist' = IF overlaps THEN memlist
                 ELSE Spliced(memlist, LastKept(memlist, b, i), x, NextKept(memlist, b, i))
  BY DEF Freemem, Spliced, LastKept, NextKept, StartOf, StopOf, TouchBelow, TouchAbove, Place
<1> HIDE DEF i, x
<1>4. ~overlaps
  <2>1. b.at \in Nat /\ b.len \in Nat /\ Len(memlist) \in Nat
        /\ \A k \in 1..Len(memlist) : memlist[k].at \in Nat /\ End(memlist[k]) \in Nat
    BY <1>1, BlockTypes, OrderedTypes
  <2>2. i > 1 => ~(End(memlist[i - 1]) > b.at)
    BY <1>2, <2>1
  <2>3. i <= Len(memlist) => ~(b.at + b.len > memlist[i].at)
    BY <1>2, <2>1
  <2> QED  BY <2>2, <2>3
<1> HIDE DEF overlaps
<1> QED  BY <1>2, <1>3, <1>4

LEMMA FreeStep ==
  ASSUME IInv, NEW b \in inuse, Free(b)
  PROVE  IInv'
<1>1. /\ b \in Held /\ b.at \in Nat /\ b.len \in Nat \ {0} /\ b.len % 2 = 0
      /\ End(b) = b.at + b.len
  BY BlockTypes DEF IInv, BlocksOK, End
<1>2. roundmb(b.len) = b.len /\ End(b) - b.len = b.at
  BY <1>1, RoundsUp
<1>3. Freemem(b.at, b.len) /\ inuse' = inuse \ {b}
  BY <1>2 DEF Free
<1>4. PICK a, c, x : x \in Blocks /\ Joins(memlist, b, a, c, x)
                      /\ memlist' = Spliced(memlist, a, x, c)
  BY <1>3, FreememJoins
<1> DEFINE free == BlocksIn(memlist)
           keep == {memlist[k] : k \in 1..a} \cup {memlist[k] : k \in c..Len(memlist)}
<1>5. Len(memlist) \in Nat /\ Ordered(memlist) /\ BlocksOK(free, inuse) /\ free \subseteq Blocks
  BY OrderedTypes DEF IInv, BlocksIn
<1>6. Ordered(memlist') /\ BlocksIn(memlist') = keep \cup {x}
  <2>1. a \in 0..Len(memlist) /\ c \in (a + 1)..(Len(memlist) + 1)
    BY <1>4, <1>5 DEF Joins
  <2>2. /\ Ordered(Spliced(memlist, a, x, c))
        /\ BlocksIn(Spliced(memlist, a, x, c))
             = {memlist[k] : k \in 1..a} \cup {x} \cup {memlist[k] : k \in c..Len(memlist)}
    BY <1>4, <1>5, <2>1, SpliceBlock DEF Joins
  <2>3. {memlist[k] : k \in 1..a} \cup {x} \cup {memlist[k] : k \in c..Len(memlist)} = keep \cup {x}
    OBVIOUS
  <2> HIDE DEF keep
  <2> QED  BY <1>4, <2>2, <2>3
<1>7. keep \subseteq free /\ \A g \in free \ keep : Within(g, x)
  <2>0. a \in 0..Len(memlist) /\ c \in 1..(Len(memlist) + 1) /\ a + 1 <= c
    BY <1>4 DEF Joins
  <2>1. \A k \in 1..a : k \in 1..Len(memlist)
    BY <1>5, <2>0
  <2>2. \A k \in c..Len(memlist) : k \in 1..Len(memlist)
    BY <1>5, <2>0
  <2>3. \A k \in 1..Len(memlist) : k \in 1..a \/ k \in (a + 1)..(c - 1) \/ k \in c..Len(memlist)
    BY <1>5, <2>0
  <2> QED  BY <1>4, <2>1, <2>2, <2>3 DEF BlocksIn, Joins
<1>8. \A d \in inuse \ {b} : Apart(d, x)
  BY <1>4, <1>5 DEF BlocksOK, BlocksIn, Joins
<1>9. BlocksOK(keep \cup {x}, inuse \ {b})
  <2> HIDE DEF free, keep
  <2>1. Within(b, x)
    BY <1>4 DEF Joins
  <2> QED  BY <1>4, <1>5, <1>7, <1>8, <2>1, JoinKeeps
<1> HIDE DEF keep
<1> QED  BY <1>3, <1>6, <1>9 DEF IInv, Ordered, BlocksOK, Kept, BlocksIn

-----------------------------------------------------------------------------
LEMMA IInvInit == Init => IInv
<1> SUFFICES ASSUME Init PROVE IInv
  OBVIOUS
<1>1. memlist \in Seq(Blocks) /\ memlist = Regions /\ inuse = {}
  BY HeapAssumption DEF Init, Blocks
<1>2. Ordered(memlist)
  BY <1>1, HeapAssumption DEF Ordered, End
<1>3. BlocksOK(BlocksIn(memlist), inuse)
  BY <1>1 DEF BlocksOK, Kept, BlocksIn
<1> QED  BY <1>2, <1>3 DEF IInv

LEMMA IInvStep ==
  ASSUME EvenStacks, IInv, [Next]_vars
  PROVE  IInv'
<1>1. CASE Next
  BY <1>1, GetmemStep, GetstkStep, FreeStep DEF Next
<1>2. CASE UNCHANGED vars
  BY <1>2 DEF vars, IInv, Ordered, BlocksOK, Kept, BlocksIn
<1> QED  BY <1>1, <1>2

LEMMA IInvImplies ==
  ASSUME IInv
  PROVE  Coalesced /\ NoOverlap /\ NothingLost
<1>1. /\ Len(memlist) \in Nat /\ memlist \in Seq(Blocks)
      /\ \A i \in 1..Len(memlist) : memlist[i] \in Blocks /\ memlist[i] \in BlocksIn(memlist)
      /\ BlocksOK(BlocksIn(memlist), inuse) /\ inuse \subseteq Held
  BY OrderedTypes DEF IInv, BlocksOK, BlocksIn
<1>2. HeapTypeOK
  <2>1. memlist \in Seq([at : Nat, len : Nat])
    <3>1. Blocks \subseteq [at : Nat, len : Nat]
      BY DEF Blocks
    <3> QED  BY <1>1, <3>1, SeqMonotonic
  <2>2. Held \subseteq [at : Nat, len : Nat, kind : {"mem", "stk"}]
    BY DEF Held
  <2> QED  BY <1>1, <2>1, <2>2 DEF HeapTypeOK
<1>3. Coalesced
  BY <1>2 DEF Coalesced, IInv, Ordered
<1>4. ASSUME NEW b \in Blocks \cup Held, NEW c \in Blocks \cup Held, Apart(b, c)
      PROVE  Words(b) \cap Words(c) = {}
  <2>1. b.at \in Nat /\ End(b) \in Nat /\ c.at \in Nat /\ End(c) \in Nat
    BY BlockTypes
  <2> QED  BY <1>4, <2>1 DEF Apart, Words
<1>5. NoOverlap
  <2>1. \A b \in inuse, i \in 1..Len(memlist) : Apart(b, memlist[i])
    BY <1>1 DEF BlocksOK
  <2>2. \A b, c \in inuse : b # c => Apart(b, c)
    BY <1>1 DEF BlocksOK
  <2> QED  BY <1>1, <1>4, <2>1, <2>2 DEF NoOverlap
<1>6. ASSUME NEW b \in Blocks \cup Held, NEW w
      PROVE  w \in Words(b) <=> w \in Nat /\ Has(b, w)
  <2>1. b.at \in Nat /\ End(b) \in Nat
    BY BlockTypes
  <2> QED  BY <2>1 DEF Words, Has
<1>7. NothingLost
  <2>1. ASSUME NEW i \in 1..Len(Regions), NEW w \in Words(Regions[i])
        PROVE  \/ \E k \in 1..Len(memlist) : w \in Words(memlist[k])
               \/ \E b \in inuse : w \in Words(b)
    <3>1. Regions[i] \in Blocks
      <4>1. Regions \in Seq(Blocks)
        BY HeapAssumption DEF Blocks
      <4> QED  BY <4>1, ElementOfSeq
    <3>2. w \in Nat /\ Has(Regions[i], w)
      BY <1>6, <2>1, <3>1
    <3>3. PICK b \in BlocksIn(memlist) \cup inuse : Has(b, w)
      BY <1>1, <3>2 DEF BlocksOK, Kept
    <3>4. CASE b \in inuse
      BY <1>1, <1>6, <3>2, <3>3, <3>4
    <3>5. CASE b \in BlocksIn(memlist)
      <4>1. PICK k \in 1..Len(memlist) : b = memlist[k]
        BY <3>5 DEF BlocksIn
      <4> QED  BY <1>1, <1>6, <3>2, <3>3, <4>1
    <3> QED  BY <3>3, <3>4, <3>5
  <2>2. ASSUME NEW w \in UNION {Words(Regions[i]) : i \in 1..Len(Regions)}
        PROVE  w \in (UNION {Words(memlist[k]) : k \in 1..Len(memlist)})
                      \cup (UNION {Words(b) : b \in inuse})
    <3>1. PICK i \in 1..Len(Regions) : w \in Words(Regions[i])
      OBVIOUS
    <3>2. CASE \E k \in 1..Len(memlist) : w \in Words(memlist[k])
      BY <3>2
    <3>3. CASE \E b \in inuse : w \in Words(b)
      BY <3>3
    <3> QED  BY <2>1, <3>1, <3>2, <3>3
  <2> QED  BY <2>2 DEF NothingLost
<1> QED  BY <1>3, <1>5, <1>7

(* The free list stays in the order of its addresses, with something in    *)
(* use between neighbours: what getmem, getstk and freemem do to it.       *)
THEOREM FreeListCoalesced == EvenStacks => (Spec => []Coalesced)
<1> SUFFICES ASSUME EvenStacks PROVE Spec => []Coalesced
  OBVIOUS
<1>1. IInv /\ [Next]_vars => IInv'
  BY IInvStep
<1>2. IInv => Coalesced
  BY IInvImplies
<1> QED
  BY <1>1, <1>2, IInvInit, PTL DEF Spec

(* No word is handed out twice, or handed out and free: whoever holds a    *)
(* block from getmem or getstk holds it alone until freemem takes it back. *)
THEOREM BlocksDisjoint == EvenStacks => (Spec => []NoOverlap)
<1> SUFFICES ASSUME EvenStacks PROVE Spec => []NoOverlap
  OBVIOUS
<1>1. IInv /\ [Next]_vars => IInv'
  BY IInvStep
<1>2. IInv => NoOverlap
  BY IInvImplies
<1> QED
  BY <1>1, <1>2, IInvInit, PTL DEF Spec

(* No word leaks: freemem never refuses a block that was handed out, and   *)
(* the rest of a block that getmem or getstk splits stays free.            *)
THEOREM NoWordLost == EvenStacks => (Spec => []NothingLost)
<1> SUFFICES ASSUME EvenStacks PROVE Spec => []NothingLost
  OBVIOUS
<1>1. IInv /\ [Next]_vars => IInv'
  BY IInvStep
<1>2. IInv => NothingLost
  BY IInvImplies
<1> QED
  BY <1>1, <1>2, IInvInit, PTL DEF Spec
-----------------------------------------------------------------------------
(***************************************************************************)
(* The virtual heaps.  While one process at a time has a heap, and reaches *)
(* it through its own directory, the list from the head that all share     *)
(* through its own memory is the free blocks of its heap.                  *)
(***************************************************************************)
Header == [len : Nat, next : Cell \cup {NULL}]

InHeap(b) == VBase <= b.at /\ End(b) <= HSize + 1

(* The link that follows the i-th block of m, the head's for i = 0.        *)
NextOf(m, i) == IF i < Len(m) THEN m[i + 1].at ELSE NULL

Reads(head, h, m) ==
  /\ head = NextOf(m, 0)
  /\ \A i \in 1..Len(m) : h[m[i].at] = [len |-> m[i].len, next |-> NextOf(m, i)]

OwnBlocks(free, used) ==
  /\ used \subseteq Blocks
  /\ \A b \in free : InHeap(b)
  /\ \A b \in used : InHeap(b)
  /\ \A b \in used, f \in free : Apart(b, f)
  /\ \A b, c \in used : b # c => Apart(b, c)

HeapOf(p, m) ==
  /\ vhead \in Cell \cup {NULL} /\ header[p] \in [Cell -> Header]
  /\ Ordered(m) /\ Reads(vhead, header[p], m) /\ OwnBlocks(BlocksIn(m), held[p])

VTypes ==
  /\ DOMAIN header = VProc
  /\ DOMAIN held \subseteq VProc
  /\ mixed \in BOOLEAN

VInv ==
  /\ VTypes
  /\ ~mixed => /\ \A p, q \in DOMAIN held : p = q
               /\ \A p \in DOMAIN held : \E m : HeapOf(p, m)

(* The blocks of a list are as many as their addresses have room for.      *)
LEMMA ListIsShort ==
  ASSUME NEW m, Ordered(m), \A i \in 1..Len(m) : InHeap(m[i])
  PROVE  Len(m) <= HSize
<1>1. /\ Len(m) \in Nat /\ HSize \in Nat
      /\ \A i \in 1..Len(m) : /\ m[i].at \in Nat /\ End(m[i]) \in Nat
                              /\ m[i].at < End(m[i]) /\ 1 <= m[i].at
                              /\ End(m[i]) <= HSize + 1
      /\ \A i, j \in 1..Len(m) : i < j => End(m[i]) < m[j].at
  BY OrderedTypes, VHeapAssumption DEF Ordered, InHeap, VBase
<1> DEFINE Low == {i \in 1..Len(m) : m[i].at < i}
<1>2. Low = {}
  <2> SUFFICES ASSUME Low # {} PROVE FALSE
    OBVIOUS
  <2>1. PICK i \in Low : \A j \in Low : i <= j
    <3>1. Low \subseteq Nat
      BY <1>1
    <3> HIDE DEF Low
    <3> QED  BY <3>1, LeastNat, Zenon
  <2>2. i \in 1..Len(m) /\ m[i].at < i
    OBVIOUS
  <2>3. i > 1 /\ i - 1 \in 1..Len(m)
    <3>1. 1 <= m[i].at /\ m[i].at \in Nat /\ Len(m) \in Nat
      BY <1>1, <2>2
    <3> QED  BY <2>2, <3>1
  <2>4. i - 1 \notin Low
    BY <1>1, <2>1, <2>3
  <2>5. m[i - 1].at >= i - 1 /\ m[i - 1].at < End(m[i - 1]) /\ End(m[i - 1]) < m[i].at
    BY <1>1, <2>2, <2>3, <2>4
  <2>6. m[i].at \in Nat /\ m[i - 1].at \in Nat /\ End(m[i - 1]) \in Nat /\ i \in Nat
    BY <1>1, <2>2, <2>3
  <2> QED  BY <2>2, <2>5, <2>6
<1>3. CASE Len(m) = 0
  BY <1>1, <1>3
<1>4. CASE Len(m) > 0
  <2>1. Len(m) \in 1..Len(m) /\ Len(m) \notin Low
    BY <1>1, <1>2, <1>4
  <2>2. m[Len(m)].at >= Len(m)
    BY <1>1, <2>1
  <2> QED  BY <1>1, <2>1, <2>2
<1> QED  BY <1>1, <1>3, <1>4

(* The first blocks of m that the walk along the list has seen after k     *)
(* steps.                                                                  *)
SeenAfter(m, k) == [j \in 1..(IF k < Len(m) THEN k + 1 ELSE Len(m)) |-> m[j].at]

LEMMA SeenIsSeq ==
  ASSUME NEW m, Ordered(m), NEW k \in Nat
  PROVE  /\ SeenAfter(m, k) \in Seq(Nat)
         /\ Len(SeenAfter(m, k)) = IF k < Len(m) THEN k + 1 ELSE Len(m)
         /\ \A j \in 1..Len(SeenAfter(m, k)) : SeenAfter(m, k)[j] = m[j].at
<1> DEFINE n == IF k < Len(m) THEN k + 1 ELSE Len(m)
<1>1. n \in Nat /\ \A j \in 1..n : m[j].at \in Nat
  BY OrderedTypes
<1>2. SeenAfter(m, k) = [j \in 1..n |-> m[j].at]
  BY DEF SeenAfter
<1> HIDE DEF n
<1>3. SeenAfter(m, k) \in [1..n -> Nat]
  BY <1>1, <1>2
<1>4. SeenAfter(m, k) \in Seq(Nat)
  BY <1>1, <1>3
<1>5. Len(SeenAfter(m, k)) = n
  BY <1>1, <1>3, <1>4
<1> QED  BY <1>2, <1>4, <1>5 DEF n

(* What the walk does at a list s that it has seen.                        *)
Walked(s, h) ==
  IF s = <<>> \/ h[s[Len(s)]].next = NULL THEN s ELSE Append(s, h[s[Len(s)]].next)

LEMMA WalkGoesOn ==
  ASSUME NEW m, Ordered(m), \A i \in 1..Len(m) : InHeap(m[i]),
         NEW h, \A i \in 1..Len(m) : h[m[i].at] = [len |-> m[i].len, next |-> NextOf(m, i)],
         NEW k \in Nat
  PROVE  Walked(SeenAfter(m, k), h) = SeenAfter(m, k + 1)
<1> DEFINE s == SeenAfter(m, k)
           t == SeenAfter(m, k + 1)
<1>1. /\ Len(m) \in Nat /\ \A i \in 1..Len(m) : m[i].at \in Nat /\ m[i].at # NULL
      /\ s \in Seq(Nat) /\ Len(s) = IF k < Len(m) THEN k + 1 ELSE Len(m)
      /\ \A j \in 1..Len(s) : s[j] = m[j].at
      /\ t \in Seq(Nat) /\ Len(t) = IF k + 1 < Len(m) THEN k + 2 ELSE Len(m)
      /\ \A j \in 1..Len(t) : t[j] = m[j].at
  <2>1. k + 1 \in Nat
    OBVIOUS
  <2>2. Len(m) \in Nat /\ \A i \in 1..Len(m) : m[i].at \in Nat /\ m[i].at # NULL
    BY OrderedTypes DEF InHeap, VBase, NULL
  <2>3. /\ s \in Seq(Nat) /\ Len(s) = IF k < Len(m) THEN k + 1 ELSE Len(m)
        /\ \A j \in 1..Len(s) : s[j] = m[j].at
    BY SeenIsSeq
  <2>4. /\ t \in Seq(Nat) /\ Len(t) = IF k + 1 < Len(m) THEN (k + 1) + 1 ELSE Len(m)
        /\ \A j \in 1..Len(t) : t[j] = m[j].at
    BY <2>1, SeenIsSeq
  <2> HIDE DEF s, t
  <2> QED  BY <2>2, <2>3, <2>4
<1> HIDE DEF s, t
<1>2. CASE k < Len(m)
  <2>1. Len(s) = k + 1 /\ k + 1 \in 1..Len(m) /\ s # <<>> /\ s[Len(s)] = m[k + 1].at
    BY <1>1, <1>2
  <2>2. h[s[Len(s)]].next = NextOf(m, k + 1)
    <3>1. h[m[k + 1].at] = [len |-> m[k + 1].len, next |-> NextOf(m, k + 1)]
      BY <2>1
    <3> QED  BY <2>1, <3>1
  <2>3. CASE k + 1 < Len(m)
    <3>1. NextOf(m, k + 1) = m[k + 2].at /\ k + 2 \in 1..Len(m)
      BY <1>1, <2>1, <2>3 DEF NextOf
    <3>2. Walked(s, h) = Append(s, m[k + 2].at)
      BY <1>1, <2>1, <2>2, <3>1 DEF Walked
    <3>3. /\ Append(s, m[k + 2].at) \in Seq(Nat)
          /\ Len(Append(s, m[k + 2].at)) = Len(t)
      BY <1>1, <2>1, <2>3, <3>1
    <3>4. \A j \in 1..Len(t) : Append(s, m[k + 2].at)[j] = t[j]
      <4> SUFFICES ASSUME NEW j \in 1..Len(t) PROVE Append(s, m[k + 2].at)[j] = t[j]
        OBVIOUS
      <4>1. Len(t) = k + 2 /\ t[j] = m[j].at
        BY <1>1, <2>3
      <4>2. CASE j = k + 2
        BY <1>1, <2>1, <3>1, <4>1, <4>2
      <4>3. CASE j # k + 2
        <5>1. j \in 1..Len(s)
          BY <2>1, <4>1, <4>3
        <5> QED  BY <1>1, <3>1, <4>1, <5>1
      <4> QED  BY <4>2, <4>3
    <3> QED  BY <1>1, <3>2, <3>3, <3>4, SeqEqual DEF s, t
  <2>4. CASE ~(k + 1 < Len(m))
    <3>1. NextOf(m, k + 1) = NULL
      BY <2>4 DEF NextOf
    <3>2. Walked(s, h) = s
      BY <2>2, <3>1 DEF Walked
    <3>3. Len(s) = Len(t)
      BY <1>1, <2>1, <2>4
    <3> QED  BY <1>1, <3>2, <3>3, SeqEqual DEF s, t
  <2> QED  BY <2>3, <2>4
<1>3. CASE ~(k < Len(m))
  <2>1. Len(s) = Len(m) /\ Len(t) = Len(m)
    BY <1>1, <1>3
  <2>2. s = t
    <3>1. \A j \in 1..Len(s) : s[j] = t[j]
      BY <1>1, <2>1
    <3> QED  BY <1>1, <2>1, <3>1, SeqEqual
  <2>3. CASE Len(m) = 0
    <3>1. s = <<>>
      BY <1>1, <2>1, <2>3
    <3> QED  BY <2>2, <3>1 DEF Walked, s, t
  <2>4. CASE Len(m) # 0
    <3>1. Len(m) \in 1..Len(m) /\ s[Len(s)] = m[Len(m)].at
      BY <1>1, <2>1, <2>4
    <3>2. h[s[Len(s)]].next = NULL
      <4>1. h[m[Len(m)].at] = [len |-> m[Len(m)].len, next |-> NextOf(m, Len(m))]
        BY <3>1
      <4>2. NextOf(m, Len(m)) = NULL
        BY <1>1 DEF NextOf
      <4> QED  BY <3>1, <4>1, <4>2
    <3> QED  BY <2>2, <3>2 DEF Walked, s, t
  <2> QED  BY <2>3, <2>4
<1> QED  BY <1>2, <1>3

(* What a process sees of its list, from the head on, is the list.         *)
LEMMA ChainIsList ==
  ASSUME NEW p, NEW m, Ordered(m), \A i \in 1..Len(m) : InHeap(m[i]),
         Reads(vhead, header[p], m)
  PROVE  /\ Chain(p) \in Seq(Nat) /\ Len(Chain(p)) = Len(m)
         /\ \A k \in 1..Len(m) : Chain(p)[k] = m[k].at
<1> DEFINE First == IF vhead = NULL THEN <<>> ELSE <<vhead>>
           Rec(f) == f = [k \in 0..HSize |-> IF k = 0 THEN First
                                            ELSE Walked(f[k - 1], header[p])]
           g == [k \in 0..HSize |-> SeenAfter(m, k)]
<1>1. HSize \in Nat /\ Len(m) \in Nat
      /\ \A i \in 1..Len(m) : m[i].at \in Nat /\ m[i].at # NULL
  BY OrderedTypes, VHeapAssumption DEF InHeap, VBase, NULL
<1>2. First = SeenAfter(m, 0)
  <2>1. /\ SeenAfter(m, 0) \in Seq(Nat)
        /\ Len(SeenAfter(m, 0)) = IF 0 < Len(m) THEN 1 ELSE Len(m)
        /\ \A j \in 1..Len(SeenAfter(m, 0)) : SeenAfter(m, 0)[j] = m[j].at
    <3>1. 0 \in Nat /\ 0 + 1 = 1
      OBVIOUS
    <3> QED  BY <3>1, SeenIsSeq
  <2>2. vhead = IF 0 < Len(m) THEN m[1].at ELSE NULL
    BY <1>1 DEF Reads, NextOf
  <2>3. CASE Len(m) = 0
    BY <1>1, <2>1, <2>2, <2>3
  <2>4. CASE Len(m) > 0
    <3>1. vhead = m[1].at /\ vhead \in Nat /\ vhead # NULL
      BY <1>1, <2>2, <2>4
    <3>2. <<vhead>> \in Seq(Nat) /\ Len(<<vhead>>) = 1 /\ <<vhead>>[1] = vhead
      BY <3>1
    <3>3. <<vhead>> = SeenAfter(m, 0)
      <4>1. Len(SeenAfter(m, 0)) = 1 /\ SeenAfter(m, 0)[1] = vhead
        BY <1>1, <2>1, <2>4, <3>1
      <4> QED  BY <2>1, <3>2, <4>1, SeqEqual
    <3> QED  BY <3>1, <3>3
  <2> QED  BY <1>1, <2>3, <2>4
<1> HIDE DEF First
<1>3. \A k \in 1..HSize : SeenAfter(m, k) = Walked(SeenAfter(m, k - 1), header[p])
  <2> SUFFICES ASSUME NEW k \in 1..HSize
               PROVE  SeenAfter(m, k) = Walked(SeenAfter(m, k - 1), header[p])
    OBVIOUS
  <2>1. k - 1 \in Nat /\ (k - 1) + 1 = k
    BY <1>1
  <2>2. Walked(SeenAfter(m, k - 1), header[p]) = SeenAfter(m, (k - 1) + 1)
    BY <2>1, WalkGoesOn DEF Reads
  <2> QED  BY <2>1, <2>2
<1>4. Rec(g)
  <2>1. ASSUME NEW k \in 0..HSize
        PROVE  g[k] = IF k = 0 THEN First ELSE Walked(g[k - 1], header[p])
    <3>1. CASE k = 0
      BY <1>1, <1>2, <3>1
    <3>2. CASE k # 0
      <4>1. k \in 1..HSize /\ k - 1 \in 0..HSize
        BY <1>1, <3>2
      <4> QED  BY <1>3, <3>2, <4>1
    <3> QED  BY <3>1, <3>2
  <2> QED  BY <2>1
<1> DEFINE upto == CHOOSE f : Rec(f)
<1>5. Chain(p) = upto[HSize]
  BY DEF Chain, Walked, First
<1>6. Rec(upto)
  <2> HIDE DEF Rec, g
  <2> QED  BY <1>4
<1> HIDE DEF upto
<1>7. \A k \in 0..HSize : upto[k] = IF k = 0 THEN First ELSE Walked(upto[k - 1], header[p])
  BY <1>6
<1>8. \A k \in 0..HSize : upto[k] = SeenAfter(m, k)
  <2> DEFINE Odd == {k \in 0..HSize : upto[k] # SeenAfter(m, k)}
  <2> SUFFICES ASSUME Odd # {} PROVE FALSE
    OBVIOUS
  <2>1. PICK k \in Odd : \A j \in Odd : k <= j
    <3>1. Odd \subseteq Nat
      BY <1>1
    <3> HIDE DEF Odd
    <3> QED  BY <3>1, LeastNat, Zenon
  <2>2. k \in 0..HSize /\ upto[k] # SeenAfter(m, k)
    OBVIOUS
  <2>3. k # 0
    BY <1>2, <1>7, <2>2
  <2>4. k \in 1..HSize /\ k - 1 \in 0..HSize /\ ~(k <= k - 1)
    BY <1>1, <2>2, <2>3
  <2>5. upto[k - 1] = SeenAfter(m, k - 1)
    BY <2>1, <2>4
  <2>6. upto[k] = Walked(SeenAfter(m, k - 1), header[p])
    BY <1>7, <2>2, <2>3, <2>5
  <2> QED  BY <1>3, <2>2, <2>4, <2>6
<1>9. HSize \in 0..HSize /\ Chain(p) = SeenAfter(m, HSize)
  BY <1>1, <1>5, <1>8
<1>10. Len(m) <= HSize
  BY ListIsShort
<1> QED  BY <1>1, <1>9, <1>10, SeenIsSeq

(* The next three lemmas are about lists and memory apart from variables:  *)
(* a block left out of a list, and one put in place of some of it.         *)
LEMMA RemoveReads ==
  ASSUME NEW m, Ordered(m), NEW i \in 1..Len(m), NEW head, NEW h, Reads(head, h, m),
         NEW head2, head2 = IF i = 1 THEN NextOf(m, i) ELSE head,
         NEW h2, \A j \in 1..Len(m) : j # i /\ j # i - 1 => h2[m[j].at] = h[m[j].at],
         i > 1 => h2[m[i - 1].at] = [len |-> m[i - 1].len, next |-> NextOf(m, i)]
  PROVE  Reads(head2, h2, RemoveAt(m, i))
<1> DEFINE t == RemoveAt(m, i)
<1>1. m \in Seq(Blocks) /\ Len(m) \in Nat
  BY OrderedTypes
<1>2. /\ Len(t) = Len(m) - 1
      /\ \A j \in 1..(Len(m) - 1) : t[j] = IF j < i THEN m[j] ELSE m[j + 1]
  BY <1>1, RemoveAtProperties
<1> HIDE DEF t
<1>3. \A j \in 0..Len(t) : NextOf(t, j) = IF j < i - 1 THEN NextOf(m, j) ELSE NextOf(m, j + 1)
  <2> SUFFICES ASSUME NEW j \in 0..Len(t)
               PROVE  NextOf(t, j) = IF j < i - 1 THEN NextOf(m, j) ELSE NextOf(m, j + 1)
    OBVIOUS
  <2>1. CASE j < Len(t)
    <3>1. j + 1 \in 1..(Len(m) - 1) /\ (j + 1 < i <=> j < i - 1) /\ j < Len(m) /\ j + 1 < Len(m)
      BY <1>1, <1>2, <2>1
    <3>2. t[j + 1] = IF j + 1 < i THEN m[j + 1] ELSE m[j + 1 + 1]
      BY <1>2, <3>1
    <3> QED  BY <2>1, <3>1, <3>2 DEF NextOf
  <2>2. CASE ~(j < Len(t))
    <3>1. j = Len(m) - 1 /\ ~(j < i - 1) /\ ~(j + 1 < Len(m))
      BY <1>1, <1>2, <2>2
    <3> QED  BY <2>2, <3>1 DEF NextOf
  <2> QED  BY <2>1, <2>2
<1>4. head2 = NextOf(t, 0)
  <2>1. 0 \in 0..Len(t) /\ (0 < i - 1 <=> i # 1) /\ (i = 1 => 0 + 1 = i)
    BY <1>1, <1>2
  <2> QED  BY <1>3, <2>1 DEF Reads
<1>5. ASSUME NEW j \in 1..Len(t)
      PROVE  h2[t[j].at] = [len |-> t[j].len, next |-> NextOf(t, j)]
  <2>1. j \in 1..(Len(m) - 1) /\ j \in 0..Len(t) /\ j \in 1..Len(m) /\ j + 1 \in 1..Len(m)
    BY <1>1, <1>2
  <2>2. CASE j < i - 1
    <3>1. j < i /\ j # i /\ j # i - 1
      BY <1>1, <2>1, <2>2
    <3>2. t[j] = m[j] /\ NextOf(t, j) = NextOf(m, j)
      BY <1>2, <1>3, <2>1, <2>2, <3>1
    <3> QED  BY <2>1, <3>1, <3>2 DEF Reads
  <2>3. CASE j = i - 1
    <3>1. j < i /\ ~(j < i - 1) /\ j + 1 = i /\ i > 1
      BY <1>1, <2>1, <2>3
    <3>2. t[j] = m[i - 1] /\ NextOf(t, j) = NextOf(m, i)
      BY <1>2, <1>3, <2>1, <2>3, <3>1
    <3> QED  BY <3>1, <3>2
  <2>4. CASE j > i - 1
    <3>1. ~(j < i) /\ ~(j < i - 1) /\ j + 1 # i /\ j + 1 # i - 1
      BY <1>1, <2>1, <2>4
    <3>2. t[j] = m[j + 1] /\ NextOf(t, j) = NextOf(m, j + 1)
      BY <1>2, <1>3, <2>1, <3>1
    <3> QED  BY <2>1, <3>1, <3>2 DEF Reads
  <2> QED  BY <1>1, <2>1, <2>2, <2>3, <2>4
<1> QED  BY <1>4, <1>5 DEF Reads, t

LEMMA SpliceReads ==
  ASSUME NEW m, Ordered(m), NEW a \in 0..Len(m), NEW c \in (a + 1)..(Len(m) + 1),
         NEW x \in Blocks, NEW head, NEW h, Reads(head, h, m),
         NEW head2, head2 = IF a = 0 THEN x.at ELSE head,
         NEW h2, \A j \in 1..Len(m) : j < a \/ j >= c => h2[m[j].at] = h[m[j].at],
         a > 0 => h2[m[a].at] = [len |-> m[a].len, next |-> x.at],
         h2[x.at] = [len |-> x.len, next |-> NextOf(m, c - 1)]
  PROVE  Reads(head2, h2, Spliced(m, a, x, c))
<1> DEFINE t == Spliced(m, a, x, c)
<1>1. m \in Seq(Blocks) /\ Len(m) \in Nat
  BY OrderedTypes
<1>2. /\ Len(t) = a + 1 + (Len(m) + 1 - c)
      /\ \A j \in 1..Len(t) : t[j] = IF j <= a THEN m[j]
                                     ELSE IF j = a + 1 THEN x ELSE m[j - (a + 1) + c - 1]
  BY <1>1, SpliceEntries
<1> HIDE DEF t
<1> DEFINE from(j) == j - (a + 1) + c - 1
<1>3. \A j \in 0..Len(t) : NextOf(t, j) = IF j < a THEN NextOf(m, j)
                                         ELSE IF j = a THEN x.at ELSE NextOf(m, from(j))
  <2> SUFFICES ASSUME NEW j \in 0..Len(t)
               PROVE  NextOf(t, j) = IF j < a THEN NextOf(m, j)
                                     ELSE IF j = a THEN x.at ELSE NextOf(m, from(j))
    OBVIOUS
  <2>0. /\ Len(m) \in Nat /\ Len(t) = a + 1 + (Len(m) + 1 - c)
        /\ a \in Nat /\ c \in Nat /\ a + 1 <= c /\ c <= Len(m) + 1
        /\ j \in Nat /\ j <= Len(t)
    BY <1>1, <1>2
  <2>1. CASE j < Len(t)
    <3>1. j + 1 \in 1..Len(t) /\ NextOf(t, j) = t[j + 1].at
      BY <1>1, <1>2, <2>1 DEF NextOf
    <3>2. t[j + 1] = IF j + 1 <= a THEN m[j + 1]
                     ELSE IF j + 1 = a + 1 THEN x ELSE m[(j + 1) - (a + 1) + c - 1]
      BY <1>2, <3>1
    <3>3. CASE j < a
      <4>1. j + 1 <= a /\ j < Len(m)
        BY <1>1, <3>3
      <4> QED  BY <3>1, <3>2, <3>3, <4>1 DEF NextOf
    <3>4. CASE j = a
      <4>1. ~(j + 1 <= a) /\ j + 1 = a + 1
        BY <1>1, <3>4
      <4> QED  BY <3>1, <3>2, <3>4, <4>1
    <3>5. CASE j > a
      <4>1. /\ ~(j + 1 <= a) /\ j + 1 # a + 1 /\ ~(j < a) /\ j # a
            /\ (j + 1) - (a + 1) + c - 1 = from(j) + 1 /\ from(j) < Len(m)
        BY <2>0, <2>1, <3>5
      <4>2. NextOf(m, from(j)) = m[from(j) + 1].at
        BY <4>1 DEF NextOf
      <4> QED  BY <3>1, <3>2, <4>1, <4>2
    <3> QED  BY <2>0, <3>3, <3>4, <3>5
  <2>2. CASE ~(j < Len(t))
    <3>0. j = a + 1 + (Len(m) + 1 - c) /\ j = Len(t)
      BY <2>0, <2>2
    <3>1. j = Len(t) /\ ~(j < a) /\ j # a /\ from(j) = Len(m)
      BY <2>0, <3>0
    <3> HIDE DEF from
    <3> QED  BY <1>1, <2>2, <3>1 DEF NextOf
  <2> QED  BY <2>1, <2>2
<1>4. head2 = NextOf(t, 0)
  <2>1. 0 \in 0..Len(t) /\ (0 < a <=> a # 0)
    BY <1>1, <1>2
  <2> QED  BY <1>3, <2>1 DEF Reads
<1>5. ASSUME NEW j \in 1..Len(t)
      PROVE  h2[t[j].at] = [len |-> t[j].len, next |-> NextOf(t, j)]
  <2>1. j \in 0..Len(t)
    BY <1>1, <1>2
  <2>2. CASE j < a
    <3>1. j <= a /\ j \in 1..Len(m)
      BY <1>1, <2>2
    <3>2. t[j] = m[j] /\ NextOf(t, j) = NextOf(m, j)
      BY <1>2, <1>3, <2>1, <2>2, <3>1
    <3> QED  BY <2>2, <3>1, <3>2 DEF Reads
  <2>3. CASE j = a
    <3>1. j <= a /\ ~(j < a) /\ a > 0
      BY <1>1, <2>3
    <3>2. t[j] = m[a] /\ NextOf(t, j) = x.at
      BY <1>2, <1>3, <2>1, <2>3, <3>1
    <3> QED  BY <3>1, <3>2
  <2>4. CASE j = a + 1
    <3>1. ~(j <= a) /\ ~(j < a) /\ j # a /\ from(j) = c - 1
      BY <1>1, <2>4
    <3>2. t[j] = x /\ NextOf(t, j) = NextOf(m, c - 1)
      BY <1>2, <1>3, <2>1, <2>4, <3>1
    <3> QED  BY <3>2
  <2>5. CASE j > a + 1
    <3>1. /\ ~(j <= a) /\ ~(j < a) /\ j # a /\ j # a + 1
          /\ from(j) \in 1..Len(m) /\ from(j) >= c
      BY <1>1, <1>2, <2>5
    <3>2. t[j] = m[from(j)] /\ NextOf(t, j) = NextOf(m, from(j))
      BY <1>2, <1>3, <2>1, <3>1
    <3> HIDE DEF from
    <3> QED  BY <3>1, <3>2 DEF Reads
  <2> QED  BY <1>1, <1>2, <2>2, <2>3, <2>4, <2>5
<1> QED  BY <1>4, <1>5 DEF Reads, t

LEMMA TakeOwn ==
  ASSUME NEW free, NEW used, OwnBlocks(free, used), free \subseteq Blocks, NEW f \in free,
         \A g \in free : g # f => Apart(f, g),
         NEW b \in Blocks, Within(b, f), NEW rest, rest \subseteq Blocks,
         \A r \in rest : Within(r, f) /\ Apart(b, r)
  PROVE  OwnBlocks((free \ {f}) \cup rest, used \cup {b})
<1>1. /\ used \subseteq Blocks /\ \A g \in free : InHeap(g) /\ \A c \in used : Apart(c, g)
      /\ \A c \in used : InHeap(c)
      /\ \A c, d \in used : c # d => Apart(c, d)
  BY DEF OwnBlocks
<1>2. ASSUME NEW c \in Blocks, Apart(f, c) \/ Apart(c, f), NEW r \in Blocks, Within(r, f)
      PROVE  Apart(c, r) /\ Apart(r, c)
  <2>1. /\ c.at \in Nat /\ End(c) \in Nat /\ r.at \in Nat /\ End(r) \in Nat
        /\ f.at \in Nat /\ End(f) \in Nat
    BY BlockTypes
  <2> QED  BY <1>2, <2>1 DEF Apart, Within
<1>3. ASSUME NEW r \in Blocks, Within(r, f) PROVE InHeap(r)
  <2>1. /\ r.at \in Nat /\ End(r) \in Nat /\ f.at \in Nat /\ End(f) \in Nat /\ InHeap(f)
        /\ HSize \in Nat
    BY <1>1, BlockTypes, VHeapAssumption
  <2> QED  BY <1>3, <2>1 DEF InHeap, Within, VBase
<1>4. \A c \in used, r \in rest : Apart(c, r)
  BY <1>1, <1>2
<1>5. \A g \in free : g # f => Apart(b, g)
  BY <1>2
<1>6. \A c \in used : Apart(b, c) /\ Apart(c, b)
  BY <1>1, <1>2
<1> QED  BY <1>1, <1>3, <1>4, <1>5, <1>6 DEF OwnBlocks

LEMMA GiveOwn ==
  ASSUME NEW free, NEW used, OwnBlocks(free, used), NEW b \in used, NEW x, InHeap(x),
         NEW keep, keep \subseteq free, \A d \in used \ {b} : Apart(d, x)
  PROVE  OwnBlocks(keep \cup {x}, used \ {b})
BY DEF OwnBlocks

-----------------------------------------------------------------------------
(* One lemma per operation.                                                *)
(* Process p's memory is h, but for the header at d, if any, which leads   *)
(* to a.                                                                   *)
Wrote(p, first, d, a, h) ==
  /\ vhead' \in Cell \cup {NULL}
  /\ DOMAIN header' = VProc /\ header'[p] \in [Cell -> Header]
  /\ \A c \in Cell : first \/ c # d => header'[p][c] = h[c]
  /\ ~first => header'[p][d] = [len |-> h[d].len, next |-> a]

LEMMA LinkedReads ==
  ASSUME VTypes, vhead \in Cell \cup {NULL}, NEW p \in VProc, NEW chain, NEW i \in Nat, i >= 1,
         NEW d, i > 1 => d = chain[i - 1] /\ d \in Cell, NEW a \in Cell \cup {NULL},
         NEW h \in [Cell -> Header], Linked(p, chain, i, a, h)
  PROVE  Wrote(p, i = 1, d, a, h)
<1>1. CASE i = 1
  <2>1. vhead' = a /\ header' = [header EXCEPT ![p] = h]
    BY <1>1 DEF Linked
  <2> QED  BY <1>1, <2>1 DEF VTypes, Wrote
<1>2. CASE i # 1
  <2>1. i > 1 /\ vhead' = vhead
        /\ header' = [header EXCEPT ![p] = [h EXCEPT ![chain[i - 1]].next = a]]
    BY <1>2 DEF Linked
  <2> DEFINE k == [h EXCEPT ![d].next = a]
  <2>2. d \in Cell /\ h[d] \in Header
    BY <2>1
  <2>3. /\ k \in [Cell -> Header] /\ k[d] = [len |-> h[d].len, next |-> a]
        /\ \A c \in Cell : c # d => k[c] = h[c]
    BY <2>2 DEF Header
  <2>4. header' = [header EXCEPT ![p] = k]
    BY <2>1
  <2> HIDE DEF k
  <2>5. header'[p] = k /\ DOMAIN header' = VProc
    BY <2>3, <2>4 DEF VTypes
  <2> QED  BY <1>2, <2>1, <2>3, <2>5 DEF VTypes, Wrote
<1> QED  BY <1>1, <1>2

(* The list and the memory of the one process that has a heap.             *)
LEMMA HeapFacts ==
  ASSUME VTypes, NEW p \in DOMAIN held, NEW m, HeapOf(p, m)
  PROVE  /\ p \in VProc /\ HSize \in Nat /\ HSize \in Cell /\ vhead \in Cell \cup {NULL}
         /\ header[p] \in [Cell -> Header]
         /\ Len(m) \in Nat /\ m \in Seq(Blocks)
         /\ \A i \in 1..Len(m) : /\ m[i] \in BlocksIn(m) /\ m[i].at \in Cell /\ InHeap(m[i])
                                 /\ header[p][m[i].at] = [len |-> m[i].len, next |-> NextOf(m, i)]
         /\ \A i \in 0..Len(m) : NextOf(m, i) \in Cell \cup {NULL}
         /\ BlocksIn(m) \subseteq Blocks
         /\ \A b \in held[p] : /\ b \in Blocks /\ b.at \in Cell /\ InHeap(b)
                              /\ \A f \in BlocksIn(m) : Apart(b, f)
         /\ Chain(p) \in Seq(Nat) /\ Len(Chain(p)) = Len(m)
         /\ \A k \in 1..Len(m) : Chain(p)[k] = m[k].at
<1>1. /\ p \in VProc /\ HSize \in Nat /\ HSize # 0 /\ header[p] \in [Cell -> Header]
      /\ Ordered(m) /\ Reads(vhead, header[p], m) /\ OwnBlocks(BlocksIn(m), held[p])
      /\ vhead \in Cell \cup {NULL}
  BY VHeapAssumption DEF VTypes, HeapOf
<1>2. ASSUME NEW b \in Blocks, InHeap(b) PROVE b.at \in Cell
  <2>1. b.at \in Nat /\ End(b) \in Nat /\ b.at < End(b)
    BY BlockTypes
  <2> QED  BY <1>1, <1>2, <2>1 DEF InHeap, Cell, VBase
<1>3. Len(m) \in Nat /\ m \in Seq(Blocks) /\ \A i \in 1..Len(m) : m[i] \in Blocks
  BY <1>1, OrderedTypes
<1>4. \A i \in 1..Len(m) : m[i] \in BlocksIn(m)
  BY DEF BlocksIn
<1>5. \A i \in 1..Len(m) : InHeap(m[i]) /\ m[i].at \in Cell
  BY <1>1, <1>2, <1>3, <1>4 DEF OwnBlocks
<1>6. ASSUME NEW i \in 0..Len(m) PROVE NextOf(m, i) \in Cell \cup {NULL}
  <2>1. i < Len(m) => i + 1 \in 1..Len(m)
    BY <1>3
  <2> QED  BY <1>5, <2>1 DEF NextOf
<1>7. BlocksIn(m) \subseteq Blocks
  BY <1>3 DEF BlocksIn
<1>8. \A b \in held[p] : /\ b \in Blocks /\ b.at \in Cell /\ InHeap(b)
                        /\ \A f \in BlocksIn(m) : Apart(b, f)
  BY <1>1, <1>2 DEF OwnBlocks
<1>9. \A i \in 1..Len(m) : header[p][m[i].at] = [len |-> m[i].len, next |-> NextOf(m, i)]
  BY <1>1 DEF Reads
<1>10. /\ Chain(p) \in Seq(Nat) /\ Len(Chain(p)) = Len(m)
       /\ \A k \in 1..Len(m) : Chain(p)[k] = m[k].at
  BY <1>1, <1>5, ChainIsList
<1>11. HSize \in Cell
  BY <1>1 DEF Cell, VBase
<1> QED  BY <1>1, <1>3, <1>4, <1>5, <1>6, <1>7, <1>8, <1>9, <1>10, <1>11

(* Blocks of a list begin at different places.                             *)
LEMMA DistinctCells ==
  ASSUME NEW m, Ordered(m), NEW i \in 1..Len(m), NEW j \in 1..Len(m), m[i].at = m[j].at
  PROVE  i = j
<1>1. /\ Len(m) \in Nat /\ m[i].at \in Nat /\ m[j].at \in Nat
      /\ m[i].at < End(m[i]) /\ m[j].at < End(m[j]) /\ End(m[i]) \in Nat /\ End(m[j]) \in Nat
      /\ i < j => End(m[i]) < m[j].at
      /\ j < i => End(m[j]) < m[i].at
  BY OrderedTypes DEF Ordered
<1> QED  BY <1>1

LEMMA VgetmemStep ==
  ASSUME VTypes, NEW p \in DOMAIN held, NEW m, HeapOf(p, m), NEW n \in VSizes, Vgetmem(p, n),
         Seen(p) = p
  PROVE  /\ vhead' \in Cell \cup {NULL}
         /\ DOMAIN header' = VProc /\ header'[p] \in [Cell -> Header]
         /\ DOMAIN held' = DOMAIN held
         /\ \E t : Ordered(t) /\ Reads(vhead', header'[p], t) /\ OwnBlocks(BlocksIn(t), held'[p])
<1>r. CASE UNCHANGED <<vhead, header, held>>
  <2>1. /\ vhead' = vhead /\ header' = header /\ held' = held
        /\ vhead \in Cell \cup {NULL} /\ DOMAIN header = VProc /\ header[p] \in [Cell -> Header]
        /\ Ordered(m) /\ Reads(vhead, header[p], m) /\ OwnBlocks(BlocksIn(m), held[p])
    BY <1>r DEF HeapOf, VTypes
  <2>2. Ordered(m) /\ Reads(vhead', header'[p], m) /\ OwnBlocks(BlocksIn(m), held'[p])
    BY <2>1
  <2> QED  BY <2>1, <2>2
<1> SUFFICES ASSUME ~UNCHANGED <<vhead, header, held>>
             PROVE  /\ vhead' \in Cell \cup {NULL}
                    /\ DOMAIN header' = VProc /\ header'[p] \in [Cell -> Header]
                    /\ DOMAIN held' = DOMAIN held
                    /\ \E t : /\ Ordered(t) /\ Reads(vhead', header'[p], t)
                             /\ OwnBlocks(BlocksIn(t), held'[p])
  BY <1>r
<1>0. ~UNCHANGED <<vhead, header, held>> /\ Seen(p) = p
  OBVIOUS
<1> DEFINE I == {k \in 1..Len(Chain(p)) : header[p][Chain(p)[k]].len >= n}
<1>1. PICK ch : ch = Chain(p)
  OBVIOUS
<1>2. PICK i : i = FirstIn(I, Len(Chain(p)))
  OBVIOUS
<1>3. /\ i <= Len(ch)
      /\ IF header[p][ch[i]].len = n
           THEN Linked(p, ch, i, header[p][ch[i]].next, header[p])
           ELSE Linked(p, ch, i, ch[i] + n,
                       [header[p] EXCEPT ![ch[i] + n] = [len |-> header[p][ch[i]].len - n,
                                                         next |-> header[p][ch[i]].next]])
      /\ held' = [held EXCEPT ![p] = @ \cup {[at |-> ch[i], len |-> n]}]
  BY <1>0, <1>1, <1>2, Zenon DEF Vgetmem
<1>4. /\ Ordered(m) /\ Reads(vhead, header[p], m) /\ OwnBlocks(BlocksIn(m), held[p])
      /\ n \in Nat /\ n # 0
  BY VHeapAssumption DEF HeapOf
<1>5. /\ p \in VProc /\ HSize \in Nat /\ header[p] \in [Cell -> Header]
      /\ vhead \in Cell \cup {NULL}
      /\ Len(m) \in Nat /\ m \in Seq(Blocks)
      /\ \A k \in 1..Len(m) : /\ m[k] \in BlocksIn(m) /\ m[k].at \in Cell /\ InHeap(m[k])
                              /\ header[p][m[k].at] = [len |-> m[k].len, next |-> NextOf(m, k)]
      /\ \A k \in 0..Len(m) : NextOf(m, k) \in Cell \cup {NULL}
      /\ BlocksIn(m) \subseteq Blocks
      /\ Len(ch) = Len(m) /\ \A k \in 1..Len(m) : ch[k] = m[k].at
  <2>1. /\ p \in VProc /\ HSize \in Nat /\ header[p] \in [Cell -> Header]
        /\ vhead \in Cell \cup {NULL} /\ Len(m) \in Nat /\ m \in Seq(Blocks)
        /\ \A k \in 0..Len(m) : NextOf(m, k) \in Cell \cup {NULL}
        /\ BlocksIn(m) \subseteq Blocks
    BY HeapFacts
  <2>2. \A k \in 1..Len(m) : /\ m[k] \in BlocksIn(m) /\ m[k].at \in Cell /\ InHeap(m[k])
                            /\ header[p][m[k].at] = [len |-> m[k].len, next |-> NextOf(m, k)]
    BY HeapFacts
  <2>3. Len(Chain(p)) = Len(m) /\ \A k \in 1..Len(m) : Chain(p)[k] = m[k].at
    BY HeapFacts
  <2> QED  BY <1>1, <2>1, <2>2, <2>3
<1>6. i \in 1..Len(m) /\ m[i].len >= n
  <2>1. i \in 1..(Len(m) + 1) /\ (i \in I \/ i = Len(m) + 1)
    <3> HIDE DEF I
    <3>1. i = FirstIn(I, Len(m))
      BY <1>1, <1>2, <1>5
    <3> QED  BY <1>5, <3>1, FirstInIsLeast
  <2>2. i \in 1..Len(m) /\ i \in I
    BY <1>3, <1>5, <2>1
  <2>3. header[p][ch[i]].len >= n
    BY <1>1, <2>2
  <2>4. header[p][ch[i]] = [len |-> m[i].len, next |-> NextOf(m, i)]
    BY <1>5, <2>2
  <2> QED  BY <2>2, <2>3, <2>4
<1> HIDE DEF I
<1> DEFINE f == m[i]
           b == [at |-> m[i].at, len |-> n]
<1>7. /\ f \in Blocks /\ f.at \in Nat /\ f.len \in Nat /\ f.len # 0 /\ End(f) = f.at + f.len
      /\ f \in BlocksIn(m) /\ InHeap(f) /\ ch[i] = f.at
      /\ header[p][ch[i]].len = f.len /\ header[p][ch[i]].next = NextOf(m, i)
      /\ \A g \in BlocksIn(m) : g # f => Apart(f, g)
  <2>1. f \in BlocksIn(m) /\ InHeap(f) /\ ch[i] = f.at /\ f \in Blocks
    BY <1>5, <1>6
  <2>2. header[p][ch[i]] = [len |-> f.len, next |-> NextOf(m, i)]
    BY <1>5, <1>6
  <2>3. f.at \in Nat /\ f.len \in Nat \ {0} /\ End(f) = f.at + f.len
    BY <2>1 DEF Blocks, End
  <2>4. \A g \in BlocksIn(m) : g # f => Apart(f, g)
    BY <1>4, <2>1, OthersApart
  <2> QED  BY <2>1, <2>2, <2>3, <2>4
<1>8. b \in Blocks /\ Within(b, f) /\ End(b) = f.at + n /\ b.at = f.at
  BY <1>4, <1>6, <1>7 DEF Blocks, Within, End
<1>9. DOMAIN held' = DOMAIN held /\ held'[p] = held[p] \cup {b}
  BY <1>3, <1>7
<1>10. i > 1 => ch[i - 1] = m[i - 1].at /\ ch[i - 1] \in Cell /\ i - 1 \in 1..Len(m)
  <2>1. i > 1 => i - 1 \in 1..Len(m)
    BY <1>5, <1>6
  <2> QED  BY <1>5, <2>1
<1>11. CASE f.len = n
  <2> DEFINE t == RemoveAt(m, i)
  <2>1. Linked(p, ch, i, NextOf(m, i), header[p])
    BY <1>3, <1>7, <1>11
  <2>2. NextOf(m, i) \in Cell \cup {NULL} /\ i \in Nat /\ i >= 1
    BY <1>5, <1>6
  <2>3. /\ vhead' = (IF i = 1 THEN NextOf(m, i) ELSE vhead) /\ vhead' \in Cell \cup {NULL}
        /\ DOMAIN header' = VProc /\ header'[p] \in [Cell -> Header]
        /\ \A c \in Cell : i = 1 \/ c # ch[i - 1] => header'[p][c] = header[p][c]
        /\ i > 1 => header'[p][ch[i - 1]] = [len |-> header[p][ch[i - 1]].len, next |-> NextOf(m, i)]
    <3>1. PICK d : d = ch[i - 1]
      OBVIOUS
    <3>2. PICK h0, a0 : h0 = header[p] /\ a0 = NextOf(m, i)
      OBVIOUS
    <3>3. Linked(p, ch, i, a0, h0) /\ h0 \in [Cell -> Header] /\ a0 \in Cell \cup {NULL}
      BY <1>5, <2>1, <2>2, <3>2
    <3>4. p \in VProc /\ VTypes /\ vhead \in Cell \cup {NULL} /\ i \in Nat /\ i >= 1 /\ (i > 1 => d = ch[i - 1] /\ d \in Cell)
      BY <1>5, <1>10, <2>2, <3>1
    <3>5. Wrote(p, i = 1, d, a0, h0)
      BY <3>3, <3>4, LinkedReads
    <3>6. vhead' = (IF i = 1 THEN a0 ELSE vhead)
      BY <3>3 DEF Linked
    <3> QED  BY <2>2, <3>1, <3>2, <3>5, <3>6 DEF Wrote
  <2>4. Ordered(t) /\ BlocksIn(t) = BlocksIn(m) \ {f}
    BY <1>4, <1>6, RemoveBlock
  <2>5. PICK h2 : h2 = header'[p]
    OBVIOUS
  <2>6. PICK head2 : head2 = vhead'
    OBVIOUS
  <2>7. ASSUME NEW j \in 1..Len(m), j # i, j # i - 1 PROVE h2[m[j].at] = header[p][m[j].at]
    <3>1. m[j].at \in Cell /\ (i > 1 => m[j].at # ch[i - 1])
      BY <1>4, <1>5, <1>10, <2>7, DistinctCells
    <3> QED  BY <1>6, <2>3, <2>5, <3>1
  <2>8. i > 1 => h2[m[i - 1].at] = [len |-> m[i - 1].len, next |-> NextOf(m, i)]
    <3> SUFFICES ASSUME i > 1 PROVE h2[m[i - 1].at] = [len |-> m[i - 1].len, next |-> NextOf(m, i)]
      OBVIOUS
    <3>1. header[p][m[i - 1].at] = [len |-> m[i - 1].len, next |-> NextOf(m, i - 1)]
      BY <1>5, <1>10
    <3> QED  BY <1>10, <2>3, <2>5, <3>1
  <2>9. PICK head, h : head = vhead /\ h = header[p]
    OBVIOUS
  <2>10. Reads(head, h, m) /\ head2 = (IF i = 1 THEN NextOf(m, i) ELSE head)
         /\ \A j \in 1..Len(m) : j # i /\ j # i - 1 => h2[m[j].at] = h[m[j].at]
    BY <1>4, <2>3, <2>6, <2>7, <2>9
  <2>11. Reads(head2, h2, t)
    BY <1>4, <1>6, <2>8, <2>10, RemoveReads, ZenonT(30)
  <2>12. OwnBlocks((BlocksIn(m) \ {f}) \cup {}, held[p] \cup {b})
    <3>1. PICK used : used = held[p]
      OBVIOUS
    <3>2. OwnBlocks(BlocksIn(m), used)
      BY <1>4, <3>1
    <3>3. OwnBlocks((BlocksIn(m) \ {f}) \cup {}, used \cup {b})
      BY <1>5, <1>7, <1>8, <3>2, TakeOwn
    <3> QED  BY <3>1, <3>3
  <2>13. OwnBlocks(BlocksIn(t), held'[p])
    BY <1>9, <2>4, <2>12
  <2> QED  BY <1>9, <2>3, <2>4, <2>5, <2>6, <2>11, <2>13
<1>12. CASE f.len # n
  <2> DEFINE x == Block(f.at + n, f.len - n)
             t == Spliced(m, i - 1, x, i + 1)
             h1 == [header[p] EXCEPT ![f.at + n] = [len |-> f.len - n, next |-> NextOf(m, i)]]
  <2>1. f.len - n \in Nat \ {0} /\ f.at + n \in Nat /\ End(f) \in Nat
    BY <1>4, <1>6, <1>7, <1>12
  <2>2. /\ x \in Blocks /\ x.at = f.at + n /\ x.len = f.len - n
        /\ End(x) = End(f) /\ Within(x, f) /\ Apart(b, x)
    <3>1. x \in Blocks /\ x.at = f.at + n /\ x.len = f.len - n
      BY <2>1 DEF Block, Blocks
    <3>2. End(x) = End(f)
      BY <1>4, <1>7, <2>1, <3>1 DEF End
    <3> QED  BY <1>4, <1>7, <1>8, <2>1, <3>1, <3>2 DEF Within, Apart
  <2>3. x.at \in Cell
    <3>1. f.at >= 1 /\ End(f) <= HSize + 1
      BY <1>7 DEF InHeap, VBase
    <3>2. x.at <= HSize /\ x.at >= 1 /\ x.at \in Nat
      <4>1. f.at + f.len = End(f) /\ f.at \in Nat /\ f.len \in Nat /\ n \in Nat \ {0}
        BY <1>4, <1>7 DEF End
      <4>2. x.at = f.at + n
        BY <2>2
      <4>3. HSize \in Nat
        BY <1>5
      <4> HIDE DEF f, x
      <4>4. f.at + n < End(f)
        BY <2>1, <4>1
      <4> QED  BY <2>1, <3>1, <4>1, <4>2, <4>3, <4>4
    <3> QED  BY <1>5, <3>2 DEF Cell, VBase
  <2>4. /\ h1 \in [Cell -> Header] /\ h1[x.at] = [len |-> x.len, next |-> NextOf(m, i)]
        /\ \A c \in Cell : c # x.at => h1[c] = header[p][c]
    <3>1. [len |-> f.len - n, next |-> NextOf(m, i)] \in Header
      BY <1>5, <1>6, <2>1 DEF Header
    <3> QED  BY <1>5, <2>2, <2>3, <3>1
  <2>5. Linked(p, ch, i, x.at, h1)
    BY <1>3, <1>7, <1>12, <2>2
  <2> HIDE DEF h1
  <2>6. /\ vhead' = (IF i = 1 THEN x.at ELSE vhead) /\ vhead' \in Cell \cup {NULL}
        /\ DOMAIN header' = VProc /\ header'[p] \in [Cell -> Header]
        /\ \A c \in Cell : i = 1 \/ c # ch[i - 1] => header'[p][c] = h1[c]
        /\ i > 1 => header'[p][ch[i - 1]] = [len |-> h1[ch[i - 1]].len, next |-> x.at]
    <3>1. i \in Nat /\ i >= 1 /\ x.at \in Cell \cup {NULL} /\ vhead \in Cell \cup {NULL}
      BY <1>5, <1>6, <2>3
    <3>2. vhead' = (IF i = 1 THEN x.at ELSE vhead)
      BY <2>5 DEF Linked
    <3>3. PICK d : d = ch[i - 1]
      OBVIOUS
    <3>4. i > 1 => d = ch[i - 1] /\ d \in Cell
      BY <1>10, <3>3
    <3> HIDE DEF x
    <3>5. Wrote(p, i = 1, d, x.at, h1)
      BY <1>5, <2>4, <2>5, <3>1, <3>4, LinkedReads
    <3> QED  BY <3>1, <3>2, <3>3, <3>5 DEF Wrote
  <2>7. \A j \in 1..Len(m) : m[j].at # x.at
    <3> SUFFICES ASSUME NEW j \in 1..Len(m), m[j].at = x.at PROVE FALSE
      OBVIOUS
    <3>1. /\ m[j].at \in Nat /\ End(m[j]) \in Nat /\ m[j].at < End(m[j])
          /\ i < j => End(m[i]) < m[j].at
          /\ j < i => End(m[j]) < m[i].at
      BY <1>4, <1>6, OrderedTypes DEF Ordered
    <3>2. CASE j = i
      BY <1>4, <1>7, <2>2, <3>2
    <3> QED  BY <1>4, <1>5, <1>6, <1>7, <2>1, <2>2, <3>1, <3>2
  <2>8. PICK h2, head2, h, head : h2 = header'[p] /\ head2 = vhead' /\ h = header[p] /\ head = vhead
    OBVIOUS
  <2>9. ASSUME NEW j \in 1..Len(m), j < i - 1 \/ j >= i + 1 PROVE h2[m[j].at] = h[m[j].at]
    <3>1. j # i - 1 /\ m[j].at \in Cell
      <4>1. j # i - 1
        BY <1>6, <2>9
      <4> QED  BY <1>5, <4>1
    <3>2. i > 1 => m[j].at # ch[i - 1]
      BY <1>4, <1>10, <3>1, DistinctCells
    <3>3. header'[p][m[j].at] = h1[m[j].at]
      BY <1>6, <2>6, <3>1, <3>2
    <3> QED  BY <2>4, <2>7, <2>8, <3>1, <3>3
  <2>10. i - 1 > 0 => h2[m[i - 1].at] = [len |-> m[i - 1].len, next |-> x.at]
    <3> SUFFICES ASSUME i - 1 > 0 PROVE h2[m[i - 1].at] = [len |-> m[i - 1].len, next |-> x.at]
      OBVIOUS
    <3>1. i > 1 /\ i - 1 \in 1..Len(m)
      BY <1>6
    <3>2. header[p][m[i - 1].at] = [len |-> m[i - 1].len, next |-> NextOf(m, i - 1)]
      BY <1>5, <3>1
    <3>3. h1[m[i - 1].at] = header[p][m[i - 1].at]
      BY <1>5, <2>4, <2>7, <3>1
    <3> QED  BY <1>10, <2>6, <2>8, <3>1, <3>2, <3>3
  <2>11. h2[x.at] = [len |-> x.len, next |-> NextOf(m, (i + 1) - 1)]
    <3>1. i > 1 => x.at # ch[i - 1]
      BY <1>10, <2>7
    <3>2. header'[p][x.at] = h1[x.at]
      BY <1>6, <2>3, <2>6, <3>1
    <3>3. (i + 1) - 1 = i
      BY <1>6
    <3> QED  BY <2>4, <2>8, <3>2, <3>3
  <2>12. /\ i - 1 \in 0..Len(m) /\ i + 1 \in ((i - 1) + 1)..(Len(m) + 1)
         /\ Reads(head, h, m) /\ head2 = IF i - 1 = 0 THEN x.at ELSE head
    BY <1>4, <1>5, <1>6, <2>6, <2>8
  <2>13. i - 1 >= 1 => End(m[i - 1]) < x.at
    <3>1. i - 1 >= 1 => End(m[i - 1]) < f.at /\ End(m[i - 1]) \in Nat
      BY <1>4, <1>6, OrderedTypes DEF Ordered
    <3> QED  BY <1>4, <1>7, <2>1, <2>2, <3>1
  <2>14. i + 1 <= Len(m) => End(x) < m[i + 1].at
    BY <1>4, <1>6, <2>2 DEF Ordered
  <2> HIDE DEF x
  <2>15. Reads(head2, h2, t)
    BY <1>4, <2>2, <2>9, <2>10, <2>11, <2>12, SpliceReads, ZenonT(30)
  <2>16. Ordered(t) /\ BlocksIn(t) = {m[k] : k \in 1..(i - 1)} \cup {x} \cup {m[k] : k \in (i + 1)..Len(m)}
    <3>1. /\ Ordered(m) /\ x \in Blocks /\ i - 1 \in 0..Len(m)
          /\ i + 1 \in ((i - 1) + 1)..(Len(m) + 1)
      BY <1>4, <2>2, <2>12
    <3> QED  BY <2>13, <2>14, <3>1, SpliceBlock, SMTT(30)
  <2>17. BlocksIn(t) = (BlocksIn(m) \ {f}) \cup {x}
    <3>1. \A k \in 1..Len(m) : (m[k] # f <=> k # i)
      BY <1>4, <1>6, OrderedTypes
    <3>2. {m[k] : k \in 1..(i - 1)} \cup {m[k] : k \in (i + 1)..Len(m)} = BlocksIn(m) \ {f}
      <4>1. ASSUME NEW k \in 1..Len(m), k # i
            PROVE  k \in 1..(i - 1) \/ k \in (i + 1)..Len(m)
        BY <1>6, <4>1
      <4>2. \A k \in 1..(i - 1) : k \in 1..Len(m) /\ k # i
        BY <1>6
      <4>3. \A k \in (i + 1)..Len(m) : k \in 1..Len(m) /\ k # i
        BY <1>6
      <4> HIDE DEF f
      <4> QED  BY <3>1, <4>1, <4>2, <4>3 DEF BlocksIn
    <3> QED  BY <2>16, <3>2
  <2>18. OwnBlocks((BlocksIn(m) \ {f}) \cup {x}, held[p] \cup {b})
    <3>1. PICK used : used = held[p]
      OBVIOUS
    <3>2. OwnBlocks(BlocksIn(m), used) /\ {x} \subseteq Blocks
          /\ \A r \in {x} : Within(r, f) /\ Apart(b, r)
      BY <1>4, <2>2, <3>1
    <3> HIDE DEF b, f
    <3>3. OwnBlocks((BlocksIn(m) \ {f}) \cup {x}, used \cup {b})
      BY <1>5, <1>7, <1>8, <3>2, TakeOwn
    <3> QED  BY <3>1, <3>3
  <2>19. OwnBlocks(BlocksIn(t), held'[p])
    BY <1>9, <2>17, <2>18
  <2> QED  BY <1>9, <2>6, <2>8, <2>15, <2>16, <2>19
<1> QED  BY <1>11, <1>12

LEMMA VfreememStep ==
  ASSUME VTypes, NEW p \in DOMAIN held, NEW m, HeapOf(p, m), NEW b \in held[p], Vfreemem(p, b),
         Seen(p) = p
  PROVE  /\ vhead' \in Cell \cup {NULL}
         /\ DOMAIN header' = VProc /\ header'[p] \in [Cell -> Header]
         /\ DOMAIN held' = DOMAIN held
         /\ \E t : Ordered(t) /\ Reads(vhead', header'[p], t) /\ OwnBlocks(BlocksIn(t), held'[p])
<1>1. PICK ch, h : ch = Chain(p) /\ h = header[p]
  OBVIOUS
<1>2. PICK i : i = FirstIn({k \in 1..Len(ch) : ch[k] >= b.at}, Len(ch))
  OBVIOUS
<1> DEFINE top == ch[i - 1] + h[ch[i - 1]].len
           after == IF i <= Len(ch) /\ b.at + b.len = ch[i] THEN h[ch[i]]
                    ELSE [len |-> 0, next |-> IF i <= Len(ch) THEN ch[i] ELSE NULL]
           joined == [len |-> b.len + after.len, next |-> after.next]
<1>3. /\ IF (i > 1 /\ top > b.at) \/ (i <= Len(ch) /\ b.at + b.len > ch[i])
           THEN UNCHANGED <<vhead, header>>
         ELSE IF i > 1 /\ top = b.at
           THEN /\ UNCHANGED vhead
                /\ header' = [header EXCEPT ![p][ch[i - 1]] =
                                [len |-> @.len + joined.len, next |-> joined.next]]
         ELSE Linked(p, ch, i, b.at, [h EXCEPT ![b.at] = joined])
      /\ held' = [held EXCEPT ![p] = @ \ {b}]
  <2>1. Seen(p) = p
    OBVIOUS
  <2> QED  BY <1>1, <1>2, <2>1, Zenon DEF Vfreemem
<1>4. /\ Ordered(m) /\ Reads(vhead, h, m) /\ OwnBlocks(BlocksIn(m), held[p])
  BY <1>1 DEF HeapOf
<1>5. /\ p \in VProc /\ HSize \in Nat /\ h \in [Cell -> Header]
      /\ vhead \in Cell \cup {NULL}
      /\ Len(m) \in Nat /\ m \in Seq(Blocks)
      /\ \A k \in 1..Len(m) : /\ m[k] \in BlocksIn(m) /\ m[k].at \in Cell /\ InHeap(m[k])
                              /\ h[m[k].at] = [len |-> m[k].len, next |-> NextOf(m, k)]
      /\ \A k \in 0..Len(m) : NextOf(m, k) \in Cell \cup {NULL}
      /\ BlocksIn(m) \subseteq Blocks
      /\ b \in Blocks /\ b.at \in Cell /\ InHeap(b) /\ \A f \in BlocksIn(m) : Apart(b, f)
      /\ Len(ch) = Len(m) /\ \A k \in 1..Len(m) : ch[k] = m[k].at
  <2>1. /\ p \in VProc /\ HSize \in Nat /\ header[p] \in [Cell -> Header]
        /\ vhead \in Cell \cup {NULL} /\ Len(m) \in Nat /\ m \in Seq(Blocks)
        /\ \A k \in 0..Len(m) : NextOf(m, k) \in Cell \cup {NULL}
        /\ BlocksIn(m) \subseteq Blocks
    BY HeapFacts
  <2>2. \A k \in 1..Len(m) : /\ m[k] \in BlocksIn(m) /\ m[k].at \in Cell /\ InHeap(m[k])
                            /\ header[p][m[k].at] = [len |-> m[k].len, next |-> NextOf(m, k)]
    BY HeapFacts
  <2>3. b \in Blocks /\ b.at \in Cell /\ InHeap(b) /\ \A f \in BlocksIn(m) : Apart(b, f)
    BY HeapFacts
  <2>4. Len(Chain(p)) = Len(m) /\ \A k \in 1..Len(m) : Chain(p)[k] = m[k].at
    BY HeapFacts
  <2> HIDE DEF top, after, joined
  <2> QED  BY <1>1, <2>1, <2>2, <2>3, <2>4
<1>6. /\ b.at \in Nat /\ b.len \in Nat /\ b.len # 0 /\ End(b) = b.at + b.len
      /\ \A k \in 1..Len(m) : /\ m[k].at \in Nat /\ m[k].len \in Nat /\ m[k].len # 0
                              /\ End(m[k]) = m[k].at + m[k].len
                              /\ b.at # m[k].at /\ Apart(b, m[k]) /\ m[k] \in Blocks
  <2>1. b.at \in Nat /\ b.len \in Nat /\ b.len # 0 /\ End(b) = b.at + b.len
    BY <1>5 DEF Blocks, End
  <2>2. ASSUME NEW k \in 1..Len(m)
        PROVE  /\ m[k].at \in Nat /\ m[k].len \in Nat /\ m[k].len # 0
               /\ End(m[k]) = m[k].at + m[k].len
               /\ b.at # m[k].at /\ Apart(b, m[k]) /\ m[k] \in Blocks
    <3>1. m[k] \in Blocks /\ Apart(b, m[k])
      BY <1>5
    <3>2. m[k].at \in Nat /\ m[k].len \in Nat /\ m[k].len # 0 /\ End(m[k]) = m[k].at + m[k].len
      BY <3>1 DEF Blocks, End
    <3> QED  BY <2>1, <3>1, <3>2 DEF Apart
  <2> QED  BY <2>1, <2>2
<1>7. i = Place(m, b)
  <2>1. {k \in 1..Len(ch) : ch[k] >= b.at} = {k \in 1..Len(m) : m[k].at >= b.at}
    BY <1>5
  <2> QED  BY <1>2, <1>5, <2>1 DEF Place
<1>8. PICK x : x = Block(StartOf(m, b, i), StopOf(m, b, i) - StartOf(m, b, i))
  OBVIOUS
<1>9. PICK a, c : a = LastKept(m, b, i) /\ c = NextKept(m, b, i)
  OBVIOUS
<1>10. /\ i \in 1..(Len(m) + 1)
       /\ i > 1 => i - 1 \in 1..Len(m) /\ End(m[i - 1]) <= b.at
       /\ i <= Len(m) => i \in 1..Len(m) /\ b.at + b.len <= m[i].at
       /\ x \in Blocks /\ x.at = StartOf(m, b, i) /\ End(x) = StopOf(m, b, i)
       /\ Joins(m, b, a, c, x)
  BY <1>4, <1>5, <1>6, <1>7, <1>8, <1>9, BlockJoins
<1>11. DOMAIN held' = DOMAIN held /\ held'[p] = held[p] \ {b}
  BY <1>3
<1>12. i > 1 => top = End(m[i - 1]) /\ ch[i - 1] = m[i - 1].at /\ ch[i - 1] \in Cell
  <2> SUFFICES ASSUME i > 1
               PROVE  top = End(m[i - 1]) /\ ch[i - 1] = m[i - 1].at /\ ch[i - 1] \in Cell
    OBVIOUS
  <2>1. i - 1 \in 1..Len(m)
    BY <1>10
  <2>2. h[m[i - 1].at] = [len |-> m[i - 1].len, next |-> NextOf(m, i - 1)]
    BY <1>5, <2>1
  <2> QED  BY <1>5, <1>6, <2>1, <2>2
<1>13. i <= Len(ch) <=> i \in 1..Len(m)
  BY <1>5, <1>10
<1>14. i \in 1..Len(m) => ch[i] = m[i].at
  BY <1>5
<1>15. /\ (i > 1 /\ top = b.at) <=> TouchBelow(m, b, i)
       /\ (i <= Len(ch) /\ b.at + b.len = ch[i]) <=> TouchAbove(m, b, i)
  BY <1>5, <1>12, <1>13, <1>14 DEF TouchBelow, TouchAbove
<1>16. ~((i > 1 /\ top > b.at) \/ (i <= Len(ch) /\ b.at + b.len > ch[i]))
  <2>1. i > 1 => ~(top > b.at)
    BY <1>6, <1>10, <1>12
  <2>2. i <= Len(ch) => ~(b.at + b.len > ch[i])
    BY <1>6, <1>10, <1>13, <1>14
  <2> QED  BY <2>1, <2>2
(* What follows the joined block in the list, and its length.              *)
<1>17. /\ after.next = NextOf(m, c - 1) /\ after.len \in Nat
       /\ b.at + b.len + after.len = StopOf(m, b, i)
  <2>1. CASE TouchAbove(m, b, i)
    <3>1. i \in 1..Len(m) /\ c - 1 = i /\ ch[i] = m[i].at /\ b.at + b.len = m[i].at
      BY <1>9, <1>10, <1>13, <1>14, <1>15, <2>1 DEF NextKept, TouchAbove
    <3>2. after = [len |-> m[i].len, next |-> NextOf(m, i)]
      BY <1>5, <1>15, <2>1, <3>1
    <3>3. StopOf(m, b, i) = End(m[i])
      BY <2>1 DEF StopOf
    <3> HIDE DEF after
    <3> QED  BY <1>6, <3>1, <3>2, <3>3
  <2>2. CASE ~TouchAbove(m, b, i)
    <3>1. c - 1 = i - 1 /\ StopOf(m, b, i) = b.at + b.len
      BY <1>9, <1>10, <2>2 DEF NextKept, StopOf
    <3>2. after = [len |-> 0, next |-> IF i <= Len(ch) THEN ch[i] ELSE NULL]
      BY <1>15, <2>2
    <3>3. NextOf(m, i - 1) = IF i <= Len(ch) THEN ch[i] ELSE NULL
      <4>1. (i - 1 < Len(m) <=> i <= Len(ch)) /\ (i - 1) + 1 = i
        BY <1>5, <1>10
      <4> QED  BY <1>13, <1>14, <4>1 DEF NextOf
    <3> HIDE DEF after
    <3> QED  BY <1>6, <3>1, <3>2, <3>3
  <2> QED  BY <2>1, <2>2
<1>18. joined.len = b.len + after.len /\ joined.next = after.next
       /\ joined.len \in Nat /\ joined.next \in Cell \cup {NULL} /\ joined \in Header
  <2>1. joined.len = b.len + after.len /\ joined.next = after.next
        /\ joined = [len |-> joined.len, next |-> joined.next]
    OBVIOUS
  <2>2. c - 1 \in 0..Len(m)
    BY <1>5, <1>10 DEF Joins
  <2> HIDE DEF after, joined
  <2>3. joined.len \in Nat /\ joined.next \in Cell \cup {NULL}
    BY <1>5, <1>6, <1>17, <2>1, <2>2
  <2> QED  BY <2>1, <2>3 DEF Header
<1> HIDE DEF after, joined, top
<1>19. /\ a \in 0..Len(m) /\ c \in (a + 1)..(Len(m) + 1) /\ c \in 1..(Len(m) + 1) /\ a + 1 <= c
       /\ a >= 1 => End(m[a]) < x.at
       /\ c <= Len(m) => End(x) < m[c].at
       /\ x.at \in Nat /\ x.len \in Nat /\ End(x) = x.at + x.len
  <2>1. x.at \in Nat /\ x.len \in Nat /\ End(x) = x.at + x.len
    BY <1>10 DEF Blocks, End
  <2>2. /\ a \in 0..Len(m) /\ c \in (a + 1)..(Len(m) + 1)
        /\ a >= 1 => End(m[a]) < x.at
        /\ c <= Len(m) => End(x) < m[c].at
    BY <1>10 DEF Joins
  <2>3. c \in 1..(Len(m) + 1) /\ a + 1 <= c
    BY <1>5, <2>2
  <2> QED  BY <2>1, <2>2, <2>3
<1> DEFINE t == Spliced(m, a, x, c)
           keep == {m[k] : k \in 1..a} \cup {m[k] : k \in c..Len(m)}
<1>20. Ordered(t) /\ BlocksIn(t) = keep \cup {x}
  <2>1. Ordered(t) /\ BlocksIn(t) = {m[k] : k \in 1..a} \cup {x} \cup {m[k] : k \in c..Len(m)}
    <3> HIDE DEF t
    <3>1. /\ Ordered(Spliced(m, a, x, c))
          /\ BlocksIn(Spliced(m, a, x, c)) = {m[k] : k \in 1..a} \cup {x} \cup {m[k] : k \in c..Len(m)}
      BY <1>4, <1>10, <1>19, SpliceBlock
    <3> QED  BY <3>1 DEF t
  <2>2. {m[k] : k \in 1..a} \cup {x} \cup {m[k] : k \in c..Len(m)} = keep \cup {x}
    OBVIOUS
  <2> HIDE DEF keep, t
  <2> QED  BY <2>1, <2>2
<1>21. OwnBlocks(BlocksIn(t), held'[p])
  <2>1. keep \subseteq BlocksIn(m)
    <3>1. 1..a \subseteq 1..Len(m) /\ c..Len(m) \subseteq 1..Len(m)
      BY <1>5, <1>19
    <3> QED  BY <3>1, Zenon DEF BlocksIn
  <2>2. InHeap(x)
    <3>1. StartOf(m, b, i) >= 1 /\ StopOf(m, b, i) <= HSize + 1
      <4>1. TouchBelow(m, b, i) => i - 1 \in 1..Len(m)
        BY <1>10 DEF TouchBelow
      <4>2. TouchAbove(m, b, i) => i \in 1..Len(m)
        BY <1>13, <1>15
      <4>3. b.at >= 1 /\ b.at + b.len <= HSize + 1
            /\ \A k \in 1..Len(m) : m[k].at >= 1 /\ End(m[k]) <= HSize + 1
        BY <1>5, <1>6 DEF InHeap, VBase
      <4> QED  BY <4>1, <4>2, <4>3 DEF StartOf, StopOf
    <3> QED  BY <1>10, <3>1 DEF InHeap, VBase
  <2>3. PICK used : used = held[p]
    OBVIOUS
  <2>4. OwnBlocks(BlocksIn(m), used) /\ b \in used
    BY <1>4, <2>3
  <2>5. ASSUME NEW d \in used \ {b} PROVE Apart(d, x)
    <3>1. d \in Blocks /\ Apart(d, b) /\ \A k \in 1..Len(m) : Apart(d, m[k])
      BY <1>5, <2>4 DEF OwnBlocks
    <3> QED  BY <1>10, <3>1 DEF Joins
  <2> HIDE DEF keep, t
  <2>6. OwnBlocks(keep \cup {x}, used \ {b})
    BY <2>1, <2>2, <2>4, <2>5, GiveOwn
  <2> QED  BY <1>11, <1>20, <2>3, <2>6
<1>22. PICK h2, head2, head : h2 = header'[p] /\ head2 = vhead' /\ head = vhead
  OBVIOUS
<1>23. CASE TouchBelow(m, b, i)
  <2> DEFINE d == ch[i - 1]
             new == [len |-> h[d].len + joined.len, next |-> joined.next]
  <2>1. i > 1 /\ i - 1 \in 1..Len(m) /\ a = i - 2 /\ x.at = m[i - 1].at /\ d = m[i - 1].at
        /\ d \in Cell /\ End(m[i - 1]) = b.at
    BY <1>9, <1>10, <1>12, <1>23 DEF TouchBelow, LastKept, StartOf
  <2>2. vhead' = vhead /\ header' = [header EXCEPT ![p][d] = [len |-> @.len + joined.len, next |-> joined.next]]
    BY <1>3, <1>15, <1>16, <1>23
  <2>3. h[d] = [len |-> m[i - 1].len, next |-> NextOf(m, i - 1)]
    BY <1>5, <2>1
  <2>4. new = [len |-> x.len, next |-> NextOf(m, c - 1)] /\ new \in Header
    <3>1. h[d].len + joined.len = x.len
      <4>1. h[d].len = m[i - 1].len
        BY <2>3
      <4>2. m[i - 1].at + m[i - 1].len = b.at /\ x.at = m[i - 1].at
        BY <1>6, <2>1
      <4>3. x.at + x.len = b.at + b.len + after.len
        BY <1>10, <1>17, <1>19
      <4>4. m[i - 1].at \in Nat /\ m[i - 1].len \in Nat
        BY <1>6, <2>1
      <4>5. b.at \in Nat /\ b.len \in Nat /\ after.len \in Nat /\ x.len \in Nat
        BY <1>6, <1>17, <1>19
      <4>6. joined.len = b.len + after.len
        BY <1>18
      <4> HIDE DEF d
      <4>7. m[i - 1].len + (b.len + after.len) = x.len
        BY <4>2, <4>3, <4>4, <4>5
      <4> QED  BY <4>1, <4>6, <4>7
    <3>2. NextOf(m, c - 1) \in Cell \cup {NULL}
      BY <1>17, <1>18
    <3> QED  BY <1>17, <1>18, <1>19, <3>1, <3>2 DEF Header
  <2> HIDE DEF d
  <2>5. header' = [header EXCEPT ![p] = [h EXCEPT ![d] = new]]
    BY <1>1, <1>5, <2>1, <2>2 DEF VTypes
  <2> HIDE DEF new
  <2>6. /\ DOMAIN header' = VProc /\ header'[p] \in [Cell -> Header]
        /\ h2[d] = new /\ \A e \in Cell : e # d => h2[e] = h[e]
    BY <1>5, <1>22, <2>1, <2>4, <2>5 DEF VTypes
  <2>7. \A j \in 1..Len(m) : j < a \/ j >= c => h2[m[j].at] = h[m[j].at]
    <3> SUFFICES ASSUME NEW j \in 1..Len(m), j < a \/ j >= c PROVE h2[m[j].at] = h[m[j].at]
      OBVIOUS
    <3>1. j # i - 1
      BY <1>9, <1>10, <2>1 DEF NextKept
    <3>2. m[j].at # d
      BY <1>4, <2>1, <3>1, DistinctCells
    <3> QED  BY <1>5, <2>6, <3>2
  <2>8. a > 0 => h2[m[a].at] = [len |-> m[a].len, next |-> x.at]
    <3> SUFFICES ASSUME a > 0 PROVE h2[m[a].at] = [len |-> m[a].len, next |-> x.at]
      OBVIOUS
    <3>1. a \in 1..Len(m) /\ a # i - 1 /\ a < Len(m) /\ a + 1 = i - 1
      BY <1>5, <1>10, <2>1
    <3>2. m[a].at # d
      BY <1>4, <2>1, <3>1, DistinctCells
    <3>3. h[m[a].at] = [len |-> m[a].len, next |-> NextOf(m, a)]
      BY <1>5, <3>1
    <3>4. NextOf(m, a) = m[i - 1].at
      BY <3>1 DEF NextOf
    <3> QED  BY <1>5, <2>1, <2>6, <3>1, <3>2, <3>3, <3>4
  <2>9. head2 = IF a = 0 THEN x.at ELSE head
    <3>1. a = 0 => 0 < Len(m) /\ 0 + 1 = i - 1
      BY <1>5, <1>10, <2>1
    <3>2. head = NextOf(m, 0)
      BY <1>4, <1>22 DEF Reads
    <3>3. a = 0 => head = x.at
      BY <2>1, <3>1, <3>2 DEF NextOf
    <3> QED  BY <1>22, <2>2, <3>3
  <2>10. Reads(head, h, m) /\ h2[x.at] = [len |-> x.len, next |-> NextOf(m, c - 1)]
    BY <1>4, <1>22, <2>1, <2>4, <2>6
  <2>11. Reads(head2, h2, t)
    <3> HIDE DEF t
    <3>1. Reads(head2, h2, Spliced(m, a, x, c))
      BY <1>4, <1>10, <1>19, <2>7, <2>8, <2>9, <2>10, SpliceReads, ZenonT(30)
    <3> QED  BY <3>1 DEF t
  <2>12. vhead' \in Cell \cup {NULL}
    BY <1>5, <2>2
  <2> HIDE DEF t
  <2> QED  BY <1>11, <1>20, <1>21, <1>22, <2>6, <2>11, <2>12
<1>24. CASE ~TouchBelow(m, b, i)
  <2> DEFINE h1 == [h EXCEPT ![b.at] = joined]
  <2>1. a = i - 1 /\ x.at = b.at /\ (i = 1 <=> a = 0) /\ (i > 1 <=> a > 0)
    BY <1>9, <1>10, <1>24 DEF LastKept, StartOf
  <2>2. Linked(p, ch, i, b.at, h1)
    BY <1>3, <1>15, <1>16, <1>24
  <2>3. /\ h1 \in [Cell -> Header] /\ h1[b.at] = joined
        /\ \A e \in Cell : e # b.at => h1[e] = h[e]
    BY <1>5, <1>18
  <2>4. joined = [len |-> x.len, next |-> NextOf(m, c - 1)]
    <3>1. joined.len = x.len
      <4>1. joined.len = b.len + after.len /\ b.len \in Nat /\ after.len \in Nat
        BY <1>6, <1>17, <1>18
      <4>2. x.at + x.len = b.at + b.len + after.len
        BY <1>10, <1>17, <1>19
      <4>3. x.at = b.at /\ b.at \in Nat /\ x.len \in Nat
        BY <1>6, <1>19, <2>1
      <4> QED  BY <4>1, <4>2, <4>3
    <3>2. joined.next = NextOf(m, c - 1)
      BY <1>17, <1>18
    <3> QED  BY <3>1, <3>2 DEF joined
  <2>5. vhead' = (IF i = 1 THEN b.at ELSE vhead)
    BY <2>2 DEF Linked
  <2> HIDE DEF h1
  <2>6. PICK d : d = ch[i - 1]
    OBVIOUS
  <2>7. i > 1 => d = ch[i - 1] /\ d \in Cell /\ d = m[a].at /\ a \in 1..Len(m)
    BY <1>10, <1>12, <2>1, <2>6
  <2>8. Wrote(p, i = 1, d, b.at, h1)
    <3>1. /\ i \in Nat /\ i >= 1 /\ b.at \in Cell \cup {NULL} /\ p \in VProc
          /\ vhead \in Cell \cup {NULL}
      BY <1>5, <1>10
    <3> QED  BY <2>2, <2>3, <2>7, <3>1, LinkedReads
  <2>9. /\ vhead' \in Cell \cup {NULL} /\ DOMAIN header' = VProc /\ header'[p] \in [Cell -> Header]
        /\ \A e \in Cell : i = 1 \/ e # d => h2[e] = h1[e]
        /\ i # 1 => h2[d] = [len |-> h1[d].len, next |-> b.at]
    BY <1>22, <2>8 DEF Wrote
  <2>10. \A j \in 1..Len(m) : j < a \/ j >= c => h2[m[j].at] = h[m[j].at]
    <3> SUFFICES ASSUME NEW j \in 1..Len(m), j < a \/ j >= c PROVE h2[m[j].at] = h[m[j].at]
      OBVIOUS
    <3>1. j # a
      BY <1>19
    <3>2. i = 1 \/ m[j].at # d
      BY <1>4, <1>10, <2>7, <3>1, DistinctCells
    <3>3. m[j].at \in Cell /\ m[j].at # b.at
      BY <1>5, <1>6
    <3> QED  BY <2>3, <2>9, <3>2, <3>3
  <2>11. a > 0 => h2[m[a].at] = [len |-> m[a].len, next |-> x.at]
    <3> SUFFICES ASSUME a > 0 PROVE h2[m[a].at] = [len |-> m[a].len, next |-> x.at]
      OBVIOUS
    <3>1. i > 1 /\ i # 1 /\ a \in 1..Len(m) /\ d = m[a].at
      BY <2>1, <2>7
    <3>2. h[m[a].at] = [len |-> m[a].len, next |-> NextOf(m, a)] /\ m[a].at \in Cell /\ m[a].at # b.at
      BY <1>5, <1>6, <3>1
    <3> QED  BY <2>1, <2>3, <2>9, <3>1, <3>2
  <2>12. h2[x.at] = [len |-> x.len, next |-> NextOf(m, c - 1)]
    <3>1. i = 1 \/ b.at # d
      BY <1>6, <1>10, <2>7
    <3> QED  BY <1>5, <2>1, <2>3, <2>4, <2>9, <3>1
  <2>13. head2 = (IF a = 0 THEN x.at ELSE head) /\ Reads(head, h, m)
    BY <1>4, <1>22, <2>1, <2>5
  <2>14. Reads(head2, h2, t)
    <3> HIDE DEF t
    <3>1. Reads(head2, h2, Spliced(m, a, x, c))
      BY <1>4, <1>10, <1>19, <2>10, <2>11, <2>12, <2>13, SpliceReads, ZenonT(30)
    <3> QED  BY <3>1 DEF t
  <2> HIDE DEF t
  <2> QED  BY <1>11, <1>20, <1>21, <1>22, <2>9, <2>14
<1> QED  BY <1>23, <1>24

(* The headers that a list reads are where its blocks begin, and a block   *)
(* that a process has begins nowhere there.                                *)
LEMMA StoreStep ==
  ASSUME VTypes, NEW p \in DOMAIN held, NEW m, HeapOf(p, m), NEW b \in held[p], Store(p, b),
         Seen(p) = p
  PROVE  /\ vhead' = vhead /\ held' = held
         /\ DOMAIN header' = VProc /\ header'[p] \in [Cell -> Header]
         /\ Reads(vhead, header'[p], m)
<1>1. PICK h : h = header[p]
  OBVIOUS
<1>2. PICK w \in StoredWords : header' = [header EXCEPT ![p][b.at] = w]
  BY DEF Store
<1>3. /\ p \in VProc /\ b.at \in Cell /\ b \in Blocks
      /\ \A k \in 1..Len(m) : m[k] \in Blocks /\ m[k].at \in Cell /\ Apart(b, m[k])
      /\ DOMAIN header = VProc /\ header[p] \in [Cell -> Header]
  BY HeapFacts DEF VTypes
<1>4. w \in Header
  BY StoredWordsAssumption DEF Header
<1>5. DOMAIN header' = VProc /\ header'[p] \in [Cell -> Header]
  BY <1>2, <1>3, <1>4
<1>6. \A e \in Cell : e # b.at => header'[p][e] = header[p][e]
  BY <1>2, <1>3
<1>7. \A k \in 1..Len(m) : m[k].at # b.at
  BY <1>3 DEF Blocks, End, Apart
<1>8. Reads(vhead, header[p], m)
  BY DEF HeapOf
<1> QED  BY <1>3, <1>5, <1>6, <1>7, <1>8 DEF Reads, Store

(* A list of one block, the whole heap.                                    *)
LEMMA WholeHeap ==
  ASSUME NEW h, h[VBase] = [len |-> HSize, next |-> NULL]
  PROVE  \E t : Ordered(t) /\ Reads(VBase, h, t) /\ OwnBlocks(BlocksIn(t), {})
<1> DEFINE b == [at |-> VBase, len |-> HSize]
           t == <<b>>
<1>1. b \in Blocks /\ End(b) = HSize + 1 /\ b.at = VBase /\ b.len = HSize
  BY VHeapAssumption DEF Blocks, End, VBase
<1> HIDE DEF b
<1>2. t \in Seq(Blocks) /\ Len(t) = 1 /\ t[1] = b
  BY <1>1
<1>3. BlocksIn(t) = {b}
  BY <1>2 DEF BlocksIn
<1> HIDE DEF t
<1>4. Ordered(t)
  BY <1>2 DEF Ordered
<1>5. NextOf(t, 0) = b.at /\ NextOf(t, 1) = NULL
  BY <1>2 DEF NextOf
<1>6. Reads(VBase, h, t)
  BY <1>1, <1>2, <1>5 DEF Reads
<1>7. OwnBlocks(BlocksIn(t), {})
  BY <1>1, <1>3, VHeapAssumption DEF OwnBlocks, InHeap, VBase
<1> QED  BY <1>4, <1>6, <1>7

LEMMA VcreateStep ==
  ASSUME VInv, NEW p \in VProc, Vcreate(p)
  PROVE  VInv'
<1>1. PICK rest \in [Cell -> StoredWords] :
        header' = [header EXCEPT ![p] = [rest EXCEPT ![VBase] = [len |-> HSize, next |-> NULL]]]
  BY DEF Vcreate
<1>2. /\ vhead' = VBase /\ mixed' = (DOMAIN held # {}) /\ DOMAIN held' = DOMAIN held \cup {p}
      /\ held'[p] = {}
  BY DEF Vcreate
<1>3. VBase \in Cell /\ [len |-> HSize, next |-> NULL] \in Header /\ StoredWords \subseteq Header
  BY VHeapAssumption, StoredWordsAssumption DEF VBase, Cell, Header
<1>4. DOMAIN header = VProc /\ DOMAIN held \subseteq VProc
  BY DEF VInv, VTypes
<1>5. /\ DOMAIN header' = VProc /\ header'[p] \in [Cell -> Header]
      /\ header'[p][VBase] = [len |-> HSize, next |-> NULL]
  <2>1. rest \in [Cell -> Header]
    BY <1>3
  <2>2. PICK w : w = [len |-> HSize, next |-> NULL]
    OBVIOUS
  <2>3. [rest EXCEPT ![VBase] = w] \in [Cell -> Header] /\ [rest EXCEPT ![VBase] = w][VBase] = w
    BY <1>3, <2>1, <2>2
  <2>4. header' = [header EXCEPT ![p] = [rest EXCEPT ![VBase] = w]]
    BY <1>1, <2>2
  <2> QED  BY <1>4, <2>2, <2>3, <2>4
<1>6. VTypes'
  BY <1>2, <1>4, <1>5 DEF VTypes
<1>7. PICK h2, head2, used : h2 = header'[p] /\ head2 = vhead' /\ used = held'[p]
  OBVIOUS
<1>8. PICK t : Ordered(t) /\ Reads(VBase, h2, t) /\ OwnBlocks(BlocksIn(t), {})
  BY <1>5, <1>7, WholeHeap
<1>9. HeapOf(p, t)'
  <2>1. head2 = VBase /\ used = {} /\ head2 \in Cell \cup {NULL} /\ h2 \in [Cell -> Header]
    BY <1>2, <1>3, <1>5, <1>7
  <2>2. Ordered(t) /\ Reads(head2, h2, t) /\ OwnBlocks(BlocksIn(t), used)
    BY <1>8, <2>1
  <2> QED  BY <1>7, <2>1, <2>2 DEF HeapOf
<1>10. ASSUME ~mixed' PROVE /\ \A r, s \in DOMAIN held' : r = s
                            /\ \A r \in DOMAIN held' : \E m : HeapOf(r, m)'
  <2>1. DOMAIN held' = {p}
    BY <1>2, <1>10
  <2> QED  BY <1>9, <2>1
<1> QED  BY <1>6, <1>10 DEF VInv

LEMMA EndsStep ==
  ASSUME VInv, NEW p \in DOMAIN held, Ends(p)
  PROVE  VInv'
<1>1. /\ UNCHANGED <<vhead, header>> /\ DOMAIN held' = DOMAIN held \ {p}
      /\ \A r \in DOMAIN held' : held'[r] = held[r]
      /\ mixed' = (mixed /\ DOMAIN held # {p})
  BY DEF Ends
<1>2. VTypes'
  BY <1>1 DEF VInv, VTypes
<1>3. ASSUME ~mixed' PROVE /\ \A r, s \in DOMAIN held' : r = s
                           /\ \A r \in DOMAIN held' : \E m : HeapOf(r, m)'
  <2>1. CASE mixed
    BY <1>1, <1>3, <2>1
  <2>2. CASE ~mixed
    <3>1. \A r \in DOMAIN held : r = p
      BY <2>2 DEF VInv
    <3> QED  BY <1>1, <3>1
  <2> QED  BY <2>1, <2>2
<1> QED  BY <1>2, <1>3 DEF VInv

(* An operation of the one process that has a heap.                        *)
LEMMA OneHeap ==
  ASSUME VInv, NEW p \in DOMAIN held, ~mixed, mixed' = FALSE, DOMAIN held' = DOMAIN held,
         vhead' \in Cell \cup {NULL}, DOMAIN header' = VProc /\ header'[p] \in [Cell -> Header],
         \E t : Ordered(t) /\ Reads(vhead', header'[p], t) /\ OwnBlocks(BlocksIn(t), held'[p])
  PROVE  VInv'
<1>1. \A q \in DOMAIN held' : q = p
  BY DEF VInv
<1>2. \E t : HeapOf(p, t)'
  BY DEF HeapOf
<1>3. VTypes'
  BY DEF VInv, VTypes
<1>4. ASSUME NEW q \in DOMAIN held' PROVE \E t : HeapOf(q, t)'
  <2>1. q = p
    BY <1>1, <1>4
  <2> QED  BY <1>2, <2>1
<1>5. \A q, r \in DOMAIN held' : q = r
  BY <1>1
<1> QED  BY <1>3, <1>4, <1>5 DEF VInv

(* One through another's directory: nothing is claimed of the heaps then.  *)
LEMMA Strays ==
  ASSUME VInv, mixed' = TRUE, DOMAIN held' = DOMAIN held, DOMAIN header' = DOMAIN header
  PROVE  VInv'
BY DEF VInv, VTypes

(* A step of the heaps leaves who has one, and whose memory there is.      *)
LEMMA SameHeaps ==
  ASSUME VInv, NEW p \in DOMAIN held, NEW n, NEW b,
         Vgetmem(p, n) \/ Vfreemem(p, b) \/ Store(p, b)
  PROVE  /\ DOMAIN held' = DOMAIN held /\ DOMAIN header' = DOMAIN header
         /\ mixed' = (Seen(p) # p)
<1>1. CASE Vgetmem(p, n)
  <2>1. mixed' = (Seen(p) # p)
    BY <1>1, Zenon DEF Vgetmem, Reaches
  <2>2. \/ held' = held /\ header' = header
        \/ \E x, i, a, h, ch : held' = [held EXCEPT ![p] = x] /\ Linked(Seen(p), ch, i, a, h)
    BY <1>1, ZenonT(30) DEF Vgetmem
  <2> QED  BY <2>1, <2>2 DEF Linked
<1>2. CASE Vfreemem(p, b)
  <2>1. mixed' = (Seen(p) # p) /\ held' = [held EXCEPT ![p] = @ \ {b}]
    BY <1>2, Zenon DEF Vfreemem, Reaches
  <2>2. \/ header' = header
        \/ \E i, a, h, ch : Linked(Seen(p), ch, i, a, h)
        \/ \E c, x : header' = [header EXCEPT ![Seen(p)][c] = x]
    BY <1>2, ZenonT(30) DEF Vfreemem
  <2> QED  BY <2>1, <2>2 DEF Linked
<1>3. CASE Store(p, b)
  BY <1>3 DEF Store, Reaches
<1> QED  BY <1>1, <1>2, <1>3

LEMMA HeapsInitially ==
  ASSUME VInit
  PROVE  VInv
BY DEF VInit, VInv, VTypes

LEMMA HeapsStep ==
  ASSUME VInv, [VNext]_vheap
  PROVE  VInv'
<1>1. ASSUME NEW p \in VProc, Vcreate(p) PROVE VInv'
  BY <1>1, VcreateStep
<1>2. ASSUME NEW p \in DOMAIN held, ~mixed, NEW n \in VSizes, Vgetmem(p, n) PROVE VInv'
  <2>1. /\ DOMAIN held' = DOMAIN held /\ DOMAIN header' = DOMAIN header
        /\ mixed' = (Seen(p) # p)
    BY <1>2, SameHeaps
  <2>2. CASE Seen(p) = p
    <3>1. PICK m : HeapOf(p, m)
      BY <1>2 DEF VInv
    <3>2. VTypes /\ mixed' = FALSE
      BY <2>1, <2>2 DEF VInv
    <3> QED  BY <1>2, <2>2, <3>1, <3>2, VgetmemStep, OneHeap
  <2> QED  BY <2>1, <2>2, Strays
<1>3. ASSUME NEW p \in DOMAIN held, ~mixed, NEW b \in held[p], Vfreemem(p, b) PROVE VInv'
  <2>1. /\ DOMAIN held' = DOMAIN held /\ DOMAIN header' = DOMAIN header
        /\ mixed' = (Seen(p) # p)
    BY <1>3, SameHeaps
  <2>2. CASE Seen(p) = p
    <3>1. PICK m : HeapOf(p, m)
      BY <1>3 DEF VInv
    <3>2. VTypes /\ mixed' = FALSE
      BY <2>1, <2>2 DEF VInv
    <3> QED  BY <1>3, <2>2, <3>1, <3>2, VfreememStep, OneHeap
  <2> QED  BY <2>1, <2>2, Strays
<1>4. ASSUME NEW p \in DOMAIN held, ~mixed, NEW b \in held[p], Store(p, b) PROVE VInv'
  <2>1. /\ DOMAIN held' = DOMAIN held /\ DOMAIN header' = DOMAIN header
        /\ mixed' = (Seen(p) # p)
    BY <1>4, SameHeaps
  <2>2. CASE Seen(p) = p
    <3>1. PICK m : HeapOf(p, m)
      BY <1>4 DEF VInv
    <3>2. VTypes /\ mixed' = FALSE
      BY <2>1, <2>2 DEF VInv
    <3>3. /\ vhead' = vhead /\ held' = held
          /\ DOMAIN header' = VProc /\ header'[p] \in [Cell -> Header]
          /\ Reads(vhead, header'[p], m)
      BY <1>4, <2>2, <3>1, <3>2, StoreStep
    <3>4. PICK h2, head2, used : h2 = header'[p] /\ head2 = vhead' /\ used = held'[p]
      OBVIOUS
    <3>5. Ordered(m) /\ Reads(head2, h2, m) /\ OwnBlocks(BlocksIn(m), used)
      BY <3>1, <3>3, <3>4 DEF HeapOf
    <3>6. vhead' \in Cell \cup {NULL}
      BY <3>1, <3>3 DEF HeapOf
    <3> QED  BY <1>4, <2>1, <3>2, <3>3, <3>4, <3>5, <3>6, OneHeap
  <2> QED  BY <2>1, <2>2, Strays
<1>5. ASSUME NEW p \in DOMAIN held, Ends(p) PROVE VInv'
  BY <1>5, EndsStep
<1>6. CASE UNCHANGED <<vhead, header, held, mixed>>
  <2>1. /\ vhead' = vhead /\ header' = header /\ held' = held /\ mixed' = mixed
    BY <1>6
  <2>2. VTypes'
    BY <2>1 DEF VInv, VTypes
  <2>3. ASSUME ~mixed, NEW q \in DOMAIN held PROVE \E m : HeapOf(q, m)'
    <3>1. PICK m : HeapOf(q, m)
      BY <2>3 DEF VInv
    <3>2. HeapOf(q, m)'
      BY <2>1, <3>1 DEF HeapOf
    <3> QED  BY <3>2
  <2> QED  BY <2>1, <2>2, <2>3 DEF VInv
<1>7. ASSUME NEW p, Faults(p) PROVE VInv'
  BY <1>6, <1>7 DEF Faults
<1>8. CASE UNCHANGED vheap
  BY <1>6, <1>8 DEF vheap
<1> QED  BY <1>1, <1>2, <1>3, <1>4, <1>5, <1>7, <1>8 DEF VNext

LEMMA ListIsPrivate ==
  ASSUME VInv
  PROVE  PrivateHeap
<1> SUFFICES ASSUME ~mixed, NEW p \in DOMAIN held
             PROVE  /\ \A b, c \in held[p] :
                          b # c => b.at + b.len <= c.at \/ c.at + c.len <= b.at
                    /\ \A k \in 1..Len(Chain(p)) : \A b \in held[p] :
                          Chain(p)[k] \notin b.at..(b.at + b.len - 1)
  BY DEF PrivateHeap
<1>1. PICK m : HeapOf(p, m)
  BY DEF VInv
<1>2. VTypes
  BY DEF VInv
<1>3. /\ \A i \in 1..Len(m) : m[i] \in BlocksIn(m) /\ m[i] \in Blocks
      /\ \A b \in held[p] : b \in Blocks /\ \A f \in BlocksIn(m) : Apart(b, f)
      /\ Len(Chain(p)) = Len(m) /\ \A k \in 1..Len(m) : Chain(p)[k] = m[k].at
  BY <1>1, <1>2, HeapFacts
<1>4. \A b, c \in held[p] : b # c => Apart(b, c)
  BY <1>1 DEF HeapOf, OwnBlocks
<1>5. \A b, c \in held[p] : b # c => b.at + b.len <= c.at \/ c.at + c.len <= b.at
  BY <1>4 DEF Apart, End
<1>6. ASSUME NEW k \in 1..Len(Chain(p)), NEW b \in held[p]
      PROVE  Chain(p)[k] \notin b.at..(b.at + b.len - 1)
  <2>1. PICK f \in Blocks : f = m[k] /\ Chain(p)[k] = f.at /\ Apart(b, f) /\ b \in Blocks
    BY <1>3
  <2>2. f.at \notin b.at..(b.at + b.len - 1)
    BY <2>1 DEF Blocks, Apart, End
  <2> QED  BY <2>1, <2>2
<1> QED  BY <1>5, <1>6

(* vgetmem takes memory from its process' private heap, as long as no two  *)
(* processes have a heap at once and none reaches for its heap through the *)
(* directory of another.                                                   *)
THEOREM HeapsPrivate == VSpec => []PrivateHeap
<1>1. VInit => VInv
  BY HeapsInitially
<1>2. VInv /\ [VNext]_vheap => VInv'
  BY HeapsStep
<1>3. VInv => PrivateHeap
  BY ListIsPrivate
<1> QED  BY <1>1, <1>2, <1>3, PTL DEF VSpec
=============================================================================
