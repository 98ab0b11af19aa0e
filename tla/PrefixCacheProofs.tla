------------------------- MODULE PrefixCacheProofs -------------------------
(***************************************************************************)
(* What PrefixCache guarantees for every number of chunk contents, every   *)
(* depth, every limit and every size of snapshot.                          *)
(***************************************************************************)
EXTENDS PrefixCache, FiniteSetTheorems, SequenceTheorems, NaturalsInduction, TLAPS

----------------------------------------------------------------------------
(* The map of the cache, on its own: what the eviction loops preserve.     *)

WellFormed(cs) ==
    /\ cs \in [DOMAIN cs -> Entry]
    /\ DOMAIN cs \in SUBSET Hashes
    /\ IsFiniteSet(DOMAIN cs)

\* An entry's parent is in the map and nearer the root: the strengthening of
\* ParentClosed that says why evicting the deepest entries first keeps it.
ParentsAbove(cs) ==
    \A h \in DOMAIN cs : cs[h].parent # Root =>
        /\ cs[h].parent \in DOMAIN cs
        /\ cs[cs[h].parent].index < cs[h].index

\* What the two insertions make of an entry: a delta owns its own interval and
\* points at the chunk before it, a full snapshot owns everything from zero.
Shaped(cs) ==
    \A h \in DOMAIN cs :
        /\ cs[h].index = Len(h) - 1
        /\ \/ cs[h].parent = Root /\ cs[h].start = 0
           \/ /\ Len(h) > 1
              /\ cs[h].parent = PrefixOf(h, Len(h) - 1)
              /\ cs[h].start = cs[h].index

\* The LRU list names every entry exactly once.
Listed(cs, order) ==
    /\ order \in Seq(Hashes)
    /\ ToSet(order) = DOMAIN cs
    /\ IsInjective(order)

CacheInv ==
    /\ WellFormed(chunks)
    /\ ParentsAbove(chunks)
    /\ Shaped(chunks)
    /\ Listed(chunks, lru)
    /\ memory = BytesOf(chunks, Cached)
    /\ Cardinality(Cached) <= MaxChunks
    /\ memory <= MaxBytes

----------------------------------------------------------------------------
(* Sequences without duplicates.  The provers have no induction over data, *)
(* so a fact about every index is proved by looking at the least index     *)
(* where it would fail.                                                    *)

\* A non-empty set of naturals has a least element.
LEMMA LeastCounterexample ==
    ASSUME NEW T \in SUBSET Nat, T # {}
    PROVE  \E n \in T : \A m \in T : n <= m
<1>1. PICK n \in T : \A m \in T : <<m, n>> \notin OpToRel(<, Nat)
  BY NatLessThanWellFounded, WFMin
<1>2. \A m \in T : <<m, n>> \in OpToRel(<, Nat) <=> m < n
  BY Zenon DEF OpToRel
<1>3. \A m \in T : ~(m < n)
  BY <1>1, <1>2, Zenon
<1>4. \A m \in T : m \in Int /\ n \in Int
  OBVIOUS
<1>. QED  BY <1>3, <1>4

\* Appending an element adds it to the elements of a list.
LEMMA AppendToSet ==
    ASSUME NEW S, NEW s \in Seq(S), NEW e \in S
    PROVE  /\ Append(s, e) \in Seq(S)
           /\ ToSet(Append(s, e)) = ToSet(s) \cup {e}
<1>1. /\ Append(s, e) \in Seq(S)
      /\ Len(Append(s, e)) = Len(s) + 1
      /\ \A i \in 1..Len(s) : Append(s, e)[i] = s[i]
      /\ Append(s, e)[Len(s) + 1] = e
  BY AppendProperties
<1>2. /\ Len(s) \in Nat /\ DOMAIN s = 1..Len(s)
      /\ DOMAIN Append(s, e) = 1..(Len(s) + 1)
  BY <1>1, LenProperties
<1> DEFINE t == Append(s, e)
<1> HIDE DEF t
<1>3. ToSet(t) = ToSet(s) \cup {e}
  <2>1. ASSUME NEW x \in ToSet(t) PROVE x \in ToSet(s) \cup {e}
    <3>1. PICK i \in 1..(Len(s) + 1) : x = t[i]
      BY <1>2 DEF ToSet, t
    <3>2. CASE i = Len(s) + 1
      BY <3>1, <3>2, <1>1 DEF t
    <3>3. CASE i # Len(s) + 1
      <4>1. i \in 1..Len(s)
        BY <3>3, <1>2
      <4>2. x = s[i]
        BY <4>1, <3>1, <1>1 DEF t
      <4>. QED  BY <4>1, <4>2, <1>2 DEF ToSet
    <3>. QED  BY <3>2, <3>3
  <2>2. ASSUME NEW x \in ToSet(s) PROVE x \in ToSet(t)
    <3>1. PICK i \in 1..Len(s) : x = s[i]
      BY <1>2 DEF ToSet
    <3>2. i \in 1..(Len(s) + 1) /\ x = t[i]
      BY <3>1, <1>1, <1>2 DEF t
    <3>. QED  BY <3>2, <1>2 DEF ToSet, t
  <2>3. e \in ToSet(t)
    <3>1. Len(s) + 1 \in 1..(Len(s) + 1)
      BY <1>2
    <3>2. t[Len(s) + 1] = e
      BY <1>1 DEF t
    <3>. QED  BY <3>1, <3>2, <1>2 DEF ToSet, t
  <2>. QED  BY <2>1, <2>2, <2>3
<1>. QED  BY <1>1, <1>3 DEF t

\* Appending a new element to a list without duplicates makes no duplicate.
LEMMA AppendInjects ==
    ASSUME NEW S, NEW s \in Seq(S), NEW e \in S, IsInjective(s), e \notin ToSet(s)
    PROVE  IsInjective(Append(s, e))
<1>1. /\ Len(Append(s, e)) = Len(s) + 1
      /\ \A i \in 1..Len(s) : Append(s, e)[i] = s[i]
      /\ Append(s, e)[Len(s) + 1] = e
      /\ Append(s, e) \in Seq(S)
  BY AppendProperties
<1>2. /\ Len(s) \in Nat /\ DOMAIN s = 1..Len(s)
      /\ DOMAIN Append(s, e) = 1..(Len(s) + 1)
  BY <1>1, LenProperties
<1> DEFINE t == Append(s, e)
<1> HIDE DEF t
<1>3. \A i \in 1..Len(s) : t[i] = s[i] /\ t[i] # e
  BY <1>1, <1>2 DEF t, ToSet
<1>4. ASSUME NEW i \in 1..(Len(s) + 1), NEW j \in 1..(Len(s) + 1), t[i] = t[j]
      PROVE  i = j
  <2>1. CASE i \in 1..Len(s) /\ j \in 1..Len(s)
    BY <2>1, <1>3, <1>4, <1>2 DEF IsInjective
  <2>2. CASE i = Len(s) + 1 /\ j \in 1..Len(s)
    BY <2>2, <1>3, <1>4, <1>1 DEF t
  <2>3. CASE i \in 1..Len(s) /\ j = Len(s) + 1
    BY <2>3, <1>3, <1>4, <1>1 DEF t
  <2>4. CASE i = Len(s) + 1 /\ j = Len(s) + 1
    BY <2>4
  <2>. QED  BY <2>1, <2>2, <2>3, <2>4, <1>2
<1>. QED  BY <1>2, <1>4 DEF IsInjective, t

\* Dropping elements from a list without duplicates keeps the others, once each.
LEMMA WithoutProps ==
    ASSUME NEW S, NEW order \in Seq(S), NEW hs, IsInjective(order)
    PROVE  LET w == Without(order, hs) IN
           /\ w \in Seq(S)
           /\ ToSet(w) = ToSet(order) \ hs
           /\ IsInjective(w)
<1> DEFINE KeepStep(f, i) == IF i = 0 THEN <<>>
                          ELSE IF order[i] \in hs THEN f[i - 1]
                          ELSE Append(f[i - 1], order[i])
           Rec(n) == \E f : f = [i \in 0..n |-> KeepStep(f, i)]
           n0 == Len(order)
<1>1. n0 \in Nat /\ DOMAIN order = 1..n0
  BY LenProperties
<1>2. \A n \in Nat : Rec(n)
  <2> DEFINE T == {n \in Nat : ~Rec(n)}
  <2> SUFFICES ASSUME T # {} PROVE FALSE
    OBVIOUS
  <2>1. PICK n \in T : \A m \in T : n <= m
    <3> HIDE DEF T
    <3>1. T \in SUBSET Nat
      BY DEF T
    <3>. QED  BY <3>1, LeastCounterexample
  <2>2. CASE n = 0
    <3>1. [i \in 0..0 |-> <<>>] = [i \in 0..0 |-> KeepStep([j \in 0..0 |-> <<>>], i)]
      OBVIOUS
    <3>. QED  BY <3>1, <2>1, <2>2
  <2>3. CASE n # 0
    <3>1. n - 1 \in Nat /\ n \in Nat
      BY <2>1, <2>3
    <3>2. Rec(n - 1)
      <4>1. n - 1 \notin T
        <5> HIDE DEF T
        <5>. QED  BY <3>1, <2>1
      <4> HIDE DEF Rec
      <4>. QED  BY <4>1, <3>1
    <3>3. PICK f : f = [i \in 0..(n - 1) |-> KeepStep(f, i)]
      BY <3>2
    <3> DEFINE g == [i \in 0..n |-> IF i = n THEN KeepStep(f, n) ELSE f[i]]
    <3>4. \A i \in 0..n : g[i] = KeepStep(g, i)
      <4> SUFFICES ASSUME NEW i \in 0..n PROVE g[i] = KeepStep(g, i)
        OBVIOUS
      <4>1. CASE i = 0
        BY <4>1, <3>1, <3>3
      <4>2. CASE i # 0
        <5>1. i - 1 \in 0..(n - 1) /\ i - 1 # n
          BY <3>1, <4>2
        <5>2. g[i - 1] = f[i - 1]
          BY <5>1, <3>1
        <5>3. CASE i = n
          BY <5>2, <5>3, <4>2
        <5>4. CASE i # n
          <6>1. i \in 0..(n - 1)
            BY <5>4, <3>1
          <6>2. f[i] = KeepStep(f, i)
            BY <6>1, <3>3
          <6>. QED  BY <6>2, <5>2, <5>4, <4>2
        <5>. QED  BY <5>3, <5>4
      <4>. QED  BY <4>1, <4>2
    <3>5. g = [i \in 0..n |-> KeepStep(g, i)]
      BY <3>4
    <3>. QED  BY <3>5, <2>1
  <2>. QED  BY <2>2, <2>3
<1> DEFINE F == CHOOSE f : f = [i \in 0..n0 |-> KeepStep(f, i)]
<1>3. F = [i \in 0..n0 |-> KeepStep(F, i)]
  BY <1>1, <1>2
<1>4. Without(order, hs) = F[n0]
  BY DEF Without
<1> DEFINE Good(i) == /\ F[i] \in Seq(S)
                      /\ \A x : x \in ToSet(F[i]) <=>
                            x \notin hs /\ \E j \in 1..i : x = order[j]
                      /\ IsInjective(F[i])
<1>5. \A i \in 0..n0 : Good(i)
  <2> HIDE DEF F
  <2> DEFINE T == {i \in 0..n0 : ~Good(i)}
  <2> SUFFICES ASSUME T # {} PROVE FALSE
    OBVIOUS
  <2>1. PICK n \in T : \A m \in T : n <= m
    <3> HIDE DEF T
    <3>1. T \in SUBSET Nat
      BY <1>1 DEF T
    <3>. QED  BY <3>1, LeastCounterexample
  <2>2. n \in 0..n0 /\ ~Good(n)
    OBVIOUS
  <2>3. F[n] = KeepStep(F, n)
    BY <1>3, <2>2
  <2>4. CASE n = 0
    <3>1. F[n] = <<>>
      BY <2>3, <2>4
    <3>2. Good(n)
      BY <3>1, <2>4 DEF IsInjective, ToSet
    <3>. QED  BY <3>2, <2>2
  <2>5. CASE n # 0
    <3>1. n - 1 \in 0..n0 /\ n \in 1..n0 /\ n \in Nat
      BY <1>1, <2>2, <2>5
    <3>2. Good(n - 1)
      <4>1. n - 1 \notin T
        <5> HIDE DEF T
        <5>. QED  BY <3>1, <2>1
      <4> HIDE DEF Good
      <4>. QED  BY <4>1, <3>1
    <3> DEFINE p == F[n - 1]
               e == order[n]
    <3>3. e \in S
      BY <3>1, <1>1, ElementOfSeq
    <3>4. CASE e \in hs
      <4>1. F[n] = p
        BY <2>3, <2>5, <3>4
      <4>2. Good(n)
        <5>1. \A x : x \notin hs /\ (\E j \in 1..(n - 1) : x = order[j]) <=>
                     x \notin hs /\ (\E j \in 1..n : x = order[j])
          BY <3>1, <3>4
        <5>. QED  BY <4>1, <3>2, <5>1
      <4>. QED  BY <4>2, <2>2
    <3>5. CASE e \notin hs
      <4>1. F[n] = Append(p, e)
        BY <2>3, <2>5, <3>5
      <4>2. p \in Seq(S) /\ IsInjective(p)
        BY <3>2
      <4>3. e \notin ToSet(p)
        <5> SUFFICES ASSUME e \in ToSet(p) PROVE FALSE
          OBVIOUS
        <5>1. PICK j \in 1..(n - 1) : e = order[j]
          BY <3>2
        <5>. QED  BY <5>1, <3>1, <1>1 DEF IsInjective
      <4> HIDE DEF p, e
      <4>4. Append(p, e) \in Seq(S) /\ ToSet(Append(p, e)) = ToSet(p) \cup {e}
        BY <4>2, <3>3, AppendToSet
      <4>5. IsInjective(Append(p, e))
        BY <4>2, <4>3, <3>3, AppendInjects
      <4> USE DEF p, e
      <4>6. \A x : x \in ToSet(p) \cup {e} <=>
                   x \notin hs /\ (\E j \in 1..n : x = order[j])
        BY <3>1, <3>2, <3>5
      <4>7. Good(n)
        BY <4>1, <4>4, <4>5, <4>6
      <4>. QED  BY <4>7, <2>2
    <3>. QED  BY <3>4, <3>5
  <2>. QED  BY <2>4, <2>5
<1>6. Good(n0)
  <2> HIDE DEF Good
  <2>. QED  BY <1>1, <1>5
<1>7. \A x : x \in ToSet(order) <=> \E j \in 1..n0 : x = order[j]
  BY <1>1 DEF ToSet
<1> HIDE DEF F
<1>. QED  BY <1>4, <1>6, <1>7
----------------------------------------------------------------------------
(* Byte sums.                                                              *)

Slots(cs, hs) == UNION {ByteSlots(cs, h) : h \in hs}

\* Finitely many entries of finite size have finitely many byte slots.
LEMMA SlotsFinite ==
    ASSUME NEW cs, WellFormed(cs), NEW hs \in SUBSET DOMAIN cs
    PROVE  IsFiniteSet(Slots(cs, hs))
<1> DEFINE f == [h \in hs |-> ByteSlots(cs, h)]
           T == {ByteSlots(cs, h) : h \in hs}
<1>1. IsFiniteSet(hs)
  BY FS_Subset DEF WellFormed
<1>2. f \in Surjection(hs, T)
  BY DEF Surjection
<1>3. IsFiniteSet(T)
  BY <1>1, <1>2, FS_Surjection
<1>4. ASSUME NEW h \in hs
      PROVE  IsFiniteSet(ByteSlots(cs, h))
  <2>1. cs[h].state \in States
    BY DEF WellFormed, Entry
  <2>2. Bytes(cs[h].state) \in Int
    BY <2>1, BytesAssumption
  <2>3. IsFiniteSet(1..Bytes(cs[h].state))
    BY <2>2, FS_Interval
  <2>. QED  BY <2>3, FS_Singleton, FS_Product DEF ByteSlots
<1>5. \A t \in T : IsFiniteSet(t)
  BY <1>4
<1>. QED  BY <1>3, <1>5, FS_UNION DEF Slots

\* The byte total of finitely many entries is a natural number.
LEMMA BytesOfType ==
    ASSUME NEW cs, WellFormed(cs), NEW hs \in SUBSET DOMAIN cs
    PROVE  BytesOf(cs, hs) \in Nat
BY SlotsFinite, FS_CardinalityType DEF BytesOf, Slots

\* Splitting a set of entries splits its bytes.
LEMMA BytesOfSplit ==
    ASSUME NEW cs, WellFormed(cs), NEW hs \in SUBSET DOMAIN cs, NEW gone \in SUBSET hs
    PROVE  BytesOf(cs, hs) = BytesOf(cs, gone) + BytesOf(cs, hs \ gone)
<1>1. /\ IsFiniteSet(Slots(cs, gone))
      /\ IsFiniteSet(Slots(cs, hs \ gone))
  BY SlotsFinite
<1>2. Slots(cs, hs) = Slots(cs, gone) \cup Slots(cs, hs \ gone)
  BY DEF Slots
<1>3. Slots(cs, gone) \cap Slots(cs, hs \ gone) = {}
  BY DEF Slots, ByteSlots
<1>4. Cardinality(Slots(cs, gone) \cap Slots(cs, hs \ gone)) = 0
  BY <1>3, FS_EmptySet
<1>5. /\ Cardinality(Slots(cs, gone)) \in Nat
      /\ Cardinality(Slots(cs, hs \ gone)) \in Nat
  BY <1>1, FS_CardinalityType
<1>6. Cardinality(Slots(cs, hs)) =
          Cardinality(Slots(cs, gone)) + Cardinality(Slots(cs, hs \ gone))
             - Cardinality(Slots(cs, gone) \cap Slots(cs, hs \ gone))
  BY <1>1, <1>2, FS_Union
<1>. QED  BY <1>4, <1>5, <1>6 DEF BytesOf, Slots

\* Only the entries summed matter.
LEMMA BytesOfAgree ==
    ASSUME NEW cs, NEW ds, NEW hs, \A h \in hs : cs[h] = ds[h]
    PROVE  BytesOf(cs, hs) = BytesOf(ds, hs)
<1>1. \A h \in hs : ByteSlots(cs, h) = ByteSlots(ds, h)
  BY DEF ByteSlots
<1>2. UNION {ByteSlots(cs, h) : h \in hs} = UNION {ByteSlots(ds, h) : h \in hs}
  BY <1>1
<1>. QED  BY <1>2 DEF BytesOf

\* One entry counts for its own size.
LEMMA BytesOfOne ==
    ASSUME NEW cs, NEW h, NEW n \in Nat, n = Bytes(cs[h].state)
    PROVE  BytesOf(cs, {h}) = n
<1>1. UNION {ByteSlots(cs, g) : g \in {h}} = {h} \X (1..n)
  BY DEF ByteSlots
<1>2. /\ IsFiniteSet(1..n)
      /\ Cardinality(1..n) = n
  BY FS_Interval
<1>3. /\ IsFiniteSet({h})
      /\ Cardinality({h}) = 1
  BY FS_Singleton
<1>4. Cardinality({h} \X (1..n)) = 1 * n
  BY <1>2, <1>3, FS_Product
<1>5. BytesOf(cs, {h}) = 1 * n
  BY <1>1, <1>4 DEF BytesOf
<1>. QED  BY <1>5

\* A new entry adds its own size to the byte total.
LEMMA BytesOfInsert ==
    ASSUME NEW cs, NEW ds, NEW h, WellFormed(cs), WellFormed(ds),
           h \notin DOMAIN cs, DOMAIN ds = DOMAIN cs \cup {h},
           \A g \in DOMAIN cs : ds[g] = cs[g],
           NEW n \in Nat, n = Bytes(ds[h].state)
    PROVE  BytesOf(ds, DOMAIN ds) = BytesOf(cs, DOMAIN cs) + n
<1>1. BytesOf(ds, {h}) = n
  BY BytesOfOne
<1>2. BytesOf(ds, DOMAIN cs) = BytesOf(cs, DOMAIN cs)
  BY BytesOfAgree
<1>3. BytesOf(ds, DOMAIN ds) = BytesOf(ds, {h}) + BytesOf(ds, DOMAIN ds \ {h})
  BY BytesOfSplit
<1>4. DOMAIN ds \ {h} = DOMAIN cs
  OBVIOUS
<1>5. BytesOf(cs, DOMAIN cs) \in Nat
  BY BytesOfType
<1>. QED  BY <1>1, <1>2, <1>3, <1>4, <1>5

----------------------------------------------------------------------------
(* Eviction.                                                               *)

\* Whatever the eviction loops start from, they end with a well-formed map in
\* which no entry lost its parent, within both limits, and with the byte total
\* exact.
LEMMA EvictToSafe ==
    ASSUME NEW cs, NEW order, NEW mem, NEW len \in Nat, NEW target \in Nat,
           WellFormed(cs), ParentsAbove(cs), Shaped(cs), Listed(cs, order),
           mem = BytesOf(cs, DOMAIN cs),
           EvictTo(cs, order, mem, len, target)
    PROVE  /\ WellFormed(chunks')
           /\ ParentsAbove(chunks')
           /\ Shaped(chunks')
           /\ Listed(chunks', lru')
           /\ memory' = BytesOf(chunks', Cached')
           /\ Cardinality(Cached') <= len
           /\ memory' <= target
<1>1. PICK out \in SUBSET DOMAIN cs :
          /\ EvictedFirst(cs, order, out)
          /\ Fits(cs, mem, out, len, target) \/ out = DOMAIN cs
          /\ chunks' = [h \in DOMAIN cs \ out |-> cs[h]]
          /\ lru' = Without(order, out)
          /\ memory' = Monus(mem, BytesOf(cs, out))
  BY DEF EvictTo
<1>2. DOMAIN chunks' = DOMAIN cs \ out
  BY <1>1
<1>3. WellFormed(chunks')
  BY <1>1, <1>2, FS_Subset DEF WellFormed
<1>4. ParentsAbove(chunks')
  <2> SUFFICES ASSUME NEW h \in DOMAIN chunks', chunks'[h].parent # Root
               PROVE  /\ chunks'[h].parent \in DOMAIN chunks'
                      /\ chunks'[chunks'[h].parent].index < chunks'[h].index
    BY DEF ParentsAbove
  <2> DEFINE p == cs[h].parent
  <2>1. /\ h \in DOMAIN cs \ out
        /\ chunks'[h] = cs[h]
    BY <1>1, <1>2
  <2>2. /\ p \in DOMAIN cs
        /\ cs[p].index < cs[h].index
    BY <2>1 DEF ParentsAbove
  <2>3. cs[p].index \in Int /\ cs[h].index \in Int
    BY <2>1, <2>2, SizesAssumption DEF WellFormed, Entry
  <2>4. p \notin out
    BY <2>1, <2>2, <2>3, <1>1 DEF EvictedFirst, Precedes
  <2>. QED  BY <2>1, <2>2, <2>4, <1>1, <1>2
<1>5. /\ BytesOf(cs, DOMAIN cs \ out) = BytesOf(chunks', Cached')
      /\ mem = BytesOf(cs, out) + BytesOf(cs, DOMAIN cs \ out)
      /\ BytesOf(cs, out) \in Nat
      /\ BytesOf(cs, DOMAIN cs \ out) \in Nat
  <2> DEFINE kept == DOMAIN cs \ out
  <2>1. \A h \in kept : cs[h] = chunks'[h]
    BY <1>1
  <2>2. BytesOf(cs, kept) = BytesOf(chunks', kept)
    BY <2>1, BytesOfAgree
  <2>3. Cached' = kept
    BY <1>2 DEF Cached
  <2>4. mem = BytesOf(cs, out) + BytesOf(cs, kept)
    BY BytesOfSplit
  <2>5. /\ BytesOf(cs, out) \in Nat
        /\ BytesOf(cs, kept) \in Nat
    BY BytesOfType
  <2>. QED  BY <2>2, <2>3, <2>4, <2>5
<1>6. memory' = BytesOf(cs, DOMAIN cs \ out)
  BY <1>1, <1>5 DEF Monus
<1>7. Cardinality(Cached') <= len /\ memory' <= target
  <2>1. CASE Fits(cs, mem, out, len, target)
    BY <2>1, <1>1, <1>2 DEF Fits, Cached
  <2>2. CASE out = DOMAIN cs
    <3>1. DOMAIN cs \ out = {}
      BY <2>2
    <3>2. UNION {ByteSlots(cs, h) : h \in {}} = {}
      OBVIOUS
    <3>3. BytesOf(cs, {}) = 0
      BY <3>2, FS_EmptySet DEF BytesOf
    <3>. QED  BY <3>1, <3>3, <1>2, <1>6, FS_EmptySet DEF Cached
  <2>. QED  BY <2>1, <2>2, <1>1
<1>8. Shaped(chunks')
  BY <1>1, <1>2 DEF Shaped
<1>9. Listed(chunks', lru')
  <2>1. LET w == Without(order, out) IN
            /\ w \in Seq(Hashes)
            /\ ToSet(w) = ToSet(order) \ out
            /\ IsInjective(w)
    BY WithoutProps DEF Listed
  <2>. QED  BY <2>1, <1>1, <1>2 DEF Listed
<1>. QED  BY <1>3, <1>4, <1>5, <1>6, <1>7, <1>8, <1>9

----------------------------------------------------------------------------
(* Steps.                                                                  *)

\* A hash or Root that is not too deep yields a hash for the chunk after it.
LEMMA HashType ==
    ASSUME NEW prev \in Hashes \cup {Root}, Len(prev) < MaxDepth, NEW c \in Chunks
    PROVE  /\ prev \in Seq(Chunks)
           /\ ChunkHash(prev, c) \in Hashes
           /\ Len(prev) \in 0..(MaxDepth - 1)
<1>1. prev \in Seq(Chunks)
  <2>1. CASE prev = Root
    BY <2>1 DEF Root
  <2>2. CASE prev \in Hashes
    <3>1. PICK n \in 1..MaxDepth : prev \in [1..n -> Chunks]
      BY <2>2 DEF Hashes
    <3>2. n \in Nat
      BY <3>1, SizesAssumption
    <3>. QED  BY <3>1, <3>2, SeqDef
  <2>. QED  BY <2>1, <2>2
<1>2. Len(prev) \in Nat
  BY <1>1, LenProperties
<1>3. /\ Append(prev, c) \in Seq(Chunks)
      /\ Len(Append(prev, c)) = Len(prev) + 1
  BY <1>1, AppendProperties
<1>4. Append(prev, c) \in [1..(Len(prev) + 1) -> Chunks]
  BY <1>3, LenProperties
<1>5. Len(prev) + 1 \in 1..MaxDepth
  BY <1>2, SizesAssumption
<1>. QED  BY <1>1, <1>2, <1>4, <1>5, SizesAssumption DEF ChunkHash, Hashes

\* A path less its last chunk is the path it was appended to.
LEMMA AppendPrefix ==
    ASSUME NEW S, NEW s \in Seq(S), NEW e \in S
    PROVE  /\ Len(Append(s, e)) = Len(s) + 1
           /\ Len(s) \in Nat
           /\ SubSeq(Append(s, e), 1, Len(s)) = s
<1>1. /\ Append(s, e) \in Seq(S)
      /\ Len(Append(s, e)) = Len(s) + 1
      /\ Len(s) \in Nat
      /\ \A i \in 1..Len(s) : Append(s, e)[i] = s[i]
  BY AppendProperties, LenProperties
<1> DEFINE t == Append(s, e)
           p == SubSeq(t, 1, Len(s))
<1>2. /\ p \in Seq(S)
      /\ Len(p) = Len(s)
      /\ \A i \in 1..Len(s) : p[i] = t[i]
  BY <1>1, SubSeqProperties
<1>3. p = s
  BY <1>1, <1>2, SeqEqual
<1>. QED  BY <1>1, <1>3

\* touch moves an entry to the end of the LRU list and keeps the list exact.
LEMMA TouchListed ==
    ASSUME NEW cs, NEW order, Listed(cs, order), NEW h \in Hashes
    PROVE  Listed(cs, Touch(order, h))
<1>1. CASE Contains(order, h)
  <2> DEFINE w == Without(order, {h})
  <2>1. /\ w \in Seq(Hashes)
        /\ ToSet(w) = ToSet(order) \ {h}
        /\ IsInjective(w)
    BY WithoutProps DEF Listed
  <2> HIDE DEF w
  <2>2. h \in ToSet(order)
    BY <1>1 DEF Contains, ToSet
  <2>3. /\ Append(w, h) \in Seq(Hashes)
        /\ ToSet(Append(w, h)) = ToSet(w) \cup {h}
    BY <2>1, AppendToSet
  <2>4. IsInjective(Append(w, h))
    BY <2>1, AppendInjects
  <2>5. Touch(order, h) = Append(w, h)
    BY <1>1 DEF Touch, w
  <2>. QED  BY <2>1, <2>2, <2>3, <2>4, <2>5 DEF Listed
<1>2. CASE ~Contains(order, h)
  BY <1>2 DEF Touch
<1>. QED  BY <1>1, <1>2

\* The map just before the eviction loops of insert_node run.
LEMMA InsertNodeSafe ==
    ASSUME CacheInv,
           NEW prev \in Hashes \cup {Root}, Len(prev) < MaxDepth,
           NEW c \in Chunks, NEW state \in States,
           NEW start \in 0..(MaxDepth - 1), NEW parent \in Hashes \cup {Root},
           \/ parent = Root /\ start = 0
           \/ parent = prev /\ start = Len(prev) /\ prev \in Cached,
           InsertNode(prev, c, Len(prev), state, start, parent)
    PROVE  CacheInv'
<1> DEFINE hash == ChunkHash(prev, c)
           node == [index |-> Len(prev), parent |-> parent, start |-> start,
                    state |-> state]
           cs == [h \in Cached \cup {hash} |-> IF h = hash THEN node ELSE chunks[h]]
<1>1. CASE hash \in Cached
  <2>1. hash \in Hashes
    BY HashType
  <2>2. Listed(chunks, Touch(lru, hash))
    BY <2>1, TouchListed DEF CacheInv
  <2>. QED  BY <1>1, <2>2 DEF InsertNode, CacheInv, Cached
<1>2. CASE hash \notin Cached
  <2>1. node \in Entry /\ hash \in Hashes
    BY HashType DEF Entry
  <2>2. DOMAIN cs = Cached \cup {hash}
    OBVIOUS
  <2>3. WellFormed(cs)
    BY <1>2, <2>1, <2>2, FS_AddElement DEF WellFormed, CacheInv, Cached
  <2>4. ParentsAbove(cs)
    <3> SUFFICES ASSUME NEW h \in DOMAIN cs, cs[h].parent # Root
                 PROVE  /\ cs[h].parent \in DOMAIN cs
                        /\ cs[cs[h].parent].index < cs[h].index
      BY DEF ParentsAbove
    <3>1. CASE h = hash
      <4>1. /\ cs[h] = node
            /\ prev \in Cached
            /\ parent = prev
        BY <3>1
      <4>2. prev # hash /\ cs[prev] = chunks[prev]
        BY <4>1, <1>2
      <4>3. chunks[prev].index = Len(prev) - 1
        BY <4>1 DEF CacheInv, Shaped, Cached
      <4>4. Len(prev) \in Nat
        BY HashType, SizesAssumption
      <4>. QED  BY <4>1, <4>2, <4>3, <4>4, <2>2
    <3>2. CASE h # hash
      BY <3>2, <1>2, <2>2 DEF CacheInv, ParentsAbove, Cached
    <3>. QED  BY <3>1, <3>2
  <2>5. memory + Bytes(state) = BytesOf(cs, DOMAIN cs)
    <3>1. PICK n \in Nat : n = Bytes(state)
      BY BytesAssumption
    <3>2. n = Bytes(cs[hash].state) /\ \A h \in DOMAIN chunks : cs[h] = chunks[h]
      BY <3>1, <1>2, <2>2 DEF Cached
    <3>3. WellFormed(chunks) /\ memory = BytesOf(chunks, DOMAIN chunks)
      BY DEF CacheInv, Cached
    <3>4. hash \notin DOMAIN chunks /\ DOMAIN cs = DOMAIN chunks \cup {hash}
      BY <1>2, <2>2 DEF Cached
    <3>5. BytesOf(cs, DOMAIN cs) = memory + n
      BY <3>2, <3>3, <3>4, <2>3, BytesOfInsert
    <3>. QED  BY <3>1, <3>5
  <2>6. EvictTo(cs, Append(lru, hash), memory + Bytes(state), MaxChunks, MaxBytes)
    BY <1>2 DEF InsertNode
  <2>7. MaxChunks \in Nat /\ MaxBytes \in Nat
    BY SizesAssumption
  <2>8. Shaped(cs)
    <3>1. /\ Len(hash) = Len(prev) + 1
          /\ Len(prev) \in Nat
          /\ PrefixOf(hash, Len(prev)) = prev
      BY HashType, AppendPrefix DEF ChunkHash, PrefixOf
    <3>2. prev \in Cached => Len(prev) > 0
      <4> SUFFICES ASSUME prev \in Cached PROVE Len(prev) > 0
        OBVIOUS
      <4>1. PICK n \in 1..MaxDepth : prev \in [1..n -> Chunks]
        BY DEF CacheInv, WellFormed, Cached, Hashes
      <4>2. Len(prev) = n
        BY <4>1, <3>1, HashType, LenProperties, SizesAssumption
      <4>. QED  BY <4>1, <4>2
    <3>3. /\ node.index = Len(hash) - 1
          /\ \/ node.parent = Root /\ node.start = 0
             \/ /\ Len(hash) > 1
                /\ node.parent = PrefixOf(hash, Len(hash) - 1)
                /\ node.start = node.index
      BY <3>1, <3>2
    <3> HIDE DEF node, hash
    <3>. QED  BY <3>3, <1>2 DEF Shaped, CacheInv, Cached
  <2>9. Listed(cs, Append(lru, hash))
    <3>1. hash \notin ToSet(lru) /\ lru \in Seq(Hashes) /\ IsInjective(lru)
      BY <1>2 DEF CacheInv, Listed, Cached
    <3> HIDE DEF hash
    <3>. QED  BY <3>1, <2>1, <2>2, AppendToSet, AppendInjects DEF CacheInv, Listed, Cached
  <2> HIDE DEF cs, node, hash
  <2>. QED  BY <2>3, <2>4, <2>5, <2>6, <2>7, <2>8, <2>9, EvictToSafe DEF CacheInv
<1>. QED  BY <1>1, <1>2

\* An empty cache satisfies the strengthened invariant.
LEMMA EmptyCacheInv ==
    ASSUME NEW cs, cs = <<>>
    PROVE  /\ WellFormed(cs)
           /\ ParentsAbove(cs)
           /\ BytesOf(cs, DOMAIN cs) = 0
           /\ Shaped(cs)
           /\ Listed(cs, <<>>)
           /\ Cardinality(DOMAIN cs) = 0
<1>1. DOMAIN cs = {}
  OBVIOUS
<1>2. UNION {ByteSlots(cs, h) : h \in {}} = {}
  OBVIOUS
<1>3. Listed(cs, <<>>)
  BY <1>1, EmptySeq DEF Listed, ToSet, IsInjective
<1>. QED  BY <1>1, <1>2, <1>3, FS_EmptySet DEF WellFormed, ParentsAbove, BytesOf, Shaped

\* The cache new() makes satisfies the strengthened invariant.
LEMMA CacheInvInit == Init => CacheInv
<1> SUFFICES ASSUME Init PROVE CacheInv
  OBVIOUS
<1>. QED  BY EmptyCacheInv, SizesAssumption DEF Init, CacheInv, Cached

\* A hash is a sequence of one to MaxDepth chunks.
LEMMA PathType ==
    ASSUME NEW path \in Hashes
    PROVE  /\ path \in Seq(Chunks)
           /\ Len(path) \in 1..MaxDepth
           /\ Len(path) \in Nat
<1>1. PICK d \in 1..MaxDepth : path \in [1..d -> Chunks]
  BY DEF Hashes
<1>2. d \in Nat /\ path \in Seq(Chunks)
  BY <1>1, SizesAssumption, SeqDef
<1>3. Len(path) = d
  BY <1>1, <1>2, LenProperties
<1>. QED  BY <1>1, <1>2, <1>3

\* A non-empty prefix of a hash is a hash, of its own length.
LEMMA PrefixType ==
    ASSUME NEW path \in Hashes, NEW n \in 1..Len(path)
    PROVE  /\ PrefixOf(path, n) \in Hashes
           /\ Len(PrefixOf(path, n)) = n
<1>1. path \in Seq(Chunks) /\ Len(path) \in 1..MaxDepth /\ n \in Nat
  BY PathType, SizesAssumption
<1>2. /\ PrefixOf(path, n) \in Seq(Chunks)
      /\ Len(PrefixOf(path, n)) = n
  BY <1>1, SubSeqProperties DEF PrefixOf
<1>3. PrefixOf(path, n) \in [1..n -> Chunks]
  BY <1>2, LenProperties
<1>4. n \in 1..MaxDepth
  BY <1>1, SizesAssumption
<1>. QED  BY <1>2, <1>3, <1>4 DEF Hashes

\* The longest match is one of the lengths it is the maximum of.
LEMMA MatchedType ==
    ASSUME NEW path \in Hashes, MatchedChunks(path) > 0
    PROVE  MatchedChunks(path) \in 1..Len(path)
<1> DEFINE S == {n \in 0..Len(path) : \A i \in 1..n : PrefixOf(path, i) \in Cached}
           T == {Len(path) - n : n \in S}
<1>1. Len(path) \in Nat
  BY PathType
<1>2. 0 \in S /\ S \subseteq 0..Len(path)
  BY <1>1
<1> HIDE DEF S
<1>3. T \in SUBSET Nat /\ T # {}
  BY <1>1, <1>2
<1>4. PICK t \in T : \A m \in T : t <= m
  <2> HIDE DEF T
  <2>. QED  BY <1>3, LeastCounterexample
<1>5. PICK n \in S : t = Len(path) - n
  BY <1>4
<1>6. \A m \in S : n >= m
  <2> SUFFICES ASSUME NEW m \in S PROVE n >= m
    OBVIOUS
  <2>1. Len(path) - m \in T
    OBVIOUS
  <2>2. Len(path) - n <= Len(path) - m
    BY <2>1, <1>4, <1>5
  <2>. QED  BY <2>2, <1>1, <1>2
<1>7. MatchedChunks(path) \in S
  BY <1>6 DEF MatchedChunks, Max, S
<1> DEFINE longest == MatchedChunks(path)
<1> HIDE DEF longest
<1>8. longest \in 0..Len(path) /\ longest > 0
  BY <1>2, <1>7 DEF longest
<1>9. longest \in 1..Len(path)
  BY <1>1, <1>8
<1>. QED  BY <1>9 DEF longest

\* Every operation, and a stutter, preserves the strengthened invariant.
LEMMA CacheInvNext == CacheInv /\ [Next]_vars => CacheInv'
<1> SUFFICES ASSUME CacheInv, [Next]_vars
             PROVE  CacheInv'
  OBVIOUS
<1>1. ASSUME NEW prev \in Hashes \cup {Root}, NEW c \in Chunks, NEW state \in States,
             Len(prev) < MaxDepth, InsertDeltaChunk(prev, c, Len(prev), state)
      PROVE  CacheInv'
  <2>1. Len(prev) \in 0..(MaxDepth - 1)
    BY <1>1, HashType
  <2>2. \/ prev = Root /\ Len(prev) = 0
        \/ prev \in Cached
    BY <1>1 DEF InsertDeltaChunk
  <2>3. InsertNode(prev, c, Len(prev), state, Len(prev), prev)
    BY <1>1 DEF InsertDeltaChunk
  <2>. QED  BY <1>1, <2>1, <2>2, <2>3, InsertNodeSafe
<1>2. ASSUME NEW prev \in Hashes \cup {Root}, NEW c \in Chunks, NEW state \in States,
             Len(prev) < MaxDepth, InsertChunk(prev, c, Len(prev), state)
      PROVE  CacheInv'
  <2>1. InsertNode(prev, c, Len(prev), state, 0, Root)
    BY <1>2 DEF InsertChunk
  <2>2. 0 \in 0..(MaxDepth - 1) /\ Root \in Hashes \cup {Root}
    BY SizesAssumption
  <2>. QED  BY <1>2, <2>1, <2>2, InsertNodeSafe
<1>3. ASSUME NEW path \in Hashes, RestoreLongestPrefix(path)
      PROVE  CacheInv'
  <2> DEFINE n == MatchedChunks(path)
  <2>1. n \in 1..Len(path)
    BY <1>3, MatchedType DEF RestoreLongestPrefix
  <2>2. PrefixOf(path, n) \in Hashes
    BY <2>1, PrefixType
  <2>3. Listed(chunks, Touch(lru, PrefixOf(path, n)))
    BY <2>2, TouchListed DEF CacheInv
  <2>. QED  BY <1>3, <2>3 DEF RestoreLongestPrefix, CacheInv, Cached
<1>4. ASSUME NEW target \in 0..MaxBytes, PruneToBytes(target)
      PROVE  CacheInv'
  <2>1. /\ WellFormed(chunks) /\ ParentsAbove(chunks) /\ Shaped(chunks)
        /\ Listed(chunks, lru) /\ memory = BytesOf(chunks, DOMAIN chunks)
    BY DEF CacheInv, Cached
  <2>2. Cardinality(Cached) \in Nat /\ target \in Nat
    BY <2>1, FS_CardinalityType, SizesAssumption DEF WellFormed, Cached
  <2>3. /\ WellFormed(chunks')
        /\ ParentsAbove(chunks')
        /\ Shaped(chunks')
        /\ Listed(chunks', lru')
        /\ memory' = BytesOf(chunks', Cached')
        /\ Cardinality(Cached') <= Cardinality(Cached)
        /\ memory' <= target
    BY <1>4, <2>1, <2>2, EvictToSafe DEF PruneToBytes
  <2>4. Cardinality(Cached') \in Nat /\ memory' \in Nat
    BY <2>3, FS_CardinalityType, BytesOfType DEF WellFormed, Cached
  <2>. QED  BY <2>2, <2>3, <2>4, SizesAssumption DEF CacheInv
<1>5. CASE Clear
  BY <1>5, EmptyCacheInv, SizesAssumption DEF Clear, CacheInv, Cached
<1>6. CASE UNCHANGED vars
  BY <1>6 DEF vars, CacheInv, Cached
<1>. QED  BY <1>1, <1>2, <1>3, <1>4, <1>5, <1>6 DEF Next

\* The strengthened invariant holds of every behaviour: the base of what
\* follows.
THEOREM CacheInvariant == Spec => []CacheInv
  BY CacheInvInit, CacheInvNext, PTL DEF Spec

----------------------------------------------------------------------------
(* The walk of restore_longest_prefix.                                     *)

\* The lengths of the entries the walk from "h" visits.
Walked(h) ==
    {m \in 1..Len(h) : \A i \in (m + 1)..Len(h) :
        /\ PrefixOf(h, i) \in Cached
        /\ chunks[PrefixOf(h, i)].parent = PrefixOf(h, i - 1)}

\* The whole of a path is the path.
LEMMA WholePrefix ==
    ASSUME NEW h \in Hashes
    PROVE  PrefixOf(h, Len(h)) = h
<1>1. h \in Seq(Chunks) /\ Len(h) \in Nat
  BY PathType
<1>2. /\ PrefixOf(h, Len(h)) \in Seq(Chunks)
      /\ Len(PrefixOf(h, Len(h))) = Len(h)
      /\ \A i \in 1..Len(h) : PrefixOf(h, Len(h))[i] = h[i]
  BY <1>1, SubSeqProperties DEF PrefixOf
<1>. QED  BY <1>1, <1>2, SeqEqual

\* A prefix of a prefix is a prefix.
LEMMA PrefixPrefix ==
    ASSUME NEW h \in Hashes, NEW n \in 1..Len(h), NEW m \in 1..n
    PROVE  PrefixOf(PrefixOf(h, n), m) = PrefixOf(h, m)
<1>1. h \in Seq(Chunks) /\ Len(h) \in Nat /\ n \in 1..Len(h) /\ m \in 1..Len(h)
  BY PathType
<1> DEFINE p == PrefixOf(h, n)
<1>2. /\ p \in Seq(Chunks)
      /\ Len(p) = n
      /\ \A i \in 1..n : p[i] = h[i]
  BY <1>1, SubSeqProperties DEF PrefixOf
<1> HIDE DEF p
<1>3. /\ PrefixOf(h, m) \in Seq(Chunks)
      /\ Len(PrefixOf(h, m)) = m
      /\ \A i \in 1..m : PrefixOf(h, m)[i] = h[i]
  BY <1>1, SubSeqProperties DEF PrefixOf
<1>4. /\ PrefixOf(p, m) \in Seq(Chunks)
      /\ Len(PrefixOf(p, m)) = m
      /\ \A i \in 1..m : PrefixOf(p, m)[i] = p[i]
  BY <1>1, <1>2, SubSeqProperties DEF PrefixOf
<1>5. PrefixOf(p, m) = PrefixOf(h, m)
  BY <1>1, <1>2, <1>3, <1>4, SeqEqual
<1>. QED  BY <1>5 DEF p

\* Everything the walk visits is cached, and the walk has a last entry.
LEMMA WalkCached ==
    ASSUME CacheInv, NEW h \in Cached
    PROVE  /\ h \in Hashes
           /\ Len(h) \in Walked(h)
           /\ \A n \in Walked(h) :
                 /\ PrefixOf(h, n) \in Cached
                 /\ PrefixOf(h, n) \in Hashes
                 /\ Len(PrefixOf(h, n)) = n
                 /\ chunks[PrefixOf(h, n)].index = n - 1
<1>1. h \in Hashes
  BY DEF CacheInv, WellFormed, Cached
<1>2. Len(h) \in Nat \ {0}
  BY <1>1, PathType
<1>3. Len(h) \in Walked(h)
  BY <1>2 DEF Walked
<1>4. ASSUME NEW n \in Walked(h)
      PROVE  /\ PrefixOf(h, n) \in Cached
             /\ PrefixOf(h, n) \in Hashes
             /\ Len(PrefixOf(h, n)) = n
             /\ chunks[PrefixOf(h, n)].index = n - 1
  <2>1. n \in 1..Len(h)
    BY DEF Walked
  <2>2. PrefixOf(h, n) \in Hashes /\ Len(PrefixOf(h, n)) = n
    BY <1>1, <2>1, PrefixType
  <2>3. PrefixOf(h, n) \in Cached
    <3>1. CASE n = Len(h)
      BY <3>1, <1>1, WholePrefix
    <3>2. CASE n # Len(h)
      <4>1. n + 1 \in (n + 1)..Len(h) /\ n + 1 \in 1..Len(h) /\ (n + 1) - 1 = n
        BY <3>2, <2>1, <1>2
      <4> DEFINE g == PrefixOf(h, n + 1)
      <4>2. g \in Cached /\ chunks[g].parent = PrefixOf(h, n)
        BY <4>1 DEF Walked
      <4> HIDE DEF g
      <4>3. PrefixOf(h, n) # Root
        BY <2>1, <2>2 DEF Root
      <4>. QED  BY <4>2, <4>3 DEF CacheInv, ParentsAbove, Cached
    <3>. QED  BY <3>1, <3>2
  <2>4. chunks[PrefixOf(h, n)].index = n - 1
    BY <2>2, <2>3 DEF CacheInv, Shaped, Cached
  <2>. QED  BY <2>2, <2>3, <2>4
<1>. QED  BY <1>1, <1>3, <1>4

\* The walk ends at an entry that starts at zero, and every other entry of it
\* covers its own position only.
LEMMA WalkShape ==
    ASSUME CacheInv, NEW h \in Cached
    PROVE  \E b \in 1..Len(h) :
              /\ Walked(h) = b..Len(h)
              /\ chunks[PrefixOf(h, b)].start = 0
              /\ \A n \in (b + 1)..Len(h) : chunks[PrefixOf(h, n)].start = n - 1
<1>1. h \in Hashes /\ Len(h) \in Walked(h)
  BY WalkCached
<1>2. Len(h) \in Nat
  BY <1>1, PathType
<1>3. Walked(h) \in SUBSET Nat /\ Walked(h) # {} /\ Walked(h) \subseteq 1..Len(h)
  BY <1>1 DEF Walked
<1>4. PICK b \in Walked(h) : \A m \in Walked(h) : b <= m
  BY <1>3, LeastCounterexample
<1>5. b \in 1..Len(h)
  BY <1>3
<1>6. Walked(h) = b..Len(h)
  <2>1. ASSUME NEW n \in b..Len(h) PROVE n \in Walked(h)
    <3>1. n \in 1..Len(h) /\ \A i \in (n + 1)..Len(h) : i \in (b + 1)..Len(h)
      BY <1>2, <1>5
    <3>. QED  BY <3>1 DEF Walked
  <2>2. ASSUME NEW n \in Walked(h) PROVE n \in b..Len(h)
    BY <1>2, <1>3, <1>4, <1>5
  <2>. QED  BY <2>1, <2>2
<1>7. ASSUME NEW n \in Walked(h)
      PROVE  LET g == PrefixOf(h, n) IN
             \/ chunks[g].parent = Root /\ chunks[g].start = 0
             \/ /\ n > 1
                /\ chunks[g].parent = PrefixOf(h, n - 1)
                /\ chunks[g].start = n - 1
  <2> DEFINE g == PrefixOf(h, n)
  <2>1. g \in Cached /\ Len(g) = n /\ chunks[g].index = n - 1 /\ n \in 1..Len(h)
    BY <1>3, WalkCached
  <2>2. \/ chunks[g].parent = Root /\ chunks[g].start = 0
        \/ /\ n > 1
           /\ chunks[g].parent = PrefixOf(g, n - 1)
           /\ chunks[g].start = n - 1
    <3> HIDE DEF g
    <3>. QED  BY <2>1 DEF CacheInv, Shaped, Cached
  <2>3. n > 1 => PrefixOf(g, n - 1) = PrefixOf(h, n - 1)
    <3>1. n > 1 => n - 1 \in 1..n
      BY <2>1
    <3>. QED  BY <3>1, <2>1, <1>1, PrefixPrefix
  <2> HIDE DEF g
  <2>4. \/ chunks[g].parent = Root /\ chunks[g].start = 0
        \/ /\ n > 1
           /\ chunks[g].parent = PrefixOf(h, n - 1)
           /\ chunks[g].start = n - 1
    BY <2>2, <2>3
  <2>. QED  BY <2>4 DEF g
<1>8. chunks[PrefixOf(h, b)].start = 0
  <2> SUFFICES ASSUME chunks[PrefixOf(h, b)].start # 0 PROVE FALSE
    OBVIOUS
  <2>1. b > 1 /\ chunks[PrefixOf(h, b)].parent = PrefixOf(h, b - 1)
    BY <1>7
  <2>2. b - 1 \in 1..Len(h) /\ b - 1 < b
    BY <2>1, <1>5, <1>2
  <2>3. ASSUME NEW i \in ((b - 1) + 1)..Len(h)
        PROVE  /\ PrefixOf(h, i) \in Cached
               /\ chunks[PrefixOf(h, i)].parent = PrefixOf(h, i - 1)
    <3>1. CASE i = b
      BY <3>1, <2>1, WalkCached
    <3>2. CASE i # b
      <4>1. i \in (b + 1)..Len(h)
        BY <3>2, <1>5, <1>2
      <4>. QED  BY <4>1 DEF Walked
    <3>. QED  BY <3>1, <3>2
  <2>4. b - 1 \in Walked(h)
    BY <2>2, <2>3 DEF Walked
  <2>. QED  BY <2>4, <2>2, <1>4, <1>5
<1>9. ASSUME NEW n \in (b + 1)..Len(h)
      PROVE  chunks[PrefixOf(h, n)].start = n - 1
  <2>1. n \in Walked(h) /\ n \in 1..Len(h) /\ n > 1
    BY <1>5, <1>6, <1>2
  <2>2. chunks[PrefixOf(h, n)].parent = PrefixOf(h, n - 1)
    BY <1>4, <1>5 DEF Walked
  <2>3. PrefixOf(h, n - 1) # Root
    <3>1. n - 1 \in 1..Len(h)
      BY <2>1
    <3>2. Len(PrefixOf(h, n - 1)) = n - 1
      BY <3>1, <1>1, PrefixType
    <3>. QED  BY <3>2, <2>1 DEF Root
  <2>. QED  BY <2>1, <2>2, <2>3, <1>7
<1>. QED  BY <1>5, <1>6, <1>8, <1>9

\* In a state of the strengthened invariant every restore chain is whole.
LEMMA CacheInvRestoreIsWhole == CacheInv => RestoreIsWhole
<1> SUFFICES ASSUME CacheInv, NEW h \in Cached
             PROVE  /\ RestoreChain(h) \subseteq Cached
                    /\ \A pos \in 0..chunks[h].index :
                          \E g \in RestoreChain(h) :
                             /\ pos \in chunks[g].start..chunks[g].index
                             /\ \A f \in RestoreChain(h) \ {g} :
                                    pos \notin chunks[f].start..chunks[f].index
  BY DEF RestoreIsWhole
<1>1. RestoreChain(h) = {PrefixOf(h, n) : n \in Walked(h)}
  BY DEF RestoreChain, Walked
<1>2. RestoreChain(h) \subseteq Cached
  BY <1>1, WalkCached
<1>3. h \in Hashes /\ chunks[h].index = Len(h) - 1 /\ Len(h) \in Nat
  BY WalkCached, PathType DEF CacheInv, Shaped, Cached
<1>4. PICK b \in 1..Len(h) :
          /\ Walked(h) = b..Len(h)
          /\ chunks[PrefixOf(h, b)].start = 0
          /\ \A n \in (b + 1)..Len(h) : chunks[PrefixOf(h, n)].start = n - 1
  BY WalkShape
<1>5. \A n \in b..Len(h) : chunks[PrefixOf(h, n)].index = n - 1
  <2>1. \A n \in Walked(h) : chunks[PrefixOf(h, n)].index = n - 1
    BY WalkCached
  <2> QED BY <1>4, <2>1
<1>6. ASSUME NEW pos \in 0..chunks[h].index
      PROVE  \E g \in RestoreChain(h) :
                /\ pos \in chunks[g].start..chunks[g].index
                /\ \A f \in RestoreChain(h) \ {g} :
                       pos \notin chunks[f].start..chunks[f].index
  <2> DEFINE owner == IF pos < b THEN b ELSE pos + 1
             g == PrefixOf(h, owner)
  <2>1. pos \in Nat /\ pos < Len(h) /\ owner \in b..Len(h)
    BY <1>3, <1>4
  <2>2. pos \in chunks[g].start..chunks[g].index
    <3>1. CASE pos < b
      BY <3>1, <2>1, <1>4, <1>5
    <3>2. CASE ~(pos < b)
      <4>1. pos + 1 \in (b + 1)..Len(h) /\ owner = pos + 1 /\ (pos + 1) - 1 = pos
        BY <3>2, <2>1, <1>4
      <4>2. chunks[g].start = pos /\ chunks[g].index = pos
        BY <4>1, <1>4, <1>5
      <4>. QED  BY <4>2, <2>1
    <3>. QED  BY <3>1, <3>2
  <2> HIDE DEF owner
  <2>3. ASSUME NEW n \in b..Len(h), n # owner
        PROVE  pos \notin chunks[PrefixOf(h, n)].start..chunks[PrefixOf(h, n)].index
    <3>1. CASE n = b
      <4>1. pos > b - 1
        BY <3>1, <2>3, <2>1, <1>4 DEF owner
      <4>. QED  BY <3>1, <4>1, <1>4, <1>5, <2>1
    <3>2. CASE n # b
      <4>1. n \in (b + 1)..Len(h) /\ pos # n - 1
        BY <3>2, <2>3, <2>1, <1>4 DEF owner
      <4>2. chunks[PrefixOf(h, n)].start = n - 1 /\ chunks[PrefixOf(h, n)].index = n - 1
        BY <4>1, <1>4, <1>5, <2>3
      <4>. QED  BY <4>1, <4>2, <2>1
    <3>. QED  BY <3>1, <3>2
  <2>4. g \in RestoreChain(h)
    BY <2>1, <1>1, <1>4
  <2>5. \A f \in RestoreChain(h) \ {g} : pos \notin chunks[f].start..chunks[f].index
    BY <1>1, <1>4, <2>3
  <2>. QED  BY <2>2, <2>4, <2>5
<1>. QED  BY <1>2, <1>6

----------------------------------------------------------------------------
(* The properties the runs of MCPrefixCache check, for every instance.     *)

\* The fields of the cache keep their types: memory in particular never
\* becomes negative and every key is a path of at most MaxDepth chunks.
THEOREM TypeCorrect == Spec => []TypeOK
<1>1. CacheInv => TypeOK
  <2> SUFFICES ASSUME CacheInv PROVE TypeOK
    OBVIOUS
  <2>1. memory \in Nat
    BY BytesOfType DEF CacheInv, Cached
  <2>. QED  BY <2>1 DEF CacheInv, TypeOK, WellFormed, Listed, Cached
<1>. QED  BY <1>1, CacheInvariant, PTL

\* No entry ever outlives the entry its parent_hash names.
THEOREM ParentsStay == Spec => []ParentClosed
<1>1. CacheInv => ParentClosed
  BY DEF CacheInv, ParentsAbove, ParentClosed, Cached
<1>. QED  BY <1>1, CacheInvariant, PTL

\* A restore from any entry writes every position below its end exactly once,
\* from entries that are all present.
THEOREM RestoresWhole == Spec => []RestoreIsWhole
  BY CacheInvRestoreIsWhole, CacheInvariant, PTL

\* The LRU list and the running byte total never drift from the map.
THEOREM BookkeepingStaysExact == Spec => []BookkeepingExact
<1>1. CacheInv => BookkeepingExact
  BY DEF CacheInv, Listed, BookkeepingExact, Cached
<1>. QED  BY <1>1, CacheInvariant, PTL

\* The limits on entries and on bytes hold whenever an operation has returned.
THEOREM StaysWithinBudget == Spec => []WithinBudget
<1>1. CacheInv => WithinBudget
  BY DEF CacheInv, WithinBudget
<1>. QED  BY <1>1, CacheInvariant, PTL

\* What one run of the eviction loops removes lies at least as deep as
\* everything it leaves.
LEMMA EvictToTails ==
    ASSUME NEW cs, NEW order, NEW mem, NEW len, NEW target,
           WellFormed(cs), EvictTo(cs, order, mem, len, target),
           NEW gone \in DOMAIN cs \ Cached', NEW kept \in Cached'
    PROVE  chunks'[kept].index <= cs[gone].index
<1>1. PICK out \in SUBSET DOMAIN cs :
          /\ EvictedFirst(cs, order, out)
          /\ chunks' = [h \in DOMAIN cs \ out |-> cs[h]]
  BY DEF EvictTo
<1>2. gone \in out /\ kept \in DOMAIN cs \ out /\ chunks'[kept] = cs[kept]
  BY <1>1 DEF Cached
<1>3. Precedes(cs, order, gone, kept)
  BY <1>1, <1>2 DEF EvictedFirst
<1>4. cs[gone].index \in Int /\ cs[kept].index \in Int
  BY <1>2, SizesAssumption DEF WellFormed, Entry
<1>. QED  BY <1>2, <1>3, <1>4 DEF Precedes

\* What insert_node removes lies at least as deep as what it leaves.
LEMMA InsertNodeTails ==
    ASSUME CacheInv,
           NEW prev \in Hashes \cup {Root}, Len(prev) < MaxDepth,
           NEW c \in Chunks, NEW state \in States,
           NEW start \in 0..(MaxDepth - 1), NEW parent \in Hashes \cup {Root},
           InsertNode(prev, c, Len(prev), state, start, parent),
           NEW gone \in Cached \ Cached', NEW kept \in Cached'
    PROVE  chunks'[kept].index <= chunks[gone].index
<1> DEFINE hash == ChunkHash(prev, c)
           node == [index |-> Len(prev), parent |-> parent, start |-> start,
                    state |-> state]
           cs == [h \in Cached \cup {hash} |-> IF h = hash THEN node ELSE chunks[h]]
<1>1. hash \notin Cached
  BY DEF InsertNode, Cached
<1>2. node \in Entry /\ hash \in Hashes
  BY HashType DEF Entry
<1>3. WellFormed(cs)
  BY <1>1, <1>2, FS_AddElement DEF WellFormed, CacheInv, Cached
<1>4. EvictTo(cs, Append(lru, hash), memory + Bytes(state), MaxChunks, MaxBytes)
  BY <1>1 DEF InsertNode
<1>5. gone \in DOMAIN cs \ Cached' /\ cs[gone] = chunks[gone]
  BY <1>1
<1> HIDE DEF cs, node, hash
<1>. QED  BY <1>3, <1>4, <1>5, EvictToTails

\* A step that evicts entries leaves nothing deeper than them behind.
THEOREM TailsGoFirst == Spec => TailsFirst
<1>1. CacheInv /\ [Next]_vars =>
          [\A gone \in Cached \ Cached', kept \in Cached' :
              chunks'[kept].index <= chunks[gone].index]_vars
  <2> SUFFICES ASSUME CacheInv, Next,
                      NEW gone \in Cached \ Cached', NEW kept \in Cached'
               PROVE  chunks'[kept].index <= chunks[gone].index
    OBVIOUS
  <2>1. ASSUME NEW prev \in Hashes \cup {Root}, NEW c \in Chunks, NEW state \in States,
               Len(prev) < MaxDepth,
               \/ InsertDeltaChunk(prev, c, Len(prev), state)
               \/ InsertChunk(prev, c, Len(prev), state)
        PROVE  chunks'[kept].index <= chunks[gone].index
    <3>1. Len(prev) \in 0..(MaxDepth - 1) /\ 0 \in 0..(MaxDepth - 1)
      BY <2>1, HashType, SizesAssumption
    <3>2. CASE InsertNode(prev, c, Len(prev), state, Len(prev), prev)
      BY <3>1, <3>2, <2>1, InsertNodeTails
    <3>3. CASE InsertNode(prev, c, Len(prev), state, 0, Root)
      BY <3>1, <3>3, <2>1, InsertNodeTails
    <3>. QED  BY <2>1, <3>2, <3>3 DEF InsertDeltaChunk, InsertChunk
  <2>2. ASSUME NEW path \in Hashes, RestoreLongestPrefix(path) PROVE FALSE
    BY <2>2 DEF RestoreLongestPrefix, Cached
  <2>3. ASSUME NEW target \in 0..MaxBytes, PruneToBytes(target)
        PROVE  chunks'[kept].index <= chunks[gone].index
    <3>1. WellFormed(chunks) /\ gone \in DOMAIN chunks \ Cached'
      BY DEF CacheInv, Cached
    <3>2. EvictTo(chunks, lru, memory, Cardinality(Cached), target)
      BY <2>3 DEF PruneToBytes
    <3>. QED  BY <3>1, <3>2, EvictToTails
  <2>4. ASSUME Clear PROVE FALSE
    BY <2>4 DEF Clear, Cached
  <2>. QED  BY <2>1, <2>2, <2>3, <2>4 DEF Next
<1>. QED  BY <1>1, CacheInvariant, PTL DEF Spec, TailsFirst

============================================================================
