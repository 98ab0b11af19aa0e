-------------------------- MODULE InferenceProofs --------------------------
(***************************************************************************)
(* Theorems about one model serving requests one after another, for every  *)
(* vocabulary, every size of chunks and tiles, any prompts and any limits  *)
(* of the prefix cache.                                                    *)
(***************************************************************************)
EXTENDS Inference, FiniteSetTheorems, SequenceTheorems, TLAPS

\* The theorems about the prefix cache, whose definitions are those of Cache.
P == INSTANCE PrefixCacheProofs WITH
    Chunks <- [1..ChunkSize -> Tokens],
    MaxDepth <- MaxPrompt \div ChunkSize + 1,
    States <- Snapshots,
    Bytes <- LAMBDA s : 1,
    MaxChunks <- MaxCached

LEMMA Division ==
    ASSUME NEW d \in Nat \ {0}, NEW n \in Nat
    PROVE  /\ n \div d \in Nat /\ n % d \in 0..(d - 1)
           /\ n = (n \div d) * d + (n % d)
OBVIOUS

LEMMA Quotient ==
    ASSUME NEW d \in Nat \ {0}, NEW q \in Nat, NEW r \in 0..(d - 1)
    PROVE  (q * d + r) \div d = q /\ (q * d + r) % d = r
OBVIOUS

LEMMA Assumed == P!SizesAssumption /\ P!BytesAssumption
<1>1. MaxPrompt \div ChunkSize \in Nat
  BY LengthsAssumption, Division
<1> QED BY <1>1, LengthsAssumption DEF P!SizesAssumption, P!BytesAssumption

LEMMA SameCardinality ==
    ASSUME NEW S
    PROVE  Cache!Cardinality(S) = Cardinality(S) /\ P!Cardinality(S) = Cardinality(S)
BY DEF Cache!Cardinality, P!Cardinality, Cardinality

LEMMA BytesAreEntries ==
    ASSUME NEW cs, NEW hs
    PROVE  /\ Cache!BytesOf(cs, hs) = Cardinality(UNION {{h} \X (1..1) : h \in hs})
           /\ P!BytesOf(cs, hs) = Cardinality(UNION {{h} \X (1..1) : h \in hs})
BY SameCardinality DEF Cache!BytesOf, Cache!ByteSlots, P!BytesOf, P!ByteSlots

LEMMA SameEvictTo ==
    ASSUME NEW cs, NEW order, NEW mem, NEW len, NEW target
    PROVE  Cache!EvictTo(cs, order, mem, len, target) <=> P!EvictTo(cs, order, mem, len, target)
<1>1. \A out : Cache!BytesOf(cs, out) = P!BytesOf(cs, out)
  BY BytesAreEntries
<1>2. \A out : Cache!EvictedFirst(cs, order, out) <=> P!EvictedFirst(cs, order, out)
  BY DEF Cache!EvictedFirst, P!EvictedFirst, Cache!Precedes, P!Precedes, Cache!Position, P!Position
<1>3. \A out : Cache!Fits(cs, mem, out, len, target) <=> P!Fits(cs, mem, out, len, target)
  BY <1>1, SameCardinality DEF Cache!Fits, P!Fits, Cache!Monus, P!Monus
<1>4. \A out : Cache!Without(order, out) = P!Without(order, out)
  BY DEF Cache!Without, P!Without
<1>5. \A m, n : Cache!Monus(m, n) = P!Monus(m, n)
  BY DEF Cache!Monus, P!Monus
<1> QED
  BY <1>1, <1>2, <1>3, <1>4, <1>5, Zenon DEF Cache!EvictTo, P!EvictTo

LEMMA SameTouch ==
    ASSUME NEW order, NEW h
    PROVE  Cache!Touch(order, h) = P!Touch(order, h)
BY DEF Cache!Touch, P!Touch, Cache!Without, P!Without, Cache!Contains, P!Contains

LEMMA SameInsert ==
    ASSUME NEW prev, NEW c, NEW index, NEW s
    PROVE  Cache!InsertDeltaChunk(prev, c, index, s) <=> P!InsertDeltaChunk(prev, c, index, s)
BY SameEvictTo, SameTouch
DEF Cache!InsertDeltaChunk, P!InsertDeltaChunk, Cache!InsertNode, P!InsertNode,
    Cache!ChunkHash, P!ChunkHash, Cache!Cached, P!Cached, Cache!Root, P!Root

----------------------------------------------------------------------------
(* Beginnings of sequences, and the chunks they fill.                      *)

Contents == [1..ChunkSize -> Tokens]

\* The beginning of a sequence.
LEMMA TakeType ==
    ASSUME NEW S, NEW s \in Seq(S), NEW n \in 0..Len(s)
    PROVE  /\ Take(s, n) \in Seq(S) /\ Len(Take(s, n)) = n
           /\ \A i \in 1..n : Take(s, n)[i] = s[i]
<1>1. Len(s) \in Nat /\ \A i \in 1..n : s[i] \in S
  BY LenProperties, ElementOfSeq
<1> QED BY <1>1, SubSeqProperties DEF Take

\* The beginning of a beginning.
LEMMA TakeTake ==
    ASSUME NEW S, NEW s \in Seq(S), NEW m \in 0..Len(s), NEW n \in 0..m
    PROVE  Take(Take(s, m), n) = Take(s, n)
<1>1. n \in 0..Len(s) /\ Len(s) \in Nat
  BY LenProperties
<1> DEFINE b == Take(s, m)
<1>2. b \in Seq(S) /\ Len(b) = m /\ \A i \in 1..m : b[i] = s[i]
  BY TakeType
<1> HIDE DEF b
<1>3. Take(b, n) \in Seq(S) /\ Len(Take(b, n)) = n /\ \A i \in 1..n : Take(b, n)[i] = b[i]
  BY <1>2, TakeType
<1>4. Take(s, n) \in Seq(S) /\ Len(Take(s, n)) = n /\ \A i \in 1..n : Take(s, n)[i] = s[i]
  BY <1>1, TakeType
<1>5. Take(b, n) = Take(s, n)
  <2>1. \A i \in 1..n : i \in 1..m
    BY <1>1
  <2> QED BY <1>2, <1>3, <1>4, <2>1, SeqEqual
<1> QED BY <1>5 DEF b

\* The whole of a sequence.
LEMMA TakeAll ==
    ASSUME NEW S, NEW s \in Seq(S)
    PROVE  Take(s, Len(s)) = s
BY SubSeqFull DEF Take

\* The beginning of a longer sequence.
LEMMA TakeOfBoth ==
    ASSUME NEW S, NEW s \in Seq(S), NEW t \in Seq(S), NEW n \in 0..Len(s)
    PROVE  Take(s \o t, n) = Take(s, n)
<1> DEFINE b == s \o t
<1>1. b \in Seq(S) /\ Len(b) = Len(s) + Len(t) /\ Len(s) \in Nat /\ Len(t) \in Nat
  BY ConcatProperties, LenProperties
<1>2. \A i \in 1..Len(s) : b[i] = s[i]
  BY <1>1, ConcatProperties
<1> HIDE DEF b
<1>3. Take(b, n) \in Seq(S) /\ Len(Take(b, n)) = n /\ \A i \in 1..n : Take(b, n)[i] = b[i]
  <2>1. n \in 0..Len(b)
    BY <1>1
  <2> QED BY <1>1, <2>1, TakeType
<1>4. Take(s, n) \in Seq(S) /\ Len(Take(s, n)) = n /\ \A i \in 1..n : Take(s, n)[i] = s[i]
  BY TakeType
<1>5. Take(b, n) = Take(s, n)
  <2>1. \A i \in 1..n : i \in 1..Len(s)
    BY <1>1
  <2> QED BY <1>2, <1>3, <1>4, <2>1, SeqEqual
<1> QED BY <1>5 DEF b

\* A beginning that reaches into the second of two sequences.
LEMMA TakeBeyond ==
    ASSUME NEW S, NEW s \in Seq(S), NEW t \in Seq(S), NEW k \in 0..Len(t)
    PROVE  s \o Take(t, k) = Take(s \o t, Len(s) + k)
<1> DEFINE b == s \o t
           u == Take(t, k)
<1>1. b \in Seq(S) /\ Len(b) = Len(s) + Len(t) /\ Len(s) \in Nat /\ Len(t) \in Nat
  BY ConcatProperties, LenProperties
<1>2. \A i \in 1..Len(b) : b[i] = IF i <= Len(s) THEN s[i] ELSE t[i - Len(s)]
  BY <1>1, ConcatProperties
<1>3. u \in Seq(S) /\ Len(u) = k /\ \A i \in 1..k : u[i] = t[i]
  BY TakeType
<1> HIDE DEF b, u
<1> DEFINE c == s \o u
           d == Take(b, Len(s) + k)
<1>4. c \in Seq(S) /\ Len(c) = Len(s) + k
      /\ \A i \in 1..(Len(s) + k) : c[i] = IF i <= Len(s) THEN s[i] ELSE u[i - Len(s)]
  BY <1>3, ConcatProperties
<1>5. d \in Seq(S) /\ Len(d) = Len(s) + k /\ \A i \in 1..(Len(s) + k) : d[i] = b[i]
  <2>1. Len(s) + k \in 0..Len(b)
    BY <1>1
  <2> QED BY <1>1, <2>1, TakeType
<1> HIDE DEF c, d
<1>6. ASSUME NEW i \in 1..(Len(s) + k) PROVE c[i] = d[i]
  <2>1. i \in 1..Len(b)
    BY <1>1
  <2>2. d[i] = IF i <= Len(s) THEN s[i] ELSE t[i - Len(s)]
    BY <1>2, <1>5, <2>1
  <2>3. CASE i <= Len(s)
    BY <1>4, <2>2, <2>3
  <2>4. CASE ~(i <= Len(s))
    <3>1. i - Len(s) \in 1..k
      BY <1>1, <2>4
    <3>2. c[i] = u[i - Len(s)]
      BY <1>4, <2>4
    <3> QED BY <1>3, <2>2, <2>4, <3>1, <3>2
  <2> QED BY <2>3, <2>4
<1>7. c = d
  BY <1>4, <1>5, <1>6, SeqEqual
<1> QED BY <1>7 DEF b, c, d, u

\* A beginning goes on with the tokens after it.
LEMMA TakeFurther ==
    ASSUME NEW S, NEW s \in Seq(S), NEW m \in 0..Len(s), NEW n \in m..Len(s)
    PROVE  /\ SubSeq(s, m + 1, n) \in Seq(S)
           /\ Len(SubSeq(s, m + 1, n)) = n - m
           /\ Take(s, m) \o SubSeq(s, m + 1, n) = Take(s, n)
<1>1. Len(s) \in Nat /\ \A i \in (m + 1)..n : s[i] \in S
  BY LenProperties, ElementOfSeq
<1>2. SubSeq(s, m + 1, n) \in Seq(S) /\ Len(SubSeq(s, m + 1, n)) = n - m
  BY <1>1, SubSeqProperties
<1>3. 1 \in 1..(Len(s) + 1) /\ m \in (1 - 1)..Len(s)
  BY <1>1
<1>4. SubSeq(s, 1, m) \o SubSeq(s, m + 1, n) = SubSeq(s, 1, n)
  BY <1>1, <1>3, ConcatAdjacentSubSeq
<1> QED BY <1>2, <1>4 DEF Take

\* Chunks have a size.
LEMMA ChunkBounds ==
    ASSUME NEW n \in Nat, NEW q \in 0..(n \div ChunkSize)
    PROVE  q * ChunkSize \in 0..n /\ q \in Nat
<1>1. ChunkSize \in Nat \ {0}
  BY LengthsAssumption
<1>2. n \div ChunkSize \in Nat /\ n % ChunkSize \in 0..(ChunkSize - 1)
      /\ n = (n \div ChunkSize) * ChunkSize + (n % ChunkSize)
  BY <1>1, Division
<1> DEFINE d == n \div ChunkSize
<1>3. d \in Nat /\ d * ChunkSize <= n
  BY <1>1, <1>2
<1> HIDE DEF d
<1>4. q \in 0..d
  BY DEF d
<1>5. q * ChunkSize <= d * ChunkSize /\ q * ChunkSize \in Nat
  BY <1>1, <1>3, <1>4
<1> QED BY <1>1, <1>3, <1>4, <1>5

\* The first q chunks of a sequence.
FirstChunks(tokens, q) == [i \in 1..q |-> ChunkAt(tokens, i)]

\* A chunk within a sequence.
LEMMA ChunkType ==
    ASSUME NEW s \in Seq(Tokens), NEW j \in 1..(Len(s) \div ChunkSize)
    PROVE  /\ ChunkAt(s, j) \in Contents
           /\ \A k \in 1..ChunkSize :
                 /\ (j - 1) * ChunkSize + k \in 1..(j * ChunkSize)
                 /\ ChunkAt(s, j)[k] = s[(j - 1) * ChunkSize + k]
           /\ j * ChunkSize \in 0..Len(s)
<1>1. ChunkSize \in Nat \ {0} /\ Len(s) \in Nat
  BY LengthsAssumption, LenProperties
<1>2. j \in 0..(Len(s) \div ChunkSize)
  OBVIOUS
<1>3. j * ChunkSize \in 0..Len(s) /\ j \in Nat \ {0}
  BY <1>1, <1>2, ChunkBounds
<1> DEFINE a == (j - 1) * ChunkSize
           b == j * ChunkSize
<1>4. a \in Nat /\ b = a + ChunkSize
  BY <1>1, <1>3
<1>5. b \in 0..Len(s) /\ ChunkAt(s, j) = SubSeq(s, a + 1, b)
  BY <1>3 DEF ChunkAt
<1> HIDE DEF a, b
<1>6. \A i \in (a + 1)..b : s[i] \in Tokens
  <2>1. \A i \in (a + 1)..b : i \in 1..Len(s)
    BY <1>1, <1>4, <1>5
  <2> QED BY <2>1, ElementOfSeq
<1> DEFINE c == SubSeq(s, a + 1, b)
<1>7. c \in Seq(Tokens) /\ Len(c) = ChunkSize
      /\ \A k \in 1..ChunkSize : c[k] = s[a + k]
  <2>1. a + 1 \in Int /\ b \in Int /\ b - (a + 1) + 1 = ChunkSize /\ a + 1 <= b
    BY <1>1, <1>4
  <2>2. c \in Seq(Tokens)
        /\ Len(c) = (IF a + 1 <= b THEN b - (a + 1) + 1 ELSE 0)
        /\ \A k \in 1..(b - (a + 1) + 1) : c[k] = s[(a + 1) + k - 1]
    BY <1>6, <2>1, SubSeqProperties
  <2>3. \A k \in 1..ChunkSize : (a + 1) + k - 1 = a + k
    BY <1>4
  <2> QED BY <2>1, <2>2, <2>3
<1> HIDE DEF c
<1>8. c \in Contents
  BY <1>7, LenProperties DEF Contents
<1>9. \A k \in 1..ChunkSize : a + k \in 1..b
  BY <1>1, <1>4
<1> QED BY <1>3, <1>5, <1>7, <1>8, <1>9 DEF a, b, c

\* The chunks of a sequence make a path.
LEMMA FirstChunksType ==
    ASSUME NEW s \in Seq(Tokens), NEW q \in 0..(Len(s) \div ChunkSize)
    PROVE  /\ FirstChunks(s, q) \in Seq(Contents) /\ Len(FirstChunks(s, q)) = q
           /\ \A j \in 1..q : FirstChunks(s, q)[j] = ChunkAt(s, j)
<1>1. q \in Nat /\ \A j \in 1..q : j \in 1..(Len(s) \div ChunkSize)
  <2>1. Len(s) \in Nat /\ Len(s) \div ChunkSize \in Nat
    BY LenProperties, LengthsAssumption, Division
  <2> QED BY <2>1
<1>2. \A j \in 1..q : ChunkAt(s, j) \in Contents
  BY <1>1, ChunkType
<1>3. FirstChunks(s, q) \in [1..q -> Contents]
  BY <1>2 DEF FirstChunks
<1>4. FirstChunks(s, q) \in Seq(Contents)
  BY <1>1, <1>3, SeqDef
<1>5. Len(FirstChunks(s, q)) = q
  BY <1>1, <1>3, <1>4, LenProperties
<1> QED BY <1>4, <1>5 DEF FirstChunks

\* Only the tokens within them matter to chunks.
LEMMA ChunksOfTake ==
    ASSUME NEW s \in Seq(Tokens), NEW m \in 0..Len(s), NEW q \in 0..(m \div ChunkSize)
    PROVE  FirstChunks(Take(s, m), q) = FirstChunks(s, q)
<1>1. ChunkSize \in Nat \ {0} /\ Len(s) \in Nat /\ m \in Nat
  BY LengthsAssumption, LenProperties
<1> DEFINE b == Take(s, m)
<1>2. b \in Seq(Tokens) /\ Len(b) = m /\ \A i \in 1..m : b[i] = s[i]
  BY TakeType
<1> HIDE DEF b
<1>3. q * ChunkSize \in 0..m /\ q \in Nat
  BY <1>1, ChunkBounds
<1>4. ASSUME NEW j \in 1..q PROVE ChunkAt(b, j) = ChunkAt(s, j)
  <2>1. j \in 0..(m \div ChunkSize) /\ j \in Nat \ {0}
    <3>1. m \div ChunkSize \in Nat
      BY <1>1, Division
    <3> QED BY <1>3, <3>1
  <2>2. j * ChunkSize \in 0..m
    BY <1>1, <2>1, ChunkBounds
  <2> DEFINE x == (j - 1) * ChunkSize
             y == j * ChunkSize
  <2>3. x \in Nat /\ y = x + ChunkSize /\ y \in 0..m
    BY <1>1, <2>1, <2>2
  <2> HIDE DEF x, y
  <2>4. SubSeq(b, x + 1, y) = SubSeq(s, x + 1, y)
    <3>1. \A i \in (x + 1)..y : i \in 1..m /\ i \in 1..Len(s) /\ b[i] = s[i] /\ s[i] \in Tokens
      BY <1>1, <1>2, <2>3, ElementOfSeq
    <3> DEFINE u == SubSeq(b, x + 1, y)
               v == SubSeq(s, x + 1, y)
               n == IF x + 1 <= y THEN y - (x + 1) + 1 ELSE 0
    <3>2. u \in Seq(Tokens) /\ Len(u) = n
          /\ \A k \in 1..(y - (x + 1) + 1) : u[k] = b[(x + 1) + k - 1]
      BY <2>3, <3>1, SubSeqProperties
    <3>3. v \in Seq(Tokens) /\ Len(v) = n
          /\ \A k \in 1..(y - (x + 1) + 1) : v[k] = s[(x + 1) + k - 1]
      BY <2>3, <3>1, SubSeqProperties
    <3>4. n = y - (x + 1) + 1 /\ n \in Nat
      BY <1>1, <2>3
    <3>5. \A k \in 1..(y - (x + 1) + 1) : (x + 1) + k - 1 \in (x + 1)..y
      BY <2>3
    <3> HIDE DEF u, v, n
    <3>6. \A k \in 1..n : u[k] = v[k]
      BY <3>1, <3>2, <3>3, <3>4, <3>5
    <3>7. u = v
      BY <3>2, <3>3, <3>6, SeqEqual
    <3> QED BY <3>7 DEF u, v
  <2> QED BY <2>4 DEF ChunkAt, x, y
<1> QED BY <1>4 DEF FirstChunks, b

\* A path is as long as the chunks it was made of.
LEMMA ChunksOfChunks ==
    ASSUME NEW s \in Seq(Tokens), NEW q \in 0..(Len(s) \div ChunkSize), NEW n \in 0..q
    PROVE  SubSeq(FirstChunks(s, q), 1, n) = FirstChunks(s, n)
<1>1. Len(s) \div ChunkSize \in Nat
  BY LenProperties, LengthsAssumption, Division
<1>2. n \in 0..(Len(s) \div ChunkSize) /\ q \in Nat /\ n \in Nat
  BY <1>1
<1> DEFINE f == FirstChunks(s, q)
           g == FirstChunks(s, n)
<1>3. f \in Seq(Contents) /\ Len(f) = q /\ \A j \in 1..q : f[j] = ChunkAt(s, j)
  BY FirstChunksType
<1>4. g \in Seq(Contents) /\ Len(g) = n /\ \A j \in 1..n : g[j] = ChunkAt(s, j)
  BY <1>2, FirstChunksType
<1> HIDE DEF f, g
<1>5. Take(f, n) \in Seq(Contents) /\ Len(Take(f, n)) = n /\ \A j \in 1..n : Take(f, n)[j] = f[j]
  BY <1>2, <1>3, TakeType
<1>6. \A j \in 1..n : j \in 1..q
  BY <1>2
<1>7. Take(f, n) = g
  BY <1>3, <1>4, <1>5, <1>6, SeqEqual
<1> QED BY <1>7 DEF Take, f, g

\* One more chunk.
LEMMA ChunksGrow ==
    ASSUME NEW s \in Seq(Tokens), NEW q \in Nat, q + 1 <= Len(s) \div ChunkSize
    PROVE  Append(FirstChunks(s, q), ChunkAt(s, q + 1)) = FirstChunks(s, q + 1)
<1>1. Len(s) \div ChunkSize \in Nat
  BY LenProperties, LengthsAssumption, Division
<1>2. /\ q \in 0..(Len(s) \div ChunkSize) /\ q + 1 \in 0..(Len(s) \div ChunkSize)
      /\ q + 1 \in 1..(Len(s) \div ChunkSize)
  BY <1>1
<1> DEFINE f == FirstChunks(s, q)
           g == FirstChunks(s, q + 1)
           c == ChunkAt(s, q + 1)
<1>3. f \in Seq(Contents) /\ Len(f) = q /\ \A j \in 1..q : f[j] = ChunkAt(s, j)
  BY <1>2, FirstChunksType
<1>4. g \in Seq(Contents) /\ Len(g) = q + 1 /\ \A j \in 1..(q + 1) : g[j] = ChunkAt(s, j)
  BY <1>2, FirstChunksType
<1>5. c \in Contents
  BY <1>2, ChunkType
<1>6. g[q + 1] = c
  BY <1>4
<1> HIDE DEF f, g, c
<1> DEFINE h == Append(f, c)
<1>7. /\ h \in Seq(Contents) /\ Len(h) = q + 1
      /\ \A j \in 1..q : h[j] = f[j] /\ h[q + 1] = c
  BY <1>3, <1>5, AppendProperties
<1>8. h[q + 1] = c
  BY <1>3, <1>5, AppendProperties
<1> HIDE DEF h
<1>9. \A j \in 1..(q + 1) : j \in 1..q \/ j = q + 1
  OBVIOUS
<1>10. \A j \in 1..(q + 1) : h[j] = g[j]
  BY <1>3, <1>4, <1>6, <1>7, <1>8, <1>9
<1>11. h = g
  BY <1>4, <1>7, <1>10, SeqEqual
<1> QED BY <1>11 DEF f, g, c, h

\* The tokens of the first chunks.
LEMMA TokensOfChunks ==
    ASSUME NEW s \in Seq(Tokens), NEW q \in 0..(Len(s) \div ChunkSize)
    PROVE  TokensOf(FirstChunks(s, q)) = Take(s, q * ChunkSize)
<1>1. ChunkSize \in Nat \ {0} /\ Len(s) \in Nat /\ Len(s) \div ChunkSize \in Nat
  BY LengthsAssumption, LenProperties, Division
<1>2. q * ChunkSize \in 0..Len(s) /\ q \in Nat
  BY <1>1, ChunkBounds
<1> DEFINE n == q * ChunkSize
           f == FirstChunks(s, q)
           b == Take(s, n)
<1>3. n \in 0..Len(s) /\ n \in Nat
  BY <1>1, <1>2
<1>4. f \in Seq(Contents) /\ Len(f) = q /\ \A j \in 1..q : f[j] = ChunkAt(s, j)
  BY FirstChunksType
<1>5. b \in Seq(Tokens) /\ Len(b) = n /\ \A i \in 1..n : b[i] = s[i]
  BY <1>3, TakeType
<1>6. ASSUME NEW i \in 1..n
      PROVE  f[((i - 1) \div ChunkSize) + 1][((i - 1) % ChunkSize) + 1] = s[i]
  <2> DEFINE j == (i - 1) \div ChunkSize
             k == (i - 1) % ChunkSize
  <2>1. i - 1 \in Nat /\ i - 1 < n
    BY <1>3
  <2>2. j \in Nat /\ k \in 0..(ChunkSize - 1) /\ i - 1 = j * ChunkSize + k
    BY <1>1, <2>1, Division
  <2> HIDE DEF j, k
  <2>3. j * ChunkSize < q * ChunkSize
    <3>1. j * ChunkSize \in Nat
      BY <1>1, <2>2
    <3> QED BY <1>1, <2>1, <2>2, <3>1 DEF n
  <2>4. j < q
    <3>1. SUFFICES ASSUME q <= j PROVE FALSE
      BY <1>2, <2>2
    <3>2. q * ChunkSize <= j * ChunkSize
      BY <1>1, <1>2, <2>2, <3>1
    <3> QED BY <1>1, <1>2, <2>2, <2>3, <3>2
  <2>5. j + 1 \in 1..q /\ j + 1 \in 1..(Len(s) \div ChunkSize) /\ k + 1 \in 1..ChunkSize
    BY <1>1, <1>2, <2>2, <2>4
  <2>6. ChunkAt(s, j + 1)[k + 1] = s[((j + 1) - 1) * ChunkSize + (k + 1)]
    BY <2>5, ChunkType
  <2>7. ((j + 1) - 1) * ChunkSize + (k + 1) = i
    <3>1. (j + 1) - 1 = j
      BY <2>2
    <3>2. j * ChunkSize \in Nat
      BY <1>1, <2>2
    <3> QED BY <2>1, <2>2, <3>1, <3>2
  <2>8. f[j + 1][k + 1] = s[i]
    BY <1>4, <2>5, <2>6, <2>7
  <2> QED BY <2>8 DEF j, k
<1>7. TokensOf(f) = [i \in 1..n |-> s[i]]
  <2> HIDE DEF f
  <2>1. TokensOf(f) = [i \in 1..n |->
            f[((i - 1) \div ChunkSize) + 1][((i - 1) % ChunkSize) + 1]]
    BY <1>4 DEF TokensOf
  <2> QED BY <1>6, <2>1
<1>8. b = [i \in 1..n |-> s[i]]
  <2> HIDE DEF b
  <2>1. b = [i \in 1..n |-> b[i]]
    BY <1>5, LenProperties
  <2> QED BY <1>5, <2>1
<1> QED BY <1>7, <1>8

\* Quotients follow their dividends.
LEMMA QuotientGrows ==
    ASSUME NEW d \in Nat \ {0}, NEW m \in Nat, NEW n \in Nat, m <= n
    PROVE  m \div d <= n \div d
<1> DEFINE p == m \div d
           q == n \div d
<1>1. /\ p \in Nat /\ m % d \in 0..(d - 1) /\ m = p * d + (m % d)
      /\ q \in Nat /\ n % d \in 0..(d - 1) /\ n = q * d + (n % d)
  BY Division
<1> HIDE DEF p, q
<1>2. p * d \in Nat /\ q * d \in Nat /\ p * d < (q + 1) * d /\ (q + 1) * d = q * d + d
  BY <1>1
<1>3. p <= q
  <2>1. SUFFICES ASSUME q + 1 <= p PROVE FALSE
    BY <1>1
  <2>2. (q + 1) * d <= p * d
    BY <1>1, <2>1
  <2> QED BY <1>1, <1>2, <2>2
<1> QED BY <1>3 DEF p, q

\* A tile ends in the chunk it begins in, or at the end of that chunk.
LEMMA TileCompletesChunk ==
    ASSUME NEW d \in Nat \ {0}, NEW m \in Nat, NEW n \in Nat,
           m < n, n <= (m \div d + 1) * d
    PROVE  n \div d = IF n % d = 0 THEN m \div d + 1 ELSE m \div d
<1> DEFINE p == m \div d
           q == n \div d
           r == n % d
<1>1. /\ p \in Nat /\ m % d \in 0..(d - 1) /\ m = p * d + (m % d)
      /\ q \in Nat /\ r \in 0..(d - 1) /\ n = q * d + r
      /\ n <= (p + 1) * d
  BY Division
<1>2. n > p * d /\ p * d \in Nat /\ q * d \in Nat
  BY <1>1
<1> HIDE DEF p, q, r
<1>3. (p + 1) * d = p * d + d /\ (q + 1) * d = q * d + d
  BY <1>1
<1>4. q >= p
  <2>1. SUFFICES ASSUME q + 1 <= p PROVE FALSE
    BY <1>1
  <2>2. (q + 1) * d <= p * d
    BY <1>1, <2>1
  <2> QED BY <1>1, <1>2, <1>3, <2>2
<1>5. q <= p + 1
  <2>1. SUFFICES ASSUME p + 2 <= q PROVE FALSE
    BY <1>1
  <2>2. (p + 2) * d <= q * d /\ (p + 2) * d = (p + 1) * d + d
    BY <1>1, <2>1
  <2> QED BY <1>1, <1>2, <1>3, <2>2
<1>6. CASE r = 0
  <2>1. q # p
    BY <1>1, <1>2, <1>6
  <2> QED BY <1>1, <1>4, <1>5, <1>6, <2>1 DEF p, q, r
<1>7. CASE r # 0
  <2>1. q # p + 1
    BY <1>1, <1>2, <1>7
  <2> QED BY <1>1, <1>4, <1>5, <1>7, <2>1 DEF p, q, r
<1> QED BY <1>6, <1>7

\* The extremes of small sets.
LEMMA MinOfThree ==
    ASSUME NEW a \in Int, NEW b \in Int, NEW c \in Int
    PROVE  LET m == Min({a, b, c}) IN m \in {a, b, c} /\ m <= a /\ m <= b /\ m <= c
<1>1. \E m \in {a, b, c} : \A y \in {a, b, c} : m <= y
  <2>1. CASE a <= b /\ a <= c
    BY <2>1
  <2>2. CASE b <= a /\ b <= c
    BY <2>2
  <2>3. CASE c <= a /\ c <= b
    BY <2>3
  <2> QED BY <2>1, <2>2, <2>3
<1>2. Min({a, b, c}) = CHOOSE m \in {a, b, c} : \A y \in {a, b, c} : m <= y
  BY DEF Min
<1> QED BY <1>1, <1>2

LEMMA MaxOfTwo ==
    ASSUME NEW a \in Int, NEW b \in Int, a <= b
    PROVE  Max({a, b}) = b
<1>1. Max({a, b}) = CHOOSE m \in {a, b} : \A y \in {a, b} : m >= y
  BY DEF Max
<1>2. \A m \in {a, b} : (\A y \in {a, b} : m >= y) => m = b
  OBVIOUS
<1>3. b \in {a, b} /\ \A y \in {a, b} : b >= y
  OBVIOUS
<1> QED BY <1>1, <1>2, <1>3

LEMMA GreatestOf ==
    ASSUME NEW n \in Nat, NEW S \in SUBSET (0..n), S # {}
    PROVE  Max(S) \in S /\ \A m \in S : m <= Max(S)
<1>1. \A m \in S : m \in Int /\ 0 <= m /\ m <= n /\ n - m \in Nat
  <2>1. \A m \in 0..n : m \in Int /\ 0 <= m /\ m <= n /\ n - m \in Nat
    OBVIOUS
  <2> QED BY <2>1
<1> DEFINE T == {n - m : m \in S}
<1>2. T \in SUBSET Nat /\ T # {}
  BY <1>1
<1>3. \A m \in S : n - m \in T
  OBVIOUS
<1>4. \A u \in T : \E m \in S : u = n - m
  OBVIOUS
<1> HIDE DEF T
<1>5. PICK t \in T : \A u \in T : t <= u
  BY <1>2, P!LeastCounterexample, Assumed
<1>6. PICK g \in S : t = n - g
  BY <1>4
<1>7. \A m \in S : g >= m
  BY <1>1, <1>3, <1>5, <1>6
<1>8. Max(S) = CHOOSE m \in S : \A y \in S : m >= y
  BY DEF Max
<1>9. Max(S) \in S /\ \A y \in S : Max(S) >= y
  BY <1>6, <1>7, <1>8, Zenon
<1> QED BY <1>1, <1>9

\* The paths of prompts are hashes of the cache.
LEMMA PathsAreHashes ==
    ASSUME NEW s \in Seq(Tokens), Len(s) <= MaxPrompt, NEW q \in 0..(Len(s) \div ChunkSize)
    PROVE  /\ FirstChunks(s, q) \in P!Hashes \cup {P!Root}
           /\ q > 0 => FirstChunks(s, q) \in P!Hashes
           /\ q < MaxPrompt \div ChunkSize + 1
<1>1. /\ Len(s) \in Nat /\ ChunkSize \in Nat \ {0} /\ MaxPrompt \in Nat
      /\ Len(s) \div ChunkSize \in Nat /\ MaxPrompt \div ChunkSize \in Nat
  BY LenProperties, LengthsAssumption, Division
<1>2. Len(s) \div ChunkSize <= MaxPrompt \div ChunkSize
  BY <1>1, QuotientGrows
<1>3. q \in Nat /\ q < MaxPrompt \div ChunkSize + 1
  BY <1>1, <1>2
<1> DEFINE f == FirstChunks(s, q)
<1>4. f \in Seq(Contents) /\ Len(f) = q
  BY FirstChunksType
<1>5. f \in [1..q -> Contents]
  BY <1>4, LenProperties
<1> HIDE DEF f
<1>6. CASE q = 0
  BY <1>3, <1>4, <1>6, EmptySeq DEF P!Root, f
<1>7. CASE q # 0
  <2>1. q \in 1..(MaxPrompt \div ChunkSize + 1)
    BY <1>1, <1>3, <1>7
  <2>2. f \in P!Hashes
    BY <1>5, <2>1 DEF P!Hashes, Contents
  <2> QED BY <1>3, <2>2 DEF f
<1> QED BY <1>6, <1>7

----------------------------------------------------------------------------
(* The forward pass.                                                       *)

\* The cells below the position and the recurrent state are those of a run of
\* "s" from an empty context.
HoldsIn(cells, at, state, s) ==
    /\ at = Len(s)
    /\ state = s
    /\ \A i \in 0..(Len(s) - 1) : cells[i] = Take(s, i + 1)

Holds(s) == HoldsIn(kv, kvPos, ssm, s)

\* An empty context holds the empty history.
LEMMA HoldsNothing ==
    ASSUME NEW cells, NEW s \in Seq(Tokens)
    PROVE  HoldsIn(cells, 0, <<>>, Take(s, 0))
<1>1. Len(s) \in Nat
  BY LenProperties
<1>2. Take(s, 0) \in Seq(Tokens) /\ Len(Take(s, 0)) = 0
  BY <1>1, TakeType
<1>3. Take(s, 0) = <<>>
  BY <1>2, EmptySeq
<1> QED BY <1>2, <1>3 DEF HoldsIn

\* What the forward pass reads when the model holds a history.
LEMMA HeldIsSeen ==
    ASSUME NEW s \in Seq(Tokens), Holds(s)
    PROVE  Seen(Len(s)) = s /\ s # Junk
<1>1. s # Junk
  BY JunkAssumption
<1>2. \A i \in 0..(Len(s) - 1) : kv[i] = Take(ssm, i + 1)
  BY DEF Holds, HoldsIn
<1> QED BY <1>1, <1>2 DEF Seen, Holds, HoldsIn

\* The forward pass takes a model that holds "s" to one that holds "s \o t".
LEMMA ForwardHolds ==
    ASSUME NEW s \in Seq(Tokens), NEW t \in Seq(Tokens),
           Len(s) + Len(t) <= MaxSeqLen,
           Holds(s), Forward(t, Len(s))
    PROVE  /\ Holds(s \o t)'
           /\ s \o t \in Seq(Tokens)
           /\ Len(s \o t) = Len(s) + Len(t)
<1> DEFINE b == s \o t
<1>1. b \in Seq(Tokens) /\ Len(b) = Len(s) + Len(t) /\ Len(s) \in Nat /\ Len(t) \in Nat
  BY ConcatProperties, LenProperties
<1>2. Seen(Len(s)) = s /\ s # Junk
  BY HeldIsSeen
<1>3. ssm' = b
  BY <1>2 DEF Forward, Extend
<1>4. kvPos' = Len(b)
  <2>1. kvPos = Len(s)
    BY DEF Holds, HoldsIn
  <2> QED BY <1>1, <2>1, MaxOfTwo DEF Forward
<1>5. ASSUME NEW i \in 0..(Len(b) - 1)
      PROVE  kv'[i] = Take(b, i + 1)
  <2>1. i \in Positions
    BY <1>1, LengthsAssumption DEF Positions
  <2>2. CASE i < Len(s)
    <3>1. i \notin Len(s)..(Len(s) + Len(t) - 1) /\ i \in 0..(Len(s) - 1) /\ i + 1 \in 0..Len(s)
      BY <1>1, <2>2
    <3>2. kv'[i] = kv[i]
      BY <2>1, <3>1 DEF Forward
    <3>3. kv[i] = Take(s, i + 1)
      BY <3>1 DEF Holds, HoldsIn
    <3>4. Take(b, i + 1) = Take(s, i + 1)
      BY <3>1, TakeOfBoth
    <3> QED BY <3>2, <3>3, <3>4
  <2>3. CASE ~(i < Len(s))
    <3> DEFINE k == i - Len(s) + 1
    <3>1. i \in Len(s)..(Len(s) + Len(t) - 1) /\ k \in 0..Len(t) /\ Len(s) + k = i + 1
      BY <1>1, <2>3
    <3>2. kv'[i] = Extend(Seen(Len(s)), Take(t, k))
      BY <2>1, <3>1 DEF Forward
    <3>3. kv'[i] = s \o Take(t, k)
      BY <1>2, <3>2 DEF Extend
    <3> HIDE DEF k
    <3>4. s \o Take(t, k) = Take(b, Len(s) + k)
      BY <3>1, TakeBeyond
    <3> QED BY <3>1, <3>3, <3>4
  <2> QED BY <2>2, <2>3
<1>6. Holds(b)'
  <2> HIDE DEF b
  <2> QED BY <1>3, <1>4, <1>5 DEF Holds, HoldsIn
<1> QED BY <1>1, <1>6

\* One tile of a prompt.
LEMMA TileHolds ==
    ASSUME NEW s \in Seq(Tokens), NEW m \in 0..Len(s), NEW n \in m..Len(s),
           Len(s) <= MaxSeqLen,
           Holds(Take(s, m)), Forward(SubSeq(s, m + 1, n), m)
    PROVE  Holds(Take(s, n))'
<1> DEFINE b == Take(s, m)
           t == SubSeq(s, m + 1, n)
<1>1. Len(s) \in Nat
  BY LenProperties
<1>2. b \in Seq(Tokens) /\ Len(b) = m
  BY TakeType
<1>3. t \in Seq(Tokens) /\ Len(t) = n - m /\ b \o t = Take(s, n)
  BY TakeFurther
<1>4. Len(b) + Len(t) <= MaxSeqLen
  BY <1>1, <1>2, <1>3, LengthsAssumption
<1>5. Holds(b) /\ Forward(t, Len(b))
  BY <1>2
<1> HIDE DEF b, t
<1>6. Holds(b \o t)'
  BY <1>2, <1>3, <1>4, <1>5, ForwardHolds
<1>7. (b \o t)' = b \o t
  BY DEF b, t
<1> QED BY <1>3, <1>6

----------------------------------------------------------------------------
(* The prefix cache, as inference uses it.                                 *)

Depth == MaxPrompt \div ChunkSize + 1

\* An insertion is a step of the prefix cache.
LEMMA InsertIsAStep ==
    ASSUME P!CacheInv,
           NEW prev \in P!Hashes \cup {P!Root}, Len(prev) < Depth,
           NEW c \in Contents, NEW state \in Snapshots,
           Cache!InsertDeltaChunk(prev, c, Len(prev), state)
    PROVE  P!CacheInv'
<1>1. P!InsertDeltaChunk(prev, c, Len(prev), state)
  BY SameInsert
<1>2. P!Next
  BY <1>1 DEF P!Next, Depth, Contents
<1> QED BY <1>2, P!CacheInvNext, Assumed

\* So is the lookup of a restore.
LEMMA RestoreIsAStep ==
    ASSUME P!CacheInv, NEW path \in P!Hashes, Cache!RestoreLongestPrefix(path)
    PROVE  P!CacheInv' /\ chunks' = chunks
<1>1. Cache!MatchedChunks(path) = P!MatchedChunks(path)
  BY DEF Cache!MatchedChunks, P!MatchedChunks, Cache!Max, P!Max,
         Cache!PrefixOf, P!PrefixOf, Cache!Cached, P!Cached
<1>2. P!RestoreLongestPrefix(path)
  BY <1>1, SameTouch DEF Cache!RestoreLongestPrefix, P!RestoreLongestPrefix,
     Cache!PrefixOf, P!PrefixOf
<1>3. P!Next
  BY <1>2 DEF P!Next
<1>4. P!CacheInv'
  BY <1>3, P!CacheInvNext, Assumed
<1> QED BY <1>4 DEF Cache!RestoreLongestPrefix

\* Nothing happens to an untouched cache.
LEMMA CacheUntouched ==
    ASSUME P!CacheInv, UNCHANGED cache
    PROVE  P!CacheInv'
<1>1. UNCHANGED P!vars
  BY DEF P!vars, cache
<1> QED BY <1>1, P!CacheInvNext, Assumed

\* The map an insertion hands to the eviction loops.
WithNode(prev, c, state) ==
    [h \in DOMAIN chunks \cup {Append(prev, c)} |->
        IF h = Append(prev, c)
        THEN [index |-> Len(prev), parent |-> prev, start |-> Len(prev), state |-> state]
        ELSE chunks[h]]

\* What an insertion does: nothing but a touch, or a new node and an eviction.
LEMMA InsertCases ==
    ASSUME NEW prev, NEW c, NEW state,
           Cache!InsertDeltaChunk(prev, c, Len(prev), state)
    PROVE  \/ Append(prev, c) \in DOMAIN chunks /\ chunks' = chunks
           \/ /\ Append(prev, c) \notin DOMAIN chunks
              /\ Cache!EvictTo(WithNode(prev, c, state), Append(lru, Append(prev, c)),
                               memory + 1, MaxCached, MaxBytes)
BY DEF Cache!InsertDeltaChunk, Cache!InsertNode, Cache!ChunkHash, Cache!Cached, WithNode

\* Of the entries after an insertion only the new one was not there before.
LEMMA InsertAddsOne ==
    ASSUME NEW prev, NEW c, NEW state,
           Cache!InsertDeltaChunk(prev, c, Len(prev), state),
           NEW h \in DOMAIN chunks'
    PROVE  \/ h \in DOMAIN chunks /\ chunks'[h] = chunks[h]
           \/ /\ h = Append(prev, c)
              /\ chunks'[h].start = Len(prev)
              /\ chunks'[h].state = state
<1>1. CASE chunks' = chunks
  BY <1>1
<1>2. CASE Cache!EvictTo(WithNode(prev, c, state), Append(lru, Append(prev, c)),
                         memory + 1, MaxCached, MaxBytes)
  <2> DEFINE cs == WithNode(prev, c, state)
  <2>1. DOMAIN cs = DOMAIN chunks \cup {Append(prev, c)}
    BY DEF WithNode
  <2>2. h \in DOMAIN cs /\ chunks'[h] = cs[h]
    <3> HIDE DEF cs
    <3>1. PICK out \in SUBSET DOMAIN cs : chunks' = [g \in DOMAIN cs \ out |-> cs[g]]
      BY <1>2 DEF Cache!EvictTo, cs
    <3> QED BY <3>1
  <2> QED BY <2>1, <2>2 DEF WithNode
<1> QED BY <1>1, <1>2, InsertCases

----------------------------------------------------------------------------
(* When an insertion evicts.                                               *)

Full == Cardinality(DOMAIN chunks) >= Min({MaxCached, MaxBytes})

\* A chunk counts for one byte.
LEMMA BytesCounted ==
    ASSUME NEW cs, NEW hs, IsFiniteSet(hs)
    PROVE  Cache!BytesOf(cs, hs) = Cardinality(hs)
<1> DEFINE S == UNION {{h} \X (1..1) : h \in hs}
           f == [h \in hs |-> <<h, 1>>]
<1>1. \A x : x \in S <=> \E h \in hs : x = <<h, 1>>
  OBVIOUS
<1> HIDE DEF S
<1>2. f \in Bijection(hs, S)
  <2>1. f \in [hs -> S]
    BY <1>1
  <2>2. \A g, h \in hs : f[g] = f[h] => g = h
    OBVIOUS
  <2>3. \A x \in S : \E h \in hs : f[h] = x
    BY <1>1
  <2>4. IsInjective(f)
    BY <2>1, <2>2 DEF IsInjective
  <2> HIDE DEF f
  <2> QED BY <2>1, <2>3, <2>4 DEF Bijection, Injection, Surjection
<1>3. Cardinality(hs) = Cardinality(S)
  BY <1>2, FS_Bijection, Zenon DEF ExistsBijection
<1> QED BY <1>3, BytesAreEntries DEF S

\* Every entry of the map has a place in the list.
Placed(cs, order) ==
    /\ order \in Seq(P!Hashes)
    /\ \A h \in DOMAIN cs : \E i \in 1..Len(order) : order[i] = h
    /\ \A h \in DOMAIN cs : cs[h].index \in Nat

\* An entry's position is one of its places.
LEMMA PositionType ==
    ASSUME NEW cs, NEW order, Placed(cs, order), NEW h \in DOMAIN cs
    PROVE  /\ Cache!Position(order, h) \in 0..Len(order)
           /\ Cache!Position(order, h) \in Int
           /\ order[Cache!Position(order, h)] = h
<1>1. DOMAIN order = 1..Len(order) /\ Len(order) \in Nat
  BY LenProperties DEF Placed
<1>2. \E i \in DOMAIN order : order[i] = h
  BY <1>1 DEF Placed
<1> DEFINE p == CHOOSE i \in DOMAIN order : order[i] = h
<1>3. p \in DOMAIN order /\ order[p] = h
  BY <1>2
<1>4. Cache!Position(order, h) = p
  BY DEF Cache!Position
<1> HIDE DEF p
<1> QED BY <1>1, <1>3, <1>4

\* What is evicted has a last entry, and what goes before it could have been
\* evicted alone.
LEMMA LastEvicted ==
    ASSUME NEW cs, NEW order, Placed(cs, order),
           NEW out \in SUBSET DOMAIN cs, out # {},
           Cache!EvictedFirst(cs, order, out)
    PROVE  \E e \in out : Cache!EvictedFirst(cs, order, out \ {e})
<1> DEFINE I == {cs[h].index : h \in out}
<1>1. I \in SUBSET Nat /\ I # {}
  BY DEF Placed
<1>2. (\A h \in out : cs[h].index \in I) /\ \A x \in I : \E h \in out : x = cs[h].index
  OBVIOUS
<1> HIDE DEF I
<1>3. PICK x \in I : \A y \in I : x <= y
  BY <1>1, P!LeastCounterexample, Assumed
<1> DEFINE Low == {h \in out : cs[h].index = x}
           J == {Cache!Position(order, h) : h \in Low}
<1>4. Low # {} /\ Low \subseteq out
  BY <1>2
<1>5. (\A h \in Low : Cache!Position(order, h) \in J)
      /\ \A j \in J : \E h \in Low : j = Cache!Position(order, h)
  OBVIOUS
<1>6. J \in SUBSET (0..Len(order)) /\ J # {} /\ Len(order) \in Nat
  <2>1. \A h \in Low : Cache!Position(order, h) \in 0..Len(order)
    BY PositionType
  <2> QED BY <1>4, <2>1, LenProperties DEF Placed
<1> HIDE DEF J
<1>7. Max(J) \in J /\ \A j \in J : j <= Max(J)
  BY <1>6, GreatestOf
<1>8. PICK e \in Low : Max(J) = Cache!Position(order, e)
  BY <1>5, <1>7
<1>9. e \in out /\ cs[e].index = x
  OBVIOUS
<1>10. ASSUME NEW f \in out \ {e} PROVE Cache!Precedes(cs, order, f, e)
  <2>1. cs[f].index \in Nat /\ cs[e].index \in Nat /\ cs[e].index <= cs[f].index
    BY <1>2, <1>3, <1>9 DEF Placed
  <2>2. CASE cs[f].index = cs[e].index
    <3>1. f \in Low
      BY <1>9, <2>2
    <3>2. Cache!Position(order, f) <= Cache!Position(order, e)
      BY <1>5, <1>7, <1>8, <3>1
    <3>3. Cache!Position(order, f) # Cache!Position(order, e)
      BY <1>9, PositionType
    <3>4. Cache!Position(order, f) \in Int /\ Cache!Position(order, e) \in Int
      BY <1>9, PositionType
    <3> QED BY <2>2, <3>2, <3>3, <3>4 DEF Cache!Precedes
  <2>3. CASE cs[f].index # cs[e].index
    BY <2>1, <2>3 DEF Cache!Precedes
  <2> QED BY <2>2, <2>3
<1>11. Cache!EvictedFirst(cs, order, out \ {e})
  <2>1. \A f \in out, k \in DOMAIN cs \ out : Cache!Precedes(cs, order, f, k)
    BY DEF Cache!EvictedFirst
  <2> HIDE DEF Low
  <2>2. \A k \in DOMAIN cs \ (out \ {e}) : k = e \/ k \in DOMAIN cs \ out
    OBVIOUS
  <2> QED BY <1>10, <2>1, <2>2 DEF Cache!EvictedFirst
<1> QED BY <1>9, <1>11

\* Eviction removes nothing, or leaves the cache full.
LEMMA EvictsOnlyWhenFull ==
    ASSUME NEW cs, NEW order, Placed(cs, order), IsFiniteSet(DOMAIN cs),
           Cache!EvictTo(cs, order, Cardinality(DOMAIN cs), MaxCached, MaxBytes)
    PROVE  \/ DOMAIN chunks' = DOMAIN cs
           \/ /\ Cardinality(DOMAIN chunks') \in Nat
              /\ \/ Cardinality(DOMAIN chunks') >= MaxCached
                 \/ Cardinality(DOMAIN chunks') >= MaxBytes
<1> DEFINE n == Cardinality(DOMAIN cs)
<1>1. PICK out \in SUBSET DOMAIN cs :
        /\ Cache!EvictedFirst(cs, order, out)
        /\ \A less \in (SUBSET out) \ {out} :
              Cache!EvictedFirst(cs, order, less)
                 => ~Cache!Fits(cs, n, less, MaxCached, MaxBytes)
        /\ DOMAIN chunks' = DOMAIN cs \ out
  BY DEF Cache!EvictTo
<1>2. CASE out = {}
  BY <1>1, <1>2
<1>3. CASE out # {}
  <2>1. PICK e \in out : Cache!EvictedFirst(cs, order, out \ {e})
    BY <1>1, <1>3, LastEvicted
  <2> DEFINE less == out \ {e}
             k == Cardinality(out)
  <2>2. less \in (SUBSET out) \ {out} /\ less \in SUBSET DOMAIN cs
    OBVIOUS
  <2>3. ~Cache!Fits(cs, n, less, MaxCached, MaxBytes)
    BY <1>1, <2>1, <2>2
  <2>4. IsFiniteSet(out) /\ IsFiniteSet(less) /\ n \in Nat /\ k \in Nat
    BY FS_Subset, FS_CardinalityType
  <2>5. k <= n /\ Cardinality(DOMAIN cs \ out) = n - k
    <3>1. k <= n
      BY FS_Subset
    <3>2. DOMAIN cs \cap out = out
      OBVIOUS
    <3>3. Cardinality(DOMAIN cs \ out) = n - Cardinality(DOMAIN cs \cap out)
      BY FS_Difference
    <3> QED BY <3>1, <3>2, <3>3
  <2>6. Cardinality(less) = k - 1
    BY <2>4, FS_RemoveElement
  <2>7. Cardinality(DOMAIN cs \ less) = n - (k - 1)
    <3>1. DOMAIN cs \cap less = less
      BY <2>2
    <3>2. Cardinality(DOMAIN cs \ less) = n - Cardinality(DOMAIN cs \cap less)
      BY <2>4, FS_Difference
    <3> QED BY <2>6, <3>1, <3>2
  <2>8. Cache!BytesOf(cs, less) = k - 1
    BY <2>4, <2>6, BytesCounted
  <2> HIDE DEF n, k, less
  <2>9. Cache!Monus(n, k - 1) = n - (k - 1)
    <3>1. n \in Int /\ k \in Int /\ k - 1 < n
      BY <2>4, <2>5
    <3> QED BY <3>1 DEF Cache!Monus
  <2>10. ~(n - (k - 1) <= MaxCached) \/ ~(n - (k - 1) <= MaxBytes)
    BY <2>3, <2>7, <2>8, <2>9 DEF Cache!Fits, Cache!Cardinality, Cardinality
  <2>11. Cardinality(DOMAIN chunks') = n - k
    BY <1>1, <2>5
  <2> QED BY <2>4, <2>5, <2>10, <2>11, LengthsAssumption
<1> QED BY <1>2, <1>3

\* The lower of the two limits.
LEMMA LowerLimit ==
    LET m == Min({MaxCached, MaxBytes}) IN
    m \in {MaxCached, MaxBytes} /\ m \in Nat /\ m <= MaxCached /\ m <= MaxBytes
<1>1. MaxCached \in Nat /\ MaxBytes \in Nat
  BY LengthsAssumption
<1>2. {MaxCached, MaxBytes, MaxBytes} = {MaxCached, MaxBytes}
  OBVIOUS
<1> DEFINE m == Min({MaxCached, MaxBytes, MaxBytes})
<1>3. m \in {MaxCached, MaxBytes, MaxBytes} /\ m <= MaxCached /\ m <= MaxBytes
  BY <1>1, MinOfThree
<1>4. m = Min({MaxCached, MaxBytes})
  BY <1>2
<1> HIDE DEF m
<1>5. m \in {MaxCached, MaxBytes} /\ m \in Nat
  BY <1>1, <1>3
<1> QED BY <1>3, <1>4, <1>5

\* An insertion loses no entry and adds its own, or leaves the cache full; and
\* a full cache stays full.
LEMMA InsertKeeps ==
    ASSUME P!CacheInv,
           NEW prev \in P!Hashes \cup {P!Root}, Len(prev) < Depth,
           NEW c \in Contents, NEW state,
           Cache!InsertDeltaChunk(prev, c, Len(prev), state)
    PROVE  /\ Full' \/ DOMAIN chunks \cup {Append(prev, c)} \subseteq DOMAIN chunks'
           /\ Full => Full'
<1> DEFINE new == Append(prev, c)
           cs == WithNode(prev, c, state)
<1>1. CASE new \in DOMAIN chunks /\ chunks' = chunks
  <2>1. Full => Full'
    BY <1>1 DEF Full
  <2> QED BY <1>1, <2>1
<1>2. CASE new \notin DOMAIN chunks
           /\ Cache!EvictTo(cs, Append(lru, new), memory + 1, MaxCached, MaxBytes)
  <2>1. DOMAIN cs = DOMAIN chunks \cup {new}
    BY DEF WithNode
  <2>2. IsFiniteSet(DOMAIN chunks) /\ P!Cached = DOMAIN chunks
    BY DEF P!CacheInv, P!WellFormed, P!Cached, P!IsFiniteSet, IsFiniteSet
  <2>3. IsFiniteSet(DOMAIN cs) /\ Cardinality(DOMAIN cs) = Cardinality(DOMAIN chunks) + 1
    BY <1>2, <2>1, <2>2, FS_AddElement
  <2>4. memory + 1 = Cardinality(DOMAIN cs)
    <3>1. memory = P!BytesOf(chunks, DOMAIN chunks)
      BY <2>2 DEF P!CacheInv
    <3>2. P!BytesOf(chunks, DOMAIN chunks) = Cache!BytesOf(chunks, DOMAIN chunks)
      BY BytesAreEntries
    <3>3. Cache!BytesOf(chunks, DOMAIN chunks) = Cardinality(DOMAIN chunks)
      BY <2>2, BytesCounted
    <3> QED BY <2>3, <3>1, <3>2, <3>3
  <2>5. new \in P!Hashes
    BY P!HashType, Assumed DEF P!ChunkHash, Contents, Depth
  <2>6. lru \in Seq(P!Hashes) /\ P!ToSet(lru) = DOMAIN chunks
    BY <2>2 DEF P!CacheInv, P!Listed
  <2>7. Placed(cs, Append(lru, new))
    <3>1. /\ Append(lru, new) \in Seq(P!Hashes)
          /\ Len(Append(lru, new)) = Len(lru) + 1
          /\ \A i \in 1..Len(lru) : Append(lru, new)[i] = lru[i]
          /\ Append(lru, new)[Len(lru) + 1] = new
          /\ Len(lru) \in Nat
      BY <2>5, <2>6, AppendProperties, LenProperties
    <3>2. \A h \in DOMAIN chunks : \E i \in 1..Len(lru) : lru[i] = h
      <4>1. DOMAIN lru = 1..Len(lru)
        BY <2>6, LenProperties
      <4> QED BY <2>6, <4>1 DEF P!ToSet
    <3> DEFINE order == Append(lru, new)
    <3>3. \A h \in DOMAIN chunks : \E i \in 1..Len(order) : order[i] = h
      BY <3>1, <3>2
    <3>4. \E i \in 1..Len(order) : order[i] = new
      BY <3>1
    <3>5. \A h \in DOMAIN cs : cs[h].index \in Nat
      <4>1. \A h \in DOMAIN chunks : chunks[h].index \in Nat
        <5>1. \A h \in DOMAIN chunks : chunks[h] \in P!Entry
          BY DEF P!CacheInv, P!WellFormed
        <5>2. \A e \in P!Entry : e.index \in 0..(Depth - 1)
          BY DEF P!Entry, Depth
        <5> QED BY <5>1, <5>2
      <4>2. Len(prev) \in Nat
        BY P!HashType, Assumed DEF Contents, Depth
      <4> QED BY <2>1, <4>1, <4>2 DEF WithNode
    <3> HIDE DEF cs, new, order
    <3>6. order \in Seq(P!Hashes)
      BY <3>1 DEF order
    <3>7. Placed(cs, order)
      BY <2>1, <3>3, <3>4, <3>5, <3>6 DEF Placed
    <3> QED BY <3>7 DEF order
  <2>8. Cache!EvictTo(cs, Append(lru, new), Cardinality(DOMAIN cs), MaxCached, MaxBytes)
    BY <1>2, <2>4
  <2> HIDE DEF cs, new
  <2>9. \/ DOMAIN chunks' = DOMAIN cs
        \/ /\ Cardinality(DOMAIN chunks') \in Nat
           /\ \/ Cardinality(DOMAIN chunks') >= MaxCached
              \/ Cardinality(DOMAIN chunks') >= MaxBytes
    BY <2>3, <2>7, <2>8, EvictsOnlyWhenFull
  <2>10. CASE DOMAIN chunks' = DOMAIN cs
    <3>1. Cardinality(DOMAIN chunks') = Cardinality(DOMAIN chunks) + 1
      BY <2>3, <2>10
    <3>2. Cardinality(DOMAIN chunks) \in Nat
      BY <2>2, FS_CardinalityType
    <3>3. Full => Full'
      BY <3>1, <3>2, LowerLimit DEF Full
    <3> QED BY <2>1, <2>10, <3>3 DEF new
  <2>11. CASE /\ Cardinality(DOMAIN chunks') \in Nat
              /\ \/ Cardinality(DOMAIN chunks') >= MaxCached
                 \/ Cardinality(DOMAIN chunks') >= MaxBytes
    <3>1. Full'
      BY <2>11, LowerLimit, LengthsAssumption DEF Full
    <3> QED BY <3>1
  <2> QED BY <2>9, <2>10, <2>11
<1>3. Cache!InsertDeltaChunk(prev, c, Len(prev), state)
  OBVIOUS
<1> QED BY <1>1, <1>2, <1>3, InsertCases

----------------------------------------------------------------------------
(* The inductive invariant.                                                *)

\* A cached chunk owns its own interval, and its cells and its recurrent state
\* are those of a run over the tokens up to its end.
ExactEntry(h, entry) ==
    /\ entry.start = Len(h) - 1
    /\ entry.state.ssm = TokensOf(h)
    /\ \A i \in 1..ChunkSize :
          entry.state.cells[i] = Take(TokensOf(h), (Len(h) - 1) * ChunkSize + i)

CachedExact == \A h \in DOMAIN chunks : ExactEntry(h, chunks[h])

\* The chunks of the prompt read so far are cached, unless the cache is full.
PrefixCached ==
    \/ \A j \in 1..(cursor \div ChunkSize) : FirstChunks(prompt, j) \in DOMAIN chunks
    \/ Full

\* While a prompt is read, the model holds what was read or restored of it, the
\* hash is that of its full chunks, and the logits at its end are the
\* prediction for the whole of it.
Reading ==
    /\ prompt \in Prompts
    /\ cursor \in 0..Len(prompt)
    /\ generated = <<>>
    /\ Holds(Take(prompt, cursor))
    /\ cursor = Len(prompt) => logits = prompt

Chained ==
    /\ hash = FirstChunks(prompt, cursor \div ChunkSize)
    /\ PrefixCached

\* While an answer is generated, the model holds the prompt and the answer and
\* the logits are the prediction for both.
Generating ==
    /\ prompt \in Prompts
    /\ generated \in Seq(Tokens)
    /\ Len(prompt \o generated) <= MaxSeqLen
    /\ Holds(prompt \o generated)
    /\ logits = prompt \o generated

InferenceInv ==
    /\ P!CacheInv
    /\ CachedExact
    /\ phase \in {"idle", "prefill", "grammar", "decode"}
    /\ phase \in {"prefill", "grammar"} => Reading
    /\ phase = "prefill" => Chained
    /\ phase = "decode" => Generating

\* A prompt fits in the context, and is not empty.
LEMMA PromptType ==
    ASSUME NEW p \in Prompts
    PROVE  /\ p \in Seq(Tokens) /\ Len(p) \in 1..MaxPrompt /\ Len(p) \in Nat
           /\ Len(p) <= MaxPrompt /\ Len(p) <= MaxSeqLen
BY PromptsAssumption, LengthsAssumption

\* Beginnings of a prompt are values the model can hold.
LEMMA TakeIsHistory ==
    ASSUME NEW p \in Prompts, NEW n \in 0..Len(p)
    PROVE  Take(p, n) \in Histories
<1>1. p \in Seq(Tokens) /\ Len(p) \in Nat /\ Len(p) <= MaxSeqLen
  BY PromptType
<1>2. Take(p, n) \in Seq(Tokens) /\ Len(Take(p, n)) = n
  BY <1>1, TakeType
<1>3. Take(p, n) \in [1..n -> Tokens]
  BY <1>2, LenProperties
<1>4. n \in 0..MaxSeqLen
  BY <1>1, LengthsAssumption
<1> QED BY <1>3, <1>4 DEF Histories

\* The snapshot taken at a chunk boundary is the entry that belongs there.
LEMMA SnapshotIsExact ==
    ASSUME NEW p \in Prompts, NEW q \in Nat, (q + 1) * ChunkSize <= Len(p),
           q + 1 \in 0..(Len(p) \div ChunkSize),
           Holds(Take(p, (q + 1) * ChunkSize))'
    PROVE  LET s == SnapshotAt((q + 1) * ChunkSize) IN
           /\ s \in Snapshots
           /\ s.ssm = TokensOf(FirstChunks(p, q + 1))
           /\ \A i \in 1..ChunkSize :
                 s.cells[i] = Take(TokensOf(FirstChunks(p, q + 1)), q * ChunkSize + i)
<1> DEFINE n == (q + 1) * ChunkSize
           a == q * ChunkSize
           s == SnapshotAt(n)
<1>1. ChunkSize \in Nat \ {0}
  BY LengthsAssumption
<1>2. p \in Seq(Tokens) /\ Len(p) \in Nat
  BY PromptType
<1>3. a \in Nat /\ n = a + ChunkSize /\ n \in 0..Len(p)
  BY <1>1, <1>2
<1>4. TokensOf(FirstChunks(p, q + 1)) = Take(p, n)
  BY <1>2, TokensOfChunks
<1>5. Len(Take(p, n)) = n
  BY <1>2, <1>3, TakeType
<1>6. Holds(Take(p, n))'
  OBVIOUS
<1>7. s = [cells |-> [i \in 1..ChunkSize |-> kv'[n - ChunkSize + i - 1]], ssm |-> ssm']
  BY DEF SnapshotAt
<1> HIDE DEF n, a, s
<1>8. ssm' = Take(p, n) /\ \A i \in 0..(n - 1) : kv'[i] = Take(Take(p, n), i + 1)
  BY <1>5, <1>6 DEF Holds, HoldsIn
<1>9. ASSUME NEW i \in 1..ChunkSize
      PROVE  kv'[n - ChunkSize + i - 1] = Take(Take(p, n), a + i) /\ a + i \in 0..n
  <2>1. n - ChunkSize + i - 1 \in 0..(n - 1) /\ (n - ChunkSize + i - 1) + 1 = a + i
    BY <1>1, <1>3
  <2>2. a + i \in 0..n
    BY <1>1, <1>3
  <2> QED BY <1>8, <2>1, <2>2
<1>10. ASSUME NEW i \in 1..ChunkSize PROVE kv'[n - ChunkSize + i - 1] \in Histories
  <2>1. a + i \in 0..n /\ a + i \in 0..Len(p)
    BY <1>3, <1>9
  <2>2. Take(Take(p, n), a + i) = Take(p, a + i)
    BY <1>2, <1>3, <2>1, TakeTake
  <2> QED BY <1>9, <2>1, <2>2, TakeIsHistory
<1>11. ssm' \in Histories
  BY <1>3, <1>8, TakeIsHistory
<1>12. s \in Snapshots
  BY <1>7, <1>10, <1>11 DEF Snapshots
<1>13. s.ssm = Take(p, n) /\ \A i \in 1..ChunkSize : s.cells[i] = Take(Take(p, n), a + i)
  BY <1>7, <1>8, <1>9
<1> QED BY <1>4, <1>12, <1>13 DEF n, a, s

\* What cache_prefill_boundary leaves at the end of the chunk after the first q.
LEMMA BoundaryKeeps ==
    ASSUME P!CacheInv, CachedExact,
           NEW p \in Prompts, prompt = p,
           NEW q \in Nat, q + 1 \in 0..(Len(p) \div ChunkSize),
           hash = FirstChunks(p, q),
           (\A j \in 1..q : FirstChunks(p, j) \in DOMAIN chunks) \/ Full,
           Holds(Take(p, (q + 1) * ChunkSize))',
           CacheBoundary((q + 1) * ChunkSize)
    PROVE  /\ P!CacheInv' /\ CachedExact'
           /\ hash' = FirstChunks(p, q + 1)
           /\ (\A j \in 1..(q + 1) : FirstChunks(p, j) \in DOMAIN chunks') \/ Full'
<1> DEFINE n == (q + 1) * ChunkSize
           c == ChunkAt(p, q + 1)
           s == SnapshotAt(n)
           new == FirstChunks(p, q + 1)
<1>1. ChunkSize \in Nat \ {0} /\ p \in Seq(Tokens) /\ Len(p) \in Nat /\ Len(p) <= MaxPrompt
      /\ Len(p) \div ChunkSize \in Nat
  <2>1. ChunkSize \in Nat \ {0}
    BY LengthsAssumption
  <2> QED BY <2>1, PromptType, Division
<1>2. n \in 0..Len(p)
  BY <1>1, ChunkBounds
<1>3. n \div ChunkSize - 1 = q
  <2>1. (q + 1) \in Nat /\ 0 \in 0..(ChunkSize - 1) /\ n = (q + 1) * ChunkSize + 0
    BY <1>1
  <2>2. n \div ChunkSize = q + 1
    BY <1>1, <2>1, Quotient
  <2> QED BY <2>2
<1>4. /\ s \in Snapshots
      /\ s.ssm = TokensOf(new)
      /\ \A i \in 1..ChunkSize : s.cells[i] = Take(TokensOf(new), q * ChunkSize + i)
  BY <1>2, SnapshotIsExact
<1>5. c \in Contents
  <2>1. q + 1 \in 1..(Len(p) \div ChunkSize)
    BY <1>1
  <2> QED BY <1>1, <2>1, ChunkType
<1>6. q \in 0..(Len(p) \div ChunkSize)
  BY <1>1
<1>7. /\ hash \in P!Hashes \cup {P!Root} /\ q < Depth
      /\ q > 0 => hash \in P!Hashes
  BY <1>1, <1>6, PathsAreHashes DEF Depth
<1>8. Len(hash) = q
  BY <1>1, <1>6, FirstChunksType
<1>9. Append(hash, c) = new
  BY <1>1, ChunksGrow
<1>10. Len(new) = q + 1
  BY <1>1, FirstChunksType
<1>11. /\ hash' = Append(hash, c)
       /\ \/ Cache!InsertDeltaChunk(hash, c, q, s)
          \/ /\ ~(q = 0 /\ hash = Cache!Root)
             /\ ~(hash \in DOMAIN chunks /\ chunks[hash].index = q - 1)
             /\ UNCHANGED cache
  <2>1. CacheBoundary(n)
    OBVIOUS
  <2> HIDE DEF n
  <2> QED BY <1>3, <2>1 DEF CacheBoundary, Cache!ChunkHash
<1> HIDE DEF n, c, s, new
<1>12. CASE Cache!InsertDeltaChunk(hash, c, q, s)
  <2>1. Cache!InsertDeltaChunk(hash, c, Len(hash), s)
    BY <1>8, <1>12
  <2>2. P!CacheInv'
    BY <1>4, <1>5, <1>7, <1>8, <2>1, InsertIsAStep
  <2>3. CachedExact'
    <3>1. SUFFICES ASSUME NEW h \in DOMAIN chunks' PROVE ExactEntry(h, chunks'[h])
      BY DEF CachedExact
    <3>2. CASE h \in DOMAIN chunks /\ chunks'[h] = chunks[h]
      BY <3>2 DEF CachedExact
    <3>3. CASE h = new /\ chunks'[h].start = q /\ chunks'[h].state = s
      <4>1. Len(h) - 1 = q
        BY <1>10, <3>3
      <4> QED BY <1>4, <3>3, <4>1 DEF ExactEntry
    <3> QED BY <1>8, <1>9, <2>1, <3>2, <3>3, InsertAddsOne
  <2>4. /\ Full' \/ DOMAIN chunks \cup {new} \subseteq DOMAIN chunks'
        /\ Full => Full'
    BY <1>5, <1>7, <1>8, <1>9, <2>1, InsertKeeps
  <2>5. (\A j \in 1..(q + 1) : FirstChunks(p, j) \in DOMAIN chunks') \/ Full'
    <3>1. \A j \in 1..(q + 1) : j \in 1..q \/ j = q + 1
      OBVIOUS
    <3> QED BY <2>4, <3>1 DEF new
  <2> QED BY <1>9, <1>11, <2>2, <2>3, <2>5 DEF new
<1>13. CASE /\ ~(q = 0 /\ hash = Cache!Root)
            /\ ~(hash \in DOMAIN chunks /\ chunks[hash].index = q - 1)
            /\ UNCHANGED cache
  <2>1. q > 0
    <3>1. q = 0 => hash = <<>>
      <4>1. hash \in Seq(Contents)
        BY <1>1, <1>6, FirstChunksType
      <4> QED BY <1>8, <4>1, EmptySeq
    <3> QED BY <1>13, <3>1 DEF Cache!Root
  <2>2. Full
    <3>1. SUFFICES ASSUME \A j \in 1..q : FirstChunks(p, j) \in DOMAIN chunks
                   PROVE  FALSE
      OBVIOUS
    <3>2. hash \in DOMAIN chunks
      BY <2>1, <3>1
    <3>3. chunks[hash].index = q - 1
      BY <1>8, <3>2 DEF P!CacheInv, P!Shaped
    <3> QED BY <1>13, <3>2, <3>3
  <2>3. chunks' = chunks
    BY <1>13 DEF cache
  <2>4. P!CacheInv'
    BY <1>13, CacheUntouched
  <2>5. CachedExact'
    BY <2>3 DEF CachedExact
  <2>6. Full'
    BY <2>2, <2>3 DEF Full
  <2> QED BY <1>9, <1>11, <2>4, <2>5, <2>6 DEF new
<1> QED BY <1>11, <1>12, <1>13

----------------------------------------------------------------------------
(* What a restore brings back.                                             *)

\* The walk of a restore visits every chunk of the prefix: each of them owns
\* no more than its own interval.
LEMMA WholeWalk ==
    ASSUME P!CacheInv, CachedExact, NEW h \in DOMAIN chunks
    PROVE  /\ Cache!RestoreChain(h) = {SubSeq(h, 1, k) : k \in 1..Len(h)}
           /\ \A k \in 1..Len(h) : SubSeq(h, 1, k) \in DOMAIN chunks
           /\ Len(h) \in Nat
<1>1. h \in P!Cached
  BY DEF P!Cached
<1>2. /\ h \in P!Hashes
      /\ \A n \in P!Walked(h) :
            /\ P!PrefixOf(h, n) \in P!Cached
            /\ Len(P!PrefixOf(h, n)) = n
  BY <1>1, P!WalkCached, Assumed
<1>3. PICK b \in 1..Len(h) :
        P!Walked(h) = b..Len(h) /\ chunks[P!PrefixOf(h, b)].start = 0
  BY <1>1, P!WalkShape, Assumed
<1>4. Len(h) \in Nat
  BY <1>2, P!PathType, Assumed
<1>5. b = 1
  <2>1. b \in P!Walked(h)
    BY <1>3, <1>4
  <2>2. P!PrefixOf(h, b) \in DOMAIN chunks /\ Len(P!PrefixOf(h, b)) = b
    BY <1>2, <2>1 DEF P!Cached
  <2>3. chunks[P!PrefixOf(h, b)].start = b - 1
    BY <2>2 DEF CachedExact, ExactEntry
  <2> QED BY <1>3, <1>4, <2>3
<1>6. P!Walked(h) = 1..Len(h)
  BY <1>3, <1>5
<1>7. Cache!RestoreChain(h) = {SubSeq(h, 1, k) : k \in P!Walked(h)}
  BY DEF Cache!RestoreChain, P!Walked, Cache!PrefixOf, P!PrefixOf, Cache!Cached, P!Cached
<1>8. \A k \in 1..Len(h) : SubSeq(h, 1, k) \in DOMAIN chunks
  BY <1>2, <1>6 DEF P!PrefixOf, P!Cached
<1> QED BY <1>4, <1>6, <1>7, <1>8

\* The longest match is a number of chunks of the path, and all of them are
\* cached.
LEMMA MatchedIsCached ==
    ASSUME NEW path, Len(path) \in Nat
    PROVE  LET n == Cache!MatchedChunks(path) IN
           /\ n \in 0..Len(path)
           /\ \A i \in 1..n : SubSeq(path, 1, i) \in DOMAIN chunks
           /\ \A m \in 0..Len(path) :
                 (\A i \in 1..m : SubSeq(path, 1, i) \in DOMAIN chunks) => m <= n
<1> DEFINE S == {n \in 0..Len(path) : \A i \in 1..n : SubSeq(path, 1, i) \in DOMAIN chunks}
<1>1. Cache!MatchedChunks(path) = Max(S)
  BY DEF Cache!MatchedChunks, Cache!Max, Max, Cache!PrefixOf, Cache!Cached
<1>2. 0 \in S
  OBVIOUS
<1>3. S \in SUBSET (0..Len(path)) /\ S # {}
  BY <1>2
<1>4. \A m : m \in S <=> /\ m \in 0..Len(path)
                         /\ \A i \in 1..m : SubSeq(path, 1, i) \in DOMAIN chunks
  OBVIOUS
<1> HIDE DEF S
<1>5. Max(S) \in S /\ \A m \in S : m <= Max(S)
  BY <1>3, GreatestOf
<1> QED BY <1>1, <1>4, <1>5

\* Every position below the end of a restored prefix gets its cell of this
\* prompt back.
LEMMA RestoredCell ==
    ASSUME P!CacheInv, CachedExact,
           NEW p \in Prompts, NEW n \in 0..(Len(p) \div ChunkSize),
           FirstChunks(p, n) \in DOMAIN chunks,
           NEW i \in 0..(n * ChunkSize - 1)
    PROVE  CellFrom(FirstChunks(p, n), i) = Take(p, i + 1)
<1> DEFINE found == FirstChunks(p, n)
           j == i \div ChunkSize
           r == i % ChunkSize
           own == FirstChunks(p, j + 1)
<1>1. ChunkSize \in Nat \ {0} /\ p \in Seq(Tokens) /\ Len(p) \in Nat
      /\ Len(p) \div ChunkSize \in Nat /\ n \in Nat
  <2>1. ChunkSize \in Nat \ {0}
    BY LengthsAssumption
  <2> QED BY <2>1, PromptType, Division
<1>2. n * ChunkSize \in 0..Len(p)
  BY <1>1, ChunkBounds
<1>3. i \in Nat /\ i < n * ChunkSize
  BY <1>2
<1>4. j \in Nat /\ r \in 0..(ChunkSize - 1) /\ i = j * ChunkSize + r
  BY <1>1, <1>3, Division
<1> HIDE DEF j, r
<1>5. j * ChunkSize \in Nat /\ (j + 1) * ChunkSize = j * ChunkSize + ChunkSize
  BY <1>1, <1>4
<1>6. j + 1 \in 1..n
  <2>1. SUFFICES ASSUME n <= j PROVE FALSE
    BY <1>1, <1>4
  <2>2. n * ChunkSize <= j * ChunkSize
    BY <1>1, <1>4, <2>1
  <2> QED BY <1>1, <1>2, <1>3, <1>4, <1>5, <2>2
<1>7. /\ \A k \in 1..n : SubSeq(found, 1, k) = FirstChunks(p, k)
      /\ \A k \in 1..n : Len(FirstChunks(p, k)) = k /\ k \in Nat
      /\ Len(found) = n
  <2>1. \A k \in 1..n : k \in 0..n /\ k \in 0..(Len(p) \div ChunkSize) /\ k \in Nat
    BY <1>1
  <2>2. \A k \in 1..n : SubSeq(found, 1, k) = FirstChunks(p, k)
    BY <1>1, <2>1, ChunksOfChunks
  <2>3. \A k \in 1..n : Len(FirstChunks(p, k)) = k
    BY <1>1, <2>1, FirstChunksType
  <2> QED BY <1>1, <2>1, <2>2, <2>3, FirstChunksType
<1>8. /\ \A g : g \in Cache!RestoreChain(found) <=> \E k \in 1..n : g = FirstChunks(p, k)
      /\ \A k \in 1..n : FirstChunks(p, k) \in DOMAIN chunks
  <2>1. found \in DOMAIN chunks
    OBVIOUS
  <2> HIDE DEF found
  <2>2. /\ Cache!RestoreChain(found) = {SubSeq(found, 1, k) : k \in 1..Len(found)}
        /\ \A k \in 1..Len(found) : SubSeq(found, 1, k) \in DOMAIN chunks
    BY <2>1, WholeWalk
  <2> QED BY <1>7, <2>2
<1>9. own \in DOMAIN chunks /\ Len(own) = j + 1
  BY <1>6, <1>7, <1>8
<1>10. ExactEntry(own, chunks[own]) /\ chunks[own].start = j
  BY <1>4, <1>9 DEF CachedExact, ExactEntry
<1>11. own \in Cache!RestoreChain(found)
  BY <1>6, <1>8
<1> DEFINE over == {g \in Imported(found) :
                       i \in (chunks[g].start * ChunkSize)..(Len(g) * ChunkSize - 1)}
<1>12. over = {own}
  <2>1. own \in over
    <3>1. Len(own) * ChunkSize = j * ChunkSize + ChunkSize
      BY <1>5, <1>9
    <3>2. i \in (j * ChunkSize)..(Len(own) * ChunkSize - 1)
      BY <1>1, <1>4, <1>5, <3>1
    <3> QED BY <1>10, <1>11, <3>2 DEF Imported
  <2>2. ASSUME NEW g \in over PROVE g = own
    <3>1. PICK k \in 1..n : g = FirstChunks(p, k)
      BY <1>8 DEF Imported
    <3>2. Len(g) = k /\ k \in Nat \ {0} /\ g \in DOMAIN chunks
      BY <1>7, <1>8, <3>1
    <3>3. chunks[g].start = k - 1
      BY <3>2 DEF CachedExact, ExactEntry
    <3>4. i \in ((k - 1) * ChunkSize)..(k * ChunkSize - 1)
      BY <3>2, <3>3
    <3>5. k = j + 1
      <4>1. (k - 1) * ChunkSize \in Nat /\ k * ChunkSize = (k - 1) * ChunkSize + ChunkSize
        BY <1>1, <3>2
      <4>2. i - (k - 1) * ChunkSize \in 0..(ChunkSize - 1)
        BY <1>1, <1>3, <3>4, <4>1
      <4> DEFINE t == i - (k - 1) * ChunkSize
      <4>3. k - 1 \in Nat /\ t \in 0..(ChunkSize - 1) /\ i = (k - 1) * ChunkSize + t
        BY <1>3, <3>2, <4>1, <4>2
      <4> HIDE DEF t
      <4>4. i \div ChunkSize = k - 1
        BY <1>1, <4>3, Quotient
      <4> QED BY <1>4, <3>2, <4>4 DEF j
    <3> QED BY <3>1, <3>5
  <2> HIDE DEF over
  <2> QED BY <2>1, <2>2
<1>13. CellFrom(found, i) = chunks[own].state.cells[i - chunks[own].start * ChunkSize + 1]
  <2> HIDE DEF own
  <2> DEFINE last == CHOOSE g \in over : \A f \in over : Len(f) <= Len(g)
  <2>1. CellFrom(found, i) = IF over = {} THEN Junk
                 ELSE chunks[last].state.cells[i - chunks[last].start * ChunkSize + 1]
    BY DEF CellFrom
  <2> HIDE DEF over
  <2>2. Len(own) \in Int
    BY <1>4, <1>9
  <2>3. last = own
    BY <1>12, <2>2
  <2> HIDE DEF last
  <2> QED BY <1>12, <2>1, <2>3
<1>14. i - chunks[own].start * ChunkSize + 1 = r + 1 /\ r + 1 \in 1..ChunkSize
  BY <1>1, <1>4, <1>5, <1>10
<1>15. chunks[own].state.cells[r + 1] = Take(TokensOf(own), (Len(own) - 1) * ChunkSize + (r + 1))
  BY <1>10, <1>14 DEF ExactEntry
<1>16. (Len(own) - 1) * ChunkSize + (r + 1) = i + 1
  BY <1>1, <1>4, <1>5, <1>9
<1>17. TokensOf(own) = Take(p, (j + 1) * ChunkSize)
  <2>1. j + 1 \in 0..(Len(p) \div ChunkSize)
    BY <1>1, <1>6
  <2> QED BY <1>1, <2>1, TokensOfChunks
<1>18. Take(Take(p, (j + 1) * ChunkSize), i + 1) = Take(p, i + 1)
  <2>1. (j + 1) * ChunkSize \in 0..Len(p)
    <3>1. j + 1 \in 0..(Len(p) \div ChunkSize)
      BY <1>1, <1>6
    <3> QED BY <1>1, <3>1, ChunkBounds
  <2>2. i + 1 \in 0..((j + 1) * ChunkSize)
    BY <1>1, <1>4, <1>5
  <2> QED BY <1>1, <2>1, <2>2, TakeTake
<1> QED BY <1>13, <1>14, <1>15, <1>16, <1>17, <1>18

----------------------------------------------------------------------------
(* Every step keeps the invariant.                                         *)

\* The path a restore looks up.
LEMMA RestorablePath ==
    ASSUME NEW p \in Prompts
    PROVE  LET q == (Len(p) - 1) \div ChunkSize IN
           /\ PathOf(Restorable(p)) = FirstChunks(p, q)
           /\ q \in 0..(Len(p) \div ChunkSize)
           /\ q * ChunkSize < Len(p)
<1> DEFINE m == Len(p) - 1
           q == m \div ChunkSize
           s == Take(p, m)
<1>1. ChunkSize \in Nat \ {0} /\ p \in Seq(Tokens) /\ Len(p) \in Nat
      /\ m \in Nat /\ m \in 0..Len(p) /\ m < Len(p)
  <2>1. ChunkSize \in Nat \ {0}
    BY LengthsAssumption
  <2>2. p \in Seq(Tokens) /\ Len(p) \in 1..MaxPrompt /\ Len(p) \in Nat
    BY PromptType
  <2> QED BY <2>1, <2>2
<1> HIDE DEF m
<1>2. s \in Seq(Tokens) /\ Len(s) = m
  BY <1>1, TakeType
<1>3. q \in Nat /\ Len(p) \div ChunkSize \in Nat /\ q <= Len(p) \div ChunkSize
  <2>1. m <= Len(p)
    BY <1>1
  <2>2. q \in Nat /\ Len(p) \div ChunkSize \in Nat
    BY <1>1, Division
  <2>3. q <= Len(p) \div ChunkSize
    BY <1>1, <2>1, QuotientGrows
  <2> QED BY <2>2, <2>3
<1>4. q * ChunkSize \in 0..m
  <2>1. q \in 0..(m \div ChunkSize)
    BY <1>3
  <2> QED BY <1>1, <2>1, ChunkBounds
<1>5. PathOf(s) = FirstChunks(s, q)
  <2> HIDE DEF s
  <2> QED BY <1>2 DEF PathOf, FirstChunks
<1>6. FirstChunks(s, q) = FirstChunks(p, q)
  <2>1. q \in 0..(m \div ChunkSize)
    BY <1>3
  <2> HIDE DEF q
  <2> QED BY <1>1, <2>1, ChunksOfTake
<1>7. Restorable(p) = s
  BY DEF Restorable, m
<1> HIDE DEF s
<1> QED BY <1>1, <1>3, <1>4, <1>5, <1>6, <1>7 DEF m, q

\* A prompt accepted with its first n chunks restored.
LEMMA AcceptKeeps ==
    ASSUME P!CacheInv', CachedExact',
           NEW p \in Prompts, NEW n \in 0..(Len(p) \div ChunkSize), n * ChunkSize < Len(p),
           HoldsIn(kv', kvPos', ssm', Take(p, n * ChunkSize)),
           \A j \in 1..n : FirstChunks(p, j) \in DOMAIN chunks',
           Accept(p, n * ChunkSize, FirstChunks(p, n), "prefill")
    PROVE  InferenceInv'
<1>1. ChunkSize \in Nat \ {0} /\ p \in Seq(Tokens) /\ Len(p) \in Nat
      /\ Len(p) \div ChunkSize \in Nat /\ n \in Nat
  <2>1. ChunkSize \in Nat \ {0}
    BY LengthsAssumption
  <2> QED BY <2>1, PromptType, Division
<1>2. n * ChunkSize \in 0..Len(p)
  BY <1>1, ChunkBounds
<1>3. (n * ChunkSize) \div ChunkSize = n
  <2>1. 0 \in 0..(ChunkSize - 1) /\ n * ChunkSize = n * ChunkSize + 0
    BY <1>1, <1>2
  <2> QED BY <1>1, <2>1, Quotient
<1>4. /\ prompt' = p /\ cursor' = n * ChunkSize /\ generated' = <<>> /\ phase' = "prefill"
      /\ hash' = FirstChunks(p, n)
  BY DEF Accept
<1>5. cursor' # Len(p)
  BY <1>1, <1>2, <1>4
<1>6. Reading'
  BY <1>2, <1>4, <1>5 DEF Reading, Holds
<1>7. cursor' \div ChunkSize = n
  BY <1>3, <1>4
<1>8. PrefixCached'
  BY <1>4, <1>7 DEF PrefixCached
<1>9. Chained'
  BY <1>4, <1>7, <1>8 DEF Chained
<1> QED BY <1>4, <1>6, <1>9 DEF InferenceInv

\* A start restores the longest cached prefix, or nothing.
LEMMA StartKeeps ==
    ASSUME P!CacheInv, CachedExact, Start
    PROVE  InferenceInv'
<1>1. PICK p \in Prompts :
        LET path == PathOf(Restorable(p))
            n == Cache!MatchedChunks(path)
            found == Cache!PrefixOf(path, n)
        IN
        \/ /\ n = 0
           /\ Reset
           /\ Accept(p, 0, Cache!Root, "prefill")
           /\ UNCHANGED cache
        \/ /\ Cache!RestoreLongestPrefix(path)
           /\ kv' = [i \in Positions |-> CellFrom(found, i)]
           /\ kvPos' = ImportedTo(n)
           /\ ssm' = chunks[found].state.ssm
           /\ logits' = Junk
           /\ Accept(p, n * ChunkSize, found, "prefill")
  BY DEF Start
<1> DEFINE q == (Len(p) - 1) \div ChunkSize
           path == PathOf(Restorable(p))
           n == Cache!MatchedChunks(path)
<1>2. path = FirstChunks(p, q) /\ q \in 0..(Len(p) \div ChunkSize) /\ q * ChunkSize < Len(p)
  BY RestorablePath
<1> HIDE DEF q, path
<1>3. ChunkSize \in Nat \ {0} /\ p \in Seq(Tokens) /\ Len(p) \in Nat
      /\ Len(p) <= MaxPrompt /\ Len(p) <= MaxSeqLen /\ Len(p) \in 1..MaxPrompt
      /\ Len(p) \div ChunkSize \in Nat /\ q \in Nat
  <2>1. ChunkSize \in Nat \ {0}
    BY LengthsAssumption
  <2>2. p \in Seq(Tokens) /\ Len(p) \in Nat /\ Len(p) <= MaxPrompt /\ Len(p) <= MaxSeqLen
        /\ Len(p) \in 1..MaxPrompt
    BY PromptType
  <2>3. Len(p) \div ChunkSize \in Nat
    BY <2>1, <2>2, Division
  <2> QED BY <1>2, <2>1, <2>2, <2>3
<1>4. Len(path) = q
  BY <1>2, <1>3, FirstChunksType
<1>5. n \in 0..q /\ \A i \in 1..n : SubSeq(path, 1, i) \in DOMAIN chunks
  BY <1>3, <1>4, MatchedIsCached
<1> HIDE DEF n
<1>6. n \in Nat /\ n \in 0..(Len(p) \div ChunkSize)
  BY <1>2, <1>3, <1>5
<1>7. \A i \in 0..q : SubSeq(path, 1, i) = FirstChunks(p, i)
  BY <1>2, <1>3, ChunksOfChunks
<1>8. n * ChunkSize \in 0..(q * ChunkSize) /\ q * ChunkSize \in Nat /\ n * ChunkSize < Len(p)
  <2>1. n * ChunkSize <= q * ChunkSize /\ n * ChunkSize \in Nat /\ q * ChunkSize \in Nat
    BY <1>3, <1>5, <1>6
  <2> QED BY <1>2, <1>3, <2>1
<1>9. Cache!PrefixOf(path, n) = FirstChunks(p, n)
  BY <1>5, <1>7 DEF Cache!PrefixOf
<1>10. \A j \in 1..n : FirstChunks(p, j) \in DOMAIN chunks
  <2>1. \A j \in 1..n : j \in 0..q
    BY <1>3, <1>5
  <2> QED BY <1>5, <1>7, <2>1
<1>11. CASE /\ n = 0
            /\ Reset
            /\ Accept(p, 0, Cache!Root, "prefill")
            /\ UNCHANGED cache
  <2>1. FirstChunks(p, 0) = <<>>
    <3>1. 0 \in 0..(Len(p) \div ChunkSize)
      BY <1>3
    <3>2. FirstChunks(p, 0) \in Seq(Contents) /\ Len(FirstChunks(p, 0)) = 0
      BY <1>3, <3>1, FirstChunksType
    <3> QED BY <3>2, EmptySeq
  <2>2. 0 * ChunkSize = 0
    BY <1>3
  <2>3. Accept(p, 0 * ChunkSize, FirstChunks(p, 0), "prefill")
    BY <1>11, <2>1, <2>2 DEF Cache!Root
  <2>4. HoldsIn(kv', kvPos', ssm', Take(p, 0 * ChunkSize))
    BY <1>3, <1>11, <2>2, HoldsNothing DEF Reset
  <2>5. P!CacheInv' /\ CachedExact'
    <3>1. chunks' = chunks
      BY <1>11 DEF cache
    <3> QED BY <1>11, <3>1, CacheUntouched DEF CachedExact
  <2>6. \A j \in 1..0 : FirstChunks(p, j) \in DOMAIN chunks'
    OBVIOUS
  <2> QED BY <1>3, <1>6, <1>8, <1>11, <2>2, <2>3, <2>4, <2>5, <2>6, AcceptKeeps
<1>12. CASE /\ Cache!RestoreLongestPrefix(path)
            /\ kv' = [i \in Positions |-> CellFrom(FirstChunks(p, n), i)]
            /\ kvPos' = ImportedTo(n)
            /\ ssm' = chunks[FirstChunks(p, n)].state.ssm
            /\ logits' = Junk
            /\ Accept(p, n * ChunkSize, FirstChunks(p, n), "prefill")
  <2>1. n > 0
    BY <1>12 DEF Cache!RestoreLongestPrefix, n
  <2>2. FirstChunks(p, n) \in DOMAIN chunks
    BY <1>6, <1>10, <2>1
  <2>3. path \in P!Hashes
    <3>1. q > 0
      BY <1>3, <1>5, <2>1
    <3> QED BY <1>2, <1>3, <3>1, PathsAreHashes
  <2>4. P!CacheInv' /\ chunks' = chunks
    BY <1>12, <2>3, RestoreIsAStep
  <2>5. CachedExact'
    BY <2>4 DEF CachedExact
  <2>6. HoldsIn(kv', kvPos', ssm', Take(p, n * ChunkSize))
    <3> DEFINE b == Take(p, n * ChunkSize)
    <3>1. n * ChunkSize \in 0..Len(p)
      BY <1>3, <1>8
    <3>2. b \in Seq(Tokens) /\ Len(b) = n * ChunkSize
      BY <1>3, <3>1, TakeType
    <3>3. kvPos' = n * ChunkSize
      BY <1>12 DEF ImportedTo
    <3>4. ssm' = b
      <4>1. chunks[FirstChunks(p, n)].state.ssm = TokensOf(FirstChunks(p, n))
        BY <2>2 DEF CachedExact, ExactEntry
      <4> QED BY <1>3, <1>6, <1>12, <4>1, TokensOfChunks
    <3>5. ASSUME NEW i \in 0..(n * ChunkSize - 1) PROVE kv'[i] = Take(b, i + 1)
      <4>1. i \in Positions
        BY <1>3, <3>1, LengthsAssumption DEF Positions
      <4>2. kv'[i] = CellFrom(FirstChunks(p, n), i)
        BY <1>12, <4>1
      <4>3. CellFrom(FirstChunks(p, n), i) = Take(p, i + 1)
        BY <1>6, <2>2, RestoredCell
      <4>4. i + 1 \in 0..(n * ChunkSize)
        BY <3>1
      <4>5. Take(b, i + 1) = Take(p, i + 1)
        BY <1>3, <3>1, <4>4, TakeTake
      <4> QED BY <4>2, <4>3, <4>5
    <3> HIDE DEF b
    <3>6. HoldsIn(kv', kvPos', ssm', b)
      BY <3>2, <3>3, <3>4, <3>5 DEF HoldsIn
    <3> QED BY <3>6 DEF b
  <2> QED BY <1>6, <1>8, <1>10, <1>12, <2>4, <2>5, <2>6, AcceptKeeps
<1> QED BY <1>1, <1>9, <1>11, <1>12 DEF n, path

\* A tile ends somewhere.
LEMMA TileEndNat ==
    ASSUME cursor \in Nat, Len(prompt) \in Nat
    PROVE  TileEnd \in Nat
<1>1. ChunkSize \in Nat \ {0} /\ TileTokens \in Nat \ {0}
  BY LengthsAssumption
<1>2. cursor \div ChunkSize \in Nat
  BY <1>1, Division
<1> DEFINE a == cursor + TileTokens
           b == (cursor \div ChunkSize + 1) * ChunkSize
<1>3. a \in Nat
  BY <1>1
<1>4. b \in Nat
  BY <1>1, <1>2
<1> HIDE DEF a, b
<1>5. TileEnd = Min({a, Len(prompt), b})
  BY DEF TileEnd, a, b
<1>6. TileEnd \in {a, Len(prompt), b}
  BY <1>3, <1>4, <1>5, MinOfThree
<1> QED BY <1>3, <1>4, <1>6

\* A tile ends after it begins, within the prompt and within its chunk.
LEMMA TileEndType ==
    ASSUME cursor \in Nat, Len(prompt) \in Nat, cursor < Len(prompt)
    PROVE  /\ TileEnd \in Nat /\ cursor < TileEnd /\ TileEnd <= Len(prompt)
           /\ TileEnd <= (cursor \div ChunkSize + 1) * ChunkSize
<1> DEFINE q == cursor \div ChunkSize
           b == (q + 1) * ChunkSize
           a == cursor + TileTokens
<1>1. ChunkSize \in Nat \ {0} /\ TileTokens \in Nat \ {0}
  BY LengthsAssumption
<1>2. q \in Nat /\ cursor % ChunkSize \in 0..(ChunkSize - 1)
      /\ cursor = q * ChunkSize + (cursor % ChunkSize)
  BY <1>1, Division
<1> HIDE DEF q
<1>3. q * ChunkSize \in Nat /\ b = q * ChunkSize + ChunkSize
  BY <1>1, <1>2
<1> HIDE DEF b
<1>4. b \in Nat /\ cursor < b
  BY <1>1, <1>2, <1>3
<1>5. a \in Nat /\ cursor < a
  BY <1>1
<1> HIDE DEF a
<1>6. TileEnd = Min({a, Len(prompt), b})
  BY DEF TileEnd, a, b, q
<1>7. /\ TileEnd \in {a, Len(prompt), b}
      /\ TileEnd <= Len(prompt) /\ TileEnd <= b
  <2>1. a \in Int /\ Len(prompt) \in Int /\ b \in Int
    BY <1>4, <1>5
  <2> QED BY <1>6, <2>1, MinOfThree
<1>8. TileEnd \in Nat /\ cursor < TileEnd
  BY <1>4, <1>5, <1>7
<1> QED BY <1>7, <1>8 DEF b, q

\* A tile of the prompt, and the snapshot that may be due at its end.
LEMMA TileKeeps ==
    ASSUME InferenceInv, PrefillTile
    PROVE  InferenceInv'
<1>1. phase = "prefill" /\ Reading /\ Chained /\ P!CacheInv /\ CachedExact
  BY DEF InferenceInv, PrefillTile
<1>2. PICK p \in Prompts : prompt = p
  BY <1>1 DEF Reading
<1>3. ChunkSize \in Nat \ {0} /\ p \in Seq(Tokens) /\ Len(p) \in Nat /\ Len(p) <= MaxSeqLen
  BY PromptType, LengthsAssumption
<1> DEFINE e == TileEnd
           q == cursor \div ChunkSize
<1>4. cursor \in 0..Len(p) /\ cursor \in Nat /\ cursor < Len(p)
  BY <1>1, <1>2, <1>3 DEF Reading, PrefillTile
<1>5. e \in Nat /\ cursor < e /\ e <= Len(p) /\ e <= (q + 1) * ChunkSize
  BY <1>2, <1>3, <1>4, TileEndType
<1>6. /\ Forward(SubSeq(p, cursor + 1, e), cursor)
      /\ logits' = IF e = Len(p) THEN ssm' ELSE logits
      /\ cursor' = e
      /\ phase' = "prefill" /\ prompt' = p /\ generated' = generated
  BY <1>1, <1>2 DEF PrefillTile, ComputeLogits
<1>7. IF e % ChunkSize = 0 THEN CacheBoundary(e) ELSE UNCHANGED <<hash, cache>>
  BY DEF PrefillTile
<1> HIDE DEF e
<1>8. HoldsIn(kv', kvPos', ssm', Take(p, e))
  <2>1. PICK m \in 0..Len(p) : m = cursor
    BY <1>4
  <2>2. e \in m..Len(p)
    BY <1>3, <1>5, <2>1
  <2>3. Holds(Take(p, m))
    BY <1>1, <1>2, <2>1 DEF Reading
  <2>4. Forward(SubSeq(p, m + 1, e), m)
    BY <1>6, <2>1
  <2>5. PICK n \in m..Len(p) : n = e
    BY <2>2
  <2>6. Forward(SubSeq(p, m + 1, n), m)
    BY <2>4, <2>5
  <2>7. Holds(Take(p, n))'
    BY <1>3, <2>3, <2>6, TileHolds
  <2> QED BY <2>5, <2>7 DEF Holds
<1>9. Reading'
  <2>1. e = Len(p) => logits' = p
    <3>1. SUFFICES ASSUME e = Len(p) PROVE logits' = p
      OBVIOUS
    <3>2. ssm' = Take(p, e)
      BY <1>8 DEF HoldsIn
    <3> QED BY <1>3, <1>6, <3>1, <3>2, TakeAll
  <2>2. generated = <<>>
    BY <1>1 DEF Reading
  <2>3. e \in 0..Len(p)
    BY <1>3, <1>5
  <2> QED BY <1>6, <1>8, <2>1, <2>2, <2>3 DEF Reading, Holds
<1>10. hash = FirstChunks(p, q)
       /\ ((\A j \in 1..q : FirstChunks(p, j) \in DOMAIN chunks) \/ Full)
  BY <1>1, <1>2 DEF Chained, PrefixCached
<1>11. q \in Nat /\ e % ChunkSize \in 0..(ChunkSize - 1)
       /\ e \div ChunkSize \in Nat /\ e = (e \div ChunkSize) * ChunkSize + (e % ChunkSize)
  BY <1>3, <1>4, <1>5, Division
<1>12. e \div ChunkSize = IF e % ChunkSize = 0 THEN q + 1 ELSE q
  BY <1>3, <1>4, <1>5, TileCompletesChunk
<1> HIDE DEF q
<1>13. CASE e % ChunkSize = 0
  <2>1. e = (q + 1) * ChunkSize
    <3>1. (q + 1) * ChunkSize \in Nat
      BY <1>3, <1>11
    <3> QED BY <1>3, <1>11, <1>12, <1>13, <3>1
  <2>2. q + 1 \in 0..(Len(p) \div ChunkSize)
    <3>1. e \div ChunkSize <= Len(p) \div ChunkSize
      BY <1>3, <1>5, QuotientGrows
    <3>2. Len(p) \div ChunkSize \in Nat
      BY <1>3, Division
    <3> QED BY <1>11, <1>12, <1>13, <3>1, <3>2
  <2>3. PICK d \in Nat : d = q
    BY <1>11
  <2>4. CacheBoundary((d + 1) * ChunkSize)
    BY <1>7, <1>13, <2>1, <2>3
  <2>5. Holds(Take(p, (d + 1) * ChunkSize))'
    <3>1. HoldsIn(kv', kvPos', ssm', Take(p, (d + 1) * ChunkSize))
      BY <1>8, <2>1, <2>3
    <3> QED BY <3>1 DEF Holds
  <2>6. /\ d + 1 \in 0..(Len(p) \div ChunkSize)
        /\ hash = FirstChunks(p, d)
        /\ (\A j \in 1..d : FirstChunks(p, j) \in DOMAIN chunks) \/ Full
    BY <1>10, <2>2, <2>3
  <2>7. /\ P!CacheInv' /\ CachedExact'
        /\ hash' = FirstChunks(p, d + 1)
        /\ (\A j \in 1..(d + 1) : FirstChunks(p, j) \in DOMAIN chunks') \/ Full'
    BY <1>1, <1>2, <2>4, <2>5, <2>6, BoundaryKeeps
  <2>8. cursor' \div ChunkSize = d + 1
    BY <1>6, <1>12, <1>13, <2>3
  <2>9. PrefixCached'
    BY <1>6, <2>7, <2>8 DEF PrefixCached
  <2>10. Chained'
    BY <1>6, <2>7, <2>8, <2>9 DEF Chained
  <2> QED BY <1>6, <1>9, <2>7, <2>10 DEF InferenceInv
<1>14. CASE e % ChunkSize # 0
  <2>1. hash' = hash /\ UNCHANGED cache /\ chunks' = chunks
    BY <1>7, <1>14 DEF cache
  <2>2. P!CacheInv'
    BY <1>1, <2>1, CacheUntouched
  <2>3. CachedExact'
    BY <1>1, <2>1 DEF CachedExact
  <2>4. cursor' \div ChunkSize = q
    BY <1>6, <1>12, <1>14
  <2>5. PrefixCached'
    BY <1>6, <1>10, <2>1, <2>4 DEF PrefixCached, Full
  <2>6. Chained'
    BY <1>6, <1>10, <2>1, <2>4, <2>5 DEF Chained
  <2> QED BY <1>6, <1>9, <2>2, <2>3, <2>6 DEF InferenceInv
<1> QED BY <1>13, <1>14

\* A step that leaves the cache alone keeps what is known of it.
LEMMA CacheKept ==
    ASSUME InferenceInv, UNCHANGED cache
    PROVE  P!CacheInv' /\ CachedExact'
<1>1. chunks' = chunks
  BY DEF cache
<1> QED BY <1>1, CacheUntouched DEF InferenceInv, CachedExact

\* A step that leaves the cache alone and the engine thread idle.
LEMMA IdleKeeps ==
    ASSUME InferenceInv, UNCHANGED cache, phase' = "idle"
    PROVE  InferenceInv'
BY CacheKept DEF InferenceInv

LEMMA GrammarStartKeeps ==
    ASSUME InferenceInv, StartGrammar
    PROVE  InferenceInv'
<1>1. P!CacheInv' /\ CachedExact'
  BY CacheKept DEF StartGrammar
<1>2. PICK p \in Prompts : Accept(p, 0, Cache!Root, "grammar")
  BY DEF StartGrammar
<1>3. p \in Seq(Tokens) /\ Len(p) \in 1..MaxPrompt /\ Len(p) \in Nat
  BY PromptType
<1>4. HoldsIn(kv', kvPos', ssm', Take(p, 0))
  BY <1>3, HoldsNothing DEF StartGrammar, Reset
<1>5. prompt' = p /\ cursor' = 0 /\ generated' = <<>> /\ phase' = "grammar"
  BY <1>2 DEF Accept
<1>6. cursor' # Len(p) /\ 0 \in 0..Len(p)
  BY <1>3, <1>5
<1>7. Reading'
  BY <1>4, <1>5, <1>6 DEF Reading, Holds
<1> QED BY <1>1, <1>5, <1>7 DEF InferenceInv

\* One token of the prompt of a JSON request.
LEMMA GrammarKeeps ==
    ASSUME InferenceInv, PrefillGrammar
    PROVE  InferenceInv'
<1>1. phase = "grammar" /\ Reading
  BY DEF InferenceInv, PrefillGrammar
<1>2. P!CacheInv' /\ CachedExact'
  BY CacheKept DEF PrefillGrammar
<1>3. PICK p \in Prompts : prompt = p
  BY <1>1 DEF Reading
<1>4. p \in Seq(Tokens) /\ Len(p) \in Nat /\ Len(p) <= MaxSeqLen
  BY PromptType
<1>5. cursor \in 0..Len(p) /\ cursor \in Nat /\ cursor < Len(p)
  BY <1>1, <1>3, <1>4 DEF Reading, PrefillGrammar
<1>6. PICK m \in 0..Len(p) : m = cursor
  BY <1>5
<1>7. /\ Forward(<<p[m + 1]>>, m)
      /\ logits' = IF m + 1 = Len(p) THEN ssm' ELSE logits
      /\ cursor' = m + 1
      /\ phase' = "grammar" /\ prompt' = p /\ generated' = generated
  BY <1>1, <1>3, <1>6 DEF PrefillGrammar, ComputeLogits
<1>8. m + 1 \in m..Len(p) /\ m + 1 \in 0..Len(p) /\ m \in Nat
  BY <1>4, <1>5, <1>6
<1>9. SubSeq(p, m + 1, m + 1) = <<p[m + 1]>>
  <2> DEFINE t == SubSeq(p, m + 1, m + 1)
             u == <<p[m + 1]>>
  <2>1. m + 1 \in 1..Len(p) /\ p[m + 1] \in Tokens
    BY <1>4, <1>8, ElementOfSeq
  <2>2. \A i \in (m + 1)..(m + 1) : p[i] \in Tokens
    BY <2>1
  <2>3. /\ t \in Seq(Tokens)
        /\ Len(t) = (IF m + 1 <= m + 1 THEN m + 1 - (m + 1) + 1 ELSE 0)
        /\ \A i \in 1..(m + 1 - (m + 1) + 1) : t[i] = p[(m + 1) + i - 1]
    BY <1>8, <2>2, SubSeqProperties
  <2>4. Len(t) = 1 /\ t[1] = p[m + 1]
    BY <1>8, <2>3
  <2>5. u \in Seq(Tokens) /\ Len(u) = 1 /\ u[1] = p[m + 1]
    BY <2>1
  <2> HIDE DEF t, u
  <2>6. \A i \in 1..1 : t[i] = u[i]
    BY <2>4, <2>5
  <2>7. t = u
    BY <2>3, <2>4, <2>5, <2>6, SeqEqual
  <2> QED BY <2>7 DEF t, u
<1>10. Holds(Take(p, m + 1))'
  <2>1. Holds(Take(p, m))
    BY <1>1, <1>3, <1>6 DEF Reading
  <2>2. PICK n \in m..Len(p) : n = m + 1
    BY <1>8
  <2>3. Forward(SubSeq(p, m + 1, n), m)
    BY <1>7, <1>9, <2>2
  <2>4. Holds(Take(p, n))'
    BY <1>4, <2>1, <2>3, TileHolds
  <2> QED BY <2>2, <2>4
<1>11. Reading'
  <2>1. m + 1 = Len(p) => logits' = p
    <3>1. SUFFICES ASSUME m + 1 = Len(p) PROVE logits' = p
      OBVIOUS
    <3>2. ssm' = Take(p, m + 1)
      BY <1>10 DEF Holds, HoldsIn
    <3> QED BY <1>4, <1>7, <3>1, <3>2, TakeAll
  <2>2. generated = <<>>
    BY <1>1 DEF Reading
  <2> QED BY <1>7, <1>8, <1>10, <2>1, <2>2 DEF Reading, Holds
<1> QED BY <1>2, <1>7, <1>11 DEF InferenceInv

\* The prompt has been read.
LEMMA BeginDecodeKeeps ==
    ASSUME InferenceInv, BeginDecode
    PROVE  InferenceInv' /\ Generating /\ generated = <<>> /\ logits = prompt
<1>1. Reading /\ phase' = "decode" /\ UNCHANGED <<model, request, cache>>
  BY DEF InferenceInv, BeginDecode
<1>2. P!CacheInv' /\ CachedExact'
  BY CacheKept DEF BeginDecode
<1>3. PICK p \in Prompts : prompt = p
  BY <1>1 DEF Reading
<1>4. p \in Seq(Tokens) /\ Len(p) \in Nat /\ Len(p) <= MaxSeqLen
  BY PromptType
<1>5. cursor = Len(p)
  BY <1>1, <1>3, <1>4 DEF Reading, BeginDecode
<1>6. p \o <<>> = p /\ <<>> \in Seq(Tokens)
  BY <1>4, ConcatEmptySeq, EmptySeq
<1>7. Holds(p) /\ logits = p /\ generated = <<>>
  BY <1>1, <1>3, <1>4, <1>5, TakeAll DEF Reading
<1>8. Generating
  BY <1>3, <1>4, <1>6, <1>7 DEF Generating
<1>9. Generating'
  BY <1>1, <1>8 DEF Generating, Holds, model, request
<1> QED BY <1>1, <1>2, <1>3, <1>7, <1>8, <1>9 DEF InferenceInv

\* The answer grows by one token, of which the model then holds the value.
LEMMA DecodeKeeps ==
    ASSUME InferenceInv, Decode
    PROVE  /\ InferenceInv'
           /\ Len(logits) < MaxSeqLen
           /\ \E t \in Tokens : /\ generated' = Append(generated, t)
                               /\ logits' = Append(logits, t)
<1>1. phase = "decode" /\ Generating
  BY DEF InferenceInv, Decode
<1>2. P!CacheInv' /\ CachedExact'
  BY CacheKept DEF Decode
<1>3. PICK p \in Prompts, g \in Seq(Tokens) : prompt = p /\ generated = g
  BY <1>1 DEF Generating
<1> DEFINE s == p \o g
<1>4. p \in Seq(Tokens) /\ Len(p) \in Nat /\ Len(g) \in Nat
      /\ s \in Seq(Tokens) /\ Len(s) = Len(p) + Len(g)
  BY PromptType, LenProperties, ConcatProperties
<1>5. Holds(s) /\ logits = s
  BY <1>1, <1>3 DEF Generating
<1>6. PICK t \in Tokens :
        Forward(<<t>>, Position) /\ logits' = ssm' /\ generated' = Append(generated, t)
  BY DEF Decode
<1>7. phase' = "decode" /\ prompt' = p
  BY <1>1, <1>3 DEF Decode
<1>8. Position = Len(s) /\ Len(s) < MaxSeqLen
  BY <1>3, <1>4 DEF Decode, Position, ContextHasRoom
<1>9. <<t>> \in Seq(Tokens) /\ Len(<<t>>) = 1
  OBVIOUS
<1>10. p \o Append(g, t) = s \o <<t>> /\ Append(g, t) \in Seq(Tokens)
       /\ s \o <<t>> = Append(s, t)
  <2>1. Append(g, t) = g \o <<t>> /\ Append(g, t) \in Seq(Tokens)
    BY AppendProperties, AppendIsConcat
  <2>2. p \o (g \o <<t>>) = (p \o g) \o <<t>>
    BY <1>4, <1>9, ConcatAssociative
  <2>3. Append(s, t) = s \o <<t>>
    BY <1>4, AppendIsConcat
  <2> QED BY <2>1, <2>2, <2>3
<1> HIDE DEF s
<1>11. Len(s) + Len(<<t>>) <= MaxSeqLen
  BY <1>4, <1>8, <1>9, LengthsAssumption
<1>12. Holds(s \o <<t>>)' /\ Len(s \o <<t>>) = Len(s) + Len(<<t>>)
  <2>1. Forward(<<t>>, Len(s))
    BY <1>6, <1>8
  <2> QED BY <1>4, <1>5, <1>9, <1>11, <2>1, ForwardHolds
<1> DEFINE r == s \o <<t>>
<1>13. HoldsIn(kv', kvPos', ssm', r) /\ Len(r) <= MaxSeqLen
  BY <1>11, <1>12 DEF Holds, s
<1>14. prompt' \o generated' = r /\ generated' \in Seq(Tokens)
  BY <1>3, <1>6, <1>7, <1>10
<1> HIDE DEF r
<1>15. logits' = r
  BY <1>6, <1>13 DEF HoldsIn
<1>16. Generating'
  BY <1>7, <1>13, <1>14, <1>15 DEF Generating, Holds
<1>17. InferenceInv'
  BY <1>2, <1>7, <1>16 DEF InferenceInv
<1>18. logits' = Append(logits, t)
  BY <1>5, <1>10, <1>15 DEF r
<1> QED BY <1>5, <1>6, <1>8, <1>17, <1>18

\* An empty context and an empty cache.
LEMMA InferenceInvInit == ModelInit => InferenceInv
<1> SUFFICES ASSUME ModelInit PROVE InferenceInv
  OBVIOUS
<1>1. P!Init
  BY DEF ModelInit, Cache!Init, P!Init
<1>2. P!CacheInv
  BY <1>1, P!CacheInvInit, Assumed
<1>3. CachedExact
  BY DEF CachedExact, ModelInit, Cache!Init
<1> QED BY <1>2, <1>3 DEF InferenceInv, ModelInit

\* Every step of the inference loop keeps the invariant.
LEMMA InferenceInvNext == InferenceInv /\ [ModelNext]_modelVars => InferenceInv'
<1> SUFFICES ASSUME InferenceInv, [ModelNext]_modelVars PROVE InferenceInv'
  OBVIOUS
<1>1. CASE Start
  BY <1>1, StartKeeps DEF InferenceInv
<1>2. CASE Refuse
  BY <1>2, IdleKeeps DEF Refuse, request
<1>3. CASE StartGrammar
  BY <1>3, GrammarStartKeeps
<1>4. CASE PrefillTile
  BY <1>4, TileKeeps
<1>5. CASE PrefillGrammar
  BY <1>5, GrammarKeeps
<1>6. CASE BeginDecode
  BY <1>6, BeginDecodeKeeps
<1>7. CASE Decode
  BY <1>7, DecodeKeeps
<1>8. CASE EndDecode
  BY <1>8, IdleKeeps DEF EndDecode
<1>9. CASE CancelPrefill
  BY <1>9, IdleKeeps DEF CancelPrefill
<1>10. CASE Fail
  BY <1>10, IdleKeeps DEF Fail
<1>11. CASE UNCHANGED modelVars
  <2>1. UNCHANGED cache /\ UNCHANGED model /\ UNCHANGED request /\ UNCHANGED phase /\ chunks' = chunks
    BY <1>11 DEF modelVars, cache
  <2>2. P!CacheInv' /\ CachedExact'
    BY <2>1, CacheKept
  <2>3. Reading => Reading'
    BY <2>1 DEF Reading, Holds, model, request
  <2>4. Chained => Chained'
    BY <2>1 DEF Chained, PrefixCached, Full, request
  <2>5. Generating => Generating'
    BY <2>1 DEF Generating, Holds, model, request
  <2> QED BY <2>1, <2>2, <2>3, <2>4, <2>5 DEF InferenceInv
<1> QED BY <1>1, <1>2, <1>3, <1>4, <1>5, <1>6, <1>7, <1>8, <1>9, <1>10, <1>11 DEF ModelNext

----------------------------------------------------------------------------
(* The theorems.                                                           *)

\* Whatever is restored, refused, cancelled or failed, the model holds exactly
\* the tokens of the request it works on, and every cached snapshot is exact.
THEOREM InferenceInductive == ModelSpec => []InferenceInv
<1>1. ModelInit => InferenceInv
  BY InferenceInvInit
<1>2. InferenceInv /\ [ModelNext]_modelVars => InferenceInv'
  BY InferenceInvNext
<1> QED BY <1>1, <1>2, PTL DEF ModelSpec

\* No cached snapshot ever mixes the tokens of two requests, of a restore and
\* what followed it, or of a failed forward pass.
THEOREM SnapshotsStayExact == ModelSpec => []SnapshotsExact
<1>1. InferenceInv => SnapshotsExact
  BY DEF InferenceInv, CachedExact, ExactEntry, SnapshotsExact
<1> QED BY <1>1, InferenceInductive, PTL

\* The position the KV cache reports is that of the request, after a restore
\* as after a reset.
THEOREM PositionsStayExact == ModelSpec => []PositionExact
<1>1. InferenceInv => PositionExact
  <2> SUFFICES ASSUME InferenceInv PROVE PositionExact
    OBVIOUS
  <2>1. ASSUME phase \in {"prefill", "grammar"} PROVE kvPos = cursor
    <3>1. Reading
      BY <2>1 DEF InferenceInv
    <3>2. prompt \in Seq(Tokens) /\ cursor \in 0..Len(prompt)
      BY <3>1, PromptType DEF Reading
    <3>3. Len(Take(prompt, cursor)) = cursor
      BY <3>2, TakeType
    <3> QED BY <3>1, <3>3 DEF Reading, Holds, HoldsIn
  <2>2. ASSUME phase = "decode" PROVE kvPos = Position
    <3>1. Generating
      BY <2>2 DEF InferenceInv
    <3>2. prompt \in Seq(Tokens) /\ generated \in Seq(Tokens)
      BY <3>1, PromptType DEF Generating
    <3>3. Len(prompt \o generated) = Len(prompt) + Len(generated)
      BY <3>2, ConcatProperties
    <3> QED BY <3>1, <3>3 DEF Generating, Holds, HoldsIn, Position
  <2> QED BY <2>1, <2>2 DEF PositionExact
<1> QED BY <1>1, InferenceInductive, PTL

\* A lookup of any cached chunk finds it: none holds memory in vain.
THEOREM EverythingReachable == ModelSpec => []AllReachable
<1>1. InferenceInv => AllReachable
  <2> SUFFICES ASSUME InferenceInv, NEW h \in DOMAIN chunks
               PROVE  Cache!MatchedChunks(h) = Len(h)
    BY DEF AllReachable
  <2>1. Len(h) \in Nat /\ \A k \in 1..Len(h) : SubSeq(h, 1, k) \in DOMAIN chunks
    BY WholeWalk DEF InferenceInv
  <2> DEFINE n == Cache!MatchedChunks(h)
  <2>2. n \in 0..Len(h) /\ Len(h) <= n
    BY <2>1, MatchedIsCached
  <2> HIDE DEF n
  <2>3. n = Len(h)
    BY <2>1, <2>2
  <2> QED BY <2>3 DEF n
<1> QED BY <1>1, InferenceInductive, PTL

\* A prompt read to its end can be found again up to its last full chunk: only
\* a full cache refuses or evicts.
THEOREM PromptsStayCached == ModelSpec => []PromptCachedUnlessFull
<1>1. InferenceInv => PromptCachedUnlessFull
  <2> SUFFICES ASSUME InferenceInv, phase = "prefill", cursor = Len(prompt), ~Full
               PROVE  Cache!MatchedChunks(PathOf(prompt)) = Len(prompt) \div ChunkSize
    BY DEF PromptCachedUnlessFull, Full
  <2>1. Reading /\ Chained
    BY DEF InferenceInv
  <2>2. PICK p \in Prompts : prompt = p
    BY <2>1 DEF Reading
  <2> DEFINE q == Len(p) \div ChunkSize
             path == FirstChunks(p, q)
  <2>3. p \in Seq(Tokens) /\ Len(p) \in Nat /\ q \in Nat
    BY PromptType, LengthsAssumption, Division
  <2>4. \A j \in 1..q : FirstChunks(p, j) \in DOMAIN chunks
    BY <2>1, <2>2 DEF Chained, PrefixCached
  <2>5. PathOf(prompt) = path
    BY <2>2 DEF PathOf, FirstChunks
  <2>6. Len(path) = q
    BY <2>3, FirstChunksType
  <2>7. \A j \in 0..q : SubSeq(path, 1, j) = FirstChunks(p, j)
    <3>1. q \in 0..(Len(p) \div ChunkSize)
      BY <2>3
    <3> QED BY <2>3, <3>1, ChunksOfChunks
  <2>8. \A j \in 1..q : SubSeq(path, 1, j) \in DOMAIN chunks
    <3>1. \A j \in 1..q : j \in 0..q
      BY <2>3
    <3> QED BY <2>4, <2>7, <3>1
  <2> HIDE DEF q, path
  <2> DEFINE n == Cache!MatchedChunks(path)
  <2>9. n \in 0..q /\ q <= n
    BY <2>3, <2>6, <2>8, MatchedIsCached
  <2> HIDE DEF n
  <2>10. n = q
    BY <2>3, <2>9
  <2> QED BY <2>2, <2>5, <2>10 DEF n, q
<1> QED BY <1>1, InferenceInductive, PTL

\* A request is answered as by a model without any cache: every token is drawn
\* from the prediction for the prompt this request came with followed by the
\* tokens generated for it so far.
THEOREM ColdModelImplemented == ModelSpec => ImplementsCold
<1>1. ModelInit => Cold!Init
  BY DEF ModelInit, Cold!Init, Stage, Context
<1>2. InferenceInv /\ [ModelNext]_modelVars => [Cold!Next]_Cold!vars
  <2> SUFFICES ASSUME InferenceInv, [ModelNext]_modelVars
               PROVE  Cold!Next \/ UNCHANGED <<Stage, prompt, generated, Context>>
    BY DEF Cold!vars
  <2>1. phase \in {"idle", "prefill", "grammar", "decode"}
    BY DEF InferenceInv
  <2>2. CASE Start \/ StartGrammar
    <3>1. /\ phase = "idle" /\ phase' \in {"prefill", "grammar"}
          /\ prompt' \in Prompts /\ generated' = <<>>
      BY <2>2 DEF Start, StartGrammar, Accept
    <3>2. Stage = "idle" /\ Stage' = "reading" /\ Context = <<>> /\ Context' = <<>>
      BY <3>1 DEF Stage, Context
    <3> QED BY <3>1, <3>2 DEF Cold!Next, Cold!Ask
  <2>3. CASE BeginDecode
    <3>1. logits = prompt
      BY <2>3, BeginDecodeKeeps
    <3>2. /\ phase \in {"prefill", "grammar"} /\ phase' = "decode"
          /\ logits' = logits /\ prompt' = prompt /\ generated' = generated
      BY <2>3 DEF BeginDecode, model, request
    <3>3. Stage = "reading" /\ Stage' = "answering" /\ Context' = prompt
      BY <3>1, <3>2 DEF Stage, Context
    <3> QED BY <3>2, <3>3 DEF Cold!Next, Cold!Read
  <2>4. CASE Decode
    <3>1. phase = "decode" /\ phase' = phase /\ prompt' = prompt
      BY <2>4 DEF Decode
    <3>2. Context = prompt \o generated
      BY <3>1 DEF InferenceInv, Generating, Context
    <3>3. /\ Len(logits) < MaxSeqLen
          /\ \E t \in Tokens : /\ generated' = Append(generated, t)
                              /\ logits' = Append(logits, t)
      BY <2>4, DecodeKeeps
    <3>4. /\ Stage = "answering" /\ Stage' = Stage
          /\ Context = logits /\ Context' = logits'
      BY <3>1 DEF Stage, Context
    <3> QED BY <3>1, <3>2, <3>3, <3>4 DEF Cold!Next, Cold!Draw
  <2>5. CASE EndDecode \/ CancelPrefill \/ Fail
    <3>1. phase # "idle" /\ phase' = "idle" /\ prompt' = prompt /\ generated' = generated
      BY <2>5 DEF EndDecode, CancelPrefill, Fail, request
    <3>2. Stage # "idle" /\ Stage' = "idle" /\ Context' = <<>>
      BY <2>1, <3>1 DEF Stage, Context
    <3> QED BY <3>1, <3>2 DEF Cold!Next, Cold!Finish
  <2>6. CASE PrefillTile \/ PrefillGrammar
    <3>1. /\ phase \in {"prefill", "grammar"} /\ phase' = phase
          /\ prompt' = prompt /\ generated' = generated
      BY <2>6 DEF PrefillTile, PrefillGrammar
    <3> QED BY <3>1 DEF Stage, Context
  <2>7. CASE Refuse
    <3>1. phase = "idle" /\ phase' = phase /\ prompt' = prompt /\ generated' = generated
      BY <2>7 DEF Refuse, request
    <3> QED BY <3>1 DEF Stage, Context
  <2>8. CASE UNCHANGED modelVars
    BY <2>8 DEF modelVars, model, request, Stage, Context
  <2> QED BY <2>2, <2>3, <2>4, <2>5, <2>6, <2>7, <2>8 DEF ModelNext
<1> QED BY <1>1, <1>2, InferenceInductive, PTL DEF ModelSpec, ImplementsCold, Cold!Spec

----------------------------------------------------------------------------
(* The type of the model's state.                                          *)

LEMMA HistoryType ==
    ASSUME NEW s \in Seq(Tokens), Len(s) <= MaxSeqLen
    PROVE  s \in Histories /\ Len(s) \in 0..MaxSeqLen
<1>1. Len(s) \in 0..MaxSeqLen /\ s \in [1..Len(s) -> Tokens]
  BY LenProperties, LengthsAssumption
<1> QED BY <1>1 DEF Histories

LEMMA JunkType == Junk \in Histories
BY DEF Histories

\* What the forward pass stores.
LEMMA ForwardTyped ==
    ASSUME NEW r \in Seq(Tokens), Len(r) <= MaxSeqLen,
           NEW pos \in Nat, NEW t, Len(t) \in Nat, pos + Len(t) = Len(r),
           Forward(t, pos), HoldsIn(kv', kvPos', ssm', r),
           kv \in [Positions -> Histories]
    PROVE  /\ kv' \in [Positions -> Histories]
           /\ kvPos' \in 0..MaxSeqLen
           /\ ssm' \in Histories
<1>1. Len(r) \in Nat /\ Len(r) \in 0..MaxSeqLen /\ r \in Histories
  BY HistoryType, LenProperties
<1>2. ASSUME NEW i \in Positions PROVE kv'[i] \in Histories
  <2>1. CASE i < Len(r)
    <3>1. i \in 0..(Len(r) - 1) /\ i + 1 \in 0..Len(r)
      BY <1>1, <2>1 DEF Positions
    <3>2. kv'[i] = Take(r, i + 1)
      BY <3>1 DEF HoldsIn
    <3>3. Take(r, i + 1) \in Seq(Tokens) /\ Len(Take(r, i + 1)) = i + 1
      BY <3>1, TakeType
    <3>4. i + 1 <= MaxSeqLen
      BY <1>1, <3>1, LengthsAssumption
    <3> QED BY <3>2, <3>3, <3>4, HistoryType
  <2>2. CASE ~(i < Len(r))
    <3>1. i \notin pos..(pos + Len(t) - 1)
      BY <1>1, <2>2 DEF Positions
    <3>2. kv'[i] = kv[i]
      BY <3>1 DEF Forward
    <3> QED BY <3>2
  <2> QED BY <2>1, <2>2
<1>3. kv' = [i \in Positions |-> kv'[i]]
  BY DEF Forward
<1>4. kv' \in [Positions -> Histories]
  BY <1>2, <1>3
<1> QED BY <1>1, <1>4 DEF HoldsIn

\* What a restore stores: nothing beyond its end.
LEMMA RestoreTyped ==
    ASSUME P!CacheInv, CachedExact,
           NEW p \in Prompts, NEW n \in 0..(Len(p) \div ChunkSize),
           FirstChunks(p, n) \in DOMAIN chunks,
           NEW i \in Positions
    PROVE  CellFrom(FirstChunks(p, n), i) \in Histories
<1>1. ChunkSize \in Nat \ {0} /\ p \in Seq(Tokens) /\ Len(p) \in Nat
      /\ Len(p) \div ChunkSize \in Nat /\ n \in Nat /\ i \in Nat
  <2>1. ChunkSize \in Nat \ {0}
    BY LengthsAssumption
  <2> QED BY <2>1, PromptType, Division DEF Positions
<1>2. n * ChunkSize \in 0..Len(p)
  BY <1>1, ChunkBounds
<1>3. CASE i < n * ChunkSize
  <2>1. i \in 0..(n * ChunkSize - 1) /\ i + 1 \in 0..Len(p)
    BY <1>1, <1>2, <1>3
  <2> QED BY <2>1, RestoredCell, TakeIsHistory
<1>4. CASE ~(i < n * ChunkSize)
  <2> DEFINE found == FirstChunks(p, n)
             over == {g \in Imported(found) :
                         i \in (chunks[g].start * ChunkSize)..(Len(g) * ChunkSize - 1)}
  <2>1. Len(found) = n
    BY <1>1, FirstChunksType
  <2>2. found \in DOMAIN chunks
    OBVIOUS
  <2> HIDE DEF found
  <2>3. ASSUME NEW g \in Imported(found)
        PROVE  i \notin (chunks[g].start * ChunkSize)..(Len(g) * ChunkSize - 1)
    <3>1. PICK k \in 1..n : g = SubSeq(found, 1, k)
      BY <2>1, <2>2, WholeWalk DEF Imported
    <3>2. found \in Seq(Contents)
      BY <1>1, FirstChunksType DEF found
    <3>3. Len(g) = k /\ k \in Nat /\ k <= n
      BY <1>1, <2>1, <3>1, <3>2, TakeType DEF Take
    <3>4. Len(g) * ChunkSize \in Nat /\ Len(g) * ChunkSize <= n * ChunkSize
      BY <1>1, <3>3
    <3> QED BY <1>1, <1>2, <1>4, <3>4
  <2>4. over = {}
    BY <2>3
  <2>5. CellFrom(found, i) = Junk
    BY <2>4 DEF CellFrom
  <2> QED BY <2>5, JunkType DEF found
<1> QED BY <1>3, <1>4

\* The parts of the type that a request can disturb.
ModelType ==
    /\ kv \in [Positions -> Histories]
    /\ kvPos \in 0..MaxSeqLen
    /\ ssm \in Histories
    /\ logits \in Histories

RequestType ==
    /\ prompt \in Prompts \cup {<<>>}
    /\ cursor \in 0..MaxPrompt
    /\ generated \in UNION {[1..n -> Tokens] : n \in 0..MaxNew}

LEMMA EmptyTyped ==
    /\ <<>> \in Histories
    /\ <<>> \in UNION {[1..n -> Tokens] : n \in 0..MaxNew}
<1>1. <<>> \in Seq(Tokens) /\ Len(<<>>) = 0
  OBVIOUS
<1>2. <<>> \in [1..0 -> Tokens]
  BY <1>1, LenProperties
<1>3. 0 \in 0..MaxNew /\ 0 \in 0..MaxSeqLen
  BY LengthsAssumption
<1>4. <<>> \in Histories
  BY <1>2, <1>3 DEF Histories
<1> QED BY <1>2, <1>3, <1>4

LEMMA ResetTyped ==
    ASSUME Reset
    PROVE  ModelType'
<1>1. 0 \in 0..MaxSeqLen
  BY LengthsAssumption
<1> QED BY <1>1, EmptyTyped, JunkType DEF Reset, ModelType

LEMMA AcceptTyped ==
    ASSUME NEW p \in Prompts, NEW n \in 0..Len(p), NEW h, NEW to, Accept(p, n, h, to)
    PROVE  RequestType'
<1>1. Len(p) \in Nat /\ Len(p) <= MaxPrompt
  BY PromptType
<1>2. n \in 0..MaxPrompt
  BY <1>1, LengthsAssumption
<1> QED BY <1>2, EmptyTyped DEF Accept, RequestType

LEMMA StartTyped ==
    ASSUME InferenceInv, Start
    PROVE  ModelType' /\ RequestType'
<1>1. P!CacheInv /\ CachedExact
  BY DEF InferenceInv
<1>2. PICK p \in Prompts :
        LET path == PathOf(Restorable(p))
            n == Cache!MatchedChunks(path)
            found == Cache!PrefixOf(path, n)
        IN
        \/ /\ n = 0
           /\ Reset
           /\ Accept(p, 0, Cache!Root, "prefill")
           /\ UNCHANGED cache
        \/ /\ Cache!RestoreLongestPrefix(path)
           /\ kv' = [i \in Positions |-> CellFrom(found, i)]
           /\ kvPos' = ImportedTo(n)
           /\ ssm' = chunks[found].state.ssm
           /\ logits' = Junk
           /\ Accept(p, n * ChunkSize, found, "prefill")
  BY DEF Start
<1> DEFINE q == (Len(p) - 1) \div ChunkSize
           path == PathOf(Restorable(p))
           n == Cache!MatchedChunks(path)
           found == Cache!PrefixOf(path, n)
<1>3. path = FirstChunks(p, q) /\ q \in 0..(Len(p) \div ChunkSize)
  BY RestorablePath
<1>4. p \in Seq(Tokens) /\ Len(p) \in Nat /\ Len(p) <= MaxSeqLen
      /\ Len(p) \div ChunkSize \in Nat
  <2>1. p \in Seq(Tokens) /\ Len(p) \in Nat /\ Len(p) <= MaxSeqLen
    BY PromptType
  <2> QED BY <2>1, LengthsAssumption, Division
<1> HIDE DEF q, path
<1>5. Len(path) = q /\ q \in Nat
  BY <1>3, <1>4, FirstChunksType
<1>6. n \in 0..q /\ \A i \in 1..n : SubSeq(path, 1, i) \in DOMAIN chunks
  BY <1>5, MatchedIsCached
<1> HIDE DEF n
<1>7. n \in 0..(Len(p) \div ChunkSize)
  BY <1>3, <1>4, <1>5, <1>6
<1>8. found = FirstChunks(p, n)
  <2>1. SubSeq(path, 1, n) = FirstChunks(p, n)
    BY <1>3, <1>4, <1>6, ChunksOfChunks
  <2> QED BY <2>1 DEF Cache!PrefixOf
<1>9. n * ChunkSize \in 0..Len(p)
  BY <1>4, <1>7, ChunkBounds
<1>10. CASE Reset /\ Accept(p, 0, Cache!Root, "prefill")
  <2>1. 0 \in 0..Len(p)
    BY <1>4
  <2> QED BY <1>10, <2>1, ResetTyped, AcceptTyped
<1>11. CASE /\ Cache!RestoreLongestPrefix(path)
            /\ kv' = [i \in Positions |-> CellFrom(found, i)]
            /\ kvPos' = ImportedTo(n)
            /\ ssm' = chunks[found].state.ssm
            /\ logits' = Junk
            /\ Accept(p, n * ChunkSize, found, "prefill")
  <2>1. n > 0
    BY <1>11 DEF Cache!RestoreLongestPrefix, n
  <2>2. found \in DOMAIN chunks
    <3>1. n \in 1..n
      BY <1>5, <1>6, <2>1
    <3> QED BY <1>6, <3>1 DEF Cache!PrefixOf
  <2>3. FirstChunks(p, n) \in DOMAIN chunks
    BY <1>8, <2>2
  <2>4. \A i \in Positions : CellFrom(found, i) \in Histories
    BY <1>1, <1>7, <1>8, <2>3, RestoreTyped
  <2>5. kv' \in [Positions -> Histories]
    BY <1>11, <2>4
  <2>6. kvPos' \in 0..MaxSeqLen
    BY <1>4, <1>9, <1>11, LengthsAssumption DEF ImportedTo
  <2>7. ssm' \in Histories
    <3>1. chunks[found] \in P!Entry
      BY <1>1, <2>2 DEF P!CacheInv, P!WellFormed
    <3> QED BY <1>11, <3>1 DEF P!Entry, Snapshots
  <2>8. ModelType'
    BY <1>11, <2>5, <2>6, <2>7, JunkType DEF ModelType
  <2>9. RequestType'
    BY <1>9, <1>11, AcceptTyped
  <2> QED BY <2>8, <2>9
<1> QED BY <1>2, <1>10, <1>11 DEF n, found, path

\* The forward passes: tiles of a prompt, and tokens one by one.
LEMMA TileTyped ==
    ASSUME InferenceInv, InferenceInv', PrefillTile \/ PrefillGrammar,
           ModelType, RequestType
    PROVE  ModelType' /\ RequestType'
<1>1. Reading
  BY DEF InferenceInv, PrefillTile, PrefillGrammar
<1>2. Reading'
  <2>1. phase' \in {"prefill", "grammar"}
    BY DEF PrefillTile, PrefillGrammar
  <2> QED BY <2>1 DEF InferenceInv
<1>3. PICK p \in Prompts : prompt = p
  BY <1>1 DEF Reading
<1>4. p \in Seq(Tokens) /\ Len(p) \in Nat /\ Len(p) <= MaxSeqLen /\ Len(p) <= MaxPrompt
  BY PromptType
<1>5. prompt' = p /\ generated' = generated /\ cursor < Len(p)
  BY <1>3 DEF PrefillTile, PrefillGrammar
<1>6. cursor \in 0..Len(p) /\ cursor \in Nat
  BY <1>1, <1>3, <1>4 DEF Reading
<1>7. PICK m \in 0..Len(p) : cursor' = m
  BY <1>2, <1>5 DEF Reading
<1> DEFINE r == Take(p, m)
<1>8. r \in Seq(Tokens) /\ Len(r) = m /\ Len(r) <= MaxSeqLen
  BY <1>4, <1>7, TakeType, LengthsAssumption
<1>9. HoldsIn(kv', kvPos', ssm', r)
  BY <1>2, <1>5, <1>7 DEF Reading, Holds
<1>10. \E t : Len(t) \in Nat /\ cursor + Len(t) = Len(r) /\ Forward(t, cursor)
  <2>1. CASE PrefillTile
    <3>1. m = TileEnd /\ cursor < TileEnd /\ TileEnd \in Nat
      BY <1>3, <1>4, <1>6, <1>7, <2>1, TileEndType DEF PrefillTile
    <3>2. m \in cursor..Len(p)
      BY <1>4, <1>6, <1>7, <3>1
    <3>3. Len(SubSeq(p, cursor + 1, m)) = m - cursor
      BY <1>4, <1>6, <3>2, TakeFurther
    <3>4. Forward(SubSeq(p, cursor + 1, m), cursor)
      BY <1>3, <2>1, <3>1 DEF PrefillTile
    <3>5. Len(SubSeq(p, cursor + 1, m)) \in Nat /\ cursor + Len(SubSeq(p, cursor + 1, m)) = m
      BY <1>6, <3>2, <3>3
    <3> QED BY <1>8, <3>4, <3>5
  <2>2. CASE PrefillGrammar
    <3>1. m = cursor + 1 /\ Forward(<<prompt[cursor + 1]>>, cursor)
      BY <1>7, <2>2 DEF PrefillGrammar
    <3>2. Len(<<prompt[cursor + 1]>>) = 1
      OBVIOUS
    <3> QED BY <1>6, <1>8, <3>1, <3>2
  <2> QED BY <2>1, <2>2
<1> HIDE DEF r
<1>11. /\ kv' \in [Positions -> Histories]
       /\ kvPos' \in 0..MaxSeqLen
       /\ ssm' \in Histories
  <2>1. kv \in [Positions -> Histories]
    BY DEF ModelType
  <2>2. PICK t : Len(t) \in Nat /\ cursor + Len(t) = Len(r) /\ Forward(t, cursor)
    BY <1>10
  <2> QED BY <1>6, <1>8, <1>9, <2>1, <2>2, ForwardTyped
<1>12. logits' \in Histories
  BY <1>11 DEF PrefillTile, PrefillGrammar, ComputeLogits, ModelType
<1>13. cursor' \in 0..MaxPrompt
  BY <1>4, <1>7, LengthsAssumption
<1> QED BY <1>5, <1>11, <1>12, <1>13 DEF ModelType, RequestType

LEMMA DecodeTyped ==
    ASSUME InferenceInv, InferenceInv', Decode, ModelType, RequestType
    PROVE  ModelType' /\ RequestType'
<1>1. Generating /\ Generating'
  BY DEF InferenceInv, Decode
<1>2. PICK p \in Prompts, g \in Seq(Tokens), h \in Seq(Tokens) :
        prompt' = p /\ generated' = h /\ prompt = p /\ generated = g
  BY <1>1 DEF Generating, Decode
<1> DEFINE r == p \o h
<1>3. p \in Seq(Tokens) /\ Len(p) \in Nat /\ Len(g) \in Nat /\ Len(h) \in Nat
      /\ r \in Seq(Tokens) /\ Len(r) = Len(p) + Len(h)
  BY PromptType, LenProperties, ConcatProperties
<1>4. PICK t \in Tokens : Forward(<<t>>, Position) /\ logits' = ssm' /\ h = Append(g, t)
  BY <1>2 DEF Decode
<1>5. Len(h) = Len(g) + 1
  BY <1>4, AppendProperties
<1>6. Position = Len(p) + Len(g) /\ Position \in Nat /\ Position + 1 = Len(r)
  BY <1>2, <1>3, <1>5 DEF Position
<1>7. HoldsIn(kv', kvPos', ssm', r) /\ Len(r) <= MaxSeqLen
  BY <1>1, <1>2 DEF Generating, Holds
<1> HIDE DEF r
<1>8. /\ kv' \in [Positions -> Histories]
      /\ kvPos' \in 0..MaxSeqLen
      /\ ssm' \in Histories
  <2>1. kv \in [Positions -> Histories]
    BY DEF ModelType
  <2>2. Len(<<t>>) \in Nat /\ Position + Len(<<t>>) = Len(r)
    BY <1>6
  <2> QED BY <1>3, <1>4, <1>6, <1>7, <2>1, <2>2, ForwardTyped
<1>9. generated' \in UNION {[1..n -> Tokens] : n \in 0..MaxNew}
  <2>1. Len(h) \in 0..MaxNew
    BY <1>2, <1>3, <1>5, LengthsAssumption DEF Decode
  <2>2. h \in [1..Len(h) -> Tokens]
    BY LenProperties
  <2> QED BY <1>2, <2>1, <2>2
<1>10. cursor' = cursor
  BY DEF Decode
<1> QED BY <1>2, <1>4, <1>8, <1>9, <1>10 DEF ModelType, RequestType

\* A forward pass that fails leaves values of no history behind.
LEMMA FailTyped ==
    ASSUME Fail, ModelType, RequestType
    PROVE  ModelType' /\ RequestType'
<1> DEFINE pos == IF phase = "decode" THEN Position ELSE cursor
           end == CASE phase = "prefill" -> TileEnd
                    [] phase = "grammar" -> cursor + 1
                    [] OTHER -> Position + 1
<1>1. /\ end <= MaxSeqLen
      /\ kv' = [i \in Positions |-> IF i \in pos..(end - 1) THEN Junk ELSE kv[i]]
      /\ kvPos' \in pos..end
      /\ ssm' = Junk /\ logits' = Junk
      /\ UNCHANGED request
  BY DEF Fail
<1>2. pos \in Nat /\ cursor \in Nat /\ Len(prompt) \in Nat /\ Position \in Nat
  <2>1. cursor \in Nat
    BY LengthsAssumption DEF RequestType
  <2>2. Len(prompt) \in Nat
    <3>1. CASE prompt \in Prompts
      BY <3>1, PromptType
    <3>2. CASE prompt = <<>>
      BY <3>2
    <3> QED BY <3>1, <3>2 DEF RequestType
  <2>3. Len(generated) \in Nat
    <3>1. PICK n \in 0..MaxNew : generated \in [1..n -> Tokens]
      BY DEF RequestType
    <3>2. n \in Nat
      BY LengthsAssumption
    <3>3. generated \in Seq(Tokens)
      BY <3>1, <3>2, SeqDef
    <3> QED BY <3>3, LenProperties
  <2> QED BY <2>1, <2>2, <2>3 DEF Position
<1>3. end \in Int
  <2>1. CASE phase = "prefill"
    BY <1>2, <2>1, TileEndNat
  <2>2. CASE phase = "grammar"
    BY <1>2, <2>2
  <2>3. CASE phase \notin {"prefill", "grammar"}
    BY <1>2, <2>3
  <2> QED BY <2>1, <2>2, <2>3
<1> HIDE DEF pos, end
<1>4. kvPos' \in 0..MaxSeqLen
  BY <1>1, <1>2, <1>3, LengthsAssumption
<1>5. kv' \in [Positions -> Histories]
  BY <1>1, JunkType DEF ModelType
<1>6. ModelType'
  BY <1>1, <1>4, <1>5, JunkType DEF ModelType
<1> QED BY <1>1, <1>6 DEF RequestType, request

\* The model's state keeps its shape, whatever is restored or fails.
THEOREM InferenceTypeCorrect == ModelSpec => []ModelTypeOK
<1> DEFINE Typed == ModelType /\ RequestType
<1>1. ModelInit => Typed
  <2> SUFFICES ASSUME ModelInit PROVE Typed
    OBVIOUS
  <2>1. 0 \in 0..MaxSeqLen /\ 0 \in 0..MaxPrompt
    BY LengthsAssumption
  <2>2. ModelType
    BY <2>1, EmptyTyped, JunkType DEF ModelInit, ModelType
  <2>3. RequestType
    BY <2>1, EmptyTyped DEF ModelInit, RequestType
  <2> QED BY <2>2, <2>3
<1>2. Typed /\ InferenceInv /\ InferenceInv' /\ [ModelNext]_modelVars => Typed'
  <2> SUFFICES ASSUME ModelType, RequestType, InferenceInv, InferenceInv', [ModelNext]_modelVars
               PROVE  ModelType' /\ RequestType'
    OBVIOUS
  <2>1. CASE Start
    BY <2>1, StartTyped
  <2>2. CASE Refuse
    BY <2>2, ResetTyped DEF Refuse, RequestType, request
  <2>3. CASE StartGrammar
    <3>1. PICK p \in Prompts : Accept(p, 0, Cache!Root, "grammar")
      BY <2>3 DEF StartGrammar
    <3>2. 0 \in 0..Len(p)
      BY PromptType
    <3> QED BY <2>3, <3>1, <3>2, ResetTyped, AcceptTyped DEF StartGrammar
  <2>4. CASE PrefillTile \/ PrefillGrammar
    BY <2>4, TileTyped
  <2>5. CASE BeginDecode \/ EndDecode \/ CancelPrefill \/ UNCHANGED modelVars
    <3>1. UNCHANGED model /\ UNCHANGED request
      BY <2>5 DEF BeginDecode, EndDecode, CancelPrefill, modelVars
    <3> QED BY <3>1 DEF ModelType, RequestType, model, request
  <2>6. CASE Decode
    BY <2>6, DecodeTyped
  <2>7. CASE Fail
    BY <2>7, FailTyped
  <2> QED BY <2>1, <2>2, <2>3, <2>4, <2>5, <2>6, <2>7 DEF ModelNext
<1>3. Typed /\ InferenceInv => ModelTypeOK
  <2>1. InferenceInv => \A h \in DOMAIN chunks : chunks[h].state \in Snapshots
    BY DEF InferenceInv, P!CacheInv, P!WellFormed, P!Entry
  <2> QED BY <2>1 DEF ModelTypeOK, ModelType, RequestType, InferenceInv
<1> QED BY <1>1, <1>2, <1>3, InferenceInductive, PTL DEF ModelSpec

============================================================================
