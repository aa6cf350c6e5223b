--------------------------- MODULE CaptionsProofs ---------------------------
(***************************************************************************)
(* What cutting, merging and partitioning promise for every duration, every *)
(* chunk length and whatever recognition returned.                         *)
(***************************************************************************)
EXTENDS Captions, TLAPS, WellFoundedInduction, FiniteSetTheorems

Span == [start : Nat, end : Nat]
Caption == [start : Nat, end : Nat, words : Seq(Span)]

-----------------------------------------------------------------------------
(* Arithmetic of chunk boundaries *)

\* Boundaries grow with the index.
LEMMA Monotone ==
    ASSUME NEW i \in Nat, NEW j \in Nat, i <= j
    PROVE  i * ChunkLength \in Nat /\ i * ChunkLength <= j * ChunkLength
<1>1. ChunkLength \in Nat
  BY ChunkLengthAssumption
<1>2. PICK k \in Nat : j = i + k
  <2>1. j - i \in Nat /\ j = i + (j - i)
    OBVIOUS
  <2> QED
    BY <2>1
<1>3. k * ChunkLength \in Nat /\ i * ChunkLength \in Nat
  BY <1>1, <1>2
<1>4. j * ChunkLength = i * ChunkLength + k * ChunkLength
  BY <1>1, <1>2
<1> QED
  BY <1>3, <1>4

\* A chunk starts where the one before it has its full length.
LEMMA Successive ==
    ASSUME NEW i \in Nat \ {0}
    PROVE  /\ ChunkStart(i) \in Nat
           /\ i * ChunkLength = ChunkStart(i) + ChunkLength
           /\ ChunkStart(i + 1) = i * ChunkLength
           /\ ChunkStart(i) < i * ChunkLength
<1>1. ChunkLength \in Nat /\ ChunkLength > 0
  BY ChunkLengthAssumption
<1>2. i - 1 \in Nat /\ (i + 1) - 1 = i
  OBVIOUS
<1>3. (i - 1) * ChunkLength \in Nat
  BY <1>1, <1>2
<1>4. i * ChunkLength = (i - 1) * ChunkLength + ChunkLength
  BY <1>1, <1>2
<1> QED
  BY <1>1, <1>2, <1>3, <1>4 DEF ChunkStart

\* The bounds of a chunk of a source of duration d.
LEMMA Bounds ==
    ASSUME NEW d \in Nat, NEW i \in Chunks(d)
    PROVE  /\ i \in Nat \ {0} /\ i <= d
           /\ ChunkStart(i) \in Nat /\ ChunkEnd(d, i) \in Nat
           /\ ChunkStart(i) < ChunkEnd(d, i) /\ ChunkEnd(d, i) <= d
           /\ ChunkEnd(d, i) <= i * ChunkLength
           /\ ChunkSpan(d, i) \in Nat /\ ChunkSpan(d, i) <= ChunkLength
<1>1. i \in Nat \ {0} /\ i <= d /\ (i - 1) * ChunkLength < d
  BY DEF Chunks
<1>2. /\ ChunkStart(i) \in Nat /\ ChunkStart(i) < d
      /\ i * ChunkLength = ChunkStart(i) + ChunkLength
      /\ ChunkStart(i) < i * ChunkLength
  BY <1>1, Successive DEF ChunkStart
<1>3. ChunkLength \in Nat /\ i * ChunkLength \in Nat
  BY <1>1, ChunkLengthAssumption
<1> QED
  BY <1>1, <1>2, <1>3 DEF ChunkEnd, ChunkSpan

\* Chunks are numbered without a gap.
LEMMA Gapless ==
    ASSUME NEW d \in Nat, NEW j \in Chunks(d), NEW i \in Nat \ {0}, i <= j
    PROVE  i \in Chunks(d)
<1>1. j \in Nat \ {0} /\ j <= d /\ (j - 1) * ChunkLength < d
  BY DEF Chunks
<1>2. i - 1 \in Nat /\ j - 1 \in Nat /\ i - 1 <= j - 1
  BY <1>1
<1>3. (i - 1) * ChunkLength \in Nat /\ (i - 1) * ChunkLength <= (j - 1) * ChunkLength
  BY <1>2, Monotone
<1>4. (j - 1) * ChunkLength \in Nat
  BY <1>2, ChunkLengthAssumption
<1>5. (i - 1) * ChunkLength < d /\ i \in 1..d
  BY <1>1, <1>3, <1>4
<1> QED
  BY <1>5 DEF Chunks

\* Two chunks do not overlap.
LEMMA Disjoint ==
    ASSUME NEW d \in Nat, NEW i \in Chunks(d), NEW j \in Chunks(d), i < j
    PROVE  ChunkEnd(d, i) <= ChunkStart(j)
<1>1. i \in Nat \ {0} /\ j \in Nat \ {0} /\ ChunkEnd(d, i) \in Nat
      /\ ChunkEnd(d, i) <= i * ChunkLength
  BY Bounds
<1>2. i * ChunkLength \in Nat /\ i * ChunkLength <= (j - 1) * ChunkLength
  BY <1>1, Monotone
<1>3. (j - 1) * ChunkLength \in Nat
  BY <1>1, ChunkLengthAssumption
<1> QED
  BY <1>1, <1>2, <1>3 DEF ChunkStart

\* The last chunk ends where the source ends.
LEMMA LastChunk ==
    ASSUME NEW d \in Nat \ {0}
    PROVE  \E i \in Chunks(d) : ChunkEnd(d, i) = d
<1>1. ChunkLength \in Nat /\ ChunkLength > 0
  BY ChunkLengthAssumption
<1> DEFINE Far == {n \in Nat : d <= n * ChunkLength}
<1>2. d \in Far
  <2>1. d * ChunkLength \in Nat /\ d <= d * ChunkLength
    BY <1>1
  <2> QED
    BY <2>1
<1>3. PICK n \in Far : \A m \in Far : ~(m < n)
  <2>1. PICK n \in Far : \A m \in Far : ~(<<m, n>> \in OpToRel(<, Nat))
    BY <1>2, WFMin, NatLessThanWellFounded, Far \subseteq Nat
  <2>2. ASSUME NEW m \in Far, m < n
        PROVE  <<m, n>> \in OpToRel(<, Nat)
    BY <2>2 DEF OpToRel
  <2> QED
    BY <2>1, <2>2
<1>4. n \in Nat \ {0}
  <2>1. 0 * ChunkLength = 0
    BY <1>1
  <2> QED
    BY <2>1
<1>5. n - 1 \in Nat /\ (n - 1) * ChunkLength \in Nat /\ ~(d <= (n - 1) * ChunkLength)
  <2>1. n - 1 \in Nat /\ n - 1 < n
    BY <1>4
  <2>2. (n - 1) * ChunkLength \in Nat
    BY <2>1, <1>1
  <2> QED
    BY <1>3, <2>1, <2>2
<1>6. (n - 1) * ChunkLength < d /\ d <= n * ChunkLength
  BY <1>5
<1>7. n - 1 <= (n - 1) * ChunkLength
  BY <1>1, <1>5
<1>8. n \in 1..d
  BY <1>4, <1>5, <1>6, <1>7
<1>9. n \in Chunks(d) /\ n * ChunkLength \in Nat
  BY <1>1, <1>4, <1>6, <1>8 DEF Chunks
<1> QED
  BY <1>6, <1>9 DEF ChunkEnd

-----------------------------------------------------------------------------
(* The three stages over the chunks *)

\* The plan that build_media_chunk_manifest builds passes
\* validate_media_chunk_manifest, whatever the duration: no gap, no overlap, only
\* the last chunk shorter, and nothing of the source left out.
THEOREM BuiltPlanIsValid == \A d \in Nat : PlanIsValid(d, Chunks(d))
<1> SUFFICES ASSUME NEW d \in Nat
             PROVE  PlanIsValid(d, Chunks(d))
  OBVIOUS
<1>1. ASSUME NEW i \in Chunks(d)
      PROVE  /\ i > 1 => i - 1 \in Chunks(d)
             /\ ChunkStart(i) < ChunkEnd(d, i) /\ ChunkEnd(d, i) <= d
             /\ ChunkStart(i) = IF i = 1 THEN 0 ELSE ChunkEnd(d, i - 1)
             /\ i + 1 \in Chunks(d) => ChunkSpan(d, i) = ChunkLength
  <2>1. ChunkStart(i) < ChunkEnd(d, i) /\ ChunkEnd(d, i) <= d /\ i \in Nat \ {0}
    BY Bounds
  <2>2. ASSUME i > 1
        PROVE  i - 1 \in Chunks(d) /\ ChunkEnd(d, i - 1) = ChunkStart(i)
    <3>1. i - 1 \in Nat \ {0} /\ i - 1 <= i
      BY <2>1, <2>2
    <3>2. i - 1 \in Chunks(d)
      BY <3>1, Gapless
    <3>3. (i - 1) * ChunkLength < d
      BY DEF Chunks
    <3> QED
      BY <3>2, <3>3 DEF ChunkEnd, ChunkStart
  <2>3. ASSUME i = 1
        PROVE  ChunkStart(i) = 0
    BY <2>3, ChunkLengthAssumption DEF ChunkStart
  <2>4. ASSUME i + 1 \in Chunks(d)
        PROVE  ChunkSpan(d, i) = ChunkLength
    <3>1. i * ChunkLength = ChunkStart(i) + ChunkLength /\ ChunkStart(i) \in Nat
          /\ ChunkStart(i + 1) = i * ChunkLength
      BY <2>1, Successive
    <3>2. ChunkStart(i + 1) < d
      <4>1. ChunkStart(i + 1) \in Nat /\ ChunkStart(i + 1) < ChunkEnd(d, i + 1)
            /\ ChunkEnd(d, i + 1) \in Nat /\ ChunkEnd(d, i + 1) <= d
        BY <2>4, Bounds
      <4> QED
        BY <4>1
    <3>3. ChunkEnd(d, i) = i * ChunkLength
      BY <3>1, <3>2 DEF ChunkEnd
    <3> QED
      BY <3>1, <3>3, ChunkLengthAssumption DEF ChunkSpan
  <2> QED
    BY <2>1, <2>2, <2>3, <2>4
<1>2. CASE Chunks(d) = {}
  BY <1>1, <1>2, LastChunk DEF PlanIsValid
<1>3. CASE Chunks(d) # {}
  <2>1. d # 0
    BY <1>3 DEF Chunks
  <2> QED
    BY <1>1, <1>3, <2>1, LastChunk DEF PlanIsValid
<1> QED
  BY <1>2, <1>3

\* The words and captions of a merged transcript stay inside their chunk.
THEOREM MergedCaptionsStayInTheirChunk ==
    ASSUME NEW d \in Nat, NEW takes \in [Chunks(d) -> Seq(Caption)], MergeAccepts(d, takes),
           NEW text, NEW p \in DOMAIN Merged(takes, text)
    PROVE  LET caption == Merged(takes, text)[p]
           IN  /\ p[1] \in Chunks(d)
               /\ caption.start \in Nat /\ caption.end \in Nat
               /\ ChunkStart(p[1]) <= caption.start
               /\ caption.start <= caption.end
               /\ caption.end <= ChunkEnd(d, p[1])
               /\ \A k \in DOMAIN caption.words :
                      /\ ChunkStart(p[1]) <= caption.words[k].start
                      /\ caption.words[k].end <= ChunkEnd(d, p[1])
<1> DEFINE i == p[1]
           j == p[2]
           local == takes[i][j]
<1>1. i \in Chunks(d) /\ j \in DOMAIN takes[i]
  BY DEF Merged, Places
<1>2. local \in Caption
  BY <1>1
<1>3. 0 <= local.start /\ local.start <= local.end /\ local.end <= ChunkSpan(d, i)
  BY <1>1 DEF MergeAccepts
<1>4. ChunkStart(i) \in Nat /\ ChunkEnd(d, i) \in Nat
  BY <1>1, Bounds
<1>5. /\ Merged(takes, text)[p].start = ChunkStart(i) + local.start
      /\ Merged(takes, text)[p].end = ChunkStart(i) + local.end
  BY DEF Merged
<1>6. local.start \in Nat /\ local.end \in Nat
  BY <1>2 DEF Caption
<1>7. ASSUME NEW k \in DOMAIN local.words
      PROVE  /\ ChunkStart(i) <= ChunkStart(i) + local.words[k].start
             /\ ChunkStart(i) + local.words[k].end <= ChunkEnd(d, i)
  <2>1. 0 <= local.words[k].start /\ local.words[k].end <= ChunkSpan(d, i)
    BY <1>1 DEF MergeAccepts, InOrder
  <2>2. local.words[k] \in Span
    BY <1>2 DEF Caption
  <2> QED
    BY <1>4, <2>1, <2>2 DEF Span, ChunkSpan
<1>8. Merged(takes, text)[p].words = Rebased(local.words, i)
  BY DEF Merged
<1>9. \A k \in DOMAIN Merged(takes, text)[p].words :
          /\ ChunkStart(i) <= Merged(takes, text)[p].words[k].start
          /\ Merged(takes, text)[p].words[k].end <= ChunkEnd(d, i)
  <2>1. /\ DOMAIN Rebased(local.words, i) = DOMAIN local.words
        /\ \A k \in DOMAIN local.words :
               /\ Rebased(local.words, i)[k].start = ChunkStart(i) + local.words[k].start
               /\ Rebased(local.words, i)[k].end = ChunkStart(i) + local.words[k].end
    BY DEF Rebased
  <2> QED
    BY <1>7, <1>8, <2>1
<1>10. /\ ChunkStart(i) + local.start \in Nat /\ ChunkStart(i) + local.end \in Nat
       /\ ChunkStart(i) <= ChunkStart(i) + local.start
       /\ ChunkStart(i) + local.start <= ChunkStart(i) + local.end
       /\ ChunkStart(i) + local.end <= ChunkEnd(d, i)
  <2> HIDE DEF i, local
  <2> QED
    BY <1>3, <1>4, <1>6 DEF ChunkSpan
<1>11. /\ Merged(takes, text)[p].start \in Nat /\ Merged(takes, text)[p].end \in Nat
       /\ ChunkStart(i) <= Merged(takes, text)[p].start
       /\ Merged(takes, text)[p].start <= Merged(takes, text)[p].end
       /\ Merged(takes, text)[p].end <= ChunkEnd(d, i)
  BY <1>5, <1>10
<1> QED
  BY <1>1, <1>9, <1>11

\* Translation refuses no transcript that the merge accepted unless some caption
\* is empty: only an empty caption can stand at the end of its chunk.
THEOREM OnlyEmptyCaptionsAreRefused ==
    ASSUME NEW d \in Nat, NEW takes \in [Chunks(d) -> Seq(Caption)], MergeAccepts(d, takes),
           NEW text,
           \A p \in DOMAIN Merged(takes, text) :
               Merged(takes, text)[p].start # Merged(takes, text)[p].end
    PROVE  PartitionAccepts(d, Merged(takes, text))
<1> SUFFICES ASSUME NEW p \in DOMAIN Merged(takes, text)
             PROVE  \E i \in Chunks(d) :
                        /\ StartsIn(d, Merged(takes, text)[p], i)
                        /\ Merged(takes, text)[p].end <= ChunkEnd(d, i)
  BY DEF PartitionAccepts
<1> DEFINE caption == Merged(takes, text)[p]
<1>1. /\ p[1] \in Chunks(d)
      /\ caption.start \in Nat /\ caption.end \in Nat
      /\ ChunkStart(p[1]) <= caption.start
      /\ caption.start <= caption.end
      /\ caption.end <= ChunkEnd(d, p[1])
  BY MergedCaptionsStayInTheirChunk
<1>2. ChunkEnd(d, p[1]) \in Nat
  BY <1>1, Bounds
<1>3. caption.start < ChunkEnd(d, p[1])
  BY <1>1, <1>2
<1>4. StartsIn(d, caption, p[1])
  BY <1>1, <1>3 DEF StartsIn
<1> QED
  BY <1>1, <1>4

\* The shares of the chunks take every caption and none twice.
THEOREM SharesPartition ==
    ASSUME NEW d \in Nat, NEW captions, PartitionAccepts(d, captions),
           \A p \in DOMAIN captions : captions[p].start \in Nat
    PROVE  \A p \in DOMAIN captions :
               \E i \in Chunks(d) : /\ p \in Share(d, captions, i)
                                    /\ \A j \in Chunks(d) : p \in Share(d, captions, j) => j = i
<1> SUFFICES ASSUME NEW p \in DOMAIN captions
             PROVE  \E i \in Chunks(d) :
                        /\ p \in Share(d, captions, i)
                        /\ \A j \in Chunks(d) : p \in Share(d, captions, j) => j = i
  OBVIOUS
<1>1. PICK i \in Chunks(d) : StartsIn(d, captions[p], i)
  BY DEF PartitionAccepts
<1>2. ASSUME NEW j \in Chunks(d), StartsIn(d, captions[p], j)
      PROVE  j = i
  <2>1. /\ i \in Nat /\ ChunkStart(i) \in Nat /\ ChunkEnd(d, i) \in Nat
        /\ j \in Nat /\ ChunkStart(j) \in Nat /\ ChunkEnd(d, j) \in Nat
    BY Bounds
  <2>2. i < j => ChunkEnd(d, i) <= ChunkStart(j)
    BY Disjoint
  <2>3. j < i => ChunkEnd(d, j) <= ChunkStart(i)
    BY Disjoint
  <2>4. captions[p].start \in Nat
    OBVIOUS
  <2> QED
    BY <1>1, <1>2, <2>1, <2>2, <2>3, <2>4 DEF StartsIn
<1> QED
  BY <1>1, <1>2 DEF Share

\* What recognition found in a chunk is what translation takes for that chunk: the
\* shares of a merged transcript are the takes, unless some caption is empty.
THEOREM SharesAreTheTakes ==
    ASSUME NEW d \in Nat, NEW takes \in [Chunks(d) -> Seq(Caption)], MergeAccepts(d, takes),
           NEW text, NEW i \in Chunks(d),
           \A p \in DOMAIN Merged(takes, text) :
               Merged(takes, text)[p].start # Merged(takes, text)[p].end
    PROVE  Share(d, Merged(takes, text), i) = {i} \X DOMAIN takes[i]
<1> DEFINE captions == Merged(takes, text)
<1>1. DOMAIN captions = Places(takes) /\ DOMAIN takes = Chunks(d)
  BY DEF Merged
<1>2. \A p \in DOMAIN captions :
          /\ p[1] \in Chunks(d) /\ captions[p].start \in Nat /\ captions[p].end \in Nat
          /\ ChunkStart(p[1]) <= captions[p].start /\ captions[p].start <= captions[p].end
          /\ captions[p].end <= ChunkEnd(d, p[1])
  BY MergedCaptionsStayInTheirChunk
<1>3. ASSUME NEW p \in DOMAIN captions
      PROVE  StartsIn(d, captions[p], p[1])
  <2>1. ChunkEnd(d, p[1]) \in Nat
    BY <1>2, Bounds
  <2>2. captions[p].start # captions[p].end
    OBVIOUS
  <2> QED
    BY <1>2, <2>1, <2>2 DEF StartsIn
<1>4. ASSUME NEW p \in Share(d, captions, i)
      PROVE  p[1] = i /\ p \in DOMAIN captions
  <2>1. p \in DOMAIN captions /\ StartsIn(d, captions[p], i)
    BY DEF Share
  <2>2. PartitionAccepts(d, captions)
    BY OnlyEmptyCaptionsAreRefused
  <2>3. \E j \in Chunks(d) : \A k \in Chunks(d) : p \in Share(d, captions, k) => k = j
    BY <1>2, <2>1, <2>2, SharesPartition
  <2>4. p \in Share(d, captions, p[1])
    BY <1>3, <2>1 DEF Share
  <2> QED
    BY <1>2, <2>1, <2>3, <2>4
<1>5. \A p \in Places(takes) : p[1] = i <=> p \in {i} \X DOMAIN takes[i]
  BY DEF Places
<1>6. {i} \X DOMAIN takes[i] \subseteq Places(takes)
  BY <1>1 DEF Places
<1>7. ASSUME NEW p \in {i} \X DOMAIN takes[i]
      PROVE  p \in Share(d, captions, i)
  <2>1. p \in DOMAIN captions /\ p[1] = i
    BY <1>1, <1>5, <1>6
  <2> QED
    BY <1>3, <2>1 DEF Share
<1> QED
  BY <1>1, <1>4, <1>5, <1>7

-----------------------------------------------------------------------------
(* The numbers of the captions *)

LEMMA PlacesAreFinite ==
    ASSUME NEW d \in Nat, NEW takes \in [Chunks(d) -> Seq(Caption)]
    PROVE  IsFiniteSet(Places(takes))
<1> DEFINE Of(i) == {i} \X DOMAIN takes[i]
           All == {Of(i) : i \in Chunks(d)}
<1>1. IsFiniteSet(Chunks(d))
  <2>1. IsFiniteSet(1..d)
    BY FS_Interval
  <2> QED
    BY <2>1, FS_Subset DEF Chunks
<1>2. IsFiniteSet(All)
  <2> DEFINE f == [i \in Chunks(d) |-> Of(i)]
  <2>1. f \in Surjection(Chunks(d), All)
    BY DEF Surjection
  <2> QED
    BY <1>1, <2>1, FS_Surjection
<1>3. ASSUME NEW i \in Chunks(d)
      PROVE  IsFiniteSet(Of(i))
  <2>1. DOMAIN takes[i] = 1..Len(takes[i]) /\ Len(takes[i]) \in Nat
    OBVIOUS
  <2>2. IsFiniteSet(DOMAIN takes[i])
    BY <2>1, FS_Interval
  <2> QED
    BY <2>2, FS_Singleton, FS_Product
<1>4. Places(takes) = UNION All
  BY DEF Places
<1> QED
  BY <1>2, <1>3, <1>4, FS_UNION

\* The running numbers follow the time line, so that no two captions of a merged
\* transcript have the same number or overlap.
THEOREM NumbersFollowTime ==
    ASSUME NEW d \in Nat, NEW takes \in [Chunks(d) -> Seq(Caption)], MergeAccepts(d, takes),
           NEW text, NEW p \in DOMAIN Merged(takes, text), NEW q \in DOMAIN Merged(takes, text),
           Before(p, q)
    PROVE  /\ Merged(takes, text)[p].id < Merged(takes, text)[q].id
           /\ Merged(takes, text)[p].end <= Merged(takes, text)[q].start
<1> DEFINE Upto(r) == {o \in Places(takes) : Before(o, r)}
<1>1. /\ p \in Places(takes) /\ q \in Places(takes)
      /\ \A r \in Places(takes) : r[1] \in Int /\ r[2] \in Int
  <2>1. \A i \in Chunks(d) : i \in Int /\ \A j \in DOMAIN takes[i] : j \in Int
    BY DEF Chunks
  <2> QED
    BY <2>1 DEF Merged, Places
<1>2. Upto(p) \subseteq Upto(q) /\ p \in Upto(q) /\ p \notin Upto(p)
  BY <1>1 DEF Before
<1>3. IsFiniteSet(Upto(q))
  BY PlacesAreFinite, FS_Subset
<1>4. /\ Cardinality(Upto(p)) \in Nat /\ Cardinality(Upto(q)) \in Nat
      /\ Cardinality(Upto(p)) < Cardinality(Upto(q))
  <2> HIDE DEF Upto
  <2>1. IsFiniteSet(Upto(p)) /\ Cardinality(Upto(p)) <= Cardinality(Upto(q))
        /\ (Cardinality(Upto(p)) = Cardinality(Upto(q)) => Upto(p) = Upto(q))
    BY <1>2, <1>3, FS_Subset
  <2>2. Cardinality(Upto(p)) \in Nat /\ Cardinality(Upto(q)) \in Nat
    BY <1>3, <2>1, FS_CardinalityType
  <2> QED
    BY <1>2, <2>1, <2>2
<1>5. /\ Merged(takes, text)[p].id = 1 + Cardinality(Upto(p))
      /\ Merged(takes, text)[q].id = 1 + Cardinality(Upto(q))
  BY <1>1 DEF Merged
<1>6. Merged(takes, text)[p].end <= Merged(takes, text)[q].start
  <2> DEFINE same == Merged(takes, [i \in DOMAIN takes |-> i])
  <2>1. same[p].end <= same[q].start
    BY <1>1 DEF MergeAccepts, InTimeOrder, Merged
  <2>2. same[p].end = Merged(takes, text)[p].end /\ same[q].start = Merged(takes, text)[q].start
    BY <1>1 DEF Merged
  <2> QED
    BY <2>1, <2>2
<1> QED
  BY <1>4, <1>5, <1>6

=============================================================================
