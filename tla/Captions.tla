------------------------------ MODULE Captions ------------------------------
(***************************************************************************)
(* Media chunks and the captions recognised in them: how a source is cut   *)
(* (media_chunks.py), how the captions of the chunks are put together on    *)
(* the time line of the source (asr_whisperx.py) and how translation takes  *)
(* them apart again (translation_provider.py).  Pure operators; the files   *)
(* they are read from are in MediaStages.                                   *)
(*                                                                         *)
(* Time is counted in whole units.  The default chunk of 300.0 seconds      *)
(* makes every inner boundary a multiple of 300, which binary floating      *)
(* point represents exactly, so the sums that build the boundaries in the   *)
(* code are the products below.                                            *)
(***************************************************************************)
EXTENDS Integers, Sequences, FiniteSets

CONSTANT ChunkLength   \* DEFAULT_MEDIA_CHUNK_SECONDS

ASSUME ChunkLengthAssumption == ChunkLength \in Nat \ {0}

-----------------------------------------------------------------------------
(* Cutting a source of duration d *)

\* Chunk i starts where the loop of build_media_chunk_manifest still runs.
Chunks(d) == {i \in 1..d : (i - 1) * ChunkLength < d}

ChunkStart(i) == (i - 1) * ChunkLength
ChunkEnd(d, i) == IF i * ChunkLength < d THEN i * ChunkLength ELSE d
ChunkSpan(d, i) == ChunkEnd(d, i) - ChunkStart(i)

\* validate_media_chunk_manifest on the chunks of a plan for duration d.
PlanIsValid(d, chunks) ==
    /\ \A i \in chunks :
        /\ i > 1 => i - 1 \in chunks
        /\ ChunkStart(i) < ChunkEnd(d, i) /\ ChunkEnd(d, i) <= d
        /\ ChunkStart(i) = IF i = 1 THEN 0 ELSE ChunkEnd(d, i - 1)
        /\ i + 1 \in chunks => ChunkSpan(d, i) = ChunkLength
    /\ IF chunks = {} THEN d = 0 ELSE \E i \in chunks : ChunkEnd(d, i) = d

-----------------------------------------------------------------------------
(* Putting the takes of the chunks together *)

(* A take is what recognition returned for one chunk: a sequence of captions
   [start, end, words] in the time of the chunk, words a sequence of spans. *)

InOrder(spans, length) ==
    \A j \in DOMAIN spans :
        /\ 0 <= spans[j].start /\ spans[j].start <= spans[j].end
        /\ spans[j].end <= length
        /\ \A k \in DOMAIN spans : k < j => spans[k].end <= spans[j].start

\* _normalize_aligned_segments: what is refused before a take is written and
\* when it is read again.  Order and range are not looked at.
IsNormal(take) == take # <<>> /\ \A j \in DOMAIN take : take[j].start <= take[j].end

Places(takes) == UNION {{i} \X DOMAIN takes[i] : i \in DOMAIN takes}
Before(p, q) == (p[1] < q[1]) \/ (p[1] = q[1] /\ p[2] < q[2])

Rebased(spans, i) ==
    [j \in DOMAIN spans |-> [start |-> ChunkStart(i) + spans[j].start,
                             end |-> ChunkStart(i) + spans[j].end]]

\* The captions of all chunks in source time, by place: chunk and position in
\* the chunk.  id is the running number of the caption; text is the recording
\* the words were recognised in.
Merged(takes, text) ==
    [p \in Places(takes) |->
        LET local == takes[p[1]][p[2]]
        IN  [id |-> 1 + Cardinality({q \in Places(takes) : Before(q, p)}),
             start |-> ChunkStart(p[1]) + local.start,
             end |-> ChunkStart(p[1]) + local.end,
             words |-> Rebased(local.words, p[1]),
             text |-> text[p[1]]]]

InTimeOrder(captions) ==
    \A p, q \in DOMAIN captions : Before(p, q) => captions[p].end <= captions[q].start

\* merge_asr_chunk_segments accepts the takes of a plan for duration d.
MergeAccepts(d, takes) ==
    /\ \A i \in DOMAIN takes : \A j \in DOMAIN takes[i] :
        /\ 0 <= takes[i][j].start /\ takes[i][j].start <= takes[i][j].end
        /\ takes[i][j].end <= ChunkSpan(d, i)
        /\ InOrder(takes[i][j].words, ChunkSpan(d, i))
    /\ InTimeOrder(Merged(takes, [i \in DOMAIN takes |-> i]))

-----------------------------------------------------------------------------
(* Taking captions in source time apart again *)

StartsIn(d, caption, i) == ChunkStart(i) <= caption.start /\ caption.start < ChunkEnd(d, i)

\* The places that _partition_segments_by_media_chunk hands to chunk i.
Share(d, captions, i) == {p \in DOMAIN captions : StartsIn(d, captions[p], i)}

\* Every caption starts in a chunk and ends in the same one.
PartitionAccepts(d, captions) ==
    \A p \in DOMAIN captions : \E i \in Chunks(d) :
        StartsIn(d, captions[p], i) /\ captions[p].end <= ChunkEnd(d, i)

\* The rows of a share, as the translation cache serialises them.
RowsOf(captions, places) == [p \in places |-> captions[p]]

=============================================================================
