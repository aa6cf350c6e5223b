--------------------------- MODULE MCMediaStages ---------------------------
(* Instances of MediaStages for TLC: two recordings, of one chunk and of two. *)
EXTENDS TaskView, TLC

CONSTANTS short, long, hf, other

TwoRecordings == {short, long}
OneRecording == {short}
MCDuration == [r \in Recordings |-> IF r = short THEN 1 ELSE 4]
TwoProviders == {hf, other}
OneProvider == {hf}

Span(s, e) == [start |-> s, end |-> e]
Line(s, e, ws) == [start |-> s, end |-> e, words |-> ws]

\* Fits every chunk.
ShortTake == <<Line(0, 1, <<Span(0, 1)>>)>>
\* An empty caption at the end of a full chunk, which is the start of the next
\* one, of none after the last, and outside of the chunk of the short recording.
EdgeTake == <<Line(2, 2, <<>>)>>
AnyTake == {ShortTake, EdgeTake}

=============================================================================
