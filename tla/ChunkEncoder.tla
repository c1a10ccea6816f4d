---------------------------- MODULE ChunkEncoder ----------------------------
(***************************************************************************)
(* The chunk encoder of the decision log plugin, plugins/logs/encoder.go:  *)
(* events go into a gzip stream, and a stream that grows past an adaptive  *)
(* soft limit is closed and becomes a chunk, or, when it came out above    *)
(* the upload limit, is decoded and written again under a lower soft limit.*)
(*                                                                         *)
(* An event is the length of its JSON text and what it adds to the length  *)
(* of a compressed stream.  A chunk is the sequence of its events.  Every  *)
(* event was accepted by the length test of Write when it came, so writing *)
(* it again cannot fail.                                                   *)
(***************************************************************************)
EXTENDS Naturals, Sequences, SequencesExt

CONSTANT Overhead  \* length of the gzip stream of no events

\* The chunkEncoder struct; bytesWritten is Bytes(events), buf their stream.
newChunkEncoder(limit) ==
    [limit |-> limit, soft |-> limit, up |-> 0, down |-> 0, events |-> <<>>]

\* Brackets and commas are one byte for each event, plus the closing bracket.
Bytes(events) == FoldLeft(LAMBDA n, e : n + e.len + 1, 0, events)

\* What compress/gzip makes of a stream, length only.
Zipped(events) == FoldLeft(LAMBDA n, e : n + e.zip, Overhead, events)

\* int64(math.Pow(2, x/5 + 1)): the exponents move in steps of 0.2.
Factor(x) == CHOOSE n \in 1..(2^(x + 1)) : n^5 <= 2^(x + 5) /\ 2^(x + 5) < (n + 1)^5

TooLarge(enc, e) == e.len + 2 > enc.limit

-----------------------------------------------------------------------------
\* The soft limit doubles (or more) when the chunk is below 90% of the limit.
ScaleUp(enc) ==
    [enc EXCEPT !.soft = @ * Factor(enc.up), !.up = @ + 1, !.events = <<>>]

Stable(enc) == [enc EXCEPT !.down = enc.up, !.events = <<>>]

ScaleDown(enc) ==
    LET down == IF enc.down < enc.up THEN enc.up ELSE enc.down
    IN  IF enc.soft <= enc.limit THEN [enc EXCEPT !.events = <<>>]
        ELSE [enc EXCEPT !.soft = @ \div Factor(down - enc.up),
                         !.down = down,
                         !.up = IF @ > 0 THEN @ - 1 ELSE @,
                         !.events = <<>>]

Result(enc, chunks) == [enc |-> enc, chunks |-> chunks]

RECURSIVE Encode(_, _), Reset(_)

\* Mutant: a chunk of exactly the limit's size, or above it, is let through.
ResetLetsThrough(enc) ==
    IF Zipped(enc.events) < (enc.limit * 9) \div 10
    THEN Result(ScaleUp(enc), <<enc.events>>)
    ELSE Result(Stable(enc), <<enc.events>>)

\* Mutant: the chunks that come out while the events are written again are
\* dropped.
ResetForgets(enc) ==
    IF Zipped(enc.events) < (enc.limit * 9) \div 10
    THEN Result(ScaleUp(enc), <<enc.events>>)
    ELSE IF Zipped(enc.events) < enc.limit
    THEN Result(Stable(enc), <<enc.events>>)
    ELSE LET again(r, e) == Encode(r.enc, e)
         IN  FoldLeft(again, Result(ScaleDown(enc), <<>>), enc.events)

\* enc.reset, on a stream just closed.
Reset(enc) ==
    IF Zipped(enc.events) < (enc.limit * 9) \div 10
    THEN Result(ScaleUp(enc), <<enc.events>>)
    ELSE IF Zipped(enc.events) < enc.limit
    THEN Result(Stable(enc), <<enc.events>>)
    ELSE LET again(r, e) ==
                 LET w == Encode(r.enc, e) IN Result(w.enc, r.chunks \o w.chunks)
         IN  FoldLeft(again, Result(ScaleDown(enc), <<>>), enc.events)

\* enc.Write: the stream is closed before an event that would take it past
\* the soft limit; the event is then appended whatever Reset left in it.
Encode(enc, e) ==
    LET r == IF e.len + Bytes(enc.events) + 1 > enc.soft
             THEN Reset(enc) ELSE Result(enc, <<>>)
    IN  Result([r.enc EXCEPT !.events = Append(@, e)], r.chunks)

\* enc.Flush.
FlushEncoder(enc) ==
    IF enc.events = <<>> THEN Result(enc, <<>>) ELSE Reset(enc)
=============================================================================
