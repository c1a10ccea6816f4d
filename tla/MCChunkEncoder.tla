--------------------------- MODULE MCChunkEncoder ---------------------------
(***************************************************************************)
(* One encoder, driven by any sequence of MaxEvents events of the kinds of *)
(* Events, with flushes in between.                                        *)
(***************************************************************************)
EXTENDS ChunkEncoder

CONSTANTS Limit,      \* upload_size_limit_bytes
          Events,     \* what an event may be: [len, zip] records
          MaxEvents   \* bound on the number of events

\* Text that compresses well, and larger events that do so less.
Compressible ==
    {[len |-> 4, zip |-> 1], [len |-> 9, zip |-> 3], [len |-> 6, zip |-> 5]}

VARIABLES enc,        \* the encoder
          out,        \* the chunks it has returned
          written     \* the events it has accepted

vars == <<enc, out, written>>

Init ==
    /\ enc = newChunkEncoder(Limit)
    /\ out = <<>>
    /\ written = <<>>

Write(e) ==
    /\ Len(written) < MaxEvents
    /\ ~TooLarge(enc, e)
    /\ \E r \in {Encode(enc, e)} :
           /\ enc' = r.enc
           /\ out' = out \o r.chunks
    /\ written' = Append(written, e)

Flush ==
    /\ enc.events # <<>>
    /\ \E r \in {FlushEncoder(enc)} :
           /\ enc' = r.enc
           /\ out' = out \o r.chunks
    /\ UNCHANGED written

Next == Flush \/ \E e \in Events : Write(e)

Spec == Init /\ [][Next]_vars

\* Scaling down and writing again neither loses nor duplicates nor reorders
\* an event: the chunks returned, followed by the open stream, hold exactly
\* the events written.
EventsConserved == FlattenSeq(out) \o enc.events = written

\* A chunk is below upload_size_limit_bytes when it is returned.
ChunksFit == \A i \in DOMAIN out : Zipped(out[i]) < Limit

\* plugin.go: oneShot flushes any pending data before it abandons the encoder,
\* so one Flush leaves nothing behind in it.
Emptied == written' = written /\ enc' # enc => enc'.events = <<>>
FlushEmpties == [][Emptied]_vars
=============================================================================
