---------------------------- MODULE DecisionLogs ----------------------------
(***************************************************************************)
(* The decision log plugin, plugins/logs/plugin.go and buffer.go, in       *)
(* periodic mode with a remote service: requests log events into the       *)
(* shared encoder and buffer under Plugin.mtx, while the upload loop and,  *)
(* during a graceful shutdown, the flush goroutine each take both away,    *)
(* upload the chunks without the lock and put back what failed.            *)
(*                                                                         *)
(* An event has an identity, its length, how much of that is the cache of  *)
(* non-deterministic builtins, and its compressed length.  Masking, drops  *)
(* by policy and the console come before an event gets here.               *)
(***************************************************************************)
EXTENDS ChunkEncoder, FiniteSets

CONSTANTS Events,    \* [id, len, nd, zip] records, each logged at most once
          Configs    \* [buffer, upload]: the two size limits, in bytes

ASSUME ConfigsValid == \A c \in Configs : c.buffer \in Nat /\ c.upload \in Nat \ {0}

VARIABLES config,    \* Plugin.config
          limiter,   \* whether Plugin.limiter is set
          enc,       \* Plugin.enc
          buffer,    \* Plugin.buffer: its list of chunks
          up,        \* the oneShot call of each uploader
          stop,      \* the Stop call
          logged,    \* the events Log was given
          received,  \* the events the service has received
          dropped,   \* the events given up with a message in the log
          unsure,    \* the events in uploads that failed after they were received
          early      \* the events logged before Stop was called

pluginVars == <<config, limiter, enc, buffer>>
serviceVars == <<received, unsure>>
vars == <<pluginVars, up, stop, early, logged, serviceVars, dropped>>

Uploaders == {"loop", "flush"}

\* pc "off": not started, or returned.  "wait": the loop is in its select, or
\* the flush goroutine is about to try again.  "sending": popping the chunks
\* of the old buffer, to upload them or, after an error, to put them back.
UploaderStates == {"off", "wait", "sending"}

\* "flushing": waiting for the flush goroutine.  "expired": the deadline has
\* passed.  "flushed": the flush goroutine reported success.
StopStates == {"none", "flushing", "expired", "flushed", "done"}

Ids(chunk) == {chunk[i].id : i \in DOMAIN chunk}
EventIds == {e.id : e \in Events}

-----------------------------------------------------------------------------
(* logBuffer *)

newLogBuffer(limit) == [limit |-> limit, chunks |-> <<>>]

Usage(b) == FoldLeft(LAMBDA n, ch : n + Zipped(ch), 0, b.chunks)

\* The loop of Push asks a removed element for its successor, which is nil,
\* and so drops one chunk at most.
Push(b, ch) ==
    IF b.limit > 0 /\ b.chunks # <<>> /\ Usage(b) + Zipped(ch) > b.limit
    THEN [b EXCEPT !.chunks = Append(Tail(@), ch)]
    ELSE [b EXCEPT !.chunks = Append(@, ch)]

\* bufferChunk: the buffer, and with it the events dropped from its front.
BufferChunk(r, ch) ==
    LET b == Push(r.buffer, ch)
    IN  [r EXCEPT !.buffer = b,
                  !.dropped = @ \cup IF Len(b.chunks) > Len(r.buffer.chunks) THEN {}
                                     ELSE Ids(Head(r.buffer.chunks))]

-----------------------------------------------------------------------------
(* encodeAndBufferEvent *)

Bare(e) == [e EXCEPT !.len = @ - e.nd, !.nd = 0]

\* The event written to the encoder: whole, without its cache, or not at all.
Fitting(encoder, e) ==
    IF ~TooLarge(encoder, e) THEN <<e>>
    ELSE IF e.nd > 0 /\ ~TooLarge(encoder, Bare(e)) THEN <<Bare(e)>>
    ELSE <<>>

\* r holds the encoder, the buffer and the events dropped so far; allowed are
\* the events the rate limiter lets pass.
EncodeAndBufferEvent(r, e, allowed) ==
    LET f == Fitting(r.enc, e)
        written(w) == FoldLeft(BufferChunk, [r EXCEPT !.enc = w.enc], w.chunks)
    IN  IF e.id \notin allowed \/ f = <<>> THEN [r EXCEPT !.dropped = @ \cup {e.id}]
        ELSE written(Encode(r.enc, f[1]))

\* What the rate limiter may let pass of a set of events.
Allowed(ids) == IF limiter THEN SUBSET ids ELSE {ids}

Shared == [enc |-> enc, buffer |-> buffer, dropped |-> dropped]
SetShared(r) ==
    /\ enc' = r.enc
    /\ buffer' = r.buffer
    /\ dropped' = r.dropped

-----------------------------------------------------------------------------
Idle == [pc |-> "off", chunks |-> <<>>, err |-> FALSE]

\* New and Start.
Init ==
    /\ config \in Configs
    /\ limiter \in BOOLEAN
    /\ limiter => config.buffer = 0
    /\ enc = newChunkEncoder(config.upload)
    /\ buffer = newLogBuffer(config.buffer)
    /\ up = [u \in Uploaders |-> IF u = "loop" THEN [Idle EXCEPT !.pc = "wait"] ELSE Idle]
    /\ stop = "none"
    /\ logged = {}
    /\ received = {}
    /\ unsure = {}
    /\ dropped = {}
    /\ early = {}

Log(e) ==
    /\ e.id \notin logged
    /\ logged' = logged \cup {e.id}
    /\ \E allowed \in Allowed({e.id}) :
           SetShared(EncodeAndBufferEvent(Shared, e, allowed))
    /\ UNCHANGED <<config, limiter, up, stop, serviceVars, early>>

\* The head of oneShot: take the encoder and the buffer, leave new ones, flush
\* the old encoder once into the old buffer.  What a flush leaves in it is gone.
TakeOver(u) ==
    /\ enc' = newChunkEncoder(config.upload)
    /\ buffer' = newLogBuffer(config.buffer)
    /\ \E r \in {FoldLeft(BufferChunk, Shared, FlushEncoder(enc).chunks)} :
           /\ dropped' = r.dropped
           /\ up' = [up EXCEPT ![u] = [pc |-> "sending", chunks |-> r.buffer.chunks, err |-> FALSE]]

\* The delay is over: the loop calls doOneShot again.
LoopOneShot ==
    /\ up["loop"].pc = "wait"
    /\ TakeOver("loop")
    /\ UNCHANGED <<config, limiter, stop, logged, serviceVars, early>>

\* The flush goroutine calls oneShot while the deadline has not passed.
FlushOneShot ==
    /\ up["flush"].pc = "wait"
    /\ stop = "flushing"
    /\ TakeOver("flush")
    /\ UNCHANGED <<config, limiter, stop, logged, serviceVars, early>>

\* uploadChunk succeeds.
UploadOK(u) ==
    /\ up[u].pc = "sending" /\ up[u].chunks # <<>> /\ ~up[u].err
    /\ received' = received \cup Ids(Head(up[u].chunks))
    /\ up' = [up EXCEPT ![u].chunks = Tail(@)]
    /\ UNCHANGED <<pluginVars, stop, logged, unsure, dropped, early>>

\* uploadChunk fails, before or after the service has taken the chunk.
UploadFails(u) ==
    /\ up[u].pc = "sending" /\ up[u].chunks # <<>> /\ ~up[u].err
    /\ \E taken \in {{}, Ids(Head(up[u].chunks))} :
           /\ received' = received \cup taken
           /\ unsure' = unsure \cup taken
    /\ up' = [up EXCEPT ![u].err = TRUE]
    /\ UNCHANGED <<pluginVars, stop, logged, dropped, early>>

\* Mutant: only the chunk whose upload failed is put back.
RequeueLast(u) ==
    /\ up[u].err /\ up[u].chunks # <<>>
    /\ SetShared(BufferChunk(Shared, Head(up[u].chunks)))
    /\ up' = [up EXCEPT ![u].chunks = <<>>]
    /\ UNCHANGED <<config, limiter, stop, logged, serviceVars, early>>

\* Mutant: the chunk is put back but stays in the old buffer.
RequeueTwice(u) ==
    /\ up[u].err /\ up[u].chunks # <<>>
    /\ SetShared(BufferChunk(Shared, Head(up[u].chunks)))
    /\ up' = [up EXCEPT ![u].err = FALSE]
    /\ UNCHANGED <<config, limiter, stop, logged, serviceVars, early>>

\* After a failure each chunk left goes back under the lock: as it is, or
\* event by event when there is a rate limiter.
Requeue(u) ==
    /\ up[u].err /\ up[u].chunks # <<>>
    /\ LET ch == Head(up[u].chunks)
       IN  IF limiter
           THEN \E allowed \in Allowed(Ids(ch)) :
                    SetShared(FoldLeft(LAMBDA r, e : EncodeAndBufferEvent(r, e, allowed), Shared, ch))
           ELSE SetShared(BufferChunk(Shared, ch))
    /\ up' = [up EXCEPT ![u].chunks = Tail(@)]
    /\ UNCHANGED <<config, limiter, stop, logged, serviceVars, early>>

\* oneShot returns to the loop, which then waits for the delay.
LoopReturns ==
    /\ up["loop"].pc = "sending" /\ up["loop"].chunks = <<>>
    /\ up' = [up EXCEPT !["loop"] = [Idle EXCEPT !.pc = "wait"]]
    /\ UNCHANGED <<pluginVars, stop, logged, serviceVars, dropped, early>>

\* oneShot returns to the flush goroutine, which tries again after an error
\* and otherwise reports to Stop, if Stop still listens.
FlushReturns ==
    /\ up["flush"].pc = "sending" /\ up["flush"].chunks = <<>>
    /\ up' = [up EXCEPT !["flush"] = [Idle EXCEPT !.pc = IF up["flush"].err THEN "wait" ELSE "off"]]
    /\ stop' = IF stop = "flushing" /\ ~up["flush"].err THEN "flushed" ELSE stop
    /\ UNCHANGED <<pluginVars, logged, serviceVars, dropped, early>>

-----------------------------------------------------------------------------
\* Stop with a context that has a deadline.
StopCalled ==
    /\ stop = "none"
    /\ stop' = "flushing"
    /\ up' = [up EXCEPT !["flush"].pc = "wait"]
    /\ early' = logged
    /\ UNCHANGED <<pluginVars, logged, serviceVars, dropped>>

DeadlineExceeded ==
    /\ stop = "flushing"
    /\ stop' = "expired"
    /\ UNCHANGED <<pluginVars, up, logged, serviceVars, dropped, early>>

\* Mutant: Stop goes on only when the flush has succeeded.
StopOnlyFlushed ==
    /\ stop = "flushed"
    /\ up["loop"].pc = "wait"
    /\ stop' = "done"
    /\ up' = [up EXCEPT !["loop"].pc = "off"]
    /\ UNCHANGED <<pluginVars, logged, serviceVars, dropped, early>>

\* The loop, in its select, receives from Plugin.stop and returns.
StopLoop ==
    /\ stop \in {"flushed", "expired"}
    /\ up["loop"].pc = "wait"
    /\ stop' = "done"
    /\ up' = [up EXCEPT !["loop"].pc = "off"]
    /\ UNCHANGED <<pluginVars, logged, serviceVars, dropped, early>>

\* The loop, in its select, receives a configuration.  The limiter, and the
\* limits of the encoder and buffer in use, stay.
Reconfigure ==
    /\ up["loop"].pc = "wait"
    /\ config' \in Configs
    /\ UNCHANGED <<limiter, enc, buffer, up, stop, logged, serviceVars, dropped, early>>

Next ==
    \/ \E e \in Events : Log(e)
    \/ LoopOneShot
    \/ FlushOneShot
    \/ \E u \in Uploaders : UploadOK(u) \/ UploadFails(u) \/ Requeue(u)
    \/ LoopReturns
    \/ FlushReturns
    \/ StopCalled
    \/ DeadlineExceeded
    \/ StopLoop
    \/ Reconfigure

\* Goroutines run, the timer and the deadline fire, and the service does not
\* refuse every upload for ever.
Fairness ==
    /\ WF_vars(LoopOneShot) /\ WF_vars(LoopReturns) /\ WF_vars(FlushReturns)
    /\ WF_vars(DeadlineExceeded)
    /\ SF_vars(StopLoop)
    /\ \A u \in Uploaders : SF_vars(UploadOK(u)) /\ WF_vars(Requeue(u))

Spec == Init /\ [][Next]_vars
FairSpec == Spec /\ Fairness

-----------------------------------------------------------------------------
(* Safety *)

TypeOK ==
    /\ config \in Configs
    /\ \A u \in Uploaders : up[u].pc \in UploaderStates /\ (up[u].err => up[u].pc = "sending")
    /\ stop \in StopStates
    /\ logged \subseteq EventIds
    /\ received \cup dropped \subseteq logged
    /\ unsure \subseteq received

\* The copies of an event the plugin holds, in a sequence of chunks and in all.
Copies(chunks, id) ==
    FoldLeft(LAMBDA n, ch : n + IF id \in Ids(ch) THEN 1 ELSE 0, 0, chunks)
Held(id) ==
    Copies(buffer.chunks, id) + Copies(<<enc.events>>, id)
        + Copies(up["loop"].chunks, id) + Copies(up["flush"].chunks, id)

\* No event disappears between Log, the swaps of oneShot by two goroutines and
\* the requeuing of failed chunks: it is held, it was received by the service,
\* or it was dropped with a message.
NothingLost == \A id \in logged : Held(id) > 0 \/ id \in received \cup dropped

\* No event is sent again once its upload has succeeded, and none is held
\* twice: a duplicate at the service needs an upload that failed late.
NoDuplicates ==
    \A id \in logged : Held(id) + (IF id \in received \ unsure THEN 1 ELSE 0) <= 1

(* Liveness *)

\* While the plugin is not stopped, every event logged reaches the service or
\* is dropped with a message, if the service does not refuse for ever.
EventsDelivered ==
    \A id \in EventIds : id \in logged ~> id \in received \cup dropped \/ stop = "done"

\* Stop returns, whatever the loop, the flush goroutine and the service do.
StopReturns == stop = "flushing" ~> stop = "done"

-----------------------------------------------------------------------------
(* What the documentation and the tests say *)

\* buffer.go: the buffer caps memory usage at the configured limit, and drops
\* from its front when the limit is exceeded.
BufferWithinLimit == buffer.limit > 0 => Usage(buffer) <= buffer.limit

\* TestPluginGracefulShutdownFlushesDecisions: a Stop that reported a complete
\* flush leaves no event of an earlier Log behind.
FlushedIsDelivered ==
    stop = "flushed" /\ up["loop"].pc = "wait" => early \subseteq received \cup dropped
=============================================================================
