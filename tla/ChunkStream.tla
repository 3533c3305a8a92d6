----------------------------- MODULE ChunkStream -----------------------------
(***************************************************************************)
(* One bufferedRead: the Go reader (serial.go BufferedRead), the chunk     *)
(* queue and the completion of the addon (src/addon.cc) and the JS loop    *)
(* thread that empties them.                                               *)
(*                                                                         *)
(* The reader fills malloc'd batches and hands each over by ownership: it  *)
(* goes through a bounded queue (a ThreadSafeFunction) to the loop thread, *)
(* which copies it for JS and frees it.  When the reader returns, its      *)
(* completion goes through a second ThreadSafeFunction (AsyncLoop).        *)
(* Bytes are numbered in the order the port delivered them.                *)
(***************************************************************************)
EXTENDS AsyncLoop, FiniteSets

Sequence == INSTANCE SequencesExt

CONSTANTS
  BatchSize,  \* bytes a batch holds
  Depth,      \* kChunkQueueDepth
  MaxRx       \* bytes the device ever sends (bounds the behaviour)

ASSUME StreamAssumption ==
  /\ BatchSize \in Nat \ {0} /\ Depth \in Nat \ {0}
  /\ MaxRx \in Nat

VARIABLES
  pc,         \* where the reader is
  outcome,    \* what BufferedRead returns, "none" while its loop runs
  batch,      \* the reader's own batch, 0 for nil
  filled,     \* the bytes in it
  handing,    \* the chunk fsp_emit_chunk holds, not queued yet
  queue,      \* the chunks in the data ThreadSafeFunction
  registered, \* that one is in g_tsfns
  posted,     \* the completion is in the done ThreadSafeFunction
  calling,    \* the chunk whose JS callback the loop runs
  allocated,  \* batches malloc'd so far, numbered from 1
  frees,      \* how often each was freed
  rx,         \* bytes read from the port
  delivered,  \* bytes the JS callback got
  resolved    \* the promise of bufferedRead is settled

readerVars == <<pc, outcome, batch, filled, handing, rx>>
jsVars == <<calling, delivered, resolved>>
heapVars == <<allocated, frees>>
vars == <<asyncVars, readerVars, queue, registered, posted, jsVars, heapVars>>

Handles == <<"data", "done">>
Batches == 1..(MaxRx + 1)
Bytes == 1..MaxRx
Nothing == [batch |-> 0, bytes |-> <<>>]
Chunk == [batch : Batches, bytes : Seq(Bytes)]

TypeOK ==
  /\ LoopTypeOK({"data", "done"})
  /\ pc \in {"newBatch", "poll", "emit", "push", "return", "complete", "done"}
  /\ outcome \in {"none", "ok", "portError", "panic"}
  /\ batch \in Batches \union {0}
  /\ filled \in Seq(Bytes) /\ Len(filled) <= BatchSize
  /\ handing \in Chunk \union {Nothing}
  /\ calling \in Chunk \union {Nothing}
  /\ queue \in Seq(Chunk) /\ Len(queue) <= Depth
  /\ registered \in BOOLEAN /\ posted \in BOOLEAN /\ resolved \in BOOLEAN
  /\ allocated \in Batches \union {0}
  /\ frees \in [Batches -> Nat]
  /\ rx \in 0..MaxRx
  /\ delivered \in Seq(Bytes)

\* The loop thread has made both ThreadSafeFunctions and started the reader,
\* which has the read conch.
Init ==
  /\ LoopInit
  /\ pc = "newBatch"
  /\ outcome = "none"
  /\ batch = 0
  /\ filled = <<>>
  /\ handing = Nothing
  /\ queue = <<>>
  /\ registered = TRUE
  /\ posted = FALSE
  /\ calling = Nothing
  /\ allocated = 0
  /\ frees = [b \in Batches |-> 0]
  /\ rx = 0
  /\ delivered = <<>>
  /\ resolved = FALSE

Free(b) == frees' = [frees EXCEPT ![b] = @ + 1]

-----------------------------------------------------------------------------
(* The reader *)

\* sink.newBatch, at the start and after each emit.
NewBatch ==
  /\ pc = "newBatch"
  /\ allocated' = allocated + 1
  /\ batch' = allocated + 1
  /\ pc' = IF outcome = "none" THEN "poll" ELSE "return"
  /\ UNCHANGED <<asyncVars, outcome, filled, handing, rx, queue, registered,
                 posted, jsVars, frees>>

\* Out of memory: newBatch panics, the reader unwinds without a batch.
NewBatchPanic ==
  /\ pc = "newBatch"
  /\ outcome' = "panic"
  /\ pc' = "return"
  /\ UNCHANGED <<asyncVars, batch, filled, handing, rx, queue, registered,
                 posted, jsVars, heapVars>>

\* The variant of Poll that returns without a last flush.
EndNoFlush(out) ==
  /\ pc = "poll"
  /\ outcome' = out
  /\ pc' = "return"
  /\ UNCHANGED <<asyncVars, batch, filled, handing, rx, queue, registered,
                 posted, jsVars, heapVars>>

\* The idle deadline is past, or the port fails: flush, then return.
End(out) ==
  /\ pc = "poll"
  /\ outcome' = out
  /\ pc' = IF filled = <<>> THEN "return" ELSE "emit"
  /\ UNCHANGED <<asyncVars, batch, filled, handing, rx, queue, registered,
                 posted, jsVars, heapVars>>

\* A poll without data: what there is goes out.
Gap ==
  /\ pc = "poll"
  /\ filled # <<>>
  /\ pc' = "emit"
  /\ UNCHANGED <<asyncVars, outcome, batch, filled, handing, rx, queue,
                 registered, posted, jsVars, heapVars>>

\* n bytes arrive; a full batch goes out.
Data(n) ==
  /\ pc = "poll"
  /\ rx + n <= MaxRx
  /\ Len(filled) + n <= BatchSize
  /\ rx' = rx + n
  /\ filled' = filled \o [i \in 1..n |-> rx + i]
  /\ pc' = IF Len(filled) + n = BatchSize THEN "emit" ELSE "poll"
  /\ UNCHANGED <<asyncVars, outcome, batch, handing, queue, registered, posted,
                 jsVars, heapVars>>

\* The port panics: what is in the batch is lost, the batch is not.
PollPanic ==
  /\ pc = "poll"
  /\ outcome' = "panic"
  /\ pc' = "return"
  /\ UNCHANGED <<asyncVars, batch, filled, handing, rx, queue, registered,
                 posted, jsVars, heapVars>>

\* Variants of Emit: the reader keeps its claim to the batch; the fill level
\* is not reset.
EmitKeepsBatch ==
  /\ pc = "emit"
  /\ filled' = <<>>
  /\ handing' = [batch |-> batch, bytes |-> filled]
  /\ pc' = "push"
  /\ UNCHANGED <<asyncVars, outcome, batch, rx, queue, registered, posted,
                 jsVars, heapVars>>

EmitKeepsFilled ==
  /\ pc = "emit"
  /\ batch' = 0
  /\ filled' = IF Len(filled) < BatchSize THEN filled ELSE <<>>
  /\ handing' = [batch |-> batch, bytes |-> filled]
  /\ pc' = "push"
  /\ UNCHANGED <<asyncVars, outcome, rx, queue, registered, posted, jsVars,
                 heapVars>>

\* flush: batch = nil and filled = 0 before the handoff.  fsp_emit_chunk looks
\* the stream up; if it is not there it frees the buffer.
Emit ==
  /\ pc = "emit"
  /\ batch' = 0
  /\ filled' = <<>>
  /\ IF registered
     THEN /\ handing' = [batch |-> batch, bytes |-> filled]
          /\ pc' = "push"
          /\ UNCHANGED frees
     ELSE /\ Free(batch)
          /\ pc' = "newBatch"
          /\ UNCHANGED handing
  /\ UNCHANGED <<asyncVars, outcome, rx, queue, registered, posted, jsVars,
                 allocated>>

\* Variants of Push: a queue without bound; a push that does not wake the loop.
PushUnbounded ==
  /\ pc = "push"
  /\ queue' = Append(queue, handing)
  /\ handing' = Nothing
  /\ Signal("data")
  /\ pc' = "newBatch"
  /\ UNCHANGED <<outcome, batch, filled, rx, registered, posted, jsVars,
                 heapVars>>

PushSilent ==
  /\ pc = "push"
  /\ Len(queue) < Depth
  /\ queue' = Append(queue, handing)
  /\ handing' = Nothing
  /\ pc' = "newBatch"
  /\ UNCHANGED <<asyncVars, outcome, batch, filled, rx, registered, posted,
                 jsVars, heapVars>>

\* BlockingCall: the reader is parked here while the queue is full.
Push ==
  /\ pc = "push"
  /\ Len(queue) < Depth
  /\ queue' = Append(queue, handing)
  /\ handing' = Nothing
  /\ Signal("data")
  /\ pc' = "newBatch"
  /\ UNCHANGED <<outcome, batch, filled, rx, registered, posted, jsVars,
                 heapVars>>

\* The variant of Return without the deferred free.
ReturnNoFree ==
  /\ pc = "return"
  /\ batch' = 0
  /\ pc' = "complete"
  /\ UNCHANGED <<asyncVars, outcome, filled, handing, rx, queue, registered,
                 posted, jsVars, heapVars>>

\* The deferred free of a batch that was never emitted.
Return ==
  /\ pc = "return"
  /\ IF batch = 0 THEN UNCHANGED frees ELSE Free(batch)
  /\ batch' = 0
  /\ filled' = <<>>
  /\ pc' = "complete"
  /\ UNCHANGED <<asyncVars, outcome, handing, rx, queue, registered, posted,
                 jsVars, allocated>>

\* completeErr or autoRecover: fsp_complete takes the pending op and posts its
\* resolution, never waiting.
Complete ==
  /\ pc = "complete"
  /\ posted' = TRUE
  /\ Signal("done")
  /\ pc' = "done"
  /\ UNCHANGED <<outcome, batch, filled, handing, rx, queue, registered,
                 jsVars, heapVars>>

Reader ==
  \/ NewBatch \/ End("ok")
  \/ Gap \/ (\E n \in 1..BatchSize : Data(n))
  \/ Emit \/ Push \/ Return \/ Complete

ReaderFails == NewBatchPanic \/ End("portError") \/ PollPanic

-----------------------------------------------------------------------------
(* The loop thread *)

\* It looks at its handles; serving one is the rest of this section.
LookAround ==
  /\ StartPass(Handles) \/ Visit
  /\ UNCHANGED <<readerVars, queue, registered, posted, jsVars, heapVars>>

\* A chunk leaves the queue; a parked reader may go on.
Pop ==
  /\ calling = Nothing /\ queue # <<>>
  /\ Take("data")
  /\ calling' = Head(queue)
  /\ queue' = Tail(queue)
  /\ UNCHANGED <<readerVars, registered, posted, delivered, resolved,
                 heapVars>>

\* It is copied into a JS buffer, freed, and given to the user's callback.
Deliver ==
  /\ calling # Nothing
  /\ delivered' = delivered \o calling.bytes
  /\ Free(calling.batch)
  /\ calling' = Nothing
  /\ UNCHANGED <<asyncVars, readerVars, queue, registered, posted, resolved,
                 allocated>>

EndData ==
  /\ calling = Nothing
  /\ EndDispatch("data", queue # <<>>)
  /\ UNCHANGED <<readerVars, queue, registered, posted, jsVars, heapVars>>

\* resolvePending's callback settles the promise, then drops the stream.
Resolve ==
  /\ posted
  /\ EndDispatch("done", FALSE)
  /\ posted' = FALSE
  /\ resolved' = TRUE
  /\ registered' = FALSE
  /\ UNCHANGED <<readerVars, queue, calling, delivered, heapVars>>

Loop == LookAround \/ Pop \/ Deliver \/ EndData \/ Resolve

-----------------------------------------------------------------------------

Finished == pc = "done" /\ Idle /\ UNCHANGED vars

Next == Reader \/ ReaderFails \/ Loop \/ Finished

Spec == Init /\ [][Next]_vars

\* The reader's goroutine is scheduled, its port calls come back and the idle
\* deadline comes; nothing need fail or panic.  The program does not block the
\* JS loop.
FairSpec == Spec /\ WF_vars(Reader) /\ WF_vars(Loop)

-----------------------------------------------------------------------------
(* Properties *)

\* The batches somebody may still read, write or free.
Owned == ({batch, handing.batch, calling.batch}
            \union {queue[i].batch : i \in DOMAIN queue}) \ {0}

\* A batch has one owner or was freed, once: an emit or allocation panic
\* "can't double-free a buffer whose ownership has already transferred"
\* (serial.go:270).
OneOwner ==
  /\ \A b \in Batches : frees[b] <= 1
  /\ \A b \in Owned : frees[b] = 0
  /\ batch # 0 => batch \notin {handing.batch, calling.batch}
                       \union {queue[i].batch : i \in DOMAIN queue}

\* Whichever way the read ends, no batch is left over: each one malloc'd has
\* an owner until it is freed.
NoBatchLeaks == \A b \in 1..allocated : frees[b] = 0 => b \in Owned

\* JS sees the bytes of the port in their order, each once, none skipped.
InOrder == \A i \in DOMAIN delivered : delivered[i] = i

\* Once a read that did not panic is over and the queue is empty, JS has every
\* byte the port delivered: error and idle exits flush the last batch.
NothingLost ==
  pc = "done" /\ Idle /\ outcome # "panic" => Len(delivered) = rx

\* Backpressure bounds native memory: the queue, the batch being filled or
\* handed over, and the one being copied.
MemoryBounded ==
  Cardinality({b \in 1..allocated : frees[b] = 0}) <= Depth + 2

\* Where wake-ups are served in the order they were sent, and the chunks of the
\* stream fit one dispatch, the promise settles after the last chunk.
DoneAfterChunksFifo ==
  platform = "windows" /\ allocated <= Quota /\ resolved
    => queue = <<>> /\ calling = Nothing

\* addon.cc:328: "queued chunks are processed ahead of the done resolution".
DoneAfterChunks == resolved => queue = <<>> /\ calling = Nothing

\* Bytes on their way, oldest first; a panic gives up the reader's batch.
Transit ==
  calling.bytes
    \o Sequence!FlattenSeq([i \in DOMAIN queue |-> queue[i].bytes])
    \o handing.bytes
    \o (IF outcome = "panic" THEN <<>> ELSE filled)

Stream == INSTANCE ByteStream WITH
  arrived <- rx, transit <- Transit, reading <- outcome = "none",
  settled <- resolved, Capacity <- (Depth + 2) * BatchSize

\* Batches, queue, handoff and both ThreadSafeFunctions together are a bounded
\* FIFO of bytes: no step of the reader, the queue or the loop thread reorders,
\* repeats or drops one, and only a panic loses those of its own batch.
ImplementsStream == Stream!Spec

\* The read always ends: the promise settles, and the parked reader, if any,
\* has been let go with every chunk taken off the queue.
StreamEnds == <>[](resolved /\ pc = "done" /\ queue = <<>> /\ calling = Nothing)

===============================================================================
