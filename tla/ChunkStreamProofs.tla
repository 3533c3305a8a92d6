--------------------------- MODULE ChunkStreamProofs ---------------------------
(***************************************************************************)
(* What every bufferedRead keeps to, for any batch size, queue depth,      *)
(* dispatch quota and number of bytes.                                     *)
(*                                                                         *)
(* The inductive invariant has one part per concern, proved in this order, *)
(* each from the ones before it:                                           *)
(*   Phase, Counted   what the reader holds at each point of its program;  *)
(*   TypeOK           which needs Counted, as batches are numbered;        *)
(*   Woken            a chunk in the queue has a wake-up on its way;       *)
(*   Parted, Accounted  no two owners of a batch, and none freed with one; *)
(*   Ordered          where the bytes on their way are numbered from;      *)
(*   Sized            how many bytes stand at each stage;                  *)
(*   InTime, DoneLast  what a FIFO of wake-ups adds to that.               *)
(* From Ordered and Sized follows that ChunkStream implements ByteStream.  *)
(***************************************************************************)
EXTENDS ChunkStream, AsyncLoopProofs, FiniteSetTheorems, WellFoundedInduction

Names == {"data", "done"}

\* What the reader holds, by where it is.
Phase ==
  /\ pc # "done" => registered /\ ~posted /\ ~resolved
  /\ pc \in {"poll", "emit"} => batch # 0
  /\ pc \in {"newBatch", "push", "complete", "done"} => batch = 0 /\ filled = <<>>
  /\ pc = "emit" => filled # <<>>
  /\ handing # Nothing <=> pc = "push"
  /\ outcome = "none" => pc \in {"newBatch", "poll", "emit", "push"}
  /\ outcome = "panic" => pc \in {"return", "complete", "done"}
  /\ pc = "return" /\ outcome # "panic" => filled = <<>>

\* Each batch that was handed over took a byte of the port with it.
Counted ==
  /\ pc \in {"newBatch", "push"} => allocated <= rx
  /\ allocated + Len(filled) <= rx + 1

\* A chunk in the queue is on its way: its wake-up is pending or being served,
\* and nobody else runs its callback.
Woken ==
  /\ queue # <<>> => "data" \in pending \/ running = "data"
  /\ calling # Nothing => running = "data"

\* No batch in two places.
Parted ==
  /\ \A i, j \in DOMAIN queue : i # j => queue[i].batch # queue[j].batch
  /\ \A i \in DOMAIN queue : queue[i].batch \notin {batch, handing.batch, calling.batch}
  /\ calling.batch # 0 => calling.batch \notin {batch, handing.batch}

\* A batch is freed when it has been allocated and nobody owns it, and then once.
Accounted ==
  /\ \A b \in Batches : frees[b] = IF b <= allocated /\ b \notin Owned THEN 1 ELSE 0
  /\ \A b \in Owned : b <= allocated

\* The bytes of s are those that follow byte n.
Run(s, n) == \A i \in DOMAIN s : s[i] = n + i

\* The last byte before a chunk, and its own last byte.
Before(c) == c.bytes[1] - 1
After(c) == Before(c) + Len(c.bytes)

\* The last byte that went through the JS callback or is in it, that left the
\* reader through the queue, and that was handed to fsp_emit_chunk.
Called == Len(delivered) + Len(calling.bytes)
Queued == IF queue = <<>> THEN Called ELSE After(queue[Len(queue)])
Handed == Queued + Len(handing.bytes)

\* At every stage stand the bytes that follow those of the stage before it.
Ordered ==
  /\ Run(delivered, 0)
  /\ Run(calling.bytes, Len(delivered))
  /\ queue # <<>> => Before(queue[1]) = Called
  /\ \A i \in DOMAIN queue : queue[i].bytes # <<>> /\ Run(queue[i].bytes, Before(queue[i]))
  /\ \A i \in 1..(Len(queue) - 1) : After(queue[i]) = Before(queue[i + 1])
  /\ pc = "push" => handing.bytes # <<>>
  /\ Run(handing.bytes, Queued)
  /\ Run(filled, Handed)
  /\ outcome # "panic" => rx = Handed + Len(filled)

\* The chunks the reader made or is making, and what a dispatch took of them,
\* are no more than the batches it had for them.
Waiting == Len(queue) + (IF batch # 0 \/ handing # Nothing THEN 1 ELSE 0)
InTime ==
  /\ Waiting <= allocated
  /\ running = "data" => Quota - left + Waiting <= allocated

\* The completion is signalled when the reader is over.  With a FIFO and a
\* quota for all chunks, its wake-up comes after the last of the data's.
DoneLast ==
  /\ pc # "done" => "done" \notin pending /\ running # "done"
  /\ platform = "windows" /\ allocated <= Quota =>
       /\ "data" \in pending /\ "done" \in pending => todo = <<"data", "done">>
       /\ running = "done" \/ resolved =>
            queue = <<>> /\ calling = Nothing /\ "data" \notin pending

-----------------------------------------------------------------------------
(* The loop's own variables *)

\* Every step of the reader and of the loop thread is one of the loop's.
LEMMA StepsOfLoop == [Next]_vars => LoopStep(Names, Handles)
<1> USE DEF LoopStep, Names
<1> SUFFICES ASSUME [Next]_vars
             PROVE  LoopStep(Names, Handles)
  OBVIOUS
<1>1. CASE Reader
  BY <1>1 DEF Reader, NewBatch, End, Gap, Data, Emit, Push, Return, Complete
<1>2. CASE ReaderFails
  BY <1>2 DEF ReaderFails, NewBatchPanic, End, PollPanic
<1>3. CASE Loop
  BY <1>3 DEF Loop, LookAround, Pop, Deliver, EndData, Resolve
<1>4. CASE UNCHANGED vars
  BY <1>4 DEF vars
<1> QED BY <1>1, <1>2, <1>3, <1>4 DEF Next, Finished

-----------------------------------------------------------------------------
(* Types *)

LEMMA SendBytes ==
  ASSUME NEW n \in 1..BatchSize, TypeOK, Data(n)
  PROVE  /\ filled' \in Seq(Bytes)
         /\ Len(filled') = Len(filled) + n
         /\ \A i \in DOMAIN filled' :
              filled'[i] = IF i <= Len(filled) THEN filled[i] ELSE rx + i - Len(filled)
<1> DEFINE new == [i \in 1..n |-> rx + i]
<1> USE StreamAssumption
<1>1. rx \in Nat /\ rx + n <= MaxRx /\ n \in Nat
  BY DEF TypeOK, Data
<1>2. \A i \in 1..n : rx + i \in Bytes
  BY <1>1 DEF Bytes
<1>3. new \in Seq(Bytes) /\ Len(new) = n /\ \A i \in 1..n : new[i] = rx + i
  BY <1>1, <1>2
<1>4. filled \in Seq(Bytes) /\ filled' = filled \o new
  BY DEF TypeOK, Data
<1> HIDE DEF new
<1>5. /\ filled' \in Seq(Bytes)
      /\ Len(filled') = Len(filled) + Len(new)
      /\ \A i \in 1..(Len(filled) + Len(new)) :
           filled'[i] = IF i <= Len(filled) THEN filled[i] ELSE new[i - Len(filled)]
  BY <1>3, <1>4, ConcatProperties
<1>6. ASSUME NEW i \in DOMAIN filled', ~(i <= Len(filled))
      PROVE  new[i - Len(filled)] = rx + i - Len(filled)
  <2>1. i \in 1..(Len(filled) + n) /\ Len(filled) \in Nat
    BY <1>3, <1>4, <1>5
  <2>2. i - Len(filled) \in 1..n
    BY <1>6, <2>1, <1>1
  <2> QED BY <1>1, <1>3, <2>1, <2>2
<1> QED BY <1>3, <1>4, <1>5, <1>6

TypeInv == TypeOK /\ Phase /\ Counted

LEMMA TypeInit == Init => TypeInv
<1> SUFFICES ASSUME Init
             PROVE  TypeInv
  OBVIOUS
<1> USE StreamAssumption, LoopAssumption
<1>1. LoopTypeOK(Names)
  BY DEF Init, LoopTypeOK, LoopInit, Names
<1>2. frees \in [Batches -> Nat]
  BY DEF Init
<1>3. <<>> \in Seq(Bytes) /\ <<>> \in Seq(Chunk) /\ Len(<<>>) = 0
  OBVIOUS
<1>4. TypeOK
  <2>1. LoopTypeOK({"data", "done"})
    BY <1>1 DEF Names
  <2>2. filled \in Seq(Bytes) /\ Len(filled) <= BatchSize /\ delivered \in Seq(Bytes)
    BY <1>3 DEF Init
  <2>3. queue \in Seq(Chunk) /\ Len(queue) <= Depth
    BY <1>3 DEF Init
  <2>4. rx \in 0..MaxRx /\ handing = Nothing /\ calling = Nothing
    BY DEF Init
  <2> QED BY <1>2, <2>1, <2>2, <2>3, <2>4 DEF Init, TypeOK
<1>5. Phase /\ Counted
  BY DEF Init, Phase, Counted, Nothing
<1> QED BY <1>4, <1>5 DEF TypeInv

LEMMA PhaseStep == TypeOK /\ Phase /\ [Next]_vars => Phase'
<1> SUFFICES ASSUME TypeOK, Phase, [Next]_vars
             PROVE  Phase'
  OBVIOUS
<1> USE DEF Phase, readerVars, jsVars, Nothing
<1>0. /\ batch \in Nat /\ filled \in Seq(Bytes) /\ allocated \in Nat
      /\ pc \in {"newBatch", "poll", "emit", "push", "return", "complete", "done"}
  BY StreamAssumption DEF TypeOK, Batches
<1>1. CASE NewBatch
  BY <1>0, <1>1 DEF NewBatch
<1>2. CASE NewBatchPanic \/ PollPanic
  BY <1>0, <1>2 DEF NewBatchPanic, PollPanic
<1>3. ASSUME NEW out \in {"ok", "portError"}, End(out)
      PROVE  Phase'
  BY <1>0, <1>3 DEF End
<1>4. CASE Gap
  BY <1>0, <1>4 DEF Gap
<1>5. ASSUME NEW n \in 1..BatchSize, Data(n)
      PROVE  Phase'
  <2>1. Len(filled') # 0 /\ filled' \in Seq(Bytes)
    BY <1>0, <1>5, SendBytes, StreamAssumption
  <2>2. filled' # <<>>
    BY <2>1
  <2> QED BY <1>0, <1>5, <2>2 DEF Data
<1>6. CASE Emit
  BY <1>0, <1>6 DEF Emit
<1>7. CASE Push
  BY <1>0, <1>7 DEF Push
<1>8. CASE Return
  BY <1>0, <1>8 DEF Return
<1>9. CASE Complete
  BY <1>0, <1>9 DEF Complete
<1>10. CASE LookAround \/ Pop \/ Deliver \/ EndData
  BY <1>10 DEF LookAround, Pop, Deliver, EndData
<1>11. CASE Resolve
  BY <1>11 DEF Resolve
<1>12. CASE UNCHANGED vars
  BY <1>12 DEF vars
<1> QED
  BY <1>1, <1>2, <1>3, <1>4, <1>5, <1>6, <1>7, <1>8, <1>9, <1>10, <1>11, <1>12
  DEF Next, Reader, ReaderFails, Loop, Finished

LEMMA CountStep == TypeOK /\ Phase /\ Counted /\ [Next]_vars => Counted'
<1> SUFFICES ASSUME TypeOK, Phase, Counted, [Next]_vars
             PROVE  Counted'
  OBVIOUS
<1> USE DEF Counted, readerVars, jsVars, heapVars
<1>0. /\ filled \in Seq(Bytes) /\ allocated \in Nat /\ rx \in Nat
      /\ Len(filled) \in Nat /\ Len(<<>>) = 0
  BY StreamAssumption DEF TypeOK, Batches
<1>1. CASE NewBatch
  BY <1>0, <1>1 DEF NewBatch, Phase
<1>2. CASE NewBatchPanic \/ PollPanic \/ End("ok") \/ End("portError") \/ Gap
  BY <1>0, <1>2 DEF NewBatchPanic, PollPanic, End, Gap
<1>3. ASSUME NEW n \in 1..BatchSize, Data(n)
      PROVE  Counted'
  <2>1. Len(filled') = Len(filled) + n /\ n \in Nat
    BY <1>3, SendBytes, StreamAssumption
  <2>2. rx' = rx + n /\ allocated' = allocated /\ pc' \in {"emit", "poll"}
    BY <1>3 DEF Data
  <2> QED BY <1>0, <2>1, <2>2
<1>4. CASE Emit
  <2>1. Len(filled) # 0
    BY <1>0, <1>4 DEF Emit, Phase
  <2> QED BY <1>0, <1>4, <2>1 DEF Emit
<1>5. CASE Push \/ Return \/ Complete
  BY <1>0, <1>5 DEF Push, Return, Complete
<1>6. CASE Loop
  BY <1>6 DEF Loop, LookAround, Pop, Deliver, EndData, Resolve
<1>7. CASE UNCHANGED vars
  BY <1>7 DEF vars
<1> QED
  BY <1>1, <1>2, <1>3, <1>4, <1>5, <1>6, <1>7 DEF Next, Reader, ReaderFails, Finished

\* Taking a chunk off the queue, and adding one.
LEMMA QueueTypes ==
  ASSUME NEW s \in Seq(Chunk)
  PROVE  /\ \A c \in Chunk : Append(s, c) \in Seq(Chunk) /\ Len(Append(s, c)) = Len(s) + 1
         /\ s # <<>> => /\ Head(s) \in Chunk
                        /\ Tail(s) \in Seq(Chunk)
                        /\ Len(Tail(s)) = Len(s) - 1
BY HeadTailProperties

LEMMA TypeStep == TypeInv /\ [Next]_vars => TypeOK'
<1> SUFFICES ASSUME TypeOK, Phase, Counted, [Next]_vars
             PROVE  TypeOK'
  BY DEF TypeInv
<1> USE StreamAssumption DEF readerVars, jsVars, heapVars
<1>1. LoopTypeOK(Names)'
  <2>1. Handles \in Seq(Names) /\ LoopTypeOK(Names)
    BY DEF Handles, Names, TypeOK
  <2> QED BY <2>1, StepsOfLoop, LoopTypes
<1>2. /\ pc' \in {"newBatch", "poll", "emit", "push", "return", "complete", "done"}
      /\ outcome' \in {"none", "ok", "portError", "panic"}
      /\ registered' \in BOOLEAN /\ posted' \in BOOLEAN /\ resolved' \in BOOLEAN
  BY DEF TypeOK, Next, Reader, ReaderFails, Loop, Finished, NewBatch, NewBatchPanic, End,
     Gap, Data, PollPanic, Emit, Push, Return, Complete, LookAround, Pop, Deliver, EndData,
     Resolve, vars
<1>3. /\ batch' \in Batches \union {0} /\ allocated' \in Batches \union {0}
      /\ frees' \in [Batches -> Nat]
  <2>0. /\ batch \in Batches \union {0} /\ allocated \in Batches \union {0}
        /\ frees \in [Batches -> Nat] /\ rx \in 0..MaxRx
        /\ calling # Nothing => calling.batch \in Batches
    BY DEF TypeOK, Chunk
  <2>1. ASSUME NEW b \in Batches, Free(b)
        PROVE  frees' \in [Batches -> Nat]
    <3>1. frees[b] + 1 \in Nat
      BY <2>0
    <3> QED BY <2>0, <2>1, <3>1 DEF Free
  <2>2. CASE NewBatch
    <3>1. allocated + 1 \in Batches
      BY <2>0, <2>2 DEF NewBatch, Counted, Batches
    <3> QED BY <2>0, <2>2, <3>1 DEF NewBatch
  <2>3. CASE Emit \/ Return \/ Deliver
    BY <2>0, <2>1, <2>3 DEF Emit, Return, Deliver, Phase
  <2>4. CASE UNCHANGED <<batch, allocated, frees>>
    BY <2>0, <2>4
  <2> QED
    BY <2>2, <2>3, <2>4 DEF Next, Reader, ReaderFails, Loop, Finished, NewBatchPanic, End,
       Gap, Data, PollPanic, Push, Complete, LookAround, Pop, EndData, Resolve, vars
<1>4. filled' \in Seq(Bytes) /\ Len(filled') <= BatchSize /\ rx' \in 0..MaxRx
  <2>0. /\ filled \in Seq(Bytes) /\ Len(filled) <= BatchSize /\ Len(filled) \in Nat
        /\ rx \in 0..MaxRx /\ <<>> \in Seq(Bytes) /\ Len(<<>>) = 0
    BY DEF TypeOK
  <2>1. ASSUME NEW n \in 1..BatchSize, Data(n)
        PROVE  filled' \in Seq(Bytes) /\ Len(filled') <= BatchSize /\ rx' \in 0..MaxRx
    <3>1. filled' \in Seq(Bytes) /\ Len(filled') = Len(filled) + n
      BY <2>1, SendBytes
    <3>2. rx + n <= MaxRx /\ Len(filled) + n <= BatchSize /\ rx' = rx + n
      BY <2>1 DEF Data
    <3> QED BY <2>0, <3>1, <3>2
  <2>2. CASE Emit \/ Return
    <3>1. filled' = <<>> /\ rx' = rx
      BY <2>2 DEF Emit, Return
    <3>2. Len(filled') <= BatchSize
      BY <2>0, <3>1
    <3> QED BY <2>0, <3>1, <3>2
  <2>3. CASE UNCHANGED <<filled, rx>>
    BY <2>0, <2>3
  <2> QED
    BY <2>1, <2>2, <2>3 DEF Next, Reader, ReaderFails, Loop, Finished, NewBatch,
       NewBatchPanic, End, Gap, PollPanic, Push, Complete, LookAround, Pop, Deliver,
       EndData, Resolve, vars
<1>5. /\ handing' \in Chunk \union {Nothing} /\ calling' \in Chunk \union {Nothing}
      /\ queue' \in Seq(Chunk) /\ Len(queue') <= Depth
      /\ delivered' \in Seq(Bytes)
  <2>0. /\ handing \in Chunk \union {Nothing} /\ calling \in Chunk \union {Nothing}
        /\ queue \in Seq(Chunk) /\ Len(queue) <= Depth /\ Len(queue) \in Nat
        /\ delivered \in Seq(Bytes)
    BY DEF TypeOK
  <2>1. CASE Emit
    <3>1. [batch |-> batch, bytes |-> filled] \in Chunk
      BY <2>1 DEF Emit, Phase, TypeOK, Chunk
    <3> QED BY <2>0, <2>1, <3>1 DEF Emit
  <2>2. CASE Push
    <3>1. handing \in Chunk
      BY <2>0, <2>2 DEF Push, Phase
    <3>2. Append(queue, handing) \in Seq(Chunk) /\ Len(Append(queue, handing)) = Len(queue) + 1
      BY <2>0, <3>1, QueueTypes
    <3> QED BY <2>0, <2>2, <3>2 DEF Push
  <2>3. CASE Pop
    <3>1. Head(queue) \in Chunk /\ Tail(queue) \in Seq(Chunk) /\ Len(Tail(queue)) = Len(queue) - 1
      BY <2>0, <2>3, QueueTypes DEF Pop
    <3> QED BY <2>0, <2>3, <3>1 DEF Pop
  <2>4. CASE Deliver
    <3>1. calling.bytes \in Seq(Bytes)
      BY <2>0, <2>4 DEF Deliver, Chunk
    <3> QED BY <2>0, <2>4, <3>1 DEF Deliver
  <2>5. CASE UNCHANGED <<handing, calling, queue, delivered>>
    BY <2>0, <2>5
  <2> QED
    BY <2>1, <2>2, <2>3, <2>4, <2>5 DEF Next, Reader, ReaderFails, Loop, Finished, NewBatch,
       NewBatchPanic, End, Gap, Data, PollPanic, Return, Complete, LookAround, EndData,
       Resolve, vars
<1> QED BY <1>1, <1>2, <1>3, <1>4, <1>5 DEF TypeOK, Names

\* TypeOK with what it rests on: the only reason a batch number stays in range
\* is that no chunk is empty.
LEMMA TypeInvStep == TypeInv /\ [Next]_vars => TypeInv'
BY TypeStep, PhaseStep, CountStep DEF TypeInv

\* Every variable of a bufferedRead stays in its type: at most Depth chunks are
\* queued, no batch is over-full and batches never outnumber the bytes.
THEOREM TypeCorrect == Spec => []TypeOK
<1>1. TypeInv => TypeOK
  BY DEF TypeInv
<1> QED BY TypeInit, TypeInvStep, <1>1, PTL DEF Spec

-----------------------------------------------------------------------------
(* Wake-ups *)

LEMMA WakeStep == TypeOK /\ Phase /\ Woken /\ [Next]_vars => Woken'
<1> SUFFICES ASSUME TypeOK, Phase, Woken, [Next]_vars
             PROVE  Woken'
  OBVIOUS
<1> USE DEF Woken, readerVars, jsVars
<1>1. CASE Push
  <2>1. "data" \in pending' \/ running' = "data"
    BY <1>1 DEF Push, Signal, Wake
  <2>2. calling' = calling /\ running' = running
    BY <1>1 DEF Push, Signal
  <2> QED BY <2>1, <2>2
<1>2. CASE Pop
  BY <1>2 DEF Pop, Take, wakeVars
<1>3. CASE Deliver
  BY <1>3 DEF Deliver, asyncVars, wakeVars
<1>4. CASE EndData
  BY <1>4 DEF EndData, EndDispatch, Wake
<1>5. CASE Resolve
  BY <1>5 DEF Resolve, EndDispatch
<1>6. CASE Complete
  BY <1>6 DEF Complete, Signal, Wake
<1>7. CASE LookAround
  BY <1>7 DEF LookAround, StartPass, Visit
<1>8. CASE UNCHANGED <<asyncVars, queue, calling>>
  BY <1>8 DEF asyncVars, wakeVars
<1> QED
  BY <1>1, <1>2, <1>3, <1>4, <1>5, <1>6, <1>7, <1>8 DEF Next, Reader, ReaderFails, Loop,
     Finished, NewBatch, NewBatchPanic, End, Gap, Data, PollPanic, Emit, Return, vars

-----------------------------------------------------------------------------
(* Batches *)

HeapInv == TypeInv /\ Parted /\ Accounted

\* A batch number that is owned, spelled out.
LEMMA OwnedIs ==
  \A b : b \in Owned <=> /\ b # 0
                         /\ \/ b \in {batch, handing.batch, calling.batch}
                            \/ \E i \in DOMAIN queue : queue[i].batch = b
BY DEF Owned

\* What a queued chunk is.
LEMMA QueuedChunks ==
  ASSUME TypeOK
  PROVE  \A i \in DOMAIN queue : /\ queue[i].batch \in Batches /\ queue[i].batch # 0
                                /\ queue[i].bytes \in Seq(Bytes)
<1>1. queue \in Seq(Chunk)
  BY DEF TypeOK
<1>2. \A i \in DOMAIN queue : queue[i] \in Chunk
  BY <1>1
<1> QED BY <1>2 DEF Chunk, Batches

LEMMA OwnedBatches == TypeOK => Owned \subseteq Batches
<1> SUFFICES ASSUME TypeOK
             PROVE  Owned \subseteq Batches
  OBVIOUS
<1>1. /\ batch \in Batches \union {0} /\ handing.batch \in Batches \union {0}
      /\ calling.batch \in Batches \union {0}
  BY DEF TypeOK, Chunk, Nothing
<1> QED BY <1>1, QueuedChunks, OwnedIs

\* What the end of the queue and its front look like after a push and a pop.
LEMMA PushedQueue ==
  ASSUME TypeOK, Phase, Push
  PROVE  /\ handing \in Chunk /\ queue \in Seq(Chunk) /\ queue' \in Seq(Chunk)
         /\ Len(queue) \in Nat /\ Len(queue') = Len(queue) + 1
         /\ DOMAIN queue = 1..Len(queue) /\ DOMAIN queue' = 1..(Len(queue) + 1)
         /\ \A i \in DOMAIN queue' :
              queue'[i] = IF i <= Len(queue) THEN queue[i] ELSE handing
<1>1. handing \in Chunk /\ queue \in Seq(Chunk)
  BY DEF TypeOK, Phase, Push
<1> QED BY <1>1, QueueTypes DEF Push

LEMMA PoppedQueue ==
  ASSUME TypeOK, Pop
  PROVE  /\ calling' \in Chunk /\ queue \in Seq(Chunk) /\ queue' \in Seq(Chunk)
         /\ Len(queue) \in Nat \ {0} /\ Len(queue') = Len(queue) - 1
         /\ DOMAIN queue = 1..Len(queue) /\ DOMAIN queue' = 1..(Len(queue) - 1)
         /\ calling' = queue[1]
         /\ \A i \in DOMAIN queue' : queue'[i] = queue[i + 1]
<1>1. queue \in Seq(Chunk) /\ queue # <<>> /\ queue' = Tail(queue) /\ calling' = Head(queue)
  BY DEF TypeOK, Pop
<1> QED BY <1>1, HeadTailProperties

\* Every step takes a new batch, frees an owned one, or moves one along.
LEMMA Moves ==
  ASSUME TypeOK, Phase, Parted, [Next]_vars
  PROVE  \/ Owned' = Owned \union {allocated + 1} /\ allocated' = allocated + 1 /\ frees' = frees
         \/ Owned' = Owned /\ allocated' = allocated /\ frees' = frees
         \/ \E b \in Owned : Owned' = Owned \ {b} /\ allocated' = allocated /\ Free(b)
<1> DEFINE Goal ==
      \/ Owned' = Owned \union {allocated + 1} /\ allocated' = allocated + 1 /\ frees' = frees
      \/ Owned' = Owned /\ allocated' = allocated /\ frees' = frees
      \/ \E b \in Owned : Owned' = Owned \ {b} /\ allocated' = allocated /\ Free(b)
<1> SUFFICES Goal
  OBVIOUS
<1>0. allocated \in Nat
  BY StreamAssumption DEF TypeOK, Batches
<1>1. CASE NewBatch
  <2>1. /\ batch = 0 /\ batch' = allocated + 1 /\ allocated + 1 # 0
        /\ queue' = queue /\ handing' = handing /\ calling' = calling
        /\ allocated' = allocated + 1 /\ frees' = frees
    BY <1>0, <1>1 DEF NewBatch, Phase, readerVars, jsVars
  <2>2. Owned' = Owned \union {allocated + 1}
    BY <2>1 DEF Owned
  <2> QED BY <2>1, <2>2
<1>2. CASE Emit
  <2>1. /\ handing.batch = 0 /\ batch' = 0 /\ handing'.batch = batch
        /\ queue' = queue /\ calling' = calling /\ allocated' = allocated /\ frees' = frees
    BY <1>2 DEF Emit, Phase, Nothing, readerVars, jsVars
  <2>2. Owned' = Owned
    BY <2>1 DEF Owned
  <2> QED BY <2>1, <2>2
<1>3. CASE Push
  <2>1. handing'.batch = 0 /\ batch' = batch /\ calling' = calling /\ allocated' = allocated /\ frees' = frees
    BY <1>3 DEF Push, Nothing, jsVars, heapVars
  <2>2. \A b : b \in Owned' <=> b \in Owned
    <3>1. \A b : (\E i \in DOMAIN queue' : queue'[i].batch = b)
                 <=> b = handing.batch \/ \E i \in DOMAIN queue : queue[i].batch = b
      <4>1. queue'[Len(queue) + 1] = handing /\ Len(queue) + 1 \in DOMAIN queue'
        BY <1>3, PushedQueue
      <4>2. \A i \in DOMAIN queue : i \in DOMAIN queue' /\ queue'[i] = queue[i]
        BY <1>3, PushedQueue
      <4>3. \A i \in DOMAIN queue' : queue'[i] = handing \/ (i \in DOMAIN queue /\ queue'[i] = queue[i])
        BY <1>3, PushedQueue
      <4> QED BY <4>1, <4>2, <4>3
    <3>2. \A b : b \in Owned' <=> /\ b # 0
                                  /\ \/ b \in {batch', handing'.batch, calling'.batch}
                                     \/ \E i \in DOMAIN queue' : queue'[i].batch = b
      BY DEF Owned
    <3> QED BY <2>1, <3>1, <3>2, OwnedIs
  <2> QED BY <2>1, <2>2
<1>4. CASE Pop
  <2>1. /\ calling.batch = 0 /\ batch' = batch /\ handing' = handing
        /\ allocated' = allocated /\ frees' = frees
    BY <1>4 DEF Pop, Nothing, readerVars, heapVars
  <2>2. \A b : b \in Owned' <=> b \in Owned
    <3>1. \A b : (\E i \in DOMAIN queue : queue[i].batch = b)
                 <=> b = calling'.batch \/ \E i \in DOMAIN queue' : queue'[i].batch = b
      <4>1. 1 \in DOMAIN queue /\ calling' = queue[1]
        BY <1>4, PoppedQueue
      <4>2. \A i \in DOMAIN queue' : i + 1 \in DOMAIN queue /\ queue'[i] = queue[i + 1]
        BY <1>4, PoppedQueue
      <4>3. ASSUME NEW i \in DOMAIN queue, i # 1
            PROVE  i - 1 \in DOMAIN queue' /\ queue'[i - 1] = queue[i]
        <5>1. i - 1 \in DOMAIN queue' /\ (i - 1) + 1 = i
          BY <1>4, <4>3, PoppedQueue
        <5> QED BY <1>4, <5>1, PoppedQueue
      <4> QED BY <4>1, <4>2, <4>3
    <3>2. \A b : b \in Owned' <=> /\ b # 0
                                  /\ \/ b \in {batch', handing'.batch, calling'.batch}
                                     \/ \E i \in DOMAIN queue' : queue'[i].batch = b
      BY DEF Owned
    <3> QED BY <2>1, <3>1, <3>2, OwnedIs
  <2> QED BY <2>1, <2>2
<1>5. CASE Deliver
  <2>1. /\ calling.batch # 0 /\ calling'.batch = 0 /\ batch' = batch /\ handing' = handing
        /\ queue' = queue /\ allocated' = allocated /\ Free(calling.batch)
    BY <1>5 DEF Deliver, Nothing, readerVars, TypeOK, Chunk, Batches
  <2>2. Owned' = Owned \ {calling.batch} /\ calling.batch \in Owned
    BY <2>1 DEF Owned, Parted
  <2> QED BY <2>1, <2>2
<1>6. CASE Return
  <2>1. /\ handing.batch = 0 /\ batch' = 0 /\ handing' = handing /\ calling' = calling
        /\ queue' = queue /\ allocated' = allocated
        /\ IF batch = 0 THEN frees' = frees ELSE Free(batch)
    BY <1>6 DEF Return, Phase, Nothing, jsVars
  <2>2. Owned' = Owned \ {batch}
    BY <2>1 DEF Owned, Parted
  <2>3. batch = 0 => 0 \notin Owned
    BY DEF Owned
  <2>4. batch # 0 => batch \in Owned
    BY DEF Owned
  <2> QED BY <2>1, <2>2, <2>3, <2>4
<1>7. CASE UNCHANGED <<batch, handing, calling, queue, allocated, frees>>
  <2>1. Owned' = Owned
    BY <1>7 DEF Owned
  <2> QED BY <1>7, <2>1
<1> HIDE DEF Goal
<1> QED
  BY <1>1, <1>2, <1>3, <1>4, <1>5, <1>6, <1>7 DEF Next, Reader, ReaderFails, Loop, Finished,
     NewBatchPanic, End, Gap, Data, PollPanic, Complete, LookAround, EndData, Resolve,
     readerVars, jsVars, heapVars, vars

LEMMA PartStep == TypeOK /\ Phase /\ Parted /\ Accounted /\ [Next]_vars => Parted'
<1> SUFFICES ASSUME TypeOK, Phase, Parted, Accounted, [Next]_vars
             PROVE  Parted'
  OBVIOUS
<1> USE DEF Parted
<1>0. allocated \in Nat /\ allocated + 1 # 0
  BY StreamAssumption DEF TypeOK, Batches
<1>1. CASE NewBatch
  <2>1. /\ batch' = allocated + 1 /\ allocated + 1 \notin Owned /\ allocated + 1 # 0
        /\ queue' = queue /\ handing' = handing /\ calling' = calling
    BY <1>0, <1>1 DEF NewBatch, Accounted, readerVars, jsVars
  <2>2. /\ \A i \in DOMAIN queue : queue[i].batch # allocated + 1
        /\ calling.batch # allocated + 1
    BY <2>1, OwnedIs
  <2> QED BY <2>1, <2>2
<1>2. CASE Emit
  <2>1. /\ batch' = 0 /\ handing'.batch = batch
        /\ queue' = queue /\ calling' = calling
    BY <1>2 DEF Emit, Phase, jsVars
  <2>2. \A i \in DOMAIN queue : queue[i].batch # 0
    BY QueuedChunks
  <2> QED BY <2>1, <2>2
<1>3. CASE Push
  <2>1. /\ handing'.batch = 0 /\ batch' = batch /\ calling' = calling
        /\ batch = 0 /\ handing.batch # 0
    BY <1>3, PushedQueue DEF Push, Phase, Nothing, jsVars, Chunk, Batches
  <2>2. \A i \in DOMAIN queue' :
          \/ i \in DOMAIN queue /\ queue'[i] = queue[i]
          \/ i = Len(queue) + 1 /\ queue'[i] = handing
    BY <1>3, PushedQueue
  <2> QED BY <2>1, <2>2
<1>4. CASE Pop
  <2>1. /\ batch' = batch /\ handing' = handing /\ calling'.batch # 0 /\ calling' = queue[1]
        /\ 1 \in DOMAIN queue
    BY <1>4, PoppedQueue DEF Pop, Chunk, Batches, readerVars
  <2>2. \A i \in DOMAIN queue' : /\ i + 1 \in DOMAIN queue /\ i + 1 # 1 /\ queue'[i] = queue[i + 1]
                                /\ i \in Nat
    BY <1>4, PoppedQueue
  <2>3. \A i, j \in DOMAIN queue' : i # j => i + 1 # j + 1
    BY <2>2
  <2> QED BY <2>1, <2>2, <2>3
<1>5. CASE Deliver \/ Return
  <2>1. /\ calling' = calling \/ (calling' = Nothing)
        /\ batch' \in {batch, 0} /\ handing' = handing /\ queue' = queue
    BY <1>5 DEF Deliver, Return, readerVars, jsVars
  <2>2. \A i \in DOMAIN queue : queue[i].batch # 0
    BY QueuedChunks
  <2> QED BY <2>1, <2>2 DEF Nothing
<1>6. CASE UNCHANGED <<batch, handing, calling, queue>>
  BY <1>6
<1> QED
  BY <1>1, <1>2, <1>3, <1>4, <1>5, <1>6 DEF Next, Reader, ReaderFails, Loop, Finished,
     NewBatchPanic, End, Gap, Data, PollPanic, Complete, LookAround, EndData, Resolve,
     readerVars, jsVars, vars

LEMMA AccountStep == TypeInv /\ Parted /\ Accounted /\ [Next]_vars => Accounted'
<1> SUFFICES ASSUME TypeOK, Phase, Counted, Parted, Accounted, [Next]_vars
             PROVE  Accounted'
  BY DEF TypeInv
<1>0. /\ allocated \in Nat /\ frees \in [Batches -> Nat] /\ \A b \in Batches : b \in Nat
      /\ \A b \in Owned : b \in Batches
  <2>1. allocated \in Nat /\ frees \in [Batches -> Nat] /\ \A b \in Batches : b \in Nat
    BY StreamAssumption DEF TypeOK, Batches
  <2> QED BY <2>1, OwnedBatches
<1>1. ASSUME Owned' = Owned \union {allocated + 1}, allocated' = allocated + 1, frees' = frees
      PROVE  Accounted'
  BY <1>0, <1>1 DEF Accounted
<1>2. ASSUME Owned' = Owned, allocated' = allocated, frees' = frees
      PROVE  Accounted'
  BY <1>2 DEF Accounted
<1>3. ASSUME NEW b \in Owned, Owned' = Owned \ {b}, allocated' = allocated, Free(b)
      PROVE  Accounted'
  <2>1. b \in Batches /\ b <= allocated /\ frees[b] = 0
    BY <1>0, <1>3 DEF Accounted
  <2>2. \A c \in Batches : frees'[c] = IF c = b THEN 1 ELSE frees[c]
    BY <1>0, <1>3, <2>1 DEF Free
  <2> QED BY <1>3, <2>1, <2>2 DEF Accounted
<1> QED BY <1>1, <1>2, <1>3, Moves

LEMMA HeapInit == Init => HeapInv
<1> SUFFICES ASSUME Init
             PROVE  HeapInv
  OBVIOUS
<1>1. Owned = {} /\ allocated = 0 /\ frees = [b \in Batches |-> 0]
  BY DEF Init, Owned, Nothing
<1>2. Accounted
  BY <1>1, StreamAssumption DEF Accounted, Batches
<1>3. Parted
  BY DEF Init, Parted, Nothing
<1> QED BY <1>2, <1>3, TypeInit DEF HeapInv

\* The inductive invariant of the batches.
THEOREM Heap == Spec => []HeapInv
<1>1. HeapInv /\ [Next]_vars => HeapInv'
  BY TypeInvStep, PartStep, AccountStep DEF HeapInv, TypeInv
<1> QED BY HeapInit, <1>1, PTL DEF Spec

\* A batch given away is not freed, written or given away again, whichever way
\* the read ends (the panic of serial.go:270 included).
THEOREM Ownership == Spec => []OneOwner
<1>1. HeapInv => OneOwner
  <2> SUFFICES ASSUME HeapInv
               PROVE  OneOwner
    OBVIOUS
  <2>1. TypeOK /\ Phase /\ Parted /\ Accounted
    BY DEF HeapInv, TypeInv
  <2>2. \A b \in Owned : b \in Batches
    BY <2>1, OwnedBatches
  <2>3. batch # 0 => handing.batch = 0
    BY <2>1 DEF Phase, TypeOK, Nothing
  <2> QED BY <2>1, <2>2, <2>3 DEF OneOwner, Accounted, Parted
<1> QED BY Heap, <1>1, PTL

\* Nothing malloc'd is forgotten: what nobody owns was freed.
THEOREM NoLeaks == Spec => []NoBatchLeaks
<1>1. HeapInv => NoBatchLeaks
  BY StreamAssumption DEF HeapInv, TypeInv, TypeOK, Accounted, NoBatchLeaks, Batches
<1> QED BY Heap, <1>1, PTL

\* Backpressure works: however much the port sends, at most Depth + 2 batches
\* of native memory are alive.
THEOREM Backpressure == Spec => []MemoryBounded
<1>1. HeapInv => MemoryBounded
  <2> SUFFICES ASSUME HeapInv
               PROVE  MemoryBounded
    OBVIOUS
  <2> USE StreamAssumption
  <2>1. TypeOK /\ Phase /\ Accounted
    BY DEF HeapInv, TypeInv
  <2> DEFINE alive == {b \in 1..allocated : frees[b] = 0}
             queued == {queue[i].batch : i \in 1..Len(queue)}
             reader == IF batch # 0 THEN batch ELSE handing.batch
             f == [i \in 1..Len(queue) |-> queue[i].batch]
  <2>2. Len(queue) \in Nat /\ Len(queue) <= Depth /\ DOMAIN queue = 1..Len(queue)
    BY <2>1 DEF TypeOK
  <2>3. alive \subseteq (queued \union {reader}) \union {calling.batch}
    <3>1. alive \subseteq Owned
      BY <2>1 DEF Accounted, TypeOK, Batches
    <3>2. batch # 0 => handing.batch = 0
      BY <2>1 DEF Phase, TypeOK, Nothing
    <3> QED BY <2>2, <3>1, <3>2 DEF Owned
  <2>4. f \in Surjection(1..Len(queue), queued)
    BY DEF Surjection
  <2> HIDE DEF f, queued, reader
  <2>5. IsFiniteSet(1..Len(queue)) /\ Cardinality(1..Len(queue)) = Len(queue)
    <3> DEFINE n == Len(queue)
    <3> HIDE DEF n
    <3>1. n \in Nat /\ 1 \in Int /\ n \in Int
      BY <2>2 DEF n
    <3>2. IsFiniteSet(1..n) /\ Cardinality(1..n) = IF 1 > n THEN 0 ELSE n - 1 + 1
      BY <3>1, FS_Interval, Zenon
    <3>3. IsFiniteSet(1..n) /\ Cardinality(1..n) = n
      BY <3>1, <3>2
    <3> QED BY <3>3 DEF n
  <2>6. IsFiniteSet(queued) /\ Cardinality(queued) <= Len(queue)
    <3> DEFINE n == 1..Len(queue)
    <3> HIDE DEF n
    <3>1. IsFiniteSet(n) /\ f \in Surjection(n, queued) /\ Cardinality(n) = Len(queue)
      BY <2>4, <2>5 DEF n
    <3>2. IsFiniteSet(queued) /\ Cardinality(queued) <= Cardinality(n)
      BY <3>1, FS_Surjection
    <3> QED BY <3>1, <3>2
  <2> DEFINE two == queued \union {reader}
             three == two \union {calling.batch}
  <2>7. IsFiniteSet(two) /\ (Cardinality(two) = Cardinality(queued) \/ Cardinality(two) = Cardinality(queued) + 1)
    BY <2>6, FS_AddElement
  <2> HIDE DEF two
  <2>8. IsFiniteSet(three) /\ (Cardinality(three) = Cardinality(two) \/ Cardinality(three) = Cardinality(two) + 1)
    BY <2>7, FS_AddElement
  <2>9. alive \in SUBSET three
    BY <2>3 DEF two
  <2> HIDE DEF three, alive
  <2>10. Cardinality(alive) <= Cardinality(three) /\ IsFiniteSet(alive)
    BY <2>8, <2>9, FS_Subset
  <2>11. /\ Cardinality(alive) \in Nat /\ Cardinality(two) \in Nat
         /\ Cardinality(three) \in Nat /\ Cardinality(queued) \in Nat
    BY <2>6, <2>7, <2>8, <2>10, FS_CardinalityType
  <2>12. Cardinality(alive) <= Depth + 2
    BY <2>2, <2>6, <2>7, <2>8, <2>10, <2>11
  <2> QED BY <2>12 DEF MemoryBounded, alive
<1> QED BY Heap, <1>1, PTL

-----------------------------------------------------------------------------
(* Bytes *)

LEMMA RunConcat ==
  ASSUME NEW s \in Seq(Bytes), NEW t \in Seq(Bytes), NEW n \in Int,
         Run(s, n), Run(t, n + Len(s))
  PROVE  s \o t \in Seq(Bytes) /\ Len(s \o t) = Len(s) + Len(t) /\ Run(s \o t, n)
<1>1. /\ s \o t \in Seq(Bytes) /\ Len(s \o t) = Len(s) + Len(t)
      /\ \A i \in 1..(Len(s) + Len(t)) :
           (s \o t)[i] = IF i <= Len(s) THEN s[i] ELSE t[i - Len(s)]
  BY ConcatProperties
<1>2. ASSUME NEW i \in DOMAIN (s \o t)
      PROVE  (s \o t)[i] = n + i
  <2>1. i \in 1..(Len(s) + Len(t)) /\ Len(s) \in Nat /\ Len(t) \in Nat
    BY <1>1
  <2>2. CASE i <= Len(s)
    <3>1. i \in DOMAIN s
      BY <2>1, <2>2
    <3> QED BY <1>1, <2>1, <2>2, <3>1 DEF Run
  <2>3. CASE ~(i <= Len(s))
    <3>1. i - Len(s) \in DOMAIN t
      BY <2>1, <2>3
    <3>2. t[i - Len(s)] = n + Len(s) + (i - Len(s))
      BY <3>1 DEF Run
    <3> QED BY <1>1, <2>1, <2>3, <3>2
  <2> QED BY <2>2, <2>3
<1> QED BY <1>1, <1>2 DEF Run

\* The marks are numbers.
LEMMA Marks ==
  ASSUME TypeOK, Ordered
  PROVE  /\ Called \in Int /\ Queued \in Int /\ Handed \in Int
         /\ Len(delivered) \in Nat /\ Len(calling.bytes) \in Nat
         /\ Len(handing.bytes) \in Nat /\ Len(filled) \in Nat
         /\ calling.bytes \in Seq(Bytes) /\ handing.bytes \in Seq(Bytes)
         /\ \A i \in DOMAIN queue : /\ Before(queue[i]) \in Int /\ After(queue[i]) \in Int
                                    /\ Len(queue[i].bytes) \in Nat
<1>1. calling.bytes \in Seq(Bytes) /\ handing.bytes \in Seq(Bytes)
  <2>1. /\ calling \in Chunk \/ calling.bytes = <<>>
        /\ handing \in Chunk \/ handing.bytes = <<>>
    BY DEF TypeOK, Nothing
  <2>2. \A c \in Chunk : c.bytes \in Seq(Bytes)
    BY DEF Chunk
  <2>3. <<>> \in Seq(Bytes)
    OBVIOUS
  <2> QED BY <2>1, <2>2, <2>3
<1>2. /\ Len(delivered) \in Nat /\ Len(calling.bytes) \in Nat
      /\ Len(handing.bytes) \in Nat /\ Len(filled) \in Nat
  BY <1>1 DEF TypeOK
<1>3. ASSUME NEW i \in DOMAIN queue
      PROVE  Before(queue[i]) \in Int /\ After(queue[i]) \in Int /\ Len(queue[i].bytes) \in Nat
  <2>1. queue[i].bytes \in Seq(Bytes) /\ queue[i].bytes # <<>>
    BY QueuedChunks DEF Ordered
  <2>2. queue[i].bytes[1] \in Bytes /\ Len(queue[i].bytes) \in Nat
    BY <2>1
  <2>3. queue[i].bytes[1] \in Int
    BY <2>2, StreamAssumption DEF Bytes
  <2> QED BY <2>2, <2>3 DEF Before, After
<1>4. queue # <<>> => Len(queue) \in DOMAIN queue
  BY DEF TypeOK
<1> QED BY <1>1, <1>2, <1>3, <1>4 DEF Called, Queued, Handed

\* The loop thread only moves bytes that left the reader.
LEMMA LoopMarks ==
  ASSUME TypeOK, Ordered, Pop \/ Deliver
  PROVE  Queued' = Queued /\ Handed' = Handed
<1>1. CASE Pop
  <2>1. /\ UNCHANGED <<delivered, handing>>
        /\ calling.bytes = <<>> /\ calling' = queue[1] /\ queue # <<>>
    BY <1>1, PoppedQueue DEF Pop, Nothing, readerVars
  <2>2. 1 \in DOMAIN queue /\ Called' = After(queue[1])
    <3>1. 1 \in DOMAIN queue
      BY <1>1, PoppedQueue
    <3>2. Called = Len(delivered)
      BY <2>1, Marks DEF Called
    <3> QED BY <2>1, <3>1, <3>2, Marks DEF Ordered, Called, After
  <2>3. ASSUME NEW i \in DOMAIN queue'
        PROVE  i + 1 \in DOMAIN queue /\ queue'[i] = queue[i + 1]
    BY <1>1, PoppedQueue
  <2>4. Queued' = Queued
    <3>1. CASE Len(queue) = 1
      <4>1. queue' = <<>>
        BY <1>1, <3>1, PoppedQueue
      <4> QED BY <2>1, <2>2, <3>1, <4>1 DEF Queued
    <3>2. CASE Len(queue) # 1
      <4>1. queue' # <<>> /\ Len(queue') \in DOMAIN queue' /\ Len(queue') + 1 = Len(queue)
        BY <1>1, <3>2, PoppedQueue
      <4>2. queue'[Len(queue')] = queue[Len(queue)]
        BY <2>3, <4>1
      <4> QED BY <2>1, <4>1, <4>2 DEF Queued, After, Before
    <3> QED BY <3>1, <3>2
  <2> QED BY <2>1, <2>4 DEF Handed
<1>2. CASE Deliver
  <2>1. /\ UNCHANGED <<queue, handing>>
        /\ delivered' = delivered \o calling.bytes /\ calling' = Nothing
    BY <1>2 DEF Deliver, readerVars
  <2>2. Len(delivered') = Len(delivered) + Len(calling.bytes)
    <3>1. delivered \in Seq(Bytes) /\ calling.bytes \in Seq(Bytes)
      BY Marks DEF TypeOK
    <3> QED BY <2>1, <3>1, ConcatProperties
  <2>3. Called' = Called
    BY <2>1, <2>2, Marks DEF Called, Nothing
  <2>4. Queued' = Queued
    BY <2>1, <2>3 DEF Queued, After, Before
  <2> QED BY <2>1, <2>4 DEF Handed
<1> QED BY <1>1, <1>2

LEMMA OrderInit == Init => Ordered
BY DEF Init, Ordered, Run, Called, Queued, Handed, Nothing

LEMMA OrderStep == TypeInv /\ Ordered /\ [Next]_vars => Ordered'
<1> SUFFICES ASSUME TypeOK, Phase, Ordered, [Next]_vars
             PROVE  Ordered'
  BY DEF TypeInv
<1>1. CASE UNCHANGED <<delivered, calling, queue, handing, filled, rx>>
             /\ (outcome' = outcome \/ outcome' = "panic" \/ outcome # "panic")
             /\ (pc' = "push" => pc = "push")
  <2>1. Called' = Called
    BY <1>1 DEF Called
  <2>2. Queued' = Queued
    BY <1>1, <2>1 DEF Queued, After, Before
  <2>3. Handed' = Handed
    BY <1>1, <2>2 DEF Handed
  <2> QED BY <1>1, <2>1, <2>2, <2>3 DEF Ordered, Run, Before, After
<1>2. ASSUME NEW n \in 1..BatchSize, Data(n)
      PROVE  Ordered'
  <2>1. UNCHANGED <<delivered, calling, queue, handing, outcome>> /\ rx' = rx + n /\ pc' # "push"
    BY <1>2 DEF Data, jsVars
  <2>2. Called' = Called
    BY <2>1 DEF Called
  <2>3. Queued' = Queued
    BY <2>1, <2>2 DEF Queued, After, Before
  <2>4. Handed' = Handed
    BY <2>1, <2>3 DEF Handed
  <2>5. rx = Handed + Len(filled) /\ rx \in Nat /\ n \in Nat /\ Handed \in Int
    BY <1>2, Marks, StreamAssumption DEF Data, Phase, Ordered, TypeOK
  <2>6. Run(filled', Handed) /\ rx' = Handed + Len(filled')
    <3>1. /\ filled' \in Seq(Bytes) /\ Len(filled') = Len(filled) + n /\ filled \in Seq(Bytes)
          /\ \A i \in DOMAIN filled' :
               filled'[i] = IF i <= Len(filled) THEN filled[i] ELSE rx + i - Len(filled)
      BY <1>2, SendBytes DEF TypeOK
    <3>2. ASSUME NEW i \in DOMAIN filled'
          PROVE  filled'[i] = Handed + i
      <4>1. i \in Nat \ {0} /\ (i <= Len(filled) => i \in DOMAIN filled) /\ Len(filled) \in Nat
        BY <3>1
      <4>2. i <= Len(filled) => filled[i] = Handed + i
        BY <4>1 DEF Ordered, Run
      <4> QED BY <2>5, <3>1, <4>1, <4>2
    <3>3. Len(filled) \in Nat
      BY <3>1
    <3> QED BY <2>1, <2>5, <3>1, <3>2, <3>3 DEF Run
  <2> QED BY <2>1, <2>2, <2>3, <2>4, <2>6 DEF Ordered, Run, Before, After
<1>3. CASE Emit
  <2>1. /\ UNCHANGED <<delivered, calling, queue, outcome, rx>> /\ filled' = <<>>
        /\ handing'.bytes = filled /\ handing.bytes = <<>> /\ filled # <<>>
        /\ outcome # "panic"
    BY <1>3 DEF Emit, Phase, Nothing, jsVars
  <2>2. Called' = Called
    BY <2>1 DEF Called
  <2>3. Queued' = Queued
    BY <2>1, <2>2 DEF Queued, After, Before
  <2>4. Handed = Queued /\ Handed' = Queued + Len(filled) /\ rx = Handed + Len(filled)
    BY <2>1, <2>3, Marks DEF Handed, Ordered
  <2>5. rx' = Handed' + Len(filled') /\ Run(filled', Handed') /\ Run(handing'.bytes, Queued')
    BY <2>1, <2>3, <2>4, Marks DEF Ordered, Run
  <2> QED BY <2>1, <2>2, <2>3, <2>5 DEF Ordered, Run, Before, After
<1>4. CASE Push
  <2>1. /\ UNCHANGED <<delivered, calling, outcome, filled, rx>> /\ pc' # "push"
        /\ handing'.bytes = <<>> /\ handing.bytes # <<>> /\ Run(handing.bytes, Queued)
    BY <1>4 DEF Push, Nothing, jsVars, Ordered
  <2>2. Called' = Called
    BY <2>1 DEF Called
  <2>3. Before(handing) = Queued /\ After(handing) = Handed
    <3>1. 1 \in DOMAIN handing.bytes
      BY <2>1, Marks
    <3>2. handing.bytes[1] = Queued + 1
      BY <2>1, <3>1 DEF Run
    <3> QED BY <3>2, Marks DEF Before, After, Handed
  <2>4. Queued' = Handed /\ Handed' = Handed
    <3>1. Len(queue') = Len(queue) + 1 /\ queue' \in Seq(Chunk) /\ Len(queue) \in Nat
      BY <1>4, PushedQueue
    <3>2. queue' # <<>> /\ queue'[Len(queue')] = handing
      BY <1>4, <3>1, PushedQueue
    <3>3. Queued' = After(handing)
      BY <3>2 DEF Queued, After, Before
    <3> QED BY <2>1, <2>3, <3>3, Marks DEF Handed
  <2>5. ASSUME NEW i \in DOMAIN queue'
        PROVE  queue'[i].bytes # <<>> /\ Run(queue'[i].bytes, Before(queue'[i]))
    <3>1. queue'[i] = handing \/ (i \in DOMAIN queue /\ queue'[i] = queue[i])
      BY <1>4, PushedQueue
    <3> QED BY <2>1, <2>3, <3>1 DEF Ordered
  <2>6. Before(queue'[1]) = Called
    <3>1. CASE queue = <<>>
      <4>1. queue'[1] = handing
        BY <1>4, <3>1, PushedQueue
      <4> QED BY <2>3, <3>1, <4>1 DEF Queued
    <3>2. CASE queue # <<>>
      <4>1. queue'[1] = queue[1]
        BY <1>4, <3>2, PushedQueue
      <4> QED BY <3>2, <4>1 DEF Ordered
    <3> QED BY <3>1, <3>2
  <2>7. ASSUME NEW i \in 1..(Len(queue') - 1)
        PROVE  After(queue'[i]) = Before(queue'[i + 1])
    <3>1. i \in 1..Len(queue) /\ queue'[i] = queue[i] /\ Len(queue) \in Nat
      BY <1>4, PushedQueue
    <3>2. CASE i = Len(queue)
      <4>1. queue'[i + 1] = handing /\ queue # <<>>
        BY <1>4, <3>1, <3>2, PushedQueue
      <4> QED BY <2>3, <3>1, <3>2, <4>1 DEF Queued
    <3>3. CASE i # Len(queue)
      <4>1. i \in 1..(Len(queue) - 1) /\ i + 1 \in 1..Len(queue)
        BY <3>1, <3>3
      <4>2. i + 1 \in DOMAIN queue' /\ i + 1 <= Len(queue)
        BY <1>4, <3>1, <4>1, PushedQueue
      <4>3. queue'[i + 1] = queue[i + 1]
        BY <1>4, <4>2, PushedQueue
      <4> QED BY <3>1, <4>1, <4>3 DEF Ordered
    <3> QED BY <3>2, <3>3
  <2>8. Run(handing'.bytes, Queued')
    BY <2>1 DEF Run
  <2>9. Run(filled', Handed') /\ Run(delivered', 0) /\ Run(calling'.bytes, Len(delivered'))
    BY <2>1, <2>4 DEF Ordered
  <2>10. queue' # <<>> => Before(queue'[1]) = Called'
    BY <2>2, <2>6
  <2>11. outcome' # "panic" => rx' = Handed' + Len(filled')
    BY <2>1, <2>4 DEF Ordered
  <2> QED BY <2>1, <2>5, <2>7, <2>8, <2>9, <2>10, <2>11 DEF Ordered, Run, Before, After
<1>5. CASE Pop
  <2>1. /\ UNCHANGED <<delivered, outcome, filled, rx, handing, pc>>
        /\ calling.bytes = <<>> /\ calling' = queue[1] /\ queue # <<>>
    BY <1>5, PoppedQueue DEF Pop, Nothing, readerVars
  <2>2. 1 \in DOMAIN queue /\ Before(queue[1]) = Len(delivered) /\ Called' = After(queue[1])
    <3>1. 1 \in DOMAIN queue
      BY <1>5, PoppedQueue
    <3>2. Called = Len(delivered)
      BY <2>1, Marks DEF Called
    <3> QED BY <2>1, <3>1, <3>2, Marks DEF Ordered, Called, After
  <2>3. Run(calling'.bytes, Len(delivered'))
    BY <2>1, <2>2 DEF Ordered
  <2>4. ASSUME NEW i \in DOMAIN queue'
        PROVE  i + 1 \in DOMAIN queue /\ queue'[i] = queue[i + 1]
    BY <1>5, PoppedQueue
  <2>5. queue' # <<>> => Before(queue'[1]) = Called'
    <3>1. ASSUME queue' # <<>>
          PROVE  1 \in DOMAIN queue' /\ 1 \in 1..(Len(queue) - 1)
      BY <1>5, <3>1, PoppedQueue
    <3>2. queue' # <<>> => queue'[1] = queue[1 + 1] /\ After(queue[1]) = Before(queue[1 + 1])
      BY <3>1, <2>4 DEF Ordered
    <3> QED BY <2>2, <3>2
  <2>6. Queued' = Queued /\ Handed' = Handed
    BY <1>5, LoopMarks
  <2>7. ASSUME NEW i \in 1..(Len(queue') - 1)
        PROVE  After(queue'[i]) = Before(queue'[i + 1])
    <3>1. /\ i \in DOMAIN queue' /\ i + 1 \in DOMAIN queue' /\ i + 1 \in 1..(Len(queue) - 1)
      BY <1>5, PoppedQueue
    <3> QED BY <2>4, <3>1 DEF Ordered
  <2>8. \A i \in DOMAIN queue' : queue'[i].bytes # <<>> /\ Run(queue'[i].bytes, Before(queue'[i]))
    BY <2>4 DEF Ordered
  <2> QED
    BY <2>1, <2>3, <2>5, <2>6, <2>7, <2>8 DEF Ordered, Run, Before, After
<1>6. CASE Deliver
  <2>1. /\ UNCHANGED <<queue, handing, outcome, filled, rx, pc>>
        /\ delivered' = delivered \o calling.bytes /\ calling' = Nothing
    BY <1>6 DEF Deliver, readerVars
  <2>2. /\ delivered' \in Seq(Bytes) /\ Run(delivered', 0)
        /\ Len(delivered') = Len(delivered) + Len(calling.bytes)
    <3>1. delivered \in Seq(Bytes) /\ Run(delivered, 0) /\ Run(calling.bytes, 0 + Len(delivered))
      BY Marks DEF Ordered, TypeOK
    <3> QED BY <2>1, <3>1, Marks, RunConcat
  <2>3. Queued' = Queued /\ Handed' = Handed
    BY <1>6, LoopMarks
  <2>4. Called' = Called
    BY <2>1, <2>2, Marks DEF Called, Nothing
  <2>5. Run(calling'.bytes, Len(delivered'))
    BY <2>1 DEF Run, Nothing
  <2> QED BY <2>1, <2>2, <2>3, <2>4, <2>5 DEF Ordered, Run, Before, After
<1>7. CASE Return
  <2>1. /\ UNCHANGED <<delivered, calling, queue, handing, outcome, rx>>
        /\ filled' = <<>> /\ pc' # "push" /\ (outcome # "panic" => filled = <<>>)
    BY <1>7 DEF Return, Phase, jsVars
  <2>2. Called' = Called
    BY <2>1 DEF Called
  <2>3. Queued' = Queued
    BY <2>1, <2>2 DEF Queued, After, Before
  <2>4. Handed' = Handed
    BY <2>1, <2>3 DEF Handed
  <2>5. Run(filled', Handed)
    BY <2>1 DEF Run
  <2> QED BY <2>1, <2>2, <2>3, <2>4, <2>5 DEF Ordered, Run, Before, After
<1> QED
  BY <1>1, <1>2, <1>3, <1>4, <1>5, <1>6, <1>7 DEF Next, Reader, ReaderFails, Loop, Finished,
     NewBatch, NewBatchPanic, End, Gap, PollPanic, Complete, LookAround, EndData, Resolve,
     readerVars, jsVars, vars, Phase

BytesInv == TypeInv /\ Ordered

LEMMA BytesStep == BytesInv /\ [Next]_vars => BytesInv'
BY TypeInvStep, OrderStep DEF BytesInv

\* JS gets the bytes of the port in the order of the port, each once and none
\* skipped: through batches, queue, parked handoffs and JS callbacks.
THEOREM Order == Spec => []InOrder
<1>1. Init => BytesInv
  BY TypeInit, OrderInit DEF BytesInv
<1>2. BytesInv => InOrder
  <2> SUFFICES ASSUME BytesInv, NEW i \in DOMAIN delivered
               PROVE  delivered[i] = i
    BY DEF InOrder
  <2>1. i \in Nat
    BY DEF BytesInv, TypeInv, TypeOK
  <2>2. delivered[i] = 0 + i
    BY DEF BytesInv, Ordered, Run
  <2> QED BY <2>1, <2>2
<1> QED BY BytesStep, <1>1, <1>2, PTL DEF Spec

\* A read that ends at its deadline or with an error of the port delivers every
\* byte it took, unless the loop still has a wake-up to serve.
THEOREM Delivery == Spec => []NothingLost
<1>1. Init => BytesInv /\ Woken
  BY TypeInit, OrderInit DEF BytesInv, Init, Woken, Nothing
<1>2. BytesInv /\ Woken /\ [Next]_vars => (BytesInv /\ Woken)'
  BY BytesStep, WakeStep DEF BytesInv, TypeInv
<1>3. BytesInv /\ Woken => NothingLost
  <2> SUFFICES ASSUME BytesInv, Woken, pc = "done", Idle, outcome # "panic"
               PROVE  Len(delivered) = rx
    BY DEF NothingLost
  <2>1. queue = <<>> /\ calling.bytes = <<>>
    BY DEF Woken, Idle, Nothing
  <2>2. handing.bytes = <<>> /\ filled = <<>>
    BY DEF BytesInv, TypeInv, Phase, Nothing
  <2>3. rx = Handed + Len(filled) /\ Len(delivered) \in Nat
    BY DEF BytesInv, TypeInv, Ordered, TypeOK
  <2>4. Handed = Len(delivered)
    BY <2>1, <2>2, <2>3 DEF Handed, Queued, Called
  <2> QED BY <2>2, <2>3, <2>4
<1> QED BY <1>1, <1>2, <1>3, PTL DEF Spec

-----------------------------------------------------------------------------
(* The stream as one queue of bytes: the refinement of ByteStream.  With each
   stage in its place, Transit is the run of numbers after those delivered, and
   a step is known by what it does to its two ends. *)

\* The l numbers after n.
Following(n, l) == [k \in 1..l |-> n + k]

\* Counting up, by the least number that would be left out.
LEMMA CountUp ==
  ASSUME NEW N \in Nat, NEW S, 1 \in S,
         \A i \in 1..(N - 1) : i \in S => i + 1 \in S
  PROVE  1..N \subseteq S
<1> SUFFICES ASSUME NEW x \in 1..N, x \notin S
             PROVE  FALSE
  OBVIOUS
<1> DEFINE T == {i \in 1..N : i \notin S}
<1>1. T \subseteq Nat /\ T # {}
  OBVIOUS
<1>2. PICK t \in T : \A y \in T : ~(<<y, t>> \in OpToRel(<, Nat))
  <2> HIDE DEF T
  <2> QED BY <1>1, WFMin, NatLessThanWellFounded
<1>3. \A y \in T : ~(y < t)
  BY <1>1, <1>2 DEF OpToRel
<1>4. t \in 1..N /\ t \notin S /\ t # 1
  OBVIOUS
<1>5. t - 1 \in 1..(N - 1)
  BY <1>4
<1>6. t - 1 \in S
  BY <1>3, <1>5
<1>7. (t - 1) + 1 \in S
  BY <1>5, <1>6
<1> QED BY <1>4, <1>7

LEMMA FollowingSeq ==
  ASSUME NEW n \in Int, NEW l \in Nat
  PROVE  /\ Following(n, l) \in Seq(Int)
         /\ Len(Following(n, l)) = l
         /\ \A k \in 1..l : Following(n, l)[k] = n + k
BY DEF Following

LEMMA RunIs ==
  ASSUME NEW s \in Seq(Int), NEW n \in Int, Run(s, n)
  PROVE  s = Following(n, Len(s))
<1> DEFINE t == Following(n, Len(s))
<1>1. Len(s) \in Nat /\ DOMAIN s = 1..Len(s)
  OBVIOUS
<1>2. t \in Seq(Int) /\ Len(t) = Len(s) /\ \A k \in 1..Len(s) : t[k] = n + k
  BY <1>1, FollowingSeq
<1>3. \A k \in 1..Len(s) : s[k] = n + k
  BY <1>1 DEF Run
<1> HIDE DEF t
<1>4. \A k \in 1..Len(s) : s[k] = t[k]
  BY <1>2, <1>3
<1>5. s = t
  BY <1>2, <1>4, SeqEqual
<1> QED BY <1>5 DEF t

LEMMA FollowingConcat ==
  ASSUME NEW n \in Int, NEW a \in Nat, NEW b \in Nat
  PROVE  Following(n, a) \o Following(n + a, b) = Following(n, a + b)
<1> DEFINE s == Following(n, a)
           t == Following(n + a, b)
           u == Following(n, a + b)
<1>1. /\ s \in Seq(Int) /\ Len(s) = a /\ \A k \in 1..a : s[k] = n + k
      /\ t \in Seq(Int) /\ Len(t) = b /\ \A k \in 1..b : t[k] = n + a + k
      /\ u \in Seq(Int) /\ Len(u) = a + b /\ \A k \in 1..(a + b) : u[k] = n + k
  BY FollowingSeq
<1> HIDE DEF s, t, u
<1>2. /\ s \o t \in Seq(Int) /\ Len(s \o t) = a + b
      /\ \A k \in 1..(a + b) : (s \o t)[k] = IF k <= a THEN s[k] ELSE t[k - a]
  BY <1>1, ConcatProperties
<1>3. ASSUME NEW k \in 1..(a + b)
      PROVE  (s \o t)[k] = u[k]
  <2>1. CASE k <= a
    BY <1>1, <1>2, <2>1
  <2>2. CASE ~(k <= a)
    <3>1. k - a \in 1..b
      BY <2>2
    <3> QED BY <1>1, <1>2, <2>2, <3>1
  <2> QED BY <2>1, <2>2
<1>4. s \o t = u
  BY <1>1, <1>2, <1>3, SeqEqual
<1> QED BY <1>4 DEF s, t, u

LEMMA FollowingCut ==
  ASSUME NEW n \in Int, NEW l \in Nat, NEW a \in 0..l
  PROVE  /\ SubSeq(Following(n, l), 1, a) = Following(n, a)
         /\ SubSeq(Following(n, l), a + 1, l) = Following(n + a, l - a)
<1>1. SubSeq(Following(n, l), 1, a) = Following(n, a)
  BY DEF Following
<1>2. SubSeq(Following(n, l), a + 1, l) = Following(n + a, l - a)
  BY DEF Following
<1> QED BY <1>1, <1>2

\* Where each chunk of q follows the one before it, m saying where each ends.
LEMMA FlattenRuns ==
  ASSUME NEW q \in Seq(Seq(Int)), q # <<>>, NEW m \in [0..Len(q) -> Int],
         \A i \in 1..Len(q) : Run(q[i], m[i - 1]) /\ m[i] = m[i - 1] + Len(q[i])
  PROVE  /\ m[Len(q)] - m[0] \in Nat
         /\ Sequence!FlattenSeq(q) = Following(m[0], m[Len(q)] - m[0])
<1> DEFINE L == Len(q)
           n == m[0]
           f == [i \in 1..L |-> Following(n, m[i] - n)]
           Eq(g) == g = [i \in 1..L |-> IF i = 1 THEN q[i] ELSE g[i - 1] \o q[i]]
           fl == CHOOSE g : Eq(g)
<1>1. /\ L \in Nat \ {0} /\ n \in Int
      /\ \A i \in 1..L : /\ q[i] \in Seq(Int) /\ Len(q[i]) \in Nat
                         /\ i - 1 \in 0..L /\ m[i - 1] \in Int /\ m[i] \in Int
                         /\ m[i] = m[i - 1] + Len(q[i])
  <2>1. Len(q) \in Nat \ {0} /\ m[0] \in Int
    OBVIOUS
  <2>2. ASSUME NEW i \in 1..Len(q)
        PROVE  q[i] \in Seq(Int) /\ Len(q[i]) \in Nat
    <3>1. q[i] \in Seq(Int)
      OBVIOUS
    <3> QED BY <3>1
  <2>3. ASSUME NEW i \in 1..Len(q)
        PROVE  i - 1 \in 0..Len(q) /\ m[i - 1] \in Int /\ m[i] \in Int
    <3>1. i - 1 \in 0..Len(q) /\ i \in 0..Len(q)
      BY <2>1
    <3> QED BY <3>1
  <2> QED BY <2>1, <2>2, <2>3
<1>2. \A i \in 1..L : q[i] = Following(m[i - 1], Len(q[i]))
  <2> TAKE i \in 1..L
  <2>1. i - 1 \in 0..L /\ m[i - 1] \in Int
    BY <1>1
  <2> QED BY <1>1, <2>1, RunIs
<1>3. \A i \in 1..L : m[i] - n \in Nat
  <2> DEFINE S == {i \in 1..L : m[i] - n \in Nat}
  <2>1. 1 \in S
    <3>1. 1 \in 1..L /\ m[1] = m[1 - 1] + Len(q[1]) /\ Len(q[1]) \in Nat /\ m[1] \in Int
      BY <1>1
    <3>2. m[1] - m[0] = Len(q[1])
      BY <1>1, <3>1
    <3> QED BY <3>1, <3>2
  <2>2. \A i \in 1..(L - 1) : i \in S => i + 1 \in S
    <3> SUFFICES ASSUME NEW i \in 1..(L - 1), i \in S
                 PROVE  i + 1 \in S
      OBVIOUS
    <3>1. i \in 1..L /\ i + 1 \in 1..L /\ (i + 1) - 1 = i
      BY <1>1
    <3>2. m[i + 1] = m[i] + Len(q[i + 1]) /\ Len(q[i + 1]) \in Nat /\ m[i] \in Int
      BY <1>1, <3>1
    <3>3. m[i] - n \in Nat
      OBVIOUS
    <3>4. m[i + 1] - n \in Nat
      <4>1. n \in Int
        BY <1>1
      <4> HIDE DEF n
      <4>2. m[i + 1] - n = (m[i] - n) + Len(q[i + 1])
        BY <3>2, <4>1
      <4> QED BY <3>2, <3>3, <4>2
    <3> QED BY <3>1, <3>4
  <2>3. 1..L \subseteq S
    <3> HIDE DEF S, L
    <3> QED BY <1>1, <2>1, <2>2, CountUp
  <2> QED BY <2>3
<1>4. Eq(f)
  <2>1. ASSUME NEW i \in 1..L
        PROVE  f[i] = IF i = 1 THEN q[i] ELSE f[i - 1] \o q[i]
    <3>1. CASE i = 1
      <4>1. m[1] - n = Len(q[1])
        BY <1>1
      <4> QED BY <1>1, <1>2, <3>1, <4>1
    <3>2. CASE i # 1
      <4>1. i - 1 \in 1..L /\ m[i - 1] - n \in Nat /\ m[i - 1] \in Int
        <5>1. i - 1 \in 1..L
          BY <1>1, <3>2
        <5> QED BY <1>1, <1>3, <5>1
      <4> DEFINE a == m[i - 1] - n
                 b == Len(q[i])
      <4>2. m[i] - n = a + b /\ n + a = m[i - 1]
        BY <1>1, <4>1
      <4>3. a \in Nat /\ b \in Nat
        BY <1>1, <4>1
      <4> HIDE DEF a, b
      <4>4. Following(n, a) \o Following(n + a, b) = Following(n, a + b)
        BY <1>1, <4>3, FollowingConcat
      <4>5. f[i - 1] = Following(n, a) /\ f[i] = Following(n, a + b)
        BY <4>1, <4>2 DEF a
      <4>6. q[i] = Following(n + a, b)
        BY <1>2, <4>2 DEF b
      <4> QED BY <3>2, <4>4, <4>5, <4>6
    <3> QED BY <3>1, <3>2
  <2> QED BY <2>1
<1>5. Eq(fl)
  <2> HIDE DEF f, Eq
  <2>1. \E g : Eq(g)
    BY <1>4
  <2> QED BY <2>1
<1>6. \A i \in 1..L : fl[i] = f[i]
  <2> HIDE DEF fl
  <2> DEFINE S == {i \in 1..L : fl[i] = f[i]}
  <2>1. /\ \A i \in 1..L : fl[i] = IF i = 1 THEN q[i] ELSE fl[i - 1] \o q[i]
        /\ \A i \in 1..L : f[i] = IF i = 1 THEN q[i] ELSE f[i - 1] \o q[i]
    <3> HIDE DEF f
    <3> QED BY <1>4, <1>5
  <2> HIDE DEF f, Eq
  <2>2. 1 \in S
    BY <1>1, <2>1
  <2>3. \A i \in 1..(L - 1) : i \in S => i + 1 \in S
    <3> SUFFICES ASSUME NEW i \in 1..(L - 1), fl[i] = f[i]
                 PROVE  fl[i + 1] = f[i + 1]
      BY <1>1
    <3>1. i + 1 \in 1..L /\ (i + 1) - 1 = i /\ i + 1 # 1
      BY <1>1
    <3> QED BY <2>1, <3>1
  <2>4. 1..L \subseteq S
    <3> HIDE DEF S, L
    <3> QED BY <1>1, <2>2, <2>3, CountUp
  <2> QED BY <2>4
<1>7. Sequence!FlattenSeq(q) = fl[L]
  BY <1>1 DEF Sequence!FlattenSeq
<1>8. L \in 1..L
  BY <1>1
<1>9. fl[L] = Following(n, m[L] - n)
  <2> HIDE DEF fl
  <2> QED BY <1>6, <1>8
<1> HIDE DEF fl, f
<1> QED BY <1>3, <1>7, <1>8, <1>9

\* No chunk is longer than a batch, and who polls has room and goes on.
Sized ==
  /\ Len(calling.bytes) <= BatchSize
  /\ Len(handing.bytes) <= BatchSize
  /\ \A i \in DOMAIN queue : Len(queue[i].bytes) <= BatchSize
  /\ pc = "poll" => outcome = "none" /\ Len(filled) < BatchSize

LEMMA SizedInit == Init => Sized
BY StreamAssumption DEF Init, Sized, Nothing

LEMMA SizedStep == TypeOK /\ Phase /\ Sized /\ [Next]_vars => Sized'
<1> SUFFICES ASSUME TypeOK, Phase, Sized, [Next]_vars
             PROVE  Sized'
  OBVIOUS
<1>1. CASE UNCHANGED <<calling, queue, handing, filled>> /\ (pc' = "poll" => pc = "poll" /\ outcome' = outcome)
  BY <1>1 DEF Sized
<1>2. CASE NewBatch
  BY <1>2, StreamAssumption DEF NewBatch, Sized, Phase, jsVars
<1>3. ASSUME NEW n \in 1..BatchSize, Data(n)
      PROVE  Sized'
  <2>1. UNCHANGED <<calling, queue, handing, outcome>> /\ Len(filled') = Len(filled) + n /\ pc = "poll"
    BY <1>3, SendBytes DEF Data, jsVars, TypeOK
  <2>2. /\ pc' = "poll" => Len(filled') # BatchSize
        /\ Len(filled) + n <= BatchSize /\ Len(filled) \in Nat /\ n \in Nat /\ BatchSize \in Nat
    BY <1>3, <2>1, StreamAssumption DEF Data, TypeOK
  <2> QED BY <2>1, <2>2 DEF Sized
<1>4. CASE Emit
  BY <1>4 DEF Emit, Sized, TypeOK, jsVars
<1>5. CASE Push
  <2>1. /\ UNCHANGED calling /\ handing' = Nothing /\ pc' = "newBatch"
        /\ \A i \in DOMAIN queue' : queue'[i] = handing \/ (i \in DOMAIN queue /\ queue'[i] = queue[i])
    BY <1>5, PushedQueue DEF Push, jsVars
  <2>2. \A i \in DOMAIN queue' : Len(queue'[i].bytes) <= BatchSize
    BY <2>1 DEF Sized
  <2>3. Len(handing'.bytes) <= BatchSize
    BY <2>1, StreamAssumption DEF Nothing
  <2> QED BY <2>1, <2>2, <2>3 DEF Sized
<1>6. CASE Pop
  <2>1. /\ UNCHANGED <<handing, pc, outcome, filled>> /\ calling' = queue[1] /\ 1 \in DOMAIN queue
        /\ \A i \in DOMAIN queue' : i + 1 \in DOMAIN queue /\ queue'[i] = queue[i + 1]
    BY <1>6, PoppedQueue DEF Pop, readerVars
  <2> QED BY <2>1 DEF Sized
<1>7. CASE Deliver
  BY <1>7, StreamAssumption DEF Deliver, Sized, Nothing, readerVars
<1>8. CASE Return
  BY <1>8 DEF Return, Sized, jsVars
<1> QED
  BY <1>1, <1>2, <1>3, <1>4, <1>5, <1>6, <1>7, <1>8 DEF Next, Reader, ReaderFails, Loop, Finished,
     NewBatchPanic, End, Gap, PollPanic, Complete, LookAround, EndData, Resolve,
     readerVars, jsVars, vars

\* The bytes of the queue are those between its marks.
LEMMA QueueRun ==
  ASSUME TypeOK, Ordered
  PROVE  /\ Queued - Called \in Nat
         /\ Sequence!FlattenSeq([i \in DOMAIN queue |-> queue[i].bytes])
              = Following(Called, Queued - Called)
<1> DEFINE q == [i \in DOMAIN queue |-> queue[i].bytes]
           L == Len(queue)
<1>1. /\ Called \in Int /\ Queued \in Int /\ L \in Nat /\ DOMAIN queue = 1..L
      /\ \A i \in 1..L : /\ Before(queue[i]) \in Int /\ After(queue[i]) \in Int
                         /\ queue[i].bytes \in Seq(Bytes)
  BY Marks, QueuedChunks DEF TypeOK
<1>2. q \in Seq(Seq(Int)) /\ Len(q) = L /\ \A i \in 1..L : q[i] = queue[i].bytes
  <2>1. \A s \in Seq(Bytes) : s \in Seq(Int)
    BY StreamAssumption DEF Bytes
  <2> QED BY <1>1, <2>1
<1>3. CASE queue = <<>>
  <2>1. Len(q) = 0 /\ Queued = Called
    BY <1>2, <1>3 DEF Queued
  <2>2. Sequence!FlattenSeq(q) = q
    <3> HIDE DEF q
    <3> QED BY <2>1 DEF Sequence!FlattenSeq
  <2>3. q = Following(Called, 0)
    <3>1. Following(Called, 0) \in Seq(Int) /\ Len(Following(Called, 0)) = 0
      BY <1>1, FollowingSeq
    <3> HIDE DEF q
    <3> QED BY <1>2, <2>1, <3>1, SeqEqual
  <2>4. Queued - Called = 0
    BY <1>1, <2>1
  <2> QED BY <2>2, <2>3, <2>4
<1>4. CASE queue # <<>>
  <2> DEFINE m == [i \in 0..L |-> IF i = 0 THEN Called ELSE After(queue[i])]
  <2>1. L # 0
    BY <1>4 DEF TypeOK
  <2>2. m \in [0..L -> Int] /\ m[0] = Called /\ m[L] = Queued
    <3>1. Queued = After(queue[L])
      BY <1>4 DEF Queued
    <3> QED BY <1>1, <2>1, <3>1
  <2>3. ASSUME NEW i \in 1..L
        PROVE  Run(queue[i].bytes, m[i - 1]) /\ m[i] = m[i - 1] + Len(queue[i].bytes)
    <3>1. m[i - 1] = Before(queue[i])
      <4>1. CASE i = 1
        BY <1>1, <1>4, <4>1 DEF Ordered
      <4>2. CASE i # 1
        <5>1. i - 1 \in 1..(L - 1) /\ (i - 1) + 1 = i /\ i - 1 # 0 /\ i - 1 \in 0..L
          BY <1>1, <4>2
        <5>2. After(queue[i - 1]) = Before(queue[i])
          BY <5>1 DEF Ordered
        <5> QED BY <5>1, <5>2
      <4> QED BY <4>1, <4>2
    <3>2. m[i] = After(queue[i])
      BY <1>1
    <3> QED BY <1>1, <3>1, <3>2 DEF Ordered, After
  <2> HIDE DEF m
  <2>4. q # <<>>
    BY <1>2, <2>1
  <2>5. \A i \in 1..Len(q) : Run(q[i], m[i - 1]) /\ m[i] = m[i - 1] + Len(q[i])
    BY <1>2, <2>3
  <2> HIDE DEF q
  <2>6. /\ m[Len(q)] - m[0] \in Nat
        /\ Sequence!FlattenSeq(q) = Following(m[0], m[Len(q)] - m[0])
    BY <1>2, <2>2, <2>4, <2>5, FlattenRuns
  <2> QED BY <1>2, <2>2, <2>6 DEF q
<1> QED BY <1>3, <1>4

\* The newest byte that is not lost.
Newest == IF outcome = "panic" THEN Handed ELSE rx

\* The bytes in transit are those after the ones delivered.
LEMMA TransitIs ==
  TypeOK /\ Ordered =>
    /\ Newest \in Int /\ Len(delivered) \in Nat /\ Newest - Len(delivered) \in Nat
    /\ Transit = Following(Len(delivered), Newest - Len(delivered))
<1> SUFFICES ASSUME TypeOK, Ordered
             PROVE  /\ Newest \in Int /\ Len(delivered) \in Nat /\ Newest - Len(delivered) \in Nat
                    /\ Transit = Following(Len(delivered), Newest - Len(delivered))
  OBVIOUS
<1> DEFINE a == Len(delivered)
           fl == IF outcome = "panic" THEN <<>> ELSE filled
           c == Len(calling.bytes)
           h == Len(handing.bytes)
           q == Queued - Called
           e == Len(fl)
<1>1. /\ a \in Nat /\ c \in Nat /\ h \in Nat /\ q \in Nat
      /\ calling.bytes \in Seq(Int) /\ handing.bytes \in Seq(Int)
      /\ fl \in Seq(Int) /\ e \in Nat
  <2>1. \A s \in Seq(Bytes) : s \in Seq(Int)
    BY StreamAssumption DEF Bytes
  <2>2. filled \in Seq(Bytes) /\ <<>> \in Seq(Int)
    BY DEF TypeOK
  <2>3. fl \in Seq(Int)
    BY <2>1, <2>2
  <2>4. e \in Nat
    <3> HIDE DEF fl
    <3> QED BY <2>3
  <2> QED BY <2>1, <2>3, <2>4, Marks, QueueRun
<1>2. Called = a + c /\ Queued = a + c + q /\ Handed = a + c + q + h
  <2>1. Called \in Int /\ Queued \in Int /\ Called = a + c /\ Handed = Queued + h
    BY Marks DEF Called, Handed
  <2>2. Queued = Called + q
    BY <2>1
  <2> HIDE DEF a, c, h, q
  <2> QED BY <1>1, <2>1, <2>2
<1>3. Run(fl, Handed) /\ Newest = a + c + q + h + e
  <2>1. CASE outcome = "panic"
    BY <1>1, <1>2, <2>1 DEF Newest, Run
  <2>2. CASE outcome # "panic"
    BY <1>1, <1>2, <2>2 DEF Newest, Ordered
  <2> QED BY <2>1, <2>2
<1>4. /\ calling.bytes = Following(a, c)
      /\ handing.bytes = Following(a + c + q, h)
      /\ fl = Following(a + c + q + h, e)
  <2>1. Run(calling.bytes, a) /\ Run(handing.bytes, a + c + q) /\ Run(fl, a + c + q + h)
    BY <1>2, <1>3 DEF Ordered
  <2>2. a \in Int /\ a + c + q \in Int /\ a + c + q + h \in Int
    BY <1>1
  <2> HIDE DEF fl, q, a
  <2> QED BY <1>1, <2>1, <2>2, RunIs
<1>5. Sequence!FlattenSeq([i \in DOMAIN queue |-> queue[i].bytes]) = Following(a + c, q)
  BY <1>2, QueueRun
<1>6. Transit = ((Following(a, c) \o Following(a + c, q)) \o Following(a + c + q, h)) \o Following(a + c + q + h, e)
  <2> HIDE DEF a, c, h, q, e
  <2> QED BY <1>4, <1>5 DEF Transit
<1>7. Transit = Following(a, c + q + h + e)
  <2> HIDE DEF a, c, h, q, e, fl
  <2> a \in Int
    BY <1>1
  <2>1. Following(a, c) \o Following(a + c, q) = Following(a, c + q)
    BY <1>1, FollowingConcat
  <2>2. Following(a, c + q) \o Following(a + c + q, h) = Following(a, c + q + h)
    <3>1. a + (c + q) = a + c + q /\ c + q \in Nat
      BY <1>1
    <3> DEFINE cq == c + q
    <3> HIDE DEF cq
    <3>2. Following(a, cq) \o Following(a + cq, h) = Following(a, cq + h)
      BY <1>1, <3>1, FollowingConcat DEF cq
    <3> QED BY <3>1, <3>2 DEF cq
  <2>3. Following(a, c + q + h) \o Following(a + c + q + h, e) = Following(a, c + q + h + e)
    <3>1. a + (c + q + h) = a + c + q + h /\ c + q + h \in Nat
      BY <1>1
    <3> DEFINE cqh == c + q + h
    <3> HIDE DEF cqh
    <3>2. Following(a, cqh) \o Following(a + cqh, e) = Following(a, cqh + e)
      BY <1>1, <3>1, FollowingConcat DEF cqh
    <3> QED BY <3>1, <3>2 DEF cqh
  <2> QED BY <1>6, <2>1, <2>2, <2>3
<1>8. Newest - a = c + q + h + e /\ Newest \in Int /\ c + q + h + e \in Nat
  <2> HIDE DEF a, c, h, q, e, fl
  <2> QED BY <1>1, <1>3
<1> QED BY <1>1, <1>7, <1>8

\* What the queue holds fits its chunks.
LEMMA QueueRoom ==
  ASSUME TypeOK, Ordered, Sized
  PROVE  Queued - Called <= Len(queue) * BatchSize
<1> DEFINE L == Len(queue)
           S == {i \in 1..L : After(queue[i]) - Called <= i * BatchSize}
<1>1. /\ Called \in Int /\ Queued \in Int /\ L \in Nat /\ DOMAIN queue = 1..L /\ BatchSize \in Nat
      /\ \A i \in 1..L : /\ Before(queue[i]) \in Int /\ After(queue[i]) \in Int
                         /\ After(queue[i]) = Before(queue[i]) + Len(queue[i].bytes)
                         /\ Len(queue[i].bytes) \in Nat /\ Len(queue[i].bytes) <= BatchSize
  BY Marks, StreamAssumption DEF TypeOK, Sized, After
<1>2. CASE queue = <<>>
  <2>1. L * BatchSize = 0 /\ Queued - Called = 0
    BY <1>1, <1>2 DEF Queued
  <2> QED BY <2>1
<1>3. CASE queue # <<>>
  <2>1. L \in 1..L
    BY <1>1, <1>3 DEF TypeOK
  <2>2. 1 \in S
    <3>1. 1 \in 1..L /\ Before(queue[1]) = Called /\ 1 * BatchSize = BatchSize
      BY <1>1, <1>3, <2>1 DEF Ordered
    <3> QED BY <1>1, <3>1
  <2>3. \A i \in 1..(L - 1) : i \in S => i + 1 \in S
    <3> SUFFICES ASSUME NEW i \in 1..(L - 1), i \in S
                 PROVE  i + 1 \in S
      OBVIOUS
    <3>1. i + 1 \in 1..L /\ i \in 1..L /\ After(queue[i]) = Before(queue[i + 1])
      BY <1>1 DEF Ordered
    <3>2. (i + 1) * BatchSize = i * BatchSize + BatchSize /\ i * BatchSize \in Int
      BY <1>1
    <3>3. After(queue[i + 1]) <= After(queue[i]) + BatchSize
      BY <1>1, <3>1
    <3>4. After(queue[i + 1]) - Called <= (i + 1) * BatchSize
      <4> DEFINE p == i * BatchSize
      <4>1. After(queue[i]) - Called <= p /\ p \in Int
        BY <3>2
      <4>2. After(queue[i]) \in Int /\ After(queue[i + 1]) \in Int
        BY <1>1, <3>1
      <4> HIDE DEF p
      <4>3. After(queue[i + 1]) - Called <= p + BatchSize
        BY <1>1, <3>3, <4>1, <4>2
      <4> QED BY <3>2, <4>3 DEF p
    <3> QED BY <3>1, <3>4
  <2>4. 1..L \subseteq S
    <3> HIDE DEF S, L
    <3> QED BY <1>1, <2>2, <2>3, CountUp
  <2>5. Queued = After(queue[L])
    BY <1>3 DEF Queued
  <2> QED BY <2>1, <2>4, <2>5
<1> QED BY <1>2, <1>3

StreamInv == TypeInv /\ Ordered /\ Sized

LEMMA StreamInvInit == Init => StreamInv
BY TypeInit, OrderInit, SizedInit DEF StreamInv

LEMMA StreamInvStep == StreamInv /\ [Next]_vars => StreamInv'
BY TypeInvStep, OrderStep, SizedStep DEF StreamInv, TypeInv

LEMMA StartsEmpty == Init => Stream!Init
<1> SUFFICES ASSUME Init
             PROVE  Stream!Init
  OBVIOUS
<1>1. /\ rx = 0 /\ delivered = <<>> /\ outcome = "none" /\ resolved = FALSE /\ Newest = 0
  BY DEF Init, Newest
<1>2. Transit = Following(0, 0)
  BY <1>1, StreamInvInit, TransitIs DEF StreamInv, TypeInv
<1>3. Following(0, 0) = <<>>
  BY FollowingSeq
<1> QED BY <1>1, <1>2, <1>3 DEF Stream!Init

\* The reader takes bytes only where they fit.
LEMMA AcceptStep ==
  ASSUME StreamInv, StreamInv', NEW n \in 1..BatchSize, Data(n)
  PROVE  Stream!Accept(n)
<1> DEFINE a == Len(delivered)
<1>1. /\ UNCHANGED <<delivered, outcome, resolved>> /\ outcome = "none" /\ rx' = rx + n
      /\ handing = Nothing /\ Len(filled) + n <= BatchSize
  BY DEF Data, jsVars, StreamInv, TypeInv, Phase, Sized
<1>2. /\ rx \in Int /\ a \in Nat /\ rx - a \in Nat /\ Transit = Following(a, rx - a)
      /\ Transit' = Following(a, rx' - a) /\ n \in Nat
  <2>1. (TypeOK /\ Ordered =>
          /\ Newest \in Int /\ Len(delivered) \in Nat /\ Newest - Len(delivered) \in Nat
          /\ Transit = Following(Len(delivered), Newest - Len(delivered)))'
    BY TransitIs, PTL
  <2>2. Newest = rx /\ Newest' = rx'
    BY <1>1 DEF Newest
  <2>3. n \in Nat
    BY StreamAssumption
  <2> QED BY <1>1, <2>1, <2>2, <2>3, TransitIs DEF StreamInv, TypeInv, Following
<1>3. Transit' = Transit \o [i \in 1..n |-> rx + i]
  <2> DEFINE l == rx - a
  <2>1. rx = a + l /\ rx' - a = l + n
    BY <1>1, <1>2
  <2>2. l \in Nat /\ a \in Int
    BY <1>2
  <2> HIDE DEF l, a
  <2>3. Following(a, l) \o Following(a + l, n) = Following(a, l + n)
    BY <1>2, <2>2, FollowingConcat
  <2>4. Following(rx, n) = [i \in 1..n |-> rx + i]
    BY DEF Following
  <2>5. Transit = Following(a, l) /\ Transit' = Following(a, l + n)
    BY <1>2, <2>1 DEF l
  <2> QED BY <2>1, <2>3, <2>4, <2>5
<1>4. Len(Transit) + n <= (Depth + 2) * BatchSize
  <2>1. Len(Transit) = rx - a
    <3>1. a \in Int
      BY <1>2
    <3> HIDE DEF a
    <3> QED BY <1>2, <3>1, FollowingSeq
  <2>2. /\ rx = Queued + Len(filled) /\ Called = a + Len(calling.bytes)
        /\ Queued \in Int /\ Called \in Int /\ Len(calling.bytes) \in Nat /\ Len(filled) \in Nat
    BY <1>1, Marks DEF StreamInv, TypeInv, Ordered, Handed, Called, Nothing
  <2>3. Queued - Called <= Len(queue) * BatchSize
    BY QueueRoom DEF StreamInv, TypeInv
  <2>4. Len(calling.bytes) <= BatchSize
    BY DEF StreamInv, Sized
  <2>5. Len(queue) \in Nat /\ Len(queue) <= Depth /\ Depth \in Nat /\ BatchSize \in Nat
    BY StreamAssumption DEF StreamInv, TypeInv, TypeOK
  <2>6. /\ Len(queue) * BatchSize <= Depth * BatchSize
        /\ (Depth + 2) * BatchSize = Depth * BatchSize + 2 * BatchSize
        /\ Len(queue) * BatchSize \in Int /\ Depth * BatchSize \in Int
    <3> DEFINE L == Len(queue)
    <3> HIDE DEF L
    <3> SUFFICES /\ L * BatchSize <= Depth * BatchSize
                 /\ (Depth + 2) * BatchSize = Depth * BatchSize + 2 * BatchSize
                 /\ L * BatchSize \in Int /\ Depth * BatchSize \in Int
      BY DEF L
    <3>1. L \in Nat /\ L <= Depth
      BY <2>5 DEF L
    <3> QED BY <2>5, <3>1
  <2> DEFINE lb == Len(queue) * BatchSize
             db == Depth * BatchSize
             cb == Len(calling.bytes)
  <2>7. rx - a + n <= db + 2 * BatchSize
    <3> DEFINE f == Len(filled)
    <3>1. /\ Queued - Called <= lb /\ lb <= db /\ lb \in Int /\ db \in Int
          /\ cb <= BatchSize /\ cb \in Nat /\ Called = a + cb
          /\ rx = Queued + f /\ f \in Nat /\ Queued \in Int /\ Called \in Int
      BY <2>2, <2>3, <2>4, <2>6
    <3>2. a \in Nat /\ n \in Nat /\ f + n <= BatchSize /\ BatchSize \in Nat
      BY <1>1, <1>2, <2>5
    <3> HIDE DEF lb, db, cb, a, f
    <3>3. rx - a + n = (Queued - Called) + cb + (f + n)
      BY <3>1, <3>2
    <3> QED BY <3>1, <3>2, <3>3
  <2> QED BY <2>1, <2>6, <2>7
<1> QED BY <1>1, <1>3, <1>4 DEF Stream!Accept

\* A callback delivers the oldest bytes.
LEMMA DeliverStep ==
  ASSUME StreamInv, StreamInv', Deliver
  PROVE  (\E n \in 1..BatchSize : Stream!Deliver(n)) \/ UNCHANGED Stream!vars
<1> DEFINE a == Len(delivered)
           n == Len(calling.bytes)
           l == Newest - a
<1>1. /\ UNCHANGED <<outcome, resolved, rx>> /\ Newest' = Newest
      /\ delivered' = delivered \o calling.bytes
  <2>1. Handed' = Handed
    BY LoopMarks DEF StreamInv, TypeInv
  <2> QED BY <2>1 DEF Deliver, readerVars, Newest
<1>2. /\ a \in Nat /\ n \in Nat /\ n <= BatchSize /\ Len(delivered') = a + n
      /\ delivered \in Seq(Bytes) /\ calling.bytes \in Seq(Bytes)
  <2>1. delivered \in Seq(Bytes) /\ calling.bytes \in Seq(Bytes) /\ n <= BatchSize
    BY Marks DEF StreamInv, TypeInv, TypeOK, Sized
  <2> QED BY <1>1, <2>1, ConcatProperties
<1>3. /\ l \in Nat /\ Newest \in Int /\ Transit = Following(a, l)
      /\ Newest - (a + n) \in Nat /\ Transit' = Following(a + n, Newest - (a + n))
  <2>1. (TypeOK /\ Ordered =>
          /\ Newest \in Int /\ Len(delivered) \in Nat /\ Newest - Len(delivered) \in Nat
          /\ Transit = Following(Len(delivered), Newest - Len(delivered)))'
    BY TransitIs, PTL
  <2> QED BY <1>1, <1>2, <2>1, TransitIs DEF StreamInv, TypeInv
<1>4. n \in 0..l /\ Newest - (a + n) = l - n /\ Len(Transit) = l /\ a \in Int
  <2>1. n \in 0..l /\ Newest - (a + n) = l - n /\ a \in Int
    BY <1>2, <1>3
  <2> HIDE DEF l, a
  <2> QED BY <1>3, <2>1, FollowingSeq
<1>5. SubSeq(Transit, 1, n) = Following(a, n) /\ SubSeq(Transit, n + 1, l) = Following(a + n, l - n)
  <2> HIDE DEF a, l, n
  <2> QED BY <1>3, <1>4, FollowingCut
<1>6. calling.bytes = Following(a, n)
  <2>1. calling.bytes \in Seq(Int) /\ Run(calling.bytes, a)
    BY <1>2, StreamAssumption DEF StreamInv, Ordered, Bytes
  <2> HIDE DEF a
  <2> QED BY <1>4, <2>1, RunIs
<1>7. CASE n = 0
  <2>1. calling.bytes = <<>> /\ delivered' = delivered
    BY <1>1, <1>2, <1>7
  <2>2. a + n = a /\ Newest - (a + n) = l
    BY <1>2, <1>3, <1>7
  <2>3. Transit' = Transit
    <3> HIDE DEF a, l, n
    <3> QED BY <1>3, <2>2
  <2> QED BY <1>1, <2>1, <2>3 DEF Stream!vars
<1>8. CASE n # 0
  <2>1. n \in 1..BatchSize
    BY <1>2, <1>8, StreamAssumption
  <2>2. Stream!Deliver(n)
    <3>1. /\ n <= Len(Transit)
          /\ delivered' = delivered \o SubSeq(Transit, 1, n)
          /\ Transit' = SubSeq(Transit, n + 1, Len(Transit))
      <4>1. delivered' = delivered \o Following(a, n)
        BY <1>1, <1>6
      <4>2. n <= l
        BY <1>4
      <4> HIDE DEF a, l, n
      <4> QED BY <1>3, <1>4, <1>5, <4>1, <4>2
    <3> HIDE DEF n
    <3> QED BY <1>1, <3>1 DEF Stream!Deliver
  <2> QED BY <2>1, <2>2
<1> QED BY <1>7, <1>8

\* A panic of the port gives up the bytes of the reader's batch, the newest.
LEMMA CrashStep ==
  ASSUME StreamInv, StreamInv', PollPanic
  PROVE  (\E n \in 1..(BatchSize - 1) : Stream!Crash(n)) \/ Stream!Stop
<1> DEFINE a == Len(delivered)
           n == Len(filled)
           l == rx - a
<1>1. /\ UNCHANGED <<delivered, calling, queue, handing, resolved, rx>>
      /\ outcome = "none" /\ outcome' = "panic"
  BY DEF PollPanic, jsVars, StreamInv, TypeInv, Phase, Sized
<1>2. rx = Handed + n /\ Handed \in Int /\ n \in Nat /\ n < BatchSize
  BY <1>1, Marks DEF StreamInv, TypeInv, Ordered, Sized, PollPanic
<1>3. Newest = rx /\ Newest' = rx - n
  <2>1. Called' = Called
    BY <1>1 DEF Called
  <2>2. Queued' = Queued
    BY <1>1, <2>1 DEF Queued, After, Before
  <2>3. Handed' = Handed
    BY <1>1, <2>2 DEF Handed
  <2> QED BY <1>1, <1>2, <2>3 DEF Newest
<1>4. /\ l \in Nat /\ a \in Nat /\ rx \in Int /\ Transit = Following(a, l)
      /\ (rx - n) - a \in Nat /\ Transit' = Following(a, (rx - n) - a)
  <2>1. (TypeOK /\ Ordered =>
          /\ Newest \in Int /\ Len(delivered) \in Nat /\ Newest - Len(delivered) \in Nat
          /\ Transit = Following(Len(delivered), Newest - Len(delivered)))'
    BY TransitIs, PTL
  <2> QED BY <1>1, <1>3, <2>1, TransitIs DEF StreamInv, TypeInv
<1>5. (rx - n) - a = l - n /\ l - n \in 0..l /\ Len(Transit) = l /\ a \in Int
  <2>1. (rx - n) - a = l - n /\ l - n \in 0..l /\ a \in Int
    BY <1>2, <1>4
  <2> HIDE DEF a, l
  <2> QED BY <1>4, <2>1, FollowingSeq
<1>6. Transit' = SubSeq(Transit, 1, l - n)
  <2> HIDE DEF a, l, n
  <2> DEFINE k == l - n
  <2>1. k \in 0..l
    BY <1>5
  <2> HIDE DEF k
  <2>2. SubSeq(Transit, 1, k) = Following(a, k)
    BY <1>4, <1>5, <2>1, FollowingCut
  <2> QED BY <1>4, <1>5, <2>2 DEF k
<1>7. CASE n = 0
  <2>1. l - n = l
    BY <1>4, <1>7
  <2>2. Transit' = Transit
    <3> HIDE DEF a, l, n
    <3> QED BY <1>4, <1>5, <2>1
  <2> QED BY <1>1, <2>2 DEF Stream!Stop
<1>8. CASE n # 0
  <2>1. n \in 1..(BatchSize - 1) /\ n <= l
    BY <1>2, <1>4, <1>8, StreamAssumption
  <2>2. Stream!Crash(n)
    <3> HIDE DEF a, l, n
    <3> QED BY <1>1, <1>5, <1>6, <2>1 DEF Stream!Crash
  <2> QED BY <2>1, <2>2
<1> QED BY <1>7, <1>8

\* Of the other steps those that stop or settle the read show, and no other.
LEMMA QuietStep ==
  ASSUME StreamInv, StreamInv', UNCHANGED <<delivered, rx>>, Newest' = Newest
  PROVE  Transit' = Transit
<1>1. (TypeOK /\ Ordered =>
        /\ Newest \in Int /\ Len(delivered) \in Nat /\ Newest - Len(delivered) \in Nat
        /\ Transit = Following(Len(delivered), Newest - Len(delivered)))'
  BY TransitIs, PTL
<1> QED BY <1>1, TransitIs DEF StreamInv, TypeInv

LEMMA StreamStep == StreamInv /\ StreamInv' /\ [Next]_vars => [Stream!Next]_(Stream!vars)
<1> SUFFICES ASSUME StreamInv, StreamInv', [Next]_vars
             PROVE  [Stream!Next]_(Stream!vars)
  OBVIOUS
<1>1. ASSUME NEW n \in 1..BatchSize, Data(n)
      PROVE  Stream!Next
  BY <1>1, AcceptStep DEF Stream!Next
<1>2. CASE Deliver
  BY <1>2, DeliverStep DEF Stream!Next
<1>3. CASE PollPanic
  BY <1>3, CrashStep DEF Stream!Next
<1>4. ASSUME NEW out \in {"ok", "portError"}, End(out)
      PROVE  Stream!Next
  <2>1. UNCHANGED <<delivered, rx, resolved>> /\ outcome = "none" /\ outcome' = out
    BY <1>4 DEF End, jsVars, StreamInv, Sized
  <2>2. Newest' = Newest
    BY <2>1 DEF Newest
  <2>3. Stream!Stop
    BY <2>1, <2>2, QuietStep DEF Stream!Stop
  <2> QED BY <2>3 DEF Stream!Next
<1>5. CASE NewBatchPanic
  <2>1. /\ UNCHANGED <<delivered, rx, resolved, calling, queue, handing, filled>>
        /\ filled = <<>> /\ outcome # "panic" /\ outcome' = "panic"
    BY <1>5 DEF NewBatchPanic, jsVars, StreamInv, TypeInv, Phase
  <2>2. Newest' = Newest
    <3>1. Called' = Called
      BY <2>1 DEF Called
    <3>2. Queued' = Queued
      BY <2>1, <3>1 DEF Queued, After, Before
    <3>3. Handed' = Handed
      BY <2>1, <3>2 DEF Handed
    <3> QED BY <2>1, <3>3, Marks DEF Newest, StreamInv, TypeInv, Ordered
  <2>3. Transit' = Transit
    BY <2>1, <2>2, QuietStep
  <2>4. CASE outcome = "none"
    BY <2>1, <2>3, <2>4 DEF Stream!Next, Stream!Stop
  <2>5. CASE outcome # "none"
    BY <2>1, <2>3, <2>5 DEF Stream!vars
  <2> QED BY <2>4, <2>5
<1>6. CASE NewBatch \/ Gap \/ Emit \/ Push \/ Return \/ Complete \/ Pop
             \/ LookAround \/ EndData \/ Resolve \/ UNCHANGED vars
  <2>1. UNCHANGED <<delivered, rx, outcome>>
    BY <1>6 DEF NewBatch, Gap, Emit, Push, Return, Complete, Pop, LookAround, EndData, Resolve,
       readerVars, jsVars, vars
  <2>2. Newest' = Newest
    <3>1. CASE outcome # "panic"
      BY <2>1, <3>1 DEF Newest
    <3>2. CASE outcome = "panic"
      <4>1. CASE Pop
        BY <2>1, <4>1, LoopMarks DEF Newest, StreamInv, TypeInv
      <4>2. CASE ~Pop
        <5>1. pc \in {"return", "complete", "done"}
          BY <3>2 DEF StreamInv, TypeInv, Phase
        <5>2. UNCHANGED <<delivered, calling, queue, handing>>
          BY <1>6, <4>2, <5>1 DEF NewBatch, Gap, Emit, Push, Return, Complete, LookAround,
             EndData, Resolve, readerVars, jsVars, vars
        <5>3. Called' = Called
          BY <5>2 DEF Called
        <5>4. Queued' = Queued
          BY <5>2, <5>3 DEF Queued, After, Before
        <5>5. Handed' = Handed
          BY <5>2, <5>4 DEF Handed
        <5> QED BY <2>1, <3>2, <5>5 DEF Newest
      <4> QED BY <4>1, <4>2
    <3> QED BY <3>1, <3>2
  <2>3. Transit' = Transit
    BY <2>1, <2>2, QuietStep
  <2>4. CASE Resolve
    <3>1. outcome # "none" /\ resolved' = TRUE
      BY <2>4 DEF Resolve, StreamInv, TypeInv, Phase
    <3> QED BY <2>1, <2>3, <3>1 DEF Stream!Next, Stream!Settle
  <2>5. CASE ~Resolve
    <3>1. resolved' = resolved
      BY <1>6, <2>5 DEF NewBatch, Gap, Emit, Push, Return, Complete, Pop, LookAround, EndData,
         jsVars, vars
    <3> QED BY <2>1, <2>3, <3>1 DEF Stream!vars
  <2> QED BY <2>4, <2>5
<1> QED
  BY <1>1, <1>2, <1>3, <1>4, <1>5, <1>6 DEF Next, Reader, ReaderFails, Loop, Finished

\* The reader, the heap, the two queues and the loop thread are together a
\* bounded FIFO of bytes that ends: every step of theirs is one of its steps
\* or none.
THEOREM Implementation == Spec => ImplementsStream
<1>1. Spec => []StreamInv
  BY StreamInvInit, StreamInvStep, PTL DEF Spec
<1> QED BY <1>1, StreamStep, StartsEmpty, PTL DEF Spec, ImplementsStream, Stream!Spec

-----------------------------------------------------------------------------
(* The promise and the last chunk, where wake-ups are served in order *)

LEMMA InTimeStep == TypeOK /\ Phase /\ Woken /\ InTime /\ [Next]_vars => InTime'
<1> SUFFICES ASSUME TypeOK, Phase, Woken, InTime, [Next]_vars
             PROVE  InTime'
  OBVIOUS
<1> DEFINE reader == IF batch # 0 \/ handing # Nothing THEN 1 ELSE 0
<1>0. /\ Len(queue) \in Nat /\ reader \in {0, 1} /\ allocated \in Nat
      /\ left \in 0..Quota /\ Quota \in Nat /\ Waiting = Len(queue) + reader
  BY StreamAssumption, LoopAssumption DEF TypeOK, LoopTypeOK, Batches, Waiting
<1>a. (left \in Nat) /\ left <= Quota
  BY <1>0
<1>1. CASE NewBatch
  <2>1. /\ reader = 0 /\ reader' = 1 /\ queue' = queue /\ allocated' = allocated + 1
        /\ left' = left /\ running' = running
    BY <1>1 DEF NewBatch, Phase, asyncVars, wakeVars, StreamAssumption, Batches, TypeOK
  <2> HIDE DEF reader
  <2>2. Waiting' = Waiting + 1
    BY <1>0, <2>1 DEF Waiting, reader
  <2> QED BY <1>0, <1>a, <2>1, <2>2 DEF InTime
<1>2. CASE Emit
  <2>1. /\ reader' = 1 /\ reader = 1 /\ queue' = queue /\ allocated' = allocated
        /\ left' = left /\ running' = running
    BY <1>2 DEF Emit, Phase, asyncVars, wakeVars, TypeOK, Batches, Nothing
  <2>2. Waiting' = Waiting
    BY <2>1 DEF Waiting
  <2> QED BY <2>1, <2>2 DEF InTime
<1>3. CASE Push
  <2>1. /\ reader' = 0 /\ reader = 1 /\ Len(queue') = Len(queue) + 1 /\ allocated' = allocated
        /\ left' = left /\ running' = running
    BY <1>3, PushedQueue DEF Push, Phase, Signal, heapVars
  <2> HIDE DEF reader
  <2>2. Waiting' = Waiting
    BY <1>0, <2>1 DEF Waiting, reader
  <2> QED BY <2>1, <2>2 DEF InTime
<1>4. CASE Pop
  <2>1. /\ reader' = reader /\ Len(queue') = Len(queue) - 1 /\ allocated' = allocated
        /\ left' = left - 1 /\ running = "data" /\ Len(queue) # 0
    BY <1>4, PoppedQueue DEF Pop, Take, readerVars, heapVars
  <2> HIDE DEF reader
  <2>2. Waiting' = Waiting - 1 /\ Waiting \in Nat
    BY <1>0, <2>1 DEF Waiting, reader
  <2> QED BY <1>0, <1>a, <2>1, <2>2 DEF InTime
<1>5. CASE Return
  <2>1. /\ reader' = 0 /\ queue' = queue /\ allocated' = allocated
        /\ left' = left /\ running' = running
    BY <1>5 DEF Return, Phase, asyncVars, wakeVars
  <2> HIDE DEF reader
  <2>2. Waiting' <= Waiting /\ Waiting' \in Nat /\ Waiting \in Nat
    BY <1>0, <2>1 DEF Waiting, reader
  <2>3. Waiting' <= allocated
    BY <1>0, <2>2 DEF InTime
  <2>4. running = "data" => Quota - left + Waiting' <= allocated
    <3>1. running = "data" => Quota - left + Waiting <= allocated
      BY DEF InTime
    <3>2. \A q, l, a, v, w \in Nat : v <= w /\ q - l + w <= a => q - l + v <= a
      OBVIOUS
    <3>3. Quota \in Nat /\ left \in Nat /\ allocated \in Nat
      BY <1>0, <1>a
    <3> QED BY <2>2, <3>1, <3>2, <3>3
  <2> QED BY <2>1, <2>3, <2>4 DEF InTime
<1>6. CASE Visit /\ UNCHANGED <<queue, batch, handing, allocated>>
  <2>1. Waiting' = Waiting
    BY <1>6 DEF Waiting
  <2>2. running' = "data" => left' = Quota
    BY <1>6 DEF Visit
  <2>3. Waiting \in Nat /\ allocated' = allocated
    BY <1>0, <1>6
  <2> HIDE DEF reader
  <2>4. running' = "data" => Quota - left' + Waiting' = Waiting
    BY <1>0, <2>1, <2>2, <2>3
  <2> QED BY <2>1, <2>3, <2>4 DEF InTime
<1>7. CASE UNCHANGED <<queue, batch, handing, allocated, left>> /\ running' \in {running, "none"}
  <2>1. Waiting' = Waiting
    BY <1>7 DEF Waiting
  <2> QED BY <1>7, <2>1 DEF InTime
<1>8. CASE LookAround
  BY <1>6, <1>7, <1>8 DEF LookAround, StartPass, readerVars, heapVars
<1> QED
  BY <1>1, <1>2, <1>3, <1>4, <1>5, <1>7, <1>8 DEF Next, Reader, ReaderFails, Loop, Finished,
     NewBatchPanic, End, Gap, Data, PollPanic, Complete, Signal, Deliver, EndData, Resolve,
     EndDispatch, readerVars, jsVars, heapVars, asyncVars, wakeVars, vars

LEMMA DoneLastStep ==
  TypeInv /\ Woken /\ Fifo("data", "done") /\ InTime /\ DoneLast /\ [Next]_vars => DoneLast'
<1> SUFFICES ASSUME TypeOK, Phase, Counted, Woken, Fifo("data", "done"), InTime, DoneLast, [Next]_vars
             PROVE  DoneLast'
  BY DEF TypeInv
<1> DEFINE Early == pc # "done" => "done" \notin pending /\ running # "done"
           Late == /\ "data" \in pending /\ "done" \in pending => todo = <<"data", "done">>
                   /\ running = "done" \/ resolved =>
                        queue = <<>> /\ calling = Nothing /\ "data" \notin pending
<1>1. Early'
  <2>1. CASE LookAround
    BY <2>1 DEF LookAround, StartPass, Visit, readerVars, DoneLast
  <2>2. CASE Push \/ EndData
    BY <2>2 DEF Push, EndData, Signal, EndDispatch, Wake, readerVars, DoneLast
  <2>3. CASE Complete
    BY <2>3 DEF Complete
  <2>4. CASE Pop
    BY <2>4 DEF Pop, Take, wakeVars, readerVars, DoneLast
  <2>5. CASE Resolve
    BY <2>5 DEF Resolve, EndDispatch, readerVars, DoneLast
  <2>6. CASE UNCHANGED <<pending, running>> /\ (pc' # "done" => pc # "done")
    BY <2>6 DEF DoneLast
  <2> QED
    BY <2>1, <2>2, <2>3, <2>4, <2>5, <2>6 DEF Next, Reader, ReaderFails, Loop, Finished,
       NewBatch, NewBatchPanic, End, Gap, Data, PollPanic, Emit, Return, Deliver,
       readerVars, asyncVars, wakeVars, vars
<1>2. ASSUME platform = "windows", allocated <= Quota
      PROVE  Late'
  <2>0. Late /\ Posted("data", "done") /\ running \notin pending
    BY <1>2 DEF DoneLast, Fifo
  <2>1. running = "data" /\ left = 0 => queue = <<>>
    <3> SUFFICES ASSUME running = "data", left = 0
                 PROVE  queue = <<>>
      OBVIOUS
    <3>1. Waiting <= 0
      <4>1. /\ Waiting \in Int /\ Quota \in Nat /\ allocated \in Nat
            /\ Quota - 0 + Waiting <= allocated
        BY StreamAssumption, LoopAssumption DEF TypeOK, Batches, Waiting, InTime
      <4> QED BY <1>2, <4>1
    <3>2. Len(queue) \in Nat /\ queue \in Seq(Chunk)
      BY DEF TypeOK
    <3>3. Len(queue) = 0
      BY <3>1, <3>2 DEF Waiting
    <3> QED BY <3>2, <3>3
  <2>2. CASE LookAround
    <3>1. Visit /\ UNCHANGED <<queue, calling, resolved>>
      BY <1>2, <2>2 DEF LookAround, StartPass, jsVars
    <3>2. /\ pending' \subseteq pending /\ running' \in pending /\ running' \notin pending'
          /\ running' = "done" /\ "data" \in pending' =>
               todo = <<"done", "data">> /\ pending = {"data", "done"}
      BY <2>0, <3>1, VisitPosted
    <3>a. pending \subseteq Names
      BY <2>0 DEF Posted, Names
    <3>3. running = "none" /\ queue' = queue /\ calling' = Nothing
      BY <3>1 DEF Visit, Woken
    <3>4. <<"done", "data">> # <<"data", "done">>
      OBVIOUS
    <3>5. ~(running' = "done" /\ "data" \in pending')
      BY <2>0, <3>2, <3>4 DEF Names
    <3>6. ~("data" \in pending' /\ "done" \in pending')
      BY <3>2, <3>a DEF Names
    <3>7. running' = "done" => queue = <<>>
      BY <3>1, <3>3, <3>5 DEF Visit, Woken
    <3> QED BY <2>0, <3>1, <3>2, <3>3, <3>5, <3>6, <3>7
  <2>3. CASE Push
    <3>1. pc # "done" /\ ~resolved /\ resolved' = resolved
      BY <2>3 DEF Push, Phase, jsVars
    <3>2. "done" \notin pending' /\ running' # "done"
      BY <2>3, <3>1 DEF Push, Signal, Wake, DoneLast
    <3> QED BY <3>1, <3>2
  <2>4. CASE Complete
    <3>1. /\ pc # "done" /\ ~resolved /\ resolved' = resolved
          /\ "done" \notin pending /\ running # "done" /\ running' = running /\ Wake("done")
      BY <2>4 DEF Complete, Phase, jsVars, Signal, DoneLast
    <3>2. pending' = pending \union {"done"}
          /\ (pending = {"data"} => todo' = <<"data", "done">>)
      BY <1>2, <2>0, <3>1, WakePosted DEF Names
    <3>3. "data" \in pending => pending = {"data"}
      BY <2>0, <3>1 DEF Posted, Names
    <3> QED BY <3>1, <3>2, <3>3
  <2>5. CASE EndData
    <3>1. /\ queue = <<>> /\ running = "data" /\ running' = "none"
          /\ UNCHANGED <<pending, todo, queue, calling, resolved>>
      BY <2>1, <2>5 DEF EndData, EndDispatch, jsVars
    <3> QED BY <2>0, <3>1
  <2>6. CASE Resolve
    BY <2>0, <2>6 DEF Resolve, EndDispatch
  <2>7. CASE Pop
    <3>1. /\ running = "data" /\ queue # <<>>
          /\ UNCHANGED <<pending, todo, running, resolved>>
      BY <2>7 DEF Pop, Take, wakeVars
    <3> QED BY <2>0, <3>1
  <2>8. CASE UNCHANGED <<pending, running, todo, queue, resolved>> /\ calling' \in {calling, Nothing}
    BY <2>0, <2>8
  <2> QED
    BY <2>2, <2>3, <2>4, <2>5, <2>6, <2>7, <2>8 DEF Next, Reader, ReaderFails, Loop, Finished,
       NewBatch, NewBatchPanic, End, Gap, Data, PollPanic, Emit, Return, Deliver,
       readerVars, jsVars, asyncVars, wakeVars, vars
<1>3. platform' = "windows" /\ allocated' <= Quota => platform = "windows" /\ allocated <= Quota
  <2>1. allocated' = allocated \/ allocated' = allocated + 1
    BY DEF Next, Reader, ReaderFails, Loop, Finished, NewBatch, NewBatchPanic, End, Gap, Data,
       PollPanic, Emit, Push, Return, Complete, LookAround, Pop, Deliver, EndData, Resolve,
       heapVars, vars
  <2>2. allocated \in Nat /\ Quota \in Nat
    BY StreamAssumption, LoopAssumption DEF TypeOK, Batches
  <2> QED BY <2>1, <2>2, StepsOfLoop, PlatformKept
<1> QED BY <1>1, <1>2, <1>3 DEF DoneLast

\* With wake-ups served in the order they were sent and a quota for all chunks
\* the promise settles after the last chunk, as addon.cc:328 has it.  (It does
\* not where the loop polls its handles: DoneAfterChunks.)
THEOREM SettlesLast == Spec => []DoneAfterChunksFifo
<1> DEFINE IInv == TypeInv /\ Woken /\ Fifo("data", "done") /\ InTime /\ DoneLast
<1>1. Init => IInv
  BY TypeInit, LoopAssumption DEF Init, LoopInit, Woken, Fifo, Posted, InTime, Waiting, DoneLast, Nothing
<1>2. IInv /\ [Next]_vars => IInv'
  <2> SUFFICES ASSUME IInv, [Next]_vars
               PROVE  IInv'
    OBVIOUS
  <2>1. Fifo("data", "done")'
    BY StepsOfLoop, FifoStep DEF Names
  <2> QED BY <2>1, TypeInvStep, WakeStep, InTimeStep, DoneLastStep DEF TypeInv
<1>3. IInv => DoneAfterChunksFifo
  BY DEF DoneLast, DoneAfterChunksFifo
<1> QED BY <1>1, <1>2, <1>3, PTL DEF Spec

============================================================================
