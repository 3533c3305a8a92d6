-------------------------- MODULE EventWatcherProofs --------------------------
(***************************************************************************)
(* What the watcher of comm events keeps to, for any queue depth, dispatch *)
(* quota and number of events and failures.  The parts of the inductive    *)
(* invariant:                                                              *)
(*   Phase     what the watcher has in hand, by where it is;               *)
(*   Closing   how far the close may be while the watcher runs;            *)
(*   Woken     a report in the queue has a wake-up on its way;             *)
(*   Sorted    where the events on their way to JS may be;                 *)
(*   InTime, DoneLast  what a FIFO of wake-ups adds to that.               *)
(***************************************************************************)
EXTENDS EventWatcher, AsyncLoopProofs

Phase ==
  /\ pc \in {"emit", "push"} <=> handing # Nothing
  /\ overlapped # "none" <=> pc = "waiting"
  /\ overlapped = "pending" => history = {}
  /\ mask # {} => /\ handing.events = {}
                  /\ \/ overlapped = "event"
                     \/ pc \in {"emit", "push"} /\ last
                     \/ pc = "done"

\* The close waits for the watcher before it takes away what the watcher uses,
\* and signals its own end last.
Closing ==
  /\ pc = "start" <=> closer = "opening"
  /\ closer = "opening" => slot /\ portOpen /\ stopEvent = "none"
  /\ WatcherRuns => /\ closer \in {"open", "stop", "join"} /\ slot /\ portOpen
                    /\ stopEvent = IF closer = "join" THEN "set" ELSE "reset"
  /\ closer # "done" => ~posted /\ ~resolved /\ "done" \notin pending /\ running # "done"

Woken ==
  /\ queue # <<>> => "events" \in pending \/ running = "events"
  /\ calling # Nothing => running = "events"

\* The events in the queue, and all that JS was told of or is being told of.
InQueue == UNION {queue[i].events : i \in DOMAIN queue}
Told == calling.events \union delivered

\* Each event of new is later than each of old.
Over(new, old) == \A n \in new, o \in old : o < n

\* Wherever an event is, those further on its way are older.
Sorted ==
  /\ history \union mask \union handing.events \union InQueue \union Told = 1..raised
  /\ Over(history, mask \union handing.events \union InQueue \union Told)
  /\ Over(mask, handing.events \union InQueue \union Told)
  /\ Over(handing.events, InQueue \union Told)
  /\ \A i, j \in DOMAIN queue : i < j => Over(queue[j].events, queue[i].events)
  /\ Over(InQueue, Told)
  /\ Over(calling.events, delivered)

\* A loop that is not one of Windows never serves a handle here: the watcher is
\* only built there.
Parked == platform # "windows" => todo = <<>> /\ running = "none"

\* As long as all reports fit a dispatch: those taken by this dispatch and those
\* in the queue are no more than there were.
InTime ==
  reports <= Quota =>
    /\ Len(queue) <= reports
    /\ running = "events" => Quota - left + Len(queue) <= reports

\* ... and then the wake-up for the close is served after the last one for the
\* events.
DoneLast ==
  reports <= Quota =>
    /\ platform = "windows" /\ "events" \in pending /\ "done" \in pending =>
         todo = <<"events", "done">>
    /\ running = "done" \/ resolved =>
         queue = <<>> /\ calling = Nothing /\ "events" \notin pending

-----------------------------------------------------------------------------
(* Types *)

\* Every step of driver, watcher, close and loop thread is one of the loop's.
LEMMA StepsOfLoop == [Next]_vars => LoopStep(Handles, <<>>)
<1> USE DEF LoopStep, Handles
<1> SUFFICES ASSUME [Next]_vars
             PROVE  LoopStep(Handles, <<>>)
  OBVIOUS
<1>1. CASE Driver
  BY <1>1 DEF Driver, Raise, WaitEnds
<1>2. CASE Watcher
  BY <1>2 DEF Watcher, SetMask, WaitAtOnce, WaitPending, Collect, StopSeen, Emit, Push
<1>3. CASE WatcherFails
  BY <1>3 DEF WatcherFails, CallFails
<1>4. CASE CallClose \/ Closer
  BY <1>4 DEF CallClose, Closer, SetStop, ClosePort, ReleaseEvent, Complete
<1>5. CASE Loop
  BY <1>5 DEF Loop, LookAround, Pop, Deliver, EndEvents, Resolve
<1>6. ASSUME NEW starts \in BOOLEAN, Start(starts)
      PROVE  LoopStep(Handles, <<>>)
  BY <1>6 DEF Start
<1>7. CASE UNCHANGED vars
  BY <1>7 DEF vars
<1> QED BY <1>1, <1>2, <1>3, <1>4, <1>5, <1>6, <1>7 DEF Next, Quiet

\* Taking a report off the queue, and adding one.
LEMMA QueueTypes ==
  ASSUME NEW s \in Seq(Report)
  PROVE  /\ \A r \in Report : Append(s, r) \in Seq(Report) /\ Len(Append(s, r)) = Len(s) + 1
         /\ s # <<>> => /\ Head(s) \in Report
                        /\ Tail(s) \in Seq(Report)
                        /\ Len(Tail(s)) = Len(s) - 1
BY HeadTailProperties

TypeInv == TypeOK /\ Phase /\ Closing

LEMMA TypeInit == Init => TypeInv
<1> SUFFICES ASSUME Init
             PROVE  TypeInv
  OBVIOUS
<1> USE WatcherAssumption, LoopAssumption
<1>1. LoopTypeOK(Handles)
  BY DEF Init, LoopTypeOK, LoopInit
<1>2. queue \in Seq(Report) /\ Len(queue) <= Depth
  BY DEF Init
<1>3. TypeOK
  <2>1. raised = 0 /\ errors = 0 /\ reports = 0 /\ handing = Nothing /\ calling = Nothing
    BY DEF Init
  <2>2. mask \subseteq Events /\ history \subseteq Events /\ delivered \subseteq Events
    BY DEF Init
  <2>3. raised \in 0..MaxEvents /\ errors \in 0..MaxErrors /\ reports \in 0..(Quota + 1)
    BY <2>1
  <2> QED BY <1>1, <1>2, <2>1, <2>2, <2>3 DEF Init, TypeOK
<1>4. Phase
  BY DEF Init, Phase
<1>5. Closing
  BY DEF Init, LoopInit, Closing, WatcherRuns
<1> QED BY <1>3, <1>4, <1>5 DEF TypeInv

LEMMA PhaseStep == TypeOK /\ Phase /\ Closing /\ [Next]_vars => Phase'
<1> SUFFICES ASSUME TypeOK, Phase, Closing, [Next]_vars
             PROVE  Phase'
  OBVIOUS
<1> USE DEF Phase, Nothing, Failure, driverVars, emitVars
<1>1. CASE Driver
  BY <1>1 DEF Driver, Raise, WaitEnds
<1>2. CASE SetMask \/ WaitAtOnce \/ WaitPending \/ StopSeen
  BY <1>2 DEF SetMask, WaitAtOnce, WaitPending, StopSeen, Have
<1>3. CASE Collect
  <2>1. pc = "waiting" /\ overlapped' = "none" /\ mask' = {} /\ history' = history
    BY <1>3 DEF Collect
  <2>2. CASE overlapped = "event" /\ mask = {}
    BY <1>3, <2>1, <2>2 DEF Collect
  <2>3. CASE ~(overlapped = "event" /\ mask = {})
    <3>1. pc' = "emit" /\ handing' # Nothing
      BY <1>3, <2>3 DEF Collect, Have
    <3> QED BY <2>1, <3>1
  <2> QED BY <2>2, <2>3
<1>4. CASE Emit
  BY <1>4 DEF Emit, Emitted, TypeOK
<1>5. CASE Push
  BY <1>5 DEF Push, Handoff, Emitted, TypeOK
<1>6. ASSUME NEW isLast \in BOOLEAN, CallFails(isLast)
      PROVE  Phase'
  BY <1>6 DEF CallFails, Have
<1>7. CASE CallClose \/ Closer
  BY <1>7 DEF CallClose, Closer, SetStop, ClosePort, ReleaseEvent, Complete
<1>8. CASE Loop
  BY <1>8 DEF Loop, LookAround, Pop, Deliver, EndEvents, Resolve
<1>9. ASSUME NEW starts \in BOOLEAN, Start(starts)
      PROVE  Phase'
  BY <1>9 DEF Start, Closing
<1>10. CASE UNCHANGED vars
  BY <1>10 DEF vars
<1> QED
  BY <1>1, <1>2, <1>3, <1>4, <1>5, <1>6, <1>7, <1>8, <1>9, <1>10
  DEF Next, Watcher, WatcherFails, Quiet

LEMMA TypeStep == TypeOK /\ Phase /\ [Next]_vars => TypeOK'
<1> SUFFICES ASSUME TypeOK, Phase, [Next]_vars
             PROVE  TypeOK'
  OBVIOUS
<1> USE WatcherAssumption, LoopAssumption
        DEF driverVars, emitVars, jsVars, closeVars
<1>1. LoopTypeOK(Handles)'
  <2>1. <<>> \in Seq(Handles) /\ LoopTypeOK(Handles)
    BY DEF TypeOK
  <2> QED BY <2>1, StepsOfLoop, LoopTypes
<1>2. /\ pc' \in {"start", "setMask", "wait", "waiting", "emit", "push", "done"}
      /\ last' \in BOOLEAN
      /\ overlapped' \in {"none", "pending", "event", "error", "fatal"}
  BY DEF TypeOK, Next, Driver, Raise, WaitEnds, Watcher, SetMask, WaitAtOnce, WaitPending,
     Collect, StopSeen, Emit, Emitted, Push, Handoff, Have, WatcherFails, CallFails,
     CallClose, Closer, SetStop, ClosePort, ReleaseEvent, Complete, Loop, LookAround, Pop,
     Deliver, EndEvents, Resolve, Start, Quiet, vars
<1>3. /\ closer' \in {"opening", "open", "stop", "join", "release", "complete", "done"}
      /\ stopEvent' \in {"none", "reset", "set", "closed"}
      /\ portOpen' \in BOOLEAN /\ slot' \in BOOLEAN
      /\ posted' \in BOOLEAN /\ resolved' \in BOOLEAN
  <2>1. CASE CallClose \/ SetStop \/ ClosePort
    BY <2>1 DEF TypeOK, CallClose, SetStop, ClosePort
  <2>2. CASE ReleaseEvent \/ Complete \/ Resolve \/ \E starts \in BOOLEAN : Start(starts)
    BY <2>2 DEF TypeOK, ReleaseEvent, Complete, Resolve, Start
  <2>3. CASE UNCHANGED closeVars
    BY <2>3 DEF TypeOK
  <2> QED
    BY <2>1, <2>2, <2>3 DEF Next, Driver, Raise, WaitEnds, Watcher, SetMask, WaitAtOnce,
       WaitPending, Collect, StopSeen, Emit, Push, Handoff, WatcherFails, CallFails, Closer,
       Loop, LookAround, Pop, Deliver, EndEvents, Quiet, vars
<1>4. /\ mask' \subseteq Events /\ history' \subseteq Events
      /\ raised' \in 0..MaxEvents /\ errors' \in 0..MaxErrors
      /\ reports' \in 0..(Quota + 1)
  <2>0. /\ mask \subseteq Events /\ history \subseteq Events
        /\ raised \in 0..MaxEvents /\ errors \in 0..MaxErrors /\ reports \in 0..(Quota + 1)
    BY DEF TypeOK
  <2>1. ASSUME OneMoreError
        PROVE  errors' \in 0..MaxErrors
    BY <2>0, <2>1 DEF OneMoreError
  <2>2. CASE Raise
    <3>1. raised + 1 \in Events /\ raised + 1 \in 0..MaxEvents
      BY <2>0, <2>2 DEF Raise, Events
    <3>2. raised' = raised + 1 /\ errors' = errors /\ reports' = reports
      BY <2>2 DEF Raise
    <3>3. mask' \subseteq Events /\ history' \subseteq Events
      BY <2>0, <2>2, <3>1 DEF Raise
    <3> QED BY <2>0, <3>1, <3>2, <3>3
  <2>3. ASSUME NEW how \in {"event", "error", "fatal"}, WaitEnds(how)
        PROVE  /\ mask' \subseteq Events /\ history' \subseteq Events
               /\ raised' \in 0..MaxEvents /\ errors' \in 0..MaxErrors
               /\ reports' \in 0..(Quota + 1)
    BY <2>0, <2>1, <2>3 DEF WaitEnds
  <2>4. ASSUME NEW isLast \in BOOLEAN, CallFails(isLast)
        PROVE  /\ mask' \subseteq Events /\ history' \subseteq Events
               /\ raised' \in 0..MaxEvents /\ errors' \in 0..MaxErrors
               /\ reports' \in 0..(Quota + 1)
    BY <2>0, <2>1, <2>4 DEF CallFails, Have
  <2>5. CASE Push
    BY <2>0, <2>5 DEF Push, Handoff
  <2>6. CASE SetMask \/ WaitAtOnce \/ WaitPending \/ Collect \/ StopSeen \/ Emit
    BY <2>0, <2>6 DEF SetMask, WaitAtOnce, WaitPending, Collect, StopSeen, Emit, Have
  <2>7. CASE UNCHANGED <<mask, history, raised, errors, reports>>
    BY <2>0, <2>7
  <2> QED
    BY <2>2, <2>3, <2>4, <2>5, <2>6, <2>7 DEF Next, Driver, Watcher, WatcherFails,
       CallClose, Closer, SetStop, ClosePort, ReleaseEvent, Complete, Loop, LookAround, Pop,
       Deliver, EndEvents, Resolve, Start, Quiet, vars
<1>5. /\ handing' \in Report \union {Nothing} /\ calling' \in Report \union {Nothing}
      /\ queue' \in Seq(Report) /\ Len(queue') <= Depth
      /\ delivered' \subseteq Events
  <2>0. /\ handing \in Report \union {Nothing} /\ calling \in Report \union {Nothing}
        /\ queue \in Seq(Report) /\ Len(queue) <= Depth /\ Len(queue) \in Nat
        /\ delivered \subseteq Events /\ mask \subseteq Events /\ history \subseteq Events
    BY DEF TypeOK
  <2>1. /\ Failure \in Report
        /\ \A new \in SUBSET Events : [kind |-> "event", events |-> new] \in Report
    BY DEF Report, Failure
  <2>2. ASSUME NEW report \in Report, NEW isLast, Have(report, isLast)
        PROVE  handing' \in Report
    BY <2>2 DEF Have
  <2>3. CASE WaitAtOnce \/ Collect \/ \E isLast \in BOOLEAN : CallFails(isLast)
    <3>1. handing' \in Report \union {Nothing}
      BY <2>0, <2>1, <2>2, <2>3 DEF WaitAtOnce, Collect, CallFails
    <3>2. UNCHANGED jsVars
      BY <2>3 DEF WaitAtOnce, Collect, CallFails
    <3> QED BY <2>0, <3>1, <3>2
  <2>4. CASE Emit
    BY <2>0, <2>4 DEF Emit
  <2>5. CASE Push
    <3>1. handing \in Report
      BY <2>0, <2>5 DEF Push, Handoff, Phase
    <3>2. Append(queue, handing) \in Seq(Report) /\ Len(Append(queue, handing)) = Len(queue) + 1
      BY <2>0, <3>1, QueueTypes
    <3> QED BY <2>0, <2>5, <3>2 DEF Push, Handoff
  <2>6. CASE Pop
    <3>1. /\ Head(queue) \in Report /\ Tail(queue) \in Seq(Report)
          /\ Len(Tail(queue)) = Len(queue) - 1
      BY <2>0, <2>6, QueueTypes DEF Pop
    <3> QED BY <2>0, <2>6, <3>1 DEF Pop
  <2>7. CASE Deliver
    <3>1. calling.events \subseteq Events
      BY <2>0, <2>7 DEF Deliver, Report
    <3> QED BY <2>0, <2>7, <3>1 DEF Deliver
  <2>8. CASE UNCHANGED <<handing, calling, queue, delivered>>
    BY <2>0, <2>8
  <2> QED
    BY <2>3, <2>4, <2>5, <2>6, <2>7, <2>8 DEF Next, Driver, Raise, WaitEnds, Watcher, SetMask,
       WaitPending, StopSeen, WatcherFails, CallClose, Closer, SetStop, ClosePort,
       ReleaseEvent, Complete, Loop, LookAround, EndEvents, Resolve, Start, Quiet, vars
<1> QED BY <1>1, <1>2, <1>3, <1>4, <1>5 DEF TypeOK

LEMMA CloseStep == TypeOK /\ Closing /\ [Next]_vars => Closing'
<1> SUFFICES ASSUME TypeOK, Closing, [Next]_vars
             PROVE  Closing'
  OBVIOUS
<1> USE DEF Closing, WatcherRuns, closeVars
<1>1. CASE Driver
  BY <1>1 DEF Driver, Raise, WaitEnds, asyncVars, wakeVars
<1>2. CASE SetMask \/ WaitAtOnce \/ WaitPending \/ Collect \/ StopSeen
  BY <1>2 DEF SetMask, WaitAtOnce, WaitPending, Collect, StopSeen, Have, asyncVars, wakeVars
<1>3. CASE Emit
  BY <1>3 DEF Emit, Emitted, asyncVars, wakeVars
<1>4. CASE Push
  BY <1>4 DEF Push, Handoff, Emitted, Signal, Wake
<1>5. ASSUME NEW isLast \in BOOLEAN, CallFails(isLast)
      PROVE  Closing'
  BY <1>5 DEF CallFails, Have, asyncVars, wakeVars
<1>6. CASE CallClose \/ SetStop \/ ClosePort
  BY <1>6 DEF CallClose, SetStop, ClosePort, asyncVars, wakeVars, TypeOK
<1>7. CASE ReleaseEvent \/ Complete
  BY <1>7 DEF ReleaseEvent, Complete, Signal, Wake, asyncVars, wakeVars, TypeOK
<1>8. CASE LookAround
  BY <1>8 DEF LookAround, Visit
<1>9. CASE Pop \/ Deliver
  BY <1>9 DEF Pop, Deliver, Take, asyncVars, wakeVars
<1>10. CASE EndEvents \/ Resolve
  BY <1>10 DEF EndEvents, Resolve, EndDispatch, Wake
<1>11. ASSUME NEW starts \in BOOLEAN, Start(starts)
      PROVE  Closing'
  BY <1>11 DEF Start, Signal, Wake, asyncVars, wakeVars
<1>12. CASE UNCHANGED vars
  BY <1>12 DEF vars, asyncVars, wakeVars
<1> QED
  BY <1>1, <1>2, <1>3, <1>4, <1>5, <1>6, <1>7, <1>8, <1>9, <1>10, <1>11, <1>12
  DEF Next, Watcher, WatcherFails, Closer, Loop, Quiet

LEMMA TypeInvStep == TypeInv /\ [Next]_vars => TypeInv'
BY TypeStep, PhaseStep, CloseStep DEF TypeInv

\* Every variable of the watcher and of the close stays in its type.
THEOREM TypeCorrect == Spec => []TypeOK
<1>1. TypeInv => TypeOK
  BY DEF TypeInv
<1> QED BY TypeInit, TypeInvStep, <1>1, PTL DEF Spec

\* Stop waits for the watcher, so no wait, cancel or emit meets a closed port,
\* a closed stop event or a released slot (serial.go:82).
THEOREM ValidHandles == Spec => []HandlesStayValid
<1>1. TypeInv => HandlesStayValid
  BY DEF TypeInv, Closing, HandlesStayValid
<1> QED BY TypeInit, TypeInvStep, <1>1, PTL DEF Spec

-----------------------------------------------------------------------------
(* Wake-ups *)

LEMMA WakeStep == TypeOK /\ Woken /\ [Next]_vars => Woken'
<1> SUFFICES ASSUME TypeOK, Woken, [Next]_vars
             PROVE  Woken'
  OBVIOUS
<1> USE DEF Woken, jsVars
<1>1. CASE Push
  <2>1. "events" \in pending' \/ running' = "events"
    BY <1>1 DEF Push, Signal, Wake
  <2>2. calling' = calling /\ running' = running
    BY <1>1 DEF Push, Handoff, Signal
  <2> QED BY <2>1, <2>2
<1>2. CASE Pop
  BY <1>2 DEF Pop, Take, wakeVars
<1>3. CASE Deliver
  BY <1>3 DEF Deliver, asyncVars, wakeVars
<1>4. CASE EndEvents \/ Resolve
  BY <1>4 DEF EndEvents, Resolve, EndDispatch, Wake
<1>5. CASE (\E h \in Handles : Signal(h)) /\ UNCHANGED jsVars
  BY <1>5 DEF Signal, Wake
<1>6. CASE LookAround
  BY <1>6 DEF LookAround, Visit
<1>7. CASE UNCHANGED <<asyncVars, queue, calling>>
  BY <1>7 DEF asyncVars, wakeVars
<1>8. CASE ReleaseEvent \/ Complete \/ \E starts \in BOOLEAN : Start(starts)
  BY <1>5, <1>7, <1>8 DEF ReleaseEvent, Complete, Start, Handles
<1> QED
  BY <1>1, <1>2, <1>3, <1>4, <1>6, <1>7, <1>8 DEF Next, Driver, Raise, WaitEnds, Watcher,
     SetMask, WaitAtOnce, WaitPending, Collect, StopSeen, Emit, WatcherFails, CallFails,
     CallClose, Closer, SetStop, ClosePort, Loop, Quiet, vars

\* What the end of the queue and its front look like after a push and a pop.
LEMMA PushedQueue ==
  ASSUME TypeOK, Phase, Push
  PROVE  /\ handing \in Report /\ queue \in Seq(Report) /\ queue' \in Seq(Report)
         /\ Len(queue) \in Nat /\ Len(queue') = Len(queue) + 1
         /\ DOMAIN queue = 1..Len(queue) /\ DOMAIN queue' = 1..(Len(queue) + 1)
         /\ \A i \in DOMAIN queue' :
              queue'[i] = IF i <= Len(queue) THEN queue[i] ELSE handing
<1>1. handing \in Report /\ queue \in Seq(Report)
  BY DEF TypeOK, Phase, Push, Handoff
<1> QED BY <1>1, QueueTypes DEF Push, Handoff

LEMMA PoppedQueue ==
  ASSUME TypeOK, Pop
  PROVE  /\ calling' \in Report /\ queue \in Seq(Report) /\ queue' \in Seq(Report)
         /\ Len(queue) \in Nat \ {0} /\ Len(queue') = Len(queue) - 1
         /\ DOMAIN queue = 1..Len(queue) /\ DOMAIN queue' = 1..(Len(queue) - 1)
         /\ calling' = queue[1]
         /\ \A i \in DOMAIN queue' : queue'[i] = queue[i + 1]
<1>1. queue \in Seq(Report) /\ queue # <<>> /\ queue' = Tail(queue) /\ calling' = Head(queue)
  BY DEF TypeOK, Pop
<1> QED BY <1>1, HeadTailProperties

-----------------------------------------------------------------------------
(* The last report and the end of the close *)

LEMMA ParkedStep == Parked /\ [Next]_vars => Parked'
<1> SUFFICES ASSUME Parked, [Next]_vars, platform # "windows"
             PROVE  todo' = <<>> /\ running' = "none"
  BY StepsOfLoop, PlatformKept DEF Parked
<1>1. todo = <<>> /\ running = "none" /\ "none" \notin Handles
  BY DEF Parked, Handles
<1> QED
  BY <1>1, StepsOfLoop DEF LoopStep, Signal, Wake, Take, EndDispatch, StartPass, Visit,
     asyncVars, wakeVars

LEMMA InTimeStep == TypeInv /\ Woken /\ InTime /\ [Next]_vars => InTime'
<1> SUFFICES ASSUME TypeOK, Phase, Closing, Woken, InTime, [Next]_vars
             PROVE  InTime'
  BY DEF TypeInv
<1>0. /\ Len(queue) \in Nat /\ reports \in Nat /\ left \in Nat /\ left <= Quota /\ Quota \in Nat
  <2>1. left \in 0..Quota /\ reports \in 0..(Quota + 1) /\ Quota \in Nat
    BY LoopAssumption DEF TypeOK, LoopTypeOK
  <2> QED BY <2>1 DEF TypeOK
<1>1. CASE Push
  <2>1. Len(queue') = Len(queue) + 1 /\ left' = left /\ running' = running
    BY <1>1, PushedQueue DEF Push, Signal
  <2>2. reports' = IF reports > Quota THEN reports ELSE reports + 1
    BY <1>1 DEF Push, Handoff
  <2>3. \A q, l, n, r \in Nat : q - l + n <= r => q - l + (n + 1) <= r + 1
    OBVIOUS
  <2> QED BY <1>0, <2>1, <2>2, <2>3 DEF InTime
<1>2. CASE Pop
  <2>1. /\ Len(queue') = Len(queue) - 1 /\ Len(queue) # 0 /\ left' = left - 1 /\ left # 0
        /\ running = "events" /\ reports' = reports
    BY <1>2, PoppedQueue DEF Pop, Take, emitVars
  <2>2. \A q, l, n, r \in Nat : q - l + n <= r => q - (l - 1) + (n - 1) <= r
    OBVIOUS
  <2> QED BY <1>0, <2>1, <2>2 DEF InTime
<1>3. CASE LookAround
  <2>1. queue' = queue /\ reports' = reports /\ (running' = "events" => left' = Quota)
    BY <1>3 DEF LookAround, Visit, jsVars, emitVars
  <2>2. \A q, n, r \in Nat : n <= r => q - q + n <= r
    OBVIOUS
  <2> QED BY <1>0, <2>1, <2>2 DEF InTime
<1>4. CASE UNCHANGED <<queue, left, reports>> /\ running' \in {running, "none"}
  BY <1>4 DEF InTime
<1>5. CASE ReleaseEvent \/ Complete \/ \E starts \in BOOLEAN : Start(starts)
  BY <1>4, <1>5 DEF ReleaseEvent, Complete, Start, Signal, jsVars, emitVars, asyncVars, wakeVars
<1> QED
  BY <1>1, <1>2, <1>3, <1>4, <1>5 DEF Next, Driver, Raise, WaitEnds, Watcher, SetMask,
     WaitAtOnce, WaitPending, Collect, StopSeen, Emit, Have, WatcherFails, CallFails,
     CallClose, Closer, SetStop, ClosePort, Loop, Deliver, EndEvents, Resolve, EndDispatch,
     Quiet, jsVars, emitVars, asyncVars, wakeVars, vars

LEMMA DoneLastStep ==
  /\ TypeInv /\ Woken /\ Parked /\ InTime /\ DoneLast /\ Fifo("events", "done")
  /\ [Next]_vars
  => DoneLast'
<1> SUFFICES ASSUME TypeOK, Phase, Closing, Woken, Parked, InTime, DoneLast,
                    Fifo("events", "done"), [Next]_vars, reports' <= Quota
             PROVE  /\ platform = "windows" /\ "events" \in pending' /\ "done" \in pending' =>
                         todo' = <<"events", "done">>
                    /\ running' = "done" \/ resolved' =>
                         queue' = <<>> /\ calling' = Nothing /\ "events" \notin pending'
  <2>1. [Next]_vars => platform' = platform
    BY StepsOfLoop, PlatformKept
  <2> QED BY <2>1 DEF TypeInv, DoneLast
<1> DEFINE Goal ==
      /\ platform = "windows" /\ "events" \in pending' /\ "done" \in pending' =>
           todo' = <<"events", "done">>
      /\ running' = "done" \/ resolved' =>
           queue' = <<>> /\ calling' = Nothing /\ "events" \notin pending'
<1>1. reports <= Quota
  <2>1. reports \in Nat /\ Quota \in Nat
    BY LoopAssumption DEF TypeOK
  <2>2. reports' = reports \/ Push
    BY DEF Next, Driver, Raise, WaitEnds, Watcher, SetMask, WaitAtOnce,
       WaitPending, Collect, StopSeen, Emit, Have, WatcherFails, CallFails, CallClose,
       Closer, SetStop, ClosePort, ReleaseEvent, Complete, Loop, LookAround, Pop, Deliver,
       EndEvents, Resolve, Start, Quiet, emitVars, vars
  <2> QED BY <2>1, <2>2 DEF Push, Handoff
<1>2. /\ platform = "windows" =>
           /\ Posted("events", "done") /\ running \notin pending
           /\ "events" \in pending /\ "done" \in pending => todo = <<"events", "done">>
      /\ running = "done" \/ resolved =>
           queue = <<>> /\ calling = Nothing /\ "events" \notin pending
  BY <1>1 DEF DoneLast, Fifo
<1>3. CASE LookAround
  <2>1. platform = "windows" /\ Visit /\ UNCHANGED <<queue, calling, resolved>>
    BY <1>3 DEF LookAround, Visit, Parked, jsVars, closeVars
  <2>2. /\ pending' \subseteq pending /\ running' \in pending /\ running' \notin pending'
        /\ running' = "done" /\ "events" \in pending' =>
             todo = <<"done", "events">> /\ pending = {"events", "done"}
    BY <1>2, <2>1, VisitPosted
  <2>3. <<"done", "events">> # <<"events", "done">>
    OBVIOUS
  <2>4. ~(running' = "done" /\ "events" \in pending')
    BY <1>2, <2>1, <2>2, <2>3
  <2>5. pending \subseteq {"events", "done"}
    BY DEF TypeOK, LoopTypeOK, Handles
  <2>6. running' = "done" => queue = <<>>
    BY <2>1, <2>2, <2>4 DEF Visit, Woken
  <2>7. calling = Nothing
    BY <2>1 DEF Visit, Woken
  <2> QED BY <1>2, <2>1, <2>2, <2>4, <2>5, <2>6, <2>7
<1>4. ASSUME closer # "done", resolved' = resolved, running' = running,
             "done" \notin pending'
      PROVE  Goal
  <2>1. ~resolved' /\ running # "done"
    BY <1>4 DEF Closing
  <2> QED BY <1>4, <2>1
<1>5. CASE Push \/ ReleaseEvent \/ \E starts \in BOOLEAN : Start(starts)
  <2>1. closer # "done" /\ resolved' = resolved
    BY <1>5 DEF Push, Handoff, ReleaseEvent, Start, Closing, WatcherRuns, closeVars
  <2>2. running' = running /\ "done" \notin pending'
    BY <1>5, <2>1 DEF Push, ReleaseEvent, Start, Signal, Wake, Closing, asyncVars, wakeVars
  <2> QED BY <1>4, <2>1, <2>2
<1>6. CASE Complete
  <2>1. /\ ~resolved /\ "done" \notin pending /\ running # "done"
        /\ resolved' = resolved /\ running' = running /\ Wake("done")
    BY <1>6 DEF Complete, Closing, Signal
  <2>2. platform = "windows" => (pending = {"events"} => todo' = <<"events", "done">>)
    BY <1>2, <2>1, WakePosted
  <2>3. pending' = pending \union {"done"} /\ pending \subseteq {"events", "done"}
    BY <2>1 DEF Wake, TypeOK, LoopTypeOK, Handles
  <2>4. "events" \in pending' => pending = {"events"}
    BY <2>1, <2>3
  <2> QED BY <2>1, <2>2, <2>4
<1>7. CASE EndEvents
  <2>1. running = "events" /\ (queue # <<>> => left = 0)
    BY <1>7 DEF EndEvents, EndDispatch
  <2>2. queue = <<>>
    <3> SUFFICES ASSUME left = 0
                 PROVE  queue = <<>>
      BY <2>1
    <3>1. /\ Len(queue) \in Nat /\ queue \in Seq(Report) /\ reports \in Nat /\ Quota \in Nat
      BY LoopAssumption DEF TypeOK
    <3>2. Quota - 0 + Len(queue) <= reports
      BY <1>1, <2>1 DEF InTime
    <3>3. Len(queue) = 0
      BY <1>1, <3>1, <3>2
    <3> QED BY <3>1, <3>3
  <2>3. running' = "none" /\ UNCHANGED <<pending, todo, queue, calling, resolved>>
    BY <1>7, <2>2 DEF EndEvents, EndDispatch, jsVars, closeVars
  <2> QED BY <1>2, <2>3
<1>8. CASE Resolve
  BY <1>2, <1>8 DEF Resolve, EndDispatch, jsVars
<1>9. CASE Pop
  <2>1. running = "events" /\ queue # <<>> /\ UNCHANGED <<pending, todo, running, resolved>>
    BY <1>9 DEF Pop, Take, wakeVars, closeVars
  <2> QED BY <1>2, <2>1
<1>10. CASE UNCHANGED <<pending, running, todo, queue, resolved>> /\ calling' \in {calling, Nothing}
  BY <1>2, <1>10
<1> QED
  BY <1>3, <1>5, <1>6, <1>7, <1>8, <1>9, <1>10 DEF Next, Driver, Raise, WaitEnds, Watcher,
     SetMask, WaitAtOnce, WaitPending, Collect, StopSeen, Emit, WatcherFails, CallFails,
     CallClose, Closer, SetStop, ClosePort, Loop, Deliver, Quiet, jsVars, closeVars,
     asyncVars, wakeVars, vars

\* When close's promise settles the callback has been called for every report
\* and will not be again, if all of them fit one dispatch of the events queue
\* (serial.go:83).
THEOREM SilentAfterClose == Spec => []NoEventAfterClose
<1> DEFINE IInv == TypeInv /\ Woken /\ Parked /\ InTime /\ DoneLast /\ Fifo("events", "done")
<1>1. Init => IInv
  BY TypeInit, LoopAssumption DEF Init, LoopInit, Woken, Parked, InTime, DoneLast, Fifo, Posted
<1>2. IInv /\ [Next]_vars => IInv'
  <2> SUFFICES ASSUME IInv, [Next]_vars
               PROVE  IInv'
    OBVIOUS
  <2>1. Fifo("events", "done")'
    BY StepsOfLoop, FifoStep DEF Handles
  <2> QED
    BY <2>1, TypeInvStep, WakeStep, ParkedStep, InTimeStep, DoneLastStep DEF TypeInv
<1>3. IInv => NoEventAfterClose
  BY DEF TypeInv, TypeOK, Closing, WatcherRuns, DoneLast, NoEventAfterClose
<1> QED BY <1>1, <1>2, <1>3, PTL DEF Spec

-----------------------------------------------------------------------------
(* Order *)

LEMMA SortedInit == Init => Sorted
<1> SUFFICES ASSUME Init
             PROVE  Sorted
  OBVIOUS
<1>1. InQueue = {} /\ Told = {} /\ handing.events = {} /\ queue = <<>>
  BY DEF Init, InQueue, Told, Nothing
<1> QED BY <1>1 DEF Init, Sorted, Over, Nothing

LEMMA SortedStep == TypeInv /\ Sorted /\ [Next]_vars => Sorted'
<1> SUFFICES ASSUME TypeOK, Phase, Closing, Sorted, [Next]_vars
             PROVE  Sorted'
  BY DEF TypeInv
<1>1. CASE Raise
  <2>1. /\ queue' = queue /\ InQueue' = InQueue /\ Told' = Told /\ handing' = handing
        /\ calling' = calling /\ delivered' = delivered /\ raised' = raised + 1 /\ raised \in Nat
    BY <1>1 DEF Raise, InQueue, Told, emitVars, jsVars, TypeOK
  <2>2. /\ \A e \in history \union mask \union handing.events \union InQueue \union Told :
             e \in Nat /\ e < raised + 1
        /\ 1..(raised + 1) = 1..raised \union {raised + 1}
    <3>1. \A e \in 1..raised : e \in Nat /\ e < raised + 1
      BY <2>1
    <3>2. 1..(raised + 1) = 1..raised \union {raised + 1}
      BY <2>1
    <3> QED BY <3>1, <3>2 DEF Sorted
  <2>3. \/ mask = {} /\ mask' = {raised + 1} /\ history = {} /\ history' = {}
        \/ mask' = mask /\ history' = history \union {raised + 1}
    BY <1>1 DEF Raise, Phase
  <2>4. CASE mask = {} /\ mask' = {raised + 1} /\ history = {} /\ history' = {}
    BY <2>1, <2>2, <2>4 DEF Sorted, Over
  <2>5. CASE mask' = mask /\ history' = history \union {raised + 1}
    BY <2>1, <2>2, <2>5 DEF Sorted, Over
  <2> QED BY <2>3, <2>4, <2>5
<1>2. CASE WaitAtOnce
  <2>1. /\ queue' = queue /\ InQueue' = InQueue /\ Told' = Told /\ raised' = raised
        /\ calling' = calling /\ delivered' = delivered
        /\ mask' = mask /\ mask = {} /\ history' = {}
        /\ handing.events = {} /\ handing'.events = history
    BY <1>2 DEF WaitAtOnce, Have, InQueue, Told, jsVars, Phase, Nothing
  <2> QED BY <2>1 DEF Sorted, Over
<1>3. CASE Collect
  <2>1. /\ queue' = queue /\ InQueue' = InQueue /\ Told' = Told /\ raised' = raised
        /\ calling' = calling /\ delivered' = delivered
        /\ history' = history /\ mask' = {} /\ handing.events = {}
    BY <1>3 DEF Collect, InQueue, Told, jsVars, Phase, Nothing
  <2>2. handing'.events = mask
    <3>1. CASE overlapped = "event" /\ mask = {}
      BY <1>3, <2>1, <3>1 DEF Collect, emitVars
    <3>2. CASE overlapped = "event" /\ mask # {}
      BY <1>3, <3>2 DEF Collect, Have
    <3>3. CASE overlapped # "event"
      <4>1. mask = {} /\ handing' = Failure
        BY <1>3, <3>3 DEF Collect, Have, Phase
      <4> QED BY <4>1 DEF Failure
    <3> QED BY <3>1, <3>2, <3>3
  <2> QED BY <2>1, <2>2 DEF Sorted, Over
<1>4. ASSUME NEW isLast \in BOOLEAN, CallFails(isLast)
      PROVE  Sorted'
  <2>1. /\ queue' = queue /\ InQueue' = InQueue /\ Told' = Told /\ raised' = raised
        /\ calling' = calling /\ delivered' = delivered
        /\ history' = history /\ mask' = mask /\ handing.events = {} /\ handing'.events = {}
    BY <1>4 DEF CallFails, Have, InQueue, Told, jsVars, Phase, Nothing, Failure
  <2> QED BY <2>1 DEF Sorted, Over
<1>5. CASE Push
  <2>1. /\ Told' = Told /\ raised' = raised /\ history' = history /\ mask' = mask
        /\ calling' = calling /\ delivered' = delivered /\ handing'.events = {}
    BY <1>5 DEF Push, Handoff, Told, Nothing, driverVars
  <2>2. InQueue' = InQueue \union handing.events
    <3>1. Len(queue) + 1 \in DOMAIN queue' /\ queue'[Len(queue) + 1] = handing
      BY <1>5, PushedQueue
    <3>2. \A i \in DOMAIN queue : i \in DOMAIN queue' /\ queue'[i] = queue[i]
      BY <1>5, PushedQueue
    <3>3. \A i \in DOMAIN queue' : queue'[i] = handing \/ (i \in DOMAIN queue /\ queue'[i] = queue[i])
      BY <1>5, PushedQueue
    <3>4. ASSUME NEW e
          PROVE  (\E i \in DOMAIN queue' : e \in queue'[i].events)
                   <=> e \in handing.events \/ \E i \in DOMAIN queue : e \in queue[i].events
      BY <3>1, <3>2, <3>3
    <3> QED BY <3>4 DEF InQueue
  <2>3. ASSUME NEW i \in DOMAIN queue', NEW j \in DOMAIN queue', i < j
        PROVE  Over(queue'[j].events, queue'[i].events)
    <3>1. i \in DOMAIN queue /\ queue'[i] = queue[i]
      BY <1>5, <2>3, PushedQueue
    <3>2. CASE j \in DOMAIN queue
      <4>1. queue'[j] = queue[j]
        BY <1>5, <3>2, PushedQueue
      <4> QED BY <2>3, <3>1, <3>2, <4>1 DEF Sorted
    <3>3. CASE j \notin DOMAIN queue
      <4>1. queue'[j] = handing
        BY <1>5, <2>3, <3>3, PushedQueue
      <4>2. queue[i].events \subseteq InQueue
        BY <3>1 DEF InQueue
      <4> QED BY <3>1, <4>1, <4>2 DEF Sorted, Over
    <3> QED BY <3>2, <3>3
  <2> QED BY <2>1, <2>2, <2>3 DEF Sorted, Over
<1>6. CASE Pop
  <2>1. /\ raised' = raised /\ history' = history /\ mask' = mask /\ handing' = handing
        /\ delivered' = delivered /\ calling' = queue[1] /\ calling.events = {}
    BY <1>6, PoppedQueue DEF Pop, Nothing, driverVars, emitVars
  <2>2. 1 \in DOMAIN queue
    BY <1>6, PoppedQueue
  <2>3. \A i \in DOMAIN queue' : i + 1 \in DOMAIN queue /\ 1 < i + 1 /\ queue'[i] = queue[i + 1]
    BY <1>6, PoppedQueue
  <2>4. InQueue = InQueue' \union calling'.events
    <3>1. ASSUME NEW i \in DOMAIN queue, i # 1
          PROVE  i - 1 \in DOMAIN queue' /\ queue'[i - 1] = queue[i]
      <4>1. i - 1 \in DOMAIN queue' /\ (i - 1) + 1 = i
        BY <1>6, <3>1, PoppedQueue
      <4> QED BY <2>3, <4>1
    <3>2. ASSUME NEW e
          PROVE  (\E i \in DOMAIN queue : e \in queue[i].events)
                   <=> e \in queue[1].events \/ \E i \in DOMAIN queue' : e \in queue'[i].events
      BY <2>2, <2>3, <3>1
    <3> QED BY <2>1, <3>2 DEF InQueue
  <2>5. Over(InQueue', calling'.events)
    <3>1. \A i \in DOMAIN queue' : Over(queue'[i].events, queue[1].events)
      BY <2>2, <2>3 DEF Sorted
    <3> QED BY <2>1, <3>1 DEF InQueue, Over
  <2>6. ASSUME NEW i \in DOMAIN queue', NEW j \in DOMAIN queue', i < j
        PROVE  Over(queue'[j].events, queue'[i].events)
    <3>1. i + 1 < j + 1
      BY <1>6, <2>6, PoppedQueue
    <3> QED BY <2>3, <2>6, <3>1 DEF Sorted
  <2>7. Told = delivered /\ Told' = calling'.events \union delivered
    BY <2>1 DEF Told
  <2> QED BY <2>1, <2>4, <2>5, <2>6, <2>7 DEF Sorted, Over
<1>7. CASE Deliver
  <2>1. /\ queue' = queue /\ InQueue' = InQueue /\ Told' = Told /\ raised' = raised
        /\ history' = history /\ mask' = mask /\ handing' = handing /\ calling'.events = {}
    BY <1>7 DEF Deliver, InQueue, Told, Nothing, driverVars, emitVars
  <2> QED BY <2>1 DEF Sorted, Over
<1>8. CASE UNCHANGED <<queue, calling, delivered, raised, history, mask, handing>>
  <2>1. InQueue' = InQueue /\ Told' = Told
    BY <1>8 DEF InQueue, Told
  <2> QED BY <1>8, <2>1 DEF Sorted, Over
<1>9. CASE Emit
  <2>1. slot
    BY <1>9 DEF Emit, Closing, WatcherRuns
  <2> QED BY <1>8, <1>9, <2>1 DEF Emit, driverVars, jsVars
<1> QED
  BY <1>1, <1>2, <1>3, <1>4, <1>5, <1>6, <1>7, <1>8, <1>9 DEF Next, Driver, WaitEnds, Watcher,
     SetMask, WaitPending, StopSeen, WatcherFails, CallClose, Closer, SetStop, ClosePort,
     ReleaseEvent, Complete, Loop, LookAround, EndEvents, Resolve, Start, Quiet,
     driverVars, emitVars, jsVars, vars

\* The stages of EventsInOrder, one by one.
LEMMA StagesAre ==
  ASSUME TypeOK
  PROVE  /\ DOMAIN Stages = 1..(Len(queue) + 5) /\ Len(queue) \in Nat
         /\ Stages[1] = history /\ Stages[2] = mask /\ Stages[3] = handing.events
         /\ \A k \in 1..Len(queue) : Stages[3 + k] = queue[Len(queue) + 1 - k].events
         /\ Stages[Len(queue) + 4] = calling.events /\ Stages[Len(queue) + 5] = delivered
<1> DEFINE n == Len(queue)
           Sets == SUBSET Events
           first == <<history, mask, handing.events>>
           middle == [i \in DOMAIN queue |-> queue[n + 1 - i].events]
           final == <<calling.events, delivered>>
<1>1. n \in Nat /\ DOMAIN queue = 1..n /\ \A i \in 1..n : queue[i] \in Report
  BY DEF TypeOK
<1>2. /\ history \in Sets /\ mask \in Sets /\ handing.events \in Sets
      /\ calling.events \in Sets /\ delivered \in Sets
  BY DEF TypeOK, Report, Nothing
<1>3. first \in Seq(Sets) /\ final \in Seq(Sets) /\ Len(first) = 3 /\ Len(final) = 2
  BY <1>2
<1>4. /\ first[1] = history /\ first[2] = mask /\ first[3] = handing.events
      /\ final[1] = calling.events /\ final[2] = delivered
  OBVIOUS
<1>5. /\ middle \in Seq(Sets) /\ Len(middle) = n
      /\ \A k \in 1..n : middle[k] = queue[n + 1 - k].events
  <2>1. \A k \in 1..n : n + 1 - k \in 1..n
    BY <1>1
  <2>2. \A r \in Report : r.events \in Sets
    BY DEF Report
  <2>3. \A k \in 1..n : queue[n + 1 - k].events \in Sets
    BY <1>1, <2>1, <2>2
  <2> QED BY <1>1, <2>3
<1>6. Stages = (first \o middle) \o final
  BY DEF Stages
<1> HIDE DEF first, middle, final, Sets, n
<1>7. /\ first \o middle \in Seq(Sets) /\ Len(first \o middle) = 3 + n
      /\ \A i \in 1..(3 + n) :
           (first \o middle)[i] = IF i <= 3 THEN first[i] ELSE middle[i - 3]
  <2>1. /\ first \o middle \in Seq(Sets)
        /\ Len(first \o middle) = Len(first) + Len(middle)
        /\ \A i \in 1..(Len(first) + Len(middle)) :
             (first \o middle)[i] = IF i <= Len(first) THEN first[i] ELSE middle[i - Len(first)]
    BY <1>3, <1>5, ConcatProperties
  <2> QED BY <1>3, <1>5, <2>1
<1>8. /\ Stages \in Seq(Sets) /\ Len(Stages) = 3 + n + 2
      /\ \A i \in 1..(3 + n + 2) :
           Stages[i] = IF i <= 3 + n THEN (first \o middle)[i] ELSE final[i - (3 + n)]
  <2> DEFINE upper == first \o middle
  <2> HIDE DEF upper
  <2>1. /\ upper \o final \in Seq(Sets)
        /\ Len(upper \o final) = Len(upper) + Len(final)
        /\ \A i \in 1..(Len(upper) + Len(final)) :
             (upper \o final)[i] = IF i <= Len(upper) THEN upper[i] ELSE final[i - Len(upper)]
    BY <1>3, <1>7, ConcatProperties DEF upper
  <2> QED BY <1>3, <1>6, <1>7, <2>1 DEF upper
<1>9. DOMAIN Stages = 1..(n + 5)
  BY <1>1, <1>8
<1>10. \A i \in 1..3 : Stages[i] = first[i]
  BY <1>1, <1>7, <1>8
<1>11. \A k \in 1..n : Stages[3 + k] = middle[k]
  <2> SUFFICES ASSUME NEW k \in 1..n
               PROVE  Stages[3 + k] = middle[k]
    OBVIOUS
  <2>1. 3 + k \in 1..(3 + n) /\ ~(3 + k <= 3) /\ (3 + k) - 3 = k
    BY <1>1
  <2>2. 3 + k \in 1..(3 + n + 2) /\ 3 + k <= 3 + n
    BY <1>1
  <2> QED BY <1>7, <1>8, <2>1, <2>2
<1>12. Stages[n + 4] = final[1] /\ Stages[n + 5] = final[2]
  <2>1. /\ n + 4 \in 1..(3 + n + 2) /\ ~(n + 4 <= 3 + n) /\ (n + 4) - (3 + n) = 1
        /\ n + 5 \in 1..(3 + n + 2) /\ ~(n + 5 <= 3 + n) /\ (n + 5) - (3 + n) = 2
    BY <1>1
  <2> QED BY <1>8, <2>1
<1> QED BY <1>1, <1>4, <1>5, <1>9, <1>10, <1>11, <1>12 DEF n

\* No event is forgotten, told twice or overtaken by a later one, whatever JS
\* does and however many events the driver raises.
THEOREM EventOrder == Spec => []EventsInOrder
<1>1. TypeInv /\ Sorted => EventsInOrder
  <2> SUFFICES ASSUME TypeOK, Sorted
               PROVE  EventsInOrder
    BY DEF TypeInv
  <2> DEFINE n == Len(queue)
  <2>1. /\ DOMAIN Stages = 1..(n + 5) /\ n \in Nat
        /\ Stages[1] = history /\ Stages[2] = mask /\ Stages[3] = handing.events
        /\ \A k \in 1..n : Stages[3 + k] = queue[n + 1 - k].events
        /\ Stages[n + 4] = calling.events /\ Stages[n + 5] = delivered
    BY StagesAre
  <2>2. DOMAIN queue = 1..n
    BY DEF TypeOK
  <2> HIDE DEF n
  <2>3. ASSUME NEW i \in DOMAIN Stages
        PROVE  \/ i = 1 \/ i = 2 \/ i = 3
               \/ i - 3 \in 1..n /\ 3 + (i - 3) = i /\ n + 1 - (i - 3) \in DOMAIN queue
               \/ i = n + 4 \/ i = n + 5
    BY <2>1, <2>2
  <2>4. ASSUME NEW i \in DOMAIN Stages, i - 3 \in 1..n, 3 + (i - 3) = i
        PROVE  Stages[i] = queue[n + 1 - (i - 3)].events
    BY <2>1, <2>4
  <2>5. \A k \in 1..n : /\ 3 + k \in DOMAIN Stages
                        /\ n + 1 - k \in 1..n /\ n + 1 - (n + 1 - k) = k
    BY <2>1
  <2>6. InQueue = UNION {Stages[3 + k] : k \in 1..n}
    <3>1. ASSUME NEW e
          PROVE  (\E k \in DOMAIN queue : e \in queue[k].events)
                   <=> \E k \in 1..n : e \in Stages[3 + k]
      BY <2>1, <2>2, <2>5
    <3> QED BY <3>1 DEF InQueue
  <2>7. UNION {Stages[i] : i \in DOMAIN Stages} = 1..raised
    <3>1. ASSUME NEW e
          PROVE  (\E i \in DOMAIN Stages : e \in Stages[i])
                   <=> e \in history \union mask \union handing.events \union InQueue \union Told
      <4>1. {1, 2, 3, n + 4, n + 5} \subseteq DOMAIN Stages
        BY <2>1
      <4>2. \A k \in 1..n : 3 + k \in DOMAIN Stages
        BY <2>5
      <4>3. ASSUME NEW i \in DOMAIN Stages, e \in Stages[i]
            PROVE  e \in history \union mask \union handing.events \union InQueue \union Told
        BY <2>1, <2>3, <2>6, <4>3 DEF Told
      <4>4. ASSUME e \in history \union mask \union handing.events \union InQueue \union Told
            PROVE  \E i \in DOMAIN Stages : e \in Stages[i]
        BY <2>1, <2>6, <4>1, <4>2, <4>4 DEF Told
      <4> QED BY <4>3, <4>4
    <3>2. UNION {Stages[i] : i \in DOMAIN Stages}
            = history \union mask \union handing.events \union InQueue \union Told
      BY <3>1
    <3> QED BY <3>2 DEF Sorted
  <2>8. ASSUME NEW i \in DOMAIN Stages, NEW j \in DOMAIN Stages, i < j,
               NEW new \in Stages[i], NEW old \in Stages[j]
        PROVE  old < new
    <3>1. \A k \in 1..n : Stages[3 + k] \subseteq InQueue
      BY <2>6
    <3>2. \/ j = 1 \/ (j = 2 /\ old \in mask) \/ (j = 3 /\ old \in handing.events)
          \/ (j - 3 \in 1..n /\ old \in InQueue)
          \/ (j = n + 4 /\ old \in calling.events) \/ (j = n + 5 /\ old \in delivered)
      BY <2>1, <2>3, <2>8, <3>1
    <3>3. CASE i = 1
      BY <2>1, <2>8, <3>2, <3>3 DEF Sorted, Over, Told
    <3>4. CASE i = 2
      BY <2>1, <2>8, <3>2, <3>4 DEF Sorted, Over, Told
    <3>5. CASE i = 3
      BY <2>1, <2>8, <3>2, <3>5 DEF Sorted, Over, Told
    <3>6. CASE i - 3 \in 1..n /\ 3 + (i - 3) = i
      <4>1. new \in InQueue
        BY <2>8, <3>1, <3>6
      <4>2. CASE j - 3 \in 1..n
        <5>1. /\ n + 1 - (j - 3) \in DOMAIN queue /\ n + 1 - (i - 3) \in DOMAIN queue
              /\ n + 1 - (j - 3) < n + 1 - (i - 3) /\ 3 + (j - 3) = j
          BY <2>1, <2>2, <2>8, <3>6, <4>2
        <5>2. /\ Stages[j] = queue[n + 1 - (j - 3)].events
              /\ Stages[i] = queue[n + 1 - (i - 3)].events
          BY <2>4, <3>6, <4>2, <5>1
        <5> QED BY <2>8, <5>1, <5>2 DEF Sorted, Over
      <4>3. CASE j = n + 4 \/ j = n + 5
        BY <2>1, <2>8, <4>1, <4>3 DEF Sorted, Over, Told
      <4>4. j \notin {1, 2, 3}
        BY <2>1, <2>8, <3>6
      <4> QED BY <2>3, <4>2, <4>3, <4>4
    <3>7. CASE i = n + 4
      <4>1. j = n + 5
        BY <2>1, <2>8, <3>7
      <4> QED BY <2>1, <2>8, <3>7, <4>1 DEF Sorted, Over
    <3>8. i # n + 5
      BY <2>1, <2>8
    <3> QED BY <2>3, <3>3, <3>4, <3>5, <3>6, <3>7, <3>8
  <2> QED BY <2>7, <2>8 DEF EventsInOrder
<1>2. TypeInv /\ Sorted /\ [Next]_vars => (TypeInv /\ Sorted)'
  BY TypeInvStep, SortedStep
<1> QED BY TypeInit, SortedInit, <1>1, <1>2, PTL DEF Spec

===============================================================================
