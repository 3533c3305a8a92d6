----------------------------- MODULE EventWatcher -----------------------------
(***************************************************************************)
(* The comm events of one port on Windows: the goroutine that waits for    *)
(* them (events_windows.go), the bounded queue to the JS callback          *)
(* (fsp_emit_event in src/addon.cc) and the close of the port, which stops *)
(* the watcher, closes the port and releases the callback slot (serial.go, *)
(* api.go).                                                                *)
(*                                                                         *)
(* The driver (external) remembers events between two waits and reports    *)
(* them together; here they are numbered as they are raised, and a report  *)
(* is the set of events it stands for, or an error.                        *)
(***************************************************************************)
EXTENDS AsyncLoop, FiniteSets, FiniteSetsExt

CONSTANTS
  Depth,        \* kEventQueueDepth
  MaxEvents,    \* events the driver ever raises (bounds the behaviour)
  MaxErrors,    \* failed or empty waits after which the watcher goes on
  StaysBroken   \* the device may be one whose waits go on failing for ever

ASSUME WatcherAssumption ==
  /\ Depth \in Nat \ {0}
  /\ MaxEvents \in Nat /\ MaxErrors \in Nat
  /\ StaysBroken \in BOOLEAN

VARIABLES
  pc,         \* where run is
  last,       \* the report in hand is an error after which run returns
  overlapped, \* the wait: "none", "pending", or how it completed
  mask,       \* the events a completed wait reports: evtMask
  history,    \* the events the driver remembers for the next wait
  raised,     \* how many events there have been
  errors,     \* how many waits failed or reported nothing
  reports,    \* how many reports went to the queue, up to Quota + 1
  handing,    \* the report fsp_emit_event holds, not queued yet
  queue,      \* the reports in the events ThreadSafeFunction
  calling,    \* the report whose JS callback the loop runs
  delivered,  \* the events JS was told of
  closer,     \* where fsp_close_async is
  stopEvent,  \* the watcher's stop event: "none", "reset", "set", "closed"
  portOpen,   \* the port's handle is open
  slot,       \* the events ThreadSafeFunction is in g_tsfns
  posted,     \* the close's completion is in its ThreadSafeFunction
  resolved    \* the promise of close is settled

driverVars == <<overlapped, mask, history, raised, errors>>
emitVars == <<last, reports, handing>>
jsVars == <<queue, calling, delivered>>
closeVars == <<closer, stopEvent, portOpen, slot, posted, resolved>>
vars == <<asyncVars, pc, driverVars, emitVars, jsVars, closeVars>>

Handles == {"events", "done"}
Events == 1..MaxEvents
Report == [kind : {"event", "error"}, events : SUBSET Events]
Nothing == [kind |-> "none", events |-> {}]
Failure == [kind |-> "error", events |-> {}]

TypeOK ==
  /\ LoopTypeOK(Handles)
  /\ pc \in {"start", "setMask", "wait", "waiting", "emit", "push", "done"}
  /\ last \in BOOLEAN
  /\ overlapped \in {"none", "pending", "event", "error", "fatal"}
  /\ mask \subseteq Events /\ history \subseteq Events
  /\ raised \in 0..MaxEvents
  /\ errors \in 0..MaxErrors
  /\ reports \in 0..(Quota + 1)
  /\ handing \in Report \union {Nothing}
  /\ calling \in Report \union {Nothing}
  /\ queue \in Seq(Report) /\ Len(queue) <= Depth
  /\ delivered \subseteq Events
  /\ closer \in {"opening", "open", "stop", "join", "release", "complete", "done"}
  /\ stopEvent \in {"none", "reset", "set", "closed"}
  /\ portOpen \in BOOLEAN /\ slot \in BOOLEAN
  /\ posted \in BOOLEAN /\ resolved \in BOOLEAN

\* The port is open and its events slot registered; fsp_open_async is about to
\* start the watcher.
Init ==
  /\ LoopInit
  /\ pc = "start"
  /\ last = FALSE
  /\ overlapped = "none"
  /\ mask = {} /\ history = {}
  /\ raised = 0 /\ errors = 0 /\ reports = 0
  /\ handing = Nothing /\ calling = Nothing
  /\ queue = <<>>
  /\ delivered = {}
  /\ closer = "opening"
  /\ stopEvent = "none"
  /\ portOpen = TRUE /\ slot = TRUE
  /\ posted = FALSE /\ resolved = FALSE

-----------------------------------------------------------------------------
(* The driver *)

\* A line changes.  A pending wait completes with it; otherwise the driver
\* remembers it, once SetCommMask has asked for it.
Raise ==
  /\ raised < MaxEvents
  /\ pc \notin {"start", "setMask"}
  /\ raised' = raised + 1
  /\ IF overlapped = "pending"
     THEN /\ overlapped' = "event"
          /\ mask' = {raised + 1}
          /\ UNCHANGED history
     ELSE /\ history' = history \union {raised + 1}
          /\ UNCHANGED <<overlapped, mask>>
  /\ UNCHANGED <<asyncVars, pc, errors, emitVars, jsVars, closeVars>>

\* One more wait that fails, or reports nothing, without ending the watcher.
MayErr == errors < MaxErrors \/ StaysBroken
OneMoreError == errors' = IF errors < MaxErrors THEN errors + 1 ELSE errors

\* A pending wait completes with an error, or without an event.
WaitEnds(how) ==
  /\ overlapped = "pending"
  /\ IF how = "fatal" THEN UNCHANGED errors ELSE MayErr /\ OneMoreError
  /\ overlapped' = how
  /\ UNCHANGED <<asyncVars, pc, mask, history, raised, emitVars, jsVars,
                 closeVars>>

Driver == Raise \/ \E how \in {"event", "error", "fatal"} : WaitEnds(how)

-----------------------------------------------------------------------------
(* The watcher *)

\* startEventWatcher, called by fsp_open_async before it reports the open.
\* Without a watcher - on other systems, or when the port handle cannot be
\* reached - the slot goes back at once and there is nothing to stop.
Start(starts) ==
  /\ closer = "opening"
  /\ closer' = "open"
  /\ IF starts
     THEN /\ pc' = "setMask"
          /\ stopEvent' = "reset"
          /\ UNCHANGED <<asyncVars, slot>>
     ELSE /\ pc' = "done"
          /\ slot' = FALSE
          /\ Signal("events")
          /\ UNCHANGED stopEvent
  /\ UNCHANGED <<driverVars, emitVars, jsVars, portOpen, posted, resolved>>

SetMask ==
  /\ pc = "setMask"
  /\ pc' = "wait"
  /\ UNCHANGED <<asyncVars, driverVars, emitVars, jsVars, closeVars>>

\* To emit a report, and return after it or go on with the loop.
Have(report, isLast) ==
  /\ handing' = report
  /\ last' = isLast
  /\ pc' = "emit"
  /\ UNCHANGED reports

\* SetCommMask, CreateEvent, WaitCommEvent or WaitForMultipleObjects fails:
\* an error is reported.  isFatal decides whether WaitCommEvent's was the last;
\* after the others run returns.
CallFails(isLast) ==
  /\ \/ isLast /\ pc \in {"setMask", "wait", "waiting"} /\ UNCHANGED errors
     \/ ~isLast /\ pc = "wait" /\ MayErr /\ OneMoreError
  /\ Have(Failure, isLast)
  /\ overlapped' = "none"
  /\ UNCHANGED <<asyncVars, mask, history, raised, jsVars, closeVars>>

\* WaitCommEvent with events to report completes at once, and the stop event is
\* not looked at.
WaitAtOnce ==
  /\ pc = "wait" /\ history # {}
  /\ Have([kind |-> "event", events |-> history], FALSE)
  /\ history' = {}
  /\ UNCHANGED <<asyncVars, overlapped, mask, raised, errors, jsVars,
                 closeVars>>

\* ERROR_IO_PENDING.
WaitPending ==
  /\ pc = "wait" /\ history = {}
  /\ overlapped' = "pending"
  /\ pc' = "waiting"
  /\ UNCHANGED <<asyncVars, mask, history, raised, errors, emitVars, jsVars,
                 closeVars>>

\* hEvent is signalled, first in the array: the result is taken even if the
\* stop event is signalled too.  An empty mask is not reported.
Collect ==
  /\ pc = "waiting" /\ overlapped \in {"event", "error", "fatal"}
  /\ IF overlapped = "event" /\ mask = {}
     THEN pc' = "wait" /\ UNCHANGED emitVars
     ELSE Have(IF overlapped = "event" THEN [kind |-> "event", events |-> mask]
                                       ELSE Failure,
               overlapped = "fatal")
  /\ overlapped' = "none"
  /\ mask' = {}
  /\ UNCHANGED <<asyncVars, history, raised, errors, jsVars, closeVars>>

\* The variant of StopSeen that leaves only the wait, not the loop.
StopSeenContinues ==
  /\ pc = "waiting" /\ overlapped = "pending" /\ stopEvent = "set"
  /\ overlapped' = "none"
  /\ pc' = "wait"
  /\ UNCHANGED <<asyncVars, mask, history, raised, errors, emitVars, jsVars,
                 closeVars>>

\* Only the stop event is signalled: CancelIoEx, and run returns.
StopSeen ==
  /\ pc = "waiting" /\ overlapped = "pending" /\ stopEvent = "set"
  /\ overlapped' = "none"
  /\ pc' = "done"
  /\ UNCHANGED <<asyncVars, mask, history, raised, errors, emitVars, jsVars,
                 closeVars>>

\* What run does when emit comes back.
Emitted == pc' = IF last THEN "done" ELSE "wait"

\* fsp_emit_event looks the slot up; without one the report is dropped.
Emit ==
  /\ pc = "emit"
  /\ IF slot
     THEN pc' = "push" /\ UNCHANGED handing
     ELSE Emitted /\ handing' = Nothing
  /\ UNCHANGED <<asyncVars, last, reports, driverVars, jsVars, closeVars>>

\* The report is out of the watcher's hands, the queue is q.
Handoff(q) ==
  /\ pc = "push"
  /\ queue' = q
  /\ reports' = IF reports > Quota THEN reports ELSE reports + 1
  /\ handing' = Nothing
  /\ Emitted
  /\ UNCHANGED <<last, driverVars, calling, delivered, closeVars>>

\* Variants of Push: a queue that is full takes nothing (NonBlockingCall); the
\* loop is not woken; the queue has no bound.
PushOrDrop ==
  /\ Handoff(IF Len(queue) < Depth THEN Append(queue, handing) ELSE queue)
  /\ Signal("events")

PushSilent ==
  /\ Len(queue) < Depth
  /\ Handoff(Append(queue, handing))
  /\ UNCHANGED asyncVars

PushUnbounded == Handoff(Append(queue, handing)) /\ Signal("events")

\* BlockingCall: the watcher is parked here while the queue is full.
Push ==
  /\ Len(queue) < Depth
  /\ Handoff(Append(queue, handing))
  /\ Signal("events")

Watcher ==
  \/ SetMask \/ WaitAtOnce \/ WaitPending \/ Collect \/ StopSeen
  \/ Emit \/ Push

WatcherFails == \E isLast \in BOOLEAN : CallFails(isLast)

-----------------------------------------------------------------------------
(* The close, a goroutine of its own *)

CallClose ==
  /\ closer = "open"
  /\ closer' = "stop"
  /\ UNCHANGED <<asyncVars, pc, driverVars, emitVars, jsVars, stopEvent,
                 portOpen, slot, posted, resolved>>

\* Stop sets the event, if there is a watcher.
SetStop ==
  /\ closer = "stop"
  /\ stopEvent' = IF stopEvent = "reset" THEN "set" ELSE stopEvent
  /\ closer' = "join"
  /\ UNCHANGED <<asyncVars, pc, driverVars, emitVars, jsVars, portOpen, slot,
                 posted, resolved>>

\* The variant of ClosePort that does not wait for the watcher.
ClosePortAtOnce ==
  /\ closer = "join"
  /\ stopEvent' = IF stopEvent = "set" THEN "closed" ELSE stopEvent
  /\ portOpen' = FALSE
  /\ closer' = "release"
  /\ UNCHANGED <<asyncVars, pc, driverVars, emitVars, jsVars, slot, posted,
                 resolved>>

\* run has closed `done`: the stop event is closed, then the port, with
\* whatever result.
ClosePort ==
  /\ closer = "join" /\ pc = "done"
  /\ stopEvent' = IF stopEvent = "set" THEN "closed" ELSE stopEvent
  /\ portOpen' = FALSE
  /\ closer' = "release"
  /\ UNCHANGED <<asyncVars, pc, driverVars, emitVars, jsVars, slot, posted,
                 resolved>>

\* releaseTsfn; Release wakes the loop, to empty the queue and close it.
ReleaseEvent ==
  /\ closer = "release"
  /\ slot' = FALSE
  /\ IF slot THEN Signal("events") ELSE UNCHANGED asyncVars
  /\ closer' = "complete"
  /\ UNCHANGED <<pc, driverVars, emitVars, jsVars, stopEvent, portOpen, posted,
                 resolved>>

Complete ==
  /\ closer = "complete"
  /\ posted' = TRUE
  /\ Signal("done")
  /\ closer' = "done"
  /\ UNCHANGED <<pc, driverVars, emitVars, jsVars, stopEvent, portOpen, slot,
                 resolved>>

Closer == SetStop \/ ClosePort \/ ReleaseEvent \/ Complete

-----------------------------------------------------------------------------
(* The loop thread *)

LookAround ==
  /\ Visit
  /\ UNCHANGED <<pc, driverVars, emitVars, jsVars, closeVars>>

Pop ==
  /\ calling = Nothing /\ queue # <<>>
  /\ Take("events")
  /\ calling' = Head(queue)
  /\ queue' = Tail(queue)
  /\ UNCHANGED <<pc, driverVars, emitVars, delivered, closeVars>>

\* eventsCallback(null, {event}) or eventsCallback(Error, {errorCode}).
Deliver ==
  /\ calling # Nothing
  /\ delivered' = delivered \union calling.events
  /\ calling' = Nothing
  /\ UNCHANGED <<asyncVars, pc, driverVars, emitVars, queue, closeVars>>

EndEvents ==
  /\ calling = Nothing
  /\ EndDispatch("events", queue # <<>>)
  /\ UNCHANGED <<pc, driverVars, emitVars, jsVars, closeVars>>

Resolve ==
  /\ posted
  /\ EndDispatch("done", FALSE)
  /\ posted' = FALSE
  /\ resolved' = TRUE
  /\ UNCHANGED <<pc, driverVars, emitVars, jsVars, closer, stopEvent, portOpen,
                 slot>>

Loop == LookAround \/ Pop \/ Deliver \/ EndEvents \/ Resolve

-----------------------------------------------------------------------------

\* The port is closed, or stays open with nothing going on.
Quiet == (resolved \/ closer = "open") /\ Idle /\ UNCHANGED vars

Next ==
  \/ Driver \/ Watcher \/ WatcherFails \/ CallClose \/ Closer \/ Loop \/ Quiet
  \/ \E starts \in BOOLEAN : Start(starts)

Spec == Init /\ [][Next]_vars

\* The goroutines of watcher and close are scheduled and the program does not
\* block the JS loop.  The device need not do anything, no call need fail and
\* the program need not close.
FairSpec == Spec /\ WF_vars(Watcher) /\ WF_vars(Closer) /\ WF_vars(Loop)

-----------------------------------------------------------------------------
(* Properties *)

WatcherRuns == pc \notin {"start", "done"}

\* While the watcher runs, what it uses is there: the port's handle - "so its
\* pending WaitCommEvent is cancelled against a still-valid handle"
\* (serial.go:82) - the stop event it waits for, and its callback slot.
HandlesStayValid ==
  WatcherRuns => portOpen /\ stopEvent \in {"reset", "set"} /\ slot

\* "No event can fire after close" (serial.go:83): when close's promise settles
\* the callback has been called for every report and will not be again, as long
\* as all reports fit one dispatch of the events queue.
NoEventAfterClose ==
  resolved /\ reports <= Quota
    => ~WatcherRuns /\ queue = <<>> /\ calling = Nothing

\* Where an event may be, from the driver to JS.
Stages == <<history, mask, handing.events>>
            \o [i \in DOMAIN queue |-> queue[Len(queue) + 1 - i].events]
            \o <<calling.events, delivered>>

\* No event is forgotten, reported twice or overtaken by a later one, however
\* slow JS is: the driver's memory, the overlapped wait and the bounded queue
\* pass them on in order.
EventsInOrder ==
  /\ UNION {Stages[i] : i \in DOMAIN Stages} = 1..raised
  /\ \A i, j \in DOMAIN Stages : i < j =>
       \A new \in Stages[i], old \in Stages[j] : old < new

\* An event the driver raised reaches JS, unless the watcher ends first: it was
\* stopped, or an error ended it.
EventReported ==
  \A n \in Events : raised >= n ~> n \in delivered \/ pc = "done"

\* "Stop signals the watcher loop and waits for it to exit"
\* (events_windows.go:73): a close settles, even with the watcher parked on a
\* full queue.
CloseSettles == closer = "stop" ~> resolved

===============================================================================
