---------------------------- MODULE PortLifecycle ----------------------------
(***************************************************************************)
(* The life of a port and of the calls made on it, through all layers:     *)
(* the JS binding object (lib/bindings.js, lib/index.js), the addon's      *)
(* pending operations and event slots (src/addon.cc), the exported Go      *)
(* functions (go-serial/api.go) and the table of open ports (manager.go).  *)
(*                                                                         *)
(* A call runs on the JS loop thread up to the native function's return;   *)
(* then a goroutine works and completes it once; then the loop thread      *)
(* settles its promise.  What a goroutine does with the port is PortHandle *)
(* and ChunkStream; here it comes back sooner or later.                    *)
(***************************************************************************)
EXTENDS Integers, FiniteSets

CONSTANTS
  NumCalls,     \* how many calls the program makes at most
  Kinds,        \* the operations they may be
  MaxId,        \* the highest handle before idCounter wraps
  Programs      \* which programs to consider: disciplined ones, others

ASSUME LifecycleAssumption ==
  /\ Kinds \subseteq {"list", "open", "close", "read", "bufferedRead", "write",
                      "update", "set", "get", "getBaudRate", "flush", "drain"}
  /\ NumCalls \in Nat
  /\ MaxId \in Nat \ {0}
  /\ Programs \subseteq BOOLEAN

\* Calls are numbered in the order they are made.
Calls == 1..NumCalls
None == 0
Ids == 1..MaxId

VARIABLES
  disciplined,  \* the program awaits open and drain, and uses open ports only
  kind,         \* the operation of each call
  stage,        \* how far it is
  handle,       \* the handle it was given or, for an open, the one it got
  target,       \* the port its goroutine works on, named by the open of it
  op,           \* its PendingOp: "none", "registered", "taken" or "deleted"
  completions,  \* how often fsp_complete was called for it
  outcome,      \* what its promise settles with
  fd,           \* SerialBinding.fd, 0 for null
  isOpen,       \* FastSerial.isOpen
  writeOp,      \* SerialBinding.writeOperation: the last write, or None
  ports,        \* manager.ports
  idCounter,    \* manager.idCounter
  slot,         \* the events ThreadSafeFunction of each open
  watcher       \* the opens whose port has a running event watcher

callVars == <<kind, stage, handle, target, op, completions, outcome>>
jsVars == <<fd, isOpen, writeOp>>
portVars == <<ports, idCounter, slot, watcher>>
vars == <<disciplined, callVars, jsVars, portVars>>


\* The operations whose native function reads the handle before it makes the
\* PendingOp.
HandleFirst == {"read", "bufferedRead", "write", "update", "set"}

TypeOK ==
  /\ disciplined \in Programs
  /\ kind \in [Calls -> Kinds \union {"none"}]
  /\ stage \in [Calls -> {"idle", "await", "run", "start", "remove", "release",
                          "complete", "posted", "resume", "settled"}]
  /\ handle \in [Calls -> Ids \union {0}]
  /\ target \in [Calls -> Calls \union {None}]
  /\ op \in [Calls -> {"none", "registered", "taken", "deleted"}]
  /\ completions \in [Calls -> Nat]
  /\ outcome \in [Calls -> {"none", "ok", "error", "canceled", "panic"}]
  /\ fd \in Ids \union {0}
  /\ isOpen \in BOOLEAN
  /\ writeOp \in Calls \union {None}
  /\ ports \in [Ids -> Calls \union {None}]
  /\ idCounter \in 0..MaxId
  /\ slot \in [Calls -> {"none", "held", "released"}]
  /\ watcher \subseteq Calls

Init ==
  /\ disciplined \in Programs
  /\ kind = [c \in Calls |-> "none"]
  /\ stage = [c \in Calls |-> "idle"]
  /\ handle = [c \in Calls |-> 0]
  /\ target = [c \in Calls |-> None]
  /\ op = [c \in Calls |-> "none"]
  /\ completions = [c \in Calls |-> 0]
  /\ outcome = [c \in Calls |-> "none"]
  /\ fd = 0
  /\ isOpen = FALSE
  /\ writeOp = None
  /\ ports = [i \in Ids |-> None]
  /\ idCounter = 0
  /\ slot = [c \in Calls |-> "none"]
  /\ watcher = {}

-----------------------------------------------------------------------------
(* Helpers *)

Goto(c, s) == stage' = [stage EXCEPT ![c] = s]

\* fsp_complete or fsp_complete_num: takePending removes the op from g_pending,
\* resolvePending queues it for the loop thread.
Post(c, out) ==
  /\ completions' = [completions EXCEPT ![c] = @ + 1]
  /\ op' = [op EXCEPT ![c] = "taken"]
  /\ outcome' = [outcome EXCEPT ![c] = out]
  /\ Goto(c, "posted")

InFlight(c) == stage[c] \notin {"idle", "settled"}

\* The native function of call c, an operation k on handle h, to its return.
\* asHandle(null) throws: the promise is rejected at once, and a PendingOp made
\* before stays behind.  An unknown handle is reported at once; getBaudRate
\* does its work at once.
Invoke(c, k, h) ==
  /\ handle' = [handle EXCEPT ![c] = h]
  /\ IF h = 0
     THEN /\ op' = [op EXCEPT ![c] = IF k \in HandleFirst THEN "none"
                                                         ELSE "registered"]
          /\ outcome' = [outcome EXCEPT ![c] = IF k = "read" THEN "canceled" ELSE "error"]
          /\ Goto(c, "settled")
          /\ UNCHANGED <<target, completions>>
     ELSE IF ports[h] = None \/ k = "getBaudRate"
     THEN /\ Post(c, IF ports[h] = None THEN "error" ELSE "ok")
          /\ UNCHANGED target
     ELSE /\ op' = [op EXCEPT ![c] = "registered"]
          /\ target' = [target EXCEPT ![c] = ports[h]]
          /\ Goto(c, "run")
          /\ UNCHANGED <<completions, outcome>>

\* What a disciplined program may call, and when.
MayOpen == disciplined => /\ fd = 0
                          /\ \A d \in Calls : kind[d] \in {"open", "close"} => ~InFlight(d)
MayClose == disciplined => /\ fd # 0
                           /\ \A d \in Calls : stage[d] # "await"
                           /\ \A d \in Calls : kind[d] = "open" => ~InFlight(d)
MayUse == disciplined => fd # 0

-----------------------------------------------------------------------------
(* Calls, on the loop thread *)

\* The events slot is registered first; options Go cannot use are reported at
\* once and give it back.
CallOpen(c, valid) ==
  /\ stage[c] = "idle" /\ MayOpen
  /\ kind' = [kind EXCEPT ![c] = "open"]
  /\ IF valid
     THEN /\ op' = [op EXCEPT ![c] = "registered"]
          /\ Goto(c, "run")
          /\ UNCHANGED <<disciplined, completions, outcome>>
     ELSE Post(c, "error")
  /\ slot' = [slot EXCEPT ![c] = IF valid THEN "held" ELSE "released"]
  /\ UNCHANGED <<disciplined, handle, target, jsVars, ports, idCounter, watcher>>

\* Variants of CallClose: fd is forgotten too late, isOpen never.
CallCloseKeepsFd(c) ==
  /\ stage[c] = "idle" /\ MayClose
  /\ kind' = [kind EXCEPT ![c] = "close"]
  /\ isOpen' = FALSE
  /\ Invoke(c, "close", fd)
  /\ UNCHANGED <<disciplined, fd, writeOp, portVars>>

CallCloseKeepsOpen(c) ==
  /\ stage[c] = "idle" /\ MayClose
  /\ kind' = [kind EXCEPT ![c] = "close"]
  /\ fd' = 0
  /\ Invoke(c, "close", fd)
  /\ UNCHANGED <<disciplined, isOpen, writeOp, portVars>>

\* SerialBinding.close forgets fd before it calls into the addon.
CallClose(c) ==
  /\ stage[c] = "idle" /\ MayClose
  /\ kind' = [kind EXCEPT ![c] = "close"]
  /\ fd' = 0
  /\ isOpen' = FALSE
  /\ Invoke(c, "close", fd)
  /\ UNCHANGED <<disciplined, writeOp, portVars>>

\* SerialBinding.list, which needs no port.
CallList(c) ==
  /\ stage[c] = "idle"
  /\ kind' = [kind EXCEPT ![c] = "list"]
  /\ op' = [op EXCEPT ![c] = "registered"]
  /\ Goto(c, "run")
  /\ UNCHANGED <<disciplined, handle, target, completions, outcome, jsVars, portVars>>

\* The operations that hand fd to their native function and do no more.
Call(c, k) ==
  /\ stage[c] = "idle" /\ MayUse
  /\ k \in {"read", "bufferedRead", "update", "set", "get", "getBaudRate", "flush"}
  /\ kind' = [kind EXCEPT ![c] = k]
  /\ Invoke(c, k, fd)
  /\ UNCHANGED <<disciplined, jsVars, portVars>>

\* The write is remembered for drain.  Without data nothing is called.
CallWrite(c, empty) ==
  /\ stage[c] = "idle" /\ MayUse
  /\ kind' = [kind EXCEPT ![c] = "write"]
  /\ writeOp' = c
  /\ IF empty
     THEN /\ outcome' = [outcome EXCEPT ![c] = "ok"]
          /\ Goto(c, "settled")
          /\ UNCHANGED <<disciplined, handle, target, op, completions>>
     ELSE Invoke(c, "write", fd)
  /\ UNCHANGED <<disciplined, fd, isOpen, portVars>>

\* drain awaits the last write, if any; fd is read after that.
CallDrain(c) ==
  /\ stage[c] = "idle" /\ MayUse
  /\ kind' = [kind EXCEPT ![c] = "drain"]
  /\ target' = [target EXCEPT ![c] = writeOp]
  /\ Goto(c, "await")
  /\ UNCHANGED <<disciplined, handle, op, completions, outcome, jsVars, portVars>>

\* The variant of ResumeDrain a missed rejection gives.
ResumeDrainOnSuccess(c) ==
  /\ stage[c] = "await"
  /\ target[c] # None => stage[target[c]] = "settled" /\ outcome[target[c]] = "ok"
  /\ Invoke(c, "drain", fd)
  /\ UNCHANGED <<disciplined, kind, jsVars, portVars>>

\* The awaited write has settled: with an error, so does drain.
ResumeDrain(c) ==
  /\ stage[c] = "await"
  /\ target[c] # None => stage[target[c]] = "settled"
  /\ IF target[c] # None /\ outcome[target[c]] # "ok"
     THEN /\ outcome' = [outcome EXCEPT ![c] = "error"]
          /\ Goto(c, "settled")
          /\ UNCHANGED <<disciplined, handle, target, op, completions>>
     ELSE Invoke(c, "drain", fd)
  /\ UNCHANGED <<disciplined, kind, jsVars, portVars>>

-----------------------------------------------------------------------------
(* Goroutines *)

\* What neither opens nor closes a port comes back, or panics.
Work(c, out) ==
  /\ kind[c] \notin {"open", "close"} /\ stage[c] = "run"
  /\ Post(c, out)
  /\ UNCHANGED <<disciplined, kind, handle, target, jsVars, portVars>>

\* Variants of FreshId: no check for a collision; no wrapping around.
AnyId == {IF idCounter = MaxId THEN 1 ELSE idCounter + 1}
NoWrapId == {idCounter + 1}

\* The first handle after idCounter, wrapping around, that is not in use.
FreshId ==
  {i \in Ids : /\ ports[i] = None
               /\ \A j \in Ids : ports[j] = None =>
                    (i - idCounter - 1) % MaxId <= (j - idCounter - 1) % MaxId}

\* manager.Open succeeds.
OpenPort(c) ==
  /\ kind[c] = "open" /\ stage[c] = "run"
  /\ \E i \in FreshId :
       /\ ports' = [ports EXCEPT ![i] = c]
       /\ idCounter' = i
       /\ handle' = [handle EXCEPT ![c] = i]
  /\ Goto(c, "start")
  /\ UNCHANGED <<disciplined, kind, target, op, completions, outcome, jsVars, slot, watcher>>

\* The variant of OpenFails that forgets the events slot.
OpenFailsKeepsSlot(c) ==
  /\ kind[c] = "open" /\ stage[c] = "run"
  /\ Post(c, "error")
  /\ UNCHANGED <<disciplined, kind, handle, target, jsVars, portVars>>

\* The port does not open, or no handle is free.
OpenFails(c) ==
  /\ kind[c] = "open" /\ stage[c] = "run"
  /\ slot' = [slot EXCEPT ![c] = "released"]
  /\ Post(c, "error")
  /\ UNCHANGED <<disciplined, kind, handle, target, jsVars, ports, idCounter, watcher>>

\* The event watcher starts, on Windows; elsewhere the slot goes back.
StartEvents(c, starts) ==
  /\ kind[c] = "open" /\ stage[c] = "start"
  /\ IF starts
     THEN watcher' = watcher \union {c} /\ UNCHANGED slot
     ELSE slot' = [slot EXCEPT ![c] = "released"] /\ UNCHANGED watcher
  /\ Goto(c, "complete")
  /\ UNCHANGED <<disciplined, kind, handle, target, op, completions, outcome, jsVars, ports,
                 idCounter>>

\* serial.Open or StartEvents panics: autoRecover reports that.  The events slot
\* is not given back, nor is a port in the table.
OpenPanics(c) ==
  /\ kind[c] = "open" /\ stage[c] \in {"run", "start"}
  /\ Post(c, "panic")
  /\ UNCHANGED <<disciplined, kind, handle, target, jsVars, portVars>>

\* completeNum with the handle; completeErr with the result of Close.
Complete(c, out) ==
  /\ stage[c] = "complete"
  /\ kind[c] = "open" => out = "ok"
  /\ Post(c, out)
  /\ UNCHANGED <<disciplined, kind, handle, target, jsVars, portVars>>

\* portHandle.Close: the watcher is stopped, then the port closed.
ClosePort(c) ==
  /\ kind[c] = "close" /\ stage[c] = "run"
  /\ watcher' = watcher \ {target[c]}
  /\ Goto(c, "remove")
  /\ UNCHANGED <<disciplined, kind, handle, target, op, completions, outcome, jsVars, ports,
                 idCounter, slot>>

\* It panics, before or after it has stopped the watcher: autoRecover reports
\* that, and nothing is removed or released.
ClosePanics(c) ==
  /\ kind[c] = "close" /\ stage[c] = "run"
  /\ watcher' \in {watcher, watcher \ {target[c]}}
  /\ Post(c, "panic")
  /\ UNCHANGED <<disciplined, kind, handle, target, jsVars, ports, idCounter, slot>>

\* The variant of RemovePort that forgets to.
RemovePortForgotten(c) ==
  /\ stage[c] = "remove"
  /\ Goto(c, "release")
  /\ UNCHANGED <<disciplined, kind, handle, target, op, completions, outcome,
                 jsVars, portVars>>

RemovePort(c) ==
  /\ stage[c] = "remove"
  /\ ports' = [ports EXCEPT ![handle[c]] = None]
  /\ Goto(c, "release")
  /\ UNCHANGED <<disciplined, kind, handle, target, op, completions, outcome, jsVars,
                 idCounter, slot, watcher>>

\* A port without a watcher has no eventCbID: its slot went back before.
ReleaseEvent(c) ==
  /\ stage[c] = "release"
  /\ slot' = [slot EXCEPT ![target[c]] = "released"]
  /\ Goto(c, "complete")
  /\ UNCHANGED <<disciplined, kind, handle, target, op, completions, outcome, jsVars, ports,
                 idCounter, watcher>>

Goroutine(c) ==
  \/ \E out \in {"ok", "error"} : Work(c, out) \/ Complete(c, out)
  \/ OpenPort(c) \/ OpenFails(c) \/ OpenPanics(c)
  \/ \E starts \in BOOLEAN : StartEvents(c, starts)
  \/ ClosePort(c) \/ ClosePanics(c) \/ RemovePort(c) \/ ReleaseEvent(c)

-----------------------------------------------------------------------------
(* The loop thread settles *)

\* The variant of Seen that does not look.
SeenAlways(c) == IF kind[c] = "read" /\ outcome[c] # "ok" THEN "canceled"
                                                          ELSE outcome[c]

\* What the caller sees: SerialBinding.read's catch runs with the rejection of
\* its promise, and looks whether a port is open now.
Seen(c) == IF kind[c] = "read" /\ outcome[c] # "ok" /\ fd = 0 THEN "canceled"
                                                          ELSE outcome[c]

\* The promise is settled.  An open stores its handle in fd.
Tell(c) ==
  /\ stage[c] = "posted"
  /\ outcome' = [outcome EXCEPT ![c] = Seen(c)]
  /\ IF kind[c] = "open" /\ outcome[c] = "ok"
     THEN fd' = handle[c] /\ Goto(c, "resume")
     ELSE UNCHANGED fd /\ Goto(c, "settled")
  /\ UNCHANGED <<disciplined, kind, handle, target, completions, isOpen, writeOp, portVars>>

\* The variant of Settle that does not delete the op.
SettleKeepsOp(c) == Tell(c) /\ UNCHANGED op

\* resolvePending's callback settles the promise and deletes the op, and with
\* it the reference to the caller's buffer.
Settle(c) == Tell(c) /\ op' = [op EXCEPT ![c] = "deleted"]

\* FastSerial.open goes on after its await.
ResumeOpen(c) ==
  /\ stage[c] = "resume"
  /\ isOpen' = TRUE
  /\ Goto(c, "settled")
  /\ UNCHANGED <<disciplined, kind, handle, target, op, completions, outcome, fd, writeOp,
                 portVars>>

Start(c) ==
  /\ \A d \in Calls : d < c => stage[d] # "idle"
  /\ \/ "open" \in Kinds /\ \E valid \in BOOLEAN : CallOpen(c, valid)
     \/ "close" \in Kinds /\ CallClose(c)
     \/ "list" \in Kinds /\ CallList(c)
     \/ \E k \in Kinds : Call(c, k)
     \/ "write" \in Kinds /\ \E empty \in BOOLEAN : CallWrite(c, empty)
     \/ "drain" \in Kinds /\ CallDrain(c)

Progress(c) == Goroutine(c) \/ Settle(c) \/ ResumeOpen(c) \/ ResumeDrain(c)

\* The program stops making calls and all it made have settled.
Finished == (\A c \in Calls : ~InFlight(c)) /\ UNCHANGED vars

Next == (\E c \in Calls : Start(c) \/ Progress(c)) \/ Finished

Spec == Init /\ [][Next]_vars

\* Goroutines and the JS loop run, some of them at least as long as any can; port
\* operations come back.  Each step brings its call nearer to its end, so no more
\* is needed.
FairSpec == Spec /\ WF_vars(\E c \in Calls : Progress(c))

-----------------------------------------------------------------------------
(* Properties *)

\* Go has the call: its PendingOp, and the reference to the caller's buffer in
\* it, must be there.
InGo == {"run", "start", "remove", "release", "complete"}

\* A PendingOp "holds everything needed to resolve one in-flight operation"
\* (addon.cc:55): it is registered from before Go may complete the call, or
\* touch its buffer, until Go does, is completed once, and does not outlive
\* the call.
OpsMatchCalls ==
  \A c \in Calls :
    /\ op[c] = "registered" <=> stage[c] \in InGo
    /\ op[c] = "taken" <=> stage[c] = "posted"
    /\ completions[c] <= 1

\* So it is, as long as no call is made without an open port.
DisciplinedOpsMatchCalls == disciplined => OpsMatchCalls

\* Some close of the port that c opened is at one of the places.
ClosingAt(c, places) ==
  \E d \in Calls : kind[d] = "close" /\ target[d] = c /\ stage[d] \in places

\* The open c, or some close of its port, panicked.
Panicked(c) ==
  \/ outcome[c] = "panic"
  \/ \E d \in Calls : kind[d] = "close" /\ target[d] = c /\ outcome[d] = "panic"

\* The events slot outlives the watcher that emits into it, and is given back
\* with the port, or at once if no port or no watcher came to be; only a panic
\* keeps it.
EventSlotReleased ==
  \A c \in Calls :
    /\ c \in watcher => slot[c] = "held"
    /\ slot[c] = "held" =>
         \/ InFlight(c)
         \/ c \in watcher
         \/ ClosingAt(c, {"remove", "release"})
         \/ Panicked(c)

\* An open port stays in the table, under the handle its open returned, until a
\* close of that very port removes it: no other open or close disturbs it.
PortsRegistered ==
  \A c \in Calls :
    /\ kind[c] = "open" /\ handle[c] # 0
    /\ ~ClosingAt(c, {"release", "complete", "posted", "settled"})
    => ports[handle[c]] = c

\* No port of a disciplined program is open behind its back: fd names it, or a
\* close of it is under way, unless one panicked.
PortsReachable ==
  disciplined =>
    \A i \in Ids : ports[i] # None /\ ~InFlight(ports[i]) =>
      \/ fd = i
      \/ ClosingAt(ports[i], {"run", "remove"})
      \/ Panicked(ports[i])

\* FastSerial.isOpen, set by open after its await and reset by close, never
\* claims a port that is gone.
IsOpenAgrees == disciplined /\ isOpen => fd # 0

\* Close has been called for the port that call c was made on.
ClosedFor(c) == \E d \in Calls : kind[d] = "close" /\ target[d] = target[c]

\* A read is reported as canceled only if its port had been closed: a failure
\* of an open port is never mistaken for that.
CanceledMeansClosed ==
  disciplined => \A c \in Calls : outcome[c] = "canceled" => ClosedFor(c)

\* A read that fails after its port was closed is reported as canceled, unless
\* another open has replaced fd meanwhile.
CloseCancels ==
  [][\A c \in Calls :
       kind[c] = "read" /\ stage[c] = "posted" /\ stage'[c] = "settled"
         /\ outcome'[c] \notin {"ok", "canceled"}
       => \/ ~ClosedFor(c)
          \/ \E d \in Calls : /\ kind[d] = "open" /\ d > c
                             /\ stage[d] \in {"resume", "settled"} /\ outcome[d] = "ok"]_vars

\* Every call that is made settles, with the port open, closed or never opened:
\* calls being finitely many, again and again none is in flight.
EveryCallSettles == []<>(\A c \in Calls : ~InFlight(c))

===============================================================================
