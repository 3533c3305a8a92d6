-------------------------- MODULE PortLifecycleProofs --------------------------
(***************************************************************************)
(* What a port, its events slot and the calls made on it keep to, for any  *)
(* number of calls and handles and any program.  The parts of the          *)
(* inductive invariant:                                                    *)
(*   EachCall  nothing is kept for a call that was not made (Fresh);       *)
(*             where each operation may be (Place); its PendingOp is there *)
(*             while Go has the call (Pending); which opens have a handle  *)
(*             (Opened);                                                   *)
(*   Table     the table holds opens, under their handles;                 *)
(*   Closes    a close works on the port of one open, which no other       *)
(*             close works on;                                             *)
(*   FdOpen    fd names a port that no close works on;                     *)
(*   Watchers, Slots  what holds an events slot;                           *)
(*   Alone, OnOpenPort, Reachable, Reads  what a disciplined program adds. *)
(***************************************************************************)
EXTENDS PortLifecycle, TLAPS

Fresh(c) ==
  stage[c] = "idle" =>
    /\ kind[c] = "none" /\ handle[c] = 0 /\ target[c] = None
    /\ op[c] = "none" /\ completions[c] = 0 /\ outcome[c] = "none"
    /\ slot[c] = "none" /\ c \notin watcher

Place(c) ==
  /\ kind[c] = "none" => stage[c] = "idle"
  /\ stage[c] \in {"start", "resume"} => kind[c] = "open"
  /\ stage[c] \in {"remove", "release"} => kind[c] = "close"
  /\ stage[c] = "complete" => kind[c] \in {"open", "close"}
  /\ stage[c] = "await" => kind[c] = "drain"
  /\ stage[c] \in InGo \union {"await"} => outcome[c] = "none"
  /\ outcome[c] = "canceled" => kind[c] = "read" /\ stage[c] = "settled"

Pending(c) ==
  /\ stage[c] \in InGo => op[c] = "registered"
  /\ op[c] = "taken" <=> stage[c] = "posted"
  /\ stage[c] \in InGo \union {"await"} => completions[c] = 0
  /\ completions[c] <= 1

\* Only an open that went well, or panicked after it had a port, has a handle.
Opened(c) ==
  kind[c] = "open" =>
    /\ handle[c] # 0 => \/ stage[c] \in {"start", "complete", "resume"}
                        \/ stage[c] \in {"posted", "settled"} /\ outcome[c] \in {"ok", "panic"}
    /\ stage[c] \in {"start", "complete", "resume"} \/ outcome[c] = "ok" => handle[c] # 0
    /\ stage[c] = "resume" => outcome[c] = "ok"

EachCall == \A c \in Calls : Fresh(c) /\ Place(c) /\ Pending(c) /\ Opened(c)

Table == \A i \in Ids : ports[i] # None => kind[ports[i]] = "open" /\ handle[ports[i]] = i

\* The open c is one the program was told of, or is about to resume.
Told(c) == kind[c] = "open" /\ stage[c] \in {"resume", "settled"} /\ outcome[c] = "ok"

ClosesOne(d) ==
  kind[d] = "close" =>
    /\ stage[d] \in InGo => target[d] # None
    /\ target[d] # None =>
         /\ Told(target[d]) /\ handle[target[d]] = handle[d]
         /\ stage[d] \in {"remove", "release"} => target[d] \notin watcher
         /\ \A e \in Calls : kind[e] = "close" /\ target[e] = target[d] => e = d

Closes == \A d \in Calls : ClosesOne(d)

\* No close of the port that c opened was ever called.
NeverClosed(c) == \A d \in Calls : kind[d] = "close" => target[d] # c

\* A port is not closed before its open settles; and close forgets fd.
FdOpen ==
  fd # 0 => /\ ports[fd] # None /\ Told(ports[fd]) /\ NeverClosed(ports[fd])

Watchers ==
  \A c \in watcher :
    /\ kind[c] = "open" /\ slot[c] = "held"
    /\ stage[c] \in {"complete", "posted", "resume", "settled"}

Slots ==
  /\ \A c \in Calls : kind[c] = "open" /\ stage[c] \in {"run", "start"} => slot[c] = "held"
  /\ \A c \in Calls : slot[c] = "held" =>
       /\ kind[c] = "open"
       /\ \/ stage[c] \in {"run", "start"}
          \/ c \in watcher
          \/ ClosingAt(c, {"remove", "release"})
          \/ Panicked(c)

\* Calls are made in order.
InTurn == \A c, d \in Calls : c < d /\ stage[c] = "idle" => stage[d] = "idle"

LifeInv ==
  /\ TypeOK /\ EachCall /\ Table /\ Closes /\ PortsRegistered
  /\ FdOpen /\ Watchers /\ Slots /\ InTurn

Opening(c) == kind[c] = "open" /\ InFlight(c)

\* An open is alone with its port while it is in flight.
Alone ==
  \A c \in Calls : Opening(c) =>
    /\ \A d \in Calls : Opening(d) => d = c
    /\ \A d \in Calls : kind[d] = "close" => ~InFlight(d)
    /\ fd = IF stage[c] = "resume" THEN handle[c] ELSE 0

\* Calls are made on an open port.
OnOpenPort ==
  /\ isOpen => fd # 0
  /\ \A c \in Calls : stage[c] = "await" => fd # 0
  /\ \A c \in Calls : op[c] = "registered" => stage[c] \in InGo

\* A port the program was told of is the one of fd, unless it is being closed.
Reachable ==
  \A i \in Ids : ports[i] # None /\ stage[ports[i]] \in {"resume", "settled"} =>
    \/ fd = i
    \/ ClosingAt(ports[i], {"run", "remove"})
    \/ Panicked(ports[i])

\* A read is made on the port of fd; when fd is another, that port was closed,
\* and the open of the other came after the read.
Reads ==
  \A c \in Calls : kind[c] = "read" =>
    /\ target[c] # None
    /\ (fd # 0 /\ ports[fd] = target[c]) \/ ClosedFor(c)
    /\ fd # 0 => ports[fd] = target[c] \/ c < ports[fd]
    /\ \A d \in Calls : Opening(d) /\ stage[d] # "resume" => c < d
    /\ outcome[c] = "canceled" => ClosedFor(c)

Inv == LifeInv /\ (disciplined => Alone /\ OnOpenPort /\ Reachable /\ Reads)

-----------------------------------------------------------------------------

LEMMA Numbers == 0 \notin Calls /\ 0 \notin Ids /\ Calls \subseteq Nat /\ Ids \subseteq Int
BY LifecycleAssumption DEF Calls, Ids

\* A step is one of one call, or of none.
LEMMA StepIsOfCall ==
  ASSUME [Next]_vars
  PROVE  UNCHANGED vars \/ \E c \in Calls : Start(c) \/ Progress(c)
BY DEF Next, Finished

\* A step of one call leaves what is kept for the others.
LEMMA Others ==
  ASSUME TypeOK, NEW c \in Calls, Start(c) \/ Progress(c), NEW d \in Calls, d # c
  PROVE  /\ kind'[d] = kind[d] /\ stage'[d] = stage[d] /\ handle'[d] = handle[d]
         /\ target'[d] = target[d] /\ op'[d] = op[d] /\ completions'[d] = completions[d]
         /\ outcome'[d] = outcome[d]
<1>1. CASE Start(c)
  BY <1>1 DEF TypeOK, Start, CallOpen, CallClose, CallList, Call, CallWrite, CallDrain, Invoke,
              Post, Goto
<1>2. CASE Settle(c) \/ ResumeOpen(c) \/ ResumeDrain(c)
  BY <1>2 DEF TypeOK, Settle, Tell, ResumeOpen, ResumeDrain, Invoke, Post, Goto
<1>3. CASE Goroutine(c)
  BY <1>3 DEF TypeOK, Goroutine, Work, Complete, OpenPort, OpenFails, OpenPanics, StartEvents,
              ClosePort, ClosePanics, RemovePort, ReleaseEvent, Post, Goto
<1> QED BY <1>1, <1>2, <1>3 DEF Progress

-----------------------------------------------------------------------------
(* Types *)

LEMMA TypeStart ==
  ASSUME TypeOK, NEW c \in Calls, Start(c)
  PROVE  TypeOK'
<1> USE Numbers DEF TypeOK, Goto, None
<1>1. ASSUME NEW valid \in BOOLEAN, "open" \in Kinds, CallOpen(c, valid)
      PROVE  TypeOK'
  BY <1>1 DEF CallOpen, Post, jsVars
<1>2. CASE "close" \in Kinds /\ CallClose(c)
  <2>1. isOpen' \in BOOLEAN
    BY <1>2 DEF CallClose
  <2> QED BY <1>2, <2>1 DEF CallClose, Invoke, Post, portVars
<1>3. CASE "list" \in Kinds /\ CallList(c)
  BY <1>3 DEF CallList, jsVars, portVars
<1>4. ASSUME NEW k \in Kinds, Call(c, k)
      PROVE  TypeOK'
  BY <1>4 DEF Call, Invoke, Post, jsVars, portVars
<1>5. ASSUME NEW empty \in BOOLEAN, "write" \in Kinds, CallWrite(c, empty)
      PROVE  TypeOK'
  BY <1>5 DEF CallWrite, Invoke, Post, portVars
<1>6. CASE "drain" \in Kinds /\ CallDrain(c)
  BY <1>6 DEF CallDrain, jsVars, portVars
<1> QED BY <1>1, <1>2, <1>3, <1>4, <1>5, <1>6 DEF Start

LEMMA TypeProgress ==
  ASSUME TypeOK, NEW c \in Calls, Progress(c)
  PROVE  TypeOK'
<1> USE Numbers DEF TypeOK, Goto, Post, jsVars, portVars
<1>1. ASSUME NEW out \in {"ok", "error"}, Work(c, out)
      PROVE  TypeOK'
  BY <1>1 DEF Work
<1>2. ASSUME NEW out \in {"ok", "error"}, Complete(c, out)
      PROVE  TypeOK'
  BY <1>2 DEF Complete
<1>3. CASE OpenPort(c)
  BY <1>3, LifecycleAssumption DEF OpenPort, FreshId, Ids
<1>4. CASE OpenFails(c)
  BY <1>4 DEF OpenFails
<1>5. CASE OpenPanics(c)
  BY <1>5 DEF OpenPanics
<1>6. ASSUME NEW starts \in BOOLEAN, StartEvents(c, starts)
      PROVE  TypeOK'
  BY <1>6 DEF StartEvents
<1>7. CASE ClosePort(c)
  BY <1>7 DEF ClosePort
<1>8. CASE ClosePanics(c)
  BY <1>8 DEF ClosePanics
<1>9. CASE RemovePort(c)
  BY <1>9 DEF RemovePort, None
<1>10. CASE ReleaseEvent(c)
  BY <1>10 DEF ReleaseEvent, None
<1>11. CASE Settle(c)
  BY <1>11 DEF Settle, Tell, Seen
<1>12. CASE ResumeOpen(c)
  BY <1>12 DEF ResumeOpen
<1>13. CASE ResumeDrain(c)
  BY <1>13 DEF ResumeDrain, Invoke
<1> QED
  BY <1>1, <1>2, <1>3, <1>4, <1>5, <1>6, <1>7, <1>8, <1>9, <1>10, <1>11, <1>12, <1>13
  DEF Progress, Goroutine

LEMMA TypeStep == TypeOK /\ [Next]_vars => TypeOK'
<1> SUFFICES ASSUME TypeOK, [Next]_vars
             PROVE  TypeOK'
  OBVIOUS
<1>1. CASE UNCHANGED vars
  BY <1>1 DEF TypeOK, vars, callVars, jsVars, portVars
<1>2. CASE \E c \in Calls : Start(c) \/ Progress(c)
  BY <1>2, TypeStart, TypeProgress
<1> QED BY <1>1, <1>2, StepIsOfCall

LEMMA TypeInit == Init => TypeOK
<1> SUFFICES ASSUME Init
             PROVE  TypeOK
  OBVIOUS
<1>1. isOpen \in BOOLEAN
  BY DEF Init
<1> QED BY <1>1, LifecycleAssumption DEF Init, TypeOK, None

\* The variables of calls, of the JS objects and of the table stay within their
\* types; handles within 1..MaxId.
THEOREM TypeCorrect == Spec => []TypeOK
BY TypeInit, TypeStep, PTL DEF Spec


-----------------------------------------------------------------------------
(* Each call by itself *)

LEMMA EachStart ==
  ASSUME TypeOK, EachCall, Watchers, Closes, NEW c \in Calls, Start(c)
  PROVE  EachCall'
<1> DEFINE Each(d) == Fresh(d) /\ Place(d) /\ Pending(d) /\ Opened(d)
<1>1. Fresh(c) /\ Place(c) /\ Pending(c) /\ Opened(c)
  BY DEF EachCall
<1>2. ASSUME NEW d \in Calls, d # c
      PROVE  (slot'[d] = slot[d] /\ watcher' = watcher) /\ Each(d)'
  <2>1. slot'[d] = slot[d] /\ watcher' = watcher
    BY <1>2 DEF TypeOK, Start, CallOpen, CallClose, CallList, Call, CallWrite, CallDrain, portVars
  <2>2. Each(d)
    BY DEF EachCall
  <2> QED BY <1>2, <2>1, <2>2, Others DEF Fresh, Place, Pending, Opened
<1> USE Numbers DEF TypeOK, Fresh, Place, Pending, Opened, Goto, InGo, None
<1>3. ASSUME NEW valid \in BOOLEAN, CallOpen(c, valid)
      PROVE  Each(c)'
  BY <1>1, <1>3 DEF CallOpen, Post
<1>4. ASSUME CallClose(c)
      PROVE  Each(c)'
  BY <1>1, <1>4 DEF CallClose, Invoke, Post, portVars
<1>5. ASSUME CallList(c)
      PROVE  Each(c)'
  BY <1>1, <1>5 DEF CallList, portVars
<1>6. ASSUME NEW k \in Kinds, Call(c, k)
      PROVE  Each(c)'
  BY <1>1, <1>6 DEF Call, Invoke, Post, portVars
<1>7. ASSUME NEW empty \in BOOLEAN, CallWrite(c, empty)
      PROVE  Each(c)'
  BY <1>1, <1>7 DEF CallWrite, Invoke, Post, portVars
<1>8. ASSUME CallDrain(c)
      PROVE  Each(c)'
  BY <1>1, <1>8 DEF CallDrain, portVars
<1>9. Each(c)'
  BY <1>3, <1>4, <1>5, <1>6, <1>7, <1>8 DEF Start
<1> HIDE DEF Each
<1>10. \A d \in Calls : Each(d)'
  BY <1>2, <1>9
<1> QED BY <1>10 DEF EachCall, Each

LEMMA EachProgress ==
  ASSUME TypeOK, EachCall, Watchers, Closes, NEW c \in Calls, Progress(c)
  PROVE  EachCall'
<1> DEFINE Each(d) == Fresh(d) /\ Place(d) /\ Pending(d) /\ Opened(d)
<1>1. Fresh(c) /\ Place(c) /\ Pending(c) /\ Opened(c)
  BY DEF EachCall
<1>2. ASSUME NEW d \in Calls, d # c
      PROVE  Each(d)'
  <2>1. Each(d)
    BY DEF EachCall
  <2>2. stage[d] = "idle" => slot'[d] = slot[d] /\ (d \in watcher' <=> d \in watcher)
    <3>1. CASE \E starts \in BOOLEAN : StartEvents(c, starts)
      BY <1>2, <3>1 DEF StartEvents, TypeOK
    <3>2. CASE ClosePort(c) \/ ClosePanics(c)
      BY <3>2, <2>1 DEF ClosePort, ClosePanics, Fresh
    <3>3. CASE ReleaseEvent(c)
      <4>1. target[c] # d \/ stage[d] # "idle"
        BY <3>3, <1>1 DEF ReleaseEvent, Closes, ClosesOne, Told, Place, None, InGo
      <4> QED BY <3>3, <4>1 DEF ReleaseEvent, TypeOK
    <3> QED
      BY <1>2, <3>1, <3>2, <3>3
      DEF Progress, Goroutine, Work, Complete, OpenPort, OpenFails, OpenPanics,
          RemovePort, Settle, Tell, ResumeOpen, ResumeDrain, portVars, TypeOK
  <2> QED BY <1>2, <2>1, <2>2, Others DEF Fresh, Place, Pending, Opened
<1> USE Numbers DEF TypeOK, Fresh, Place, Pending, Opened, Goto, Post, InGo, None
<1>3. ASSUME NEW out \in {"ok", "error"}, Work(c, out)
      PROVE  Each(c)'
  BY <1>1, <1>3 DEF Work, portVars
<1>4. ASSUME NEW out \in {"ok", "error"}, Complete(c, out)
      PROVE  Each(c)'
  BY <1>1, <1>4 DEF Complete, portVars
<1>5. ASSUME OpenPort(c)
      PROVE  Each(c)'
  BY <1>1, <1>5 DEF OpenPort, FreshId
<1>6. ASSUME OpenFails(c)
      PROVE  Each(c)'
  BY <1>1, <1>6 DEF OpenFails
<1>7. ASSUME OpenPanics(c)
      PROVE  Each(c)'
  BY <1>1, <1>7 DEF OpenPanics
<1>8. ASSUME NEW starts \in BOOLEAN, StartEvents(c, starts)
      PROVE  Each(c)'
  BY <1>1, <1>8 DEF StartEvents
<1>9. ASSUME ClosePort(c) \/ ClosePanics(c) \/ RemovePort(c) \/ ReleaseEvent(c)
      PROVE  Each(c)'
  BY <1>1, <1>9 DEF ClosePort, ClosePanics, RemovePort, ReleaseEvent, portVars
<1>10. ASSUME Settle(c)
      PROVE  Each(c)'
  BY <1>1, <1>10 DEF Settle, Tell, Seen, portVars
<1>11. ASSUME ResumeOpen(c)
      PROVE  Each(c)'
  BY <1>1, <1>11 DEF ResumeOpen, portVars
<1>12. ASSUME ResumeDrain(c)
      PROVE  Each(c)'
  BY <1>1, <1>12 DEF ResumeDrain, Invoke, portVars
<1>13. Each(c)'
  BY <1>3, <1>4, <1>5, <1>6, <1>7, <1>8, <1>9, <1>10, <1>11, <1>12 DEF Progress, Goroutine
<1> HIDE DEF Each
<1>14. \A d \in Calls : Each(d)'
  BY <1>2, <1>13
<1> QED BY <1>14 DEF EachCall, Each


-----------------------------------------------------------------------------
(* Ports, closes and events slots *)

\* What never changes: the operation of a call, the handle of an open once it
\* has one, the port of a close, and the end of each.
LEMMA Kept ==
  ASSUME TypeOK, EachCall, NEW c \in Calls, Start(c) \/ Progress(c), NEW d \in Calls
  PROVE  /\ stage[d] # "idle" => kind'[d] = kind[d] /\ stage'[d] # "idle"
         /\ kind[d] = "open" /\ handle[d] # 0 => handle'[d] = handle[d]
         /\ Told(d) => Told(d)'
         /\ kind[d] = "close" => target'[d] = target[d] /\ handle'[d] = handle[d]
         /\ kind[d] # "read" /\ outcome[d] = "panic" => outcome'[d] = "panic"
         /\ stage[d] = "settled" => stage'[d] = "settled" /\ outcome'[d] = outcome[d]
<1>1. CASE d # c
  BY <1>1, Others DEF Told
<1>2. CASE d = c
  <2>1. Fresh(c) /\ Place(c) /\ Opened(c)
    BY DEF EachCall
  <2> USE <1>2, <2>1 DEF TypeOK, Fresh, Place, Opened, Told, Goto, Post, Invoke
  <2>2. CASE Start(c)
    <3>1. stage[c] = "idle" /\ stage'[c] # "idle"
      BY <2>2 DEF Start, CallOpen, CallClose, CallList, Call, CallWrite, CallDrain
    <3> QED BY <3>1
  <2>3. CASE Settle(c) \/ ResumeOpen(c) \/ ResumeDrain(c)
    BY <2>3 DEF Settle, Tell, Seen, ResumeOpen, ResumeDrain, InGo
  <2>4. CASE Goroutine(c)
    BY <2>4 DEF Goroutine, Work, Complete, OpenPort, OpenFails, OpenPanics, StartEvents,
                ClosePort, ClosePanics, RemovePort, ReleaseEvent, InGo
  <2> QED BY <2>2, <2>3, <2>4 DEF Progress
<1> QED BY <1>1, <1>2

LEMMA TableStep ==
  ASSUME TypeOK, EachCall, Table, NEW c \in Calls, Start(c) \/ Progress(c)
  PROVE  Table'
<1> SUFFICES ASSUME NEW i \in Ids, ports'[i] # None
             PROVE  kind'[ports'[i]] = "open" /\ handle'[ports'[i]] = i
  BY DEF Table
<1>1. CASE OpenPort(c) /\ ports'[i] # ports[i]
  BY <1>1, Numbers DEF OpenPort, FreshId, TypeOK
<1>2. CASE ports'[i] = ports[i]
  <2>1. ports[i] \in Calls /\ kind[ports[i]] = "open" /\ handle[ports[i]] = i /\ i # 0
    BY <1>2, Numbers DEF Table, TypeOK
  <2>2. stage[ports[i]] # "idle"
    BY <2>1 DEF EachCall, Fresh
  <2> QED BY <1>2, <2>1, <2>2, Kept
<1>3. CASE RemovePort(c)
  <2>1. ports'[i] = ports[i]
    BY <1>3 DEF RemovePort, TypeOK, None
  <2> QED BY <1>2, <2>1
<1> QED
  BY <1>1, <1>2, <1>3
  DEF TypeOK, Start, CallOpen, CallClose, CallList, Call, CallWrite, CallDrain, Progress,
      Goroutine, Work, Complete, OpenFails, OpenPanics, StartEvents, ClosePort, ClosePanics,
      ReleaseEvent, Settle, Tell, ResumeOpen, ResumeDrain, portVars

\* Only CallClose makes a close, and it does so of the port that fd names.
LEMMA NewClose ==
  ASSUME LifeInv, NEW c \in Calls, Start(c) \/ Progress(c),
         NEW d \in Calls, kind'[d] = "close"
  PROVE  \/ /\ d = c /\ CallClose(c) /\ stage[c] = "idle" /\ fd' = 0
            /\ IF fd = 0 THEN target'[c] = None /\ stage'[c] = "settled"
                         ELSE target'[c] = ports[fd] /\ handle'[c] = fd /\ stage'[c] = "run"
         \/ /\ kind[d] = "close" /\ target'[d] = target[d] /\ handle'[d] = handle[d]
            /\ ~CallClose(c)
            /\ stage'[d] \in InGo => stage[d] \in InGo
         \/ /\ d # c /\ CallClose(c)
            /\ kind[d] = "close" /\ target'[d] = target[d] /\ handle'[d] = handle[d]
            /\ stage'[d] = stage[d]
<1> USE DEF LifeInv
<1>1. Fresh(c) /\ Place(c)
  BY DEF EachCall
<1>2. CASE CallClose(c) /\ d = c
  <2>1. fd # 0 => ports[fd] # None
    BY DEF FdOpen
  <2> QED
    BY <1>1, <1>2, <2>1 DEF CallClose, Invoke, Post, Goto, TypeOK, Fresh
<1>3. CASE CallClose(c) /\ d # c
  BY <1>3, Others, Kept
<1>4. CASE ~CallClose(c) /\ d # c
  BY <1>4, Others, Kept
<1>5. CASE ~CallClose(c) /\ d = c
  <2>1. ~Start(c)
    BY <1>5 DEF Start, CallOpen, CallList, Call, CallWrite, CallDrain, TypeOK
  <2>2. stage[c] # "idle" /\ kind[c] = "close"
    <3>1. stage[c] # "idle"
      BY <2>1 DEF Progress, Goroutine, Work, Complete, OpenPort, OpenFails, OpenPanics,
            StartEvents, ClosePort, ClosePanics, RemovePort, ReleaseEvent, Settle, Tell,
            ResumeOpen, ResumeDrain
    <3> QED BY <3>1, <1>5, Kept
  <2>3. target'[d] = target[d] /\ handle'[d] = handle[d]
    BY <2>2, <1>5, Kept
  <2>4. stage'[c] \in InGo => stage[c] \in InGo
    BY <1>1, <2>1, <2>2
    DEF Progress, Goroutine, Work, Complete, OpenPort, OpenFails, OpenPanics,
        StartEvents, ClosePort, ClosePanics, RemovePort, ReleaseEvent, Settle, Tell,
        ResumeOpen, ResumeDrain, Place, InGo, Goto, Post, TypeOK
  <2> QED BY <1>5, <2>2, <2>3, <2>4
<1> QED BY <1>2, <1>3, <1>4, <1>5

LEMMA WatcherKept ==
  ASSUME LifeInv, NEW c \in Calls, Start(c) \/ Progress(c)
  PROVE  \/ watcher' = watcher
         \/ (ClosePort(c) \/ ClosePanics(c)) /\ watcher' = watcher \ {target[c]}
         \/ StartEvents(c, TRUE) /\ watcher' = watcher \union {c}
BY DEF Start, CallOpen, CallClose, CallList, Call, CallWrite, CallDrain, Progress,
       Goroutine, Work, Complete, OpenPort, OpenFails, OpenPanics, StartEvents, ClosePort,
       ClosePanics, RemovePort, ReleaseEvent, Settle, Tell, ResumeOpen, ResumeDrain, portVars

LEMMA ClosesStep ==
  ASSUME LifeInv, NEW c \in Calls, Start(c) \/ Progress(c)
  PROVE  Closes'
<1> USE DEF LifeInv
<1> SUFFICES ASSUME NEW d \in Calls, kind'[d] = "close"
             PROVE  ClosesOne(d)'
  BY DEF Closes, ClosesOne
<1>1. CASE d = c /\ CallClose(c)
  <2>1. CASE fd = 0
    BY <1>1, <2>1, NewClose, Numbers DEF ClosesOne, InGo
  <2>2. CASE fd # 0
    <3>1. /\ target'[c] = ports[fd] /\ handle'[c] = fd /\ stage'[c] = "run"
          /\ stage[c] = "idle"
      BY <1>1, <2>2, NewClose DEF CallClose
    <3>2. PICK o \in Calls : o = ports[fd]
      BY <2>2 DEF FdOpen, TypeOK
    <3>3. Told(o) /\ handle[o] = fd /\ o # None
      BY <2>2, <3>2 DEF FdOpen, TypeOK, Table
    <3>4. Told(o)' /\ handle'[o] = fd
      BY <2>2, <3>3, Kept DEF Told
    <3>5. \A e \in Calls : kind'[e] = "close" /\ target'[e] = o => e = c
      BY <2>2, <3>2, <3>3, NewClose DEF FdOpen, NeverClosed
    <3>6. kind'[c] = "close"
      BY <1>1
    <3>7. Told(target[c])' /\ handle'[target'[c]] = handle'[c]
      BY <3>1, <3>2, <3>4 DEF Told
    <3> QED BY <1>1, <3>1, <3>2, <3>3, <3>5, <3>6, <3>7 DEF ClosesOne, Told
  <2> QED BY <2>1, <2>2
<1>2. CASE ~(d = c /\ CallClose(c))
  <2>1. /\ kind[d] = "close" /\ target'[d] = target[d] /\ handle'[d] = handle[d]
        /\ stage'[d] \in InGo => stage[d] \in InGo
    BY <1>2, NewClose
  <2>2. ClosesOne(d)
    BY DEF Closes
  <2>3. CASE target[d] = None
    BY <2>1, <2>2, <2>3 DEF ClosesOne
  <2>4. CASE target[d] # None
    <3>1. target[d] \in Calls
      BY <2>4 DEF TypeOK
    <3>2. Told(target[d])' /\ handle'[target[d]] = handle'[d]
      <4>1. Told(target[d]) /\ handle[target[d]] = handle[d] /\ handle[target[d]] # 0
        BY <2>1, <2>2, <2>4, <3>1 DEF ClosesOne, EachCall, Opened, Told
      <4> QED BY <2>1, <3>1, <4>1, Kept DEF Told
    <3>3. stage'[d] \in {"remove", "release"} => target[d] \notin watcher'
      <4>1. CASE d = c
        <5>1. CASE ClosePort(c)
          BY <4>1, <5>1 DEF ClosePort
        <5>2. CASE ~ClosePort(c)
          <6>1. watcher' \subseteq watcher
            BY <2>1, <4>1, <5>2, WatcherKept DEF StartEvents
          <6>2. stage'[c] \in {"remove", "release"} => stage[c] = "remove"
            BY <2>1, <1>2, <4>1, <5>2
            DEF Start, CallOpen, CallList, Call, CallWrite, CallDrain, Invoke, Progress,
                Goroutine, Work, Complete, OpenPort, OpenFails, OpenPanics,
                StartEvents, ClosePanics, RemovePort, ReleaseEvent, Settle, Tell,
                ResumeOpen, ResumeDrain, Goto, Post, TypeOK
          <6> QED BY <2>1, <2>2, <2>4, <4>1, <6>1, <6>2 DEF ClosesOne
        <5> QED BY <5>1, <5>2
      <4>2. CASE d # c
        <5>1. stage'[d] = stage[d]
          BY <4>2, Others
        <5>2. StartEvents(c, TRUE) => target[d] # c
          BY <2>1, <2>2, <2>4 DEF ClosesOne, Told, StartEvents
        <5> QED BY <2>1, <2>2, <2>4, <5>1, <5>2, WatcherKept DEF ClosesOne
      <4> QED BY <4>1, <4>2
    <3>4. \A e \in Calls : kind'[e] = "close" /\ target'[e] = target[d] => e = d
      <4> SUFFICES ASSUME NEW e \in Calls, kind'[e] = "close", target'[e] = target[d]
                   PROVE  e = d
        OBVIOUS
      <4>1. CASE kind[e] = "close" /\ target'[e] = target[e]
        BY <2>1, <2>2, <2>4, <4>1 DEF ClosesOne
      <4>2. CASE e = c /\ CallClose(c) /\ fd # 0 /\ target'[c] = ports[fd]
        BY <2>1, <4>2 DEF FdOpen, NeverClosed
      <4> QED BY <2>4, <4>1, <4>2, NewClose
    <3> QED BY <2>1, <2>2, <2>4, <3>2, <3>3, <3>4 DEF ClosesOne
  <2> QED BY <2>3, <2>4
<1> QED BY <1>1, <1>2

LEMMA RegisteredStep ==
  ASSUME LifeInv, NEW c \in Calls, Start(c) \/ Progress(c)
  PROVE  PortsRegistered'
<1> USE DEF LifeInv
<1> DEFINE Gone == {"release", "complete", "posted", "settled"}
<1> SUFFICES ASSUME NEW o \in Calls, kind'[o] = "open", handle'[o] # 0, ~ClosingAt(o, Gone)'
             PROVE  ports'[handle'[o]] = o
  BY DEF PortsRegistered
<1>1. kind[o] = "open" /\ stage[o] # "idle"
  <2>1. CASE stage[o] = "idle"
    <3>1. handle[o] = 0 /\ kind[o] = "none"
      BY <2>1 DEF EachCall, Fresh
    <3>2. o = c
      BY <3>1, Others
    <3> QED
      BY <2>1, <3>1, <3>2
      DEF Start, CallOpen, CallClose, CallList, Call, CallWrite, CallDrain, Progress,
          Goroutine, Work, Complete, OpenPort, OpenFails, OpenPanics, StartEvents, ClosePort,
          ClosePanics, RemovePort, ReleaseEvent, Settle, Tell, ResumeOpen, ResumeDrain, TypeOK
  <2> QED BY <2>1, Kept
<1>2. handle[o] # 0 => handle'[o] = handle[o] /\ ports[handle[o]] = o
  <2> SUFFICES ASSUME handle[o] # 0
               PROVE  handle'[o] = handle[o] /\ ~ClosingAt(o, Gone)
    BY <1>1 DEF PortsRegistered
  <2>1. handle'[o] = handle[o]
    BY <1>1, Kept
  <2>2. ASSUME NEW d \in Calls, kind[d] = "close", target[d] = o, stage[d] \in Gone
        PROVE  FALSE
    <3>1. kind'[d] = "close" /\ target'[d] = o
      BY <2>2, Kept DEF EachCall, Fresh
    <3>2. stage'[d] \in Gone
      <4>1. CASE d # c
        BY <2>2, <4>1, Others
      <4>2. CASE d = c
        BY <2>2, <4>2
        DEF Start, CallOpen, CallClose, CallList, Call, CallWrite, CallDrain, Progress,
            Goroutine, Work, Complete, OpenPort, OpenFails, OpenPanics, StartEvents, ClosePort,
            ClosePanics, RemovePort, ReleaseEvent, Settle, Tell, ResumeOpen, ResumeDrain, Goto,
            Post, TypeOK
      <4> QED BY <4>1, <4>2
    <3> QED BY <2>2, <3>1, <3>2 DEF ClosingAt
  <2> QED BY <2>1, <2>2 DEF ClosingAt
<1>3. handle[o] = 0 => OpenPort(c) /\ o = c
  BY <1>1, Others
  DEF Start, CallOpen, CallClose, CallList, Call, CallWrite, CallDrain, Progress,
      Goroutine, Work, Complete, OpenPort, OpenFails, OpenPanics, StartEvents, ClosePort,
      ClosePanics, RemovePort, ReleaseEvent, Settle, Tell, ResumeOpen, ResumeDrain,
      EachCall, Place
<1>4. CASE OpenPort(c)
  <2>1. PICK i \in FreshId : ports' = [ports EXCEPT ![i] = c] /\ handle' = [handle EXCEPT ![c] = i]
    BY <1>4 DEF OpenPort
  <2>2. i \in Ids /\ ports[i] = None
    BY DEF FreshId
  <2>3. CASE o = c
    BY <2>1, <2>2, <2>3 DEF TypeOK
  <2>4. CASE o # c
    BY <1>2, <1>3, <2>1, <2>2, <2>4, Numbers DEF TypeOK, None
  <2> QED BY <2>3, <2>4
<1>5. CASE RemovePort(c)
  <2>1. kind[c] = "close" /\ stage[c] = "remove"
    BY <1>5 DEF RemovePort, EachCall, Place
  <2>2. target[c] \in Calls /\ Told(target[c]) /\ handle[target[c]] = handle[c]
        /\ \A e \in Calls : kind[e] = "close" /\ target[e] = target[c] => e = c
    BY <2>1 DEF Closes, ClosesOne, InGo, TypeOK
  <2>3. ports[handle[c]] = target[c]
    BY <2>1, <2>2 DEF PortsRegistered, ClosingAt, EachCall, Opened, Told
  <2>4. target[c] # o
    BY <1>5, <2>1 DEF RemovePort, ClosingAt, Goto, TypeOK
  <2> QED BY <1>2, <1>3, <1>5, <2>1, <2>3, <2>4 DEF RemovePort, OpenPort, TypeOK
<1>6. CASE ports' = ports
  BY <1>2, <1>3, <1>4, <1>6
<1> QED
  BY <1>4, <1>5, <1>6
  DEF Start, CallOpen, CallClose, CallList, Call, CallWrite, CallDrain, Progress,
      Goroutine, Work, Complete, OpenFails, OpenPanics, StartEvents, ClosePort, ClosePanics,
      ReleaseEvent, Settle, Tell, ResumeOpen, ResumeDrain, portVars

LEMMA FdStep ==
  ASSUME LifeInv, NEW c \in Calls, Start(c) \/ Progress(c)
  PROVE  FdOpen'
<1> USE DEF LifeInv
<1> SUFFICES ASSUME fd' # 0
             PROVE  \E o \in Calls : ports'[fd'] = o /\ Told(o)' /\ NeverClosed(o)'
  BY Numbers DEF FdOpen, None, Told, NeverClosed
<1>1. CASE Settle(c) /\ fd' # fd
  <2>1. kind[c] = "open" /\ stage[c] = "posted" /\ outcome[c] = "ok" /\ fd' = handle[c]
    BY <1>1 DEF Settle, Tell
  <2>2. ASSUME NEW d \in Calls, kind[d] = "close"
        PROVE  target[d] # c
    BY <2>1, <2>2, Numbers DEF Closes, ClosesOne, Told, None
  <2>3. ports[handle[c]] = c /\ Told(c)'
    BY <1>1, <2>1, <2>2 DEF PortsRegistered, ClosingAt, Settle, Tell, Seen, Told, Goto, TypeOK,
                            EachCall, Opened
  <2> QED BY <1>1, <2>1, <2>2, <2>3 DEF Settle, Tell, NeverClosed, portVars
<1>2. CASE fd' = fd
  <2>1. PICK o \in Calls : o = ports[fd]
    BY <1>2 DEF FdOpen, TypeOK
  <2>2. Told(o) /\ NeverClosed(o) /\ handle[o] = fd /\ fd \in Ids /\ o # None
    BY <1>2, <2>1 DEF FdOpen, Table, TypeOK
  <2>3. Told(o)'
    BY <2>2, Kept
  <2>4. NeverClosed(o)'
    BY <1>2, <2>2, NewClose DEF NeverClosed
  <2>5. ports'[fd] = o
    BY <1>2, <2>2, <2>3, <2>4, RegisteredStep, Kept
    DEF PortsRegistered, Told, NeverClosed, ClosingAt
  <2> QED BY <1>2, <2>3, <2>4, <2>5
<1> QED
  BY <1>1, <1>2
  DEF Start, CallOpen, CallClose, CallList, Call, CallWrite, CallDrain, Progress,
      Goroutine, Work, Complete, OpenPort, OpenFails, OpenPanics, StartEvents, ClosePort,
      ClosePanics, RemovePort, ReleaseEvent, Settle, ResumeOpen, ResumeDrain, jsVars

LEMMA WatchersStep ==
  ASSUME LifeInv, NEW c \in Calls, Start(c) \/ Progress(c)
  PROVE  Watchers'
<1> USE DEF LifeInv
<1> SUFFICES ASSUME NEW o \in watcher'
             PROVE  /\ kind'[o] = "open" /\ slot'[o] = "held"
                    /\ stage'[o] \in {"complete", "posted", "resume", "settled"}
  BY DEF Watchers
<1>1. CASE o \notin watcher
  <2>1. StartEvents(c, TRUE) /\ o = c /\ watcher' = watcher \union {c}
    BY <1>1, WatcherKept
  <2>2. slot[c] = "held"
    BY <2>1 DEF StartEvents, Slots
  <2> QED BY <2>1, <2>2 DEF StartEvents, TypeOK, Goto
<1>2. CASE o \in watcher
  <2>1. o \in Calls /\ kind[o] = "open" /\ slot[o] = "held"
        /\ stage[o] \in {"complete", "posted", "resume", "settled"}
    BY <1>2 DEF Watchers, TypeOK
  <2>2. kind'[o] = "open"
    BY <2>1, Kept
  <2>3. stage'[o] \in {"complete", "posted", "resume", "settled"}
    <3>1. CASE o # c
      BY <2>1, <3>1, Others
    <3>2. CASE o = c
      BY <2>1, <3>2
      DEF Start, CallOpen, CallClose, CallList, Call, CallWrite, CallDrain, Progress,
          Goroutine, Work, Complete, OpenPort, OpenFails, OpenPanics, StartEvents, ClosePort,
          ClosePanics, RemovePort, ReleaseEvent, Settle, Tell, ResumeOpen, ResumeDrain, Goto,
          Post, TypeOK
    <3> QED BY <3>1, <3>2
  <2>4. slot'[o] = slot[o]
    <3>1. CASE ReleaseEvent(c)
      <4>1. kind[c] = "close" /\ target[c] # o
        BY <1>2, <3>1, Numbers DEF ReleaseEvent, EachCall, Place, Closes, ClosesOne, InGo
      <4> QED BY <3>1, <4>1 DEF ReleaseEvent, TypeOK
    <3> QED
      BY <2>1, <3>1
      DEF Start, CallOpen, CallClose, CallList, Call, CallWrite, CallDrain, Progress,
          Goroutine, Work, Complete, OpenPort, OpenFails, OpenPanics, StartEvents, ClosePort,
          ClosePanics, RemovePort, Settle, Tell, ResumeOpen, ResumeDrain, portVars, TypeOK
  <2> QED BY <2>1, <2>2, <2>3, <2>4
<1> QED BY <1>1, <1>2

LEMMA HeldStep ==
  ASSUME LifeInv, NEW c \in Calls, Start(c) \/ Progress(c)
  PROVE  \A o \in Calls : slot'[o] = "held" =>
           /\ kind'[o] = "open"
           /\ \/ stage'[o] \in {"run", "start"}
              \/ o \in watcher'
              \/ ClosingAt(o, {"remove", "release"})'
              \/ Panicked(o)'
<1> USE DEF LifeInv
<1> SUFFICES ASSUME NEW o \in Calls, slot'[o] = "held"
             PROVE  /\ kind'[o] = "open"
                    /\ \/ stage'[o] \in {"run", "start"}
                       \/ o \in watcher'
                       \/ ClosingAt(o, {"remove", "release"})'
                       \/ Panicked(o)'
  OBVIOUS
<1>1. CASE slot[o] # "held"
  BY <1>1
  DEF Start, CallOpen, CallClose, CallList, Call, CallWrite, CallDrain, Progress,
      Goroutine, Work, Complete, OpenPort, OpenFails, OpenPanics, StartEvents, ClosePort,
      ClosePanics, RemovePort, ReleaseEvent, Settle, Tell, ResumeOpen, ResumeDrain, portVars,
      TypeOK, Goto
<1>2. CASE slot[o] = "held"
  <2>1. kind[o] = "open" /\ kind'[o] = "open"
    BY <1>2, Kept DEF Slots, EachCall, Fresh
  <2>2. CASE stage[o] \in {"run", "start"}
    <3>1. CASE o # c
      BY <2>2, <3>1, Others, <2>1
    <3>2. CASE o = c
      BY <2>1, <2>2, <3>2
      DEF Start, CallOpen, CallClose, CallList, Call, CallWrite, CallDrain, Progress,
          Goroutine, Work, Complete, OpenPort, OpenFails, OpenPanics, StartEvents, ClosePort,
          ClosePanics, RemovePort, ReleaseEvent, Settle, Tell, ResumeOpen, ResumeDrain,
          TypeOK, Goto, Post, Panicked
    <3> QED BY <3>1, <3>2
  <2>3. CASE o \in watcher
    <3>1. CASE o \notin watcher'
      <4>1. (ClosePort(c) \/ ClosePanics(c)) /\ target[c] = o
        BY <2>3, <3>1, WatcherKept
      <4>2. CASE ClosePort(c)
        BY <2>1, <4>1, <4>2 DEF ClosePort, ClosingAt, Goto, TypeOK
      <4>3. CASE ClosePanics(c)
        BY <2>1, <4>1, <4>3 DEF ClosePanics, Panicked, Post, TypeOK
      <4> QED BY <2>1, <4>1, <4>2, <4>3
    <3> QED BY <2>1, <3>1
  <2>4. ASSUME NEW d \in Calls, kind[d] = "close", target[d] = o,
               stage[d] \in {"remove", "release"}
        PROVE  ClosingAt(o, {"remove", "release"})'
    <3>1. kind'[d] = "close" /\ target'[d] = o
      BY <2>4, Kept DEF EachCall, Fresh
    <3>2. stage'[d] \in {"remove", "release"}
      <4>1. CASE d # c
        BY <2>4, <4>1, Others
      <4>2. CASE d = c
        <5>1. ~ReleaseEvent(c)
          BY <2>4, <4>2 DEF ReleaseEvent, TypeOK
        <5> QED
          BY <2>4, <4>2, <5>1
          DEF Start, CallOpen, CallClose, CallList, Call, CallWrite, CallDrain, Progress,
              Goroutine, Work, Complete, OpenPort, OpenFails, OpenPanics, StartEvents, ClosePort,
              ClosePanics, RemovePort, Settle, Tell, ResumeOpen, ResumeDrain,
              TypeOK, Goto, Post
      <4> QED BY <4>1, <4>2
    <3> QED BY <3>1, <3>2 DEF ClosingAt
  <2>5. CASE Panicked(o)
    <3>1. outcome[o] = "panic" => outcome'[o] = "panic"
      BY <2>1, Kept
    <3>2. ASSUME NEW d \in Calls, kind[d] = "close", target[d] = o, outcome[d] = "panic"
          PROVE  kind'[d] = "close" /\ target'[d] = o /\ outcome'[d] = "panic"
      BY <3>2, Kept DEF EachCall, Fresh
    <3> QED BY <2>1, <2>5, <3>1, <3>2 DEF Panicked
  <2> QED BY <1>2, <2>1, <2>2, <2>3, <2>4, <2>5 DEF Slots, ClosingAt
<1> QED BY <1>1, <1>2

LEMMA SlotsStep ==
  ASSUME LifeInv, NEW c \in Calls, Start(c) \/ Progress(c)
  PROVE  Slots'
<1> USE DEF LifeInv
<1>1. ASSUME NEW o \in Calls, kind'[o] = "open", stage'[o] \in {"run", "start"}
      PROVE  slot'[o] = "held"
  <2>1. CASE Start(c) /\ o = c
    BY <1>1, <2>1 DEF Start, CallOpen, CallClose, CallList, Call, CallWrite, CallDrain, TypeOK,
                      Goto, Post
  <2>2. CASE ~(Start(c) /\ o = c)
    <3>1. stage[o] \in {"run", "start"} /\ kind[o] = "open"
      <4>1. CASE o # c
        BY <1>1, <4>1, Others
      <4>2. CASE o = c /\ Progress(c)
        BY <1>1, <4>2, Kept
        DEF Progress, Goroutine, Work, Complete, OpenPort, OpenFails, OpenPanics, StartEvents,
            ClosePort, ClosePanics, RemovePort, ReleaseEvent, Settle, Tell, ResumeOpen,
            ResumeDrain, Invoke, Goto, Post, TypeOK, EachCall, Place
      <4> QED BY <2>2, <4>1, <4>2
    <3>2. slot'[o] = slot[o]
      <4>1. CASE ReleaseEvent(c)
        <5>1. Told(target[c])
          BY <4>1 DEF ReleaseEvent, EachCall, Place, Closes, ClosesOne, InGo
        <5> QED BY <3>1, <4>1, <5>1 DEF ReleaseEvent, Told, TypeOK
      <4> QED
        BY <1>1, <2>2, <4>1
        DEF Start, CallOpen, CallClose, CallList, Call, CallWrite, CallDrain, Progress,
            Goroutine, Work, Complete, OpenPort, OpenFails, OpenPanics, StartEvents,
            ClosePort, ClosePanics, RemovePort, Settle, Tell, ResumeOpen, ResumeDrain, Goto, Post,
            portVars, TypeOK
    <3> QED BY <3>1, <3>2 DEF Slots
  <2> QED BY <2>1, <2>2
<1> QED BY <1>1, HeldStep DEF Slots

LEMMA InTurnStep ==
  ASSUME LifeInv, NEW c \in Calls, Start(c) \/ Progress(c)
  PROVE  InTurn'
<1> USE DEF LifeInv
<1> SUFFICES ASSUME NEW a \in Calls, NEW d \in Calls, a < d, stage'[a] = "idle"
             PROVE  stage'[d] = "idle"
  BY DEF InTurn
<1>1. stage[a] = "idle" /\ stage[d] = "idle"
  BY Kept DEF InTurn
<1>2. d # c \/ ~Start(c)
  BY <1>1 DEF Start
<1>3. CASE d # c
  BY <1>1, <1>3, Others
<1>4. CASE d = c /\ Progress(c)
  BY <1>1, <1>4 DEF Progress, Goroutine, Work, Complete, OpenPort, OpenFails, OpenPanics,
     StartEvents, ClosePort, ClosePanics, RemovePort, ReleaseEvent, Settle, Tell, ResumeOpen,
     ResumeDrain
<1> QED BY <1>2, <1>3, <1>4

LEMMA LifeStart == Init => LifeInv
<1> SUFFICES ASSUME Init
             PROVE  LifeInv
  OBVIOUS
<1>1. TypeOK
  BY TypeInit
<1> QED
  BY <1>1, Numbers DEF Init, LifeInv, EachCall, Fresh, Place, Pending, Opened, Table, Closes,
     ClosesOne, PortsRegistered, FdOpen, Watchers, Slots, InTurn, InGo, None

LEMMA LifeStep == LifeInv /\ [Next]_vars => LifeInv'
<1> SUFFICES ASSUME LifeInv, [Next]_vars
             PROVE  LifeInv'
  OBVIOUS
<1>1. CASE UNCHANGED vars
  BY <1>1
  DEF LifeInv, vars, callVars, jsVars, portVars, TypeOK, EachCall, Fresh, Place, Pending, Opened,
      Table, Closes, ClosesOne, Told, PortsRegistered, ClosingAt, FdOpen, NeverClosed, Watchers,
      Slots, Panicked, InTurn
<1>2. ASSUME NEW c \in Calls, Start(c) \/ Progress(c)
      PROVE  LifeInv'
  <2>1. TypeOK'
    BY TypeStart, TypeProgress, <1>2 DEF LifeInv
  <2>2. EachCall'
    BY EachStart, EachProgress, <1>2 DEF LifeInv
  <2>3. Table'
    BY TableStep, <1>2 DEF LifeInv
  <2> QED
    BY <1>2, <2>1, <2>2, <2>3, ClosesStep, RegisteredStep, FdStep, WatchersStep, SlotsStep,
       InTurnStep DEF LifeInv
<1> QED BY <1>1, <1>2, StepIsOfCall

LEMMA LifeAlways == Spec => []LifeInv
BY LifeStart, LifeStep, PTL DEF Spec

\* The slot of a port's events is held as long as its watcher runs, and given
\* back with the port, or when no port or no watcher came to be, whatever fails
\* short of a panic: StartEvents, releaseEventSlot and Close of api.go.
THEOREM SlotReleased == Spec => []EventSlotReleased
<1>1. LifeInv => EventSlotReleased
  BY DEF LifeInv, EventSlotReleased, Watchers, Slots, InFlight, TypeOK
<1> QED BY <1>1, LifeAlways, PTL

\* manager.ports keeps an open port under its handle until a close of that
\* very port removes it; idCounter may wrap any number of times.
THEOREM Registered == Spec => []PortsRegistered
<1>1. LifeInv => PortsRegistered
  BY DEF LifeInv
<1> QED BY <1>1, LifeAlways, PTL

-----------------------------------------------------------------------------
(* Disciplined programs *)

LEMMA FdChange ==
  ASSUME NEW c \in Calls, Start(c) \/ Progress(c)
  PROVE  \/ fd' = fd
         \/ CallClose(c) /\ fd' = 0
         \/ /\ Settle(c) /\ kind[c] = "open" /\ stage[c] = "posted" /\ outcome[c] = "ok"
            /\ fd' = handle[c]
BY DEF Start, CallOpen, CallClose, CallList, Call, CallWrite, CallDrain, Progress, Goroutine,
       Work, Complete, OpenPort, OpenFails, OpenPanics, StartEvents, ClosePort, ClosePanics,
       RemovePort, ReleaseEvent, Settle, Tell, ResumeOpen, ResumeDrain, jsVars

LEMMA SameProgram ==
  ASSUME NEW c \in Calls, Start(c) \/ Progress(c)
  PROVE  disciplined' = disciplined
BY DEF Start, CallOpen, CallClose, CallList, Call, CallWrite, CallDrain, Progress, Goroutine,
       Work, Complete, OpenPort, OpenFails, OpenPanics, StartEvents, ClosePort, ClosePanics,
       RemovePort, ReleaseEvent, Settle, Tell, ResumeOpen, ResumeDrain, Post

\* An open in flight was in flight before, or is called now.
LEMMA NewOpen ==
  ASSUME LifeInv, NEW c \in Calls, Start(c) \/ Progress(c), NEW o \in Calls, Opening(o)'
  PROVE  \/ Opening(o)
         \/ o = c /\ stage'[c] # "resume" /\ \E valid \in BOOLEAN : CallOpen(c, valid)
<1> USE DEF LifeInv, Opening, InFlight
<1>1. CASE o # c
  BY <1>1, Others
<1>2. CASE o = c /\ stage[c] = "idle"
  BY <1>2
  DEF Start, CallOpen, CallClose, CallList, Call, CallWrite, CallDrain, Progress, Goroutine,
      Work, Complete, OpenPort, OpenFails, OpenPanics, StartEvents, ClosePort, ClosePanics,
      RemovePort, ReleaseEvent, Settle, Tell, ResumeOpen, ResumeDrain, Post, Goto, TypeOK
<1>3. CASE o = c /\ stage[c] # "idle"
  BY <1>3, Kept
<1> QED BY <1>1, <1>2, <1>3

LEMMA AloneStep ==
  ASSUME LifeInv, disciplined, Alone, NEW c \in Calls, Start(c) \/ Progress(c)
  PROVE  Alone'
<1> USE DEF LifeInv
<1> SUFFICES ASSUME NEW o \in Calls, Opening(o)'
             PROVE  /\ \A d \in Calls : Opening(d)' => d = o
                    /\ \A d \in Calls : kind'[d] = "close" => ~InFlight(d)'
                    /\ fd' = IF stage'[o] = "resume" THEN handle'[o] ELSE 0
  BY DEF Alone
<1>1. CASE \E valid \in BOOLEAN : CallOpen(c, valid)
  <2>1. /\ \A d \in Calls : ~Opening(d)
        /\ \A d \in Calls : kind[d] = "close" => ~InFlight(d)
        /\ fd = 0 /\ fd' = fd
    BY <1>1 DEF CallOpen, MayOpen, Opening, jsVars
  <2>2. \A d \in Calls : Opening(d)' => d = c
    BY <2>1, NewOpen
  <2>3. o = c /\ stage'[c] # "resume"
    BY <2>1, NewOpen
  <2>4. ASSUME NEW d \in Calls, kind'[d] = "close"
        PROVE  ~InFlight(d)'
    <3>1. d # c
      BY <1>1, <2>4 DEF CallOpen, TypeOK
    <3> QED BY <2>1, <2>4, <3>1, Others DEF InFlight
  <2> QED BY <2>1, <2>2, <2>3, <2>4
<1>2. CASE ~\E valid \in BOOLEAN : CallOpen(c, valid)
  <2>1. Opening(o) /\ \A d \in Calls : Opening(d)' => Opening(d)
    BY <1>2, NewOpen
  <2>2. ~CallClose(c)
    BY <2>1 DEF CallClose, MayClose, Opening
  <2>3. ASSUME NEW d \in Calls, kind'[d] = "close"
        PROVE  ~InFlight(d)'
    <3>1. kind[d] = "close" /\ ~InFlight(d)
      BY <2>1, <2>2, <2>3, NewClose DEF Alone
    <3> QED BY <3>1, Kept DEF InFlight, EachCall, Fresh
  <2>4. fd' = IF stage'[o] = "resume" THEN handle'[o] ELSE 0
    <3>1. CASE o = c /\ Settle(c)
      BY <2>1, <3>1 DEF Alone, Settle, Tell, Goto, TypeOK, Opening
    <3>2. CASE ~(o = c /\ Settle(c))
      <4>1. fd' = fd
        BY <2>1, <2>2, <3>2, FdChange DEF Alone, Opening, InFlight
      <4>2. stage'[o] = "resume" <=> stage[o] = "resume"
        <5>1. CASE o # c
          BY <5>1, Others
        <5>2. CASE o = c
          <6>1. kind[c] = "open" /\ stage[c] \notin {"idle", "await"} /\ stage'[c] # "settled"
            BY <2>1, <5>2 DEF Opening, InFlight, EachCall, Place
          <6>2. ~Start(c) /\ ~ResumeDrain(c)
            BY <6>1 DEF Start, CallOpen, CallClose, CallList, Call, CallWrite, CallDrain, ResumeDrain
          <6>3. ~ResumeOpen(c)
            BY <6>1 DEF ResumeOpen, Goto, TypeOK
          <6> QED
            BY <3>2, <5>2, <6>2, <6>3
            DEF Progress, Goroutine, Work, Complete, OpenPort, OpenFails, OpenPanics, StartEvents,
                ClosePort, ClosePanics, RemovePort, ReleaseEvent, Post, Goto, TypeOK
        <5> QED BY <5>1, <5>2
      <4>3. stage[o] = "resume" => handle'[o] = handle[o]
        BY <2>1, Kept DEF EachCall, Opened, Opening
      <4> QED BY <2>1, <4>1, <4>2, <4>3 DEF Alone
    <3> QED BY <3>1, <3>2
  <2> QED BY <2>1, <2>3, <2>4 DEF Alone
<1> QED BY <1>1, <1>2

LEMMA OnOpenPortStep ==
  ASSUME LifeInv, disciplined, Alone, OnOpenPort, NEW c \in Calls, Start(c) \/ Progress(c)
  PROVE  OnOpenPort'
<1> USE DEF LifeInv
<1>1. fd' = 0 => fd = 0 \/ CallClose(c)
  BY FdChange DEF EachCall, Opened
<1>2. CallClose(c) => /\ \A d \in Calls : stage[d] # "await"
                      /\ \A d \in Calls : ~Opening(d)
  BY DEF CallClose, MayClose, Opening
<1>3. isOpen' => fd' # 0
  <2>1. CASE ResumeOpen(c)
    <3>1. Opening(c) /\ fd' = fd /\ handle[c] # 0
      BY <2>1 DEF ResumeOpen, Opening, InFlight, EachCall, Place, Opened
    <3> QED BY <2>1, <3>1 DEF Alone, ResumeOpen
  <2>2. CASE CallClose(c)
    BY <2>2 DEF CallClose
  <2>3. CASE ~ResumeOpen(c) /\ ~CallClose(c)
    <3>1. isOpen' = isOpen
      BY <2>3
      DEF Start, CallOpen, CallList, Call, CallWrite, CallDrain, Progress, Goroutine,
          Work, Complete, OpenPort, OpenFails, OpenPanics, StartEvents, ClosePort, ClosePanics,
          RemovePort, ReleaseEvent, Settle, Tell, ResumeDrain, jsVars
    <3> QED BY <1>1, <2>3, <3>1 DEF OnOpenPort
  <2> QED BY <2>1, <2>2, <2>3
<1>4. ASSUME NEW d \in Calls, stage'[d] = "await"
      PROVE  fd' # 0
  <2>1. CASE stage[d] = "await"
    BY <1>1, <1>2, <2>1 DEF OnOpenPort
  <2>2. CASE stage[d] # "await"
    <3>1. d = c /\ CallDrain(c)
      <4>1. d = c
        BY <1>4, <2>2, Others
      <4> QED
        BY <1>4, <2>2, <4>1
        DEF Start, CallOpen, CallClose, CallList, Call, CallWrite, CallDrain, Progress, Goroutine,
            Work, Complete, OpenPort, OpenFails, OpenPanics, StartEvents, ClosePort,
            ClosePanics, RemovePort, ReleaseEvent, Settle, Tell, ResumeOpen, ResumeDrain,
            Invoke, Post, Goto, TypeOK
    <3> QED BY <3>1 DEF CallDrain, MayUse, jsVars
  <2> QED BY <2>1, <2>2
<1>5. ASSUME NEW d \in Calls, op'[d] = "registered"
      PROVE  stage'[d] \in InGo
  <2>1. CASE d # c
    BY <1>5, <2>1, Others DEF OnOpenPort
  <2>2. CASE d = c /\ Start(c)
    <3>1. CallClose(c) => fd # 0
      BY DEF CallClose, MayClose
    <3>2. op[c] = "none"
      BY <2>2 DEF Start, CallOpen, CallClose, CallList, Call, CallWrite, CallDrain, EachCall, Fresh
    <3>3. ASSUME NEW k, Invoke(c, k, fd), fd # 0
          PROVE  stage'[d] \in InGo
      BY <1>5, <2>2, <3>3 DEF Invoke, Post, Goto, TypeOK, InGo
    <3>4. CASE CallClose(c) \/ \E k \in Kinds : Call(c, k)
      <4>1. fd # 0
        BY <3>1, <3>4 DEF Call, MayUse
      <4> QED BY <3>3, <3>4, <4>1, Zenon DEF CallClose, Call
    <3>5. ASSUME NEW empty \in BOOLEAN, CallWrite(c, empty)
          PROVE  stage'[d] \in InGo
      <4>1. fd # 0
        BY <3>5 DEF CallWrite, MayUse
      <4>2. CASE empty
        BY <1>5, <2>2, <3>2, <3>5, <4>2 DEF CallWrite, Goto, TypeOK, InGo
      <4>3. CASE ~empty
        BY <3>3, <3>5, <4>1, <4>3, Zenon DEF CallWrite
      <4> QED BY <4>2, <4>3
    <3>6. ASSUME NEW valid \in BOOLEAN, CallOpen(c, valid)
          PROVE  stage'[d] \in InGo
      BY <1>5, <2>2, <3>6 DEF CallOpen, Post, Goto, TypeOK, InGo
    <3>7. CASE CallList(c) \/ CallDrain(c)
      BY <1>5, <2>2, <3>2, <3>7 DEF CallList, CallDrain, Goto, TypeOK, InGo
    <3> QED BY <2>2, <3>4, <3>5, <3>6, <3>7 DEF Start
  <2>3. CASE d = c /\ Progress(c)
    <3>1. op[c] = "registered" => stage[c] \in InGo
      BY DEF OnOpenPort
    <3>2. stage[c] = "await" => fd # 0
      BY DEF OnOpenPort
    <3>3. CASE ResumeDrain(c)
      BY <1>5, <2>3, <3>1, <3>2, <3>3 DEF ResumeDrain, Invoke, Post, Goto, TypeOK, InGo
    <3>4. CASE Settle(c) \/ ResumeOpen(c)
      BY <1>5, <2>3, <3>1, <3>4 DEF Settle, Tell, ResumeOpen, Goto, TypeOK, InGo
    <3>5. CASE Goroutine(c)
      BY <1>5, <2>3, <3>5
      DEF Goroutine, Work, Complete, OpenPort, OpenFails, OpenPanics, StartEvents,
          ClosePort, ClosePanics, RemovePort, ReleaseEvent, Post, Goto, TypeOK, InGo
    <3> QED BY <2>3, <3>3, <3>4, <3>5 DEF Progress
  <2> QED BY <2>1, <2>2, <2>3
<1> QED BY <1>3, <1>4, <1>5 DEF OnOpenPort

LEMMA ReachableStep ==
  ASSUME LifeInv, disciplined, Alone, Reachable, NEW c \in Calls, Start(c) \/ Progress(c)
  PROVE  Reachable'
<1> USE DEF LifeInv
<1> SUFFICES ASSUME NEW i \in Ids, NEW o \in Calls, ports'[i] = o,
                    stage'[o] \in {"resume", "settled"}
             PROVE  fd' = i \/ ClosingAt(o, {"run", "remove"})' \/ Panicked(o)'
  <2>1. ports' \in [Ids -> Calls \union {None}]
    BY TypeStart, TypeProgress DEF TypeOK
  <2> QED BY <2>1 DEF Reachable, ClosingAt, Panicked
<1>1. ports[i] = o /\ stage[o] # "idle" => kind[o] = "open" /\ handle[o] = i /\ i # 0 /\ o # None
  BY Numbers DEF Table, None
<1>2. CASE ports[i] # o
  <2>1. OpenPort(c)
    BY <1>2, Numbers
    DEF Start, CallOpen, CallClose, CallList, Call, CallWrite, CallDrain, Progress, Goroutine,
        Work, Complete, OpenFails, OpenPanics, StartEvents, ClosePort, ClosePanics,
        RemovePort, ReleaseEvent, Settle, Tell, ResumeOpen, ResumeDrain, portVars, TypeOK, None
  <2>2. o = c
    BY <1>2, <2>1 DEF OpenPort, TypeOK
  <2> QED BY <2>1, <2>2 DEF OpenPort, Goto, TypeOK
<1>3. CASE ports[i] = o /\ stage[o] \notin {"resume", "settled"}
  <2>1. kind[o] = "open" /\ handle[o] = i /\ i # 0
    BY <1>3, Numbers DEF Table, None
  <2>2. o = c
    BY <1>3, Others
  <2>3. stage[c] # "idle"
    BY <2>1, <2>2 DEF EachCall, Fresh
  <2>4. CASE Settle(c)
    BY <2>1, <2>2, <2>4 DEF Settle, Tell, Seen, Panicked, EachCall, Opened, Goto, TypeOK
  <2>5. CASE ~Settle(c)
    <3>1. ~Start(c) /\ ~ResumeOpen(c) /\ ~ResumeDrain(c)
      BY <1>3, <2>1, <2>2, <2>3
      DEF Start, CallOpen, CallClose, CallList, Call, CallWrite, CallDrain, ResumeOpen,
          ResumeDrain, EachCall, Place
    <3> QED
      BY <1>3, <2>2, <2>5, <3>1
      DEF Progress, Goroutine, Work, Complete, OpenPort, OpenFails, OpenPanics, StartEvents,
          ClosePort, ClosePanics, RemovePort, ReleaseEvent, Goto, Post, TypeOK
  <2> QED BY <2>4, <2>5
<1>4. CASE ports[i] = o /\ stage[o] \in {"resume", "settled"} /\ fd = i
  <2>1. CASE CallClose(c)
    <3>1. fd # 0
      BY <1>1, <1>4
    <3>2. kind'[c] = "close" /\ target'[c] = o /\ stage'[c] = "run"
      <4>1. kind'[c] = "close"
        BY <2>1 DEF CallClose, TypeOK
      <4> QED BY <1>4, <2>1, <3>1, <4>1, NewClose
    <3> QED BY <3>2 DEF ClosingAt
  <2>2. CASE ~CallClose(c)
    BY <1>1, <1>4, <2>2, FdChange DEF Alone, Opening, InFlight
  <2> QED BY <2>1, <2>2
<1>5. ASSUME ports[i] = o, NEW d \in Calls, kind[d] = "close", target[d] = o, stage[d] \in {"run", "remove"}
      PROVE  ClosingAt(o, {"run", "remove"})' \/ Panicked(o)'
  <2>1. kind'[d] = "close" /\ target'[d] = o
    BY <1>5, Kept DEF EachCall, Fresh
  <2>2. CASE d # c
    BY <1>5, <2>1, <2>2, Others DEF ClosingAt
  <2>3. CASE d = c /\ RemovePort(c)
    <3>1. handle[c] = i
      BY <1>1, <1>5, <2>3, Numbers DEF Closes, ClosesOne, Told, Table, None
    <3> QED BY <2>3, <3>1, Numbers DEF RemovePort, TypeOK, None
  <2>4. CASE d = c /\ ClosePanics(c)
    BY <2>1, <2>4 DEF ClosePanics, Post, Panicked, TypeOK
  <2>5. CASE d = c /\ ~RemovePort(c) /\ ~ClosePanics(c)
    <3>1. stage'[c] = "remove"
      BY <1>5, <2>5
      DEF Start, CallOpen, CallClose, CallList, Call, CallWrite, CallDrain, Progress, Goroutine,
          Work, Complete, OpenPort, OpenFails, OpenPanics, StartEvents, ClosePort, ReleaseEvent,
          Settle, Tell, ResumeOpen, ResumeDrain, Goto, Post, EachCall, Place, TypeOK
    <3> QED BY <2>1, <2>5, <3>1 DEF ClosingAt
  <2> QED BY <2>2, <2>3, <2>4, <2>5
<1>6. CASE ports[i] = o /\ Panicked(o)
  <2>1. kind[o] = "open" /\ stage[o] # "idle"
    BY <1>6, Numbers DEF Table, None, EachCall, Fresh
  <2>2. outcome[o] = "panic" => outcome'[o] = "panic"
    BY <2>1, Kept
  <2>3. ASSUME NEW d \in Calls, kind[d] = "close", target[d] = o, outcome[d] = "panic"
        PROVE  kind'[d] = "close" /\ target'[d] = o /\ outcome'[d] = "panic"
    BY <2>3, Kept DEF EachCall, Fresh
  <2> QED BY <1>6, <2>1, <2>2, <2>3 DEF Panicked
<1> QED
  <2>1. CASE ports[i] = o /\ stage[o] \in {"resume", "settled"}
    <3>1. fd = i \/ ClosingAt(o, {"run", "remove"}) \/ Panicked(o)
      BY <2>1, Numbers DEF Reachable, None
    <3> QED BY <1>4, <1>5, <1>6, <2>1, <3>1 DEF ClosingAt
  <2> QED BY <1>2, <1>3, <2>1

\* A read is called on the port of fd, or was called before and keeps its port.
LEMMA ReadKept ==
  ASSUME LifeInv, NEW c \in Calls, Start(c) \/ Progress(c),
         NEW r \in Calls, kind'[r] = "read"
  PROVE  \/ r = c /\ Call(c, "read")
         \/ /\ kind[r] = "read" /\ stage[r] # "idle" /\ target'[r] = target[r]
            /\ outcome'[r] = "canceled" =>
                 outcome[r] = "canceled" \/ (r = c /\ Settle(c) /\ fd = 0)
<1> USE DEF LifeInv
<1>1. CASE r # c
  BY <1>1, Others DEF EachCall, Fresh
<1>2. CASE r = c /\ Start(c)
  BY <1>2 DEF Start, CallOpen, CallClose, CallList, Call, CallWrite, CallDrain, TypeOK
<1>3. CASE r = c /\ Progress(c)
  <2>1. stage[c] # "idle"
    BY <1>3 DEF Progress, Goroutine, Work, Complete, OpenPort, OpenFails, OpenPanics, StartEvents,
          ClosePort, ClosePanics, RemovePort, ReleaseEvent, Settle, Tell, ResumeOpen, ResumeDrain
  <2>2. kind[c] = "read"
    BY <1>3, <2>1, Kept
  <2>3. Work(c, "ok") \/ Work(c, "error") \/ Settle(c)
    BY <1>3, <2>2
    DEF Progress, Goroutine, Complete, OpenPort, OpenFails, OpenPanics, StartEvents,
        ClosePort, ClosePanics, RemovePort, ReleaseEvent, ResumeOpen, ResumeDrain, EachCall, Place
  <2> QED BY <1>3, <2>1, <2>2, <2>3 DEF Work, Settle, Tell, Seen, Post, TypeOK
<1> QED BY <1>1, <1>2, <1>3

LEMMA ClosedStays ==
  ASSUME LifeInv, NEW c \in Calls, Start(c) \/ Progress(c),
         NEW r \in Calls, target'[r] = target[r], ClosedFor(r)
  PROVE  ClosedFor(r)'
<1>1. PICK d \in Calls : kind[d] = "close" /\ target[d] = target[r]
  BY DEF ClosedFor
<1>2. kind'[d] = "close" /\ target'[d] = target[d]
  BY <1>1, Kept DEF LifeInv, EachCall, Fresh
<1> QED BY <1>1, <1>2 DEF ClosedFor

\* The port of fd stays in the table.
LEMMA PortOfFd ==
  ASSUME LifeInv, NEW c \in Calls, Start(c) \/ Progress(c), fd # 0
  PROVE  CallClose(c) \/ ports'[fd] = ports[fd]
<1> USE DEF LifeInv
<1> SUFFICES ASSUME ~CallClose(c)
             PROVE  ports'[fd] = ports[fd]
  OBVIOUS
<1>1. PICK o \in Calls : o = ports[fd]
  BY DEF FdOpen, TypeOK
<1>2. Told(o) /\ NeverClosed(o) /\ handle[o] = fd /\ o # None
  BY <1>1 DEF FdOpen, Table, TypeOK
<1>3. kind'[o] = "open" /\ handle'[o] = fd
  BY <1>2, Kept DEF Told
<1>4. ~ClosingAt(o, {"release", "complete", "posted", "settled"})'
  BY <1>2, NewClose DEF NeverClosed, ClosingAt
<1> QED BY <1>1, <1>3, <1>4, RegisteredStep DEF PortsRegistered

LEMMA ReadsStep ==
  ASSUME LifeInv, disciplined, Alone, Reads, NEW c \in Calls, Start(c) \/ Progress(c)
  PROVE  Reads'
<1> USE DEF LifeInv
<1> SUFFICES ASSUME NEW r \in Calls, kind'[r] = "read"
             PROVE  /\ target'[r] # None
                    /\ (fd' # 0 /\ ports'[fd'] = target'[r]) \/ ClosedFor(r)'
                    /\ fd' # 0 => ports'[fd'] = target'[r] \/ r < ports'[fd']
                    /\ \A d \in Calls : Opening(d)' /\ stage'[d] # "resume" => r < d
                    /\ outcome'[r] = "canceled" => ClosedFor(r)'
  BY DEF Reads
<1>1. CASE r = c /\ Call(c, "read")
  <2>1. fd # 0 /\ fd' = fd /\ ports' = ports /\ ports[fd] # None
    BY <1>1 DEF Call, MayUse, jsVars, portVars, FdOpen
  <2>2. target'[c] = ports[fd] /\ outcome'[c] = "none"
    BY <1>1, <2>1 DEF Call, Invoke, TypeOK, EachCall, Fresh
  <2>3. ASSUME NEW d \in Calls, Opening(d)', stage'[d] # "resume"
        PROVE  FALSE
    <3>1. Opening(d) /\ d # c
      BY <1>1, <2>3, Others DEF Opening, InFlight
    <3> QED BY <2>1, <2>3, <3>1, Others DEF Alone
  <2> QED BY <1>1, <2>1, <2>2, <2>3
<1>2. CASE kind[r] = "read" /\ target'[r] = target[r] /\ stage[r] # "idle"
  <2>1. ClosedFor(r) => ClosedFor(r)'
    BY <1>2, ClosedStays
  <2>2. CASE fd' = fd
    <3>1. fd # 0 => ports'[fd] = ports[fd]
      <4>1. CallClose(c) => ports' = ports
        BY DEF CallClose, portVars
      <4> QED BY <4>1, PortOfFd
    <3>2. ASSUME NEW d \in Calls, Opening(d)', stage'[d] # "resume"
          PROVE  r < d
      <4>1. CASE Opening(d) /\ stage[d] # "resume"
        BY <1>2, <4>1 DEF Reads
      <4>2. CASE \E valid \in BOOLEAN : CallOpen(c, valid)
        <5>1. stage[c] = "idle" /\ \A e \in Calls : ~Opening(e)
          BY <4>2 DEF CallOpen, MayOpen, Opening
        <5>2. d = c
          BY <3>2, <5>1, NewOpen
        <5>3. r # c /\ ~(c < r)
          BY <1>2, <5>1 DEF InTurn
        <5> QED BY <5>2, <5>3, Numbers
      <4>3. CASE Opening(d) /\ stage[d] = "resume"
        <5>1. d # c => stage'[d] = "resume"
          BY <4>3, Others
        <5>2. d = c => stage'[c] = "settled"
          <6> SUFFICES ASSUME d = c
                       PROVE  stage'[c] = "settled"
            OBVIOUS
          <6>1. ResumeOpen(c)
            BY <4>3
            DEF Start, CallOpen, CallClose, CallList, Call, CallWrite, CallDrain, Progress,
                Goroutine, Work, Complete, OpenPort, OpenFails, OpenPanics, StartEvents, ClosePort,
                ClosePanics, RemovePort, ReleaseEvent, Settle, Tell, ResumeDrain
          <6> QED BY <6>1 DEF ResumeOpen, Goto, TypeOK
        <5> QED BY <3>2, <5>1, <5>2 DEF Opening, InFlight
      <4> QED BY <3>2, <4>1, <4>2, <4>3, NewOpen
    <3>3. outcome'[r] = "canceled" => ClosedFor(r)'
      BY <1>2, <2>1, ReadKept DEF Reads, Call, EachCall, Fresh
    <3> QED BY <1>2, <2>1, <2>2, <3>1, <3>2, <3>3 DEF Reads
  <2>3. CASE CallClose(c) /\ fd' = 0 /\ fd # 0
    <3>1. \A d \in Calls : ~Opening(d)
      BY <2>3 DEF CallClose, MayClose, Opening
    <3>2. ASSUME NEW d \in Calls, Opening(d)'
          PROVE  FALSE
      <4>1. ~\E valid \in BOOLEAN : CallOpen(c, valid)
        BY <2>3 DEF CallClose, CallOpen, jsVars
      <4> QED BY <3>1, <3>2, <4>1, NewOpen
    <3>3. ClosedFor(r)'
      <4>1. kind'[c] = "close"
        BY <2>3 DEF CallClose, TypeOK
      <4>2. target'[c] = ports[fd]
        BY <2>3, <4>1, NewClose
      <4>3. ports[fd] = target[r] \/ ClosedFor(r)
        BY <1>2 DEF Reads
      <4> QED BY <1>2, <2>1, <4>1, <4>2, <4>3 DEF ClosedFor
    <3> QED BY <1>2, <2>3, <3>2, <3>3 DEF Reads
  <2>4. CASE Settle(c) /\ kind[c] = "open" /\ stage[c] = "posted" /\ fd' = handle[c]
             /\ outcome[c] = "ok"
    <3>1. Opening(c) /\ fd = 0
      BY <2>4 DEF Alone, Opening, InFlight
    <3>2. ClosedFor(r)'
      BY <1>2, <2>1, <3>1 DEF Reads
    <3>3. r < c
      BY <1>2, <2>4, <3>1 DEF Reads
    <3>4. ports' = ports /\ ports[handle[c]] = c /\ stage'[c] = "resume"
      <4>1. ~ClosingAt(c, {"release", "complete", "posted", "settled"})
        BY <2>4, Numbers DEF ClosingAt, Closes, ClosesOne, Told, None
      <4> QED BY <2>4, <4>1 DEF PortsRegistered, EachCall, Opened, Settle, Tell, portVars, Goto,
                                TypeOK
    <3>5. ASSUME NEW d \in Calls, Opening(d)', stage'[d] # "resume"
          PROVE  FALSE
      <4>1. d # c
        BY <3>4, <3>5
      <4>2. Opening(d)
        BY <3>5, <4>1, NewOpen
      <4> QED BY <3>1, <4>1, <4>2 DEF Alone
    <3> QED BY <1>2, <2>4, <3>2, <3>3, <3>4, <3>5 DEF Reads
  <2> QED BY <2>2, <2>3, <2>4, FdChange
<1> QED BY <1>1, <1>2, ReadKept

LEMMA InvStart == Init => Inv
<1> SUFFICES ASSUME Init
             PROVE  Inv
  OBVIOUS
<1> QED BY LifeStart DEF Init, Inv, Alone, OnOpenPort, Reachable, Reads, Opening, InFlight, None

LEMMA InvStep == Inv /\ [Next]_vars => Inv'
<1> SUFFICES ASSUME Inv, [Next]_vars
             PROVE  Inv'
  OBVIOUS
<1>1. LifeInv'
  BY LifeStep DEF Inv
<1>2. CASE UNCHANGED vars
  BY <1>1, <1>2
  DEF Inv, vars, callVars, jsVars, portVars, Alone, OnOpenPort, Reachable, Reads, Opening,
      InFlight, ClosingAt, Panicked, ClosedFor
<1>3. ASSUME NEW c \in Calls, Start(c) \/ Progress(c)
      PROVE  Inv'
  BY <1>1, <1>3, SameProgram, AloneStep, OnOpenPortStep, ReachableStep, ReadsStep DEF Inv
<1> QED BY <1>2, <1>3, StepIsOfCall

LEMMA Always == Spec => []Inv
BY InvStart, InvStep, PTL DEF Spec

-----------------------------------------------------------------------------
(* Theorems *)

\* addon.cc:55: as long as every call is made on an open port, a PendingOp is
\* registered before Go may complete the call, taken once, and gone after it.
THEOREM OpsMatch == Spec => []DisciplinedOpsMatchCalls
<1>1. Inv => DisciplinedOpsMatchCalls
  BY DEF Inv, LifeInv, EachCall, Pending, OnOpenPort, DisciplinedOpsMatchCalls, OpsMatchCalls
<1> QED BY <1>1, Always, PTL

\* FastSerial.isOpen never claims a port that is gone (lib/index.js).
THEOREM OpenAgrees == Spec => []IsOpenAgrees
<1>1. Inv => IsOpenAgrees
  BY DEF Inv, OnOpenPort, IsOpenAgrees
<1> QED BY <1>1, Always, PTL

\* A port in the table is the one of fd, or being opened or closed, or was lost
\* to a panic: a disciplined program leaks none.
THEOREM NoPortLost == Spec => []PortsReachable
<1>1. Inv => PortsReachable
  <2> SUFFICES ASSUME Inv, disciplined, NEW i \in Ids, ports[i] # None, ~InFlight(ports[i])
               PROVE  fd = i \/ ClosingAt(ports[i], {"run", "remove"}) \/ Panicked(ports[i])
    BY DEF PortsReachable
  <2>1. ports[i] \in Calls /\ kind[ports[i]] = "open"
    BY DEF Inv, LifeInv, TypeOK, Table
  <2>2. stage[ports[i]] # "idle"
    BY <2>1 DEF Inv, LifeInv, EachCall, Fresh
  <2> QED BY <2>2 DEF Inv, Reachable, InFlight
<1> QED BY <1>1, Always, PTL

\* The catch of SerialBinding.read takes a failure for a cancellation only if
\* the port of the read had been closed (lib/bindings.js).
THEOREM CanceledClosed == Spec => []CanceledMeansClosed
<1>1. Inv => CanceledMeansClosed
  BY DEF Inv, LifeInv, EachCall, Place, Reads, CanceledMeansClosed
<1> QED BY <1>1, Always, PTL

\* The other way round, for the steps of a disciplined program: a read that
\* fails after its port was closed is reported as canceled, unless an open made
\* after it has given fd a port again.
THEOREM ClosedCanceled == Spec /\ disciplined => CloseCancels
<1> DEFINE Step == \A c \in Calls :
       kind[c] = "read" /\ stage[c] = "posted" /\ stage'[c] = "settled"
         /\ outcome'[c] \notin {"ok", "canceled"}
       => \/ ~ClosedFor(c)
          \/ \E d \in Calls : /\ kind[d] = "open" /\ d > c
                             /\ stage[d] \in {"resume", "settled"} /\ outcome[d] = "ok"
<1>1. Inv /\ disciplined /\ [Next]_vars => Step
  <2> SUFFICES ASSUME Inv, disciplined, [Next]_vars, NEW r \in Calls, kind[r] = "read",
                      stage[r] = "posted", stage'[r] = "settled",
                      outcome'[r] \notin {"ok", "canceled"}, ClosedFor(r)
               PROVE  \E d \in Calls : /\ kind[d] = "open" /\ d > r
                                       /\ stage[d] \in {"resume", "settled"} /\ outcome[d] = "ok"
    OBVIOUS
  <2> USE DEF Inv, LifeInv
  <2>1. PICK c \in Calls : Start(c) \/ Progress(c)
    BY StepIsOfCall DEF vars, callVars
  <2>2. Settle(r)
    <3>1. c = r
      BY <2>1, Others
    <3> QED
      BY <2>1, <3>1
      DEF Start, CallOpen, CallClose, CallList, Call, CallWrite, CallDrain, Progress, Goroutine,
          Work, Complete, OpenPort, OpenFails, OpenPanics, StartEvents, ClosePort, ClosePanics,
          RemovePort, ReleaseEvent, ResumeOpen, ResumeDrain
  <2>3. fd # 0
    BY <2>2 DEF Settle, Tell, Seen, TypeOK
  <2>4. /\ ports[fd] \in Calls /\ Told(ports[fd]) /\ NeverClosed(ports[fd])
        /\ ports[fd] = target[r] \/ r < ports[fd]
    BY <2>3 DEF FdOpen, TypeOK, Reads
  <2>5. r < ports[fd]
    BY <2>4 DEF NeverClosed, ClosedFor
  <2> QED BY <2>4, <2>5, Numbers DEF Told
<1>2. disciplined /\ [Next]_vars => disciplined'
  BY StepIsOfCall, SameProgram DEF vars
<1> HIDE DEF Step
<1>3. Spec /\ disciplined => [][Step]_vars
  BY <1>1, <1>2, Always, PTL DEF Spec
<1> QED BY <1>3 DEF CloseCancels, Step
===============================================================================
