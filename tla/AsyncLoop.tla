------------------------------- MODULE AsyncLoop -------------------------------
(***************************************************************************)
(* The JS loop thread as the addon's ThreadSafeFunctions see it (external: *)
(* Node-API and libuv).  Each ThreadSafeFunction wakes the loop with a     *)
(* libuv async handle of its own; which handle the loop serves first is    *)
(* libuv's affair:                                                         *)
(*   "windows"  wake-ups are posted to a FIFO completion port;             *)
(*   "unix"     a pass looks at every handle in turn, in the order in      *)
(*              which they were created.                                   *)
(* One dispatch of a handle makes at most Quota calls to JS.               *)
(***************************************************************************)
EXTENDS Integers, Sequences

CONSTANTS
  Quota,      \* calls to JS in one dispatch of a ThreadSafeFunction
  Platforms   \* which kinds of loop to consider

ASSUME LoopAssumption ==
  /\ Quota \in Nat \ {0}
  /\ Platforms \subseteq {"windows", "unix"}

VARIABLES
  platform,   \* the loop of this behaviour
  running,    \* the handle the loop dispatches, or "none"
  left,       \* calls this dispatch may still make
  pending,    \* handles with a wake-up not served yet
  todo        \* handles the loop will look at, in this order

wakeVars == <<running, pending, todo>>
asyncVars == <<platform, wakeVars, left>>

LoopTypeOK(handles) ==
  /\ platform \in Platforms
  /\ running \in handles \union {"none"}
  /\ left \in 0..Quota
  /\ pending \subseteq handles
  /\ todo \in Seq(handles)

LoopInit ==
  /\ platform \in Platforms
  /\ running = "none"
  /\ left = 0
  /\ pending = {}
  /\ todo = <<>>

Idle == running = "none" /\ todo = <<>> /\ pending = {}

\* uv_async_send: a wake-up still pending is not posted twice.
Wake(h) ==
  IF h \in pending
  THEN UNCHANGED <<pending, todo>>
  ELSE /\ pending' = pending \union {h}
       /\ todo' = IF platform = "windows" THEN Append(todo, h) ELSE todo

\* ThreadSafeFunction's Send.  A dispatch that is running sees what was queued
\* meanwhile.
Signal(h) ==
  /\ IF running = h THEN UNCHANGED <<pending, todo>> ELSE Wake(h)
  /\ UNCHANGED <<platform, running, left>>

\* libuv on Unix: a pass over all async handles, in the order of creation.
StartPass(handles) ==
  /\ platform = "unix"
  /\ running = "none" /\ todo = <<>> /\ pending # {}
  /\ todo' = handles
  /\ UNCHANGED <<platform, running, pending, left>>

\* The next handle: if it has a wake-up, its dispatch begins.
Visit ==
  /\ running = "none" /\ todo # <<>>
  /\ todo' = Tail(todo)
  /\ pending' = pending \ {Head(todo)}
  /\ IF Head(todo) \in pending
     THEN running' = Head(todo) /\ left' = Quota
     ELSE UNCHANGED <<running, left>>
  /\ UNCHANGED platform

\* The dispatch of h makes a call.
Take(h) ==
  /\ running = h /\ left > 0
  /\ left' = left - 1
  /\ UNCHANGED <<platform, wakeVars>>

\* The dispatch of h ends; if only for the quota, the handle is woken again.
EndDispatch(h, more) ==
  /\ running = h
  /\ more => left = 0
  /\ running' = "none"
  /\ IF more THEN Wake(h) ELSE UNCHANGED <<pending, todo>>
  /\ UNCHANGED <<platform, left>>

================================================================================
