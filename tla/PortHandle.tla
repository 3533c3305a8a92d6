------------------------------ MODULE PortHandle ------------------------------
(***************************************************************************)
(* The Go portHandle (go-serial/serial.go) and the native calls that use   *)
(* it (go-serial/api.go): one open port shared by concurrent goroutines.   *)
(*                                                                         *)
(* Each call runs in a goroutine of its own, except getBaudRate, which     *)
(* runs on the JS loop thread.  Calls are kept apart by two "conches",     *)
(* one-slot channels that hold a token while free, and by the mutex        *)
(* muMode; Close takes none of them.  A lock is held until the function    *)
(* returns, its release being deferred, so the locks a call holds are      *)
(* always a prefix of the ones it acquires, released last first.           *)
(*                                                                         *)
(* Time is abstract: expired[c] says that the deadline of call c is past.  *)
(* The port (go.bug.st/serial) is external: it delivers bytes, accepts     *)
(* bytes, times out, fails or panics as it likes.                          *)
(***************************************************************************)
EXTENDS Integers, Sequences, FiniteSets

CONSTANTS
  Calls,     \* the native calls of a behaviour; each is made once
  Kinds,     \* the operations these calls may be
  DataLen,   \* bytes a read asks for, a write carries, a batch holds
  MaxRx,     \* bytes the device ever sends (bounds the behaviour)
  Bauds,     \* baud rates, the one the port is opened with among them
  OpenBaud

Operations == {"read", "write", "echo", "bufferedRead", "update", "set", "get",
               "getBaudRate", "drain", "flush", "close"}

ASSUME PortAssumption ==
  /\ Kinds \subseteq Operations
  /\ DataLen \in Nat \ {0}
  /\ MaxRx \in Nat
  /\ Bauds \subseteq Nat \ {0}
  /\ OpenBaud \in Bauds

VARIABLES
  kind,        \* the operation of each call, "none" before it is made
  pc,          \* where its goroutine is
  held,        \* how many of LocksOf its operation holds
  expired,     \* whether its deadline is past
  count,       \* received, written or filled: the byte counter of its loop
  outcome,     \* what the function returns, "none" while it runs
  token,       \* tokens in readConch and writeConch; 1 while muMode is unlocked
  modeBaud,    \* p.mode.BaudRate
  devBaud,     \* the rate the device is set to
  registered,  \* the handle is in manager.ports
  portOpen,    \* serial.Port is open
  wire,        \* bytes the port accepted: whose, and at which rate it was then
  rx,          \* bytes the port handed out or discarded
  got          \* which of them each call took

callVars == <<kind, pc, held, expired, count, outcome>>
modeVars == <<modeBaud, devBaud>>
portVars == <<registered, portOpen>>
lineVars == <<wire, rx, got>>
vars == <<callVars, token, modeVars, portVars, lineVars>>

Locks == {"read", "write", "mode"}
Conches == {"read", "write"}

\* Variants of UpdateLocks and EchoLocks a slip in the code would give: the
\* conches swapped, muMode locked first, one lock forgotten.
UpdateLocksSwapped == <<"read", "write", "mode">>
UpdateLocksModeFirst == <<"mode", "write", "read">>
UpdateLocksNoWrite == <<"read", "mode">>
UpdateLocksNoMode == <<"write", "read">>
EchoLocksNoRead == <<"write">>

\* SetBaudRate keeps both directions out, then locks the mode it changes.
UpdateLocks == <<"write", "read", "mode">>

\* Write with echo set reads its own bytes back.
EchoLocks == <<"write", "read">>

\* Variants of LocksOf: writes, or buffered reads, that forget their conch.
LocksOfFreeWrite ==
  [k \in Operations \union {"none"} |->
     CASE k \in {"read", "bufferedRead"} -> <<"read">>
       [] k = "echo"                     -> EchoLocks
       [] k = "update"                   -> UpdateLocks
       [] k = "getBaudRate"              -> <<"mode">>
       [] OTHER                          -> <<>>]
LocksOfFreeBufferedRead ==
  [k \in Operations \union {"none"} |->
     CASE k = "read"                     -> <<"read">>
       [] k = "write"                    -> <<"write">>
       [] k = "echo"                     -> EchoLocks
       [] k = "update"                   -> UpdateLocks
       [] k = "getBaudRate"              -> <<"mode">>
       [] OTHER                          -> <<>>]

\* What each operation acquires, in order, before it touches the port.
LocksOf ==
  [k \in Operations \union {"none"} |->
     CASE k \in {"read", "bufferedRead"} -> <<"read">>
       [] k = "write"                    -> <<"write">>
       [] k = "echo"                     -> EchoLocks
       [] k = "update"                   -> UpdateLocks
       [] k = "getBaudRate"              -> <<"mode">>
       [] OTHER                          -> <<>>]

Outcomes == {"none", "ok", "invalidHandle", "deadlineExceeded", "ioTimeout",
             "writeTimeout", "portError", "panic"}

TypeOK ==
  /\ kind \in [Calls -> Kinds \union {"none"}]
  /\ pc \in [Calls -> {"idle", "acquire", "io", "echo", "emit", "setMode",
                       "resetOutput", "remove", "unwind", "done"}]
  /\ held \in [Calls -> 0..3]
  /\ expired \in [Calls -> BOOLEAN]
  /\ count \in [Calls -> 0..DataLen]
  /\ outcome \in [Calls -> Outcomes]
  /\ token \in [Locks -> 0..1]
  /\ modeBaud \in Bauds
  /\ devBaud \in Bauds
  /\ registered \in BOOLEAN
  /\ portOpen \in BOOLEAN
  /\ wire \in Seq([call : Calls, baud : Bauds])
  /\ rx \in 0..MaxRx
  /\ got \in [Calls -> SUBSET (1..MaxRx)]

Init ==
  /\ kind = [c \in Calls |-> "none"]
  /\ pc = [c \in Calls |-> "idle"]
  /\ held = [c \in Calls |-> 0]
  /\ expired = [c \in Calls |-> FALSE]
  /\ count = [c \in Calls |-> 0]
  /\ outcome = [c \in Calls |-> "none"]
  /\ token = [l \in Locks |-> 1]
  /\ modeBaud = OpenBaud
  /\ devBaud = OpenBaud
  /\ registered = TRUE
  /\ portOpen = TRUE
  /\ wire = <<>>
  /\ rx = 0
  /\ got = [c \in Calls |-> {}]

-----------------------------------------------------------------------------
(* Helpers *)

Goto(c, label) == pc' = [pc EXCEPT ![c] = label]

\* The function returns out: its deferred releases run next.
Return(c, out) ==
  /\ outcome' = [outcome EXCEPT ![c] = out]
  /\ Goto(c, "unwind")

Held(c) == {LocksOf[kind[c]][i] : i \in 1..held[c]}

NextLock(c) == LocksOf[kind[c]][held[c] + 1]

\* getBaudRate occupies the JS loop thread from its dispatch to its completion.
LoopBusy == \E c \in Calls : kind[c] = "getBaudRate" /\ pc[c] # "done"

\* The port hands n bytes to call c.
Receive(c, n) ==
  /\ portOpen
  /\ rx + n <= MaxRx
  /\ rx' = rx + n
  /\ got' = [got EXCEPT ![c] = @ \union (rx + 1)..(rx + n)]

\* The port accepts n bytes from call c.  It may send them later: its output
\* buffer is not modelled, nor that SetBaudRate does not wait for it to drain.
Send(c, n) ==
  /\ n > 0 => portOpen
  /\ wire' = wire \o [i \in 1..n |-> [call |-> c, baud |-> devBaud]]

-----------------------------------------------------------------------------
(* Starting a call, taking its locks, returning *)

\* fsp_*_async on the loop thread: look the handle up, start the goroutine.
\* The exported functions may be called at any time, after a close too.
Dispatch(c, k) ==
  /\ pc[c] = "idle"
  /\ ~LoopBusy
  /\ kind' = [kind EXCEPT ![c] = k]
  /\ IF registered
     THEN /\ Goto(c, IF LocksOf[k] = <<>> THEN "io" ELSE "acquire")
          /\ UNCHANGED outcome
     ELSE /\ Goto(c, "done")
          /\ outcome' = [outcome EXCEPT ![c] = "invalidHandle"]
  /\ UNCHANGED <<held, expired, count, token, modeVars, portVars, lineVars>>

\* The deadline passes.  The other operations have none.
Expire(c) ==
  /\ pc[c] \in {"acquire", "io", "echo"}
  /\ kind[c] \in {"read", "write", "echo", "bufferedRead", "update"}
  /\ ~expired[c]
  /\ expired' = [expired EXCEPT ![c] = TRUE]
  /\ UNCHANGED <<kind, pc, held, count, outcome, token, modeVars, portVars,
                 lineVars>>

\* The variant of Acquire that does not wait for the lock to be free.
AcquireUnguarded(c) ==
  /\ pc[c] = "acquire"
  /\ token' = [token EXCEPT ![NextLock(c)] = @ - 1]
  /\ held' = [held EXCEPT ![c] = @ + 1]
  /\ Goto(c, IF held[c] + 1 = Len(LocksOf[kind[c]]) THEN "io" ELSE "acquire")
  /\ UNCHANGED <<kind, expired, count, outcome, modeVars, portVars, lineVars>>

\* Take the next lock.  BufferedRead's idleDeadline is set once it has the
\* conch; every other deadline runs from the start of the call.
Acquire(c) ==
  /\ pc[c] = "acquire"
  /\ token[NextLock(c)] = 1
  /\ token' = [token EXCEPT ![NextLock(c)] = 0]
  /\ held' = [held EXCEPT ![c] = @ + 1]
  /\ expired' = [expired EXCEPT ![c] = @ /\ kind[c] # "bufferedRead"]
  /\ Goto(c, IF held[c] + 1 = Len(LocksOf[kind[c]]) THEN "io" ELSE "acquire")
  /\ UNCHANGED <<kind, count, outcome, modeVars, portVars, lineVars>>

\* The deadline is past before the conch is free, or both are ready and
\* select picks the deadline.  muMode is waited for without a deadline.
AcquireTimeout(c) ==
  /\ pc[c] = "acquire"
  /\ NextLock(c) \in Conches
  /\ expired[c]
  /\ Return(c, IF kind[c] = "bufferedRead" THEN "ioTimeout"
                                           ELSE "deadlineExceeded")
  /\ UNCHANGED <<kind, held, expired, count, token, modeVars, portVars,
                 lineVars>>

\* The variant of Unwind a forgotten defer gives: the token is not put back.
UnwindKeepsToken(c) ==
  /\ pc[c] = "unwind"
  /\ held[c] > 0
  /\ held' = [held EXCEPT ![c] = @ - 1]
  /\ UNCHANGED <<kind, pc, expired, count, outcome, token, modeVars, portVars,
                 lineVars>>

\* A deferred release: the send waits for room in the one-slot channel.
Unwind(c) ==
  /\ pc[c] = "unwind"
  /\ held[c] > 0
  /\ LET l == LocksOf[kind[c]][held[c]] IN
       /\ token[l] = 0
       /\ token' = [token EXCEPT ![l] = 1]
  /\ held' = [held EXCEPT ![c] = @ - 1]
  /\ UNCHANGED <<kind, pc, expired, count, outcome, modeVars, portVars,
                 lineVars>>

\* completeErr or completeNum, once every deferred release has run.  The
\* goroutine ends and its deadline and counter go with it.
Complete(c) ==
  /\ pc[c] = "unwind"
  /\ held[c] = 0
  /\ Goto(c, "done")
  /\ expired' = [expired EXCEPT ![c] = FALSE]
  /\ count' = [count EXCEPT ![c] = 0]
  /\ UNCHANGED <<kind, held, outcome, token, modeVars, portVars, lineVars>>

\* A port operation, or the allocation of the next batch after an emit,
\* panics; autoRecover reports it after the deferred releases.
Panic(c) ==
  /\ pc[c] \in {"io", "echo", "emit", "setMode", "resetOutput"}
  /\ kind[c] # "getBaudRate"
  /\ Return(c, "panic")
  /\ UNCHANGED <<kind, held, expired, count, token, modeVars, portVars,
                 lineVars>>

-----------------------------------------------------------------------------
(* Read *)

\* The buffer is full, or the deadline is past: not an error.
ReadReturn(c) ==
  /\ kind[c] = "read" /\ pc[c] = "io"
  /\ count[c] = DataLen \/ expired[c]
  /\ Return(c, "ok")
  /\ UNCHANGED <<kind, held, expired, count, token, modeVars, portVars,
                 lineVars>>

\* port.Read returns n bytes.
ReadSome(c, n) ==
  /\ kind[c] = "read" /\ pc[c] = "io"
  /\ ~expired[c]
  /\ count[c] + n <= DataLen
  /\ Receive(c, n)
  /\ count' = [count EXCEPT ![c] = @ + n]
  /\ UNCHANGED <<kind, pc, held, expired, outcome, token, modeVars, portVars,
                 wire>>

\* port.Read returns nothing: the whole remaining time has gone by.
ReadNothing(c) ==
  /\ kind[c] = "read" /\ pc[c] = "io"
  /\ portOpen
  /\ count[c] < DataLen
  /\ expired' = [expired EXCEPT ![c] = TRUE]
  /\ Return(c, "ok")
  /\ UNCHANGED <<kind, held, count, token, modeVars, portVars, lineVars>>

\* SetReadTimeout, Read, Write, ResetInputBuffer or a call of PortCall fails:
\* the function returns the error.  What a read had received is dropped.
PortError(c) ==
  /\ \/ kind[c] = "read" /\ pc[c] = "io" /\ ~expired[c] /\ count[c] < DataLen
     \/ kind[c] = "echo" /\ pc[c] = "io" /\ count[c] < DataLen
     \/ kind[c] = "echo" /\ pc[c] = "echo" /\ ~expired[c]
     \/ kind[c] = "flush" /\ pc[c] \in {"io", "resetOutput"}
     \/ kind[c] \in {"set", "get", "drain"} /\ pc[c] = "io"
  /\ Return(c, "portError")
  /\ UNCHANGED <<kind, held, expired, count, token, modeVars, portVars,
                 lineVars>>

-----------------------------------------------------------------------------
(* Write: writeNormal and writeEcho *)

\* writeNormal's loop condition fails: all of data is written.
WriteReturn(c) ==
  /\ kind[c] \in {"write", "echo"} /\ pc[c] = "io"
  /\ count[c] = DataLen
  /\ Return(c, "ok")
  /\ UNCHANGED <<kind, held, expired, count, token, modeVars, portVars,
                 lineVars>>

\* port.Write accepts n bytes; short of the end, a deadline past is an error.
WriteSome(c, n) ==
  /\ kind[c] = "write" /\ pc[c] = "io"
  /\ portOpen
  /\ count[c] < DataLen
  /\ count[c] + n <= DataLen
  /\ Send(c, n)
  /\ count' = [count EXCEPT ![c] = @ + n]
  /\ IF count[c] + n < DataLen /\ expired[c]
     THEN Return(c, "writeTimeout")
     ELSE UNCHANGED <<pc, outcome>>
  /\ UNCHANGED <<kind, held, expired, token, modeVars, portVars, rx, got>>

\* port.Write fails after accepting n bytes.
WriteError(c, n) ==
  /\ kind[c] = "write" /\ pc[c] = "io"
  /\ count[c] < DataLen
  /\ count[c] + n <= DataLen
  /\ Send(c, n)
  /\ count' = [count EXCEPT ![c] = @ + n]
  /\ Return(c, "portError")
  /\ UNCHANGED <<kind, held, expired, token, modeVars, portVars, rx, got>>

\* writeEcho sends byte count+1 and goes on to wait for its echo.
EchoSend(c) ==
  /\ kind[c] = "echo" /\ pc[c] = "io"
  /\ portOpen
  /\ count[c] < DataLen
  /\ Send(c, 1)
  /\ Goto(c, "echo")
  /\ UNCHANGED <<kind, held, expired, count, outcome, token, modeVars,
                 portVars, rx, got>>

\* The byte was not accepted and the deadline is past.
EchoSendTimeout(c) ==
  /\ kind[c] = "echo" /\ pc[c] = "io"
  /\ portOpen
  /\ count[c] < DataLen
  /\ expired[c]
  /\ Return(c, "writeTimeout")
  /\ UNCHANGED <<kind, held, expired, count, token, modeVars, portVars,
                 lineVars>>

\* One byte comes back: the same one, or another that is thrown away.
EchoReceive(c, same) ==
  /\ kind[c] = "echo" /\ pc[c] = "echo"
  /\ ~expired[c]
  /\ Receive(c, 1)
  /\ IF same
     THEN /\ count' = [count EXCEPT ![c] = @ + 1]
          /\ Goto(c, "io")
     ELSE UNCHANGED <<pc, count>>
  /\ UNCHANGED <<kind, held, expired, outcome, token, modeVars, portVars,
                 wire>>

\* The variant of EchoTimeout a slip in the loop would give: it polls on.
EchoTimeoutIgnored(c) ==
  /\ kind[c] = "echo" /\ pc[c] = "echo"
  /\ expired[c]
  /\ UNCHANGED vars

\* The echo is still missing when the deadline is past.
EchoTimeout(c) ==
  /\ kind[c] = "echo" /\ pc[c] = "echo"
  /\ expired[c]
  /\ Return(c, "writeTimeout")
  /\ UNCHANGED <<kind, held, expired, count, token, modeVars, portVars,
                 lineVars>>

-----------------------------------------------------------------------------
(* BufferedRead: batch is abstracted to its fill level, count (see ChunkStream) *)

\* flush, then return out: the emit of a non-empty batch comes first.
FlushAndReturn(c, out) ==
  /\ outcome' = [outcome EXCEPT ![c] = out]
  /\ Goto(c, IF count[c] > 0 THEN "emit" ELSE "unwind")

\* idleDeadline is past.
BufferedReadIdle(c) ==
  /\ kind[c] = "bufferedRead" /\ pc[c] = "io"
  /\ expired[c]
  /\ FlushAndReturn(c, "ok")
  /\ UNCHANGED <<kind, held, expired, count, token, modeVars, portVars,
                 lineVars>>

\* SetReadTimeout or Read fails.
BufferedReadError(c) ==
  /\ kind[c] = "bufferedRead" /\ pc[c] = "io"
  /\ ~expired[c]
  /\ FlushAndReturn(c, "portError")
  /\ UNCHANGED <<kind, held, expired, count, token, modeVars, portVars,
                 lineVars>>

\* A poll ends with no data: what the batch holds is emitted.
BufferedReadGap(c) ==
  /\ kind[c] = "bufferedRead" /\ pc[c] = "io"
  /\ portOpen
  /\ ~expired[c]
  /\ count[c] > 0
  /\ Goto(c, "emit")
  /\ UNCHANGED <<kind, held, expired, count, outcome, token, modeVars,
                 portVars, lineVars>>

\* n bytes arrive: idleDeadline starts anew, a full batch is emitted.
BufferedReadData(c, n) ==
  /\ kind[c] = "bufferedRead" /\ pc[c] = "io"
  /\ ~expired[c]
  /\ count[c] + n <= DataLen
  /\ Receive(c, n)
  /\ count' = [count EXCEPT ![c] = @ + n]
  /\ Goto(c, IF count[c] + n = DataLen THEN "emit" ELSE "io")
  /\ UNCHANGED <<kind, held, expired, outcome, token, modeVars, portVars,
                 wire>>

\* fsp_emit_chunk comes back.  It may have been parked until the JS loop took
\* a chunk off the queue.
Emitted(c) ==
  /\ pc[c] = "emit"
  /\ count' = [count EXCEPT ![c] = 0]
  /\ Goto(c, IF outcome[c] = "none" THEN "io" ELSE "unwind")
  /\ UNCHANGED <<kind, held, expired, outcome, token, modeVars, portVars,
                 lineVars>>

-----------------------------------------------------------------------------
(* SetBaudRate and BaudRate *)

\* p.mode.BaudRate = baud, unless baud is 0; SetMode is called next.
UpdateMode(c, baud) ==
  /\ kind[c] = "update" /\ pc[c] = "io"
  /\ modeBaud' = IF baud = 0 THEN modeBaud ELSE baud
  /\ Goto(c, "setMode")
  /\ UNCHANGED <<kind, held, expired, count, outcome, token, devBaud,
                 portVars, lineVars>>

\* port.SetMode applies the whole mode.
SetMode(c) ==
  /\ pc[c] = "setMode"
  /\ portOpen
  /\ devBaud' = modeBaud
  /\ Return(c, "ok")
  /\ UNCHANGED <<kind, held, expired, count, token, modeBaud, portVars,
                 lineVars>>

\* port.SetMode fails: p.mode keeps the new rate.
SetModeError(c) ==
  /\ pc[c] = "setMode"
  /\ Return(c, "portError")
  /\ UNCHANGED <<kind, held, expired, count, token, modeVars, portVars,
                 lineVars>>

\* BaudRate reads p.mode.BaudRate under muMode.
ReadBaudRate(c) ==
  /\ kind[c] = "getBaudRate" /\ pc[c] = "io"
  /\ Return(c, "ok")
  /\ UNCHANGED <<kind, held, expired, count, token, modeVars, portVars,
                 lineVars>>

-----------------------------------------------------------------------------
(* The operations that take no lock *)

\* ApplyControlLines (PortSettings has the lines), ModemStatus, Drain.  A set
\* of nothing calls nothing, and succeeds on a port that is closed.
PortCall(c) ==
  /\ kind[c] \in {"set", "get", "drain"} /\ pc[c] = "io"
  /\ portOpen \/ kind[c] = "set"
  /\ Return(c, "ok")
  /\ UNCHANGED <<kind, held, expired, count, token, modeVars, portVars,
                 lineVars>>

\* ResetInputBuffer discards up to n bytes nobody has read.
FlushInput(c, n) ==
  /\ kind[c] = "flush" /\ pc[c] = "io"
  /\ portOpen
  /\ rx + n <= MaxRx
  /\ rx' = rx + n
  /\ Goto(c, "resetOutput")
  /\ UNCHANGED <<kind, held, expired, count, outcome, token, modeVars,
                 portVars, wire, got>>

\* ResetOutputBuffer discards bytes the port accepted and has not yet sent,
\* which stay in wire: that is what was accepted.
FlushOutput(c) ==
  /\ pc[c] = "resetOutput"
  /\ portOpen
  /\ Return(c, "ok")
  /\ UNCHANGED <<kind, held, expired, count, token, modeVars, portVars,
                 lineVars>>

\* port.Close: reads and writes in flight, and later ones, fail from now on.
\* It may report an error, on a second close for one.
ClosePort(c) ==
  /\ kind[c] = "close" /\ pc[c] = "io"
  /\ portOpen' = FALSE
  /\ \E out \in {"ok", "portError"} : outcome' = [outcome EXCEPT ![c] = out]
  /\ Goto(c, "remove")
  /\ UNCHANGED <<kind, held, expired, count, token, modeVars, registered,
                 lineVars>>

\* manager.remove.
RemoveHandle(c) ==
  /\ pc[c] = "remove"
  /\ registered' = FALSE
  /\ Goto(c, "unwind")
  /\ UNCHANGED <<kind, held, expired, count, outcome, token, modeVars,
                 portOpen, lineVars>>

-----------------------------------------------------------------------------

\* One step of the goroutine of call c that no failure causes.
Work(c) ==
  \/ Acquire(c) \/ AcquireTimeout(c) \/ Unwind(c) \/ Complete(c)
  \/ ReadReturn(c) \/ (\E n \in 1..DataLen : ReadSome(c, n)) \/ ReadNothing(c)
  \/ WriteReturn(c) \/ (\E n \in 0..DataLen : WriteSome(c, n))
  \/ EchoSend(c) \/ EchoSendTimeout(c) \/ EchoTimeout(c)
  \/ \E same \in BOOLEAN : EchoReceive(c, same)
  \/ BufferedReadIdle(c) \/ BufferedReadGap(c)
  \/ (\E n \in 1..DataLen : BufferedReadData(c, n)) \/ Emitted(c)
  \/ (\E baud \in Bauds \union {0} : UpdateMode(c, baud))
  \/ SetMode(c) \/ ReadBaudRate(c)
  \/ PortCall(c)
  \/ (\E n \in 0..MaxRx : FlushInput(c, n)) \/ FlushOutput(c)
  \/ ClosePort(c) \/ RemoveHandle(c)

\* A port operation of call c returns an error.
PortFails(c) ==
  \/ PortError(c) \/ (\E n \in 0..DataLen : WriteError(c, n))
  \/ BufferedReadError(c) \/ SetModeError(c)

Run(c) == Work(c) \/ PortFails(c) \/ Panic(c)

\* Nothing is left to do: every call has been made and has completed.
Finished ==
  /\ \A c \in Calls : pc[c] = "done"
  /\ UNCHANGED vars

Next ==
  \/ \E c \in Calls : \/ \E k \in Kinds : Dispatch(c, k)
                      \/ Expire(c)
                      \/ Run(c)
  \/ Finished

Spec == Init /\ [][Next]_vars

\* The Go scheduler runs every goroutine that can run, port operations come
\* back, those of a closed port with an error, and time passes.  An open port
\* need never fail, nothing need panic; whether and when calls are made is open.
Fairness ==
  \A c \in Calls : /\ WF_vars(Work(c) \/ (~portOpen /\ PortFails(c)))
                   /\ WF_vars(Expire(c))

FairSpec == Spec /\ Fairness

-----------------------------------------------------------------------------
(* Properties *)

\* The token of each lock is in one place only: in the channel (or the mutex
\* unlocked), or owed by the one call that will put it back.  So a deferred
\* release never blocks and no error path, timeout or panic loses a conch.
LockInv ==
  /\ \A l \in Locks : token[l] = 1 <=> \A c \in Calls : l \notin Held(c)
  /\ \A c, d \in Calls : c # d => Held(c) \intersect Held(d) = {}

\* The call is between its first port.Read or port.Write and its return.
InPortIO(c) ==
  /\ kind[c] \in {"read", "write", "echo", "bufferedRead"}
  /\ pc[c] \in {"io", "echo", "emit"}

\* "It holds both conches for the duration so the mode change can't race an
\* in-flight read or write" (serial.go:330).
ModeChangeExclusive ==
  \A c, d \in Calls : pc[c] = "setMode" => ~InPortIO(d)

\* A call is before a side until it holds its conch, and after it once it has
\* put the conch back, given up waiting for it, or completed.
Status ==
  [c \in Calls |-> [s \in Conches |->
     IF s \in Held(c) THEN "inside"
     ELSE IF \/ pc[c] = "done"
             \/ pc[c] = "unwind" /\ \E i \in DOMAIN LocksOf[kind[c]] :
                                      LocksOf[kind[c]][i] = s
          THEN "after"
          ELSE "before"]]

Access == INSTANCE PortAccess WITH status <- Status

\* The conches give the sides of PortAccess: every step of the code is one of
\* its steps or changes nothing it speaks of.
ImplementsAccess == Access!Spec

\* What the port accepts of each write is one piece, accepted at one baud rate:
\* no other write gets between its bytes and no mode change between the calls of
\* port.Write.  (A mode change after the write has returned may still overtake
\* bytes in the output buffer; a program that minds calls drain.)
FramesIntact == Access!FramesIntact

\* No reader takes bytes from the middle of what another one reads: "a
\* concurrent read can't steal bytes" (serial.go:254).
NoStolenBytes == Access!NoStolenBytes

\* Call c waits for a lock that d holds.
WaitsOn(c, d) == pc[c] = "acquire" /\ c # d /\ NextLock(c) \in Held(d)

\* No set of calls in which each waits for another of them: the conches are
\* taken in a consistent order, which "avoids an AB-BA deadlock".
NoCircularWait ==
  \A S \in (SUBSET Calls) \ {{}} : \E c \in S : \A d \in S : ~WaitsOn(c, d)

\* getBaudRate locks muMode on the JS loop thread.  It never waits, directly
\* or through other calls, for a call parked in fsp_emit_chunk, which only the
\* loop thread can wake.
LoopNeverWaitsForItself ==
  \A c, d, e, f \in Calls :
    /\ kind[c] = "getBaudRate" /\ WaitsOn(c, d)
    /\ e = d \/ WaitsOn(d, e)
    /\ f = e \/ WaitsOn(e, f)
    => pc[f] # "emit"

\* Outside a mode change the rate BaudRate reports is the device's own, unless
\* a SetMode failed: that one leaves the new rate in p.mode.
BaudRateIsDevices ==
  token["mode"] = 1 /\ modeBaud # devBaud
    => \E c \in Calls : kind[c] = "update" /\ outcome[c] \in {"portError", "panic"}

\* Every call that is made completes: no conch is waited for, and no echo,
\* past the deadline.  (BufferedRead: once the device stops sending.)
EveryCallCompletes == \A c \in Calls : pc[c] # "idle" ~> pc[c] = "done"

\* README: "If timeout expires, will return what ever data has been read.
\* Will not throw if timeout expires."
ReadTimeoutNotAnError ==
  \A c \in Calls : kind[c] = "read" => outcome[c] # "deadlineExceeded"

===============================================================================
