------------------------- MODULE PortHandleRefinement -------------------------
(***************************************************************************)
(* PortHandle implements PortAccess, for any number of calls, and so has   *)
(* its guarantees.                                                         *)
(*                                                                         *)
(* A step of the code does one of two things: it moves a call towards, in  *)
(* or out of a side, or it lets a call that is inside use the port.  The   *)
(* first section shows what becomes of Status, the second which bytes and  *)
(* rates change, the third puts them together.                             *)
(***************************************************************************)
EXTENDS PortHandleProofs

AccessProofs == INSTANCE PortAccessProofs WITH status <- Status

\* The side s is one that an operation k takes.
Uses(k, s) == \E i \in DOMAIN LocksOf[k] : LocksOf[k][i] = s

\* Where Status puts call c.
Place(c, s) ==
  IF s \in Held(c) THEN "inside"
  ELSE IF pc[c] = "done" \/ (pc[c] = "unwind" /\ Uses(kind[c], s)) THEN "after"
  ELSE "before"

LEMMA StatusIsPlace ==
  /\ Status = [c \in Calls |-> [s \in Conches |-> Place(c, s)]]
  /\ Status' = [c \in Calls |-> [s \in Conches |-> Place(c, s)']]
  BY DEF Status, Place, Uses

-----------------------------------------------------------------------------
(* Sides *)

\* A call that has not taken all its locks has not taken the next one.
LEMMA NextNotHeld ==
  ASSUME TypeOK, PcInv, NEW c \in Calls, pc[c] = "acquire"
  PROVE  /\ NextLock(c) \in Locks /\ NextLock(c) \notin Held(c)
         /\ Uses(kind[c], NextLock(c))
<1>1. /\ kind[c] \in AllKinds /\ held[c] \in Nat
      /\ Held(c) = Prefix(kind[c], held[c])
  BY HeldIsPrefix
<1>2. held[c] < Len(LocksOf[kind[c]])
  BY DEF PcInv
<1>3. LocksOf[kind[c]] \in Seq(Locks) /\ held[c] + 1 \in 1..Len(LocksOf[kind[c]])
  BY <1>1, <1>2, LockOrders
<1>4. held[c] + 1 \in DOMAIN LocksOf[kind[c]]
  BY <1>3
<1> QED BY <1>1, <1>2, <1>4, PrefixGrows DEF NextLock, Uses

\* A call that works is inside every side it uses.
LEMMA WorkingInside ==
  ASSUME TypeOK, PcInv, NEW c \in Calls, pc[c] \in Working, NEW s,
         Uses(kind[c], s)
  PROVE  s \in Held(c)
<1>1. /\ kind[c] \in AllKinds
      /\ Held(c) = Prefix(kind[c], Len(LocksOf[kind[c]]))
  BY HeldIsPrefix DEF PcInv
<1>2. LocksOf[kind[c]] \in Seq(Locks)
  BY <1>1, LockOrders
<1>3. DOMAIN LocksOf[kind[c]] = 1..Len(LocksOf[kind[c]])
  BY <1>2
<1> QED BY <1>1, <1>3 DEF Uses, Prefix

\* Work changes no status: the return from it has no side left to give up.
LEMMA WorksKeepsStatus ==
  ASSUME TypeOK, PcInv, NEW c \in Calls, Works(c)
  PROVE  Status' = Status
<1>1. /\ pc[c] \in Working /\ pc'[c] \in Working \union {"unwind"}
      /\ \A d \in Calls \ {c} : pc'[d] = pc[d]
      /\ kind' = kind /\ held' = held
  BY DEF Works, Goto, TypeOK
<1>2. \A d \in Calls : Held(d)' = Held(d)
  BY <1>1 DEF Held
<1>3. ASSUME NEW d \in Calls, NEW s \in Conches
      PROVE  Place(d, s)' = Place(d, s)
  <2>1. CASE d = c
    <3>1. Uses(kind[c], s) => s \in Held(c)
      BY <1>1, WorkingInside
    <3> QED BY <1>1, <1>2, <2>1, <3>1 DEF Place, Working, Uses
  <2>2. CASE d # c
    BY <1>1, <1>2, <2>2 DEF Place, Uses
  <2> QED BY <2>1, <2>2
<1> QED BY <1>3, StatusIsPlace

\* A step of call c moves the status of c at most.
LEMMA StatusOfOthers ==
  ASSUME NEW c \in Calls,
         \A d \in Calls \ {c} :
           kind'[d] = kind[d] /\ pc'[d] = pc[d] /\ held'[d] = held[d]
  PROVE  Status' = [Status EXCEPT ![c] = [s \in Conches |-> Place(c, s)']]
<1>1. ASSUME NEW d \in Calls \ {c}, NEW s \in Conches
      PROVE  Place(d, s)' = Place(d, s)
  BY <1>1 DEF Place, Uses, Held
<1>2. \A d \in Calls \ {c} : [s \in Conches |-> Place(d, s)'] = [s \in Conches |-> Place(d, s)]
  BY <1>1
<1> QED BY <1>2, StatusIsPlace

\* An exported function is called: with an unknown handle it will use no side.
LEMMA DispatchSides ==
  ASSUME IInv, NEW c \in Calls, NEW k \in Kinds, Dispatch(c, k)
  PROVE  Status' = Status \/ Access!GiveUp(c, Conches)
<1>1. /\ pc[c] = "idle" /\ held[c] = 0 /\ held' = held
      /\ \A d \in Calls \ {c} : kind'[d] = kind[d] /\ pc'[d] = pc[d]
      /\ UNCHANGED <<devBaud, wire, rx, got>>
  BY DEF Dispatch, Goto, IInv, TypeOK, PcInv, modeVars, lineVars
<1>2. Held(c) = {} /\ Held(c)' = {}
  BY <1>1 DEF Held
<1>3. \A s \in Conches : Place(c, s) = "before"
  BY <1>1, <1>2 DEF Place
<1>4. Status' = [Status EXCEPT ![c] = [s \in Conches |-> Place(c, s)']]
  BY <1>1, StatusOfOthers
<1>5. /\ Status \in [Calls -> [Conches -> {"before", "inside", "after"}]]
      /\ Status[c] = [s \in Conches |-> "before"]
  BY <1>3, StatusIsPlace DEF Place
<1>6. CASE pc'[c] = "done"
  <2>1. \A s \in Conches : Place(c, s)' = "after"
    BY <1>2, <1>6 DEF Place
  <2>2. Status' = [Status EXCEPT ![c] = [s \in Conches |-> "after"]]
    BY <1>4, <2>1
  <2> QED BY <1>1, <1>5, <2>2 DEF Access!GiveUp, Access!Sides, Conches
<1>7. CASE pc'[c] # "done"
  <2>1. pc'[c] \in {"io", "acquire"}
    BY <1>7 DEF Dispatch, Goto, IInv, TypeOK
  <2>2. \A s \in Conches : Place(c, s)' = "before"
    BY <1>2, <2>1 DEF Place
  <2> QED BY <1>4, <1>5, <2>2
<1> QED BY <1>6, <1>7

\* A conch is taken when no call has it.
LEMMA AcquireSides ==
  ASSUME IInv, NEW c \in Calls, Acquire(c)
  PROVE  Status' = Status \/ \E s \in Conches : Access!Enter(c, s)
<1> DEFINE l == NextLock(c)
<1>1. /\ pc[c] = "acquire" /\ pc'[c] \in {"acquire", "io"} /\ kind' = kind
      /\ held[c] \in Nat /\ held'[c] = held[c] + 1 /\ token[l] = 1
      /\ \A d \in Calls \ {c} : pc'[d] = pc[d] /\ held'[d] = held[d]
      /\ UNCHANGED <<devBaud, wire, rx, got>>
  <2>1. held[c] \in Nat
    BY HeldIsPrefix DEF IInv
  <2>2. token[l] = 1
    BY DEF Acquire
  <2>3. /\ pc[c] = "acquire" /\ pc'[c] \in {"acquire", "io"} /\ kind' = kind
        /\ \A d \in Calls \ {c} : pc'[d] = pc[d]
        /\ UNCHANGED <<devBaud, wire, rx, got>>
    BY DEF Acquire, Goto, IInv, TypeOK, modeVars, lineVars
  <2>4. /\ held'[c] = held[c] + 1
        /\ \A d \in Calls \ {c} : held'[d] = held[d]
    BY DEF Acquire, IInv, TypeOK
  <2> QED BY <2>1, <2>2, <2>3, <2>4
<1>2. l \in Locks /\ l \notin Held(c)
  BY <1>1, NextNotHeld DEF IInv
<1>3. Held(c)' = Held(c) \union {l}
  <2>1. kind[c] \in AllKinds /\ Held(c) = Prefix(kind[c], held[c])
    BY HeldIsPrefix DEF IInv
  <2>2. held[c] < Len(LocksOf[kind[c]])
    BY <1>1 DEF IInv, PcInv
  <2>3. Prefix(kind[c], held[c] + 1) = Held(c) \union {l}
    BY <1>1, <2>1, <2>2, PrefixGrows DEF NextLock
  <2> QED BY <1>1, <2>3 DEF Held, Prefix
<1>4. \A d \in Calls : l \notin Held(d)
  BY <1>1, <1>2 DEF IInv, LockInv
<1> HIDE DEF l
<1>5. Status' = [Status EXCEPT ![c] = [s \in Conches |-> Place(c, s)']]
  BY <1>1, StatusOfOthers
<1>6. \A s \in Conches : Place(c, s)' = IF s = l THEN "inside" ELSE Place(c, s)
  BY <1>1, <1>2, <1>3 DEF Place
<1>7. Status = [d \in Calls |-> [s \in Conches |-> Place(d, s)]]
  BY StatusIsPlace
<1>8. CASE l \in Conches
  <2>1. Status' = [Status EXCEPT ![c][l] = "inside"]
    BY <1>5, <1>6, <1>7, <1>8
  <2>2. Status[c][l] = "before"
    BY <1>1, <1>2, <1>7, <1>8 DEF Place
  <2>3. \A d \in Calls : Status[d][l] # "inside"
    BY <1>4, <1>7, <1>8 DEF Place
  <2> QED BY <1>1, <1>8, <2>1, <2>2, <2>3 DEF Access!Enter, Access!Inside
<1>9. CASE l \notin Conches
  <2>1. [s \in Conches |-> Place(c, s)'] = [s \in Conches |-> Place(c, s)]
    BY <1>6, <1>9
  <2> QED BY <1>5, <1>7, <2>1
<1> QED BY <1>8, <1>9

\* Past its deadline a call gives up the sides it has not reached.
LEMMA AcquireTimeoutSides ==
  ASSUME IInv, NEW c \in Calls, AcquireTimeout(c)
  PROVE  \E S \in SUBSET Conches : Access!GiveUp(c, S)
<1> DEFINE S == {s \in Conches : Uses(kind[c], s) /\ s \notin Held(c)}
<1>1. /\ pc[c] = "acquire" /\ pc'[c] = "unwind" /\ kind' = kind /\ held' = held
      /\ \A d \in Calls \ {c} : pc'[d] = pc[d]
      /\ UNCHANGED <<devBaud, wire, rx, got>>
  BY DEF AcquireTimeout, Return, Goto, IInv, TypeOK, modeVars, lineVars
<1>2. Held(c)' = Held(c)
  BY <1>1 DEF Held
<1>3. Status' = [Status EXCEPT ![c] = [s \in Conches |-> Place(c, s)']]
  BY <1>1, StatusOfOthers
<1>4. \A s \in Conches : Place(c, s)' = IF s \in S THEN "after" ELSE Place(c, s)
  BY <1>1, <1>2 DEF Place, Uses
<1>5. \A s \in S : Place(c, s) = "before"
  BY <1>1 DEF Place
<1> HIDE DEF S
<1>6. Status = [d \in Calls |-> [s \in Conches |-> Place(d, s)]]
  BY StatusIsPlace
<1>7. S \subseteq Conches
  BY DEF S
<1>8. Status' = [Status EXCEPT ![c] = [s \in Conches |-> IF s \in S THEN "after" ELSE @[s]]]
  BY <1>3, <1>4, <1>6
<1> QED BY <1>1, <1>5, <1>6, <1>7, <1>8 DEF Access!GiveUp, Access!Sides, Conches

\* A deferred release leaves a side for good.
LEMMA UnwindSides ==
  ASSUME IInv, NEW c \in Calls, Unwind(c)
  PROVE  Status' = Status \/ \E s \in Conches : Access!Leave(c, s)
<1> DEFINE l == LocksOf[kind[c]][held[c]]
<1>1. /\ pc[c] = "unwind" /\ pc' = pc /\ kind' = kind
      /\ held[c] \in Nat /\ held[c] > 0 /\ held'[c] = held[c] - 1
      /\ \A d \in Calls \ {c} : held'[d] = held[d]
      /\ UNCHANGED <<devBaud, wire, rx, got>>
  <2>1. held[c] \in Nat /\ held[c] > 0
    BY HeldIsPrefix DEF IInv, Unwind
  <2>2. /\ held'[c] = held[c] - 1
        /\ \A d \in Calls \ {c} : held'[d] = held[d]
    BY DEF Unwind, IInv, TypeOK
  <2>3. /\ pc[c] = "unwind" /\ pc' = pc /\ kind' = kind
        /\ UNCHANGED <<devBaud, wire, rx, got>>
    BY DEF Unwind, modeVars, lineVars
  <2> QED BY <2>1, <2>2, <2>3
<1>2. /\ kind[c] \in AllKinds /\ Held(c) = Prefix(kind[c], held[c])
      /\ held[c] <= Len(LocksOf[kind[c]])
  BY HeldIsPrefix DEF IInv, PcInv
<1>3. l \in Held(c) /\ Held(c)' = Held(c) \ {l}
  <2>1. l \in Held(c) /\ Prefix(kind[c], held[c] - 1) = Held(c) \ {l}
    BY <1>1, <1>2, PrefixShrinks
  <2> QED BY <1>1, <2>1 DEF Held, Prefix
<1>4. Uses(kind[c], l)
  <2>1. LocksOf[kind[c]] \in Seq(Locks) /\ held[c] \in 1..Len(LocksOf[kind[c]])
    BY <1>1, <1>2, LockOrders
  <2>2. held[c] \in DOMAIN LocksOf[kind[c]]
    BY <2>1
  <2> QED BY <2>2 DEF Uses
<1> HIDE DEF l
<1>5. Status' = [Status EXCEPT ![c] = [s \in Conches |-> Place(c, s)']]
  BY <1>1, StatusOfOthers
<1>6. \A s \in Conches : Place(c, s)' = IF s = l THEN "after" ELSE Place(c, s)
  BY <1>1, <1>3, <1>4 DEF Place, Uses
<1>7. Status = [d \in Calls |-> [s \in Conches |-> Place(d, s)]]
  BY StatusIsPlace
<1>8. CASE l \in Conches
  <2>1. Status' = [Status EXCEPT ![c][l] = "after"]
    BY <1>5, <1>6, <1>7, <1>8
  <2>2. Status[c][l] = "inside"
    BY <1>3, <1>7, <1>8 DEF Place
  <2> QED BY <1>1, <1>8, <2>1, <2>2 DEF Access!Leave, Access!Inside
<1>9. CASE l \notin Conches
  <2>1. [s \in Conches |-> Place(c, s)'] = [s \in Conches |-> Place(c, s)]
    BY <1>6, <1>9
  <2> QED BY <1>5, <1>7, <2>1
<1> QED BY <1>8, <1>9

\* A call that is over will not come to the sides it had no use for.
LEMMA CompleteSides ==
  ASSUME IInv, NEW c \in Calls, Complete(c)
  PROVE  \E S \in SUBSET Conches : Access!GiveUp(c, S)
<1> DEFINE S == {s \in Conches : ~Uses(kind[c], s)}
<1>1. /\ pc[c] = "unwind" /\ pc'[c] = "done" /\ kind' = kind
      /\ held[c] = 0 /\ held' = held
      /\ \A d \in Calls \ {c} : pc'[d] = pc[d]
      /\ UNCHANGED <<devBaud, wire, rx, got>>
  BY DEF Complete, Goto, IInv, TypeOK, modeVars, lineVars
<1>2. Held(c) = {} /\ Held(c)' = {}
  BY <1>1 DEF Held
<1>3. Status' = [Status EXCEPT ![c] = [s \in Conches |-> Place(c, s)']]
  BY <1>1, StatusOfOthers
<1>4. \A s \in Conches : Place(c, s)' = IF s \in S THEN "after" ELSE Place(c, s)
  BY <1>1, <1>2 DEF Place, Uses
<1>5. \A s \in S : Place(c, s) = "before"
  BY <1>1, <1>2 DEF Place
<1> HIDE DEF S
<1>6. Status = [d \in Calls |-> [s \in Conches |-> Place(d, s)]]
  BY StatusIsPlace
<1>7. S \subseteq Conches
  BY DEF S
<1>8. Status' = [Status EXCEPT ![c] = [s \in Conches |-> IF s \in S THEN "after" ELSE @[s]]]
  BY <1>3, <1>4, <1>6
<1> QED BY <1>1, <1>5, <1>6, <1>7, <1>8 DEF Access!GiveUp, Access!Sides, Conches

-----------------------------------------------------------------------------
(* Bytes and rates *)

Silent == UNCHANGED <<devBaud, wire, rx, got>>

\* The port accepts bytes of a write.
Sends(c) ==
  /\ kind[c] \in {"write", "echo"}
  /\ \E n \in 0..DataLen : Send(c, n)
  /\ UNCHANGED <<devBaud, rx, got>>

\* The port hands bytes to a reader.
Takes(c) ==
  /\ kind[c] \in {"read", "echo", "bufferedRead"}
  /\ \E n \in 1..DataLen : Receive(c, n)
  /\ UNCHANGED <<devBaud, wire>>

\* A flush drops bytes that nobody has read.
Drops(c) ==
  /\ \E n \in 0..MaxRx : rx' = rx + n
  /\ UNCHANGED <<devBaud, wire, got>>

\* Each step of a goroutine is one of these.
LEMMA Traffic ==
  ASSUME NEW c \in Calls, Run(c)
  PROVE  Silent \/ Sends(c) \/ Takes(c) \/ Drops(c) \/ SetMode(c)
<1>1. ASSUME NEW n \in 1..DataLen, ReadSome(c, n)
      PROVE  Takes(c)
  BY <1>1, PortAssumption DEF ReadSome, Takes, portVars, modeVars
<1>2. ASSUME NEW n \in 0..DataLen, WriteSome(c, n)
      PROVE  Sends(c)
  BY <1>2, PortAssumption DEF WriteSome, Sends, portVars, modeVars
<1>3. ASSUME EchoSend(c)
      PROVE  Sends(c)
  BY <1>3, PortAssumption DEF EchoSend, Sends, portVars, modeVars
<1>4. ASSUME NEW same \in BOOLEAN, EchoReceive(c, same)
      PROVE  Takes(c)
  BY <1>4, PortAssumption DEF EchoReceive, Takes, portVars, modeVars
<1>5. ASSUME NEW n \in 1..DataLen, BufferedReadData(c, n)
      PROVE  Takes(c)
  BY <1>5, PortAssumption DEF BufferedReadData, Takes, portVars, modeVars
<1>6. ASSUME NEW n \in 0..MaxRx, FlushInput(c, n)
      PROVE  Drops(c)
  BY <1>6, PortAssumption DEF FlushInput, Drops, portVars, modeVars
<1>7. ASSUME NEW n \in 0..DataLen, WriteError(c, n)
      PROVE  Sends(c)
  BY <1>7, PortAssumption DEF WriteError, Sends, portVars, modeVars
<1>8. Acquire(c) => Silent
  BY DEF Acquire, Silent, modeVars, lineVars
<1>9. AcquireTimeout(c) => Silent
  BY DEF AcquireTimeout, Silent, modeVars, lineVars
<1>10. Unwind(c) => Silent
  BY DEF Unwind, Silent, modeVars, lineVars
<1>11. Complete(c) => Silent
  BY DEF Complete, Silent, modeVars, lineVars
<1>12. ReadReturn(c) => Silent
  BY DEF ReadReturn, Silent, modeVars, lineVars
<1>13. ReadNothing(c) => Silent
  BY DEF ReadNothing, Silent, modeVars, lineVars
<1>14. WriteReturn(c) => Silent
  BY DEF WriteReturn, Silent, modeVars, lineVars
<1>15. EchoSendTimeout(c) => Silent
  BY DEF EchoSendTimeout, Silent, modeVars, lineVars
<1>16. EchoTimeout(c) => Silent
  BY DEF EchoTimeout, Silent, modeVars, lineVars
<1>17. BufferedReadIdle(c) => Silent
  BY DEF BufferedReadIdle, Silent, modeVars, lineVars
<1>18. BufferedReadGap(c) => Silent
  BY DEF BufferedReadGap, Silent, modeVars, lineVars
<1>19. Emitted(c) => Silent
  BY DEF Emitted, Silent, modeVars, lineVars
<1>20. ASSUME NEW baud \in Bauds \union {0}, UpdateMode(c, baud)
      PROVE  Silent
  BY <1>20 DEF UpdateMode, Silent, modeVars, lineVars
<1>21. ReadBaudRate(c) => Silent
  BY DEF ReadBaudRate, Silent, modeVars, lineVars
<1>22. PortCall(c) => Silent
  BY DEF PortCall, Silent, modeVars, lineVars
<1>23. FlushOutput(c) => Silent
  BY DEF FlushOutput, Silent, modeVars, lineVars
<1>24. ClosePort(c) => Silent
  BY DEF ClosePort, Silent, modeVars, lineVars
<1>25. RemoveHandle(c) => Silent
  BY DEF RemoveHandle, Silent, modeVars, lineVars
<1>26. PortError(c) => Silent
  BY DEF PortError, Silent, modeVars, lineVars
<1>27. BufferedReadError(c) => Silent
  BY DEF BufferedReadError, Silent, modeVars, lineVars
<1>28. SetModeError(c) => Silent
  BY DEF SetModeError, Silent, modeVars, lineVars
<1>29. Panic(c) => Silent
  BY DEF Panic, Silent, modeVars, lineVars
<1> QED BY <1>1, <1>2, <1>3, <1>4, <1>5, <1>6, <1>7, <1>8, <1>9, <1>10, <1>11, <1>12, <1>13, <1>14, <1>15, <1>16, <1>17, <1>18, <1>19, <1>20, <1>21, <1>22, <1>23, <1>24, <1>25, <1>26, <1>27, <1>28, <1>29 DEF Run, Work, PortFails

\* Every byte on the wire is of a call that writes.
Writers == \A i \in DOMAIN wire : kind[wire[i].call] \in {"write", "echo"}

RefineInv == IInv /\ Writers

LEMMA SendAppends ==
  ASSUME TypeOK, NEW c \in Calls, NEW n \in Nat, Send(c, n)
  PROVE  \A i \in DOMAIN wire' :
           (i \in DOMAIN wire /\ wire'[i] = wire[i]) \/ wire'[i].call = c
<1> DEFINE byte == [call |-> c, baud |-> devBaud]
           new == [i \in 1..n |-> byte]
           Bytes == [call : Calls, baud : Bauds]
<1>1. byte \in Bytes /\ byte.call = c /\ wire \in Seq(Bytes)
  BY DEF TypeOK
<1> HIDE DEF byte, Bytes
<1>2. new \in Seq(Bytes) /\ Len(new) = n /\ \A i \in 1..n : new[i] = byte
  BY <1>1
<1>3. wire' = wire \o new
  BY DEF Send, byte
<1> HIDE DEF new
<1>4. ASSUME NEW i \in DOMAIN wire'
      PROVE  (i \in DOMAIN wire /\ wire'[i] = wire[i]) \/ wire'[i] = byte
  BY <1>1, <1>2, <1>3, <1>4
<1> QED BY <1>1, <1>4

LEMMA WritersStep == TypeOK /\ PcInv /\ Writers /\ [Next]_vars => Writers'
<1> SUFFICES ASSUME TypeOK, PcInv, Writers, [Next]_vars
             PROVE  Writers'
  OBVIOUS
<1>1. ASSUME NEW c \in Calls, NEW k \in Kinds, Dispatch(c, k)
      PROVE  Writers'
  <2>1. kind[c] = "none" /\ wire' = wire /\ \A d \in Calls \ {c} : kind'[d] = kind[d]
    BY <1>1 DEF Dispatch, PcInv, TypeOK, lineVars
  <2>2. \A i \in DOMAIN wire : wire[i].call \in Calls
    <3> DEFINE Bytes == [call : Calls, baud : Bauds]
    <3>1. wire \in Seq(Bytes)
      BY DEF TypeOK
    <3> HIDE DEF Bytes
    <3>2. \A i \in DOMAIN wire : wire[i] \in Bytes
      BY <3>1
    <3> QED BY <3>2 DEF Bytes
  <2> QED BY <2>1, <2>2 DEF Writers
<1>2. ASSUME kind' = kind, wire' = wire
      PROVE  Writers'
  BY <1>2 DEF Writers
<1>3. ASSUME NEW c \in Calls, Run(c)
      PROVE  Writers'
  <2>1. kind' = kind
    BY <1>3, WorkSteps DEF Acquire, AcquireTimeout, Unwind, Complete, Works
  <2>2. CASE Sends(c)
    <3>1. PICK n \in 0..DataLen : Send(c, n)
      BY <2>2 DEF Sends
    <3>2. \A i \in DOMAIN wire' :
            (i \in DOMAIN wire /\ wire'[i] = wire[i]) \/ wire'[i].call = c
      BY <3>1, SendAppends
    <3> QED BY <2>1, <2>2, <3>2 DEF Writers, Sends
  <2>3. CASE Silent \/ Takes(c) \/ Drops(c) \/ SetMode(c)
    BY <1>2, <2>1, <2>3 DEF Silent, Takes, Drops, SetMode, lineVars
  <2> QED BY <1>3, <2>2, <2>3, Traffic
<1>4. ASSUME NEW c \in Calls, Expire(c)
      PROVE  Writers'
  BY <1>2, <1>4 DEF Expire, lineVars
<1>5. CASE UNCHANGED vars
  BY <1>2, <1>5 DEF vars, callVars, lineVars
<1> QED BY <1>1, <1>3, <1>4, <1>5 DEF Next, Finished

-----------------------------------------------------------------------------
(* Results *)

\* A call that uses the port is inside the sides it needs.
LEMMA PortSteps ==
  ASSUME IInv, Writers, NEW c \in Calls, Works(c),
         Silent \/ Sends(c) \/ Takes(c) \/ Drops(c) \/ SetMode(c)
  PROVE  [Access!Next]_(Access!vars)
<1>1. Status' = Status
  BY WorksKeepsStatus DEF IInv
<1>2. \A s \in Conches : s \in Held(c) => Status[c][s] = "inside"
  BY StatusIsPlace DEF Place
<1>3. pc[c] \in Working
  BY DEF Works
<1>4. CASE Silent
  BY <1>1, <1>4 DEF Silent, Access!vars
<1>5. CASE Sends(c)
  <2>1. PICK n \in 0..DataLen : Send(c, n)
    BY <1>5 DEF Sends
  <2>2. CASE n = 0
    <3>1. wire' = wire \o <<>>
      <4>1. [i \in 1..n |-> [call |-> c, baud |-> devBaud]] = <<>>
        BY <2>2
      <4> QED BY <2>1, <4>1 DEF Send
    <3>2. wire' = wire
      BY <3>1 DEF IInv, TypeOK
    <3> QED BY <1>1, <1>5, <3>2 DEF Sends, Access!vars
  <2>3. CASE n # 0
    <3>1. "write" \in Held(c)
      <4>1. Uses("echo", "write")
        <5>1. LocksOf["echo"] = EchoLocks
          BY DEF LocksOf, Operations
        <5>2. 1 \in DOMAIN EchoLocks /\ EchoLocks[1] = "write"
          BY DEF EchoLocks
        <5> QED BY <5>1, <5>2 DEF Uses
      <4>2. kind[c] = "echo" => "write" \in Held(c)
        BY <1>3, <4>1, WorkingInside DEF IInv
      <4> QED BY <1>3, <1>5, <4>2, FullHands DEF IInv, Sends
    <3>2. Access!Send(c, n)
      BY <1>1, <1>2, <1>5, <2>1, <3>1
         DEF Sends, Send, Conches, Access!Send, Access!Inside
    <3>3. n \in 1..DataLen
      BY <2>3
    <3> QED BY <3>2, <3>3 DEF Access!Next
  <2> QED BY <2>2, <2>3
<1>6. CASE Takes(c)
  <2>1. PICK n \in 1..DataLen : Receive(c, n)
    BY <1>6 DEF Takes
  <2>2. "read" \in Held(c)
    BY <1>3, <1>6, FullHands DEF IInv, Takes
  <2>3. Access!Receive(c, n)
    BY <1>1, <1>2, <1>6, <2>1, <2>2
       DEF Takes, Receive, Conches, Access!Receive, Access!Inside
  <2> QED BY <2>3 DEF Access!Next
<1>7. CASE Drops(c)
  <2>1. PICK n \in 0..MaxRx : rx' = rx + n
    BY <1>7 DEF Drops
  <2>2. rx \in Int
    BY PortAssumption DEF IInv, TypeOK
  <2>3. CASE n = 0
    BY <1>1, <1>7, <2>1, <2>2, <2>3 DEF Drops, Access!vars
  <2>4. CASE n # 0
    <3>1. n \in 1..MaxRx /\ Access!Discard(n)
      BY <1>1, <1>7, <2>1, <2>4, PortAssumption DEF Drops, Access!Discard
    <3> QED BY <3>1 DEF Access!Next
  <2> QED BY <2>3, <2>4
<1>8. CASE SetMode(c)
  <2>1. /\ pc[c] = "setMode" /\ devBaud' = modeBaud /\ modeBaud \in Bauds
        /\ UNCHANGED <<wire, rx, got>>
    BY <1>8 DEF SetMode, IInv, TypeOK, lineVars
  <2>2. kind[c] = "update"
    BY <2>1 DEF IInv, PcInv, Fits
  <2>3. "read" \in Held(c) /\ "write" \in Held(c)
    BY <1>3, <2>2, FullHands DEF IInv, Locks
  <2>4. \A i \in DOMAIN wire : wire[i].call # c
    BY <2>2 DEF Writers
  <2>5. Access!Retune(c, modeBaud)
    BY <1>1, <1>2, <2>1, <2>3, <2>4 DEF Conches, Access!Retune, Access!Inside
  <2> QED BY <2>1, <2>5 DEF Access!Next
<1> QED BY <1>4, <1>5, <1>6, <1>7, <1>8

\* Every step of the code is a step of PortAccess, or none.
LEMMA RefinementStep == RefineInv /\ [Next]_vars => [Access!Next]_(Access!vars)
<1> SUFFICES ASSUME IInv, Writers, [Next]_vars
             PROVE  [Access!Next]_(Access!vars)
  BY DEF RefineInv
<1>1. ASSUME Status' = Status, UNCHANGED <<devBaud, wire, rx, got>>
      PROVE  [Access!Next]_(Access!vars)
  BY <1>1 DEF Access!vars
<1>2. ASSUME NEW c \in Calls, NEW S \in SUBSET Conches, Access!GiveUp(c, S)
      PROVE  Access!Next
  BY <1>2 DEF Access!Next, Access!Sides, Conches
<1>3. ASSUME NEW c \in Calls, NEW s \in Conches, Access!Enter(c, s) \/ Access!Leave(c, s)
      PROVE  Access!Next
  BY <1>3 DEF Access!Next, Access!Sides, Conches
<1>4. ASSUME NEW c \in Calls, NEW k \in Kinds, Dispatch(c, k)
      PROVE  [Access!Next]_(Access!vars)
  <2>1. UNCHANGED <<devBaud, wire, rx, got>>
    BY <1>4 DEF Dispatch, modeVars, lineVars
  <2>2. Conches \in SUBSET Conches
    OBVIOUS
  <2> QED BY <1>1, <1>2, <1>4, <2>1, <2>2, DispatchSides
<1>5. ASSUME NEW c \in Calls, Run(c)
      PROVE  [Access!Next]_(Access!vars)
  <2>1. CASE Acquire(c)
    <3>1. UNCHANGED <<devBaud, wire, rx, got>>
      BY <2>1 DEF Acquire, modeVars, lineVars
    <3> QED BY <1>1, <1>3, <2>1, <3>1, AcquireSides
  <2>2. CASE AcquireTimeout(c)
    BY <1>2, <2>2, AcquireTimeoutSides
  <2>3. CASE Unwind(c)
    <3>1. UNCHANGED <<devBaud, wire, rx, got>>
      BY <2>3 DEF Unwind, modeVars, lineVars
    <3> QED BY <1>1, <1>3, <2>3, <3>1, UnwindSides
  <2>4. CASE Complete(c)
    BY <1>2, <2>4, CompleteSides
  <2>5. CASE Works(c)
    BY <1>5, <2>5, Traffic, PortSteps
  <2> QED BY <1>5, <2>1, <2>2, <2>3, <2>4, <2>5, WorkSteps DEF IInv
<1>6. ASSUME UNCHANGED <<kind, pc, held, devBaud, wire, rx, got>>
      PROVE  [Access!Next]_(Access!vars)
  <2>1. Status' = Status
    BY <1>6, StatusIsPlace DEF Place, Uses, Held
  <2> QED BY <1>1, <1>6, <2>1
<1>7. ASSUME NEW c \in Calls, Expire(c)
      PROVE  [Access!Next]_(Access!vars)
  BY <1>6, <1>7 DEF Expire, modeVars, lineVars
<1>8. CASE UNCHANGED vars
  BY <1>6, <1>8 DEF vars, callVars, modeVars, lineVars
<1> QED BY <1>4, <1>5, <1>7, <1>8 DEF Next, Finished

\* The conches give the sides of PortAccess: the code implements it.
THEOREM Refinement == Spec => ImplementsAccess
<1>1. Init => RefineInv /\ Access!Init
  <2> SUFFICES ASSUME Init
               PROVE  RefineInv /\ Access!Init
    OBVIOUS
  <2>1. Writers
    <3>1. wire = <<>>
      BY DEF Init
    <3> QED BY <3>1 DEF Writers
  <2>2. \A c \in Calls, s \in Conches : Place(c, s) = "before"
    BY DEF Init, Place, Held
  <2>3. Status = [c \in Calls |-> [s \in Conches |-> "before"]]
    BY <2>2, StatusIsPlace
  <2> QED BY <2>1, <2>3, InitIInv DEF RefineInv, Init, Access!Init, Access!Sides, Conches
<1>2. RefineInv /\ [Next]_vars => RefineInv'
  BY TypeStep, PcStep, LockStep, WritersStep DEF RefineInv, IInv
<1> QED BY <1>1, <1>2, RefinementStep, PTL DEF ImplementsAccess, Spec, Access!Spec

\* What PortAccess guarantees the code guarantees.
LEMMA AccessHolds == Spec => []AccessProofs!AccessInv
<1>1. DataLen \in Nat /\ MaxRx \in Nat /\ OpenBaud \in Bauds
  BY PortAssumption
<1>2. AccessProofs!Spec => []AccessProofs!AccessInv
  BY <1>1, AccessProofs!AccessSafe
<1>3. Access!Init => AccessProofs!Init
  BY DEF Access!Init, AccessProofs!Init, Access!Sides, AccessProofs!Sides
<1>4. [Access!Next]_(Access!vars) => [AccessProofs!Next]_(AccessProofs!vars)
  BY DEF Access!Next, AccessProofs!Next, Access!vars, AccessProofs!vars,
         Access!Enter, AccessProofs!Enter, Access!Leave, AccessProofs!Leave,
         Access!GiveUp, AccessProofs!GiveUp, Access!Send, AccessProofs!Send,
         Access!Receive, AccessProofs!Receive, Access!Discard,
         AccessProofs!Discard, Access!Retune, AccessProofs!Retune,
         Access!Inside, AccessProofs!Inside, Access!Sides,
         AccessProofs!Sides
<1> QED BY <1>2, <1>3, <1>4, Refinement, PTL
        DEF ImplementsAccess, Access!Spec, AccessProofs!Spec

\* What the port accepts of each write is one piece, at one baud rate.
THEOREM Frames == Spec => []FramesIntact
<1>1. AccessProofs!AccessInv => FramesIntact
  BY DEF AccessProofs!AccessInv, AccessProofs!FramesIntact, FramesIntact,
         Access!FramesIntact
<1> QED BY <1>1, AccessHolds, PTL

\* "A concurrent read can't steal bytes" (serial.go:254).
THEOREM NoTheft == Spec => []NoStolenBytes
<1>1. AccessProofs!AccessInv => NoStolenBytes
  BY DEF AccessProofs!AccessInv, AccessProofs!NoStolenBytes, NoStolenBytes,
         Access!NoStolenBytes
<1> QED BY <1>1, AccessHolds, PTL

===============================================================================
