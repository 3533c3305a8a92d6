--------------------------- MODULE PortHandleProofs ---------------------------
(***************************************************************************)
(* What the locking of PortHandle guarantees for any number of calls, any  *)
(* buffer sizes and any baud rates.                                        *)
(*                                                                         *)
(* LockInv is not inductive: a step is only known to keep it when the      *)
(* number of locks a call holds fits the place its goroutine is at.  PcInv *)
(* says so, and IInv, types and the two together, is inductive.  What the  *)
(* two copies of the baud rate have to do with each other needs RateInv in *)
(* addition, which says which calls may have parted them.                  *)
(***************************************************************************)
EXTENDS PortHandle, TLAPS

AllKinds == Operations \union {"none"}

\* The first h locks of operation k.
Prefix(k, h) == {LocksOf[k][i] : i \in 1..h}

\* Past its last acquisition and before its return.
Working == {"io", "echo", "emit", "setMode", "resetOutput", "remove"}

\* Operation k has a place named label.
Fits(k, label) ==
  /\ label = "setMode" => k = "update"
  /\ label = "echo" => k = "echo"
  /\ label = "emit" => k = "bufferedRead"
  /\ label = "resetOutput" => k = "flush"
  /\ label = "remove" => k = "close"

\* A call holds what its place says: nothing before it is made and after it
\* completes, not yet everything while it acquires, everything while it works.
PcInv ==
  \A c \in Calls :
    /\ kind[c] = "none" <=> pc[c] = "idle"
    /\ Fits(kind[c], pc[c])
    /\ held[c] <= Len(LocksOf[kind[c]])
    /\ pc[c] \in {"idle", "done"} => held[c] = 0
    /\ pc[c] = "acquire" => held[c] < Len(LocksOf[kind[c]])
    /\ pc[c] \in Working => held[c] = Len(LocksOf[kind[c]])
    /\ pc[c] = "echo" => count[c] < DataLen

IInv == TypeOK /\ PcInv /\ LockInv

\* Call c goes from one place of its work to another, or to its return: no
\* lock changes hands.
Works(c) ==
  /\ pc[c] \in Working
  /\ \E label \in Working \union {"unwind"} :
       /\ Goto(c, label)
       /\ Fits(kind[c], label)
       /\ label = "echo" => count'[c] < DataLen
  /\ \A d \in Calls \ {c} : count'[d] = count[d]
  /\ UNCHANGED <<kind, held, token>>

-----------------------------------------------------------------------------
(* The lock orders *)

\* What each operation acquires is a short sequence of distinct locks.
LEMMA LockOrders ==
  ASSUME NEW k \in AllKinds
  PROVE  /\ LocksOf[k] \in Seq(Locks)
         /\ Len(LocksOf[k]) \in 0..3
         /\ Len(LocksOf[k]) = 0 <=> LocksOf[k] = <<>>
         /\ \A i, j \in 1..Len(LocksOf[k]) :
              i # j => LocksOf[k][i] # LocksOf[k][j]
<1> DEFINE s == LocksOf[k]
<1>1. s \in {<<>>, <<"read">>, <<"write">>, <<"mode">>, EchoLocks, UpdateLocks}
  BY DEF AllKinds, Operations, LocksOf
<1> SUFFICES /\ s \in Seq(Locks)
             /\ Len(s) \in 0..3
             /\ Len(s) = 0 <=> s = <<>>
             /\ \A i, j \in 1..Len(s) : i # j => s[i] # s[j]
  OBVIOUS
<1> HIDE DEF s
<1>2. CASE s = <<>>
  BY <1>2
<1>3. CASE \E l \in Locks : s = <<l>>
  <2>1. PICK l \in Locks : s = <<l>>
    BY <1>3
  <2> QED BY <2>1
<1>4. CASE s = EchoLocks
  BY <1>4 DEF Locks, EchoLocks
<1>5. CASE s = UpdateLocks
  BY <1>5 DEF Locks, UpdateLocks
<1> QED BY Zenon, <1>1, <1>2, <1>3, <1>4, <1>5 DEF Locks

\* Acquiring adds one lock that was not held.
LEMMA PrefixGrows ==
  ASSUME NEW k \in AllKinds, NEW h \in Nat, h < Len(LocksOf[k])
  PROVE  /\ LocksOf[k][h + 1] \in Locks
         /\ LocksOf[k][h + 1] \notin Prefix(k, h)
         /\ Prefix(k, h + 1) = Prefix(k, h) \union {LocksOf[k][h + 1]}
<1>1. 1..(h + 1) = (1..h) \union {h + 1}
  OBVIOUS
<1>2. /\ h + 1 \in 1..Len(LocksOf[k])
      /\ \A i \in 1..h : i \in 1..Len(LocksOf[k]) /\ i # h + 1
  BY LockOrders
<1>3. LocksOf[k][h + 1] \in Locks
  BY <1>2, LockOrders
<1>4. LocksOf[k][h + 1] \notin Prefix(k, h)
  BY <1>2, LockOrders DEF Prefix
<1>5. Prefix(k, h + 1) = Prefix(k, h) \union {LocksOf[k][h + 1]}
  BY <1>1 DEF Prefix
<1> QED BY <1>3, <1>4, <1>5

\* Releasing the last lock takes away that one only.
LEMMA PrefixShrinks ==
  ASSUME NEW k \in AllKinds, NEW h \in Nat, h > 0, h <= Len(LocksOf[k])
  PROVE  /\ LocksOf[k][h] \in Prefix(k, h)
         /\ LocksOf[k][h] \in Locks
         /\ Prefix(k, h - 1) = Prefix(k, h) \ {LocksOf[k][h]}
<1>1. h - 1 \in Nat /\ h - 1 < Len(LocksOf[k]) /\ (h - 1) + 1 = h
  BY LockOrders
<1>2. /\ LocksOf[k][h] \in Locks
      /\ LocksOf[k][h] \notin Prefix(k, h - 1)
      /\ Prefix(k, h) = Prefix(k, h - 1) \union {LocksOf[k][h]}
  BY <1>1, PrefixGrows
<1> QED BY <1>2

\* Held(c) is such a prefix, of an operation the lemmas above speak of.
LEMMA HeldIsPrefix ==
  ASSUME TypeOK, NEW c \in Calls
  PROVE  kind[c] \in AllKinds /\ held[c] \in Nat /\ Held(c) = Prefix(kind[c], held[c])
<1>1. kind[c] \in Kinds \union {"none"} /\ held[c] \in 0..3
  BY DEF TypeOK
<1>2. kind[c] \in AllKinds
  BY <1>1, PortAssumption DEF AllKinds, Operations
<1> QED BY <1>1, <1>2 DEF Held, Prefix

-----------------------------------------------------------------------------
(* Types *)

LEMMA ReceiveType ==
  ASSUME TypeOK, NEW c \in Calls, NEW n \in 1..DataLen, Receive(c, n)
  PROVE  rx' \in 0..MaxRx /\ got' \in [Calls -> SUBSET (1..MaxRx)]
<1>1. rx \in Int /\ n \in Int /\ rx >= 0 /\ n >= 1 /\ rx + n <= MaxRx /\ MaxRx \in Int
  BY PortAssumption DEF TypeOK, Receive
<1>2. (rx + 1)..(rx + n) \subseteq 1..MaxRx
  BY <1>1
<1> QED BY <1>1, <1>2 DEF TypeOK, Receive

LEMMA SendType ==
  ASSUME TypeOK, NEW c \in Calls, NEW n \in Nat, Send(c, n)
  PROVE  wire' \in Seq([call : Calls, baud : Bauds])
<1>1. [call |-> c, baud |-> devBaud] \in [call : Calls, baud : Bauds]
  BY DEF TypeOK
<1>2. [i \in 1..n |-> [call |-> c, baud |-> devBaud]] \in Seq([call : Calls, baud : Bauds])
  BY <1>1
<1> QED BY <1>2 DEF TypeOK, Send

LEMMA CountType ==
  ASSUME TypeOK, NEW c \in Calls, NEW n \in Nat, count[c] + n <= DataLen
  PROVE  [count EXCEPT ![c] = @ + n] \in [Calls -> 0..DataLen]
<1>1. count[c] \in Nat /\ count[c] + n \in 0..DataLen
  BY PortAssumption DEF TypeOK
<1> QED BY <1>1 DEF TypeOK

LEMMA TypeInit == Init => TypeOK
  BY PortAssumption DEF Init, TypeOK, Outcomes

\* Every step keeps the types; Acquire, Unwind and EchoReceive need PcInv.
LEMMA TypeStep == TypeOK /\ PcInv /\ [Next]_vars => TypeOK'
<1> SUFFICES ASSUME TypeOK, PcInv, [Next]_vars
             PROVE  TypeOK'
  OBVIOUS
<1> USE PortAssumption
<1>1. ASSUME NEW c \in Calls, NEW k \in Kinds, Dispatch(c, k)
      PROVE  TypeOK'
  <2>1. kind' \in [Calls -> Kinds \union {"none"}]
    BY <1>1 DEF Dispatch, TypeOK
  <2>2. /\ pc' = [pc EXCEPT ![c] = pc'[c]]
        /\ pc'[c] \in {"io", "acquire", "done"}
    BY <1>1 DEF Dispatch, Goto, TypeOK
  <2>3. outcome' \in [Calls -> Outcomes]
    BY <1>1 DEF Dispatch, TypeOK, Outcomes
  <2>4. pc' \in [Calls -> {"idle", "acquire", "io", "echo", "emit", "setMode",
                         "resetOutput", "remove", "unwind", "done"}]
    BY <2>2 DEF TypeOK
  <2> QED BY <1>1, <2>1, <2>3, <2>4 DEF Dispatch, TypeOK, modeVars, portVars, lineVars
<1>2. CASE \E c \in Calls : Expire(c)
  BY <1>2 DEF Expire, TypeOK, Goto, Return, Outcomes, modeVars, portVars, lineVars
<1>3. ASSUME NEW c \in Calls, Run(c)
      PROVE  TypeOK'
  <2>1. CASE Acquire(c)
    <3>1. held[c] + 1 \in 0..3
      BY <2>1, HeldIsPrefix, LockOrders DEF PcInv, Acquire
    <3>2. held' \in [Calls -> 0..3]
      BY <2>1, <3>1 DEF Acquire, TypeOK
    <3>3. token' \in [Locks -> 0..1]
      <4>1. NextLock(c) \in Locks
        BY <2>1, HeldIsPrefix, PrefixGrows DEF Acquire, PcInv, NextLock
      <4>2. token' = [token EXCEPT ![NextLock(c)] = 0]
        BY <2>1 DEF Acquire
      <4> QED BY <4>1, <4>2 DEF TypeOK
    <3> QED BY <2>1, <3>2, <3>3 DEF Acquire, TypeOK, Goto, Return, Outcomes, modeVars, portVars, lineVars
  <2>2. CASE AcquireTimeout(c)
    BY <2>2 DEF AcquireTimeout, TypeOK, Goto, Return, Outcomes, modeVars, portVars, lineVars
  <2>3. CASE Unwind(c)
    <3>1. held' \in [Calls -> 0..3]
      BY <2>3 DEF Unwind, TypeOK
    <3>2. token' \in [Locks -> 0..1]
      <4> DEFINE l == LocksOf[kind[c]][held[c]]
      <4>1. l \in Locks
        BY <2>3, HeldIsPrefix, PrefixShrinks DEF Unwind, PcInv
      <4>2. token' = [token EXCEPT ![l] = 1]
        BY <2>3 DEF Unwind
      <4> HIDE DEF l
      <4> QED BY <4>1, <4>2 DEF TypeOK
    <3> QED BY <2>3, <3>1, <3>2 DEF Unwind, TypeOK, Goto, Return, Outcomes, modeVars, portVars, lineVars
  <2>4. CASE Complete(c)
    BY <2>4 DEF Complete, TypeOK, Goto, Return, Outcomes, modeVars, portVars, lineVars
  <2>5. CASE Panic(c)
    BY <2>5 DEF Panic, TypeOK, Goto, Return, Outcomes, modeVars, portVars, lineVars
  <2>6. CASE PortError(c)
    BY <2>6 DEF PortError, TypeOK, Goto, Return, Outcomes, modeVars, portVars, lineVars
  <2>7. CASE ReadReturn(c)
    BY <2>7 DEF ReadReturn, TypeOK, Goto, Return, Outcomes, modeVars, portVars, lineVars
  <2>8. ASSUME NEW n \in 1..DataLen, ReadSome(c, n)
        PROVE  TypeOK'
    <3>1. rx' \in 0..MaxRx /\ got' \in [Calls -> SUBSET (1..MaxRx)]
      BY <2>8, ReceiveType DEF ReadSome
    <3>2. count' \in [Calls -> 0..DataLen]
      BY <2>8, CountType DEF ReadSome
    <3> QED BY <2>8, <3>1, <3>2 DEF ReadSome, TypeOK, Goto, Return, Outcomes, modeVars, portVars, lineVars
  <2>9. CASE ReadNothing(c)
    BY <2>9 DEF ReadNothing, TypeOK, Goto, Return, Outcomes, modeVars, portVars, lineVars
  <2>10. CASE WriteReturn(c)
    BY <2>10 DEF WriteReturn, TypeOK, Goto, Return, Outcomes, modeVars, portVars, lineVars
  <2>11. ASSUME NEW n \in 0..DataLen, WriteSome(c, n)
        PROVE  TypeOK'
    <3>1. wire' \in Seq([call : Calls, baud : Bauds])
      <4>1. n \in Nat /\ Send(c, n)
        BY <2>11 DEF WriteSome
      <4> QED BY <4>1, SendType
    <3>2. count' \in [Calls -> 0..DataLen]
      BY <2>11, CountType DEF WriteSome
    <3> QED BY <2>11, <3>1, <3>2 DEF WriteSome, TypeOK, Goto, Return, Outcomes, modeVars, portVars, lineVars
  <2>12. ASSUME NEW n \in 0..DataLen, WriteError(c, n)
        PROVE  TypeOK'
    <3>1. wire' \in Seq([call : Calls, baud : Bauds])
      <4>1. n \in Nat /\ Send(c, n)
        BY <2>12 DEF WriteError
      <4> QED BY <4>1, SendType
    <3>2. count' \in [Calls -> 0..DataLen]
      BY <2>12, CountType DEF WriteError
    <3> QED BY <2>12, <3>1, <3>2 DEF WriteError, TypeOK, Goto, Return, Outcomes, modeVars, portVars, lineVars
  <2>13. CASE EchoSend(c)
    <3>1. wire' \in Seq([call : Calls, baud : Bauds])
      BY <2>13, SendType DEF EchoSend
    <3> QED BY <2>13, <3>1 DEF EchoSend, TypeOK, Goto, Return, Outcomes, modeVars, portVars, lineVars
  <2>14. CASE EchoSendTimeout(c)
    BY <2>14 DEF EchoSendTimeout, TypeOK, Goto, Return, Outcomes, modeVars, portVars, lineVars
  <2>15. CASE EchoTimeout(c)
    BY <2>15 DEF EchoTimeout, TypeOK, Goto, Return, Outcomes, modeVars, portVars, lineVars
  <2>16. ASSUME NEW same \in BOOLEAN, EchoReceive(c, same)
        PROVE  TypeOK'
    <3>1. rx' \in 0..MaxRx /\ got' \in [Calls -> SUBSET (1..MaxRx)]
      BY <2>16, ReceiveType DEF EchoReceive
    <3>2. count[c] + 1 <= DataLen
      BY <2>16 DEF EchoReceive, PcInv, TypeOK
    <3>3. count' \in [Calls -> 0..DataLen]
      <4>1. CASE same
        BY <2>16, <3>2, <4>1, CountType DEF EchoReceive
      <4>2. CASE ~same
        BY <2>16, <4>2 DEF EchoReceive, TypeOK
      <4> QED BY <4>1, <4>2
    <3> QED BY <2>16, <3>1, <3>3 DEF EchoReceive, TypeOK, Goto, Return, Outcomes, modeVars, portVars, lineVars
  <2>17. CASE BufferedReadIdle(c)
    BY <2>17 DEF BufferedReadIdle, FlushAndReturn, TypeOK, Goto, Return, Outcomes, modeVars, portVars, lineVars
  <2>18. CASE BufferedReadError(c)
    BY <2>18 DEF BufferedReadError, FlushAndReturn, TypeOK, Goto, Return, Outcomes, modeVars, portVars, lineVars
  <2>19. CASE BufferedReadGap(c)
    BY <2>19 DEF BufferedReadGap, TypeOK, Goto, Return, Outcomes, modeVars, portVars, lineVars
  <2>20. ASSUME NEW n \in 1..DataLen, BufferedReadData(c, n)
        PROVE  TypeOK'
    <3>1. rx' \in 0..MaxRx /\ got' \in [Calls -> SUBSET (1..MaxRx)]
      BY <2>20, ReceiveType DEF BufferedReadData
    <3>2. count' \in [Calls -> 0..DataLen]
      BY <2>20, CountType DEF BufferedReadData
    <3> QED BY <2>20, <3>1, <3>2 DEF BufferedReadData, TypeOK, Goto, Return, Outcomes, modeVars, portVars, lineVars
  <2>21. CASE Emitted(c)
    BY <2>21 DEF Emitted, TypeOK, Goto, Return, Outcomes, modeVars, portVars, lineVars
  <2>22. ASSUME NEW baud \in Bauds \union {0}, UpdateMode(c, baud)
        PROVE  TypeOK'
    BY <2>22 DEF UpdateMode, TypeOK, Goto, Return, Outcomes, modeVars, portVars, lineVars
  <2>23. CASE SetMode(c)
    BY <2>23 DEF SetMode, TypeOK, Goto, Return, Outcomes, modeVars, portVars, lineVars
  <2>24. CASE SetModeError(c)
    BY <2>24 DEF SetModeError, TypeOK, Goto, Return, Outcomes, modeVars, portVars, lineVars
  <2>25. CASE ReadBaudRate(c)
    BY <2>25 DEF ReadBaudRate, TypeOK, Goto, Return, Outcomes, modeVars, portVars, lineVars
  <2>26. ASSUME NEW n \in 0..MaxRx, FlushInput(c, n)
        PROVE  TypeOK'
    BY <2>26 DEF FlushInput, TypeOK, Goto, Return, Outcomes, modeVars, portVars, lineVars
  <2>27. CASE FlushOutput(c)
    BY <2>27 DEF FlushOutput, TypeOK, Goto, Return, Outcomes, modeVars, portVars, lineVars
  <2>28. CASE ClosePort(c)
    BY <2>28 DEF ClosePort, TypeOK, Goto, Return, Outcomes, modeVars, portVars, lineVars
  <2>29. CASE RemoveHandle(c)
    BY <2>29 DEF RemoveHandle, TypeOK, Goto, Return, Outcomes, modeVars, portVars, lineVars
  <2>30. CASE PortCall(c)
    BY <2>30 DEF PortCall, TypeOK, Goto, Return, Outcomes, modeVars, portVars, lineVars
  <2> QED BY <1>3, <2>1, <2>2, <2>3, <2>4, <2>5, <2>6, <2>7, <2>8, <2>9, <2>10, <2>11, <2>12, <2>13, <2>14, <2>15, <2>16, <2>17, <2>18, <2>19, <2>20, <2>21, <2>22, <2>23, <2>24, <2>25, <2>26, <2>27, <2>28, <2>29, <2>30 DEF Run, Work, PortFails
<1>4. CASE UNCHANGED vars
  BY <1>4 DEF vars, callVars, TypeOK, Goto, Return, Outcomes, modeVars, portVars, lineVars
<1> QED BY <1>1, <1>2, <1>3, <1>4 DEF Next, Finished

-----------------------------------------------------------------------------
(* Places *)

\* A step of a goroutine either moves a lock or the place of a call that has
\* none to wait for, or is a step of its work.
LEMMA WorkSteps ==
  ASSUME TypeOK, PcInv, NEW c \in Calls, Run(c)
  PROVE  \/ Acquire(c) \/ AcquireTimeout(c) \/ Unwind(c) \/ Complete(c)
         \/ Works(c)
<1> USE DEF Works, Working, Goto, Return, Fits
<1>1. Panic(c) => Works(c)
  BY DEF Panic, TypeOK, PcInv
<1>2. PortError(c) => Works(c)
  BY DEF PortError, TypeOK, PcInv
<1>3. ReadReturn(c) => Works(c)
  BY DEF ReadReturn, TypeOK, PcInv
<1>4. ASSUME NEW n \in 1..DataLen, ReadSome(c, n)
      PROVE  Works(c)
  BY <1>4 DEF ReadSome, TypeOK, PcInv
<1>5. ReadNothing(c) => Works(c)
  BY DEF ReadNothing, TypeOK, PcInv
<1>6. WriteReturn(c) => Works(c)
  BY DEF WriteReturn, TypeOK, PcInv
<1>7. ASSUME NEW n \in 0..DataLen, WriteSome(c, n)
      PROVE  Works(c)
  BY <1>7 DEF WriteSome, TypeOK, PcInv
<1>8. ASSUME NEW n \in 0..DataLen, WriteError(c, n)
      PROVE  Works(c)
  BY <1>8 DEF WriteError, TypeOK, PcInv
<1>9. EchoSend(c) => Works(c)
  BY DEF EchoSend, TypeOK, PcInv
<1>10. EchoSendTimeout(c) => Works(c)
  BY DEF EchoSendTimeout, TypeOK, PcInv
<1>11. EchoTimeout(c) => Works(c)
  BY DEF EchoTimeout, TypeOK, PcInv
<1>12. ASSUME NEW same \in BOOLEAN, EchoReceive(c, same)
      PROVE  Works(c)
  BY <1>12 DEF EchoReceive, TypeOK, PcInv
<1>13. ASSUME BufferedReadIdle(c)
       PROVE  Works(c)
  <2>1. Goto(c, "emit") \/ Goto(c, "unwind")
    BY <1>13 DEF BufferedReadIdle, FlushAndReturn
  <2> QED BY <1>13, <2>1 DEF BufferedReadIdle, TypeOK, PcInv
<1>14. ASSUME BufferedReadError(c)
       PROVE  Works(c)
  <2>1. Goto(c, "emit") \/ Goto(c, "unwind")
    BY <1>14 DEF BufferedReadError, FlushAndReturn
  <2> QED BY <1>14, <2>1 DEF BufferedReadError, TypeOK, PcInv
<1>15. BufferedReadGap(c) => Works(c)
  BY DEF BufferedReadGap, TypeOK, PcInv
<1>16. ASSUME NEW n \in 1..DataLen, BufferedReadData(c, n)
      PROVE  Works(c)
  <2>1. Goto(c, "emit") \/ Goto(c, "io")
    BY <1>16 DEF BufferedReadData
  <2>2. \A d \in Calls \ {c} : count'[d] = count[d]
    BY <1>16 DEF BufferedReadData, TypeOK
  <2> QED BY <1>16, <2>1, <2>2 DEF BufferedReadData, TypeOK, PcInv
<1>17. ASSUME Emitted(c)
       PROVE  Works(c)
  <2>1. Goto(c, "io") \/ Goto(c, "unwind")
    BY <1>17 DEF Emitted
  <2>2. \A d \in Calls \ {c} : count'[d] = count[d]
    BY <1>17 DEF Emitted, TypeOK
  <2>3. pc[c] \in Working /\ kind[c] = "bufferedRead"
    BY <1>17 DEF Emitted, PcInv
  <2> QED BY <1>17, <2>1, <2>2, <2>3 DEF Emitted
<1>18. ASSUME NEW baud \in Bauds \union {0}, UpdateMode(c, baud)
      PROVE  Works(c)
  BY <1>18 DEF UpdateMode, TypeOK, PcInv
<1>19. SetMode(c) => Works(c)
  BY DEF SetMode, TypeOK, PcInv
<1>20. SetModeError(c) => Works(c)
  BY DEF SetModeError, TypeOK, PcInv
<1>21. ReadBaudRate(c) => Works(c)
  BY DEF ReadBaudRate, TypeOK, PcInv
<1>22. ASSUME NEW n \in 0..MaxRx, FlushInput(c, n)
      PROVE  Works(c)
  BY <1>22 DEF FlushInput, TypeOK, PcInv
<1>23. FlushOutput(c) => Works(c)
  BY DEF FlushOutput, TypeOK, PcInv
<1>24. ClosePort(c) => Works(c)
  BY DEF ClosePort, TypeOK, PcInv
<1>25. RemoveHandle(c) => Works(c)
  BY DEF RemoveHandle, TypeOK, PcInv
<1>26. PortCall(c) => Works(c)
  BY DEF PortCall, TypeOK, PcInv
<1> QED BY <1>1, <1>2, <1>3, <1>4, <1>5, <1>6, <1>7, <1>8, <1>9, <1>10, <1>11, <1>12, <1>13, <1>14, <1>15, <1>16, <1>17, <1>18, <1>19, <1>20, <1>21, <1>22, <1>23, <1>24, <1>25, <1>26 DEF Run, Work, PortFails

LEMMA PcStep == TypeOK /\ PcInv /\ [Next]_vars => PcInv'
<1> SUFFICES ASSUME TypeOK, PcInv, [Next]_vars
             PROVE  PcInv'
  OBVIOUS
<1> USE DEF Goto, Return, Fits, Working
<1>1. ASSUME NEW c \in Calls, NEW k \in Kinds, Dispatch(c, k)
      PROVE  PcInv'
  <2>1. k \in AllKinds /\ k # "none"
    BY PortAssumption DEF AllKinds, Operations
  <2>2. /\ Len(LocksOf[k]) \in Nat
        /\ Len(LocksOf[k]) = 0 <=> LocksOf[k] = <<>>
    BY <2>1, LockOrders
  <2>3. held[c] = 0
    BY <1>1 DEF Dispatch, PcInv
  <2>4. /\ kind' = [kind EXCEPT ![c] = k]
        /\ \/ pc' = [pc EXCEPT ![c] = "io"] /\ LocksOf[k] = <<>>
           \/ pc' = [pc EXCEPT ![c] = "acquire"] /\ LocksOf[k] # <<>>
           \/ pc' = [pc EXCEPT ![c] = "done"]
        /\ held' = held /\ count' = count
    BY <1>1 DEF Dispatch
  <2> QED BY <2>1, <2>2, <2>3, <2>4 DEF PcInv, TypeOK
<1>2. ASSUME NEW c \in Calls, Expire(c)
      PROVE  PcInv'
  BY <1>2 DEF Expire, PcInv
<1>3. ASSUME NEW c \in Calls, Run(c)
      PROVE  PcInv'
  <2>1. CASE Acquire(c)
    <3>1. /\ kind[c] \in AllKinds /\ held[c] \in Nat
          /\ Len(LocksOf[kind[c]]) \in Nat
      BY HeldIsPrefix, LockOrders
    <3> QED BY <2>1, <3>1 DEF Acquire, PcInv, TypeOK
  <2>2. CASE AcquireTimeout(c)
    BY <2>2 DEF AcquireTimeout, PcInv, TypeOK
  <2>3. CASE Unwind(c)
    <3>1. /\ kind[c] \in AllKinds /\ held[c] \in Nat
          /\ Len(LocksOf[kind[c]]) \in Nat
      BY HeldIsPrefix, LockOrders
    <3> QED BY <2>3, <3>1 DEF Unwind, PcInv, TypeOK
  <2>4. CASE Complete(c)
    BY <2>4 DEF Complete, PcInv, TypeOK
  <2>5. CASE Works(c)
    BY <2>5 DEF Works, PcInv, TypeOK
  <2> QED BY <1>3, <2>1, <2>2, <2>3, <2>4, <2>5, WorkSteps
<1>4. CASE UNCHANGED vars
  BY <1>4 DEF vars, callVars, PcInv
<1> QED BY <1>1, <1>2, <1>3, <1>4 DEF Next, Finished

-----------------------------------------------------------------------------
(* Locks *)

\* LockInv only speaks of the tokens and of what each call holds.
LEMMA LocksKept ==
  ASSUME LockInv, token' = token, \A d \in Calls : Held(d)' = Held(d)
  PROVE  LockInv'
  BY DEF LockInv

LEMMA LockStep == IInv /\ [Next]_vars => LockInv'
<1> SUFFICES ASSUME IInv, [Next]_vars
             PROVE  LockInv'
  OBVIOUS
<1> USE DEF IInv
<1>1. ASSUME NEW c \in Calls, NEW k \in Kinds, Dispatch(c, k)
      PROVE  LockInv'
  <2>1. held[c] = 0
    BY <1>1 DEF Dispatch, PcInv
  <2>2. token' = token /\ held' = held /\ \A d \in Calls \ {c} : kind'[d] = kind[d]
    BY <1>1 DEF Dispatch, TypeOK
  <2>3. ASSUME NEW d \in Calls
        PROVE  Held(d)' = Held(d)
    <3>1. CASE d = c
      BY <2>1, <2>2, <3>1 DEF Held
    <3>2. CASE d # c
      BY <2>2, <3>2 DEF Held
    <3> QED BY <3>1, <3>2
  <2> QED BY <2>2, <2>3, LocksKept
<1>2. ASSUME token' = token, kind' = kind, held' = held
      PROVE  LockInv'
  BY <1>2, LocksKept DEF Held
<1>3. CASE \E c \in Calls : Expire(c)
  BY <1>2, <1>3 DEF Expire
<1>4. ASSUME NEW c \in Calls, Run(c)
      PROVE  LockInv'
  <2> DEFINE k == kind[c]
             h == held[c]
  <2>1. k \in AllKinds /\ h \in Nat /\ Held(c) = Prefix(k, h)
    BY HeldIsPrefix
  <2>2. CASE Acquire(c)
    <3> DEFINE l == LocksOf[k][h + 1]
    <3>1. h < Len(LocksOf[k])
      BY <2>2 DEF Acquire, PcInv
    <3>2. /\ l \in Locks
          /\ l \notin Prefix(k, h)
          /\ Prefix(k, h + 1) = Prefix(k, h) \union {l}
      BY <2>1, <3>1, PrefixGrows
    <3>3. /\ token[l] = 1
          /\ token' = [token EXCEPT ![l] = 0]
          /\ held' = [held EXCEPT ![c] = h + 1]
          /\ kind' = kind
      BY <2>2 DEF Acquire, NextLock
    <3>4. Held(c)' = Held(c) \union {l}
      <4>1. held'[c] = h + 1 /\ kind'[c] = k
        BY <3>3 DEF TypeOK
      <4> QED BY <4>1, <3>2, <2>1 DEF Held, Prefix
    <3>5. \A d \in Calls \ {c} : Held(d)' = Held(d)
      BY <3>3 DEF Held, TypeOK
    <3>6. \A d \in Calls : l \notin Held(d)
      BY <3>2, <3>3 DEF LockInv
    <3>7. token'[l] = 0 /\ \A m \in Locks \ {l} : token'[m] = token[m]
      BY <3>2, <3>3 DEF TypeOK
    <3> HIDE DEF l
    <3> QED BY <3>2, <3>4, <3>5, <3>6, <3>7 DEF LockInv
  <2>3. CASE AcquireTimeout(c)
    BY <1>2, <2>3 DEF AcquireTimeout
  <2>4. CASE Unwind(c)
    <3> DEFINE l == LocksOf[k][h]
    <3>1. h > 0 /\ h <= Len(LocksOf[k])
      BY <2>4 DEF Unwind, PcInv
    <3>2. /\ l \in Locks
          /\ l \in Prefix(k, h)
          /\ Prefix(k, h - 1) = Prefix(k, h) \ {l}
      BY <2>1, <3>1, PrefixShrinks
    <3>3. /\ token' = [token EXCEPT ![l] = 1]
          /\ held' = [held EXCEPT ![c] = h - 1]
          /\ kind' = kind
      BY <2>4 DEF Unwind
    <3>4. Held(c)' = Held(c) \ {l}
      <4>1. held'[c] = h - 1 /\ kind'[c] = k
        BY <3>3 DEF TypeOK
      <4> QED BY <4>1, <3>2, <2>1 DEF Held, Prefix
    <3>5. \A d \in Calls \ {c} : Held(d)' = Held(d) /\ l \notin Held(d)
      <4>1. l \in Held(c)
        BY <2>1, <3>2
      <4>2. \A d \in Calls \ {c} : Held(d)' = Held(d)
        BY <3>3 DEF Held, TypeOK
      <4> QED BY <4>1, <4>2 DEF LockInv
    <3>6. token'[l] = 1 /\ \A m \in Locks \ {l} : token'[m] = token[m]
      BY <3>2, <3>3 DEF TypeOK
    <3> HIDE DEF l
    <3> QED BY <3>2, <3>4, <3>5, <3>6 DEF LockInv
  <2>5. CASE Complete(c)
    BY <1>2, <2>5 DEF Complete
  <2>6. CASE Works(c)
    BY <1>2, <2>6 DEF Works
  <2> QED BY <1>4, <2>2, <2>3, <2>4, <2>5, <2>6, WorkSteps
<1>5. CASE UNCHANGED vars
  BY <1>2, <1>5 DEF vars, callVars
<1> QED BY <1>1, <1>3, <1>4, <1>5 DEF Next, Finished

LEMMA InitIInv == Init => IInv
<1> SUFFICES ASSUME Init
             PROVE  IInv
  OBVIOUS
<1>1. LocksOf["none"] = <<>> /\ Len(LocksOf["none"]) = 0
  BY DEF LocksOf
<1>2. PcInv
  BY <1>1 DEF Init, PcInv, Fits, Working
<1>3. \A c \in Calls : Held(c) = {}
  BY DEF Init, Held
<1>4. LockInv
  BY <1>3 DEF Init, LockInv
<1> QED BY <1>2, <1>4, TypeInit DEF IInv

\* The inductive invariant holds throughout.
THEOREM Inductive == Spec => []IInv
<1>1. IInv /\ [Next]_vars => IInv'
  BY TypeStep, PcStep, LockStep DEF IInv
<1> QED BY <1>1, InitIInv, PTL DEF Spec

-----------------------------------------------------------------------------
(* Results *)

\* Every variable keeps its type.
THEOREM TypeCorrect == Spec => []TypeOK
<1>1. IInv => TypeOK
  BY DEF IInv
<1> QED BY <1>1, Inductive, PTL

\* Each token is in its channel or owed by one call: whatever times out, fails
\* or panics, no conch is lost, doubled or shared.
THEOREM Locking == Spec => []LockInv
<1>1. IInv => LockInv
  BY DEF IInv
<1> QED BY <1>1, Inductive, PTL

\* A mode change runs with both conches, and every read and write holds one.
LEMMA FullHands ==
  ASSUME TypeOK, PcInv, NEW c \in Calls, pc[c] \in Working
  PROVE  /\ kind[c] = "update" => Held(c) = Locks
         /\ kind[c] \in {"read", "echo", "bufferedRead"} => "read" \in Held(c)
         /\ kind[c] = "write" => "write" \in Held(c)
<1>1. Held(c) = Prefix(kind[c], Len(LocksOf[kind[c]]))
  BY HeldIsPrefix DEF PcInv
<1>2. Prefix("update", Len(LocksOf["update"])) = Locks
  <2>1. LocksOf["update"] = UpdateLocks
    BY DEF LocksOf, Operations
  <2>2. 1..Len(UpdateLocks) = {1, 2, 3}
    BY DEF UpdateLocks
  <2>3. UpdateLocks[1] = "write" /\ UpdateLocks[2] = "read" /\ UpdateLocks[3] = "mode"
    BY DEF UpdateLocks
  <2>4. Prefix("update", Len(LocksOf["update"])) = {UpdateLocks[i] : i \in {1, 2, 3}}
    BY <2>1, <2>2 DEF Prefix
  <2> QED BY <2>3, <2>4 DEF Locks
<1>3. "read" \in Prefix("read", Len(LocksOf["read"]))
  BY DEF LocksOf, Operations, Prefix
<1>4. "read" \in Prefix("bufferedRead", Len(LocksOf["bufferedRead"]))
  BY DEF LocksOf, Operations, Prefix
<1>5. "write" \in Prefix("write", Len(LocksOf["write"]))
  BY DEF LocksOf, Operations, Prefix
<1>6. "read" \in Prefix("echo", Len(LocksOf["echo"]))
  <2>1. LocksOf["echo"] = EchoLocks
    BY DEF LocksOf, Operations
  <2>2. Len(EchoLocks) = 2 /\ EchoLocks[2] = "read"
    BY DEF EchoLocks
  <2> QED BY <2>1, <2>2 DEF Prefix
<1> QED BY <1>1, <1>2, <1>3, <1>4, <1>5, <1>6

\* "It holds both conches for the duration so the mode change can't race an
\* in-flight read or write" (serial.go:330).
THEOREM ModeExclusion == Spec => []ModeChangeExclusive
<1>1. IInv => ModeChangeExclusive
  <2> SUFFICES ASSUME IInv, NEW c \in Calls, NEW d \in Calls,
                      pc[c] = "setMode", InPortIO(d)
               PROVE  FALSE
    BY DEF ModeChangeExclusive
  <2>1. kind[c] = "update" /\ kind[d] # "update"
    BY DEF IInv, PcInv, Fits, InPortIO
  <2>2. Held(c) = Locks
    BY <2>1, FullHands DEF IInv, Working
  <2>3. \E l \in Locks : l \in Held(d)
    BY FullHands DEF IInv, Working, InPortIO, Locks
  <2> QED BY <2>1, <2>2, <2>3 DEF IInv, LockInv
<1> QED BY <1>1, Inductive, PTL

\* The order every operation acquires its locks in.
Rank == [write |-> 1, read |-> 2, mode |-> 3]

\* What an operation waits for ranks above all it holds.
LEMMA RanksRise ==
  ASSUME NEW k \in AllKinds, NEW h \in Nat, h < Len(LocksOf[k])
  PROVE  \A l \in Prefix(k, h) : Rank[l] < Rank[LocksOf[k][h + 1]]
<1> DEFINE s == LocksOf[k]
<1>1. s \in {<<>>, <<"read">>, <<"write">>, <<"mode">>, EchoLocks, UpdateLocks}
  BY DEF AllKinds, Operations, LocksOf
<1>2. \A i, j \in 1..Len(s) : i < j => Rank[s[i]] < Rank[s[j]]
  <2> HIDE DEF s
  <2>1. CASE Len(s) = 0
    BY <2>1
  <2>2. CASE Len(s) = 1
    BY <2>2
  <2>3. CASE s = EchoLocks
    BY <2>3 DEF Rank, EchoLocks
  <2>4. CASE s = UpdateLocks
    BY <2>4 DEF Rank, UpdateLocks
  <2> QED BY <1>1, <2>1, <2>2, <2>3, <2>4
<1>3. h + 1 \in 1..Len(s) /\ \A i \in 1..h : i \in 1..Len(s) /\ i < h + 1
  BY LockOrders
<1> QED BY <1>2, <1>3 DEF Prefix

\* "A consistent order avoids an AB-BA deadlock" (serial.go:332): some call in
\* each set waits for the highest lock waited for in it, and the holder of
\* that one waits for none of the set.
THEOREM DeadlockFreedom == Spec => []NoCircularWait
<1>1. ASSUME IInv
      PROVE  NoCircularWait
  <2> USE <1>1 DEF IInv
  <2>1. ASSUME NEW c \in Calls, pc[c] = "acquire"
        PROVE  /\ NextLock(c) \in Locks
               /\ \A l \in Held(c) : Rank[l] < Rank[NextLock(c)]
    <3>1. /\ kind[c] \in AllKinds
          /\ held[c] \in Nat
          /\ Held(c) = Prefix(kind[c], held[c])
      BY HeldIsPrefix
    <3>2. held[c] < Len(LocksOf[kind[c]])
      BY <2>1 DEF PcInv
    <3> QED BY <3>1, <3>2, PrefixGrows, RanksRise DEF NextLock
  <2> SUFFICES ASSUME NEW S \in (SUBSET Calls) \ {{}},
                      \A c \in S : \E d \in S : WaitsOn(c, d)
               PROVE  FALSE
    BY DEF NoCircularWait
  <2>2. ASSUME NEW c \in S
        PROVE  \E d \in S : Rank[NextLock(c)] < Rank[NextLock(d)]
    <3>1. PICK d \in S : WaitsOn(c, d)
      OBVIOUS
    <3>2. pc[d] = "acquire" /\ NextLock(c) \in Held(d)
      BY <3>1 DEF WaitsOn
    <3> QED BY <2>1, <3>2
  <2>3. \A c \in S : Rank[NextLock(c)] \in 1..3
    <3>1. \A c \in S : NextLock(c) \in Locks
      BY <2>1 DEF WaitsOn
    <3> QED BY <3>1 DEF Locks, Rank
  <2>4. \A c \in S : Rank[NextLock(c)] # 3
    BY <2>2, <2>3
  <2>5. \A c \in S : Rank[NextLock(c)] # 2
    BY <2>2, <2>3, <2>4
  <2>6. \A c \in S : Rank[NextLock(c)] # 1
    BY <2>2, <2>3, <2>4, <2>5
  <2> QED BY <2>3, <2>4, <2>5, <2>6
<1> QED BY <1>1, Inductive, PTL

\* No operation acquires anything after muMode; a read does without it.
LEMMA ModeIsLast ==
  ASSUME NEW k \in AllKinds, NEW i \in 1..Len(LocksOf[k]), LocksOf[k][i] = "mode"
  PROVE  i = Len(LocksOf[k]) /\ k # "bufferedRead"
<1> DEFINE s == LocksOf[k]
<1>1. /\ s \in {<<>>, <<"read">>, <<"write">>, <<"mode">>, EchoLocks, UpdateLocks}
      /\ k = "bufferedRead" => s = <<"read">>
  BY DEF AllKinds, Operations, LocksOf
<1> SUFFICES ASSUME NEW j \in 1..Len(s), s[j] = "mode"
             PROVE  j = Len(s) /\ s # <<"read">>
  BY <1>1
<1> HIDE DEF s
<1>2. CASE Len(s) \in {0, 1}
  <2>1. j = 1 /\ Len(s) = 1
    BY <1>2
  <2>2. <<"read">>[1] # "mode"
    OBVIOUS
  <2> QED BY <2>1, <2>2
<1>3. CASE s = EchoLocks
  BY <1>3 DEF EchoLocks
<1>4. CASE s = UpdateLocks
  BY <1>4 DEF UpdateLocks
<1>5. Len(s) \in {0, 1} \/ s = EchoLocks \/ s = UpdateLocks
  BY <1>1
<1> QED BY <1>2, <1>3, <1>4, <1>5

\* Who waits for muMode waits for a mode change in SetMode or on its way out,
\* and that one waits for nobody.
THEOREM LoopFreedom == Spec => []LoopNeverWaitsForItself
<1>1. IInv => LoopNeverWaitsForItself
  <2> SUFFICES ASSUME IInv, NEW c \in Calls, NEW d \in Calls, NEW e \in Calls,
                      NEW f \in Calls, kind[c] = "getBaudRate", WaitsOn(c, d),
                      e = d \/ WaitsOn(d, e), f = e \/ WaitsOn(e, f),
                      pc[f] = "emit"
               PROVE  FALSE
    BY DEF LoopNeverWaitsForItself
  <2> USE DEF IInv
  <2>1. "mode" \in Held(d)
    <3>1. held[c] = 0 /\ NextLock(c) = "mode"
      <4>1. LocksOf["getBaudRate"] = <<"mode">>
        BY DEF LocksOf, Operations
      <4>2. held[c] \in Nat
        BY HeldIsPrefix
      <4>3. held[c] < Len(LocksOf[kind[c]])
        BY DEF PcInv, WaitsOn
      <4>4. held[c] = 0
        BY <4>1, <4>2, <4>3
      <4> QED BY <4>1, <4>4 DEF NextLock
    <3> QED BY <3>1 DEF WaitsOn
  <2>2. pc[d] # "acquire" /\ kind[d] # "bufferedRead"
    <3>1. /\ kind[d] \in AllKinds
          /\ held[d] \in Nat
          /\ Held(d) = Prefix(kind[d], held[d])
      BY HeldIsPrefix
    <3>2. PICK i \in 1..held[d] : LocksOf[kind[d]][i] = "mode"
      BY <2>1, <3>1 DEF Prefix
    <3>3. held[d] <= Len(LocksOf[kind[d]])
      BY DEF PcInv
    <3>4. Len(LocksOf[kind[d]]) \in Nat /\ i \in 1..Len(LocksOf[kind[d]])
      BY <3>1, <3>3, LockOrders
    <3>5. i = Len(LocksOf[kind[d]]) /\ kind[d] # "bufferedRead"
      BY <3>1, <3>2, <3>4, ModeIsLast
    <3> QED BY <3>1, <3>3, <3>4, <3>5 DEF PcInv
  <2>3. f = d
    BY <2>2 DEF WaitsOn
  <2> QED BY <2>2, <2>3 DEF PcInv, Fits
<1> QED BY <1>1, Inductive, PTL

-----------------------------------------------------------------------------
(* The rate *)

\* SetMode failed in call c, or panicked.
RateLeft(c) == kind[c] = "update" /\ outcome[c] \in {"portError", "panic"}

\* A call that has not been made has no outcome, and a failure ends its call.
FailuresEndCalls ==
  \A c \in Calls :
    /\ pc[c] = "idle" => outcome[c] = "none"
    /\ RateLeft(c) => pc[c] \in {"unwind", "done"}

\* p.mode and the device differ only while an update is between the two, or
\* after one that failed there.
RatesPartedBy ==
  modeBaud # devBaud => \E c \in Calls : pc[c] = "setMode" \/ RateLeft(c)

RateInv == FailuresEndCalls /\ RatesPartedBy

\* A step of call c that leaves both rates alone: it is not at SetMode, unless
\* that fails, and an outcome is for good.
KeepsRates(c) ==
  /\ UNCHANGED <<kind, modeVars>>
  /\ \A d \in Calls \ {c} : pc'[d] = pc[d] /\ outcome'[d] = outcome[d]
  /\ pc'[c] # "idle"
  /\ pc[c] = "setMode" => RateLeft(c)'
  /\ pc[c] \in {"unwind", "done"} =>
       outcome'[c] = outcome[c] /\ pc'[c] \in {"unwind", "done"}
  /\ kind[c] = "update" /\ outcome'[c] # outcome[c] => pc'[c] = "unwind"

LEMMA RateSteps ==
  ASSUME TypeOK, PcInv, NEW c \in Calls, Run(c)
  PROVE  \/ \E baud \in Bauds \union {0} : UpdateMode(c, baud)
         \/ SetMode(c)
         \/ KeepsRates(c)
<1> USE DEF KeepsRates, RateLeft, Goto, Return, FlushAndReturn, TypeOK, PcInv, Fits
<1>1. Acquire(c) => KeepsRates(c)
  BY DEF Acquire
<1>2. AcquireTimeout(c) => KeepsRates(c)
  BY DEF AcquireTimeout
<1>3. Unwind(c) => KeepsRates(c)
  BY DEF Unwind
<1>4. Complete(c) => KeepsRates(c)
  BY DEF Complete
<1>5. ReadReturn(c) => KeepsRates(c)
  BY DEF ReadReturn
<1>6. ASSUME NEW n \in 1..DataLen, ReadSome(c, n)
      PROVE  KeepsRates(c)
  BY <1>6 DEF ReadSome
<1>7. ReadNothing(c) => KeepsRates(c)
  BY DEF ReadNothing
<1>8. WriteReturn(c) => KeepsRates(c)
  BY DEF WriteReturn
<1>9. ASSUME NEW n \in 0..DataLen, WriteSome(c, n)
      PROVE  KeepsRates(c)
  BY <1>9 DEF WriteSome
<1>10. EchoSend(c) => KeepsRates(c)
  BY DEF EchoSend
<1>11. EchoSendTimeout(c) => KeepsRates(c)
  BY DEF EchoSendTimeout
<1>12. EchoTimeout(c) => KeepsRates(c)
  BY DEF EchoTimeout
<1>13. ASSUME NEW same \in BOOLEAN, EchoReceive(c, same)
       PROVE  KeepsRates(c)
  BY <1>13 DEF EchoReceive
<1>14. BufferedReadIdle(c) => KeepsRates(c)
  BY DEF BufferedReadIdle
<1>15. BufferedReadGap(c) => KeepsRates(c)
  BY DEF BufferedReadGap
<1>16. ASSUME NEW n \in 1..DataLen, BufferedReadData(c, n)
       PROVE  KeepsRates(c)
  BY <1>16 DEF BufferedReadData
<1>17. Emitted(c) => KeepsRates(c)
  BY DEF Emitted
<1>18. ReadBaudRate(c) => KeepsRates(c)
  BY DEF ReadBaudRate
<1>19. PortCall(c) => KeepsRates(c)
  BY DEF PortCall
<1>20. ASSUME NEW n \in 0..MaxRx, FlushInput(c, n)
       PROVE  KeepsRates(c)
  BY <1>20 DEF FlushInput
<1>21. FlushOutput(c) => KeepsRates(c)
  BY DEF FlushOutput
<1>22. ClosePort(c) => KeepsRates(c)
  BY DEF ClosePort
<1>23. RemoveHandle(c) => KeepsRates(c)
  BY DEF RemoveHandle
<1>24. PortError(c) => KeepsRates(c)
  BY DEF PortError
<1>25. ASSUME NEW n \in 0..DataLen, WriteError(c, n)
       PROVE  KeepsRates(c)
  BY <1>25 DEF WriteError
<1>26. BufferedReadError(c) => KeepsRates(c)
  BY DEF BufferedReadError
<1>27. SetModeError(c) => KeepsRates(c)
  BY DEF SetModeError
<1>28. Panic(c) => KeepsRates(c)
  BY DEF Panic
<1> HIDE DEF KeepsRates, RateLeft, Goto, Return, FlushAndReturn, TypeOK, PcInv, Fits
<1>29. PortFails(c) => KeepsRates(c)
  BY <1>24, <1>25, <1>26, <1>27 DEF PortFails
<1> DEFINE Changes == \/ \E baud \in Bauds \union {0} : UpdateMode(c, baud)
                     \/ SetMode(c)
<1>30. (\E baud \in Bauds \union {0} : UpdateMode(c, baud)) => Changes
  OBVIOUS
<1>31. SetMode(c) => Changes
  OBVIOUS
<1> HIDE DEF Changes
<1>32. ASSUME Work(c) PROVE Changes \/ KeepsRates(c)
  BY ZenonT(60), <1>1, <1>2, <1>3, <1>4, <1>5, <1>6, <1>7, <1>8, <1>9, <1>10, <1>11, <1>12, <1>13, <1>14, <1>15, <1>16, <1>17, <1>18, <1>19, <1>20, <1>21, <1>22, <1>23, <1>30, <1>31, <1>32 DEF Work
<1> QED BY <1>28, <1>29, <1>32 DEF Run, Changes

\* The calls other than c have not moved: what they left of the rates stays.
LEMMA RateStep == IInv /\ RateInv /\ [Next]_vars => RateInv'
<1> SUFFICES ASSUME IInv, FailuresEndCalls, RatesPartedBy, [Next]_vars
             PROVE  FailuresEndCalls' /\ RatesPartedBy'
  BY DEF RateInv
<1> USE DEF IInv
<1>1. ASSUME NEW c \in Calls, NEW k \in Kinds, Dispatch(c, k)
      PROVE  FailuresEndCalls' /\ RatesPartedBy'
  <2>1. pc[c] = "idle" /\ kind[c] = "none" /\ outcome[c] = "none"
    BY <1>1 DEF Dispatch, PcInv, FailuresEndCalls
  <2>2. /\ UNCHANGED <<modeBaud, devBaud>>
        /\ \A d \in Calls \ {c} :
             kind'[d] = kind[d] /\ pc'[d] = pc[d] /\ outcome'[d] = outcome[d]
        /\ pc'[c] \notin {"idle", "setMode"}
        /\ outcome'[c] \notin {"portError", "panic"}
    BY <1>1, <2>1 DEF Dispatch, Goto, TypeOK, modeVars
  <2>3. \A d \in Calls \ {c} : RateLeft(d)' <=> RateLeft(d)
    BY <2>2 DEF RateLeft
  <2>4. ~RateLeft(c) /\ ~RateLeft(c)' /\ pc[c] # "setMode"
    BY <2>1, <2>2 DEF RateLeft
  <2> QED BY <2>2, <2>3, <2>4 DEF FailuresEndCalls, RatesPartedBy
<1>2. ASSUME UNCHANGED <<kind, pc, outcome, modeVars>>
      PROVE  FailuresEndCalls' /\ RatesPartedBy'
  BY <1>2 DEF FailuresEndCalls, RatesPartedBy, RateLeft, modeVars
<1>3. ASSUME NEW c \in Calls, Run(c)
      PROVE  FailuresEndCalls' /\ RatesPartedBy'
  <2>1. ASSUME NEW baud \in Bauds \union {0}, UpdateMode(c, baud)
        PROVE  FailuresEndCalls' /\ RatesPartedBy'
    <3>1. /\ kind' = kind /\ outcome' = outcome /\ pc[c] = "io"
          /\ pc'[c] = "setMode" /\ \A d \in Calls \ {c} : pc'[d] = pc[d]
      BY <2>1 DEF UpdateMode, Goto, TypeOK
    <3>2. ~RateLeft(c) /\ \A d \in Calls : RateLeft(d)' <=> RateLeft(d)
      BY <3>1 DEF FailuresEndCalls, RateLeft
    <3> QED BY <3>1, <3>2 DEF FailuresEndCalls, RatesPartedBy
  <2>2. CASE SetMode(c)
    <3>1. /\ kind' = kind /\ modeBaud' = devBaud'
          /\ \A d \in Calls \ {c} : pc'[d] = pc[d] /\ outcome'[d] = outcome[d]
          /\ outcome'[c] = "ok" /\ pc'[c] = "unwind"
      BY <2>2 DEF SetMode, Return, Goto, TypeOK
    <3> QED BY <3>1 DEF FailuresEndCalls, RatesPartedBy, RateLeft
  <2>3. CASE KeepsRates(c)
    <3>1. UNCHANGED <<kind, modeBaud, devBaud>>
      BY <2>3 DEF KeepsRates, modeVars
    <3>2. \A d \in Calls \ {c} :
            /\ pc'[d] = pc[d] /\ outcome'[d] = outcome[d]
            /\ RateLeft(d)' <=> RateLeft(d)
      BY <2>3, <3>1 DEF KeepsRates, RateLeft
    <3>3. /\ pc'[c] # "idle"
          /\ RateLeft(c)' => pc'[c] \in {"unwind", "done"}
          /\ pc[c] = "setMode" \/ RateLeft(c) => RateLeft(c)'
      BY <2>3 DEF KeepsRates, RateLeft, FailuresEndCalls
    <3> QED BY <3>1, <3>2, <3>3 DEF FailuresEndCalls, RatesPartedBy
  <2> QED BY <1>3, <2>1, <2>2, <2>3, RateSteps
<1>4. CASE UNCHANGED vars
  BY <1>2, <1>4 DEF vars, callVars
<1>5. ASSUME NEW c \in Calls, Expire(c)
      PROVE  FailuresEndCalls' /\ RatesPartedBy'
  BY <1>2, <1>5 DEF Expire
<1> QED BY <1>1, <1>3, <1>4, <1>5 DEF Next, Finished

\* With muMode free nobody is in SetMode, so a rate of p.mode that the device
\* does not have is one an update that failed has left there.
THEOREM RateAgreement == Spec => []BaudRateIsDevices
<1>1. Init => RateInv
  BY DEF Init, RateInv, FailuresEndCalls, RatesPartedBy, RateLeft
<1>2. IInv /\ RateInv => BaudRateIsDevices
  <2> SUFFICES ASSUME IInv, RateInv, token["mode"] = 1, modeBaud # devBaud
               PROVE  \E c \in Calls : RateLeft(c)
    BY DEF BaudRateIsDevices, RateLeft
  <2>1. PICK c \in Calls : pc[c] = "setMode" \/ RateLeft(c)
    BY DEF RateInv, RatesPartedBy
  <2>2. pc[c] # "setMode"
    <3> SUFFICES ASSUME pc[c] = "setMode"
                 PROVE  FALSE
      OBVIOUS
    <3>1. kind[c] = "update"
      BY DEF IInv, PcInv, Fits
    <3>2. Held(c) = Locks
      BY <3>1, FullHands DEF IInv, Working
    <3> QED BY <3>2 DEF IInv, LockInv, Locks
  <2> QED BY <2>1, <2>2
<1> QED BY <1>1, <1>2, Inductive, RateStep, PTL DEF Spec

===============================================================================
