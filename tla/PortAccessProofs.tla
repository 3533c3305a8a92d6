---------------------------- MODULE PortAccessProofs ----------------------------
(***************************************************************************)
(* What PortAccess promises for any number of calls: frames stay in one    *)
(* piece, and readers do not take bytes from each other.                   *)
(*                                                                         *)
(* Both speak of calls long gone, so neither is inductive.  What is:       *)
(* whoever is inside a side has the newest bytes of it, and whoever has    *)
(* not been inside yet has none.                                           *)
(***************************************************************************)
EXTENDS PortAccess, SequenceTheorems, TLAPS

Bytes == [call : Calls, baud : Bauds]

AccessTypeOK ==
  /\ status \in [Calls -> [Sides -> {"before", "inside", "after"}]]
  /\ devBaud \in Bauds
  /\ wire \in Seq(Bytes)
  /\ rx \in Nat
  /\ got \in [Calls -> SUBSET (1..rx)]

\* One call at a time is inside a side.
OneInside ==
  \A s \in Sides : \A c, d \in Calls : Inside(c, s) /\ Inside(d, s) => c = d

\* A call that has not been inside has sent nothing.  What the one inside has
\* sent are the newest bytes of all, at the rate the device is set to.
NewestSent ==
  \A i \in DOMAIN wire :
    LET c == wire[i].call IN
      /\ status[c]["write"] # "before"
      /\ Inside(c, "write") =>
           /\ wire[i].baud = devBaud
           /\ \A k \in DOMAIN wire : i <= k => wire[k].call = c

\* And the same of the bytes received.
NewestReceived ==
  \A c \in Calls :
    /\ status[c]["read"] = "before" => got[c] = {}
    /\ Inside(c, "read") =>
         \A d \in Calls \ {c} : \A i \in got[c], j \in got[d] : j < i

AccessInv ==
  /\ AccessTypeOK
  /\ OneInside
  /\ NewestSent
  /\ NewestReceived
  /\ FramesIntact
  /\ NoStolenBytes

-----------------------------------------------------------------------------
(* Steps *)

LEMMA SenderOfByte ==
  ASSUME AccessTypeOK, NEW i \in DOMAIN wire
  PROVE  wire[i].call \in Calls
<1>1. wire[i] \in Bytes
  BY DEF AccessTypeOK
<1> QED BY <1>1 DEF Bytes

\* A call may come and go: its bytes stay the newest while it is inside, and
\* none are there when it enters.
LEMMA StatusStep ==
  ASSUME AccessInv, UNCHANGED <<devBaud, wire, rx, got>>,
         status' \in [Calls -> [Sides -> {"before", "inside", "after"}]],
         OneInside',
         \A c \in Calls, s \in Sides :
           status[c][s] # "before" =>
             /\ status'[c][s] # "before"
             /\ Inside(c, s)' => Inside(c, s)
  PROVE  AccessInv'
<1>1. AccessTypeOK' /\ FramesIntact' /\ NoStolenBytes'
  BY DEF AccessInv, AccessTypeOK, FramesIntact, NoStolenBytes
<1>2. NewestSent'
  <2> SUFFICES ASSUME NEW i \in DOMAIN wire
               PROVE  LET c == wire[i].call IN
                        /\ status'[c]["write"] # "before"
                        /\ Inside(c, "write")' =>
                             /\ wire[i].baud = devBaud
                             /\ \A k \in DOMAIN wire : i <= k => wire[k].call = c
    BY DEF NewestSent
  <2>1. wire[i].call \in Calls /\ "write" \in Sides
    BY SenderOfByte DEF AccessInv, Sides
  <2> QED BY <2>1 DEF AccessInv, NewestSent
<1>3. NewestReceived'
  <2> SUFFICES ASSUME NEW c \in Calls
               PROVE  /\ status'[c]["read"] = "before" => got[c] = {}
                      /\ Inside(c, "read")' =>
                           \A d \in Calls \ {c} : \A i \in got[c], j \in got[d] : j < i
    BY DEF NewestReceived
  <2>1. "read" \in Sides
    BY DEF Sides
  <2>2. CASE status[c]["read"] = "before"
    <3>1. got[c] = {}
      BY <2>2 DEF AccessInv, NewestReceived
    <3> QED BY <3>1
  <2>3. CASE status[c]["read"] # "before"
    BY <2>1, <2>3 DEF AccessInv, NewestReceived
  <2> QED BY <2>2, <2>3
<1> QED BY <1>1, <1>2, <1>3 DEF AccessInv

LEMMA EnterStep ==
  ASSUME AccessInv, NEW c \in Calls, NEW s \in Sides, Enter(c, s)
  PROVE  AccessInv'
<1>1. /\ status' = [status EXCEPT ![c][s] = "inside"]
      /\ status \in [Calls -> [Sides -> {"before", "inside", "after"}]]
  BY DEF Enter, AccessInv, AccessTypeOK
<1>2. \A d \in Calls, t \in Sides :
        status'[d][t] = IF d = c /\ t = s THEN "inside" ELSE status[d][t]
  BY <1>1
<1>3. OneInside'
  BY <1>2 DEF AccessInv, OneInside, Enter, Inside
<1>4. \A d \in Calls, t \in Sides :
        status[d][t] # "before" => status'[d][t] = status[d][t]
  BY <1>2 DEF Enter
<1> QED BY <1>1, <1>3, <1>4, StatusStep DEF Enter, Inside

LEMMA LeaveStep ==
  ASSUME AccessInv, NEW c \in Calls, NEW s \in Sides, Leave(c, s)
  PROVE  AccessInv'
<1>1. /\ status' = [status EXCEPT ![c][s] = "after"]
      /\ status \in [Calls -> [Sides -> {"before", "inside", "after"}]]
  BY DEF Leave, AccessInv, AccessTypeOK
<1>2. \A d \in Calls, t \in Sides :
        status'[d][t] = IF d = c /\ t = s THEN "after" ELSE status[d][t]
  BY <1>1
<1>3. OneInside'
  BY <1>2 DEF AccessInv, OneInside, Inside
<1> QED BY <1>1, <1>2, <1>3, StatusStep DEF Leave, Inside

LEMMA GiveUpStep ==
  ASSUME AccessInv, NEW c \in Calls, NEW S \in SUBSET Sides, GiveUp(c, S)
  PROVE  AccessInv'
<1>1. /\ status' = [status EXCEPT ![c] =
                      [s \in Sides |-> IF s \in S THEN "after" ELSE status[c][s]]]
      /\ status \in [Calls -> [Sides -> {"before", "inside", "after"}]]
  BY DEF GiveUp, AccessInv, AccessTypeOK
<1>2. \A d \in Calls, t \in Sides :
        status'[d][t] = IF d = c /\ t \in S THEN "after" ELSE status[d][t]
  BY <1>1
<1>3. status' \in [Calls -> [Sides -> {"before", "inside", "after"}]]
  BY <1>1
<1>4. OneInside'
  BY <1>2 DEF AccessInv, OneInside, Inside
<1> QED BY <1>2, <1>3, <1>4, StatusStep DEF GiveUp, Inside

\* What the call inside sends comes after all the rest, at the same rate.
LEMMA SendStep ==
  ASSUME AccessInv, NEW c \in Calls, NEW n \in Nat, Send(c, n)
  PROVE  AccessInv'
<1> DEFINE byte == [call |-> c, baud |-> devBaud]
           L == Len(wire)
<1>1. byte \in Bytes /\ wire \in Seq(Bytes) /\ L \in Nat /\ DOMAIN wire = 1..L
  BY DEF AccessInv, AccessTypeOK, Bytes
<1>2. /\ [i \in 1..n |-> byte] \in Seq(Bytes)
      /\ Len([i \in 1..n |-> byte]) = n
      /\ \A i \in 1..n : [j \in 1..n |-> byte][i] = byte
  BY <1>1
<1>3. /\ wire' \in Seq(Bytes)
      /\ DOMAIN wire' = 1..(L + n)
      /\ \A i \in 1..(L + n) : wire'[i] = IF i <= L THEN wire[i] ELSE byte
  <2> DEFINE new == [i \in 1..n |-> byte]
  <2>1. wire' = wire \o new
    BY DEF Send
  <2>2. new \in Seq(Bytes) /\ Len(new) = n /\ \A i \in 1..n : new[i] = byte
    BY <1>2
  <2> HIDE DEF new, byte
  <2>3. /\ wire \o new \in Seq(Bytes)
        /\ Len(wire \o new) = L + n
        /\ \A i \in 1..(L + n) :
             (wire \o new)[i] = IF i <= L THEN wire[i] ELSE new[i - L]
    BY <1>1, <2>2, ConcatProperties
  <2>4. DOMAIN wire' = 1..(L + n)
    BY <2>1, <2>3
  <2>5. ASSUME NEW i \in 1..(L + n), ~(i <= L)
        PROVE  new[i - L] = byte
    BY <1>1, <2>2, <2>5
  <2> HIDE DEF L
  <2> QED BY <2>1, <2>3, <2>4, <2>5
<1> HIDE DEF byte, L
<1>4. byte.call = c /\ byte.baud = devBaud
  BY DEF byte
<1>5. UNCHANGED <<status, devBaud, rx, got>> /\ Inside(c, "write")
  BY DEF Send
<1>6. AccessTypeOK' /\ OneInside' /\ NewestReceived' /\ NoStolenBytes'
  BY <1>3, <1>5 DEF AccessInv, AccessTypeOK, OneInside, NewestReceived,
                    NoStolenBytes, Inside
<1>7. \A i \in 1..L : wire[i].call \in Calls
  BY <1>1, SenderOfByte DEF AccessInv
<1>8. NewestSent'
  <2> SUFFICES ASSUME NEW i \in 1..(L + n)
               PROVE  LET d == wire'[i].call IN
                        /\ status[d]["write"] # "before"
                        /\ Inside(d, "write") =>
                             /\ wire'[i].baud = devBaud
                             /\ \A k \in 1..(L + n) : i <= k => wire'[k].call = d
    BY <1>3, <1>5 DEF NewestSent, Inside
  <2>1. CASE i > L
    BY <1>1, <1>3, <1>4, <1>5, <2>1 DEF Inside
  <2>2. CASE i <= L
    <3> DEFINE d == wire[i].call
    <3>1. i \in 1..L /\ wire'[i] = wire[i] /\ d \in Calls
      BY <1>1, <1>3, <1>7, <2>2
    <3>2. /\ status[d]["write"] # "before"
          /\ Inside(d, "write") =>
               /\ wire[i].baud = devBaud
               /\ \A k \in 1..L : i <= k => wire[k].call = d
      BY <1>1, <3>1 DEF AccessInv, NewestSent
    <3>3. Inside(d, "write") => d = c
      BY <1>5, <3>1 DEF AccessInv, OneInside, Sides
    <3> HIDE DEF d
    <3>4. Inside(d, "write") => \A k \in 1..(L + n) : i <= k => wire'[k].call = d
      BY <1>1, <1>3, <1>4, <3>2, <3>3
    <3> QED BY <3>1, <3>2, <3>4 DEF d
  <2> QED BY <1>1, <2>1, <2>2
<1>9. FramesIntact'
  <2> SUFFICES ASSUME NEW i \in 1..(L + n), NEW j \in 1..(L + n), i < j,
                      wire'[i].call = wire'[j].call, NEW k \in i..j
               PROVE  wire'[k] = wire'[i]
    BY <1>3 DEF FramesIntact
  <2>1. CASE j <= L
    <3>1. wire[i].call = wire[j].call /\ i \in 1..L /\ j \in 1..L /\ k \in 1..L
      BY <1>1, <1>3, <2>1
    <3>2. wire[k] = wire[i]
      BY <1>1, <3>1 DEF AccessInv, FramesIntact
    <3> QED BY <1>1, <1>3, <3>1, <3>2
  <2>2. CASE i > L
    BY <1>1, <1>3, <2>2
  <2>3. CASE i <= L /\ j > L
    <3>1. i \in 1..L /\ wire[i].call = c
      BY <1>1, <1>3, <1>4, <2>3
    <3>2. \A m \in 1..L : i <= m => wire[m].call = c
      BY <1>1, <1>5, <3>1 DEF AccessInv, NewestSent
    <3>3. \A m \in 1..L : i <= m => wire[m].baud = devBaud
      BY <1>1, <1>5, <3>2 DEF AccessInv, NewestSent
    <3>4. \A m \in 1..L : i <= m => wire[m] = byte
      <4>1. \A m \in 1..L : wire[m] \in Bytes
        BY <1>1
      <4> QED BY <3>2, <3>3, <4>1 DEF Bytes, byte
    <3> QED BY <1>1, <1>3, <2>3, <3>4
  <2> QED BY <1>1, <2>1, <2>2, <2>3
<1> QED BY <1>6, <1>8, <1>9 DEF AccessInv

\* What the call inside receives comes after all that anyone received.
LEMMA ReceiveStep ==
  ASSUME AccessInv, NEW c \in Calls, NEW n \in Nat, Receive(c, n)
  PROVE  AccessInv'
<1>1. /\ rx \in Nat /\ rx' = rx + n /\ rx' \in Nat
      /\ UNCHANGED <<status, devBaud, wire>> /\ Inside(c, "read")
      /\ got \in [Calls -> SUBSET (1..rx)]
      /\ got' = [got EXCEPT ![c] = got[c] \union (rx + 1)..(rx + n)]
  BY DEF Receive, AccessInv, AccessTypeOK
<1>2. /\ got'[c] = got[c] \union (rx + 1)..(rx + n)
      /\ \A d \in Calls \ {c} : got'[d] = got[d]
  BY <1>1
<1>3. AccessTypeOK'
  <2>1. \A d \in Calls : got'[d] \subseteq 1..rx'
    <3>1. \A d \in Calls : got[d] \subseteq 1..rx
      BY <1>1
    <3>2. 1..rx \subseteq 1..rx' /\ (rx + 1)..(rx + n) \subseteq 1..rx'
      BY <1>1
    <3> QED BY <1>2, <3>1, <3>2
  <2>2. got' \in [Calls -> SUBSET (1..rx')]
    BY <1>1, <2>1
  <2> QED BY <1>1, <2>2 DEF AccessInv, AccessTypeOK
<1>4. OneInside' /\ NewestSent' /\ FramesIntact'
  BY <1>1 DEF AccessInv, OneInside, NewestSent, FramesIntact, Inside
<1>5. \A d \in Calls : \A j \in got[d] : j \in Int /\ j <= rx
  BY <1>1
<1>6. \A d \in Calls \ {c} : \A i \in got'[c], j \in got'[d] : j < i
  <2> SUFFICES ASSUME NEW d \in Calls \ {c}, NEW i \in got'[c], NEW j \in got[d]
               PROVE  j < i
    BY <1>2
  <2>1. CASE i \in got[c]
    BY <1>1, <2>1 DEF AccessInv, NewestReceived
  <2>2. CASE i \in (rx + 1)..(rx + n)
    BY <1>1, <1>5, <2>2
  <2> QED BY <1>2, <2>1, <2>2
<1>7. NewestReceived'
  <2>1. \A d \in Calls \ {c} : ~Inside(d, "read")
    BY <1>1 DEF AccessInv, OneInside, Sides
  <2>2. status[c]["read"] # "before"
    BY <1>1 DEF Inside
  <2> QED BY <1>1, <1>2, <1>6, <2>1, <2>2 DEF AccessInv, NewestReceived, Inside
<1>8. NoStolenBytes'
  <2> SUFFICES ASSUME NEW a \in Calls, NEW b \in Calls, a # b,
                      NEW i \in got'[a], NEW k \in got'[a], NEW j \in got'[b],
                      i < j, j < k
               PROVE  FALSE
    BY DEF NoStolenBytes
  <2>0. i \in Int /\ j \in Int /\ k \in Int
    BY <1>1, <1>2, <1>5
  <2>1. CASE a = c
    BY <1>6, <2>0, <2>1
  <2>2. CASE b = c
    BY <1>6, <2>0, <2>2
  <2>3. CASE a # c /\ b # c
    BY <1>2, <2>3 DEF AccessInv, NoStolenBytes
  <2> QED BY <2>1, <2>2, <2>3
<1> QED BY <1>3, <1>4, <1>7, <1>8 DEF AccessInv

LEMMA DiscardStep ==
  ASSUME AccessInv, NEW n \in Nat, Discard(n)
  PROVE  AccessInv'
<1>1. /\ rx \in Nat /\ rx' = rx + n
      /\ UNCHANGED <<status, devBaud, wire, got>>
      /\ got \in [Calls -> SUBSET (1..rx)]
  BY DEF Discard, AccessInv, AccessTypeOK
<1>2. 1..rx \subseteq 1..rx' /\ rx' \in Nat
  BY <1>1
<1>3. got' \in [Calls -> SUBSET (1..rx')]
  BY <1>1, <1>2
<1> QED BY <1>1, <1>2, <1>3 DEF AccessInv, AccessTypeOK, OneInside, NewestSent,
      NewestReceived, FramesIntact, NoStolenBytes, Inside

\* Whoever changes the rate is alone on the write side and has sent nothing, so
\* no frame that could go on is on the wire.
LEMMA RetuneStep ==
  ASSUME AccessInv, NEW c \in Calls, NEW baud \in Bauds, Retune(c, baud)
  PROVE  AccessInv'
<1>1. /\ UNCHANGED <<status, wire, rx, got>> /\ devBaud' = baud
      /\ \A i \in DOMAIN wire : wire[i].call # c
      /\ Inside(c, "write")
  BY DEF Retune
<1>2. \A i \in DOMAIN wire : ~Inside(wire[i].call, "write")
  BY <1>1, SenderOfByte DEF AccessInv, OneInside, Sides
<1>3. NewestSent'
  BY <1>1, <1>2 DEF AccessInv, NewestSent, Inside
<1> QED BY <1>1, <1>3 DEF AccessInv, AccessTypeOK, OneInside, NewestReceived,
      FramesIntact, NoStolenBytes, Inside

-----------------------------------------------------------------------------
(* Results *)

LEMMA AccessInit ==
  ASSUME OpenBaud \in Bauds, Init
  PROVE  AccessInv
<1>1. AccessTypeOK
  BY DEF Init, AccessTypeOK
<1>2. OneInside /\ NewestReceived /\ NoStolenBytes
  BY DEF Init, OneInside, NewestReceived, NoStolenBytes, Inside, Sides
<1>3. wire = <<>>
  BY DEF Init
<1>4. NewestSent /\ FramesIntact
  BY <1>3 DEF NewestSent, FramesIntact
<1> QED BY <1>1, <1>2, <1>4 DEF AccessInv

LEMMA AccessStep ==
  ASSUME DataLen \in Nat, MaxRx \in Nat, AccessInv, [Next]_vars
  PROVE  AccessInv'
<1>1. ASSUME NEW c \in Calls, NEW s \in Sides, Enter(c, s) \/ Leave(c, s)
      PROVE  AccessInv'
  BY <1>1, EnterStep, LeaveStep
<1>2. ASSUME NEW c \in Calls, NEW S \in SUBSET Sides, GiveUp(c, S)
      PROVE  AccessInv'
  BY <1>2, GiveUpStep
<1>3. ASSUME NEW c \in Calls, NEW n \in 1..DataLen, Send(c, n) \/ Receive(c, n)
      PROVE  AccessInv'
  BY <1>3, SendStep, ReceiveStep
<1>4. ASSUME NEW n \in 1..MaxRx, Discard(n)
      PROVE  AccessInv'
  BY <1>4, DiscardStep
<1>5. ASSUME NEW c \in Calls, NEW baud \in Bauds, Retune(c, baud)
      PROVE  AccessInv'
  BY <1>5, RetuneStep
<1>6. CASE UNCHANGED vars
  BY <1>6 DEF vars, AccessInv, AccessTypeOK, OneInside, NewestSent,
      NewestReceived, FramesIntact, NoStolenBytes, Inside
<1> QED BY <1>1, <1>2, <1>3, <1>4, <1>5, <1>6 DEF Next

\* Whoever is inside has the newest bytes, and so frames stay whole and reads
\* are not interleaved, for any number of calls and bytes.
THEOREM AccessSafe ==
  ASSUME DataLen \in Nat, MaxRx \in Nat, OpenBaud \in Bauds
  PROVE  Spec => []AccessInv
<1>1. Init => AccessInv
  BY AccessInit
<1>2. AccessInv /\ [Next]_vars => AccessInv'
  BY AccessStep
<1> QED BY <1>1, <1>2, PTL DEF Spec

=================================================================================
