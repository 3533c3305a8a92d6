------------------------------ MODULE PortAccess ------------------------------
(***************************************************************************)
(* What the conches of a portHandle promise, without the conches: a port   *)
(* has a read side and a write side; a call enters a side at most once,    *)
(* one call at a time is inside; only the call inside the write side sends *)
(* bytes, only the one inside the read side receives them, and only a call *)
(* inside both, which has sent nothing itself, changes the baud rate.      *)
(***************************************************************************)
EXTENDS Integers, Sequences

CONSTANTS Calls, DataLen, MaxRx, Bauds, OpenBaud

VARIABLES
  status,   \* status[c][side]: "before", "inside" or "after"
  devBaud,  \* the rate the device is set to
  wire,     \* bytes handed to the port: by which call, at which rate
  rx,       \* bytes the device delivered so far
  got       \* which of them each call received

vars == <<status, devBaud, wire, rx, got>>

Sides == {"read", "write"}

Inside(c, side) == status[c][side] = "inside"

Init ==
  /\ status = [c \in Calls |-> [s \in Sides |-> "before"]]
  /\ devBaud = OpenBaud
  /\ wire = <<>>
  /\ rx = 0
  /\ got = [c \in Calls |-> {}]

Enter(c, side) ==
  /\ status[c][side] = "before"
  /\ \A d \in Calls : ~Inside(d, side)
  /\ status' = [status EXCEPT ![c][side] = "inside"]
  /\ UNCHANGED <<devBaud, wire, rx, got>>

Leave(c, side) ==
  /\ Inside(c, side)
  /\ status' = [status EXCEPT ![c][side] = "after"]
  /\ UNCHANGED <<devBaud, wire, rx, got>>

\* Call c will not enter the given sides any more.
GiveUp(c, sides) ==
  /\ \A s \in sides : status[c][s] = "before"
  /\ status' = [status EXCEPT ![c] =
                  [s \in Sides |-> IF s \in sides THEN "after" ELSE @[s]]]
  /\ UNCHANGED <<devBaud, wire, rx, got>>

Send(c, n) ==
  /\ Inside(c, "write")
  /\ wire' = wire \o [i \in 1..n |-> [call |-> c, baud |-> devBaud]]
  /\ UNCHANGED <<status, devBaud, rx, got>>

Receive(c, n) ==
  /\ Inside(c, "read")
  /\ rx' = rx + n
  /\ got' = [got EXCEPT ![c] = @ \union (rx + 1)..(rx + n)]
  /\ UNCHANGED <<status, devBaud, wire>>

\* Bytes nobody has received are thrown away; this needs no side.
Discard(n) ==
  /\ rx' = rx + n
  /\ UNCHANGED <<status, devBaud, wire, got>>

Retune(c, baud) ==
  /\ Inside(c, "read") /\ Inside(c, "write")
  /\ \A i \in DOMAIN wire : wire[i].call # c
  /\ devBaud' = baud
  /\ UNCHANGED <<status, wire, rx, got>>

Next ==
  \/ \E c \in Calls, s \in Sides : Enter(c, s) \/ Leave(c, s)
  \/ \E c \in Calls, S \in SUBSET Sides : GiveUp(c, S)
  \/ \E c \in Calls, n \in 1..DataLen : Send(c, n) \/ Receive(c, n)
  \/ \E n \in 1..MaxRx : Discard(n)
  \/ \E c \in Calls, baud \in Bauds : Retune(c, baud)

Spec == Init /\ [][Next]_vars

\* What each call hands to the port is one piece, at one baud rate: nothing of
\* another call gets between its bytes and no mode change lands among them.
FramesIntact ==
  \A i, j \in DOMAIN wire :
    i < j /\ wire[i].call = wire[j].call => \A k \in i..j : wire[k] = wire[i]

\* No call receives bytes from the middle of what another one receives.
NoStolenBytes ==
  \A c, d \in Calls : c # d =>
    ~ \E i, k \in got[c], j \in got[d] : i < j /\ j < k

===============================================================================
