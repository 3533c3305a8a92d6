------------------------------ MODULE ByteStream ------------------------------
(***************************************************************************)
(* What a bufferedRead promises its caller: a bounded FIFO of bytes from   *)
(* the port to the JS callback.  Bytes are numbered as the port gave them. *)
(* Nothing is reordered, repeated or dropped, except that a panic of the   *)
(* reader loses the end of the stream, less than a batch, and then stops.  *)
(* It promises nothing about the order of the last bytes and the promise:  *)
(* the read may settle with bytes still in transit.                        *)
(***************************************************************************)
EXTENDS Integers, Sequences

CONSTANTS
  BatchSize,  \* the most bytes that travel as one
  Capacity    \* bytes that may be in transit

VARIABLES
  arrived,    \* bytes taken from the port
  transit,    \* those neither delivered nor lost
  delivered,  \* those JS got
  reading,    \* more may be taken
  settled     \* the caller's promise

vars == <<arrived, transit, delivered, reading, settled>>

Init ==
  /\ arrived = 0
  /\ transit = <<>>
  /\ delivered = <<>>
  /\ reading = TRUE
  /\ settled = FALSE

Accept(n) ==
  /\ reading
  /\ Len(transit) + n <= Capacity
  /\ arrived' = arrived + n
  /\ transit' = transit \o [i \in 1..n |-> arrived + i]
  /\ UNCHANGED <<delivered, reading, settled>>

Deliver(n) ==
  /\ n <= Len(transit)
  /\ delivered' = delivered \o SubSeq(transit, 1, n)
  /\ transit' = SubSeq(transit, n + 1, Len(transit))
  /\ UNCHANGED <<arrived, reading, settled>>

\* The stream ends at the idle deadline, an error of the port or a panic.
Stop ==
  /\ reading
  /\ reading' = FALSE
  /\ UNCHANGED <<arrived, transit, delivered, settled>>

\* A panic of the port with n bytes in the reader's batch.
Crash(n) ==
  /\ reading
  /\ n <= Len(transit)
  /\ transit' = SubSeq(transit, 1, Len(transit) - n)
  /\ reading' = FALSE
  /\ UNCHANGED <<arrived, delivered, settled>>

Settle ==
  /\ ~reading
  /\ settled' = TRUE
  /\ UNCHANGED <<arrived, transit, delivered, reading>>

Next ==
  \/ \E n \in 1..BatchSize : Accept(n) \/ Deliver(n)
  \/ \E n \in 1..(BatchSize - 1) : Crash(n)
  \/ Stop \/ Settle

Spec == Init /\ [][Next]_vars

===============================================================================
