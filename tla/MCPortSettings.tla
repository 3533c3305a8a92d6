---------------------------- MODULE MCPortSettings ----------------------------
(* Instances of PortSettings for TLC. *)
EXTENDS PortSettings

WithFormat(d, p, s) ==
  [baudRate |-> DefaultRate, dataBits |-> d, parity |-> p, stopBits |-> s]

\* The constructor's defaults with any rate, and frame formats among which each
\* value of each field occurs, the wrong ones one at a time.
EachValue ==
  {[WithFormat("8", "none", "1") EXCEPT !.baudRate = v] : v \in RateValues}
  \union {WithFormat("7", "even", "1.5"), WithFormat("8", "odd", "2"),
          WithFormat("8", "mark", "1"), WithFormat("8", "space", "1"),
          WithFormat("9", "none", "1"), WithFormat("8", "wrong", "1"),
          WithFormat("8", "none", "3")}
===============================================================================
