---------------------------- MODULE MCEventWatcher ----------------------------
(* Instances of EventWatcher for TLC. *)
EXTENDS EventWatcher
===============================================================================
