---------------------------- MODULE MCVideoPath ----------------------------
(* VideoPath with three budgets: a stream that restarts and one fault, one  *)
(* stream with two faults, and one with enough frames to fill the hub's      *)
(* mailbox in front of a key.                                               *)
EXTENDS VideoPath

MCBudgets == {[encoders |-> 1, frames |-> 3, faults |-> 1],
              [encoders |-> 0, frames |-> 3, faults |-> 2],
              [encoders |-> 0, frames |-> 5, faults |-> 0]}
=============================================================================
