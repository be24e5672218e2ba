---------------------------- MODULE OutputStream ----------------------------
(***************************************************************************)
(* What a terminal tab promises about the output of its shell, whatever    *)
(* threads and queues lie between: the parsed stream is applied to the     *)
(* grid in order and without a gap, the part that is parsed and not yet    *)
(* applied is bounded, and the exit of the shell is reported once, after   *)
(* everything the shell wrote.  Module VtStream implements it.             *)
(***************************************************************************)
EXTENDS Integers

CONSTANT Window   \* units that may be parsed and not yet applied

VARIABLES
    parsed,       \* units fed to the parser
    applied,      \* units applied to the grid, a prefix of the parsed ones
    exited        \* the exit of the shell has been reported

vars == <<parsed, applied, exited>>

Init == parsed = 0 /\ applied = 0 /\ exited = FALSE

Parse ==
    /\ ~exited
    /\ parsed' \in parsed + 1 .. applied + Window
    /\ UNCHANGED <<applied, exited>>

Apply ==
    /\ applied' \in applied + 1 .. parsed
    /\ UNCHANGED <<parsed, exited>>

Exit ==
    /\ ~exited
    /\ applied = parsed
    /\ exited' = TRUE
    /\ UNCHANGED <<parsed, applied>>

Next == Parse \/ Apply \/ Exit

Spec == Init /\ [][Next]_vars
=============================================================================
