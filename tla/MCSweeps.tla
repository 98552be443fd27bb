------------------------------ MODULE MCSweeps ------------------------------
(***************************************************************************)
(* Small instances of Sweeps for TLC.                                      *)
(***************************************************************************)
EXTENDS Sweeps

MCOrder == <<"A", "B">>
MCMinBalance == [A |-> 2, B |-> 2]
MCTargetBalance == [A |-> 1, B |-> 1]

\* A never answers and comes first; B is due at every tick.
MCInterval == [A |-> 2, B |-> 1]
=============================================================================
