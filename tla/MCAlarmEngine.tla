--------------------------- MODULE MCAlarmEngine ---------------------------
(***************************************************************************)
(* Finite instances of AlarmEngine.                                        *)
(***************************************************************************)
EXTENDS AlarmEngine, TLC

CONSTANTS a1, a2, a3

MCSymmetry == Permutations(Alarm)
=============================================================================
