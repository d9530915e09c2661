--------------------------------- MODULE MCLvp ---------------------------------
(* Instances of lvp for TLC.                                               *)
EXTENDS LvpFindings, TLC

(* Slots for calls are interchangeable; sound for the safety properties.   *)
CallSymmetry == Permutations(Calls)
===============================================================================
