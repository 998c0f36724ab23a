-------------------------------- MODULE MCEncode --------------------------------
(***************************************************************************)
(* EncodeRun for TLC: neither the frames nor the runs are told apart by    *)
(* anything but their identity, so that one of each permutation will do.   *)
(***************************************************************************)
EXTENDS EncodeRun, TLC

Symmetry == Permutations(Frames) \cup Permutations(Runs)
===============================================================================
