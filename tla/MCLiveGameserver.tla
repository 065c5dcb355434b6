-------------------------- MODULE MCLiveGameserver --------------------------
(* Instances of LiveGameserver for TLC.  API callers are interchangeable.  *)
EXTENDS LiveGameserver, TLC

CallerSymmetry == Permutations(Callers)
=============================================================================
