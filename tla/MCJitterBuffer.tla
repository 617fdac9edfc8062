---------------------------- MODULE MCJitterBuffer ----------------------------
(***************************************************************************)
(* Instances of JitterBuffer for TLC.  Stream ids are interchangeable.     *)
(***************************************************************************)
EXTENDS JitterBuffer, TLC

StreamSymmetry == Permutations(Streams)
=============================================================================
