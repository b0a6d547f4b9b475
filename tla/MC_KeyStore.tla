---------------------------- MODULE MC_KeyStore ----------------------------
(* Small instances of KeyStore.  User ids are interchangeable.  *)
EXTENDS KeyStore, TLC

Symmetry == Permutations(Uid)
=============================================================================
