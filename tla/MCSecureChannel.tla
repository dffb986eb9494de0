-------------------------- MODULE MCSecureChannel --------------------------
(* Small instances of SecureChannel for TLC.                                *)
EXTENDS SecureChannel

(* Nothing tells one configuration, or one word, from another but its name.   *)
Alike == Permutations(Prologues) \cup Permutations(Data)
=============================================================================
