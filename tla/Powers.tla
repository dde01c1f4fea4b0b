------------------------------- MODULE Powers -------------------------------
(***************************************************************************)
(* Powers of two: the doubling of the client's back-off, the sizes of      *)
(* prefixes and the places of bits.  (The prover knows nothing of the       *)
(* operator ^; PowersProofs has the facts about this function.)             *)
(***************************************************************************)
EXTENDS Naturals

Pow2[n \in Nat] == IF n = 0 THEN 1 ELSE 2 * Pow2[n - 1]
=============================================================================
