---------------------------- MODULE MCSeedLoader ----------------------------
(* SeedLoader on a few runs of the loader and a few requests.              *)
EXTENDS SeedLoader_proofs, TLC

CONSTANTS l1, l2, l3, r1, r2

OneForced  == {l2}
BothForced == {l1, l2}
NoneForced == {}

(* Two whose statements go against the TRUNCATE, one statement that does,  *)
(* one that goes along with it, and a list.                                *)
SomeEndpoints == {"game", "team", "standings_again", "stats", "competitions"}
AllEndpoints  == Endpoints

ReaderSymmetry == Permutations(Readers)
=============================================================================
