---------------------------- MODULE MCAvatarStore ----------------------------
(***************************************************************************)
(* A small instance of AvatarStore: one account that uploads the same      *)
(* image twice under two keys, and two cleanup batches.                    *)
(***************************************************************************)
EXTENDS AvatarStore, TLC

CONSTANTS u1, n1, n2, b1, b2

MCUser == {u1}
MCContent == {"image"}
MCNonce == {n1, n2}
OneNonce == {n1}
MCInvocation == {b1, b2}

Symmetry == Permutations(MCNonce) \cup Permutations(MCInvocation)
=============================================================================
