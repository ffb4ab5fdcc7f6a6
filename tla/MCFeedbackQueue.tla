--------------------------- MODULE MCFeedbackQueue ---------------------------
(***************************************************************************)
(* Small instances of FeedbackQueue: two accounts on one device.           *)
(***************************************************************************)
EXTENDS FeedbackQueue, TLC

CONSTANTS alice, bob

MCUser == {alice, bob}

Symmetry == Permutations(MCUser)
=============================================================================
