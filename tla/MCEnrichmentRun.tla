--------------------------- MODULE MCEnrichmentRun ---------------------------
(***************************************************************************)
(* Small instances of EnrichmentRun: two games, two lanes.                 *)
(***************************************************************************)
EXTENDS EnrichmentRun

CONSTANTS a1, a2

MCApp == {a1, a2}
MCLaneStage == <<"store_details", "ccu">>

\* a2 never gets through its first stage, alone or in its lane.
MCBroken == {<<a2, "store_details">>}
MCUnknown == {a1}
\* The reviews of a1 never parse.
MCBrokenLaunch == {<<a1, "review_summary">>}
=============================================================================
