-------------------------- MODULE MCMetadataVersions --------------------------
(* MetadataVersions for TLC: two toggle settings, one upload, three or four rows, *)
(* two where requests overlap.                                                    *)
EXTENDS MetadataVersions, TLC

(* Settings, and handlers, are interchangeable. *)
Sym == Permutations(Settings) \cup Permutations(Handlers)

MCScenarios ==
    {{"faults", "uploads", "deletions"}, {"validations", "uploads", "deletions"},
     {"overlaps", "deletions"}, {"overlaps", "uploads"}}

BadgeScenarios == {{"uploads", "deletions"}}
==============================================================================
