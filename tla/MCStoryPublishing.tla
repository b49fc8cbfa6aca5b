-------------------------- MODULE MCStoryPublishing ---------------------------
(***************************************************************************)
(* Small instances of StoryPublishing for TLC.                             *)
(***************************************************************************)
EXTENDS StoryPublishing, TLC

CONSTANTS d1, d2, d3, d4, s1, s2, s3, m1, m2, v1, v2, v3, q1, q2, q3, c1, h1, h2,
          none, noRequest, gone

\* d2 is d1 with other metadata, d3 another definition, d4 one with an error.
FourDrafts     == {d1, d2, d3, d4}
OneTemplate    == {d1}
ThreeScenarios == {s1, s2, s3}
TwoValid       == {s1, s2}
TwoMetadata    == {m1, m2}
DefinitionOf   == (d1 :> s1) @@ (d2 :> s1) @@ (d3 :> s2) @@ (d4 :> s3)
MetadataOf     == (d1 :> m1) @@ (d2 :> m2) @@ (d3 :> m1) @@ (d4 :> m1)
ThreeVersions  == {v1, v2, v3}
ThreeRequests  == {q1, q2, q3}
OneCampaign    == {c1}
TwoHandlers    == {h1, h2}

Interchangeable == Permutations(Versions) \cup Permutations(Requests) \cup Permutations(Handlers)
=============================================================================
