----------------------------- MODULE MCGeoStore -----------------------------
(* Instances of GeoStore for TLC. *)
EXTENDS GeoStore, TLC

CONSTANTS m1, m2, v1, v2, o1, o2, o3, o4, c1

\* Three objects make two batches of BatchRows = 2.
MCObjectsOf == m1 :> {o1, o2, o3} @@ m2 :> {o4}

Two(prune, statics) ==
    [versions |-> m1 :> <<v1, v2>> @@ m2 :> <<v1>>, statics |-> statics, prune |-> prune]

\* Prune off and a static column added; the versions in the other order; one
\* listed twice; a version and the other map gone.
MCConfigs == { Two(TRUE, {}), Two(FALSE, {c1}),
               [Two(TRUE, {}) EXCEPT !.versions[m1] = <<v2, v1>>],
               [Two(TRUE, {}) EXCEPT !.versions[m1] = <<v1, v1>>],
               [Two(TRUE, {}) EXCEPT !.versions = m1 :> <<v2>> @@ m2 :> <<>>] }

Symmetry == Permutations({o1, o2, o3})
=============================================================================
