------------------------------ MODULE MCOverlays ------------------------------
(* Instances of Overlays for TLC: u1s is u1 with a slash at its end. *)
EXTENDS Overlays, TLC

CONSTANTS u1, u1s, u2, h1, h2

MCHost == [u \in URL |-> IF u = u2 THEN h2 ELSE h1]

MCFirstAPIs == {urls \in [ApiId -> {u1, u2}] : \A a, b \in ApiId : urls[a] = urls[b] => a = b}

\* Nothing tells maps, versions or APIs apart.
Symmetry == Permutations(MapId) \cup Permutations(Version) \cup Permutations(ApiId)
=============================================================================
