------------------------- MODULE MCArtifactStorage -------------------------
(* Instances of ArtifactStorage for TLC. *)
EXTENDS ArtifactStorage, TLC

CONSTANTS u, r, w1, w2

MCUploads == {u}
MCResults == {r}
MCNoResults == {}
MCWriters == {w1, w2}
MCOneWriter == {w1}
(* Writers are interchangeable: no definition chooses one. *)
MCSymmetry == Permutations(MCWriters)
=============================================================================
