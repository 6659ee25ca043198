---------------------------- MODULE MCGDriveStore ---------------------------
(***************************************************************************)
(* An instance of GDriveStore for TLC: two devices, and two objects, as    *)
(* the index puts all objects under one version.                           *)
(***************************************************************************)
EXTENDS GDriveStore, TLC

CONSTANTS c1, c2, manifest, blob

Devices == Permutations(Client)
=============================================================================
