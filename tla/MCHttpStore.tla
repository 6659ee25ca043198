---------------------------- MODULE MCHttpStore -----------------------------
(***************************************************************************)
(* An instance of HttpStore for TLC: two devices and one object.  All      *)
(* properties checked are safety and treat the devices alike.              *)
(***************************************************************************)
EXTENDS HttpStore, TLC

CONSTANTS d1, d2, manifest

Devices == Permutations(Client)
=============================================================================
