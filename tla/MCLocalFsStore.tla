--------------------------- MODULE MCLocalFsStore ---------------------------
(***************************************************************************)
(* An instance of LocalFsStore for TLC: two tasks, of one process or of    *)
(* two, and one object.                                                    *)
(***************************************************************************)
EXTENDS LocalFsStore

CONSTANTS t1, t2, here, there, manifest
=============================================================================
