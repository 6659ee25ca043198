------------------------------ MODULE Manifest ------------------------------
(***************************************************************************)
(* The manifest of crates/cs-manifest (one entry per path) and the diff of *)
(* two manifests of crates/cs-sync/src/diff.rs.                            *)
(*                                                                         *)
(* A blob id is the hash of a freshly randomised header: it is modelled as *)
(* the number of the seal of that path that produced it.  A content hash   *)
(* is the content.  size, device_id and resolutions (which no code reads)  *)
(* are left out.  `past' is a history field that the code does not have:   *)
(* the seals whose content went into this version.  No guard reads it.     *)
(***************************************************************************)
EXTENDS ManifestClock

CONSTANTS
    Path,       \* logical paths
    Content,    \* file contents, which stand for their hashes
    NoEntry     \* the value of a path that a manifest has no entry for

Entry == [blob : Nat, content : Content, aad : Counter, clock : Clock,
          modified : Nat, deleted : BOOLEAN, past : SUBSET Nat]

ASSUME NoEntryAssumption == NoEntry \notin Entry

Entries == [Path -> Entry \cup {NoEntry}]

ManifestRecord == [version : Counter, clock : Clock, entries : Entries]

EmptyManifest == [version |-> 0,
                  clock   |-> ZeroClock,
                  entries |-> [p \in Path |-> NoEntry]]

IsLive(e) == e # NoEntry /\ ~e.deleted

-----------------------------------------------------------------------------
\* What the engine should do for a path with local entry l and remote entry r.

PullOf(r) == IF r.deleted THEN "pull_deletion" ELSE "pull_local"

PushOf(l) == IF l.deleted THEN "push_deletion" ELSE "push_remote"

DiffOp(l, r) ==
    CASE l = r -> "in_sync"
      [] l = NoEntry /\ r # NoEntry -> PullOf(r)
      [] r = NoEntry /\ l # NoEntry -> "push_remote"
      [] OTHER -> CASE HappensBefore(l.clock, r.clock) -> PullOf(r)
                    [] HappensBefore(r.clock, l.clock) -> PushOf(l)
                    [] OTHER -> "conflict"

=============================================================================
