----------------------------- MODULE SyncEngine -----------------------------
(***************************************************************************)
(* config-sync's sync cycle (crates/cs-sync/src/engine.rs) as run by       *)
(* `config-sync sync' (crates/cs-cli/src/commands.rs) on several devices   *)
(* that share one store.  A device runs one sync at a time:                *)
(*                                                                         *)
(*   idle -> upload -> list -> get -> apply -> save -> idle                *)
(*                      ^                |                                 *)
(*                      +--- CAS lost ---+                                 *)
(*                                                                         *)
(* Between any two steps other devices step and users edit files.  The     *)
(* store is the contract of crates/cs-storage/src/memory.rs: list, get and *)
(* put are atomic, an ETag is a counter and put compares it.               *)
(***************************************************************************)
EXTENDS Conflict

CONSTANTS
    Absent,          \* the content of a file that does not exist
    Policy,          \* Policy[d][p]: the conflict policy of p's set on d
    Answers,         \* Answers[d]: what the resolver on d may answer, {} if none
    InitManaged,     \* InitManaged[d]: the paths in d's config at first
    Times,           \* the file modification times that occur
    MaxCasRetries,   \* MAX_CAS_RETRIES
    RemoveMayFail,   \* whether remove_file may fail with its error ignored
    Budget           \* how many edits, syncs, failures, reconfigurations occur

ASSUME EngineAssumption ==
    /\ Absent \notin Content
    /\ Policy \in [Device -> [Path -> {"latest_wins", "prompt", "manual"}]]
    /\ Answers \in [Device -> SUBSET {"keep_local", "keep_remote", "keep_both", "abort"}]
    /\ InitManaged \in [Device -> SUBSET Path]
    /\ Times \subseteq Nat /\ Times # {}
    /\ MaxCasRetries \in Nat \ {0}
    /\ RemoveMayFail \in BOOLEAN
    /\ Budget \in [{"edit", "sync", "fail", "configure"} -> Nat]

VARIABLES
    etag,       \* the manifest object's ETag, 0 while the object is absent
    manifest,   \* the manifest object
    blobs,      \* the blobs on the store, each with its header's AAD
    cache,      \* cache[d]: the local manifest file of d
    disk,       \* disk[d][p]: the file on d for path p
    sidecar,    \* sidecar[d][p]: the file <p>.remote on d
    managed,    \* managed[d]: the paths in d's config
    pc,         \* pc[d]: the next step of d's sync, "idle" if none runs
    local,      \* local[d]: the manifest the sync works on
    remote,     \* remote[d]: the manifest last fetched (merge_remote)
    seen,       \* seen[d]: the ETag last listed, 0 if the manifest was absent
    attempt,    \* attempt[d]: how often this sync has retried its CAS
    todo,       \* todo[d]: the paths whose diff is yet to be applied
    seals,      \* seals[p]: how often p has been sealed
    budget,     \* what is left of Budget
    clean       \* history: the paths no user has touched since d's last scan

storeVars  == <<etag, manifest, blobs>>
deviceVars == <<cache, disk, sidecar, managed>>
runVars    == <<pc, local, remote, seen, attempt, todo>>
vars == <<storeVars, deviceVars, runVars, seals, budget, clean>>

-----------------------------------------------------------------------------
Blob == [path : Path, id : Nat, content : Content, aad : Counter]

BlobOf(p, e) == [path |-> p, id |-> e.blob, content |-> e.content, aad |-> e.aad]

\* authenticate_and_open succeeds: the blob the entry names is there and its
\* path, version and content are those the entry says.
Opens(p, e) == BlobOf(p, e) \in blobs

\* A new entry for the bytes c of path p (seal_plaintext).
Seal(p, c, aad, clock, time, past) ==
    LET id == seals[p] + 1
    IN  [blob |-> id, content |-> c, aad |-> aad, clock |-> clock,
         modified |-> time, deleted |-> FALSE, past |-> past \cup {id}]

\* The paths that es holds a blob for which was sealed in this very step.
NewlySealed(es) == {p \in Path : es[p] # NoEntry /\ es[p].blob = seals[p] + 1}

CountSeals(es) == [p \in Path |-> IF p \in NewlySealed(es) THEN seals[p] + 1 ELSE seals[p]]

HasHistory(d) == cache[d].version > 0 \/ \E p \in Path : cache[d].entries[p] # NoEntry

\* What the sync has yet to do for p.
Op(d, p) == DiffOp(local[d].entries[p], remote[d].entries[p])

-----------------------------------------------------------------------------
Init ==
    /\ etag = 0
    /\ manifest = EmptyManifest
    /\ blobs = {}
    /\ cache = [d \in Device |-> EmptyManifest]
    /\ disk = [d \in Device |-> [p \in Path |-> Absent]]
    /\ sidecar = [d \in Device |-> [p \in Path |-> Absent]]
    /\ managed = InitManaged
    /\ pc = [d \in Device |-> "idle"]
    /\ local = [d \in Device |-> EmptyManifest]
    /\ remote = [d \in Device |-> EmptyManifest]
    /\ seen = [d \in Device |-> 0]
    /\ attempt = [d \in Device |-> 0]
    /\ todo = [d \in Device |-> {}]
    /\ seals = [p \in Path |-> 0]
    /\ budget = Budget
    /\ clean = [d \in Device |-> {}]

Spend(what) == /\ budget[what] > 0
               /\ budget' = [budget EXCEPT ![what] = @ - 1]

\* The sync of d is over, and with it everything it held in memory.
EndRun(d) ==
    /\ pc' = [pc EXCEPT ![d] = "idle"]
    /\ local' = [local EXCEPT ![d] = EmptyManifest]
    /\ remote' = [remote EXCEPT ![d] = EmptyManifest]
    /\ seen' = [seen EXCEPT ![d] = 0]
    /\ attempt' = [attempt EXCEPT ![d] = 0]
    /\ todo' = [todo EXCEPT ![d] = {}]

-----------------------------------------------------------------------------
\* Phase 0: load the cache, scan the managed files, stage what changed.

ScanEntry(d, p, time) ==
    LET prev == cache[d].entries[p]
        now  == disk[d][p]
    IN  CASE p \notin managed[d] -> prev
          [] p \in managed[d] /\ now = Absent ->
                IF IsLive(prev)
                THEN [prev EXCEPT !.deleted = TRUE, !.clock = Bump(@, d)]
                ELSE prev
          [] p \in managed[d] /\ now # Absent ->
                CASE prev = NoEntry -> Seal(p, now, 1, Bump(cache[d].clock, d), time, {})
                  [] IsLive(prev) /\ prev.content = now -> prev
                  [] OTHER -> Seal(p, now, SaturatingNext(prev.aad),
                                   Bump(prev.clock, d), time, prev.past)

StartSync(d) ==
    /\ pc[d] = "idle"
    /\ Spend("sync")
    /\ \E time \in [Path -> Times] :
          LET es == [p \in Path |-> ScanEntry(d, p, time[p])]
          IN  /\ local' = [local EXCEPT ![d] = [cache[d] EXCEPT !.entries = es]]
              /\ seals' = CountSeals(es)
    /\ pc' = [pc EXCEPT ![d] = "upload"]
    /\ clean' = [clean EXCEPT ![d] = managed[d]]
    /\ UNCHANGED <<storeVars, deviceVars, remote, seen, attempt, todo>>

\* Mutant: only files that are new to the cache are staged.
StagedIfNew(d) == {p \in Path : local[d].entries[p] # NoEntry /\ cache[d].entries[p] = NoEntry}

\* The entries the scan sealed.
Staged(d) == {p \in Path : LET l == local[d].entries[p]
                               c == cache[d].entries[p]
                           IN  l # NoEntry /\ (c = NoEntry \/ l.blob # c.blob)}

\* Put the staged blobs, unconditionally: their names are their hashes.
UploadBlobs(d) ==
    /\ pc[d] = "upload"
    /\ blobs' = blobs \cup {BlobOf(p, local[d].entries[p]) : p \in Staged(d)}
    /\ pc' = [pc EXCEPT ![d] = "list"]
    /\ UNCHANGED <<etag, manifest, deviceVars, local, remote, seen, attempt, todo,
                   seals, budget, clean>>

-----------------------------------------------------------------------------
\* fetch_remote_manifest: the ETag comes from a listing, the bytes from a get.

ListManifest(d) ==
    /\ pc[d] = "list"
    /\ seen' = [seen EXCEPT ![d] = etag]
    /\ pc' = [pc EXCEPT ![d] = "get"]
    /\ UNCHANGED <<storeVars, deviceVars, local, remote, attempt, todo, seals, budget, clean>>

\* A fetch that the engine turns down: the manifest this device knew is gone,
\* has no ETag in the listing, or is older than the one it last saw.
FetchRefused(d) ==
    IF etag = 0 THEN HasHistory(d) \/ attempt[d] > 0
                ELSE seen[d] = 0 \/ manifest.version < cache[d].version

\* Mutant: a retry fetches the manifest but applies nothing of it.
AppliedAtFirst(d) == IF attempt[d] = 0 THEN {"pull_local", "pull_deletion", "conflict"} ELSE {}

\* The operations that change something here; a retry leaves conflicts alone.
Applied(d) == IF attempt[d] = 0 THEN {"pull_local", "pull_deletion", "conflict"}
                                ELSE {"pull_local", "pull_deletion"}

GetManifest(d) ==
    /\ pc[d] = "get"
    /\ ~FetchRefused(d)
    /\ remote' = [remote EXCEPT ![d] = manifest]
    /\ seen' = [seen EXCEPT ![d] = IF etag = 0 THEN 0 ELSE @]
    /\ todo' = [todo EXCEPT ![d] =
          {p \in managed[d] : DiffOp(local[d].entries[p], manifest.entries[p]) \in Applied(d)}]
    /\ pc' = [pc EXCEPT ![d] = "apply"]
    /\ UNCHANGED <<storeVars, deviceVars, local, attempt, seals, budget, clean>>

-----------------------------------------------------------------------------
\* Phase 1: apply the diff, path by path: first all pulls, then the rest.

\* It is p's turn in the loop over the diff.
Turn(d, p, op) ==
    /\ pc[d] = "apply"
    /\ p \in todo[d]
    /\ Op(d, p) = op
    /\ \/ op = "pull_local"
       \/ attempt[d] > 0
       \/ \A q \in todo[d] : Op(d, q) # "pull_local"

\* p is dealt with and has entry e from now on.
Settle(d, p, e) ==
    /\ local' = [local EXCEPT ![d].entries[p] = e]
    /\ todo' = [todo EXCEPT ![d] = @ \ {p}]

WriteFile(d, p, c) == disk' = [disk EXCEPT ![d][p] = c]

\* Mutant: a deletion is recorded but the file is left alone.
RemoveNothing(d, p) == UNCHANGED disk

\* `let _ = remove_file(..)'
RemoveFile(d, p) ==
    \/ WriteFile(d, p, Absent)
    \/ RemoveMayFail /\ disk[d][p] # Absent /\ UNCHANGED disk

\* verify_and_write
PullEntry(d, p) ==
    LET r == remote[d].entries[p]
    IN  /\ Opens(p, r)
        /\ WriteFile(d, p, r.content)
        /\ Settle(d, p, r)

ApplyPull(d, p) ==
    /\ Turn(d, p, "pull_local")
    /\ PullEntry(d, p)
    /\ UNCHANGED <<storeVars, cache, sidecar, managed, pc, remote, seen, attempt,
                   seals, budget, clean>>

ApplyPullDeletion(d, p) ==
    /\ Turn(d, p, "pull_deletion")
    /\ RemoveFile(d, p)
    /\ Settle(d, p, remote[d].entries[p])
    /\ UNCHANGED <<storeVars, cache, sidecar, managed, pc, remote, seen, attempt,
                   seals, budget, clean>>

Choices(d, p) == PolicyChoices(Policy[d][p], Answers[d],
                               local[d].entries[p], remote[d].entries[p])

\* The entries that may win the conflict on p.
Winners(d, p) == {ChosenEntry(choice, local[d].entries[p], remote[d].entries[p]) :
                     choice \in Choices(d, p) \ {"abort"}}

\* Mutant: the remote side's clock is not merged in.
BumpedLocalClock(d, p) == Bump(local[d].entries[p].clock, d)

\* The clock of a version made in view of both sides of a conflict.
ResolvedClock(d, p) ==
    Bump(Merge(local[d].entries[p].clock, remote[d].entries[p].clock), d)

ResolvedPast(d, p) == local[d].entries[p].past \cup remote[d].entries[p].past

\* A resolver that aborts ends the sync, with success: the cache is saved.
AbortOnConflict(d, p) ==
    /\ Turn(d, p, "conflict")
    /\ "abort" \in Choices(d, p)
    /\ pc' = [pc EXCEPT ![d] = "save"]
    /\ UNCHANGED <<storeVars, deviceVars, local, remote, seen, attempt, todo,
                   seals, budget, clean>>

DeleteOnConflict(d, p) ==
    /\ Turn(d, p, "conflict")
    /\ \E chosen \in Winners(d, p) :
          /\ chosen.deleted
          /\ Settle(d, p, [chosen EXCEPT !.clock = ResolvedClock(d, p),
                                         !.past  = ResolvedPast(d, p)])
    /\ RemoveFile(d, p)
    /\ UNCHANGED <<storeVars, cache, sidecar, managed, pc, remote, seen, attempt,
                   seals, budget, clean>>

TakeRemoteOnConflict(d, p) ==
    /\ Turn(d, p, "conflict")
    /\ \E chosen \in Winners(d, p) :
          ~chosen.deleted /\ chosen.blob = remote[d].entries[p].blob
    /\ PullEntry(d, p)
    /\ UNCHANGED <<storeVars, cache, sidecar, managed, pc, remote, seen, attempt,
                   seals, budget, clean>>

KeepsLocal(d, p) == \E chosen \in Winners(d, p) :
                       ~chosen.deleted /\ chosen.blob # remote[d].entries[p].blob

\* Mutant: the remote side is never written next to the file.
NoSidecar(d, p) == FALSE

\* Only the policy asks for a sidecar, not the resolver's answer.
WantsSidecar(d, p) == Policy[d][p] = "manual"

\* The file is read again and sealed under a clock that covers both sides.
KeepLocalOnConflict(d, p) ==
    LET l == local[d].entries[p]
        r == remote[d].entries[p]
    IN  /\ Turn(d, p, "conflict")
        /\ KeepsLocal(d, p)
        /\ disk[d][p] # Absent
        /\ IF WantsSidecar(d, p)
           THEN Opens(p, r) /\ sidecar' = [sidecar EXCEPT ![d][p] = r.content]
           ELSE UNCHANGED sidecar
        /\ \E time \in Times :
              LET e == Seal(p, disk[d][p], SaturatingNext(l.aad), ResolvedClock(d, p),
                            time, ResolvedPast(d, p))
              IN  blobs' = blobs \cup {BlobOf(p, e)} /\ Settle(d, p, e)
        /\ seals' = [seals EXCEPT ![p] = @ + 1]
        /\ UNCHANGED <<etag, manifest, cache, disk, managed, pc, remote, seen, attempt,
                       budget, clean>>

-----------------------------------------------------------------------------
\* Phase 2: push the manifest under compare-and-swap.

\* Mutant: the local manifest is pushed as it is.
OutgoingLocal(d, p) == local[d].entries[p]

\* Mutant: the latest entry wins for managed paths too.
OutgoingLatest(d, p) ==
    LET l == local[d].entries[p]
        r == remote[d].entries[p]
    IN  IF l = NoEntry THEN r
        ELSE IF r = NoEntry THEN l ELSE ChosenEntry(LatestWinsChoice(l, r), l, r)

\* merge_unmanaged_entries: paths of other devices are passed on.
OutgoingEntry(d, p) ==
    LET l == local[d].entries[p]
        r == remote[d].entries[p]
    IN  CASE p \in managed[d] \/ r = NoEntry -> l
          [] p \notin managed[d] /\ r # NoEntry /\ l = NoEntry -> r
          [] p \notin managed[d] /\ r # NoEntry /\ l # NoEntry ->
                LET w == ChosenEntry(LatestWinsChoice(l, r), l, r)
                IN  IF w.blob = r.blob /\ w.deleted = r.deleted THEN r ELSE l

\* The aggregate clock is bumped and merged once, before the first attempt.
AggregateClock(d) == IF attempt[d] = 0
                     THEN Merge(Bump(local[d].clock, d), remote[d].clock)
                     ELSE local[d].clock

\* Mutant: the version is counted from the local one alone.
NextLocalVersion(d) == SaturatingNext(local[d].version)

\* Mutant: the version wraps instead of saturating.
WrappingNextVersion(d) ==
    ((IF local[d].version < remote[d].version THEN remote[d].version
                                              ELSE local[d].version) + 1) % (U64Max + 1)

NextVersion(d) ==
    SaturatingNext(IF local[d].version < remote[d].version THEN remote[d].version
                                                           ELSE local[d].version)

\* Mutant: with nothing new to publish a sync neither pushes nor ends.
ReadyIfChanged(d) == /\ pc[d] = "apply" /\ todo[d] = {}
                     /\ local[d].entries # remote[d].entries

ReadyToPush(d) == pc[d] = "apply" /\ todo[d] = {}

\* Mutant: the put is unconditional.
CasIgnored(d) == TRUE

CasHolds(d) == seen[d] = etag

\* Mutant: one attempt too many.
AttemptsLeftInclusive(d) == attempt[d] + 1 <= MaxCasRetries

AttemptsLeft(d) == attempt[d] + 1 < MaxCasRetries

PushManifest(d) ==
    /\ ReadyToPush(d)
    /\ CasHolds(d)
    /\ manifest' = [version |-> NextVersion(d),
                    clock   |-> AggregateClock(d),
                    entries |-> [p \in Path |-> OutgoingEntry(d, p)]]
    /\ etag' = etag + 1
    /\ local' = [local EXCEPT ![d] = [@ EXCEPT !.version = NextVersion(d),
                                               !.clock   = AggregateClock(d)]]
    /\ pc' = [pc EXCEPT ![d] = "save"]
    /\ UNCHANGED <<blobs, deviceVars, remote, seen, attempt, todo, seals, budget, clean>>

\* PreconditionFailed with attempts left: fetch and diff again.
RetryPush(d) ==
    /\ ReadyToPush(d)
    /\ ~CasHolds(d)
    /\ AttemptsLeft(d)
    /\ attempt' = [attempt EXCEPT ![d] = @ + 1]
    /\ local' = [local EXCEPT ![d].clock = AggregateClock(d)]
    /\ pc' = [pc EXCEPT ![d] = "list"]
    /\ UNCHANGED <<storeVars, deviceVars, remote, seen, todo, seals, budget, clean>>

\* Ok(report), also of an aborted sync: the CLI saves the cache.
SaveCache(d) ==
    /\ pc[d] = "save"
    /\ cache' = [cache EXCEPT ![d] = local[d]]
    /\ EndRun(d)
    /\ UNCHANGED <<storeVars, disk, sidecar, managed, seals, budget, clean>>

\* The sync cannot go on: a refused fetch, a blob that does not open, a conflict
\* without a resolver, a kept file that is gone, the last CAS lost.
CannotApply(d, p) ==
    \/ Turn(d, p, "pull_local") /\ ~Opens(p, remote[d].entries[p])
    \/ /\ Turn(d, p, "conflict")
       /\ \/ Choices(d, p) = {}
          \/ KeepsLocal(d, p) /\ disk[d][p] = Absent
          \/ \E chosen \in Winners(d, p) :
                ~chosen.deleted /\ (chosen = remote[d].entries[p] \/ WantsSidecar(d, p))
                                /\ ~Opens(p, remote[d].entries[p])

OutOfAttempts(d) == ReadyToPush(d) /\ ~CasHolds(d) /\ ~AttemptsLeft(d)

MustStop(d) ==
    \/ pc[d] = "get" /\ FetchRefused(d)
    \/ \E p \in todo[d] : CannotApply(d, p)
    \/ OutOfAttempts(d)

\* The overruled version is written next to the file before that is read again,
\* and stays there if the sync ends in between.
LeavesSidecar(d) ==
    \E p \in todo[d] :
        /\ Turn(d, p, "conflict") /\ KeepsLocal(d, p) /\ WantsSidecar(d, p)
        /\ Opens(p, remote[d].entries[p])
        /\ sidecar' = [sidecar EXCEPT ![d][p] = remote[d].entries[p].content]

\* Err: the cache stays as it was, what is on disk and on the store stays too.
StopSync(d) ==
    /\ MustStop(d)
    /\ UNCHANGED sidecar \/ LeavesSidecar(d)
    /\ EndRun(d)
    /\ clean' = [clean EXCEPT ![d] = {}]
    /\ UNCHANGED <<storeVars, cache, disk, managed, seals, budget>>

-----------------------------------------------------------------------------
\* The surroundings: crashes and I/O errors, users, the config file.

FailSync(d) ==
    /\ pc[d] # "idle"
    /\ Spend("fail")
    /\ UNCHANGED sidecar \/ LeavesSidecar(d)
    /\ EndRun(d)
    /\ clean' = [clean EXCEPT ![d] = {}]
    /\ UNCHANGED <<storeVars, cache, disk, managed, seals>>

\* A user writes or removes a file, at any time.
EditFile(d, p, c) ==
    /\ Spend("edit")
    /\ disk[d][p] # c
    /\ WriteFile(d, p, c)
    /\ clean' = [clean EXCEPT ![d] = @ \ {p}]
    /\ UNCHANGED <<storeVars, cache, sidecar, managed, runVars, seals>>

\* A user adds p to, or takes it from, the config that the next sync loads.
Configure(d, p) ==
    /\ pc[d] = "idle"
    /\ Spend("configure")
    /\ managed' = [managed EXCEPT ![d] = IF p \in @ THEN @ \ {p} ELSE @ \cup {p}]
    /\ clean' = [clean EXCEPT ![d] = @ \ {p}]
    /\ UNCHANGED <<storeVars, cache, disk, sidecar, runVars, seals>>

SyncStep(d) ==
    \/ UploadBlobs(d)
    \/ ListManifest(d)
    \/ GetManifest(d)
    \/ \E p \in Path : \/ ApplyPull(d, p)
                       \/ ApplyPullDeletion(d, p)
                       \/ AbortOnConflict(d, p)
                       \/ DeleteOnConflict(d, p)
                       \/ TakeRemoteOnConflict(d, p)
                       \/ KeepLocalOnConflict(d, p)
    \/ PushManifest(d)
    \/ RetryPush(d)
    \/ SaveCache(d)
    \/ StopSync(d)

\* Nobody syncs: nothing need happen, so that a deadlock is a sync that is stuck.
Rest == (\A d \in Device : pc[d] = "idle") /\ UNCHANGED vars

Next ==
    \/ \E d \in Device : \/ StartSync(d)
                         \/ SyncStep(d)
                         \/ FailSync(d)
                         \/ \E p \in Path : \/ \E c \in Content \cup {Absent} : EditFile(d, p, c)
                                            \/ Configure(d, p)
    \/ Rest

Spec == Init /\ [][Next]_vars

\* A sync that has started goes on: it is a single process that never waits for
\* another device.
FairSpec == Spec /\ \A d \in Device : WF_vars(SyncStep(d))

-----------------------------------------------------------------------------
Run == {"idle", "upload", "list", "get", "apply", "save"}

TypeOK ==
    /\ etag \in Nat
    /\ manifest \in ManifestRecord
    /\ blobs \subseteq Blob
    /\ cache \in [Device -> ManifestRecord]
    /\ disk \in [Device -> [Path -> Content \cup {Absent}]]
    /\ sidecar \in [Device -> [Path -> Content \cup {Absent}]]
    /\ managed \in [Device -> SUBSET Path]
    /\ pc \in [Device -> Run]
    /\ local \in [Device -> ManifestRecord]
    /\ remote \in [Device -> ManifestRecord]
    /\ seen \in [Device -> Nat]
    /\ attempt \in [Device -> 0 .. MaxCasRetries - 1]
    /\ todo \in [Device -> SUBSET Path]
    /\ seals \in [Path -> Nat]
    /\ budget \in [{"edit", "sync", "fail", "configure"} -> Nat]
    /\ clean \in [Device -> SUBSET Path]

-----------------------------------------------------------------------------
(* Safety *)

\* Every manifest a device may come to hold: what the store, its cache and the
\* sync it runs say of p.
EntriesOf(p) == ({manifest.entries[p]} \cup {cache[d].entries[p] : d \in Device}
                   \cup {local[d].entries[p] : d \in Device}) \ {NoEntry}

\* The checks of fetch_remote_manifest against a store that was reset or rolled
\* back (engine.rs:127, 316) never fire on a store that was not: whatever the
\* devices do and wherever their syncs fail, the manifest is there for a device
\* with history and is not older than the one its cache remembers.
NoSpuriousRollback ==
    \A d \in Device : HasHistory(d) => etag # 0 /\ cache[d].version <= manifest.version

DeviceInStep(d) ==
    /\ etag = 0 => ~HasHistory(d) /\ remote[d] = EmptyManifest /\ pc[d] # "save"
    /\ cache[d].version <= manifest.version
    /\ local[d].version <= manifest.version
    /\ seen[d] <= etag
    /\ pc[d] = "apply" /\ seen[d] = etag => remote[d] = manifest

\* Why that is so: no device remembers or works on a version that the store has
\* not reached, one that holds the ETag of the published manifest has merged that
\* very manifest, and a manifest that was never put is empty (engine.rs:538-646).
VersionsInStep ==
    /\ etag = 0 => manifest = EmptyManifest
    /\ \A d \in Device : DeviceInStep(d)

\* What a device can fetch it can read: every live entry of the published
\* manifest names a blob on the store that opens under the entry's path, AAD
\* version and content, so no pull ever fails for want of a blob.
PublishedBlobsOpen ==
    \A p \in Path : IsLive(manifest.entries[p]) => Opens(p, manifest.entries[p])

\* The clocks tell the truth: if a version's clock is covered by another's, then
\* every content that went into the first was known when the second was made. It
\* is what makes a pull without a question (diff.rs:57) lose nobody's edit.  It
\* holds of orderly behaviours, see below.
ClocksTellHistory ==
    \A p \in Path : \A e, f \in EntriesOf(p) :
        AtMost(e.clock, f.clock) => e.past \subseteq f.past

DiskAgrees(d, p, e) == disk[d][p] = IF IsLive(e) THEN e.content ELSE Absent

\* What a sync leaves behind agrees with itself: after a sync that ended well,
\* every managed path nobody has touched since its scan is on disk as the saved
\* cache says.  (If not, the next scan would publish the difference as an edit.)
CacheAgreesWithDisk ==
    \A d \in Device : pc[d] = "idle" =>
        \A p \in clean[d] : DiskAgrees(d, p, cache[d].entries[p])

\* The device that pushed last has on disk what it pushed, also when it lost the
\* race before and merged other devices' changes while retrying.
PublishedAgreesWithDisk ==
    \A d \in Device : pc[d] = "idle" /\ etag # 0 /\ cache[d].version = manifest.version =>
        \A p \in clean[d] : DiskAgrees(d, p, manifest.entries[p])

-----------------------------------------------------------------------------
(* Action properties *)

Pushes(d) == etag' # etag /\ pc[d] # pc'[d]

\* Whoever pushes, the new manifest is the successor of the one it replaces: no
\* version is skipped, repeated or lost, unless the counter is at its limit.
VersionAdvances ==
    [][etag' # etag => manifest'.version = SaturatingNext(manifest.version)]_vars

\* Whatever the outcome of the race, a push never puts an older version of a
\* path in place of the one that is published: retries that lost the CAS apply
\* what they find, and an unmanaged path keeps the causally newer entry.
NeverPublishesOlder ==
    [][\A d \in Device : Pushes(d) =>
          \A p \in Path : manifest.entries[p] # NoEntry =>
              /\ manifest'.entries[p] # NoEntry
              /\ ~HappensBefore(manifest'.entries[p].clock, manifest.entries[p].clock)]_vars

\* A published entry is replaced only by one that has seen it: the first attempt
\* of a sync pushes for a managed path only what is equal to, or causally after,
\* what it replaces, deletions included (diff.rs:27, engine.rs:426, 489).
FirstPushCovers ==
    [][\A d \in Device : Pushes(d) /\ attempt[d] = 0 =>
          \A p \in managed[d] : manifest.entries[p] # NoEntry =>
              AtMost(manifest.entries[p].clock, manifest'.entries[p].clock)]_vars

\* A push passes on what the pushing device has no part in: the entry of a path
\* that is neither in its config nor in its cache stays as it was
\* (merge_unmanaged_entries, engine.rs:142).
UnmanagedPassedOn ==
    [][\A d \in Device : Pushes(d) =>
          \A p \in Path \ managed[d] :
              cache[d].entries[p] = NoEntry /\ manifest.entries[p] # NoEntry =>
                  manifest'.entries[p] = manifest.entries[p]]_vars

\* d replaces, in its first attempt, a published version of p by one of another
\* history, which it had neither pulled before nor pulls now.
Overrules(d, p) ==
    /\ Pushes(d)
    /\ attempt[d] = 0
    /\ IsLive(manifest.entries[p])
    /\ manifest'.entries[p] # manifest.entries[p]
    /\ \/ cache[d].entries[p] = NoEntry
       \/ ~(manifest.entries[p].past \subseteq cache[d].entries[p].past)

\* The clock of a path that is new to d starts from d's aggregate clock, which may
\* cover versions of the path that d has never seen (engine.rs:705).
StartsCovered(d, p) ==
    cache[d].entries[p] = NoEntry /\ AtMost(manifest.entries[p].clock, cache[d].clock)

\* Under the manual policy a version that the device overrules in favour of its
\* own content is on the device's disk when the replacement is published, as
\* the .remote sidecar or as the file itself (engine.rs:459), unless d took it
\* for an older one because the path is new to its config.
ManualKeepsRemote ==
    [][\A d \in Device : \A p \in managed[d] :
          /\ Policy[d][p] = "manual"
          /\ Overrules(d, p) /\ ~StartsCovered(d, p)
          /\ IsLive(manifest'.entries[p])
          => manifest.entries[p].content \in {sidecar[d][p], disk[d][p]}]_vars

-----------------------------------------------------------------------------
(* Orderly behaviours: those in which a counter never comes to stand for two *)
(* versions of a path.  Nothing in the code sees to any of the three.        *)

\* d's scan finds a file that is new to d only if nobody holds a version of it:
\* else the two versions' clocks start from unrelated aggregate clocks.
CreatesAlone(d) ==
    pc[d] = "idle" /\ pc'[d] = "upload" =>
        \A p \in Path : cache[d].entries[p] = NoEntry /\ local'[d].entries[p] # NoEntry
                           => EntriesOf(p) = {}

\* What d pushes covers what it replaces, in retries and for unmanaged paths too.
PushCovers(d) ==
    Pushes(d) => \A p \in Path : manifest.entries[p] # NoEntry =>
                     AtMost(manifest.entries[p].clock, manifest'.entries[p].clock)

\* d is not stopped between its push and the save of its cache.
SavesAtLast(d) == pc[d] = "save" /\ pc'[d] = "idle" => cache'[d] = local[d]

Orderly == \A d \in Device : CreatesAlone(d) /\ PushCovers(d) /\ SavesAtLast(d)

OrderlySpec == Init /\ [][Next /\ Orderly]_vars

-----------------------------------------------------------------------------
(* What comments and documents say and the code does not do; each of these   *)
(* is refuted by a run of its own.                                           *)

\* "Our local is ahead or in sync; keep our version." (engine.rs:597): what a
\* retry keeps without applying the remote covers what it replaces.
RetryIsAheadOrInSync ==
    [][\A d \in Device : Pushes(d) /\ attempt[d] > 0 =>
          \A p \in managed[d] : manifest.entries[p] # NoEntry =>
              AtMost(manifest.entries[p].clock, manifest'.entries[p].clock)]_vars

\* The contents of p that went into e.
ContentsIn(p, e) == {b.content : b \in {c \in blobs : c.path = p /\ c.id \in e.past}}

\* "Remote has it, local doesn't (or remote is strictly newer)" (diff.rs:7): what
\* a pull overwrites or removes was known to the one who made what is pulled.
PullsOnlyNewer ==
    \A d \in Device : \A p \in todo[d] :
        /\ pc[d] = "apply"
        /\ Op(d, p) \in {"pull_local", "pull_deletion"}
        /\ IsLive(local[d].entries[p])
        => local[d].entries[p].content \in ContentsIn(p, remote[d].entries[p])

-----------------------------------------------------------------------------
(* Liveness *)

\* A sync that was started ends, however often it loses the race to push.
SyncTerminates == \A d \in Device : pc[d] # "idle" ~> pc[d] = "idle"

-----------------------------------------------------------------------------
(* The engine implements the abstract vault *)

V == INSTANCE Vault WITH
        version   <- manifest.version,
        published <- {p \in Path : manifest.entries[p] # NoEntry},
        known     <- [d \in Device |-> cache[d].version],
        pending   <- [d \in Device |-> IF pc[d] = "save" THEN local[d].version ELSE -1]

\* Every behaviour of the engine is one of the vault: compare-and-swap, retries,
\* failures and all add up to a single history (cycle2 design, section 5 item 4).
ImplementsVault == V!VaultSpec

=============================================================================
