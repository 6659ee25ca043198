# A TLA+ model of config-sync

config-sync keeps a person's configuration files equal on several machines. The
machines never talk to each other: each runs `config-sync sync` now and then
against a shared store, which holds sealed blobs and one *manifest*, and which is
changed by compare-and-swap on the manifest's ETag. This directory holds TLA+
modules of that protocol, of the stores under it and of the keys around it,
configurations that check them with TLC on small instances, and proofs that TLAPS
checks for instances of any size.

Paths below are relative to `src/crates/`.

## 1. Inventory

| Component | State | Operations | Talks to |
|---|---|---|---|
| `cs-manifest` | none (values) | clock: bump, merge, happens_before; manifest: new, encode, decode | used by all |
| `cs-sync/diff.rs`, `conflict.rs` | none | diff of two manifests, order of clocks, three conflict policies | called by the engine |
| `cs-sync/engine.rs`, `local_io.rs` | the run's manifest, the files on disk | scan, seal and upload, fetch, pull, delete, resolve, push with retries | store, files, resolver |
| `cs-storage` contract, `memory.rs` | objects with ETags | list, get, put (conditional), delete | called by the engine |
| `cs-storage/local_fs.rs` | object files, `.version` sidecars, a mutex and a lock file | the same: check, write, bump under both locks | file system |
| `cs-storage/{s3,webdav,onedrive,proton}.rs` | none (remote) | the contract as HTTP requests | cloud services |
| `cs-storage/gdrive.rs` | an index file, a cache of it, a mutex | the contract on files without conditional writes | Google Drive |
| `cs-cli` | config.toml, manifest.bin (the cache), identity, backup, bundle | init, add, list, sync, recover, doctor | engine, keys, stores |
| `cs-keys` | the identity in one of three keystores | put, get; mnemonic, Shamir and passphrase recovery | key chains |
| `cs-crypto` | none | seal, open, sign, verify | called by `cs-sync`, `cs-keys` |
| `cs-config`, `cs-ui` | none | parse and resolve paths; ask about a conflict | called by the CLI, the engine |

What is hard in it, and what makes each part correct:

* **Races of pushes.** Between any two steps of a sync other devices run theirs.
  A push must build on the manifest it replaces, must never put an older version
  of a path in place of a newer one, and must count the manifest version up by
  one: a device refuses a manifest that is older than the one its cache remembers
  (`engine.rs:127`), so a version that goes back locks devices out.
* **Retries.** A sync that lost the race diffs again over a disk and a manifest
  that its first attempt has already changed (`engine.rs:541-602`).
* **Failures.** A sync may stop anywhere: blobs without a manifest, files pulled
  but the cache not saved, a manifest pushed but the cache not saved. There is no
  journal; the next run starts from the old cache and the new disk.
* **Subsets.** A device may manage a part of the paths and yet pushes a manifest
  of all (`engine.rs:142-202`).
* **Clocks.** Per-path vector clocks decide between a silent pull and a conflict.
  If a clock claims a history it does not have, an edit is lost without a word.
* **Agreement without talking.** Devices resolve the same conflict on their own,
  each from its own side.
* **Compare-and-swap that has to be made.** Only some stores have it. A directory
  makes it of two locks and two files, Drive of an index file and a hope, HTTP
  of headers, status codes and whatever of the response arrives.
* **Keys.** One key opens everything. It is made, replaced, backed up and
  recovered in steps between which a command may stop, in keystores that may
  refuse to give it out.
* **Numbers.** 64-bit counters saturate; 128-bit masses wrap; ETag 0 means
  "unknown" and must never match.

`PROJECT.json` lists these hazards at their lines with the properties about them.

## 2. The modules

| Module | Models | Uses |
|---|---|---|
| `ManifestClock` | `cs-manifest/clock.rs`: counters that saturate at `U64Max`, bump, merge, the order of clocks | |
| `Manifest` | entries, manifests, `diff` | `ManifestClock` |
| `Conflict` | `conflict.rs`: the order of clocks by mass, ties, the three policies | `Manifest`, the community's `Functions` |
| `SyncEngine` | `engine.rs`, `local_io.rs`, the store of `memory.rs`, `sync` and `add` of the CLI | `Conflict` |
| `Vault` | nothing in the code: the promise of the engine, one version after the other | `ManifestClock` |
| `ResolutionOrder` | latest-wins among three versions, in every order and from either side | `Conflict` |
| `ConditionalStore` | the contract of `cs-storage/lib.rs`: what a put and a delete promise, whatever fails | |
| `LocalFsStore` | `local_fs.rs` | implements `ConditionalStore` |
| `HttpStore` | `s3.rs`, `webdav.rs`, `onedrive.rs`, `proton.rs`, `http_util.rs` | implements `ConditionalStore` |
| `GDriveStore` | `gdrive.rs` | (does not implement it, section 4) |
| `Envelope` | `cs-crypto`: what opens what | |
| `Recovery` | `cs-keys/recovery`: splits, bundles | |
| `DeviceLife` | `init`, `recover`, `sync` of the CLI over keystores, the frame of the manifest | `Envelope`, `Recovery` |
| `MC...` | instances for TLC (`MCSyncHistory`: `SyncEngine` with three devices, the others have one each) | |
| `SyncEngineProofs` | theorems about clocks and types, versions, what is published, and how long a sync takes | `SyncEngine` |
| `SyncHistoryProofs` | theorems about what clocks say of histories | `SyncEngineProofs` |
| `ResolutionOrderProofs` | theorems about the order that latest-wins resolves by | `ResolutionOrder` |
| `RecoveryProofs` | a theorem about the scheme that splits a RIK | `Recovery` |
| `LocalFsStoreProofs`, `HttpStoreProofs`, `GDriveStoreProofs`, `DeviceLifeProofs` | theorems about the stores and about keys | the module each names; `DeviceLifeProofs` also `RecoveryProofs` |

How they fit together: `SyncEngine` is the protocol above an atomic store.
`ConditionalStore` says what *atomic* has to mean, and the store modules show which
backends get there. `DeviceLife` takes the sync as one step between fetch and push
(which `SyncEngine` has in detail) and shows who can read what is pushed. To
compose them into one module would multiply their states without a new
interaction: the engine sees of a store its answers only, and these are the
contract's.

### SyncEngine

A device's sync is a process with a program counter `pc[d]`; everything the
function `sync_inner` holds in memory is `local[d]` (the manifest it works on),
`remote[d]` (`merge_remote`), `seen[d]` (the ETag it will present), `attempt[d]`
and `todo[d]` (the diff that is not applied yet). What survives a failure is
`cache[d]` (manifest.bin), `disk[d]`, `sidecar[d]` (the `.remote` files),
`managed[d]` (the config) and the store: `etag`, `manifest`, `blobs`.

| Action | Code |
|---|---|
| `StartSync` | load the cache, `scan_local`: new clocks, tombstones, sealed blobs in memory |
| `UploadBlobs` | `engine.rs:279-299` |
| `ListManifest`, `GetManifest` | `fetch_remote_manifest`, two calls of the store, with its checks, and `diff` |
| `ApplyPull`, `ApplyPullDeletion` | the pulls (first all of them, then the rest) and the retry's pulls |
| `AbortOnConflict`, `DeleteOnConflict`, `TakeRemoteOnConflict`, `KeepLocalOnConflict` | the four outcomes of a conflict |
| `PushManifest`, `RetryPush` | merge of unmanaged entries, next version, conditional put, and its refusal |
| `SaveCache` | `Ok(report)`, then `save_local_manifest` |
| `StopSync` | `Err` that the state of the model causes: a refused fetch, no resolver, the last race lost, a kept file that is gone |
| `FailSync` | `Err` or a crash from outside, between any two steps |
| `LeavesSidecar` | part of both: the `.remote` file is written before the kept one is read again (`engine.rs:462-492`) |
| `EditFile`, `Configure` | a user, at any time; a path added to or taken from the config |
| `Rest` | nobody syncs (so that TLC's deadlock check finds a sync that is stuck) |

What is abstracted. A content stands for its hash. A blob id is the hash of a
freshly randomised header, so every seal has a new one: it is the number of the
seal of that path (`seals[p]`). One blob stands for header and body, which are
put together before any manifest names them. Modification times range over a
small set and are unrelated to the order of events. The pulls of a diff are
applied one by one in any order, where the code follows the order of paths; the
code fetches all blobs of the first attempt before it writes any file, the model
fetches each when it is applied (a failed fetch then leaves more files written
than the code could; no blob is ever removed, so the fetches differ in nothing
else). Two fields are history and no guard reads them: `past` of an entry, the seals
whose contents went into it, and `clean[d]`, the paths no user has touched since
the last scan.

There are three specifications: `Spec`, `FairSpec` (section 3), and `OrderlySpec`, the
behaviours of `Spec` in which every step satisfies `Orderly`. It has three conditions,
and the code sees to none of them: a scan does not create a path that others have
versions of which the device has not seen (`CreatesAlone`); a push covers what it
replaces (`PushCovers`); a run is not stopped between its push and the save of its cache
(`SavesAtLast`). They are what the code relies on where it takes a later clock for a
later version; section 4 has, for each, what happens without it.

### Vault

The abstract specification has a version number, the set of paths the manifest
speaks of, and for each device the version it remembers and the version it will
remember when its sync is through. `SyncEngine!V` instantiates it under the
mapping `version <- manifest.version`, `published <-` the domain of the manifest,
`known <-` the caches' versions, `pending <-` the version held by a run that is
about to save. Fetches, retries, blobs and failed syncs are stutters.

### ConditionalStore

Every call has its effect at one moment between its start and its answer; a put
takes effect only if the object has the expected ETag at that moment. A put that
took effect leaves a greater ETag, and tells it or nothing (0). A call that fails
may have taken effect wholly, by half (the bytes without the new ETag) or not at
all; but if it was a put, its expectation held. In a store whose tags may stay
(`TagMayStay`) even a delete that succeeds may leave the ETag of what it has deleted
behind: a put that must be the first may then be refused, and one that expects
this ETag may pass. Reads are not part of the contract: they are the matter of
`ReplacesWhatItSaw` in the modules that implement it.

### LocalFsStore

| Action | Code (`cs-storage/src/local_fs.rs`) |
|---|---|
| `LockProcess`, `LockDirectory` | `put_lock`, then `.cas.lock` (`lock_exclusive`) |
| `CheckTag` | the three cases of `if_match`; an object without a sidecar matches none |
| `WriteObject`, `BumpTag` | rename over the object; rename over the sidecar |
| `DropTag`, `Unlink` | `delete`, the sidecar first; the error of removing it is dropped (`RemoveSidecar`, `RemoveMayFail`) |
| `StartList`, `VisitFile`, `EndList`, `GetObject` | unlocked; an object that vanished fails the listing |
| `BreakOff` | a process that dies, an `Err`: guards are released, files stay |

A put's bytes are its number. In the contract's view an object changes when the
second of the two writes is done: `Stored(n)` is what the call has found as long as
it is half done. A call that breaks off half done shows its half at that moment. The module implements the
contract with `TagMayStay <- RemoveMayFail`; where sidecars can be removed, a deleted
object is gone. A future that its caller drops, with a rename under way in tokio's
pool, is left out: the program awaits every call to its end.

### HttpStore

A call is a request under way (`SendPut`, ...), a server that acts (`ServePut`, ...,
`ServeError`; external), and a client that reads the response (`ReceiveWrite`,
`ReceiveGet`, `ReceiveList`). `WebDav`, `OneDrive`, `Proton` and `S3` are the four
clients: which statuses mean a lost race, whether the new ETag is in a header or
in the body, what a body that cannot be read does to a put. Requests and responses
get lost: `Resend` is the SDK of S3, `GiveUp` all others. A server may withhold
ETags, spell a listing in a way the client does not look for (WebDAV), show one
page of several, or hand out the same page token again (S3). The contract is
implemented with `TagMayStay <- FALSE`: the ETag goes with the object.

### GDriveStore

put and delete load the index anew (`LoadIndex`), write a file (`ReplaceContent`,
`CreateFile`, `DeleteFile`), look for an index file if none was there
(`FindIndexFile`) and save the index (`SaveIndex`). list and get use the index the
instance has cached (`LoadCache`). One version of the index is the ETag of every
object. The mutex is per instance, so one call per device at a time is all that is
left of it.

### Envelope, Recovery, DeviceLife

Envelopes are terms: a header opens a body if both were sealed together for these
keys and this AAD. The RIK is an element of a field of prime order, a split is a
polynomial over it, as in `shamir.rs` over GF(256). To read a keystore may fail once
or, if it is a file, for good (`Failures`); what was read then counts as absent. Every
`put` of the file store loads the file itself first (`state.rs:382`): it does
not write over a damaged one, but does over one that could be read again.

| Action | Code |
|---|---|
| `StartInit`, `PutIdentity`, `SaveConfig` | `init` (`commands.rs:31-75`); the check treats an unreadable keystore as an empty one (`state.rs:174`) |
| `WipeIdentity` | macOS deletes an item before it adds the new one (`biometric_store.rs:79`) |
| `SetupBundle`, `SetupShares` | `recover --setup` |
| `StartRecover`, `BackUpIdentity` | `recover`, with words or with shares and the threshold and fingerprint that the user enters |
| `StartSync`, `PushManifest`, `RefuseManifest`, `SaveCache` | `sync`, with `open_manifest` and its freshness window; the time is noted once, before the engine runs (`commands.rs:169`, `184`, `197`), and is `work[d].started` for the check and for the seal |
| `Stop` | the command ends at any step |
| `CopyBundle`, `RemoveCache`, `RemoveIdentity`, `MoveStoreAside` | what the messages tell users to do |
| `PassTime` | the clock goes on, between commands and while one waits |

## 3. What TLC checks

| Run | Instance | Shows |
|---|---|---|
| `syncResolvers` | 2 paths, of which d2 manages one; d1 asks and gets any answer, d2 manual; 2 edits, 3 syncs, 1 config change, 2 attempts; fair | `PublishedBlobsOpen`, `CacheAgreesWithDisk`, `UnmanagedPassedOn`, `NeverPublishesOlder`, `ManualKeepsRemote`, `SyncTerminates` |
| `syncFailures` | 1 path, 2 contents, 2 edits, 4 syncs, 3 attempts; one device latest-wins, the other would have to ask; one failure anywhere, files that cannot be removed, counters saturate at 3, equal device hashes (ties go to the blob id) | `TypeOK`, `VersionsInStep`, `NoSpuriousRollback`, `PublishedBlobsOpen`, `VersionAdvances`, `FirstPushCovers`, `NeverPublishesOlder`, `ImplementsVault` |
| `syncOrderly` | `OrderlySpec`; 3 devices, at most 2 of which sync at once, 1 path, 2 contents, 3 edits, 4 syncs, 1 failure, 3 attempts | `ClocksTellHistory`, `PullsOnlyNewer`, `PublishedAgreesWithDisk` |
| `latestWinsOrder` | 3 versions, clocks up to 2 per device, masses of which some wrap | `OrderDoesNotMatter`, `WinnerIsNewerOfTwo` |
| `localFs` | 2 tasks in 1 or 2 processes, 1 object, 3 puts, 1 delete, 1 listing, 1 break; sidecars may resist their removal; fair | `TypeOK` with the locks, `TagNamesOnePut`, `UntaggedOnlyIfTorn`, `ReplacesWhatItSaw`, `ImplementsContract`, `EveryCallReturns` |
| `cloudStores` | 4 backends, 2 devices, 1 object, 3 puts, 1 delete, 1 listing, 1 loss, 2 sendings, 2 pages | `ConditionalPutsOnce`, `ReplacesWhatItSaw`, `RefusedMeansUntouched`, `ImplementsContract`, `TypeOK` |
| `driveStore` | 2 devices, 2 objects, 3 puts, 1 delete, 1 listing, 1 break | `KeepsIfApart`, `ReplacesWhatItSaw`, `TypeOK` |
| `deviceLife` | a Mac with a fast clock and a device with a file, a field of 5, 3 shares, a window of 2 back and 1 ahead, 7 events in all | `ReplacedIsKept`, `RecoversTheVaultKey`, `VaultIsReadable`, `OpensOnlyAsSealed`, `StoreKeepsItsVault`, `PushIsFreshForAll`, `TypeOK` |
| `syncRetryConflict`, `driveLostUpdate`, `identityReplaced` | as above | section 4 |
| `syncCreatedTwice` | 3 devices, one of which syncs at a time, 1 path, 3 edits, 6 syncs | section 4 |

**Two or three devices.** Two are what a race needs: the manifest on the store carries
no more of the others than their last push. What a clock tells of a history needs a
third, which hears of two others' versions in an order of its own: `syncCreatedTwice`
has no counterpart with two. Three versions meet in `latestWinsOrder`, too, where two
would hide that an order is not transitive. The devices of `syncOrderly` and
`syncCreatedTwice` are all alike, so that TLC can use the symmetry; both runs check
safety only. A constraint cuts off states in which all three devices of `syncOrderly`
sync at once; a race has two sides, and the third can still sync before, between and
after them. `syncOrderly` does not check for deadlock, as `Orderly` blocks steps: a
device with a scan that would not be orderly just waits there.

**Engine.** `Budget` bounds the edits, syncs, failures and config changes of a
behaviour; everything else (retries, versions, seals, ETags) is bounded by it.
Four syncs let each device sync twice: a conflict needs both to have pushed and
edited, a lost race needs one more push while a sync is under way, and what a
failure leaves behind shows in the next sync of the same device. `MaxCasRetries`
is the code's 3, with four syncs enough for two pushes to win against a third
sync's attempts; where it is 2, a sync that loses every race is within three.
`U64Max` is 100 where it must not be reached and 3 where it must: the fourth push
then meets the limit. `MassModulus` stands for 2^128; in `latestWinsOrder` it is 88
and the hashes are 40 and 45, so that clocks of one device never wrap and those of
both mostly do.

**Stores.** Three puts are one that is there, one that races and one that builds on
either; a deletion restarts a counter; a listing gives a device an ETag that the
other's put makes stale. One break at every step shows every state a single stop
can leave, and the puts after it how the store goes on. The properties relate at
most two calls to one object; a second object matters only to Drive, whose index is
common to all. S3's two sendings and two pages are the first and the last. TLC
uses the symmetry of the devices in `cloudStores` and `driveStore`, which check
safety only.

**Device life.** The events share one budget of seven: two inits, two recoveries,
two setups, two syncs, one failure to read a keystore, one stop, two ticks of the
clock and one act of a user, in any mixture. The longest stories that the
properties are about (init, sync, setup, a second init, recovery on it with a stop,
sync) take seven. Skews differ by `MaxFuture`, as much as is allowed. A sync may wait for
one tick and still push a manifest that is fresh for a clock that is ahead, or for two and
push one that is not. What seven events do not reach is a device that is refused for
the age of a manifest; that the window holds for every age is proved.

**Fairness.** `FairSpec` of `SyncEngine` asks of every device that a step of its
running sync is taken if one stays possible: a sync is one process that waits for
nobody. Nothing is asked of users, of new syncs or of failures. Under it
`SyncTerminates` says that retries end; it is the bound on the attempts that does
it, and the run gives the others more pushes than that bound. `FairSpec` of
`LocalFsStore` asks that a task of a running process goes on if it can (`WF` of
`Step`). That is weak fairness for taking a lock, too: it does not ask that a
lock which is free now and then is granted in the end. `EveryCallReturns` holds
because calls are finitely many; what could break it is a lock that nobody
releases, and none is left behind wherever a holder stops. The
cloud stores have no fairness: the clients have no timeout, and nothing makes a
server answer.

**What the preconditions are.** `ClocksTellHistory` and `PullsOnlyNewer` are checked of
`OrderlySpec`; section 4 tells what happens otherwise. `PublishedAgreesWithDisk` is
checked there, too, where no user answers "abort" and files can be removed; the proof
(section 5) has it without `Orderly`. `FirstPushCovers`
speaks of first attempts only, retries being the subject of `syncRetryConflict`.
`TagNamesOnePut` and `ReplacesWhatItSaw` of the directory store speak of objects
that were not deleted: a deletion restarts the counter, and the engine deletes
none. `KeepsIfApart` speaks of calls that do not overlap. `ReplacedIsKept` leaves
out a keystore that once failed to give out what was in it and then took the next (a
damaged file takes none), `VaultIsReadable` entries that come from a store that was
moved aside, and `PushIsFreshForAll` syncs that were started longer ago than
`MaxAge - MaxFuture`.

**What no run reaches.** `LeavesSidecar` needs a third edit or a failure in a conflict
that is decided by hand, which is beyond the bounds of the runs; that types and
`ManualSurfacesRemote` survive it is proved.

## 4. What comments say and the code does not do

Each of these runs checks one sentence of the code or its documents and is refuted
by a short behaviour.

| Run | The sentence | What happens |
|---|---|---|
| `syncRetryConflict` | "Our local is ahead or in sync; keep our version." (`cs-sync/src/engine.rs:597`) | a retry also skips conflicts and overwrites a concurrent version |
| `syncCreatedTwice` | pulled is what is "strictly newer" (`cs-sync/src/diff.rs:7`) | a path that two devices create: the clock that one starts it from covers a change of a third that it has never seen, and that change is pulled over |
| `driveLostUpdate` | "conditional put detects concurrent writes" (`src/docs/superpowers/specs/2026-08-02-config-sync-cycle3-webdav-and-ui.md:79`) | two devices both find the index they expect, and the later save undoes the earlier |
| `identityReplaced` | "Never silently replace a working identity" (`cs-cli/src/commands.rs:282`) | a keystore that is locked counts as empty, and a second init or a recovery overwrites the identity without a backup |

The story of `syncCreatedTwice`, with devices d, e and f and one path. Every sync also
counts in the aggregate clock of its manifest (`engine.rs:532`). Device d creates the file and
pushes it with {d: 1}; f pulls it and edits it, so f's version has {d: 1, f: 1}. Device
e has an aggregate clock in which f counts 1 already, from f's first sync, and creates the
file, too: its version starts from the aggregate (`engine.rs:705`) and claims f's first
change of a path that f had not even got. In the conflict with d's version e wins and
pushes {d: 1, e: 3, f: 1}. To f this is strictly newer than its own, so its edit is
overwritten without a conflict.

More of the kind were met on the way and have no run of their own:

* A device that fails after its push and before its cache is saved (`commands.rs:202`)
  bumps its old entry again (`engine.rs:686`), and one clock value stands for two contents.
  The later looks older than what others made in view of the first, and is pulled
  over, which is the same sentence as in `syncCreatedTwice`; two devices are enough.
* A newly added path starts from the aggregate clock (`engine.rs:705`), so with two
  devices already what others published for it looks older and is replaced, where pushed
  is what is "strictly newer" (`diff.rs:9`). `UnmanagedPassedOn` and `ManualKeepsRemote`
  leave the case out.
* The aggregate clock "dominates everything it has seen" (`engine.rs:533`), but lacks
  what retries fetch.
* A tombstone is recorded instead of "resurrecting the file on a later push"
  (`engine.rs:387`), also if the file could not be removed: the next scan brings
  it back as a new version.
* "Keep both (write remote as &lt;path&gt;.remote)" (`cs-ui/src/resolver.rs:178`): only the
  manual policy writes that file (`engine.rs:462`).
* "Manual surfaces both versions" (`conflict.rs:127`), but not if the local side is a
  deletion.
* "Deterministic total order on vector clocks" (`conflict.rs:6`): the sum of 128-bit
  hashes wraps (`conflict.rs:27`) and then contradicts happens-before. Where both
  versions are compared by happens-before first, the winner is right all the same
  (`WinnerIsNewerOfTwo`).
* Incomparable clocks "fall back to mtime" (`conflict.rs:101`), but only after the
  counter mass.
* A manifest without an ETag in the listing means "inconsistent or hostile"
  (`engine.rs:104`), but also that another device's first push fell between list and
  get.
* A device with history refuses an empty store, whose manifest would name blobs that
  are not there (`engine.rs:316-319`). Once another device has seeded the store anew
  up to the version of its cache, it no longer refuses, and pushes entries whose
  blobs were never uploaded: its own entries are causally ahead, and only entries
  edited since the last sync are uploaded.
* The locks keep a delete from leaving "a stale version sidecar"
  (`cs-storage/src/local_fs.rs:335-336`), but the error of removing it is dropped
  (`local_fs.rs:343`). If it stays, a put that must be the first is refused although the object
  is gone, and one with the ETag of what was deleted passes. The engine deletes nothing.
* A manifest carries the time at which the sync was started, not at which it was pushed
  (`commands.rs:169`, `184`, `197`, `engine.rs:626`). If a prompt stays open for more than a
  week, the sync publishes a manifest that a device without history refuses as stale until
  another sync pushes (`local_io.rs:299`).
* On Drive a put that wants its object to be absent asks it of the index
  (`gdrive.rs:381`), but a sync puts its blobs before the first manifest. The first sync
  to an empty folder is refused until its attempts are used up. The command line
  builds no Drive store yet (`cs-cli/src/store.rs`).

## 5. What is proved

The theorems hold for any set of devices, paths and contents, any policies,
resolvers and hashes, and without the bounds of the runs. They assume the
constants' assumptions, which TLC evaluates on every run: for the engine
`CounterAssumption`, `NoEntryAssumption`, `HashAssumption` and `EngineAssumption`, for
the rest those named below. Some theorems have a hypothesis of their own, which is
stated with them here: `SavedCacheAgrees` and `LastPusherAgrees`, `SyncTakesFewSteps`,
`ClocksAreTrue`, `PullsLoseNothing` and `ManualSurfacesRemote`, and `PushedIsFresh`.

* `SyncEngineProofs`: `TypeCorrect`, one lemma per action; and what they and the later
  parts use of clocks: `HappensBeforeIsStrictOrder`, `MergeIsLeastUpperBound` and
  `ResolutionFollowsBoth` (merging both sides' clocks and bumping gives a clock that
  follows both, unless the counter is at its limit).
* The same module on versions: `NoSpuriousRollback` is not inductive: that a cache's
  version is at most the manifest's says nothing of the version a running sync
  is about to put. `VersionsInStep` adds what the run holds: its version is not
  ahead of the store either, the ETag it has listed is not ahead, and *if that
  ETag is current then the manifest it has merged is the current one*. The last
  part is what compare-and-swap gives, and holds although ETag and bytes come
  from two calls: a push in between makes the listed ETag an old one. So the
  maximum of both versions is the manifest's own, and every push counts up by
  exactly one (`VersionsAdvanceByOne`); with it no cache gets ahead
  (`VersionsStayInStep`), which gives `RollbackAlarmIsSound`.
* The same module on what is published. `PublishedIsReadable` needs to know of every entry that a device
  *might* push that it opens: `BlobsKnown` says so of the manifest, of what caches and
  running syncs hold, and leaves out only what the scan has staged and not uploaded
  yet. `PushesNothingOlder`, `FirstAttemptCovers` and `PassesOnUnmanaged` rest on
  `RunsInStep`: while a sync applies its diff, each managed path that is no longer on
  its list is `Dealt` with, not older than what was fetched (and in the first attempt
  above it), and each path outside the config is as in the cache. With `VersionsInStep`,
  what was fetched is what the push replaces. `EngineImplementsVault` maps a successful
  push to `Publish`, an abort to `Reaffirm`, saving the cache to `Remember` and a failure
  before that to `Forget`; every other step stutters.
  `SavedCacheAgrees` assumes that files can be removed (`RemoveMayFail` is the case of
  section 4 where a tombstone stands for a file that is there) and that no counter in a
  cache is at `U64Max` (at the limit a deletion has the clock of what it deletes). It
  rests on `VersionsHaveKin`: whoever speaks of one sealed version of a path gives it
  one clock, and its deletion a later one, so a sync that leaves a path alone because
  nothing newer is published has the published content on disk. `LastPusherAgrees` adds
  that a device about to save holds what it has published (`PublishedInStep`), and
  that no user answers "abort", as an aborted sync saves what it has not published.
  `SyncTakesFewSteps` is what `SyncTerminates` rests on, without the fairness: every step
  of a running sync makes `StepsLeft` smaller, and no step of another device or of a
  user makes it greater. It counts a fetch and a diff of all paths for every attempt
  that is left, and what is left of the present one, so a sync takes no more than
  `StepsOfSync` steps, whoever else pushes in between. Its hypothesis is that there are
  finitely many paths.
* `SyncHistoryProofs` is about `OrderlySpec`, for any number of devices, with retries,
  failures and changes of the config. `ClocksAreTrue`: of two versions of a path, one has the
  other's seals in its past exactly if its clock covers it, so that "later" means
  "made in view of". `PullsLoseNothing`: what a pull overwrites went into what is
  pulled. Both rest on `HistoryKept`. Its core is `SealsAreCounted`: every seal is in the
  past of its version, and some counter of some device *stands for* it, that is, a
  version has the seal in its past exactly if its clock has reached that counter. This is
  about any two versions at once, wherever they are held, and survives merging without
  further ado: a merged clock reaches a counter if one of both does. What has to be shown
  is that a new version's counter is new, and this is what the rest is for: nobody else
  knows a higher count of d's changes than the version d goes on from (`KnowsOwn`); others
  have what they know of d from the published version, which does not change in this
  respect while d works on what it fetched (`PublishedKnows`); a path that was never
  published is that of a single device (`Unpublished`); and a conflict is resolved in
  a first attempt only, of which the scan continues the cache (`Continues`). The hypotheses
  are the three conditions of `Orderly` and that no counter that a device may bump next
  is at `U64Max` (`OwnBelowLimit`; a counter that cannot go up stands for two versions).
  TLC found a counterexample without each of the three, and checked `HistoryKept` as an
  invariant of three devices before it was proved: without `CreatesAlone` it is
  `syncCreatedTwice`; without `SavesAtLast`, a counter stands for two contents (section 4); without `PushCovers`, a
  retry replaces a version it does not cover, as in `syncRetryConflict`, and whoever then takes
  that device's version has forgotten a counter of their own, and uses it again.
  `ManualSurfacesRemote`, under the same hypotheses, is about users who decide by hand. A
  version that the scan finds differs from the cache's in the device's own counter only,
  and one that is new to the device is new to all (`Scanned`), so a remote version that
  is passed over without a conflict is one that the cache covers; every other one was
  taken or written to the `.remote` file (`Shown`). The run `syncResolvers` checks
  `ManualKeepsRemote` without `Orderly`, but without failures and with two devices, of which
  one has the path under the manual policy.
* `ResolutionOrderProofs`, from `OrderAssumption`, `CounterAssumption` and
  `HashAssumption`. The counter mass is a fold over the devices. That the fold has the
  value its equation says is an induction over sets, which the library offers with an
  operator as parameter only; it is made from well-founded orders instead: of the
  sets for which the equation fails there would be a smallest. So a clock that causally
  follows another has the greater mass, unless masses wrap. `LatestWinsIsOneOrder` then
  has the winner of three versions, in whatever order they meet, as the greatest of one
  total order as long as no mass wraps. `NewerWinsFromBothSides` is said of masses that
  wrap, too: happens-before is asked first.
* `LocalFsStoreProofs`, from `StoreAssumption` (a lock's "nobody" is no task, the bounds
  are numbers). `LocksAreExclusive` is an induction over the types, the two locks and
  what kind of call is at which step (`TypeInv`). `TagsNameOnePut` needs that no ETag given
  out or listed is ahead of the sidecar of an object that was not deleted
  (`TagsBehind`): the next tag is then new. `UntaggedMeansTorn` needs that an untagged
  object is excused also *while* a call on it is half done (`UntaggedInv`).
  `DirectoryKeepsTheContract` maps the disk to the contract's objects: where a call is
  half done, the object is the one that the call found. That every step is then one of
  the contract or a stutter rests on `FoundInv`: under the locks the object is as the
  call found it, up to its own writes. Where sidecars can be removed, none is without an
  object (`TagHasFile`), so that the check asks for absence exactly if the contract does;
  where they may resist, the contract allows for the ETag that stays.
  `PutReplacesWhatItSaw` adds to these what was read (`ReadInv`): while the sidecar
  still has the tag somebody listed, what they read since is what is there.
  `LocksNeverBlock` is what `EveryCallReturns` rests on, without the fairness: while a call
  is under way, one that is under way may take its next step (`SomeoneMayGoOn`: it waits
  for no lock or for one that is free), and every step of a call brings it nearer to its
  return (`StepsToReturn`). No order of calls, stops and releases leaves all of them
  waiting for each other.
* `HttpStoreProofs`, from `HttpAssumption`. `PutsTakeEffectOnce` needs that no ETag
  anybody has heard of, nor that of any object, is ahead of the server's last
  (`TagsBehind`), that each put has bytes of its own (`Numbered`), and that a
  conditional put which took effect no longer finds what it expects (`PutOnce`): a
  second sending is then refused. `RefusalsAreHonest` follows a put from its first
  sending to a response that is no success (`FirstTry`) and then goes through what each
  client makes of each status. `ReplacesOnlyWhatItSaw` needs that the response under
  way also tells the truth about the ETag that was listed (`ReadsTrue`).
  `ServersKeepTheContract` maps a call to the contract's call from sending to response;
  a second sending is a second call, and giving up is an answer that got lost.
* `GDriveStoreProofs`, from `DriveAssumption`. `DriveTypes` is an induction over
  numbers of calls: files made and puts that may still make one are no more than the
  puts called, and likewise versions (`Counts`). `ApartTheIndexIsTrue` needs, as long as calls
  that write do not overlap, that there is one index in the folder, no file belongs to
  two names, and the call under way works on that index and changes its own object only
  (`Apart`). `PutReplacesWhatItSaw` adds that no cache is ahead of the
  index, that one of the same version is the same index (`CachesBehind`), and that this
  is so of the version about to be saved, too (`SawNext`).
* `DeviceLifeProofs`, from `DeviceAssumption` and `PrimeAssumption`. `LifeTypes` counts
  the inits, as RIKs are numbers of the field. `OldIdentityIsKept` needs what is true at
  each step of a replacement (`Kept`): the old RIK is still there until it is backed up,
  is backed up before it is wiped, and stays in a damaged file, unless the keystore failed
  once and took the next.
  `OnlyItsOwnHeaderOpens` rests on every key being drawn once (`SealedOnce`).
  `VaultStaysReadable` says of every entry in a cache, in a running sync and in the
  manifest that it was sealed for the vault of those who hold it, and that its blob is
  there as long as the store is the one it was uploaded to (`EntriesFit`); only the check
  of the signer keeps this so when a sync takes an entry over. `StoresKeepTheirVault`
  follows from the same check. `PushedIsFresh` assumes that the clocks agree
  (`ClocksAgree`: within `MaxFuture`, a day, which is less than `MaxAge`, a week); the
  property itself asks of the sync that it has not waited longer than `MaxAge` less
  `MaxFuture`. It needs that no sync was started later than now (`Dated`).
  `RecoveryIsOfTheVault` needs that words open only the bundle they were shown for
  (`WordsFit`) and that whatever split is held is one that a setup made (`SplitsFit`).
  That the shares of such a split come back as the RIK is `EverySplitComesBack`.
* `RecoveryProofs`, from `PrimeAssumption`: `EverySplitComesBack`, Shamir's scheme for
  every prime, every polynomial and every choice of shares that are enough. Sums modulo
  the prime and the weights of the points are folds over sets, so the proof first shows
  of folds in general that one exists, that it is unique and that, where steps commute,
  any element may be taken first. Reciprocals exist because the smallest of an
  element's multiples, other than 0, divides the prime. The weights of any points add up to one
  (`WeightsAddUp`, by a smallest set for which they do not); a point may be left out of an
  interpolation whose values vanish there (`EstimateDescends`); and with both, what
  Horner's rule adds at each coefficient is what the points say of it
  (`EstimateClimbs`). The field is that of the integers modulo a prime, where the crate
  `sharks` has GF(256): the argument is that of any field. TLC evaluates the same
  statement for thresholds up to three in the field of the run.

Four models were rewritten for the proofs without a change of what they mean. The answers
of the HTTP stores' clients treat a status other than 200 first, where a `CASE` with
overlapping guards does not say which of them applies. A recovery goes ahead if
what comes back *is a RIK*, where it said *is no failure*. `ResolutionOrder` has a name for the
winner of a meeting (`WinnerOf`), and `Recovery` has names for the value of a polynomial
(`Value`) and for the weight of a point (`Weight`), which were local to what uses them.

Only model-checked: what must eventually happen (`SyncTerminates`, `EveryCallReturns`), as
liveness and `ENABLED` are beyond the proof system. Their safety halves, a measure
that every step of a sync lowers and the absence of a deadlock, are proved. Every other
property of a passing run is stated by a theorem, under the hypotheses named above.

## 6. What is not modelled

* Wire formats and parsers: the postcard encoding of manifests and bundles, the
  header of an envelope, XML and JSON bodies. Where a parser may fail, the
  failure is modelled (a body that is not whole, a manifest that does not open).
* The algorithms of `cs-crypto`: whether a cipher or a signature is sound is no
  question for a model checker. Envelopes are terms that open or do not.
* Names of objects (validation, URL encoding), symlinks and permissions in the
  directory store, `get_range`, which only tests call.
* `list` and `doctor`, which read and print; arguments, terminal dialogues and
  the starter config; parsing and path expansion in `cs-config`, which have no state.
* Sizes and their caps, time spent, and two syncs of one device at once: nothing
  locks them out, and they would use a counter twice, as after a failure between push and save.
* Resolution records: written, merged and never read.
* Packaging, release scripts and the example configurations: no state of the protocol is
  in them.

## 7. What is left

1. Convergence: if users stop editing and every device syncs again and again, all
   disks agree. It needs fairness of syncs, which nothing in the code provides (a
   person or a timer starts them), and a budget without end.
2. A composition of `SyncEngine` with `ConditionalStore` in place of the atomic
   store, so that lost answers reach the engine's retries.
