----------------------------- MODULE DeviceLife -----------------------------
(***************************************************************************)
(* The life of a vault and of the devices that hold its root identity key, *)
(* the RIK (crates/cs-cli/src/commands.rs, state.rs).  The commands run in *)
(* these steps, one command per device at a time:                          *)
(*                                                                         *)
(*   init:     check -> [wipe ->] put the identity -> save the config      *)
(*   recover:  check -> [back up ->] [wipe ->] put the identity            *)
(*   sync:     upload -> fetch and push the manifest -> save the cache     *)
(*                                                                         *)
(* A command may stop between any two steps.  The sync is SyncEngine's, in *)
(* one step from its fetch to its push, and one file; what matters here is *)
(* who can open what, and when.                                            *)
(***************************************************************************)
EXTENDS Envelope, Recovery

CONSTANTS
    Device,
    Keystore,      \* Keystore[d]: "file", "keyring" or "mac", where secrets are kept
    Skew,          \* Skew[d]: how far the clock of d is off
    MaxAge,        \* MAX_MANIFEST_AGE_SECS
    MaxFuture,     \* MAX_MANIFEST_FUTURE_SECS
    Slopes,        \* the slopes that a split may draw; their number is k - 1
    ShareCount,    \* n, how many shares a split makes
    MaxEntered,    \* the largest threshold a user enters at recovery
    Budget         \* how often each kind of event occurs, and all of them together

ASSUME DeviceAssumption ==
    /\ Keystore \in [Device -> {"file", "keyring", "mac"}] /\ Skew \in [Device -> Nat]
    /\ {MaxAge, MaxFuture, ShareCount, MaxEntered} \subseteq Nat
    /\ Slopes \subseteq Seq(Field) /\ ShareCount < Prime
    /\ Budget \in [{"init", "recover", "setup", "sync", "misread", "crash", "time", "user", "all"} -> Nat]
    /\ Budget["init"] <= Prime

VARIABLES
    now,        \* the time, in whatever MaxAge is counted in
    made,       \* how many RIKs init has generated; they are 0, 1, ...
    sealed,     \* how many keys have been drawn for bundles and envelopes
    config,     \* config[d]: whether d has its config file
    identity,   \* identity[d]: the RIK in d's keystore, None if there is none
    backup,     \* backup[d]: the RIK in identity.backup.bin
    bundle,     \* bundle[d]: the recovery bundle on d
    cache,      \* cache[d]: the local manifest of d
    words,      \* the mnemonics that users have written down, with their RIKs
    splits,     \* the sets of shares they have
    manifest,   \* the manifest object on the store
    blobs,      \* the blobs on the store
    stores,     \* history: how many stores were moved aside before this one
    pc,         \* pc[d]: the next step of d's command
    work,       \* work[d]: what that command holds in memory
    budget,     \* what is left of Budget
    before,     \* history: the identity d had when it was last to be changed
    misread     \* history: d's keystore once failed to give out what was in it

None       == -1
NoBundle   == [rik |-> None]
NoFile     == [version |-> 0]
NoCache    == [vault |-> None, version |-> 0, file |-> NoFile]
NoManifest == [version |-> 0]
NoWork     == [op |-> "none"]

storeVars  == <<manifest, blobs, stores>>
secretVars == <<config, identity, backup, bundle>>
userVars   == <<words, splits>>
pastVars   == <<before, misread>>
vars == <<now, made, sealed, secretVars, cache, userVars, storeVars, pc, work, budget, pastVars>>

Init ==
    /\ now = MaxAge /\ made = 0 /\ sealed = 0
    /\ config = [d \in Device |-> FALSE]
    /\ identity = [d \in Device |-> None]
    /\ backup = [d \in Device |-> None]
    /\ bundle = [d \in Device |-> NoBundle]
    /\ cache = [d \in Device |-> NoCache]
    /\ words = {} /\ splits = {}
    /\ manifest = NoManifest /\ blobs = {} /\ stores = 0
    /\ pc = [d \in Device |-> "idle"]
    /\ work = [d \in Device |-> NoWork]
    /\ budget = Budget
    /\ before = [d \in Device |-> None]
    /\ misread = [d \in Device |-> FALSE]

Spend(events) ==
    /\ \A e \in events : budget[e] > 0
    /\ budget["all"] >= Cardinality(events)
    /\ budget' = [e \in DOMAIN budget |->
          budget[e] - IF e = "all" THEN Cardinality(events) ELSE IF e \in events THEN 1 ELSE 0]

Goto(d, step) == pc' = [pc EXCEPT ![d] = step]

\* Mutant: the next command finds what this one has left.
EndOnly(d) == Goto(d, "idle") /\ UNCHANGED work

End(d) == Goto(d, "idle") /\ work' = [work EXCEPT ![d] = NoWork]

-----------------------------------------------------------------------------
(* The keystore.  To read it may fail, once - it is locked, the finger is    *)
(* not the right one - or, if it is a file, for good, damaged as it is until *)
(* somebody restores it.  identity_exists takes either for absence.          *)

Failures == {"no", "once", "damaged"}

\* What a check for an identity costs that fails so.
Misread(fails) == IF fails = "no" THEN {} ELSE {"misread"}

MayFail(d, fails) == /\ fails # "no" => identity[d] # None
                     /\ fails = "damaged" => Keystore[d] = "file"

Exists(d, fails) == identity[d] # None /\ fails = "no"

NoteMisread(d, fails) == misread' = [misread EXCEPT ![d] = @ \/ fails = "once"]

\* On macOS the old item is deleted before the new one is added.
PutStep(d) == IF Keystore[d] = "mac" THEN "wipe" ELSE "put"

WipeIdentity(d) ==
    /\ pc[d] = "wipe"
    /\ identity' = [identity EXCEPT ![d] = None]
    /\ Goto(d, "put")
    /\ UNCHANGED <<now, made, sealed, config, backup, bundle, cache, userVars, storeVars,
                   work, budget, pastVars>>

\* A file is read once more before it is written: damaged, it stays as it is.
\* What else fails here is a Stop.
PutIdentity(d) ==
    /\ pc[d] = "put"
    /\ IF work[d].unreadable = "damaged"
       THEN End(d) /\ UNCHANGED identity
       ELSE /\ identity' = [identity EXCEPT ![d] = work[d].rik]
            /\ IF work[d].op = "init" THEN Goto(d, "config") /\ UNCHANGED work ELSE End(d)
    /\ UNCHANGED <<now, made, sealed, config, backup, bundle, cache, userVars, storeVars,
                   budget, pastVars>>

-----------------------------------------------------------------------------
(* config-sync init                                                          *)

StartInit(d) ==
    /\ pc[d] = "idle" /\ ~config[d]
    /\ \E fails \in Failures :
          /\ MayFail(d, fails) /\ ~Exists(d, fails)
          /\ Spend({"init"} \cup Misread(fails))
          /\ NoteMisread(d, fails)
          /\ work' = [work EXCEPT ![d] =
                [op |-> "init", rik |-> made, due |-> made, unreadable |-> fails]]
    /\ made' = made + 1
    /\ before' = [before EXCEPT ![d] = identity[d]]
    /\ Goto(d, PutStep(d))
    /\ UNCHANGED <<now, sealed, secretVars, cache, userVars, storeVars>>

SaveConfig(d) ==
    /\ pc[d] = "config"
    /\ config' = [config EXCEPT ![d] = TRUE]
    /\ End(d)
    /\ UNCHANGED <<now, made, sealed, identity, backup, bundle, cache, userVars, storeVars,
                   budget, pastVars>>

-----------------------------------------------------------------------------
(* config-sync recover --setup                                               *)

\* The bundle is replaced, then its words are shown, unless setup stops before.
SetupBundle(d) ==
    /\ pc[d] = "idle" /\ identity[d] # None
    /\ \E shown \in BOOLEAN :
          /\ Spend({"setup"} \cup IF shown THEN {} ELSE {"crash"})
          /\ words' = IF shown THEN words \cup {[secret |-> sealed, rik |-> identity[d]]} ELSE words
    /\ bundle' = [bundle EXCEPT ![d] = MakeBundle(identity[d], sealed, sealed)]
    /\ sealed' = sealed + 1
    /\ UNCHANGED <<now, made, config, identity, backup, cache, splits, storeVars,
                   pc, work, pastVars>>

SetupShares(d) ==
    /\ pc[d] = "idle" /\ identity[d] # None
    /\ Spend({"setup"})
    /\ \E slopes \in Slopes :
          splits' = splits \cup {[rik |-> identity[d], k |-> Len(slopes) + 1,
                                  shares |-> Shares(identity[d], slopes, ShareCount)]}
    /\ UNCHANGED <<now, made, sealed, secretVars, cache, words, storeVars, pc, work, pastVars>>

-----------------------------------------------------------------------------
(* config-sync recover                                                       *)

\* What a recovery may come to: the RIK, and the RIK it is due to be, by the
\* words or the shares that were entered, None if these promise nothing.
FromWords(d) == {[rik |-> OpenBundle(bundle[d], w.secret), due |-> w.rik] :
                    w \in IF bundle[d] = NoBundle THEN {} ELSE words}

\* The split that the shares are of, if as many of its shares were entered as it
\* takes.
Promised(entered) ==
    {s \in splits : Len(entered) >= s.k /\ \A i \in 1 .. Len(entered) : entered[i] \in s.shares}

FromShares ==
    LET held == UNION {s.shares : s \in splits}
    IN  {[rik |-> Recombine(entered, Len(entered), print),
          due |-> IF print # Skip THEN print
                  ELSE IF Promised(entered) = {} THEN None
                  ELSE (CHOOSE s \in Promised(entered) : TRUE).rik] :
             entered \in UNION {[1 .. t -> held] : t \in 1 .. MaxEntered},
             print \in {Skip} \cup 0 .. made - 1}

\* The scheme keeps its promise for every split that a setup may make.
SplitsComeBack == \A slopes \in Slopes : ComesBack(slopes, ShareCount)

\* What comes back is a RIK, not an error.
Recoverable(d) == {r \in FromWords(d) \cup FromShares : r.rik \in Field}

StartRecover(d) ==
    /\ pc[d] = "idle"
    /\ \E fails \in Failures :
          /\ MayFail(d, fails)
          /\ Spend({"recover"} \cup Misread(fails))
          /\ NoteMisread(d, fails)
          /\ \E r \in Recoverable(d) :
                work' = [work EXCEPT ![d] =
                   [op |-> "recover", rik |-> r.rik, due |-> r.due, unreadable |-> fails]]
          /\ Goto(d, IF Exists(d, fails) THEN "backup" ELSE PutStep(d))
    /\ before' = [before EXCEPT ![d] = identity[d]]
    /\ UNCHANGED <<now, made, sealed, secretVars, cache, userVars, storeVars>>

\* Mutant: nothing is backed up.
NoBackup(d) == UNCHANGED backup

BackUp(d) == backup' = [backup EXCEPT ![d] = identity[d]]

\* The keystore is read once more, and may fail this time.
BackUpIdentity(d) ==
    /\ pc[d] = "backup"
    /\ \/ /\ BackUp(d)
          /\ UNCHANGED <<work, budget, misread>>
       \/ /\ \E fails \in Failures \ {"no"} :
                /\ MayFail(d, fails)
                /\ NoteMisread(d, fails)
                /\ work' = [work EXCEPT ![d].unreadable = fails]
          /\ Spend({"misread"})
          /\ UNCHANGED backup
    /\ Goto(d, PutStep(d))
    /\ UNCHANGED <<now, made, sealed, config, identity, bundle, cache, userVars, storeVars, before>>

-----------------------------------------------------------------------------
(* config-sync sync                                                          *)

Clock(d) == now + Skew[d]

ManifestAad == [path |-> "manifest", version |-> 0]
FileAad(v)  == [path |-> "file", version |-> v]

Keys(d) == RecipientKeys(identity[d])

\* load_local_manifest: a cache must be of this vault.
CacheFits(d) == cache[d] = NoCache \/ cache[d].vault = identity[d]

\* Mutant: sealed as the version before.
EntrySealedBefore(d) ==
    LET v == cache[d].file.version + 1
    IN  [version |-> v, store |-> stores, blob |-> Seal("content", FileAad(v - 1), Keys(d), sealed)]

\* The entry of an edited file (scan_local).
EditedEntry(d) ==
    LET v == cache[d].file.version + 1
    IN  [version |-> v, store |-> stores, blob |-> Seal("content", FileAad(v), Keys(d), sealed)]

\* The sync loads its state, notes the time, which is `now' to all that it does,
\* and seals and uploads the file if it was changed.
StartSync(d) ==
    /\ pc[d] = "idle" /\ config[d] /\ identity[d] # None /\ CacheFits(d)
    /\ Spend({"sync"})
    /\ \E edited \in BOOLEAN :
          /\ work' = [work EXCEPT ![d] =
                [op |-> "sync", rik |-> identity[d], started |-> Clock(d),
                 version |-> cache[d].version,
                 edited |-> edited, file |-> IF edited THEN EditedEntry(d) ELSE cache[d].file]]
          /\ blobs' = IF edited THEN blobs \cup {EditedEntry(d).blob} ELSE blobs
          /\ sealed' = IF edited THEN sealed + 1 ELSE sealed
    /\ Goto(d, "push")
    /\ UNCHANGED <<now, made, secretVars, cache, userVars, manifest, stores, pastVars>>

Anchored(d) == work[d].version > 0 \/ work[d].file # NoFile

\* Mutant: no clock may be ahead of another.
AcceptsNoSkew(d, m, anchored, time) ==
    /\ m.signer = identity[d]
    /\ m.time <= time
    /\ anchored \/ m.time >= time - MaxAge
    /\ CanOpen(m.envelope.header, m.envelope.body, ManifestAad, Keys(d))
    /\ m.envelope.body.text.version = m.version

\* open_manifest, in a sync that was started at this time
Accepts(d, m, anchored, time) ==
    /\ m.signer = identity[d]
    /\ m.time <= time + MaxFuture
    /\ anchored \/ m.time >= time - MaxAge
    /\ CanOpen(m.envelope.header, m.envelope.body, ManifestAad, Keys(d))
    /\ m.envelope.body.text.version = m.version

\* Mutant: a manifest that cannot be opened counts as none.
ProceedsAnyway(d) ==
    manifest # NoManifest /\ Accepts(d, manifest, Anchored(d), work[d].started)
    => manifest.version >= work[d].version

\* fetch_remote_manifest: no manifest for one who has history, and no older one.
Proceeds(d) ==
    \/ manifest = NoManifest /\ ~Anchored(d)
    \/ manifest # NoManifest /\ Accepts(d, manifest, Anchored(d), work[d].started)
                             /\ manifest.version >= work[d].version

Fetched(d) == IF manifest # NoManifest THEN manifest.envelope.body.text
                                       ELSE [version |-> 0, file |-> NoFile]

\* An entry of a store that was moved aside may be ahead of all that is here.
CarriedOver(file) == file # NoFile /\ file.store # stores

\* The entries that may come out of the merge: the only one, the edited one, the
\* remote one, either of them if both were edited.
Merged(d) ==
    LET own == work[d].file   theirs == Fetched(d).file
    IN  IF theirs = NoFile \/ (work[d].edited /\ theirs = cache[d].file) THEN {own}
        ELSE IF work[d].edited \/ CarriedOver(own) THEN {own, theirs}
        ELSE {theirs}

\* seal_manifest
SealManifest(d, text) ==
    [version |-> text.version, time |-> work[d].started, signer |-> identity[d],
     envelope |-> Seal(text, ManifestAad, Keys(d), sealed)]

PushManifest(d) ==
    /\ pc[d] = "push" /\ Proceeds(d)
    /\ \E file \in Merged(d) :
          LET last == IF Fetched(d).version > work[d].version THEN Fetched(d).version
                                                              ELSE work[d].version
          IN  /\ manifest' = SealManifest(d, [version |-> last + 1, file |-> file])
              /\ work' = [work EXCEPT ![d].version = last + 1, ![d].file = file]
    /\ sealed' = sealed + 1
    /\ Goto(d, "save")
    /\ UNCHANGED <<now, made, secretVars, cache, userVars, blobs, stores, budget, pastVars>>

RefuseManifest(d) ==
    /\ pc[d] = "push" /\ ~Proceeds(d)
    /\ End(d)
    /\ UNCHANGED <<now, made, sealed, secretVars, cache, userVars, storeVars, budget, pastVars>>

SaveCache(d) ==
    /\ pc[d] = "save"
    /\ cache' = [cache EXCEPT ![d] =
          [vault |-> work[d].rik, version |-> work[d].version, file |-> work[d].file]]
    /\ End(d)
    /\ UNCHANGED <<now, made, sealed, secretVars, userVars, storeVars, budget, pastVars>>

-----------------------------------------------------------------------------
(* What happens to the commands, and what users do in between.               *)

Stop(d) ==
    /\ pc[d] # "idle"
    /\ Spend({"crash"})
    /\ End(d)
    /\ UNCHANGED <<now, made, sealed, secretVars, cache, userVars, storeVars, pastVars>>

PassTime ==
    /\ Spend({"time"})
    /\ now' = now + 1
    /\ UNCHANGED <<made, sealed, secretVars, cache, userVars, storeVars, pc, work, pastVars>>

CopyBundle(d) ==
    /\ \E e \in Device : bundle[e] # NoBundle /\ bundle[e] # bundle[d]
                         /\ bundle' = [bundle EXCEPT ![d] = bundle[e]]
    /\ Spend({"user"})
    /\ UNCHANGED <<now, made, sealed, config, identity, backup, cache, userVars, storeVars,
                   pc, work, pastVars>>

\* As the messages say: a cache of another vault, or of a store that is gone, is
\* removed, an identity without a config too, a store moved aside.
RemoveCache(d) ==
    /\ pc[d] = "idle" /\ cache[d] # NoCache
    /\ cache[d].vault # identity[d] \/ manifest = NoManifest
    /\ Spend({"user"})
    /\ cache' = [cache EXCEPT ![d] = NoCache]
    /\ UNCHANGED <<now, made, sealed, secretVars, userVars, storeVars, pc, work, pastVars>>

RemoveIdentity(d) ==
    /\ pc[d] = "idle" /\ ~config[d] /\ identity[d] # None
    /\ Spend({"user"})
    /\ identity' = [identity EXCEPT ![d] = None]
    /\ before' = [before EXCEPT ![d] = None]
    /\ UNCHANGED <<now, made, sealed, config, backup, bundle, cache, userVars, storeVars,
                   pc, work, misread>>

MoveStoreAside ==
    /\ manifest # NoManifest /\ \A d \in Device : pc[d] = "idle"
    /\ Spend({"user"})
    /\ manifest' = NoManifest /\ blobs' = {} /\ stores' = stores + 1
    /\ UNCHANGED <<now, made, sealed, secretVars, cache, userVars, pc, work, pastVars>>

Next ==
    \/ \E d \in Device :
          \/ StartInit(d) \/ SaveConfig(d) \/ SetupBundle(d) \/ SetupShares(d)
          \/ StartRecover(d) \/ BackUpIdentity(d) \/ WipeIdentity(d) \/ PutIdentity(d)
          \/ StartSync(d) \/ PushManifest(d) \/ RefuseManifest(d) \/ SaveCache(d)
          \/ Stop(d) \/ CopyBundle(d) \/ RemoveCache(d) \/ RemoveIdentity(d)
    \/ PassTime \/ MoveStoreAside

Spec == Init /\ [][Next]_vars

-----------------------------------------------------------------------------
(* Properties                                                                *)

TypeOK ==
    /\ made \in 0 .. Prime /\ sealed \in Nat
    /\ identity \in [Device -> Field \cup {None}] /\ backup \in [Device -> Field \cup {None}]
    /\ config \in [Device -> BOOLEAN]
    /\ pc \in [Device -> {"idle", "config", "backup", "wipe", "put", "push", "save"}]
    /\ \A d \in Device : pc[d] = "idle" <=> work[d] = NoWork
    /\ \A d \in Device : pc[d] \in {"push", "save"} => work[d].rik = identity[d]

\* The RIK a device had before init or recover last changed it, the only key to
\* all that was sealed with it, is still there or in the backup, wherever the
\* command stopped, and from a damaged file too; but for a keystore that once
\* failed to give out what it had, and took the next (commands.rs:39, 282).
ReplacedIsKept ==
    \A d \in Device :
        before[d] # None /\ ~misread[d] => before[d] \in {identity[d], backup[d]}

\* "Never silently replace a working identity: the previous RIK is the only key
\* to every existing blob. Confirm interactively and keep a backup."
\* (commands.rs:282): whatever happens, the RIK before is there or in the backup.
NeverSilentlyReplaced ==
    \A d \in Device : before[d] # None => before[d] \in {identity[d], backup[d]}

\* What recovery installs is the RIK of the vault: with the words of a bundle,
\* with shares of one split, as many as its threshold or more, whatever threshold
\* the user enters, and with any shares at all if the fingerprint is entered.
RecoversTheVaultKey ==
    \A d \in Device : work[d] # NoWork /\ work[d].op = "recover" /\ work[d].due # None
                      => work[d].rik = work[d].due

\* Whoever holds the RIK of the vault on the store, by init or by recovery, reads
\* all of it: the blobs that its manifest names are there and open, except for
\* entries that a cache has carried over from a store that was moved aside.
VaultIsReadable ==
    \A d \in Device :
        manifest # NoManifest /\ identity[d] = manifest.signer /\ Fetched(d).file # NoFile
        => LET f == Fetched(d).file
           IN  f.store = stores => /\ f.blob \in blobs
                                   /\ CanOpen(f.blob.header, f.blob.body, FileAad(f.version), Keys(d))

\* A header opens a body only if the two were sealed together, as the version of
\* the file that is expected.
OpensOnlyAsSealed ==
    \A d \in Device : \A a, b \in blobs : \A v \in 1 .. Budget["sync"] :
        CanOpen(a.header, b.body, FileAad(v), Keys(d))
        => a = b /\ a.header.aad = <<"file", v>>

\* A store never changes its vault: a device with another identity, as every new
\* one has before it recovers, is refused, and the store is left as it was.
StoreKeepsItsVault ==
    [][manifest # NoManifest /\ manifest' # NoManifest => manifest'.signer = manifest.signer]_vars

\* A sync of one device lets all others in: what it pushes is neither too old nor
\* too new for any device of the vault that starts its sync then, with or without
\* history, as long as no clock is ahead of another by more than MaxFuture.  The
\* manifest is as old as the sync that pushes it (engine.rs:626), which may have
\* waited for its user to answer; that must leave room for the clocks.
PushIsFreshForAll ==
    [][\A d, e \in Device :
          /\ pc[d] = "push" /\ pc'[d] = "save"
          /\ Clock(d) - work[d].started <= MaxAge - MaxFuture
          /\ identity[e] = manifest'.signer
          => Accepts(e, manifest', FALSE, Clock(e))]_vars
=============================================================================
