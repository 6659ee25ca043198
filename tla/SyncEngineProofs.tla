-------------------------- MODULE SyncEngineProofs --------------------------
(***************************************************************************)
(* Proofs about SyncEngine, for any number of devices, paths and contents, *)
(* any policies, resolvers and device hashes, and without the bounds that  *)
(* the runs of TLC need.                                                   *)
(***************************************************************************)
EXTENDS SyncEngine, FiniteSetTheorems, TLAPS

-----------------------------------------------------------------------------
(* The laws of vector clocks that the design asks of them (cycle2 design,    *)
(* section 4) and that resolving a conflict relies on.                       *)

LEMMA SaturatingNextType ==
    \A n \in Counter : /\ SaturatingNext(n) \in Counter
                       /\ n <= SaturatingNext(n)
                       /\ n < U64Max => n < SaturatingNext(n)
BY CounterAssumption, SMT DEF Counter, SaturatingNext

LEMMA ClockTypes ==
    /\ ZeroClock \in Clock
    /\ \A c \in Clock, d \in Device : Bump(c, d) \in Clock
    /\ \A a, b \in Clock : Merge(a, b) \in Clock
<1>1. ZeroClock \in Clock
  BY CounterAssumption DEF ZeroClock, Clock, Counter
<1>2. ASSUME NEW c \in Clock, NEW d \in Device PROVE Bump(c, d) \in Clock
  <2>1. SaturatingNext(c[d]) \in Counter
    BY SaturatingNextType DEF Clock
  <2> QED BY <2>1 DEF Bump, Clock
<1>3. ASSUME NEW a \in Clock, NEW b \in Clock PROVE Merge(a, b) \in Clock
  BY DEF Merge, Clock
<1> QED BY <1>1, <1>2, <1>3

\* happens_before is a strict partial order (clock.rs:38): no clock happens before
\* itself, no two before each other, and the relation is transitive.
THEOREM HappensBeforeIsStrictOrder ==
    \A a, b, c \in Clock :
        /\ ~HappensBefore(a, a)
        /\ HappensBefore(a, b) => ~HappensBefore(b, a)
        /\ HappensBefore(a, b) /\ HappensBefore(b, c) => HappensBefore(a, c)
<1> SUFFICES ASSUME NEW a \in Clock, NEW b \in Clock, NEW c \in Clock
             PROVE  /\ ~HappensBefore(a, a)
                    /\ HappensBefore(a, b) => ~HappensBefore(b, a)
                    /\ HappensBefore(a, b) /\ HappensBefore(b, c) => HappensBefore(a, c)
  OBVIOUS
<1>1. \A d \in Device : a[d] \in Int /\ b[d] \in Int /\ c[d] \in Int
  BY DEF Clock, Counter
<1>2. ~HappensBefore(a, a)
  BY <1>1 DEF HappensBefore
<1>3. HappensBefore(a, b) => ~HappensBefore(b, a)
  BY <1>1 DEF HappensBefore, AtMost
<1>4. ASSUME HappensBefore(a, b), HappensBefore(b, c) PROVE HappensBefore(a, c)
  <2>1. (\A d \in Device : a[d] <= b[d]) /\ (\A d \in Device : b[d] <= c[d])
    BY <1>4 DEF HappensBefore, AtMost
  <2>2. ASSUME NEW d \in Device PROVE a[d] <= c[d]
    <3>1. a[d] \in Int /\ b[d] \in Int /\ c[d] \in Int /\ a[d] <= b[d] /\ b[d] <= c[d]
      BY <1>1, <2>1
    <3> QED BY <3>1
  <2>3. PICK d \in Device : a[d] < b[d]
    BY <1>4 DEF HappensBefore
  <2>4. a[d] < c[d]
    BY <1>1, <2>1, <2>3
  <2> QED BY <2>2, <2>4 DEF HappensBefore, AtMost
<1> QED BY <1>2, <1>3, <1>4

\* merge is the least upper bound (clock.rs:29); that it is commutative,
\* associative and idempotent follows.
THEOREM MergeIsLeastUpperBound ==
    \A a, b, c \in Clock :
        /\ AtMost(a, Merge(a, b)) /\ AtMost(b, Merge(a, b))
        /\ AtMost(a, c) /\ AtMost(b, c) => AtMost(Merge(a, b), c)
BY SMT DEF Clock, Counter, AtMost, Merge

\* The clock of a resolved conflict, both sides merged and the device's counter
\* bumped (engine.rs:428, 489), strictly follows both sides unless that counter
\* is at its limit; no later diff can take either side for the newer one.
THEOREM ResolutionFollowsBoth ==
    ASSUME NEW a \in Clock, NEW b \in Clock, NEW d \in Device, Merge(a, b)[d] < U64Max
    PROVE  LET m == Bump(Merge(a, b), d)
           IN  HappensBefore(a, m) /\ HappensBefore(b, m)
<1> DEFINE j == Merge(a, b)
           m == Bump(j, d)
<1>1. j \in Clock /\ m \in Clock
  BY ClockTypes
<1>2. AtMost(a, j) /\ AtMost(b, j)
  BY <1>1, MergeIsLeastUpperBound
<1>3. m = [j EXCEPT ![d] = j[d] + 1]
  BY DEF Bump, SaturatingNext
<1> HIDE DEF j, m
<1>4. \A e \in Device : /\ a[e] \in Int /\ b[e] \in Int /\ j[e] \in Int
                        /\ m[e] = IF e = d THEN j[e] + 1 ELSE j[e]
  BY <1>1, <1>3 DEF Clock, Counter
<1>5. ASSUME NEW e \in Device PROVE a[e] <= m[e] /\ b[e] <= m[e]
  <2>1. a[e] \in Int /\ b[e] \in Int /\ j[e] \in Int /\ a[e] <= j[e] /\ b[e] <= j[e]
    BY <1>2, <1>4 DEF AtMost
  <2>2. m[e] = IF e = d THEN j[e] + 1 ELSE j[e]
    BY <1>4
  <2> QED BY <2>1, <2>2
<1>6. a[d] < m[d] /\ b[d] < m[d]
  BY <1>2, <1>4 DEF AtMost
<1>7. HappensBefore(a, m) /\ HappensBefore(b, m)
  BY <1>5, <1>6 DEF HappensBefore, AtMost
<1> QED BY <1>7 DEF j, m

-----------------------------------------------------------------------------
(* Lemmas about the data *)

LEMMA EmptyManifestType == EmptyManifest \in ManifestRecord
BY ClockTypes, CounterAssumption
   DEF EmptyManifest, ManifestRecord, Entries, Counter

LEMMA ManifestFields ==
    ASSUME NEW m \in ManifestRecord
    PROVE  /\ m.version \in Counter
           /\ m.clock \in Clock
           /\ \A p \in Path : m.entries[p] \in Entry \cup {NoEntry}
           /\ m.entries \in Entries
BY DEF ManifestRecord, Entries

LEMMA SetEntryType ==
    ASSUME NEW m \in ManifestRecord, NEW p \in Path, NEW e \in Entry \cup {NoEntry}
    PROVE  [m EXCEPT !.entries[p] = e] \in ManifestRecord
BY DEF ManifestRecord, Entries

LEMMA EntryFields ==
    ASSUME NEW e \in Entry
    PROVE  /\ e.blob \in Nat /\ e.content \in Content /\ e.aad \in Counter
           /\ e.clock \in Clock /\ e.modified \in Nat /\ e.deleted \in BOOLEAN
           /\ e.past \in SUBSET Nat
           /\ e # NoEntry
BY NoEntryAssumption DEF Entry

LEMMA SealType ==
    ASSUME TypeOK, NEW p \in Path, NEW c \in Content, NEW aad \in Counter,
           NEW clock \in Clock, NEW time \in Times, NEW past \in SUBSET Nat
    PROVE  Seal(p, c, aad, clock, time, past) \in Entry
<1>1. seals[p] + 1 \in Nat
  BY DEF TypeOK
<1>2. time \in Nat
  BY EngineAssumption
<1> QED BY <1>1, <1>2 DEF Seal, Entry

LEMMA BlobType ==
    ASSUME NEW p \in Path, NEW e \in Entry
    PROVE  BlobOf(p, e) \in Blob
BY EntryFields DEF BlobOf, Blob

LEMMA ScanEntryType ==
    ASSUME TypeOK, NEW d \in Device, NEW p \in Path, NEW time \in Times
    PROVE  ScanEntry(d, p, time) \in Entry \cup {NoEntry}
<1> DEFINE prev == cache[d].entries[p]
           now  == disk[d][p]
<1>1. cache[d] \in ManifestRecord /\ now \in Content \cup {Absent}
  BY DEF TypeOK
<1>2. prev \in Entry \cup {NoEntry} /\ cache[d].clock \in Clock
  BY <1>1, ManifestFields
<1>3. CASE p \notin managed[d] \/ (now = Absent /\ ~IsLive(prev))
  BY <1>2, <1>3 DEF ScanEntry
<1>4. CASE p \in managed[d] /\ now = Absent /\ IsLive(prev)
  <2>1. prev \in Entry
    BY <1>2, <1>4 DEF IsLive
  <2>2. Bump(prev.clock, d) \in Clock
    BY <2>1, EntryFields, ClockTypes
  <2>3. [prev EXCEPT !.deleted = TRUE, !.clock = Bump(@, d)] \in Entry
    BY <2>1, <2>2 DEF Entry
  <2> QED BY <1>4, <2>3 DEF ScanEntry
<1>5. CASE p \in managed[d] /\ now # Absent
  <2>1. now \in Content
    BY <1>1, <1>5
  <2>2. CASE prev = NoEntry
    <3>1. Bump(cache[d].clock, d) \in Clock /\ 1 \in Counter
      BY <1>2, ClockTypes, CounterAssumption DEF Counter
    <3>2. Seal(p, now, 1, Bump(cache[d].clock, d), time, {}) \in Entry
      BY <2>1, <3>1, SealType
    <3> QED BY <1>5, <2>2, <3>2 DEF ScanEntry
  <2>3. CASE prev # NoEntry
    <3>1. prev \in Entry
      BY <1>2, <2>3
    <3>2. SaturatingNext(prev.aad) \in Counter /\ Bump(prev.clock, d) \in Clock
      BY <3>1, EntryFields, ClockTypes, SaturatingNextType
    <3>3. Seal(p, now, SaturatingNext(prev.aad), Bump(prev.clock, d), time, prev.past) \in Entry
      BY <2>1, <3>1, <3>2, EntryFields, SealType
    <3> QED BY <1>5, <2>3, <3>1, <3>3 DEF ScanEntry
  <2> QED BY <2>2, <2>3
<1> QED BY <1>3, <1>4, <1>5

LEMMA OutgoingEntryType ==
    ASSUME TypeOK, NEW d \in Device, NEW p \in Path
    PROVE  OutgoingEntry(d, p) \in Entry \cup {NoEntry}
<1>1. local[d].entries[p] \in Entry \cup {NoEntry} /\ remote[d].entries[p] \in Entry \cup {NoEntry}
  BY ManifestFields DEF TypeOK
<1> QED BY <1>1 DEF OutgoingEntry

LEMMA PushedTypes ==
    ASSUME TypeOK, NEW d \in Device
    PROVE  NextVersion(d) \in Counter /\ AggregateClock(d) \in Clock
<1>1. /\ local[d].version \in Counter /\ remote[d].version \in Counter
      /\ local[d].clock \in Clock /\ remote[d].clock \in Clock
  BY ManifestFields DEF TypeOK
<1>2. NextVersion(d) \in Counter
  BY <1>1, SaturatingNextType DEF NextVersion
<1>3. AggregateClock(d) \in Clock
  BY <1>1, ClockTypes DEF AggregateClock
<1> QED BY <1>2, <1>3

\* Pulls and conflicts have the entries they speak of.
LEMMA TurnEntries ==
    ASSUME TypeOK, NEW d \in Device, NEW p \in Path,
           Op(d, p) \in {"pull_local", "pull_deletion", "conflict"}
    PROVE  /\ remote[d].entries[p] \in Entry
           /\ Op(d, p) = "conflict" => local[d].entries[p] \in Entry
<1> DEFINE l == local[d].entries[p]
           r == remote[d].entries[p]
<1>1. l \in Entry \cup {NoEntry} /\ r \in Entry \cup {NoEntry}
  BY ManifestFields DEF TypeOK
<1>2. l # r
  BY DEF Op, DiffOp
<1>3. r # NoEntry
  BY <1>2 DEF Op, DiffOp
<1>4. ASSUME l = NoEntry PROVE Op(d, p) # "conflict"
  BY <1>2, <1>3, <1>4 DEF Op, DiffOp, PullOf
<1> QED BY <1>1, <1>3, <1>4

-----------------------------------------------------------------------------
(* Type correctness, action by action *)

LEMMA SpendType ==
    ASSUME TypeOK, NEW what \in {"edit", "sync", "fail", "configure"}, Spend(what)
    PROVE  budget' \in [{"edit", "sync", "fail", "configure"} -> Nat]
<1>1. budget[what] \in Nat /\ budget[what] > 0
  BY DEF TypeOK, Spend
<1>2. budget[what] - 1 \in Nat
  BY <1>1
<1> QED BY <1>2 DEF TypeOK, Spend

\* What a run holds in memory is typed when it is over.
LEMMA EndRunType ==
    ASSUME TypeOK, NEW d \in Device, EndRun(d)
    PROVE  /\ pc' \in [Device -> Run]
           /\ local' \in [Device -> ManifestRecord]
           /\ remote' \in [Device -> ManifestRecord]
           /\ seen' \in [Device -> Nat]
           /\ attempt' \in [Device -> 0 .. MaxCasRetries - 1]
           /\ todo' \in [Device -> SUBSET Path]
<1>1. 0 \in 0 .. MaxCasRetries - 1
  BY EngineAssumption
<1> QED BY <1>1, EmptyManifestType DEF TypeOK, EndRun, Run

LEMMA SettleType ==
    ASSUME TypeOK, NEW d \in Device, NEW p \in Path, NEW e \in Entry, Settle(d, p, e)
    PROVE  local' \in [Device -> ManifestRecord] /\ todo' \in [Device -> SUBSET Path]
<1>1. local[d] \in ManifestRecord
  BY DEF TypeOK
<1>2. [local[d] EXCEPT !.entries[p] = e] \in ManifestRecord
  BY <1>1, SetEntryType
<1>3. local' = [local EXCEPT ![d] = [local[d] EXCEPT !.entries[p] = e]]
  BY DEF Settle
<1> QED BY <1>2, <1>3 DEF TypeOK, Settle

LEMMA WriteFileType ==
    ASSUME TypeOK, NEW d \in Device, NEW p \in Path, NEW c \in Content \cup {Absent},
           WriteFile(d, p, c)
    PROVE  disk' \in [Device -> [Path -> Content \cup {Absent}]]
BY DEF TypeOK, WriteFile

LEMMA SidecarType ==
    ASSUME TypeOK, NEW d \in Device, NEW p \in Path, NEW c \in Content,
           sidecar' = [sidecar EXCEPT ![d][p] = c]
    PROVE  sidecar' \in [Device -> [Path -> Content \cup {Absent}]]
BY DEF TypeOK

LEMMA RemoveFileType ==
    ASSUME TypeOK, NEW d \in Device, NEW p \in Path, RemoveFile(d, p)
    PROVE  disk' \in [Device -> [Path -> Content \cup {Absent}]]
BY WriteFileType DEF TypeOK, RemoveFile

LEMMA TypeInit == Init => TypeOK
<1>1. 0 \in 0 .. MaxCasRetries - 1
  BY EngineAssumption
<1> QED BY <1>1, EmptyManifestType, EngineAssumption DEF Init, TypeOK, Run

LEMMA TypeStartSync == ASSUME TypeOK, NEW d \in Device, StartSync(d) PROVE TypeOK'
<1>1. PICK time \in [Path -> Times] :
         LET es == [p \in Path |-> ScanEntry(d, p, time[p])]
         IN  /\ local' = [local EXCEPT ![d] = [cache[d] EXCEPT !.entries = es]]
             /\ seals' = CountSeals(es)
  BY DEF StartSync
<1> DEFINE es == [p \in Path |-> ScanEntry(d, p, time[p])]
<1>2. es \in Entries
  BY ScanEntryType DEF Entries
<1>3. [cache[d] EXCEPT !.entries = es] \in ManifestRecord
  BY <1>2 DEF TypeOK, ManifestRecord
<1>4. seals' \in [Path -> Nat]
  BY <1>1 DEF TypeOK, CountSeals
<1>5. budget' \in [{"edit", "sync", "fail", "configure"} -> Nat]
  BY SpendType DEF StartSync
<1>6. local' \in [Device -> ManifestRecord]
  BY <1>1, <1>3 DEF TypeOK
<1>7. pc' \in [Device -> Run] /\ clean' \in [Device -> SUBSET Path]
  BY DEF TypeOK, StartSync, Run
<1> QED BY <1>4, <1>5, <1>6, <1>7 DEF TypeOK, StartSync, storeVars, deviceVars

LEMMA TypeUploadBlobs == ASSUME TypeOK, NEW d \in Device, UploadBlobs(d) PROVE TypeOK'
<1>1. ASSUME NEW p \in Staged(d) PROVE BlobOf(p, local[d].entries[p]) \in Blob
  <2>1. p \in Path /\ local[d].entries[p] \in Entry
    BY ManifestFields DEF Staged, TypeOK
  <2> QED BY <2>1, BlobType
<1>2. blobs' \subseteq Blob
  BY <1>1 DEF UploadBlobs, TypeOK
<1>3. pc' \in [Device -> Run]
  BY DEF TypeOK, UploadBlobs, Run
<1> QED BY <1>2, <1>3 DEF TypeOK, UploadBlobs, deviceVars

LEMMA TypeListManifest == ASSUME TypeOK, NEW d \in Device, ListManifest(d) PROVE TypeOK'
BY DEF TypeOK, ListManifest, storeVars, deviceVars, Run

LEMMA TypeGetManifest == ASSUME TypeOK, NEW d \in Device, GetManifest(d) PROVE TypeOK'
<1>1. seen' \in [Device -> Nat] /\ remote' \in [Device -> ManifestRecord]
  BY DEF TypeOK, GetManifest
<1>2. todo' \in [Device -> SUBSET Path]
  <2>1. {p \in managed[d] :
            DiffOp(local[d].entries[p], manifest.entries[p]) \in Applied(d)} \in SUBSET Path
    BY DEF TypeOK
  <2> QED BY <2>1 DEF TypeOK, GetManifest
<1>3. pc' \in [Device -> Run]
  BY DEF TypeOK, GetManifest, Run
<1> QED BY <1>1, <1>2, <1>3 DEF TypeOK, GetManifest, storeVars, deviceVars

LEMMA TypePullEntry ==
    ASSUME TypeOK, NEW d \in Device, NEW p \in Path, PullEntry(d, p),
           remote[d].entries[p] \in Entry
    PROVE  /\ disk' \in [Device -> [Path -> Content \cup {Absent}]]
           /\ local' \in [Device -> ManifestRecord]
           /\ todo' \in [Device -> SUBSET Path]
<1> DEFINE r == remote[d].entries[p]
<1>1. WriteFile(d, p, r.content) /\ Settle(d, p, r)
  BY DEF PullEntry
<1>2. r.content \in Content \cup {Absent}
  BY EntryFields
<1> QED BY <1>1, <1>2, WriteFileType, SettleType

LEMMA TypeApplyPull ==
    ASSUME TypeOK, NEW d \in Device, NEW p \in Path, ApplyPull(d, p) PROVE TypeOK'
<1>1. remote[d].entries[p] \in Entry
  BY TurnEntries DEF ApplyPull, Turn
<1>2. PullEntry(d, p)
  BY DEF ApplyPull
<1> QED BY <1>1, <1>2, TypePullEntry DEF TypeOK, ApplyPull, storeVars

LEMMA TypeApplyPullDeletion ==
    ASSUME TypeOK, NEW d \in Device, NEW p \in Path, ApplyPullDeletion(d, p) PROVE TypeOK'
<1>1. remote[d].entries[p] \in Entry
  BY TurnEntries DEF ApplyPullDeletion, Turn
<1>2. local' \in [Device -> ManifestRecord] /\ todo' \in [Device -> SUBSET Path]
  BY <1>1, SettleType DEF ApplyPullDeletion
<1>3. disk' \in [Device -> [Path -> Content \cup {Absent}]]
  BY RemoveFileType DEF ApplyPullDeletion
<1> QED BY <1>2, <1>3 DEF TypeOK, ApplyPullDeletion, storeVars

LEMMA TypeAbortOnConflict ==
    ASSUME TypeOK, NEW d \in Device, NEW p \in Path, AbortOnConflict(d, p) PROVE TypeOK'
BY DEF TypeOK, AbortOnConflict, storeVars, deviceVars, Run

\* The clock, the history and the sides of a conflict that is resolved.
LEMMA ResolvedTypes ==
    ASSUME TypeOK, NEW d \in Device, NEW p \in Path, Turn(d, p, "conflict")
    PROVE  /\ local[d].entries[p] \in Entry
           /\ remote[d].entries[p] \in Entry
           /\ ResolvedClock(d, p) \in Clock
           /\ ResolvedPast(d, p) \in SUBSET Nat
<1>1. local[d].entries[p] \in Entry /\ remote[d].entries[p] \in Entry
  BY TurnEntries DEF Turn
<1>2. ResolvedClock(d, p) \in Clock
  BY <1>1, EntryFields, ClockTypes DEF ResolvedClock
<1>3. ResolvedPast(d, p) \in SUBSET Nat
  BY <1>1, EntryFields DEF ResolvedPast
<1> QED BY <1>1, <1>2, <1>3

LEMMA TypeDeleteOnConflict ==
    ASSUME TypeOK, NEW d \in Device, NEW p \in Path, DeleteOnConflict(d, p) PROVE TypeOK'
<1>1. Turn(d, p, "conflict")
  BY DEF DeleteOnConflict
<1>2. PICK chosen \in Winners(d, p) :
         Settle(d, p, [chosen EXCEPT !.clock = ResolvedClock(d, p),
                                     !.past  = ResolvedPast(d, p)])
  BY DEF DeleteOnConflict
<1>3. chosen \in Entry
  BY <1>1, ResolvedTypes DEF Winners, ChosenEntry
<1>4. [chosen EXCEPT !.clock = ResolvedClock(d, p), !.past = ResolvedPast(d, p)] \in Entry
  BY <1>1, <1>3, ResolvedTypes DEF Entry
<1>5. local' \in [Device -> ManifestRecord] /\ todo' \in [Device -> SUBSET Path]
  BY <1>2, <1>4, SettleType
<1>6. disk' \in [Device -> [Path -> Content \cup {Absent}]]
  BY RemoveFileType DEF DeleteOnConflict
<1> QED BY <1>5, <1>6 DEF TypeOK, DeleteOnConflict, storeVars

LEMMA TypeTakeRemoteOnConflict ==
    ASSUME TypeOK, NEW d \in Device, NEW p \in Path, TakeRemoteOnConflict(d, p) PROVE TypeOK'
<1>1. remote[d].entries[p] \in Entry
  BY ResolvedTypes DEF TakeRemoteOnConflict
<1>2. PullEntry(d, p)
  BY DEF TakeRemoteOnConflict
<1> QED BY <1>1, <1>2, TypePullEntry DEF TypeOK, TakeRemoteOnConflict, storeVars

LEMMA TypeKeepLocalOnConflict ==
    ASSUME TypeOK, NEW d \in Device, NEW p \in Path, KeepLocalOnConflict(d, p) PROVE TypeOK'
<1> DEFINE l == local[d].entries[p]
           r == remote[d].entries[p]
           Sealed(time) == Seal(p, disk[d][p], SaturatingNext(l.aad), ResolvedClock(d, p),
                                time, ResolvedPast(d, p))
<1>1. /\ l \in Entry /\ r \in Entry
      /\ ResolvedClock(d, p) \in Clock /\ ResolvedPast(d, p) \in SUBSET Nat
  BY ResolvedTypes DEF KeepLocalOnConflict
<1>2. PICK time \in Times : /\ blobs' = blobs \cup {BlobOf(p, Sealed(time))}
                            /\ Settle(d, p, Sealed(time))
  BY DEF KeepLocalOnConflict
<1>3. Sealed(time) \in Entry
  <2>1. disk[d][p] \in Content
    BY DEF TypeOK, KeepLocalOnConflict
  <2>2. SaturatingNext(l.aad) \in Counter
    BY <1>1, EntryFields, SaturatingNextType
  <2> QED BY <1>1, <2>1, <2>2, SealType
<1> HIDE DEF Sealed
<1>4. blobs' \subseteq Blob
  BY <1>2, <1>3, BlobType DEF TypeOK
<1>5. local' \in [Device -> ManifestRecord] /\ todo' \in [Device -> SUBSET Path]
  BY <1>2, <1>3, SettleType
<1>6. sidecar' \in [Device -> [Path -> Content \cup {Absent}]]
  <2>1. r.content \in Content
    BY <1>1, EntryFields
  <2>2. sidecar' = [sidecar EXCEPT ![d][p] = r.content] \/ sidecar' = sidecar
    BY DEF KeepLocalOnConflict
  <2>3. CASE sidecar' = sidecar
    BY <2>3 DEF TypeOK
  <2> QED BY <2>1, <2>2, <2>3, SidecarType
<1>7. seals' \in [Path -> Nat]
  BY DEF TypeOK, KeepLocalOnConflict
<1> QED BY <1>4, <1>5, <1>6, <1>7 DEF TypeOK, KeepLocalOnConflict

LEMMA TypePushManifest == ASSUME TypeOK, NEW d \in Device, PushManifest(d) PROVE TypeOK'
<1>1. manifest' \in ManifestRecord
  <2>1. [p \in Path |-> OutgoingEntry(d, p)] \in Entries
    BY OutgoingEntryType DEF Entries
  <2> QED BY <2>1, PushedTypes DEF PushManifest, ManifestRecord
<1>2. local' \in [Device -> ManifestRecord]
  <2>1. [local[d] EXCEPT !.version = NextVersion(d), !.clock = AggregateClock(d)] \in ManifestRecord
    BY PushedTypes DEF TypeOK, ManifestRecord
  <2>2. local' = [local EXCEPT ![d] = [local[d] EXCEPT !.version = NextVersion(d),
                                                       !.clock = AggregateClock(d)]]
    BY DEF PushManifest, TypeOK
  <2> QED BY <2>1, <2>2 DEF TypeOK
<1>3. etag' \in Nat /\ pc' \in [Device -> Run]
  BY DEF TypeOK, PushManifest, Run
<1> QED BY <1>1, <1>2, <1>3 DEF TypeOK, PushManifest, deviceVars

LEMMA TypeRetryPush == ASSUME TypeOK, NEW d \in Device, RetryPush(d) PROVE TypeOK'
<1>1. local' \in [Device -> ManifestRecord]
  <2>1. [local[d] EXCEPT !.clock = AggregateClock(d)] \in ManifestRecord
    BY PushedTypes DEF TypeOK, ManifestRecord
  <2>2. local' = [local EXCEPT ![d] = [local[d] EXCEPT !.clock = AggregateClock(d)]]
    BY DEF RetryPush
  <2> QED BY <2>1, <2>2 DEF TypeOK
<1>2. attempt' \in [Device -> 0 .. MaxCasRetries - 1]
  <2>1. attempt[d] \in 0 .. MaxCasRetries - 1 /\ attempt[d] + 1 < MaxCasRetries
    BY DEF TypeOK, RetryPush, AttemptsLeft
  <2>2. attempt[d] + 1 \in 0 .. MaxCasRetries - 1
    BY <2>1, EngineAssumption
  <2> QED BY <2>2 DEF TypeOK, RetryPush
<1>3. pc' \in [Device -> Run]
  BY DEF TypeOK, RetryPush, Run
<1> QED BY <1>1, <1>2, <1>3 DEF TypeOK, RetryPush, storeVars, deviceVars

LEMMA TypeSaveCache == ASSUME TypeOK, NEW d \in Device, SaveCache(d) PROVE TypeOK'
<1>1. cache' \in [Device -> ManifestRecord]
  BY DEF TypeOK, SaveCache
<1> QED BY <1>1, EndRunType DEF TypeOK, SaveCache, storeVars

\* What a sync that ends early leaves of the sidecars.
LEMMA SidecarLeft ==
    ASSUME TypeOK, NEW d \in Device, UNCHANGED sidecar \/ LeavesSidecar(d)
    PROVE  sidecar' \in [Device -> [Path -> Content \cup {Absent}]]
<1>1. ASSUME NEW p \in todo[d], Turn(d, p, "conflict"),
             sidecar' = [sidecar EXCEPT ![d][p] = remote[d].entries[p].content]
      PROVE  sidecar' \in [Device -> [Path -> Content \cup {Absent}]]
  <2>1. p \in Path
    BY DEF TypeOK
  <2>2. remote[d].entries[p].content \in Content
    BY <1>1, <2>1, ResolvedTypes, EntryFields
  <2> QED BY <1>1, <2>1, <2>2, SidecarType
<1>2. CASE UNCHANGED sidecar
  BY <1>2 DEF TypeOK
<1> QED BY <1>1, <1>2 DEF LeavesSidecar

LEMMA TypeStopSync == ASSUME TypeOK, NEW d \in Device, StopSync(d) PROVE TypeOK'
<1>1. clean' \in [Device -> SUBSET Path]
  BY DEF TypeOK, StopSync
<1>2. sidecar' \in [Device -> [Path -> Content \cup {Absent}]]
  BY SidecarLeft DEF StopSync
<1> QED BY <1>1, <1>2, EndRunType DEF TypeOK, StopSync, storeVars

LEMMA TypeFailSync == ASSUME TypeOK, NEW d \in Device, FailSync(d) PROVE TypeOK'
<1>1. clean' \in [Device -> SUBSET Path]
  BY DEF TypeOK, FailSync
<1>2. budget' \in [{"edit", "sync", "fail", "configure"} -> Nat]
  BY SpendType DEF FailSync
<1>3. sidecar' \in [Device -> [Path -> Content \cup {Absent}]]
  BY SidecarLeft DEF FailSync
<1> QED BY <1>1, <1>2, <1>3, EndRunType DEF TypeOK, FailSync, storeVars

LEMMA TypeEditFile ==
    ASSUME TypeOK, NEW d \in Device, NEW p \in Path, NEW c \in Content \cup {Absent},
           EditFile(d, p, c)
    PROVE  TypeOK'
<1>1. clean' \in [Device -> SUBSET Path]
  BY DEF TypeOK, EditFile
<1>2. budget' \in [{"edit", "sync", "fail", "configure"} -> Nat]
  BY SpendType DEF EditFile
<1>3. disk' \in [Device -> [Path -> Content \cup {Absent}]]
  BY WriteFileType DEF EditFile
<1> QED BY <1>1, <1>2, <1>3 DEF TypeOK, EditFile, storeVars, runVars

LEMMA TypeConfigure ==
    ASSUME TypeOK, NEW d \in Device, NEW p \in Path, Configure(d, p) PROVE TypeOK'
<1>1. clean' \in [Device -> SUBSET Path] /\ managed' \in [Device -> SUBSET Path]
  BY DEF TypeOK, Configure
<1>2. budget' \in [{"edit", "sync", "fail", "configure"} -> Nat]
  BY SpendType DEF Configure
<1> QED BY <1>1, <1>2 DEF TypeOK, Configure, storeVars, runVars

LEMMA TypeRest == ASSUME TypeOK, UNCHANGED vars PROVE TypeOK'
BY DEF TypeOK, vars, storeVars, deviceVars, runVars

LEMMA TypeStep == TypeOK /\ [Next]_vars => TypeOK'
<1> SUFFICES ASSUME TypeOK, [Next]_vars PROVE TypeOK'
  OBVIOUS
<1>1. ASSUME NEW d \in Device, SyncStep(d) PROVE TypeOK'
  BY <1>1, TypeUploadBlobs, TypeListManifest, TypeGetManifest, TypeApplyPull,
     TypeApplyPullDeletion, TypeAbortOnConflict, TypeDeleteOnConflict,
     TypeTakeRemoteOnConflict, TypeKeepLocalOnConflict, TypePushManifest, TypeRetryPush,
     TypeSaveCache, TypeStopSync, Zenon DEF SyncStep
<1>2. ASSUME UNCHANGED vars PROVE TypeOK'
  BY <1>2, TypeRest
<1> QED BY <1>1, <1>2, TypeStartSync, TypeFailSync, TypeEditFile, TypeConfigure, Zenon
        DEF Next, Rest

\* Every variable keeps its type, in every behaviour of the engine.
THEOREM TypeCorrect == Spec => []TypeOK
BY TypeInit, TypeStep, PTL DEF Spec

-----------------------------------------------------------------------------
(* The versioning of the manifest: compare-and-swap, the version computed    *)
(* from both sides and the check of fetched manifests together keep a single *)
(* line of versions, whatever the number of devices and however their syncs  *)
(* interleave and fail.                                                      *)

LEMMA SaturatingNextGrows ==
    ASSUME NEW n \in Counter
    PROVE  SaturatingNext(n) \in Counter /\ n <= SaturatingNext(n)
BY CounterAssumption DEF Counter, SaturatingNext

LEMMA VersionTypes ==
    ASSUME TypeOK
    PROVE  /\ etag \in Nat /\ manifest.version \in Counter
           /\ \A d \in Device : /\ cache[d].version \in Counter
                                /\ local[d].version \in Counter
                                /\ remote[d].version \in Counter
                                /\ seen[d] \in Nat
BY ManifestFields DEF TypeOK

LEMMA EmptyHasNoHistory ==
    /\ EmptyManifest.version = 0
    /\ \A p \in Path : EmptyManifest.entries[p] = NoEntry
BY DEF EmptyManifest

\* A device is in step as long as it and the manifest stay as they are.
LEMMA UntouchedInStep ==
    ASSUME VersionsInStep, NEW e \in Device, UNCHANGED <<etag, manifest>>,
           cache'[e] = cache[e], local'[e].version = local[e].version,
           remote'[e] = remote[e], seen'[e] = seen[e],
           pc'[e] = pc[e]
    PROVE  DeviceInStep(e)'
BY DEF VersionsInStep, DeviceInStep, HasHistory

\* All of a step that puts no manifest, once its device is seen to be in step.
LEMMA QuietStep ==
    ASSUME VersionsInStep, NEW d \in Device, UNCHANGED <<etag, manifest>>,
           \A e \in Device \ {d} : /\ cache'[e] = cache[e] /\ local'[e] = local[e]
                                   /\ remote'[e] = remote[e] /\ seen'[e] = seen[e]
                                   /\ pc'[e] = pc[e],
           DeviceInStep(d)'
    PROVE  VersionsInStep'
<1>1. ASSUME NEW e \in Device PROVE DeviceInStep(e)'
  BY <1>1, UntouchedInStep
<1> QED BY <1>1 DEF VersionsInStep

LEMMA SettleVersion ==
    ASSUME TypeOK, NEW d \in Device, NEW p \in Path, NEW x, Settle(d, p, x)
    PROVE  /\ local'[d].version = local[d].version
           /\ \A e \in Device \ {d} : local'[e] = local[e]
<1>1. local' = [local EXCEPT ![d] = [local[d] EXCEPT !.entries[p] = x]]
  BY DEF Settle
<1>2. [local[d] EXCEPT !.entries[p] = x].version = local[d].version
  BY DEF TypeOK, ManifestRecord
<1> QED BY <1>1, <1>2 DEF TypeOK

\* Applying one path of the diff leaves every version alone.
LEMMA AppliedInStep ==
    ASSUME TypeOK, VersionsInStep, NEW d \in Device, NEW p \in Path, NEW x,
           Settle(d, p, x), UNCHANGED <<etag, manifest, cache, pc, remote, seen>>
    PROVE  VersionsInStep'
<1>1. DeviceInStep(d)'
  BY SettleVersion, UntouchedInStep
<1> QED BY <1>1, SettleVersion, QuietStep

\* The run of a device that ends may leave nothing behind but its cache.
LEMMA EndedInStep ==
    ASSUME TypeOK, VersionsInStep, NEW d \in Device, EndRun(d),
           UNCHANGED <<etag, manifest>>,
           cache' = cache \/ (pc[d] = "save" /\ cache' = [cache EXCEPT ![d] = local[d]])
    PROVE  VersionsInStep'
<1>1. /\ pc'[d] = "idle" /\ local'[d] = EmptyManifest /\ remote'[d] = EmptyManifest
      /\ seen'[d] = 0
  BY DEF EndRun, TypeOK
<1>2. cache'[d].version <= manifest.version
  BY DEF VersionsInStep, DeviceInStep, TypeOK
<1>3. ASSUME etag = 0 PROVE ~HasHistory(d)'
  BY <1>3 DEF VersionsInStep, DeviceInStep, HasHistory
<1>4. DeviceInStep(d)'
  BY <1>1, <1>2, <1>3, VersionTypes, EmptyHasNoHistory, CounterAssumption
     DEF DeviceInStep, Counter
<1> QED BY <1>4, QuietStep DEF EndRun, TypeOK

-----------------------------------------------------------------------------
(* The invariant *)

LEMMA VersionsInit == Init => VersionsInStep
BY EmptyHasNoHistory DEF Init, VersionsInStep, DeviceInStep, HasHistory

LEMMA VersionsStartSync ==
    ASSUME TypeOK, VersionsInStep, NEW d \in Device, StartSync(d) PROVE VersionsInStep'
<1>1. PICK es : local' = [local EXCEPT ![d] = [cache[d] EXCEPT !.entries = es]]
  BY DEF StartSync
<1>2. local'[d].version = cache[d].version /\ \A e \in Device \ {d} : local'[e] = local[e]
  BY <1>1 DEF TypeOK, ManifestRecord
<1>3. DeviceInStep(d)'
  BY <1>2 DEF StartSync, VersionsInStep, DeviceInStep, HasHistory, TypeOK, storeVars, deviceVars
<1> QED BY <1>2, <1>3, QuietStep DEF StartSync, TypeOK, storeVars, deviceVars

LEMMA VersionsUploadBlobs ==
    ASSUME TypeOK, VersionsInStep, NEW d \in Device, UploadBlobs(d) PROVE VersionsInStep'
<1>1. DeviceInStep(d)'
  BY DEF UploadBlobs, VersionsInStep, DeviceInStep, HasHistory, TypeOK, deviceVars
<1> QED BY <1>1, QuietStep DEF UploadBlobs, TypeOK, deviceVars

LEMMA VersionsListManifest ==
    ASSUME TypeOK, VersionsInStep, NEW d \in Device, ListManifest(d) PROVE VersionsInStep'
<1>1. DeviceInStep(d)'
  BY VersionTypes
     DEF ListManifest, VersionsInStep, DeviceInStep, HasHistory, TypeOK, storeVars, deviceVars
<1> QED BY <1>1, QuietStep DEF ListManifest, TypeOK, storeVars, deviceVars

LEMMA VersionsGetManifest ==
    ASSUME TypeOK, VersionsInStep, NEW d \in Device, GetManifest(d) PROVE VersionsInStep'
<1>1. /\ remote'[d] = manifest /\ pc'[d] = "apply"
      /\ seen'[d] = IF etag = 0 THEN 0 ELSE seen[d]
  BY DEF GetManifest, TypeOK
<1>2. DeviceInStep(d)'
  BY <1>1, VersionTypes
     DEF GetManifest, VersionsInStep, DeviceInStep, HasHistory, storeVars, deviceVars
<1> QED BY <1>2, QuietStep DEF GetManifest, TypeOK, storeVars, deviceVars

LEMMA VersionsApply ==
    ASSUME TypeOK, VersionsInStep, NEW d \in Device, NEW p \in Path,
           \/ ApplyPull(d, p)
           \/ ApplyPullDeletion(d, p)
           \/ DeleteOnConflict(d, p)
           \/ TakeRemoteOnConflict(d, p)
           \/ KeepLocalOnConflict(d, p)
    PROVE  VersionsInStep'
<1>1. \E x : Settle(d, p, x)
  BY DEF ApplyPull, ApplyPullDeletion, DeleteOnConflict, TakeRemoteOnConflict,
         KeepLocalOnConflict, PullEntry
<1>2. UNCHANGED <<etag, manifest, cache, pc, remote, seen>>
  BY DEF ApplyPull, ApplyPullDeletion, DeleteOnConflict, TakeRemoteOnConflict,
         KeepLocalOnConflict, storeVars
<1> QED BY <1>1, <1>2, AppliedInStep

\* A conflict needs a remote entry, so the manifest is there when one is aborted.
LEMMA VersionsAbortOnConflict ==
    ASSUME TypeOK, VersionsInStep, NEW d \in Device, NEW p \in Path, AbortOnConflict(d, p)
    PROVE  VersionsInStep'
<1>1. remote[d] # EmptyManifest
  <2>1. remote[d].entries[p] \in Entry
    BY TurnEntries DEF AbortOnConflict, Turn
  <2> QED BY <2>1, EmptyHasNoHistory, NoEntryAssumption
<1>2. DeviceInStep(d)'
  BY <1>1 DEF AbortOnConflict, VersionsInStep, DeviceInStep, HasHistory, TypeOK, storeVars,
              deviceVars
<1> QED BY <1>2, QuietStep DEF AbortOnConflict, TypeOK, storeVars, deviceVars

\* The heart of it: the pushed version is the successor of the published one.
LEMMA PushAdvances ==
    ASSUME TypeOK, VersionsInStep, NEW d \in Device, PushManifest(d)
    PROVE  NextVersion(d) = SaturatingNext(manifest.version)
<1>1. remote[d] = manifest /\ local[d].version <= manifest.version
  BY DEF PushManifest, ReadyToPush, CasHolds, VersionsInStep, DeviceInStep
<1>2. local[d].version \in Counter /\ manifest.version \in Counter
  BY VersionTypes
<1>3. (IF local[d].version < remote[d].version THEN remote[d].version
                                               ELSE local[d].version) = manifest.version
  BY <1>1, <1>2 DEF Counter
<1> QED BY <1>3 DEF NextVersion

LEMMA VersionsPushManifest ==
    ASSUME TypeOK, VersionsInStep, NEW d \in Device, PushManifest(d) PROVE VersionsInStep'
<1>1. /\ manifest'.version = NextVersion(d)
      /\ manifest.version \in Counter /\ manifest'.version \in Counter
      /\ manifest.version <= manifest'.version
  BY PushAdvances, VersionTypes, SaturatingNextGrows DEF PushManifest
<1>2. etag \in Nat /\ etag' = etag + 1
  BY VersionTypes DEF PushManifest
<1>3. local'[d].version = NextVersion(d) /\ \A e \in Device \ {d} : local'[e] = local[e]
  BY DEF PushManifest, TypeOK, ManifestRecord
<1>4. ASSUME NEW e \in Device PROVE DeviceInStep(e)'
  <2>1. /\ cache[e].version <= manifest.version /\ local[e].version <= manifest.version
        /\ seen[e] <= etag
    BY DEF VersionsInStep, DeviceInStep
  <2>2. /\ cache[e].version \in Counter /\ local[e].version \in Counter
        /\ seen[e] \in Nat
    BY VersionTypes
  <2>3. cache'[e] = cache[e] /\ seen'[e] = seen[e]
    BY DEF PushManifest, deviceVars
  <2>4. cache'[e].version <= manifest'.version
    BY <1>1, <2>1, <2>2, <2>3 DEF Counter
  <2>5. local'[e].version <= manifest'.version
    BY <1>1, <1>3, <2>1, <2>2 DEF Counter
  <2>6. etag' # 0 /\ seen'[e] < etag'
    BY <1>2, <2>1, <2>2, <2>3
  <2>7. seen'[e] # etag' /\ seen'[e] <= etag'
    BY <1>2, <2>2, <2>3, <2>6
  <2> QED BY <2>4, <2>5, <2>6, <2>7 DEF DeviceInStep
<1>5. etag' # 0
  BY <1>2
<1> QED BY <1>4, <1>5 DEF VersionsInStep

LEMMA VersionsRetryPush ==
    ASSUME TypeOK, VersionsInStep, NEW d \in Device, RetryPush(d) PROVE VersionsInStep'
<1>1. local' = [local EXCEPT ![d] = [local[d] EXCEPT !.clock = AggregateClock(d)]]
  BY DEF RetryPush
<1>2. local'[d].version = local[d].version /\ \A e \in Device \ {d} : local'[e] = local[e]
  BY <1>1 DEF TypeOK, ManifestRecord
<1>3. DeviceInStep(d)'
  BY <1>2 DEF RetryPush, VersionsInStep, DeviceInStep, HasHistory, TypeOK, storeVars, deviceVars
<1> QED BY <1>2, <1>3, QuietStep DEF RetryPush, TypeOK, storeVars, deviceVars

LEMMA VersionsEnd ==
    ASSUME TypeOK, VersionsInStep, NEW d \in Device,
           SaveCache(d) \/ StopSync(d) \/ FailSync(d)
    PROVE  VersionsInStep'
BY EndedInStep DEF SaveCache, StopSync, FailSync, storeVars, deviceVars

LEMMA VersionsUntouched ==
    ASSUME TypeOK, VersionsInStep, UNCHANGED <<storeVars, cache, runVars>> PROVE VersionsInStep'
<1>1. ASSUME NEW e \in Device PROVE DeviceInStep(e)'
  BY <1>1, UntouchedInStep DEF storeVars, runVars
<1> QED BY <1>1 DEF VersionsInStep, storeVars

LEMMA VersionsStep == TypeOK /\ VersionsInStep /\ [Next]_vars => VersionsInStep'
<1> SUFFICES ASSUME TypeOK, VersionsInStep, [Next]_vars PROVE VersionsInStep'
  OBVIOUS
<1>1. ASSUME NEW d \in Device, SyncStep(d) PROVE VersionsInStep'
  BY <1>1, VersionsUploadBlobs, VersionsListManifest, VersionsGetManifest, VersionsApply,
     VersionsAbortOnConflict, VersionsPushManifest, VersionsRetryPush, VersionsEnd, Zenon
     DEF SyncStep
<1>2. ASSUME UNCHANGED vars PROVE VersionsInStep'
  BY <1>2, VersionsUntouched DEF vars, deviceVars
<1>3. ASSUME NEW d \in Device, NEW p \in Path,
             Configure(d, p) \/ \E c \in Content \cup {Absent} : EditFile(d, p, c)
      PROVE  VersionsInStep'
  BY <1>3, VersionsUntouched DEF Configure, EditFile
<1> QED BY <1>1, <1>2, <1>3, VersionsStartSync, VersionsEnd, Zenon DEF Next, Rest

\* No device ever remembers, or works on, a version the store has not reached,
\* and whoever holds the ETag of the published manifest has merged it.
THEOREM VersionsStayInStep == Spec => []VersionsInStep
<1>1. Init => TypeOK /\ VersionsInStep
  BY TypeInit, VersionsInit
<1>2. TypeOK /\ VersionsInStep /\ [Next]_vars => (TypeOK /\ VersionsInStep)'
  BY TypeStep, VersionsStep
<1> QED BY <1>1, <1>2, PTL DEF Spec

-----------------------------------------------------------------------------
(* What follows from it *)

\* The refusals of fetch_remote_manifest that warn of a store that was reset or
\* rolled back never hit a device of a store that was not.
THEOREM RollbackAlarmIsSound == Spec => []NoSpuriousRollback
<1>1. VersionsInStep => NoSpuriousRollback
  BY DEF VersionsInStep, DeviceInStep, NoSpuriousRollback
<1> QED BY <1>1, VersionsStayInStep, PTL

\* Every manifest that is put is the successor of the one it replaces.
THEOREM VersionsAdvanceByOne == Spec => VersionAdvances
<1>1. ASSUME TypeOK, VersionsInStep, [Next]_vars, etag' # etag
      PROVE  manifest'.version = SaturatingNext(manifest.version)
  <2>1. ASSUME NEW d \in Device, ~PushManifest(d), SyncStep(d) PROVE etag' = etag
    BY <2>1 DEF SyncStep, UploadBlobs, ListManifest, GetManifest, ApplyPull,
       ApplyPullDeletion, AbortOnConflict, DeleteOnConflict, TakeRemoteOnConflict,
       KeepLocalOnConflict, RetryPush, SaveCache, StopSync, storeVars
  <2>2. PICK d \in Device : PushManifest(d)
    BY <1>1, <2>1 DEF Next, StartSync, FailSync, EditFile, Configure, Rest, vars, storeVars
  <2>3. NextVersion(d) = SaturatingNext(manifest.version)
    BY <1>1, <2>2, PushAdvances
  <2>4. manifest'.version = NextVersion(d)
    BY <2>2 DEF PushManifest
  <2> QED BY <2>3, <2>4
<1>2. TypeOK /\ VersionsInStep /\ [Next]_vars =>
         [etag' # etag => manifest'.version = SaturatingNext(manifest.version)]_vars
  BY <1>1
<1> QED BY <1>2, TypeCorrect, VersionsStayInStep, PTL DEF Spec, VersionAdvances

-----------------------------------------------------------------------------
(* What a sync publishes: nothing older than what it replaces, nothing that *)
(* cannot be read, and all of it in a single history of the vault.           *)

\* What the steps of d leave alone: all that other devices hold.
Others(d) ==
    \A e \in Device \ {d} :
        /\ managed'[e] = managed[e] /\ cache'[e] = cache[e] /\ pc'[e] = pc[e]
        /\ local'[e] = local[e] /\ remote'[e] = remote[e] /\ todo'[e] = todo[e]
        /\ attempt'[e] = attempt[e] /\ clean'[e] = clean[e]
        /\ disk'[e] = disk[e]

\* A step of the loop over the diff.
Applies(d, p) ==
    \/ ApplyPull(d, p) \/ ApplyPullDeletion(d, p) \/ DeleteOnConflict(d, p)
    \/ TakeRemoteOnConflict(d, p) \/ KeepLocalOnConflict(d, p)

\* A step that ends a sync.
Ends(d) == SaveCache(d) \/ StopSync(d) \/ FailSync(d)

LEMMA SettledLocal ==
    ASSUME TypeOK, NEW d \in Device, NEW p \in Path, NEW x, Settle(d, p, x)
    PROVE  /\ local'[d].version = local[d].version /\ local'[d].clock = local[d].clock
           /\ local'[d].entries = [local[d].entries EXCEPT ![p] = x]
           /\ todo'[d] = todo[d] \ {p}
           /\ \A e \in Device \ {d} : local'[e] = local[e] /\ todo'[e] = todo[e]
<1>1. local' = [local EXCEPT ![d] = [local[d] EXCEPT !.entries[p] = x]]
  BY DEF Settle
<1>2. local[d] = [version |-> local[d].version, clock |-> local[d].clock,
                  entries |-> local[d].entries]
  BY DEF TypeOK, ManifestRecord
<1>3. [local[d] EXCEPT !.entries[p] = x]
         = [version |-> local[d].version, clock |-> local[d].clock,
            entries |-> [local[d].entries EXCEPT ![p] = x]]
  BY <1>2
<1> QED BY <1>1, <1>3 DEF TypeOK, Settle

LEMMA OthersApply ==
    ASSUME TypeOK, NEW d \in Device, NEW p \in Path, Applies(d, p)
    PROVE  /\ Others(d)
           /\ UNCHANGED <<etag, manifest, cache, managed, pc, remote, seen, attempt>>
<1>1. \E x : Settle(d, p, x)
  BY DEF Applies, ApplyPull, ApplyPullDeletion, DeleteOnConflict, TakeRemoteOnConflict,
         KeepLocalOnConflict, PullEntry
<1>2. UNCHANGED <<etag, manifest, cache, managed, pc, remote, seen, attempt, clean>>
  BY DEF Applies, ApplyPull, ApplyPullDeletion, DeleteOnConflict, TakeRemoteOnConflict,
         KeepLocalOnConflict, storeVars
<1>3. \A e \in Device \ {d} : disk'[e] = disk[e]
  BY DEF Applies, ApplyPull, ApplyPullDeletion, DeleteOnConflict, TakeRemoteOnConflict,
         KeepLocalOnConflict, PullEntry, RemoveFile, WriteFile, TypeOK
<1> QED BY <1>1, <1>2, <1>3, SettledLocal DEF Others

LEMMA OthersEnd == ASSUME TypeOK, NEW d \in Device, Ends(d) PROVE Others(d)
BY DEF Others, Ends, SaveCache, StopSync, FailSync, EndRun, deviceVars, TypeOK

LEMMA OthersUntouched ==
    ASSUME TypeOK, NEW d \in Device,
           \/ StartSync(d) \/ UploadBlobs(d) \/ ListManifest(d) \/ GetManifest(d)
           \/ PushManifest(d) \/ RetryPush(d)
           \/ \E p \in Path : \/ AbortOnConflict(d, p) \/ Configure(d, p)
                              \/ \E c \in Content \cup {Absent} : EditFile(d, p, c)
    PROVE  Others(d)
<1>1. CASE \/ StartSync(d) \/ UploadBlobs(d) \/ ListManifest(d) \/ GetManifest(d)
           \/ PushManifest(d) \/ RetryPush(d)
  BY <1>1 DEF Others, StartSync, UploadBlobs, ListManifest, GetManifest, PushManifest, RetryPush,
              deviceVars, TypeOK
<1>2. ASSUME NEW p \in Path,
             \/ AbortOnConflict(d, p) \/ Configure(d, p)
             \/ \E c \in Content \cup {Absent} : EditFile(d, p, c)
      PROVE  Others(d)
  BY <1>2 DEF Others, AbortOnConflict, Configure, EditFile, WriteFile, deviceVars, runVars, TypeOK
<1> QED BY <1>1, <1>2

-----------------------------------------------------------------------------
(* Every entry that a device may push can be read *)

Readable(m) == \A p \in Path : m.entries[p] # NoEntry => Opens(p, m.entries[p])

\* What d holds can be read; of what its scan sealed, the blob is yet to be put.
DeviceReadable(d) ==
    /\ Readable(cache[d]) /\ Readable(remote[d])
    /\ pc[d] # "upload" => Readable(local[d])
    /\ pc[d] = "upload" => \A p \in Path : local[d].entries[p] # NoEntry =>
                              \/ Opens(p, local[d].entries[p])
                              \/ p \in Staged(d) /\ local[d].entries[p].blob <= seals[p]

\* Why a fetched entry always opens: a device puts the blobs before the manifest
\* that names them, and the store never loses one.
BlobsKnown ==
    /\ \A b \in blobs : b.id <= seals[b.path]
    /\ Readable(manifest)
    /\ \A d \in Device : DeviceReadable(d)

LEMMA EmptyIsReadable == Readable(EmptyManifest)
BY EmptyHasNoHistory DEF Readable

LEMMA BlobsInit == Init => BlobsKnown
BY EmptyIsReadable DEF Init, BlobsKnown, DeviceReadable

\* A manifest that can be read stays readable: no blob is ever removed.
LEMMA ReadableStays ==
    ASSUME NEW m, Readable(m), blobs \subseteq blobs'
    PROVE  \A p \in Path : m.entries[p] # NoEntry => BlobOf(p, m.entries[p]) \in blobs'
BY DEF Readable, Opens

\* All of a step of d, once the store and d itself are seen to be readable.
LEMMA BlobsGrow ==
    ASSUME TypeOK, BlobsKnown, NEW d \in Device, Others(d), blobs \subseteq blobs',
           \A p \in Path : seals'[p] \in Nat /\ seals[p] <= seals'[p],
           \A b \in blobs' : b.id <= seals'[b.path],
           Readable(manifest)', DeviceReadable(d)'
    PROVE  BlobsKnown'
<1>1. ASSUME NEW e \in Device \ {d} PROVE DeviceReadable(e)'
  <2>1. /\ cache'[e] = cache[e] /\ remote'[e] = remote[e] /\ local'[e] = local[e]
        /\ pc'[e] = pc[e]
    BY DEF Others
  <2>2. DeviceReadable(e)
    BY DEF BlobsKnown
  <2>3. Readable(cache[e])' /\ Readable(remote[e])' /\ (pc[e] # "upload" => Readable(local[e])')
    BY <2>1, <2>2, ReadableStays DEF DeviceReadable, Readable, Opens
  <2>4. ASSUME pc[e] = "upload", NEW p \in Path, local[e].entries[p] # NoEntry
        PROVE  \/ Opens(p, local[e].entries[p])'
               \/ p \in Staged(e)' /\ local'[e].entries[p].blob <= seals'[p]
    <3>1. CASE Opens(p, local[e].entries[p])
      BY <2>1, <3>1 DEF Opens
    <3>2. CASE p \in Staged(e) /\ local[e].entries[p].blob <= seals[p]
      <4>1. p \in Staged(e)'
        BY <2>1, <3>2 DEF Staged
      <4>2. local[e].entries[p].blob \in Nat /\ seals[p] \in Nat /\ seals'[p] \in Nat
        BY <2>4, ManifestFields, EntryFields DEF TypeOK
      <4>3. local[e].entries[p].blob <= seals'[p]
        BY <3>2, <4>2
      <4> QED BY <2>1, <4>1, <4>3
    <3> QED BY <2>2, <2>4, <3>1, <3>2 DEF DeviceReadable
  <2> QED BY <2>1, <2>3, <2>4 DEF DeviceReadable
<1> QED BY <1>1 DEF BlobsKnown

\* A step that neither seals nor puts anything.
LEMMA BlobsUntouched ==
    ASSUME TypeOK, BlobsKnown, NEW d \in Device, Others(d), UNCHANGED <<manifest, blobs, seals>>,
           DeviceReadable(d)'
    PROVE  BlobsKnown'
<1>1. \A p \in Path : seals'[p] \in Nat /\ seals[p] <= seals'[p]
  BY DEF TypeOK
<1>2. Readable(manifest)' /\ \A b \in blobs' : b.id <= seals'[b.path]
  BY DEF BlobsKnown, Readable, Opens
<1> QED BY <1>1, <1>2, BlobsGrow

LEMMA EntryTypes ==
    ASSUME TypeOK
    PROVE  \A d \in Device, p \in Path :
              /\ cache[d].entries[p] \in Entry \cup {NoEntry}
              /\ local[d].entries[p] \in Entry \cup {NoEntry}
              /\ remote[d].entries[p] \in Entry \cup {NoEntry}
              /\ manifest.entries[p] \in Entry \cup {NoEntry}
              /\ seals[p] \in Nat
BY ManifestFields DEF TypeOK

\* What a scan may find: what the cache says, a file that is gone, or a new
\* version, which it seals.
ScanKeeps(d, p, e) ==
    /\ e = cache[d].entries[p]
    /\ p \in managed[d] => DiskAgrees(d, p, cache[d].entries[p])

ScanDeletes(d, p, e) ==
    /\ cache[d].entries[p] \in Entry /\ IsLive(cache[d].entries[p])
    /\ disk[d][p] = Absent
    /\ e = [cache[d].entries[p] EXCEPT !.deleted = TRUE, !.clock = Bump(@, d)]

ScanSeals(d, p, e) ==
    /\ disk[d][p] \in Content /\ e \in Entry
    /\ e.blob = seals[p] + 1 /\ e.content = disk[d][p] /\ ~e.deleted

LEMMA ScanCases ==
    ASSUME TypeOK, NEW d \in Device, NEW p \in Path, NEW time \in Times,
           NEW e, e = ScanEntry(d, p, time)
    PROVE  ScanKeeps(d, p, e) \/ ScanDeletes(d, p, e) \/ ScanSeals(d, p, e)
<1> DEFINE prev == cache[d].entries[p]
           now  == disk[d][p]
           Sealed(aad, clock, past) == Seal(p, now, aad, clock, time, past)
<1>1. prev \in Entry \cup {NoEntry} /\ cache[d].clock \in Clock /\ now \in Content \cup {Absent}
  BY EntryTypes, ManifestFields DEF TypeOK
<1>2. ASSUME now \in Content, NEW aad \in Counter, NEW clock \in Clock, NEW past \in SUBSET Nat,
             e = Sealed(aad, clock, past)
      PROVE  ScanSeals(d, p, e)
  <2>1. e \in Entry
    BY <1>2, SealType
  <2>2. e.blob = seals[p] + 1 /\ e.content = now /\ ~e.deleted
    BY <1>2 DEF Seal
  <2> QED BY <1>2, <2>1, <2>2 DEF ScanSeals
<1>3. CASE p \notin managed[d]
  BY <1>3 DEF ScanEntry, ScanKeeps
<1>4. CASE p \in managed[d] /\ now = Absent
  <2>1. CASE IsLive(prev)
    <3>1. prev \in Entry
      BY <1>1, <2>1 DEF IsLive
    <3>2. e = [prev EXCEPT !.deleted = TRUE, !.clock = Bump(@, d)]
      BY <1>4, <2>1 DEF ScanEntry
    <3> QED BY <1>4, <2>1, <3>1, <3>2 DEF ScanDeletes
  <2>2. CASE ~IsLive(prev)
    <3>1. e = prev
      BY <1>4, <2>2 DEF ScanEntry
    <3> QED BY <1>4, <2>2, <3>1 DEF DiskAgrees, ScanKeeps
  <2> QED BY <2>1, <2>2
<1>5. CASE p \in managed[d] /\ now # Absent
  <2>1. now \in Content
    BY <1>1, <1>5
  <2>2. CASE prev = NoEntry
    <3>1. e = Sealed(1, Bump(cache[d].clock, d), {})
      BY <1>5, <2>2 DEF ScanEntry, IsLive
    <3>2. Bump(cache[d].clock, d) \in Clock /\ 1 \in Counter /\ {} \in SUBSET Nat
      BY <1>1, ClockTypes, CounterAssumption DEF Counter
    <3> HIDE DEF Sealed
    <3> QED BY <1>2, <2>1, <3>1, <3>2
  <2>3. CASE IsLive(prev) /\ prev.content = now
    <3>1. e = prev
      BY <1>5, <2>3 DEF ScanEntry, IsLive
    <3> QED BY <2>3, <3>1 DEF DiskAgrees, ScanKeeps
  <2>4. CASE prev # NoEntry /\ ~(IsLive(prev) /\ prev.content = now)
    <3>1. e = Sealed(SaturatingNext(prev.aad), Bump(prev.clock, d), prev.past)
      BY <1>5, <2>4 DEF ScanEntry
    <3>2. prev \in Entry
      BY <1>1, <2>4
    <3>3. /\ Bump(prev.clock, d) \in Clock /\ SaturatingNext(prev.aad) \in Counter
          /\ prev.past \in SUBSET Nat
      BY <3>2, EntryFields, ClockTypes, SaturatingNextType
    <3> HIDE DEF Sealed
    <3> QED BY <1>2, <2>1, <3>1, <3>3
  <2> QED BY <2>2, <2>3, <2>4
<1> QED BY <1>3, <1>4, <1>5

\* What a scan says of a path opens already, or its blob is sealed just now.
LEMMA ScannedEntry ==
    ASSUME TypeOK, BlobsKnown, NEW d \in Device, NEW p \in Path, NEW time \in Times,
           NEW e, e = ScanEntry(d, p, time), e # NoEntry
    PROVE  \/ Opens(p, e) /\ e.blob <= seals[p]
           \/ e.blob = seals[p] + 1
<1> DEFINE prev == cache[d].entries[p]
<1>1. ASSUME prev # NoEntry PROVE Opens(p, prev) /\ prev.blob <= seals[p]
  <2>1. Opens(p, prev)
    BY <1>1 DEF BlobsKnown, DeviceReadable, Readable
  <2>2. BlobOf(p, prev).id = prev.blob /\ BlobOf(p, prev).path = p
    BY DEF BlobOf
  <2> QED BY <2>1, <2>2 DEF Opens, BlobsKnown
<1>2. CASE ScanKeeps(d, p, e)
  BY <1>1, <1>2 DEF ScanKeeps
<1>3. CASE ScanDeletes(d, p, e)
  <2>1. prev \in Entry /\ e.blob = prev.blob /\ BlobOf(p, e) = BlobOf(p, prev)
    BY <1>3 DEF ScanDeletes, BlobOf, Entry
  <2> QED BY <1>1, <2>1, EntryFields DEF Opens
<1>4. CASE ScanSeals(d, p, e)
  BY <1>4 DEF ScanSeals
<1> QED BY <1>2, <1>3, <1>4, ScanCases

LEMMA BlobsStartSync ==
    ASSUME TypeOK, BlobsKnown, NEW d \in Device, StartSync(d) PROVE BlobsKnown'
<1>1. PICK time \in [Path -> Times] :
         LET es == [p \in Path |-> ScanEntry(d, p, time[p])]
         IN  /\ local' = [local EXCEPT ![d] = [cache[d] EXCEPT !.entries = es]]
             /\ seals' = CountSeals(es)
  BY DEF StartSync
<1> DEFINE es == [p \in Path |-> ScanEntry(d, p, time[p])]
<1>2. UNCHANGED <<blobs, manifest, cache, remote>> /\ pc'[d] = "upload"
  BY DEF StartSync, TypeOK, storeVars, deviceVars
<1>3. local'[d].entries = es
  BY <1>1 DEF TypeOK, ManifestRecord
<1>4. ASSUME NEW p \in Path
      PROVE  /\ seals'[p] = IF es[p] # NoEntry /\ es[p].blob = seals[p] + 1
                            THEN seals[p] + 1 ELSE seals[p]
             /\ seals[p] \in Nat /\ seals'[p] \in Nat /\ seals[p] <= seals'[p]
  BY <1>1, EntryTypes DEF CountSeals, NewlySealed
<1>5. ASSUME NEW b \in blobs' PROVE b.id <= seals'[b.path]
  <2>1. b \in blobs /\ b \in Blob /\ b.id <= seals[b.path]
    BY <1>2, <1>5 DEF BlobsKnown, TypeOK
  <2>2. b.path \in Path /\ b.id \in Nat
    BY <2>1 DEF Blob
  <2> QED BY <1>4, <2>1, <2>2
<1>6. Readable(manifest)' /\ Readable(cache[d])' /\ Readable(remote[d])'
  BY <1>2 DEF BlobsKnown, DeviceReadable, Readable, Opens
<1>7. ASSUME NEW p \in Path, es[p] # NoEntry
      PROVE  \/ Opens(p, es[p])
             \/ p \in Staged(d)' /\ es[p].blob <= seals'[p]
  <2> DEFINE e == es[p]
  <2>1. e = ScanEntry(d, p, time[p]) /\ time[p] \in Times
    OBVIOUS
  <2> HIDE DEF e
  <2>2. CASE Opens(p, e)
    BY <2>2 DEF e
  <2>3. CASE e.blob = seals[p] + 1
    <3>1. seals'[p] = e.blob
      BY <1>4, <1>7, <2>3 DEF e
    <3>2. ASSUME cache[d].entries[p] # NoEntry
          PROVE  cache[d].entries[p].blob \in Nat /\ cache[d].entries[p].blob <= seals[p]
      <4> DEFINE c == cache[d].entries[p]
      <4>1. Opens(p, c)
        BY <3>2 DEF BlobsKnown, DeviceReadable, Readable
      <4>2. BlobOf(p, c).id = c.blob /\ BlobOf(p, c).path = p
        BY DEF BlobOf
      <4>3. c.blob \in Nat
        BY <3>2, EntryTypes, EntryFields
      <4> QED BY <4>1, <4>2, <4>3 DEF Opens, BlobsKnown
    <3>3. cache[d].entries[p] = NoEntry \/ cache[d].entries[p].blob # e.blob
      BY <1>4, <2>3, <3>2
    <3>4. p \in Staged(d)'
      BY <1>2, <1>3, <1>7, <3>3 DEF Staged, e
    <3>5. e.blob <= seals'[p]
      BY <1>4, <3>1
    <3> QED BY <3>4, <3>5 DEF e
  <2> QED BY <1>7, <2>1, <2>2, <2>3, ScannedEntry DEF e
<1>8. DeviceReadable(d)'
  <2>1. ASSUME NEW p \in Path, local'[d].entries[p] # NoEntry
        PROVE  \/ Opens(p, local[d].entries[p])'
               \/ p \in Staged(d)' /\ local'[d].entries[p].blob <= seals'[p]
    BY <1>2, <1>3, <1>7, <2>1 DEF Opens
  <2> QED BY <1>2, <1>6, <2>1 DEF DeviceReadable
<1> QED BY <1>2, <1>4, <1>5, <1>6, <1>8, OthersUntouched, BlobsGrow

LEMMA BlobsUploadBlobs ==
    ASSUME TypeOK, BlobsKnown, NEW d \in Device, UploadBlobs(d) PROVE BlobsKnown'
<1>1. /\ blobs' = blobs \cup {BlobOf(p, local[d].entries[p]) : p \in Staged(d)}
      /\ pc[d] = "upload" /\ pc'[d] = "list"
      /\ UNCHANGED <<manifest, cache, local, remote, seals>>
  BY DEF UploadBlobs, TypeOK, deviceVars
<1>2. DeviceReadable(d)
  BY DEF BlobsKnown
<1>3. ASSUME NEW p \in Staged(d)
      PROVE  BlobOf(p, local[d].entries[p]).id <= seals[p]
  <2> DEFINE e == local[d].entries[p]
             b == BlobOf(p, e)
  <2>1. p \in Path /\ e # NoEntry
    BY DEF Staged
  <2>2. b.id = e.blob /\ b.path = p
    BY DEF BlobOf
  <2> QED BY <1>1, <1>2, <2>1, <2>2 DEF BlobsKnown, DeviceReadable, Opens
<1>4. ASSUME NEW b \in blobs' PROVE b.id <= seals'[b.path]
  <2>1. CASE b \in blobs
    BY <1>1, <2>1 DEF BlobsKnown
  <2>2. CASE b \in {BlobOf(p, local[d].entries[p]) : p \in Staged(d)}
    <3>1. PICK p \in Staged(d) : b = BlobOf(p, local[d].entries[p])
      BY <2>2
    <3>2. b.path = p
      BY <3>1 DEF BlobOf
    <3> QED BY <1>1, <1>3, <3>1, <3>2
  <2> QED BY <1>1, <1>4, <2>1, <2>2
<1>5. blobs \subseteq blobs'
  BY <1>1
<1>6. Readable(manifest)' /\ Readable(cache[d])' /\ Readable(remote[d])'
  BY <1>1, <1>5, ReadableStays DEF BlobsKnown, DeviceReadable, Readable, Opens
<1>7. Readable(local[d])'
  <2>1. ASSUME NEW p \in Path, local[d].entries[p] # NoEntry
        PROVE  BlobOf(p, local[d].entries[p]) \in blobs'
    BY <1>1, <1>2, <2>1 DEF DeviceReadable, Opens
  <2> QED BY <1>1, <2>1 DEF Readable, Opens
<1>8. DeviceReadable(d)'
  BY <1>1, <1>6, <1>7 DEF DeviceReadable
<1>9. \A p \in Path : seals'[p] \in Nat /\ seals[p] <= seals'[p]
  BY <1>1, EntryTypes
<1> QED BY <1>4, <1>5, <1>6, <1>8, <1>9, OthersUntouched, BlobsGrow

LEMMA BlobsGetManifest ==
    ASSUME TypeOK, BlobsKnown, NEW d \in Device, GetManifest(d) PROVE BlobsKnown'
<1>1. /\ remote'[d] = manifest /\ pc[d] = "get" /\ pc'[d] = "apply"
      /\ UNCHANGED <<manifest, blobs, cache, local, seals>>
  BY DEF GetManifest, TypeOK, storeVars, deviceVars
<1>2. DeviceReadable(d)'
  BY <1>1 DEF BlobsKnown, DeviceReadable, Readable, Opens
<1> QED BY <1>1, <1>2, OthersUntouched, BlobsUntouched

\* Both sides of a conflict, the entry it settles on and the one a pull takes.
LEMMA BlobsSettle ==
    ASSUME TypeOK, BlobsKnown, NEW d \in Device, NEW p \in Path, NEW x, Settle(d, p, x),
           BlobOf(p, x) \in blobs', blobs \subseteq blobs', Applies(d, p), pc[d] = "apply"
    PROVE  DeviceReadable(d)'
<1>1. UNCHANGED <<etag, manifest, cache, managed, pc, remote, seen, attempt>>
  BY OthersApply
<1>2. local'[d].entries = [local[d].entries EXCEPT ![p] = x]
  BY SettledLocal
<1>3. DeviceReadable(d)
  BY DEF BlobsKnown
<1>4. Readable(cache[d])' /\ Readable(remote[d])'
  BY <1>1, <1>3, ReadableStays DEF DeviceReadable, Readable, Opens
<1>5. ASSUME NEW q \in Path, local'[d].entries[q] # NoEntry
      PROVE  BlobOf(q, local'[d].entries[q]) \in blobs'
  <2>1. local[d].entries \in Entries
    BY ManifestFields DEF TypeOK
  <2>2. local'[d].entries[q] = IF q = p THEN x ELSE local[d].entries[q]
    BY <1>2, <2>1 DEF Entries
  <2>3. CASE q = p
    BY <2>2, <2>3
  <2>4. CASE q # p
    BY <1>3, <1>5, <2>2, <2>4 DEF DeviceReadable, Readable, Opens
  <2> QED BY <2>3, <2>4
<1>6. Readable(local[d])'
  BY <1>5 DEF Readable, Opens
<1> QED BY <1>1, <1>4, <1>6 DEF DeviceReadable

LEMMA BlobsApply ==
    ASSUME TypeOK, BlobsKnown, NEW d \in Device, NEW p \in Path, ~KeepLocalOnConflict(d, p),
           Applies(d, p)
    PROVE  BlobsKnown'
<1> DEFINE l == local[d].entries[p]
           r == remote[d].entries[p]
<1>1. UNCHANGED <<blobs, seals>> /\ pc[d] = "apply"
  BY DEF Applies, ApplyPull, ApplyPullDeletion, DeleteOnConflict, TakeRemoteOnConflict, Turn,
         storeVars
<1>2. DeviceReadable(d)
  BY DEF BlobsKnown
<1>3. Turn(d, p, "pull_local") \/ Turn(d, p, "pull_deletion") \/ Turn(d, p, "conflict")
  BY DEF Applies, ApplyPull, ApplyPullDeletion, DeleteOnConflict, TakeRemoteOnConflict
<1>4. r \in Entry /\ Opens(p, r)
  <2>1. r \in Entry
    BY <1>3, TurnEntries DEF Turn
  <2> QED BY <1>2, <2>1, EntryFields DEF DeviceReadable, Readable
<1>5. PICK x : Settle(d, p, x) /\ BlobOf(p, x) \in blobs
  <2>1. CASE Settle(d, p, r)
    BY <1>4, <2>1 DEF Opens
  <2>2. CASE DeleteOnConflict(d, p)
    <3>1. l \in Entry /\ Opens(p, l)
      <4>1. l \in Entry
        BY <2>2, TurnEntries DEF DeleteOnConflict, Turn
      <4> QED BY <1>1, <1>2, <4>1, EntryFields DEF DeviceReadable, Readable
    <3>2. PICK chosen \in Winners(d, p) :
             Settle(d, p, [chosen EXCEPT !.clock = ResolvedClock(d, p),
                                         !.past  = ResolvedPast(d, p)])
      BY <2>2 DEF DeleteOnConflict
    <3> DEFINE x == [chosen EXCEPT !.clock = ResolvedClock(d, p), !.past = ResolvedPast(d, p)]
    <3>3. chosen \in Entry /\ Opens(p, chosen)
      BY <1>4, <3>1 DEF Winners, ChosenEntry
    <3>4. BlobOf(p, x) = BlobOf(p, chosen)
      BY <3>3 DEF BlobOf, Entry
    <3> QED BY <3>2, <3>3, <3>4 DEF Opens
  <2> QED BY <2>1, <2>2 DEF Applies, ApplyPull, ApplyPullDeletion, TakeRemoteOnConflict,
             PullEntry
<1>6. DeviceReadable(d)'
  BY <1>1, <1>5, BlobsSettle
<1> QED BY <1>1, <1>6, OthersApply, BlobsUntouched

LEMMA BlobsKeepLocalOnConflict ==
    ASSUME TypeOK, BlobsKnown, NEW d \in Device, NEW p \in Path, KeepLocalOnConflict(d, p)
    PROVE  BlobsKnown'
<1> DEFINE Sealed(time) == Seal(p, disk[d][p], SaturatingNext(local[d].entries[p].aad),
                                ResolvedClock(d, p), time, ResolvedPast(d, p))
<1>1. PICK time \in Times : /\ blobs' = blobs \cup {BlobOf(p, Sealed(time))}
                            /\ Settle(d, p, Sealed(time))
  BY DEF KeepLocalOnConflict
<1>2. BlobOf(p, Sealed(time)).path = p /\ BlobOf(p, Sealed(time)).id = seals[p] + 1
  BY DEF Seal, BlobOf
<1> HIDE DEF Sealed
<1>3. seals' = [seals EXCEPT ![p] = @ + 1] /\ pc[d] = "apply" /\ manifest' = manifest
  BY DEF KeepLocalOnConflict, Turn
<1>4. ASSUME NEW q \in Path
      PROVE  /\ seals'[q] = IF q = p THEN seals[q] + 1 ELSE seals[q]
             /\ seals[q] \in Nat /\ seals'[q] \in Nat /\ seals[q] <= seals'[q]
  BY <1>3 DEF TypeOK
<1>5. ASSUME NEW b \in blobs' PROVE b.id <= seals'[b.path]
  <2>1. CASE b \in blobs
    <3>1. b \in Blob /\ b.id <= seals[b.path]
      BY <2>1 DEF BlobsKnown, TypeOK
    <3>2. b.path \in Path /\ b.id \in Nat
      BY <3>1 DEF Blob
    <3> QED BY <1>4, <3>1, <3>2
  <2>2. CASE b = BlobOf(p, Sealed(time))
    BY <1>2, <1>4, <2>2
  <2> QED BY <1>1, <1>5, <2>1, <2>2
<1>6. blobs \subseteq blobs' /\ BlobOf(p, Sealed(time)) \in blobs'
  BY <1>1
<1>7. Applies(d, p)
  BY DEF Applies
<1>8. DeviceReadable(d)'
  BY <1>1, <1>3, <1>6, <1>7, BlobsSettle
<1>9. Readable(manifest)'
  BY <1>3, <1>6, ReadableStays DEF BlobsKnown, Readable, Opens
<1> QED BY <1>4, <1>5, <1>6, <1>7, <1>8, <1>9, OthersApply, BlobsGrow

LEMMA BlobsPushManifest ==
    ASSUME TypeOK, BlobsKnown, NEW d \in Device, PushManifest(d) PROVE BlobsKnown'
<1>1. /\ manifest'.entries = [p \in Path |-> OutgoingEntry(d, p)]
      /\ pc[d] = "apply" /\ pc'[d] = "save"
      /\ local' = [local EXCEPT ![d] = [local[d] EXCEPT !.version = NextVersion(d),
                                                        !.clock   = AggregateClock(d)]]
      /\ UNCHANGED <<blobs, cache, remote, seals>>
  BY DEF PushManifest, ReadyToPush, TypeOK, deviceVars
<1>2. local'[d].entries = local[d].entries
  BY <1>1 DEF TypeOK, ManifestRecord
<1>3. DeviceReadable(d) /\ pc[d] # "upload"
  BY <1>1 DEF BlobsKnown
<1>4. DeviceReadable(d)'
  BY <1>1, <1>2, <1>3 DEF DeviceReadable, Readable, Opens
<1>5. ASSUME NEW p \in Path, OutgoingEntry(d, p) # NoEntry
      PROVE  Opens(p, OutgoingEntry(d, p))
  <2>1. OutgoingEntry(d, p) = local[d].entries[p] \/ OutgoingEntry(d, p) = remote[d].entries[p]
    BY DEF OutgoingEntry
  <2> QED BY <1>3, <1>5, <2>1 DEF DeviceReadable, Readable
<1>6. Readable(manifest)'
  BY <1>1, <1>5 DEF Readable, Opens
<1>7. \A p \in Path : seals'[p] \in Nat /\ seals[p] <= seals'[p]
  BY <1>1, EntryTypes
<1>8. \A b \in blobs' : b.id <= seals'[b.path]
  BY <1>1 DEF BlobsKnown
<1> QED BY <1>1, <1>4, <1>6, <1>7, <1>8, OthersUntouched, BlobsGrow

\* A step of d after which it works on nothing, or on the same entries as before.
LEMMA BlobsQuiet ==
    ASSUME TypeOK, BlobsKnown, NEW d \in Device,
           ListManifest(d) \/ RetryPush(d) \/ Ends(d) \/ \E p \in Path : AbortOnConflict(d, p)
    PROVE  BlobsKnown'
<1>1. UNCHANGED <<manifest, blobs, seals>>
  BY DEF ListManifest, RetryPush, Ends, SaveCache, StopSync, FailSync, AbortOnConflict, storeVars
<1>2. DeviceReadable(d)
  BY DEF BlobsKnown
<1>3. CASE Ends(d)
  <2>1. /\ pc'[d] = "idle" /\ local'[d] = EmptyManifest /\ remote'[d] = EmptyManifest
        /\ cache'[d] = cache[d] \/ (pc[d] = "save" /\ cache'[d] = local[d])
    BY <1>3 DEF Ends, SaveCache, StopSync, FailSync, EndRun, deviceVars, TypeOK
  <2>2. Readable(cache[d])' /\ Readable(remote[d])' /\ Readable(local[d])'
    BY <1>1, <1>2, <2>1, EmptyIsReadable DEF DeviceReadable, Readable, Opens
  <2>3. DeviceReadable(d)'
    BY <2>1, <2>2 DEF DeviceReadable
  <2> QED BY <1>1, <1>3, <2>3, OthersEnd, BlobsUntouched
<1>4. CASE ListManifest(d) \/ RetryPush(d) \/ \E p \in Path : AbortOnConflict(d, p)
  <2>1. /\ pc[d] # "upload" /\ pc'[d] # "upload"
        /\ cache'[d] = cache[d] /\ remote'[d] = remote[d]
        /\ local'[d].entries = local[d].entries
    BY <1>4 DEF ListManifest, RetryPush, AbortOnConflict, ReadyToPush, Turn, deviceVars, TypeOK,
                ManifestRecord
  <2>2. DeviceReadable(d)'
    BY <1>1, <1>2, <2>1 DEF DeviceReadable, Readable, Opens
  <2> QED BY <1>1, <1>4, <2>2, OthersUntouched, BlobsUntouched
<1> QED BY <1>3, <1>4

LEMMA BlobsElsewhere ==
    ASSUME TypeOK, BlobsKnown, UNCHANGED <<storeVars, cache, runVars, seals>> PROVE BlobsKnown'
BY DEF BlobsKnown, DeviceReadable, Readable, Opens, Staged, storeVars, runVars

LEMMA BlobsStep == TypeOK /\ BlobsKnown /\ [Next]_vars => BlobsKnown'
<1> SUFFICES ASSUME TypeOK, BlobsKnown, [Next]_vars PROVE BlobsKnown'
  OBVIOUS
<1>1. ASSUME NEW d \in Device, NEW p \in Path, Applies(d, p) PROVE BlobsKnown'
  BY <1>1, BlobsApply, BlobsKeepLocalOnConflict
<1>2. ASSUME NEW d \in Device, SyncStep(d) PROVE BlobsKnown'
  BY <1>1, <1>2, BlobsUploadBlobs, BlobsGetManifest, BlobsPushManifest, BlobsQuiet, Zenon
     DEF SyncStep, Applies, Ends
<1>3. ASSUME UNCHANGED vars PROVE BlobsKnown'
  BY <1>3, BlobsElsewhere DEF vars, deviceVars
<1>4. ASSUME NEW d \in Device, NEW p \in Path,
             Configure(d, p) \/ \E c \in Content \cup {Absent} : EditFile(d, p, c)
      PROVE  BlobsKnown'
  BY <1>4, BlobsElsewhere DEF Configure, EditFile
<1>5. ASSUME NEW d \in Device, FailSync(d) PROVE BlobsKnown'
  BY <1>5, BlobsQuiet DEF Ends
<1> QED BY <1>2, <1>3, <1>4, <1>5, BlobsStartSync, Zenon DEF Next, Rest

\* What a device can fetch it can read, whatever syncs fail between the upload of
\* a blob and the push of the manifest that names it: every live entry of the
\* published manifest names a blob that is on the store and opens.
THEOREM PublishedIsReadable == Spec => []PublishedBlobsOpen
<1>1. Init => TypeOK /\ BlobsKnown
  BY TypeInit, BlobsInit
<1>2. TypeOK /\ BlobsKnown /\ [Next]_vars => (TypeOK /\ BlobsKnown)'
  BY TypeStep, BlobsStep
<1>3. BlobsKnown => PublishedBlobsOpen
  BY DEF BlobsKnown, Readable, PublishedBlobsOpen, IsLive
<1> QED BY <1>1, <1>2, <1>3, PTL DEF Spec

-----------------------------------------------------------------------------
(* What a device has dealt with when it pushes *)

LEMMA ClockOrder ==
    \A a, b \in Clock :
        /\ AtMost(a, a)
        /\ AtMost(a, b) => ~HappensBefore(b, a)
        /\ HappensBefore(a, b) => AtMost(a, b)
<1>1. \A c \in Clock : \A d \in Device : c[d] \in Int
  BY DEF Clock, Counter
<1>2. ASSUME NEW a \in Clock, NEW b \in Clock, AtMost(a, b) PROVE ~HappensBefore(b, a)
  BY <1>1, <1>2 DEF AtMost, HappensBefore
<1>3. \A a \in Clock : AtMost(a, a)
  BY <1>1 DEF AtMost
<1> QED BY <1>2, <1>3 DEF HappensBefore

\* Bumping a clock and merging it with another never takes anything from it.
LEMMA ResolvedCovers ==
    ASSUME NEW a \in Clock, NEW b \in Clock, NEW d \in Device
    PROVE  AtMost(b, Bump(Merge(a, b), d))
<1> DEFINE j == Merge(a, b)
<1>1. j \in Clock /\ AtMost(b, j)
  BY ClockTypes, MergeIsLeastUpperBound
<1> HIDE DEF j
<1>2. ASSUME NEW e \in Device PROVE b[e] <= Bump(j, d)[e]
  <2>1. b[e] \in Int /\ j[e] \in Counter /\ b[e] <= j[e]
    BY <1>1 DEF AtMost, Clock, Counter
  <2>2. SaturatingNext(j[e]) \in Int /\ j[e] \in Int /\ j[e] <= SaturatingNext(j[e])
    BY <2>1, SaturatingNextType DEF Counter
  <2>3. Bump(j, d)[e] = IF e = d THEN SaturatingNext(j[e]) ELSE j[e]
    BY <1>1 DEF Bump, Clock
  <2> QED BY <2>1, <2>2, <2>3
<1>3. AtMost(b, Bump(j, d))
  BY <1>2 DEF AtMost
<1> QED BY <1>3 DEF j

\* What d now says of p is not older than what it fetched, and in the first
\* attempt of its sync covers it.
Dealt(d, p) ==
    remote[d].entries[p] # NoEntry =>
        /\ local[d].entries[p] # NoEntry
        /\ ~HappensBefore(local[d].entries[p].clock, remote[d].entries[p].clock)
        /\ attempt[d] = 0 => AtMost(remote[d].entries[p].clock, local[d].entries[p].clock)

\* A running sync has touched no path outside its config and keeps the version
\* of its cache until it pushes; what has left its list of things to do is dealt
\* with.
RunInStep(d) ==
    /\ pc[d] # "idle" => \A p \in Path \ managed[d] :
                            local[d].entries[p] = cache[d].entries[p]
    /\ pc[d] \notin {"idle", "save"} => local[d].version = cache[d].version
    /\ pc[d] = "apply" => /\ todo[d] \subseteq managed[d]
                          /\ \A p \in managed[d] \ todo[d] : Dealt(d, p)

RunsInStep == \A d \in Device : RunInStep(d)

LEMMA RunsInit == Init => RunsInStep
BY DEF Init, RunsInStep, RunInStep

LEMMA RunsStep1 ==
    ASSUME RunsInStep, NEW d \in Device, Others(d), RunInStep(d)' PROVE RunsInStep'
BY DEF RunsInStep, RunInStep, Dealt, Others

LEMMA RunsStartSync ==
    ASSUME TypeOK, RunsInStep, NEW d \in Device, StartSync(d) PROVE RunsInStep'
<1>1. PICK time \in [Path -> Times] :
         local' = [local EXCEPT ![d] = [cache[d] EXCEPT
                      !.entries = [p \in Path |-> ScanEntry(d, p, time[p])]]]
  BY DEF StartSync
<1> DEFINE es == [p \in Path |-> ScanEntry(d, p, time[p])]
<1>2. local'[d].entries = es /\ local'[d].version = cache[d].version
  BY <1>1 DEF TypeOK, ManifestRecord
<1>3. \A p \in Path \ managed[d] : es[p] = cache[d].entries[p]
  BY DEF ScanEntry
<1>4. pc'[d] = "upload" /\ managed' = managed /\ cache' = cache
  BY DEF StartSync, TypeOK, deviceVars
<1>5. RunInStep(d)'
  BY <1>2, <1>3, <1>4 DEF RunInStep
<1> QED BY <1>5, OthersUntouched, RunsStep1

\* The cases of the diff exclude each other, as happens-before is asymmetric.
LEMMA DiffOfTwo ==
    ASSUME NEW l \in Entry, NEW r \in Entry, l # r, HappensBefore(l.clock, r.clock)
    PROVE  DiffOp(l, r) = PullOf(r)
<1>1. l # NoEntry /\ r # NoEntry /\ ~HappensBefore(r.clock, l.clock)
  BY EntryFields, HappensBeforeIsStrictOrder
<1> QED BY <1>1 DEF DiffOp

LEMMA RunsGetManifest ==
    ASSUME TypeOK, RunsInStep, NEW d \in Device, GetManifest(d) PROVE RunsInStep'
<1>1. /\ remote'[d] = manifest /\ pc[d] = "get" /\ pc'[d] = "apply"
      /\ todo'[d] = {p \in managed[d] :
                        DiffOp(local[d].entries[p], manifest.entries[p]) \in Applied(d)}
      /\ UNCHANGED <<cache, managed, local, attempt>>
  BY DEF GetManifest, TypeOK, deviceVars
<1>2. ASSUME NEW p \in managed[d] \ todo'[d] PROVE Dealt(d, p)'
  <2> DEFINE l == local[d].entries[p]
             r == manifest.entries[p]
  <2>1. p \in Path /\ DiffOp(l, r) \notin Applied(d)
    BY <1>1, <1>2 DEF TypeOK
  <2> SUFFICES ASSUME r # NoEntry
               PROVE  /\ l # NoEntry /\ ~HappensBefore(l.clock, r.clock)
                      /\ attempt[d] = 0 => AtMost(r.clock, l.clock)
    BY <1>1 DEF Dealt
  <2>2. PullOf(r) \in Applied(d)
    BY DEF PullOf, Applied
  <2>3. l # NoEntry
    BY <2>1, <2>2 DEF DiffOp
  <2>4. l.clock \in Clock /\ r.clock \in Clock
    BY <2>1, <2>3, EntryTypes, EntryFields
  <2>5. CASE l = r
    BY <2>3, <2>4, <2>5, ClockOrder
  <2>6. CASE l # r
    <3>1. ~HappensBefore(l.clock, r.clock)
      <4>1. ASSUME HappensBefore(l.clock, r.clock) PROVE DiffOp(l, r) = PullOf(r)
        BY <2>1, <2>3, <2>6, <4>1, EntryTypes, DiffOfTwo
      <4> QED BY <2>1, <2>2, <4>1
    <3>2. ASSUME attempt[d] = 0 PROVE HappensBefore(r.clock, l.clock)
      BY <2>1, <2>3, <2>6, <3>1, <3>2 DEF DiffOp, Applied
    <3> QED BY <2>3, <2>4, <3>1, <3>2, ClockOrder
  <2> QED BY <2>5, <2>6
<1>3. RunInStep(d)'
  BY <1>1, <1>2 DEF RunsInStep, RunInStep
<1> QED BY <1>3, OthersUntouched, RunsStep1

\* Every step of the loop settles its path on an entry that covers the remote one.
LEMMA SettledCovers ==
    ASSUME TypeOK, NEW d \in Device, NEW p \in Path, Applies(d, p)
    PROVE  \E x \in Entry : /\ Settle(d, p, x)
                            /\ remote[d].entries[p] \in Entry
                            /\ AtMost(remote[d].entries[p].clock, x.clock)
<1> DEFINE l == local[d].entries[p]
           r == remote[d].entries[p]
<1>1. /\ Turn(d, p, "pull_local") \/ Turn(d, p, "pull_deletion") \/ Turn(d, p, "conflict")
  BY DEF Applies, ApplyPull, ApplyPullDeletion, DeleteOnConflict, TakeRemoteOnConflict,
         KeepLocalOnConflict
<1>2. r \in Entry /\ r.clock \in Clock
  BY <1>1, TurnEntries, EntryFields DEF Turn
<1>3. CASE Settle(d, p, r)
  BY <1>2, <1>3, ClockOrder
<1>4. ASSUME Turn(d, p, "conflict")
      PROVE  l \in Entry /\ ResolvedClock(d, p) \in Clock /\ AtMost(r.clock, ResolvedClock(d, p))
             /\ ResolvedPast(d, p) \in SUBSET Nat
  <2>1. l \in Entry /\ ResolvedClock(d, p) \in Clock /\ ResolvedPast(d, p) \in SUBSET Nat
    BY <1>4, ResolvedTypes
  <2> QED BY <1>2, <2>1, EntryFields, ResolvedCovers DEF ResolvedClock
<1>5. CASE DeleteOnConflict(d, p)
  <2>1. PICK chosen \in Winners(d, p) :
           Settle(d, p, [chosen EXCEPT !.clock = ResolvedClock(d, p),
                                       !.past  = ResolvedPast(d, p)])
    BY <1>5 DEF DeleteOnConflict
  <2> DEFINE x == [chosen EXCEPT !.clock = ResolvedClock(d, p), !.past = ResolvedPast(d, p)]
  <2>2. Turn(d, p, "conflict")
    BY <1>5 DEF DeleteOnConflict
  <2>3. chosen \in Entry
    BY <1>2, <1>4, <2>2 DEF Winners, ChosenEntry
  <2>4. x \in Entry /\ x.clock = ResolvedClock(d, p)
    BY <1>4, <2>2, <2>3 DEF Entry
  <2> QED BY <1>2, <1>4, <2>1, <2>2, <2>4
<1>6. CASE KeepLocalOnConflict(d, p)
  <2> DEFINE Sealed(time) == Seal(p, disk[d][p], SaturatingNext(l.aad), ResolvedClock(d, p),
                                  time, ResolvedPast(d, p))
  <2>1. PICK time \in Times : Settle(d, p, Sealed(time))
    BY <1>6 DEF KeepLocalOnConflict
  <2>2. Turn(d, p, "conflict") /\ disk[d][p] \in Content
    BY <1>6 DEF KeepLocalOnConflict, TypeOK
  <2>3. Sealed(time) \in Entry
    BY <1>4, <2>2, EntryFields, SaturatingNextType, SealType
  <2>4. Sealed(time).clock = ResolvedClock(d, p)
    BY DEF Seal
  <2> QED BY <1>2, <1>4, <2>1, <2>2, <2>3, <2>4
<1> QED BY <1>3, <1>5, <1>6 DEF Applies, ApplyPull, ApplyPullDeletion, TakeRemoteOnConflict,
           PullEntry

LEMMA RunsApply ==
    ASSUME TypeOK, RunsInStep, NEW d \in Device, NEW p \in Path, Applies(d, p)
    PROVE  RunsInStep'
<1>1. PICK x \in Entry : /\ Settle(d, p, x)
                         /\ remote[d].entries[p] \in Entry
                         /\ AtMost(remote[d].entries[p].clock, x.clock)
  BY SettledCovers
<1>2. UNCHANGED <<cache, managed, pc, remote, attempt>> /\ Others(d)
  BY OthersApply
<1>3. /\ local'[d].version = local[d].version /\ todo'[d] = todo[d] \ {p}
      /\ local'[d].entries = [local[d].entries EXCEPT ![p] = x]
  BY <1>1, SettledLocal
<1>4. \A q \in Path : local'[d].entries[q] = IF q = p THEN x ELSE local[d].entries[q]
  BY <1>3, ManifestFields DEF TypeOK, Entries
<1>5. pc[d] = "apply" /\ p \in todo[d]
  BY DEF Applies, ApplyPull, ApplyPullDeletion, DeleteOnConflict, TakeRemoteOnConflict,
         KeepLocalOnConflict, Turn
<1>6. RunInStep(d)
  BY DEF RunsInStep
<1>7. ASSUME NEW q \in managed[d] \ todo'[d] PROVE Dealt(d, q)'
  <2>1. q \in Path
    BY DEF TypeOK
  <2>2. CASE q = p
    <3>1. x # NoEntry /\ ~HappensBefore(x.clock, remote[d].entries[p].clock)
      BY <1>1, EntryFields, ClockOrder
    <3> QED BY <1>1, <1>2, <1>4, <2>2, <3>1 DEF Dealt
  <2>3. CASE q # p
    <3>1. Dealt(d, q)
      BY <1>3, <1>5, <1>6, <1>7, <2>3 DEF RunInStep
    <3> QED BY <1>2, <1>4, <2>1, <2>3, <3>1 DEF Dealt
  <2> QED BY <2>2, <2>3
<1>8. RunInStep(d)'
  BY <1>2, <1>3, <1>4, <1>5, <1>6, <1>7 DEF RunInStep
<1> QED BY <1>2, <1>8, RunsStep1

LEMMA RunsEnd ==
    ASSUME TypeOK, RunsInStep, NEW d \in Device, Ends(d) PROVE RunsInStep'
<1>1. pc'[d] = "idle"
  BY DEF Ends, SaveCache, StopSync, FailSync, EndRun, TypeOK
<1> QED BY <1>1, OthersEnd, RunsStep1 DEF RunInStep

\* The steps that change nothing of what d is to do with any path.
LEMMA RunsQuiet ==
    ASSUME TypeOK, RunsInStep, NEW d \in Device,
           \/ UploadBlobs(d) \/ ListManifest(d) \/ PushManifest(d) \/ RetryPush(d)
           \/ \E p \in Path : AbortOnConflict(d, p)
    PROVE  RunsInStep'
<1>1. /\ pc[d] # "idle" /\ pc'[d] \in {"list", "get", "save"}
      /\ UNCHANGED <<cache, managed>>
      /\ local'[d].entries = local[d].entries
      /\ pc[d] # "save" /\ (pc'[d] # "save" => local'[d].version = local[d].version)
  <2>1. CASE UploadBlobs(d) \/ ListManifest(d) \/ \E p \in Path : AbortOnConflict(d, p)
    BY <2>1 DEF UploadBlobs, ListManifest, AbortOnConflict, Turn, deviceVars, TypeOK
  <2>2. CASE PushManifest(d) \/ RetryPush(d)
    <3>1. pc[d] = "apply" /\ UNCHANGED <<cache, managed>>
      BY <2>2 DEF PushManifest, RetryPush, ReadyToPush, deviceVars
    <3>2. (PushManifest(d) /\ pc'[d] = "save") \/ (RetryPush(d) /\ pc'[d] = "list")
      BY <2>2 DEF PushManifest, RetryPush, TypeOK
    <3>3. ASSUME PushManifest(d) PROVE local'[d].entries = local[d].entries
      <4>1. local' = [local EXCEPT ![d] = [local[d] EXCEPT !.version = NextVersion(d),
                                                           !.clock   = AggregateClock(d)]]
        BY <3>3 DEF PushManifest, TypeOK
      <4> QED BY <4>1 DEF TypeOK, ManifestRecord
    <3>4. ASSUME RetryPush(d)
          PROVE  local'[d].entries = local[d].entries /\ local'[d].version = local[d].version
      BY <3>4 DEF RetryPush, TypeOK, ManifestRecord
    <3> QED BY <3>1, <3>2, <3>3, <3>4
  <2> QED BY <2>1, <2>2
<1>2. RunInStep(d)'
  BY <1>1 DEF RunsInStep, RunInStep
<1> QED BY <1>2, OthersUntouched, RunsStep1

LEMMA RunsEdited ==
    ASSUME TypeOK, RunsInStep, NEW d \in Device, NEW p \in Path,
           Configure(d, p) \/ \E c \in Content \cup {Absent} : EditFile(d, p, c)
    PROVE  RunsInStep'
<1>1. CASE Configure(d, p)
  <2>1. pc'[d] = "idle"
    BY <1>1 DEF Configure, runVars
  <2> QED BY <1>1, <2>1, OthersUntouched, RunsStep1 DEF RunInStep
<1>2. CASE \E c \in Content \cup {Absent} : EditFile(d, p, c)
  BY <1>2 DEF EditFile, RunsInStep, RunInStep, Dealt, runVars
<1> QED BY <1>1, <1>2

LEMMA RunsStep == TypeOK /\ RunsInStep /\ [Next]_vars => RunsInStep'
<1> SUFFICES ASSUME TypeOK, RunsInStep, [Next]_vars PROVE RunsInStep'
  OBVIOUS
<1>1. ASSUME NEW d \in Device, SyncStep(d) PROVE RunsInStep'
  BY <1>1, RunsGetManifest, RunsApply, RunsQuiet, RunsEnd, Zenon DEF SyncStep, Applies, Ends
<1>2. ASSUME UNCHANGED vars PROVE RunsInStep'
  BY <1>2 DEF vars, deviceVars, runVars, RunsInStep, RunInStep, Dealt
<1>3. ASSUME NEW d \in Device, FailSync(d) PROVE RunsInStep'
  BY <1>3, RunsEnd DEF Ends
<1> QED BY <1>1, <1>2, <1>3, RunsStartSync, RunsEdited, Zenon DEF Next, Rest

-----------------------------------------------------------------------------
(* What a push puts in place of what is published *)

\* Only a push changes the manifest object.
LEMMA OnlyPushes ==
    ASSUME TypeOK, [Next]_vars, ~\E d \in Device : PushManifest(d)
    PROVE  UNCHANGED <<etag, manifest>>
<1>1. ASSUME NEW d \in Device, NEW p \in Path, Applies(d, p) PROVE UNCHANGED <<etag, manifest>>
  BY <1>1, OthersApply
<1>2. ASSUME NEW d \in Device, NEW p \in Path,
             Configure(d, p) \/ \E c \in Content \cup {Absent} : EditFile(d, p, c)
      PROVE  UNCHANGED <<etag, manifest>>
  BY <1>2 DEF Configure, EditFile, storeVars
<1>3. ASSUME NEW d \in Device, NEW p \in Path, AbortOnConflict(d, p)
      PROVE  UNCHANGED <<etag, manifest>>
  BY <1>3 DEF AbortOnConflict, storeVars
<1>4. ASSUME NEW d \in Device,
             \/ UploadBlobs(d) \/ ListManifest(d) \/ GetManifest(d) \/ RetryPush(d)
             \/ SaveCache(d) \/ StopSync(d) \/ FailSync(d) \/ StartSync(d)
      PROVE  UNCHANGED <<etag, manifest>>
  BY <1>4 DEF UploadBlobs, ListManifest, GetManifest, RetryPush, SaveCache, StopSync, FailSync,
              StartSync, storeVars
<1>5. ASSUME UNCHANGED vars PROVE UNCHANGED <<etag, manifest>>
  BY <1>5 DEF vars, storeVars
<1>6. ASSUME NEW d \in Device, SyncStep(d) PROVE UNCHANGED <<etag, manifest>>
  BY <1>1, <1>3, <1>4, <1>6, Zenon DEF SyncStep, Applies
<1> QED BY <1>2, <1>4, <1>5, <1>6, Zenon DEF Next, Rest

\* The device of Pushes is the one that puts the manifest.
LEMMA PusherIsUnique ==
    ASSUME TypeOK, [Next]_vars, NEW d \in Device, Pushes(d) PROVE PushManifest(d)
<1>1. PICK e \in Device : PushManifest(e)
  BY OnlyPushes DEF Pushes
<1>2. \A f \in Device \ {e} : pc'[f] = pc[f]
  BY <1>1 DEF PushManifest, TypeOK
<1> QED BY <1>1, <1>2 DEF Pushes

\* The manifest a device replaces is the very one it has merged.
LEMMA PushReplacesRemote ==
    ASSUME VersionsInStep, NEW d \in Device, PushManifest(d)
    PROVE  /\ remote[d] = manifest /\ todo[d] = {} /\ pc[d] = "apply"
           /\ manifest'.entries = [p \in Path |-> OutgoingEntry(d, p)]
BY DEF PushManifest, ReadyToPush, CasHolds, VersionsInStep, DeviceInStep

LEMMA LatestWinsTakesNewer ==
    ASSUME NEW l \in Entry, NEW r \in Entry, HappensBefore(l.clock, r.clock)
    PROVE  LatestWinsChoice(l, r) = "keep_remote"
<1>1. l.clock # r.clock /\ ~HappensBefore(r.clock, l.clock)
  BY EntryFields, HappensBeforeIsStrictOrder
<1>2. CompareClocks(l.clock, r.clock) = "less"
  BY <1>1 DEF CompareClocks
<1> QED BY <1>2 DEF LatestWinsChoice

\* A path outside the config keeps the entry that is not older than the other.
LEMMA UnmanagedOutgoing ==
    ASSUME TypeOK, NEW d \in Device, NEW p \in Path \ managed[d],
           remote[d].entries[p] # NoEntry
    PROVE  /\ OutgoingEntry(d, p) \in Entry
           /\ ~HappensBefore(OutgoingEntry(d, p).clock, remote[d].entries[p].clock)
           /\ local[d].entries[p] = NoEntry => OutgoingEntry(d, p) = remote[d].entries[p]
<1> DEFINE l == local[d].entries[p]
           r == remote[d].entries[p]
<1>1. r \in Entry /\ l \in Entry \cup {NoEntry} /\ r.clock \in Clock
  BY EntryTypes, EntryFields
<1>2. ~HappensBefore(r.clock, r.clock)
  BY <1>1, HappensBeforeIsStrictOrder
<1>3. CASE l = NoEntry
  <2>1. OutgoingEntry(d, p) = r
    BY <1>1, <1>3 DEF OutgoingEntry
  <2> QED BY <1>1, <1>2, <2>1
<1>4. CASE l # NoEntry
  <2>1. l \in Entry
    BY <1>1, <1>4
  <2>2. OutgoingEntry(d, p) = l \/ OutgoingEntry(d, p) = r
    BY DEF OutgoingEntry
  <2>3. ASSUME HappensBefore(l.clock, r.clock) PROVE OutgoingEntry(d, p) = r
    <3>1. ChosenEntry(LatestWinsChoice(l, r), l, r) = r
      BY <1>1, <2>1, <2>3, LatestWinsTakesNewer DEF ChosenEntry
    <3> QED BY <1>4, <3>1 DEF OutgoingEntry
  <2> QED BY <1>1, <1>2, <1>4, <2>1, <2>2, <2>3
<1> QED BY <1>3, <1>4

LEMMA ManagedOutgoing ==
    ASSUME RunsInStep, NEW d \in Device, NEW p \in managed[d], pc[d] = "apply", todo[d] = {}
    PROVE  OutgoingEntry(d, p) = local[d].entries[p] /\ Dealt(d, p)
BY DEF OutgoingEntry, RunsInStep, RunInStep

\* No path that was once published is forgotten, and none is set back.
LEMMA PushNeverSetsBack ==
    ASSUME TypeOK, VersionsInStep, RunsInStep, NEW d \in Device, PushManifest(d),
           NEW p \in Path, manifest.entries[p] # NoEntry
    PROVE  /\ manifest'.entries[p] # NoEntry
           /\ ~HappensBefore(manifest'.entries[p].clock, manifest.entries[p].clock)
<1>1. /\ remote[d] = manifest /\ todo[d] = {} /\ pc[d] = "apply"
      /\ manifest'.entries[p] = OutgoingEntry(d, p)
  BY PushReplacesRemote
<1>2. CASE p \in managed[d]
  BY <1>1, <1>2, ManagedOutgoing DEF Dealt
<1>3. CASE p \notin managed[d]
  BY <1>1, <1>3, UnmanagedOutgoing, EntryFields
<1> QED BY <1>2, <1>3

\* What every behaviour of the engine keeps.
InStep == TypeOK /\ VersionsInStep /\ RunsInStep

LEMMA AlwaysInStep == Spec => []InStep
<1>1. Init => InStep
  BY TypeInit, VersionsInit, RunsInit DEF InStep
<1>2. InStep /\ [Next]_vars => InStep'
  BY TypeStep, VersionsStep, RunsStep DEF InStep
<1> QED BY <1>1, <1>2, PTL DEF Spec

\* Whatever races a sync loses before it pushes, what it puts in place of a
\* published entry is never older than that entry, and no path is dropped.
THEOREM PushesNothingOlder == Spec => NeverPublishesOlder
<1>1. ASSUME InStep, [Next]_vars, NEW d \in Device, Pushes(d),
             NEW p \in Path, manifest.entries[p] # NoEntry
      PROVE  /\ manifest'.entries[p] # NoEntry
             /\ ~HappensBefore(manifest'.entries[p].clock, manifest.entries[p].clock)
  BY <1>1, PusherIsUnique, PushNeverSetsBack DEF InStep
<1>2. InStep /\ [Next]_vars =>
         [\A d \in Device : Pushes(d) =>
             \A p \in Path : manifest.entries[p] # NoEntry =>
                 /\ manifest'.entries[p] # NoEntry
                 /\ ~HappensBefore(manifest'.entries[p].clock, manifest.entries[p].clock)]_vars
  BY <1>1
<1> QED BY <1>2, AlwaysInStep, PTL DEF Spec, NeverPublishesOlder

\* The first attempt of a sync replaces a published entry of a managed path only
\* by one that covers it, whatever the policy and the resolver's answers.
THEOREM FirstAttemptCovers == Spec => FirstPushCovers
<1>1. ASSUME InStep, [Next]_vars, NEW d \in Device, Pushes(d), attempt[d] = 0,
             NEW p \in managed[d], manifest.entries[p] # NoEntry
      PROVE  AtMost(manifest.entries[p].clock, manifest'.entries[p].clock)
  <2>1. PushManifest(d) /\ p \in Path
    BY <1>1, PusherIsUnique DEF InStep, TypeOK
  <2>2. /\ remote[d] = manifest /\ todo[d] = {} /\ pc[d] = "apply"
        /\ manifest'.entries[p] = OutgoingEntry(d, p)
    BY <1>1, <2>1, PushReplacesRemote DEF InStep
  <2> QED BY <1>1, <2>2, ManagedOutgoing DEF InStep, Dealt
<1>2. InStep /\ [Next]_vars =>
         [\A d \in Device : Pushes(d) /\ attempt[d] = 0 =>
             \A p \in managed[d] : manifest.entries[p] # NoEntry =>
                 AtMost(manifest.entries[p].clock, manifest'.entries[p].clock)]_vars
  BY <1>1
<1> QED BY <1>2, AlwaysInStep, PTL DEF Spec, FirstPushCovers

\* A push passes on what the device has no part in, exactly as it found it.
THEOREM PassesOnUnmanaged == Spec => UnmanagedPassedOn
<1>1. ASSUME InStep, [Next]_vars, NEW d \in Device, Pushes(d), NEW p \in Path \ managed[d],
             cache[d].entries[p] = NoEntry, manifest.entries[p] # NoEntry
      PROVE  manifest'.entries[p] = manifest.entries[p]
  <2>1. PushManifest(d)
    BY <1>1, PusherIsUnique DEF InStep
  <2>2. remote[d] = manifest /\ pc[d] = "apply" /\ manifest'.entries[p] = OutgoingEntry(d, p)
    BY <1>1, <2>1, PushReplacesRemote DEF InStep
  <2>3. local[d].entries[p] = NoEntry
    BY <1>1, <2>2 DEF InStep, RunsInStep, RunInStep
  <2> QED BY <1>1, <2>2, <2>3, UnmanagedOutgoing DEF InStep
<1>2. InStep /\ [Next]_vars =>
         [\A d \in Device : Pushes(d) =>
             \A p \in Path \ managed[d] :
                 cache[d].entries[p] = NoEntry /\ manifest.entries[p] # NoEntry =>
                     manifest'.entries[p] = manifest.entries[p]]_vars
  BY <1>1
<1> QED BY <1>2, AlwaysInStep, PTL DEF Spec, UnmanagedPassedOn

-----------------------------------------------------------------------------
(* The engine implements the vault *)

\* The version d will remember when its sync has ended.
Pending(d) == IF pc[d] = "save" THEN local[d].version ELSE -1

LEMMA VaultInitially == Init => V!VaultInit
<1> SUFFICES ASSUME Init PROVE V!VaultInit
  OBVIOUS
<1>1. manifest.version = 0 /\ {p \in Path : manifest.entries[p] # NoEntry} = {}
  BY EmptyHasNoHistory DEF Init
<1>2. [d \in Device |-> cache[d].version] = [d \in Device |-> 0]
  BY EmptyHasNoHistory DEF Init
<1>3. [d \in Device |-> IF pc[d] = "save" THEN local[d].version ELSE -1] = [d \in Device |-> -1]
  BY DEF Init
<1> QED BY <1>1, <1>2, <1>3 DEF V!VaultInit, V!Nothing

\* Nobody outside the engine can tell a step that publishes and saves nothing.
LEMMA VaultQuiet ==
    ASSUME UNCHANGED <<manifest, cache>>, \A e \in Device : Pending(e)' = Pending(e)
    PROVE  UNCHANGED V!vaultVars
<1>1. \A e \in Device : (IF pc'[e] = "save" THEN local'[e].version ELSE -1)
                           = IF pc[e] = "save" THEN local[e].version ELSE -1
  BY DEF Pending
<1>2. [d \in Device |-> IF pc'[d] = "save" THEN local'[d].version ELSE -1]
         = [d \in Device |-> IF pc[d] = "save" THEN local[d].version ELSE -1]
  BY <1>1
<1> QED BY <1>2 DEF V!vaultVars

\* The steps that change what d has pending and nothing else of the vault.
LEMMA PendingAlone ==
    ASSUME NEW d \in Device, NEW v, Others(d), Pending(d)' = v
    PROVE  [e \in Device |-> IF pc'[e] = "save" THEN local'[e].version ELSE -1]
              = [[e \in Device |-> IF pc[e] = "save" THEN local[e].version ELSE -1]
                    EXCEPT ![d] = v]
<1>1. \A e \in Device : (IF pc'[e] = "save" THEN local'[e].version ELSE -1)
                = IF e = d THEN v ELSE IF pc[e] = "save" THEN local[e].version ELSE -1
  BY DEF Pending, Others
<1> QED BY <1>1

LEMMA VaultPush ==
    ASSUME InStep, NEW d \in Device, PushManifest(d) PROVE V!Publish(d)
<1>1. /\ pc[d] = "apply" /\ pc'[d] = "save" /\ cache' = cache
      /\ manifest'.version = NextVersion(d) /\ local'[d].version = NextVersion(d)
  <2>1. local' = [local EXCEPT ![d] = [local[d] EXCEPT !.version = NextVersion(d),
                                                       !.clock   = AggregateClock(d)]]
    BY DEF PushManifest, InStep, TypeOK
  <2>2. local'[d].version = NextVersion(d)
    BY <2>1 DEF InStep, TypeOK, ManifestRecord
  <2> QED BY <2>2 DEF PushManifest, ReadyToPush, InStep, TypeOK, deviceVars
<1>2. manifest'.version = V!SaturatingNext(manifest.version)
  BY <1>1, PushAdvances DEF InStep, V!SaturatingNext, SaturatingNext
<1>3. {p \in Path : manifest.entries[p] # NoEntry}
         \subseteq {p \in Path : manifest'.entries[p] # NoEntry}
  BY PushNeverSetsBack DEF InStep
<1>4. Pending(d)' = manifest'.version
  BY <1>1 DEF Pending
<1>5. Others(d)
  BY OthersUntouched DEF InStep
<1>6. [e \in Device |-> IF pc'[e] = "save" THEN local'[e].version ELSE -1]
         = [[e \in Device |-> IF pc[e] = "save" THEN local[e].version ELSE -1]
               EXCEPT ![d] = manifest'.version]
  BY <1>4, <1>5, PendingAlone
<1> QED BY <1>1, <1>2, <1>3, <1>6 DEF V!Publish, V!Nothing

LEMMA VaultAbort ==
    ASSUME InStep, NEW d \in Device, NEW p \in Path, AbortOnConflict(d, p) PROVE V!Reaffirm(d)
<1>1. /\ pc[d] = "apply" /\ pc'[d] = "save" /\ UNCHANGED <<manifest, cache, local>>
  BY DEF AbortOnConflict, Turn, InStep, TypeOK, storeVars, deviceVars
<1>2. Pending(d)' = cache[d].version
  BY <1>1 DEF Pending, InStep, RunsInStep, RunInStep
<1>3. [e \in Device |-> IF pc'[e] = "save" THEN local'[e].version ELSE -1]
         = [[e \in Device |-> IF pc[e] = "save" THEN local[e].version ELSE -1]
               EXCEPT ![d] = cache[d].version]
  BY <1>2, OthersUntouched, PendingAlone DEF InStep
<1> QED BY <1>1, <1>3 DEF V!Reaffirm, V!Nothing

\* A sync that ends once it has published is remembered, or forgotten.
LEMMA VaultEnd ==
    ASSUME InStep, NEW d \in Device, Ends(d)
    PROVE  V!Remember(d) \/ V!Forget(d) \/ UNCHANGED V!vaultVars
<1>1. /\ pc'[d] = "idle" /\ manifest' = manifest /\ Pending(d)' = -1
      /\ cache' = cache \/ SaveCache(d)
  BY DEF Ends, SaveCache, StopSync, FailSync, EndRun, InStep, TypeOK, storeVars, deviceVars,
         Pending
<1>2. Others(d)
  BY OthersEnd DEF InStep
<1>3. [e \in Device |-> IF pc'[e] = "save" THEN local'[e].version ELSE -1]
         = [[e \in Device |-> IF pc[e] = "save" THEN local[e].version ELSE -1] EXCEPT ![d] = -1]
  BY <1>1, <1>2, PendingAlone
<1>4. local[d].version # -1
  BY VersionTypes DEF InStep, Counter
<1>5. CASE SaveCache(d)
  <2>1. pc[d] = "save" /\ cache' = [cache EXCEPT ![d] = local[d]]
    BY <1>5 DEF SaveCache
  <2>2. [e \in Device |-> cache'[e].version]
           = [[e \in Device |-> cache[e].version] EXCEPT ![d] = local[d].version]
    BY <2>1 DEF InStep, TypeOK
  <2>3. V!Remember(d)
    BY <1>1, <1>3, <1>4, <2>1, <2>2 DEF V!Remember, V!Nothing
  <2> QED BY <2>3
<1>6. CASE ~SaveCache(d) /\ pc[d] = "save"
  <2>1. V!Forget(d)
    BY <1>1, <1>3, <1>4, <1>6 DEF V!Forget, V!Nothing
  <2> QED BY <2>1
<1>7. CASE ~SaveCache(d) /\ pc[d] # "save"
  <2>1. \A e \in Device : Pending(e)' = Pending(e)
    BY <1>1, <1>2, <1>7 DEF Others, Pending
  <2> QED BY <1>1, <1>7, <2>1, VaultQuiet
<1> QED BY <1>5, <1>6, <1>7

LEMMA VaultStutter ==
    ASSUME InStep, NEW d \in Device,
           \/ StartSync(d) \/ UploadBlobs(d) \/ ListManifest(d) \/ GetManifest(d) \/ RetryPush(d)
           \/ \E p \in Path : \/ Applies(d, p) \/ Configure(d, p)
                              \/ \E c \in Content \cup {Absent} : EditFile(d, p, c)
    PROVE  UNCHANGED V!vaultVars
<1>1. CASE \/ StartSync(d) \/ UploadBlobs(d) \/ ListManifest(d) \/ GetManifest(d) \/ RetryPush(d)
  <2>1. UNCHANGED <<manifest, cache>> /\ pc[d] # "save" /\ pc'[d] # "save"
    BY <1>1 DEF StartSync, UploadBlobs, ListManifest, GetManifest, RetryPush, ReadyToPush, InStep,
                TypeOK, storeVars, deviceVars
  <2>2. \A e \in Device : Pending(e)' = Pending(e)
    BY <1>1, <2>1, OthersUntouched DEF InStep, Others, Pending
  <2> QED BY <2>1, <2>2, VaultQuiet
<1>2. ASSUME NEW p \in Path, Applies(d, p) PROVE UNCHANGED V!vaultVars
  <2>1. pc[d] = "apply"
    BY <1>2 DEF Applies, ApplyPull, ApplyPullDeletion, DeleteOnConflict, TakeRemoteOnConflict,
                KeepLocalOnConflict, Turn
  <2>2. UNCHANGED <<manifest, cache, pc>> /\ Others(d)
    BY <1>2, OthersApply DEF InStep
  <2>3. \A e \in Device : Pending(e)' = Pending(e)
    BY <2>1, <2>2 DEF Others, Pending
  <2> QED BY <2>2, <2>3, VaultQuiet
<1>3. ASSUME NEW p \in Path, Configure(d, p) \/ \E c \in Content \cup {Absent} : EditFile(d, p, c)
      PROVE  UNCHANGED V!vaultVars
  <2>1. UNCHANGED <<manifest, cache, pc, local>>
    BY <1>3 DEF Configure, EditFile, storeVars, runVars
  <2> QED BY <2>1, VaultQuiet DEF Pending
<1> QED BY <1>1, <1>2, <1>3

LEMMA VaultStep == InStep /\ [Next]_vars => [V!VaultNext]_V!vaultVars
<1> SUFFICES ASSUME InStep, [Next]_vars PROVE V!VaultNext \/ UNCHANGED V!vaultVars
  OBVIOUS
<1>1. ASSUME NEW d \in Device,
             V!Publish(d) \/ V!Reaffirm(d) \/ V!Remember(d) \/ V!Forget(d)
      PROVE  V!VaultNext
  BY <1>1 DEF V!VaultNext
<1>2. ASSUME NEW d \in Device, SyncStep(d) PROVE V!VaultNext \/ UNCHANGED V!vaultVars
  BY <1>1, <1>2, VaultPush, VaultAbort, VaultEnd, VaultStutter, Zenon DEF SyncStep, Applies, Ends
<1>3. ASSUME NEW d \in Device, FailSync(d) PROVE V!VaultNext \/ UNCHANGED V!vaultVars
  BY <1>1, <1>3, VaultEnd DEF Ends
<1>4. ASSUME UNCHANGED vars PROVE UNCHANGED V!vaultVars
  BY <1>4, VaultQuiet DEF vars, storeVars, deviceVars, runVars, Pending
<1> QED BY <1>2, <1>3, <1>4, VaultStutter, Zenon DEF Next, Rest

\* Compare-and-swap, retries, aborts and failures add up to one history of the
\* vault: every behaviour of the engine is one of Vault, where a push appends a
\* version, no published path is ever dropped and a device remembers only what a
\* sync of its own published.
THEOREM EngineImplementsVault == Spec => ImplementsVault
BY VaultInitially, VaultStep, AlwaysInStep, PTL DEF Spec, ImplementsVault, V!VaultSpec

-----------------------------------------------------------------------------
(* What is on disk *)

\* Every entry that something in the system says of p.
Says(p, e) ==
    /\ e # NoEntry
    /\ \/ e = manifest.entries[p]
       \/ \E d \in Device : \/ e = cache[d].entries[p] \/ e = local[d].entries[p]
                            \/ e = remote[d].entries[p]

\* e is live and f deletes the version that e is: f is the causally later one.
\* Two live entries of one version are that version, under one clock.
Kin(e, f) ==
    e.blob = f.blob /\ ~e.deleted =>
        IF f.deleted THEN HappensBefore(e.clock, f.clock) ELSE e.clock = f.clock

\* A blob stands for one version of its path: whatever is said of that version
\* orders its deletion after it.
VersionsHaveKin ==
    \A p \in Path : /\ \A e : Says(p, e) => e.blob <= seals[p]
                    /\ \A e, f : Says(p, e) /\ Says(p, f) => Kin(e, f)

\* No counter of a version that may be deleted next is at the limit of a u64.
BelowLimit ==
    \A d \in Device, p \in Path : cache[d].entries[p] # NoEntry =>
        cache[d].entries[p].clock[d] < U64Max

LEMMA SaysTyped == ASSUME TypeOK, NEW p \in Path, NEW e, Says(p, e) PROVE e \in Entry
<1>1. CASE e = manifest.entries[p]
  BY <1>1, EntryTypes DEF Says, TypeOK, ManifestRecord, Entries
<1>2. CASE \E d \in Device : \/ e = cache[d].entries[p] \/ e = local[d].entries[p]
                              \/ e = remote[d].entries[p]
  BY <1>2, EntryTypes DEF Says
<1> QED BY <1>1, <1>2 DEF Says

Told(p, e) == e = NoEntry \/ Says(p, e)

\* A step that seals x for p, or makes of a known version g its deletion x.
Sealed(p, x) == x.blob = seals[p] + 1 /\ seals'[p] = seals[p] + 1

Deletes(p, x) ==
    \E g : /\ Says(p, g) /\ x.blob = g.blob /\ x.deleted
           /\ IF g.deleted THEN AtMost(g.clock, x.clock) ELSE HappensBefore(g.clock, x.clock)

LEMMA BeforeAtMost ==
    ASSUME NEW a \in Clock, NEW b \in Clock, NEW c \in Clock, HappensBefore(a, b), AtMost(b, c)
    PROVE  HappensBefore(a, c)
<1>1. ASSUME NEW e \in Device
      PROVE  a[e] \in Int /\ b[e] \in Int /\ c[e] \in Int /\ a[e] <= b[e] /\ b[e] <= c[e]
  BY DEF HappensBefore, AtMost, Clock, Counter
<1>2. PICK e \in Device : a[e] < b[e]
  BY DEF HappensBefore
<1>3. a[e] < c[e]
  BY <1>1, <1>2
<1>4. ASSUME NEW f \in Device PROVE a[f] <= c[f]
  BY <1>1
<1> QED BY <1>3, <1>4 DEF HappensBefore, AtMost

\* All of a step of d that says at most one thing that is new of every path.
LEMMA KinGrow ==
    ASSUME TypeOK, TypeOK', VersionsHaveKin, NEW d \in Device, Others(d),
           \A p \in Path : seals[p] <= seals'[p],
           \A p \in Path : /\ Told(p, manifest'.entries[p])
                           /\ Told(p, cache'[d].entries[p])
                           /\ Told(p, remote'[d].entries[p])
                           /\ \/ Told(p, local'[d].entries[p])
                              \/ Sealed(p, local'[d].entries[p])
                              \/ Deletes(p, local'[d].entries[p])
    PROVE  VersionsHaveKin'
<1> SUFFICES ASSUME NEW p \in Path
             PROVE  /\ \A e : Says(p, e)' => e.blob <= seals'[p]
                    /\ \A e, f : Says(p, e)' /\ Says(p, f)' => Kin(e, f)
  BY DEF VersionsHaveKin, Kin, HappensBefore, AtMost
<1> DEFINE x == local'[d].entries[p]
<1>1. ASSUME NEW e, Says(p, e)' PROVE Says(p, e) \/ (e = x /\ x # NoEntry)
  <2>1. \A c \in Device \ {d} : /\ cache'[c] = cache[c] /\ local'[c] = local[c]
                                /\ remote'[c] = remote[c]
    BY DEF Others
  <2> QED BY <1>1, <2>1 DEF Says, Told
<1>2. ASSUME NEW e, Says(p, e) PROVE e \in Entry /\ e.blob \in Nat /\ e.blob <= seals[p]
  BY <1>2, SaysTyped, EntryFields DEF VersionsHaveKin
<1>3. seals[p] \in Nat /\ seals'[p] \in Nat /\ seals[p] <= seals'[p]
  BY EntryTypes DEF TypeOK
<1>4. x # NoEntry => x \in Entry
  BY ManifestFields DEF TypeOK
<1>5. \A e, f : Says(p, e) /\ Says(p, f) => Kin(e, f)
  BY DEF VersionsHaveKin
<1>6. CASE Told(p, x)
  <2>1. \A e : Says(p, e)' => Says(p, e)
    BY <1>1, <1>6 DEF Told
  <2> QED BY <1>2, <1>3, <1>5, <2>1
<1>7. CASE Sealed(p, x)
  <2>1. \A e : Says(p, e) => e.blob <= seals'[p] /\ e.blob # x.blob
    BY <1>2, <1>3, <1>7 DEF Sealed
  <2>2. x.blob <= seals'[p]
    BY <1>3, <1>7 DEF Sealed
  <2>3. Kin(x, x)
    BY DEF Kin
  <2> QED BY <1>1, <1>5, <2>1, <2>2, <2>3 DEF Kin
<1>8. CASE Deletes(p, x) /\ x # NoEntry
  <2>1. PICK g : /\ Says(p, g) /\ x.blob = g.blob /\ x.deleted
                 /\ IF g.deleted THEN AtMost(g.clock, x.clock) ELSE HappensBefore(g.clock, x.clock)
    BY <1>8 DEF Deletes
  <2>2. ASSUME NEW e, Says(p, e) PROVE Kin(e, x)
    <3> SUFFICES ASSUME e.blob = x.blob, ~e.deleted PROVE HappensBefore(e.clock, x.clock)
      BY <2>1 DEF Kin
    <3>1. e.clock \in Clock /\ g.clock \in Clock /\ x.clock \in Clock
      BY <1>2, <1>4, <1>8, <2>1, <2>2, EntryFields
    <3>2. Kin(e, g)
      BY <1>5, <2>1, <2>2
    <3>3. CASE g.deleted
      <4>1. HappensBefore(e.clock, g.clock)
        BY <2>1, <3>2, <3>3 DEF Kin
      <4> QED BY <2>1, <3>1, <3>3, <4>1, BeforeAtMost
    <3>4. CASE ~g.deleted
      BY <2>1, <3>2, <3>4 DEF Kin
    <3> QED BY <3>3, <3>4
  <2>3. \A e : Kin(x, e)
    BY <2>1 DEF Kin
  <2>4. x.blob <= seals'[p] /\ \A e : Says(p, e) => e.blob <= seals'[p]
    BY <1>2, <1>3, <2>1
  <2> QED BY <1>1, <1>5, <2>2, <2>3, <2>4
<1>9. CASE x = NoEntry
  BY <1>6, <1>9 DEF Told
<1> QED BY <1>6, <1>7, <1>8, <1>9

LEMMA KinInit == Init => VersionsHaveKin
<1> SUFFICES ASSUME Init, NEW p \in Path PROVE \A e : ~Says(p, e)
  BY DEF VersionsHaveKin
<1> QED BY EmptyHasNoHistory DEF Init, Says

\* What is there already, in the words of the lemma above.
LEMMA ToldNow ==
    ASSUME NEW d \in Device, NEW p \in Path
    PROVE  /\ Told(p, manifest.entries[p]) /\ Told(p, cache[d].entries[p])
           /\ Told(p, local[d].entries[p]) /\ Told(p, remote[d].entries[p])
BY DEF Told, Says

\* A deletion that a scan finds is later than the version it deletes.
LEMMA DeletionIsLater ==
    ASSUME NEW c \in Clock, NEW d \in Device, c[d] < U64Max
    PROVE  HappensBefore(c, Bump(c, d))
<1>1. Bump(c, d) = [c EXCEPT ![d] = c[d] + 1]
  BY DEF Bump, SaturatingNext
<1>2. \A e \in Device : c[e] \in Int /\ Bump(c, d)[e] = IF e = d THEN c[d] + 1 ELSE c[e]
  BY <1>1 DEF Clock, Counter
<1>3. ASSUME NEW e \in Device PROVE c[e] <= Bump(c, d)[e]
  BY <1>2
<1>4. c[d] < Bump(c, d)[d]
  BY <1>2
<1> QED BY <1>3, <1>4 DEF HappensBefore, AtMost

LEMMA KinStartSync ==
    ASSUME TypeOK, TypeOK', VersionsHaveKin, BelowLimit, NEW d \in Device, StartSync(d)
    PROVE  VersionsHaveKin'
<1>1. PICK time \in [Path -> Times] :
         LET es == [p \in Path |-> ScanEntry(d, p, time[p])]
         IN  /\ local' = [local EXCEPT ![d] = [cache[d] EXCEPT !.entries = es]]
             /\ seals' = CountSeals(es)
  BY DEF StartSync
<1> DEFINE es == [p \in Path |-> ScanEntry(d, p, time[p])]
<1>2. UNCHANGED <<manifest, cache, remote>>
  BY DEF StartSync, storeVars, deviceVars
<1>3. local'[d].entries = es
  BY <1>1 DEF TypeOK, ManifestRecord
<1>4. ASSUME NEW p \in Path
      PROVE  /\ seals'[p] = IF es[p] # NoEntry /\ es[p].blob = seals[p] + 1
                            THEN seals[p] + 1 ELSE seals[p]
             /\ seals[p] <= seals'[p]
  BY <1>1, EntryTypes DEF CountSeals, NewlySealed, TypeOK
<1>5. ASSUME NEW p \in Path PROVE Told(p, es[p]) \/ Sealed(p, es[p]) \/ Deletes(p, es[p])
  <2> DEFINE e    == es[p]
             prev == cache[d].entries[p]
  <2>1. e = ScanEntry(d, p, time[p]) /\ time[p] \in Times
    OBVIOUS
  <2> HIDE DEF e
  <2>2. CASE ScanKeeps(d, p, e)
    BY <2>2, ToldNow DEF ScanKeeps, e
  <2>3. CASE ScanDeletes(d, p, e)
    <3>1. prev \in Entry /\ Says(p, prev) /\ ~prev.deleted
      BY <2>3 DEF ScanDeletes, IsLive, Says
    <3>2. e.blob = prev.blob /\ e.deleted /\ e.clock = Bump(prev.clock, d)
      BY <2>3 DEF ScanDeletes, Entry
    <3>3. HappensBefore(prev.clock, e.clock)
      <4>1. prev.clock \in Clock /\ prev.clock[d] < U64Max
        BY <3>1, EntryFields DEF BelowLimit
      <4> QED BY <3>2, <4>1, DeletionIsLater
    <3>4. Deletes(p, e)
      BY <3>1, <3>2, <3>3 DEF Deletes
    <3> QED BY <3>4 DEF e
  <2>4. CASE ScanSeals(d, p, e)
    <3>1. Sealed(p, e)
      BY <1>4, <2>4, EntryFields DEF ScanSeals, Sealed, e
    <3> QED BY <3>1 DEF e
  <2> QED BY <2>1, <2>2, <2>3, <2>4, ScanCases
<1>6. ASSUME NEW p \in Path
      PROVE  /\ Told(p, manifest'.entries[p]) /\ Told(p, cache'[d].entries[p])
             /\ Told(p, remote'[d].entries[p])
  BY <1>2, ToldNow
<1> QED BY <1>3, <1>4, <1>5, <1>6, OthersUntouched, KinGrow

LEMMA KinApply ==
    ASSUME TypeOK, TypeOK', VersionsHaveKin, NEW d \in Device, NEW p \in Path, Applies(d, p)
    PROVE  VersionsHaveKin'
<1> DEFINE l == local[d].entries[p]
           r == remote[d].entries[p]
<1>1. UNCHANGED <<manifest, cache, remote>> /\ Others(d)
  BY OthersApply
<1>2. \A q \in Path : seals[q] <= seals'[q]
  <2>1. seals' = seals \/ seals' = [seals EXCEPT ![p] = @ + 1]
    BY DEF Applies, ApplyPull, ApplyPullDeletion, DeleteOnConflict, TakeRemoteOnConflict,
           KeepLocalOnConflict
  <2>2. ASSUME NEW q \in Path PROVE seals[q] <= seals'[q]
    <3>1. seals[q] \in Nat /\ (seals'[q] = seals[q] \/ seals'[q] = seals[q] + 1)
      BY <2>1 DEF TypeOK
    <3> QED BY <3>1
  <2> QED BY <2>2
<1>3. PICK x : Settle(d, p, x) /\ (Told(p, x) \/ Sealed(p, x) \/ Deletes(p, x))
  <2>1. CASE Settle(d, p, r)
    BY <2>1, ToldNow
  <2>2. CASE DeleteOnConflict(d, p)
    <3>1. PICK chosen \in Winners(d, p) :
             /\ chosen.deleted
             /\ Settle(d, p, [chosen EXCEPT !.clock = ResolvedClock(d, p),
                                            !.past  = ResolvedPast(d, p)])
      BY <2>2 DEF DeleteOnConflict
    <3> DEFINE x == [chosen EXCEPT !.clock = ResolvedClock(d, p), !.past = ResolvedPast(d, p)]
    <3>2. l \in Entry /\ r \in Entry /\ (chosen = l \/ chosen = r)
      BY <2>2, ResolvedTypes DEF DeleteOnConflict, Winners, ChosenEntry
    <3>3. Says(p, chosen)
      BY <3>2, EntryFields DEF Says
    <3>4. x.blob = chosen.blob /\ x.deleted /\ x.clock = ResolvedClock(d, p)
      BY <3>1, <3>2 DEF Entry
    <3>5. AtMost(chosen.clock, ResolvedClock(d, p))
      <4>1. l.clock \in Clock /\ r.clock \in Clock
        BY <3>2, EntryFields
      <4>2. AtMost(r.clock, ResolvedClock(d, p))
        BY <4>1, ResolvedCovers DEF ResolvedClock
      <4>3. Merge(l.clock, r.clock) = Merge(r.clock, l.clock)
        BY <4>1 DEF Merge, Clock, Counter
      <4>4. AtMost(l.clock, ResolvedClock(d, p))
        BY <4>1, <4>3, ResolvedCovers DEF ResolvedClock
      <4> QED BY <3>2, <4>2, <4>4
    <3>6. Deletes(p, x)
      BY <3>1, <3>3, <3>4, <3>5 DEF Deletes
    <3> QED BY <3>1, <3>6
  <2>3. CASE KeepLocalOnConflict(d, p)
    <3>1. PICK time \in Times :
             Settle(d, p, Seal(p, disk[d][p], SaturatingNext(l.aad), ResolvedClock(d, p), time,
                               ResolvedPast(d, p)))
      BY <2>3 DEF KeepLocalOnConflict
    <3>2. Seal(p, disk[d][p], SaturatingNext(l.aad), ResolvedClock(d, p), time,
               ResolvedPast(d, p)).blob = seals[p] + 1
      BY DEF Seal
    <3>3. seals'[p] = seals[p] + 1
      BY <2>3 DEF KeepLocalOnConflict, TypeOK
    <3> QED BY <3>1, <3>2, <3>3 DEF Sealed
  <2> QED BY <2>1, <2>2, <2>3 DEF Applies, ApplyPull, ApplyPullDeletion, TakeRemoteOnConflict,
             PullEntry
<1>4. ASSUME NEW q \in Path
      PROVE  \/ Told(q, local'[d].entries[q])
             \/ Sealed(q, local'[d].entries[q])
             \/ Deletes(q, local'[d].entries[q])
  <2>1. local'[d].entries[q] = IF q = p THEN x ELSE local[d].entries[q]
    <3>1. local'[d].entries = [local[d].entries EXCEPT ![p] = x]
      BY <1>3, SettledLocal
    <3>2. local[d].entries \in Entries
      BY ManifestFields DEF TypeOK
    <3> QED BY <3>1, <3>2 DEF Entries
  <2>2. CASE q = p
    <3>1. local'[d].entries[p] = x
      BY <2>1, <2>2
    <3> QED BY <1>3, <2>2, <3>1 DEF Told, Sealed, Deletes
  <2>3. CASE q # p
    BY <2>1, <2>3, ToldNow
  <2> QED BY <2>2, <2>3
<1>5. ASSUME NEW q \in Path
      PROVE  /\ Told(q, manifest'.entries[q]) /\ Told(q, cache'[d].entries[q])
             /\ Told(q, remote'[d].entries[q])
  BY <1>1, ToldNow
<1> QED BY <1>1, <1>2, <1>4, <1>5, KinGrow

\* The steps that only pass on what is known.
LEMMA KinQuiet ==
    ASSUME TypeOK, TypeOK', VersionsHaveKin, NEW d \in Device,
           \/ UploadBlobs(d) \/ ListManifest(d) \/ GetManifest(d) \/ PushManifest(d)
           \/ RetryPush(d) \/ Ends(d) \/ \E p \in Path : AbortOnConflict(d, p)
    PROVE  VersionsHaveKin'
<1>1. Others(d) /\ seals' = seals
  <2>1. CASE Ends(d)
    BY <2>1, OthersEnd DEF Ends, SaveCache, StopSync, FailSync
  <2>2. CASE ~Ends(d)
    BY <2>2, OthersUntouched DEF UploadBlobs, ListManifest, GetManifest, PushManifest, RetryPush,
                                 AbortOnConflict
  <2> QED BY <2>1, <2>2
<1>2. \A p \in Path : seals[p] <= seals'[p]
  BY <1>1 DEF TypeOK
<1>3. CASE UploadBlobs(d) \/ ListManifest(d) \/ \E p \in Path : AbortOnConflict(d, p)
  <2>1. UNCHANGED <<manifest, cache, remote, local>>
    BY <1>3 DEF UploadBlobs, ListManifest, AbortOnConflict, storeVars, deviceVars
  <2>2. ASSUME NEW p \in Path
        PROVE  /\ Told(p, manifest'.entries[p]) /\ Told(p, cache'[d].entries[p])
               /\ Told(p, remote'[d].entries[p]) /\ Told(p, local'[d].entries[p])
    BY <2>1, ToldNow
  <2> QED BY <1>1, <1>2, <2>2, KinGrow
<1>4. CASE GetManifest(d)
  <2>1. UNCHANGED <<manifest, cache, local>> /\ remote'[d] = manifest
    BY <1>4 DEF GetManifest, TypeOK, storeVars, deviceVars
  <2>2. ASSUME NEW p \in Path
        PROVE  /\ Told(p, manifest'.entries[p]) /\ Told(p, cache'[d].entries[p])
               /\ Told(p, remote'[d].entries[p]) /\ Told(p, local'[d].entries[p])
    BY <2>1, ToldNow
  <2> QED BY <1>1, <1>2, <2>2, KinGrow
<1>5. CASE PushManifest(d) \/ RetryPush(d)
  <2>1. /\ UNCHANGED <<cache, remote>>
        /\ local'[d].entries = local[d].entries
        /\ manifest' = manifest \/ manifest'.entries = [p \in Path |-> OutgoingEntry(d, p)]
    <3>1. CASE PushManifest(d)
      <4>1. local' = [local EXCEPT ![d] = [local[d] EXCEPT !.version = NextVersion(d),
                                                           !.clock   = AggregateClock(d)]]
        BY <3>1 DEF PushManifest, TypeOK
      <4>2. local'[d].entries = local[d].entries
        BY <4>1 DEF TypeOK, ManifestRecord
      <4> QED BY <3>1, <4>2 DEF PushManifest, deviceVars
    <3>2. CASE RetryPush(d)
      BY <3>2 DEF RetryPush, TypeOK, ManifestRecord, storeVars, deviceVars
    <3> QED BY <1>5, <3>1, <3>2
  <2>2. ASSUME NEW p \in Path PROVE Told(p, manifest'.entries[p])
    <3>1. \/ OutgoingEntry(d, p) = local[d].entries[p]
          \/ OutgoingEntry(d, p) = remote[d].entries[p]
      BY DEF OutgoingEntry
    <3>2. \/ manifest'.entries[p] = manifest.entries[p]
          \/ manifest'.entries[p] = OutgoingEntry(d, p)
      BY <2>1
    <3> QED BY <3>1, <3>2, ToldNow
  <2>3. ASSUME NEW p \in Path
        PROVE  /\ Told(p, cache'[d].entries[p]) /\ Told(p, remote'[d].entries[p])
               /\ Told(p, local'[d].entries[p])
    BY <2>1, ToldNow
  <2> QED BY <1>1, <1>2, <2>2, <2>3, KinGrow
<1>6. CASE Ends(d)
  <2>1. /\ manifest' = manifest /\ local'[d] = EmptyManifest /\ remote'[d] = EmptyManifest
        /\ cache'[d] = cache[d] \/ cache'[d] = local[d]
    BY <1>6 DEF Ends, SaveCache, StopSync, FailSync, EndRun, TypeOK, storeVars, deviceVars
  <2>2. ASSUME NEW p \in Path
        PROVE  /\ Told(p, manifest'.entries[p]) /\ Told(p, cache'[d].entries[p])
               /\ Told(p, remote'[d].entries[p]) /\ Told(p, local'[d].entries[p])
    <3>1. Told(p, local'[d].entries[p]) /\ Told(p, remote'[d].entries[p])
      BY <2>1, EmptyHasNoHistory DEF Told
    <3>2. Told(p, manifest'.entries[p]) /\ Told(p, cache'[d].entries[p])
      BY <2>1, ToldNow
    <3> QED BY <3>1, <3>2
  <2> QED BY <1>1, <1>2, <2>2, KinGrow
<1> QED BY <1>3, <1>4, <1>5, <1>6

LEMMA KinElsewhere ==
    ASSUME VersionsHaveKin, UNCHANGED <<manifest, cache, local, remote, seals>>
    PROVE  VersionsHaveKin'
<1>1. ASSUME NEW p, NEW e PROVE Says(p, e)' <=> Says(p, e)
  BY DEF Says
<1> QED BY <1>1 DEF VersionsHaveKin

LEMMA KinStep == TypeOK /\ VersionsHaveKin /\ BelowLimit /\ [Next]_vars => VersionsHaveKin'
<1> SUFFICES ASSUME TypeOK, VersionsHaveKin, BelowLimit, [Next]_vars PROVE VersionsHaveKin'
  OBVIOUS
<1>1. TypeOK'
  BY TypeStep
<1>2. ASSUME NEW d \in Device, SyncStep(d) PROVE VersionsHaveKin'
  BY <1>1, <1>2, KinApply, KinQuiet, Zenon DEF SyncStep, Applies, Ends
<1>3. ASSUME UNCHANGED vars PROVE VersionsHaveKin'
  BY <1>3, KinElsewhere DEF vars, storeVars, deviceVars, runVars
<1>4. ASSUME NEW d \in Device, NEW p \in Path,
             Configure(d, p) \/ \E c \in Content \cup {Absent} : EditFile(d, p, c)
      PROVE  VersionsHaveKin'
  BY <1>4, KinElsewhere DEF Configure, EditFile, storeVars, runVars
<1>5. ASSUME NEW d \in Device, FailSync(d) PROVE VersionsHaveKin'
  BY <1>1, <1>5, KinQuiet DEF Ends
<1> QED BY <1>1, <1>2, <1>3, <1>4, <1>5, KinStartSync, Zenon DEF Next, Rest

\* What the sync of d works on, or what it left behind, agrees with the disk of d
\* for the paths that no user has touched since the scan.
CleanOf(d) ==
    \A p \in clean[d] :
        DiskAgrees(d, p, IF pc[d] = "idle" THEN cache[d].entries[p] ELSE local[d].entries[p])

CleanAgrees == \A d \in Device : CleanOf(d)

LEMMA CleanInit == Init => CleanAgrees
BY DEF Init, CleanAgrees, CleanOf

LEMMA CleanOthers ==
    ASSUME CleanAgrees, NEW d \in Device, Others(d), CleanOf(d)',
           \A e \in Device \ {d} : clean'[e] = clean[e]
    PROVE  CleanAgrees'
BY DEF CleanAgrees, CleanOf, DiskAgrees, Others

LEMMA CleanStartSync ==
    ASSUME TypeOK, CleanAgrees, NEW d \in Device, StartSync(d) PROVE CleanAgrees'
<1>1. PICK time \in [Path -> Times] :
         local' = [local EXCEPT ![d] = [cache[d] EXCEPT
                      !.entries = [p \in Path |-> ScanEntry(d, p, time[p])]]]
  BY DEF StartSync
<1> DEFINE es == [p \in Path |-> ScanEntry(d, p, time[p])]
<1>2. local'[d].entries = es
  BY <1>1 DEF TypeOK, ManifestRecord
<1>3. /\ pc'[d] = "upload" /\ disk' = disk /\ clean'[d] = managed[d]
      /\ \A e \in Device \ {d} : clean'[e] = clean[e]
  BY DEF StartSync, TypeOK, deviceVars
<1>4. ASSUME NEW p \in managed[d] PROVE DiskAgrees(d, p, es[p])
  <2> DEFINE e == ScanEntry(d, p, time[p])
  <2>1. p \in Path /\ time[p] \in Times
    BY DEF TypeOK
  <2>2. ScanKeeps(d, p, e) \/ ScanDeletes(d, p, e) \/ ScanSeals(d, p, e)
    BY <2>1, ScanCases
  <2> HIDE DEF e
  <2>3. ASSUME ScanDeletes(d, p, e) PROVE disk[d][p] = Absent /\ e.deleted
    BY <2>3 DEF ScanDeletes, Entry
  <2>4. DiskAgrees(d, p, e)
    BY <2>2, <2>3, EntryFields DEF ScanKeeps, ScanSeals, DiskAgrees, IsLive
  <2> QED BY <2>1, <2>4 DEF e
<1>5. CleanOf(d)'
  <2>1. ASSUME NEW p \in managed[d]
        PROVE  disk'[d][p] = IF IsLive(local'[d].entries[p])
                             THEN local'[d].entries[p].content ELSE Absent
    BY <1>2, <1>3, <1>4 DEF DiskAgrees
  <2> QED BY <1>3, <2>1 DEF CleanOf, DiskAgrees
<1> QED BY <1>3, <1>5, OthersUntouched, CleanOthers

\* Every step of the loop leaves the path it deals with on disk as it settles it,
\* provided that removing a file works.
LEMMA AppliedAgrees ==
    ASSUME TypeOK, VersionsHaveKin, ~RemoveMayFail, NEW d \in Device, NEW p \in Path,
           Applies(d, p)
    PROVE  \E x : /\ Settle(d, p, x)
                  /\ disk'[d][p] = IF IsLive(x) THEN x.content ELSE Absent
                  /\ \A q \in Path \ {p} : disk'[d][q] = disk[d][q]
<1> DEFINE l == local[d].entries[p]
           r == remote[d].entries[p]
<1>1. ASSUME NEW c, WriteFile(d, p, c)
      PROVE  disk'[d][p] = c /\ \A q \in Path \ {p} : disk'[d][q] = disk[d][q]
  BY <1>1 DEF WriteFile, TypeOK
<1>2. ASSUME Op(d, p) \in {"pull_local", "pull_deletion", "conflict"} PROVE r \in Entry
  BY <1>2, TurnEntries
<1>3. CASE ApplyPull(d, p)
  <2>1. Op(d, p) = "pull_local" /\ WriteFile(d, p, r.content) /\ Settle(d, p, r)
    BY <1>3 DEF ApplyPull, Turn, PullEntry
  <2>2. ~r.deleted
    BY <2>1 DEF Op, DiffOp, PullOf, PushOf
  <2>3. IsLive(r)
    BY <1>2, <2>1, <2>2, EntryFields DEF IsLive
  <2> QED BY <1>1, <2>1, <2>3
<1>4. CASE ApplyPullDeletion(d, p)
  <2>1. Op(d, p) = "pull_deletion" /\ WriteFile(d, p, Absent) /\ Settle(d, p, r)
    BY <1>4 DEF ApplyPullDeletion, Turn, RemoveFile
  <2>2. r.deleted
    BY <2>1 DEF Op, DiffOp, PullOf, PushOf
  <2> QED BY <1>1, <2>1, <2>2 DEF IsLive
<1>5. CASE DeleteOnConflict(d, p)
  <2>1. PICK chosen \in Winners(d, p) :
           /\ chosen.deleted
           /\ Settle(d, p, [chosen EXCEPT !.clock = ResolvedClock(d, p),
                                          !.past  = ResolvedPast(d, p)])
    BY <1>5 DEF DeleteOnConflict
  <2> DEFINE x == [chosen EXCEPT !.clock = ResolvedClock(d, p), !.past = ResolvedPast(d, p)]
  <2>2. chosen \in Entry
    BY <1>5, ResolvedTypes DEF DeleteOnConflict, Winners, ChosenEntry
  <2>3. x.deleted
    BY <2>1, <2>2 DEF Entry
  <2>4. WriteFile(d, p, Absent)
    BY <1>5 DEF DeleteOnConflict, RemoveFile
  <2> QED BY <1>1, <2>1, <2>3, <2>4 DEF IsLive
<1>6. CASE TakeRemoteOnConflict(d, p)
  <2>1. PICK chosen \in Winners(d, p) : ~chosen.deleted /\ chosen.blob = r.blob
    BY <1>6 DEF TakeRemoteOnConflict
  <2>2. Op(d, p) = "conflict" /\ WriteFile(d, p, r.content) /\ Settle(d, p, r)
    BY <1>6 DEF TakeRemoteOnConflict, Turn, PullEntry
  <2>3. l \in Entry /\ r \in Entry
    BY <2>2, TurnEntries
  <2>4. chosen = l \/ chosen = r
    BY DEF Winners, ChosenEntry
  <2>5. ~r.deleted
    <3> SUFFICES ASSUME chosen = l, r.deleted PROVE FALSE
      BY <2>1, <2>4
    <3>1. Kin(l, r)
      BY <2>3, EntryFields DEF VersionsHaveKin, Says
    <3>2. HappensBefore(l.clock, r.clock) /\ l # r
      BY <2>1, <3>1 DEF Kin
    <3>3. Op(d, p) = PullOf(r)
      BY <2>3, <3>2, DiffOfTwo DEF Op
    <3> QED BY <2>2, <3>3 DEF PullOf
  <2> QED BY <1>1, <2>2, <2>3, <2>5, EntryFields DEF IsLive
<1>7. CASE KeepLocalOnConflict(d, p)
  <2>1. PICK time \in Times :
           Settle(d, p, Seal(p, disk[d][p], SaturatingNext(l.aad), ResolvedClock(d, p), time,
                             ResolvedPast(d, p)))
    BY <1>7 DEF KeepLocalOnConflict
  <2> DEFINE x == Seal(p, disk[d][p], SaturatingNext(l.aad), ResolvedClock(d, p), time,
                       ResolvedPast(d, p))
  <2>2. x \in Entry
    <3>1. disk[d][p] \in Content
      BY <1>7 DEF KeepLocalOnConflict, TypeOK
    <3>2. /\ l \in Entry /\ ResolvedClock(d, p) \in Clock
          /\ ResolvedPast(d, p) \in SUBSET Nat
      BY <1>7, ResolvedTypes DEF KeepLocalOnConflict
    <3> QED BY <3>1, <3>2, EntryFields, SaturatingNextType, SealType
  <2>3. ~x.deleted /\ x.content = disk[d][p]
    BY DEF Seal
  <2>4. disk' = disk
    BY <1>7 DEF KeepLocalOnConflict
  <2> HIDE DEF x
  <2>5. Settle(d, p, x)
    BY <2>1 DEF x
  <2> QED BY <2>2, <2>3, <2>4, <2>5, EntryFields DEF IsLive
<1> QED BY <1>3, <1>4, <1>5, <1>6, <1>7 DEF Applies

LEMMA CleanApply ==
    ASSUME TypeOK, VersionsHaveKin, CleanAgrees, ~RemoveMayFail, NEW d \in Device,
           NEW p \in Path, Applies(d, p)
    PROVE  CleanAgrees'
<1>1. PICK x : /\ Settle(d, p, x)
               /\ disk'[d][p] = IF IsLive(x) THEN x.content ELSE Absent
               /\ \A q \in Path \ {p} : disk'[d][q] = disk[d][q]
  BY AppliedAgrees
<1>2. UNCHANGED <<cache, pc>> /\ Others(d)
  BY OthersApply
<1>3. clean' = clean /\ pc[d] = "apply"
  BY DEF Applies, ApplyPull, ApplyPullDeletion, DeleteOnConflict, TakeRemoteOnConflict,
         KeepLocalOnConflict, Turn
<1>4. ASSUME NEW q \in clean[d] PROVE DiskAgrees(d, q, local[d].entries[q])'
  <2>1. q \in Path /\ local[d].entries \in Entries
    BY ManifestFields DEF TypeOK
  <2>2. local'[d].entries = [local[d].entries EXCEPT ![p] = x]
    BY <1>1, SettledLocal
  <2>3. local'[d].entries[q] = IF q = p THEN x ELSE local[d].entries[q]
    BY <2>1, <2>2 DEF Entries
  <2>4. DiskAgrees(d, q, local[d].entries[q])
    BY <1>3 DEF CleanAgrees, CleanOf
  <2>5. CASE q = p
    <3>1. local'[d].entries[p] = x
      BY <2>3, <2>5
    <3> QED BY <1>1, <2>5, <3>1 DEF DiskAgrees
  <2>6. CASE q # p
    BY <1>1, <2>1, <2>3, <2>4, <2>6 DEF DiskAgrees
  <2> QED BY <2>5, <2>6
<1>5. CleanOf(d)'
  BY <1>2, <1>3, <1>4 DEF CleanOf
<1> QED BY <1>2, <1>3, <1>5, CleanOthers

LEMMA CleanQuiet ==
    ASSUME TypeOK, CleanAgrees, NEW d \in Device,
           \/ UploadBlobs(d) \/ ListManifest(d) \/ GetManifest(d) \/ PushManifest(d)
           \/ RetryPush(d) \/ \E p \in Path : AbortOnConflict(d, p)
    PROVE  CleanAgrees'
<1>1. /\ pc[d] # "idle" /\ pc'[d] # "idle" /\ UNCHANGED <<disk, clean>>
  BY DEF UploadBlobs, ListManifest, GetManifest, PushManifest, RetryPush, AbortOnConflict, Turn,
         ReadyToPush, TypeOK, deviceVars
<1>2. local'[d].entries = local[d].entries
  <2>1. CASE PushManifest(d)
    <3>1. local' = [local EXCEPT ![d] = [local[d] EXCEPT !.version = NextVersion(d),
                                                         !.clock   = AggregateClock(d)]]
      BY <2>1 DEF PushManifest, TypeOK
    <3> QED BY <3>1 DEF TypeOK, ManifestRecord
  <2>2. CASE ~PushManifest(d)
    BY <2>2 DEF UploadBlobs, ListManifest, GetManifest, RetryPush, AbortOnConflict, TypeOK,
                ManifestRecord
  <2> QED BY <2>1, <2>2
<1>3. CleanOf(d)'
  BY <1>1, <1>2 DEF CleanAgrees, CleanOf, DiskAgrees
<1> QED BY <1>1, <1>3, OthersUntouched, CleanOthers

LEMMA CleanEnd ==
    ASSUME TypeOK, CleanAgrees, NEW d \in Device, Ends(d) PROVE CleanAgrees'
<1>1. /\ disk' = disk /\ pc'[d] = "idle" /\ \A e \in Device \ {d} : clean'[e] = clean[e]
      /\ \/ pc[d] = "save" /\ clean' = clean /\ cache'[d] = local[d]
         \/ clean'[d] = {}
  BY DEF Ends, SaveCache, StopSync, FailSync, EndRun, TypeOK, deviceVars
<1>2. CleanOf(d)'
  BY <1>1 DEF CleanAgrees, CleanOf, DiskAgrees
<1> QED BY <1>1, <1>2, OthersEnd, CleanOthers

LEMMA CleanEdited ==
    ASSUME TypeOK, CleanAgrees, NEW d \in Device, NEW p \in Path,
           Configure(d, p) \/ \E c \in Content \cup {Absent} : EditFile(d, p, c)
    PROVE  CleanAgrees'
<1>1. /\ UNCHANGED <<cache, pc, local>> /\ clean' = [clean EXCEPT ![d] = @ \ {p}]
      /\ disk' = disk \/ \E c : disk' = [disk EXCEPT ![d][p] = c]
  BY DEF Configure, EditFile, WriteFile, runVars
<1>2. clean'[d] = clean[d] \ {p} /\ \A e \in Device \ {d} : clean'[e] = clean[e]
  BY <1>1 DEF TypeOK
<1>3. \A q \in clean[d] \ {p} : disk'[d][q] = disk[d][q]
  BY <1>1 DEF TypeOK
<1>4. CleanOf(d)
  BY DEF CleanAgrees
<1>5. CleanOf(d)'
  BY <1>1, <1>2, <1>3, <1>4 DEF CleanOf, DiskAgrees
<1> QED BY <1>2, <1>5, OthersUntouched, CleanOthers

LEMMA CleanStep ==
    ASSUME ~RemoveMayFail
    PROVE  TypeOK /\ VersionsHaveKin /\ CleanAgrees /\ [Next]_vars => CleanAgrees'
<1> SUFFICES ASSUME TypeOK, VersionsHaveKin, CleanAgrees, [Next]_vars PROVE CleanAgrees'
  OBVIOUS
<1>1. ASSUME NEW d \in Device, SyncStep(d) PROVE CleanAgrees'
  BY <1>1, CleanApply, CleanQuiet, CleanEnd, Zenon DEF SyncStep, Applies, Ends
<1>2. ASSUME UNCHANGED vars PROVE CleanAgrees'
  BY <1>2 DEF vars, deviceVars, runVars, CleanAgrees, CleanOf, DiskAgrees
<1>3. ASSUME NEW d \in Device, FailSync(d) PROVE CleanAgrees'
  BY <1>3, CleanEnd DEF Ends
<1> QED BY <1>1, <1>2, <1>3, CleanStartSync, CleanEdited, Zenon DEF Next, Rest

\* As long as files can be removed and no counter of a version is at the limit of
\* a u64, a sync that ended well left every managed path that no user touched
\* since its scan on disk as the saved cache says, retries, conflicts and aborts
\* included: the next scan takes nothing for an edit that is none.
THEOREM SavedCacheAgrees ==
    ASSUME ~RemoveMayFail
    PROVE  Spec /\ []BelowLimit => []CacheAgreesWithDisk
<1> DEFINE Inv == TypeOK /\ VersionsHaveKin /\ CleanAgrees
<1>1. Init => Inv
  BY TypeInit, KinInit, CleanInit
<1>2. Inv /\ BelowLimit /\ [Next]_vars => Inv'
  BY TypeStep, KinStep, CleanStep
<1>3. Inv => CacheAgreesWithDisk
  BY DEF CleanAgrees, CleanOf, CacheAgreesWithDisk
<1> QED BY <1>1, <1>2, <1>3, PTL DEF Spec

\* A device that is done pushing the published version holds, for the paths of
\* its config, the entries that are published; once it has saved them, its disk
\* agrees with what is published.
PublishedOf(d) ==
    /\ pc[d] # "idle" => clean[d] \subseteq managed[d]
    /\ etag # 0 /\ pc[d] = "save" /\ local[d].version = manifest.version =>
          \A p \in clean[d] : manifest.entries[p] = local[d].entries[p]
    /\ etag # 0 /\ pc[d] = "idle" /\ cache[d].version = manifest.version =>
          \A p \in clean[d] : DiskAgrees(d, p, manifest.entries[p])

PublishedInStep == \A d \in Device : PublishedOf(d)

\* The version of the manifest is not at the limit of a u64 either.
VersionBelowLimit == manifest.version < U64Max

LEMMA PublishedInit == Init => PublishedInStep
BY DEF Init, PublishedInStep, PublishedOf

LEMMA PublishedOthers ==
    ASSUME PublishedInStep, NEW d \in Device, Others(d), PublishedOf(d)',
           UNCHANGED <<etag, manifest>>, \A e \in Device \ {d} : clean'[e] = clean[e]
    PROVE  PublishedInStep'
BY DEF PublishedInStep, PublishedOf, DiskAgrees, Others

\* A push takes the published version beyond what any other device has.
LEMMA PublishedPush ==
    ASSUME InStep, PublishedInStep, VersionBelowLimit, NEW d \in Device, PushManifest(d)
    PROVE  PublishedInStep'
<1>1. /\ manifest'.version = SaturatingNext(manifest.version)
      /\ manifest'.entries = [p \in Path |-> OutgoingEntry(d, p)]
      /\ pc[d] = "apply" /\ pc'[d] = "save" /\ clean' = clean /\ managed' = managed
  BY PushAdvances DEF PushManifest, ReadyToPush, InStep, TypeOK, deviceVars
<1>2. manifest.version \in Int /\ manifest'.version \in Int /\ manifest.version < manifest'.version
  BY <1>1, VersionTypes, CounterAssumption
     DEF InStep, VersionBelowLimit, SaturatingNext, Counter
<1>3. Others(d)
  BY OthersUntouched DEF InStep
<1>4. ASSUME NEW e \in Device \ {d} PROVE PublishedOf(e)'
  <2>1. /\ cache'[e] = cache[e] /\ local'[e] = local[e] /\ pc'[e] = pc[e]
        /\ clean'[e] = clean[e]
    BY <1>1, <1>3 DEF Others
  <2>2. cache[e].version <= manifest.version /\ local[e].version <= manifest.version
    BY DEF InStep, VersionsInStep, DeviceInStep
  <2>3. cache[e].version \in Int /\ local[e].version \in Int
    BY VersionTypes DEF InStep, Counter
  <2>4. cache'[e].version # manifest'.version /\ local'[e].version # manifest'.version
    BY <1>2, <2>1, <2>2, <2>3
  <2> QED BY <1>1, <2>1, <2>4 DEF PublishedInStep, PublishedOf
<1>5. local'[d].entries = local[d].entries
  <2>1. local' = [local EXCEPT ![d] = [local[d] EXCEPT !.version = NextVersion(d),
                                                       !.clock   = AggregateClock(d)]]
    BY DEF PushManifest, InStep, TypeOK
  <2> QED BY <2>1 DEF InStep, TypeOK, ManifestRecord
<1>6. clean[d] \subseteq managed[d]
  BY <1>1 DEF PublishedInStep, PublishedOf
<1>7. ASSUME NEW p \in clean[d] PROVE manifest'.entries[p] = local'[d].entries[p]
  <2>1. p \in managed[d] /\ p \in Path
    BY <1>6 DEF InStep, TypeOK
  <2>2. OutgoingEntry(d, p) = local[d].entries[p]
    BY <2>1 DEF OutgoingEntry
  <2> QED BY <1>1, <1>5, <2>1, <2>2
<1>8. PublishedOf(d)'
  BY <1>1, <1>6, <1>7 DEF PublishedOf
<1> QED BY <1>4, <1>8 DEF PublishedInStep

LEMMA PublishedEnd ==
    ASSUME InStep, PublishedInStep, CleanAgrees, NEW d \in Device, Ends(d)
    PROVE  PublishedInStep'
<1>1. /\ UNCHANGED <<etag, manifest, disk>> /\ pc'[d] = "idle"
      /\ \A e \in Device \ {d} : clean'[e] = clean[e]
      /\ \/ pc[d] = "save" /\ clean' = clean /\ cache'[d] = local[d]
         \/ clean'[d] = {}
  BY DEF Ends, SaveCache, StopSync, FailSync, EndRun, InStep, TypeOK, deviceVars, storeVars
<1>2. PublishedOf(d)'
  BY <1>1 DEF PublishedInStep, PublishedOf, CleanAgrees, CleanOf, DiskAgrees
<1> QED BY <1>1, <1>2, OthersEnd, PublishedOthers DEF InStep

\* The steps of a run before it saves.
LEMMA PublishedRun ==
    ASSUME InStep, PublishedInStep, NEW d \in Device,
           \/ StartSync(d) \/ UploadBlobs(d) \/ ListManifest(d) \/ GetManifest(d) \/ RetryPush(d)
           \/ \E p \in Path : Applies(d, p)
    PROVE  PublishedInStep'
<1>1. CASE \E p \in Path : Applies(d, p)
  <2>1. UNCHANGED <<etag, manifest, managed, pc>> /\ Others(d)
    BY <1>1, OthersApply DEF InStep
  <2>2. clean' = clean /\ pc[d] = "apply"
    BY <1>1 DEF Applies, ApplyPull, ApplyPullDeletion, DeleteOnConflict, TakeRemoteOnConflict,
           KeepLocalOnConflict, Turn
  <2>3. PublishedOf(d)'
    BY <2>1, <2>2 DEF PublishedInStep, PublishedOf
  <2> QED BY <2>1, <2>2, <2>3, PublishedOthers
<1>2. CASE StartSync(d)
  <2>1. /\ UNCHANGED <<etag, manifest, managed>> /\ pc'[d] = "upload" /\ clean'[d] = managed[d]
        /\ \A e \in Device \ {d} : clean'[e] = clean[e]
    BY <1>2 DEF StartSync, InStep, TypeOK, storeVars, deviceVars
  <2>2. PublishedOf(d)'
    BY <2>1 DEF PublishedOf
  <2> QED BY <1>2, <2>1, <2>2, OthersUntouched, PublishedOthers DEF InStep
<1>3. CASE UploadBlobs(d) \/ ListManifest(d) \/ GetManifest(d) \/ RetryPush(d)
  <2>1. /\ UNCHANGED <<etag, manifest, managed, clean>> /\ pc[d] # "idle"
        /\ pc'[d] \in {"list", "get", "apply"}
    BY <1>3 DEF UploadBlobs, ListManifest, GetManifest, RetryPush, ReadyToPush, InStep, TypeOK,
                storeVars, deviceVars
  <2>2. PublishedOf(d)'
    BY <2>1 DEF PublishedInStep, PublishedOf
  <2> QED BY <1>3, <2>1, <2>2, OthersUntouched, PublishedOthers DEF InStep
<1> QED BY <1>1, <1>2, <1>3

LEMMA PublishedEdited ==
    ASSUME InStep, PublishedInStep, NEW d \in Device, NEW p \in Path,
           Configure(d, p) \/ \E c \in Content \cup {Absent} : EditFile(d, p, c)
    PROVE  PublishedInStep'
<1>1. /\ UNCHANGED <<etag, manifest, cache, pc, local>> /\ clean' = [clean EXCEPT ![d] = @ \ {p}]
      /\ disk' = disk \/ \E c : disk' = [disk EXCEPT ![d][p] = c]
      /\ pc[d] # "idle" => managed' = managed
  BY DEF Configure, EditFile, WriteFile, runVars, storeVars
<1>2. clean'[d] = clean[d] \ {p} /\ \A e \in Device \ {d} : clean'[e] = clean[e]
  BY <1>1 DEF InStep, TypeOK
<1>3. \A q \in clean[d] \ {p} : disk'[d][q] = disk[d][q]
  BY <1>1 DEF InStep, TypeOK
<1>4. PublishedOf(d)
  BY DEF PublishedInStep
<1>5. PublishedOf(d)'
  BY <1>1, <1>2, <1>3, <1>4 DEF PublishedOf, DiskAgrees
<1> QED BY <1>1, <1>2, <1>5, OthersUntouched, PublishedOthers DEF InStep

\* Only a resolver's answer aborts a sync.
LEMMA NoAbort ==
    ASSUME NEW d \in Device, "abort" \notin Answers[d], NEW p \in Path
    PROVE  ~AbortOnConflict(d, p)
<1>1. LatestWinsChoice(local[d].entries[p], remote[d].entries[p]) # "abort"
  BY DEF LatestWinsChoice
<1>2. Policy[d][p] \in {"latest_wins", "prompt", "manual"}
  BY EngineAssumption
<1>3. "abort" \notin Choices(d, p)
  BY <1>1, <1>2 DEF Choices, PolicyChoices
<1> QED BY <1>3 DEF AbortOnConflict

LEMMA PublishedStep ==
    ASSUME \A d \in Device : "abort" \notin Answers[d]
    PROVE  /\ InStep /\ PublishedInStep /\ CleanAgrees /\ VersionBelowLimit /\ [Next]_vars
           => PublishedInStep'
<1> SUFFICES ASSUME InStep, PublishedInStep, CleanAgrees, VersionBelowLimit, [Next]_vars
             PROVE  PublishedInStep'
  OBVIOUS
<1>1. ASSUME NEW d \in Device, SyncStep(d) PROVE PublishedInStep'
  BY <1>1, PublishedPush, PublishedEnd, PublishedRun, NoAbort, Zenon DEF SyncStep, Applies, Ends
<1>2. ASSUME UNCHANGED vars PROVE PublishedInStep'
  BY <1>2 DEF vars, deviceVars, runVars, storeVars, PublishedInStep, PublishedOf, DiskAgrees
<1>3. ASSUME NEW d \in Device, FailSync(d) PROVE PublishedInStep'
  BY <1>3, PublishedEnd DEF Ends
<1> QED BY <1>1, <1>2, <1>3, PublishedRun, PublishedEdited, Zenon DEF Next, Rest

\* Under the same conditions, and when no user aborts a sync (an aborted one saves
\* what it scanned without publishing it), the device that pushed last has on
\* disk what it pushed, also when it merged other devices' changes in a retry.
THEOREM LastPusherAgrees ==
    ASSUME ~RemoveMayFail, \A d \in Device : "abort" \notin Answers[d]
    PROVE  Spec /\ []BelowLimit /\ []VersionBelowLimit => []PublishedAgreesWithDisk
<1> DEFINE Inv == InStep /\ VersionsHaveKin /\ CleanAgrees /\ PublishedInStep
<1>1. Init => Inv
  BY TypeInit, VersionsInit, RunsInit, KinInit, CleanInit, PublishedInit DEF InStep
<1>2. Inv /\ BelowLimit /\ VersionBelowLimit /\ [Next]_vars => Inv'
  <2>1. InStep /\ [Next]_vars => InStep'
    BY TypeStep, VersionsStep, RunsStep DEF InStep
  <2> QED BY <2>1, KinStep, CleanStep, PublishedStep DEF InStep
<1>3. Inv => PublishedAgreesWithDisk
  BY DEF PublishedInStep, PublishedOf, PublishedAgreesWithDisk
<1> QED BY <1>1, <1>2, <1>3, PTL DEF Spec

-----------------------------------------------------------------------------
(* How long a sync may take *)

\* The steps that d's sync may still take on its own: those of this attempt, and
\* for every attempt it has left a fetch and a diff of all paths.
StepsLeft(d) ==
    LET paths == Cardinality(Path)
        retries == (MaxCasRetries - 1 - attempt[d]) * (paths + 3)
    IN  CASE pc[d] = "idle"   -> 0
          [] pc[d] = "save"   -> 1
          [] pc[d] = "apply"  -> retries + Cardinality(todo[d]) + 2
          [] pc[d] = "get"    -> retries + paths + 3
          [] pc[d] = "list"   -> retries + paths + 4
          [] pc[d] = "upload" -> retries + paths + 5

StepsOfSync == MaxCasRetries * (Cardinality(Path) + 3) + 2

LEMMA Products ==
    \A m, n, k \in Int : m * k \in Int /\ (m + n) * k = m * k + n * k /\ 1 * k = k
OBVIOUS

LEMMA NatProduct == \A m, n \in Nat : m * n \in Nat
OBVIOUS

\* The products of StepsLeft.
LEMMA RetriesLeft ==
    ASSUME TypeOK, IsFiniteSet(Path), NEW d \in Device
    PROVE  LET k == Cardinality(Path) + 3
           IN  /\ Cardinality(Path) \in Nat /\ k \in Nat
               /\ attempt[d] \in Nat /\ MaxCasRetries - 1 - attempt[d] \in Nat
               /\ (MaxCasRetries - 1 - attempt[d]) * k \in Nat
               /\ (MaxCasRetries - 1 - attempt[d]) * k + k <= MaxCasRetries * k
               /\ MaxCasRetries - 1 - attempt[d] > 0 =>
                     (MaxCasRetries - 1 - attempt[d]) * k
                        = (MaxCasRetries - 1 - (attempt[d] + 1)) * k + k
               /\ IsFiniteSet(todo[d]) /\ Cardinality(todo[d]) \in Nat
               /\ Cardinality(todo[d]) <= Cardinality(Path)
<1> DEFINE k == Cardinality(Path) + 3
           r == MaxCasRetries - 1 - attempt[d]
<1>1. Cardinality(Path) \in Nat /\ k \in Nat
  BY FS_CardinalityType
<1>2. attempt[d] \in Nat /\ r \in Nat /\ MaxCasRetries \in Nat
  BY EngineAssumption DEF TypeOK
<1>3. r * k \in Nat /\ attempt[d] * k \in Nat
  BY <1>1, <1>2, NatProduct
<1>4. MaxCasRetries * k = r * k + k + attempt[d] * k
  <2>1. MaxCasRetries = (r + 1) + attempt[d]
    BY <1>2
  <2>2. r \in Int /\ 1 \in Int /\ r + 1 \in Int /\ attempt[d] \in Int /\ k \in Int
    BY <1>1, <1>2
  <2> HIDE DEF k, r
  <2>3. ((r + 1) + attempt[d]) * k = (r + 1) * k + attempt[d] * k
    BY <2>2, Products
  <2>4. (r + 1) * k = r * k + k
    BY <2>2, Products
  <2> QED BY <2>1, <2>3, <2>4
<1>5. r > 0 => r * k = (r - 1) * k + k
  <2>1. r = (r - 1) + 1 /\ r - 1 \in Int /\ 1 \in Int /\ k \in Int
    BY <1>1, <1>2
  <2> DEFINE q == r - 1
  <2> HIDE DEF k, r, q
  <2>2. (q + 1) * k = q * k + k
    BY <2>1, Products DEF q
  <2> QED BY <2>1, <2>2 DEF q
<1>6. MaxCasRetries - 1 - (attempt[d] + 1) = r - 1
  BY <1>2, EngineAssumption
<1>7. IsFiniteSet(todo[d]) /\ Cardinality(todo[d]) \in Nat /\ Cardinality(todo[d]) <= Cardinality(Path)
  BY FS_Subset, FS_CardinalityType DEF TypeOK
<1> HIDE DEF k
<1>8. r * k + k <= MaxCasRetries * k
  BY <1>1, <1>3, <1>4
<1> QED BY <1>1, <1>2, <1>3, <1>5, <1>6, <1>7, <1>8 DEF k

LEMMA StepsBounded ==
    ASSUME TypeOK, IsFiniteSet(Path), NEW d \in Device
    PROVE  StepsLeft(d) \in 0 .. StepsOfSync
<1> DEFINE n == Cardinality(Path)
           r == (MaxCasRetries - 1 - attempt[d]) * (n + 3)
           m == MaxCasRetries * (n + 3)
           t == Cardinality(todo[d])
<1>1. n \in Nat /\ r \in Nat /\ r + n + 3 <= m /\ t \in Nat /\ t <= n /\ m \in Int
  BY RetriesLeft, EngineAssumption
<1>2. pc[d] \in Run
  BY DEF TypeOK
<1>3. StepsLeft(d) \in {0, 1, r + t + 2, r + n + 3, r + n + 4, r + n + 5}
  BY <1>2 DEF StepsLeft, Run
<1> HIDE DEF n, r, m, t
<1>4. StepsLeft(d) \in 0 .. m + 2
  BY <1>1, <1>3
<1> QED BY <1>4 DEF StepsOfSync, m, n

LEMMA StepsBoundedNext ==
    ASSUME IsFiniteSet(Path), NEW d \in Device
    PROVE  TypeOK' => (StepsLeft(d) \in 0 .. StepsOfSync)'
<1>1. TypeOK => StepsLeft(d) \in 0 .. StepsOfSync
  BY StepsBounded
<1> QED BY <1>1, PTL

LEMMA EndDecreases ==
    ASSUME TypeOK, IsFiniteSet(Path), NEW d \in Device, Ends(d)
    PROVE  StepsLeft(d)' < StepsLeft(d)
<1> DEFINE n == Cardinality(Path)
           r == (MaxCasRetries - 1 - attempt[d]) * (n + 3)
           t == Cardinality(todo[d])
<1>1. n \in Nat /\ r \in Nat /\ t \in Nat
  BY RetriesLeft
<1>2. pc'[d] = "idle" /\ pc[d] # "idle"
  <2>1. pc[d] # "idle"
    BY DEF Ends, SaveCache, FailSync, StopSync, MustStop, CannotApply, OutOfAttempts, ReadyToPush,
       Turn
  <2> QED BY <2>1 DEF Ends, SaveCache, FailSync, StopSync, EndRun, TypeOK
<1>3. StepsLeft(d)' = 0
  BY <1>2 DEF StepsLeft
<1>4. StepsLeft(d) \in {1, r + t + 2, r + n + 3, r + n + 4, r + n + 5}
  BY <1>2 DEF StepsLeft, TypeOK, Run
<1> HIDE DEF n, r, t
<1> QED BY <1>1, <1>3, <1>4

LEMMA StepsDecrease ==
    ASSUME TypeOK, IsFiniteSet(Path), NEW d \in Device, SyncStep(d), TypeOK'
    PROVE  StepsLeft(d)' < StepsLeft(d)
<1> DEFINE n == Cardinality(Path)
           left(a) == (MaxCasRetries - 1 - a) * (n + 3)
           r == left(attempt[d])
           t == Cardinality(todo[d])
<1>1. n \in Nat /\ r \in Nat /\ t \in Nat /\ t <= n /\ IsFiniteSet(todo[d])
  BY RetriesLeft
<1>2. ASSUME Ends(d) PROVE StepsLeft(d)' < StepsLeft(d)
  BY <1>2, EndDecreases
<1>3. CASE UploadBlobs(d) \/ ListManifest(d)
  <2>1. /\ attempt' = attempt
        /\ \/ pc[d] = "upload" /\ pc'[d] = "list"
           \/ pc[d] = "list" /\ pc'[d] = "get"
    BY <1>3 DEF UploadBlobs, ListManifest, TypeOK
  <2>2. \/ StepsLeft(d) = r + n + 5 /\ StepsLeft(d)' = r + n + 4
        \/ StepsLeft(d) = r + n + 4 /\ StepsLeft(d)' = r + n + 3
    BY <2>1 DEF StepsLeft
  <2> HIDE DEF n, r
  <2> QED BY <1>1, <2>2
<1>4. CASE GetManifest(d)
  <2>1. attempt' = attempt /\ pc[d] = "get" /\ pc'[d] = "apply"
    BY <1>4 DEF GetManifest, TypeOK
  <2>2. Cardinality(todo'[d]) \in Nat /\ Cardinality(todo'[d]) <= n
    BY FS_Subset, FS_CardinalityType DEF TypeOK
  <2>3. StepsLeft(d) = r + n + 3 /\ StepsLeft(d)' = r + Cardinality(todo'[d]) + 2
    BY <2>1 DEF StepsLeft
  <2> HIDE DEF n, r
  <2> QED BY <1>1, <2>2, <2>3
<1>5. ASSUME NEW p \in Path, Applies(d, p) PROVE StepsLeft(d)' < StepsLeft(d)
  <2>1. /\ attempt' = attempt /\ pc' = pc /\ pc[d] = "apply" /\ p \in todo[d]
        /\ todo'[d] = todo[d] \ {p}
    <3>1. \E x : Settle(d, p, x)
      BY <1>5 DEF Applies, ApplyPull, ApplyPullDeletion, DeleteOnConflict, TakeRemoteOnConflict,
         KeepLocalOnConflict, PullEntry
    <3>2. pc[d] = "apply" /\ p \in todo[d]
      BY <1>5 DEF Applies, ApplyPull, ApplyPullDeletion, DeleteOnConflict, TakeRemoteOnConflict,
         KeepLocalOnConflict, Turn
    <3> QED BY <1>5, <3>1, <3>2, OthersApply, SettledLocal
  <2>2. Cardinality(todo'[d]) = t - 1
    BY <1>1, <2>1, FS_RemoveElement
  <2>3. StepsLeft(d) = r + t + 2 /\ StepsLeft(d)' = r + Cardinality(todo'[d]) + 2
    BY <2>1 DEF StepsLeft
  <2> HIDE DEF n, r, t
  <2> QED BY <1>1, <2>2, <2>3
<1>6. CASE PushManifest(d) \/ \E p \in Path : AbortOnConflict(d, p)
  <2>1. pc[d] = "apply" /\ pc'[d] = "save"
    BY <1>6 DEF PushManifest, ReadyToPush, AbortOnConflict, Turn, TypeOK
  <2>2. StepsLeft(d) = r + t + 2 /\ StepsLeft(d)' = 1
    BY <2>1 DEF StepsLeft
  <2> HIDE DEF n, r, t
  <2> QED BY <1>1, <2>2
<1>7. CASE RetryPush(d)
  <2>1. /\ pc[d] = "apply" /\ pc'[d] = "list" /\ attempt'[d] = attempt[d] + 1
        /\ MaxCasRetries - 1 - attempt[d] > 0
    <3>1. attempt[d] + 1 < MaxCasRetries /\ attempt[d] \in Nat /\ MaxCasRetries \in Nat
      BY <1>7, EngineAssumption DEF RetryPush, AttemptsLeft, TypeOK
    <3> QED BY <1>7, <3>1 DEF RetryPush, ReadyToPush, TypeOK
  <2>2. r = left(attempt[d] + 1) + (n + 3) /\ left(attempt[d] + 1) \in Int
    <3>1. left(attempt[d]) = left(attempt[d] + 1) + (n + 3)
      BY <2>1, RetriesLeft
    <3>2. attempt[d] \in Nat /\ MaxCasRetries \in Nat
      BY EngineAssumption DEF TypeOK
    <3> QED BY <1>1, <3>1, <3>2
  <2>3. StepsLeft(d) = r + t + 2 /\ StepsLeft(d)' = left(attempt[d] + 1) + n + 4
    BY <2>1 DEF StepsLeft
  <2> DEFINE s == left(attempt[d] + 1)
  <2> HIDE DEF n, r, t, left, s
  <2>4. r = s + (n + 3) /\ s \in Int /\ StepsLeft(d)' = s + n + 4
    BY <2>2, <2>3 DEF s
  <2> QED BY <1>1, <2>3, <2>4
<1> QED BY <1>2, <1>3, <1>4, <1>5, <1>6, <1>7, Zenon DEF SyncStep, Applies, Ends

\* What others do costs a sync nothing.
LEMMA StepsOthers ==
    ASSUME NEW d \in Device, NEW e \in Device \ {d}, Others(e) PROVE StepsLeft(d)' = StepsLeft(d)
<1>1. pc'[d] = pc[d] /\ attempt'[d] = attempt[d] /\ todo'[d] = todo[d]
  BY DEF Others
<1> QED BY <1>1 DEF StepsLeft

\* The steps of e leave the sync of d alone.
LEMMA OthersOfStep ==
    ASSUME TypeOK, NEW e \in Device, SyncStep(e) \/ FailSync(e) PROVE Others(e)
<1>1. ASSUME Ends(e) PROVE Others(e)
  BY <1>1, OthersEnd
<1>2. ASSUME NEW p \in Path, Applies(e, p) PROVE Others(e)
  BY <1>2, OthersApply
<1>3. ASSUME \/ UploadBlobs(e) \/ ListManifest(e) \/ GetManifest(e) \/ PushManifest(e)
             \/ RetryPush(e) \/ \E p \in Path : AbortOnConflict(e, p)
      PROVE  Others(e)
  BY <1>3, OthersUntouched, Zenon
<1> QED BY <1>1, <1>2, <1>3, Zenon DEF SyncStep, Applies, Ends

\* Whoever steps: either it leaves the syncs alone, or it is the sync of one device.
LEMMA StepsKept ==
    ASSUME TypeOK, TypeOK', IsFiniteSet(Path), [Next]_vars, NEW d \in Device, pc[d] # "idle"
    PROVE  StepsLeft(d)' <= StepsLeft(d)
<1>1. StepsLeft(d) \in Int /\ StepsLeft(d)' \in Int
  <2>1. StepsLeft(d) \in 0 .. StepsOfSync
    BY StepsBounded
  <2>2. StepsLeft(d)' \in 0 .. StepsOfSync
    BY StepsBoundedNext
  <2>3. StepsOfSync \in Int
    BY FS_CardinalityType, EngineAssumption, Products DEF StepsOfSync
  <2> QED BY <2>1, <2>2, <2>3
<1>2. ASSUME UNCHANGED <<pc, attempt, todo>> PROVE StepsLeft(d)' <= StepsLeft(d)
  <2>1. pc'[d] = pc[d] /\ attempt'[d] = attempt[d] /\ todo'[d] = todo[d]
    BY <1>2
  <2>2. StepsLeft(d)' = StepsLeft(d)
    BY <2>1 DEF StepsLeft
  <2> QED BY <1>1, <2>2
<1>3. ASSUME NEW e \in Device, e # d, Others(e) PROVE StepsLeft(d)' <= StepsLeft(d)
  BY <1>1, <1>3, StepsOthers
<1>4. ASSUME NEW e \in Device, StartSync(e) PROVE StepsLeft(d)' <= StepsLeft(d)
  BY <1>3, <1>4, OthersUntouched DEF StartSync
<1>5. ASSUME NEW e \in Device, SyncStep(e) \/ FailSync(e) PROVE StepsLeft(d)' <= StepsLeft(d)
  <2>1. CASE e = d
    BY <1>1, <1>5, <2>1, StepsDecrease, EndDecreases DEF Ends
  <2>2. CASE e # d
    BY <1>3, <1>5, <2>2, OthersOfStep
  <2> QED BY <2>1, <2>2
<1>6. ASSUME NEW e \in Device, NEW p \in Path,
             Configure(e, p) \/ \E c \in Content \cup {Absent} : EditFile(e, p, c)
      PROVE  StepsLeft(d)' <= StepsLeft(d)
  BY <1>2, <1>6 DEF Configure, EditFile, runVars
<1>7. ASSUME UNCHANGED vars PROVE StepsLeft(d)' <= StepsLeft(d)
  BY <1>2, <1>7 DEF vars, runVars
<1> QED BY <1>4, <1>5, <1>6, <1>7 DEF Next, Rest

\* However often others win the race, a sync that is not cut short ends after at
\* most MAX_CAS_RETRIES rounds over all paths: what it may still take is bounded
\* from the start, every step of its own takes from it, and nobody else's step
\* adds to it (engine.rs:538).  It is the measure behind SyncTerminates.
THEOREM SyncTakesFewSteps ==
    ASSUME IsFiniteSet(Path)
    PROVE  Spec => /\ [](\A d \in Device : StepsLeft(d) \in 0 .. StepsOfSync)
                   /\ [][\A d \in Device :
                            /\ pc[d] # "idle" => StepsLeft(d)' <= StepsLeft(d)
                            /\ SyncStep(d) => StepsLeft(d)' < StepsLeft(d)]_vars
<1>1. TypeOK => \A d \in Device : StepsLeft(d) \in 0 .. StepsOfSync
  BY StepsBounded
<1>2. TypeOK /\ TypeOK' /\ [Next]_vars =>
         [\A d \in Device : /\ pc[d] # "idle" => StepsLeft(d)' <= StepsLeft(d)
                            /\ SyncStep(d) => StepsLeft(d)' < StepsLeft(d)]_vars
  BY StepsKept, StepsDecrease
<1> QED BY <1>1, <1>2, TypeCorrect, PTL DEF Spec

=============================================================================
