---------------------------- MODULE GDriveStore -----------------------------
(***************************************************************************)
(* The store on Google Drive (crates/cs-storage/src/gdrive.rs).  Drive has *)
(* files with ids and no conditional writes, so all objects are entered in *)
(* an index file, whose version serves as the ETag of each of them:        *)
(*                                                                         *)
(*     put:     load the index and check -> write the file                 *)
(*              -> [look for an index file or create it] -> save the index *)
(*     delete:  load the index -> delete the file -> save the index        *)
(*                                                                         *)
(* The mutex that makes this one step is the instance's own: other devices *)
(* come in between.  An instance caches the index it has last read for     *)
(* list and get, or written; put and delete read it anew.                  *)
(***************************************************************************)
EXTENDS Integers

CONSTANTS
    Client,        \* the store instances, one per device, one call at a time
    Name,          \* the names of objects
    MaxPuts, MaxDeletes, MaxLists,   \* how many calls of each kind there are
    MaxBreaks      \* and how many requests fail: an error, a loss, a crash

ASSUME DriveAssumption == {MaxPuts, MaxDeletes, MaxLists, MaxBreaks} \subseteq Nat

Always == -1     \* if_match: None
IfNew  == -2     \* if_match: the empty ETag
Unread == -1     \* not read since it was listed

FileId   == 1 .. MaxPuts  \* every put creates at most one file of an object
IndexId  == 1 .. MaxPuts  \* and at most one index file
None     == 0             \* no file, no bytes
NoCall   == [op |-> "none", name |-> None, want |-> Always, bytes |-> None]

\* Index::default: the index of a folder without an index file.
NewIndex == [id |-> None, version |-> 0, files |-> [n \in Name |-> None]]
NoIndex  == [NewIndex EXCEPT !.version = -1]

VARIABLES
    drive,     \* drive[f]: the bytes of file f, None if there is no such file
    created,   \* how many files of objects were created
    indexes,   \* indexes[i]: the index file i, NoIndex if there is none
    cache,     \* cache[c]: the index instance c has cached, or NoIndex
    pc,        \* pc[c]: the next step of c's call
    call,      \* call[c]: the call
    work,      \* work[c]: the index as loaded and changed by the call
    tags,      \* tags[c][n]: the ETag of n as c has listed it
    saw,       \* saw[c][n]: the bytes of n that c has read since
    spent,     \* how many puts, deletes, listings and failures there were
    acked,     \* history: acked[n]: the bytes of n last acknowledged
    mixed,     \* history: two calls that write were under way at once
    torn       \* history: the names a call on which broke off half-way

driveVars == <<drive, created, indexes>>
readVars  == <<tags, saw>>
pastVars  == <<acked, mixed, torn>>
vars == <<driveVars, cache, pc, call, work, readVars, spent, pastVars>>

Init ==
    /\ drive = [f \in FileId |-> None]
    /\ created = 0
    /\ indexes = [i \in IndexId |-> NoIndex]
    /\ cache = [c \in Client |-> NoIndex]
    /\ pc = [c \in Client |-> "idle"]
    /\ call = [c \in Client |-> NoCall]
    /\ work = [c \in Client |-> NoIndex]
    /\ tags = [c \in Client |-> [n \in Name |-> IfNew]]
    /\ saw = [c \in Client |-> [n \in Name |-> Unread]]
    /\ spent = [put |-> 0, delete |-> 0, list |-> 0, break |-> 0]
    /\ acked = [n \in Name |-> None]
    /\ mixed = FALSE
    /\ torn = {}

Spend(what, max) == spent[what] < max /\ spent' = [spent EXCEPT ![what] = @ + 1]

-----------------------------------------------------------------------------
(* The index.  Its file is found by name; of several any may come first.     *)

Found == {i \in IndexId : indexes[i] # NoIndex}

\* What Drive may answer to one who looks for the index and downloads it.
Lookup == IF Found = {} THEN {NewIndex} ELSE {[indexes[i] EXCEPT !.id = i] : i \in Found}

\* load_index, for list and get: from the cache, or from Drive and then cached.
LoadCache(c) ==
    /\ pc[c] = "idle" /\ cache[c] = NoIndex
    /\ \E index \in Lookup : cache' = [cache EXCEPT ![c] = index]
    /\ UNCHANGED <<driveVars, pc, call, work, readVars, spent, pastVars>>

\* Mutant: put and delete work on the cached index, too.
CachedBase(c) == IF cache[c] = NoIndex THEN Lookup ELSE {cache[c]}

\* load_index_locked, for put and delete: always from Drive.
Base(c) == Lookup

-----------------------------------------------------------------------------
(* Calls that write.                                                         *)

Start(c, k) ==
    /\ pc[c] = "idle"
    /\ pc' = [pc EXCEPT ![c] = "load"]
    /\ call' = [call EXCEPT ![c] = k]
    /\ UNCHANGED <<driveVars, cache, work, readVars, pastVars>>

StartPut(c) ==
    /\ Spend("put", MaxPuts)
    /\ \E n \in Name : \E want \in {Always, tags[c][n]} :
          Start(c, [op |-> "put", name |-> n, want |-> want, bytes |-> spent.put + 1])

StartDelete(c) ==
    /\ Spend("delete", MaxDeletes)
    /\ \E n \in Name : Start(c, [op |-> "delete", name |-> n, want |-> Always, bytes |-> None])

\* Mutant: the next call begins with what this one had loaded.
EndOnly(c) == pc' = [pc EXCEPT ![c] = "idle"] /\ UNCHANGED <<call, work>>

End(c) ==
    /\ pc' = [pc EXCEPT ![c] = "idle"]
    /\ call' = [call EXCEPT ![c] = NoCall]
    /\ work' = [work EXCEPT ![c] = NoIndex]

\* Whether the index that was loaded is the one the caller expects.  What must
\* be absent is the index itself, not only the object.
Satisfied(want, index) ==
    \/ want = Always
    \/ want = IfNew /\ index.id = None /\ index.version = 0
    \/ want >= 0 /\ want = index.version

\* A put whose expectation fails is refused, a delete of nothing is not found.
LoadIndex(c) ==
    /\ pc[c] = "load"
    /\ \E index \in Base(c) :
          LET goesOn == IF call[c].op = "put" THEN Satisfied(call[c].want, index)
                                              ELSE index.files[call[c].name] # None
          IN  \/ /\ goesOn
                 /\ pc' = [pc EXCEPT ![c] = "write"]
                 /\ work' = [work EXCEPT ![c] = index]
                 /\ UNCHANGED call
              \/ ~goesOn /\ End(c)
    /\ mixed' = (mixed \/ \E d \in Client \ {c} : pc[d] \notin {"idle", "load"})
    /\ UNCHANGED <<driveVars, cache, readVars, spent, acked, torn>>

\* Mutant: a put leaves the version of the index alone.
Unversioned(index, n, f) == [index EXCEPT !.files[n] = f]

Changed(index, n, f) == [index EXCEPT !.files[n] = f, !.version = @ + 1]

NextStep(c) == IF work[c].id = None THEN "find" ELSE "save"

ReplaceContent(c) ==
    LET f == work[c].files[call[c].name]
    IN  /\ pc[c] = "write" /\ call[c].op = "put" /\ f # None
        /\ IF drive[f] # None
           THEN /\ drive' = [drive EXCEPT ![f] = call[c].bytes]
                /\ work' = [work EXCEPT ![c] = Changed(@, call[c].name, f)]
                /\ pc' = [pc EXCEPT ![c] = NextStep(c)]
                /\ UNCHANGED call
           ELSE End(c) /\ UNCHANGED drive      \* 404: deleted in the meantime
        /\ UNCHANGED <<created, indexes, cache, readVars, spent, pastVars>>

CreateFile(c) ==
    /\ pc[c] = "write" /\ call[c].op = "put" /\ work[c].files[call[c].name] = None
    /\ created' = created + 1
    /\ drive' = [drive EXCEPT ![created'] = call[c].bytes]
    /\ work' = [work EXCEPT ![c] = Changed(@, call[c].name, created')]
    /\ pc' = [pc EXCEPT ![c] = NextStep(c)]
    /\ UNCHANGED <<indexes, cache, call, readVars, spent, pastVars>>

\* A file that is gone already (404) counts as deleted.
DeleteFile(c) ==
    /\ pc[c] = "write" /\ call[c].op = "delete"
    /\ drive' = [drive EXCEPT ![work[c].files[call[c].name]] = None]
    /\ work' = [work EXCEPT ![c] = Changed(@, call[c].name, None)]
    /\ pc' = [pc EXCEPT ![c] = NextStep(c)]
    /\ UNCHANGED <<created, indexes, cache, call, readVars, spent, pastVars>>

\* No index file was there when the index was loaded.  One that has appeared is
\* taken over; if there is none, or the search fails, one is created.
FindIndexFile(c) ==
    /\ pc[c] = "find"
    /\ \/ \E i \in Found :
             /\ work' = [work EXCEPT ![c].id = i]
             /\ UNCHANGED <<indexes, spent>>
       \/ /\ IF Found = {} THEN UNCHANGED spent ELSE Spend("break", MaxBreaks)
          /\ work' = [work EXCEPT ![c].id = call[c].bytes]
          /\ indexes' = [indexes EXCEPT ![call[c].bytes] = work[c]]
    /\ pc' = [pc EXCEPT ![c] = "save"]
    /\ UNCHANGED <<drive, created, cache, call, readVars, pastVars>>

SaveIndex(c) ==
    /\ pc[c] = "save"
    /\ indexes' = [indexes EXCEPT ![work[c].id] = work[c]]
    /\ cache' = [cache EXCEPT ![c] = work[c]]
    /\ acked' = [acked EXCEPT ![call[c].name] = call[c].bytes]
    /\ End(c)
    /\ UNCHANGED <<drive, created, readVars, spent, mixed, torn>>

\* A request fails before or after Drive has acted on it, or the device stops.
BreakOff(c) ==
    /\ pc[c] # "idle"
    /\ Spend("break", MaxBreaks)
    /\ \/ UNCHANGED indexes
       \/ pc[c] = "save" /\ indexes' = [indexes EXCEPT ![work[c].id] = work[c]]
    /\ torn' = IF pc[c] = "load" THEN torn ELSE torn \cup {call[c].name}
    /\ End(c)
    /\ UNCHANGED <<drive, created, cache, readVars, acked, mixed>>

-----------------------------------------------------------------------------
(* Calls that read.                                                          *)

\* Every object is listed with the version of the index.
List(c) ==
    /\ pc[c] = "idle" /\ cache[c] # NoIndex
    /\ Spend("list", MaxLists)
    /\ tags' = [tags EXCEPT ![c] =
          [n \in Name |-> IF cache[c].files[n] = None THEN IfNew ELSE cache[c].version]]
    /\ saw' = [saw EXCEPT ![c] = [n \in Name |-> Unread]]
    /\ UNCHANGED <<driveVars, cache, pc, call, work, pastVars>>

\* The id comes from the cached index, the bytes from Drive (404: not found).
Get(c) ==
    /\ pc[c] = "idle" /\ cache[c] # NoIndex
    /\ \E n \in Name :
          /\ tags[c][n] # IfNew /\ saw[c][n] = Unread
          /\ cache[c].files[n] # None /\ drive[cache[c].files[n]] # None
          /\ saw' = [saw EXCEPT ![c][n] = drive[cache[c].files[n]]]
    /\ UNCHANGED <<driveVars, cache, pc, call, work, tags, spent, pastVars>>

\* The next sync of the device builds a new instance, and lists before it puts.
NewInstance(c) ==
    /\ pc[c] = "idle" /\ cache[c] # NoIndex
    /\ cache' = [cache EXCEPT ![c] = NoIndex]
    /\ tags' = [tags EXCEPT ![c] = [n \in Name |-> IfNew]]
    /\ saw' = [saw EXCEPT ![c] = [n \in Name |-> Unread]]
    /\ UNCHANGED <<driveVars, pc, call, work, spent, pastVars>>

Next == \E c \in Client :
    \/ StartPut(c) \/ StartDelete(c) \/ LoadIndex(c)
    \/ ReplaceContent(c) \/ CreateFile(c) \/ DeleteFile(c)
    \/ FindIndexFile(c) \/ SaveIndex(c) \/ BreakOff(c)
    \/ LoadCache(c) \/ List(c) \/ Get(c) \/ NewInstance(c)

Spec == Init /\ [][Next]_vars

-----------------------------------------------------------------------------
(* Properties                                                                *)

Index == [id : IndexId \cup {None}, version : -1 .. MaxPuts + MaxDeletes,
          files : [Name -> FileId \cup {None}]]

TypeOK ==
    /\ drive \in [FileId -> 0 .. MaxPuts] /\ created \in 0 .. MaxPuts
    /\ indexes \in [IndexId -> Index] /\ cache \in [Client -> Index]
    /\ pc \in [Client -> {"idle", "load", "write", "find", "save"}]
    /\ \A c \in Client : pc[c] = "idle" => call[c] = NoCall /\ work[c] = NoIndex
    /\ saw \in [Client -> [Name -> 0 .. MaxPuts \cup {Unread}]]

\* The bytes that one without a cache may find under a name.
Held(n) == {IF index.files[n] = None THEN None ELSE drive[index.files[n]] : index \in Lookup}

Quiet == \A c \in Client : pc[c] \in {"idle", "load"}

\* As long as the calls that write come one after the other, from whatever
\* device and with whatever in its cache, the index leads to every object as it
\* was last acknowledged; a call that broke off half-way has touched no object
\* but its own.  (put and delete read the index anew, gdrive.rs:117.)
KeepsIfApart == Quiet /\ ~mixed => \A n \in Name \ torn : Held(n) = {acked[n]}

\* Calls apart, one who listed an object, perhaps from the cache, read it and
\* puts it with the ETag listed replaces what it has read: the version of the
\* index tells of every change in between, also of another object.
ReplacesWhatItSaw ==
    [][\A c \in Client :
          /\ pc[c] = "load" /\ pc'[c] = "write" /\ ~mixed'
          /\ call[c].want >= 0 /\ call[c].name \notin torn
          /\ saw[c][call[c].name] # Unread
          => saw[c][call[c].name] = acked[call[c].name]]_vars

\* "conditional put detects concurrent writes" (cycle3 design, section 4): the
\* index that a conditional put overwrites is the one its caller expected.
ConcurrentWritesDetected ==
    [][\A c \in Client :
          pc[c] = "save" /\ pc'[c] = "idle" /\ indexes' # indexes /\ call[c].want >= 0
          => indexes[work[c].id].version = call[c].want]_vars
=============================================================================
