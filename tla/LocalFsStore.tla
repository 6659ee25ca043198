---------------------------- MODULE LocalFsStore ----------------------------
(***************************************************************************)
(* The store in a directory (crates/cs-storage/src/local_fs.rs): each      *)
(* object is a file, its ETag a counter in a sidecar file next to it.  put *)
(* and delete take two locks, a mutex of their process and a lock file of  *)
(* the directory, and do under them                                        *)
(*                                                                         *)
(*     put:     check the tag -> write the object -> bump the tag          *)
(*     delete:  drop the tag -> unlink the object                          *)
(*                                                                         *)
(* list and get take no lock and see every intermediate state.  A call may *)
(* break off at any point: its process dies, the disk is full.  Its locks  *)
(* are then free, its traces stay on the disk.  That the tag could not be  *)
(* dropped does not stop a delete: the tag outlives the object then.       *)
(***************************************************************************)
EXTENDS Integers

CONSTANTS
    Client,       \* the tasks that call the store, one call at a time each
    Process,      \* the processes they run in
    Name,         \* the names of objects; others are turned down
    Free,         \* the holder of a lock nobody holds
    RemoveMayFail,\* whether a sidecar may resist its removal
    MaxPuts,      \* how many puts
    MaxDeletes,   \* deletes
    MaxLists,     \* listings
    MaxBreaks     \* and calls that break off there are

ASSUME StoreAssumption ==
    /\ Free \notin Client /\ RemoveMayFail \in BOOLEAN
    /\ {MaxPuts, MaxDeletes, MaxLists, MaxBreaks} \subseteq Nat

VARIABLES
    file,      \* file[n]: the bytes of n, named by the number of the put; 0 if absent
    sidecar,   \* sidecar[n]: the counter in n's sidecar, 0 if there is none
    home,      \* home[c]: the process c runs in
    mutex,     \* mutex[p]: who holds put_lock in process p
    flock,     \* who holds .cas.lock
    pc,        \* pc[c]: the next step of c's call
    call,      \* call[c]: the call of c that is under way
    answer,    \* answer[c]: what c was told last
    found,     \* found[c]: the object as c found it under the locks
    walk,      \* walk[c]: the files c's listing has yet to look at
    tags,      \* tags[c][n]: what c will expect of n: the ETag last listed, or IfNew
    saw,       \* saw[c][n]: the bytes c has read since that listing, Unread if none
    spent,     \* how many puts, deletes, listings, breaks there were
    acked,     \* history: the acknowledged puts, as [name, etag, bytes]
    erased,    \* history: the names that were deleted, or were about to be
    torn       \* history: the names a call on which broke off half done

diskVars == <<file, sidecar>>
lockVars == <<home, mutex, flock>>
callVars == <<pc, call, answer, found>>
readVars == <<walk, tags, saw>>
pastVars == <<acked, erased, torn>>
vars == <<diskVars, lockVars, callVars, readVars, spent, pastVars>>

\* The object that the disk holds for n; while a call is half done, the one
\* that it found.
HalfDone(c) == pc[c] \in {"bump", "unlink"}

Stored(n) ==
    IF \E c \in Client : HalfDone(c) /\ call[c].name = n
    THEN found[CHOOSE c \in Client : HalfDone(c) /\ call[c].name = n]
    ELSE [etag |-> sidecar[n], bytes |-> file[n]]

Contract == INSTANCE ConditionalStore WITH
    objects <- [n \in Name |-> Stored(n)], TagMayStay <- RemoveMayFail

Always  == Contract!Always
IfNew   == Contract!IfNew
Refused == Contract!Refused
Failed  == Contract!Failed
Missing == Contract!Missing
Done    == Contract!Done
Pending == Contract!Pending
Unread  == -1

-----------------------------------------------------------------------------
Init ==
    /\ file = [n \in Name |-> 0]
    /\ sidecar = [n \in Name |-> 0]
    /\ home \in [Client -> Process]
    /\ mutex = [p \in Process |-> Free]
    /\ flock = Free
    /\ pc = [c \in Client |-> "idle"]
    /\ call = [c \in Client |-> Contract!NoCall]
    /\ answer = [c \in Client |-> Done]
    /\ found = [c \in Client |-> Contract!Nothing]
    /\ walk = [c \in Client |-> {}]
    /\ tags = [c \in Client |-> [n \in Name |-> IfNew]]
    /\ saw = [c \in Client |-> [n \in Name |-> Unread]]
    /\ spent = [put |-> 0, delete |-> 0, list |-> 0, break |-> 0]
    /\ acked = {}
    /\ erased = {}
    /\ torn = {}

Spend(what, max) == spent[what] < max /\ spent' = [spent EXCEPT ![what] = @ + 1]

Goto(c, step) == pc' = [pc EXCEPT ![c] = step]

\* Mutant: a call that is over keeps the mutex of its process.
UnlockFile(c) ==
    /\ flock' = IF flock = c THEN Free ELSE flock
    /\ UNCHANGED <<home, mutex>>

\* The guards of both locks go out of scope, in whatever state they are.
Unlock(c) ==
    /\ mutex' = [p \in Process |-> IF mutex[p] = c THEN Free ELSE mutex[p]]
    /\ flock' = IF flock = c THEN Free ELSE flock
    /\ UNCHANGED home

Return(c, reply) ==
    /\ answer' = [answer EXCEPT ![c] = reply]
    /\ call' = [call EXCEPT ![c] = Contract!NoCall]
    /\ found' = [found EXCEPT ![c] = Contract!Nothing]
    /\ Goto(c, "idle")
    /\ Unlock(c)

-----------------------------------------------------------------------------
\* A put expects what the caller has listed, or nothing at all.
Start(c, k) ==
    /\ pc[c] = "idle"
    /\ Goto(c, "lock")
    /\ call' = [call EXCEPT ![c] = k]
    /\ answer' = [answer EXCEPT ![c] = Pending]
    /\ UNCHANGED <<diskVars, lockVars, found, readVars, pastVars>>

StartPut(c) ==
    /\ Spend("put", MaxPuts)
    /\ \E n \in Name : \E want \in {Always, tags[c][n]} :
          Start(c, [op |-> "put", name |-> n, want |-> want, bytes |-> spent.put + 1])

StartDelete(c) ==
    /\ Spend("delete", MaxDeletes)
    /\ \E n \in Name : Start(c, [op |-> "delete", name |-> n, want |-> Always, bytes |-> 0])

LockProcess(c) ==
    /\ pc[c] = "lock"
    /\ mutex[home[c]] = Free
    /\ mutex' = [mutex EXCEPT ![home[c]] = c]
    /\ Goto(c, "flock")
    /\ UNCHANGED <<diskVars, home, flock, call, answer, found, readVars, spent, pastVars>>

\* Mutant: the lock file is opened but never locked.
AnyoneMayLock == TRUE

MayLock == flock = Free

LockDirectory(c) ==
    /\ pc[c] = "flock"
    /\ MayLock
    /\ flock' = c
    /\ Goto(c, IF call[c].op = "put" THEN "check" ELSE "drop")
    /\ UNCHANGED <<diskVars, home, mutex, call, answer, found, readVars, spent, pastVars>>

-----------------------------------------------------------------------------
\* Mutant: an object without a sidecar counts as absent.
SatisfiedBySidecar(n, want) == \/ want = Always
                               \/ sidecar[n] # 0 /\ sidecar[n] = want
                               \/ sidecar[n] = 0 /\ want = IfNew

Satisfied(n, want) == \/ want = Always
                      \/ sidecar[n] # 0 /\ sidecar[n] = want
                      \/ sidecar[n] = 0 /\ want = IfNew /\ file[n] = 0

CheckTag(c) ==
    LET n == call[c].name
    IN  /\ pc[c] = "check"
        /\ \/ /\ Satisfied(n, call[c].want)
              /\ found' = [found EXCEPT ![c] = [etag |-> sidecar[n], bytes |-> file[n]]]
              /\ Goto(c, "write")
              /\ UNCHANGED <<lockVars, call, answer>>
           \/ /\ ~Satisfied(n, call[c].want)
              /\ Return(c, Refused)
        /\ UNCHANGED <<diskVars, readVars, spent, pastVars>>

\* The new bytes are renamed over the old ones.
WriteObject(c) ==
    /\ pc[c] = "write"
    /\ file' = [file EXCEPT ![call[c].name] = call[c].bytes]
    /\ Goto(c, "bump")
    /\ UNCHANGED <<sidecar, lockVars, call, answer, found, readVars, spent, pastVars>>

\* Mutants: the counter stays, or only conditional puts write it.
SameTag(n, k) == IF sidecar[n] = 0 THEN 1 ELSE sidecar[n]
TagIfAsked(n, k) == IF k.want = Always THEN sidecar[n] ELSE sidecar[n] + 1

NextTag(n, k) == sidecar[n] + 1

BumpTag(c) ==
    LET n   == call[c].name
        tag == NextTag(n, call[c])
    IN  /\ pc[c] = "bump"
        /\ sidecar' = [sidecar EXCEPT ![n] = tag]
        /\ acked' = acked \cup {[name |-> n, etag |-> tag, bytes |-> call[c].bytes]}
        /\ Return(c, tag)
        /\ UNCHANGED <<file, readVars, spent, erased, torn>>

\* The error of removing the sidecar is dropped.
RemoveSidecar(n) == \/ sidecar' = [sidecar EXCEPT ![n] = 0]
                    \/ RemoveMayFail /\ UNCHANGED sidecar

DropTag(c) ==
    LET n == call[c].name
    IN  /\ pc[c] = "drop"
        /\ found' = [found EXCEPT ![c] = [etag |-> sidecar[n], bytes |-> file[n]]]
        /\ RemoveSidecar(n)
        /\ erased' = erased \cup {n}
        /\ Goto(c, "unlink")
        /\ UNCHANGED <<file, lockVars, call, answer, readVars, spent, acked, torn>>

Unlink(c) ==
    LET n == call[c].name
    IN  /\ pc[c] = "unlink"
        /\ file' = [file EXCEPT ![n] = 0]
        /\ Return(c, IF file[n] = 0 THEN Missing ELSE Done)
        /\ UNCHANGED <<sidecar, readVars, spent, pastVars>>

BreakOff(c) ==
    /\ answer[c] = Pending
    /\ Spend("break", MaxBreaks)
    /\ Return(c, Failed)
    /\ torn' = IF HalfDone(c) THEN torn \cup {call[c].name} ELSE torn
    /\ UNCHANGED <<diskVars, readVars, acked, erased>>

-----------------------------------------------------------------------------
\* list opens the directory, then looks at one file after the other.
StartList(c) ==
    /\ pc[c] = "idle"
    /\ Spend("list", MaxLists)
    /\ walk' = [walk EXCEPT ![c] = {n \in Name : file[n] # 0}]
    /\ tags' = [tags EXCEPT ![c] = [n \in Name |-> IfNew]]
    /\ saw' = [saw EXCEPT ![c] = [n \in Name |-> Unread]]
    /\ Goto(c, "walk")
    /\ UNCHANGED <<diskVars, lockVars, call, answer, found, pastVars>>

\* A file that has vanished fails the listing; one without a sidecar has tag 0.
VisitFile(c) ==
    /\ pc[c] = "walk"
    /\ \E n \in walk[c] :
          \/ /\ file[n] # 0
             /\ tags' = [tags EXCEPT ![c][n] = sidecar[n]]
             /\ walk' = [walk EXCEPT ![c] = @ \ {n}]
             /\ UNCHANGED pc
          \/ /\ file[n] = 0
             /\ tags' = [tags EXCEPT ![c] = [m \in Name |-> IfNew]]
             /\ walk' = [walk EXCEPT ![c] = {}]
             /\ Goto(c, "idle")
    /\ UNCHANGED <<diskVars, lockVars, call, answer, found, saw, spent, pastVars>>

EndList(c) ==
    /\ pc[c] = "walk" /\ walk[c] = {}
    /\ Goto(c, "idle")
    /\ UNCHANGED <<diskVars, lockVars, call, answer, found, readVars, spent, pastVars>>

\* Of what c reads only what it has listed before matters to its puts.
GetObject(c) ==
    /\ pc[c] = "idle"
    /\ \E n \in Name :
          /\ tags[c][n] # IfNew /\ saw[c][n] = Unread
          /\ saw' = [saw EXCEPT ![c][n] = file[n]]
    /\ UNCHANGED <<diskVars, lockVars, callVars, walk, tags, spent, pastVars>>

Step(c) ==
    \/ LockProcess(c) \/ LockDirectory(c) \/ CheckTag(c)
    \/ WriteObject(c) \/ BumpTag(c) \/ DropTag(c) \/ Unlink(c)
    \/ VisitFile(c) \/ EndList(c)

Next == \E c \in Client : \/ StartPut(c) \/ StartDelete(c) \/ StartList(c)
                          \/ GetObject(c) \/ Step(c) \/ BreakOff(c)

Spec == Init /\ [][Next]_vars

FairSpec == Spec /\ \A c \in Client : WF_vars(Step(c))

-----------------------------------------------------------------------------
(* Properties *)

\* c is in the part of put or delete that both locks guard.
Locked(c) == pc[c] \in {"check", "write", "bump", "drop", "unlink"}

TypeOK ==
    /\ file \in [Name -> 0 .. MaxPuts]
    /\ sidecar \in [Name -> Nat]
    /\ home \in [Client -> Process]
    /\ mutex \in [Process -> Client \cup {Free}]
    /\ flock \in Client \cup {Free}
    /\ \A c \in Client : flock = c <=> Locked(c)
    /\ \A c \in Client, p \in Process :
          mutex[p] = c <=> p = home[c] /\ (Locked(c) \/ pc[c] = "flock")
    /\ pc \in [Client -> {"idle", "lock", "flock", "check", "write", "bump",
                          "drop", "unlink", "walk"}]
    /\ call \in [Client -> Contract!Call \cup {Contract!NoCall}]
    /\ answer \in [Client -> Nat \cup {Refused, Failed, Missing, Done, Pending}]
    /\ found \in [Client -> Contract!Object]
    /\ walk \in [Client -> SUBSET Name]
    /\ tags \in [Client -> [Name -> Nat \cup {IfNew}]]
    /\ saw \in [Client -> [Name -> Nat \cup {Unread}]]
    /\ erased \subseteq Name /\ torn \subseteq Name

\* As long as n is not deleted, an ETag that put returned stands for one put.
TagNamesOnePut ==
    \A a, b \in acked :
        a.name = b.name /\ a.etag = b.etag /\ a.name \notin erased => a.bytes = b.bytes

\* When nobody writes, an object lacks its sidecar only after a call on it
\* broke off: the listing shows ETag 0 then, which no put will ever match.
UntaggedOnlyIfTorn ==
    flock = Free => \A n \in Name : file[n] # 0 /\ sidecar[n] = 0 => n \in torn

\* What a listed ETag is for: a caller that listed n, then read it, and then
\* puts with that ETag, replaces acknowledged bytes only if it has read them.
\* list and get are not locked, so this rests on the order write, then bump.
\* Once n was deleted its counter starts again and the promise is off.
ReplacesWhatItSaw ==
    [][\A c \in Client : LET n == call[c].name IN
          /\ pc[c] = "write" /\ pc'[c] = "bump"
          /\ call[c].want > 0 /\ n \notin erased /\ saw[c][n] # Unread
          /\ \E a \in acked : a.name = n /\ a.bytes = file[n]
          => saw[c][n] = file[n]]_vars

\* The locked part of put and delete is one step for everyone who writes:
\* the expectation is checked against the object that the put replaces.  If a
\* sidecar may resist its removal, a deleted object may leave its ETag behind,
\* and a put that must be the first is refused then; if none does, never.
ImplementsContract == Contract!ContractSpec

\* Nobody waits for a lock for ever, whoever dies.
EveryCallReturns == \A c \in Client : answer[c] = Pending ~> answer[c] # Pending
=============================================================================
