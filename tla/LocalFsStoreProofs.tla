------------------------- MODULE LocalFsStoreProofs -------------------------
(***************************************************************************)
(* Proofs about LocalFsStore, for any number of tasks, processes and       *)
(* objects, and whatever calls break off where.                            *)
(***************************************************************************)
EXTENDS LocalFsStore, TLAPS

-----------------------------------------------------------------------------
(* The types, and what kind of call is at which step *)

\* c is in a put or delete, waiting for the locks or holding them.
InCall(c) == pc[c] \in {"lock", "flock", "check", "write", "bump", "drop", "unlink"}

Putting(c) == InCall(c) /\ call[c].op = "put"

CallFits(c) ==
    /\ answer[c] = Pending <=> InCall(c)
    /\ InCall(c) => call[c] \in Contract!Call
    /\ pc[c] \in {"check", "write", "bump"} => call[c].op = "put"
    /\ pc[c] \in {"drop", "unlink"} => call[c].op = "delete"
    /\ Putting(c) => call[c].bytes \in 1 .. spent.put

Counted ==
    /\ spent \in [{"put", "delete", "list", "break"} -> Nat]
    /\ spent.put <= MaxPuts
    /\ acked \subseteq [name : Name, etag : Nat, bytes : 1 .. spent.put]

TypeInv == TypeOK /\ Counted /\ \A c \in Client : CallFits(c)

\* The parts of TypeOK.
LocksOK ==
    /\ home \in [Client -> Process]
    /\ mutex \in [Process -> Client \cup {Free}]
    /\ flock \in Client \cup {Free}
    /\ \A c \in Client : flock = c <=> Locked(c)
    /\ \A c \in Client, p \in Process :
          mutex[p] = c <=> p = home[c] /\ (Locked(c) \/ pc[c] = "flock")

CallsOK ==
    /\ pc \in [Client -> {"idle", "lock", "flock", "check", "write", "bump",
                          "drop", "unlink", "walk"}]
    /\ call \in [Client -> Contract!Call \cup {Contract!NoCall}]
    /\ answer \in [Client -> Nat \cup {Refused, Failed, Missing, Done, Pending}]
    /\ found \in [Client -> Contract!Object]

ReadsOK ==
    /\ walk \in [Client -> SUBSET Name]
    /\ tags \in [Client -> [Name -> Nat \cup {IfNew}]]
    /\ saw \in [Client -> [Name -> Nat \cup {Unread}]]

DiskOK ==
    /\ file \in [Name -> 0 .. MaxPuts]
    /\ sidecar \in [Name -> Nat]
    /\ erased \subseteq Name /\ torn \subseteq Name

LEMMA TypeParts == TypeOK <=> LocksOK /\ CallsOK /\ ReadsOK /\ DiskOK
BY DEF TypeOK, LocksOK, CallsOK, ReadsOK, DiskOK

LEMMA TypePartsNext == TypeOK' <=> LocksOK' /\ CallsOK' /\ ReadsOK' /\ DiskOK'
BY TypeParts, PTL

\* What every other task has is as it was.
LEMMA OthersFit ==
    ASSUME TypeInv, NEW c \in Client, NEW e \in Client, e # c, spent'.put = spent.put,
           answer'[e] = answer[e], pc'[e] = pc[e], call'[e] = call[e]
    PROVE  CallFits(e)'
BY DEF TypeInv, CallFits, InCall, Putting

LEMMA TypeInit == Init => TypeInv
BY StoreAssumption
   DEF Init, TypeInv, TypeOK, Counted, CallFits, InCall, Putting, Locked, Done, Pending, IfNew,
       Contract!Done, Contract!Pending, Contract!IfNew, Contract!NoCall, Contract!Nothing,
       Contract!Object

LEMMA TypeStartPut == ASSUME TypeInv, NEW c \in Client, StartPut(c) PROVE TypeInv'
<1>1. TypeOK'
  BY StoreAssumption
     DEF StartPut, Start, Spend, Goto, TypeInv, TypeOK, Counted, Locked, IfNew, Always, Pending,
         Contract!Always, Contract!IfNew, Contract!Call, Contract!Pending,
         diskVars, lockVars, readVars, pastVars
<1>2. Counted' /\ spent'.put = spent.put + 1
  <2>1. /\ spent' = [spent EXCEPT !.put = @ + 1] /\ spent.put < MaxPuts
        /\ acked' = acked
    BY DEF StartPut, Start, Spend, pastVars
  <2>2. spent'.put = spent.put + 1 /\ spent.put \in Nat /\ MaxPuts \in Nat
    BY <2>1, StoreAssumption DEF TypeInv, Counted
  <2>3. 1 .. spent.put \subseteq 1 .. spent'.put
    BY <2>2
  <2> QED BY <2>1, <2>2, <2>3 DEF TypeInv, Counted
<1>3. ASSUME NEW e \in Client PROVE CallFits(e)'
  <2>1. CallFits(e)
    BY DEF TypeInv
  <2>2. CASE e # c
    BY <1>2, <2>1, <2>2
       DEF StartPut, Start, Goto, TypeInv, TypeOK, Counted, CallFits, InCall, Putting
  <2>3. CASE e = c
    BY <1>2, <2>3
       DEF StartPut, Start, Goto, TypeInv, TypeOK, Counted, CallFits, InCall, Putting,
           Contract!Call, IfNew, Always, Contract!IfNew, Contract!Always
  <2> QED BY <2>2, <2>3
<1> QED BY <1>1, <1>2, <1>3 DEF TypeInv

LEMMA TypeStartDelete == ASSUME TypeInv, NEW c \in Client, StartDelete(c) PROVE TypeInv'
<1>1. /\ spent' = [spent EXCEPT !.delete = @ + 1] /\ acked' = acked
      /\ spent'.put = spent.put
  BY DEF StartDelete, Start, Spend, pastVars, TypeInv, Counted
<1>2. TypeOK'
  BY StoreAssumption
     DEF StartDelete, Start, Goto, TypeInv, TypeOK, Locked, Always, Pending,
         Contract!Always, Contract!Call, Contract!Pending,
         diskVars, lockVars, readVars, pastVars
<1>3. Counted'
  BY <1>1 DEF TypeInv, Counted
<1>4. ASSUME NEW e \in Client PROVE CallFits(e)'
  <2>1. CASE e # c
    BY <1>1, <2>1, OthersFit DEF StartDelete, Start, Goto, TypeInv, TypeOK
  <2>2. CASE e = c
    BY <2>2 DEF StartDelete, Start, Goto, TypeInv, TypeOK, CallFits, InCall, Putting,
                Contract!Call, Always, Contract!Always
  <2> QED BY <2>1, <2>2
<1> QED BY <1>2, <1>3, <1>4 DEF TypeInv

\* Steps that take a lock, or read and write under the locks, and go on.
LEMMA TypeLocking ==
    ASSUME TypeInv, NEW c \in Client, LockProcess(c) \/ LockDirectory(c)
    PROVE  TypeInv'
<1>1. UNCHANGED <<diskVars, call, answer, found, readVars, spent, pastVars, home>>
  BY DEF LockProcess, LockDirectory
<1>2. LocksOK' /\ CallsOK'
  <2>1. CASE LockProcess(c)
    BY <1>1, <2>1, StoreAssumption
       DEF LockProcess, Goto, TypeInv, TypeOK, LocksOK, CallsOK, Locked
  <2>2. CASE LockDirectory(c)
    BY <1>1, <2>2, StoreAssumption
       DEF LockDirectory, MayLock, Goto, TypeInv, TypeOK, LocksOK, CallsOK, Locked
  <2> QED BY <2>1, <2>2
<1>3. ReadsOK' /\ DiskOK' /\ Counted'
  BY <1>1 DEF TypeInv, TypeOK, Counted, ReadsOK, DiskOK, diskVars, readVars, pastVars
<1>4. ASSUME NEW e \in Client PROVE CallFits(e)'
  <2>1. CASE e # c
    BY <1>1, <2>1, OthersFit DEF LockProcess, LockDirectory, Goto, TypeInv, TypeOK
  <2>2. CASE e = c
    BY <1>1, <2>2
       DEF LockProcess, LockDirectory, Goto, TypeInv, TypeOK, CallFits, InCall, Putting,
           Contract!Call
  <2> QED BY <2>1, <2>2
<1> QED BY <1>2, <1>3, <1>4, TypePartsNext DEF TypeInv

\* Whatever a call has come to, its end frees its locks and no others.
LEMMA TypeReturn ==
    ASSUME TypeInv, NEW c \in Client, InCall(c),
           NEW reply \in Nat \cup {Refused, Failed, Missing, Done}, Return(c, reply),
           spent'.put = spent.put
    PROVE  LocksOK' /\ CallsOK' /\ \A e \in Client : CallFits(e)'
<1>1. CallsOK'
  BY DEF Return, Goto, TypeInv, TypeOK, CallsOK, Contract!Object, Contract!Nothing
<1>2. LocksOK'
  BY StoreAssumption DEF Return, Goto, Unlock, TypeInv, TypeOK, LocksOK, Locked
<1>3. reply # Pending
  BY DEF Refused, Failed, Missing, Done, Pending, Contract!Refused, Contract!Failed,
         Contract!Missing, Contract!Done, Contract!Pending
<1>4. ASSUME NEW e \in Client PROVE CallFits(e)'
  <2>1. CASE e # c
    BY <2>1, OthersFit DEF Return, Goto, TypeInv, TypeOK
  <2>2. CASE e = c
    BY <1>3, <2>2 DEF Return, Goto, TypeInv, TypeOK, CallFits, InCall, Putting
  <2> QED BY <2>1, <2>2
<1> QED BY <1>1, <1>2, <1>4

LEMMA AtStepInCall ==
    ASSUME TypeInv, NEW c \in Client, InCall(c)
    PROVE  /\ call[c] \in Contract!Call /\ call[c].name \in Name /\ call[c].bytes \in Nat
           /\ call[c].op \in {"put", "delete"} /\ call[c].want \in Nat \cup {Always, IfNew}
           /\ Putting(c) => call[c].bytes \in 1 .. MaxPuts
           /\ sidecar[call[c].name] \in Nat /\ file[call[c].name] \in 0 .. MaxPuts
BY StoreAssumption
   DEF TypeInv, TypeOK, Counted, CallFits, Contract!Call, Always, IfNew

LEMMA TypeCheckTag == ASSUME TypeInv, NEW c \in Client, CheckTag(c) PROVE TypeInv'
<1> DEFINE n == call[c].name
<1>1. InCall(c) /\ UNCHANGED <<diskVars, readVars, spent, pastVars>>
  BY DEF CheckTag, InCall
<1>2. ReadsOK' /\ DiskOK' /\ Counted'
  BY <1>1 DEF TypeInv, TypeOK, Counted, ReadsOK, DiskOK, diskVars, readVars, pastVars
<1>3. CASE Return(c, Refused)
  BY <1>1, <1>2, <1>3, TypeReturn, TypePartsNext DEF TypeInv
<1>4. CASE /\ found' = [found EXCEPT ![c] = [etag |-> sidecar[n], bytes |-> file[n]]]
           /\ Goto(c, "write")
           /\ UNCHANGED <<lockVars, call, answer>>
  <2>1. LocksOK'
    BY <1>4 DEF CheckTag, Goto, TypeInv, TypeOK, LocksOK, Locked, lockVars
  <2>2. CallsOK'
    BY <1>1, <1>4, AtStepInCall DEF CheckTag, Goto, TypeInv, TypeOK, CallsOK, Contract!Object
  <2>3. ASSUME NEW e \in Client PROVE CallFits(e)'
    BY <1>1, <1>4, <2>3, OthersFit
       DEF CheckTag, Goto, TypeInv, TypeOK, CallFits, InCall, Putting
  <2> QED BY <1>2, <2>1, <2>2, <2>3, TypePartsNext DEF TypeInv
<1> QED BY <1>3, <1>4 DEF CheckTag

\* Steps of a call that write one of its two files and go on.
LEMMA TypeHalfWay ==
    ASSUME TypeInv, NEW c \in Client, WriteObject(c) \/ DropTag(c)
    PROVE  TypeInv'
<1> DEFINE n == call[c].name
<1>1. InCall(c) /\ UNCHANGED <<lockVars, call, answer, readVars, spent, acked, torn>>
  BY DEF WriteObject, DropTag, InCall, pastVars
<1>2. n \in Name /\ call[c].bytes \in Nat /\ (Putting(c) => call[c].bytes \in 0 .. MaxPuts)
      /\ sidecar[n] \in Nat /\ file[n] \in Nat
  BY <1>1, AtStepInCall, StoreAssumption
<1>3. ReadsOK' /\ Counted'
  BY <1>1 DEF TypeInv, TypeOK, Counted, ReadsOK, readVars
<1>4. LocksOK'
  BY <1>1 DEF WriteObject, DropTag, Goto, TypeInv, TypeOK, LocksOK, Locked, lockVars
<1>5. DiskOK' /\ CallsOK'
  <2>1. CASE WriteObject(c)
    <3>1. Putting(c)
      BY <2>1 DEF WriteObject, Putting, InCall, TypeInv, CallFits
    <3> QED BY <1>1, <1>2, <2>1, <3>1
            DEF WriteObject, Goto, TypeInv, TypeOK, DiskOK, CallsOK, pastVars
  <2>2. CASE DropTag(c)
    BY <1>1, <1>2, <2>2
       DEF DropTag, RemoveSidecar, Goto, TypeInv, TypeOK, DiskOK, CallsOK, Contract!Object
  <2> QED BY <2>1, <2>2
<1>6. ASSUME NEW e \in Client PROVE CallFits(e)'
  BY <1>1, <1>6, OthersFit
     DEF WriteObject, DropTag, Goto, TypeInv, TypeOK, CallFits, InCall, Putting
<1> QED BY <1>3, <1>4, <1>5, <1>6, TypePartsNext DEF TypeInv

LEMMA TypeBumpTag == ASSUME TypeInv, NEW c \in Client, BumpTag(c) PROVE TypeInv'
<1> DEFINE n   == call[c].name
           tag == NextTag(n, call[c])
<1>1. Putting(c) /\ UNCHANGED <<file, readVars, spent, erased, torn>>
  BY DEF BumpTag, InCall, Putting, TypeInv, CallFits
<1>2. n \in Name /\ tag \in Nat /\ call[c].bytes \in 1 .. spent.put
  BY <1>1, AtStepInCall DEF NextTag, Putting, TypeInv, CallFits
<1>3. Return(c, tag)
  BY DEF BumpTag
<1>4. LocksOK' /\ CallsOK' /\ \A e \in Client : CallFits(e)'
  BY <1>1, <1>2, <1>3, TypeReturn DEF Putting
<1>5. ReadsOK' /\ DiskOK'
  BY <1>1, <1>2 DEF BumpTag, TypeInv, TypeOK, ReadsOK, DiskOK, readVars
<1>6. Counted'
  <2>1. acked' = acked \cup {[name |-> n, etag |-> tag, bytes |-> call[c].bytes]}
    BY DEF BumpTag
  <2> QED BY <1>1, <1>2, <2>1 DEF TypeInv, Counted
<1> QED BY <1>4, <1>5, <1>6, TypePartsNext DEF TypeInv

LEMMA TypeUnlink == ASSUME TypeInv, NEW c \in Client, Unlink(c) PROVE TypeInv'
<1>1. InCall(c) /\ UNCHANGED <<sidecar, readVars, spent, pastVars>>
  BY DEF Unlink, InCall
<1>2. \E reply \in {Missing, Done} : Return(c, reply)
  BY DEF Unlink
<1>3. LocksOK' /\ CallsOK' /\ \A e \in Client : CallFits(e)'
  BY <1>1, <1>2, TypeReturn
<1>4. ReadsOK' /\ Counted'
  BY <1>1 DEF TypeInv, TypeOK, Counted, ReadsOK, readVars, pastVars
<1>5. DiskOK'
  <2>1. file' = [file EXCEPT ![call[c].name] = 0] /\ 0 \in 0 .. MaxPuts
    BY StoreAssumption DEF Unlink
  <2>2. sidecar' = sidecar /\ erased' = erased /\ torn' = torn
    BY <1>1 DEF pastVars
  <2> QED BY <2>1, <2>2 DEF TypeInv, TypeOK, DiskOK
<1> QED BY <1>3, <1>4, <1>5, TypePartsNext DEF TypeInv

LEMMA TypeBreakOff == ASSUME TypeInv, NEW c \in Client, BreakOff(c) PROVE TypeInv'
<1>1. InCall(c) /\ Return(c, Failed) /\ UNCHANGED <<diskVars, readVars, acked, erased>>
  BY DEF BreakOff, TypeInv, CallFits
<1>2. spent' = [spent EXCEPT !.break = @ + 1]
  BY DEF BreakOff, Spend
<1>3. spent'.put = spent.put /\ Counted'
  BY <1>1, <1>2 DEF TypeInv, Counted
<1>4. LocksOK' /\ CallsOK' /\ \A e \in Client : CallFits(e)'
  BY <1>1, <1>3, TypeReturn
<1>5. ReadsOK' /\ DiskOK'
  BY <1>1, AtStepInCall DEF BreakOff, TypeInv, TypeOK, ReadsOK, DiskOK, diskVars, readVars
<1> QED BY <1>3, <1>4, <1>5, TypePartsNext DEF TypeInv

\* Reading touches neither locks nor the disk.
Reads(c) == StartList(c) \/ VisitFile(c) \/ EndList(c) \/ GetObject(c)

LEMMA ReadsQuietly ==
    ASSUME TypeInv, NEW c \in Client, Reads(c)
    PROVE  /\ UNCHANGED <<diskVars, lockVars, call, answer, found, pastVars>>
           /\ pc[c] \in {"idle", "walk"}
           /\ pc' \in {pc, [pc EXCEPT ![c] = "idle"], [pc EXCEPT ![c] = "walk"]}
           /\ spent'.put = spent.put /\ Counted'
<1>1. UNCHANGED <<diskVars, lockVars, call, answer, found, pastVars>>
      /\ pc[c] \in {"idle", "walk"}
      /\ pc' \in {pc, [pc EXCEPT ![c] = "idle"], [pc EXCEPT ![c] = "walk"]}
  BY DEF Reads, StartList, VisitFile, EndList, GetObject, Goto, callVars
<1>2. spent' \in {spent, [spent EXCEPT !.list = @ + 1]}
  BY DEF Reads, StartList, VisitFile, EndList, GetObject, Spend
<1> QED BY <1>1, <1>2 DEF TypeInv, Counted, pastVars

LEMMA ReadsAlone ==
    ASSUME TypeInv, NEW c \in Client, Reads(c)
    PROVE  pc'[c] \in {"idle", "walk"} /\ \A e \in Client : e # c => pc'[e] = pc[e]
<1>1. /\ pc[c] \in {"idle", "walk"}
      /\ pc' \in {pc, [pc EXCEPT ![c] = "idle"], [pc EXCEPT ![c] = "walk"]}
  BY ReadsQuietly
<1>2. pc \in [Client -> {"idle", "lock", "flock", "check", "write", "bump",
                         "drop", "unlink", "walk"}]
  BY DEF TypeInv, TypeOK
<1> QED BY <1>1, <1>2

LEMMA TypeReads == ASSUME TypeInv, NEW c \in Client, Reads(c) PROVE TypeInv'
<1>1. /\ UNCHANGED <<diskVars, lockVars, call, answer, found, pastVars>>
      /\ pc[c] \in {"idle", "walk"}
      /\ pc' \in {pc, [pc EXCEPT ![c] = "idle"], [pc EXCEPT ![c] = "walk"]}
      /\ spent'.put = spent.put /\ Counted'
  BY ReadsQuietly
<1>2. LocksOK' /\ CallsOK' /\ DiskOK'
  <2>1. LocksOK'
    BY <1>1 DEF TypeInv, TypeOK, LocksOK, Locked, lockVars
  <2>2. CallsOK'
    <3>1. CASE pc' = pc
      BY <1>1, <3>1 DEF TypeInv, TypeOK, CallsOK
    <3>2. CASE pc' = [pc EXCEPT ![c] = "idle"]
      BY <1>1, <3>2 DEF TypeInv, TypeOK, CallsOK
    <3>3. CASE pc' = [pc EXCEPT ![c] = "walk"]
      BY <1>1, <3>3 DEF TypeInv, TypeOK, CallsOK
    <3> QED BY <1>1, <3>1, <3>2, <3>3
  <2>3. DiskOK'
    BY <1>1 DEF TypeInv, TypeOK, DiskOK, diskVars, pastVars
  <2> QED BY <2>1, <2>2, <2>3
<1>3. ReadsOK'
  <2>1. CASE StartList(c)
    BY <2>1 DEF StartList, TypeInv, TypeOK, ReadsOK
  <2>2. CASE VisitFile(c)
    <3>1. saw' = saw /\ saw \in [Client -> [Name -> Nat \cup {Unread}]]
          /\ tags \in [Client -> [Name -> Nat \cup {IfNew}]]
          /\ walk \in [Client -> SUBSET Name] /\ \A n \in Name : sidecar[n] \in Nat
      BY <2>2 DEF VisitFile, TypeInv, TypeOK
    <3>2. PICK n \in walk[c] :
             \/ tags' = [tags EXCEPT ![c][n] = sidecar[n]] /\ walk' = [walk EXCEPT ![c] = @ \ {n}]
             \/ tags' = [tags EXCEPT ![c] = [m \in Name |-> IfNew]] /\ walk' = [walk EXCEPT ![c] = {}]
      BY <2>2 DEF VisitFile
    <3>3. n \in Name
      BY <3>1, <3>2
    <3>4. CASE /\ tags' = [tags EXCEPT ![c][n] = sidecar[n]]
               /\ walk' = [walk EXCEPT ![c] = @ \ {n}]
      BY <3>1, <3>3, <3>4 DEF ReadsOK
    <3>5. CASE /\ tags' = [tags EXCEPT ![c] = [m \in Name |-> IfNew]]
               /\ walk' = [walk EXCEPT ![c] = {}]
      BY <3>1, <3>5 DEF ReadsOK
    <3> QED BY <3>2, <3>4, <3>5
  <2>3. CASE EndList(c)
    BY <2>3 DEF EndList, TypeInv, TypeOK, ReadsOK, readVars
  <2>4. CASE GetObject(c)
    <3>1. \A n \in Name : file[n] \in Nat
      BY StoreAssumption DEF TypeInv, TypeOK
    <3> QED BY <2>4, <3>1 DEF GetObject, TypeInv, TypeOK, ReadsOK
  <2> QED BY <2>1, <2>2, <2>3, <2>4 DEF Reads
<1>4. ASSUME NEW e \in Client PROVE CallFits(e)'
  BY <1>1, <1>4 DEF TypeInv, TypeOK, CallFits, InCall, Putting
<1> QED BY <1>1, <1>2, <1>3, <1>4, TypePartsNext DEF TypeInv

LEMMA TypeUntouched == ASSUME TypeInv, UNCHANGED vars PROVE TypeInv'
<1>1. TypeOK'
  BY DEF TypeInv, TypeOK, Locked, vars, diskVars, lockVars, callVars, readVars, pastVars
<1>2. Counted' /\ \A e \in Client : CallFits(e)'
  BY DEF TypeInv, Counted, CallFits, InCall, Putting, vars, callVars, pastVars
<1> QED BY <1>1, <1>2 DEF TypeInv

LEMMA TypeStep == TypeInv /\ [Next]_vars => TypeInv'
<1> SUFFICES ASSUME TypeInv, [Next]_vars PROVE TypeInv'
  OBVIOUS
<1>1. ASSUME NEW c \in Client,
             StartPut(c) \/ StartDelete(c) \/ StartList(c) \/ GetObject(c) \/ Step(c) \/ BreakOff(c)
      PROVE  TypeInv'
  BY <1>1, TypeStartPut, TypeStartDelete, TypeLocking, TypeCheckTag, TypeHalfWay, TypeBumpTag,
     TypeUnlink, TypeBreakOff, TypeReads, Zenon DEF Step, Reads
<1> QED BY <1>1, TypeUntouched DEF Next

\* The locks: whoever checks, writes or bumps holds the lock of the directory
\* and the mutex of its process, and nobody else does, wherever calls break off.
THEOREM LocksAreExclusive == Spec => []TypeOK
<1>1. Spec => []TypeInv
  BY TypeInit, TypeStep, PTL DEF Spec
<1>2. TypeInv => TypeOK
  BY DEF TypeInv
<1> QED BY <1>1, <1>2, PTL

-----------------------------------------------------------------------------
(* ETags *)

\* While one task holds the locks, no other is past them.
LEMMA Alone ==
    ASSUME TypeInv, NEW c \in Client, Locked(c), NEW e \in Client, e # c
    PROVE  ~Locked(e)
BY DEF TypeInv, TypeOK

\* The steps of c other than those on the tags.
Quiet(c) == \/ StartPut(c) \/ StartDelete(c) \/ LockProcess(c) \/ LockDirectory(c)
            \/ CheckTag(c) \/ WriteObject(c) \/ Unlink(c) \/ BreakOff(c)

LEMMA QuietOnTags ==
    ASSUME NEW c \in Client, Quiet(c)
    PROVE  UNCHANGED <<sidecar, acked, erased, tags, saw>>
BY DEF Quiet, StartPut, StartDelete, Start, LockProcess, LockDirectory, CheckTag, WriteObject,
       Unlink, BreakOff, diskVars, readVars, pastVars

\* As long as n is not deleted its sidecar only grows: no ETag that was given
\* out or listed is ahead of it.
TagsBehind ==
    /\ \A a \in acked : a.name \notin erased => a.etag <= sidecar[a.name]
    /\ \A c \in Client, n \in Name : n \notin erased => tags[c][n] <= sidecar[n]

TagInv == TagsBehind /\ TagNamesOnePut

LEMMA TagInit == Init => TagInv
BY DEF Init, TagInv, TagsBehind, TagNamesOnePut, IfNew, Contract!IfNew

LEMMA TagBumpTag == ASSUME TypeInv, TagInv, NEW c \in Client, BumpTag(c) PROVE TagInv'
<1> DEFINE n   == call[c].name
           new == [name |-> n, etag |-> sidecar[n] + 1, bytes |-> call[c].bytes]
<1>1. n \in Name /\ sidecar[n] \in Nat
  BY AtStepInCall DEF BumpTag, InCall
<1>2. /\ sidecar' = [sidecar EXCEPT ![n] = sidecar[n] + 1] /\ acked' = acked \cup {new}
      /\ erased' = erased /\ tags' = tags
  BY DEF BumpTag, NextTag, readVars
<1>3. /\ sidecar'[n] = sidecar[n] + 1
      /\ \A m \in Name : sidecar'[m] \in Nat /\ sidecar[m] \in Nat /\ sidecar[m] <= sidecar'[m]
  BY <1>1, <1>2 DEF TypeInv, TypeOK
<1>4. \A a \in acked : a.name \in Name /\ a.etag \in Nat
  BY DEF TypeInv, Counted
<1>5. \A a \in acked' : a.name \notin erased' => a.etag <= sidecar'[a.name]
  BY <1>1, <1>2, <1>3, <1>4 DEF TagInv, TagsBehind
<1>6. \A e \in Client, m \in Name : m \notin erased' => tags'[e][m] <= sidecar'[m]
  <2>1. \A e \in Client, m \in Name : tags[e][m] \in Int
    BY DEF TypeInv, TypeOK, IfNew, Contract!IfNew
  <2> QED BY <1>2, <1>3, <2>1 DEF TagInv, TagsBehind
<1>7. \A a \in acked : a.name = n /\ n \notin erased => a.etag < new.etag
  BY <1>1, <1>4 DEF TagInv, TagsBehind
<1>8. TagNamesOnePut'
  BY <1>1, <1>2, <1>4, <1>7 DEF TagInv, TagNamesOnePut
<1> QED BY <1>5, <1>6, <1>8 DEF TagInv, TagsBehind

LEMMA TagDropTag == ASSUME TypeInv, TagInv, NEW c \in Client, DropTag(c) PROVE TagInv'
<1>1. /\ sidecar' \in {sidecar, [sidecar EXCEPT ![call[c].name] = 0]}
      /\ erased' = erased \cup {call[c].name} /\ acked' = acked /\ tags' = tags
  BY DEF DropTag, RemoveSidecar, readVars
<1>2. \A m \in Name : m \notin erased' => sidecar'[m] = sidecar[m] /\ m \notin erased
  BY <1>1 DEF TypeInv, TypeOK
<1>3. \A a \in acked : a.name \in Name
  BY DEF TypeInv, Counted
<1> QED BY <1>1, <1>2, <1>3 DEF TagInv, TagsBehind, TagNamesOnePut

\* A listed ETag is the one in the sidecar, or none.
LEMMA ListedTags ==
    ASSUME TypeInv, NEW c \in Client, Reads(c), NEW e \in Client, NEW n \in Name
    PROVE  tags'[e][n] \in {tags[e][n], sidecar[n], IfNew}
<1>1. CASE StartList(c)
  BY <1>1 DEF StartList, TypeInv, TypeOK
<1>2. CASE VisitFile(c)
  <2>1. PICK m \in walk[c] : \/ tags' = [tags EXCEPT ![c][m] = sidecar[m]]
                             \/ tags' = [tags EXCEPT ![c] = [k \in Name |-> IfNew]]
    BY <1>2 DEF VisitFile
  <2>2. CASE tags' = [tags EXCEPT ![c][m] = sidecar[m]]
    BY <2>2 DEF TypeInv, TypeOK
  <2>3. CASE tags' = [tags EXCEPT ![c] = [k \in Name |-> IfNew]]
    BY <2>3 DEF TypeInv, TypeOK
  <2> QED BY <2>1, <2>2, <2>3
<1>3. CASE EndList(c) \/ GetObject(c)
  BY <1>3 DEF EndList, GetObject, readVars
<1> QED BY <1>1, <1>2, <1>3 DEF Reads

LEMMA TagReads == ASSUME TypeInv, TagInv, NEW c \in Client, Reads(c) PROVE TagInv'
<1>1. UNCHANGED <<sidecar, acked, erased>>
  BY ReadsQuietly DEF diskVars, pastVars
<1>2. ASSUME NEW e \in Client, NEW n \in Name, n \notin erased
      PROVE  tags'[e][n] <= sidecar[n]
  <2>1. sidecar[n] \in Nat /\ IfNew <= sidecar[n] /\ tags[e][n] <= sidecar[n]
    BY <1>2 DEF TypeInv, TypeOK, IfNew, Contract!IfNew, TagInv, TagsBehind
  <2> QED BY <2>1, ListedTags
<1> QED BY <1>1, <1>2 DEF TagInv, TagsBehind, TagNamesOnePut

LEMMA TagStep == TypeInv /\ TagInv /\ [Next]_vars => TagInv'
<1> SUFFICES ASSUME TypeInv, TagInv, [Next]_vars PROVE TagInv'
  OBVIOUS
<1>1. ASSUME UNCHANGED <<sidecar, acked, erased, tags>> PROVE TagInv'
  BY <1>1 DEF TagInv, TagsBehind, TagNamesOnePut
<1>2. ASSUME NEW c \in Client, Quiet(c) PROVE TagInv'
  BY <1>1, <1>2, QuietOnTags
<1>3. ASSUME UNCHANGED vars PROVE TagInv'
  BY <1>1, <1>3 DEF vars, diskVars, readVars, pastVars
<1> QED BY <1>2, <1>3, TagBumpTag, TagDropTag, TagReads, Zenon DEF Next, Step, Quiet, Reads

\* An ETag that put has returned stands for one put, whoever else puts.
THEOREM TagsNameOnePut == Spec => []TagNamesOnePut
<1>1. Init => TypeInv /\ TagInv
  BY TypeInit, TagInit
<1>2. TypeInv /\ TagInv /\ [Next]_vars => (TypeInv /\ TagInv)'
  BY TypeStep, TagStep
<1>3. TypeInv /\ TagInv => TagNamesOnePut
  BY DEF TagInv
<1> QED BY <1>1, <1>2, <1>3, PTL DEF Spec

-----------------------------------------------------------------------------
(* What a call knows of the object under the locks *)

\* The object is as the call has found it, up to what the call itself has done.
FoundFits(c) ==
    LET n == call[c].name
    IN  /\ pc[c] = "write" => /\ found[c] = [etag |-> sidecar[n], bytes |-> file[n]]
                              /\ Contract!Accepts(found[c], call[c].want)
        /\ pc[c] = "bump"  => /\ found[c].etag = sidecar[n] /\ file[n] = call[c].bytes
                              /\ Contract!Accepts(found[c], call[c].want)
        /\ pc[c] = "unlink" => /\ found[c].bytes = file[n] /\ n \in erased
                               /\ \/ sidecar[n] = 0
                                  \/ RemoveMayFail /\ sidecar[n] = found[c].etag

\* put writes the object first and delete drops the tag first, so no tag is
\* without an object, wherever calls break off, unless a sidecar resisted.
TagHasFile == ~RemoveMayFail => \A n \in Name : sidecar[n] # 0 => file[n] # 0

FoundInv == TagHasFile /\ \A c \in Client : FoundFits(c)

LEMMA FoundInit == Init => FoundInv
BY DEF Init, FoundInv, FoundFits, TagHasFile

\* Nothing of what e has found changes under it.
LEMMA FoundStays ==
    ASSUME FoundInv, NEW e \in Client, pc'[e] = pc[e], UNCHANGED erased,
           ~Locked(e) \/ (found'[e] = found[e] /\ call'[e] = call[e] /\ UNCHANGED diskVars)
    PROVE  FoundFits(e)'
BY DEF FoundInv, FoundFits, Locked, diskVars, Contract!Accepts

LEMMA FoundReturn ==
    ASSUME TypeInv, NEW c \in Client, NEW reply, Return(c, reply)
    PROVE  /\ FoundFits(c)'
           /\ \A e \in Client : e # c => /\ pc'[e] = pc[e] /\ found'[e] = found[e]
                                         /\ call'[e] = call[e]
BY DEF Return, Goto, TypeInv, TypeOK, FoundFits

\* Before its check and after its end a call claims nothing of the object.
LEMMA FoundOutside ==
    ASSUME TypeInv, FoundInv, NEW c \in Client,
           \/ StartPut(c) \/ StartDelete(c) \/ LockProcess(c) \/ LockDirectory(c)
           \/ BreakOff(c) \/ Reads(c)
    PROVE  FoundInv'
<1>1. UNCHANGED diskVars /\ UNCHANGED erased
  BY ReadsQuietly DEF StartPut, StartDelete, Start, LockProcess, LockDirectory, BreakOff, pastVars
<1>2. TagHasFile'
  BY <1>1 DEF FoundInv, TagHasFile, diskVars
<1>3. ASSUME NEW e \in Client PROVE FoundFits(e)'
  <2>1. CASE BreakOff(c)
    BY <1>1, <2>1, FoundReturn, FoundStays DEF BreakOff
  <2>2. CASE Reads(c)
    <3>1. pc'[e] \in {pc[e], "idle", "walk"} /\ found' = found /\ call' = call
      BY <2>2, ReadsQuietly, ReadsAlone
    <3>2. CASE pc'[e] = pc[e]
      BY <1>1, <3>1, <3>2, FoundStays
    <3> QED BY <3>1, <3>2 DEF FoundFits
  <2>3. CASE StartPut(c) \/ StartDelete(c) \/ LockProcess(c) \/ LockDirectory(c)
    <3>1. CASE e # c
      <4>1. pc'[e] = pc[e] /\ found'[e] = found[e] /\ call'[e] = call[e]
        BY <2>3, <3>1
           DEF StartPut, StartDelete, Start, LockProcess, LockDirectory, Goto, TypeInv, TypeOK
      <4> QED BY <1>1, <4>1, FoundStays
    <3>2. CASE e = c
      <4>1. pc'[c] \in {"lock", "flock", "check", "drop"}
        BY <2>3
           DEF StartPut, StartDelete, Start, LockProcess, LockDirectory, Goto, TypeInv, TypeOK
      <4> QED BY <3>2, <4>1 DEF FoundFits
    <3> QED BY <3>1, <3>2
  <2> QED BY <2>1, <2>2, <2>3
<1> QED BY <1>2, <1>3 DEF FoundInv

\* The check is the contract's: it lets a put pass if and only if the object
\* meets the expectation, unless a deleted one has left its ETag behind.
LEMMA SatisfiedIsAccepted ==
    ASSUME TypeInv, FoundInv, NEW c \in Client, pc[c] = "check"
    PROVE  LET n == call[c].name
               o == [etag |-> sidecar[n], bytes |-> file[n]]
           IN  /\ Satisfied(n, call[c].want) => Contract!Accepts(o, call[c].want)
               /\ ~Satisfied(n, call[c].want) =>
                     \/ ~Contract!Accepts(o, call[c].want)
                     \/ call[c].want = Contract!IfNew /\ Contract!TagLeft(o)
<1> DEFINE n == call[c].name
           want == call[c].want
<1>1. /\ n \in Name /\ sidecar[n] \in Nat /\ want \in Nat \cup {Always, IfNew}
  BY AtStepInCall DEF InCall
<1>2. ~RemoveMayFail => (sidecar[n] # 0 => file[n] # 0)
  BY <1>1 DEF FoundInv, TagHasFile
<1> QED BY <1>1, <1>2
        DEF Satisfied, Always, IfNew, Contract!Always, Contract!IfNew, Contract!Accepts,
            Contract!TagLeft

LEMMA FoundCheckTag ==
    ASSUME TypeInv, FoundInv, NEW c \in Client, CheckTag(c) PROVE FoundInv'
<1> DEFINE n == call[c].name
<1>1. UNCHANGED diskVars /\ UNCHANGED erased /\ pc[c] = "check"
  BY DEF CheckTag, pastVars
<1>2. TagHasFile'
  BY <1>1 DEF FoundInv, TagHasFile, diskVars
<1>3. CASE Return(c, Refused)
  BY <1>1, <1>2, <1>3, FoundReturn, FoundStays DEF FoundInv
<1>4. CASE /\ Satisfied(n, call[c].want)
           /\ found' = [found EXCEPT ![c] = [etag |-> sidecar[n], bytes |-> file[n]]]
           /\ Goto(c, "write")
           /\ UNCHANGED <<lockVars, call, answer>>
  <2>1. Contract!Accepts([etag |-> sidecar[n], bytes |-> file[n]], call[c].want)
    BY <1>1, <1>4, SatisfiedIsAccepted
  <2>2. FoundFits(c)'
    <3>1. /\ pc'[c] = "write" /\ call'[c] = call[c] /\ UNCHANGED <<file, sidecar>>
          /\ found'[c] = [etag |-> sidecar[n], bytes |-> file[n]]
      BY <1>1, <1>4 DEF Goto, TypeInv, TypeOK, diskVars
    <3> QED BY <2>1, <3>1 DEF FoundFits, Contract!Accepts
  <2>3. ASSUME NEW e \in Client, e # c PROVE FoundFits(e)'
    <3>1. pc'[e] = pc[e] /\ found'[e] = found[e] /\ call'[e] = call[e]
      BY <1>4, <2>3 DEF Goto, TypeInv, TypeOK
    <3> QED BY <1>1, <3>1, FoundStays
  <2> QED BY <1>2, <2>2, <2>3 DEF FoundInv
<1> QED BY <1>3, <1>4 DEF CheckTag

\* Under the locks no other call is at a step that this one could disturb.
LEMMA OthersClaimNothing ==
    ASSUME TypeInv, NEW c \in Client, Locked(c), NEW e \in Client, e # c, pc'[e] = pc[e]
    PROVE  FoundFits(e)'
BY Alone DEF FoundFits, Locked

LEMMA FoundWrites ==
    ASSUME TypeInv, FoundInv, NEW c \in Client,
           WriteObject(c) \/ BumpTag(c) \/ DropTag(c) \/ Unlink(c)
    PROVE  FoundInv'
<1> DEFINE n == call[c].name
<1>1. Locked(c) /\ InCall(c)
  BY DEF WriteObject, BumpTag, DropTag, Unlink, Locked, InCall
<1>2. n \in Name /\ sidecar[n] \in Nat /\ call[c].bytes \in Nat
  BY <1>1, AtStepInCall
<1>3. \A e \in Client : e # c => FoundFits(e)'
  <2>1. \A e \in Client : e # c => pc'[e] = pc[e]
    BY FoundReturn DEF WriteObject, BumpTag, DropTag, Unlink, Return, Goto, TypeInv, TypeOK
  <2> QED BY <1>1, <2>1, OthersClaimNothing
<1>4. CASE WriteObject(c)
  <2>1. /\ file' = [file EXCEPT ![n] = call[c].bytes] /\ UNCHANGED <<sidecar, call, found, erased>>
        /\ pc[c] = "write" /\ pc'[c] = "bump"
    BY <1>4 DEF WriteObject, Goto, TypeInv, TypeOK, pastVars
  <2>2. call[c].bytes # 0
    <3>1. Putting(c)
      BY <1>1, <2>1 DEF Putting, TypeInv, CallFits
    <3> QED BY <3>1, AtStepInCall, <1>1, StoreAssumption
  <2>3. TagHasFile'
    BY <1>2, <2>1, <2>2 DEF FoundInv, TagHasFile, TypeInv, TypeOK
  <2>4. FoundFits(c)'
    <3>1. file'[n] = call[c].bytes
      BY <1>2, <2>1 DEF TypeInv, TypeOK
    <3>2. /\ found[c] = [etag |-> sidecar[n], bytes |-> file[n]]
          /\ Contract!Accepts(found[c], call[c].want)
      BY <2>1 DEF FoundInv, FoundFits
    <3>3. found[c].etag = sidecar[n]
      BY <3>2
    <3>4. /\ pc'[c] = "bump" /\ found'[c] = found[c] /\ call'[c] = call[c]
          /\ sidecar'[n] = sidecar[n]
      BY <2>1
    <3> QED BY <3>1, <3>2, <3>3, <3>4 DEF FoundFits, Contract!Accepts
  <2> QED BY <1>3, <2>3, <2>4 DEF FoundInv
<1>5. CASE BumpTag(c)
  <2>1. /\ sidecar' = [sidecar EXCEPT ![n] = sidecar[n] + 1] /\ file' = file
        /\ Return(c, sidecar[n] + 1)
    BY <1>5 DEF BumpTag, NextTag
  <2>2. file[n] # 0
    <3>1. Putting(c) /\ file[n] = call[c].bytes
      BY <1>1, <1>5 DEF BumpTag, Putting, TypeInv, CallFits, FoundInv, FoundFits
    <3> QED BY <3>1, AtStepInCall, <1>1, StoreAssumption
  <2>3. TagHasFile'
    BY <1>2, <2>1, <2>2 DEF FoundInv, TagHasFile, TypeInv, TypeOK
  <2> QED BY <1>3, <2>1, <2>3, FoundReturn DEF FoundInv
<1>6. CASE DropTag(c)
  <2>1. /\ UNCHANGED <<file, call>>
        /\ \/ sidecar' = [sidecar EXCEPT ![n] = 0]
           \/ RemoveMayFail /\ sidecar' = sidecar
        /\ found' = [found EXCEPT ![c] = [etag |-> sidecar[n], bytes |-> file[n]]]
        /\ erased' = erased \cup {n} /\ pc'[c] = "unlink"
    BY <1>6 DEF DropTag, RemoveSidecar, Goto, TypeInv, TypeOK
  <2>2. TagHasFile'
    BY <1>2, <2>1 DEF FoundInv, TagHasFile, TypeInv, TypeOK
  <2>3. FoundFits(c)'
    <3>1. found'[c] = [etag |-> sidecar[n], bytes |-> file[n]]
      BY <2>1 DEF TypeInv, TypeOK
    <3>2. found'[c].bytes = file[n] /\ found'[c].etag = sidecar[n]
      BY <3>1
    <3>3. sidecar'[n] = 0 \/ (RemoveMayFail /\ sidecar'[n] = sidecar[n])
      BY <1>2, <2>1 DEF TypeInv, TypeOK
    <3> QED BY <2>1, <3>2, <3>3 DEF FoundFits
  <2> QED BY <1>3, <2>2, <2>3 DEF FoundInv
<1>7. CASE Unlink(c)
  <2>1. /\ file' = [file EXCEPT ![n] = 0] /\ sidecar' = sidecar
        /\ \E reply : Return(c, reply)
    BY <1>7 DEF Unlink
  <2>2. sidecar[n] = 0 \/ RemoveMayFail
    BY <1>7 DEF Unlink, FoundInv, FoundFits
  <2>3. TagHasFile'
    BY <1>2, <2>1, <2>2 DEF FoundInv, TagHasFile, TypeInv, TypeOK
  <2> QED BY <1>3, <2>1, <2>3, FoundReturn DEF FoundInv
<1> QED BY <1>4, <1>5, <1>6, <1>7

LEMMA FoundUntouched == ASSUME FoundInv, UNCHANGED vars PROVE FoundInv'
BY FoundStays DEF FoundInv, TagHasFile, vars, diskVars, callVars, pastVars

LEMMA FoundStep == TypeInv /\ FoundInv /\ [Next]_vars => FoundInv'
BY FoundOutside, FoundCheckTag, FoundWrites, FoundUntouched, Zenon DEF Next, Step, Reads

-----------------------------------------------------------------------------
(* Objects without a sidecar *)

\* A call on n is half done, or broke off when it was.
Excused(n) == n \in torn \/ \E c \in Client : HalfDone(c) /\ call[c].name = n

UntaggedInv == \A n \in Name : file[n] # 0 /\ sidecar[n] = 0 => Excused(n)

LEMMA UntaggedInit == Init => UntaggedInv
BY DEF Init, UntaggedInv

\* Steps that leave the disk alone, and whoever is half done, unless it is torn.
LEMMA UntaggedStays ==
    ASSUME UntaggedInv, UNCHANGED diskVars, torn \subseteq torn',
           \A e \in Client : HalfDone(e) => \/ HalfDone(e)' /\ call'[e] = call[e]
                                            \/ call[e].name \in torn'
    PROVE  UntaggedInv'
<1> SUFFICES ASSUME NEW n \in Name, file[n] # 0, sidecar[n] = 0 PROVE Excused(n)'
  BY DEF UntaggedInv, diskVars
<1>1. CASE n \in torn
  BY <1>1 DEF Excused
<1>2. CASE \E c \in Client : HalfDone(c) /\ call[c].name = n
  <2>1. PICK c \in Client : HalfDone(c) /\ call[c].name = n
    BY <1>2
  <2> QED BY <2>1 DEF Excused
<1> QED BY <1>1, <1>2 DEF UntaggedInv, Excused

LEMMA UntaggedOutside ==
    ASSUME TypeInv, UntaggedInv, NEW c \in Client,
           \/ StartPut(c) \/ StartDelete(c) \/ LockProcess(c) \/ LockDirectory(c)
           \/ CheckTag(c) \/ Reads(c) \/ BreakOff(c)
    PROVE  UntaggedInv'
<1>1. UNCHANGED diskVars
  BY ReadsQuietly DEF StartPut, StartDelete, Start, LockProcess, LockDirectory, CheckTag, BreakOff
<1>2. CASE Reads(c)
  <2>1. pc[c] \in {"idle", "walk"} /\ UNCHANGED <<torn, call>>
        /\ \A e \in Client : e # c => pc'[e] = pc[e]
    BY <1>2, ReadsQuietly, ReadsAlone DEF pastVars
  <2> QED BY <1>1, <2>1, UntaggedStays DEF HalfDone
<1>3. CASE BreakOff(c)
  <2>1. \A e \in Client : e # c => pc'[e] = pc[e] /\ call'[e] = call[e]
    BY <1>3, FoundReturn DEF BreakOff
  <2>2. torn \subseteq torn' /\ (HalfDone(c) => call[c].name \in torn')
    BY <1>3 DEF BreakOff
  <2> QED BY <1>1, <2>1, <2>2, UntaggedStays DEF HalfDone
<1>4. CASE StartPut(c) \/ StartDelete(c) \/ LockProcess(c) \/ LockDirectory(c) \/ CheckTag(c)
  <2>1. /\ torn' = torn /\ ~HalfDone(c)
        /\ \A e \in Client : e # c => pc'[e] = pc[e] /\ call'[e] = call[e]
    BY <1>4 DEF StartPut, StartDelete, Start, LockProcess, LockDirectory, CheckTag, Return, Goto,
                HalfDone, TypeInv, TypeOK, pastVars
  <2> QED BY <1>1, <2>1, UntaggedStays DEF HalfDone
<1> QED BY <1>2, <1>3, <1>4

\* What c writes is excused while c is half done, and tagged or gone afterwards.
LEMMA UntaggedWrites ==
    ASSUME TypeInv, UntaggedInv, NEW c \in Client,
           WriteObject(c) \/ BumpTag(c) \/ DropTag(c) \/ Unlink(c)
    PROVE  UntaggedInv'
<1>0. PICK n : n = call[c].name
  OBVIOUS
<1>1. Locked(c) /\ InCall(c)
  BY DEF WriteObject, BumpTag, DropTag, Unlink, Locked, InCall
<1>2. n \in Name /\ sidecar[n] \in Nat /\ \A e \in Client : e # c => ~HalfDone(e)
  BY <1>0, <1>1, AtStepInCall, Alone DEF HalfDone, Locked
<1>3. torn' = torn /\ \A m \in Name : m # n => file'[m] = file[m] /\ sidecar'[m] = sidecar[m]
  BY <1>0 DEF WriteObject, BumpTag, DropTag, RemoveSidecar, Unlink, TypeInv, TypeOK, pastVars
<1>4. ASSUME NEW m \in Name, m # n, file'[m] # 0, sidecar'[m] = 0 PROVE Excused(m)'
  <2>1. Excused(m)
    BY <1>3, <1>4 DEF UntaggedInv
  <2>2. m \in torn
    BY <1>0, <1>2, <1>4, <2>1 DEF Excused
  <2> QED BY <1>3, <2>2 DEF Excused
<1>5. CASE WriteObject(c) \/ DropTag(c)
  <2>1. HalfDone(c)' /\ call'[c].name = n
    BY <1>0, <1>5 DEF WriteObject, DropTag, Goto, HalfDone, TypeInv, TypeOK
  <2>2. Excused(n)'
    BY <2>1 DEF Excused
  <2> QED BY <1>4, <2>2 DEF UntaggedInv
<1>6. CASE BumpTag(c) \/ Unlink(c)
  <2>1. file'[n] = 0 \/ sidecar'[n] # 0
    <3>1. file' = [file EXCEPT ![n] = 0] \/ sidecar' = [sidecar EXCEPT ![n] = sidecar[n] + 1]
      BY <1>0, <1>6 DEF BumpTag, NextTag, Unlink
    <3>2. sidecar[n] + 1 # 0
      BY <1>2
    <3> QED BY <1>2, <3>1, <3>2 DEF TypeInv, TypeOK
  <2> QED BY <1>4, <2>1 DEF UntaggedInv
<1> QED BY <1>5, <1>6

LEMMA UntaggedStep == TypeInv /\ UntaggedInv /\ [Next]_vars => UntaggedInv'
<1>1. ASSUME UntaggedInv, UNCHANGED vars PROVE UntaggedInv'
  BY <1>1, UntaggedStays DEF vars, diskVars, callVars, pastVars, HalfDone
<1> QED BY <1>1, UntaggedOutside, UntaggedWrites, Zenon DEF Next, Step, Reads

\* While nobody holds the lock file, an object lacks its sidecar only where a
\* put or delete of it broke off half done.
THEOREM UntaggedMeansTorn == Spec => []UntaggedOnlyIfTorn
<1>1. Init => TypeInv /\ UntaggedInv
  BY TypeInit, UntaggedInit
<1>2. TypeInv /\ UntaggedInv /\ [Next]_vars => (TypeInv /\ UntaggedInv)'
  BY TypeStep, UntaggedStep
<1>3. TypeInv /\ UntaggedInv => UntaggedOnlyIfTorn
  <2>1. ASSUME TypeInv, flock = Free, NEW c \in Client PROVE ~HalfDone(c)
    <3>1. flock = c <=> Locked(c)
      BY <2>1 DEF TypeInv, TypeOK
    <3>2. c # Free
      BY StoreAssumption
    <3> QED BY <2>1, <3>1, <3>2 DEF HalfDone, Locked
  <2> QED BY <2>1 DEF UntaggedInv, UntaggedOnlyIfTorn, Excused
<1> QED BY <1>1, <1>2, <1>3, PTL DEF Spec

-----------------------------------------------------------------------------
(* The contract *)

\* The object that a half done call is on is the one it has found, all others
\* are what the disk holds.
StoredIsDisk ==
    /\ \A c \in Client : HalfDone(c) => Stored(call[c].name) = found[c]
    /\ \A n \in Name : (\A c \in Client : ~(HalfDone(c) /\ call[c].name = n))
                     => Stored(n) = [etag |-> sidecar[n], bytes |-> file[n]]

LEMMA StoredObjects == TypeInv => StoredIsDisk
<1> SUFFICES ASSUME TypeInv PROVE StoredIsDisk
  OBVIOUS
<1>1. ASSUME NEW c \in Client, HalfDone(c) PROVE Stored(call[c].name) = found[c]
  <2>1. \A e \in Client : HalfDone(e) => e = c
    BY <1>1, Alone DEF HalfDone, Locked
  <2>2. (CHOOSE e \in Client : HalfDone(e) /\ call[e].name = call[c].name) = c
    BY <1>1, <2>1
  <2> QED BY <1>1, <2>2 DEF Stored
<1>2. ASSUME NEW n \in Name, \A c \in Client : ~(HalfDone(c) /\ call[c].name = n)
      PROVE  Stored(n) = [etag |-> sidecar[n], bytes |-> file[n]]
  BY <1>2, Zenon DEF Stored
<1> QED BY <1>1, <1>2 DEF StoredIsDisk

LEMMA StoredObjectsNext == TypeInv' => StoredIsDisk'
BY StoredObjects, PTL

\* Steps at which no call begins or ends to be half done.
LEMMA StoredStays ==
    ASSUME TypeInv, TypeInv', UNCHANGED diskVars,
           \A c \in Client : /\ HalfDone(c)' <=> HalfDone(c)
                             /\ HalfDone(c) => found'[c] = found[c] /\ call'[c] = call[c]
    PROVE  \A n \in Name : Stored(n)' = Stored(n)
<1> SUFFICES ASSUME NEW n \in Name PROVE Stored(n)' = Stored(n)
  OBVIOUS
<1>1. CASE \E c \in Client : HalfDone(c) /\ call[c].name = n
  <2>1. PICK c \in Client : HalfDone(c) /\ call[c].name = n
    BY <1>1
  <2>2. Stored(n) = found[c] /\ Stored(n)' = found'[c]
    BY <2>1, StoredObjects, StoredObjectsNext DEF StoredIsDisk
  <2> QED BY <2>1, <2>2
<1>2. CASE \A c \in Client : ~(HalfDone(c) /\ call[c].name = n)
  <2>1. \A c \in Client : ~(HalfDone(c)' /\ call'[c].name = n)
    BY <1>2
  <2>2. /\ Stored(n) = [etag |-> sidecar[n], bytes |-> file[n]]
        /\ Stored(n)' = [etag |-> sidecar'[n], bytes |-> file'[n]]
    BY <1>2, <2>1, StoredObjects, StoredObjectsNext DEF StoredIsDisk
  <2> QED BY <2>2 DEF diskVars
<1> QED BY <1>1, <1>2

Objects == [n \in Name |-> Stored(n)]

\* What is left to show of a step that does not concern the contract.
LEMMA StutterOfContract ==
    ASSUME UNCHANGED <<call, answer>>, \A n \in Name : Stored(n)' = Stored(n)
    PROVE  UNCHANGED Contract!storeVars
<1>1. Objects' = Objects
  BY DEF Objects
<1> QED BY <1>1 DEF Contract!storeVars, Objects

LEMMA ContractInit == Init => Contract!ContractInit
<1> SUFFICES ASSUME Init PROVE Contract!ContractInit
  OBVIOUS
<1>1. \A c \in Client : ~HalfDone(c)
  BY DEF Init, HalfDone
<1>2. \A n \in Name : Stored(n) = [etag |-> 0, bytes |-> 0]
  BY <1>1, TypeInit, StoredObjects DEF StoredIsDisk, Init
<1>3. [n \in Name |-> Stored(n)] = [n \in Name |-> Contract!Nothing]
  BY <1>2 DEF Contract!Nothing
<1> QED BY <1>3 DEF Init, Done, Contract!ContractInit

\* The beginning of a call is the contract's.
LEMMA AskStep ==
    ASSUME TypeInv, TypeInv', NEW c \in Client, StartPut(c) \/ StartDelete(c)
    PROVE  Contract!Ask(c)
<1>1. PICK k : Start(c, k)
  BY DEF StartPut, StartDelete
<1>2. /\ UNCHANGED diskVars /\ pc[c] = "idle" /\ found' = found
      /\ pc' = [pc EXCEPT ![c] = "lock"] /\ call' = [call EXCEPT ![c] = k]
      /\ answer' = [answer EXCEPT ![c] = Pending]
  BY <1>1 DEF Start, Goto
<1>3. answer[c] # Pending
  BY <1>2 DEF TypeInv, CallFits, InCall
<1>4. call'[c] = k /\ pc'[c] = "lock"
  BY <1>2 DEF TypeInv, TypeOK
<1>5. k \in Contract!Call
  BY <1>4 DEF TypeInv, CallFits, InCall
<1>6. \A e \in Client : /\ HalfDone(e)' <=> HalfDone(e)
                        /\ HalfDone(e) => found'[e] = found[e] /\ call'[e] = call[e]
  BY <1>2 DEF HalfDone, TypeInv, TypeOK
<1>7. \A n \in Name : Stored(n)' = Stored(n)
  BY <1>2, <1>6, StoredStays
<1>8. [n \in Name |-> Stored(n)]' = [n \in Name |-> Stored(n)]
  BY <1>7
<1> QED BY <1>2, <1>3, <1>4, <1>5, <1>8 DEF Contract!Ask, Pending

\* To take a lock or to read is nothing to the contract.
LEMMA UnseenStep ==
    ASSUME TypeInv, TypeInv', NEW c \in Client,
           LockProcess(c) \/ LockDirectory(c) \/ Reads(c)
    PROVE  UNCHANGED Contract!storeVars
<1>1. /\ UNCHANGED <<diskVars, call, answer, found>> /\ ~HalfDone(c) /\ ~HalfDone(c)'
      /\ \A e \in Client : e # c => pc'[e] = pc[e]
  <2>1. CASE Reads(c)
    BY <2>1, ReadsQuietly, ReadsAlone DEF HalfDone
  <2>2. CASE LockProcess(c) \/ LockDirectory(c)
    BY <2>2 DEF LockProcess, LockDirectory, Goto, HalfDone, TypeInv, TypeOK
  <2> QED BY <2>1, <2>2
<1>2. \A e \in Client : /\ HalfDone(e)' <=> HalfDone(e)
                        /\ HalfDone(e) => found'[e] = found[e] /\ call'[e] = call[e]
  BY <1>1 DEF HalfDone
<1> QED BY <1>1, <1>2, StoredStays, StutterOfContract

\* A put that may not pass is refused at the moment of its check.
LEMMA CheckStep ==
    ASSUME TypeInv, TypeInv', FoundInv, NEW c \in Client, CheckTag(c)
    PROVE  Contract!Refuse(c) \/ UNCHANGED Contract!storeVars
<1> DEFINE n == call[c].name
<1>1. /\ UNCHANGED diskVars /\ pc[c] = "check" /\ InCall(c) /\ Locked(c)
  BY DEF CheckTag, InCall, Locked
<1>2. \A e \in Client : ~HalfDone(e)
  BY <1>1, Alone DEF HalfDone, Locked
<1>3. \A e \in Client : e # c => pc'[e] = pc[e]
  BY DEF CheckTag, Return, Goto, TypeInv, TypeOK
<1>4. pc'[c] \in {"write", "idle"}
  BY DEF CheckTag, Return, Goto, TypeInv, TypeOK
<1>5. \A e \in Client : HalfDone(e)' <=> HalfDone(e)
  BY <1>2, <1>3, <1>4 DEF HalfDone
<1>6. \A m \in Name : Stored(m)' = Stored(m)
  BY <1>1, <1>2, <1>5, StoredStays
<1>7. CASE UNCHANGED <<lockVars, call, answer>>
  BY <1>6, <1>7, StutterOfContract
<1>8. CASE ~Satisfied(n, call[c].want) /\ Return(c, Refused)
  <2>1. n \in Name /\ call[c].op = "put" /\ answer[c] = Pending
    BY <1>1, AtStepInCall DEF TypeInv, CallFits
  <2>2. Stored(n) = [etag |-> sidecar[n], bytes |-> file[n]]
    BY <1>2, <2>1, StoredObjects DEF StoredIsDisk
  <2>3. LET o == [m \in Name |-> Stored(m)][n]
        IN  \/ ~Contract!Accepts(o, call[c].want)
            \/ call[c].want = Contract!IfNew /\ Contract!TagLeft(o)
    BY <1>1, <1>8, <2>1, <2>2, SatisfiedIsAccepted
  <2>4. [m \in Name |-> Stored(m)]' = [m \in Name |-> Stored(m)]
    BY <1>6
  <2> QED BY <1>8, <2>1, <2>3, <2>4
          DEF Return, Refused, Pending, Contract!Refuse, Contract!Reply
<1> QED BY <1>7, <1>8 DEF CheckTag

\* Half of a put or delete changes nothing that the contract speaks of.
LEMMA HalfWayStep ==
    ASSUME TypeInv, TypeInv', FoundInv, NEW c \in Client, WriteObject(c) \/ DropTag(c)
    PROVE  UNCHANGED Contract!storeVars
<1> DEFINE n == call[c].name
<1>1. InCall(c) /\ Locked(c) /\ ~HalfDone(c) /\ UNCHANGED <<call, answer>>
  BY DEF WriteObject, DropTag, InCall, Locked, HalfDone
<1>2. n \in Name
  BY <1>1, AtStepInCall
<1>3. \A e \in Client : ~HalfDone(e)
  BY <1>1, Alone DEF HalfDone, Locked
<1>4. HalfDone(c)' /\ \A e \in Client : e # c => ~HalfDone(e)'
  BY <1>3 DEF WriteObject, DropTag, Goto, HalfDone, TypeInv, TypeOK
<1>5. found'[c] = [etag |-> sidecar[n], bytes |-> file[n]]
  BY DEF WriteObject, DropTag, FoundInv, FoundFits, TypeInv, TypeOK
<1>6. \A m \in Name : m # n => file'[m] = file[m] /\ sidecar'[m] = sidecar[m]
  BY DEF WriteObject, DropTag, RemoveSidecar, TypeInv, TypeOK
<1>7. ASSUME NEW m \in Name PROVE Stored(m)' = Stored(m)
  <2>1. Stored(m) = [etag |-> sidecar[m], bytes |-> file[m]]
    BY <1>3, StoredObjects DEF StoredIsDisk
  <2>2. CASE m = n
    <3>1. Stored(m)' = found'[c]
      BY <1>1, <1>4, <2>2, StoredObjectsNext DEF StoredIsDisk
    <3> QED BY <1>5, <2>1, <2>2, <3>1
  <2>3. CASE m # n
    <3>1. Stored(m)' = [etag |-> sidecar'[m], bytes |-> file'[m]]
      BY <1>1, <1>4, <2>3, StoredObjectsNext DEF StoredIsDisk
    <3> QED BY <1>6, <2>1, <2>3, <3>1
  <2> QED BY <2>2, <2>3
<1> QED BY <1>1, <1>7, StutterOfContract

\* Where a call that was half done is over, the disk is what the contract sees.
LEMMA WholeAgain ==
    ASSUME TypeInv, TypeInv', NEW c \in Client, HalfDone(c), NEW reply, Return(c, reply),
           NEW n, n = call[c].name,
           \A m \in Name : m # n => file'[m] = file[m] /\ sidecar'[m] = sidecar[m]
    PROVE  /\ n \in Name /\ Stored(n) = found[c]
           /\ Stored(n)' = [etag |-> sidecar'[n], bytes |-> file'[n]]
           /\ [m \in Name |-> Stored(m)]'
                 = [[m \in Name |-> Stored(m)] EXCEPT ![n] = Stored(n)']
<1>1. n \in Name /\ Stored(n) = found[c]
  BY AtStepInCall, StoredObjects DEF HalfDone, InCall, StoredIsDisk
<1>2. \A e \in Client : e # c => ~HalfDone(e)
  BY Alone DEF HalfDone, Locked
<1>3. \A e \in Client : ~HalfDone(e)'
  BY <1>2 DEF Return, Goto, HalfDone, TypeInv, TypeOK
<1>4. \A m \in Name : Stored(m)' = [etag |-> sidecar'[m], bytes |-> file'[m]]
  BY <1>3, StoredObjectsNext DEF StoredIsDisk
<1>5. ASSUME NEW m \in Name, m # n PROVE Stored(m)' = Stored(m)
  <2>1. Stored(m) = [etag |-> sidecar[m], bytes |-> file[m]]
    BY <1>2, <1>5, StoredObjects DEF StoredIsDisk
  <2> QED BY <1>4, <1>5, <2>1
<1>6. [m \in Name |-> Stored(m)]'
         = [[m \in Name |-> Stored(m)] EXCEPT ![n] = Stored(n)']
  BY <1>5
<1> QED BY <1>1, <1>4, <1>6

\* With the new tag the put has taken effect.
LEMMA PutStep ==
    ASSUME TypeInv, TypeInv', FoundInv, NEW c \in Client, BumpTag(c)
    PROVE  Contract!Put(c)
<1>0. PICK n : n = call[c].name
  OBVIOUS
<1> DEFINE tag == sidecar[n] + 1
<1>1. HalfDone(c) /\ InCall(c) /\ Return(c, tag) /\ file' = file
      /\ sidecar' = [sidecar EXCEPT ![n] = tag]
  BY <1>0 DEF BumpTag, NextTag, HalfDone, InCall
<1>2. n \in Name /\ sidecar[n] \in Nat /\ call[c].op = "put" /\ answer[c] = Pending
  BY <1>0, <1>1, AtStepInCall DEF BumpTag, TypeInv, CallFits
<1>3. /\ found[c].etag = sidecar[n] /\ file[n] = call[c].bytes
      /\ Contract!Accepts(found[c], call[c].want)
  BY <1>0 DEF BumpTag, FoundInv, FoundFits
<1>4. \A m \in Name : m # n => file'[m] = file[m] /\ sidecar'[m] = sidecar[m]
  BY <1>1 DEF TypeInv, TypeOK
<1>5. sidecar'[n] = tag
  BY <1>1, <1>2 DEF TypeInv, TypeOK
<1>6. /\ Stored(n) = found[c]
      /\ Stored(n)' = [etag |-> tag, bytes |-> call[c].bytes]
      /\ [m \in Name |-> Stored(m)]'
            = [[m \in Name |-> Stored(m)] EXCEPT ![n] = Stored(n)']
  BY <1>0, <1>1, <1>3, <1>4, <1>5, WholeAgain
<1>7. Contract!Accepts([m \in Name |-> Stored(m)][n], call[c].want)
  BY <1>2, <1>3, <1>6
<1>8. [m \in Name |-> Stored(m)]'[n] = [etag |-> tag, bytes |-> call[c].bytes]
  BY <1>2, <1>6
<1>9. Contract!Replaced(call[c], [m \in Name |-> Stored(m)][n], [m \in Name |-> Stored(m)]'[n])
  BY <1>0, <1>2, <1>3, <1>6, <1>8 DEF Contract!Replaced
<1>10. Contract!Reply(c, tag)
  BY <1>1, <1>2 DEF Return, Pending, Contract!Reply
<1>11. \E told \in {0, [m \in Name |-> Stored(m)]'[n].etag} : Contract!Reply(c, told)
  <2>1. [m \in Name |-> Stored(m)]'[n].etag = tag
    BY <1>8
  <2> QED BY <1>10, <2>1, Zenon
<1>12. [m \in Name |-> Stored(m)]'
          = [[m \in Name |-> Stored(m)] EXCEPT ![n] = [m \in Name |-> Stored(m)]'[n]]
  BY <1>6, <1>8
<1> QED BY <1>0, <1>2, <1>7, <1>9, <1>11, <1>12, Zenon DEF Contract!Put

LEMMA DeleteStep ==
    ASSUME TypeInv, TypeInv', FoundInv, NEW c \in Client, Unlink(c)
    PROVE  Contract!Delete(c)
<1>0. PICK n : n = call[c].name
  OBVIOUS
<1> DEFINE reply == IF file[n] = 0 THEN Missing ELSE Done
<1>1. HalfDone(c) /\ InCall(c) /\ Return(c, reply) /\ sidecar' = sidecar
      /\ file' = [file EXCEPT ![n] = 0]
  BY <1>0 DEF Unlink, HalfDone, InCall
<1>2. n \in Name /\ call[c].op = "delete" /\ answer[c] = Pending
  BY <1>0, <1>1, AtStepInCall DEF Unlink, TypeInv, CallFits
<1>3. /\ found[c].bytes = file[n] /\ found[c] \in [etag : Nat, bytes : Nat]
      /\ sidecar[n] = 0 \/ (RemoveMayFail /\ sidecar[n] = found[c].etag)
  BY <1>0 DEF Unlink, FoundInv, FoundFits, TypeInv, TypeOK, Contract!Object
<1>4. /\ \A m \in Name : m # n => file'[m] = file[m] /\ sidecar'[m] = sidecar[m]
      /\ file'[n] = 0 /\ sidecar'[n] = sidecar[n]
  BY <1>1, <1>2, <1>3 DEF TypeInv, TypeOK
<1>5. /\ Stored(n) = found[c]
      /\ Stored(n)' = [etag |-> sidecar[n], bytes |-> 0]
      /\ [m \in Name |-> Stored(m)]'
            = [[m \in Name |-> Stored(m)] EXCEPT ![n] = Stored(n)']
  BY <1>0, <1>1, <1>4, WholeAgain
<1>6. [etag |-> sidecar[n], bytes |-> 0] \in Contract!Deleted([m \in Name |-> Stored(m)][n])
  <2>1. [m \in Name |-> Stored(m)][n] = found[c]
    BY <1>2, <1>5
  <2>2. CASE sidecar[n] = 0
    BY <2>2 DEF Contract!Deleted, Contract!Nothing
  <2>3. CASE RemoveMayFail /\ sidecar[n] = found[c].etag
    <3>1. [found[c] EXCEPT !.bytes = 0] = [etag |-> sidecar[n], bytes |-> 0]
      BY <1>3, <2>3
    <3> QED BY <2>1, <2>3, <3>1 DEF Contract!Deleted
  <2> QED BY <1>3, <2>2, <2>3
<1>7. [m \in Name |-> Stored(m)][n].bytes = file[n]
  BY <1>2, <1>3, <1>5
<1>8. Contract!Reply(c, reply)
  BY <1>1, <1>2 DEF Return, Pending, Contract!Reply
<1>9. reply = Contract!Done \/ (reply = Contract!Missing /\ file[n] = 0)
  BY DEF Done, Missing
<1>10. \E new \in Contract!Deleted([m \in Name |-> Stored(m)][n]) :
          [m \in Name |-> Stored(m)]' = [[m \in Name |-> Stored(m)] EXCEPT ![n] = new]
  BY <1>5, <1>6
<1> QED BY <1>0, <1>2, <1>7, <1>8, <1>9, <1>10 DEF Contract!Delete

\* A call that breaks off leaves no more than half of itself.
LEMMA FailStep ==
    ASSUME TypeInv, TypeInv', FoundInv, NEW c \in Client, BreakOff(c)
    PROVE  Contract!Fail(c)
<1>0. PICK n : n = call[c].name
  OBVIOUS
<1>1. /\ InCall(c) /\ Return(c, Failed) /\ UNCHANGED diskVars /\ answer[c] = Pending
  BY DEF BreakOff, TypeInv, CallFits
<1>2. n \in Name
  BY <1>0, <1>1, AtStepInCall
<1>3. Contract!Reply(c, Contract!Failed)
  BY <1>1 DEF Return, Failed, Pending, Contract!Reply
<1>4. CASE ~HalfDone(c)
  <2>1. \A e \in Client : /\ HalfDone(e)' <=> HalfDone(e)
                          /\ HalfDone(e) => found'[e] = found[e] /\ call'[e] = call[e]
    BY <1>1, <1>4 DEF Return, Goto, HalfDone, TypeInv, TypeOK
  <2>2. \A m \in Name : Stored(m)' = Stored(m)
    BY <1>1, <2>1, StoredStays
  <2>3. [m \in Name |-> Stored(m)]' = [m \in Name |-> Stored(m)]
    BY <2>2
  <2> QED BY <1>0, <1>2, <1>3, <2>3 DEF Contract!Fail, Contract!Leaves
<1>5. CASE HalfDone(c)
  <2>1. \A m \in Name : m # n => file'[m] = file[m] /\ sidecar'[m] = sidecar[m]
    BY <1>1 DEF diskVars
  <2>2. /\ Stored(n) = found[c]
        /\ Stored(n)' = [etag |-> sidecar[n], bytes |-> file[n]]
        /\ [m \in Name |-> Stored(m)]'
              = [[m \in Name |-> Stored(m)] EXCEPT ![n] = Stored(n)']
    BY <1>0, <1>1, <1>5, <2>1, WholeAgain DEF diskVars
  <2>3. found[c] \in [etag : Nat, bytes : Nat]
    BY DEF TypeInv, TypeOK, Contract!Object
  <2>4. Contract!Leaves(call[c], found[c], [etag |-> sidecar[n], bytes |-> file[n]])
    <3>1. CASE pc[c] = "bump"
      <4>1. /\ found[c].etag = sidecar[n] /\ file[n] = call[c].bytes /\ call[c].op = "put"
            /\ Contract!Accepts(found[c], call[c].want)
        BY <1>0, <3>1 DEF FoundInv, FoundFits, TypeInv, CallFits
      <4>2. [found[c] EXCEPT !.bytes = call[c].bytes] = [etag |-> sidecar[n], bytes |-> file[n]]
        BY <2>3, <4>1
      <4> QED BY <4>1, <4>2 DEF Contract!Leaves
    <3>2. CASE pc[c] = "unlink"
      <4>1. /\ found[c].bytes = file[n] /\ call[c].op = "delete"
            /\ sidecar[n] = 0 \/ sidecar[n] = found[c].etag
        BY <1>0, <3>2 DEF FoundInv, FoundFits, TypeInv, CallFits
      <4>2. [etag |-> sidecar[n], bytes |-> file[n]] \in {found[c], [found[c] EXCEPT !.etag = 0]}
        BY <2>3, <4>1
      <4> QED BY <4>1, <4>2 DEF Contract!Leaves
    <3> QED BY <1>5, <3>1, <3>2 DEF HalfDone
  <2>5. [m \in Name |-> Stored(m)][n] = found[c]
        /\ [m \in Name |-> Stored(m)]'[n] = [etag |-> sidecar[n], bytes |-> file[n]]
    BY <1>2, <2>2
  <2> QED BY <1>0, <1>3, <2>2, <2>4, <2>5 DEF Contract!Fail
<1> QED BY <1>4, <1>5

LEMMA UntouchedStep == ASSUME TypeInv, TypeInv', UNCHANGED vars PROVE UNCHANGED Contract!storeVars
<1>1. UNCHANGED <<diskVars, pc, call, answer, found>>
  BY DEF vars, callVars
<1>2. \A e \in Client : /\ HalfDone(e)' <=> HalfDone(e)
                        /\ HalfDone(e) => found'[e] = found[e] /\ call'[e] = call[e]
  BY <1>1 DEF HalfDone
<1> QED BY <1>1, <1>2, StoredStays, StutterOfContract

LEMMA ContractStep ==
    TypeInv /\ TypeInv' /\ FoundInv /\ [Next]_vars => [Contract!ContractNext]_(Contract!storeVars)
<1> SUFFICES ASSUME TypeInv, TypeInv', FoundInv, [Next]_vars
             PROVE  Contract!ContractNext \/ UNCHANGED Contract!storeVars
  OBVIOUS
<1>1. ASSUME NEW c \in Client,
             StartPut(c) \/ StartDelete(c) \/ StartList(c) \/ GetObject(c) \/ Step(c) \/ BreakOff(c)
      PROVE  \/ Contract!Ask(c) \/ Contract!Put(c) \/ Contract!Refuse(c)
             \/ Contract!Delete(c) \/ Contract!Fail(c) \/ UNCHANGED Contract!storeVars
  BY <1>1, AskStep, UnseenStep, CheckStep, HalfWayStep, PutStep, DeleteStep, FailStep, Zenon
     DEF Step, Reads
<1> QED BY <1>1, UntouchedStep, Zenon DEF Next, Contract!ContractNext

\* The locked part of put and delete is one step for everyone who writes, and a
\* call that breaks off anywhere leaves no more than the contract allows.  Where
\* sidecars never resist their removal, the contract is the strict one: a put
\* that must be the first is refused only if there is an object; where they may
\* (local_fs.rs:343), it may be refused for the ETag of a deleted one.
THEOREM DirectoryKeepsTheContract == Spec => ImplementsContract
<1>1. Init => TypeInv /\ FoundInv /\ Contract!ContractInit
  BY TypeInit, FoundInit, ContractInit
<1>2. TypeInv /\ FoundInv /\ [Next]_vars => (TypeInv /\ FoundInv)'
  BY TypeStep, FoundStep
<1> QED BY <1>1, <1>2, ContractStep, PTL DEF Spec, ImplementsContract, Contract!ContractSpec

-----------------------------------------------------------------------------
(* What was listed and then read *)

\* A put that is not through has bytes of its own, which nobody got an ETag for.
Fresh == \A c \in Client : Putting(c) =>
    /\ \A a \in acked : a.bytes # call[c].bytes
    /\ \A e \in Client : e # c /\ Putting(e) => call[e].bytes # call[c].bytes

WantsListed == \A c \in Client : Putting(c) => call[c].want \in {Always, tags[c][call[c].name]}

WalksUnread == \A c \in Client, n \in Name : pc[c] = "walk" => saw[c][n] = Unread

Acked(n) == \E a \in acked : a.name = n /\ a.bytes = file[n]

\* Who has read n under the ETag it still has, has read what is there, unless
\* what is there is of a put that has not bumped it and perhaps never will.
SawTrue == \A c \in Client, n \in Name :
    /\ n \notin erased /\ saw[c][n] # Unread
    /\ tags[c][n] > 0 /\ sidecar[n] = tags[c][n] /\ Acked(n)
    => saw[c][n] = file[n]

ReadInv == Fresh /\ WantsListed /\ WalksUnread /\ SawTrue

LEMMA ReadInit == Init => ReadInv
BY DEF Init, ReadInv, Fresh, WantsListed, WalksUnread, SawTrue, Putting, InCall, Acked

\* Steps of a call that go on with it, or end it, and leave what was read.
LEMMA ReadCalls ==
    ASSUME ReadInv, UNCHANGED <<acked, tags, saw>>,
           \A e \in Client : Putting(e)' => Putting(e) /\ call'[e] = call[e],
           \A e \in Client : pc'[e] = "walk" => pc[e] = "walk"
    PROVE  Fresh' /\ WantsListed' /\ WalksUnread'
<1>1. Fresh'
  BY DEF ReadInv, Fresh
<1>2. WantsListed'
  BY DEF ReadInv, WantsListed, Always, Contract!Always
<1>3. WalksUnread'
  BY DEF ReadInv, WalksUnread
<1> QED BY <1>1, <1>2, <1>3

LEMMA SawStays ==
    ASSUME SawTrue, UNCHANGED <<file, sidecar, acked, erased, tags, saw>>
    PROVE  SawTrue'
BY DEF SawTrue, Acked

LEMMA ReadStartPut ==
    ASSUME TypeInv, ReadInv, NEW c \in Client, StartPut(c)
    PROVE  ReadInv'
<1>1. UNCHANGED <<file, sidecar, acked, erased, tags, saw>>
  BY DEF StartPut, Start, diskVars, readVars, pastVars
<1>2. PICK n \in Name : \E want \in {Always, tags[c][n]} :
         Start(c, [op |-> "put", name |-> n, want |-> want, bytes |-> spent.put + 1])
  BY Zenon DEF StartPut
<1>3. PICK want \in {Always, tags[c][n]} :
         Start(c, [op |-> "put", name |-> n, want |-> want, bytes |-> spent.put + 1])
  BY <1>2, Zenon
<1> DEFINE k == [op |-> "put", name |-> n, want |-> want, bytes |-> spent.put + 1]
<1>4. k.bytes = spent.put + 1 /\ k.name = n /\ k.want = want
  OBVIOUS
<1>5. /\ pc' = [pc EXCEPT ![c] = "lock"] /\ call' = [call EXCEPT ![c] = k]
  BY <1>3 DEF Start, Goto
<1> HIDE DEF k
<1>6. /\ pc' = [pc EXCEPT ![c] = "lock"] /\ call' = [call EXCEPT ![c] = k]
      /\ k.bytes = spent.put + 1 /\ k.want \in {Always, tags[c][k.name]}
  BY <1>3, <1>4, <1>5
<1>7. /\ pc'[c] = "lock" /\ call'[c] = k
      /\ \A e \in Client : e # c => pc'[e] = pc[e] /\ call'[e] = call[e]
  BY <1>6 DEF TypeInv, TypeOK
<1>8. /\ spent.put \in Nat
      /\ \A a \in acked : a.bytes \in 1 .. spent.put
      /\ \A e \in Client : Putting(e) => call[e].bytes \in 1 .. spent.put
  BY DEF TypeInv, Counted, CallFits
<1>9. /\ \A a \in acked : a.bytes # k.bytes
      /\ \A e \in Client : Putting(e) => call[e].bytes # k.bytes
  BY <1>6, <1>8
<1>10. \A e \in Client : e # c => (Putting(e)' <=> Putting(e))
  BY <1>7 DEF Putting, InCall
<1>11. Fresh'
  BY <1>1, <1>7, <1>9, <1>10 DEF ReadInv, Fresh
<1>12. WantsListed'
  BY <1>1, <1>6, <1>7, <1>10 DEF ReadInv, WantsListed, Always, Contract!Always
<1>13. WalksUnread'
  BY <1>1, <1>7 DEF ReadInv, WalksUnread
<1> QED BY <1>1, <1>11, <1>12, <1>13, SawStays DEF ReadInv

\* Steps that neither begin a put, nor write, nor read.
LEMMA ReadOutside ==
    ASSUME TypeInv, ReadInv, NEW c \in Client,
           \/ StartDelete(c) \/ LockProcess(c) \/ LockDirectory(c) \/ CheckTag(c) \/ BreakOff(c)
    PROVE  ReadInv'
<1>1. UNCHANGED <<file, sidecar, acked, erased, tags, saw>>
  BY DEF StartDelete, Start, LockProcess, LockDirectory, CheckTag, BreakOff,
         diskVars, readVars, pastVars
<1>2. /\ \A e \in Client : e # c => pc'[e] = pc[e] /\ call'[e] = call[e]
      /\ pc'[c] # "walk"
      /\ Putting(c)' => Putting(c) /\ call'[c] = call[c]
  <2>1. CASE StartDelete(c)
    BY <2>1 DEF StartDelete, Start, Goto, Putting, InCall, TypeInv, TypeOK
  <2>2. CASE LockProcess(c) \/ LockDirectory(c)
    BY <2>2 DEF LockProcess, LockDirectory, Goto, Putting, InCall, TypeInv, TypeOK
  <2>3. CASE CheckTag(c)
    <3>1. CASE Return(c, Refused)
      BY <3>1 DEF Return, Goto, Putting, InCall, TypeInv, TypeOK
    <3>2. CASE Goto(c, "write") /\ UNCHANGED call
      BY <2>3, <3>2 DEF CheckTag, Goto, Putting, InCall, TypeInv, TypeOK
    <3> QED BY <2>3, <3>1, <3>2 DEF CheckTag
  <2>4. CASE BreakOff(c)
    BY <2>4 DEF BreakOff, Return, Goto, Putting, InCall, TypeInv, TypeOK
  <2> QED BY <2>1, <2>2, <2>3, <2>4
<1>3. \A e \in Client : Putting(e)' => Putting(e) /\ call'[e] = call[e]
  BY <1>2 DEF Putting, InCall
<1> QED BY <1>1, <1>2, <1>3, ReadCalls, SawStays DEF ReadInv

LEMMA ReadWrites ==
    ASSUME TypeInv, FoundInv, TagInv, ReadInv, NEW c \in Client,
           WriteObject(c) \/ BumpTag(c) \/ DropTag(c) \/ Unlink(c)
    PROVE  ReadInv'
<1>0. PICK n : n = call[c].name
  OBVIOUS
<1>1. /\ InCall(c) /\ UNCHANGED <<tags, saw>>
      /\ n \in Name /\ sidecar[n] \in Nat
  BY <1>0, AtStepInCall DEF WriteObject, BumpTag, DropTag, Unlink, InCall, readVars
<1>2. CASE WriteObject(c)
  <2>1. /\ file' = [file EXCEPT ![n] = call[c].bytes] /\ pc' = [pc EXCEPT ![c] = "bump"]
        /\ UNCHANGED <<sidecar, acked, erased, call>> /\ pc[c] = "write"
    BY <1>0, <1>2 DEF WriteObject, Goto, pastVars
  <2>2. \A e \in Client : (Putting(e)' <=> Putting(e)) /\ (pc'[e] = "walk" => pc[e] = "walk")
    BY <2>1 DEF Putting, InCall, TypeInv, TypeOK
  <2>3. Fresh' /\ WantsListed' /\ WalksUnread'
    BY <1>1, <2>1, <2>2, ReadCalls
  <2>4. Putting(c)
    BY <1>1, <2>1 DEF Putting, TypeInv, CallFits
  <2>5. file'[n] = call[c].bytes /\ \A m \in Name : m # n => file'[m] = file[m]
    BY <1>1, <2>1 DEF TypeInv, TypeOK
  <2>6. ~Acked(n)' /\ \A m \in Name : m # n => (Acked(m)' <=> Acked(m))
    BY <2>1, <2>4, <2>5 DEF Acked, ReadInv, Fresh
  <2>7. SawTrue'
    BY <1>1, <2>1, <2>5, <2>6 DEF ReadInv, SawTrue
  <2> QED BY <2>3, <2>7 DEF ReadInv
<1>3. CASE BumpTag(c)
  <2> DEFINE new == [name |-> n, etag |-> sidecar[n] + 1, bytes |-> call[c].bytes]
  <2>1. /\ sidecar' = [sidecar EXCEPT ![n] = sidecar[n] + 1] /\ UNCHANGED <<file, erased>>
        /\ acked' = acked \cup {new} /\ Return(c, sidecar[n] + 1) /\ pc[c] = "bump"
    BY <1>0, <1>3 DEF BumpTag, NextTag
  <2>2. /\ pc'[c] = "idle"
        /\ \A e \in Client : e # c => pc'[e] = pc[e] /\ call'[e] = call[e]
    BY <2>1 DEF Return, Goto, TypeInv, TypeOK
  <2>3. /\ ~Putting(c)'
        /\ \A e \in Client : Putting(e)' => e # c /\ Putting(e) /\ call'[e] = call[e]
    BY <2>2 DEF Putting, InCall
  <2>4. Putting(c)
    BY <1>1, <2>1 DEF Putting, TypeInv, CallFits
  <2>5. Fresh'
    <3>1. ASSUME NEW e \in Client, Putting(e)'
          PROVE  \A a \in acked' : a.bytes # call'[e].bytes
      <4>1. new.bytes = call[c].bytes /\ call[c].bytes # call[e].bytes
        BY <2>3, <2>4, <3>1 DEF ReadInv, Fresh
      <4> QED BY <2>1, <2>3, <3>1, <4>1 DEF ReadInv, Fresh
    <3> QED BY <2>3, <3>1 DEF ReadInv, Fresh
  <2>6. WantsListed'
    BY <1>1, <2>3 DEF ReadInv, WantsListed, Always, Contract!Always
  <2>7. WalksUnread'
    BY <1>1, <2>2 DEF ReadInv, WalksUnread
  <2>8. /\ sidecar'[n] = sidecar[n] + 1
        /\ \A m \in Name : m # n => sidecar'[m] = sidecar[m]
    BY <1>1, <2>1 DEF TypeInv, TypeOK
  <2>9. \A m \in Name : m # n => (Acked(m)' <=> Acked(m))
    BY <2>1 DEF Acked
  <2>10. \A e \in Client : n \notin erased => tags[e][n] \in Int /\ tags[e][n] <= sidecar[n]
    BY <1>1 DEF TagInv, TagsBehind, TypeInv, TypeOK, IfNew, Contract!IfNew
  <2>11. \A e \in Client : n \notin erased => sidecar'[n] # tags[e][n]
    BY <1>1, <2>8, <2>10
  <2>12. SawTrue'
    BY <1>1, <2>1, <2>8, <2>9, <2>11 DEF ReadInv, SawTrue
  <2> QED BY <2>5, <2>6, <2>7, <2>12 DEF ReadInv
<1>4. CASE DropTag(c) \/ Unlink(c)
  <2>1. /\ n \in erased' /\ erased \subseteq erased' /\ UNCHANGED acked
        /\ \A m \in Name : m # n => file'[m] = file[m] /\ sidecar'[m] = sidecar[m]
    <3>1. CASE DropTag(c)
      BY <1>0, <3>1 DEF DropTag, RemoveSidecar, TypeInv, TypeOK
    <3>2. CASE Unlink(c)
      <4>1. n \in erased
        BY <1>0, <3>2 DEF Unlink, FoundInv, FoundFits
      <4> QED BY <1>0, <3>2, <4>1 DEF Unlink, TypeInv, TypeOK, pastVars
    <3> QED BY <1>4, <3>1, <3>2
  <2>2. /\ \A e \in Client : e # c => pc'[e] = pc[e] /\ call'[e] = call[e]
        /\ pc'[c] # "walk" /\ ~Putting(c) /\ ~Putting(c)'
    <3>1. CASE DropTag(c)
      BY <3>1 DEF DropTag, Goto, Putting, TypeInv, TypeOK, CallFits
    <3>2. CASE Unlink(c)
      <4>1. pc'[c] = "idle" /\ \A e \in Client : e # c => pc'[e] = pc[e] /\ call'[e] = call[e]
        BY <3>2 DEF Unlink, Return, Goto, TypeInv, TypeOK
      <4> QED BY <3>2, <4>1 DEF Unlink, Putting, InCall, TypeInv, CallFits
    <3> QED BY <1>4, <3>1, <3>2
  <2>3. \A e \in Client : Putting(e)' => Putting(e) /\ call'[e] = call[e]
    BY <2>2 DEF Putting, InCall
  <2>4. Fresh' /\ WantsListed' /\ WalksUnread'
    BY <1>1, <2>1, <2>2, <2>3, ReadCalls
  <2>5. SawTrue'
    BY <1>1, <2>1 DEF ReadInv, SawTrue, Acked
  <2> QED BY <2>4, <2>5 DEF ReadInv
<1> QED BY <1>2, <1>3, <1>4

\* A listing takes each ETag from the sidecar and nothing has been read since;
\* a read finds what is there.
LEMMA ReadReads ==
    ASSUME TypeInv, ReadInv, NEW c \in Client, Reads(c)
    PROVE  ReadInv'
<1>1. UNCHANGED <<file, sidecar, call, acked, erased>>
  BY ReadsQuietly DEF diskVars, pastVars
<1>2. pc'[c] \in {"idle", "walk"} /\ pc[c] \in {"idle", "walk"}
      /\ \A e \in Client : e # c => pc'[e] = pc[e]
  BY ReadsAlone, ReadsQuietly
<1>3. \A e \in Client : Putting(e)' <=> Putting(e)
  BY <1>1, <1>2 DEF Putting, InCall
<1>4. \A n \in Name : Acked(n)' <=> Acked(n)
  BY <1>1 DEF Acked
<1>5. \A e \in Client : e # c => tags'[e] = tags[e] /\ saw'[e] = saw[e]
  <2>1. CASE StartList(c)
    BY <2>1 DEF StartList, TypeInv, TypeOK
  <2>2. CASE VisitFile(c)
    <3>1. saw' = saw /\ \E n \in walk[c] : \/ tags' = [tags EXCEPT ![c][n] = sidecar[n]]
                                           \/ tags' = [tags EXCEPT ![c] = [m \in Name |-> IfNew]]
      BY <2>2 DEF VisitFile
    <3> QED BY <3>1 DEF TypeInv, TypeOK
  <2>3. CASE EndList(c) \/ GetObject(c)
    BY <2>3 DEF EndList, GetObject, readVars, TypeInv, TypeOK
  <2> QED BY <2>1, <2>2, <2>3 DEF Reads
<1>6. Fresh'
  BY <1>1, <1>3 DEF ReadInv, Fresh
<1>7. WantsListed'
  <2>1. ~Putting(c)
    BY <1>2 DEF Putting, InCall
  <2> QED BY <1>1, <1>3, <1>5, <2>1 DEF ReadInv, WantsListed, Always, Contract!Always
\* What is new of c's own.
<1>8. /\ pc'[c] = "walk" => \A n \in Name : saw'[c][n] = Unread
      /\ \A n \in Name : \/ saw'[c][n] \in {Unread, file[n]}
                         \/ tags'[c][n] = tags[c][n] /\ saw'[c][n] = saw[c][n]
  <2>1. CASE StartList(c)
    BY <2>1 DEF StartList, TypeInv, TypeOK
  <2>2. CASE VisitFile(c)
    BY <2>2 DEF VisitFile, ReadInv, WalksUnread
  <2>3. CASE EndList(c)
    BY <2>3 DEF EndList, Goto, readVars, TypeInv, TypeOK
  <2>4. CASE GetObject(c)
    BY <2>4 DEF GetObject, callVars, TypeInv, TypeOK
  <2> QED BY <2>1, <2>2, <2>3, <2>4 DEF Reads
<1>9. WalksUnread'
  BY <1>2, <1>5, <1>8 DEF ReadInv, WalksUnread
<1>10. SawTrue'
  BY <1>1, <1>4, <1>5, <1>8 DEF ReadInv, SawTrue
<1> QED BY <1>6, <1>7, <1>9, <1>10 DEF ReadInv

LEMMA ReadUntouched == ASSUME ReadInv, UNCHANGED vars PROVE ReadInv'
<1>1. UNCHANGED <<file, sidecar, acked, erased, tags, saw, pc, call>>
  BY DEF vars, diskVars, callVars, readVars, pastVars
<1>2. \A e \in Client : Putting(e)' <=> Putting(e)
  BY <1>1 DEF Putting, InCall
<1> QED BY <1>1, <1>2, ReadCalls, SawStays DEF ReadInv

LEMMA ReadStep == TypeInv /\ FoundInv /\ TagInv /\ ReadInv /\ [Next]_vars => ReadInv'
BY ReadStartPut, ReadOutside, ReadWrites, ReadReads, ReadUntouched, Zenon DEF Next, Step, Reads

\* A caller that listed an object, then read it and then puts with the ETag it
\* listed replaces acknowledged bytes only if it has read them, although list
\* and get take no lock: put writes the object first and the tag after it.
THEOREM PutReplacesWhatItSaw == Spec => ReplacesWhatItSaw
<1> DEFINE Replaced == \A c \in Client : LET n == call[c].name IN
                         /\ pc[c] = "write" /\ pc'[c] = "bump"
                         /\ call[c].want > 0 /\ n \notin erased /\ saw[c][n] # Unread
                         /\ \E a \in acked : a.name = n /\ a.bytes = file[n]
                         => saw[c][n] = file[n]
<1>1. Init => TypeInv /\ FoundInv /\ TagInv /\ ReadInv
  BY TypeInit, FoundInit, TagInit, ReadInit
<1>2. TypeInv /\ FoundInv /\ TagInv /\ ReadInv /\ [Next]_vars
      => (TypeInv /\ FoundInv /\ TagInv /\ ReadInv)'
  BY TypeStep, FoundStep, TagStep, ReadStep
<1>3. TypeInv /\ FoundInv /\ ReadInv => Replaced
  <2> SUFFICES ASSUME TypeInv, FoundInv, ReadInv, NEW c \in Client, NEW n, n = call[c].name,
                      pc[c] = "write", call[c].want > 0, n \notin erased, saw[c][n] # Unread,
                      \E a \in acked : a.name = n /\ a.bytes = file[n]
               PROVE  saw[c][n] = file[n]
    OBVIOUS
  <2>1. InCall(c) /\ Putting(c)
    BY DEF InCall, Putting, TypeInv, CallFits
  <2>2. /\ n \in Name /\ sidecar[n] \in Nat /\ call[c].want \in Nat /\ call[c].want # 0
    BY <2>1, AtStepInCall DEF Always, IfNew, Contract!Always, Contract!IfNew
  <2>3. call[c].want = tags[c][n]
    BY <2>1, <2>2 DEF ReadInv, WantsListed, Always, Contract!Always
  <2>4. sidecar[n] = call[c].want
    <3>1. FoundFits(c)
      BY DEF FoundInv
    <3>2. /\ found[c] = [etag |-> sidecar[n], bytes |-> file[n]]
          /\ Contract!Accepts(found[c], call[c].want)
      BY <3>1 DEF FoundFits
    <3>3. found[c].etag = sidecar[n]
      BY <3>2
    <3> QED BY <2>2, <3>2, <3>3 DEF Contract!Accepts, Contract!Always, Contract!IfNew
  <2> QED BY <2>2, <2>3, <2>4 DEF ReadInv, SawTrue, Acked
<1>4. Spec => [][Replaced]_vars
  BY <1>1, <1>2, <1>3, PTL DEF Spec
<1> QED BY <1>4 DEF ReplacesWhatItSaw

-----------------------------------------------------------------------------
(* Calls that wait for the locks *)

\* The guard of the next step of c's call: only the locks are waited for.
MayGoOn(c) ==
    \/ pc[c] = "lock" /\ mutex[home[c]] = Free
    \/ pc[c] = "flock" /\ MayLock
    \/ Locked(c)

\* The steps that c's call takes at most until it returns.
StepsToReturn(c) ==
    CASE pc[c] = "lock" -> 5
      [] pc[c] = "flock" -> 4
      [] pc[c] = "check" -> 3
      [] pc[c] \in {"write", "drop"} -> 2
      [] pc[c] \in {"bump", "unlink"} -> 1
      [] OTHER -> 0

SomeoneMayGoOn ==
    \A c \in Client : answer[c] = Pending =>
        \E e \in Client : answer[e] = Pending /\ MayGoOn(e)

\* Who waits for the mutex waits for a call that waits for the lock file at most,
\* who waits for the lock file waits for a call that waits for nothing.
LEMMA WaitingIsNoCircle == TypeInv => SomeoneMayGoOn
<1> SUFFICES ASSUME TypeInv, NEW c \in Client, answer[c] = Pending
             PROVE  \E e \in Client : answer[e] = Pending /\ MayGoOn(e)
  BY DEF SomeoneMayGoOn
<1>1. LocksOK /\ InCall(c)
  BY TypeParts DEF TypeInv, CallFits
<1>2. ASSUME NEW e \in Client, Locked(e) \/ pc[e] = "flock"
      PROVE  \E x \in Client : answer[x] = Pending /\ MayGoOn(x)
  <2>1. answer[e] = Pending
    BY <1>2 DEF TypeInv, CallFits, InCall, Locked
  <2>2. CASE Locked(e) \/ flock = Free
    BY <1>2, <2>1, <2>2 DEF MayGoOn, MayLock
  <2>3. CASE flock # Free
    <3>1. flock \in Client /\ Locked(flock)
      BY <1>1, <2>3 DEF LocksOK
    <3>2. answer[flock] = Pending
      BY <3>1 DEF TypeInv, CallFits, InCall, Locked
    <3> QED BY <3>1, <3>2 DEF MayGoOn
  <2> QED BY <2>2, <2>3
<1>3. CASE pc[c] = "lock"
  <2>1. CASE mutex[home[c]] = Free
    BY <1>3, <2>1 DEF MayGoOn
  <2>2. CASE mutex[home[c]] # Free
    <3>1. home[c] \in Process /\ mutex[home[c]] \in Client
      BY <1>1, <2>2 DEF LocksOK
    <3>2. Locked(mutex[home[c]]) \/ pc[mutex[home[c]]] = "flock"
      BY <1>1, <3>1 DEF LocksOK
    <3> QED BY <1>2, <3>1, <3>2
  <2> QED BY <2>1, <2>2
<1>4. CASE pc[c] # "lock"
  <2>1. Locked(c) \/ pc[c] = "flock"
    BY <1>1, <1>4 DEF InCall, Locked
  <2> QED BY <1>2, <2>1
<1> QED BY <1>3, <1>4

LEMMA ReturnCounts ==
    ASSUME TypeInv, NEW c \in Client, InCall(c), NEW reply, Return(c, reply)
    PROVE  StepsToReturn(c)' < StepsToReturn(c)
<1>1. pc'[c] = "idle"
  BY DEF Return, Goto, TypeInv, TypeOK
<1>2. StepsToReturn(c)' = 0
  BY <1>1 DEF StepsToReturn
<1>3. StepsToReturn(c) \in 1 .. 5
  BY DEF StepsToReturn, InCall
<1> QED BY <1>2, <1>3

LEMMA StepCounts ==
    ASSUME TypeInv, NEW c \in Client, answer[c] = Pending, Step(c) \/ BreakOff(c)
    PROVE  StepsToReturn(c)' < StepsToReturn(c)
<1>1. InCall(c) /\ pc \in [Client -> {"idle", "lock", "flock", "check", "write", "bump",
                                      "drop", "unlink", "walk"}]
  BY DEF TypeInv, CallFits, TypeOK
<1>2. ASSUME NEW reply, Return(c, reply) PROVE StepsToReturn(c)' < StepsToReturn(c)
  BY <1>1, <1>2, ReturnCounts
<1>3. CASE LockProcess(c) \/ LockDirectory(c) \/ WriteObject(c) \/ DropTag(c)
  <2>1. \/ pc[c] = "lock" /\ pc'[c] = "flock"
        \/ pc[c] = "flock" /\ pc'[c] \in {"check", "drop"}
        \/ pc[c] = "write" /\ pc'[c] = "bump"
        \/ pc[c] = "drop" /\ pc'[c] = "unlink"
    BY <1>1, <1>3 DEF LockProcess, LockDirectory, WriteObject, DropTag, Goto
  <2> QED BY <2>1 DEF StepsToReturn
<1>4. CASE CheckTag(c)
  <2>1. CASE Return(c, Refused)
    BY <1>2, <2>1
  <2>2. CASE Goto(c, "write")
    <3>1. pc[c] = "check" /\ pc'[c] = "write"
      BY <1>1, <1>4, <2>2 DEF CheckTag, Goto
    <3> QED BY <3>1 DEF StepsToReturn
  <2> QED BY <1>4, <2>1, <2>2 DEF CheckTag
<1>5. CASE BumpTag(c) \/ Unlink(c) \/ BreakOff(c)
  <2>1. \E reply : Return(c, reply)
    BY <1>5 DEF BumpTag, Unlink, BreakOff
  <2> QED BY <1>2, <2>1
<1>6. CASE VisitFile(c) \/ EndList(c)
  BY <1>1, <1>6 DEF VisitFile, EndList, InCall
<1> QED BY <1>3, <1>4, <1>5, <1>6 DEF Step

LEMMA OthersCountNothing ==
    ASSUME TypeInv, NEW c \in Client, NEW d \in Client \ {c},
           \/ StartPut(d) \/ StartDelete(d) \/ StartList(d) \/ GetObject(d)
           \/ Step(d) \/ BreakOff(d)
    PROVE  StepsToReturn(c)' = StepsToReturn(c)
<1>1. pc' = pc \/ \E step : Goto(d, step)
  BY DEF StartPut, StartDelete, Start, StartList, GetObject, Step, BreakOff, LockProcess,
         LockDirectory, CheckTag, WriteObject, BumpTag, DropTag, Unlink, VisitFile, EndList,
         Return, callVars
<1>2. pc'[c] = pc[c]
  BY <1>1 DEF Goto, TypeInv, TypeOK
<1> QED BY <1>2 DEF StepsToReturn

\* The two locks are always taken in the same order and given back whatever
\* happens, so that waiting never closes into a circle: while a call is under way
\* one that is under way can take its next step.  And every call returns after at
\* most five steps of its own, which nobody adds to (local_fs.rs:308, 337).
\* It is the measure behind EveryCallReturns.
THEOREM LocksNeverBlock ==
    Spec => /\ []SomeoneMayGoOn
            /\ [][\A c \in Client : answer[c] = Pending =>
                     /\ StepsToReturn(c)' <= StepsToReturn(c)
                     /\ Step(c) \/ BreakOff(c) => StepsToReturn(c)' < StepsToReturn(c)]_vars
<1>1. Init => TypeInv
  BY TypeInit
<1>2. TypeInv /\ [Next]_vars => TypeInv'
  BY TypeStep
<1>3. TypeInv => SomeoneMayGoOn
  BY WaitingIsNoCircle
<1>4. TypeInv /\ [Next]_vars =>
         [\A c \in Client : answer[c] = Pending =>
              /\ StepsToReturn(c)' <= StepsToReturn(c)
              /\ Step(c) \/ BreakOff(c) => StepsToReturn(c)' < StepsToReturn(c)]_vars
  <2> SUFFICES ASSUME TypeInv, Next, NEW c \in Client, answer[c] = Pending
               PROVE  /\ StepsToReturn(c)' <= StepsToReturn(c)
                      /\ Step(c) \/ BreakOff(c) => StepsToReturn(c)' < StepsToReturn(c)
    OBVIOUS
  <2>1. StepsToReturn(c) \in 0 .. 5 /\ StepsToReturn(c)' \in 0 .. 5
    BY DEF StepsToReturn
  <2>2. Step(c) \/ BreakOff(c) => StepsToReturn(c)' < StepsToReturn(c)
    BY StepCounts
  <2>3. PICK d \in Client : \/ StartPut(d) \/ StartDelete(d) \/ StartList(d) \/ GetObject(d)
                            \/ Step(d) \/ BreakOff(d)
    BY DEF Next
  <2>4. CASE d # c
    <3>1. StepsToReturn(c)' = StepsToReturn(c)
      BY <2>3, <2>4, OthersCountNothing
    <3> QED BY <2>1, <2>2, <3>1
  <2>5. CASE d = c
    <3>1. InCall(c)
      BY DEF TypeInv, CallFits
    <3>2. Step(c) \/ BreakOff(c) \/ GetObject(c)
      BY <2>3, <2>5, <3>1 DEF StartPut, StartDelete, Start, StartList, InCall
    <3>3. ~GetObject(c)
      BY <3>1 DEF GetObject, InCall
    <3> QED BY <2>1, <2>2, <3>2, <3>3
  <2> QED BY <2>4, <2>5
<1> QED BY <1>1, <1>2, <1>3, <1>4, PTL DEF Spec
=============================================================================
