------------------------- MODULE GDriveStoreProofs --------------------------
(***************************************************************************)
(* Theorems about GDriveStore, for any devices and objects, and any number *)
(* of calls and of broken ones: its types and how far versions and files   *)
(* get; that the index is true as long as the calls that write come one    *)
(* after the other; and that such a put then replaces what it has read.    *)
(***************************************************************************)
EXTENDS GDriveStore, FiniteSetTheorems, TLAPS

(* Types without the bounds that only the counts below give.                *)

LooseIndex == [id : IndexId \cup {None}, version : Nat \cup {-1},
               files : [Name -> FileId \cup {None}]]
Call == [op : {"put", "delete"}, name : Name, want : Int, bytes : 0 .. MaxPuts]
Spent == [put : 0 .. MaxPuts, delete : 0 .. MaxDeletes, list : Nat, break : Nat]

Types ==
    /\ drive \in [FileId -> 0 .. MaxPuts] /\ created \in Nat
    /\ indexes \in [IndexId -> LooseIndex] /\ cache \in [Client -> LooseIndex]
    /\ pc \in [Client -> {"idle", "load", "write", "find", "save"}]
    /\ call \in [Client -> Call \cup {NoCall}]
    /\ work \in [Client -> LooseIndex]
    /\ tags \in [Client -> [Name -> Int]]
    /\ saw \in [Client -> [Name -> 0 .. MaxPuts \cup {Unread}]]
    /\ spent \in Spent
    /\ acked \in [Name -> 0 .. MaxPuts]
    /\ mixed \in BOOLEAN /\ torn \subseteq Name

\* The one index that may have a negative version is none.
Sound(index) == index = NoIndex \/ index.version >= 0

\* What a call at each of its steps has with it.
CallFits(c) ==
    /\ pc[c] = "idle" => call[c] = NoCall
    /\ pc[c] \in {"idle", "load"} => work[c] = NoIndex
    /\ pc[c] # "idle" => call[c] \in Call
    /\ pc[c] # "idle" /\ call[c].op = "put" =>
          call[c].bytes \in 1 .. spent.put /\ call[c].want \in {Always, tags[c][call[c].name]}
    /\ pc[c] # "idle" /\ call[c].op = "delete" =>
          call[c].bytes = None /\ call[c].want = Always
    /\ pc[c] \in {"write", "find", "save"} => work[c].version >= 0
    /\ pc[c] = "write" /\ work[c].id = None => work[c] = NewIndex
    /\ pc[c] = "write" /\ call[c].op = "delete" => work[c].files[call[c].name] # None
    /\ pc[c] = "find" => call[c].op = "put"
    /\ pc[c] = "save" => work[c].id # None

TypeInv ==
    /\ Types
    /\ \A i \in IndexId : Sound(indexes[i])
    /\ \A c \in Client : Sound(cache[c]) /\ CallFits(c)

\* The calls that may still change a file and raise a version.
UnderWay == {c \in Client : pc[c] \in {"load", "write"}}
PutsUnderWay == {c \in UnderWay : call[c].op = "put"}

\* A put creates one file at most, a call raises the version by one at most.
Counts ==
    /\ IsFiniteSet(UnderWay)
    /\ Cardinality(UnderWay) <= spent.put + spent.delete
    /\ created + Cardinality(PutsUnderWay) <= spent.put
    /\ \A i \in IndexId :
          indexes[i].version + Cardinality(UnderWay) <= spent.put + spent.delete
    /\ \A c \in Client :
          /\ cache[c].version + Cardinality(UnderWay) <= spent.put + spent.delete
          /\ work[c].version + Cardinality(UnderWay) <= spent.put + spent.delete

-----------------------------------------------------------------------------
(* Operators of the model.                                                   *)

LEMMA BoundsAreNaturals ==
    MaxPuts \in Nat /\ MaxDeletes \in Nat /\ MaxLists \in Nat /\ MaxBreaks \in Nat
BY DriveAssumption

LEMMA EmptyIndexes ==
    /\ NewIndex \in LooseIndex /\ NoIndex \in LooseIndex
    /\ NewIndex.id = None /\ NewIndex.version = 0 /\ NewIndex.files = [n \in Name |-> None]
    /\ NoIndex.id = None /\ NoIndex.version = -1 /\ NoIndex.files = [n \in Name |-> None]
BY DEF NewIndex, NoIndex, LooseIndex, None

\* What Drive may answer: the empty index of an empty folder, or one there is.
LEMMA LookupIs ==
    ASSUME NEW index
    PROVE  index \in Lookup <=>
              \/ Found = {} /\ index = NewIndex
              \/ \E i \in Found : index = [indexes[i] EXCEPT !.id = i]
BY DEF Lookup

LEMMA FoundIndex ==
    ASSUME TypeInv, NEW index \in Lookup
    PROVE  /\ index \in LooseIndex /\ index.version >= 0
           /\ index.id = None => index = NewIndex /\ Found = {}
           /\ index.id # None => index.id \in Found
<1>1. CASE Found = {}
  BY <1>1, EmptyIndexes, LookupIs
<1>2. CASE Found # {}
  <2>1. PICK i \in Found : index = [indexes[i] EXCEPT !.id = i]
    BY <1>2, LookupIs
  <2>2. i \in IndexId /\ i # None /\ indexes[i] \in LooseIndex /\ indexes[i].version >= 0
    BY BoundsAreNaturals DEF Found, TypeInv, Types, Sound, IndexId, None
  <2>3. index \in LooseIndex /\ index.id = i /\ index.version = indexes[i].version
    BY <2>1, <2>2 DEF LooseIndex
  <2> QED
    BY <2>2, <2>3
<1> QED
  BY <1>1, <1>2

\* A change sets one entry and raises the version.
LEMMA ChangedIs ==
    ASSUME NEW index \in LooseIndex, NEW n \in Name, NEW f \in FileId \cup {None}
    PROVE  /\ Changed(index, n, f) \in LooseIndex
           /\ Changed(index, n, f).id = index.id
           /\ Changed(index, n, f).version = index.version + 1
           /\ Changed(index, n, f).files = [index.files EXCEPT ![n] = f]
<1> DEFINE x == [index EXCEPT !.files[n] = f]
<1>1. /\ x = [index EXCEPT !.files = [index.files EXCEPT ![n] = f]]
      /\ Changed(index, n, f) = [x EXCEPT !.version = x.version + 1]
  BY DEF Changed, LooseIndex
<1>2. x \in LooseIndex /\ x.id = index.id /\ x.version = index.version /\ x.files = [index.files EXCEPT ![n] = f]
  BY <1>1 DEF LooseIndex
<1> HIDE DEF x
<1>3. x.version + 1 \in Nat
  BY <1>2 DEF LooseIndex
<1> QED
  BY <1>1, <1>2, <1>3 DEF LooseIndex

LEMMA SpendIs ==
    ASSUME spent \in Spent, NEW what \in {"put", "delete", "list", "break"}, NEW max \in Nat, Spend(what, max),
           what = "put" => max = MaxPuts, what = "delete" => max = MaxDeletes
    PROVE  /\ spent' \in Spent /\ spent[what] < max
           /\ spent'.put = IF what = "put" THEN spent.put + 1 ELSE spent.put
           /\ spent'.delete = IF what = "delete" THEN spent.delete + 1 ELSE spent.delete
BY BoundsAreNaturals DEF Spend, Spent

-----------------------------------------------------------------------------
(* Every action keeps the types.                                             *)

LEMMA InitTypes ==
    Init => TypeInv /\ Counts
<1> SUFFICES ASSUME Init PROVE TypeInv /\ Counts
  OBVIOUS
<1>1. Types
  <2>1. /\ drive \in [FileId -> 0 .. MaxPuts] /\ created \in Nat
        /\ acked \in [Name -> 0 .. MaxPuts]
    BY BoundsAreNaturals DEF Init, None
  <2>6. mixed \in BOOLEAN /\ torn \subseteq Name
    BY DEF Init
  <2>2. indexes \in [IndexId -> LooseIndex] /\ cache \in [Client -> LooseIndex] /\ work \in [Client -> LooseIndex]
    BY EmptyIndexes DEF Init
  <2>3. /\ pc \in [Client -> {"idle", "load", "write", "find", "save"}]
        /\ call \in [Client -> Call \cup {NoCall}]
    BY DEF Init
  <2>4. tags \in [Client -> [Name -> Int]] /\ saw \in [Client -> [Name -> 0 .. MaxPuts \cup {Unread}]]
    BY DEF Init, IfNew, Unread
  <2>5. spent \in Spent
    BY BoundsAreNaturals DEF Init, Spent
  <2> QED
    BY <2>1, <2>2, <2>3, <2>4, <2>5, <2>6 DEF Types
<1>2. UnderWay = {} /\ PutsUnderWay = {}
  BY DEF Init, UnderWay, PutsUnderWay
<1>3. Cardinality(UnderWay) = 0 /\ IsFiniteSet(UnderWay) /\ Cardinality(PutsUnderWay) = 0
  BY <1>2, FS_EmptySet
<1>4. \A i \in IndexId : indexes[i] = NoIndex
  BY DEF Init
<1>5. \A c \in Client : cache[c] = NoIndex /\ work[c] = NoIndex /\ pc[c] = "idle" /\ call[c] = NoCall
  BY DEF Init
<1>6. created = 0 /\ spent.put = 0 /\ spent.delete = 0
  BY DEF Init
<1>7. TypeInv
  BY <1>1, <1>4, <1>5 DEF TypeInv, Sound, CallFits
<1>8. Counts
  BY <1>3, <1>4, <1>5, <1>6, EmptyIndexes DEF Counts
<1> QED
  BY <1>7, <1>8

\* A call fits as long as nothing of it changes.
LEMMA OtherCallFits ==
    ASSUME TypeInv, NEW d \in Client,
           pc'[d] = pc[d], call'[d] = call[d], work'[d] = work[d], tags'[d] = tags[d],
           spent.put <= spent'.put, spent' \in Spent
    PROVE  CallFits(d)'
<1>1. CallFits(d) /\ spent \in Spent
  BY DEF TypeInv, Types
<1>2. \A b \in 1 .. spent.put : b \in 1 .. spent'.put
  BY <1>1, BoundsAreNaturals DEF Spent
<1> QED
  BY <1>1, <1>2 DEF CallFits

LEMMA StartTypes ==
    ASSUME TypeInv, NEW c \in Client, StartPut(c) \/ StartDelete(c)
    PROVE  TypeInv'
<1> USE BoundsAreNaturals
<1>1. Types /\ pc[c] = "idle" /\ work[c] = NoIndex
  BY DEF TypeInv, CallFits, StartPut, StartDelete, Start
<1>2. PICK k :
        /\ Start(c, k)
        /\ spent' \in Spent /\ spent.put <= spent'.put
        /\ k \in Call
        /\ k.op = "put" => k.bytes \in 1 .. spent'.put /\ k.want \in {Always, tags[c][k.name]}
        /\ k.op = "delete" => k.bytes = None /\ k.want = Always
  <2>1. CASE StartPut(c)
    <3>1. /\ spent' \in Spent /\ spent.put < MaxPuts /\ spent'.put = spent.put + 1
          /\ spent.put \in Nat
      BY <1>1, <2>1, SpendIs DEF StartPut, Types, Spent
    <3>a. PICK n \in Name : \E want \in {Always, tags[c][n]} :
            Start(c, [op |-> "put", name |-> n, want |-> want, bytes |-> spent.put + 1])
      BY <2>1 DEF StartPut
    <3>2. PICK want \in {Always, tags[c][n]} :
            Start(c, [op |-> "put", name |-> n, want |-> want, bytes |-> spent.put + 1])
      BY <3>a
    <3>3. want \in Int
      BY <1>1 DEF Types, Always
    <3> DEFINE k == [op |-> "put", name |-> n, want |-> want, bytes |-> spent.put + 1]
    <3>4. k \in Call /\ k.op = "put" /\ k.name = n /\ k.want = want /\ k.bytes = spent.put + 1
      BY <3>1, <3>3 DEF Call
    <3>5. Start(c, k)
      BY <3>2
    <3> HIDE DEF k
    <3> QED
      BY <3>1, <3>2, <3>4, <3>5
  <2>2. CASE StartDelete(c)
    <3>1. /\ spent' \in Spent /\ spent'.put = spent.put /\ spent.put \in Nat
      BY <1>1, <2>2, SpendIs DEF StartDelete, Types, Spent
    <3>2. PICK n \in Name :
            Start(c, [op |-> "delete", name |-> n, want |-> Always, bytes |-> None])
      BY <2>2 DEF StartDelete
    <3> DEFINE k == [op |-> "delete", name |-> n, want |-> Always, bytes |-> None]
    <3>4. k \in Call /\ k.op = "delete" /\ k.want = Always /\ k.bytes = None
      BY DEF Call, Always, None
    <3>5. Start(c, k)
      BY <3>2
    <3> HIDE DEF k
    <3> QED
      BY <3>1, <3>4, <3>5
  <2> QED
    BY <2>1, <2>2
<1>3. /\ pc' = [pc EXCEPT ![c] = "load"] /\ call' = [call EXCEPT ![c] = k]
      /\ UNCHANGED <<drive, created, indexes, cache, work, tags, saw, acked, mixed, torn>>
  BY <1>2 DEF Start, driveVars, readVars, pastVars
<1>4. Types'
  BY <1>1, <1>2, <1>3 DEF Types
<1>5. pc'[c] = "load" /\ call'[c] = k /\ work'[c] = NoIndex /\ tags'[c] = tags[c]
  BY <1>1, <1>3 DEF Types
<1>6. CallFits(c)'
  BY <1>2, <1>5 DEF CallFits
<1>7. ASSUME NEW d \in Client, d # c PROVE CallFits(d)'
  <2>1. pc'[d] = pc[d] /\ call'[d] = call[d] /\ work'[d] = work[d] /\ tags'[d] = tags[d]
    BY <1>1, <1>3, <1>7 DEF Types
  <2> QED
    BY <1>2, <2>1, OtherCallFits
<1>8. \A i \in IndexId : Sound(indexes[i])'
  BY <1>3 DEF TypeInv, Sound, NoIndex, NewIndex
<1>9. \A d \in Client : Sound(cache[d])'
  BY <1>3 DEF TypeInv, Sound, NoIndex, NewIndex
<1> QED
  BY <1>4, <1>6, <1>7, <1>8, <1>9 DEF TypeInv

\* A step of c leaves the other calls as they are.
LEMMA StepOf ==
    ASSUME TypeInv, NEW c \in Client, Types', CallFits(c)', spent.put <= spent'.put,
           \A d \in Client \ {c} : /\ pc'[d] = pc[d] /\ call'[d] = call[d]
                                   /\ work'[d] = work[d] /\ tags'[d] = tags[d],
           \A i \in IndexId : Sound(indexes'[i]),
           \A d \in Client : Sound(cache'[d])
    PROVE  TypeInv'
<1>1. spent' \in Spent
  BY DEF Types
<1>2. ASSUME NEW d \in Client, d # c PROVE CallFits(d)'
  BY <1>1, <1>2, OtherCallFits
<1>3. \A i \in IndexId : Sound(indexes[i])'
  BY DEF Sound, NoIndex, NewIndex
<1>4. \A d \in Client : Sound(cache[d])'
  BY DEF Sound, NoIndex, NewIndex
<1> QED
  BY <1>2, <1>3, <1>4 DEF TypeInv

LEMMA SameSound ==
    ASSUME TypeInv
    PROVE  /\ UNCHANGED indexes => \A i \in IndexId : Sound(indexes'[i])
           /\ UNCHANGED cache => \A d \in Client : Sound(cache'[d])
BY DEF TypeInv

\* A call that ends has nothing with it.
LEMMA EndTypes ==
    ASSUME TypeInv, NEW c \in Client, End(c)
    PROVE  /\ pc' \in [Client -> {"idle", "load", "write", "find", "save"}]
           /\ call' \in [Client -> Call \cup {NoCall}] /\ work' \in [Client -> LooseIndex]
           /\ pc'[c] = "idle" /\ call'[c] = NoCall /\ work'[c] = NoIndex
           /\ CallFits(c)'
           /\ \A d \in Client \ {c} : pc'[d] = pc[d] /\ call'[d] = call[d] /\ work'[d] = work[d]
<1>1. /\ pc' \in [Client -> {"idle", "load", "write", "find", "save"}]
      /\ call' \in [Client -> Call \cup {NoCall}] /\ work' \in [Client -> LooseIndex]
      /\ pc'[c] = "idle" /\ call'[c] = NoCall /\ work'[c] = NoIndex
      /\ \A d \in Client \ {c} : pc'[d] = pc[d] /\ call'[d] = call[d] /\ work'[d] = work[d]
  BY EmptyIndexes DEF End, TypeInv, Types
<1> QED
  BY <1>1 DEF CallFits, NoCall, NoIndex, NewIndex

LEMMA LoadIndexTypes ==
    ASSUME TypeInv, NEW c \in Client, LoadIndex(c)
    PROVE  TypeInv'
<1>1. /\ Types /\ pc[c] = "load" /\ CallFits(c)
      /\ UNCHANGED <<drive, created, indexes, cache, tags, saw, spent, acked, torn>>
      /\ mixed' = (mixed \/ \E d \in Client \ {c} : pc[d] \notin {"idle", "load"})
  BY DEF TypeInv, LoadIndex, driveVars, readVars
<1>2. mixed' \in BOOLEAN
  BY <1>1
<1>3. PICK index \in Lookup :
         \/ /\ call[c].op = "put" \/ index.files[call[c].name] # None
            /\ pc' = [pc EXCEPT ![c] = "write"]
            /\ work' = [work EXCEPT ![c] = index]
            /\ UNCHANGED call
         \/ End(c)
  BY DEF LoadIndex, Base
<1>4. index \in LooseIndex /\ index.version >= 0 /\ (index.id = None => index = NewIndex)
  BY FoundIndex
<1>5. spent.put \in Nat
  BY <1>1, BoundsAreNaturals DEF Types, Spent
<1>6. CASE End(c)
  <2>1. Types'
    BY <1>1, <1>2, <1>6, EndTypes DEF Types
  <2> QED
    BY <1>1, <1>5, <1>6, <2>1, EndTypes, StepOf, SameSound
<1>7. CASE /\ call[c].op = "put" \/ index.files[call[c].name] # None
           /\ pc' = [pc EXCEPT ![c] = "write"]
           /\ work' = [work EXCEPT ![c] = index]
           /\ UNCHANGED call
  <2>1. /\ pc' \in [Client -> {"idle", "load", "write", "find", "save"}]
        /\ work' \in [Client -> LooseIndex]
        /\ pc'[c] = "write" /\ work'[c] = index
        /\ \A d \in Client \ {c} : pc'[d] = pc[d] /\ work'[d] = work[d]
    BY <1>1, <1>4, <1>7 DEF Types
  <2>2. Types'
    BY <1>1, <1>2, <1>7, <2>1 DEF Types
  <2>3. CallFits(c)'
    BY <1>1, <1>4, <1>7, <2>1 DEF CallFits, NewIndex
  <2> QED
    BY <1>1, <1>5, <1>7, <2>1, <2>2, <2>3, StepOf, SameSound
<1> QED
  BY <1>3, <1>6, <1>7

\* The call of one who has a file or no file written into its index.
LEMMA WorkChanged ==
    ASSUME TypeInv, NEW c \in Client, pc[c] = "write", NEW f \in FileId \cup {None},
           work' = [work EXCEPT ![c] = Changed(@, call[c].name, f)],
           pc' = [pc EXCEPT ![c] = NextStep(c)],
           UNCHANGED <<call, tags, spent>>
    PROVE  /\ pc' \in [Client -> {"idle", "load", "write", "find", "save"}]
           /\ work' \in [Client -> LooseIndex] /\ CallFits(c)'
           /\ \A d \in Client \ {c} : pc'[d] = pc[d] /\ work'[d] = work[d]
           /\ pc'[c] = NextStep(c) /\ pc'[c] \in {"find", "save"}
           /\ work'[c].id = work[c].id /\ work'[c].version = work[c].version + 1
           /\ work'[c].files = [work[c].files EXCEPT ![call[c].name] = f]
<1> DEFINE x == Changed(work[c], call[c].name, f)
<1>1. Types /\ CallFits(c) /\ call[c] \in Call /\ call[c].name \in Name /\ work[c] \in LooseIndex
      /\ work[c].version \in Nat
  BY DEF TypeInv, Types, CallFits, Call, LooseIndex
<1>2. /\ x \in LooseIndex /\ x.id = work[c].id /\ x.version = work[c].version + 1
      /\ x.files = [work[c].files EXCEPT ![call[c].name] = f]
  BY <1>1, ChangedIs, ZenonT(30)
<1> HIDE DEF x
<1>3. work' = [work EXCEPT ![c] = x]
  BY DEF x
<1>4. /\ pc' \in [Client -> {"idle", "load", "write", "find", "save"}]
      /\ work' \in [Client -> LooseIndex]
      /\ \A d \in Client \ {c} : pc'[d] = pc[d] /\ work'[d] = work[d]
      /\ pc'[c] = NextStep(c) /\ pc'[c] \in {"find", "save"} /\ work'[c] = x
  BY <1>1, <1>2, <1>3 DEF Types, NextStep
<1>5. pc'[c] = "find" => call[c].op = "put"
  <2>1. SUFFICES ASSUME work[c].id = None, call[c].op # "put" PROVE FALSE
    BY <1>4 DEF NextStep
  <2>2. call[c].op = "delete"
    BY <1>1, <2>1 DEF Call
  <2>3. work[c].files[call[c].name] # None /\ work[c] = NewIndex
    BY <1>1, <2>1, <2>2 DEF CallFits
  <2> QED
    BY <1>1, <2>3, EmptyIndexes
<1>6. CallFits(c)'
  BY <1>1, <1>2, <1>4, <1>5 DEF CallFits, NextStep
<1> QED
  BY <1>2, <1>4, <1>6

\* A put that has not written yet may still create a file.
LEMMA RoomForFile ==
    ASSUME TypeInv, Counts, NEW c \in Client, pc[c] = "write", call[c].op = "put"
    PROVE  created + 1 \in FileId
<1>1. c \in PutsUnderWay
  BY DEF PutsUnderWay, UnderWay
<1>2. IsFiniteSet(PutsUnderWay)
  BY FS_Subset DEF Counts, PutsUnderWay
<1>3. Cardinality(PutsUnderWay) \in Nat /\ Cardinality(PutsUnderWay) # 0
  BY <1>1, <1>2, FS_CardinalityType, FS_EmptySet
<1> QED
  BY <1>3, BoundsAreNaturals DEF Counts, TypeInv, Types, Spent, FileId

LEMMA WriteTypes ==
    ASSUME TypeInv, Counts, NEW c \in Client,
           ReplaceContent(c) \/ CreateFile(c) \/ DeleteFile(c)
    PROVE  TypeInv'
<1>1. /\ Types /\ pc[c] = "write" /\ CallFits(c) /\ call[c] \in Call /\ call[c].name \in Name
      /\ UNCHANGED <<indexes, cache, tags, saw, spent, acked, mixed, torn>>
      /\ work[c] \in LooseIndex /\ work[c].files \in [Name -> FileId \cup {None}]
      /\ call[c].bytes \in 0 .. MaxPuts
      /\ spent.put \in Nat
  BY BoundsAreNaturals
     DEF TypeInv, Types, CallFits, Call, LooseIndex, Spent, ReplaceContent, CreateFile, DeleteFile,
         readVars, pastVars
<1> DEFINE wrote(f) == /\ work' = [work EXCEPT ![c] = Changed(@, call[c].name, f)]
                       /\ pc' = [pc EXCEPT ![c] = NextStep(c)] /\ UNCHANGED call
<1>2. ASSUME NEW f \in FileId \cup {None}, wrote(f),
             drive' \in [FileId -> 0 .. MaxPuts], created' \in Nat
      PROVE  TypeInv'
  <2>1. /\ pc' \in [Client -> {"idle", "load", "write", "find", "save"}]
        /\ work' \in [Client -> LooseIndex] /\ CallFits(c)'
        /\ \A d \in Client \ {c} : pc'[d] = pc[d] /\ work'[d] = work[d]
    BY <1>1, <1>2, WorkChanged
  <2>2. Types'
    BY <1>1, <1>2, <2>1 DEF Types
  <2> QED
    BY <1>1, <1>2, <2>1, <2>2, StepOf, SameSound
<1>3. CASE ReplaceContent(c)
  <2> DEFINE f == work[c].files[call[c].name]
  <2>1. f \in FileId /\ created' = created
    BY <1>1, <1>3 DEF ReplaceContent
  <2>2. CASE drive[f] # None
    <3>1. wrote(f) /\ drive' = [drive EXCEPT ![f] = call[c].bytes]
      BY <1>3, <2>2 DEF ReplaceContent
    <3>2. drive' \in [FileId -> 0 .. MaxPuts] /\ created' \in Nat
      BY <1>1, <2>1, <3>1 DEF Types
    <3> QED
      BY <1>2, <2>1, <3>1, <3>2
  <2>3. CASE drive[f] = None
    <3>1. End(c) /\ UNCHANGED drive
      BY <1>3, <2>3 DEF ReplaceContent
    <3>2. Types'
      BY <1>1, <2>1, <3>1, EndTypes DEF Types
    <3> QED
      BY <1>1, <3>1, <3>2, EndTypes, StepOf, SameSound
  <2> QED
    BY <2>2, <2>3
<1>4. CASE CreateFile(c)
  <2>1. /\ created' = created + 1 /\ created' \in FileId
        /\ drive' = [drive EXCEPT ![created'] = call[c].bytes] /\ wrote(created')
    BY <1>1, <1>4, RoomForFile DEF CreateFile
  <2>2. created' \in Nat
    BY <1>1, <2>1 DEF Types
  <2>3. drive \in [FileId -> 0 .. MaxPuts] /\ call[c].bytes \in 0 .. MaxPuts
    BY <1>1 DEF Types
  <2>4. drive' \in [FileId -> 0 .. MaxPuts]
    BY <2>1, <2>3
  <2> QED
    BY <1>2, <2>1, <2>2, <2>4
<1>5. CASE DeleteFile(c)
  <2>1. drive' = [drive EXCEPT ![work[c].files[call[c].name]] = None] /\ created' = created /\ wrote(None)
    BY <1>5 DEF DeleteFile
  <2>2. created' \in Nat
    BY <1>1, <2>1 DEF Types
  <2>3. drive \in [FileId -> 0 .. MaxPuts] /\ None \in 0 .. MaxPuts
    BY <1>1, BoundsAreNaturals DEF Types, None
  <2>4. drive' \in [FileId -> 0 .. MaxPuts]
    BY <2>1, <2>3
  <2> QED
    BY <1>2, <2>1, <2>2, <2>4
<1> QED
  BY <1>3, <1>4, <1>5

\* The call that has found or made an index file has its id.
LEMMA FindIs ==
    ASSUME TypeInv, NEW c \in Client, FindIndexFile(c)
    PROVE  /\ pc[c] = "find" /\ pc' = [pc EXCEPT ![c] = "save"]
           /\ UNCHANGED <<drive, created, cache, call, tags, saw, acked, mixed, torn>>
           /\ spent' \in Spent /\ spent'.put = spent.put /\ spent'.delete = spent.delete
           /\ call[c].op = "put" /\ call[c].bytes \in IndexId
           /\ work[c] \in LooseIndex /\ work[c].version \in Nat
           /\ \E i \in IndexId :
                 /\ work' = [work EXCEPT ![c] = [work[c] EXCEPT !.id = i]]
                 /\ \/ i \in Found /\ UNCHANGED indexes
                    \/ i = call[c].bytes /\ indexes' = [indexes EXCEPT ![i] = work[c]]
<1>1. /\ pc[c] = "find" /\ pc' = [pc EXCEPT ![c] = "save"]
      /\ UNCHANGED <<drive, created, cache, call, tags, saw, acked, mixed, torn>>
  BY DEF FindIndexFile, readVars, pastVars
<1>2. /\ Types /\ call[c] \in Call /\ call[c].op = "put" /\ call[c].bytes \in 1 .. spent.put
      /\ work[c] \in LooseIndex /\ work[c].version \in Nat /\ spent \in Spent
  BY <1>1 DEF TypeInv, Types, CallFits, LooseIndex
<1>3. call[c].bytes \in IndexId
  BY <1>2, BoundsAreNaturals DEF Spent, IndexId
<1>4. UNCHANGED spent \/ Spend("break", MaxBreaks)
  BY DEF FindIndexFile
<1>5. spent' \in Spent /\ spent'.put = spent.put /\ spent'.delete = spent.delete
  BY <1>2, <1>4, SpendIs, BoundsAreNaturals
<1>6. \E i \in IndexId :
         /\ work' = [work EXCEPT ![c] = [work[c] EXCEPT !.id = i]]
         /\ \/ i \in Found /\ UNCHANGED indexes
            \/ i = call[c].bytes /\ indexes' = [indexes EXCEPT ![i] = work[c]]
  BY <1>3 DEF FindIndexFile, Found
<1> QED
  BY <1>1, <1>2, <1>3, <1>5, <1>6

LEMMA FindTypes ==
    ASSUME TypeInv, NEW c \in Client, FindIndexFile(c)
    PROVE  TypeInv'
<1>1. /\ Types /\ CallFits(c) /\ pc[c] = "find" /\ pc' = [pc EXCEPT ![c] = "save"]
      /\ UNCHANGED <<drive, created, cache, call, tags, saw, acked, mixed, torn>>
      /\ spent' \in Spent /\ spent'.put = spent.put
      /\ work[c] \in LooseIndex /\ work[c].version \in Nat /\ spent.put \in Nat
      /\ call[c] \in Call /\ call[c].op = "put"
  BY FindIs, BoundsAreNaturals DEF TypeInv, Types, CallFits, Spent
<1>2. PICK i \in IndexId :
         /\ work' = [work EXCEPT ![c] = [work[c] EXCEPT !.id = i]]
         /\ UNCHANGED indexes \/ indexes' = [indexes EXCEPT ![i] = work[c]]
  BY FindIs
<1> DEFINE x == [work[c] EXCEPT !.id = i]
<1>3. x \in LooseIndex /\ x.id = i /\ x.version = work[c].version /\ i # None
  BY <1>1 DEF LooseIndex, IndexId, None
<1> HIDE DEF x
<1>4. work' = [work EXCEPT ![c] = x]
  BY <1>2 DEF x
<1>5. /\ work' \in [Client -> LooseIndex] /\ work'[c] = x /\ pc'[c] = "save"
      /\ pc' \in [Client -> {"idle", "load", "write", "find", "save"}]
      /\ \A d \in Client \ {c} : pc'[d] = pc[d] /\ work'[d] = work[d]
  BY <1>1, <1>3, <1>4 DEF Types
<1>6. indexes' \in [IndexId -> LooseIndex] /\ \A j \in IndexId : Sound(indexes'[j])
  <2>1. Sound(work[c])
    BY <1>1 DEF Sound
  <2> QED
    BY <1>1, <1>2, <2>1 DEF TypeInv, Types
<1>7. Types'
  BY <1>1, <1>5, <1>6 DEF Types
<1>8. CallFits(c)'
  BY <1>1, <1>3, <1>5 DEF CallFits
<1> QED
  BY <1>1, <1>5, <1>6, <1>7, <1>8, StepOf, SameSound

LEMMA SaveTypes ==
    ASSUME TypeInv, NEW c \in Client, SaveIndex(c)
    PROVE  TypeInv'
<1>1. /\ Types /\ CallFits(c) /\ pc[c] = "save" /\ End(c)
      /\ indexes' = [indexes EXCEPT ![work[c].id] = work[c]]
      /\ cache' = [cache EXCEPT ![c] = work[c]]
      /\ acked' = [acked EXCEPT ![call[c].name] = call[c].bytes]
      /\ UNCHANGED <<drive, created, tags, saw, spent, mixed, torn>>
  BY DEF TypeInv, SaveIndex, readVars
<1>2. call[c] \in Call /\ call[c].bytes \in 0 .. MaxPuts /\ work[c] \in LooseIndex /\ Sound(work[c])
  BY <1>1 DEF Types, CallFits, Call, Sound
<1>3. indexes' \in [IndexId -> LooseIndex] /\ \A j \in IndexId : Sound(indexes'[j])
  BY <1>1, <1>2 DEF TypeInv, Types
<1>4. cache' \in [Client -> LooseIndex] /\ \A d \in Client : Sound(cache'[d])
  BY <1>1, <1>2 DEF TypeInv, Types
<1>5. acked' \in [Name -> 0 .. MaxPuts]
  BY <1>1, <1>2 DEF Types
<1>6. Types'
  BY <1>1, <1>3, <1>4, <1>5, EndTypes DEF Types
<1>7. spent.put \in Nat /\ spent'.put = spent.put
  BY <1>1, BoundsAreNaturals DEF Types, Spent
<1> QED
  BY <1>1, <1>3, <1>4, <1>6, <1>7, EndTypes, StepOf

LEMMA BreakTypes ==
    ASSUME TypeInv, NEW c \in Client, BreakOff(c)
    PROVE  TypeInv'
<1>1. /\ Types /\ CallFits(c) /\ pc[c] # "idle" /\ End(c) /\ Spend("break", MaxBreaks)
      /\ UNCHANGED <<drive, created, cache, tags, saw, acked, mixed>>
      /\ torn' = IF pc[c] = "load" THEN torn ELSE torn \cup {call[c].name}
      /\ \/ UNCHANGED indexes
         \/ pc[c] = "save" /\ indexes' = [indexes EXCEPT ![work[c].id] = work[c]]
  BY DEF TypeInv, BreakOff, readVars
<1>2. call[c] \in Call /\ call[c].name \in Name /\ work[c] \in LooseIndex
  BY <1>1 DEF Types, CallFits, Call
<1>3. indexes' \in [IndexId -> LooseIndex] /\ \A j \in IndexId : Sound(indexes'[j])
  <2>1. pc[c] = "save" => Sound(work[c])
    BY <1>1 DEF CallFits, Sound
  <2> QED
    BY <1>1, <1>2, <2>1 DEF TypeInv, Types
<1>4. spent' \in Spent /\ spent'.put = spent.put /\ spent.put \in Nat
  BY <1>1, SpendIs, BoundsAreNaturals DEF Types, Spent
<1>5. torn' \subseteq Name
  BY <1>1, <1>2 DEF Types
<1>6. Types'
  BY <1>1, <1>3, <1>4, <1>5, EndTypes DEF Types
<1> QED
  BY <1>1, <1>3, <1>4, <1>6, EndTypes, StepOf, SameSound

LEMMA ReadTypes ==
    ASSUME TypeInv, NEW c \in Client, LoadCache(c) \/ List(c) \/ Get(c) \/ NewInstance(c)
    PROVE  TypeInv'
<1>1. Types /\ pc[c] = "idle" /\ CallFits(c) /\ spent.put \in Nat /\ cache[c] \in LooseIndex
      /\ UNCHANGED <<drive, created, indexes, pc, call, work, acked, mixed, torn>>
  BY BoundsAreNaturals
     DEF TypeInv, Types, Spent, LoadCache, List, Get, NewInstance, driveVars, pastVars
<1>2. cache' \in [Client -> LooseIndex] /\ \A d \in Client : Sound(cache'[d])
  <2>1. CASE LoadCache(c)
    <3>1. PICK index \in Lookup : cache' = [cache EXCEPT ![c] = index]
      BY <2>1 DEF LoadCache
    <3>2. index \in LooseIndex /\ Sound(index)
      BY FoundIndex DEF Sound
    <3> QED
      BY <1>1, <3>1, <3>2 DEF TypeInv, Types
  <2>2. CASE NewInstance(c)
    <3>1. cache' = [cache EXCEPT ![c] = NoIndex] /\ Sound(NoIndex)
      BY <2>2 DEF NewInstance, Sound
    <3> QED
      BY <1>1, <3>1, EmptyIndexes DEF TypeInv, Types
  <2>3. CASE List(c) \/ Get(c)
    BY <1>1, <2>3 DEF TypeInv, Types, List, Get
  <2> QED
    BY <2>1, <2>2, <2>3
<1>3. tags' \in [Client -> [Name -> Int]] /\ \A d \in Client \ {c} : tags'[d] = tags[d]
  <2>1. CASE List(c)
    <3> DEFINE t == [n \in Name |-> IF cache[c].files[n] = None THEN IfNew ELSE cache[c].version]
    <3>1. tags' = [tags EXCEPT ![c] = t] /\ t \in [Name -> Int]
      BY <1>1, <2>1 DEF List, LooseIndex, IfNew
    <3> HIDE DEF t
    <3> QED
      BY <1>1, <3>1 DEF Types
  <2>2. CASE NewInstance(c)
    <3> DEFINE t == [n \in Name |-> IfNew]
    <3>1. tags' = [tags EXCEPT ![c] = t] /\ t \in [Name -> Int]
      BY <2>2 DEF NewInstance, IfNew
    <3> HIDE DEF t
    <3> QED
      BY <1>1, <3>1 DEF Types
  <2>3. CASE LoadCache(c) \/ Get(c)
    BY <1>1, <2>3 DEF Types, LoadCache, Get, readVars
  <2> QED
    BY <2>1, <2>2, <2>3
<1>4. saw' \in [Client -> [Name -> 0 .. MaxPuts \cup {Unread}]]
  <2> DEFINE u == [n \in Name |-> Unread]
  <2>1. u \in [Name -> 0 .. MaxPuts \cup {Unread}]
    OBVIOUS
  <2>2. CASE List(c) \/ NewInstance(c)
    <3>1. saw' = [saw EXCEPT ![c] = u]
      BY <2>2 DEF List, NewInstance
    <3> HIDE DEF u
    <3> QED
      BY <1>1, <2>1, <3>1 DEF Types
  <2>3. CASE Get(c)
    <3>1. PICK n \in Name : saw' = [saw EXCEPT ![c][n] = drive[cache[c].files[n]]] /\ cache[c].files[n] # None
      BY <2>3 DEF Get
    <3>2. drive[cache[c].files[n]] \in 0 .. MaxPuts
      BY <1>1, <3>1 DEF Types, LooseIndex
    <3> QED
      BY <1>1, <3>1, <3>2 DEF Types
  <2>4. CASE LoadCache(c)
    BY <1>1, <2>4 DEF Types, LoadCache, readVars
  <2> QED
    BY <2>2, <2>3, <2>4
<1>5. spent' \in Spent /\ spent'.put = spent.put
  <2>1. UNCHANGED spent \/ Spend("list", MaxLists)
    BY DEF LoadCache, List, Get, NewInstance
  <2> QED
    BY <1>1, <2>1, SpendIs, BoundsAreNaturals DEF Types
<1>6. Types'
  BY <1>1, <1>2, <1>3, <1>4, <1>5 DEF Types
<1>7. CallFits(c)'
  BY <1>1 DEF CallFits, NoCall, NoIndex, NewIndex
<1> QED
  BY <1>1, <1>2, <1>3, <1>5, <1>6, <1>7, StepOf, SameSound

-----------------------------------------------------------------------------
(* Every action keeps the counts.                                            *)

LEMMA CountsAreNumbers ==
    ASSUME TypeInv, Counts
    PROVE  /\ IsFiniteSet(PutsUnderWay)
           /\ Cardinality(UnderWay) \in Nat /\ Cardinality(PutsUnderWay) \in Nat
           /\ spent.put \in Nat /\ spent.delete \in Nat /\ created \in Nat
           /\ \A i \in IndexId : indexes[i].version \in Int
           /\ \A c \in Client : cache[c].version \in Int /\ work[c].version \in Int
<1>1. IsFiniteSet(PutsUnderWay) /\ IsFiniteSet(UnderWay)
  BY FS_Subset DEF Counts, PutsUnderWay
<1>2. Cardinality(UnderWay) \in Nat /\ Cardinality(PutsUnderWay) \in Nat
  BY <1>1, FS_CardinalityType
<1>3. spent.put \in Nat /\ spent.delete \in Nat /\ created \in Nat
  BY BoundsAreNaturals DEF TypeInv, Types, Spent
<1>4. /\ \A i \in IndexId : indexes[i] \in LooseIndex
      /\ \A c \in Client : cache[c] \in LooseIndex /\ work[c] \in LooseIndex
  BY DEF TypeInv, Types
<1>5. \A index \in LooseIndex : index.version \in Int
  BY DEF LooseIndex
<1> QED
  BY <1>1, <1>2, <1>3, <1>4, <1>5

\* A call that goes from one of its first two steps to none of them.
LEMMA OneLess ==
    ASSUME TypeInv, Counts, NEW c \in Client, pc[c] \in {"load", "write"}, call[c].op \in {"put", "delete"},
           pc'[c] \notin {"load", "write"},
           \A d \in Client \ {c} : pc'[d] = pc[d] /\ call'[d] = call[d]
    PROVE  /\ IsFiniteSet(UnderWay')
           /\ Cardinality(UnderWay') = Cardinality(UnderWay) - 1
           /\ Cardinality(PutsUnderWay') =
                 Cardinality(PutsUnderWay) - (IF call[c].op = "put" THEN 1 ELSE 0)
<1>1. IsFiniteSet(PutsUnderWay) /\ IsFiniteSet(UnderWay)
  BY CountsAreNumbers DEF Counts
<1>2. UnderWay' = UnderWay \ {c} /\ PutsUnderWay' = PutsUnderWay \ {c} /\ c \in UnderWay
  BY DEF UnderWay, PutsUnderWay
<1>3. c \in PutsUnderWay <=> call[c].op = "put"
  BY <1>2 DEF PutsUnderWay
<1>4. /\ IsFiniteSet(UnderWay') /\ Cardinality(UnderWay') = Cardinality(UnderWay) - 1
  BY <1>1, <1>2, FS_RemoveElement
<1>5. Cardinality(PutsUnderWay') =
         IF c \in PutsUnderWay THEN Cardinality(PutsUnderWay) - 1 ELSE Cardinality(PutsUnderWay)
  BY <1>1, <1>2, FS_RemoveElement
<1> QED
  BY <1>1, <1>3, <1>4, <1>5, FS_CardinalityType

\* A step after which the same calls are at their first two steps.
LEMMA NoneLess ==
    ASSUME \A d \in Client : pc'[d] \in {"load", "write"} <=> pc[d] \in {"load", "write"},
           \A d \in Client : pc[d] \in {"load", "write"} => call'[d] = call[d]
    PROVE  UnderWay' = UnderWay /\ PutsUnderWay' = PutsUnderWay
BY DEF UnderWay, PutsUnderWay

LEMMA StartCounts ==
    ASSUME TypeInv, Counts, NEW c \in Client, StartPut(c) \/ StartDelete(c)
    PROVE  Counts'
<1> DEFINE w == Cardinality(UnderWay)
           p == Cardinality(PutsUnderWay)
<1>1. PICK k : Start(c, k) /\ (StartDelete(c) => k.op = "delete")
  <2>1. CASE StartDelete(c)
    <3>1. PICK n \in Name :
            Start(c, [op |-> "delete", name |-> n, want |-> Always, bytes |-> None])
      BY <2>1 DEF StartDelete
    <3> QED
      BY <3>1
  <2>2. CASE StartPut(c) /\ ~StartDelete(c)
    <3>1. PICK k : Start(c, k)
      BY <2>2, Zenon DEF StartPut
    <3> QED
      BY <2>2, <3>1
  <2> QED
    BY <2>1, <2>2
<1>2. /\ \A d \in Client \ {c} : pc'[d] = pc[d] /\ call'[d] = call[d]
      /\ pc'[c] = "load" /\ c \notin UnderWay /\ c \notin PutsUnderWay
      /\ call'[c] = k
      /\ UNCHANGED <<created, indexes, cache, work>>
  BY <1>1 DEF TypeInv, Types, UnderWay, PutsUnderWay, Start, driveVars
<1>3. UnderWay' = UnderWay \cup {c}
  BY <1>2 DEF UnderWay
<1>4. \/ PutsUnderWay' = PutsUnderWay \cup {c} /\ ~StartDelete(c)
      \/ PutsUnderWay' = PutsUnderWay
  BY <1>1, <1>2, <1>3 DEF UnderWay, PutsUnderWay
<1>5. IsFiniteSet(UnderWay) /\ IsFiniteSet(PutsUnderWay) /\ w \in Nat /\ p \in Nat
  BY CountsAreNumbers DEF Counts
<1>6. IsFiniteSet(UnderWay') /\ Cardinality(UnderWay') = w + 1
  BY <1>2, <1>3, <1>5, FS_AddElement
<1>7. Cardinality(PutsUnderWay') = p \/ (Cardinality(PutsUnderWay') = p + 1 /\ ~StartDelete(c))
  BY <1>2, <1>4, <1>5, FS_AddElement
<1>8. \/ StartDelete(c) /\ spent'.put = spent.put /\ spent'.delete = spent.delete + 1
      \/ ~StartDelete(c) /\ spent'.put = spent.put + 1 /\ spent'.delete = spent.delete
  <2>1. spent \in Spent
    BY DEF TypeInv, Types
  <2>2. CASE StartDelete(c)
    BY <2>1, <2>2, SpendIs, BoundsAreNaturals DEF StartDelete
  <2>3. CASE StartPut(c) /\ ~StartDelete(c)
    BY <2>1, <2>3, SpendIs, BoundsAreNaturals DEF StartPut
  <2> QED
    BY <2>2, <2>3
<1> HIDE DEF w, p
<1>9. /\ w <= spent.put + spent.delete /\ created + p <= spent.put
      /\ \A i \in IndexId : indexes[i].version + w <= spent.put + spent.delete
      /\ \A d \in Client : /\ cache[d].version + w <= spent.put + spent.delete
                           /\ work[d].version + w <= spent.put + spent.delete
  BY DEF Counts, w, p
<1>10. /\ w + 1 <= spent'.put + spent'.delete
       /\ created + Cardinality(PutsUnderWay') <= spent'.put
       /\ \A i \in IndexId : indexes[i].version + (w + 1) <= spent'.put + spent'.delete
       /\ \A d \in Client : /\ cache[d].version + (w + 1) <= spent'.put + spent'.delete
                            /\ work[d].version + (w + 1) <= spent'.put + spent'.delete
  BY <1>5, <1>7, <1>8, <1>9, CountsAreNumbers
<1> QED
  BY <1>2, <1>6, <1>10 DEF Counts

\* How high a version may be for now.
Low(v) == v + Cardinality(UnderWay) <= spent.put + spent.delete

LEMMA LessCounts ==
    ASSUME TypeInv, TypeInv', Counts, NEW c \in Client,
           pc[c] \in {"load", "write"}, pc'[c] \notin {"load", "write"},
           \A d \in Client \ {c} : pc'[d] = pc[d] /\ call'[d] = call[d] /\ work'[d] = work[d],
           spent'.put = spent.put, spent'.delete = spent.delete,
           UNCHANGED <<indexes, cache>>,
           work'[c].version = work[c].version + 1 \/ work'[c].version = -1,
           created' = created \/ (created' = created + 1 /\ call[c].op = "put")
    PROVE  Counts'
<1> DEFINE w == Cardinality(UnderWay)
           p == Cardinality(PutsUnderWay)
<1>1. call[c].op \in {"put", "delete"}
  BY DEF TypeInv, CallFits, Call
<1>2. /\ IsFiniteSet(UnderWay')
      /\ Cardinality(UnderWay') = w - 1
      /\ Cardinality(PutsUnderWay') = p - (IF call[c].op = "put" THEN 1 ELSE 0)
  BY <1>1, OneLess
<1>3. /\ w \in Nat /\ p \in Nat /\ spent.put \in Nat /\ spent.delete \in Nat /\ created \in Nat
      /\ \A i \in IndexId : indexes[i].version \in Int
      /\ \A d \in Client : cache[d].version \in Int /\ work[d].version \in Int
  BY CountsAreNumbers
<1> HIDE DEF w, p
<1>4. /\ w <= spent.put + spent.delete /\ created + p <= spent.put
      /\ \A i \in IndexId : indexes[i].version + w <= spent.put + spent.delete
      /\ \A d \in Client : /\ cache[d].version + w <= spent.put + spent.delete
                           /\ work[d].version + w <= spent.put + spent.delete
  BY DEF Counts, w, p
<1>5. /\ w - 1 <= spent.put + spent.delete
      /\ \A i \in IndexId : indexes[i].version + (w - 1) <= spent.put + spent.delete
      /\ \A d \in Client : cache[d].version + (w - 1) <= spent.put + spent.delete
  BY <1>3, <1>4
<1>6. created' + Cardinality(PutsUnderWay') <= spent.put
  BY <1>1, <1>2, <1>3, <1>4
<1>7. \A d \in Client : work'[d].version + (w - 1) <= spent.put + spent.delete
  BY <1>3, <1>4
<1> QED
  BY <1>2, <1>5, <1>6, <1>7 DEF Counts

LEMMA SameCounts ==
    ASSUME Counts,
           \A d \in Client : pc'[d] \in {"load", "write"} <=> pc[d] \in {"load", "write"},
           \A d \in Client : pc[d] \in {"load", "write"} => call'[d] = call[d],
           spent'.put = spent.put, spent'.delete = spent.delete, UNCHANGED created,
           \A i \in IndexId : Low(indexes'[i].version),
           \A d \in Client : Low(cache'[d].version) /\ Low(work'[d].version)
    PROVE  Counts'
<1>1. UnderWay' = UnderWay /\ PutsUnderWay' = PutsUnderWay
  BY NoneLess
<1> QED
  BY <1>1 DEF Counts, Low

LEMMA CountsAreLow ==
    ASSUME TypeInv, Counts
    PROVE  /\ \A i \in IndexId : Low(indexes[i].version)
           /\ \A d \in Client : Low(cache[d].version) /\ Low(work[d].version)
           /\ Low(0) /\ Low(-1)
           /\ \A index \in Lookup : Low(index.version)
<1>1. /\ \A i \in IndexId : Low(indexes[i].version)
      /\ \A d \in Client : Low(cache[d].version) /\ Low(work[d].version)
      /\ Low(0) /\ Low(-1)
  BY CountsAreNumbers DEF Counts, Low
<1>2. ASSUME NEW index \in Lookup PROVE Low(index.version)
  <2>1. CASE index = NewIndex
    BY <1>1, <2>1, EmptyIndexes
  <2>2. CASE \E i \in Found : index = [indexes[i] EXCEPT !.id = i]
    <3>1. PICK i \in Found : index = [indexes[i] EXCEPT !.id = i]
      BY <2>2
    <3>2. i \in IndexId /\ indexes[i] \in LooseIndex
      BY DEF Found, TypeInv, Types
    <3>3. index.version = indexes[i].version
      BY <3>1, <3>2 DEF LooseIndex
    <3> QED
      BY <1>1, <3>2, <3>3
  <2> QED
    BY <2>1, <2>2, LookupIs
<1> QED
  BY <1>1, <1>2

LEMMA LoadIndexCounts ==
    ASSUME TypeInv, TypeInv', Counts, NEW c \in Client, LoadIndex(c)
    PROVE  Counts'
<1>1. /\ pc[c] = "load" /\ UNCHANGED <<created, indexes, cache, spent>>
      /\ work[c] = NoIndex
  BY DEF LoadIndex, driveVars, TypeInv, CallFits
<1>2. PICK index \in Lookup :
         \/ /\ pc' = [pc EXCEPT ![c] = "write"]
            /\ work' = [work EXCEPT ![c] = index]
            /\ UNCHANGED call
         \/ End(c)
  BY DEF LoadIndex, Base
<1>3. CASE End(c)
  <2>1. /\ pc'[c] = "idle" /\ work'[c].version = -1
        /\ \A d \in Client \ {c} : pc'[d] = pc[d] /\ call'[d] = call[d] /\ work'[d] = work[d]
    BY <1>3, EndTypes, EmptyIndexes
  <2> QED
    BY <1>1, <2>1, LessCounts
<1>4. CASE /\ pc' = [pc EXCEPT ![c] = "write"]
           /\ work' = [work EXCEPT ![c] = index]
           /\ UNCHANGED call
  <2>1. /\ pc'[c] = "write" /\ work'[c] = index
        /\ \A d \in Client \ {c} : pc'[d] = pc[d] /\ work'[d] = work[d]
    BY <1>4 DEF TypeInv, Types
  <2>2. \A d \in Client : Low(work'[d].version)
    BY <2>1, CountsAreLow
  <2>3. \A d \in Client : pc'[d] \in {"load", "write"} <=> pc[d] \in {"load", "write"}
    BY <1>1, <2>1
  <2>4. /\ \A i \in IndexId : Low(indexes'[i].version)
        /\ \A d \in Client : Low(cache'[d].version)
    BY <1>1, CountsAreLow
  <2> QED
    BY <1>1, <1>4, <2>2, <2>3, <2>4, SameCounts
<1> QED
  BY <1>2, <1>3, <1>4

LEMMA WriteCounts ==
    ASSUME TypeInv, TypeInv', Counts, NEW c \in Client,
           ReplaceContent(c) \/ CreateFile(c) \/ DeleteFile(c)
    PROVE  Counts'
<1>1. pc[c] = "write" /\ UNCHANGED <<indexes, cache, tags, spent>>
  BY DEF ReplaceContent, CreateFile, DeleteFile, readVars
<1>2. ASSUME NEW f \in FileId \cup {None}, UNCHANGED call, pc' = [pc EXCEPT ![c] = NextStep(c)],
             work' = [work EXCEPT ![c] = Changed(@, call[c].name, f)],
             created' = created \/ (created' = created + 1 /\ call[c].op = "put")
      PROVE  Counts'
  <2>1. /\ \A d \in Client \ {c} : pc'[d] = pc[d] /\ work'[d] = work[d]
        /\ pc'[c] \in {"find", "save"} /\ work'[c].version = work[c].version + 1
    BY <1>1, <1>2, WorkChanged
  <2> QED
    BY <1>1, <1>2, <2>1, LessCounts
<1>3. CASE ReplaceContent(c)
  <2> DEFINE f == work[c].files[call[c].name]
  <2>1. f \in FileId \cup {None} /\ created' = created
    BY <1>1, <1>3 DEF ReplaceContent, TypeInv, Types, CallFits, Call, LooseIndex
  <2>2. CASE drive[f] # None
    BY <1>2, <1>3, <2>1, <2>2 DEF ReplaceContent
  <2>3. CASE drive[f] = None
    <3>1. End(c)
      BY <1>3, <2>3 DEF ReplaceContent
    <3>2. /\ pc'[c] = "idle" /\ work'[c].version = -1
          /\ \A d \in Client \ {c} : pc'[d] = pc[d] /\ call'[d] = call[d] /\ work'[d] = work[d]
      BY <3>1, EndTypes, EmptyIndexes
    <3> QED
      BY <1>1, <2>1, <3>2, LessCounts
  <2> QED
    BY <2>2, <2>3
<1>4. CASE CreateFile(c)
  <2>1. created' \in FileId /\ created' = created + 1 /\ call[c].op = "put"
    BY <1>1, <1>4, RoomForFile DEF CreateFile
  <2> QED
    BY <1>2, <1>4, <2>1 DEF CreateFile
<1>5. CASE DeleteFile(c)
  BY <1>2, <1>5 DEF DeleteFile
<1> QED
  BY <1>3, <1>4, <1>5

LEMMA FindCounts ==
    ASSUME TypeInv, TypeInv', Counts, NEW c \in Client, FindIndexFile(c)
    PROVE  Counts'
<1>1. /\ pc[c] = "find" /\ pc' = [pc EXCEPT ![c] = "save"]
      /\ UNCHANGED <<created, cache, call>>
      /\ spent'.put = spent.put /\ spent'.delete = spent.delete
      /\ work[c] \in LooseIndex
  BY FindIs
<1>2. PICK i \in IndexId :
         /\ work' = [work EXCEPT ![c] = [work[c] EXCEPT !.id = i]]
         /\ UNCHANGED indexes \/ indexes' = [indexes EXCEPT ![i] = work[c]]
  BY FindIs
<1> DEFINE x == [work[c] EXCEPT !.id = i]
<1>3. x.version = work[c].version
  BY <1>1 DEF LooseIndex
<1> HIDE DEF x
<1>4. work' = [work EXCEPT ![c] = x]
  BY <1>2 DEF x
<1>5. work'[c] = x /\ \A d \in Client \ {c} : work'[d] = work[d]
  BY <1>4 DEF TypeInv, Types
<1>6. \A d \in Client : Low(work'[d].version)
  BY <1>3, <1>5, CountsAreLow
<1>7. \A j \in IndexId : indexes'[j] = indexes[j] \/ indexes'[j] = work[c]
  BY <1>2 DEF TypeInv, Types
<1>8. \A j \in IndexId : Low(indexes'[j].version)
  BY <1>7, CountsAreLow
<1>9. \A d \in Client : pc'[d] \in {"load", "write"} <=> pc[d] \in {"load", "write"}
  BY <1>1 DEF TypeInv, Types
<1> QED
  BY <1>1, <1>6, <1>8, <1>9, CountsAreLow, SameCounts

LEMMA SaveCounts ==
    ASSUME TypeInv, TypeInv', Counts, NEW c \in Client, SaveIndex(c)
    PROVE  Counts'
<1>1. /\ pc[c] = "save" /\ End(c)
      /\ indexes' = [indexes EXCEPT ![work[c].id] = work[c]]
      /\ cache' = [cache EXCEPT ![c] = work[c]]
      /\ UNCHANGED <<created, spent>>
  BY DEF SaveIndex
<1>2. /\ pc'[c] = "idle" /\ work'[c].version = -1
      /\ \A d \in Client \ {c} : pc'[d] = pc[d] /\ call'[d] = call[d] /\ work'[d] = work[d]
  BY <1>1, EndTypes, EmptyIndexes
<1>3. /\ \A j \in IndexId : indexes'[j] = indexes[j] \/ indexes'[j] = work[c]
      /\ \A d \in Client : cache'[d] = cache[d] \/ cache'[d] = work[c]
  BY <1>1 DEF TypeInv, Types
<1>4. /\ \A j \in IndexId : Low(indexes'[j].version)
      /\ \A d \in Client : Low(cache'[d].version)
      /\ \A d \in Client : Low(work'[d].version)
  BY <1>2, <1>3, CountsAreLow
<1>5. \A d \in Client : pc'[d] \in {"load", "write"} <=> pc[d] \in {"load", "write"}
  BY <1>1, <1>2
<1>6. \A d \in Client : pc[d] \in {"load", "write"} => call'[d] = call[d]
  BY <1>1, <1>2
<1> QED
  BY <1>1, <1>4, <1>5, <1>6, SameCounts

LEMMA BreakCounts ==
    ASSUME TypeInv, TypeInv', Counts, NEW c \in Client, BreakOff(c)
    PROVE  Counts'
<1>1. /\ pc[c] # "idle" /\ End(c) /\ UNCHANGED <<created, cache>>
      /\ spent'.put = spent.put /\ spent'.delete = spent.delete
      /\ \/ UNCHANGED indexes
         \/ pc[c] = "save" /\ indexes' = [indexes EXCEPT ![work[c].id] = work[c]]
  BY SpendIs, BoundsAreNaturals DEF BreakOff, TypeInv, Types
<1>2. /\ pc'[c] = "idle" /\ work'[c].version = -1
      /\ \A d \in Client \ {c} : pc'[d] = pc[d] /\ call'[d] = call[d] /\ work'[d] = work[d]
  BY <1>1, EndTypes, EmptyIndexes
<1>3. CASE pc[c] \in {"load", "write"}
  BY <1>1, <1>2, <1>3, LessCounts
<1>4. CASE pc[c] \notin {"load", "write"}
  <2>1. \A j \in IndexId : indexes'[j] = indexes[j] \/ indexes'[j] = work[c]
    BY <1>1 DEF TypeInv, Types
  <2>2. /\ \A j \in IndexId : Low(indexes'[j].version)
        /\ \A d \in Client : Low(cache'[d].version)
        /\ \A d \in Client : Low(work'[d].version)
    BY <1>1, <1>2, <2>1, CountsAreLow
  <2>3. \A d \in Client : pc'[d] \in {"load", "write"} <=> pc[d] \in {"load", "write"}
    BY <1>2, <1>4
  <2>4. \A d \in Client : pc[d] \in {"load", "write"} => call'[d] = call[d]
    BY <1>2, <1>4
  <2> QED
    BY <1>1, <2>2, <2>3, <2>4, SameCounts
<1> QED
  BY <1>3, <1>4

LEMMA ReadCounts ==
    ASSUME TypeInv, TypeInv', Counts, NEW c \in Client,
           LoadCache(c) \/ List(c) \/ Get(c) \/ NewInstance(c)
    PROVE  Counts'
<1>1. UNCHANGED <<created, indexes, pc, call, work>>
  BY DEF LoadCache, List, Get, NewInstance, driveVars
<1>2. spent'.put = spent.put /\ spent'.delete = spent.delete
  <2>1. UNCHANGED spent \/ Spend("list", MaxLists)
    BY DEF LoadCache, List, Get, NewInstance
  <2> QED
    BY <2>1, SpendIs, BoundsAreNaturals DEF TypeInv, Types
<1>3. \A d \in Client : Low(cache'[d].version)
  <2>1. CASE LoadCache(c)
    <3>1. PICK index \in Lookup : cache' = [cache EXCEPT ![c] = index]
      BY <2>1 DEF LoadCache
    <3>2. \A d \in Client : cache'[d] = cache[d] \/ cache'[d] = index
      BY <3>1 DEF TypeInv, Types
    <3> QED
      BY <3>2, CountsAreLow
  <2>2. CASE NewInstance(c)
    <3>1. \A d \in Client : cache'[d] = cache[d] \/ cache'[d] = NoIndex
      BY <2>2 DEF NewInstance, TypeInv, Types
    <3> QED
      BY <3>1, CountsAreLow, EmptyIndexes
  <2>3. CASE List(c) \/ Get(c)
    BY <2>3, CountsAreLow DEF List, Get
  <2> QED
    BY <2>1, <2>2, <2>3
<1> QED
  BY <1>1, <1>2, <1>3, CountsAreLow, SameCounts

-----------------------------------------------------------------------------
(* The types, from the invariant that counts calls.                          *)

LEMMA StepTypesAndCounts ==
    ASSUME TypeInv, Counts, [Next]_vars
    PROVE  TypeInv' /\ Counts'
<1>1. CASE UNCHANGED vars
  <2>1. UNCHANGED <<drive, created, indexes, cache, pc, call, work, tags, saw, spent, acked, mixed, torn>>
    BY <1>1 DEF vars, driveVars, readVars, pastVars
  <2>2. TypeInv'
    BY <2>1 DEF TypeInv, Types, CallFits, Sound, NoIndex, NewIndex
  <2>3. Counts'
    BY <2>1 DEF Counts, UnderWay, PutsUnderWay
  <2> QED
    BY <2>2, <2>3
<1>2. CASE Next
  <2>1. PICK c \in Client :
           \/ StartPut(c) \/ StartDelete(c) \/ LoadIndex(c)
           \/ ReplaceContent(c) \/ CreateFile(c) \/ DeleteFile(c)
           \/ FindIndexFile(c) \/ SaveIndex(c) \/ BreakOff(c)
           \/ LoadCache(c) \/ List(c) \/ Get(c) \/ NewInstance(c)
    BY <1>2, Zenon DEF Next
  <2>2. TypeInv'
    BY <2>1, StartTypes, LoadIndexTypes, WriteTypes, FindTypes, SaveTypes, BreakTypes, ReadTypes
  <2>3. Counts'
    BY <2>1, <2>2, StartCounts, LoadIndexCounts, WriteCounts, FindCounts, SaveCounts, BreakCounts,
       ReadCounts
  <2> QED
    BY <2>2, <2>3
<1> QED
  BY <1>1, <1>2

LEMMA TypesAndCounts == Spec => [](TypeInv /\ Counts)
<1>1. Init => TypeInv /\ Counts
  BY InitTypes
<1>2. (TypeInv /\ Counts) /\ [Next]_vars => (TypeInv /\ Counts)'
  BY StepTypesAndCounts
<1> QED
  BY <1>1, <1>2, PTL DEF Spec

\* Whatever calls there are at once and wherever they break off, no more files
\* are made than puts are called, no version gets beyond the number of calls
\* that write, and a device between two calls has nothing of the last one left.
THEOREM DriveTypes == Spec => []TypeOK
<1>1. TypeInv /\ Counts => TypeOK
  <2> SUFFICES ASSUME TypeInv, Counts PROVE TypeOK
    OBVIOUS
  <2>1. created \in 0 .. MaxPuts
    BY CountsAreNumbers, BoundsAreNaturals DEF Counts, TypeInv, Types, Spent
  <2>2. ASSUME NEW index \in LooseIndex, Low(index.version) PROVE index \in Index
    <3>1. /\ Cardinality(UnderWay) \in Nat /\ spent.put \in 0 .. MaxPuts /\ spent.delete \in 0 .. MaxDeletes
          /\ index.version \in Nat \cup {-1}
      BY <2>2, CountsAreNumbers DEF TypeInv, Types, Spent, LooseIndex
    <3>2. index.version \in -1 .. MaxPuts + MaxDeletes
      BY <2>2, <3>1, BoundsAreNaturals DEF Low
    <3> QED
      BY <2>2, <3>2 DEF LooseIndex, Index
  <2>3. indexes \in [IndexId -> Index] /\ cache \in [Client -> Index]
    BY <2>2, CountsAreLow DEF TypeInv, Types
  <2>4. \A c \in Client : pc[c] = "idle" => call[c] = NoCall /\ work[c] = NoIndex
    BY DEF TypeInv, CallFits
  <2> QED
    BY <2>1, <2>3, <2>4 DEF TypeOK, TypeInv, Types
<1> QED
  BY <1>1, TypesAndCounts, PTL

-----------------------------------------------------------------------------
(* As long as no two calls that write are under way at once.                 *)

Busy(c) == pc[c] \notin {"idle", "load"}
Changing(c) == pc[c] \in {"find", "save"}

\* No call on n has broken off, none has changed its file and is not through.
Settled(n) == n \notin torn /\ \A c \in Client : Changing(c) => call[c].name # n

Bytes(files, n) == IF files[n] = None THEN None ELSE drive[files[n]]

\* No two names share a file, and the next file is nobody's yet.
Separate(files) ==
    /\ \A n, m \in Name : files[n] # None /\ files[n] = files[m] => n = m
    /\ \A n \in Name : files[n] <= created

Alone == \A c, d \in Client : Busy(c) /\ Busy(d) => c = d
OneIndex == \A i, j \in Found : i = j

IndexTrue == \A index \in Lookup :
    /\ Separate(index.files)
    /\ \A n \in Name : Settled(n) => Bytes(index.files, n) = acked[n]

\* What the busy call works on is what is there, but for its own object.
WorkTrue(c) == \A index \in Lookup :
    /\ Separate(work[c].files)
    /\ \A n \in Name \ {call[c].name} : work[c].files[n] = index.files[n]
    /\ Bytes(work[c].files, call[c].name) = call[c].bytes
    /\ \/ index.version < work[c].version
       \/ pc[c] = "save" /\ index.version = work[c].version /\ index.files = work[c].files

StepFits(c) ==
    /\ pc[c] = "write" => work[c] \in Lookup
    /\ pc[c] = "find" => Found = {}
    /\ pc[c] = "save" => work[c].id \in Found
    /\ Changing(c) => WorkTrue(c)

Apart == Alone /\ OneIndex /\ IndexTrue /\ \A c \in Client : StepFits(c)

ApartInv == ~mixed => Apart

LEMMA SomeLookup ==
    \E index \in Lookup : TRUE
BY LookupIs

LEMMA OneLookup ==
    ASSUME OneIndex, NEW a \in Lookup, NEW b \in Lookup
    PROVE  a = b
BY LookupIs DEF OneIndex

LEMMA SameLookup ==
    ASSUME UNCHANGED indexes
    PROVE  Lookup' = Lookup /\ Found' = Found
BY DEF Lookup, Found

\* The only index file is written.
LEMMA NewLookup ==
    ASSUME TypeInv, NEW i \in IndexId, NEW x \in LooseIndex, x.version >= 0,
           \A j \in Found : j = i, indexes' = [indexes EXCEPT ![i] = x]
    PROVE  /\ Found' = {i}
           /\ \A index \in Lookup' : index.version = x.version /\ index.files = x.files
<1>1. x # NoIndex
  BY EmptyIndexes
<1>2. \A j \in IndexId : indexes'[j] = IF j = i THEN x ELSE indexes[j]
  BY DEF TypeInv, Types
<1>3. Found' = {i}
  BY <1>1, <1>2 DEF Found, NoIndex, NewIndex
<1>4. ASSUME NEW index \in Lookup' PROVE index.version = x.version /\ index.files = x.files
  <2>1. index = [x EXCEPT !.id = i]
    BY <1>2, <1>3 DEF Lookup
  <2> QED
    BY <2>1 DEF LooseIndex
<1> QED
  BY <1>3, <1>4

\* A call comes, goes on, ends or breaks off, and Drive is as it was.
LEMMA SameDrive ==
    ASSUME Apart, NEW c \in Client,
           UNCHANGED <<drive, created, indexes, acked>>, torn \subseteq torn',
           \A d \in Client \ {c} : pc'[d] = pc[d] /\ call'[d] = call[d] /\ work'[d] = work[d],
           Changing(c) => call[c].name \in torn',
           \/ pc'[c] \in {"idle", "load"}
           \/ pc'[c] = "write" /\ work'[c] \in Lookup /\ \A d \in Client \ {c} : ~Busy(d)
    PROVE  Apart'
<1>1. Lookup' = Lookup /\ Found' = Found
  BY SameLookup
<1>2. Alone'
  BY DEF Apart, Alone, Busy
<1>3. OneIndex'
  BY <1>1 DEF Apart, OneIndex
<1>4. \A n \in Name : Settled(n)' => Settled(n)
  BY DEF Settled, Changing
<1>5. IndexTrue'
  <2>1. ASSUME NEW index \in Lookup PROVE Separate(index.files)'
    BY DEF Apart, IndexTrue, Separate
  <2>2. ASSUME NEW index \in Lookup, NEW n \in Name, Settled(n)'
        PROVE  Bytes(index.files, n)' = acked'[n]
    BY <1>4, <2>2 DEF Apart, IndexTrue, Bytes
  <2> QED
    BY <1>1, <2>1, <2>2 DEF IndexTrue
<1>6. ASSUME NEW d \in Client PROVE StepFits(d)'
  <2>1. CASE d = c
    BY <1>1, <2>1 DEF StepFits, Changing
  <2>2. CASE d # c
    <3>1. StepFits(d) /\ pc'[d] = pc[d] /\ call'[d] = call[d] /\ work'[d] = work[d]
      BY <2>2 DEF Apart
    <3>2. WorkTrue(d) => WorkTrue(d)'
      BY <1>1, <3>1 DEF WorkTrue, Separate, Bytes
    <3> QED
      BY <1>1, <3>1, <3>2 DEF StepFits, Changing
  <2> QED
    BY <2>1, <2>2
<1> QED
  BY <1>2, <1>3, <1>5, <1>6 DEF Apart

LEMMA CallIsTyped ==
    ASSUME TypeInv, NEW c \in Client, Busy(c)
    PROVE  /\ call[c] \in Call /\ call[c].name \in Name /\ call[c].op \in {"put", "delete"}
           /\ call[c].bytes \in Nat /\ call[c].want \in Int
           /\ call[c].op = "put" => call[c].bytes \in 1 .. MaxPuts
           /\ call[c].op = "delete" => call[c].bytes = None
           /\ work[c] \in LooseIndex /\ work[c].version \in Nat
           /\ work[c].files \in [Name -> FileId \cup {None}]
<1>1. Types /\ CallFits(c)
  BY DEF TypeInv
<1>2. call[c] \in Call /\ work[c] \in LooseIndex /\ work[c].version >= 0
  BY <1>1 DEF Types, CallFits, Busy
<1>3. call[c].op = "put" => call[c].bytes \in 1 .. MaxPuts
  BY <1>1, BoundsAreNaturals DEF Types, CallFits, Busy, Spent
<1> QED
  BY <1>1, <1>2, <1>3, BoundsAreNaturals DEF CallFits, Busy, Call, LooseIndex

\* Whoever starts writing has loaded the index there is and is alone.
LEMMA LoadIndexApart ==
    ASSUME TypeInv, Apart, ~mixed', NEW c \in Client, LoadIndex(c)
    PROVE  Apart'
<1>1. /\ pc[c] = "load" /\ UNCHANGED <<drive, created, indexes, acked, torn>>
      /\ \A d \in Client \ {c} : ~Busy(d)
  BY DEF LoadIndex, driveVars, Busy
<1>2. PICK index \in Lookup :
         \/ /\ pc' = [pc EXCEPT ![c] = "write"]
            /\ work' = [work EXCEPT ![c] = index]
            /\ UNCHANGED call
         \/ End(c)
  BY DEF LoadIndex, Base
<1>3. CASE End(c)
  BY <1>1, <1>3, EndTypes, SameDrive DEF Changing
<1>4. CASE /\ pc' = [pc EXCEPT ![c] = "write"]
           /\ work' = [work EXCEPT ![c] = index]
           /\ UNCHANGED call
  <2>1. /\ pc'[c] = "write" /\ work'[c] = index
        /\ \A d \in Client \ {c} : pc'[d] = pc[d] /\ work'[d] = work[d]
    BY <1>4 DEF TypeInv, Types
  <2> QED
    BY <1>1, <1>4, <2>1, SameDrive DEF Changing
<1> QED
  BY <1>2, <1>3, <1>4

\* A call that changes a file: f is the object's own file or a new one.
LEMMA ChangeApart ==
    ASSUME TypeInv, Apart, NEW c \in Client, pc[c] = "write",
           NEW f \in FileId \cup {None},
           work' = [work EXCEPT ![c] = Changed(@, call[c].name, f)],
           pc' = [pc EXCEPT ![c] = NextStep(c)],
           UNCHANGED <<call, tags, spent, indexes, acked, torn>>,
           created \in Nat, created' \in Nat, created <= created',
           f = None \/ (f = work[c].files[call[c].name] /\ f <= created)
                    \/ (f = created + 1 /\ created' = f),
           \A g \in FileId : drive'[g] # drive[g] => g = f \/ g = work[c].files[call[c].name],
           call[c].bytes = IF f = None THEN None ELSE drive'[f]
    PROVE  Apart'
<1>1. /\ call[c].name \in Name /\ call[c].bytes \in Nat
      /\ work[c] \in LooseIndex /\ work[c].version \in Nat
      /\ work[c].files \in [Name -> FileId \cup {None}]
  BY CallIsTyped DEF Busy
<1>2. PICK index \in Lookup, k \in Name, new \in [Name -> FileId \cup {None}] :
         /\ index = work[c] /\ k = call[c].name
         /\ new = [index.files EXCEPT ![k] = f]
  BY <1>1 DEF Apart, StepFits
<1>3. /\ \A d \in Client \ {c} : pc'[d] = pc[d] /\ work'[d] = work[d]
      /\ pc'[c] = NextStep(c) /\ pc'[c] \in {"find", "save"}
      /\ work'[c].id = index.id /\ work'[c].version = index.version + 1
      /\ work'[c].files = new
  BY <1>2, WorkChanged
<1>4. Lookup' = Lookup /\ Found' = Found
  BY SameLookup
<1>5. \A x \in Lookup : x = index
  BY OneLookup DEF Apart
<1>6. \A d \in Client \ {c} : ~Busy(d) /\ ~Changing(d) /\ ~(Busy(d)') /\ ~(Changing(d)')
  BY <1>3 DEF Apart, Alone, Busy, Changing
<1>7. Alone' /\ OneIndex'
  BY <1>4, <1>6 DEF Apart, Alone, OneIndex
<1>8. Separate(index.files) /\ \A n \in Name : index.files[n] <= created
  BY DEF Apart, IndexTrue, Separate
<1>9. \A n \in Name : Settled(n)' => n # k /\ Settled(n)
  BY <1>2, <1>3, <1>6 DEF Settled, Changing
<1>10. index.files \in [Name -> FileId \cup {None}] /\ index.version \in Nat
  BY <1>1, <1>2
<1>11. ASSUME NEW n \in Name, n # k, index.files[n] # None
       PROVE  /\ index.files[n] # f /\ index.files[n] # index.files[k]
              /\ drive'[index.files[n]] = drive[index.files[n]]
  <2>1. /\ index.files[n] \in FileId /\ index.files[n] # index.files[k]
        /\ index.files[n] <= created /\ index.files[n] \in Nat
    BY <1>8, <1>10, <1>11, BoundsAreNaturals DEF Separate, FileId
  <2>2. index.files[n] # f
    BY <1>2, <1>11, <2>1
  <2> QED
    BY <1>2, <2>1, <2>2
<1>12. \A n \in Name : index.files[n] \in Nat /\ new[n] \in Nat
  BY <1>2, <1>10, BoundsAreNaturals DEF FileId, None
<1>13. Separate(index.files)'
  BY <1>8, <1>12 DEF Separate
<1>14. Separate(new)'
  <2>1. \A n \in Name : new[n] = IF n = k THEN f ELSE index.files[n]
    BY <1>2, <1>10
  <2>2. \A n, m \in Name : new[n] # None /\ new[n] = new[m] => n = m
    BY <1>8, <1>11, <2>1 DEF Separate
  <2>3. f <= created'
    BY <1>2, <1>12, <2>1 DEF None
  <2>4. \A n \in Name : new[n] <= created'
    BY <1>8, <1>12, <2>1, <2>3
  <2> QED
    BY <2>2, <2>4 DEF Separate
<1>15. IndexTrue'
  <2>1. ASSUME NEW n \in Name, Settled(n)' PROVE Bytes(index.files, n)' = acked'[n]
    <3>1. n # k /\ Bytes(index.files, n) = acked[n]
      BY <1>9, <2>1 DEF Apart, IndexTrue
    <3> QED
      BY <1>11, <3>1 DEF Bytes
  <2> QED
    BY <1>4, <1>5, <1>13, <2>1 DEF IndexTrue
<1>16. WorkTrue(c)'
  <2>1. Bytes(new, k)' = call'[c].bytes
    BY <1>2, <1>10 DEF Bytes, None
  <2>2. index.version < work'[c].version
    BY <1>3, <1>10
  <2>3. \A n \in Name \ {k} : new[n] = index.files[n]
    BY <1>2, <1>10
  <2>4. Bytes(work[c].files, call[c].name)' = Bytes(new, k)'
    BY <1>2, <1>3 DEF Bytes
  <2>5. Separate(work[c].files)'
    BY <1>3, <1>14 DEF Separate
  <2>6. ASSUME NEW x \in Lookup'
        PROVE  /\ \A n \in Name \ {call'[c].name} : work'[c].files[n] = x.files[n]
               /\ x.version < work'[c].version
    BY <1>2, <1>3, <1>4, <1>5, <2>2, <2>3
  <2> QED
    BY <2>1, <2>4, <2>5, <2>6 DEF WorkTrue
<1>17. StepFits(c)'
  <2>1. index.id = None => Found = {}
    BY FoundIndex
  <2>2. index.id # None => index.id \in Found
    BY FoundIndex
  <2> QED
    BY <1>2, <1>3, <1>4, <1>16, <2>1, <2>2 DEF StepFits, NextStep
<1>18. \A d \in Client \ {c} : StepFits(d)'
  BY <1>6 DEF StepFits, Changing, Busy
<1> QED
  BY <1>7, <1>15, <1>17, <1>18 DEF Apart

LEMMA WriteApart ==
    ASSUME TypeInv, Counts, Apart, NEW c \in Client,
           ReplaceContent(c) \/ CreateFile(c) \/ DeleteFile(c)
    PROVE  Apart'
<1> DEFINE old == work[c].files[call[c].name]
<1>1. /\ pc[c] = "write" /\ UNCHANGED <<indexes, cache, tags, spent, acked, torn>>
      /\ created \in Nat /\ drive \in [FileId -> 0 .. MaxPuts]
  BY DEF ReplaceContent, CreateFile, DeleteFile, readVars, pastVars, TypeInv, Types
<1>2. /\ call[c].name \in Name /\ work[c].files \in [Name -> FileId \cup {None}]
      /\ call[c].op = "delete" => call[c].bytes = None
      /\ old \in FileId \cup {None} /\ old \in Nat
  <2>1. /\ call[c].name \in Name /\ work[c].files \in [Name -> FileId \cup {None}]
        /\ call[c].op = "delete" => call[c].bytes = None
    BY <1>1, CallIsTyped DEF Busy
  <2>2. old \in FileId \cup {None}
    BY <2>1
  <2> HIDE DEF old
  <2>3. old \in Nat
    BY <2>2, BoundsAreNaturals DEF FileId, None
  <2> QED
    BY <2>1, <2>2, <2>3
<1>3. old <= created
  BY <1>1, <1>2 DEF Apart, StepFits, IndexTrue, Separate
<1>4. CASE ReplaceContent(c)
  <2>1. old # None /\ UNCHANGED created
    BY <1>4 DEF ReplaceContent
  <2>2. CASE drive[old] # None
    <3>1. /\ drive' = [drive EXCEPT ![old] = call[c].bytes] /\ UNCHANGED call
          /\ work' = [work EXCEPT ![c] = Changed(@, call[c].name, old)]
          /\ pc' = [pc EXCEPT ![c] = NextStep(c)]
      BY <1>4, <2>2 DEF ReplaceContent
    <3>2. drive'[old] = call[c].bytes /\ \A g \in FileId : drive'[g] # drive[g] => g = old
      BY <1>1, <1>2, <2>1, <3>1
    <3>3. PICK f \in FileId \cup {None} : f = old
      BY <1>2
    <3>4. /\ work' = [work EXCEPT ![c] = Changed(@, call[c].name, f)]
          /\ f = work[c].files[call[c].name] /\ f <= created
          /\ \A g \in FileId : drive'[g] # drive[g] => g = f \/ g = work[c].files[call[c].name]
          /\ created' \in Nat /\ created <= created'
          /\ pc' = [pc EXCEPT ![c] = NextStep(c)] /\ UNCHANGED call
          /\ call[c].bytes = IF f = None THEN None ELSE drive'[f]
      BY <1>1, <1>3, <2>1, <3>1, <3>2, <3>3
    <3> HIDE DEF old
    <3> QED
      BY <1>1, <3>4, ChangeApart
  <2>3. CASE drive[old] = None
    <3>1. End(c) /\ UNCHANGED drive
      BY <1>4, <2>3 DEF ReplaceContent
    <3>2. /\ pc'[c] = "idle" /\ ~Changing(c)
          /\ \A d \in Client \ {c} : pc'[d] = pc[d] /\ call'[d] = call[d] /\ work'[d] = work[d]
      BY <1>1, <3>1, EndTypes DEF Changing
    <3> QED
      BY <1>1, <2>1, <3>1, <3>2, SameDrive
  <2> QED
    BY <2>2, <2>3
<1>5. CASE CreateFile(c)
  <2>1. /\ old = None /\ created' = created + 1 /\ UNCHANGED call
        /\ drive' = [drive EXCEPT ![created'] = call[c].bytes]
        /\ work' = [work EXCEPT ![c] = Changed(@, call[c].name, created')]
        /\ pc' = [pc EXCEPT ![c] = NextStep(c)]
        /\ created + 1 \in FileId
    BY <1>1, <1>5, RoomForFile DEF CreateFile
  <2>2. PICK g \in FileId : g = created + 1
    BY <2>1
  <2>3. /\ drive'[g] = call[c].bytes /\ \A h \in FileId : drive'[h] # drive[h] => h = g
        /\ created' = g /\ g # None /\ created' \in Nat /\ created <= created'
    BY <1>1, <2>1, <2>2 DEF None
  <2>4. work' = [work EXCEPT ![c] = Changed(@, call[c].name, g)]
    BY <2>1, <2>3
  <2> HIDE DEF old
  <2> QED
    BY <1>1, <2>1, <2>2, <2>3, <2>4, ChangeApart
<1>6. CASE DeleteFile(c)
  <2>1. /\ drive' = [drive EXCEPT ![old] = None] /\ UNCHANGED <<call, created>>
        /\ work' = [work EXCEPT ![c] = Changed(@, call[c].name, None)]
        /\ pc' = [pc EXCEPT ![c] = NextStep(c)]
        /\ call[c].bytes = None
    BY <1>2, <1>6 DEF DeleteFile
  <2>2. \A g \in FileId : drive'[g] # drive[g] => g = old
    BY <1>1, <2>1
  <2>3. PICK f \in FileId \cup {None} : f = None
    OBVIOUS
  <2>4. /\ work' = [work EXCEPT ![c] = Changed(@, call[c].name, f)]
        /\ \A g \in FileId : drive'[g] # drive[g] => g = work[c].files[call[c].name]
        /\ call[c].bytes = IF f = None THEN None ELSE drive'[f]
        /\ created' \in Nat /\ created <= created'
    BY <1>1, <2>1, <2>2, <2>3
  <2> QED
    BY <1>1, <2>1, <2>3, <2>4, ChangeApart
<1> QED
  BY <1>4, <1>5, <1>6

\* Alone, no other has made the index file in between: the call makes it.
LEMMA FindApart ==
    ASSUME TypeInv, Apart, NEW c \in Client, FindIndexFile(c)
    PROVE  Apart'
<1>1. /\ pc[c] = "find" /\ pc' = [pc EXCEPT ![c] = "save"]
      /\ UNCHANGED <<drive, created, cache, call, tags, saw, acked, mixed, torn>>
      /\ work[c] \in LooseIndex /\ work[c].version \in Nat
  BY FindIs
<1>2. Found = {} /\ WorkTrue(c)
  BY <1>1 DEF Apart, StepFits, Changing
<1>3. PICK i \in IndexId :
         /\ work' = [work EXCEPT ![c] = [work[c] EXCEPT !.id = i]]
         /\ indexes' = [indexes EXCEPT ![i] = work[c]]
  BY <1>2, FindIs
<1>4. PICK x \in LooseIndex, k \in Name : x = work[c] /\ k = call[c].name
  BY <1>1, CallIsTyped DEF Busy
<1>5. Found' = {i} /\ \A index \in Lookup' : index.version = x.version /\ index.files = x.files
  <2>1. x.version >= 0 /\ (\A j \in Found : j = i) /\ indexes' = [indexes EXCEPT ![i] = x]
    BY <1>1, <1>2, <1>3, <1>4
  <2> QED
    BY <2>1, NewLookup
<1>6. /\ work'[c].id = i /\ work'[c].version = x.version /\ work'[c].files = x.files
      /\ \A d \in Client \ {c} : work'[d] = work[d] /\ pc'[d] = pc[d]
      /\ pc'[c] = "save"
  BY <1>1, <1>3, <1>4 DEF TypeInv, Types, LooseIndex
<1>7. \A d \in Client \ {c} : ~Busy(d) /\ ~Changing(d) /\ ~(Busy(d)') /\ ~(Changing(d)')
  BY <1>1, <1>6 DEF Apart, Alone, Busy, Changing
<1>8. Alone' /\ OneIndex'
  BY <1>5, <1>7 DEF Alone, OneIndex
<1>9. \A n \in Name : Settled(n)' => n # k /\ Settled(n)
  BY <1>1, <1>4, <1>6, <1>7 DEF Settled, Changing
<1>10. PICK old \in Lookup :
          /\ Separate(x.files) /\ Bytes(x.files, k) = call[c].bytes
          /\ \A n \in Name \ {k} : x.files[n] = old.files[n]
  BY <1>2, <1>4, SomeLookup DEF WorkTrue
<1>11. Separate(x.files)' /\ Bytes(x.files, k)' = call'[c].bytes
  BY <1>1, <1>10 DEF Separate, Bytes
<1>12. ASSUME NEW n \in Name, Settled(n)' PROVE Bytes(x.files, n)' = acked'[n]
  <2>1. n # k /\ Bytes(old.files, n) = acked[n]
    BY <1>9, <1>12 DEF Apart, IndexTrue
  <2>2. x.files[n] = old.files[n]
    BY <1>10, <2>1
  <2> QED
    BY <1>1, <2>1, <2>2 DEF Bytes
<1>13. IndexTrue'
  BY <1>5, <1>11, <1>12 DEF IndexTrue, Separate, Bytes
<1>14. WorkTrue(c)'
  <2>1. Separate(work[c].files)' /\ Bytes(work[c].files, call[c].name)' = call'[c].bytes
    BY <1>1, <1>4, <1>6, <1>11 DEF Separate, Bytes
  <2> QED
    BY <1>5, <1>6, <2>1 DEF WorkTrue
<1>15. StepFits(c)'
  BY <1>5, <1>6, <1>14 DEF StepFits
<1>16. \A d \in Client \ {c} : StepFits(d)'
  BY <1>7 DEF StepFits, Changing, Busy
<1> QED
  BY <1>8, <1>13, <1>15, <1>16 DEF Apart

\* The index is saved, and the call acknowledged or broken off.
LEMMA SavedApart ==
    ASSUME TypeInv, Apart, NEW c \in Client, pc[c] = "save", End(c),
           UNCHANGED <<drive, created>>,
           indexes' = [indexes EXCEPT ![work[c].id] = work[c]],
           torn \subseteq torn',
           \/ acked' = [acked EXCEPT ![call[c].name] = call[c].bytes]
           \/ UNCHANGED acked /\ call[c].name \in torn'
    PROVE  Apart'
<1>1. /\ call[c].name \in Name /\ work[c] \in LooseIndex /\ work[c].version \in Nat
      /\ acked \in [Name -> 0 .. MaxPuts]
  BY CallIsTyped DEF Busy, TypeInv, Types
<1>2. work[c].id \in Found /\ WorkTrue(c) /\ \A j \in Found : j = work[c].id
  BY DEF Apart, StepFits, Changing, OneIndex
<1>3. PICK x \in LooseIndex, k \in Name, i \in IndexId : x = work[c] /\ k = call[c].name /\ i = x.id
  BY <1>1, <1>2 DEF Found
<1>4. Found' = {i} /\ \A index \in Lookup' : index.version = x.version /\ index.files = x.files
  <2>1. x.version >= 0 /\ (\A j \in Found : j = i) /\ indexes' = [indexes EXCEPT ![i] = x]
    BY <1>1, <1>2, <1>3
  <2> QED
    BY <2>1, NewLookup
<1>5. pc'[c] = "idle" /\ \A d \in Client \ {c} : pc'[d] = pc[d]
  BY EndTypes
<1>6. \A d \in Client : ~(Busy(d)') /\ ~(Changing(d)')
  BY <1>5 DEF Apart, Alone, Busy, Changing
<1>7. \A d \in Client \ {c} : ~Changing(d)
  BY DEF Apart, Alone, Busy, Changing
<1>8. PICK old \in Lookup :
          /\ Separate(x.files) /\ Bytes(x.files, k) = call[c].bytes
          /\ \A n \in Name \ {k} : x.files[n] = old.files[n]
  BY <1>2, <1>3, SomeLookup DEF WorkTrue
<1>9. Separate(x.files)' /\ Bytes(x.files, k)' = call[c].bytes
  BY <1>8 DEF Separate, Bytes
<1>10. ASSUME NEW n \in Name, Settled(n)' PROVE Bytes(x.files, n)' = acked'[n]
  <2>1. n \notin torn' /\ n \notin torn
    BY <1>10 DEF Settled
  <2>2. CASE n = k
    BY <1>1, <1>3, <1>9, <2>1, <2>2
  <2>3. CASE n # k
    <3>1. Settled(n)
      BY <1>3, <1>7, <2>1, <2>3 DEF Settled, Changing
    <3>2. Bytes(x.files, n) = acked[n]
      BY <1>8, <2>3, <3>1 DEF Apart, IndexTrue, Bytes
    <3>3. acked'[n] = acked[n]
      BY <1>1, <1>3, <2>3
    <3> QED
      BY <3>2, <3>3 DEF Bytes
  <2> QED
    BY <2>2, <2>3
<1>11. IndexTrue'
  BY <1>4, <1>9, <1>10 DEF IndexTrue, Separate, Bytes
<1>12. Alone' /\ OneIndex' /\ \A d \in Client : StepFits(d)'
  BY <1>4, <1>6 DEF Alone, OneIndex, StepFits, Changing, Busy
<1> QED
  BY <1>11, <1>12 DEF Apart

LEMMA EndApart ==
    ASSUME TypeInv, Apart, NEW c \in Client, SaveIndex(c) \/ BreakOff(c)
    PROVE  Apart'
<1>1. CASE SaveIndex(c)
  BY <1>1, SavedApart DEF SaveIndex
<1>2. CASE BreakOff(c)
  <2>1. /\ pc[c] # "idle" /\ End(c) /\ UNCHANGED <<drive, created, acked>>
        /\ torn' = IF pc[c] = "load" THEN torn ELSE torn \cup {call[c].name}
        /\ \/ UNCHANGED indexes
           \/ pc[c] = "save" /\ indexes' = [indexes EXCEPT ![work[c].id] = work[c]]
    BY <1>2 DEF BreakOff
  <2>2. CASE UNCHANGED indexes
    <3>1. /\ pc'[c] = "idle"
          /\ \A d \in Client \ {c} : pc'[d] = pc[d] /\ call'[d] = call[d] /\ work'[d] = work[d]
      BY <2>1, EndTypes
    <3>2. torn \subseteq torn' /\ (Changing(c) => call[c].name \in torn')
      BY <2>1 DEF Changing
    <3> QED
      BY <2>1, <2>2, <3>1, <3>2, SameDrive
  <2>3. CASE pc[c] = "save" /\ indexes' = [indexes EXCEPT ![work[c].id] = work[c]]
    BY <2>1, <2>3, SavedApart
  <2> QED
    BY <2>1, <2>2, <2>3
<1> QED
  BY <1>1, <1>2

LEMMA IdleApart ==
    ASSUME TypeInv, Apart, NEW c \in Client,
           \/ StartPut(c) \/ StartDelete(c)
           \/ LoadCache(c) \/ List(c) \/ Get(c) \/ NewInstance(c)
    PROVE  Apart'
<1>1. CASE StartPut(c) \/ StartDelete(c)
  <2>1. PICK k : Start(c, k)
    BY <1>1, Zenon DEF StartPut, StartDelete
  <2>2. /\ pc[c] = "idle" /\ pc'[c] = "load"
        /\ \A d \in Client \ {c} : pc'[d] = pc[d] /\ call'[d] = call[d] /\ work'[d] = work[d]
        /\ UNCHANGED <<drive, created, indexes, acked, torn>>
    BY <2>1 DEF Start, driveVars, pastVars, TypeInv, Types
  <2> QED
    BY <2>2, SameDrive DEF Changing
<1>2. CASE LoadCache(c) \/ List(c) \/ Get(c) \/ NewInstance(c)
  <2>1. pc[c] = "idle" /\ UNCHANGED <<drive, created, indexes, acked, torn, pc, call, work>>
    BY <1>2 DEF LoadCache, List, Get, NewInstance, driveVars, pastVars
  <2> QED
    BY <2>1, SameDrive DEF Changing
<1> QED
  BY <1>1, <1>2

LEMMA MixedStays ==
    ASSUME [Next]_vars, TypeInv, ~mixed'
    PROVE  ~mixed
<1>1. CASE UNCHANGED vars
  BY <1>1 DEF vars, pastVars
<1>2. ASSUME NEW c \in Client, LoadIndex(c) PROVE ~mixed
  BY <1>2 DEF LoadIndex
<1>3. ASSUME NEW c \in Client, StartPut(c) \/ StartDelete(c) PROVE ~mixed
  <2>1. PICK k : Start(c, k)
    BY <1>3, Zenon DEF StartPut, StartDelete
  <2> QED
    BY <2>1 DEF Start, pastVars
<1>4. ASSUME NEW c \in Client,
             \/ ReplaceContent(c) \/ CreateFile(c) \/ DeleteFile(c) \/ FindIndexFile(c)
             \/ SaveIndex(c) \/ BreakOff(c) \/ LoadCache(c) \/ List(c) \/ Get(c) \/ NewInstance(c)
      PROVE  ~mixed
  BY <1>4 DEF ReplaceContent, CreateFile, DeleteFile, FindIndexFile, SaveIndex, BreakOff,
              LoadCache, List, Get, NewInstance, pastVars
<1> QED
  BY <1>1, <1>2, <1>3, <1>4 DEF Next

LEMMA StepApart ==
    ASSUME TypeInv, Counts, ApartInv, [Next]_vars
    PROVE  ApartInv'
<1> SUFFICES ASSUME ~mixed' PROVE Apart'
  BY DEF ApartInv
<1>1. Apart
  BY MixedStays DEF ApartInv
<1>2. CASE UNCHANGED vars
  <2>1. UNCHANGED <<drive, created, indexes, pc, call, work, acked, torn>>
    BY <1>2 DEF vars, driveVars, pastVars
  <2>2. Alone' /\ OneIndex' /\ IndexTrue'
    BY <1>1, <2>1 DEF Apart, Alone, Busy, OneIndex, Found, IndexTrue, Lookup, Separate, Bytes,
                      Settled, Changing
  <2>3. \A c \in Client : StepFits(c)'
    BY <1>1, <2>1 DEF Apart, StepFits, WorkTrue, Found, Lookup, Separate, Bytes, Changing
  <2> QED
    BY <2>2, <2>3 DEF Apart
<1>3. CASE Next
  <2>1. PICK c \in Client :
           \/ StartPut(c) \/ StartDelete(c) \/ LoadIndex(c)
           \/ ReplaceContent(c) \/ CreateFile(c) \/ DeleteFile(c)
           \/ FindIndexFile(c) \/ SaveIndex(c) \/ BreakOff(c)
           \/ LoadCache(c) \/ List(c) \/ Get(c) \/ NewInstance(c)
    BY <1>3, Zenon DEF Next
  <2> QED
    BY <1>1, <2>1, LoadIndexApart, WriteApart, FindApart, EndApart, IdleApart
<1> QED
  BY <1>2, <1>3

LEMMA InitApart ==
    ASSUME Init
    PROVE  ApartInv
<1>1. /\ \A c \in Client : pc[c] = "idle"
      /\ \A i \in IndexId : indexes[i] = NoIndex
      /\ \A n \in Name : acked[n] = None
      /\ created = 0
  BY DEF Init
<1>2. Found = {} /\ Lookup = {NewIndex}
  BY <1>1 DEF Found, Lookup
<1>3. Alone /\ OneIndex /\ \A c \in Client : StepFits(c)
  BY <1>1, <1>2 DEF Alone, Busy, OneIndex, StepFits, Changing
<1>4. IndexTrue
  BY <1>1, <1>2, EmptyIndexes DEF IndexTrue, Separate, Bytes, None
<1> QED
  BY <1>3, <1>4 DEF ApartInv, Apart

LEMMA StaysApart == Spec => []ApartInv
<1>1. Init => ApartInv
  BY InitApart
<1>2. (TypeInv /\ Counts) /\ ApartInv /\ [Next]_vars => ApartInv'
  BY StepApart
<1> QED
  BY <1>1, <1>2, TypesAndCounts, PTL DEF Spec

\* As long as the calls that write come one after the other, from any number
\* of devices and with anything in their caches, the index leads to every
\* object as it was last acknowledged; and a call that breaks off half-way,
\* with a file written and the index not, has touched no object but its own.
THEOREM ApartTheIndexIsTrue == Spec => []KeepsIfApart
<1>1. TypeInv /\ ApartInv => KeepsIfApart
  <2> SUFFICES ASSUME TypeInv, Apart, Quiet, ~mixed, NEW n \in Name \ torn
               PROVE  Held(n) = {acked[n]}
    BY DEF ApartInv, KeepsIfApart
  <2>1. Settled(n)
    BY DEF Quiet, Settled, Changing
  <2>2. \A index \in Lookup : Bytes(index.files, n) = acked[n]
    BY <2>1 DEF Apart, IndexTrue
  <2>3. Held(n) = {Bytes(index.files, n) : index \in Lookup}
    BY DEF Held, Bytes
  <2> QED
    BY <2>2, <2>3, SomeLookup
<1> QED
  BY <1>1, TypesAndCounts, StaysApart, PTL

-----------------------------------------------------------------------------
(* What was listed and read, as long as calls that write do not overlap.     *)

\* Nobody has a version that is not there yet, in a cache or as an ETag, and
\* who has cached the version there is has cached the index there is.
CachesBehind ==
    \A c \in Client, index \in Lookup :
       /\ cache[c].version <= index.version
       /\ cache[c].version = index.version => cache[c].files = index.files
       /\ \A n \in Name : tags[c][n] <= cache[c].version

\* Who listed n with the version there is and then read it has read it as it is.
SawTrue ==
    \A c \in Client, n \in Name, index \in Lookup :
       saw[c][n] # Unread /\ tags[c][n] = index.version /\ Settled(n) => saw[c][n] = acked[n]

\* The same of the version that a call is about to save.
SawNext ==
    \A c, d \in Client :
       /\ Changing(c)
       /\ saw[d][call[c].name] # Unread /\ tags[d][call[c].name] = work[c].version
       => saw[d][call[c].name] = call[c].bytes

Reads == CachesBehind /\ SawTrue /\ SawNext

ReadsInv == ~mixed => Reads

\* Versions are numbers, and the one in the folder is at least 0.
LEMMA VersionsAreNumbers ==
    ASSUME TypeInv
    PROVE  /\ \A index \in Lookup : index.version \in Nat /\ index \in LooseIndex
           /\ \A c \in Client : /\ cache[c].version \in Int /\ cache[c].version >= -1
                                /\ work[c].version \in Int /\ cache[c] \in LooseIndex
                                /\ \A n \in Name : tags[c][n] \in Int
<1>1. \A index \in LooseIndex : index.version \in Int /\ index.version >= -1
  BY DEF LooseIndex
<1>2. \A c \in Client : cache[c] \in LooseIndex /\ work[c] \in LooseIndex /\ \A n \in Name : tags[c][n] \in Int
  BY DEF TypeInv, Types
<1>3. \A index \in Lookup : index \in LooseIndex /\ index.version >= 0
  BY FoundIndex
<1> QED
  BY <1>1, <1>2, <1>3

\* Who changes nothing that is listed or read, and is not about to save.
LEMMA SameReads ==
    ASSUME Reads, NEW c \in Client,
           UNCHANGED <<indexes, cache, tags, saw, acked>>, torn \subseteq torn',
           \A d \in Client \ {c} : pc'[d] = pc[d] /\ call'[d] = call[d] /\ work'[d] = work[d],
           Changing(c) => call[c].name \in torn',
           pc'[c] \notin {"find", "save"}
    PROVE  Reads'
<1>1. Lookup' = Lookup
  BY SameLookup
<1>2. \A n \in Name : Settled(n)' => Settled(n)
  BY DEF Settled, Changing
<1>3. CachesBehind'
  BY <1>1 DEF Reads, CachesBehind
<1>4. SawTrue'
  BY <1>1, <1>2 DEF Reads, SawTrue
<1>5. SawNext'
  BY DEF Reads, SawNext, Changing
<1> QED
  BY <1>3, <1>4, <1>5 DEF Reads

LEMMA LoadIndexReads ==
    ASSUME TypeInv, Reads, NEW c \in Client, LoadIndex(c)
    PROVE  Reads'
<1>1. pc[c] = "load" /\ UNCHANGED <<indexes, cache, tags, saw, acked, torn>>
  BY DEF LoadIndex, driveVars, readVars
<1>2. /\ pc'[c] \in {"idle", "write"}
      /\ \A d \in Client \ {c} : pc'[d] = pc[d] /\ call'[d] = call[d] /\ work'[d] = work[d]
  <2>1. PICK index \in Lookup :
           \/ /\ pc' = [pc EXCEPT ![c] = "write"]
              /\ work' = [work EXCEPT ![c] = index]
              /\ UNCHANGED call
           \/ End(c)
    BY DEF LoadIndex, Base
  <2> QED
    BY <2>1, EndTypes DEF TypeInv, Types
<1> QED
  BY <1>1, <1>2, SameReads DEF Changing

LEMMA WriteReads ==
    ASSUME TypeInv, Counts, Apart, Reads, NEW c \in Client,
           ReplaceContent(c) \/ CreateFile(c) \/ DeleteFile(c)
    PROVE  Reads'
<1> DEFINE old == work[c].files[call[c].name]
<1>1. pc[c] = "write" /\ UNCHANGED <<indexes, cache, tags, saw, spent, acked, torn>>
  BY DEF ReplaceContent, CreateFile, DeleteFile, readVars, pastVars
<1>2. CASE End(c)
  <2>1. /\ pc'[c] = "idle"
        /\ \A d \in Client \ {c} : pc'[d] = pc[d] /\ call'[d] = call[d] /\ work'[d] = work[d]
    BY <1>2, EndTypes
  <2> QED
    BY <1>1, <2>1, SameReads DEF Changing
<1>3. ASSUME NEW f \in FileId \cup {None}, UNCHANGED call,
             work' = [work EXCEPT ![c] = Changed(@, call[c].name, f)],
             pc' = [pc EXCEPT ![c] = NextStep(c)]
      PROVE  Reads'
  <2>1. /\ \A d \in Client \ {c} : pc'[d] = pc[d] /\ work'[d] = work[d]
        /\ work'[c].version = work[c].version + 1
    BY <1>1, <1>3, WorkChanged
  <2>2. Lookup' = Lookup
    BY <1>1, SameLookup
  <2>3. \A n \in Name : Settled(n)' => Settled(n)
    <3>1. pc'[c] \in {"find", "save"}
      BY <1>1, <1>3, WorkChanged
    <3> QED
      BY <1>1, <1>3, <2>1, <3>1 DEF Settled, Changing
  <2>4. CachesBehind'
    BY <1>1, <2>2 DEF Reads, CachesBehind
  <2>5. SawTrue'
    BY <1>1, <2>2, <2>3 DEF Reads, SawTrue
  <2>6. ASSUME NEW d \in Client, NEW n \in Name PROVE tags[d][n] < work'[c].version
    <3>1. work[c] \in Lookup
      BY <1>1 DEF Apart, StepFits
    <3>2. tags[d][n] <= cache[d].version /\ cache[d].version <= work[c].version
      BY <3>1 DEF Reads, CachesBehind
    <3> QED
      BY <2>1, <3>1, <3>2, VersionsAreNumbers
  <2>7. call[c].name \in Name
    BY <1>1, CallIsTyped DEF Busy
  <2>8. ASSUME NEW d \in Client, NEW e \in Client, Changing(d)',
               saw'[e][call'[d].name] # Unread, tags'[e][call'[d].name] = work'[d].version
        PROVE  saw'[e][call'[d].name] = call'[d].bytes
    <3>1. CASE d = c
      <4>1. tags[e][call[c].name] < work'[c].version
        BY <2>6, <2>7
      <4>2. tags[e][call[c].name] = work'[c].version
        BY <1>1, <1>3, <2>8, <3>1
      <4>3. tags[e][call[c].name] \in Int
        BY <2>7, VersionsAreNumbers
      <4> QED
        BY <4>1, <4>2, <4>3
    <3>2. CASE d # c
      BY <1>1, <1>3, <2>1, <2>8, <3>2 DEF Reads, SawNext, Changing
    <3> QED
      BY <3>1, <3>2
  <2> QED
    BY <2>4, <2>5, <2>8 DEF Reads, SawNext
<1>4. CASE ReplaceContent(c)
  <2>1. old \in FileId \cup {None}
    BY <1>1, CallIsTyped DEF Busy
  <2> QED
    BY <1>2, <1>3, <1>4, <2>1 DEF ReplaceContent
<1>5. CASE CreateFile(c)
  <2>1. created' \in FileId
    BY <1>1, <1>5, RoomForFile DEF CreateFile
  <2> QED
    BY <1>3, <1>5, <2>1 DEF CreateFile
<1>6. CASE DeleteFile(c)
  BY <1>3, <1>6 DEF DeleteFile
<1> QED
  BY <1>4, <1>5, <1>6

LEMMA FindReads ==
    ASSUME TypeInv, Apart, Reads, NEW c \in Client, FindIndexFile(c)
    PROVE  Reads'
<1>1. /\ pc[c] = "find" /\ pc' = [pc EXCEPT ![c] = "save"]
      /\ UNCHANGED <<drive, created, cache, call, tags, saw, acked, mixed, torn>>
      /\ work[c] \in LooseIndex /\ work[c].version \in Nat
  BY FindIs
<1>2. Found = {} /\ WorkTrue(c)
  BY <1>1 DEF Apart, StepFits, Changing
<1>3. PICK i \in IndexId :
         /\ work' = [work EXCEPT ![c] = [work[c] EXCEPT !.id = i]]
         /\ indexes' = [indexes EXCEPT ![i] = work[c]]
  BY <1>2, FindIs
<1>4. PICK x \in LooseIndex : x = work[c]
  BY <1>1
<1>5. \A index \in Lookup' : index.version = x.version /\ index.files = x.files
  <2>1. x.version >= 0 /\ (\A j \in Found : j = i) /\ indexes' = [indexes EXCEPT ![i] = x]
    BY <1>1, <1>2, <1>3, <1>4
  <2> QED
    BY <2>1, NewLookup
<1>6. /\ work'[c].version = x.version
      /\ \A d \in Client \ {c} : work'[d] = work[d] /\ pc'[d] = pc[d]
      /\ pc'[c] = "save"
  BY <1>1, <1>3, <1>4 DEF TypeInv, Types, LooseIndex
<1>7. ASSUME NEW d \in Client
      PROVE  /\ cache[d].version < x.version
             /\ \A n \in Name : tags[d][n] <= cache[d].version /\ tags[d][n] < x.version
  <2>1. PICK index \in Lookup : TRUE
    BY SomeLookup
  <2>2. index.version < x.version
    BY <1>1, <1>2, <1>4, <2>1 DEF WorkTrue
  <2>3. cache[d].version <= index.version /\ \A n \in Name : tags[d][n] <= cache[d].version
    BY DEF Reads, CachesBehind
  <2> QED
    BY <1>1, <1>4, <2>2, <2>3, VersionsAreNumbers
<1>8. x.version \in Nat /\ \A d \in Client : cache[d].version \in Int /\ \A n \in Name : tags[d][n] \in Int
  BY <1>1, <1>4, VersionsAreNumbers
<1>9. CachesBehind'
  BY <1>1, <1>5, <1>7, <1>8 DEF CachesBehind
<1>10. SawTrue'
  BY <1>1, <1>5, <1>7, <1>8 DEF SawTrue
<1>11. \A d \in Client : (Changing(d)' <=> Changing(d)) /\ work'[d].version = work[d].version
  BY <1>1, <1>4, <1>6 DEF Changing
<1>12. SawNext'
  BY <1>1, <1>11 DEF Reads, SawNext
<1> QED
  BY <1>9, <1>10, <1>12 DEF Reads

\* The saved index is the next version, or the one already there.
LEMMA SavedReads ==
    ASSUME TypeInv, Apart, Reads, NEW c \in Client, pc[c] = "save", End(c),
           indexes' = [indexes EXCEPT ![work[c].id] = work[c]],
           UNCHANGED <<tags, saw>>,
           cache' = [cache EXCEPT ![c] = work[c]] \/ UNCHANGED cache,
           torn \subseteq torn',
           \/ acked' = [acked EXCEPT ![call[c].name] = call[c].bytes]
           \/ UNCHANGED acked /\ call[c].name \in torn'
    PROVE  Reads'
<1>1. /\ call[c].name \in Name /\ work[c] \in LooseIndex /\ work[c].version \in Nat
      /\ acked \in [Name -> 0 .. MaxPuts]
  BY CallIsTyped DEF Busy, TypeInv, Types
<1>2. work[c].id \in Found /\ WorkTrue(c) /\ \A j \in Found : j = work[c].id
  BY DEF Apart, StepFits, Changing, OneIndex
<1>3. PICK x \in LooseIndex, k \in Name, i \in IndexId : x = work[c] /\ k = call[c].name /\ i = x.id
  BY <1>1, <1>2 DEF Found
<1>4. \A index \in Lookup' : index.version = x.version /\ index.files = x.files
  <2>1. x.version >= 0 /\ (\A j \in Found : j = i) /\ indexes' = [indexes EXCEPT ![i] = x]
    BY <1>1, <1>2, <1>3
  <2> QED
    BY <2>1, NewLookup
<1>5. pc'[c] = "idle" /\ \A d \in Client \ {c} : pc'[d] = pc[d]
  BY EndTypes
<1>6. \A d \in Client : ~(Changing(d)')
  BY <1>5 DEF Apart, Alone, Busy, Changing
<1>7. \A d \in Client \ {c} : ~Changing(d)
  BY DEF Apart, Alone, Busy, Changing
<1>8. PICK old \in Lookup :
          old.version < x.version \/ (old.version = x.version /\ old.files = x.files)
  BY <1>2, <1>3, SomeLookup DEF WorkTrue
<1>9. /\ old.version \in Nat /\ x.version \in Nat
      /\ \A d \in Client : cache[d].version \in Int /\ \A n \in Name : tags[d][n] \in Int
  BY <1>1, <1>3, VersionsAreNumbers
<1>10. ASSUME NEW d \in Client
       PROVE  /\ cache[d].version <= x.version
              /\ cache[d].version = x.version => cache[d].files = x.files
              /\ \A n \in Name : tags[d][n] <= cache[d].version /\ tags[d][n] <= x.version
              /\ \A n \in Name : tags[d][n] = x.version => tags[d][n] = old.version
  <2>1. /\ cache[d].version <= old.version
        /\ cache[d].version = old.version => cache[d].files = old.files
        /\ \A n \in Name : tags[d][n] <= cache[d].version
    BY DEF Reads, CachesBehind
  <2> QED
    BY <1>8, <1>9, <2>1
<1>11. \A d \in Client : cache'[d] = cache[d] \/ cache'[d] = x
  BY <1>3 DEF TypeInv, Types
<1>12. CachesBehind'
  <2>1. ASSUME NEW d \in Client
        PROVE  /\ cache'[d].version <= x.version
               /\ cache'[d].version = x.version => cache'[d].files = x.files
               /\ \A n \in Name : tags[d][n] <= cache'[d].version
    <3>1. CASE cache'[d] = cache[d]
      BY <1>10, <3>1
    <3>2. CASE cache'[d] = x
      BY <1>9, <1>10, <3>2
    <3> QED
      BY <1>11, <3>1, <3>2
  <2> QED
    BY <1>4, <2>1 DEF CachesBehind
<1>13. ASSUME NEW d \in Client, NEW n \in Name, saw[d][n] # Unread, tags[d][n] = x.version, Settled(n)'
       PROVE  saw[d][n] = acked'[n]
  <2>1. n \notin torn' /\ n \notin torn
    BY <1>13 DEF Settled
  <2>2. CASE n = k
    <3>1. saw[d][n] = call[c].bytes
      BY <1>3, <1>13, <2>2 DEF Reads, SawNext, Changing
    <3> QED
      BY <1>1, <1>3, <2>1, <2>2, <3>1
  <2>3. CASE n # k
    <3>1. Settled(n)
      BY <1>3, <1>7, <2>1, <2>3 DEF Settled, Changing
    <3>2. saw[d][n] = acked[n]
      BY <1>10, <1>13, <3>1 DEF Reads, SawTrue
    <3> QED
      BY <1>1, <1>3, <2>3, <3>2
  <2> QED
    BY <2>2, <2>3
<1>14. SawTrue'
  BY <1>4, <1>13 DEF SawTrue
<1>15. SawNext'
  BY <1>6 DEF SawNext
<1> QED
  BY <1>12, <1>14, <1>15 DEF Reads

LEMMA EndReads ==
    ASSUME TypeInv, Apart, Reads, NEW c \in Client, SaveIndex(c) \/ BreakOff(c)
    PROVE  Reads'
<1>1. CASE SaveIndex(c)
  <2>1. /\ pc[c] = "save" /\ End(c) /\ UNCHANGED <<tags, saw, torn>>
        /\ indexes' = [indexes EXCEPT ![work[c].id] = work[c]]
        /\ cache' = [cache EXCEPT ![c] = work[c]]
        /\ acked' = [acked EXCEPT ![call[c].name] = call[c].bytes]
    BY <1>1 DEF SaveIndex, readVars
  <2> QED
    BY <2>1, SavedReads
<1>2. CASE BreakOff(c)
  <2>1. /\ pc[c] # "idle" /\ End(c) /\ UNCHANGED <<cache, tags, saw, acked>>
        /\ torn' = IF pc[c] = "load" THEN torn ELSE torn \cup {call[c].name}
        /\ \/ UNCHANGED indexes
           \/ pc[c] = "save" /\ indexes' = [indexes EXCEPT ![work[c].id] = work[c]]
    BY <1>2 DEF BreakOff, readVars
  <2>2. torn \subseteq torn' /\ (Changing(c) => call[c].name \in torn')
    BY <2>1 DEF Changing
  <2>3. CASE UNCHANGED indexes
    <3>1. /\ pc'[c] = "idle"
          /\ \A d \in Client \ {c} : pc'[d] = pc[d] /\ call'[d] = call[d] /\ work'[d] = work[d]
      BY <2>1, EndTypes
    <3> QED
      BY <2>1, <2>2, <2>3, <3>1, SameReads
  <2>4. CASE pc[c] = "save" /\ indexes' = [indexes EXCEPT ![work[c].id] = work[c]]
    BY <2>1, <2>2, <2>4, SavedReads DEF Changing
  <2> QED
    BY <2>1, <2>3, <2>4
<1> QED
  BY <1>1, <1>2

LEMMA StartReads ==
    ASSUME TypeInv, Reads, NEW c \in Client, StartPut(c) \/ StartDelete(c)
    PROVE  Reads'
<1>1. PICK k : Start(c, k)
  BY Zenon DEF StartPut, StartDelete
<1>2. /\ pc[c] = "idle" /\ pc'[c] = "load"
      /\ \A d \in Client \ {c} : pc'[d] = pc[d] /\ call'[d] = call[d] /\ work'[d] = work[d]
      /\ UNCHANGED <<indexes, cache, tags, saw, acked, torn>>
  BY <1>1 DEF Start, driveVars, readVars, pastVars, TypeInv, Types
<1> QED
  BY <1>2, SameReads DEF Changing

\* A device reads: c has something cached, listed or read anew.
LEMMA SameAround ==
    ASSUME UNCHANGED <<indexes, pc, call, work, acked, torn>>
    PROVE  /\ Lookup' = Lookup
           /\ \A n \in Name : Settled(n)' <=> Settled(n)
           /\ \A d \in Client : Changing(d)' <=> Changing(d)
BY SameLookup DEF Settled, Changing

LEMMA LoadCacheReads ==
    ASSUME TypeInv, Apart, Reads, NEW c \in Client, LoadCache(c)
    PROVE  Reads'
<1>1. /\ cache[c] = NoIndex
      /\ UNCHANGED <<indexes, pc, call, work, acked, torn, tags, saw>>
  BY DEF LoadCache, driveVars, readVars, pastVars
<1>2. PICK x \in Lookup : cache' = [cache EXCEPT ![c] = x]
  BY DEF LoadCache
<1>3. \A d \in Client : cache'[d] = IF d = c THEN x ELSE cache[d]
  BY <1>2 DEF TypeInv, Types
<1>4. \A index \in Lookup : index = x
  BY OneLookup DEF Apart
<1>5. \A n \in Name : tags[c][n] <= x.version
  BY <1>1, EmptyIndexes, VersionsAreNumbers DEF Reads, CachesBehind
<1>6. x.version <= x.version
  BY VersionsAreNumbers
<1>7. CachesBehind'
  BY <1>1, <1>3, <1>4, <1>5, <1>6, SameAround DEF Reads, CachesBehind
<1>8. SawTrue' /\ SawNext'
  BY <1>1, SameAround DEF Reads, SawTrue, SawNext
<1> QED
  BY <1>7, <1>8 DEF Reads

LEMMA ListReads ==
    ASSUME TypeInv, Reads, NEW c \in Client, List(c) \/ NewInstance(c)
    PROVE  Reads'
<1>1. UNCHANGED <<indexes, pc, call, work, acked, torn>>
  BY DEF List, NewInstance, driveVars, pastVars
<1>2. /\ \A d \in Client \ {c} : cache'[d] = cache[d] /\ tags'[d] = tags[d] /\ saw'[d] = saw[d]
      /\ saw'[c] = [n \in Name |-> Unread]
  BY DEF List, NewInstance, TypeInv, Types
<1>3. \A n \in Name : saw'[c][n] = Unread
  BY <1>2
<1>4. /\ cache'[c] = cache[c] \/ cache'[c] = NoIndex
      /\ \A n \in Name : tags'[c][n] <= cache'[c].version
  <2>1. CASE List(c)
    <3>1. cache' = cache /\ cache[c].version \in Int /\ cache[c].version >= -1
      BY <2>1, VersionsAreNumbers DEF List
    <3>2. \A n \in Name : tags'[c][n] = IF cache[c].files[n] = None THEN IfNew ELSE cache[c].version
      BY <2>1 DEF List, TypeInv, Types
    <3> QED
      BY <3>1, <3>2 DEF IfNew
  <2>2. CASE NewInstance(c)
    <3>1. cache'[c] = NoIndex /\ \A n \in Name : tags'[c][n] = IfNew
      BY <2>2 DEF NewInstance, TypeInv, Types
    <3> QED
      BY <3>1, EmptyIndexes DEF IfNew
  <2> QED
    BY <2>1, <2>2
<1>5. ASSUME NEW index \in Lookup
      PROVE  /\ cache'[c].version <= index.version
             /\ cache'[c].version = index.version => cache'[c].files = index.files
  <2>1. CASE cache'[c] = cache[c]
    BY <2>1 DEF Reads, CachesBehind
  <2>2. CASE cache'[c] = NoIndex
    BY <2>2, EmptyIndexes, VersionsAreNumbers
  <2> QED
    BY <1>4, <2>1, <2>2
<1>6. CachesBehind'
  <2>1. ASSUME NEW d \in Client, NEW index \in Lookup
        PROVE  /\ cache'[d].version <= index.version
               /\ cache'[d].version = index.version => cache'[d].files = index.files
               /\ \A n \in Name : tags'[d][n] <= cache'[d].version
    <3>1. CASE d = c
      BY <1>4, <1>5, <3>1
    <3>2. CASE d # c
      BY <1>2, <3>2 DEF Reads, CachesBehind
    <3> QED
      BY <3>1, <3>2
  <2> QED
    BY <1>1, <2>1, SameAround DEF CachesBehind
<1>7. SawTrue'
  <2>1. ASSUME NEW d \in Client, NEW n \in Name, NEW index \in Lookup,
               saw'[d][n] # Unread, tags'[d][n] = index.version, Settled(n)
        PROVE  saw'[d][n] = acked[n]
    <3>1. d # c
      BY <1>3, <2>1
    <3> QED
      BY <1>2, <2>1, <3>1 DEF Reads, SawTrue
  <2> QED
    BY <1>1, <2>1, SameAround DEF SawTrue
<1>8. SawNext'
  <2>1. ASSUME NEW e \in Client, NEW d \in Client, Changing(e),
               saw'[d][call[e].name] # Unread, tags'[d][call[e].name] = work[e].version
        PROVE  saw'[d][call[e].name] = call[e].bytes
    <3>1. call[e].name \in Name
      BY <2>1, CallIsTyped DEF Busy, Changing
    <3>2. d # c
      BY <1>3, <2>1, <3>1
    <3> QED
      BY <1>2, <2>1, <3>2 DEF Reads, SawNext
  <2> QED
    BY <1>1, <2>1, SameAround DEF SawNext
<1> QED
  BY <1>6, <1>7, <1>8 DEF Reads

LEMMA GetReads ==
    ASSUME TypeInv, Apart, Reads, NEW c \in Client, Get(c)
    PROVE  Reads'
<1>1. UNCHANGED <<drive, indexes, cache, pc, call, work, tags, acked, torn>>
  BY DEF Get, driveVars, pastVars
<1>2. PICK m \in Name :
         /\ cache[c].files[m] # None
         /\ saw' = [saw EXCEPT ![c][m] = drive[cache[c].files[m]]]
  BY DEF Get
<1>3. /\ saw'[c][m] = Bytes(cache[c].files, m)
      /\ \A d \in Client, n \in Name : d # c \/ n # m => saw'[d][n] = saw[d][n]
  BY <1>2 DEF TypeInv, Types, Bytes
<1>4. CachesBehind'
  BY <1>1, SameAround DEF Reads, CachesBehind
\* With an ETag of the version there is, it has cached what there is.
<1>5. ASSUME NEW index \in Lookup, tags[c][m] >= index.version
      PROVE  cache[c].files = index.files /\ tags[c][m] = index.version
  <2>1. /\ cache[c].version <= index.version /\ tags[c][m] <= cache[c].version
        /\ cache[c].version = index.version => cache[c].files = index.files
    BY DEF Reads, CachesBehind
  <2>2. index.version \in Int /\ cache[c].version \in Int /\ tags[c][m] \in Int
    BY VersionsAreNumbers
  <2> QED
    BY <1>5, <2>1, <2>2
<1>6. SawTrue'
  <2>1. ASSUME NEW d \in Client, NEW n \in Name, NEW index \in Lookup,
               saw'[d][n] # Unread, tags[d][n] = index.version, Settled(n)
        PROVE  saw'[d][n] = acked[n]
    <3>1. CASE d = c /\ n = m
      <4>1. tags[c][m] >= index.version
        BY <2>1, <3>1, VersionsAreNumbers
      <4>2. cache[c].files = index.files
        BY <1>5, <4>1
      <4>3. Bytes(index.files, m) = acked[m]
        BY <2>1, <3>1 DEF Apart, IndexTrue
      <4> QED
        BY <1>3, <3>1, <4>2, <4>3
    <3>2. CASE d # c \/ n # m
      BY <1>3, <2>1, <3>2 DEF Reads, SawTrue
    <3> QED
      BY <3>1, <3>2
  <2> QED
    BY <1>1, <2>1, SameAround DEF SawTrue
<1>7. SawNext'
  <2>1. ASSUME NEW e \in Client, NEW d \in Client, Changing(e),
               saw'[d][call[e].name] # Unread, tags[d][call[e].name] = work[e].version
        PROVE  saw'[d][call[e].name] = call[e].bytes
    <3>0. call[e].name \in Name
      BY <2>1, CallIsTyped DEF Busy, Changing
    <3>1. CASE d = c /\ call[e].name = m
      <4>1. PICK index \in Lookup :
               /\ Bytes(work[e].files, m) = call[e].bytes
               /\ \/ index.version < work[e].version
                  \/ index.version = work[e].version /\ index.files = work[e].files
        BY <2>1, <3>1, SomeLookup DEF Apart, StepFits, WorkTrue
      <4>2. tags[c][m] >= index.version
        BY <2>1, <3>1, <4>1, VersionsAreNumbers
      <4>3. cache[c].files = index.files /\ tags[c][m] = index.version
        BY <1>5, <4>2
      <4>4. index.files = work[e].files
        BY <2>1, <3>1, <4>1, <4>3, VersionsAreNumbers
      <4> QED
        BY <1>3, <3>1, <4>1, <4>3, <4>4
    <3>2. CASE d # c \/ call[e].name # m
      BY <1>3, <2>1, <3>0, <3>2 DEF Reads, SawNext
    <3> QED
      BY <3>1, <3>2
  <2> QED
    BY <1>1, <2>1, SameAround DEF SawNext
<1> QED
  BY <1>4, <1>6, <1>7 DEF Reads

LEMMA StepReads ==
    ASSUME TypeInv, Counts, ApartInv, ReadsInv, [Next]_vars
    PROVE  ReadsInv'
<1> SUFFICES ASSUME ~mixed' PROVE Reads'
  BY DEF ReadsInv
<1>1. Apart /\ Reads
  BY MixedStays DEF ApartInv, ReadsInv
<1>2. CASE UNCHANGED vars
  <2>1. UNCHANGED <<indexes, cache, pc, call, work, tags, saw, acked, torn>>
    BY <1>2 DEF vars, driveVars, readVars, pastVars
  <2> QED
    BY <1>1, <2>1, SameAround DEF Reads, CachesBehind, SawTrue, SawNext
<1>3. CASE Next
  <2>1. PICK c \in Client :
           \/ StartPut(c) \/ StartDelete(c) \/ LoadIndex(c)
           \/ ReplaceContent(c) \/ CreateFile(c) \/ DeleteFile(c)
           \/ FindIndexFile(c) \/ SaveIndex(c) \/ BreakOff(c)
           \/ LoadCache(c) \/ List(c) \/ Get(c) \/ NewInstance(c)
    BY <1>3, Zenon DEF Next
  <2> QED
    BY <1>1, <2>1, StartReads, LoadIndexReads, WriteReads, FindReads, EndReads, LoadCacheReads,
       ListReads, GetReads
<1> QED
  BY <1>2, <1>3

LEMMA InitReads ==
    ASSUME Init
    PROVE  ReadsInv
<1>1. /\ \A c \in Client : pc[c] = "idle" /\ cache[c] = NoIndex
      /\ \A i \in IndexId : indexes[i] = NoIndex
      /\ \A c \in Client, n \in Name : tags[c][n] = IfNew /\ saw[c][n] = Unread
  BY DEF Init
<1>2. Lookup = {NewIndex}
  BY <1>1 DEF Found, Lookup
<1>3. CachesBehind
  BY <1>1, <1>2, EmptyIndexes DEF CachesBehind, IfNew
<1>4. SawTrue /\ SawNext
  BY <1>1 DEF SawTrue, SawNext, Changing
<1> QED
  BY <1>3, <1>4 DEF ReadsInv, Reads

LEMMA StaysRead == Spec => []ReadsInv
<1>1. Init => ReadsInv
  BY InitReads
<1>2. (TypeInv /\ Counts) /\ ApartInv /\ ReadsInv /\ [Next]_vars => ReadsInv'
  BY StepReads
<1> QED
  BY <1>1, <1>2, TypesAndCounts, StaysApart, PTL DEF Spec

\* Calls that write apart, a put with the ETag under which its caller listed
\* and then read an object goes ahead only if that object still is what was
\* last acknowledged: one version for all objects tells of every change.
THEOREM PutReplacesWhatItSaw == Spec => ReplacesWhatItSaw
<1> DEFINE Replaced == \A c \in Client :
                         /\ pc[c] = "load" /\ pc'[c] = "write" /\ ~mixed'
                         /\ call[c].want >= 0 /\ call[c].name \notin torn
                         /\ saw[c][call[c].name] # Unread
                         => saw[c][call[c].name] = acked[call[c].name]
<1>1. TypeInv /\ ApartInv /\ ReadsInv /\ [Next]_vars => [Replaced]_vars
  <2> SUFFICES ASSUME TypeInv, ApartInv, ReadsInv, Next,
                      NEW c \in Client, pc[c] = "load", pc'[c] = "write", ~mixed',
                      call[c].want >= 0, call[c].name \notin torn,
                      saw[c][call[c].name] # Unread
               PROVE  saw[c][call[c].name] = acked[call[c].name]
    OBVIOUS
  <2>1. LoadIndex(c)
    <3>1. PICK d \in Client :
             \/ StartPut(d) \/ StartDelete(d) \/ LoadIndex(d)
             \/ ReplaceContent(d) \/ CreateFile(d) \/ DeleteFile(d)
             \/ FindIndexFile(d) \/ SaveIndex(d) \/ BreakOff(d)
             \/ LoadCache(d) \/ List(d) \/ Get(d) \/ NewInstance(d)
      BY Zenon DEF Next
    <3>2. CASE StartPut(d) \/ StartDelete(d)
      <4>1. PICK k : Start(d, k)
        BY <3>2, Zenon DEF StartPut, StartDelete
      <4> QED
        BY <4>1 DEF Start, TypeInv, Types
    <3>3. CASE LoadIndex(d)
      <4>1. d # c => pc'[c] = pc[c]
        <5>1. PICK index \in Lookup : pc' = [pc EXCEPT ![d] = "write"] \/ End(d)
          BY <3>3 DEF LoadIndex, Base
        <5> QED
          BY <5>1 DEF End, TypeInv, Types
      <4> QED
        BY <3>3, <4>1
    <3>4. CASE ReplaceContent(d) \/ CreateFile(d) \/ DeleteFile(d)
      <4>1. pc[d] = "write" /\ (End(d) \/ pc' = [pc EXCEPT ![d] = NextStep(d)])
        BY <3>4 DEF ReplaceContent, CreateFile, DeleteFile
      <4> QED
        BY <4>1 DEF End, TypeInv, Types
    <3>5. CASE FindIndexFile(d) \/ SaveIndex(d) \/ BreakOff(d)
      BY <3>5 DEF FindIndexFile, SaveIndex, BreakOff, End, TypeInv, Types
    <3>6. CASE LoadCache(d) \/ List(d) \/ Get(d) \/ NewInstance(d)
      BY <3>6 DEF LoadCache, List, Get, NewInstance
    <3> QED
      BY <3>1, <3>2, <3>3, <3>4, <3>5, <3>6
  <2>2. /\ ~mixed /\ \A d \in Client \ {c} : ~Busy(d)
        /\ Apart /\ Reads
    BY <2>1 DEF LoadIndex, Busy, ApartInv, ReadsInv
  <2>3. call[c] \in Call /\ CallFits(c)
    BY DEF TypeInv, CallFits
  <2>4. call[c].op = "put" /\ call[c].want = tags[c][call[c].name] /\ call[c].name \in Name
    BY <2>3 DEF CallFits, Call, Always
  <2>5. Settled(call[c].name)
    BY <2>2 DEF Settled, Changing, Busy
  <2>6. PICK index \in Lookup : Satisfied(call[c].want, index) \/ pc'[c] = "idle"
    BY <2>1, <2>4, EndTypes DEF LoadIndex, Base
  <2>7. call[c].want = index.version
    BY <2>6 DEF Satisfied, Always, IfNew
  <2> QED
    BY <2>2, <2>4, <2>5, <2>7 DEF Reads, SawTrue
<1>2. Spec => [][Replaced]_vars
  BY <1>1, TypesAndCounts, StaysApart, StaysRead, PTL DEF Spec
<1> QED
  BY <1>2 DEF ReplacesWhatItSaw
=============================================================================
