-------------------------- MODULE DeviceLifeProofs --------------------------
(***************************************************************************)
(* The life of a vault and its devices, for any devices, keystores, clocks *)
(* and budgets: no identity is lost, what is recovered is the key of the   *)
(* vault, and whoever has that key reads what is published.                *)
(***************************************************************************)
EXTENDS DeviceLife, RecoveryProofs

-----------------------------------------------------------------------------
(* Types                                                                     *)

\* What a command holds in memory: a RIK to be put, or a sync.
SecretWork(w) ==
    /\ w = [op |-> w.op, rik |-> w.rik, due |-> w.due, unreadable |-> w.unreadable]
    /\ w.op \in {"init", "recover"} /\ w.rik \in Field

SyncWork(w) ==
    w = [op |-> "sync", rik |-> w.rik, started |-> w.started, version |-> w.version,
         edited |-> w.edited, file |-> w.file]

WorkFits(d) ==
    /\ pc[d] \in {"config", "backup", "wipe", "put"} => SecretWork(work[d])
    /\ pc[d] \in {"push", "save"} => SyncWork(work[d])

\* Every RIK was generated by an init that was counted.
Counted ==
    /\ made \in Nat /\ made + budget["init"] = Budget["init"] /\ budget["init"] \in Nat
    /\ DOMAIN budget = DOMAIN Budget

Shapes ==
    /\ now \in Nat /\ stores \in Nat
    /\ work = [d \in Device |-> work[d]] /\ DOMAIN before = Device /\ DOMAIN misread = Device
    /\ DOMAIN bundle = Device /\ DOMAIN cache = Device

TypeInv == TypeOK /\ Counted /\ Shapes /\ \A d \in Device : WorkFits(d)

Commands == {"init", "recover", "setup", "sync", "misread", "crash", "time", "user", "all"}

LEMMA BudgetTyped ==
    /\ Budget \in [Commands -> Nat] /\ "init" \in DOMAIN Budget
    /\ Budget["init"] \in Nat /\ Budget["init"] <= Prime /\ Prime \in Nat /\ MaxAge \in Nat
BY DeviceAssumption, PrimeAssumption DEF Commands

LEMMA TypeInit == Init => TypeInv
<1> SUFFICES ASSUME Init PROVE TypeInv
  OBVIOUS
<1>1. TypeOK
  <2>1. 0 \in 0 .. Prime
    BY PrimeAssumption
  <2> QED BY <2>1 DEF Init, TypeOK, NoWork
<1>2. Counted
  BY BudgetTyped DEF Init, Counted
<1>3. Shapes
  BY BudgetTyped DEF Init, Shapes
<1>4. \A d \in Device : WorkFits(d)
  BY DEF Init, WorkFits
<1> QED BY <1>1, <1>2, <1>3, <1>4 DEF TypeInv

\* What a step costs leaves the count of inits right.
LEMMA Spending ==
    ASSUME Counted, NEW events, Spend(events), "init" \notin events, made' = made
    PROVE  Counted'
<1>1. "init" \in DOMAIN budget
  BY BudgetTyped DEF Counted
<1>2. budget'["init"] = budget["init"] - 0 /\ DOMAIN budget' = DOMAIN budget
  BY <1>1 DEF Spend
<1> QED BY <1>2 DEF Counted

LEMMA SpendingInit ==
    ASSUME Counted, NEW events, Spend(events), "init" \in events, made' = made + 1
    PROVE  Counted' /\ made \in Field /\ made' \in 0 .. Prime
<1>1. "init" \in DOMAIN budget
  BY BudgetTyped DEF Counted
<1>2. budget'["init"] = budget["init"] - 1 /\ DOMAIN budget' = DOMAIN budget /\ budget["init"] > 0
  BY <1>1 DEF Spend
<1>3. Counted'
  BY <1>2 DEF Counted
<1> QED BY <1>2, <1>3, BudgetTyped DEF Counted, Field

\* The step of d's command, and what it leaves to the other devices.
Moves(d, step, w) ==
    /\ pc' = [pc EXCEPT ![d] = step] /\ work' = [work EXCEPT ![d] = w]

LEMMA Moved ==
    ASSUME TypeInv, NEW d \in Device, NEW step, NEW w, Moves(d, step, w)
    PROVE  /\ pc'[d] = step /\ work'[d] = w /\ work' = [e \in Device |-> work'[e]]
           /\ \A e \in Device \ {d} : pc'[e] = pc[e] /\ work'[e] = work[e]
BY DEF Moves, TypeInv, TypeOK, Shapes

\* A step of d's command keeps the types if what it goes on with fits and only the
\* identity of d may change.
LEMMA TypeMove ==
    ASSUME TypeInv, NEW d \in Device, NEW step, NEW w, Moves(d, step, w), Counted',
           step \in {"idle", "config", "backup", "wipe", "put", "push", "save"},
           step = "idle" <=> w = NoWork,
           step \in {"config", "backup", "wipe", "put"} => SecretWork(w),
           step \in {"push", "save"} => SyncWork(w) /\ w.rik = identity'[d],
           made' \in 0 .. Prime, sealed' \in Nat,
           config' \in [Device -> BOOLEAN], backup' \in [Device -> Field \cup {None}],
           identity' \in [Device -> Field \cup {None}],
           \A e \in Device \ {d} : identity'[e] = identity[e],
           now' = now, stores' = stores, bundle' = bundle, DOMAIN cache' = Device,
           DOMAIN before' = Device, DOMAIN misread' = Device
    PROVE  TypeInv'
<1>1. /\ pc'[d] = step /\ work'[d] = w /\ work' = [e \in Device |-> work'[e]]
      /\ \A e \in Device \ {d} : pc'[e] = pc[e] /\ work'[e] = work[e]
  BY Moved
<1>2. pc' \in [Device -> {"idle", "config", "backup", "wipe", "put", "push", "save"}]
  BY DEF Moves, TypeInv, TypeOK
<1>3. ASSUME NEW e \in Device
      PROVE  /\ pc'[e] = "idle" <=> work'[e] = NoWork
             /\ pc'[e] \in {"push", "save"} => work'[e].rik = identity'[e]
             /\ WorkFits(e)'
  <2>1. CASE e = d
    BY <1>1, <2>1 DEF WorkFits
  <2>2. CASE e # d
    BY <1>1, <2>2 DEF TypeInv, TypeOK, WorkFits
  <2> QED BY <2>1, <2>2
<1>4. TypeOK'
  BY <1>2, <1>3 DEF TypeOK, NoWork
<1>5. Shapes'
  BY <1>1 DEF TypeInv, Shapes
<1> QED BY <1>3, <1>4, <1>5 DEF TypeInv

-----------------------------------------------------------------------------
(* What the steps of a command make of what it holds                         *)

LEMMA MarkedUnreadable ==
    ASSUME NEW w, w = [op |-> w.op, rik |-> w.rik, due |-> w.due, unreadable |-> w.unreadable],
           NEW t
    PROVE  [w EXCEPT !.unreadable = t]
              = [op |-> w.op, rik |-> w.rik, due |-> w.due, unreadable |-> t]
OBVIOUS

LEMMA MergedWork ==
    ASSUME NEW w, SyncWork(w), NEW version, NEW file
    PROVE  [[w EXCEPT !.version = version] EXCEPT !.file = file]
              = [op |-> "sync", rik |-> w.rik, started |-> w.started, version |-> version,
                 edited |-> w.edited, file |-> file]
<1> DEFINE x == [w EXCEPT !.version = version]
<1>1. x = [op |-> "sync", rik |-> w.rik, started |-> w.started, version |-> version,
           edited |-> w.edited, file |-> w.file]
  BY DEF SyncWork
<1> HIDE DEF x
<1>2. ASSUME NEW y, SyncWork(y)
      PROVE  [y EXCEPT !.file = file]
                = [op |-> "sync", rik |-> y.rik, started |-> y.started, version |-> y.version,
                   edited |-> y.edited, file |-> file]
  BY <1>2 DEF SyncWork
<1>3. /\ SyncWork(x) /\ x.rik = w.rik /\ x.started = w.started
      /\ x.version = version /\ x.edited = w.edited
  BY <1>1 DEF SyncWork
<1>4. [x EXCEPT !.file = file]
         = [op |-> "sync", rik |-> w.rik, started |-> w.started, version |-> version,
            edited |-> w.edited, file |-> file]
  BY <1>2, <1>3
<1> QED BY <1>4 DEF x

LEMMA EndMoves ==
    ASSUME NEW d \in Device, End(d)
    PROVE  Moves(d, "idle", NoWork)
BY DEF End, Goto, Moves

LEMMA StaysMoves ==
    ASSUME TypeInv, NEW d \in Device, NEW step, Goto(d, step), UNCHANGED work
    PROVE  Moves(d, step, work[d])
BY DEF Goto, Moves, TypeInv, Shapes

LEMMA StartInitMoves ==
    ASSUME TypeInv, NEW d \in Device, StartInit(d)
    PROVE  \E fails \in Failures :
              /\ MayFail(d, fails) /\ ~Exists(d, fails) /\ NoteMisread(d, fails)
              /\ Spend({"init"} \cup Misread(fails))
              /\ Moves(d, PutStep(d),
                       [op |-> "init", rik |-> made, due |-> made, unreadable |-> fails])
BY DEF StartInit, Moves, Goto

LEMMA StartRecoverMoves ==
    ASSUME TypeInv, NEW d \in Device, StartRecover(d)
    PROVE  \E fails \in Failures : \E r \in Recoverable(d) :
              /\ MayFail(d, fails) /\ NoteMisread(d, fails)
              /\ Spend({"recover"} \cup Misread(fails))
              /\ Moves(d, IF Exists(d, fails) THEN "backup" ELSE PutStep(d),
                       [op |-> "recover", rik |-> r.rik, due |-> r.due, unreadable |-> fails])
<1>1. PICK fails \in Failures :
         /\ MayFail(d, fails) /\ NoteMisread(d, fails)
         /\ Spend({"recover"} \cup Misread(fails))
         /\ \E r \in Recoverable(d) :
               work' = [work EXCEPT ![d] =
                  [op |-> "recover", rik |-> r.rik, due |-> r.due, unreadable |-> fails]]
         /\ Goto(d, IF Exists(d, fails) THEN "backup" ELSE PutStep(d))
  BY Zenon DEF StartRecover
<1>2. PICK r \in Recoverable(d) :
         work' = [work EXCEPT ![d] =
            [op |-> "recover", rik |-> r.rik, due |-> r.due, unreadable |-> fails]]
  BY <1>1, Zenon
<1> QED BY <1>1, <1>2, Zenon DEF Moves, Goto

LEMMA BackUpMoves ==
    ASSUME TypeInv, NEW d \in Device, BackUpIdentity(d)
    PROVE  \/ /\ Moves(d, PutStep(d), work[d])
              /\ BackUp(d) /\ UNCHANGED <<budget, misread>>
           \/ /\ \E fails \in Failures \ {"no"} :
                    /\ MayFail(d, fails) /\ NoteMisread(d, fails)
                    /\ Moves(d, PutStep(d), [op |-> work[d].op, rik |-> work[d].rik,
                                             due |-> work[d].due, unreadable |-> fails])
              /\ Spend({"misread"}) /\ UNCHANGED backup
<1>1. pc[d] = "backup" /\ Goto(d, PutStep(d))
  BY DEF BackUpIdentity
<1>2. CASE BackUp(d) /\ UNCHANGED <<work, budget, misread>>
  BY <1>1, <1>2, StaysMoves
<1>3. ASSUME NEW fails \in Failures \ {"no"}, MayFail(d, fails), NoteMisread(d, fails),
             work' = [work EXCEPT ![d].unreadable = fails],
             Spend({"misread"}), UNCHANGED backup
      PROVE  /\ MayFail(d, fails) /\ NoteMisread(d, fails)
             /\ Moves(d, PutStep(d), [op |-> work[d].op, rik |-> work[d].rik,
                                      due |-> work[d].due, unreadable |-> fails])
             /\ Spend({"misread"}) /\ UNCHANGED backup
  <2>1. SecretWork(work[d])
    BY <1>1 DEF TypeInv, WorkFits
  <2> DEFINE w == work[d]
  <2>2. [w EXCEPT !.unreadable = fails]
           = [op |-> w.op, rik |-> w.rik, due |-> w.due, unreadable |-> fails]
    BY <2>1, MarkedUnreadable, Zenon DEF SecretWork
  <2>3. work' = [work EXCEPT ![d] = [w EXCEPT !.unreadable = fails]]
    BY <1>3
  <2>4. Moves(d, PutStep(d), [op |-> w.op, rik |-> w.rik, due |-> w.due, unreadable |-> fails])
    BY <1>1, <2>2, <2>3 DEF Moves, Goto
  <2> QED BY <1>3, <2>4
<1>4. \/ BackUp(d) /\ UNCHANGED <<work, budget, misread>>
      \/ \E fails \in Failures \ {"no"} :
            /\ MayFail(d, fails) /\ NoteMisread(d, fails)
            /\ work' = [work EXCEPT ![d].unreadable = fails]
            /\ Spend({"misread"}) /\ UNCHANGED backup
  BY Zenon DEF BackUpIdentity
<1> QED BY <1>2, <1>3, <1>4, Zenon

LEMMA PutMoves ==
    ASSUME TypeInv, NEW d \in Device, PutIdentity(d)
    PROVE  \/ /\ Moves(d, "idle", NoWork) /\ UNCHANGED identity
              /\ work[d].unreadable = "damaged"
           \/ /\ Moves(d, "idle", NoWork)
              /\ identity' = [identity EXCEPT ![d] = work[d].rik]
              /\ work[d].unreadable # "damaged"
           \/ /\ Moves(d, "config", work[d])
              /\ identity' = [identity EXCEPT ![d] = work[d].rik]
              /\ work[d].unreadable # "damaged"
<1>1. CASE work[d].unreadable = "damaged"
  BY <1>1, EndMoves DEF PutIdentity
<1>2. CASE work[d].unreadable # "damaged"
  BY <1>2, EndMoves, StaysMoves DEF PutIdentity
<1> QED BY <1>1, <1>2

LEMMA StartSyncMoves ==
    ASSUME TypeInv, NEW d \in Device, StartSync(d)
    PROVE  \E edited \in BOOLEAN :
              /\ Moves(d, "push",
                    [op |-> "sync", rik |-> identity[d], started |-> Clock(d),
                     version |-> cache[d].version, edited |-> edited,
                     file |-> IF edited THEN EditedEntry(d) ELSE cache[d].file])
              /\ blobs' = IF edited THEN blobs \cup {EditedEntry(d).blob} ELSE blobs
              /\ sealed' = IF edited THEN sealed + 1 ELSE sealed
BY DEF StartSync, Moves, Goto

LEMMA PushMoves ==
    ASSUME TypeInv, NEW d \in Device, PushManifest(d)
    PROVE  \E file \in Merged(d) : \E last :
              /\ manifest' = SealManifest(d, [version |-> last + 1, file |-> file])
              /\ Moves(d, "save", [op |-> "sync", rik |-> work[d].rik, started |-> work[d].started,
                                   version |-> last + 1, edited |-> work[d].edited, file |-> file])
<1> DEFINE w == work[d]
           last == IF Fetched(d).version > work[d].version THEN Fetched(d).version
                                                           ELSE work[d].version
<1>1. PICK file \in Merged(d) :
         /\ manifest' = SealManifest(d, [version |-> last + 1, file |-> file])
         /\ work' = [work EXCEPT ![d].version = last + 1, ![d].file = file]
  BY DEF PushManifest
<1>2. pc[d] = "push" /\ pc' = [pc EXCEPT ![d] = "save"]
  BY DEF PushManifest, Goto
<1> HIDE DEF last
<1>3. SyncWork(w)
  BY <1>2 DEF TypeInv, WorkFits
<1>4. work' = [work EXCEPT ![d] = [[w EXCEPT !.version = last + 1] EXCEPT !.file = file]]
  BY <1>1 DEF TypeInv, Shapes
<1> HIDE DEF w
<1>5. [[w EXCEPT !.version = last + 1] EXCEPT !.file = file]
         = [op |-> "sync", rik |-> w.rik, started |-> w.started, version |-> last + 1,
            edited |-> w.edited, file |-> file]
  BY <1>3, MergedWork
<1>6. Moves(d, "save", [op |-> "sync", rik |-> w.rik, started |-> w.started,
                        version |-> last + 1, edited |-> w.edited, file |-> file])
  BY <1>2, <1>4, <1>5 DEF Moves
<1> QED BY <1>1, <1>6 DEF w

-----------------------------------------------------------------------------
(* Every step keeps the types                                                *)

\* A step outside the commands.
LEMMA TypeElsewhere ==
    ASSUME TypeInv, UNCHANGED <<pc, work, config, backup, made, misread>>, Counted',
           sealed' \in Nat, identity' \in [Device -> Field \cup {None}],
           \A d \in Device : identity'[d] = identity[d] \/ pc[d] = "idle",
           now' \in Nat, stores' \in Nat,
           DOMAIN bundle' = Device, DOMAIN cache' = Device, DOMAIN before' = Device
    PROVE  TypeInv'
<1>1. TypeOK'
  BY DEF TypeInv, TypeOK
<1>2. Shapes'
  BY DEF TypeInv, Shapes
<1>3. \A d \in Device : WorkFits(d)'
  BY DEF TypeInv, WorkFits
<1> QED BY <1>1, <1>2, <1>3 DEF TypeInv

LEMMA CountedStays == ASSUME Counted, UNCHANGED <<made, budget>> PROVE Counted'
BY DEF Counted

LEMMA PutStepFits ==
    ASSUME NEW d \in Device
    PROVE  PutStep(d) \in {"wipe", "put"}
BY DEF PutStep

LEMMA TypeStartInit ==
    ASSUME TypeInv, NEW d \in Device, StartInit(d)
    PROVE  TypeInv'
<1>1. PICK fails \in Failures :
         /\ MayFail(d, fails) /\ ~Exists(d, fails) /\ NoteMisread(d, fails)
         /\ Spend({"init"} \cup Misread(fails))
         /\ Moves(d, PutStep(d),
                  [op |-> "init", rik |-> made, due |-> made, unreadable |-> fails])
  BY StartInitMoves
<1>2. made' = made + 1
  BY DEF StartInit
<1>3. Counted' /\ made \in Field /\ made' \in 0 .. Prime
  BY <1>1, <1>2, SpendingInit DEF TypeInv
<1> DEFINE w == [op |-> "init", rik |-> made, due |-> made, unreadable |-> fails]
<1>4. SecretWork(w) /\ w # NoWork
  BY <1>3 DEF SecretWork, NoWork
<1>5. /\ sealed' \in Nat /\ config' \in [Device -> BOOLEAN]
      /\ backup' \in [Device -> Field \cup {None}] /\ identity' \in [Device -> Field \cup {None}]
      /\ identity' = identity /\ now' = now /\ stores' = stores /\ bundle' = bundle
      /\ DOMAIN cache' = Device /\ DOMAIN before' = Device
  BY DEF StartInit, TypeInv, TypeOK, Shapes, secretVars, storeVars
<1>6. DOMAIN misread' = Device
  BY <1>1 DEF NoteMisread, TypeInv, Shapes
<1> HIDE DEF w
<1> QED BY <1>1, <1>3, <1>4, <1>5, <1>6, PutStepFits, TypeMove DEF w

LEMMA TypeStartRecover ==
    ASSUME TypeInv, NEW d \in Device, StartRecover(d)
    PROVE  TypeInv'
<1>1. PICK fails \in Failures : \E r \in Recoverable(d) :
         /\ MayFail(d, fails) /\ NoteMisread(d, fails)
         /\ Spend({"recover"} \cup Misread(fails))
         /\ Moves(d, IF Exists(d, fails) THEN "backup" ELSE PutStep(d),
                  [op |-> "recover", rik |-> r.rik, due |-> r.due, unreadable |-> fails])
  BY StartRecoverMoves, Zenon
<1>2. PICK r \in Recoverable(d) :
         /\ MayFail(d, fails) /\ NoteMisread(d, fails)
         /\ Spend({"recover"} \cup Misread(fails))
         /\ Moves(d, IF Exists(d, fails) THEN "backup" ELSE PutStep(d),
                  [op |-> "recover", rik |-> r.rik, due |-> r.due, unreadable |-> fails])
  BY <1>1, Zenon
<1>3. r.rik \in Field
  BY DEF Recoverable
<1>4. "init" \notin {"recover"} \cup Misread(fails) /\ made' = made
  BY DEF Misread, StartRecover
<1>5. Counted'
  BY <1>2, <1>4, Spending DEF TypeInv
<1> DEFINE w == [op |-> "recover", rik |-> r.rik, due |-> r.due, unreadable |-> fails]
           step == IF Exists(d, fails) THEN "backup" ELSE PutStep(d)
<1>6. SecretWork(w) /\ w # NoWork /\ Moves(d, step, w) /\ step \in {"backup", "wipe", "put"}
  BY <1>2, <1>3, PutStepFits DEF SecretWork, NoWork
<1>7. /\ sealed' \in Nat /\ config' \in [Device -> BOOLEAN] /\ made' \in 0 .. Prime
      /\ backup' \in [Device -> Field \cup {None}] /\ identity' \in [Device -> Field \cup {None}]
      /\ identity' = identity /\ now' = now /\ stores' = stores /\ bundle' = bundle
      /\ DOMAIN cache' = Device /\ DOMAIN before' = Device
  BY DEF StartRecover, TypeInv, TypeOK, Shapes, secretVars, storeVars
<1>8. DOMAIN misread' = Device
  BY <1>2 DEF NoteMisread, TypeInv, Shapes
<1> HIDE DEF w, step
<1> QED BY <1>5, <1>6, <1>7, <1>8, TypeMove

LEMMA TypeBackUp ==
    ASSUME TypeInv, NEW d \in Device, BackUpIdentity(d)
    PROVE  TypeInv'
<1>1. /\ UNCHANGED <<now, made, sealed, config, identity, bundle, cache, stores, before>>
      /\ SecretWork(work[d])
  BY DEF BackUpIdentity, storeVars, TypeInv, WorkFits
<1>2. /\ made' \in 0 .. Prime /\ sealed' \in Nat /\ config' \in [Device -> BOOLEAN]
      /\ identity' \in [Device -> Field \cup {None}]
      /\ DOMAIN cache' = Device /\ DOMAIN before' = Device
  BY <1>1 DEF TypeInv, TypeOK, Shapes
<1>3. CASE Moves(d, PutStep(d), work[d]) /\ BackUp(d) /\ UNCHANGED <<budget, misread>>
  <2>1. Counted' /\ DOMAIN misread' = Device
    BY <1>1, <1>3, CountedStays DEF TypeInv, Shapes
  <2>2. backup' \in [Device -> Field \cup {None}]
    BY <1>3 DEF BackUp, TypeInv, TypeOK
  <2>3. work[d] # NoWork
    BY <1>1 DEF SecretWork, NoWork
  <2> QED BY <1>1, <1>2, <1>3, <2>1, <2>2, <2>3, PutStepFits, TypeMove
<1>4. ASSUME NEW fails, NoteMisread(d, fails), Spend({"misread"}), UNCHANGED backup,
             Moves(d, PutStep(d), [op |-> work[d].op, rik |-> work[d].rik,
                                   due |-> work[d].due, unreadable |-> fails])
      PROVE  TypeInv'
  <2> DEFINE w == [op |-> work[d].op, rik |-> work[d].rik,
                   due |-> work[d].due, unreadable |-> fails]
  <2>1. SecretWork(w)
    <3>1. w.op = work[d].op /\ w.rik = work[d].rik /\ w.due = work[d].due
      OBVIOUS
    <3>2. w.unreadable = fails
      BY Zenon
    <3>3. w = [op |-> w.op, rik |-> w.rik, due |-> w.due, unreadable |-> w.unreadable]
      BY <3>1, <3>2, Zenon
    <3> HIDE DEF w
    <3> QED BY <1>1, <3>1, <3>3 DEF SecretWork
  <2>2. w # NoWork
    BY <1>1 DEF SecretWork, NoWork
  <2>3. Counted' /\ DOMAIN misread' = Device
    BY <1>1, <1>4, Spending DEF TypeInv, Shapes, NoteMisread
  <2>4. backup' \in [Device -> Field \cup {None}] /\ Moves(d, PutStep(d), w)
    BY <1>4 DEF TypeInv, TypeOK
  <2> HIDE DEF w
  <2> QED BY <1>1, <1>2, <2>1, <2>2, <2>3, <2>4, PutStepFits, TypeMove
<1> QED BY <1>3, <1>4, BackUpMoves, Zenon


LEMMA TypeIdentity ==
    ASSUME TypeInv, NEW d \in Device, WipeIdentity(d) \/ PutIdentity(d) \/ SaveConfig(d)
    PROVE  TypeInv'
<1>1. /\ UNCHANGED <<now, made, sealed, backup, bundle, cache, stores, before, misread, budget>>
      /\ SecretWork(work[d])
  BY DEF WipeIdentity, PutIdentity, SaveConfig, storeVars, pastVars, TypeInv, WorkFits
<1>2. /\ made' \in 0 .. Prime /\ sealed' \in Nat /\ backup' \in [Device -> Field \cup {None}]
      /\ DOMAIN cache' = Device /\ DOMAIN before' = Device /\ DOMAIN misread' = Device
      /\ Counted' /\ work[d] # NoWork
  BY <1>1, CountedStays DEF TypeInv, TypeOK, Shapes, SecretWork, NoWork
<1>3. /\ config' \in [Device -> BOOLEAN] /\ identity' \in [Device -> Field \cup {None}]
      /\ \A e \in Device \ {d} : identity'[e] = identity[e]
  BY <1>1 DEF WipeIdentity, PutIdentity, SaveConfig, TypeInv, TypeOK, SecretWork
<1>4. CASE Moves(d, "idle", NoWork)
  BY <1>1, <1>2, <1>3, <1>4, TypeMove
<1>5. CASE Moves(d, "config", work[d])
  BY <1>1, <1>2, <1>3, <1>5, TypeMove
<1>6. CASE WipeIdentity(d)
  <2>1. Moves(d, "put", work[d])
    BY <1>6, StaysMoves DEF WipeIdentity
  <2> QED BY <1>1, <1>2, <1>3, <2>1, TypeMove
<1>7. CASE SaveConfig(d)
  BY <1>4, <1>7, EndMoves DEF SaveConfig
<1>8. CASE PutIdentity(d)
  BY <1>4, <1>5, <1>8, PutMoves
<1> QED BY <1>6, <1>7, <1>8

LEMMA TypeSync ==
    ASSUME TypeInv, NEW d \in Device,
           StartSync(d) \/ PushManifest(d) \/ RefuseManifest(d) \/ SaveCache(d)
    PROVE  TypeInv'
<1>1. /\ UNCHANGED <<now, made, config, identity, backup, bundle, stores, before, misread>>
      /\ DOMAIN cache' = Device
  BY DEF StartSync, PushManifest, RefuseManifest, SaveCache, storeVars, secretVars, pastVars,
         TypeInv, Shapes
<1>2. /\ made' \in 0 .. Prime /\ config' \in [Device -> BOOLEAN]
      /\ backup' \in [Device -> Field \cup {None}] /\ identity' \in [Device -> Field \cup {None}]
      /\ DOMAIN before' = Device /\ DOMAIN misread' = Device
  BY <1>1 DEF TypeInv, TypeOK, Shapes
<1>3. Counted'
  <2>1. CASE StartSync(d)
    <3>1. Spend({"sync"}) /\ "init" \notin {"sync"}
      BY <2>1 DEF StartSync
    <3> QED BY <1>1, <3>1, Spending DEF TypeInv
  <2>2. CASE PushManifest(d) \/ RefuseManifest(d) \/ SaveCache(d)
    BY <1>1, <2>2, CountedStays DEF TypeInv, PushManifest, RefuseManifest, SaveCache
  <2> QED BY <2>1, <2>2
<1>4. sealed' \in Nat
  BY DEF StartSync, PushManifest, RefuseManifest, SaveCache, TypeInv, TypeOK
<1>5. CASE RefuseManifest(d) \/ SaveCache(d)
  <2>1. Moves(d, "idle", NoWork)
    BY <1>5, EndMoves DEF RefuseManifest, SaveCache
  <2> QED BY <1>1, <1>2, <1>3, <1>4, <2>1, TypeMove
<1>6. CASE StartSync(d)
  <2>1. PICK edited \in BOOLEAN : Moves(d, "push",
                [op |-> "sync", rik |-> identity[d], started |-> Clock(d),
                 version |-> cache[d].version, edited |-> edited,
                 file |-> IF edited THEN EditedEntry(d) ELSE cache[d].file])
    BY <1>6, StartSyncMoves
  <2> DEFINE f == IF edited THEN EditedEntry(d) ELSE cache[d].file
             v == cache[d].version
             t == Clock(d)
  <2> HIDE DEF f, v, t
  <2> DEFINE w == [op |-> "sync", rik |-> identity[d], started |-> t, version |-> v,
                   edited |-> edited, file |-> f]
  <2>2. Moves(d, "push", w)
    BY <2>1 DEF f, v, t
  <2>3. SyncWork(w) /\ w # NoWork /\ w.rik = identity[d]
    BY Zenon DEF SyncWork, NoWork
  <2> HIDE DEF w
  <2> QED BY <1>1, <1>2, <1>3, <1>4, <2>2, <2>3, TypeMove
<1>7. CASE PushManifest(d)
  <2>1. \E file, last :
           Moves(d, "save", [op |-> "sync", rik |-> work[d].rik, started |-> work[d].started,
                             version |-> last + 1, edited |-> work[d].edited, file |-> file])
    BY <1>7, PushMoves, Zenon
  <2>2. PICK file, last :
           Moves(d, "save", [op |-> "sync", rik |-> work[d].rik, started |-> work[d].started,
                             version |-> last + 1, edited |-> work[d].edited, file |-> file])
    BY <2>1
  <2> DEFINE w == [op |-> "sync", rik |-> work[d].rik, started |-> work[d].started,
                   version |-> last + 1, edited |-> work[d].edited, file |-> file]
  <2>3. SyncWork(w) /\ w # NoWork /\ w.rik = work[d].rik
    BY Zenon DEF SyncWork, NoWork
  <2>4. work[d].rik = identity[d]
    BY <1>7 DEF PushManifest, TypeInv, TypeOK
  <2>5. Moves(d, "save", w)
    BY <2>2
  <2> HIDE DEF w
  <2> QED BY <1>1, <1>2, <1>3, <1>4, <2>3, <2>4, <2>5, TypeMove
<1> QED BY <1>5, <1>6, <1>7

LEMMA TypeStop ==
    ASSUME TypeInv, NEW d \in Device, Stop(d)
    PROVE  TypeInv'
<1>1. UNCHANGED <<now, made, sealed, config, identity, backup, bundle, cache, stores,
                  before, misread>>
  BY DEF Stop, storeVars, secretVars, pastVars
<1>2. Moves(d, "idle", NoWork) /\ Spend({"crash"}) /\ "init" \notin {"crash"}
  BY EndMoves DEF Stop
<1>3. Counted'
  BY <1>1, <1>2, Spending DEF TypeInv
<1>4. /\ made' \in 0 .. Prime /\ sealed' \in Nat /\ config' \in [Device -> BOOLEAN]
      /\ backup' \in [Device -> Field \cup {None}] /\ identity' \in [Device -> Field \cup {None}]
      /\ DOMAIN cache' = Device /\ DOMAIN before' = Device /\ DOMAIN misread' = Device
  BY <1>1 DEF TypeInv, TypeOK, Shapes
<1> QED BY <1>1, <1>2, <1>3, <1>4, TypeMove

\* What happens outside the commands.
Elsewhere(d) ==
    \/ SetupBundle(d) \/ SetupShares(d) \/ CopyBundle(d) \/ RemoveCache(d) \/ RemoveIdentity(d)

LEMMA TypeOutside ==
    ASSUME TypeInv, \/ \E d \in Device : Elsewhere(d)
                    \/ PassTime \/ MoveStoreAside
    PROVE  TypeInv'
<1>1. /\ UNCHANGED <<pc, work, config, backup, made, misread>>
      /\ \A d \in Device : identity'[d] = identity[d] \/ pc[d] = "idle"
      /\ identity' \in [Device -> Field \cup {None}]
  BY DEF Elsewhere, SetupBundle, SetupShares, CopyBundle, RemoveCache, RemoveIdentity,
         PassTime, MoveStoreAside, secretVars, pastVars, TypeInv, TypeOK
<1>2. sealed' \in Nat /\ now' \in Nat /\ stores' \in Nat
  BY DEF Elsewhere, SetupBundle, SetupShares, CopyBundle, RemoveCache, RemoveIdentity,
         PassTime, MoveStoreAside, storeVars, TypeInv, TypeOK, Shapes
<1>3. DOMAIN bundle' = Device /\ DOMAIN cache' = Device /\ DOMAIN before' = Device
  BY DEF Elsewhere, SetupBundle, SetupShares, CopyBundle, RemoveCache, RemoveIdentity,
         PassTime, MoveStoreAside, secretVars, pastVars, TypeInv, Shapes
<1>4. \E events : Spend(events) /\ "init" \notin events
  <2>1. ASSUME NEW d \in Device, SetupBundle(d)
        PROVE  \E events : Spend(events) /\ "init" \notin events
    <3>1. PICK shown \in BOOLEAN : Spend({"setup"} \cup IF shown THEN {} ELSE {"crash"})
      BY <2>1 DEF SetupBundle
    <3>2. "init" \notin {"setup"} \cup IF shown THEN {} ELSE {"crash"}
      OBVIOUS
    <3> QED BY <3>1, <3>2, Zenon
  <2>2. ASSUME ~\E d \in Device : SetupBundle(d)
        PROVE  Spend({"setup"}) \/ Spend({"user"}) \/ Spend({"time"})
    BY <2>2 DEF Elsewhere, SetupShares, CopyBundle, RemoveCache, RemoveIdentity,
                PassTime, MoveStoreAside
  <2>3. "init" \notin {"setup"} /\ "init" \notin {"user"} /\ "init" \notin {"time"}
    OBVIOUS
  <2> QED BY <2>1, <2>2, <2>3, Zenon
<1>5. Counted'
  BY <1>1, <1>4, Spending DEF TypeInv
<1> QED BY <1>1, <1>2, <1>3, <1>5, TypeElsewhere

LEMMA TypeStep == TypeInv /\ [Next]_vars => TypeInv'
<1> SUFFICES ASSUME TypeInv, [Next]_vars PROVE TypeInv'
  OBVIOUS
<1>1. CASE UNCHANGED vars
  <2>1. UNCHANGED <<now, made, sealed, config, identity, backup, bundle, cache, stores,
                    pc, work, budget, before, misread>>
    BY <1>1 DEF vars, secretVars, storeVars, pastVars
  <2> QED BY <2>1 DEF TypeInv, TypeOK, Counted, Shapes, WorkFits
<1> QED BY <1>1, TypeStartInit, TypeStartRecover, TypeBackUp, TypeIdentity, TypeSync, TypeStop,
           TypeOutside, Zenon DEF Next, Elsewhere

LEMMA AlwaysTyped == Spec => []TypeInv
BY TypeInit, TypeStep, PTL DEF Spec

\* Whatever commands run, stop or fail on whichever devices: an identity is one
\* that init generated, no more of them than the field has, a command in progress
\* is one that holds something, and a sync keeps the identity it began with.
THEOREM LifeTypes == Spec => []TypeOK
<1>1. TypeInv => TypeOK
  BY DEF TypeInv
<1> QED BY <1>1, AlwaysTyped, PTL

-----------------------------------------------------------------------------
(* A replaced identity is kept                                               *)

\* The keystore has given out what was in it, or it is a damaged file, which is
\* not written.
Owed(d) == before[d] # None /\ ~misread[d]

\* The old RIK is not yet replaced, or backed up before: a keystore that deletes
\* an item before it adds the next one has the backup by then.
KeptOf(d) ==
    /\ pc[d] = "wipe" => Keystore[d] = "mac"
    /\ Owed(d) =>
          /\ before[d] \in {identity[d], backup[d]}
          /\ pc[d] = "backup" => before[d] = identity[d]
          /\ pc[d] = "wipe" => before[d] = backup[d]
          /\ pc[d] = "put" => \/ before[d] = backup[d]
                              \/ before[d] = identity[d] /\ work[d].unreadable = "damaged"

Kept == \A d \in Device : KeptOf(d)

LEMMA KeptInit == Init => Kept
BY DEF Init, Kept, KeptOf, Owed

\* The others are not concerned.
LEMMA KeptByOthers ==
    ASSUME Kept, NEW d \in Device, KeptOf(d)',
           \A e \in Device \ {d} :
              /\ pc'[e] = pc[e] /\ work'[e] = work[e] /\ identity'[e] = identity[e]
              /\ backup'[e] = backup[e] /\ before'[e] = before[e] /\ misread'[e] = misread[e]
    PROVE  Kept'
BY DEF Kept, KeptOf, Owed

LEMMA MisreadNoted ==
    ASSUME TypeInv, NEW d \in Device, NEW fails, NoteMisread(d, fails)
    PROVE  /\ misread'[d] <=> (misread[d] \/ fails = "once")
           /\ \A e \in Device \ {d} : misread'[e] = misread[e]
BY DEF NoteMisread, TypeInv, Shapes

\* The step of a command that begins, after an identity was found or not.
LEMMA KeptStarts ==
    ASSUME TypeInv, NEW d \in Device, StartInit(d) \/ StartRecover(d)
    PROVE  /\ KeptOf(d)'
           /\ \A e \in Device \ {d} :
                 pc'[e] = pc[e] /\ work'[e] = work[e] /\ misread'[e] = misread[e]
<1> DEFINE Starts(fails, w) ==
              /\ MayFail(d, fails) /\ NoteMisread(d, fails) /\ w.unreadable = fails
              /\ Moves(d, IF Exists(d, fails) THEN "backup" ELSE PutStep(d), w)
<1>1. \E fails \in Failures : \E w : Starts(fails, w)
  <2>1. CASE StartInit(d)
    <3>1. PICK fails \in Failures :
             /\ MayFail(d, fails) /\ ~Exists(d, fails) /\ NoteMisread(d, fails)
             /\ Moves(d, PutStep(d),
                      [op |-> "init", rik |-> made, due |-> made, unreadable |-> fails])
      BY <2>1, StartInitMoves
    <3> DEFINE w == [op |-> "init", rik |-> made, due |-> made, unreadable |-> fails]
    <3>2. w.unreadable = fails
      BY Zenon
    <3>3. Moves(d, IF Exists(d, fails) THEN "backup" ELSE PutStep(d), w)
      BY <3>1, Zenon
    <3> HIDE DEF w
    <3> QED BY <3>1, <3>2, <3>3, Zenon
  <2>2. CASE StartRecover(d)
    <3>1. PICK fails \in Failures : \E r \in Recoverable(d) :
             /\ MayFail(d, fails) /\ NoteMisread(d, fails)
             /\ Moves(d, IF Exists(d, fails) THEN "backup" ELSE PutStep(d),
                      [op |-> "recover", rik |-> r.rik, due |-> r.due, unreadable |-> fails])
      BY <2>2, StartRecoverMoves, Zenon
    <3>2. PICK r \in Recoverable(d) :
             Moves(d, IF Exists(d, fails) THEN "backup" ELSE PutStep(d),
                      [op |-> "recover", rik |-> r.rik, due |-> r.due, unreadable |-> fails])
      BY <3>1, Zenon
    <3> DEFINE w == [op |-> "recover", rik |-> r.rik, due |-> r.due, unreadable |-> fails]
    <3>3. w.unreadable = fails
      BY Zenon
    <3>4. Moves(d, IF Exists(d, fails) THEN "backup" ELSE PutStep(d), w)
      BY <3>2
    <3> HIDE DEF w
    <3> QED BY <3>1, <3>3, <3>4, Zenon
  <2> QED BY <2>1, <2>2
<1>2. PICK fails \in Failures : \E w : Starts(fails, w)
  BY <1>1, Zenon
<1>3. PICK w : Starts(fails, w)
  BY <1>2, Zenon
<1>4. /\ before'[d] = identity[d] /\ UNCHANGED <<identity, backup>>
  BY DEF StartInit, StartRecover, secretVars, TypeInv, Shapes
<1>5. /\ pc'[d] = IF Exists(d, fails) THEN "backup" ELSE PutStep(d)
      /\ work'[d] = w
      /\ \A e \in Device \ {d} : pc'[e] = pc[e] /\ work'[e] = work[e]
  BY <1>3, Moved
<1>6. /\ misread'[d] <=> (misread[d] \/ fails = "once")
      /\ \A e \in Device \ {d} : misread'[e] = misread[e]
  BY <1>3, MisreadNoted
<1>7. KeptOf(d)'
  <2>1. CASE Exists(d, fails)
    BY <1>4, <1>5, <2>1 DEF KeptOf, Owed
  <2>2. CASE ~Exists(d, fails) /\ Keystore[d] = "mac"
    BY <1>3, <1>4, <1>5, <1>6, <2>2 DEF KeptOf, Owed, Exists, PutStep, MayFail, Failures
  <2>3. CASE ~Exists(d, fails) /\ Keystore[d] # "mac"
    <3>1. pc'[d] = "put"
      BY <1>5, <2>3 DEF PutStep
    <3>2. Owed(d)' => fails = "damaged"
      BY <1>4, <1>6, <2>3 DEF Owed, Exists, Failures
    <3>3. Owed(d)' => work'[d].unreadable = "damaged"
      BY <1>3, <1>5, <3>2, Zenon
    <3> QED BY <1>4, <3>1, <3>3 DEF KeptOf
  <2> QED BY <2>1, <2>2, <2>3
<1> QED BY <1>5, <1>6, <1>7

LEMMA KeptStart ==
    ASSUME TypeInv, Kept, NEW d \in Device, StartInit(d) \/ StartRecover(d)
    PROVE  Kept'
<1>1. \A e \in Device \ {d} : before'[e] = before[e] /\ identity'[e] = identity[e]
                              /\ backup'[e] = backup[e]
  BY DEF StartInit, StartRecover, secretVars, TypeInv, Shapes
<1> QED BY <1>1, KeptStarts, KeptByOthers

LEMMA KeptBackUp ==
    ASSUME TypeInv, Kept, NEW d \in Device, BackUpIdentity(d)
    PROVE  Kept'
<1>1. pc[d] = "backup" /\ UNCHANGED <<identity, before>>
  BY DEF BackUpIdentity
<1>2. KeptOf(d)
  BY DEF Kept
<1>3. CASE Moves(d, PutStep(d), work[d]) /\ BackUp(d) /\ UNCHANGED <<budget, misread>>
  <2>1. /\ backup'[d] = identity[d] /\ \A e \in Device \ {d} : backup'[e] = backup[e]
    BY <1>3 DEF BackUp, TypeInv, TypeOK
  <2>2. /\ pc'[d] = PutStep(d)
        /\ \A e \in Device \ {d} : pc'[e] = pc[e] /\ work'[e] = work[e]
    BY <1>3, Moved
  <2>3. KeptOf(d)'
    BY <1>1, <1>2, <1>3, <2>1, <2>2 DEF KeptOf, Owed, PutStep
  <2> QED BY <1>1, <1>3, <2>1, <2>2, <2>3, KeptByOthers
<1>4. ASSUME NEW fails \in Failures \ {"no"}, MayFail(d, fails), NoteMisread(d, fails),
             NEW w, w.unreadable = fails, Moves(d, PutStep(d), w), UNCHANGED backup
      PROVE  Kept'
  <2>1. /\ pc'[d] = PutStep(d) /\ work'[d] = w
        /\ \A e \in Device \ {d} : pc'[e] = pc[e] /\ work'[e] = work[e]
    BY <1>4, Moved
  <2>2. /\ misread'[d] <=> (misread[d] \/ fails = "once")
        /\ \A e \in Device \ {d} : misread'[e] = misread[e]
    BY <1>4, MisreadNoted
  <2>3. fails = "once" \/ (fails = "damaged" /\ Keystore[d] = "file")
    BY <1>4 DEF Failures, MayFail
  <2>4. KeptOf(d)'
    BY <1>1, <1>2, <1>4, <2>1, <2>2, <2>3 DEF KeptOf, Owed, PutStep
  <2> QED BY <1>1, <1>4, <2>1, <2>2, <2>4, KeptByOthers
<1>5. ASSUME NEW fails \in Failures \ {"no"}, MayFail(d, fails), NoteMisread(d, fails),
             Moves(d, PutStep(d), [op |-> work[d].op, rik |-> work[d].rik,
                                   due |-> work[d].due, unreadable |-> fails]),
             UNCHANGED backup
      PROVE  Kept'
  <2> DEFINE w == [op |-> work[d].op, rik |-> work[d].rik,
                   due |-> work[d].due, unreadable |-> fails]
  <2>1. w.unreadable = fails
    BY Zenon
  <2>2. Moves(d, PutStep(d), w)
    BY <1>5
  <2> HIDE DEF w
  <2> QED BY <1>4, <1>5, <2>1, <2>2
<1> QED BY <1>3, <1>5, BackUpMoves, Zenon

LEMMA KeptIdentity ==
    ASSUME TypeInv, Kept, NEW d \in Device, WipeIdentity(d) \/ PutIdentity(d)
    PROVE  Kept'
<1>1. /\ UNCHANGED <<backup, before, misread>> /\ KeptOf(d)
      /\ \A e \in Device \ {d} : identity'[e] = identity[e]
  BY DEF WipeIdentity, PutIdentity, pastVars, Kept, TypeInv, TypeOK
<1>2. CASE WipeIdentity(d)
  <2>1. pc[d] = "wipe" /\ Moves(d, "put", work[d])
    BY <1>2, StaysMoves DEF WipeIdentity
  <2>2. /\ pc'[d] = "put" /\ \A e \in Device \ {d} : pc'[e] = pc[e] /\ work'[e] = work[e]
    BY <2>1, Moved
  <2>3. KeptOf(d)'
    BY <1>1, <2>1, <2>2 DEF KeptOf, Owed
  <2> QED BY <1>1, <2>2, <2>3, KeptByOthers
<1>3. ASSUME NEW step \in {"idle", "config"}, NEW w, Moves(d, step, w),
             \/ identity' = identity
             \/ work[d].unreadable # "damaged",
             pc[d] = "put"
      PROVE  Kept'
  <2>1. /\ pc'[d] = step /\ \A e \in Device \ {d} : pc'[e] = pc[e] /\ work'[e] = work[e]
    BY <1>3, Moved
  <2>2. KeptOf(d)'
    BY <1>1, <1>3, <2>1 DEF KeptOf, Owed
  <2> QED BY <1>1, <2>1, <2>2, KeptByOthers
<1>4. CASE PutIdentity(d)
  <2>1. pc[d] = "put"
    BY <1>4 DEF PutIdentity
  <2> QED BY <1>3, <1>4, <2>1, PutMoves
<1> QED BY <1>2, <1>4

LEMMA KeptQuiet ==
    ASSUME TypeInv, Kept, NEW d \in Device,
           \/ SaveConfig(d) \/ StartSync(d) \/ PushManifest(d) \/ RefuseManifest(d)
           \/ SaveCache(d) \/ Stop(d)
    PROVE  Kept'
<1>1. UNCHANGED <<identity, backup, before, misread>>
  BY DEF SaveConfig, StartSync, PushManifest, RefuseManifest, SaveCache, Stop, secretVars, pastVars
<1>2. \E step \in {"idle", "push", "save"} : \E w : Moves(d, step, w)
  BY StartSyncMoves, PushMoves, EndMoves, Zenon
     DEF SaveConfig, RefuseManifest, SaveCache, Stop
<1>3. PICK step \in {"idle", "push", "save"} : \E w : Moves(d, step, w)
  BY <1>2, Zenon
<1>4. /\ pc'[d] = step /\ \A e \in Device \ {d} : pc'[e] = pc[e] /\ work'[e] = work[e]
  BY <1>3, Moved
<1>5. KeptOf(d)'
  BY <1>1, <1>4 DEF Kept, KeptOf, Owed
<1> QED BY <1>1, <1>4, <1>5, KeptByOthers

LEMMA KeptOutside ==
    ASSUME TypeInv, Kept, (\E d \in Device : Elsewhere(d)) \/ PassTime \/ MoveStoreAside
    PROVE  Kept'
<1>1. UNCHANGED <<pc, work, backup, misread>>
  BY DEF Elsewhere, SetupBundle, SetupShares, CopyBundle, RemoveCache, RemoveIdentity,
         PassTime, MoveStoreAside, secretVars, pastVars
<1>2. \/ UNCHANGED <<identity, before>>
      \/ \E d \in Device : /\ before'[d] = None
                           /\ \A e \in Device \ {d} :
                                 identity'[e] = identity[e] /\ before'[e] = before[e]
                           /\ pc[d] = "idle"
  BY DEF Elsewhere, SetupBundle, SetupShares, CopyBundle, RemoveCache, RemoveIdentity,
         PassTime, MoveStoreAside, secretVars, pastVars, TypeInv, TypeOK, Shapes
<1> QED BY <1>1, <1>2 DEF Kept, KeptOf, Owed

LEMMA KeptStep == TypeInv /\ Kept /\ [Next]_vars => Kept'
<1> SUFFICES ASSUME TypeInv, Kept, [Next]_vars PROVE Kept'
  OBVIOUS
<1>1. CASE UNCHANGED vars
  <2>1. UNCHANGED <<identity, backup, before, misread, pc, work>>
    BY <1>1 DEF vars, secretVars, pastVars
  <2> QED BY <2>1 DEF Kept, KeptOf, Owed
<1> QED BY <1>1, KeptStart, KeptBackUp, KeptIdentity, KeptQuiet, KeptOutside, Zenon
        DEF Next, Elsewhere

\* Wherever init and recover stop, the RIK that a device had before is in its
\* keystore or in the backup, unless the keystore failed to give it out and took
\* the next one all the same: a backup is made before the item is wiped or
\* replaced, and a damaged file is not written.
THEOREM OldIdentityIsKept == Spec => []ReplacedIsKept
<1>1. Init => TypeInv /\ Kept
  BY TypeInit, KeptInit
<1>2. TypeInv /\ Kept /\ [Next]_vars => (TypeInv /\ Kept)'
  BY TypeStep, KeptStep
<1>3. Kept => ReplacedIsKept
  BY DEF Kept, KeptOf, Owed, ReplacedIsKept
<1> QED BY <1>1, <1>2, <1>3, PTL DEF Spec

-----------------------------------------------------------------------------
(* Who opens what                                                            *)

\* A content sealed as version v of the file, for the vault of rik.
Sealing(v, rik, fresh) == Seal("content", FileAad(v), RecipientKeys(rik), fresh)

LEMMA SealingIs ==
    ASSUME NEW v, NEW rik, NEW fresh
    PROVE  LET b == Sealing(v, rik, fresh)
           IN  /\ b.header.dek = fresh /\ b.body.under = fresh
               /\ b.header.aad = <<"file", v>>
               /\ CanOpen(b.header, b.body, FileAad(v), RecipientKeys(rik))
BY DEF Sealing, Seal, CanOpen, WrapKey, AadBytes, FileAad

\* No two blobs were sealed under one key.
SealedOnce ==
    /\ \A b \in blobs : b.header.dek = b.body.under /\ b.body.under \in 0 .. sealed - 1
    /\ \A a, b \in blobs : a.body.under = b.body.under => a = b

LEMMA EditedBlob ==
    ASSUME NEW d \in Device
    PROVE  /\ EditedEntry(d).blob = Sealing(EditedEntry(d).version, identity[d], sealed)
           /\ EditedEntry(d).store = stores
BY DEF EditedEntry, Sealing, Keys

LEMMA SealedInit == Init => SealedOnce
BY DEF Init, SealedOnce

\* What a step may do to the blobs.
LEMMA BlobsStep ==
    ASSUME TypeInv, [Next]_vars
    PROVE  /\ sealed \in Nat /\ sealed' \in Nat /\ sealed <= sealed'
           /\ \/ UNCHANGED <<blobs, stores>>
              \/ blobs' = {} /\ stores' = stores + 1
              \/ \E d \in Device : /\ StartSync(d) /\ sealed' = sealed + 1 /\ stores' = stores
                                   /\ blobs' = blobs \cup {EditedEntry(d).blob}
<1>1. sealed \in Nat
  BY DEF TypeInv, TypeOK
<1>2. ASSUME NEW d \in Device, StartSync(d)
      PROVE  /\ stores' = stores
             /\ \/ blobs' = blobs /\ sealed' \in {sealed, sealed + 1}
                \/ sealed' = sealed + 1 /\ blobs' = blobs \cup {EditedEntry(d).blob}
  BY <1>2, StartSyncMoves DEF StartSync
<1>3. ASSUME NEW d \in Device, PushManifest(d) \/ SetupBundle(d)
      PROVE  UNCHANGED <<blobs, stores>> /\ sealed' = sealed + 1
  BY <1>3 DEF PushManifest, SetupBundle, storeVars
<1>4. CASE MoveStoreAside
  BY <1>1, <1>4 DEF MoveStoreAside
<1>5. CASE UNCHANGED vars
  BY <1>1, <1>5 DEF vars, storeVars
<1>6. ASSUME NEW d \in Device,
             \/ StartInit(d) \/ SaveConfig(d) \/ SetupShares(d) \/ StartRecover(d)
             \/ BackUpIdentity(d) \/ WipeIdentity(d) \/ PutIdentity(d)
      PROVE  UNCHANGED <<blobs, stores>> /\ sealed' = sealed
  BY <1>6 DEF StartInit, SaveConfig, SetupShares, StartRecover, BackUpIdentity, WipeIdentity,
              PutIdentity, storeVars
<1>7. ASSUME NEW d \in Device,
             \/ RefuseManifest(d) \/ SaveCache(d) \/ Stop(d) \/ CopyBundle(d)
             \/ RemoveCache(d) \/ RemoveIdentity(d)
      PROVE  UNCHANGED <<blobs, stores>> /\ sealed' = sealed
  BY <1>7 DEF RefuseManifest, SaveCache, Stop, CopyBundle, RemoveCache, RemoveIdentity, storeVars
<1>8. CASE PassTime
  BY <1>1, <1>8 DEF PassTime, storeVars
<1>9. \/ \E d \in Device : StartSync(d)
      \/ \E d \in Device : PushManifest(d) \/ SetupBundle(d)
      \/ UNCHANGED <<blobs, stores>> /\ sealed' = sealed
      \/ MoveStoreAside
  BY <1>5, <1>6, <1>7, <1>8, Zenon DEF Next, vars, storeVars, PassTime
<1> QED BY <1>1, <1>2, <1>3, <1>4, <1>9

LEMMA SealedStep == TypeInv /\ SealedOnce /\ [Next]_vars => SealedOnce'
<1> SUFFICES ASSUME TypeInv, SealedOnce, [Next]_vars PROVE SealedOnce'
  OBVIOUS
<1>1. sealed \in Nat /\ sealed' \in Nat /\ sealed <= sealed'
  BY BlobsStep
<1>2. CASE blobs' \subseteq blobs
  BY <1>1, <1>2 DEF SealedOnce
<1>3. ASSUME NEW d \in Device, sealed' = sealed + 1, blobs' = blobs \cup {EditedEntry(d).blob}
      PROVE  SealedOnce'
  <2> DEFINE b == EditedEntry(d).blob
  <2>1. b.header.dek = sealed /\ b.body.under = sealed
    BY EditedBlob, SealingIs
  <2> HIDE DEF b
  <2>2. blobs' = blobs \cup {b}
    BY <1>3 DEF b
  <2>3. \A a \in blobs : a.body.under # sealed
    BY <1>1 DEF SealedOnce
  <2> QED BY <1>1, <1>3, <2>1, <2>2, <2>3 DEF SealedOnce
<1> QED BY <1>2, <1>3, BlobsStep

\* A header put before the body of another blob, or a blob put in the place of
\* another version, opens nowhere: every body is sealed under a key of its own,
\* and with its header.
THEOREM OnlyItsOwnHeaderOpens == Spec => []OpensOnlyAsSealed
<1>1. Init => TypeInv /\ SealedOnce
  BY TypeInit, SealedInit
<1>2. TypeInv /\ SealedOnce /\ [Next]_vars => (TypeInv /\ SealedOnce)'
  BY TypeStep, SealedStep
<1>3. SealedOnce => OpensOnlyAsSealed
  <2> SUFFICES ASSUME SealedOnce, NEW d \in Device, NEW a \in blobs, NEW b \in blobs, NEW v,
                      CanOpen(a.header, b.body, FileAad(v), Keys(d))
               PROVE  a = b /\ a.header.aad = <<"file", v>>
    BY DEF OpensOnlyAsSealed
  <2>1. b.body.under = a.header.dek /\ a.header.aad = <<"file", v>>
    BY DEF CanOpen, AadBytes, FileAad
  <2> QED BY <2>1 DEF SealedOnce
<1> QED BY <1>1, <1>2, <1>3, PTL DEF Spec

-----------------------------------------------------------------------------
(* What is published, and for whom                                           *)

\* Of a step, only a push changes the manifest, or a store that is moved aside.
LEMMA ManifestStep ==
    ASSUME [Next]_vars, manifest' # manifest
    PROVE  (\E d \in Device : PushManifest(d)) \/ manifest' = NoManifest
<1>1. ASSUME NEW d \in Device,
             \/ StartInit(d) \/ SaveConfig(d) \/ SetupBundle(d) \/ SetupShares(d)
             \/ StartRecover(d) \/ BackUpIdentity(d) \/ WipeIdentity(d) \/ PutIdentity(d)
      PROVE  manifest' = manifest
  BY <1>1 DEF StartInit, SaveConfig, SetupBundle, SetupShares, StartRecover, BackUpIdentity,
              WipeIdentity, PutIdentity, storeVars
<1>2. ASSUME NEW d \in Device,
             \/ StartSync(d) \/ RefuseManifest(d) \/ SaveCache(d) \/ Stop(d) \/ CopyBundle(d)
             \/ RemoveCache(d) \/ RemoveIdentity(d)
      PROVE  manifest' = manifest
  BY <1>2 DEF StartSync, RefuseManifest, SaveCache, Stop, CopyBundle, RemoveCache,
              RemoveIdentity, storeVars
<1> QED BY <1>1, <1>2, Zenon DEF Next, PassTime, MoveStoreAside, vars, storeVars

LEMMA PushSigns ==
    ASSUME NEW d \in Device, PushManifest(d)
    PROVE  /\ manifest'.signer = identity[d]
           /\ manifest # NoManifest => manifest.signer = identity[d]
BY DEF PushManifest, SealManifest, Proceeds, Accepts

\* No command that a user can give lets one vault take the store of another over:
\* a push signs as the device that has fetched, and a device fetches only what its
\* own vault has signed.
THEOREM StoresKeepTheirVault == Spec => StoreKeepsItsVault
<1>1. [Next]_vars => (manifest # NoManifest /\ manifest' # NoManifest
                      => manifest'.signer = manifest.signer)
  BY ManifestStep, PushSigns
<1>2. [][Next]_vars => [][manifest # NoManifest /\ manifest' # NoManifest
                          => manifest'.signer = manifest.signer]_vars
  BY <1>1, PTL
<1> QED BY <1>2 DEF Spec, StoreKeepsItsVault

-----------------------------------------------------------------------------
(* Whoever has the key reads what is published                               *)

\* An entry of the file: a version sealed for the vault of rik, on the store as
\* long as that is the one it was uploaded to.
SealedFor(f, rik) ==
    f # NoFile =>
        /\ f.store \in 0 .. stores
        /\ f.store = stores => f.blob \in blobs
        /\ \E fresh : f.blob = Sealing(f.version, rik, fresh)

\* Wherever an entry is kept or passed on, it belongs to the vault of those who
\* hold it.
EntriesFit ==
    /\ \A d \in Device : SealedFor(cache[d].file, cache[d].vault)
    /\ \A d \in Device : pc[d] \in {"push", "save"} => SealedFor(work[d].file, work[d].rik)
    /\ manifest # NoManifest => SealedFor(manifest.envelope.body.text.file, manifest.signer)

LEMMA EntriesInit == Init => EntriesFit
BY DEF Init, EntriesFit, SealedFor, NoCache

\* The same after a step.
SealedNext(f, rik) ==
    f # NoFile =>
        /\ f.store \in 0 .. stores'
        /\ f.store = stores' => f.blob \in blobs'
        /\ \E fresh : f.blob = Sealing(f.version, rik, fresh)

\* No step makes an entry unreadable: blobs are lost only with their store.
LEMMA SealedStays ==
    ASSUME TypeInv, [Next]_vars, NEW f, NEW rik, SealedFor(f, rik)
    PROVE  SealedNext(f, rik)
<1>1. stores \in Nat
  BY DEF TypeInv, Shapes
<1>2. CASE blobs \subseteq blobs' /\ stores' = stores
  BY <1>2 DEF SealedFor, SealedNext
<1>3. CASE stores' = stores + 1
  BY <1>1, <1>3 DEF SealedFor, SealedNext
<1> QED BY <1>2, <1>3, BlobsStep

\* Only a sync that begins or pushes has an entry that it did not have before.
LEMMA SyncsGoOn ==
    ASSUME TypeInv, [Next]_vars, NEW d \in Device, pc'[d] \in {"push", "save"}
    PROVE  \/ StartSync(d) \/ PushManifest(d)
           \/ pc'[d] = pc[d] /\ work'[d] = work[d]
<1>1. ASSUME NEW e \in Device, NEW step, NEW w, Moves(e, step, w),
             e # d \/ step \notin {"push", "save"}
      PROVE  pc'[d] = pc[d] /\ work'[d] = work[d]
  BY <1>1, Moved
<1>2. ASSUME NEW e \in Device, StartSync(e) \/ PushManifest(e), e # d
      PROVE  \E step, w : Moves(e, step, w)
  BY <1>2, StartSyncMoves, PushMoves, Zenon
<1>3. ASSUME NEW e \in Device, StartInit(e) \/ StartRecover(e)
      PROVE  \E w : Moves(e, "backup", w) \/ Moves(e, PutStep(e), w)
  <2>1. CASE StartInit(e)
    BY <2>1, StartInitMoves, Zenon
  <2>2. CASE StartRecover(e)
    <3>1. PICK fails \in Failures : \E r \in Recoverable(e) :
             Moves(e, IF Exists(e, fails) THEN "backup" ELSE PutStep(e),
                   [op |-> "recover", rik |-> r.rik, due |-> r.due, unreadable |-> fails])
      BY <2>2, StartRecoverMoves, Zenon
    <3> QED BY <3>1, Zenon
  <2> QED BY <1>3, <2>1, <2>2
<1>4. ASSUME NEW e \in Device, BackUpIdentity(e) PROVE \E w : Moves(e, PutStep(e), w)
  BY <1>4, BackUpMoves, Zenon
<1>5. ASSUME NEW e \in Device, WipeIdentity(e) \/ PutIdentity(e)
      PROVE  \E w : Moves(e, "put", w) \/ Moves(e, "idle", w) \/ Moves(e, "config", w)
  BY <1>5, StaysMoves, PutMoves, Zenon DEF WipeIdentity
<1>6. ASSUME NEW e \in Device, SaveConfig(e) \/ RefuseManifest(e) \/ SaveCache(e) \/ Stop(e)
      PROVE  Moves(e, "idle", NoWork)
  BY <1>6, EndMoves DEF SaveConfig, RefuseManifest, SaveCache, Stop
<1>7. ASSUME \/ \E e \in Device : Elsewhere(e)
             \/ PassTime \/ MoveStoreAside \/ UNCHANGED vars
      PROVE  pc' = pc /\ work' = work
  BY <1>7 DEF Elsewhere, SetupBundle, SetupShares, CopyBundle, RemoveCache, RemoveIdentity,
         PassTime, MoveStoreAside, vars
<1>8. ASSUME NEW e \in Device,
             \/ StartInit(e) \/ StartRecover(e) \/ BackUpIdentity(e) \/ WipeIdentity(e)
             \/ PutIdentity(e) \/ SaveConfig(e) \/ RefuseManifest(e) \/ SaveCache(e) \/ Stop(e)
      PROVE  pc'[d] = pc[d] /\ work'[d] = work[d]
  <2>1. \E step \in {"backup", "wipe", "put", "idle", "config"} : \E w : Moves(e, step, w)
    BY <1>3, <1>4, <1>5, <1>6, <1>8, PutStepFits
  <2> QED BY <1>1, <2>1
<1> QED BY <1>1, <1>2, <1>7, <1>8, Zenon DEF Next, Elsewhere

\* Only a saved cache and a removed one are not what they were.
LEMMA CachesStay ==
    ASSUME TypeInv, [Next]_vars, NEW d \in Device
    PROVE  \/ cache'[d] = cache[d] \/ cache'[d] = NoCache
           \/ /\ pc[d] = "save" /\ cache'[d].vault = work[d].rik
              /\ cache'[d].file = work[d].file
<1>1. ASSUME NEW e \in Device,
             \/ StartInit(e) \/ SaveConfig(e) \/ SetupBundle(e) \/ SetupShares(e)
             \/ StartRecover(e) \/ BackUpIdentity(e) \/ WipeIdentity(e) \/ PutIdentity(e)
      PROVE  cache' = cache
  BY <1>1 DEF StartInit, SaveConfig, SetupBundle, SetupShares, StartRecover, BackUpIdentity,
              WipeIdentity, PutIdentity
<1>2. ASSUME NEW e \in Device,
             \/ StartSync(e) \/ PushManifest(e) \/ RefuseManifest(e) \/ Stop(e) \/ CopyBundle(e)
             \/ RemoveIdentity(e)
      PROVE  cache' = cache
  BY <1>2 DEF StartSync, PushManifest, RefuseManifest, Stop, CopyBundle, RemoveIdentity
<1>3. ASSUME NEW e \in Device, RemoveCache(e)
      PROVE  cache'[d] = cache[d] \/ cache'[d] = NoCache
  BY <1>3 DEF RemoveCache, TypeInv, Shapes
<1>4. ASSUME NEW e \in Device, SaveCache(e)
      PROVE  \/ cache'[d] = cache[d]
             \/ /\ pc[d] = "save" /\ cache'[d].vault = work[d].rik
                /\ cache'[d].file = work[d].file
  BY <1>4 DEF SaveCache, TypeInv, Shapes
<1>5. PassTime \/ MoveStoreAside \/ UNCHANGED vars => cache' = cache
  BY DEF PassTime, MoveStoreAside, vars
<1> QED BY <1>1, <1>2, <1>3, <1>4, <1>5, Zenon DEF Next

\* A sync begins with the entry of its cache, which is of its vault, or with one
\* that it has just sealed and uploaded.
LEMMA SyncStartsSealed ==
    ASSUME TypeInv, EntriesFit, NEW d \in Device, StartSync(d)
    PROVE  SealedNext(work'[d].file, work'[d].rik)
<1>1. PICK edited \in BOOLEAN :
         /\ Moves(d, "push",
               [op |-> "sync", rik |-> identity[d], started |-> Clock(d),
                version |-> cache[d].version, edited |-> edited,
                file |-> IF edited THEN EditedEntry(d) ELSE cache[d].file])
         /\ blobs' = IF edited THEN blobs \cup {EditedEntry(d).blob} ELSE blobs
  BY StartSyncMoves
<1>2. /\ work'[d].rik = identity[d]
      /\ work'[d].file = IF edited THEN EditedEntry(d) ELSE cache[d].file
  BY <1>1, Moved
<1>3. CacheFits(d) /\ stores' = stores /\ stores \in Nat
  BY DEF StartSync, TypeInv, Shapes
<1>4. CASE edited
  <2> DEFINE f == EditedEntry(d)
  <2>1. f.blob = Sealing(f.version, identity[d], sealed) /\ f.store = stores /\ f.blob \in blobs'
    BY <1>1, <1>4, EditedBlob
  <2>2. work'[d].file = f
    BY <1>2, <1>4
  <2> HIDE DEF f
  <2> QED BY <1>2, <1>3, <2>1, <2>2 DEF SealedNext
<1>5. CASE ~edited
  <2>1. work'[d].file = cache[d].file /\ blobs' = blobs
    BY <1>1, <1>2, <1>5
  <2>2. cache[d].file = NoFile \/ SealedFor(cache[d].file, identity[d])
    BY <1>3 DEF CacheFits, EntriesFit, NoCache
  <2> QED BY <1>2, <1>3, <2>1, <2>2 DEF SealedFor, SealedNext
<1> QED BY <1>4, <1>5

\* What a sync pushes is its own entry or the one it has fetched, and a manifest
\* that it accepts is of its own vault.
LEMMA PushesSealed ==
    ASSUME TypeInv, EntriesFit, NEW d \in Device, PushManifest(d)
    PROVE  /\ SealedNext(work'[d].file, work'[d].rik)
           /\ SealedNext(manifest'.envelope.body.text.file, manifest'.signer)
<1>1. PICK file \in Merged(d) : \E last :
         /\ manifest' = SealManifest(d, [version |-> last + 1, file |-> file])
         /\ Moves(d, "save", [op |-> "sync", rik |-> work[d].rik, started |-> work[d].started,
                              version |-> last + 1, edited |-> work[d].edited, file |-> file])
  BY PushMoves
<1>2. /\ work'[d].rik = work[d].rik /\ work'[d].file = file
      /\ manifest'.envelope.body.text.file = file /\ manifest'.signer = identity[d]
  BY <1>1, Moved DEF SealManifest, Seal
<1>3. work[d].rik = identity[d] /\ SealedFor(work[d].file, identity[d])
  BY DEF PushManifest, TypeInv, TypeOK, EntriesFit
<1>4. Fetched(d).file = NoFile \/ SealedFor(Fetched(d).file, identity[d])
  BY PushSigns DEF Fetched, EntriesFit
<1>5. file \in {work[d].file, Fetched(d).file}
  BY <1>1 DEF Merged
<1>6. UNCHANGED <<blobs, stores>>
  BY DEF PushManifest
<1>7. SealedNext(file, identity[d])
  BY <1>3, <1>4, <1>5, <1>6 DEF SealedFor, SealedNext
<1> QED BY <1>2, <1>3, <1>7

LEMMA EntriesStep == TypeInv /\ EntriesFit /\ [Next]_vars => EntriesFit'
<1> SUFFICES ASSUME TypeInv, EntriesFit, [Next]_vars PROVE EntriesFit'
  OBVIOUS
<1>1. ASSUME NEW d \in Device PROVE SealedNext(cache'[d].file, cache'[d].vault)
  <2>1. CASE cache'[d] = NoCache
    BY <2>1 DEF NoCache, SealedNext
  <2>2. CASE cache'[d] = cache[d]
    BY <2>2, SealedStays DEF EntriesFit
  <2>3. CASE pc[d] = "save" /\ cache'[d].vault = work[d].rik /\ cache'[d].file = work[d].file
    BY <2>3, SealedStays DEF EntriesFit
  <2> QED BY <2>1, <2>2, <2>3, CachesStay
<1>2. ASSUME NEW d \in Device, pc'[d] \in {"push", "save"}
      PROVE  SealedNext(work'[d].file, work'[d].rik)
  <2>1. CASE pc'[d] = pc[d] /\ work'[d] = work[d]
    BY <1>2, <2>1, SealedStays DEF EntriesFit
  <2> QED BY <1>2, <2>1, SyncsGoOn, SyncStartsSealed, PushesSealed
<1>3. ASSUME manifest' # NoManifest
      PROVE  SealedNext(manifest'.envelope.body.text.file, manifest'.signer)
  <2>1. CASE manifest' = manifest
    BY <1>3, <2>1, SealedStays DEF EntriesFit
  <2> QED BY <1>3, <2>1, ManifestStep, PushesSealed
<1> QED BY <1>1, <1>2, <1>3 DEF EntriesFit, SealedFor, SealedNext

\* Init or recovery, old stores, caches of other vaults and stopped commands: who
\* holds the RIK of the vault finds each blob that the manifest names on the store
\* it was uploaded to, and opens it.
THEOREM VaultStaysReadable == Spec => []VaultIsReadable
<1>1. Init => TypeInv /\ EntriesFit
  BY TypeInit, EntriesInit
<1>2. TypeInv /\ EntriesFit /\ [Next]_vars => (TypeInv /\ EntriesFit)'
  BY TypeStep, EntriesStep
<1>3. EntriesFit => VaultIsReadable
  <2> SUFFICES ASSUME EntriesFit, NEW d \in Device, manifest # NoManifest,
                      identity[d] = manifest.signer, Fetched(d).file # NoFile,
                      Fetched(d).file.store = stores
               PROVE  LET f == Fetched(d).file
                      IN  /\ f.blob \in blobs
                          /\ CanOpen(f.blob.header, f.blob.body, FileAad(f.version), Keys(d))
    BY DEF VaultIsReadable
  <2> DEFINE f == Fetched(d).file
  <2>1. SealedFor(f, identity[d])
    BY DEF EntriesFit, Fetched
  <2>2. PICK fresh : f.blob = Sealing(f.version, identity[d], fresh) /\ f.blob \in blobs
    BY <2>1 DEF SealedFor
  <2> HIDE DEF f
  <2>3. CanOpen(f.blob.header, f.blob.body, FileAad(f.version), Keys(d))
    BY <2>2, SealingIs DEF Keys
  <2> QED BY <2>2, <2>3 DEF f
<1> QED BY <1>1, <1>2, <1>3, PTL DEF Spec

-----------------------------------------------------------------------------
(* Whoever has the key accepts what is published                             *)

\* Time passes, on every clock alike.
LEMMA TimePasses ==
    ASSUME TypeInv, [Next]_vars
    PROVE  now' \in Nat /\ now <= now'
<1>1. ASSUME NEW d \in Device,
             \/ StartInit(d) \/ SaveConfig(d) \/ SetupBundle(d) \/ SetupShares(d)
             \/ StartRecover(d) \/ BackUpIdentity(d) \/ WipeIdentity(d) \/ PutIdentity(d)
      PROVE  now' = now
  BY <1>1 DEF StartInit, SaveConfig, SetupBundle, SetupShares, StartRecover, BackUpIdentity,
              WipeIdentity, PutIdentity
<1>2. ASSUME NEW d \in Device,
             \/ StartSync(d) \/ PushManifest(d) \/ RefuseManifest(d) \/ SaveCache(d) \/ Stop(d)
             \/ CopyBundle(d) \/ RemoveCache(d) \/ RemoveIdentity(d)
      PROVE  now' = now
  BY <1>2 DEF StartSync, PushManifest, RefuseManifest, SaveCache, Stop, CopyBundle, RemoveCache,
              RemoveIdentity
<1>3. MoveStoreAside \/ UNCHANGED vars => now' = now
  BY DEF MoveStoreAside, vars
<1>4. now' = now \/ now' = now + 1
  BY <1>1, <1>2, <1>3, Zenon DEF Next, PassTime
<1> QED BY <1>4 DEF TypeInv, Shapes

\* A sync was started at a time that is past.
Dated ==
    \A d \in Device : pc[d] \in {"push", "save"} => /\ work[d].started \in Nat
                                                    /\ work[d].started <= Clock(d)

LEMMA DatedInit == Init => Dated
BY DEF Init, Dated

LEMMA DatedStep == TypeInv /\ Dated /\ [Next]_vars => Dated'
<1> SUFFICES ASSUME TypeInv, Dated, [Next]_vars,
                    NEW d \in Device, pc'[d] \in {"push", "save"}
             PROVE  work'[d].started \in Nat /\ work'[d].started <= Clock(d)'
  BY DEF Dated
<1>1. /\ now \in Nat /\ now' \in Nat /\ now <= now' /\ Skew[d] \in Nat
      /\ Clock(d) = now + Skew[d] /\ Clock(d)' = now' + Skew[d]
  BY TimePasses, DeviceAssumption DEF Clock, TypeInv, Shapes
<1>2. CASE StartSync(d)
  <2> DEFINE t == Clock(d)
  <2> HIDE DEF t
  <2>1. \E version, edited, file :
           Moves(d, "push", [op |-> "sync", rik |-> identity[d], started |-> t,
                             version |-> version, edited |-> edited, file |-> file])
    BY <1>2, StartSyncMoves, Zenon DEF t
  <2>2. PICK version, edited, file :
           Moves(d, "push", [op |-> "sync", rik |-> identity[d], started |-> t,
                             version |-> version, edited |-> edited, file |-> file])
    BY <2>1, Zenon
  <2>3. work'[d].started = t
    BY <2>2, Moved
  <2> QED BY <1>1, <2>3 DEF t
<1>3. CASE PushManifest(d)
  <2>1. \E file, last :
           Moves(d, "save", [op |-> "sync", rik |-> work[d].rik, started |-> work[d].started,
                             version |-> last + 1, edited |-> work[d].edited, file |-> file])
    BY <1>3, PushMoves, Zenon
  <2>2. PICK file, last :
           Moves(d, "save", [op |-> "sync", rik |-> work[d].rik, started |-> work[d].started,
                             version |-> last + 1, edited |-> work[d].edited, file |-> file])
    BY <2>1, Zenon
  <2>3. work'[d].started = work[d].started
    BY <2>2, Moved
  <2> QED BY <1>1, <1>3, <2>3 DEF PushManifest, Dated
<1>4. CASE pc'[d] = pc[d] /\ work'[d] = work[d]
  BY <1>1, <1>4 DEF Dated
<1> QED BY <1>2, <1>3, <1>4, SyncsGoOn

\* No clock is ahead of another by more than a manifest may come from the future,
\* and that is less than it may be old.
ClocksAgree ==
    /\ \A d, e \in Device : Skew[d] <= Skew[e] + MaxFuture
    /\ MaxFuture <= MaxAge

\* What a sync pushes that has not waited for longer than MaxAge - MaxFuture.
LEMMA FreshForAll ==
    ASSUME TypeInv, Dated, ClocksAgree, NEW d \in Device, PushManifest(d),
           Clock(d) - work[d].started <= MaxAge - MaxFuture,
           NEW e \in Device, identity[e] = manifest'.signer
    PROVE  Accepts(e, manifest', FALSE, Clock(e))
<1>1. PICK file, last :
         manifest' = SealManifest(d, [version |-> last + 1, file |-> file])
  BY PushMoves
<1> DEFINE text == [version |-> last + 1, file |-> file]
           m == SealManifest(d, text)
<1>2. /\ m.signer = identity[d] /\ m.time = work[d].started /\ m.version = text.version
      /\ m.envelope = Seal(text, ManifestAad, Keys(d), sealed)
  BY DEF SealManifest
<1>3. m.envelope.body.text = text
  BY <1>2 DEF Seal
<1>4. CanOpen(m.envelope.header, m.envelope.body, ManifestAad, Keys(d))
  BY <1>2 DEF Seal, CanOpen, WrapKey
<1>5. manifest' = m
  BY <1>1
<1> HIDE DEF m, text
<1>6. identity[e] = identity[d] /\ Keys(e) = Keys(d)
  BY <1>2, <1>5 DEF Keys
<1>7. /\ now \in Nat /\ Skew[d] \in Nat /\ Skew[e] \in Nat /\ MaxFuture \in Nat /\ MaxAge \in Nat
      /\ Skew[d] <= Skew[e] + MaxFuture /\ Skew[e] <= Skew[d] + MaxFuture
      /\ Clock(d) = now + Skew[d] /\ Clock(e) = now + Skew[e]
  BY DeviceAssumption DEF ClocksAgree, TypeInv, Shapes, Clock
<1>8. work[d].started \in Nat /\ work[d].started <= Clock(d)
  BY DEF Dated, PushManifest
<1> DEFINE t == work[d].started   here == Clock(d)   there == Clock(e)
<1>9. t <= there + MaxFuture /\ t >= there - MaxAge
  <2>1. /\ t \in Nat /\ here \in Nat /\ there \in Nat /\ MaxFuture \in Nat /\ MaxAge \in Nat
        /\ t <= here /\ here - t <= MaxAge - MaxFuture
        /\ here <= there + MaxFuture /\ there <= here + MaxFuture
    BY <1>7, <1>8
  <2> HIDE DEF t, here, there
  <2> QED BY <2>1
<1> QED BY <1>2, <1>3, <1>4, <1>5, <1>6, <1>9 DEF Accepts

\* What a sync pushes lets every device of the vault in, whether it has history or
\* not, as long as the clocks agree and the sync was started no longer ago than
\* that leaves room for: by their own clock its manifest, which is as old as the
\* sync, is neither too old nor too new, and it opens.
THEOREM PushedIsFresh ==
    ASSUME ClocksAgree
    PROVE  Spec => PushIsFreshForAll
<1>1. TypeInv /\ Dated /\ [Next]_vars =>
         \A d, e \in Device :
             /\ pc[d] = "push" /\ pc'[d] = "save"
             /\ Clock(d) - work[d].started <= MaxAge - MaxFuture
             /\ identity[e] = manifest'.signer
             => Accepts(e, manifest', FALSE, Clock(e))
  <2> SUFFICES ASSUME TypeInv, Dated, [Next]_vars, NEW d \in Device, NEW e \in Device,
                      pc[d] = "push", pc'[d] = "save",
                      Clock(d) - work[d].started <= MaxAge - MaxFuture,
                      identity[e] = manifest'.signer
               PROVE  Accepts(e, manifest', FALSE, Clock(e))
    OBVIOUS
  <2>1. ~StartSync(d)
    BY DEF StartSync
  <2>2. PushManifest(d)
    BY <2>1, SyncsGoOn
  <2> QED BY <2>2, FreshForAll
<1>2. Spec => []Dated
  BY DatedInit, DatedStep, AlwaysTyped, PTL DEF Spec
<1>3. []TypeInv /\ []Dated /\ [][Next]_vars => PushIsFreshForAll
  <2>1. []TypeInv /\ []Dated /\ [][Next]_vars =>
           [][\A d, e \in Device :
                 /\ pc[d] = "push" /\ pc'[d] = "save"
                 /\ Clock(d) - work[d].started <= MaxAge - MaxFuture
                 /\ identity[e] = manifest'.signer
                 => Accepts(e, manifest', FALSE, Clock(e))]_vars
    BY <1>1, PTL
  <2> QED BY <2>1 DEF PushIsFreshForAll
<1> QED BY <1>2, <1>3, AlwaysTyped, PTL DEF Spec

-----------------------------------------------------------------------------
(* What recovery installs                                                    *)

\* The words of a bundle that was replaced, or that is somewhere else, open only
\* a bundle of the same setup.
WordsFit ==
    /\ \A w \in words : w.secret \in 0 .. sealed - 1
    /\ \A d \in Device : bundle[d] # NoBundle =>
          /\ bundle[d].kek = <<bundle[d].salt, bundle[d].salt>>
          /\ bundle[d].salt \in 0 .. sealed - 1
          /\ \A w \in words : w.secret = bundle[d].salt => w.rik = bundle[d].rik

SplitsFit ==
    \A s \in splits :
        /\ s.rik \in Field
        /\ \E slopes \in Slopes : /\ s.k = Len(slopes) + 1
                                  /\ s.shares = Shares(s.rik, slopes, ShareCount)

\* What a recovery under way has got is what it was due to get.
DueFits == \A d \in Device : work[d].op = "recover" /\ work[d].due # None
                             => work[d].rik = work[d].due

LEMMA RecoveryInit == Init => WordsFit /\ SplitsFit /\ DueFits
BY DEF Init, WordsFit, SplitsFit, DueFits, NoWork

LEMMA BundlesStep ==
    ASSUME [Next]_vars
    PROVE  /\ (\E d \in Device : SetupBundle(d) \/ CopyBundle(d)) \/ UNCHANGED <<words, bundle>>
           /\ (\E d \in Device : SetupShares(d)) \/ UNCHANGED splits
<1>1. ASSUME NEW d \in Device,
             \/ StartInit(d) \/ SaveConfig(d) \/ StartRecover(d) \/ BackUpIdentity(d)
             \/ WipeIdentity(d) \/ PutIdentity(d) \/ StartSync(d) \/ PushManifest(d)
      PROVE  UNCHANGED <<words, bundle, splits>>
  BY <1>1 DEF StartInit, SaveConfig, StartRecover, BackUpIdentity, WipeIdentity, PutIdentity,
              StartSync, PushManifest, userVars, secretVars
<1>2. ASSUME NEW d \in Device,
             RefuseManifest(d) \/ SaveCache(d) \/ Stop(d) \/ RemoveCache(d) \/ RemoveIdentity(d)
      PROVE  UNCHANGED <<words, bundle, splits>>
  BY <1>2 DEF RefuseManifest, SaveCache, Stop, RemoveCache, RemoveIdentity, userVars, secretVars
<1>3. PassTime \/ MoveStoreAside \/ UNCHANGED vars => UNCHANGED <<words, bundle, splits>>
  BY DEF PassTime, MoveStoreAside, vars, userVars, secretVars
<1>4. ASSUME NEW d \in Device, SetupBundle(d) \/ CopyBundle(d) PROVE UNCHANGED splits
  BY <1>4 DEF SetupBundle, CopyBundle, userVars
<1>5. ASSUME NEW d \in Device, SetupShares(d) PROVE UNCHANGED <<words, bundle>>
  BY <1>5 DEF SetupShares, secretVars
<1> QED BY <1>1, <1>2, <1>3, <1>4, <1>5, Zenon DEF Next

LEMMA WordsStep == TypeInv /\ WordsFit /\ [Next]_vars => WordsFit'
<1> SUFFICES ASSUME TypeInv, WordsFit, [Next]_vars PROVE WordsFit'
  OBVIOUS
<1>1. sealed \in Nat /\ sealed' \in Nat /\ sealed <= sealed'
  BY BlobsStep
<1>2. CASE UNCHANGED <<words, bundle>>
  BY <1>1, <1>2 DEF WordsFit
<1>3. ASSUME NEW d \in Device, CopyBundle(d) PROVE WordsFit'
  <2>1. PICK e \in Device : bundle[e] # NoBundle /\ bundle' = [bundle EXCEPT ![d] = bundle[e]]
    BY <1>3 DEF CopyBundle
  <2>2. words' = words /\ sealed' = sealed
    BY <1>3 DEF CopyBundle, userVars
  <2>3. \A a \in Device : bundle'[a] = bundle[a] \/ bundle'[a] = bundle[e]
    BY <2>1 DEF TypeInv, Shapes
  <2> QED BY <2>1, <2>2, <2>3 DEF WordsFit
<1>4. ASSUME NEW d \in Device, SetupBundle(d) PROVE WordsFit'
  <2> DEFINE new == MakeBundle(identity[d], sealed, sealed)
             word == [secret |-> sealed, rik |-> identity[d]]
  <2>1. /\ bundle'[d] = new /\ \A e \in Device \ {d} : bundle'[e] = bundle[e]
    BY <1>4 DEF SetupBundle, TypeInv, Shapes
  <2>2. sealed' = sealed + 1
    BY <1>4 DEF SetupBundle
  <2>3. words' = words \/ words' = words \cup {word}
    BY <1>4 DEF SetupBundle
  <2>4. new.rik = identity[d] /\ new.salt = sealed /\ new.kek = <<sealed, sealed>>
    BY DEF MakeBundle
  <2>5. word.secret = sealed /\ word.rik = identity[d]
    OBVIOUS
  <2> HIDE DEF new, word
  <2>6. \A w \in words' : /\ w.secret \in 0 .. sealed' - 1
                          /\ w.secret \in 0 .. sealed - 1 \/ w = word
    BY <1>1, <2>2, <2>3, <2>5 DEF WordsFit
  <2>7. ASSUME NEW e \in Device, bundle'[e] # NoBundle
        PROVE  /\ bundle'[e].kek = <<bundle'[e].salt, bundle'[e].salt>>
               /\ bundle'[e].salt \in 0 .. sealed' - 1
               /\ \A w \in words' : w.secret = bundle'[e].salt => w.rik = bundle'[e].rik
    <3>1. CASE e = d
      BY <1>1, <2>1, <2>2, <2>4, <2>5, <2>6, <3>1
    <3>2. CASE e # d
      BY <1>1, <2>1, <2>2, <2>3, <2>5, <2>7, <3>2 DEF WordsFit
    <3> QED BY <3>1, <3>2
  <2> QED BY <2>6, <2>7 DEF WordsFit
<1> QED BY <1>2, <1>3, <1>4, BundlesStep

LEMMA SplitsStep == TypeInv /\ SplitsFit /\ [Next]_vars => SplitsFit'
<1> SUFFICES ASSUME TypeInv, SplitsFit, [Next]_vars PROVE SplitsFit'
  OBVIOUS
<1>1. ASSUME NEW d \in Device, SetupShares(d) PROVE SplitsFit'
  <2>1. PICK slopes \in Slopes :
           splits' = splits \cup {[rik |-> identity[d], k |-> Len(slopes) + 1,
                                   shares |-> Shares(identity[d], slopes, ShareCount)]}
    BY <1>1 DEF SetupShares
  <2>2. identity[d] \in Field
    BY <1>1 DEF SetupShares, TypeInv, TypeOK
  <2> QED BY <2>1, <2>2 DEF SplitsFit
<1>2. CASE UNCHANGED splits
  BY <1>2 DEF SplitsFit
<1> QED BY <1>1, <1>2, BundlesStep


\* The scheme keeps its promise for every split that a setup may make.
LEMMA SharesComeBack == SplitsComeBack
BY EverySplitComesBack, DeviceAssumption DEF SplitsComeBack

\* Shares that were not turned down are as many different ones as were entered.
LEMMA DifferentShares ==
    ASSUME NEW entered, Len(entered) \in Nat, NEW k, EnoughShares(entered, k)
    PROVE  LET points == {entered[i] : i \in 1 .. Len(entered)}
           IN  Cardinality(points) \in Nat /\ Cardinality(points) >= Len(entered)
<1> DEFINE points == {entered[i] : i \in 1 .. Len(entered)}
           Nth == [i \in 1 .. Len(entered) |-> entered[i]]
           IndexOf == [p \in points |-> p.index]
<1>1. Nth \in Surjection(1 .. Len(entered), points)
  BY DEF Surjection
<1>2. IsFiniteSet(1 .. Len(entered))
  BY FS_Interval
<1>3. IsFiniteSet(points)
  BY <1>1, <1>2, FS_Surjection
<1>4. IndexOf \in Surjection(points, Indices(entered))
  BY DEF Surjection, Indices
<1>5. Cardinality(Indices(entered)) <= Cardinality(points)
  BY <1>3, <1>4, FS_Surjection
<1>6. Cardinality(Indices(entered)) = Len(entered)
  BY DEF EnoughShares
<1>7. Cardinality(points) \in Nat
  BY <1>3, FS_CardinalityType
<1> QED BY <1>5, <1>6, <1>7

LEMMA RecoveredIsDue ==
    ASSUME TypeInv, WordsFit, SplitsFit, NEW d \in Device,
           NEW r \in Recoverable(d), r.due # None
    PROVE  r.rik = r.due
<1>1. r.rik \in Field /\ r.rik # Failure
  BY PrimeAssumption DEF Recoverable, Field, Failure
<1>2. CASE r \in FromWords(d)
  <2>1. PICK w \in IF bundle[d] = NoBundle THEN {} ELSE words :
           r = [rik |-> OpenBundle(bundle[d], w.secret), due |-> w.rik]
    BY <1>2 DEF FromWords
  <2>2. bundle[d] # NoBundle /\ w \in words
    BY <2>1
  <2>3. r.rik = OpenBundle(bundle[d], w.secret) /\ r.due = w.rik
    BY <2>1
  <2>4. bundle[d].kek = <<w.secret, bundle[d].salt>> /\ r.rik = bundle[d].rik
    BY <1>1, <2>3 DEF OpenBundle
  <2>5. w.secret = bundle[d].salt
    BY <2>2, <2>4 DEF WordsFit
  <2> QED BY <2>2, <2>3, <2>4, <2>5 DEF WordsFit
<1>3. CASE r \in FromShares
  <2> DEFINE held == UNION {s.shares : s \in splits}
  <2>1. PICK entered \in UNION {[1 .. t -> held] : t \in 1 .. MaxEntered},
             print \in {Skip} \cup 0 .. made - 1 :
           r = [rik |-> Recombine(entered, Len(entered), print),
                due |-> IF print # Skip THEN print
                        ELSE IF Promised(entered) = {} THEN None
                        ELSE (CHOOSE s \in Promised(entered) : TRUE).rik]
    BY <1>3 DEF FromShares
  <2>2. /\ r.rik = Recombine(entered, Len(entered), print)
        /\ r.due = IF print # Skip THEN print
                   ELSE IF Promised(entered) = {} THEN None
                   ELSE (CHOOSE s \in Promised(entered) : TRUE).rik
    BY <2>1
  <2> DEFINE points == {entered[i] : i \in 1 .. Len(entered)}
  <2>3. /\ r.rik = Interpolate(points) /\ EnoughShares(entered, Len(entered))
        /\ print \in {Skip, r.rik}
    BY <1>1, <2>2 DEF Recombine
  <2>4. CASE print # Skip
    BY <2>2, <2>3, <2>4
  <2>5. CASE print = Skip
    <3>1. PICK s \in Promised(entered) : r.due = s.rik
      BY <2>2, <2>5
    <3>2. /\ s \in splits /\ Len(entered) >= s.k
          /\ \A i \in 1 .. Len(entered) : entered[i] \in s.shares
      BY <3>1 DEF Promised
    <3>3. PICK slopes \in Slopes : /\ s.k = Len(slopes) + 1
                                  /\ s.shares = Shares(s.rik, slopes, ShareCount)
      BY <3>2 DEF SplitsFit
    <3>4. Len(entered) \in Nat
      <4>1. PICK t \in 1 .. MaxEntered : entered \in [1 .. t -> held]
        BY <2>1
      <4>2. entered \in Seq(held) /\ Len(entered) = t
        BY <4>1, DeviceAssumption
      <4> QED BY <4>2
    <3>5. Len(slopes) \in Nat
      BY DeviceAssumption
    <3>6. Cardinality(points) \in Nat /\ Cardinality(points) >= Len(entered)
      BY <2>3, <3>4, DifferentShares
    <3>7. points \in SUBSET Shares(s.rik, slopes, ShareCount) /\ s.rik \in Field
      BY <3>2, <3>3 DEF SplitsFit
    <3>8. Cardinality(points) > Len(slopes)
      BY <3>2, <3>3, <3>4, <3>5, <3>6
    <3>9. Interpolate(points) = s.rik
      BY <3>7, <3>8, SharesComeBack DEF SplitsComeBack, ComesBack
    <3> QED BY <2>3, <3>1, <3>9
  <2> QED BY <2>4, <2>5
<1> QED BY <1>2, <1>3 DEF Recoverable


\* What a step may leave a device with: no recovery, the one that it had, or one
\* that begins.
Recovers(d, w) ==
    \/ w.op # "recover"
    \/ w.op = work[d].op /\ w.rik = work[d].rik /\ w.due = work[d].due
    \/ \E r \in Recoverable(d) : w.rik = r.rik /\ w.due = r.due

LEMMA RecoveryGoesOn ==
    ASSUME TypeInv, [Next]_vars, NEW d \in Device
    PROVE  Recovers(d, work'[d])
<1>1. ASSUME NEW e \in Device, NEW step, NEW w, Moves(e, step, w), Recovers(e, w)
      PROVE  Recovers(d, work'[d])
  <2>1. CASE e = d
    BY <1>1, <2>1, Moved
  <2>2. CASE e # d
    BY <1>1, <2>2, Moved DEF Recovers
  <2> QED BY <2>1, <2>2
<1>2. Recovers(d, NoWork) /\ \A e \in Device : Recovers(e, work[e]) /\ Recovers(e, NoWork)
  BY DEF Recovers, NoWork
<1>3. ASSUME NEW e \in Device, StartInit(e) PROVE Recovers(d, work'[d])
  <2>1. PICK fails \in Failures :
           Moves(e, PutStep(e), [op |-> "init", rik |-> made, due |-> made, unreadable |-> fails])
    BY <1>3, StartInitMoves
  <2> DEFINE w == [op |-> "init", rik |-> made, due |-> made, unreadable |-> fails]
  <2>2. w.op = "init"
    BY Zenon
  <2>3. Moves(e, PutStep(e), w)
    BY <2>1
  <2> HIDE DEF w
  <2> QED BY <1>1, <2>2, <2>3 DEF Recovers
<1>4. ASSUME NEW e \in Device, StartRecover(e) PROVE Recovers(d, work'[d])
  <2>1. PICK fails \in Failures : \E r \in Recoverable(e) :
           Moves(e, IF Exists(e, fails) THEN "backup" ELSE PutStep(e),
                 [op |-> "recover", rik |-> r.rik, due |-> r.due, unreadable |-> fails])
    BY <1>4, StartRecoverMoves, Zenon
  <2>2. PICK r \in Recoverable(e) :
           Moves(e, IF Exists(e, fails) THEN "backup" ELSE PutStep(e),
                 [op |-> "recover", rik |-> r.rik, due |-> r.due, unreadable |-> fails])
    BY <2>1, Zenon
  <2> DEFINE w == [op |-> "recover", rik |-> r.rik, due |-> r.due, unreadable |-> fails]
  <2>3. w.rik = r.rik /\ w.due = r.due
    BY Zenon
  <2>4. Moves(e, IF Exists(e, fails) THEN "backup" ELSE PutStep(e), w)
    BY <2>2
  <2> HIDE DEF w
  <2>5. Recovers(e, w)
    BY <2>3, Zenon DEF Recovers
  <2> QED BY <1>1, <2>4, <2>5
<1>5. ASSUME NEW e \in Device, BackUpIdentity(e) PROVE Recovers(d, work'[d])
  <2>1. CASE Moves(e, PutStep(e), work[e])
    BY <1>1, <1>2, <2>1
  <2>2. ASSUME NEW fails,
               Moves(e, PutStep(e), [op |-> work[e].op, rik |-> work[e].rik,
                                     due |-> work[e].due, unreadable |-> fails])
        PROVE  Recovers(d, work'[d])
    <3> DEFINE w == [op |-> work[e].op, rik |-> work[e].rik,
                     due |-> work[e].due, unreadable |-> fails]
    <3>1. w.op = work[e].op /\ w.rik = work[e].rik /\ w.due = work[e].due
      BY Zenon
    <3>2. Moves(e, PutStep(e), w)
      BY <2>2
    <3> HIDE DEF w
    <3>3. Recovers(e, w)
      BY <3>1, Zenon DEF Recovers
    <3> QED BY <1>1, <3>2, <3>3
  <2> QED BY <1>5, <2>1, <2>2, BackUpMoves, Zenon
<1>6. ASSUME NEW e \in Device, StartSync(e) \/ PushManifest(e) PROVE Recovers(d, work'[d])
  <2>1. CASE StartSync(e)
    <3>1. PICK edited \in BOOLEAN : Moves(e, "push",
                [op |-> "sync", rik |-> identity[e], started |-> Clock(e),
                 version |-> cache[e].version, edited |-> edited,
                 file |-> IF edited THEN EditedEntry(e) ELSE cache[e].file])
      BY <2>1, StartSyncMoves
    <3> DEFINE f == IF edited THEN EditedEntry(e) ELSE cache[e].file
               w == [op |-> "sync", rik |-> identity[e], started |-> Clock(e),
                     version |-> cache[e].version, edited |-> edited,
                     file |-> f]
    <3>2. w.op = "sync"
      BY Zenon
    <3>3. Moves(e, "push", w)
      BY <3>1
    <3> HIDE DEF w
    <3>4. Recovers(e, w)
      BY <3>2 DEF Recovers
    <3> QED BY <1>1, <3>3, <3>4
  <2>2. CASE PushManifest(e)
    <3>1. \E file, last :
             Moves(e, "save", [op |-> "sync", rik |-> work[e].rik, started |-> work[e].started,
                               version |-> last + 1, edited |-> work[e].edited, file |-> file])
      BY <2>2, PushMoves, Zenon
    <3>2. PICK file, last :
             Moves(e, "save", [op |-> "sync", rik |-> work[e].rik, started |-> work[e].started,
                               version |-> last + 1, edited |-> work[e].edited, file |-> file])
      BY <3>1
    <3> DEFINE w == [op |-> "sync", rik |-> work[e].rik, started |-> work[e].started,
                     version |-> last + 1, edited |-> work[e].edited, file |-> file]
    <3>3. w.op = "sync"
      BY Zenon
    <3>4. Moves(e, "save", w)
      BY <3>2
    <3> HIDE DEF w
    <3>5. Recovers(e, w)
      BY <3>3 DEF Recovers
    <3> QED BY <1>1, <3>4, <3>5
  <2> QED BY <1>6, <2>1, <2>2
<1>7. ASSUME NEW e \in Device,
             \/ WipeIdentity(e) \/ PutIdentity(e) \/ SaveConfig(e) \/ RefuseManifest(e)
             \/ SaveCache(e) \/ Stop(e)
      PROVE  Recovers(d, work'[d])
  <2>1. \E step : Moves(e, step, work[e]) \/ Moves(e, step, NoWork)
    BY <1>7, StaysMoves, PutMoves, EndMoves, Zenon
       DEF WipeIdentity, SaveConfig, RefuseManifest, SaveCache, Stop
  <2> QED BY <1>1, <1>2, <2>1
<1>8. ASSUME \/ \E e \in Device : Elsewhere(e)
             \/ PassTime \/ MoveStoreAside \/ UNCHANGED vars
      PROVE  Recovers(d, work'[d])
  <2>1. work' = work
    BY <1>8 DEF Elsewhere, SetupBundle, SetupShares, CopyBundle, RemoveCache, RemoveIdentity,
           PassTime, MoveStoreAside, vars
  <2> QED BY <1>2, <2>1
<1> QED BY <1>3, <1>4, <1>5, <1>6, <1>7, <1>8, Zenon DEF Next, Elsewhere

LEMMA DueStep ==
    ASSUME TypeInv, WordsFit, SplitsFit, DueFits, [Next]_vars
    PROVE  DueFits'
<1>1. ASSUME NEW d \in Device, work'[d].op = "recover", work'[d].due # None
      PROVE  work'[d].rik = work'[d].due
  <2>1. Recovers(d, work'[d])
    BY RecoveryGoesOn
  <2> QED BY <1>1, <2>1, RecoveredIsDue DEF Recovers, DueFits
<1> QED BY <1>1 DEF DueFits

\* Recovery installs the RIK of the vault, by words, by shares with whatever
\* threshold is entered, or by the fingerprint, however often bundles were replaced
\* or copied and splits made of other RIKs.
THEOREM RecoveryIsOfTheVault == Spec => []RecoversTheVaultKey
<1> DEFINE Inv == TypeInv /\ WordsFit /\ SplitsFit /\ DueFits
<1>1. Init => Inv
  BY TypeInit, RecoveryInit
<1>2. Inv /\ [Next]_vars => Inv'
  BY TypeStep, WordsStep, SplitsStep, DueStep
<1>3. Inv => RecoversTheVaultKey
  BY DEF DueFits, RecoversTheVaultKey
<1> QED BY <1>1, <1>2, <1>3, PTL DEF Spec

=============================================================================
