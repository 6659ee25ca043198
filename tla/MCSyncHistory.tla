---------------------------- MODULE MCSyncHistory ----------------------------
(***************************************************************************)
(* Instances of SyncEngine for TLC with three devices that are all alike:  *)
(* what the clock of a version says of its history.                        *)
(***************************************************************************)
EXTENDS SyncEngine, FiniteSets, TLC

LatestWins == [d \in Device |-> [p \in Path |-> "latest_wins"]]
NoResolver == [d \in Device |-> {}]
AllManage  == [d \in Device |-> Path]
HashEqual  == [d \in Device |-> 1]

BudgetOf(e, s, f) == [what \in {"edit", "sync", "fail", "configure"} |->
    CASE what = "edit" -> e [] what = "sync" -> s [] what = "fail" -> f [] OTHER -> 0]

Edits3Syncs4Fail1 == BudgetOf(3, 4, 1)
Edits3Syncs6      == BudgetOf(3, 6, 0)

\* Devices and contents are interchangeable.
Alike == Permutations(Device) \cup Permutations(Content)

\* The devices that sync at the same time: two for a race, one where none is
\* needed.
Syncing    == {d \in Device : pc[d] # "idle"}
TwoAtATime == Cardinality(Syncing) <= 2
OneAtATime == Cardinality(Syncing) <= 1
=============================================================================
