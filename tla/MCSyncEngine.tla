---------------------------- MODULE MCSyncEngine ----------------------------
(***************************************************************************)
(* Instances of SyncEngine for TLC: two devices, one or two paths.         *)
(***************************************************************************)
EXTENDS SyncEngine, TLC

CONSTANTS d1, d2, p1, p2, x, y

Always(policy) == [d \in Device |-> [p \in Path |-> policy]]

LatestWins == Always("latest_wins")

\* d1 asks its user, d2 surfaces both versions.
PromptAndManual == [d \in Device |-> [p \in Path |-> IF d = d1 THEN "prompt" ELSE "manual"]]

\* d1 decides by itself, d2 would have to ask.
LatestAndPrompt == [d \in Device |-> [p \in Path |-> IF d = d1 THEN "latest_wins" ELSE "prompt"]]

NoResolver == [d \in Device |-> {}]
AnyAnswer  == [d \in Device |-> {"keep_local", "keep_remote", "keep_both", "abort"}]

\* Every device has every path in its config.
AllManage == [d \in Device |-> Path]

\* d1 has all paths, d2 only p1.
SubsetManages == [d \in Device |-> IF d = d1 THEN Path ELSE {p1}]

\* Two devices whose ids have different hashes, and two with equal ones.
HashByDevice == [d \in Device |-> IF d = d1 THEN 5 ELSE 3]
HashEqual    == [d \in Device |-> 1]

BudgetOf(e, s, f, c) == [what \in {"edit", "sync", "fail", "configure"} |->
    CASE what = "edit" -> e [] what = "sync" -> s [] what = "fail" -> f [] OTHER -> c]

Edits3Syncs4        == BudgetOf(3, 4, 0, 0)
Edits2Syncs4Fail1   == BudgetOf(2, 4, 1, 0)
Edits2Syncs3Config1 == BudgetOf(2, 3, 0, 1)
=============================================================================
