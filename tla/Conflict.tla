------------------------------ MODULE Conflict ------------------------------
(***************************************************************************)
(* Conflict resolution: crates/cs-sync/src/conflict.rs.                    *)
(***************************************************************************)
EXTENDS Manifest, Functions

CONSTANTS
    DeviceHash,     \* hash_device: a number for every device id
    MassModulus     \* the sum of u128 values wraps at this value

ASSUME HashAssumption == /\ DeviceHash \in [Device -> Nat]
                         /\ MassModulus \in Nat \ {0}

\* The counter mass that orders concurrent clocks.  Only the devices in the
\* map count: those with a counter above 0.
FullMass(c) == SumFunctionOnSet([d \in Device |-> DeviceHash[d] + c[d]],
                                {d \in Device : c[d] > 0})

CounterMass(c) == FullMass(c) % MassModulus

\* Mutant: the mass decides in every case.
CompareMasses(a, b) ==
    CASE CounterMass(a) < CounterMass(b) -> "less"
      [] CounterMass(a) > CounterMass(b) -> "greater"
      [] OTHER -> "equal"

CompareClocks(a, b) ==
    CASE HappensBefore(a, b) -> "less"
      [] HappensBefore(b, a) -> "greater"
      [] a = b -> "equal"
      [] OTHER -> CASE CounterMass(a) < CounterMass(b) -> "less"
                    [] CounterMass(a) > CounterMass(b) -> "greater"
                    [] OTHER -> "equal"

\* Mutant: the blob id is forgotten, local wins a tie.
TieBreakByTime(l, r) == l.modified >= r.modified

\* Ties are broken by modification time, then by blob id.
TieBreak(l, r) ==
    IF l.modified # r.modified THEN l.modified > r.modified ELSE l.blob >= r.blob

LatestWinsChoice(l, r) ==
    LET order == CompareClocks(l.clock, r.clock)
    IN  IF order = "greater" \/ (order = "equal" /\ TieBreak(l, r))
        THEN "keep_local" ELSE "keep_remote"

\* The choices a policy may come to; answers are those the resolver attached to
\* the run may give, none when there is no resolver (UnresolvedConflict).
PolicyChoices(policy, answers, l, r) ==
    CASE policy = "latest_wins" -> {LatestWinsChoice(l, r)}
      [] policy = "prompt" -> answers
      [] policy = "manual" -> {"keep_both"}

ChosenEntry(choice, l, r) == IF choice = "keep_remote" THEN r ELSE l

=============================================================================
