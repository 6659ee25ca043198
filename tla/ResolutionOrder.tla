-------------------------- MODULE ResolutionOrder ---------------------------
(***************************************************************************)
(* latest-wins on its own: versions of one path meet one after the other,  *)
(* in any order, each time as either side of the conflict, and the winner  *)
(* stays.  This is how entries of a path that a pushing device has dropped *)
(* from its config meet on their way through it (merge_unmanaged_entries); *)
(* devices agree without talking to each other only if the order and the   *)
(* sides make no difference.                                               *)
(***************************************************************************)
EXTENDS Conflict, FiniteSets

CONSTANTS MaxCount,     \* the largest counter of the clocks that meet
          Times         \* their modification times

\* A clock counts finitely many devices, from 0 up.
ASSUME OrderAssumption == /\ IsFiniteSet(Device)
                          /\ Content # {}
                          /\ MaxCount \in Counter
                          /\ Times \subseteq Nat

VARIABLES versions,     \* versions[i]: the version whose blob id is i
          waiting,      \* the versions that have not met the winner yet
          winner        \* the version that has won so far

orderVars == <<versions, waiting, winner>>

Version(i, clock, time) ==
    [blob |-> i, content |-> CHOOSE c \in Content : TRUE, aad |-> 1, clock |-> clock,
     modified |-> time, deleted |-> FALSE, past |-> {i}]

Clocks == [Device -> 0 .. MaxCount] \ {ZeroClock}

OrderInit ==
    /\ versions \in {[i \in 1 .. 3 |-> Version(i, c[i], t[i])] :
                        c \in [1 .. 3 -> Clocks], t \in [1 .. 3 -> Times]}
    /\ waiting \in {S \in SUBSET (1 .. 3) : Cardinality(S) = 2}
    /\ \E i \in 1 .. 3 \ waiting : winner = versions[i]

\* What stays when l meets r as the local side of the conflict.
WinnerOf(l, r) == ChosenEntry(LatestWinsChoice(l, r), l, r)

Meet(i) ==
    /\ i \in waiting
    /\ waiting' = waiting \ {i}
    /\ winner' \in {WinnerOf(winner, versions[i]), WinnerOf(versions[i], winner)}
    /\ UNCHANGED versions

Settled == waiting = {} /\ UNCHANGED orderVars

OrderNext == (\E i \in 1 .. 3 : Meet(i)) \/ Settled

OrderSpec == OrderInit /\ [][OrderNext]_orderVars

-----------------------------------------------------------------------------
\* Reference: the version with the largest key, compared field by field.
Outranks(e, f) ==
    \/ CounterMass(e.clock) > CounterMass(f.clock)
    \/ /\ CounterMass(e.clock) = CounterMass(f.clock)
       /\ e.modified > f.modified \/ (e.modified = f.modified /\ e.blob > f.blob)

\* As long as no mass wraps, the winner is the version of the greatest mass, then
\* time, then blob id: neither the order in which versions meet nor the side a
\* version is on makes a difference (conflict.rs:6, 98).
OrderDoesNotMatter ==
    /\ waiting = {}
    /\ \A i \in 1 .. 3 : FullMass(versions[i].clock) < MassModulus
    => \A i \in 1 .. 3 : versions[i] # winner => Outranks(winner, versions[i])

\* Whatever the hashes are, no version wins the last meeting against one that
\* causally follows it, and meeting in the other direction gives the same winner.
WinnerIsNewerOfTwo ==
    \A i \in 1 .. 3 :
        /\ WinnerOf(winner, versions[i]) = WinnerOf(versions[i], winner)
        /\ HappensBefore(winner.clock, versions[i].clock)
              => LatestWinsChoice(winner, versions[i]) = "keep_remote"

=============================================================================
