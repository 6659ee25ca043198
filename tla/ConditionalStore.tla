-------------------------- MODULE ConditionalStore --------------------------
(***************************************************************************)
(* What a store promises to the clients that write to it: every call has   *)
(* its effect at one moment between its start and its answer, and a put    *)
(* with an expected ETag takes effect only if the object has that ETag at  *)
(* that moment.  A call that fails may have taken effect wholly, in part   *)
(* (the bytes without a new ETag, or without any) or not at all.  How a    *)
(* store gets there, with locks, sidecars, requests or retries, is the     *)
(* matter of the modules that implement this one.                          *)
(***************************************************************************)
EXTENDS Integers

CONSTANTS
    Client,
    Name,
    TagMayStay     \* whether a delete may leave the ETag of what it deletes behind

\* The values of if_match that are no ETag: None, and the empty string.
Always == -1
IfNew  == -2

\* The answers that are no ETag.
Refused == -3
Failed  == -4
Missing == -5
Done    == -6
Pending == -7

VARIABLES
    objects,   \* objects[n]: ETag and bytes of n, both 0 if there are none
    call,      \* call[c]: the call of c, NoCall if none is under way
    answer     \* answer[c]: what came of the last one, Pending if it is under way

storeVars == <<objects, call, answer>>

Nothing == [etag |-> 0, bytes |-> 0]
NoCall  == [op |-> "none", name |-> 0, want |-> Always, bytes |-> 0]

Object == [etag : Nat, bytes : Nat]
Call   == [op : {"put", "delete"}, name : Name, want : Nat \cup {Always, IfNew}, bytes : Nat]

\* Whether an object in state o satisfies the expectation `want' of a put.
Accepts(o, want) == \/ want = Always
                    \/ want = IfNew /\ o.bytes = 0
                    \/ want > 0 /\ o.etag = want

ContractInit ==
    /\ objects = [n \in Name |-> Nothing]
    /\ call = [c \in Client |-> NoCall]
    /\ answer = [c \in Client |-> Done]

Ask(c) ==
    /\ answer[c] # Pending
    /\ call'[c] \in Call
    /\ call' = [call EXCEPT ![c] = call'[c]]
    /\ answer' = [answer EXCEPT ![c] = Pending]
    /\ UNCHANGED objects

Reply(c, reply) == /\ answer[c] = Pending
                   /\ answer' = [answer EXCEPT ![c] = reply]
                   /\ call' = [call EXCEPT ![c] = NoCall]

\* The state of the object after a put that took effect: its ETag is new.
Replaced(k, o, new) == new.bytes = k.bytes /\ new.etag > o.etag

\* The new ETag may remain untold (0): the caller learns it by listing.
Put(c) ==
    LET k == call[c]
        n == k.name
    IN  /\ k.op = "put" /\ Accepts(objects[n], k.want)
        /\ \E tag \in {0, objects'[n].etag} : Reply(c, tag)
        /\ Replaced(k, objects[n], objects'[n])
        /\ objects' = [objects EXCEPT ![n] = objects'[n]]

\* An ETag that was left behind keeps its name from being free, but for a put
\* that expects this ETag.
TagLeft(o) == TagMayStay /\ o.etag # 0

Refuse(c) ==
    LET o == objects[call[c].name]
    IN  /\ call[c].op = "put"
        /\ ~Accepts(o, call[c].want) \/ (call[c].want = IfNew /\ TagLeft(o))
        /\ Reply(c, Refused)
        /\ UNCHANGED objects

\* What a delete may make of object o.
Deleted(o) == {Nothing} \cup IF TagMayStay THEN {[o EXCEPT !.bytes = 0]} ELSE {}

Delete(c) ==
    LET n == call[c].name
    IN  /\ call[c].op = "delete"
        /\ (Reply(c, Done) \/ (Reply(c, Missing) /\ objects[n].bytes = 0))
        /\ \E new \in Deleted(objects[n]) : objects' = [objects EXCEPT ![n] = new]

\* What a failing call may make of object o; a put's expectation must hold.
Leaves(k, o, new) ==
    \/ new = o
    \/ k.op = "put" /\ Accepts(o, k.want)
       /\ (new = [o EXCEPT !.bytes = k.bytes] \/ Replaced(k, o, new))
    \/ k.op = "delete" /\ new \in {Nothing, [o EXCEPT !.etag = 0]}

Fail(c) ==
    LET n == call[c].name
    IN  /\ Reply(c, Failed)
        /\ Leaves(call[c], objects[n], objects'[n])
        /\ objects' = [objects EXCEPT ![n] = objects'[n]]

\* The answer does not reach the caller, who takes the call to have failed.
LoseAnswer(c) ==
    /\ answer[c] # Pending
    /\ answer' = [answer EXCEPT ![c] = Failed]
    /\ UNCHANGED <<objects, call>>

ContractNext ==
    \E c \in Client : Ask(c) \/ Put(c) \/ Refuse(c) \/ Delete(c) \/ Fail(c) \/ LoseAnswer(c)

ContractSpec == ContractInit /\ [][ContractNext]_storeVars
=============================================================================
