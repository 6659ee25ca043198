----------------------------- MODULE HttpStore ------------------------------
(***************************************************************************)
(* The stores that are one request away: WebDAV, OneDrive, the Proton      *)
(* gateway and S3 (crates/cs-storage/src/{webdav,onedrive,proton,s3}.rs).  *)
(* A call sends a request, a server carries it out and responds, and the   *)
(* client makes an answer of the response.  Requests and responses get     *)
(* lost: the SDK under S3 then sends the request again, the other clients  *)
(* report a failure.  The server is external.  It keeps the conditions of  *)
(* HTTP, but it may fail, withhold ETags or list less than it has.         *)
(***************************************************************************)
EXTENDS Integers

CONSTANTS
    Client,        \* the devices that use the store
    Name,          \* the names of objects
    Backend,       \* the backends to consider
    MaxPuts, MaxDeletes, MaxLists,   \* how many calls of each kind
    MaxLosses,     \* and lost or failed requests and lost responses there are
    MaxTries,      \* how often the SDK of S3 sends a request
    MaxListPages   \* MAX_LIST_PAGES of S3

ASSUME HttpAssumption ==
    /\ Backend \subseteq {"webdav", "onedrive", "proton", "s3"}
    /\ {MaxPuts, MaxDeletes, MaxLists, MaxLosses} \subseteq Nat
    /\ {MaxTries, MaxListPages} \subseteq Nat \ {0}

VARIABLES
    backend,    \* the backend in use
    dialect,    \* "full", "tagless" (no ETags) or "unread" (a listing in
                \* a spelling that the client does not look for)
    store,      \* store[n]: ETag and bytes of n on the server
    lastTag,    \* the last ETag it made
    pc,         \* pc[c]: "idle", "sent" (a request under way), "served" (a response)
    call,       \* call[c]: the call of c
    answer,     \* answer[c]: what c was told of its last put or delete
    response,   \* response[c]: the response under way to c
    tries,      \* tries[c]: how often this request was sent
    pages,      \* pages[c]: how many pages of a listing c has asked for
    tags,       \* tags[c][n]: what c will expect of n: the ETag listed, or IfNew
    saw,        \* saw[c][n]: the bytes c has read since that listing, Unread if none
    spent,      \* how many puts, deletes, listings and losses there were
    effects     \* history: effects[k]: how often the k-th put took effect

serverVars == <<backend, dialect, store, lastTag>>
clientVars == <<pc, call, answer, response, tries, pages>>
readVars == <<tags, saw>>
vars == <<serverVars, clientVars, readVars, spent, effects>>

Unread == -1
Absent == [etag |-> 0, bytes |-> 0]

\* The answers and expectations of ConditionalStore (instantiated below).
Always  == -1
IfNew   == -2
Refused == -3
Failed  == -4
Missing == -5
Done    == -6
Pending == -7

NoPage == [n \in Name |-> IfNew]

\* A body is whole if it arrives, is within the cap and parses where it must;
\* `page' is what a listing tells, `more' how it goes on.
NoResponse == [status |-> 0, tag |-> 0, bytes |-> 0, whole |-> TRUE, page |-> NoPage, more |-> "no"]

Status(status) == [NoResponse EXCEPT !.status = status]

-----------------------------------------------------------------------------
(* What each backend makes of the response to a call.                      *)

\* A response whose body has to be read: all of it or a failure.
Read(r, value) == IF r.whole THEN value ELSE Failed

\* Mutant: whatever is no success is a lost race.
RefusedIfFound(refusals, r) == IF r.status = 404 THEN Missing ELSE Refused

ErrorOf(refusals, r) == CASE r.status = 404        -> Missing
                          [] r.status \in refusals -> Refused
                          [] OTHER                 -> Failed

\* The new ETag is a header here, and 409 is no lost race.
WebDav(op, r) ==
    IF r.status # 200 THEN ErrorOf({412}, r)
    ELSE CASE op = "put"    -> r.tag
           [] op = "delete" -> Done
           [] OTHER         -> Read(r, Done)

\* Mutant: a put whose response cannot be read has lost a race.
OneDriveUnread(op, r) == IF op = "put" /\ r.status = 200 /\ ~r.whole
                         THEN Refused
                         ELSE IF r.status # 200 THEN ErrorOf({409, 412}, r)
                         ELSE IF op = "put" THEN r.tag ELSE Read(r, Done)

\* The new ETag is in the body: a put whose response cannot be read has failed
\* for its caller.
OneDrive(op, r) ==
    IF r.status # 200 THEN ErrorOf({409, 412}, r)
    ELSE CASE op = "put"    -> Read(r, r.tag)
           [] op = "delete" -> Done
           [] OTHER         -> Read(r, Done)

Proton(op, r) ==
    IF r.status # 200 THEN ErrorOf({409, 412}, r)
    ELSE CASE op = "put"    -> Read(r, r.tag)
           [] op = "delete" -> Done
           [] OTHER         -> Read(r, Done)

S3(op, r) ==
    IF r.status # 200 THEN ErrorOf({412}, r)
    ELSE CASE op = "put"    -> r.tag
           [] op = "delete" -> Done
           [] OTHER         -> Read(r, Done)

AnswerTo(op, r) == CASE backend = "webdav"   -> WebDav(op, r)
                     [] backend = "onedrive" -> OneDrive(op, r)
                     [] backend = "proton"   -> Proton(op, r)
                     [] backend = "s3"       -> S3(op, r)

-----------------------------------------------------------------------------
(* What a put or delete has done once it is served, the contract's view.   *)

IsWrite(c) == call[c].op \in {"put", "delete"}

Idle == [op |-> "none", name |-> 0, want |-> Always, bytes |-> 0]

Contract == INSTANCE ConditionalStore WITH
    objects <- store,
    call    <- [c \in Client |-> IF pc[c] = "sent" /\ IsWrite(c) THEN call[c] ELSE Idle],
    answer  <- [c \in Client |-> CASE pc[c] = "sent" /\ IsWrite(c)   -> Pending
                                   [] pc[c] = "served" /\ IsWrite(c) -> AnswerTo(call[c].op, response[c])
                                   [] OTHER                          -> answer[c]],
    TagMayStay <- FALSE

-----------------------------------------------------------------------------
Init ==
    /\ backend \in Backend
    /\ dialect \in {"full", "tagless"} \cup (IF backend = "webdav" THEN {"unread"} ELSE {})
    /\ store = [n \in Name |-> Absent]
    /\ lastTag = 0
    /\ pc = [c \in Client |-> "idle"]
    /\ call = [c \in Client |-> Idle]
    /\ answer = [c \in Client |-> Done]
    /\ response = [c \in Client |-> NoResponse]
    /\ tries = [c \in Client |-> 0]
    /\ pages = [c \in Client |-> 0]
    /\ tags = [c \in Client |-> NoPage]
    /\ saw = [c \in Client |-> [n \in Name |-> Unread]]
    /\ spent = [put |-> 0, delete |-> 0, list |-> 0, loss |-> 0]
    /\ effects = [k \in 1 .. MaxPuts |-> 0]

Spend(what, max) == spent[what] < max /\ spent' = [spent EXCEPT ![what] = @ + 1]

Send(c, op, n, want, bytes) ==
    /\ pc[c] = "idle"
    /\ pc' = [pc EXCEPT ![c] = "sent"]
    /\ call' = [call EXCEPT ![c] = [op |-> op, name |-> n, want |-> want, bytes |-> bytes]]
    /\ tries' = [tries EXCEPT ![c] = 1]
    /\ UNCHANGED <<serverVars, answer, response, effects>>

\* A caller that has listed n expects what it listed; others expect that n is
\* absent, or nothing (the engine's blobs).
Wants(c, n) == IF tags[c][n] = IfNew THEN {Always, IfNew} ELSE {tags[c][n]}

SendPut(c) ==
    /\ Spend("put", MaxPuts)
    /\ \E n \in Name : \E want \in Wants(c, n) : Send(c, "put", n, want, spent.put + 1)
    /\ UNCHANGED <<pages, readVars>>

SendDelete(c) ==
    /\ Spend("delete", MaxDeletes)
    /\ \E n \in Name : Send(c, "delete", n, Always, 0)
    /\ UNCHANGED <<pages, readVars>>

\* Of what c reads only what it has listed before matters to its puts.
SendGet(c) ==
    /\ \E n \in Name : /\ tags[c][n] # IfNew /\ saw[c][n] = Unread
                      /\ Send(c, "get", n, Always, 0)
    /\ UNCHANGED <<pages, readVars, spent>>

SendList(c) ==
    /\ Spend("list", MaxLists)
    /\ \E n \in Name : Send(c, "list", n, Always, 0)
    /\ pages' = [pages EXCEPT ![c] = 1]
    /\ tags' = [tags EXCEPT ![c] = NoPage]
    /\ saw' = [saw EXCEPT ![c] = [n \in Name |-> Unread]]

-----------------------------------------------------------------------------
(* The server (external).                                                  *)

\* Mutants: an unknown ETag sends no header; nor does the wish for no object.
HoldsIfKnown(k, o) == \/ k.want \in {Always, 0}
                      \/ k.want = IfNew /\ o.bytes = 0
                      \/ k.want > 0 /\ o.etag = k.want
HoldsIfTagged(k, o) == k.want < 0 \/ (k.want > 0 /\ o.etag = k.want)

\* The condition that the headers of a put state: none, If-None-Match: * or
\* If-Match; ETag "0" stands for an unknown one and matches none.
Holds(k, o) == \/ k.want = Always
               \/ k.want = IfNew /\ o.bytes = 0
               \/ k.want > 0 /\ o.etag = k.want

\* A response that has a body may arrive broken or too large to be read.
Respond(c, r) ==
    /\ pc' = [pc EXCEPT ![c] = "served"]
    /\ \/ response' = [response EXCEPT ![c] = r] /\ UNCHANGED spent
       \/ /\ r.status = 200 /\ Spend("loss", MaxLosses)
          /\ response' = [response EXCEPT ![c] = [r EXCEPT !.whole = FALSE]]

Told(tag) == IF dialect = "tagless" THEN 0 ELSE tag

ServePut(c) ==
    LET k == call[c]
        o == store[k.name]
    IN  /\ pc[c] = "sent" /\ k.op = "put"
        /\ \/ /\ Holds(k, o)
              /\ lastTag' = lastTag + 1
              /\ store' = [store EXCEPT ![k.name] = [etag |-> lastTag', bytes |-> k.bytes]]
              /\ effects' = [effects EXCEPT ![k.bytes] = @ + 1]
              /\ Respond(c, [Status(200) EXCEPT !.tag = Told(lastTag')])
           \/ /\ ~Holds(k, o)
              /\ \E status \in {409, 412} : Respond(c, Status(status))
              /\ UNCHANGED <<store, lastTag, effects>>
        /\ UNCHANGED <<backend, dialect, call, answer, tries, pages, readVars>>

\* S3 deletes what is not there without a word.
ServeDelete(c) ==
    LET n == call[c].name
    IN  /\ pc[c] = "sent" /\ call[c].op = "delete"
        /\ store' = [store EXCEPT ![n] = Absent]
        /\ Respond(c, Status(IF store[n] = Absent /\ backend # "s3" THEN 404 ELSE 200))
        /\ UNCHANGED <<backend, dialect, lastTag, call, answer, tries, pages, readVars, effects>>

\* OneDrive and S3 list in pages.
Shown == LET there == {n \in Name : store[n] # Absent}
         IN  CASE dialect = "unread"           -> {{}}
               [] backend \in {"onedrive", "s3"} -> SUBSET there
               [] OTHER                        -> {there}

ServeGet(c) ==
    LET o == store[call[c].name]
    IN  /\ pc[c] = "sent" /\ call[c].op = "get"
        /\ Respond(c, IF o = Absent THEN Status(404) ELSE [Status(200) EXCEPT !.bytes = o.bytes])
        /\ UNCHANGED <<serverVars, call, answer, tries, pages, readVars, effects>>

ServeList(c) ==
    /\ pc[c] = "sent" /\ call[c].op = "list"
    /\ \E shown \in Shown, more \in IF backend = "s3" THEN {"no", "next", "same"} ELSE {"no"} :
          LET page == [n \in Name |-> IF n \in shown THEN Told(store[n].etag) ELSE IfNew]
          IN  Respond(c, [Status(200) EXCEPT !.page = page, !.more = more])
    /\ UNCHANGED <<serverVars, call, answer, tries, pages, readVars, effects>>

\* The server fails, having done nothing.
ServeError(c) ==
    /\ pc[c] = "sent"
    /\ Spend("loss", MaxLosses)
    /\ pc' = [pc EXCEPT ![c] = "served"]
    /\ response' = [response EXCEPT ![c] = Status(500)]
    /\ UNCHANGED <<serverVars, call, answer, tries, pages, readVars, effects>>

-----------------------------------------------------------------------------
(* The client.                                                             *)

Return(c) ==
    /\ pc' = [pc EXCEPT ![c] = "idle"]
    /\ call' = [call EXCEPT ![c] = Idle]
    /\ response' = [response EXCEPT ![c] = NoResponse]
    /\ tries' = [tries EXCEPT ![c] = 0]
    /\ pages' = [pages EXCEPT ![c] = 0]
    /\ UNCHANGED <<serverVars, effects>>

ReceiveWrite(c) ==
    /\ pc[c] = "served" /\ IsWrite(c)
    /\ answer' = [answer EXCEPT ![c] = AnswerTo(call[c].op, response[c])]
    /\ Return(c)
    /\ UNCHANGED <<readVars, spent>>

\* A failed get is tried anew, if at all, by another sync.
ReceiveGet(c) ==
    /\ pc[c] = "served" /\ call[c].op = "get"
    /\ saw' = [saw EXCEPT ![c][call[c].name] =
                 CASE AnswerTo("get", response[c]) = Done    -> response[c].bytes
                   [] AnswerTo("get", response[c]) = Missing -> 0
                   [] OTHER                                  -> Unread]
    /\ Return(c)
    /\ UNCHANGED <<answer, tags, spent>>

\* Mutant: one page too many.
PageWithin(n) == n <= MaxListPages

PagesLeft(n) == n < MaxListPages

\* S3 asks for the next page unless the server repeats its token, and gives up
\* after MaxListPages; the others take the first page for all there is.
MorePages(c) == response[c].more = "next"

ReceiveList(c) ==
    LET r == response[c]
        known == [n \in Name |-> IF r.page[n] # IfNew THEN r.page[n] ELSE tags[c][n]]
    IN  /\ pc[c] = "served" /\ call[c].op = "list"
        /\ \/ /\ AnswerTo("list", r) = Done /\ ~MorePages(c)
              /\ tags' = [tags EXCEPT ![c] = known]
              /\ Return(c)
           \/ /\ AnswerTo("list", r) = Done /\ MorePages(c) /\ PagesLeft(pages[c])
              /\ tags' = [tags EXCEPT ![c] = known]
              /\ pages' = [pages EXCEPT ![c] = @ + 1]
              /\ pc' = [pc EXCEPT ![c] = "sent"]
              /\ UNCHANGED <<serverVars, call, response, tries, effects>>
           \/ /\ AnswerTo("list", r) # Done \/ (MorePages(c) /\ ~PagesLeft(pages[c]))
              /\ tags' = [tags EXCEPT ![c] = NoPage]
              /\ Return(c)
        /\ UNCHANGED <<answer, saw, spent>>

\* The request or its response is lost, or the server answered 5xx: the SDK of
\* S3 sends the request once more.
Resend(c) ==
    /\ backend = "s3" /\ pc[c] # "idle" /\ tries[c] < MaxTries
    /\ \/ response[c].status = 500 /\ UNCHANGED spent
       \/ response[c].status # 500 /\ Spend("loss", MaxLosses)
    /\ pc' = [pc EXCEPT ![c] = "sent"]
    /\ response' = [response EXCEPT ![c] = NoResponse]
    /\ tries' = [tries EXCEPT ![c] = @ + 1]
    /\ UNCHANGED <<serverVars, call, answer, pages, readVars, effects>>

\* The client gives up: the call fails, whatever the server has done.
GiveUp(c) ==
    /\ pc[c] # "idle"
    /\ Spend("loss", MaxLosses)
    /\ answer' = IF IsWrite(c) THEN [answer EXCEPT ![c] = Failed] ELSE answer
    /\ tags' = IF call[c].op = "list" THEN [tags EXCEPT ![c] = NoPage] ELSE tags
    /\ Return(c)
    /\ UNCHANGED saw

Serve(c) == ServePut(c) \/ ServeDelete(c) \/ ServeGet(c) \/ ServeList(c)
Receive(c) == ReceiveWrite(c) \/ ReceiveGet(c) \/ ReceiveList(c)

Next == \E c \in Client :
    \/ SendPut(c) \/ SendDelete(c) \/ SendGet(c) \/ SendList(c)
    \/ Serve(c) \/ ServeError(c) \/ Receive(c) \/ Resend(c) \/ GiveUp(c)

Spec == Init /\ [][Next]_vars

-----------------------------------------------------------------------------
(* Properties *)

TypeOK ==
    /\ backend \in Backend /\ dialect \in {"full", "tagless", "unread"}
    /\ store \in [Name -> Contract!Object] /\ lastTag \in Nat
    /\ pc \in [Client -> {"idle", "sent", "served"}]
    /\ answer \in [Client -> Nat \cup {Refused, Failed, Missing, Done}]
    /\ tries \in [Client -> 0 .. MaxTries] /\ pages \in [Client -> 0 .. MaxListPages]
    /\ tags \in [Client -> [Name -> Nat \cup {IfNew}]]
    /\ saw \in [Client -> [Name -> Nat \cup {Unread}]]

\* A put that expects something takes effect at most once, although the SDK of
\* S3 may send it again after it did (one that expects no object may do so again
\* when the object was deleted in between).
ConditionalPutsOnce ==
    \A c \in Client :
        LET k == call[c]
        IN  /\ pc[c] # "idle" /\ k.op = "put" /\ k.want # Always
            /\ k.want = IfNew => spent.delete = 0
            => effects[k.bytes] <= 1

\* What a listed ETag is for: a caller that listed an object, then read it and
\* then puts with that ETag, replaces the very bytes that it has read.
ReplacesWhatItSaw ==
    [][\A c \in Client : LET k == call[c] IN
          /\ ServePut(c) /\ store'[k.name] # store[k.name]
          /\ k.want >= 0 /\ saw[c][k.name] # Unread
          => saw[c][k.name] = store[k.name].bytes]_vars

\* PreconditionFailed tells the engine that it lost a race and may try again.
\* It says so of a put that has taken effect only if the SDK sent that twice.
RefusedMeansUntouched ==
    [][\A c \in Client : ReceiveWrite(c) /\ call[c].op = "put" /\ answer'[c] = Refused
          => effects[call[c].bytes] = 0 \/ tries[c] > 1]_vars

\* Every put and delete is one step at the server between request and answer,
\* a second sending being a second call; what gets lost is only the answer.
ImplementsContract == Contract!ContractSpec
=============================================================================
