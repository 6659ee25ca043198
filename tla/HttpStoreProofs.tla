-------------------------- MODULE HttpStoreProofs ---------------------------
(***************************************************************************)
(* Proofs about HttpStore, for every backend, any number of devices and    *)
(* objects, and whatever requests and responses get lost.                  *)
(***************************************************************************)
EXTENDS HttpStore, TLAPS

-----------------------------------------------------------------------------
(* The types, and what is under way at which step *)

Request == [op : {"put", "delete", "get", "list"}, name : Name,
            want : Nat \cup {Always, IfNew}, bytes : Nat]

Page == [Name -> Nat \cup {IfNew}]

Response == [status : {0, 200, 404, 409, 412, 500}, tag : Nat, bytes : Nat, whole : BOOLEAN,
             page : Page, more : {"no", "next", "same"}]

CallFits(c) ==
    /\ pc[c] = "idle" <=> call[c] = Idle
    /\ pc[c] # "idle" => call[c] \in Request /\ tries[c] >= 1
    /\ call[c].op = "put" => call[c].bytes \in 1 .. spent.put
    /\ call[c].op = "delete" => spent.delete > 0

Messages ==
    /\ call \in [Client -> Request \cup {Idle}]
    /\ response \in [Client -> Response]

Counted ==
    /\ spent \in [{"put", "delete", "list", "loss"} -> Nat]
    /\ spent.put <= MaxPuts
    /\ effects \in [1 .. MaxPuts -> Nat]

TypeInv == TypeOK /\ Messages /\ Counted /\ \A c \in Client : CallFits(c)

LEMMA NoResponseTyped == NoResponse \in Response
<1>1. NoPage \in Page
  BY DEF NoPage, Page
<1> QED BY <1>1 DEF Response, NoResponse

LEMMA StatusTyped ==
    ASSUME NEW s \in {0, 200, 404, 409, 412, 500}
    PROVE  /\ Status(s) \in Response
           /\ Status(s).status = s /\ Status(s).page = NoPage
           /\ Status(s).whole = TRUE /\ Status(s).tag = 0 /\ Status(s).bytes = 0
<1>1. Status(s) = [NoResponse EXCEPT !.status = s]
  BY DEF Status
<1>2. Status(s) \in Response
  BY <1>1, NoResponseTyped DEF Response
<1>3. /\ Status(s).status = s /\ Status(s).page = NoPage
      /\ Status(s).tag = 0 /\ Status(s).bytes = 0
  BY <1>1 DEF NoResponse
<1>4. Status(s).whole = TRUE
  BY <1>1 DEF NoResponse
<1> QED BY <1>2, <1>3, <1>4

\* Everybody but c has the call and the request that they had.
LEMMA OthersFit ==
    ASSUME TypeInv, NEW c \in Client, NEW e \in Client, e # c,
           spent'.put = spent.put, spent'.delete = spent.delete,
           pc'[e] = pc[e], call'[e] = call[e], tries'[e] = tries[e]
    PROVE  CallFits(e)'
BY DEF TypeInv, CallFits

LEMMA TypeInit == Init => TypeInv
<1> SUFFICES ASSUME Init PROVE TypeInv
  OBVIOUS
<1>1. TypeOK
  BY HttpAssumption
     DEF Init, TypeOK, Absent, Idle, NoPage, IfNew, Done, Unread, Always, Contract!Object
<1>2. Messages
  BY NoResponseTyped DEF Init, Messages
<1>3. Counted
  BY HttpAssumption DEF Init, Counted
<1>4. \A c \in Client : CallFits(c)
  BY DEF Init, CallFits, Idle
<1> QED BY <1>1, <1>2, <1>3, <1>4 DEF TypeInv

\* A loss is counted, and nothing else is.
LEMMA LossCounted ==
    ASSUME Counted, Spend("loss", MaxLosses)
    PROVE  /\ spent' \in [{"put", "delete", "list", "loss"} -> Nat]
           /\ spent'.put = spent.put /\ spent'.delete = spent.delete
BY HttpAssumption DEF Counted, Spend

\* A new request.
LEMMA TypeSend ==
    ASSUME TypeInv, NEW c \in Client, NEW k \in Request, Send(c, k.op, k.name, k.want, k.bytes),
           k.op = "put" => k.bytes \in 1 .. spent'.put,
           k.op = "delete" => spent'.delete > 0,
           spent'.put >= spent.put, spent'.delete >= spent.delete,
           spent' \in [{"put", "delete", "list", "loss"} -> Nat], spent'.put <= MaxPuts,
           pages' \in [Client -> 0 .. MaxListPages],
           tags' \in [Client -> Page], saw' \in [Client -> [Name -> Nat \cup {Unread}]]
    PROVE  TypeInv'
<1>0. 1 \in 0 .. MaxTries
  BY HttpAssumption
<1>1. TypeOK'
  BY <1>0 DEF Send, TypeInv, TypeOK, Page, serverVars
<1>2. [op |-> k.op, name |-> k.name, want |-> k.want, bytes |-> k.bytes] = k
  BY DEF Request
<1>3. Messages'
  BY <1>2 DEF Send, TypeInv, Messages
<1>4. Counted'
  BY DEF Send, TypeInv, Counted
<1>5. ASSUME NEW e \in Client PROVE CallFits(e)'
  <2>1. CASE e = c
    <3>1. /\ call'[e] = k
          /\ pc'[e] = "sent" /\ tries'[e] = 1
      BY <1>2, <2>1 DEF Send, TypeInv, TypeOK, Messages
    <3> QED BY <3>1 DEF CallFits, Idle, Request
  <2>2. CASE e # c
    <3>1. pc'[e] = pc[e] /\ call'[e] = call[e] /\ tries'[e] = tries[e]
      BY <2>2 DEF Send, TypeInv, TypeOK, Messages
    <3>2. spent.put \in Nat /\ spent.delete \in Nat /\ spent'.put \in Nat /\ spent'.delete \in Nat
      BY DEF TypeInv, Counted
    <3>3. CallFits(e) /\ (pc[e] = "idle" \/ call[e] \in Request)
      BY DEF TypeInv, CallFits
    <3> QED BY <3>1, <3>2, <3>3 DEF CallFits, Request
  <2> QED BY <2>1, <2>2
<1> QED BY <1>1, <1>3, <1>4, <1>5 DEF TypeInv

LEMMA TypeSendPut == ASSUME TypeInv, NEW c \in Client, SendPut(c) PROVE TypeInv'
<1>1. PICK n \in Name : \E want \in Wants(c, n) : Send(c, "put", n, want, spent.put + 1)
  BY DEF SendPut
<1>2. PICK want \in Wants(c, n) : Send(c, "put", n, want, spent.put + 1)
  BY <1>1
<1>3. want \in Nat \cup {Always, IfNew}
  BY DEF Wants, TypeInv, TypeOK
<1>4. /\ spent' \in [{"put", "delete", "list", "loss"} -> Nat] /\ spent.put \in Nat
      /\ spent'.put = spent.put + 1 /\ spent'.put <= MaxPuts /\ spent'.delete = spent.delete
      /\ spent.delete \in Nat
  BY HttpAssumption DEF SendPut, Spend, TypeInv, Counted
<1>5. /\ pages' \in [Client -> 0 .. MaxListPages] /\ tags' \in [Client -> Page]
      /\ saw' \in [Client -> [Name -> Nat \cup {Unread}]]
  BY DEF SendPut, TypeInv, TypeOK, readVars, Page
<1> DEFINE k == [op |-> "put", name |-> n, want |-> want, bytes |-> spent.put + 1]
<1>6. /\ k \in Request /\ Send(c, k.op, k.name, k.want, k.bytes)
      /\ k.op = "put" => k.bytes \in 1 .. spent'.put
      /\ k.op = "delete" => spent'.delete > 0
  BY <1>2, <1>3, <1>4, <1>5 DEF Request
<1> HIDE DEF k
<1>7. spent'.put >= spent.put /\ spent'.delete >= spent.delete
  BY <1>4
<1> QED BY <1>4, <1>5, <1>6, <1>7, TypeSend

LEMMA TypeSendDelete == ASSUME TypeInv, NEW c \in Client, SendDelete(c) PROVE TypeInv'
<1>1. PICK n \in Name : Send(c, "delete", n, Always, 0)
  BY DEF SendDelete
<1>4. /\ spent' \in [{"put", "delete", "list", "loss"} -> Nat] /\ spent.put \in Nat
      /\ spent'.put = spent.put /\ spent'.put <= MaxPuts /\ spent'.delete = spent.delete + 1
      /\ spent.delete \in Nat
  BY HttpAssumption DEF SendDelete, Spend, TypeInv, Counted
<1>5. /\ pages' \in [Client -> 0 .. MaxListPages] /\ tags' \in [Client -> Page]
      /\ saw' \in [Client -> [Name -> Nat \cup {Unread}]]
  BY DEF SendDelete, TypeInv, TypeOK, readVars, Page
<1> DEFINE k == [op |-> "delete", name |-> n, want |-> Always, bytes |-> 0]
<1>6. /\ k \in Request /\ Send(c, k.op, k.name, k.want, k.bytes)
      /\ k.op = "put" => k.bytes \in 1 .. spent'.put
      /\ k.op = "delete" => spent'.delete > 0
  BY <1>1, <1>4, <1>5 DEF Request
<1> HIDE DEF k
<1>7. spent'.put >= spent.put /\ spent'.delete >= spent.delete
  BY <1>4
<1> QED BY <1>4, <1>5, <1>6, <1>7, TypeSend

LEMMA TypeSendGet == ASSUME TypeInv, NEW c \in Client, SendGet(c) PROVE TypeInv'
<1>1. PICK n \in Name : Send(c, "get", n, Always, 0)
  BY DEF SendGet
<1>4. /\ spent' \in [{"put", "delete", "list", "loss"} -> Nat] /\ spent.put \in Nat
      /\ spent'.put = spent.put /\ spent'.put <= MaxPuts /\ spent'.delete = spent.delete
      /\ spent.delete \in Nat
  BY HttpAssumption DEF SendGet, TypeInv, Counted
<1>5. /\ pages' \in [Client -> 0 .. MaxListPages] /\ tags' \in [Client -> Page]
      /\ saw' \in [Client -> [Name -> Nat \cup {Unread}]]
  BY DEF SendGet, TypeInv, TypeOK, readVars, Page
<1> DEFINE k == [op |-> "get", name |-> n, want |-> Always, bytes |-> 0]
<1>6. /\ k \in Request /\ Send(c, k.op, k.name, k.want, k.bytes)
      /\ k.op = "put" => k.bytes \in 1 .. spent'.put
      /\ k.op = "delete" => spent'.delete > 0
  BY <1>1, <1>4, <1>5 DEF Request
<1> HIDE DEF k
<1>7. spent'.put >= spent.put /\ spent'.delete >= spent.delete
  BY <1>4
<1> QED BY <1>4, <1>5, <1>6, <1>7, TypeSend

LEMMA TypeSendList == ASSUME TypeInv, NEW c \in Client, SendList(c) PROVE TypeInv'
<1>1. PICK n \in Name : Send(c, "list", n, Always, 0)
  BY DEF SendList
<1>4. /\ spent' \in [{"put", "delete", "list", "loss"} -> Nat] /\ spent.put \in Nat
      /\ spent'.put = spent.put /\ spent'.put <= MaxPuts /\ spent'.delete = spent.delete
      /\ spent.delete \in Nat
  BY HttpAssumption DEF SendList, Spend, TypeInv, Counted
<1>5. /\ pages' \in [Client -> 0 .. MaxListPages] /\ tags' \in [Client -> Page]
      /\ saw' \in [Client -> [Name -> Nat \cup {Unread}]]
  BY HttpAssumption DEF SendList, TypeInv, TypeOK, Page, NoPage, Unread
<1> DEFINE k == [op |-> "list", name |-> n, want |-> Always, bytes |-> 0]
<1>6. /\ k \in Request /\ Send(c, k.op, k.name, k.want, k.bytes)
      /\ k.op = "put" => k.bytes \in 1 .. spent'.put
      /\ k.op = "delete" => spent'.delete > 0
  BY <1>1, <1>4, <1>5 DEF Request
<1> HIDE DEF k
<1>7. spent'.put >= spent.put /\ spent'.delete >= spent.delete
  BY <1>4
<1> QED BY <1>4, <1>5, <1>6, <1>7, TypeSend

\* The call of c goes on: it is served, or sent once more.
LEMMA TypeGoesOn ==
    ASSUME TypeInv, NEW c \in Client, pc[c] # "idle", NEW step \in {"sent", "served"},
           pc' = [pc EXCEPT ![c] = step], UNCHANGED <<backend, dialect, call>>,
           store' \in [Name -> Contract!Object], lastTag' \in Nat,
           answer' \in [Client -> Nat \cup {Refused, Failed, Missing, Done}],
           response' \in [Client -> Response],
           tries' \in [Client -> 0 .. MaxTries], \A e \in Client : tries'[e] >= tries[e],
           pages' \in [Client -> 0 .. MaxListPages], tags' \in [Client -> Page],
           saw' \in [Client -> [Name -> Nat \cup {Unread}]],
           spent' \in [{"put", "delete", "list", "loss"} -> Nat],
           spent'.put = spent.put, spent'.delete = spent.delete,
           effects' \in [1 .. MaxPuts -> Nat]
    PROVE  TypeInv'
<1>1. TypeOK'
  BY DEF TypeInv, TypeOK, Page
<1>2. Messages' /\ Counted'
  BY DEF TypeInv, Messages, Counted
<1>3. ASSUME NEW e \in Client PROVE CallFits(e)'
  <2>1. CallFits(e) /\ tries'[e] >= tries[e] /\ call'[e] = call[e]
    BY DEF TypeInv
  <2>2. tries[e] \in Nat /\ tries'[e] \in Nat
    <3>1. tries[e] \in 0 .. MaxTries /\ tries'[e] \in 0 .. MaxTries
      BY DEF TypeInv, TypeOK
    <3> QED BY <3>1
  <2>3. pc'[e] = "idle" <=> pc[e] = "idle"
    BY DEF TypeInv, TypeOK
  <2> QED BY <2>1, <2>2, <2>3 DEF CallFits
<1> QED BY <1>1, <1>2, <1>3 DEF TypeInv

LEMMA TypeRespond ==
    ASSUME TypeInv, NEW c \in Client, NEW r \in Response, Respond(c, r)
    PROVE  /\ pc' = [pc EXCEPT ![c] = "served"]
           /\ response' \in [Client -> Response]
           /\ spent' \in [{"put", "delete", "list", "loss"} -> Nat]
           /\ spent'.put = spent.put /\ spent'.delete = spent.delete
<1>1. [r EXCEPT !.whole = FALSE] \in Response
  BY ZenonT(30) DEF Response
<1>2. CASE response' = [response EXCEPT ![c] = r] /\ UNCHANGED spent
  BY <1>2 DEF Respond, TypeInv, Messages, Counted
<1>3. CASE /\ Spend("loss", MaxLosses)
           /\ response' = [response EXCEPT ![c] = [r EXCEPT !.whole = FALSE]]
  BY <1>1, <1>3, LossCounted DEF Respond, TypeInv, Messages
<1> QED BY <1>2, <1>3 DEF Respond

\* A request that is served without a change of any object.
LEMMA TypeServeRead ==
    ASSUME TypeInv, NEW c \in Client, pc[c] # "idle", NEW r \in Response, Respond(c, r),
           UNCHANGED <<serverVars, call, answer, tries, pages, readVars, effects>>
    PROVE  TypeInv'
<1>1. \A e \in Client : tries'[e] >= tries[e]
  BY DEF TypeInv, TypeOK
<1>2. /\ store' \in [Name -> Contract!Object] /\ lastTag' \in Nat
      /\ answer' \in [Client -> Nat \cup {Refused, Failed, Missing, Done}]
      /\ tries' \in [Client -> 0 .. MaxTries]
      /\ pages' \in [Client -> 0 .. MaxListPages] /\ tags' \in [Client -> Page]
      /\ saw' \in [Client -> [Name -> Nat \cup {Unread}]]
      /\ effects' \in [1 .. MaxPuts -> Nat]
      /\ UNCHANGED <<backend, dialect, call>>
  BY DEF TypeInv, TypeOK, Counted, serverVars, readVars, Page
<1> QED BY <1>1, <1>2, TypeRespond, TypeGoesOn

\* A put that takes effect is the k.bytes-th.
LEMMA ServesPut ==
    ASSUME TypeInv, NEW c \in Client, pc[c] = "sent", call[c].op = "put"
    PROVE  /\ call[c] \in Request /\ call[c].name \in Name
           /\ call[c].bytes \in 1 .. MaxPuts
           /\ store[call[c].name] \in Contract!Object
<1>1. call[c] \in Request /\ call[c].bytes \in 1 .. spent.put
  BY DEF TypeInv, CallFits
<1>2. spent.put \in Nat /\ spent.put <= MaxPuts /\ MaxPuts \in Nat
  BY HttpAssumption DEF TypeInv, Counted
<1> QED BY <1>1, <1>2 DEF Request, TypeInv, TypeOK

LEMMA ToldTyped == ASSUME NEW tag \in Nat PROVE Told(tag) \in {0, tag}
BY DEF Told

LEMMA TypeServePut == ASSUME TypeInv, NEW c \in Client, ServePut(c) PROVE TypeInv'
<1>1. pc[c] = "sent" /\ call[c].op = "put"
  BY DEF ServePut
<1>2. \A e \in Client : tries'[e] >= tries[e]
  BY DEF ServePut, TypeInv, TypeOK
<1>3. /\ answer' \in [Client -> Nat \cup {Refused, Failed, Missing, Done}]
      /\ tries' \in [Client -> 0 .. MaxTries]
      /\ pages' \in [Client -> 0 .. MaxListPages] /\ tags' \in [Client -> Page]
      /\ saw' \in [Client -> [Name -> Nat \cup {Unread}]]
      /\ UNCHANGED <<backend, dialect, call>>
  BY DEF ServePut, TypeInv, TypeOK, readVars, Page
<1>4. CASE /\ lastTag' = lastTag + 1
           /\ store' = [store EXCEPT ![call[c].name] =
                           [etag |-> lastTag', bytes |-> call[c].bytes]]
           /\ effects' = [effects EXCEPT ![call[c].bytes] = @ + 1]
           /\ Respond(c, [Status(200) EXCEPT !.tag = Told(lastTag')])
  <2>1. lastTag' \in Nat
    BY <1>4 DEF TypeInv, TypeOK
  <2>2. [Status(200) EXCEPT !.tag = Told(lastTag')] \in Response
    BY <2>1, StatusTyped, ToldTyped DEF Response
  <2>3. [etag |-> lastTag', bytes |-> call[c].bytes] \in Contract!Object
    BY <1>1, <2>1, ServesPut DEF Contract!Object
  <2>4. store' \in [Name -> Contract!Object]
    BY <1>4, <2>3 DEF TypeInv, TypeOK
  <2>5. effects' \in [1 .. MaxPuts -> Nat]
    <3>1. effects \in [1 .. MaxPuts -> Nat] /\ call[c].bytes \in 1 .. MaxPuts
      BY <1>1, ServesPut DEF TypeInv, Counted
    <3>2. effects[call[c].bytes] + 1 \in Nat
      BY <3>1
    <3> QED BY <1>4, <3>1, <3>2
  <2> HIDE <1>4
  <2>6. Respond(c, [Status(200) EXCEPT !.tag = Told(lastTag')])
    BY <1>4
  <2> QED BY <1>1, <1>2, <1>3, <2>1, <2>2, <2>4, <2>5, <2>6, TypeRespond, TypeGoesOn
<1>5. CASE /\ \E status \in {409, 412} : Respond(c, Status(status))
           /\ UNCHANGED <<store, lastTag, effects>>
  <2>1. PICK status \in {409, 412} : Respond(c, Status(status))
    BY <1>5
  <2>2. Status(status) \in Response
    BY StatusTyped
  <2>3. UNCHANGED <<serverVars, call, answer, tries, pages, readVars, effects>>
    BY <1>5 DEF ServePut, serverVars
  <2> QED BY <1>1, <2>1, <2>2, <2>3, TypeServeRead
<1> QED BY <1>4, <1>5 DEF ServePut

LEMMA TypeServeDelete == ASSUME TypeInv, NEW c \in Client, ServeDelete(c) PROVE TypeInv'
<1>1. \A e \in Client : tries'[e] >= tries[e]
  BY DEF ServeDelete, TypeInv, TypeOK
<1>2. Absent \in Contract!Object
  BY DEF Absent, Contract!Object
<1>3. /\ answer' \in [Client -> Nat \cup {Refused, Failed, Missing, Done}]
      /\ tries' \in [Client -> 0 .. MaxTries]
      /\ pages' \in [Client -> 0 .. MaxListPages] /\ tags' \in [Client -> Page]
      /\ saw' \in [Client -> [Name -> Nat \cup {Unread}]]
      /\ store' \in [Name -> Contract!Object] /\ lastTag' \in Nat
      /\ effects' \in [1 .. MaxPuts -> Nat]
      /\ UNCHANGED <<backend, dialect, call>>
  BY <1>2 DEF ServeDelete, TypeInv, TypeOK, Counted, readVars, Page
<1>4. PICK s \in {404, 200} : Respond(c, Status(s))
  BY DEF ServeDelete
<1>5. Status(s) \in Response
  BY StatusTyped
<1>6. pc[c] # "idle"
  BY DEF ServeDelete
<1>7. /\ pc' = [pc EXCEPT ![c] = "served"]
      /\ response' \in [Client -> Response]
      /\ spent' \in [{"put", "delete", "list", "loss"} -> Nat]
      /\ spent'.put = spent.put /\ spent'.delete = spent.delete
  BY <1>4, <1>5, TypeRespond
<1> QED BY <1>1, <1>3, <1>6, <1>7, TypeGoesOn

LEMMA TypeServeGet == ASSUME TypeInv, NEW c \in Client, ServeGet(c) PROVE TypeInv'
<1>1. pc[c] # "idle" /\ call[c] \in Request
  BY DEF ServeGet, TypeInv, CallFits
<1>2. store[call[c].name] \in Contract!Object
  BY <1>1 DEF Request, TypeInv, TypeOK
<1>3. PICK r \in Response : Respond(c, r)
  <2>1. Status(404) \in Response /\ Status(200) \in Response
    BY StatusTyped
  <2>2. [Status(200) EXCEPT !.bytes = store[call[c].name].bytes] \in Response
    BY <1>2, <2>1 DEF Response, Contract!Object
  <2> QED BY <2>1, <2>2 DEF ServeGet
<1>4. UNCHANGED <<serverVars, call, answer, tries, pages, readVars, effects>>
  BY DEF ServeGet
<1> QED BY <1>1, <1>3, <1>4, TypeServeRead

\* A page of a listing tells ETags of the objects that are there.
LEMMA PageTyped ==
    ASSUME TypeInv, NEW shown
    PROVE  [n \in Name |-> IF n \in shown THEN Told(store[n].etag) ELSE IfNew] \in Page
<1>1. \A n \in Name : store[n].etag \in Nat
  BY DEF TypeInv, TypeOK, Contract!Object
<1>2. \A n \in Name : Told(store[n].etag) \in Nat
  BY <1>1, ToldTyped
<1> QED BY <1>2 DEF Page

LEMMA ListingTyped ==
    ASSUME NEW r \in Response, NEW page \in Page, NEW more \in {"no", "next", "same"}
    PROVE  [r EXCEPT !.page = page, !.more = more] \in Response
<1> DEFINE x == [r EXCEPT !.page = page]
<1>1. x \in Response
  BY DEF Response
<1>2. [r EXCEPT !.page = page, !.more = more] = [x EXCEPT !.more = more]
  OBVIOUS
<1> HIDE DEF x
<1>3. [x EXCEPT !.more = more] \in Response
  BY <1>1 DEF Response
<1> QED BY <1>2, <1>3

LEMMA TypeServeList == ASSUME TypeInv, NEW c \in Client, ServeList(c) PROVE TypeInv'
<1>1. PICK shown \in Shown, more \in {"no", "next", "same"} :
         Respond(c, [Status(200) EXCEPT
                       !.page = [n \in Name |-> IF n \in shown THEN Told(store[n].etag)
                                                               ELSE IfNew],
                       !.more = more])
  BY DEF ServeList
<1> DEFINE page == [n \in Name |-> IF n \in shown THEN Told(store[n].etag) ELSE IfNew]
<1>2. page \in Page
  BY PageTyped
<1> HIDE DEF page
<1>3. [Status(200) EXCEPT !.page = page, !.more = more] \in Response
  <2>1. Status(200) \in Response
    BY StatusTyped
  <2> QED BY <1>2, <2>1, ListingTyped
<1>4. Respond(c, [Status(200) EXCEPT !.page = page, !.more = more])
  BY <1>1 DEF page
<1>5. /\ pc[c] # "idle"
      /\ UNCHANGED <<serverVars, call, answer, tries, pages, readVars, effects>>
  BY DEF ServeList
<1> QED BY <1>3, <1>4, <1>5, TypeServeRead

LEMMA TypeServeError == ASSUME TypeInv, NEW c \in Client, ServeError(c) PROVE TypeInv'
<1>1. /\ pc' = [pc EXCEPT ![c] = "served"]
      /\ response' = [response EXCEPT ![c] = Status(500)] /\ Status(500) \in Response
      /\ pc[c] # "idle"
  BY StatusTyped DEF ServeError
<1>2. response' \in [Client -> Response]
  BY <1>1 DEF TypeInv, Messages
<1>3. \A e \in Client : tries'[e] >= tries[e]
  BY DEF ServeError, TypeInv, TypeOK
<1>4. /\ store' \in [Name -> Contract!Object] /\ lastTag' \in Nat
      /\ answer' \in [Client -> Nat \cup {Refused, Failed, Missing, Done}]
      /\ tries' \in [Client -> 0 .. MaxTries]
      /\ pages' \in [Client -> 0 .. MaxListPages] /\ tags' \in [Client -> Page]
      /\ saw' \in [Client -> [Name -> Nat \cup {Unread}]]
      /\ effects' \in [1 .. MaxPuts -> Nat]
      /\ UNCHANGED <<backend, dialect, call>>
  BY DEF ServeError, TypeInv, TypeOK, Counted, serverVars, readVars, Page
<1>5. Counted /\ Spend("loss", MaxLosses)
  BY DEF ServeError, TypeInv
<1> QED BY <1>1, <1>2, <1>3, <1>4, <1>5, LossCounted, TypeGoesOn

LEMMA ErrorTyped ==
    ASSUME NEW refusals, NEW r PROVE ErrorOf(refusals, r) \in {Refused, Failed, Missing}
BY DEF ErrorOf

LEMMA AnswerTyped ==
    ASSUME TypeOK, NEW op, NEW r \in Response
    PROVE  AnswerTo(op, r) \in Nat \cup {Refused, Failed, Missing, Done}
<1>1. r.tag \in Nat
  BY DEF Response
<1>2. Read(r, Done) \in {Failed, Done} /\ Read(r, r.tag) \in {Failed, r.tag}
  BY DEF Read
<1>3. backend \in {"webdav", "onedrive", "proton", "s3"}
  BY HttpAssumption DEF TypeOK
<1>4. CASE backend = "webdav"
  BY <1>1, <1>2, <1>4, ErrorTyped DEF AnswerTo, WebDav
<1>5. CASE backend = "onedrive"
  BY <1>1, <1>2, <1>5, ErrorTyped DEF AnswerTo, OneDrive
<1>6. CASE backend = "proton"
  BY <1>1, <1>2, <1>6, ErrorTyped DEF AnswerTo, Proton
<1>7. CASE backend = "s3"
  BY <1>1, <1>2, <1>7, ErrorTyped DEF AnswerTo, S3
<1> QED BY <1>3, <1>4, <1>5, <1>6, <1>7

\* The call of c is over.
LEMMA TypeReturn ==
    ASSUME TypeInv, NEW c \in Client, Return(c),
           answer' \in [Client -> Nat \cup {Refused, Failed, Missing, Done}],
           tags' \in [Client -> Page], saw' \in [Client -> [Name -> Nat \cup {Unread}]],
           spent' \in [{"put", "delete", "list", "loss"} -> Nat],
           spent'.put = spent.put, spent'.delete = spent.delete
    PROVE  TypeInv'
<1>0. 0 \in 0 .. MaxTries /\ 0 \in 0 .. MaxListPages
  BY HttpAssumption
<1>1. TypeOK'
  BY <1>0 DEF Return, TypeInv, TypeOK, Page, serverVars
<1>2. Messages' /\ Counted'
  BY NoResponseTyped DEF Return, TypeInv, Messages, Counted
<1>3. ASSUME NEW e \in Client PROVE CallFits(e)'
  <2>1. CASE e = c
    <3>1. pc'[e] = "idle" /\ call'[e] = Idle
      BY <2>1 DEF Return, TypeInv, TypeOK, Messages
    <3> QED BY <3>1 DEF CallFits, Idle
  <2>2. CASE e # c
    <3>1. pc'[e] = pc[e] /\ call'[e] = call[e] /\ tries'[e] = tries[e]
      BY <2>2 DEF Return, TypeInv, TypeOK, Messages
    <3> QED BY <2>2, <3>1, OthersFit
  <2> QED BY <2>1, <2>2
<1> QED BY <1>1, <1>2, <1>3 DEF TypeInv

LEMMA TypeReceiveWrite == ASSUME TypeInv, NEW c \in Client, ReceiveWrite(c) PROVE TypeInv'
<1>1. answer' \in [Client -> Nat \cup {Refused, Failed, Missing, Done}]
  <2>1. TypeOK /\ response[c] \in Response
    BY DEF TypeInv, Messages
  <2>2. AnswerTo(call[c].op, response[c]) \in Nat \cup {Refused, Failed, Missing, Done}
    BY <2>1, AnswerTyped
  <2> QED BY <2>2 DEF ReceiveWrite, TypeInv, TypeOK
<1>2. /\ Return(c)
      /\ tags' \in [Client -> Page] /\ saw' \in [Client -> [Name -> Nat \cup {Unread}]]
      /\ spent' \in [{"put", "delete", "list", "loss"} -> Nat]
      /\ spent'.put = spent.put /\ spent'.delete = spent.delete
  BY DEF ReceiveWrite, TypeInv, TypeOK, Counted, Page, readVars
<1> QED BY <1>1, <1>2, TypeReturn

\* What a get has shown.
Shows(r) == CASE AnswerTo("get", r) = Done    -> r.bytes
              [] AnswerTo("get", r) = Missing -> 0
              [] OTHER                        -> Unread

LEMMA ShowsTyped == ASSUME NEW r \in Response PROVE Shows(r) \in Nat \cup {Unread}
BY DEF Shows, Response, Done, Missing

LEMMA TypeReceiveGet == ASSUME TypeInv, NEW c \in Client, ReceiveGet(c) PROVE TypeInv'
<1>1. saw' \in [Client -> [Name -> Nat \cup {Unread}]]
  <2>1. response[c] \in Response /\ saw \in [Client -> [Name -> Nat \cup {Unread}]]
    BY DEF TypeInv, TypeOK, Messages
  <2>2. saw' = [saw EXCEPT ![c][call[c].name] = Shows(response[c])]
    BY DEF ReceiveGet, Shows
  <2> QED BY <2>1, <2>2, ShowsTyped
<1>2. /\ Return(c)
      /\ answer' \in [Client -> Nat \cup {Refused, Failed, Missing, Done}]
      /\ tags' \in [Client -> Page]
      /\ spent' \in [{"put", "delete", "list", "loss"} -> Nat]
      /\ spent'.put = spent.put /\ spent'.delete = spent.delete
  BY DEF ReceiveGet, TypeInv, TypeOK, Counted, Page
<1> QED BY <1>1, <1>2, TypeReturn

\* What c knows of the objects with a page of the listing.
Known(c) == [n \in Name |-> IF response[c].page[n] # IfNew THEN response[c].page[n]
                                                          ELSE tags[c][n]]

LEMMA KnownTyped == ASSUME TypeInv, NEW c \in Client PROVE Known(c) \in Page
<1>1. response[c].page \in Page /\ tags[c] \in Page
  BY DEF TypeInv, TypeOK, Messages, Response, Page
<1> QED BY <1>1 DEF Known, Page

LEMMA NoPageTyped == NoPage \in Page
BY DEF NoPage, Page

\* A listing ends, with what it has found or as if it had found nothing, or goes on.
LEMMA ReceiveListCases ==
    ASSUME NEW c \in Client, ReceiveList(c)
    PROVE  /\ pc[c] = "served" /\ call[c].op = "list"
           /\ UNCHANGED <<answer, saw, spent>>
           /\ \/ /\ tags' = [tags EXCEPT ![c] = Known(c)] /\ Return(c)
              \/ /\ tags' = [tags EXCEPT ![c] = Known(c)]
                 /\ PagesLeft(pages[c]) /\ pages' = [pages EXCEPT ![c] = @ + 1]
                 /\ pc' = [pc EXCEPT ![c] = "sent"]
                 /\ UNCHANGED <<serverVars, call, response, tries, effects>>
              \/ /\ tags' = [tags EXCEPT ![c] = NoPage] /\ Return(c)
BY Zenon DEF ReceiveList, Known

LEMMA TypeReceiveList == ASSUME TypeInv, NEW c \in Client, ReceiveList(c) PROVE TypeInv'
<1>1. tags' \in [Client -> Page]
  <2>1. Known(c) \in Page /\ NoPage \in Page /\ tags \in [Client -> Page]
    BY KnownTyped, NoPageTyped DEF TypeInv, TypeOK, Page
  <2> QED BY <2>1, ReceiveListCases
<1>2. /\ answer' \in [Client -> Nat \cup {Refused, Failed, Missing, Done}]
      /\ saw' \in [Client -> [Name -> Nat \cup {Unread}]]
      /\ spent' \in [{"put", "delete", "list", "loss"} -> Nat]
      /\ spent'.put = spent.put /\ spent'.delete = spent.delete
  BY ReceiveListCases DEF TypeInv, TypeOK, Counted
<1>3. CASE Return(c)
  BY <1>1, <1>2, <1>3, TypeReturn
<1>4. CASE /\ PagesLeft(pages[c]) /\ pages' = [pages EXCEPT ![c] = @ + 1]
           /\ pc' = [pc EXCEPT ![c] = "sent"]
           /\ UNCHANGED <<serverVars, call, response, tries, effects>>
  <2>1. pages' \in [Client -> 0 .. MaxListPages]
    <3>1. pages[c] \in 0 .. MaxListPages /\ pages[c] < MaxListPages /\ MaxListPages \in Nat
      BY <1>4, HttpAssumption DEF PagesLeft, TypeInv, TypeOK
    <3>2. pages[c] + 1 \in 0 .. MaxListPages
      BY <3>1
    <3> QED BY <1>4, <3>2 DEF TypeInv, TypeOK
  <2>2. \A e \in Client : tries'[e] >= tries[e]
    BY <1>4 DEF TypeInv, TypeOK
  <2>3. /\ store' \in [Name -> Contract!Object] /\ lastTag' \in Nat
        /\ response' \in [Client -> Response] /\ tries' \in [Client -> 0 .. MaxTries]
        /\ effects' \in [1 .. MaxPuts -> Nat]
        /\ UNCHANGED <<backend, dialect, call>>
    BY <1>4 DEF TypeInv, TypeOK, Messages, Counted, serverVars
  <2>4. pc[c] # "idle" /\ pc' = [pc EXCEPT ![c] = "sent"]
    BY <1>4, ReceiveListCases
  <2> QED BY <1>1, <1>2, <2>1, <2>2, <2>3, <2>4, TypeGoesOn
<1> QED BY <1>3, <1>4, ReceiveListCases

\* A request is sent once more.
LEMMA TypeResend == ASSUME TypeInv, NEW c \in Client, Resend(c) PROVE TypeInv'
<1>1. /\ pc[c] # "idle" /\ pc' = [pc EXCEPT ![c] = "sent"]
      /\ UNCHANGED <<backend, dialect, call>>
  BY DEF Resend, serverVars
<1>2. /\ spent' \in [{"put", "delete", "list", "loss"} -> Nat]
      /\ spent'.put = spent.put /\ spent'.delete = spent.delete
  BY LossCounted DEF Resend, TypeInv, Counted
<1>3. tries[c] \in 0 .. MaxTries /\ tries[c] < MaxTries /\ MaxTries \in Nat
  BY HttpAssumption DEF Resend, TypeInv, TypeOK
<1>4. tries[c] + 1 \in 0 .. MaxTries /\ tries[c] + 1 >= tries[c]
  BY <1>3
<1>5. tries' \in [Client -> 0 .. MaxTries]
  BY <1>4 DEF Resend, TypeInv, TypeOK
<1>6. ASSUME NEW e \in Client PROVE tries'[e] >= tries[e]
  <2>1. tries[e] \in 0 .. MaxTries
    BY DEF TypeInv, TypeOK
  <2>2. tries'[e] = tries[e] \/ (e = c /\ tries'[e] = tries[c] + 1)
    BY DEF Resend, TypeInv, TypeOK
  <2> QED BY <1>4, <2>1, <2>2
<1>7. /\ store' \in [Name -> Contract!Object] /\ lastTag' \in Nat
      /\ answer' \in [Client -> Nat \cup {Refused, Failed, Missing, Done}]
      /\ response' \in [Client -> Response]
      /\ pages' \in [Client -> 0 .. MaxListPages] /\ tags' \in [Client -> Page]
      /\ saw' \in [Client -> [Name -> Nat \cup {Unread}]]
      /\ effects' \in [1 .. MaxPuts -> Nat]
  BY NoResponseTyped DEF Resend, TypeInv, TypeOK, Messages, Counted, serverVars, readVars, Page
<1> QED BY <1>1, <1>2, <1>5, <1>6, <1>7, TypeGoesOn

LEMMA TypeGiveUp == ASSUME TypeInv, NEW c \in Client, GiveUp(c) PROVE TypeInv'
<1>1. /\ spent' \in [{"put", "delete", "list", "loss"} -> Nat]
      /\ spent'.put = spent.put /\ spent'.delete = spent.delete
  BY LossCounted DEF GiveUp, TypeInv
<1>2. /\ Return(c)
      /\ answer' \in [Client -> Nat \cup {Refused, Failed, Missing, Done}]
      /\ tags' \in [Client -> Page] /\ saw' \in [Client -> [Name -> Nat \cup {Unread}]]
  BY NoPageTyped DEF GiveUp, TypeInv, TypeOK, Page
<1> QED BY <1>1, <1>2, TypeReturn

LEMMA TypeStep == TypeInv /\ [Next]_vars => TypeInv'
<1> SUFFICES ASSUME TypeInv, [Next]_vars PROVE TypeInv'
  OBVIOUS
<1>1. CASE UNCHANGED vars
  BY <1>1 DEF TypeInv, TypeOK, Messages, Counted, CallFits, vars, serverVars, clientVars, readVars
<1>2. ASSUME NEW c \in Client,
             \/ SendPut(c) \/ SendDelete(c) \/ SendGet(c) \/ SendList(c)
             \/ Serve(c) \/ ServeError(c) \/ Receive(c) \/ Resend(c) \/ GiveUp(c)
      PROVE  TypeInv'
  BY <1>2, TypeSendPut, TypeSendDelete, TypeSendGet, TypeSendList, TypeServePut,
     TypeServeDelete, TypeServeGet, TypeServeList, TypeServeError, TypeReceiveWrite,
     TypeReceiveGet, TypeReceiveList, TypeResend, TypeGiveUp DEF Serve, Receive
<1> QED BY <1>1, <1>2 DEF Next

LEMMA AlwaysTyped == Spec => []TypeInv
BY TypeInit, TypeStep, PTL DEF Spec

\* Every variable keeps its type: the answers a caller can get are ETags,
\* "refused", "failed", "missing" and "done", and no request is sent nor page
\* asked for more often than allowed.
THEOREM HttpTypes == Spec => []TypeOK
<1>1. TypeInv => TypeOK
  BY DEF TypeInv
<1> QED BY <1>1, AlwaysTyped, PTL

-----------------------------------------------------------------------------
(* What a step of c does to the calls and to the objects *)

Acts(c) ==
    \/ SendPut(c) \/ SendDelete(c) \/ SendGet(c) \/ SendList(c)
    \/ Serve(c) \/ ServeError(c) \/ Receive(c) \/ Resend(c) \/ GiveUp(c)

SameOf(e) ==
    /\ pc'[e] = pc[e] /\ call'[e] = call[e] /\ response'[e] = response[e]
    /\ tries'[e] = tries[e] /\ tags'[e] = tags[e] /\ saw'[e] = saw[e]

LEMMA SameOfOthers ==
    ASSUME TypeInv, NEW c \in Client, Acts(c), NEW e \in Client, e # c
    PROVE  SameOf(e)
<1> USE DEF TypeInv, TypeOK, Messages, SameOf, readVars, serverVars
<1>1. CASE SendPut(c) \/ SendDelete(c) \/ SendGet(c) \/ SendList(c)
  <2>1. CASE SendPut(c)
    BY <2>1 DEF SendPut, Send
  <2>2. CASE SendDelete(c)
    BY <2>2 DEF SendDelete, Send
  <2>3. CASE SendGet(c)
    BY <2>3 DEF SendGet, Send
  <2>4. CASE SendList(c)
    BY <2>4 DEF SendList, Send
  <2> QED BY <1>1, <2>1, <2>2, <2>3, <2>4
<1>2. CASE ServePut(c) \/ ServeDelete(c) \/ ServeGet(c) \/ ServeList(c) \/ ServeError(c)
  <2>1. CASE ServePut(c)
    <3>1. PICK r : Respond(c, r)
      BY <2>1 DEF ServePut
    <3> QED BY <2>1, <3>1 DEF ServePut, Respond
  <2>2. CASE ServeDelete(c)
    BY <2>2 DEF ServeDelete, Respond
  <2>3. CASE ServeGet(c)
    BY <2>3 DEF ServeGet, Respond
  <2>4. CASE ServeList(c)
    BY <2>4 DEF ServeList, Respond
  <2>5. CASE ServeError(c)
    BY <2>5 DEF ServeError
  <2> QED BY <1>2, <2>1, <2>2, <2>3, <2>4, <2>5
<1>3. CASE ReceiveWrite(c) \/ ReceiveGet(c) \/ GiveUp(c)
  BY <1>3 DEF ReceiveWrite, ReceiveGet, GiveUp, Return
<1>4. CASE ReceiveList(c)
  BY <1>4, ReceiveListCases DEF Return
<1>5. CASE Resend(c)
  BY <1>5 DEF Resend
<1> QED BY <1>1, <1>2, <1>3, <1>4, <1>5 DEF Acts, Serve, Receive

\* What becomes of the objects.
PutsObject(c) ==
    /\ ServePut(c) /\ Holds(call[c], store[call[c].name])
    /\ lastTag' = lastTag + 1
    /\ store' = [store EXCEPT ![call[c].name] = [etag |-> lastTag', bytes |-> call[c].bytes]]
    /\ effects' = [effects EXCEPT ![call[c].bytes] = @ + 1]

DeletesObject(c) ==
    /\ ServeDelete(c)
    /\ store' = [store EXCEPT ![call[c].name] = Absent]
    /\ UNCHANGED <<lastTag, effects>>

KeepsObjects == UNCHANGED <<store, lastTag, effects>>

LEMMA ObjectCases ==
    ASSUME NEW c \in Client, Acts(c)
    PROVE  PutsObject(c) \/ DeletesObject(c) \/ KeepsObjects
<1> USE DEF KeepsObjects, serverVars
<1>1. CASE SendPut(c) \/ SendDelete(c) \/ SendGet(c) \/ SendList(c)
  BY <1>1 DEF SendPut, SendDelete, SendGet, SendList, Send
<1>2. CASE ServePut(c)
  BY <1>2 DEF ServePut, PutsObject
<1>3. CASE ServeDelete(c)
  BY <1>3 DEF ServeDelete, DeletesObject
<1>4. CASE ServeGet(c) \/ ServeList(c) \/ ServeError(c) \/ Resend(c)
  BY <1>4 DEF ServeGet, ServeList, ServeError, Resend
<1>5. CASE ReceiveWrite(c) \/ ReceiveGet(c) \/ GiveUp(c)
  BY <1>5 DEF ReceiveWrite, ReceiveGet, GiveUp, Return
<1>6. CASE ReceiveList(c)
  BY <1>6, ReceiveListCases DEF Return
<1> QED BY <1>1, <1>2, <1>3, <1>4, <1>5, <1>6 DEF Acts, Serve, Receive

\* What becomes of the call of c.
NewPut(c) ==
    /\ pc[c] = "idle" /\ pc'[c] = "sent" /\ tries'[c] = 1
    /\ call'[c].op = "put" /\ call'[c].bytes = spent.put + 1
    /\ call'[c].name \in Name /\ call'[c].want \in Wants(c, call'[c].name)
    /\ spent'.put = spent.put + 1 /\ spent'.put <= MaxPuts /\ spent'.delete = spent.delete
    /\ UNCHANGED <<store, lastTag, effects, response, tags, saw>>

NewOther(c) ==
    /\ pc[c] = "idle" /\ pc'[c] = "sent"
    /\ call'[c].op # "put" /\ call'[c].want = Always
    /\ spent'.put = spent.put /\ spent'.delete >= spent.delete
    /\ UNCHANGED <<store, lastTag, effects, response>>
    /\ \/ UNCHANGED <<tags, saw>> /\ call'[c].op # "list"
       \/ tags'[c] = NoPage /\ saw'[c] = [n \in Name |-> Unread]

Goes(c) ==
    /\ pc[c] # "idle" /\ pc'[c] # "idle" /\ call'[c] = call[c]
    /\ spent'.put = spent.put /\ spent'.delete = spent.delete
    /\ saw' = saw /\ (call[c].op # "list" => tags' = tags)

Ends(c) ==
    /\ pc[c] # "idle" /\ pc'[c] = "idle" /\ call'[c] = Idle /\ response'[c] = NoResponse
    /\ spent'.put = spent.put /\ spent'.delete = spent.delete
    /\ UNCHANGED <<store, lastTag, effects>>
    /\ call[c].op # "list" => tags' = tags
    /\ call[c].op # "get" => saw' = saw

LEMMA SendPutNew == ASSUME TypeInv, NEW c \in Client, SendPut(c) PROVE NewPut(c)
<1>1. PICK n \in Name : \E want \in Wants(c, n) : Send(c, "put", n, want, spent.put + 1)
  BY DEF SendPut
<1>2. PICK want \in Wants(c, n) : Send(c, "put", n, want, spent.put + 1)
  BY <1>1
<1>3. /\ spent'.put = spent.put + 1 /\ spent'.put <= MaxPuts /\ spent'.delete = spent.delete
  BY HttpAssumption DEF SendPut, Spend, TypeInv, Counted
<1>4. tags' = tags /\ saw' = saw
  BY DEF SendPut, readVars
<1>5. /\ pc[c] = "idle" /\ pc'[c] = "sent" /\ tries'[c] = 1
      /\ call'[c] = [op |-> "put", name |-> n, want |-> want, bytes |-> spent.put + 1]
      /\ UNCHANGED <<store, lastTag, effects, response>>
  BY <1>2 DEF Send, TypeInv, TypeOK, Messages, serverVars
<1> QED BY <1>3, <1>4, <1>5 DEF NewPut

LEMMA SendDeleteNew == ASSUME TypeInv, NEW c \in Client, SendDelete(c) PROVE NewOther(c)
<1>1. PICK n \in Name : Send(c, "delete", n, Always, 0)
  BY DEF SendDelete
<1>2. spent'.put = spent.put /\ spent'.delete >= spent.delete
  BY HttpAssumption DEF SendDelete, Spend, TypeInv, Counted
<1>3. tags' = tags /\ saw' = saw
  BY DEF SendDelete, readVars
<1>5. /\ pc[c] = "idle" /\ pc'[c] = "sent" /\ tries'[c] = 1
      /\ call'[c] = [op |-> "delete", name |-> n, want |-> Always, bytes |-> 0]
      /\ UNCHANGED <<store, lastTag, effects, response>>
  BY <1>1 DEF Send, TypeInv, TypeOK, Messages, serverVars
<1> QED BY <1>2, <1>3, <1>5 DEF NewOther

LEMMA SendGetNew == ASSUME TypeInv, NEW c \in Client, SendGet(c) PROVE NewOther(c)
<1>1. PICK n \in Name : Send(c, "get", n, Always, 0)
  BY DEF SendGet
<1>2. spent'.put = spent.put /\ spent'.delete >= spent.delete
  BY DEF SendGet, TypeInv, Counted
<1>3. tags' = tags /\ saw' = saw
  BY DEF SendGet, readVars
<1>5. /\ pc[c] = "idle" /\ pc'[c] = "sent" /\ tries'[c] = 1
      /\ call'[c] = [op |-> "get", name |-> n, want |-> Always, bytes |-> 0]
      /\ UNCHANGED <<store, lastTag, effects, response>>
  BY <1>1 DEF Send, TypeInv, TypeOK, Messages, serverVars
<1> QED BY <1>2, <1>3, <1>5 DEF NewOther

LEMMA SendListNew == ASSUME TypeInv, NEW c \in Client, SendList(c) PROVE NewOther(c)
<1>1. PICK n \in Name : Send(c, "list", n, Always, 0)
  BY DEF SendList
<1>2. spent'.put = spent.put /\ spent'.delete >= spent.delete
  BY HttpAssumption DEF SendList, Spend, TypeInv, Counted
<1>3. tags'[c] = NoPage /\ saw'[c] = [m \in Name |-> Unread]
  BY DEF SendList, TypeInv, TypeOK
<1>5. /\ pc[c] = "idle" /\ pc'[c] = "sent" /\ tries'[c] = 1
      /\ call'[c] = [op |-> "list", name |-> n, want |-> Always, bytes |-> 0]
      /\ UNCHANGED <<store, lastTag, effects, response>>
  BY <1>1 DEF Send, TypeInv, TypeOK, Messages, serverVars
<1> QED BY <1>2, <1>3, <1>5 DEF NewOther

\* A response that arrives broken is that response otherwise.
LEMMA RespondKeeps ==
    ASSUME TypeInv, NEW c \in Client, NEW r \in Response, Respond(c, r)
    PROVE  /\ pc'[c] = "served"
           /\ spent'.put = spent.put /\ spent'.delete = spent.delete
           /\ response'[c].status = r.status /\ response'[c].page = r.page
           /\ response'[c].tag = r.tag /\ response'[c].bytes = r.bytes
           /\ response'[c] = r \/ r.status = 200
<1>1. spent'.put = spent.put /\ spent'.delete = spent.delete
  BY LossCounted DEF Respond, TypeInv
<1> DEFINE broken == [r EXCEPT !.whole = FALSE]
<1>2. /\ broken.status = r.status /\ broken.page = r.page
      /\ broken.tag = r.tag /\ broken.bytes = r.bytes
  BY DEF Response
<1>3. /\ pc' = [pc EXCEPT ![c] = "served"]
      /\ \/ response' = [response EXCEPT ![c] = r]
         \/ r.status = 200 /\ response' = [response EXCEPT ![c] = broken]
  BY Zenon DEF Respond
<1> HIDE DEF broken
<1>4. pc'[c] = "served" /\ (response'[c] = r \/ (r.status = 200 /\ response'[c] = broken))
  BY <1>3 DEF TypeInv, TypeOK, Messages
<1> QED BY <1>1, <1>2, <1>4

LEMMA ServesGo ==
    ASSUME TypeInv, NEW c \in Client,
           ServePut(c) \/ ServeDelete(c) \/ ServeGet(c) \/ ServeList(c)
    PROVE  Goes(c)
<1>1. PICK r : Respond(c, r)
  BY DEF ServePut, ServeDelete, ServeGet, ServeList
<1>2. pc'[c] # "idle"
  BY <1>1 DEF Respond, TypeInv, TypeOK
<1>3. spent'.put = spent.put /\ spent'.delete = spent.delete
  BY <1>1, LossCounted DEF Respond, TypeInv
<1>4. pc[c] # "idle" /\ call' = call /\ saw' = saw /\ tags' = tags
  BY DEF ServePut, ServeDelete, ServeGet, ServeList, readVars
<1> QED BY <1>2, <1>3, <1>4 DEF Goes

LEMMA ReturnEnds ==
    ASSUME TypeInv, NEW c \in Client, Return(c)
    PROVE  /\ pc'[c] = "idle" /\ call'[c] = Idle /\ response'[c] = NoResponse
           /\ UNCHANGED <<store, lastTag, effects>>
BY DEF Return, TypeInv, TypeOK, Messages, serverVars

LEMMA CallCases ==
    ASSUME TypeInv, NEW c \in Client, Acts(c)
    PROVE  NewPut(c) \/ NewOther(c) \/ Goes(c) \/ Ends(c)
<1>1. CASE SendPut(c) \/ SendDelete(c) \/ SendGet(c) \/ SendList(c)
  BY <1>1, SendPutNew, SendDeleteNew, SendGetNew, SendListNew
<1>2. CASE ServePut(c) \/ ServeDelete(c) \/ ServeGet(c) \/ ServeList(c)
  BY <1>2, ServesGo
<1>3. CASE ServeError(c)
  <2>1. spent'.put = spent.put /\ spent'.delete = spent.delete
    BY <1>3, LossCounted DEF ServeError, TypeInv
  <2> QED BY <1>3, <2>1 DEF ServeError, Goes, TypeInv, TypeOK, readVars
<1>4. CASE Resend(c)
  <2>1. spent'.put = spent.put /\ spent'.delete = spent.delete
    BY <1>4, LossCounted DEF Resend, TypeInv
  <2> QED BY <1>4, <2>1 DEF Resend, Goes, TypeInv, TypeOK, readVars
<1>5. CASE ReceiveWrite(c)
  BY <1>5, ReturnEnds DEF ReceiveWrite, Ends, readVars
<1>6. CASE ReceiveGet(c)
  BY <1>6, ReturnEnds DEF ReceiveGet, Ends
<1>7. CASE GiveUp(c)
  <2>1. spent'.put = spent.put /\ spent'.delete = spent.delete
    BY <1>7, LossCounted DEF GiveUp, TypeInv
  <2> QED BY <1>7, <2>1, ReturnEnds DEF GiveUp, Ends
<1>8. CASE ReceiveList(c)
  <2>1. CASE Return(c)
    BY <1>8, <2>1, ReturnEnds, ReceiveListCases DEF Ends
  <2>2. CASE pc' = [pc EXCEPT ![c] = "sent"] /\ call' = call
    BY <1>8, <2>2, ReceiveListCases DEF Goes, TypeInv, TypeOK
  <2> QED BY <1>8, <2>1, <2>2, ReceiveListCases
<1> QED BY <1>1, <1>2, <1>3, <1>4, <1>5, <1>6, <1>7, <1>8 DEF Acts, Serve, Receive

-----------------------------------------------------------------------------
(* ETags only grow: none that anybody has heard of will be made again *)

ObjectsBehind == \A n \in Name : store[n].etag <= lastTag

HeardBehind(c) ==
    /\ \A n \in Name : tags[c][n] <= lastTag /\ response[c].page[n] <= lastTag
    /\ call[c].want <= lastTag

TagsBehind == ObjectsBehind /\ \A c \in Client : HeardBehind(c)

LEMMA LastTagGrows ==
    ASSUME TypeInv, NEW c \in Client, Acts(c)
    PROVE  lastTag \in Nat /\ lastTag' \in Nat /\ lastTag <= lastTag'
<1>1. lastTag' = lastTag + 1 \/ lastTag' = lastTag
  BY Zenon, ObjectCases DEF PutsObject, DeletesObject, KeepsObjects
<1> QED BY <1>1 DEF TypeInv, TypeOK

LEMMA NoPageBehind == ASSUME TypeInv, NEW n \in Name PROVE NoPage[n] <= lastTag
BY DEF NoPage, IfNew, TypeInv, TypeOK

LEMMA ObjectsStayBehind ==
    ASSUME TypeInv, TagsBehind, NEW c \in Client, Acts(c)
    PROVE  ObjectsBehind'
<1>1. ASSUME NEW n \in Name PROVE store'[n].etag <= lastTag'
  <2>1. /\ store[n].etag <= lastTag /\ store[n].etag \in Nat /\ lastTag \in Nat
    BY DEF TagsBehind, ObjectsBehind, TypeInv, TypeOK, Contract!Object
  <2>2. CASE PutsObject(c)
    <3>1. store'[n] = store[n] \/ store'[n] = [etag |-> lastTag', bytes |-> call[c].bytes]
      BY <2>2 DEF PutsObject, TypeInv, TypeOK
    <3> QED BY <2>1, <2>2, <3>1 DEF PutsObject
  <2>3. CASE DeletesObject(c)
    <3>1. store'[n] = store[n] \/ store'[n] = Absent
      BY <2>3 DEF DeletesObject, TypeInv, TypeOK
    <3> QED BY <2>1, <2>3, <3>1 DEF DeletesObject, Absent
  <2>4. CASE KeepsObjects
    BY <2>1, <2>4 DEF KeepsObjects
  <2> QED BY <2>2, <2>3, <2>4, ObjectCases
<1> QED BY <1>1 DEF ObjectsBehind

\* The page that a step of c leaves in its response.
LEMMA PageCases ==
    ASSUME TypeInv, NEW c \in Client, Acts(c)
    PROVE  \/ response'[c].page = response[c].page
           \/ response'[c].page = NoPage
           \/ ServeList(c)
<1>0. /\ NoResponse.page = NoPage
      /\ \A s \in {404, 200, 409, 412, 500} : Status(s) \in Response /\ Status(s).page = NoPage
  <2>1. NoResponse.page = NoPage
    BY DEF NoResponse
  <2>2. ASSUME NEW s \in {404, 200, 409, 412, 500}
        PROVE  Status(s) \in Response /\ Status(s).page = NoPage
    BY StatusTyped
  <2> QED BY <2>1, <2>2
<1>1. CASE SendPut(c) \/ SendDelete(c) \/ SendGet(c) \/ SendList(c)
  BY <1>1 DEF SendPut, SendDelete, SendGet, SendList, Send
<1>2. CASE ServePut(c)
  <2>1. PICK s \in {409, 412} : \/ Respond(c, [Status(200) EXCEPT !.tag = Told(lastTag')])
                               \/ Respond(c, Status(s))
    BY <1>2 DEF ServePut
  <2>2. Told(lastTag') \in Nat
    BY LastTagGrows, ToldTyped
  <2>3. /\ [Status(200) EXCEPT !.tag = Told(lastTag')] \in Response
        /\ [Status(200) EXCEPT !.tag = Told(lastTag')].page = NoPage
    BY <1>0, <2>2 DEF Response
  <2>4. Status(s) \in Response /\ Status(s).page = NoPage
    BY <1>0
  <2>5. PICK r \in Response : Respond(c, r) /\ r.page = NoPage
    BY Zenon, <2>1, <2>3, <2>4
  <2> QED BY <2>5, RespondKeeps
<1>3. CASE ServeDelete(c)
  <2>1. PICK s \in {404, 200} : Respond(c, Status(s))
    BY <1>3 DEF ServeDelete
  <2> QED BY <1>0, <2>1, RespondKeeps
<1>4. CASE ServeGet(c)
  <2>1. PICK r \in Response : Respond(c, r) /\ r.page = NoPage
    <3>1. call[c] \in Request /\ store[call[c].name].bytes \in Nat
      BY <1>4 DEF ServeGet, TypeInv, CallFits, Request, TypeOK, Contract!Object
    <3>2. /\ [Status(200) EXCEPT !.bytes = store[call[c].name].bytes] \in Response
          /\ [Status(200) EXCEPT !.bytes = store[call[c].name].bytes].page = NoPage
      BY <1>0, <3>1 DEF Response
    <3>3. \/ Respond(c, Status(404))
          \/ Respond(c, [Status(200) EXCEPT !.bytes = store[call[c].name].bytes])
      BY <1>4 DEF ServeGet
    <3>4. Status(404) \in Response /\ Status(404).page = NoPage
      BY <1>0
    <3> QED BY Zenon, <3>2, <3>3, <3>4
  <2> QED BY <2>1, RespondKeeps
<1>5. CASE ServeError(c)
  BY <1>0, <1>5 DEF ServeError, TypeInv, Messages
<1>6. CASE Resend(c)
  BY <1>0, <1>6 DEF Resend, TypeInv, Messages
<1>7. CASE Receive(c) \/ GiveUp(c)
  <2>1. Return(c) \/ response' = response
    BY <1>7, ReceiveListCases DEF Receive, ReceiveWrite, ReceiveGet, GiveUp
  <2> QED BY <1>0, <2>1, ReturnEnds
<1> QED BY <1>1, <1>2, <1>3, <1>4, <1>5, <1>6, <1>7 DEF Acts, Serve

LEMMA ListedPage ==
    ASSUME TypeInv, NEW c \in Client, ServeList(c), NEW n \in Name
    PROVE  response'[c].page[n] \in {IfNew, 0, store[n].etag}
<1>1. PICK shown \in Shown, more \in {"no", "next", "same"} :
         Respond(c, [Status(200) EXCEPT
                       !.page = [m \in Name |-> IF m \in shown THEN Told(store[m].etag)
                                                               ELSE IfNew],
                       !.more = more])
  BY DEF ServeList
<1> DEFINE page == [m \in Name |-> IF m \in shown THEN Told(store[m].etag) ELSE IfNew]
<1>2. page \in Page
  BY PageTyped
<1>3. page[n] \in {IfNew, 0, store[n].etag}
  <2>1. store[n].etag \in Nat
    BY DEF TypeInv, TypeOK, Contract!Object
  <2> QED BY <2>1, ToldTyped
<1> DEFINE r == [Status(200) EXCEPT !.page = page, !.more = more]
<1>4. Respond(c, r)
  BY <1>1
<1> HIDE DEF page
<1>5. r \in Response /\ r.page = page
  <2>1. Status(200) \in Response
    BY StatusTyped
  <2>2. r \in Response
    BY <1>2, <2>1, ListingTyped
  <2>3. r.page = page
    BY <2>1 DEF Response
  <2> QED BY <2>2, <2>3
<1> HIDE DEF r
<1> QED BY <1>3, <1>4, <1>5, RespondKeeps

\* What a step of c makes of the ETags that c expects.
LEMMA TagCases ==
    ASSUME TypeInv, NEW c \in Client, Acts(c)
    PROVE  tags'[c] = tags[c] \/ tags'[c] = NoPage \/ (ReceiveList(c) /\ tags'[c] = Known(c))
<1>1. CASE ReceiveList(c)
  BY <1>1, ReceiveListCases DEF TypeInv, TypeOK
<1>2. CASE GiveUp(c)
  BY <1>2 DEF GiveUp, TypeInv, TypeOK
<1>3. CASE SendList(c)
  BY <1>3 DEF SendList, TypeInv, TypeOK
<1>4. CASE SendPut(c) \/ SendDelete(c) \/ SendGet(c) \/ Serve(c) \/ ServeError(c) \/ Resend(c)
           \/ ReceiveWrite(c) \/ ReceiveGet(c)
  BY <1>4 DEF SendPut, SendDelete, SendGet, Serve, ServePut, ServeDelete, ServeGet, ServeList,
              ServeError, Resend, ReceiveWrite, ReceiveGet, readVars
<1> QED BY <1>1, <1>2, <1>3, <1>4 DEF Acts, Receive

LEMMA HeardStaysBehind ==
    ASSUME TypeInv, TagsBehind, NEW c \in Client, Acts(c), NEW e \in Client
    PROVE  HeardBehind(e)'
<1>1. lastTag \in Nat /\ lastTag' \in Nat /\ lastTag <= lastTag'
  BY LastTagGrows
<1>2. HeardBehind(e)
  BY DEF TagsBehind
<1>3. \A n \in Name : tags[e][n] \in Int /\ response[e].page[n] \in Int
  BY DEF TypeInv, TypeOK, Messages, Response, Page, IfNew
<1>4. call[e].want \in Int
  BY DEF TypeInv, Messages, Request, Idle, Always, IfNew
<1>5. CASE e # c
  <2>1. SameOf(e)
    BY <1>5, SameOfOthers
  <2> QED BY <1>1, <1>2, <1>3, <1>4, <2>1 DEF SameOf, HeardBehind
<1>6. CASE e = c
  <2>1. ASSUME NEW n \in Name PROVE tags'[e][n] <= lastTag'
    <3>1. NoPage[n] \in Int /\ NoPage[n] <= lastTag
      BY NoPageBehind DEF NoPage, IfNew
    <3>2. Known(e)[n] \in {tags[e][n], response[e].page[n]}
      BY DEF Known
    <3>3. tags'[e][n] \in {tags[e][n], NoPage[n], response[e].page[n]}
      BY <1>6, <3>2, TagCases
    <3> QED BY <1>1, <1>2, <1>3, <3>1, <3>3 DEF HeardBehind
  <2>2. ASSUME NEW n \in Name PROVE response'[e].page[n] <= lastTag'
    <3>1. NoPage[n] \in Int /\ NoPage[n] <= lastTag
      BY NoPageBehind DEF NoPage, IfNew
    <3>2. store[n].etag <= lastTag /\ store[n].etag \in Nat
      BY DEF TagsBehind, ObjectsBehind, TypeInv, TypeOK, Contract!Object
    <3>3. response'[e].page[n] \in {response[e].page[n], NoPage[n], IfNew, 0, store[n].etag}
      BY <1>6, PageCases, ListedPage
    <3> QED BY <1>1, <1>2, <1>3, <3>1, <3>2, <3>3 DEF HeardBehind, IfNew
  <2>3. call'[e].want <= lastTag'
    <3>1. CASE NewPut(e)
      <4>1. \A n \in Name : Wants(e, n) \subseteq {Always, IfNew, tags[e][n]}
        BY DEF Wants
      <4>2. PICK n \in Name : call'[e].want \in {Always, IfNew, tags[e][n]}
        BY <3>1, <4>1 DEF NewPut
      <4> QED BY <1>1, <1>2, <1>3, <4>2 DEF HeardBehind, Always, IfNew
    <3>2. CASE NewOther(e)
      BY <1>1, <3>2 DEF NewOther, Always
    <3>3. CASE Goes(e)
      BY <1>1, <1>2, <1>4, <3>3 DEF Goes, HeardBehind
    <3>4. CASE Ends(e)
      BY <1>1, <3>4 DEF Ends, Idle, Always
    <3> QED BY <1>6, <3>1, <3>2, <3>3, <3>4, CallCases
  <2> QED BY <2>1, <2>2, <2>3 DEF HeardBehind
<1> QED BY <1>5, <1>6

LEMMA BehindInit == Init => TagsBehind
BY DEF Init, TagsBehind, ObjectsBehind, HeardBehind, Absent, Idle, NoPage, NoResponse, IfNew, Always

LEMMA BehindStep == TypeInv /\ TagsBehind /\ [Next]_vars => TagsBehind'
<1> SUFFICES ASSUME TypeInv, TagsBehind, [Next]_vars PROVE TagsBehind'
  OBVIOUS
<1>1. CASE UNCHANGED vars
  BY <1>1 DEF TagsBehind, ObjectsBehind, HeardBehind, vars, serverVars, clientVars, readVars
<1>2. ASSUME NEW c \in Client, Acts(c) PROVE TagsBehind'
  BY <1>2, ObjectsStayBehind, HeardStaysBehind DEF TagsBehind
<1> QED BY <1>1, <1>2 DEF Next, Acts

-----------------------------------------------------------------------------
(* Every put has a number of its own *)

Numbered ==
    /\ \A k \in 1 .. MaxPuts : k > spent.put => effects[k] = 0
    /\ \A c, e \in Client :
          c # e /\ call[c].op = "put" /\ call[e].op = "put" => call[c].bytes # call[e].bytes

LEMMA EffectsOfAPut ==
    ASSUME TypeInv, NEW c \in Client, Acts(c)
    PROVE  \/ effects' = effects
           \/ /\ call[c].op = "put" /\ call[c].bytes \in 1 .. spent.put /\ pc[c] = "sent"
              /\ effects' = [effects EXCEPT ![call[c].bytes] = @ + 1]
<1>1. CASE PutsObject(c)
  BY <1>1 DEF PutsObject, ServePut, TypeInv, CallFits
<1> QED BY <1>1, ObjectCases DEF DeletesObject, KeepsObjects

\* How the put that e has under way came to be.
LEMMA PutCases ==
    ASSUME TypeInv, NEW c \in Client, Acts(c), NEW e \in Client, call'[e].op = "put"
    PROVE  \/ call'[e] = call[e]
           \/ e = c /\ NewPut(c)
<1>1. CASE e # c
  BY <1>1, SameOfOthers DEF SameOf
<1>2. CASE e = c
  <2>1. call'[c] # Idle
    BY <1>2 DEF Idle
  <2> QED BY <1>2, <2>1, CallCases DEF NewOther, Goes, Ends
<1> QED BY <1>1, <1>2

LEMMA NumberedStep ==
    ASSUME TypeInv, Numbered, NEW c \in Client, Acts(c)
    PROVE  Numbered'
<1>0. spent.put \in Nat /\ spent'.put \in Nat /\ spent.put <= spent'.put
  <2>1. spent.put \in Nat
    BY DEF TypeInv, Counted
  <2>2. spent'.put = spent.put \/ spent'.put = spent.put + 1
    BY CallCases DEF NewPut, NewOther, Goes, Ends
  <2> QED BY <2>1, <2>2
<1>1. ASSUME NEW k \in 1 .. MaxPuts, k > spent'.put PROVE effects'[k] = 0
  <2>1. effects[k] = 0 /\ k > spent.put
    BY <1>0, <1>1, HttpAssumption DEF Numbered
  <2>2. CASE effects' = effects
    BY <2>1, <2>2
  <2>3. CASE /\ call[c].bytes \in 1 .. spent.put
             /\ effects' = [effects EXCEPT ![call[c].bytes] = @ + 1]
    <3>1. k # call[c].bytes
      BY <1>0, <2>1, <2>3
    <3>2. effects \in [1 .. MaxPuts -> Nat]
      BY DEF TypeInv, Counted
    <3> QED BY <2>1, <2>3, <3>1, <3>2
  <2> QED BY <2>2, <2>3, EffectsOfAPut
<1>2. ASSUME NEW d \in Client, NEW e \in Client, d # e,
             call'[d].op = "put", call'[e].op = "put"
      PROVE  call'[d].bytes # call'[e].bytes
  <2>1. \A x \in Client : call[x].op = "put" => call[x].bytes \in 1 .. spent.put
    BY DEF TypeInv, CallFits
  <2>2. CASE call'[d] = call[d] /\ call'[e] = call[e]
    BY <1>2, <2>2 DEF Numbered
  <2>3. CASE call'[d] = call[d] /\ e = c /\ NewPut(c)
    <3>1. call'[e].bytes = spent.put + 1 /\ call'[d].bytes \in 1 .. spent.put
      BY <1>2, <2>1, <2>3 DEF NewPut
    <3> QED BY <1>0, <3>1
  <2>4. CASE call'[e] = call[e] /\ d = c /\ NewPut(c)
    <3>1. call'[d].bytes = spent.put + 1 /\ call'[e].bytes \in 1 .. spent.put
      BY <1>2, <2>1, <2>4 DEF NewPut
    <3> QED BY <1>0, <3>1
  <2> QED BY <1>2, <2>2, <2>3, <2>4, PutCases
<1> QED BY <1>1, <1>2 DEF Numbered

-----------------------------------------------------------------------------
(* A put that expects something takes effect once *)

Conditional(c) ==
    /\ call[c].op = "put" /\ call[c].want # Always
    /\ call[c].want = IfNew => spent.delete = 0

\* Once it did, what it expects is no longer so and will not be again.
PutOnce(c) ==
    Conditional(c) =>
        /\ effects[call[c].bytes] <= 1
        /\ effects[call[c].bytes] = 1 => ~Holds(call[c], store[call[c].name])

LEMMA PutIsTyped ==
    ASSUME TypeInv, NEW c \in Client, call[c].op = "put"
    PROVE  /\ call[c].name \in Name /\ call[c].want \in Int /\ call[c].bytes \in Nat \ {0}
           /\ call[c].bytes \in 1 .. MaxPuts /\ call[c].bytes <= spent.put
           /\ effects[call[c].bytes] \in Nat
           /\ store[call[c].name] \in [etag : Nat, bytes : Nat]
<1>1. call[c] \in Request /\ call[c].bytes \in 1 .. spent.put
  <2>1. call[c] # Idle
    BY DEF Idle
  <2> QED BY <2>1 DEF TypeInv, CallFits, Messages
<1>2. spent.put \in Nat /\ spent.put <= MaxPuts /\ MaxPuts \in Nat
  BY HttpAssumption DEF TypeInv, Counted
<1>3. call[c].bytes \in 1 .. MaxPuts /\ call[c].bytes \in Nat \ {0} /\ call[c].bytes <= spent.put
  BY <1>1, <1>2
<1>4. effects[call[c].bytes] \in Nat
  BY <1>3 DEF TypeInv, Counted
<1>5. call[c].name \in Name /\ call[c].want \in Int
  BY <1>1 DEF Request, Always, IfNew
<1>6. store[call[c].name] \in [etag : Nat, bytes : Nat]
  BY <1>5 DEF TypeInv, TypeOK, Contract!Object
<1> QED BY <1>3, <1>4, <1>5, <1>6

\* A delete was counted when it was sent.
LEMMA DeleteIsCounted ==
    ASSUME TypeInv, NEW c \in Client, Acts(c), DeletesObject(c)
    PROVE  spent'.delete > 0
<1>1. call[c].op = "delete" /\ spent.delete > 0
  BY DEF DeletesObject, ServeDelete, TypeInv, CallFits
<1>2. CASE Goes(c)
  BY <1>1, <1>2 DEF Goes
<1>3. Goes(c)
  BY ServesGo DEF DeletesObject
<1> QED BY <1>2, <1>3

\* No step makes an expectation come true that was disappointed.
LEMMA StaysDisappointed ==
    ASSUME TypeInv, TagsBehind, NEW c \in Client, Acts(c), NEW e \in Client,
           call[e].op = "put", call[e].want # Always,
           call[e].want = IfNew => spent'.delete = 0,
           \/ ~Holds(call[e], store[call[e].name])
           \/ PutsObject(c) /\ call[c].name = call[e].name
    PROVE  ~Holds(call[e], store'[call[e].name])
<1> DEFINE n == call[e].name
           want == call[e].want
<1>1. /\ n \in Name /\ want \in Int /\ want <= lastTag /\ lastTag \in Nat
      /\ store[n] \in [etag : Nat, bytes : Nat] /\ store \in [Name -> Contract!Object]
  BY PutIsTyped DEF TagsBehind, HeardBehind, TypeInv, TypeOK
<1>2. CASE PutsObject(c) /\ call[c].name = n
  <2>1. call[c].op = "put" /\ call[c].bytes \in Nat \ {0}
    BY <1>2, PutIsTyped DEF PutsObject, ServePut
  <2>2. store'[n] = [etag |-> lastTag', bytes |-> call[c].bytes] /\ lastTag' = lastTag + 1
    BY <1>1, <1>2 DEF PutsObject
  <2>3. store'[n].etag = lastTag + 1 /\ store'[n].bytes # 0
    BY <2>1, <2>2
  <2>4. store'[n].etag # want
    BY <1>1, <2>3
  <2> QED BY <2>3, <2>4 DEF Holds
<1>3. CASE DeletesObject(c) /\ call[c].name = n
  <2>1. store'[n].etag = 0
    BY <1>1, <1>3 DEF DeletesObject, Absent
  <2>2. want # IfNew
    BY <1>3, DeleteIsCounted
  <2> QED BY <1>1, <2>1, <2>2 DEF Holds
<1>4. CASE store'[n] = store[n] /\ ~Holds(call[e], store[n])
  BY <1>4 DEF Holds
<1>5. PutsObject(c) /\ call[c].name # n => store'[n] = store[n]
  BY <1>1 DEF PutsObject
<1>6. DeletesObject(c) /\ call[c].name # n => store'[n] = store[n]
  BY <1>1 DEF DeletesObject
<1>7. KeepsObjects => store'[n] = store[n]
  BY DEF KeepsObjects
<1>8. PutsObject(c) => ~DeletesObject(c) /\ ~KeepsObjects
  BY <1>1 DEF PutsObject, DeletesObject, KeepsObjects
<1> HIDE DEF n, want
<1> QED BY <1>2, <1>3, <1>4, <1>5, <1>6, <1>7, <1>8, ObjectCases DEF n

LEMMA PutOnceStep ==
    ASSUME TypeInv, TagsBehind, Numbered, NEW c \in Client, Acts(c), NEW e \in Client, PutOnce(e)
    PROVE  PutOnce(e)'
<1> SUFFICES ASSUME Conditional(e)'
             PROVE  /\ effects'[call'[e].bytes] <= 1
                    /\ effects'[call'[e].bytes] = 1 => ~Holds(call'[e], store'[call'[e].name])
  BY DEF PutOnce, Conditional, Holds
<1>1. call'[e].op = "put" /\ call'[e].want # Always /\ (call'[e].want = IfNew => spent'.delete = 0)
  BY DEF Conditional
<1>2. CASE e = c /\ NewPut(c)
  <2>1. call'[e].bytes = spent.put + 1 /\ spent.put + 1 <= MaxPuts /\ effects' = effects
    BY <1>2 DEF NewPut
  <2>2. spent.put + 1 \in 1 .. MaxPuts /\ spent.put + 1 > spent.put
    BY <2>1, HttpAssumption DEF TypeInv, Counted
  <2>3. effects[spent.put + 1] = 0
    BY <2>2 DEF Numbered
  <2> QED BY <2>1, <2>3
<1>3. CASE call'[e] = call[e]
  <2>1. Conditional(e)
    <3>1. spent'.delete = 0 => spent.delete = 0
      <4>1. spent'.delete >= spent.delete /\ spent.delete \in Nat
        BY CallCases DEF NewPut, NewOther, Goes, Ends, TypeInv, Counted
      <4> QED BY <4>1
    <3> QED BY <1>1, <1>3, <3>1 DEF Conditional
  <2>2. /\ effects[call[e].bytes] <= 1 /\ effects[call[e].bytes] \in Nat
        /\ effects[call[e].bytes] = 1 => ~Holds(call[e], store[call[e].name])
        /\ call[e].bytes \in 1 .. MaxPuts
    BY <1>1, <1>3, <2>1, PutIsTyped DEF PutOnce
  <2>3. CASE PutsObject(c) /\ e = c
    <3>1. Holds(call[e], store[call[e].name]) /\ effects[call[e].bytes] = 0
      BY <2>2, <2>3 DEF PutsObject
    <3>2. effects'[call[e].bytes] = effects[call[e].bytes] + 1
      BY <2>2, <2>3 DEF PutsObject, TypeInv, Counted
    <3>3. ~Holds(call[e], store'[call[e].name])
      BY <1>1, <1>3, <2>3, StaysDisappointed
    <3> QED BY <1>3, <3>1, <3>2, <3>3
  <2>4. CASE effects'[call[e].bytes] = effects[call[e].bytes]
    <3>1. ~Holds(call[e], store[call[e].name]) => ~Holds(call[e], store'[call[e].name])
      BY <1>1, <1>3, StaysDisappointed
    <3> QED BY <1>3, <2>2, <2>4, <3>1
  <2>5. PutsObject(c) /\ e # c => effects'[call[e].bytes] = effects[call[e].bytes]
    <3> SUFFICES ASSUME PutsObject(c), e # c
                 PROVE  effects'[call[e].bytes] = effects[call[e].bytes]
      OBVIOUS
    <3>1. call[c].op = "put"
      BY DEF PutsObject, ServePut
    <3>2. call[c].bytes # call[e].bytes
      BY <1>1, <1>3, <3>1 DEF Numbered
    <3> QED BY <2>2, <3>2 DEF PutsObject, TypeInv, Counted
  <2> QED BY <2>3, <2>4, <2>5, ObjectCases DEF DeletesObject, KeepsObjects
<1> QED BY <1>1, <1>2, <1>3, PutCases

PutsFit == TypeInv /\ TagsBehind /\ Numbered /\ \A c \in Client : PutOnce(c)

LEMMA PutsFitInit == Init => PutsFit
<1> SUFFICES ASSUME Init PROVE PutsFit
  OBVIOUS
<1>1. TypeInv /\ TagsBehind
  BY TypeInit, BehindInit
<1>2. Numbered /\ \A c \in Client : PutOnce(c)
  BY DEF Init, Numbered, PutOnce, Conditional, Idle
<1> QED BY <1>1, <1>2 DEF PutsFit

LEMMA PutsFitStep == PutsFit /\ [Next]_vars => PutsFit'
<1> SUFFICES ASSUME PutsFit, [Next]_vars PROVE PutsFit'
  OBVIOUS
<1>1. TypeInv' /\ TagsBehind'
  BY TypeStep, BehindStep DEF PutsFit
<1>2. CASE UNCHANGED vars
  BY <1>1, <1>2 DEF PutsFit, Numbered, PutOnce, Conditional, Holds, vars, serverVars, clientVars
<1>3. ASSUME NEW c \in Client, Acts(c) PROVE PutsFit'
  BY <1>1, <1>3, NumberedStep, PutOnceStep DEF PutsFit
<1> QED BY <1>2, <1>3 DEF Next, Acts

LEMMA PutsAlwaysFit == Spec => []PutsFit
BY PutsFitInit, PutsFitStep, PTL DEF Spec

\* A put that expects something takes effect at most once, however often the
\* SDK of S3 sends it: once it did, its ETag is no longer that of the object,
\* and never will be again.
THEOREM PutsTakeEffectOnce == Spec => []ConditionalPutsOnce
<1>1. PutsFit => ConditionalPutsOnce
  BY DEF PutsFit, PutOnce, Conditional, ConditionalPutsOnce
<1> QED BY <1>1, PutsAlwaysFit, PTL

-----------------------------------------------------------------------------
(* Refused on the first try means that nothing was done *)

\* A put that was sent once has had no effect before it was served, nor after
\* that unless it was a success.
FirstTry(c) ==
    /\ call[c].op = "put" /\ tries[c] <= 1
    /\ pc[c] = "sent" \/ response[c].status # 200
    => effects[call[c].bytes] = 0

\* The put of e takes effect in no step but its own.
LEMMA EffectsOfOthers ==
    ASSUME TypeInv, Numbered, NEW c \in Client, Acts(c), NEW e \in Client, call[e].op = "put",
           e # c \/ KeepsObjects \/ ~ServePut(c)
    PROVE  effects'[call[e].bytes] = effects[call[e].bytes]
<1>1. CASE PutsObject(c)
  <2>1. e # c /\ call[c].op = "put"
    <3>1. ~KeepsObjects
      BY <1>1 DEF PutsObject, KeepsObjects, TypeInv, TypeOK
    <3> QED BY <1>1, <3>1 DEF PutsObject, ServePut
  <2>2. call[c].bytes # call[e].bytes
    BY <2>1 DEF Numbered
  <2>3. call[e].bytes \in 1 .. MaxPuts /\ effects \in [1 .. MaxPuts -> Nat]
    BY PutIsTyped DEF TypeInv, Counted
  <2> QED BY <1>1, <2>2, <2>3 DEF PutsObject
<1> QED BY <1>1, ObjectCases DEF DeletesObject, KeepsObjects

\* What happens to a put that has been sent.
LEMMA PutGoesOn ==
    ASSUME TypeInv, NEW c \in Client, Acts(c), call[c].op = "put", call'[c] = call[c]
    PROVE  ServePut(c) \/ ServeError(c) \/ Resend(c)
<1>1. ~NewPut(c) /\ ~NewOther(c) /\ ~Ends(c)
  <2>1. pc[c] # "idle"
    BY DEF TypeInv, CallFits, Idle
  <2>2. call[c] # Idle
    BY DEF Idle
  <2> QED BY <2>1, <2>2 DEF NewPut, NewOther, Ends
<1>2. ~SendPut(c) /\ ~SendDelete(c) /\ ~SendGet(c) /\ ~SendList(c)
  BY <1>1, SendPutNew, SendDeleteNew, SendGetNew, SendListNew
<1>3. ~ServeDelete(c) /\ ~ServeGet(c) /\ ~ServeList(c) /\ ~ReceiveGet(c) /\ ~ReceiveList(c)
  BY DEF ServeDelete, ServeGet, ServeList, ReceiveGet, ReceiveList
<1>4. ~ReceiveWrite(c) /\ ~GiveUp(c)
  <2>1. call[c] # Idle
    BY DEF Idle
  <2> QED BY <2>1, ReturnEnds DEF ReceiveWrite, GiveUp
<1> QED BY <1>2, <1>3, <1>4 DEF Acts, Serve, Receive

\* The server's response to a put.
LEMMA ServedPut ==
    ASSUME TypeInv, NEW c \in Client, ServePut(c)
    PROVE  /\ pc[c] = "sent" /\ call[c].op = "put"
           /\ pc'[c] = "served" /\ tries' = tries
           /\ \/ PutsObject(c) /\ response'[c].status = 200 /\ response'[c].tag = Told(lastTag')
              \/ /\ ~Holds(call[c], store[call[c].name]) /\ KeepsObjects
                 /\ \E s \in {409, 412} : response'[c] = Status(s)
<1>1. pc[c] = "sent" /\ call[c].op = "put" /\ tries' = tries
  BY DEF ServePut
<1>2. CASE PutsObject(c) /\ Respond(c, [Status(200) EXCEPT !.tag = Told(lastTag')])
  <2>1. lastTag' \in Nat
    BY <1>2 DEF PutsObject, TypeInv, TypeOK
  <2>2. Status(200) \in Response /\ Status(200).status = 200 /\ Told(lastTag') \in Nat
    BY <2>1, StatusTyped, ToldTyped
  <2>3. /\ [Status(200) EXCEPT !.tag = Told(lastTag')] \in Response
        /\ [Status(200) EXCEPT !.tag = Told(lastTag')].status = 200
        /\ [Status(200) EXCEPT !.tag = Told(lastTag')].tag = Told(lastTag')
    BY <2>2 DEF Response
  <2>4. PICK r \in Response : Respond(c, r) /\ r.status = 200 /\ r.tag = Told(lastTag')
    BY Zenon, <1>2, <2>3
  <2> QED BY <1>1, <1>2, <2>4, RespondKeeps
<1>3. CASE /\ ~Holds(call[c], store[call[c].name])
           /\ \E status \in {409, 412} : Respond(c, Status(status))
           /\ UNCHANGED <<store, lastTag, effects>>
  <2>1. PICK s \in {409, 412} : Respond(c, Status(s))
    BY <1>3
  <2>2. Status(s) \in Response /\ Status(s).status = s
    BY StatusTyped
  <2>3. pc'[c] = "served" /\ response'[c] = Status(s)
    BY <2>1, <2>2, RespondKeeps
  <2> QED BY <1>1, <1>3, <2>3 DEF KeepsObjects
<1> QED BY <1>2, <1>3 DEF ServePut, PutsObject

LEMMA FirstTryStep ==
    ASSUME TypeInv, Numbered, NEW c \in Client, Acts(c), NEW e \in Client, FirstTry(e)
    PROVE  FirstTry(e)'
<1> SUFFICES ASSUME call'[e].op = "put", tries'[e] <= 1,
                    pc'[e] = "sent" \/ response'[e].status # 200
             PROVE  effects'[call'[e].bytes] = 0
  BY DEF FirstTry
<1>1. CASE e = c /\ NewPut(c)
  <2>1. call'[e].bytes = spent.put + 1 /\ spent.put + 1 <= MaxPuts /\ effects' = effects
    BY <1>1 DEF NewPut
  <2>2. spent.put + 1 \in 1 .. MaxPuts /\ spent.put + 1 > spent.put
    BY <2>1, HttpAssumption DEF TypeInv, Counted
  <2> QED BY <2>1, <2>2 DEF Numbered
<1>2. CASE call'[e] = call[e] /\ e # c
  <2>1. SameOf(e)
    BY <1>2, SameOfOthers
  <2>2. effects[call[e].bytes] = 0
    BY <2>1 DEF SameOf, FirstTry
  <2> QED BY <1>2, <2>2, EffectsOfOthers
<1>3. CASE call'[e] = call[e] /\ e = c
  <2>1. CASE ServePut(c)
    <3>1. /\ pc[c] = "sent" /\ tries' = tries /\ pc'[c] = "served" /\ KeepsObjects
      BY <1>3, <2>1, ServedPut
    <3>2. effects[call[e].bytes] = 0
      BY <1>3, <3>1 DEF FirstTry
    <3> QED BY <1>3, <3>1, <3>2 DEF KeepsObjects
  <2>2. CASE ServeError(c)
    <3>1. pc[c] = "sent" /\ tries' = tries /\ effects' = effects
      BY <2>2 DEF ServeError
    <3> QED BY <1>3, <3>1 DEF FirstTry
  <2>3. CASE Resend(c)
    <3>1. tries'[c] = tries[c] + 1 /\ tries[c] >= 1 /\ tries[c] \in Nat
      <4>1. tries[c] \in 0 .. MaxTries
        BY DEF TypeInv, TypeOK
      <4>2. tries[c] >= 1
        BY <2>3 DEF Resend, TypeInv, CallFits
      <4> QED BY <2>3, <4>1, <4>2 DEF Resend, TypeInv, TypeOK
    <3> QED BY <1>3, <3>1
  <2> QED BY <1>3, <2>1, <2>2, <2>3, PutGoesOn
<1> QED BY <1>1, <1>2, <1>3, PutCases

TriesFit == TypeInv /\ Numbered /\ \A c \in Client : FirstTry(c)

LEMMA TriesFitStep == TriesFit /\ [Next]_vars => TriesFit'
<1> SUFFICES ASSUME TriesFit, [Next]_vars PROVE TriesFit'
  OBVIOUS
<1>1. TypeInv'
  BY TypeStep DEF TriesFit
<1>2. CASE UNCHANGED vars
  BY <1>1, <1>2 DEF TriesFit, Numbered, FirstTry, vars, serverVars, clientVars
<1>3. ASSUME NEW c \in Client, Acts(c) PROVE TriesFit'
  BY <1>1, <1>3, NumberedStep, FirstTryStep DEF TriesFit
<1> QED BY <1>2, <1>3 DEF Next, Acts

LEMMA TriesAlwaysFit == Spec => []TriesFit
<1>1. Init => TriesFit
  <2> SUFFICES ASSUME Init PROVE TriesFit
    OBVIOUS
  <2>1. TypeInv
    BY TypeInit
  <2>2. Numbered /\ \A c \in Client : FirstTry(c)
    BY DEF Init, Numbered, FirstTry, Idle
  <2> QED BY <2>1, <2>2 DEF TriesFit
<1> QED BY <1>1, TriesFitStep, PTL DEF Spec

\* Success is never told as a lost race.
LEMMA SuccessIsNoRefusal ==
    ASSUME TypeOK, NEW op, NEW r \in Response, r.status = 200
    PROVE  AnswerTo(op, r) # Refused
<1>1. r.tag \in Nat
  BY DEF Response
<1>2. Read(r, Done) \in {Failed, Done} /\ Read(r, r.tag) \in {Failed, r.tag}
  BY DEF Read
<1>3. backend \in {"webdav", "onedrive", "proton", "s3"}
  BY HttpAssumption DEF TypeOK
<1>4. CASE backend = "webdav"
  BY <1>1, <1>2, <1>4 DEF AnswerTo, WebDav, Refused, Failed, Done
<1>5. CASE backend = "onedrive"
  BY <1>1, <1>2, <1>5 DEF AnswerTo, OneDrive, Refused, Failed, Done
<1>6. CASE backend = "proton"
  BY <1>1, <1>2, <1>6 DEF AnswerTo, Proton, Refused, Failed, Done
<1>7. CASE backend = "s3"
  BY <1>1, <1>2, <1>7 DEF AnswerTo, S3, Refused, Failed, Done
<1> QED BY <1>3, <1>4, <1>5, <1>6, <1>7

\* A put that is reported as a lost race has had no effect, unless the SDK sent
\* it twice: no backend reports a success as Refused, and a failed first try
\* has done nothing.
THEOREM RefusalsAreHonest == Spec => RefusedMeansUntouched
<1>1. ASSUME TriesFit, NEW c \in Client, ReceiveWrite(c), call[c].op = "put", answer'[c] = Refused
      PROVE  effects[call[c].bytes] = 0 \/ tries[c] > 1
  <2>1. TypeOK /\ response[c] \in Response /\ tries[c] \in Nat
    <3>1. tries[c] \in 0 .. MaxTries
      BY <1>1 DEF TriesFit, TypeInv, TypeOK
    <3> QED BY <1>1, <3>1, HttpAssumption DEF TriesFit, TypeInv, Messages
  <2>2. AnswerTo(call[c].op, response[c]) = Refused
    BY <1>1 DEF ReceiveWrite, TriesFit, TypeInv, TypeOK
  <2>3. response[c].status # 200
    BY <2>1, <2>2, SuccessIsNoRefusal
  <2> QED BY <1>1, <2>1, <2>3 DEF TriesFit, FirstTry
<1>2. TriesFit /\ [Next]_vars =>
        [\A c \in Client : ReceiveWrite(c) /\ call[c].op = "put" /\ answer'[c] = Refused
            => effects[call[c].bytes] = 0 \/ tries[c] > 1]_vars
  BY <1>1
<1> QED BY <1>2, TriesAlwaysFit, PTL DEF Spec, RefusedMeansUntouched

-----------------------------------------------------------------------------
(* A conditional put replaces what its caller has read *)

\* A put keeps to what its caller had listed.
Expects(c) == call[c].op = "put" /\ call[c].want >= 0 => call[c].want = tags[c][call[c].name]

\* Nothing is read while a listing is under way.
ListsAnew(c) == call[c].op = "list" => \A n \in Name : saw[c][n] = Unread

\* As long as n has the ETag that c has listed, what c has read of n, or what the
\* response under way tells it, are the bytes of n.
ReadsTrue(c, n) ==
    tags[c][n] > 0 /\ store[n].etag = tags[c][n] =>
        /\ saw[c][n] \in {Unread, store[n].bytes}
        /\ pc[c] = "served" /\ call[c].op = "get" /\ call[c].name = n =>
              \/ response[c].status \notin {200, 404}
              \/ response[c].status = 200 /\ response[c].bytes = store[n].bytes

ReadsFit ==
    /\ TypeInv /\ TagsBehind
    /\ \A c \in Client : Expects(c) /\ ListsAnew(c) /\ \A n \in Name : ReadsTrue(c, n)

\* An object that has an ETag somebody had heard of before has not changed.
LEMMA SameObject ==
    ASSUME TypeInv, TagsBehind, NEW c \in Client, Acts(c), NEW n \in Name, NEW t \in Nat,
           0 < t, t <= lastTag, store'[n].etag = t
    PROVE  store'[n] = store[n]
<1>1. lastTag \in Nat
  BY DEF TypeInv, TypeOK
<1>2. CASE PutsObject(c) /\ call[c].name = n
  BY <1>1, <1>2 DEF PutsObject, TypeInv, TypeOK
<1>3. CASE DeletesObject(c) /\ call[c].name = n
  BY <1>3 DEF DeletesObject, Absent, TypeInv, TypeOK
<1>4. PutsObject(c) /\ call[c].name # n => store'[n] = store[n]
  BY DEF PutsObject, TypeInv, TypeOK
<1>5. DeletesObject(c) /\ call[c].name # n => store'[n] = store[n]
  BY DEF DeletesObject, TypeInv, TypeOK
<1>6. KeepsObjects => store'[n] = store[n]
  BY DEF KeepsObjects
<1> QED BY <1>2, <1>3, <1>4, <1>5, <1>6, ObjectCases

LEMMA ExpectsStep ==
    ASSUME TypeInv, NEW c \in Client, Acts(c), NEW e \in Client, Expects(e)
    PROVE  Expects(e)'
<1> SUFFICES ASSUME call'[e].op = "put", call'[e].want >= 0
             PROVE  call'[e].want = tags'[e][call'[e].name]
  BY DEF Expects
<1>1. CASE e = c /\ NewPut(c)
  BY <1>1 DEF NewPut, Wants, Always, IfNew
<1>2. CASE call'[e] = call[e] /\ e # c
  BY <1>2, SameOfOthers DEF SameOf, Expects
<1>3. CASE call'[e] = call[e] /\ e = c
  <2>1. tags' = tags
    BY <1>3, PutGoesOn DEF ServePut, ServeError, Resend, readVars
  <2> QED BY <1>3, <2>1 DEF Expects
<1> QED BY <1>1, <1>2, <1>3, PutCases

LEMMA ListsAnewStep ==
    ASSUME TypeInv, NEW c \in Client, Acts(c), NEW e \in Client, ListsAnew(e)
    PROVE  ListsAnew(e)'
<1> SUFFICES ASSUME call'[e].op = "list", NEW n \in Name PROVE saw'[e][n] = Unread
  BY DEF ListsAnew
<1>1. CASE e # c
  BY <1>1, SameOfOthers DEF SameOf, ListsAnew
<1>2. CASE e = c
  BY <1>2, CallCases DEF NewPut, NewOther, Goes, Ends, Idle, ListsAnew
<1> QED BY <1>1, <1>2

\* What c sees when a get is answered.
LEMMA SawCases ==
    ASSUME TypeInv, NEW c \in Client, Acts(c), NEW n \in Name
    PROVE  \/ saw'[c][n] \in {saw[c][n], Unread}
           \/ /\ ReceiveGet(c) /\ call[c].name = n /\ pc[c] = "served" /\ call[c].op = "get"
              /\ saw'[c][n] = Shows(response[c])
<1>1. CASE ReceiveGet(c)
  <2>1. saw' = [saw EXCEPT ![c][call[c].name] = Shows(response[c])]
    BY <1>1 DEF ReceiveGet, Shows
  <2>2. saw[c] \in [Name -> Nat \cup {Unread}] /\ saw \in [Client -> [Name -> Nat \cup {Unread}]]
    BY DEF TypeInv, TypeOK
  <2>3. pc[c] = "served" /\ call[c].op = "get"
    BY <1>1 DEF ReceiveGet
  <2> QED BY <1>1, <2>1, <2>2, <2>3
<1>2. CASE SendList(c)
  BY <1>2 DEF SendList, TypeInv, TypeOK
<1>3. CASE ReceiveList(c)
  BY <1>3, ReceiveListCases
<1>4. CASE SendPut(c) \/ SendDelete(c) \/ SendGet(c) \/ Serve(c) \/ ServeError(c) \/ Resend(c)
           \/ ReceiveWrite(c) \/ GiveUp(c)
  BY <1>4 DEF SendPut, SendDelete, SendGet, Serve, ServePut, ServeDelete, ServeGet, ServeList,
              ServeError, Resend, ReceiveWrite, GiveUp, readVars
<1> QED BY <1>1, <1>2, <1>3, <1>4 DEF Acts, Receive

\* What a get has shown are the bytes of the response, if there are any.
LEMMA ShowsBytes ==
    ASSUME TypeOK, NEW r \in Response
    PROVE  \/ r.status = 200 /\ Shows(r) \in {r.bytes, Unread}
           \/ r.status = 404
           \/ Shows(r) = Unread
<1>1. backend \in {"webdav", "onedrive", "proton", "s3"}
  BY HttpAssumption DEF TypeOK
<1>2. CASE r.status = 200
  <2>1. AnswerTo("get", r) \in {Done, Failed}
    BY <1>1, <1>2 DEF AnswerTo, WebDav, OneDrive, Proton, S3, Read
  <2> QED BY <1>2, <2>1 DEF Shows, Done, Failed, Missing
<1>3. CASE r.status # 200 /\ r.status # 404
  <2>1. AnswerTo("get", r) \in {Refused, Failed}
    BY <1>1, <1>3 DEF AnswerTo, WebDav, OneDrive, Proton, S3, ErrorOf
  <2> QED BY <2>1 DEF Shows, Done, Failed, Missing, Refused
<1> QED BY <1>2, <1>3

\* The response to a get that has just been served.
LEMMA ServedGet ==
    ASSUME TypeInv, NEW c \in Client, Acts(c), pc'[c] = "served", call'[c].op = "get",
           store[call[c].name].etag > 0
    PROVE  \/ ServeGet(c) /\ response'[c].status = 200
              /\ response'[c].bytes = store[call[c].name].bytes
           \/ response'[c].status = 500
<1>1. Goes(c)
  <2>1. call'[c] # Idle
    BY DEF Idle
  <2> QED BY <2>1, CallCases DEF NewPut, NewOther, Ends
<1>2. call[c].op = "get" /\ call[c] # Idle
  BY <1>1 DEF Goes, Idle
<1>3. CASE ServeGet(c)
  <2>1. store[call[c].name] # Absent
    BY DEF Absent
  <2>2. Respond(c, [Status(200) EXCEPT !.bytes = store[call[c].name].bytes])
    BY <1>3, <2>1 DEF ServeGet
  <2>3. store[call[c].name].bytes \in Nat
    <3>1. call[c] \in Request
      BY <1>3 DEF ServeGet, TypeInv, CallFits
    <3> QED BY <3>1 DEF Request, TypeInv, TypeOK, Contract!Object
  <2>4. Status(200) \in Response /\ Status(200).status = 200
    BY StatusTyped
  <2>5. /\ [Status(200) EXCEPT !.bytes = store[call[c].name].bytes] \in Response
        /\ [Status(200) EXCEPT !.bytes = store[call[c].name].bytes].status = 200
        /\ [Status(200) EXCEPT !.bytes = store[call[c].name].bytes].bytes
              = store[call[c].name].bytes
    BY <2>3, <2>4 DEF Response
  <2>6. PICK r \in Response : /\ Respond(c, r) /\ r.status = 200
                              /\ r.bytes = store[call[c].name].bytes
    BY Zenon, <2>2, <2>5
  <2> QED BY <1>3, <2>6, RespondKeeps
<1>4. CASE ServeError(c)
  <2>1. Status(500).status = 500
    BY StatusTyped
  <2> QED BY <1>4, <2>1 DEF ServeError, TypeInv, Messages
<1>5. ~SendPut(c) /\ ~SendDelete(c) /\ ~SendGet(c) /\ ~SendList(c)
  <2>1. pc[c] # "idle"
    BY <1>1 DEF Goes
  <2> QED BY <2>1, SendPutNew, SendDeleteNew, SendGetNew, SendListNew DEF NewPut, NewOther
<1>6. ~ServePut(c) /\ ~ServeDelete(c) /\ ~ServeList(c) /\ ~ReceiveWrite(c) /\ ~ReceiveList(c)
  BY <1>2 DEF ServePut, ServeDelete, ServeList, ReceiveWrite, ReceiveList, IsWrite
<1>7. ~ReceiveGet(c) /\ ~GiveUp(c)
  BY ReturnEnds DEF ReceiveGet, GiveUp
<1>8. ~Resend(c)
  BY DEF Resend, TypeInv, TypeOK
<1> QED BY <1>3, <1>4, <1>5, <1>6, <1>7, <1>8 DEF Acts, Serve, Receive

LEMMA ReadsTrueStep ==
    ASSUME ReadsFit, NEW c \in Client, Acts(c), NEW e \in Client, NEW n \in Name
    PROVE  ReadsTrue(e, n)'
<1>0. /\ TypeInv /\ TagsBehind /\ ReadsTrue(e, n) /\ ListsAnew(e)
      /\ lastTag \in Nat /\ tags[e][n] \in Nat \cup {IfNew} /\ tags[e][n] <= lastTag
  BY DEF ReadsFit, TagsBehind, HeardBehind, TypeInv, TypeOK
<1> SUFFICES ASSUME tags'[e][n] > 0, store'[n].etag = tags'[e][n]
             PROVE  /\ saw'[e][n] \in {Unread, store'[n].bytes}
                    /\ pc'[e] = "served" /\ call'[e].op = "get" /\ call'[e].name = n =>
                          \/ response'[e].status \notin {200, 404}
                          \/ response'[e].status = 200 /\ response'[e].bytes = store'[n].bytes
  BY DEF ReadsTrue
<1>1. CASE tags'[e] = tags[e]
  <2>1. store'[n] = store[n]
    BY <1>0, <1>1, SameObject DEF IfNew
  <2>2. CASE e # c
    BY <1>0, <1>1, <2>1, <2>2, SameOfOthers DEF SameOf, ReadsTrue
  <2>3. CASE e = c
    <3>1. saw'[e][n] \in {Unread, store'[n].bytes}
      <4>1. CASE saw'[c][n] \in {saw[c][n], Unread}
        BY <1>0, <1>1, <2>1, <2>3, <4>1 DEF ReadsTrue
      <4>2. CASE /\ ReceiveGet(c) /\ call[c].name = n /\ pc[c] = "served" /\ call[c].op = "get"
                 /\ saw'[c][n] = Shows(response[c])
        <5>1. TypeOK /\ response[c] \in Response
          BY <1>0 DEF TypeInv, Messages
        <5>2. \/ response[c].status \notin {200, 404}
              \/ response[c].status = 200 /\ response[c].bytes = store[n].bytes
          BY <1>0, <1>1, <2>1, <2>3, <4>2 DEF ReadsTrue
        <5> QED BY <2>1, <2>3, <4>2, <5>1, <5>2, ShowsBytes
      <4> QED BY <1>0, <2>3, <4>1, <4>2, SawCases
    <3>2. ASSUME pc'[e] = "served", call'[e].op = "get", call'[e].name = n
          PROVE  \/ response'[e].status \notin {200, 404}
                 \/ response'[e].status = 200 /\ response'[e].bytes = store'[n].bytes
      <4>1. call[c].name = n
        <5>1. call'[c] # Idle
          BY <2>3, <3>2 DEF Idle
        <5> QED BY <1>0, <2>3, <3>2, <5>1, CallCases DEF NewPut, NewOther, Goes, Ends
      <4>2. store[call[c].name].etag > 0
        BY <1>1, <2>1, <4>1
      <4> QED BY <1>0, <2>1, <2>3, <3>2, <4>1, <4>2, ServedGet
    <3> QED BY <3>1, <3>2
  <2> QED BY <2>2, <2>3
<1>2. CASE tags'[e] # tags[e]
  <2>1. e = c
    BY <1>0, <1>2, SameOfOthers DEF SameOf
  <2>2. tags'[e] # NoPage
    BY DEF NoPage, IfNew
  <2>3. ReceiveList(c)
    BY <1>0, <1>2, <2>1, <2>2, TagCases
  <2>4. saw'[e][n] = Unread
    BY <1>0, <2>1, <2>3, ReceiveListCases DEF ListsAnew
  <2>5. call'[e].op # "get"
    <3>1. call[c].op = "list"
      BY <2>3, ReceiveListCases
    <3> QED BY <1>0, <2>1, <3>1, CallCases, ReceiveListCases, <2>3 DEF NewPut, NewOther, Goes, Ends, Idle
  <2> QED BY <2>4, <2>5
<1> QED BY <1>1, <1>2

LEMMA ReadsAlwaysFit == Spec => []ReadsFit
<1>1. Init => ReadsFit
  <2> SUFFICES ASSUME Init PROVE ReadsFit
    OBVIOUS
  <2>1. TypeInv /\ TagsBehind
    BY TypeInit, BehindInit
  <2>2. \A c \in Client : Expects(c) /\ ListsAnew(c) /\ \A n \in Name : ReadsTrue(c, n)
    BY DEF Init, Expects, ListsAnew, ReadsTrue, Idle, NoPage, IfNew
  <2> QED BY <2>1, <2>2 DEF ReadsFit
<1>2. ReadsFit /\ [Next]_vars => ReadsFit'
  <2> SUFFICES ASSUME ReadsFit, [Next]_vars PROVE ReadsFit'
    OBVIOUS
  <2>1. TypeInv' /\ TagsBehind'
    BY TypeStep, BehindStep DEF ReadsFit
  <2>2. CASE UNCHANGED vars
    BY <2>1, <2>2 DEF ReadsFit, Expects, ListsAnew, ReadsTrue, vars, serverVars, clientVars, readVars
  <2>3. ASSUME NEW c \in Client, Acts(c) PROVE ReadsFit'
    <3>1. ASSUME NEW e \in Client PROVE Expects(e)' /\ ListsAnew(e)'
      BY <2>3, ExpectsStep, ListsAnewStep DEF ReadsFit
    <3> QED BY <2>1, <2>3, <3>1, ReadsTrueStep DEF ReadsFit
  <2> QED BY <2>2, <2>3 DEF Next, Acts
<1> QED BY <1>1, <1>2, PTL DEF Spec

\* A caller that listed an object, then read it, and then puts with the ETag it
\* listed, replaces the very bytes that it has read: no backend hands out an
\* ETag twice, so an object with that ETag is the one that was read.
THEOREM ReplacesOnlyWhatItSaw == Spec => ReplacesWhatItSaw
<1>1. ASSUME ReadsFit, NEW c \in Client, ServePut(c),
             store'[call[c].name] # store[call[c].name],
             call[c].want >= 0, saw[c][call[c].name] # Unread
      PROVE  saw[c][call[c].name] = store[call[c].name].bytes
  <2>1. TypeInv /\ Expects(c) /\ call[c].op = "put"
    BY <1>1 DEF ReadsFit, ServePut
  <2>2. call[c].name \in Name /\ call[c].want \in Int
    BY <2>1, PutIsTyped
  <2>3. Holds(call[c], store[call[c].name])
    BY <1>1, <2>1, ServedPut DEF KeepsObjects, PutsObject
  <2>4. call[c].want > 0 /\ store[call[c].name].etag = call[c].want
    BY <1>1, <2>2, <2>3 DEF Holds, Always, IfNew
  <2>5. ReadsTrue(c, call[c].name) /\ call[c].want = tags[c][call[c].name]
    BY <1>1, <2>1, <2>2 DEF ReadsFit, Expects
  <2> QED BY <1>1, <2>4, <2>5 DEF ReadsTrue
<1>2. ReadsFit /\ [Next]_vars =>
        [\A c \in Client : LET k == call[c] IN
            /\ ServePut(c) /\ store'[k.name] # store[k.name]
            /\ k.want >= 0 /\ saw[c][k.name] # Unread
            => saw[c][k.name] = store[k.name].bytes]_vars
  BY <1>1
<1> QED BY <1>2, ReadsAlwaysFit, PTL DEF Spec, ReplacesWhatItSaw

-----------------------------------------------------------------------------
(* The contract: what a step of c is for those who see only requests that   *)
(* the server has yet to carry out                                          *)

Waits(c) == pc[c] = "sent" /\ IsWrite(c)

AskedOf(c) == IF Waits(c) THEN call[c] ELSE Idle

AnswerOf(c) == CASE pc[c] = "sent" /\ IsWrite(c)   -> Pending
                 [] pc[c] = "served" /\ IsWrite(c) -> AnswerTo(call[c].op, response[c])
                 [] OTHER                          -> answer[c]

Asked == [c \in Client |-> AskedOf(c)]
Answered == [c \in Client |-> AnswerOf(c)]

LEMMA WaitingCall ==
    ASSUME TypeInv, NEW c \in Client, Waits(c)
    PROVE  /\ Asked[c] = call[c] /\ Answered[c] = Pending
           /\ call[c] \in Contract!Call /\ call[c].name \in Name
<1>1. call[c] \in Request
  BY DEF Waits, TypeInv, CallFits
<1>2. call[c] \in Contract!Call
  BY <1>1 DEF Waits, IsWrite, Request, Contract!Call, Always, IfNew, Contract!Always, Contract!IfNew
<1> QED BY <1>1, <1>2 DEF Waits, Asked, Answered, AskedOf, AnswerOf, Request

LEMMA AnsweredCall ==
    ASSUME TypeInv, NEW c \in Client, ~Waits(c)
    PROVE  Asked[c] = Idle /\ Answered[c] # Pending
<1>1. TypeOK /\ response[c] \in Response /\ answer[c] \in Nat \cup {Refused, Failed, Missing, Done}
  BY DEF TypeInv, TypeOK, Messages
<1>2. AnswerTo(call[c].op, response[c]) \in Nat \cup {Refused, Failed, Missing, Done}
  BY <1>1, AnswerTyped
<1>3. Answered[c] \in Nat \cup {Refused, Failed, Missing, Done}
  BY <1>1, <1>2 DEF Waits, Answered, AnswerOf
<1> QED BY <1>3 DEF Asked, AskedOf, Pending, Refused, Failed, Missing, Done

\* A step of c changes nothing for the others.
SeenFrom(c) ==
    /\ Asked' = [Asked EXCEPT ![c] = Asked'[c]]
    /\ Answered' = [Answered EXCEPT ![c] = Answered'[c]]

LEMMA BackendStays == ASSUME NEW c \in Client, Acts(c) PROVE backend' = backend
<1> USE DEF serverVars
<1>1. CASE SendPut(c) \/ SendDelete(c) \/ SendGet(c) \/ SendList(c)
  BY <1>1 DEF SendPut, SendDelete, SendGet, SendList, Send
<1>2. CASE Serve(c) \/ ServeError(c) \/ Resend(c)
  BY <1>2 DEF Serve, ServePut, ServeDelete, ServeGet, ServeList, ServeError, Resend
<1>3. CASE ReceiveWrite(c) \/ ReceiveGet(c) \/ GiveUp(c)
  BY <1>3 DEF ReceiveWrite, ReceiveGet, GiveUp, Return
<1>4. CASE ReceiveList(c)
  BY <1>4, ReceiveListCases DEF Return
<1> QED BY <1>1, <1>2, <1>3, <1>4 DEF Acts, Receive

\* Only ReceiveWrite and GiveUp tell a caller something.
LEMMA AnswerStays ==
    ASSUME TypeInv, NEW c \in Client, Acts(c)
    PROVE  /\ \A e \in Client : e # c => answer'[e] = answer[e]
           /\ ReceiveWrite(c) \/ GiveUp(c) \/ answer' = answer
<1>1. CASE SendPut(c) \/ SendDelete(c) \/ SendGet(c) \/ SendList(c)
  BY <1>1 DEF SendPut, SendDelete, SendGet, SendList, Send
<1>2. CASE Serve(c) \/ ServeError(c) \/ Resend(c) \/ ReceiveGet(c)
  BY <1>2 DEF Serve, ServePut, ServeDelete, ServeGet, ServeList, ServeError, Resend, ReceiveGet
<1>3. CASE ReceiveWrite(c)
  BY <1>3 DEF ReceiveWrite, TypeInv, TypeOK
<1>4. CASE GiveUp(c)
  BY <1>4 DEF GiveUp, TypeInv, TypeOK
<1>5. CASE ReceiveList(c)
  BY <1>5, ReceiveListCases
<1> QED BY <1>1, <1>2, <1>3, <1>4, <1>5 DEF Acts, Receive

LEMMA OthersSeeNothing == ASSUME TypeInv, NEW c \in Client, Acts(c) PROVE SeenFrom(c)
<1>1. ASSUME NEW e \in Client, e # c PROVE AskedOf(e)' = AskedOf(e) /\ AnswerOf(e)' = AnswerOf(e)
  <2>1. SameOf(e) /\ backend' = backend /\ answer'[e] = answer[e]
    BY <1>1, SameOfOthers, BackendStays, AnswerStays
  <2>2. AnswerTo(call[e].op, response[e])' = AnswerTo(call[e].op, response[e])
    BY <2>1 DEF SameOf, AnswerTo
  <2> QED BY <2>1, <2>2 DEF SameOf, AskedOf, AnswerOf, Waits, IsWrite
<1> QED BY <1>1 DEF SeenFrom, Asked, Answered

LEMMA MapsToNothing ==
    ASSUME NEW c \in Client, SeenFrom(c), store' = store,
           Asked'[c] = Asked[c], Answered'[c] = Answered[c]
    PROVE  UNCHANGED Contract!storeVars
<1>1. Asked' = Asked /\ Answered' = Answered
  BY DEF SeenFrom, Asked, Answered
<1> QED BY <1>1 DEF Contract!storeVars, Asked, Answered, AskedOf, AnswerOf, Waits

LEMMA MapsToAsk ==
    ASSUME NEW c \in Client, SeenFrom(c), store' = store,
           Answered[c] # Pending, Asked'[c] \in Contract!Call, Answered'[c] = Pending
    PROVE  Contract!Ask(c)
<1>1. /\ Asked' = [Asked EXCEPT ![c] = Asked'[c]]
      /\ Answered' = [Answered EXCEPT ![c] = Pending]
  BY DEF SeenFrom
<1>2. Pending = Contract!Pending
  BY DEF Pending, Contract!Pending
<1> QED BY <1>1, <1>2 DEF Contract!Ask, Asked, Answered, AskedOf, AnswerOf, Waits

\* c gets a reply while it waits.
Replied(c, reply) ==
    /\ Answered[c] = Pending /\ Asked'[c] = Idle /\ Answered'[c] = reply

LEMMA MapsToReply ==
    ASSUME NEW c \in Client, NEW reply, SeenFrom(c), Replied(c, reply)
    PROVE  Contract!Reply(c, reply)
<1>1. /\ Asked' = [Asked EXCEPT ![c] = Idle]
      /\ Answered' = [Answered EXCEPT ![c] = reply] /\ Answered[c] = Pending
  BY DEF SeenFrom, Replied
<1>2. Pending = Contract!Pending /\ Idle = Contract!NoCall
  BY DEF Pending, Contract!Pending, Idle, Contract!NoCall, Always, Contract!Always
<1> QED BY <1>1, <1>2 DEF Contract!Reply, Asked, Answered, AskedOf, AnswerOf, Waits

LEMMA MapsToLostAnswer ==
    ASSUME NEW c \in Client, SeenFrom(c), store' = store,
           Answered[c] # Pending, Asked'[c] = Asked[c], Answered'[c] = Failed
    PROVE  Contract!LoseAnswer(c)
<1>1. Asked' = Asked /\ Answered' = [Answered EXCEPT ![c] = Failed]
  BY DEF SeenFrom, Asked
<1>2. Pending = Contract!Pending /\ Failed = Contract!Failed
  BY DEF Pending, Contract!Pending, Failed, Contract!Failed
<1> QED BY <1>1, <1>2 DEF Contract!LoseAnswer, Asked, Answered, AskedOf, AnswerOf, Waits

\* A call that fails before it has done anything.
LEMMA MapsToFail ==
    ASSUME TypeInv, NEW c \in Client, SeenFrom(c), Waits(c), Replied(c, Failed), store' = store
    PROVE  Contract!Fail(c)
<1>1. Contract!Reply(c, Failed)
  BY MapsToReply
<1>2. Failed = Contract!Failed
  BY DEF Failed, Contract!Failed
<1>3. store' = [store EXCEPT ![call[c].name] = store'[call[c].name]]
  BY DEF TypeInv, TypeOK
<1>4. Asked[c] = call[c]
  BY WaitingCall
<1>5. Contract!Leaves(Asked[c], store[call[c].name], store'[call[c].name])
  BY DEF Contract!Leaves
<1> QED BY <1>1, <1>2, <1>3, <1>4, <1>5 DEF Contract!Fail, Asked, Answered, AskedOf, AnswerOf, Waits

-----------------------------------------------------------------------------
(* What the backends make of the responses to puts and deletes *)

LEMMA AnswersToErrors ==
    ASSUME TypeOK, NEW op, NEW r
    PROVE  /\ r.status \in {409, 412} => AnswerTo(op, r) \in {Refused, Failed}
           /\ r.status = 500 => AnswerTo(op, r) = Failed
           /\ r.status = 404 => AnswerTo(op, r) = Missing
<1>1. backend \in {"webdav", "onedrive", "proton", "s3"}
  BY HttpAssumption DEF TypeOK
<1>2. \A refusals \in {{412}, {409, 412}} :
         /\ r.status \in {409, 412} => ErrorOf(refusals, r) \in {Refused, Failed}
         /\ r.status = 500 => ErrorOf(refusals, r) = Failed
         /\ r.status = 404 => ErrorOf(refusals, r) = Missing
  BY DEF ErrorOf
<1>3. \/ AnswerTo(op, r) = ErrorOf({412}, r)
      \/ AnswerTo(op, r) = ErrorOf({409, 412}, r)
      \/ r.status = 200
  BY <1>1 DEF AnswerTo, WebDav, OneDrive, Proton, S3
<1> QED BY <1>2, <1>3

LEMMA AnswersToSuccess ==
    ASSUME TypeOK, NEW r, r.status = 200
    PROVE  /\ AnswerTo("put", r) \in {r.tag, Failed}
           /\ AnswerTo("delete", r) = Done
<1>1. backend \in {"webdav", "onedrive", "proton", "s3"}
  BY HttpAssumption DEF TypeOK
<1> QED BY <1>1 DEF AnswerTo, WebDav, OneDrive, Proton, S3, Read

\* The request of c was carried out, or not, and the response is under way.
LEMMA Served ==
    ASSUME TypeInv, NEW c \in Client, Acts(c), Waits(c), pc'[c] = "served", call'[c] = call[c]
    PROVE  Replied(c, AnswerTo(call[c].op, response'[c]))
<1>1. Answered[c] = Pending
  BY WaitingCall
<1>2. Asked'[c] = Idle
  BY DEF Asked, AskedOf, Waits
<1>3. AnswerTo(call[c].op, response[c])' = AnswerTo(call[c].op, response'[c])
  BY BackendStays DEF AnswerTo
<1>4. Answered'[c] = AnswerTo(call[c].op, response[c])'
  BY DEF Answered, AnswerOf, Waits, IsWrite
<1> QED BY <1>1, <1>2, <1>3, <1>4 DEF Replied

Kept == Contract!ContractNext \/ UNCHANGED Contract!storeVars

LEMMA KeptByReply ==
    ASSUME NEW c \in Client,
           \/ Contract!Ask(c) \/ Contract!Put(c) \/ Contract!Refuse(c) \/ Contract!Delete(c)
           \/ Contract!Fail(c) \/ Contract!LoseAnswer(c) \/ UNCHANGED Contract!storeVars
    PROVE  Kept
BY Zenon DEF Kept, Contract!ContractNext

LEMMA SendKeeps ==
    ASSUME TypeInv, TypeInv', NEW c \in Client, Acts(c), NewPut(c) \/ NewOther(c)
    PROVE  Kept
<1>1. /\ pc[c] = "idle" /\ pc'[c] = "sent" /\ store' = store
      /\ ~Waits(c) /\ Asked[c] = Idle /\ Answered[c] = answer[c] /\ Answered[c] # Pending
  <2>1. pc[c] = "idle" /\ pc'[c] = "sent" /\ store' = store
    BY DEF NewPut, NewOther
  <2>2. ~Waits(c) /\ Answered[c] = answer[c]
    BY <2>1 DEF Waits, Answered, AnswerOf
  <2> QED BY <2>1, <2>2, AnsweredCall
<1>2. SeenFrom(c)
  BY OthersSeeNothing
<1>3. CASE Waits(c)'
  <2>1. call'[c] \in Request /\ Asked'[c] = call'[c] /\ Answered'[c] = Pending
    BY <1>3 DEF TypeInv, CallFits, Waits, Asked, Answered, AskedOf, AnswerOf
  <2>2. call'[c] \in Contract!Call
    BY <1>3, <2>1 DEF Waits, IsWrite, Request, Contract!Call, Always, IfNew, Contract!Always, Contract!IfNew
  <2> QED BY <1>1, <1>2, <2>1, <2>2, MapsToAsk, KeptByReply
<1>4. CASE ~Waits(c)'
  <2>1. ~ReceiveWrite(c) /\ ~GiveUp(c)
    BY <1>1 DEF ReceiveWrite, GiveUp
  <2>2. answer' = answer
    BY <2>1, AnswerStays
  <2>3. Asked'[c] = Idle /\ Answered'[c] = answer'[c]
    BY <1>1, <1>4 DEF Waits, Asked, Answered, AskedOf, AnswerOf
  <2> QED BY <1>1, <1>2, <2>2, <2>3, MapsToNothing, KeptByReply
<1> QED BY <1>3, <1>4

\* A step of a read shows nothing.
LEMMA ReadKeeps ==
    ASSUME TypeInv, NEW c \in Client, Acts(c), ~IsWrite(c), ~IsWrite(c)', pc[c] # "idle", store' = store
    PROVE  Kept
<1>1. Asked[c] = Idle /\ Answered[c] = answer[c] /\ Asked'[c] = Idle /\ Answered'[c] = answer'[c]
  BY DEF Waits, Asked, Answered, AskedOf, AnswerOf
<1>2. answer' = answer
  BY AnswerStays DEF ReceiveWrite, GiveUp
<1> QED BY <1>1, <1>2, OthersSeeNothing, MapsToNothing, KeptByReply

LEMMA PutKeeps ==
    ASSUME TypeInv, TagsBehind, TypeOK', NEW c \in Client, ServePut(c)
    PROVE  Kept
<1>0. /\ Acts(c) /\ Waits(c) /\ call[c].op = "put" /\ call' = call
      /\ pc'[c] = "served" /\ TypeOK
  BY ServedPut DEF Acts, Serve, ServePut, Waits, IsWrite, TypeInv
<1>1. /\ SeenFrom(c) /\ Replied(c, AnswerTo("put", response'[c]))
      /\ Asked[c] = call[c] /\ call[c].name \in Name
  BY <1>0, OthersSeeNothing, Served, WaitingCall
<1> DEFINE k == call[c]
           o == store[k.name]
           new == store'[k.name]
<1>2. o \in [etag : Nat, bytes : Nat] /\ o.etag <= lastTag /\ lastTag \in Nat
  BY <1>1 DEF TagsBehind, ObjectsBehind, TypeInv, TypeOK, Contract!Object
<1>3. Holds(k, o) <=> Contract!Accepts(o, k.want)
  BY DEF Holds, Contract!Accepts, Always, IfNew, Contract!Always, Contract!IfNew
<1>4. CASE PutsObject(c) /\ response'[c].status = 200 /\ response'[c].tag = Told(lastTag')
  <2>1. /\ lastTag' = lastTag + 1
        /\ store' = [store EXCEPT ![k.name] = [etag |-> lastTag', bytes |-> k.bytes]]
    BY <1>4 DEF PutsObject
  <2>2. new = [etag |-> lastTag', bytes |-> k.bytes] /\ store' = [store EXCEPT ![k.name] = new]
    BY <1>1, <2>1 DEF TypeInv, TypeOK
  <2>3. Contract!Replaced(k, o, new)
    BY <1>2, <2>1, <2>2 DEF Contract!Replaced
  <2>4. Contract!Accepts(o, k.want)
    BY <1>3, <1>4 DEF PutsObject
  <2>5. Told(lastTag') \in {0, new.etag}
    BY <2>2 DEF Told
  <2>6. AnswerTo("put", response'[c]) \in {Told(lastTag'), Failed}
    BY <1>0, <1>4, AnswersToSuccess
  <2>7. CASE AnswerTo("put", response'[c]) = Failed
    <3>1. Contract!Reply(c, Failed) /\ Failed = Contract!Failed
      BY <1>1, <2>7, MapsToReply DEF Failed, Contract!Failed
    <3>2. Contract!Leaves(k, o, new)
      BY <1>0, <2>3, <2>4 DEF Contract!Leaves
    <3>3. Contract!Fail(c)
      BY <1>1, <2>2, <3>1, <3>2 DEF Contract!Fail, Asked, AskedOf, Waits
    <3> QED BY <3>3, KeptByReply
  <2>8. CASE AnswerTo("put", response'[c]) = Told(lastTag')
    <3>1. PICK tag \in {0, new.etag} : Replied(c, tag)
      BY <1>1, <2>5, <2>8 DEF Replied
    <3>2. \E x \in {0, new.etag} : Contract!Reply(c, x)
      BY <1>1, <3>1, MapsToReply
    <3>3. Contract!Put(c)
      BY <1>0, <1>1, <2>2, <2>3, <2>4, <3>2 DEF Contract!Put, Asked, AskedOf, Waits
    <3> QED BY <3>3, KeptByReply
  <2> QED BY <2>6, <2>7, <2>8
<1>5. CASE /\ ~Holds(k, o) /\ KeepsObjects
           /\ \E s \in {409, 412} : response'[c] = Status(s)
  <2>1. response'[c].status \in {409, 412}
    <3>1. PICK s \in {409, 412} : response'[c] = Status(s)
      BY <1>5
    <3> QED BY <3>1, StatusTyped
  <2>2. AnswerTo("put", response'[c]) \in {Refused, Failed}
    BY <1>0, <2>1, AnswersToErrors
  <2>3. CASE AnswerTo("put", response'[c]) = Failed
    BY <1>0, <1>1, <1>5, <2>3, MapsToFail, KeptByReply DEF KeepsObjects
  <2>4. CASE AnswerTo("put", response'[c]) = Refused
    <3>1. Contract!Reply(c, Refused) /\ Refused = Contract!Refused
      BY <1>1, <2>4, MapsToReply DEF Refused, Contract!Refused
    <3>2. ~Contract!Accepts(o, k.want) /\ store' = store
      BY <1>3, <1>5 DEF KeepsObjects
    <3>3. Contract!Refuse(c)
      BY <1>0, <1>1, <3>1, <3>2 DEF Contract!Refuse, Asked, AskedOf, Waits
    <3> QED BY <3>3, KeptByReply
  <2> QED BY <2>2, <2>3, <2>4
<1> QED BY <1>4, <1>5, ServedPut

LEMMA DeleteKeeps ==
    ASSUME TypeInv, NEW c \in Client, ServeDelete(c)
    PROVE  Kept
<1> DEFINE n == call[c].name
<1>1. PICK s \in {404, 200} : Respond(c, Status(s)) /\ (s = 404 => store[n] = Absent)
  BY DEF ServeDelete
<1>2. Status(s) \in Response /\ Status(s).status = s
  BY StatusTyped
<1>3. pc'[c] = "served" /\ response'[c].status = s
  BY <1>1, <1>2, RespondKeeps
<1>4. /\ Acts(c) /\ Waits(c) /\ call[c].op = "delete" /\ call' = call /\ TypeOK
  BY DEF Acts, Serve, ServeDelete, Waits, IsWrite, TypeInv
<1>5. /\ SeenFrom(c) /\ Replied(c, AnswerTo("delete", response'[c]))
      /\ Asked[c] = call[c] /\ n \in Name
  BY <1>3, <1>4, OthersSeeNothing, Served, WaitingCall
<1>6. store' = [store EXCEPT ![n] = Absent] /\ Absent = Contract!Nothing
  BY DEF ServeDelete, Absent, Contract!Nothing
<1>7. /\ s = 200 => AnswerTo("delete", response'[c]) = Done
      /\ s = 404 => AnswerTo("delete", response'[c]) = Missing
  BY <1>3, <1>4, AnswersToErrors, AnswersToSuccess
<1>8. CASE s = 200
  <2>1. Contract!Reply(c, Done) /\ Done = Contract!Done
    BY <1>5, <1>7, <1>8, MapsToReply DEF Done, Contract!Done
  <2> QED BY <1>4, <1>5, <1>6, <2>1, KeptByReply DEF Contract!Delete, Contract!Deleted, Asked, AskedOf, Waits
<1>9. CASE s = 404
  <2>1. Contract!Reply(c, Missing) /\ Missing = Contract!Missing
    BY <1>5, <1>7, <1>9, MapsToReply DEF Missing, Contract!Missing
  <2>2. store[n].bytes = 0
    BY <1>1, <1>9 DEF Absent
  <2>3. Contract!Delete(c)
    BY <1>4, <1>5, <1>6, <2>1, <2>2 DEF Contract!Delete, Contract!Deleted, Asked, AskedOf, Waits
  <2> QED BY <2>3, KeptByReply
<1> QED BY <1>8, <1>9

LEMMA ErrorKeeps ==
    ASSUME TypeInv, NEW c \in Client, ServeError(c)
    PROVE  Kept
<1>1. /\ Acts(c) /\ store' = store /\ call' = call /\ pc[c] = "sent"
      /\ pc'[c] = "served" /\ response'[c] = Status(500) /\ Status(500).status = 500
  BY StatusTyped DEF Acts, ServeError, serverVars, TypeInv, TypeOK, Messages
<1>2. CASE IsWrite(c)
  <2>1. Waits(c) /\ Replied(c, AnswerTo(call[c].op, response'[c]))
    BY <1>1, <1>2, Served DEF Waits
  <2>2. AnswerTo(call[c].op, response'[c]) = Failed
    BY <1>1, AnswersToErrors DEF TypeInv
  <2> QED BY <1>1, <2>1, <2>2, OthersSeeNothing, MapsToFail, KeptByReply
<1>3. CASE ~IsWrite(c)
  <2>1. ~IsWrite(c)' /\ pc[c] # "idle"
    BY <1>1, <1>3 DEF IsWrite
  <2> QED BY <1>1, <1>3, <2>1, ReadKeeps
<1> QED BY <1>2, <1>3

LEMMA ReceiveWriteKeeps ==
    ASSUME TypeInv, NEW c \in Client, ReceiveWrite(c)
    PROVE  Kept
<1>1. /\ Acts(c) /\ pc[c] = "served" /\ IsWrite(c) /\ pc'[c] = "idle" /\ store' = store
      /\ answer'[c] = AnswerTo(call[c].op, response[c])
  BY ReturnEnds DEF Acts, Receive, ReceiveWrite, TypeInv, TypeOK
<1>2. Asked[c] = Idle /\ Answered[c] = AnswerTo(call[c].op, response[c])
  BY <1>1 DEF Asked, Answered, AskedOf, AnswerOf, Waits
<1>3. Asked'[c] = Idle /\ Answered'[c] = answer'[c]
  BY <1>1 DEF Asked, Answered, AskedOf, AnswerOf, Waits
<1> QED BY <1>1, <1>2, <1>3, OthersSeeNothing, MapsToNothing, KeptByReply

LEMMA ResendKeeps ==
    ASSUME TypeInv, NEW c \in Client, Resend(c)
    PROVE  Kept
<1>1. /\ Acts(c) /\ pc[c] # "idle" /\ pc'[c] = "sent" /\ call' = call /\ answer' = answer
      /\ store' = store
  BY DEF Acts, Resend, serverVars, TypeInv, TypeOK
<1>2. CASE ~IsWrite(c)
  <2>1. ~IsWrite(c)'
    BY <1>1, <1>2 DEF IsWrite
  <2> QED BY <1>1, <1>2, <2>1, ReadKeeps
<1>3. CASE Waits(c)
  <2>1. Asked[c] = call[c] /\ Answered[c] = Pending
    BY <1>3, WaitingCall
  <2>2. Asked'[c] = call[c] /\ Answered'[c] = Pending
    BY <1>1, <1>3 DEF Asked, Answered, AskedOf, AnswerOf, Waits, IsWrite
  <2> QED BY <1>1, <2>1, <2>2, OthersSeeNothing, MapsToNothing, KeptByReply
<1>4. CASE IsWrite(c) /\ ~Waits(c)
  <2>1. Answered[c] # Pending
    BY <1>4, AnsweredCall
  <2>2. Asked'[c] = call[c] /\ Answered'[c] = Pending
    BY <1>1, <1>4 DEF Asked, Answered, AskedOf, AnswerOf, Waits, IsWrite
  <2>3. call[c] \in Contract!Call
    <3>1. call[c] \in Request
      BY <1>1 DEF TypeInv, CallFits
    <3> QED BY <1>4, <3>1 DEF IsWrite, Request, Contract!Call, Always, IfNew,
                            Contract!Always, Contract!IfNew
  <2> QED BY <1>1, <2>1, <2>2, <2>3, OthersSeeNothing, MapsToAsk, KeptByReply
<1> QED BY <1>2, <1>3, <1>4

LEMMA GiveUpKeeps ==
    ASSUME TypeInv, NEW c \in Client, GiveUp(c)
    PROVE  Kept
<1>1. /\ Acts(c) /\ pc[c] # "idle" /\ pc'[c] = "idle" /\ call'[c] = Idle /\ store' = store
      /\ answer'[c] = IF IsWrite(c) THEN Failed ELSE answer[c]
  BY ReturnEnds DEF Acts, GiveUp, TypeInv, TypeOK
<1>2. Asked'[c] = Idle /\ Answered'[c] = answer'[c]
  BY <1>1 DEF Asked, Answered, AskedOf, AnswerOf, Waits
<1>3. CASE Waits(c)
  <2>1. Replied(c, Failed)
    BY <1>1, <1>2, <1>3, WaitingCall DEF Replied, Waits
  <2> QED BY <1>1, <1>3, <2>1, OthersSeeNothing, MapsToFail, KeptByReply
<1>4. CASE IsWrite(c) /\ ~Waits(c)
  <2>1. Answered[c] # Pending /\ Asked[c] = Idle
    BY <1>4, AnsweredCall
  <2> QED BY <1>1, <1>2, <1>4, <2>1, OthersSeeNothing, MapsToLostAnswer, KeptByReply
<1>5. CASE ~IsWrite(c)
  <2>1. Asked[c] = Idle /\ Answered[c] = answer[c]
    BY <1>5 DEF Asked, Answered, AskedOf, AnswerOf, Waits
  <2> QED BY <1>1, <1>2, <1>5, <2>1, OthersSeeNothing, MapsToNothing, KeptByReply
<1> QED BY <1>3, <1>4, <1>5

LEMMA ReadStepKeeps ==
    ASSUME TypeInv, NEW c \in Client,
           ServeGet(c) \/ ServeList(c) \/ ReceiveGet(c) \/ ReceiveList(c)
    PROVE  Kept
<1>1. Acts(c)
  BY DEF Acts, Serve, Receive
<1>2. call[c].op \in {"get", "list"} /\ pc[c] # "idle"
  BY DEF ServeGet, ServeList, ReceiveGet, ReceiveList
<1>3. store' = store /\ call'[c] \in {call[c], Idle}
  <2>1. CASE ServeGet(c) \/ ServeList(c)
    BY <2>1 DEF ServeGet, ServeList, serverVars
  <2>2. CASE ReceiveGet(c) \/ (ReceiveList(c) /\ Return(c))
    BY <2>2, ReturnEnds DEF ReceiveGet
  <2>3. CASE ReceiveList(c) /\ ~Return(c)
    BY <2>3, ReceiveListCases DEF serverVars
  <2> QED BY <2>1, <2>2, <2>3
<1>4. ~IsWrite(c) /\ ~IsWrite(c)'
  BY <1>2, <1>3 DEF IsWrite, Idle
<1> QED BY <1>1, <1>2, <1>3, <1>4, ReadKeeps

LEMMA ContractStep ==
    TypeInv /\ TagsBehind /\ [Next]_vars => [Contract!ContractNext]_(Contract!storeVars)
<1> SUFFICES ASSUME TypeInv, TagsBehind, [Next]_vars
             PROVE  Contract!ContractNext \/ UNCHANGED Contract!storeVars
  OBVIOUS
<1>1. TypeInv' /\ TypeOK'
  BY TypeStep DEF TypeInv
<1>2. CASE UNCHANGED vars
  <2>1. store' = store /\ Asked' = Asked /\ Answered' = Answered
    <3>1. UNCHANGED <<backend, store, pc, call, answer, response>>
      BY <1>2 DEF vars, serverVars, clientVars
    <3>2. ASSUME NEW e \in Client PROVE AskedOf(e)' = AskedOf(e) /\ AnswerOf(e)' = AnswerOf(e)
      BY <3>1 DEF AskedOf, AnswerOf, Waits, IsWrite, AnswerTo
    <3> QED BY <3>1, <3>2 DEF Asked, Answered
  <2> QED BY <2>1 DEF Contract!storeVars, Asked, Answered, AskedOf, AnswerOf, Waits
<1>3. ASSUME NEW c \in Client, Acts(c) PROVE Kept
  <2>1. CASE SendPut(c) \/ SendDelete(c) \/ SendGet(c) \/ SendList(c)
    BY <1>1, <1>3, <2>1, SendKeeps, SendPutNew, SendDeleteNew, SendGetNew, SendListNew
  <2>2. CASE ServePut(c) \/ ServeDelete(c) \/ ServeError(c)
    BY <1>1, <2>2, PutKeeps, DeleteKeeps, ErrorKeeps
  <2>3. CASE ReceiveWrite(c) \/ Resend(c) \/ GiveUp(c)
    BY <2>3, ReceiveWriteKeeps, ResendKeeps, GiveUpKeeps
  <2>4. CASE ServeGet(c) \/ ServeList(c) \/ ReceiveGet(c) \/ ReceiveList(c)
    BY <2>4, ReadStepKeeps
  <2> QED BY <1>3, <2>1, <2>2, <2>3, <2>4 DEF Acts, Serve, Receive
<1> QED BY <1>2, <1>3 DEF Next, Acts, Kept

LEMMA ContractInit == Init => Contract!ContractInit
<1> SUFFICES ASSUME Init PROVE Contract!ContractInit
  OBVIOUS
<1>1. \A c \in Client : AskedOf(c) = Idle /\ AnswerOf(c) = Done
  BY DEF Init, AskedOf, AnswerOf, Waits
<1>2. store = [n \in Name |-> Contract!Nothing]
  BY DEF Init, Absent, Contract!Nothing
<1>3. Asked = [c \in Client |-> Contract!NoCall] /\ Answered = [c \in Client |-> Contract!Done]
  BY <1>1 DEF Asked, Answered, Idle, Contract!NoCall, Always, Contract!Always, Done, Contract!Done
<1> QED BY <1>2, <1>3 DEF Contract!ContractInit, Asked, Answered, AskedOf, AnswerOf, Waits

\* Every put and delete is one step at the server between request and answer.
\* What the SDK of S3 sends again is a second call, and when a response is lost
\* or cannot be read the caller only takes a call to have failed that may have
\* been carried out.
THEOREM ServersKeepTheContract == Spec => ImplementsContract
<1>1. Init => TypeInv /\ TagsBehind /\ Contract!ContractInit
  BY TypeInit, BehindInit, ContractInit
<1>2. TypeInv /\ TagsBehind /\ [Next]_vars => (TypeInv /\ TagsBehind)'
  BY TypeStep, BehindStep
<1> QED BY <1>1, <1>2, ContractStep, PTL DEF Spec, ImplementsContract, Contract!ContractSpec

=============================================================================
