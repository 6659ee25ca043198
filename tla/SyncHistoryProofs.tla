------------------------- MODULE SyncHistoryProofs --------------------------
(***************************************************************************)
(* What the clocks of versions say: in an orderly behaviour a version      *)
(* whose clock covers another's was made in view of it, so that a pull     *)
(* without a question loses nobody's edit.                                 *)
(***************************************************************************)
EXTENDS SyncEngineProofs

-----------------------------------------------------------------------------
(* The invariant *)

\* What is said of p apart from d's cache and from the manifest d works on.
SaidElsewhere(d, p, e) ==
    /\ e # NoEntry
    /\ \/ e = manifest.entries[p] \/ e = remote[d].entries[p]
       \/ \E c \in Device \ {d} : \/ e = cache[c].entries[p] \/ e = local[c].entries[p]
                                  \/ e = remote[c].entries[p]

\* The counter n of device g stands for the seal b: a version contains b exactly
\* if its clock has reached n.
StandsFor(p, b, g, n) == \A e : Says(p, e) => (b \in e.past <=> n <= e.clock[g])

SealsAreCounted(p) ==
    /\ \A e : Says(p, e) => e.blob \in e.past /\ \A b \in e.past : b <= seals[p]
    /\ \A b : (\E e : Says(p, e) /\ b \in e.past)
                 => \E g \in Device, n \in Nat : StandsFor(p, b, g, n)

\* Nobody knows a higher counter of d than the versions that d goes on from, so
\* that its next one is new.
KnowsOwn(d, p) ==
    /\ pc[d] # "save" /\ cache[d].entries[p] # NoEntry =>
          \A e : SaidElsewhere(d, p, e) => e.clock[d] <= cache[d].entries[p].clock[d]
    /\ local[d].entries[p] # NoEntry =>
          \A e : SaidElsewhere(d, p, e) => e.clock[d] <= local[d].entries[p].clock[d]

\* What others know of d they have from the published version, which does not
\* change in this respect while d is working on what it fetched.
PublishedKnows(d, p) ==
    /\ manifest.entries[p] # NoEntry =>
          \A e : SaidElsewhere(d, p, e) => e.clock[d] <= manifest.entries[p].clock[d]
    /\ pc[d] # "save" /\ remote[d].entries[p] # NoEntry =>
          /\ manifest.entries[p] # NoEntry
          /\ manifest.entries[p].clock[d] = remote[d].entries[p].clock[d]

\* Nobody but c has a version of p, and all versions of c agree on the others.
OnlyOf(c, p) ==
    \A d \in Device \ {c} :
        /\ cache[d].entries[p] = NoEntry /\ local[d].entries[p] = NoEntry
        /\ \A e, f : Says(p, e) /\ Says(p, f) => e.clock[d] = f.clock[d]

\* A path that was never published is that of a single device.
Unpublished(p) ==
    manifest.entries[p] = NoEntry =>
        (\A d \in Device : remote[d].entries[p] = NoEntry) /\ \E c : OnlyOf(c, p)

\* What a sync has yet to deal with continues what its device had before; only a
\* first attempt deals with conflicts.
Continues(d, p) ==
    /\ /\ pc[d] \notin {"idle", "save"} /\ attempt[d] = 0
       /\ pc[d] = "apply" => p \in todo[d]
       /\ cache[d].entries[p] # NoEntry
       => /\ local[d].entries[p] # NoEntry
          /\ cache[d].entries[p].clock[d] <= local[d].entries[p].clock[d]
    /\ pc[d] = "apply" /\ p \in todo[d] => Op(d, p) \in Applied(d)

AtRest(d) == pc[d] = "idle" => local[d] = EmptyManifest /\ remote[d] = EmptyManifest

HistoryOf(p) ==
    /\ SealsAreCounted(p) /\ Unpublished(p)
    /\ \A d \in Device : KnowsOwn(d, p) /\ PublishedKnows(d, p) /\ Continues(d, p)

HistoryKept == (\A p \in Path : HistoryOf(p)) /\ \A d \in Device : AtRest(d)

\* No counter that a device may bump next is at the limit of a u64.
OwnBelowLimit ==
    \A d \in Device, p \in Path :
        /\ cache[d].entries[p] # NoEntry => cache[d].entries[p].clock[d] < U64Max
        /\ local[d].entries[p] # NoEntry => local[d].entries[p].clock[d] < U64Max

-----------------------------------------------------------------------------
(* Lemmas *)

LEMMA SaidIsSaid ==
    ASSUME NEW d \in Device, NEW p \in Path, NEW e
    PROVE  Says(p, e) <=> \/ SaidElsewhere(d, p, e)
                          \/ /\ e # NoEntry
                             /\ e = cache[d].entries[p] \/ e = local[d].entries[p]
BY DEF Says, SaidElsewhere

LEMMA CountersAreInt ==
    ASSUME NEW e \in Entry, NEW d \in Device
    PROVE  e.clock[d] \in Int /\ 0 <= e.clock[d]
BY EntryFields DEF Clock, Counter

\* A version made in view of l and r counts one more of d's changes.
LEMMA MadeClock ==
    ASSUME NEW a \in Clock, NEW b \in Clock, NEW d \in Device, b[d] <= a[d], a[d] < U64Max
    PROVE  /\ Bump(Merge(a, b), d)[d] = a[d] + 1
           /\ \A g \in Device \ {d} :
                 Bump(Merge(a, b), d)[g] = IF a[g] < b[g] THEN b[g] ELSE a[g]
<1> DEFINE j == Merge(a, b)
<1>1. j \in Clock /\ \A g \in Device : j[g] = IF a[g] < b[g] THEN b[g] ELSE a[g]
  BY ClockTypes DEF Merge
<1>2. a[d] \in Int /\ b[d] \in Int
  BY DEF Clock, Counter
<1>3. j[d] = a[d]
  BY <1>1, <1>2
<1> HIDE DEF j
<1>4. Bump(j, d) = [j EXCEPT ![d] = j[d] + 1]
  BY <1>3 DEF Bump, SaturatingNext
<1> QED BY <1>1, <1>3, <1>4 DEF j, Clock

\* Nobody learns more of c than was said elsewhere before.
Learns(c, p) ==
    \A e : SaidElsewhere(c, p, e)' =>
        \E f : SaidElsewhere(c, p, f) /\ e.clock[c] <= f.clock[c]

LEMMA LearnsBounded ==
    ASSUME TypeOK, TypeOK', NEW c \in Device, NEW p \in Path, Learns(c, p), NEW n \in Int,
           \A e : SaidElsewhere(c, p, e) => e.clock[c] <= n
    PROVE  \A e : SaidElsewhere(c, p, e)' => e.clock[c] <= n
<1>1. ASSUME NEW e, SaidElsewhere(c, p, e)' PROVE e.clock[c] <= n
  <2>1. PICK f : SaidElsewhere(c, p, f) /\ e.clock[c] <= f.clock[c]
    BY <1>1 DEF Learns
  <2>2. Says(p, f) /\ Says(p, e)'
    BY <1>1, <2>1, SaidIsSaid DEF Says, SaidElsewhere
  <2>3. f \in Entry
    BY <2>2, SaysTyped
  <2>4. e \in Entry
    <3>1. \A b \in Device : {cache'[b].entries[p], local'[b].entries[p], remote'[b].entries[p],
                             manifest'.entries[p]} \subseteq Entry \cup {NoEntry}
      BY ManifestFields DEF TypeOK
    <3> QED BY <2>2, <3>1 DEF Says
  <2>5. e.clock[c] \in Int /\ f.clock[c] \in Int
    BY <2>3, <2>4, CountersAreInt
  <2> QED BY <1>1, <2>1, <2>5
<1> QED BY <1>1

LEMMA OwnKept ==
    ASSUME TypeOK, TypeOK', NEW c \in Device, NEW p \in Path, Learns(c, p), KnowsOwn(c, p),
           cache'[c].entries[p] = cache[c].entries[p],
           local'[c].entries[p] \in {local[c].entries[p], NoEntry},
           pc'[c] # "save" => pc[c] # "save"
    PROVE  KnowsOwn(c, p)'
<1>1. ASSUME pc'[c] # "save", cache[c].entries[p] # NoEntry,
             NEW e, SaidElsewhere(c, p, e)'
      PROVE  e.clock[c] <= cache[c].entries[p].clock[c]
  <2>1. cache[c].entries[p].clock[c] \in Int
    BY <1>1, EntryTypes, CountersAreInt
  <2> QED BY <1>1, <2>1, LearnsBounded DEF KnowsOwn
<1>2. ASSUME local[c].entries[p] # NoEntry, NEW e, SaidElsewhere(c, p, e)'
      PROVE  e.clock[c] <= local[c].entries[p].clock[c]
  <2>1. local[c].entries[p].clock[c] \in Int
    BY <1>2, EntryTypes, CountersAreInt
  <2> QED BY <1>2, <2>1, LearnsBounded DEF KnowsOwn
<1> QED BY <1>1, <1>2 DEF KnowsOwn

LEMMA PublishedKept ==
    ASSUME TypeOK, TypeOK', NEW c \in Device, NEW p \in Path, Learns(c, p), PublishedKnows(c, p),
           manifest'.entries[p] = manifest.entries[p],
           remote'[c].entries[p] \in {remote[c].entries[p], NoEntry},
           pc'[c] # "save" => pc[c] # "save"
    PROVE  PublishedKnows(c, p)'
<1>1. ASSUME manifest.entries[p] # NoEntry, NEW e, SaidElsewhere(c, p, e)'
      PROVE  e.clock[c] <= manifest.entries[p].clock[c]
  <2>1. manifest.entries[p].clock[c] \in Int
    BY <1>1, EntryTypes, CountersAreInt
  <2> QED BY <1>1, <2>1, LearnsBounded DEF PublishedKnows
<1> QED BY <1>1 DEF PublishedKnows

\* A step that says nothing that is new of p.
LEMMA CountedStill ==
    ASSUME TypeOK, TypeOK', NEW p \in Path, SealsAreCounted(p), seals[p] <= seals'[p],
           \A e : Says(p, e)' => Says(p, e)
    PROVE  SealsAreCounted(p)'
<1>1. seals[p] \in Nat /\ seals'[p] \in Nat
  BY DEF TypeOK
<1>2. ASSUME NEW e, Says(p, e)', NEW b \in e.past PROVE b <= seals'[p]
  <2>1. e \in Entry /\ b <= seals[p]
    BY <1>2, SaysTyped DEF SealsAreCounted
  <2>2. b \in Nat
    BY <1>2, <2>1, EntryFields
  <2> QED BY <1>1, <2>1, <2>2
<1>3. ASSUME NEW b, NEW e, Says(p, e)', b \in e.past
      PROVE  \E g \in Device, n \in Nat : StandsFor(p, b, g, n)'
  <2>1. PICK g \in Device, n \in Nat : StandsFor(p, b, g, n)
    BY <1>3 DEF SealsAreCounted
  <2>2. StandsFor(p, b, g, n)'
    BY <2>1 DEF StandsFor
  <2> QED BY <2>2
<1>4. \A e : Says(p, e)' => e.blob \in e.past
  BY DEF SealsAreCounted
<1> QED BY <1>2, <1>3, <1>4 DEF SealsAreCounted

\* x, made by d in view of l and r, contains what they contain and at most the
\* seal that this very step makes; l counts d's changes best of all that is said.
MadeOf(d, p, l, r, x) ==
    /\ Says(p, l) /\ Says(p, r) /\ x \in Entry /\ x.blob \in x.past
    /\ x.clock = Bump(Merge(l.clock, r.clock), d)
    /\ \/ x.past = l.past \cup r.past
       \/ x.past = l.past \cup r.past \cup {seals[p] + 1} /\ seals'[p] = seals[p] + 1
    /\ \A e : Says(p, e) => e.clock[d] <= l.clock[d]
    /\ l.clock[d] < U64Max

LEMMA MadeCounters ==
    ASSUME TypeOK, NEW d \in Device, NEW p \in Path, NEW l, NEW r, NEW x, MadeOf(d, p, l, r, x)
    PROVE  /\ l \in Entry /\ r \in Entry /\ x \in Entry
           /\ x.clock[d] = l.clock[d] + 1
           /\ \A g \in Device \ {d} : x.clock[g] = l.clock[g] \/ x.clock[g] = r.clock[g]
           /\ \A g \in Device \ {d}, n \in Nat :
                 n <= x.clock[g] <=> n <= l.clock[g] \/ n <= r.clock[g]
<1>1. l \in Entry /\ r \in Entry /\ x \in Entry /\ r.clock[d] <= l.clock[d] /\ l.clock[d] < U64Max
  BY SaysTyped DEF MadeOf
<1>2. l.clock \in Clock /\ r.clock \in Clock /\ x.clock = Bump(Merge(l.clock, r.clock), d)
  BY <1>1, EntryFields DEF MadeOf
<1>3. /\ x.clock[d] = l.clock[d] + 1
      /\ \A g \in Device \ {d} :
            x.clock[g] = IF l.clock[g] < r.clock[g] THEN r.clock[g] ELSE l.clock[g]
  BY <1>1, <1>2, MadeClock
<1>4. ASSUME NEW g \in Device \ {d}, NEW n \in Nat
      PROVE  n <= x.clock[g] <=> n <= l.clock[g] \/ n <= r.clock[g]
  <2>1. l.clock[g] \in Int /\ r.clock[g] \in Int
    BY <1>1, CountersAreInt
  <2>2. x.clock[g] = IF l.clock[g] < r.clock[g] THEN r.clock[g] ELSE l.clock[g]
    BY <1>3
  <2> QED BY <2>1, <2>2
<1> QED BY <1>1, <1>3, <1>4

LEMMA CountedMade ==
    ASSUME TypeOK, TypeOK', NEW d \in Device, NEW p \in Path, NEW l, NEW r, NEW x,
           SealsAreCounted(p), MadeOf(d, p, l, r, x), seals[p] <= seals'[p],
           \A e : Says(p, e)' => Says(p, e) \/ e = x
    PROVE  SealsAreCounted(p)'
<1> DEFINE id == seals[p] + 1
<1>1. seals[p] \in Nat /\ seals'[p] \in Nat /\ seals[p] <= seals'[p]
  BY DEF TypeOK
<1>2. ASSUME NEW e, Says(p, e)
      PROVE  /\ e \in Entry /\ e.clock[d] \in Int /\ e.clock[d] <= l.clock[d]
             /\ \A b \in e.past : b \in Nat /\ b <= seals[p]
  BY <1>2, SaysTyped, EntryFields, CountersAreInt DEF MadeOf, SealsAreCounted
<1>3. /\ l \in Entry /\ r \in Entry /\ x \in Entry
      /\ l.clock[d] \in Nat /\ x.clock[d] = l.clock[d] + 1
  BY MadeCounters, CountersAreInt
<1>4. \A b \in x.past : b \in l.past \/ b \in r.past \/ (b = id /\ seals'[p] = id)
  BY DEF MadeOf
<1>5. \A b \in l.past \cup r.past : b \in x.past /\ b <= seals[p] /\ b \in Nat
  BY <1>2 DEF MadeOf
<1>6. ASSUME NEW e, Says(p, e)', NEW b \in e.past PROVE b <= seals'[p]
  <2>1. CASE Says(p, e)
    BY <1>1, <1>2, <1>6, <2>1
  <2>2. CASE e = x
    BY <1>1, <1>4, <1>5, <1>6, <2>2
  <2> QED BY <1>6, <2>1, <2>2
<1>7. ASSUME NEW b, NEW e, Says(p, e)', b \in e.past
      PROVE  \E g \in Device, n \in Nat : StandsFor(p, b, g, n)'
  <2>1. CASE b = id /\ b \in x.past
    <3>1. ASSUME NEW f, Says(p, f)' PROVE b \in f.past <=> x.clock[d] <= f.clock[d]
      <4>1. CASE f = x
        BY <1>3, <2>1, <4>1
      <4>2. CASE Says(p, f)
        <5>1. b \notin f.past
          BY <1>1, <1>2, <2>1, <4>2
        <5>2. ~(x.clock[d] <= f.clock[d])
          BY <1>2, <1>3, <4>2
        <5> QED BY <5>1, <5>2
      <4> QED BY <3>1, <4>1, <4>2
    <3>2. StandsFor(p, b, d, x.clock[d])'
      BY <3>1 DEF StandsFor
    <3>3. x.clock[d] \in Nat
      BY <1>3
    <3> QED BY <3>2, <3>3
  <2>2. CASE ~(b = id /\ b \in x.past)
    <3>1. PICK f : Says(p, f) /\ b \in f.past
      <4>1. CASE Says(p, e)
        BY <1>7, <4>1
      <4>2. CASE e = x
        BY <1>4, <1>7, <2>2, <4>2 DEF MadeOf
      <4> QED BY <1>7, <4>1, <4>2
    <3>2. PICK g \in Device, n \in Nat : StandsFor(p, b, g, n)
      BY <3>1 DEF SealsAreCounted
    <3>3. b \in x.past <=> b \in l.past \/ b \in r.past
      BY <1>4, <1>5, <2>2
    <3>4. /\ b \in l.past <=> n <= l.clock[g]
          /\ b \in r.past <=> n <= r.clock[g]
          /\ n <= f.clock[g]
      BY <3>1, <3>2 DEF StandsFor, MadeOf
    <3>5. b \in x.past <=> n <= x.clock[g]
      <4>1. CASE g = d
        <5>1. n <= l.clock[d]
          BY <1>2, <1>3, <3>1, <3>4, <4>1
        <5> QED BY <1>3, <3>3, <3>4, <4>1, <5>1
      <4>2. CASE g # d
        BY <3>3, <3>4, <4>2, MadeCounters
      <4> QED BY <4>1, <4>2
    <3>6. StandsFor(p, b, g, n)'
      BY <3>2, <3>5 DEF StandsFor
    <3> QED BY <3>6
  <2> QED BY <2>1, <2>2
<1>8. \A e : Says(p, e)' => e.blob \in e.past
  BY DEF SealsAreCounted, MadeOf
<1> QED BY <1>6, <1>7, <1>8 DEF SealsAreCounted

\* A step after which the same is said of p by everyone.
LEMMA HistorySame ==
    ASSUME TypeOK, TypeOK', NEW p \in Path, HistoryOf(p), seals[p] <= seals'[p],
           manifest'.entries[p] = manifest.entries[p],
           \A c \in Device : /\ cache'[c].entries[p] = cache[c].entries[p]
                             /\ local'[c].entries[p] = local[c].entries[p]
                             /\ remote'[c].entries[p] = remote[c].entries[p]
                             /\ pc'[c] # "save" => pc[c] # "save"
                             /\ Continues(c, p)'
    PROVE  HistoryOf(p)'
<1>1. \A e : Says(p, e)' <=> Says(p, e)
  BY DEF Says
<1>2. SealsAreCounted(p)'
  BY <1>1, CountedStill DEF HistoryOf
<1>3. Unpublished(p)'
  <2>1. ASSUME NEW c, OnlyOf(c, p) PROVE OnlyOf(c, p)'
    BY <1>1, <2>1 DEF OnlyOf
  <2> QED BY <2>1 DEF HistoryOf, Unpublished
<1>4. ASSUME NEW c \in Device PROVE KnowsOwn(c, p)' /\ PublishedKnows(c, p)'
  <2>1. \A e : SaidElsewhere(c, p, e)' <=> SaidElsewhere(c, p, e)
    BY DEF SaidElsewhere
  <2> QED BY <2>1 DEF HistoryOf, KnowsOwn, PublishedKnows
<1> QED BY <1>2, <1>3, <1>4 DEF HistoryOf

\* What is said after a step of d that may have given the manifest d works on,
\* saved or fetched another entry for p.
LEMMA SaidAfter ==
    ASSUME NEW d \in Device, NEW p \in Path, Others(d),
           manifest'.entries[p] = manifest.entries[p],
           cache'[d].entries[p] \in {cache[d].entries[p], local[d].entries[p]},
           remote'[d].entries[p] \in {NoEntry, remote[d].entries[p], manifest.entries[p]}
    PROVE  /\ \A e : Says(p, e)' => Says(p, e) \/ (e = local'[d].entries[p] /\ e # NoEntry)
           /\ \A e : SaidElsewhere(d, p, e)' => SaidElsewhere(d, p, e)
           /\ \A c \in Device \ {d} : \A e : SaidElsewhere(c, p, e)' =>
                 SaidElsewhere(c, p, e) \/ (e = local'[d].entries[p] /\ e # NoEntry)
<1>1. \A c \in Device \ {d} : /\ cache'[c] = cache[c] /\ local'[c] = local[c]
                              /\ remote'[c] = remote[c]
  BY DEF Others
<1> QED BY <1>1 DEF Says, SaidElsewhere

LEMMA LearnsNothing ==
    ASSUME TypeOK, NEW c \in Device, NEW p \in Path,
           \A e : SaidElsewhere(c, p, e)' =>
              \/ SaidElsewhere(c, p, e)
              \/ \E f : SaidElsewhere(c, p, f) /\ e.clock[c] = f.clock[c]
    PROVE  Learns(c, p)
<1>1. ASSUME NEW f, SaidElsewhere(c, p, f) PROVE f.clock[c] <= f.clock[c]
  <2>1. f \in Entry
    BY <1>1, SaidIsSaid, SaysTyped
  <2> QED BY <2>1, CountersAreInt
<1> QED BY <1>1 DEF Learns

\* The other devices after such a step.
LEMMA HistoryOthers ==
    ASSUME TypeOK, TypeOK', NEW d \in Device, NEW p \in Path, HistoryOf(p), Others(d),
           manifest'.entries[p] = manifest.entries[p],
           NEW c \in Device \ {d}, Learns(c, p)
    PROVE  KnowsOwn(c, p)' /\ PublishedKnows(c, p)' /\ Continues(c, p)'
<1>1. /\ cache'[c] = cache[c] /\ local'[c] = local[c] /\ remote'[c] = remote[c]
      /\ pc'[c] = pc[c] /\ todo'[c] = todo[c] /\ attempt'[c] = attempt[c]
  BY DEF Others
<1>2. KnowsOwn(c, p)'
  BY <1>1, OwnKept DEF HistoryOf
<1>3. PublishedKnows(c, p)'
  BY <1>1, PublishedKept DEF HistoryOf
<1>4. Continues(c, p)'
  BY <1>1 DEF HistoryOf, Continues, Op, Applied
<1> QED BY <1>2, <1>3, <1>4

\* A step in which d makes x of what it has, l, and of what was said elsewhere, r.
LEMMA HistoryMade ==
    ASSUME TypeOK, TypeOK', NEW d \in Device, NEW p \in Path, HistoryOf(p), Others(d),
           seals[p] <= seals'[p],
           manifest'.entries[p] = manifest.entries[p],
           cache'[d].entries[p] = cache[d].entries[p],
           remote'[d].entries[p] = remote[d].entries[p],
           pc[d] # "save",
           NEW l, NEW r, NEW x, x = local'[d].entries[p],
           MadeOf(d, p, l, r, x),
           l = cache[d].entries[p] \/ l = local[d].entries[p],
           r = l \/ (r = remote[d].entries[p] /\ r # NoEntry),
           Continues(d, p)'
    PROVE  HistoryOf(p)'
<1>1. /\ \A e : Says(p, e)' => Says(p, e) \/ e = x
      /\ \A e : SaidElsewhere(d, p, e)' => SaidElsewhere(d, p, e)
      /\ \A c \in Device \ {d} : \A e : SaidElsewhere(c, p, e)' => SaidElsewhere(c, p, e) \/ e = x
  BY SaidAfter
<1>2. SealsAreCounted(p)'
  BY <1>1, CountedMade DEF HistoryOf
<1>3. /\ l \in Entry /\ r \in Entry /\ x \in Entry /\ x.clock[d] = l.clock[d] + 1
      /\ \A g \in Device \ {d} : x.clock[g] = l.clock[g] \/ x.clock[g] = r.clock[g]
  BY MadeCounters
<1>4. \A c \in Device \ {d} : SaidElsewhere(c, p, l) /\ SaidElsewhere(c, p, r)
  BY <1>3, EntryFields DEF SaidElsewhere
<1>5. ASSUME NEW c \in Device PROVE Learns(c, p)
  BY <1>1, <1>3, <1>4, LearnsNothing
<1>6. \A c \in Device \ {d} : KnowsOwn(c, p)' /\ PublishedKnows(c, p)' /\ Continues(c, p)'
  BY <1>5, HistoryOthers
<1>7. PublishedKnows(d, p)'
  BY <1>5, PublishedKept DEF HistoryOf
<1>8. KnowsOwn(d, p)'
  <2>1. ASSUME NEW e, SaidElsewhere(d, p, e)' PROVE e.clock[d] <= x.clock[d]
    <3>1. Says(p, e) /\ e.clock[d] <= l.clock[d]
      BY <1>1, <2>1, SaidIsSaid DEF MadeOf
    <3>2. e.clock[d] \in Int /\ l.clock[d] \in Int
      BY <1>3, <3>1, SaysTyped, CountersAreInt
    <3> QED BY <1>3, <3>1, <3>2
  <2>2. ASSUME cache[d].entries[p] # NoEntry, NEW e, SaidElsewhere(d, p, e)'
        PROVE  e.clock[d] <= cache[d].entries[p].clock[d]
    BY <1>1, <2>2 DEF HistoryOf, KnowsOwn
  <2> QED BY <2>1, <2>2 DEF KnowsOwn
<1>9. Unpublished(p)'
  <2> SUFFICES ASSUME manifest.entries[p] = NoEntry PROVE Unpublished(p)'
    BY DEF Unpublished
  <2>1. PICK c : OnlyOf(c, p)
    BY DEF HistoryOf, Unpublished
  <2>2. c = d
    BY <1>3, <2>1, EntryFields DEF OnlyOf
  <2>3. \A b \in Device : remote'[b].entries[p] = NoEntry
    BY DEF HistoryOf, Unpublished, Others
  <2>4. ASSUME NEW b \in Device \ {d}, NEW e, NEW f, Says(p, e)', Says(p, f)'
        PROVE  e.clock[b] = f.clock[b]
    <3>1. Says(p, l) /\ Says(p, r)
      BY DEF MadeOf
    <3>2. x.clock[b] = l.clock[b] \/ x.clock[b] = r.clock[b]
      BY <1>3
    <3> QED BY <1>1, <2>1, <2>2, <2>4, <3>1, <3>2 DEF OnlyOf
  <2>5. \A b \in Device \ {d} : cache'[b].entries[p] = NoEntry /\ local'[b].entries[p] = NoEntry
    BY <2>1, <2>2 DEF Others, OnlyOf
  <2>6. OnlyOf(d, p)'
    BY <2>4, <2>5 DEF OnlyOf
  <2> QED BY <2>3, <2>6 DEF Unpublished
<1> QED BY <1>2, <1>6, <1>7, <1>8, <1>9 DEF HistoryOf

\* A step in which d makes nothing, but may take what it knows of.
LEMMA HistoryTold ==
    ASSUME TypeOK, TypeOK', NEW d \in Device, NEW p \in Path, HistoryOf(p), Others(d),
           seals[p] <= seals'[p],
           manifest'.entries[p] = manifest.entries[p],
           cache'[d].entries[p] \in {cache[d].entries[p], local[d].entries[p]},
           remote'[d].entries[p] \in {NoEntry, remote[d].entries[p], manifest.entries[p]},
           local'[d].entries[p] \in {NoEntry, cache[d].entries[p], local[d].entries[p],
                                     remote[d].entries[p]}
    PROVE  /\ SealsAreCounted(p)' /\ Unpublished(p)'
           /\ \A e : SaidElsewhere(d, p, e)' => SaidElsewhere(d, p, e)
           /\ Learns(d, p)
           /\ \A c \in Device \ {d} :
                 KnowsOwn(c, p)' /\ PublishedKnows(c, p)' /\ Continues(c, p)'
<1> DEFINE x == local'[d].entries[p]
<1>1. /\ \A e : Says(p, e)' => Says(p, e)
      /\ \A c \in Device : \A e : SaidElsewhere(c, p, e)' => SaidElsewhere(c, p, e)
  <2>1. \/ x = NoEntry
        \/ Says(p, x) /\ \A c \in Device \ {d} : SaidElsewhere(c, p, x)
    BY DEF Says, SaidElsewhere
  <2> QED BY <2>1, SaidAfter
<1>2. SealsAreCounted(p)'
  BY <1>1, CountedStill DEF HistoryOf
<1>3. \A c \in Device : Learns(c, p)
  BY <1>1, LearnsNothing
<1>4. Unpublished(p)'
  <2> SUFFICES ASSUME manifest.entries[p] = NoEntry PROVE Unpublished(p)'
    BY DEF Unpublished
  <2>1. \A b \in Device : remote[b].entries[p] = NoEntry
    BY DEF HistoryOf, Unpublished
  <2>2. PICK c : OnlyOf(c, p)
    BY DEF HistoryOf, Unpublished
  <2>3. \A b \in Device : remote'[b].entries[p] = NoEntry
    BY <2>1 DEF Others
  <2>4. \A b \in Device \ {c} :
           cache'[b].entries[p] = NoEntry /\ local'[b].entries[p] = NoEntry
    BY <2>1, <2>2 DEF Others, OnlyOf
  <2>5. OnlyOf(c, p)'
    BY <1>1, <2>2, <2>4 DEF OnlyOf
  <2> QED BY <2>3, <2>5 DEF Unpublished
<1> QED BY <1>1, <1>2, <1>3, <1>4, HistoryOthers

-----------------------------------------------------------------------------
(* The scan *)

\* A scan keeps an entry, makes one of the entry it had, or finds a new file.
LEMMA ScanMakes ==
    ASSUME TypeOK, NEW d \in Device, NEW p \in Path, NEW time \in Times,
           NEW e, e = ScanEntry(d, p, time)
    PROVE  LET prev == cache[d].entries[p]
               id   == seals[p] + 1
           IN  \/ e = prev
               \/ /\ prev \in Entry /\ e \in Entry /\ e.clock = Bump(prev.clock, d)
                  /\ \/ e.past = prev.past /\ e.blob = prev.blob
                     \/ e.past = prev.past \cup {id} /\ e.blob = id
               \/ prev = NoEntry /\ e \in Entry /\ e.past = {id} /\ e.blob = id
<1> DEFINE prev == cache[d].entries[p]
           now  == disk[d][p]
           NewSeal(aad, clock, past) == Seal(p, now, aad, clock, time, past)
<1>1. prev \in Entry \cup {NoEntry} /\ now \in Content \cup {Absent}
  BY EntryTypes DEF TypeOK
<1>2. e \in Entry \cup {NoEntry}
  BY ScanEntryType
<1>4. CASE p \notin managed[d]
  BY <1>4 DEF ScanEntry
<1>5. CASE p \in managed[d] /\ now = Absent
  <2>1. CASE IsLive(prev)
    <3>1. prev \in Entry /\ e = [prev EXCEPT !.deleted = TRUE, !.clock = Bump(@, d)]
      BY <1>1, <1>5, <2>1 DEF ScanEntry, IsLive
    <3>2. e.clock = Bump(prev.clock, d) /\ e.past = prev.past /\ e.blob = prev.blob
      BY <3>1 DEF Entry
    <3>3. e \in Entry
      <4>1. Bump(prev.clock, d) \in Clock
        BY <3>1, EntryFields, ClockTypes
      <4> QED BY <3>1, <4>1 DEF Entry
    <3> QED BY <3>1, <3>2, <3>3
  <2>2. CASE ~IsLive(prev)
    BY <1>5, <2>2 DEF ScanEntry
  <2> QED BY <2>1, <2>2
<1>6. CASE p \in managed[d] /\ now # Absent
  <2>1. CASE prev = NoEntry
    <3>1. e = NewSeal(1, Bump(cache[d].clock, d), {})
      BY <1>6, <2>1 DEF ScanEntry, IsLive
    <3>2. e \in Entry
      <4>1. Bump(cache[d].clock, d) \in Clock /\ 1 \in Counter /\ {} \in SUBSET Nat
        BY ManifestFields, ClockTypes, CounterAssumption DEF TypeOK, Counter
      <4> QED BY <1>1, <1>6, <3>1, <4>1, SealType
    <3>3. e.blob = seals[p] + 1 /\ e.past = {} \cup {seals[p] + 1}
      BY <3>1 DEF Seal
    <3>4. e.past = {seals[p] + 1}
      BY <3>3
    <3> HIDE DEF NewSeal
    <3> QED BY <2>1, <3>2, <3>3, <3>4
  <2>2. CASE IsLive(prev) /\ prev.content = now
    BY <1>6, <2>2 DEF ScanEntry, IsLive
  <2>3. CASE prev # NoEntry /\ ~(IsLive(prev) /\ prev.content = now)
    <3>1. e = NewSeal(SaturatingNext(prev.aad), Bump(prev.clock, d), prev.past)
      BY <1>6, <2>3 DEF ScanEntry
    <3>2. prev \in Entry
      BY <1>1, <2>3
    <3>3. e \in Entry
      <4>1. /\ Bump(prev.clock, d) \in Clock /\ SaturatingNext(prev.aad) \in Counter
            /\ prev.past \in SUBSET Nat
        BY <3>2, EntryFields, ClockTypes, SaturatingNextType
      <4> QED BY <1>1, <1>6, <3>1, <4>1, SealType
    <3>4. /\ e.blob = seals[p] + 1 /\ e.clock = Bump(prev.clock, d)
          /\ e.past = prev.past \cup {seals[p] + 1}
      BY <3>1 DEF Seal
    <3> HIDE DEF NewSeal
    <3> QED BY <3>2, <3>3, <3>4
  <2> QED BY <2>1, <2>2, <2>3
<1> QED BY <1>4, <1>5, <1>6

LEMMA HistoryStartSync ==
    ASSUME TypeOK, TypeOK', HistoryKept, OwnBelowLimit, NEW d \in Device, StartSync(d),
           CreatesAlone(d), NEW p \in Path
    PROVE  HistoryOf(p)'
<1> DEFINE prev == cache[d].entries[p]
           x    == local'[d].entries[p]
           id   == seals[p] + 1
<1>1. PICK time \in [Path -> Times] :
         LET es == [q \in Path |-> ScanEntry(d, q, time[q])]
         IN  /\ local' = [local EXCEPT ![d] = [cache[d] EXCEPT !.entries = es]]
             /\ seals' = CountSeals(es)
  BY DEF StartSync
<1> DEFINE es == [q \in Path |-> ScanEntry(d, q, time[q])]
<1>2. x = ScanEntry(d, p, time[p]) /\ x = es[p]
  BY <1>1 DEF TypeOK, ManifestRecord
<1>3. /\ seals'[p] = IF x # NoEntry /\ x.blob = id THEN id ELSE seals[p]
      /\ seals[p] \in Nat /\ seals[p] <= seals'[p]
  BY <1>1, <1>2 DEF CountSeals, NewlySealed, TypeOK
<1>4. /\ UNCHANGED <<manifest, cache, remote, attempt, todo>> /\ Others(d)
      /\ pc[d] = "idle" /\ pc'[d] = "upload"
      /\ \A c \in Device : pc'[c] # "save" => pc[c] # "save"
  BY OthersUntouched DEF StartSync, storeVars, deviceVars, TypeOK
<1>5. HistoryOf(p) /\ local[d].entries[p] = NoEntry /\ remote[d].entries[p] = NoEntry
  BY <1>4, EmptyHasNoHistory DEF HistoryKept, AtRest
<1> HIDE DEF x
<1>6. CASE x = prev
  <2>1. /\ SealsAreCounted(p)' /\ Unpublished(p)' /\ Learns(d, p)
        /\ \A e : SaidElsewhere(d, p, e)' => SaidElsewhere(d, p, e)
        /\ \A c \in Device \ {d} :
              KnowsOwn(c, p)' /\ PublishedKnows(c, p)' /\ Continues(c, p)'
    BY <1>3, <1>4, <1>5, <1>6, HistoryTold DEF x
  <2>2. PublishedKnows(d, p)'
    BY <1>4, <1>5, <2>1, PublishedKept DEF HistoryOf
  <2>3. KnowsOwn(d, p)'
    BY <1>4, <1>5, <1>6, <2>1 DEF HistoryOf, KnowsOwn, x
  <2>4. Continues(d, p)'
    <3>1. ASSUME prev # NoEntry PROVE prev.clock[d] <= prev.clock[d]
      BY <3>1, EntryTypes, CountersAreInt
    <3> QED BY <1>4, <1>6, <3>1 DEF Continues, x
  <2> QED BY <2>1, <2>2, <2>3, <2>4 DEF HistoryOf
<1>7. CASE /\ prev \in Entry /\ x \in Entry /\ x.clock = Bump(prev.clock, d)
           /\ \/ x.past = prev.past /\ x.blob = prev.blob
              \/ x.past = prev.past \cup {id} /\ x.blob = id
  <2>1. Says(p, prev) /\ prev # NoEntry
    BY <1>7, EntryFields DEF Says
  <2>2. prev.clock = Merge(prev.clock, prev.clock)
    BY <1>7, EntryFields DEF Merge, Clock, Counter
  <2>3. ASSUME NEW e, Says(p, e) PROVE e.clock[d] <= prev.clock[d]
    <3>1. CASE SaidElsewhere(d, p, e)
      BY <1>4, <1>5, <2>1, <3>1 DEF HistoryOf, KnowsOwn
    <3>2. CASE e = prev
      BY <1>7, <3>2, CountersAreInt
    <3> QED BY <1>5, <2>3, <3>1, <3>2, SaidIsSaid
  <2>4. prev.clock[d] < U64Max
    BY <2>1 DEF OwnBelowLimit
  <2>5. MadeOf(d, p, prev, prev, x)
    <3>1. x.blob \in x.past
      BY <1>5, <1>7, <2>1 DEF HistoryOf, SealsAreCounted
    <3> QED BY <1>3, <1>7, <2>1, <2>2, <2>3, <2>4, <3>1, EntryFields DEF MadeOf
  <2>6. Continues(d, p)'
    <3>1. prev.clock[d] <= x.clock[d] /\ x # NoEntry
      BY <1>7, <2>5, MadeCounters, CountersAreInt, EntryFields
    <3> QED BY <1>4, <3>1 DEF Continues, x
  <2> QED BY <1>3, <1>4, <1>5, <2>5, <2>6, HistoryMade DEF x
<1>8. CASE prev = NoEntry /\ x \in Entry /\ x.past = {id} /\ x.blob = id
  <2>1. EntriesOf(p) = {} /\ x # NoEntry
    BY <1>4, <1>8, EntryFields DEF CreatesAlone, x
  <2>2. /\ manifest.entries[p] = NoEntry
        /\ \A c \in Device : cache[c].entries[p] = NoEntry /\ local[c].entries[p] = NoEntry
    BY <2>1 DEF EntriesOf
  <2>3. \A c \in Device : remote[c].entries[p] = NoEntry
    BY <1>5, <2>2 DEF HistoryOf, Unpublished
  <2>4. \A e : Says(p, e)' => e = x
    <3>1. \A e : ~Says(p, e)
      BY <2>2, <2>3 DEF Says
    <3> QED BY <1>4, <3>1, SaidAfter DEF x
  <2>5. SealsAreCounted(p)'
    <3>1. seals'[p] = id /\ id <= id
      BY <1>3, <1>8, <2>1
    <3>2. x.clock[d] \in Nat /\ x.clock[d] <= x.clock[d]
      BY <1>8, CountersAreInt
    <3>3. ASSUME NEW y, NEW b, y = x, b = id PROVE StandsFor(p, b, d, y.clock[d])'
      BY <1>8, <2>4, <3>2, <3>3 DEF StandsFor
    <3>4. \A e : Says(p, e)' => e.blob \in e.past /\ \A b \in e.past : b <= seals'[p]
      BY <1>3, <1>8, <2>4, <3>1
    <3>5. \A b : (\E e : Says(p, e)' /\ b \in e.past) => b = id
      BY <1>8, <2>4
    <3> QED BY <3>2, <3>3, <3>4, <3>5 DEF SealsAreCounted
  <2>6. Unpublished(p)'
    <3>1. OnlyOf(d, p)'
      BY <1>4, <2>2, <2>4 DEF Others, OnlyOf
    <3> QED BY <1>4, <2>3, <3>1 DEF Unpublished
  <2>7. ASSUME NEW c \in Device
        PROVE  KnowsOwn(c, p)' /\ PublishedKnows(c, p)' /\ Continues(c, p)'
    <3>1. /\ cache'[c].entries[p] = NoEntry /\ remote'[c].entries[p] = NoEntry
          /\ manifest'.entries[p] = NoEntry
      BY <1>4, <2>2, <2>3
    <3>2. CASE c = d
      <4>1. \A e : ~SaidElsewhere(d, p, e)
        BY <2>2, <2>3 DEF SaidElsewhere
      <4>2. \A e : ~SaidElsewhere(d, p, e)'
        BY <1>4, <4>1, SaidAfter
      <4> QED BY <1>4, <3>1, <3>2, <4>2 DEF KnowsOwn, PublishedKnows, Continues
    <3>3. CASE c # d
      <4>1. /\ local'[c] = local[c] /\ pc'[c] = pc[c] /\ todo'[c] = todo[c]
            /\ remote'[c] = remote[c] /\ attempt'[c] = attempt[c]
        BY <1>4, <3>3 DEF Others
      <4> QED BY <1>5, <2>2, <3>1, <4>1
              DEF HistoryOf, KnowsOwn, PublishedKnows, Continues, Op, Applied
    <3> QED BY <3>2, <3>3
  <2> QED BY <2>5, <2>6, <2>7 DEF HistoryOf
<1>9. time[p] \in Times
  OBVIOUS
<1> QED BY <1>2, <1>6, <1>7, <1>8, <1>9, ScanMakes

-----------------------------------------------------------------------------
(* The other steps *)

LEMMA HistoryGetManifest ==
    ASSUME TypeOK, TypeOK', HistoryKept, NEW d \in Device, GetManifest(d), NEW p \in Path
    PROVE  HistoryOf(p)'
<1>1. /\ UNCHANGED <<manifest, cache, local, attempt, seals>> /\ remote'[d] = manifest
      /\ pc[d] = "get" /\ pc'[d] = "apply"
      /\ todo'[d] = {q \in managed[d] :
                        DiffOp(local[d].entries[q], manifest.entries[q]) \in Applied(d)}
  BY DEF GetManifest, TypeOK, storeVars, deviceVars
<1>2. Others(d) /\ HistoryOf(p) /\ seals[p] <= seals'[p]
  BY <1>1, OthersUntouched DEF HistoryKept, TypeOK
<1>3. /\ SealsAreCounted(p)' /\ Unpublished(p)' /\ Learns(d, p)
      /\ \A e : SaidElsewhere(d, p, e)' => SaidElsewhere(d, p, e)
      /\ \A c \in Device \ {d} :
            KnowsOwn(c, p)' /\ PublishedKnows(c, p)' /\ Continues(c, p)'
  BY <1>1, <1>2, HistoryTold
<1>4. KnowsOwn(d, p)'
  BY <1>1, <1>2, <1>3, OwnKept DEF HistoryOf
<1>5. PublishedKnows(d, p)'
  BY <1>1, <1>2, <1>3 DEF HistoryOf, PublishedKnows
<1>6. Continues(d, p)'
  BY <1>1, <1>2 DEF HistoryOf, Continues, Op, Applied
<1> QED BY <1>3, <1>4, <1>5, <1>6 DEF HistoryOf

\* The loop takes the remote entry or makes one of both sides of a conflict.
LEMMA AppliedMakes ==
    ASSUME TypeOK, NEW d \in Device, NEW p \in Path, Applies(d, p)
    PROVE  LET l  == local[d].entries[p]
               r  == remote[d].entries[p]
               id == seals[p] + 1
           IN  \E x : /\ Settle(d, p, x)
                      /\ \/ x = r /\ r # NoEntry
                         \/ /\ Turn(d, p, "conflict") /\ l \in Entry /\ r \in Entry /\ x \in Entry
                            /\ x.clock = Bump(Merge(l.clock, r.clock), d)
                            /\ \/ x.past = l.past \cup r.past /\ x.blob \in {l.blob, r.blob}
                               \/ /\ x.past = l.past \cup r.past \cup {id} /\ x.blob = id
                                  /\ seals'[p] = id
<1> DEFINE l == local[d].entries[p]
           r == remote[d].entries[p]
<1>1. Turn(d, p, "pull_local") \/ Turn(d, p, "pull_deletion") \/ Turn(d, p, "conflict")
  BY DEF Applies, ApplyPull, ApplyPullDeletion, DeleteOnConflict, TakeRemoteOnConflict,
         KeepLocalOnConflict
<1>2. CASE Settle(d, p, r)
  BY <1>1, <1>2, TurnEntries, EntryFields DEF Turn
<1>3. CASE DeleteOnConflict(d, p)
  <2>1. PICK chosen \in Winners(d, p) :
           Settle(d, p, [chosen EXCEPT !.clock = ResolvedClock(d, p),
                                       !.past  = ResolvedPast(d, p)])
    BY <1>3 DEF DeleteOnConflict
  <2> DEFINE x == [chosen EXCEPT !.clock = ResolvedClock(d, p), !.past = ResolvedPast(d, p)]
  <2>2. Turn(d, p, "conflict")
    BY <1>3 DEF DeleteOnConflict
  <2>3. /\ l \in Entry /\ r \in Entry /\ ResolvedClock(d, p) \in Clock
        /\ ResolvedPast(d, p) \in SUBSET Nat
    BY <2>2, ResolvedTypes
  <2>4. chosen \in Entry /\ chosen \in {l, r}
    BY <2>3 DEF Winners, ChosenEntry
  <2>5. /\ x \in Entry /\ x.clock = ResolvedClock(d, p) /\ x.past = ResolvedPast(d, p)
        /\ x.blob = chosen.blob
    BY <2>3, <2>4 DEF Entry
  <2>6. x.clock = Bump(Merge(l.clock, r.clock), d) /\ x.past = l.past \cup r.past
    BY <2>5 DEF ResolvedClock, ResolvedPast
  <2> QED BY <2>1, <2>2, <2>3, <2>4, <2>5, <2>6
<1>4. CASE KeepLocalOnConflict(d, p)
  <2> DEFINE NewSeal(time) == Seal(p, disk[d][p], SaturatingNext(l.aad), ResolvedClock(d, p),
                                   time, ResolvedPast(d, p))
  <2>1. PICK time \in Times : Settle(d, p, NewSeal(time))
    BY <1>4 DEF KeepLocalOnConflict
  <2>2. Turn(d, p, "conflict") /\ disk[d][p] \in Content /\ seals'[p] = seals[p] + 1
    BY <1>4 DEF KeepLocalOnConflict, TypeOK
  <2>3. /\ l \in Entry /\ r \in Entry /\ ResolvedClock(d, p) \in Clock
        /\ ResolvedPast(d, p) \in SUBSET Nat
    BY <2>2, ResolvedTypes
  <2>4. NewSeal(time) \in Entry
    BY <2>2, <2>3, EntryFields, SaturatingNextType, SealType
  <2>5. /\ NewSeal(time).clock = ResolvedClock(d, p)
        /\ NewSeal(time).past = ResolvedPast(d, p) \cup {seals[p] + 1}
        /\ NewSeal(time).blob = seals[p] + 1
    BY DEF Seal
  <2>6. /\ NewSeal(time).clock = Bump(Merge(l.clock, r.clock), d)
        /\ NewSeal(time).past = l.past \cup r.past \cup {seals[p] + 1}
        /\ NewSeal(time).blob = seals[p] + 1
    BY <2>5 DEF ResolvedClock, ResolvedPast
  <2> HIDE DEF NewSeal
  <2> QED BY <2>1, <2>2, <2>3, <2>4, <2>6
<1> QED BY <1>2, <1>3, <1>4 DEF Applies, ApplyPull, ApplyPullDeletion, TakeRemoteOnConflict,
           PullEntry

LEMMA HistoryApply ==
    ASSUME TypeOK, TypeOK', HistoryKept, OwnBelowLimit, NEW d \in Device, NEW q \in Path,
           Applies(d, q), NEW p \in Path
    PROVE  HistoryOf(p)'
<1> DEFINE l == local[d].entries[p]
           r == remote[d].entries[p]
<1>1. UNCHANGED <<manifest, cache, pc, remote, attempt>> /\ Others(d)
  BY OthersApply
<1>2. PICK x : /\ Settle(d, q, x)
               /\ \/ x = remote[d].entries[q] /\ remote[d].entries[q] # NoEntry
                  \/ /\ Turn(d, q, "conflict")
                     /\ local[d].entries[q] \in Entry /\ remote[d].entries[q] \in Entry
                     /\ x \in Entry
                     /\ x.clock = Bump(Merge(local[d].entries[q].clock,
                                             remote[d].entries[q].clock), d)
                     /\ \/ /\ x.past = local[d].entries[q].past \cup remote[d].entries[q].past
                           /\ x.blob \in {local[d].entries[q].blob, remote[d].entries[q].blob}
                        \/ /\ x.past = local[d].entries[q].past \cup remote[d].entries[q].past
                                          \cup {seals[q] + 1}
                           /\ x.blob = seals[q] + 1 /\ seals'[q] = seals[q] + 1
  BY AppliedMakes
<1>3. /\ todo'[d] = todo[d] \ {q} /\ q \in todo[d] /\ pc[d] = "apply"
      /\ local'[d].entries[p] = IF p = q THEN x ELSE local[d].entries[p]
  <2>1. local'[d].entries = [local[d].entries EXCEPT ![q] = x] /\ todo'[d] = todo[d] \ {q}
    BY <1>2, SettledLocal
  <2>2. local[d].entries \in Entries
    BY ManifestFields DEF TypeOK
  <2>3. q \in todo[d] /\ pc[d] = "apply"
    BY DEF Applies, ApplyPull, ApplyPullDeletion, DeleteOnConflict, TakeRemoteOnConflict,
           KeepLocalOnConflict, Turn
  <2> QED BY <2>1, <2>2, <2>3 DEF Entries
<1>4. HistoryOf(p) /\ seals[p] <= seals'[p]
  <2>1. seals' = seals \/ seals' = [seals EXCEPT ![q] = @ + 1]
    BY DEF Applies, ApplyPull, ApplyPullDeletion, DeleteOnConflict, TakeRemoteOnConflict,
           KeepLocalOnConflict
  <2>2. seals[p] \in Nat /\ (seals'[p] = seals[p] \/ seals'[p] = seals[p] + 1)
    BY <2>1 DEF TypeOK
  <2> QED BY <2>2 DEF HistoryKept
<1>5. CASE p # q
  <2>1. ASSUME NEW c \in Device PROVE Continues(c, p)' /\ local'[c].entries[p] = local[c].entries[p]
    <3>1. /\ local'[c].entries[p] = local[c].entries[p]
          /\ p \in todo'[c] <=> p \in todo[c]
      BY <1>1, <1>3, <1>5 DEF Others
    <3> QED BY <1>1, <1>4, <3>1 DEF HistoryOf, Continues, Op, Applied
  <2> QED BY <1>1, <1>4, <2>1, HistorySame
<1>6. CASE p = q /\ x = r /\ r # NoEntry
  <2>1. /\ SealsAreCounted(p)' /\ Unpublished(p)' /\ Learns(d, p)
        /\ \A e : SaidElsewhere(d, p, e)' => SaidElsewhere(d, p, e)
        /\ \A c \in Device \ {d} :
              KnowsOwn(c, p)' /\ PublishedKnows(c, p)' /\ Continues(c, p)'
    BY <1>1, <1>3, <1>4, <1>6, HistoryTold
  <2>2. PublishedKnows(d, p)'
    BY <1>1, <1>4, <2>1, PublishedKept DEF HistoryOf
  <2>3. KnowsOwn(d, p)'
    BY <1>1, <1>3, <1>4, <1>6, <2>1 DEF HistoryOf, KnowsOwn, PublishedKnows
  <2>4. Continues(d, p)'
    BY <1>1, <1>3, <1>6 DEF Continues
  <2> QED BY <2>1, <2>2, <2>3, <2>4 DEF HistoryOf
<1>7. CASE p = q /\ ~(x = r /\ r # NoEntry)
  <2>1. /\ Op(d, p) = "conflict" /\ l \in Entry /\ r \in Entry /\ x \in Entry
        /\ x.clock = Bump(Merge(l.clock, r.clock), d)
        /\ \/ x.past = l.past \cup r.past /\ x.blob \in {l.blob, r.blob}
           \/ /\ x.past = l.past \cup r.past \cup {seals[p] + 1} /\ x.blob = seals[p] + 1
              /\ seals'[p] = seals[p] + 1
    BY <1>2, <1>7 DEF Turn
  <2>2. attempt[d] = 0
    BY <1>3, <1>4, <1>7, <2>1 DEF HistoryOf, Continues, Applied
  <2>3. l # NoEntry /\ r # NoEntry /\ Says(p, l) /\ Says(p, r)
    BY <2>1, EntryFields DEF Says
  <2>4. ASSUME NEW e, Says(p, e) PROVE e.clock[d] <= l.clock[d]
    <3>1. CASE SaidElsewhere(d, p, e)
      BY <1>4, <2>3, <3>1 DEF HistoryOf, KnowsOwn
    <3>2. CASE e = cache[d].entries[p] /\ e # NoEntry
      BY <1>3, <1>4, <1>7, <2>2, <3>2 DEF HistoryOf, Continues
    <3>3. CASE e = l
      BY <2>1, <3>3, CountersAreInt
    <3> QED BY <2>4, <3>1, <3>2, <3>3, SaidIsSaid
  <2>5. MadeOf(d, p, l, r, x)
    <3>1. l.blob \in l.past /\ r.blob \in r.past
      BY <1>4, <2>3 DEF HistoryOf, SealsAreCounted
    <3>2. x.blob \in x.past
      BY <2>1, <3>1
    <3> QED BY <2>1, <2>3, <2>4, <3>2 DEF MadeOf, OwnBelowLimit
  <2>6. Continues(d, p)'
    BY <1>1, <1>3, <1>7 DEF Continues
  <2>7. x = local'[d].entries[p]
    BY <1>3, <1>7
  <2> QED BY <1>1, <1>3, <1>4, <2>3, <2>5, <2>6, <2>7, HistoryMade
<1> QED BY <1>5, <1>6, <1>7

LEMMA HistoryQuiet ==
    ASSUME TypeOK, TypeOK', HistoryKept, NEW d \in Device,
           \/ UploadBlobs(d) \/ ListManifest(d) \/ RetryPush(d)
           \/ \E q \in Path : AbortOnConflict(d, q),
           NEW p \in Path
    PROVE  HistoryOf(p)'
<1>1. Others(d) /\ HistoryOf(p) /\ seals[p] <= seals'[p]
  <2>1. seals' = seals /\ seals[p] \in Nat
    BY DEF UploadBlobs, ListManifest, RetryPush, AbortOnConflict, TypeOK
  <2>2. Others(d)
    BY OthersUntouched
  <2> QED BY <2>1, <2>2 DEF HistoryKept
<1>2. /\ UNCHANGED <<manifest, cache, remote, todo>>
      /\ local'[d].entries = local[d].entries
      /\ pc[d] # "save"
      /\ \/ pc[d] \in {"upload", "list"} /\ pc'[d] \in {"list", "get"} /\ attempt' = attempt
         \/ pc'[d] = "save"
         \/ pc'[d] = "list" /\ attempt'[d] # 0
  <2>1. CASE UploadBlobs(d) \/ ListManifest(d) \/ \E q \in Path : AbortOnConflict(d, q)
    BY <2>1 DEF UploadBlobs, ListManifest, AbortOnConflict, Turn, storeVars, deviceVars, TypeOK
  <2>2. CASE RetryPush(d)
    <3>1. attempt[d] \in Nat /\ attempt'[d] = attempt[d] + 1
      BY <2>2 DEF RetryPush, TypeOK
    <3>2. local'[d].entries = local[d].entries
      BY <2>2 DEF RetryPush, TypeOK, ManifestRecord
    <3> QED BY <2>2, <3>1, <3>2 DEF RetryPush, ReadyToPush, storeVars, deviceVars, TypeOK
  <2> QED BY <2>1, <2>2
<1>3. ASSUME NEW c \in Device
      PROVE  /\ local'[c].entries[p] = local[c].entries[p]
             /\ pc'[c] # "save" => pc[c] # "save"
             /\ Continues(c, p)'
  <2>1. CASE c = d
    BY <1>1, <1>2, <2>1 DEF HistoryOf, Continues
  <2>2. CASE c # d
    <3>1. pc'[c] = pc[c] /\ local'[c] = local[c] /\ attempt'[c] = attempt[c]
      BY <1>1, <2>2 DEF Others
    <3> QED BY <1>1, <1>2, <3>1 DEF HistoryOf, Continues, Op, Applied
  <2> QED BY <2>1, <2>2
<1> QED BY <1>1, <1>2, <1>3, HistorySame

LEMMA HistoryElsewhere ==
    ASSUME TypeOK, TypeOK', HistoryKept, NEW p \in Path,
           UNCHANGED <<manifest, cache, local, remote, pc, todo, attempt, seals>>
    PROVE  HistoryOf(p)'
<1>1. HistoryOf(p) /\ seals[p] <= seals'[p]
  BY DEF HistoryKept, TypeOK
<1>2. \A c \in Device : Continues(c, p)'
  BY <1>1 DEF HistoryOf, Continues, Op, Applied
<1> QED BY <1>1, <1>2, HistorySame

LEMMA HistoryEnds ==
    ASSUME TypeOK, TypeOK', HistoryKept, NEW d \in Device, Ends(d), SavesAtLast(d), NEW p \in Path
    PROVE  HistoryOf(p)'
<1>1. /\ UNCHANGED <<manifest, seals>> /\ pc'[d] = "idle"
      /\ local'[d] = EmptyManifest /\ remote'[d] = EmptyManifest
      /\ cache'[d] = IF pc[d] = "save" THEN local[d] ELSE cache[d]
  BY DEF Ends, SaveCache, StopSync, FailSync, EndRun, SavesAtLast, TypeOK, storeVars, deviceVars
<1>2. Others(d) /\ HistoryOf(p) /\ seals[p] <= seals'[p]
  BY <1>1, OthersEnd DEF HistoryKept, TypeOK
<1>3. local'[d].entries[p] = NoEntry /\ remote'[d].entries[p] = NoEntry
  BY <1>1, EmptyHasNoHistory
<1>4. /\ SealsAreCounted(p)' /\ Unpublished(p)' /\ Learns(d, p)
      /\ \A e : SaidElsewhere(d, p, e)' => SaidElsewhere(d, p, e)
      /\ \A c \in Device \ {d} :
            KnowsOwn(c, p)' /\ PublishedKnows(c, p)' /\ Continues(c, p)'
  BY <1>1, <1>2, <1>3, HistoryTold
<1>5. KnowsOwn(d, p)'
  BY <1>1, <1>2, <1>3, <1>4 DEF HistoryOf, KnowsOwn
<1>6. PublishedKnows(d, p)'
  BY <1>1, <1>2, <1>3, <1>4 DEF HistoryOf, PublishedKnows
<1>7. Continues(d, p)'
  BY <1>1 DEF Continues
<1> QED BY <1>4, <1>5, <1>6, <1>7 DEF HistoryOf

LEMMA HistoryPushManifest ==
    ASSUME InStep, TypeOK', HistoryKept, NEW d \in Device, PushManifest(d), PushCovers(d),
           NEW p \in Path
    PROVE  HistoryOf(p)'
<1> DEFINE l == local[d].entries[p]
           m == manifest.entries[p]
           x == manifest'.entries[p]
<1>1. /\ remote[d].entries[p] = m /\ x \in {l, m} /\ pc[d] = "apply" /\ pc'[d] = "save"
      /\ UNCHANGED <<cache, remote, seals>>
      /\ local'[d].entries[p] = l
  <2>1. local' = [local EXCEPT ![d] = [local[d] EXCEPT !.version = NextVersion(d),
                                                       !.clock   = AggregateClock(d)]]
    BY DEF InStep, PushManifest, TypeOK
  <2>2. local'[d].entries = local[d].entries
    BY <2>1 DEF InStep, TypeOK, ManifestRecord
  <2>3. remote[d] = manifest /\ pc[d] = "apply" /\ x = OutgoingEntry(d, p)
    BY PushReplacesRemote DEF InStep
  <2>4. OutgoingEntry(d, p) \in {l, remote[d].entries[p]}
    BY DEF OutgoingEntry
  <2> QED BY <2>2, <2>3, <2>4 DEF PushManifest, deviceVars, InStep, TypeOK
<1>2. Others(d) /\ HistoryOf(p) /\ TypeOK /\ seals[p] <= seals'[p]
  BY <1>1, OthersUntouched DEF HistoryKept, InStep, TypeOK
<1>3. m # NoEntry => x # NoEntry /\ AtMost(m.clock, x.clock)
  <2>1. Pushes(d)
    BY <1>1 DEF Pushes, PushManifest, InStep, TypeOK
  <2> QED BY <2>1, PushNeverSetsBack DEF InStep, PushCovers
<1>4. /\ \A e : Says(p, e)' => Says(p, e)
      /\ \A c \in Device \ {d} : \A e : SaidElsewhere(c, p, e)' => SaidElsewhere(c, p, e)
      /\ \A e : SaidElsewhere(d, p, e)' => SaidElsewhere(d, p, e) \/ e = x
      /\ \A c \in Device \ {d} : x # NoEntry => SaidElsewhere(c, p, x)
  BY <1>1, <1>2 DEF Says, SaidElsewhere, Others
<1> HIDE DEF x
<1>5. SealsAreCounted(p)'
  BY <1>2, <1>4, CountedStill DEF HistoryOf
<1>6. Unpublished(p)'
  <2>1. ASSUME NEW c, OnlyOf(c, p) PROVE OnlyOf(c, p)'
    BY <1>1, <1>2, <1>4, <2>1 DEF OnlyOf, Others
  <2> QED BY <1>1, <1>2, <1>3, <2>1 DEF HistoryOf, Unpublished, x
<1>7. ASSUME NEW c \in Device, NEW e, m # NoEntry, SaidElsewhere(c, p, e)
      PROVE  e.clock[c] <= m.clock[c] /\ e.clock[c] <= x.clock[c] /\ m.clock[c] <= x.clock[c]
  <2>1. e.clock[c] <= m.clock[c] /\ m.clock[c] <= x.clock[c]
    BY <1>2, <1>3, <1>7 DEF HistoryOf, PublishedKnows, AtMost
  <2>2. e \in Entry /\ m \in Entry /\ x \in Entry
    BY <1>1, <1>2, <1>3, <1>7, EntryTypes, SaidIsSaid, SaysTyped
  <2> QED BY <2>1, <2>2, CountersAreInt
<1>8. ASSUME NEW c \in Device \ {d}
      PROVE  KnowsOwn(c, p)' /\ PublishedKnows(c, p)' /\ Continues(c, p)'
  <2>1. /\ cache'[c] = cache[c] /\ local'[c] = local[c] /\ remote'[c] = remote[c]
        /\ pc'[c] = pc[c] /\ todo'[c] = todo[c] /\ attempt'[c] = attempt[c]
    BY <1>2 DEF Others
  <2>2. KnowsOwn(c, p)'
    BY <1>2, <1>4, <2>1, LearnsNothing, OwnKept DEF HistoryOf
  <2>3. Continues(c, p)'
    BY <1>2, <2>1 DEF HistoryOf, Continues, Op, Applied
  <2>4. ASSUME x # NoEntry, NEW e, SaidElsewhere(c, p, e) PROVE e.clock[c] <= x.clock[c]
    <3>1. CASE m # NoEntry
      BY <1>7, <2>4, <3>1
    <3>2. CASE m = NoEntry
      <4>1. x = l /\ Says(p, x) /\ Says(p, e) /\ x \in Entry
        BY <1>1, <1>2, <1>4, <2>4, <3>2, EntryTypes, SaidIsSaid
      <4>2. OnlyOf(d, p)
        BY <1>2, <2>4, <3>2, <4>1 DEF HistoryOf, Unpublished, OnlyOf
      <4>3. e.clock[c] = x.clock[c]
        BY <4>1, <4>2 DEF OnlyOf
      <4> QED BY <4>1, <4>3, CountersAreInt
    <3> QED BY <3>1, <3>2
  <2>5. ASSUME pc[c] # "save", remote[c].entries[p] # NoEntry
        PROVE  x # NoEntry /\ x.clock[c] = remote[c].entries[p].clock[c]
    <3>1. m # NoEntry /\ m.clock[c] = remote[c].entries[p].clock[c]
      BY <1>2, <2>5 DEF HistoryOf, PublishedKnows
    <3>2. x # NoEntry /\ SaidElsewhere(c, p, x)
      BY <1>3, <1>4, <3>1
    <3>3. x.clock[c] <= m.clock[c] /\ m.clock[c] <= x.clock[c]
      BY <1>7, <3>1, <3>2
    <3>4. x \in Entry /\ m \in Entry
      BY <1>1, <1>2, <3>1, <3>2, EntryTypes
    <3> QED BY <3>1, <3>2, <3>3, <3>4, CountersAreInt
  <2>6. PublishedKnows(c, p)'
    BY <1>4, <2>1, <2>4, <2>5 DEF PublishedKnows, x
  <2> QED BY <2>2, <2>3, <2>6
<1>9. KnowsOwn(d, p)' /\ PublishedKnows(d, p)' /\ Continues(d, p)'
  <2>1. ASSUME NEW y, y = l \/ y = x, y # NoEntry PROVE y.clock[d] <= y.clock[d]
    BY <1>1, <1>2, <2>1, EntryTypes, CountersAreInt
  <2>2. ASSUME l # NoEntry, NEW e, SaidElsewhere(d, p, e)' PROVE e.clock[d] <= l.clock[d]
    <3>1. SaidElsewhere(d, p, e) \/ e = l
      BY <1>1, <1>4, <2>2 DEF SaidElsewhere, x
    <3> QED BY <1>2, <2>1, <2>2, <3>1 DEF HistoryOf, KnowsOwn
  <2>3. ASSUME x # NoEntry, NEW e, SaidElsewhere(d, p, e)' PROVE e.clock[d] <= x.clock[d]
    <3>1. CASE m # NoEntry
      BY <1>4, <1>7, <2>1, <2>3, <3>1
    <3>2. CASE m = NoEntry
      BY <1>1, <2>2, <2>3, <3>2
    <3> QED BY <3>1, <3>2
  <2> QED BY <1>1, <2>2, <2>3 DEF KnowsOwn, PublishedKnows, Continues, x
<1> QED BY <1>5, <1>6, <1>8, <1>9 DEF HistoryOf

-----------------------------------------------------------------------------
(* The theorem *)

LEMMA HistoryInit == Init => HistoryKept
<1> SUFFICES ASSUME Init PROVE HistoryKept
  OBVIOUS
<1>1. ASSUME NEW d \in Device
      PROVE  /\ pc[d] = "idle" /\ local[d] = EmptyManifest /\ remote[d] = EmptyManifest
             /\ cache[d] = EmptyManifest
  BY DEF Init
<1>2. \A p \in Path : /\ manifest.entries[p] = NoEntry
                      /\ \A d \in Device : /\ cache[d].entries[p] = NoEntry
                                           /\ local[d].entries[p] = NoEntry
                                           /\ remote[d].entries[p] = NoEntry
  BY <1>1, EmptyHasNoHistory DEF Init
<1>3. \A p \in Path : \A e : ~Says(p, e)
  BY <1>2 DEF Says
<1>4. ASSUME NEW p \in Path PROVE HistoryOf(p)
  <2>1. SealsAreCounted(p) /\ Unpublished(p)
    BY <1>2, <1>3 DEF SealsAreCounted, Unpublished, OnlyOf
  <2>2. \A d \in Device : KnowsOwn(d, p) /\ PublishedKnows(d, p) /\ Continues(d, p)
    BY <1>1, <1>2 DEF KnowsOwn, PublishedKnows, Continues
  <2> QED BY <2>1, <2>2 DEF HistoryOf
<1> QED BY <1>1, <1>4 DEF HistoryKept, AtRest

LEMMA RestsOthers ==
    ASSUME HistoryKept, NEW d \in Device, Others(d), AtRest(d)'
    PROVE  \A c \in Device : AtRest(c)'
BY DEF HistoryKept, AtRest, Others

LEMMA RestKept ==
    ASSUME TypeOK, HistoryKept, [Next]_vars PROVE \A d \in Device : AtRest(d)'
<1>1. ASSUME NEW d \in Device,
             \/ StartSync(d) \/ UploadBlobs(d) \/ ListManifest(d) \/ GetManifest(d)
             \/ PushManifest(d) \/ RetryPush(d) \/ \E p \in Path : AbortOnConflict(d, p)
      PROVE  \A c \in Device : AtRest(c)'
  <2>1. pc'[d] # "idle"
    BY <1>1 DEF StartSync, UploadBlobs, ListManifest, GetManifest, PushManifest, RetryPush,
                AbortOnConflict, TypeOK
  <2>2. Others(d)
    BY <1>1, OthersUntouched
  <2> QED BY <2>1, <2>2, RestsOthers DEF AtRest
<1>2. ASSUME NEW d \in Device, NEW p \in Path, Applies(d, p) PROVE \A c \in Device : AtRest(c)'
  <2>1. pc[d] = "apply" /\ pc' = pc /\ Others(d)
    BY <1>2, OthersApply DEF Applies, ApplyPull, ApplyPullDeletion, DeleteOnConflict,
             TakeRemoteOnConflict, KeepLocalOnConflict, Turn
  <2> QED BY <2>1, RestsOthers DEF AtRest
<1>3. ASSUME NEW d \in Device, Ends(d) PROVE \A c \in Device : AtRest(c)'
  <2>1. local'[d] = EmptyManifest /\ remote'[d] = EmptyManifest
    BY <1>3 DEF Ends, SaveCache, StopSync, FailSync, EndRun, TypeOK
  <2> QED BY <1>3, <2>1, OthersEnd, RestsOthers DEF AtRest
<1>4. ASSUME UNCHANGED <<pc, local, remote>> PROVE \A c \in Device : AtRest(c)'
  BY <1>4 DEF HistoryKept, AtRest
<1>5. ASSUME NEW d \in Device, NEW p \in Path,
             Configure(d, p) \/ \E c \in Content \cup {Absent} : EditFile(d, p, c)
      PROVE  \A c \in Device : AtRest(c)'
  BY <1>4, <1>5 DEF Configure, EditFile, runVars
<1>6. ASSUME UNCHANGED vars PROVE \A c \in Device : AtRest(c)'
  BY <1>4, <1>6 DEF vars, runVars
<1>7. ASSUME NEW d \in Device, SyncStep(d) PROVE \A c \in Device : AtRest(c)'
  BY <1>1, <1>2, <1>3, <1>7, Zenon DEF SyncStep, Applies, Ends
<1>8. ASSUME NEW d \in Device, FailSync(d) PROVE \A c \in Device : AtRest(c)'
  BY <1>3, <1>8 DEF Ends
<1> QED BY <1>1, <1>5, <1>6, <1>7, <1>8, Zenon DEF Next, Rest

LEMMA HistoryStep ==
    InStep /\ HistoryKept /\ OwnBelowLimit /\ [Next /\ Orderly]_vars => HistoryKept'
<1> SUFFICES ASSUME InStep, HistoryKept, OwnBelowLimit, [Next /\ Orderly]_vars
             PROVE  HistoryKept'
  OBVIOUS
<1>1. TypeOK /\ TypeOK' /\ [Next]_vars
  BY TypeStep DEF InStep
<1>2. ASSUME UNCHANGED vars, NEW p \in Path PROVE HistoryOf(p)'
  BY <1>1, <1>2, HistoryElsewhere DEF vars, storeVars, deviceVars, runVars
<1>3. ASSUME Next, Orderly, NEW p \in Path PROVE HistoryOf(p)'
  <2>1. ASSUME NEW d \in Device PROVE CreatesAlone(d) /\ PushCovers(d) /\ SavesAtLast(d)
    BY <1>3 DEF Orderly
  <2>2. ASSUME NEW d \in Device, SyncStep(d) PROVE HistoryOf(p)'
    BY <1>1, <2>1, <2>2, HistoryGetManifest, HistoryApply, HistoryQuiet, HistoryPushManifest,
       HistoryEnds, Zenon DEF SyncStep, Applies, Ends
  <2>3. ASSUME NEW d \in Device, StartSync(d) \/ FailSync(d) PROVE HistoryOf(p)'
    BY <1>1, <2>1, <2>3, HistoryStartSync, HistoryEnds DEF Ends
  <2>4. ASSUME NEW d \in Device, NEW q \in Path,
               Configure(d, q) \/ \E c \in Content \cup {Absent} : EditFile(d, q, c)
        PROVE  HistoryOf(p)'
    BY <1>1, <2>4, HistoryElsewhere DEF Configure, EditFile, storeVars, runVars
  <2> QED BY <1>2, <1>3, <2>2, <2>3, <2>4, Zenon DEF Next, Rest
<1>4. \A p \in Path : HistoryOf(p)'
  BY <1>2, <1>3
<1> QED BY <1>1, <1>4, RestKept DEF HistoryKept

LEMMA CoveredIsKnown ==
    ASSUME TypeOK, HistoryKept, NEW p \in Path, NEW e, NEW f, Says(p, e), Says(p, f),
           AtMost(e.clock, f.clock)
    PROVE  e.past \subseteq f.past
<1> SUFFICES ASSUME NEW b \in e.past PROVE b \in f.past
  OBVIOUS
<1>1. PICK g \in Device, n \in Nat : StandsFor(p, b, g, n)
  BY DEF HistoryKept, HistoryOf, SealsAreCounted
<1>2. n <= e.clock[g] /\ e.clock[g] <= f.clock[g]
  BY <1>1 DEF StandsFor, AtMost
<1>3. e.clock[g] \in Int /\ f.clock[g] \in Int
  BY SaysTyped, CountersAreInt
<1>4. n <= f.clock[g]
  BY <1>2, <1>3
<1> QED BY <1>1, <1>4 DEF StandsFor

LEMMA HistoryTells == TypeOK /\ HistoryKept => ClocksTellHistory
<1>1. \A p \in Path : \A e \in EntriesOf(p) : Says(p, e)
  BY DEF EntriesOf, Says
<1> QED BY <1>1, CoveredIsKnown DEF ClocksTellHistory

LEMMA PullsTell == TypeOK /\ BlobsKnown /\ HistoryKept => PullsOnlyNewer
<1> SUFFICES ASSUME TypeOK, BlobsKnown, HistoryKept, NEW d \in Device, NEW p \in todo[d],
                    pc[d] = "apply", Op(d, p) \in {"pull_local", "pull_deletion"},
                    IsLive(local[d].entries[p])
             PROVE  local[d].entries[p].content \in ContentsIn(p, remote[d].entries[p])
  BY DEF PullsOnlyNewer
<1> DEFINE l == local[d].entries[p]
           r == remote[d].entries[p]
<1>1. p \in Path
  BY DEF TypeOK
<1>2. l \in Entry /\ r \in Entry /\ l # NoEntry /\ r # NoEntry
  BY <1>1, EntryTypes, TurnEntries, EntryFields DEF IsLive
<1>3. HappensBefore(l.clock, r.clock)
  BY <1>2 DEF Op, DiffOp, PushOf
<1>4. Says(p, l) /\ Says(p, r)
  BY <1>2 DEF Says
<1>5. l.past \subseteq r.past
  BY <1>1, <1>3, <1>4, CoveredIsKnown DEF HappensBefore
<1>6. l.blob \in l.past
  BY <1>1, <1>4 DEF HistoryKept, HistoryOf, SealsAreCounted
<1>7. BlobOf(p, l) \in blobs
  BY <1>1, <1>2 DEF BlobsKnown, DeviceReadable, Readable, Opens
<1> DEFINE b == BlobOf(p, l)
<1>8. b.path = p /\ b.id = l.blob /\ b.content = l.content
  BY DEF BlobOf
<1> HIDE DEF b
<1> QED BY <1>5, <1>6, <1>7, <1>8 DEF ContentsIn, b

\* On any number of devices, whatever their policies, answers and configs, and
\* wherever their syncs fail but before the save of what they pushed: as long as a
\* file new to a device is new to all, a push covers what it replaces and no
\* counter is at the limit of a u64, a version whose clock is covered by another's
\* was known to whoever made the other.
THEOREM ClocksAreTrue == OrderlySpec /\ []OwnBelowLimit => []ClocksTellHistory
<1> DEFINE Inv == InStep /\ HistoryKept
<1>1. Init => Inv
  BY TypeInit, VersionsInit, RunsInit, HistoryInit DEF InStep
<1>2. Inv /\ OwnBelowLimit /\ [Next /\ Orderly]_vars => Inv'
  <2>1. InStep /\ [Next]_vars => InStep'
    BY TypeStep, VersionsStep, RunsStep DEF InStep
  <2> QED BY <2>1, HistoryStep
<1>3. Inv => ClocksTellHistory
  BY HistoryTells DEF InStep
<1> QED BY <1>1, <1>2, <1>3, PTL DEF OrderlySpec

\* So what a pull overwrites or removes without a question went into what is pulled:
\* in orderly behaviours a sync loses nobody's edit unless a policy or a user
\* decides so.
THEOREM PullsLoseNothing == OrderlySpec /\ []OwnBelowLimit => []PullsOnlyNewer
<1> DEFINE Inv == InStep /\ BlobsKnown /\ HistoryKept
<1>1. Init => Inv
  BY TypeInit, VersionsInit, RunsInit, BlobsInit, HistoryInit DEF InStep
<1>2. Inv /\ OwnBelowLimit /\ [Next /\ Orderly]_vars => Inv'
  <2>1. InStep /\ [Next]_vars => InStep'
    BY TypeStep, VersionsStep, RunsStep DEF InStep
  <2> QED BY <2>1, BlobsStep, HistoryStep DEF InStep
<1>3. Inv => PullsOnlyNewer
  BY PullsTell DEF InStep
<1> QED BY <1>1, <1>2, <1>3, PTL DEF OrderlySpec

-----------------------------------------------------------------------------
(* The manual policy *)

\* What d's scan found of p, until d fetches: a version new to d is new to all,
\* any other differs from the cache's in d's own counter only.
Scanned(d, p) ==
    pc[d] \in {"upload", "list", "get"} /\ attempt[d] = 0 =>
        /\ cache[d].entries[p] # NoEntry =>
              /\ local[d].entries[p] # NoEntry
              /\ \A g \in Device \ {d} :
                    local[d].entries[p].clock[g] = cache[d].entries[p].clock[g]
        /\ cache[d].entries[p] = NoEntry /\ local[d].entries[p] # NoEntry =>
              manifest.entries[p] = NoEntry

\* A live version that d has dealt with under the manual policy was taken over or
\* written next to the file, unless it is deleted here or the cache covers it.
Shown(d, p) ==
    /\ pc[d] = "apply" /\ attempt[d] = 0 /\ p \in managed[d] \ todo[d]
    /\ Policy[d][p] = "manual" /\ IsLive(remote[d].entries[p])
    => LET l == local[d].entries[p]
           r == remote[d].entries[p]
           c == cache[d].entries[p]
       IN  /\ l # NoEntry
           /\ \/ l = r \/ l.deleted \/ r.content = sidecar[d][p]
              \/ c # NoEntry /\ AtMost(r.clock, c.clock)

RemoteShown == \A d \in Device, p \in Path : Scanned(d, p) /\ Shown(d, p)

LEMMA ShownInit == Init => RemoteShown
BY DEF Init, RemoteShown, Scanned, Shown

\* All of a step of d, once d's own paths are seen to be shown.
LEMMA ShownOthers ==
    ASSUME RemoteShown, NEW d \in Device, Others(d), manifest' = manifest,
           \A c \in Device \ {d} : sidecar'[c] = sidecar[c],
           \A p \in Path : Scanned(d, p)' /\ Shown(d, p)'
    PROVE  RemoteShown'
<1>1. ASSUME NEW c \in Device \ {d}, NEW p \in Path PROVE Scanned(c, p)' /\ Shown(c, p)'
  <2>1. /\ managed'[c] = managed[c] /\ cache'[c] = cache[c] /\ pc'[c] = pc[c]
        /\ local'[c] = local[c] /\ remote'[c] = remote[c] /\ todo'[c] = todo[c]
        /\ attempt'[c] = attempt[c] /\ sidecar'[c] = sidecar[c]
    BY DEF Others
  <2>2. Scanned(c, p) /\ Shown(c, p)
    BY DEF RemoteShown
  <2>3. Scanned(c, p)'
    BY <2>1, <2>2 DEF Scanned
  <2>4. Shown(c, p)'
    BY <2>1, <2>2 DEF Shown
  <2> QED BY <2>3, <2>4
<1> QED BY <1>1 DEF RemoteShown

LEMMA ShownStartSync ==
    ASSUME TypeOK, RemoteShown, NEW d \in Device, StartSync(d), CreatesAlone(d)
    PROVE  RemoteShown'
<1>1. PICK time \in [Path -> Times] :
         LET es == [q \in Path |-> ScanEntry(d, q, time[q])]
         IN  /\ local' = [local EXCEPT ![d] = [cache[d] EXCEPT !.entries = es]]
             /\ seals' = CountSeals(es)
  BY DEF StartSync
<1>2. /\ UNCHANGED <<manifest, cache, sidecar>> /\ pc[d] = "idle" /\ pc'[d] = "upload"
  BY DEF StartSync, TypeOK, storeVars, deviceVars
<1>3. ASSUME NEW p \in Path PROVE Scanned(d, p)'
  <2> DEFINE prev == cache[d].entries[p]
             x    == local'[d].entries[p]
  <2>1. x = ScanEntry(d, p, time[p]) /\ time[p] \in Times
    BY <1>1 DEF TypeOK, ManifestRecord
  <2>2. ASSUME prev # NoEntry
        PROVE  x # NoEntry /\ \A g \in Device \ {d} : x.clock[g] = prev.clock[g]
    <3>1. x = prev \/ (prev \in Entry /\ x \in Entry /\ x.clock = Bump(prev.clock, d))
      BY <2>1, <2>2, ScanMakes
    <3>2. CASE x = prev
      BY <2>2, <3>2
    <3>3. CASE prev \in Entry /\ x \in Entry /\ x.clock = Bump(prev.clock, d)
      <4>1. x # NoEntry /\ prev.clock \in Clock
        BY <3>3, EntryFields
      <4> QED BY <3>3, <4>1 DEF Bump, Clock
    <3> QED BY <3>1, <3>2, <3>3
  <2>3. ASSUME prev = NoEntry, x # NoEntry PROVE manifest.entries[p] = NoEntry
    <3>1. EntriesOf(p) = {}
      BY <1>2, <2>3 DEF CreatesAlone
    <3> QED BY <3>1 DEF EntriesOf
  <2> QED BY <1>2, <2>2, <2>3 DEF Scanned
<1>4. \A p \in Path : Shown(d, p)'
  BY <1>2 DEF Shown
<1> QED BY <1>2, <1>3, <1>4, OthersUntouched, ShownOthers

LEMMA ShownGetManifest ==
    ASSUME TypeOK, HistoryKept, RemoteShown, NEW d \in Device, GetManifest(d)
    PROVE  RemoteShown'
<1>1. /\ UNCHANGED <<manifest, cache, local, attempt, managed, sidecar>>
      /\ remote'[d] = manifest /\ pc[d] = "get" /\ pc'[d] = "apply"
      /\ todo'[d] = {q \in managed[d] :
                        DiffOp(local[d].entries[q], manifest.entries[q]) \in Applied(d)}
  BY DEF GetManifest, TypeOK, storeVars, deviceVars
<1>2. ASSUME NEW p \in managed[d], DiffOp(local[d].entries[p], manifest.entries[p]) \notin Applied(d),
             attempt[d] = 0, IsLive(manifest.entries[p])
      PROVE  LET l == local[d].entries[p]
                 r == manifest.entries[p]
                 c == cache[d].entries[p]
             IN  /\ l # NoEntry
                 /\ l = r \/ l.deleted \/ (c # NoEntry /\ AtMost(r.clock, c.clock))
  <2> DEFINE l == local[d].entries[p]
             r == manifest.entries[p]
             c == cache[d].entries[p]
  <2>1. p \in Path /\ r # NoEntry /\ ~r.deleted
    BY <1>2 DEF TypeOK, IsLive
  <2>2. /\ r \in Entry /\ l \in Entry \cup {NoEntry} /\ c \in Entry \cup {NoEntry}
    BY <2>1, EntryTypes
  <2>3. DiffOp(l, r) \notin {"pull_local", "pull_deletion", "conflict"}
    BY <1>2 DEF Applied
  <2> HIDE DEF l, r, c
  <2>4. l # NoEntry
    BY <2>1, <2>3 DEF DiffOp, PullOf
  <2>5. ASSUME l # r PROVE HappensBefore(r.clock, l.clock)
    BY <2>1, <2>3, <2>4, <2>5 DEF DiffOp, PullOf
  <2>6. ASSUME l # r PROVE c # NoEntry /\ AtMost(r.clock, c.clock)
    <3>1. Scanned(d, p)
      BY <2>1 DEF RemoteShown
    <3>2. c # NoEntry /\ \A g \in Device \ {d} : l.clock[g] = c.clock[g]
      BY <1>1, <1>2, <2>1, <2>4, <3>1 DEF Scanned, l, r, c
    <3>3. KnowsOwn(d, p) /\ SaidElsewhere(d, p, r)
      BY <2>1 DEF HistoryKept, HistoryOf, SaidElsewhere, r
    <3>4. r.clock[d] <= c.clock[d]
      BY <1>1, <3>2, <3>3 DEF KnowsOwn, c
    <3>5. \A g \in Device : r.clock[g] <= l.clock[g]
      BY <2>5, <2>6 DEF HappensBefore, AtMost
    <3> QED BY <3>2, <3>4, <3>5 DEF AtMost
  <2> QED BY <2>4, <2>6 DEF l, r, c
<1>3. \A p \in Path : Scanned(d, p)' /\ Shown(d, p)'
  BY <1>1, <1>2 DEF Scanned, Shown
<1> QED BY <1>1, <1>3, OthersUntouched, ShownOthers

\* What an applied operation leaves of a path.
LEMMA AppliedShows ==
    ASSUME TypeOK, NEW d \in Device, NEW p \in Path, Applies(d, p)
    PROVE  /\ \A q \in Path \ {p} : sidecar'[d][q] = sidecar[d][q]
           /\ \A c \in Device \ {d} : sidecar'[c] = sidecar[c]
           /\ \E x : /\ Settle(d, p, x)
                     /\ Policy[d][p] = "manual" /\ remote[d].entries[p] # NoEntry =>
                           /\ x # NoEntry
                           /\ \/ x = remote[d].entries[p] \/ x.deleted
                              \/ remote[d].entries[p].content = sidecar'[d][p]
<1> DEFINE l == local[d].entries[p]
           r == remote[d].entries[p]
<1>1. CASE ApplyPull(d, p) \/ ApplyPullDeletion(d, p) \/ TakeRemoteOnConflict(d, p)
  <2>1. Settle(d, p, r) /\ sidecar' = sidecar
    BY <1>1 DEF ApplyPull, ApplyPullDeletion, TakeRemoteOnConflict, PullEntry
  <2> QED BY <2>1
<1>2. CASE DeleteOnConflict(d, p)
  <2>1. PICK chosen \in Winners(d, p) :
           chosen.deleted /\ Settle(d, p, [chosen EXCEPT !.clock = ResolvedClock(d, p),
                                                         !.past  = ResolvedPast(d, p)])
    BY <1>2 DEF DeleteOnConflict
  <2>2. sidecar' = sidecar
    BY <1>2 DEF DeleteOnConflict
  <2>3. l \in Entry /\ r \in Entry
    BY <1>2, TurnEntries DEF DeleteOnConflict, Turn
  <2>4. chosen \in Entry
    BY <2>3 DEF Winners, ChosenEntry
  <2>5. ResolvedClock(d, p) \in Clock /\ ResolvedPast(d, p) \in SUBSET Nat
    BY <1>2, ResolvedTypes DEF DeleteOnConflict
  <2> DEFINE x == [chosen EXCEPT !.clock = ResolvedClock(d, p), !.past = ResolvedPast(d, p)]
  <2>6. x \in Entry /\ x.deleted
    BY <2>1, <2>4, <2>5 DEF Entry
  <2> HIDE DEF x
  <2>7. x # NoEntry
    BY <2>6, EntryFields
  <2>8. Settle(d, p, x)
    BY <2>1 DEF x
  <2> QED BY <2>2, <2>6, <2>7, <2>8
<1>3. CASE KeepLocalOnConflict(d, p)
  <2>1. PICK time \in Times :
           Settle(d, p, Seal(p, disk[d][p], SaturatingNext(l.aad), ResolvedClock(d, p), time,
                             ResolvedPast(d, p)))
    BY <1>3 DEF KeepLocalOnConflict
  <2> DEFINE x == Seal(p, disk[d][p], SaturatingNext(l.aad), ResolvedClock(d, p), time,
                       ResolvedPast(d, p))
  <2>2. x \in Entry
    <3>1. disk[d][p] \in Content
      BY <1>3 DEF KeepLocalOnConflict, TypeOK
    <3>2. /\ l \in Entry /\ ResolvedClock(d, p) \in Clock
          /\ ResolvedPast(d, p) \in SUBSET Nat
      BY <1>3, ResolvedTypes DEF KeepLocalOnConflict
    <3> QED BY <3>1, <3>2, EntryFields, SaturatingNextType, SealType
  <2> HIDE DEF x
  <2>3. Settle(d, p, x) /\ x # NoEntry
    BY <2>1, <2>2, EntryFields DEF x
  <2>4. IF WantsSidecar(d, p) THEN sidecar' = [sidecar EXCEPT ![d][p] = r.content]
                              ELSE sidecar' = sidecar
    BY <1>3 DEF KeepLocalOnConflict
  <2>5. /\ \A q \in Path \ {p} : sidecar'[d][q] = sidecar[d][q]
        /\ \A c \in Device \ {d} : sidecar'[c] = sidecar[c]
        /\ Policy[d][p] = "manual" => sidecar'[d][p] = r.content
    BY <2>4 DEF WantsSidecar, TypeOK
  <2> QED BY <2>3, <2>5
<1> QED BY <1>1, <1>2, <1>3 DEF Applies

LEMMA ShownApply ==
    ASSUME TypeOK, RemoteShown, NEW d \in Device, NEW p \in Path, Applies(d, p)
    PROVE  RemoteShown'
<1>1. /\ Others(d) /\ pc[d] = "apply"
      /\ UNCHANGED <<manifest, cache, managed, pc, remote, attempt>>
  BY OthersApply DEF Applies, ApplyPull, ApplyPullDeletion, DeleteOnConflict,
     TakeRemoteOnConflict, KeepLocalOnConflict, Turn
<1>2. PICK x : /\ Settle(d, p, x)
               /\ Policy[d][p] = "manual" /\ remote[d].entries[p] # NoEntry =>
                     /\ x # NoEntry
                     /\ \/ x = remote[d].entries[p] \/ x.deleted
                        \/ remote[d].entries[p].content = sidecar'[d][p]
  BY AppliedShows
<1>3. /\ todo'[d] = todo[d] \ {p}
      /\ \A q \in Path : local'[d].entries[q] = IF q = p THEN x ELSE local[d].entries[q]
  <2>1. local'[d].entries = [local[d].entries EXCEPT ![p] = x] /\ todo'[d] = todo[d] \ {p}
    BY <1>2, SettledLocal
  <2>2. local[d].entries \in Entries
    BY ManifestFields DEF TypeOK
  <2> QED BY <2>1, <2>2 DEF Entries
<1>4. /\ \A q \in Path \ {p} : sidecar'[d][q] = sidecar[d][q]
      /\ \A c \in Device \ {d} : sidecar'[c] = sidecar[c]
  BY AppliedShows
<1>5. ASSUME NEW q \in Path PROVE Shown(d, q)'
  <2>1. CASE q = p
    BY <1>1, <1>2, <1>3, <2>1 DEF Shown, IsLive
  <2>2. CASE q # p
    BY <1>1, <1>3, <1>4, <2>2 DEF RemoteShown, Shown
  <2> QED BY <2>1, <2>2
<1>6. \A q \in Path : Scanned(d, q)'
  BY <1>1 DEF Scanned
<1> QED BY <1>1, <1>4, <1>5, <1>6, ShownOthers

\* The steps that neither fetch nor apply nor push.
LEMMA ShownQuiet ==
    ASSUME TypeOK, RemoteShown, NEW d \in Device,
           \/ UploadBlobs(d) \/ ListManifest(d) \/ RetryPush(d)
           \/ \E p \in Path : AbortOnConflict(d, p) \/ Configure(d, p)
           \/ \E p \in Path : \E c \in Content \cup {Absent} : EditFile(d, p, c)
           \/ Ends(d)
    PROVE  RemoteShown'
<1>1. CASE UploadBlobs(d) \/ ListManifest(d)
  <2>1. /\ UNCHANGED <<manifest, cache, local, attempt, sidecar>>
        /\ pc[d] \in {"upload", "list"} /\ pc'[d] \in {"list", "get"}
    BY <1>1 DEF UploadBlobs, ListManifest, TypeOK, storeVars, deviceVars
  <2>2. \A p \in Path : Scanned(d, p)' /\ Shown(d, p)'
    BY <2>1 DEF RemoteShown, Scanned, Shown
  <2> QED BY <1>1, <2>1, <2>2, OthersUntouched, ShownOthers
<1>2. CASE RetryPush(d)
  <2>1. /\ UNCHANGED <<manifest, sidecar>> /\ pc'[d] = "list" /\ attempt'[d] # 0
    BY <1>2 DEF RetryPush, TypeOK, storeVars, deviceVars
  <2>2. \A p \in Path : Scanned(d, p)' /\ Shown(d, p)'
    BY <2>1 DEF Scanned, Shown
  <2> QED BY <1>2, <2>1, <2>2, OthersUntouched, ShownOthers
<1>3. CASE \E p \in Path : AbortOnConflict(d, p)
  <2>1. /\ UNCHANGED <<manifest, sidecar>> /\ pc'[d] = "save"
    BY <1>3 DEF AbortOnConflict, TypeOK, storeVars, deviceVars
  <2>2. \A p \in Path : Scanned(d, p)' /\ Shown(d, p)'
    BY <2>1 DEF Scanned, Shown
  <2> QED BY <1>3, <2>1, <2>2, OthersUntouched, ShownOthers
<1>4. CASE \E p \in Path : Configure(d, p)
  <2>1. /\ UNCHANGED <<manifest, sidecar>> /\ pc'[d] = "idle"
    BY <1>4 DEF Configure, storeVars, runVars
  <2>2. \A p \in Path : Scanned(d, p)' /\ Shown(d, p)'
    BY <2>1 DEF Scanned, Shown
  <2> QED BY <1>4, <2>1, <2>2, OthersUntouched, ShownOthers
<1>5. CASE \E p \in Path : \E c \in Content \cup {Absent} : EditFile(d, p, c)
  <2>1. UNCHANGED <<manifest, cache, sidecar, managed, runVars>>
    BY <1>5 DEF EditFile, storeVars
  <2> QED BY <2>1 DEF runVars, RemoteShown, Scanned, Shown
<1>6. CASE Ends(d)
  <2>1. /\ manifest' = manifest /\ pc'[d] = "idle"
        /\ \A c \in Device \ {d} : sidecar'[c] = sidecar[c]
    BY <1>6 DEF Ends, SaveCache, StopSync, FailSync, LeavesSidecar, EndRun, TypeOK, storeVars
  <2>2. \A p \in Path : Scanned(d, p)' /\ Shown(d, p)'
    BY <2>1 DEF Scanned, Shown
  <2> QED BY <1>6, <2>1, <2>2, OthersEnd, ShownOthers
<1> QED BY <1>1, <1>2, <1>3, <1>4, <1>5, <1>6

\* Nobody else publishes a path that one device has and that is new to all.
LEMMA ShownPushManifest ==
    ASSUME InStep, HistoryKept, RemoteShown, NEW d \in Device, PushManifest(d)
    PROVE  RemoteShown'
<1>1. /\ sidecar' = sidecar /\ pc'[d] = "save" /\ remote[d] = manifest
      /\ manifest'.entries = [p \in Path |-> OutgoingEntry(d, p)]
  BY PushReplacesRemote DEF InStep, TypeOK, PushManifest, deviceVars
<1>2. Others(d)
  BY OthersUntouched DEF InStep
<1>3. ASSUME NEW c \in Device \ {d}, NEW p \in Path PROVE Scanned(c, p)' /\ Shown(c, p)'
  <2>1. Scanned(c, p) /\ Shown(c, p) /\ Unpublished(p)
    BY DEF RemoteShown, HistoryKept, HistoryOf
  <2>2. manifest.entries[p] = NoEntry /\ local[c].entries[p] # NoEntry
           => manifest'.entries[p] = NoEntry
    <3> SUFFICES ASSUME manifest.entries[p] = NoEntry, local[c].entries[p] # NoEntry
                 PROVE  manifest'.entries[p] = NoEntry
      OBVIOUS
    <3>1. local[d].entries[p] = NoEntry
      BY <2>1 DEF Unpublished, OnlyOf
    <3> QED BY <1>1, <3>1 DEF OutgoingEntry
  <2>3. Scanned(c, p)'
    BY <1>2, <2>1, <2>2 DEF Scanned, Others
  <2>4. Shown(c, p)'
    BY <1>1, <1>2, <2>1 DEF Shown, Others
  <2> QED BY <2>3, <2>4
<1>4. \A p \in Path : Scanned(d, p)' /\ Shown(d, p)'
  BY <1>1 DEF Scanned, Shown
<1> QED BY <1>3, <1>4 DEF RemoteShown

LEMMA ShownStep ==
    InStep /\ HistoryKept /\ RemoteShown /\ [Next /\ Orderly]_vars => RemoteShown'
<1> SUFFICES ASSUME InStep, HistoryKept, RemoteShown, [Next /\ Orderly]_vars
             PROVE  RemoteShown'
  OBVIOUS
<1>1. TypeOK
  BY DEF InStep
<1>2. ASSUME UNCHANGED vars PROVE RemoteShown'
  BY <1>2 DEF vars, storeVars, deviceVars, runVars, RemoteShown, Scanned, Shown
<1>3. ASSUME NEW d \in Device, SyncStep(d) PROVE RemoteShown'
  BY <1>1, <1>3, ShownGetManifest, ShownApply, ShownQuiet, ShownPushManifest, Zenon
     DEF SyncStep, Applies, Ends
<1>4. ASSUME Next, Orderly, NEW d \in Device, StartSync(d) PROVE RemoteShown'
  BY <1>1, <1>4, ShownStartSync DEF Orderly
<1>5. ASSUME NEW d \in Device, FailSync(d) PROVE RemoteShown'
  BY <1>1, <1>5, ShownQuiet DEF Ends
<1>6. ASSUME NEW d \in Device, NEW p \in Path,
             Configure(d, p) \/ \E c \in Content \cup {Absent} : EditFile(d, p, c)
      PROVE  RemoteShown'
  BY <1>1, <1>6, ShownQuiet
<1> QED BY <1>2, <1>3, <1>4, <1>5, <1>6, Zenon DEF Next, Rest

\* Under the same conditions, what a device overrules under the manual policy in
\* favour of its own content is on its disk when it pushes: the conflict wrote it
\* to the sidecar, and nothing else may overrule it (engine.rs:459).
THEOREM ManualSurfacesRemote == OrderlySpec /\ []OwnBelowLimit => ManualKeepsRemote
<1> DEFINE Inv == InStep /\ HistoryKept /\ RemoteShown
<1>1. Init => Inv
  BY TypeInit, VersionsInit, RunsInit, HistoryInit, ShownInit DEF InStep
<1>2. Inv /\ OwnBelowLimit /\ [Next /\ Orderly]_vars => Inv'
  <2>1. InStep /\ [Next]_vars => InStep'
    BY TypeStep, VersionsStep, RunsStep DEF InStep
  <2> QED BY <2>1, HistoryStep, ShownStep
<1>3. ASSUME Inv, [Next]_vars, NEW d \in Device, NEW p \in managed[d], Policy[d][p] = "manual",
             Overrules(d, p), IsLive(manifest'.entries[p])
      PROVE  manifest.entries[p].content = sidecar[d][p]
  <2> DEFINE l == local[d].entries[p]
             r == manifest.entries[p]
             c == cache[d].entries[p]
  <2>1. p \in Path /\ TypeOK /\ VersionsInStep /\ RunsInStep
    BY <1>3 DEF InStep, TypeOK
  <2>2. PushManifest(d)
    BY <1>3, <2>1, PusherIsUnique DEF Overrules
  <2>3. /\ remote[d] = manifest /\ todo[d] = {} /\ pc[d] = "apply"
        /\ manifest'.entries[p] = l
    BY <2>1, <2>2, PushReplacesRemote, ManagedOutgoing
  <2>4. attempt[d] = 0 /\ IsLive(r) /\ l # r /\ ~l.deleted
    BY <1>3, <2>3 DEF Overrules, IsLive
  <2>5. r.content = sidecar[d][p] \/ (c # NoEntry /\ AtMost(r.clock, c.clock))
    BY <1>3, <2>1, <2>3, <2>4 DEF RemoteShown, Shown
  <2>6. c # NoEntry /\ AtMost(r.clock, c.clock) => r.past \subseteq c.past
    <3>1. r # NoEntry /\ (c # NoEntry => Says(p, c)) /\ Says(p, r)
      BY <2>1, <2>4 DEF IsLive, Says
    <3> QED BY <1>3, <2>1, <3>1, CoveredIsKnown
  <2> QED BY <1>3, <2>5, <2>6 DEF Overrules
<1>4. Inv /\ [Next]_vars =>
         [\A d \in Device : \A p \in managed[d] :
             /\ Policy[d][p] = "manual"
             /\ Overrules(d, p) /\ ~StartsCovered(d, p)
             /\ IsLive(manifest'.entries[p])
             => manifest.entries[p].content \in {sidecar[d][p], disk[d][p]}]_vars
  BY <1>3
<1> QED BY <1>1, <1>2, <1>4, PTL DEF OrderlySpec, ManualKeepsRemote

=============================================================================
