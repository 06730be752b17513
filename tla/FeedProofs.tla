----------------------------- MODULE FeedProofs -----------------------------
(***************************************************************************)
(* Proofs about what readers get of the published files: the visitors of   *)
(* the samples (SampleFeed), an uploader's snapshot of the projection      *)
(* files (Projections) and the owner's history (SeriesReader).  The last   *)
(* two rest on the same invariant of the daemon's writing, and on what no  *)
(* write ever takes back (Advances).                                       *)
(***************************************************************************)
EXTENDS SampleFeed, SeriesReader, FiniteSetTheorems, WellFoundedInduction, TLAPS

------------------------------------------------------------------------------
(* What visitors are served never goes back, for every window, clock and   *)
(* number of late requests.  The invariant is that every pair in the       *)
(* system is a pair (FeedTypeOK); the rest compares minutes, once for each *)
(* kind of request the endpoint accepts.                                   *)

Requests == [kind : {"put", "direct"}, name : Names, pair : Pairs]
              \cup [kind : {"commit"}, name : {"commit"}, pair : Pairs]
Typed == FeedTypeOK /\ late \subseteq Requests

LEMMA NoPairTyped == NoPair \in Pairs /\ NoPair.latest = 0
BY FeedConstants DEF NoPair, Pairs, NoSample, Minutes

LEMMA PairFacts ==
  ASSUME NEW p \in Pairs
  PROVE  p.latest \in Int /\ p.latest >= 0 /\ p.history \in SUBSET Minutes
BY FeedConstants DEF Pairs

LEMMA FourOf ==
  ASSUME NEW S, NEW a \in S, NEW b \in S, NEW c \in S, NEW d \in S
  PROVE  <<a, b, c, d>> \in Seq(S)
OBVIOUS
LEMMA ThreeOf ==
  ASSUME NEW S, NEW a \in S, NEW b \in S, NEW c \in S
  PROVE  <<a, b, c>> \in Seq(S)
OBVIOUS

LEMMA InitTyped == FeedInit => Typed
<1> SUFFICES ASSUME FeedInit PROVE Typed
  OBVIOUS
<1>1. now \in Minutes /\ taken \subseteq Minutes /\ files \in Pairs /\ late = {} /\ writing = FALSE
  BY NoPairTyped, FeedConstants DEF FeedInit, Minutes
<1>2. client \in Clients
  <2>1. 0 \in 0..MaxTime /\ <<>> \in Seq(Steps)
    BY FeedConstants
  <2> QED
    BY NoPairTyped, <2>1 DEF FeedInit, Clients
<1>3. store \in Stores
  BY NoPairTyped DEF FeedInit, Stores
<1> QED
  BY <1>1, <1>2, <1>3 DEF Typed, FeedTypeOK

\* What a request leaves in the tables is well formed.
LEMMA HandleTyped ==
  ASSUME Typed, NEW r \in Requests, Handle(r)
  PROVE  store' \in Stores
<1>0. store \in Stores /\ now \in Minutes
  BY DEF Typed, FeedTypeOK
<1>1. CASE ~Accepts(r)
  BY <1>0, <1>1 DEF Handle
<1>2. CASE Accepts(r) /\ r.kind = "put"
  <2>1. r.pair \in Pairs /\ r.name \in Names
    BY <1>2 DEF Requests
  <2>2. [pair |-> r.pair, name |-> r.name, at |-> now] \in Members
    BY <1>0, <2>1 DEF Members
  <2>3. Unexpired \in SUBSET Members
    BY <1>0 DEF Unexpired, Stores
  <2>4. store' = AfterPut(r)
    BY <1>2 DEF Handle, Handled
  <2> QED
    BY <1>0, <2>2, <2>3, <2>4 DEF AfterPut, Stores
<1>3. CASE Accepts(r) /\ r.kind = "commit"
  <2>1. store' = store \/ store' = AfterCommit(r)
    BY <1>3 DEF Handle, Handled
  <2> QED
    BY <1>0, <2>1 DEF AfterCommit, Stores, Requests
<1>4. CASE Accepts(r) /\ r.kind = "direct"
  <2>1. store' = [store EXCEPT !.rows[r.name] = r.pair[r.name]]
    BY <1>4 DEF Handle, Handled
  <2>2. [store.rows EXCEPT ![r.name] = r.pair[r.name]] \in Pairs
    BY <1>0, <1>4 DEF Requests, Stores, Pairs, Names
  <2> QED
    BY <1>0, <2>1, <2>2 DEF Stores
<1> QED
  BY <1>1, <1>2, <1>3, <1>4 DEF Requests

\* The two facts of ServedNeverBack, for one step.
Forward ==
  /\ Served' # NoPair => Served'.latest >= Served.latest
  /\ store.pair # NoPair => store'.pair # NoPair

LEMMA SameTables ==
  ASSUME Typed, UNCHANGED store
  PROVE  Forward
<1>1. Served \in Pairs /\ Served' = Served
  BY NoPairTyped DEF Served, Typed, FeedTypeOK, Stores
<1> QED
  BY <1>1, PairFacts DEF Forward

\* A request the endpoint handles moves what is served forward.
LEMMA HandleForward ==
  ASSUME Typed, NEW r \in Requests, Handle(r)
  PROVE  Forward
<1>0. store \in Stores /\ store.rows \in Pairs /\ store.pair \in Pairs
  BY DEF Typed, FeedTypeOK, Stores
<1>1. CASE ~Accepts(r)
  BY <1>1, SameTables DEF Handle
<1>2. CASE Accepts(r) /\ r.kind = "put"
  <2>1. store'.pair = store.pair /\ store'.rows = store.rows
    BY <1>0, <1>2 DEF Handle, Handled, AfterPut, Stores
  <2>2. Served' = Served /\ Served \in Pairs
    BY <1>0, <2>1, NoPairTyped DEF Served
  <2> QED
    BY <2>1, <2>2, PairFacts DEF Forward
<1>3. CASE Accepts(r) /\ r.kind = "commit" /\ store.pair = r.pair
  BY <1>3, SameTables DEF Handle, Handled
<1>4. CASE Accepts(r) /\ r.kind = "commit" /\ store.pair # r.pair
  <2>1. r.pair \in Pairs /\ Agree(r.pair) /\ Newer(r)
    BY <1>4 DEF Accepts, Requests
  <2>2. store'.pair = r.pair /\ r.pair # NoPair
    BY <1>4, <2>1, NoPairTyped DEF Handle, Handled, AfterCommit, Agree, NoSample
  <2>3. Served' = r.pair
    BY <2>2 DEF Served
  <2>4. CASE store.pair # NoPair
    BY <1>0, <2>1, <2>2, <2>3, <2>4, PairFacts DEF Newer, Served, Forward
  <2>5. CASE store.pair = NoPair
    BY <1>0, <2>1, <2>2, <2>3, <2>5, PairFacts, NoPairTyped DEF Newer, Served, Forward
  <2> QED
    BY <2>4, <2>5
<1>5. CASE Accepts(r) /\ r.kind = "direct"
  <2>1. store.pair = NoPair
    BY <1>5 DEF Accepts
  <2>2. store' = [store EXCEPT !.rows[r.name] = r.pair[r.name]]
    BY <1>5 DEF Handle, Handled
  <2>3. store'.pair = NoPair /\ store'.rows = [store.rows EXCEPT ![r.name] = r.pair[r.name]]
    BY <1>0, <2>1, <2>2 DEF Stores
  <2>4. store'.rows.latest >= store.rows.latest
    <3>1. CASE r.name = "latest"
      <4>1. r.pair.latest >= store.rows.latest
        BY <1>5, <3>1 DEF Accepts
      <4>2. store'.rows.latest = r.pair.latest
        BY <1>0, <2>3, <3>1 DEF Pairs
      <4> QED
        BY <4>1, <4>2
    <3>2. CASE r.name = "history"
      <4>1. store'.rows.latest = store.rows.latest
        BY <1>0, <2>3, <3>2 DEF Pairs
      <4> QED
        BY <1>0, <4>1, PairFacts
    <3> QED
      BY <1>5, <3>1, <3>2 DEF Requests, Names
  <2>5. Served = store.rows \/ Served = NoPair
    BY <2>1 DEF Served
  <2>6. Served' # NoPair => Served' = store'.rows
    BY <2>3 DEF Served
  <2>7. store.rows.latest >= 0 /\ store.rows.latest \in Int
    BY <1>0, PairFacts
  <2>8. store'.rows.latest \in Int
    BY HandleTyped, PairFacts DEF Stores
  <2>9. Served.latest \in Int /\ Served.latest <= store.rows.latest
    BY <2>5, <2>7, NoPairTyped
  <2>10. Served' # NoPair => Served'.latest >= Served.latest
    BY <2>4, <2>6, <2>7, <2>8, <2>9
  <2> QED
    BY <2>1, <2>10 DEF Forward
<1> QED
  BY <1>1, <1>2, <1>3, <1>4, <1>5 DEF Requests

\* The requests there are: of the client's next step, or of an old client.
LEMMA RequestTyped ==
  ASSUME Typed, SendsLeft
  PROVE  Request \in Requests
BY DEF SendsLeft, Request, Requests, PutOf, CommitOf, Names, Typed, FeedTypeOK, Clients

LEMMA DirectTyped ==
  ASSUME Typed, NEW n \in Names
  PROVE  DirectOf(n, files) \in Requests
BY DEF DirectOf, Requests, Typed, FeedTypeOK

\* Each step handles one request, or leaves the tables alone.
LEMMA StepHandles ==
  ASSUME Typed, FeedNext
  PROVE  UNCHANGED store \/ \E r \in Requests : Handle(r)
<1>1. CASE Send
  BY <1>1, RequestTyped DEF Send
<1>2. CASE TimesOut
  BY <1>2, RequestTyped DEF TimesOut
<1>3. CASE Arrives
  BY <1>3 DEF Arrives, Typed
<1>4. CASE SendsDirectly
  BY <1>4, DirectTyped DEF SendsDirectly
<1> QED
  BY <1>1, <1>2, <1>3, <1>4 DEF FeedNext, Tick, Collect, WriteHistory,
     CollectorStops, Begin, Read, Upgrade, ReadLatest, Sent

LEMMA StepTyped ==
  ASSUME Typed, FeedNext
  PROVE  Typed'
<1>1. store' \in Stores
  BY StepHandles, HandleTyped DEF Typed, FeedTypeOK
<1>2. late' \subseteq Requests
  BY RequestTyped, DirectTyped
  DEF Typed, FeedNext, Tick, Collect, WriteHistory, CollectorStops, Begin, Read,
      Send, TimesOut, Arrives, SendsDirectly, Upgrade, ReadLatest, Sent
<1>3. now' \in Minutes /\ taken' \in SUBSET Minutes
  BY FeedConstants
  DEF Typed, FeedTypeOK, Minutes, FeedNext, Tick, Collect, WriteHistory, CollectorStops,
      Begin, Read, Send, TimesOut, Arrives, SendsDirectly, Upgrade, ReadLatest, Sent
<1>4. files' \in Pairs
  <2>1. CASE Collect
    BY <2>1, FeedConstants DEF Collect, Typed, FeedTypeOK, Pairs, Minutes
  <2>2. CASE WriteHistory
    <3>1. files.latest \in Minutes
      BY <2>2 DEF WriteHistory, Typed, FeedTypeOK
    <3> QED
      BY <2>2, <3>1 DEF WriteHistory, Pruned, Typed, FeedTypeOK, Pairs
  <2> QED
    BY <2>1, <2>2
    DEF Typed, FeedTypeOK, FeedNext, Tick, CollectorStops,
        Begin, Read, Send, TimesOut, Arrives, SendsDirectly, Upgrade, ReadLatest, Sent
<1>5. client' \in Clients
  <2>0. client \in Clients /\ NoPair \in Pairs /\ files \in Pairs /\ now \in Minutes
    BY NoPairTyped DEF Typed, FeedTypeOK
  <2>1. Resting(client) \in Clients
    <3>1. <<>> \in Seq(Steps)
      OBVIOUS
    <3> QED
      BY <2>0, <3>1 DEF Resting, Clients
  <2>2. CASE Begin
    <3>1. Reads \o Sends \in Seq(Steps)
      <4>1. Reads \in Seq(Steps) /\ Sends \in Seq(Steps)
        BY FourOf, ThreeOf DEF Reads, Sends, Steps
      <4> QED
        BY <4>1
    <3>2. now \in 0..MaxTime
      BY <2>0, FeedConstants DEF Minutes
    <3> DEFINE todo == Reads \o Sends
    <3>3. client' = [client EXCEPT !.started = now, !.todo = todo]
      BY <2>2 DEF Begin
    <3>4. todo \in Seq(Steps)
      BY <3>1
    <3> HIDE DEF todo
    <3> QED
      BY <2>0, <3>2, <3>3, <3>4 DEF Clients
  <2>3. CASE Read
    <3> DEFINE name == FileOf(Head(client.todo))
    <3>1. name \in Names /\ client.todo # <<>>
      BY <2>3 DEF Read, ReadsLeft, FileOf, Names
    <3>2. [client.got EXCEPT ![name] = files[name]] \in Pairs
      BY <2>0, <3>1 DEF Clients, Pairs, Names
    <3>3. Tail(client.todo) \in Seq(Steps)
      BY <2>0, <3>1 DEF Clients
    <3>4. [client EXCEPT !.got[name] = files[name], !.todo = Tail(@)] \in Clients
      BY <2>0, <3>2, <3>3 DEF Clients
    <3> QED
      BY <2>1, <2>3, <3>4 DEF Read
  <2>4. CASE Send \/ TimesOut
    <3>1. client.todo # <<>>
      BY <2>4 DEF Send, TimesOut, SendsLeft
    <3>2. Tail(client.todo) \in Seq(Steps)
      BY <2>0, <3>1 DEF Clients
    <3>3. [client EXCEPT !.todo = Tail(@)] \in Clients
      BY <2>0, <3>2 DEF Clients
    <3> QED
      BY <2>1, <2>4, <3>3 DEF Send, TimesOut
  <2>5. CASE Upgrade
    BY <2>0, <2>5 DEF Upgrade, Clients
  <2> QED
    BY <2>0, <2>2, <2>3, <2>4, <2>5
    DEF FeedNext, Tick, Collect, WriteHistory, CollectorStops, Arrives,
        SendsDirectly, ReadLatest, Sent
<1>6. writing' \in BOOLEAN /\ (writing' => files'.latest \in taken')
  <2>1. CASE Collect
    BY <2>1 DEF Collect, Typed, FeedTypeOK, Pairs
  <2>2. CASE WriteHistory \/ CollectorStops
    BY <2>2 DEF WriteHistory, CollectorStops
  <2> QED
    BY <2>1, <2>2 DEF Typed, FeedTypeOK, FeedNext, Tick, Begin, Read, Send,
       TimesOut, Arrives, SendsDirectly, Upgrade, ReadLatest, Sent
<1> QED
  BY <1>1, <1>2, <1>3, <1>4, <1>5, <1>6 DEF Typed, FeedTypeOK, Requests

\* What visitors are served never goes back, and a generation, once active,
\* is only ever replaced by a newer one: uploadCloudflareV1 with readers of
\* readCloudflareMetric, whatever requests are lost, late or from old clients.
THEOREM NeverBack == FeedSpec => ServedNeverBack
<1>1. Typed /\ [FeedNext]_feedVars => Typed'
  <2>1. Typed /\ UNCHANGED feedVars => Typed'
    BY DEF feedVars, Typed, FeedTypeOK
  <2> QED
    BY <2>1, StepTyped
<1>2. Typed /\ [FeedNext]_feedVars => [Forward]_feedVars
  BY StepHandles, HandleForward, SameTables
<1>3. [Forward]_feedVars =>
        [/\ Served' # NoPair => Served'.latest >= Served.latest
         /\ store.pair # NoPair => store'.pair # NoPair]_feedVars
  BY DEF Forward
<1> QED
  BY InitTyped, <1>1, <1>2, <1>3, PTL DEF FeedSpec, ServedNeverBack

------------------------------------------------------------------------------
(* A view of some samples, for any of them: its holes and its strip.       *)
(* Nothing here speaks of a state.  A point of the strip that no sample    *)
(* measures lies in a hole that is drawn (UnmeasuredIsHole), which no      *)
(* coloured cell touches.                                                  *)

Smaller == {ss \in Nat \X Nat : ss[1] < ss[2]}
LEMMA SmallerEnds == IsWellFoundedOn(Smaller, Nat)
BY NatLessThanWellFounded DEF OpToRel, Smaller

LEMMA LeastOf ==
  ASSUME NEW S \in SUBSET Nat, S # {}
  PROVE  \E m \in S : \A x \in S : m <= x
<1>1. PICK m \in S : \A y \in S : ~(<<y, m>> \in Smaller)
  BY SmallerEnds, WFMin
<1>2. \A y \in S : y < m => <<y, m>> \in Smaller
  BY DEF Smaller
<1>3. \A y \in S : y \in Nat
  OBVIOUS
<1>4. \A y \in S : ~(y < m)
  BY <1>1, <1>2
<1> QED
  BY <1>3, <1>4

LEMMA GreatestOf ==
  ASSUME NEW n \in Nat, NEW S \in SUBSET (1..n), S # {}
  PROVE  \E m \in S : \A x \in S : x <= m
<1>1. PICK R : R = {n - x : x \in S}
  OBVIOUS
<1>2. R \in SUBSET Nat /\ R # {}
  <2>1. \A x \in S : n - x \in Nat
    OBVIOUS
  <2> QED
    BY <1>1, <2>1
<1>3. PICK r \in R : \A y \in R : r <= y
  BY <1>2, LeastOf
<1>4. PICK m \in S : r = n - m
  BY <1>1
<1>5. ASSUME NEW x \in S PROVE x <= m
  <2>1. r <= n - x /\ x \in Int /\ m \in Int
    BY <1>1, <1>3
  <2> QED
    BY <1>4, <2>1
<1> QED
  BY <1>5

\* The first and the last of some minutes.
LEMMA FirstOf ==
  ASSUME NEW S \in SUBSET Minutes, S # {}
  PROVE  Min(S) \in S /\ \A x \in S : Min(S) <= x
<1>1. S \in SUBSET Nat
  BY DEF Minutes
<1>2. \E m \in S : \A x \in S : m <= x
  BY <1>1, LeastOf
<1> QED
  BY <1>2 DEF Min

LEMMA LastIs ==
  ASSUME NEW S \in SUBSET Minutes, S # {}
  PROVE  Max(S) \in S /\ \A x \in S : x <= Max(S)
<1>1. \E m \in S : \A x \in S : x <= m
  BY FeedConstants, GreatestOf DEF Minutes
<1>2. \A x \in S : x \in Int
  BY DEF Minutes
<1>3. \E m \in S : \A x \in S : m >= x
  BY <1>1, <1>2
<1>4. Max(S) \in S /\ \A x \in S : Max(S) >= x
  BY <1>3 DEF Max
<1> QED
  BY <1>2, <1>4

-----------------------------------------------------------------------------
\* What a view says of its samples.  Adjacent(v, t, u): no sample between them.
Adjacent(v, t, u) ==
  t \in v.entries /\ u \in v.entries /\ t < u /\ \A x \in v.entries : x <= t \/ u <= x
Opens(v, t) == t \in v.entries /\ \A x \in v.entries : t <= x
Closes(v, t) == t \in v.entries /\ \A x \in v.entries : x <= t
ViewSound(v) ==
  /\ v.at \in Nat /\ v.entries \in SUBSET Minutes /\ v.holes \subseteq v.entries
  /\ \A t \in v.entries : InWindow(t, v.at)
  /\ \A t, u \in v.entries : Adjacent(v, t, u) /\ u \notin v.holes => u - t <= Gap
  /\ v.leading \in BOOLEAN /\ v.trailing \in BOOLEAN
  /\ v.leading => v.entries # {}
  /\ v.trailing => v.entries # {}
  /\ \A t \in v.entries : Opens(v, t) /\ ~v.leading => t - (v.at - Window) <= Gap
  /\ \A t \in v.entries : Closes(v, t) /\ ~v.trailing => v.at - t <= Gap

LEMMA MinuteIs == \A t \in Minutes : t \in Nat /\ t # NoSample /\ t \in Int
BY DEF Minutes, NoSample

LEMMA FirstIsMin ==
  ASSUME NEW v, v.entries \in SUBSET Minutes, NEW t, Opens(v, t)
  PROVE  Min(v.entries) = t
<1>1. Min(v.entries) \in v.entries /\ Min(v.entries) <= t
  BY FirstOf DEF Opens
<1>2. t <= Min(v.entries) /\ t \in Int /\ Min(v.entries) \in Int
  BY <1>1, MinuteIs DEF Opens
<1> QED
  BY <1>1, <1>2

LEMMA LastIsMax ==
  ASSUME NEW v, v.entries \in SUBSET Minutes, NEW t, Closes(v, t)
  PROVE  Max(v.entries) = t
<1>1. Max(v.entries) \in v.entries /\ t <= Max(v.entries)
  BY LastIs DEF Closes
<1>2. Max(v.entries) <= t /\ t \in Int /\ Max(v.entries) \in Int
  BY <1>1, MinuteIs DEF Closes
<1> QED
  BY <1>1, <1>2

LEMMA BeforeIs ==
  ASSUME NEW v, v.entries \in SUBSET Minutes, NEW t, NEW u, Adjacent(v, t, u)
  PROVE  Before(v.entries, u) = t /\ t # NoSample
<1>1. PICK S : S = {x \in v.entries : x < u}
  OBVIOUS
<1>2. S \in SUBSET Minutes /\ t \in S
  BY <1>1 DEF Adjacent
<1>3. Max(S) \in S /\ t <= Max(S)
  BY <1>2, LastIs
<1>4. Max(S) \in Int /\ t \in Int /\ u \in Int
  BY <1>2, <1>3, MinuteIs DEF Adjacent
<1>5. Max(S) <= t \/ u <= Max(S)
  BY <1>1, <1>3 DEF Adjacent
<1>6. Max(S) = t
  BY <1>1, <1>3, <1>4, <1>5
<1> QED
  BY <1>1, <1>2, <1>6, MinuteIs DEF Before, LastOf

\* The entries next to one.
LEMMA NextIs ==
  ASSUME NEW v, v.entries \in SUBSET Minutes, NEW t \in v.entries,
         {x \in v.entries : x > t} # {}
  PROVE  Adjacent(v, t, Min({x \in v.entries : x > t}))
<1>1. PICK S : S = {x \in v.entries : x > t}
  OBVIOUS
<1>2. S \in SUBSET Minutes /\ S # {}
  BY <1>1
<1>3. Min(S) \in S /\ \A x \in S : Min(S) <= x
  BY <1>2, FirstOf
<1>4. \A x \in v.entries : x \in Int
  BY MinuteIs
<1>5. Min(S) \in v.entries /\ t < Min(S)
  BY <1>1, <1>3, <1>4
<1>6. \A x \in v.entries : x <= t \/ Min(S) <= x
  BY <1>1, <1>3, <1>4
<1>7. Adjacent(v, t, Min(S))
  BY <1>5, <1>6 DEF Adjacent
<1> QED
  BY <1>1, <1>7

LEMMA PreviousIs ==
  ASSUME NEW v, v.entries \in SUBSET Minutes, NEW t \in v.entries,
         {x \in v.entries : x < t} # {}
  PROVE  Adjacent(v, Max({x \in v.entries : x < t}), t)
<1>1. PICK S : S = {x \in v.entries : x < t}
  OBVIOUS
<1>2. S \in SUBSET Minutes /\ S # {}
  BY <1>1
<1>3. Max(S) \in S /\ \A x \in S : x <= Max(S)
  BY <1>2, LastIs
<1>4. \A x \in v.entries : x \in Int
  BY MinuteIs
<1>5. Max(S) \in v.entries /\ Max(S) < t
  BY <1>1, <1>3, <1>4
<1>6. \A x \in v.entries : x <= Max(S) \/ t <= x
  BY <1>1, <1>3, <1>4
<1>7. Adjacent(v, Max(S), t)
  BY <1>5, <1>6 DEF Adjacent
<1> QED
  BY <1>1, <1>7

LEMMA EndsAt ==
  ASSUME NEW v, v.entries \in SUBSET Minutes, NEW t \in v.entries
  PROVE  /\ {x \in v.entries : x > t} = {} => Closes(v, t)
         /\ {x \in v.entries : x < t} = {} => Opens(v, t)
<1>1. \A x \in v.entries : x \in Int
  BY MinuteIs
<1> QED
  BY <1>1 DEF Opens, Closes

LEMMA ViewIsSound ==
  ASSUME NEW samples \in SUBSET Minutes, NEW latest \in 0..MaxTime, NEW at \in Nat
  PROVE  /\ ViewSound(View(samples, latest, at))
         /\ View(samples, latest, at).at = at
         /\ View(samples, latest, at).entries \subseteq
              samples \cup (IF latest = NoSample THEN {} ELSE {latest})
<1>1. PICK v : v = View(samples, latest, at)
  OBVIOUS
<1>2. PICK es : es = Entries(samples, latest, at)
  OBVIOUS
<1>3. /\ v.at = at /\ v.entries = es
      /\ v.holes = {t \in es : GapBefore(es, t, t = latest /\ Reconciled(samples, latest, at))}
      /\ v.leading = (es # {} /\ Min(es) - (at - Window) > Gap)
      /\ v.trailing = (es # {} /\ at - Max(es) > Gap)
  BY <1>1, <1>2 DEF View
<1>4. es \subseteq samples \cup (IF latest = NoSample THEN {} ELSE {latest})
  BY <1>2 DEF Entries, Kept, Reconciled
<1>5. \A t \in es : InWindow(t, at)
  BY <1>2 DEF Entries, Kept, Reconciled
<1>6. latest # NoSample => latest \in Minutes
  BY FeedConstants DEF NoSample, Minutes
<1>7. es \in SUBSET Minutes
  BY <1>4, <1>6
<1>8. ASSUME NEW t \in es, NEW u \in es, Adjacent(v, t, u), u \notin v.holes
      PROVE  u - t <= Gap
  <2>1. ~GapBefore(es, u, u = latest /\ Reconciled(samples, latest, at))
    BY <1>3, <1>8
  <2>2. Before(es, u) = t /\ t # NoSample
    BY <1>3, <1>7, <1>8, BeforeIs
  <2>3. ~(u - t > Gap)
    BY <2>1, <2>2 DEF GapBefore
  <2>4. u \in Int /\ t \in Int /\ Gap \in Int
    BY <1>7, MinuteIs, FeedConstants
  <2> QED
    BY <2>3, <2>4
<1>9. ASSUME NEW t \in es, Opens(v, t), ~v.leading
      PROVE  t - (at - Window) <= Gap
  <2>1. Min(es) = t
    BY <1>3, <1>7, <1>9, FirstIsMin
  <2>2. ~(t - (at - Window) > Gap)
    BY <1>3, <1>9, <2>1
  <2>3. t \in Int /\ at \in Int /\ Window \in Int /\ Gap \in Int
    BY <1>7, MinuteIs, FeedConstants
  <2> QED
    BY <2>2, <2>3
<1>10. ASSUME NEW t \in es, Closes(v, t), ~v.trailing
       PROVE  at - t <= Gap
  <2>1. Max(es) = t
    BY <1>3, <1>7, <1>10, LastIsMax
  <2>2. ~(at - t > Gap)
    BY <1>3, <1>10, <2>1
  <2>3. t \in Int /\ at \in Int /\ Gap \in Int
    BY <1>7, MinuteIs, FeedConstants
  <2> QED
    BY <2>2, <2>3
<1>11. v.leading \in BOOLEAN /\ v.trailing \in BOOLEAN
  BY <1>3
<1>12. ViewSound(v)
  BY <1>3, <1>5, <1>7, <1>8, <1>9, <1>10, <1>11 DEF ViewSound
<1> QED
  BY <1>1, <1>3, <1>4, <1>12

-----------------------------------------------------------------------------
(* Coverage.                                                               *)

LEMMA MinutesFinite ==
  ASSUME NEW S \in SUBSET Minutes
  PROVE  IsFiniteSet(S) /\ Cardinality(S) \in Nat /\ (Cardinality(S) = 0 => S = {})
<1>1. IsFiniteSet(Minutes)
  BY FeedConstants, FS_Interval DEF Minutes
<1>2. IsFiniteSet(S)
  BY <1>1, FS_Subset
<1> QED
  BY <1>2, FS_CardinalityType, FS_EmptySet

LEMMA NoGap ==
  ASSUME NEW v, ViewSound(v), GapCount(v) = 0
  PROVE  v.holes = {} /\ ~v.leading /\ ~v.trailing
<1>1. PICK n : n = Cardinality(v.holes)
  OBVIOUS
<1>2. v.holes \in SUBSET Minutes
  BY DEF ViewSound
<1>3. n \in Nat /\ (n = 0 => v.holes = {})
  BY <1>1, <1>2, MinutesFinite
<1>4. v.leading \in BOOLEAN /\ v.trailing \in BOOLEAN
  BY DEF ViewSound
<1>5. n + (IF v.leading THEN 1 ELSE 0) + (IF v.trailing THEN 1 ELSE 0) = 0
  BY <1>1 DEF GapCount
<1>6. n = 0 /\ ~v.leading /\ ~v.trailing
  BY <1>3, <1>4, <1>5
<1> QED
  BY <1>3, <1>6

\* Without a gap there is a sample in every stretch as long as the threshold.
LEMMA NoGapCovers ==
  ASSUME NEW v, ViewSound(v), v.entries # {}, GapCount(v) = 0,
         NEW a \in (v.at - Window)..(v.at - Gap)
  PROVE  v.entries \cap (a..(a + Gap)) # {}
<1>0. /\ v.entries \in SUBSET Minutes /\ v.at \in Int /\ Window \in Int /\ Gap \in Int
      /\ \A x \in v.entries : x \in Int
  BY FeedConstants, MinuteIs DEF ViewSound
<1>1. v.holes = {} /\ ~v.leading /\ ~v.trailing
  BY NoGap
<1>2. a \in Int /\ v.at - Window <= a /\ a <= v.at - Gap
  BY <1>0
<1> SUFFICES ASSUME \A x \in v.entries : x < a \/ x > a + Gap
             PROVE  FALSE
  BY <1>0, <1>2
<1>3. CASE \A x \in v.entries : x < a
  <2>1. PICK t \in v.entries : \A x \in v.entries : x <= t
    BY <1>0, LastIs
  <2>2. v.at - t <= Gap
    BY <1>1, <2>1 DEF ViewSound, Closes
  <2> QED
    BY <1>0, <1>2, <1>3, <2>1, <2>2
<1>4. CASE \E x \in v.entries : x > a + Gap
  <2>1. PICK S : S = {x \in v.entries : x > a + Gap}
    OBVIOUS
  <2>2. S \in SUBSET Minutes /\ S # {}
    BY <1>0, <1>4, <2>1
  <2>3. PICK u \in S : \A x \in S : u <= x
    BY <2>2, FirstOf
  <2>4. u \in v.entries /\ u > a + Gap /\ \A x \in v.entries : x < a \/ u <= x
    BY <2>1, <2>3
  <2>5. CASE {x \in v.entries : x < u} = {}
    <3>1. Opens(v, u)
      BY <1>0, <2>4, <2>5, EndsAt
    <3>2. u - (v.at - Window) <= Gap
      BY <1>1, <2>4, <3>1 DEF ViewSound
    <3> QED
      BY <1>0, <1>2, <2>4, <3>2
  <2>6. CASE {x \in v.entries : x < u} # {}
    <3>1. PICK t : t = Max({x \in v.entries : x < u})
      OBVIOUS
    <3>2. Adjacent(v, t, u)
      BY <1>0, <2>4, <2>6, <3>1, PreviousIs
    <3>3. t \in v.entries /\ t < u
      BY <3>2 DEF Adjacent
    <3>4. u - t <= Gap
      BY <1>1, <2>4, <3>2, <3>3 DEF ViewSound
    <3>5. t < a \/ u <= t
      BY <2>4, <3>3
    <3> QED
      BY <1>0, <1>2, <2>4, <3>3, <3>4, <3>5
  <2> QED
    BY <2>5, <2>6
<1> QED
  BY <1>3, <1>4

-----------------------------------------------------------------------------
(* The strip.                                                              *)

\* Where a minute is on the strip.
Mark(t) == Scale * t

LEMMA Distribute ==
  ASSUME NEW n \in Nat, NEW t \in Int, NEW u \in Int
  PROVE  n * (t + u) = n * t + n * u /\ n * (t - u) = n * t - n * u /\ n * t \in Int
OBVIOUS

LEMMA GrowsWith ==
  ASSUME NEW n \in Nat \ {0}, NEW t \in Int, NEW u \in Int, t < u
  PROVE  n * t < n * u
<1>1. PICK k \in Nat : u = t + 1 + k
  <2>1. u - t - 1 \in Nat /\ u = t + 1 + (u - t - 1)
    OBVIOUS
  <2> QED
    BY <2>1
<1>2. n * u = n * t + n + n * k
  BY <1>1
<1>3. n * k \in Nat /\ n * t \in Int
  OBVIOUS
<1> QED
  BY <1>2, <1>3

LEMMA MarkFacts ==
  /\ \A t \in Int : Mark(t) \in Int
  /\ \A t, u \in Int : t < u => Mark(t) < Mark(u)
  /\ \A t, u \in Int : t <= u => Mark(t) <= Mark(u)
  /\ \A t, u \in Int : Mark(t) < Mark(u) => t < u
  /\ \A t, u \in Int : Mark(t) <= Mark(u) => t <= u
  /\ \A t, u \in Int : Mark(t + u) = Mark(t) + Mark(u) /\ Mark(t - u) = Mark(t) - Mark(u)
  /\ \A t, u \in Int : Midpoint(t, u) \in Int /\ 2 * Midpoint(t, u) = Mark(t) + Mark(u)
<1>1. Scale \in Nat \ {0} /\ Cells \in Nat \ {0}
  BY FeedConstants DEF Scale
<1>2. \A t \in Int : Mark(t) \in Int
  BY <1>1, Distribute DEF Mark
<1>3. \A t, u \in Int : t < u => Mark(t) < Mark(u)
  BY <1>1, GrowsWith DEF Mark
<1>4. \A t, u \in Int : t <= u => Mark(t) <= Mark(u)
  <2> SUFFICES ASSUME NEW t \in Int, NEW u \in Int, t <= u PROVE Mark(t) <= Mark(u)
    OBVIOUS
  <2>1. Mark(t) \in Int /\ Mark(u) \in Int
    BY <1>2
  <2>2. t < u \/ t = u
    OBVIOUS
  <2> QED
    BY <1>3, <2>1, <2>2
<1>5. ASSUME NEW t \in Int, NEW u \in Int
      PROVE  (Mark(t) < Mark(u) => t < u) /\ (Mark(t) <= Mark(u) => t <= u)
  <2>1. Mark(t) \in Int /\ Mark(u) \in Int
    BY <1>2
  <2>2. t < u \/ u <= t
    OBVIOUS
  <2>3. t <= u \/ u < t
    OBVIOUS
  <2> QED
    BY <1>3, <1>4, <2>1, <2>2, <2>3
<1>6. \A t, u \in Int : Mark(t + u) = Mark(t) + Mark(u) /\ Mark(t - u) = Mark(t) - Mark(u)
  BY <1>1, Distribute DEF Mark
<1>7. ASSUME NEW t \in Int, NEW u \in Int
      PROVE  Midpoint(t, u) \in Int /\ 2 * Midpoint(t, u) = Mark(t) + Mark(u)
  <2>1. Cells * (t + u) = Cells * t + Cells * u /\ Cells * t \in Int /\ Cells * u \in Int
    BY <1>1, Distribute
  <2>2. Mark(t) = 2 * (Cells * t) /\ Mark(u) = 2 * (Cells * u)
    BY <1>1 DEF Mark, Scale
  <2> QED
    BY <2>1, <2>2 DEF Midpoint
<1> QED
  BY <1>2, <1>3, <1>4, <1>5, <1>6, <1>7

LEMMA NothingTimes ==
  ASSUME NEW n \in Int
  PROVE  n * 0 = 0
OBVIOUS

\* The threshold is at most two sampling intervals.
LEMMA ReachFacts ==
  /\ Mark(Interval) \in Int /\ Mark(Gap) \in Int /\ Mark(Window) \in Int
  /\ 0 < Mark(Interval) /\ 0 < Mark(Gap) /\ 0 < Mark(Window)
  /\ Mark(Gap) <= 2 * Mark(Interval)
<1>1. Interval \in Nat \ {0} /\ Gap \in Nat \ {0} /\ Window \in Nat \ {0} /\ Gap <= Interval + Interval
  BY FeedConstants
<1>2. Mark(Interval) \in Int /\ Mark(Gap) \in Int /\ Mark(Window) \in Int /\ Mark(0) = 0
  <2>1. 2 * Cells \in Int
    BY FeedConstants
  <2>2. Mark(0) = 0
    BY <2>1, NothingTimes DEF Mark, Scale
  <2>3. Interval \in Int /\ Gap \in Int /\ Window \in Int
    BY <1>1
  <2> QED
    BY <2>2, <2>3, MarkFacts
<1>3. 0 < Mark(Interval) /\ 0 < Mark(Gap) /\ 0 < Mark(Window)
  <2>1. 0 \in Int /\ Interval \in Int /\ Gap \in Int /\ Window \in Int
        /\ 0 < Interval /\ 0 < Gap /\ 0 < Window
    BY <1>1
  <2>2. Mark(0) < Mark(Interval) /\ Mark(0) < Mark(Gap) /\ Mark(0) < Mark(Window)
    BY <2>1, MarkFacts
  <2> QED
    BY <1>2, <2>2
<1>4. Mark(Gap) <= Mark(Interval + Interval) /\ Mark(Interval + Interval) = Mark(Interval) + Mark(Interval)
  BY <1>1, MarkFacts
<1> QED
  BY <1>2, <1>3, <1>4

\* The claim about one point of a view: a sample is within reach.
Inside(v, x) == \E t, u \in v.entries : Mark(t) <= x /\ x <= Mark(u)
ReachAt(v, x) == Mark(IF Inside(v, x) THEN Interval ELSE Gap)
Measured(v, x) == \E t \in v.entries : x - ReachAt(v, x) <= Mark(t) /\ Mark(t) <= x + ReachAt(v, x)

LEMMA ReachIs ==
  ASSUME NEW v, NEW x
  PROVE  /\ ReachAt(v, x) \in Int /\ 0 < ReachAt(v, x)
         /\ Inside(v, x) => ReachAt(v, x) = Mark(Interval)
         /\ ~Inside(v, x) => ReachAt(v, x) = Mark(Gap)
BY ReachFacts DEF ReachAt

LEMMA MarksOf ==
  ASSUME NEW v, v.entries \in SUBSET Minutes, NEW t \in v.entries
  PROVE  t \in Int /\ Mark(t) \in Int
BY MinuteIs, MarkFacts

LEMMA OnSample ==
  ASSUME NEW v, v.entries \in SUBSET Minutes, NEW t \in v.entries
  PROVE  Measured(v, Mark(t))
<1>1. Mark(t) \in Int
  BY MarksOf
<1>2. ReachAt(v, Mark(t)) \in Int /\ 0 < ReachAt(v, Mark(t))
  BY ReachIs
<1> QED
  BY <1>1, <1>2 DEF Measured

\* Between two neighbours.
LEMMA BetweenSamples ==
  ASSUME NEW v, v.entries \in SUBSET Minutes, NEW t, NEW u, Adjacent(v, t, u),
         NEW x \in Int, Mark(t) <= x, x <= Mark(u),
         x <= Mark(t) + Mark(Interval) \/ Mark(u) - Mark(Interval) <= x
  PROVE  Measured(v, x)
<1>1. t \in v.entries /\ u \in v.entries
  BY DEF Adjacent
<1>2. ReachAt(v, x) = Mark(Interval)
  BY <1>1, ReachIs DEF Inside
<1>3. Mark(t) \in Int /\ Mark(u) \in Int /\ Mark(Interval) \in Int /\ 0 < Mark(Interval)
  BY <1>1, MarksOf, ReachFacts
<1>4. CASE x <= Mark(t) + Mark(Interval)
  <2>1. x - Mark(Interval) <= Mark(t) /\ Mark(t) <= x + Mark(Interval)
    BY <1>3, <1>4
  <2> QED
    BY <1>1, <1>2, <2>1 DEF Measured
<1>5. CASE Mark(u) - Mark(Interval) <= x
  <2>1. x - Mark(Interval) <= Mark(u) /\ Mark(u) <= x + Mark(Interval)
    BY <1>3, <1>5
  <2> QED
    BY <1>1, <1>2, <2>1 DEF Measured
<1> QED
  BY <1>4, <1>5

\* Before the first sample and after the last.
LEMMA AfterLast ==
  ASSUME NEW v, v.entries \in SUBSET Minutes, NEW t, Closes(v, t),
         NEW x \in Int, Mark(t) <= x, x <= Mark(t) + Mark(Gap)
  PROVE  Measured(v, x)
<1>1. t \in v.entries /\ t \in Int /\ Mark(t) \in Int /\ Mark(Gap) \in Int /\ 0 < Mark(Gap)
  BY MarksOf, ReachFacts DEF Closes
<1>2. CASE x = Mark(t)
  BY <1>1, <1>2, OnSample
<1>3. CASE Mark(t) < x
  <2>1. \A u \in v.entries : ~(x <= Mark(u))
    <3> SUFFICES ASSUME NEW u \in v.entries PROVE ~(x <= Mark(u))
      OBVIOUS
    <3>1. u <= t /\ u \in Int /\ Mark(u) \in Int
      BY MarksOf DEF Closes
    <3>2. Mark(u) <= Mark(t)
      BY <1>1, <3>1, MarkFacts
    <3> QED
      BY <1>1, <1>3, <3>1, <3>2
  <2>2. ReachAt(v, x) = Mark(Gap)
    BY <2>1, ReachIs DEF Inside
  <2>3. x - Mark(Gap) <= Mark(t) /\ Mark(t) <= x + Mark(Gap)
    BY <1>1
  <2> QED
    BY <1>1, <2>2, <2>3 DEF Measured
<1> QED
  BY <1>1, <1>2, <1>3

LEMMA BeforeFirst ==
  ASSUME NEW v, v.entries \in SUBSET Minutes, NEW t, Opens(v, t),
         NEW x \in Int, x <= Mark(t), Mark(t) - Mark(Gap) <= x
  PROVE  Measured(v, x)
<1>1. t \in v.entries /\ t \in Int /\ Mark(t) \in Int /\ Mark(Gap) \in Int /\ 0 < Mark(Gap)
  BY MarksOf, ReachFacts DEF Opens
<1>2. CASE x = Mark(t)
  BY <1>1, <1>2, OnSample
<1>3. CASE x < Mark(t)
  <2>1. \A u \in v.entries : ~(Mark(u) <= x)
    <3> SUFFICES ASSUME NEW u \in v.entries PROVE ~(Mark(u) <= x)
      OBVIOUS
    <3>1. t <= u /\ u \in Int /\ Mark(u) \in Int
      BY MarksOf DEF Opens
    <3>2. Mark(t) <= Mark(u)
      BY <1>1, <3>1, MarkFacts
    <3> QED
      BY <1>1, <1>3, <3>1, <3>2
  <2>2. ReachAt(v, x) = Mark(Gap)
    BY <2>1, ReachIs DEF Inside
  <2>3. x - Mark(Gap) <= Mark(t) /\ Mark(t) <= x + Mark(Gap)
    BY <1>1
  <2> QED
    BY <1>1, <2>2, <2>3 DEF Measured
<1> QED
  BY <1>1, <1>2, <1>3

\* The ends of a sample's colour.
LEMMA EndIs ==
  ASSUME NEW v, ViewSound(v), NEW t \in v.entries
  PROVE  \/ /\ Closes(v, t)
            /\ EndOf(v, t) = IF v.trailing THEN Mark(t) ELSE Mark(v.at)
         \/ \E u \in v.entries : Adjacent(v, t, u) /\ EndOf(v, t) = Reaches(v, t, u)
<1>0. v.entries \in SUBSET Minutes
  BY DEF ViewSound
<1>1. CASE {x \in v.entries : x > t} = {}
  <2>1. Closes(v, t)
    BY <1>0, <1>1, EndsAt
  <2> QED
    BY <1>1, <2>1 DEF EndOf, Mark
<1>2. CASE {x \in v.entries : x > t} # {}
  <2>1. PICK u : u = Min({x \in v.entries : x > t})
    OBVIOUS
  <2>2. Adjacent(v, t, u)
    BY <1>0, <1>2, <2>1, NextIs
  <2>3. u \in v.entries
    BY <2>2 DEF Adjacent
  <2>4. EndOf(v, t) = Reaches(v, t, u)
    BY <1>2, <2>1 DEF EndOf
  <2> QED
    BY <2>2, <2>3, <2>4
<1> QED
  BY <1>1, <1>2

LEMMA StartIs ==
  ASSUME NEW v, ViewSound(v), NEW t \in v.entries
  PROVE  \/ /\ Opens(v, t)
            /\ StartOf(v, t) = IF v.leading THEN Mark(t) ELSE Mark(v.at - Window)
         \/ \E u \in v.entries :
              /\ Adjacent(v, u, t)
              /\ StartOf(v, t) = IF t \in v.holes THEN Mark(t) ELSE Midpoint(u, t)
<1>0. v.entries \in SUBSET Minutes
  BY DEF ViewSound
<1>1. CASE {x \in v.entries : x < t} = {}
  <2>1. Opens(v, t)
    BY <1>0, <1>1, EndsAt
  <2> QED
    BY <1>1, <2>1 DEF StartOf, Mark
<1>2. CASE {x \in v.entries : x < t} # {}
  <2>1. PICK u : u = Max({x \in v.entries : x < t})
    OBVIOUS
  <2>2. Adjacent(v, u, t)
    BY <1>0, <1>2, <2>1, PreviousIs
  <2>3. u \in v.entries
    BY <2>2 DEF Adjacent
  <2>4. StartOf(v, t) = IF t \in v.holes THEN Mark(t) ELSE Midpoint(u, t)
    BY <1>2, <2>1 DEF StartOf, Mark
  <2> QED
    BY <2>2, <2>3, <2>4
<1> QED
  BY <1>1, <1>2

LEMMA LesserOf ==
  ASSUME NEW a \in Int, NEW b \in Int
  PROVE  Min({a, b}) \in {a, b} /\ Min({a, b}) <= a /\ Min({a, b}) <= b
<1>1. \E m \in {a, b} : \A x \in {a, b} : m <= x
  OBVIOUS
<1> QED
  BY <1>1 DEF Min

\* A colour ends half way to the next sample, or sooner.
LEMMA ReachesWithin ==
  ASSUME NEW v, ViewSound(v), NEW t, NEW u, Adjacent(v, t, u)
  PROVE  /\ Reaches(v, t, u) \in Int /\ Mark(t) < Reaches(v, t, u) /\ Reaches(v, t, u) < Mark(u)
         /\ Reaches(v, t, u) <= Mark(t) + Mark(Interval)
<1>1. t \in v.entries /\ u \in v.entries /\ t < u /\ v.entries \in SUBSET Minutes
  BY DEF Adjacent, ViewSound
<1>2. t \in Int /\ u \in Int /\ Mark(t) \in Int /\ Mark(u) \in Int
  BY <1>1, MarksOf
<1>3. Mark(t) < Mark(u) /\ Midpoint(t, u) \in Int /\ 2 * Midpoint(t, u) = Mark(t) + Mark(u)
  BY <1>1, <1>2, MarkFacts
<1>4. /\ Interval \in Int /\ Gap \in Int /\ Mark(Interval) \in Int /\ Mark(Gap) \in Int
      /\ 0 < Mark(Interval) /\ Mark(Gap) <= 2 * Mark(Interval)
  BY FeedConstants, ReachFacts
<1>5. CASE u \in v.holes
  <2>1. Scale * (t + Interval) = Mark(t) + Mark(Interval)
    BY <1>2, <1>4, MarkFacts DEF Mark
  <2>2. PICK b \in Int : b = Mark(t) + Mark(Interval)
    BY <1>2, <1>4
  <2>3. Reaches(v, t, u) = Min({Midpoint(t, u), b})
    BY <1>5, <2>1, <2>2 DEF Reaches
  <2>4. /\ Reaches(v, t, u) \in {Midpoint(t, u), b}
        /\ Reaches(v, t, u) <= Midpoint(t, u) /\ Reaches(v, t, u) <= b
    BY <1>3, <2>3, LesserOf
  <2> QED
    BY <1>2, <1>3, <1>4, <2>2, <2>4
<1>6. CASE u \notin v.holes
  <2>1. u - t <= Gap /\ u - t \in Int
    BY <1>1, <1>2, <1>6 DEF ViewSound
  <2>2. Mark(u - t) <= Mark(Gap) /\ Mark(u - t) = Mark(u) - Mark(t)
    BY <1>2, <1>4, <2>1, MarkFacts
  <2>3. Reaches(v, t, u) = Midpoint(t, u)
    BY <1>6 DEF Reaches
  <2> QED
    BY <1>2, <1>3, <1>4, <2>2, <2>3
<1> QED
  BY <1>5, <1>6

LEMMA PointsOf ==
  ASSUME NEW v, ViewSound(v), NEW t \in v.entries
  PROVE  /\ v.entries \in SUBSET Minutes /\ t \in Int /\ Mark(t) \in Int
         /\ v.at \in Int /\ Mark(v.at) \in Int
         /\ Window \in Int /\ v.at - Window \in Int /\ Mark(v.at - Window) \in Int
         /\ Gap \in Int /\ Mark(Gap) \in Int /\ Mark(Interval) \in Int
<1>1. v.entries \in SUBSET Minutes /\ v.at \in Int
  BY DEF ViewSound
<1>2. Window \in Int /\ Gap \in Int /\ Mark(Gap) \in Int /\ Mark(Interval) \in Int
  BY FeedConstants, ReachFacts
<1>3. v.at - Window \in Int
  BY <1>1, <1>2
<1> QED
  BY <1>1, <1>2, <1>3, MarksOf, MarkFacts

LEMMA AfterSample ==
  ASSUME NEW v, ViewSound(v), NEW t \in v.entries, NEW x \in Int,
         Mark(t) <= x, x <= EndOf(v, t)
  PROVE  Measured(v, x)
<1>0. /\ v.entries \in SUBSET Minutes /\ t \in Int /\ Mark(t) \in Int /\ v.at \in Int
      /\ Mark(v.at) \in Int /\ Mark(Gap) \in Int /\ Gap \in Int /\ Mark(Interval) \in Int
  BY PointsOf
<1>1. CASE Closes(v, t) /\ EndOf(v, t) = IF v.trailing THEN Mark(t) ELSE Mark(v.at)
  <2>1. CASE v.trailing
    <3>1. x = Mark(t)
      BY <1>0, <1>1, <2>1
    <3> QED
      BY <1>0, <3>1, OnSample
  <2>2. CASE ~v.trailing
    <3>1. v.at - t <= Gap /\ v.at - t \in Int
      BY <1>0, <1>1, <2>2 DEF ViewSound
    <3>2. Mark(v.at - t) <= Mark(Gap) /\ Mark(v.at - t) = Mark(v.at) - Mark(t)
      BY <1>0, <3>1, MarkFacts
    <3>3. x <= Mark(v.at)
      BY <1>1, <2>2
    <3>4. x <= Mark(t) + Mark(Gap)
      BY <1>0, <3>2, <3>3
    <3> QED
      BY <1>0, <1>1, <3>4, AfterLast
  <2> QED
    BY <2>1, <2>2
<1>2. ASSUME NEW u \in v.entries, Adjacent(v, t, u), EndOf(v, t) = Reaches(v, t, u)
      PROVE  Measured(v, x)
  <2>1. /\ EndOf(v, t) \in Int /\ EndOf(v, t) < Mark(u)
        /\ EndOf(v, t) <= Mark(t) + Mark(Interval)
    BY <1>2, ReachesWithin
  <2>2. Mark(u) \in Int
    BY <1>0, MarksOf
  <2>3. x <= Mark(u) /\ x <= Mark(t) + Mark(Interval)
    BY <1>0, <2>1, <2>2
  <2> QED
    BY <1>0, <1>2, <2>3, BetweenSamples
<1> QED
  BY <1>1, <1>2, EndIs

LEMMA BeforeSample ==
  ASSUME NEW v, ViewSound(v), NEW t \in v.entries, NEW x \in Int,
         StartOf(v, t) <= x, x <= Mark(t)
  PROVE  Measured(v, x)
<1>0. /\ v.entries \in SUBSET Minutes /\ t \in Int /\ Mark(t) \in Int /\ v.at \in Int
      /\ v.at - Window \in Int
      /\ Mark(v.at - Window) \in Int /\ Mark(Gap) \in Int /\ Gap \in Int /\ Mark(Interval) \in Int
  BY PointsOf
<1>1. CASE Opens(v, t) /\ StartOf(v, t) = IF v.leading THEN Mark(t) ELSE Mark(v.at - Window)
  <2>1. CASE v.leading
    <3>1. x = Mark(t)
      BY <1>0, <1>1, <2>1
    <3> QED
      BY <1>0, <3>1, OnSample
  <2>2. CASE ~v.leading
    <3>1. t - (v.at - Window) <= Gap /\ t - (v.at - Window) \in Int
      BY <1>0, <1>1, <2>2 DEF ViewSound
    <3>2. PICK w \in Int : w = v.at - Window
      BY <1>0
    <3>3. Mark(t - w) <= Mark(Gap) /\ Mark(t - w) = Mark(t) - Mark(w)
      BY <1>0, <3>1, <3>2, MarkFacts
    <3>4. Mark(w) <= x /\ Mark(w) \in Int
      BY <1>0, <1>1, <2>2, <3>2
    <3>5. Mark(t) - Mark(Gap) <= x
      BY <1>0, <3>3, <3>4
    <3> QED
      BY <1>0, <1>1, <3>5, BeforeFirst
  <2> QED
    BY <2>1, <2>2
<1>2. ASSUME NEW u \in v.entries, Adjacent(v, u, t),
             StartOf(v, t) = IF t \in v.holes THEN Mark(t) ELSE Midpoint(u, t)
      PROVE  Measured(v, x)
  <2>1. CASE t \in v.holes
    <3>1. x = Mark(t)
      BY <1>0, <1>2, <2>1
    <3> QED
      BY <1>0, <3>1, OnSample
  <2>2. CASE t \notin v.holes
    <3>1. u \in Int /\ Mark(u) \in Int /\ u < t
      BY <1>0, <1>2, MarksOf DEF Adjacent
    <3>2. t - u <= Gap /\ t - u \in Int
      BY <1>0, <1>2, <2>2, <3>1 DEF ViewSound
    <3>3. Mark(t - u) <= Mark(Gap) /\ Mark(t - u) = Mark(t) - Mark(u) /\ Mark(u) < Mark(t)
      BY <1>0, <3>1, <3>2, MarkFacts
    <3>4. Midpoint(u, t) \in Int /\ 2 * Midpoint(u, t) = Mark(u) + Mark(t) /\ Midpoint(u, t) <= x
      BY <1>0, <1>2, <2>2, <3>1, MarkFacts
    <3>5. Mark(Gap) <= 2 * Mark(Interval)
      BY ReachFacts
    <3>6. Mark(u) <= x /\ Mark(t) - Mark(Interval) <= x
      BY <1>0, <3>1, <3>3, <3>4, <3>5
    <3> QED
      BY <1>0, <1>2, <3>6, BetweenSamples
  <2> QED
    BY <2>1, <2>2
<1> QED
  BY <1>1, <1>2, StartIs

LEMMA ColourIsMeasured ==
  ASSUME NEW v, ViewSound(v), NEW t \in v.entries, NEW x \in Int,
         StartOf(v, t) <= x, x <= EndOf(v, t)
  PROVE  Measured(v, x)
<1>1. Mark(t) \in Int
  BY PointsOf
<1>2. Mark(t) <= x \/ x <= Mark(t)
  BY <1>1
<1> QED
  BY <1>2, AfterSample, BeforeSample

-----------------------------------------------------------------------------
\* What Segments consists of.
LEMMA KnownIsColoured ==
  ASSUME NEW v, NEW s \in Segments(v), s.known
  PROVE  \E t \in v.entries : s.from = StartOf(v, t) /\ s.to = EndOf(v, t)
<1>1. CASE \E t \in v.entries : s = Segment(StartOf(v, t), EndOf(v, t), TRUE)
  BY <1>1 DEF Segment
<1>2. CASE \E from : \E to : s = Segment(from, to, FALSE)
  BY <1>2 DEF Segment
<1> QED
  BY <1>1, <1>2 DEF Segments

\* Every hole is drawn.
LEMMA HoleIsDrawn ==
  ASSUME NEW v, ViewSound(v), NEW t, NEW u, Adjacent(v, t, u), u \in v.holes
  PROVE  Segment(EndOf(v, t), Mark(u), FALSE) \in Segments(v)
<1>1. t \in v.entries /\ u \in v.entries /\ v.entries \in SUBSET Minutes
  BY DEF Adjacent, ViewSound
<1>2. Before(v.entries, u) = t /\ t # NoSample
  BY <1>1, BeforeIs
<1>3. PICK s : s = Segment(EndOf(v, t), Mark(u), FALSE)
  OBVIOUS
<1>4. s \in {Segment(EndOf(v, Before(v.entries, x)), Scale * x, FALSE) :
               x \in {y \in v.holes : Before(v.entries, y) # NoSample}}
  BY <1>2, <1>3 DEF Mark
<1>5. EndOf(v, t) < Mark(u)
  <2>1. ~Closes(v, t)
    <3>1. t < u /\ t \in Int /\ u \in Int
      BY <1>1, MarksOf DEF Adjacent
    <3> QED
      BY <1>1, <3>1 DEF Closes
  <2>2. PICK w \in v.entries : Adjacent(v, t, w) /\ EndOf(v, t) = Reaches(v, t, w)
    BY <1>1, <2>1, EndIs
  <2>3. w = u
    <3>1. w \in Int /\ u \in Int /\ t \in Int
      BY <1>1, MarksOf
    <3> QED
      BY <1>1, <2>2, <3>1 DEF Adjacent
  <2> QED
    BY <2>2, <2>3, ReachesWithin
<1>6. s.from < s.to
  BY <1>3, <1>5 DEF Segment
<1> QED
  BY <1>3, <1>4, <1>6 DEF Segments

LEMMA LeadingIsDrawn ==
  ASSUME NEW v, ViewSound(v), v.leading, NEW t, Opens(v, t), Mark(v.at - Window) < Mark(t)
  PROVE  Segment(Mark(v.at - Window), Mark(t), FALSE) \in Segments(v)
<1>1. Min(v.entries) = t
  BY FirstIsMin DEF ViewSound
<1>2. PICK s : s = Segment(Mark(v.at - Window), Mark(t), FALSE)
  OBVIOUS
<1>3. s = Segment(Scale * (v.at - Window), Scale * Min(v.entries), FALSE)
  BY <1>1, <1>2 DEF Mark
<1>4. s.from < s.to
  BY <1>2 DEF Segment
<1> QED
  BY <1>2, <1>3, <1>4 DEF Segments

LEMMA TrailingIsDrawn ==
  ASSUME NEW v, ViewSound(v), v.trailing, NEW t, Closes(v, t), Mark(t) < Mark(v.at)
  PROVE  Segment(Mark(t), Mark(v.at), FALSE) \in Segments(v)
<1>1. Max(v.entries) = t
  BY LastIsMax DEF ViewSound
<1>2. PICK s : s = Segment(Mark(t), Mark(v.at), FALSE)
  OBVIOUS
<1>3. s = Segment(Scale * Max(v.entries), Scale * v.at, FALSE)
  BY <1>1, <1>2 DEF Mark
<1>4. s.from < s.to
  BY <1>2 DEF Segment
<1> QED
  BY <1>2, <1>3, <1>4 DEF Segments

LEMMA NothingDrawn ==
  ASSUME NEW v, ViewSound(v), v.entries = {}
  PROVE  Segments(v) = {}
<1>1. v.holes = {} /\ ~v.leading /\ ~v.trailing
  BY DEF ViewSound
<1> QED
  BY <1>1 DEF Segments

\* What is not measured lies within a drawn hole, at its ends at most where the
\* window has its ends.
LEMMA UnmeasuredIsHole ==
  ASSUME NEW v, ViewSound(v), v.entries # {}, NEW x \in Int,
         Mark(v.at - Window) <= x, x <= Mark(v.at), ~Measured(v, x)
  PROVE  \E s \in Segments(v) :
           /\ ~s.known /\ s.from \in Int /\ s.to \in Int
           /\ s.from < x \/ (s.from = Mark(v.at - Window) /\ s.from = x)
           /\ x < s.to \/ (s.to = Mark(v.at) /\ s.to = x)
<1>0. v.entries \in SUBSET Minutes
  BY DEF ViewSound
<1>1. PICK f \in v.entries : Opens(v, f)
  BY <1>0, FirstOf DEF Opens
<1>2. PICK l \in v.entries : Closes(v, l)
  BY <1>0, LastIs DEF Closes
<1>3. \A t \in v.entries : t \in Int /\ Mark(t) \in Int /\ Mark(t) # x
  BY <1>0, MarksOf, OnSample
<1>4. /\ v.at \in Int /\ Mark(v.at) \in Int
      /\ Window \in Int /\ v.at - Window \in Int /\ Mark(v.at - Window) \in Int
      /\ Gap \in Int /\ Mark(Gap) \in Int /\ Mark(Interval) \in Int
  BY <1>1, PointsOf
<1>5. CASE x < Mark(f)
  <2>1. ~(Mark(f) - Mark(Gap) <= x)
    BY <1>0, <1>1, <1>3, <1>5, BeforeFirst
  <2>2. PICK w \in Int : w = v.at - Window
    BY <1>4
  <2>3. Mark(w) <= x /\ Mark(w) \in Int
    BY <1>4, <2>2
  <2>4. Mark(Gap) < Mark(f - w) /\ f - w \in Int
    <3>0. f \in Int /\ w \in Int
      BY <1>3
    <3>1. Mark(f - w) = Mark(f) - Mark(w) /\ f - w \in Int
      BY <3>0, MarkFacts
    <3>2. Mark(f) \in Int
      BY <1>3
    <3> QED
      BY <1>4, <2>1, <2>3, <3>1, <3>2
  <2>5. ~(f - w <= Gap)
    <3>1. Gap < f - w
      BY <1>4, <2>4, MarkFacts
    <3> QED
      BY <1>4, <2>4, <3>1
  <2>6. v.leading
    BY <1>1, <2>2, <2>5 DEF ViewSound
  <2>7. Mark(w) < Mark(f) /\ Mark(f) \in Int
    BY <1>3, <1>5, <2>3
  <2>8. PICK s \in Segments(v) : s = Segment(Mark(w), Mark(f), FALSE)
    BY <1>1, <2>2, <2>6, <2>7, LeadingIsDrawn
  <2>9. s.from = Mark(w) /\ s.to = Mark(f) /\ ~s.known
    BY <2>8 DEF Segment
  <2>10. Mark(w) < x \/ Mark(w) = x
    BY <2>3
  <2> QED
    BY <1>5, <2>2, <2>3, <2>7, <2>9, <2>10
<1>6. CASE Mark(l) < x
  <2>1. ~(x <= Mark(l) + Mark(Gap))
    BY <1>0, <1>2, <1>3, <1>6, AfterLast
  <2>2. Mark(Gap) < Mark(v.at - l) /\ v.at - l \in Int
    <3>0. PICK n \in Int : n = v.at
      BY <1>4
    <3>1. Mark(n - l) = Mark(n) - Mark(l) /\ n - l \in Int
      <4>1. l \in Int
        BY <1>3
      <4> QED
        BY <4>1, MarkFacts
    <3>2. Mark(l) \in Int
      BY <1>3
    <3> QED
      BY <1>4, <2>1, <3>0, <3>1, <3>2
  <2>3. ~(v.at - l <= Gap)
    <3>1. Gap < v.at - l
      BY <1>4, <2>2, MarkFacts
    <3> QED
      BY <1>4, <2>2, <3>1
  <2>4. v.trailing
    BY <1>2, <2>3 DEF ViewSound
  <2>5. Mark(l) < Mark(v.at) /\ Mark(l) \in Int
    BY <1>3, <1>4, <1>6
  <2>6. PICK s \in Segments(v) : s = Segment(Mark(l), Mark(v.at), FALSE)
    BY <1>2, <2>4, <2>5, TrailingIsDrawn
  <2>7. s.from = Mark(l) /\ s.to = Mark(v.at) /\ ~s.known
    BY <2>6 DEF Segment
  <2>8. x < Mark(v.at) \/ Mark(v.at) = x
    BY <1>4
  <2> QED
    BY <1>4, <1>6, <2>5, <2>7, <2>8
<1>7. CASE Mark(f) < x /\ x < Mark(l)
  <2>1. PICK S : S = {t \in v.entries : Mark(t) < x}
    OBVIOUS
  <2>2. S \in SUBSET Minutes /\ S # {}
    BY <1>0, <1>1, <1>7, <2>1
  <2>3. PICK t \in S : \A y \in S : y <= t
    BY <2>2, LastIs
  <2>4. t \in v.entries /\ Mark(t) < x
    BY <2>1, <2>3
  <2>5. ~Closes(v, t)
    <3>1. ~(l <= t)
      <4>1. l <= t => Mark(l) <= Mark(t)
        BY <1>2, <1>3, <2>4, MarkFacts
      <4>2. Mark(l) \in Int /\ Mark(t) \in Int
        BY <1>3, <2>4
      <4> QED
        BY <1>7, <2>4, <4>1, <4>2
    <3> QED
      BY <1>2, <3>1 DEF Closes
  <2>6. PICK u \in v.entries : Adjacent(v, t, u) /\ EndOf(v, t) = Reaches(v, t, u)
    BY <2>4, <2>5, EndIs
  <2>7. t < u /\ u \in Int /\ t \in Int /\ Mark(u) \in Int /\ Mark(t) \in Int
    BY <1>3, <2>4, <2>6 DEF Adjacent
  <2>8. x < Mark(u)
    <3>1. Mark(u) < x => u <= t
      BY <2>1, <2>3
    <3> QED
      BY <1>3, <2>7, <3>1
  <2>9. ~(x <= Mark(t) + Mark(Interval)) /\ ~(Mark(u) - Mark(Interval) <= x)
    <3>1. Mark(t) <= x /\ x <= Mark(u)
      BY <2>4, <2>7, <2>8
    <3> QED
      BY <1>0, <2>6, <3>1, BetweenSamples
  <2>10. u \in v.holes
    <3> SUFFICES ASSUME u \notin v.holes PROVE FALSE
      OBVIOUS
    <3>1. u - t <= Gap /\ u - t \in Int
      BY <2>4, <2>6, <2>7 DEF ViewSound
    <3>2. Mark(u - t) <= Mark(Gap) /\ Mark(u - t) = Mark(u) - Mark(t)
      BY <1>4, <2>7, <3>1, MarkFacts
    <3>3. Mark(Gap) <= 2 * Mark(Interval)
      BY ReachFacts
    <3> QED
      BY <1>4, <2>7, <2>9, <3>2, <3>3
  <2>11. EndOf(v, t) \in Int /\ EndOf(v, t) <= Mark(t) + Mark(Interval)
    BY <2>6, ReachesWithin
  <2>12. EndOf(v, t) < x
    BY <1>4, <2>7, <2>9, <2>11
  <2>13. PICK s \in Segments(v) : s = Segment(EndOf(v, t), Mark(u), FALSE)
    BY <2>6, <2>10, HoleIsDrawn
  <2>14. s.from = EndOf(v, t) /\ s.to = Mark(u) /\ ~s.known
    BY <2>13 DEF Segment
  <2> QED
    BY <2>7, <2>8, <2>11, <2>12, <2>14
<1>8. Mark(f) \in Int /\ Mark(l) \in Int /\ Mark(f) # x /\ Mark(l) # x
  BY <1>3
<1> QED
  BY <1>5, <1>6, <1>7, <1>8

-----------------------------------------------------------------------------
\* The cells that stand for many segments lie within the window.
LEMMA CellIs ==
  ASSUME NEW v, v.at \in Nat, NEW n \in 1..Cells, NEW c, c.from = Cell(v, n).from, c.to = Cell(v, n).to
  PROVE  /\ c.from \in Int /\ c.to \in Int /\ c.from < c.to
         /\ Mark(v.at - Window) <= c.from /\ c.to <= Mark(v.at)
<1>1. /\ Cells \in Nat \ {0} /\ Window \in Nat \ {0} /\ n \in Nat /\ 1 <= n /\ n <= Cells
      /\ v.at \in Int
  BY FeedConstants
<1>2. PICK w \in Nat \ {0} : w = 2 * Window
  BY <1>1
<1>3. PICK b \in Int : b = Mark(v.at - Window)
  <2>1. v.at - Window \in Int
    BY <1>1
  <2> QED
    BY <2>1, MarkFacts
<1>4. c.from = b + w * (n - 1) /\ c.to = b + w * n
  BY <1>2, <1>3 DEF Cell, Segment, Mark
<1>5. /\ w * (n - 1) = w * n - w /\ w * (n - 1) \in Nat /\ w * n \in Nat
      /\ w * n <= w * Cells /\ w * Cells \in Nat
  <2>1. n - 1 \in Nat /\ w \in Nat
    BY <1>1
  <2>2. w * (n - 1) = w * n - w * 1
    BY <1>1, Distribute
  <2>3. w * n < w * Cells \/ n = Cells
    BY <1>1, GrowsWith
  <2>4. w * (n - 1) \in Nat /\ w * n \in Nat /\ w * Cells \in Nat
    BY <1>1, <2>1
  <2> QED
    BY <2>2, <2>3, <2>4
<1>6. Mark(v.at) = b + w * Cells
  <2>1. PICK a \in Int : a = v.at
    BY <1>1
  <2>2. Window \in Int
    BY <1>1
  <2>3. Mark(a - Window) = Mark(a) - Mark(Window) /\ Mark(a) \in Int /\ Mark(Window) \in Int
    BY <2>2, MarkFacts
  <2>4. Mark(Window) = w * Cells
    BY <1>1, <1>2 DEF Mark, Scale
  <2> QED
    BY <1>3, <2>1, <2>3, <2>4
<1> QED
  BY <1>3, <1>4, <1>5, <1>6

\* A cell that is coloured touches no hole, so that all of it was measured.
LEMMA CellIsMeasured ==
  ASSUME NEW v, ViewSound(v), NEW n \in 1..Cells, NEW x \in Int,
         Cell(v, n).from <= x, x <= Cell(v, n).to,
         AllKnown({s \in Segments(v) : Overlap(s, Cell(v, n))})
  PROVE  Measured(v, x)
<1>1. PICK c : c = Cell(v, n)
  OBVIOUS
<1>2. /\ c.from \in Int /\ c.to \in Int /\ c.from < c.to
      /\ Mark(v.at - Window) <= c.from /\ c.to <= Mark(v.at)
  BY <1>1, CellIs DEF ViewSound
<1>3. \A s \in Segments(v) : Overlap(s, c) => s.known
  BY <1>1 DEF AllKnown
<1>4. v.entries # {}
  BY <1>1, NothingDrawn DEF AllKnown
<1>5. PICK t \in v.entries : TRUE
  BY <1>4
<1>6. Mark(v.at) \in Int /\ Mark(v.at - Window) \in Int
  BY <1>5, PointsOf
<1>7. Mark(v.at - Window) <= x /\ x <= Mark(v.at) /\ c.from <= x /\ x <= c.to
  BY <1>1, <1>2, <1>6
<1> SUFFICES ASSUME ~Measured(v, x) PROVE FALSE
  OBVIOUS
<1>8. PICK s \in Segments(v) :
        /\ ~s.known /\ s.from \in Int /\ s.to \in Int
        /\ s.from < x \/ (s.from = Mark(v.at - Window) /\ s.from = x)
        /\ x < s.to \/ (s.to = Mark(v.at) /\ s.to = x)
  BY <1>4, <1>7, UnmeasuredIsHole
<1>9. s.to > c.from /\ s.from < c.to
  BY <1>2, <1>6, <1>7, <1>8
<1> QED
  BY <1>3, <1>8, <1>9 DEF Overlap

LEMMA DrawnIsMeasured ==
  ASSUME NEW v, ViewSound(v), NEW s \in Drawn(v), s.known,
         NEW x \in Int, s.from <= x, x <= s.to
  PROVE  Measured(v, x)
<1>1. CASE s \in Segments(v)
  <2>1. PICK t \in v.entries : s.from = StartOf(v, t) /\ s.to = EndOf(v, t)
    BY <1>1, KnownIsColoured
  <2> QED
    BY <2>1, ColourIsMeasured
<1>2. ASSUME NEW n \in 1..Cells,
             s = [Cell(v, n) EXCEPT !.known = AllKnown({y \in Segments(v) : Overlap(y, Cell(v, n))})]
      PROVE  Measured(v, x)
  <2>1. s.from = Cell(v, n).from /\ s.to = Cell(v, n).to
    BY <1>2 DEF Cell, Segment
  <2>2. AllKnown({y \in Segments(v) : Overlap(y, Cell(v, n))})
    BY <1>2 DEF Cell, Segment
  <2> QED
    BY <2>1, <2>2, CellIsMeasured
<1> QED
  BY <1>1, <1>2 DEF Drawn

LEMMA StripIsHonest ==
  ASSUME NEW v, ViewSound(v), NEW s \in Drawn(v), s.known, NEW x \in s.from..s.to
  PROVE  LET inside == \E t, u \in v.entries : Scale * t <= x /\ x <= Scale * u
             reach == Scale * (IF inside THEN Interval ELSE Gap)
         IN  \E t \in v.entries : x - reach <= Scale * t /\ Scale * t <= x + reach
<1>1. Measured(v, x)
  BY DrawnIsMeasured
<1> QED
  BY <1>1 DEF Measured, ReachAt, Inside, Mark

------------------------------------------------------------------------------
(* What visitors see was taken: each pair anywhere, in files, requests and *)
(* tables, is of samples that were.                                        *)

\* A pair of samples that were taken.
Genuine(p) == p.history \subseteq taken /\ (p.latest # NoSample => p.latest \in taken)
FilesGenuine == Genuine(files)
ClientGenuine == Genuine(client.got) /\ \A r \in late : Genuine(r.pair)
TablesGenuine ==
  /\ Genuine(store.pair) /\ Genuine(store.rows) /\ \A m \in store.stage : Genuine(m.pair)
  /\ store.pair # NoPair => Agree(store.pair)
  /\ IsFiniteSet(PairsOf(store.stage)) /\ Cardinality(PairsOf(store.stage)) <= 2
ReadingGenuine ==
  /\ reading.at \in Nat /\ reading.latest \in 0..MaxTime
  /\ reading.latest # NoSample => reading.latest \in taken
FeedInv == Typed /\ FilesGenuine /\ ClientGenuine /\ TablesGenuine /\ ReadingGenuine

LEMMA NothingGenuine == Genuine(NoPair)
BY DEF Genuine, NoPair

LEMMA GenuineStays ==
  ASSUME NEW p, Genuine(p), taken \subseteq taken'
  PROVE  p.history \subseteq taken' /\ (p.latest # NoSample => p.latest \in taken')
BY DEF Genuine

LEMMA TakenGrows ==
  ASSUME FeedNext
  PROVE  taken \subseteq taken'
BY DEF FeedNext, Tick, Collect, WriteHistory, CollectorStops, Begin, Read, Send, TimesOut,
       Arrives, SendsDirectly, Upgrade, ReadLatest, Sent

LEMMA FilesStayGenuine ==
  ASSUME FeedInv, FeedNext
  PROVE  FilesGenuine'
<1>0. Genuine(files) /\ files \in Pairs /\ taken \subseteq taken'
  BY TakenGrows DEF FeedInv, FilesGenuine, Typed, FeedTypeOK
<1>1. CASE Collect
  <2>1. files' = [files EXCEPT !.latest = now] /\ taken' = taken \cup {now}
    BY <1>1 DEF Collect
  <2>2. files'.latest = now /\ files'.history = files.history
    BY <1>0, <2>1 DEF Pairs
  <2> QED
    BY <1>0, <2>1, <2>2 DEF FilesGenuine, Genuine
<1>2. CASE WriteHistory
  <2>1. files.latest \in taken /\ taken' = taken
    BY <1>2 DEF WriteHistory, FeedInv, Typed, FeedTypeOK
  <2>2. PICK h : h = Pruned(files.history \cup {files.latest})
    OBVIOUS
  <2>3. files' = [files EXCEPT !.history = h]
    BY <1>2, <2>2 DEF WriteHistory
  <2>4. files'.latest = files.latest /\ files'.history = h
    BY <1>0, <2>3 DEF Pairs
  <2>5. h \subseteq taken
    BY <1>0, <2>1, <2>2 DEF Pruned, Genuine
  <2> QED
    BY <2>1, <2>4, <2>5 DEF FilesGenuine, Genuine
<1>3. CASE UNCHANGED files
  BY <1>0, <1>3 DEF FilesGenuine, Genuine
<1> QED
  BY <1>1, <1>2, <1>3 DEF FeedNext, Tick, CollectorStops, Begin, Read, Send, TimesOut,
     Arrives, SendsDirectly, Upgrade, ReadLatest, Sent

LEMMA RequestIsGenuine ==
  ASSUME FeedInv, SendsLeft
  PROVE  Genuine(Request.pair) /\ Request \in Requests
<1>1. Request.pair = client.got
  BY DEF SendsLeft, Request, PutOf, CommitOf
<1> QED
  BY <1>1, RequestTyped DEF FeedInv, ClientGenuine

LEMMA DirectIsGenuine ==
  ASSUME FeedInv, NEW n \in Names
  PROVE  Genuine(DirectOf(n, files).pair) /\ DirectOf(n, files) \in Requests
<1>1. DirectOf(n, files).pair = files
  BY DEF DirectOf
<1> QED
  BY <1>1, DirectTyped DEF FeedInv, FilesGenuine

LEMMA ClientStaysGenuine ==
  ASSUME FeedInv, FeedNext
  PROVE  ClientGenuine'
<1>0. /\ Genuine(client.got) /\ Genuine(files) /\ client \in Clients /\ files \in Pairs
      /\ client.got \in Pairs
      /\ taken \subseteq taken' /\ \A r \in late : Genuine(r.pair)
  BY TakenGrows DEF FeedInv, FilesGenuine, ClientGenuine, Typed, FeedTypeOK, Clients
<1>1. \A r \in late' : Genuine(r.pair)
  <2>1. CASE TimesOut
    BY <1>0, <2>1, RequestIsGenuine DEF TimesOut
  <2>2. CASE SendsDirectly
    BY <1>0, <2>2, DirectIsGenuine DEF SendsDirectly
  <2>3. CASE late' \subseteq late
    BY <1>0, <2>3
  <2> QED
    BY <2>1, <2>2, <2>3 DEF FeedNext, Tick, Collect, WriteHistory, CollectorStops, Begin,
       Read, Send, Arrives, Upgrade, ReadLatest, Sent
<1>2. Resting(client).got = NoPair
  BY <1>0 DEF Resting, Clients
<1>3. Genuine(client'.got)
  <2>1. CASE Read
    <3>1. PICK name : name = FileOf(Head(client.todo))
      OBVIOUS
    <3>2. name \in {"latest", "history"}
      BY <3>1 DEF FileOf
    <3>3. \/ client' = Resting(client)
          \/ client' = [client EXCEPT !.got[name] = files[name], !.todo = Tail(@)]
      BY <2>1, <3>1 DEF Read
    <3>4. CASE client' = Resting(client)
      BY <1>2, <3>4, NothingGenuine
    <3>5. CASE client' = [client EXCEPT !.got[name] = files[name], !.todo = Tail(@)]
      <4>1. client'.got = [client.got EXCEPT ![name] = files[name]]
        BY <1>0, <3>5 DEF Clients
      <4>2. \/ client'.got.latest = files.latest /\ client'.got.history = client.got.history
            \/ client'.got.latest = client.got.latest /\ client'.got.history = files.history
        BY <1>0, <3>2, <4>1 DEF Pairs
      <4> QED
        BY <1>0, <4>2 DEF Genuine
    <3> QED
      BY <3>3, <3>4, <3>5
  <2>2. CASE client' = Resting(client)
    BY <1>2, <2>2, NothingGenuine
  <2>3. CASE Begin
    <3>1. PICK todo : client' = [client EXCEPT !.started = now, !.todo = todo]
      BY <2>3 DEF Begin
    <3>2. client'.got = client.got
      BY <1>0, <3>1 DEF Clients
    <3> QED
      BY <1>0, <3>2
  <2>4. CASE client' = [client EXCEPT !.todo = Tail(@)] \/ client' = [client EXCEPT !.version = "new"]
    <3>1. client'.got = client.got
      BY <1>0, <2>4 DEF Clients
    <3> QED
      BY <1>0, <3>1
  <2>5. CASE UNCHANGED client
    BY <1>0, <2>5
  <2> QED
    BY <2>1, <2>2, <2>3, <2>4, <2>5 DEF FeedNext, Tick, Collect, WriteHistory, CollectorStops,
       Send, TimesOut, Arrives, SendsDirectly, Upgrade, ReadLatest, Sent
<1> QED
  BY <1>0, <1>1, <1>3 DEF ClientGenuine, Genuine

\* What a request leaves in the tables was taken.
LEMMA HandleGenuine ==
  ASSUME FeedInv, NEW r \in Requests, Genuine(r.pair), Handle(r)
  PROVE  /\ Genuine(store'.pair) /\ Genuine(store'.rows) /\ \A m \in store'.stage : Genuine(m.pair)
         /\ store'.pair # NoPair => Agree(store'.pair)
         /\ IsFiniteSet(PairsOf(store'.stage)) /\ Cardinality(PairsOf(store'.stage)) <= 2
<1>0. /\ store \in Stores /\ store.rows \in Pairs /\ r.pair \in Pairs
      /\ Genuine(store.pair) /\ Genuine(store.rows) /\ \A m \in store.stage : Genuine(m.pair)
      /\ store.pair # NoPair => Agree(store.pair)
      /\ IsFiniteSet(PairsOf(store.stage)) /\ Cardinality(PairsOf(store.stage)) <= 2
  BY DEF FeedInv, TablesGenuine, Typed, FeedTypeOK, Stores, Requests
<1>1. CASE store' = store
  BY <1>0, <1>1
<1>2. CASE r.kind = "put" /\ Accepts(r)
  <2>1. store' = AfterPut(r) /\ HasRoom(r)
    BY <1>2 DEF Handle, Handled, Accepts
  <2>2. PICK new : new = [pair |-> r.pair, name |-> r.name, at |-> now]
    OBVIOUS
  <2>3. PICK stage : stage = {m \in Unexpired : ~(m.pair = r.pair /\ m.name = r.name)} \cup {new}
    OBVIOUS
  <2>4. store' = [store EXCEPT !.stage = stage]
    BY <2>1, <2>2, <2>3 DEF AfterPut
  <2>5. store'.stage = stage /\ store'.pair = store.pair /\ store'.rows = store.rows
    BY <1>0, <2>4 DEF Stores
  <2>6. new.pair = r.pair
    BY <2>2
  <2>7. \A m \in stage : Genuine(m.pair)
    BY <1>0, <2>3, <2>6 DEF Unexpired
  <2>8. PICK P : P = PairsOf(Unexpired)
    OBVIOUS
  <2>9. P \subseteq PairsOf(store.stage)
    BY <2>8 DEF PairsOf, Unexpired
  <2>10. IsFiniteSet(P) /\ Cardinality(P) <= Cardinality(PairsOf(store.stage))
    BY <1>0, <2>9, FS_Subset
  <2>11. Cardinality(P) \in Nat /\ Cardinality(PairsOf(store.stage)) \in Nat
    BY <1>0, <2>10, FS_CardinalityType
  <2>12. PairsOf(stage) \subseteq P \cup {r.pair}
    BY <2>3, <2>6, <2>8 DEF PairsOf
  <2>13. IsFiniteSet(P \cup {r.pair}) /\ Cardinality(P \cup {r.pair}) <= 2
    <3>1. CASE r.pair \in P
      <4>1. P \cup {r.pair} = P
        BY <3>1
      <4>2. Cardinality(P) <= 2
        BY <1>0, <2>10, <2>11
      <4> QED
        BY <2>10, <4>1, <4>2
    <3>2. CASE r.pair \notin P
      <4>1. Cardinality(P) < 2
        BY <2>1, <2>8, <3>2 DEF HasRoom
      <4>2. IsFiniteSet(P \cup {r.pair}) /\ Cardinality(P \cup {r.pair}) = Cardinality(P) + 1
        BY <2>10, <3>2, FS_AddElement
      <4> QED
        BY <2>11, <4>1, <4>2
    <3> QED
      BY <3>1, <3>2
  <2>14. IsFiniteSet(PairsOf(stage)) /\ Cardinality(PairsOf(stage)) <= Cardinality(P \cup {r.pair})
    BY <2>12, <2>13, FS_Subset
  <2>15. Cardinality(PairsOf(stage)) \in Nat /\ Cardinality(P \cup {r.pair}) \in Nat
    BY <2>13, <2>14, FS_CardinalityType
  <2>16. Cardinality(PairsOf(stage)) <= 2
    BY <2>13, <2>14, <2>15
  <2> QED
    BY <1>0, <2>5, <2>7, <2>14, <2>16
<1>3. CASE r.kind = "commit" /\ Accepts(r) /\ store' = AfterCommit(r) /\ store.pair # r.pair
  <2>1. /\ store'.stage = {m \in store.stage : m.pair # r.pair}
        /\ store'.pair = r.pair /\ store'.rows = r.pair
    BY <1>3 DEF AfterCommit
  <2>2. Agree(r.pair)
    BY <1>3 DEF Accepts
  <2>3. PairsOf(store'.stage) \subseteq PairsOf(store.stage)
    BY <2>1 DEF PairsOf
  <2>4. /\ IsFiniteSet(PairsOf(store'.stage))
        /\ Cardinality(PairsOf(store'.stage)) <= Cardinality(PairsOf(store.stage))
    BY <1>0, <2>3, FS_Subset
  <2>5. /\ Cardinality(PairsOf(store'.stage)) \in Nat
        /\ Cardinality(PairsOf(store.stage)) \in Nat
    BY <1>0, <2>4, FS_CardinalityType
  <2>6. Cardinality(PairsOf(store'.stage)) <= 2
    BY <1>0, <2>4, <2>5
  <2> QED
    BY <1>0, <2>1, <2>2, <2>4, <2>6
<1>4. CASE r.kind = "direct" /\ store' = [store EXCEPT !.rows[r.name] = r.pair[r.name]]
  <2>1. PICK rows : rows = [store.rows EXCEPT ![r.name] = r.pair[r.name]]
    OBVIOUS
  <2>2. store' = [store EXCEPT !.rows = rows]
    BY <1>4, <2>1
  <2>3. store'.stage = store.stage /\ store'.pair = store.pair /\ store'.rows = rows
    BY <1>0, <2>2 DEF Stores
  <2>4. r.name \in {"latest", "history"}
    BY <1>4 DEF Requests, Names
  <2>5. \/ rows.latest = r.pair.latest /\ rows.history = store.rows.history
        \/ rows.latest = store.rows.latest /\ rows.history = r.pair.history
    BY <1>0, <2>1, <2>4 DEF Pairs
  <2>6. Genuine(rows)
    BY <1>0, <2>5 DEF Genuine
  <2> QED
    BY <1>0, <2>3, <2>6
<1> QED
  BY <1>1, <1>2, <1>3, <1>4 DEF Handle, Handled, Requests

LEMMA TablesStayGenuine ==
  ASSUME FeedInv, FeedNext
  PROVE  TablesGenuine'
<1>1. \/ UNCHANGED store
      \/ \E r \in Requests : Genuine(r.pair) /\ Handle(r)
  <2>1. CASE Send
    BY <2>1, RequestIsGenuine DEF Send
  <2>2. CASE TimesOut
    BY <2>2, RequestIsGenuine DEF TimesOut
  <2>3. CASE Arrives
    BY <2>3 DEF Arrives, FeedInv, ClientGenuine, Typed
  <2>4. CASE SendsDirectly
    BY <2>4, DirectIsGenuine DEF SendsDirectly
  <2> QED
    BY <2>1, <2>2, <2>3, <2>4 DEF FeedNext, Tick, Collect, WriteHistory,
       CollectorStops, Begin, Read, Upgrade, ReadLatest, Sent
<1>2. /\ Genuine(store'.pair) /\ Genuine(store'.rows) /\ \A m \in store'.stage : Genuine(m.pair)
      /\ store'.pair # NoPair => Agree(store'.pair)
      /\ IsFiniteSet(PairsOf(store'.stage)) /\ Cardinality(PairsOf(store'.stage)) <= 2
  BY <1>1, HandleGenuine DEF FeedInv, TablesGenuine
<1> QED
  BY <1>2, TakenGrows DEF TablesGenuine, Genuine

LEMMA ReadingStaysGenuine ==
  ASSUME FeedInv, FeedNext
  PROVE  ReadingGenuine'
<1>0. /\ ReadingGenuine /\ taken \subseteq taken' /\ files \in Pairs /\ Genuine(files)
      /\ now \in Nat
  BY TakenGrows, MinuteIs DEF FeedInv, FilesGenuine, Typed, FeedTypeOK
<1>1. CASE ReadLatest
  <2>1. reading'.at = now /\ reading'.latest = files.latest
    BY <1>1 DEF ReadLatest
  <2> QED
    BY <1>0, <2>1 DEF ReadingGenuine, Pairs, Genuine
<1>2. CASE Sent
  <2>1. reading'.at = 0 /\ reading'.latest = NoSample
    BY <1>2 DEF Sent, NoReading
  <2> QED
    BY <2>1, FeedConstants DEF ReadingGenuine, NoSample
<1>3. CASE UNCHANGED reading
  BY <1>0, <1>3 DEF ReadingGenuine
<1> QED
  BY <1>1, <1>2, <1>3 DEF FeedNext, Tick, Collect, WriteHistory, CollectorStops, Begin, Read,
     Send, TimesOut, Arrives, SendsDirectly, Upgrade

LEMMA FeedInvInit == FeedInit => FeedInv
<1> SUFFICES ASSUME FeedInit PROVE FeedInv
  OBVIOUS
<1>1. files = NoPair /\ client.got = NoPair /\ late = {}
  BY DEF FeedInit
<1>2. store.stage = {} /\ store.pair = NoPair /\ store.rows = NoPair
  BY DEF FeedInit
<1>3. PairsOf(store.stage) = {}
  BY <1>2 DEF PairsOf
<1>4. IsFiniteSet(PairsOf(store.stage)) /\ Cardinality(PairsOf(store.stage)) <= 2
  <2>1. IsFiniteSet({}) /\ Cardinality({}) = 0
    BY FS_EmptySet
  <2> QED
    BY <1>3, <2>1
<1>5. reading.at = 0 /\ reading.latest = NoSample
  BY DEF FeedInit, NoReading
<1>6. ReadingGenuine
  BY <1>5, FeedConstants DEF ReadingGenuine, NoSample
<1> QED
  BY <1>1, <1>2, <1>4, <1>6, InitTyped, NothingGenuine
  DEF FeedInv, FilesGenuine, ClientGenuine, TablesGenuine

LEMMA FeedInvStep == FeedInv /\ [FeedNext]_feedVars => FeedInv'
<1> SUFFICES ASSUME FeedInv, [FeedNext]_feedVars PROVE FeedInv'
  OBVIOUS
<1>1. CASE FeedNext
  BY <1>1, StepTyped, FilesStayGenuine, ClientStaysGenuine, TablesStayGenuine, ReadingStaysGenuine
  DEF FeedInv
<1>2. CASE UNCHANGED feedVars
  <2>1. Typed'
    BY <1>2 DEF feedVars, FeedInv, Typed, FeedTypeOK
  <2>2. FilesGenuine' /\ ClientGenuine' /\ ReadingGenuine'
    <3>1. UNCHANGED <<files, client, late, reading, taken>>
      BY <1>2 DEF feedVars
    <3> QED
      BY <3>1 DEF FeedInv, FilesGenuine, ClientGenuine, ReadingGenuine, Genuine
  <2>3. store' = store /\ taken' = taken
    BY <1>2 DEF feedVars
  <2>4. TablesGenuine'
    BY <2>3 DEF FeedInv, TablesGenuine, Genuine, Agree, PairsOf
  <2> QED
    BY <2>1, <2>2, <2>4 DEF FeedInv
<1> QED
  BY <1>1, <1>2

-----------------------------------------------------------------------------
LEMMA ServedGenuine ==
  ASSUME FeedInv
  PROVE  /\ Served \in Pairs /\ Genuine(Served)
         /\ Served # NoPair => Agree(Served)
<1>1. store.pair \in Pairs /\ store.rows \in Pairs /\ NoPair \in Pairs
  BY NoPairTyped DEF FeedInv, Typed, FeedTypeOK, Stores
<1> QED
  BY <1>1, NothingGenuine DEF FeedInv, TablesGenuine, Served

\* Each view is of samples that were taken.
LEMMA ViewsAreSound ==
  ASSUME FeedInv, NEW v \in Views
  PROVE  ViewSound(v) /\ v.entries \subseteq taken
<1>0. taken \in SUBSET Minutes /\ now \in Nat /\ NoSample = 0
  BY MinuteIs DEF FeedInv, Typed, FeedTypeOK, NoSample
<1>1. CASE v = View(Served.history, Served.latest, now)
  <2>1. PICK p : p = Served
    OBVIOUS
  <2>2. p \in Pairs /\ Genuine(p)
    BY <2>1, ServedGenuine
  <2>3. /\ p.history \in SUBSET Minutes /\ p.latest \in 0..MaxTime
        /\ p.history \subseteq taken /\ (p.latest # NoSample => p.latest \in taken)
    BY <2>2 DEF Pairs, Genuine
  <2>4. v = View(p.history, p.latest, now)
    BY <1>1, <2>1
  <2> QED
    BY <1>0, <2>3, <2>4, ViewIsSound
<1>2. CASE v = View(files.history, Usable(reading.latest, reading.at), reading.at)
  <2>1. /\ files.history \in SUBSET Minutes /\ files.history \subseteq taken
    BY DEF FeedInv, FilesGenuine, Genuine, Typed, FeedTypeOK, Pairs
  <2>2. PICK latest : latest = Usable(reading.latest, reading.at)
    OBVIOUS
  <2>3. latest \in 0..MaxTime /\ (latest # NoSample => latest \in taken)
    BY <1>0, <2>2, FeedConstants DEF Usable, FeedInv, ReadingGenuine
  <2>4. reading.at \in Nat
    BY DEF FeedInv, ReadingGenuine
  <2> QED
    BY <1>0, <1>2, <2>1, <2>2, <2>3, <2>4, ViewIsSound
<1> QED
  BY <1>1, <1>2 DEF Views

LEMMA FeedInvSuffices == FeedInv => FeedHonest
<1> SUFFICES ASSUME FeedInv PROVE FeedHonest
  OBVIOUS
<1>1. CoverageHonest
  <2> SUFFICES ASSUME NEW v \in Views
               PROVE  /\ v.entries \subseteq taken /\ \A t \in v.entries : InWindow(t, v.at)
                      /\ v.entries # {} /\ GapCount(v) = 0 =>
                           \A a \in (v.at - Window)..(v.at - Gap) : taken \cap (a..(a + Gap)) # {}
    BY DEF CoverageHonest
  <2>1. ViewSound(v) /\ v.entries \subseteq taken
    BY ViewsAreSound
  <2>2. \A t \in v.entries : InWindow(t, v.at)
    BY <2>1 DEF ViewSound
  <2>3. ASSUME v.entries # {}, GapCount(v) = 0, NEW a \in (v.at - Window)..(v.at - Gap)
        PROVE  taken \cap (a..(a + Gap)) # {}
    <3>1. v.entries \cap (a..(a + Gap)) # {}
      BY <2>1, <2>3, NoGapCovers
    <3> QED
      BY <2>1, <3>1
  <2> QED
    BY <2>1, <2>2, <2>3
<1>2. StripHonest
  BY ViewsAreSound, StripIsHonest DEF StripHonest
<1>3. ServedWhole
  BY ServedGenuine DEF ServedWhole, FeedInv, Typed, TablesGenuine, Genuine
<1> QED
  BY <1>1, <1>2, <1>3 DEF FeedHonest

\* What visitors see of the samples, wherever it comes from (FeedHonest): the
\* collector's two writes, v1_snapshot, uploadCloudflareV1, normalizedHistory
\* and compressSamples, for any window, threshold, clock, number of cells and
\* of late requests.
THEOREM FeedIsHonest == FeedSpec => []FeedHonest
<1>1. FeedInit => FeedInv
  BY FeedInvInit
<1>2. FeedInv /\ [FeedNext]_feedVars => FeedInv'
  BY FeedInvStep
<1>3. FeedInv => FeedHonest
  BY FeedInvSuffices
<1> QED
  BY <1>1, <1>2, <1>3, PTL DEF FeedSpec

------------------------------------------------------------------------------
(* The projection files and a snapshot of them.  A publication writes the  *)
(* latest values first and the manifest last; the invariant says what of   *)
(* the files is new at each point between (WritingSound) and how the       *)
(* uploader's copies lie behind them (CollectingSound).                    *)

\* A file of one cycle, or none.
OneCycle(content) == content = Absent \/ \E c \in Cycles : content = {c}
\* Whatever is in the one content is no newer than something in the other.
NotNewer(content, other) == \A c \in content : \E p \in other : c <= p

NewestKnown == Days # {} => \E d \in Days : \A e \in Days : db[e] <= db[d]
DbSound ==
  /\ db \in [Days -> 0..MaxCycle] /\ NewestKnown
  /\ \A d \in Days : db[d] = 0 \/ DayOf(db[d]) = d
DirSound ==
  /\ dir \in [Files -> SUBSET Nat]
  /\ \A f \in Heads : OneCycle(dir[f]) /\ \A c \in dir[f] : c <= Latest
  /\ \A d \in Days :
       /\ OneCycle(dir[Chunk(d)]) /\ \A c \in dir[Chunk(d)] : DayOf(c) = d
       /\ NotNewer(dir[Chunk(d)], {db[d]}) /\ NotNewer(dir[Chunk(d)], dir[PublicLatest])
  /\ \A d \in dir[Manifest] : d \in Days /\ dir[Chunk(d)] # Absent
\* A publication writes the latest values first and the manifest last.
WritingSound ==
  /\ unwritten \subseteq Files
  /\ unwritten # {} => Latest \in Cycles
  /\ unwritten # {} /\ PublicLatest \notin unwritten => dir[PublicLatest] = {Latest}
  /\ \A d \in Days : Chunk(d) \in unwritten => db[d] # 0
  /\ Manifest \in unwritten =>
       \A d \in KnownDays : Chunk(d) \in unwritten \/ dir[Chunk(d)] # Absent
PublishedInv == DbSound /\ DirSound /\ WritingSound

got == uploader.got
\* A snapshot under way.  Closed days are as they will always be.
CollectingSound ==
  /\ got[Manifest] \subseteq Days
  /\ \A f \in Heads : OneCycle(got[f])
  /\ NotNewer(got[PublicLatest], dir[PublicLatest])
  /\ \A d \in Days :
       /\ OneCycle(got[Chunk(d)]) /\ \A c \in got[Chunk(d)] : DayOf(c) = d
       /\ NotNewer(got[Chunk(d)], dir[PublicLatest])
       /\ got[Chunk(d)] # Absent =>
            /\ got[PublicLatest] # Absent
            /\ \A p \in got[PublicLatest] : d < DayOf(p) => got[Chunk(d)] = dir[Chunk(d)]
UploaderInv ==
  /\ uploader \in [pc : {"idle", "read", "reread", "holds"}, todo : SUBSET Files,
                   got : [Files -> SUBSET Nat]]
  /\ uploader.pc # "idle" => CollectingSound
  /\ uploader.pc = "read" =>
       /\ Manifest \notin uploader.todo
       /\ PublicLatest \in uploader.todo => \A d \in Days : got[Chunk(d)] = Absent
       /\ \A f \in ToRead(got[Manifest]) : f \in uploader.todo \/ got[f] # Absent
  /\ uploader.pc \in {"reread", "holds"} =>
       /\ \A f \in ToRead(got[Manifest]) : got[f] # Absent
       /\ HeadsAgree /\ RollupsAgree
       /\ PublicLatest \notin uploader.todo =>
            \A d \in Days : NotNewer(got[Chunk(d)], got[PublicLatest])
  /\ uploader.pc = "holds" => uploader.todo = {}
SnapshotInv == PublishedInv /\ UploaderInv

-----------------------------------------------------------------------------
(* Names and numbers.                                                      *)

LEMMA NamesDiffer ==
  /\ Heads \subseteq Files /\ Manifest \in Files /\ Manifest \notin Heads
  /\ PublicLatest # OwnerLatest /\ PublicLatest # Hour /\ OwnerLatest # Hour
  /\ \A d \in Days : Chunk(d) \in Files /\ Chunk(d) \in Chunks
  /\ \A d : Chunk(d) \notin Heads /\ Chunk(d) # Manifest /\ Chunk(d)[2] = d
  /\ \A d, e : Chunk(d) = Chunk(e) => d = e
  /\ \A f \in Heads : f \notin Chunks
  /\ Manifest \notin Chunks
BY DEF Files, Heads, Chunks, Chunk, PublicLatest, OwnerLatest, Hour, Manifest, Single

LEMMA Quotient ==
  ASSUME NEW a \in Nat, NEW n \in Nat \ {0}
  PROVE  a \div n \in Nat /\ n * (a \div n) <= a /\ a < n * (a \div n) + n
OBVIOUS

LEMMA QuotientGrows ==
  ASSUME NEW a \in Nat, NEW b \in Nat, NEW n \in Nat \ {0}, a <= b
  PROVE  a \div n <= b \div n
<1>1. PICK p \in Nat : p = a \div n
  BY Quotient
<1>2. PICK q \in Nat : q = b \div n
  BY Quotient
<1>3. n * p <= a /\ b < n * q + n
  BY <1>1, <1>2, Quotient
<1>4. ASSUME q < p PROVE FALSE
  <2>1. PICK k \in Nat : p = q + 1 + k
    <3>1. p - q - 1 \in Nat /\ p = q + 1 + (p - q - 1)
      BY <1>4
    <3> QED
      BY <3>1
  <2>2. n * p = n * q + n + n * k
    BY <2>1
  <2>3. n * k \in Nat /\ n * q \in Nat
    OBVIOUS
  <2> QED
    BY <1>3, <2>2, <2>3
<1> QED
  BY <1>1, <1>2, <1>4

LEMMA CycleFacts ==
  /\ \A c \in Cycles : c \in Nat /\ c # 0 /\ c <= MaxCycle /\ DayOf(c) \in Days
  /\ \A a, b \in Nat : a <= b => DayOf(a) \in Nat /\ DayOf(a) <= DayOf(b)
  /\ \A d \in Days : d \in Nat /\ d <= DayOf(MaxCycle)
<1>1. \A a, b \in Nat : a <= b => DayOf(a) \in Nat /\ DayOf(a) <= DayOf(b)
  BY Quotient, QuotientGrows, ProjectionConstants DEF DayOf
<1>2. \A c \in Cycles : c \in Nat /\ c # 0 /\ c <= MaxCycle /\ DayOf(c) \in Days
  BY ProjectionConstants DEF Cycles, Days
<1>3. \A d \in Days : d \in Nat /\ d <= DayOf(MaxCycle)
  BY <1>1, <1>2, ProjectionConstants DEF Days
<1> QED
  BY <1>1, <1>2, <1>3

LEMMA LargestIs ==
  ASSUME NEW f \in [Days -> 0..MaxCycle], NEW d \in Days, \A e \in Days : f[e] <= f[d]
  PROVE  Max({f[e] : e \in Days}) = f[d]
<1>1. PICK S : S = {f[e] : e \in Days}
  OBVIOUS
<1>2. f[d] \in S /\ \A x \in S : x <= f[d] /\ x \in Int
  BY <1>1, ProjectionConstants
<1>3. Max(S) = f[d]
  BY <1>2 DEF Max
<1> QED
  BY <1>1, <1>3

LEMMA LatestBounds ==
  ASSUME DbSound, Days # {}
  PROVE  /\ Latest \in 0..MaxCycle /\ \A d \in Days : db[d] \in Nat /\ db[d] <= Latest
         /\ \E d \in Days : Latest = db[d]
<1>1. PICK d \in Days : \A e \in Days : db[e] <= db[d]
  BY DEF DbSound, NewestKnown
<1>2. Latest = db[d]
  BY <1>1, LargestIs DEF Latest, DbSound
<1> QED
  BY <1>1, <1>2, ProjectionConstants DEF DbSound

LEMMA OneOf ==
  ASSUME NEW c \in Int
  PROVE  Max({c}) = c
BY DEF Max

\* The order puts the latest values first and the manifest last.
LEMMA RankFacts ==
  /\ Rank(PublicLatest) = 0 /\ Rank(OwnerLatest) = 1 /\ Rank(Hour) = 2
  /\ Rank(Manifest) = DayOf(MaxCycle) + 4
  /\ \A d \in Days : Rank(Chunk(d)) = d + 3
BY NamesDiffer DEF Rank, Heads, Chunk

LEMMA ChunkAfterLatest ==
  ASSUME NEW d \in Days, NEW some, First(Chunk(d), some)
  PROVE  PublicLatest \notin some
BY RankFacts, CycleFacts DEF First

LEMMA ManifestIsLast ==
  ASSUME NEW some \in SUBSET Files, First(Manifest, some)
  PROVE  some = {Manifest}
<1>1. DayOf(MaxCycle) \in Nat
  BY CycleFacts, ProjectionConstants
<1>2. ASSUME NEW f \in some, f # Manifest PROVE Rank(f) < Rank(Manifest)
  <2>1. CASE f \in Heads
    BY <1>1, <2>1, RankFacts DEF Heads
  <2>2. CASE f \in Chunks
    BY <1>1, <2>2, RankFacts, CycleFacts DEF Chunks
  <2> QED
    BY <1>2, <2>1, <2>2 DEF Files
<1>3. \A f \in some : Rank(Manifest) <= Rank(f)
  BY DEF First
<1>4. \A f \in some : Rank(f) \in Int
  BY <1>1, RankFacts, CycleFacts DEF Files, Chunks, Heads
<1>5. Rank(Manifest) \in Int
  BY <1>1, RankFacts
<1>6. \A f \in some : f = Manifest
  BY <1>2, <1>3, <1>4, <1>5
<1> QED
  BY <1>6 DEF First

-----------------------------------------------------------------------------
(* The daemon.                                                             *)

LEMMA PublishedInit == FilesInit => PublishedInv
<1> SUFFICES ASSUME FilesInit PROVE PublishedInv
  OBVIOUS
<1>1. DbSound
  BY ProjectionConstants DEF FilesInit, DbSound, NewestKnown
<1>2. \A f \in Files : dir[f] = {}
  BY DEF FilesInit, NoFiles, Absent
<1>3. DirSound
  <2>1. dir \in [Files -> SUBSET Nat]
    BY DEF FilesInit, NoFiles, Absent
  <2> QED
    BY <1>2, <2>1, NamesDiffer DEF DirSound, OneCycle, NotNewer, Absent
<1>4. WritingSound
  BY DEF FilesInit, WritingSound
<1> QED
  BY <1>1, <1>3, <1>4 DEF PublishedInv

\* What no step of the daemon takes back.
Advances ==
  /\ NotNewer(dir[PublicLatest], dir'[PublicLatest])
  /\ \A d \in Days :
       /\ dir[Chunk(d)] # Absent => dir'[Chunk(d)] # Absent
       /\ NotNewer(dir[Chunk(d)], dir'[Chunk(d)])
       /\ \A p \in dir[PublicLatest] :
            d < DayOf(p) /\ dir[Chunk(d)] # Absent => dir'[Chunk(d)] = dir[Chunk(d)]

LEMMA SameAdvances ==
  ASSUME DirSound, UNCHANGED dir
  PROVE  Advances
<1>1. \A f \in Files : \A c \in dir[f] : c \in Nat
  BY DEF DirSound
<1> QED
  BY <1>1, NamesDiffer DEF Advances, NotNewer, Heads

LEMMA CommitPublishes ==
  ASSUME PublishedInv, CommitCycle
  PROVE  PublishedInv' /\ Advances
<1>1. PICK c \in Cycles : c > Latest /\ db' = [db EXCEPT ![DayOf(c)] = c]
  BY DEF CommitCycle
<1>2. /\ c \in Nat /\ c # 0 /\ c \in 0..MaxCycle /\ DayOf(c) \in Days /\ Days # {}
  BY CycleFacts, ProjectionConstants
<1>3. /\ Latest \in Nat /\ \A d \in Days : db[d] \in Nat /\ db[d] <= Latest
  BY <1>2, LatestBounds DEF PublishedInv
<1>4. db' \in [Days -> 0..MaxCycle]
  BY <1>1, <1>2 DEF PublishedInv, DbSound
<1>5. db'[DayOf(c)] = c /\ \A d \in Days : d # DayOf(c) => db'[d] = db[d]
  BY <1>1, <1>2 DEF PublishedInv, DbSound
<1>6. \A d \in Days : db[d] <= db'[d] /\ db'[d] <= db'[DayOf(c)] /\ db'[d] \in Nat
  BY <1>1, <1>2, <1>3, <1>5
<1>7. Latest' = c
  BY <1>2, <1>4, <1>5, <1>6, LargestIs DEF Latest
<1>8. DbSound'
  BY <1>2, <1>4, <1>5, <1>6 DEF DbSound, NewestKnown, PublishedInv
<1>9. dir' = dir /\ unwritten' = Heads \cup ChunksOf(KnownDays') \cup {Manifest}
  BY DEF CommitCycle
<1>10. DirSound'
  <2>1. \A f \in Heads : OneCycle(dir'[f]) /\ \A e \in dir'[f] : e <= Latest'
    <3>1. \A f \in Heads : \A e \in dir[f] : e \in Nat /\ e <= Latest
      BY NamesDiffer DEF PublishedInv, DirSound
    <3> QED
      BY <1>1, <1>2, <1>3, <1>7, <1>9, <3>1 DEF PublishedInv, DirSound
  <2>2. \A d \in Days : NotNewer(dir'[Chunk(d)], {db'[d]})
    <3>1. \A d \in Days : \A e \in dir[Chunk(d)] : e \in Nat /\ e <= db[d]
      BY NamesDiffer DEF PublishedInv, DirSound, NotNewer
    <3> QED
      BY <1>3, <1>6, <1>9, <3>1 DEF NotNewer
  <2> QED
    BY <1>9, <2>1, <2>2 DEF PublishedInv, DirSound
<1>11. WritingSound'
  <2>1. ChunksOf(KnownDays') \subseteq Files
    BY NamesDiffer DEF ChunksOf, KnownDays
  <2>2. unwritten' \subseteq Files /\ PublicLatest \in unwritten'
    BY <1>9, <2>1, NamesDiffer DEF Heads
  <2>3. \A d \in Days : Chunk(d) \in unwritten' => db'[d] # 0
    BY <1>9, NamesDiffer DEF ChunksOf, KnownDays
  <2>4. \A d \in KnownDays' : Chunk(d) \in unwritten'
    BY <1>9 DEF ChunksOf
  <2> QED
    BY <1>7, <2>2, <2>3, <2>4 DEF WritingSound
<1> QED
  BY <1>8, <1>9, <1>10, <1>11, SameAdvances DEF PublishedInv

LEMMA StopPublishes ==
  ASSUME PublishedInv, PublicationStops
  PROVE  PublishedInv' /\ Advances
<1>1. db' = db /\ dir' = dir /\ unwritten' = {}
  BY DEF PublicationStops
<1>2. DbSound' /\ DirSound'
  BY <1>1 DEF PublishedInv, DbSound, NewestKnown, DirSound, Latest
<1>3. WritingSound'
  BY <1>1 DEF WritingSound
<1> QED
  BY <1>1, <1>2, <1>3, SameAdvances DEF PublishedInv

LEMMA WritePublishes ==
  ASSUME PublishedInv, WriteFile
  PROVE  PublishedInv' /\ Advances
<1>1. PICK f \in unwritten :
        /\ First(f, unwritten) /\ unwritten' = unwritten \ {f}
        /\ dir' = IF Sealed(f) THEN dir ELSE [dir EXCEPT ![f] = Content(f)]
  BY DEF WriteFile
<1>2. db' = db /\ Latest' = Latest /\ KnownDays' = KnownDays
  BY DEF WriteFile, Latest, KnownDays
<1>3. f \in Files /\ Latest \in Cycles /\ Latest \in Nat /\ Days # {}
  BY <1>1, CycleFacts DEF PublishedInv, WritingSound
<1>4. \A d \in Days : db[d] \in Nat /\ db[d] <= Latest
  BY <1>3, LatestBounds DEF PublishedInv
<1>5. DbSound'
  BY <1>2 DEF PublishedInv, DbSound, NewestKnown
<1>6. /\ \A g \in Files : dir[g] \in SUBSET Nat
      /\ \A g \in Heads : g \in Files /\ \A c \in dir[g] : c \in Nat /\ c <= Latest
  BY NamesDiffer DEF PublishedInv, DirSound
<1>7. \A d \in Days : \A c \in dir[Chunk(d)] :
        c \in Nat /\ c <= db[d] /\ DayOf(c) = d /\ \E p \in dir[PublicLatest] : c <= p
  BY <1>6, NamesDiffer DEF PublishedInv, DirSound, NotNewer
<1>8. CASE Sealed(f)
  <2>1. dir' = dir /\ f \in Chunks /\ dir[f] # Absent
    BY <1>1, <1>8 DEF Sealed
  <2>2. DirSound'
    BY <1>2, <2>1 DEF PublishedInv, DirSound
  <2>3. WritingSound'
    BY <1>1, <1>2, <2>1, NamesDiffer DEF PublishedInv, WritingSound, KnownDays, Heads
  <2> QED
    BY <1>5, <2>1, <2>2, <2>3, SameAdvances DEF PublishedInv
<1>9. CASE ~Sealed(f) /\ f \in Heads
  <2>1. dir' = [dir EXCEPT ![f] = {Latest}]
    BY <1>1, <1>9, NamesDiffer DEF Content
  <2>2. dir'[f] = {Latest} /\ \A g \in Files : g # f => dir'[g] = dir[g]
    BY <1>3, <2>1 DEF PublishedInv, DirSound
  <2>3. dir' \in [Files -> SUBSET Nat]
    BY <1>3, <2>1 DEF PublishedInv, DirSound
  <2>4. \A d \in Days : dir'[Chunk(d)] = dir[Chunk(d)]
    BY <1>9, <2>2, NamesDiffer
  <2>5. dir'[Manifest] = dir[Manifest]
    BY <1>9, <2>2, NamesDiffer
  <2>6. \A g \in Heads : OneCycle(dir'[g]) /\ \A c \in dir'[g] : c <= Latest
    BY <1>3, <1>6, <2>2 DEF PublishedInv, DirSound, OneCycle
  <2>7. NotNewer(dir[PublicLatest], dir'[PublicLatest])
    BY <1>3, <1>6, <2>2 DEF NotNewer, Heads
  <2>8. \A d \in Days : NotNewer(dir'[Chunk(d)], dir'[PublicLatest])
    <3> SUFFICES ASSUME NEW d \in Days, NEW c \in dir[Chunk(d)]
                 PROVE  \E p \in dir'[PublicLatest] : c <= p
      BY <2>4 DEF NotNewer
    <3>1. PICK p \in dir[PublicLatest] : c <= p
      BY <1>7
    <3>2. PICK q \in dir'[PublicLatest] : p <= q
      BY <2>7 DEF NotNewer
    <3>3. c \in Nat /\ p \in Nat /\ q \in Nat
      BY <1>6, <1>7, <2>3, NamesDiffer DEF Heads
    <3> QED
      BY <3>1, <3>2, <3>3
  <2>9. DirSound'
    BY <1>2, <2>3, <2>4, <2>5, <2>6, <2>8 DEF PublishedInv, DirSound
  <2>10. WritingSound'
    BY <1>1, <1>2, <1>3, <1>9, <2>2, <2>4, NamesDiffer
    DEF PublishedInv, WritingSound, KnownDays, Heads
  <2>11. \A d \in Days : NotNewer(dir[Chunk(d)], dir'[Chunk(d)])
    BY <1>7, <2>4 DEF NotNewer
  <2>12. Advances
    BY <2>4, <2>7, <2>11 DEF Advances
  <2> QED
    BY <1>5, <2>9, <2>10, <2>12 DEF PublishedInv
<1>10. CASE f = Manifest
  <2>1. unwritten = {Manifest}
    BY <1>1, <1>10, ManifestIsLast DEF PublishedInv, WritingSound
  <2>2. dir' = [dir EXCEPT ![f] = KnownDays]
    BY <1>1, <1>10, NamesDiffer DEF Content, Sealed
  <2>3. KnownDays \in SUBSET Nat /\ KnownDays \subseteq Days
    BY CycleFacts DEF KnownDays
  <2>4. dir' \in [Files -> SUBSET Nat]
    BY <1>3, <2>2, <2>3 DEF PublishedInv, DirSound
  <2>5. dir'[Manifest] = KnownDays /\ \A g \in Files : g # Manifest => dir'[g] = dir[g]
    BY <1>10, <2>2, NamesDiffer DEF PublishedInv, DirSound
  <2>6. /\ \A d \in Days : dir'[Chunk(d)] = dir[Chunk(d)]
        /\ \A g \in Heads : dir'[g] = dir[g]
    BY <2>5, NamesDiffer
  <2>7. \A d \in KnownDays : dir[Chunk(d)] # Absent
    BY <2>1, NamesDiffer DEF PublishedInv, WritingSound
  <2>8. dir'[PublicLatest] = dir[PublicLatest]
    BY <2>6 DEF Heads
  <2>9. DirSound'
    BY <1>2, <2>3, <2>4, <2>5, <2>6, <2>7, <2>8 DEF PublishedInv, DirSound
  <2>10. WritingSound'
    BY <1>1, <1>10, <2>1 DEF WritingSound
  <2>11. Advances
    BY <1>6, <1>7, <2>6, <2>8 DEF Advances, NotNewer, Heads
  <2> QED
    BY <1>5, <2>9, <2>10, <2>11 DEF PublishedInv
<1>11. CASE ~Sealed(f) /\ f \in Chunks
  <2>1. PICK d \in Days : f = Chunk(d)
    BY <1>11 DEF Chunks
  <2>2. dir' = [dir EXCEPT ![f] = {db[d]}]
    BY <1>1, <1>11, <2>1, NamesDiffer DEF Content
  <2>3. db[d] # 0 /\ db[d] \in Nat /\ db[d] <= Latest /\ DayOf(db[d]) = d /\ db[d] \in Cycles
    BY <1>1, <1>4, <2>1 DEF PublishedInv, WritingSound, DbSound, Cycles
  <2>4. dir' \in [Files -> SUBSET Nat]
    BY <1>3, <2>2, <2>3 DEF PublishedInv, DirSound
  <2>5. dir'[Chunk(d)] = {db[d]} /\ \A g \in Files : g # Chunk(d) => dir'[g] = dir[g]
    BY <1>3, <2>1, <2>2 DEF PublishedInv, DirSound
  <2>6. /\ \A e \in Days : e # d => dir'[Chunk(e)] = dir[Chunk(e)]
        /\ \A g \in Heads : dir'[g] = dir[g]
        /\ dir'[Manifest] = dir[Manifest]
    BY <2>5, NamesDiffer
  <2>7. dir[PublicLatest] = {Latest} /\ dir'[PublicLatest] = {Latest}
    BY <1>1, <2>1, <2>6, ChunkAfterLatest DEF PublishedInv, WritingSound, Heads
  <2>8. \A e \in Days : /\ OneCycle(dir'[Chunk(e)])
                        /\ \A c \in dir'[Chunk(e)] : DayOf(c) = e
                        /\ NotNewer(dir'[Chunk(e)], {db[e]})
                        /\ NotNewer(dir'[Chunk(e)], dir'[PublicLatest])
    <3> SUFFICES ASSUME NEW e \in Days
                 PROVE  /\ OneCycle(dir'[Chunk(e)])
                        /\ \A c \in dir'[Chunk(e)] : DayOf(c) = e
                        /\ NotNewer(dir'[Chunk(e)], {db[e]})
                        /\ NotNewer(dir'[Chunk(e)], dir'[PublicLatest])
      OBVIOUS
    <3>1. CASE e = d
      BY <2>3, <2>5, <2>7, <3>1 DEF OneCycle, NotNewer
    <3>2. CASE e # d
      BY <2>6, <2>7, <3>2 DEF PublishedInv, DirSound
    <3> QED
      BY <3>1, <3>2
  <2>9. \A e \in dir'[Manifest] : e \in Days /\ dir'[Chunk(e)] # Absent
    BY <2>5, <2>6 DEF PublishedInv, DirSound, Absent
  <2>10. DirSound'
    BY <1>2, <2>4, <2>6, <2>8, <2>9 DEF PublishedInv, DirSound
  <2>11. WritingSound'
    BY <1>1, <1>2, <1>3, <2>1, <2>5, <2>6, <2>7, NamesDiffer
    DEF PublishedInv, WritingSound, KnownDays, Heads, Absent
  <2>12. Advances
    <3>1. NotNewer(dir[PublicLatest], dir'[PublicLatest])
      BY <1>3, <2>7 DEF NotNewer
    <3>2. ASSUME NEW e \in Days
          PROVE  /\ dir[Chunk(e)] # Absent => dir'[Chunk(e)] # Absent
                 /\ NotNewer(dir[Chunk(e)], dir'[Chunk(e)])
                 /\ \A p \in dir[PublicLatest] :
                      e < DayOf(p) /\ dir[Chunk(e)] # Absent => dir'[Chunk(e)] = dir[Chunk(e)]
      <4>1. CASE e # d
        BY <1>7, <2>6, <4>1 DEF NotNewer
      <4>2. CASE e = d
        <5>1. dir[Chunk(d)] = Absent \/ ~(d < DayOf(Latest))
          BY <1>11, <2>1, NamesDiffer DEF Sealed
        <5>2. NotNewer(dir[Chunk(d)], dir'[Chunk(d)]) /\ dir'[Chunk(d)] # Absent
          BY <1>7, <2>5 DEF NotNewer, Absent
        <5> QED
          BY <2>7, <4>2, <5>1, <5>2
      <4> QED
        BY <4>1, <4>2
    <3> QED
      BY <3>1, <3>2 DEF Advances
  <2> QED
    BY <1>5, <2>10, <2>11, <2>12 DEF PublishedInv
<1> QED
  BY <1>3, <1>8, <1>9, <1>10, <1>11 DEF Files

-----------------------------------------------------------------------------
(* The uploader.                                                           *)

LEMMA NumbersIn ==
  ASSUME PublishedInv
  PROVE  /\ \A d \in Days : \A c \in dir[Chunk(d)] : c \in Nat
         /\ \A p \in dir[PublicLatest] : p \in Nat
BY NamesDiffer DEF PublishedInv, DirSound, Heads

\* What is being collected stays true while the daemon goes on.
LEMMA CollectingKept ==
  ASSUME PublishedInv, PublishedInv', Advances, UNCHANGED uploader,
         uploader.got \in [Files -> SUBSET Nat], CollectingSound
  PROVE  CollectingSound'
<1>1. /\ \A p \in dir[PublicLatest] : p \in Nat
      /\ \A p \in dir'[PublicLatest] : p \in Nat
      /\ \A p \in got[PublicLatest] : p \in Nat
      /\ \A d \in Days : \A c \in got[Chunk(d)] : c \in Nat
  BY NumbersIn, NamesDiffer DEF got, PublishedInv, DirSound, Heads
<1>2. got' = got
  BY DEF got
<1>3. ASSUME NEW c \in Nat, NEW p \in dir[PublicLatest], c <= p
      PROVE  \E q \in dir'[PublicLatest] : c <= q
  <2>1. PICK q \in dir'[PublicLatest] : p <= q
    BY DEF Advances, NotNewer
  <2> QED
    BY <1>1, <1>3, <2>1
<1>4. NotNewer(got[PublicLatest], dir'[PublicLatest])
  BY <1>1, <1>3 DEF CollectingSound, NotNewer
<1>5. \A d \in Days : NotNewer(got[Chunk(d)], dir'[PublicLatest])
  BY <1>1, <1>3 DEF CollectingSound, NotNewer
<1>6. ASSUME NEW d \in Days, got[Chunk(d)] # Absent, NEW p \in got[PublicLatest], d < DayOf(p)
      PROVE  got[Chunk(d)] = dir'[Chunk(d)]
  <2>1. got[Chunk(d)] = dir[Chunk(d)]
    BY <1>6 DEF CollectingSound
  <2>2. PICK q \in dir[PublicLatest] : p <= q
    BY DEF CollectingSound, NotNewer
  <2>3. d < DayOf(q)
    <3>1. DayOf(p) <= DayOf(q) /\ DayOf(p) \in Nat /\ DayOf(q) \in Nat /\ d \in Nat
      BY <1>1, <2>2, CycleFacts
    <3> QED
      BY <1>6, <3>1
  <2> QED
    BY <1>6, <2>1, <2>3 DEF Advances
<1> QED
  BY <1>2, <1>4, <1>5, <1>6 DEF CollectingSound

LEMMA UploaderUndisturbed ==
  ASSUME PublishedInv, PublishedInv', Advances, UNCHANGED uploader, UploaderInv
  PROVE  UploaderInv'
<1>1. got' = got /\ Collected' = Collected /\ (HeadsAgree => HeadsAgree') /\ (RollupsAgree => RollupsAgree')
  BY DEF got, Collected, Got, HeadsAgree, RollupsAgree
<1>2. uploader.pc # "idle" => CollectingSound'
  BY CollectingKept DEF UploaderInv
<1> QED
  BY <1>1, <1>2 DEF UploaderInv

LEMMA RestingSound ==
  ASSUME uploader' = NotReading
  PROVE  UploaderInv'
<1>1. NoFiles \in [Files -> SUBSET Nat]
  BY DEF NoFiles, Absent
<1>2. uploader'.pc = "idle"
  BY DEF NotReading
<1>3. uploader' \in [pc : {"idle", "read", "reread", "holds"}, todo : SUBSET Files,
                     got : [Files -> SUBSET Nat]]
  BY <1>1 DEF NotReading
<1> QED
  BY <1>2, <1>3 DEF UploaderInv

LEMMA OpensKeeps ==
  ASSUME PublishedInv, UploaderInv, OpensManifest
  PROVE  UploaderInv'
<1>1. PICK g : g = [NoFiles EXCEPT ![Manifest] = dir[Manifest]]
  OBVIOUS
<1>2. uploader' = [pc |-> "read", todo |-> ToRead(dir[Manifest]), got |-> g] /\ dir' = dir
  BY <1>1 DEF OpensManifest
<1>3. dir[Manifest] \subseteq Days /\ dir[Manifest] \in SUBSET Nat
  BY NamesDiffer DEF PublishedInv, DirSound
<1>4. g \in [Files -> SUBSET Nat]
  BY <1>1, <1>3 DEF NoFiles, Absent
<1>5. g[Manifest] = dir[Manifest] /\ \A f \in Files : f # Manifest => g[f] = Absent
  BY <1>1, NamesDiffer DEF NoFiles
<1>6. /\ \A f \in Heads : g[f] = Absent
      /\ \A d \in Days : g[Chunk(d)] = Absent
  BY <1>5, NamesDiffer
<1>7. got' = g /\ uploader'.pc = "read" /\ uploader'.todo = ToRead(dir[Manifest])
  BY <1>2 DEF got
<1>8. ToRead(dir[Manifest]) \in SUBSET Files
  BY <1>3, NamesDiffer DEF ToRead, ChunksOf
<1>9. CollectingSound'
  BY <1>3, <1>5, <1>6, <1>7 DEF CollectingSound, OneCycle, NotNewer, Absent, Heads
<1>10. uploader' \in [pc : {"idle", "read", "reread", "holds"}, todo : SUBSET Files,
                      got : [Files -> SUBSET Nat]]
  BY <1>2, <1>4, <1>8
<1>11. Manifest \notin ToRead(dir[Manifest])
  BY NamesDiffer DEF ToRead, ChunksOf
<1> QED
  BY <1>5, <1>6, <1>7, <1>9, <1>10, <1>11 DEF UploaderInv

LEMMA ReadKeeps ==
  ASSUME PublishedInv, UploaderInv, ReadFile
  PROVE  UploaderInv'
<1>1. uploader.pc = "read" /\ dir' = dir
  BY DEF ReadFile
<1>2. PICK f \in uploader.todo :
        /\ First(f, uploader.todo)
        /\ uploader' = IF dir[f] = Absent THEN NotReading
                       ELSE [uploader EXCEPT !.got[f] = dir[f], !.todo = @ \ {f}]
  BY DEF ReadFile
<1>3. CASE dir[f] = Absent
  BY <1>2, <1>3, RestingSound
<1>4. CASE dir[f] # Absent
  <2>1. f \in Files /\ got \in [Files -> SUBSET Nat] /\ uploader.todo \in SUBSET Files
    BY DEF UploaderInv, got
  <2>2. PICK g : g = [got EXCEPT ![f] = dir[f]]
    OBVIOUS
  <2>3. uploader' = [uploader EXCEPT !.got = g, !.todo = @ \ {f}]
    BY <1>2, <1>4, <2>2 DEF got
  <2>4. got' = g /\ uploader'.pc = "read" /\ uploader'.todo = uploader.todo \ {f}
    BY <1>1, <2>3 DEF UploaderInv, got
  <2>5. g \in [Files -> SUBSET Nat]
    BY <2>1, <2>2 DEF PublishedInv, DirSound
  <2>6. g[f] = dir[f] /\ \A h \in Files : h # f => g[h] = got[h]
    BY <2>1, <2>2
  <2>7. uploader' \in [pc : {"idle", "read", "reread", "holds"}, todo : SUBSET Files,
                       got : [Files -> SUBSET Nat]]
    BY <2>1, <2>3, <2>5 DEF UploaderInv
  <2>8. CollectingSound
    BY <1>1 DEF UploaderInv
  <2>9. \A p \in dir[PublicLatest] : p \in Nat
    BY NumbersIn
  <2>10. f # Manifest /\ (f \in Heads \/ \E d \in Days : f = Chunk(d))
    BY <1>1, <2>1 DEF Files, Chunks, UploaderInv
  <2>11. PublicLatest \notin uploader.todo => got[PublicLatest] # Absent
    BY <1>1 DEF UploaderInv, ToRead, Heads
  <2>12. CollectingSound'
    <3>1. CASE f \in Heads
      <4>1. \A d \in Days : g[Chunk(d)] = got[Chunk(d)]
        BY <2>6, <3>1, NamesDiffer
      <4>2. g[Manifest] = got[Manifest]
        BY <2>6, <3>1, NamesDiffer
      <4>3. \A h \in Heads : OneCycle(g[h])
        BY <2>6, <2>8, NamesDiffer DEF CollectingSound, PublishedInv, DirSound
      <4>4. NotNewer(g[PublicLatest], dir[PublicLatest])
        <5>1. CASE f = PublicLatest
          BY <2>6, <2>9, <5>1 DEF NotNewer
        <5>2. CASE f # PublicLatest
          BY <2>6, <2>8, <5>2, NamesDiffer DEF CollectingSound, Heads
        <5> QED
          BY <5>1, <5>2
      <4>5. ASSUME NEW d \in Days, got[Chunk(d)] # Absent
            PROVE  /\ g[PublicLatest] # Absent
                   /\ \A p \in g[PublicLatest] : d < DayOf(p) => got[Chunk(d)] = dir[Chunk(d)]
        <5>1. CASE f # PublicLatest
          BY <2>6, <2>8, <4>5, <5>1, NamesDiffer DEF CollectingSound, Heads
        <5>2. CASE f = PublicLatest
          BY <1>1, <4>5, <5>2 DEF UploaderInv
        <5> QED
          BY <5>1, <5>2
      <4> QED
        BY <1>1, <2>4, <2>8, <4>1, <4>2, <4>3, <4>4, <4>5 DEF CollectingSound
    <3>2. ASSUME NEW e \in Days, f = Chunk(e) PROVE CollectingSound'
      <4>1. \A h \in Heads : g[h] = got[h]
        BY <2>6, <3>2, NamesDiffer
      <4>2. g[Manifest] = got[Manifest]
        BY <2>6, <3>2, NamesDiffer
      <4>3. \A d \in Days : d # e => g[Chunk(d)] = got[Chunk(d)]
        BY <2>6, <3>2, NamesDiffer
      <4>4. got[PublicLatest] # Absent
        BY <1>2, <2>11, <3>2, ChunkAfterLatest
      <4>5. \A d \in Days :
              /\ OneCycle(g[Chunk(d)]) /\ \A c \in g[Chunk(d)] : DayOf(c) = d
              /\ NotNewer(g[Chunk(d)], dir[PublicLatest])
              /\ g[Chunk(d)] # Absent =>
                   /\ g[PublicLatest] # Absent
                   /\ \A p \in g[PublicLatest] : d < DayOf(p) => g[Chunk(d)] = dir[Chunk(d)]
        <5> SUFFICES ASSUME NEW d \in Days
                     PROVE
              /\ OneCycle(g[Chunk(d)]) /\ \A c \in g[Chunk(d)] : DayOf(c) = d
              /\ NotNewer(g[Chunk(d)], dir[PublicLatest])
              /\ g[Chunk(d)] # Absent =>
                   /\ g[PublicLatest] # Absent
                   /\ \A p \in g[PublicLatest] : d < DayOf(p) => g[Chunk(d)] = dir[Chunk(d)]
          OBVIOUS
        <5>1. CASE d = e
          BY <2>6, <3>2, <4>1, <4>4, <5>1 DEF PublishedInv, DirSound, Heads
        <5>2. CASE d # e
          BY <2>8, <4>1, <4>3, <5>2 DEF CollectingSound, Heads
        <5> QED
          BY <5>1, <5>2
      <4> QED
        BY <1>1, <2>4, <2>8, <4>1, <4>2, <4>5 DEF CollectingSound, Heads
    <3> QED
      BY <2>10, <3>1, <3>2
  <2>13. got'[Manifest] = got[Manifest] /\ Manifest \notin uploader'.todo
    BY <1>1, <2>4, <2>6, <2>10, NamesDiffer DEF UploaderInv
  <2>14. \A h \in ToRead(got[Manifest]) : h \in uploader'.todo \/ got'[h] # Absent
    <3>1. ToRead(got[Manifest]) \subseteq Files
      BY <2>8, NamesDiffer DEF ToRead, ChunksOf, CollectingSound
    <3> QED
      BY <1>1, <1>4, <2>4, <2>6, <3>1 DEF UploaderInv
  <2>15. PublicLatest \in uploader'.todo => \A d \in Days : got'[Chunk(d)] = Absent
    <3> SUFFICES ASSUME PublicLatest \in uploader'.todo, NEW d \in Days
                 PROVE  got'[Chunk(d)] = Absent
      OBVIOUS
    <3>1. PublicLatest \in uploader.todo /\ got[Chunk(d)] = Absent
      BY <1>1, <2>4 DEF UploaderInv
    <3>2. f # Chunk(d)
      BY <1>2, <3>1, ChunkAfterLatest
    <3> QED
      BY <2>4, <2>6, <3>1, <3>2, NamesDiffer
  <2> QED
    BY <2>4, <2>7, <2>12, <2>13, <2>14, <2>15 DEF UploaderInv
<1> QED
  BY <1>3, <1>4

\* One cycle in a file is what its reader makes of it.
LEMMA GotIs ==
  ASSUME UploaderInv, uploader.pc # "idle"
  PROVE  /\ \A f \in Heads : got[f] # Absent => Got(f) \in Cycles /\ got[f] = {Got(f)}
         /\ \A d \in Days :
              got[Chunk(d)] # Absent => Got(Chunk(d)) \in Cycles /\ got[Chunk(d)] = {Got(Chunk(d))}
<1>1. ASSUME NEW f, OneCycle(got[f]), got[f] # Absent
      PROVE  Got(f) \in Cycles /\ got[f] = {Got(f)}
  <2>1. PICK c \in Cycles : got[f] = {c}
    BY <1>1 DEF OneCycle
  <2>2. Got(f) = c
    BY <2>1, OneOf, CycleFacts DEF Got, got
  <2> QED
    BY <2>1, <2>2
<1> QED
  BY <1>1 DEF UploaderInv, CollectingSound

LEMMA CompareKeeps ==
  ASSUME PublishedInv, UploaderInv, Compare
  PROVE  UploaderInv'
<1>1. uploader.pc = "read" /\ uploader.todo = {} /\ dir' = dir
  BY DEF Compare
<1>2. CASE ~(HeadsAgree /\ RollupsAgree)
  BY <1>2, RestingSound DEF Compare
<1>3. CASE HeadsAgree /\ RollupsAgree
  <2>1. uploader' = [uploader EXCEPT !.pc = "reread", !.todo = ToReread]
    BY <1>3 DEF Compare
  <2>2. uploader'.pc = "reread" /\ uploader'.todo = ToReread /\ uploader'.got = uploader.got
    BY <2>1 DEF UploaderInv
  <2>3. ToReread \in SUBSET Files /\ PublicLatest \in ToReread
    BY NamesDiffer DEF ToReread, Heads
  <2>4. uploader' \in [pc : {"idle", "read", "reread", "holds"}, todo : SUBSET Files,
                       got : [Files -> SUBSET Nat]]
    BY <2>1, <2>3 DEF UploaderInv
  <2>5. CollectingSound'
    BY <1>1, <2>2 DEF UploaderInv, CollectingSound, got
  <2>6. HeadsAgree' /\ RollupsAgree'
    BY <1>3, <2>2 DEF HeadsAgree, RollupsAgree, Collected, Got
  <2>7. \A f \in ToRead(got'[Manifest]) : got'[f] # Absent
    BY <1>1, <2>2 DEF UploaderInv, got
  <2> QED
    BY <2>2, <2>3, <2>4, <2>5, <2>6, <2>7 DEF UploaderInv
<1> QED
  BY <1>2, <1>3

LEMMA RereadKeeps ==
  ASSUME PublishedInv, UploaderInv, Reread
  PROVE  UploaderInv'
<1>1. uploader.pc = "reread" /\ dir' = dir
  BY DEF Reread
<1>2. PICK f \in uploader.todo :
        uploader' = IF Changed(f) THEN NotReading ELSE [uploader EXCEPT !.todo = @ \ {f}]
  BY DEF Reread
<1>3. CASE Changed(f)
  BY <1>2, <1>3, RestingSound
<1>4. CASE ~Changed(f)
  <2>1. uploader' = [uploader EXCEPT !.todo = @ \ {f}] /\ dir[f] = got[f]
    BY <1>2, <1>4 DEF Changed, got
  <2>2. /\ uploader'.pc = "reread" /\ uploader'.todo = uploader.todo \ {f}
        /\ uploader'.got = uploader.got
    BY <1>1, <2>1 DEF UploaderInv
  <2>3. uploader' \in [pc : {"idle", "read", "reread", "holds"}, todo : SUBSET Files,
                       got : [Files -> SUBSET Nat]]
    BY <2>1 DEF UploaderInv
  <2>4. CollectingSound'
    BY <1>1, <2>2 DEF UploaderInv, CollectingSound, got
  <2>5. HeadsAgree' /\ RollupsAgree'
    BY <1>1, <2>2 DEF UploaderInv, HeadsAgree, RollupsAgree, Collected, Got
  <2>6. PublicLatest \notin uploader'.todo =>
          \A d \in Days : NotNewer(got[Chunk(d)], got[PublicLatest])
    <3>1. CASE f = PublicLatest
      BY <1>1, <2>1, <3>1 DEF UploaderInv, CollectingSound
    <3>2. CASE f # PublicLatest
      BY <1>1, <2>2, <3>2 DEF UploaderInv
    <3> QED
      BY <3>1, <3>2
  <2> QED
    BY <1>1, <2>2, <2>3, <2>4, <2>5, <2>6 DEF UploaderInv, got
<1> QED
  BY <1>3, <1>4

LEMMA AcceptKeeps ==
  ASSUME PublishedInv, UploaderInv, Accept
  PROVE  UploaderInv'
<1>1. uploader.pc = "reread" /\ uploader.todo = {} /\ dir' = dir
      /\ uploader' = [uploader EXCEPT !.pc = "holds"]
  BY DEF Accept
<1>2. uploader'.pc = "holds" /\ uploader'.todo = {} /\ uploader'.got = uploader.got
  BY <1>1 DEF UploaderInv
<1>3. uploader' \in [pc : {"idle", "read", "reread", "holds"}, todo : SUBSET Files,
                     got : [Files -> SUBSET Nat]]
  BY <1>1 DEF UploaderInv
<1>4. CollectingSound'
  BY <1>1, <1>2 DEF UploaderInv, CollectingSound, got
<1>5. HeadsAgree' /\ RollupsAgree'
  BY <1>1, <1>2 DEF UploaderInv, HeadsAgree, RollupsAgree, Collected, Got
<1> QED
  BY <1>1, <1>2, <1>3, <1>4, <1>5 DEF UploaderInv, got

LEMMA DaemonPublishes ==
  ASSUME PublishedInv, CommitCycle \/ WriteFile \/ PublicationStops
  PROVE  PublishedInv' /\ Advances
BY CommitPublishes, WritePublishes, StopPublishes

LEMMA SnapshotInvStep == SnapshotInv /\ [FilesNext]_fileVars => SnapshotInv'
<1> SUFFICES ASSUME SnapshotInv, [FilesNext]_fileVars PROVE SnapshotInv'
  OBVIOUS
<1>1. PublishedInv /\ UploaderInv
  BY DEF SnapshotInv
<1>2. CASE CommitCycle \/ WriteFile \/ PublicationStops
  <2>1. uploader' = uploader
    BY <1>2 DEF CommitCycle, WriteFile, PublicationStops
  <2> QED
    BY <1>1, <1>2, <2>1, DaemonPublishes, UploaderUndisturbed DEF SnapshotInv
<1>3. CASE UNCHANGED <<db, dir, unwritten>>
  <2>1. PublishedInv'
    BY <1>1, <1>3
    DEF PublishedInv, DbSound, NewestKnown, DirSound, WritingSound, Latest, KnownDays
  <2>2. CASE UNCHANGED uploader
    BY <1>1, <1>3, <2>1, <2>2, SameAdvances, UploaderUndisturbed DEF SnapshotInv, PublishedInv
  <2>3. CASE ~UNCHANGED uploader
    <3>1. OpensManifest \/ ReadFile \/ Compare \/ Reread \/ Accept
      BY <2>3 DEF FilesNext, fileVars, CommitCycle, WriteFile, PublicationStops
    <3> QED
      BY <1>1, <2>1, <3>1, OpensKeeps, ReadKeeps, CompareKeeps, RereadKeeps, AcceptKeeps
      DEF SnapshotInv
  <2> QED
    BY <2>2, <2>3
<1> QED
  BY <1>2, <1>3 DEF FilesNext, fileVars, OpensManifest, ReadFile, Compare, Reread, Accept

LEMMA SnapshotInvInit == FilesInit => SnapshotInv
<1> SUFFICES ASSUME FilesInit PROVE SnapshotInv
  OBVIOUS
<1>1. uploader = NotReading
  BY DEF FilesInit
<1>2. NoFiles \in [Files -> SUBSET Nat]
  BY DEF NoFiles, Absent
<1>3. UploaderInv
  BY <1>1, <1>2 DEF NotReading, UploaderInv
<1> QED
  BY <1>3, PublishedInit DEF SnapshotInv

LEMMA SnapshotInvSuffices == SnapshotInv => SnapshotTrue
<1> SUFFICES ASSUME SnapshotInv PROVE SnapshotTrue
  OBVIOUS
<1>1. PublishedInv /\ UploaderInv
  BY DEF SnapshotInv
<1>2. FilesTypeOK
  <2>1. \A f \in Heads : dir[f] \subseteq Cycles
    BY <1>1 DEF PublishedInv, DirSound, OneCycle, Absent
  <2> QED
    BY <1>1, <2>1 DEF PublishedInv, DbSound, DirSound, WritingSound, UploaderInv, FilesTypeOK
<1>3. ManifestTrue
  BY <1>1 DEF PublishedInv, DirSound, ManifestTrue
<1>4. ASSUME Held
      PROVE  /\ \A f \in Heads : got[f] = {Collected}
             /\ Collected \in Cycles
             /\ \A d \in Days : NotNewer(got[Chunk(d)], {Collected})
  <2>1. \A f \in Heads : got[f] # Absent
    BY <1>1, <1>4 DEF Held, UploaderInv, ToRead
  <2>2. \A f \in Heads : Got(f) \in Cycles /\ got[f] = {Got(f)}
    BY <1>1, <1>4, <2>1, GotIs DEF Held
  <2>3. \A f \in Heads : Got(f) = Collected
    BY <1>1, <1>4 DEF Held, UploaderInv, HeadsAgree
  <2>4. got[PublicLatest] = {Collected}
    BY <2>2, <2>3 DEF Heads
  <2> QED
    BY <1>1, <1>4, <2>2, <2>3, <2>4 DEF Held, UploaderInv, Heads
<1>5. SnapshotOfOneCycle
  <2> SUFFICES ASSUME Held, DayOf(Collected) \in got[Manifest],
                      NEW c, c = Got(Chunk(DayOf(Collected)))
               PROVE  c <= Collected /\ BucketOf(c) = BucketOf(Collected)
    BY <1>4 DEF SnapshotOfOneCycle, got
  <2>1. DayOf(Collected) \in Days /\ got[Chunk(DayOf(Collected))] # Absent
    BY <1>1 DEF Held, UploaderInv, CollectingSound, ToRead, ChunksOf
  <2>2. got[Chunk(DayOf(Collected))] = {c}
    BY <1>1, <2>1, GotIs DEF Held
  <2>3. c <= Collected
    BY <1>4, <2>1, <2>2 DEF NotNewer
  <2>4. BucketOf(c) = BucketOf(Collected)
    BY <1>1 DEF Held, UploaderInv, RollupsAgree, got
  <2> QED
    BY <2>3, <2>4
<1>6. ClosedForEver
  <2> SUFFICES ASSUME Held, NEW d \in got[Manifest], d < DayOf(Collected)
               PROVE  got[Chunk(d)] = dir[Chunk(d)]
    BY DEF ClosedForEver, got
  <2>1. d \in Days /\ got[Chunk(d)] # Absent /\ CollectingSound
    BY <1>1 DEF Held, UploaderInv, CollectingSound, ToRead, ChunksOf
  <2> QED
    BY <1>4, <2>1 DEF CollectingSound, Heads
<1> QED
  BY <1>2, <1>3, <1>5, <1>6 DEF SnapshotTrue

\* A snapshot the uploader accepts is of one cycle, with the chunk of its day
\* from the same rollup bucket and no later, and what it holds of closed days
\* is what the files say for ever; the manifest only names files that exist:
\* v2_snapshot beside publish, for any length of days and buckets, although
\* neither side locks the files and a publication stops anywhere.
THEOREM SnapshotsAreTrue == FilesSpec => []SnapshotTrue
<1>1. FilesInit => SnapshotInv
  BY SnapshotInvInit
<1>2. SnapshotInv /\ [FilesNext]_fileVars => SnapshotInv'
  BY SnapshotInvStep
<1>3. SnapshotInv => SnapshotTrue
  BY SnapshotInvSuffices
<1> QED
  BY <1>1, <1>2, <1>3, PTL DEF FilesSpec

------------------------------------------------------------------------------
(* The owner's history.  The invariant splits what is due to a request     *)
(* into what the files read so far cover and what those still to be read   *)
(* will cover; a file replaced meanwhile covers more.                      *)

LEMMA QuotientOf ==
  ASSUME NEW a \in Int, NEW n \in Nat \ {0}
  PROVE  a \div n \in Int /\ n * (a \div n) <= a /\ a < n * (a \div n) + n
OBVIOUS

LEMMA WholeQuotient ==
  ASSUME NEW a \in Nat, NEW n \in Nat \ {0}, a % n = 0
  PROVE  a = n * (a \div n)
OBVIOUS

LEMMA TimesGrows ==
  ASSUME NEW n \in Nat, NEW a \in Int, NEW b \in Int, a <= b
  PROVE  n * a <= n * b
<1>1. PICK k \in Nat : b = a + k
  <2>1. b - a \in Nat /\ b = a + (b - a)
    OBVIOUS
  <2> QED
    BY <2>1
<1>2. n * b = n * a + n * k
  BY <1>1
<1>3. n * k \in Nat /\ n * a \in Int
  OBVIOUS
<1> QED
  BY <1>2, <1>3

\* A multiple of n up to a is one up to n times the quotient of a.
LEMMA MultipleWithin ==
  ASSUME NEW a \in Int, NEW n \in Nat \ {0}, NEW k \in Int, n * k <= a
  PROVE  k <= a \div n
<1>1. PICK q \in Int : q = a \div n
  BY QuotientOf
<1>2. a < n * q + n
  BY <1>1, QuotientOf
<1>3. ASSUME q < k PROVE FALSE
  <2>1. n * (q + 1) <= n * k
    BY <1>3, TimesGrows
  <2>2. n * (q + 1) = n * q + n
    OBVIOUS
  <2>3. n * q \in Int /\ n * k \in Int
    OBVIOUS
  <2> QED
    BY <1>2, <2>1, <2>2, <2>3
<1> QED
  BY <1>1, <1>3

\* Numbers only: y is a cycle of bucket y \div m and of day y \div n, and `from`
\* the last cycle before the window.
LEMMA BucketInWindow ==
  ASSUME NEW y \in Nat, NEW at \in Nat, NEW from \in Int,
         NEW m \in Nat \ {0}, NEW n \in Nat \ {0}, n % m = 0,
         (from \div m) + 1 <= y \div m, y \div m <= at \div m
  PROVE  (y \div n) * n <= at /\ ((y \div n) + 1) * n > from
<1>1. PICK d \in Int : d = y \div n
  BY QuotientOf
<1>2. PICK b \in Int : b = y \div m
  BY QuotientOf
<1>3. PICK k \in Int : n = m * k
  <2>1. n \in Nat /\ n \in Int
    OBVIOUS
  <2>2. n = m * (n \div m)
    BY <2>1, WholeQuotient
  <2>3. n \div m \in Int
    BY <2>1, QuotientOf
  <2> QED
    BY <2>2, <2>3
<1>4. PICK r \in Int : r = at \div m
  BY QuotientOf
<1>5. PICK f \in Int : f = from \div m
  BY QuotientOf
<1>6. n * d <= y /\ y < n * d + n /\ m * b <= y /\ m * r <= at /\ from < m * f + m
  BY <1>1, <1>2, <1>4, <1>5, QuotientOf
<1>7. d * n = n * d /\ (d + 1) * n = n * d + n /\ n * d \in Int
  OBVIOUS
<1>8. n * d <= at
  <2>1. n * d = m * (k * d) /\ k * d \in Int
    BY <1>3
  <2>2. k * d <= b
    BY <1>2, <1>6, <2>1, MultipleWithin
  <2>3. k * d <= r
    BY <1>2, <1>4, <2>1, <2>2
  <2>4. m * (k * d) <= m * r
    BY <2>1, <2>3, TimesGrows
  <2>5. m * r \in Int
    OBVIOUS
  <2> QED
    BY <1>6, <1>7, <2>1, <2>4, <2>5
<1>9. from < n * d + n
  <2>1. m * (f + 1) <= m * b
    BY <1>2, <1>5, TimesGrows
  <2>2. m * (f + 1) = m * f + m /\ m * f \in Int /\ m * b \in Int
    OBVIOUS
  <2> QED
    BY <1>6, <1>7, <2>1, <2>2
<1> QED
  BY <1>1, <1>7, <1>8, <1>9

-----------------------------------------------------------------------------
Kinds == {"none", "unavailable", "future", "relabelled", "invalid", "series"}
Pages == [pc : {"idle", "read"}, at : Nat, view : SeriesViews, todo : SUBSET Days,
          got : SUBSET Nat, due : SUBSET Int, answer : [kind : Kinds, shown : SUBSET Int]]
\* A file the manifest named is there until it is read.
PageSound == page \in Pages /\ \A d \in page.todo : dir[Chunk(d)] # Absent
\* What is due is in the chunks read so far, or in those still to be read.
DueFound ==
  page.pc = "read" =>
    /\ \A b \in page.due : BucketOf(b) \in QueryWindow(page.at)
    /\ \A b \in page.due :
         \/ \E c \in page.got : b \in Covered(c)
         \/ \E d \in page.todo : \E c \in dir[Chunk(d)] : b \in Covered(c)
AnswerTrue ==
  page.answer.kind = "series" =>
    page.answer.shown \subseteq recorded /\ page.due \subseteq page.answer.shown
SeriesInv ==
  /\ PublishedInv /\ recorded \subseteq Nat /\ time \in Nat
  /\ PageSound /\ DueFound /\ AnswerTrue

\* A later chunk of the same day covers what an earlier one covered.
LEMMA LaterCoversMore ==
  ASSUME NEW c \in Nat, NEW e \in Nat, c <= e, DayOf(c) = DayOf(e),
         recorded \subseteq Nat, recorded \subseteq recorded'
  PROVE  Covered(c) \subseteq Covered(e)'
<1>1. ASSUME NEW y \in recorded, y <= c, DayOf(y) = DayOf(c)
      PROVE  y \in recorded' /\ y <= e /\ DayOf(y) = DayOf(e)
  <2>1. y \in Nat
    OBVIOUS
  <2> QED
    BY <1>1, <2>1
<1> QED
  BY <1>1 DEF Covered

LEMMA CoveredRecorded ==
  ASSUME NEW c
  PROVE  Covered(c) \subseteq recorded
BY DEF Covered

\* What is published while a request is served takes nothing from it.
LEMMA PublishingKeepsPage ==
  ASSUME SeriesInv, PublishedInv', Advances, UNCHANGED <<time, page>>,
         recorded \subseteq recorded', recorded' \subseteq Nat
  PROVE  SeriesInv'
<1>1. page' = page /\ time' = time
  OBVIOUS
<1>2. PageSound'
  BY <1>1 DEF SeriesInv, PageSound, Advances, Pages
<1>3. DueFound'
  <2> SUFFICES ASSUME page.pc = "read"
               PROVE  /\ \A b \in page.due : BucketOf(b) \in QueryWindow(page.at)
                      /\ \A b \in page.due :
                           \/ \E c \in page.got : b \in Covered(c)'
                           \/ \E d \in page.todo : \E c \in dir'[Chunk(d)] : b \in Covered(c)'
    BY <1>1 DEF DueFound, QueryWindow
  <2>1. \A b \in page.due : BucketOf(b) \in QueryWindow(page.at)
    BY DEF SeriesInv, DueFound
  <2>2. ASSUME NEW b \in page.due, NEW c \in page.got, b \in Covered(c)
        PROVE  b \in Covered(c)'
    <3>1. c \in Nat
      BY DEF SeriesInv, PageSound, Pages
    <3>2. Covered(c) \subseteq Covered(c)'
      BY <3>1, LaterCoversMore DEF SeriesInv
    <3> QED
      BY <2>2, <3>2
  <2>3. ASSUME NEW b \in page.due, NEW d \in page.todo, NEW c \in dir[Chunk(d)], b \in Covered(c)
        PROVE  \E e \in dir'[Chunk(d)] : b \in Covered(e)'
    <3>1. d \in Days
      BY DEF SeriesInv, PageSound, Pages
    <3>2. PICK e \in dir'[Chunk(d)] : c <= e
      BY <3>1 DEF Advances, NotNewer
    <3>3. c \in Nat /\ e \in Nat /\ DayOf(c) = DayOf(e)
      BY <3>1, NamesDiffer DEF SeriesInv, PublishedInv, DirSound
    <3>4. Covered(c) \subseteq Covered(e)'
      BY <3>2, <3>3, LaterCoversMore DEF SeriesInv
    <3> QED
      BY <2>3, <3>4
  <2> QED
    BY <2>1, <2>2, <2>3 DEF SeriesInv, DueFound
<1>4. AnswerTrue'
  BY <1>1 DEF SeriesInv, AnswerTrue
<1> QED
  BY <1>1, <1>2, <1>3, <1>4 DEF SeriesInv

LEMMA TicksKeeps ==
  ASSUME SeriesInv, ClockTicks
  PROVE  SeriesInv'
<1>1. UNCHANGED <<db, dir, unwritten, recorded, page>> /\ time' \in Nat
  BY DEF SeriesInv, ClockTicks, fileVars
<1>2. PublishedInv'
  BY <1>1 DEF SeriesInv, PublishedInv, DbSound, NewestKnown, DirSound, WritingSound,
              Latest, KnownDays
<1>3. PageSound' /\ DueFound' /\ AnswerTrue'
  <2>1. \A c : Covered(c)' = Covered(c)
    BY <1>1 DEF Covered
  <2> QED
    BY <1>1, <2>1 DEF SeriesInv, PageSound, DueFound, AnswerTrue, QueryWindow
<1> QED
  BY <1>1, <1>2, <1>3 DEF SeriesInv

LEMMA CommitsKeeps ==
  ASSUME SeriesInv, Commits
  PROVE  SeriesInv'
<1>1. PublishedInv' /\ Advances
  BY DaemonPublishes DEF SeriesInv, Commits
<1>2. recorded \subseteq recorded' /\ recorded' \subseteq Nat /\ UNCHANGED <<time, page>>
  BY DEF SeriesInv, Commits
<1> QED
  BY <1>1, <1>2, PublishingKeepsPage

LEMMA PublishesKeeps ==
  ASSUME SeriesInv, Publishes
  PROVE  SeriesInv'
<1>1. PublishedInv' /\ Advances
  BY DaemonPublishes DEF SeriesInv, Publishes
<1>2. recorded \subseteq recorded' /\ recorded' \subseteq Nat /\ UNCHANGED <<time, page>>
  BY DEF SeriesInv, Publishes
<1> QED
  BY <1>1, <1>2, PublishingKeepsPage

-----------------------------------------------------------------------------
(* The reader.                                                             *)

ReaderOnly == UNCHANGED <<fileVars, time, recorded, named>>

LEMMA ReaderPublishes ==
  ASSUME SeriesInv, ReaderOnly
  PROVE  /\ PublishedInv' /\ recorded' \subseteq Nat /\ time' \in Nat
         /\ dir' = dir /\ recorded' = recorded /\ time' = time
         /\ \A c : Covered(c)' = Covered(c)
<1>1. UNCHANGED <<db, dir, unwritten, recorded, time>>
  BY DEF ReaderOnly, fileVars
<1>2. PublishedInv'
  BY <1>1 DEF SeriesInv, PublishedInv, DbSound, NewestKnown, DirSound, WritingSound,
              Latest, KnownDays
<1>3. \A c : Covered(c)' = Covered(c)
  BY <1>1 DEF Covered
<1> QED
  BY <1>1, <1>2, <1>3 DEF SeriesInv

LEMMA EmptyPage ==
  ASSUME NEW kind \in Kinds
  PROVE  /\ NoSeries(kind) \in Pages
         /\ NoSeries(kind).pc = "idle" /\ NoSeries(kind).todo = {}
         /\ NoSeries(kind).answer.kind = kind
<1>1. NoPage \in Pages
  BY DEF NoPage, NoAnswer, Pages, SeriesViews, Kinds
<1> QED
  BY <1>1 DEF NoSeries, NoPage, Pages

LEMMA NoSeriesKeeps ==
  ASSUME SeriesInv, ReaderOnly, NEW kind \in Kinds, kind # "series", page' = NoSeries(kind)
  PROVE  SeriesInv'
<1>1. /\ page' \in Pages /\ page'.pc = "idle" /\ page'.todo = {}
      /\ page'.answer.kind = kind
  <2>1. PICK empty : empty = NoSeries(kind)
    OBVIOUS
  <2>2. empty \in Pages /\ empty.pc = "idle" /\ empty.todo = {} /\ empty.answer.kind = kind
    BY <2>1, EmptyPage
  <2> QED
    BY <2>1, <2>2
<1>2. PageSound' /\ DueFound' /\ AnswerTrue'
  BY <1>1 DEF PageSound, DueFound, AnswerTrue
<1> QED
  BY <1>2, ReaderPublishes DEF SeriesInv

\* Each published cycle of the window is of a day whose chunk is listed.
LEMMA DueIsListed ==
  ASSUME PublishedInv, recorded \subseteq Nat, time \in Nat, NEW b \in Due(time)
  PROVE  \E d \in Listed(time) : \E c \in dir[Chunk(d)] : b \in Covered(c)
<1>1. PICK d \in dir[Manifest] : \E c \in dir[Chunk(d)] : b \in Covered(c)
  BY DEF Due, WithinQuery
<1>2. PICK c \in dir[Chunk(d)] : b \in Covered(c)
  BY <1>1
<1>3. d \in Days /\ DayOf(c) = d
  BY DEF PublishedInv, DirSound
<1>4. PICK y \in recorded : y <= c /\ DayOf(y) = DayOf(c) /\ b = y
  BY <1>2 DEF Covered
<1>5. BucketOf(y) \in (((time - Span) \div Bucket) + 1)..BucketOf(time)
  BY <1>4 DEF Due, WithinQuery, QueryWindow
<1>6. /\ time - Span \in Int /\ Bucket \in Nat \ {0} /\ Day \in Nat \ {0} /\ Day % Bucket = 0
      /\ y \in Nat
  BY ProjectionConstants, SeriesConstants
<1>7. ((time - Span) \div Bucket) + 1 <= y \div Bucket /\ y \div Bucket <= time \div Bucket
  BY <1>4, <1>5 DEF BucketOf
<1>8. (y \div Day) * Day <= time /\ ((y \div Day) + 1) * Day > time - Span
  BY <1>6, <1>7, BucketInWindow
<1>9. Overlaps(d, time)
  BY <1>3, <1>4, <1>8 DEF Overlaps, DayOf
<1> QED
  BY <1>2, <1>9 DEF Listed

LEMMA AsksKeeps ==
  ASSUME SeriesInv, Asks
  PROVE  SeriesInv'
<1>1. ReaderOnly
  BY DEF Asks, ReaderOnly
<1>2. CASE page' = NoSeries("unavailable")
  BY <1>1, <1>2, NoSeriesKeeps DEF Kinds
<1>3. ASSUME NEW view \in SeriesViews,
             page' = [pc |-> "read", at |-> time, view |-> view, todo |-> Listed(time),
                      got |-> {}, due |-> Due(time), answer |-> NoAnswer]
      PROVE  SeriesInv'
  <2>1. /\ page'.pc = "read" /\ page'.at = time /\ page'.todo = Listed(time)
        /\ page'.got = {} /\ page'.due = Due(time) /\ page'.answer = NoAnswer
    BY <1>3
  <2>2. Listed(time) \subseteq Days /\ \A d \in Listed(time) : dir[Chunk(d)] # Absent
    BY DEF SeriesInv, PublishedInv, DirSound, Listed
  <2>3. /\ \A b \in Due(time) : BucketOf(b) \in QueryWindow(time)
        /\ Due(time) \subseteq Int
    <3>1. Due(time) \subseteq recorded
      BY CoveredRecorded DEF Due, WithinQuery
    <3>2. \A b \in Due(time) : BucketOf(b) \in QueryWindow(time)
      BY DEF Due, WithinQuery
    <3>3. recorded \subseteq Int
      BY DEF SeriesInv
    <3> QED
      BY <3>1, <3>2, <3>3
  <2>4. time \in Nat /\ NoAnswer \in [kind : Kinds, shown : SUBSET Int]
    BY DEF SeriesInv, NoAnswer, Kinds
  <2>5. page' \in Pages
    BY <1>3, <2>2, <2>3, <2>4 DEF Pages
  <2>6. PageSound'
    BY <1>1, <2>1, <2>2, <2>5, ReaderPublishes DEF PageSound
  <2>7. QueryWindow(page.at)' = QueryWindow(time)
    BY <2>1 DEF QueryWindow
  <2>8. \A b \in Due(time) : \E d \in Listed(time) : \E c \in dir[Chunk(d)] : b \in Covered(c)
    BY DueIsListed DEF SeriesInv
  <2>9. DueFound'
    BY <1>1, <2>1, <2>3, <2>7, <2>8, ReaderPublishes DEF DueFound
  <2>10. AnswerTrue'
    BY <2>1 DEF AnswerTrue, NoAnswer
  <2> QED
    BY <1>1, <2>6, <2>9, <2>10, ReaderPublishes DEF SeriesInv
<1> QED
  BY <1>2, <1>3 DEF Asks

LEMMA ReadsKeeps ==
  ASSUME SeriesInv, ReadsChunk
  PROVE  SeriesInv'
<1>1. ReaderOnly /\ page.pc = "read"
  BY DEF ReadsChunk, ReaderOnly
<1>2. PICK d \in page.todo :
        page' = IF dir[Chunk(d)] = Absent THEN NoSeries("unavailable")
                ELSE [page EXCEPT !.todo = @ \ {d}, !.got = @ \cup dir[Chunk(d)]]
  BY DEF ReadsChunk
<1>3. page \in Pages /\ d \in Days /\ dir[Chunk(d)] \in SUBSET Nat
  BY NamesDiffer DEF SeriesInv, PageSound, Pages, PublishedInv, DirSound
<1>4. page' = [page EXCEPT !.todo = @ \ {d}, !.got = @ \cup dir[Chunk(d)]]
  BY <1>2 DEF SeriesInv, PageSound
<1>5. /\ page'.pc = "read" /\ page'.at = page.at /\ page'.todo = page.todo \ {d}
      /\ page'.got = page.got \cup dir[Chunk(d)]
      /\ page'.due = page.due /\ page'.answer = page.answer
  BY <1>1, <1>3, <1>4 DEF Pages
<1>6. page' \in Pages
  BY <1>3, <1>4 DEF Pages
<1>7. PageSound'
  BY <1>1, <1>5, <1>6, ReaderPublishes DEF SeriesInv, PageSound
<1>8. QueryWindow(page.at)' = QueryWindow(page.at)
  BY <1>5 DEF QueryWindow
<1>9. DueFound'
  BY <1>1, <1>5, <1>8, ReaderPublishes DEF SeriesInv, DueFound
<1>10. AnswerTrue'
  BY <1>1, <1>5, ReaderPublishes DEF SeriesInv, AnswerTrue
<1> QED
  BY <1>1, <1>7, <1>9, <1>10, ReaderPublishes DEF SeriesInv

LEMMA AnswersKeeps ==
  ASSUME SeriesInv, Answers
  PROVE  SeriesInv'
<1>1. ReaderOnly /\ page.pc = "read" /\ page.todo = {}
  BY DEF Answers, ReaderOnly
<1>2. CASE \/ page' = NoSeries("future") \/ page' = NoSeries("relabelled")
           \/ page' = NoSeries("invalid")
  BY <1>1, <1>2, NoSeriesKeeps DEF Kinds
<1>3. PICK shown : shown = WithinQuery(Merged(page.got), page.at)
  OBVIOUS
<1>4. CASE page' = [NoPage EXCEPT !.due = page.due,
                      !.answer = [kind |-> "series", shown |-> shown]]
  <2>1. page \in Pages /\ NoPage \in Pages
    BY DEF SeriesInv, PageSound, NoPage, NoAnswer, Pages, SeriesViews, Kinds
  <2>2. shown \subseteq recorded /\ shown \in SUBSET Int
    <3>1. shown \subseteq recorded
      BY <1>3, CoveredRecorded DEF Merged, WithinQuery
    <3> QED
      BY <3>1 DEF SeriesInv
  <2>3. /\ page'.pc = "idle" /\ page'.todo = {} /\ page'.due = page.due
        /\ page'.answer = [kind |-> "series", shown |-> shown]
    BY <1>4 DEF NoPage
  <2>4. page' \in Pages
    BY <1>4, <2>1, <2>2 DEF Pages, Kinds
  <2>5. PageSound' /\ DueFound'
    BY <2>3, <2>4 DEF PageSound, DueFound
  <2>6. page.due \subseteq shown
    BY <1>1, <1>3 DEF SeriesInv, DueFound, Merged, WithinQuery
  <2>7. AnswerTrue'
    BY <1>1, <2>2, <2>3, <2>6, ReaderPublishes DEF AnswerTrue
  <2> QED
    BY <1>1, <2>5, <2>7, ReaderPublishes DEF SeriesInv
<1> QED
  BY <1>2, <1>3, <1>4 DEF Answers

-----------------------------------------------------------------------------
LEMMA SeriesInvInit == SeriesInit => SeriesInv
<1> SUFFICES ASSUME SeriesInit PROVE SeriesInv
  OBVIOUS
<1>1. PublishedInv
  BY PublishedInit DEF SeriesInit
<1>2. page = NoPage /\ recorded = {} /\ time = 1
  BY DEF SeriesInit
<1>3. PageSound /\ DueFound /\ AnswerTrue
  BY <1>2 DEF NoPage, NoAnswer, Pages, SeriesViews, Kinds, PageSound, DueFound, AnswerTrue
<1> QED
  BY <1>1, <1>2, <1>3 DEF SeriesInv

LEMMA SeriesInvStep == SeriesInv /\ [SeriesNext]_seriesVars => SeriesInv'
<1> SUFFICES ASSUME SeriesInv, [SeriesNext]_seriesVars PROVE SeriesInv'
  OBVIOUS
<1>1. CASE UNCHANGED seriesVars
  <2>1. ReaderOnly /\ page' = page
    BY <1>1 DEF seriesVars, ReaderOnly
  <2>2. PageSound' /\ DueFound' /\ AnswerTrue'
    BY <2>1, ReaderPublishes
    DEF SeriesInv, PageSound, DueFound, AnswerTrue, QueryWindow
  <2> QED
    BY <2>1, <2>2, ReaderPublishes DEF SeriesInv
<1>2. CASE SeriesNext
  BY <1>2, TicksKeeps, CommitsKeeps, PublishesKeeps, AsksKeeps, ReadsKeeps, AnswersKeeps
  DEF SeriesNext
<1> QED
  BY <1>1, <1>2

\* What the owner is shown of the past was recorded, nothing of the window that
\* was published is missing, and no file the manifest named is gone when its
\* turn comes (SeriesTrue): readSeriesV2 of v2/reader.ts, in whatever order the
\* daemon's writes and the reader's reads alternate.
THEOREM SeriesIsTrue == SeriesSpec => []SeriesTrue
<1>1. SeriesInit => SeriesInv
  BY SeriesInvInit
<1>2. SeriesInv /\ [SeriesNext]_seriesVars => SeriesInv'
  BY SeriesInvStep
<1>3. SeriesInv => SeriesTrue
  BY DEF SeriesInv, PageSound, AnswerTrue, SeriesTrue
<1> QED
  BY <1>1, <1>2, <1>3, PTL DEF SeriesSpec
=============================================================================
