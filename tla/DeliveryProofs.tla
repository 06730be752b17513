--------------------------- MODULE DeliveryProofs ---------------------------
(***************************************************************************)
(* Proofs about what reaches production and how it is tried out: the       *)
(* transport of the metrics (Upload), the measurement of the load a Worker *)
(* bears (Headroom) and the verification of a release (Release).  The      *)
(* three share nothing but this module.                                    *)
(***************************************************************************)
EXTENDS Upload, Headroom, Release, FiniteSetTheorems, TLAPS

------------------------------------------------------------------------------
(* The transport, for any quota and any number of snapshots, runs and      *)
(* abandoned requests.  The invariant adds to the safety properties what a *)
(* request under way, waited for or not, may ask for.                      *)

\* d is the last snapshot published and a the active one.
RequestOK(r, d, a) ==
  /\ r \in Request
  /\ r.kind # "deactivate" => r.snap \in 1..d
  /\ r.kind = "put" => r.hash \in Hashes
  /\ r.kind = "activate" => r.snap <= a

Client == [waits : SUBSET Request, todo : SUBSET Hashes, activates : BOOLEAN]

\* A client waits for one request at most.
ClientOK(k, d, a) ==
  /\ k \in Client
  /\ k.waits = {} \/ \E r \in k.waits : RequestOK(r, d, a) /\ k.waits = {r}

NumbersOK ==
  /\ disk \in 0..MaxSnapshot /\ stale \in 0..disk
  /\ active \in 0..disk /\ enabled \in 0..active
  /\ runs \in 0..MaxRuns

StagingOK ==
  /\ staged \subseteq Hashes /\ aged \subseteq staged
  /\ IsFiniteSet(staged) /\ Cardinality(staged) <= Quota
  /\ ActiveFiles \subseteq staged

RequestsOK ==
  /\ client \in [Clients -> Client]
  /\ \A c \in Clients : ClientOK(client[c], disk, active)
  /\ \A r \in late : RequestOK(r, disk, active)

IInv == NumbersOK /\ StagingOK /\ RequestsOK

-----------------------------------------------------------------------------
(* What the operators return.                                              *)

\* The files of every snapshot are among the hashes.
LEMMA FilesAreHashes == \A n \in Snapshots : Files(n) \subseteq Hashes
BY DEF Hashes

\* What the invariant promises, in the terms of the properties.
LEMMA Promises ==
  ASSUME IInv
  PROVE  TypeOK /\ ActiveWhole /\ StagingBounded /\ ServedAsAccepted
<1>1. /\ {disk, stale, active, enabled} \subseteq 0..MaxSnapshot
      /\ stale <= disk /\ active <= disk /\ active >= enabled /\ runs \in 0..MaxRuns
  BY UploadConstants DEF IInv, NumbersOK
<1>2. \A c \in Clients : Cardinality(client[c].waits) <= 1
  <2> SUFFICES ASSUME NEW c \in Clients PROVE Cardinality(client[c].waits) <= 1
    OBVIOUS
  <2>1. CASE client[c].waits = {}
    BY <2>1, FS_EmptySet
  <2>2. CASE client[c].waits # {}
    <3>1. PICK r : client[c].waits = {r}
      BY <2>2 DEF IInv, RequestsOK, ClientOK
    <3>2. Cardinality({r}) = 1
      BY FS_Singleton
    <3>3. QED
      BY <3>1, <3>2
  <2>3. QED
    BY <2>1, <2>2
<1>3. /\ \A c \in Clients : client[c].waits \subseteq Request /\ client[c].todo \subseteq Hashes
      /\ late \subseteq Request
  BY DEF IInv, RequestsOK, ClientOK, Client, RequestOK
<1>4. QED
  BY <1>1, <1>2, <1>3
  DEF IInv, StagingOK, TypeOK, ActiveWhole, Finds, StagingBounded, ServedAsAccepted

\* A request that is in order stays so while snapshots only get newer.
LEMMA RequestsAge ==
  ASSUME NEW d \in Nat, NEW a \in Nat, NEW e \in Nat, NEW b \in Nat, d <= e, a <= b,
         NEW r, RequestOK(r, d, a)
  PROVE  RequestOK(r, e, b)
<1>1. r.snap \in Nat
  BY UploadConstants DEF RequestOK, Request
<1>2. QED
  BY <1>1 DEF RequestOK

\* The same for a client, which may have got a new request.
LEMMA ClientsAge ==
  ASSUME NEW d \in Nat, NEW a \in Nat, NEW e \in Nat, NEW b \in Nat, d <= e, a <= b,
         NEW k, ClientOK(k, d, a)
  PROVE  ClientOK(k, e, b)
BY RequestsAge DEF ClientOK

\* A client that goes on with a request of its own, or rests.
LEMMA RequestsKept ==
  ASSUME IInv, NumbersOK', disk' >= disk, active' >= active,
         NEW c \in Clients, NEW k, ClientOK(k, disk', active'),
         client' = [client EXCEPT ![c] = k],
         late' \subseteq late \cup client[c].waits
  PROVE  RequestsOK'
<1>1. /\ disk \in Nat /\ active \in Nat /\ disk' \in Nat /\ active' \in Nat
      /\ disk <= disk' /\ active <= active'
  BY UploadConstants DEF IInv, NumbersOK
<1>2. client' \in [Clients -> Client]
  BY DEF IInv, RequestsOK, ClientOK
<1>3. \A x \in Clients : ClientOK(client'[x], disk', active')
  <2> SUFFICES ASSUME NEW x \in Clients PROVE ClientOK(client'[x], disk', active')
    OBVIOUS
  <2>1. CASE x = c
    BY <2>1 DEF IInv, RequestsOK
  <2>2. CASE x # c
    <3>1. client'[x] = client[x] /\ ClientOK(client[x], disk, active)
      BY <2>2 DEF IInv, RequestsOK
    <3>2. QED
      BY <1>1, <3>1, ClientsAge
  <2>3. QED
    BY <2>1, <2>2
<1>4. \A r \in late \cup client[c].waits : RequestOK(r, disk, active)
  BY DEF IInv, RequestsOK, ClientOK
<1>5. \A r \in late' : RequestOK(r, disk', active')
  BY <1>1, <1>4, RequestsAge
<1>6. QED
  BY <1>2, <1>3, <1>5 DEF RequestsOK

\* A client at rest is in order.
LEMMA IdleOK == ASSUME NEW d, NEW a PROVE ClientOK(Idle, d, a)
BY DEF ClientOK, Idle, Client

-----------------------------------------------------------------------------
(* The Durable Object.                                                     *)

\* Old files make room for the new one, but never those of the active snapshot.
LEMMA Puts ==
  ASSUME IInv, NEW r, RequestOK(r, disk, active), r.kind = "put", Accepts(r), Put(r)
  PROVE  StagingOK'
<1> DEFINE kept == staged \ Useless
<1>1. r.hash \in Hashes /\ Quota \in Nat
  BY UploadConstants DEF RequestOK
<1>2. ~Full(kept)
  BY DEF Accepts
<1>3. IsFiniteSet(kept) /\ Cardinality(kept) \in Nat
  BY FS_Subset, FS_CardinalityType DEF IInv, StagingOK
<1>4. Cardinality(kept) < Quota
  BY <1>1, <1>2, <1>3 DEF Full
<1>5. /\ IsFiniteSet(kept \cup {r.hash})
      /\ Cardinality(kept \cup {r.hash}) <= Cardinality(kept) + 1
  BY <1>3, FS_AddElement
<1>6. Cardinality(kept \cup {r.hash}) \in Nat
  BY <1>5, FS_CardinalityType
<1>7. staged' = kept \cup {r.hash} /\ ActiveFiles' = ActiveFiles
  BY DEF Put, ActiveFiles
<1>8. Cardinality(staged') <= Quota
  BY <1>1, <1>3, <1>4, <1>5, <1>6, <1>7
<1>9. ActiveFiles \subseteq kept
  BY DEF IInv, StagingOK, Useless
<1>10. aged' \subseteq staged' /\ staged' \subseteq Hashes
  BY <1>1 DEF Put, IInv, StagingOK
<1>11. QED
  BY <1>5, <1>7, <1>8, <1>9, <1>10 DEF StagingOK

\* A commit keeps the files of its snapshot, all of which are there.
LEMMA Commits ==
  ASSUME IInv, NEW r, RequestOK(r, disk, active), r.kind = "commit", Accepts(r), Commit(r)
  PROVE  StagingOK' /\ active' = r.snap /\ active <= r.snap
<1>1. Files(r.snap) \subseteq staged /\ ~(active > r.snap)
  BY DEF Accepts, Whole, OutOfOrder
<1>2. active \in Nat /\ r.snap \in Nat /\ Quota \in Nat
  BY UploadConstants DEF IInv, NumbersOK, RequestOK, Request
<1>3. staged' \subseteq staged /\ aged' \subseteq staged'
  BY DEF Commit, IInv, StagingOK
<1>4. /\ IsFiniteSet(staged') /\ Cardinality(staged') <= Cardinality(staged)
      /\ Cardinality(staged') \in Nat /\ Cardinality(staged) \in Nat
  BY <1>3, FS_Subset, FS_CardinalityType DEF IInv, StagingOK
<1>5. Cardinality(staged') <= Quota
  BY <1>2, <1>4 DEF IInv, StagingOK
<1>6. ActiveFiles' \subseteq staged'
  BY <1>1 DEF Commit, ActiveFiles
<1>7. QED
  BY <1>1, <1>2, <1>3, <1>4, <1>5, <1>6 DEF Commit, IInv, StagingOK

\* Whatever request is handled, the snapshot served stays whole and the
\* newest one so far.
LEMMA Handles ==
  ASSUME IInv, NEW r, RequestOK(r, disk, active), Handle(r), UNCHANGED world,
         runs' \in 0..MaxRuns
  PROVE  /\ NumbersOK' /\ StagingOK' /\ active' >= active
         /\ r.kind = "commit" /\ Accepts(r) => active' = r.snap
<1>1. UNCHANGED <<disk, stale>> /\ active \in Nat /\ disk \in Nat
  BY UploadConstants DEF world, IInv, NumbersOK
<1>2. CASE Accepts(r) /\ r.kind = "put" /\ Put(r)
  BY <1>1, <1>2, Puts DEF Put, IInv, NumbersOK
<1>3. CASE Accepts(r) /\ r.kind = "commit" /\ Commit(r)
  <2>1. StagingOK' /\ active' = r.snap /\ active <= r.snap /\ r.snap \in 1..disk
    BY <1>3, Commits DEF RequestOK
  <2>2. QED
    BY <1>1, <1>3, <2>1 DEF Commit, IInv, NumbersOK
<1>4. CASE Accepts(r) /\ r.kind = "activate" /\ Activate(r)
  <2>1. r.snap \in 1..disk /\ r.snap <= active
    BY <1>4 DEF RequestOK
  <2>2. QED
    BY <1>1, <1>4, <2>1 DEF Activate, ActiveFiles, IInv, NumbersOK, StagingOK
<1>5. CASE r.kind = "deactivate" /\ Deactivate
  BY <1>1, <1>5 DEF Deactivate, ActiveFiles, IInv, NumbersOK, StagingOK
<1>6. CASE (r.kind = "prepare" \/ ~Accepts(r)) /\ UNCHANGED server
  BY <1>1, <1>6 DEF server, ActiveFiles, IInv, NumbersOK, StagingOK
<1>7. QED
  BY <1>2, <1>3, <1>4, <1>5, <1>6 DEF Handle

-----------------------------------------------------------------------------
(* The steps.                                                              *)

\* StartUpload: the first request is about the published snapshot.
LEMMA UploadStarts ==
  ASSUME IInv, NEW c \in Clients, NEW b \in BOOLEAN, StartUpload(c, b),
         runs' \in 0..MaxRuns
  PROVE  IInv'
<1> DEFINE k == [waits |-> {Req("prepare", disk, NoHash)}, todo |-> {}, activates |-> b]
<1>1. client' = [client EXCEPT ![c] = k] /\ UNCHANGED <<server, late, world>> /\ disk > stale
  BY DEF StartUpload
<1>2. UNCHANGED <<disk, stale, staged, aged, active, enabled, late>>
  BY <1>1 DEF server, world
<1>3. NumbersOK' /\ StagingOK'
  BY <1>2 DEF IInv, NumbersOK, StagingOK, ActiveFiles
<1>4. disk \in 1..disk /\ disk \in 0..MaxSnapshot
  BY <1>1, UploadConstants DEF IInv, NumbersOK
<1>5. RequestOK(Req("prepare", disk, NoHash), disk, active)
  BY <1>4 DEF RequestOK, Req, Request
<1>6. ClientOK(k, disk', active')
  BY <1>2, <1>5 DEF ClientOK, Client, RequestOK
<1>7. disk' >= disk /\ active' >= active
  BY <1>2, UploadConstants DEF IInv, NumbersOK
<1>8. RequestsOK'
  BY <1>1, <1>3, <1>6, <1>7, RequestsKept
<1>9. QED
  BY <1>3, <1>8 DEF IInv

\* The client's next request is in order when its last one was.
LEMMA UploadGoesOn ==
  ASSUME NEW d \in 0..MaxSnapshot, NEW a \in 0..d, NEW k \in Client, NEW s \in 1..d,
         NEW kind \in {"put", "commit", "activate"}, NEW h \in Hashes \cup {NoHash},
         NEW todo \in SUBSET Hashes,
         kind = "put" => h \in Hashes, kind = "activate" => s <= a
  PROVE  ClientOK([waits |-> {Req(kind, s, h)}, todo |-> todo, activates |-> k.activates], d, a)
<1>1. s \in 0..MaxSnapshot
  BY UploadConstants
<1>2. RequestOK(Req(kind, s, h), d, a)
  BY <1>1 DEF RequestOK, Req, Request
<1>3. QED
  BY <1>2 DEF ClientOK, Client, RequestOK

\* Answered: the handler and the client's next request.
LEMMA UploadAnswers ==
  ASSUME IInv, NEW c \in Clients, Answered(c)
  PROVE  IInv' /\ active' >= active
<1> DEFINE r == Sent(c)
<1>1. /\ client[c].waits = {r} /\ RequestOK(r, disk, active) /\ client[c] \in Client
      /\ client \in [Clients -> Client]
  BY DEF Answered, Waiting, Sent, IInv, RequestsOK, ClientOK
<1>2. Handle(r) /\ UNCHANGED <<late, world, runs>> /\ runs' \in 0..MaxRuns
  BY DEF Answered, IInv, NumbersOK
<1>3. /\ NumbersOK' /\ StagingOK' /\ active' >= active
      /\ r.kind = "commit" /\ Accepts(r) => active' = r.snap
  BY <1>1, <1>2, Handles
<1>4. disk' = disk /\ disk' >= disk
  BY <1>2, UploadConstants DEF world, IInv, NumbersOK
<1>5. ASSUME NEW todo \in SUBSET Hashes, r.snap \in 1..disk, NextUpload(c, r.snap, todo)
      PROVE  \E k : ClientOK(k, disk', active') /\ client' = [client EXCEPT ![c] = k]
  <2>1. CASE Sends(c, Req("commit", r.snap, NoHash), {})
    BY <1>1, <1>3, <1>4, <1>5, <2>1, UploadGoesOn DEF Sends, NumbersOK
  <2>2. CASE \E h \in todo : Sends(c, Req("put", r.snap, h), todo \ {h})
    <3>1. PICK h \in todo : Sends(c, Req("put", r.snap, h), todo \ {h})
      BY <2>2
    <3>2. todo \ {h} \in SUBSET Hashes /\ h \in Hashes
      BY <3>1
    <3>3. QED
      BY <1>1, <1>3, <1>4, <1>5, <3>1, <3>2, UploadGoesOn DEF Sends, NumbersOK
  <2>3. QED
    BY <1>5, <2>1, <2>2 DEF NextUpload
<1>6. \E k : ClientOK(k, disk', active') /\ client' = [client EXCEPT ![c] = k]
  <2>1. CASE r.kind = "prepare" /\ NextUpload(c, r.snap, Files(r.snap) \ staged)
    <3>1. r.snap \in 1..disk /\ r.snap \in Snapshots
      BY <1>1, <2>1, UploadConstants DEF RequestOK, Snapshots, IInv, NumbersOK
    <3>2. Files(r.snap) \ staged \in SUBSET Hashes
      BY <3>1, FilesAreHashes
    <3>3. QED
      BY <1>5, <2>1, <3>1, <3>2
  <2>2. CASE r.kind = "put" /\ NextUpload(c, r.snap, client[c].todo)
    <3>1. r.snap \in 1..disk /\ client[c].todo \in SUBSET Hashes
      BY <1>1, <2>2 DEF RequestOK, Client
    <3>2. QED
      BY <1>5, <2>2, <3>1
  <2>3. CASE r.kind = "commit" /\ Accepts(r) /\ Sends(c, Req("activate", r.snap, NoHash), {})
    <3>1. r.snap \in 1..disk /\ active' = r.snap
      BY <1>1, <1>3, <2>3 DEF RequestOK
    <3>2. r.snap <= active'
      BY <3>1, <1>3 DEF NumbersOK
    <3>3. QED
      BY <1>1, <1>3, <1>4, <2>3, <3>1, <3>2, UploadGoesOn DEF Sends, NumbersOK
  <2>4. CASE client' = [client EXCEPT ![c] = Idle]
    BY <2>4, IdleOK
  <2>5. QED
    BY <2>1, <2>2, <2>3, <2>4 DEF Answered, AfterCommit
<1>7. PICK k : ClientOK(k, disk', active') /\ client' = [client EXCEPT ![c] = k]
  BY <1>6
<1>8. RequestsOK'
  BY <1>2, <1>3, <1>4, <1>7, RequestsKept
<1>9. QED
  BY <1>3, <1>8 DEF IInv

\* GivesUp: the request under way may become an abandoned one.
LEMMA GivesUpKeeps ==
  ASSUME IInv, NEW c \in Clients, GivesUp(c)
  PROVE  IInv'
<1>1. client[c].waits = {Sent(c)}
  BY DEF GivesUp, Waiting, Sent, IInv, RequestsOK, ClientOK
<1>2. UNCHANGED <<disk, stale, staged, aged, active, enabled, runs>>
  BY DEF GivesUp, server, world
<1>3. NumbersOK' /\ StagingOK' /\ disk' >= disk /\ active' >= active
  BY <1>2, UploadConstants DEF IInv, NumbersOK, StagingOK, ActiveFiles
<1>4. client' = [client EXCEPT ![c] = Idle] /\ late' \subseteq late \cup client[c].waits
  BY <1>1 DEF GivesUp
<1>5. QED
  BY <1>3, <1>4, IdleOK, RequestsKept DEF IInv

\* What clients wait for stays in order when only the server, the world and
\* the abandoned requests change, and no request is added to these.
LEMMA ClientsUntouched ==
  ASSUME IInv, NumbersOK', StagingOK', disk' >= disk, active' >= active,
         UNCHANGED client, late' \subseteq late
  PROVE  IInv'
<1>1. /\ disk \in Nat /\ active \in Nat /\ disk' \in Nat /\ active' \in Nat
      /\ disk <= disk' /\ active <= active'
  BY UploadConstants DEF IInv, NumbersOK
<1>2. \A c \in Clients : ClientOK(client[c], disk', active')
  BY <1>1, ClientsAge DEF IInv, RequestsOK
<1>3. \A r \in late' : RequestOK(r, disk', active')
  BY <1>1, RequestsAge DEF IInv, RequestsOK
<1>4. QED
  BY <1>2, <1>3 DEF IInv, RequestsOK

\* LateHandled: an abandoned request is in order whenever it is handled.
LEMMA LateKeeps ==
  ASSUME IInv, LateHandled
  PROVE  IInv' /\ active' >= active
<1>1. PICK r \in late : Handle(r) /\ late' = late \ {r} /\ UNCHANGED <<client, world, runs>>
  BY DEF LateHandled
<1>2. RequestOK(r, disk, active) /\ runs' \in 0..MaxRuns
  BY <1>1 DEF IInv, RequestsOK, NumbersOK
<1>3. NumbersOK' /\ StagingOK' /\ active' >= active
  BY <1>1, <1>2, Handles
<1>4. disk' >= disk
  BY <1>1, UploadConstants DEF world, IInv, NumbersOK
<1>5. QED
  BY <1>1, <1>3, <1>4, ClientsUntouched

\* Publish, Expire and Age leave what is served alone.
LEMMA WorldKeeps ==
  ASSUME IInv, Publish \/ Expire \/ Age
  PROVE  IInv' /\ active' = active
<1>1. UNCHANGED <<staged, active, enabled, client, late, runs>>
  BY DEF Publish, Expire, Age, server
<1>2. /\ disk' \in 0..MaxSnapshot /\ stale' \in 0..disk' /\ disk' >= disk
      /\ aged' \subseteq staged
  BY UploadConstants DEF Publish, Expire, Age, server, world, IInv, NumbersOK, StagingOK
<1>3. NumbersOK' /\ StagingOK' /\ active' >= active
  BY <1>1, <1>2, UploadConstants DEF IInv, NumbersOK, StagingOK, ActiveFiles
<1>4. QED
  BY <1>1, <1>2, <1>3, ClientsUntouched

\* The operator's runs of the uploader.
LEMMA OperatorKeeps ==
  ASSUME IInv, OperatorActivates \/ OperatorDeactivates
  PROVE  IInv' /\ active' = active
<1>0. runs < MaxRuns /\ runs' = runs + 1
  BY DEF OperatorActivates, OperatorDeactivates
<1>1. runs' \in 0..MaxRuns
  BY <1>0, UploadConstants DEF IInv, NumbersOK
<1>2. CASE OperatorActivates
  <2>1. StartUpload("operator", TRUE) /\ "operator" \in Clients
    BY <1>2 DEF OperatorActivates, Clients
  <2>2. \E b \in BOOLEAN : StartUpload("operator", b)
    BY <2>1
  <2>3. IInv'
    BY <1>1, <2>1, <2>2, UploadStarts
  <2>4. active' = active
    BY <2>1 DEF StartUpload, server
  <2>5. QED
    BY <2>3, <2>4
<1>3. CASE OperatorDeactivates
  <2> DEFINE q == Req("deactivate", 0, NoHash)
             k == [Idle EXCEPT !.waits = {q}]
  <2>1. /\ client' = [client EXCEPT !["operator"] = k] /\ "operator" \in Clients
        /\ UNCHANGED <<disk, stale, staged, aged, active, enabled, late>>
    BY <1>3 DEF OperatorDeactivates, Clients, server, world
  <2>2. NumbersOK' /\ StagingOK' /\ disk' >= disk /\ active' >= active
    BY <1>1, <2>1, UploadConstants DEF IInv, NumbersOK, StagingOK, ActiveFiles
  <2>3. RequestOK(q, disk', active')
    BY UploadConstants DEF RequestOK, Req, Request
  <2>4. k \in Client /\ k.waits = {q}
    BY <2>3 DEF Idle, Client, RequestOK
  <2>5. ClientOK(k, disk', active')
    BY <2>3, <2>4 DEF ClientOK
  <2>6. RequestsOK'
    BY <2>1, <2>2, <2>5, RequestsKept
  <2>7. QED
    BY <2>1, <2>2, <2>6 DEF IInv
<1>4. QED
  BY <1>2, <1>3

-----------------------------------------------------------------------------
(* The theorems.                                                           *)

\* The invariant holds initially.
LEMMA UploadBegins == Init => IInv
<1> SUFFICES ASSUME Init PROVE IInv
  OBVIOUS
<1>1. NumbersOK
  BY UploadConstants DEF Init, NumbersOK
<1>2. StagingOK
  BY FS_EmptySet, UploadConstants DEF Init, StagingOK, ActiveFiles
<1>3. RequestsOK
  BY IdleOK DEF Init, RequestsOK, Idle, Client
<1>4. QED
  BY <1>1, <1>2, <1>3 DEF IInv

\* Every step keeps the invariant and what is served never gets older.
LEMMA UploadKeeps == IInv /\ [Next]_vars => IInv' /\ active' >= active
<1> SUFFICES ASSUME IInv, [Next]_vars PROVE IInv' /\ active' >= active
  OBVIOUS
<1>1. active \in Int
  BY UploadConstants DEF IInv, NumbersOK
<1>2. CASE TimerUploads
  <2>1. runs' \in 0..MaxRuns
    BY <1>2 DEF TimerUploads, IInv, NumbersOK
  <2>2. active' = active /\ "timer" \in Clients /\ StartUpload("timer", FALSE)
    BY <1>2 DEF TimerUploads, StartUpload, server, Clients
  <2>3. \E b \in BOOLEAN : StartUpload("timer", b)
    BY <2>2
  <2>4. IInv'
    BY <2>1, <2>2, <2>3, UploadStarts
  <2>5. QED
    BY <1>1, <2>2, <2>4
<1>3. CASE OperatorActivates \/ OperatorDeactivates
  BY <1>1, <1>3, OperatorKeeps
<1>4. ASSUME NEW c \in Clients, Answered(c) PROVE IInv' /\ active' >= active
  BY <1>4, UploadAnswers
<1>5. ASSUME NEW c \in Clients, GivesUp(c) PROVE IInv' /\ active' >= active
  <2>1. active' = active
    BY <1>5 DEF GivesUp, server
  <2>2. QED
    BY <1>1, <1>5, <2>1, GivesUpKeeps
<1>6. CASE LateHandled
  BY <1>6, LateKeeps
<1>7. CASE Publish \/ Expire \/ Age
  BY <1>1, <1>7, WorldKeeps
<1>8. CASE UNCHANGED vars
  <2>1. UNCHANGED <<disk, stale, staged, aged, active, enabled, runs, client, late>>
    BY <1>8 DEF vars, server, world
  <2>2. QED
    BY <1>1, <2>1 DEF IInv, NumbersOK, StagingOK, ActiveFiles, RequestsOK
<1>9. QED
  BY <1>2, <1>3, <1>4, <1>5, <1>6, <1>7, <1>8 DEF Next

\* The invariant of every behaviour.
LEMMA UploadInvariant == Spec => []IInv
BY UploadBegins, UploadKeeps, PTL DEF Spec

\* Every file of the snapshot that readers are given is there, within the
\* quota and from the snapshot its activation was made for, whatever
\* uploadCloudflareV2 reclaims and whatever requests come, however late.
THEOREM ServesSoundly == Spec => []UploadSound
<1>1. IInv => UploadSound
  BY Promises DEF UploadSound
<1>2. QED
  BY <1>1, UploadInvariant, PTL

\* Readers never go back to an older snapshot: the check of the order of
\* commits in uploadCloudflareV2, whatever requests come, however late.
THEOREM ServedNeverBack == Spec => NeverBack
<1>1. IInv /\ [Next]_vars => [active' >= active]_vars
  BY UploadKeeps
<1>2. QED
  BY <1>1, UploadInvariant, PTL DEF Spec, NeverBack

-----------------------------------------------------------------------------
(* A run of the uploader ends, and the quota leaves room for the last      *)
(* snapshot.                                                               *)

LEMMA AtMostOneMore ==
  ASSUME NEW S, IsFiniteSet(S), NEW x
  PROVE  /\ IsFiniteSet(S \cup {x})
         /\ Cardinality(S) \in Nat /\ Cardinality(S \cup {x}) \in Nat
         /\ Cardinality(S \cup {x}) <= Cardinality(S) + 1
<1>1. Cardinality(S) \in Nat
  BY FS_CardinalityType
<1>2. IsFiniteSet(S \cup {x})
  BY FS_AddElement
<1>3. CASE x \in S
  <2>1. S \cup {x} = S
    BY <1>3
  <2> QED
    BY <1>1, <1>2, <2>1
<1>4. CASE x \notin S
  <2>1. Cardinality(S \cup {x}) = Cardinality(S) + 1
    BY <1>4, FS_AddElement
  <2> QED
    BY <1>1, <1>2, <2>1
<1> QED
  BY <1>3, <1>4

\* Sets of three elements at most, and their subsets.
LEMMA AtMostThree ==
  ASSUME NEW a, NEW b, NEW x, NEW S \in SUBSET {a, b, x}
  PROVE  Cardinality(S) \in Nat /\ Cardinality(S) <= 3
<1>1. IsFiniteSet({a}) /\ Cardinality({a}) = 1
  BY FS_Singleton
<1>2. /\ IsFiniteSet({a} \cup {b}) /\ Cardinality({a} \cup {b}) \in Nat
      /\ Cardinality({a} \cup {b}) <= Cardinality({a}) + 1
  BY <1>1, AtMostOneMore, Zenon
<1>3. PICK U : U = {a, b, x}
  OBVIOUS
<1>4. U = ({a} \cup {b}) \cup {x}
  BY <1>3
<1>5. /\ IsFiniteSet(U) /\ Cardinality(U) \in Nat
      /\ Cardinality(U) <= Cardinality({a} \cup {b}) + 1
  BY <1>2, <1>4, AtMostOneMore, Zenon
<1>6. IsFiniteSet(S) /\ Cardinality(S) <= Cardinality(U)
  BY <1>3, <1>5, FS_Subset
<1>7. Cardinality(S) \in Nat
  BY <1>6, FS_CardinalityType
<1> QED
  BY <1>1, <1>2, <1>5, <1>6, <1>7

LEMMA AtMostOne ==
  ASSUME NEW x, NEW S \in SUBSET {x}
  PROVE  Cardinality(S) \in Nat /\ Cardinality(S) <= 1
<1>1. IsFiniteSet({x}) /\ Cardinality({x}) = 1
  BY FS_Singleton
<1>2. IsFiniteSet(S) /\ Cardinality(S) <= 1
  BY <1>1, FS_Subset
<1> QED
  BY <1>2, FS_CardinalityType

LEMMA HashesFinite == IsFiniteSet(Hashes)
<1>1. PICK m \in Int : m = MaxSnapshot
  BY UploadConstants
<1>2. IsFiniteSet({"latest", "chunk"} \X (0..m))
  <2>1. IsFiniteSet({"latest"}) /\ IsFiniteSet({"latest"} \cup {"chunk"})
    BY FS_Singleton, FS_AddElement
  <2>2. {"latest"} \cup {"chunk"} = {"latest", "chunk"}
    OBVIOUS
  <2>3. IsFiniteSet(0..m)
    BY FS_Interval
  <2> QED
    BY <2>1, <2>2, <2>3, FS_Product
<1>3. \A n \in Snapshots : Files(n) \subseteq {"latest", "chunk"} \X (0..m)
  <2> SUFFICES ASSUME NEW n \in Snapshots
               PROVE  Files(n) \subseteq {"latest", "chunk"} \X (0..m)
    OBVIOUS
  <2>1. n \in 0..m /\ n \div 2 \in 0..m
    BY <1>1, UploadConstants DEF Snapshots
  <2> QED
    BY <2>1 DEF Files
<1>4. Hashes \in SUBSET ({"latest", "chunk"} \X (0..m))
  BY <1>3 DEF Hashes
<1> QED
  BY <1>2, <1>4, FS_Subset

\* What is left to a client that waits for the request r, or rests.
LEMMA LeftAt ==
  ASSUME NEW k, NEW r, k.waits = {r}
  PROVE  /\ r.kind = "prepare" => RequestsLeft(k) = 5
         /\ r.kind = "put" => RequestsLeft(k) = 3 + Cardinality(k.todo)
         /\ r.kind = "commit" => RequestsLeft(k) = 2
         /\ r.kind \in {"activate", "deactivate"} => RequestsLeft(k) = 1
BY DEF RequestsLeft, Asks

LEMMA LeftIdle == RequestsLeft(Idle) = 0
BY DEF RequestsLeft, Idle

LEMMA LeftSome ==
  ASSUME IInv, NEW c \in Clients, Waiting(c)
  PROVE  /\ client[c].waits = {Sent(c)} /\ Sent(c) \in Request
         /\ client[c].todo \in SUBSET Hashes /\ IsFiniteSet(client[c].todo)
         /\ Cardinality(client[c].todo) \in Nat
         /\ RequestsLeft(client[c]) \in Nat /\ RequestsLeft(client[c]) > 0
<1>1. /\ client[c].waits = {Sent(c)} /\ Sent(c) \in Request
      /\ client[c].todo \in SUBSET Hashes
  BY DEF Waiting, Sent, IInv, RequestsOK, ClientOK, Client, RequestOK
<1>2. IsFiniteSet(client[c].todo) /\ Cardinality(client[c].todo) \in Nat
  BY <1>1, HashesFinite, FS_Subset, FS_CardinalityType
<1>3. Sent(c).kind \in {"prepare", "put", "commit", "activate", "deactivate"}
  BY <1>1 DEF Request
<1> QED
  BY <1>1, <1>2, <1>3, LeftAt

\* All but one of a snapshot's two files.
LEMMA OneFileLeft ==
  ASSUME NEW n, NEW h \in Files(n), NEW S \in SUBSET Files(n), h \notin S
  PROVE  \E x : S \in SUBSET {x}
<1>1. CASE h = <<"latest", n>>
  BY <1>1 DEF Files
<1>2. CASE h = <<"chunk", n \div 2>>
  BY <1>2 DEF Files
<1> QED
  BY <1>1, <1>2 DEF Files

LEMMA AnswersShrink ==
  ASSUME IInv, NEW c \in Clients, Answered(c)
  PROVE  RequestsLeft(client'[c]) < RequestsLeft(client[c])
<1> DEFINE r == Sent(c)
<1>1. /\ client[c].waits = {r} /\ IsFiniteSet(client[c].todo)
      /\ Cardinality(client[c].todo) \in Nat
      /\ RequestsLeft(client[c]) \in Nat /\ RequestsLeft(client[c]) > 0
  BY LeftSome DEF Answered
<1>2. c \in DOMAIN client
  BY DEF IInv, RequestsOK
<1>3. ASSUME NEW kind, NEW h, NEW snap, NEW todo, Sends(c, Req(kind, snap, h), todo)
      PROVE  /\ kind = "put" => RequestsLeft(client'[c]) = 3 + Cardinality(todo)
             /\ kind = "commit" => RequestsLeft(client'[c]) = 2
             /\ kind = "activate" => RequestsLeft(client'[c]) = 1
  <2>1. PICK k : k = client'[c]
    OBVIOUS
  <2>2. k.waits = {Req(kind, snap, h)} /\ k.todo = todo
    BY <1>2, <1>3, <2>1 DEF Sends
  <2>3. Req(kind, snap, h).kind = kind
    BY DEF Req
  <2> QED
    BY <2>1, <2>2, <2>3, LeftAt
<1>4. CASE client' = [client EXCEPT ![c] = Idle]
  <2>1. RequestsLeft(client'[c]) = 0
    BY <1>2, <1>4, LeftIdle
  <2> QED
    BY <1>1, <2>1
<1>5. CASE r.kind = "prepare" /\ NextUpload(c, r.snap, Files(r.snap) \ staged)
  <2>1. RequestsLeft(client[c]) = 5
    BY <1>1, <1>5, LeftAt
  <2>2. CASE Sends(c, Req("commit", r.snap, NoHash), {})
    BY <1>3, <2>1, <2>2
  <2>3. ASSUME NEW h \in Files(r.snap) \ staged,
               Sends(c, Req("put", r.snap, h), (Files(r.snap) \ staged) \ {h})
        PROVE  RequestsLeft(client'[c]) < 5
    <3>1. PICK S : S = (Files(r.snap) \ staged) \ {h}
      OBVIOUS
    <3>2. PICK x : S \in SUBSET {x}
      BY <3>1, OneFileLeft
    <3>3. Cardinality(S) \in Nat /\ Cardinality(S) <= 1
      BY <3>2, AtMostOne
    <3>4. RequestsLeft(client'[c]) = 3 + Cardinality(S)
      BY <1>3, <2>3, <3>1
    <3> QED
      BY <3>3, <3>4
  <2> QED
    BY <1>5, <2>1, <2>2, <2>3 DEF NextUpload
<1>6. CASE r.kind = "put" /\ NextUpload(c, r.snap, client[c].todo)
  <2>1. RequestsLeft(client[c]) = 3 + Cardinality(client[c].todo)
    BY <1>1, <1>6, LeftAt
  <2>2. CASE Sends(c, Req("commit", r.snap, NoHash), {})
    BY <1>1, <1>3, <2>1, <2>2
  <2>3. ASSUME NEW h \in client[c].todo, Sends(c, Req("put", r.snap, h), client[c].todo \ {h})
        PROVE  RequestsLeft(client'[c]) < RequestsLeft(client[c])
    <3>1. Cardinality(client[c].todo \ {h}) = Cardinality(client[c].todo) - 1
      BY <1>1, FS_RemoveElement
    <3>2. RequestsLeft(client'[c]) = 3 + Cardinality(client[c].todo \ {h})
      BY <1>3, <2>3
    <3> QED
      BY <1>1, <2>1, <3>1, <3>2
  <2> QED
    BY <1>6, <2>2, <2>3 DEF NextUpload
<1>7. CASE r.kind = "commit" /\ Sends(c, Req("activate", r.snap, NoHash), {})
  BY <1>1, <1>3, <1>7, LeftAt
<1> QED
  BY <1>4, <1>5, <1>6, <1>7 DEF Answered, AfterCommit

\* Every run of the uploader makes at most five requests, one for each of the
\* two files of the model's snapshots, whatever it is answered (upload_v2, ops/
\* frontpage-metrics-upload.py:157-185): there is no way back in it.
THEOREM UploadsAreBounded == Spec => UploadsEnd
<1>1. ASSUME IInv, Next, NEW c \in Clients, Waiting(c)
      PROVE  \/ client'[c] = client[c]
             \/ RequestsLeft(client'[c]) < RequestsLeft(client[c])
  <2>1. client \in [Clients -> Client]
    BY <1>1 DEF IInv, RequestsOK
  <2>2. CASE TimerUploads
    BY <1>1, <2>1, <2>2 DEF TimerUploads, StartUpload, Clients
  <2>3. CASE OperatorActivates \/ OperatorDeactivates
    BY <1>1, <2>1, <2>3 DEF OperatorActivates, OperatorDeactivates, StartUpload, Clients
  <2>4. ASSUME NEW x \in Clients, x # c, Answered(x) PROVE client'[c] = client[c]
    BY <2>1, <2>4 DEF Answered, AfterCommit, NextUpload, Sends
  <2>5. ASSUME NEW x \in Clients, x # c, GivesUp(x) PROVE client'[c] = client[c]
    BY <2>1, <2>5 DEF GivesUp
  <2>6. CASE Answered(c)
    BY <1>1, <2>6, AnswersShrink
  <2>7. CASE GivesUp(c)
    <3>1. RequestsLeft(client'[c]) = 0
      BY <2>1, <2>7, LeftIdle DEF GivesUp
    <3> QED
      BY <1>1, <3>1, LeftSome
  <2>8. CASE LateHandled \/ Publish \/ Expire \/ Age
    BY <2>8 DEF LateHandled, Publish, Expire, Age
  <2> QED
    BY <1>1, <2>2, <2>3, <2>4, <2>5, <2>6, <2>7, <2>8 DEF Next
<1>2. IInv /\ [Next]_vars
        => [\A c \in Clients : Waiting(c) =>
              \/ client'[c] = client[c]
              \/ RequestsLeft(client'[c]) < RequestsLeft(client[c])]_vars
  BY <1>1
<1> QED
  BY <1>2, UploadInvariant, PTL DEF Spec, UploadsEnd

\* A quota of two snapshots (520 files, of which a snapshot has at most 259:
\* cloudflare-upload.ts:13 and 117) is enough for the last one to get in once
\* what interrupted uploads left behind is old, whatever is served meanwhile.
THEOREM LastGetsIn ==
  ASSUME Quota >= 4
  PROVE  Spec => []RoomForLast
<1>1. ASSUME IInv, disk > 0, staged \ aged \subseteq ActiveFiles \cup Files(disk),
             NEW h \in Files(disk) \ staged
      PROVE  Accepts(Req("put", disk, h))
  <2>1. PICK S : S = staged \ Useless
    OBVIOUS
  <2>2. PICK x : Files(disk) \ {h} \in SUBSET {x}
    <3>1. PICK T : T = Files(disk) \ {h}
      OBVIOUS
    <3> QED
      BY <3>1, OneFileLeft
  <2>3. PICK a, b : ActiveFiles \in SUBSET {a, b}
    BY DEF ActiveFiles, Files
  <2>4. S \in SUBSET {a, b, x}
    BY <1>1, <2>1, <2>2, <2>3 DEF Useless
  <2>5. Cardinality(S) \in Nat /\ Cardinality(S) <= 3
    BY <2>4, AtMostThree
  <2>6. ~Full(S)
    BY <2>5, UploadConstants DEF Full
  <2>7. Req("put", disk, h).kind = "put"
    BY DEF Req
  <2> QED
    BY <2>1, <2>6, <2>7 DEF Accepts
<1>2. IInv => RoomForLast
  BY <1>1 DEF RoomForLast
<1> QED
  BY <1>2, UploadInvariant, PTL

------------------------------------------------------------------------------
(* The measurement, for any budget, mix of reads and stages.  A request is *)
(* paid for when its task is taken: what the workers still owe (Pledged)   *)
(* and what was sent stay within what the stages so far were dealt         *)
(* (BudgetSound).  Only the head of the chain writes (ChainSound), so      *)
(* commits follow the time stamps (OrderSound), and every write that was   *)
(* started is accounted for (TallySound).                                  *)

LEMMA Lengths ==
  /\ CycleLength \in Nat \ {0} /\ CycleCost = CycleLength + 2 /\ CycleCost \in Nat \ {0}
  /\ Before \in 0..(CycleLength - 1) /\ After \in 0..(CycleLength - 1)
  /\ CycleLength = Before + After + 1
  /\ Len(Concurrency) \in Nat \ {0} /\ Stages = 1..Len(Concurrency)
BY HeadroomConstants DEF CycleLength, CycleCost, WriterCost, Stages

\* What a worker holds and still owes of its task.
WorkerStates == [at : {"free", "gone", "slot", "queued", "write", "read"}, task : Nat, step : 0..3,
                 sent : BOOLEAN, overdue : BOOLEAN]
Owed(k) ==
  CASE k.at = "slot" -> IF IsWriter(k.task) THEN WriterCost ELSE 1
    [] k.at = "queued" -> WriterCost
    [] k.at = "write" -> IF k.sent THEN WriterCost - k.step ELSE WriterCost - k.step + 1
    [] k.at = "read" -> IF k.sent THEN 0 ELSE 1
    [] OTHER -> 0
Pledged == {p \in AllWorkers \X (1..3) : p[2] <= Owed(worker[p[1]])}

\* The cycles dealt to the stages before s; what the first n tasks cost.
Dealt(s) == Cardinality({n \in 0..(Affordable - 1) : (n % Len(Concurrency)) + 1 < s})
Cost(n) == n + 2 * ((n + After) \div CycleLength)
Taken == IF next - 1 <= TasksOf(at) THEN next - 1 ELSE TasksOf(at)
Counts == [started : Nat, completed : Nat, failed : Nat, starved : Int, errors : Nat]

HeadTyped ==
  /\ at \in -1..Report /\ requests \in Nat /\ next \in Nat \ {0} /\ stageLate \in BOOLEAN
  /\ worker \in [AllWorkers -> WorkerStates] /\ tail \in Seq(AllWorkers)
  /\ count \in Counts /\ commits \in Seq(Nat) /\ stamp \in Nat /\ refused \in BOOLEAN

\* Outside the stages no worker is there.
IdleOutside ==
  at \notin Stages =>
    /\ next = 1 /\ count.started = 0 /\ \A w \in AllWorkers : worker[w].at = "gone"

Chained(k) == k.at \in {"queued", "write"}
Committing(k) == k.at = "write" /\ k.step = WriterCost /\ k.sent

\* The chain holds the writers, each once, and only its first writes.
ChainSound ==
  /\ \A w \in AllWorkers : Chained(worker[w]) <=> \E i \in 1..Len(tail) : tail[i] = w
  /\ \A i, j \in 1..Len(tail) : tail[i] = tail[j] => i = j
  /\ \A w \in AllWorkers : worker[w].at = "write" =>
       tail[1] = w /\ worker[w].step \in 1..WriterCost /\ worker[w].task = stamp

\* The writer's time stamp is later than all committed ones.
OrderSound ==
  /\ CommitsInOrder
  /\ \A n \in 1..Len(commits) : commits[n] <= stamp
  /\ \A w \in AllWorkers : worker[w].at = "write" /\ ~Committing(worker[w]) =>
       \A n \in 1..Len(commits) : commits[n] < stamp

\* Every write that was started is completed, failed or in the chain, and a
\* commit is a completed write, a failed one or the one under way.
Underway == IF \E w \in AllWorkers : Committing(worker[w]) THEN 1 ELSE 0
TallySound ==
  /\ at # Report \/ acceptance = "pending" =>
       count.completed + count.failed + Len(tail) + count.starved = Dealt(at) + count.started
  /\ count.completed + Underway <= Len(commits)
  /\ Len(commits) <= count.completed + count.failed + Underway
  /\ acceptance = "pending" => at = Report /\ count.failed = 0 /\ count.starved = 0

\* What has been sent and what is owed is what the stages were dealt.
BudgetSound ==
  /\ at \in Stages =>
       requests + Cardinality(Pledged) <= Preflight + CycleCost * Dealt(at) + Cost(Taken)
  /\ at \notin Stages => requests <= IF at = Report THEN Cap ELSE at + 1
  /\ ~refused

HeadInv == HeadTyped /\ IdleOutside /\ ChainSound /\ OrderSound /\ TallySound /\ BudgetSound

------------------------------------------------------------------------------
(* Division, by a positive number.                                          *)

LEMMA DivMod ==
  ASSUME NEW a \in Int, NEW m \in Nat \ {0}
  PROVE  /\ a \div m \in Int /\ a % m \in 0..(m - 1) /\ a = m * (a \div m) + (a % m)
OBVIOUS

LEMMA Divided ==
  ASSUME NEW a \in Int, NEW m \in Nat \ {0}
  PROVE  \E q \in Int : \E r \in 0..(m - 1) : q = a \div m /\ r = a % m /\ a = m * q + r
<1>1. PICK q \in Int : q = a \div m
  BY DivMod
<1>2. PICK r \in 0..(m - 1) : r = a % m
  BY DivMod
<1>3. a = m * q + r
  BY <1>1, <1>2, DivMod, Zenon
<1> QED
  BY <1>1, <1>2, <1>3

LEMMA Quotient ==
  ASSUME NEW m \in Nat \ {0}, NEW q \in Int, NEW r \in 0..(m - 1)
  PROVE  (m * q + r) \div m = q /\ (m * q + r) % m = r
<1>1. PICK a \in Int : a = m * q + r
  OBVIOUS
<1>2. PICK p \in Int : p = a \div m
  BY DivMod
<1>3. PICK s \in 0..(m - 1) : s = a % m
  BY DivMod
<1>4. a = m * p + s
  BY <1>2, <1>3, DivMod
<1>5. m * q - m * p = s - r /\ s - r < m /\ r - s < m
  BY <1>1, <1>4
<1>6. m * q - m * p = m * (q - p)
  OBVIOUS
<1>7. CASE q - p >= 1
  <2>1. PICK d \in Nat : d = q - p - 1
    BY <1>7
  <2>2. m * (q - p) = m * d + m /\ m * d >= 0
    BY <2>1
  <2> QED
    BY <1>5, <1>6, <2>2
<1>8. CASE p - q >= 1
  <2>1. PICK d \in Nat : d = p - q - 1
    BY <1>8
  <2>2. m * (q - p) = - (m * d + m) /\ m * d >= 0
    BY <2>1
  <2> QED
    BY <1>5, <1>6, <2>2
<1>9. CASE q = p
  <2>1. m * q = m * p
    BY <1>9
  <2>2. s = r
    BY <1>5, <2>1
  <2>3. a \div m = q /\ a % m = r
    BY <1>2, <1>3, <1>9, <2>2
  <2> QED
    BY <1>1, <2>3, Zenon
<1> QED
  BY <1>7, <1>8, <1>9

LEMMA Multiplied ==
  ASSUME NEW m \in Nat, NEW a \in Nat, NEW b \in Nat, a <= b
  PROVE  m * a \in Nat /\ m * a <= m * b /\ m * b \in Nat
<1>1. PICK d \in Nat : b = a + d
  OBVIOUS
<1>2. m * b = m * a + m * d /\ m * d \in Nat /\ m * a \in Nat
  BY <1>1
<1> QED
  BY <1>2

\* The cost of one more task, of a whole stage, and of a part of it.
LEMMA CostOfNext ==
  ASSUME NEW n \in Nat
  PROVE  /\ Cost(n) \in Nat
         /\ Cost(n + 1) = Cost(n) + IF IsWriter(n + 1) THEN WriterCost ELSE 1
<1>1. PICK m \in Nat \ {0} : m = CycleLength /\ m = Before + After + 1
      /\ Before \in 0..(m - 1) /\ After \in 0..(m - 1)
  BY Lengths
<1>2. PICK q \in Int : \E r \in 0..(m - 1) : q = n \div m /\ r = n % m /\ n = m * q + r
  <2>1. n \in Int
    OBVIOUS
  <2> QED
    BY <2>1, Divided, Zenon
<1>3. PICK r \in 0..(m - 1) : r = n % m /\ n = m * q + r
  BY <1>2, Zenon
<1>4. (n + 1 - 1) % m = r
  BY <1>3
<1>5. q >= 0
  <2>1. SUFFICES ASSUME q <= -1 PROVE FALSE
    BY <1>2
  <2>2. PICK d \in Nat : q = -1 - d
    BY <2>1
  <2>3. m * q = - m - m * d /\ m * d >= 0
    BY <2>2
  <2> QED
    BY <1>3, <2>3
<1>6. m * (q + 1) = m * q + m
  OBVIOUS
<1>7. CASE r < Before
  <2>1. r + After \in 0..(m - 1) /\ r + After + 1 \in 0..(m - 1)
    BY <1>1, <1>7
  <2>2. (m * q + (r + After)) \div m = q /\ (m * q + (r + After + 1)) \div m = q
    BY <2>1, Quotient
  <2>3. (n + After) \div m = q /\ (n + 1 + After) \div m = q
    BY <1>1, <1>3, <2>2
  <2>4. Cost(n) = n + 2 * (q) /\ Cost(n + 1) = n + 1 + 2 * (q)
    BY <1>1, <2>3 DEF Cost
  <2>5. ~IsWriter(n + 1)
    BY <1>1, <1>4, <1>7 DEF IsWriter
  <2> QED
    BY <1>5, <2>4, <2>5 DEF WriterCost
<1>8. CASE r = Before
  <2>1. r + After = m - 1 /\ r + After \in 0..(m - 1) /\ 0 \in 0..(m - 1)
    BY <1>1, <1>8
  <2>2. (m * q + (r + After)) \div m = q /\ (m * (q + 1) + 0) \div m = q + 1
    BY <2>1, Quotient
  <2>3. (n + After) \div m = q /\ (n + 1 + After) \div m = q + 1
    <3>1. n + After = m * q + (r + After) /\ n + 1 + After = m * (q + 1) + 0
      BY <1>1, <1>3, <1>6, <2>1
    <3> QED
      BY <2>2, <3>1
  <2>4. Cost(n) = n + 2 * (q) /\ Cost(n + 1) = n + 1 + 2 * (q + 1)
    BY <1>1, <2>3 DEF Cost
  <2>5. IsWriter(n + 1)
    BY <1>1, <1>4, <1>8 DEF IsWriter
  <2> QED
    BY <1>5, <2>4, <2>5 DEF WriterCost
<1>9. CASE r > Before
  <2>1. r + After - m \in 0..(m - 1) /\ r + After + 1 - m \in 0..(m - 1)
    BY <1>1, <1>9
  <2>2. /\ (m * (q + 1) + (r + After - m)) \div m = q + 1
        /\ (m * (q + 1) + (r + After + 1 - m)) \div m = q + 1
    <3>1. q + 1 \in Int
      OBVIOUS
    <3> QED
      BY <2>1, <3>1, Quotient, Zenon
  <2>3. (n + After) \div m = q + 1 /\ (n + 1 + After) \div m = q + 1
    <3>1. /\ n + After = m * (q + 1) + (r + After - m)
          /\ n + 1 + After = m * (q + 1) + (r + After + 1 - m)
      BY <1>1, <1>3, <1>6
    <3> QED
      BY <2>2, <3>1
  <2>4. Cost(n) = n + 2 * (q + 1) /\ Cost(n + 1) = n + 1 + 2 * (q + 1)
    BY <1>1, <2>3 DEF Cost
  <2>5. ~IsWriter(n + 1)
    BY <1>1, <1>4, <1>9 DEF IsWriter
  <2> QED
    BY <1>5, <2>4, <2>5 DEF WriterCost
<1> QED
  BY <1>1, <1>7, <1>8, <1>9

LEMMA CostOfNone == Cost(0) = 0
<1>1. (CycleLength * 0 + After) \div CycleLength = 0 /\ CycleLength * 0 = 0
  BY Lengths, Quotient
<1> QED
  BY <1>1, Lengths DEF Cost

\* Tasks of c cycles cost no more than their cycles.
LEMMA CostOfCycles ==
  ASSUME NEW c \in Nat, NEW n \in Nat, n <= c * CycleLength
  PROVE  Cost(n) <= CycleCost * c
<1>1. PICK m \in Nat \ {0} : m = CycleLength /\ After \in 0..(m - 1) /\ CycleCost = m + 2
  BY Lengths
<1>2. PICK q \in Int : \E r \in 0..(m - 1) : q = (n + After) \div m /\ r = (n + After) % m
                                           /\ n + After = m * q + r
  <2>1. n + After \in Int
    BY <1>1
  <2> QED
    BY <2>1, Divided, Zenon
<1>3. PICK r \in 0..(m - 1) : q = (n + After) \div m /\ n + After = m * q + r
  BY <1>2, Zenon
<1>4. q <= c
  <2>1. SUFFICES ASSUME q >= c + 1 PROVE FALSE
    BY <1>2
  <2>2. PICK d \in Nat : q = c + 1 + d
    BY <2>1
  <2>3. m * q = m * c + m + m * d /\ m * d >= 0
    BY <2>2
  <2>4. c * m = m * c
    OBVIOUS
  <2> QED
    BY <1>1, <1>3, <2>3, <2>4
<1>5. CycleCost * c = m * c + 2 * c /\ c * m = m * c /\ m * c \in Int
  BY <1>1
<1>6. Cost(n) = n + 2 * q
  BY <1>1, <1>2 DEF Cost
<1>7. n <= m * c
  BY <1>1, <1>5
<1>8. n + 2 * q <= m * c + 2 * c
  BY <1>4, <1>5, <1>7
<1>9. Cost(n) <= m * c + 2 * c
  BY <1>6, <1>8
<1> QED
  BY <1>5, <1>9, Zenon

------------------------------------------------------------------------------
(* The workers and what they owe; the cycles and what they cost.            *)

LEMMA WorkersFinite == IsFiniteSet(AllWorkers)
<1> DEFINE f == [n \in Stages |-> 1..Concurrency[n]]
           T == {1..Concurrency[n] : n \in Stages}
<1>1. f \in Surjection(Stages, T)
  BY DEF Surjection
<1>2. IsFiniteSet(Stages)
  BY Lengths, FS_Interval
<1>3. IsFiniteSet(T)
  BY <1>1, <1>2, FS_Surjection, Zenon
<1>4. \A t \in T : IsFiniteSet(t)
  <2> SUFFICES ASSUME NEW n \in Stages PROVE IsFiniteSet(1..Concurrency[n])
    OBVIOUS
  <2>1. Concurrency[n] \in Int
    BY Lengths, HeadroomConstants
  <2> QED
    BY <2>1, FS_Interval
<1> QED
  BY <1>3, <1>4, FS_UNION DEF AllWorkers

LEMMA PledgedFinite == IsFiniteSet(Pledged) /\ Cardinality(Pledged) \in Nat
<1>1. IsFiniteSet(AllWorkers \X (1..3))
  <2>0. PICK b \in Int : b = 3
    OBVIOUS
  <2>1. IsFiniteSet(1..b)
    BY FS_Interval
  <2> QED
    BY <2>0, <2>1, WorkersFinite, FS_Product, Zenon
<1>2. Pledged \in SUBSET (AllWorkers \X (1..3))
  BY DEF Pledged
<1> QED
  BY <1>1, <1>2, FS_Subset, FS_CardinalityType

\* The states of a worker without a task, and of one that was given one.
LEMMA RestStates ==
  /\ Free \in WorkerStates /\ Free.at = "free" /\ Owed(Free) = 0
  /\ Gone \in WorkerStates /\ Gone.at = "gone" /\ Owed(Gone) = 0
  /\ \A n \in Nat : /\ [Free EXCEPT !.at = "slot", !.task = n] \in WorkerStates
                    /\ [Free EXCEPT !.at = "slot", !.task = n].at = "slot"
                    /\ [Free EXCEPT !.at = "slot", !.task = n].task = n
<1>1. Free \in WorkerStates /\ Free.at = "free"
  BY DEF Free, WorkerStates
<1>2. PICK g : g = [Free EXCEPT !.at = "gone"]
  OBVIOUS
<1>3. g \in WorkerStates /\ g.at = "gone"
  BY <1>1, <1>2 DEF WorkerStates
<1>4. Owed(Free) = 0 /\ Owed(g) = 0
  BY <1>1, <1>3 DEF Owed
<1>5. \A n \in Nat : /\ [Free EXCEPT !.at = "slot", !.task = n] \in WorkerStates
                     /\ [Free EXCEPT !.at = "slot", !.task = n].at = "slot"
                     /\ [Free EXCEPT !.at = "slot", !.task = n].task = n
  BY <1>1 DEF WorkerStates
<1> QED
  BY <1>1, <1>2, <1>3, <1>4, <1>5 DEF Gone

LEMMA PledgedNext == Cardinality(Pledged') \in Nat
<1>1. PICK W : W = worker'
  OBVIOUS
<1>2. Pledged' = {p \in AllWorkers \X (1..3) : p[2] <= Owed(W[p[1]])}
  BY <1>1 DEF Pledged, Owed
<1>3. IsFiniteSet(AllWorkers \X (1..3))
  <2>1. PICK b \in Int : b = 3
    OBVIOUS
  <2>2. IsFiniteSet(1..b)
    BY FS_Interval
  <2> QED
    BY <2>1, <2>2, WorkersFinite, FS_Product, Zenon
<1>4. Pledged' \in SUBSET (AllWorkers \X (1..3))
  BY <1>2
<1> QED
  BY <1>3, <1>4, FS_Subset, FS_CardinalityType

LEMMA OwedOf ==
  ASSUME NEW k \in WorkerStates
  PROVE  /\ k.at \in {"free", "gone"} => Owed(k) = 0
         /\ k.at = "slot" => Owed(k) = IF IsWriter(k.task) THEN 3 ELSE 1
         /\ k.at = "queued" => Owed(k) = 3
         /\ k.at = "write" => Owed(k) = IF k.sent THEN 3 - k.step ELSE 3 - k.step + 1
         /\ k.at = "read" => Owed(k) = IF k.sent THEN 0 ELSE 1
BY DEF Owed, WriterCost

LEMMA Affords ==
  /\ Affordable \in Nat /\ Preflight + CycleCost * Affordable <= Cap
<1>1. PICK c \in Nat \ {0} : c = CycleCost
  BY Lengths
<1>2. PICK a \in Nat : a = Cap - Preflight
  BY HeadroomConstants DEF Preflight
<1>3. PICK q \in Int : \E r \in 0..(c - 1) : q = a \div c /\ r = a % c /\ a = c * q + r
  <2>1. a \in Int
    OBVIOUS
  <2> QED
    BY <2>1, Divided, Zenon
<1>4. PICK r \in 0..(c - 1) : q = a \div c /\ a = c * q + r
  BY <1>3, Zenon
<1>5. q >= 0
  <2>1. SUFFICES ASSUME q <= -1 PROVE FALSE
    OBVIOUS
  <2>2. PICK d \in Nat : q = -1 - d
    BY <2>1
  <2>3. c * q = - c - c * d /\ c * d >= 0
    BY <2>2
  <2> QED
    BY <1>4, <2>3
<1>6. Affordable = q
  BY <1>1, <1>2, <1>4 DEF Affordable
<1>7. c * q <= a /\ c * q \in Int
  BY <1>4
<1> QED
  BY <1>1, <1>2, <1>5, <1>6, <1>7, HeadroomConstants DEF Preflight

Cycles == 0..(Affordable - 1)
Turn(n) == (n % Len(Concurrency)) + 1
DealtTo(s) == {n \in Cycles : Turn(n) < s}

LEMMA CyclesFinite ==
  /\ IsFiniteSet(Cycles) /\ Cardinality(Cycles) = Affordable
  /\ \A S \in SUBSET Cycles : /\ IsFiniteSet(S) /\ Cardinality(S) \in Nat
                             /\ Cardinality(S) <= Affordable
<1>1. IsFiniteSet(Cycles) /\ Cardinality(Cycles) = Affordable
  <2>1. PICK b \in Int : b = Affordable - 1
    BY Affords
  <2>2. IsFiniteSet(0..b) /\ Cardinality(0..b) = IF 0 > b THEN 0 ELSE b - 0 + 1
    BY FS_Interval
  <2>3. Cycles = 0..b
    BY <2>1 DEF Cycles
  <2>4. (IF 0 > b THEN 0 ELSE b - 0 + 1) = Affordable
    BY <2>1, Affords
  <2> QED
    BY <2>2, <2>3, <2>4, Zenon
<1>2. ASSUME NEW S \in SUBSET Cycles
      PROVE  IsFiniteSet(S) /\ Cardinality(S) \in Nat /\ Cardinality(S) <= Affordable
  <2>1. IsFiniteSet(S) /\ Cardinality(S) <= Cardinality(Cycles)
    BY <1>1, FS_Subset
  <2>2. Cardinality(S) \in Nat
    BY <2>1, FS_CardinalityType
  <2> QED
    BY <1>1, <2>1, <2>2
<1> QED
  BY <1>1, <1>2

LEMMA DealtFacts ==
  ASSUME NEW s \in Int
  PROVE  /\ Dealt(s) \in Nat /\ Dealt(s) <= Affordable
         /\ CyclesOf(s) \in Nat /\ Dealt(s + 1) = Dealt(s) + CyclesOf(s)
         /\ s <= 1 => Dealt(s) = 0
         /\ s = Report => Dealt(s) = Affordable
<1>1. \A n \in Cycles : Turn(n) \in 1..Len(Concurrency)
  <2> TAKE n \in Cycles
  <2>1. n \in Int /\ Len(Concurrency) \in Nat \ {0}
    BY Lengths DEF Cycles
  <2>2. n % Len(Concurrency) \in 0..(Len(Concurrency) - 1)
    BY <2>1, DivMod
  <2> QED
    BY <2>1, <2>2 DEF Turn
<1>2. Dealt(s) = Cardinality(DealtTo(s)) /\ Dealt(s + 1) = Cardinality(DealtTo(s + 1))
  BY DEF Dealt, DealtTo, Cycles, Turn
<1> DEFINE own == {n \in Cycles : Turn(n) = s}
<1>3. CyclesOf(s) = Cardinality(own)
  BY DEF CyclesOf, Cycles, Turn
<1>4. DealtTo(s) \in SUBSET Cycles /\ own \in SUBSET Cycles
  BY DEF DealtTo
<1>5. DealtTo(s + 1) = DealtTo(s) \cup own /\ DealtTo(s) \cap own = {}
  BY <1>1 DEF DealtTo
<1>6. /\ IsFiniteSet(DealtTo(s)) /\ IsFiniteSet(own) /\ Cardinality(DealtTo(s)) \in Nat
      /\ Cardinality(own) \in Nat /\ Cardinality(DealtTo(s)) <= Affordable
  BY <1>4, CyclesFinite
<1>7. Cardinality(DealtTo(s + 1)) = Cardinality(DealtTo(s)) + Cardinality(own)
  <2>1. Cardinality(DealtTo(s) \cup own)
        = Cardinality(DealtTo(s)) + Cardinality(own) - Cardinality(DealtTo(s) \cap own)
    BY <1>6, FS_Union
  <2>2. Cardinality(DealtTo(s) \cap own) = 0
    BY <1>5, FS_EmptySet
  <2>3. Cardinality(DealtTo(s + 1)) = Cardinality(DealtTo(s) \cup own)
    BY <1>5, Zenon
  <2> HIDE DEF own
  <2> QED
    BY <1>6, <2>1, <2>2, <2>3
<1>8. s <= 1 => Dealt(s) = 0
  <2>1. s <= 1 => DealtTo(s) = {}
    BY <1>1 DEF DealtTo
  <2> QED
    BY <1>2, <2>1, FS_EmptySet
<1>9. s = Report => Dealt(s) = Affordable
  <2>1. s = Report => DealtTo(s) = Cycles
    BY <1>1, Lengths DEF DealtTo, Report
  <2> QED
    BY <1>2, <2>1, CyclesFinite
<1> QED
  BY <1>2, <1>3, <1>6, <1>7, <1>8, <1>9

\* What the stages up to s may send, and what s has.
LEMMA WithinStage ==
  ASSUME NEW s \in Int, NEW n \in Nat, n <= TasksOf(s)
  PROVE  /\ Preflight + CycleCost * Dealt(s) + Cost(n) <= Preflight + CycleCost * Dealt(s + 1)
         /\ Preflight + CycleCost * Dealt(s) + Cost(n) <= Cap
         /\ Preflight + CycleCost * Dealt(s) + Cost(n) \in Nat
<1>1. CyclesOf(s) \in Nat /\ Dealt(s) \in Nat /\ Dealt(s + 1) = Dealt(s) + CyclesOf(s)
      /\ Dealt(s + 1) <= Affordable
  BY DealtFacts
<1>2. Cost(n) \in Nat /\ Cost(n) <= CycleCost * CyclesOf(s)
  BY <1>1, CostOfNext, CostOfCycles DEF TasksOf
<1>3. PICK c \in Nat : c = CycleCost
  BY Lengths
<1>4. c * (Dealt(s) + CyclesOf(s)) = c * Dealt(s) + c * CyclesOf(s) /\ c * Dealt(s) \in Nat
      /\ c * CyclesOf(s) \in Nat
  BY <1>1
<1>5. c * Dealt(s + 1) <= c * Affordable /\ c * Affordable \in Nat
  BY <1>1, Affords, Multiplied
<1>6. Preflight + c * Affordable <= Cap
  BY <1>3, Affords
<1>7. PICK x \in Nat : x = c * Dealt(s)
  BY <1>4
<1>8. PICK y \in Nat : y = c * Dealt(s + 1)
  BY <1>1, <1>4
<1>9. x + Cost(n) <= y
  BY <1>1, <1>2, <1>3, <1>4, <1>7, <1>8
<1>10. 2 + y <= Cap
  BY <1>5, <1>6, <1>8, HeadroomConstants DEF Preflight
<1> QED
  BY <1>2, <1>3, <1>7, <1>8, <1>9, <1>10, HeadroomConstants DEF Preflight

------------------------------------------------------------------------------
(* One worker comes to k.                                                   *)

Moves(w, k) == worker' = [worker EXCEPT ![w] = k]

LEMMA MovesFacts ==
  ASSUME HeadTyped, NEW w \in AllWorkers, NEW k \in WorkerStates, Moves(w, k)
  PROVE  /\ worker' \in [AllWorkers -> WorkerStates] /\ worker'[w] = k
         /\ \A v \in AllWorkers : v # w => worker'[v] = worker[v]
         /\ worker[w] \in WorkerStates
BY DEF HeadTyped, Moves

LEMMA Working ==
  ASSUME HeadInv, NEW w \in AllWorkers, worker[w].at # "gone"
  PROVE  at \in Stages /\ at \in Int
BY DEF HeadInv, IdleOutside, HeadTyped

\* It owes no more than before, or sends a request that it owed.
LEMMA PledgedLess ==
  ASSUME HeadTyped, NEW w \in AllWorkers, NEW k \in WorkerStates, Moves(w, k),
         Owed(k) \in 0..3, Owed(worker[w]) \in 0..3, Owed(k) <= Owed(worker[w])
  PROVE  /\ Cardinality(Pledged') <= Cardinality(Pledged)
         /\ Owed(k) < Owed(worker[w]) => Cardinality(Pledged') + 1 <= Cardinality(Pledged)
<1>1. PICK W : W = worker'
  OBVIOUS
<1>2. W[w] = k /\ \A v \in AllWorkers : v # w => W[v] = worker[v]
  BY <1>1, MovesFacts
<1>3. PICK P : P = {p \in AllWorkers \X (1..3) : p[2] <= Owed(W[p[1]])}
  OBVIOUS
<1>4. Pledged' = P
  BY <1>1, <1>3 DEF Pledged, Owed
<1>5. ASSUME NEW p \in P
      PROVE  /\ p \in Pledged
             /\ Owed(k) < Owed(worker[w]) => p # <<w, Owed(worker[w])>>
  <2>1. p \in AllWorkers \X (1..3) /\ p[2] <= Owed(W[p[1]]) /\ p[2] \in Int /\ p[1] \in AllWorkers
    BY <1>3
  <2>2. CASE p[1] = w
    BY <1>2, <2>1, <2>2 DEF Pledged
  <2>3. CASE p[1] # w
    BY <1>2, <2>1, <2>3 DEF Pledged
  <2> QED
    BY <2>2, <2>3
<1>6. Cardinality(P) <= Cardinality(Pledged)
  BY <1>5, PledgedFinite, FS_Subset
<1>7. CASE Owed(k) < Owed(worker[w])
  <2> DEFINE x == <<w, Owed(worker[w])>>
  <2>1. x \in Pledged
    BY <1>7 DEF Pledged
  <2>2. P \in SUBSET (Pledged \ {x})
    BY <1>5, <1>7
  <2>3. IsFiniteSet(Pledged \ {x}) /\ Cardinality(Pledged \ {x}) = Cardinality(Pledged) - 1
    BY <2>1, PledgedFinite, FS_RemoveElement
  <2>4. Cardinality(P) <= Cardinality(Pledged \ {x}) /\ IsFiniteSet(P)
    BY <2>2, <2>3, FS_Subset
  <2>5. Cardinality(P) \in Nat
    BY <2>4, FS_CardinalityType
  <2>6. Cardinality(P) + 1 <= Cardinality(Pledged)
    BY <2>3, <2>4, <2>5, PledgedFinite
  <2> QED
    BY <1>4, <1>6, <2>6
<1> QED
  BY <1>4, <1>6, <1>7

LEMMA OneAdded ==
  ASSUME NEW S, NEW x, IsFiniteSet(S)
  PROVE  /\ IsFiniteSet(S \cup {x}) /\ Cardinality(S \cup {x}) \in Nat
         /\ Cardinality(S \cup {x}) <= Cardinality(S) + 1
<1>1. IsFiniteSet(S \cup {x}) /\ Cardinality(S \cup {x}) =
            IF x \in S THEN Cardinality(S) ELSE Cardinality(S) + 1
  BY FS_AddElement
<1>2. Cardinality(S) \in Nat
  BY FS_CardinalityType
<1> QED
  BY <1>1, <1>2

\* It owed nothing and owes a task.
LEMMA PledgedMore ==
  ASSUME HeadTyped, NEW w \in AllWorkers, NEW k \in WorkerStates, Moves(w, k),
         Owed(k) \in {1, 3}, Owed(worker[w]) = 0
  PROVE  Cardinality(Pledged') <= Cardinality(Pledged) + Owed(k)
<1>1. PICK W : W = worker'
  OBVIOUS
<1>2. W[w] = k /\ \A v \in AllWorkers : v # w => W[v] = worker[v]
  BY <1>1, MovesFacts
<1>3. PICK P : P = {p \in AllWorkers \X (1..3) : p[2] <= Owed(W[p[1]])}
  OBVIOUS
<1>4. Pledged' = P
  BY <1>1, <1>3 DEF Pledged, Owed
<1> DEFINE A == Pledged \cup {<<w, 1>>}
           B == A \cup {<<w, 2>>}
           C == B \cup {<<w, 3>>}
<1>5. ASSUME NEW p \in P
      PROVE  p \in C /\ (Owed(k) = 1 => p \in A)
  <2>1. p \in AllWorkers \X (1..3) /\ p[2] <= Owed(W[p[1]]) /\ p[2] \in 1..3 /\ p[1] \in AllWorkers
        /\ p = <<p[1], p[2]>>
    BY <1>3
  <2>2. CASE p[1] = w
    BY <1>2, <2>1, <2>2
  <2>3. CASE p[1] # w
    BY <1>2, <2>1, <2>3 DEF Pledged
  <2> QED
    BY <2>2, <2>3
<1>6. IsFiniteSet(A) /\ Cardinality(A) <= Cardinality(Pledged) + 1 /\ Cardinality(A) \in Nat
  BY PledgedFinite, OneAdded
<1> HIDE DEF A
<1>7. IsFiniteSet(B) /\ Cardinality(B) <= Cardinality(Pledged) + 2 /\ Cardinality(B) \in Nat
  <2>1. IsFiniteSet(B) /\ Cardinality(B) <= Cardinality(A) + 1 /\ Cardinality(B) \in Nat
    BY <1>6, OneAdded
  <2> QED
    BY <1>6, <2>1, PledgedFinite
<1> HIDE DEF B
<1>8. IsFiniteSet(C) /\ Cardinality(C) <= Cardinality(Pledged) + 3 /\ Cardinality(C) \in Nat
  <2>1. IsFiniteSet(C) /\ Cardinality(C) <= Cardinality(B) + 1 /\ Cardinality(C) \in Nat
    BY <1>7, OneAdded
  <2> QED
    BY <1>7, <2>1, PledgedFinite
<1> HIDE DEF C
<1>9. CASE Owed(k) = 1
  <2>1. P \in SUBSET A
    BY <1>5, <1>9
  <2>2. Cardinality(P) <= Cardinality(A) /\ IsFiniteSet(P)
    BY <1>6, <2>1, FS_Subset
  <2>3. Cardinality(P) \in Nat
    BY <2>2, FS_CardinalityType
  <2> QED
    BY <1>4, <1>6, <1>9, <2>2, <2>3, PledgedFinite
<1>10. CASE Owed(k) = 3
  <2>1. P \in SUBSET C
    BY <1>5
  <2>2. Cardinality(P) <= Cardinality(C) /\ IsFiniteSet(P)
    BY <1>8, <2>1, FS_Subset
  <2>3. Cardinality(P) \in Nat
    BY <2>2, FS_CardinalityType
  <2> QED
    BY <1>4, <1>8, <1>10, <2>2, <2>3, PledgedFinite
<1> QED
  BY <1>9, <1>10

LEMMA TakenFacts ==
  ASSUME HeadTyped, at \in Stages
  PROVE  Taken \in Nat /\ Taken <= TasksOf(at) /\ TasksOf(at) \in Nat
<1>1. at \in Int /\ next \in Nat \ {0}
  BY DEF HeadTyped
<1>2. TasksOf(at) \in Nat
  <2>1. PICK c \in Nat : c = CyclesOf(at)
    BY <1>1, DealtFacts
  <2>2. PICK m \in Nat : m = CycleLength
    BY Lengths
  <2>3. c * m \in Nat
    OBVIOUS
  <2> QED
    BY <2>1, <2>2, <2>3 DEF TasksOf
<1> QED
  BY <1>1, <1>2 DEF Taken

\* The budget of a stage bears a request that is owed.
LEMMA BudgetLeft ==
  ASSUME HeadInv, NEW w \in AllWorkers, at \in Stages, Owed(worker[w]) \in 1..3
  PROVE  requests < Cap
<1>1. <<w, 1>> \in Pledged
  BY DEF Pledged
<1>2. Cardinality(Pledged) # 0 /\ Cardinality(Pledged) \in Nat
  BY <1>1, PledgedFinite, FS_EmptySet
<1>3. HeadTyped /\ requests \in Nat /\ at \in Int
  BY DEF HeadInv, HeadTyped
<1>4. Preflight + CycleCost * Dealt(at) + Cost(Taken) <= Cap
      /\ Preflight + CycleCost * Dealt(at) + Cost(Taken) \in Nat
  BY <1>3, TakenFacts, WithinStage
<1>5. requests + Cardinality(Pledged) <= Preflight + CycleCost * Dealt(at) + Cost(Taken)
  BY DEF HeadInv, BudgetSound
<1>6. PICK b \in Nat : b = Preflight + CycleCost * Dealt(at) + Cost(Taken)
  BY <1>4
<1>7. b <= Cap /\ requests + Cardinality(Pledged) <= b
  BY <1>4, <1>5, <1>6
<1> QED
  BY <1>2, <1>3, <1>7, HeadroomConstants

\* What a worker in its place owes.
LEMMA OwedRange ==
  ASSUME NEW k \in WorkerStates, k.at = "write" => k.step \in 1..3
  PROVE  Owed(k) \in 0..3
<1>1. k.step \in Int /\ k.at \in {"free", "gone", "slot", "queued", "write", "read"}
  BY DEF WorkerStates
<1> QED
  BY <1>1, OwedOf

LEMMA InPlace ==
  ASSUME HeadInv, NEW w \in AllWorkers
  PROVE  /\ worker[w] \in WorkerStates /\ Owed(worker[w]) \in 0..3
         /\ worker[w].at = "write" => /\ worker[w].step \in 1..3 /\ worker[w].task = stamp
                                      /\ tail[1] = w
<1>1. worker[w] \in WorkerStates
  BY DEF HeadInv, HeadTyped
<1>2. worker[w].at = "write" => /\ worker[w].step \in 1..3 /\ worker[w].task = stamp
                                /\ tail[1] = w
  BY DEF HeadInv, ChainSound, WriterCost
<1> QED
  BY <1>1, <1>2, OwedRange

\* A worker may only send what it owes.
LEMMA BudgetStep ==
  ASSUME HeadInv, NEW w \in AllWorkers, NEW k \in WorkerStates, Moves(w, k),
         worker[w].at # "gone", at' = at, next' = next, ~refused',
         Owed(k) \in 0..3, Owed(k) <= Owed(worker[w]),
         \/ requests' = requests
         \/ requests' = requests + 1 /\ Owed(k) < Owed(worker[w])
  PROVE  BudgetSound'
<1>1. at \in Stages /\ at \in Int /\ requests \in Nat /\ HeadTyped
  BY Working DEF HeadInv, HeadTyped
<1>2. Owed(worker[w]) \in 0..3
  BY InPlace
<1>3. /\ Cardinality(Pledged') <= Cardinality(Pledged)
      /\ Owed(k) < Owed(worker[w]) => Cardinality(Pledged') + 1 <= Cardinality(Pledged)
  BY <1>1, <1>2, PledgedLess
<1>4. PICK b \in Nat : b = Preflight + CycleCost * Dealt(at) + Cost(Taken)
  BY <1>1, TakenFacts, WithinStage
<1>5. requests + Cardinality(Pledged) <= b
  BY <1>1, <1>4 DEF HeadInv, BudgetSound
<1>6. Dealt(at') = Dealt(at) /\ Taken' = Taken
  BY DEF Taken, TasksOf, CyclesOf
<1>7. PICK c : c = Cardinality(Pledged)
  OBVIOUS
<1>8. PICK d : d = Cardinality(Pledged')
  OBVIOUS
<1>9. c \in Nat /\ d \in Nat
  BY <1>7, <1>8, PledgedFinite, PledgedNext
<1>10. requests' + d <= b
  BY <1>1, <1>2, <1>3, <1>5, <1>7, <1>8, <1>9
<1>11. requests' + Cardinality(Pledged') <= Preflight + CycleCost * Dealt(at') + Cost(Taken')
  BY <1>4, <1>6, <1>8, <1>10, Zenon
<1>12. requests' + Cardinality(Pledged') <= Preflight + CycleCost * Dealt(at)' + Cost(Taken)'
  BY <1>11 DEF Cost, Dealt
<1> QED
  BY <1>1, <1>12 DEF BudgetSound

\* Whether a commit is under way, when no one comes to it or leaves it.
LEMMA UnderwayKept ==
  ASSUME HeadTyped, NEW w \in AllWorkers, NEW k \in WorkerStates, Moves(w, k),
         Committing(k) <=> Committing(worker[w])
  PROVE  Underway' = Underway
<1>1. PICK W : W = worker'
  OBVIOUS
<1>2. W[w] = k /\ \A v \in AllWorkers : v # w => W[v] = worker[v]
  BY <1>1, MovesFacts
<1>3. Underway' = IF \E v \in AllWorkers : Committing(W[v]) THEN 1 ELSE 0
  BY <1>1 DEF Underway, Committing
<1>4. \A v \in AllWorkers : Committing(W[v]) <=> Committing(worker[v])
  BY <1>2
<1> QED
  BY <1>3, <1>4 DEF Underway

\* A worker takes a step that no other is concerned with.
LEMMA QuietRest ==
  ASSUME HeadInv, NEW w \in AllWorkers, NEW k \in WorkerStates, Moves(w, k),
         worker[w].at # "gone",
         UNCHANGED <<at, tail, stamp, commits, acceptance>>,
         stageLate' \in BOOLEAN, refused' \in BOOLEAN, next' \in Nat \ {0}, requests' \in Nat,
         count' \in Counts, count'.completed = count.completed, count'.failed = count.failed,
         count'.started = count.started, count'.starved = count.starved,
         Chained(k) <=> Chained(worker[w]), Committing(k) <=> Committing(worker[w]),
         k.at = "write" => worker[w].at = "write" /\ k.task = worker[w].task /\ k.step \in 1..3
  PROVE  HeadTyped' /\ IdleOutside' /\ ChainSound' /\ OrderSound' /\ TallySound'
<1>1. HeadTyped /\ at \in Stages
  BY Working DEF HeadInv
<1>2. /\ worker' \in [AllWorkers -> WorkerStates] /\ worker'[w] = k
      /\ \A v \in AllWorkers : v # w => worker'[v] = worker[v]
  BY <1>1, MovesFacts
<1>3. HeadTyped'
  BY <1>1, <1>2 DEF HeadTyped, WorkerStates, Counts, Report
<1>4. IdleOutside'
  BY <1>1 DEF IdleOutside
<1>5. ChainSound'
  <2>1. \A v \in AllWorkers : Chained(worker'[v]) <=> Chained(worker[v])
    BY <1>2
  <2>2. \A v \in AllWorkers : worker'[v].at = "write" =>
           worker[v].at = "write" /\ worker'[v].task = worker[v].task /\ worker'[v].step \in 1..3
    BY <1>2, InPlace
  <2>3. \A v \in AllWorkers : Chained(worker'[v]) <=> \E i \in 1..Len(tail) : tail[i] = v
    BY <2>1 DEF HeadInv, ChainSound
  <2>4. \A v \in AllWorkers : worker'[v].at = "write" =>
           tail[1] = v /\ worker'[v].step \in 1..WriterCost /\ worker'[v].task = stamp
    BY <2>2 DEF HeadInv, ChainSound, WriterCost
  <2>5. \A i, j \in 1..Len(tail) : tail[i] = tail[j] => i = j
    BY DEF HeadInv, ChainSound
  <2> QED
    BY <2>3, <2>4, <2>5 DEF ChainSound, Chained
<1>6. OrderSound'
  <2>1. \A v \in AllWorkers : worker'[v].at = "write" /\ ~Committing(worker'[v]) =>
           worker[v].at = "write" /\ ~Committing(worker[v])
    BY <1>2
  <2>2. \A v \in AllWorkers : worker'[v].at = "write" /\ ~Committing(worker'[v]) =>
           \A n \in 1..Len(commits) : commits[n] < stamp
    BY <2>1 DEF HeadInv, OrderSound
  <2>3. CommitsInOrder' /\ \A n \in 1..Len(commits) : commits[n] <= stamp
    BY DEF HeadInv, OrderSound, CommitsInOrder
  <2> QED
    BY <2>2, <2>3 DEF OrderSound, Committing
<1>7. TallySound'
  <2>1. Underway' = Underway
    BY <1>1, UnderwayKept
  <2>2. Dealt(at)' = Dealt(at)
    BY DEF Dealt
  <2> QED
    BY <2>1, <2>2 DEF HeadInv, TallySound, Report
<1> QED
  BY <1>3, <1>4, <1>5, <1>6, <1>7

LEMMA QuietStep ==
  ASSUME HeadInv, NEW w \in AllWorkers, NEW k \in WorkerStates, Moves(w, k),
         worker[w].at # "gone",
         UNCHANGED <<at, next, tail, stamp, commits, acceptance>>, ~refused',
         stageLate' \in BOOLEAN, refused' \in BOOLEAN,
         count' \in Counts, count'.completed = count.completed, count'.failed = count.failed,
         count'.started = count.started, count'.starved = count.starved,
         Chained(k) <=> Chained(worker[w]), Committing(k) <=> Committing(worker[w]),
         k.at = "write" => worker[w].at = "write" /\ k.task = worker[w].task /\ k.step \in 1..3,
         Owed(k) <= Owed(worker[w]),
         \/ requests' = requests
         \/ requests' = requests + 1 /\ Owed(k) < Owed(worker[w])
  PROVE  HeadInv'
<1>1. requests' \in Nat /\ next' \in Nat \ {0}
  BY DEF HeadInv, HeadTyped
<1>2. HeadTyped' /\ IdleOutside' /\ ChainSound' /\ OrderSound' /\ TallySound'
  BY <1>1, QuietRest
<1>3. Owed(k) \in 0..3
  BY OwedRange
<1>4. BudgetSound'
  BY <1>3, BudgetStep
<1> QED
  BY <1>2, <1>4 DEF HeadInv

------------------------------------------------------------------------------
(* The steps that only concern a worker and its budget.                     *)

LEMMA OverdueStep ==
  ASSUME HeadInv, NEW w \in AllWorkers, WriteOverdue(w)
  PROVE  HeadInv'
<1>2. PICK k : k = [worker[w] EXCEPT !.overdue = TRUE]
  OBVIOUS
<1>3. worker[w] \in WorkerStates
  BY InPlace
<1>4. /\ k \in WorkerStates /\ k.at = worker[w].at /\ k.task = worker[w].task
      /\ k.step = worker[w].step /\ k.sent = worker[w].sent
  BY <1>2, <1>3 DEF WorkerStates
<1>5. Moves(w, k)
  BY <1>2 DEF WriteOverdue, Moves
<1>6. Owed(k) = Owed(worker[w])
  BY <1>4 DEF Owed
<1>7. Owed(worker[w]) \in 0..3 /\ (worker[w].at = "write" => worker[w].step \in 1..3)
  BY InPlace
<1>8. ~refused /\ refused \in BOOLEAN /\ stageLate \in BOOLEAN /\ count \in Counts
  BY DEF HeadInv, BudgetSound, HeadTyped
<1> QED
  BY <1>3, <1>4, <1>5, <1>6, <1>7, <1>8, QuietStep DEF WriteOverdue, Chained, Committing

LEMMA DeadlineStep ==
  ASSUME HeadInv, DeadlinePasses
  PROVE  HeadInv'
<1>1. HeadTyped'
  BY DEF DeadlinePasses, HeadInv, HeadTyped, WorkerStates, Counts, Report
<1>2. IdleOutside' /\ ChainSound'
  BY DEF DeadlinePasses, HeadInv, IdleOutside, ChainSound, Chained
<1>3. OrderSound'
  BY DEF DeadlinePasses, HeadInv, OrderSound, CommitsInOrder, Committing
<1>4. TallySound'
  BY DEF DeadlinePasses, HeadInv, TallySound, Underway, Committing, Dealt, Report
<1>5. BudgetSound'
  <2>1. Pledged' = Pledged
    BY DEF DeadlinePasses, Pledged, Owed
  <2>2. Taken' = Taken /\ Dealt(at)' = Dealt(at)
    BY DEF DeadlinePasses, Taken, TasksOf, CyclesOf, Dealt
  <2>3. Cost(Taken)' = Cost(Taken)
    BY <2>2 DEF Cost
  <2> QED
    BY <2>1, <2>2, <2>3 DEF DeadlinePasses, HeadInv, BudgetSound, Report
<1> QED
  BY <1>1, <1>2, <1>3, <1>4, <1>5 DEF HeadInv

LEMMA SendReadStep ==
  ASSUME HeadInv, NEW w \in AllWorkers, SendRead(w)
  PROVE  HeadInv'
<1>1. worker[w] \in WorkerStates /\ worker[w].at = "read" /\ ~worker[w].sent
  BY InPlace DEF SendRead
<1>2. Owed(worker[w]) = 1 /\ at \in Stages
  BY <1>1, OwedOf, Working
<1>3. requests < Cap /\ requests \in Nat
  BY <1>2, BudgetLeft DEF HeadInv, HeadTyped
<1>4. ~(requests >= Cap)
  BY <1>3, HeadroomConstants
<1>5. ~refused /\ refused \in BOOLEAN /\ stageLate \in BOOLEAN /\ count \in Counts
  BY DEF HeadInv, BudgetSound, HeadTyped
<1>6. ~refused' /\ refused' \in BOOLEAN
  BY <1>4, <1>5 DEF SendRead
<1>7. CASE stageLate
  <2>1. Moves(w, Free) /\ requests' = requests
    BY <1>7 DEF SendRead, Moves
  <2>2. Free \in WorkerStates /\ Owed(Free) = 0 /\ Free.at = "free"
    BY RestStates
  <2> QED
    BY <1>1, <1>2, <1>5, <1>6, <2>1, <2>2, QuietStep DEF SendRead, Chained, Committing
<1>8. CASE ~stageLate
  <2>1. PICK k : k = [worker[w] EXCEPT !.sent = TRUE]
    OBVIOUS
  <2>2. k \in WorkerStates /\ k.at = "read" /\ k.sent
    BY <1>1, <2>1 DEF WorkerStates
  <2>3. Moves(w, k) /\ requests' = requests + 1
    BY <1>4, <1>8, <2>1 DEF SendRead, Moves
  <2>4. Owed(k) = 0
    BY <2>2, OwedOf
  <2> QED
    BY <1>1, <1>2, <1>5, <1>6, <2>2, <2>3, <2>4, QuietStep DEF SendRead, Chained, Committing
<1> QED
  BY <1>7, <1>8

LEMMA ReadAnsweredStep ==
  ASSUME HeadInv, NEW w \in AllWorkers, ReadAnswered(w)
  PROVE  HeadInv'
<1>1. worker[w] \in WorkerStates /\ worker[w].at = "read" /\ worker[w].sent
  BY InPlace DEF ReadAnswered
<1>2. Owed(worker[w]) = 0
  BY <1>1, OwedOf
<1>3. ~refused /\ refused \in BOOLEAN /\ stageLate \in BOOLEAN /\ count \in Counts
  BY DEF HeadInv, BudgetSound, HeadTyped
<1>4. PICK error \in {0, 1} : count' = [count EXCEPT !.errors = @ + error]
  BY DEF ReadAnswered
<1>5. /\ count' \in Counts /\ count'.completed = count.completed /\ count'.failed = count.failed
      /\ count'.started = count.started /\ count'.starved = count.starved
  BY <1>3, <1>4 DEF Counts
<1>6. Free \in WorkerStates /\ Owed(Free) = 0 /\ Free.at = "free"
  BY RestStates
<1>7. Moves(w, Free)
  BY DEF Moves, ReadAnswered
<1> QED
  BY <1>1, <1>2, <1>3, <1>5, <1>6, <1>7, QuietStep DEF ReadAnswered, Chained, Committing

\* A worker takes the next task, or has none left to take.
LEMMA TakeStep ==
  ASSUME HeadInv, NEW w \in AllWorkers, Take(w)
  PROVE  HeadInv'
<1>1. worker[w] \in WorkerStates /\ worker[w].at = "free"
  BY InPlace DEF Take
<1>2. Owed(worker[w]) = 0 /\ at \in Stages /\ at \in Int
  BY <1>1, OwedOf, Working
<1>3. /\ ~refused /\ refused \in BOOLEAN /\ stageLate \in BOOLEAN /\ count \in Counts
      /\ requests \in Nat /\ next \in Nat \ {0} /\ HeadTyped
  BY DEF HeadInv, BudgetSound, HeadTyped
<1>4. Gone \in WorkerStates /\ Owed(Gone) = 0 /\ Gone.at = "gone"
  BY RestStates
<1>5. CASE stageLate
  <2>1. Moves(w, Gone) /\ next' = next
    BY <1>5 DEF Take, Moves
  <2> QED
    BY <1>1, <1>2, <1>3, <1>4, <2>1, QuietStep DEF Take, Chained, Committing
<1>6. ASSUME ~stageLate
      PROVE  HeadInv'
  <2>1. next' = next + 1
    BY <1>6 DEF Take
  <2>2. PICK k : k = IF next > TasksOf(at) THEN Gone ELSE [Free EXCEPT !.at = "slot", !.task = next]
    OBVIOUS
  <2>3. Moves(w, k)
    BY <1>6, <2>2 DEF Take, Moves
  <2>4. k \in WorkerStates /\ k.at \in {"gone", "slot"}
    <3>1. CASE next > TasksOf(at)
      BY <1>4, <2>2, <3>1
    <3>2. CASE ~(next > TasksOf(at))
      BY <1>3, <2>2, <3>2, RestStates
    <3> QED
      BY <3>1, <3>2
  <2>5. HeadTyped' /\ IdleOutside' /\ ChainSound' /\ OrderSound' /\ TallySound'
    BY <1>1, <1>3, <2>1, <2>3, <2>4, QuietRest DEF Take, Chained, Committing
  <2>6. Taken \in Nat /\ TasksOf(at) \in Nat /\ Taken <= TasksOf(at)
    BY <1>2, <1>3, TakenFacts
  <2>7. Taken' = IF next' - 1 <= TasksOf(at) THEN next' - 1 ELSE TasksOf(at)
    BY DEF Take, Taken, TasksOf, CyclesOf
  <2>8. PICK d \in Int : d = Preflight + CycleCost * Dealt(at) + Cost(Taken)
        /\ requests + Cardinality(Pledged) <= d
    <3>1. Preflight + CycleCost * Dealt(at) + Cost(Taken) \in Nat
      BY <1>2, <2>6, WithinStage
    <3> QED
      BY <1>2, <3>1 DEF HeadInv, BudgetSound
  <2>9. requests' = requests /\ at' = at /\ refused' = refused
    BY DEF Take
  <2>10. Dealt(at)' = Dealt(at)
    BY <2>9 DEF Dealt
  <2>11. Cardinality(Pledged') \in Nat
    BY PledgedNext
  <2>12. CASE next > TasksOf(at)
    <3>1. Taken' = Taken
      BY <1>3, <2>1, <2>6, <2>7, <2>12 DEF Taken
    <3>2. k = Gone
      BY <2>2, <2>12
    <3>3. Cardinality(Pledged') <= Cardinality(Pledged)
      BY <1>2, <1>3, <1>4, <2>3, <3>2, PledgedLess
    <3>4. requests' + Cardinality(Pledged') <= d
      BY <1>3, <2>8, <2>9, <2>11, <3>3, PledgedFinite
    <3>5. Cost(Taken)' = Cost(Taken)
      BY <3>1 DEF Cost
    <3>6. requests' + Cardinality(Pledged') <= (Preflight + CycleCost * Dealt(at) + Cost(Taken))'
      BY <2>8, <2>10, <3>4, <3>5
    <3>7. BudgetSound'
      BY <1>2, <1>3, <2>9, <3>6 DEF BudgetSound
    <3> QED
      BY <2>5, <3>7 DEF HeadInv
  <2>13. CASE ~(next > TasksOf(at))
    <3>1. Taken' = next /\ Taken = next - 1
      BY <1>3, <2>1, <2>6, <2>7, <2>13 DEF Taken
    <3>2. k.at = "slot" /\ k.task = next
      BY <1>3, <2>2, <2>13, RestStates
    <3>3. Owed(k) = IF IsWriter(next) THEN 3 ELSE 1
      BY <2>4, <3>2, OwedOf
    <3>4. Cardinality(Pledged') <= Cardinality(Pledged) + Owed(k)
      BY <1>2, <1>3, <2>3, <2>4, <3>3, PledgedMore
    <3>5. PICK n \in Nat : n = Taken /\ next = n + 1
      BY <1>3, <2>6, <3>1
    <3>6. Cost(n) \in Nat /\ Cost(n + 1) = Cost(n) + IF IsWriter(n + 1) THEN 3 ELSE 1
      BY CostOfNext DEF WriterCost
    <3>7. Cost(n + 1) = Cost(n) + Owed(k)
      BY <3>3, <3>5, <3>6
    <3>8. Cost(Taken)' = Cost(n + 1)
      BY <3>1, <3>5 DEF Cost
    <3>9. PICK e \in Nat : e = Preflight + CycleCost * Dealt(at)
      <4>1. Dealt(at) \in Nat /\ CycleCost \in Nat
        BY <1>2, DealtFacts, Lengths
      <4> QED
        BY <4>1, Multiplied DEF Preflight
    <3>10. d = e + Cost(n)
      BY <2>8, <3>5, <3>9
    <3>11. requests' + Cardinality(Pledged') <= e + Cost(n) + Owed(k)
      BY <1>3, <2>8, <2>9, <2>11, <3>3, <3>4, <3>6, <3>10, PledgedFinite
    <3>12. requests' + Cardinality(Pledged') <= e + Cost(n + 1)
      BY <3>3, <3>6, <3>7, <3>11
    <3>13. requests' + Cardinality(Pledged') <= (Preflight + CycleCost * Dealt(at) + Cost(Taken))'
      BY <2>10, <3>8, <3>9, <3>12
    <3>14. BudgetSound'
      BY <1>2, <1>3, <2>9, <3>13 DEF BudgetSound
    <3> QED
      BY <2>5, <3>14 DEF HeadInv
  <2> QED
    BY <2>12, <2>13
<1> QED
  BY <1>5, <1>6

------------------------------------------------------------------------------
(* The chain of writers.                                                    *)

LEMMA Chains ==
  ASSUME HeadInv
  PROVE  /\ tail \in Seq(AllWorkers) /\ Len(tail) \in Nat
         /\ \A w \in AllWorkers : Chained(worker[w]) <=> \E i \in 1..Len(tail) : tail[i] = w
         /\ \A i, j \in 1..Len(tail) : tail[i] = tail[j] => i = j
BY DEF HeadInv, HeadTyped, ChainSound

\* Who writes is the only one.
LEMMA OnlyWriter ==
  ASSUME HeadInv, NEW w \in AllWorkers, worker[w].at = "write"
  PROVE  /\ \A v \in AllWorkers : worker[v].at = "write" => v = w
         /\ Underway = IF Committing(worker[w]) THEN 1 ELSE 0
<1>1. \A v \in AllWorkers : worker[v].at = "write" => v = w
  BY InPlace
<1>2. (\E v \in AllWorkers : Committing(worker[v])) <=> Committing(worker[w])
  BY <1>1 DEF Committing
<1> QED
  BY <1>1, <1>2 DEF Underway

LEMMA SlotStep ==
  ASSUME HeadInv, NEW w \in AllWorkers, SlotComes(w)
  PROVE  HeadInv'
<1>1. worker[w] \in WorkerStates /\ worker[w].at = "slot" /\ Owed(worker[w]) \in 0..3
  BY InPlace DEF SlotComes
<1>2. /\ ~refused /\ refused \in BOOLEAN /\ stageLate \in BOOLEAN /\ count \in Counts
      /\ requests \in Nat /\ next \in Nat \ {0} /\ HeadTyped
  BY DEF HeadInv, BudgetSound, HeadTyped
<1>3. at \in Stages /\ at \in Int
  BY <1>1, Working
<1>4. CASE stageLate
  <2>1. Moves(w, Gone) /\ tail' = tail /\ count' = count
    BY <1>4 DEF SlotComes, Moves
  <2>2. Gone \in WorkerStates /\ Gone.at = "gone" /\ Owed(Gone) = 0
    BY RestStates
  <2> QED
    BY <1>1, <1>2, <2>1, <2>2, QuietStep DEF SlotComes, Chained, Committing
<1>5. CASE ~stageLate /\ ~IsWriter(worker[w].task)
  <2>1. PICK k : k = [worker[w] EXCEPT !.at = "read"]
    OBVIOUS
  <2>2. Moves(w, k) /\ tail' = tail /\ count' = count
    BY <1>5, <2>1 DEF SlotComes, Moves
  <2>3. k \in WorkerStates /\ k.at = "read"
    BY <1>1, <2>1 DEF WorkerStates
  <2>4. Owed(k) \in {0, 1} /\ Owed(worker[w]) = 1
    BY <1>1, <1>5, <2>3, OwedOf
  <2> QED
    BY <1>1, <1>2, <2>2, <2>3, <2>4, QuietStep DEF SlotComes, Chained, Committing
<1>6. ASSUME ~stageLate, IsWriter(worker[w].task)
      PROVE  HeadInv'
  <2>1. PICK k : k = [worker[w] EXCEPT !.at = "queued"]
    OBVIOUS
  <2>2. Moves(w, k) /\ tail' = Append(tail, w) /\ count' = [count EXCEPT !.started = @ + 1]
    BY <1>6, <2>1 DEF SlotComes, Moves
  <2>3. k \in WorkerStates /\ k.at = "queued"
    BY <1>1, <2>1 DEF WorkerStates
  <2>4. Owed(k) = 3 /\ Owed(worker[w]) = 3
    BY <1>1, <1>6, <2>3, OwedOf
  <2>5. /\ worker' \in [AllWorkers -> WorkerStates] /\ worker'[w] = k
        /\ \A v \in AllWorkers : v # w => worker'[v] = worker[v]
    BY <1>2, <2>2, <2>3, MovesFacts
  <2>6. /\ count' \in Counts /\ count'.completed = count.completed /\ count'.failed = count.failed
        /\ count'.starved = count.starved /\ count'.started = count.started + 1
    BY <1>2, <2>2 DEF Counts
  <2>7. /\ tail' \in Seq(AllWorkers) /\ Len(tail') = Len(tail) + 1 /\ tail'[Len(tail) + 1] = w
        /\ \A i \in 1..Len(tail) : tail'[i] = tail[i]
    BY <2>2, Chains
  <2>8. /\ at' = at /\ requests' = requests /\ next' = next /\ stageLate' = stageLate
        /\ commits' = commits /\ stamp' = stamp /\ refused' = refused /\ acceptance' = acceptance
    BY DEF SlotComes
  <2>9. HeadTyped'
    BY <1>2, <2>5, <2>6, <2>7, <2>8 DEF HeadTyped, WorkerStates, Counts, Report
  <2>10. IdleOutside'
    BY <1>3, <2>8 DEF IdleOutside
  <2>11. ~\E i \in 1..Len(tail) : tail[i] = w
    BY <1>1, Chains DEF Chained
  <2>12. ChainSound'
    <3>1. \A v \in AllWorkers : Chained(worker'[v]) <=> \E i \in 1..Len(tail') : tail'[i] = v
      <4> TAKE v \in AllWorkers
      <4>1. CASE v = w
        <5>1. Chained(worker'[v])
          BY <2>3, <2>5, <4>1 DEF Chained
        <5> QED
          BY <2>7, <4>1, <5>1, Chains
      <4>2. CASE v # w
        <5>1. Chained(worker'[v]) <=> \E i \in 1..Len(tail) : tail[i] = v
          BY <2>5, <4>2, Chains
        <5>2. (\E i \in 1..Len(tail) : tail[i] = v) <=> \E i \in 1..Len(tail') : tail'[i] = v
          BY <2>7, <4>2, Chains
        <5> QED
          BY <5>1, <5>2
      <4> QED
        BY <4>1, <4>2
    <3>2. \A i, j \in 1..Len(tail') : tail'[i] = tail'[j] => i = j
      <4> TAKE i, j \in 1..Len(tail')
      <4>1. \A n \in 1..Len(tail') : n \in 1..Len(tail) \/ n = Len(tail) + 1
        BY <2>7, Chains
      <4> QED
        BY <2>7, <2>11, <4>1, Chains
    <3>3. \A v \in AllWorkers : worker'[v].at = "write" =>
            tail'[1] = v /\ worker'[v].step \in 1..3 /\ worker'[v].task = stamp
      <4> TAKE v \in AllWorkers
      <4> HAVE worker'[v].at = "write"
      <4>1. v # w /\ worker[v] = worker'[v]
        BY <2>3, <2>5
      <4>2. 1 \in 1..Len(tail)
        <5>1. \E i \in 1..Len(tail) : tail[i] = v
          BY <4>1, Chains DEF Chained
        <5> QED
          BY <5>1, Chains
      <4> QED
        BY <2>7, <4>1, <4>2, InPlace
    <3> QED
      BY <2>8, <3>1, <3>2, <3>3 DEF ChainSound, Chained, WriterCost
  <2>13. OrderSound'
    <3>1. \A v \in AllWorkers : worker'[v].at = "write" => worker'[v] = worker[v]
      BY <2>3, <2>5
    <3> QED
      BY <2>8, <3>1 DEF HeadInv, OrderSound, CommitsInOrder, Committing
  <2>14. TallySound'
    <3>1. Committing(k) <=> Committing(worker[w])
      BY <1>1, <2>3 DEF Committing
    <3>2. Underway' = Underway
      BY <1>2, <2>2, <2>3, <3>1, UnderwayKept
    <3>3. Dealt(at)' = Dealt(at) /\ Dealt(at) \in Nat
      BY <1>3, <2>8, DealtFacts DEF Dealt
    <3>4. /\ count.completed \in Nat /\ count.failed \in Nat /\ count.starved \in Int
          /\ count.started \in Nat
      BY <1>2 DEF Counts
    <3>5. at # Report
      BY <1>3, Lengths DEF Report
    <3>6. TallySound
      BY DEF HeadInv
    <3>7. count.completed + count.failed + Len(tail) + count.starved = Dealt(at) + count.started
      BY <3>5, <3>6 DEF TallySound
    <3>8. /\ count.completed + Underway <= Len(commits)
          /\ Len(commits) <= count.completed + count.failed + Underway
          /\ acceptance # "pending"
      BY <3>5, <3>6 DEF TallySound
    <3>9. count'.completed + count'.failed + Len(tail') + count'.starved
             = Dealt(at)' + count'.started
      <4>1. PICK d \in Nat : d = Dealt(at) /\ Dealt(at)' = d
        BY <3>3
      <4>2. PICK l \in Nat : l = Len(tail) /\ Len(tail') = l + 1
        BY <2>7, Chains
      <4>3. count.completed + count.failed + l + count.starved = d + count.started
        BY <3>7, <4>1, <4>2
      <4>4. count.completed + count.failed + (l + 1) + count.starved = d + (count.started + 1)
        <5>1. PICK c, f, a, b \in Int :
                 c = count.completed /\ f = count.failed /\ a = count.starved /\ b = count.started
          BY <3>4
        <5>2. c + f + l + a = d + b
          BY <4>3, <5>1
        <5>3. c + f + (l + 1) + a = d + (b + 1)
          <6>1. c \in Int /\ f \in Int /\ a \in Int /\ b \in Int /\ d \in Int /\ l \in Int
            BY <4>1, <4>2, <5>1
          <6> QED
            BY <5>2, <6>1
        <5> QED
          BY <5>1, <5>3
      <4>5. /\ count'.completed = count.completed /\ count'.failed = count.failed
            /\ count'.starved = count.starved /\ count'.started = count.started + 1
            /\ Dealt(at)' = d /\ Len(tail') = l + 1
        BY <2>6, <4>1, <4>2
      <4> QED
        BY <4>4, <4>5
    <3> QED
      BY <2>6, <2>8, <3>2, <3>8, <3>9 DEF TallySound
  <2>15. BudgetSound'
    BY <1>1, <1>2, <2>2, <2>3, <2>4, <2>8, BudgetStep
  <2> QED
    BY <2>9, <2>10, <2>12, <2>13, <2>14, <2>15 DEF HeadInv
<1> QED
  BY <1>4, <1>5, <1>6

LEMMA BeginStep ==
  ASSUME HeadInv, NEW w \in AllWorkers, BeginWrite(w)
  PROVE  HeadInv'
<1>1. worker[w] \in WorkerStates /\ worker[w].at = "queued"
  BY InPlace DEF BeginWrite
<1>2. /\ ~refused /\ count \in Counts /\ stamp \in Nat
      /\ requests \in Nat /\ next \in Nat \ {0} /\ HeadTyped
  BY DEF HeadInv, BudgetSound, HeadTyped
<1>3. at \in Stages /\ at \in Int
  BY <1>1, Working
<1>4. tail[1] = w
  <2>1. tail # <<>>
    BY <1>1, Chains DEF Chained
  <2> QED
    BY <2>1, Chains DEF BeginWrite, ItsTurn
<1>5. PICK k : k = [worker[w] EXCEPT !.at = "write", !.step = 1, !.task = stamp + 1]
  OBVIOUS
<1>6. k \in WorkerStates /\ k.at = "write" /\ k.step = 1 /\ k.task = stamp + 1
  <2>1. /\ "write" \in {"free", "gone", "slot", "queued", "write", "read"} /\ 1 \in 0..3
        /\ stamp + 1 \in Nat
    BY <1>2
  <2>2. /\ k.at = "write" /\ k.step = 1 /\ k.task = stamp + 1 /\ k.sent = worker[w].sent
        /\ k.overdue = worker[w].overdue
    BY <1>1, <1>5 DEF WorkerStates
  <2>3. k \in WorkerStates
    BY <1>1, <1>5, <2>1 DEF WorkerStates
  <2> QED
    BY <2>2, <2>3
<1>7. Moves(w, k)
  BY <1>5 DEF BeginWrite, Moves, Generation
<1>8. /\ worker' \in [AllWorkers -> WorkerStates] /\ worker'[w] = k
      /\ \A v \in AllWorkers : v # w => worker'[v] = worker[v]
  BY <1>2, <1>6, <1>7, MovesFacts
<1>9. \A v \in AllWorkers : worker'[v].at = "write" => v = w
  <2> TAKE v \in AllWorkers
  <2> HAVE worker'[v].at = "write"
  <2>1. CASE v # w
    BY <1>1, <1>4, <1>8, <2>1, InPlace
  <2> QED
    BY <2>1
<1>10. /\ at' = at /\ requests' = requests /\ next' = next /\ stageLate' = stageLate
       /\ commits' = commits /\ stamp' = stamp + 1 /\ refused' = refused
       /\ acceptance' = acceptance /\ tail' = tail /\ count' = count
  BY DEF BeginWrite, Generation
<1>11. HeadTyped'
  BY <1>2, <1>8, <1>10 DEF HeadTyped, WorkerStates, Counts, Report
<1>12. IdleOutside'
  BY <1>3, <1>10 DEF IdleOutside
<1>13. ChainSound'
  <2>1. \A v \in AllWorkers : Chained(worker'[v]) <=> Chained(worker[v])
    BY <1>1, <1>6, <1>8 DEF Chained
  <2>2. \A v \in AllWorkers : Chained(worker'[v]) <=> \E i \in 1..Len(tail) : tail[i] = v
    BY <2>1, Chains
  <2>3. \A v \in AllWorkers : worker'[v].at = "write" =>
          tail[1] = v /\ worker'[v].step \in 1..3 /\ worker'[v].task = stamp + 1
    BY <1>4, <1>6, <1>8, <1>9
  <2>4. \A i, j \in 1..Len(tail) : tail[i] = tail[j] => i = j
    BY Chains
  <2> QED
    BY <1>10, <2>2, <2>3, <2>4 DEF ChainSound, Chained, WriterCost
<1>14. OrderSound'
  <2>1. /\ commits \in Seq(Nat)
        /\ \A n \in 1..Len(commits) : commits[n] <= stamp
    BY DEF HeadInv, HeadTyped, OrderSound
  <2>2. \A n \in 1..Len(commits) : commits[n] \in Nat
    BY <2>1
  <2>3. \A n \in 1..Len(commits) : commits[n] < stamp + 1
    BY <1>2, <2>1, <2>2
  <2>4. \A n \in 1..Len(commits) : commits[n] <= stamp + 1
    BY <1>2, <2>1, <2>2
  <2>5. CommitsInOrder
    BY DEF HeadInv, OrderSound
  <2> QED
    BY <1>10, <2>3, <2>4, <2>5 DEF OrderSound, CommitsInOrder, Committing
<1>15. TallySound'
  <2>1. ~Committing(k) /\ ~Committing(worker[w])
    BY <1>1, <1>6 DEF Committing, WriterCost
  <2>2. Underway' = Underway
    BY <1>2, <1>6, <1>7, <2>1, UnderwayKept
  <2>3. Dealt(at)' = Dealt(at)
    BY <1>10 DEF Dealt
  <2> QED
    BY <1>10, <2>2, <2>3 DEF HeadInv, TallySound, Report
<1>16. BudgetSound'
  <2>1. Owed(k) \in 0..3 /\ Owed(k) <= 3 /\ Owed(worker[w]) = 3
    BY <1>1, <1>6, OwedOf
  <2> QED
    BY <1>1, <1>2, <1>6, <1>7, <1>10, <2>1, BudgetStep
<1> QED
  BY <1>11, <1>12, <1>13, <1>14, <1>15, <1>16 DEF HeadInv

\* A commit in the tally.
LEMMA TallyCommitted ==
  ASSUME NEW c \in Int, NEW f \in Int, NEW n \in Int, c + 0 <= n, n <= c + f + 0
  PROVE  c + 1 <= n + 1 /\ n + 1 <= c + f + 1
OBVIOUS

\* The writer at the head of the chain is done, and the chain goes on.
Leaves(w) ==
  /\ worker[w].at = "write" /\ Moves(w, Free) /\ tail' = Tail(tail)
  /\ UNCHANGED <<at, requests, next, stageLate, commits, stamp, refused, acceptance>>
  /\ count' \in Counts /\ count'.started = count.started /\ count'.starved = count.starved
  /\ \/ /\ Committing(worker[w]) /\ count'.completed = count.completed + 1
        /\ count'.failed = count.failed
     \/ count'.completed = count.completed /\ count'.failed = count.failed + 1

LEMMA LeaveTally ==
  ASSUME HeadInv, NEW w \in AllWorkers, Leaves(w), Underway' = 0, Len(tail') = Len(tail) - 1
  PROVE  TallySound'
<1>1. at \in Stages /\ at \in Int /\ count \in Counts /\ commits \in Seq(Nat)
  BY Working DEF Leaves, HeadInv, HeadTyped
<1>2. Underway = IF Committing(worker[w]) THEN 1 ELSE 0
  BY OnlyWriter DEF Leaves
<1>3. PICK d, l, n \in Int : d = Dealt(at) /\ l = Len(tail) /\ n = Len(commits)
  BY <1>1, Chains, DealtFacts
<1>4. Dealt(at)' = d /\ Len(tail') = l - 1 /\ Len(commits') = n
  BY <1>3 DEF Dealt, Leaves
<1>5. PICK c, f, a, b \in Int :
         c = count.completed /\ f = count.failed /\ a = count.starved /\ b = count.started
  BY <1>1 DEF Counts
<1>6. at # Report /\ TallySound
  BY <1>1, Lengths DEF Report, HeadInv
<1>7. c + f + l + a = d + b
  BY <1>3, <1>5, <1>6 DEF TallySound
<1>8. PICK u \in {0, 1} : u = Underway /\ (u = 1 <=> Committing(worker[w]))
  BY <1>2
<1>9. c + u <= n /\ n <= c + f + u
  BY <1>3, <1>5, <1>6, <1>8 DEF TallySound
<1>10. acceptance' # "pending"
  BY <1>6 DEF TallySound, Leaves
<1>11. PICK p, q \in Int : p = count'.completed /\ q = count'.failed
  BY DEF Counts, Leaves
<1>12. (u = 1 /\ p = c + 1 /\ q = f) \/ (p = c /\ q = f + 1)
  BY <1>5, <1>8, <1>11 DEF Leaves
<1>13. /\ d \in Int /\ l \in Int /\ n \in Int /\ c \in Int /\ f \in Int /\ a \in Int
       /\ b \in Int /\ u \in {0, 1} /\ p \in Int /\ q \in Int
  BY <1>3, <1>5, <1>8, <1>11
<1>14. p + q + (l - 1) + a = d + b /\ p + 0 <= n /\ n <= p + q + 0
  <2>1. CASE u = 1 /\ p = c + 1 /\ q = f
    BY <1>7, <1>9, <1>13, <2>1
  <2>2. CASE p = c /\ q = f + 1
    BY <1>7, <1>9, <1>13, <2>2
  <2> QED
    BY <1>12, <2>1, <2>2
<1>15. count'.starved = a /\ count'.started = b
  BY <1>5 DEF Leaves
<1> QED
  BY <1>4, <1>10, <1>11, <1>14, <1>15 DEF TallySound

LEMMA LeaveStep ==
  ASSUME HeadInv, NEW w \in AllWorkers, Leaves(w)
  PROVE  HeadInv'
<1> USE DEF Leaves
<1>1. HeadTyped /\ count \in Counts /\ ~refused
  BY DEF HeadInv, HeadTyped, BudgetSound
<1>2. at \in Stages /\ at \in Int
  BY Working
<1>3. Free \in WorkerStates /\ Free.at = "free" /\ Owed(Free) = 0
  BY RestStates
<1>4. /\ worker' \in [AllWorkers -> WorkerStates] /\ worker'[w] = Free
      /\ \A v \in AllWorkers : v # w => worker'[v] = worker[v]
  BY <1>1, <1>3, MovesFacts
<1>5. tail[1] = w /\ Owed(worker[w]) \in 0..3
  BY InPlace
<1>6. \A v \in AllWorkers : worker'[v].at # "write"
  BY <1>3, <1>4, OnlyWriter
<1>7. 1 \in 1..Len(tail) /\ tail # <<>>
  <2>1. \E i \in 1..Len(tail) : tail[i] = w
    BY Chains DEF Chained
  <2>2. 1 \in 1..Len(tail)
    BY <2>1, Chains
  <2> QED
    BY <2>2, Chains
<1>8. /\ tail' \in Seq(AllWorkers) /\ Len(tail') = Len(tail) - 1 /\ Len(tail) \in Nat
      /\ \A i \in 1..(Len(tail) - 1) : tail'[i] = tail[i + 1]
  BY <1>7, Chains
<1>9. HeadTyped'
  BY <1>1, <1>4, <1>8 DEF HeadTyped, WorkerStates, Counts, Report
<1>10. IdleOutside'
  BY <1>2 DEF IdleOutside
<1>11. ChainSound'
  <2>1. \A v \in AllWorkers : Chained(worker'[v]) <=> \E i \in 1..Len(tail') : tail'[i] = v
    <3> TAKE v \in AllWorkers
    <3>1. CASE v = w
      <4>1. ~Chained(worker'[v])
        BY <1>3, <1>4, <3>1 DEF Chained
      <4>2. ASSUME NEW i \in 1..Len(tail'), tail'[i] = v PROVE FALSE
        <5>1. i + 1 \in 1..Len(tail) /\ tail[i + 1] = w
          BY <1>8, <3>1, <4>2
        <5>2. i + 1 = 1
          BY <1>5, <1>7, <5>1, Chains
        <5> QED
          BY <1>8, <5>2
      <4> QED
        BY <4>1, <4>2
    <3>2. CASE v # w
      <4>1. Chained(worker'[v]) <=> \E i \in 1..Len(tail) : tail[i] = v
        BY <1>4, <3>2, Chains
      <4>2. ASSUME NEW i \in 1..Len(tail), tail[i] = v
            PROVE  \E j \in 1..Len(tail') : tail'[j] = v
        <5>1. i # 1
          BY <1>5, <3>2, <4>2
        <5>2. i - 1 \in 1..(Len(tail) - 1) /\ (i - 1) + 1 = i
          BY <1>8, <5>1
        <5>3. tail'[i - 1] = v
          BY <1>8, <4>2, <5>2
        <5> QED
          BY <1>8, <5>2, <5>3
      <4>3. ASSUME NEW j \in 1..Len(tail'), tail'[j] = v
            PROVE  \E i \in 1..Len(tail) : tail[i] = v
        <5>1. j + 1 \in 1..Len(tail) /\ tail[j + 1] = v
          BY <1>8, <4>3
        <5> QED
          BY <5>1
      <4> QED
        BY <4>1, <4>2, <4>3
    <3> QED
      BY <3>1, <3>2
  <2>2. \A i, j \in 1..Len(tail') : tail'[i] = tail'[j] => i = j
    <3> TAKE i, j \in 1..Len(tail')
    <3> HAVE tail'[i] = tail'[j]
    <3>1. i + 1 \in 1..Len(tail) /\ j + 1 \in 1..Len(tail) /\ tail[i + 1] = tail[j + 1]
      BY <1>8
    <3>2. i + 1 = j + 1
      BY <3>1, Chains
    <3>3. i \in Int /\ j \in Int
      BY <1>8
    <3> QED
      BY <3>2, <3>3
  <2> QED
    BY <1>6, <2>1, <2>2 DEF ChainSound, Chained
<1>12. OrderSound'
  BY <1>6 DEF HeadInv, OrderSound, CommitsInOrder, Committing
<1>13. TallySound'
  <2>1. \A v \in AllWorkers : ~Committing(worker'[v])
    BY <1>6 DEF Committing
  <2>2. Underway' = 0
    BY <2>1 DEF Underway, Committing
  <2> QED
    BY <1>8, <2>2, LeaveTally
<1>14. BudgetSound'
  <2>1. Owed(Free) \in 0..3 /\ Owed(Free) <= Owed(worker[w])
    BY <1>3, <1>5
  <2> QED
    BY <1>1, <1>3, <2>1, BudgetStep
<1> QED
  BY <1>9, <1>10, <1>11, <1>12, <1>13, <1>14 DEF HeadInv

\* The last request of a write commits its generation.
LEMMA CommitStep ==
  ASSUME HeadInv, NEW w \in AllWorkers, worker[w].at = "write", ~worker[w].sent,
         worker[w].step = 3, Moves(w, [worker[w] EXCEPT !.sent = TRUE]),
         requests' = requests + 1, commits' = Append(commits, worker[w].task),
         UNCHANGED <<at, next, stageLate, tail, count, stamp, refused, acceptance>>
  PROVE  HeadInv'
<1>1. HeadTyped /\ count \in Counts /\ ~refused /\ worker[w] \in WorkerStates
      /\ commits \in Seq(Nat) /\ stamp \in Nat /\ requests \in Nat
  BY DEF HeadInv, HeadTyped, BudgetSound
<1>2. at \in Stages /\ at \in Int
  BY Working
<1>3. PICK k : k = [worker[w] EXCEPT !.sent = TRUE]
  OBVIOUS
<1>4. k \in WorkerStates /\ k.at = "write" /\ k.step = 3 /\ k.sent /\ k.task = worker[w].task
  BY <1>1, <1>3 DEF WorkerStates
<1>5. Moves(w, k)
  BY <1>3
<1>6. /\ worker' \in [AllWorkers -> WorkerStates] /\ worker'[w] = k
      /\ \A v \in AllWorkers : v # w => worker'[v] = worker[v]
  BY <1>1, <1>4, <1>5, MovesFacts
<1>7. tail[1] = w /\ worker[w].task = stamp
  BY InPlace
<1>8. \A v \in AllWorkers : worker'[v].at = "write" => v = w
  BY <1>6, OnlyWriter
<1>9. Committing(k) /\ ~Committing(worker[w])
  BY <1>4 DEF Committing, WriterCost
<1>10. /\ commits' \in Seq(Nat) /\ Len(commits') = Len(commits) + 1 /\ Len(commits) \in Nat
       /\ commits'[Len(commits) + 1] = stamp
       /\ \A n \in 1..Len(commits) : commits'[n] = commits[n] /\ commits[n] \in Nat
  BY <1>1, <1>7
<1>11. HeadTyped'
  BY <1>1, <1>6, <1>10 DEF HeadTyped, WorkerStates, Counts, Report
<1>12. IdleOutside'
  BY <1>2 DEF IdleOutside
<1>13. ChainSound'
  <2>1. \A v \in AllWorkers : Chained(worker'[v]) <=> \E i \in 1..Len(tail) : tail[i] = v
    <3>1. \A v \in AllWorkers : Chained(worker'[v]) <=> Chained(worker[v])
      BY <1>4, <1>6 DEF Chained
    <3> QED
      BY <3>1, Chains
  <2>2. \A v \in AllWorkers : worker'[v].at = "write" =>
           tail[1] = v /\ worker'[v].step \in 1..3 /\ worker'[v].task = stamp
    BY <1>4, <1>6, <1>7, <1>8
  <2>3. \A i, j \in 1..Len(tail) : tail[i] = tail[j] => i = j
    BY Chains
  <2> QED
    BY <2>1, <2>2, <2>3 DEF ChainSound, Chained, WriterCost
<1>14. OrderSound'
  <2>1. \A n \in 1..Len(commits) : commits[n] < stamp
    BY <1>9 DEF HeadInv, OrderSound
  <2>2. \A n \in 1..Len(commits') : n \in 1..Len(commits) \/ n = Len(commits) + 1
    BY <1>10
  <2>3. \A n \in 1..Len(commits') : commits'[n] <= stamp
    BY <1>1, <1>10, <2>1, <2>2
  <2>4. ASSUME NEW m \in 1..Len(commits'), NEW n \in 1..Len(commits'), m < n
        PROVE  commits'[m] < commits'[n]
    <3>1. m \in 1..Len(commits)
      BY <1>10, <2>4
    <3>2. CASE n \in 1..Len(commits)
      <4>1. commits[m] < commits[n]
        BY <1>1, <2>4, <3>1, <3>2 DEF HeadInv, OrderSound, CommitsInOrder
      <4> QED
        BY <1>10, <3>1, <3>2, <4>1
    <3>3. CASE n = Len(commits) + 1
      BY <1>10, <2>1, <3>1, <3>3
    <3> QED
      BY <2>2, <3>2, <3>3
  <2>5. DOMAIN commits' = 1..Len(commits')
    BY <1>10
  <2>6. CommitsInOrder'
    BY <2>4, <2>5 DEF CommitsInOrder
  <2>7. \A v \in AllWorkers : worker'[v].at = "write" => Committing(worker'[v])
    BY <1>6, <1>8, <1>9
  <2> QED
    BY <2>3, <2>6, <2>7 DEF OrderSound, Committing
<1>15. TallySound'
  <2>1. Underway' = 1
    <3>1. Committing(worker'[w])
      BY <1>6, <1>9
    <3> QED
      BY <3>1 DEF Underway, Committing
  <2>2. Underway = 0
    BY <1>9, OnlyWriter
  <2>3. Dealt(at)' = Dealt(at)
    BY DEF Dealt
  <2>4. at # Report
    BY <1>2, Lengths DEF Report
  <2>5. TallySound
    BY DEF HeadInv
  <2>6. PICK c, f, n \in Int : c = count.completed /\ f = count.failed /\ n = Len(commits)
    BY <1>1, <1>10 DEF Counts
  <2>7. c + 0 <= n /\ n <= c + f + 0 /\ acceptance # "pending"
    BY <2>2, <2>4, <2>5, <2>6 DEF TallySound
  <2>8. c + 1 <= n + 1 /\ n + 1 <= c + f + 1
    <3>1. c \in Int /\ f \in Int /\ n \in Int
      BY <2>6
    <3> QED
      BY <2>7, <3>1, TallyCommitted
  <2>9. count.completed + count.failed + Len(tail) + count.starved = Dealt(at) + count.started
    BY <2>4, <2>5 DEF TallySound
  <2> QED
    BY <1>10, <2>1, <2>3, <2>6, <2>7, <2>8, <2>9 DEF TallySound
<1>16. BudgetSound'
  <2>1. Owed(k) = 0 /\ Owed(worker[w]) = 1
    BY <1>1, <1>4, OwedOf
  <2> QED
    BY <1>1, <1>4, <1>5, <2>1, BudgetStep
<1> QED
  BY <1>11, <1>12, <1>13, <1>14, <1>15, <1>16 DEF HeadInv

LEMMA SendWriteStep ==
  ASSUME HeadInv, NEW w \in AllWorkers, SendWrite(w)
  PROVE  HeadInv'
<1>1. worker[w] \in WorkerStates /\ worker[w].at = "write" /\ ~worker[w].sent
      /\ worker[w].step \in 1..3
  BY InPlace DEF SendWrite
<1>2. Owed(worker[w]) \in 1..3 /\ Owed(worker[w]) = 3 - worker[w].step + 1
  BY <1>1, OwedOf
<1>3. at \in Stages
  BY <1>1, Working
<1>4. requests < Cap /\ requests \in Nat /\ ~(requests >= Cap)
  BY <1>2, <1>3, BudgetLeft, HeadroomConstants DEF HeadInv, HeadTyped
<1>5. /\ ~refused /\ refused \in BOOLEAN /\ stageLate \in BOOLEAN /\ count \in Counts
      /\ HeadTyped /\ worker \in [AllWorkers -> WorkerStates]
  BY DEF HeadInv, BudgetSound, HeadTyped
<1>6. CASE WriteFails(w) /\ UNCHANGED <<requests, refused, commits>>
  <2>1. Moves(w, Free)
    BY <1>6 DEF WriteFails, Moves
  <2>2. worker'[w].at = "free"
    BY <1>5, <2>1, RestStates, MovesFacts
  <2>3. tail' = Tail(tail)
    BY <2>2 DEF SendWrite, Unchained
  <2>4. /\ count' \in Counts /\ count'.started = count.started /\ count'.starved = count.starved
        /\ count'.completed = count.completed /\ count'.failed = count.failed + 1
    BY <1>5, <1>6 DEF WriteFails, Counts
  <2>5. Leaves(w)
    BY <1>1, <1>6, <2>1, <2>3, <2>4 DEF SendWrite, Leaves
  <2> QED
    BY <2>5, LeaveStep
<1>7. ASSUME worker' = [worker EXCEPT ![w].sent = TRUE], requests' = requests + 1,
             commits' = IF worker[w].step = WriterCost THEN Append(commits, worker[w].task)
                        ELSE commits,
             UNCHANGED <<count, refused>>
      PROVE  HeadInv'
  <2>1. PICK k : k = [worker[w] EXCEPT !.sent = TRUE]
    OBVIOUS
  <2>2. Moves(w, k)
    BY <1>7, <2>1 DEF Moves
  <2>3. /\ k \in WorkerStates /\ k.at = "write" /\ k.sent /\ k.step = worker[w].step
        /\ k.task = worker[w].task
    BY <1>1, <2>1 DEF WorkerStates
  <2>4. worker'[w].at = "write"
    BY <1>5, <2>2, <2>3, MovesFacts
  <2>5. tail' = tail
    BY <2>4 DEF SendWrite, Unchained
  <2>6. UNCHANGED <<at, next, stageLate, stamp, acceptance>>
    BY DEF SendWrite
  <2>7. CASE worker[w].step = 3
    <3>1. commits' = Append(commits, worker[w].task)
      BY <1>7, <2>7 DEF WriterCost
    <3> QED
      BY <1>1, <1>7, <2>1, <2>2, <2>5, <2>6, <2>7, <3>1, CommitStep
  <2>8. CASE worker[w].step # 3
    <3>1. commits' = commits
      BY <1>7, <2>8 DEF WriterCost
    <3>2. Owed(k) = 3 - worker[w].step
      BY <2>3, OwedOf
    <3>3. Owed(k) < Owed(worker[w]) /\ Owed(k) <= Owed(worker[w])
      BY <1>1, <1>2, <3>2
    <3>4. Committing(k) <=> Committing(worker[w])
      BY <2>3, <2>8 DEF Committing, WriterCost
    <3>5. Chained(k) <=> Chained(worker[w])
      BY <1>1, <2>3 DEF Chained
    <3>6. ~refused' /\ refused' \in BOOLEAN /\ stageLate' \in BOOLEAN /\ count' = count
      BY <1>5, <1>7, <2>6
    <3> QED
      BY <1>1, <1>5, <1>7, <2>2, <2>3, <2>5, <2>6, <3>1, <3>3, <3>4, <3>5, <3>6, QuietStep
  <2> QED
    BY <2>7, <2>8
<1> QED
  BY <1>4, <1>6, <1>7 DEF SendWrite

LEMMA WriteAnsweredStep ==
  ASSUME HeadInv, NEW w \in AllWorkers, WriteAnswered(w)
  PROVE  HeadInv'
<1>1. worker[w] \in WorkerStates /\ worker[w].at = "write" /\ worker[w].sent
      /\ worker[w].step \in 1..3
  BY InPlace DEF WriteAnswered
<1>2. Owed(worker[w]) = 3 - worker[w].step
  BY <1>1, OwedOf
<1>3. /\ ~refused /\ refused \in BOOLEAN /\ stageLate \in BOOLEAN /\ count \in Counts
      /\ HeadTyped /\ worker \in [AllWorkers -> WorkerStates]
  BY DEF HeadInv, BudgetSound, HeadTyped
<1>4. UNCHANGED <<at, requests, next, stageLate, commits, stamp, refused, acceptance>>
  BY DEF WriteAnswered
<1>5. worker' = [worker EXCEPT ![w] = Free] => Moves(w, Free) /\ tail' = Tail(tail)
  <2> HAVE worker' = [worker EXCEPT ![w] = Free]
  <2>1. Moves(w, Free)
    BY DEF Moves
  <2>2. worker'[w].at = "free"
    BY <1>3, <2>1, RestStates, MovesFacts
  <2> QED
    BY <2>1, <2>2 DEF WriteAnswered, Unchained
<1>6. ASSUME worker[w].step < WriterCost, UNCHANGED count,
             worker' = [worker EXCEPT ![w].step = @ + 1, ![w].sent = FALSE]
      PROVE  HeadInv'
  <2>1. PICK s \in 1..2 : s = worker[w].step
    BY <1>1, <1>6 DEF WriterCost
  <2>2. PICK k : k = [worker[w] EXCEPT !.step = s + 1, !.sent = FALSE]
    OBVIOUS
  <2>3. Moves(w, k)
    BY <1>6, <2>1, <2>2 DEF Moves
  <2>4. /\ k.at = "write" /\ ~k.sent /\ k.step = s + 1 /\ k.task = worker[w].task
    BY <1>1, <2>2 DEF WorkerStates
  <2>5. k \in WorkerStates
    <3>1. s + 1 \in 0..3
      BY <2>1
    <3> QED
      BY <1>1, <2>2, <3>1 DEF WorkerStates
  <2>6. Owed(k) = 3 - (s + 1) + 1
    BY <2>4, <2>5, OwedOf
  <2>7. Owed(k) <= Owed(worker[w]) /\ k.step \in 1..3
    BY <1>2, <2>1, <2>4, <2>6
  <2>8. ~Committing(k) /\ ~Committing(worker[w])
    BY <2>1, <2>4 DEF Committing, WriterCost
  <2>9. Chained(k) <=> Chained(worker[w])
    BY <1>1, <2>4 DEF Chained
  <2>10. tail' = tail
    <3>1. worker'[w].at = "write"
      BY <1>3, <2>3, <2>4, <2>5, MovesFacts
    <3> QED
      BY <3>1 DEF WriteAnswered, Unchained
  <2>11. ~refused' /\ refused' \in BOOLEAN /\ stageLate' \in BOOLEAN /\ count' = count
    BY <1>3, <1>4, <1>6
  <2> QED
    BY <1>1, <1>3, <1>4, <2>3, <2>4, <2>5, <2>7, <2>8, <2>9, <2>10, <2>11, QuietStep
<1>7. ASSUME worker[w].step = WriterCost, worker' = [worker EXCEPT ![w] = Free],
             count' = [count EXCEPT !.completed = @ + 1]
      PROVE  HeadInv'
  <2>1. /\ count' \in Counts /\ count'.started = count.started /\ count'.starved = count.starved
        /\ count'.completed = count.completed + 1 /\ count'.failed = count.failed
    BY <1>3, <1>7 DEF Counts
  <2>2. Committing(worker[w])
    BY <1>1, <1>7 DEF Committing
  <2>3. Leaves(w)
    BY <1>1, <1>4, <1>5, <1>7, <2>1, <2>2 DEF Leaves
  <2> QED
    BY <2>3, LeaveStep
<1>8. ASSUME worker' = [worker EXCEPT ![w] = Free], NEW error \in {0, 1},
             count' = [count EXCEPT !.failed = @ + 1, !.errors = @ + error]
      PROVE  HeadInv'
  <2>1. PICK f, e \in Nat : f = count.failed /\ e = count.errors
    BY <1>3 DEF Counts
  <2>2. f + 1 \in Nat /\ e + error \in Nat
    BY <2>1
  <2>3. count' = [count EXCEPT !.failed = f + 1, !.errors = e + error]
    BY <1>8, <2>1
  <2>4. /\ count'.started = count.started /\ count'.starved = count.starved
        /\ count'.completed = count.completed /\ count'.failed = f + 1
    BY <1>3, <2>3 DEF Counts
  <2>5. count' \in Counts
    BY <1>3, <2>2, <2>3 DEF Counts
  <2>6. Leaves(w)
    BY <1>1, <1>4, <1>5, <1>8, <2>1, <2>4, <2>5 DEF Leaves
  <2> QED
    BY <2>6, LeaveStep
<1> QED
  BY <1>6, <1>7, <1>8 DEF WriteAnswered

------------------------------------------------------------------------------
(* Where no worker is at work: the preflight, the ends of the stages.       *)

Resting(k) == k.at \in {"free", "gone"}

LEMMA RestFacts ==
  ASSUME HeadInv, worker' \in [AllWorkers -> WorkerStates],
         \A v \in AllWorkers : Resting(worker[v]) /\ Resting(worker'[v]),
         UNCHANGED <<tail, commits, stamp>>
  PROVE  /\ tail = <<>> /\ Underway = 0 /\ Underway' = 0 /\ ChainSound' /\ OrderSound'
         /\ Cardinality(Pledged') = 0
<1>1. \A v \in AllWorkers : /\ ~Chained(worker[v]) /\ ~Committing(worker[v])
                            /\ ~Chained(worker'[v]) /\ ~Committing(worker'[v])
                            /\ worker'[v].at # "write"
  BY DEF Resting, Chained, Committing
<1>2. Underway = 0 /\ Underway' = 0
  BY <1>1 DEF Underway, Committing
<1>3. tail = <<>>
  <2>1. ASSUME Len(tail) # 0 PROVE FALSE
    <3>1. 1 \in 1..Len(tail) /\ tail[1] \in AllWorkers
      BY <2>1, Chains
    <3> QED
      BY <1>1, <3>1, Chains
  <2> QED
    BY <2>1, Chains
<1>4. ChainSound'
  <2>1. \A v \in AllWorkers : Chained(worker'[v]) <=> \E i \in 1..Len(tail) : tail[i] = v
    BY <1>1, Chains
  <2>2. \A i, j \in 1..Len(tail) : tail[i] = tail[j] => i = j
    BY Chains
  <2> QED
    BY <1>1, <2>1, <2>2 DEF ChainSound, Chained
<1>5. OrderSound'
  BY <1>1 DEF HeadInv, OrderSound, CommitsInOrder
<1>6. Cardinality(Pledged') = 0
  <2>1. PICK W : W = worker'
    OBVIOUS
  <2>2. Pledged' = {p \in AllWorkers \X (1..3) : p[2] <= Owed(W[p[1]])}
    BY <2>1 DEF Pledged, Owed
  <2>3. \A v \in AllWorkers : Owed(W[v]) = 0
    BY <2>1, OwedOf DEF Resting
  <2>4. Pledged' = {}
    BY <2>2, <2>3
  <2> QED
    BY <2>4, FS_EmptySet
<1> QED
  BY <1>2, <1>3, <1>4, <1>5, <1>6

\* A stage begins with what the stages before were dealt.
LEMMA StageBudget ==
  ASSUME at' \in Stages, next' = 1, ~refused', Cardinality(Pledged') = 0, requests' \in Nat,
         requests' <= Preflight + CycleCost * Dealt(at')
  PROVE  BudgetSound'
<1>1. at' \in Int
  BY Lengths
<1>2. PICK s \in Int : s = at'
  BY <1>1
<1>3. TasksOf(s) \in Nat
  <2>1. PICK c \in Nat : c = CyclesOf(s)
    BY DealtFacts
  <2>2. PICK m \in Nat : m = CycleLength
    BY Lengths
  <2>3. c * m \in Nat
    OBVIOUS
  <2> QED
    BY <2>1, <2>2, <2>3 DEF TasksOf
<1>4. Taken' = 0
  <2>1. Taken' = IF next' - 1 <= TasksOf(s) THEN next' - 1 ELSE TasksOf(s)
    BY <1>2 DEF Taken, TasksOf, CyclesOf
  <2> QED
    BY <1>3, <2>1
<1>5. Cost(Taken)' = 0
  <2>1. Cost(Taken)' = Cost(0)
    BY <1>4 DEF Cost
  <2> QED
    BY <2>1, CostOfNone
<1>6. PICK b \in Nat : b = Preflight + CycleCost * Dealt(at')
  <2>1. Dealt(at') \in Nat /\ CycleCost \in Nat
    BY <1>1, DealtFacts, Lengths
  <2> QED
    BY <2>1, Multiplied DEF Preflight
<1>7. requests' + 0 <= b + 0
  BY <1>6
<1>8. (requests + Cardinality(Pledged) <= Preflight + CycleCost * Dealt(at) + Cost(Taken))'
  <2>1. Dealt(at)' = Dealt(at')
    BY DEF Dealt
  <2> QED
    BY <1>5, <1>6, <1>7, <2>1
<1> QED
  BY <1>8 DEF BudgetSound

LEMMA PreflightFacts ==
  ASSUME HeadInv, at \in {-1, 0}
  PROVE  /\ at \notin Stages /\ at # Report /\ next = 1 /\ count.started = 0
         /\ requests \in Nat /\ requests <= at + 1 /\ ~refused /\ acceptance # "pending"
         /\ \A v \in AllWorkers : worker[v].at = "gone" /\ Resting(worker[v])
         /\ Dealt(at) = 0
<1>1. at \notin Stages /\ at # Report /\ requests \in Nat
  BY Lengths DEF Report, HeadInv, HeadTyped
<1>2. next = 1 /\ count.started = 0 /\ \A v \in AllWorkers : worker[v].at = "gone"
  BY <1>1 DEF HeadInv, IdleOutside
<1>3. requests <= at + 1 /\ ~refused
  BY <1>1 DEF HeadInv, BudgetSound
<1>4. acceptance # "pending"
  BY <1>1 DEF HeadInv, TallySound
<1>5. Dealt(at) = 0
  BY DealtFacts
<1>6. \A v \in AllWorkers : Resting(worker[v])
  BY <1>2 DEF Resting
<1> QED
  BY <1>1, <1>2, <1>3, <1>4, <1>5, <1>6

\* The tally, from one check of the preflight to the next or the first stage.
LEMMA PreflightTally ==
  ASSUME HeadInv, at \in {-1, 0}, at' = at + 1 \/ at' = Report, acceptance' # "pending",
         UNCHANGED <<count, tail, commits>>, Underway' = Underway
  PROVE  TallySound'
<1>1. Dealt(at) = 0 /\ at # Report
  BY PreflightFacts
<1>2. at' # Report => Dealt(at') = 0
  <2>1. at + 1 \in Int /\ at + 1 <= 1
    OBVIOUS
  <2>2. Dealt(at + 1) = 0
    BY <2>1, DealtFacts
  <2> QED
    BY <2>2
<1>3. TallySound
  BY DEF HeadInv
<1>4. Dealt(at)' = Dealt(at')
  BY DEF Dealt
<1>5. at' # Report => (count.completed + count.failed + Len(tail) + count.starved
                        = Dealt(at') + count.started)
  BY <1>1, <1>2, <1>3 DEF TallySound
<1> QED
  BY <1>3, <1>4, <1>5 DEF TallySound, Report

LEMMA HealthStep ==
  ASSUME HeadInv, Health
  PROVE  HeadInv'
<1>1. at = -1 /\ at \in {-1, 0}
  BY DEF Health, HealthCheck
<1>2. HeadTyped /\ requests = 0 /\ at \notin Stages /\ next = 1 /\ ~refused
  BY <1>1, PreflightFacts DEF HeadInv
<1>3. \A v \in AllWorkers : worker[v].at = "gone" /\ Resting(worker[v])
  BY <1>1, PreflightFacts
<1>4. count.started = 0 /\ acceptance # "pending"
  BY <1>1, PreflightFacts
<1>5. /\ UNCHANGED <<next, stageLate, worker, tail, count, commits, stamp, refused>>
      /\ requests' = requests + 1 /\ acceptance' # "pending"
      /\ at' = 0 \/ at' = Report
  BY <1>4 DEF Health, loads, Reports, CapabilityCheck
<1>6. worker' \in [AllWorkers -> WorkerStates]
  BY <1>2, <1>5 DEF HeadTyped
<1>7. Underway = 0 /\ Underway' = 0 /\ ChainSound' /\ OrderSound'
  <2>1. \A v \in AllWorkers : Resting(worker[v]) /\ Resting(worker'[v])
    BY <1>3, <1>5
  <2> QED
    BY <1>5, <1>6, <2>1, RestFacts
<1>8. Report \in Nat /\ Report # 0 /\ Report \notin Stages /\ 0 \notin Stages
  BY Lengths DEF Report
<1>9. at' \in -1..Report /\ at' \notin Stages
  BY <1>5, <1>8
<1>10. HeadTyped'
  BY <1>2, <1>5, <1>9 DEF HeadTyped, WorkerStates, Counts, Report
<1>11. IdleOutside'
  BY <1>2, <1>3, <1>4, <1>5 DEF IdleOutside
<1>12. TallySound'
  BY <1>1, <1>5, <1>7, PreflightTally
<1>13. BudgetSound'
  <2>1. requests' = 1
    BY <1>2, <1>5
  <2>2. at' = Report => 1 <= Cap
    BY HeadroomConstants
  <2>3. at' = 0 => 1 <= at' + 1
    OBVIOUS
  <2>4. requests' <= IF at' = Report THEN Cap ELSE at' + 1
    BY <1>5, <2>1, <2>2, <2>3
  <2> QED
    BY <1>2, <1>5, <1>9, <2>4 DEF BudgetSound, Report
<1> QED
  BY <1>7, <1>10, <1>11, <1>12, <1>13 DEF HeadInv

LEMMA PresentFacts ==
  ASSUME NEW s
  PROVE  /\ Present(s) \in [AllWorkers -> WorkerStates]
         /\ \A v \in AllWorkers : Resting(Present(s)[v])
<1>1. \A v \in AllWorkers : Present(s)[v] \in {Free, Gone}
  BY DEF Present
<1>2. Free \in WorkerStates /\ Gone \in WorkerStates /\ Free.at = "free" /\ Gone.at = "gone"
  BY RestStates
<1>3. \A v \in AllWorkers : Present(s)[v] \in WorkerStates /\ Resting(Present(s)[v])
  BY <1>1, <1>2 DEF Resting
<1>4. Present(s) = [v \in AllWorkers |-> Present(s)[v]]
  BY DEF Present
<1> QED
  BY <1>3, <1>4

LEMMA CapabilitiesStep ==
  ASSUME HeadInv, Capabilities
  PROVE  HeadInv'
<1>1. at = 0 /\ at \in {-1, 0}
  BY DEF Capabilities, CapabilityCheck
<1>2. HeadTyped /\ requests \in 0..1 /\ at \notin Stages /\ next = 1 /\ ~refused
  BY <1>1, PreflightFacts DEF HeadInv
<1>3. \A v \in AllWorkers : worker[v].at = "gone" /\ Resting(worker[v])
  BY <1>1, PreflightFacts
<1>4. count.started = 0 /\ acceptance # "pending"
  BY <1>1, PreflightFacts
<1>5. /\ UNCHANGED <<next, stageLate, tail, count, commits, stamp, refused>>
      /\ requests' = requests + 1 /\ acceptance' # "pending"
      /\ \/ at' = 1 /\ worker' = Present(1)
         \/ at' = Report /\ worker' = worker
  BY <1>4 DEF Capabilities, Reports
<1>6. worker' \in [AllWorkers -> WorkerStates] /\ \A v \in AllWorkers : Resting(worker'[v])
  <2>1. CASE worker' = Present(1)
    BY <2>1, PresentFacts
  <2>2. CASE worker' = worker
    BY <1>2, <1>3, <2>2 DEF HeadTyped
  <2> QED
    BY <1>5, <2>1, <2>2
<1>7. Underway = 0 /\ Underway' = 0 /\ ChainSound' /\ OrderSound' /\ Cardinality(Pledged') = 0
  <2>1. \A v \in AllWorkers : Resting(worker[v]) /\ Resting(worker'[v])
    BY <1>3, <1>6
  <2> QED
    BY <1>5, <1>6, <2>1, RestFacts
<1>8. Report \in Nat /\ Report > 1 /\ Report \notin Stages /\ 1 \in Stages
  BY Lengths DEF Report
<1>9. at' \in -1..Report
  BY <1>5, <1>8
<1>10. HeadTyped'
  BY <1>2, <1>5, <1>6, <1>9 DEF HeadTyped, WorkerStates, Counts, Report
<1>11. IdleOutside'
  BY <1>2, <1>3, <1>4, <1>5, <1>8 DEF IdleOutside
<1>12. TallySound'
  <2>1. at' = at + 1 \/ at' = Report
    BY <1>1, <1>5
  <2> QED
    BY <1>1, <1>5, <1>7, <2>1, PreflightTally
<1>13. BudgetSound'
  <2>1. requests' \in Nat /\ requests' <= 2
    BY <1>2, <1>5
  <2>2. CASE at' = 1
    <3>1. Dealt(at') = 0
      BY <2>2, DealtFacts
    <3>2. Preflight + CycleCost * Dealt(at') = 2
      <4>1. PICK c \in Nat : c = CycleCost
        BY Lengths
      <4>2. 2 + c * 0 = 2
        BY <4>1
      <4> QED
        BY <3>1, <4>1, <4>2 DEF Preflight
    <3>3. at' \in Stages /\ next' = 1 /\ ~refused'
          /\ requests' <= Preflight + CycleCost * Dealt(at')
      BY <1>2, <1>5, <1>8, <2>1, <2>2, <3>2
    <3> QED
      BY <1>7, <2>1, <3>3, StageBudget
  <2>3. CASE at' = Report
    <3>1. requests' <= Cap
      BY <2>1, HeadroomConstants
    <3> QED
      BY <1>2, <1>5, <1>8, <2>3, <3>1 DEF BudgetSound, Report
  <2> QED
    BY <1>5, <2>2, <2>3
<1> QED
  BY <1>7, <1>10, <1>11, <1>12, <1>13 DEF HeadInv

\* A stage leaves no more than it was dealt.
LEMMA StageLeft ==
  ASSUME HeadInv, at \in Stages
  PROVE  /\ requests <= Preflight + CycleCost * Dealt(at + 1)
         /\ requests <= Cap /\ requests \in Nat
<1>1. HeadTyped /\ at \in Int /\ requests \in Nat
  BY DEF HeadInv, HeadTyped
<1>2. Taken \in Nat /\ Taken <= TasksOf(at)
  BY <1>1, TakenFacts
<1>3. PICK b \in Nat : b = Preflight + CycleCost * Dealt(at) + Cost(Taken)
  BY <1>1, <1>2, WithinStage
<1>4. b <= Preflight + CycleCost * Dealt(at + 1) /\ b <= Cap
  BY <1>1, <1>2, <1>3, WithinStage
<1>5. requests + Cardinality(Pledged) <= b
  BY <1>3 DEF HeadInv, BudgetSound
<1>6. requests <= b
  BY <1>1, <1>3, <1>5, PledgedFinite
<1>7. PICK e \in Nat : e = Preflight + CycleCost * Dealt(at + 1)
  <2>1. Dealt(at + 1) \in Nat /\ CycleCost \in Nat
    BY <1>1, DealtFacts, Lengths
  <2> QED
    BY <2>1, Multiplied DEF Preflight
<1> QED
  BY <1>1, <1>3, <1>4, <1>6, <1>7, HeadroomConstants

LEMMA StageSum ==
  ASSUME NEW c \in Int, NEW f \in Int, NEW a \in Int, NEW b \in Int, NEW d \in Int, NEW e \in Int,
         c + f + 0 + a = d + b
  PROVE  c + f + 0 + (a + (e - b)) = d + e + 0
OBVIOUS

LEMMA StageTally ==
  ASSUME HeadInv, StageEnds, tail = <<>>, Underway = 0, Underway' = 0
  PROVE  TallySound'
<1>1. at \in Stages /\ at \in Int /\ count \in Counts /\ commits \in Seq(Nat)
  BY DEF StageEnds, Loading, HeadInv, HeadTyped
<1>2. PICK d, e \in Int : d = Dealt(at) /\ e = CyclesOf(at) /\ Dealt(at + 1) = d + e
  BY <1>1, DealtFacts
<1>3. PICK c, f, a, b \in Int :
         c = count.completed /\ f = count.failed /\ a = count.starved /\ b = count.started
  BY <1>1 DEF Counts
<1>4. at # Report /\ TallySound
  BY <1>1, Lengths DEF Report, HeadInv
<1>5. c + f + 0 + a = d + b
  <2>1. Len(tail) = 0
    OBVIOUS
  <2> QED
    BY <1>2, <1>3, <1>4, <2>1 DEF TallySound
<1>6. c + f + 0 + (a + (e - b)) = d + e + 0
  <2>1. c \in Int /\ f \in Int /\ a \in Int /\ b \in Int /\ d \in Int /\ e \in Int
    BY <1>2, <1>3
  <2> QED
    BY <1>5, <2>1, StageSum
<1>7. count' = [count EXCEPT !.starved = a + (e - b), !.started = 0]
  BY <1>2, <1>3 DEF StageEnds, Starved
<1>8. /\ count'.completed = c /\ count'.failed = f /\ count'.starved = a + (e - b)
      /\ count'.started = 0
  BY <1>1, <1>3, <1>7 DEF Counts
<1>9. Dealt(at)' = d + e
  <2>1. at' = at + 1
    <3>1. at < Len(Concurrency) => at' = at + 1
      BY DEF StageEnds
    <3>2. ~(at < Len(Concurrency)) => at' = Report
      BY DEF StageEnds, Reports
    <3>3. ~(at < Len(Concurrency)) => at = Len(Concurrency)
      BY <1>1, Lengths
    <3> QED
      BY <3>1, <3>2, <3>3 DEF Report
  <2>2. Dealt(at)' = Dealt(at')
    BY DEF Dealt
  <2> QED
    BY <1>2, <2>1, <2>2
<1>10. Len(tail') = 0 /\ commits' = commits
  BY DEF StageEnds
<1>11. /\ c + 0 <= Len(commits)
       /\ Len(commits) <= c + f + 0
       /\ acceptance # "pending"
  BY <1>3, <1>4 DEF TallySound
<1>12. acceptance' = "pending" => at' = Report /\ count'.failed = 0 /\ count'.starved = 0
  <2>1. CASE at < Len(Concurrency)
    BY <1>11, <2>1 DEF StageEnds
  <2>2. CASE ~(at < Len(Concurrency))
    <3>1. PICK latency \in Thresholds :
             Reports(IF latency # "within_target" \/ count.failed # 0 \/ count'.starved # 0
                        \/ count.errors # 0 THEN "failed" ELSE "pending")
      BY <2>2 DEF StageEnds
    <3>2. at' = Report
      BY <3>1 DEF Reports
    <3>3. acceptance' = "pending" => count.failed = 0 /\ count'.starved = 0
      BY <3>1 DEF Reports
    <3> QED
      BY <1>3, <1>8, <3>2, <3>3
  <2> QED
    BY <2>1, <2>2
<1>13. count'.completed + count'.failed + Len(tail') + count'.starved = Dealt(at)' + count'.started
  BY <1>6, <1>8, <1>9, <1>10
<1> QED
  BY <1>8, <1>10, <1>11, <1>12, <1>13 DEF TallySound

LEMMA StageEndsStep ==
  ASSUME HeadInv, StageEnds
  PROVE  HeadInv'
<1>1. at \in Stages /\ at \in 1..Len(Concurrency) /\ HeadTyped /\ ~refused
      /\ \A w \in AllWorkers : worker[w].at = "gone"
  BY Lengths DEF StageEnds, Loading, HeadInv, BudgetSound
<1>2. /\ UNCHANGED <<requests, tail, commits, stamp, refused>> /\ next' = 1 /\ stageLate' = FALSE
      /\ \/ at < Len(Concurrency) /\ at' = at + 1 /\ worker' = Present(at + 1)
         \/ ~(at < Len(Concurrency)) /\ at' = Report /\ worker' = worker
  BY DEF StageEnds, Reports
<1>3. worker' \in [AllWorkers -> WorkerStates] /\ \A v \in AllWorkers : Resting(worker'[v])
  <2>1. CASE worker' = Present(at + 1)
    BY <2>1, PresentFacts
  <2>2. CASE worker' = worker
    BY <1>1, <2>2 DEF HeadTyped, Resting
  <2> QED
    BY <1>2, <2>1, <2>2
<1>4. /\ tail = <<>> /\ Underway = 0 /\ Underway' = 0 /\ ChainSound' /\ OrderSound'
      /\ Cardinality(Pledged') = 0
  <2>1. \A v \in AllWorkers : Resting(worker[v]) /\ Resting(worker'[v])
    BY <1>1, <1>3 DEF Resting
  <2> QED
    BY <1>2, <1>3, <2>1, RestFacts
<1>5. TallySound'
  BY <1>4, StageTally
<1>6. Report \in Nat /\ Report = Len(Concurrency) + 1 /\ Report \notin Stages
      /\ Len(Concurrency) \in Nat /\ Stages = 1..Len(Concurrency)
  BY Lengths DEF Report
<1>7. at' \in 1..Report /\ (at' \in Stages <=> at < Len(Concurrency))
  BY <1>1, <1>2, <1>6
<1>8. count' \in Counts
  <2>1. PICK a, b \in Int : a = count.starved /\ b = count.started
    BY <1>1 DEF HeadTyped, Counts
  <2>2. PICK e \in Int : e = CyclesOf(at)
    BY <1>1, DealtFacts
  <2>3. count' = [count EXCEPT !.starved = a + (e - b), !.started = 0]
    BY <2>1, <2>2 DEF StageEnds, Starved
  <2>4. a + (e - b) \in Int
    BY <2>1, <2>2
  <2> QED
    BY <1>1, <2>3, <2>4 DEF HeadTyped, Counts
<1>9. HeadTyped'
  <2>1. at' \in -1..Report
    BY <1>6, <1>7
  <2> QED
    <3>1. /\ requests' \in Nat /\ tail' \in Seq(AllWorkers) /\ commits' \in Seq(Nat)
          /\ stamp' \in Nat
      BY <1>1, <1>2 DEF HeadTyped
    <3>2. next' \in Nat \ {0} /\ stageLate' \in BOOLEAN /\ refused' \in BOOLEAN
      <4>1. next' = 1 /\ stageLate' = FALSE /\ refused' = refused
        BY <1>2
      <4>2. refused' \in BOOLEAN
        BY <1>1, <4>1 DEF HeadTyped
      <4>3. stageLate' \in BOOLEAN
        BY <4>1
      <4> QED
        BY <4>1, <4>2, <4>3
    <3> QED
      BY <1>3, <1>8, <2>1, <3>1, <3>2 DEF HeadTyped, WorkerStates, Counts, Report
<1>10. IdleOutside'
  <2>1. count'.started = 0
    BY <1>1 DEF StageEnds, HeadTyped, Counts
  <2>2. at' \notin Stages => worker' = worker
    BY <1>2, <1>7
  <2> QED
    BY <1>1, <1>2, <2>1, <2>2 DEF IdleOutside
<1>11. BudgetSound'
  <2>1. /\ requests <= Preflight + CycleCost * Dealt(at + 1)
        /\ requests <= Cap /\ requests \in Nat
    BY <1>1, StageLeft
  <2>2. CASE at < Len(Concurrency)
    <3>1. at' \in Stages /\ at' = at + 1
      BY <1>2, <1>7, <2>2
    <3> QED
      BY <1>1, <1>2, <1>4, <2>1, <3>1, StageBudget
  <2>3. CASE ~(at < Len(Concurrency))
    <3>1. at' = Report /\ at' \notin Stages
      BY <1>2, <1>7, <2>3
    <3> QED
      BY <1>1, <1>2, <2>1, <3>1 DEF BudgetSound, Report
  <2> QED
    BY <2>2, <2>3
<1> QED
  BY <1>4, <1>5, <1>9, <1>10, <1>11 DEF HeadInv

LEMMA HeadroomBegins == HeadroomInit => HeadInv
<1> HAVE HeadroomInit
<1>1. /\ at = -1 /\ requests = 0 /\ next = 1 /\ stageLate = FALSE
      /\ worker = [w \in AllWorkers |-> Gone] /\ tail = <<>>
      /\ commits = <<>> /\ stamp = 0 /\ refused = FALSE /\ acceptance = "none"
  BY DEF HeadroomInit, HealthCheck
<1>2. count = [started |-> 0, completed |-> 0, failed |-> 0, starved |-> 0, errors |-> 0]
  BY DEF HeadroomInit
<1>3. \A w \in AllWorkers : worker[w] = Gone /\ worker[w].at = "gone" /\ worker[w] \in WorkerStates
  BY <1>1, RestStates
<1>4. at \notin Stages /\ Report \in Nat /\ at \in -1..Report /\ at # Report
  BY <1>1, Lengths DEF Report
<1>5. HeadTyped
  <2>1. worker \in [AllWorkers -> WorkerStates]
    BY <1>1, RestStates
  <2>2. count \in Counts
    BY <1>2 DEF Counts
  <2> QED
    <3>1. tail \in Seq(AllWorkers) /\ commits \in Seq(Nat)
      BY <1>1
    <3>2. /\ requests \in Nat /\ stamp \in Nat /\ next \in Nat \ {0} /\ stageLate \in BOOLEAN
          /\ refused \in BOOLEAN
      <4>1. refused \in BOOLEAN
        BY <1>1
      <4>2. stageLate \in BOOLEAN
        BY <1>1
      <4> QED
        BY <1>1, <4>1, <4>2
    <3> QED
      BY <1>4, <2>1, <2>2, <3>1, <3>2 DEF HeadTyped
<1>6. IdleOutside
  BY <1>1, <1>2, <1>3 DEF IdleOutside
<1>7. ChainSound
  BY <1>1, <1>3 DEF ChainSound, Chained
<1>8. OrderSound
  BY <1>1, <1>3 DEF OrderSound, CommitsInOrder
<1>9. TallySound
  <2>1. Underway = 0
    BY <1>3 DEF Underway, Committing
  <2>2. Dealt(at) = 0
    <3>1. -1 \in Int /\ -1 <= 1
      OBVIOUS
    <3> QED
      BY <1>1, <3>1, DealtFacts
  <2>3. /\ count.completed = 0 /\ count.failed = 0 /\ count.starved = 0 /\ count.started = 0
        /\ Len(tail) = 0 /\ Len(commits) = 0
    BY <1>1, <1>2
  <2> QED
    BY <1>1, <2>1, <2>2, <2>3 DEF TallySound
<1>10. BudgetSound
  <2>1. requests <= IF at = Report THEN Cap ELSE at + 1
    BY <1>1, <1>4
  <2> QED
    BY <1>1, <1>4, <2>1 DEF BudgetSound
<1> QED
  BY <1>5, <1>6, <1>7, <1>8, <1>9, <1>10 DEF HeadInv

LEMMA HeadroomStep == HeadInv /\ [HeadroomNext]_headVars => HeadInv'
<1> SUFFICES ASSUME HeadInv, [HeadroomNext]_headVars PROVE HeadInv'
  OBVIOUS
<1>1. CASE Health \/ Capabilities \/ DeadlinePasses \/ StageEnds
  BY <1>1, HealthStep, CapabilitiesStep, DeadlineStep, StageEndsStep
<1>2. CASE \E w \in AllWorkers : WriteOverdue(w) \/ Take(w) \/ SlotComes(w) \/ BeginWrite(w)
                                 \/ SendWrite(w) \/ WriteAnswered(w) \/ SendRead(w)
                                 \/ ReadAnswered(w)
  <2> PICK w \in AllWorkers : WriteOverdue(w) \/ Take(w) \/ SlotComes(w) \/ BeginWrite(w)
                              \/ SendWrite(w) \/ WriteAnswered(w) \/ SendRead(w)
                              \/ ReadAnswered(w)
    BY <1>2
  <2> QED
    BY OverdueStep, TakeStep, SlotStep, BeginStep, SendWriteStep, WriteAnsweredStep,
       SendReadStep, ReadAnsweredStep
<1>3. CASE UNCHANGED headVars
  <2>1. HeadTyped'
    BY <1>3 DEF headVars, HeadInv, HeadTyped, WorkerStates, Counts, Report
  <2>2. IdleOutside' /\ ChainSound'
    BY <1>3 DEF headVars, HeadInv, IdleOutside, ChainSound, Chained
  <2>3. OrderSound'
    BY <1>3 DEF headVars, HeadInv, OrderSound, CommitsInOrder, Committing
  <2>4. TallySound'
    BY <1>3 DEF headVars, HeadInv, TallySound, Underway, Committing, Dealt, Report
  <2>5. BudgetSound'
    <3>1. Pledged' = Pledged
      BY <1>3 DEF headVars, Pledged, Owed
    <3>2. Taken' = Taken /\ Dealt(at)' = Dealt(at)
      BY <1>3 DEF headVars, Taken, TasksOf, CyclesOf, Dealt
    <3>3. Cost(Taken)' = Cost(Taken)
      BY <3>2 DEF Cost
    <3> QED
      BY <1>3, <3>1, <3>2, <3>3 DEF headVars, HeadInv, BudgetSound, Report
  <2> QED
    BY <2>1, <2>2, <2>3, <2>4, <2>5 DEF HeadInv
<1> QED
  BY <1>1, <1>2, <1>3 DEF HeadroomNext

\* The measurement keeps its promise: within the budget it was planned for,
\* committing in the order of the time stamps, and accepted only when every
\* affordable cycle has its write completed.
LEMMA MeasurementHolds == HeadInv => MeasurementSound
<1> HAVE HeadInv
<1>1. BudgetSuffices
  <2>1. ~refused /\ HeadTyped
    BY DEF HeadInv, BudgetSound
  <2>2. CASE at \in Stages
    BY <2>1, <2>2, StageLeft DEF BudgetSuffices
  <2>3. CASE at \notin Stages
    <3>1. at \in -1..Report /\ requests \in Nat
      BY DEF HeadInv, HeadTyped
    <3>2. Report = Len(Concurrency) + 1 /\ Report \in Nat
      BY Lengths DEF Report
    <3>3. at = Report \/ at + 1 <= 1
      BY <2>3, <3>1, <3>2, Lengths
    <3>4. requests <= IF at = Report THEN Cap ELSE at + 1
      BY <2>3 DEF HeadInv, BudgetSound
    <3> QED
      BY <2>1, <3>1, <3>2, <3>3, <3>4, HeadroomConstants DEF BudgetSuffices
  <2> QED
    BY <2>2, <2>3
<1>2. CommitsInOrder
  BY DEF HeadInv, OrderSound
<1>3. AcceptedIsComplete
  <2> SUFFICES ASSUME acceptance = "pending"
               PROVE  count.completed = Affordable /\ count.completed = Len(commits)
    BY DEF AcceptedIsComplete
  <2>1. at = Report /\ count.failed = 0 /\ count.starved = 0
    BY DEF HeadInv, TallySound
  <2>2. at \notin Stages /\ at \in Int
    BY <2>1, Lengths DEF Report
  <2>3. count.started = 0 /\ \A w \in AllWorkers : Resting(worker[w]) /\ ~Committing(worker[w])
    BY <2>2 DEF HeadInv, IdleOutside, Resting, Committing
  <2>4. Underway = 0 /\ tail = <<>>
    <3>1. Underway = 0
      BY <2>3 DEF Underway
    <3>2. ASSUME Len(tail) # 0 PROVE FALSE
      <4>1. 1 \in 1..Len(tail) /\ tail[1] \in AllWorkers
        BY <3>2, Chains
      <4>2. Chained(worker[tail[1]])
        BY <4>1, Chains
      <4> QED
        BY <2>3, <4>1, <4>2 DEF Resting, Chained
    <3> QED
      BY <3>1, <3>2, Chains
  <2>5. Dealt(at) = Affordable /\ Affordable \in Nat
    BY <2>1, <2>2, DealtFacts, Affords
  <2>6. count.completed + count.failed + Len(tail) + count.starved = Dealt(at) + count.started
    BY DEF HeadInv, TallySound
  <2>7. count.completed + Underway <= Len(commits)
        /\ Len(commits) <= count.completed + count.failed + Underway
    BY DEF HeadInv, TallySound
  <2>8. PICK c, n, a \in Nat : c = count.completed /\ n = Len(commits) /\ a = Affordable
    BY <2>5 DEF HeadInv, HeadTyped, Counts
  <2>9. c + 0 + 0 + 0 = a + 0 /\ c + 0 <= n /\ n <= c + 0 + 0
    BY <2>1, <2>3, <2>4, <2>5, <2>6, <2>7, <2>8
  <2>10. c = a /\ c = n
    <3>1. c \in Nat /\ n \in Nat /\ a \in Nat
      BY <2>8
    <3> QED
      BY <2>9, <3>1
  <2> QED
    BY <2>8, <2>10
<1> QED
  BY <1>1, <1>2, <1>3 DEF MeasurementSound

\* Whatever the workers of each stage, the mix and the budget: a measurement
\* stays within its budget and holds back no request, commits in the order of
\* its time stamps, and is left to review only when every write was completed.
THEOREM MeasurementIsSound == HeadroomSpec => []MeasurementSound
<1>1. HeadroomSpec => []HeadInv
  BY HeadroomBegins, HeadroomStep, PTL DEF HeadroomSpec
<1> QED
  BY <1>1, MeasurementHolds, PTL

\* Some worker is at a step whose guard holds: SendWrite and SendRead have one
\* for every deadline and budget, a queued writer one if it is its turn.
CanMove(w) ==
  \/ worker[w].at \in {"free", "slot", "write", "read"}
  \/ worker[w].at = "queued" /\ tail # <<>> /\ ItsTurn(w)
NeverWaitsForItself ==
  Loading => (\A w \in AllWorkers : worker[w].at = "gone") \/ \E w \in AllWorkers : CanMove(w)

LEMMA HeadMoves == HeadInv => NeverWaitsForItself
<1> SUFFICES ASSUME HeadInv, NEW w \in AllWorkers, worker[w].at # "gone"
             PROVE  \E v \in AllWorkers : CanMove(v)
  BY DEF NeverWaitsForItself
<1>1. worker[w].at \in {"free", "gone", "slot", "queued", "write", "read"}
  BY InPlace DEF WorkerStates
<1>2. CASE worker[w].at # "queued"
  BY <1>1, <1>2 DEF CanMove
<1>3. CASE worker[w].at = "queued"
  <2>1. PICK i \in 1..Len(tail) : tail[i] = w
    BY <1>3 DEF HeadInv, ChainSound, Chained
  <2>2. tail \in Seq(AllWorkers) /\ tail # <<>> /\ 1 \in 1..Len(tail)
    BY <2>1 DEF HeadInv, HeadTyped
  <2>3. tail[1] \in AllWorkers /\ Head(tail) = tail[1]
    BY <2>2
  <2>4. Chained(worker[tail[1]])
    BY <2>2, <2>3 DEF HeadInv, ChainSound
  <2> QED
    BY <2>2, <2>3, <2>4 DEF CanMove, Chained, ItsTurn
<1> QED
  BY <1>2, <1>3

\* What GoesOn says of enabled steps, as guards: while a stage is under way it
\* ends, or a worker has a step to take; no write waits for one that is over.
THEOREM MeasurementNeverWaits == HeadroomSpec => []NeverWaitsForItself
<1>1. HeadroomSpec => []HeadInv
  BY HeadroomBegins, HeadroomStep, PTL DEF HeadroomSpec
<1> QED
  BY <1>1, HeadMoves, PTL

------------------------------------------------------------------------------
(* The measurement ends: what the workers have left is a finite set of      *)
(* pairs of a worker and a step, and a step of a worker that takes no task  *)
(* removes some of them.                                                    *)

Efforts == {p \in AllWorkers \X (1..16) : p[2] <= WorkLeft(worker[p[1]])}

LEMMA WorkOf ==
  ASSUME NEW k \in WorkerStates
  PROVE  /\ k.at = "gone" => WorkLeft(k) = 0
         /\ k.at = "free" => WorkLeft(k) = 1
         /\ k.at = "read" => WorkLeft(k) = IF k.sent THEN 2 ELSE 3
         /\ k.at = "queued" => WorkLeft(k) = IF k.overdue THEN 14 ELSE 15
         /\ k.at = "slot" => WorkLeft(k) = 16
BY DEF WorkLeft

LEMMA WorkOfWrite ==
  ASSUME NEW k \in WorkerStates, k.at = "write"
  PROVE  WorkLeft(k) = 4 * (3 - k.step) + (IF k.sent THEN 2 ELSE 4) + (IF k.overdue THEN 0 ELSE 1)
BY DEF WorkLeft, WriterCost

LEMMA RestWork == WorkLeft(Free) = 1 /\ WorkLeft(Gone) = 0
<1>1. PICK f, g : f = Free /\ g = Gone
  OBVIOUS
<1>2. f.at = "free" /\ g.at = "gone"
  BY <1>1, RestStates, Zenon
<1>3. WorkLeft(f) = 1 /\ WorkLeft(g) = 0
  BY <1>2 DEF WorkLeft
<1> QED
  BY <1>1, <1>3

LEMMA WorkRange ==
  ASSUME NEW k \in WorkerStates, k.at = "write" => k.step \in 1..3
  PROVE  WorkLeft(k) \in 0..16
<1>1. k.step \in Int /\ k.at \in {"free", "gone", "slot", "queued", "write", "read"}
  BY DEF WorkerStates
<1>2. CASE k.at = "write"
  <2>1. PICK s \in 1..3 : s = k.step
    BY <1>2
  <2>2. WorkLeft(k) = 4 * (3 - s) + (IF k.sent THEN 2 ELSE 4) + (IF k.overdue THEN 0 ELSE 1)
    BY <1>2, <2>1, WorkOfWrite
  <2> QED
    BY <2>2
<1>3. CASE k.at # "write"
  BY <1>1, <1>3, WorkOf
<1> QED
  BY <1>2, <1>3

LEMMA EffortsFinite ==
  ASSUME NEW W
  PROVE  LET P == {p \in AllWorkers \X (1..16) : p[2] <= WorkLeft(W[p[1]])}
         IN  IsFiniteSet(P) /\ Cardinality(P) \in Nat
<1> DEFINE P == {p \in AllWorkers \X (1..16) : p[2] <= WorkLeft(W[p[1]])}
<1>1. IsFiniteSet(AllWorkers \X (1..16))
  <2>0. PICK b \in Int : b = 16
    OBVIOUS
  <2>1. IsFiniteSet(1..b)
    BY FS_Interval
  <2> QED
    BY <2>0, <2>1, WorkersFinite, FS_Product, Zenon
<1>2. P \in SUBSET (AllWorkers \X (1..16))
  OBVIOUS
<1> QED
  BY <1>1, <1>2, FS_Subset, FS_CardinalityType

\* One worker comes nearer to its end, and the deadlines are where they were.
LEMMA WorkShrinks ==
  ASSUME HeadTyped, NEW w \in AllWorkers, NEW k \in WorkerStates, Moves(w, k),
         WorkLeft(k) \in 0..16, WorkLeft(worker[w]) \in 0..16,
         WorkLeft(k) < WorkLeft(worker[w]), stageLate' = stageLate
  PROVE  EffortLeft' < EffortLeft
<1>1. PICK W : W = worker'
  OBVIOUS
<1>2. W[w] = k /\ \A v \in AllWorkers : v # w => W[v] = worker[v]
  BY <1>1, MovesFacts
<1>3. PICK P : P = {p \in AllWorkers \X (1..16) : p[2] <= WorkLeft(W[p[1]])}
  OBVIOUS
<1> DEFINE x == <<w, WorkLeft(worker[w])>>
<1>4. ASSUME NEW p \in P
      PROVE  p \in Efforts /\ p # x
  <2>1. p \in AllWorkers \X (1..16) /\ p[2] <= WorkLeft(W[p[1]]) /\ p[2] \in Int /\ p[1] \in AllWorkers
    BY <1>3
  <2>2. CASE p[1] = w
    BY <1>2, <2>1, <2>2 DEF Efforts
  <2>3. CASE p[1] # w
    BY <1>2, <2>1, <2>3 DEF Efforts
  <2> QED
    BY <2>2, <2>3
<1>5. x \in Efforts
  BY DEF Efforts
<1>6. P \in SUBSET Efforts /\ P # Efforts
  BY <1>4, <1>5
<1>7. /\ IsFiniteSet(Efforts) /\ Cardinality(Efforts) \in Nat
      /\ IsFiniteSet(P) /\ Cardinality(P) \in Nat
  <2>1. IsFiniteSet(Efforts) /\ Cardinality(Efforts) \in Nat
    BY EffortsFinite DEF Efforts
  <2>2. IsFiniteSet(P) /\ Cardinality(P) \in Nat
    BY <1>3, EffortsFinite
  <2> QED
    BY <2>1, <2>2
<1>8. Cardinality(P) <= Cardinality(Efforts) /\ Cardinality(P) # Cardinality(Efforts)
  BY <1>6, <1>7, FS_Subset
<1>9. Cardinality(P) < Cardinality(Efforts)
  BY <1>7, <1>8
<1>10. EffortLeft = Cardinality(Efforts) + (IF stageLate THEN 0 ELSE 1)
  BY DEF EffortLeft, Efforts
<1>11. EffortLeft' = Cardinality(P) + (IF stageLate THEN 0 ELSE 1)
  BY <1>1, <1>3 DEF EffortLeft, WorkLeft
<1> QED
  BY <1>7, <1>9, <1>10, <1>11

LEMMA WorkInPlace ==
  ASSUME HeadInv, NEW w \in AllWorkers
  PROVE  worker[w] \in WorkerStates /\ WorkLeft(worker[w]) \in 0..16
BY InPlace, WorkRange

\* A step of one worker that takes no task.
Works(w) ==
  \/ WriteOverdue(w) \/ SlotComes(w) \/ BeginWrite(w) \/ SendWrite(w) \/ WriteAnswered(w)
  \/ SendRead(w) \/ ReadAnswered(w)
Shrinks(w, k) ==
  /\ k \in WorkerStates /\ Moves(w, k)
  /\ WorkLeft(k) \in 0..16 /\ WorkLeft(k) < WorkLeft(worker[w])

LEMMA ReadingShrinks ==
  ASSUME HeadInv, NEW w \in AllWorkers, SendRead(w) \/ ReadAnswered(w) \/ SlotComes(w)
  PROVE  \E k : Shrinks(w, k)
<1>0. worker[w] \in WorkerStates
  BY InPlace
<1>1. Free \in WorkerStates /\ WorkLeft(Free) = 1 /\ Gone \in WorkerStates /\ WorkLeft(Gone) = 0
  BY RestStates, RestWork, Zenon
<1>2. CASE SendRead(w)
  <2>1. WorkLeft(worker[w]) = 3 /\ worker[w].at = "read"
    BY <1>0, <1>2, WorkOf DEF SendRead
  <2>2. CASE worker' = [worker EXCEPT ![w] = Free]
    <3>1. Shrinks(w, Free)
      BY <1>1, <2>1, <2>2 DEF Moves, Shrinks
    <3> QED
      BY <3>1
  <2>3. CASE worker' = [worker EXCEPT ![w].sent = TRUE]
    <3>1. PICK k : k = [worker[w] EXCEPT !.sent = TRUE]
      OBVIOUS
    <3>2. k \in WorkerStates /\ k.at = "read" /\ k.sent
      BY <1>0, <2>1, <3>1 DEF WorkerStates
    <3>3. WorkLeft(k) = 2
      BY <3>2, WorkOf
    <3>4. Shrinks(w, k)
      BY <2>1, <2>3, <3>1, <3>2, <3>3 DEF Moves, Shrinks
    <3> QED
      BY <3>4
  <2> QED
    BY <1>2, <2>2, <2>3 DEF SendRead
<1>3. CASE ReadAnswered(w)
  <2>1. WorkLeft(worker[w]) = 2
    BY <1>0, <1>3, WorkOf DEF ReadAnswered
  <2>2. Shrinks(w, Free)
    BY <1>1, <1>3, <2>1 DEF ReadAnswered, Moves, Shrinks
  <2> QED
    BY <2>2
<1>4. CASE SlotComes(w)
  <2>1. WorkLeft(worker[w]) = 16
    BY <1>0, <1>4, WorkOf DEF SlotComes
  <2>2. CASE worker' = [worker EXCEPT ![w] = Gone]
    <3>1. Shrinks(w, Gone)
      BY <1>1, <2>1, <2>2 DEF Moves, Shrinks
    <3> QED
      BY <3>1
  <2>3. ASSUME NEW place \in {"queued", "read"}, worker' = [worker EXCEPT ![w].at = place]
        PROVE  \E k : Shrinks(w, k)
    <3>1. PICK k : k = [worker[w] EXCEPT !.at = place]
      OBVIOUS
    <3>2. k \in WorkerStates /\ k.at = place
      BY <1>0, <3>1 DEF WorkerStates
    <3>3. WorkLeft(k) \in {2, 3, 14, 15}
      BY <3>2, WorkOf
    <3>4. Shrinks(w, k)
      BY <2>1, <2>3, <3>1, <3>2, <3>3 DEF Moves, Shrinks
    <3> QED
      BY <3>4
  <2>4. \/ worker' = [worker EXCEPT ![w] = Gone]
        \/ worker' = [worker EXCEPT ![w].at = "queued"]
        \/ worker' = [worker EXCEPT ![w].at = "read"]
    BY <1>4 DEF SlotComes
  <2> QED
    BY <2>2, <2>3, <2>4
<1> QED
  BY <1>2, <1>3, <1>4

LEMMA WritingShrinks ==
  ASSUME HeadInv, NEW w \in AllWorkers,
         WriteOverdue(w) \/ BeginWrite(w) \/ SendWrite(w) \/ WriteAnswered(w)
  PROVE  \E k : Shrinks(w, k)
<1>0. /\ worker[w] \in WorkerStates /\ WorkLeft(worker[w]) \in 0..16
      /\ worker[w].at = "write" => worker[w].step \in 1..3
  BY InPlace, WorkInPlace
<1>1. Free \in WorkerStates /\ WorkLeft(Free) = 1
  BY RestStates, RestWork, Zenon
<1>2. ASSUME worker[w].at = "write", worker' = [worker EXCEPT ![w] = Free]
      PROVE  \E k : Shrinks(w, k)
  <2>1. PICK s \in 1..3 : s = worker[w].step
    BY <1>0, <1>2
  <2>2. WorkLeft(worker[w]) = 4 * (3 - s) + (IF worker[w].sent THEN 2 ELSE 4)
                              + (IF worker[w].overdue THEN 0 ELSE 1)
    BY <1>0, <1>2, <2>1, WorkOfWrite
  <2>3. WorkLeft(worker[w]) > 1
    BY <2>2
  <2>4. Shrinks(w, Free)
    BY <1>1, <1>2, <2>3 DEF Moves, Shrinks
  <2> QED
    BY <2>4
<1>3. CASE WriteOverdue(w)
  <2>1. PICK k : k = [worker[w] EXCEPT !.overdue = TRUE]
    OBVIOUS
  <2>2. /\ k \in WorkerStates /\ k.at = worker[w].at /\ k.step = worker[w].step
        /\ k.sent = worker[w].sent /\ k.overdue
    BY <1>0, <2>1 DEF WorkerStates
  <2>3. ~worker[w].overdue /\ worker[w].at \in {"queued", "write"} /\ Moves(w, k)
    BY <1>3, <2>1 DEF WriteOverdue, Moves
  <2>4. WorkLeft(k) \in 0..16
    BY <1>0, <2>2, WorkRange
  <2>5. WorkLeft(k) < WorkLeft(worker[w])
    <3>1. CASE worker[w].at = "queued"
      BY <1>0, <2>2, <2>3, <3>1, WorkOf
    <3>2. CASE worker[w].at = "write"
      <4>1. PICK n \in Nat : n = 4 * (3 - worker[w].step) + (IF worker[w].sent THEN 2 ELSE 4)
        BY <1>0, <3>2
      <4>2. WorkLeft(k) = n + 0 /\ WorkLeft(worker[w]) = n + 1
        BY <1>0, <2>2, <2>3, <3>2, <4>1, WorkOfWrite
      <4> QED
        BY <4>2
    <3> QED
      BY <2>3, <3>1, <3>2
  <2>6. Shrinks(w, k)
    BY <2>2, <2>3, <2>4, <2>5 DEF Shrinks
  <2> QED
    BY <2>6
<1>4. CASE BeginWrite(w)
  <2>1. WorkLeft(worker[w]) \in {14, 15} /\ worker[w].at = "queued"
        /\ (WorkLeft(worker[w]) = 14 <=> worker[w].overdue)
    BY <1>0, <1>4, WorkOf DEF BeginWrite
  <2>2. PICK k : k = [worker[w] EXCEPT !.at = "write", !.step = 1, !.task = stamp + 1]
    OBVIOUS
  <2>3. /\ "write" \in {"free", "gone", "slot", "queued", "write", "read"} /\ 1 \in 0..3
        /\ stamp + 1 \in Nat
    BY DEF HeadInv, HeadTyped
  <2>4. k \in WorkerStates /\ k.at = "write" /\ k.step = 1
    <3>1. k.at = "write" /\ k.step = 1
      BY <1>0, <2>2 DEF WorkerStates
    <3>2. k \in WorkerStates
      BY <1>0, <2>2, <2>3 DEF WorkerStates
    <3> QED
      BY <3>1, <3>2
  <2>5. WorkLeft(k) \in 10..13
    BY <2>4, WorkOfWrite
  <2>6. Moves(w, k)
    BY <1>4, <2>2 DEF BeginWrite, Moves, Generation
  <2>7. WorkLeft(k) < WorkLeft(worker[w]) /\ WorkLeft(k) \in 0..16
    BY <2>1, <2>5
  <2>8. Shrinks(w, k)
    BY <2>4, <2>6, <2>7 DEF Shrinks
  <2> QED
    BY <2>8
<1>5. CASE SendWrite(w)
  <2>1. worker[w].at = "write" /\ ~worker[w].sent
    BY <1>5 DEF SendWrite
  <2>2. CASE worker' = [worker EXCEPT ![w].sent = TRUE]
    <3>1. PICK k : k = [worker[w] EXCEPT !.sent = TRUE]
      OBVIOUS
    <3>2. /\ k \in WorkerStates /\ k.at = "write" /\ k.step = worker[w].step
          /\ k.overdue = worker[w].overdue /\ k.sent
      BY <1>0, <2>1, <3>1 DEF WorkerStates
    <3>3. PICK n \in Nat : n = 4 * (3 - worker[w].step)
      BY <1>0, <2>1
    <3>4. PICK o \in {0, 1} : o = IF worker[w].overdue THEN 0 ELSE 1
      OBVIOUS
    <3>5. WorkLeft(k) = n + 2 + o /\ WorkLeft(worker[w]) = n + 4 + o
      BY <1>0, <2>1, <3>2, <3>3, <3>4, WorkOfWrite
    <3>6. WorkLeft(k) < WorkLeft(worker[w])
      BY <3>5
    <3>7. WorkLeft(k) \in 0..16
      BY <1>0, <2>1, <3>2, WorkRange
    <3>8. Shrinks(w, k)
      BY <2>2, <3>1, <3>2, <3>6, <3>7 DEF Moves, Shrinks
    <3> QED
      BY <3>8
  <2>3. worker' = [worker EXCEPT ![w] = Free] \/ worker' = [worker EXCEPT ![w].sent = TRUE]
    BY <1>5 DEF SendWrite, WriteFails
  <2> QED
    BY <1>2, <2>1, <2>2, <2>3
<1>6. CASE WriteAnswered(w)
  <2>1. worker[w].at = "write" /\ worker[w].sent
    BY <1>6 DEF WriteAnswered
  <2>2. ASSUME worker[w].step < 3, worker' = [worker EXCEPT ![w].step = @ + 1, ![w].sent = FALSE]
        PROVE  \E k : Shrinks(w, k)
    <3>1. PICK s \in 1..2 : s = worker[w].step
      BY <1>0, <2>1, <2>2
    <3>2. PICK k : k = [worker[w] EXCEPT !.step = s + 1, !.sent = FALSE]
      OBVIOUS
    <3>3. s + 1 \in 0..3 /\ s + 1 \in 1..3
      BY <3>1
    <3>4. /\ k \in WorkerStates /\ k.at = "write" /\ k.step = s + 1
          /\ k.overdue = worker[w].overdue /\ ~k.sent
      BY <1>0, <2>1, <3>2, <3>3 DEF WorkerStates
    <3>5. PICK o \in {0, 1} : o = IF worker[w].overdue THEN 0 ELSE 1
      OBVIOUS
    <3>6. WorkLeft(k) = 4 * (3 - (s + 1)) + 4 + o /\ WorkLeft(worker[w]) = 4 * (3 - s) + 2 + o
      BY <1>0, <2>1, <3>1, <3>4, <3>5, WorkOfWrite
    <3>7. WorkLeft(k) < WorkLeft(worker[w])
      BY <3>1, <3>6
    <3>8. WorkLeft(k) \in 0..16
      BY <3>3, <3>4, WorkRange
    <3>9. Moves(w, k)
      BY <2>2, <3>1, <3>2 DEF Moves
    <3>10. Shrinks(w, k)
      BY <3>4, <3>7, <3>8, <3>9 DEF Shrinks
    <3> QED
      BY <3>10
  <2>3. \/ worker[w].step < 3 /\ worker' = [worker EXCEPT ![w].step = @ + 1, ![w].sent = FALSE]
        \/ worker' = [worker EXCEPT ![w] = Free]
    BY <1>6 DEF WriteAnswered, WriterCost
  <2> QED
    BY <1>2, <2>1, <2>2, <2>3
<1> QED
  BY <1>3, <1>4, <1>5, <1>6

\* Only the stage and the tasks taken determine the tasks that are left.
LEMMA TasksStay ==
  ASSUME at' = at, next' = next
  PROVE  TasksLeft' = TasksLeft
<1>1. TasksOf(at)' = TasksOf(at)
  BY DEF TasksOf, CyclesOf
<1> QED
  BY <1>1 DEF TasksLeft

LEMMA WorkerAdvances ==
  ASSUME HeadInv, NEW w \in AllWorkers, Works(w)
  PROVE  at = at' /\ TasksLeft' = TasksLeft /\ EffortLeft' < EffortLeft
<1>1. at' = at /\ next' = next /\ stageLate' = stageLate
  BY DEF Works, WriteOverdue, SlotComes, BeginWrite, SendWrite, WriteAnswered, SendRead, ReadAnswered
<1>2. PICK k : Shrinks(w, k)
  BY ReadingShrinks, WritingShrinks DEF Works
<1>3. HeadTyped /\ WorkLeft(worker[w]) \in 0..16
  BY WorkInPlace DEF HeadInv
<1>4. EffortLeft' < EffortLeft
  BY <1>1, <1>2, <1>3, WorkShrinks DEF Shrinks
<1> QED
  BY <1>1, <1>4, TasksStay

\* A free worker takes a task, or leaves.
LEMMA TakeAdvances ==
  ASSUME HeadInv, NEW w \in AllWorkers, Take(w)
  PROVE  /\ at = at'
         /\ \/ TasksLeft' < TasksLeft
            \/ TasksLeft' = TasksLeft /\ EffortLeft' < EffortLeft
<1>1. at' = at /\ stageLate' = stageLate /\ worker[w] \in WorkerStates /\ worker[w].at = "free"
  BY InPlace DEF Take
<1>2. WorkLeft(worker[w]) = 1 /\ HeadTyped
  BY <1>1, WorkOf DEF HeadInv
<1>3. Gone \in WorkerStates /\ WorkLeft(Gone) = 0
  BY RestStates, RestWork, Zenon
<1>4. ASSUME worker' = [worker EXCEPT ![w] = Gone] PROVE EffortLeft' < EffortLeft
  <2>1. Moves(w, Gone)
    BY <1>4 DEF Moves
  <2> QED
    BY <1>1, <1>2, <1>3, <2>1, WorkShrinks
<1>5. CASE stageLate
  BY <1>1, <1>4, <1>5, TasksStay DEF Take
<1>6. CASE ~stageLate
  <2>1. PICK T \in Nat : T = TasksOf(at)
    <3>1. at \in Stages /\ at \in Int
      BY <1>1, Working
    <3>2. PICK c, m \in Nat : c = CyclesOf(at) /\ m = CycleLength
      BY <3>1, DealtFacts, Lengths
    <3>3. TasksOf(at) = c * m /\ c * m \in Nat
      BY <3>2 DEF TasksOf
    <3> QED
      BY <3>3
  <2>2. TasksOf(at)' = T
    BY <1>1, <2>1 DEF TasksOf, CyclesOf
  <2>3. PICK n \in Nat : n = next /\ next' = n + 1
    BY <1>2, <1>6 DEF Take, HeadTyped
  <2>4. /\ TasksLeft = IF n <= T THEN T + 1 - n ELSE 0
        /\ TasksLeft' = IF n + 1 <= T THEN T + 1 - (n + 1) ELSE 0
    BY <2>1, <2>2, <2>3 DEF TasksLeft
  <2>5. CASE n <= T
    <3>1. TasksLeft' < TasksLeft
      BY <2>4, <2>5
    <3> QED
      BY <1>1, <3>1
  <2>6. CASE n > T
    <3>1. worker' = [worker EXCEPT ![w] = Gone]
      BY <1>6, <2>1, <2>3, <2>6 DEF Take
    <3>2. TasksLeft' = TasksLeft
      BY <2>4, <2>6
    <3> QED
      BY <1>1, <1>4, <3>1, <3>2
  <2> QED
    BY <2>5, <2>6
<1> QED
  BY <1>5, <1>6

LEMMA DeadlineAdvances ==
  ASSUME HeadInv, DeadlinePasses
  PROVE  at = at' /\ TasksLeft' = TasksLeft /\ EffortLeft' < EffortLeft
<1>1. at' = at /\ next' = next /\ ~stageLate /\ stageLate' /\ worker' = worker
  BY DEF DeadlinePasses
<1>2. PICK n \in Nat : n = Cardinality({p \in AllWorkers \X (1..16) : p[2] <= WorkLeft(worker[p[1]])})
  BY EffortsFinite
<1>3. EffortLeft = n + 1
  BY <1>1, <1>2 DEF EffortLeft
<1>4. EffortLeft' = n + 0
  BY <1>1, <1>2 DEF EffortLeft, WorkLeft
<1> QED
  BY <1>1, <1>3, <1>4, TasksStay

LEMMA StagesAdvance ==
  ASSUME HeadInv, Health \/ Capabilities \/ StageEnds
  PROVE  at < at'
<1>1. /\ Report \in Nat /\ Report = Len(Concurrency) + 1 /\ Report > 1
      /\ Stages = 1..Len(Concurrency) /\ Len(Concurrency) \in Nat
  BY Lengths DEF Report
<1>2. CASE Health
  <2>1. at = -1 /\ at' \in {0, Report}
    BY <1>2 DEF Health, HealthCheck, CapabilityCheck, Reports
  <2> QED
    BY <1>1, <2>1
<1>3. CASE Capabilities
  <2>1. at = 0 /\ at' \in {1, Report}
    BY <1>3 DEF Capabilities, CapabilityCheck, Reports
  <2> QED
    BY <1>1, <2>1
<1>4. CASE StageEnds
  <2>1. at \in 1..Len(Concurrency)
    BY <1>1, <1>4 DEF StageEnds, Loading
  <2>2. at' = at + 1 \/ at' = Report
    BY <1>4 DEF StageEnds, Reports
  <2> QED
    BY <1>1, <2>1, <2>2
<1> QED
  BY <1>2, <1>3, <1>4

\* A measurement ends: each of its steps brings the report nearer, whatever
\* the workers, the mix and the budget.  With MeasurementNeverWaits this is
\* all of its termination but the fairness of the runtime.
THEOREM MeasurementIsBounded == HeadroomSpec => MeasurementEnds
<1> DEFINE Step ==
      \/ at < at'
      \/ at = at' /\ TasksLeft' < TasksLeft
      \/ at = at' /\ TasksLeft' = TasksLeft /\ EffortLeft' < EffortLeft
<1>1. HeadInv /\ [HeadroomNext]_headVars => [Step]_headVars
  <2> SUFFICES ASSUME HeadInv, HeadroomNext PROVE Step
    OBVIOUS
  <2>1. CASE Health \/ Capabilities \/ StageEnds
    BY <2>1, StagesAdvance
  <2>2. CASE DeadlinePasses
    BY <2>2, DeadlineAdvances
  <2>3. ASSUME NEW w \in AllWorkers, Take(w) \/ Works(w) PROVE Step
    BY <2>3, TakeAdvances, WorkerAdvances
  <2> QED
    BY <2>1, <2>2, <2>3 DEF HeadroomNext, Works
<1> HIDE DEF Step
<1>2. HeadroomSpec => [][Step]_headVars
  BY <1>1, HeadroomBegins, HeadroomStep, PTL DEF HeadroomSpec
<1> QED
  BY <1>2, PTL DEF MeasurementEnds, Step

------------------------------------------------------------------------------
(* The verification, for any number of attempts, retries and redirects.    *)

RouteNames == {"health", "page", "owner metrics", "proposals", "api"}
\* What an answer a route was passed with shows.
Evidence == [route : RouteNames, version : {"old", "new"}, private : BOOLEAN]
Proves(s) ==
  /\ s.route = "health" => s.version = "new"
  /\ s.route \in {"page", "owner metrics"} => ~s.private

\* How many requests the route under check may have cost so far.
Redirects(n) == IF Routes[n] = "proposals" THEN MaxRedirects ELSE 0
Spent == Retries * request.redirects + request.attempt - 1

Requests == [url : RouteNames \cup Inside, visited : SUBSET (RouteNames \cup Inside),
             redirects : Nat, attempt : Nat]

ReleaseInv ==
  /\ fleet \subseteq {"old", "new"}
  /\ pc \in {"identity", "smoke", "passed", "failed"}
  /\ route \in 1..5 /\ asked \in [1..5 -> Nat]
  /\ request \in Requests
  /\ request.redirects \in 0..Redirects(route) /\ request.attempt \in 1..Retries
  /\ seen \subseteq Evidence /\ \A s \in seen : Proves(s)
  /\ {s.route : s \in seen} = {Routes[n] : n \in IF pc = "passed" THEN 1..5 ELSE 1..(route - 1)}
  /\ \A n \in 1..5 : n > route => asked[n] = 0
  /\ \A n \in 1..5 : asked[n] <= Retries * (Redirects(n) + 1)
  /\ pc \in {"identity", "smoke"} => asked[route] <= Spent

LEMMA RouteFacts ==
  /\ DOMAIN Routes = 1..5 /\ Len(Routes) = 5
  /\ \A n \in 1..5 : Routes[n] \in RouteNames
  /\ {Routes[n] : n \in 1..5} = RouteNames
  /\ Routes[1] = "health"
<1>1. /\ DOMAIN Routes = 1..5 /\ Len(Routes) = 5
      /\ Routes[1] = "health" /\ Routes[2] = "page" /\ Routes[3] = "owner metrics"
      /\ Routes[4] = "proposals" /\ Routes[5] = "api"
  BY DEF Routes
<1>2. 1..5 = {1, 2, 3, 4, 5}
  OBVIOUS
<1> QED
  BY <1>1, <1>2 DEF RouteNames

\* A route is given so many attempts for the first address and every redirect.
LEMMA Multiples ==
  ASSUME NEW b \in Nat, NEW a \in 0..b
  PROVE  /\ Retries * a \in Nat /\ Retries * (a + 1) = Retries * a + Retries
         /\ Retries * (a + 1) <= Retries * (b + 1)
BY ReleaseConstants

LEMMA RedirectsType == \A n \in 1..5 : Redirects(n) \in Nat
BY ReleaseConstants DEF Redirects

LEMMA ReleaseStarts == ReleaseInit => ReleaseInv
<1> SUFFICES ASSUME ReleaseInit PROVE ReleaseInv
  OBVIOUS
<1>1. route = 1 /\ request.redirects = 0 /\ request.attempt = 1 /\ request \in Requests
  BY RouteFacts DEF ReleaseInit, Start, Requests
<1>2. Retries * 0 = 0 /\ \A n \in 1..5 : 0 <= Retries * (Redirects(n) + 1)
  BY RedirectsType, Multiples, ReleaseConstants
<1>3. asked = [n \in 1..5 |-> 0] /\ fleet = {"old"} /\ pc = "identity" /\ seen = {}
  BY RouteFacts DEF ReleaseInit
<1>4. 0 \in 0..Redirects(1) /\ 1 \in 1..Retries
  BY RedirectsType, ReleaseConstants
<1> QED
  BY <1>1, <1>2, <1>3, <1>4 DEF ReleaseInv, RouteNames, Spent

\* One more request for the route under check.
LEMMA OneMore ==
  ASSUME ReleaseInv, pc = "smoke", CountsRequest
  PROVE  /\ asked' \in [1..5 -> Nat] /\ asked'[route] <= Spent + 1
         /\ \A n \in 1..5 : n > route => asked'[n] = 0
         /\ \A n \in 1..5 : asked'[n] <= Retries * (Redirects(n) + 1)
         /\ Spent + 1 = Retries * request.redirects + request.attempt
<1>1. PICK a : a = asked'
  OBVIOUS
<1>2. asked \in [1..5 -> Nat] /\ route \in 1..5 /\ a = [asked EXCEPT ![route] = @ + 1]
  BY <1>1 DEF ReleaseInv, CountsRequest
<1>3. a \in [1..5 -> Nat] /\ a[route] = asked[route] + 1
      /\ \A n \in 1..5 \ {route} : a[n] = asked[n]
  BY <1>2
<1>4. Redirects(route) \in Nat /\ request.redirects \in 0..Redirects(route)
      /\ request.attempt \in 1..Retries /\ asked[route] <= Spent
  BY <1>2, RedirectsType DEF ReleaseInv
<1>5. Retries * request.redirects \in Nat
      /\ Retries * request.redirects + Retries <= Retries * (Redirects(route) + 1)
  BY <1>4, Multiples
<1>6. request.attempt \in Int /\ request.attempt <= Retries /\ Retries \in Nat
  BY <1>4, ReleaseConstants
<1>7. a[route] <= Spent + 1 /\ Spent + 1 = Retries * request.redirects + request.attempt
  BY <1>2, <1>3, <1>4, <1>5, <1>6 DEF Spent
<1>8. a[route] <= Retries * (Redirects(route) + 1)
  <2>1. Retries * (Redirects(route) + 1) \in Nat
    BY <1>4, Multiples
  <2> QED
    BY <1>2, <1>3, <1>5, <1>6, <1>7, <2>1
<1>9. \A n \in 1..5 : a[n] <= Retries * (Redirects(n) + 1)
  BY <1>3, <1>8 DEF ReleaseInv
<1> QED
  BY <1>1, <1>2, <1>3, <1>7, <1>9 DEF ReleaseInv

LEMMA FailsKeepsRelease ==
  ASSUME ReleaseInv, pc = "smoke", CountsRequest, Fails, UNCHANGED <<fleet, probe>>
  PROVE  ReleaseInv'
<1>1. pc' = "failed" /\ route' = route /\ request' = request /\ seen' = seen /\ fleet' = fleet
  BY DEF Fails
<1> QED
  BY <1>1, OneMore DEF ReleaseInv, Redirects

LEMMA ReleaseKeeps == ReleaseInv /\ [ReleaseNext]_releaseVars => ReleaseInv'
<1> SUFFICES ASSUME ReleaseInv, [ReleaseNext]_releaseVars PROVE ReleaseInv'
  OBVIOUS
<1>1. CASE RollsOut
  BY <1>1 DEF RollsOut, ReleaseInv, Spent, Redirects
<1>2. CASE Probe
  <2>1. UNCHANGED <<fleet, route, request, asked, seen>> /\ pc = "identity"
        /\ pc' \in {"identity", "smoke", "failed"}
    BY <1>2 DEF Probe
  <2> QED
    BY <2>1 DEF ReleaseInv, Spent, Redirects
<1>3. CASE NotServed
  <2>1. pc = "smoke" /\ CountsRequest /\ UNCHANGED <<fleet, probe>>
    BY <1>3 DEF NotServed
  <2>2. CASE request.attempt < Retries
    <3>1. request' = [request EXCEPT !.attempt = @ + 1] /\ UNCHANGED <<pc, route, seen>>
      BY <1>3, <2>2 DEF NotServed, Again
    <3>2. request.attempt \in 1..Retries /\ Retries \in Nat /\ request \in Requests
      BY ReleaseConstants DEF ReleaseInv
    <3>3. PICK q : q = request'
      OBVIOUS
    <3>4. q \in Requests /\ q.redirects = request.redirects /\ q.attempt = request.attempt + 1
      BY <3>1, <3>2, <3>3 DEF Requests
    <3>5. q.attempt \in 1..Retries
      BY <2>2, <3>2, <3>4
    <3>6. asked'[route] <= Retries * q.redirects + q.attempt - 1
      BY <2>1, <3>2, <3>4, OneMore DEF Requests, Spent
    <3>7. Spent' = Retries * q.redirects + q.attempt - 1
      BY <3>3 DEF Spent
    <3> QED
      BY <2>1, <3>1, <3>3, <3>4, <3>5, <3>6, <3>7, OneMore DEF ReleaseInv, Redirects
  <2>3. CASE ~(request.attempt < Retries)
    BY <1>3, <2>1, <2>3, FailsKeepsRelease DEF NotServed
  <2> QED
    BY <2>2, <2>3
<1>4. CASE TooLarge
  BY <1>4, FailsKeepsRelease DEF TooLarge
<1>5. CASE Redirected
  <2>1. pc = "smoke" /\ CountsRequest /\ UNCHANGED <<fleet, probe>>
    BY <1>5 DEF Redirected
  <2>2. PICK url \in Inside \cup Outside \cup {"proposals"} :
         IF MayFollow(url)
         THEN /\ request' = [url |-> url, visited |-> request.visited \cup {url},
                             redirects |-> request.redirects + 1, attempt |-> 1]
              /\ UNCHANGED <<pc, route, seen>>
         ELSE Fails
    BY <1>5 DEF Redirected
  <2>3. CASE ~MayFollow(url)
    BY <2>1, <2>2, <2>3, FailsKeepsRelease
  <2>4. CASE MayFollow(url)
    <3>1. Here = "proposals" /\ request.redirects < MaxRedirects /\ url \in RouteNames \cup Inside
      BY <2>4 DEF MayFollow, RouteNames
    <3>2. request \in Requests /\ request.redirects \in 0..MaxRedirects /\ MaxRedirects \in Nat
          /\ request.attempt \in 1..Retries /\ Retries \in Nat \ {0}
      BY <3>1, ReleaseConstants DEF ReleaseInv, Redirects, Here
    <3>3. PICK q : q = request'
      OBVIOUS
    <3>4. q \in Requests /\ q.redirects = request.redirects + 1 /\ q.attempt = 1
      BY <2>2, <2>4, <3>1, <3>2, <3>3 DEF Requests
    <3>5. q.redirects \in 0..Redirects(route) /\ q.attempt \in 1..Retries
      BY <3>1, <3>2, <3>4 DEF Redirects, Here
    <3>6. asked'[route] <= Retries * q.redirects + q.attempt - 1
      <4>1. Retries * (request.redirects + 1) = Retries * request.redirects + Retries
            /\ Retries * request.redirects \in Nat
        BY <3>2, Multiples
      <4>2. asked'[route] <= Retries * request.redirects + request.attempt /\ asked'[route] \in Nat
        BY <2>1, OneMore DEF ReleaseInv
      <4> QED
        BY <3>2, <3>4, <4>1, <4>2
    <3>7. Spent' = Retries * q.redirects + q.attempt - 1
      BY <3>3 DEF Spent
    <3>8. UNCHANGED <<pc, route, seen>>
      BY <2>2, <2>4
    <3> QED
      BY <2>1, <3>3, <3>4, <3>5, <3>6, <3>7, <3>8, OneMore DEF ReleaseInv, Redirects
  <2> QED
    BY <2>3, <2>4
<1>6. CASE Served
  <2>1. pc = "smoke" /\ CountsRequest /\ UNCHANGED <<fleet, probe>>
    BY <1>6 DEF Served
  <2>2. PICK a \in Answers : IF Approves(a) THEN Passes(a) ELSE Fails
    BY <1>6 DEF Served
  <2>3. CASE ~Approves(a)
    BY <2>1, <2>2, <2>3, FailsKeepsRelease
  <2>4. CASE Approves(a)
    <3>1. route \in 1..5 /\ Here = Routes[route] /\ Here \in RouteNames
      BY RouteFacts DEF ReleaseInv, Here
    <3>2. PICK e : e = [route |-> Here, version |-> a.version, private |-> a.private]
      OBVIOUS
    <3>3. e \in Evidence /\ e.route = Here /\ Proves(e)
      <4>1. a.version \in {"old", "new"} /\ a.private \in BOOLEAN
        BY DEF ReleaseInv, Answers
      <4>2. Here = "health" => a.version = "new"
        BY <2>4 DEF Approves, Identity
      <4>3. Here \in {"page", "owner metrics"} => ~a.private
        BY <2>4 DEF Approves
      <4> QED
        BY <3>1, <3>2, <4>1, <4>2, <4>3 DEF Evidence, Proves
    <3>4. seen' = seen \cup {e}
      BY <2>2, <2>4, <3>2 DEF Passes
    <3>5. seen' \subseteq Evidence /\ \A s \in seen' : Proves(s)
      BY <3>3, <3>4 DEF ReleaseInv
    <3>6. {s.route : s \in seen'} = {Routes[n] : n \in 1..route}
      <4>1. {s.route : s \in seen} = {Routes[n] : n \in 1..(route - 1)}
        BY <2>1 DEF ReleaseInv
      <4>2. 1..route = (1..(route - 1)) \cup {route}
        BY <3>1
      <4>3. {Routes[n] : n \in 1..route} = {Routes[n] : n \in 1..(route - 1)} \cup {Routes[route]}
        BY <4>2
      <4>4. {s.route : s \in seen \cup {e}} = {s.route : s \in seen} \cup {e.route}
        OBVIOUS
      <4> QED
        BY <3>1, <3>3, <3>4, <4>1, <4>3, <4>4
    <3>7. CASE route = Len(Routes)
      <4>1. pc' = "passed" /\ route' = route /\ request' = request /\ route = 5
        BY <2>2, <2>4, <3>7, RouteFacts DEF Passes
      <4> QED
        BY <2>1, <3>5, <3>6, <4>1, OneMore DEF ReleaseInv, Redirects
    <3>8. CASE route # Len(Routes)
      <4>1. route' = route + 1 /\ request' = Start(Routes[route + 1]) /\ pc' = pc /\ route + 1 \in 1..5
        BY <2>2, <2>4, <3>1, <3>8, RouteFacts DEF Passes
      <4>2. Routes[route + 1] \in RouteNames
        BY <4>1, RouteFacts
      <4>3. PICK q : q = request'
        OBVIOUS
      <4>4. q \in Requests /\ q.redirects = 0 /\ q.attempt = 1
        BY <4>1, <4>2, <4>3 DEF Start, Requests
      <4>5. PICK t \in 1..5 : t = route'
        BY <4>1
      <4>6. Redirects(t) \in Nat /\ 0 \in 0..Redirects(t) /\ 1 \in 1..Retries
        BY RedirectsType, ReleaseConstants
      <4>7. asked'[t] = 0
        BY <2>1, <3>1, <4>1, <4>5, OneMore
      <4>8. Retries * 0 = 0
        BY ReleaseConstants
      <4>9. Spent' = 0
        BY <4>3, <4>4, <4>8 DEF Spent
      <4>10. \A n \in 1..5 : n > t => asked'[n] = 0
        BY <2>1, <3>1, <4>1, <4>5, OneMore
      <4>11. route = t - 1 /\ pc' = "smoke" /\ Redirects(t) = Redirects(route')
        BY <2>1, <3>1, <4>1, <4>5
      <4>12. {s.route : s \in seen'} = {Routes[n] : n \in 1..(t - 1)}
        BY <3>6, <4>11
      <4>13. /\ asked' \in [1..5 -> Nat] /\ \A n \in 1..5 : asked'[n] <= Retries * (Redirects(n)' + 1)
        BY <2>1, OneMore DEF Redirects
      <4>14. fleet' \subseteq {"old", "new"}
        BY <2>1 DEF ReleaseInv
      <4>15. {s.route : s \in seen'}
             = {Routes[n] : n \in IF pc' = "passed" THEN 1..5 ELSE 1..(route' - 1)}
        BY <4>5, <4>11, <4>12
      <4>16. request' \in Requests' /\ request'.redirects \in 0..(Redirects(route)')
            /\ request'.attempt \in 1..Retries
        BY <4>3, <4>4, <4>5, <4>6 DEF Requests, Redirects
      <4>17. \A n \in 1..5 : n > route' => asked'[n] = 0
        BY <4>5, <4>10
      <4>18. asked'[route'] <= Spent'
        BY <4>5, <4>7, <4>9
      <4> QED
        BY <3>5, <4>5, <4>11, <4>13, <4>14, <4>15, <4>16, <4>17, <4>18 DEF ReleaseInv
    <3> QED
      BY <3>7, <3>8
  <2> QED
    BY <2>3, <2>4
<1>7. CASE UNCHANGED releaseVars
  BY <1>7 DEF releaseVars, ReleaseInv, Spent, Redirects
<1> QED
  BY <1>1, <1>2, <1>3, <1>4, <1>5, <1>6, <1>7 DEF ReleaseNext

\* A release passes on answers of this very run, in which the new version
\* named itself and nothing private was told; requests stay where the
\* verification may look, however the deployment rolls out and whatever is
\* lost or redirected, and each route costs a bounded number of them
\* (verify-release.mjs).
THEOREM ReleaseIsProven == ReleaseSpec => []VerificationSound
<1>1. ReleaseInv => VerificationSound
  <2> SUFFICES ASSUME ReleaseInv PROVE VerificationSound
    OBVIOUS
  <2>1. PassedIsProven
    BY RouteFacts DEF PassedIsProven, ReleaseInv, Proves
  <2>2. \A n \in 1..5 : Redirects(n) + 1 = IF Routes[n] = "proposals" THEN MaxRedirects + 1 ELSE 1
    BY ReleaseConstants DEF Redirects
  <2>3. StaysInside
    BY <2>2, RouteFacts DEF StaysInside, ReleaseInv, Requests
  <2> QED
    BY <2>1, <2>3 DEF VerificationSound
<1> QED
  BY <1>1, ReleaseStarts, ReleaseKeeps, PTL DEF ReleaseSpec
=============================================================================
