----------------------------- MODULE ShopScans -----------------------------
(***************************************************************************)
(* The scans of the shops: POST /v1/scans, GET /v1/codes/{code}/explain    *)
(* and GET /v1/vehicles/{vin}/scans (internal/api/server.go) on the tables *)
(* and the connection pool of internal/store/store.go.                     *)
(*                                                                         *)
(* CreateScan is one transaction.  The other requests are a row of         *)
(* statements without one: each is a step here, and other clients commit   *)
(* between two of them.  A client sends one request at a time, as the bay  *)
(* does.  There is one API server, so started_at comes from one clock:     *)
(* "at" is its rank.  The rows of a transaction are seen by nobody before  *)
(* the commit.  Recalls, articles and enrichment rows, which an            *)
(* explanation also reads, change nothing here and are left out.           *)
(***************************************************************************)
EXTENDS Integers, FiniteSets

CONSTANTS
  Clients,    \* technicians with a token
  NoClient,   \* nobody
  Orgs,       \* shops
  AllOrgs,    \* the org of a super admin: no filter
  Tokens,     \* the orgs the clients' tokens may be of
  Vins,
  NoVin,      \* an explanation without ?vin=
  Codes,      \* trouble codes
  Conns,      \* connections of the pool
  Limit,      \* rows of the history and of a list: 10 and 50 in the code
  MaxScans    \* bound: uploads over the whole run

ASSUME ShopAssumption ==
  /\ NoClient \notin Clients
  /\ AllOrgs \notin Orgs
  /\ Tokens \subseteq [Clients -> Orgs \cup {AllOrgs}]
  /\ NoVin \notin Vins
  /\ Conns \in Nat
  /\ Limit \in Nat
  /\ MaxScans \in Nat

ASSUME ClientsAssumption == IsFiniteSet(Clients)

VARIABLES
  orgOf,   \* the org in the claims of a token
  scans,   \* committed scan_sessions with their dtc_observations
  lock,    \* who holds the row lock of a vehicle
  clock,   \* the latest started_at
  posted,  \* uploads begun
  req,     \* the request of a client
  ans,     \* what an explanation has read so far
  mine     \* the last upload the client had a 201 for

vars == <<orgOf, scans, lock, clock, posted, req, ans, mine>>

Ats    == Nat
NoScan == 0

\* "vin" and "code" are those of the request; codes, obs and at those of the scan
\* it uploads; left the scans a list has still to read.
Request(pc, v, code, codes, obs, left) ==
  [ pc |-> pc, vin |-> v, code |-> code, codes |-> codes, obs |-> obs,
    at |-> NoScan, left |-> left ]

Idle == Request("idle", NoVin, {}, {}, FALSE, {})

\* The scans an explanation has its history, live data, co-occurrence and trouble
\* codes from; "lost" once the error of a statement was dropped.
Nothing ==
  [ hist |-> {}, obs |-> NoScan, co |-> {}, scan |-> NoScan, lost |-> FALSE ]

NoUpload == [vin |-> NoVin, at |-> NoScan]

Init ==
  /\ orgOf \in Tokens
  /\ scans = {}
  /\ lock = [v \in Vins |-> NoClient]
  /\ clock = 0
  /\ posted = 0
  /\ req = [c \in Clients |-> Idle]
  /\ ans = [c \in Clients |-> Nothing]
  /\ mine = [c \in Clients |-> NoUpload]
-----------------------------------------------------------------------------
(* Statements, transactions and connections *)

At(c, pc) == req[c].pc = pc

\* Between Begin and the end of the transaction.
InTx(c) == req[c].pc \in {"vehicle", "stamp", "commit"}

\* Mutant of Holds: the history keeps its rows open under the next statements.
HoldsHistory(c) ==
  InTx(c) \/ req[c].pc \in {"rows", "observations", "cooccur"}

\* The connections kept from one step to the next: that of a transaction and that
\* of the rows of a list.  pgx gives a connection back with the last row.
Holds(c) == InTx(c) \/ At(c, "rows")

HasConn == Cardinality({ c \in Clients : Holds(c) }) < Conns

\* The scans a query sees: of the org of the token, unless it is a super admin.
Visible(c, v) ==
  { s \in scans : /\ orgOf[c] = AllOrgs \/ s.org = orgOf[c]
                  /\ v = NoVin \/ s.vin = v }

AtsOf(S) == { s.at : s \in S }

\* Mutant of Newest: the order of started_at turned round.
Oldest(A) == IF A = {} THEN {NoScan} ELSE { a \in A : \A b \in A : a <= b }

\* ORDER BY started_at DESC LIMIT 1 (the one it returns, as a set), and LIMIT n.
Newest(A)      == IF A = {} THEN {NoScan} ELSE { a \in A : \A b \in A : b <= a }
NewestOf(A, n) == { a \in A : Cardinality({ b \in A : b > a }) < n }

Hits(c) == { s \in Visible(c, req[c].vin) : req[c].code \subseteq s.codes }
-----------------------------------------------------------------------------
(* POST /v1/scans *)

\* A super admin has no org and gets 403.
Posts(c) ==
  /\ At(c, "idle")
  /\ orgOf[c] # AllOrgs
  /\ posted < MaxScans
  /\ posted' = posted + 1
  /\ \E v \in Vins, codes \in SUBSET Codes, obs \in BOOLEAN :
       req' = [req EXCEPT ![c] = Request("begin", v, {}, codes, obs, {})]
  /\ UNCHANGED <<orgOf, scans, lock, clock, ans, mine>>

Begins(c) ==
  /\ At(c, "begin")
  /\ HasConn
  /\ req' = [req EXCEPT ![c].pc = "vehicle"]
  /\ UNCHANGED <<orgOf, scans, lock, clock, posted, ans, mine>>

\* Mutant of UpsertsVehicle: ON CONFLICT DO NOTHING does not lock the row.
FindsVehicle(c) ==
  /\ At(c, "vehicle")
  /\ req' = [req EXCEPT ![c].pc = "stamp"]
  /\ UNCHANGED <<orgOf, scans, lock, clock, posted, ans, mine>>

\* INSERT ... ON CONFLICT (vin) DO UPDATE waits for the row, and keeps it locked
\* until the end of the transaction.
UpsertsVehicle(c) ==
  /\ At(c, "vehicle")
  /\ lock[req[c].vin] = NoClient
  /\ lock' = [lock EXCEPT ![req[c].vin] = c]
  /\ req' = [req EXCEPT ![c].pc = "stamp"]
  /\ UNCHANGED <<orgOf, scans, clock, posted, ans, mine>>

\* now, and the rows of the session and of its codes.
Stamps(c) ==
  /\ At(c, "stamp")
  /\ clock' = clock + 1
  /\ req' = [req EXCEPT ![c].pc = "commit", ![c].at = clock + 1]
  /\ UNCHANGED <<orgOf, scans, lock, posted, ans, mine>>

Unlocked(c) ==
  [v \in Vins |-> IF lock[v] = c THEN NoClient ELSE lock[v]]

Uploaded(c) ==
  [ at |-> req[c].at, vin |-> req[c].vin, org |-> orgOf[c],
    obs |-> req[c].obs, codes |-> req[c].codes ]

\* The commit lands; its answer may be lost on the way.
Commits(c) ==
  /\ At(c, "commit")
  /\ scans' = scans \cup {Uploaded(c)}
  /\ lock' = Unlocked(c)
  /\ req' = [req EXCEPT ![c].pc = "enqueue"] \/ req' = [req EXCEPT ![c] = Idle]
  /\ UNCHANGED <<orgOf, clock, posted, ans, mine>>

\* A statement fails, or the client is gone: the deferred Rollback.
RollsBack(c) ==
  /\ InTx(c)
  /\ lock' = Unlocked(c)
  /\ req' = [req EXCEPT ![c] = Idle]
  /\ UNCHANGED <<orgOf, scans, clock, posted, ans, mine>>

\* 201.
Told(c) ==
  /\ At(c, "enqueue")
  /\ mine' = [mine EXCEPT ![c] = [vin |-> req[c].vin, at |-> req[c].at]]
  /\ req' = [req EXCEPT ![c] = Idle]
  /\ UNCHANGED <<orgOf, scans, lock, clock, posted, ans>>

\* EnqueueVINDecode.
Enqueues(c) == HasConn /\ Told(c)

\* Its error is only printed.
MissesEnqueue(c) == Told(c)
-----------------------------------------------------------------------------
(* GET /v1/codes/{code}/explain *)

Asks(c) ==
  /\ At(c, "idle")
  /\ \E v \in Vins \cup {NoVin}, code \in Codes :
       req' = [req EXCEPT ![c] = Request("history", v, {code}, {}, FALSE, {})]
  /\ UNCHANGED <<orgOf, scans, lock, clock, posted, ans, mine>>

\* Mutant of Then: the trouble codes first, then ExplainCode.
ThenLatestFirst(c) ==
  CASE At(c, "history")      -> IF req[c].vin = NoVin THEN "cooccur" ELSE "latest"
    [] At(c, "latest")       -> "observations"
    [] At(c, "observations") -> "cooccur"
    [] At(c, "cooccur")      -> "answer"

\* The statements in their order; without a VIN the live data and the trouble
\* codes are not asked for.
Then(c) ==
  CASE At(c, "history")      -> IF req[c].vin = NoVin THEN "cooccur" ELSE "observations"
    [] At(c, "observations") -> "cooccur"
    [] At(c, "cooccur")      -> IF req[c].vin = NoVin THEN "answer" ELSE "latest"
    [] At(c, "latest")       -> "answer"

\* One statement of the request adds to its answer.
Reads(c, pc, found) ==
  /\ At(c, pc)
  /\ HasConn
  /\ ans' = [ans EXCEPT ![c] = found]
  /\ req' = [req EXCEPT ![c].pc = Then(c)]
  /\ UNCHANGED <<orgOf, scans, lock, clock, posted, mine>>

\* The history of the code.
ReadsHistory(c) ==
  Reads(c, "history", [ans[c] EXCEPT !.hist = NewestOf(AtsOf(Hits(c)), Limit)])

\* LatestObservationsForVIN: the newest scan that has any.
ReadsObservations(c) ==
  LET withObs == { s \in Visible(c, req[c].vin) : s.obs } IN
    \E a \in Newest(AtsOf(withObs)) :
      Reads(c, "observations", [ans[c] EXCEPT !.obs = a])

\* DTCCoOccurrence: over every vehicle of the org.
ReadsCoOccurrence(c) ==
  LET focus == { s \in Visible(c, NoVin) : req[c].code \subseteq s.codes } IN
    Reads(c, "cooccur", [ans[c] EXCEPT !.co = AtsOf(focus)])

\* LatestDTCsForVIN: the newest scan; its codes are a statement of their own, on
\* rows that never change.
ReadsLatest(c) ==
  \E a \in Newest(AtsOf(Visible(c, req[c].vin))) :
    Reads(c, "latest", [ans[c] EXCEPT !.scan = a])

\* The error of any of them but the history is dropped.
MissesOne(c) ==
  /\ req[c].pc \in {"observations", "cooccur", "latest"}
  /\ ans' = [ans EXCEPT ![c].lost = TRUE]
  /\ req' = [req EXCEPT ![c].pc = Then(c)]
  /\ UNCHANGED <<orgOf, scans, lock, clock, posted, mine>>

\* Analyze on the codes of one scan and the live data of another, and the reply.
Answers(c) ==
  /\ At(c, "answer")
  /\ req' = [req EXCEPT ![c] = Idle]
  /\ ans' = [ans EXCEPT ![c] = Nothing]
  /\ UNCHANGED <<orgOf, scans, lock, clock, posted, mine>>
-----------------------------------------------------------------------------
(* GET /v1/vehicles/{vin}/scans *)

Lists(c) ==
  /\ At(c, "idle")
  /\ HasConn
  /\ \E v \in Vins :
       req' = [req EXCEPT ![c] =
         Request("rows", v, {}, {}, FALSE, NewestOf(AtsOf(Visible(c, v)), Limit))]
  /\ UNCHANGED <<orgOf, scans, lock, clock, posted, ans, mine>>

\* listDTCs of the next row, on a second connection: the rows keep the first.
ListsNext(c) ==
  /\ At(c, "rows")
  /\ req[c].left # {}
  /\ HasConn
  /\ req' = [req EXCEPT ![c].left = @ \ Newest(@)]
  /\ UNCHANGED <<orgOf, scans, lock, clock, posted, ans, mine>>

ListEnds(c) ==
  /\ At(c, "rows")
  /\ req[c].left = {}
  /\ req' = [req EXCEPT ![c] = Idle]
  /\ UNCHANGED <<orgOf, scans, lock, clock, posted, ans, mine>>

\* Outside a transaction: an error that is returned, or a client that is gone.
Fails(c) ==
  /\ req[c].pc \in {"begin", "enqueue", "history", "observations", "cooccur", "latest",
                     "rows"}
  /\ req' = [req EXCEPT ![c] = Idle]
  /\ ans' = [ans EXCEPT ![c] = Nothing]
  /\ UNCHANGED <<orgOf, scans, lock, clock, posted, mine>>
-----------------------------------------------------------------------------
Handler(c) ==
  \/ Begins(c) \/ UpsertsVehicle(c) \/ Stamps(c) \/ Commits(c) \/ Enqueues(c)
  \/ ReadsHistory(c) \/ ReadsObservations(c) \/ ReadsCoOccurrence(c) \/ ReadsLatest(c)
  \/ Answers(c)
  \/ ListsNext(c) \/ ListEnds(c)

Next ==
  \E c \in Clients :
    \/ Posts(c) \/ Asks(c) \/ Lists(c)
    \/ Handler(c)
    \/ RollsBack(c) \/ MissesEnqueue(c) \/ MissesOne(c) \/ Fails(c)

Spec == Init /\ [][Next]_vars

-----------------------------------------------------------------------------
(* Properties *)

Requests ==
  [ pc : {"idle", "begin", "vehicle", "stamp", "commit", "enqueue", "history",
          "observations", "cooccur", "latest", "answer", "rows"},
    vin : Vins \cup {NoVin}, code : SUBSET Codes, codes : SUBSET Codes,
    obs : BOOLEAN, at : Ats, left : SUBSET Ats ]

Answered ==
  [ hist : SUBSET Ats, obs : Ats, co : SUBSET Ats, scan : Ats, lost : BOOLEAN ]

Sessions ==
  [ at : Ats \ {NoScan}, vin : Vins, org : Orgs, obs : BOOLEAN, codes : SUBSET Codes ]

\* Every variable keeps its type.
TypeOK ==
  /\ orgOf \in [Clients -> Orgs \cup {AllOrgs}]
  /\ scans \subseteq Sessions
  /\ lock \in [Vins -> Clients \cup {NoClient}]
  /\ clock \in Nat
  /\ posted \in 0..MaxScans
  /\ req \in [Clients -> Requests]
  /\ ans \in [Clients -> Answered]
  /\ mine \in [Clients -> [vin : Vins \cup {NoVin}, at : Ats]]

\* The scans of a vehicle become visible in the order of started_at, whoever
\* uploads them: the time is taken under the lock of the vehicle row.  "The newest
\* scan" of a query is then the last one committed.
CommitsInOrder ==
  [][\A s \in scans' \ scans : \A t \in scans : t.vin = s.vin => t.at < s.at]_vars

\* No part of an explanation comes from another shop.
OwnOrg ==
  \A c \in Clients : orgOf[c] # AllOrgs =>
    \A s \in scans :
      s.at \in ans[c].hist \cup ans[c].co \cup {ans[c].obs, ans[c].scan} \cup req[c].left
        => s.org = orgOf[c]

\* The statements of an explanation see different moments.  Still its trouble codes
\* are those of a scan at least as new as the one its live data and any line of
\* its history are from.
CodesAreNewest ==
  \A c \in Clients :
    (At(c, "answer") /\ req[c].vin # NoVin /\ ~ans[c].lost) =>
       \A a \in ans[c].hist \cup {ans[c].obs} : a <= ans[c].scan

\* A shop that was told that its scan is stored finds that scan, or a newer one,
\* behind the explanations it asks for next.
OwnScanIsSeen ==
  \A c \in Clients :
    (At(c, "answer") /\ req[c].vin = mine[c].vin /\ mine[c].at # NoScan /\ ~ans[c].lost)
       => mine[c].at <= ans[c].scan

\* What an upload has is its own: the row of its vehicle, and a time later than that
\* of every scan of the vehicle.
UploadOK(c) ==
  /\ req[c].pc \in {"begin", "vehicle", "stamp", "commit", "enqueue"}
       => orgOf[c] \in Orgs /\ req[c].vin \in Vins
  /\ req[c].pc \in {"stamp", "commit"} => lock[req[c].vin] = c
  /\ At(c, "commit") =>
       /\ req[c].at \in 1..clock
       /\ \A s \in scans : s.at # req[c].at /\ (s.vin = req[c].vin => s.at < req[c].at)
       /\ \A d \in Clients : At(d, "commit") /\ req[d].at = req[c].at => d = c

\* What was told to the client, or will be, is stored.
Stored(c, v, a) == \E s \in scans : s.at = a /\ s.vin = v /\ s.org = orgOf[c]

MineOK(c) ==
  /\ At(c, "enqueue") => Stored(c, req[c].vin, req[c].at)
  /\ mine[c].at # NoScan => Stored(c, mine[c].vin, mine[c].at)

\* What an explanation or a list has read are scans the client may see; a request of
\* another kind starts with nothing read.
AnswerOK(c) ==
  /\ req[c].pc \in {"observations", "cooccur", "latest", "answer"} \/ ans[c] = Nothing
  /\ ans[c].hist \cup req[c].left \subseteq AtsOf(Visible(c, req[c].vin))
  /\ {ans[c].obs, ans[c].scan} \subseteq AtsOf(Visible(c, req[c].vin)) \cup {NoScan}
  /\ ans[c].co \subseteq AtsOf(Visible(c, NoVin))
  /\ (At(c, "answer") /\ req[c].vin # NoVin /\ ~ans[c].lost) =>
       /\ \A a \in ans[c].hist \cup {ans[c].obs} : a <= ans[c].scan
       /\ req[c].vin = mine[c].vin => mine[c].at <= ans[c].scan

\* The inductive invariant; the times of the scans are all different.
ShopInv ==
  /\ \A s, t \in scans : s.at <= clock /\ (s.at = t.at => s = t)
  /\ \A c \in Clients : UploadOK(c) /\ MineOK(c) /\ AnswerOK(c)

\* What the handler of c needs for its next step: nothing, the lock of the vehicle, or
\* a connection and, where a query returns one row, a row.
CanGo(c) ==
  \/ req[c].pc \in {"stamp", "commit", "answer"}
  \/ At(c, "vehicle") /\ lock[req[c].vin] = NoClient
  \/ At(c, "rows") /\ req[c].left = {}
  \/ /\ HasConn
     /\ \/ req[c].pc \in {"begin", "enqueue", "history", "cooccur"}
        \/ At(c, "observations") /\ Newest(AtsOf({ s \in Visible(c, req[c].vin) : s.obs })) # {}
        \/ At(c, "latest") /\ Newest(AtsOf(Visible(c, req[c].vin))) # {}
        \/ At(c, "rows") /\ req[c].left # {}

\* The lists that keep a connection for their rows and ask for another one.
WaitingLists == { c \in Clients : At(c, "rows") /\ req[c].left # {} }

\* Requests wait for each other, for good, in one way only: as many lists of scans
\* as the pool has connections are at a row each.  While one is under way and the
\* lists leave a connection, the handler of one has what it needs.
OnlyListsStarve ==
  (\E c \in Clients : ~At(c, "idle")) =>
     \/ \E c \in Clients : CanGo(c)
     \/ Cardinality(WaitingLists) >= Conns

\* The inductive form of OnlyListsStarve: a vehicle is locked by an upload between
\* its upsert and its commit.
WaitInv ==
  \A v \in Vins : lock[v] # NoClient => req[lock[v]].pc \in {"stamp", "commit"}
=============================================================================
