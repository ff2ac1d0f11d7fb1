-------------------------- MODULE ShopScansProofs --------------------------
(***************************************************************************)
(* The scans of the shops, for any number of clients, shops, vehicles,     *)
(* codes and connections.  ShopInv with the types is inductive: a client   *)
(* that holds the lock of a vehicle row is alone with it, so the time it   *)
(* takes is later than that of every scan of the vehicle; what a request   *)
(* has read stays among the scans it may see, since scans are only added.  *)
(* Who waits for a lock waits for a client that can go on (WaitInv), and   *)
(* nobody but a list waits for a second connection: so somebody can go on  *)
(* unless the lists have all of them.  That "can go on" is a step there is *)
(* is shown without ENABLED, by the set of the states a handler leads to.  *)
(***************************************************************************)
EXTENDS ShopScans, FiniteSetTheorems, WellFoundedInduction, TLAPS

USE ShopAssumption DEF ShopAssumption, Ats, NoScan

Inv == TypeOK /\ ShopInv

PCs == { "idle", "begin", "vehicle", "stamp", "commit", "enqueue", "history",
         "observations", "cooccur", "latest", "answer", "rows" }

\* A step of a request leaves a request.
LEMMA PcMoves ==
  ASSUME NEW q \in Requests, NEW pc \in PCs
  PROVE  LET r == [q EXCEPT !.pc = pc] IN
           r \in Requests /\ r.pc = pc /\ r.vin = q.vin /\ r.at = q.at /\ r.left = q.left
  BY DEF Requests, PCs

\* A request that has its time.
LEMMA AtMoves ==
  ASSUME NEW q \in Requests, NEW a \in Ats
  PROVE  LET r == [q EXCEPT !.pc = "commit", !.at = a] IN
           r \in Requests /\ r.pc = "commit" /\ r.vin = q.vin /\ r.at = a /\ r.left = q.left
  BY DEF Requests

\* A list with other scans to read.
LEMMA LeftMoves ==
  ASSUME NEW q \in Requests, NEW L \in SUBSET Ats
  PROVE  LET r == [q EXCEPT !.left = L] IN
           r \in Requests /\ r.pc = q.pc /\ r.vin = q.vin /\ r.at = q.at /\ r.left = L
  BY DEF Requests

\* The first request of each kind.
LEMMA FreshRequests ==
  ASSUME NEW pc \in {"idle", "begin", "history", "rows"}, NEW v \in Vins \cup {NoVin},
         NEW code \in SUBSET Codes, NEW codes \in SUBSET Codes, NEW obs \in BOOLEAN,
         NEW L \in SUBSET Ats
  PROVE  LET r == Request(pc, v, code, codes, obs, L) IN
           r \in Requests /\ r.pc = pc /\ r.vin = v /\ r.left = L
  BY DEF Request, Requests

\* A client without a request.
LEMMA NoRequest ==
  Idle \in Requests /\ Idle.pc = "idle" /\ Idle.left = {}
  BY DEF Idle, Request, Requests

\* An explanation that has read nothing.
LEMMA NothingRead ==
  /\ Nothing \in Answered
  /\ Nothing.hist = {} /\ Nothing.co = {} /\ Nothing.obs = 0 /\ Nothing.scan = 0
  BY DEF Nothing, Answered

\* What an explanation has read, after one more statement.
LEMMA HistMoves ==
  ASSUME NEW x \in Answered, NEW w \in SUBSET Ats
  PROVE  LET y == [x EXCEPT !.hist = w] IN
           /\ y \in Answered /\ y.hist = w /\ y.obs = x.obs /\ y.co = x.co
           /\ y.scan = x.scan /\ y.lost = x.lost
  BY DEF Answered

\* The same of the co-occurrence.
LEMMA CoMoves ==
  ASSUME NEW x \in Answered, NEW w \in SUBSET Ats
  PROVE  LET y == [x EXCEPT !.co = w] IN
           /\ y \in Answered /\ y.hist = x.hist /\ y.obs = x.obs /\ y.co = w
           /\ y.scan = x.scan /\ y.lost = x.lost
  BY DEF Answered

\* The same of the live data.
LEMMA ObsMoves ==
  ASSUME NEW x \in Answered, NEW w \in Ats
  PROVE  LET y == [x EXCEPT !.obs = w] IN
           /\ y \in Answered /\ y.hist = x.hist /\ y.obs = w /\ y.co = x.co
           /\ y.scan = x.scan /\ y.lost = x.lost
  BY DEF Answered

\* The same of the trouble codes.
LEMMA ScanMoves ==
  ASSUME NEW x \in Answered, NEW w \in Ats
  PROVE  LET y == [x EXCEPT !.scan = w] IN
           /\ y \in Answered /\ y.hist = x.hist /\ y.obs = x.obs /\ y.co = x.co
           /\ y.scan = w /\ y.lost = x.lost
  BY DEF Answered

\* The same when an error was dropped.
LEMMA LostMoves ==
  ASSUME NEW x \in Answered, NEW w \in BOOLEAN
  PROVE  LET y == [x EXCEPT !.lost = w] IN
           /\ y \in Answered /\ y.hist = x.hist /\ y.obs = x.obs /\ y.co = x.co
           /\ y.scan = x.scan /\ y.lost = w
  BY DEF Answered

\* The times of visible scans, and those the queries pick out of them.
LEMMA QueriedAts ==
  ASSUME TypeOK, NEW S \in SUBSET scans
  PROVE  /\ AtsOf(S) \in SUBSET Ats
         /\ \A n : NewestOf(AtsOf(S), n) \in SUBSET AtsOf(S)
         /\ \A a \in Newest(AtsOf(S)) :
              /\ a \in Ats /\ a \in AtsOf(S) \cup {0}
              /\ \A b \in AtsOf(S) : b <= a
<1>1. ASSUME NEW s \in S PROVE s.at \in Ats
  BY DEF TypeOK, Sessions
<1>2. AtsOf(S) \in SUBSET Ats
  BY <1>1 DEF AtsOf
<1>3. \A A, n : NewestOf(A, n) \in SUBSET A
  BY Zenon DEF NewestOf
<1>4. \A A \in SUBSET Ats : \A a \in Newest(A) :
        a \in Ats /\ a \in A \cup {0} /\ \A b \in A : b <= a
  BY DEF Newest
<1>. QED BY <1>2, <1>3, <1>4, Zenon

\* A step of one client that commits nothing keeps the invariant, if it takes no
\* other client's lock and the client's own part holds after it.
LEMMA OwnStep ==
  ASSUME Inv, NEW c \in Clients, NEW r \in Requests, NEW a \in Answered,
         req' = [req EXCEPT ![c] = r],
         ans' = [ans EXCEPT ![c] = a],
         UNCHANGED <<orgOf, scans>>,
         mine' \in [Clients -> [vin : Vins \cup {NoVin}, at : Ats]],
         \A d \in Clients : d # c => mine'[d] = mine[d],
         lock' \in [Vins -> Clients \cup {NoClient}],
         \A v \in Vins : lock[v] \in Clients /\ lock[v] # c => lock'[v] = lock[v],
         posted' \in 0..MaxScans,
         clock' = clock \/ clock' = clock + 1,
         r.pc = "commit" => r.at = clock + 1,
         UploadOK(c)', MineOK(c)', AnswerOK(c)'
  PROVE  Inv'
<1>1. TypeOK'
  <2>1. req' \in [Clients -> Requests] /\ ans' \in [Clients -> Answered]
    BY DEF Inv, TypeOK
  <2>2. clock' \in Nat
    BY DEF Inv, TypeOK
  <2>3. orgOf' \in [Clients -> Orgs \cup {AllOrgs}] /\ scans' \subseteq Sessions
    BY DEF Inv, TypeOK, Sessions
  <2>. QED BY <2>1, <2>2, <2>3, Zenon DEF TypeOK
<1>2. (\A s, t \in scans : s.at <= clock /\ (s.at = t.at => s = t))'
  BY DEF Inv, ShopInv, TypeOK, Sessions
<1>3. ASSUME NEW d \in Clients, d # c
      PROVE  /\ req'[d] = req[d] /\ ans'[d] = ans[d] /\ mine'[d] = mine[d]
             /\ req[d] \in Requests /\ UploadOK(d) /\ MineOK(d) /\ AnswerOK(d)
  BY <1>3 DEF Inv, TypeOK, ShopInv
<1>4. req'[c] = r
  BY DEF Inv, TypeOK
<1>5. ASSUME NEW d \in Clients, d # c PROVE UploadOK(d)'
  <2>1. req[d].pc \in {"stamp", "commit"} => (lock[req[d].vin] = d)'
    BY <1>3, <1>5 DEF UploadOK
  <2>2. ASSUME At(d, "commit")
        PROVE  /\ req[d].at \in 1..clock'
               /\ \A e \in Clients : At(e, "commit")' /\ req'[e].at = req[d].at => e = d
    <3>1. req[d].at \in 1..clock /\ clock \in Nat /\ req[d].at # clock + 1
      BY <1>3, <1>5, <2>2 DEF UploadOK, Inv, TypeOK
    <3>2. \A e \in Clients : e # c => (At(e, "commit")' /\ req'[e].at = req[d].at => e = d)
      BY <1>3, <1>5, <2>2 DEF UploadOK, At
    <3>3. ~(At(c, "commit")' /\ req'[c].at = req[d].at)
      BY <1>4, <3>1 DEF At
    <3>. QED BY <3>1, <3>2, <3>3
  <2>. QED BY <1>3, <1>5, <2>1, <2>2 DEF UploadOK, At
<1>6. ASSUME NEW d \in Clients, d # c PROVE MineOK(d)' /\ AnswerOK(d)'
  BY <1>3, <1>6 DEF MineOK, AnswerOK, Stored, Visible, AtsOf, At
<1>. QED BY <1>1, <1>2, <1>5, <1>6 DEF Inv, ShopInv

\* A step of one request that touches neither the rows, the locks nor the clock.
LEMMA QuietStep ==
  ASSUME Inv, NEW c \in Clients, NEW r \in Requests, NEW a \in Answered,
         req' = [req EXCEPT ![c] = r],
         ans' = [ans EXCEPT ![c] = a],
         UNCHANGED <<orgOf, scans, lock, clock, mine>>,
         posted' \in 0..MaxScans,
         r.pc # "commit",
         UploadOK(c)', MineOK(c)', AnswerOK(c)'
  PROVE  Inv'
<1>1. /\ mine' \in [Clients -> [vin : Vins \cup {NoVin}, at : Ats]]
      /\ lock' \in [Vins -> Clients \cup {NoClient}]
  BY DEF Inv, TypeOK
<1>. QED BY <1>1, OwnStep

\* A request that is over: the client is idle, or the handler returned an error.
LEMMA EndStep ==
  ASSUME Inv, NEW c \in Clients,
         req' = [req EXCEPT ![c] = Idle],
         ans' = [ans EXCEPT ![c] = Nothing],
         UNCHANGED <<orgOf, scans, clock, posted>>,
         mine' \in [Clients -> [vin : Vins \cup {NoVin}, at : Ats]],
         \A d \in Clients : d # c => mine'[d] = mine[d],
         mine'[c] = mine[c] \/ Stored(c, mine'[c].vin, mine'[c].at),
         lock' \in [Vins -> Clients \cup {NoClient}],
         \A v \in Vins : lock[v] \in Clients /\ lock[v] # c => lock'[v] = lock[v]
  PROVE  Inv'
<1>1. /\ req'[c] = Idle /\ ans'[c] = Nothing
      /\ Nothing \in Answered /\ posted' \in 0..MaxScans
  BY NothingRead DEF Inv, TypeOK
<1>2. UploadOK(c)'
  BY <1>1, NoRequest DEF UploadOK, At
<1>3. MineOK(c)'
  BY <1>1, NoRequest DEF MineOK, At, Stored, Inv, ShopInv
<1>4. AnswerOK(c)'
  BY <1>1, NoRequest, NothingRead DEF AnswerOK, At
<1>. HIDE DEF Ats, NoScan
<1>. QED BY <1>1, <1>2, <1>3, <1>4, NoRequest, OwnStep
-----------------------------------------------------------------------------
(* The steps *)

\* What a client's request and answer are before a step.
LEMMA Own ==
  ASSUME Inv, NEW c \in Clients
  PROVE  /\ req[c] \in Requests /\ ans[c] \in Answered /\ mine[c].at \in Ats
         /\ UploadOK(c) /\ MineOK(c) /\ AnswerOK(c)
         /\ posted \in 0..MaxScans /\ clock \in Nat
         /\ mine \in [Clients -> [vin : Vins \cup {NoVin}, at : Ats]]
         /\ lock \in [Vins -> Clients \cup {NoClient}]
         /\ orgOf[c] \in Orgs \cup {AllOrgs}
         /\ \A r : req' = [req EXCEPT ![c] = r] => req'[c] = r
         /\ \A a : ans' = [ans EXCEPT ![c] = a] => ans'[c] = a
         /\ UNCHANGED ans => ans' = [ans EXCEPT ![c] = ans[c]]
  BY DEF Inv, TypeOK, ShopInv

\* A client that has no upload after a step, and was told nothing by it.
LEMMA NoUploadNow ==
  ASSUME Inv, NEW c \in Clients, UNCHANGED <<orgOf, scans>>, mine'[c] = mine[c],
         req'[c].pc \notin {"begin", "vehicle", "stamp", "commit", "enqueue"}
  PROVE  UploadOK(c)' /\ MineOK(c)'
<1>1. UploadOK(c)'
  BY DEF UploadOK, At
<1>2. MineOK(c)
  BY DEF Inv, ShopInv
<1>3. MineOK(c)'
  BY <1>2 DEF MineOK, At, Stored
<1>. QED BY <1>1, <1>3

LEMMA PostsStep ==
  ASSUME Inv, NEW c \in Clients, Posts(c)
  PROVE  Inv'
<1>1. PICK v \in Vins, codes \in SUBSET Codes, obs \in BOOLEAN :
        req' = [req EXCEPT ![c] = Request("begin", v, {}, codes, obs, {})]
  BY DEF Posts
<1>. DEFINE r == Request("begin", v, {}, codes, obs, {})
<1>2. r \in Requests /\ r.pc = "begin" /\ r.vin = v /\ r.left = {}
  BY FreshRequests
<1>. HIDE DEF r
<1>3. req' = [req EXCEPT ![c] = r]
  BY <1>1 DEF r
<1>4. req'[c] = r /\ ans' = [ans EXCEPT ![c] = ans[c]] /\ ans'[c] = ans[c] /\ mine'[c] = mine[c]
  BY <1>3, Own DEF Posts
<1>5. ans[c] = Nothing
  BY Own DEF Posts, At, AnswerOK
<1>6. UploadOK(c)'
  BY <1>2, <1>4, Own DEF UploadOK, At, Posts
<1>7. MineOK(c)'
  BY <1>2, <1>4, Own DEF MineOK, At, Posts, Stored
<1>8. AnswerOK(c)'
  BY <1>2, <1>4, <1>5, NothingRead DEF AnswerOK, At
<1>9. posted' \in 0..MaxScans
  BY Own DEF Posts
<1>10. UNCHANGED <<orgOf, scans, lock, clock, mine>> /\ ans[c] \in Answered
  BY Own DEF Posts
<1>. HIDE DEF Ats, NoScan
<1>. QED BY <1>2, <1>3, <1>4, <1>6, <1>7, <1>8, <1>9, <1>10, QuietStep

LEMMA BeginsStep ==
  ASSUME Inv, NEW c \in Clients, Begins(c)
  PROVE  Inv'
<1>. DEFINE r == [req[c] EXCEPT !.pc = "vehicle"]
<1>1. /\ r \in Requests /\ r.pc = "vehicle" /\ r.vin = req[c].vin /\ r.at = req[c].at
      /\ r.left = req[c].left
  BY Own, PcMoves DEF PCs
<1>2. req' = [req EXCEPT ![c] = r]
  BY DEF Begins
<1>. HIDE DEF r
<1>3. req'[c] = r /\ ans' = [ans EXCEPT ![c] = ans[c]] /\ ans'[c] = ans[c] /\ mine'[c] = mine[c]
  BY <1>2, Own DEF Begins
<1>4. UploadOK(c)'
  BY <1>1, <1>3, Own DEF UploadOK, At, Begins
<1>5. MineOK(c)'
  BY <1>1, <1>3, Own DEF MineOK, At, Begins, Stored
<1>6. AnswerOK(c)'
  <2>1. \A v : AtsOf(Visible(c, v))' = AtsOf(Visible(c, v))
    BY DEF Begins, AtsOf, Visible
  <2>2. ans[c] = Nothing /\ req[c].left \subseteq AtsOf(Visible(c, req[c].vin))
    BY Own DEF AnswerOK, At, Begins
  <2>. QED BY <1>1, <1>3, <2>1, <2>2, NothingRead DEF AnswerOK, At
<1>7. UNCHANGED <<orgOf, scans, lock, clock, mine>> /\ ans[c] \in Answered
  BY Own DEF Begins
<1>8. posted' \in 0..MaxScans
  BY Own DEF Begins
<1>. HIDE DEF Ats, NoScan
<1>. QED BY <1>1, <1>2, <1>3, <1>4, <1>5, <1>6, <1>7, <1>8, QuietStep

LEMMA UpsertsVehicleStep ==
  ASSUME Inv, NEW c \in Clients, UpsertsVehicle(c)
  PROVE  Inv'
<1>. DEFINE r == [req[c] EXCEPT !.pc = "stamp"]
<1>1. /\ r \in Requests /\ r.pc = "stamp" /\ r.vin = req[c].vin /\ r.at = req[c].at
      /\ r.left = req[c].left
  BY Own, PcMoves DEF PCs
<1>2. req' = [req EXCEPT ![c] = r]
  BY DEF UpsertsVehicle
<1>. HIDE DEF r
<1>3. req'[c] = r /\ ans' = [ans EXCEPT ![c] = ans[c]] /\ ans'[c] = ans[c] /\ mine'[c] = mine[c]
  BY <1>2, Own DEF UpsertsVehicle
<1>4. req[c].vin \in Vins
  BY Own DEF UploadOK, UpsertsVehicle, At
<1>5. /\ lock' \in [Vins -> Clients \cup {NoClient}]
      /\ lock'[req[c].vin] = c
      /\ \A v \in Vins : lock[v] \in Clients /\ lock[v] # c => lock'[v] = lock[v]
  BY <1>4, Own DEF UpsertsVehicle
<1>6. UploadOK(c)'
  BY <1>1, <1>3, <1>5, Own DEF UploadOK, At, UpsertsVehicle
<1>7. MineOK(c)'
  BY <1>1, <1>3, Own DEF MineOK, At, UpsertsVehicle, Stored
<1>8. AnswerOK(c)'
  BY <1>1, <1>3, Own, SMTT(30) DEF AnswerOK, At, UpsertsVehicle, Visible, AtsOf
<1>9. /\ r \in Requests /\ ans[c] \in Answered /\ r.pc # "commit"
      /\ posted' \in 0..MaxScans
      /\ mine' \in [Clients -> [vin : Vins \cup {NoVin}, at : Ats]]
  BY <1>1, Own DEF UpsertsVehicle
<1>10. UNCHANGED <<orgOf, scans>> /\ clock' = clock /\ mine' = mine
  BY DEF UpsertsVehicle
<1>. QED BY <1>2, <1>3, <1>5, <1>6, <1>7, <1>8, <1>9, <1>10, OwnStep, Zenon

LEMMA StampsStep ==
  ASSUME Inv, NEW c \in Clients, Stamps(c)
  PROVE  Inv'
<1>. DEFINE r == [req[c] EXCEPT !.pc = "commit", !.at = clock + 1]
<1>1. /\ r \in Requests /\ r.pc = "commit" /\ r.vin = req[c].vin /\ r.at = clock + 1
      /\ r.left = req[c].left
  <2>1. req[c] \in Requests /\ clock + 1 \in Ats
    BY Own
  <2>. QED BY <2>1, AtMoves
<1>2. req' = [req EXCEPT ![c] = r]
  BY Own DEF Stamps, Inv, TypeOK
<1>. HIDE DEF r
<1>3. req'[c] = r /\ ans' = [ans EXCEPT ![c] = ans[c]] /\ ans'[c] = ans[c] /\ mine'[c] = mine[c]
  BY <1>2, Own DEF Stamps
<1>4. orgOf[c] \in Orgs /\ req[c].vin \in Vins /\ lock[req[c].vin] = c
  BY Own DEF UploadOK, Stamps, At
<1>5. \A s \in scans : s.at \in Nat /\ s.at <= clock
  BY DEF Inv, ShopInv, TypeOK, Sessions
<1>6. clock + 1 \in 1..clock' /\ \A s \in scans : s.at # clock + 1 /\ s.at < clock + 1
  BY <1>5, Own DEF Stamps
<1>7. \A d \in Clients : At(d, "commit")' /\ req'[d].at = clock + 1 => d = c
  <2>. SUFFICES ASSUME NEW d \in Clients, At(d, "commit")', d # c
                PROVE  req'[d].at # clock + 1
    OBVIOUS
  <2>1. req'[d] = req[d]
    BY <1>2
  <2>2. req[d].at \in 1..clock
    BY <2>1, Own DEF UploadOK, At
  <2>. QED BY <2>1, <2>2, Own
<1>8. UploadOK(c)'
  BY <1>1, <1>3, <1>4, <1>6, <1>7 DEF UploadOK, At, Stamps
<1>9. MineOK(c)'
  <2>1. mine[c].at # NoScan => Stored(c, mine[c].vin, mine[c].at)
    BY Own DEF MineOK
  <2>2. UNCHANGED <<scans, orgOf, mine>>
    BY DEF Stamps
  <2>3. Stored(c, mine[c].vin, mine[c].at) => Stored(c, mine[c].vin, mine[c].at)'
    BY <2>2 DEF Stored
  <2>. QED BY <1>1, <1>3, <2>1, <2>2, <2>3 DEF MineOK, At
<1>10. \A v : AtsOf(Visible(c, v))' = AtsOf(Visible(c, v))
  BY DEF Stamps, AtsOf, Visible
<1>11. AnswerOK(c)'
  <2>1. ans[c] = Nothing /\ req[c].left \subseteq AtsOf(Visible(c, req[c].vin))
    BY Own DEF AnswerOK, At, Stamps
  <2>. QED BY <1>1, <1>3, <1>10, <2>1, NothingRead DEF AnswerOK, At
<1>. QED BY <1>1, <1>2, <1>3, <1>8, <1>9, <1>11, Own, OwnStep, ZenonT(60) DEF Stamps

\* The steps that end a request: the roll-back, the 201, a reply and an error.
LEMMA EndSteps ==
  ASSUME Inv, NEW c \in Clients,
         RollsBack(c) \/ Told(c) \/ Answers(c) \/ ListEnds(c) \/ Fails(c)
  PROVE  Inv'
<1>. DEFINE pc == req[c].pc
<1>1. /\ ans[c] = Nothing \/ pc \in {"observations", "cooccur", "latest", "answer"}
      /\ ans[c] = Nothing /\ UNCHANGED ans => ans' = [ans EXCEPT ![c] = Nothing]
  BY Own DEF AnswerOK
<1>2. CASE RollsBack(c)
  <2>1. ans' = [ans EXCEPT ![c] = Nothing]
    BY <1>1, <1>2 DEF RollsBack, InTx
  <2>2. /\ lock' \in [Vins -> Clients \cup {NoClient}]
        /\ \A v \in Vins : lock[v] \in Clients /\ lock[v] # c => lock'[v] = lock[v]
    BY <1>2, Own DEF RollsBack, Unlocked
  <2>. QED BY <1>2, <2>1, <2>2, Own, EndStep DEF RollsBack
<1>3. CASE Told(c)
  <2>1. ans' = [ans EXCEPT ![c] = Nothing]
    BY <1>1, <1>3 DEF Told, At
  <2>2. /\ mine' \in [Clients -> [vin : Vins \cup {NoVin}, at : Ats]]
        /\ \A d \in Clients : d # c => mine'[d] = mine[d]
        /\ mine'[c].vin = req[c].vin /\ mine'[c].at = req[c].at
    BY <1>3, Own DEF Told, Requests
  <2>3. Stored(c, mine'[c].vin, mine'[c].at)
    BY <1>3, <2>2, Own DEF Told, MineOK, At
  <2>4. \A v \in Vins : lock'[v] = lock[v]
    BY <1>3 DEF Told
  <2>5. lock' \in [Vins -> Clients \cup {NoClient}]
    BY <1>3, Own DEF Told
  <2>. QED BY <1>3, <2>1, <2>2, <2>3, <2>4, <2>5, EndStep DEF Told
<1>4. CASE Answers(c)
  BY <1>4, Own, EndStep DEF Answers
<1>5. CASE ListEnds(c)
  <2>1. ans' = [ans EXCEPT ![c] = Nothing]
    BY <1>1, <1>5 DEF ListEnds, At
  <2>. QED BY <1>5, <2>1, Own, EndStep DEF ListEnds
<1>6. CASE Fails(c)
  BY <1>6, Own, EndStep DEF Fails
<1>. QED BY <1>2, <1>3, <1>4, <1>5, <1>6

LEMMA AsksStep ==
  ASSUME Inv, NEW c \in Clients, Asks(c)
  PROVE  Inv'
<1>1. PICK v \in Vins \cup {NoVin}, code \in Codes :
        req' = [req EXCEPT ![c] = Request("history", v, {code}, {}, FALSE, {})]
  BY DEF Asks
<1>. DEFINE r == Request("history", v, {code}, {}, FALSE, {})
<1>2. r \in Requests /\ r.pc = "history" /\ r.vin = v /\ r.left = {}
  <2>1. /\ {code} \in SUBSET Codes /\ {} \in SUBSET Codes /\ {} \in SUBSET Ats
        /\ FALSE \in BOOLEAN /\ "history" \in {"idle", "begin", "history", "rows"}
    OBVIOUS
  <2>. QED BY <2>1 DEF Request, Requests
<1>. HIDE DEF r
<1>3. req' = [req EXCEPT ![c] = r]
  BY <1>1 DEF r
<1>4. req'[c] = r /\ ans' = [ans EXCEPT ![c] = ans[c]] /\ ans'[c] = ans[c] /\ mine'[c] = mine[c]
  BY <1>3, Own DEF Asks
<1>5. ans[c] = Nothing
  BY Own DEF Asks, At, AnswerOK
<1>6. UploadOK(c)' /\ MineOK(c)'
  BY <1>2, <1>4, NoUploadNow DEF Asks
<1>7. AnswerOK(c)'
  BY <1>2, <1>4, <1>5, NothingRead DEF AnswerOK, At
<1>. QED BY <1>2, <1>3, <1>4, <1>6, <1>7, Own, QuietStep DEF Asks

\* The scans of a list.
LEMMA ListsStep ==
  ASSUME Inv, NEW c \in Clients, Lists(c)
  PROVE  Inv'
<1>1. PICK v \in Vins :
        req' = [req EXCEPT ![c] =
          Request("rows", v, {}, {}, FALSE, NewestOf(AtsOf(Visible(c, v)), Limit))]
  BY DEF Lists
<1>. DEFINE L == NewestOf(AtsOf(Visible(c, v)), Limit)
            r == Request("rows", v, {}, {}, FALSE, L)
<1>2. L \in SUBSET AtsOf(Visible(c, v)) /\ L \in SUBSET Ats
  BY QueriedAts DEF Visible, Inv
<1>. HIDE DEF L
<1>3. r \in Requests /\ r.pc = "rows" /\ r.vin = v /\ r.left = L
  <2>1. /\ {} \in SUBSET Codes /\ L \in SUBSET Ats /\ v \in Vins \cup {NoVin}
        /\ FALSE \in BOOLEAN /\ "rows" \in {"idle", "begin", "history", "rows"}
    BY <1>2
  <2>. QED BY <2>1 DEF Request, Requests
<1>4. req' = [req EXCEPT ![c] = r]
  BY <1>1 DEF L
<1>. HIDE DEF r
<1>5. req'[c] = r /\ ans' = [ans EXCEPT ![c] = ans[c]] /\ ans'[c] = ans[c] /\ mine'[c] = mine[c]
  BY <1>4, Own DEF Lists
<1>6. ans[c] = Nothing
  BY Own DEF Lists, At, AnswerOK
<1>7. UploadOK(c)' /\ MineOK(c)'
  BY <1>3, <1>5, NoUploadNow DEF Lists
<1>8. AtsOf(Visible(c, v))' = AtsOf(Visible(c, v))
  BY DEF Lists, AtsOf, Visible
<1>9. AnswerOK(c)'
  BY <1>2, <1>3, <1>5, <1>6, <1>8, NothingRead DEF AnswerOK, At
<1>. QED BY <1>3, <1>4, <1>5, <1>7, <1>9, Own, QuietStep DEF Lists

LEMMA ListsNextStep ==
  ASSUME Inv, NEW c \in Clients, ListsNext(c)
  PROVE  Inv'
<1>. DEFINE L == req[c].left \ Newest(req[c].left)
            r == [req[c] EXCEPT !.left = L]
<1>1. L \in SUBSET req[c].left /\ L \in SUBSET Ats
  BY Own DEF Requests
<1>2. req' = [req EXCEPT ![c] = r]
  BY Own DEF ListsNext
<1>. HIDE DEF L
<1>3. r \in Requests /\ r.pc = req[c].pc /\ r.vin = req[c].vin /\ r.left = L /\ r.at = req[c].at
  <2>1. req[c] \in Requests
    BY Own
  <2>. QED BY <1>1, <2>1, LeftMoves
<1>. HIDE DEF r
<1>4. req'[c] = r /\ ans' = [ans EXCEPT ![c] = ans[c]] /\ ans'[c] = ans[c] /\ mine'[c] = mine[c]
  BY <1>2, Own DEF ListsNext
<1>5. UploadOK(c)' /\ MineOK(c)'
  BY <1>3, <1>4, NoUploadNow DEF ListsNext, At
<1>6. \A v : AtsOf(Visible(c, v))' = AtsOf(Visible(c, v))
  BY DEF ListsNext, AtsOf, Visible
<1>7. AnswerOK(c)'
  <2>1. req[c].pc = "rows"
    BY DEF ListsNext, At
  <2>2. ans[c] = Nothing /\ req[c].left \subseteq AtsOf(Visible(c, req[c].vin))
    BY <2>1, Own DEF AnswerOK
  <2>3. L \subseteq AtsOf(Visible(c, req[c].vin))'
    BY <1>1, <1>3, <1>4, <1>6, <2>2
  <2>. QED BY <1>3, <1>4, <2>1, <2>2, <2>3, NothingRead DEF AnswerOK, At
<1>8. UNCHANGED <<orgOf, scans, lock, clock, mine>> /\ ans[c] \in Answered
  BY Own DEF ListsNext
<1>9. r.pc # "commit" /\ posted' \in 0..MaxScans
  BY <1>3, Own DEF ListsNext, At
<1>. HIDE DEF Ats, NoScan
<1>. QED BY <1>2, <1>3, <1>4, <1>5, <1>7, <1>8, <1>9, QuietStep

\* The order of the statements of an explanation.
LEMMA ThenWhat ==
  ASSUME NEW c \in Clients, req[c].pc \in {"history", "observations", "cooccur", "latest"}
  PROVE  /\ Then(c) \in {"observations", "cooccur", "latest", "answer"}
         /\ Then(c) = "answer" => req[c].pc = "latest" \/ req[c].vin = NoVin
  BY DEF Then, At

\* A statement of an explanation that keeps to the scans the client may see, and
\* that ends the row of statements with trouble codes new enough.
LEMMA ReadingStep ==
  ASSUME Inv, NEW c \in Clients, NEW x \in Answered,
         req[c].pc \in {"history", "observations", "cooccur", "latest"},
         req' = [req EXCEPT ![c].pc = Then(c)],
         ans' = [ans EXCEPT ![c] = x],
         UNCHANGED <<orgOf, scans, lock, clock, posted, mine>>,
         x.hist \subseteq AtsOf(Visible(c, req[c].vin)),
         {x.obs, x.scan} \subseteq AtsOf(Visible(c, req[c].vin)) \cup {NoScan},
         x.co \subseteq AtsOf(Visible(c, NoVin)),
         (At(c, "latest") /\ req[c].vin # NoVin /\ ~x.lost) =>
           /\ \A a \in x.hist \cup {x.obs} : a <= x.scan
           /\ req[c].vin = mine[c].vin => mine[c].at <= x.scan
  PROVE  Inv'
<1>. DEFINE r == [req[c] EXCEPT !.pc = Then(c)]
<1>1. /\ r \in Requests /\ r.vin = req[c].vin /\ r.left = req[c].left
      /\ r.pc \in {"observations", "cooccur", "latest", "answer"}
      /\ r.pc = "answer" => At(c, "latest") \/ req[c].vin = NoVin
  <2>. DEFINE step == Then(c)
  <2>1. /\ step \in {"observations", "cooccur", "latest", "answer"}
        /\ step = "answer" => At(c, "latest") \/ req[c].vin = NoVin
    BY ThenWhat DEF At
  <2>2. step \in PCs
    BY <2>1 DEF PCs
  <2>. HIDE DEF step
  <2>3. LET q == [req[c] EXCEPT !.pc = step] IN
          q \in Requests /\ q.pc = step /\ q.vin = req[c].vin /\ q.left = req[c].left
    <3>1. req[c] \in Requests
      BY Own
    <3>. QED BY <2>2, <3>1, PcMoves
  <2>4. r = [req[c] EXCEPT !.pc = step]
    BY DEF step
  <2>. HIDE DEF r
  <2>5. /\ r \in Requests /\ r.pc = step /\ r.vin = req[c].vin /\ r.left = req[c].left
    BY <2>3, <2>4, Zenon
  <2>. QED BY <2>1, <2>5
<1>2. req' = [req EXCEPT ![c] = r]
  OBVIOUS
<1>. HIDE DEF r
<1>3. req'[c] = r /\ ans'[c] = x /\ mine'[c] = mine[c]
  BY <1>2, Own
<1>4. UploadOK(c)' /\ MineOK(c)'
  <2>1. r.pc \notin {"begin", "vehicle", "stamp", "commit", "enqueue"}
    BY <1>1
  <2>. QED BY <1>3, <2>1, NoUploadNow
<1>5. \A v : AtsOf(Visible(c, v))' = AtsOf(Visible(c, v))
  BY DEF AtsOf, Visible
<1>6. r.left \subseteq AtsOf(Visible(c, req[c].vin))
  BY <1>1, Own DEF AnswerOK
<1>7. (r.pc = "answer" /\ r.vin # NoVin /\ ~x.lost) =>
           /\ \A a \in x.hist \cup {x.obs} : a <= x.scan
           /\ r.vin = mine[c].vin => mine[c].at <= x.scan
  BY <1>1
<1>8. AnswerOK(c)'
  BY <1>1, <1>3, <1>5, <1>6, <1>7 DEF AnswerOK, At
<1>9. posted' \in 0..MaxScans
  BY Own
<1>. QED BY <1>1, <1>2, <1>3, <1>4, <1>8, <1>9, QuietStep

\* A statement leaves what the others read.
LEMMA ReadsSteps ==
  ASSUME Inv, NEW c \in Clients,
         ReadsHistory(c) \/ ReadsObservations(c) \/ ReadsCoOccurrence(c) \/ ReadsLatest(c)
           \/ MissesOne(c)
  PROVE  Inv'
<1>. DEFINE V == AtsOf(Visible(c, req[c].vin))
<1>1. /\ ans[c] \in Answered /\ mine[c].at \in Ats
      /\ ans[c].hist \subseteq V /\ {ans[c].obs, ans[c].scan} \subseteq V \cup {NoScan}
      /\ ans[c].co \subseteq AtsOf(Visible(c, NoVin))
  BY Own DEF AnswerOK
<1>2. V \in SUBSET Ats
  BY QueriedAts DEF Visible, Inv
<1>3. \A S \in SUBSET Visible(c, req[c].vin) :
        AtsOf(S) \in SUBSET V /\ AtsOf(S) \in SUBSET Ats /\ S \in SUBSET scans
  BY <1>2 DEF AtsOf, Visible
<1>4. CASE ReadsHistory(c)
  <2>. DEFINE A == NewestOf(AtsOf(Hits(c)), Limit)
              x == [ans[c] EXCEPT !.hist = A]
  <2>1. Hits(c) \in SUBSET Visible(c, req[c].vin)
    BY DEF Hits
  <2>2. A \in SUBSET V /\ A \in SUBSET Ats
    BY <1>3, <2>1, QueriedAts DEF Inv
  <2>3. Reads(c, "history", x)
    BY <1>4 DEF ReadsHistory
  <2>. HIDE DEF A
  <2>4. /\ x \in Answered /\ x.hist = A /\ x.obs = ans[c].obs /\ x.co = ans[c].co
        /\ x.scan = ans[c].scan
    BY <1>1, <2>2, HistMoves
  <2>. HIDE DEF x, V
  <2>. QED BY <1>1, <2>2, <2>3, <2>4, ReadingStep DEF Reads, At, V
<1>5. CASE ReadsObservations(c)
  <2>. DEFINE W == { s \in Visible(c, req[c].vin) : s.obs }
  <2>1. W \in SUBSET Visible(c, req[c].vin)
    OBVIOUS
  <2>2. PICK a \in Newest(AtsOf(W)) : Reads(c, "observations", [ans[c] EXCEPT !.obs = a])
    BY <1>5 DEF ReadsObservations
  <2>. HIDE DEF W
  <2>3. a \in Ats /\ a \in V \cup {0}
    BY <1>3, <2>1, <2>2, QueriedAts DEF Inv
  <2>. DEFINE x == [ans[c] EXCEPT !.obs = a]
  <2>4. /\ x \in Answered /\ x.hist = ans[c].hist /\ x.obs = a /\ x.co = ans[c].co
        /\ x.scan = ans[c].scan
    BY <1>1, <2>3, ObsMoves
  <2>5. Reads(c, "observations", x)
    BY <2>2
  <2>. HIDE DEF x, V
  <2>. QED BY <1>1, <2>3, <2>4, <2>5, ReadingStep DEF Reads, At, V
<1>6. CASE ReadsCoOccurrence(c)
  <2>. DEFINE F == { s \in Visible(c, NoVin) : req[c].code \subseteq s.codes }
              A == AtsOf(F)
              x == [ans[c] EXCEPT !.co = A]
  <2>1. A \in SUBSET AtsOf(Visible(c, NoVin)) /\ F \in SUBSET scans
    BY DEF AtsOf, Visible
  <2>2. A \in SUBSET Ats
    BY <2>1, QueriedAts DEF Inv
  <2>3. Reads(c, "cooccur", x)
    BY <1>6 DEF ReadsCoOccurrence
  <2>. HIDE DEF A
  <2>4. /\ x \in Answered /\ x.hist = ans[c].hist /\ x.obs = ans[c].obs /\ x.co = A
        /\ x.scan = ans[c].scan
    BY <1>1, <2>2, CoMoves
  <2>. HIDE DEF x, V
  <2>. QED BY <1>1, <2>1, <2>3, <2>4, ReadingStep DEF Reads, At, V
<1>7. CASE ReadsLatest(c)
  <2>1. PICK a \in Newest(V) : Reads(c, "latest", [ans[c] EXCEPT !.scan = a])
    BY <1>7 DEF ReadsLatest
  <2>2. a \in Ats /\ a \in V \cup {0} /\ \A b \in V : b <= a
    BY <2>1, QueriedAts DEF Inv, Visible
  <2>. DEFINE x == [ans[c] EXCEPT !.scan = a]
  <2>3. /\ x \in Answered /\ x.hist = ans[c].hist /\ x.obs = ans[c].obs /\ x.co = ans[c].co
        /\ x.scan = a
    BY <1>1, <2>2, ScanMoves
  <2>4. Reads(c, "latest", x)
    BY <2>1
  <2>5. \A b \in ans[c].hist \cup {ans[c].obs} : b <= a
    <3>1. \A b \in V \cup {NoScan} : b <= a
      BY <1>2, <2>2
    <3>. HIDE DEF V
    <3>. QED BY <1>1, <3>1, Zenon
  <2>6. req[c].vin = mine[c].vin => mine[c].at <= a
    <3>1. mine[c].at # NoScan => Stored(c, mine[c].vin, mine[c].at)
      BY Own DEF MineOK
    <3>2. Stored(c, req[c].vin, mine[c].at) => mine[c].at \in V
      BY DEF Stored, AtsOf, Visible
    <3>. QED BY <1>1, <2>2, <3>1, <3>2
  <2>. HIDE DEF x, V
  <2>. QED BY <1>1, <2>2, <2>3, <2>4, <2>5, <2>6, ReadingStep DEF Reads, At, V
<1>8. CASE MissesOne(c)
  <2>. DEFINE x == [ans[c] EXCEPT !.lost = TRUE]
  <2>1. /\ x \in Answered /\ x.hist = ans[c].hist /\ x.obs = ans[c].obs /\ x.co = ans[c].co
        /\ x.scan = ans[c].scan /\ x.lost
    BY <1>1, LostMoves
  <2>2. ans' = [ans EXCEPT ![c] = x]
    BY <1>8 DEF MissesOne
  <2>3. /\ req' = [req EXCEPT ![c].pc = Then(c)]
        /\ UNCHANGED <<orgOf, scans, lock, clock, posted, mine>>
        /\ req[c].pc \in {"history", "observations", "cooccur", "latest"}
    BY <1>8 DEF MissesOne
  <2>. HIDE DEF x, V
  <2>4. /\ x.hist \subseteq V /\ {x.obs, x.scan} \subseteq V \cup {NoScan}
        /\ x.co \subseteq AtsOf(Visible(c, NoVin))
    BY <1>1, <2>1
  <2>. QED BY <2>1, <2>2, <2>3, <2>4, ReadingStep, Zenon DEF V
<1>. QED BY <1>4, <1>5, <1>6, <1>7, <1>8

\* A commit: the one step that adds a row, later than every scan of its vehicle and
\* different in time from every other.
LEMMA CommitAdds ==
  ASSUME Inv, NEW c \in Clients, Commits(c)
  PROVE  LET s == Uploaded(c) IN
           /\ s \in Sessions /\ s.at = req[c].at /\ s.vin = req[c].vin /\ s.org = orgOf[c]
           /\ s.at <= clock
           /\ \A t \in scans : t.at # s.at /\ (t.vin = s.vin => t.at < s.at)
<1>1. /\ At(c, "commit") /\ orgOf[c] \in Orgs /\ req[c].vin \in Vins
      /\ req[c].at \in 1..clock /\ clock \in Nat
      /\ \A s \in scans : s.at # req[c].at /\ (s.vin = req[c].vin => s.at < req[c].at)
  BY Own DEF UploadOK, Commits, At
<1>2. req[c].obs \in BOOLEAN /\ req[c].codes \in SUBSET Codes
  BY Own DEF Requests
<1>. QED BY <1>1, <1>2 DEF Uploaded, Sessions

\* What is visible stays visible when a scan is added.
LEMMA ScansStay ==
  ASSUME scans \subseteq scans', UNCHANGED orgOf, NEW c, NEW v
  PROVE  AtsOf(Visible(c, v)) \subseteq AtsOf(Visible(c, v))'
  BY DEF AtsOf, Visible

LEMMA CommitsStep ==
  ASSUME Inv, NEW c \in Clients, Commits(c)
  PROVE  Inv'
<1>. DEFINE s == Uploaded(c)
<1>1. /\ s \in Sessions /\ s.at = req[c].at /\ s.vin = req[c].vin /\ s.org = orgOf[c]
      /\ s.at <= clock
      /\ \A t \in scans : t.at # s.at /\ (t.vin = s.vin => t.at < s.at)
  BY CommitAdds
<1>. HIDE DEF s
<1>2. /\ scans' = scans \cup {s} /\ lock' = Unlocked(c)
      /\ UNCHANGED <<orgOf, clock, posted, ans, mine>>
      /\ At(c, "commit")
  BY DEF Commits, s
<1>3. PICK r \in Requests :
        /\ req' = [req EXCEPT ![c] = r]
        /\ r = Idle \/ (r.pc = "enqueue" /\ r.vin = req[c].vin /\ r.at = req[c].at)
        /\ r.pc \in {"idle", "enqueue"} /\ r.left \subseteq req[c].left
  <2>1. CASE req' = [req EXCEPT ![c] = Idle]
    BY <2>1, NoRequest
  <2>2. CASE req' = [req EXCEPT ![c].pc = "enqueue"]
    <3>. DEFINE e == [req[c] EXCEPT !.pc = "enqueue"]
    <3>1. /\ e \in Requests /\ e.pc = "enqueue" /\ e.vin = req[c].vin /\ e.at = req[c].at
          /\ e.left = req[c].left
      BY Own, PcMoves DEF PCs
    <3>2. req' = [req EXCEPT ![c] = e]
      BY <2>2
    <3>. HIDE DEF e
    <3>. QED BY <3>1, <3>2
  <2>. QED BY <2>1, <2>2 DEF Commits
<1>4. req'[c] = r /\ ans'[c] = ans[c] /\ mine'[c] = mine[c] /\ ans[c] = Nothing
  BY <1>2, <1>3, Own DEF AnswerOK, At
<1>5. TypeOK'
  <2>1. req' \in [Clients -> Requests] /\ ans' \in [Clients -> Answered]
    BY <1>2, <1>3 DEF Inv, TypeOK
  <2>2. scans' \subseteq Sessions
    BY <1>1, <1>2 DEF Inv, TypeOK
  <2>3. lock' \in [Vins -> Clients \cup {NoClient}]
    BY <1>2, Own DEF Unlocked
  <2>4. /\ orgOf' \in [Clients -> Orgs \cup {AllOrgs}] /\ clock' \in Nat
        /\ posted' \in 0..MaxScans
        /\ mine' \in [Clients -> [vin : Vins \cup {NoVin}, at : Ats]]
    BY <1>2 DEF Inv, TypeOK
  <2>. QED BY <2>1, <2>2, <2>3, <2>4, Zenon DEF TypeOK
<1>6. (\A x, y \in scans : x.at <= clock /\ (x.at = y.at => x = y))'
  BY <1>1, <1>2 DEF Inv, ShopInv
<1>7. \A d \in Clients : \A v, a : Stored(d, v, a) => Stored(d, v, a)'
  BY <1>2 DEF Stored
<1>8. \A v, a : v = req[c].vin /\ a = req[c].at => Stored(c, v, a)'
  BY <1>1, <1>2 DEF Stored
<1>9. ASSUME NEW d \in Clients, d # c
      PROVE  /\ req'[d] = req[d] /\ ans'[d] = ans[d] /\ mine'[d] = mine[d]
             /\ UploadOK(d)' /\ MineOK(d)' /\ AnswerOK(d)'
  <2>1. req'[d] = req[d] /\ ans'[d] = ans[d] /\ mine'[d] = mine[d]
    BY <1>2, <1>3, <1>9
  <2>2. UploadOK(d)'
    <3>1. CASE req[d].pc \in {"stamp", "commit"}
      <4>1. lock[req[d].vin] = d /\ req[d].vin \in Vins
        BY <3>1, Own DEF UploadOK
      <4>2. lock'[req[d].vin] = d
        BY <1>2, <1>9, <4>1 DEF Unlocked
      <4>3. lock[req[c].vin] = c
        BY <1>2, Own DEF UploadOK, At
      <4>4. req[d].vin # req[c].vin
        BY <1>9, <4>1, <4>3
      <4>5. At(d, "commit") => req[d].at # req[c].at
        BY <1>2, <1>9, Own DEF UploadOK
      <4>6. \A e \in Clients : At(e, "commit")' => At(e, "commit") /\ req'[e] = req[e]
        BY <1>2, <1>3, <1>4 DEF At
      <4>7. ASSUME At(d, "commit")
            PROVE  /\ req[d].at \in 1..clock'
                   /\ \A x \in scans' : /\ x.at # req[d].at
                                        /\ x.vin = req[d].vin => x.at < req[d].at
                   /\ \A e \in Clients : At(e, "commit")' /\ req'[e].at = req[d].at => e = d
        <5>1. /\ req[d].at \in 1..clock
              /\ \A x \in scans : x.at # req[d].at /\ (x.vin = req[d].vin => x.at < req[d].at)
              /\ \A e \in Clients : At(e, "commit") /\ req[e].at = req[d].at => e = d
          BY <4>7, Own DEF UploadOK
        <5>. QED BY <1>1, <1>2, <4>4, <4>5, <4>6, <4>7, <5>1
      <4>. QED BY <2>1, <1>2, <4>1, <4>2, <4>7, Own DEF UploadOK, At
    <3>2. CASE req[d].pc \notin {"stamp", "commit"}
      BY <1>2, <2>1, <3>2, Own DEF UploadOK, At
    <3>. QED BY <3>1, <3>2
  <2>3. MineOK(d)'
    BY <1>7, <2>1, Own DEF MineOK, At
  <2>4. AnswerOK(d)'
    <3>1. \A v : AtsOf(Visible(d, v)) \subseteq AtsOf(Visible(d, v))'
      BY <1>2, ScansStay
    <3>. QED BY <2>1, <3>1, Own DEF AnswerOK, At
  <2>. QED BY <2>1, <2>2, <2>3, <2>4
<1>10. UploadOK(c)'
  <2>1. orgOf[c] \in Orgs /\ req[c].vin \in Vins
    BY <1>2, Own DEF UploadOK, At
  <2>. QED BY <1>2, <1>3, <1>4, <2>1, NoRequest DEF UploadOK, At
<1>11. MineOK(c)'
  BY <1>3, <1>4, <1>7, <1>8, Own, NoRequest DEF MineOK, At
<1>12. AnswerOK(c)'
  <2>1. req[c].left \subseteq AtsOf(Visible(c, req[c].vin))
    BY Own DEF AnswerOK
  <2>2. \A v : AtsOf(Visible(c, v)) \subseteq AtsOf(Visible(c, v))'
    BY <1>2, ScansStay
  <2>. QED BY <1>3, <1>4, <2>1, <2>2, NothingRead, NoRequest DEF AnswerOK, At
<1>. QED BY <1>5, <1>6, <1>9, <1>10, <1>11, <1>12 DEF Inv, ShopInv
-----------------------------------------------------------------------------
(* The inductive invariant *)

LEMMA InitInv == Init => Inv
<1>. SUFFICES ASSUME Init PROVE Inv
  OBVIOUS
<1>1. TypeOK
  BY NoRequest, NothingRead DEF Init, TypeOK, NoUpload
<1>2. ASSUME NEW c \in Clients PROVE UploadOK(c) /\ MineOK(c) /\ AnswerOK(c)
  <2>1. req[c] = Idle /\ ans[c] = Nothing /\ mine[c].at = NoScan
    BY DEF Init, NoUpload
  <2>. QED BY <2>1, NoRequest, NothingRead DEF UploadOK, MineOK, AnswerOK, At
<1>3. \A s, t \in scans : s.at <= clock /\ (s.at = t.at => s = t)
  BY DEF Init
<1>. QED BY <1>1, <1>2, <1>3 DEF Inv, ShopInv

LEMMA NextInv == Inv /\ [Next]_vars => Inv'
<1>. SUFFICES ASSUME Inv, [Next]_vars PROVE Inv'
  OBVIOUS
<1>1. CASE UNCHANGED vars
  BY <1>1 DEF vars, Inv, TypeOK, ShopInv, UploadOK, MineOK, AnswerOK, At, Stored, Visible,
       AtsOf
<1>2. CASE Next
  <2>1. PICK c \in Clients :
          \/ Posts(c) \/ Asks(c) \/ Lists(c)
          \/ Handler(c)
          \/ RollsBack(c) \/ MissesEnqueue(c) \/ MissesOne(c) \/ Fails(c)
    BY <1>2 DEF Next
  <2>2. CASE Posts(c) \/ Asks(c) \/ Lists(c)
    BY <2>2, PostsStep, AsksStep, ListsStep
  <2>3. CASE RollsBack(c) \/ Told(c) \/ Answers(c) \/ ListEnds(c) \/ Fails(c)
    BY <2>3, EndSteps
  <2>4. CASE ReadsHistory(c) \/ ReadsObservations(c) \/ ReadsCoOccurrence(c) \/ ReadsLatest(c)
               \/ MissesOne(c)
    BY <2>4, ReadsSteps
  <2>5. CASE Begins(c) \/ UpsertsVehicle(c) \/ Stamps(c) \/ Commits(c) \/ ListsNext(c)
    BY <2>5, BeginsStep, UpsertsVehicleStep, StampsStep, CommitsStep, ListsNextStep
  <2>. QED BY <2>1, <2>2, <2>3, <2>4, <2>5 DEF Handler, Enqueues, MissesEnqueue
<1>. QED BY <1>1, <1>2

\* The inductive invariant of the shops' scans.
THEOREM Invariance == Spec => []Inv
<1>. QED BY InitInv, NextInv, PTL DEF Spec

\* TypeOK: the variables keep their types.
THEOREM TypeCorrect == Spec => []TypeOK
<1>1. Inv => TypeOK
  BY DEF Inv
<1>. QED BY <1>1, Invariance, PTL

\* ShopInv: an upload between its upsert and its commit is alone with its vehicle.
THEOREM ShopInvariant == Spec => []ShopInv
<1>1. Inv => ShopInv
  BY DEF Inv
<1>. QED BY <1>1, Invariance, PTL

\* OwnOrg: no part of an explanation or a list comes from another shop.
THEOREM AnswersKeepToOrg == Spec => []OwnOrg
<1>1. ASSUME Inv PROVE OwnOrg
  <2>. SUFFICES ASSUME NEW c \in Clients, orgOf[c] # AllOrgs, NEW s \in scans,
                       s.at \in ans[c].hist \cup ans[c].co \cup {ans[c].obs, ans[c].scan}
                                  \cup req[c].left
                PROVE  s.org = orgOf[c]
    BY DEF OwnOrg
  <2>1. s.at # NoScan
    BY <1>1 DEF Inv, TypeOK, Sessions
  <2>2. AtsOf(Visible(c, req[c].vin)) \subseteq AtsOf(Visible(c, NoVin))
    BY DEF AtsOf, Visible
  <2>3. s.at \in AtsOf(Visible(c, NoVin))
    BY <1>1, <2>1, <2>2, Own DEF AnswerOK
  <2>4. PICK t \in scans : t.at = s.at /\ t.org = orgOf[c]
    BY <2>3 DEF AtsOf, Visible
  <2>5. t = s
    BY <1>1, <2>4 DEF Inv, ShopInv
  <2>. QED BY <2>4, <2>5
<1>. QED BY <1>1, Invariance, PTL

\* CodesAreNewest: the trouble codes of an explanation are at least as new as the rest
\* of it.
THEOREM CodesAreNew == Spec => []CodesAreNewest
<1>1. Inv => CodesAreNewest
  BY DEF Inv, ShopInv, AnswerOK, CodesAreNewest
<1>. QED BY <1>1, Invariance, PTL

\* OwnScanIsSeen: a shop finds the scan it was told is stored.
THEOREM OwnScanSeen == Spec => []OwnScanIsSeen
<1>1. ASSUME Inv, NEW c \in Clients, At(c, "answer"), req[c].vin = mine[c].vin,
             mine[c].at # NoScan, ~ans[c].lost
      PROVE  mine[c].at <= ans[c].scan
  <2>1. \E s \in scans : s.vin = mine[c].vin
    BY <1>1, Own DEF MineOK, Stored
  <2>2. mine[c].vin # NoVin
    BY <1>1, <2>1 DEF Inv, TypeOK, Sessions
  <2>. QED BY <1>1, <2>2, Own DEF AnswerOK
<1>2. Inv => OwnScanIsSeen
  BY <1>1 DEF OwnScanIsSeen
<1>. QED BY <1>2, Invariance, PTL

\* CommitsInOrder: the scans of a vehicle become visible in the order of started_at.
THEOREM ScansInOrder == Spec => CommitsInOrder
<1>1. ASSUME Inv, [Next]_vars
      PROVE  \A s \in scans' \ scans : \A t \in scans : t.vin = s.vin => t.at < s.at
  <2>1. CASE \E c \in Clients : Commits(c)
    <3>1. PICK c \in Clients : Commits(c)
      BY <2>1
    <3>2. scans' = scans \cup {Uploaded(c)}
      BY <3>1 DEF Commits
    <3>3. \A t \in scans : t.vin = Uploaded(c).vin => t.at < Uploaded(c).at
      BY <1>1, <3>1, CommitAdds
    <3>. QED BY <3>2, <3>3
  <2>2. CASE ~ \E c \in Clients : Commits(c)
    <3>1. scans' = scans
      BY <1>1, <2>2 DEF Next, vars, Handler, Posts, Asks, Lists, Begins, UpsertsVehicle, Stamps,
           Enqueues, MissesEnqueue, Told, ReadsHistory, ReadsObservations, ReadsCoOccurrence, ReadsLatest, Reads,
           Answers, ListsNext, ListEnds, RollsBack, MissesOne, Fails
    <3>. QED BY <3>1
  <2>. QED BY <2>1, <2>2
<1>2. Inv /\ [Next]_vars =>
        [\A s \in scans' \ scans : \A t \in scans : t.vin = s.vin => t.at < s.at]_vars
  BY <1>1
<1>. QED BY <1>2, Invariance, PTL DEF Spec, CommitsInOrder
-----------------------------------------------------------------------------
(* Who waits for whom *)

\* A set of numbers has a smallest one.
LEMMA Smallest ==
  ASSUME NEW T \in SUBSET Nat, T # {}
  PROVE  \E x \in T : \A y \in T : x <= y
<1>. DEFINE Less == { p \in Nat \X Nat : p[1] < p[2] }
<1>1. IsWellFoundedOn(Less, Nat)
  BY NatLessThanWellFounded DEF OpToRel
<1>2. \E x \in T : \A y \in T : <<y, x>> \notin Less
  <2>. HIDE DEF Less
  <2>. QED BY <1>1, WFMin
<1>3. PICK x \in T : \A y \in T : <<y, x>> \notin Less
  BY <1>2
<1>4. \A y \in T : ~(y < x)
  BY <1>3
<1>. QED BY <1>4

\* A bounded set of times has a latest one.
LEMMA LatestTime ==
  ASSUME NEW A \in SUBSET Nat, A # {}, NEW n \in Nat, \A a \in A : a <= n
  PROVE  \E a \in A : \A b \in A : b <= a
<1>. DEFINE Before == { n - a : a \in A }
<1>1. Before \in SUBSET Nat /\ Before # {}
  <2>1. \A a \in A : a \in Nat /\ a <= n /\ n - a \in Nat
    OBVIOUS
  <2>2. PICK a : a \in A
    OBVIOUS
  <2>3. n - a \in Before
    BY <2>2
  <2>4. \A x \in Before : x \in Nat
    BY <2>1, Zenon
  <2>. QED BY <2>3, <2>4
<1>2. PICK x \in Before : \A y \in Before : x <= y
  <2>. HIDE DEF Before
  <2>. QED BY <1>1, Smallest
<1>3. PICK a \in A : x = n - a
  BY <1>2
<1>4. \A b \in A : n - a <= n - b
  BY <1>2, <1>3
<1>5. \A b \in A : b <= a
  BY <1>4
<1>. QED BY <1>5

\* ORDER BY started_at DESC LIMIT 1 returns a row if there is one: no time is later
\* than the clock.
LEMMA NewestIsThere ==
  ASSUME Inv, NEW S \in SUBSET scans
  PROVE  Newest(AtsOf(S)) # {}
<1>1. /\ clock \in Nat /\ AtsOf(S) \in SUBSET Nat
      /\ \A a \in AtsOf(S) : a <= clock
  BY DEF Inv, TypeOK, ShopInv, Sessions, AtsOf
<1>2. ASSUME NEW A \in SUBSET Nat, \A a \in A : a <= clock PROVE \E a : a \in Newest(A)
  <2>1. CASE A = {}
    <3>1. NoScan \in Newest(A)
      BY <2>1 DEF Newest
    <3>. QED BY <3>1
  <2>2. CASE A # {}
    <3>1. PICK a \in A : \A b \in A : b <= a
      BY <1>1, <1>2, <2>2, LatestTime
    <3>2. a \in Newest(A)
      BY <2>2, <3>1 DEF Newest
    <3>. QED BY <3>2
  <2>. QED BY <2>1, <2>2
<1>3. \E a : a \in Newest(AtsOf(S))
  BY <1>1, <1>2
<1>. QED BY <1>3

\* A step of one client, for the locks and the lists.
LEMMA WaitStep ==
  ASSUME Inv, WaitInv, NEW c \in Clients, NEW r \in Requests,
         req' = [req EXCEPT ![c] = r],
         \A v \in Vins : lock'[v] \in {lock[v], c, NoClient},
         \A v \in Vins : lock'[v] = c => r.pc \in {"stamp", "commit"}
  PROVE  WaitInv'
<1>1. req'[c] = r /\ \A d \in Clients : d # c => req'[d] = req[d]
  BY DEF Inv, TypeOK
<1>2. ASSUME NEW v \in Vins, lock'[v] # NoClient
      PROVE  req'[lock'[v]].pc \in {"stamp", "commit"}
  <2>1. CASE lock'[v] = c
    BY <1>1, <2>1
  <2>2. CASE lock'[v] = lock[v] /\ lock[v] # c
    <3>1. lock[v] \in Clients /\ req[lock[v]].pc \in {"stamp", "commit"}
      BY <1>2, <2>2 DEF Inv, TypeOK, WaitInv
    <3>. QED BY <1>1, <2>2, <3>1
  <2>. QED BY <1>2, <2>1, <2>2
<1>. QED BY <1>2 DEF WaitInv

\* Who is not in a transaction has no lock.
LEMMA NoLock ==
  ASSUME Inv, WaitInv, NEW c \in Clients, req[c].pc \notin {"stamp", "commit"}
  PROVE  \A v \in Vins : lock[v] # c
BY DEF WaitInv

\* A vehicle is locked only on the way from its upsert to the commit.
LEMMA NextWait == Inv /\ WaitInv /\ [Next]_vars => WaitInv'
<1>. SUFFICES ASSUME Inv, WaitInv, [Next]_vars PROVE WaitInv'
  OBVIOUS
<1>1. CASE UNCHANGED vars
  BY <1>1 DEF vars, WaitInv
<1>2. ASSUME NEW c \in Clients, NEW r \in Requests, req' = [req EXCEPT ![c] = r],
             UNCHANGED lock, req[c].pc \notin {"stamp", "commit"}
      PROVE  WaitInv'
  <2>1. \A v \in Vins : lock'[v] = lock[v] /\ lock[v] # c
    BY <1>2, NoLock
  <2>. QED BY <1>2, <2>1, WaitStep
<1>3. ASSUME NEW c \in Clients, Posts(c) \/ Asks(c) \/ Lists(c) PROVE WaitInv'
  <2>1. CASE Posts(c)
    <3>1. PICK v \in Vins, codes \in SUBSET Codes, obs \in BOOLEAN :
            req' = [req EXCEPT ![c] = Request("begin", v, {}, codes, obs, {})]
      BY <2>1, Zenon DEF Posts
    <3>. DEFINE r == Request("begin", v, {}, codes, obs, {})
    <3>2. r \in Requests /\ r.pc = "begin"
      BY DEF Request, Requests
    <3>. HIDE DEF r
    <3>3. req' = [req EXCEPT ![c] = r] /\ UNCHANGED lock /\ req[c].pc = "idle"
      BY <2>1, <3>1 DEF r, Posts, At
    <3>. QED BY <1>2, <3>2, <3>3
  <2>2. CASE Asks(c)
    <3>1. PICK v \in Vins \cup {NoVin}, code \in Codes :
            req' = [req EXCEPT ![c] = Request("history", v, {code}, {}, FALSE, {})]
      BY <2>2, Zenon DEF Asks
    <3>. DEFINE r == Request("history", v, {code}, {}, FALSE, {})
    <3>2. r \in Requests /\ r.pc = "history"
      BY DEF Request, Requests
    <3>. HIDE DEF r
    <3>3. req' = [req EXCEPT ![c] = r] /\ UNCHANGED lock /\ req[c].pc = "idle"
      BY <2>2, <3>1 DEF r, Asks, At
    <3>. QED BY <1>2, <3>2, <3>3
  <2>3. CASE Lists(c)
    <3>1. PICK v \in Vins :
            req' = [req EXCEPT ![c] =
              Request("rows", v, {}, {}, FALSE, NewestOf(AtsOf(Visible(c, v)), Limit))]
      BY <2>3 DEF Lists
    <3>. DEFINE L == NewestOf(AtsOf(Visible(c, v)), Limit)
                r == Request("rows", v, {}, {}, FALSE, L)
    <3>2. L \in SUBSET Ats
      BY QueriedAts DEF Visible, Inv
    <3>. HIDE DEF L
    <3>3. r \in Requests /\ r.pc = "rows"
      BY <3>2 DEF Request, Requests
    <3>4. req' = [req EXCEPT ![c] = r]
      BY <3>1 DEF L
    <3>. HIDE DEF r
    <3>5. UNCHANGED lock /\ req[c].pc = "idle"
      BY <2>3 DEF Lists, At
    <3>. QED BY <1>2, <3>3, <3>4, <3>5
  <2>. QED BY <1>3, <2>1, <2>2, <2>3
<1>4. ASSUME NEW c \in Clients, NEW pc \in PCs \ {"rows"}, req' = [req EXCEPT ![c].pc = pc],
             UNCHANGED lock, req[c].pc \notin {"stamp", "commit"}
      PROVE  WaitInv'
  <2>. DEFINE r == [req[c] EXCEPT !.pc = pc]
  <2>1. r \in Requests /\ r.pc = pc
    BY Own, PcMoves
  <2>2. req' = [req EXCEPT ![c] = r]
    BY <1>4
  <2>. HIDE DEF r
  <2>. QED BY <1>2, <1>4, <2>1, <2>2
<1>5. ASSUME NEW c \in Clients,
             \/ Begins(c) \/ ReadsHistory(c) \/ ReadsObservations(c) \/ ReadsCoOccurrence(c)
             \/ ReadsLatest(c) \/ MissesOne(c)
      PROVE  WaitInv'
  <2>0. "vehicle" \in PCs \ {"rows"}
    BY DEF PCs
  <2>1. PICK pc \in PCs \ {"rows"} : req' = [req EXCEPT ![c].pc = pc]
    <3>1. CASE Begins(c)
      BY <2>0, <3>1 DEF Begins
    <3>2. CASE ~Begins(c)
      <4>1. /\ req' = [req EXCEPT ![c].pc = Then(c)]
            /\ req[c].pc \in {"history", "observations", "cooccur", "latest"}
        BY <1>5, <3>2 DEF ReadsHistory, ReadsObservations, ReadsCoOccurrence, ReadsLatest,
           Reads, MissesOne, At
      <4>2. Then(c) \in PCs \ {"rows"}
        BY <4>1, ThenWhat DEF PCs
      <4>. QED BY <4>1, <4>2
    <3>. QED BY <3>1, <3>2
  <2>2. UNCHANGED lock /\ req[c].pc \notin {"stamp", "commit"}
    BY <1>5 DEF Begins, ReadsHistory, ReadsObservations, ReadsCoOccurrence, ReadsLatest,
       Reads, MissesOne, At
  <2>. QED BY <1>4, <2>1, <2>2
<1>6. ASSUME NEW c \in Clients, UpsertsVehicle(c) PROVE WaitInv'
  <2>. DEFINE r == [req[c] EXCEPT !.pc = "stamp"]
  <2>1. r \in Requests /\ r.pc = "stamp"
    <3>1. req[c] \in Requests /\ "stamp" \in PCs
      BY Own DEF PCs
    <3>. QED BY <3>1, PcMoves
  <2>2. req' = [req EXCEPT ![c] = r] /\ lock' = [lock EXCEPT ![req[c].vin] = c]
    BY <1>6 DEF UpsertsVehicle
  <2>3. \A v \in Vins : lock'[v] \in {lock[v], c, NoClient}
    BY <2>2, Own
  <2>. HIDE DEF r
  <2>. QED BY <2>1, <2>2, <2>3, WaitStep
<1>7. ASSUME NEW c \in Clients, Stamps(c) PROVE WaitInv'
  <2>. DEFINE r == [req[c] EXCEPT !.pc = "commit", !.at = clock + 1]
  <2>1. clock + 1 \in Ats /\ req[c] \in Requests
    BY DEF Inv, TypeOK
  <2>2. /\ r \in Requests /\ r.pc = "commit" /\ r.vin = req[c].vin /\ r.at = clock + 1
        /\ r.left = req[c].left
    BY <2>1, AtMoves
  <2>3. req' = [req EXCEPT ![c] = r] /\ UNCHANGED lock
    BY <1>7 DEF Stamps
  <2>. HIDE DEF r
  <2>. QED BY <2>2, <2>3, WaitStep
<1>8. ASSUME NEW c \in Clients, Commits(c) \/ RollsBack(c) PROVE WaitInv'
  <2>1. PICK r \in Requests : req' = [req EXCEPT ![c] = r] /\ r.pc \in {"enqueue", "idle"}
    <3>. DEFINE e == [req[c] EXCEPT !.pc = "enqueue"]
    <3>1. e \in Requests /\ e.pc = "enqueue"
      <4>1. req[c] \in Requests /\ "enqueue" \in PCs
        BY Own DEF PCs
      <4>. QED BY <4>1, PcMoves
    <3>2. req' = [req EXCEPT ![c] = e] \/ req' = [req EXCEPT ![c] = Idle]
      BY <1>8 DEF Commits, RollsBack
    <3>. HIDE DEF e
    <3>. QED BY <3>1, <3>2, NoRequest
  <2>2. lock' = Unlocked(c)
    BY <1>8 DEF Commits, RollsBack
  <2>3. c # NoClient
    OBVIOUS
  <2>4. \A v \in Vins : lock'[v] \in {lock[v], c, NoClient} /\ lock'[v] # c
    BY <2>2, <2>3 DEF Unlocked
  <2>. QED BY <2>1, <2>4, WaitStep
<1>9. ASSUME NEW c \in Clients, Told(c) \/ Answers(c) \/ ListEnds(c) \/ Fails(c)
      PROVE  WaitInv'
  <2>1. req' = [req EXCEPT ![c] = Idle] /\ UNCHANGED lock
    BY <1>9 DEF Told, Answers, ListEnds, Fails
  <2>2. req[c].pc \notin {"stamp", "commit"}
    BY <1>9 DEF Told, Answers, ListEnds, Fails, At
  <2>. QED BY <1>2, <2>1, <2>2, NoRequest
<1>10. ASSUME NEW c \in Clients, ListsNext(c) PROVE WaitInv'
  <2>. DEFINE r == [req[c] EXCEPT !.left = req[c].left \ Newest(req[c].left)]
  <2>1. req[c].left \ Newest(req[c].left) \in SUBSET Ats
    BY Own DEF Requests
  <2>2. r \in Requests /\ r.pc = req[c].pc
    BY <2>1, Own, LeftMoves
  <2>3. req' = [req EXCEPT ![c] = r] /\ UNCHANGED lock /\ req[c].pc = "rows"
    BY <1>10 DEF ListsNext, At
  <2>. HIDE DEF r
  <2>. QED BY <1>2, <2>2, <2>3
<1>. QED BY <1>1, <1>3, <1>5, <1>6, <1>7, <1>8, <1>9, <1>10
         DEF Next, Handler, Enqueues, MissesEnqueue

\* Before the first request there is nothing to wait for.
LEMMA InitWait == Init => WaitInv
<1>. SUFFICES ASSUME Init PROVE WaitInv
  OBVIOUS
<1>1. \A v \in Vins : lock[v] = NoClient
  BY DEF Init
<1>. QED BY <1>1 DEF WaitInv

\* With no transaction under way, and no list that has read its last row, a
\* connection is free unless lists keep all of them.
LEMMA ConnIsFree ==
  ASSUME \A c \in Clients : ~InTx(c), \A c \in Clients : At(c, "rows") => req[c].left # {}
  PROVE  HasConn \/ Cardinality(WaitingLists) >= Conns
<1>1. { c \in Clients : Holds(c) } = WaitingLists
  BY DEF Holds, WaitingLists
<1>2. Cardinality(WaitingLists) \in Nat
  <2>1. WaitingLists \subseteq Clients /\ IsFiniteSet(Clients)
    BY ClientsAssumption DEF WaitingLists
  <2>2. IsFiniteSet(WaitingLists)
    BY <2>1, FS_Subset
  <2>. QED BY <2>2, FS_CardinalityType
<1>3. HasConn <=> Cardinality(WaitingLists) < Conns
  <2>1. HasConn <=> Cardinality({ c \in Clients : Holds(c) }) < Conns
    BY DEF HasConn
  <2>. QED BY <1>1, <2>1, Zenon
<1>. QED BY <1>2, <1>3

\* An upload that waits for the lock of a vehicle waits for another one that has all
\* it needs, and a request that waits for a connection finds one when no transaction
\* is under way, unless lists have all of them.
THEOREM NobodyElseStarves == Spec => []OnlyListsStarve
<1>1. ASSUME Inv, WaitInv, NEW c \in Clients, ~At(c, "idle"),
             ~(Cardinality(WaitingLists) >= Conns)
      PROVE  \E d \in Clients : CanGo(d)
  <2>1. CASE \E d \in Clients : req[d].pc \in {"stamp", "commit"}
    BY <2>1 DEF CanGo
  <2>2. CASE /\ \A d \in Clients : req[d].pc \notin {"stamp", "commit"}
             /\ \E d \in Clients : At(d, "vehicle")
    <3>1. PICK d \in Clients : At(d, "vehicle")
      BY <2>2
    <3>2. req[d].vin \in Vins
      BY <1>1, <3>1, Own DEF UploadOK, At
    <3>3. lock[req[d].vin] = NoClient
      BY <1>1, <2>2, <3>2 DEF WaitInv, Inv, TypeOK
    <3>. QED BY <3>1, <3>3 DEF CanGo
  <2>3. CASE \E d \in Clients : At(d, "rows") /\ req[d].left = {}
    BY <2>3 DEF CanGo
  <2>4. CASE /\ \A d \in Clients : req[d].pc \notin {"vehicle", "stamp", "commit"}
             /\ \A d \in Clients : At(d, "rows") => req[d].left # {}
    <3>1. HasConn
      BY <1>1, <2>4, ConnIsFree DEF InTx
    <3>2. /\ Visible(c, req[c].vin) \in SUBSET scans
          /\ { s \in Visible(c, req[c].vin) : s.obs } \in SUBSET scans
      BY DEF Visible
    <3>3. /\ Newest(AtsOf(Visible(c, req[c].vin))) # {}
          /\ Newest(AtsOf({ s \in Visible(c, req[c].vin) : s.obs })) # {}
      BY <1>1, <3>2, NewestIsThere
    <3>4. req[c].pc \in PCs /\ req[c].pc # "idle"
      BY <1>1, Own DEF Requests, PCs, At
    <3>5. CanGo(c)
      BY <2>4, <3>1, <3>3, <3>4 DEF CanGo, At, PCs
    <3>. QED BY <3>5
  <2>. QED BY <2>1, <2>2, <2>3, <2>4 DEF At
<1>2. Inv /\ WaitInv => OnlyListsStarve
  BY <1>1 DEF OnlyListsStarve
<1>3. Spec => []WaitInv
  BY InitWait, NextWait, Invariance, PTL DEF Spec
<1>. QED BY <1>2, <1>3, Invariance, PTL
-----------------------------------------------------------------------------
(* What a handler can do next, as a set of states: ENABLED without ENABLED *)

\* The state after a step of a handler; no handler changes a token or the count of uploads.
After(s, l, k, r, a, m) == <<orgOf, s, l, k, posted, r, a, m>>

\* The requests once that of c is at pc, or over; and the state once it has read what is found.
Moved(c, pc)   == [req EXCEPT ![c].pc = pc]
Over(c)        == [req EXCEPT ![c] = Idle]
ReadTo(c, found) ==
  After(scans, lock, clock, Moved(c, Then(c)), [ans EXCEPT ![c] = found], mine)

\* The next states of an upload, of an explanation and of a list.
UploadTo(c) ==
  { s \in {After(scans, lock, clock, Moved(c, "vehicle"), ans, mine)} :
      At(c, "begin") /\ HasConn }
  \cup
  { s \in {After(scans, [lock EXCEPT ![req[c].vin] = c], clock, Moved(c, "stamp"), ans, mine)} :
      At(c, "vehicle") /\ lock[req[c].vin] = NoClient }
  \cup
  { s \in {After(scans, lock, clock + 1,
                 [req EXCEPT ![c].pc = "commit", ![c].at = clock + 1], ans, mine)} :
      At(c, "stamp") }
  \cup
  { s \in {After(scans \cup {Uploaded(c)}, Unlocked(c), clock, r, ans, mine) :
             r \in {Moved(c, "enqueue"), Over(c)}} :
      At(c, "commit") }
  \cup
  { s \in {After(scans, lock, clock, Over(c), ans,
                 [mine EXCEPT ![c] = [vin |-> req[c].vin, at |-> req[c].at]])} :
      At(c, "enqueue") /\ HasConn }

ExplanationTo(c) ==
  { s \in {ReadTo(c, [ans[c] EXCEPT !.hist = NewestOf(AtsOf(Hits(c)), Limit)])} :
      At(c, "history") /\ HasConn }
  \cup
  { s \in {ReadTo(c, [ans[c] EXCEPT !.obs = a]) :
             a \in Newest(AtsOf({ t \in Visible(c, req[c].vin) : t.obs }))} :
      At(c, "observations") /\ HasConn }
  \cup
  { s \in {ReadTo(c, [ans[c] EXCEPT !.co =
             AtsOf({ t \in Visible(c, NoVin) : req[c].code \subseteq t.codes })])} :
      At(c, "cooccur") /\ HasConn }
  \cup
  { s \in {ReadTo(c, [ans[c] EXCEPT !.scan = a]) : a \in Newest(AtsOf(Visible(c, req[c].vin)))} :
      At(c, "latest") /\ HasConn }
  \cup
  { s \in {After(scans, lock, clock, Over(c), [ans EXCEPT ![c] = Nothing], mine)} :
      At(c, "answer") }

ListTo(c) ==
  { s \in {After(scans, lock, clock, [req EXCEPT ![c].left = @ \ Newest(@)], ans, mine)} :
      At(c, "rows") /\ req[c].left # {} /\ HasConn }
  \cup
  { s \in {After(scans, lock, clock, Over(c), ans, mine)} : At(c, "rows") /\ req[c].left = {} }

HandlerTo(c) == UploadTo(c) \cup ExplanationTo(c) \cup ListTo(c)

\* The uploads' steps are to those states.
LEMMA UploadSteps ==
  ASSUME NEW c
  PROVE  Begins(c) \/ UpsertsVehicle(c) \/ Stamps(c) \/ Commits(c) \/ Enqueues(c)
           <=> vars' \in UploadTo(c)
<1>1. Begins(c) <=>
        vars' \in { s \in {After(scans, lock, clock, Moved(c, "vehicle"), ans, mine)} :
                      At(c, "begin") /\ HasConn }
  BY DEF Begins, After, Moved, vars
<1>2. UpsertsVehicle(c) <=>
        vars' \in { s \in {After(scans, [lock EXCEPT ![req[c].vin] = c], clock,
                                 Moved(c, "stamp"), ans, mine)} :
                      At(c, "vehicle") /\ lock[req[c].vin] = NoClient }
  BY DEF UpsertsVehicle, After, Moved, vars
<1>3. Stamps(c) <=>
        vars' \in { s \in {After(scans, lock, clock + 1,
                                 [req EXCEPT ![c].pc = "commit", ![c].at = clock + 1],
                                 ans, mine)} : At(c, "stamp") }
  BY DEF Stamps, After, vars
<1>4. Commits(c) <=>
        vars' \in { s \in {After(scans \cup {Uploaded(c)}, Unlocked(c), clock, r, ans, mine) :
                             r \in {Moved(c, "enqueue"), Over(c)}} : At(c, "commit") }
  BY DEF Commits, After, Moved, Over, vars
<1>5. Enqueues(c) <=>
        vars' \in { s \in {After(scans, lock, clock, Over(c), ans,
                                 [mine EXCEPT ![c] = [vin |-> req[c].vin, at |-> req[c].at]])} :
                      At(c, "enqueue") /\ HasConn }
  BY DEF Enqueues, Told, After, Over, vars
<1>. QED BY <1>1, <1>2, <1>3, <1>4, <1>5, Zenon DEF UploadTo

\* A statement of an explanation leads to one of them.
LEMMA ReadSteps ==
  ASSUME NEW c, NEW pc, NEW found
  PROVE  Reads(c, pc, found) <=> At(c, pc) /\ HasConn /\ vars' = ReadTo(c, found)
BY DEF Reads, ReadTo, After, Moved, vars

\* The explanations' steps are to those states.
LEMMA ExplanationSteps ==
  ASSUME NEW c
  PROVE  ReadsHistory(c) \/ ReadsObservations(c) \/ ReadsCoOccurrence(c) \/ ReadsLatest(c)
           \/ Answers(c) <=> vars' \in ExplanationTo(c)
<1>1. ReadsHistory(c) <=>
        vars' \in { s \in {ReadTo(c, [ans[c] EXCEPT !.hist = NewestOf(AtsOf(Hits(c)), Limit)])} :
                      At(c, "history") /\ HasConn }
  BY ReadSteps, Zenon DEF ReadsHistory
<1>2. ReadsObservations(c) <=>
        vars' \in { s \in {ReadTo(c, [ans[c] EXCEPT !.obs = a]) :
                             a \in Newest(AtsOf({ t \in Visible(c, req[c].vin) : t.obs }))} :
                      At(c, "observations") /\ HasConn }
  BY ReadSteps, Zenon DEF ReadsObservations
<1>3. ReadsCoOccurrence(c) <=>
        vars' \in { s \in {ReadTo(c, [ans[c] EXCEPT !.co = AtsOf(
                             { t \in Visible(c, NoVin) : req[c].code \subseteq t.codes })])} :
                      At(c, "cooccur") /\ HasConn }
  BY ReadSteps, Zenon DEF ReadsCoOccurrence
<1>4. ReadsLatest(c) <=>
        vars' \in { s \in {ReadTo(c, [ans[c] EXCEPT !.scan = a]) :
                             a \in Newest(AtsOf(Visible(c, req[c].vin)))} :
                      At(c, "latest") /\ HasConn }
  BY ReadSteps, Zenon DEF ReadsLatest
<1>5. Answers(c) <=>
        vars' \in { s \in {After(scans, lock, clock, Over(c), [ans EXCEPT ![c] = Nothing],
                                 mine)} : At(c, "answer") }
  BY DEF Answers, After, Over, vars
<1>. QED BY <1>1, <1>2, <1>3, <1>4, <1>5, Zenon DEF ExplanationTo

\* The lists' steps are to those states.
LEMMA ListSteps ==
  ASSUME NEW c
  PROVE  ListsNext(c) \/ ListEnds(c) <=> vars' \in ListTo(c)
<1>1. ListsNext(c) <=>
        vars' \in { s \in {After(scans, lock, clock, [req EXCEPT ![c].left = @ \ Newest(@)],
                                 ans, mine)} :
                      At(c, "rows") /\ req[c].left # {} /\ HasConn }
  BY DEF ListsNext, After, vars
<1>2. ListEnds(c) <=>
        vars' \in { s \in {After(scans, lock, clock, Over(c), ans, mine)} :
                      At(c, "rows") /\ req[c].left = {} }
  BY DEF ListEnds, After, Over, vars
<1>. QED BY <1>1, <1>2, Zenon DEF ListTo

\* A handler's steps are those to the states of HandlerTo, and there are such states just when
\* CanGo says so (the guards of the handlers).
THEOREM CanGoIsEnough ==
  ASSUME NEW c
  PROVE  /\ Handler(c) <=> vars' \in HandlerTo(c)
         /\ CanGo(c) <=> HandlerTo(c) # {}
<1>1. Handler(c) <=> vars' \in HandlerTo(c)
  BY UploadSteps, ExplanationSteps, ListSteps, Zenon DEF Handler, HandlerTo
<1>2. UploadTo(c) # {} <=>
        \/ req[c].pc \in {"stamp", "commit"}
        \/ At(c, "vehicle") /\ lock[req[c].vin] = NoClient
        \/ HasConn /\ req[c].pc \in {"begin", "enqueue"}
  BY DEF UploadTo, At
<1>3. ExplanationTo(c) # {} <=>
        \/ At(c, "answer")
        \/ /\ HasConn
           /\ \/ req[c].pc \in {"history", "cooccur"}
              \/ /\ At(c, "observations")
                 /\ Newest(AtsOf({ s \in Visible(c, req[c].vin) : s.obs })) # {}
              \/ At(c, "latest") /\ Newest(AtsOf(Visible(c, req[c].vin))) # {}
  <2>. DEFINE Observed == Newest(AtsOf({ s \in Visible(c, req[c].vin) : s.obs }))
              Latest   == Newest(AtsOf(Visible(c, req[c].vin)))
              WithObs  == { ReadTo(c, [ans[c] EXCEPT !.obs = a]) : a \in Observed }
              WithScan == { ReadTo(c, [ans[c] EXCEPT !.scan = a]) : a \in Latest }
  <2>1. (WithObs # {} <=> Observed # {}) /\ (WithScan # {} <=> Latest # {})
    BY Zenon
  <2>2. \A pc, S : { s \in S : At(c, pc) /\ HasConn } # {} <=> At(c, pc) /\ HasConn /\ S # {}
    BY Zenon
  <2>3. { s \in WithObs : At(c, "observations") /\ HasConn } # {}
          <=> At(c, "observations") /\ HasConn /\ Observed # {}
    BY <2>1, <2>2, Zenon
  <2>4. { s \in WithScan : At(c, "latest") /\ HasConn } # {}
          <=> At(c, "latest") /\ HasConn /\ Latest # {}
    BY <2>1, <2>2, Zenon
  <2>5. \A x : { s \in {x} : At(c, "answer") } # {} <=> At(c, "answer")
    OBVIOUS
  <2>6. \A pc, x : { s \in {x} : At(c, pc) /\ HasConn } # {} <=> At(c, pc) /\ HasConn
    OBVIOUS
  <2>7. ExplanationTo(c) # {} <=>
           \/ At(c, "history") /\ HasConn
           \/ At(c, "observations") /\ HasConn /\ Observed # {}
           \/ At(c, "cooccur") /\ HasConn
           \/ At(c, "latest") /\ HasConn /\ Latest # {}
           \/ At(c, "answer")
    BY <2>3, <2>4, <2>5, <2>6, ZenonT(60) DEF ExplanationTo
  <2>. QED BY <2>7, Zenon DEF At
<1>4. ListTo(c) # {} <=>
        \/ At(c, "rows") /\ req[c].left = {}
        \/ HasConn /\ At(c, "rows") /\ req[c].left # {}
  BY DEF ListTo
<1>5. CanGo(c) <=> HandlerTo(c) # {}
  BY <1>2, <1>3, <1>4 DEF CanGo, HandlerTo, At
<1>. QED BY <1>1, <1>5

\* While a request is under way and the lists leave a connection, the handler of one
\* has a step to take.
THEOREM HandlersGoOn ==
  Spec => []((\E c \in Clients : ~At(c, "idle")) =>
               \/ \E c \in Clients : HandlerTo(c) # {}
               \/ Cardinality(WaitingLists) >= Conns)
<1>1. OnlyListsStarve => ((\E c \in Clients : ~At(c, "idle")) =>
                            \/ \E c \in Clients : HandlerTo(c) # {}
                            \/ Cardinality(WaitingLists) >= Conns)
  BY CanGoIsEnough DEF OnlyListsStarve
<1>. QED BY <1>1, NobodyElseStarves, PTL
=============================================================================
