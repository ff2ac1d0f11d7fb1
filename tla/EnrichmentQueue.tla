-------------------------- MODULE EnrichmentQueue --------------------------
(***************************************************************************)
(* The enrichment_jobs table and the processes that work on it: every API  *)
(* server runs one worker (internal/enrichment/worker.go) and seeds the    *)
(* queue when it starts, and an operator may run enrichctl --drain beside  *)
(* them.  They share nothing but the database (internal/store/             *)
(* enrichment.go): each statement there is one step here.                  *)
(*                                                                         *)
(* Time is one bit per row, "due" (run_after has passed), and "aged": the  *)
(* rows up to it were created more than 24 hours ago.  All cars are of one *)
(* make, model and year, so recall_catalog is one set of campaigns.        *)
(***************************************************************************)
EXTENDS Integers, FiniteSets

CONSTANTS
  Servers,      \* API processes
  Drainers,     \* enrichctl processes
  Cars,         \* vehicles
  Campaigns,    \* recall campaigns the NHTSA may know for them
  SeedRows,     \* recall jobs of one catalog seed
  MaxAttempts,  \* 5 in the code
  TickJobs,     \* jobs a worker takes per tick: 5 in the code
  MaxRows,      \* bound: rows of the table
  MaxAged,      \* bound: rows that grow older than a day
  MaxFaults     \* bound: processes stopped, statements lost

ASSUME QueueAssumption ==
  /\ Servers \cap Drainers = {}
  /\ IsFiniteSet(Servers)
  /\ SeedRows \in Nat
  /\ MaxAttempts \in Nat \ {0}
  /\ TickJobs \in Nat \ {0}
  /\ MaxRows \in Nat
  /\ MaxAged \in Nat
  /\ MaxFaults \in Nat

Procs == Servers \cup Drainers
Jobs  == 1..MaxRows
NoJob == 0
NoCar == "no car"

VARIABLES
  rows,      \* enrichment_jobs
  inserted,  \* rows inserted so far
  hand,      \* what each process is doing, with the job it claimed
  boot,      \* where main() of each server is: "off", "check", "insert", "up"
  enabled,   \* the setting enrichment_enabled
  aged,      \* rows 1..aged were created more than 24 hours ago
  inScope,   \* cars that market.InMarketScope accepted at some decode
  known,     \* cars whose vehicles row has the decoded identity
  enriched,  \* cars with a vehicle_enrichment row
  catalog,   \* recall_catalog
  attached,  \* vehicle_recalls, per car
  faults

queueVars == <<rows, inserted>>
carVars   == <<known, enriched, catalog, attached>>
envVars   == <<enabled, aged>>
vars      == <<queueVars, hand, boot, envVars, inScope, carVars, faults>>

NoRow ==
  [ kind |-> "none", car |-> NoCar, forced |-> FALSE, status |-> "none",
    attempts |-> 0, due |-> FALSE ]

Off     == [pc |-> "off", job |-> NoJob, left |-> 0, n |-> 0, todo |-> {}]
Resting == [Off EXCEPT !.pc = "rest"]

\* The stages of Worker.Process whose error makes the job fail, and all stages.
Fallible == {"decode", "identity", "enrich", "attach", "fetch", "upsert", "seed"}
Stages   == Fallible \cup {"follow", "attachFetched", "wait", "ok", "err"}

VinStages == {"decode", "identity", "enrich", "attach", "follow"}

Working(p) == hand[p].pc \in Stages
Holding(p) == Working(p) \/ hand[p].pc = "locked"

\* The rows are those inserted from now on.  Settled ones of earlier days have left
\* nothing but the catalog: no car here was decoded before.
Init ==
  /\ rows = [j \in Jobs |-> NoRow]
  /\ inserted = 0
  /\ hand = [p \in Procs |-> Off]
  /\ boot = [s \in Servers |-> "off"]
  /\ enabled = TRUE
  /\ aged = 0
  /\ inScope = {}
  /\ known = {} /\ enriched = {}
  /\ catalog \in SUBSET Campaigns
  /\ attached = [v \in Cars |-> {}]
  /\ faults = 0
-----------------------------------------------------------------------------
(* The statements *)

NewRow(kind, car, forced, due) ==
  [ NoRow EXCEPT !.kind = kind, !.car = car, !.forced = forced,
                 !.status = "pending", !.due = due ]

\* EnqueueEnrichmentJob.
Insert(kind, car, forced, due) ==
  /\ inserted < MaxRows
  /\ inserted' = inserted + 1
  /\ rows' = [rows EXCEPT ![inserted + 1] = NewRow(kind, car, forced, due)]

\* Mutant of HasRecentSeed: a seed that is running or done does not count.
HasPendingSeed ==
  \E j \in Jobs : j > aged /\ rows[j].kind = "seed_catalog" /\ rows[j].status = "pending"

\* HasRecentJob, with its 24 hours: a seed of yesterday does not count.
HasRecentSeed ==
  \E j \in Jobs : /\ j > aged
                 /\ rows[j].kind = "seed_catalog"
                 /\ rows[j].status \in {"pending", "running", "done"}

\* Mutant of Claimable: no FOR UPDATE.
ClaimableUnlocked == { j \in Jobs : rows[j].status = "pending" /\ rows[j].due }

\* The rows the SELECT of ClaimEnrichmentJob can return: ORDER BY run_after picks
\* one that is due, SKIP LOCKED passes over the rows of other claims in progress.
Claimable ==
  { j \in Jobs : /\ rows[j].status = "pending" /\ rows[j].due
                 /\ \A p \in Procs : hand[p].pc = "locked" => hand[p].job # j }

\* Its UPDATE.
Claimed(row) == [row EXCEPT !.status = "running", !.attempts = @ + 1]

Completed(row) == [row EXCEPT !.status = "done"]

\* Mutant of Retried: one attempt more.
RetriedOnceMore(row) ==
  [ row EXCEPT !.status = IF row.attempts > MaxAttempts THEN "failed" ELSE "pending",
               !.due = FALSE ]

\* FailEnrichmentJob, with retryAt in the future.
Retried(row) ==
  [ row EXCEPT !.status = IF row.attempts >= MaxAttempts THEN "failed" ELSE "pending",
               !.due = FALSE ]

\* run_after passes.
BecomesDue(j) ==
  /\ rows[j].status = "pending"
  /\ ~rows[j].due
  /\ rows' = [rows EXCEPT ![j].due = TRUE]
  /\ UNCHANGED <<inserted, hand, boot, envVars, inScope, carVars, faults>>

\* Time goes on: some more of the rows are a day old.
GrowsOld ==
  /\ \E n \in 1..inserted : aged < n /\ n <= MaxAged /\ aged' = n
  /\ UNCHANGED <<queueVars, hand, boot, enabled, inScope, carVars, faults>>
-----------------------------------------------------------------------------
(* cmd/api/main.go *)

\* The worker goroutine starts, then main() goes on to EnqueueSeed.
ServerStarts(s) ==
  /\ boot[s] = "off"
  /\ boot' = [boot EXCEPT ![s] = "check"]
  /\ hand' = [hand EXCEPT ![s] = Resting]
  /\ UNCHANGED <<queueVars, envVars, inScope, carVars, faults>>

\* EnqueueSeed asks first ...
SeedCheck(s) ==
  /\ boot[s] = "check"
  /\ boot' = [boot EXCEPT ![s] = IF HasRecentSeed THEN "up" ELSE "insert"]
  /\ UNCHANGED <<queueVars, hand, envVars, inScope, carVars, faults>>

\* ... and inserts in a statement of its own.  main() logs an error and goes on.
SeedInsert(s) ==
  /\ boot[s] = "insert"
  /\ \/ Insert("seed_catalog", NoCar, FALSE, TRUE)
     \/ UNCHANGED queueVars
  /\ boot' = [boot EXCEPT ![s] = "up"]
  /\ UNCHANGED <<hand, envVars, inScope, carVars, faults>>

\* POST /v1/scans: after the scan is stored, EnqueueVINDecode for its vehicle.
CreateScan(s, v) ==
  /\ boot[s] = "up"
  /\ Insert("vin_decode", v, FALSE, TRUE)
  /\ UNCHANGED <<hand, boot, envVars, inScope, carVars, faults>>

\* POST /v1/admin/enrichment/seed, or enrichctl --seed: a seed nobody checks.
ForceSeed ==
  /\ Insert("seed_catalog", NoCar, TRUE, TRUE)
  /\ UNCHANGED <<hand, boot, envVars, inScope, carVars, faults>>

\* PATCH /v1/admin/settings of enrichment_enabled.
PatchSetting ==
  /\ enabled' = ~enabled
  /\ UNCHANGED <<queueVars, hand, boot, aged, inScope, carVars, faults>>
-----------------------------------------------------------------------------
(* The claim loops: Worker.tick and the drain of enrichctl *)

\* The setting is read once per tick.
TickStarts(s) ==
  /\ hand[s].pc = "rest"
  /\ enabled
  /\ hand' = [hand EXCEPT ![s] = [Off EXCEPT !.pc = "claim", !.left = TickJobs]]
  /\ UNCHANGED <<queueVars, boot, envVars, inScope, carVars, faults>>

\* The error of that read is dropped, and what is not "false" is on.
TickStartsUnread(s) ==
  /\ hand[s].pc = "rest"
  /\ faults < MaxFaults
  /\ faults' = faults + 1
  /\ hand' = [hand EXCEPT ![s] = [Off EXCEPT !.pc = "claim", !.left = TickJobs]]
  /\ UNCHANGED <<queueVars, boot, envVars, inScope, carVars>>

\* enrichctl --drain, with or without --seed; it does not read the setting.
DrainStarts(d, seed) ==
  /\ hand[d].pc = "off"
  /\ IF seed THEN Insert("seed_catalog", NoCar, TRUE, TRUE) ELSE UNCHANGED queueVars
  /\ hand' = [hand EXCEPT ![d] = [Off EXCEPT !.pc = "claim"]]
  /\ UNCHANGED <<boot, envVars, inScope, carVars, faults>>

\* Mutant of LoopOver: the worker returns with its tick.
LoopOverStops(p) == Off

\* What a process does when its loop ends, and after a job.
LoopOver(p) == IF p \in Servers THEN Resting ELSE Off
AfterJob(p) ==
  IF p \in Servers
  THEN IF hand[p].left > 0 THEN [Off EXCEPT !.pc = "claim", !.left = hand[p].left]
                           ELSE Resting
  ELSE [Off EXCEPT !.pc = "claim"]

\* ClaimEnrichmentJob up to its SELECT ... FOR UPDATE.
ClaimLocks(p) ==
  /\ hand[p].pc = "claim"
  /\ \E j \in Claimable :
       hand' = [hand EXCEPT ![p] =
         [Off EXCEPT !.pc = "locked", !.job = j,
                     !.left = IF p \in Servers THEN hand[p].left - 1 ELSE 0]]
  /\ UNCHANGED <<queueVars, boot, envVars, inScope, carVars, faults>>

\* No row to claim: the tick is over; the drain prints "queue empty" and ends.
ClaimsNothing(p) ==
  /\ hand[p].pc = "claim"
  /\ Claimable = {}
  /\ hand' = [hand EXCEPT ![p] = LoopOver(p)]
  /\ UNCHANGED <<queueVars, boot, envVars, inScope, carVars, faults>>

\* Process dispatches on the kind of the claimed job.
FirstStage(kind) ==
  CASE kind = "vin_decode" -> "decode"
    [] kind = "recalls_mmy" -> "fetch"
    [] kind = "seed_catalog" -> "seed"

\* The UPDATE and the commit.
ClaimCommits(p) ==
  LET j == hand[p].job IN
    /\ hand[p].pc = "locked"
    /\ rows' = [rows EXCEPT ![j] = Claimed(@)]
    /\ hand' = [hand EXCEPT ![p].pc = FirstStage(rows[j].kind)]
    /\ UNCHANGED <<inserted, boot, envVars, inScope, carVars, faults>>

\* An error of the claim ends the tick, and the drain (log.Fatal).  An error of
\* the commit does not say whether it landed.
ClaimFails(p) ==
  /\ hand[p].pc = "locked"
  /\ faults < MaxFaults
  /\ faults' = faults + 1
  /\ \/ UNCHANGED rows
     \/ rows' = [rows EXCEPT ![hand[p].job] = Claimed(@)]
  /\ hand' = [hand EXCEPT ![p] = LoopOver(p)]
  /\ UNCHANGED <<inserted, boot, envVars, inScope, carVars>>

\* The --timeout of the drain is looked at between two jobs.
DrainTimesOut(d) ==
  /\ hand[d].pc = "claim"
  /\ hand' = [hand EXCEPT ![d] = Off]
  /\ UNCHANGED <<queueVars, boot, envVars, inScope, carVars, faults>>
-----------------------------------------------------------------------------
(* Worker.Process, stage by stage *)

At(p, at)   == hand[p].pc = at
CarOf(p)    == rows[hand[p].job].car
Goto(p, to) == hand' = [hand EXCEPT ![p].pc = to]

\* Any call of a fallible stage can fail, and fails the job.
StageFails(p) ==
  /\ hand[p].pc \in Fallible
  /\ Goto(p, "err")
  /\ UNCHANGED <<queueVars, boot, envVars, inScope, carVars, faults>>

\* vinDecode: ask vPIC.
Decode(p) ==
  /\ At(p, "decode")
  /\ Goto(p, "identity")
  /\ UNCHANGED <<queueVars, boot, envVars, inScope, carVars, faults>>

SaveIdentity(p) ==
  /\ At(p, "identity")
  /\ known' = known \cup {CarOf(p)}
  /\ Goto(p, "enrich")
  /\ UNCHANGED <<queueVars, boot, envVars, inScope, enriched, catalog, attached, faults>>

\* Mutant of SaveEnrichment: the scope is not looked at.
SaveEnrichmentAnyScope(p) ==
  /\ At(p, "enrich")
  /\ enriched' = enriched \cup {CarOf(p)}
  /\ Goto(p, "attach")
  /\ UNCHANGED <<queueVars, boot, envVars, inScope, known, catalog, attached, faults>>

\* What vPIC answered may be accepted or not, and differently each time (an answer
\* without a make is not).  Out of scope the job is done after its enrichment row.
SaveEnrichment(p) ==
  /\ At(p, "enrich")
  /\ enriched' = enriched \cup {CarOf(p)}
  /\ \E accepted \in BOOLEAN :
       /\ inScope' = inScope \cup (IF accepted THEN {CarOf(p)} ELSE {})
       /\ Goto(p, IF accepted THEN "attach" ELSE "ok")
  /\ UNCHANGED <<queueVars, boot, envVars, known, catalog, attached, faults>>

\* AttachCatalogRecallsToVehicle counts the rows that are new for the car.
Attach(p) ==
  /\ At(p, "attach")
  /\ attached' = [attached EXCEPT ![CarOf(p)] = @ \cup catalog]
  /\ Goto(p, IF catalog \subseteq attached[CarOf(p)] THEN "follow" ELSE "ok")
  /\ UNCHANGED <<queueVars, boot, envVars, inScope, known, enriched, catalog, faults>>

\* None were: ask the NHTSA in a job of its own.  The error is dropped.
Follow(p) ==
  /\ At(p, "follow")
  /\ \/ Insert("recalls_mmy", CarOf(p), FALSE, TRUE)
     \/ UNCHANGED queueVars
  /\ Goto(p, "ok")
  /\ UNCHANGED <<boot, envVars, inScope, carVars, faults>>

\* recallsMMY looks at the scope again, of the make and year in its own payload
\* (those of the decode that queued it, or of the market models), then asks for
\* the campaigns the NHTSA knows today.
PayloadInScope(p) == CarOf(p) \in {NoCar} \cup inScope

Fetch(p) ==
  /\ At(p, "fetch")
  /\ \E found \in SUBSET Campaigns :
       hand' = [hand EXCEPT ![p] =
         [@ EXCEPT !.pc = IF PayloadInScope(p) THEN "upsert" ELSE "ok", !.todo = found]]
  /\ UNCHANGED <<queueVars, boot, envVars, inScope, carVars, faults>>

\* UpsertRecallCatalog, one statement per campaign.
UpsertNext(p) ==
  /\ At(p, "upsert")
  /\ \E c \in hand[p].todo :
       /\ catalog' = catalog \cup {c}
       /\ hand' = [hand EXCEPT ![p].todo = @ \ {c}]
  /\ UNCHANGED <<queueVars, boot, envVars, inScope, known, enriched, attached, faults>>

UpsertEnds(p) ==
  /\ At(p, "upsert")
  /\ hand[p].todo = {}
  /\ Goto(p, IF CarOf(p) = NoCar THEN "wait" ELSE "attachFetched")
  /\ UNCHANGED <<queueVars, boot, envVars, inScope, carVars, faults>>

\* The error of this attach is dropped too.
AttachFetched(p) ==
  /\ At(p, "attachFetched")
  /\ \/ attached' = [attached EXCEPT ![CarOf(p)] = @ \cup catalog]
     \/ UNCHANGED attached
  /\ Goto(p, "wait")
  /\ UNCHANGED <<queueVars, boot, envVars, inScope, known, enriched, catalog, faults>>

\* 400 ms of politeness.
Wait(p) ==
  /\ At(p, "wait")
  /\ Goto(p, "ok")
  /\ UNCHANGED <<queueVars, boot, envVars, inScope, carVars, faults>>

\* Mutant of SeedNext: leaves the last one out.
SeedNextShort(p) ==
  /\ At(p, "seed")
  /\ \/ /\ hand[p].n + 1 < SeedRows
        /\ Insert("recalls_mmy", NoCar, FALSE, hand[p].n = 0)
        /\ hand' = [hand EXCEPT ![p].n = @ + 1]
     \/ /\ hand[p].n + 1 >= SeedRows
        /\ Goto(p, "ok")
        /\ UNCHANGED queueVars
  /\ UNCHANGED <<boot, envVars, inScope, carVars, faults>>

\* seedCatalog: one recall job per model and year, half a second apart.
SeedNext(p) ==
  /\ At(p, "seed")
  /\ \/ /\ hand[p].n < SeedRows
        /\ Insert("recalls_mmy", NoCar, FALSE, hand[p].n = 0)
        /\ hand' = [hand EXCEPT ![p].n = @ + 1]
     \/ /\ hand[p].n = SeedRows
        /\ Goto(p, "ok")
        /\ UNCHANGED queueVars
  /\ UNCHANGED <<boot, envVars, inScope, carVars, faults>>

\* CompleteEnrichmentJob.
Complete(p) ==
  /\ At(p, "ok")
  /\ rows' = [rows EXCEPT ![hand[p].job] = Completed(@)]
  /\ hand' = [hand EXCEPT ![p] = AfterJob(p)]
  /\ UNCHANGED <<inserted, boot, envVars, inScope, carVars, faults>>

\* FailEnrichmentJob.
Fail(p) ==
  /\ At(p, "err")
  /\ rows' = [rows EXCEPT ![hand[p].job] = Retried(@)]
  /\ hand' = [hand EXCEPT ![p] = AfterJob(p)]
  /\ UNCHANGED <<inserted, boot, envVars, inScope, carVars, faults>>

\* The error of either statement is dropped: the loop goes on, the row is left
\* as it is.
SettleLost(p) ==
  /\ hand[p].pc \in {"ok", "err"}
  /\ faults < MaxFaults
  /\ faults' = faults + 1
  /\ hand' = [hand EXCEPT ![p] = AfterJob(p)]
  /\ UNCHANGED <<queueVars, boot, envVars, inScope, carVars>>

\* A process dies, or is told to stop: from workerCancel() on none of its
\* statements goes through, those of FailEnrichmentJob included.  The database
\* drops its row lock.
Stops(p) ==
  /\ hand[p].pc # "off"
  /\ faults < MaxFaults
  /\ faults' = faults + 1
  /\ hand' = [hand EXCEPT ![p] = Off]
  /\ boot' = [s \in Servers |-> IF s = p THEN "off" ELSE boot[s]]
  /\ UNCHANGED <<queueVars, envVars, inScope, carVars>>
-----------------------------------------------------------------------------
Process(p) ==
  \/ StageFails(p) \/ Decode(p) \/ SaveIdentity(p) \/ SaveEnrichment(p)
  \/ Attach(p) \/ Follow(p) \/ Fetch(p) \/ UpsertNext(p) \/ UpsertEnds(p)
  \/ AttachFetched(p) \/ Wait(p) \/ SeedNext(p)

Loop(p) ==
  \/ ClaimLocks(p) \/ ClaimsNothing(p) \/ ClaimCommits(p)
  \/ Process(p) \/ Complete(p) \/ Fail(p)

Faulty(p) ==
  \/ ClaimFails(p) \/ SettleLost(p) \/ Stops(p)
  \/ p \in Servers /\ TickStartsUnread(p)

Boot(s) == ServerStarts(s) \/ SeedCheck(s) \/ SeedInsert(s)

Next ==
  \/ \E p \in Procs : Loop(p) \/ Faulty(p)
  \/ \E s \in Servers : Boot(s) \/ TickStarts(s) \/ \E v \in Cars : CreateScan(s, v)
  \/ \E d \in Drainers : DrainTimesOut(d) \/ \E seed \in BOOLEAN : DrainStarts(d, seed)
  \/ \E j \in Jobs : BecomesDue(j)
  \/ PatchSetting \/ ForceSeed \/ GrowsOld

Spec == Init /\ [][Next]_vars

\* Time passes; a worker ticks every three seconds; a stage comes to an end (each
\* HTTP call has a limit); a server that stopped is started again.
FairSpec ==
  /\ Spec
  /\ \A j \in Jobs : WF_vars(BecomesDue(j))
  /\ \A p \in Procs : WF_vars(Loop(p))
  /\ \A s \in Servers : WF_vars(Boot(s)) /\ WF_vars(TickStarts(s))
-----------------------------------------------------------------------------
(* Properties *)

Rows ==
  [ kind : {"none", "vin_decode", "recalls_mmy", "seed_catalog"},
    car : Cars \cup {NoCar}, forced : BOOLEAN,
    status : {"none", "pending", "running", "done", "failed"},
    attempts : 0..MaxAttempts, due : BOOLEAN ]

Hands ==
  [ pc : {"off", "rest", "claim", "locked"} \cup Stages, job : {NoJob} \cup Jobs,
    left : 0..TickJobs, n : 0..SeedRows, todo : SUBSET Campaigns ]

\* Every variable keeps its type; no job is tried more than MaxAttempts times.
TypeOK ==
  /\ rows \in [Jobs -> Rows]
  /\ inserted \in 0..MaxRows
  /\ hand \in [Procs -> Hands]
  /\ boot \in [Servers -> {"off", "check", "insert", "up"}]
  /\ enabled \in BOOLEAN
  /\ aged \in 0..MaxRows
  /\ inScope \in SUBSET Cars
  /\ known \in SUBSET Cars /\ enriched \in SUBSET Cars
  /\ catalog \in SUBSET Campaigns
  /\ attached \in [Cars -> SUBSET Campaigns]
  /\ faults \in 0..MaxFaults

\* A job has one owner: whatever the workers and the drain do, and whichever of
\* them dies, no two processes hold the same row, and a row that is worked on is
\* 'running', so that nobody else can claim it.
OneOwner ==
  /\ \A p, q \in Procs :
       Holding(p) /\ Holding(q) /\ hand[p].job = hand[q].job => p = q
  /\ \A p \in Procs : Working(p) => rows[hand[p].job].status = "running"

\* A row that may still be claimed has an attempt left, and only a row that used
\* all of them is given up.
AttemptsInStep ==
  \A j \in Jobs :
    /\ rows[j].status = "pending" => rows[j].attempts < MaxAttempts
    /\ rows[j].status = "running" => rows[j].attempts > 0
    /\ rows[j].status = "failed" => rows[j].attempts = MaxAttempts

HandOK(p) ==
  /\ Holding(p) => hand[p].job \in 1..inserted
  /\ hand[p].pc = "locked" => rows[hand[p].job].status = "pending"
  /\ hand[p].pc \in VinStages => rows[hand[p].job].kind = "vin_decode"
  /\ hand[p].pc = "claim" /\ p \in Servers => hand[p].left > 0

RowOK(j) ==
  /\ j > inserted => rows[j].status = "none"
  /\ rows[j].status # "none" => rows[j].kind # "none"
  /\ rows[j].kind = "vin_decode" => rows[j].car \in Cars

\* The inductive form of OneOwner and AttemptsInStep: a process that holds a row
\* is at a stage the row allows, and the next row to insert is free.
QueueInv ==
  /\ OneOwner
  /\ AttemptsInStep
  /\ \A p \in Procs : HandOK(p)
  /\ \A j \in Jobs : RowOK(j)

\* 'done' and 'failed' are for good although Complete and Fail say WHERE id = $1
\* and never look at the status they overwrite.
SettledStays ==
  [][\A j \in Jobs :
       rows[j].status \in {"done", "failed"} => rows'[j] = rows[j]]_vars

\* A job that is done has done its work, in spite of retries and of statements
\* other processes put in between: the car is known and has an enrichment row; a
\* seed has queued at least one recall job per model and year.
DoneMeansDone ==
  /\ \A j \in Jobs :
       rows[j].status = "done" /\ rows[j].kind = "vin_decode"
         => rows[j].car \in known \cap enriched
  /\ LET Done(kind) == { j \in Jobs : rows[j].kind = kind /\ rows[j].status = "done" }
         Seeded == { j \in Jobs : rows[j].kind = "recalls_mmy" /\ rows[j].car = NoCar }
     IN  Cardinality(Seeded) >= SeedRows * Cardinality(Done("seed_catalog"))

\* No recall is attached to a car that the catalog does not have, or to a car that
\* was in scope at no decode.  (A later decode out of scope leaves the recalls of an
\* earlier one: nothing detaches them.)
RecallsAreInScope ==
  \A v \in Cars : attached[v] \subseteq (IF v \in inScope THEN catalog ELSE {})

\* The seeds of the servers, those of the last 24 hours and not given up.
RecentSeeds ==
  { j \in Jobs : /\ j > aged
               /\ rows[j].kind = "seed_catalog" /\ ~rows[j].forced
               /\ rows[j].status \notin {"none", "failed"} }

\* The check and the insert of EnqueueSeed are two statements, so servers that
\* start together each put in a seed; but however they stop and start again, and
\* whatever became of the seeds, the servers put in no more than one each within
\* 24 hours, those given up aside.  After a day they do again.
SeedsBounded == Cardinality(RecentSeeds) <= Cardinality(Servers)

\* What a stage says of the job it works on, and of what is done for it so far.
StageOK(p) ==
  LET at == hand[p].pc  row == rows[hand[p].job] IN
    /\ at \in {"fetch", "upsert", "attachFetched", "wait"} => row.kind = "recalls_mmy"
    /\ at = "seed" => row.kind = "seed_catalog"
    /\ at \in {"enrich", "attach", "follow"} => row.car \in known
    /\ at \in {"attach", "follow"} => row.car \in enriched
    /\ at \in {"attach", "follow", "attachFetched"} => row.car \in inScope
    /\ at = "ok" /\ row.kind = "vin_decode" => row.car \in known \cap enriched
    /\ at = "ok" /\ row.kind = "seed_catalog" => hand[p].n = SeedRows
    /\ at = "locked" => hand[p].n = 0

\* A row that is done has done its work, and a recall job with a car is for a car
\* in scope.
RowWorked(j) ==
  /\ rows[j].status = "none" => rows[j].kind = "none"
  /\ rows[j].status = "done" /\ rows[j].kind = "vin_decode"
       => rows[j].car \in known \cap enriched
  /\ rows[j].kind = "recalls_mmy" /\ rows[j].car # NoCar => rows[j].car \in inScope

\* The recall jobs without a car, and those that seed j has queued for certain:
\* all of them once it is done, the first n while a process is at it.
Seeded(k) == rows[k].kind = "recalls_mmy" /\ rows[k].car = NoCar
Queued(j, i) ==
  /\ rows[j].kind = "seed_catalog"
  /\ \/ rows[j].status = "done"
     \/ \E p \in Procs : hand[p].job = j /\ hand[p].pc \in {"seed", "ok"} /\ i < hand[p].n

\* The inductive form of DoneMeansDone and RecallsAreInScope.  No two seeds count
\* the same recall job: each of these is of one seed and one place in it.
WorkInv ==
  /\ RecallsAreInScope
  /\ \A p \in Procs : StageOK(p)
  /\ \A j \in Jobs : RowWorked(j)
  /\ \E seedOf \in [Jobs -> Jobs \X (0..SeedRows)] :
       \A j \in Jobs, i \in 0..(SeedRows - 1) :
         Queued(j, i) => \E k \in Jobs : Seeded(k) /\ seedOf[k] = <<j, i>>

\* The inductive form of SeedsBounded: a server about to insert counts as well.
BootInv ==
  LET inserting == { s \in Servers : boot[s] = "insert" } IN
    Cardinality(RecentSeeds) + Cardinality(inserting) <= Cardinality(Servers)

\* The table and its processes implement the specification of a job: a job is taken
\* by one process at a time, settled by the one that took it, at most MaxAttempts
\* times, and never again once it is done or given up.
Table == INSTANCE JobTable WITH
  status   <- [j \in Jobs |-> rows[j].status],
  attempts <- [j \in Jobs |-> rows[j].attempts],
  workers  <- [j \in Jobs |-> { p \in Procs : Working(p) /\ hand[p].job = j }]

ImplementsTable == Table!Spec

\* As long as no process dies and no statement is lost, every job is done or
\* given up in the end, however often its calls fail, provided the setting is
\* left on.
JobsSettle ==
  ([](faults = 0) /\ <>[]enabled) =>
     \A j \in Jobs :
       rows[j].status = "pending" ~> rows[j].status \in {"done", "failed"}
-----------------------------------------------------------------------------
(* What comments and docs say and the code does not do *)

\* "queue draining (also handled automatically by the API worker)"
\* (docs/apps-and-install.md): with a worker running for good, a job that was
\* taken is settled or offered again.
WorkerDrains ==
  (<>[]enabled) =>
     \A j \in Jobs : rows[j].status = "running" ~> rows[j].status # "running"
=============================================================================
