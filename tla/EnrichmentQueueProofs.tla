----------------------- MODULE EnrichmentQueueProofs -----------------------
(***************************************************************************)
(* Proofs about EnrichmentQueue for any number of servers, drains, cars    *)
(* and rows: the type invariant, one owner per job, attempts that agree    *)
(* with the status, settled rows that stay as they are, what is done for a *)
(* job by the time it is done (WorkInv), how many seeds the servers leave  *)
(* (BootInv), and that the table is one of JobTable.                       *)
(***************************************************************************)
EXTENDS EnrichmentQueue, FiniteSetTheorems, TLAPS

USE QueueAssumption DEF QueueAssumption

PCs == {"off", "rest", "claim", "locked"} \cup Stages

\* The invariant that is inductive.
Inv == TypeOK /\ QueueInv

\* The rows the other processes hold are as they were.
OthersKept(p) ==
  \A q \in Procs : q # p /\ Holding(q) =>
    /\ rows'[hand[q].job] = rows[hand[q].job]
    /\ hand[q].job \in 1..inserted'

\* Only the hand of p moves.
OnlyHand(p) == \A q \in Procs : q # p => hand'[q] = hand[q]

\* A hand that holds nothing, with a job left to claim if it is at a claim.
Free(p, h) ==
  /\ h.pc \in {"off", "rest", "claim"}
  /\ h.pc = "claim" /\ p \in Servers => h.left > 0
-----------------------------------------------------------------------------
(* Records *)

\* What a claim does to a row.
LEMMA ClaimedRow ==
  ASSUME NEW r \in Rows, r.attempts < MaxAttempts
  PROVE  /\ Claimed(r) \in Rows
         /\ Claimed(r).status = "running"
         /\ Claimed(r).attempts = r.attempts + 1
         /\ Claimed(r).kind = r.kind /\ Claimed(r).car = r.car /\ Claimed(r).forced = r.forced
  <1>1. r.attempts + 1 \in 0..MaxAttempts
    BY DEF Rows
  <1> QED BY <1>1 DEF Rows, Claimed

\* What CompleteEnrichmentJob does to a row.
LEMMA CompletedRow ==
  ASSUME NEW r \in Rows
  PROVE  /\ Completed(r) \in Rows
         /\ Completed(r).status = "done"
         /\ Completed(r).kind = r.kind /\ Completed(r).car = r.car
         /\ Completed(r).forced = r.forced
  BY DEF Rows, Completed

\* What FailEnrichmentJob does to a row.
LEMMA RetriedRow ==
  ASSUME NEW r \in Rows
  PROVE  /\ Retried(r) \in Rows
         /\ Retried(r).attempts = r.attempts
         /\ Retried(r).status = IF r.attempts >= MaxAttempts THEN "failed" ELSE "pending"
         /\ Retried(r).kind = r.kind /\ Retried(r).car = r.car /\ Retried(r).forced = r.forced
  BY DEF Rows, Retried

\* The row that is inserted.
LEMMA FreshRow ==
  ASSUME NEW kind \in {"vin_decode", "recalls_mmy", "seed_catalog"},
         NEW car \in Cars \cup {NoCar}, NEW forced \in BOOLEAN, NEW due \in BOOLEAN
  PROVE  LET r == NewRow(kind, car, forced, due)
         IN  r \in Rows /\ r.status = "pending" /\ r.attempts = 0
               /\ r.kind = kind /\ r.car = car /\ r.forced = forced
  <1>1. NoRow \in Rows /\ NoRow.attempts = 0
    BY DEF Rows, NoRow
  <1>2. ASSUME NEW x \in Rows, x.attempts = 0
        PROVE  LET y == [ x EXCEPT !.kind = kind, !.car = car, !.forced = forced,
                                   !.status = "pending", !.due = due ]
               IN  y \in Rows /\ y.status = "pending" /\ y.attempts = 0
                     /\ y.kind = kind /\ y.car = car /\ y.forced = forced
    BY <1>2 DEF Rows
  <1> QED BY <1>1, <1>2 DEF NewRow

\* The hands a process can have when it holds nothing.
LEMMA FreeHands ==
  /\ Off \in Hands /\ Off.pc = "off"
  /\ Resting \in Hands /\ Resting.pc = "rest"
  /\ \A l \in 0..TickJobs :
       /\ [Off EXCEPT !.pc = "claim", !.left = l] \in Hands
       /\ [Off EXCEPT !.pc = "claim", !.left = l].pc = "claim"
       /\ [Off EXCEPT !.pc = "claim", !.left = l].left = l
  /\ [Off EXCEPT !.pc = "claim"] \in Hands /\ [Off EXCEPT !.pc = "claim"].pc = "claim"
  <1>1. Off \in Hands /\ Off.pc = "off"
    BY DEF Off, Hands, NoJob
  <1>2. \A h \in Hands : \A l \in 0..TickJobs :
          LET g == [h EXCEPT !.pc = "claim", !.left = l]
          IN  g \in Hands /\ g.pc = "claim" /\ g.left = l
    BY DEF Hands
  <1>3. \A h \in Hands : LET g == [h EXCEPT !.pc = "claim"] IN g \in Hands /\ g.pc = "claim"
    BY DEF Hands
  <1>4. \A h \in Hands : LET g == [h EXCEPT !.pc = "rest"] IN g \in Hands /\ g.pc = "rest"
    BY DEF Hands
  <1> QED BY <1>1, <1>2, <1>3, <1>4 DEF Resting

\* A hand that moves to another stage keeps its job.
LEMMA HandMoves ==
  ASSUME NEW h \in Hands, NEW to \in PCs
  PROVE  LET g == [h EXCEPT !.pc = to]
         IN  g \in Hands /\ g.pc = to /\ g.job = h.job /\ g.left = h.left /\ g.n = h.n
  BY DEF Hands, PCs
-----------------------------------------------------------------------------
(* Statements *)

\* An insert adds a pending row behind the others.
LEMMA InsertKeeps ==
  ASSUME Inv, NEW kind \in {"vin_decode", "recalls_mmy", "seed_catalog"},
         NEW car \in Cars \cup {NoCar}, NEW forced \in BOOLEAN, NEW due \in BOOLEAN,
         kind = "vin_decode" => car \in Cars,
         Insert(kind, car, forced, due)
  PROVE  /\ rows' \in [Jobs -> Rows]
         /\ inserted' \in 0..MaxRows
         /\ AttemptsInStep'
         /\ \A j \in Jobs : RowOK(j)'
         /\ inserted' = inserted + 1
         /\ \A j \in 1..inserted : j \in Jobs /\ rows'[j] = rows[j]
         /\ \A j \in Jobs : rows[j].status # "none" => rows'[j] = rows[j]
  <1> DEFINE r == NewRow(kind, car, forced, due)
  <1>1. r \in Rows /\ r.status = "pending" /\ r.attempts = 0 /\ r.kind = kind /\ r.car = car
    BY FreshRow
  <1>2. /\ inserted \in 0..MaxRows /\ inserted < MaxRows /\ inserted' = inserted + 1
        /\ rows' = [rows EXCEPT ![inserted + 1] = r]
        /\ rows \in [Jobs -> Rows]
    BY DEF Insert, Inv, TypeOK
  <1> HIDE DEF r
  <1>3. PICK k \in Jobs : k = inserted + 1
    BY <1>2 DEF Jobs
  <1>4. /\ rows' \in [Jobs -> Rows] /\ rows'[k] = r
        /\ \A j \in Jobs : j # k => rows'[j] = rows[j]
    BY <1>1, <1>2, <1>3
  <1>5. rows[k].status = "none"
    BY <1>2, <1>3 DEF Inv, QueueInv, RowOK, Jobs
  <1>6. AttemptsInStep'
    BY <1>1, <1>4 DEF Inv, QueueInv, AttemptsInStep
  <1>7. \A j \in Jobs : RowOK(j)'
    BY <1>1, <1>2, <1>3, <1>4 DEF Inv, QueueInv, RowOK, Jobs
  <1>8. \A j \in 1..inserted : j \in Jobs /\ j # k
    BY <1>2, <1>3 DEF Jobs
  <1> QED BY <1>2, <1>4, <1>5, <1>6, <1>7, <1>8

\* A write to the row of p keeps the rows in order, and the others' rows.
LEMMA WriteKeeps ==
  ASSUME Inv, NEW p \in Procs, Holding(p), NEW r \in Rows,
         rows' = [rows EXCEPT ![hand[p].job] = r], inserted' = inserted,
         r.kind = rows[hand[p].job].kind, r.car = rows[hand[p].job].car,
         r.status # "none",
         r.status = "pending" => r.attempts < MaxAttempts,
         r.status = "running" => r.attempts > 0,
         r.status = "failed" => r.attempts = MaxAttempts
  PROVE  /\ rows' \in [Jobs -> Rows]
         /\ hand[p].job \in Jobs
         /\ rows'[hand[p].job] = r
         /\ AttemptsInStep'
         /\ \A j \in Jobs : RowOK(j)'
         /\ OthersKept(p)
  <1>1. inserted \in 0..MaxRows /\ hand[p].job \in 1..inserted /\ rows \in [Jobs -> Rows]
    BY DEF Inv, TypeOK, QueueInv, HandOK
  <1>2. PICK k \in Jobs : k = hand[p].job /\ k \in 1..inserted
    BY <1>1 DEF Jobs
  <1>3. /\ rows' \in [Jobs -> Rows] /\ rows'[k] = r
        /\ \A j \in Jobs : j # k => rows'[j] = rows[j]
    BY <1>1, <1>2
  <1>4. AttemptsInStep'
    BY <1>3 DEF Inv, QueueInv, AttemptsInStep
  <1>5. rows[k].status # "none" /\ rows[k].kind # "none"
    BY <1>2 DEF Inv, QueueInv, RowOK, OneOwner, HandOK, Holding
  <1>6. \A j \in Jobs : RowOK(j)'
    BY <1>2, <1>3, <1>5 DEF Inv, QueueInv, RowOK, Jobs
  <1>7. OthersKept(p)
    <2> SUFFICES ASSUME NEW q \in Procs, q # p, Holding(q)
                 PROVE  rows'[hand[q].job] = rows[hand[q].job] /\ hand[q].job \in 1..inserted'
      BY DEF OthersKept
    <2>1. hand[q].job # k /\ hand[q].job \in 1..inserted
      BY <1>2 DEF Inv, QueueInv, OneOwner, HandOK
    <2>2. hand[q].job \in Jobs
      BY <1>1, <2>1 DEF Jobs
    <2> QED BY <1>3, <2>1, <2>2
  <1> QED BY <1>2, <1>3, <1>4, <1>6, <1>7

\* Rows that are only added leave the others' rows alone.
LEMMA AddedKeeps ==
  ASSUME Inv, NEW p,
         inserted' = inserted \/ inserted' = inserted + 1,
         \A j \in 1..inserted : rows'[j] = rows[j]
  PROVE  OthersKept(p)
  <1> SUFFICES ASSUME NEW q \in Procs, Holding(q)
               PROVE  rows'[hand[q].job] = rows[hand[q].job] /\ hand[q].job \in 1..inserted'
    BY DEF OthersKept
  <1>1. hand[q].job \in 1..inserted /\ inserted \in 0..MaxRows
    BY DEF Inv, TypeOK, QueueInv, HandOK
  <1> QED BY <1>1
-----------------------------------------------------------------------------
(* Hands *)

\* A process that ends up holding nothing cannot disturb the others.
LEMMA Released ==
  ASSUME Inv, NEW p \in Procs, OnlyHand(p), OthersKept(p),
         ~Holding(p)', hand'[p].pc = "claim" /\ p \in Servers => hand'[p].left > 0
  PROVE  OneOwner' /\ \A q \in Procs : HandOK(q)'
  <1>1. \A q \in Procs : q # p => (Holding(q)' <=> Holding(q)) /\ (Working(q)' <=> Working(q))
    BY DEF OnlyHand, Holding, Working
  <1>2. ~Working(p)' /\ hand'[p].pc # "locked" /\ hand'[p].pc \notin VinStages
    BY DEF Holding, Working, Stages, Fallible, VinStages
  <1>3. OneOwner'
    BY <1>1, <1>2 DEF Inv, QueueInv, OneOwner, OnlyHand, OthersKept, Holding
  <1>4. ASSUME NEW q \in Procs, q # p PROVE HandOK(q)'
    BY <1>1, <1>4 DEF Inv, QueueInv, HandOK, OnlyHand, OthersKept, Holding, Working,
                      Stages, Fallible, VinStages
  <1>5. HandOK(p)'
    BY <1>2 DEF HandOK
  <1> QED BY <1>3, <1>4, <1>5

\* A process that goes on with the job it holds keeps it to itself.
LEMMA GoesOn ==
  ASSUME Inv, NEW p \in Procs, OnlyHand(p), OthersKept(p), Holding(p),
         hand'[p].pc \in Stages, hand'[p].job = hand[p].job,
         hand[p].job \in 1..inserted',
         rows'[hand[p].job].status = "running",
         hand'[p].pc \in VinStages => rows'[hand[p].job].kind = "vin_decode"
  PROVE  OneOwner' /\ \A q \in Procs : HandOK(q)'
  <1>1. \A q \in Procs : q # p => (Holding(q)' <=> Holding(q)) /\ (Working(q)' <=> Working(q))
    BY DEF OnlyHand, Holding, Working
  <1>2. hand'[p].pc # "locked" /\ hand'[p].pc # "claim"
    BY DEF Stages, Fallible
  <1>3. OneOwner'
    BY <1>1, <1>2 DEF Inv, QueueInv, OneOwner, OnlyHand, OthersKept, Holding
  <1>4. ASSUME NEW q \in Procs, q # p PROVE HandOK(q)'
    BY <1>1, <1>4 DEF Inv, QueueInv, HandOK, OnlyHand, OthersKept, Holding, Working,
                      Stages, Fallible, VinStages
  <1>5. HandOK(p)'
    BY <1>2 DEF HandOK
  <1> QED BY <1>3, <1>4, <1>5

\* An assignment to the hand of p.
LEMMA HandSet ==
  ASSUME Inv, NEW p \in Procs, NEW h \in Hands, hand' = [hand EXCEPT ![p] = h]
  PROVE  hand' \in [Procs -> Hands] /\ hand'[p] = h /\ OnlyHand(p)
  BY DEF Inv, TypeOK, OnlyHand

\* A step that leaves the table alone.
LEMMA SameRows ==
  ASSUME Inv, UNCHANGED queueVars
  PROVE  /\ rows' \in [Jobs -> Rows] /\ inserted' \in 0..MaxRows
         /\ AttemptsInStep'
         /\ \A j \in Jobs : RowOK(j)'
         /\ \A p \in Procs : OthersKept(p)
  BY DEF Inv, TypeOK, QueueInv, AttemptsInStep, RowOK, HandOK, OthersKept, queueVars

\* The row of a process at a stage is in the table and of its type.
LEMMA OwnRow ==
  ASSUME Inv, NEW p \in Procs, Holding(p)
  PROVE  /\ hand[p].job \in Jobs /\ hand[p].job \in 1..inserted
         /\ rows[hand[p].job] \in Rows
         /\ rows[hand[p].job].kind # "none"
         /\ hand[p].pc \in VinStages => CarOf(p) \in Cars
  <1>1. hand[p].job \in 1..inserted /\ inserted \in 0..MaxRows
    BY DEF Inv, TypeOK, QueueInv, HandOK
  <1>2. hand[p].job \in Jobs
    BY <1>1 DEF Jobs
  <1>3. rows[hand[p].job].status # "none"
    BY DEF Inv, QueueInv, OneOwner, HandOK, Holding
  <1> QED BY <1>1, <1>2, <1>3 DEF Inv, TypeOK, QueueInv, RowOK, HandOK, CarOf

\* A process that moves on within a job, inserting at most one row.
LEMMA StageMove ==
  ASSUME Inv, NEW p \in Procs, Working(p), NEW h \in Hands,
         hand' = [hand EXCEPT ![p] = h],
         h.pc \in Stages, h.job = hand[p].job,
         h.pc \in VinStages => hand[p].pc \in VinStages,
         inserted' = inserted \/ inserted' = inserted + 1,
         \A j \in 1..inserted : rows'[j] = rows[j]
  PROVE  hand' \in [Procs -> Hands] /\ OneOwner' /\ \A q \in Procs : HandOK(q)'
  <1>1. hand' \in [Procs -> Hands] /\ hand'[p] = h /\ OnlyHand(p)
    BY HandSet
  <1>2. OthersKept(p)
    BY AddedKeeps
  <1>3. Holding(p)
    BY DEF Holding
  <1>4. hand[p].job \in 1..inserted /\ inserted \in 0..MaxRows
    BY <1>3, OwnRow DEF Inv, TypeOK
  <1>5. rows'[hand[p].job] = rows[hand[p].job] /\ hand[p].job \in 1..inserted'
    BY <1>4
  <1>6. rows[hand[p].job].status = "running"
    BY DEF Inv, QueueInv, OneOwner
  <1>7. hand[p].pc \in VinStages => rows[hand[p].job].kind = "vin_decode"
    BY DEF Inv, QueueInv, HandOK
  <1>8. h.pc \in VinStages => rows'[hand[p].job].kind = "vin_decode"
    BY <1>5, <1>7
  <1> QED BY <1>1, <1>2, <1>3, <1>5, <1>6, <1>8, GoesOn

\* The same for a move that only changes the stage.
LEMMA GotoMove ==
  ASSUME Inv, NEW p \in Procs, Working(p), NEW to \in Stages, Goto(p, to),
         to \in VinStages => hand[p].pc \in VinStages,
         inserted' = inserted \/ inserted' = inserted + 1,
         \A j \in 1..inserted : rows'[j] = rows[j]
  PROVE  hand' \in [Procs -> Hands] /\ OneOwner' /\ \A q \in Procs : HandOK(q)'
  <1> DEFINE h == [hand[p] EXCEPT !.pc = to]
  <1>1. hand[p] \in Hands /\ to \in PCs
    BY DEF Inv, TypeOK, PCs
  <1>2. h \in Hands /\ h.pc = to /\ h.job = hand[p].job
    BY <1>1, HandMoves
  <1>3. hand' = [hand EXCEPT ![p] = h]
    BY DEF Goto
  <1> HIDE DEF h
  <1> QED BY <1>2, <1>3, StageMove

\* A process that lets go of its job, or had none.
LEMMA Release ==
  ASSUME Inv, NEW p \in Procs, NEW h \in Hands, hand' = [hand EXCEPT ![p] = h],
         Free(p, h), OthersKept(p)
  PROVE  hand' \in [Procs -> Hands] /\ OneOwner' /\ \A q \in Procs : HandOK(q)'
  <1>1. hand' \in [Procs -> Hands] /\ hand'[p] = h /\ OnlyHand(p)
    BY HandSet
  <1>2. ~Holding(p)'
    BY <1>1 DEF Free, Holding, Working, Stages, Fallible
  <1>3. hand'[p].pc = "claim" /\ p \in Servers => hand'[p].left > 0
    BY <1>1 DEF Free
  <1> QED BY <1>1, <1>2, <1>3, Released

\* What a process is left with when its loop is over, or goes on.
LEMMA NextHands ==
  ASSUME Inv, NEW p \in Procs
  PROVE  /\ LoopOver(p) \in Hands /\ Free(p, LoopOver(p))
         /\ AfterJob(p) \in Hands /\ Free(p, AfterJob(p))
         /\ Free(p, Off)
  <1>1. hand[p].left \in 0..TickJobs
    BY DEF Inv, TypeOK, Hands
  <1> QED BY <1>1, FreeHands DEF LoopOver, AfterJob, Free
-----------------------------------------------------------------------------
(* Steps *)

\* The stages of Process keep the invariant.
LEMMA ProcessKeeps ==
  ASSUME Inv, NEW p \in Procs, Process(p)
  PROVE  Inv'
  <1>1. hand[p].pc \in Stages /\ Working(p) /\ Holding(p)
    BY DEF Process, StageFails, Decode, SaveIdentity, SaveEnrichment, Attach, Follow, Fetch,
           UpsertNext, UpsertEnds, AttachFetched, Wait, SeedNext, At, Stages, Fallible,
           Working, Holding
  <1>2. hand[p] \in Hands /\ hand \in [Procs -> Hands]
    BY DEF Inv, TypeOK
  <1>3. hand[p].pc \in VinStages => CarOf(p) \in Cars
    BY <1>1, OwnRow
  <1>4. \A kind \in {"recalls_mmy"} : \A car \in Cars \cup {NoCar} : \A due \in BOOLEAN :
          Insert(kind, car, FALSE, due) =>
            /\ rows' \in [Jobs -> Rows] /\ inserted' \in 0..MaxRows
            /\ AttemptsInStep' /\ \A j \in Jobs : RowOK(j)'
            /\ inserted' = inserted + 1
            /\ \A j \in 1..inserted : rows'[j] = rows[j]
    BY InsertKeeps
  <1>5. UNCHANGED queueVars =>
            /\ rows' \in [Jobs -> Rows] /\ inserted' \in 0..MaxRows
            /\ AttemptsInStep' /\ \A j \in Jobs : RowOK(j)'
            /\ inserted' = inserted
            /\ \A j \in 1..inserted : rows'[j] = rows[j]
    BY SameRows DEF queueVars
  <1>6. CASE StageFails(p)
    <2>1. Goto(p, "err") /\ UNCHANGED <<queueVars, boot, envVars, inScope, carVars, faults>>
      BY <1>6 DEF StageFails
    <2>2. hand' \in [Procs -> Hands] /\ OneOwner' /\ \A q \in Procs : HandOK(q)'
      BY <1>1, <1>5, <2>1, GotoMove DEF Stages, VinStages
    <2> QED BY <1>5, <2>1, <2>2 DEF Inv, TypeOK, QueueInv, carVars, envVars
  <1>7. CASE Decode(p)
    <2>1. /\ hand[p].pc = "decode" /\ Goto(p, "identity")
          /\ UNCHANGED <<queueVars, boot, envVars, inScope, carVars, faults>>
      BY <1>7 DEF Decode, At
    <2>2. hand' \in [Procs -> Hands] /\ OneOwner' /\ \A q \in Procs : HandOK(q)'
      BY <1>1, <1>5, <2>1, GotoMove DEF Stages, Fallible, VinStages
    <2> QED BY <1>5, <2>1, <2>2 DEF Inv, TypeOK, QueueInv, carVars, envVars
  <1>8. CASE SaveIdentity(p)
    <2>1. /\ hand[p].pc = "identity" /\ Goto(p, "enrich")
          /\ UNCHANGED <<queueVars, boot, envVars, inScope, enriched, catalog, attached, faults>>
          /\ known' = known \cup {CarOf(p)}
      BY <1>8 DEF SaveIdentity, At
    <2>2. hand' \in [Procs -> Hands] /\ OneOwner' /\ \A q \in Procs : HandOK(q)'
      BY <1>1, <1>5, <2>1, GotoMove DEF Stages, Fallible, VinStages
    <2>3. CarOf(p) \in Cars
      BY <1>3, <2>1 DEF VinStages
    <2> QED BY <1>5, <2>1, <2>2, <2>3 DEF Inv, TypeOK, QueueInv, envVars
  <1>9. CASE SaveEnrichment(p)
    <2>1. /\ hand[p].pc = "enrich" /\ \E to \in {"attach", "ok"} : Goto(p, to)
          /\ UNCHANGED <<queueVars, boot, envVars, known, catalog, attached, faults>>
          /\ enriched' = enriched \cup {CarOf(p)}
          /\ inScope' \subseteq inScope \cup {CarOf(p)}
      BY <1>9 DEF SaveEnrichment, At
    <2>2. hand' \in [Procs -> Hands] /\ OneOwner' /\ \A q \in Procs : HandOK(q)'
      BY <1>1, <1>5, <2>1, GotoMove DEF Stages, Fallible, VinStages
    <2>3. CarOf(p) \in Cars
      BY <1>3, <2>1 DEF VinStages
    <2> QED BY <1>5, <2>1, <2>2, <2>3 DEF Inv, TypeOK, QueueInv, envVars
  <1>10. CASE Attach(p)
    <2>1. /\ hand[p].pc = "attach" /\ \E to \in {"follow", "ok"} : Goto(p, to)
          /\ UNCHANGED <<queueVars, boot, envVars, inScope, known, enriched, catalog, faults>>
          /\ attached' = [attached EXCEPT ![CarOf(p)] = @ \cup catalog]
      BY <1>10 DEF Attach, At
    <2>2. hand' \in [Procs -> Hands] /\ OneOwner' /\ \A q \in Procs : HandOK(q)'
      BY <1>1, <1>5, <2>1, GotoMove DEF Stages, Fallible, VinStages
    <2>3. attached' \in [Cars -> SUBSET Campaigns]
      BY <2>1 DEF Inv, TypeOK
    <2> QED BY <1>5, <2>1, <2>2, <2>3 DEF Inv, TypeOK, QueueInv, envVars
  <1>11. CASE Follow(p)
    <2>1. /\ hand[p].pc = "follow" /\ Goto(p, "ok")
          /\ Insert("recalls_mmy", CarOf(p), FALSE, TRUE) \/ UNCHANGED queueVars
          /\ UNCHANGED <<boot, envVars, inScope, carVars, faults>>
      BY <1>11 DEF Follow, At
    <2>2. /\ rows' \in [Jobs -> Rows] /\ inserted' \in 0..MaxRows
          /\ AttemptsInStep' /\ \A j \in Jobs : RowOK(j)'
          /\ inserted' = inserted \/ inserted' = inserted + 1
          /\ \A j \in 1..inserted : rows'[j] = rows[j]
      <3>1. CarOf(p) \in Cars
        BY <1>3, <2>1 DEF VinStages
      <3> QED BY <1>4, <1>5, <2>1, <3>1
    <2>3. hand' \in [Procs -> Hands] /\ OneOwner' /\ \A q \in Procs : HandOK(q)'
      BY <1>1, <2>1, <2>2, GotoMove, ZenonT(60) DEF Stages, Fallible, VinStages
    <2> QED BY <2>1, <2>2, <2>3 DEF Inv, TypeOK, QueueInv, carVars, envVars
  <1>12. CASE Fetch(p)
    <2>1. PICK found \in SUBSET Campaigns :
            hand' = [hand EXCEPT ![p] = [hand[p] EXCEPT
                       !.pc = IF PayloadInScope(p) THEN "upsert" ELSE "ok", !.todo = found]]
      BY <1>12 DEF Fetch
    <2> DEFINE to == IF PayloadInScope(p) THEN "upsert" ELSE "ok"
               h  == [hand[p] EXCEPT !.pc = to, !.todo = found]
    <2>4. to \in Stages /\ to \notin VinStages
      BY DEF Stages, Fallible, VinStages
    <2>2. h \in Hands /\ h.pc = to /\ h.job = hand[p].job
      <3> HIDE DEF to
      <3> QED BY <1>2, <2>4 DEF Hands
    <2>3. UNCHANGED <<queueVars, boot, envVars, inScope, carVars, faults>>
      BY <1>12 DEF Fetch
    <2> HIDE DEF h
    <2>5. hand' \in [Procs -> Hands] /\ OneOwner' /\ \A q \in Procs : HandOK(q)'
      BY <1>1, <1>5, <2>1, <2>2, <2>3, <2>4, StageMove DEF h
    <2> QED BY <1>5, <2>3, <2>5 DEF Inv, TypeOK, QueueInv, carVars, envVars
  <1>13. CASE UpsertNext(p)
    <2>1. PICK c \in hand[p].todo :
            /\ catalog' = catalog \cup {c}
            /\ hand' = [hand EXCEPT ![p] = [hand[p] EXCEPT !.todo = @ \ {c}]]
      BY <1>13 DEF UpsertNext
    <2> DEFINE h == [hand[p] EXCEPT !.todo = @ \ {c}]
    <2>2. h \in Hands /\ h.pc = hand[p].pc /\ h.job = hand[p].job /\ c \in Campaigns
      BY <1>2 DEF Hands
    <2>3. UNCHANGED <<queueVars, boot, envVars, inScope, known, enriched, attached, faults>>
      BY <1>13 DEF UpsertNext
    <2> HIDE DEF h
    <2>5. hand' \in [Procs -> Hands] /\ OneOwner' /\ \A q \in Procs : HandOK(q)'
      BY <1>1, <1>5, <2>1, <2>2, <2>3, StageMove DEF h
    <2> QED BY <1>5, <2>1, <2>2, <2>3, <2>5 DEF Inv, TypeOK, QueueInv, envVars
  <1>14. CASE UpsertEnds(p)
    <2>1. /\ \E to \in {"wait", "attachFetched"} : Goto(p, to)
          /\ UNCHANGED <<queueVars, boot, envVars, inScope, carVars, faults>>
      BY <1>14 DEF UpsertEnds
    <2>2. hand' \in [Procs -> Hands] /\ OneOwner' /\ \A q \in Procs : HandOK(q)'
      BY <1>1, <1>5, <2>1, GotoMove DEF Stages, Fallible, VinStages
    <2> QED BY <1>5, <2>1, <2>2 DEF Inv, TypeOK, QueueInv, carVars, envVars
  <1>15. CASE AttachFetched(p)
    <2>1. /\ Goto(p, "wait")
          /\ UNCHANGED <<queueVars, boot, envVars, inScope, known, enriched, catalog, faults>>
          /\ \/ attached' = [attached EXCEPT ![CarOf(p)] = @ \cup catalog]
             \/ UNCHANGED attached
      BY <1>15 DEF AttachFetched
    <2>2. hand' \in [Procs -> Hands] /\ OneOwner' /\ \A q \in Procs : HandOK(q)'
      BY <1>1, <1>5, <2>1, GotoMove DEF Stages, Fallible, VinStages
    <2>3. attached' \in [Cars -> SUBSET Campaigns]
      BY <2>1 DEF Inv, TypeOK
    <2> QED BY <1>5, <2>1, <2>2, <2>3 DEF Inv, TypeOK, QueueInv, envVars
  <1>16. CASE Wait(p)
    <2>1. Goto(p, "ok") /\ UNCHANGED <<queueVars, boot, envVars, inScope, carVars, faults>>
      BY <1>16 DEF Wait
    <2>2. hand' \in [Procs -> Hands] /\ OneOwner' /\ \A q \in Procs : HandOK(q)'
      BY <1>1, <1>5, <2>1, GotoMove DEF Stages, Fallible, VinStages
    <2> QED BY <1>5, <2>1, <2>2 DEF Inv, TypeOK, QueueInv, carVars, envVars
  <1>17. CASE SeedNext(p)
    <2>1. UNCHANGED <<boot, envVars, inScope, carVars, faults>>
      BY <1>17 DEF SeedNext
    <2>2. CASE Goto(p, "ok") /\ UNCHANGED queueVars
      <3>1. hand' \in [Procs -> Hands] /\ OneOwner' /\ \A q \in Procs : HandOK(q)'
        BY <1>1, <1>5, <2>2, GotoMove DEF Stages, Fallible, VinStages
      <3> QED BY <1>5, <2>1, <2>2, <3>1 DEF Inv, TypeOK, QueueInv, carVars, envVars
    <2>3. CASE /\ hand[p].n < SeedRows
               /\ Insert("recalls_mmy", NoCar, FALSE, hand[p].n = 0)
               /\ hand' = [hand EXCEPT ![p].n = @ + 1]
      <3> DEFINE h == [hand[p] EXCEPT !.n = @ + 1]
      <3>1. hand[p].n + 1 \in 0..SeedRows
        BY <1>2, <2>3 DEF Hands
      <3>2. h \in Hands /\ h.pc = hand[p].pc /\ h.job = hand[p].job
        BY <1>2, <3>1 DEF Hands
      <3>3. hand' = [hand EXCEPT ![p] = h]
        BY <2>3
      <3>4. (hand[p].n = 0) \in BOOLEAN
        OBVIOUS
      <3>5. /\ rows' \in [Jobs -> Rows] /\ inserted' \in 0..MaxRows
            /\ AttemptsInStep' /\ \A j \in Jobs : RowOK(j)'
            /\ inserted' = inserted + 1
            /\ \A j \in 1..inserted : rows'[j] = rows[j]
        BY <1>4, <2>3, <3>4
      <3> HIDE DEF h
      <3>6. hand' \in [Procs -> Hands] /\ OneOwner' /\ \A q \in Procs : HandOK(q)'
        BY <1>1, <3>2, <3>3, <3>5, StageMove
      <3> QED BY <2>1, <3>5, <3>6 DEF Inv, TypeOK, QueueInv, carVars, envVars
    <2> QED BY <1>17, <2>2, <2>3 DEF SeedNext
  <1> QED BY <1>6, <1>7, <1>8, <1>9, <1>10, <1>11, <1>12, <1>13, <1>14, <1>15, <1>16,
             <1>17 DEF Process

\* The claim and the two statements that settle a job keep the invariant.
LEMMA LoopKeeps ==
  ASSUME Inv, NEW p \in Procs, Loop(p)
  PROVE  Inv'
  <1>1. hand[p] \in Hands /\ hand \in [Procs -> Hands]
    BY DEF Inv, TypeOK
  <1>2. CASE Process(p)
    BY <1>2, ProcessKeeps
  <1>3. CASE ClaimLocks(p)
    <2>1. PICK j \in Claimable :
            hand' = [hand EXCEPT ![p] =
              [Off EXCEPT !.pc = "locked", !.job = j,
                          !.left = IF p \in Servers THEN hand[p].left - 1 ELSE 0]]
      BY <1>3 DEF ClaimLocks
    <2>2. /\ hand[p].pc = "claim"
          /\ UNCHANGED <<queueVars, boot, envVars, inScope, carVars, faults>>
      BY <1>3 DEF ClaimLocks
    <2>3. PICK l \in 0..TickJobs : l = IF p \in Servers THEN hand[p].left - 1 ELSE 0
      <3>1. hand[p].left \in 0..TickJobs
        BY <1>1 DEF Hands
      <3>2. p \in Servers => hand[p].left > 0
        BY <2>2 DEF Inv, QueueInv, HandOK
      <3>3. (IF p \in Servers THEN hand[p].left - 1 ELSE 0) \in 0..TickJobs
        BY <3>1, <3>2
      <3> QED BY <3>3
    <2> DEFINE h == [Off EXCEPT !.pc = "locked", !.job = j, !.left = l]
    <2>4. j \in Jobs /\ rows[j].status = "pending"
          /\ \A q \in Procs : hand[q].pc = "locked" => hand[q].job # j
      BY DEF Claimable
    <2>5. \A x \in Hands : LET y == [x EXCEPT !.pc = "locked", !.job = j, !.left = l]
                           IN  y \in Hands /\ y.pc = "locked" /\ y.job = j
      BY <2>4 DEF Hands
    <2>6. h \in Hands /\ h.pc = "locked" /\ h.job = j
      BY <2>5, FreeHands
    <2>7. hand' = [hand EXCEPT ![p] = h]
      BY <2>1, <2>3
    <2> HIDE DEF h
    <2>8. hand' \in [Procs -> Hands] /\ hand'[p] = h /\ OnlyHand(p)
      BY <2>6, <2>7, HandSet
    <2>9. \A q \in Procs : q # p => (Holding(q)' <=> Holding(q)) /\ (Working(q)' <=> Working(q))
      BY <2>8 DEF OnlyHand, Holding, Working
    <2>10. ~Working(p)' /\ hand'[p].pc = "locked" /\ hand'[p].pc \notin VinStages
      BY <2>6, <2>8 DEF Working, Stages, Fallible, VinStages
    <2>11. \A q \in Procs : Holding(q) => hand[q].job # j
      BY <2>4 DEF Holding, Inv, QueueInv, OneOwner
    <2>12. rows' = rows /\ inserted' = inserted
      BY <2>2 DEF queueVars
    <2>13. OneOwner'
      BY <2>6, <2>8, <2>9, <2>10, <2>11, <2>12 DEF Inv, QueueInv, OneOwner, OnlyHand
    <2>14. j \in 1..inserted
      BY <2>4 DEF Inv, TypeOK, QueueInv, RowOK, Jobs
    <2>15. ASSUME NEW q \in Procs, q # p PROVE HandOK(q)'
      BY <2>8, <2>9, <2>12, <2>15 DEF Inv, QueueInv, HandOK, OnlyHand
    <2>16. HandOK(p)'
      BY <2>4, <2>6, <2>8, <2>10, <2>12, <2>14 DEF HandOK
    <2>17. /\ rows' \in [Jobs -> Rows] /\ inserted' \in 0..MaxRows
           /\ AttemptsInStep' /\ \A k \in Jobs : RowOK(k)'
      BY <2>2, SameRows
    <2> QED BY <2>2, <2>8, <2>13, <2>15, <2>16, <2>17 DEF Inv, TypeOK, QueueInv, carVars, envVars
  <1>4. CASE ClaimsNothing(p)
    <2>1. /\ hand' = [hand EXCEPT ![p] = LoopOver(p)]
          /\ UNCHANGED <<queueVars, boot, envVars, inScope, carVars, faults>>
      BY <1>4 DEF ClaimsNothing
    <2>2. /\ rows' \in [Jobs -> Rows] /\ inserted' \in 0..MaxRows
          /\ AttemptsInStep' /\ OthersKept(p) /\ \A j \in Jobs : RowOK(j)'
      BY <2>1, SameRows
    <2>3. hand' \in [Procs -> Hands] /\ OneOwner' /\ \A q \in Procs : HandOK(q)'
      BY <2>1, <2>2, NextHands, Release
    <2> QED BY <2>1, <2>2, <2>3 DEF Inv, TypeOK, QueueInv, carVars, envVars
  <1>5. CASE ClaimCommits(p)
    <2> DEFINE j == hand[p].job
               r == Claimed(rows[j])
               h == [hand[p] EXCEPT !.pc = FirstStage(rows[j].kind)]
    <2>1. /\ hand[p].pc = "locked" /\ Holding(p)
          /\ rows' = [rows EXCEPT ![j] = r]
          /\ hand' = [hand EXCEPT ![p] = h]
          /\ UNCHANGED <<inserted, boot, envVars, inScope, carVars, faults>>
      BY <1>5 DEF ClaimCommits, Holding
    <2>2. j \in Jobs /\ j \in 1..inserted /\ rows[j] \in Rows /\ rows[j].kind # "none"
      BY <2>1, OwnRow
    <2>3. rows[j].status = "pending" /\ rows[j].attempts < MaxAttempts
      BY <2>1, <2>2 DEF Inv, QueueInv, HandOK, AttemptsInStep
    <2>4. /\ r \in Rows /\ r.status = "running" /\ r.attempts = rows[j].attempts + 1
          /\ r.kind = rows[j].kind /\ r.car = rows[j].car
      BY <2>2, <2>3, ClaimedRow
    <2>5. r.attempts > 0
      BY <2>2, <2>4 DEF Rows
    <2>6. /\ rows' \in [Jobs -> Rows] /\ rows'[j] = r
          /\ AttemptsInStep' /\ OthersKept(p) /\ \A k \in Jobs : RowOK(k)'
      BY <2>1, <2>4, <2>5, WriteKeeps
    <2>7. /\ FirstStage(rows[j].kind) \in {"decode", "fetch", "seed"}
          /\ FirstStage(rows[j].kind) = "decode" => rows[j].kind = "vin_decode"
      BY <2>2 DEF FirstStage, Rows
    <2>8. h \in Hands /\ h.pc = FirstStage(rows[j].kind) /\ h.job = j
      <3>1. hand[p] \in Hands /\ FirstStage(rows[j].kind) \in PCs
        BY <1>1, <2>7 DEF PCs, Stages, Fallible
      <3> QED BY <3>1, HandMoves
    <2> HIDE DEF h, r
    <2>9. hand' \in [Procs -> Hands] /\ hand'[p] = h /\ OnlyHand(p)
      BY <2>1, <2>8, HandSet
    <2>10. h.pc \in Stages /\ (h.pc \in VinStages => r.kind = "vin_decode")
      BY <2>4, <2>7, <2>8 DEF Stages, Fallible, VinStages
    <2>11. OneOwner' /\ \A q \in Procs : HandOK(q)'
      BY <2>1, <2>2, <2>4, <2>6, <2>8, <2>9, <2>10, GoesOn
    <2> QED BY <2>1, <2>6, <2>9, <2>11 DEF Inv, TypeOK, QueueInv, carVars, envVars
  <1>6. CASE Complete(p)
    <2> DEFINE j == hand[p].job
               r == Completed(rows[j])
    <2>1. /\ hand[p].pc = "ok" /\ Holding(p)
          /\ rows' = [rows EXCEPT ![j] = r]
          /\ hand' = [hand EXCEPT ![p] = AfterJob(p)]
          /\ UNCHANGED <<inserted, boot, envVars, inScope, carVars, faults>>
      BY <1>6 DEF Complete, At, Holding, Working, Stages
    <2>2. j \in Jobs /\ rows[j] \in Rows
      BY <2>1, OwnRow
    <2>3. r \in Rows /\ r.status = "done" /\ r.kind = rows[j].kind /\ r.car = rows[j].car
      BY <2>2, CompletedRow
    <2> HIDE DEF r
    <2>4. /\ rows' \in [Jobs -> Rows]
          /\ AttemptsInStep' /\ OthersKept(p) /\ \A k \in Jobs : RowOK(k)'
      BY <2>1, <2>3, WriteKeeps
    <2>5. hand' \in [Procs -> Hands] /\ OneOwner' /\ \A q \in Procs : HandOK(q)'
      BY <2>1, <2>4, NextHands, Release
    <2> QED BY <2>1, <2>4, <2>5 DEF Inv, TypeOK, QueueInv, carVars, envVars
  <1>7. CASE Fail(p)
    <2> DEFINE j == hand[p].job
               r == Retried(rows[j])
    <2>1. /\ hand[p].pc = "err" /\ Holding(p) /\ Working(p)
          /\ rows' = [rows EXCEPT ![j] = r]
          /\ hand' = [hand EXCEPT ![p] = AfterJob(p)]
          /\ UNCHANGED <<inserted, boot, envVars, inScope, carVars, faults>>
      BY <1>7 DEF Fail, At, Holding, Working, Stages
    <2>2. j \in Jobs /\ rows[j] \in Rows
      BY <2>1, OwnRow
    <2>3. /\ r \in Rows /\ r.kind = rows[j].kind /\ r.car = rows[j].car
          /\ r.attempts = rows[j].attempts
          /\ r.status = IF rows[j].attempts >= MaxAttempts THEN "failed" ELSE "pending"
      BY <2>2, RetriedRow
    <2>4. rows[j].attempts \in 0..MaxAttempts
      BY <2>2 DEF Rows
    <2>5. /\ r.status \in {"failed", "pending"}
          /\ r.status = "failed" => r.attempts = MaxAttempts
          /\ r.status = "pending" => r.attempts < MaxAttempts
      BY <2>3, <2>4
    <2> HIDE DEF r
    <2>6. /\ rows' \in [Jobs -> Rows]
          /\ AttemptsInStep' /\ OthersKept(p) /\ \A k \in Jobs : RowOK(k)'
      BY <2>1, <2>3, <2>5, WriteKeeps
    <2>7. hand' \in [Procs -> Hands] /\ OneOwner' /\ \A q \in Procs : HandOK(q)'
      BY <2>1, <2>6, NextHands, Release
    <2> QED BY <2>1, <2>6, <2>7 DEF Inv, TypeOK, QueueInv, carVars, envVars
  <1> QED BY <1>2, <1>3, <1>4, <1>5, <1>6, <1>7 DEF Loop

\* So does everything that can go wrong.
LEMMA FaultyKeeps ==
  ASSUME Inv, NEW p \in Procs, Faulty(p)
  PROVE  Inv'
  <1>1. faults' \in 0..MaxFaults
    BY DEF Faulty, ClaimFails, SettleLost, Stops, TickStartsUnread, Inv, TypeOK
  <1>2. CASE ClaimFails(p)
    <2> DEFINE j == hand[p].job
               r == Claimed(rows[j])
    <2>1. /\ hand[p].pc = "locked" /\ Holding(p)
          /\ UNCHANGED rows \/ rows' = [rows EXCEPT ![j] = r]
          /\ hand' = [hand EXCEPT ![p] = LoopOver(p)]
          /\ UNCHANGED <<inserted, boot, envVars, inScope, carVars>>
      BY <1>2 DEF ClaimFails, Holding
    <2>2. j \in Jobs /\ rows[j] \in Rows
      BY <2>1, OwnRow
    <2>3. rows[j].attempts < MaxAttempts
      BY <2>1, <2>2 DEF Inv, QueueInv, HandOK, AttemptsInStep
    <2>4. /\ r \in Rows /\ r.status = "running" /\ r.attempts = rows[j].attempts + 1
          /\ r.kind = rows[j].kind /\ r.car = rows[j].car
      BY <2>2, <2>3, ClaimedRow
    <2>5. r.attempts > 0
      BY <2>2, <2>4 DEF Rows
    <2> HIDE DEF r
    <2>6. /\ rows' \in [Jobs -> Rows] /\ inserted' \in 0..MaxRows
          /\ AttemptsInStep' /\ OthersKept(p) /\ \A k \in Jobs : RowOK(k)'
      <3>1. inserted' \in 0..MaxRows
        BY <2>1 DEF Inv, TypeOK
      <3>2. CASE UNCHANGED rows
        BY <2>1, <3>2, SameRows DEF queueVars
      <3>3. CASE rows' = [rows EXCEPT ![j] = r]
        BY <2>1, <2>4, <2>5, <3>1, <3>3, WriteKeeps
      <3> QED BY <2>1, <3>2, <3>3
    <2>7. hand' \in [Procs -> Hands] /\ OneOwner' /\ \A q \in Procs : HandOK(q)'
      BY <2>1, <2>6, NextHands, Release
    <2> QED BY <1>1, <2>1, <2>6, <2>7 DEF Inv, TypeOK, QueueInv, carVars, envVars
  <1>3. CASE SettleLost(p)
    <2>1. /\ hand' = [hand EXCEPT ![p] = AfterJob(p)]
          /\ UNCHANGED <<queueVars, boot, envVars, inScope, carVars>>
      BY <1>3 DEF SettleLost
    <2>2. /\ rows' \in [Jobs -> Rows] /\ inserted' \in 0..MaxRows
          /\ AttemptsInStep' /\ OthersKept(p) /\ \A j \in Jobs : RowOK(j)'
      BY <2>1, SameRows
    <2>3. hand' \in [Procs -> Hands] /\ OneOwner' /\ \A q \in Procs : HandOK(q)'
      BY <2>1, <2>2, NextHands, Release
    <2> QED BY <1>1, <2>1, <2>2, <2>3 DEF Inv, TypeOK, QueueInv, carVars, envVars
  <1>4. CASE Stops(p)
    <2>1. /\ hand' = [hand EXCEPT ![p] = Off]
          /\ boot' = [s \in Servers |-> IF s = p THEN "off" ELSE boot[s]]
          /\ UNCHANGED <<queueVars, envVars, inScope, carVars>>
      BY <1>4 DEF Stops
    <2>2. /\ rows' \in [Jobs -> Rows] /\ inserted' \in 0..MaxRows
          /\ AttemptsInStep' /\ OthersKept(p) /\ \A j \in Jobs : RowOK(j)'
      BY <2>1, SameRows
    <2>3. hand' \in [Procs -> Hands] /\ OneOwner' /\ \A q \in Procs : HandOK(q)'
      BY <2>1, <2>2, FreeHands, Release DEF Free
    <2> QED BY <1>1, <2>1, <2>2, <2>3 DEF Inv, TypeOK, QueueInv, carVars, envVars
  <1>5. CASE TickStartsUnread(p)
    <2> DEFINE h == [Off EXCEPT !.pc = "claim", !.left = TickJobs]
    <2>1. /\ hand' = [hand EXCEPT ![p] = h]
          /\ UNCHANGED <<queueVars, boot, envVars, inScope, carVars>>
      BY <1>5 DEF TickStartsUnread
    <2>2. /\ rows' \in [Jobs -> Rows] /\ inserted' \in 0..MaxRows
          /\ AttemptsInStep' /\ OthersKept(p) /\ \A j \in Jobs : RowOK(j)'
      BY <2>1, SameRows
    <2>3. TickJobs \in 0..TickJobs /\ TickJobs > 0
      OBVIOUS
    <2>4. h \in Hands /\ h.pc = "claim" /\ h.left = TickJobs
      BY <2>3, FreeHands
    <2>5. Free(p, h)
      BY <2>3, <2>4 DEF Free
    <2> HIDE DEF h
    <2>6. hand' \in [Procs -> Hands] /\ OneOwner' /\ \A q \in Procs : HandOK(q)'
      BY <2>1, <2>2, <2>4, <2>5, Release
    <2> QED BY <1>1, <2>1, <2>2, <2>6 DEF Inv, TypeOK, QueueInv, carVars, envVars
  <1> QED BY <1>2, <1>3, <1>4, <1>5 DEF Faulty

\* And so do servers that start and serve, drains that start and end, and time.
LEMMA OthersKeep ==
  ASSUME Inv,
         \/ \E s \in Servers : Boot(s) \/ TickStarts(s) \/ \E v \in Cars : CreateScan(s, v)
         \/ \E d \in Drainers : DrainTimesOut(d) \/ \E seed \in BOOLEAN : DrainStarts(d, seed)
         \/ \E j \in Jobs : BecomesDue(j)
         \/ PatchSetting \/ GrowsOld \/ ForceSeed
  PROVE  Inv'
  <1> USE DEF Procs
  <1>1. ASSUME NEW kind \in {"vin_decode", "seed_catalog"}, NEW car \in Cars \cup {NoCar},
               kind = "vin_decode" => car \in Cars, NEW forced \in BOOLEAN,
               Insert(kind, car, forced, TRUE)
        PROVE  /\ rows' \in [Jobs -> Rows] /\ inserted' \in 0..MaxRows
               /\ AttemptsInStep' /\ \A j \in Jobs : RowOK(j)'
               /\ \A p \in Procs : OthersKept(p) /\ (Holding(p) =>
                    rows'[hand[p].job] = rows[hand[p].job] /\ hand[p].job \in 1..inserted')
    <2>1. /\ rows' \in [Jobs -> Rows] /\ inserted' \in 0..MaxRows
          /\ AttemptsInStep' /\ \A j \in Jobs : RowOK(j)'
          /\ inserted' = inserted + 1
          /\ \A j \in 1..inserted : j \in Jobs /\ rows'[j] = rows[j]
      BY <1>1, InsertKeeps
    <2>2. \A p \in Procs : OthersKept(p)
      BY <2>1, AddedKeeps
    <2>3. ASSUME NEW p \in Procs, Holding(p)
          PROVE  rows'[hand[p].job] = rows[hand[p].job] /\ hand[p].job \in 1..inserted'
      <3>1. hand[p].job \in 1..inserted /\ inserted \in 0..MaxRows
        BY <2>3, OwnRow DEF Inv, TypeOK
      <3> QED BY <2>1, <3>1
    <2> QED BY <2>1, <2>2, <2>3
  <1>2. ASSUME UNCHANGED hand,
               \A p \in Procs : Holding(p) =>
                 rows'[hand[p].job] = rows[hand[p].job] /\ hand[p].job \in 1..inserted'
        PROVE  OneOwner' /\ \A q \in Procs : HandOK(q)'
    BY <1>2 DEF Inv, QueueInv, OneOwner, HandOK, Holding, Working, Stages, Fallible, VinStages
  <1>3. ASSUME NEW s \in Servers, ServerStarts(s) PROVE Inv'
    <2>1. /\ hand' = [hand EXCEPT ![s] = Resting]
          /\ boot' = [boot EXCEPT ![s] = "check"]
          /\ UNCHANGED <<queueVars, envVars, inScope, carVars, faults>>
      BY <1>3 DEF ServerStarts
    <2>2. /\ rows' \in [Jobs -> Rows] /\ inserted' \in 0..MaxRows
          /\ AttemptsInStep' /\ OthersKept(s) /\ \A j \in Jobs : RowOK(j)'
      BY <2>1, SameRows
    <2>3. hand' \in [Procs -> Hands] /\ OneOwner' /\ \A q \in Procs : HandOK(q)'
      BY <2>1, <2>2, FreeHands, Release DEF Free
    <2> QED BY <2>1, <2>2, <2>3 DEF Inv, TypeOK, QueueInv, carVars, envVars
  <1>4. ASSUME NEW s \in Servers, SeedCheck(s) PROVE Inv'
    <2>1. /\ boot' = [boot EXCEPT ![s] = IF HasRecentSeed THEN "up" ELSE "insert"]
          /\ UNCHANGED <<queueVars, hand, envVars, inScope, carVars, faults>>
      BY <1>4 DEF SeedCheck
    <2>2. boot' \in [Servers -> {"off", "check", "insert", "up"}]
      BY <2>1 DEF Inv, TypeOK
    <2>3. /\ rows' \in [Jobs -> Rows] /\ inserted' \in 0..MaxRows
          /\ AttemptsInStep' /\ \A j \in Jobs : RowOK(j)'
      BY <2>1, SameRows
    <2>4. OneOwner' /\ \A q \in Procs : HandOK(q)'
      BY <2>1 DEF Inv, QueueInv, OneOwner, HandOK, Holding, Working, queueVars
    <2> QED BY <2>1, <2>2, <2>3, <2>4 DEF Inv, TypeOK, QueueInv, carVars, envVars
  <1>5. ASSUME NEW s \in Servers, SeedInsert(s) PROVE Inv'
    <2>1. /\ Insert("seed_catalog", NoCar, FALSE, TRUE) \/ UNCHANGED queueVars
          /\ boot' = [boot EXCEPT ![s] = "up"]
          /\ UNCHANGED <<hand, envVars, inScope, carVars, faults>>
      BY <1>5 DEF SeedInsert
    <2>2. CASE Insert("seed_catalog", NoCar, FALSE, TRUE)
      <3>1. OneOwner' /\ \A q \in Procs : HandOK(q)'
        BY <1>1, <1>2, <2>1, <2>2
      <3> QED BY <1>1, <2>1, <2>2, <3>1 DEF Inv, TypeOK, QueueInv, carVars, envVars
    <2>3. CASE UNCHANGED queueVars
      <3>1. /\ rows' \in [Jobs -> Rows] /\ inserted' \in 0..MaxRows
            /\ AttemptsInStep' /\ \A j \in Jobs : RowOK(j)'
        BY <2>3, SameRows
      <3>2. OneOwner' /\ \A q \in Procs : HandOK(q)'
        BY <2>1, <2>3 DEF Inv, QueueInv, OneOwner, HandOK, Holding, Working, queueVars
      <3> QED BY <2>1, <3>1, <3>2 DEF Inv, TypeOK, QueueInv, carVars, envVars
    <2> QED BY <2>1, <2>2, <2>3
  <1>6. ASSUME NEW s \in Servers, TickStarts(s) PROVE Inv'
    <2> DEFINE h == [Off EXCEPT !.pc = "claim", !.left = TickJobs]
    <2>1. /\ hand' = [hand EXCEPT ![s] = h]
          /\ UNCHANGED <<queueVars, boot, envVars, inScope, carVars, faults>>
      BY <1>6 DEF TickStarts
    <2>2. /\ rows' \in [Jobs -> Rows] /\ inserted' \in 0..MaxRows
          /\ AttemptsInStep' /\ OthersKept(s) /\ \A j \in Jobs : RowOK(j)'
      BY <2>1, SameRows
    <2>3. TickJobs \in 0..TickJobs /\ TickJobs > 0
      OBVIOUS
    <2>4. h \in Hands /\ h.pc = "claim" /\ h.left = TickJobs
      BY <2>3, FreeHands
    <2>5. Free(s, h)
      BY <2>3, <2>4 DEF Free
    <2> HIDE DEF h
    <2>6. hand' \in [Procs -> Hands] /\ OneOwner' /\ \A q \in Procs : HandOK(q)'
      BY <2>1, <2>2, <2>4, <2>5, Release
    <2> QED BY <2>1, <2>2, <2>6 DEF Inv, TypeOK, QueueInv, carVars, envVars
  <1>7. ASSUME NEW s \in Servers, NEW v \in Cars, CreateScan(s, v) PROVE Inv'
    <2>1. /\ Insert("vin_decode", v, FALSE, TRUE)
          /\ UNCHANGED <<hand, boot, envVars, inScope, carVars, faults>>
      BY <1>7 DEF CreateScan
    <2>2. OneOwner' /\ \A q \in Procs : HandOK(q)'
      BY <1>1, <1>2, <2>1
    <2> QED BY <1>1, <2>1, <2>2 DEF Inv, TypeOK, QueueInv, carVars, envVars
  <1>8. ASSUME NEW d \in Drainers, DrainTimesOut(d) PROVE Inv'
    <2>1. /\ hand' = [hand EXCEPT ![d] = Off]
          /\ UNCHANGED <<queueVars, boot, envVars, inScope, carVars, faults>>
      BY <1>8 DEF DrainTimesOut
    <2>2. /\ rows' \in [Jobs -> Rows] /\ inserted' \in 0..MaxRows
          /\ AttemptsInStep' /\ OthersKept(d) /\ \A j \in Jobs : RowOK(j)'
      BY <2>1, SameRows
    <2>3. hand' \in [Procs -> Hands] /\ OneOwner' /\ \A q \in Procs : HandOK(q)'
      BY <2>1, <2>2, FreeHands, Release DEF Free
    <2> QED BY <2>1, <2>2, <2>3 DEF Inv, TypeOK, QueueInv, carVars, envVars
  <1>9. ASSUME NEW d \in Drainers, NEW seed \in BOOLEAN, DrainStarts(d, seed) PROVE Inv'
    <2> DEFINE h == [Off EXCEPT !.pc = "claim"]
    <2>1. /\ Insert("seed_catalog", NoCar, TRUE, TRUE) \/ UNCHANGED queueVars
          /\ hand' = [hand EXCEPT ![d] = h]
          /\ UNCHANGED <<boot, envVars, inScope, carVars, faults>>
      BY <1>9 DEF DrainStarts
    <2>2. /\ rows' \in [Jobs -> Rows] /\ inserted' \in 0..MaxRows
          /\ AttemptsInStep' /\ OthersKept(d) /\ \A j \in Jobs : RowOK(j)'
      BY <1>1, <2>1, SameRows
    <2>3. h \in Hands /\ Free(d, h)
      BY FreeHands DEF Free
    <2> HIDE DEF h
    <2>4. hand' \in [Procs -> Hands] /\ OneOwner' /\ \A q \in Procs : HandOK(q)'
      BY <2>1, <2>2, <2>3, Release
    <2> QED BY <2>1, <2>2, <2>4 DEF Inv, TypeOK, QueueInv, carVars, envVars
  <1>10. ASSUME NEW j \in Jobs, BecomesDue(j) PROVE Inv'
    <2> DEFINE r == [rows[j] EXCEPT !.due = TRUE]
    <2>1. /\ rows' = [rows EXCEPT ![j] = r]
          /\ UNCHANGED <<inserted, hand, boot, envVars, inScope, carVars, faults>>
          /\ rows \in [Jobs -> Rows] /\ rows[j] \in Rows
      BY <1>10 DEF BecomesDue, Inv, TypeOK
    <2>2. /\ r \in Rows /\ r.status = rows[j].status /\ r.attempts = rows[j].attempts
          /\ r.kind = rows[j].kind /\ r.car = rows[j].car
      BY <2>1 DEF Rows
    <2> HIDE DEF r
    <2>3. /\ rows' \in [Jobs -> Rows]
          /\ \A k \in Jobs : /\ rows'[k].status = rows[k].status
                             /\ rows'[k].attempts = rows[k].attempts
                             /\ rows'[k].kind = rows[k].kind /\ rows'[k].car = rows[k].car
      BY <2>1, <2>2
    <2>4. AttemptsInStep' /\ \A k \in Jobs : RowOK(k)'
      BY <2>1, <2>3 DEF Inv, QueueInv, AttemptsInStep, RowOK
    <2>5. \A q \in Procs : Holding(q) => hand[q].job \in Jobs
      BY OwnRow
    <2>6. OneOwner' /\ \A q \in Procs : HandOK(q)'
      BY <2>1, <2>3, <2>5 DEF Inv, QueueInv, OneOwner, HandOK, Holding, Working,
                              Stages, Fallible, VinStages
    <2> QED BY <2>1, <2>3, <2>4, <2>6 DEF Inv, TypeOK, QueueInv, carVars, envVars
  <1>11. ASSUME PatchSetting \/ GrowsOld PROVE Inv'
    <2>1. /\ enabled' \in BOOLEAN /\ aged' \in 0..MaxRows
          /\ UNCHANGED <<queueVars, hand, boot, inScope, carVars, faults>>
      <3>1. enabled \in BOOLEAN /\ aged \in 0..MaxRows /\ inserted \in 0..MaxRows
        BY DEF Inv, TypeOK
      <3>2. CASE PatchSetting
        <4>1. (~enabled) \in BOOLEAN
          OBVIOUS
        <4> QED BY <3>1, <3>2, <4>1 DEF PatchSetting
      <3>3. CASE GrowsOld
        <4>1. \A n \in 1..inserted : n \in 0..MaxRows
          BY <3>1
        <4> QED BY <3>1, <3>3, <4>1 DEF GrowsOld
      <3> QED BY <1>11, <3>2, <3>3
    <2>2. /\ rows' \in [Jobs -> Rows] /\ inserted' \in 0..MaxRows
          /\ AttemptsInStep' /\ \A j \in Jobs : RowOK(j)'
      BY <2>1, SameRows
    <2>3. OneOwner' /\ \A q \in Procs : HandOK(q)'
      BY <2>1 DEF Inv, QueueInv, OneOwner, HandOK, Holding, Working, queueVars
    <2> QED BY <2>1, <2>2, <2>3 DEF Inv, TypeOK, QueueInv, carVars, envVars
  <1>12. ASSUME ForceSeed PROVE Inv'
    <2>1. /\ Insert("seed_catalog", NoCar, TRUE, TRUE)
          /\ UNCHANGED <<hand, boot, envVars, inScope, carVars, faults>>
      BY <1>12 DEF ForceSeed
    <2>2. OneOwner' /\ \A q \in Procs : HandOK(q)'
      BY <1>1, <1>2, <2>1
    <2> QED BY <1>1, <2>1, <2>2 DEF Inv, TypeOK, QueueInv, carVars, envVars
  <1> QED BY <1>3, <1>4, <1>5, <1>6, <1>7, <1>8, <1>9, <1>10, <1>11, <1>12 DEF Boot
-----------------------------------------------------------------------------
(* Theorems *)

\* The table starts empty and every process off.
LEMMA InitInv == Init => Inv
  <1> SUFFICES ASSUME Init PROVE Inv
    OBVIOUS
  <1>1. NoRow \in Rows /\ NoRow.status = "none" /\ NoRow.kind = "none"
    BY DEF NoRow, Rows
  <1>2. TypeOK
    <2>1. 0 \in 0..MaxRows /\ 0 \in 0..MaxFaults
      OBVIOUS
    <2>2. rows \in [Jobs -> Rows] /\ hand \in [Procs -> Hands]
      BY <1>1, FreeHands DEF Init
    <2>3. inserted \in 0..MaxRows /\ faults \in 0..MaxFaults
      BY <2>1 DEF Init
    <2> QED BY <2>2, <2>3 DEF Init, TypeOK
  <1>3. \A p \in Procs : hand[p].pc = "off"
    BY FreeHands DEF Init
  <1>4. \A p \in Procs : ~Holding(p) /\ ~Working(p) /\ hand[p].pc \notin VinStages
    BY <1>3 DEF Holding, Working, Stages, Fallible, VinStages
  <1>5. \A j \in Jobs : rows[j] = NoRow
    BY DEF Init
  <1>6. OneOwner /\ AttemptsInStep
    BY <1>1, <1>4, <1>5 DEF OneOwner, AttemptsInStep
  <1>7. \A p \in Procs : HandOK(p)
    BY <1>3, <1>4 DEF HandOK
  <1>8. \A j \in Jobs : RowOK(j)
    BY <1>1, <1>5 DEF RowOK
  <1> QED BY <1>2, <1>6, <1>7, <1>8 DEF Inv, QueueInv

\* The invariant holds of every reachable state.
LEMMA Invariance == Spec => []Inv
  <1>1. Init => Inv
    BY InitInv
  <1>2. Inv /\ [Next]_vars => Inv'
    <2> SUFFICES ASSUME Inv, [Next]_vars PROVE Inv'
      OBVIOUS
    <2>1. CASE \E p \in Procs : Loop(p) \/ Faulty(p)
      BY <2>1, LoopKeeps, FaultyKeeps
    <2>2. CASE \/ \E s \in Servers : Boot(s) \/ TickStarts(s) \/ \E v \in Cars : CreateScan(s, v)
               \/ \E d \in Drainers : DrainTimesOut(d) \/ \E seed \in BOOLEAN : DrainStarts(d, seed)
               \/ \E j \in Jobs : BecomesDue(j)
               \/ PatchSetting \/ GrowsOld \/ ForceSeed
      BY <2>2, OthersKeep
    <2>3. CASE UNCHANGED vars
      BY <2>3 DEF vars, queueVars, carVars, envVars, Inv, TypeOK, QueueInv, OneOwner, AttemptsInStep,
                  HandOK, RowOK, Holding, Working
    <2> QED BY <2>1, <2>2, <2>3 DEF Next
  <1> QED BY <1>1, <1>2, PTL DEF Spec

\* Every variable keeps its type: the attempts of a job never pass MaxAttempts,
\* and a worker never claims more than TickJobs jobs in a tick.
THEOREM TypeCorrect == Spec => []TypeOK
  <1>1. Inv => TypeOK
    BY DEF Inv
  <1> QED BY <1>1, Invariance, PTL

\* Two processes never work on the same job, for any number of servers and drains.
THEOREM JobHasOneOwner == Spec => []OneOwner
  <1>1. Inv => OneOwner
    BY DEF Inv, QueueInv
  <1> QED BY <1>1, Invariance, PTL

\* The inductive form, with the attempts that go with each status.
THEOREM QueueInvariant == Spec => []QueueInv
  <1>1. Inv => QueueInv
    BY DEF Inv
  <1> QED BY <1>1, Invariance, PTL

\* A job that is done or given up is never touched again, although no statement
\* that writes to a row looks at its status.
THEOREM SettledStaysSettled == Spec => SettledStays
  <1> DEFINE Kept == \A j \in Jobs : rows[j].status \in {"done", "failed"} => rows'[j] = rows[j]
  <1>1. Inv /\ [Next]_vars => [Kept]_vars
    <2> SUFFICES ASSUME Inv, Next, NEW j \in Jobs, rows[j].status \in {"done", "failed"}
                 PROVE  rows'[j] = rows[j]
      BY DEF vars
    <2>1. rows \in [Jobs -> Rows] /\ inserted \in 0..MaxRows
      BY DEF Inv, TypeOK
    <2>2. \A kind, car, forced, due : Insert(kind, car, forced, due) => rows'[j] = rows[j]
      <3>1. j # inserted + 1
        BY <2>1 DEF Inv, QueueInv, RowOK
      <3> QED BY <2>1, <3>1 DEF Insert
    <2>3. \A p \in Procs : Holding(p) => hand[p].job # j
      BY DEF Inv, QueueInv, OneOwner, HandOK, Holding
    <2>4. ASSUME NEW p \in Procs, Loop(p) \/ Faulty(p) PROVE rows'[j] = rows[j]
      <3>1. CASE Process(p)
        BY <2>2, <3>1 DEF Process, StageFails, Decode, SaveIdentity, SaveEnrichment, Attach,
             Follow, Fetch, UpsertNext, UpsertEnds, AttachFetched, Wait, SeedNext, queueVars
      <3>2. CASE \/ ClaimLocks(p) \/ ClaimsNothing(p) \/ SettleLost(p) \/ Stops(p)
                 \/ TickStartsUnread(p)
        BY <3>2 DEF ClaimLocks, ClaimsNothing, SettleLost, Stops, TickStartsUnread, queueVars
      <3>3. CASE ClaimCommits(p) \/ ClaimFails(p) \/ Complete(p) \/ Fail(p)
        <4>1. Holding(p)
          BY <3>3 DEF ClaimCommits, ClaimFails, Complete, Fail, At, Holding, Working, Stages
        <4> QED BY <2>1, <2>3, <3>3, <4>1 DEF ClaimCommits, ClaimFails, Complete, Fail
      <3> QED BY <2>4, <3>1, <3>2, <3>3 DEF Loop, Faulty
    <2>5. ASSUME NEW s \in Servers,
                 Boot(s) \/ TickStarts(s) \/ \E v \in Cars : CreateScan(s, v)
          PROVE  rows'[j] = rows[j]
      BY <2>2, <2>5 DEF Boot, ServerStarts, SeedCheck, SeedInsert, TickStarts, CreateScan, queueVars
    <2>6. ASSUME NEW d \in Drainers,
                 DrainTimesOut(d) \/ \E seed \in BOOLEAN : DrainStarts(d, seed)
          PROVE  rows'[j] = rows[j]
      BY <2>2, <2>6 DEF DrainTimesOut, DrainStarts, queueVars
    <2>7. ASSUME NEW k \in Jobs, BecomesDue(k) PROVE rows'[j] = rows[j]
      BY <2>1, <2>7 DEF BecomesDue
    <2>8. ASSUME PatchSetting \/ GrowsOld \/ ForceSeed PROVE rows'[j] = rows[j]
      BY <2>2, <2>8 DEF PatchSetting, GrowsOld, ForceSeed, queueVars
    <2> QED BY <2>4, <2>5, <2>6, <2>7, <2>8 DEF Next
  <1>2. Spec => [][Kept]_vars
    BY <1>1, Invariance, PTL DEF Spec
  <1> QED BY <1>2 DEF SettledStays
-----------------------------------------------------------------------------
(* What a step can do to a row *)

\* Row j is what it was about.
SameTask(j) ==
  /\ rows'[j].kind = rows[j].kind
  /\ rows'[j].car = rows[j].car
  /\ rows'[j].forced = rows[j].forced

\* Row j is claimed, offered again or given up.
Rewritten(j) ==
  /\ SameTask(j)
  /\ rows[j].status \in {"pending", "running"}
  /\ rows'[j].status \in {"pending", "running", "failed"}

\* Row j is done: the process that held it was at the end of its job.
DoneByHolder(j) ==
  /\ SameTask(j)
  /\ rows[j].status = "running" /\ rows'[j].status = "done"
  /\ \E p \in Procs : hand[p].pc = "ok" /\ hand[p].job = j

\* Row j is new.
Fresh(j) ==
  /\ rows[j].status = "none" /\ rows'[j].status = "pending"
  /\ rows'[j].kind \in {"vin_decode", "recalls_mmy", "seed_catalog"}
  /\ rows'[j].kind = "recalls_mmy" /\ rows'[j].car # NoCar => rows'[j].car \in inScope
  /\ rows'[j].kind = "seed_catalog" => rows'[j].forced \/ \E s \in Servers : SeedInsert(s)

RowStep(j) == rows'[j] = rows[j] \/ Rewritten(j) \/ DoneByHolder(j) \/ Fresh(j)

\* An insert makes one row of what it is told.
LEMMA InsertedRow ==
  ASSUME Inv, NEW kind \in {"vin_decode", "recalls_mmy", "seed_catalog"},
         NEW car \in Cars \cup {NoCar}, NEW forced \in BOOLEAN, NEW due \in BOOLEAN,
         Insert(kind, car, forced, due)
  PROVE  \E k \in Jobs :
           /\ rows[k].status = "none"
           /\ rows'[k].status = "pending" /\ rows'[k].kind = kind
           /\ rows'[k].car = car /\ rows'[k].forced = forced
           /\ \A j \in Jobs : j # k => rows'[j] = rows[j]
  <1> DEFINE r == NewRow(kind, car, forced, due)
  <1>1. r.status = "pending" /\ r.kind = kind /\ r.car = car /\ r.forced = forced
    BY FreshRow
  <1>2. /\ inserted \in 0..MaxRows /\ inserted < MaxRows
        /\ rows' = [rows EXCEPT ![inserted + 1] = r]
        /\ rows \in [Jobs -> Rows]
    BY DEF Insert, Inv, TypeOK
  <1> HIDE DEF r
  <1>3. PICK k \in Jobs : k = inserted + 1
    BY <1>2 DEF Jobs
  <1>4. rows'[k] = r /\ \A j \in Jobs : j # k => rows'[j] = rows[j]
    BY <1>2, <1>3
  <1>5. rows[k].status = "none"
    BY <1>2, <1>3 DEF Inv, QueueInv, RowOK, Jobs
  <1> QED BY <1>1, <1>4, <1>5

\* What is queued without a car and without force.
LEMMA ServerRow ==
  ASSUME Inv, NEW kind \in {"recalls_mmy", "seed_catalog"}, NEW due \in BOOLEAN,
         Insert(kind, NoCar, FALSE, due)
  PROVE  \E k \in Jobs :
           /\ rows[k].status = "none"
           /\ rows'[k].kind = kind /\ rows'[k].car = NoCar
           /\ \A j \in Jobs : j # k => rows'[j] = rows[j]
  <1>1. PICK forced \in BOOLEAN : Insert(kind, NoCar, forced, due)
    <2>1. FALSE \in BOOLEAN
      OBVIOUS
    <2> QED BY <2>1, Zenon
  <1>2. NoCar \in Cars \cup {NoCar} /\ kind \in {"vin_decode", "recalls_mmy", "seed_catalog"}
    OBVIOUS
  <1> QED BY <1>1, <1>2, InsertedRow

\* So an insert is a step of the rows, whatever else happens.
LEMMA InsertSteps ==
  ASSUME Inv, NEW kind \in {"vin_decode", "recalls_mmy", "seed_catalog"},
         NEW car \in Cars \cup {NoCar}, NEW forced \in BOOLEAN, NEW due \in BOOLEAN,
         kind = "recalls_mmy" /\ car # NoCar => car \in inScope,
         kind = "seed_catalog" => forced \/ \E s \in Servers : SeedInsert(s),
         Insert(kind, car, forced, due)
  PROVE  \A j \in Jobs : RowStep(j)
  <1>1. PICK k \in Jobs :
          /\ rows[k].status = "none"
          /\ rows'[k].status = "pending" /\ rows'[k].kind = kind
          /\ rows'[k].car = car /\ rows'[k].forced = forced
          /\ \A j \in Jobs : j # k => rows'[j] = rows[j]
    BY InsertedRow
  <1>2. Fresh(k)
    BY <1>1 DEF Fresh
  <1> QED BY <1>1, <1>2 DEF RowStep

\* A write of row r to the row that p holds.
LEMMA OwnWrite ==
  ASSUME Inv, NEW p \in Procs, Holding(p), NEW r,
         rows' = [rows EXCEPT ![hand[p].job] = r]
  PROVE  /\ hand[p].job \in Jobs
         /\ rows[hand[p].job] \in Rows
         /\ rows'[hand[p].job] = r
         /\ \A j \in Jobs : j # hand[p].job => rows'[j] = rows[j]
  <1>1. hand[p].job \in Jobs /\ rows[hand[p].job] \in Rows
    BY OwnRow
  <1>2. rows \in [Jobs -> Rows]
    BY DEF Inv, TypeOK
  <1> QED BY <1>1, <1>2

\* Every step does one of these to each row.
LEMMA RowSteps ==
  ASSUME Inv, WorkInv, [Next]_vars
  PROVE  \A j \in Jobs : RowStep(j)
  <1>1. ASSUME UNCHANGED rows PROVE \A j \in Jobs : RowStep(j)
    BY <1>1 DEF RowStep
  <1>2. ASSUME NEW p \in Procs, Process(p) PROVE \A j \in Jobs : RowStep(j)
    <2>1. CASE UNCHANGED rows
      BY <1>1, <2>1
    <2>2. CASE Follow(p) /\ Insert("recalls_mmy", CarOf(p), FALSE, TRUE)
      <3>1. CarOf(p) \in inScope /\ CarOf(p) \in Cars
        BY <2>2 DEF Follow, At, WorkInv, StageOK, CarOf, Inv, TypeOK
      <3> QED BY <2>2, <3>1, InsertSteps
    <2>3. CASE SeedNext(p) /\ Insert("recalls_mmy", NoCar, FALSE, hand[p].n = 0)
      BY <2>3, InsertSteps
    <2> QED BY <1>2, <2>1, <2>2, <2>3 DEF Process, StageFails, Decode, SaveIdentity,
              SaveEnrichment, Attach, Follow, Fetch, UpsertNext, UpsertEnds, AttachFetched,
              Wait, SeedNext, queueVars
  <1>3. ASSUME NEW p \in Procs, ClaimCommits(p) \/ ClaimFails(p)
        PROVE  \A j \in Jobs : RowStep(j)
    <2>1. CASE UNCHANGED rows
      BY <1>1, <2>1
    <2>2. CASE rows' = [rows EXCEPT ![hand[p].job] = Claimed(@)]
      <3>1. hand[p].pc = "locked" /\ Holding(p)
        BY <1>3 DEF ClaimCommits, ClaimFails, Holding
      <3>2. /\ hand[p].job \in Jobs /\ rows[hand[p].job] \in Rows
            /\ rows'[hand[p].job] = Claimed(rows[hand[p].job])
            /\ \A j \in Jobs : j # hand[p].job => rows'[j] = rows[j]
        BY <2>2, <3>1, OwnWrite
      <3>3. rows[hand[p].job].status = "pending"
        BY <3>1 DEF Inv, QueueInv, HandOK
      <3>4. rows[hand[p].job].attempts < MaxAttempts
        BY <3>2, <3>3 DEF Inv, QueueInv, AttemptsInStep
      <3>5. Rewritten(hand[p].job)
        BY <3>2, <3>3, <3>4, ClaimedRow DEF Rewritten, SameTask
      <3> QED BY <3>2, <3>5 DEF RowStep
    <2> QED BY <1>3, <2>1, <2>2 DEF ClaimCommits, ClaimFails
  <1>4. ASSUME NEW p \in Procs, Complete(p) PROVE \A j \in Jobs : RowStep(j)
    <2>1. hand[p].pc = "ok" /\ Working(p) /\ Holding(p)
      BY <1>4 DEF Complete, At, Working, Holding, Stages
    <2>2. /\ hand[p].job \in Jobs /\ rows[hand[p].job] \in Rows
          /\ rows'[hand[p].job] = Completed(rows[hand[p].job])
          /\ \A j \in Jobs : j # hand[p].job => rows'[j] = rows[j]
      BY <1>4, <2>1, OwnWrite DEF Complete
    <2>3. rows[hand[p].job].status = "running"
      BY <2>1 DEF Inv, QueueInv, OneOwner
    <2>4. DoneByHolder(hand[p].job)
      BY <2>1, <2>2, <2>3, CompletedRow DEF DoneByHolder, SameTask
    <2> QED BY <2>2, <2>4 DEF RowStep
  <1>5. ASSUME NEW p \in Procs, Fail(p) PROVE \A j \in Jobs : RowStep(j)
    <2>1. hand[p].pc = "err" /\ Working(p) /\ Holding(p)
      BY <1>5 DEF Fail, At, Working, Holding, Stages
    <2>2. /\ hand[p].job \in Jobs /\ rows[hand[p].job] \in Rows
          /\ rows'[hand[p].job] = Retried(rows[hand[p].job])
          /\ \A j \in Jobs : j # hand[p].job => rows'[j] = rows[j]
      BY <1>5, <2>1, OwnWrite DEF Fail
    <2>3. rows[hand[p].job].status = "running"
      BY <2>1 DEF Inv, QueueInv, OneOwner
    <2>4. Rewritten(hand[p].job)
      BY <2>2, <2>3, RetriedRow DEF Rewritten, SameTask
    <2> QED BY <2>2, <2>4 DEF RowStep
  <1>6. ASSUME NEW j \in Jobs, BecomesDue(j) PROVE \A i \in Jobs : RowStep(i)
    <2>1. rows \in [Jobs -> Rows] /\ rows[j] \in Rows
      BY DEF Inv, TypeOK
    <2> DEFINE r == [rows[j] EXCEPT !.due = TRUE]
    <2>2. /\ r.status = rows[j].status /\ r.kind = rows[j].kind
          /\ r.car = rows[j].car /\ r.forced = rows[j].forced
      BY <2>1 DEF Rows
    <2>3. rows' = [rows EXCEPT ![j] = r] /\ rows[j].status = "pending"
      BY <1>6 DEF BecomesDue
    <2> HIDE DEF r
    <2>4. rows'[j] = r /\ \A i \in Jobs : i # j => rows'[i] = rows[i]
      BY <2>1, <2>3
    <2>5. Rewritten(j)
      BY <2>2, <2>3, <2>4 DEF Rewritten, SameTask
    <2> QED BY <2>4, <2>5 DEF RowStep
  <1>7. ASSUME NEW forced \in BOOLEAN, Insert("seed_catalog", NoCar, forced, TRUE),
               forced \/ \E s \in Servers : SeedInsert(s)
        PROVE  \A j \in Jobs : RowStep(j)
    BY <1>7, InsertSteps
  <1>8. ASSUME NEW s \in Servers, NEW v \in Cars, CreateScan(s, v)
        PROVE  \A j \in Jobs : RowStep(j)
    BY <1>8, InsertSteps DEF CreateScan
  <1>9. ASSUME NEW s \in Servers, Boot(s) \/ TickStarts(s) PROVE \A j \in Jobs : RowStep(j)
    BY <1>1, <1>7, <1>9 DEF Boot, ServerStarts, SeedCheck, SeedInsert, TickStarts, queueVars
  <1>10. ASSUME NEW d \in Drainers, DrainTimesOut(d) \/ \E seed \in BOOLEAN : DrainStarts(d, seed)
         PROVE  \A j \in Jobs : RowStep(j)
    BY <1>1, <1>7, <1>10 DEF DrainTimesOut, DrainStarts, queueVars
  <1>11. ASSUME NEW p \in Procs,
                \/ ClaimLocks(p) \/ ClaimsNothing(p) \/ SettleLost(p) \/ Stops(p)
                \/ TickStartsUnread(p)
         PROVE  UNCHANGED rows
    BY <1>11 DEF ClaimLocks, ClaimsNothing, SettleLost, Stops, TickStartsUnread, queueVars
  <1>12. ASSUME PatchSetting \/ GrowsOld \/ ForceSeed \/ UNCHANGED vars PROVE \A j \in Jobs : RowStep(j)
    BY <1>1, <1>7, <1>12 DEF PatchSetting, GrowsOld, ForceSeed, vars, queueVars
  <1> QED BY <1>1, <1>2, <1>3, <1>4, <1>5, <1>6, <1>8, <1>9, <1>10, <1>11, <1>12
             DEF Next, Loop, Faulty
-----------------------------------------------------------------------------
(* What a step can do to a hand, and what its stage then says *)

\* What is known of the cars only grows, and a car once found in scope stays so.
CarsGrow ==
  /\ inScope \subseteq inScope'
  /\ known \subseteq known' /\ enriched \subseteq enriched' /\ catalog \subseteq catalog'

LEMMA CarSteps ==
  ASSUME [Next]_vars
  PROVE  CarsGrow
  <1>1. ASSUME NEW p \in Procs, Process(p) PROVE CarsGrow
    BY <1>1 DEF Process, StageFails, Decode, SaveIdentity, SaveEnrichment, Attach, Follow,
         Fetch, UpsertNext, UpsertEnds, AttachFetched, Wait, SeedNext, carVars, CarsGrow
  <1>2. ASSUME NEW p \in Procs,
               \/ ClaimLocks(p) \/ ClaimsNothing(p) \/ ClaimCommits(p) \/ Complete(p) \/ Fail(p)
               \/ Faulty(p)
        PROVE  CarsGrow
    BY <1>2 DEF ClaimLocks, ClaimsNothing, ClaimCommits, Complete, Fail, Faulty, ClaimFails,
         SettleLost, Stops, TickStartsUnread, carVars, CarsGrow
  <1>3. ASSUME NEW s \in Servers, Boot(s) \/ TickStarts(s) \/ \E v \in Cars : CreateScan(s, v)
        PROVE  CarsGrow
    BY <1>3 DEF Boot, ServerStarts, SeedCheck, SeedInsert, TickStarts, CreateScan, carVars, CarsGrow
  <1>4. ASSUME NEW d \in Drainers, DrainTimesOut(d) \/ \E seed \in BOOLEAN : DrainStarts(d, seed)
        PROVE  CarsGrow
    BY <1>4 DEF DrainTimesOut, DrainStarts, carVars, CarsGrow
  <1>5. ASSUME NEW j \in Jobs, BecomesDue(j) PROVE CarsGrow
    BY <1>5 DEF BecomesDue, carVars, CarsGrow
  <1>6. ASSUME PatchSetting \/ GrowsOld \/ ForceSeed \/ UNCHANGED vars PROVE CarsGrow
    BY <1>6 DEF PatchSetting, GrowsOld, ForceSeed, vars, carVars, CarsGrow
  <1> QED BY <1>1, <1>2, <1>3, <1>4, <1>5, <1>6 DEF Next, Loop

\* A row that is in the table stays about what it is about.
LEMMA TaskKept ==
  ASSUME NEW j \in Jobs, RowStep(j), rows[j].status # "none"
  PROVE  rows'[j].kind = rows[j].kind /\ rows'[j].car = rows[j].car
         /\ rows'[j].forced = rows[j].forced
  BY DEF RowStep, Rewritten, DoneByHolder, Fresh, SameTask

\* The same for the row that a process holds.
LEMMA HeldTaskKept ==
  ASSUME Inv, \A j \in Jobs : RowStep(j), NEW p \in Procs, Holding(p)
  PROVE  /\ hand[p].job \in Jobs
         /\ rows[hand[p].job].status # "none"
         /\ rows'[hand[p].job].kind = rows[hand[p].job].kind
         /\ rows'[hand[p].job].car = rows[hand[p].job].car
  <1>1. hand[p].job \in Jobs /\ rows[hand[p].job].status # "none"
    BY OwnRow DEF Inv, QueueInv, OneOwner, HandOK, Holding
  <1> QED BY <1>1, TaskKept

\* A process whose hand stays where it is knows what it knew.
LEMMA StageKept ==
  ASSUME Inv, \A j \in Jobs : RowStep(j), CarsGrow, NEW p \in Procs, StageOK(p),
         hand'[p] = hand[p]
  PROVE  StageOK(p)'
  <1>1. CASE Holding(p)
    <2>1. /\ rows'[hand[p].job].kind = rows[hand[p].job].kind
          /\ rows'[hand[p].job].car = rows[hand[p].job].car
      BY <1>1, HeldTaskKept
    <2>2. /\ \A x : x \in known => x \in known'
          /\ \A x : x \in enriched => x \in enriched'
          /\ \A x : x \in inScope => x \in inScope'
      BY DEF CarsGrow
    <2> QED BY <2>1, <2>2 DEF StageOK
  <1>2. CASE ~Holding(p)
    <2>1. hand'[p].pc \notin Stages /\ hand'[p].pc # "locked"
      BY <1>2 DEF Holding, Working
    <2> QED BY <2>1 DEF StageOK, Stages, Fallible
  <1> QED BY <1>1, <1>2

\* A process with nothing in hand has nothing to answer for.
LEMMA StageFree ==
  ASSUME NEW p \in Procs, hand'[p].pc \in {"off", "rest", "claim"}
  PROVE  StageOK(p)' /\ hand'[p].pc \notin {"seed", "ok"}
  BY DEF StageOK
\* How a process can come to be at a seed, or at the end of one.
SeedStep(p) ==
  hand'[p].pc \in {"seed", "ok"} =>
    /\ hand'[p].job = hand[p].job
    /\ \/ hand'[p].n = hand[p].n /\ hand[p].pc \in {"seed", "ok"}
       \/ hand'[p].n = 0
       \/ rows'[hand[p].job].kind # "seed_catalog"
       \/ /\ hand[p].pc = "seed" /\ hand'[p].n = hand[p].n + 1
          /\ Insert("recalls_mmy", NoCar, FALSE, hand[p].n = 0)

\* A move to another stage of the same job.
LEMMA StageMoved ==
  ASSUME Inv, NEW p \in Procs, NEW to \in Stages, Goto(p, to)
  PROVE  /\ hand'[p].pc = to /\ hand'[p].job = hand[p].job /\ hand'[p].n = hand[p].n
         /\ OnlyHand(p)
  <1> DEFINE h == [hand[p] EXCEPT !.pc = to]
  <1>1. hand[p] \in Hands /\ to \in PCs
    BY DEF Inv, TypeOK, PCs
  <1>2. h \in Hands /\ h.pc = to /\ h.job = hand[p].job /\ h.n = hand[p].n
    BY <1>1, HandMoves
  <1>3. hand' = [hand EXCEPT ![p] = h]
    BY DEF Goto
  <1> HIDE DEF h
  <1> QED BY <1>2, <1>3, HandSet

\* The stages of Process keep what they say, and lead to each other in order.
LEMMA ProcessStage ==
  ASSUME Inv, \A j \in Jobs : RowStep(j), CarsGrow, \A j \in Jobs : RowWorked(j),
         NEW p \in Procs, StageOK(p), Process(p)
  PROVE  StageOK(p)' /\ SeedStep(p) /\ OnlyHand(p)
  <1>0. hand[p].pc \in Stages /\ Working(p) /\ Holding(p)
    BY DEF Process, StageFails, Decode, SaveIdentity, SaveEnrichment, Attach, Follow, Fetch,
           UpsertNext, UpsertEnds, AttachFetched, Wait, SeedNext, At, Stages, Fallible,
           Working, Holding
  <1>1. /\ rows'[hand[p].job].kind = rows[hand[p].job].kind
        /\ rows'[hand[p].job].car = rows[hand[p].job].car
    BY <1>0, HeldTaskKept
  <1>2. /\ known \subseteq known' /\ enriched \subseteq enriched'
        /\ inScope \subseteq inScope'
    BY DEF CarsGrow
  <1>3. hand[p].pc \in VinStages => rows[hand[p].job].kind = "vin_decode"
    BY DEF Inv, QueueInv, HandOK
  <1>4. ASSUME NEW to \in Stages, Goto(p, to)
        PROVE  /\ hand'[p].pc = to /\ hand'[p].job = hand[p].job /\ hand'[p].n = hand[p].n
               /\ OnlyHand(p)
    BY <1>4, StageMoved
  <1>5. CASE StageFails(p)
    <2>1. hand'[p].pc = "err" /\ OnlyHand(p)
      BY <1>4, <1>5 DEF StageFails, Stages
    <2> QED BY <2>1 DEF StageOK, SeedStep
  <1>6. CASE Decode(p)
    <2>1. hand'[p].pc = "identity" /\ OnlyHand(p)
      BY <1>4, <1>6 DEF Decode, Stages, Fallible
    <2> QED BY <2>1 DEF StageOK, SeedStep
  <1>7. CASE SaveIdentity(p)
    <2>1. hand'[p].pc = "enrich" /\ OnlyHand(p) /\ hand'[p].job = hand[p].job
      BY <1>4, <1>7 DEF SaveIdentity, Stages, Fallible
    <2>2. rows'[hand'[p].job].car \in known'
      BY <1>1, <1>7, <2>1 DEF SaveIdentity, CarOf
    <2> QED BY <2>1, <2>2 DEF StageOK, SeedStep
  <1>8. CASE SaveEnrichment(p)
    <2>1. PICK accepted \in BOOLEAN :
            /\ inScope' = inScope \cup (IF accepted THEN {CarOf(p)} ELSE {})
            /\ Goto(p, IF accepted THEN "attach" ELSE "ok")
      BY <1>8 DEF SaveEnrichment
    <2>4. /\ hand'[p].pc = (IF accepted THEN "attach" ELSE "ok")
          /\ OnlyHand(p) /\ hand'[p].job = hand[p].job
      BY <1>4, <2>1 DEF Stages, Fallible
    <2>2. /\ rows'[hand'[p].job].car \in known' /\ rows'[hand'[p].job].car \in enriched'
          /\ accepted => rows'[hand'[p].job].car \in inScope'
      BY <1>1, <1>2, <1>8, <2>1, <2>4 DEF SaveEnrichment, CarOf, StageOK, At
    <2>3. rows'[hand'[p].job].kind = "vin_decode"
      BY <1>1, <1>3, <1>8, <2>4 DEF SaveEnrichment, At, VinStages
    <2> QED BY <2>2, <2>3, <2>4 DEF StageOK, SeedStep
  <1>9. CASE Attach(p)
    <2>1. /\ hand'[p].pc \in {"follow", "ok"}
          /\ OnlyHand(p) /\ hand'[p].job = hand[p].job
      BY <1>4, <1>9 DEF Attach, Stages, Fallible
    <2>2. /\ rows'[hand'[p].job].car \in known' /\ rows'[hand'[p].job].car \in enriched'
          /\ rows'[hand'[p].job].car \in inScope'
      BY <1>1, <1>2, <1>9, <2>1 DEF Attach, StageOK, At
    <2>3. rows'[hand'[p].job].kind = "vin_decode"
      BY <1>1, <1>3, <1>9, <2>1 DEF Attach, At, VinStages
    <2> QED BY <2>1, <2>2, <2>3 DEF StageOK, SeedStep
  <1>10. CASE Follow(p)
    <2>1. hand'[p].pc = "ok" /\ OnlyHand(p) /\ hand'[p].job = hand[p].job
      BY <1>4, <1>10 DEF Follow, Stages, Fallible
    <2>2. rows'[hand'[p].job].car \in known' /\ rows'[hand'[p].job].car \in enriched'
      BY <1>1, <1>2, <1>10, <2>1 DEF Follow, StageOK, At
    <2>3. rows'[hand'[p].job].kind = "vin_decode"
      BY <1>1, <1>3, <1>10, <2>1 DEF Follow, At, VinStages
    <2> QED BY <2>1, <2>2, <2>3 DEF StageOK, SeedStep
  <1>11. CASE Fetch(p) \/ UpsertNext(p)
    <2>1. hand'[p].pc \in {"upsert", "ok"} /\ OnlyHand(p) /\ hand'[p].job = hand[p].job
      <3>1. hand \in [Procs -> Hands] /\ hand[p] \in Hands
        BY DEF Inv, TypeOK
      <3>2. CASE Fetch(p)
        <4>1. PICK found \in SUBSET Campaigns : hand' = [hand EXCEPT ![p] = [hand[p] EXCEPT
                !.pc = IF PayloadInScope(p) THEN "upsert" ELSE "ok", !.todo = found]]
          BY <3>2 DEF Fetch
        <4> QED BY <3>1, <4>1 DEF Hands, OnlyHand
      <3>3. CASE UpsertNext(p)
        <4>1. /\ hand[p].pc = "upsert"
              /\ \E c \in hand[p].todo : hand' = [hand EXCEPT ![p].todo = @ \ {c}]
          BY <3>3 DEF UpsertNext, At
        <4> QED BY <3>1, <4>1 DEF Hands, OnlyHand
      <3> QED BY <1>11, <3>2, <3>3
    <2>2. rows'[hand'[p].job].kind = "recalls_mmy"
      BY <1>1, <1>11, <2>1 DEF Fetch, UpsertNext, At, StageOK
    <2> QED BY <2>1, <2>2 DEF StageOK, SeedStep
  <1>12. CASE UpsertEnds(p)
    <2>1. /\ hand'[p].pc = (IF CarOf(p) = NoCar THEN "wait" ELSE "attachFetched")
          /\ OnlyHand(p) /\ hand'[p].job = hand[p].job
      BY <1>4, <1>12 DEF UpsertEnds, Stages, Fallible
    <2>2. rows[hand[p].job].kind = "recalls_mmy" /\ rows'[hand'[p].job].kind = "recalls_mmy"
      BY <1>1, <1>12, <2>1 DEF UpsertEnds, At, StageOK
    <2>3. CarOf(p) # NoCar => rows'[hand'[p].job].car \in inScope'
      <3>1. hand[p].job \in Jobs
        BY <1>0, OwnRow
      <3>2. CarOf(p) # NoCar => rows[hand[p].job].car \in inScope
        BY <2>2, <3>1 DEF CarOf, RowWorked
      <3> QED BY <1>1, <1>2, <2>1, <3>2
    <2>4. CASE hand'[p].pc = "wait"
      BY <2>1, <2>2, <2>4 DEF StageOK, SeedStep
    <2>5. CASE hand'[p].pc = "attachFetched" /\ CarOf(p) # NoCar
      BY <2>1, <2>2, <2>3, <2>5 DEF StageOK, SeedStep
    <2> QED BY <2>1, <2>4, <2>5
  <1>13. CASE AttachFetched(p)
    <2>1. hand'[p].pc = "wait" /\ OnlyHand(p) /\ hand'[p].job = hand[p].job
      BY <1>4, <1>13 DEF AttachFetched, Stages, Fallible
    <2>2. rows'[hand'[p].job].kind = "recalls_mmy"
      BY <1>1, <1>13, <2>1 DEF AttachFetched, At, StageOK
    <2> QED BY <2>1, <2>2 DEF StageOK, SeedStep
  <1>14. CASE Wait(p)
    <2>1. hand'[p].pc = "ok" /\ OnlyHand(p) /\ hand'[p].job = hand[p].job
      BY <1>4, <1>14 DEF Wait, Stages, Fallible
    <2>2. rows'[hand'[p].job].kind = "recalls_mmy"
      BY <1>1, <1>14, <2>1 DEF Wait, At, StageOK
    <2> QED BY <2>1, <2>2 DEF StageOK, SeedStep
  <1>15. CASE SeedNext(p) /\ hand' = [hand EXCEPT ![p].n = @ + 1]
    <2>1. /\ hand'[p].pc = "seed" /\ hand[p].pc = "seed"
          /\ OnlyHand(p) /\ hand'[p].job = hand[p].job /\ hand'[p].n = hand[p].n + 1
      BY <1>15 DEF SeedNext, At, Inv, TypeOK, Hands, OnlyHand
    <2>2. Insert("recalls_mmy", NoCar, FALSE, hand[p].n = 0)
      <3>1. ~Goto(p, "ok")
        <4>1. Goto(p, "ok") => hand'[p].pc = "ok"
          BY <1>4 DEF Stages
        <4> QED BY <2>1, <4>1
      <3> QED BY <1>15, <3>1 DEF SeedNext
    <2>3. rows'[hand'[p].job].kind = "seed_catalog"
      BY <1>1, <2>1 DEF StageOK
    <2> QED BY <2>1, <2>2, <2>3 DEF StageOK, SeedStep
  <1>16. CASE SeedNext(p) /\ hand[p].n = SeedRows /\ Goto(p, "ok")
    <2>1. /\ hand'[p].pc = "ok" /\ hand[p].pc = "seed" /\ OnlyHand(p)
          /\ hand'[p].job = hand[p].job /\ hand'[p].n = SeedRows /\ hand'[p].n = hand[p].n
      BY <1>4, <1>16 DEF SeedNext, At, Stages
    <2>2. rows'[hand'[p].job].kind = "seed_catalog"
      BY <1>1, <2>1 DEF StageOK
    <2> QED BY <2>1, <2>2 DEF StageOK, SeedStep
  <1> QED BY <1>5, <1>6, <1>7, <1>8, <1>9, <1>10, <1>11, <1>12, <1>13, <1>14, <1>15, <1>16
             DEF Process, SeedNext
\* What the other steps that move the hand of p leave in it.
LEMMA LoopStage ==
  ASSUME Inv, \A j \in Jobs : RowStep(j), NEW p \in Procs, StageOK(p),
         \/ ClaimLocks(p) \/ ClaimsNothing(p) \/ ClaimCommits(p) \/ Complete(p) \/ Fail(p)
         \/ Faulty(p)
  PROVE  StageOK(p)' /\ SeedStep(p) /\ OnlyHand(p)
  <1>0. hand \in [Procs -> Hands] /\ hand[p] \in Hands
    BY DEF Inv, TypeOK
  <1>1. ASSUME NEW h \in Hands, hand' = [hand EXCEPT ![p] = h], h.pc \in {"off", "rest", "claim"}
        PROVE  StageOK(p)' /\ SeedStep(p) /\ OnlyHand(p)
    <2>1. hand'[p] = h /\ OnlyHand(p)
      BY <1>1, HandSet
    <2>2. StageOK(p)' /\ hand'[p].pc \notin {"seed", "ok"}
      BY <1>1, <2>1, StageFree
    <2> QED BY <2>1, <2>2 DEF SeedStep
  <1>2. CASE ClaimsNothing(p) \/ ClaimFails(p)
    <2>1. hand' = [hand EXCEPT ![p] = LoopOver(p)]
      BY <1>2 DEF ClaimsNothing, ClaimFails
    <2>2. LoopOver(p) \in Hands /\ LoopOver(p).pc \in {"off", "rest", "claim"}
      BY NextHands DEF Free
    <2> QED BY <1>1, <2>1, <2>2
  <1>3. CASE Complete(p) \/ Fail(p) \/ SettleLost(p)
    <2>1. hand' = [hand EXCEPT ![p] = AfterJob(p)]
      BY <1>3 DEF Complete, Fail, SettleLost
    <2>2. AfterJob(p) \in Hands /\ AfterJob(p).pc \in {"off", "rest", "claim"}
      BY NextHands DEF Free
    <2> QED BY <1>1, <2>1, <2>2
  <1>4. CASE Stops(p) \/ TickStartsUnread(p)
    <2>1. TickJobs \in 0..TickJobs
      OBVIOUS
    <2> QED BY <1>1, <1>4, <2>1, FreeHands DEF Stops, TickStartsUnread
  <1>5. CASE ClaimLocks(p)
    <2>1. PICK j, l : hand' = [hand EXCEPT ![p] =
                        [Off EXCEPT !.pc = "locked", !.job = j, !.left = l]]
      BY <1>5 DEF ClaimLocks
    <2>2. /\ hand'[p] = [Off EXCEPT !.pc = "locked", !.job = j, !.left = l]
          /\ OnlyHand(p)
      BY <1>0, <2>1 DEF OnlyHand
    <2>3. hand'[p].pc = "locked" /\ hand'[p].n = 0
      BY <2>2 DEF Off
    <2> QED BY <2>2, <2>3 DEF StageOK, SeedStep
  <1>6. CASE ClaimCommits(p)
    <2> DEFINE kind == rows[hand[p].job].kind
    <2>1. hand[p].pc = "locked" /\ Holding(p)
      BY <1>6 DEF ClaimCommits, Holding
    <2>2. hand[p].n = 0
      BY <2>1 DEF StageOK
    <2>3. rows'[hand[p].job].kind = kind
      BY <2>1, HeldTaskKept
    <2>4. kind \in {"vin_decode", "recalls_mmy", "seed_catalog"}
      BY <2>1, OwnRow DEF Rows
    <2>5. FirstStage(kind) \in Stages /\ Goto(p, FirstStage(kind))
      BY <1>6, <2>4 DEF ClaimCommits, Goto, FirstStage, Stages, Fallible
    <2>6. /\ hand'[p].pc = FirstStage(kind) /\ hand'[p].job = hand[p].job /\ hand'[p].n = hand[p].n
          /\ OnlyHand(p)
      BY <2>5, StageMoved
    <2>7. CASE kind = "vin_decode"
      <3>1. hand'[p].pc = "decode"
        BY <2>6, <2>7 DEF FirstStage
      <3> QED BY <2>6, <3>1 DEF StageOK, SeedStep
    <2>8. CASE kind = "recalls_mmy"
      <3>1. hand'[p].pc = "fetch"
        BY <2>6, <2>8 DEF FirstStage
      <3> QED BY <2>3, <2>6, <2>8, <3>1 DEF StageOK, SeedStep
    <2>9. CASE kind = "seed_catalog"
      <3>1. hand'[p].pc = "seed"
        BY <2>6, <2>9 DEF FirstStage
      <3> QED BY <2>2, <2>3, <2>6, <2>9, <3>1 DEF StageOK, SeedStep
    <2> QED BY <2>4, <2>7, <2>8, <2>9
  <1> QED BY <1>2, <1>3, <1>4, <1>5, <1>6 DEF Faulty

\* Servers and drains that start or end have nothing in hand.
LEMMA StartStage ==
  ASSUME Inv, NEW p \in Procs,
         \/ p \in Servers /\ (ServerStarts(p) \/ TickStarts(p))
         \/ p \in Drainers /\ (DrainTimesOut(p) \/ \E seed \in BOOLEAN : DrainStarts(p, seed))
  PROVE  StageOK(p)' /\ SeedStep(p) /\ OnlyHand(p)
  <1>1. PICK h \in Hands : hand' = [hand EXCEPT ![p] = h] /\ h.pc \in {"off", "rest", "claim"}
    <2>1. TickJobs \in 0..TickJobs
      OBVIOUS
    <2> QED BY <2>1, FreeHands DEF ServerStarts, TickStarts, DrainTimesOut, DrainStarts
  <1>2. hand'[p] = h /\ OnlyHand(p)
    BY <1>1, HandSet
  <1>3. StageOK(p)' /\ hand'[p].pc \notin {"seed", "ok"}
    BY <1>1, <1>2, StageFree
  <1> QED BY <1>2, <1>3 DEF SeedStep

\* In every step at most one hand moves, and it knows what its stage says.
LEMMA HandSteps ==
  ASSUME Inv, WorkInv, [Next]_vars
  PROVE  /\ \A q \in Procs : StageOK(q)' /\ (hand'[q] = hand[q] \/ SeedStep(q))
         /\ \A q, r \in Procs : hand'[q] # hand[q] /\ hand'[r] # hand[r] => q = r
  <1>1. /\ \A j \in Jobs : RowStep(j)
        /\ \A j \in Jobs : RowWorked(j)
        /\ CarsGrow
        /\ \A q \in Procs : StageOK(q)
    BY RowSteps, CarSteps DEF WorkInv
  <1>2. \A q \in Procs : hand'[q] = hand[q] => StageOK(q)'
    BY <1>1, StageKept
  <1>3. ASSUME NEW p \in Procs, StageOK(p)' /\ SeedStep(p) /\ OnlyHand(p)
        PROVE  /\ \A q \in Procs : StageOK(q)' /\ (hand'[q] = hand[q] \/ SeedStep(q))
               /\ \A q, r \in Procs : hand'[q] # hand[q] /\ hand'[r] # hand[r] => q = r
    BY <1>2, <1>3 DEF OnlyHand
  <1>4. ASSUME hand' = hand
        PROVE  /\ \A q \in Procs : StageOK(q)' /\ (hand'[q] = hand[q] \/ SeedStep(q))
               /\ \A q, r \in Procs : hand'[q] # hand[q] /\ hand'[r] # hand[r] => q = r
    BY <1>2, <1>4
  <1>5. ASSUME NEW p \in Procs, Loop(p) \/ Faulty(p)
        PROVE  StageOK(p)' /\ SeedStep(p) /\ OnlyHand(p)
    <2>1. CASE Process(p)
      BY <1>1, <2>1, ProcessStage
    <2>2. CASE \/ ClaimLocks(p) \/ ClaimsNothing(p) \/ ClaimCommits(p) \/ Complete(p) \/ Fail(p)
               \/ Faulty(p)
      BY <1>1, <2>2, LoopStage
    <2> QED BY <1>5, <2>1, <2>2 DEF Loop
  <1>6. ASSUME NEW p \in Servers, ServerStarts(p) \/ TickStarts(p)
        PROVE  p \in Procs /\ StageOK(p)' /\ SeedStep(p) /\ OnlyHand(p)
    BY <1>6, StartStage DEF Procs
  <1>7. ASSUME NEW p \in Drainers, DrainTimesOut(p) \/ \E seed \in BOOLEAN : DrainStarts(p, seed)
        PROVE  p \in Procs /\ StageOK(p)' /\ SeedStep(p) /\ OnlyHand(p)
    BY <1>7, StartStage DEF Procs
  <1>8. ASSUME NEW s \in Servers,
               SeedCheck(s) \/ SeedInsert(s) \/ \E v \in Cars : CreateScan(s, v)
        PROVE  hand' = hand
    BY <1>8 DEF SeedCheck, SeedInsert, CreateScan
  <1>9. ASSUME \/ \E j \in Jobs : BecomesDue(j)
               \/ PatchSetting \/ GrowsOld \/ ForceSeed \/ UNCHANGED vars
        PROVE  hand' = hand
    BY <1>9 DEF BecomesDue, PatchSetting, GrowsOld, ForceSeed, vars
  <1>10. CASE \/ \E p \in Procs : Loop(p) \/ Faulty(p)
              \/ \E p \in Servers : ServerStarts(p) \/ TickStarts(p)
              \/ \E p \in Drainers : DrainTimesOut(p) \/ \E seed \in BOOLEAN : DrainStarts(p, seed)
    <2>1. PICK p \in Procs : StageOK(p)' /\ SeedStep(p) /\ OnlyHand(p)
      BY <1>5, <1>6, <1>7, <1>10
    <2> QED BY <1>3, <2>1
  <1> QED BY <1>4, <1>8, <1>9, <1>10 DEF Next, Boot
-----------------------------------------------------------------------------
(* What is done is done *)

\* The step of each row keeps what RowWorked says of it.
LEMMA RowsWork ==
  ASSUME WorkInv, \A j \in Jobs : RowStep(j), CarsGrow, NEW j \in Jobs
  PROVE  RowWorked(j)'
  <1>1. RowWorked(j) /\ RowStep(j)
    BY DEF WorkInv
  <1>2. /\ \A x : x \in known => x \in known'
        /\ \A x : x \in enriched => x \in enriched'
        /\ \A x : x \in inScope => x \in inScope'
    BY DEF CarsGrow
  <1>3. CASE rows'[j] = rows[j]
    BY <1>1, <1>2, <1>3 DEF RowWorked
  <1>4. CASE Rewritten(j)
    BY <1>1, <1>2, <1>4 DEF RowWorked, Rewritten, SameTask
  <1>5. CASE DoneByHolder(j)
    <2>1. rows[j].kind = "vin_decode" => rows[j].car \in known \cap enriched
      BY <1>5 DEF DoneByHolder, WorkInv, StageOK
    <2> QED BY <1>1, <1>2, <1>5, <2>1 DEF RowWorked, DoneByHolder, SameTask
  <1>6. CASE Fresh(j)
    BY <1>2, <1>6 DEF RowWorked, Fresh
  <1> QED BY <1>1, <1>3, <1>4, <1>5, <1>6 DEF RowStep

\* Recalls are attached from the catalog, to cars in scope.
LEMMA RecallsKeep ==
  ASSUME Inv, WorkInv, CarsGrow, [Next]_vars
  PROVE  RecallsAreInScope'
  <1>0. /\ attached \in [Cars -> SUBSET Campaigns] /\ inScope \subseteq Cars
        /\ inScope \subseteq inScope' /\ catalog \subseteq catalog'
    BY DEF Inv, TypeOK, CarsGrow
  <1>1. ASSUME UNCHANGED attached PROVE RecallsAreInScope'
    BY <1>0, <1>1 DEF WorkInv, RecallsAreInScope
  <1>2. ASSUME NEW p \in Procs, Attach(p) \/ AttachFetched(p),
               attached' = [attached EXCEPT ![CarOf(p)] = @ \cup catalog]
        PROVE  RecallsAreInScope'
    <2> DEFINE c == CarOf(p)
    <2>1. c \in inScope /\ c \in Cars
      BY <1>0, <1>2 DEF Attach, AttachFetched, At, WorkInv, StageOK, CarOf
    <2>2. attached' = [attached EXCEPT ![c] = attached[c] \cup catalog]
      BY <1>2
    <2> HIDE DEF c
    <2>3. \A v \in Cars : attached'[v] = IF v = c THEN attached[c] \cup catalog ELSE attached[v]
      BY <1>0, <2>2
    <2>4. \A v \in Cars : attached[v] \subseteq (IF v \in inScope THEN catalog ELSE {})
      BY DEF WorkInv, RecallsAreInScope
    <2>5. ASSUME NEW v \in Cars
          PROVE  attached'[v] \subseteq (IF v \in inScope' THEN catalog' ELSE {})
      <3>1. CASE v = c
        BY <1>0, <2>1, <2>3, <2>4, <3>1
      <3>2. CASE v # c
        BY <1>0, <2>3, <2>4, <3>2
      <3> QED BY <3>1, <3>2
    <2> QED BY <2>5 DEF RecallsAreInScope
  <1>3. ASSUME NEW p \in Procs, Loop(p) \/ Faulty(p) PROVE RecallsAreInScope'
    BY <1>1, <1>2, <1>3 DEF Loop, Process, StageFails, Decode, SaveIdentity, SaveEnrichment,
         Attach, Follow, Fetch, UpsertNext, UpsertEnds, AttachFetched, Wait, SeedNext, ClaimLocks,
         ClaimsNothing, ClaimCommits, Complete, Fail, Faulty, ClaimFails, SettleLost, Stops,
         TickStartsUnread, carVars
  <1>4. ASSUME \/ \E s \in Servers : Boot(s) \/ TickStarts(s) \/ \E v \in Cars : CreateScan(s, v)
               \/ \E d \in Drainers : DrainTimesOut(d) \/ \E seed \in BOOLEAN : DrainStarts(d, seed)
               \/ \E j \in Jobs : BecomesDue(j)
               \/ PatchSetting \/ GrowsOld \/ ForceSeed \/ UNCHANGED vars
        PROVE  UNCHANGED attached
    BY <1>4 DEF Boot, ServerStarts, SeedCheck, SeedInsert, TickStarts, CreateScan, DrainTimesOut,
         DrainStarts, BecomesDue, PatchSetting, GrowsOld, ForceSeed, vars, carVars
  <1> QED BY <1>1, <1>3, <1>4 DEF Next
-----------------------------------------------------------------------------
(* Counting what the seeds queue *)

\* The process p queues job i of seed j.
QueuesNow(p, j, i) ==
  /\ hand[p].pc = "seed" /\ hand[p].job = j /\ hand[p].n = i
  /\ hand'[p] # hand[p]
  /\ Insert("recalls_mmy", NoCar, FALSE, hand[p].n = 0)

\* A recall job a seed has queued for certain was so before, or is queued now.
LEMMA QueuedSteps ==
  ASSUME Inv, WorkInv, [Next]_vars, NEW j \in Jobs, NEW i \in 0..(SeedRows - 1), Queued(j, i)'
  PROVE  Queued(j, i) \/ \E p \in Procs : QueuesNow(p, j, i)
  <1>1. /\ \A k \in Jobs : RowStep(k)
        /\ \A p \in Procs : StageOK(p) /\ (hand'[p] = hand[p] \/ SeedStep(p))
    BY RowSteps, HandSteps DEF WorkInv
  <1>2. i \in Nat /\ i < SeedRows /\ SeedRows \in Nat
    OBVIOUS
  <1>3. rows'[j].kind = "seed_catalog"
    BY DEF Queued
  <1>4. CASE rows'[j].status = "done"
    <2>1. CASE rows'[j] = rows[j]
      BY <1>3, <1>4, <2>1 DEF Queued
    <2>2. CASE DoneByHolder(j)
      <3>1. PICK p \in Procs : hand[p].pc = "ok" /\ hand[p].job = j
        BY <2>2 DEF DoneByHolder
      <3>2. rows[j].kind = "seed_catalog"
        BY <1>3, <2>2 DEF DoneByHolder, SameTask
      <3>3. hand[p].n = SeedRows
        BY <1>1, <3>1, <3>2 DEF StageOK
      <3>4. i < hand[p].n
        BY <1>2, <3>3
      <3> QED BY <3>1, <3>2, <3>4 DEF Queued
    <2> QED BY <1>1, <1>4, <2>1, <2>2 DEF RowStep, Rewritten, Fresh
  <1>5. ASSUME NEW p \in Procs, hand'[p].job = j, hand'[p].pc \in {"seed", "ok"},
               i < hand'[p].n
        PROVE  Queued(j, i) \/ QueuesNow(p, j, i)
    <2>0. hand[p].n \in Nat
      BY DEF Inv, TypeOK, Hands
    <2>1. ASSUME hand[p].job = j, hand[p].pc \in {"seed", "ok"}, i < hand[p].n
          PROVE  Queued(j, i)
      <3>1. Holding(p)
        BY <2>1 DEF Holding, Working, Stages, Fallible
      <3>2. rows[j].kind = "seed_catalog"
        BY <1>1, <1>3, <2>1, <3>1, HeldTaskKept
      <3> QED BY <2>1, <3>2 DEF Queued
    <2>2. CASE hand'[p] = hand[p]
      BY <1>5, <2>1, <2>2
    <2>3. CASE SeedStep(p) /\ hand'[p] # hand[p]
      <3>1. hand[p].job = j
        BY <1>5, <2>3 DEF SeedStep
      <3>2. CASE hand'[p].n = hand[p].n /\ hand[p].pc \in {"seed", "ok"}
        BY <1>5, <2>1, <3>1, <3>2
      <3>3. CASE hand'[p].n = 0
        BY <1>2, <1>5, <3>3
      <3>4. CASE rows'[hand[p].job].kind # "seed_catalog"
        BY <1>3, <3>1, <3>4
      <3>5. CASE /\ hand[p].pc = "seed" /\ hand'[p].n = hand[p].n + 1
                 /\ Insert("recalls_mmy", NoCar, FALSE, hand[p].n = 0)
        <4>1. i < hand[p].n + 1
          BY <1>5, <3>5
        <4>2. i < hand[p].n \/ hand[p].n = i
          BY <1>2, <2>0, <4>1
        <4>3. CASE i < hand[p].n
          BY <2>1, <3>1, <3>5, <4>3
        <4>4. CASE hand[p].n = i
          BY <2>3, <3>1, <3>5, <4>4 DEF QueuesNow
        <4> QED BY <4>2, <4>3, <4>4
      <3> QED BY <1>5, <2>3, <3>2, <3>3, <3>4, <3>5 DEF SeedStep
    <2> QED BY <1>1, <2>2, <2>3
  <1>6. \/ rows'[j].status = "done"
        \/ \E p \in Procs : hand'[p].job = j /\ hand'[p].pc \in {"seed", "ok"} /\ i < hand'[p].n
    BY DEF Queued
  <1> QED BY <1>4, <1>5, <1>6

\* seedOf names the seed, and the place in it, of each recall job.
Names(seedOf) ==
  /\ seedOf \in [Jobs -> Jobs \X (0..SeedRows)]
  /\ \A j \in Jobs, i \in 0..(SeedRows - 1) :
       Queued(j, i) => \E k \in Jobs : Seeded(k) /\ seedOf[k] = <<j, i>>

\* A recall job that counts for a seed counts for good, and for no other.
LEMMA SeedsNamed ==
  ASSUME Inv, WorkInv, [Next]_vars
  PROVE  (\E seedOf : Names(seedOf))'
  <1>1. PICK seedOf : Names(seedOf)
    BY DEF WorkInv, Names
  <1>2. \A k \in Jobs : RowStep(k) /\ RowWorked(k)
    BY RowSteps DEF WorkInv
  <1>3. ASSUME NEW k \in Jobs, Seeded(k) PROVE Seeded(k)'
    <2>1. rows[k].status # "none"
      BY <1>2, <1>3 DEF Seeded, RowWorked
    <2> QED BY <1>2, <1>3, <2>1, TaskKept DEF Seeded
  <1>4. CASE \E p \in Procs : \E j \in Jobs, i \in 0..(SeedRows - 1) : QueuesNow(p, j, i)
    <2>1. PICK p \in Procs, j \in Jobs, i \in 0..(SeedRows - 1) : QueuesNow(p, j, i)
      BY <1>4
    <2>2. PICK k \in Jobs :
            /\ rows[k].status = "none"
            /\ rows'[k].kind = "recalls_mmy" /\ rows'[k].car = NoCar
      <3>1. PICK due \in BOOLEAN : Insert("recalls_mmy", NoCar, FALSE, due)
        BY <2>1, Zenon DEF QueuesNow
      <3> QED BY <3>1, ServerRow
    <2>3. ~Seeded(k) /\ Seeded(k)'
      BY <1>2, <2>2 DEF Seeded, RowWorked
    <2> DEFINE now == [seedOf EXCEPT ![k] = <<j, i>>]
    <2>4. i \in 0..SeedRows
      OBVIOUS
    <2>5. now \in [Jobs -> Jobs \X (0..SeedRows)]
      BY <1>1, <2>4 DEF Names
    <2>6. now[k] = <<j, i>> /\ \A m \in Jobs : m # k => now[m] = seedOf[m]
      BY <1>1 DEF Names
    <2> HIDE DEF now
    <2>7. ASSUME NEW a \in Jobs, NEW b \in 0..(SeedRows - 1), Queued(a, b)'
          PROVE  \E m \in Jobs : Seeded(m)' /\ now[m] = <<a, b>>
      <3>1. CASE Queued(a, b)
        <4>1. PICK m \in Jobs : Seeded(m) /\ seedOf[m] = <<a, b>>
          BY <1>1, <3>1 DEF Names
        <4>2. m # k
          BY <2>3, <4>1
        <4> QED BY <1>3, <2>6, <4>1, <4>2
      <3>2. CASE \E q \in Procs : QueuesNow(q, a, b)
        <4>1. PICK q \in Procs : QueuesNow(q, a, b)
          BY <3>2
        <4>2. q = p
          BY <2>1, <4>1, HandSteps DEF QueuesNow
        <4>3. a = j /\ b = i
          BY <2>1, <4>1, <4>2 DEF QueuesNow
        <4> QED BY <2>3, <2>6, <4>3
      <3> QED BY <2>7, <3>1, <3>2, QueuedSteps
    <2>8. Names(now)'
      BY <2>5, <2>7 DEF Names
    <2> QED BY <2>8
  <1>5. CASE ~ \E p \in Procs : \E j \in Jobs, i \in 0..(SeedRows - 1) : QueuesNow(p, j, i)
    <2>1. ASSUME NEW a \in Jobs, NEW b \in 0..(SeedRows - 1), Queued(a, b)'
          PROVE  \E m \in Jobs : Seeded(m)' /\ seedOf[m] = <<a, b>>
      <3>1. Queued(a, b)
        BY <1>5, <2>1, QueuedSteps
      <3>2. PICK m \in Jobs : Seeded(m) /\ seedOf[m] = <<a, b>>
        BY <1>1, <3>1 DEF Names
      <3> QED BY <1>3, <3>2
    <2>2. Names(seedOf)'
      BY <1>1, <2>1 DEF Names
    <2> QED BY <2>2
  <1> QED BY <1>4, <1>5

\* What the workers know of the work goes on being so.
LEMMA WorkKept ==
  ASSUME Inv, WorkInv, [Next]_vars
  PROVE  WorkInv'
  <1>1. /\ \A j \in Jobs : RowStep(j)
        /\ CarsGrow
        /\ \A p \in Procs : StageOK(p)'
    BY RowSteps, CarSteps, HandSteps
  <1>2. \A j \in Jobs : RowWorked(j)'
    BY <1>1, RowsWork
  <1>3. RecallsAreInScope'
    BY <1>1, RecallsKeep
  <1>4. (\E seedOf : Names(seedOf))'
    BY SeedsNamed
  <1> QED BY <1>1, <1>2, <1>3, <1>4 DEF WorkInv, Names

\* Before anything happens there is nothing to know.
LEMMA InitWork == Init => WorkInv
  <1> SUFFICES ASSUME Init PROVE WorkInv
    OBVIOUS
  <1>0. NoRow.kind = "none" /\ NoRow.status = "none" /\ Off.pc = "off"
    BY DEF NoRow, Off
  <1>1. /\ \A j \in Jobs : rows[j].kind = "none" /\ rows[j].status = "none"
        /\ \A p \in Procs : hand[p].pc = "off"
        /\ \A v \in Cars : attached[v] = {}
    BY <1>0 DEF Init
  <1>2. RecallsAreInScope /\ \A p \in Procs : StageOK(p)
    BY <1>1 DEF RecallsAreInScope, StageOK
  <1>3. \A j \in Jobs : RowWorked(j)
    BY <1>1 DEF RowWorked
  <1> DEFINE seedOf == [k \in Jobs |-> <<k, 0>>]
  <1>4. Names(seedOf)
    <2>1. 0 \in 0..SeedRows
      OBVIOUS
    <2>2. seedOf \in [Jobs -> Jobs \X (0..SeedRows)]
      BY <2>1
    <2>3. \A j \in Jobs, i \in 0..(SeedRows - 1) : ~Queued(j, i)
      BY <1>1 DEF Queued
    <2> QED BY <2>2, <2>3 DEF Names
  <1> QED BY <1>2, <1>3, <1>4 DEF WorkInv, Names

\* The invariant under DoneMeansDone and RecallsAreInScope: what each stage of a
\* job knows, what a finished row knows, and which seed each recall job is of.
THEOREM WorkInvariant == Spec => []WorkInv
  <1>1. Inv /\ WorkInv /\ [Next]_vars => WorkInv'
    BY WorkKept
  <1> QED BY <1>1, InitWork, Invariance, PTL DEF Spec

\* Whatever is attached to a car is of the catalog, and the car is in scope: the
\* scope is looked at once, two stages before the first attach, and by another
\* job than the one that attaches what it fetched.
THEOREM RecallsInScope == Spec => []RecallsAreInScope
  <1>1. WorkInv => RecallsAreInScope
    BY DEF WorkInv
  <1> QED BY <1>1, WorkInvariant, PTL

\* If every pair of a done seed and a place in it names a recall job, there are at
\* least as many of these as there are pairs.
LEMMA EnoughSeeded ==
  ASSUME Inv, WorkInv
  PROVE  LET Done == { j \in Jobs : rows[j].kind = "seed_catalog" /\ rows[j].status = "done" }
             All  == { k \in Jobs : rows[k].kind = "recalls_mmy" /\ rows[k].car = NoCar }
         IN  Cardinality(All) >= SeedRows * Cardinality(Done)
  <1> DEFINE Done == { j \in Jobs : rows[j].kind = "seed_catalog" /\ rows[j].status = "done" }
             All  == { k \in Jobs : rows[k].kind = "recalls_mmy" /\ rows[k].car = NoCar }
             Pairs == Done \X (0..(SeedRows - 1))
  <1>1. PICK seedOf : Names(seedOf)
    BY DEF WorkInv, Names
  <1> DEFINE Named == { k \in All : seedOf[k] \in Pairs }
             f     == [k \in Named |-> seedOf[k]]
  <1>2. IsFiniteSet(Jobs)
    BY FS_Interval DEF Jobs
  <1>3. Done \subseteq Jobs /\ All \subseteq Jobs /\ Named \subseteq All
    OBVIOUS
  <1>4. IsFiniteSet(Done) /\ IsFiniteSet(All)
    BY <1>2, <1>3, FS_Subset
  <1>5. IsFiniteSet(Named) /\ Cardinality(Named) <= Cardinality(All)
    BY <1>3, <1>4, FS_Subset
  <1>6. IsFiniteSet(Pairs) /\ Cardinality(Pairs) = Cardinality(Done) * SeedRows
    <2>1. IsFiniteSet(0..(SeedRows - 1)) /\ Cardinality(0..(SeedRows - 1)) = SeedRows
      BY FS_Interval
    <2> HIDE DEF Done
    <2> QED BY <1>4, <2>1, FS_Product
  <1>7. ASSUME NEW x \in Pairs PROVE \E k \in Named : f[k] = x
    <2>1. PICK j \in Done, i \in 0..(SeedRows - 1) : x = <<j, i>>
      BY <1>7
    <2>2. Queued(j, i)
      BY <2>1 DEF Queued
    <2>3. PICK k \in Jobs : Seeded(k) /\ seedOf[k] = <<j, i>>
      BY <1>1, <2>2 DEF Names
    <2>4. k \in Named
      BY <1>7, <2>1, <2>3 DEF Seeded
    <2> QED BY <2>1, <2>3, <2>4
  <1>8. f \in Surjection(Named, Pairs)
    <2>1. f \in [Named -> Pairs]
      OBVIOUS
    <2> QED BY <1>7, <2>1 DEF Surjection
  <1>9. Cardinality(Pairs) <= Cardinality(Named)
    <2> HIDE DEF Named, Pairs, f
    <2> QED BY <1>5, <1>8, FS_Surjection
  <1> DEFINE a == Cardinality(All)  d == Cardinality(Done)
             n == Cardinality(Named)  m == Cardinality(Pairs)
  <1>10. a \in Nat /\ d \in Nat /\ n \in Nat /\ m \in Nat
    BY <1>4, <1>5, <1>6, FS_CardinalityType
  <1>11. n <= a /\ m = d * SeedRows /\ m <= n
    BY <1>5, <1>6, <1>9
  <1> HIDE DEF a, d, n, m
  <1>12. a >= SeedRows * d
    BY <1>10, <1>11
  <1> QED BY <1>12 DEF a, d

\* 'done' means that the work is done, for any number of attempts, owners and
\* seeds: what a failed attempt left behind counts for nothing, and no recall job
\* counts for two seeds.
THEOREM DoneIsDone == Spec => []DoneMeansDone
  <1>1. Inv /\ WorkInv => DoneMeansDone
    <2> SUFFICES ASSUME Inv, WorkInv PROVE DoneMeansDone
      OBVIOUS
    <2>1. \A j \in Jobs :
            rows[j].status = "done" /\ rows[j].kind = "vin_decode"
              => rows[j].car \in known \cap enriched
      BY DEF WorkInv, RowWorked
    <2> QED BY <2>1, EnoughSeeded DEF DoneMeansDone
  <1> QED BY <1>1, Invariance, WorkInvariant, PTL
-----------------------------------------------------------------------------
(* Counting the seeds *)

\* The servers about to add a seed.
Inserting == { s \in Servers : boot[s] = "insert" }

\* Sets of jobs and of servers are finite.
LEMMA SeedsFinite ==
  ASSUME NEW J \in SUBSET Jobs, NEW S \in SUBSET Servers
  PROVE  /\ IsFiniteSet(J) /\ Cardinality(J) \in Nat
         /\ IsFiniteSet(S) /\ Cardinality(S) \in Nat
         /\ Cardinality(S) <= Cardinality(Servers)
         /\ Cardinality(Servers) \in Nat
  <1>1. IsFiniteSet(Jobs)
    BY FS_Interval DEF Jobs
  <1>2. IsFiniteSet(J) /\ IsFiniteSet(S)
    BY <1>1, FS_Subset
  <1>3. Cardinality(S) <= Cardinality(Servers)
    BY FS_Subset
  <1> QED BY <1>2, <1>3, FS_CardinalityType

\* No row grows younger.
LEMMA AgedGrows ==
  ASSUME Inv, [Next]_vars
  PROVE  aged \in Nat /\ aged' \in Nat /\ aged <= aged'
  <1>0. aged \in Nat /\ inserted \in Nat
    BY DEF Inv, TypeOK
  <1>1. ASSUME GrowsOld PROVE aged' \in Nat /\ aged <= aged'
    BY <1>0, <1>1 DEF GrowsOld
  <1>2. ASSUME NEW p \in Procs, Loop(p) \/ Faulty(p) PROVE UNCHANGED aged
    <2>1. CASE Process(p)
      BY <2>1 DEF Process, StageFails, Decode, SaveIdentity, SaveEnrichment, Attach, Follow,
           Fetch, UpsertNext, UpsertEnds, AttachFetched, Wait, SeedNext, envVars
    <2>2. CASE \/ ClaimLocks(p) \/ ClaimsNothing(p) \/ ClaimCommits(p) \/ Complete(p) \/ Fail(p)
               \/ ClaimFails(p) \/ SettleLost(p) \/ Stops(p) \/ TickStartsUnread(p)
      BY <2>2 DEF ClaimLocks, ClaimsNothing, ClaimCommits, Complete, Fail, ClaimFails,
           SettleLost, Stops, TickStartsUnread, envVars
    <2> QED BY <1>2, <2>1, <2>2 DEF Loop, Faulty
  <1>3. ASSUME \/ \E s \in Servers : Boot(s) \/ TickStarts(s) \/ \E v \in Cars : CreateScan(s, v)
               \/ \E d \in Drainers : DrainTimesOut(d) \/ \E seed \in BOOLEAN : DrainStarts(d, seed)
               \/ \E j \in Jobs : BecomesDue(j)
               \/ PatchSetting \/ ForceSeed \/ UNCHANGED vars
        PROVE  UNCHANGED aged
    BY <1>3 DEF Boot, ServerStarts, SeedCheck, SeedInsert, TickStarts, CreateScan, DrainTimesOut,
         DrainStarts, BecomesDue, PatchSetting, ForceSeed, vars, envVars
  <1> QED BY <1>0, <1>1, <1>2, <1>3 DEF Next

\* A seed that counts was one already, or a server puts it in now.
LEMMA SeedsGrow ==
  ASSUME Inv, [Next]_vars, \A j \in Jobs : RowStep(j), NEW j \in RecentSeeds'
  PROVE  j \in RecentSeeds \/ (Fresh(j) /\ \E s \in Servers : SeedInsert(s))
  <1>1. /\ j \in Jobs /\ RowStep(j)
        /\ rows'[j].kind = "seed_catalog" /\ ~rows'[j].forced
        /\ rows'[j].status \notin {"none", "failed"}
        /\ j > aged
    BY AgedGrows DEF RecentSeeds, Jobs
  <1>2. CASE rows'[j] = rows[j]
    BY <1>1, <1>2 DEF RecentSeeds
  <1>3. CASE Rewritten(j) \/ DoneByHolder(j)
    BY <1>1, <1>3 DEF RecentSeeds, Rewritten, DoneByHolder, SameTask
  <1>4. CASE Fresh(j)
    BY <1>1, <1>4 DEF Fresh
  <1> QED BY <1>1, <1>2, <1>3, <1>4 DEF RowStep

\* A server at its insert was there before, or it finds no seed.
LEMMA InsertersGrow ==
  ASSUME Inv, [Next]_vars, NEW s \in Servers, boot'[s] = "insert", boot[s] # "insert"
  PROVE  SeedCheck(s) /\ ~HasRecentSeed
  <1>1. boot \in [Servers -> {"off", "check", "insert", "up"}]
    BY DEF Inv, TypeOK
  <1>2. ASSUME NEW p \in Procs, Loop(p) \/ Faulty(p) PROVE FALSE
    <2>1. CASE Process(p)
      <3>1. UNCHANGED boot
        BY <2>1 DEF Process, StageFails, Decode, SaveIdentity, SaveEnrichment, Attach, Follow,
             Fetch, UpsertNext, UpsertEnds, AttachFetched, Wait, SeedNext
      <3> QED BY <3>1
    <2>2. CASE \/ ClaimLocks(p) \/ ClaimsNothing(p) \/ ClaimCommits(p) \/ Complete(p) \/ Fail(p)
               \/ ClaimFails(p) \/ SettleLost(p) \/ TickStartsUnread(p)
      <3>1. UNCHANGED boot
        BY <2>2, Zenon DEF ClaimLocks, ClaimsNothing, ClaimCommits, Complete, Fail, ClaimFails,
             SettleLost, TickStartsUnread
      <3> QED BY <3>1
    <2>3. CASE Stops(p)
      <3>1. boot' = [r \in Servers |-> IF r = p THEN "off" ELSE boot[r]]
        BY <2>3 DEF Stops
      <3>2. boot'[s] = "off" \/ boot'[s] = boot[s]
        BY <3>1
      <3> QED BY <3>2
    <2> QED BY <1>2, <2>1, <2>2, <2>3 DEF Loop, Faulty
  <1>3. ASSUME NEW r \in Servers,
               ServerStarts(r) \/ SeedInsert(r) \/ TickStarts(r) \/ \E v \in Cars : CreateScan(r, v)
        PROVE  FALSE
    BY <1>1, <1>3 DEF ServerStarts, SeedInsert, TickStarts, CreateScan
  <1>4. ASSUME NEW r \in Servers, SeedCheck(r) PROVE SeedCheck(s) /\ ~HasRecentSeed
    <2>1. /\ boot' = [boot EXCEPT ![r] = IF HasRecentSeed THEN "up" ELSE "insert"]
      BY <1>4 DEF SeedCheck
    <2>2. r = s /\ ~HasRecentSeed
      BY <1>1, <2>1
    <2> QED BY <1>4, <2>2
  <1>5. ASSUME \/ \E d \in Drainers : DrainTimesOut(d) \/ \E seed \in BOOLEAN : DrainStarts(d, seed)
               \/ \E j \in Jobs : BecomesDue(j)
               \/ PatchSetting \/ GrowsOld \/ ForceSeed \/ UNCHANGED vars
        PROVE  FALSE
    BY <1>5 DEF DrainTimesOut, DrainStarts, BecomesDue, PatchSetting, GrowsOld, ForceSeed, vars
  <1> QED BY <1>2, <1>3, <1>4, <1>5 DEF Next, Boot

\* A step that finds no seed leaves none; a step that adds one takes a server
\* away from its insert; any other adds to neither set.
LEMMA BootKept ==
  ASSUME Inv, WorkInv, BootInv, [Next]_vars
  PROVE  BootInv'
  <1>1. \A j \in Jobs : RowStep(j)
    BY RowSteps
  <1>2. /\ IsFiniteSet(RecentSeeds) /\ Cardinality(RecentSeeds) \in Nat
        /\ IsFiniteSet(Inserting) /\ Cardinality(Inserting) \in Nat
        /\ Cardinality(Servers) \in Nat
        /\ Cardinality(RecentSeeds) + Cardinality(Inserting) <= Cardinality(Servers)
    <2>1. RecentSeeds \in SUBSET Jobs /\ Inserting \in SUBSET Servers
      BY DEF RecentSeeds, Inserting
    <2> QED BY <2>1, SeedsFinite DEF BootInv, RecentSeeds, Inserting
  <1>3. /\ IsFiniteSet(RecentSeeds') /\ Cardinality(RecentSeeds') \in Nat
        /\ IsFiniteSet(Inserting') /\ Cardinality(Inserting') \in Nat
        /\ Cardinality(Inserting') <= Cardinality(Servers)
    <2>1. RecentSeeds' \in SUBSET Jobs /\ Inserting' \in SUBSET Servers
      BY DEF RecentSeeds, Inserting
    <2> QED BY <2>1, SeedsFinite
  <1>4. Cardinality(RecentSeeds') + Cardinality(Inserting') <= Cardinality(Servers)
    <2>1. CASE \E s \in Servers : boot[s] # "insert" /\ boot'[s] = "insert"
      <3>1. PICK s \in Servers : SeedCheck(s) /\ ~HasRecentSeed
        BY <2>1, InsertersGrow
      <3>2. RecentSeeds' = {}
        <4>1. UNCHANGED <<rows, aged>>
          BY <3>1 DEF SeedCheck, queueVars, envVars
        <4>2. \A j \in Jobs : j > aged /\ rows[j].kind = "seed_catalog"
                              => rows[j].status \notin {"pending", "running", "done"}
          BY <3>1 DEF HasRecentSeed
        <4>3. \A j \in Jobs :
                rows[j].status \in {"none", "pending", "running", "done", "failed"}
          BY DEF Inv, TypeOK, Rows
        <4> QED BY <4>1, <4>2, <4>3 DEF RecentSeeds
      <3>3. Cardinality(RecentSeeds') = 0
        BY <3>2, FS_EmptySet
      <3> QED BY <1>3, <3>3
    <2>2. CASE \E s \in Servers : SeedInsert(s) /\ Insert("seed_catalog", NoCar, FALSE, TRUE)
      <3>1. PICK s \in Servers : SeedInsert(s) /\ Insert("seed_catalog", NoCar, FALSE, TRUE)
        BY <2>2
      <3>2. PICK k \in Jobs : \A j \in Jobs : j # k => rows'[j] = rows[j]
        <4>1. TRUE \in BOOLEAN
          OBVIOUS
        <4>2. PICK due \in BOOLEAN : Insert("seed_catalog", NoCar, FALSE, due)
          BY <3>1, <4>1, Zenon
        <4> QED BY <4>2, ServerRow
      <3>3. RecentSeeds' \subseteq RecentSeeds \cup {k}
        BY <3>2, AgedGrows DEF RecentSeeds, Jobs
      <3>4. Cardinality(RecentSeeds') <= Cardinality(RecentSeeds) + 1
        <4>1. /\ IsFiniteSet(RecentSeeds \cup {k})
              /\ Cardinality(RecentSeeds \cup {k})
                   \in {Cardinality(RecentSeeds), Cardinality(RecentSeeds) + 1}
          BY <1>2, FS_AddElement
        <4>2. Cardinality(RecentSeeds') <= Cardinality(RecentSeeds \cup {k})
          BY <3>3, <4>1, FS_Subset
        <4> QED BY <1>2, <1>3, <4>1, <4>2
      <3>5. s \in Inserting /\ Inserting' = Inserting \ {s}
        <4>1. boot[s] = "insert" /\ boot' = [boot EXCEPT ![s] = "up"]
          BY <3>1 DEF SeedInsert
        <4>2. boot \in [Servers -> {"off", "check", "insert", "up"}]
          BY DEF Inv, TypeOK
        <4> QED BY <4>1, <4>2 DEF Inserting
      <3>6. Cardinality(Inserting') = Cardinality(Inserting) - 1
        BY <1>2, <3>5, FS_RemoveElement
      <3> QED BY <1>2, <1>3, <3>4, <3>6
    <2>3. CASE /\ ~ \E s \in Servers : boot[s] # "insert" /\ boot'[s] = "insert"
               /\ ~ \E s \in Servers : SeedInsert(s) /\ Insert("seed_catalog", NoCar, FALSE, TRUE)
      <3>1. Inserting' \subseteq Inserting
        BY <2>3 DEF Inserting
      <3>2. RecentSeeds' \subseteq RecentSeeds
        <4>1. ASSUME NEW j \in RecentSeeds', Fresh(j), NEW s \in Servers, SeedInsert(s) PROVE FALSE
          <5>1. UNCHANGED queueVars
            BY <2>3, <4>1 DEF SeedInsert
          <5> QED BY <4>1, <5>1 DEF Fresh, queueVars
        <4> QED BY <1>1, <4>1, SeedsGrow
      <3>3. Cardinality(RecentSeeds') <= Cardinality(RecentSeeds)
        BY <1>2, <3>2, FS_Subset
      <3>4. Cardinality(Inserting') <= Cardinality(Inserting)
        BY <1>2, <3>1, FS_Subset
      <3> QED BY <1>2, <1>3, <3>3, <3>4
    <2> QED BY <2>1, <2>2, <2>3
  <1> QED BY <1>4 DEF BootInv, RecentSeeds, Inserting

\* The recent seeds of the servers and the servers about to add one are never
\* more than the servers: only a server that found no seed goes on to its insert.
THEOREM BootInvariant == Spec => []BootInv
  <1>1. Init => BootInv
    <2> SUFFICES ASSUME Init PROVE BootInv
      OBVIOUS
    <2>1. NoRow.kind = "none"
      BY DEF NoRow
    <2>2. RecentSeeds = {} /\ Inserting = {}
      BY <2>1 DEF Init, RecentSeeds, Inserting
    <2>3. Cardinality(RecentSeeds) = 0 /\ Cardinality(Inserting) = 0
      BY <2>2, FS_EmptySet
    <2>4. Cardinality(Servers) \in Nat
      BY FS_CardinalityType
    <2>5. Cardinality(RecentSeeds) + Cardinality(Inserting) <= Cardinality(Servers)
      BY <2>3, <2>4
    <2> QED BY <2>5 DEF BootInv, RecentSeeds, Inserting
  <1>2. Inv /\ WorkInv /\ BootInv /\ [Next]_vars => BootInv'
    BY BootKept
  <1> QED BY <1>1, <1>2, Invariance, WorkInvariant, PTL DEF Spec

\* Servers that start together may each put in a seed, but however many times they
\* restart, no more seeds of theirs than servers come within 24 hours, those that
\* failed aside.
THEOREM SeedsStayBounded == Spec => []SeedsBounded
  <1>1. BootInv => SeedsBounded
    <2> SUFFICES ASSUME BootInv PROVE SeedsBounded
      OBVIOUS
    <2>1. Cardinality(RecentSeeds) + Cardinality(Inserting) <= Cardinality(Servers)
      BY DEF BootInv, RecentSeeds, Inserting
    <2>2. RecentSeeds \in SUBSET Jobs /\ Inserting \in SUBSET Servers
      BY DEF RecentSeeds, Inserting
    <2>3. Cardinality(RecentSeeds) <= Cardinality(Servers)
      BY <2>1, <2>2, SeedsFinite
    <2> QED BY <2>3 DEF SeedsBounded, RecentSeeds
  <1> QED BY <1>1, BootInvariant, PTL
-----------------------------------------------------------------------------
(* The refinement *)

\* What the mapping of ImplementsTable shows of who works on job j.
WorkersOf(j) == { p \in Procs : Working(p) /\ hand[p].job = j }

\* The table shows as much of job j as before; and the workers on it.
SameEntry(j)   == rows'[j].status = rows[j].status /\ rows'[j].attempts = rows[j].attempts
SameWorkers(j) == WorkersOf(j)' = WorkersOf(j)

Elsewhere(k) == \A j \in Jobs : j # k => SameEntry(j) /\ SameWorkers(j)

\* What a step shows of job k, after the actions of JobTable.
Offered(k) ==
  /\ rows[k].status = "none" /\ rows'[k].status = "pending" /\ rows'[k].attempts = 0
  /\ SameWorkers(k)

Attempted(k) ==
  /\ rows[k].status = "pending" /\ rows'[k].status = "running"
  /\ WorkersOf(k) = {} /\ rows[k].attempts < MaxAttempts
  /\ rows'[k].attempts = rows[k].attempts + 1

Taken(p, k) ==
  /\ Attempted(k) /\ WorkersOf(k)' = {p}
  /\ \A j \in Jobs : p \notin WorkersOf(j)

SettledBy(p, k) ==
  /\ rows[k].status = "running" /\ WorkersOf(k) = {p} /\ WorkersOf(k)' = {}
  /\ rows'[k].attempts = rows[k].attempts
  /\ \/ rows'[k].status = "done"
     \/ rows[k].attempts < MaxAttempts /\ rows'[k].status = "pending"
     \/ ~(rows[k].attempts < MaxAttempts) /\ rows'[k].status = "failed"

LeftBy(p, k) == WorkersOf(k) = {p} /\ WorkersOf(k)' = {} /\ SameEntry(k)

\* The step shows nothing, or one of these.
Shows(k) ==
  /\ Elsewhere(k)
  /\ \/ Offered(k)
     \/ Attempted(k) /\ SameWorkers(k)
     \/ \E p \in Procs : Taken(p, k) \/ SettledBy(p, k) \/ LeftBy(p, k)

Shown ==
  \/ \A j \in Jobs : SameEntry(j) /\ SameWorkers(j)
  \/ \E k \in Jobs : Shows(k)

\* A step that shows nothing new is a stuttering step of JobTable.
LEMMA TableStutters ==
  ASSUME \A j \in Jobs : SameEntry(j) /\ SameWorkers(j)
  PROVE  UNCHANGED Table!vars
<1>1. [j \in Jobs |-> rows[j].status]' = [j \in Jobs |-> rows[j].status]
  BY DEF SameEntry
<1>2. [j \in Jobs |-> rows[j].attempts]' = [j \in Jobs |-> rows[j].attempts]
  BY DEF SameEntry
<1>3. [j \in Jobs |-> WorkersOf(j)]' = [j \in Jobs |-> WorkersOf(j)]
  BY DEF SameWorkers
<1>. QED BY <1>1, <1>2, <1>3 DEF Table!vars, WorkersOf

\* A step that shows one of these of job k is a step of JobTable.
LEMMA TableSteps ==
  ASSUME NEW k \in Jobs, Shows(k)
  PROVE  Table!Next
<1>. DEFINE status   == [j \in Jobs |-> rows[j].status]
            attempts == [j \in Jobs |-> rows[j].attempts]
            workers  == [j \in Jobs |-> WorkersOf(j)]
<1>1. /\ status[k] = rows[k].status
      /\ attempts[k] = rows[k].attempts
      /\ workers[k] = WorkersOf(k)
  OBVIOUS
<1>2. status' = [status EXCEPT ![k] = rows'[k].status]
  BY DEF Shows, Elsewhere, SameEntry
<1>3. attempts' = [attempts EXCEPT ![k] = rows'[k].attempts]
  BY DEF Shows, Elsewhere, SameEntry
<1>4. workers' = [workers EXCEPT ![k] = WorkersOf(k)']
  BY DEF Shows, Elsewhere, SameWorkers
<1>5. /\ rows'[k].attempts = rows[k].attempts => attempts' = attempts
      /\ rows'[k].status = rows[k].status => status' = status
      /\ WorkersOf(k)' = WorkersOf(k) => workers' = workers
  BY <1>1, <1>2, <1>3, <1>4
<1>6. CASE Offered(k)
  <2>1. Table!Offer(k)
    BY <1>1, <1>2, <1>3, <1>5, <1>6
    DEF Table!Offer, Offered, SameWorkers, WorkersOf
  <2>. QED BY <2>1 DEF Table!Next
<1>7. ASSUME Attempted(k) PROVE Table!Attempt(k)
  BY <1>1, <1>2, <1>3, <1>7 DEF Table!Attempt, Attempted, WorkersOf
<1>8. CASE Attempted(k) /\ SameWorkers(k)
  <2>1. Table!TakenByNobody(k)
    BY <1>5, <1>7, <1>8 DEF Table!TakenByNobody, SameWorkers, WorkersOf
  <2>. QED BY <2>1 DEF Table!Next
<1>9. ASSUME NEW p \in Procs, Taken(p, k) PROVE Table!Next
  <2>1. \A i \in Jobs : p \notin workers[i]
    BY <1>9 DEF Taken
  <2>2. workers' = [workers EXCEPT ![k] = {p}]
    BY <1>4, <1>9 DEF Taken
  <2>3. Table!Take(p, k)
    BY <1>7, <1>9, <2>1, <2>2 DEF Table!Take, Taken, WorkersOf
  <2>. QED BY <2>3 DEF Table!Next
<1>10. ASSUME NEW p \in Procs, SettledBy(p, k) PROVE Table!Next
  <2>1. workers' = [workers EXCEPT ![k] = {}] /\ attempts' = attempts
    BY <1>4, <1>5, <1>10 DEF SettledBy
  <2>2. /\ status[k] = "running" /\ workers[k] = {p}
        /\ \E to \in {"done"} \cup {IF attempts[k] < MaxAttempts THEN "pending" ELSE "failed"} :
             status' = [status EXCEPT ![k] = to]
    <3>1. rows'[k].status \in
            {"done"} \cup {IF rows[k].attempts < MaxAttempts THEN "pending" ELSE "failed"}
      BY <1>10 DEF SettledBy
    <3>2. rows'[k].status \in
            {"done"} \cup {IF attempts[k] < MaxAttempts THEN "pending" ELSE "failed"}
      <4>. HIDE DEF attempts, status, workers
      <4>. QED BY <1>1, <3>1, Zenon
    <3>3. status[k] = "running" /\ workers[k] = {p}
      BY <1>1, <1>10 DEF SettledBy
    <3>. QED BY <1>2, <3>2, <3>3
  <2>3. Table!Settle(p, k)
    BY <2>1, <2>2 DEF Table!Settle, WorkersOf
  <2>. QED BY <2>3 DEF Table!Next
<1>11. ASSUME NEW p \in Procs, LeftBy(p, k) PROVE Table!Next
  <2>1. workers[k] = {p} /\ workers' = [workers EXCEPT ![k] = {}]
        /\ attempts' = attempts /\ status' = status
    BY <1>1, <1>4, <1>5, <1>11 DEF LeftBy, SameEntry
  <2>2. Table!Leave(p, k)
    BY <2>1 DEF Table!Leave, WorkersOf
  <2>. QED BY <2>2 DEF Table!Next
<1>. QED BY <1>6, <1>8, <1>9, <1>10, <1>11 DEF Shows

\* The workers stay while the hand that moves keeps its job, or has none.
LEMMA WorkersKept ==
  ASSUME NEW p \in Procs, OnlyHand(p), Working(p)' <=> Working(p),
         Working(p) => hand'[p].job = hand[p].job
  PROVE  \A j \in Jobs : SameWorkers(j)
BY DEF SameWorkers, WorkersOf, OnlyHand, Working

\* A process that stops working is gone from its job, which then has nobody.
LEMMA WorkerGone ==
  ASSUME Inv, NEW p \in Procs, NEW k \in Jobs, k = hand[p].job,
         OnlyHand(p), Working(p), ~Working(p)'
  PROVE  /\ WorkersOf(k) = {p} /\ WorkersOf(k)' = {}
         /\ \A j \in Jobs : j # k => SameWorkers(j)
<1>1. \A q \in Procs : q # p => (Working(q)' <=> Working(q)) /\ hand'[q] = hand[q]
  BY DEF OnlyHand, Working
<1>2. \A q \in Procs : Working(q) /\ hand[q].job = k => q = p
  BY DEF Inv, QueueInv, OneOwner, Holding
<1>3. WorkersOf(k) = {p}
  BY <1>2 DEF WorkersOf
<1>4. WorkersOf(k)' = {}
  BY <1>1, <1>2 DEF WorkersOf
<1>5. \A j \in Jobs : j # k => SameWorkers(j)
  BY <1>1 DEF SameWorkers, WorkersOf
<1>. QED BY <1>3, <1>4, <1>5

\* Nobody works on the row that a claim has locked, and the claim works on nothing.
LEMMA LockedHasNobody ==
  ASSUME Inv, NEW p \in Procs, NEW k \in Jobs, k = hand[p].job, hand[p].pc = "locked"
  PROVE  WorkersOf(k) = {} /\ ~Working(p) /\ \A j \in Jobs : p \notin WorkersOf(j)
<1>1. ~Working(p) /\ Holding(p)
  BY DEF Working, Holding, Stages, Fallible
<1>2. \A q \in Procs : Working(q) /\ hand[q].job = k => q = p
  BY <1>1 DEF Inv, QueueInv, OneOwner, Holding
<1>. QED BY <1>1, <1>2 DEF WorkersOf

\* Once the claim is committed it works on that row.
LEMMA WorkerComes ==
  ASSUME Inv, NEW p \in Procs, NEW k \in Jobs, k = hand[p].job, hand[p].pc = "locked",
         OnlyHand(p), Working(p)', hand'[p].job = k
  PROVE  /\ WorkersOf(k)' = {p}
         /\ \A j \in Jobs : j # k => SameWorkers(j)
<1>1. \A q \in Procs : q # p => (Working(q)' <=> Working(q)) /\ hand'[q] = hand[q]
  BY DEF OnlyHand, Working
<1>2. ~Working(p) /\ WorkersOf(k) = {}
  BY LockedHasNobody
<1>3. WorkersOf(k)' = {p}
  BY <1>1, <1>2 DEF WorkersOf
<1>4. \A j \in Jobs : j # k => SameWorkers(j)
  BY <1>1, <1>2 DEF SameWorkers, WorkersOf
<1>. QED BY <1>3, <1>4

\* A write to the row that p holds shows nothing of the others.
LEMMA WriteShows ==
  ASSUME Inv, NEW p \in Procs, Holding(p), NEW r, rows' = [rows EXCEPT ![hand[p].job] = r]
  PROVE  \E k \in Jobs : /\ k = hand[p].job
                         /\ rows[k] \in Rows /\ rows'[k] = r
                         /\ \A j \in Jobs : j # k => SameEntry(j)
<1>1. /\ hand[p].job \in Jobs /\ rows[hand[p].job] \in Rows
      /\ rows'[hand[p].job] = r
      /\ \A j \in Jobs : j # hand[p].job => rows'[j] = rows[j]
  BY OwnWrite
<1>2. PICK k \in Jobs : k = hand[p].job
  BY <1>1
<1>3. \A j \in Jobs : j # k => SameEntry(j)
  BY <1>1, <1>2 DEF SameEntry
<1>. QED BY <1>1, <1>2, <1>3
\* An insert offers a job.
LEMMA InsertShows ==
  ASSUME Inv, NEW kind \in {"vin_decode", "recalls_mmy", "seed_catalog"},
         NEW car \in Cars \cup {NoCar}, NEW forced \in BOOLEAN, NEW due \in BOOLEAN,
         Insert(kind, car, forced, due), \A j \in Jobs : SameWorkers(j)
  PROVE  Shown
<1>. DEFINE r == NewRow(kind, car, forced, due)
<1>1. r.status = "pending" /\ r.attempts = 0
  BY FreshRow
<1>2. /\ inserted \in 0..MaxRows /\ inserted < MaxRows
      /\ rows' = [rows EXCEPT ![inserted + 1] = r]
      /\ rows \in [Jobs -> Rows]
  BY DEF Insert, Inv, TypeOK
<1>. HIDE DEF r
<1>3. PICK k \in Jobs : k = inserted + 1
  BY <1>2 DEF Jobs
<1>4. rows'[k] = r /\ \A j \in Jobs : j # k => rows'[j] = rows[j]
  BY <1>2, <1>3
<1>5. rows[k].status = "none"
  BY <1>2, <1>3 DEF Inv, QueueInv, RowOK, Jobs
<1>6. Offered(k) /\ Elsewhere(k)
  BY <1>1, <1>4, <1>5 DEF Offered, Elsewhere, SameEntry
<1>. QED BY <1>6 DEF Shows, Shown

\* Rows that nobody writes to show what they did.
LEMMA StaysShown ==
  ASSUME UNCHANGED rows, \A j \in Jobs : SameWorkers(j)
  PROVE  Shown
BY DEF SameEntry, Shown

\* The stages of a job show nothing, or a job that is offered.
LEMMA ProcessShows ==
  ASSUME Inv, NEW p \in Procs, Process(p)
  PROVE  Shown
<1>1. Working(p) /\ Holding(p) /\ hand[p].pc \in Stages
  BY DEF Process, StageFails, Decode, SaveIdentity, SaveEnrichment, Attach, Follow, Fetch,
         UpsertNext, UpsertEnds, AttachFetched, Wait, SeedNext, At, Stages, Fallible,
         Working, Holding
<1>2. hand[p] \in Hands /\ hand \in [Procs -> Hands]
  BY DEF Inv, TypeOK
<1>3. ASSUME NEW h \in Hands, hand' = [hand EXCEPT ![p] = h],
             h.pc \in Stages, h.job = hand[p].job
      PROVE  \A j \in Jobs : SameWorkers(j)
  <2>1. OnlyHand(p) /\ hand'[p] = h
    BY <1>3, HandSet
  <2>. QED BY <1>1, <1>3, <2>1, WorkersKept DEF Working
<1>4. ASSUME NEW to \in Stages, Goto(p, to) PROVE \A j \in Jobs : SameWorkers(j)
  <2>1. hand'[p].pc = to /\ hand'[p].job = hand[p].job /\ OnlyHand(p)
    BY <1>4, StageMoved
  <2>. QED BY <1>1, <2>1, WorkersKept DEF Working
<1>5. CASE Fetch(p)
  <2>1. PICK found \in SUBSET Campaigns :
          hand' = [hand EXCEPT ![p] = [hand[p] EXCEPT
                     !.pc = IF PayloadInScope(p) THEN "upsert" ELSE "ok", !.todo = found]]
    BY <1>5 DEF Fetch
  <2>. DEFINE to == IF PayloadInScope(p) THEN "upsert" ELSE "ok"
              h  == [hand[p] EXCEPT !.pc = to, !.todo = found]
  <2>3. to \in Stages
    BY DEF Stages, Fallible
  <2>2. h \in Hands /\ h.pc = to /\ h.job = hand[p].job
    <3>. HIDE DEF to
    <3>. QED BY <1>2, <2>3 DEF Hands
  <2>4. hand' = [hand EXCEPT ![p] = h]
    BY <2>1
  <2>. HIDE DEF h
  <2>5. \A j \in Jobs : SameWorkers(j)
    BY <1>3, <2>2, <2>3, <2>4
  <2>. QED BY <1>5, <2>5, StaysShown DEF Fetch, queueVars
<1>6. CASE UpsertNext(p)
  <2>1. PICK c \in hand[p].todo : hand' = [hand EXCEPT ![p] = [hand[p] EXCEPT !.todo = @ \ {c}]]
    BY <1>6 DEF UpsertNext
  <2>. DEFINE h == [hand[p] EXCEPT !.todo = @ \ {c}]
  <2>2. h \in Hands /\ h.pc = hand[p].pc /\ h.job = hand[p].job
    BY <1>2 DEF Hands
  <2>3. hand' = [hand EXCEPT ![p] = h]
    BY <2>1
  <2>. HIDE DEF h
  <2>4. \A j \in Jobs : SameWorkers(j)
    BY <1>1, <1>3, <2>2, <2>3
  <2>. QED BY <1>6, <2>4, StaysShown DEF UpsertNext, queueVars
<1>7. CASE Follow(p)
  <2>1. \A j \in Jobs : SameWorkers(j)
    BY <1>4, <1>7 DEF Follow, Stages
  <2>2. CASE UNCHANGED queueVars
    BY <2>1, <2>2, StaysShown DEF queueVars
  <2>3. CASE Insert("recalls_mmy", CarOf(p), FALSE, TRUE)
    <3>1. CarOf(p) \in Cars
      BY <1>1, <1>7, OwnRow DEF Follow, At, VinStages
    <3>. QED BY <2>1, <2>3, <3>1, InsertShows
  <2>. QED BY <1>7, <2>2, <2>3 DEF Follow
<1>8. CASE SeedNext(p)
  <2>1. CASE Goto(p, "ok") /\ UNCHANGED queueVars
    <3>1. \A j \in Jobs : SameWorkers(j)
      BY <1>4, <2>1 DEF Stages
    <3>. QED BY <2>1, <3>1, StaysShown DEF queueVars
  <2>2. CASE /\ hand[p].n < SeedRows
             /\ Insert("recalls_mmy", NoCar, FALSE, hand[p].n = 0)
             /\ hand' = [hand EXCEPT ![p].n = @ + 1]
    <3>. DEFINE h == [hand[p] EXCEPT !.n = @ + 1]
    <3>1. hand[p].n + 1 \in 0..SeedRows
      BY <1>2, <2>2 DEF Hands
    <3>2. h \in Hands /\ h.pc = hand[p].pc /\ h.job = hand[p].job
      BY <1>2, <3>1 DEF Hands
    <3>3. hand' = [hand EXCEPT ![p] = h] /\ (hand[p].n = 0) \in BOOLEAN
      BY <2>2
    <3>. HIDE DEF h
    <3>4. \A j \in Jobs : SameWorkers(j)
      BY <1>1, <1>3, <3>2, <3>3
    <3>. QED BY <2>2, <3>3, <3>4, InsertShows
  <2>. QED BY <1>8, <2>1, <2>2 DEF SeedNext
<1>9. CASE \/ StageFails(p) \/ Decode(p) \/ SaveIdentity(p) \/ SaveEnrichment(p)
           \/ Attach(p) \/ UpsertEnds(p) \/ AttachFetched(p) \/ Wait(p)
  <2>1. \E to \in Stages : Goto(p, to)
    BY <1>9 DEF StageFails, Decode, SaveIdentity, SaveEnrichment, Attach, UpsertEnds,
                AttachFetched, Wait, Stages, Fallible
  <2>2. UNCHANGED rows
    BY <1>9 DEF StageFails, Decode, SaveIdentity, SaveEnrichment, Attach, UpsertEnds,
                AttachFetched, Wait, queueVars
  <2>. QED BY <1>4, <2>1, <2>2, StaysShown
<1>. QED BY <1>5, <1>6, <1>7, <1>8, <1>9 DEF Process

\* A claim, and the two statements that settle a job.
LEMMA LoopShows ==
  ASSUME Inv, NEW p \in Procs, Loop(p)
  PROVE  Shown
<1>1. hand[p] \in Hands /\ hand \in [Procs -> Hands]
  BY DEF Inv, TypeOK
<1>2. CASE Process(p)
  BY <1>2, ProcessShows
<1>3. CASE ClaimLocks(p)
  <2>1. OnlyHand(p) /\ hand[p].pc = "claim" /\ hand'[p].pc = "locked" /\ UNCHANGED rows
    BY <1>1, <1>3 DEF ClaimLocks, OnlyHand, queueVars, Off
  <2>2. ~Working(p) /\ ~Working(p)'
    BY <2>1 DEF Working, Stages, Fallible
  <2>. QED BY <2>1, <2>2, WorkersKept, StaysShown
<1>4. CASE ClaimsNothing(p)
  <2>1. /\ hand' = [hand EXCEPT ![p] = LoopOver(p)] /\ UNCHANGED rows
        /\ hand[p].pc = "claim"
    BY <1>4 DEF ClaimsNothing, queueVars
  <2>2. OnlyHand(p) /\ hand'[p] = LoopOver(p) /\ Free(p, LoopOver(p))
    BY <2>1, NextHands, HandSet
  <2>3. ~Working(p) /\ ~Working(p)'
    BY <2>1, <2>2 DEF Free, Working, Stages, Fallible
  <2>. QED BY <2>1, <2>2, <2>3, WorkersKept, StaysShown
<1>5. CASE ClaimCommits(p)
  <2>. DEFINE r == Claimed(rows[hand[p].job])
              h == [hand[p] EXCEPT !.pc = FirstStage(rows[hand[p].job].kind)]
  <2>1. /\ hand[p].pc = "locked" /\ Holding(p)
        /\ rows' = [rows EXCEPT ![hand[p].job] = r]
        /\ hand' = [hand EXCEPT ![p] = h]
    BY <1>5 DEF ClaimCommits, Holding
  <2>2. PICK k \in Jobs : /\ k = hand[p].job
                          /\ rows[k] \in Rows /\ rows'[k] = r
                          /\ \A j \in Jobs : j # k => SameEntry(j)
    BY <2>1, WriteShows, Zenon
  <2>3. rows[k].status = "pending" /\ rows[k].attempts < MaxAttempts /\ rows[k].kind # "none"
    BY <2>1, <2>2, OwnRow DEF Inv, QueueInv, HandOK, AttemptsInStep
  <2>4. r.status = "running" /\ r.attempts = rows[k].attempts + 1
    BY <2>2, <2>3, ClaimedRow
  <2>5. FirstStage(rows[k].kind) \in {"decode", "fetch", "seed"}
    BY <2>2, <2>3 DEF FirstStage, Rows
  <2>6. h \in Hands /\ h.pc = FirstStage(rows[k].kind) /\ h.job = k
    <3>1. hand[p] \in Hands /\ FirstStage(rows[k].kind) \in PCs
      BY <1>1, <2>5 DEF PCs, Stages, Fallible
    <3>. QED BY <2>2, <3>1, HandMoves
  <2>. HIDE DEF h, r
  <2>7. OnlyHand(p) /\ hand'[p] = h
    BY <2>1, <2>6, HandSet
  <2>8. Working(p)' /\ hand'[p].job = k
    BY <2>5, <2>6, <2>7 DEF Working, Stages, Fallible
  <2>9. /\ WorkersOf(k) = {} /\ WorkersOf(k)' = {p}
        /\ \A j \in Jobs : p \notin WorkersOf(j)
        /\ \A j \in Jobs : j # k => SameWorkers(j)
    BY <2>1, <2>2, <2>7, <2>8, WorkerComes, LockedHasNobody
  <2>10. Taken(p, k) /\ Elsewhere(k)
    BY <2>2, <2>3, <2>4, <2>9 DEF Taken, Attempted, Elsewhere
  <2>. QED BY <2>10 DEF Shows, Shown
<1>6. CASE Complete(p) \/ Fail(p)
  <2>. DEFINE r == IF Complete(p) THEN Completed(rows[hand[p].job]) ELSE Retried(rows[hand[p].job])
  <2>1. /\ Holding(p) /\ Working(p)
        /\ rows' = [rows EXCEPT ![hand[p].job] = r]
        /\ hand' = [hand EXCEPT ![p] = AfterJob(p)]
    BY <1>6 DEF Complete, Fail, At, Holding, Working, Stages, Fallible
  <2>. HIDE DEF r
  <2>2. PICK k \in Jobs : /\ k = hand[p].job
                          /\ rows[k] \in Rows /\ rows'[k] = r
                          /\ \A j \in Jobs : j # k => SameEntry(j)
    BY <2>1, WriteShows, Zenon
  <2>3. rows[k].status = "running" /\ rows[k].attempts \in Nat /\ MaxAttempts \in Nat
    BY <2>1, <2>2 DEF Inv, QueueInv, OneOwner, Rows
  <2>4. /\ r.attempts = rows[k].attempts
        /\ r.status \in {"done"} \cup
             {IF rows[k].attempts >= MaxAttempts THEN "failed" ELSE "pending"}
    BY <2>2, RetriedRow DEF r, Completed, Rows
  <2>5. OnlyHand(p) /\ hand'[p] = AfterJob(p) /\ Free(p, AfterJob(p))
    BY <2>1, NextHands, HandSet
  <2>6. ~Working(p)'
    BY <2>5 DEF Free, Working, Stages, Fallible
  <2>7. /\ WorkersOf(k) = {p} /\ WorkersOf(k)' = {}
        /\ \A j \in Jobs : j # k => SameWorkers(j)
    BY <2>1, <2>2, <2>5, <2>6, WorkerGone
  <2>8. SettledBy(p, k) /\ Elsewhere(k)
    BY <2>2, <2>3, <2>4, <2>7 DEF SettledBy, Elsewhere
  <2>. QED BY <2>8 DEF Shows, Shown
<1>. QED BY <1>2, <1>3, <1>4, <1>5, <1>6 DEF Loop

\* A process that ends up holding nothing has left its job, if it had one.
LEMMA FreedShows ==
  ASSUME Inv, NEW p \in Procs, NEW h \in Hands, hand' = [hand EXCEPT ![p] = h],
         Free(p, h), UNCHANGED rows
  PROVE  Shown
<1>1. OnlyHand(p) /\ hand'[p] = h
  BY HandSet
<1>2. ~Working(p)'
  BY <1>1 DEF Free, Working, Stages, Fallible
<1>3. CASE ~Working(p)
  BY <1>1, <1>2, <1>3, WorkersKept, StaysShown
<1>4. CASE Working(p)
  <2>1. PICK k \in Jobs : k = hand[p].job
    BY <1>4, OwnRow DEF Holding
  <2>2. /\ WorkersOf(k) = {p} /\ WorkersOf(k)' = {}
        /\ \A j \in Jobs : j # k => SameWorkers(j)
    BY <1>1, <1>2, <1>4, <2>1, WorkerGone
  <2>3. LeftBy(p, k) /\ Elsewhere(k)
    BY <2>2 DEF LeftBy, Elsewhere, SameEntry
  <2>. QED BY <2>3 DEF Shows, Shown
<1>. QED BY <1>3, <1>4

\* What goes wrong leaves a job behind, or one that nobody heard of taking.
LEMMA FaultyShows ==
  ASSUME Inv, NEW p \in Procs, Faulty(p)
  PROVE  Shown
<1>1. \A h \in {Off, LoopOver(p), AfterJob(p)} : h \in Hands /\ Free(p, h)
  BY NextHands, FreeHands
<1>2. CASE SettleLost(p)
  BY <1>1, <1>2, FreedShows DEF SettleLost, queueVars
<1>3. CASE Stops(p)
  <2>1. hand' = [hand EXCEPT ![p] = Off] /\ UNCHANGED rows
    BY <1>3 DEF Stops, queueVars
  <2>. QED BY <1>1, <2>1, FreedShows
<1>4. CASE ClaimFails(p) /\ UNCHANGED rows
  BY <1>1, <1>4, FreedShows DEF ClaimFails
<1>5. CASE ClaimFails(p) /\ rows' = [rows EXCEPT ![hand[p].job] = Claimed(@)]
  <2>. DEFINE r == Claimed(rows[hand[p].job])
  <2>1. /\ hand[p].pc = "locked" /\ Holding(p)
        /\ rows' = [rows EXCEPT ![hand[p].job] = r]
        /\ hand' = [hand EXCEPT ![p] = LoopOver(p)]
    BY <1>5 DEF ClaimFails, Holding
  <2>2. PICK k \in Jobs : /\ k = hand[p].job
                          /\ rows[k] \in Rows /\ rows'[k] = r
                          /\ \A j \in Jobs : j # k => SameEntry(j)
    BY <2>1, WriteShows, Zenon
  <2>3. rows[k].status = "pending" /\ rows[k].attempts < MaxAttempts
    BY <2>1, <2>2 DEF Inv, QueueInv, HandOK, AttemptsInStep
  <2>4. r.status = "running" /\ r.attempts = rows[k].attempts + 1
    BY <2>2, <2>3, ClaimedRow
  <2>. HIDE DEF r
  <2>5. OnlyHand(p) /\ hand'[p] = LoopOver(p) /\ Free(p, LoopOver(p))
    BY <2>1, NextHands, HandSet
  <2>6. WorkersOf(k) = {} /\ ~Working(p) /\ ~Working(p)'
    BY <2>1, <2>2, <2>5, LockedHasNobody DEF Free, Working, Stages, Fallible
  <2>7. \A j \in Jobs : SameWorkers(j)
    BY <2>5, <2>6, WorkersKept
  <2>8. Attempted(k) /\ SameWorkers(k) /\ Elsewhere(k)
    BY <2>2, <2>3, <2>4, <2>6, <2>7 DEF Attempted, Elsewhere
  <2>. QED BY <2>8 DEF Shows, Shown
<1>6. CASE p \in Servers /\ TickStartsUnread(p)
  <2>. DEFINE h == [Off EXCEPT !.pc = "claim", !.left = TickJobs]
  <2>1. TickJobs \in 0..TickJobs /\ TickJobs > 0
    OBVIOUS
  <2>2. h \in Hands /\ Free(p, h)
    BY <2>1, FreeHands DEF Free
  <2>3. hand' = [hand EXCEPT ![p] = h] /\ UNCHANGED rows
    BY <1>6 DEF TickStartsUnread, queueVars
  <2>. HIDE DEF h
  <2>. QED BY <2>2, <2>3, FreedShows
<1>. QED BY <1>2, <1>3, <1>4, <1>5, <1>6 DEF Faulty, ClaimFails

\* The others offer jobs, start processes that hold nothing, or let time pass.
LEMMA OthersShow ==
  ASSUME Inv,
         \/ \E s \in Servers : Boot(s) \/ TickStarts(s) \/ \E v \in Cars : CreateScan(s, v)
         \/ \E d \in Drainers : DrainTimesOut(d) \/ \E seed \in BOOLEAN : DrainStarts(d, seed)
         \/ \E j \in Jobs : BecomesDue(j)
         \/ PatchSetting \/ GrowsOld \/ ForceSeed
  PROVE  Shown
<1>1. ASSUME UNCHANGED hand PROVE \A j \in Jobs : SameWorkers(j)
  BY <1>1 DEF SameWorkers, WorkersOf, Working
<1>2. ASSUME NEW kind \in {"vin_decode", "seed_catalog"}, NEW car \in Cars \cup {NoCar},
             NEW forced \in BOOLEAN, Insert(kind, car, forced, TRUE),
             \A j \in Jobs : SameWorkers(j)
      PROVE  Shown
  BY <1>2, InsertShows
<1>3. ASSUME NEW s \in Servers, Boot(s) PROVE Shown
  <2>1. CASE ServerStarts(s)
    <3>1. Resting \in Hands /\ Free(s, Resting)
      BY FreeHands DEF Free
    <3>. QED BY <2>1, <3>1, FreedShows DEF ServerStarts, Procs, queueVars
  <2>2. CASE SeedCheck(s)
    BY <1>1, <2>2, StaysShown DEF SeedCheck, queueVars
  <2>3. CASE SeedInsert(s)
    BY <1>1, <1>2, <2>3, StaysShown DEF SeedInsert, queueVars
  <2>. QED BY <1>3, <2>1, <2>2, <2>3 DEF Boot
<1>4. ASSUME NEW s \in Servers, TickStarts(s) PROVE Shown
  <2>. DEFINE h == [Off EXCEPT !.pc = "claim", !.left = TickJobs]
  <2>1. TickJobs \in 0..TickJobs /\ TickJobs > 0
    OBVIOUS
  <2>2. h \in Hands /\ Free(s, h)
    BY <2>1, FreeHands DEF Free
  <2>3. hand' = [hand EXCEPT ![s] = h] /\ UNCHANGED rows /\ s \in Procs
    BY <1>4 DEF TickStarts, queueVars, Procs
  <2>. HIDE DEF h
  <2>. QED BY <2>2, <2>3, FreedShows
<1>5. ASSUME NEW s \in Servers, NEW v \in Cars, CreateScan(s, v) PROVE Shown
  BY <1>1, <1>2, <1>5 DEF CreateScan
<1>6. ASSUME NEW d \in Drainers, DrainTimesOut(d) PROVE Shown
  <2>1. hand' = [hand EXCEPT ![d] = Off] /\ UNCHANGED rows /\ d \in Procs
    BY <1>6 DEF DrainTimesOut, queueVars, Procs
  <2>. QED BY <2>1, FreeHands, FreedShows DEF Free
<1>7. ASSUME NEW d \in Drainers, NEW seed \in BOOLEAN, DrainStarts(d, seed) PROVE Shown
  <2>. DEFINE h == [Off EXCEPT !.pc = "claim"]
  <2>1. /\ hand[d].pc = "off" /\ hand' = [hand EXCEPT ![d] = h] /\ d \in Procs
        /\ Insert("seed_catalog", NoCar, TRUE, TRUE) \/ UNCHANGED rows
    BY <1>7 DEF DrainStarts, queueVars, Procs
  <2>2. h \in Hands /\ h.pc = "claim"
    BY FreeHands
  <2>. HIDE DEF h
  <2>3. OnlyHand(d) /\ hand'[d] = h
    BY <2>1, <2>2, HandSet
  <2>4. ~Working(d) /\ ~Working(d)'
    BY <2>1, <2>2, <2>3 DEF Working, Stages, Fallible
  <2>5. \A j \in Jobs : SameWorkers(j)
    BY <2>1, <2>3, <2>4, WorkersKept
  <2>. QED BY <1>2, <2>1, <2>5, StaysShown
<1>8. ASSUME NEW k \in Jobs, BecomesDue(k) PROVE Shown
  <2>1. rows \in [Jobs -> Rows]
    BY DEF Inv, TypeOK
  <2>2. \A r \in Rows : LET t == [r EXCEPT !.due = TRUE]
                        IN  t.status = r.status /\ t.attempts = r.attempts
    BY DEF Rows
  <2>3. rows' = [rows EXCEPT ![k] = [rows[k] EXCEPT !.due = TRUE]]
    BY <1>8 DEF BecomesDue
  <2>4. \A j \in Jobs : SameEntry(j)
    BY <2>1, <2>2, <2>3 DEF SameEntry
  <2>. QED BY <1>1, <1>8, <2>4 DEF BecomesDue, Shown
<1>9. ASSUME PatchSetting \/ GrowsOld PROVE Shown
  BY <1>1, <1>9, StaysShown DEF PatchSetting, GrowsOld, queueVars
<1>10. ASSUME ForceSeed PROVE Shown
  BY <1>1, <1>2, <1>10 DEF ForceSeed
<1>. QED BY <1>3, <1>4, <1>5, <1>6, <1>7, <1>8, <1>9, <1>10

\* The queue implements the specification of a job: with statements of any number of
\* processes interleaved, processes that die and answers that are lost, a job is taken
\* by one process at a time, settled by nobody else, at most MaxAttempts times.
THEOREM TableImplemented == Spec => ImplementsTable
<1>1. Init => Table!Init
  <2>. SUFFICES ASSUME Init PROVE Table!Init
    OBVIOUS
  <2>1. \A j \in Jobs : rows[j].status = "none" /\ rows[j].attempts = 0
    BY DEF Init, NoRow
  <2>2. \A p \in Procs : ~Working(p)
    BY FreeHands DEF Init, Working, Stages, Fallible
  <2>. QED BY <2>1, <2>2 DEF Table!Init
<1>2. Inv /\ [Next]_vars => [Table!Next]_(Table!vars)
  <2>. SUFFICES ASSUME Inv, [Next]_vars PROVE Table!Next \/ UNCHANGED Table!vars
    BY DEF Table!vars
  <2>1. CASE UNCHANGED vars
    <3>1. \A j \in Jobs : SameEntry(j) /\ SameWorkers(j)
      BY <2>1 DEF vars, queueVars, SameEntry, SameWorkers, WorkersOf, Working
    <3>. QED BY <3>1, TableStutters
  <2>2. CASE Next
    <3>1. Shown
      BY <2>2, LoopShows, FaultyShows, OthersShow DEF Next
    <3>. QED BY <3>1, TableStutters, TableSteps DEF Shown
  <2>. QED BY <2>1, <2>2
<1>. QED BY <1>1, <1>2, Invariance, PTL DEF Spec, ImplementsTable, Table!Spec
=============================================================================
