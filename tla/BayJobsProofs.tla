--------------------------- MODULE BayJobsProofs ---------------------------
(***************************************************************************)
(* Theorems about BayJobs, for any number of requests, scans and codes.    *)
(***************************************************************************)
EXTENDS BayJobs, SequenceTheorems, TLAPS

USE BayJobsAssumption DEF BayJobsAssumption

\* A capped log is a log of at most LogCap lines, all taken from the old one.
LEMMA CappedLog ==
  ASSUME NEW S, NEW log \in Seq(S), Len(log) <= LogCap + 1
  PROVE  /\ Capped(log) \in Seq(S)
         /\ Len(Capped(log)) <= LogCap
         /\ \A k \in DOMAIN Capped(log) :
              \E m \in DOMAIN log : Capped(log)[k] = log[m]
<1>1. CASE Len(log) <= LogCap
  BY <1>1 DEF Capped
<1>2. CASE Len(log) = LogCap + 1
  <2>1. Capped(log) = SubSeq(log, 2, Len(log))
    BY <1>2 DEF Capped
  <2>2. SubSeq(log, 2, Len(log)) \in Seq(S)
    BY <1>2
  <2>3. Len(SubSeq(log, 2, Len(log))) = LogCap
    BY <1>2
  <2>4. \A k \in 1..LogCap : SubSeq(log, 2, Len(log))[k] = log[k + 1]
    BY <1>2
  <2>5. DOMAIN SubSeq(log, 2, Len(log)) = 1..LogCap
    BY <2>2, <2>3
  <2>. QED BY <2>1, <2>2, <2>3, <2>4, <2>5, <1>2, SMTT(60)
<1>. QED BY <1>1, <1>2

\* What note() does to a job record: it keeps its type and outcome, and each of
\* its lines is the new one or an old one.
LEMMA NotedRecord ==
  ASSUME NEW r \in JobRecords, Len(r.log) <= LogCap,
         NEW text \in Phases, NEW by \in Scans
  PROVE  /\ Noted(r, text, by) \in JobRecords
         /\ Len(Noted(r, text, by).log) <= LogCap
         /\ Noted(r, text, by).busy = r.busy
         /\ Noted(r, text, by).done = r.done
         /\ Noted(r, text, by).err = r.err
         /\ Noted(r, text, by).result = r.result
         /\ \A k \in DOMAIN Noted(r, text, by).log :
              \/ Noted(r, text, by).log[k] = [text |-> text, by |-> by]
              \/ \E m \in DOMAIN r.log : Noted(r, text, by).log[k] = r.log[m]
<1> DEFINE line == [text |-> text, by |-> by]
           longer == Append(r.log, line)
<1>0. r.log \in Seq(Lines) /\ line \in Lines
  BY DEF JobRecords, Lines
<1>1. longer \in Seq(Lines) /\ Len(longer) = Len(r.log) + 1 /\ Len(longer) <= LogCap + 1
  BY <1>0
<1>2. \A m \in DOMAIN longer : longer[m] = line \/ (m \in DOMAIN r.log /\ longer[m] = r.log[m])
  BY <1>0, <1>1
<1>3. /\ Noted(r, text, by).log = Capped(longer)
      /\ Noted(r, text, by).busy = r.busy
      /\ Noted(r, text, by).done = r.done
      /\ Noted(r, text, by).err = r.err
      /\ Noted(r, text, by).result = r.result
      /\ Noted(r, text, by) = [r EXCEPT !.phase = text, !.log = Capped(longer)]
  <2>1. Noted(r, text, by) = [r EXCEPT !.phase = text, !.log = Capped(longer)]
    BY DEF Noted
  <2>. QED BY <2>1, SMTT(30) DEF JobRecords
<1>4. /\ Capped(longer) \in Seq(Lines)
      /\ Len(Capped(longer)) <= LogCap
      /\ \A k \in DOMAIN Capped(longer) : \E m \in DOMAIN longer : Capped(longer)[k] = longer[m]
  BY <1>1, CappedLog
<1>5. Noted(r, text, by) \in JobRecords
  BY <1>3, <1>4 DEF JobRecords
<1>. HIDE DEF longer
<1>6. ASSUME NEW k \in DOMAIN Capped(longer)
      PROVE  \/ Capped(longer)[k] = line
             \/ \E m \in DOMAIN r.log : Capped(longer)[k] = r.log[m]
  <2>1. PICK m \in DOMAIN longer : Capped(longer)[k] = longer[m]
    BY <1>4, <1>6
  <2>. HIDE DEF line
  <2>. QED BY <1>2, <2>1, Zenon
<1>7. Len(Noted(r, text, by).log) <= LogCap
  BY <1>3, <1>4
<1>8. \A k \in DOMAIN Noted(r, text, by).log :
        \/ Noted(r, text, by).log[k] = line
        \/ \E m \in DOMAIN r.log : Noted(r, text, by).log[k] = r.log[m]
  BY <1>3, <1>6, ZenonT(60)
<1>. QED BY <1>3, <1>5, <1>7, <1>8, Zenon

\* The records of jobs a step may write have their type.
LEMMA FailedRecord ==
  ASSUME NEW r \in JobRecords, NEW err \in Errors
  PROVE  /\ FinishedFailed(r, err) \in JobRecords /\ FinishedFailed(r, err).log = r.log
         /\ ~FinishedFailed(r, err).busy /\ FinishedFailed(r, err).done
         /\ FinishedFailed(r, err).err = err /\ FinishedFailed(r, err).result = r.result
BY DEF FinishedFailed, JobRecords, Phases

LEMMA DoneRecord ==
  ASSUME NEW r \in JobRecords, NEW res \in {"uploaded", "uploadError"}
  PROVE  /\ FinishedDone(r, res) \in JobRecords /\ FinishedDone(r, res).log = r.log
         /\ ~FinishedDone(r, res).busy /\ FinishedDone(r, res).done
         /\ FinishedDone(r, res).err = r.err /\ FinishedDone(r, res).result = res
BY DEF FinishedDone, JobRecords, Phases

LEMMA FreshRecord ==
  /\ NoJob \in JobRecords /\ NoJob.log = <<>> /\ ~NoJob.busy /\ ~NoJob.done
  /\ \A j \in Scans : /\ NewJob(j) \in JobRecords /\ NewJob(j).busy
                      /\ Len(NewJob(j).log) = 1
                      /\ NewJob(j).log[1] = [text |-> "Starting", by |-> j]
<1>1. <<>> \in Seq(Lines) /\ \A j \in Scans : [text |-> "Starting", by |-> j] \in Lines
  BY DEF Lines, Phases
<1>2. \A x \in Lines : <<x>> \in Seq(Lines) /\ Len(<<x>>) = 1 /\ <<x>>[1] = x
  OBVIOUS
<1>. QED BY <1>1, <1>2 DEF NoJob, NewJob, JobRecords, Phases, Errors

\* The steps of a goroutine keep the type of the values it has read.
LEMMA ScanUpdates ==
  /\ NewScan \in ScanValues
  /\ \A b \in BOOLEAN : [NewScan EXCEPT !.mock = b] \in ScanValues
  /\ \A s \in ScanValues, b \in BOOLEAN : [s EXCEPT !.ok = b] \in ScanValues
  /\ \A s \in ScanValues, v \in {"none", "mock", "ecu"} : [s EXCEPT !.vin = v] \in ScanValues
  /\ \A s \in ScanValues : [s EXCEPT !.left = s.codes] \in ScanValues
  /\ \A s \in ScanValues : s.left > 0 => [s EXCEPT !.left = s.left - 1] \in ScanValues
  /\ \A s \in ScanValues, n \in 0..MaxCodes :
       [s EXCEPT !.codes = n, !.left = n] \in ScanValues
  /\ \A s \in ScanValues, e \in Errors : [s EXCEPT !.err = e] \in ScanValues
<1>1. NewScan \in ScanValues
  BY DEF ScanValues, NewScan, Errors
<1>2. \A s \in ScanValues, b \in BOOLEAN :
        [s EXCEPT !.mock = b] \in ScanValues /\ [s EXCEPT !.ok = b] \in ScanValues
  BY DEF ScanValues
<1>4. \A s \in ScanValues, v \in {"none", "mock", "ecu"} : [s EXCEPT !.vin = v] \in ScanValues
  BY DEF ScanValues
<1>5. \A s \in ScanValues : [s EXCEPT !.left = s.codes] \in ScanValues
  BY DEF ScanValues
<1>6. \A s \in ScanValues : s.left > 0 => [s EXCEPT !.left = s.left - 1] \in ScanValues
  BY DEF ScanValues
<1>7. \A s \in ScanValues, n \in 0..MaxCodes :
        [s EXCEPT !.codes = n, !.left = n] \in ScanValues
  BY DEF ScanValues
<1>8. \A s \in ScanValues, e \in Errors : [s EXCEPT !.err = e] \in ScanValues
  BY DEF ScanValues
<1>. QED BY <1>1, <1>2, <1>4, <1>5, <1>6, <1>7, <1>8

\* The steps of a request keep its type.
LEMMA RequestUpdates ==
  /\ Idle \in Requests
  /\ [Idle EXCEPT !.op = "reply"] \in Requests
  /\ \A j \in Scans, q \in BOOLEAN :
       [op |-> "check", seen |-> j, asOf |-> j, quit |-> q] \in Requests
  /\ \A h \in Requests : [h EXCEPT !.op = "reply"] \in Requests
  /\ \A h \in Requests : h.op = "check" => [h EXCEPT !.op = "fire"] \in Requests
  /\ \A h \in Requests : h.op = "fire" => [h EXCEPT !.op = "note"] \in Requests
  /\ \A h \in Requests, j \in Scans :
       h.op = "note" => [h EXCEPT !.op = "write", !.seen = j] \in Requests
  /\ \A h \in Requests :
       h.op \in {"check", "fire", "note", "write"} => h.seen \in Scans /\ h.asOf \in Scans
<1>1. Idle \in Requests /\ [Idle EXCEPT !.op = "reply"] \in Requests
  BY DEF Requests, Idle
<1>2. \A j \in Scans : j # NoScan
  BY DEF Scans, NoScan
<1>3. \A j \in Scans, q \in BOOLEAN :
        [op |-> "check", seen |-> j, asOf |-> j, quit |-> q] \in Requests
  BY <1>2 DEF Requests
<1>4. \A h \in Requests : [h EXCEPT !.op = "reply"] \in Requests
  BY DEF Requests
<1>5. \A h \in Requests : h.op = "check" => [h EXCEPT !.op = "fire"] \in Requests
  BY DEF Requests
<1>6. \A h \in Requests : h.op = "fire" => [h EXCEPT !.op = "note"] \in Requests
  BY DEF Requests
<1>7. \A h \in Requests : h.op = "note" => [h EXCEPT !.op = "write"] \in Requests
  BY DEF Requests
<1>8. \A h \in Requests, j \in Scans : [h EXCEPT !.seen = j] \in Requests
  BY <1>2 DEF Requests
<1>9. \A h \in Requests, j \in Scans :
        h.op = "note" => [h EXCEPT !.op = "write", !.seen = j] \in Requests
  BY <1>7, <1>8
<1>10. \A h \in Requests :
         h.op \in {"check", "fire", "note", "write"} => h.seen \in Scans /\ h.asOf \in Scans
  BY DEF Requests
<1>. QED BY <1>1, <1>3, <1>4, <1>5, <1>6, <1>9, <1>10

\* What Goto does to the types, whatever happens to the scan's values.
LEMMA GotoTypes ==
  ASSUME TypeOK, NEW j \in Scans, NEW to \in RunnerPCs, NEW text \in Phases \cup {Quiet},
         Goto(j, to, text),
         scan' \in [Scans -> ScanValues]
  PROVE  TypeOK'
BY DEF Goto, TypeOK, procVars, jobVars

LEMMA LeaveTypes ==
  ASSUME TypeOK, NEW j \in Scans, NEW ok \in BOOLEAN, Leave(j, ok)
  PROVE  TypeOK'
<1>1. scan' \in [Scans -> ScanValues]
  BY ScanUpdates DEF Leave, TypeOK
<1>2. \E text \in Phases \cup {Quiet} : Goto(j, "park", text)
  BY DEF Leave, Phases
<1>3. "park" \in RunnerPCs
  BY DEF RunnerPCs
<1>. QED BY <1>1, <1>2, <1>3, GotoTypes

LEMMA FailTypes ==
  ASSUME TypeOK, NEW j \in Scans, NEW err \in Errors, NEW text \in Phases \cup {Quiet},
         FailWith(j, err, text)
  PROVE  TypeOK'
<1>1. scan' \in [Scans -> ScanValues]
  BY ScanUpdates DEF FailWith, TypeOK
<1>2. "failFinish" \in RunnerPCs
  BY DEF RunnerPCs
<1>. QED BY <1>1, <1>2, GotoTypes DEF FailWith

\* Every variable keeps its type, and a job never holds more than LogCap lines.
THEOREM TypeCorrect == Spec => []TypeOK
<1>1. Init => TypeOK
  <2>. SUFFICES ASSUME Init PROVE TypeOK
    OBVIOUS
  <2>1. NoJob \in JobRecords /\ Len(NoJob.log) <= LogCap
    BY FreshRecord
  <2>2. Idle \in Requests /\ NewScan \in ScanValues
    BY RequestUpdates, ScanUpdates
  <2>3. created \in 0..MaxScans
    BY DEF Init
  <2>4. jobs \in [Scans -> JobRecords] /\ \A j \in Scans : Len(jobs[j].log) <= LogCap
    BY <2>1 DEF Init
  <2>. QED
    BY <2>2, <2>3, <2>4 DEF Init, TypeOK, RunnerPCs
<1>2. TypeOK /\ [Next]_vars => TypeOK'
  <2>. SUFFICES ASSUME TypeOK, [Next]_vars PROVE TypeOK'
    OBVIOUS
  <2>0. jobs \in [Scans -> JobRecords] /\ \A j \in Scans : Len(jobs[j].log) <= LogCap
    BY DEF TypeOK
  <2>1. ASSUME NEW mock \in BOOLEAN, HandleScan(mock) PROVE TypeOK'
    <3>1. created \in 0..MaxScans /\ created < MaxScans
      BY <2>1 DEF HandleScan, TypeOK
    <3>2. PICK k \in Scans : k = created + 1
      BY <3>1 DEF Scans
    <3>3. NewJob(k) \in JobRecords /\ Len(NewJob(k).log) <= LogCap
      <4>1. NewJob(k) \in JobRecords /\ Len(NewJob(k).log) = 1
        BY FreshRecord
      <4>2. 1 <= LogCap
        OBVIOUS
      <4>. QED
        BY <4>1, <4>2
    <3>4. /\ created' = k
          /\ job' = k
          /\ jobs' = [jobs EXCEPT ![k] = NewJob(k)]
          /\ ctx' = [ctx EXCEPT ![k] = "live"]
          /\ pc' = [pc EXCEPT ![k] = "open"]
          /\ pend' = [pend EXCEPT ![k] = "Opening adapter"]
          /\ scan' = [scan EXCEPT ![k] = [NewScan EXCEPT !.mock = mock]]
          /\ UNCHANGED <<alive, quitting, tgt, handler>>
      BY <2>1, <3>2 DEF HandleScan, procVars
    <3>5. jobs' \in [Scans -> JobRecords] /\ \A j \in Scans : Len(jobs'[j].log) <= LogCap
      BY <2>0, <3>3, <3>4
    <3>6. scan' \in [Scans -> ScanValues]
      BY <3>4, ScanUpdates DEF TypeOK
    <3>7. created' \in 0..MaxScans
      <4>1. k \in 0..MaxScans
        BY DEF Scans
      <4>. QED
        BY <3>4, <4>1
    <3>. QED
      BY <3>4, <3>5, <3>6, <3>7 DEF TypeOK, RunnerPCs, Phases
  <2>2. ASSUME NEW j \in Scans, BudgetExpires(j) PROVE TypeOK'
    BY <2>2 DEF BudgetExpires, TypeOK, procVars, jobVars
  <2>3. ASSUME NEW j \in Scans, NoteReadsJob(j) PROVE TypeOK'
    BY <2>3 DEF NoteReadsJob, TypeOK, procVars, jobVars
  <2>4. ASSUME NEW j \in Scans, NoteWrites(j) PROVE TypeOK'
    <3>1. tgt[j] \in Scans
      BY <2>4 DEF NoteWrites, TypeOK
    <3>2. pend[j] \in Phases
      BY <2>4 DEF NoteWrites, TypeOK
    <3>3. /\ Noted(jobs[tgt[j]], pend[j], j) \in JobRecords
          /\ Len(Noted(jobs[tgt[j]], pend[j], j).log) <= LogCap
      BY <2>0, <3>1, <3>2, NotedRecord
    <3>4. jobs' \in [Scans -> JobRecords] /\ \A i \in Scans : Len(jobs'[i].log) <= LogCap
      BY <2>0, <2>4, <3>1, <3>3 DEF NoteWrites
    <3>. QED
      BY <2>4, <3>4 DEF NoteWrites, TypeOK, procVars
  <2>5. ASSUME NEW j \in Scans, Open(j) PROVE TypeOK'
    BY <2>5, GotoTypes DEF Open, TypeOK, RunnerPCs, Phases
  <2>6. ASSUME NEW j \in Scans, Identify(j) PROVE TypeOK'
    <3>1. CASE Leave(j, FALSE)
      BY <3>1, LeaveTypes
    <3>2. ASSUME NEW v \in {"none", "mock", "ecu"},
                 scan' = [scan EXCEPT ![j].vin = v],
                 Goto(j, "codes", "Reading trouble codes")
          PROVE  TypeOK'
      <4>1. scan' \in [Scans -> ScanValues]
        BY <3>2, ScanUpdates DEF TypeOK
      <4>. QED
        BY <3>2, <4>1, GotoTypes DEF RunnerPCs, Phases
    <3>. QED
      BY <2>6, <3>1, <3>2 DEF Identify
  <2>7. ASSUME NEW j \in Scans, ReadDTCs(j) PROVE TypeOK'
    <3>1. CASE Leave(j, FALSE)
      BY <3>1, LeaveTypes
    <3>2. ASSUME NEW n \in 0..MaxCodes,
                 scan' = [scan EXCEPT ![j] = [@ EXCEPT !.codes = n, !.left = n]],
                 \/ Goto(j, "sample", "Sampling live sensors")
                 \/ Goto(j, "freeze", Quiet)
          PROVE  TypeOK'
      <4>1. scan' \in [Scans -> ScanValues]
        BY <3>2, ScanUpdates DEF TypeOK
      <4>. QED
        BY <3>2, <4>1, GotoTypes DEF RunnerPCs, Phases
    <3>. QED
      BY <2>7, <3>1, <3>2 DEF ReadDTCs
  <2>8. ASSUME NEW j \in Scans, FreezeNext(j) PROVE TypeOK'
    <3>1. CASE Leave(j, FALSE)
      BY <3>1, LeaveTypes
    <3>2. CASE /\ scan[j].left > 0
               /\ scan' = [scan EXCEPT ![j].left = @ - 1]
               /\ Goto(j, "freeze", "Freeze frame")
      <4>1. scan[j] \in ScanValues
        BY DEF TypeOK
      <4>2. [scan[j] EXCEPT !.left = @ - 1] \in ScanValues
        BY <3>2, <4>1, ScanUpdates
      <4>3. scan' \in [Scans -> ScanValues]
        BY <3>2, <4>2 DEF TypeOK
      <4>. QED
        BY <3>2, <4>3, GotoTypes DEF RunnerPCs, Phases
    <3>3. CASE UNCHANGED scan /\ Goto(j, "sample", "Sampling live sensors")
      BY <3>3, GotoTypes DEF TypeOK, RunnerPCs, Phases
    <3>. QED
      BY <2>8, <3>1, <3>2, <3>3 DEF FreezeNext
  <2>9. ASSUME NEW j \in Scans, Sample(j) PROVE TypeOK'
    BY <2>9, LeaveTypes DEF Sample
  <2>10. ASSUME NEW j \in Scans, Park(j) PROVE TypeOK'
    BY <2>10, GotoTypes DEF Park, TypeOK, RunnerPCs, Phases
  <2>11. ASSUME NEW j \in Scans, Fail(j) PROVE TypeOK'
    <3>1. \E err \in Errors, text \in Phases \cup {Quiet} : FailWith(j, err, text)
      BY <2>11 DEF Fail, Errors, Phases
    <3>. QED BY <3>1, FailTypes
  <2>12. ASSUME NEW j \in Scans, Verdict(j) PROVE TypeOK'
    <3>1. CASE BadVIN(scan[j])
      <4>1. \E err \in Errors, text \in Phases \cup {Quiet} : FailWith(j, err, text)
        BY <2>12, <3>1 DEF Verdict, Errors, Phases
      <4>. QED BY <4>1, FailTypes
    <3>2. CASE ~BadVIN(scan[j])
      BY <2>12, <3>2, GotoTypes DEF Verdict, TypeOK, RunnerPCs, Phases
    <3>. QED BY <3>1, <3>2
  <2>13. ASSUME NEW j \in Scans, Upload(j) PROVE TypeOK'
    <3>1. scan[j] \in ScanValues
      BY DEF TypeOK
    <3>2. CASE scan' = [scan EXCEPT ![j].left = scan[j].codes] /\ Goto(j, "explain", Quiet)
      <4>1. scan' \in [Scans -> ScanValues]
        BY <3>1, <3>2, ScanUpdates DEF TypeOK
      <4>. QED
        BY <3>2, <4>1, GotoTypes DEF RunnerPCs
    <3>3. CASE scan' = [scan EXCEPT ![j].ok = FALSE] /\ Goto(j, "okFinish", "Upload failed")
      <4>1. scan' \in [Scans -> ScanValues]
        BY <3>1, <3>3, ScanUpdates DEF TypeOK
      <4>. QED
        BY <3>3, <4>1, GotoTypes DEF RunnerPCs, Phases
    <3>. QED
      BY <2>13, <3>2, <3>3 DEF Upload
  <2>14. ASSUME NEW j \in Scans, ExplainNext(j) PROVE TypeOK'
    <3>1. CASE /\ scan[j].left > 0
               /\ scan' = [scan EXCEPT ![j].left = @ - 1]
               /\ Goto(j, "explaining", "Explaining")
      <4>1. scan[j] \in ScanValues
        BY DEF TypeOK
      <4>2. [scan[j] EXCEPT !.left = @ - 1] \in ScanValues
        BY <3>1, <4>1, ScanUpdates
      <4>3. scan' \in [Scans -> ScanValues]
        BY <3>1, <4>2 DEF TypeOK
      <4>. QED
        BY <3>1, <4>3, GotoTypes DEF RunnerPCs, Phases
    <3>2. CASE UNCHANGED scan /\ Goto(j, "okFinish", "Done")
      BY <3>2, GotoTypes DEF TypeOK, RunnerPCs, Phases
    <3>. QED
      BY <2>14, <3>1, <3>2 DEF ExplainNext
  <2>15. ASSUME NEW j \in Scans, ExplainReturns(j) PROVE TypeOK'
    BY <2>15, GotoTypes DEF ExplainReturns, TypeOK, RunnerPCs, Phases
  <2>16. ASSUME NEW j \in Scans, FinishJob(j) PROVE TypeOK'
    <3>0. scan[j].err \in Errors
      BY DEF TypeOK, ScanValues
    <3>1. jobs' \in [Scans -> JobRecords] /\ \A i \in Scans : Len(jobs'[i].log) <= LogCap
      <4>1. jobs[j] \in JobRecords
        BY <2>0
      <4>2. PICK rec \in JobRecords : jobs' = [jobs EXCEPT ![j] = rec] /\ rec.log = jobs[j].log
        <5>1. CASE jobs' = [jobs EXCEPT ![j] = FinishedFailed(@, scan[j].err)]
          BY <3>0, <4>1, <5>1, FailedRecord
        <5>2. ASSUME NEW res \in {"uploaded", "uploadError"},
                     jobs' = [jobs EXCEPT ![j] = FinishedDone(@, res)]
              PROVE  \E rec \in JobRecords :
                       jobs' = [jobs EXCEPT ![j] = rec] /\ rec.log = jobs[j].log
          BY <3>0, <4>1, <5>2, DoneRecord
        <5>. QED BY <2>16, <5>1, <5>2 DEF FinishJob
      <4>. QED BY <2>0, <4>2
    <3>2. scan' \in [Scans -> ScanValues]
      BY <2>16, ScanUpdates DEF FinishJob, TypeOK
    <3>. QED
      BY <2>16, <3>1, <3>2 DEF FinishJob, TypeOK, procVars, RunnerPCs
  <2>27. ASSUME NEW j \in Scans, Returns(j) PROVE TypeOK'
    BY <2>27 DEF Returns, TypeOK, procVars, jobVars, RunnerPCs
  <2>17. ASSUME NEW c \in Clients, NEW quit \in BOOLEAN, StopReadsJob(c, quit) PROVE TypeOK'
    <3>1. handler' \in [Clients -> Requests]
      BY <2>17, RequestUpdates DEF StopReadsJob, TypeOK
    <3>. QED
      BY <2>17, <3>1 DEF StopReadsJob, TypeOK, procVars, jobVars, scanVars
  <2>18. ASSUME NEW c \in Clients, QuitWithoutJob(c) PROVE TypeOK'
    <3>1. handler' \in [Clients -> Requests]
      BY <2>18, RequestUpdates DEF QuitWithoutJob, TypeOK
    <3>. QED
      BY <2>18, <3>1 DEF QuitWithoutJob, TypeOK, procVars, jobVars, scanVars
  <2>19. ASSUME NEW c \in Clients, StopChecksBusy(c) PROVE TypeOK'
    <3>0. handler[c] \in Requests /\ handler[c].op = "check"
      BY <2>19 DEF StopChecksBusy, TypeOK
    <3>1. ASSUME handler' = [handler EXCEPT ![c].op = "fire"]
          PROVE  handler' \in [Clients -> Requests]
      BY <3>0, <3>1, RequestUpdates DEF TypeOK
    <3>2. ASSUME Served(c)
          PROVE  handler' \in [Clients -> Requests]
      BY <3>0, <3>2, RequestUpdates DEF Served, TypeOK
    <3>3. handler' \in [Clients -> Requests]
      BY <2>19, <3>0, <3>1, <3>2 DEF StopChecksBusy, TypeOK
    <3>. QED
      BY <2>19, <3>3 DEF StopChecksBusy, TypeOK, procVars, jobVars, scanVars
  <2>20. ASSUME NEW c \in Clients, StopCancels(c) PROVE TypeOK'
    <3>1. handler' \in [Clients -> Requests]
      BY <2>20, RequestUpdates DEF StopCancels, TypeOK
    <3>. QED
      BY <2>20, <3>1 DEF StopCancels, TypeOK, procVars, jobVars, scanVars
  <2>21. ASSUME NEW c \in Clients, StopNoteReadsJob(c) PROVE TypeOK'
    <3>0. handler[c] \in Requests /\ handler[c].op = "note"
      BY <2>21 DEF StopNoteReadsJob, TypeOK
    <3>1. ASSUME job \in Scans,
                 handler' = [handler EXCEPT ![c] = [@ EXCEPT !.op = "write", !.seen = job]]
          PROVE  handler' \in [Clients -> Requests]
      BY <3>0, <3>1, RequestUpdates DEF TypeOK
    <3>2. ASSUME Served(c)
          PROVE  handler' \in [Clients -> Requests]
      BY <3>0, <3>2, RequestUpdates DEF Served, TypeOK
    <3>3. handler' \in [Clients -> Requests]
      BY <2>21, <3>0, <3>1, <3>2 DEF StopNoteReadsJob, TypeOK
    <3>. QED
      BY <2>21, <3>3 DEF StopNoteReadsJob, TypeOK, procVars, jobVars, scanVars
  <2>22. ASSUME NEW c \in Clients, StopNoteWrites(c) PROVE TypeOK'
    <3> DEFINE s == handler[c].seen
               a == handler[c].asOf
    <3>1. s \in Scans /\ a \in Scans /\ "Cancel requested" \in Phases
      BY <2>22, RequestUpdates DEF StopNoteWrites, TypeOK, Phases
    <3>2. /\ Noted(jobs[s], "Cancel requested", a) \in JobRecords
          /\ Len(Noted(jobs[s], "Cancel requested", a).log) <= LogCap
      BY <2>0, <3>1, NotedRecord
    <3>3. jobs' \in [Scans -> JobRecords] /\ \A i \in Scans : Len(jobs'[i].log) <= LogCap
      BY <2>0, <2>22, <3>1, <3>2 DEF StopNoteWrites
    <3>. QED
      <4>1. handler' \in [Clients -> Requests]
        BY <2>22, <3>1, RequestUpdates DEF StopNoteWrites, Served, TypeOK
      <4>. QED
        BY <2>22, <3>3, <4>1 DEF StopNoteWrites, TypeOK, procVars, scanVars
  <2>23. ASSUME NEW c \in Clients, QuitReplies(c) PROVE TypeOK'
    <3>1. handler' \in [Clients -> Requests]
      BY <2>23, RequestUpdates DEF QuitReplies, TypeOK
    <3>. QED
      BY <2>23, <3>1 DEF QuitReplies, TypeOK, procVars, jobVars, scanVars
  <2>24. ASSUME ProcessExits PROVE TypeOK'
    <3>1. jobs' \in [Scans -> JobRecords] /\ \A i \in Scans : Len(jobs'[i].log) <= LogCap
      BY <2>24, FreshRecord DEF ProcessExits
    <3>. QED
      <4>1. Idle \in Requests /\ NewScan \in ScanValues
        BY RequestUpdates, ScanUpdates
      <4>. QED
        BY <2>24, <3>1, <4>1 DEF ProcessExits, TypeOK, RunnerPCs
  <2>25. ASSUME ProcessStarts PROVE TypeOK'
    BY <2>25 DEF ProcessStarts, TypeOK, jobVars, scanVars
  <2>26. CASE UNCHANGED vars
    BY <2>26 DEF vars, procVars, jobVars, scanVars, TypeOK
  <2>. QED
    BY <2>1, <2>2, <2>3, <2>4, <2>5, <2>6, <2>7, <2>8, <2>9, <2>10, <2>11, <2>12, <2>13,
       <2>14, <2>15, <2>16, <2>17, <2>18, <2>19, <2>20, <2>21, <2>22, <2>23, <2>24, <2>25,
       <2>26, <2>27 DEF Next, Runner, StopRequest
<1>. QED
  BY <1>1, <1>2, PTL DEF Spec
-----------------------------------------------------------------------------
\* Scans are numbered in the order they are installed.
LEMMA Counts ==
  ASSUME TypeOK
  PROVE  created \in Nat /\ \A j \in Scans : j \in Nat /\ (j > created <=> ~(j <= created))
<1>1. created \in 0..MaxScans
  BY DEF TypeOK
<1>2. created \in Nat
  BY <1>1
<1>3. \A j \in Scans : j \in Nat
  BY DEF Scans
<1>. QED BY <1>2, <1>3

\* A goroutine past its start belongs to an installed scan of a live process.
LEMMA ActiveScan ==
  ASSUME TypeOK, SlotInv, NEW j \in Scans, Active(j)
  PROVE  j <= created /\ alive /\ job = j /\ jobs[j].busy
<1>2. ~(j > created)
  BY DEF SlotInv, Active
<1>3. j <= created
  BY <1>2, Counts
<1>. QED BY <1>3 DEF SlotInv, OneScanAtATime

\* A goroutine that goes from one of its stages to another disturbs nothing.
LEMMA GotoKeepsSlot ==
  ASSUME TypeOK, SlotInv, NEW j \in Scans, NEW at, NEW to, NEW text,
         At(j, at), at \notin {"unused", "return", "end"},
         Goto(j, to, text), to \notin {"unused", "return", "end"}, text # "Cancel requested"
  PROVE  SlotInv'
<1>1. Active(j) /\ pend[j] = Quiet /\ tgt[j] = NoScan
  BY DEF At, Active, SlotInv
<1>7. alive /\ ~(j > created)
  <2>1. j <= created /\ alive
    BY <1>1, ActiveScan
  <2>. QED BY <2>1, Counts
<1>2. /\ UNCHANGED <<alive, created, job, jobs, tgt, handler>>
      /\ pc' = [pc EXCEPT ![j] = to] /\ pend' = [pend EXCEPT ![j] = text]
  BY DEF Goto, procVars, jobVars
<1>3. \A i \in Scans : Active(i)' <=> Active(i)
  BY <1>1, <1>2 DEF Active, TypeOK
<1>4. OneScanAtATime'
  BY <1>2, <1>3 DEF OneScanAtATime, SlotInv
<1>5. \A i \in Scans : i # j => pc'[i] = pc[i] /\ pend'[i] = pend[i]
  BY <1>2 DEF TypeOK
<1>6. pend'[j] = text
  BY <1>2 DEF TypeOK
<1>8. \A i \in Scans :
        /\ i > created' => pc'[i] = "unused"
        /\ jobs'[i].busy => Active(i)'
        /\ pend'[i] # Quiet => Active(i)'
        /\ tgt'[i] # NoScan => tgt'[i] = i /\ pend'[i] # Quiet
        /\ pend'[i] # "Cancel requested"
        /\ ~alive' => ~Active(i)'
  <2>. TAKE i \in Scans
  <2>1. CASE i = j
    BY <1>1, <1>2, <1>3, <1>6, <1>7, <2>1
  <2>2. CASE i # j
    BY <1>2, <1>3, <1>5, <2>2 DEF SlotInv
  <2>. QED BY <2>1, <2>2
<1>. QED BY <1>2, <1>4, <1>8 DEF SlotInv

\* A step that leaves the goroutines alone, and every job as busy as it was, keeps
\* the invariant as long as the requests keep theirs.
LEMMA RequestKeepsSlot ==
  ASSUME TypeOK, SlotInv, UNCHANGED <<alive, created, job, pc, pend, tgt>>,
         \A i \in Scans : jobs'[i].busy = jobs[i].busy,
         \A c \in Clients :
           handler'[c].op \in {"check", "fire"} => handler'[c].seen = handler'[c].asOf
  PROVE  SlotInv'
<1>1. \A i \in Scans : Active(i)' <=> Active(i)
  BY DEF Active
<1>2. OneScanAtATime'
  BY <1>1 DEF OneScanAtATime, SlotInv
<1>. QED BY <1>1, <1>2 DEF SlotInv

\* However requests and goroutines interleave, one scan is busy at a time and it
\* is the current job.  The handlers check the busy flag under b.jobMu; that is
\* enough because a goroutine leaves its stages only in the step that clears it.
THEOREM SlotInvariant == Spec => []SlotInv
<1>1. Init => SlotInv
  BY DEF Init, SlotInv, OneScanAtATime, Active, NoJob, Idle, NoScan, Quiet
<1>2. TypeOK /\ SlotInv /\ [Next]_vars => SlotInv'
  <2>. SUFFICES ASSUME TypeOK, SlotInv, [Next]_vars PROVE SlotInv'
    OBVIOUS
  <2>1. ASSUME NEW mock \in BOOLEAN, HandleScan(mock) PROVE SlotInv'
    <3>1. \A i \in Scans : ~Active(i)
      <4>1. \A i \in Scans : i # NoScan
        BY DEF Scans, NoScan
      <4>. QED
        BY <2>1, <4>1 DEF HandleScan, Busy, SlotInv, OneScanAtATime
    <3>2. created \in 0..MaxScans /\ created < MaxScans
      BY <2>1 DEF HandleScan, TypeOK
    <3>3. PICK k \in Scans : k = created + 1
      BY <3>2 DEF Scans
    <3>4. /\ alive /\ alive' = alive
          /\ created' = k
          /\ job' = k
          /\ jobs' = [jobs EXCEPT ![k] = NewJob(k)]
          /\ pc' = [pc EXCEPT ![k] = "open"]
          /\ pend' = [pend EXCEPT ![k] = "Opening adapter"]
          /\ UNCHANGED <<tgt, handler>>
      BY <2>1, <3>3 DEF HandleScan, procVars
    <3>5. NewJob(k).busy
      BY FreshRecord
    <3>6. /\ \A i \in Scans : i # k => pc'[i] = pc[i] /\ pend'[i] = pend[i] /\ jobs'[i] = jobs[i]
          /\ pc'[k] = "open" /\ pend'[k] = "Opening adapter" /\ jobs'[k].busy
      BY <3>4, <3>5 DEF TypeOK
    <3>7. Active(k)' /\ \A i \in Scans : i # k => ~Active(i)'
      BY <3>1, <3>6 DEF Active
    <3>8. \A i \in Scans : tgt[i] = NoScan /\ ~jobs[i].busy /\ pend[i] = Quiet
      BY <3>1 DEF SlotInv
    <3>9. \A i \in Scans : i > k => i > created
      BY <3>2, <3>3 DEF Scans
    <3>10. k <= k /\ "Opening adapter" # Quiet /\ "Opening adapter" # "Cancel requested"
      BY DEF Scans, Quiet
    <3>11. OneScanAtATime'
      BY <3>4, <3>6, <3>7 DEF OneScanAtATime
    <3>12. \A i \in Scans :
             /\ i > created' => pc'[i] = "unused"
             /\ jobs'[i].busy => Active(i)'
             /\ pend'[i] # Quiet => Active(i)'
             /\ tgt'[i] = NoScan
             /\ pend'[i] # "Cancel requested"
      <4>. TAKE i \in Scans
      <4>1. CASE i = k
        <5>1. ~(k > k)
          BY DEF Scans
        <5>. QED BY <3>4, <3>6, <3>7, <3>8, <3>10, <4>1, <5>1, ZenonT(60)
      <4>2. CASE i # k
        BY <3>4, <3>6, <3>8, <3>9, <4>2, ZenonT(150) DEF SlotInv
      <4>. QED BY <4>1, <4>2
    <3>. QED
      BY <3>4, <3>10, <3>11, <3>12 DEF SlotInv
  <2>2. ASSUME NEW j \in Scans, BudgetExpires(j) PROVE SlotInv'
    BY <2>2, RequestKeepsSlot DEF BudgetExpires, procVars, jobVars, SlotInv
  <2>3. ASSUME NEW j \in Scans, NoteReadsJob(j) PROVE SlotInv'
    <3>1. UNCHANGED <<alive, created, job, jobs, pc, pend, handler>>
      BY <2>3 DEF NoteReadsJob, procVars, jobVars
    <3>2. tgt' = [tgt EXCEPT ![j] = job] /\ pend[j] # Quiet
      BY <2>3 DEF NoteReadsJob
    <3>3. job = j
      BY <3>2 DEF SlotInv, OneScanAtATime
    <3>4. \A i \in Scans : tgt'[i] # NoScan => tgt'[i] = i /\ pend[i] # Quiet
      BY <3>2, <3>3 DEF SlotInv, TypeOK
    <3>5. \A i \in Scans : Active(i)' <=> Active(i)
      BY <3>1 DEF Active
    <3>6. OneScanAtATime'
      BY <3>1, <3>5 DEF OneScanAtATime, SlotInv
    <3>. QED
      BY <3>1, <3>4, <3>5, <3>6 DEF SlotInv
  <2>4. ASSUME NEW j \in Scans, NoteWrites(j) PROVE SlotInv'
    <3>1. /\ UNCHANGED <<alive, created, job, pc, handler>>
          /\ pend[j] # Quiet /\ tgt[j] # NoScan
          /\ jobs' = [jobs EXCEPT ![tgt[j]] = Noted(@, pend[j], j)]
          /\ pend' = [pend EXCEPT ![j] = Quiet]
          /\ tgt' = [tgt EXCEPT ![j] = NoScan]
      BY <2>4 DEF NoteWrites, procVars
    <3>2. tgt[j] = j /\ pend[j] \in Phases /\ jobs[j] \in JobRecords /\ Len(jobs[j].log) <= LogCap
      <4>1. tgt[j] = j
        BY <3>1 DEF SlotInv
      <4>. QED BY <3>1, <4>1 DEF TypeOK
    <3>3. Noted(jobs[j], pend[j], j).busy = jobs[j].busy
      BY <3>2, NotedRecord
    <3>4. \A i \in Scans : jobs'[i].busy = jobs[i].busy
      BY <3>1, <3>2, <3>3 DEF TypeOK
    <3>5. \A i \in Scans : Active(i)' <=> Active(i)
      BY <3>1 DEF Active
    <3>6. \A i \in Scans : /\ i # j => pend'[i] = pend[i] /\ tgt'[i] = tgt[i]
                           /\ i = j => pend'[i] = Quiet /\ tgt'[i] = NoScan
      <4>1. /\ pend' = [pend EXCEPT ![j] = Quiet] /\ DOMAIN pend = Scans
            /\ tgt' = [tgt EXCEPT ![j] = NoScan] /\ DOMAIN tgt = Scans
        BY <3>1 DEF TypeOK
      <4>. QED BY <4>1, ZenonT(60)
    <3>7. OneScanAtATime'
      <4>1. \A i \in Scans : Active(i) => i = job /\ jobs[i].busy
        BY DEF OneScanAtATime, SlotInv
      <4>2. job' = job
        BY <3>1
      <4>. QED BY <3>4, <3>5, <4>1, <4>2 DEF OneScanAtATime
    <3>8. Quiet # "Cancel requested"
      BY DEF Quiet
    <3>. QED
      BY <3>1, <3>4, <3>5, <3>6, <3>7, <3>8, ZenonT(60) DEF SlotInv
  <2>5. ASSUME NEW j \in Scans,
               \/ Open(j) \/ Identify(j) \/ ReadDTCs(j) \/ FreezeNext(j) \/ Sample(j)
               \/ Park(j) \/ Fail(j) \/ Verdict(j) \/ Upload(j)
               \/ ExplainNext(j) \/ ExplainReturns(j)
        PROVE  SlotInv'
    <3>1. PICK at, to, text :
            /\ At(j, at) /\ at \notin {"unused", "return", "end"}
            /\ Goto(j, to, text) /\ to \notin {"unused", "return", "end"}
            /\ text # "Cancel requested"
      BY <2>5 DEF Open, Identify, ReadDTCs, FreezeNext, Sample, Park, Fail, Verdict, Upload,
         ExplainNext, ExplainReturns, Leave, FailWith, Quiet
    <3>. QED
      BY <3>1, GotoKeepsSlot
  <2>6. ASSUME NEW j \in Scans, Returns(j) PROVE SlotInv'
    <3>1. /\ alive /\ pc[j] = "return" /\ pc' = [pc EXCEPT ![j] = "end"]
          /\ UNCHANGED <<alive, created, job, jobs, pend, tgt, handler>>
      BY <2>6 DEF Returns, procVars, jobVars
    <3>2. \A i \in Scans : IF i = j THEN pc'[i] = "end" ELSE pc'[i] = pc[i]
      BY <3>1 DEF TypeOK
    <3>3. \A i \in Scans : Active(i)' <=> Active(i)
      BY <3>1, <3>2 DEF Active
    <3>4. OneScanAtATime'
      BY <3>1, <3>3 DEF OneScanAtATime, SlotInv
    <3>5. \A i \in Scans : i > created => pc'[i] = "unused"
      BY <3>1, <3>2 DEF SlotInv
    <3>. QED
      BY <3>1, <3>3, <3>4, <3>5 DEF SlotInv
  <2>7. ASSUME NEW j \in Scans, FinishJob(j) PROVE SlotInv'
    <3>1. PICK rec :
            /\ alive /\ pend[j] = Quiet /\ pc[j] \in {"failFinish", "okFinish"}
            /\ UNCHANGED <<alive, created, job, pend, tgt, handler>>
            /\ pc' = [pc EXCEPT ![j] = "return"]
            /\ jobs' = [jobs EXCEPT ![j] = rec] /\ ~rec.busy
      <4>1. jobs[j] \in JobRecords /\ scan[j].err \in Errors
        BY DEF TypeOK, ScanValues
      <4>2. /\ ~FinishedFailed(jobs[j], scan[j].err).busy
            /\ \A res \in {"uploaded", "uploadError"} : ~FinishedDone(jobs[j], res).busy
        BY <4>1, FailedRecord, DoneRecord
      <4>. QED BY <2>7, <4>2 DEF FinishJob, procVars
    <3>2. Active(j) /\ tgt[j] = NoScan
      BY <3>1 DEF Active, SlotInv
    <3>6. alive /\ ~(j > created)
      <4>1. j <= created /\ alive
        BY <3>2, ActiveScan
      <4>. QED BY <4>1, Counts
    <3>3. /\ \A i \in Scans : i # j => pc'[i] = pc[i] /\ jobs'[i] = jobs[i]
          /\ pc'[j] = "return" /\ ~jobs'[j].busy
      BY <3>1 DEF TypeOK
    <3>4. ~Active(j)' /\ \A i \in Scans : i # j => (Active(i)' <=> Active(i))
      BY <3>3 DEF Active
    <3>5. OneScanAtATime'
      BY <3>1, <3>3, <3>4 DEF OneScanAtATime, SlotInv
    <3>. QED
      BY <3>1, <3>2, <3>3, <3>4, <3>5, <3>6 DEF SlotInv
  <2>8. ASSUME NEW c \in Clients, StopRequest(c) PROVE SlotInv'
    <3>0. /\ handler \in [Clients -> Requests] /\ Idle.op = "idle"
          /\ \A h \in Requests : [h EXCEPT !.op = "reply"].op = "reply"
          /\ [Idle EXCEPT !.op = "reply"].op = "reply"
      BY DEF TypeOK, Requests, Idle
    <3>1. \A d \in Clients : d # c => handler'[d] = handler[d]
      BY <2>8 DEF StopRequest, StopReadsJob, QuitWithoutJob, StopChecksBusy, StopCancels,
         StopNoteReadsJob, StopNoteWrites, QuitReplies, Served, TypeOK
    <3>2. handler'[c].op \in {"check", "fire"} => handler'[c].seen = handler'[c].asOf
      <4>1. CASE \E quit \in BOOLEAN : StopReadsJob(c, quit)
        BY <3>0, <4>1 DEF StopReadsJob
      <4>2. CASE QuitWithoutJob(c) \/ QuitReplies(c)
        BY <3>0, <4>2 DEF QuitWithoutJob, QuitReplies
      <4>3. ASSUME Served(c) PROVE handler'[c].op \notin {"check", "fire"}
        BY <3>0, <4>3 DEF Served
      <4>4. CASE StopChecksBusy(c)
        <5>1. CASE handler' = [handler EXCEPT ![c].op = "fire"]
          <6>1. handler[c].op = "check" /\ handler[c] \in Requests
            BY <3>0, <4>4 DEF StopChecksBusy
          <6>2. handler'[c].seen = handler[c].seen /\ handler'[c].asOf = handler[c].asOf
            BY <3>0, <5>1, <6>1 DEF Requests
          <6>. QED BY <6>1, <6>2 DEF SlotInv
        <5>. QED BY <4>3, <4>4, <5>1 DEF StopChecksBusy
      <4>5. CASE StopCancels(c)
        <5>1. handler[c] \in Requests /\ handler' = [handler EXCEPT ![c].op = "note"]
          BY <3>0, <4>5 DEF StopCancels
        <5>2. handler'[c].op = "note"
          BY <3>0, <5>1 DEF Requests
        <5>. QED BY <5>2
      <4>6. CASE StopNoteReadsJob(c)
        <5>1. CASE handler' = [handler EXCEPT ![c] = [@ EXCEPT !.op = "write", !.seen = job]]
          <6>1. handler[c] \in Requests
            BY <3>0
          <6>2. handler'[c].op = "write"
            BY <3>0, <5>1, <6>1 DEF Requests
          <6>. QED BY <6>2
        <5>. QED BY <4>3, <4>6, <5>1 DEF StopNoteReadsJob
      <4>7. CASE StopNoteWrites(c)
        BY <4>3, <4>7 DEF StopNoteWrites
      <4>. QED
        BY <2>8, <4>1, <4>2, <4>4, <4>5, <4>6, <4>7 DEF StopRequest
    <3>3. \A d \in Clients : handler'[d].op \in {"check", "fire"} => handler'[d].seen = handler'[d].asOf
      BY <3>1, <3>2 DEF SlotInv
    <3>4. UNCHANGED <<alive, created, job, pc, pend, tgt>>
      BY <2>8 DEF StopRequest, StopReadsJob, QuitWithoutJob, StopChecksBusy, StopCancels,
         StopNoteReadsJob, StopNoteWrites, QuitReplies, procVars, jobVars, scanVars
    <3>5. \A i \in Scans : jobs'[i].busy = jobs[i].busy
      <4>1. CASE StopNoteWrites(c)
        <5>1. /\ handler[c].seen \in Scans /\ handler[c].asOf \in Scans
              /\ jobs' = [jobs EXCEPT ![handler[c].seen] =
                                        Noted(@, "Cancel requested", handler[c].asOf)]
          BY <3>0, <4>1, RequestUpdates DEF StopNoteWrites
        <5>2. /\ jobs[handler[c].seen] \in JobRecords
              /\ Len(jobs[handler[c].seen].log) <= LogCap
              /\ "Cancel requested" \in Phases
          BY <5>1 DEF TypeOK, Phases
        <5>3. Noted(jobs[handler[c].seen], "Cancel requested", handler[c].asOf).busy
                = jobs[handler[c].seen].busy
          BY <5>1, <5>2, NotedRecord
        <5>. QED BY <5>1, <5>3 DEF TypeOK
      <4>2. CASE UNCHANGED jobs
        BY <4>2
      <4>. QED
        BY <2>8, <4>1, <4>2 DEF StopRequest, StopReadsJob, QuitWithoutJob, StopChecksBusy,
           StopCancels, StopNoteReadsJob, QuitReplies, jobVars
    <3>. QED
      BY <3>3, <3>4, <3>5, RequestKeepsSlot
  <2>9. CASE ProcessExits
    <3>1. \A i \in Scans : /\ pc'[i] = (IF i <= created THEN "end" ELSE "unused")
                           /\ ~jobs'[i].busy /\ pend'[i] = Quiet /\ tgt'[i] = NoScan
      BY <2>9, FreshRecord DEF ProcessExits
    <3>2. \A i \in Scans : ~Active(i)'
      BY <3>1 DEF Active
    <3>3. job' = NoScan /\ created' = created /\ NoScan <= created
      BY <2>9 DEF ProcessExits, TypeOK, NoScan
    <3>4. \A c \in Clients : handler'[c].op = "idle"
      BY <2>9 DEF ProcessExits, Idle
    <3>5. \A i \in Scans : i > created => ~(i <= created)
      BY DEF TypeOK, Scans
    <3>6. Quiet # "Cancel requested"
      BY DEF Quiet
    <3>. QED
      BY <3>1, <3>2, <3>3, <3>4, <3>5, <3>6 DEF SlotInv, OneScanAtATime
  <2>10. CASE ProcessStarts
    <3>1. /\ ~alive /\ alive' /\ UNCHANGED <<created, job, jobs, pc, pend, tgt, handler>>
      BY <2>10 DEF ProcessStarts, jobVars, scanVars
    <3>2. \A i \in Scans : Active(i)' <=> Active(i)
      BY <3>1 DEF Active
    <3>3. OneScanAtATime'
      BY <3>1, <3>2 DEF OneScanAtATime, SlotInv
    <3>. QED
      BY <3>1, <3>2, <3>3 DEF SlotInv
  <2>11. CASE UNCHANGED vars
    BY <2>11, RequestKeepsSlot DEF vars, procVars, jobVars, scanVars, SlotInv
  <2>. QED
    BY <2>1, <2>2, <2>3, <2>4, <2>5, <2>6, <2>7, <2>8, <2>9, <2>10, <2>11 DEF Next, Runner
<1>. QED
  BY <1>1, <1>2, TypeCorrect, PTL DEF Spec

\* Two scans never drive adapters at once.
THEOREM OneScan == Spec => []OneScanAtATime
<1>1. SlotInv => OneScanAtATime
  BY DEF SlotInv
<1>. QED BY <1>1, SlotInvariant, PTL
-----------------------------------------------------------------------------
\* Each line a goroutine notes lands in the log of its own scan, for any number of
\* scans and lines: note() looks the job up at every call, and finds the same one.
THEOREM OwnLines == Spec => []LinesAreOwn
<1>0. DOMAIN NoJob.log = {}
  <2>1. NoJob.log = <<>>
    BY FreshRecord
  <2>. QED BY <2>1
<1>1. Init => LinesAreOwn
  BY <1>0 DEF Init, LinesAreOwn
<1>2. TypeOK /\ SlotInv /\ LinesAreOwn /\ [Next]_vars => LinesAreOwn'
  <2>. SUFFICES ASSUME TypeOK, SlotInv, LinesAreOwn, [Next]_vars PROVE LinesAreOwn'
    OBVIOUS
  <2>0. jobs \in [Scans -> JobRecords] /\ \A j \in Scans : Len(jobs[j].log) <= LogCap
    BY DEF TypeOK
  <2>1. ASSUME \A i \in Scans : jobs'[i].log = jobs[i].log
        PROVE  LinesAreOwn'
    BY <2>1 DEF LinesAreOwn
  <2>2. ASSUME NEW k \in Scans, NEW r, jobs' = [jobs EXCEPT ![k] = r],
               \A m \in DOMAIN r.log : r.log[m].text # "Cancel requested" => r.log[m].by = k
        PROVE  LinesAreOwn'
    <3>1. jobs'[k] = r /\ \A i \in Scans : i # k => jobs'[i] = jobs[i]
      BY <2>0, <2>2
    <3>2. \A m \in DOMAIN jobs'[k].log :
            jobs'[k].log[m].text # "Cancel requested" => jobs'[k].log[m].by = k
      BY <2>2, <3>1
    <3>3. \A i \in Scans : i # k => \A m \in DOMAIN jobs'[i].log :
            jobs'[i].log[m].text # "Cancel requested" => jobs'[i].log[m].by = i
      BY <3>1 DEF LinesAreOwn
    <3>. QED BY <3>2, <3>3 DEF LinesAreOwn
  <2>3. ASSUME NEW k \in Scans, NEW text \in Phases, NEW by \in Scans,
               jobs' = [jobs EXCEPT ![k] = Noted(@, text, by)],
               by = k \/ text = "Cancel requested"
        PROVE  LinesAreOwn'
    <3> DEFINE r == Noted(jobs[k], text, by)
    <3>1. \A m \in DOMAIN r.log : \/ r.log[m] = [text |-> text, by |-> by]
                                  \/ \E n \in DOMAIN jobs[k].log : r.log[m] = jobs[k].log[n]
      BY <2>0, NotedRecord
    <3>2. \A m \in DOMAIN r.log : r.log[m].text # "Cancel requested" => r.log[m].by = k
      <4>. SUFFICES ASSUME NEW m \in DOMAIN r.log, r.log[m].text # "Cancel requested"
                    PROVE  r.log[m].by = k
        OBVIOUS
      <4> HIDE DEF r
      <4>1. CASE r.log[m] = [text |-> text, by |-> by]
        <5> DEFINE line == [text |-> text, by |-> by]
        <5>1. line.text = text /\ line.by = by
          OBVIOUS
        <5>2. r.log[m] = line
          BY <4>1
        <5> HIDE DEF line
        <5>. QED BY <2>3, <5>1, <5>2
      <4>2. CASE \E n \in DOMAIN jobs[k].log : r.log[m] = jobs[k].log[n]
        BY <4>2 DEF LinesAreOwn
      <4>. QED BY <3>1, <4>1, <4>2
    <3>3. jobs' = [jobs EXCEPT ![k] = r]
      BY <2>3
    <3> HIDE DEF r
    <3>. QED BY <2>2, <3>2, <3>3
  <2>4. ASSUME NEW mock \in BOOLEAN, HandleScan(mock) PROVE LinesAreOwn'
    <3>1. created \in 0..MaxScans /\ created < MaxScans
      BY <2>4 DEF HandleScan, TypeOK
    <3>2. PICK k \in Scans : k = created + 1
      BY <3>1 DEF Scans
    <3>3. jobs' = [jobs EXCEPT ![k] = NewJob(k)]
      BY <2>4, <3>2 DEF HandleScan
    <3>4. DOMAIN NewJob(k).log = {1} /\ NewJob(k).log[1].by = k
      <4> DEFINE log == NewJob(k).log
      <4>1. log \in Seq(Lines)
        <5>1. NewJob(k) \in JobRecords
          BY FreshRecord
        <5>. QED BY <5>1 DEF JobRecords
      <4>2. Len(log) = 1 /\ log[1] = [text |-> "Starting", by |-> k]
        BY FreshRecord
      <4>3. log[1].by = k
        BY <4>2
      <4> HIDE DEF log
      <4>4. DOMAIN log = {1}
        BY <4>1, <4>2
      <4>. QED BY <4>3, <4>4 DEF log
    <3>. QED
      BY <2>2, <3>3, <3>4
  <2>5. ASSUME NEW j \in Scans, NoteWrites(j) PROVE LinesAreOwn'
    <3>1. tgt[j] = j /\ pend[j] # Quiet
      BY <2>5 DEF NoteWrites, SlotInv
    <3>2. pend[j] \in Phases /\ jobs' = [jobs EXCEPT ![j] = Noted(@, pend[j], j)]
      BY <2>5, <3>1 DEF NoteWrites, TypeOK
    <3>. QED
      BY <2>3, <3>2
  <2>6. ASSUME NEW c \in Clients, StopNoteWrites(c) PROVE LinesAreOwn'
    <3>1. handler[c] \in Requests /\ "Cancel requested" \in Phases
      BY DEF TypeOK, Phases
    <3>2. /\ handler[c].seen \in Scans /\ handler[c].asOf \in Scans
          /\ jobs' = [jobs EXCEPT ![handler[c].seen] =
                                    Noted(@, "Cancel requested", handler[c].asOf)]
      BY <2>6, <3>1, RequestUpdates DEF StopNoteWrites
    <3>. QED
      BY <2>3, <3>1, <3>2
  <2>7. ASSUME NEW j \in Scans, FinishJob(j) PROVE LinesAreOwn'
    <3>0. jobs[j] \in JobRecords /\ scan[j].err \in Errors
      BY <2>0 DEF TypeOK, ScanValues
    <3>2. /\ FinishedFailed(jobs[j], scan[j].err).log = jobs[j].log
          /\ \A res \in {"uploaded", "uploadError"} : FinishedDone(jobs[j], res).log = jobs[j].log
      BY <3>0, FailedRecord, DoneRecord
    <3>1. PICK rec : jobs' = [jobs EXCEPT ![j] = rec] /\ rec.log = jobs[j].log
      BY <2>7, <3>2 DEF FinishJob
    <3>. QED BY <2>0, <2>1, <3>1
  <2>8. CASE ProcessExits
    BY <1>0, <2>8 DEF ProcessExits, LinesAreOwn
  <2>9. CASE UNCHANGED jobs
    BY <2>1, <2>9
  <2>10. ASSUME NEW j \in Scans,
                \/ NoteReadsJob(j) \/ Open(j) \/ Identify(j) \/ ReadDTCs(j) \/ FreezeNext(j)
                \/ Sample(j) \/ Park(j) \/ Fail(j) \/ Verdict(j) \/ Upload(j)
                \/ ExplainNext(j) \/ ExplainReturns(j) \/ Returns(j) \/ BudgetExpires(j)
         PROVE  UNCHANGED jobs
    BY <2>10 DEF NoteReadsJob, Open, Identify, ReadDTCs, FreezeNext, Sample, Park, Fail,
       Verdict, Upload, ExplainNext, ExplainReturns, Returns, BudgetExpires, Leave, FailWith,
       Goto, jobVars
  <2>11. ASSUME NEW c \in Clients,
                \/ \E quit \in BOOLEAN : StopReadsJob(c, quit)
                \/ QuitWithoutJob(c) \/ StopChecksBusy(c) \/ StopCancels(c)
                \/ StopNoteReadsJob(c) \/ QuitReplies(c)
         PROVE  UNCHANGED jobs
    BY <2>11 DEF StopReadsJob, QuitWithoutJob, StopChecksBusy, StopCancels,
       StopNoteReadsJob, QuitReplies, jobVars
  <2>12. CASE ProcessStarts \/ UNCHANGED vars
    BY <2>1, <2>12 DEF ProcessStarts, vars, jobVars
  <2>. QED
    BY <2>4, <2>5, <2>6, <2>7, <2>8, <2>9, <2>10, <2>11, <2>12 DEF Next, Runner, StopRequest
<1>. QED
  BY <1>1, <1>2, TypeCorrect, SlotInvariant, PTL DEF Spec

\* stopScan cancels the scan it was asked about or nothing, however late it gets
\* to call cancel().
THEOREM CancelSpares == Spec => CancelSparesLaterScans
<1> DEFINE A == \A c \in Clients, j \in Scans :
                  (handler[c].op = "fire" /\ handler'[c].op = "note" /\ ctx'[j] # ctx[j])
                     => j = handler[c].asOf
<1>1. TypeOK /\ SlotInv /\ [Next]_vars => [A]_vars
  <2>. SUFFICES ASSUME TypeOK, SlotInv, Next,
                       NEW c \in Clients, NEW j \in Scans,
                       handler[c].op = "fire", handler'[c].op = "note", ctx'[j] # ctx[j]
                PROVE  j = handler[c].asOf
    OBVIOUS
  <2>1. ASSUME NEW d \in Clients, StopCancels(d) PROVE j = handler[c].asOf
    <3>1. ctx' = [ctx EXCEPT ![handler[d].seen] = "stopped"]
      BY <2>1 DEF StopCancels
    <3>2. j = handler[d].seen
      BY <3>1 DEF TypeOK
    <3>3. d = c
      BY <2>1 DEF StopCancels, TypeOK
    <3>. QED BY <3>2, <3>3 DEF SlotInv
  <2>2. CASE UNCHANGED handler
    BY <2>2
  <2>3. CASE UNCHANGED ctx
    BY <2>3
  <2>4. ASSUME ProcessExits PROVE FALSE
    BY <2>4 DEF ProcessExits, Idle
  <2>5. ASSUME NEW mock \in BOOLEAN, HandleScan(mock) PROVE UNCHANGED handler
    BY <2>5 DEF HandleScan
  <2>6. ASSUME NEW k \in Scans, Runner(k) \/ BudgetExpires(k) PROVE UNCHANGED handler
    BY <2>6 DEF Runner, NoteReadsJob, NoteWrites, Open, Identify, ReadDTCs, FreezeNext,
       Sample, Park, Fail, Verdict, Upload, ExplainNext, ExplainReturns, FinishJob,
       Returns, BudgetExpires, Leave, FailWith, Goto
  <2>7. ASSUME NEW d \in Clients, StopRequest(d), ~StopCancels(d) PROVE UNCHANGED ctx
    BY <2>7 DEF StopRequest, StopReadsJob, QuitWithoutJob, StopChecksBusy,
       StopNoteReadsJob, StopNoteWrites, QuitReplies, scanVars
  <2>8. CASE ProcessStarts
    BY <2>8 DEF ProcessStarts, scanVars
  <2>. QED
    BY <2>1, <2>2, <2>3, <2>4, <2>5, <2>6, <2>7, <2>8 DEF Next
<1>. QED
  BY <1>1, TypeCorrect, SlotInvariant, PTL DEF Spec, CancelSparesLaterScans
-----------------------------------------------------------------------------
(* How each step changes the outcomes of the scans *)

\* The job of scan i is as busy, as done and of the same outcome as before, and
\* its goroutine carries the same error.
SameOutcome(i) ==
  /\ jobs'[i].busy = jobs[i].busy
  /\ jobs'[i].done = jobs[i].done
  /\ jobs'[i].err = jobs[i].err
  /\ jobs'[i].result = jobs[i].result
  /\ scan'[i].err = scan[i].err

\* Scan i stays where it is, or a stage of it leads to the next one.
GoesOn(i) ==
  \/ pc'[i] = pc[i]
  \/ /\ Active(i) /\ pc[i] # "failFinish"
     /\ pc'[i] \notin {"unused", "return", "end", "failFinish"}

\* A step that changes no outcome.
QuietStep ==
  /\ UNCHANGED <<created, job>>
  /\ \A i \in Scans : SameOutcome(i) /\ GoesOn(i) /\ (Stopped(i) => Stopped(i)')

\* The step that finds the error of scan j.
ErrorStep(j) ==
  /\ UNCHANGED <<created, job, jobs, ctx>>
  /\ Active(j) /\ pc[j] # "failFinish" /\ pc'[j] = "failFinish"
  /\ scan'[j].err # "none"
  /\ \A i \in Scans : i # j => SameOutcome(i) /\ pc'[i] = pc[i]

\* The step that ends scan j.
EndStep(j) ==
  /\ UNCHANGED <<created, job, ctx>>
  /\ pc[j] \in {"failFinish", "okFinish"} /\ pc'[j] = "return"
  /\ ~jobs'[j].busy
  /\ jobs'[j].done
  /\ IF pc[j] = "failFinish"
     THEN jobs'[j].err = scan[j].err /\ jobs'[j].result = jobs[j].result
     ELSE jobs'[j].err = jobs[j].err /\ jobs'[j].result # "none"
  /\ \A i \in Scans : i # j => SameOutcome(i) /\ pc'[i] = pc[i]

\* The step in which the goroutine of scan j returns.
ReturnStep(j) ==
  /\ UNCHANGED <<created, job, jobs, scan>>
  /\ pc[j] = "return" /\ pc'[j] = "end" /\ Stopped(j)'
  /\ \A i \in Scans : i # j => pc'[i] = pc[i] /\ ctx'[i] = ctx[i]

\* The step that starts scan j.
StartStep(j) ==
  /\ ~Busy /\ j = created + 1
  /\ created' = j /\ job' = j
  /\ pc'[j] = "open"
  /\ jobs'[j].busy /\ ~jobs'[j].done
  /\ jobs'[j].err = "none"
  /\ jobs'[j].result = "none"
  /\ scan'[j].err = "none"
  /\ \A i \in Scans : i # j => SameOutcome(i) /\ pc'[i] = pc[i] /\ ctx'[i] = ctx[i]

\* A goroutine that goes from stage to stage changes no outcome.
LEMMA GotoIsQuiet ==
  ASSUME TypeOK, NEW j \in Scans, NEW at, NEW to, NEW text,
         At(j, at), at \notin {"unused", "return", "end", "failFinish"},
         Goto(j, to, text), to \notin {"unused", "return", "end", "failFinish"},
         \A i \in Scans : scan'[i].err = scan[i].err
  PROVE  QuietStep
<1>1. /\ UNCHANGED <<created, job, jobs, ctx>>
      /\ pc' = [pc EXCEPT ![j] = to] /\ pc[j] = at
  BY DEF Goto, At, jobVars
<1>2. \A i \in Scans : IF i = j THEN pc'[i] = to ELSE pc'[i] = pc[i]
  BY <1>1 DEF TypeOK
<1>3. \A i \in Scans : GoesOn(i)
  BY <1>1, <1>2 DEF GoesOn, Active
<1>4. \A i \in Scans : SameOutcome(i) /\ (Stopped(i) => Stopped(i)')
  BY <1>1 DEF SameOutcome, Stopped
<1>. QED BY <1>1, <1>3, <1>4 DEF QuietStep

\* So does a note, whoever writes it and into whatever job.
LEMMA NoteIsQuiet ==
  ASSUME TypeOK, NEW k \in Scans, NEW text \in Phases, NEW by \in Scans,
         jobs' = [jobs EXCEPT ![k] = Noted(@, text, by)],
         UNCHANGED <<created, job, ctx, pc, scan>>
  PROVE  QuietStep
<1>1. jobs[k] \in JobRecords /\ Len(jobs[k].log) <= LogCap
  BY SMTT(30) DEF TypeOK
<1> DEFINE r == Noted(jobs[k], text, by)
<1>2. /\ r.busy = jobs[k].busy /\ r.done = jobs[k].done
      /\ r.err = jobs[k].err /\ r.result = jobs[k].result
  BY <1>1, NotedRecord, ZenonT(60)
<1>3. jobs' = [jobs EXCEPT ![k] = r] /\ jobs \in [Scans -> JobRecords]
  BY DEF TypeOK
<1> HIDE DEF r
<1>4. \A i \in Scans : IF i = k THEN jobs'[i] = r ELSE jobs'[i] = jobs[i]
  BY <1>3
<1>5. \A i \in Scans : SameOutcome(i)
  BY <1>2, <1>4 DEF SameOutcome
<1>6. \A i \in Scans : GoesOn(i) /\ (Stopped(i) => Stopped(i)')
  BY DEF GoesOn, Stopped
<1>. QED BY <1>5, <1>6 DEF QuietStep

\* A step of Fail or of a bad verdict finds the error of its scan.
LEMMA FindsError ==
  ASSUME TypeOK, NEW j \in Scans, Fail(j) \/ (Verdict(j) /\ BadVIN(scan[j]))
  PROVE  ErrorStep(j)
<1>0. scan \in [Scans -> ScanValues] /\ pc \in [Scans -> RunnerPCs]
  BY DEF TypeOK
<1>1. PICK err, text :
        FailWith(j, err, text) /\ err # "none" /\ pc[j] \in {"fail", "verdict"}
  BY DEF Fail, Verdict, At
<1>2. /\ scan' = [scan EXCEPT ![j].err = err]
      /\ pc' = [pc EXCEPT ![j] = "failFinish"]
      /\ UNCHANGED <<created, job, jobs, ctx>>
  BY <1>1 DEF FailWith, Goto, jobVars
<1>3. /\ scan'[j].err = err /\ pc'[j] = "failFinish"
      /\ \A i \in Scans : i # j => scan'[i] = scan[i] /\ pc'[i] = pc[i]
  BY <1>0, <1>2 DEF ScanValues
<1>4. \A i \in Scans : i # j => SameOutcome(i) /\ pc'[i] = pc[i]
  BY <1>2, <1>3 DEF SameOutcome
<1>. QED BY <1>1, <1>2, <1>3, <1>4 DEF ErrorStep, Active

\* finishJob ends its scan.
LEMMA FinishEnds ==
  ASSUME TypeOK, NEW j \in Scans, FinishJob(j)
  PROVE  EndStep(j)
<1>0. /\ jobs[j] \in JobRecords /\ jobs \in [Scans -> JobRecords]
      /\ pc \in [Scans -> RunnerPCs] /\ scan \in [Scans -> ScanValues]
      /\ scan[j].err \in Errors
  BY DEF TypeOK, ScanValues
<1>1. PICK r :
        /\ UNCHANGED <<created, job, ctx>>
        /\ pc[j] \in {"failFinish", "okFinish"} /\ pc' = [pc EXCEPT ![j] = "return"]
        /\ scan' = [scan EXCEPT ![j] = NewScan]
        /\ jobs' = [jobs EXCEPT ![j] = r] /\ ~r.busy /\ r.done
        /\ IF pc[j] = "failFinish"
           THEN r.err = scan[j].err /\ r.result = jobs[j].result
           ELSE r.err = jobs[j].err /\ r.result # "none"
  <2>0. /\ UNCHANGED <<created, job, ctx>>
        /\ pc' = [pc EXCEPT ![j] = "return"] /\ scan' = [scan EXCEPT ![j] = NewScan]
    BY DEF FinishJob
  <2> DEFINE failed == FinishedFailed(jobs[j], scan[j].err)
             res == IF scan[j].ok THEN "uploaded" ELSE "uploadError"
             ended == FinishedDone(jobs[j], res)
  <2>1. res \in {"uploaded", "uploadError"} /\ res # "none"
    OBVIOUS
  <2>2. /\ ~failed.busy /\ failed.done
        /\ failed.err = scan[j].err /\ failed.result = jobs[j].result
    BY <1>0, FailedRecord
  <2>4. ~ended.busy /\ ended.done /\ ended.err = jobs[j].err /\ ended.result = res
    <3> HIDE DEF res
    <3>. QED BY <1>0, <2>1, DoneRecord
  <2>3. \/ pc[j] = "failFinish" /\ jobs' = [jobs EXCEPT ![j] = failed]
        \/ pc[j] = "okFinish" /\ jobs' = [jobs EXCEPT ![j] = ended]
    BY DEF FinishJob
  <2> HIDE DEF failed, ended, res
  <2>. QED BY <2>0, <2>1, <2>2, <2>3, <2>4
<1>2. /\ jobs'[j] = r /\ pc'[j] = "return"
      /\ \A i \in Scans : i # j => jobs'[i] = jobs[i] /\ pc'[i] = pc[i] /\ scan'[i] = scan[i]
  BY <1>0, <1>1
<1>3. \A i \in Scans : i # j => SameOutcome(i) /\ pc'[i] = pc[i]
  BY <1>2 DEF SameOutcome
<1>. QED BY <1>1, <1>2, <1>3 DEF EndStep

\* The deferred cancel is the last step of its goroutine.
LEMMA ReturnEnds ==
  ASSUME TypeOK, NEW j \in Scans, Returns(j)
  PROVE  ReturnStep(j)
<1>1. /\ pc[j] = "return" /\ pc' = [pc EXCEPT ![j] = "end"]
      /\ ctx' = [ctx EXCEPT ![j] = "stopped"]
      /\ UNCHANGED <<created, job, jobs, scan>>
  BY DEF Returns, jobVars
<1>2. /\ pc'[j] = "end" /\ ctx'[j] = "stopped"
      /\ \A i \in Scans : i # j => pc'[i] = pc[i] /\ ctx'[i] = ctx[i]
  BY <1>1 DEF TypeOK
<1>. QED BY <1>1, <1>2 DEF ReturnStep, Stopped

\* handleScan starts the next scan.
LEMMA ScanStarts ==
  ASSUME TypeOK, NEW mock \in BOOLEAN, HandleScan(mock)
  PROVE  \E j \in Scans : StartStep(j)
<1>1. created \in 0..MaxScans /\ created < MaxScans
  BY DEF HandleScan, TypeOK
<1>2. PICK j \in Scans : j = created + 1
  BY <1>1 DEF Scans
<1> DEFINE fresh == [NewScan EXCEPT !.mock = mock]
<1>8. fresh.err = "none"
  BY DEF NewScan
<1>3. /\ ~Busy /\ created' = j /\ job' = j
      /\ jobs' = [jobs EXCEPT ![j] = NewJob(j)]
      /\ ctx' = [ctx EXCEPT ![j] = "live"]
      /\ pc' = [pc EXCEPT ![j] = "open"]
      /\ scan' = [scan EXCEPT ![j] = fresh]
  BY <1>2 DEF HandleScan
<1> HIDE DEF fresh
<1>4. \A i \in Scans : IF i = j THEN /\ jobs'[i] = NewJob(j) /\ pc'[i] = "open"
                                     /\ scan'[i] = fresh
                                ELSE /\ jobs'[i] = jobs[i] /\ pc'[i] = pc[i]
                                     /\ ctx'[i] = ctx[i] /\ scan'[i] = scan[i]
  BY <1>3 DEF TypeOK
<1>5. /\ NewJob(j).busy /\ ~NewJob(j).done
      /\ NewJob(j).err = "none" /\ NewJob(j).result = "none"
  BY DEF NewJob, NoJob
<1>6. \A i \in Scans : i # j => SameOutcome(i) /\ pc'[i] = pc[i] /\ ctx'[i] = ctx[i]
  BY <1>4 DEF SameOutcome
<1>7. jobs'[j] = NewJob(j) /\ pc'[j] = "open" /\ scan'[j].err = "none"
  BY <1>4, <1>8
<1>. QED BY <1>2, <1>3, <1>5, <1>6, <1>7 DEF StartStep

\* Every step of the manager is one of these.
LEMMA StepOutcomes ==
  ASSUME TypeOK, SlotInv, [Next]_vars
  PROVE  \/ QuietStep
         \/ \E j \in Scans : ErrorStep(j) \/ EndStep(j) \/ ReturnStep(j) \/ StartStep(j)
         \/ ProcessExits
<1>0. scan \in [Scans -> ScanValues]
  BY DEF TypeOK
<1>1. ASSUME UNCHANGED <<created, job, jobs, pc, scan>>,
             \A i \in Scans : Stopped(i) => Stopped(i)'
      PROVE  QuietStep
  BY <1>1 DEF QuietStep, SameOutcome, GoesOn
<1>2. ASSUME UNCHANGED <<created, job, jobs, pc, ctx, scan>> PROVE QuietStep
  BY <1>1, <1>2 DEF Stopped
<1>3. ASSUME NEW j \in Scans, BudgetExpires(j) PROVE QuietStep
  <2>1. \A i \in Scans : Stopped(i) => Stopped(i)'
    BY <1>3 DEF BudgetExpires, Stopped, TypeOK
  <2>. QED BY <1>1, <1>3, <2>1 DEF BudgetExpires, jobVars
<1>4. ASSUME NEW j \in Scans, NoteReadsJob(j) PROVE QuietStep
  BY <1>2, <1>4 DEF NoteReadsJob, jobVars
<1>5. ASSUME NEW j \in Scans, NoteWrites(j) PROVE QuietStep
  <2>1. tgt[j] = j /\ pend[j] # Quiet
    BY <1>5 DEF NoteWrites, SlotInv
  <2>2. pend[j] \in Phases /\ jobs' = [jobs EXCEPT ![j] = Noted(@, pend[j], j)]
        /\ UNCHANGED <<created, job, ctx, pc, scan>>
    BY <1>5, <2>1 DEF NoteWrites, TypeOK
  <2>. QED BY <2>2, NoteIsQuiet
<1>6. ASSUME NEW j \in Scans,
             \/ Open(j) \/ Identify(j) \/ ReadDTCs(j) \/ FreezeNext(j) \/ Sample(j)
             \/ Park(j) \/ (Verdict(j) /\ ~BadVIN(scan[j])) \/ Upload(j)
             \/ ExplainNext(j) \/ ExplainReturns(j)
      PROVE  QuietStep
  <2> DEFINE Hop(at, to) ==
               /\ At(j, at) /\ at \notin {"unused", "return", "end", "failFinish"}
               /\ to \notin {"unused", "return", "end", "failFinish"}
               /\ \E text : Goto(j, to, text)
  <2>2. ASSUME Park(j) PROVE \E at, to : Hop(at, to)
    BY <2>2 DEF Park
  <2>3. ASSUME Open(j) \/ Identify(j) \/ ReadDTCs(j) \/ FreezeNext(j) \/ Sample(j)
        PROVE  \E at, to : Hop(at, to)
    BY <2>3 DEF Open, Identify, ReadDTCs, FreezeNext, Sample, Leave
  <2>4. ASSUME \/ Verdict(j) /\ ~BadVIN(scan[j])
               \/ Upload(j) \/ ExplainNext(j) \/ ExplainReturns(j)
        PROVE  \E at, to : Hop(at, to)
    BY <2>4 DEF Verdict, Upload, ExplainNext, ExplainReturns
  <2>1. PICK at, to, text :
          /\ At(j, at) /\ at \notin {"unused", "return", "end", "failFinish"}
          /\ to \notin {"unused", "return", "end", "failFinish"} /\ Goto(j, to, text)
    BY <1>6, <2>2, <2>3, <2>4
  <2>5. \A i \in Scans : scan'[i].err = scan[i].err
    <3> DEFINE old == scan[j]
    <3>0. old \in ScanValues
      BY <1>0
    <3> HIDE DEF old
    <3>1. /\ \A v : [old EXCEPT !.vin = v].err = old.err
          /\ \A b : [old EXCEPT !.ok = b].err = old.err
          /\ \A n : [old EXCEPT !.left = n].err = old.err
          /\ \A n : [old EXCEPT !.codes = n, !.left = n].err = old.err
      BY <3>0 DEF ScanValues
    <3>2. \/ scan' = scan
          \/ \E v : scan' = [scan EXCEPT ![j] = [old EXCEPT !.vin = v]]
          \/ \E b : scan' = [scan EXCEPT ![j] = [old EXCEPT !.ok = b]]
          \/ \E n : scan' = [scan EXCEPT ![j] = [old EXCEPT !.left = n]]
          \/ \E n : scan' = [scan EXCEPT ![j] = [old EXCEPT !.codes = n, !.left = n]]
      BY <1>6 DEF Open, Identify, ReadDTCs, FreezeNext, Sample, Park, Verdict, Upload,
         ExplainNext, ExplainReturns, Leave, old
    <3>3. ASSUME NEW s, scan' = [scan EXCEPT ![j] = s], s.err = old.err
          PROVE  \A i \in Scans : scan'[i].err = scan[i].err
      BY <1>0, <3>3 DEF old
    <3>. QED BY <3>1, <3>2, <3>3
  <2>. QED BY <2>1, <2>5, GotoIsQuiet
<1>7. ASSUME NEW j \in Scans, Fail(j) \/ (Verdict(j) /\ BadVIN(scan[j])) PROVE ErrorStep(j)
  BY <1>7, FindsError
<1>8. ASSUME NEW j \in Scans, FinishJob(j) PROVE EndStep(j)
  BY <1>8, FinishEnds
<1>14. ASSUME NEW j \in Scans, Returns(j) PROVE ReturnStep(j)
  BY <1>14, ReturnEnds
<1>9. ASSUME NEW c \in Clients, StopCancels(c) PROVE QuietStep
  <2>1. /\ ctx' = [ctx EXCEPT ![handler[c].seen] = "stopped"]
        /\ UNCHANGED <<created, job, jobs, pc, scan>>
    BY <1>9 DEF StopCancels, jobVars
  <2>2. \A i \in Scans : Stopped(i) => Stopped(i)'
    BY <2>1 DEF Stopped, TypeOK
  <2>. QED BY <1>1, <2>1, <2>2
<1>10. ASSUME NEW c \in Clients, StopNoteWrites(c) PROVE QuietStep
  <2>1. handler[c] \in Requests /\ "Cancel requested" \in Phases
    BY DEF TypeOK, Phases
  <2>2. /\ handler[c].seen \in Scans /\ handler[c].asOf \in Scans
        /\ jobs' = [jobs EXCEPT ![handler[c].seen] =
                                  Noted(@, "Cancel requested", handler[c].asOf)]
        /\ UNCHANGED <<created, job, ctx, pc, scan>>
    BY <1>10, <2>1, RequestUpdates DEF StopNoteWrites, scanVars
  <2>. QED BY <2>1, <2>2, NoteIsQuiet
<1>11. ASSUME NEW c \in Clients,
              \/ \E quit \in BOOLEAN : StopReadsJob(c, quit)
              \/ QuitWithoutJob(c) \/ StopChecksBusy(c) \/ StopNoteReadsJob(c) \/ QuitReplies(c)
       PROVE  QuietStep
  <2>1. UNCHANGED <<created, job, jobs, pc, ctx, scan>>
    BY <1>11 DEF StopReadsJob, QuitWithoutJob, StopChecksBusy, StopNoteReadsJob, QuitReplies,
       jobVars, scanVars
  <2>. QED BY <1>2, <2>1
<1>12. CASE ProcessStarts \/ UNCHANGED vars
  <2>1. UNCHANGED <<created, job, jobs, pc, ctx, scan>>
    BY <1>12 DEF ProcessStarts, vars, jobVars, scanVars
  <2>. QED BY <1>2, <2>1
<1>13. ASSUME NEW mock \in BOOLEAN, HandleScan(mock) PROVE \E j \in Scans : StartStep(j)
  BY <1>13, ScanStarts
<1>. QED
  BY <1>3, <1>4, <1>5, <1>6, <1>7, <1>8, <1>9, <1>10, <1>11, <1>12, <1>13, <1>14
     DEF Next, Runner, StopRequest
-----------------------------------------------------------------------------
\* What OutcomeInv says of one scan.
OutcomeOf(i) ==
  /\ jobs[i].done => (jobs[i].err = "none") # (jobs[i].result = "none")
  /\ ~jobs[i].done => jobs[i].err = "none" /\ jobs[i].result = "none"
  /\ jobs[i].done /\ ~Stopped(i) => pc[i] = "return"
  /\ jobs[i].done => pc[i] \in {"return", "end"}
  /\ Active(i) => (scan[i].err = "none" <=> pc[i] # "failFinish")
  /\ i <= created => pc[i] # "unused"

LEMMA OutcomeParts == OutcomeInv <=> \A i \in Scans : OutcomeOf(i)
BY DEF OutcomeInv, OutcomeOf, OverMeansOutcome

\* A scan the step says nothing new about keeps its outcome.
LEMMA OutcomeKept ==
  ASSUME NEW i \in Scans, OutcomeOf(i), SameOutcome(i), pc'[i] = pc[i],
         Stopped(i) => Stopped(i)', created' = created
  PROVE  OutcomeOf(i)'
BY DEF OutcomeOf, SameOutcome, Active

\* A job that is over has one outcome and one that is not has none: the goroutine
\* carries its error to finishJob, which writes an error or a result under the lock
\* that clears busy, and no note or cancel that comes later touches either.  What
\* is left of the scan then is its context, until the goroutine returns.
THEOREM OutcomeInvariant == Spec => []OutcomeInv
<1>1. Init => OutcomeInv
  <2>. SUFFICES ASSUME Init, NEW i \in Scans PROVE OutcomeOf(i)
    BY OutcomeParts
  <2>1. jobs[i] = NoJob /\ pc[i] = "unused" /\ created = 0 /\ i \in 1..MaxScans
    BY DEF Init, Scans
  <2>2. ~(i <= created)
    BY <2>1
  <2>. QED BY <2>1, <2>2 DEF OutcomeOf, NoJob, Active
<1>2. TypeOK /\ SlotInv /\ OutcomeInv /\ [Next]_vars => OutcomeInv'
  <2>. SUFFICES ASSUME TypeOK, SlotInv, OutcomeInv, [Next]_vars, NEW i \in Scans
                PROVE  OutcomeOf(i)'
    BY DEF OutcomeInv, OutcomeOf, OverMeansOutcome
  <2>0. OutcomeOf(i)
    BY OutcomeParts
  <2>1. CASE QuietStep
    <3>1. /\ created' = created /\ SameOutcome(i) /\ GoesOn(i)
          /\ Stopped(i) => Stopped(i)'
      BY <2>1 DEF QuietStep
    <3>2. CASE pc'[i] = pc[i]
      BY <2>0, <3>1, <3>2, OutcomeKept
    <3>3. CASE /\ Active(i) /\ pc[i] # "failFinish"
               /\ pc'[i] \notin {"unused", "return", "end", "failFinish"}
      <4>1. ~jobs[i].done /\ scan[i].err = "none"
        BY <2>0, <3>3 DEF OutcomeOf, Active
      <4>. QED BY <2>0, <3>1, <3>3, <4>1 DEF OutcomeOf, SameOutcome
    <3>. QED BY <3>1, <3>2, <3>3 DEF GoesOn
  <2>2. ASSUME NEW j \in Scans, ErrorStep(j) PROVE OutcomeOf(i)'
    <3>1. CASE i # j
      BY <2>0, <2>2, <3>1, OutcomeKept DEF ErrorStep, Stopped
    <3>2. CASE i = j
      <4>1. ~jobs[i].done
        BY <2>0, <2>2, <3>2 DEF OutcomeOf, ErrorStep, Active
      <4>2. jobs' = jobs /\ scan'[i].err # "none" /\ pc'[i] = "failFinish"
        BY <2>2, <3>2 DEF ErrorStep
      <4>. QED BY <2>0, <4>1, <4>2 DEF OutcomeOf
    <3>. QED BY <3>1, <3>2
  <2>3. ASSUME NEW j \in Scans, EndStep(j) PROVE OutcomeOf(i)'
    <3>1. CASE i # j
      BY <2>0, <2>3, <3>1, OutcomeKept DEF EndStep, Stopped
    <3>2. CASE i = j
      <4>1. /\ jobs[i].result = "none" /\ jobs[i].err = "none"
            /\ scan[i].err = "none" <=> pc[i] # "failFinish"
        BY <2>0, <2>3, <3>2 DEF OutcomeOf, EndStep, Active
      <4>2. (jobs'[i].err = "none") # (jobs'[i].result = "none")
        BY <2>3, <3>2, <4>1 DEF EndStep
      <4>3. pc'[i] = "return" /\ jobs'[i].done
        BY <2>3, <3>2 DEF EndStep
      <4>. QED BY <4>2, <4>3 DEF OutcomeOf, Active
    <3>. QED BY <3>1, <3>2
  <2>7. ASSUME NEW j \in Scans, ReturnStep(j) PROVE OutcomeOf(i)'
    <3>1. CASE i # j
      BY <2>0, <2>7, <3>1, OutcomeKept DEF ReturnStep, Stopped, SameOutcome
    <3>2. CASE i = j
      BY <2>0, <2>7, <3>2 DEF ReturnStep, OutcomeOf, Active
    <3>. QED BY <3>1, <3>2
  <2>4. ASSUME NEW j \in Scans, StartStep(j) PROVE OutcomeOf(i)'
    <3>1. CASE i # j
      <4>1. SameOutcome(i) /\ pc'[i] = pc[i] /\ ctx'[i] = ctx[i]
        BY <2>4, <3>1 DEF StartStep
      <4>2. i <= created' => i <= created
        BY <2>4, <3>1, Counts DEF StartStep
      <4>. QED BY <2>0, <4>1, <4>2 DEF OutcomeOf, SameOutcome, Active, Stopped
    <3>2. CASE i = j
      BY <2>4, <3>2 DEF StartStep, OutcomeOf, Active
    <3>. QED BY <3>1, <3>2
  <2>5. CASE ProcessExits
    <3>1. jobs'[i] = NoJob /\ created' = created
          /\ pc'[i] = IF i <= created THEN "end" ELSE "unused"
      BY <2>5 DEF ProcessExits
    <3>2. ~jobs'[i].done /\ jobs'[i].err = "none" /\ jobs'[i].result = "none"
      BY <3>1 DEF NoJob
    <3>. QED BY <3>1, <3>2 DEF OutcomeOf, Active
  <2>6. \/ QuietStep
        \/ \E j \in Scans : ErrorStep(j) \/ EndStep(j) \/ ReturnStep(j) \/ StartStep(j)
        \/ ProcessExits
    BY StepOutcomes
  <2>. QED BY <2>1, <2>2, <2>3, <2>4, <2>5, <2>6, <2>7
<1>. QED
  BY <1>1, <1>2, TypeCorrect, SlotInvariant, PTL DEF Spec

\* A job that is over has one outcome, an error or a result, and one that is not
\* over shows none, however often it was cancelled on the way.
THEOREM OneOutcome == Spec => []OverMeansOutcome
<1>1. OutcomeInv => OverMeansOutcome
  BY DEF OutcomeInv
<1>. QED BY <1>1, OutcomeInvariant, PTL
-----------------------------------------------------------------------------
(* The refinement *)

\* What the mapping of ImplementsSlot shows of the slot and of scan i.
SlotScan == IF Busy THEN job ELSE NoScan

Shown(i) ==
  IF pc[i] = "unused" THEN "unused"
  ELSE IF jobs[i].busy THEN "pending"
  ELSE IF ~jobs[i].done THEN "gone"
  ELSE IF jobs[i].err # "none" THEN "failed" ELSE "done"

\* The slot shows the scan that runs.
LEMMA SlotShowsActive ==
  ASSUME TypeOK, SlotInv, NEW i \in Scans, Active(i)
  PROVE  SlotScan = i
<1>1. i = job /\ jobs[i].busy
  BY DEF SlotInv, OneScanAtATime
<1>2. i # NoScan
  BY DEF Scans, NoScan
<1>. QED BY <1>1, <1>2 DEF SlotScan, Busy

\* Scans that a step says nothing new about are shown as before.
LEMMA ShownKept ==
  ASSUME TypeOK, NEW i \in Scans, SameOutcome(i), pc'[i] = pc[i]
  PROVE  Shown(i)' = Shown(i)
<1>1. /\ pc'[i] = "unused" <=> pc[i] = "unused"
      /\ jobs'[i].busy <=> jobs[i].busy
      /\ jobs'[i].done <=> jobs[i].done
      /\ jobs'[i].err = jobs[i].err
  BY DEF SameOutcome
<1>. QED BY <1>1 DEF Shown

\* A step that changes no outcome is a stuttering step of ScanSlot.
LEMMA SlotStutters ==
  ASSUME TypeOK, SlotInv, QuietStep
  PROVE  SlotScan' = SlotScan /\ \A i \in Scans : Shown(i)' = Shown(i)
<1>1. Busy' <=> Busy
  <2>1. job' = job /\ job \in {NoScan} \cup Scans
    BY DEF QuietStep, TypeOK
  <2>2. \A i \in Scans : jobs'[i].busy <=> jobs[i].busy
    BY DEF QuietStep, SameOutcome
  <2>3. CASE job = NoScan
    BY <2>1, <2>3 DEF Busy
  <2>4. CASE job \in Scans
    BY <2>1, <2>2, <2>4 DEF Busy
  <2>. QED BY <2>1, <2>3, <2>4
<1>2. job' = job
  BY DEF QuietStep
<1>3. SlotScan' = SlotScan
  BY <1>1, <1>2 DEF SlotScan
<1>4. ASSUME NEW i \in Scans PROVE Shown(i)' = Shown(i)
  <2>1. SameOutcome(i) /\ GoesOn(i)
    BY DEF QuietStep
  <2>2. CASE pc'[i] = pc[i]
    BY <2>1, <2>2, ShownKept
  <2>3. CASE Active(i) /\ pc'[i] \notin {"unused", "return", "end", "failFinish"}
    <3>1. jobs[i].busy
      BY <2>3 DEF SlotInv, OneScanAtATime
    <3>2. jobs'[i].busy
      BY <2>1, <3>1 DEF SameOutcome
    <3>. QED BY <2>3, <3>1, <3>2 DEF Shown, Active
  <2>. QED BY <2>1, <2>2, <2>3 DEF GoesOn
<1>. QED BY <1>3, <1>4

\* So is the step that finds an error: the scan is pending until finishJob.
LEMMA ErrorStutters ==
  ASSUME TypeOK, SlotInv, NEW j \in Scans, ErrorStep(j)
  PROVE  SlotScan' = SlotScan /\ \A i \in Scans : Shown(i)' = Shown(i)
<1>1. job = j /\ jobs[j].busy /\ j # NoScan
  <2>1. Active(j)
    BY DEF ErrorStep
  <2>2. j # NoScan
    BY DEF Scans, NoScan
  <2>. QED BY <2>1, <2>2 DEF SlotInv, OneScanAtATime
<1>2. jobs'[j].busy /\ job' = job
  BY <1>1 DEF ErrorStep
<1>3. SlotScan' = SlotScan
  BY <1>1, <1>2 DEF SlotScan, Busy
<1>4. ASSUME NEW i \in Scans PROVE Shown(i)' = Shown(i)
  <2>1. CASE i = j
    BY <1>1, <1>2, <2>1 DEF ErrorStep, Shown, Active
  <2>2. CASE i # j
    BY <2>2, ShownKept DEF ErrorStep
  <2>. QED BY <2>1, <2>2
<1>. QED BY <1>3, <1>4

\* And the return of a goroutine whose job is over already.
LEMMA ReturnStutters ==
  ASSUME TypeOK, SlotInv, NEW j \in Scans, ReturnStep(j)
  PROVE  SlotScan' = SlotScan /\ \A i \in Scans : Shown(i)' = Shown(i)
<1>1. job' = job /\ jobs' = jobs
  BY DEF ReturnStep
<1>2. \A i \in Scans : pc'[i] = "unused" <=> pc[i] = "unused"
  BY DEF ReturnStep
<1>. QED BY <1>1, <1>2 DEF SlotScan, Busy, Shown

\* finishJob frees the slot and leaves the outcome the goroutine found.
LEMMA EndFinishes ==
  ASSUME TypeOK, SlotInv, OutcomeInv, NEW j \in Scans, EndStep(j)
  PROVE  /\ SlotScan = j /\ SlotScan' = NoScan
         /\ Shown(j)' \in {"failed", "done"}
         /\ \A i \in Scans : i # j => Shown(i)' = Shown(i)
<1>1. Active(j)
  BY DEF EndStep, Active
<1>2. job = j /\ SlotScan = j
  BY <1>1, SlotShowsActive DEF SlotInv, OneScanAtATime
<1>3. ~Busy'
  BY <1>2 DEF EndStep, Busy
<1>4. Shown(j)' \in {"failed", "done"}
  BY DEF EndStep, Shown
<1>5. \A i \in Scans : i # j => Shown(i)' = Shown(i)
  BY ShownKept DEF EndStep
<1>. QED BY <1>2, <1>3, <1>4, <1>5 DEF SlotScan

\* handleScan takes a free slot for a scan never seen before.
LEMMA StartTakes ==
  ASSUME TypeOK, SlotInv, NEW j \in Scans, StartStep(j)
  PROVE  /\ SlotScan = NoScan /\ SlotScan' = j
         /\ Shown(j) = "unused" /\ Shown(j)' = "pending"
         /\ \A i \in Scans : i # j => Shown(i)' = Shown(i)
<1>1. j > created /\ j # NoScan
  <2>1. created \in 0..MaxScans /\ j = created + 1
    BY DEF TypeOK, StartStep
  <2>2. created \in Nat
    BY <2>1
  <2>. QED BY <2>1, <2>2 DEF NoScan
<1>2. pc[j] = "unused"
  BY <1>1 DEF SlotInv
<1>3. ~Busy /\ Busy' /\ job' = j
  BY <1>1 DEF StartStep, Busy
<1>4. Shown(j) = "unused"
  BY <1>2 DEF Shown
<1>5. Shown(j)' = "pending"
  BY DEF StartStep, Shown
<1>6. \A i \in Scans : i # j => Shown(i)' = Shown(i)
  BY ShownKept DEF StartStep
<1>. QED BY <1>3, <1>4, <1>5, <1>6 DEF SlotScan

\* The exit of the process loses every outcome there is.
LEMMA ExitLoses ==
  ASSUME TypeOK, SlotInv, OutcomeInv, ProcessExits
  PROVE  /\ SlotScan' = NoScan
         /\ \A i \in Scans :
              Shown(i)' = IF Shown(i) = "unused" THEN "unused" ELSE "gone"
<1>1. SlotScan' = NoScan
  BY DEF ProcessExits, SlotScan, Busy
<1>2. ASSUME NEW i \in Scans
      PROVE  Shown(i)' = IF Shown(i) = "unused" THEN "unused" ELSE "gone"
  <2>1. Shown(i) = "unused" <=> pc[i] = "unused"
    BY DEF Shown
  <2>2. i <= created <=> pc[i] # "unused"
    BY Counts DEF SlotInv, OutcomeInv
  <2>3. /\ pc'[i] = (IF i <= created THEN "end" ELSE "unused")
        /\ ~jobs'[i].busy /\ ~jobs'[i].done
    BY DEF ProcessExits, NoJob
  <2>. QED BY <2>1, <2>2, <2>3 DEF Shown
<1>. QED BY <1>1, <1>2
\* The scan manager implements the one-slot specification: with handlers and
\* goroutines interleaved in any order, what is seen of it is scans that take a
\* free slot, leave one outcome and free the slot, or are lost with the process.
THEOREM Refinement == Spec => ImplementsSlot
<1> DEFINE outcomes == [i \in Scans |-> Shown(i)]
<1>1. Init => Slot!Init
  BY DEF Init, Slot!Init, Busy, NoScan, Slot!NoScan
<1>2. TypeOK /\ SlotInv /\ OutcomeInv /\ [Next]_vars => [Slot!Next]_(Slot!vars)
  <2>. SUFFICES ASSUME TypeOK, SlotInv, OutcomeInv, [Next]_vars
                PROVE  Slot!Next \/ UNCHANGED Slot!vars
    BY DEF Slot!vars
  <2>1. ASSUME SlotScan' = SlotScan, \A i \in Scans : Shown(i)' = Shown(i)
        PROVE  UNCHANGED Slot!vars
    <3>1. outcomes' = outcomes
      BY <2>1
    <3>. QED BY <2>1, <3>1 DEF Slot!vars, SlotScan, Shown
  <2>2. CASE QuietStep
    BY <2>1, <2>2, SlotStutters
  <2>3. ASSUME NEW j \in Scans, ErrorStep(j) PROVE UNCHANGED Slot!vars
    BY <2>1, <2>3, ErrorStutters
  <2>4. ASSUME NEW j \in Scans, EndStep(j) PROVE Slot!Next
    <3>1. /\ SlotScan = j /\ SlotScan' = NoScan
          /\ Shown(j)' \in {"failed", "done"}
          /\ \A i \in Scans : i # j => Shown(i)' = Shown(i)
      BY <2>4, EndFinishes
    <3>2. outcomes' = [outcomes EXCEPT ![j] = Shown(j)']
      BY <3>1
    <3>3. PICK o \in {"failed", "done"} : outcomes' = [outcomes EXCEPT ![j] = o]
      BY <3>1, <3>2
    <3>4. Slot!Finish(j, o)
      BY <3>1, <3>3 DEF Slot!Finish, SlotScan, Shown, Slot!NoScan, NoScan
    <3>. QED BY <3>4 DEF Slot!Next
  <2>7. ASSUME NEW j \in Scans, ReturnStep(j) PROVE UNCHANGED Slot!vars
    BY <2>1, <2>7, ReturnStutters
  <2>5. ASSUME NEW j \in Scans, StartStep(j) PROVE Slot!Next
    <3>1. /\ SlotScan = NoScan /\ SlotScan' = j
          /\ Shown(j) = "unused" /\ Shown(j)' = "pending"
          /\ \A i \in Scans : i # j => Shown(i)' = Shown(i)
      BY <2>5, StartTakes
    <3>2. outcomes[j] = "unused" /\ outcomes' = [outcomes EXCEPT ![j] = "pending"]
      BY <3>1
    <3>3. Slot!Start(j)
      BY <3>1, <3>2 DEF Slot!Start, SlotScan, Shown, Slot!NoScan, NoScan
    <3>. QED BY <3>3 DEF Slot!Next
  <2>6. ASSUME ProcessExits PROVE Slot!Next
    <3>1. /\ SlotScan' = NoScan
          /\ \A i \in Scans :
               Shown(i)' = IF Shown(i) = "unused" THEN "unused" ELSE "gone"
      BY <2>6, ExitLoses
    <3>2. outcomes' = [i \in Scans |-> IF outcomes[i] = "unused" THEN "unused" ELSE "gone"]
      BY <3>1
    <3>3. Slot!Exit
      BY <3>1, <3>2 DEF Slot!Exit, SlotScan, Shown, Slot!NoScan, NoScan
    <3>. QED BY <3>3 DEF Slot!Next
  <2>. QED BY <2>2, <2>3, <2>4, <2>5, <2>6, <2>7, StepOutcomes
<1>. QED
  BY <1>1, <1>2, TypeCorrect, SlotInvariant, OutcomeInvariant, PTL
     DEF Spec, Slot!Spec, ImplementsSlot
=============================================================================
