------------------------------ MODULE BayJobs ------------------------------
(***************************************************************************)
(* The scan job manager of the bay application (cmd/bayui/server.go) with  *)
(* the scanner it drives (pkg/obd/types.go, Scanner.Scan).                 *)
(*                                                                         *)
(* HTTP handlers (scan, cancel, quit) and one goroutine per scan share     *)
(* b.job, the current job, under b.jobMu, and each job record under its    *)
(* own mutex.  No handler holds both across its whole body: stopScan and   *)
(* note read b.job, unlock, and write later, so every section between two  *)
(* locks is an action here.  The 401 and 400 replies of handleScan, and    *)
(* jobStatus, change nothing and have no action.                           *)
(***************************************************************************)
EXTENDS Integers, Sequences

CONSTANTS
  Clients,    \* concurrent HTTP requests
  MaxScans,   \* scans started over the whole run
  MaxCodes,   \* trouble codes one scan can return
  LogCap      \* lines a job keeps (50 in the code)

ASSUME BayJobsAssumption ==
  /\ MaxScans \in Nat \ {0}
  /\ MaxCodes \in Nat
  /\ LogCap \in Nat \ {0}

Scans  == 1..MaxScans
NoScan == 0

VARIABLES
  alive,     \* the bay process runs
  quitting,  \* handleQuit has replied; the process exits 200 ms later
  created,   \* scans installed so far
  job,       \* b.job: the current job, NoScan before the first
  jobs,      \* the scanJob records
  ctx,       \* the 50 s context of each scan: "live", then "stopped" when its budget
             \* is over or it is cancelled
  pc,        \* where the goroutine of each scan is
  pend,      \* the text that goroutine is about to note, Quiet if none
  tgt,       \* the job its note() has read from b.job
  scan,      \* what the adapter has returned to it, and the error it goes back with
  handler    \* the cancel and quit requests in flight ("asOf": the job current
             \* when the request came in, kept to say what the request is about)

jobVars  == <<created, job, jobs>>
scanVars == <<ctx, pc, pend, tgt, scan>>
procVars == <<alive, quitting>>
vars     == <<procVars, jobVars, scanVars, handler>>

Quiet == "-"

\* The progress lines, one per kind; the adapter's own lines have the same shape
\* as the stage line they follow.
Phases ==
  { "Starting", "Opening adapter", "Reading VIN and protocol",
    "Reading trouble codes", "Freeze frame", "Sampling live sensors",
    "Parking adapter", "error", "Uploading scan", "Upload failed",
    "Explaining", "Done", "Failed", "Cancel requested" }

RunnerPCs ==
  { "unused", "open", "identify", "codes", "freeze", "sample", "park", "fail",
    "failFinish", "verdict", "upload", "explain", "explaining", "okFinish",
    "return", "end" }

Idle == [op |-> "idle", seen |-> NoScan, asOf |-> NoScan, quit |-> FALSE]

NoJob ==
  [ busy |-> FALSE, done |-> FALSE, phase |-> "Starting", log |-> <<>>,
    err |-> "none", result |-> "none" ]

NewJob(j) ==
  [ NoJob EXCEPT !.busy = TRUE, !.log = <<[text |-> "Starting", by |-> j]>> ]

NewScan ==
  [ mock |-> FALSE, vin |-> "none", codes |-> 0, left |-> 0, ok |-> FALSE,
    err |-> "none" ]

\* The goroutine is between its start and finishJob; it is gone after its
\* deferred cancel.
Active(j)  == pc[j] \notin {"unused", "return", "end"}
Gone(j)    == pc[j] \in {"unused", "end"}
Stopped(j) == ctx[j] = "stopped"

Init ==
  /\ alive = TRUE
  /\ quitting = FALSE
  /\ created = 0
  /\ job = NoScan
  /\ jobs = [j \in Scans |-> NoJob]
  /\ ctx = [j \in Scans |-> "none"]
  /\ pc = [j \in Scans |-> "unused"]
  /\ pend = [j \in Scans |-> Quiet]
  /\ tgt = [j \in Scans |-> NoScan]
  /\ scan = [j \in Scans |-> NewScan]
  /\ handler = [c \in Clients |-> Idle]
-----------------------------------------------------------------------------
(* The job record *)

Capped(log) ==
  IF Len(log) > LogCap THEN SubSeq(log, Len(log) - LogCap + 1, Len(log)) ELSE log

\* note() under job.mu; "by" is the scan the line speaks of (not in the code).
Noted(rec, text, by) ==
  [ rec EXCEPT !.phase = text, !.log = Capped(Append(@, [text |-> text, by |-> by])) ]

\* finishJob() under job.mu, with an error or a result.
FinishedFailed(rec, err) ==
  [ rec EXCEPT !.busy = FALSE, !.done = TRUE, !.phase = "Failed", !.err = err ]

FinishedDone(rec, result) ==
  [ rec EXCEPT !.busy = FALSE, !.done = TRUE, !.phase = "Done", !.result = result ]
-----------------------------------------------------------------------------
(* POST /local/scan *)

\* Mutant of Busy: asks for the first line instead of the flag.
BusyWhileStarting == job # NoScan /\ jobs[job].phase = "Starting"

Busy == job # NoScan /\ jobs[job].busy

\* handleScan past its token and adapter checks: under jobMu, refuse with 409
\* while the current job is busy (nothing changes), else install a job and
\* start its goroutine, whose first report is "Opening adapter".
HandleScan(mock) ==
  /\ alive
  /\ ~Busy
  /\ created < MaxScans
  /\ LET j == created + 1 IN
       /\ created' = j
       /\ job' = j
       /\ jobs' = [jobs EXCEPT ![j] = NewJob(j)]
       /\ ctx' = [ctx EXCEPT ![j] = "live"]
       /\ pc' = [pc EXCEPT ![j] = "open"]
       /\ pend' = [pend EXCEPT ![j] = "Opening adapter"]
       /\ scan' = [scan EXCEPT ![j] = [NewScan EXCEPT !.mock = mock]]
       /\ UNCHANGED tgt
  /\ UNCHANGED <<procVars, handler>>

\* The 50 s budget of the scan's context runs out.
BudgetExpires(j) ==
  /\ alive
  /\ ~Gone(j)
  /\ ctx[j] = "live"
  /\ ctx' = [ctx EXCEPT ![j] = "stopped"]
  /\ UNCHANGED <<procVars, jobVars, pc, pend, tgt, scan, handler>>
-----------------------------------------------------------------------------
(* The goroutine of scan j: note() is two sections, jobMu then job.mu *)

NoteReadsJob(j) ==
  /\ alive
  /\ pend[j] # Quiet
  /\ tgt[j] = NoScan
  /\ tgt' = [tgt EXCEPT ![j] = job]
  /\ UNCHANGED <<procVars, jobVars, ctx, pc, pend, scan, handler>>

NoteWrites(j) ==
  /\ alive
  /\ pend[j] # Quiet
  /\ tgt[j] # NoScan
  /\ jobs' = [jobs EXCEPT ![tgt[j]] = Noted(@, pend[j], j)]
  /\ pend' = [pend EXCEPT ![j] = Quiet]
  /\ tgt' = [tgt EXCEPT ![j] = NoScan]
  /\ UNCHANGED <<procVars, created, job, ctx, pc, scan, handler>>

\* The goroutine is at "at" with nothing left to note.
At(j, at) == alive /\ pc[j] = at /\ pend[j] = Quiet

\* It goes on to "to", noting "text" on the way.
Goto(j, to, text) ==
  /\ pc' = [pc EXCEPT ![j] = to]
  /\ pend' = [pend EXCEPT ![j] = text]
  /\ UNCHANGED <<procVars, jobVars, ctx, tgt, handler>>

\* A scanner that has opened the adapter returns through Close; the USB adapter
\* says so, the mock does not.
Leave(j, ok) ==
  /\ scan' = [scan EXCEPT ![j].ok = ok]
  /\ Goto(j, "park", IF scan[j].mock THEN Quiet ELSE "Parking adapter")

\* Scanner.Scan, stage by stage.  A stage of the USB adapter can fail at any time
\* for its own reasons, one of the mock only for a dead context.  Success needs a
\* live context: a stop after the last command of a stage is a stop before the
\* next stage.
MayFail(j) == Stopped(j) \/ ~scan[j].mock

Open(j) ==
  /\ At(j, "open")
  /\ UNCHANGED scan
  /\ \/ /\ ~Stopped(j)
        /\ Goto(j, "identify", "Reading VIN and protocol")
     \/ /\ MayFail(j)
        /\ Goto(j, "fail", Quiet)

\* A silent ECU leaves an empty VIN and no error.
Identify(j) ==
  /\ At(j, "identify")
  /\ \/ /\ ~Stopped(j)
        /\ \E vin \in (IF scan[j].mock THEN {"mock"} ELSE {"none", "ecu"}) :
             scan' = [scan EXCEPT ![j].vin = vin]
        /\ Goto(j, "codes", "Reading trouble codes")
     \/ /\ MayFail(j)
        /\ Leave(j, FALSE)

\* ReadDTCs asks modes 03, 07 and 0A and skips a mode that gives an error, the
\* error of a dead context included, and returns the codes of the others.  Only
\* the mock adapter turns a dead context into an error.
ReadDTCs(j) ==
  /\ At(j, "codes")
  /\ \/ \E n \in 0..MaxCodes :
          /\ scan[j].mock => n = MaxCodes
          /\ scan' = [scan EXCEPT ![j] = [@ EXCEPT !.codes = n, !.left = n]]
          /\ IF n = 0
             THEN Goto(j, "sample", "Sampling live sensors")
             ELSE Goto(j, "freeze", Quiet)
     \/ /\ scan[j].mock /\ Stopped(j)
        /\ Leave(j, FALSE)

\* Mutant of FreezeNext: the loop does not advance.
FreezeNextStuck(j) ==
  /\ At(j, "freeze")
  /\ IF Stopped(j) THEN Leave(j, FALSE)
     ELSE IF scan[j].left > 0 THEN UNCHANGED scan /\ Goto(j, "freeze", "Freeze frame")
     ELSE UNCHANGED scan /\ Goto(j, "sample", "Sampling live sensors")

\* The freeze-frame loop looks at the context before each code, and ignores what
\* the adapter answers.
FreezeNext(j) ==
  /\ At(j, "freeze")
  /\ \/ /\ scan[j].left > 0
        /\ Stopped(j)
        /\ Leave(j, FALSE)
     \/ /\ scan[j].left > 0
        /\ ~Stopped(j)
        /\ scan' = [scan EXCEPT ![j].left = @ - 1]
        /\ Goto(j, "freeze", "Freeze frame")
     \/ /\ scan[j].left = 0
        /\ UNCHANGED scan
        /\ Goto(j, "sample", "Sampling live sensors")

\* ReadLiveSnapshot answers with what it has, whatever the context says.
Sample(j) ==
  /\ At(j, "sample")
  /\ Leave(j, TRUE)

\* Close is over: Scan returns to runScan.
Park(j) ==
  /\ At(j, "park")
  /\ UNCHANGED scan
  /\ Goto(j, IF scan[j].ok THEN "verdict" ELSE "fail", Quiet)
-----------------------------------------------------------------------------
(* runScan after the scanner has returned *)

\* The goroutine goes to finishJob with an error of its own.
FailWith(j, err, text) ==
  /\ scan' = [scan EXCEPT ![j].err = err]
  /\ Goto(j, "failFinish", text)

\* A scan that failed after its context died is reported as stopped.  (The text
\* names the phase the job shows at that moment; the wording is left out.)
Fail(j) ==
  /\ At(j, "fail")
  /\ FailWith(j, IF Stopped(j) THEN "stopped" ELSE "adapter", "error")

\* A scan without a VIN fails, and so would a live scan with the mock's VIN
\* (extractVIN drops the letter O, so the adapter cannot return one).
BadVIN(s) == s.vin = "none" \/ (s.vin = "mock" /\ ~s.mock)

Verdict(j) ==
  /\ At(j, "verdict")
  /\ \/ /\ BadVIN(scan[j])
        /\ FailWith(j, "vin", IF scan[j].vin = "none" THEN "error" ELSE Quiet)
     \/ /\ ~BadVIN(scan[j])
        /\ UNCHANGED scan
        /\ Goto(j, "upload", "Uploading scan")

\* uploadScan under the scan's context: a stopped scan is not uploaded.
Upload(j) ==
  /\ At(j, "upload")
  /\ \/ /\ ~Stopped(j)
        /\ scan' = [scan EXCEPT ![j].left = scan[j].codes]
        /\ Goto(j, "explain", Quiet)
     \/ /\ scan' = [scan EXCEPT ![j].ok = FALSE]
        /\ Goto(j, "okFinish", "Upload failed")

\* One explain call per code, under a background context: the loop does not look
\* at the scan's context.
ExplainNext(j) ==
  /\ At(j, "explain")
  /\ \/ /\ scan[j].left > 0
        /\ scan' = [scan EXCEPT ![j].left = @ - 1]
        /\ Goto(j, "explaining", "Explaining")
     \/ /\ scan[j].left = 0
        /\ UNCHANGED scan
        /\ Goto(j, "okFinish", "Done")

\* The call answers, fails or meets the 45 s limit of the HTTP client: the loop
\* goes on in each case.
ExplainReturns(j) ==
  /\ At(j, "explaining")
  /\ UNCHANGED scan
  /\ Goto(j, "explain", Quiet)

\* Mutant of FinishJob: the job is over before its last line is out.
FinishJobEarly(j) ==
  /\ alive
  /\ pc[j] = "okFinish"
  /\ jobs' = [jobs EXCEPT ![j] = FinishedDone(@, "uploaded")]
  /\ pc' = [pc EXCEPT ![j] = "return"]
  /\ UNCHANGED <<procVars, created, job, ctx, pend, tgt, scan, handler>>

\* finishJob: the job is over, for the page and for the next scan.  The context
\* still lives; the goroutine does not use its other values again.
FinishJob(j) ==
  /\ alive
  /\ pend[j] = Quiet
  /\ \/ /\ pc[j] = "failFinish"
        /\ jobs' = [jobs EXCEPT ![j] = FinishedFailed(@, scan[j].err)]
     \/ /\ pc[j] = "okFinish"
        /\ jobs' = [jobs EXCEPT ![j] =
             FinishedDone(@, IF scan[j].ok THEN "uploaded" ELSE "uploadError")]
  /\ pc' = [pc EXCEPT ![j] = "return"]
  /\ scan' = [scan EXCEPT ![j] = NewScan]
  /\ UNCHANGED <<procVars, created, job, ctx, pend, tgt, handler>>

\* Mutant of Returns: no deferred cancel.
ReturnsNoCancel(j) ==
  /\ alive
  /\ pc[j] = "return"
  /\ pc' = [pc EXCEPT ![j] = "end"]
  /\ UNCHANGED <<procVars, jobVars, ctx, pend, tgt, scan, handler>>

\* runScan returns: the deferred cancel.  The next scan may have started.
Returns(j) ==
  /\ alive
  /\ pc[j] = "return"
  /\ ctx' = [ctx EXCEPT ![j] = "stopped"]
  /\ pc' = [pc EXCEPT ![j] = "end"]
  /\ UNCHANGED <<procVars, jobVars, pend, tgt, scan, handler>>
-----------------------------------------------------------------------------
(* POST /local/scan/cancel and POST /local/quit: stopScan *)

\* stopScan reads b.job under jobMu.
StopReadsJob(c, quit) ==
  /\ alive
  /\ handler[c].op = "idle"
  /\ job # NoScan
  /\ handler' = [handler EXCEPT ![c] =
       [op |-> "check", seen |-> job, asOf |-> job, quit |-> quit]]
  /\ UNCHANGED <<procVars, jobVars, scanVars>>

\* With no job it returns at once: nothing to cancel, a quit goes on.
QuitWithoutJob(c) ==
  /\ alive
  /\ handler[c].op = "idle"
  /\ job = NoScan
  /\ handler' = [handler EXCEPT ![c] = [Idle EXCEPT !.op = "reply"]]
  /\ UNCHANGED <<procVars, jobVars, scanVars>>

\* The request is over: a cancel replies, a quit still has to schedule the exit.
Served(c) ==
  handler' = [handler EXCEPT ![c] = IF @.quit THEN [@ EXCEPT !.op = "reply"] ELSE Idle]

\* It reads busy and cancel under job.mu.
StopChecksBusy(c) ==
  /\ alive
  /\ handler[c].op = "check"
  /\ IF jobs[handler[c].seen].busy
     THEN handler' = [handler EXCEPT ![c].op = "fire"]
     ELSE Served(c)
  /\ UNCHANGED <<procVars, jobVars, scanVars>>

\* Mutant of StopCancels: cancels the job that is current now.
StopCancelsCurrent(c) ==
  /\ alive
  /\ handler[c].op = "fire"
  /\ ctx' = [ctx EXCEPT ![job] = "stopped"]
  /\ handler' = [handler EXCEPT ![c].op = "note"]
  /\ UNCHANGED <<procVars, jobVars, pc, pend, tgt, scan>>

\* Mutant of StopCancels: frees the slot at once.
StopCancelsAndFrees(c) ==
  /\ alive
  /\ handler[c].op = "fire"
  /\ ctx' = [ctx EXCEPT ![handler[c].seen] = "stopped"]
  /\ jobs' = [jobs EXCEPT ![handler[c].seen].busy = FALSE]
  /\ handler' = [handler EXCEPT ![c].op = "note"]
  /\ UNCHANGED <<procVars, created, job, pc, pend, tgt, scan>>

\* It calls cancel() with no lock held.
StopCancels(c) ==
  /\ alive
  /\ handler[c].op = "fire"
  /\ ctx' = [ctx EXCEPT ![handler[c].seen] = "stopped"]
  /\ handler' = [handler EXCEPT ![c].op = "note"]
  /\ UNCHANGED <<procVars, jobVars, pc, pend, tgt, scan>>

\* note("Cancel requested") reads b.job anew ...
StopNoteReadsJob(c) ==
  /\ alive
  /\ handler[c].op = "note"
  /\ IF job = NoScan
     THEN Served(c)
     ELSE handler' = [handler EXCEPT ![c] = [@ EXCEPT !.op = "write", !.seen = job]]
  /\ UNCHANGED <<procVars, jobVars, scanVars>>

\* ... and writes to it.
StopNoteWrites(c) ==
  /\ alive
  /\ handler[c].op = "write"
  /\ jobs' = [jobs EXCEPT ![handler[c].seen] = Noted(@, "Cancel requested", handler[c].asOf)]
  /\ Served(c)
  /\ UNCHANGED <<procVars, created, job, scanVars>>

\* handleQuit replies and starts the 200 ms timer.
QuitReplies(c) ==
  /\ alive
  /\ handler[c].op = "reply"
  /\ quitting' = TRUE
  /\ handler' = [handler EXCEPT ![c] = Idle]
  /\ UNCHANGED <<alive, jobVars, scanVars>>

\* Shutdown makes Serve return, and main with it: goroutines, requests and job
\* records are gone, whatever they were doing.
ProcessExits ==
  /\ alive
  /\ quitting
  /\ alive' = FALSE
  /\ job' = NoScan
  /\ jobs' = [j \in Scans |-> NoJob]
  /\ ctx' = [j \in Scans |-> "none"]
  /\ pc' = [j \in Scans |-> IF j <= created THEN "end" ELSE "unused"]
  /\ pend' = [j \in Scans |-> Quiet]
  /\ tgt' = [j \in Scans |-> NoScan]
  /\ scan' = [j \in Scans |-> NewScan]
  /\ handler' = [c \in Clients |-> Idle]
  /\ UNCHANGED <<quitting, created>>

\* The technician opens MechMind Bay again: a process with no job.
ProcessStarts ==
  /\ ~alive
  /\ alive' = TRUE
  /\ quitting' = FALSE
  /\ UNCHANGED <<jobVars, scanVars, handler>>
-----------------------------------------------------------------------------
Runner(j) ==
  \/ NoteReadsJob(j) \/ NoteWrites(j)
  \/ Open(j) \/ Identify(j) \/ ReadDTCs(j) \/ FreezeNext(j) \/ Sample(j) \/ Park(j)
  \/ Fail(j) \/ Verdict(j) \/ Upload(j) \/ ExplainNext(j) \/ ExplainReturns(j)
  \/ FinishJob(j) \/ Returns(j)

StopRequest(c) ==
  \/ \E quit \in BOOLEAN : StopReadsJob(c, quit)
  \/ QuitWithoutJob(c)
  \/ StopChecksBusy(c) \/ StopCancels(c)
  \/ StopNoteReadsJob(c) \/ StopNoteWrites(c)
  \/ QuitReplies(c)

Next ==
  \/ \E mock \in BOOLEAN : HandleScan(mock)
  \/ \E j \in Scans : Runner(j) \/ BudgetExpires(j)
  \/ \E c \in Clients : StopRequest(c)
  \/ ProcessExits
  \/ ProcessStarts

Spec == Init /\ [][Next]_vars

\* Go runs every goroutine, and each adapter or API call of a scan is bounded by
\* a timer of its own (commandWait, the 12 s open limit, the HTTP client's 45 s),
\* so a scan that can take a step takes one.  Nothing obliges a user to act.
FairSpec == Spec /\ \A j \in Scans : WF_vars(Runner(j))
-----------------------------------------------------------------------------
(* Properties *)

Lines == [text : Phases, by : Scans]

Errors == {"none", "adapter", "stopped", "vin"}

JobRecords ==
  [ busy : BOOLEAN, done : BOOLEAN, phase : Phases, log : Seq(Lines),
    err : Errors, result : {"none", "uploaded", "uploadError"} ]

ScanValues ==
  [ mock : BOOLEAN, vin : {"none", "mock", "ecu"}, codes : 0..MaxCodes,
    left : 0..MaxCodes, ok : BOOLEAN, err : Errors ]

\* A request past its first read holds a job.
Requests ==
  { h \in [ op : {"idle", "check", "fire", "note", "write", "reply"},
            seen : {NoScan} \cup Scans, asOf : {NoScan} \cup Scans, quit : BOOLEAN ] :
      h.op \in {"check", "fire", "note", "write"} => h.seen # NoScan /\ h.asOf # NoScan }

\* Every variable keeps its type, and a job keeps at most LogCap lines.
TypeOK ==
  /\ alive \in BOOLEAN /\ quitting \in BOOLEAN
  /\ created \in 0..MaxScans
  /\ job \in {NoScan} \cup Scans
  /\ jobs \in [Scans -> JobRecords]
  /\ \A j \in Scans : Len(jobs[j].log) <= LogCap
  /\ ctx \in [Scans -> {"none", "live", "stopped"}]
  /\ pc \in [Scans -> RunnerPCs]
  /\ pend \in [Scans -> Phases \cup {Quiet}]
  /\ tgt \in [Scans -> {NoScan} \cup Scans]
  /\ scan \in [Scans -> ScanValues]
  /\ handler \in [Clients -> Requests]

\* Two scans never drive adapters at once, and the one that runs is the one the
\* Scan and Cancel buttons reach: however the handlers interleave, a goroutine
\* between its start and finishJob belongs to the current job, which is busy.
OneScanAtATime ==
  \A j \in Scans : Active(j) => j = job /\ jobs[j].busy

\* The inductive form of OneScanAtATime: busy, the goroutine and its pending line
\* go together, a note in progress has read its own job, requests hold real jobs.
SlotInv ==
  /\ OneScanAtATime
  /\ job <= created
  /\ \A j \in Scans :
       /\ j > created => pc[j] = "unused"
       /\ jobs[j].busy => Active(j)
       /\ pend[j] # Quiet => Active(j)
       /\ tgt[j] # NoScan => tgt[j] = j /\ pend[j] # Quiet
       /\ pend[j] # "Cancel requested"
       /\ ~alive => ~Active(j)
  /\ \A c \in Clients :
       handler[c].op \in {"check", "fire"} => handler[c].seen = handler[c].asOf

\* The goroutine of a scan reports into its own job although note() looks the
\* job up again at every line: no line of an older scan reaches a newer one.
LinesAreOwn ==
  \A j \in Scans : \A k \in DOMAIN jobs[j].log :
    jobs[j].log[k].text # "Cancel requested" => jobs[j].log[k].by = j

\* A job that is over has one outcome, an error or a result, and one that is not
\* over shows none, however stop requests, notes and the goroutine interleave; the
\* context of a job that is over lives only until its goroutine has returned.
OverMeansOutcome ==
  \A j \in Scans :
    /\ jobs[j].done => (jobs[j].err = "none") # (jobs[j].result = "none")
    /\ ~jobs[j].done => jobs[j].err = "none" /\ jobs[j].result = "none"
    /\ jobs[j].done /\ ~Stopped(j) => pc[j] = "return"

\* The inductive form of OverMeansOutcome: a job is over from finishJob on, and a
\* goroutine goes there with an error exactly when it failed.
OutcomeInv ==
  /\ OverMeansOutcome
  /\ \A j \in Scans :
       /\ jobs[j].done => pc[j] \in {"return", "end"}
       /\ Active(j) => (scan[j].err = "none" <=> pc[j] # "failFinish")
       /\ j <= created => pc[j] # "unused"

\* A cancel or quit that came in while an earlier scan was current never stops a
\* scan started after it, though it calls cancel() long after its two reads.
CancelSparesLaterScans ==
  [][\A c \in Clients, j \in Scans :
       (handler[c].op = "fire" /\ handler'[c].op = "note" /\ ctx'[j] # ctx[j])
          => j = handler[c].asOf]_vars

\* Every scan that starts is over in the end, its goroutine has returned and its
\* context is released, whatever the adapter, the API and the other requests do;
\* the exit of the process is such an end too.
ScanEnds ==
  \A j \in Scans :
    (pc[j] = "open") ~> (pc[j] = "end" /\ ~jobs[j].busy /\ ctx[j] # "live")

\* The manager implements the one-slot specification.
Slot == INSTANCE ScanSlot WITH
  running <- IF Busy THEN job ELSE NoScan,
  outcome <- [j \in Scans |->
                IF pc[j] = "unused" THEN "unused"
                ELSE IF jobs[j].busy THEN "pending"
                ELSE IF ~jobs[j].done THEN "gone"
                ELSE IF jobs[j].err # "none" THEN "failed" ELSE "done"]

ImplementsSlot == Slot!Spec
=============================================================================
