------------------------------ MODULE BayPage ------------------------------
(***************************************************************************)
(* The page of the bay (cmd/bayui/web/index.html) and the scan job it      *)
(* watches.  JavaScript runs one callback at a time; between a request and *)
(* its answer the user clicks, the interval fires and other answers come   *)
(* in, in any order.  The answer of /local/scan/status is a picture of the *)
(* job from when it was asked, that of /local/state from before the bay    *)
(* asked the API who is signed in.                                         *)
(*                                                                         *)
(* The page does not know the numbers of scans: in shown, told and the     *)
(* answers they only tell scans apart.                                     *)
(*                                                                         *)
(* A click on "Cancel scan" changes nothing here: what it does to the scan *)
(* is in BayJobs.  Any scan may end at any time, and any request may fail. *)
(***************************************************************************)
EXTENDS Integers, FiniteSets

CONSTANTS
  Fetches,  \* bound: requests of the page under way at once
  MaxScans  \* bound: scans that are started

ASSUME PageAssumption == MaxScans \in Nat

VARIABLES
  job,       \* server: scans started so far; the last one is the current job
  busy,      \* server: job.busy
  calls,     \* requests under way
  timer,     \* pollTimer is set: the interval runs
  scanning,  \* scanning: the button says "Cancel scan"
  shown,     \* what the stage shows, and of which scan
  told,      \* the last scan this page had a 202 for
  orderly    \* no answer had a chance to overtake another one, see Orderly below

pageVars == <<job, busy, calls, timer, scanning, shown, told, orderly>>

Scans == 0..MaxScans

Free == [kind |-> "none", pc |-> "sent", busy |-> FALSE, job |-> 0]

Sent(kind) == [Free EXCEPT !.kind = kind]

\* A page that is loaded, before or during a scan, asks for the state at once.
PageInit ==
  /\ job \in Scans
  /\ busy \in BOOLEAN /\ (busy => job > 0)
  /\ \E i \in Fetches : calls = [k \in Fetches |-> IF k = i THEN Sent("state") ELSE Free]
  /\ timer = FALSE
  /\ scanning = FALSE
  /\ shown = [what |-> "empty", job |-> 0]
  /\ told = 0
  /\ orderly = TRUE
-----------------------------------------------------------------------------
(* The server *)

\* The current job, when there is one, and a refusal otherwise: a scan is running,
\* nobody is signed in, or there is no adapter.
Answers(i) ==
  /\ calls[i].kind # "none" /\ calls[i].pc = "sent"
  /\ IF calls[i].kind = "scan"
     THEN \/ /\ ~busy /\ job < MaxScans
             /\ job' = job + 1 /\ busy' = TRUE
             /\ calls' = [calls EXCEPT ![i].pc = "ok", ![i].job = job + 1]
          \/ /\ calls' = [calls EXCEPT ![i].pc = "refused"]
             /\ UNCHANGED <<job, busy>>
     ELSE /\ calls' = [calls EXCEPT ![i].pc = "ok", ![i].busy = busy, ![i].job = job]
          /\ UNCHANGED <<job, busy>>
  /\ UNCHANGED <<timer, scanning, shown, told, orderly>>

\* finishJob.
JobEnds ==
  /\ busy
  /\ busy' = FALSE
  /\ UNCHANGED <<job, calls, timer, scanning, shown, told, orderly>>

\* A scan that is started from another tab.
OtherTabScans ==
  /\ ~busy
  /\ job < MaxScans
  /\ job' = job + 1
  /\ busy' = TRUE
  /\ UNCHANGED <<calls, timer, scanning, shown, told, orderly>>
-----------------------------------------------------------------------------
(* The page *)

UnderWay(kind) == { i \in Fetches : calls[i].kind = kind }

\* Two status requests at once, a scan beside any other question, or a sign-out during
\* a scan: from here on the page may be wrong.
NewPoll(kept) == orderly /\ UnderWay("poll") \ kept = {}

NewScan == orderly /\ UnderWay("poll") \cup UnderWay("state") \cup UnderWay("out") = {}

Server == <<job, busy>>

\* The interval, every 400 ms.
TimerFires ==
  /\ timer
  /\ \E i \in UnderWay("none") : calls' = [calls EXCEPT ![i] = Sent("poll")]
  /\ orderly' = NewPoll({})
  /\ UNCHANGED <<Server, timer, scanning, shown, told>>

\* Mutant of PollOver: the interval goes on when a scan failed.
PollOverLeavesTimer(i) ==
  /\ timer' \in {timer, FALSE}
  /\ scanning' = FALSE
  /\ shown' = IF calls[i].job = 0 THEN shown ELSE [what |-> "outcome", job |-> calls[i].job]

\* Mutant of PollOver: the outcome of a failed scan is not shown.
PollOverHidesFailure(i) ==
  /\ timer' = FALSE
  /\ scanning' = FALSE
  /\ \/ shown' = shown
     \/ calls[i].job # 0 /\ shown' = [what |-> "outcome", job |-> calls[i].job]

\* stopPoll, and the error or the result.
PollOver(i) ==
  /\ timer' = FALSE
  /\ scanning' = FALSE
  /\ shown' = IF calls[i].job = 0 THEN shown ELSE [what |-> "outcome", job |-> calls[i].job]

\* pollScan, after its await.
PollReturns(i) ==
  /\ calls[i].kind = "poll" /\ calls[i].pc = "ok"
  /\ calls' = [calls EXCEPT ![i] = Free]
  /\ IF calls[i].busy
     THEN /\ shown' = [what |-> "progress", job |-> calls[i].job]
          /\ UNCHANGED <<timer, scanning>>
     ELSE PollOver(i)
  /\ UNCHANGED <<Server, told, orderly>>

\* startPoll: a new interval and a status request at once, here in place of call i.
StartPoll(i) ==
  /\ timer' = TRUE
  /\ calls' = [calls EXCEPT ![i] = Sent("poll")]
  /\ orderly' = NewPoll({i})

\* Mutant of ClicksScan: the button changes with the answer only.
ClicksScanLate ==
  /\ ~scanning
  /\ \E i \in UnderWay("none") : calls' = [calls EXCEPT ![i] = Sent("scan")]
  /\ orderly' = NewScan
  /\ UNCHANGED <<Server, timer, scanning, shown, told>>

\* btn-scan; with scanning it is a cancel.
ClicksScan ==
  /\ ~scanning
  /\ scanning' = TRUE
  /\ \E i \in UnderWay("none") : calls' = [calls EXCEPT ![i] = Sent("scan")]
  /\ orderly' = NewScan
  /\ UNCHANGED <<Server, timer, shown, told>>

\* Mutant of ScanReturns: the scan is not watched.
ScanReturnsUnwatched(i) ==
  /\ calls[i].kind = "scan" /\ calls[i].pc \in {"ok", "refused"}
  /\ calls' = [calls EXCEPT ![i] = Free]
  /\ IF calls[i].pc = "ok"
     THEN told' = calls[i].job /\ UNCHANGED scanning
     ELSE scanning' = FALSE /\ UNCHANGED told
  /\ UNCHANGED <<Server, timer, shown, orderly>>

\* btn-scan, after its await: 202, or an error.
ScanReturns(i) ==
  /\ calls[i].kind = "scan" /\ calls[i].pc \in {"ok", "refused"}
  /\ IF calls[i].pc = "ok"
     THEN /\ told' = calls[i].job
          /\ StartPoll(i)
          /\ UNCHANGED scanning
     ELSE /\ scanning' = FALSE
          /\ calls' = [calls EXCEPT ![i] = Free]
          /\ UNCHANGED <<told, timer, orderly>>
  /\ UNCHANGED <<Server, shown>>

\* refresh: a click on "Refresh ports", or after a login.
Refreshes ==
  /\ \E i \in UnderWay("none") : calls' = [calls EXCEPT ![i] = Sent("state")]
  /\ orderly' = (orderly /\ UnderWay("scan") = {})
  /\ UNCHANGED <<Server, timer, scanning, shown, told>>

\* refresh, after its await.
StateReturns(i) ==
  /\ calls[i].kind = "state" /\ calls[i].pc = "ok"
  /\ IF calls[i].busy
     THEN scanning' = TRUE /\ StartPoll(i)
     ELSE /\ calls' = [calls EXCEPT ![i] = Free]
          /\ UNCHANGED <<timer, scanning, orderly>>
  /\ UNCHANGED <<Server, shown, told>>

\* btn-out: the interval stops, and refresh may start it again.
ClicksOut ==
  /\ timer' = FALSE
  /\ \E i \in UnderWay("none") : calls' = [calls EXCEPT ![i] = Sent("out")]
  /\ orderly' = (orderly /\ ~scanning)
  /\ UNCHANGED <<Server, scanning, shown, told>>

OutReturns(i) ==
  /\ calls[i].kind = "out" /\ calls[i].pc = "ok"
  /\ calls' = [calls EXCEPT ![i] = Sent("state")]
  /\ UNCHANGED <<Server, timer, scanning, shown, told, orderly>>

\* A request fails, before or after it was served: a scan gives its button back, the
\* others only flash.
CallFails(i) ==
  /\ calls[i].kind # "none"
  /\ calls' = [calls EXCEPT ![i] = Free]
  /\ scanning' = (scanning /\ calls[i].kind # "scan")
  /\ UNCHANGED <<Server, timer, shown, told, orderly>>
-----------------------------------------------------------------------------
Returns(i) == PollReturns(i) \/ ScanReturns(i) \/ StateReturns(i) \/ OutReturns(i)

PageNext ==
  \/ JobEnds \/ OtherTabScans
  \/ TimerFires \/ ClicksScan \/ Refreshes \/ ClicksOut
  \/ \E i \in Fetches : Answers(i) \/ Returns(i) \/ CallFails(i)

PageSpec == PageInit /\ [][PageNext]_pageVars

\* The bay answers, every scan ends (BayJobs), the interval fires again and again, and
\* polls do not fail for ever: some are answered, and some of the answers get through.
FairSpec ==
  /\ PageSpec
  /\ WF_pageVars(JobEnds)
  /\ SF_pageVars(TimerFires)
  /\ \A i \in Fetches : WF_pageVars(Answers(i)) /\ WF_pageVars(Returns(i))
  /\ SF_pageVars(\E i \in UnderWay("poll") : Answers(i))
  /\ SF_pageVars(\E i \in Fetches : PollReturns(i))
-----------------------------------------------------------------------------
(* Properties *)

\* Every variable keeps its type, and only a scan that was started is shown.
PageTypeOK ==
  /\ job \in Scans
  /\ busy \in BOOLEAN
  /\ calls \in [Fetches -> [ kind : {"none", "poll", "scan", "state", "out"},
                           pc : {"sent", "ok", "refused"}, busy : BOOLEAN, job : Scans ]]
  /\ timer \in BOOLEAN
  /\ scanning \in BOOLEAN
  /\ shown \in [what : {"empty", "progress", "outcome"}, job : 0..job]
  /\ told \in 0..job
  /\ orderly \in BOOLEAN

\* While a scan runs that the page has started the button says "Cancel scan", and the
\* button and the interval go together: the page asks for the status if and only if it
\* says so, but for the time a request for a scan is under way; as long as no answer
\* could overtake another.
ButtonFollows ==
  orderly => /\ busy /\ job = told => scanning
             /\ timer => scanning
             /\ scanning => timer \/ UnderWay("scan") # {}

\* The outcome of a scan the page has started is on the stage, or that of a later
\* scan, once the page is at rest.
NothingMissed ==
  (orderly /\ ~timer /\ ~scanning /\ told # 0)
     => shown.what = "outcome" /\ shown.job >= told

\* The inductive form of the two above.  A status request belongs to the interval and is
\* alone; so is a request for a scan, beside which nobody asks for anything else.
OneAsks ==
  /\ \A i, k \in UnderWay("poll") : i = k
  /\ UnderWay("poll") # {} => timer
  /\ \A i, k \in UnderWay("scan") : i = k
  /\ UnderWay("scan") # {} => scanning /\ ~timer
  /\ UnderWay("scan") # {} => UnderWay("state") = {} /\ UnderWay("out") = {}

\* The answer to a poll is of the last scan the page has started or of a later one, and
\* a scan that it says is over does not run again.
PollsAreRecent ==
  \A i \in UnderWay("poll") : calls[i].pc = "ok" =>
    /\ calls[i].job >= told
    /\ ~calls[i].busy => ~(busy /\ job = calls[i].job)

\* While the button is not at "Cancel scan", or is so for a request only, the page's last
\* scan is over and shown, or a later one is.
AtRest ==
  ~scanning \/ UnderWay("scan") # {} =>
    /\ ~(busy /\ job = told)
    /\ told # 0 => shown.what = "outcome" /\ shown.job >= told

PageInv ==
  /\ busy => job > 0
  /\ \A i \in Fetches : calls[i].job <= job
  /\ orderly => /\ OneAsks
                /\ PollsAreRecent
                /\ timer => scanning
                /\ scanning => timer \/ UnderWay("scan") # {}
                /\ AtRest

\* The outcome of every scan a page has started reaches its stage.
OutcomeIsShown ==
  [](orderly) => \A n \in 1..MaxScans :
                    (told = n) ~> (shown.what = "outcome" /\ shown.job >= n)

\* The page stops asking after every scan, in whatever order the answers come.
PollsEnd == timer ~> ~timer
=============================================================================
