--------------------------- MODULE BayTabsProofs ---------------------------
(***************************************************************************)
(* What the tabs of the bay see: the session (BaySession), for any number  *)
(* of tabs, APIs, users, logins and starts, and the page (BayPage), for    *)
(* any number of requests under way and of scans.                          *)
(*                                                                         *)
(* Inv is inductive for the session: a handler that saves undisturbed is   *)
(* the only one that saves and has what the memory has.                    *)
(*                                                                         *)
(* PInv is inductive for the page.  ButtonFollows and NothingMissed are    *)
(* not: they say nothing of the answers that are still under way, and it   *)
(* takes AtRest to know that a refused request for a scan gives back a     *)
(* button and a stage that are right.                                      *)
(***************************************************************************)
EXTENDS BaySession, BayPage, TLAPS
-----------------------------------------------------------------------------
(* The page *)

\* The records of the requests.
PageRecs == [ kind : {"none", "poll", "scan", "state", "out"},
              pc : {"sent", "ok", "refused"}, busy : BOOLEAN, job : Scans ]

PInv == PageTypeOK /\ PageInv

\* A request that is sent, of any of the four kinds.
LEMMA SentIs ==
  ASSUME MaxScans \in Nat, NEW kind \in {"poll", "scan", "state", "out"}
  PROVE  /\ Sent(kind) \in PageRecs /\ Free \in PageRecs
         /\ Sent(kind).kind = kind /\ Sent(kind).pc = "sent" /\ Sent(kind).job = 0
         /\ Free.kind = "none" /\ Free.pc = "sent" /\ Free.job = 0
<1>1. Free \in PageRecs /\ Free.kind = "none" /\ Free.pc = "sent" /\ Free.job = 0
  BY DEF Free, PageRecs, Scans
<1>2. LET g == [Free EXCEPT !.kind = kind] IN
        g \in PageRecs /\ g.kind = kind /\ g.pc = "sent" /\ g.job = 0
  BY <1>1 DEF PageRecs
<1> QED BY <1>1, <1>2 DEF Sent

\* One request changes, and the others are what they were.
LEMMA OneCall ==
  ASSUME PageTypeOK, NEW i \in Fetches, NEW r \in PageRecs, calls' = [calls EXCEPT ![i] = r]
  PROVE  /\ calls' \in [Fetches -> PageRecs]
         /\ calls'[i] = r
         /\ \A k \in Fetches : k # i => calls'[k] = calls[k]
         /\ \A k \in Fetches : calls[k] \in PageRecs
BY DEF PageTypeOK, PageRecs

\* A request with its answer: the job, or the number of the new scan.
Answered(r, b, n) == [r EXCEPT !.pc = "ok", !.busy = b, !.job = n]

Accepted(r, n) == [r EXCEPT !.pc = "ok", !.job = n]

\* What an answer makes of a request.
LEMMA AnswerIs ==
  ASSUME NEW r \in PageRecs, NEW b \in BOOLEAN, NEW n \in Scans
  PROVE  /\ LET g == Answered(r, b, n) IN
              g \in PageRecs /\ g.kind = r.kind /\ g.job = n /\ g.busy = b
         /\ LET g == [r EXCEPT !.pc = "refused"] IN
              g \in PageRecs /\ g.kind = r.kind /\ g.job = r.job
         /\ LET g == Accepted(r, n) IN
              g \in PageRecs /\ g.kind = r.kind /\ g.job = n
BY DEF PageRecs, Answered, Accepted

\* A page that is loaded asks for the state and for nothing else.
LEMMA PageInitOK == PageInit => PInv
<1> SUFFICES ASSUME PageInit PROVE PInv
  OBVIOUS
<1>1. PICK i \in Fetches : calls = [k \in Fetches |-> IF k = i THEN Sent("state") ELSE Free]
  BY DEF PageInit
<1>2. \A k \in Fetches : /\ calls[k] \in PageRecs /\ calls[k].job = 0 /\ calls[k].pc = "sent"
                         /\ calls[k].kind \in {"state", "none"}
  BY <1>1, PageAssumption, SentIs, Zenon DEF PageAssumption
<1>3. calls \in [Fetches -> PageRecs]
  BY <1>1, <1>2
<1>4. PageTypeOK
  <2>1. job \in Nat /\ 0 \in 0..job
    BY PageAssumption DEF PageInit, Scans, PageAssumption
  <2>2. shown \in [what : {"empty", "progress", "outcome"}, job : 0..job]
    BY <2>1 DEF PageInit
  <2> QED BY <1>3, <2>1, <2>2 DEF PageInit, PageTypeOK, PageRecs
<1>5. PageInv
  BY <1>2, PageAssumption
     DEF PageInit, PageInv, OneAsks, PollsAreRecent, AtRest, UnderWay, PageAssumption, Scans
<1> QED BY <1>4, <1>5 DEF PInv

\* An answer is of the last job, and a new scan is later than the one the page knows.
LEMMA AnswersKeeps == ASSUME PInv, NEW i \in Fetches, Answers(i) PROVE PInv'
<1> USE PageAssumption DEF PageAssumption
<1>1. calls[i] \in PageRecs /\ busy \in BOOLEAN /\ job \in Scans /\ job \in Nat
  BY DEF PInv, PageTypeOK, PageRecs, Scans
<1>2. UNCHANGED <<timer, scanning, shown, told, orderly>>
  BY DEF Answers
<1>3. CASE calls[i].kind = "scan" /\ ~busy /\ job < MaxScans /\ job' = job + 1 /\ busy' = TRUE
           /\ calls' = [calls EXCEPT ![i].pc = "ok", ![i].job = job + 1]
  <2> DEFINE r == Accepted(calls[i], job + 1)
  <2>1. job + 1 \in Scans
    BY <1>1, <1>3 DEF Scans
  <2>2. calls' = [calls EXCEPT ![i] = r]
    BY <1>1, <1>3 DEF Accepted
  <2>3. r \in PageRecs /\ r.kind = calls[i].kind /\ r.job = job + 1
    BY <1>1, <1>3, <2>1, AnswerIs, Zenon
  <2> HIDE DEF r
  <2>4. /\ calls' \in [Fetches -> PageRecs]
        /\ calls'[i] = r
        /\ \A k \in Fetches : k # i => calls'[k] = calls[k]
    BY <2>2, <2>3, OneCall DEF PInv
  <2>5. PageTypeOK'
    BY <1>1, <1>2, <1>3, <2>1, <2>4 DEF PInv, PageTypeOK, PageRecs, Scans
  <2>6. PageInv'
    BY <1>1, <1>2, <1>3, <2>3, <2>4
       DEF PInv, PageTypeOK, PageInv, OneAsks, PollsAreRecent, AtRest, UnderWay, Scans
  <2> QED BY <2>5, <2>6 DEF PInv
<1>4. CASE calls' = [calls EXCEPT ![i].pc = "refused"] /\ UNCHANGED <<job, busy>>
           /\ calls[i].kind = "scan"
  <2> DEFINE r == [calls[i] EXCEPT !.pc = "refused"]
  <2>2. calls' = [calls EXCEPT ![i] = r]
    BY <1>1, <1>4
  <2>3. r \in PageRecs /\ r.kind = calls[i].kind /\ r.job = calls[i].job
    BY <1>1, <1>4, AnswerIs, Zenon
  <2> HIDE DEF r
  <2>4. /\ calls' \in [Fetches -> PageRecs]
        /\ calls'[i] = r
        /\ \A k \in Fetches : k # i => calls'[k] = calls[k]
    BY <2>2, <2>3, OneCall DEF PInv
  <2>5. PageTypeOK'
    BY <1>1, <1>2, <1>4, <2>4 DEF PInv, PageTypeOK, PageRecs, Scans
  <2>6. PageInv'
    BY <1>1, <1>2, <1>4, <2>3, <2>4
       DEF PInv, PageTypeOK, PageInv, OneAsks, PollsAreRecent, AtRest, UnderWay, Scans
  <2> QED BY <2>5, <2>6 DEF PInv
<1>5. CASE calls[i].kind # "scan" /\ UNCHANGED <<job, busy>>
           /\ calls' = [calls EXCEPT ![i].pc = "ok", ![i].busy = busy, ![i].job = job]
  <2> DEFINE r == Answered(calls[i], busy, job)
  <2>2. calls' = [calls EXCEPT ![i] = r]
    BY <1>1, <1>5 DEF Answered
  <2>3. r \in PageRecs /\ r.kind = calls[i].kind /\ r.job = job /\ r.busy = busy
    BY <1>1 DEF Answered, PageRecs
  <2> HIDE DEF r
  <2>4. /\ calls' \in [Fetches -> PageRecs]
        /\ calls'[i] = r
        /\ \A k \in Fetches : k # i => calls'[k] = calls[k]
    BY <2>2, <2>3, OneCall DEF PInv
  <2>5. PageTypeOK'
    BY <1>1, <1>2, <1>5, <2>4 DEF PInv, PageTypeOK, PageRecs, Scans
  <2>6. PageInv'
    BY <1>1, <1>2, <1>5, <2>3, <2>4
       DEF PInv, PageTypeOK, PageInv, OneAsks, PollsAreRecent, AtRest, UnderWay, Scans
  <2> QED BY <2>5, <2>6 DEF PInv
<1> QED BY <1>3, <1>4, <1>5 DEF Answers

\* A request is sent, or is over: what is under way then.
LEMMA NewCall ==
  ASSUME PInv, NEW i \in Fetches, NEW kind \in {"none", "poll", "scan", "state", "out"},
         calls' = [calls EXCEPT ![i] = IF kind = "none" THEN Free ELSE Sent(kind)]
  PROVE  /\ calls' \in [Fetches -> PageRecs]
         /\ calls'[i].kind = kind /\ calls'[i].pc = "sent" /\ calls'[i].job = 0
         /\ \A k \in Fetches : k # i => calls'[k] = calls[k]
         /\ calls[i] \in PageRecs
<1> DEFINE r == IF kind = "none" THEN Free ELSE Sent(kind)
<1>1. r \in PageRecs /\ r.kind = kind /\ r.pc = "sent" /\ r.job = 0
  <2>1. CASE kind = "none"
    BY <2>1, SentIs, PageAssumption, Zenon DEF PageAssumption
  <2>2. CASE kind # "none"
    BY <2>2, SentIs, PageAssumption, Zenon DEF PageAssumption
  <2> QED BY <2>1, <2>2
<1>2. calls' = [calls EXCEPT ![i] = r]
  OBVIOUS
<1> HIDE DEF r
<1>3. /\ calls' \in [Fetches -> PageRecs]
      /\ calls'[i] = r
      /\ \A k \in Fetches : k # i => calls'[k] = calls[k]
      /\ calls[i] \in PageRecs
  BY <1>1, <1>2, OneCall DEF PInv
<1> QED BY <1>1, <1>3

\* The end of a scan takes nothing from the page: its answers stay right.
LEMMA JobEndsKeeps == ASSUME PInv, JobEnds PROVE PInv'
<1>1. PageTypeOK'
  BY DEF PInv, PageTypeOK, JobEnds, Scans
<1>2. PageInv'
  BY DEF PInv, PageTypeOK, PageInv, OneAsks, PollsAreRecent, AtRest, UnderWay, JobEnds
<1> QED BY <1>1, <1>2 DEF PInv

\* The scan of another tab is later than the page's own.
LEMMA OtherTabScansKeeps == ASSUME PInv, OtherTabScans PROVE PInv'
<1> USE PageAssumption DEF PageAssumption
<1>1. PageTypeOK'
  BY DEF PInv, PageTypeOK, OtherTabScans, Scans
<1>2. \A k \in Fetches : calls[k].job \in Nat
  BY DEF PInv, PageTypeOK, Scans
<1>3. PageInv'
  BY <1>2 DEF PInv, PageTypeOK, PageInv, OneAsks, PollsAreRecent, AtRest, UnderWay,
     OtherTabScans, Scans
<1> QED BY <1>1, <1>3 DEF PInv

\* The interval sends one poll, and the order holds if there was none.
LEMMA TimerFiresKeeps == ASSUME PInv, TimerFires PROVE PInv'
<1> USE PageAssumption DEF PageAssumption
<1>1. PICK i \in Fetches : calls[i].kind = "none" /\ calls' = [calls EXCEPT ![i] = Sent("poll")]
  BY DEF TimerFires, UnderWay
<1>2. /\ calls' \in [Fetches -> PageRecs]
      /\ calls'[i].kind = "poll" /\ calls'[i].pc = "sent" /\ calls'[i].job = 0
      /\ \A k \in Fetches : k # i => calls'[k] = calls[k]
      /\ calls[i] \in PageRecs
  BY <1>1, NewCall
<1>3. PageTypeOK'
  BY <1>2 DEF PInv, PageTypeOK, PageRecs, TimerFires, NewPoll, Server
<1>4. /\ timer /\ UNCHANGED <<timer, scanning>>
      /\ orderly' => orderly /\ \A k \in Fetches : calls[k].kind # "poll"
  BY DEF TimerFires, NewPoll, PInv, PageInv, OneAsks, UnderWay
<1>5. UNCHANGED <<job, busy, shown, told>>
  BY DEF TimerFires, Server
<1>6. PageInv'
  BY <1>1, <1>2, <1>4, <1>5 DEF PInv, PageTypeOK, PageRecs, PageInv, OneAsks, PollsAreRecent,
     AtRest, UnderWay, Scans
<1> QED BY <1>3, <1>6 DEF PInv

\* The button is free: the last scan is over and shown, and stays so for this request.
LEMMA ClicksScanKeeps == ASSUME PInv, ClicksScan PROVE PInv'
<1> USE PageAssumption DEF PageAssumption
<1>1. PICK i \in Fetches : calls[i].kind = "none" /\ calls' = [calls EXCEPT ![i] = Sent("scan")]
  BY DEF ClicksScan, UnderWay
<1>2. /\ calls' \in [Fetches -> PageRecs]
      /\ calls'[i].kind = "scan" /\ calls'[i].pc = "sent" /\ calls'[i].job = 0
      /\ \A k \in Fetches : k # i => calls'[k] = calls[k]
      /\ calls[i] \in PageRecs
  BY <1>1, NewCall
<1>3. PageTypeOK'
  BY <1>2 DEF PInv, PageTypeOK, PageRecs, ClicksScan, NewScan, Server
<1>4. PageInv'
  BY <1>1, <1>2 DEF PInv, PageTypeOK, PageRecs, PageInv, OneAsks, PollsAreRecent, AtRest, UnderWay,
     Scans, ClicksScan, NewScan, Server
<1> QED BY <1>3, <1>4 DEF PInv

\* A question for the state beside no request for a scan.
LEMMA RefreshesKeeps == ASSUME PInv, Refreshes PROVE PInv'
<1> USE PageAssumption DEF PageAssumption
<1>1. PICK i \in Fetches : calls[i].kind = "none" /\ calls' = [calls EXCEPT ![i] = Sent("state")]
  BY DEF Refreshes, UnderWay
<1>2. /\ calls' \in [Fetches -> PageRecs]
      /\ calls'[i].kind = "state" /\ calls'[i].pc = "sent" /\ calls'[i].job = 0
      /\ \A k \in Fetches : k # i => calls'[k] = calls[k]
      /\ calls[i] \in PageRecs
  BY <1>1, NewCall
<1>3. PageTypeOK'
  BY <1>2 DEF PInv, PageTypeOK, PageRecs, Refreshes, Server
<1>4. PageInv'
  BY <1>1, <1>2 DEF PInv, PageTypeOK, PageRecs, PageInv, OneAsks, PollsAreRecent, AtRest, UnderWay,
     Scans, Refreshes, Server
<1> QED BY <1>3, <1>4 DEF PInv

\* A sign-out stops an interval that does not run.
LEMMA ClicksOutKeeps == ASSUME PInv, ClicksOut PROVE PInv'
<1> USE PageAssumption DEF PageAssumption
<1>1. PICK i \in Fetches : calls[i].kind = "none" /\ calls' = [calls EXCEPT ![i] = Sent("out")]
  BY DEF ClicksOut, UnderWay
<1>2. /\ calls' \in [Fetches -> PageRecs]
      /\ calls'[i].kind = "out" /\ calls'[i].pc = "sent" /\ calls'[i].job = 0
      /\ \A k \in Fetches : k # i => calls'[k] = calls[k]
      /\ calls[i] \in PageRecs
  BY <1>1, NewCall
<1>3. PageTypeOK'
  BY <1>2 DEF PInv, PageTypeOK, PageRecs, ClicksOut, Server
<1>4. /\ timer' = FALSE /\ UNCHANGED scanning
      /\ orderly' => orderly /\ ~scanning /\ ~timer
  BY DEF ClicksOut, PInv, PageInv, OneAsks, UnderWay
<1>5. UNCHANGED <<job, busy, shown, told>>
  BY DEF ClicksOut, Server
<1>6. PageInv'
  BY <1>1, <1>2, <1>4, <1>5 DEF PInv, PageTypeOK, PageRecs, PageInv, OneAsks, PollsAreRecent,
     AtRest, UnderWay, Scans
<1> QED BY <1>3, <1>6 DEF PInv

\* The end that a poll reports is that of the last scan of the page, or of a later one.
LEMMA PollReturnsKeeps == ASSUME PInv, NEW i \in Fetches, PollReturns(i) PROVE PInv'
<1> USE PageAssumption DEF PageAssumption
<1>1. calls' = [calls EXCEPT ![i] = Free]
  BY DEF PollReturns
<1>2. /\ calls' \in [Fetches -> PageRecs]
      /\ calls'[i].kind = "none" /\ calls'[i].pc = "sent" /\ calls'[i].job = 0
      /\ \A k \in Fetches : k # i => calls'[k] = calls[k]
      /\ calls[i] \in PageRecs
  BY <1>1, NewCall
<1>3. PageTypeOK'
  <2>1. calls[i].job \in 0..job /\ job' = job /\ told' = told /\ busy' = busy /\ orderly' = orderly
    BY <1>2 DEF PInv, PageInv, PageTypeOK, PageRecs, PollReturns, Server, Scans
  <2>2. timer' \in BOOLEAN /\ scanning' \in BOOLEAN
    BY DEF PInv, PageTypeOK, PollReturns, PollOver
  <2>3. \/ shown' = shown
        \/ shown' = [what |-> "progress", job |-> calls[i].job]
        \/ shown' = [what |-> "outcome", job |-> calls[i].job]
    BY DEF PollReturns, PollOver
  <2>4. shown' \in [what : {"empty", "progress", "outcome"}, job : 0..job]
    BY <2>1, <2>3 DEF PInv, PageTypeOK
  <2> QED BY <1>2, <2>1, <2>2, <2>4 DEF PInv, PageTypeOK, PageRecs
<1>4. PageInv'
  BY <1>1, <1>2 DEF PInv, PageTypeOK, PageRecs, PageInv, OneAsks, PollsAreRecent, AtRest, UnderWay,
     Scans, PollReturns, PollOver, Server
<1> QED BY <1>3, <1>4 DEF PInv

\* After the sign-out the state is asked for.
LEMMA OutReturnsKeeps == ASSUME PInv, NEW i \in Fetches, OutReturns(i) PROVE PInv'
<1> USE PageAssumption DEF PageAssumption
<1>1. calls' = [calls EXCEPT ![i] = Sent("state")]
  BY DEF OutReturns
<1>2. /\ calls' \in [Fetches -> PageRecs]
      /\ calls'[i].kind = "state" /\ calls'[i].pc = "sent" /\ calls'[i].job = 0
      /\ \A k \in Fetches : k # i => calls'[k] = calls[k]
      /\ calls[i] \in PageRecs
  BY <1>1, NewCall
<1>3. PageTypeOK'
  BY <1>2 DEF PInv, PageTypeOK, PageRecs, OutReturns, Server
<1>4. PageInv'
  BY <1>1, <1>2 DEF PInv, PageTypeOK, PageRecs, PageInv, OneAsks, PollsAreRecent, AtRest, UnderWay,
     Scans, OutReturns, Server
<1> QED BY <1>3, <1>4 DEF PInv

\* A request that fails: a request for a scan gives its button back.
LEMMA CallFailsKeeps == ASSUME PInv, NEW i \in Fetches, CallFails(i) PROVE PInv'
<1> USE PageAssumption DEF PageAssumption
<1>1. calls' = [calls EXCEPT ![i] = Free]
  BY DEF CallFails
<1>2. /\ calls' \in [Fetches -> PageRecs]
      /\ calls'[i].kind = "none" /\ calls'[i].pc = "sent" /\ calls'[i].job = 0
      /\ \A k \in Fetches : k # i => calls'[k] = calls[k]
      /\ calls[i] \in PageRecs
  BY <1>1, NewCall
<1>3. PageTypeOK'
  BY <1>2 DEF PInv, PageTypeOK, PageRecs, CallFails, Server
<1>4. PageInv'
  BY <1>1, <1>2 DEF PInv, PageTypeOK, PageRecs, PageInv, OneAsks, PollsAreRecent, AtRest, UnderWay,
     Scans, CallFails, Server
<1> QED BY <1>3, <1>4 DEF PInv

\* A poll in place of a call that is over, with the interval: all the other requests are
\* no polls, as long as the order holds.
LEMMA StartPollGives ==
  ASSUME PInv, NEW i \in Fetches, StartPoll(i)
  PROVE  /\ calls' \in [Fetches -> PageRecs]
         /\ calls'[i].kind = "poll" /\ calls'[i].pc = "sent" /\ calls'[i].job = 0
         /\ \A k \in Fetches : k # i => calls'[k] = calls[k]
         /\ calls[i] \in PageRecs
         /\ timer' = TRUE /\ orderly' \in BOOLEAN
         /\ orderly' => orderly /\ \A k \in Fetches : k # i => calls[k].kind # "poll"
<1>1. calls' = [calls EXCEPT ![i] = Sent("poll")]
  BY DEF StartPoll
<1>2. /\ calls' \in [Fetches -> PageRecs]
      /\ calls'[i].kind = "poll" /\ calls'[i].pc = "sent" /\ calls'[i].job = 0
      /\ \A k \in Fetches : k # i => calls'[k] = calls[k]
      /\ calls[i] \in PageRecs
  BY <1>1, NewCall
<1>3. /\ timer' = TRUE /\ orderly' \in BOOLEAN
      /\ orderly' => orderly /\ \A k \in Fetches : k # i => calls[k].kind # "poll"
  BY DEF StartPoll, NewPoll, UnderWay, PInv, PageTypeOK
<1> QED BY <1>2, <1>3

\* A 202 starts the interval, a refusal gives the button back.
LEMMA ScanReturnsKeeps == ASSUME PInv, NEW i \in Fetches, ScanReturns(i) PROVE PInv'
<1> USE PageAssumption DEF PageAssumption
<1>1. calls[i].kind = "scan" /\ calls[i].job \in 0..job /\ UNCHANGED <<job, busy, shown>>
  BY DEF PInv, PageInv, PageTypeOK, ScanReturns, Server, Scans
<1>2. CASE calls[i].pc = "ok" /\ told' = calls[i].job /\ StartPoll(i) /\ scanning' = scanning
  <2>1. /\ calls' \in [Fetches -> PageRecs]
        /\ calls'[i].kind = "poll" /\ calls'[i].pc = "sent" /\ calls'[i].job = 0
        /\ \A k \in Fetches : k # i => calls'[k] = calls[k]
        /\ timer' = TRUE /\ orderly' \in BOOLEAN
        /\ orderly' => orderly /\ \A k \in Fetches : k # i => calls[k].kind # "poll"
    BY <1>2, StartPollGives
  <2>2. PageTypeOK'
    BY <1>1, <1>2, <2>1 DEF PInv, PageTypeOK, PageRecs
  <2>3. PageInv'
    BY <1>1, <1>2, <2>1 DEF PInv, PageTypeOK, PageRecs, PageInv, OneAsks, PollsAreRecent,
       AtRest, UnderWay, Scans
  <2> QED BY <2>2, <2>3 DEF PInv
<1>3. CASE scanning' = FALSE /\ calls' = [calls EXCEPT ![i] = Free]
           /\ UNCHANGED <<told, timer, orderly>>
  <2>1. /\ calls' \in [Fetches -> PageRecs]
        /\ calls'[i].kind = "none" /\ calls'[i].pc = "sent" /\ calls'[i].job = 0
        /\ \A k \in Fetches : k # i => calls'[k] = calls[k]
    BY <1>3, NewCall
  <2>2. PageTypeOK'
    BY <1>1, <1>3, <2>1 DEF PInv, PageTypeOK, PageRecs
  <2>3. PageInv'
    BY <1>1, <1>3, <2>1 DEF PInv, PageTypeOK, PageRecs, PageInv, OneAsks, PollsAreRecent,
       AtRest, UnderWay, Scans
  <2> QED BY <2>2, <2>3 DEF PInv
<1> QED BY <1>2, <1>3 DEF ScanReturns

\* A scan that is running when the page looks is watched.
LEMMA StateReturnsKeeps == ASSUME PInv, NEW i \in Fetches, StateReturns(i) PROVE PInv'
<1> USE PageAssumption DEF PageAssumption
<1>1. calls[i].kind = "state" /\ UNCHANGED <<job, busy, shown, told>>
  BY DEF StateReturns, Server
<1>2. CASE scanning' = TRUE /\ StartPoll(i)
  <2>1. /\ calls' \in [Fetches -> PageRecs]
        /\ calls'[i].kind = "poll" /\ calls'[i].pc = "sent" /\ calls'[i].job = 0
        /\ \A k \in Fetches : k # i => calls'[k] = calls[k]
        /\ timer' = TRUE /\ orderly' \in BOOLEAN
        /\ orderly' => orderly /\ \A k \in Fetches : k # i => calls[k].kind # "poll"
    BY <1>2, StartPollGives
  <2>2. PageTypeOK'
    BY <1>1, <1>2, <2>1 DEF PInv, PageTypeOK, PageRecs
  <2>3. orderly => \A k \in Fetches : calls[k].kind # "scan"
    BY <1>1 DEF PInv, PageInv, OneAsks, UnderWay
  <2>4. PageInv'
    BY <1>1, <1>2, <2>1, <2>3 DEF PInv, PageTypeOK, PageRecs, PageInv, OneAsks, PollsAreRecent,
       AtRest, UnderWay, Scans
  <2> QED BY <2>2, <2>4 DEF PInv
<1>3. CASE calls' = [calls EXCEPT ![i] = Free] /\ UNCHANGED <<timer, scanning, orderly>>
  <2>1. /\ calls' \in [Fetches -> PageRecs]
        /\ calls'[i].kind = "none" /\ calls'[i].pc = "sent" /\ calls'[i].job = 0
        /\ \A k \in Fetches : k # i => calls'[k] = calls[k]
    BY <1>3, NewCall
  <2>2. PageTypeOK'
    BY <1>1, <1>3, <2>1 DEF PInv, PageTypeOK, PageRecs
  <2>3. PageInv'
    BY <1>1, <1>3, <2>1 DEF PInv, PageTypeOK, PageRecs, PageInv, OneAsks, PollsAreRecent,
       AtRest, UnderWay, Scans
  <2> QED BY <2>2, <2>3 DEF PInv
<1> QED BY <1>2, <1>3 DEF StateReturns

\* Every step of the page and of its server keeps the invariant.
LEMMA PageStepOK == PInv /\ [PageNext]_pageVars => PInv'
<1> SUFFICES ASSUME PInv, [PageNext]_pageVars PROVE PInv'
  OBVIOUS
<1>1. CASE UNCHANGED pageVars
  BY <1>1 DEF pageVars, PInv, PageTypeOK, PageInv, OneAsks, PollsAreRecent, AtRest, UnderWay, Scans
<1>2. CASE JobEnds \/ OtherTabScans \/ TimerFires \/ ClicksScan \/ Refreshes \/ ClicksOut
  BY <1>2, JobEndsKeeps, OtherTabScansKeeps, TimerFiresKeeps, ClicksScanKeeps, RefreshesKeeps,
     ClicksOutKeeps
<1>3. ASSUME NEW i \in Fetches, Answers(i) \/ Returns(i) \/ CallFails(i)
      PROVE  PInv'
  BY <1>3, AnswersKeeps, PollReturnsKeeps, ScanReturnsKeeps, StateReturnsKeeps, OutReturnsKeeps,
     CallFailsKeeps DEF Returns
<1> QED BY <1>1, <1>2, <1>3 DEF PageNext

\* The invariant of the page, in every reachable state.
LEMMA PageInvariance == PageSpec => []PInv
<1>1. PageInit => PInv
  BY PageInitOK
<1>2. PInv /\ [PageNext]_pageVars => PInv'
  BY PageStepOK
<1> QED BY <1>1, <1>2, PTL DEF PageSpec

-----------------------------------------------------------------------------
\* While the page's own scan runs the button says "Cancel scan", and button and interval
\* go together (scanning and pollTimer of index.html), for any number of requests under
\* way, as long as no answer could overtake another.
THEOREM ButtonFollowsTheScan == PageSpec => []ButtonFollows
<1>1. PInv => ButtonFollows
  BY DEF PInv, PageInv, AtRest, ButtonFollows
<1> QED BY <1>1, PageInvariance, PTL

\* The outcome of the scan the page has started, or of a later one, is on the stage when
\* the page is at rest (pollScan of index.html).
THEOREM NoOutcomeIsMissed == PageSpec => []NothingMissed
<1>1. PInv => NothingMissed
  BY DEF PInv, PageInv, AtRest, NothingMissed
<1> QED BY <1>1, PageInvariance, PTL

\* The page keeps its types, and shows and is told of scans that were started only.
THEOREM PageTypes == PageSpec => []PageTypeOK
<1>1. PInv => PageTypeOK
  BY DEF PInv
<1> QED BY <1>1, PageInvariance, PTL
-----------------------------------------------------------------------------
(* The session *)

USE SessionAssumption, TokenAssumption DEF SessionAssumption, TokenAssumption

Inv == TypeOK /\ SessionInv

Handlers == [pc : Stages, api : Apis \cup {None}, token : Tokens \cup {None}]

\* A handler goes on to another stage.
LEMMA StageMoves ==
  ASSUME NEW h \in Handlers, NEW pc \in Stages
  PROVE  LET g == [h EXCEPT !.pc = pc] IN
           g \in Handlers /\ g.pc = pc /\ g.api = h.api /\ g.token = h.token
  BY DEF Handlers

\* A handler sends its request.
LEMMA CallMoves ==
  ASSUME NEW h \in Handlers, NEW api \in Apis
  PROVE  LET g == [h EXCEPT !.pc = "reply", !.api = api] IN
           g \in Handlers /\ g.pc = "reply" /\ g.api = api
  BY DEF Handlers, Stages

\* A handler has its token.
LEMMA GrantMoves ==
  ASSUME NEW h \in Handlers, NEW k \in Tokens
  PROVE  LET g == [h EXCEPT !.pc = "set", !.token = k] IN
           g \in Handlers /\ g.pc = "set" /\ g.api = h.api /\ g.token = k
  BY DEF Handlers, Stages

\* No handler.
LEMMA NoHandlerIsIdle == NoHandler \in Handlers /\ NoHandler.pc = "idle"
  BY DEF NoHandler, Handlers, Stages

\* One handler changes, and the others are what they were.
LEMMA OneTab ==
  ASSUME TypeOK, NEW t \in Tabs, NEW h \in Handlers, tab' = [tab EXCEPT ![t] = h]
  PROVE  /\ tab' \in [Tabs -> Handlers]
         /\ tab'[t] = h
         /\ \A u \in Tabs : u # t => tab'[u] = tab[u]
         /\ \A u \in Tabs : tab[u] \in Handlers
         /\ tab[t] \in Handlers
  BY DEF TypeOK, Handlers

\* A handler that changes nothing but itself, and does not save before or after.
LEMMA QuietStep ==
  ASSUME Inv, NEW t \in Tabs, NEW h \in Handlers,
         up, tab' = [tab EXCEPT ![t] = h],
         tab[t].pc \in {"idle", "call", "reply"}, h.pc \in {"idle", "call", "reply", "set"},
         h.pc \in {"reply", "set"} => h.api \in Apis,
         h.pc = "set" => h.token \in Tokens,
         UNCHANGED <<up, token, file, clean>>
  PROVE  SessionInv'
<1>. USE DEF Inv
<1>1. /\ tab' \in [Tabs -> Handlers] /\ tab'[t] = h
      /\ \A u \in Tabs : u # t => tab'[u] = tab[u]
  BY OneTab, Zenon
<1>2. Saving' = Saving
  BY <1>1 DEF Saving
<1>3. \A u \in Tabs : GrantOK(u)'
  BY <1>1 DEF SessionInv, GrantOK, At
<1>4. clean => \A u \in Tabs : SaveOK(u)'
  BY <1>1 DEF SessionInv, SaveOK, At
<1>. QED BY <1>2, <1>3, <1>4 DEF SessionInv

LEMMA InitOK == Init => Inv
<1>. SUFFICES ASSUME Init PROVE Inv
  OBVIOUS
<1>1. TypeOK
  <2>1. tab \in [Tabs -> Handlers]
    BY NoHandlerIsIdle DEF Init
  <2>. QED BY <2>1 DEF Init, TypeOK, Held, Handlers
<1>2. \A t \in Tabs : tab[t].pc = "idle"
  BY NoHandlerIsIdle DEF Init
<1>3. SessionInv
  BY <1>2 DEF Init, SessionInv, GrantOK, SaveOK, At, Saving
<1>. QED BY <1>1, <1>3 DEF Inv

LEMMA SubmitsKeeps == ASSUME Inv, NEW t \in Tabs, Submits(t) PROVE Inv'
<1>. DEFINE h == [tab[t] EXCEPT !.pc = "call"]
<1>1. h \in Handlers /\ h.pc = "call"
  BY StageMoves DEF Inv, TypeOK, Handlers, Stages
<1>2. tab' = [tab EXCEPT ![t] = h] /\ up /\ tab[t].pc = "idle"
  BY DEF Submits, Takes, At
<1>3. SessionInv'
  BY <1>1, <1>2, QuietStep DEF Submits
<1>4. tab' \in [Tabs -> Handlers]
  BY <1>1, <1>2, OneTab DEF Inv
<1>5. load' \in [logins : Nat, starts : Nat]
  BY DEF Submits, Takes, Inv, TypeOK
<1>6. apiURL' \in Apis
  BY DEF Submits, Inv, TypeOK
<1>. QED BY <1>3, <1>4, <1>5, <1>6 DEF Submits, Inv, TypeOK, Handlers

LEMMA CallsKeeps == ASSUME Inv, NEW t \in Tabs, Calls(t) PROVE Inv'
<1>. DEFINE h == [tab[t] EXCEPT !.pc = "reply", !.api = apiURL]
<1>1. h \in Handlers /\ h.pc = "reply" /\ h.api = apiURL /\ apiURL \in Apis
  <2>1. tab[t] \in Handlers /\ apiURL \in Apis
    BY DEF Inv, TypeOK, Handlers
  <2>. QED BY <2>1, CallMoves, Zenon
<1>2. tab' = [tab EXCEPT ![t] = h] /\ tab[t].pc = "call"
  BY DEF Calls, At
<1>3. up
  BY <1>2 DEF Inv, SessionInv, At
<1>4. SessionInv'
  BY <1>1, <1>2, <1>3, QuietStep DEF Calls
<1>5. tab' \in [Tabs -> Handlers]
  BY <1>1, <1>2, OneTab DEF Inv
<1>. QED BY <1>4, <1>5 DEF Calls, Inv, TypeOK, Handlers

LEMMA RefusedKeeps == ASSUME Inv, NEW t \in Tabs, Refused(t) PROVE Inv'
<1>1. tab' = [tab EXCEPT ![t] = NoHandler] /\ tab[t].pc = "reply"
  BY DEF Refused, Ends, At
<1>2. up
  BY <1>1 DEF Inv, SessionInv, At
<1>3. SessionInv'
  BY <1>1, <1>2, QuietStep, NoHandlerIsIdle DEF Refused
<1>4. tab' \in [Tabs -> Handlers]
  BY <1>1, NoHandlerIsIdle, OneTab DEF Inv
<1>. QED BY <1>3, <1>4 DEF Refused, Inv, TypeOK, Handlers

LEMMA GrantedKeeps == ASSUME Inv, NEW t \in Tabs, Granted(t) PROVE Inv'
<1>1. tab[t].pc = "reply" /\ tab[t].api \in Apis /\ up
  BY DEF Granted, Inv, SessionInv, GrantOK, At
<1>2. PICK u \in Users :
        tab' = [tab EXCEPT ![t].pc = "set", ![t].token = [api |-> tab[t].api, user |-> u]]
  BY DEF Granted
<1>. DEFINE k == [api |-> tab[t].api, user |-> u]
            h == [tab[t] EXCEPT !.pc = "set", !.token = k]
<1>3. k \in Tokens
  BY <1>1 DEF Tokens
<1>4. h \in Handlers /\ h.pc = "set" /\ h.api = tab[t].api /\ h.token = k
  <2>1. tab[t] \in Handlers
    BY DEF Inv, TypeOK, Handlers
  <2>. QED BY <1>1, <1>3, <2>1, GrantMoves, Zenon
<1>5. tab' = [tab EXCEPT ![t] = h]
  BY <1>2
<1>. HIDE DEF h, k
<1>6. SessionInv'
  BY <1>1, <1>3, <1>4, <1>5, QuietStep DEF Granted
<1>7. tab' \in [Tabs -> Handlers]
  BY <1>4, <1>5, OneTab DEF Inv
<1>. QED BY <1>6, <1>7 DEF Granted, Inv, TypeOK, Handlers

\* The handlers that save, when one of them has moved.
LEMMA SavingMoves ==
  ASSUME Inv, NEW t \in Tabs, NEW h \in Handlers, tab' = [tab EXCEPT ![t] = h]
  PROVE  /\ h.pc \in {"open", "write", "unlinked", "remove"} => Saving' = Saving \cup {t}
         /\ h.pc \notin {"open", "write", "unlinked", "remove"} => Saving' = Saving \ {t}
<1>1. /\ tab' \in [Tabs -> Handlers] /\ tab'[t] = h
      /\ \A u \in Tabs : u # t => tab'[u] = tab[u]
  BY OneTab DEF Inv
<1>. QED BY <1>1 DEF Saving

\* A handler that is done, without a word on the file; the change was not saved.
LEMMA GivesUp ==
  ASSUME Inv, NEW t \in Tabs, up, Ends(t),
         UNCHANGED <<up, token, file>>, clean' = FALSE
  PROVE  tab' \in [Tabs -> Handlers] /\ SessionInv'
<1>1. /\ tab' \in [Tabs -> Handlers] /\ tab'[t] = NoHandler
      /\ \A u \in Tabs : u # t => tab'[u] = tab[u]
  BY NoHandlerIsIdle, OneTab DEF Inv, Ends
<1>2. \A u \in Tabs : GrantOK(u)'
  BY <1>1, NoHandlerIsIdle DEF Inv, SessionInv, GrantOK, At
<1>. QED BY <1>1, <1>2 DEF SessionInv

LEMMA SetsTokenKeeps == ASSUME Inv, NEW t \in Tabs, SetsToken(t) PROVE Inv'
<1>. DEFINE h == [tab[t] EXCEPT !.pc = "open"]
<1>1. /\ h \in Handlers /\ h.pc = "open"
      /\ h.api = tab[t].api /\ h.token = tab[t].token
  <2>1. tab[t] \in Handlers /\ "open" \in Stages
    BY DEF Inv, TypeOK, Handlers, Stages
  <2>. QED BY <2>1, StageMoves, Zenon
<1>2. tab' = [tab EXCEPT ![t] = h] /\ tab[t].pc = "set"
  BY DEF SetsToken, At
<1>3. tab[t].token \in Tokens /\ tab[t].api \in Apis /\ up
  BY <1>2 DEF Inv, SessionInv, GrantOK, At
<1>. HIDE DEF h
<1>4. /\ tab' \in [Tabs -> Handlers] /\ tab'[t] = h
      /\ \A u \in Tabs : u # t => tab'[u] = tab[u]
  BY <1>1, <1>2, OneTab DEF Inv
<1>5. \A u \in Tabs : GrantOK(u)'
  BY <1>1, <1>3, <1>4 DEF Inv, SessionInv, GrantOK, At
<1>6. Saving' = Saving \cup {t}
  BY <1>1, <1>2, SavingMoves
<1>7. ASSUME clean' PROVE (\A u \in Tabs : SaveOK(u)') /\ \A u, w \in Saving' : u = w
  <2>1. Saving = {}
    BY <1>7 DEF SetsToken
  <2>2. \A u \in Tabs : u # t => tab'[u].pc \notin {"open", "write", "unlinked", "remove"}
    BY <1>4, <2>1 DEF Saving
  <2>3. token' = tab[t].token
    BY DEF SetsToken
  <2>. QED BY <1>1, <1>4, <1>6, <2>1, <2>2, <2>3 DEF SaveOK, At
<1>8. SessionInv'
  BY <1>3, <1>5, <1>6, <1>7 DEF SessionInv, SetsToken
<1>10. token' \in Held /\ clean' \in BOOLEAN
  BY <1>3 DEF SetsToken, Held
<1>. QED BY <1>4, <1>8, <1>10 DEF SetsToken, Inv, TypeOK, Handlers

LEMMA OpensKeeps == ASSUME Inv, NEW t \in Tabs, Opens(t) PROVE Inv'
<1>1. /\ tab[t].pc = "open" /\ tab[t].token \in Tokens /\ tab[t].api \in Apis /\ up
      /\ tab[t] \in Handlers /\ t \in Saving
  BY DEF Opens, Inv, SessionInv, TypeOK, GrantOK, At, Handlers, Saving
<1>2. tab' \in [Tabs -> Handlers] /\ file' \in Held /\ clean' \in BOOLEAN /\ SessionInv'
  <2>1. CASE Ends(t) /\ clean' = FALSE /\ UNCHANGED file
    BY <1>1, <2>1, GivesUp DEF Opens, Inv, TypeOK
  <2>2. CASE /\ file' = None
             /\ tab' = [tab EXCEPT ![t].pc = "write"]
             /\ UNCHANGED clean
    <3>. DEFINE h == [tab[t] EXCEPT !.pc = "write"]
    <3>1. /\ h \in Handlers /\ h.pc = "write"
          /\ h.api = tab[t].api /\ h.token = tab[t].token
      <4>1. "write" \in Stages
        BY DEF Stages
      <4>. QED BY <1>1, <4>1, StageMoves, Zenon
    <3>2. tab' = [tab EXCEPT ![t] = h]
      BY <2>2
    <3>. HIDE DEF h
    <3>3. /\ tab' \in [Tabs -> Handlers] /\ tab'[t] = h
          /\ \A u \in Tabs : u # t => tab'[u] = tab[u]
      BY <3>1, <3>2, OneTab DEF Inv
    <3>4. Saving' = Saving
      BY <1>1, <3>1, <3>2, SavingMoves
    <3>5. \A u \in Tabs : GrantOK(u)'
      BY <1>1, <3>1, <3>3 DEF Inv, SessionInv, GrantOK, At
    <3>6. UNCHANGED <<up, token, clean>>
      BY <2>2 DEF Opens
    <3>7. ASSUME clean PROVE \A u \in Tabs : SaveOK(u)'
      <4>1. /\ \A u \in Tabs : SaveOK(u)
            /\ \A u, w \in Saving : u = w
        BY <3>7 DEF Inv, SessionInv
      <4>2. SaveOK(t)'
        BY <1>1, <2>2, <3>1, <3>3, <3>6, <4>1 DEF SaveOK, At
      <4>3. ASSUME NEW u \in Tabs, u # t PROVE SaveOK(u)'
        <5>1. tab[u].pc # "write"
          BY <1>1, <4>1, <4>3 DEF Saving
        <5>. QED BY <3>3, <3>6, <4>1, <4>3, <5>1 DEF SaveOK, At
      <4>. QED BY <4>2, <4>3
    <3>8. SessionInv'
      BY <1>1, <3>4, <3>5, <3>6, <3>7 DEF Inv, SessionInv
    <3>. QED BY <2>2, <3>3, <3>8 DEF Inv, TypeOK, Held
  <2>. QED BY <2>1, <2>2 DEF Opens
<1>. QED BY <1>2 DEF Opens, Inv, TypeOK, Handlers

LEMMA WritesKeeps == ASSUME Inv, NEW t \in Tabs, Writes(t) PROVE Inv'
<1>1. /\ tab[t].pc = "write" /\ tab[t].token \in Tokens /\ up /\ t \in Saving
  BY DEF Writes, Inv, SessionInv, GrantOK, At, Saving
<1>2. tab' \in [Tabs -> Handlers] /\ file' \in Held /\ clean' \in BOOLEAN /\ SessionInv'
  <2>1. CASE clean' = FALSE /\ UNCHANGED file
    BY <1>1, <2>1, GivesUp DEF Writes, Inv, TypeOK
  <2>2. CASE file' = Over(file, tab[t].token) /\ UNCHANGED clean
    <3>1. tab' = [tab EXCEPT ![t] = NoHandler]
      BY DEF Writes, Ends
    <3>2. /\ tab' \in [Tabs -> Handlers] /\ tab'[t] = NoHandler
          /\ \A u \in Tabs : u # t => tab'[u] = tab[u]
      BY <3>1, NoHandlerIsIdle, OneTab DEF Inv
    <3>3. Saving' = Saving \ {t}
      BY <3>1, NoHandlerIsIdle, SavingMoves
    <3>4. \A u \in Tabs : GrantOK(u)'
      BY <3>2, NoHandlerIsIdle DEF Inv, SessionInv, GrantOK, At
    <3>5. file' \in Held
      BY <1>1, <2>2 DEF Over, Held, Inv, TypeOK
    <3>6. UNCHANGED <<up, token, clean>>
      BY <2>2 DEF Writes
    <3>7. ASSUME clean PROVE (\A u \in Tabs : SaveOK(u)') /\ file' = token /\ Saving' = {}
      <4>1. /\ \A u \in Tabs : SaveOK(u)
            /\ \A u, w \in Saving : u = w
        BY <3>7 DEF Inv, SessionInv
      <4>2. Saving' = {}
        BY <1>1, <3>3, <4>1
      <4>3. file' = token
        BY <1>1, <2>2, <4>1 DEF SaveOK, At, Over
      <4>4. ASSUME NEW u \in Tabs PROVE SaveOK(u)'
        <5>1. tab'[u].pc \notin {"open", "write", "unlinked", "remove"}
          BY <4>2 DEF Saving
        <5>. QED BY <5>1 DEF SaveOK, At
      <4>. QED BY <4>2, <4>3, <4>4
    <3>8. SessionInv'
      BY <1>1, <3>4, <3>6, <3>7 DEF SessionInv
    <3>. QED BY <2>2, <3>2, <3>5, <3>8 DEF Inv, TypeOK
  <2>. QED BY <2>1, <2>2 DEF Writes
<1>. QED BY <1>2 DEF Writes, Inv, TypeOK, Handlers

LEMMA WritesNowhereKeeps == ASSUME Inv, NEW t \in Tabs, WritesNowhere(t) PROVE Inv'
<1>1. ~clean /\ up
  BY DEF WritesNowhere, Inv, SessionInv, SaveOK, At
<1>2. clean' = FALSE
  BY <1>1 DEF WritesNowhere, Inv, TypeOK
<1>3. tab' \in [Tabs -> Handlers] /\ SessionInv'
  BY <1>1, <1>2, GivesUp DEF WritesNowhere
<1>. QED BY <1>2, <1>3 DEF WritesNowhere, Inv, TypeOK, Handlers

LEMMA LeavesKeeps == ASSUME Inv, NEW t \in Tabs, Leaves(t) PROVE Inv'
<1>. DEFINE h == [tab[t] EXCEPT !.pc = "remove"]
<1>1. tab[t].pc = "idle" /\ tab[t] \in Handlers /\ "remove" \in Stages /\ up
  BY DEF Leaves, Takes, Inv, TypeOK, At, Handlers, Stages
<1>2. h \in Handlers /\ h.pc = "remove"
  BY <1>1, StageMoves, Zenon
<1>3. tab' = [tab EXCEPT ![t] = h]
  BY DEF Leaves
<1>. HIDE DEF h
<1>4. /\ tab' \in [Tabs -> Handlers] /\ tab'[t] = h
      /\ \A u \in Tabs : u # t => tab'[u] = tab[u]
  BY <1>2, <1>3, OneTab DEF Inv
<1>5. \A u \in Tabs : GrantOK(u)'
  BY <1>2, <1>4 DEF Inv, SessionInv, GrantOK, At
<1>6. Saving' = Saving \cup {t}
  BY <1>2, <1>3, SavingMoves
<1>7. ASSUME clean' PROVE (\A u \in Tabs : SaveOK(u)') /\ \A u, w \in Saving' : u = w
  <2>1. Saving = {}
    BY <1>7 DEF Leaves
  <2>2. \A u \in Tabs : u # t => tab'[u].pc \notin {"open", "write", "unlinked", "remove"}
    BY <1>4, <2>1 DEF Saving
  <2>3. token' = None
    BY DEF Leaves
  <2>. QED BY <1>2, <1>4, <1>6, <2>1, <2>2, <2>3 DEF SaveOK, At
<1>8. SessionInv'
  BY <1>1, <1>5, <1>6, <1>7 DEF SessionInv, Leaves
<1>10. token' \in Held /\ clean' \in BOOLEAN /\ load' \in [logins : Nat, starts : Nat]
  BY DEF Leaves, Takes, Held, Inv, TypeOK
<1>. QED BY <1>4, <1>8, <1>10 DEF Leaves, Inv, TypeOK, Handlers

LEMMA RemovesKeeps == ASSUME Inv, NEW t \in Tabs, Removes(t) PROVE Inv'
<1>1. tab[t].pc = "remove" /\ up /\ t \in Saving /\ \A u \in Tabs : tab[u] \in Handlers
  BY DEF Removes, Inv, SessionInv, At, Saving, TypeOK, Handlers
<1>2. tab' \in [Tabs -> Handlers] /\ file' \in Held /\ clean' \in BOOLEAN /\ SessionInv'
  <2>1. CASE Ends(t) /\ clean' = FALSE /\ UNCHANGED file
    BY <1>1, <2>1, GivesUp DEF Removes, Inv, TypeOK
  <2>2. CASE /\ file' = None
             /\ tab' = [s \in Tabs |->
                  IF s = t THEN NoHandler
                  ELSE IF At(s, "write") THEN [tab[s] EXCEPT !.pc = "unlinked"] ELSE tab[s]]
             /\ UNCHANGED clean
    <3>1. ASSUME NEW u \in Tabs, u # t, tab[u].pc = "write"
          PROVE  /\ tab'[u] \in Handlers /\ tab'[u].pc = "unlinked"
                 /\ tab'[u].api = tab[u].api /\ tab'[u].token = tab[u].token
      <4>. DEFINE g == [tab[u] EXCEPT !.pc = "unlinked"]
      <4>1. "unlinked" \in Stages
        BY DEF Stages
      <4>2. g \in Handlers /\ g.pc = "unlinked" /\ g.api = tab[u].api /\ g.token = tab[u].token
        BY <1>1, <4>1, StageMoves, Zenon
      <4>3. tab'[u] = g
        BY <2>2, <3>1 DEF At
      <4>. HIDE DEF g
      <4>. QED BY <4>2, <4>3
    <3>2. \A u \in Tabs : u # t /\ tab[u].pc # "write" => tab'[u] = tab[u]
      BY <2>2 DEF At
    <3>3. tab'[t] = NoHandler
      BY <2>2
    <3>4. tab' \in [Tabs -> Handlers]
      <4>1. \A u \in Tabs : tab'[u] \in Handlers
        BY <1>1, <3>1, <3>2, <3>3, NoHandlerIsIdle
      <4>2. tab' = [u \in Tabs |-> tab'[u]]
        BY <2>2, Zenon
      <4>. QED BY <4>1, <4>2
    <3>5. ASSUME NEW u \in Tabs PROVE GrantOK(u)'
      <4>1. GrantOK(u)
        BY DEF Inv, SessionInv
      <4>. QED BY <3>1, <3>2, <3>3, <4>1, NoHandlerIsIdle DEF GrantOK, At
    <3>6. UNCHANGED <<up, token, clean>>
      BY <2>2 DEF Removes
    <3>7. ASSUME clean PROVE (\A u \in Tabs : SaveOK(u)') /\ file' = token /\ Saving' = {}
      <4>1. SaveOK(t) /\ \A u, w \in Saving : u = w
        BY <3>7 DEF Inv, SessionInv
      <4>2. \A u \in Tabs : tab'[u].pc \notin {"open", "write", "unlinked", "remove"}
        <5>1. \A u \in Tabs : u # t => tab[u].pc \notin {"open", "write", "unlinked", "remove"}
          BY <1>1, <4>1 DEF Saving
        <5>. QED BY <3>2, <3>3, <5>1, NoHandlerIsIdle
      <4>3. file' = token
        BY <1>1, <2>2, <4>1 DEF SaveOK, At
      <4>4. Saving' = {}
        BY <4>2 DEF Saving
      <4>. QED BY <4>2, <4>3, <4>4 DEF SaveOK, At
    <3>8. SessionInv'
      BY <1>1, <3>5, <3>6, <3>7 DEF SessionInv
    <3>. QED BY <2>2, <3>4, <3>8 DEF Inv, TypeOK, Held
  <2>. QED BY <2>1, <2>2 DEF Removes
<1>. QED BY <1>2 DEF Removes, Inv, TypeOK, Handlers

LEMMA ExitsKeeps == ASSUME Inv, Exits PROVE Inv'
<1>1. tab' \in [Tabs -> Handlers] /\ \A t \in Tabs : tab'[t].pc = "idle"
  BY NoHandlerIsIdle DEF Exits
<1>2. clean' => clean /\ Saving = {}
  BY DEF Exits
<1>3. \A t \in Tabs : GrantOK(t)' /\ SaveOK(t)'
  BY <1>1 DEF GrantOK, SaveOK, At
<1>4. Saving' = {}
  BY <1>1 DEF Saving
<1>5. SessionInv'
  BY <1>1, <1>2, <1>3, <1>4 DEF Inv, SessionInv, At, Exits
<1>6. clean' \in BOOLEAN /\ up' \in BOOLEAN
  BY DEF Exits, Inv, TypeOK
<1>. QED BY <1>1, <1>5, <1>6 DEF Exits, Inv, TypeOK, Handlers

LEMMA RestartsKeeps == ASSUME Inv, Restarts PROVE Inv'
<1>1. \A t \in Tabs : tab[t].pc = "idle"
  BY DEF Restarts, Inv, SessionInv, At
<1>2. UNCHANGED <<file, tab>> /\ up' /\ token' = file /\ clean'
  BY DEF Restarts
<1>3. \A t \in Tabs : GrantOK(t)' /\ SaveOK(t)'
  BY <1>1, <1>2 DEF GrantOK, SaveOK, At
<1>4. Saving' = {}
  BY <1>1, <1>2 DEF Saving
<1>5. SessionInv'
  BY <1>2, <1>3, <1>4 DEF SessionInv
<1>6. load' \in [logins : Nat, starts : Nat] /\ apiURL' \in Apis
  BY DEF Restarts, Inv, TypeOK
<1>7. up' \in BOOLEAN /\ clean' \in BOOLEAN
  BY DEF Restarts
<1>8. token' \in Held /\ file' \in Held /\ tab' \in [Tabs -> Handlers]
  BY <1>2 DEF Inv, TypeOK, Handlers
<1>9. TypeOK'
  BY <1>6, <1>7, <1>8, Zenon DEF TypeOK, Handlers
<1>. QED BY <1>5, <1>9 DEF Inv

LEMMA StepOK == Inv /\ [Next]_vars => Inv'
<1>. SUFFICES ASSUME Inv, [Next]_vars PROVE Inv'
  OBVIOUS
<1>1. CASE UNCHANGED vars
  <2>1. Saving' = Saving /\ \A t \in Tabs : GrantOK(t)' = GrantOK(t) /\ SaveOK(t)' = SaveOK(t)
    BY <1>1 DEF vars, Saving, GrantOK, SaveOK, At
  <2>2. SessionInv'
    BY <1>1, <2>1 DEF vars, Inv, SessionInv, At
  <2>. QED BY <1>1, <2>2 DEF vars, Inv, TypeOK
<1>2. ASSUME NEW t \in Tabs,
             \/ Submits(t) \/ Calls(t) \/ Refused(t) \/ Granted(t) \/ SetsToken(t)
             \/ Opens(t) \/ Writes(t) \/ WritesNowhere(t) \/ Leaves(t) \/ Removes(t)
      PROVE  Inv'
  BY <1>2, SubmitsKeeps, CallsKeeps, RefusedKeeps, GrantedKeeps, SetsTokenKeeps, OpensKeeps,
     WritesKeeps, WritesNowhereKeeps, LeavesKeeps, RemovesKeeps
<1>3. CASE Exits \/ Restarts
  BY <1>3, ExitsKeeps, RestartsKeeps
<1>. QED BY <1>1, <1>2, <1>3 DEF Next

LEMMA Invariance == Spec => []Inv
<1>1. Init => Inv
  BY InitOK
<1>2. Inv /\ [Next]_vars => Inv'
  BY StepOK
<1>. QED BY <1>1, <1>2, PTL DEF Spec
-----------------------------------------------------------------------------
(* The theorems *)

\* After a saved, undisturbed change of the session the token file says what the memory
\* of bayServer says, so a restart signs in whom it was.
THEOREM FileFollowsTheSession == Spec => []FileFollows
<1>1. Inv => FileFollows
  BY DEF Inv, SessionInv, FileFollows
<1>. QED BY <1>1, Invariance, PTL

\* The types of the bay's session.
THEOREM SessionTypes == Spec => []TypeOK
<1>1. Inv => TypeOK
  BY DEF Inv
<1>. QED BY <1>1, Invariance, PTL
=============================================================================
