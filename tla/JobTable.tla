------------------------------ MODULE JobTable ------------------------------
(***************************************************************************)
(* What the enrichment queue promises about a job, without transactions,   *)
(* hands or stages: it is offered, one process takes it, and that process  *)
(* alone says how the attempt went.  A job nobody came back about stays    *)
(* taken, and the attempts of a job are counted.                           *)
(***************************************************************************)
EXTENDS Naturals

CONSTANTS Jobs, Procs, MaxAttempts

VARIABLES
  status,    \* as in the status column
  attempts,  \* how many times each job was taken
  workers    \* who is at work on it: at most one process

vars == <<status, attempts, workers>>

Init ==
  /\ status = [j \in Jobs |-> "none"]
  /\ attempts = [j \in Jobs |-> 0]
  /\ workers = [j \in Jobs |-> {}]

\* A job that was never there before.
Offer(j) ==
  /\ status[j] = "none"
  /\ status' = [status EXCEPT ![j] = "pending"]
  /\ attempts' = [attempts EXCEPT ![j] = 0]
  /\ UNCHANGED workers

\* One more attempt at a job that nobody works on.
Attempt(j) ==
  /\ status[j] = "pending" /\ workers[j] = {} /\ attempts[j] < MaxAttempts
  /\ status' = [status EXCEPT ![j] = "running"]
  /\ attempts' = [attempts EXCEPT ![j] = @ + 1]

\* A process that works on no other job takes it.
Take(p, j) ==
  /\ \A i \in Jobs : p \notin workers[i]
  /\ Attempt(j)
  /\ workers' = [workers EXCEPT ![j] = {p}]

\* It is marked as taken, but the process never heard of it.
TakenByNobody(j) ==
  /\ Attempt(j)
  /\ UNCHANGED workers

\* The attempt is over: the work is done, or there is another attempt, or that
\* was the last one.
Settle(p, j) ==
  /\ status[j] = "running" /\ workers[j] = {p}
  /\ \E to \in {"done"} \cup {IF attempts[j] < MaxAttempts THEN "pending" ELSE "failed"} :
       status' = [status EXCEPT ![j] = to]
  /\ workers' = [workers EXCEPT ![j] = {}]
  /\ UNCHANGED attempts

\* The process is gone, or what it had to say is lost.
Leave(p, j) ==
  /\ workers[j] = {p}
  /\ workers' = [workers EXCEPT ![j] = {}]
  /\ UNCHANGED <<status, attempts>>

Next ==
  \E j \in Jobs :
    \/ Offer(j) \/ TakenByNobody(j)
    \/ \E p \in Procs : Take(p, j) \/ Settle(p, j) \/ Leave(p, j)

Spec == Init /\ [][Next]_vars
=============================================================================
