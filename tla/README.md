# MechMind in TLA+

MechMind reads a car through an ELM327 dongle in a workshop ("the bay"), uploads the
scan to an API, and explains the trouble codes with what the shops have seen before and
with what public sources say of the car.  This directory models the parts of it in which
several things happen at once, or in which a decision is made on data that can be late,
lost or garbled; TLC checks the models on small instances and TLAPS proves the safety
properties for every value of the constants.

`PROJECT.json` lists the components, the runs, the lines every definition stands for, the
hazards and the theorems.  Paths below are relative to `src/`.

## The system

| Part | Source | State | Operations |
|---|---|---|---|
| Scan jobs of the bay | `cmd/bayui/server.go`, `main.go`, `Scanner.Scan` in `pkg/obd/types.go` | `b.job` under `jobMu`; each job's `busy`, `done`, `phase`, `log`, `err`, `result` under its own mutex; a 50 s context | scan, status, cancel, quit; one goroutine per scan |
| Page of the bay | `cmd/bayui/web/index.html` | `pollTimer`, `scanning`, what is on the stage | clicks, an interval of 400 ms, answers of `fetch` |
| Connection to the adapter | `pkg/obd/usb.go` (Open to configureELM, Close) | `u.port`, `u.Baud`; goroutines that open and close ports | a loop over baud rates, wake, ATI/ATWS/ATZ, USB reset and reopen, park |
| Command link | `pkg/obd/usb.go` (command, readUntilPrompt) | the port's input; one reading goroutine per command | a command with a time limit; 250 ms of grace; readers left behind |
| Reading of VIN, codes and sensors | `pkg/obd/usb.go` (Identify, ReadDTCs, ReadFreezeFrame, extractVIN), `codes.go`, `pids.go` | the map `seen`, the snapshot | modes 09, 03, 07 and 0A, merged; a probe of mode 02 per code; 15 sensors of mode 01 |
| Scans and explanations | `internal/api/server.go`, `internal/store/store.go` | `vehicles`, `scan_sessions`, `dtc_readings`; a pool of connections | createScan (a transaction), explainCode (several statements), listVehicleScans |
| Enrichment queue | `internal/enrichment/*`, `internal/store/enrichment.go`, `cmd/enrichctl`, `cmd/api/main.go` | `enrichment_jobs`, the catalogue and what is attached to cars | enqueue, claim, work, complete, fail, seed, tick, drain |
| Bay session | `cmd/bayui/server.go`, `main.go` | `b.apiURL`, `b.token` under `b.mu`; the token file | login, register, logout, one handler per tab; start and end of the process |
| Accounts | `internal/api/server.go`, `internal/auth`, `store.go`, `cmd/api/main.go` | `organizations`, `technicians`, the settings; tokens in the hands of users | register (reads, then a transaction), login, the admin's requests, the bootstrap of the super admin |
| Diagnosis and packet | `internal/diagnosis/engine.go`, `internal/explain/packet.go` | none | pure: eight rules, a ranking, a cut to a budget, a gate |
| Narrative | `internal/explain/narrative.go` | a `sync.Map` of texts by fingerprint | Load, Delete, one call of a model, Store |
| Detection, mock, obdctl, market, configuration | the rest of `pkg/obd`, `cmd/obdctl`, `internal/market`, `internal/config` | none of their own | tables, a sequential command line |

How they meet: the page asks the bay over HTTP; the bay's goroutine drives `Scanner.Scan`,
which uses the adapter (connection, then commands), and then uploads and asks for one
explanation per code; `createScan` commits the scan and puts a `vin_decode` job in the
queue; workers of every API process and an operator's `enrichctl --drain` share that queue
through the database alone; an explanation reads what all of these have left.

What is hard there: two locks per job, never held together for a whole handler; callbacks
of the page in any order; opens, closes and reads that block for longer than anybody waits
and come back later; answers that are late and belong to another command; statements of one
request with other requests' commits in between; processes that die with a row claimed.

What makes each part correct is the list of properties in the next section, hazard by
hazard in `PROJECT.json`.

## The modules

**BayJobs** (implements **ScanSlot**).  One action per section between two locks of
`handleScan`, `stopScan`, `note` and `runScan`; the stages of `Scan` are actions of the
goroutine.  `job` is `b.job`, `jobs[j]` a `scanJob`, `ctx[j]` its context, `pc[j]` the
goroutine, `handler[c]` a cancel or quit request with what it has read so far.  The log of
50 lines is `LogCap` lines.  The process may quit, which ends every goroutine, and start
again.  ScanSlot is what the bay promises: one slot, taken and given back, one outcome per
scan; `ImplementsSlot` is the refinement.  `finishJob` and the deferred `cancel()` are two
steps: a job is over, and the next scan may start, while the context of its own goroutine is
still live; `OverMeansOutcome` says that this lasts until the goroutine has returned.

**BayPage**.  The server of BayPage is a job with a flag; the page is the callbacks of
`index.html`, one action from a click or an answer to its next `await`.  `calls` are
requests under way, each "sent", then answered with what the server was at that moment, and
taken by its callback at any later time, or failed.  `orderly` is a history variable: it
becomes false when two requests are under way whose answers may overtake each other (two
polls; a scan beside a poll, a state refresh or a sign-out; a sign-out during a scan).  The
safety properties hold as long as it is true, and each part of it is there because the
property fails without it: the page has no protection against stale answers.  `PollsEnd`
does not need it.

**UsbPort**.  A scan walks through `Open`, `initELM`, `reopenAfterUSBReset`, the talk with
the car and `Close`; a command is one step with an outcome.  `handle[h]` is a port: being
opened by a goroutine, held, being closed, with the rate it is set to (`mode`), the rate at
which an ELM gave its name (`spoke`), and whether a read is stuck on it.  The device may
reset at any time, and the next scan starts beside goroutines of the previous one.

**ElmLink**.  The inside of a command: clear the input, write, read until the prompt in a
goroutine, wait, 250 ms of grace.  Clearing the input may fail, and `command` drops that
error (`usb.go:609`): `cleared` has the commands whose reset went through, at most
`MaxFaults` fail.  A chunk carries the command that was current when it came in, and
`AnswerIsFresh` compares it with the last reset that went through.  What the model shows
besides and calls no error: bytes of a late answer that come in after the next command's
reset are returned by that command, and a reader left behind takes bytes of later answers.

**CarRead**.  A text is a sequence of hexadecimal digits and other characters, because what
goes wrong here goes wrong between digits and bytes: `Cut` is `strings.ReplaceAll(raw, cmd,
"")`, `DecodeDTCs`, `EncodeDTC`, `extractVIN` are the functions of the same names.  The
answers of the car (`Reply`, `VinReply`, `LiveReply`) are external.  Before CAN they are lines
of codes led by the service byte (`Line`), and five numbered lines for the VIN; on CAN, which
`ensureBus` asks first, the number of codes comes behind the service byte, and an answer of
more than seven bytes is led by its length and comes in numbered frames (`Framed`).  A sensor
has a line of 41 per ECU, or the refusal 7F 01 12; a reading is the bytes its formula takes.
An answer may be lost, or break off: `command` returns what has come by the end of the 250 ms
of grace or of the port, without an error (`usb.go:635`, `684`), and that is decoded
(`Arrives`, after a number of characters in `Breaks`).  `heard` and `text` keep what came, so
that the properties can ask whether it was whole.  Late answers are ElmLink's.

**ShopScans**.  `createScan` up to its commit holds a connection and, from the upsert on,
the row of the vehicle; `started_at` is taken after the upsert.  `explainCode` is its five
statements in order; `listVehicleScans` keeps the connection of its rows while it asks for
the codes of each.  `at` is the rank of `started_at`.  The 201 is sent also when the job of
the scan could not be enqueued.  A token is of one shop, or of all.

**EnrichmentQueue** (implements **JobTable**). One action per SQL statement or HTTP call of
`Worker.Process`; the claim is two (SELECT ... FOR UPDATE SKIP LOCKED, then UPDATE and
commit). `hand[p]` is what a process is doing, `boot[s]` the start of an API process with its
seed. `run_after` is a bit per row. Rows grow older than the 24 hours `HasRecentJob` looks
back (`GrowsOld`, at most `MaxAged`), and then a start seeds again. A tick whose setting
cannot be read goes on (`TickStartsUnread`); a car decoded again may leave or enter the scope
of the market (`inScope`), which both halves of a decode and the fetch of recalls look at. A
process may die at any point and a statement may be lost, at most `MaxFaults` times. JobTable
is what the table promises of a job, without transactions and stages: it is offered, one
process takes it, that process alone says how the attempt went, and there are at most
`MaxAttempts` attempts; a job nobody came back about stays taken. In `ImplementsTable` the
workers of a row are the processes at a stage of it, and a claim takes the row at its commit.

**Triage** and **Narrator**.  Triage is the pure part of an explanation: every rule of
`Analyze`, its insertion sort, `BuildPacket`, `WorthNarrating`.  Readings are whole numbers
in units that keep every comparison of the code (tenths of a volt, millivolts), and rates
are compared as fractions; `KeepsStrongest` says what ranking and cut must give without
their algorithm.  Narrator runs it: `explainCode` from its findings on, and `Narrate` with
each Load, Delete and Store of the cache as a step, so that requests for one packet meet.
A text is known by the packet it was written for.

**Accounts**.  A registration reads two settings, hashes the password and then runs a
transaction: its rows are seen at its commit, and an INSERT of an e-mail waits for the
transaction that holds it.  Servers start with or without `BOOTSTRAP_ADMIN_*`, count the
super admins, insert theirs or die of its e-mail, and stop at any time with the requests
they had.  `by` of a shop and `allowed` of an account are history: who founded it, and
whether the settings allowed it at some time of the request.

**BaySession**.  A handler is: set the URL, call the API, set the token, open the file,
write it.  The file is truncated and written from its start, so that two tabs can leave the
tail of the longer token (`Torn`).  `clean` is history: whether the last change of the
session was saved undisturbed.

The proofs of a module M are in MProofs; those of BaySession and BayPage are in
BayTabsProofs, those of CarRead, Narrator and Triage in ReportProofs.  MCShopScans,
MCCarRead, MCNarrator, MCAccounts and MCBaySession give values, and symmetries, that a
configuration file cannot write down.

## The runs

| Run | Asks | Bounds |
|---|---|---|
| `bay` | one scan at a time, own lines, one outcome, a cancel spares later scans, refinement of ScanSlot, every scan ends | 2 scans, 1 stop request at a time (it may outlive its scan, which is what two scans are for), 1 code, a log of 1 line |
| `page` | button, interval and stage agree with the job; outcomes are shown; polling ends | 3 scans, 2 requests under way: enough for one answer to overtake another |
| `port` | no handle left, rate in step, only an ELM is talked to, scans and handles end | 3 handles, 2 scans, 2 rates: a scan beside the leftovers of two opens |
| `link` | answers are as fresh as the last reset that went through, only `errStuckSerial` leaves a reader, a command returns | 3 commands, 2 resets that fail: a reader left by the first may meet the third |
| `read` | statuses are right whatever was answered; of readable answers nothing is reported that the car has not stored, and whole ones are reported in full | 352 cars on both buses with up to 3 confirmed, 1 pending and 1 permanent code of 3, in lines of 2 (a second line, and on CAN a second frame); 64 with 2 sensors that no ECU, one or two have or that one refuses; any answer lost or broken off in its second byte, its fifth or behind its first frame |
| `shop` | commits in the order of time, explanations are consistent, only lists of scans starve each other | 2 technicians on 2 connections (both may ask for lists, which uses the pool up), 2 uploads, 1 car, the four ways to assign shops |
| `queue` | one owner per job, refinement of JobTable, done work is done, recalls are in scope, jobs settle | 1 worker and 1 drain, 2 rows, 2 attempts, 1 fault, with and without a catalogue from earlier days |
| `queue_seeds` | no more seeds within 24 hours than servers | 2 servers that start together, stop twice and start again; 3 rows, 2 of which grow older than a day |
| `narrator` | packets hold the strongest findings, a code asked about is enough, texts are of their own packet and asked for once a day | one request for each combination of readings at the thresholds of the rules; then 2 handlers, 2 packets and 4 requests over a day and a half |
| `accounts` | shops have their founders, a restart gets past the bootstrap, nobody registers against the settings | 2 servers with 3 starts, 2 requests at a time and 3 in all, 3 e-mails, 2 shops, 2 requests of an admin |
| `session` | the token file follows the memory | 2 tabs with 3 logins or logouts, 2 APIs, a short and a long token, 1 restart |

A deadlock is allowed only where a run ends by its own bound (`link`, `port`, `read`,
`narrator`, `accounts`, `session`).
The bound of every counter is in a guard and is called a bound where it is declared.
The queue has two runs since two servers with the seeds of two days and all of the jobs of
these need more rows than can be explored: `queue_seeds` has seeds without jobs.  Everything
both runs check except JobsSettle is proved for any number of servers, rows and days.

One run shows that the code does not do what the repository says of it: `queue_stranded`.
Draining is "also handled automatically by the API worker" (`docs/apps-and-install.md:232`),
but a row left `running` by a process that stopped, or by a lost update whose error is
dropped, is never offered again.

Other disagreements that the models contain and that have no run of their own:

- The error of a stopped scan names the phase that was noted last, which is the parking or
  the line of the cancel, and not the step that was stopped (`server.go:350`).
- The line of a late cancel is written into the log of whatever job is current
  (`server.go:282`).
- A drain says "queue empty" with retries and seed steps due later (`enrichctl/main.go:69`).
- Two API processes that start together seed twice (`worker.go:223`); after a day every start
  seeds again, which is what `worker.go:222` is for.
- A car that already has its recalls is asked for again at the NHTSA, since ON CONFLICT DO
  NOTHING counts 0 rows (`worker.go:139`).
- A port on which a read is stuck is written to again by every command after `initELM`, and
  by Close (`usb.go:216`); an Open that fails leaves the chip unparked.
- The 250 ms of grace, and the end of the port, accept part of an answer as a whole one
  (`usb.go:635`, `684`): a report may lack codes without saying so.
- A scan in which modes 03, 07 and 0A were all lost is "Scan read OK" with no codes
  (`usb.go:361`).
- From the second line of a long answer on, `DecodeDTCs` pairs bytes one off (`codes.go:67`;
  its comment at line 49 promises "multi-line responses").  On CAN it does so from the first
  byte on, for it takes the number of codes for half of a code; `usb.go:290` says that the
  cars of Phase 1 are on CAN.  A car whose only stored code is P0300 is reported as P0103
  (CountIsReadAsACode: the report is right for P0101 alone).
- The page: a status answer from before a scan turns "Cancel scan" back into "Scan vehicle"
  while the scan runs; a sign-out at the end of a scan leaves "Cancel scan" for good.
- "The whole scan stops at 50s" (`index.html:341`, `docs/bay-ui.md:46`): the explanations
  run under a background context, up to 45 s each, after the budget and after a cancel.
- `command` removes the text of the command anywhere in the answer, so a car with P0300
  (`430300...` in answer to `03`) has no code or another one
  (`docs/verifying-obd-reads.md:12`).
- "`vehicle.vin` is a 17-character value from the ECU" (line 37), but `extractVIN` takes 17
  digits of the answer's hexadecimal text, lengths, indexes and `4902` included
  (VinIsNotDecoded): cars whose VINs agree in the first three characters, before CAN in the
  first one, share what is uploaded as their VIN (VinsAreShared), and on each bus it is the
  VIN of a car for one VIN only (VinIsWrong).
- A sensor that an ECU refuses has a reading: `decodePayload` takes 7F 01 12 for data from
  the third byte on (`pids.go:70`), a load of 7 % or a coolant of -22 degrees.  Of two ECUs
  whose first answers with the digits of the command, the bytes of the second are taken with
  their header.
- As many lists of scans at once as the pool has connections wait for each other for good
  (`store.go:533`).  The `shop` run reaches it; OnlyListsStarve says that it is the only way.
- A single strong finding beside an article is to be left without a narrative
  (`packet.go:125`, `docs/llm-context.md:40`): the limit of 85 is above every rule
  (`packet.go:133`), so that no request is ever skipped for it (TheSkipIsNeverTaken).
- Asked about P0174 the air-mass rule wants a lean code in the scan, asked about P0171 it
  does not (`engine.go:139`).  A co-occurrence is in the packet from one scan on, and a
  finding from two.
- "force=true when caller passed narrative=1" (`narrative.go:53`): only
  `force_narrative=1` does.
- The model has 45 s and so has the client of the bay (`cmd/bayui/main.go:37`): a model
  that stalls costs the whole explanation, not just its narrative.
- The Delete of an expired text takes whatever is there by then (`narrative.go:78`).
- A setting that cannot be read closes the registration when it is `allow_self_register`
  and waives the invite when it is `require_invite_code` (`store.go:235`).
- An account that registered under the e-mail of the bootstrap keeps the API from starting.
  A super admin who was deactivated counts as one, so no start replaces him.  A shop that
  the super admin made has no admin of its own, and no request makes one.
- A login that fails leaves the API it named with the token of the old one
  (`bayui/server.go:119`), and a scan that runs makes its next call so; a restart takes the
  API of the flag with the token of the file.
- Two tabs that sign in or out at once can leave the file with another session than the
  memory, or with a torn token; errors of the file are dropped (`bayui/server.go:130`).

## Fairness

- `BayJobs`: the goroutine of a scan goes on (weak fairness): every stage of it has a time
  limit of its own.  Nothing is asked of users or of the process.
- `BayPage`: the bay answers, scans end (which is `ScanEnds` of BayJobs), callbacks run; and
  polls do not fail for ever (strong fairness of the interval, the answers and the callback
  of polls).
- `UsbPort`, `ElmLink`: timers fire, goroutines run, an open and a close end; nothing is
  asked of the adapter, of the device or of a Read in the kernel.
- `EnrichmentQueue`: time passes, a worker ticks, a stage ends (every HTTP call has a
  limit), and a server that stopped is started again.  `JobsSettle` is about runs without
  faults in which the setting is left on; `queue_stranded` shows why faults are excluded.
- `ShopScans`, `CarRead`, `Narrator`, `Accounts` and `BaySession` have safety properties only
  and no fairness; which requests to the shop's database can wait for good is
  OnlyListsStarve, a property of states.

## What is proved

All theorems are for every value of the constants under the named assumptions of their module
(`BayJobsAssumption`, `QueueAssumption`, `LinkAssumption`, `ShopAssumption`,
`ClientsAssumption`, `PortAssumption`, `PageAssumption`, `ReadAssumption`,
`NarratorAssumption`, `AccountsAssumption`, `SessionAssumption`, `TokenAssumption`), which
say that bounds are natural numbers, that servers and clients are finitely many, that special
values are not ordinary ones and what a car or an input is. Each follows one argument: an
inductive invariant, one step per action, and the property as a consequence.  The inductive
invariants hold on the instances of the runs (each was an INVARIANT of its run before it was
proved); the runs keep what follows from them.

- **BayJobsProofs**: `SlotInv` is OneScanAtATime with what it needs: busy, the goroutine and
  its pending line go together; the job a note has read is its own (this is what makes the
  second look-up of `b.job` harmless, and LinesAreOwn follows); a stop request that has not
  fired holds the job that was current when it came in, so CancelSparesLaterScans.
  `OutcomeInv` says that a job is over from `finishJob` on, that its goroutine goes there
  with an error exactly when the scan failed, and that its context may outlive the job only
  while the goroutine is about to return; OverMeansOutcome is part of it.  `Refinement` proves
  ImplementsSlot: the state of the slot is a function of `jobs` and `busy`, and each action
  of BayJobs starts, ends or cancels a scan of the slot or is none of its business.
- **EnrichmentQueueProofs**: OneOwner is not inductive, because the claim is two steps.
  `QueueInv` adds that a locked row is pending, that a stage fits its row and that rows not
  inserted are free; SettledStays follows although the updates never look at the status.
  `WorkInv` says what a stage of a worker has read and done of its row so far, and what a
  done row leaves behind, which no later step of any process takes back: DoneMeansDone and
  RecallsAreInScope. `TableImplemented` is the refinement: a step of the table and its
  processes shows nothing, or one thing of one job (`Shown`), and each of these is an action
  of JobTable. That a claim takes a row nobody works on, and that whoever settles a row is
  the only one at work on it, is OneOwner; that no attempt too many is made is the part of
  QueueInv about attempts. `BootInv` counts the seeds of the last 24 hours with those that
  starting servers are about to insert: there are no more of them than servers
  (SeedsBounded), though every check and its insert are two statements.
- **ElmLinkProofs**: `LinkInv` says that a chunk in the input is as new as the last reset
  that went through, and one in a reader's hands as new as the last one before that reader.
  From it AnswerIsFresh, with readers of older commands still on the port, and
  OnlyStuckLeavesReader.
- **UsbPortProofs**: `PortInv` adds to the three properties where the scan has a port and
  where it waits for one; NoHandleLeft alone is not inductive, because a scan that gives up
  must know that it holds nothing else.  The proof splits it by variables (flags, places and
  counters, port and handles) and the actions by what they do to the handles: nothing, one
  record, a port abandoned, taken, identified.
- **ShopScansProofs**: `ShopInv` says that an upload between its upsert and its commit is
  alone with its vehicle and has a later time than all of its scans; that gives
  CommitsInOrder, and with it the answers of the five statements can be ordered
  (CodesAreNewest, OwnScanIsSeen).  OwnOrg is part of it and not a property of the run.
  OnlyListsStarve: who waits for a row waits for its owner, who has a connection
  (`WaitInv`), and who waits for a connection waits for the owners of all of them; when none
  of these can go on, each is a list that waits for a second one.  No assumption on the
  number of lists is made: what the theorem leaves open is the deadlock of `store.go:533`,
  and nothing else.  `HandlerTo(c)` gives the states a handler can go to: CanGoIsEnough shows
  that the handler's steps are the steps to these, and that there are some just when CanGo
  holds; HandlersGoOn that some handler has one while a request is under way and the lists
  leave a connection.
- **ReportProofs**, CarRead: StatusIsRight for any answers: the one rule of the merge gives
  the right status only because the modes are asked in that order, which is `Order`.
  `OneNamePerCode`: encodeDTC is injective over all pairs of bytes.  ReportIsTheCars is about
  the text: `DigitsAre` says what the loop over its characters collects, `BytesAre` that a
  text which begins with a line of bytes gives those bytes first, `DecodesOneLine` that
  DecodeDTCs finds the codes of a line between its service byte and its filling, also of a
  line that broke off, whose last digit it drops; `DecodesFirst` that a sensor reads the
  first of any number of lines, or nothing of part of one.  The property is about answers in
  which the digits of the command do not occur, where `Cut` is the identity
  (`ReadableMeans` says what Readable and LiveReadable ask for: no code, or one line of a
  bus before CAN); that it is not elsewhere is what TLC's codes and data with the command in
  them are for, and what is reported on CAN is CountIsReadAsACode.
  The VIN is followed through the answer to 0902, for every VIN, on both buses and wherever
  the answer breaks off: `CanVinBegins` and `LegacyVinBegins` say what every answer begins
  with, `CutKeepsFront` that the removal of the digits 0902 leaves that, and `CanFronts` and
  `LegacyFronts` that the first 17 characters extractVIN keeps come from it and look like a
  VIN, so that `VinFound` has either those (`RawVin`) or nothing.  VinsAreShared and VinIsWrong
  say which VINs are read alike and that only one per bus is read right.
- **ReportProofs**, Triage and Narrator: what the engine computes is proved for every input.
  `FoldRanks` is the insertion sort: the fold of `Insert` over findings of which no two are
  equally sure gives all of them, in order (an induction over the positions, as a set of
  numbers that contains 0 and the successors of its elements).  `FindingsWithin` says that
  the findings of the eight rules are such findings.  With `PacketKeeps` that gives
  StrongestInPacket and, as no rule is at 85, TheSkipIsNeverTaken.  FocusIsEnough goes rule
  by rule over an input and the same input with its focus among the codes.  `NarratorInv`
  says that an entry of the cache has the text of its own key and that a text stored less
  than TTL ago is found unless `raced` has its key; TextIsOwn and CachedForADay follow,
  Deletes that meet included.
- **AccountsProofs**: `AccountsInv` says of a transaction what its commit will make true:
  its e-mail and its new shop are nobody's yet, no other transaction adds the same (`Apart`),
  and the settings it read were those of a time of the request.  FounderOwnsShop and
  RulesInForce follow.  RestartHeals needs that a server that died saw the e-mail taken,
  which it stays (`ServerOK`).
- **BayTabsProofs**: `SessionInv` says that a handler which saves an undisturbed change
  is the only one that does, and has the token of the memory.  FileFollows follows.
  `PageInv` is about the requests under way of BayPage, as long as no answer could overtake
  another (`orderly`): the interval has one status request at most and nobody asks beside a
  request for a scan (`OneAsks`), a poll is answered about the last scan the page has
  started or a later one (`PollsAreRecent`), and a page whose button is not at "Cancel scan"
  shows the outcome of that scan (`AtRest`).  ButtonFollows and NothingMissed follow.

Type invariants are theorems (`TypeCorrect`, `AccountTypes`, `SessionTypes`, `PageTypes`,
`ReadTypes`), and so is SettledStays, of which ImplementsTable says the most; they are not
properties of the runs; that of Narrator is a part of NarratorInv.

Model-checked only: every liveness property (ScanEnds, PollsEnd, OutcomeIsShown, ScanReturns,
HandlesReturn, CommandReturns, JobsSettle), for which the prover has no rules.

## What is not modelled, and the plan

Not modelled: the scale of a sensor, the confidence of a link, rendering, the wording of
findings, prompts and articles, SQL beyond what a statement reads and writes, bcrypt and the
signature of a JWT, `obdctl` (a sequential command line over the same Scanner and the same
requests), the tables of `internal/market` and `internal/config`, schema migrations as such,
packaging.

Next to be modelled: late answers in CarRead, that is, which of ElmLink's late answers end up
under which sensor, over the list of `ReadLiveSnapshot`.
