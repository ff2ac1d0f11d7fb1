------------------------------ MODULE ElmLink ------------------------------
(***************************************************************************)
(* One open port between the bay and an ELM327 adapter: USBAdapter.command *)
(* and readUntilPrompt (pkg/obd/usb.go).  A command clears the port's      *)
(* input, writes a line and starts a goroutine that reads until a prompt;  *)
(* it waits for that goroutine until its time is over and 250 ms more, and *)
(* then leaves it behind.  The caller goes on to its next command whatever *)
(* this one returned (ReadDTCs, the freeze frames, the live sensors).      *)
(*                                                                         *)
(* Bytes are grouped into chunks: an answer is at most a part without the  *)
(* prompt and a part with it.                                              *)
(***************************************************************************)
EXTENDS Integers, Sequences, FiniteSets

CONSTANTS
  MaxCommands,  \* bound: commands of one run
  MaxFaults     \* bound: resets that fail

ASSUME LinkAssumption == MaxCommands \in Nat \ {0} /\ MaxFaults \in Nat

Commands == 1..MaxCommands

VARIABLES
  sent,     \* commands begun so far; the last one is the current one
  cleared,  \* the commands whose ResetInputBuffer went through: its error is dropped
  pc,       \* where command() is: "idle", "write", "wait", "grace"
  expired,  \* whether the context of each command is over
  adapter,  \* for each command it has received and not answered: is its answer begun?
  input,    \* the port's input: chunks not yet read
  reader,   \* the goroutine of each command
  result    \* what each command returned

vars == <<sent, cleared, pc, expired, adapter, input, reader, result>>

NoReader == [st |-> "none", got |-> <<>>]
Pending  == [st |-> "pending", got |-> <<>>]

\* st: "reading", or how readUntilPrompt returned.
ReaderStates == {"none", "reading", "prompt", "context", "closed"}
Returned(i)  == reader[i].st \in {"prompt", "context", "closed"}

\* "at" is not in the bytes: the command that was current when the chunk came in.
Chunks == [end : BOOLEAN, at : Commands]

Init ==
  /\ sent = 0
  /\ cleared = {}
  /\ pc = "idle"
  /\ expired = [i \in Commands |-> FALSE]
  /\ adapter = <<>>
  /\ input = <<>>
  /\ reader = [i \in Commands |-> NoReader]
  /\ result = [i \in Commands |-> Pending]
-----------------------------------------------------------------------------
(* The adapter *)

\* It sends the next part of its oldest answer: at most one part without prompt.
AdapterSends(end) ==
  /\ adapter # <<>>
  /\ ~end => ~Head(adapter)
  /\ input' = Append(input, [end |-> end, at |-> sent])
  /\ adapter' = IF end THEN Tail(adapter) ELSE <<TRUE>> \o Tail(adapter)
  /\ UNCHANGED <<sent, cleared, pc, expired, reader, result>>

\* It gives up its oldest answer without a prompt.
AdapterDrops ==
  /\ adapter # <<>>
  /\ adapter' = Tail(adapter)
  /\ UNCHANGED <<sent, cleared, pc, expired, input, reader, result>>
-----------------------------------------------------------------------------
(* command() *)

\* Mutant of ClearInput: no ResetInputBuffer.
ClearInputNot ==
  /\ pc = "idle"
  /\ sent < MaxCommands
  /\ sent' = sent + 1
  /\ pc' = "write"
  /\ cleared' = cleared \cup {sent + 1}
  /\ UNCHANGED <<expired, adapter, input, reader, result>>

\* ResetInputBuffer, which may fail.
ClearInput ==
  /\ pc = "idle"
  /\ sent < MaxCommands
  /\ sent' = sent + 1
  /\ pc' = "write"
  /\ \/ cleared' = cleared \cup {sent + 1} /\ input' = <<>>
     \/ sent - Cardinality(cleared) < MaxFaults /\ UNCHANGED <<cleared, input>>
  /\ UNCHANGED <<expired, adapter, reader, result>>

\* Write, and the goroutine that reads.
Write ==
  /\ pc = "write"
  /\ pc' = "wait"
  /\ adapter' = Append(adapter, FALSE)
  /\ reader' = [reader EXCEPT ![sent].st = "reading"]
  /\ UNCHANGED <<sent, cleared, expired, input, result>>

\* An error of Write ends the command.
WriteFails ==
  /\ pc = "write"
  /\ pc' = "idle"
  /\ result' = [result EXCEPT ![sent].st = "error"]
  /\ UNCHANGED <<sent, cleared, expired, adapter, input, reader>>

\* The command's own limit, or the caller's context, is over.
Expires ==
  /\ pc = "wait"
  /\ ~expired[sent]
  /\ expired' = [expired EXCEPT ![sent] = TRUE]
  /\ UNCHANGED <<sent, cleared, pc, adapter, input, reader, result>>

HasPrompt(chunks) == \E k \in DOMAIN chunks : chunks[k].end

\* A command that returned without its goroutine.
Left(i) == result[i].st # "pending"

\* Where the goroutine of command i comes to: one that was left behind puts its
\* outcome into a channel nobody reads.
Comes(i, st, got) ==
  reader' = [reader EXCEPT ![i] =
    IF ~Left(i) THEN [st |-> st, got |-> got]
    ELSE IF st = "reading" THEN [st |-> st, got |-> <<>>] ELSE NoReader]

\* One Read returns what has come in, or a part of it.  Without a prompt in all
\* that was read, the loop looks at its context before it reads on.
Reads(i) ==
  /\ reader[i].st = "reading"
  /\ \E n \in 1..Len(input) :
       LET got == reader[i].got \o SubSeq(input, 1, n) IN
         /\ input' = SubSeq(input, n + 1, Len(input))
         /\ Comes(i, IF HasPrompt(got) THEN "prompt"
                     ELSE IF expired[i] THEN "context" ELSE "reading", got)
  /\ UNCHANGED <<sent, cleared, pc, expired, adapter, result>>

\* A Read that times out with nothing: the loop sees that its context is over.
\* A Read that is stuck in the kernel never gets here.
SeesContext(i) ==
  /\ reader[i].st = "reading"
  /\ expired[i]
  /\ Comes(i, "context", reader[i].got)
  /\ UNCHANGED <<sent, cleared, pc, expired, adapter, input, result>>

\* The port is dead: what was read so far is the answer, if anything was.
SeesEOF(i) ==
  /\ reader[i].st = "reading"
  /\ Comes(i, IF reader[i].got = <<>> THEN "closed" ELSE "prompt", reader[i].got)
  /\ UNCHANGED <<sent, cleared, pc, expired, adapter, input, result>>

\* The command returns, and its deferred cancel() ends its context.  Nobody is left
\* to look at what its goroutine has read, or goes on to read.
Return(st, got) ==
  /\ pc' = "idle"
  /\ result' = [result EXCEPT ![sent] = [st |-> st, got |-> got]]
  /\ expired' = [expired EXCEPT ![sent] = TRUE]
  /\ reader' = [reader EXCEPT ![sent] =
                  IF @.st = "reading" THEN [@ EXCEPT !.got = <<>>] ELSE NoReader]
  /\ UNCHANGED <<sent, cleared, adapter, input>>

\* The select takes the goroutine's outcome, even if the time is over too.
TakesOutcome ==
  /\ pc = "wait"
  /\ Returned(sent)
  /\ IF reader[sent].st = "prompt"
     THEN Return("answer", reader[sent].got)
     ELSE Return("error", <<>>)

\* Mutant of TakesTimeout: returns at once.
TakesTimeoutReturns ==
  /\ pc = "wait"
  /\ expired[sent]
  /\ Return("error", <<>>)

\* The select takes the end of the time.
TakesTimeout ==
  /\ pc = "wait"
  /\ expired[sent]
  /\ pc' = "grace"
  /\ UNCHANGED <<sent, cleared, expired, adapter, input, reader, result>>

\* In the 250 ms after that an outcome counts by its text, not by its error.
TakesLateOutcome ==
  /\ pc = "grace"
  /\ Returned(sent)
  /\ IF reader[sent].got # <<>>
     THEN Return("answer", reader[sent].got)
     ELSE Return("error", <<>>)

\* Mutant of LeavesReader: waits for the goroutine.
LeavesReaderNever ==
  /\ pc = "grace"
  /\ Returned(sent)
  /\ Return("stuck", <<>>)

\* The 250 ms are over too: errStuckSerial, and the goroutine is left behind.
LeavesReader ==
  /\ pc = "grace"
  /\ Return("stuck", <<>>)
-----------------------------------------------------------------------------
Command ==
  \/ ClearInput \/ Write \/ WriteFails
  \/ TakesOutcome \/ TakesTimeout \/ TakesLateOutcome \/ LeavesReader

Reader(i) == Reads(i) \/ SeesContext(i) \/ SeesEOF(i)

Next ==
  \/ Command \/ Expires
  \/ \E i \in Commands : Reader(i)
  \/ \E end \in BOOLEAN : AdapterSends(end)
  \/ AdapterDrops

Spec == Init /\ [][Next]_vars

\* Timers fire and the bay's goroutine runs.  Nothing is asked of the adapter,
\* nor of a Read, which can stay in the kernel.
FairSpec == Spec /\ WF_vars(Command) /\ WF_vars(Expires)
-----------------------------------------------------------------------------
(* Properties *)

\* Every variable keeps its type.
TypeOK ==
  /\ sent \in 0..MaxCommands
  /\ cleared \in SUBSET Commands
  /\ pc \in {"idle", "write", "wait", "grace"}
  /\ expired \in [Commands -> BOOLEAN]
  /\ adapter \in Seq(BOOLEAN)
  /\ input \in Seq(Chunks)
  /\ reader \in [Commands -> [st : ReaderStates, got : Seq(Chunks)]]
  /\ result \in [Commands -> [st : {"pending", "answer", "error", "stuck"}, got : Seq(Chunks)]]

\* Nothing that was in the port before a command was begun is in its answer, nor in
\* that of a later one, if its ResetInputBuffer went through: though goroutines of
\* earlier commands still read from the same port, and later resets may fail.
AnswerIsFresh ==
  \A i \in Commands : \A k \in DOMAIN result[i].got :
    \A j \in cleared : j <= i => result[i].got[k].at >= j

\* A goroutine is left behind on the port only by a command that says so: after
\* any other outcome the port has no second reader.
OnlyStuckLeavesReader ==
  \A i \in Commands :
    reader[i].st = "reading" =>
      \/ i = sent /\ pc \in {"wait", "grace"}
      \/ result[i].st = "stuck"

\* Chunks that no reset before the answer of command i has thrown away.
Since(done, i) == { c \in Chunks : \A j \in done : j <= i => c.at >= j }

\* The inductive form of the two: a chunk in the input is as new as the last reset,
\* one in the hands of a goroutine as new as the last reset before that goroutine,
\* and commands not begun have no outcome.
LinkInv ==
  /\ OnlyStuckLeavesReader
  /\ input \in Seq(Since(cleared, sent))
  /\ \A i \in Commands :
       /\ reader[i].got \in Seq(Since(cleared, i))
       /\ result[i].got \in Seq(Since(cleared, i))
       /\ reader[i].st # "none" => i <= sent
       /\ i > sent => reader[i].got = <<>> /\ result[i].got = <<>>
       /\ i > sent \/ (i = sent /\ pc = "write") => result[i].st = "pending"
  /\ \A j \in cleared : j <= sent
  /\ pc # "idle" => sent > 0
  /\ adapter # <<>> => sent > 0

\* A command comes to an end even if the adapter is silent and its Read is stuck
\* in the kernel.
CommandReturns == (pc = "wait") ~> (pc = "idle")
=============================================================================
