--------------------------- MODULE ElmLinkProofs ---------------------------
(***************************************************************************)
(* Proofs about ElmLink for any number of commands: types, answers that    *)
(* hold nothing older than their command, and a port with one reader       *)
(* unless a command was reported stuck.                                    *)
(***************************************************************************)
EXTENDS ElmLink, SequenceTheorems, TLAPS

USE LinkAssumption DEF LinkAssumption, Commands

AdapterQueue == Seq(BOOLEAN)
Readers      == [st : ReaderStates, got : Seq(Chunks)]
Results      == [st : {"pending", "answer", "error", "stuck"}, got : Seq(Chunks)]

Inv == TypeOK /\ LinkInv
-----------------------------------------------------------------------------
(* Chunks *)

\* What is new for a later command is new for an earlier one.
LEMMA SinceMonotonic ==
  ASSUME NEW i \in Int, NEW j \in Int, i <= j, NEW done \in SUBSET Commands
  PROVE  Since(done, j) \subseteq Since(done, i)
  BY DEF Since, Chunks

\* A reset that comes later throws away nothing that was read before.
LEMMA SinceKept ==
  ASSUME NEW i \in Int, NEW k \in Int, i < k, NEW done \in SUBSET Commands
  PROVE  Since(done \cup {k}, i) = Since(done, i)
  BY DEF Since, Chunks

LEMMA SinceIsChunks == \A done, i : Since(done, i) \subseteq Chunks
  BY DEF Since

\* A Read splits the input in two.
LEMMA Split ==
  ASSUME NEW S, NEW s \in Seq(S), NEW n \in 1..Len(s)
  PROVE  SubSeq(s, 1, n) \in Seq(S) /\ SubSeq(s, n + 1, Len(s)) \in Seq(S)
  <1>1. Len(s) \in Nat
    BY LenProperties
  <1>2. SubSeq(s, 1, n) \in Seq(S)
    BY <1>1, SubSeqProperties
  <1>3. SubSeq(s, n + 1, Len(s)) \in Seq(S)
    <2>1. CASE n = Len(s)
      <3>1. SubSeq(s, n + 1, Len(s)) = <<>>
        BY <1>1, <2>1, SubSeqEmpty
      <3> QED BY <3>1, EmptySeq
    <2>2. CASE n < Len(s)
      <3>1. n + 1 \in 1..Len(s) /\ Len(s) \in 1..Len(s)
        BY <1>1, <2>2
      <3> QED BY <1>1, <3>1, SubSeqProperties
    <2> QED BY <1>1, <2>1, <2>2
  <1> QED BY <1>2, <1>3

\* A goroutine's outcome with the text it has read.
LEMMA ReaderRecord ==
  /\ \A st \in ReaderStates : \A got \in Seq(Chunks) :
       LET r == [got |-> got, st |-> st] IN r \in Readers /\ r.st = st /\ r.got = got
  /\ \A r \in Readers : \A st \in ReaderStates :
       LET x == [r EXCEPT !.st = st] IN x \in Readers /\ x.st = st /\ x.got = r.got
  BY DEF Readers

\* A command's outcome with the text it returns.
LEMMA ResultRecord ==
  /\ \A st \in {"pending", "answer", "error", "stuck"} : \A got \in Seq(Chunks) :
       LET r == [st |-> st, got |-> got] IN r \in Results /\ r.st = st /\ r.got = got
  /\ \A r \in Results : \A st \in {"pending", "answer", "error", "stuck"} :
       LET x == [r EXCEPT !.st = st] IN x \in Results /\ x.st = st /\ x.got = r.got
  BY DEF Results

\* The same invariant with named sets, and with the current command at hand.
LEMMA State ==
  ASSUME Inv
  PROVE  /\ reader \in [Commands -> Readers] /\ result \in [Commands -> Results]
         /\ adapter \in AdapterQueue
         /\ sent \in 0..MaxCommands /\ sent \in Int
         /\ cleared \in SUBSET Commands
         /\ pc # "idle" => sent \in Commands
         /\ input \in Seq(Since(cleared, sent)) /\ input \in Seq(Chunks)
  BY DEF Inv, TypeOK, LinkInv, Readers, Results, AdapterQueue
-----------------------------------------------------------------------------
(* Steps *)

\* The adapter sends a chunk, or gives up.
LEMMA AdapterKeeps ==
  ASSUME Inv, AdapterDrops \/ \E end \in BOOLEAN : AdapterSends(end)
  PROVE  Inv'
  <1>1. /\ adapter \in AdapterQueue /\ adapter # <<>>
        /\ UNCHANGED <<sent, cleared, pc, expired, reader, result>>
    BY State DEF AdapterDrops, AdapterSends
  <1>2. sent \in Commands /\ sent > 0
    BY <1>1, State DEF Inv, LinkInv
  <1>3. Tail(adapter) \in AdapterQueue
    BY <1>1, HeadTailProperties DEF AdapterQueue
  <1>4. adapter' \in AdapterQueue
    <2>1. CASE AdapterDrops
      BY <1>3, <2>1 DEF AdapterDrops
    <2>2. ASSUME NEW end \in BOOLEAN, AdapterSends(end)
          PROVE  adapter' \in AdapterQueue
      <3>1. <<TRUE>> \in AdapterQueue
        BY DEF AdapterQueue
      <3>2. <<TRUE>> \o Tail(adapter) \in AdapterQueue
        BY <1>3, <3>1, ConcatProperties DEF AdapterQueue
      <3> QED BY <1>3, <2>2, <3>2 DEF AdapterSends
    <2> QED BY <2>1, <2>2
  <1>5. input' \in Seq(Since(cleared, sent)) /\ input' \in Seq(Chunks)
    <2>1. CASE AdapterDrops
      BY <2>1, State DEF AdapterDrops
    <2>2. ASSUME NEW end \in BOOLEAN, AdapterSends(end)
          PROVE  input' \in Seq(Since(cleared, sent))
      <3> DEFINE c == [end |-> end, at |-> sent]
      <3>1. c \in Since(cleared, sent)
        BY <1>2, State DEF Since, Chunks
      <3> HIDE DEF c
      <3>2. input' = Append(input, c)
        BY <2>2 DEF AdapterSends, c
      <3> QED BY <3>1, <3>2, State, AppendProperties
    <2>3. input' \in Seq(Since(cleared, sent))
      BY <2>1, <2>2, State DEF AdapterDrops
    <2> QED BY <2>3, State, SinceIsChunks, SeqMonotonic
  <1> QED BY <1>1, <1>2, <1>4, <1>5
          DEF Inv, TypeOK, LinkInv, OnlyStuckLeavesReader, AdapterQueue

\* Wherever a goroutine comes to, what it has is as new as it was.
LEMMA Coming ==
  ASSUME Inv, NEW i \in Commands, NEW st \in ReaderStates,
         NEW got \in Seq(Since(cleared, i)), got \in Seq(Chunks), Comes(i, st, got)
  PROVE  \E r \in Readers : reader' = [reader EXCEPT ![i] = r] /\ r.got \in Seq(Since(cleared, i))
  <1>1. \A S : <<>> \in Seq(S)
    BY EmptySeq
  <1>2. [st |-> st, got |-> got] \in Readers /\ [st |-> st, got |-> <<>>] \in Readers
    BY <1>1 DEF Readers
  <1>3. NoReader \in Readers /\ NoReader.got = <<>>
    BY <1>1 DEF NoReader, Readers, ReaderStates
  <1> QED BY <1>1, <1>2, <1>3 DEF Comes

\* A goroutine reads, or sees why it should not.
LEMMA ReaderKeeps ==
  ASSUME Inv, NEW i \in Commands, Reader(i)
  PROVE  Inv'
  <1>1. /\ reader[i].st = "reading" /\ i <= sent
        /\ UNCHANGED <<sent, cleared, pc, expired, adapter, result>>
    BY DEF Reader, Reads, SeesContext, SeesEOF, Inv, LinkInv
  <1>2. /\ sent \in Int /\ i \in Int
        /\ reader \in [Commands -> Readers] /\ reader[i] \in Readers
        /\ reader[i].got \in Seq(Since(cleared, i)) /\ reader[i].got \in Seq(Chunks)
    <2>1. sent \in Int /\ i \in Int /\ reader \in [Commands -> Readers]
      BY State
    <2>2. reader[i] \in Readers
      BY <2>1
    <2>3. reader[i].got \in Seq(Since(cleared, i))
      BY DEF Inv, LinkInv
    <2> QED BY <2>1, <2>2, <2>3 DEF Readers
  <1>3. PICK r \in Readers : /\ reader' = [reader EXCEPT ![i] = r]
                             /\ r.got \in Seq(Since(cleared, i))
                             /\ input' \in Seq(Since(cleared, sent))
    <2>1. CASE Reads(i)
      <3>1. PICK n \in 1..Len(input) :
              /\ input' = SubSeq(input, n + 1, Len(input))
              /\ \E st \in {"prompt", "context", "reading"} :
                   Comes(i, st, reader[i].got \o SubSeq(input, 1, n))
        BY <2>1 DEF Reads
      <3>2. SubSeq(input, 1, n) \in Seq(Since(cleared, sent)) /\ input' \in Seq(Since(cleared, sent))
        BY <3>1, State, Split
      <3>3. SubSeq(input, 1, n) \in Seq(Since(cleared, i))
        <4>1. Since(cleared, sent) \subseteq Since(cleared, i)
          BY <1>1, <1>2, State, SinceMonotonic
        <4> QED BY <3>2, <4>1, SeqMonotonic
      <3> DEFINE got == reader[i].got \o SubSeq(input, 1, n)
      <3>4. got \in Seq(Since(cleared, i))
        BY <1>2, <3>3, ConcatProperties
      <3>5. got \in Seq(Chunks)
        BY <1>2, <3>4, SinceIsChunks, SeqMonotonic
      <3>6. PICK st \in {"prompt", "context", "reading"} : Comes(i, st, got)
        BY <3>1
      <3> HIDE DEF got
      <3> QED BY <3>2, <3>4, <3>5, <3>6, Coming DEF ReaderStates
    <2>2. CASE SeesContext(i) \/ SeesEOF(i)
      <3>1. PICK st \in ReaderStates : Comes(i, st, reader[i].got)
        BY <2>2 DEF SeesContext, SeesEOF, ReaderStates
      <3>2. input' \in Seq(Since(cleared, sent))
        BY <2>2, State DEF SeesContext, SeesEOF
      <3> QED BY <1>2, <3>1, <3>2, Coming
    <2> QED BY <2>1, <2>2 DEF Reader
  <1>4. /\ reader' \in [Commands -> Readers] /\ reader'[i] = r
        /\ \A j \in Commands : j # i => reader'[j] = reader[j]
    BY <1>2, <1>3
  <1>5. input' \in Seq(Chunks)
    BY <1>2, <1>3, SinceIsChunks, SeqMonotonic
  <1>6. TypeOK'
    BY <1>1, <1>4, <1>5 DEF Inv, TypeOK, Readers
  <1>7. OnlyStuckLeavesReader'
    BY <1>1, <1>4 DEF Inv, LinkInv, OnlyStuckLeavesReader
  <1>8. \A j \in Commands : /\ reader'[j].got \in Seq(Since(cleared, j))
                            /\ reader'[j].st # "none" => j <= sent
                            /\ j > sent => reader'[j].got = <<>>
    BY <1>1, <1>2, <1>3, <1>4 DEF Inv, LinkInv
  <1> QED BY <1>1, <1>3, <1>6, <1>7, <1>8 DEF Inv, LinkInv

\* What Return does, once the goroutine is done with or the command is stuck.
LEMMA ReturnKeeps ==
  ASSUME Inv, NEW st \in {"answer", "error", "stuck"}, NEW got,
         Return(st, got), pc \in {"wait", "grace"},
         got = <<>> \/ got = reader[sent].got,
         Returned(sent) \/ st = "stuck"
  PROVE  Inv'
  <1>1. sent \in Commands /\ result \in [Commands -> Results]
    BY State
  <1>2. got \in Seq(Since(cleared, sent)) /\ got \in Seq(Chunks)
    BY <1>1, EmptySeq, SinceIsChunks, SeqMonotonic DEF Inv, LinkInv, TypeOK
  <1> DEFINE r == [st |-> st, got |-> got]
  <1>3. r \in Results /\ r.st = st /\ r.got = got
    BY <1>2, ResultRecord
  <1>4. /\ result' = [result EXCEPT ![sent] = r] /\ pc' = "idle"
        /\ UNCHANGED <<sent, cleared, adapter, input>>
    BY DEF Return
  <1> HIDE DEF r
  <1>5. /\ result' \in [Commands -> Results] /\ result'[sent] = r
        /\ \A j \in Commands : j # sent => result'[j] = result[j]
    BY <1>1, <1>3, <1>4
  <1>6. PICK q \in Readers : /\ reader' = [reader EXCEPT ![sent] = q] /\ q.got = <<>>
                             /\ q.st = "reading" => reader[sent].st = "reading"
    <2>1. reader[sent] \in Readers /\ <<>> \in Seq(Chunks)
      BY <1>1, State, EmptySeq
    <2>2. NoReader \in Readers /\ NoReader.got = <<>> /\ NoReader.st = "none"
      BY <2>1 DEF NoReader, Readers, ReaderStates
    <2>3. \A x \in Readers : LET y == [x EXCEPT !.got = <<>>]
                             IN  y \in Readers /\ y.got = <<>> /\ y.st = x.st
      BY <2>1 DEF Readers
    <2>4. reader' = [reader EXCEPT ![sent] =
            IF reader[sent].st = "reading" THEN [reader[sent] EXCEPT !.got = <<>>] ELSE NoReader]
      BY DEF Return
    <2> QED BY <2>1, <2>2, <2>3, <2>4
  <1>7. /\ reader' \in [Commands -> Readers] /\ reader'[sent] = q
        /\ \A j \in Commands : j # sent => reader'[j] = reader[j]
    BY <1>1, <1>6, State
  <1>8. expired' \in [Commands -> BOOLEAN]
    BY DEF Return, Inv, TypeOK
  <1>9. TypeOK'
    BY <1>4, <1>5, <1>7, <1>8 DEF Inv, TypeOK, Results, Readers
  <1>10. OnlyStuckLeavesReader'
    BY <1>3, <1>4, <1>5, <1>6, <1>7 DEF Inv, LinkInv, OnlyStuckLeavesReader, Returned
  <1>11. \A j \in Commands : /\ result'[j].got \in Seq(Since(cleared, j))
                             /\ j > sent => result'[j].st = "pending" /\ result'[j].got = <<>>
    BY <1>1, <1>2, <1>3, <1>5 DEF Inv, LinkInv
  <1>12. \A j \in Commands : /\ reader'[j].got \in Seq(Since(cleared, j))
                             /\ reader'[j].st # "none" => j <= sent
                             /\ j > sent => reader'[j].got = <<>>
    <2> SUFFICES ASSUME NEW j \in Commands
                 PROVE  /\ reader'[j].got \in Seq(Since(cleared, j))
                        /\ reader'[j].st # "none" => j <= sent
                        /\ j > sent => reader'[j].got = <<>>
      OBVIOUS
    <2>1. CASE j = sent
      <3>1. reader'[j].got = <<>> /\ ~(j > sent) /\ j <= sent
        BY <1>1, <1>6, <1>7, <2>1
      <3> QED BY <3>1, EmptySeq
    <2>2. CASE j # sent
      <3>1. reader'[j] = reader[j]
        BY <1>7, <2>2
      <3> QED BY <3>1 DEF Inv, LinkInv
    <2> QED BY <2>1, <2>2
  <1> QED BY <1>4, <1>9, <1>10, <1>11, <1>12 DEF Inv, LinkInv

\* The steps of command().
LEMMA CommandKeeps ==
  ASSUME Inv, Command \/ Expires
  PROVE  Inv'
  <1>1. CASE ClearInput
    <2> DEFINE k == sent + 1
    <2>1. /\ pc = "idle" /\ pc' = "write" /\ sent' = k /\ sent < MaxCommands
          /\ \/ cleared' = cleared \cup {k} /\ input' = <<>>
             \/ cleared' = cleared /\ input' = input
          /\ UNCHANGED <<expired, adapter, reader, result>>
      BY <1>1 DEF ClearInput
    <2>2. k \in Commands /\ k > sent /\ k > 0 /\ sent \in Int /\ k \in Int
      BY <2>1, State
    <2> HIDE DEF k
    <2>3. \A j \in cleared' : j <= k
      BY <2>1, <2>2, State DEF Inv, LinkInv
    <2>4. input' \in Seq(Since(cleared', k)) /\ input' \in Seq(Chunks)
      <3>1. Since(cleared, sent) = Since(cleared, k)
        <4>1. \A j \in cleared : j <= sent /\ j <= k
          BY <2>2, State DEF Inv, LinkInv
        <4> QED BY <4>1 DEF Since
      <3> QED BY <2>1, <3>1, State, EmptySeq
    <2>5. \A i \in Commands : i <= sent => Since(cleared', i) = Since(cleared, i)
      <3> SUFFICES ASSUME NEW i \in Commands, i <= sent
                   PROVE  Since(cleared', i) = Since(cleared, i)
        OBVIOUS
      <3>1. i < k /\ i \in Int
        BY <2>2
      <3> QED BY <2>1, <2>2, <3>1, State, SinceKept
    <2>6. cleared' \in SUBSET Commands
      BY <2>1, <2>2, State
    <2>7. TypeOK'
      BY <2>1, <2>2, <2>4, <2>6 DEF Inv, TypeOK
    <2>8. OnlyStuckLeavesReader'
      BY <2>1 DEF Inv, LinkInv, OnlyStuckLeavesReader
    <2>9. ASSUME NEW i \in Commands
          PROVE  /\ reader[i].got \in Seq(Since(cleared', i))
                 /\ result[i].got \in Seq(Since(cleared', i))
                 /\ reader[i].st # "none" => i <= k
                 /\ i > k => reader[i].got = <<>> /\ result[i].got = <<>>
                 /\ i > k \/ i = k => result[i].st = "pending"
      <3>1. CASE i <= sent
        <4>1. Since(cleared', i) = Since(cleared, i)
          BY <2>5, <3>1
        <4>2. i <= k /\ ~(i > k) /\ ~(i = k)
          BY <2>2, <3>1
        <4>3. /\ reader[i].got \in Seq(Since(cleared, i))
              /\ result[i].got \in Seq(Since(cleared, i))
          BY DEF Inv, LinkInv
        <4> QED BY <4>1, <4>2, <4>3
      <3>2. CASE i > sent
        BY <2>2, <3>2, EmptySeq DEF Inv, LinkInv
      <3> QED BY <2>2, <3>1, <3>2
    <2> QED BY <2>1, <2>2, <2>3, <2>4, <2>7, <2>8, <2>9 DEF Inv, LinkInv
  <1>2. CASE Write
    <2>1. /\ pc = "write" /\ pc' = "wait"
          /\ adapter' = Append(adapter, FALSE)
          /\ reader' = [reader EXCEPT ![sent] = [reader[sent] EXCEPT !.st = "reading"]]
          /\ UNCHANGED <<sent, cleared, expired, input, result>>
      BY <1>2 DEF Write
    <2>2. sent \in Commands /\ sent > 0
      BY <2>1, State
    <2>3. adapter' \in AdapterQueue
      BY <2>1, State, AppendProperties DEF AdapterQueue
    <2> DEFINE r == [reader[sent] EXCEPT !.st = "reading"]
    <2>4. r \in Readers /\ r.st = "reading" /\ r.got = reader[sent].got
      BY <2>2, State, ReaderRecord DEF ReaderStates
    <2> HIDE DEF r
    <2>5. /\ reader' \in [Commands -> Readers] /\ reader'[sent] = r
          /\ \A j \in Commands : j # sent => reader'[j] = reader[j]
      BY <2>1, <2>2, <2>4, State DEF r
    <2>6. TypeOK'
      BY <2>1, <2>3, <2>5 DEF Inv, TypeOK, Readers, AdapterQueue
    <2>7. OnlyStuckLeavesReader'
      BY <2>1, <2>4, <2>5 DEF Inv, LinkInv, OnlyStuckLeavesReader
    <2>8. \A i \in Commands : /\ reader'[i].got \in Seq(Since(cleared, i))
                              /\ reader'[i].st # "none" => i <= sent
                              /\ i > sent => reader'[i].got = <<>>
      BY <2>2, <2>4, <2>5 DEF Inv, LinkInv
    <2> QED BY <2>1, <2>2, <2>6, <2>7, <2>8 DEF Inv, LinkInv
  <1>3. CASE WriteFails
    <2>1. /\ pc = "write" /\ pc' = "idle"
          /\ result' = [result EXCEPT ![sent] = [result[sent] EXCEPT !.st = "error"]]
          /\ UNCHANGED <<sent, cleared, expired, adapter, input, reader>>
      BY <1>3 DEF WriteFails
    <2>2. sent \in Commands /\ sent > 0
      BY <2>1, State
    <2> DEFINE r == [result[sent] EXCEPT !.st = "error"]
    <2>3. r \in Results /\ r.st = "error" /\ r.got = result[sent].got
      BY <2>2, State, ResultRecord
    <2> HIDE DEF r
    <2>4. /\ result' \in [Commands -> Results] /\ result'[sent] = r
          /\ \A j \in Commands : j # sent => result'[j] = result[j]
      BY <2>1, <2>2, <2>3, State DEF r
    <2>5. TypeOK'
      BY <2>1, <2>4 DEF Inv, TypeOK, Results
    <2>6. result[sent].st = "pending"
      BY <2>1, <2>2 DEF Inv, LinkInv
    <2>7. OnlyStuckLeavesReader'
      BY <2>1, <2>4, <2>6 DEF Inv, LinkInv, OnlyStuckLeavesReader
    <2>8. \A i \in Commands : /\ result'[i].got \in Seq(Since(cleared, i))
                              /\ i > sent => result'[i].st = "pending" /\ result'[i].got = <<>>
      <3> SUFFICES ASSUME NEW i \in Commands
                   PROVE  /\ result'[i].got \in Seq(Since(cleared, i))
                          /\ i > sent => result'[i].st = "pending" /\ result'[i].got = <<>>
        OBVIOUS
      <3>1. CASE i = sent
        <4>1. result'[i].got = result[i].got /\ ~(i > sent)
          BY <2>2, <2>3, <2>4, <3>1
        <4> QED BY <4>1 DEF Inv, LinkInv
      <3>2. CASE i # sent
        <4>1. result'[i] = result[i]
          BY <2>4, <3>2
        <4> QED BY <4>1 DEF Inv, LinkInv
      <3> QED BY <3>1, <3>2
    <2> QED BY <2>1, <2>5, <2>7, <2>8 DEF Inv, LinkInv
  <1>4. CASE TakesOutcome
    <2>1. CASE reader[sent].st = "prompt"
      BY <1>4, <2>1, ReturnKeeps DEF TakesOutcome
    <2>2. CASE reader[sent].st # "prompt"
      BY <1>4, <2>2, ReturnKeeps DEF TakesOutcome
    <2> QED BY <2>1, <2>2
  <1>5. CASE TakesTimeout \/ Expires
    <2>1. /\ pc \in {"wait"} /\ pc' \in {"wait", "grace"}
          /\ UNCHANGED <<sent, cleared, adapter, input, reader, result>>
          /\ expired' \in [Commands -> BOOLEAN]
      BY <1>5 DEF TakesTimeout, Expires, Inv, TypeOK
    <2> QED BY <2>1 DEF Inv, TypeOK, LinkInv, OnlyStuckLeavesReader
  <1>6. CASE TakesLateOutcome
    <2>1. CASE reader[sent].got # <<>>
      BY <1>6, <2>1, ReturnKeeps DEF TakesLateOutcome
    <2>2. CASE reader[sent].got = <<>>
      BY <1>6, <2>2, ReturnKeeps DEF TakesLateOutcome
    <2> QED BY <2>1, <2>2
  <1>7. CASE LeavesReader
    BY <1>7, ReturnKeeps DEF LeavesReader
  <1> QED BY <1>1, <1>2, <1>3, <1>4, <1>5, <1>6, <1>7 DEF Command
-----------------------------------------------------------------------------
(* Theorems *)

\* No command has been sent and nothing is in the port.
LEMMA InitInv == Init => Inv
  <1> SUFFICES ASSUME Init PROVE Inv
    OBVIOUS
  <1>1. \A S : <<>> \in Seq(S)
    BY EmptySeq
  <1>2. NoReader \in Readers /\ NoReader.st = "none" /\ NoReader.got = <<>>
    BY <1>1 DEF NoReader, Readers, ReaderStates
  <1>3. Pending \in Results /\ Pending.st = "pending" /\ Pending.got = <<>>
    BY <1>1 DEF Pending, Results
  <1>4. TypeOK
    BY <1>1, <1>2, <1>3 DEF Init, TypeOK, Readers, Results
  <1>5. \A i \in Commands : reader[i] = NoReader /\ result[i] = Pending
    BY DEF Init
  <1>6. LinkInv
    BY <1>1, <1>2, <1>3, <1>5 DEF Init, LinkInv, OnlyStuckLeavesReader
  <1> QED BY <1>4, <1>6 DEF Inv

\* The invariant holds of every reachable state.
LEMMA Invariance == Spec => []Inv
  <1>1. Inv /\ [Next]_vars => Inv'
    <2> SUFFICES ASSUME Inv, [Next]_vars PROVE Inv'
      OBVIOUS
    <2>1. CASE Command \/ Expires
      BY <2>1, CommandKeeps
    <2>2. CASE \E i \in Commands : Reader(i)
      BY <2>2, ReaderKeeps
    <2>3. CASE AdapterDrops \/ \E end \in BOOLEAN : AdapterSends(end)
      BY <2>3, AdapterKeeps
    <2>4. CASE UNCHANGED vars
      BY <2>4 DEF vars, Inv, TypeOK, LinkInv, OnlyStuckLeavesReader
    <2> QED BY <2>1, <2>2, <2>3, <2>4 DEF Next
  <1> QED BY <1>1, InitInv, PTL DEF Spec

\* Every variable keeps its type.
THEOREM TypeCorrect == Spec => []TypeOK
  <1>1. Inv => TypeOK
    BY DEF Inv
  <1> QED BY <1>1, Invariance, PTL

\* The inductive form holds.
THEOREM LinkInvariant == Spec => []LinkInv
  <1>1. Inv => LinkInv
    BY DEF Inv
  <1> QED BY <1>1, Invariance, PTL

\* The answer of a command holds nothing that came in before a ResetInputBuffer that
\* went through, its own or an earlier one, whatever goroutines that were left behind
\* still read.
THEOREM AnswersAreFresh == Spec => []AnswerIsFresh
  <1>1. Inv => AnswerIsFresh
    <2> SUFFICES ASSUME Inv, NEW i \in Commands, NEW k \in DOMAIN result[i].got,
                        NEW j \in cleared, j <= i
                 PROVE  result[i].got[k].at >= j
      BY DEF AnswerIsFresh
    <2>1. result[i].got \in Seq(Since(cleared, i))
      BY DEF Inv, LinkInv
    <2>2. result[i].got[k] \in Since(cleared, i)
      BY <2>1, ElementOfSeq, LenProperties
    <2> QED BY <2>2 DEF Since
  <1> QED BY <1>1, Invariance, PTL

\* Only a command that returned errStuckSerial leaves a second reader on the port.
THEOREM StuckLeavesReader == Spec => []OnlyStuckLeavesReader
  <1>1. Inv => OnlyStuckLeavesReader
    BY DEF Inv, LinkInv
  <1> QED BY <1>1, Invariance, PTL
=============================================================================
