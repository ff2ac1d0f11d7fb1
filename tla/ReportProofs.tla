--------------------------- MODULE ReportProofs ---------------------------
(***************************************************************************)
(* Theorems about what a car's report says and what is made of it.         *)
(*                                                                         *)
(* CarRead, for every set of cars: the merge, for any answers of the three *)
(* modes; and what the decoders make of an answer, by inductions over the  *)
(* positions of its text and over its lines.                               *)
(*                                                                         *)
(* Narrator with Triage, for every input and any number of requests: what  *)
(* the rules find, how Analyze orders it and what BuildPacket keeps of it, *)
(* by induction over a set of numbers, and what the requests read and      *)
(* write in the cache, by NarratorInv.                                     *)
(***************************************************************************)
EXTENDS CarRead, Narrator, SequenceTheorems, FiniteSetTheorems, WellFoundedInduction, TLAPS

\* encodeDTC gives every pair of bytes a name of its own: two codes of a car are
\* never reported as one.
THEOREM OneNamePerCode ==
  ASSUME NEW a \in Byte, NEW b \in Byte, NEW c \in Byte, NEW d \in Byte,
         EncodeDTC(a, b) = EncodeDTC(c, d)
  PROVE  a = c /\ b = d
<1>1. /\ (a \div 64) % 4 = (c \div 64) % 4
      /\ (a \div 16) % 4 = (c \div 16) % 4
      /\ a % 16 = c % 16
      /\ (b \div 16) % 16 = (d \div 16) % 16
      /\ b % 16 = d % 16
  BY DEF EncodeDTC
<1>2. \A x \in Byte : /\ x = 64 * ((x \div 64) % 4) + 16 * ((x \div 16) % 4) + (x % 16)
                      /\ x = 16 * ((x \div 16) % 16) + (x % 16)
  BY SMTT(60) DEF Byte
<1>3. a = c /\ b = d
  BY <1>1, <1>2, SMTT(60)
<1> QED
  BY <1>3

\* A byte pair's name is one of Names.
LEMMA NameIsAName ==
  ASSUME NEW a \in Byte, NEW b \in Byte
  PROVE  EncodeDTC(a, b) \in Names
BY SMTT(30) DEF EncodeDTC, Names, Byte
-----------------------------------------------------------------------------
\* The modes ReadDTCs has asked before the one at i.
Asked(i) == {m \in Modes : \/ m = "03" /\ i > 1
                           \/ m = "07" /\ i > 2
                           \/ m = "0A" /\ i > 3}

\* The order of the modes: confirmed codes come first, so that the merge has
\* only to keep them, and permanent codes come last.  What came is an answer, or
\* the beginning of one.
Order ==
  /\ next \in 1..3
  /\ pc \in {"identify", "dtcs", "frames", "live", "done", "failed"}
  /\ pc = "identify" => next = 1 /\ heard = <<>>
  /\ pc = "dtcs" => DOMAIN heard \subseteq Asked(next)
  /\ DOMAIN heard \subseteq Modes
  /\ \A m \in DOMAIN heard : heard[m] \in Arrives(Reply(m))

\* The status of a code once the mode at i is merged into what the modes of h
\* gave, for any answers of.
LEMMA MergeIsStrongest ==
  ASSUME NEW h, NEW i \in 1..3, h \subseteq Asked(i), NEW of,
         seen = Report(h, of)
  PROVE  Merge(of[Sources[i]], StatusOf[Sources[i]]) =
           Report(h \cup {Sources[i]}, of)
<1> DEFINE S == Sources[i]
           Found == UNION {of[m] : m \in h}
           NewFound == UNION {of[m] : m \in h \cup {S}}
<1>1. DOMAIN seen = Found
  BY DEF Report
<1>2. Found \cup of[S] = NewFound
  OBVIOUS
<1>3. ASSUME NEW c \in NewFound
      PROVE  (IF c \in of[S] /\ ~(c \in DOMAIN seen /\ seen[c] = "confirmed")
              THEN StatusOf[S] ELSE seen[c]) = Strongest(c, h \cup {S}, of)
  <2>1. c \in Found => seen[c] = Strongest(c, h, of)
    BY DEF Report
  <2>2. c \in Found => \E m \in h : c \in of[m]
    OBVIOUS
  <2>3. c \notin Found => c \in of[S] /\ \A m \in h : c \notin of[m]
    BY <1>2
  <2> HIDE DEF Found, NewFound
  <2>4. CASE i = 1
    <3>1. S = "03" /\ h = {} /\ StatusOf[S] = "confirmed"
      <4>1. S = "03"
        BY <2>4 DEF Sources
      <4>2. \A m \in Asked(1) : FALSE
        BY DEF Asked
      <4>3. h = {}
        BY <4>2, <2>4
      <4> QED
        BY <4>1, <4>3 DEF StatusOf, Modes
    <3> QED
      BY <2>1, <2>2, <2>3, <3>1, <1>1 DEF Strongest
  <2>5. CASE i = 2
    <3>1. S = "07" /\ h \subseteq {"03"} /\ StatusOf[S] = "pending"
      <4>1. S = "07"
        BY <2>5 DEF Sources
      <4>2. h \subseteq {"03"}
        BY <2>5 DEF Asked
      <4> QED
        BY <4>1, <4>2 DEF StatusOf, Modes
    <3> QED
      BY <2>1, <2>2, <2>3, <3>1, <1>1 DEF Strongest
  <2>6. CASE i = 3
    <3>1. S = "0A" /\ h \subseteq {"03", "07"} /\ StatusOf[S] = "permanent"
      <4>1. S = "0A"
        BY <2>6 DEF Sources
      <4>2. h \subseteq {"03", "07"}
        BY <2>6 DEF Asked
      <4> QED
        BY <4>1, <4>2 DEF StatusOf, Modes
    <3> QED
      BY <2>1, <2>2, <2>3, <3>1, <1>1 DEF Strongest
  <2> QED
    BY <2>4, <2>5, <2>6
<1> QED
  BY <1>1, <1>2, <1>3 DEF Merge, Report

\* Only what is said under the modes counts.
LEMMA ReportOfThese ==
  ASSUME NEW h, NEW of, NEW others, \A m \in h : of[m] = others[m]
  PROVE  Report(h, of) = Report(h, others)
<1>1. UNION {of[m] : m \in h} = UNION {others[m] : m \in h}
  OBVIOUS
<1>2. \A c : Strongest(c, h, of) = Strongest(c, h, others)
  BY Zenon DEF Strongest
<1> QED
  BY <1>1, <1>2, Zenon DEF Report

\* Whatever the car has stored, whichever answers are lost and wherever they break
\* off, the codes found are those of what came, each with its strongest status (the
\* merge of ReadDTCs, which has one rule for two precedences).
THEOREM StatusAlwaysRight == Spec => [](Order /\ StatusIsRight)
<1>1. Init => Order /\ StatusIsRight
  <2> SUFFICES ASSUME Init PROVE Order /\ StatusIsRight
    OBVIOUS
  <2>1. DOMAIN heard = {} /\ heard = <<>> /\ seen = <<>>
    BY DEF Init
  <2>2. Order
    BY <2>1 DEF Init, Order, Modes
  <2>3. UNION {Decoded[m] : m \in DOMAIN heard} = {}
    BY <2>1
  <2>4. seen = Report(DOMAIN heard, Decoded)
    BY <2>1, <2>3 DEF Report
  <2> QED
    BY <2>2, <2>4 DEF StatusIsRight
<1>2. Order /\ StatusIsRight /\ [Next]_vars => Order' /\ StatusIsRight'
  <2> SUFFICES ASSUME Order, StatusIsRight, [Next]_vars
               PROVE  Order' /\ StatusIsRight'
    OBVIOUS
  <2>1. car' = car
    BY DEF Next, IdentifyFails, Identify, ModeAnswered, ModeLost, Frames, PidAnswered,
           PidLost, SampleEnds, vars
  <2>2. \A m : Reply(m)' = Reply(m)
    BY <2>1 DEF Reply, Line, Lines
  <2>3. CASE ModeAnswered
    <3> DEFINE m == Sources[next]
               was == DOMAIN heard
    <3>1. was \subseteq Asked(next) /\ next \in 1..3 /\ was \subseteq Modes
      BY <2>3 DEF ModeAnswered, Order
    <3>2. m \in Asked(next + 1) /\ Asked(next) \subseteq Asked(next + 1) /\ m \in Modes
      BY <3>1 DEF Asked, Sources, Modes
    <3>3. m \notin was
      <4>1. m \notin Asked(next)
        BY <3>1 DEF Asked, Sources, Modes
      <4> QED
        BY <3>1, <4>1
    <3>4. PICK text \in Arrives(Reply(m)) :
            /\ seen' = Merge(CutAndDecode(m, text), StatusOf[m])
            /\ heard' = [k \in was \cup {m} |-> IF k = m THEN text ELSE heard[k]]
      BY <2>3 DEF ModeAnswered
    <3> HIDE DEF m
    <3>5. /\ DOMAIN heard' = was \cup {m} /\ heard'[m] = text
          /\ \A k \in was : heard'[k] = heard[k]
      BY <3>3, <3>4
    <3> DEFINE told == [k \in was \cup {m} |-> CutAndDecode(k, heard'[k])]
    <3>6. Decoded' = told
      BY <3>5, Zenon DEF Decoded
    <3>7. told[m] = CutAndDecode(m, text) /\ \A k \in was : Decoded[k] = told[k]
      <4>1. told[m] = CutAndDecode(m, heard'[m])
        OBVIOUS
      <4>2. \A k \in was : told[k] = CutAndDecode(k, heard'[k])
        OBVIOUS
      <4>3. \A k \in was : Decoded[k] = CutAndDecode(k, heard[k])
        BY DEF Decoded
      <4> HIDE DEF told
      <4> QED
        BY <3>5, <4>1, <4>2, <4>3, Zenon
    <3> HIDE DEF told
    <3>8. seen = Report(was, told)
      BY <3>7, ReportOfThese, Zenon DEF StatusIsRight
    <3>9. Merge(told[Sources[next]], StatusOf[Sources[next]]) = Report(was \cup {Sources[next]}, told)
      BY <3>1, <3>8, MergeIsStrongest
    <3>10. StatusIsRight'
      <4>1. seen' = Merge(told[m], StatusOf[m])
        BY <3>4, <3>7, Zenon
      <4>2. seen' = Report(DOMAIN heard', told)
        BY <3>5, <3>9, <4>1, Zenon DEF m
      <4> QED
        BY <3>6, <4>2, Zenon DEF StatusIsRight
    <3>11. Order'
      <4>1. Len(Sources) = 3
        BY DEF Sources
      <4>2. DOMAIN heard' \subseteq Asked(next + 1) /\ DOMAIN heard' \subseteq Modes
        BY <3>1, <3>2, <3>5 DEF m
      <4>3. \A k \in DOMAIN heard' : heard'[k] \in Arrives(Reply(k))
        <5>1. \A k \in was : heard[k] \in Arrives(Reply(k))
          BY DEF Order
        <5> QED
          BY <3>4, <3>5, <5>1, Zenon
      <4>4. \A k \in DOMAIN heard' : heard'[k] \in Arrives(Reply(k))'
        BY <2>2, <4>3 DEF Arrives
      <4>5. /\ next' \in 1..3 /\ pc' \in {"dtcs", "frames"}
            /\ pc' = "dtcs" => next' = next + 1
        BY <2>3, <3>1, <4>1 DEF ModeAnswered, Advance
      <4> QED
        BY <4>2, <4>4, <4>5 DEF Order
    <3> QED
      BY <3>10, <3>11
  <2>4. CASE seen' = seen /\ heard' = heard /\ ~ModeAnswered
    <3>1. StatusIsRight'
      BY <2>4 DEF StatusIsRight, Decoded
    <3>2. Order'
      <4>0. \A k \in DOMAIN heard' : heard'[k] \in Arrives(Reply(k))'
        BY <2>2, <2>4 DEF Arrives, Order
      <4>1. CASE ModeLost
        <5>1. /\ pc = "dtcs" /\ DOMAIN heard \subseteq Asked(next) /\ next \in 1..3
              /\ DOMAIN heard \subseteq Modes
          BY <4>1 DEF ModeLost, Order
        <5>2. Asked(next) \subseteq Asked(next + 1)
          BY <5>1 DEF Asked
        <5>3. Len(Sources) = 3
          BY DEF Sources
        <5>4. Order'
          <6>1. CASE next < 3
            <7>1. next' = next + 1 /\ pc' = pc /\ heard' = heard
              BY <6>1, <5>3, <4>1, <2>4 DEF ModeLost, Advance
            <7>2. DOMAIN heard' \subseteq Asked(next') /\ next' \in 1..3
              BY <7>1, <6>1, <5>1, <5>2
            <7> QED
              BY <7>1, <7>2, <5>1, <4>0 DEF Order
          <6>2. CASE next = 3
            <7>1. next' = next /\ pc' = "frames" /\ heard' = heard
              BY <6>2, <5>3, <4>1, <2>4 DEF ModeLost, Advance
            <7> QED
              BY <7>1, <5>1, <4>0 DEF Order
          <6> QED
            BY <6>1, <6>2, <5>1
        <5> QED
          BY <5>4
      <4>2. CASE IdentifyFails \/ Identify
        <5>1. /\ next' = next /\ heard' = heard
              /\ next = 1 /\ heard = <<>>
              /\ pc' = "failed" \/ pc' = "dtcs"
          BY <4>2, <2>4 DEF IdentifyFails, Identify, Order
        <5>2. DOMAIN heard' = {}
          BY <5>1
        <5> QED
          BY <5>1, <5>2 DEF Order
      <4>3. CASE Frames \/ SampleEnds
        BY <4>0, <4>3, <2>4 DEF Frames, SampleEnds, Order
      <4>4. CASE PidAnswered \/ PidLost \/ UNCHANGED vars
        <5>1. pc' = pc /\ next' = next
          BY <4>4 DEF PidAnswered, PidLost, vars
        <5> QED
          BY <5>1, <4>0, <2>4 DEF Order, Asked
      <4> QED
        BY <4>1, <4>2, <4>3, <4>4, <2>4 DEF Next
    <3> QED
      BY <3>1, <3>2
  <2>5. CASE \/ IdentifyFails \/ Identify \/ ModeLost \/ UNCHANGED vars
             \/ Frames \/ PidAnswered \/ PidLost \/ SampleEnds
    <3>1. seen' = seen /\ heard' = heard
      BY <2>5 DEF IdentifyFails, Identify, ModeLost, Frames, PidAnswered, PidLost,
                  SampleEnds, vars
    <3> QED
      BY <3>1, <2>3, <2>4
  <2> QED
    BY <2>3, <2>5 DEF Next
<1> QED
  BY <1>1, <1>2, PTL DEF Spec

-----------------------------------------------------------------------------
\* Induction over the natural numbers, for a set of them.
LEMMA EveryNumber ==
  ASSUME NEW S, 0 \in S, \A k \in Nat : k \in S => k + 1 \in S
  PROVE  Nat \subseteq S
<1> DEFINE Less == { p \in Nat \X Nat : p[1] < p[2] }
           Out == Nat \ S
<1>1. IsWellFoundedOn(Less, Nat)
  BY NatLessThanWellFounded DEF OpToRel
<1>2. SUFFICES ASSUME Out # {} PROVE FALSE
  OBVIOUS
<1>3. PICK x \in Out : \A y \in Out : <<y, x>> \notin Less
  <2> HIDE DEF Less
  <2>1. Out \subseteq Nat
    OBVIOUS
  <2> HIDE DEF Out
  <2> QED BY <1>1, <1>2, <2>1, WFMin
<1>4. x \in Nat /\ x # 0 /\ x \notin S
  OBVIOUS
<1>5. x - 1 \in Nat /\ x - 1 < x /\ (x - 1) + 1 = x
  BY <1>4
<1>6. x - 1 \notin S
  BY <1>4, <1>5
<1>7. <<x - 1, x>> \in Less /\ x - 1 \in Out
  BY <1>4, <1>5, <1>6
<1> QED BY <1>3, <1>7

-----------------------------------------------------------------------------
\* What Keep has collected after k characters, if it had h before the last of them.
Collected(text, S, h, k) ==
  IF k = 0 THEN <<>>
  ELSE IF text[k] \in S THEN Append(h[k - 1], text[k]) ELSE h[k - 1]

\* The loop of Keep goes through any text.
LEMMA CollectsAny ==
  ASSUME NEW text, NEW S, NEW n \in Nat
  PROVE  \E h : h = [k \in 0..n |-> Collected(text, S, h, k)]
<1> DEFINE Have == { m \in Nat : \E h : h = [k \in 0..m |-> Collected(text, S, h, k)] }
<1>1. 0 \in Have
  <2> DEFINE h == [k \in 0..0 |-> <<>>]
  <2>1. \A k \in 0..0 : Collected(text, S, h, k) = <<>>
    BY DEF Collected
  <2>2. h = [k \in 0..0 |-> Collected(text, S, h, k)]
    BY <2>1
  <2> QED BY <2>2
<1>2. ASSUME NEW m \in Nat, m \in Have
      PROVE  m + 1 \in Have
  <2>1. PICK h : h = [k \in 0..m |-> Collected(text, S, h, k)]
    BY <1>2
  <2> DEFINE g == [k \in 0..(m + 1) |-> IF k = m + 1 THEN Collected(text, S, h, k) ELSE h[k]]
  <2>2. ASSUME NEW k \in 0..(m + 1)
        PROVE  g[k] = Collected(text, S, g, k)
    <3>1. CASE k = 0
      <4>1. g[k] = h[k] /\ h[k] = Collected(text, S, h, k)
        BY <2>1, <3>1
      <4> QED BY <3>1, <4>1 DEF Collected
    <3>2. CASE k # 0
      <4>1. k - 1 \in 0..(m + 1) /\ k - 1 # m + 1
        BY <3>2
      <4>2. g[k - 1] = h[k - 1]
        BY <4>1
      <4>3. g[k] = Collected(text, S, h, k)
        <5>1. CASE k = m + 1
          BY <5>1
        <5>2. CASE k # m + 1
          <6>1. k \in 0..m
            BY <5>2
          <6> QED BY <2>1, <5>2, <6>1
        <5> QED BY <5>1, <5>2
      <4> HIDE DEF g
      <4> QED BY <4>2, <4>3 DEF Collected
    <3> QED BY <3>1, <3>2
  <2>3. g = [k \in 0..(m + 1) |-> Collected(text, S, g, k)]
    <3>1. g = [k \in 0..(m + 1) |-> g[k]]
      OBVIOUS
    <3> HIDE DEF g
    <3> QED BY <2>2, <3>1
  <2>4. \E f : f = [k \in 0..(m + 1) |-> Collected(text, S, f, k)]
    <3> HIDE DEF g
    <3> QED BY <2>3
  <2> QED BY <2>4
<1>3. Nat \subseteq Have
  <2> HIDE DEF Have
  <2> QED BY <1>1, <1>2, EveryNumber
<1> QED BY <1>3

\* Keep is that loop.
LEMMA KeptCollected ==
  ASSUME NEW text, NEW S, Len(text) \in Nat
  PROVE  \E h : /\ h[0] = <<>>
                /\ \A k \in 1..Len(text) :
                     h[k] = IF text[k] \in S THEN Append(h[k - 1], text[k]) ELSE h[k - 1]
                /\ Keep(text, S) = h[Len(text)]
<1> DEFINE n == Len(text)
           h == CHOOSE h : h = [k \in 0..n |-> Collected(text, S, h, k)]
<1>1. Keep(text, S) = h[n]
  BY DEF Keep, Collected
<1>2. h = [k \in 0..n |-> Collected(text, S, h, k)]
  BY CollectsAny
<1> HIDE DEF h
<1>3. h[0] = <<>>
  BY <1>2 DEF Collected
<1>4. ASSUME NEW k \in 1..n
      PROVE  h[k] = IF text[k] \in S THEN Append(h[k - 1], text[k]) ELSE h[k - 1]
  <2>1. h[k] = Collected(text, S, h, k)
    BY <1>2
  <2> QED BY <2>1 DEF Collected
<1> QED BY <1>1, <1>3, <1>4

\* c counts the characters of S among the first n of a text.
Counts(c, text, S, n) ==
  /\ c[0] = 0
  /\ \A k \in 1..n : c[k] = IF text[k] \in S THEN c[k - 1] + 1 ELSE c[k - 1]

\* If c counts the characters of S among the first n of a text, then these are the first that
\* Keep collects, each at its count, and the only ones when the text ends there.
LEMMA KeptCounted ==
  ASSUME NEW text \in Seq(Nat), NEW S, NEW n \in 0..Len(text),
         NEW c, Counts(c, text, S, n)
  PROVE  /\ Keep(text, S) \in Seq(Nat) /\ Len(Keep(text, S)) >= c[n]
         /\ n = Len(text) => Len(Keep(text, S)) = c[n]
         /\ c[n] \in Nat
         /\ \A k \in 1..n : text[k] \in S => c[k] \in 1..c[n] /\ Keep(text, S)[c[k]] = text[k]
<1>1. Len(text) \in Nat /\ (\A k \in 1..Len(text) : text[k] \in Nat) /\ n \in Nat
  OBVIOUS
<1>0. /\ c[0] = 0
      /\ \A k \in 1..n : c[k] = IF text[k] \in S THEN c[k - 1] + 1 ELSE c[k - 1]
  BY DEF Counts
<1>2. PICK h : /\ h[0] = <<>>
               /\ \A k \in 1..Len(text) :
                    h[k] = IF text[k] \in S THEN Append(h[k - 1], text[k]) ELSE h[k - 1]
               /\ Keep(text, S) = h[Len(text)]
  BY <1>1, KeptCollected
<1> DEFINE Held(k) == /\ h[k] \in Seq(Nat) /\ Len(h[k]) = c[k] /\ c[k] \in Nat
                      /\ \A j \in 1..k : text[j] \in S => c[j] \in 1..c[k] /\ h[k][c[j]] = text[j]
           Begun == { k \in Nat : k <= n => Held(k) }
<1>3. 0 \in Begun
  <2>1. h[0] \in Seq(Nat) /\ Len(h[0]) = 0 /\ 1..0 = {}
    BY <1>2
  <2> QED BY <1>0, <2>1
<1>4. ASSUME NEW k \in Nat, k \in Begun
      PROVE  k + 1 \in Begun
  <2>1. SUFFICES ASSUME k + 1 <= n PROVE Held(k + 1)
    OBVIOUS
  <2>2. k <= n /\ k + 1 \in 1..Len(text) /\ k + 1 \in 1..n /\ (k + 1) - 1 = k
    BY <1>1, <2>1
  <2>3. Held(k)
    BY <1>4, <2>2
  <2> HIDE DEF Begun
  <2>4. /\ h[k + 1] = IF text[k + 1] \in S THEN Append(h[k], text[k + 1]) ELSE h[k]
        /\ c[k + 1] = IF text[k + 1] \in S THEN c[k] + 1 ELSE c[k]
        /\ text[k + 1] \in Nat
    BY <1>0, <1>1, <1>2, <2>2
  <2>5. CASE text[k + 1] \in S
    <3>1. /\ h[k + 1] = Append(h[k], text[k + 1]) /\ c[k + 1] = c[k] + 1
          /\ h[k] \in Seq(Nat) /\ Len(h[k]) = c[k] /\ c[k] \in Nat
      BY <2>3, <2>4, <2>5
    <3>2. /\ h[k + 1] \in Seq(Nat) /\ Len(h[k + 1]) = c[k + 1] /\ c[k + 1] \in Nat
          /\ \A i \in 1..c[k] : h[k + 1][i] = h[k][i]
          /\ h[k + 1][c[k + 1]] = text[k + 1]
      BY <2>4, <3>1, AppendProperties
    <3>3. ASSUME NEW j \in 1..(k + 1), text[j] \in S
          PROVE  c[j] \in 1..c[k + 1] /\ h[k + 1][c[j]] = text[j]
      <4>1. CASE j \in 1..k
        <5>1. c[j] \in 1..c[k] /\ h[k][c[j]] = text[j]
          BY <2>3, <3>3, <4>1
        <5> QED BY <3>1, <3>2, <5>1
      <4>2. CASE j = k + 1
        BY <3>1, <3>2, <4>2
      <4> QED BY <4>1, <4>2
    <3> QED BY <3>2, <3>3
  <2>6. CASE text[k + 1] \notin S
    <3>1. h[k + 1] = h[k] /\ c[k + 1] = c[k]
      BY <2>4, <2>6
    <3>2. ASSUME NEW j \in 1..(k + 1), text[j] \in S
          PROVE  c[j] \in 1..c[k] /\ h[k][c[j]] = text[j]
      <4>1. j \in 1..k
        BY <2>6, <3>2
      <4> QED BY <2>3, <3>2, <4>1
    <3>3. h[k] \in Seq(Nat) /\ Len(h[k]) = c[k] /\ c[k] \in Nat
      BY <2>3
    <3> QED BY <3>1, <3>2, <3>3, Zenon
  <2> QED BY <2>5, <2>6
<1>5. Nat \subseteq Begun
  <2> HIDE DEF Begun
  <2> QED BY <1>3, <1>4, EveryNumber
<1>6. Held(n)
  BY <1>1, <1>5
<1> HIDE DEF Begun
<1> DEFINE q == c[n]
           a == h[n]
           Behind == { k \in Nat : n + k <= Len(text) =>
                         /\ h[n + k] \in Seq(Nat) /\ Len(h[n + k]) >= q
                         /\ \A j \in 1..q : h[n + k][j] = a[j] }
<1>7. a \in Seq(Nat) /\ Len(a) = q /\ q \in Nat
  BY <1>6
<1> HIDE DEF Held, q, a
<1>8. 0 \in Behind
  <2>1. n + 0 = n /\ h[n] = a
    BY <1>1 DEF a
  <2> QED BY <1>7, <2>1
<1>9. ASSUME NEW k \in Nat, k \in Behind
      PROVE  k + 1 \in Behind
  <2> DEFINE m == n + k
             x == text[m + 1]
  <2>1. SUFFICES ASSUME n + (k + 1) <= Len(text)
                 PROVE  /\ h[n + (k + 1)] \in Seq(Nat) /\ Len(h[n + (k + 1)]) >= q
                        /\ \A j \in 1..q : h[n + (k + 1)][j] = a[j]
    OBVIOUS
  <2>2. /\ m \in Nat /\ m + 1 = n + (k + 1) /\ m + 1 \in 1..Len(text) /\ (m + 1) - 1 = m
        /\ x \in Nat
    BY <1>1, <2>1
  <2>3. /\ h[m] \in Seq(Nat) /\ Len(h[m]) >= q
        /\ \A j \in 1..q : h[m][j] = a[j]
    BY <1>1, <1>9, <2>1
  <2>4. h[m + 1] = IF x \in S THEN Append(h[m], x) ELSE h[m]
    BY <1>2, <2>2
  <2>5. n + (k + 1) = m + 1
    BY <2>2
  <2> HIDE DEF Behind, m, x
  <2>6. CASE x \in S
    <3>1. h[m + 1] = Append(h[m], x)
      BY <2>4, <2>6
    <3>2. /\ h[m + 1] \in Seq(Nat) /\ Len(h[m + 1]) >= q
          /\ \A j \in 1..q : h[m + 1][j] = h[m][j]
      BY <1>7, <2>2, <2>3, <3>1
    <3> QED BY <2>3, <2>5, <3>2
  <2>7. CASE ~(x \in S)
    <3>1. h[m + 1] = h[m]
      BY <2>4, <2>7
    <3> QED BY <2>3, <2>5, <3>1
  <2> QED BY <2>6, <2>7
<1>10. Nat \subseteq Behind
  <2> HIDE DEF Behind
  <2> QED BY <1>8, <1>9, EveryNumber
<1>11. /\ h[Len(text)] \in Seq(Nat) /\ Len(h[Len(text)]) >= q
       /\ \A j \in 1..q : h[Len(text)][j] = a[j]
  <2> DEFINE k == Len(text) - n
  <2>1. k \in Nat /\ n + k <= Len(text) /\ n + k = Len(text)
    BY <1>1
  <2>2. k \in Behind
    BY <1>10, <2>1
  <2> HIDE DEF k
  <2> QED BY <2>1, <2>2 DEF Behind
<1> HIDE DEF Behind
<1>12. n = Len(text) => Len(h[Len(text)]) = q
  BY <1>7 DEF a
<1>13. ASSUME NEW k \in 1..n, text[k] \in S
       PROVE  c[k] \in 1..q /\ h[Len(text)][c[k]] = text[k]
  <2>1. c[k] \in 1..q /\ a[c[k]] = text[k]
    BY <1>6, <1>13 DEF Held, q, a
  <2> QED BY <1>11, <2>1
<1> QED BY <1>2, <1>7, <1>11, <1>12, <1>13 DEF q

\* So Keep collects as many as are counted.
LEMMA KeptLength ==
  ASSUME NEW text \in Seq(Nat), NEW S, NEW c, Counts(c, text, S, Len(text))
  PROVE  Len(Keep(text, S)) = c[Len(text)]
<1>1. ASSUME NEW n \in 0..Len(text), n = Len(text), Counts(c, text, S, n)
      PROVE  Len(Keep(text, S)) = c[n]
  BY <1>1, KeptCounted
<1>2. Len(text) \in 0..Len(text)
  OBVIOUS
<1> QED BY <1>1, <1>2, Zenon

\* Of a text that begins with n characters of S these are the first, and of one that has no
\* others they are all.
LEMMA KeptAre ==
  ASSUME NEW text \in Seq(Nat), NEW S, NEW n \in 0..Len(text),
         \A k \in 1..n : text[k] \in S
  PROVE  /\ Keep(text, S) \in Seq(Nat) /\ Len(Keep(text, S)) >= n
         /\ \A k \in 1..n : Keep(text, S)[k] = text[k]
         /\ (\A k \in (n + 1)..Len(text) : text[k] \notin S) => Len(Keep(text, S)) = n
<1>0. Len(text) \in Nat /\ n \in Nat /\ n <= Len(text)
  OBVIOUS
<1>1. /\ Keep(text, S) \in Seq(Nat) /\ Len(Keep(text, S)) >= n
      /\ \A k \in 1..n : Keep(text, S)[k] = text[k]
  <2> DEFINE c == [k \in 0..n |-> k]
  <2>1. c[0] = 0 /\ c[n] = n /\ \A k \in 1..n : c[k] = k /\ c[k - 1] = k - 1 /\ (k - 1) + 1 = k
    BY <1>0
  <2> HIDE DEF c
  <2>2. \A k \in 1..n : c[k] = IF text[k] \in S THEN c[k - 1] + 1 ELSE c[k - 1]
    BY <2>1
  <2>3. Counts(c, text, S, n)
    BY <2>1, <2>2 DEF Counts
  <2>4. /\ Keep(text, S) \in Seq(Nat) /\ Len(Keep(text, S)) >= c[n]
        /\ \A k \in 1..n : text[k] \in S => Keep(text, S)[c[k]] = text[k]
    BY <2>3, KeptCounted
  <2> QED BY <2>1, <2>4
<1>2. ASSUME \A k \in (n + 1)..Len(text) : text[k] \notin S
      PROVE  Len(Keep(text, S)) = n
  <2> DEFINE L == Len(text)
             c == [k \in 0..L |-> IF k <= n THEN k ELSE n]
  <2>1. /\ c[0] = 0 /\ c[L] = n
        /\ \A k \in 1..L : /\ c[k] = IF k <= n THEN k ELSE n
                           /\ c[k - 1] = IF k - 1 <= n THEN k - 1 ELSE n
    BY <1>0
  <2>0. L \in 0..Len(text) /\ L = Len(text) /\ L \in Nat
    BY <1>0
  <2>2. \A k \in 1..L : (k <= n => text[k] \in S) /\ (~(k <= n) => text[k] \notin S)
    BY <1>0, <1>2
  <2> HIDE DEF c, L
  <2>3. \A k \in 1..L : c[k] = IF text[k] \in S THEN c[k - 1] + 1 ELSE c[k - 1]
    BY <1>0, <2>0, <2>1, <2>2
  <2>4. Counts(c, text, S, Len(text))
    BY <2>0, <2>1, <2>3 DEF Counts
  <2>5. Len(Keep(text, S)) = c[Len(text)]
    BY <2>4, KeptLength
  <2> QED BY <2>0, <2>1, <2>5
<1> QED BY <1>1, <1>2

\* The same of the digits.
LEMMA DigitsAre ==
  ASSUME NEW text \in Seq(Nat), NEW n \in 0..Len(text), \A k \in 1..n : text[k] < 16
  PROVE  /\ HexDigits(text) \in Seq(Nat) /\ Len(HexDigits(text)) >= n
         /\ \A k \in 1..n : HexDigits(text)[k] = text[k]
         /\ (\A k \in (n + 1)..Len(text) : text[k] >= 16) => Len(HexDigits(text)) = n
<1>1. Len(text) \in Nat /\ \A k \in 1..Len(text) : text[k] \in Nat
  OBVIOUS
<1>2. ASSUME NEW k \in 1..n
      PROVE  text[k] \in 0..15
  <2>1. k \in 1..Len(text)
    BY <1>1
  <2>2. text[k] \in Nat /\ text[k] < 16
    BY <1>1, <2>1
  <2>3. \A c \in Nat : c < 16 => c \in 0..15
    OBVIOUS
  <2> QED BY <2>2, <2>3, Zenon
<1>3. (\A k \in (n + 1)..Len(text) : text[k] >= 16)
        => \A k \in (n + 1)..Len(text) : text[k] \notin 0..15
  <2>1. \A c : c >= 16 => c \notin 0..15
    OBVIOUS
  <2> QED BY <2>1
<1> QED BY <1>2, <1>3, KeptAre, Zenon DEF HexDigits

\* Keep collects characters of S.
LEMMA KeepIs ==
  ASSUME NEW text, NEW S, Len(text) \in Nat
  PROVE  Keep(text, S) \in Seq(S)
<1>1. PICK h : /\ h[0] = <<>>
               /\ \A k \in 1..Len(text) :
                    h[k] = IF text[k] \in S THEN Append(h[k - 1], text[k]) ELSE h[k - 1]
               /\ Keep(text, S) = h[Len(text)]
  BY KeptCollected
<1> DEFINE Good == { k \in Nat : k <= Len(text) => h[k] \in Seq(S) }
<1>2. 0 \in Good
  <2>1. <<>> \in Seq(S)
    OBVIOUS
  <2> QED BY <1>1, <2>1
<1>3. ASSUME NEW k \in Nat, k \in Good
      PROVE  k + 1 \in Good
  <2>1. SUFFICES ASSUME k + 1 <= Len(text)
                 PROVE  h[k + 1] \in Seq(S)
    OBVIOUS
  <2>2. k + 1 \in 1..Len(text) /\ (k + 1) - 1 = k /\ k <= Len(text)
    BY <2>1
  <2>3. h[k] \in Seq(S)
    BY <1>3, <2>2
  <2>4. h[k + 1] = IF text[k + 1] \in S THEN Append(h[k], text[k + 1]) ELSE h[k]
    BY <1>1, <2>2
  <2> HIDE DEF Good
  <2>5. CASE text[k + 1] \in S
    BY <2>3, <2>4, <2>5, AppendProperties
  <2>6. CASE text[k + 1] \notin S
    BY <2>3, <2>4, <2>6
  <2> QED BY <2>5, <2>6
<1>4. Nat \subseteq Good
  <2> HIDE DEF Good
  <2> QED BY <1>2, <1>3, EveryNumber
<1> QED BY <1>1, <1>4

\* ToBytes makes bytes of the digits.
LEMMA RawBytes ==
  ASSUME NEW text, Len(text) \in Nat
  PROVE  /\ Len(HexDigits(text)) \in Nat
         /\ ToBytes(HexDigits(text)) \in Seq(Byte)
         /\ Len(ToBytes(HexDigits(text))) = Len(HexDigits(text)) \div 2
<1> DEFINE hex == HexDigits(text)
           m == Len(hex) \div 2
<1>1. hex \in Seq(0..15)
  BY KeepIs, Zenon DEF HexDigits
<1> HIDE DEF hex
<1>2. Len(hex) \in Nat /\ m \in Nat /\ \A j \in 1..m : 2 * j - 1 \in 1..Len(hex) /\ 2 * j \in 1..Len(hex)
  BY <1>1
<1>3. ASSUME NEW j \in 1..m
      PROVE  16 * hex[2 * j - 1] + hex[2 * j] \in Byte
  <2>1. hex[2 * j - 1] \in 0..15 /\ hex[2 * j] \in 0..15
    BY <1>1, <1>2, ElementOfSeq, Zenon
  <2>2. \A a, b \in 0..15 : 16 * a + b \in Byte
    BY DEF Byte
  <2> QED BY <2>1, <2>2, Zenon
<1>4. ToBytes(hex) = [j \in 1..m |-> 16 * hex[2 * j - 1] + hex[2 * j]]
  BY DEF ToBytes
<1> HIDE DEF m
<1>5. ToBytes(hex) \in [1..m -> Byte]
  BY <1>3, <1>4
<1>6. ToBytes(hex) \in Seq(Byte) /\ Len(ToBytes(hex)) = m
  BY <1>2, <1>5
<1> QED BY <1>2, <1>6 DEF hex, m

-----------------------------------------------------------------------------
\* A byte is its two digits.
LEMMA TwoDigits ==
  ASSUME NEW b \in Byte
  PROVE  /\ b \div 16 \in 0..15 /\ b % 16 \in 0..15
         /\ b = 16 * (b \div 16) + (b % 16)
BY SMTT(60) DEF Byte

\* Half of at least 2 n characters are at least n bytes.
LEMMA Halves ==
  ASSUME NEW n \in Nat, NEW m \in Nat, m >= 2 * n
  PROVE  /\ m \div 2 \in Nat /\ m \div 2 >= n
         /\ m = 2 * n => m \div 2 = n
         /\ \A j \in 1..(m \div 2) : 2 * j - 1 \in 1..m /\ 2 * j \in 1..m
OBVIOUS

\* Position i of a line is a digit of byte (i + 1) \div 2.
LEMMA Places ==
  ASSUME NEW n \in Nat
  PROVE  /\ \A i \in 1..(2 * n) : (i + 1) \div 2 \in 1..n /\ (i - 1) % 2 \in 0..1
         /\ \A j \in 1..n : /\ 2 * j - 1 \in 1..(2 * n) /\ 2 * j \in 1..(2 * n)
                            /\ ((2 * j - 1) + 1) \div 2 = j /\ (2 * j + 1) \div 2 = j
                            /\ ((2 * j - 1) - 1) % 2 = 0 /\ (2 * j - 1) % 2 = 1
OBVIOUS

\* A line is the digits of its bytes and its end.
LEMMA SentIs ==
  ASSUME NEW n \in Nat, NEW bytes \in Seq(Byte), Len(bytes) = n
  PROVE  /\ Sent(bytes) \in Seq(Nat) /\ Len(Sent(bytes)) = 2 * n + 1
         /\ Sent(bytes)[2 * n + 1] = Gap
         /\ \A i \in 1..(2 * n) : Sent(bytes)[i] < 16
         /\ \A j \in 1..n : /\ Sent(bytes)[2 * j - 1] = bytes[j] \div 16
                            /\ Sent(bytes)[2 * j] = bytes[j] % 16
<1> DEFINE d == [i \in 1..(2 * n) |-> Hex(bytes[(i + 1) \div 2])[((i - 1) % 2) + 1]]
<1>1. \A j \in 1..n : bytes[j] \in Byte
  OBVIOUS
<1>2. ASSUME NEW i \in 1..(2 * n)
      PROVE  d[i] \in 0..15
  <2>1. (i + 1) \div 2 \in 1..n /\ (i - 1) % 2 \in 0..1
    BY Places
  <2>2. PICK b \in Byte : b = bytes[(i + 1) \div 2]
    BY <1>1, <2>1
  <2>3. d[i] = Hex(b)[((i - 1) % 2) + 1]
    BY <2>2
  <2>4. Hex(b)[1] \in 0..15 /\ Hex(b)[2] \in 0..15
    BY TwoDigits DEF Hex
  <2>5. (i - 1) % 2 = 0 \/ (i - 1) % 2 = 1
    BY <2>1
  <2> HIDE DEF d
  <2> QED BY <2>3, <2>4, <2>5
<1>3. ASSUME NEW j \in 1..n
      PROVE  d[2 * j - 1] = bytes[j] \div 16 /\ d[2 * j] = bytes[j] % 16
  <2>1. /\ 2 * j - 1 \in 1..(2 * n) /\ 2 * j \in 1..(2 * n)
        /\ ((2 * j - 1) + 1) \div 2 = j /\ (2 * j + 1) \div 2 = j
        /\ ((2 * j - 1) - 1) % 2 = 0 /\ (2 * j - 1) % 2 = 1
    BY Places
  <2>2. d[2 * j - 1] = Hex(bytes[j])[1] /\ d[2 * j] = Hex(bytes[j])[2]
    BY <2>1
  <2> HIDE DEF d
  <2> QED BY <2>2 DEF Hex
<1>4. d \in Seq(Nat) /\ Len(d) = 2 * n /\ <<Gap>> \in Seq(Nat) /\ Gap \in Nat
  <2>2. d = [i \in 1..(2 * n) |-> d[i]]
    OBVIOUS
  <2> HIDE DEF d
  <2>1. \A i \in 1..(2 * n) : d[i] \in Nat
    BY <1>2
  <2>3. d \in [1..(2 * n) -> Nat]
    BY <2>1, <2>2
  <2> QED BY <2>3 DEF Gap
<1>5. Sent(bytes) = d \o <<Gap>>
  BY DEF Sent
<1> HIDE DEF d
<1>6. /\ Sent(bytes) \in Seq(Nat) /\ Len(Sent(bytes)) = 2 * n + 1
      /\ Sent(bytes)[2 * n + 1] = Gap
      /\ \A i \in 1..(2 * n) : Sent(bytes)[i] = d[i]
  <2> DEFINE g == <<Gap>>
  <2>1. g \in Seq(Nat) /\ Len(g) = 1 /\ g[1] = Gap
    BY <1>4
  <2>2. Sent(bytes) = d \o g
    BY <1>5
  <2> HIDE DEF g
  <2>3. /\ d \o g \in Seq(Nat) /\ Len(d \o g) = 2 * n + 1
        /\ \A i \in 1..(2 * n + 1) : (d \o g)[i] = IF i <= 2 * n THEN d[i] ELSE g[i - 2 * n]
    <3>1. 2 * n + 1 = Len(d) + Len(g) /\ 2 * n = Len(d) /\ d \in Seq(Nat) /\ g \in Seq(Nat)
      BY <1>4, <2>1
    <3> QED BY <3>1, ConcatProperties
  <2>4. \A i \in 1..(2 * n) : (d \o g)[i] = d[i]
    BY <2>3
  <2>5. (d \o g)[2 * n + 1] = g[1]
    BY <2>3
  <2> QED BY <2>1, <2>2, <2>3, <2>4, <2>5
<1>7. \A i \in 1..(2 * n) : Sent(bytes)[i] < 16
  <2>1. \A x \in 0..15 : x < 16
    OBVIOUS
  <2> QED BY <1>2, <1>6, <2>1
<1>8. \A j \in 1..n : 2 * j - 1 \in 1..(2 * n) /\ 2 * j \in 1..(2 * n)
  BY Places
<1>9. ASSUME NEW j \in 1..n
      PROVE  Sent(bytes)[2 * j - 1] = bytes[j] \div 16 /\ Sent(bytes)[2 * j] = bytes[j] % 16
  BY <1>3, <1>6, <1>8
<1> QED BY <1>6, <1>7, <1>9

\* What ToBytes makes of the digits of a text that begins with a line of bytes: those bytes
\* first, and no other when the text is the line.
LEMMA BytesAre ==
  ASSUME NEW n \in Nat, NEW bytes \in Seq(Byte), Len(bytes) = n,
         NEW text \in Seq(Nat), Len(text) >= Len(Sent(bytes)),
         \A i \in 1..Len(Sent(bytes)) : text[i] = Sent(bytes)[i]
  PROVE  /\ Len(HexDigits(text)) \in Nat /\ Len(HexDigits(text)) >= 2 * n
         /\ Len(ToBytes(HexDigits(text))) \in Nat
         /\ ToBytes(HexDigits(text)) \in Seq(Nat)
         /\ Len(ToBytes(HexDigits(text))) >= n
         /\ \A j \in 1..n : ToBytes(HexDigits(text))[j] = bytes[j]
         /\ text = Sent(bytes) => Len(HexDigits(text)) = 2 * n /\ Len(ToBytes(HexDigits(text))) = n
<1> DEFINE s == Sent(bytes)
           hex == HexDigits(text)
           raw == ToBytes(hex)
<1>1. /\ s \in Seq(Nat) /\ Len(s) = 2 * n + 1 /\ s[2 * n + 1] = Gap
      /\ \A i \in 1..(2 * n) : s[i] < 16
      /\ \A j \in 1..n : s[2 * j - 1] = bytes[j] \div 16 /\ s[2 * j] = bytes[j] % 16
  BY SentIs
<1>2. 2 * n \in 0..Len(text) /\ \A i \in 1..(2 * n) : text[i] < 16 /\ text[i] = s[i]
  <2>1. Len(text) >= Len(s) /\ \A i \in 1..Len(s) : text[i] = s[i]
    OBVIOUS
  <2> HIDE DEF s
  <2>2. Len(text) \in Nat /\ Len(text) >= 2 * n + 1 /\ \A i \in 1..(2 * n + 1) : text[i] = s[i]
    BY <1>1, <2>1
  <2>3. ASSUME NEW i \in 1..(2 * n)
        PROVE  text[i] = s[i]
    <3>1. i \in 1..(2 * n + 1)
      OBVIOUS
    <3> QED BY <2>2, <3>1
  <2>4. \A i \in 1..(2 * n) : text[i] < 16
    BY <1>1, <2>3
  <2> QED BY <2>2, <2>3, <2>4
<1>3. /\ hex \in Seq(Nat) /\ Len(hex) >= 2 * n
      /\ \A i \in 1..(2 * n) : hex[i] = text[i]
      /\ (\A i \in (2 * n + 1)..Len(text) : text[i] >= 16) => Len(hex) = 2 * n
  BY <1>2, DigitsAre
<1> HIDE DEF s, hex
<1>4. /\ Len(hex) \in Nat /\ Len(hex) \div 2 \in Nat /\ Len(hex) \div 2 >= n
      /\ Len(hex) = 2 * n => Len(hex) \div 2 = n
      /\ \A j \in 1..(Len(hex) \div 2) : 2 * j - 1 \in 1..Len(hex) /\ 2 * j \in 1..Len(hex)
  <2>1. Len(hex) \in Nat
    BY <1>3
  <2> QED BY <1>3, <2>1, Halves
<1>5. ASSUME NEW j \in 1..(Len(hex) \div 2)
      PROVE  16 * hex[2 * j - 1] + hex[2 * j] \in Nat
  <2>1. \A i \in 1..Len(hex) : hex[i] \in Nat
    BY <1>3, ElementOfSeq, Zenon
  <2>2. hex[2 * j - 1] \in Nat /\ hex[2 * j] \in Nat
    BY <1>4, <2>1
  <2> QED BY <2>2
<1>6. raw \in Seq(Nat) /\ Len(raw) = Len(hex) \div 2
  <2>1. raw = [j \in 1..(Len(hex) \div 2) |-> 16 * hex[2 * j - 1] + hex[2 * j]]
    BY DEF ToBytes
  <2> HIDE DEF raw
  <2>2. raw \in [1..(Len(hex) \div 2) -> Nat]
    BY <1>5, <2>1
  <2>3. Len(hex) \div 2 \in Nat
    BY <1>4
  <2> DEFINE m == Len(hex) \div 2
  <2> HIDE DEF m
  <2>4. raw \in [1..m -> Nat] /\ m \in Nat
    BY <2>2, <2>3 DEF m
  <2>5. raw \in Seq(Nat) /\ Len(raw) = m
    BY <2>4
  <2> QED BY <2>5 DEF m
<1>7. ASSUME NEW j \in 1..n
      PROVE  raw[j] = bytes[j]
  <2>1. j \in 1..(Len(hex) \div 2)
    BY <1>4
  <2>2. raw[j] = 16 * hex[2 * j - 1] + hex[2 * j]
    BY <2>1 DEF ToBytes
  <2>3. 2 * j - 1 \in 1..(2 * n) /\ 2 * j \in 1..(2 * n)
    BY Places
  <2>4. hex[2 * j - 1] = bytes[j] \div 16 /\ hex[2 * j] = bytes[j] % 16
    BY <1>1, <1>2, <1>3, <2>3
  <2>5. bytes[j] \in Byte
    OBVIOUS
  <2>6. bytes[j] = 16 * (bytes[j] \div 16) + (bytes[j] % 16)
    BY <2>5, TwoDigits
  <2> HIDE DEF raw
  <2> QED BY <2>2, <2>4, <2>6
<1>8. text = s => Len(hex) = 2 * n
  <2>1. SUFFICES ASSUME text = s PROVE \A i \in (2 * n + 1)..Len(text) : text[i] >= 16
    BY <1>3
  <2>2. Len(text) = 2 * n + 1 /\ text[2 * n + 1] = Gap
    BY <1>1, <2>1
  <2> QED BY <2>2 DEF Gap
<1> HIDE DEF raw
<1>9. /\ Len(hex) \in Nat /\ Len(hex) >= 2 * n
      /\ Len(raw) \in Nat /\ raw \in Seq(Nat) /\ Len(raw) >= n
      /\ \A j \in 1..n : raw[j] = bytes[j]
      /\ text = s => Len(hex) = 2 * n /\ Len(raw) = n
  BY <1>3, <1>4, <1>6, <1>7, <1>8
<1> QED BY <1>9 DEF raw, hex, s

\* The same of a text that ends in the line: the bytes that are whole in it.
LEMMA BrokenBytesAre ==
  ASSUME NEW n \in Nat, NEW bytes \in Seq(Byte), Len(bytes) = n,
         NEW text \in Seq(Nat), Len(text) <= 2 * n,
         \A i \in 1..Len(text) : text[i] = Sent(bytes)[i]
  PROVE  /\ Len(HexDigits(text)) = Len(text)
         /\ ToBytes(HexDigits(text)) \in Seq(Nat)
         /\ Len(ToBytes(HexDigits(text))) = Len(text) \div 2
         /\ \A j \in 1..(Len(text) \div 2) : ToBytes(HexDigits(text))[j] = bytes[j]
<1> DEFINE s == Sent(bytes)
           hex == HexDigits(text)
           raw == ToBytes(hex)
           L == Len(text)
<1>1. /\ s \in Seq(Nat)
      /\ \A i \in 1..(2 * n) : s[i] < 16
      /\ \A j \in 1..n : s[2 * j - 1] = bytes[j] \div 16 /\ s[2 * j] = bytes[j] % 16
  BY SentIs
<1>2. L \in Nat /\ L \in 0..Len(text) /\ L <= 2 * n /\ \A i \in 1..L : text[i] = s[i] /\ s[i] < 16
  BY <1>1
<1> HIDE DEF s
<1>3. hex \in Seq(Nat) /\ Len(hex) = L /\ \A i \in 1..L : hex[i] = text[i]
  <2>1. \A k \in 1..L : text[k] < 16
    BY <1>2
  <2>2. \A k \in (L + 1)..Len(text) : FALSE
    BY <1>2
  <2> QED BY <1>2, <2>1, <2>2, DigitsAre
<1>4. raw \in Seq(Byte) /\ Len(raw) = L \div 2
  BY <1>2, <1>3, RawBytes
<1> HIDE DEF hex
<1>5. ASSUME NEW j \in 1..(L \div 2)
      PROVE  raw[j] = bytes[j]
  <2>1. j \in 1..n /\ 2 * j - 1 \in 1..L /\ 2 * j \in 1..L
    BY <1>2
  <2>2. raw[j] = 16 * hex[2 * j - 1] + hex[2 * j]
    BY <1>3 DEF ToBytes
  <2>3. hex[2 * j - 1] = bytes[j] \div 16 /\ hex[2 * j] = bytes[j] % 16
    BY <1>1, <1>2, <1>3, <2>1
  <2>4. bytes[j] \in Byte
    BY <2>1
  <2>5. bytes[j] = 16 * (bytes[j] \div 16) + (bytes[j] % 16)
    BY <2>4, TwoDigits
  <2> HIDE DEF raw
  <2> QED BY <2>2, <2>3, <2>5
<1>6. raw \in Seq(Nat)
  <2>1. Byte \subseteq Nat
    BY DEF Byte
  <2> HIDE DEF raw
  <2> QED BY <1>4, <2>1
<1> HIDE DEF raw
<1>7. /\ Len(hex) = L /\ raw \in Seq(Nat) /\ Len(raw) = L \div 2
      /\ \A j \in 1..(L \div 2) : raw[j] = bytes[j]
  BY <1>3, <1>4, <1>5, <1>6
<1> QED BY <1>7 DEF raw, hex, L

\* So a text that agrees with a line, as far as both go, begins with its bytes, as far as it
\* has any.
LEMMA BytesBegin ==
  ASSUME NEW n \in Nat, NEW bytes \in Seq(Byte), Len(bytes) = n,
         NEW text \in Seq(Nat),
         \A i \in 1..Len(text) : i <= Len(Sent(bytes)) => text[i] = Sent(bytes)[i]
  PROVE  /\ Len(HexDigits(text)) \in Nat
         /\ ToBytes(HexDigits(text)) \in Seq(Nat)
         /\ Len(ToBytes(HexDigits(text))) = Len(HexDigits(text)) \div 2
         /\ \A j \in 1..n : j <= Len(ToBytes(HexDigits(text))) => ToBytes(HexDigits(text))[j] = bytes[j]
         /\ Len(text) >= Len(Sent(bytes)) =>
              Len(HexDigits(text)) >= 2 * n /\ Len(ToBytes(HexDigits(text))) >= n
         /\ Len(text) <= Len(Sent(bytes)) => Len(ToBytes(HexDigits(text))) <= n
<1> DEFINE hex == HexDigits(text)
           raw == ToBytes(hex)
           L == Len(text)
<1>1. Len(Sent(bytes)) = 2 * n + 1 /\ L \in Nat
  BY SentIs
<1>2. Len(hex) \in Nat /\ Len(raw) = Len(hex) \div 2
  BY <1>1, RawBytes
<1> HIDE DEF L
<1>3. CASE L >= 2 * n + 1
  <2>1. Len(text) >= Len(Sent(bytes)) /\ \A i \in 1..Len(Sent(bytes)) : text[i] = Sent(bytes)[i]
    BY <1>1, <1>3 DEF L
  <2>2. /\ Len(hex) >= 2 * n /\ raw \in Seq(Nat) /\ Len(raw) >= n
        /\ \A j \in 1..n : raw[j] = bytes[j]
        /\ text = Sent(bytes) => Len(raw) = n
    BY <2>1, BytesAre
  <2>3. L <= 2 * n + 1 => text = Sent(bytes)
    <3>1. SUFFICES ASSUME L <= 2 * n + 1 PROVE text = Sent(bytes)
      OBVIOUS
    <3>2. Sent(bytes) \in Seq(Nat) /\ Len(text) = Len(Sent(bytes))
      BY <1>1, <1>3, <3>1, SentIs DEF L
    <3> QED BY <2>1, <3>2, SeqEqual
  <2> QED BY <1>1, <1>2, <2>2, <2>3 DEF L
<1>4. CASE L <= 2 * n
  <2>1. Len(text) <= 2 * n /\ \A i \in 1..Len(text) : text[i] = Sent(bytes)[i]
    BY <1>1, <1>4 DEF L
  <2>2. /\ raw \in Seq(Nat) /\ Len(raw) = Len(text) \div 2
        /\ \A j \in 1..(Len(text) \div 2) : raw[j] = bytes[j]
    BY <2>1, BrokenBytesAre
  <2> HIDE DEF raw, hex
  <2>3. Len(raw) <= n /\ \A j \in 1..n : j <= Len(raw) => j \in 1..(Len(text) \div 2)
    BY <1>1, <2>1, <2>2
  <2>4. ~(Len(text) >= Len(Sent(bytes)))
    BY <1>1, <2>1
  <2>5. /\ Len(hex) \in Nat /\ raw \in Seq(Nat) /\ Len(raw) = Len(hex) \div 2
        /\ \A j \in 1..n : j <= Len(raw) => raw[j] = bytes[j]
        /\ Len(text) >= Len(Sent(bytes)) => Len(hex) >= 2 * n /\ Len(raw) >= n
        /\ Len(text) <= Len(Sent(bytes)) => Len(raw) <= n
    BY <1>2, <2>2, <2>3, <2>4
  <2> QED BY <2>5 DEF raw, hex
<1> QED BY <1>1, <1>3, <1>4

\* What arrives of a text is a text that agrees with it as far as it goes.
LEMMA ArrivesIs ==
  ASSUME NEW sent \in Seq(Nat), NEW text \in Arrives(sent)
  PROVE  /\ text \in Seq(Nat) /\ Len(text) \in Nat /\ Len(text) <= Len(sent)
         /\ \A i \in 1..Len(text) : text[i] = sent[i]
         /\ Len(text) = Len(sent) => text = sent
<1>1. CASE text = sent
  BY <1>1
<1>2. CASE text # sent
  <2>1. PICK n \in 1..Len(sent) : text = SubSeq(sent, 1, n)
    BY <1>2 DEF Arrives
  <2>2. \A i \in 1..n : sent[i] \in Nat
    BY ElementOfSeq
  <2>3. /\ text \in Seq(Nat) /\ Len(text) = n /\ \A i \in 1..n : text[i] = sent[i]
    BY <2>1, <2>2
  <2>4. Len(text) = Len(sent) => text = sent
    BY <2>3, SeqEqual
  <2> QED BY <2>3, <2>4
<1> QED BY <1>1, <1>2

\* NO DATA, or what came of it, has at most three digits.
LEMMA NoDataIsShort ==
  /\ NoData \in Seq(Nat)
  /\ \A text \in Arrives(NoData) : Len(HexDigits(text)) <= 3
<1>1. Len(NoData) = 7 /\ NoData \in Seq(Nat)
  BY DEF NoData, Gap
<1>2. ASSUME NEW text \in Arrives(NoData)
      PROVE  Len(HexDigits(text)) <= 3
  <2> DEFINE n == Len(text)
             S == 0..15
             c == [k \in 0..7 |-> IF k < 4 THEN 0 ELSE IF k = 4 THEN 1
                                  ELSE IF k < 7 THEN 2 ELSE 3]
  <2>1. /\ text \in Seq(Nat) /\ n \in Nat /\ n <= 7 /\ \A i \in 1..n : text[i] = NoData[i]
    BY <1>1, ArrivesIs
  <2>2. /\ NoData[1] = 36 /\ NoData[2] = 36 /\ NoData[3] = 36 /\ NoData[4] = 13
        /\ NoData[5] = 10 /\ NoData[6] = 36 /\ NoData[7] = 10
    BY DEF NoData, Gap
  <2>3. /\ c[0] = 0 /\ c[1] = 0 /\ c[2] = 0 /\ c[3] = 0
        /\ c[4] = 1 /\ c[5] = 2 /\ c[6] = 2 /\ c[7] = 3
    <3>1. \A k \in 0..7 : c[k] = IF k < 4 THEN 0 ELSE IF k = 4 THEN 1
                                 ELSE IF k < 7 THEN 2 ELSE 3
      BY Zenon
    <3> HIDE DEF c
    <3> QED BY <3>1
  <2> HIDE DEF c
  <2>4. n \in 0..Len(text) /\ n = Len(text) /\ n \in 0..7 /\ \A k \in 1..n : k \in 1..7
    <3>1. n \in Nat /\ n <= 7
      BY <2>1
    <3>2. n \in Nat => n \in 0..Len(text)
      OBVIOUS
    <3> HIDE DEF n
    <3>3. n \in 0..7 /\ \A k \in 1..n : k \in 1..7
      BY <3>1
    <3> QED BY <3>1, <3>2, <3>3 DEF n
  <2> HIDE DEF n
  <2>5. /\ 36 \notin S /\ 13 \in S /\ 10 \in S
        /\ \A k \in 1..7 : k = 1 \/ k = 2 \/ k = 3 \/ k = 4 \/ k = 5 \/ k = 6 \/ k = 7
        /\ 1 - 1 = 0 /\ 2 - 1 = 1 /\ 3 - 1 = 2 /\ 4 - 1 = 3 /\ 5 - 1 = 4 /\ 6 - 1 = 5 /\ 7 - 1 = 6
        /\ 0 + 1 = 1 /\ 1 + 1 = 2 /\ 2 + 1 = 3
    OBVIOUS
  <2> HIDE DEF S
  <2>6. \A k \in 1..7 : c[k] = IF NoData[k] \in S THEN c[k - 1] + 1 ELSE c[k - 1]
    BY <2>2, <2>3, <2>5
  <2>7. \A k \in 1..n : c[k] = IF text[k] \in S THEN c[k - 1] + 1 ELSE c[k - 1]
    BY <2>1, <2>4, <2>6, Zenon
  <2>8. Len(Keep(text, S)) = c[n]
    <3>1. text \in Seq(Nat) /\ n = Len(text) /\ c[0] = 0
      BY <2>1, <2>3, <2>4, Zenon
    <3>2. Counts(c, text, S, Len(text))
      BY <2>7, <3>1, Zenon DEF Counts
    <3>3. Len(Keep(text, S)) = c[Len(text)]
      BY <3>1, <3>2, KeptLength
    <3> QED BY <3>1, <3>3, Zenon
  <2>9. c[n] <= 3
    <3>0. n \in 0..7
      BY <2>4, Zenon
    <3>1. n = 0 \/ n = 1 \/ n = 2 \/ n = 3 \/ n = 4 \/ n = 5 \/ n = 6 \/ n = 7
      BY <3>0
    <3> QED BY <2>3, <3>1
  <2> QED BY <2>4, <2>8, <2>9 DEF HexDigits, S
<1> QED BY <1>1, <1>2

-----------------------------------------------------------------------------
\* What FlattenSeq has joined after i sequences, if it had f before the last of them.
Joined(seqs, f, i) == IF i = 1 THEN seqs[i] ELSE f[i - 1] \o seqs[i]

\* The recursion of FlattenSeq goes through any sequence.
LEMMA JoinsAny ==
  ASSUME NEW seqs, NEW n \in Nat
  PROVE  \E f : f = [i \in 1..n |-> Joined(seqs, f, i)]
<1> DEFINE Have == { m \in Nat : \E f : f = [i \in 1..m |-> Joined(seqs, f, i)] }
<1>1. 0 \in Have
  <2> DEFINE f == [i \in 1..0 |-> 0]
  <2>1. \A i \in 1..0 : FALSE
    OBVIOUS
  <2>2. f = [i \in 1..0 |-> Joined(seqs, f, i)]
    BY <2>1
  <2> QED BY <2>2
<1>2. ASSUME NEW m \in Nat, m \in Have
      PROVE  m + 1 \in Have
  <2>1. PICK f : f = [i \in 1..m |-> Joined(seqs, f, i)]
    BY <1>2
  <2> DEFINE g == [i \in 1..(m + 1) |-> IF i = m + 1 THEN Joined(seqs, f, i) ELSE f[i]]
  <2>2. ASSUME NEW i \in 1..(m + 1)
        PROVE  g[i] = Joined(seqs, g, i)
    <3>1. g[i] = Joined(seqs, f, i)
      <4>1. CASE i = m + 1
        BY <4>1
      <4>2. CASE i # m + 1
        <5>1. i \in 1..m
          BY <4>2
        <5> QED BY <2>1, <4>2, <5>1
      <4> QED BY <4>1, <4>2
    <3>2. CASE i = 1
      <4> HIDE DEF g
      <4> QED BY <3>1, <3>2 DEF Joined
    <3>3. CASE i # 1
      <4>1. i - 1 \in 1..(m + 1) /\ i - 1 # m + 1
        BY <3>3
      <4>2. g[i - 1] = f[i - 1]
        BY <4>1
      <4> HIDE DEF g
      <4> QED BY <3>1, <3>3, <4>2 DEF Joined
    <3> QED BY <3>2, <3>3
  <2>3. g = [i \in 1..(m + 1) |-> Joined(seqs, g, i)]
    <3>1. g = [i \in 1..(m + 1) |-> g[i]]
      OBVIOUS
    <3> HIDE DEF g
    <3> QED BY <2>2, <3>1
  <2>4. \E p : p = [i \in 1..(m + 1) |-> Joined(seqs, p, i)]
    <3> HIDE DEF g
    <3> QED BY <2>3
  <2> QED BY <2>4
<1>3. Nat \subseteq Have
  <2> HIDE DEF Have
  <2> QED BY <1>1, <1>2, EveryNumber
<1> QED BY <1>3

\* text begins with the characters of front.
Begins(text, front) ==
  /\ text \in Seq(Nat) /\ front \in Seq(Nat) /\ Len(text) >= Len(front)
  /\ \A j \in 1..Len(front) : text[j] = front[j]

\* Several lines begin with the first and with the first two, and one line is all of them.
LEMMA FlattenBegins ==
  ASSUME NEW n \in Nat, n > 0, NEW seqs, Len(seqs) = n,
         \A i \in 1..n : seqs[i] \in Seq(Nat)
  PROVE  /\ Begins(FlattenSeq(seqs), seqs[1])
         /\ n >= 2 => Begins(FlattenSeq(seqs), seqs[1] \o seqs[2])
         /\ n = 1 => FlattenSeq(seqs) = seqs[1]
<1> DEFINE f == CHOOSE f : f = [i \in 1..n |-> Joined(seqs, f, i)]
<1>1. FlattenSeq(seqs) = f[n]
  BY DEF FlattenSeq, Joined
<1>2. f = [i \in 1..n |-> Joined(seqs, f, i)]
  BY JoinsAny
<1> HIDE DEF f
<1>3. f[1] = seqs[1] /\ (n >= 2 => f[2] = seqs[1] \o seqs[2])
  <2>1. f[1] = seqs[1]
    BY <1>2 DEF Joined
  <2>2. n >= 2 => 2 \in 1..n /\ 2 # 1 /\ 2 - 1 = 1
    OBVIOUS
  <2>3. n >= 2 => f[2] = f[1] \o seqs[2]
    BY <1>2, <2>2 DEF Joined
  <2> QED BY <2>1, <2>3
<1>4. ASSUME NEW q \in 1..n, NEW front \in Seq(Nat), f[q] = front
      PROVE  Begins(f[n], front)
  <2> DEFINE Begun == { k \in Nat : q + k <= n => Begins(f[q + k], front) }
  <2>1. 0 \in Begun
    <3>1. q + 0 = q
      OBVIOUS
    <3> QED BY <1>4, <3>1 DEF Begins
  <2>2. ASSUME NEW k \in Nat, k \in Begun
        PROVE  k + 1 \in Begun
    <3> DEFINE m == q + k
    <3>1. SUFFICES ASSUME q + (k + 1) <= n PROVE Begins(f[q + (k + 1)], front)
      OBVIOUS
    <3>2. m \in Nat /\ m + 1 = q + (k + 1) /\ m + 1 \in 1..n /\ m + 1 # 1 /\ (m + 1) - 1 = m
      BY <3>1
    <3>3. Begins(f[m], front)
      BY <2>2, <3>1
    <3> HIDE DEF m, Begun
    <3>4. f[m + 1] = f[m] \o seqs[m + 1] /\ seqs[m + 1] \in Seq(Nat)
      BY <1>2, <3>2 DEF Joined
    <3> DEFINE a == f[m]
               b == seqs[m + 1]
    <3>5. /\ a \in Seq(Nat) /\ b \in Seq(Nat) /\ Len(a) \in Nat /\ Len(b) \in Nat
          /\ Len(front) \in Nat /\ Len(a) >= Len(front)
          /\ \A j \in 1..Len(front) : a[j] = front[j]
      BY <3>3, <3>4 DEF Begins
    <3>6. f[m + 1] = a \o b
      BY <3>4
    <3> HIDE DEF a, b
    <3>7. /\ a \o b \in Seq(Nat) /\ Len(a \o b) = Len(a) + Len(b)
          /\ \A j \in 1..(Len(a) + Len(b)) :
               (a \o b)[j] = IF j <= Len(a) THEN a[j] ELSE b[j - Len(a)]
      BY <3>5, ConcatProperties
    <3>8. ASSUME NEW j \in 1..Len(front)
          PROVE  (a \o b)[j] = front[j]
      <4>1. j \in 1..(Len(a) + Len(b)) /\ j <= Len(a)
        BY <3>5
      <4> QED BY <3>5, <3>7, <4>1
    <3>9. Len(a \o b) >= Len(front)
      BY <3>5, <3>7
    <3>10. Begins(a \o b, front)
      BY <3>7, <3>8, <3>9, Zenon DEF Begins
    <3> QED BY <3>2, <3>6, <3>10
  <2>3. Nat \subseteq Begun
    <3> HIDE DEF Begun
    <3> QED BY <2>1, <2>2, EveryNumber
  <2> DEFINE k == n - q
  <2>4. k \in Nat /\ q + k = n /\ q + k <= n
    OBVIOUS
  <2>5. k \in Begun
    BY <2>3, <2>4
  <2> HIDE DEF k
  <2> QED BY <2>4, <2>5
<1>5. Begins(f[n], seqs[1])
  <2>1. 1 \in 1..n
    OBVIOUS
  <2> QED BY <1>3, <1>4, <2>1
<1>6. n >= 2 => Begins(f[n], seqs[1] \o seqs[2])
  <2>1. SUFFICES ASSUME n >= 2 PROVE Begins(f[n], seqs[1] \o seqs[2])
    OBVIOUS
  <2>2. 2 \in 1..n /\ 1 \in 1..n
    BY <2>1
  <2>3. seqs[1] \o seqs[2] \in Seq(Nat)
    <3>1. seqs[1] \in Seq(Nat) /\ seqs[2] \in Seq(Nat)
      BY <2>2
    <3> QED BY <3>1, ConcatProperties
  <2> QED BY <1>3, <1>4, <2>1, <2>2, <2>3
<1> QED BY <1>1, <1>3, <1>5, <1>6

-----------------------------------------------------------------------------
\* The bytes of the only line of an answer: the service byte, the codes, and 00 00 up to the
\* end of the line.
Stuffed(codes) ==
  [i \in 1..(2 * PerLine) |->
     (IF (i + 1) \div 2 <= Len(codes) THEN codes[(i + 1) \div 2] ELSE <<0, 0>>)[((i - 1) % 2) + 1]]

LineBytes(m, codes) == <<Service[m]>> \o Stuffed(codes)

\* The number of lines, when there is at most one.
LEMMA OneLine ==
  ASSUME NEW codes, Len(codes) \in Nat \ {0}, Lines(codes) <= 1
  PROVE  Len(codes) <= PerLine /\ Lines(codes) = 1
<1> DEFINE n == Len(codes)
<1>1. n \in Nat /\ n >= 1 /\ PerLine \in Nat /\ PerLine >= 1
  BY ReadAssumption
<1>2. (n + PerLine - 1) \div PerLine <= 1
  BY DEF Lines
<1> HIDE DEF n
<1> DEFINE q == (n + PerLine - 1) \div PerLine
           r == (n + PerLine - 1) % PerLine
<1>3. q \in Int /\ r \in 0..(PerLine - 1) /\ n + PerLine - 1 = PerLine * q + r
  BY <1>1
<1> HIDE DEF q, r
<1>4. q <= 1
  BY <1>2 DEF q
<1>5. q >= 1
  <2>1. SUFFICES ASSUME q <= 0 PROVE FALSE
    BY <1>3
  <2>2. PerLine * q <= 0
    BY <1>1, <1>3, <2>1
  <2> QED BY <1>1, <1>3, <2>2
<1>6. q = 1
  BY <1>3, <1>4, <1>5
<1>7. n <= PerLine
  BY <1>1, <1>3, <1>6
<1> QED BY <1>6, <1>7 DEF q, n, Lines

\* The only line of an answer has those bytes.
LEMMA ReplyIsALine ==
  ASSUME NEW m \in Modes, NEW codes, codes = car.codes[m], car.bus = "legacy",
         Len(codes) \in Nat \ {0}, Lines(codes) <= 1,
         Sent(LineBytes(m, codes)) \in Seq(Nat)
  PROVE  Reply(m) = Sent(LineBytes(m, codes))
<1>1. Lines(codes) = 1 /\ codes # <<>>
  BY OneLine
<1>2. Reply(m) = FlattenSeq([k \in 1..1 |-> Line(m, codes, k)])
  <2>1. car.bus # "can"
    OBVIOUS
  <2> QED BY <1>1, <2>1, Zenon DEF Reply
<1>4. Line(m, codes, 1) = Sent(LineBytes(m, codes))
  <2>1. \A i \in 1..(2 * PerLine) : PerLine * (1 - 1) + ((i + 1) \div 2) = (i + 1) \div 2
    BY ReadAssumption
  <2>2. [i \in 1..(2 * PerLine) |->
           (IF PerLine * (1 - 1) + ((i + 1) \div 2) <= Len(codes)
            THEN codes[PerLine * (1 - 1) + ((i + 1) \div 2)] ELSE <<0, 0>>)[((i - 1) % 2) + 1]]
          = Stuffed(codes)
    BY <2>1, Zenon DEF Stuffed
  <2> QED BY <2>2, Zenon DEF Line, LineBytes
<1> DEFINE seqs == [k \in 1..1 |-> Line(m, codes, k)]
<1>5. Len(seqs) = 1 /\ seqs[1] = Line(m, codes, 1)
  OBVIOUS
<1> HIDE DEF seqs
<1>6. \A i \in 1..1 : seqs[i] \in Seq(Nat)
  BY <1>4, <1>5
<1>7. FlattenSeq(seqs) = seqs[1]
  <2>1. 1 \in Nat /\ 1 > 0
    OBVIOUS
  <2> QED BY <1>5, <1>6, <2>1, FlattenBegins, Zenon
<1> QED BY <1>2, <1>4, <1>5, <1>7 DEF seqs

\* Byte 2 j of that line and the next are code j.
LEMMA LineHolds ==
  ASSUME NEW m \in Modes, NEW codes \in Seq((Byte \X Byte) \ {<<0, 0>>})
  PROVE  /\ LineBytes(m, codes) \in Seq(Byte)
         /\ Len(LineBytes(m, codes)) = 2 * PerLine + 1
         /\ LineBytes(m, codes)[1] = Service[m]
         /\ \A j \in 1..PerLine :
              /\ LineBytes(m, codes)[2 * j] = (IF j <= Len(codes) THEN codes[j] ELSE <<0, 0>>)[1]
              /\ LineBytes(m, codes)[2 * j + 1]
                   = (IF j <= Len(codes) THEN codes[j] ELSE <<0, 0>>)[2]
<1> DEFINE of(j) == IF j <= Len(codes) THEN codes[j] ELSE <<0, 0>>
           b == Stuffed(codes)
           a == <<Service[m]>>
<1>1. PerLine \in Nat /\ Len(codes) \in Nat
  BY ReadAssumption
<1>2. ASSUME NEW j \in 1..PerLine
      PROVE  of(j)[1] \in Byte /\ of(j)[2] \in Byte
  <2>1. CASE j <= Len(codes)
    <3>1. codes[j] \in Byte \X Byte
      BY <1>1, <2>1
    <3> QED BY <2>1, <3>1
  <2>2. CASE ~(j <= Len(codes))
    BY <2>2 DEF Byte
  <2> QED BY <2>1, <2>2
<1>3. b = [i \in 1..(2 * PerLine) |-> of((i + 1) \div 2)[((i - 1) % 2) + 1]]
  BY DEF Stuffed
<1> HIDE DEF b, of
<1>4. ASSUME NEW i \in 1..(2 * PerLine)
      PROVE  b[i] \in Byte
  <2>1. b[i] = of((i + 1) \div 2)[((i - 1) % 2) + 1]
    BY <1>3
  <2>2. (i + 1) \div 2 \in 1..PerLine /\ (i - 1) % 2 \in 0..1
    BY <1>1, Places
  <2>3. of((i + 1) \div 2)[1] \in Byte /\ of((i + 1) \div 2)[2] \in Byte
    BY <1>2, <2>2
  <2>4. ((i - 1) % 2) + 1 = 1 \/ ((i - 1) % 2) + 1 = 2
    BY <2>2
  <2> QED BY <2>1, <2>3, <2>4
<1>5. ASSUME NEW j \in 1..PerLine
      PROVE  b[2 * j - 1] = of(j)[1] /\ b[2 * j] = of(j)[2]
  <2>1. /\ 2 * j - 1 \in 1..(2 * PerLine) /\ 2 * j \in 1..(2 * PerLine)
        /\ ((2 * j - 1) + 1) \div 2 = j /\ (2 * j + 1) \div 2 = j
        /\ ((2 * j - 1) - 1) % 2 = 0 /\ (2 * j - 1) % 2 = 1
    BY <1>1, Places
  <2>2. /\ b[2 * j - 1] = of(((2 * j - 1) + 1) \div 2)[(((2 * j - 1) - 1) % 2) + 1]
        /\ b[2 * j] = of((2 * j + 1) \div 2)[((2 * j - 1) % 2) + 1]
    BY <1>3, <2>1, Zenon
  <2>3. b[2 * j - 1] = of(j)[0 + 1] /\ b[2 * j] = of(j)[1 + 1]
    BY <2>1, <2>2, Zenon
  <2>4. 0 + 1 = 1 /\ 1 + 1 = 2
    OBVIOUS
  <2> QED BY <2>3, <2>4, Zenon
<1>6. b \in Seq(Byte) /\ Len(b) = 2 * PerLine
  <2>1. b \in [1..(2 * PerLine) -> Byte]
    BY <1>3, <1>4
  <2>2. 2 * PerLine \in Nat
    BY <1>1
  <2> QED BY <2>1, <2>2
<1>7. a \in Seq(Byte) /\ Len(a) = 1 /\ a[1] = Service[m]
  BY DEF Service, Byte, Modes
<1> HIDE DEF a
<1>8. /\ a \o b \in Seq(Byte) /\ Len(a \o b) = 2 * PerLine + 1
      /\ \A i \in 1..(2 * PerLine + 1) : (a \o b)[i] = IF i <= 1 THEN a[i] ELSE b[i - 1]
  <2>1. Len(a) + Len(b) = 2 * PerLine + 1
    BY <1>1, <1>6, <1>7
  <2>2. /\ a \o b \in Seq(Byte) /\ Len(a \o b) = Len(a) + Len(b)
        /\ \A i \in 1..(Len(a) + Len(b)) :
             (a \o b)[i] = IF i <= Len(a) THEN a[i] ELSE b[i - Len(a)]
    BY <1>6, <1>7, ConcatProperties, Zenon
  <2> QED BY <1>7, <2>1, <2>2, Zenon
<1>9. (a \o b)[1] = Service[m]
  BY <1>1, <1>7, <1>8
<1>10. ASSUME NEW j \in 1..PerLine
       PROVE  (a \o b)[2 * j] = of(j)[1] /\ (a \o b)[2 * j + 1] = of(j)[2]
  <2>1. /\ 2 * j \in 1..(2 * PerLine + 1) /\ ~(2 * j <= 1)
        /\ 2 * j + 1 \in 1..(2 * PerLine + 1) /\ ~(2 * j + 1 <= 1) /\ (2 * j + 1) - 1 = 2 * j
    BY <1>1
  <2> QED BY <1>5, <1>8, <2>1
<1> QED BY <1>8, <1>9, <1>10 DEF a, b, of, LineBytes

\* DecodeDTCs finds in an answer of one line the codes that are in it: it skips the service
\* byte and what fills the line.  Of a line that broke off it finds some of them.
LEMMA DecodesOneLine ==
  ASSUME NEW m \in Modes, NEW codes \in Seq((Byte \X Byte) \ {<<0, 0>>}), codes # <<>>,
         Lines(codes) <= 1, NEW text \in Arrives(Sent(LineBytes(m, codes)))
  PROVE  /\ Sent(LineBytes(m, codes)) \in Seq(Nat)
         /\ DecodeDTCs(text) \subseteq {EncodeDTC(c[1], c[2]) : c \in Range(codes)}
         /\ text = Sent(LineBytes(m, codes)) =>
              DecodeDTCs(text) = {EncodeDTC(c[1], c[2]) : c \in Range(codes)}
<1> DEFINE B == LineBytes(m, codes)
           n == 2 * PerLine + 1
           hex == HexDigits(text)
           raw == ToBytes(hex)
           of(j) == IF j <= Len(codes) THEN codes[j] ELSE <<0, 0>>
           All == {EncodeDTC(c[1], c[2]) : c \in Range(codes)}
<1>1. Len(codes) \in Nat \ {0} /\ PerLine \in Nat /\ PerLine >= 1 /\ n \in Nat
  BY ReadAssumption
<1>2. /\ B \in Seq(Byte) /\ Len(B) = n /\ B[1] = Service[m]
      /\ \A j \in 1..PerLine : B[2 * j] = of(j)[1] /\ B[2 * j + 1] = of(j)[2]
  BY LineHolds
<1> HIDE DEF B, n, of
<1>3. Sent(B) \in Seq(Nat) /\ Len(Sent(B)) \in Nat
  BY <1>1, <1>2, SentIs
<1>4. /\ text \in Seq(Nat) /\ Len(text) \in Nat /\ Len(text) <= Len(Sent(B))
      /\ \A i \in 1..Len(text) : text[i] = Sent(B)[i]
  BY <1>3, ArrivesIs DEF B
<1>5. /\ Len(hex) \in Nat /\ raw \in Seq(Nat) /\ Len(raw) = Len(hex) \div 2
      /\ Len(raw) <= n
      /\ \A j \in 1..n : j <= Len(raw) => raw[j] = B[j]
      /\ text = Sent(B) => Len(hex) >= 2 * n /\ Len(raw) >= n
  <2>1. /\ Len(hex) \in Nat /\ raw \in Seq(Nat) /\ Len(raw) = Len(hex) \div 2
        /\ \A j \in 1..n : j <= Len(raw) => raw[j] = B[j]
        /\ Len(text) >= Len(Sent(B)) => Len(hex) >= 2 * n /\ Len(raw) >= n
        /\ Len(text) <= Len(Sent(B)) => Len(raw) <= n
    BY <1>1, <1>2, <1>4, BytesBegin
  <2> HIDE DEF hex, raw
  <2> QED BY <1>3, <1>4, <2>1
<1> HIDE DEF All
<1>6. CASE Len(hex) < 6
  <2>1. DecodeDTCs(text) = {}
    BY <1>6, Zenon DEF DecodeDTCs
  <2>2. text # Sent(B)
    <3> HIDE DEF hex, raw
    <3> QED BY <1>1, <1>5, <1>6 DEF n
  <2> QED BY <1>3, <2>1, <2>2 DEF All, B
<1>7. CASE ~(Len(hex) < 6)
  <2> HIDE DEF raw
  <2>1. Len(raw) \in Nat /\ Len(raw) >= 3
    <3> HIDE DEF hex
    <3> QED BY <1>5, <1>7
  <2>2. raw[1] \in {67, 71, 74}
    <3>1. 1 \in 1..n /\ 1 <= Len(raw)
      BY <1>1, <2>1 DEF n
    <3>2. Service[m] \in {67, 71, 74}
      BY DEF Service, Modes
    <3> QED BY <1>2, <1>5, <3>1, <3>2
  <2> DEFINE In == {j \in 2..(Len(raw) - 1) :
                      (j - 2) % 2 = 0 /\ <<raw[j], raw[j + 1]>> # <<0, 0>>}
  <2>3. DecodeDTCs(text) = {EncodeDTC(raw[i], raw[i + 1]) : i \in In}
    <3>1. (IF raw[1] \in {67, 71, 74} THEN 2 ELSE 1) = 2
      BY <2>2
    <3> QED BY <1>7, <3>1 DEF DecodeDTCs, raw
  <2>4. ASSUME NEW j \in 1..PerLine, 2 * j + 1 <= Len(raw)
        PROVE  raw[2 * j] = of(j)[1] /\ raw[2 * j + 1] = of(j)[2]
    <3>1. 2 * j \in 1..n /\ 2 * j + 1 \in 1..n /\ 2 * j <= Len(raw)
      BY <1>1, <2>1, <2>4 DEF n
    <3> QED BY <1>2, <1>5, <2>4, <3>1
  <2>5. ASSUME NEW j \in 1..Len(codes)
        PROVE  /\ j \in 1..PerLine /\ of(j) = codes[j]
               /\ codes[j] = <<codes[j][1], codes[j][2]>> /\ codes[j] # <<0, 0>>
    <3>1. Len(codes) <= PerLine
      BY <1>1, OneLine
    <3>2. codes[j] \in (Byte \X Byte) \ {<<0, 0>>}
      OBVIOUS
    <3>3. codes[j] = <<codes[j][1], codes[j][2]>> /\ codes[j] # <<0, 0>>
      BY <3>2
    <3>4. j \in 1..PerLine /\ j <= Len(codes)
      BY <1>1, <3>1
    <3> QED BY <3>3, <3>4 DEF of
  <2> HIDE DEF In
  <2>6. ASSUME NEW i \in In
        PROVE  \E j \in 1..Len(codes) : raw[i] = codes[j][1] /\ raw[i + 1] = codes[j][2]
    <3>1. i \in 2..(Len(raw) - 1) /\ (i - 2) % 2 = 0 /\ <<raw[i], raw[i + 1]>> # <<0, 0>>
      BY DEF In
    <3>2. PICK j \in 1..PerLine : i = 2 * j
      <4>1. i \in 2..(2 * PerLine)
        BY <1>1, <1>5, <2>1, <3>1 DEF n
      <4>2. i \div 2 \in 1..PerLine /\ i = 2 * (i \div 2)
        BY <1>1, <3>1, <4>1
      <4> QED BY <4>2
    <3>3. raw[i] = of(j)[1] /\ raw[i + 1] = of(j)[2]
      <4>1. 2 * j + 1 <= Len(raw)
        BY <2>1, <3>1, <3>2
      <4> QED BY <2>4, <3>2, <4>1
    <3>4. j <= Len(codes)
      <4>1. SUFFICES ASSUME ~(j <= Len(codes)) PROVE FALSE
        OBVIOUS
      <4>2. of(j) = <<0, 0>>
        BY <4>1 DEF of
      <4> QED BY <3>1, <3>3, <4>2
    <3>5. j \in 1..Len(codes)
      BY <1>1, <3>4
    <3> QED BY <2>5, <3>3, <3>5
  <2>7. All = {EncodeDTC(codes[j][1], codes[j][2]) : j \in 1..Len(codes)}
    <3>1. DOMAIN codes = 1..Len(codes)
      OBVIOUS
    <3> QED BY <3>1, Zenon DEF Range, All
  <2>8. DecodeDTCs(text) \subseteq All
    <3>1. ASSUME NEW i \in In
          PROVE  EncodeDTC(raw[i], raw[i + 1]) \in All
      <4>1. PICK j \in 1..Len(codes) : raw[i] = codes[j][1] /\ raw[i + 1] = codes[j][2]
        BY <2>6
      <4> QED BY <2>7, <4>1
    <3> QED BY <2>3, <3>1
  <2>9. ASSUME text = Sent(B)
        PROVE  All \subseteq DecodeDTCs(text)
    <3>1. Len(raw) = n
      <4>1. Len(raw) >= n /\ Len(raw) <= n
        BY <1>5, <2>9
      <4> QED BY <1>1, <2>1, <4>1
    <3>2. ASSUME NEW j \in 1..Len(codes)
          PROVE  /\ 2 * j \in In
                 /\ raw[2 * j] = codes[j][1] /\ raw[2 * j + 1] = codes[j][2]
      <4>1. 2 * j + 1 <= Len(raw) /\ 2 * j \in 2..(Len(raw) - 1) /\ (2 * j - 2) % 2 = 0
        BY <1>1, <2>5, <3>1 DEF n
      <4>2. raw[2 * j] = codes[j][1] /\ raw[2 * j + 1] = codes[j][2]
        BY <2>4, <2>5, <4>1
      <4>3. <<raw[2 * j], raw[2 * j + 1]>> # <<0, 0>>
        BY <2>5, <4>2
      <4> QED BY <4>1, <4>2, <4>3 DEF In
    <3>3. ASSUME NEW j \in 1..Len(codes)
          PROVE  EncodeDTC(codes[j][1], codes[j][2]) \in DecodeDTCs(text)
      <4>1. EncodeDTC(codes[j][1], codes[j][2]) = EncodeDTC(raw[2 * j], raw[2 * j + 1])
        BY <3>2
      <4> QED BY <2>3, <3>2, <4>1
    <3> QED BY <2>7, <3>3
  <2> QED BY <1>3, <2>8, <2>9 DEF All, B
<1> QED BY <1>6, <1>7

\* It finds no code in an answer that has none, whole or broken off.
LEMMA DecodesNothing ==
  ASSUME NEW m \in Modes, car.codes[m] = <<>>, NEW text \in Arrives(Reply(m))
  PROVE  Reply(m) \in Seq(Nat) /\ DecodeDTCs(text) = {}
<1>1. CASE car.bus = "can"
  <2> DEFINE B == <<Service[m], 0>>
  <2>1. B \in Seq(Byte) /\ Len(B) = 2
    BY DEF Service, Modes, Byte
  <2>2. Reply(m) = Sent(B)
    <3>1. Paired(<<>>) = <<>>
      <4>1. 1..(2 * Len(<<>>)) = {}
        OBVIOUS
      <4> QED BY <4>1 DEF Paired
    <3>2. Reply(m) = Framed(<<Service[m], Len(<<>>)>> \o Paired(<<>>))
      BY <1>1, Zenon DEF Reply
    <3>3. <<Service[m], Len(<<>>)>> \o <<>> = B
      <4>1. Len(<<>>) = 0 /\ B \in Seq(Byte)
        BY <2>1
      <4>2. B \o <<>> = B
        <5> HIDE DEF B
        <5> QED BY <4>1
      <4> QED BY <4>1, <4>2, Zenon
    <3>4. Reply(m) = Framed(B)
      BY <3>1, <3>2, <3>3, Zenon
    <3> HIDE DEF B
    <3>5. Len(B) <= 7
      BY <2>1
    <3> QED BY <3>4, <3>5 DEF Framed
  <2> HIDE DEF B
  <2>3. 2 \in Nat
    OBVIOUS
  <2>4. Sent(B) \in Seq(Nat) /\ Len(Sent(B)) = 2 * 2 + 1
    BY <2>1, <2>3, SentIs, Zenon
  <2>5. /\ text \in Seq(Nat) /\ Len(text) \in Nat /\ Len(text) <= Len(Sent(B))
        /\ \A i \in 1..Len(text) : text[i] = Sent(B)[i]
    BY <2>2, <2>4, ArrivesIs
  <2>6. /\ Len(HexDigits(text)) \in Nat
        /\ Len(ToBytes(HexDigits(text))) = Len(HexDigits(text)) \div 2
        /\ Len(ToBytes(HexDigits(text))) <= 2
    <3>1. \A i \in 1..Len(text) : i <= Len(Sent(B)) => text[i] = Sent(B)[i]
      BY <2>5
    <3> QED BY <2>1, <2>3, <2>5, <3>1, BytesBegin, Zenon
  <2>7. Len(HexDigits(text)) < 6
    BY <2>6
  <2> QED BY <2>2, <2>4, <2>7 DEF DecodeDTCs
<1>2. CASE car.bus # "can"
  <2>1. Reply(m) = NoData
    BY <1>2 DEF Reply
  <2>2. Len(HexDigits(text)) <= 3 /\ Len(HexDigits(text)) \in Nat
    <3>1. NoData \in Seq(Nat) /\ text \in Arrives(NoData)
      BY <2>1, NoDataIsShort
    <3>2. Len(HexDigits(text)) <= 3
      BY <3>1, NoDataIsShort
    <3>3. Len(text) \in Nat
      BY <3>1, ArrivesIs
    <3> QED BY <3>2, <3>3, RawBytes
  <2>3. Len(HexDigits(text)) < 6
    BY <2>2
  <2> QED BY <2>1, <2>3, NoDataIsShort DEF DecodeDTCs
<1> QED BY <1>1, <1>2

\* So what is decoded of an answer that is readable is stored, and is all that is stored when
\* the answer came whole.
LEMMA DecodesReadable ==
  ASSUME car \in Cars, NEW m \in Modes, NEW text \in Arrives(Reply(m)),
         car.codes[m] = <<>> \/ (car.bus = "legacy" /\ Lines(car.codes[m]) <= 1)
  PROVE  /\ DecodeDTCs(text) \subseteq Stored[m]
         /\ text = Reply(m) => DecodeDTCs(text) = Stored[m]
<1> DEFINE codes == car.codes[m]
<1>1. codes \in Seq((Byte \X Byte) \ {<<0, 0>>})
  BY ReadAssumption
<1>2. Stored[m] = {EncodeDTC(c[1], c[2]) : c \in Range(codes)}
  BY Zenon DEF Stored
<1>3. CASE codes = <<>>
  <2>1. Range(codes) = {}
    BY <1>3 DEF Range
  <2>2. DecodeDTCs(text) = {}
    BY <1>3, DecodesNothing
  <2> QED BY <1>2, <2>1, <2>2
<1>4. CASE codes # <<>>
  <2>1. car.bus = "legacy" /\ Lines(codes) <= 1
    BY <1>4
  <2>2. Len(codes) \in Nat \ {0}
    BY <1>1, <1>4
  <2> HIDE DEF codes
  <2>3. Sent(LineBytes(m, codes)) \in Arrives(Sent(LineBytes(m, codes)))
    BY DEF Arrives
  <2>4. Sent(LineBytes(m, codes)) \in Seq(Nat)
    BY <1>1, <1>4, <2>1, <2>3, DecodesOneLine
  <2>5. Reply(m) = Sent(LineBytes(m, codes))
    BY <2>1, <2>2, <2>4, ReplyIsALine DEF codes
  <2>6. text \in Arrives(Sent(LineBytes(m, codes)))
    BY <2>5
  <2> QED BY <1>1, <1>2, <1>4, <2>1, <2>5, <2>6, DecodesOneLine
<1> QED BY <1>3, <1>4

-----------------------------------------------------------------------------
\* Every sensor asked is a byte and is answered in one or two.
LEMMA Sensors ==
  ASSUME NEW p \in Range(Pids)
  PROVE  p \in Byte /\ Width(p) \in 1..2
<1>1. Pids \in Seq(Range(AllPids))
  BY ReadAssumption
<1>2. \A i \in DOMAIN Pids : Pids[i] \in Range(AllPids)
  BY <1>1
<1>3. p \in Range(AllPids)
  BY <1>2, Zenon DEF Range
<1>4. PICK i \in 1..15 : p = AllPids[i]
  <2>1. DOMAIN AllPids = 1..15
    BY DEF AllPids
  <2> QED BY <1>3, <2>1, Zenon DEF Range
<1>5. p \in {12, 13, 4, 5, 15, 16, 11, 17, 6, 7, 8, 9, 20, 21, 66}
  BY <1>4 DEF AllPids
<1> QED BY <1>5 DEF Byte, Width

\* decodePayload takes what follows the first 41 and another byte.
LEMMA PayloadIs ==
  ASSUME NEW text,
         Len(HexDigits(text)) \in Nat, Len(HexDigits(text)) >= 6,
         Len(ToBytes(HexDigits(text))) \in Nat, Len(ToBytes(HexDigits(text))) >= 3,
         ToBytes(HexDigits(text))[1] = 65
  PROVE  decodePayload(text) =
           SubSeq(ToBytes(HexDigits(text)), 3, Len(ToBytes(HexDigits(text))))
<1> DEFINE raw == ToBytes(HexDigits(text))
           led == {i \in 1..(Len(raw) - 2) : raw[i] = 65}
           at == IF led = {} THEN 1 ELSE CHOOSE i \in led : \A j \in led : i <= j
<1>1. Len(raw) \in Nat /\ Len(raw) >= 3 /\ raw[1] = 65
  OBVIOUS
<1>2. ~(Len(HexDigits(text)) < 6)
  OBVIOUS
<1>3. decodePayload(text) = SubSeq(raw, at + 2, Len(raw))
  BY <1>2, Zenon DEF decodePayload
<1> HIDE DEF raw
<1>4. 1 \in led /\ \A j \in led : 1 <= j /\ j \in Nat
  BY <1>1
<1> HIDE DEF led
<1>5. \A i \in led : (\A j \in led : i <= j) => i = 1
  BY <1>4
<1>6. (CHOOSE i \in led : \A j \in led : i <= j) = 1
  BY <1>4, <1>5, Zenon
<1>7. at = 1
  BY <1>6
<1> HIDE DEF at
<1> QED BY <1>3, <1>7 DEF raw

\* The reading of a sensor is the data of the first ECU that answered; or, of an answer that
\* broke off, nothing.
LEMMA DecodesFirst ==
  ASSUME car \in Cars, NEW p \in Range(Pids), p \notin car.refused, car.data[p] # <<>>,
         NEW text \in Arrives(LiveReply(p))
  PROVE  \/ Decode(p, text) = car.data[p][1]
         \/ Decode(p, text) = <<>> /\ text # LiveReply(p)
<1> DEFINE ecus == car.data[p]
           w == Width(p)
           data == ecus[1]
           bytes == <<65, p>> \o data
           seqs == [e \in DOMAIN ecus |-> Sent(<<65, p>> \o ecus[e])]
           sent == LiveReply(p)
           hex == HexDigits(text)
           raw == ToBytes(hex)
<1>1. p \in Byte /\ w \in 1..2
  BY Sensors
<1>2. ecus \in Seq([1..w -> Byte])
  BY ReadAssumption
<1>3. ecus # <<>> /\ sent = FlattenSeq(seqs)
  BY DEF LiveReply
<1> HIDE DEF ecus, w
<1>4. Len(ecus) \in Nat /\ Len(ecus) > 0 /\ DOMAIN ecus = 1..Len(ecus)
  BY <1>2, <1>3
<1>5. ASSUME NEW e \in 1..Len(ecus)
      PROVE  /\ ecus[e] \in Seq(Byte) /\ Len(ecus[e]) = w
             /\ <<65, p>> \o ecus[e] \in Seq(Byte) /\ Len(<<65, p>> \o ecus[e]) = w + 2
             /\ (<<65, p>> \o ecus[e])[1] = 65
             /\ \A j \in 1..w : (<<65, p>> \o ecus[e])[j + 2] = ecus[e][j]
  <2> DEFINE a == <<65, p>>
             b == ecus[e]
  <2>1. b \in [1..w -> Byte]
    BY <1>2
  <2>2. a \in Seq(Byte) /\ Len(a) = 2 /\ a[1] = 65
    BY <1>1 DEF Byte
  <2> HIDE DEF a, b
  <2>3. b \in Seq(Byte) /\ Len(b) = w
    BY <1>1, <2>1
  <2>4. /\ a \o b \in Seq(Byte) /\ Len(a \o b) = Len(a) + Len(b)
        /\ \A i \in 1..(Len(a) + Len(b)) :
             (a \o b)[i] = IF i <= Len(a) THEN a[i] ELSE b[i - Len(a)]
    <3>1. a \in Seq(Byte) /\ b \in Seq(Byte)
      BY <2>2, <2>3
    <3> QED BY <3>1, ConcatProperties, ZenonT(60)
  <2>5. /\ Len(a \o b) = w + 2
        /\ \A i \in 1..(w + 2) : (a \o b)[i] = IF i <= 2 THEN a[i] ELSE b[i - 2]
    BY <1>1, <2>2, <2>3, <2>4
  <2>6. (a \o b)[1] = 65
    BY <1>1, <2>2, <2>5
  <2>7. ASSUME NEW j \in 1..w
        PROVE  (a \o b)[j + 2] = b[j]
    <3>1. j + 2 \in 1..(w + 2) /\ ~(j + 2 <= 2) /\ (j + 2) - 2 = j
      BY <1>1
    <3> QED BY <2>5, <3>1
  <2> QED BY <2>3, <2>4, <2>5, <2>6, <2>7 DEF a, b
<1>6. w + 2 \in Nat
  BY <1>1
<1>7. \A e \in 1..Len(ecus) : Sent(<<65, p>> \o ecus[e]) \in Seq(Nat)
  BY <1>5, <1>6, SentIs
<1>8. 1 \in 1..Len(ecus)
  BY <1>4
<1>9. seqs = [e \in 1..Len(ecus) |-> Sent(<<65, p>> \o ecus[e])]
  BY <1>4
<1> HIDE DEF seqs
<1>10. seqs[1] = Sent(bytes)
  BY <1>8, <1>9
<1>11. Len(seqs) = Len(ecus) /\ Len(seqs) \in Nat /\ Len(seqs) > 0
  BY <1>4, <1>9
<1>12. \A e \in 1..Len(seqs) : seqs[e] \in Seq(Nat)
  BY <1>7, <1>9, <1>11
<1>13. Begins(sent, Sent(bytes))
  <2>1. Begins(FlattenSeq(seqs), seqs[1])
    BY <1>11, <1>12, FlattenBegins, Zenon
  <2> QED BY <1>3, <1>10, <2>1, Zenon
<1> HIDE DEF sent
<1>14. /\ data \in Seq(Byte) /\ Len(data) = w /\ bytes \in Seq(Byte) /\ Len(bytes) = w + 2
       /\ bytes[1] = 65 /\ \A j \in 1..w : bytes[j + 2] = data[j]
  BY <1>5, <1>8
<1> HIDE DEF data, bytes
<1>15. /\ Len(hex) \in Nat /\ raw \in Seq(Nat) /\ Len(raw) = Len(hex) \div 2
       /\ \A j \in 1..(w + 2) : j <= Len(raw) => raw[j] = bytes[j]
       /\ text = sent => Len(hex) >= 2 * (w + 2) /\ Len(raw) >= w + 2
  <2> DEFINE n == w + 2
  <2>1. n \in Nat /\ bytes \in Seq(Byte) /\ Len(bytes) = n
    BY <1>6, <1>14
  <2>2. /\ sent \in Seq(Nat) /\ Len(sent) >= Len(Sent(bytes))
        /\ \A i \in 1..Len(Sent(bytes)) : sent[i] = Sent(bytes)[i]
    BY <1>13 DEF Begins
  <2>3. Sent(bytes) \in Seq(Nat) /\ Len(Sent(bytes)) \in Nat
    BY <2>1, SentIs
  <2>4. /\ text \in Seq(Nat) /\ Len(text) \in Nat /\ Len(text) <= Len(sent)
        /\ \A i \in 1..Len(text) : text[i] = sent[i]
    BY <2>2, ArrivesIs DEF sent
  <2>5. \A i \in 1..Len(text) : i <= Len(Sent(bytes)) => text[i] = Sent(bytes)[i]
    BY <2>2, <2>3, <2>4
  <2> HIDE DEF n, hex, raw
  <2>6. /\ Len(hex) \in Nat /\ raw \in Seq(Nat) /\ Len(raw) = Len(hex) \div 2
        /\ \A j \in 1..n : j <= Len(raw) => raw[j] = bytes[j]
        /\ Len(text) >= Len(Sent(bytes)) => Len(hex) >= 2 * n /\ Len(raw) >= n
    BY <2>1, <2>4, <2>5, BytesBegin, ZenonT(60) DEF hex, raw
  <2>7. text = sent => Len(text) >= Len(Sent(bytes))
    BY <2>2
  <2> QED BY <2>6, <2>7, Zenon DEF n
<1> HIDE DEF raw
<1>16. CASE Len(hex) < 6
  <2>1. decodePayload(text) = <<>>
    BY <1>16, Zenon DEF decodePayload, hex
  <2>2. Len(<<>>) < w
    BY <1>1
  <2>3. Decode(p, text) = <<>>
    BY <2>1, <2>2, Zenon DEF Decode, w
  <2>4. text # sent
    <3> HIDE DEF hex
    <3> QED BY <1>1, <1>15, <1>16
  <2> QED BY <2>3, <2>4 DEF sent
<1>17. CASE ~(Len(hex) < 6)
  <2> HIDE DEF hex
  <2>1. Len(hex) >= 6 /\ Len(raw) \in Nat /\ Len(raw) >= 3
    BY <1>15, <1>17
  <2>2. raw[1] = 65
    <3>1. 1 \in 1..(w + 2) /\ 1 <= Len(raw)
      BY <1>1, <2>1
    <3> QED BY <1>14, <1>15, <3>1
  <2>3. decodePayload(text) = SubSeq(raw, 3, Len(raw))
    <3>1. raw = ToBytes(HexDigits(text)) /\ hex = HexDigits(text)
      BY DEF raw, hex
    <3>2. Len(hex) \in Nat
      BY <1>15
    <3>3. /\ Len(HexDigits(text)) \in Nat /\ Len(HexDigits(text)) >= 6
          /\ Len(ToBytes(HexDigits(text))) \in Nat /\ Len(ToBytes(HexDigits(text))) >= 3
          /\ ToBytes(HexDigits(text))[1] = 65
      BY <2>1, <2>2, <3>1, <3>2, Zenon
    <3> QED BY <3>1, <3>3, PayloadIs, Zenon
  <2> DEFINE payload == SubSeq(raw, 3, Len(raw))
  <2>4. /\ payload \in Seq(Nat) /\ Len(payload) = Len(raw) - 2
        /\ \A j \in 1..(Len(raw) - 2) : payload[j] = raw[j + 2]
    <3>1. raw \in Seq(Nat)
      BY <1>15
    <3> QED BY <2>1, <3>1, SMTT(30)
  <2> HIDE DEF payload
  <2>5. CASE Len(payload) < w
    <3>1. Decode(p, text) = <<>>
      BY <2>3, <2>5, Zenon DEF Decode, payload, w
    <3>2. text # sent
      BY <1>1, <1>15, <2>1, <2>4, <2>5
    <3> QED BY <3>1, <3>2 DEF sent
  <2>6. CASE ~(Len(payload) < w)
    <3>1. Len(payload) >= w /\ Len(raw) >= w + 2
      BY <1>1, <2>1, <2>4, <2>6
    <3>2. ASSUME NEW j \in 1..w
          PROVE  payload[j] = data[j]
      <4>1. j \in 1..(Len(raw) - 2) /\ j + 2 \in 1..(w + 2) /\ j + 2 <= Len(raw)
        BY <1>1, <2>1, <3>1
      <4>2. payload[j] = raw[j + 2]
        BY <2>4, <4>1
      <4>3. raw[j + 2] = bytes[j + 2]
        BY <1>15, <4>1
      <4>4. bytes[j + 2] = data[j]
        BY <1>14
      <4> QED BY <4>2, <4>3, <4>4
    <3>3. SubSeq(payload, 1, w) = data
      <4> DEFINE s == SubSeq(payload, 1, w)
      <4>1. s \in Seq(Nat) /\ Len(s) = w /\ \A j \in 1..w : s[j] = payload[j]
        BY <1>1, <2>4, <3>1
      <4> HIDE DEF s
      <4>2. s = [j \in 1..w |-> s[j]] /\ data = [j \in 1..w |-> data[j]]
        BY <1>14, <4>1
      <4>3. \A j \in 1..w : s[j] = data[j]
        BY <3>2, <4>1
      <4>4. s = data
        BY <4>2, <4>3, Zenon
      <4> QED BY <4>4 DEF s
    <3>4. Decode(p, text) = SubSeq(payload, 1, w)
      BY <2>3, <2>6, Zenon DEF Decode, payload, w
    <3> QED BY <3>3, <3>4 DEF data, ecus
  <2> QED BY <2>5, <2>6
<1> QED BY <1>16, <1>17

-----------------------------------------------------------------------------
\* Of NO DATA that broke off every sensor reads nothing.
LEMMA DecodesNoData ==
  ASSUME NEW p \in Range(Pids), NEW text \in Arrives(NoData)
  PROVE  Decode(p, text) = <<>>
<1>1. NoData \in Seq(Nat) /\ Len(HexDigits(text)) <= 3
  BY NoDataIsShort
<1>2. Len(text) \in Nat
  BY <1>1, ArrivesIs
<1>3. Len(HexDigits(text)) < 6
  BY <1>1, <1>2, RawBytes
<1>4. decodePayload(text) = <<>>
  BY <1>3, Zenon DEF decodePayload
<1>5. Len(<<>>) < Width(p)
  BY Sensors
<1> QED BY <1>4, <1>5, Zenon DEF Decode

\* What a setter was given is what came of an answer, cut and decoded.
IsReading(p, sent, r) ==
  /\ r.text \in Arrives(sent) /\ r.text # NoData
  /\ r.bytes = Decode(p, Cut(r.text, CommandOf(p)))

\* What has been read of the sensors so far.
Sampled ==
  /\ car \in Cars
  /\ \E S : live \in Seq(S)
  /\ Len(live) <= Len(Pids)
  /\ \A i \in DOMAIN live :
       live[i].given => IsReading(Pids[i], LiveReply(Pids[i]), live[i])

\* That is so of every reading.
LEMMA SampledInvariant == Spec => []Sampled
<1>0. Pids \in Seq(Range(AllPids)) /\ Len(Pids) \in Nat
  BY ReadAssumption
<1>1. Init => Sampled
  <2> SUFFICES ASSUME Init PROVE Sampled
    OBVIOUS
  <2>1. car \in Cars /\ live = <<>>
    BY DEF Init
  <2>2. live \in Seq({}) /\ Len(live) = 0 /\ DOMAIN live = {}
    BY <2>1
  <2> QED BY <1>0, <2>1, <2>2 DEF Sampled
<1>2. Sampled /\ [Next]_vars => Sampled'
  <2> SUFFICES ASSUME Sampled, [Next]_vars PROVE Sampled'
    OBVIOUS
  <2>1. car' = car
    BY DEF Next, IdentifyFails, Identify, ModeAnswered, ModeLost, Frames, PidAnswered,
           PidLost, SampleEnds, vars
  <2>2. \A p : LiveReply(p)' = LiveReply(p)
    BY <2>1 DEF LiveReply
  <2>4. CASE live' = live
    BY <2>1, <2>2, <2>4 DEF Sampled
  <2>5. ASSUME NEW r, live' = Append(live, r), Len(live) < Len(Pids),
               r.given => IsReading(Asking, LiveReply(Asking), r)
        PROVE  Sampled'
    <3>1. PICK S : live \in Seq(S)
      BY DEF Sampled
    <3>2. live \in Seq(S \cup {r}) /\ r \in S \cup {r} /\ Len(live) \in Nat
      BY <3>1
    <3>3. /\ live' \in Seq(S \cup {r}) /\ Len(live') = Len(live) + 1
          /\ \A i \in 1..Len(live) : live'[i] = live[i]
          /\ live'[Len(live) + 1] = r
      BY <2>5, <3>2, AppendProperties
    <3>4. Len(live') <= Len(Pids)
      BY <1>0, <2>5, <3>2, <3>3
    <3>5. ASSUME NEW i \in DOMAIN live', live'[i].given
          PROVE  IsReading(Pids[i], LiveReply(Pids[i]), live'[i])
      <4>1. i \in 1..(Len(live) + 1)
        BY <3>3
      <4>2. CASE i \in 1..Len(live)
        <5>1. live'[i] = live[i] /\ i \in DOMAIN live
          BY <3>1, <3>3, <4>2
        <5> QED BY <3>5, <5>1, Zenon DEF Sampled
      <4>3. CASE i = Len(live) + 1
        <5>1. live'[i] = r /\ Pids[i] = Asking
          BY <3>3, <4>3 DEF Asking
        <5> QED BY <2>5, <3>5, <5>1, Zenon
      <4> QED BY <3>2, <4>1, <4>2, <4>3
    <3>6. car' \in Cars
      BY <2>1 DEF Sampled
    <3>7. \E T : live' \in Seq(T)
      BY <3>3
    <3>8. ASSUME NEW i \in DOMAIN live', live'[i].given
          PROVE  IsReading(Pids[i], LiveReply(Pids[i])', live'[i])
      BY <2>2, <3>5, <3>8
    <3> QED BY <3>4, <3>6, <3>7, <3>8 DEF Sampled
  <2>6. CASE PidAnswered
    <3>1. PICK text \in Arrives(LiveReply(Asking)) :
            live' = Append(live,
              IF text = NoData THEN NoReading
              ELSE [given |-> TRUE, bytes |-> Decode(Asking, Cut(text, CommandOf(Asking))),
                    text |-> text])
      BY <2>6 DEF PidAnswered
    <3> DEFINE r == IF text = NoData THEN NoReading
                    ELSE [given |-> TRUE,
                          bytes |-> Decode(Asking, Cut(text, CommandOf(Asking))),
                          text |-> text]
    <3>2. Len(live) < Len(Pids)
      BY <2>6 DEF PidAnswered
    <3>3. r.given => IsReading(Asking, LiveReply(Asking), r)
      BY DEF NoReading, IsReading
    <3>4. live' = Append(live, r)
      BY <3>1
    <3> HIDE DEF r
    <3> QED BY <2>5, <3>2, <3>3, <3>4
  <2>7. CASE PidLost
    <3>1. live' = Append(live, NoReading) /\ Len(live) < Len(Pids) /\ ~NoReading.given
      BY <2>7 DEF PidLost, NoReading
    <3> QED BY <2>5, <3>1
  <2>8. CASE ~PidAnswered /\ ~PidLost
    <3>1. live' = live
      BY <2>8 DEF Next, IdentifyFails, Identify, ModeAnswered, ModeLost, Frames, SampleEnds, vars
    <3> QED BY <2>4, <3>1
  <2> QED BY <2>6, <2>7, <2>8
<1> QED BY <1>1, <1>2, PTL DEF Spec

\* What the merge holds and what the sensors read, taken together.
LEMMA WhatIsReported == Order /\ StatusIsRight /\ Sampled => ReportIsTheCars
<1> SUFFICES ASSUME Order, StatusIsRight, Sampled PROVE ReportIsTheCars
  OBVIOUS
<1>1. car \in Cars
  BY DEF Sampled
<1>2. ASSUME NEW m \in DOMAIN heard, Readable(m)
      PROVE  Decoded[m] \subseteq Stored[m] /\ (heard[m] = Reply(m) => Decoded[m] = Stored[m])
  <2>1. m \in Modes /\ heard[m] \in Arrives(Reply(m))
    BY DEF Order
  <2>2. /\ car.codes[m] = <<>> \/ (car.bus = "legacy" /\ Lines(car.codes[m]) <= 1)
        /\ Cut(heard[m], Command[m]) = heard[m]
    BY <1>2, Zenon DEF Readable
  <2>3. Decoded[m] = DecodeDTCs(heard[m])
    BY <2>2, Zenon DEF Decoded, CutAndDecode
  <2> QED BY <1>1, <2>1, <2>2, <2>3, DecodesReadable
<1>3. seen = Report(DOMAIN heard, Decoded)
  BY DEF StatusIsRight
<1>4. ASSUME \A m \in DOMAIN heard : Readable(m), NEW c \in DOMAIN seen
      PROVE  \E m \in DOMAIN heard : c \in Stored[m] /\ seen[c] = StatusOf[m]
  <2>1. c \in UNION {Decoded[m] : m \in DOMAIN heard} /\ seen[c] = Strongest(c, DOMAIN heard, Decoded)
    BY <1>3 DEF Report
  <2>2. PICK k \in DOMAIN heard : c \in Decoded[k]
    BY <2>1
  <2>3. DOMAIN heard \subseteq Modes
    BY DEF Order
  <2>4. \A m \in DOMAIN heard : c \in Decoded[m] => c \in Stored[m]
    BY <1>2, <1>4
  <2>5. \E m \in DOMAIN heard : c \in Decoded[m] /\ seen[c] = StatusOf[m]
    <3>1. CASE "03" \in DOMAIN heard /\ c \in Decoded["03"]
      <4>1. seen[c] = "confirmed" /\ StatusOf["03"] = "confirmed"
        BY <2>1, <3>1 DEF Strongest, StatusOf, Modes
      <4> QED BY <3>1, <4>1
    <3>2. CASE /\ ~("03" \in DOMAIN heard /\ c \in Decoded["03"])
               /\ "0A" \in DOMAIN heard /\ c \in Decoded["0A"]
      <4>1. seen[c] = "permanent" /\ StatusOf["0A"] = "permanent"
        BY <2>1, <3>2 DEF Strongest, StatusOf, Modes
      <4> QED BY <3>2, <4>1
    <3>3. CASE /\ ~("03" \in DOMAIN heard /\ c \in Decoded["03"])
               /\ ~("0A" \in DOMAIN heard /\ c \in Decoded["0A"])
      <4>1. seen[c] = "pending" /\ StatusOf["07"] = "pending"
        BY <2>1, <3>3 DEF Strongest, StatusOf, Modes
      <4>2. k = "07"
        BY <2>2, <2>3, <3>3 DEF Modes
      <4> QED BY <2>2, <4>1, <4>2
    <3> QED BY <3>1, <3>2, <3>3
  <2> QED BY <2>4, <2>5
<1>5. ASSUME \A m \in DOMAIN heard : Readable(m), \A m \in DOMAIN heard : heard[m] = Reply(m)
      PROVE  seen = Report(DOMAIN heard, Stored)
  <2>1. \A m \in DOMAIN heard : Decoded[m] = Stored[m]
    BY <1>2, <1>5
  <2>2. UNION {Decoded[m] : m \in DOMAIN heard} = UNION {Stored[m] : m \in DOMAIN heard}
    BY <2>1
  <2>3. \A c : Strongest(c, DOMAIN heard, Decoded) = Strongest(c, DOMAIN heard, Stored)
    BY <2>1, Zenon DEF Strongest
  <2> QED BY <1>3, <2>2, <2>3, Zenon DEF Report
<1>6. ASSUME NEW i \in DOMAIN live, live[i].given, LiveReadable(Pids[i], live[i].text)
      PROVE  \/ live[i].bytes = <<>> /\ live[i].text # LiveReply(Pids[i])
             \/ car.data[Pids[i]] # <<>> /\ live[i].bytes = car.data[Pids[i]][1]
  <2> DEFINE p == Pids[i]
             text == live[i].text
  <2>1. p \in Range(Pids)
    <3>1. i \in 1..Len(live) /\ Len(live) \in Nat /\ Len(live) <= Len(Pids)
      BY DEF Sampled
    <3>2. Pids \in Seq(Range(AllPids))
      BY ReadAssumption
    <3>3. i \in DOMAIN Pids
      BY <3>1, <3>2
    <3> QED BY <3>3, Zenon DEF Range
  <2>2. IsReading(p, LiveReply(p), live[i])
    BY <1>6, Zenon DEF Sampled
  <2>3. p \notin car.refused /\ Cut(text, CommandOf(p)) = text
    BY <1>6, Zenon DEF LiveReadable
  <2>4. text \in Arrives(LiveReply(p)) /\ text # NoData /\ live[i].bytes = Decode(p, text)
    BY <2>2, <2>3, Zenon DEF IsReading
  <2> HIDE DEF p, text
  <2>5. CASE car.data[p] = <<>>
    <3>1. LiveReply(p) = NoData
      BY <2>3, <2>5 DEF LiveReply
    <3>2. Decode(p, text) = <<>>
      BY <2>1, <2>4, <3>1, DecodesNoData
    <3> QED BY <2>4, <3>1, <3>2 DEF p, text
  <2>6. CASE car.data[p] # <<>>
    <3>1. \/ Decode(p, text) = car.data[p][1]
          \/ Decode(p, text) = <<>> /\ text # LiveReply(p)
      BY <1>1, <2>1, <2>3, <2>4, <2>6, DecodesFirst
    <3> QED BY <2>4, <2>6, <3>1 DEF p, text
  <2> QED BY <2>5, <2>6
<1> QED BY <1>4, <1>5, <1>6, Zenon DEF ReportIsTheCars

\* Wherever an answer broke off, a scan reports no code that the car has not stored under a
\* mode that came, and the status that mode gives it; of answers that came whole it reports all
\* of them, each with its strongest status; and a sensor reads what the first ECU said of it,
\* or nothing: as far as the answers are readable, for any codes, any number of them in a line,
\* and any data of any ECUs (ReadDTCs with DecodeDTCs, ReadLiveSnapshot with decodePayload).
THEOREM ReportIsAlwaysTheCars == Spec => []ReportIsTheCars
BY StatusAlwaysRight, SampledInvariant, WhatIsReported, PTL

-----------------------------------------------------------------------------
\* What Cut makes of a text from position i on, if it makes f[k] of it from a later k on.
CutFrom(text, cmd, f, i) ==
  IF i > Len(text) THEN <<>>
  ELSE IF i + Len(cmd) - 1 <= Len(text) /\ SubSeq(text, i, i + Len(cmd) - 1) = cmd
       THEN f[i + Len(cmd)]
  ELSE <<text[i]>> \o f[i + 1]

\* The search of Cut goes through any text, from its end to its beginning.
LEMMA CutsAny ==
  ASSUME NEW text, NEW cmd, Len(text) \in Nat, Len(cmd) \in Nat \ {0}
  PROVE  \E f : f = [i \in 1..(Len(text) + Len(cmd)) |-> CutFrom(text, cmd, f, i)]
<1> DEFINE L == Len(text)
           n == Len(cmd)
<1>0. L \in Nat /\ n \in Nat \ {0}
  OBVIOUS
<1> DEFINE Have == { m \in Nat : m <= L + n =>
                       \E f : f = [i \in (L + n - m + 1)..(L + n) |-> CutFrom(text, cmd, f, i)] }
<1>1. 0 \in Have
  <2> DEFINE f == [i \in (L + n - 0 + 1)..(L + n) |-> <<>>]
  <2>1. f = [i \in (L + n - 0 + 1)..(L + n) |-> CutFrom(text, cmd, f, i)]
    <3>1. (L + n - 0 + 1)..(L + n) = {}
      OBVIOUS
    <3> QED BY <3>1
  <2>2. \E g : g = [i \in (L + n - 0 + 1)..(L + n) |-> CutFrom(text, cmd, g, i)]
    <3> HIDE DEF f
    <3> QED BY <2>1
  <2> QED BY <2>2
<1>2. ASSUME NEW m \in Nat, m \in Have
      PROVE  m + 1 \in Have
  <2>1. SUFFICES ASSUME m + 1 <= L + n
                 PROVE  \E f : f = [i \in (L + n - (m + 1) + 1)..(L + n) |->
                                     CutFrom(text, cmd, f, i)]
    OBVIOUS
  <2>2. m <= L + n
    BY <2>1
  <2>3. PICK f : f = [i \in (L + n - m + 1)..(L + n) |-> CutFrom(text, cmd, f, i)]
    BY <1>2, <2>2
  <2> DEFINE p == L + n - m
             g == [i \in p..(L + n) |-> IF i = p THEN CutFrom(text, cmd, f, i) ELSE f[i]]
  <2>4. p \in 1..(L + n) /\ L + n - (m + 1) + 1 = p /\ L + n - m + 1 = p + 1
    BY <2>1
  <2> HIDE DEF Have, p
  <2>5. \A i \in (p + 1)..(L + n) : f[i] = CutFrom(text, cmd, f, i) /\ g[i] = f[i]
    <3>1. \A i \in (p + 1)..(L + n) : i \in p..(L + n) /\ i # p
      BY <2>4
    <3> QED BY <2>3, <2>4, <3>1
  <2>6. g[p] = CutFrom(text, cmd, f, p)
    BY <2>4
  <2>7. ASSUME NEW i \in p..(L + n)
        PROVE  CutFrom(text, cmd, f, i) = CutFrom(text, cmd, g, i)
    <3>1. i + n - 1 <= L => i + n \in (p + 1)..(L + n)
      BY <2>4
    <3>2. ~(i > L) => i + 1 \in (p + 1)..(L + n)
      BY <2>4
    <3>3. /\ i + n - 1 <= L => g[i + n] = f[i + n]
          /\ ~(i > L) => g[i + 1] = f[i + 1]
      BY <2>5, <3>1, <3>2
    <3> HIDE DEF g
    <3> QED BY <3>3, Zenon DEF CutFrom
  <2>8. ASSUME NEW i \in p..(L + n)
        PROVE  g[i] = CutFrom(text, cmd, g, i)
    <3>1. g[i] = CutFrom(text, cmd, f, i)
      <4>1. CASE i = p
        BY <2>6, <4>1
      <4>2. CASE i # p
        <5>1. i \in (p + 1)..(L + n)
          BY <2>4, <4>2
        <5> QED BY <2>5, <5>1
      <4> QED BY <4>1, <4>2
    <3> HIDE DEF g
    <3> QED BY <2>7, <3>1
  <2>9. g = [i \in p..(L + n) |-> CutFrom(text, cmd, g, i)]
    <3>1. g = [i \in p..(L + n) |-> g[i]]
      OBVIOUS
    <3> HIDE DEF g
    <3> QED BY <2>8, <3>1
  <2> HIDE DEF g
  <2> QED BY <2>4, <2>9
<1>3. Nat \subseteq Have
  <2> HIDE DEF Have
  <2> QED BY <1>1, <1>2, EveryNumber
<1>4. L + n \in Have /\ L + n - (L + n) + 1 = 1
  BY <1>3
<1> QED BY <1>4

\* Cut is that search.
LEMMA CutSearches ==
  ASSUME NEW text, NEW cmd, Len(text) \in Nat, Len(cmd) \in Nat \ {0}
  PROVE  \E f : /\ \A i \in 1..(Len(text) + Len(cmd)) : f[i] = CutFrom(text, cmd, f, i)
                /\ Cut(text, cmd) = f[1]
<1> DEFINE f == CHOOSE f : f = [i \in 1..(Len(text) + Len(cmd)) |-> CutFrom(text, cmd, f, i)]
<1>1. Cut(text, cmd) = f[1]
  BY DEF Cut, CutFrom
<1>2. f = [i \in 1..(Len(text) + Len(cmd)) |-> CutFrom(text, cmd, f, i)]
  <2>1. \E g : g = [i \in 1..(Len(text) + Len(cmd)) |-> CutFrom(text, cmd, g, i)]
    BY CutsAny, Zenon
  <2> QED BY <2>1, Zenon
<1> HIDE DEF f
<1>3. \A i \in 1..(Len(text) + Len(cmd)) : f[i] = CutFrom(text, cmd, f, i)
  BY <1>2
<1> QED BY <1>1, <1>3

\* The characters of cmd follow each other in text.
OccursIn(cmd, text) ==
  \E i \in 1..Len(text) : /\ i + Len(cmd) - 1 <= Len(text)
                          /\ SubSeq(text, i, i + Len(cmd) - 1) = cmd

\* A text in which the command does not occur is not cut.
LEMMA CutsNothing ==
  ASSUME NEW text \in Seq(Nat), NEW cmd, Len(cmd) \in Nat \ {0}, ~OccursIn(cmd, text)
  PROVE  Cut(text, cmd) = text
<1> DEFINE L == Len(text)
<1>1. L \in Nat /\ \A i \in 1..L : text[i] \in Nat
  OBVIOUS
<1>2. PICK f : /\ \A i \in 1..(Len(text) + Len(cmd)) : f[i] = CutFrom(text, cmd, f, i)
               /\ Cut(text, cmd) = f[1]
  BY <1>1, CutSearches
<1>3. ASSUME NEW i \in 1..L
      PROVE  f[i] = <<text[i]>> \o f[i + 1]
  <2>1. i \in 1..(Len(text) + Len(cmd)) /\ ~(i > Len(text))
    BY <1>1
  <2>2. ~(i + Len(cmd) - 1 <= Len(text) /\ SubSeq(text, i, i + Len(cmd) - 1) = cmd)
    BY DEF OccursIn
  <2>3. f[i] = CutFrom(text, cmd, f, i)
    BY <1>2, <2>1
  <2> QED BY <2>1, <2>2, <2>3, Zenon DEF CutFrom
<1>4. f[L + 1] = <<>>
  <2>1. L + 1 \in 1..(Len(text) + Len(cmd)) /\ L + 1 > Len(text)
    BY <1>1
  <2> QED BY <1>2, <2>1 DEF CutFrom
<1> DEFINE Rest == { m \in Nat : m <= L =>
                       /\ f[L - m + 1] \in Seq(Nat) /\ Len(f[L - m + 1]) = m
                       /\ \A j \in 1..m : f[L - m + 1][j] = text[L - m + j] }
<1>5. 0 \in Rest
  <2>1. L - 0 + 1 = L + 1 /\ 1..0 = {}
    BY <1>1
  <2>2. f[L - 0 + 1] = <<>>
    BY <1>4, <2>1
  <2>3. f[L - 0 + 1] \in Seq(Nat) /\ Len(f[L - 0 + 1]) = 0
    BY <2>2
  <2> QED BY <2>1, <2>3
<1>6. ASSUME NEW m \in Nat, m \in Rest
      PROVE  m + 1 \in Rest
  <2>1. SUFFICES ASSUME m + 1 <= L
                 PROVE  /\ f[L - (m + 1) + 1] \in Seq(Nat)
                        /\ Len(f[L - (m + 1) + 1]) = m + 1
                        /\ \A j \in 1..(m + 1) : f[L - (m + 1) + 1][j] = text[L - (m + 1) + j]
    OBVIOUS
  <2> DEFINE i == L - m
             r == f[i + 1]
  <2>2. /\ i \in 1..L /\ m <= L /\ L - (m + 1) + 1 = i /\ text[i] \in Nat
        /\ \A j \in 1..(m + 1) : L - (m + 1) + j = i + j - 1
    BY <1>1, <2>1
  <2>3. r \in Seq(Nat) /\ Len(r) = m /\ \A j \in 1..m : r[j] = text[i + j]
    BY <1>6, <2>2
  <2>4. f[i] = <<text[i]>> \o r
    BY <1>3, <2>2
  <2> HIDE DEF Rest, L, i, r
  <2>5. /\ f[i] \in Seq(Nat) /\ Len(f[i]) = m + 1
        /\ \A j \in 1..(m + 1) : f[i][j] = IF j = 1 THEN text[i] ELSE r[j - 1]
    BY <2>2, <2>3, <2>4
  <2>6. ASSUME NEW j \in 1..(m + 1)
        PROVE  f[i][j] = text[i + j - 1]
    <3>1. CASE j = 1
      <4>1. i + j - 1 = i
        BY <2>2, <3>1
      <4> QED BY <2>5, <3>1, <4>1
    <3>2. CASE j # 1
      <4>1. j - 1 \in 1..m /\ i + (j - 1) = i + j - 1
        BY <2>2, <3>2
      <4>2. r[j - 1] = text[i + (j - 1)]
        BY <2>3, <4>1
      <4> QED BY <2>5, <3>2, <4>1, <4>2
    <3> QED BY <3>1, <3>2
  <2> QED BY <2>2, <2>5, <2>6
<1>7. Nat \subseteq Rest
  <2> HIDE DEF Rest
  <2> QED BY <1>5, <1>6, EveryNumber
<1>8. L \in Rest /\ L - L + 1 = 1 /\ \A j \in 1..L : L - L + j = j
  BY <1>1, <1>7
<1>9. f[1] \in Seq(Nat) /\ Len(f[1]) = L /\ \A j \in 1..L : f[1][j] = text[j]
  BY <1>1, <1>8
<1> HIDE DEF Rest
<1>10. f[1] = text
  BY <1>9, SeqEqual
<1> QED BY <1>2, <1>10

-----------------------------------------------------------------------------
\* Cut takes the place of a part of the text, or of none: what is left is no longer than the
\* text, and shorter when the command occurs in it.
LEMMA CutShortens ==
  ASSUME NEW text \in Seq(Nat), NEW cmd, Len(cmd) \in Nat \ {0}
  PROVE  /\ Cut(text, cmd) \in Seq(Nat)
         /\ OccursIn(cmd, text) => Cut(text, cmd) # text
<1> DEFINE L == Len(text)
           n == Len(cmd)
           Hit(i) == i + n - 1 <= L /\ SubSeq(text, i, i + n - 1) = cmd
           Good(f, i) == /\ f[i] \in Seq(Nat) /\ Len(f[i]) <= L - i + 1
                         /\ (\E k \in i..L : Hit(k)) => Len(f[i]) < L - i + 1
<1>1. L \in Nat /\ n \in Nat \ {0} /\ \A k \in 1..L : text[k] \in Nat
  OBVIOUS
<1>2. PICK f : /\ \A i \in 1..(Len(text) + Len(cmd)) : f[i] = CutFrom(text, cmd, f, i)
               /\ Cut(text, cmd) = f[1]
  BY <1>1, CutSearches
<1>3. ASSUME NEW i \in 1..L
      PROVE  f[i] = IF Hit(i) THEN f[i + n] ELSE <<text[i]>> \o f[i + 1]
  <2>1. i \in 1..(Len(text) + Len(cmd)) /\ ~(i > Len(text))
    BY <1>1
  <2>2. f[i] = CutFrom(text, cmd, f, i)
    BY <1>2, <2>1
  <2> QED BY <2>1, <2>2, Zenon DEF CutFrom
<1>4. f[L + 1] = <<>>
  <2>1. L + 1 \in 1..(Len(text) + Len(cmd)) /\ L + 1 > Len(text)
    BY <1>1
  <2> QED BY <1>2, <2>1 DEF CutFrom
<1> HIDE DEF L, n
<1> DEFINE Done == { m \in Nat : m <= L => \A i \in (L - m + 1)..(L + 1) : Good(f, i) }
<1>5. 0 \in Done
  <2>1. f[L + 1] \in Seq(Nat) /\ Len(f[L + 1]) = 0 /\ L - (L + 1) + 1 = 0
    BY <1>1, <1>4
  <2>2. (L + 1)..L = {}
    BY <1>1
  <2>3. Good(f, L + 1)
    BY <2>1, <2>2
  <2>4. (L - 0 + 1)..(L + 1) = {L + 1}
    BY <1>1
  <2> HIDE DEF Good
  <2> QED BY <2>3, <2>4
<1>6. ASSUME NEW m \in Nat, m \in Done
      PROVE  m + 1 \in Done
  <2>1. SUFFICES ASSUME m + 1 <= L
                 PROVE  \A i \in (L - (m + 1) + 1)..(L + 1) : Good(f, i)
    OBVIOUS
  <2> DEFINE p == L - m
  <2>2. p \in 1..L /\ m <= L /\ L - (m + 1) + 1 = p /\ L - m + 1 = p + 1 /\ text[p] \in Nat
    BY <1>1, <2>1
  <2>3. \A i \in (p + 1)..(L + 1) : Good(f, i)
    <3>1. \A i \in (L - m + 1)..(L + 1) : Good(f, i)
      BY <1>6, <2>2
    <3> HIDE DEF Good, p
    <3> QED BY <2>2, <3>1
  <2> HIDE DEF Done, p
  <2>4. ASSUME Hit(p) PROVE Good(f, p)
    <3>1. f[p] = f[p + n]
      BY <1>3, <2>2, <2>4, Zenon
    <3>2. p + n \in (p + 1)..(L + 1)
      BY <1>1, <2>2, <2>4
    <3>3. f[p + n] \in Seq(Nat) /\ Len(f[p + n]) <= L - (p + n) + 1
      BY <2>3, <3>2
    <3>4. Len(f[p]) < L - p + 1
      <4>1. Len(f[p + n]) \in Nat
        BY <3>3
      <4> QED BY <1>1, <2>2, <3>1, <3>3, <4>1
    <3>5. Len(f[p]) <= L - p + 1
      <4>1. Len(f[p]) \in Nat
        BY <3>1, <3>3
      <4> QED BY <1>1, <2>2, <3>4, <4>1
    <3>6. f[p] \in Seq(Nat)
      BY <3>1, <3>3
    <3> HIDE DEF Hit
    <3> QED BY <3>4, <3>5, <3>6, Zenon
  <2>5. ASSUME ~Hit(p) PROVE Good(f, p)
    <3> DEFINE r == f[p + 1]
    <3>1. f[p] = <<text[p]>> \o r
      BY <1>3, <2>2, <2>5, Zenon
    <3>2. p + 1 \in (p + 1)..(L + 1)
      BY <1>1, <2>2
    <3>3. /\ r \in Seq(Nat) /\ Len(r) <= L - (p + 1) + 1
          /\ (\E k \in (p + 1)..L : Hit(k)) => Len(r) < L - (p + 1) + 1
      BY <2>3, <3>2
    <3> HIDE DEF r, Hit
    <3>4. f[p] \in Seq(Nat) /\ Len(f[p]) = Len(r) + 1 /\ Len(r) \in Nat
      BY <2>2, <3>1, <3>3
    <3>5. (\E k \in p..L : Hit(k)) => \E k \in (p + 1)..L : Hit(k)
      <4>1. ASSUME NEW k \in p..L, Hit(k)
            PROVE  k \in (p + 1)..L
        <5>1. k # p
          BY <2>5, <4>1
        <5> QED BY <1>1, <2>2, <5>1
      <4> QED BY <4>1
    <3>6. Len(f[p]) <= L - p + 1
      BY <1>1, <2>2, <3>3, <3>4
    <3>7. (\E k \in p..L : Hit(k)) => Len(f[p]) < L - p + 1
      <4>1. SUFFICES ASSUME \E k \in p..L : Hit(k) PROVE Len(f[p]) < L - p + 1
        BY Zenon
      <4>2. Len(r) < L - (p + 1) + 1
        BY <3>3, <3>5, <4>1, Zenon
      <4> QED BY <1>1, <2>2, <3>4, <4>2
    <3> QED BY <3>4, <3>6, <3>7, Zenon
  <2>6. Good(f, p)
    <3> HIDE DEF Hit, Good
    <3> QED BY <2>4, <2>5, Zenon
  <2> HIDE DEF Good
  <2>7. \A i \in p..(L + 1) : i = p \/ i \in (p + 1)..(L + 1)
    BY <1>1, <2>2
  <2> QED BY <2>2, <2>3, <2>6, <2>7
<1>7. L \in Done /\ L <= L /\ L - L + 1 = 1 /\ 1 \in 1..(L + 1)
  <2>1. Nat \subseteq Done
    <3> HIDE DEF Done
    <3> QED BY <1>5, <1>6, EveryNumber
  <2> HIDE DEF Done
  <2> QED BY <1>1, <2>1
<1>8. Good(f, 1)
  <2> HIDE DEF Good
  <2> QED BY <1>7
<1>9. OccursIn(cmd, text) => \E k \in 1..L : Hit(k)
  BY DEF OccursIn, L, n
<1>10. OccursIn(cmd, text) => Len(f[1]) # Len(text)
  <2>1. OccursIn(cmd, text) => Len(f[1]) < L - 1 + 1
    BY <1>8, <1>9
  <2> QED BY <1>1, <1>8, <2>1 DEF L
<1> QED BY <1>2, <1>8, <1>10

\* command() returns what was answered just when the digits of the command nowhere follow
\* each other in it (strings.ReplaceAll of the command, which is meant for its echo).
LEMMA CutIsHarmless ==
  ASSUME NEW text \in Seq(Nat), NEW cmd, Len(cmd) \in Nat \ {0}
  PROVE  Cut(text, cmd) = text <=> ~OccursIn(cmd, text)
BY CutShortens, CutsNothing

\* What Cut makes of a text from any position on is a text.
LEMMA CutFromIsText ==
  ASSUME NEW text \in Seq(Nat), NEW cmd, Len(cmd) \in Nat \ {0},
         NEW f, \A i \in 1..(Len(text) + Len(cmd)) : f[i] = CutFrom(text, cmd, f, i)
  PROVE  \A i \in 1..(Len(text) + 1) : f[i] \in Seq(Nat)
<1> DEFINE L == Len(text)
           n == Len(cmd)
           Done == { m \in Nat : m <= L => \A i \in (L - m + 1)..(L + 1) : f[i] \in Seq(Nat) }
<1>1. L \in Nat /\ n \in Nat \ {0} /\ \A k \in 1..L : text[k] \in Nat
  OBVIOUS
<1>2. f[L + 1] \in Seq(Nat)
  <2>1. L + 1 \in 1..(L + n) /\ L + 1 > Len(text)
    BY <1>1
  <2>2. f[L + 1] = <<>>
    BY <2>1 DEF CutFrom
  <2> QED BY <2>2
<1>3. ASSUME NEW i \in 1..L
      PROVE  \/ f[i] = f[i + n] /\ i + n \in (i + 1)..(L + 1)
             \/ f[i] = <<text[i]>> \o f[i + 1]
  <2>1. i \in 1..(Len(text) + Len(cmd)) /\ ~(i > Len(text))
    BY <1>1
  <2>2. f[i] = CutFrom(text, cmd, f, i)
    BY <2>1
  <2>3. i + Len(cmd) - 1 <= Len(text) => i + n \in (i + 1)..(L + 1)
    BY <1>1
  <2> HIDE DEF L
  <2> QED BY <2>1, <2>2, <2>3, Zenon DEF CutFrom
<1> HIDE DEF L, n
<1>4. 0 \in Done
  <2>1. (L - 0 + 1)..(L + 1) = {L + 1}
    BY <1>1
  <2> QED BY <1>2, <2>1
<1>5. ASSUME NEW m \in Nat, m \in Done
      PROVE  m + 1 \in Done
  <2>1. SUFFICES ASSUME m + 1 <= L
                 PROVE  \A i \in (L - (m + 1) + 1)..(L + 1) : f[i] \in Seq(Nat)
    OBVIOUS
  <2> DEFINE p == L - m
  <2>2. p \in 1..L /\ m <= L /\ L - (m + 1) + 1 = p /\ L - m + 1 = p + 1 /\ text[p] \in Nat
    BY <1>1, <2>1
  <2>3. \A i \in (p + 1)..(L + 1) : f[i] \in Seq(Nat)
    BY <1>5, <2>2
  <2> HIDE DEF Done, p
  <2>4. f[p] \in Seq(Nat)
    <3>1. p + 1 \in (p + 1)..(L + 1)
      BY <1>1, <2>2
    <3>2. CASE f[p] = f[p + n] /\ p + n \in (p + 1)..(L + 1)
      BY <2>3, <3>2
    <3>3. CASE f[p] = <<text[p]>> \o f[p + 1]
      BY <2>2, <2>3, <3>1, <3>3
    <3> QED BY <1>3, <2>2, <3>2, <3>3
  <2>5. \A i \in p..(L + 1) : i = p \/ i \in (p + 1)..(L + 1)
    BY <1>1, <2>2
  <2> QED BY <2>2, <2>3, <2>4, <2>5
<1>6. L \in Done /\ L <= L /\ L - L + 1 = 1
  <2>1. Nat \subseteq Done
    <3> HIDE DEF Done
    <3> QED BY <1>4, <1>5, EveryNumber
  <2> HIDE DEF Done
  <2> QED BY <1>1, <2>1
<1>7. \A i \in 1..(L + 1) : f[i] \in Seq(Nat)
  BY <1>6
<1> QED BY <1>7 DEF L

\* The command begins at position i of the text.
BeginsAt(cmd, text, i) ==
  i + Len(cmd) - 1 <= Len(text) /\ SubSeq(text, i, i + Len(cmd) - 1) = cmd

\* A text in which the command begins at none of the first n characters keeps those.
LEMMA CutKeepsFront ==
  ASSUME NEW text \in Seq(Nat), NEW cmd, Len(cmd) \in Nat \ {0}, NEW n \in 0..Len(text),
         \A i \in 1..n : ~BeginsAt(cmd, text, i)
  PROVE  /\ Cut(text, cmd) \in Seq(Nat) /\ Len(Cut(text, cmd)) >= n
         /\ \A i \in 1..n : Cut(text, cmd)[i] = text[i]
<1> DEFINE L == Len(text)
<1>1. L \in Nat /\ n \in Nat /\ n <= L /\ \A i \in 1..L : text[i] \in Nat
  OBVIOUS
<1>2. PICK f : /\ \A i \in 1..(Len(text) + Len(cmd)) : f[i] = CutFrom(text, cmd, f, i)
               /\ Cut(text, cmd) = f[1]
  BY <1>1, CutSearches
<1>3. ASSUME NEW i \in 1..n
      PROVE  f[i] = <<text[i]>> \o f[i + 1]
  <2>1. i \in 1..(Len(text) + Len(cmd)) /\ ~(i > Len(text))
    BY <1>1
  <2>2. ~(i + Len(cmd) - 1 <= Len(text) /\ SubSeq(text, i, i + Len(cmd) - 1) = cmd)
    BY DEF BeginsAt
  <2>3. f[i] = CutFrom(text, cmd, f, i)
    BY <1>2, <2>1
  <2> QED BY <2>1, <2>2, <2>3, Zenon DEF CutFrom
<1>4. \A i \in 1..(L + 1) : f[i] \in Seq(Nat)
  BY <1>2, CutFromIsText
<1> HIDE DEF L
<1> DEFINE Rest == { m \in Nat : m <= n =>
                       /\ Len(f[n - m + 1]) >= m
                       /\ \A j \in 1..m : f[n - m + 1][j] = text[n - m + j] }
<1>5. 0 \in Rest
  <2>1. n - 0 + 1 = n + 1 /\ 1..0 = {} /\ n + 1 \in 1..(L + 1)
    BY <1>1
  <2>2. Len(f[n - 0 + 1]) >= 0
    <3>1. f[n + 1] \in Seq(Nat)
      BY <1>4, <2>1
    <3>2. Len(f[n + 1]) \in Nat
      BY <3>1
    <3> QED BY <2>1, <3>2
  <2> QED BY <2>1, <2>2
<1>6. ASSUME NEW m \in Nat, m \in Rest
      PROVE  m + 1 \in Rest
  <2>1. SUFFICES ASSUME m + 1 <= n
                 PROVE  /\ Len(f[n - (m + 1) + 1]) >= m + 1
                        /\ \A j \in 1..(m + 1) : f[n - (m + 1) + 1][j] = text[n - (m + 1) + j]
    OBVIOUS
  <2> DEFINE i == n - m
             r == f[i + 1]
  <2>2. /\ i \in 1..n /\ m <= n /\ n - (m + 1) + 1 = i /\ text[i] \in Nat
        /\ i + 1 \in 1..(L + 1)
        /\ \A j \in 1..(m + 1) : n - (m + 1) + j = i + j - 1
    BY <1>1, <2>1
  <2>3. r \in Seq(Nat) /\ Len(r) >= m /\ \A j \in 1..m : r[j] = text[i + j]
    BY <1>4, <1>6, <2>2
  <2>4. f[i] = <<text[i]>> \o r
    BY <1>3, <2>2
  <2> HIDE DEF Rest, i, r
  <2>5. /\ f[i] \in Seq(Nat) /\ Len(f[i]) = Len(r) + 1 /\ Len(r) \in Nat
        /\ \A j \in 1..(Len(r) + 1) : f[i][j] = IF j = 1 THEN text[i] ELSE r[j - 1]
    BY <2>2, <2>3, <2>4
  <2>6. ASSUME NEW j \in 1..(m + 1)
        PROVE  f[i][j] = text[i + j - 1]
    <3>0. j \in 1..(Len(r) + 1)
      BY <2>3, <2>5
    <3>1. CASE j = 1
      <4>1. i + j - 1 = i
        BY <2>2, <3>1
      <4> QED BY <2>5, <3>0, <3>1, <4>1
    <3>2. CASE j # 1
      <4>1. j - 1 \in 1..m /\ i + (j - 1) = i + j - 1
        BY <2>2, <3>2
      <4>2. r[j - 1] = text[i + (j - 1)]
        BY <2>3, <4>1
      <4> QED BY <2>5, <3>0, <3>2, <4>1, <4>2
    <3> QED BY <3>1, <3>2
  <2>7. Len(f[i]) >= m + 1
    BY <2>3, <2>5
  <2>8. n - (m + 1) + 1 = i /\ \A j \in 1..(m + 1) : n - (m + 1) + j = i + j - 1
    BY <2>2
  <2>9. \A j \in 1..(m + 1) : f[i][j] = text[n - (m + 1) + j]
    BY <2>6, <2>8, Zenon
  <2>10. Len(f[n - (m + 1) + 1]) >= m + 1
    BY <2>7, <2>8
  <2>11. \A j \in 1..(m + 1) : f[n - (m + 1) + 1][j] = text[n - (m + 1) + j]
    BY <2>8, <2>9
  <2> QED BY <2>10, <2>11
<1>7. Nat \subseteq Rest
  <2> HIDE DEF Rest
  <2> QED BY <1>5, <1>6, EveryNumber
<1>8. n \in Rest /\ n - n + 1 = 1 /\ \A j \in 1..n : n - n + j = j
  <2> HIDE DEF Rest
  <2> QED BY <1>1, <1>7
<1>9. Len(f[1]) >= n /\ \A j \in 1..n : f[1][j] = text[j]
  BY <1>1, <1>8
<1>10. f[1] \in Seq(Nat)
  BY <1>1, <1>4
<1> QED BY <1>2, <1>9, <1>10

-----------------------------------------------------------------------------
\* What DecodeDTCs finds has names of codes, whatever was answered.
LEMMA FindsNames ==
  ASSUME NEW text, Len(text) \in Nat
  PROVE  DecodeDTCs(text) \subseteq Names
<1> DEFINE hex == HexDigits(text)
           raw == ToBytes(hex)
           first == IF raw[1] \in {67, 71, 74} THEN 2 ELSE 1
           Js == {j \in first..(Len(raw) - 1) :
                    (j - first) % 2 = 0 /\ <<raw[j], raw[j + 1]>> # <<0, 0>>}
<1>1. DecodeDTCs(text) = IF Len(hex) < 6 THEN {} ELSE {EncodeDTC(raw[i], raw[i + 1]) : i \in Js}
  BY DEF DecodeDTCs
<1>2. raw \in Seq(Byte) /\ Len(raw) \in Nat
  BY RawBytes
<1> HIDE DEF raw
<1>3. ASSUME NEW i \in Js
      PROVE  EncodeDTC(raw[i], raw[i + 1]) \in Names
  <2>1. i \in 1..Len(raw) /\ i + 1 \in 1..Len(raw)
    BY <1>2
  <2>2. raw[i] \in Byte /\ raw[i + 1] \in Byte
    BY <1>2, <2>1, ElementOfSeq, Zenon
  <2> QED BY <2>2, NameIsAName
<1> HIDE DEF Js, hex
<1> QED BY <1>1, <1>3

\* A set of numbers has a least one.
LEMMA LeastOf ==
  ASSUME NEW S \in SUBSET Nat, S # {}
  PROVE  \E i \in S : \A j \in S : i <= j
<1> DEFINE Less == { p \in Nat \X Nat : p[1] < p[2] }
<1>1. IsWellFoundedOn(Less, Nat)
  BY NatLessThanWellFounded DEF OpToRel
<1>2. PICK x \in S : \A y \in S : <<y, x>> \notin Less
  <2> HIDE DEF Less
  <2> QED BY <1>1, WFMin
<1>3. ASSUME NEW y \in S
      PROVE  x <= y
  <2>1. ~(y < x) /\ x \in Nat /\ y \in Nat
    BY <1>2
  <2> QED BY <2>1
<1> QED BY <1>3

\* What decodePayload leaves is bytes, whatever was answered, and a reading is some of them.
LEMMA ReadsBytes ==
  ASSUME NEW p \in Range(Pids), NEW text, Len(text) \in Nat
  PROVE  Decode(p, text) \in Seq(Byte)
<1> DEFINE raw == ToBytes(HexDigits(text))
           led == {i \in 1..(Len(raw) - 2) : raw[i] = 65}
           at == IF led = {} THEN 1 ELSE CHOOSE i \in led : \A j \in led : i <= j
           data == decodePayload(text)
           w == Width(p)
<1>1. /\ raw \in Seq(Byte) /\ Len(raw) \in Nat /\ Len(HexDigits(text)) \in Nat
      /\ Len(raw) = Len(HexDigits(text)) \div 2
  BY RawBytes
<1>2. data = IF Len(HexDigits(text)) < 6 THEN <<>> ELSE SubSeq(raw, at + 2, Len(raw))
  BY Zenon DEF decodePayload
<1> HIDE DEF raw, data
<1>3. at \in Nat /\ at >= 1
  <2>1. CASE led = {}
    BY <2>1
  <2>2. CASE led # {}
    <3>1. led \subseteq Nat /\ \A i \in led : i >= 1
      BY <1>1
    <3> DEFINE first == CHOOSE i \in led : \A j \in led : i <= j
    <3>2. PICK i \in led : \A j \in led : i <= j
      <4> HIDE DEF led
      <4> QED BY <2>2, <3>1, LeastOf
    <3>3. first \in led
      <4> HIDE DEF led
      <4> QED BY <3>2, Zenon
    <3>4. at = first
      BY <2>2
    <3> HIDE DEF led, first, at
    <3> QED BY <3>1, <3>3, <3>4
  <2> QED BY <2>1, <2>2
<1> HIDE DEF at
<1>4. data \in Seq(Byte)
  <2>1. CASE Len(HexDigits(text)) < 6
    BY <1>2, <2>1
  <2>2. CASE ~(Len(HexDigits(text)) < 6)
    <3>1. at + 2 \in Int /\ Len(raw) \in Int
      BY <1>1, <1>3
    <3>2. \A i \in (at + 2)..Len(raw) : raw[i] \in Byte
      <4>1. \A i \in (at + 2)..Len(raw) : i \in 1..Len(raw)
        BY <1>1, <1>3
      <4> QED BY <1>1, <4>1, ElementOfSeq, Zenon
    <3>3. SubSeq(raw, at + 2, Len(raw)) \in Seq(Byte)
      BY <3>1, <3>2, SubSeqProperties
    <3> QED BY <1>2, <2>2, <3>3
  <2> QED BY <2>1, <2>2
<1>5. w \in 1..2
  BY Sensors
<1> HIDE DEF w
<1>6. CASE Len(data) < w
  <2>1. Decode(p, text) = <<>>
    BY <1>6 DEF Decode, data, w
  <2> QED BY <2>1
<1>7. CASE ~(Len(data) < w)
  <2>1. Decode(p, text) = SubSeq(data, 1, w)
    BY <1>7 DEF Decode, data, w
  <2>2. 1 \in Int /\ w \in Int /\ \A i \in 1..w : i \in 1..Len(data)
    BY <1>4, <1>5, <1>7
  <2>3. \A i \in 1..w : data[i] \in Byte
    BY <1>4, <2>2, ElementOfSeq, Zenon
  <2>4. SubSeq(data, 1, w) \in Seq(Byte)
    BY <2>2, <2>3, SubSeqProperties
  <2> QED BY <2>1, <2>4
<1> QED BY <1>6, <1>7

\* A line of bytes is a text.
LEMMA SentIsText ==
  ASSUME NEW bytes \in Seq(Byte)
  PROVE  Sent(bytes) \in Seq(Nat)
<1>1. Len(bytes) \in Nat
  OBVIOUS
<1> QED BY <1>1, SentIs

\* An answer on CAN that does not fit into one frame begins with the number of its bytes, the
\* index of the first line, six bytes and the index of the second line.
FramedStarts(n, bytes) ==
  /\ Framed(bytes) \in Seq(Nat) /\ Len(Framed(bytes)) >= 20
  /\ Framed(bytes)[1] = n \div 256 /\ Framed(bytes)[2] = (n \div 16) % 16
  /\ Framed(bytes)[3] = n % 16 /\ Framed(bytes)[4] = Gap
  /\ Framed(bytes)[5] = 0 /\ Framed(bytes)[6] = Gap
  /\ \A j \in 1..6 : /\ Framed(bytes)[2 * j + 5] = bytes[j] \div 16
                     /\ Framed(bytes)[2 * j + 6] = bytes[j] % 16
  /\ Framed(bytes)[19] = Gap /\ Framed(bytes)[20] = 1

\* So does every answer on CAN of more than seven bytes.
LEMMA FramedBegins ==
  ASSUME NEW n \in Nat, n > 7, NEW bytes \in Seq(Byte), Len(bytes) = n
  PROVE  FramedStarts(n, bytes)
<1> DEFINE frames == 1 + n \div 7
           m == 7 * frames - 1
           pad == [i \in 1..(7 * frames - 1 - n) |-> 0]
           filled == bytes \o pad
           part(k) == SubSeq(filled, IF k = 1 THEN 1 ELSE 7 * (k - 1), 7 * k - 1)
           line(k) == <<(k - 1) % 16, Gap>> \o Sent(part(k))
           seqs == [k \in 1..frames |-> line(k)]
           head == <<n \div 256, (n \div 16) % 16, n % 16, Gap>>
           rest == FlattenSeq(seqs)
<1>1. frames \in Nat /\ frames >= 2 /\ m \in Nat /\ m >= n /\ m >= 13
  BY SMTT(30)
<1>2. Framed(bytes) = head \o rest
  <2>1. ~(n <= 7)
    OBVIOUS
  <2> QED BY <2>1, Zenon DEF Framed
<1> HIDE DEF frames
<1>3. filled \in Seq(Byte) /\ Len(filled) = m /\ \A j \in 1..6 : filled[j] = bytes[j]
  <2>1. pad \in Seq(Byte) /\ Len(pad) = m - n
    <3>1. m - n \in Nat /\ 0 \in Byte
      BY <1>1 DEF Byte
    <3>2. pad = [i \in 1..(m - n) |-> 0]
      OBVIOUS
    <3> HIDE DEF pad, m
    <3>3. pad \in [1..(m - n) -> Byte]
      BY <3>1, <3>2
    <3>4. \A k \in Nat : \A g \in [1..k -> Byte] : g \in Seq(Byte) /\ Len(g) = k
      OBVIOUS
    <3> QED BY <3>1, <3>3, <3>4, Zenon
  <2> HIDE DEF pad, m
  <2>2. /\ bytes \o pad \in Seq(Byte) /\ Len(bytes \o pad) = Len(bytes) + Len(pad)
        /\ \A i \in 1..(Len(bytes) + Len(pad)) :
             (bytes \o pad)[i] = IF i <= Len(bytes) THEN bytes[i] ELSE pad[i - Len(bytes)]
    BY <2>1, ConcatProperties
  <2>3. Len(bytes) + Len(pad) = m /\ \A j \in 1..6 : j \in 1..m /\ j <= n
    BY <1>1, <2>1
  <2> QED BY <2>2, <2>3
<1> HIDE DEF filled, m
<1>4. ASSUME NEW k \in 1..frames
      PROVE  /\ part(k) \in Seq(Byte)
             /\ Len(part(k)) = (IF k = 1 THEN 6 ELSE 7)
             /\ k = 1 => \A j \in 1..6 : part(k)[j] = bytes[j]
  <2> DEFINE lo == IF k = 1 THEN 1 ELSE 7 * (k - 1)
             hi == 7 * k - 1
  <2>1. lo \in 1..m /\ hi \in 1..m /\ lo <= hi /\ hi - lo + 1 = (IF k = 1 THEN 6 ELSE 7)
    BY <1>1 DEF m
  <2>2. part(k) = SubSeq(filled, lo, hi)
    OBVIOUS
  <2>3. \A i \in lo..hi : i \in 1..m
    BY <1>1, <2>1
  <2> HIDE DEF lo, hi, part
  <2>4. \A i \in lo..hi : filled[i] \in Byte
    BY <1>3, <2>3, ElementOfSeq, Zenon
  <2>5. /\ SubSeq(filled, lo, hi) \in Seq(Byte)
        /\ Len(SubSeq(filled, lo, hi)) = hi - lo + 1
        /\ \A i \in 1..(hi - lo + 1) : SubSeq(filled, lo, hi)[i] = filled[lo + i - 1]
    BY <1>1, <2>1, <2>4, SubSeqProperties
  <2>6. ASSUME k = 1
        PROVE  \A j \in 1..6 : part(k)[j] = bytes[j]
    <3>1. hi - lo + 1 = 6 /\ lo = 1 /\ \A j \in 1..6 : lo + j - 1 = j
      BY <2>1, <2>6 DEF lo
    <3> QED BY <1>3, <2>2, <2>5, <3>1
  <2> QED BY <2>1, <2>2, <2>5, <2>6
<1> HIDE DEF part
<1>5. ASSUME NEW k \in 1..frames, NEW w \in {6, 7}, w = IF k = 1 THEN 6 ELSE 7
      PROVE  /\ line(k) \in Seq(Nat) /\ Len(line(k)) = 2 * w + 3
             /\ line(k)[1] = (k - 1) % 16 /\ line(k)[2] = Gap /\ line(k)[2 * w + 3] = Gap
             /\ \A j \in 1..w : /\ line(k)[2 * j + 1] = part(k)[j] \div 16
                                /\ line(k)[2 * j + 2] = part(k)[j] % 16
  <2> DEFINE a == <<(k - 1) % 16, Gap>>
             s == Sent(part(k))
  <2>1. part(k) \in Seq(Byte) /\ Len(part(k)) = w /\ w \in Nat
    BY <1>4, <1>5
  <2>2. /\ s \in Seq(Nat) /\ Len(s) = 2 * w + 1 /\ s[2 * w + 1] = Gap
        /\ \A j \in 1..w : s[2 * j - 1] = part(k)[j] \div 16 /\ s[2 * j] = part(k)[j] % 16
    BY <2>1, SentIs
  <2>3. a \in Seq(Nat) /\ Len(a) = 2 /\ a[1] = (k - 1) % 16 /\ a[2] = Gap
    BY DEF Gap
  <2> HIDE DEF a, s
  <2>4. /\ a \o s \in Seq(Nat) /\ Len(a \o s) = Len(a) + Len(s)
        /\ \A i \in 1..(Len(a) + Len(s)) :
             (a \o s)[i] = IF i <= Len(a) THEN a[i] ELSE s[i - Len(a)]
    BY <2>2, <2>3, ConcatProperties
  <2>5. Len(a) + Len(s) = 2 * w + 3
    BY <2>2, <2>3
  <2>6. \A i \in 1..(2 * w + 3) : (a \o s)[i] = IF i <= 2 THEN a[i] ELSE s[i - 2]
    BY <2>3, <2>4, <2>5
  <2>7. (a \o s)[1] = (k - 1) % 16 /\ (a \o s)[2] = Gap /\ (a \o s)[2 * w + 3] = Gap
    <3>1. 1 \in 1..(2 * w + 3) /\ 2 \in 1..(2 * w + 3) /\ 2 * w + 3 \in 1..(2 * w + 3)
          /\ ~(2 * w + 3 <= 2) /\ (2 * w + 3) - 2 = 2 * w + 1 /\ 1 <= 2 /\ 2 <= 2
      OBVIOUS
    <3>2. /\ (a \o s)[1] = a[1] /\ (a \o s)[2] = a[2]
          /\ (a \o s)[2 * w + 3] = s[(2 * w + 3) - 2]
      BY <2>6, <3>1, Zenon
    <3> QED BY <2>2, <2>3, <3>1, <3>2, Zenon
  <2>8. ASSUME NEW j \in 1..w
        PROVE  /\ (a \o s)[2 * j + 1] = part(k)[j] \div 16
               /\ (a \o s)[2 * j + 2] = part(k)[j] % 16
    <3>1. /\ 2 * j + 1 \in 1..(2 * w + 3) /\ 2 * j + 2 \in 1..(2 * w + 3)
          /\ ~(2 * j + 1 <= 2) /\ ~(2 * j + 2 <= 2)
          /\ (2 * j + 1) - 2 = 2 * j - 1 /\ (2 * j + 2) - 2 = 2 * j
      OBVIOUS
    <3>2. (a \o s)[2 * j + 1] = s[2 * j - 1] /\ (a \o s)[2 * j + 2] = s[2 * j]
      BY <2>6, <3>1
    <3> QED BY <2>2, <3>2
  <2> QED BY <2>4, <2>5, <2>7, <2>8 DEF a, s
<1> HIDE DEF line
<1>6. 1 \in 1..frames /\ 2 \in 1..frames /\ 6 \in {6, 7} /\ 7 \in {6, 7}
      /\ \A k \in 1..frames : (IF k = 1 THEN 6 ELSE 7) \in {6, 7}
  BY <1>1
<1>7. \A k \in 1..frames : line(k) \in Seq(Nat)
  BY <1>5, <1>6, Zenon
<1>8. /\ Len(line(1)) = 15 /\ line(1)[1] = 0 /\ line(1)[2] = Gap /\ line(1)[15] = Gap
      /\ \A j \in 1..6 : /\ line(1)[2 * j + 1] = bytes[j] \div 16
                         /\ line(1)[2 * j + 2] = bytes[j] % 16
  <2>1. /\ Len(line(1)) = 2 * 6 + 3 /\ line(1)[1] = (1 - 1) % 16 /\ line(1)[2] = Gap
        /\ line(1)[2 * 6 + 3] = Gap
        /\ \A j \in 1..6 : /\ line(1)[2 * j + 1] = part(1)[j] \div 16
                           /\ line(1)[2 * j + 2] = part(1)[j] % 16
    BY <1>5, <1>6, Zenon
  <2>2. 2 * 6 + 3 = 15 /\ (1 - 1) % 16 = 0
    OBVIOUS
  <2>3. \A j \in 1..6 : part(1)[j] = bytes[j]
    BY <1>4, <1>6, Zenon
  <2> QED BY <2>1, <2>2, <2>3, Zenon
<1>9. Len(line(2)) = 17 /\ line(2)[1] = 1
  <2>1. Len(line(2)) = 2 * 7 + 3 /\ line(2)[1] = (2 - 1) % 16
    <3>1. 7 = IF 2 = 1 THEN 6 ELSE 7
      OBVIOUS
    <3> QED BY <1>5, <1>6, <3>1, Zenon
  <2>2. 2 * 7 + 3 = 17 /\ (2 - 1) % 16 = 1
    OBVIOUS
  <2> QED BY <2>1, <2>2, Zenon
<1>10. Begins(rest, line(1) \o line(2))
  <2>1. Len(seqs) = frames /\ \A i \in 1..frames : seqs[i] = line(i)
    BY <1>1
  <2> HIDE DEF seqs
  <2>2. \A i \in 1..frames : seqs[i] \in Seq(Nat)
    BY <1>7, <2>1, Zenon
  <2>3. frames > 0
    BY <1>1
  <2>4. Begins(FlattenSeq(seqs), seqs[1] \o seqs[2])
    BY <1>1, <2>1, <2>2, <2>3, FlattenBegins, Zenon
  <2> QED BY <1>6, <2>1, <2>4, Zenon
<1> DEFINE two == line(1) \o line(2)
<1>11. /\ two \in Seq(Nat) /\ Len(two) = 32
       /\ \A i \in 1..15 : two[i] = line(1)[i]
       /\ two[16] = 1
  <2>1. /\ two \in Seq(Nat) /\ Len(two) = Len(line(1)) + Len(line(2))
        /\ \A i \in 1..(Len(line(1)) + Len(line(2))) :
             two[i] = IF i <= Len(line(1)) THEN line(1)[i] ELSE line(2)[i - Len(line(1))]
    BY <1>6, <1>7, ConcatProperties
  <2> HIDE DEF two
  <2>2. Len(line(1)) + Len(line(2)) = 32 /\ Len(line(1)) = 15
    <3>1. Len(line(1)) = 15 /\ Len(line(2)) = 17
      BY <1>8, <1>9, Zenon
    <3>2. 15 + 17 = 32
      OBVIOUS
    <3> QED BY <3>1, <3>2, Zenon
  <2>3. \A i \in 1..32 : two[i] = IF i <= 15 THEN line(1)[i] ELSE line(2)[i - 15]
    BY <2>1, <2>2, Zenon
  <2>4. two[16] = line(2)[1]
    <3>1. 16 \in 1..32 /\ ~(16 <= 15) /\ 16 - 15 = 1
      OBVIOUS
    <3> QED BY <2>3, <3>1, Zenon
  <2>5. \A i \in 1..15 : i \in 1..32 /\ i <= 15
    OBVIOUS
  <2>6. \A i \in 1..15 : two[i] = line(1)[i]
    BY <2>3, <2>5, Zenon
  <2> QED BY <1>9, <2>1, <2>2, <2>4, <2>6, Zenon
<1> HIDE DEF two, rest
<1>12. /\ rest \in Seq(Nat) /\ Len(rest) \in Nat /\ Len(rest) >= 32
       /\ \A i \in 1..15 : rest[i] = line(1)[i]
       /\ rest[16] = 1
  <2>1. rest \in Seq(Nat) /\ Len(rest) >= Len(two) /\ \A i \in 1..Len(two) : rest[i] = two[i]
    BY <1>10, Zenon DEF Begins, two
  <2>2. 16 \in 1..32 /\ \A i \in 1..15 : i \in 1..32
    OBVIOUS
  <2>3. rest[16] = 1 /\ \A i \in 1..15 : rest[i] = line(1)[i]
    BY <1>11, <2>1, <2>2, Zenon
  <2> QED BY <1>11, <2>1, <2>3
<1>13. /\ head \in Seq(Nat) /\ Len(head) = 4 /\ head[1] = n \div 256
       /\ head[2] = (n \div 16) % 16 /\ head[3] = n % 16 /\ head[4] = Gap
  BY DEF Gap
<1> HIDE DEF head
<1> DEFINE all == head \o rest
<1>14. /\ all \in Seq(Nat) /\ Len(all) = Len(rest) + 4
       /\ \A i \in 1..(Len(rest) + 4) : all[i] = IF i <= 4 THEN head[i] ELSE rest[i - 4]
  <2>1. /\ all \in Seq(Nat) /\ Len(all) = Len(head) + Len(rest)
        /\ \A i \in 1..(Len(head) + Len(rest)) :
             all[i] = IF i <= Len(head) THEN head[i] ELSE rest[i - Len(head)]
    <3>1. head \in Seq(Nat) /\ rest \in Seq(Nat)
      BY <1>12, <1>13
    <3> QED BY <3>1, ConcatProperties
  <2> HIDE DEF all
  <2>2. Len(head) + Len(rest) = Len(rest) + 4
    BY <1>12, <1>13
  <2> QED BY <1>13, <2>1, <2>2, Zenon
<1> HIDE DEF all
<1>15. \A i \in 1..4 : all[i] = head[i]
  <2>1. \A i \in 1..4 : i \in 1..(Len(rest) + 4) /\ i <= 4
    <3>1. Len(rest) \in Nat
      BY <1>12
    <3> QED BY <3>1
  <2> QED BY <1>14, <2>1, Zenon
<1>16. \A i \in 1..16 : all[i + 4] = rest[i]
  <2>1. \A i \in 1..16 : i + 4 \in 1..(Len(rest) + 4) /\ ~(i + 4 <= 4) /\ (i + 4) - 4 = i
    <3>1. Len(rest) \in Nat /\ Len(rest) >= 32
      BY <1>12
    <3> QED BY <3>1
  <2> QED BY <1>14, <2>1
<1>17. all[1] = head[1] /\ all[2] = head[2] /\ all[3] = head[3] /\ all[4] = head[4]
  BY <1>15
<1>18. /\ all[5] = rest[1] /\ all[6] = rest[2] /\ all[19] = rest[15] /\ all[20] = rest[16]
       /\ \A j \in 1..6 : all[2 * j + 5] = rest[2 * j + 1] /\ all[2 * j + 6] = rest[2 * j + 2]
  <2>1. /\ 1 + 4 = 5 /\ 2 + 4 = 6 /\ 15 + 4 = 19 /\ 16 + 4 = 20
        /\ 1 \in 1..16 /\ 2 \in 1..16 /\ 15 \in 1..16 /\ 16 \in 1..16
    OBVIOUS
  <2>2. all[1 + 4] = rest[1] /\ all[2 + 4] = rest[2] /\ all[15 + 4] = rest[15]
        /\ all[16 + 4] = rest[16]
    BY <1>16, <2>1, Zenon
  <2>3. \A j \in 1..6 : /\ 2 * j + 1 \in 1..16 /\ 2 * j + 2 \in 1..16
                        /\ (2 * j + 1) + 4 = 2 * j + 5 /\ (2 * j + 2) + 4 = 2 * j + 6
    OBVIOUS
  <2>4. \A j \in 1..6 : all[2 * j + 5] = rest[2 * j + 1] /\ all[2 * j + 6] = rest[2 * j + 2]
    BY <1>16, <2>3, Zenon
  <2> QED BY <2>1, <2>2, <2>4, Zenon
<1>19. /\ rest[1] = 0 /\ rest[2] = Gap /\ rest[15] = Gap
       /\ \A j \in 1..6 : /\ rest[2 * j + 1] = bytes[j] \div 16
                          /\ rest[2 * j + 2] = bytes[j] % 16
  <2>1. 1 \in 1..15 /\ 2 \in 1..15 /\ 15 \in 1..15
        /\ \A j \in 1..6 : 2 * j + 1 \in 1..15 /\ 2 * j + 2 \in 1..15
    OBVIOUS
  <2> QED BY <1>8, <1>12, <2>1, Zenon
<1>20. Len(all) >= 20
  <2>1. Len(rest) \in Nat /\ Len(rest) >= 32 /\ Len(all) = Len(rest) + 4
    BY <1>12, <1>14, Zenon
  <2> QED BY <2>1
<1>21. /\ all[1] = n \div 256 /\ all[2] = (n \div 16) % 16 /\ all[3] = n % 16
       /\ all[4] = Gap /\ all[5] = 0 /\ all[6] = Gap /\ all[19] = Gap /\ all[20] = 1
  BY <1>12, <1>13, <1>17, <1>18, <1>19, Zenon
<1>22. \A j \in 1..6 : all[2 * j + 5] = bytes[j] \div 16 /\ all[2 * j + 6] = bytes[j] % 16
  BY <1>18, <1>19, Zenon
<1>23. Framed(bytes) = all
  BY <1>2 DEF all
<1> QED BY <1>14, <1>20, <1>21, <1>22, <1>23, Zenon DEF FramedStarts

\* An answer on CAN is a text, in one frame or in more.
LEMMA FramedIsText ==
  ASSUME NEW bytes \in Seq(Byte)
  PROVE  Framed(bytes) \in Seq(Nat)
<1>1. Len(bytes) \in Nat
  OBVIOUS
<1>2. CASE Len(bytes) <= 7
  BY <1>2, SentIsText DEF Framed
<1>3. CASE Len(bytes) > 7
  <2>1. FramedStarts(Len(bytes), bytes)
    BY <1>1, <1>3, FramedBegins
  <2> QED BY <2>1, Zenon DEF FramedStarts
<1> QED BY <1>1, <1>2, <1>3

\* The codes one after the other are bytes.
LEMMA PairedIs ==
  ASSUME NEW codes \in Seq((Byte \X Byte) \ {<<0, 0>>}), NEW n \in Nat, Len(codes) = n
  PROVE  Paired(codes) \in Seq(Byte) /\ Len(Paired(codes)) = 2 * n
<1> DEFINE k == 2 * n
           s == [i \in 1..k |-> codes[(i + 1) \div 2][((i - 1) % 2) + 1]]
<1>1. k \in Nat
  OBVIOUS
<1>2. \A i \in 1..k : s[i] \in Byte
  <2> SUFFICES ASSUME NEW i \in 1..k PROVE s[i] \in Byte
    OBVIOUS
  <2>1. (i + 1) \div 2 \in 1..n /\ (i - 1) % 2 \in 0..1
    BY Places
  <2> DEFINE j == (i + 1) \div 2
             h == (i - 1) % 2
  <2>2. s[i] = codes[j][h + 1]
    OBVIOUS
  <2>3. j \in 1..n /\ (h + 1 = 1 \/ h + 1 = 2)
    BY <2>1
  <2> HIDE DEF j, h, s
  <2>4. codes[j] \in Byte \X Byte
    BY <2>3, ElementOfSeq
  <2>5. codes[j][1] \in Byte /\ codes[j][2] \in Byte
    BY <2>4
  <2> QED BY <2>2, <2>3, <2>5, Zenon
<1>3. s \in [1..k -> Byte]
  BY <1>2
<1>4. Paired(codes) = s
  BY DEF Paired
<1> HIDE DEF s, k
<1>5. \A m \in Nat : \A f \in [1..m -> Byte] : f \in Seq(Byte) /\ Len(f) = m
  OBVIOUS
<1> QED BY <1>1, <1>3, <1>4, <1>5, Zenon DEF k

\* An answer to one of the three modes is a text.
LEMMA ReplyIsText ==
  ASSUME car \in Cars, NEW m \in Modes
  PROVE  Reply(m) \in Seq(Nat)
<1> DEFINE codes == car.codes[m]
<1>a. codes \in Seq((Byte \X Byte) \ {<<0, 0>>}) /\ Len(codes) <= 127
  BY ReadAssumption
<1>b. Reply(m) = IF car.bus = "can" THEN Framed(<<Service[m], Len(codes)>> \o Paired(codes))
                 ELSE IF codes = <<>> THEN NoData
                 ELSE FlattenSeq([k \in 1..Lines(codes) |-> Line(m, codes, k)])
  BY Zenon DEF Reply
<1> HIDE DEF codes
<1>0. PerLine \in Nat /\ PerLine >= 1 /\ Len(codes) \in Nat
  BY <1>a, ReadAssumption
<1>c. CASE car.bus = "can"
  <2> DEFINE h == <<Service[m], Len(codes)>>
             s == Paired(codes)
  <2>1. h \in Seq(Byte)
    <3>1. Service[m] \in Byte
      BY DEF Byte, Service, Modes
    <3>2. Len(codes) \in Byte
      <4>1. \A k \in Nat : k <= 127 => k \in Byte
        BY DEF Byte
      <4> QED BY <1>a, <1>0, <4>1, Zenon
    <3> QED BY <3>1, <3>2
  <2>2. s \in Seq(Byte)
    BY <1>a, <1>0, PairedIs
  <2> HIDE DEF h, s
  <2>3. h \o s \in Seq(Byte)
    BY <2>1, <2>2, ConcatProperties
  <2>4. Framed(h \o s) \in Seq(Nat)
    BY <2>3, FramedIsText
  <2> QED BY <1>b, <1>c, <2>4, Zenon DEF h, s
<1>1. CASE car.bus # "can" /\ codes = <<>>
  BY <1>1, <1>b, NoDataIsShort
<1>2. CASE car.bus # "can" /\ codes # <<>>
  <2>1. ASSUME NEW k \in Nat \ {0}
        PROVE  Line(m, codes, k) \in Seq(Nat)
    <3> DEFINE code(j) == LET i == PerLine * (k - 1) + j
                          IN IF i <= Len(codes) THEN codes[i] ELSE <<0, 0>>
               n == 2 * PerLine
               g == [i \in 1..n |-> code((i + 1) \div 2)[((i - 1) % 2) + 1]]
    <3>1. \A j \in Nat \ {0} : code(j)[1] \in Byte /\ code(j)[2] \in Byte
      <4> SUFFICES ASSUME NEW j \in Nat \ {0} PROVE code(j)[1] \in Byte /\ code(j)[2] \in Byte
        OBVIOUS
      <4> DEFINE i == PerLine * (k - 1) + j
      <4>1. i \in Nat /\ i >= 1
        <5>1. PerLine * (k - 1) \in Nat
          BY <1>0
        <5> QED BY <5>1
      <4> HIDE DEF i
      <4>2. CASE i <= Len(codes)
        <5>1. i \in 1..Len(codes)
          BY <1>0, <4>1, <4>2
        <5>2. codes[i] \in Byte \X Byte
          BY <1>a, <5>1, ElementOfSeq
        <5>3. code(j) = codes[i]
          BY <4>2 DEF i
        <5> HIDE DEF code
        <5> QED BY <5>2, <5>3
      <4>3. CASE ~(i <= Len(codes))
        <5>1. code(j) = <<0, 0>>
          BY <4>3 DEF i
        <5> HIDE DEF code
        <5> QED BY <5>1 DEF Byte
      <4> QED BY <4>2, <4>3
    <3>2. n \in Nat /\ \A i \in 1..n : /\ (i + 1) \div 2 \in Nat \ {0}
                                      /\ ((i - 1) % 2) + 1 \in {1, 2}
      BY <1>0
    <3> HIDE DEF n, code
    <3>3. \A i \in 1..n : code((i + 1) \div 2)[((i - 1) % 2) + 1] \in Byte
      <4> SUFFICES ASSUME NEW i \in 1..n
                   PROVE  code((i + 1) \div 2)[((i - 1) % 2) + 1] \in Byte
        OBVIOUS
      <4> DEFINE j == (i + 1) \div 2
                 h == ((i - 1) % 2) + 1
      <4>1. j \in Nat \ {0} /\ h \in {1, 2}
        BY <3>2, Zenon
      <4> HIDE DEF j, h
      <4>2. code(j)[1] \in Byte /\ code(j)[2] \in Byte
        BY <3>1, <4>1, Zenon
      <4>3. code(j)[h] \in Byte
        BY <4>1, <4>2, Zenon
      <4> QED BY <4>3 DEF j, h
    <3>4. g \in [1..n -> Byte]
      BY <3>3
    <3> HIDE DEF g
    <3>5. g \in Seq(Byte) /\ <<Service[m]>> \in Seq(Byte)
      <4>1. g \in Seq(Byte)
        BY <3>2, <3>4
      <4>2. Service[m] \in Byte
        BY DEF Service, Modes, Byte
      <4> QED BY <4>1, <4>2
    <3>6. <<Service[m]>> \o g \in Seq(Byte)
      BY <3>5, ConcatProperties
    <3>7. Sent(<<Service[m]>> \o g) \in Seq(Nat)
      <4> DEFINE b == <<Service[m]>> \o g
      <4>1. b \in Seq(Byte) /\ Len(b) \in Nat
        BY <3>6
      <4> HIDE DEF b
      <4>2. Sent(b) \in Seq(Nat)
        BY <4>1, SentIs
      <4> QED BY <4>2 DEF b
    <3>8. Line(m, codes, k) = Sent(<<Service[m]>> \o g)
      BY Zenon DEF Line, g, code, n
    <3> QED BY <3>7, <3>8
  <2> DEFINE q == Lines(codes)
             seqs == [k \in 1..q |-> Line(m, codes, k)]
  <2>2. q \in Nat /\ q > 0
    <3>1. Len(codes) >= 1
      BY <1>a, <1>0, <1>2
    <3> DEFINE N == Len(codes) + PerLine - 1
    <3>2. N \in Nat /\ N >= PerLine
      BY <1>0, <3>1
    <3>3. q = N \div PerLine
      BY DEF Lines
    <3> HIDE DEF N, q
    <3>4. N \div PerLine \in Nat /\ N \div PerLine > 0
      <4> DEFINE d == N \div PerLine
                 r == N % PerLine
      <4>1. d \in Int /\ r \in 0..(PerLine - 1) /\ N = PerLine * d + r
        BY <1>0, <3>2
      <4> HIDE DEF d, r
      <4>2. d > 0
        <5>1. SUFFICES ASSUME d <= 0 PROVE FALSE
          BY <4>1
        <5>2. PerLine * d <= 0
          BY <1>0, <4>1, <5>1
        <5> QED BY <1>0, <3>2, <4>1, <5>2
      <4> QED BY <4>1, <4>2 DEF d
    <3> QED BY <3>3, <3>4
  <2>3. Reply(m) = FlattenSeq(seqs)
    BY <1>2, <1>b
  <2> HIDE DEF q
  <2>4. Len(seqs) = q /\ \A i \in 1..q : seqs[i] \in Seq(Nat)
    <3>1. \A i \in 1..q : i \in Nat \ {0}
      OBVIOUS
    <3>2. \A i \in 1..q : seqs[i] = Line(m, codes, i)
      OBVIOUS
    <3>3. Len(seqs) = q
      BY <2>2
    <3> HIDE DEF seqs
    <3> QED BY <2>1, <3>1, <3>2, <3>3, Zenon
  <2> HIDE DEF seqs
  <2>5. Begins(FlattenSeq(seqs), seqs[1])
    BY <2>2, <2>4, FlattenBegins
  <2> QED BY <2>3, <2>5 DEF Begins
<1> QED BY <1>c, <1>1, <1>2

\* An answer for a sensor is a text.
LEMMA LiveReplyIsText ==
  ASSUME car \in Cars, NEW p \in Range(Pids)
  PROVE  LiveReply(p) \in Seq(Nat)
<1> DEFINE ecus == car.data[p]
           seqs == [e \in DOMAIN ecus |-> Sent(<<65, p>> \o ecus[e])]
<1>1. p \in Byte /\ Width(p) \in 1..2
  BY Sensors
<1>2. ecus \in Seq([1..Width(p) -> Byte])
  BY ReadAssumption
<1>3. CASE p \in car.refused
  <2>1. <<127, 1, 18>> \in Seq(Byte)
    BY DEF Byte
  <2>2. Sent(<<127, 1, 18>>) \in Seq(Nat)
    BY <2>1, SentIsText
  <2> QED BY <1>3, <2>2 DEF LiveReply
<1>4. CASE p \notin car.refused /\ ecus = <<>>
  BY <1>4, NoDataIsShort DEF LiveReply
<1>5. CASE p \notin car.refused /\ ecus # <<>>
  <2>1. LiveReply(p) = FlattenSeq(seqs)
    BY <1>5 DEF LiveReply
  <2> DEFINE n == Len(ecus)
  <2> HIDE DEF ecus
  <2>2. n \in Nat /\ n > 0 /\ DOMAIN ecus = 1..n
    BY <1>2, <1>5
  <2>3. ASSUME NEW e \in 1..n
        PROVE  Sent(<<65, p>> \o ecus[e]) \in Seq(Nat)
    <3>1. ecus[e] \in [1..Width(p) -> Byte]
      BY <1>2, <2>2, ElementOfSeq, Zenon
    <3>2. ecus[e] \in Seq(Byte)
      <4>1. Width(p) \in Nat
        BY <1>1
      <4> QED BY <3>1, <4>1
    <3>3. <<65, p>> \in Seq(Byte)
      BY <1>1 DEF Byte
    <3>4. <<65, p>> \o ecus[e] \in Seq(Byte)
      BY <3>2, <3>3, ConcatProperties
    <3> QED BY <3>4, SentIsText
  <2>4. Len(seqs) = n /\ \A i \in 1..n : seqs[i] \in Seq(Nat)
    <3>1. \A i \in 1..n : seqs[i] = Sent(<<65, p>> \o ecus[i])
      BY <2>2
    <3>2. Len(seqs) = n
      BY <2>2
    <3> HIDE DEF seqs, n
    <3> QED BY <2>3, <3>1, <3>2, Zenon
  <2> HIDE DEF seqs, n
  <2>5. Begins(FlattenSeq(seqs), seqs[1])
    BY <2>2, <2>4, FlattenBegins
  <2> QED BY <2>1, <2>5 DEF Begins
<1> QED BY <1>3, <1>4, <1>5

-----------------------------------------------------------------------------
\* What extractVIN finds is a VIN by its looks, whatever was answered.
LEMMA ExtractsAVin ==
  ASSUME NEW text, Len(text) \in Nat
  PROVE  extractVIN(text) = <<>> \/ (extractVIN(text) \in Seq(VinChars) /\ Len(extractVIN(text)) = 17)
<1> DEFINE s == Keep(text, VinChars)
           W == {i \in 1..(Len(s) - 16) : looksLikeVIN(SubSeq(s, i, i + 16))}
           first == CHOOSE i \in W : \A j \in W : i <= j
<1>1. s \in Seq(VinChars) /\ Len(s) \in Nat
  BY KeepIs
<1>2. extractVIN(text) = IF W = {} THEN <<>> ELSE SubSeq(s, first, first + 16)
  BY DEF extractVIN
<1> HIDE DEF s
<1>3. CASE W = {}
  BY <1>2, <1>3
<1>4. CASE W # {}
  <2>1. W \subseteq Nat /\ \A i \in W : i \in 1..(Len(s) - 16)
    BY <1>1
  <2> HIDE DEF W
  <2>2. PICK l \in W : \A j \in W : l <= j
    BY <1>4, <2>1, LeastOf
  <2>3. first \in W
    BY <2>2, Zenon
  <2> HIDE DEF first
  <2>4. first \in 1..(Len(s) - 16) /\ first + 16 \in 1..Len(s)
    BY <1>1, <2>1, <2>3
  <2>5. \A i \in first..(first + 16) : i \in 1..Len(s)
    BY <1>1, <2>4
  <2>6. \A i \in first..(first + 16) : s[i] \in VinChars
    BY <1>1, <2>5, ElementOfSeq, Zenon
  <2>7. first \in Int /\ first + 16 \in Int /\ first <= first + 16 /\ (first + 16) - first + 1 = 17
    BY <1>1, <2>4
  <2>8. SubSeq(s, first, first + 16) \in Seq(VinChars) /\ Len(SubSeq(s, first, first + 16)) = 17
    BY <2>6, <2>7, SubSeqProperties
  <2> QED BY <1>2, <1>4, <2>8, Zenon
<1> QED BY <1>3, <1>4

\* A text begins with A, where the command 0902 begins nowhere; c counts its digits and
\* letters, and the first seventeen, which are R, are the first n characters of A.
Fronts(A, n, c, R) ==
  /\ A \in Seq(Nat) /\ n \in 3..Len(A)
  /\ \A i \in 1..Len(A) : A[i] = 0 => i < Len(A) /\ A[i + 1] # 9
  /\ Counts(c, A, VinChars, n)
  /\ c[n] = 17 /\ \A k \in 0..(n - 1) : c[k] <= 16
  /\ \A j \in 1..17 : \E k \in 1..n : A[k] \in VinChars /\ c[k] = j /\ A[k] = R[j]
  /\ R \in Seq(Nat) /\ Len(R) = 17
  /\ \A j \in 1..3 : R[j] \in 0..9

\* The command 0902 begins where a 0 and a 9 follow each other.
LEMMA BeginsWithZero ==
  ASSUME NEW text \in Seq(Nat), NEW i \in 1..Len(text), BeginsAt(<<0, 9, 0, 2>>, text, i)
  PROVE  i < Len(text) /\ text[i] = 0 /\ text[i + 1] = 9
<1>1. Len(<<0, 9, 0, 2>>) = 4 /\ i + 4 - 1 = i + 3 /\ Len(text) \in Nat
  OBVIOUS
<1>2. i + 3 <= Len(text) /\ SubSeq(text, i, i + 3) = <<0, 9, 0, 2>>
  BY <1>1, Zenon DEF BeginsAt
<1>3. \A k \in 1..4 : SubSeq(text, i, i + 3)[k] = text[i + k - 1]
  <2>1. i \in Nat /\ i >= 1 /\ i + 3 <= Len(text) /\ Len(text) \in Nat
    BY <1>1, <1>2
  <2> QED BY <2>1, SMTT(60)
<1>4. i + 1 - 1 = i /\ i + 2 - 1 = i + 1 /\ 1 \in 1..4 /\ 2 \in 1..4
  OBVIOUS
<1>5. <<0, 9, 0, 2>>[1] = 0 /\ <<0, 9, 0, 2>>[2] = 9
  OBVIOUS
<1>6. text[i] = 0 /\ text[i + 1] = 9
  BY <1>2, <1>3, <1>4, <1>5, Zenon
<1> QED BY <1>1, <1>2, <1>6

\* Of what comes of such a text extractVIN makes the seventeen characters, or nothing when less
\* than them came.
LEMMA FrontDecides ==
  ASSUME NEW A, NEW n, NEW c, NEW R, Fronts(A, n, c, R),
         NEW sent, Begins(sent, A), NEW text \in Arrives(sent)
  PROVE  extractVIN(Cut(text, <<0, 9, 0, 2>>)) \in {<<>>, R}
<1> DEFINE cmd == <<0, 9, 0, 2>>
           L == Len(text)
           d == Cut(text, cmd)
           a == Keep(d, VinChars)
<1>0. /\ A \in Seq(Nat) /\ n \in 3..Len(A) /\ Len(A) \in Nat
      /\ \A i \in 1..Len(A) : A[i] = 0 => i < Len(A) /\ A[i + 1] # 9
      /\ Counts(c, A, VinChars, n)
      /\ c[n] = 17 /\ \A k \in 0..(n - 1) : c[k] <= 16
      /\ R \in Seq(Nat) /\ Len(R) = 17
      /\ \A j \in 1..3 : R[j] \in 0..9
  BY DEF Fronts
<1>a. \A j \in 1..17 : \E k \in 1..n : A[k] \in VinChars /\ c[k] = j /\ A[k] = R[j]
  BY Zenon DEF Fronts
<1>1. /\ text \in Seq(Nat) /\ L \in Nat /\ L <= Len(sent)
      /\ \A i \in 1..L : text[i] = sent[i]
  BY ArrivesIs DEF Begins
<1>2. Len(sent) \in Nat /\ Len(sent) >= Len(A) /\ \A i \in 1..Len(A) : sent[i] = A[i]
  BY DEF Begins
<1>3. \A i \in 1..L : i <= Len(A) => text[i] = A[i]
  BY <1>0, <1>1, <1>2
<1>4. Len(cmd) \in Nat \ {0}
  OBVIOUS
<1>5. ASSUME NEW i \in 1..L, i <= Len(A)
      PROVE  ~BeginsAt(cmd, text, i)
  <2>1. SUFFICES ASSUME BeginsAt(cmd, text, i) PROVE FALSE
    OBVIOUS
  <2>2. i < L /\ text[i] = 0 /\ text[i + 1] = 9
    BY <1>1, <2>1, BeginsWithZero
  <2>a. L \in Nat /\ Len(A) \in Nat
    BY <1>0, <1>1, Zenon
  <2>b. i \in 1..Len(A)
    BY <1>5, <2>a
  <2>3. A[i] = 0
    BY <1>3, <1>5, <2>2, Zenon
  <2>4. i < Len(A) /\ A[i + 1] # 9
    BY <1>0, <2>3, <2>b, Zenon
  <2>5. i + 1 \in 1..L /\ i + 1 <= Len(A)
    BY <2>2, <2>4, <2>a
  <2> QED BY <1>3, <2>2, <2>4, <2>5
<1> HIDE DEF cmd, L
<1>6. CASE L < n
  <2>1. ~OccursIn(cmd, text)
    <3>1. \A i \in 1..L : i <= Len(A)
      BY <1>0, <1>1, <1>6
    <3>2. \A i \in 1..L : ~BeginsAt(cmd, text, i)
      BY <1>5, <3>1, Zenon
    <3> QED BY <3>2, Zenon DEF OccursIn, BeginsAt, L
  <2>2. d = text
    BY <1>1, <1>4, <2>1, CutsNothing
  <2>3. Counts(c, text, VinChars, Len(text))
    <3>1. \A k \in 1..L : k \in 1..n /\ text[k] = A[k]
      BY <1>0, <1>1, <1>3, <1>6
    <3>2. c[0] = 0 /\ \A k \in 1..n : c[k] = IF A[k] \in VinChars THEN c[k - 1] + 1 ELSE c[k - 1]
      BY <1>0, Zenon DEF Counts
    <3> QED BY <3>1, <3>2, Zenon DEF Counts, L
  <2>4. Len(a) = c[L]
    <3>1. Len(Keep(text, VinChars)) = c[Len(text)]
      BY <1>1, <2>3, KeptLength
    <3> QED BY <2>2, <3>1, Zenon DEF L
  <2>5. L \in 0..(n - 1) /\ c[L] <= 16
    BY <1>0, <1>1, <1>6
  <2>6. Len(a) \in Nat
    BY <1>1, <2>2, KeepIs, LenProperties DEF L
  <2> HIDE DEF a
  <2>7. 1..(Len(a) - 16) = {}
    BY <2>4, <2>5, <2>6
  <2>8. extractVIN(d) = <<>>
    BY <2>7 DEF extractVIN, a
  <2> QED BY <2>8 DEF cmd
<1>7. CASE L >= n
  <2>0. n \in 0..Len(text) /\ n \in Nat /\ n <= L /\ n <= Len(A)
    BY <1>0, <1>1, <1>7 DEF L
  <2>a. L \in Nat /\ Len(A) \in Nat
    BY <1>0, <1>1, Zenon
  <2>1. /\ d \in Seq(Nat) /\ Len(d) >= n
        /\ \A i \in 1..n : d[i] = text[i]
    <3>1. \A i \in 1..n : i \in 1..L /\ i <= Len(A)
      BY <1>1, <2>0, <2>a
    <3>2. \A i \in 1..n : ~BeginsAt(cmd, text, i)
      BY <1>5, <3>1, Zenon
    <3> QED BY <1>1, <1>4, <2>0, <3>2, CutKeepsFront
  <2> HIDE DEF d
  <2>2. \A i \in 1..n : d[i] = A[i]
    <3>1. \A i \in 1..n : i \in 1..L /\ i <= Len(A)
      BY <1>1, <2>0, <2>a
    <3> QED BY <1>3, <2>1, <3>1, Zenon
  <2>3. Counts(c, d, VinChars, n)
    BY <1>0, <2>2, Zenon DEF Counts
  <2>4. n \in 0..Len(d)
    BY <2>0, <2>1
  <2>5. /\ a \in Seq(Nat) /\ Len(a) >= c[n]
        /\ \A k \in 1..n : d[k] \in VinChars => a[c[k]] = d[k]
    BY <2>1, <2>3, <2>4, KeptCounted
  <2> HIDE DEF a
  <2>6. \A j \in 1..17 : a[j] = R[j]
    BY <1>a, <2>2, <2>5, ZenonT(60)
  <2>7. Len(a) \in Nat /\ Len(a) >= 17
    BY <1>0, <2>5
  <2> DEFINE w == SubSeq(a, 1, 17)
  <2>8. w = R
    <3>1. \A j \in 1..17 : j \in 1..Len(a)
      BY <2>7
    <3>2. \A j \in 1..17 : a[j] \in Nat
      BY <2>5, <3>1, ElementOfSeq, Zenon
    <3>3. 1 \in Int /\ 17 \in Int /\ 1 <= 17 /\ 17 - 1 + 1 = 17 /\ \A j \in 1..17 : 1 + j - 1 = j
      OBVIOUS
    <3>4. w \in Seq(Nat) /\ Len(w) = 17 - 1 + 1 /\ \A j \in 1..(17 - 1 + 1) : w[j] = a[1 + j - 1]
      BY <3>2, <3>3, SubSeqProperties
    <3> HIDE DEF w
    <3>5. w \in Seq(Nat) /\ Len(w) = Len(R) /\ \A j \in 1..Len(w) : w[j] = R[j]
      BY <1>0, <2>6, <3>3, <3>4, ZenonT(60)
    <3> QED BY <1>0, <3>5, SeqEqual
  <2> HIDE DEF w
  <2>9. looksLikeVIN(R)
    <3>1. 3 \in 0..Len(R)
      BY <1>0
    <3>2. Len(Keep(R, 0..9)) >= 3
      BY <1>0, <3>1, KeptAre
    <3> QED BY <1>0, <3>2 DEF looksLikeVIN
  <2> DEFINE W == {i \in 1..(Len(a) - 16) : looksLikeVIN(SubSeq(a, i, i + 16))}
  <2>10. 1 \in W /\ W # {} /\ \A j \in W : j \in Nat /\ 1 <= j
    <3>1. 1 \in 1..(Len(a) - 16) /\ 1 + 16 = 17
      BY <2>7
    <3>2. looksLikeVIN(SubSeq(a, 1, 1 + 16))
      BY <2>8, <2>9, <3>1 DEF w
    <3>3. \A j \in W : j \in Nat /\ 1 <= j
      BY <2>7
    <3> QED BY <3>1, <3>2, <3>3
  <2>11. extractVIN(d) =
          IF W = {} THEN <<>>
          ELSE LET i == CHOOSE i \in W : \A j \in W : i <= j IN SubSeq(a, i, i + 16)
    BY DEF extractVIN, a
  <2> HIDE DEF W
  <2>12. \A i \in W : (\A j \in W : i <= j) => i = 1
    BY <2>10
  <2>13. (CHOOSE i \in W : \A j \in W : i <= j) = 1
    BY <2>10, <2>12, Zenon
  <2>14. 1 + 16 = 17
    OBVIOUS
  <2>15. extractVIN(d) = R
    BY <2>8, <2>10, <2>11, <2>13, <2>14, Zenon DEF w
  <2> QED BY <2>15 DEF d, cmd
<1> QED BY <1>0, <1>1, <1>6, <1>7

\* What the answer to 0902 begins with on CAN and before, where h1 d1 h2 d2 h3 d3 are the digits
\* of the codes of the first three characters, and the seventeen digits that extractVIN takes.
CanFront(h1, d1, h2, d2, h3, d3) ==
  <<0, 1, 4, Gap, 0, Gap, 4, 9, 0, 2, 0, 1, h1, d1, h2, d2, h3, d3, Gap, 1>>
CanVin(h1, d1, h2, d2, h3, d3) ==
  <<0, 1, 4, 0, 4, 9, 0, 2, 0, 1, h1, d1, h2, d2, h3, d3, 1>>
LegacyFront(h1, d1) == <<4, 9, 0, 2, 0, 1, 0, 0, 0, 0, 0, 0, h1, d1, Gap, 4, 9, 0, 2>>
LegacyVin(h1, d1)   == <<4, 9, 0, 2, 0, 1, 0, 0, 0, 0, 0, 0, h1, d1, 4, 9, 0>>

\* Digits are characters of a VIN, and what parts the lines is not.
LEMMA DigitsCount ==
  /\ Gap \notin VinChars /\ Gap = 36
  /\ \A x \in 0..15 : x \in VinChars /\ x # 36
BY DEF Gap, VinChars, Chars

\* The front of an answer on CAN decides.
LEMMA CanFronts ==
  ASSUME NEW h1 \in 3..5, NEW d1 \in 0..15, NEW h2 \in 3..5, NEW d2 \in 0..15,
         NEW h3 \in 3..5, NEW d3 \in 0..15
  PROVE  \E c : Fronts(CanFront(h1, d1, h2, d2, h3, d3), 20, c, CanVin(h1, d1, h2, d2, h3, d3))
<1> DEFINE A == CanFront(h1, d1, h2, d2, h3, d3)
           R == CanVin(h1, d1, h2, d2, h3, d3)
           c == [k \in 0..20 |-> IF k < 4 THEN k ELSE IF k < 6 THEN k - 1
                                 ELSE IF k < 19 THEN k - 2 ELSE k - 3]
<1>1. A \in Seq(Nat) /\ Len(A) = 20
  BY DEF CanFront, Gap
<1>2. R \in Seq(Nat) /\ Len(R) = 17
  BY DEF CanVin
<1>3. /\ A[1] = 0 /\ A[2] = 1 /\ A[3] = 4 /\ A[4] = 36 /\ A[5] = 0 /\ A[6] = 36
      /\ A[7] = 4 /\ A[8] = 9 /\ A[9] = 0 /\ A[10] = 2 /\ A[11] = 0 /\ A[12] = 1
      /\ A[13] = h1 /\ A[14] = d1 /\ A[15] = h2 /\ A[16] = d2 /\ A[17] = h3
      /\ A[18] = d3 /\ A[19] = 36 /\ A[20] = 1
  BY DEF CanFront, Gap
<1>4. /\ R[1] = 0 /\ R[2] = 1 /\ R[3] = 4 /\ R[4] = 0 /\ R[5] = 4 /\ R[6] = 9
      /\ R[7] = 0 /\ R[8] = 2 /\ R[9] = 0 /\ R[10] = 1 /\ R[11] = h1 /\ R[12] = d1
      /\ R[13] = h2 /\ R[14] = d2 /\ R[15] = h3 /\ R[16] = d3 /\ R[17] = 1
  BY DEF CanVin
<1>5. /\ c[0] = 0 /\ c[1] = 1 /\ c[2] = 2 /\ c[3] = 3 /\ c[4] = 3 /\ c[5] = 4 /\ c[6] = 4
      /\ c[7] = 5 /\ c[8] = 6 /\ c[9] = 7 /\ c[10] = 8 /\ c[11] = 9 /\ c[12] = 10
      /\ c[13] = 11 /\ c[14] = 12 /\ c[15] = 13 /\ c[16] = 14 /\ c[17] = 15
      /\ c[18] = 16 /\ c[19] = 16 /\ c[20] = 17
  <2>1. \A k \in 0..20 : c[k] = IF k < 4 THEN k ELSE IF k < 6 THEN k - 1
                                ELSE IF k < 19 THEN k - 2 ELSE k - 3
    BY Zenon
  <2> HIDE DEF c
  <2> QED BY <2>1
<1> HIDE DEF A, R, c
<1>6. \A k \in 1..20 : k = 4 \/ k = 6 \/ k = 19 \/ A[k] \in 0..15
  BY <1>3
<1>7. \A k \in 1..20 : c[k] = IF k \in {4, 6, 19} THEN c[k - 1] ELSE c[k - 1] + 1
  BY <1>5
<1>8. \A k \in 1..20 : A[k] \in VinChars <=> k \notin {4, 6, 19}
  <2>1. A[4] \notin VinChars /\ A[6] \notin VinChars /\ A[19] \notin VinChars
    BY <1>3, DigitsCount, Zenon
  <2> QED BY <1>6, <2>1, DigitsCount, Zenon
<1>9. Counts(c, A, VinChars, 20)
  <2>1. c[0] = 0
    BY <1>5
  <2> QED BY <1>7, <1>8, <2>1, Zenon DEF Counts
<1>10. \A i \in 1..20 : A[i] = 0 => i < 20 /\ A[i + 1] # 9
  <2>1. \A i \in 1..20 : A[i] = 0 => i \in {1, 5, 9, 11, 14, 16, 18}
    BY <1>3
  <2>2. /\ A[1 + 1] # 9 /\ A[5 + 1] # 9 /\ A[9 + 1] # 9 /\ A[11 + 1] # 9
        /\ A[14 + 1] # 9 /\ A[16 + 1] # 9 /\ A[18 + 1] # 9
    BY <1>3
  <2> QED BY <2>1, <2>2
<1>11. \A j \in 1..17 : \E k \in 1..20 : k \notin {4, 6, 19} /\ c[k] = j /\ A[k] = R[j]
  <2> DEFINE Met(j, k) == k \in 1..20 /\ k \notin {4, 6, 19} /\ c[k] = j /\ A[k] = R[j]
  <2>1. /\ Met(1, 1) /\ Met(2, 2) /\ Met(3, 3) /\ Met(4, 5) /\ Met(5, 7) /\ Met(6, 8) /\ Met(7, 9)
        /\ Met(8, 10) /\ Met(9, 11) /\ Met(10, 12) /\ Met(11, 13) /\ Met(12, 14) /\ Met(13, 15)
        /\ Met(14, 16) /\ Met(15, 17) /\ Met(16, 18) /\ Met(17, 20)
    BY <1>3, <1>4, <1>5
  <2>2. \A j \in 1..17 : j \in {1, 2, 3, 4, 5, 6, 7, 8, 9, 10, 11, 12, 13, 14, 15, 16, 17}
    OBVIOUS
  <2> HIDE DEF Met
  <2>3. \A j \in 1..17 : \E k : Met(j, k)
    BY <2>1, <2>2, ZenonT(60)
  <2> QED BY <2>3, Zenon DEF Met
<1>12. c[20] = 17 /\ \A k \in 0..19 : c[k] <= 16
  BY <1>5
<1>13. \A j \in 1..3 : R[j] \in 0..9
  BY <1>4
<1>14. \A j \in 1..17 : \E k \in 1..20 : A[k] \in VinChars /\ c[k] = j /\ A[k] = R[j]
  BY <1>8, <1>11, Zenon
<1>15. 20 \in 3..Len(A) /\ 20 - 1 = 19
  BY <1>1
<1>16. Fronts(A, 20, c, R)
  BY <1>1, <1>2, <1>9, <1>10, <1>12, <1>13, <1>14, <1>15, Zenon DEF Fronts
<1> QED BY <1>16, Zenon DEF A, R

\* So does the front of an answer before CAN.
LEMMA LegacyFronts ==
  ASSUME NEW h1 \in 3..5, NEW d1 \in 0..15
  PROVE  \E c : Fronts(LegacyFront(h1, d1), 18, c, LegacyVin(h1, d1))
<1> DEFINE A == LegacyFront(h1, d1)
           R == LegacyVin(h1, d1)
           c == [k \in 0..18 |-> IF k < 15 THEN k ELSE k - 1]
<1>1. A \in Seq(Nat) /\ Len(A) = 19
  BY DEF LegacyFront, Gap
<1>2. R \in Seq(Nat) /\ Len(R) = 17
  BY DEF LegacyVin
<1>3. /\ A[1] = 4 /\ A[2] = 9 /\ A[3] = 0 /\ A[4] = 2 /\ A[5] = 0 /\ A[6] = 1
      /\ A[7] = 0 /\ A[8] = 0 /\ A[9] = 0 /\ A[10] = 0 /\ A[11] = 0 /\ A[12] = 0
      /\ A[13] = h1 /\ A[14] = d1 /\ A[15] = 36 /\ A[16] = 4 /\ A[17] = 9
      /\ A[18] = 0 /\ A[19] = 2
  BY DEF LegacyFront, Gap
<1>4. /\ R[1] = 4 /\ R[2] = 9 /\ R[3] = 0 /\ R[4] = 2 /\ R[5] = 0 /\ R[6] = 1
      /\ R[7] = 0 /\ R[8] = 0 /\ R[9] = 0 /\ R[10] = 0 /\ R[11] = 0 /\ R[12] = 0
      /\ R[13] = h1 /\ R[14] = d1 /\ R[15] = 4 /\ R[16] = 9 /\ R[17] = 0
  BY DEF LegacyVin
<1>5. /\ c[0] = 0 /\ c[1] = 1 /\ c[2] = 2 /\ c[3] = 3 /\ c[4] = 4 /\ c[5] = 5 /\ c[6] = 6
      /\ c[7] = 7 /\ c[8] = 8 /\ c[9] = 9 /\ c[10] = 10 /\ c[11] = 11 /\ c[12] = 12
      /\ c[13] = 13 /\ c[14] = 14 /\ c[15] = 14 /\ c[16] = 15 /\ c[17] = 16 /\ c[18] = 17
  <2>1. \A k \in 0..18 : c[k] = IF k < 15 THEN k ELSE k - 1
    BY Zenon
  <2> HIDE DEF c
  <2> QED BY <2>1
<1> HIDE DEF A, R, c
<1>6. \A k \in 1..18 : k = 15 \/ A[k] \in 0..15
  BY <1>3
<1>7. \A k \in 1..18 : c[k] = IF k = 15 THEN c[k - 1] ELSE c[k - 1] + 1
  BY <1>5
<1>8. \A k \in 1..18 : A[k] \in VinChars <=> k # 15
  <2>1. A[15] \notin VinChars
    BY <1>3, DigitsCount, Zenon
  <2> QED BY <1>6, <2>1, DigitsCount, Zenon
<1>9. Counts(c, A, VinChars, 18)
  <2>1. c[0] = 0
    BY <1>5
  <2> QED BY <1>7, <1>8, <2>1, Zenon DEF Counts
<1>10. \A i \in 1..19 : A[i] = 0 => i < 19 /\ A[i + 1] # 9
  <2>1. \A i \in 1..19 : A[i] = 0 => i \in {3, 5, 7, 8, 9, 10, 11, 12, 14, 18}
    BY <1>3
  <2>2. /\ A[3 + 1] # 9 /\ A[5 + 1] # 9 /\ A[7 + 1] # 9 /\ A[8 + 1] # 9 /\ A[9 + 1] # 9
        /\ A[10 + 1] # 9 /\ A[11 + 1] # 9 /\ A[12 + 1] # 9 /\ A[14 + 1] # 9
        /\ A[18 + 1] # 9
    BY <1>3
  <2> QED BY <2>1, <2>2
<1>11. \A j \in 1..17 : \E k \in 1..18 : k # 15 /\ c[k] = j /\ A[k] = R[j]
  <2> DEFINE Met(j, k) == k \in 1..18 /\ k # 15 /\ c[k] = j /\ A[k] = R[j]
  <2>1. /\ Met(1, 1) /\ Met(2, 2) /\ Met(3, 3) /\ Met(4, 4) /\ Met(5, 5) /\ Met(6, 6) /\ Met(7, 7)
        /\ Met(8, 8) /\ Met(9, 9) /\ Met(10, 10) /\ Met(11, 11) /\ Met(12, 12) /\ Met(13, 13)
        /\ Met(14, 14) /\ Met(15, 16) /\ Met(16, 17) /\ Met(17, 18)
    BY <1>3, <1>4, <1>5
  <2>2. \A j \in 1..17 : j \in {1, 2, 3, 4, 5, 6, 7, 8, 9, 10, 11, 12, 13, 14, 15, 16, 17}
    OBVIOUS
  <2> HIDE DEF Met
  <2>3. \A j \in 1..17 : \E k : Met(j, k)
    BY <2>1, <2>2, ZenonT(60)
  <2> QED BY <2>3, Zenon DEF Met
<1>12. c[18] = 17 /\ \A k \in 0..17 : c[k] <= 16
  BY <1>5
<1>13. \A j \in 1..3 : R[j] \in 0..9
  BY <1>4
<1>14. \A j \in 1..17 : \E k \in 1..18 : A[k] \in VinChars /\ c[k] = j /\ A[k] = R[j]
  BY <1>8, <1>11, Zenon
<1>15. 18 \in 3..Len(A) /\ 18 - 1 = 17
  BY <1>1
<1>16. Fronts(A, 18, c, R)
  BY <1>1, <1>2, <1>9, <1>10, <1>12, <1>13, <1>14, <1>15, Zenon DEF Fronts
<1> QED BY <1>16, Zenon DEF A, R

\* The code of a character is a byte of which the first digit is 3, 4 or 5.
LEMMA AsciiIs ==
  ASSUME NEW c \in Chars
  PROVE  Ascii(c) \in Byte /\ Ascii(c) \div 16 \in 3..5 /\ Ascii(c) % 16 \in 0..15
<1>1. CASE c < 10
  <2>1. Ascii(c) = 48 + c /\ c \in 0..9
    BY <1>1 DEF Ascii, Chars
  <2> QED BY <2>1, SMTT(60) DEF Byte
<1>2. CASE ~(c < 10)
  <2>1. Ascii(c) = 55 + c /\ c \in 10..35
    BY <1>2 DEF Ascii, Chars
  <2> QED BY <2>1, SMTT(60) DEF Byte
<1> QED BY <1>1, <1>2

\* The codes of a VIN's characters, and their digits.
VinCodes(v) == [i \in 1..17 |-> Ascii(v[i])]
High(v, i)  == Ascii(v[i]) \div 16
Low(v, i)   == Ascii(v[i]) % 16

\* The codes of a VIN are bytes.
LEMMA VinCodesAre ==
  ASSUME NEW v \in Seq(Chars), Len(v) = 17
  PROVE  /\ VinCodes(v) \in Seq(Byte) /\ Len(VinCodes(v)) = 17
         /\ \A i \in 1..17 : /\ v[i] \in Chars /\ VinCodes(v)[i] = Ascii(v[i])
                             /\ High(v, i) \in 3..5 /\ Low(v, i) \in 0..15
<1> DEFINE t == [i \in 1..17 |-> Ascii(v[i])]
<1>1. \A i \in 1..17 : v[i] \in Chars
  BY ElementOfSeq
<1>2. \A i \in 1..17 : t[i] \in Byte /\ t[i] = Ascii(v[i])
  BY <1>1, AsciiIs
<1>3. t \in Seq(Byte) /\ Len(t) = 17
  <2>1. t \in [1..17 -> Byte]
    BY <1>2
  <2>2. \A n \in Nat : \A f \in [1..n -> Byte] : f \in Seq(Byte) /\ Len(f) = n
    OBVIOUS
  <2>3. 17 \in Nat
    OBVIOUS
  <2> HIDE DEF t
  <2> QED BY <2>1, <2>2, <2>3, Zenon
<1>4. VinCodes(v) = t
  BY DEF VinCodes
<1>5. \A i \in 1..17 : High(v, i) \in 3..5 /\ Low(v, i) \in 0..15
  BY <1>1, AsciiIs, Zenon DEF High, Low
<1> HIDE DEF t
<1> QED BY <1>1, <1>2, <1>3, <1>4, <1>5, Zenon

\* A few bytes and more bytes behind them.
LEMMA BytesBehind ==
  ASSUME NEW h \in Seq(Byte), NEW t \in Seq(Byte)
  PROVE  /\ h \o t \in Seq(Byte) /\ Len(h \o t) = Len(h) + Len(t)
         /\ \A i \in 1..Len(h) : (h \o t)[i] = h[i]
         /\ \A i \in 1..Len(t) : (h \o t)[Len(h) + i] = t[i]
<1> DEFINE all == h \o t
           n == Len(h)
           m == Len(t)
<1>1. /\ all \in Seq(Byte) /\ Len(all) = n + m
      /\ \A j \in 1..(n + m) : all[j] = IF j <= n THEN h[j] ELSE t[j - n]
  BY ConcatProperties
<1>2. n \in Nat /\ m \in Nat
  OBVIOUS
<1> HIDE DEF all, n, m
<1>3. \A i \in 1..n : i \in 1..(n + m) /\ i <= n
  BY <1>2
<1>4. \A i \in 1..m : n + i \in 1..(n + m) /\ ~(n + i <= n) /\ (n + i) - n = i
  BY <1>2
<1>5. \A i \in 1..n : all[i] = h[i]
  BY <1>1, <1>3, Zenon
<1>6. ASSUME NEW i \in 1..m
      PROVE  all[n + i] = t[i]
  BY <1>1, <1>4
<1>7. \A i \in 1..m : all[n + i] = t[i]
  BY <1>6
<1> QED BY <1>1, <1>5, <1>7, Zenon DEF all, n, m

\* The answer to 0902 on CAN.
LEMMA CanVinBegins ==
  ASSUME NEW v \in Seq(Chars), Len(v) = 17
  PROVE  Begins(Framed(<<73, 2, 1>> \o VinCodes(v)),
                CanFront(High(v, 1), Low(v, 1), High(v, 2), Low(v, 2), High(v, 3), Low(v, 3)))
<1> DEFINE h == <<73, 2, 1>>
           t == VinCodes(v)
           b == h \o t
           s == Framed(b)
           A == CanFront(High(v, 1), Low(v, 1), High(v, 2), Low(v, 2), High(v, 3), Low(v, 3))
<1>1. h \in Seq(Byte) /\ Len(h) = 3 /\ h[1] = 73 /\ h[2] = 2 /\ h[3] = 1
  BY DEF Byte
<1>2. t \in Seq(Byte) /\ Len(t) = 17 /\ \A i \in 1..17 : t[i] = Ascii(v[i])
  BY VinCodesAre
<1>3. \A i \in 1..17 : High(v, i) \in 3..5 /\ Low(v, i) \in 0..15
  BY VinCodesAre
<1> HIDE DEF h, t
<1>4. /\ b \in Seq(Byte) /\ Len(b) = 20 /\ b[1] = 73 /\ b[2] = 2 /\ b[3] = 1
      /\ b[4] = Ascii(v[1]) /\ b[5] = Ascii(v[2]) /\ b[6] = Ascii(v[3])
  <2>1. 3 \in Nat /\ 17 \in Nat /\ 3 + 17 = 20 /\ 3 + 1 = 4 /\ 3 + 2 = 5 /\ 3 + 3 = 6
        /\ 1 \in 1..3 /\ 2 \in 1..3 /\ 3 \in 1..3 /\ 1 \in 1..17 /\ 2 \in 1..17 /\ 3 \in 1..17
    OBVIOUS
  <2>2. /\ b \in Seq(Byte) /\ Len(b) = 3 + 17
        /\ \A i \in 1..3 : b[i] = h[i]
        /\ \A i \in 1..17 : b[3 + i] = t[i]
    <3>1. /\ b \in Seq(Byte) /\ Len(b) = Len(h) + Len(t)
          /\ \A i \in 1..Len(h) : b[i] = h[i]
          /\ \A i \in 1..Len(t) : b[Len(h) + i] = t[i]
      BY <1>1, <1>2, BytesBehind
    <3> HIDE DEF b
    <3> QED BY <1>1, <1>2, <3>1, Zenon
  <2> HIDE DEF b
  <2>3. b[1] = 73 /\ b[2] = 2 /\ b[3] = 1
    BY <1>1, <2>1, <2>2, ZenonT(60)
  <2>4. b[3 + 1] = Ascii(v[1]) /\ b[3 + 2] = Ascii(v[2]) /\ b[3 + 3] = Ascii(v[3])
    BY <1>2, <2>1, <2>2, Zenon
  <2>5. b[4] = Ascii(v[1]) /\ b[5] = Ascii(v[2]) /\ b[6] = Ascii(v[3])
    BY <2>1, <2>4, Zenon
  <2> QED BY <2>1, <2>2, <2>3, <2>5, Zenon
<1> HIDE DEF b
<1>5. /\ s \in Seq(Nat) /\ Len(s) >= 20
      /\ s[1] = 0 /\ s[2] = 1 /\ s[3] = 4 /\ s[4] = Gap /\ s[5] = 0 /\ s[6] = Gap
      /\ s[19] = Gap /\ s[20] = 1
      /\ \A j \in 1..6 : s[2 * j + 5] = b[j] \div 16 /\ s[2 * j + 6] = b[j] % 16
  <2>1. 20 \in Nat /\ 20 > 7 /\ 20 \div 256 = 0 /\ (20 \div 16) % 16 = 1 /\ 20 % 16 = 4
    OBVIOUS
  <2>2. /\ s \in Seq(Nat) /\ Len(s) >= 20
        /\ s[1] = 20 \div 256 /\ s[2] = (20 \div 16) % 16 /\ s[3] = 20 % 16 /\ s[4] = Gap
        /\ s[5] = 0 /\ s[6] = Gap
        /\ \A j \in 1..6 : s[2 * j + 5] = b[j] \div 16 /\ s[2 * j + 6] = b[j] % 16
        /\ s[19] = Gap /\ s[20] = 1
    <3>1. 20 > 7 /\ b \in Seq(Byte) /\ Len(b) = 20
      BY <1>4, <2>1
    <3>2. FramedStarts(20, b)
      BY <2>1, <3>1, FramedBegins, ZenonT(60)
    <3> QED BY <3>2, ZenonT(60) DEF FramedStarts
  <2> QED BY <2>1, <2>2, Zenon
<1> HIDE DEF s
<1>6. /\ s[2 * 1 + 5] = b[1] \div 16 /\ s[2 * 1 + 6] = b[1] % 16
      /\ s[2 * 2 + 5] = b[2] \div 16 /\ s[2 * 2 + 6] = b[2] % 16
      /\ s[2 * 3 + 5] = b[3] \div 16 /\ s[2 * 3 + 6] = b[3] % 16
      /\ s[2 * 4 + 5] = b[4] \div 16 /\ s[2 * 4 + 6] = b[4] % 16
      /\ s[2 * 5 + 5] = b[5] \div 16 /\ s[2 * 5 + 6] = b[5] % 16
      /\ s[2 * 6 + 5] = b[6] \div 16 /\ s[2 * 6 + 6] = b[6] % 16
  <2>1. 1 \in 1..6 /\ 2 \in 1..6 /\ 3 \in 1..6 /\ 4 \in 1..6 /\ 5 \in 1..6 /\ 6 \in 1..6
    OBVIOUS
  <2> QED BY <1>5, <2>1, Zenon
<1>7. /\ s[7] = 4 /\ s[8] = 9 /\ s[9] = 0 /\ s[10] = 2 /\ s[11] = 0 /\ s[12] = 1
      /\ s[13] = b[4] \div 16 /\ s[14] = b[4] % 16 /\ s[15] = b[5] \div 16
      /\ s[16] = b[5] % 16 /\ s[17] = b[6] \div 16 /\ s[18] = b[6] % 16
  <2>1. /\ s[2 * 1 + 5] = 73 \div 16 /\ s[2 * 1 + 6] = 73 % 16
        /\ s[2 * 2 + 5] = 2 \div 16 /\ s[2 * 2 + 6] = 2 % 16
        /\ s[2 * 3 + 5] = 1 \div 16 /\ s[2 * 3 + 6] = 1 % 16
    BY <1>4, <1>6, Zenon
  <2>2. /\ 73 \div 16 = 4 /\ 73 % 16 = 9 /\ 2 \div 16 = 0 /\ 2 % 16 = 2
        /\ 1 \div 16 = 0 /\ 1 % 16 = 1
        /\ 2 * 1 + 5 = 7 /\ 2 * 1 + 6 = 8 /\ 2 * 2 + 5 = 9 /\ 2 * 2 + 6 = 10
        /\ 2 * 3 + 5 = 11 /\ 2 * 3 + 6 = 12 /\ 2 * 4 + 5 = 13 /\ 2 * 4 + 6 = 14
        /\ 2 * 5 + 5 = 15 /\ 2 * 5 + 6 = 16 /\ 2 * 6 + 5 = 17 /\ 2 * 6 + 6 = 18
    OBVIOUS
  <2>3. /\ s[7] = 4 /\ s[8] = 9 /\ s[9] = 0 /\ s[10] = 2 /\ s[11] = 0 /\ s[12] = 1
    BY <2>1, <2>2, Zenon
  <2>4. /\ s[13] = b[4] \div 16 /\ s[14] = b[4] % 16 /\ s[15] = b[5] \div 16
        /\ s[16] = b[5] % 16 /\ s[17] = b[6] \div 16 /\ s[18] = b[6] % 16
    BY <1>6, <2>2, Zenon
  <2> QED BY <2>3, <2>4
<1>8. /\ s[13] = High(v, 1) /\ s[14] = Low(v, 1) /\ s[15] = High(v, 2)
      /\ s[16] = Low(v, 2) /\ s[17] = High(v, 3) /\ s[18] = Low(v, 3)
  BY <1>4, <1>7, Zenon DEF High, Low
<1>9. /\ A \in Seq(Nat) /\ Len(A) = 20
      /\ A[1] = 0 /\ A[2] = 1 /\ A[3] = 4 /\ A[4] = Gap /\ A[5] = 0 /\ A[6] = Gap
      /\ A[7] = 4 /\ A[8] = 9 /\ A[9] = 0 /\ A[10] = 2 /\ A[11] = 0 /\ A[12] = 1
      /\ A[13] = High(v, 1) /\ A[14] = Low(v, 1) /\ A[15] = High(v, 2) /\ A[16] = Low(v, 2)
      /\ A[17] = High(v, 3) /\ A[18] = Low(v, 3) /\ A[19] = Gap /\ A[20] = 1
  <2>1. /\ High(v, 1) \in Nat /\ Low(v, 1) \in Nat /\ High(v, 2) \in Nat /\ Low(v, 2) \in Nat
        /\ High(v, 3) \in Nat /\ Low(v, 3) \in Nat /\ Gap \in Nat
    <3>1. 1 \in 1..17 /\ 2 \in 1..17 /\ 3 \in 1..17
      OBVIOUS
    <3>2. (\A x \in 3..5 : x \in Nat) /\ \A x \in 0..15 : x \in Nat
      OBVIOUS
    <3>3. Gap \in Nat
      BY DEF Gap
    <3> QED BY <1>3, <3>1, <3>2, <3>3, Zenon
  <2> QED BY <2>1 DEF CanFront
<1> HIDE DEF A
<1>10. \A j \in 1..20 : j \in {1, 2, 3, 4, 5, 6, 7, 8, 9, 10, 11, 12, 13, 14, 15, 16, 17,
                               18, 19, 20}
  OBVIOUS
<1>11. \A j \in 1..20 : s[j] = A[j]
  <2>1. /\ s[1] = A[1] /\ s[2] = A[2] /\ s[3] = A[3] /\ s[4] = A[4] /\ s[5] = A[5]
        /\ s[6] = A[6] /\ s[19] = A[19] /\ s[20] = A[20]
    BY <1>5, <1>9, Zenon
  <2>2. /\ s[7] = A[7] /\ s[8] = A[8] /\ s[9] = A[9] /\ s[10] = A[10]
        /\ s[11] = A[11] /\ s[12] = A[12]
    BY <1>7, <1>9, Zenon
  <2>3. /\ s[13] = A[13] /\ s[14] = A[14] /\ s[15] = A[15] /\ s[16] = A[16]
        /\ s[17] = A[17] /\ s[18] = A[18]
    BY <1>8, <1>9, Zenon
  <2> DEFINE Same(j) == s[j] = A[j]
  <2>4. /\ Same(1) /\ Same(2) /\ Same(3) /\ Same(4) /\ Same(5) /\ Same(6) /\ Same(7)
        /\ Same(8) /\ Same(9) /\ Same(10) /\ Same(11) /\ Same(12) /\ Same(13) /\ Same(14)
        /\ Same(15) /\ Same(16) /\ Same(17) /\ Same(18) /\ Same(19) /\ Same(20)
    BY <2>1, <2>2, <2>3, Zenon
  <2> HIDE DEF Same
  <2>5. \A j \in 1..20 : Same(j)
    BY <1>10, <2>4, Zenon
  <2> QED BY <2>5, Zenon DEF Same
<1>12. Begins(s, A)
  BY <1>5, <1>9, <1>11, Zenon DEF Begins
<1> QED BY <1>12, Zenon DEF s, b, h, t, A

\* The lines of the answer to 0902 before CAN.
LEMMA LegacyVinLine ==
  ASSUME NEW v \in Seq(Chars), Len(v) = 17, NEW k \in 1..5
  PROVE  LET bytes == <<73, 2, k>> \o SubSeq(<<0, 0, 0>> \o VinCodes(v), 4 * k - 3, 4 * k)
         IN /\ bytes \in Seq(Byte) /\ Len(bytes) = 7
            /\ bytes[1] = 73 /\ bytes[2] = 2 /\ bytes[3] = k
            /\ k = 1 => /\ bytes[4] = 0 /\ bytes[5] = 0 /\ bytes[6] = 0
                        /\ bytes[7] = Ascii(v[1])
<1> DEFINE z == <<0, 0, 0>>
           t == VinCodes(v)
           f == z \o t
           h == <<73, 2, k>>
           w == SubSeq(f, 4 * k - 3, 4 * k)
           b == h \o w
<1>1. z \in Seq(Byte) /\ Len(z) = 3 /\ z[1] = 0 /\ z[2] = 0 /\ z[3] = 0
  BY DEF Byte
<1>2. t \in Seq(Byte) /\ Len(t) = 17 /\ \A i \in 1..17 : t[i] = Ascii(v[i])
  BY VinCodesAre
<1>3. h \in Seq(Byte) /\ Len(h) = 3 /\ h[1] = 73 /\ h[2] = 2 /\ h[3] = k
  BY DEF Byte
<1> HIDE DEF z, t, h
<1>4. /\ 3 \in Nat /\ 17 \in Nat /\ 4 \in Nat /\ 3 + 17 = 20 /\ 3 + 4 = 7
      /\ 3 + 1 = 4 /\ 3 + 2 = 5 /\ 3 + 3 = 6
      /\ 1 \in 1..3 /\ 2 \in 1..3 /\ 3 \in 1..3 /\ 1 \in 1..17
      /\ 1 \in 1..4 /\ 2 \in 1..4 /\ 3 \in 1..4 /\ 4 \in 1..4
  OBVIOUS
<1>5. /\ f \in Seq(Byte) /\ Len(f) = 20
      /\ f[1] = 0 /\ f[2] = 0 /\ f[3] = 0 /\ f[4] = Ascii(v[1])
  <2>1. /\ f \in Seq(Byte) /\ Len(f) = 3 + 17
        /\ \A i \in 1..3 : f[i] = z[i]
        /\ \A i \in 1..17 : f[3 + i] = t[i]
    <3>1. /\ f \in Seq(Byte) /\ Len(f) = Len(z) + Len(t)
          /\ \A i \in 1..Len(z) : f[i] = z[i]
          /\ \A i \in 1..Len(t) : f[Len(z) + i] = t[i]
      BY <1>1, <1>2, BytesBehind
    <3> HIDE DEF f
    <3> QED BY <1>1, <1>2, <3>1, Zenon
  <2> HIDE DEF f
  <2>2. f[3 + 1] = Ascii(v[1])
    BY <1>2, <1>4, <2>1, Zenon
  <2> QED BY <1>1, <1>4, <2>1, <2>2, Zenon
<1> HIDE DEF f
<1>6. /\ w \in Seq(Byte) /\ Len(w) = 4
      /\ \A i \in 1..4 : w[i] = f[(4 * k - 3) + i - 1]
  <2> DEFINE lo == 4 * k - 3
             hi == 4 * k
  <2>1. lo \in 1..20 /\ hi \in 1..20 /\ lo <= hi /\ hi - lo + 1 = 4
    OBVIOUS
  <2>2. \A i \in lo..hi : i \in 1..Len(f)
    BY <1>5, <2>1
  <2> HIDE DEF lo, hi
  <2>3. \A i \in lo..hi : f[i] \in Byte
    BY <1>5, <2>2, ElementOfSeq, Zenon
  <2>4. lo \in Int /\ hi \in Int
    BY <2>1
  <2>5. /\ SubSeq(f, lo, hi) \in Seq(Byte)
        /\ Len(SubSeq(f, lo, hi)) = hi - lo + 1
        /\ \A i \in 1..(hi - lo + 1) : SubSeq(f, lo, hi)[i] = f[lo + i - 1]
    BY <2>1, <2>3, <2>4, SubSeqProperties
  <2> QED BY <2>1, <2>5, Zenon DEF lo, hi
<1> HIDE DEF w
<1>7. /\ b \in Seq(Byte) /\ Len(b) = 7
      /\ b[1] = 73 /\ b[2] = 2 /\ b[3] = k
      /\ \A i \in 1..4 : b[3 + i] = w[i]
  <2>1. /\ b \in Seq(Byte) /\ Len(b) = 3 + 4
        /\ \A i \in 1..3 : b[i] = h[i]
        /\ \A i \in 1..4 : b[3 + i] = w[i]
    <3>1. /\ b \in Seq(Byte) /\ Len(b) = Len(h) + Len(w)
          /\ \A i \in 1..Len(h) : b[i] = h[i]
          /\ \A i \in 1..Len(w) : b[Len(h) + i] = w[i]
      BY <1>3, <1>6, BytesBehind
    <3> HIDE DEF b
    <3> QED BY <1>3, <1>6, <3>1, Zenon
  <2> HIDE DEF b
  <2> QED BY <1>3, <1>4, <2>1, ZenonT(60)
<1> HIDE DEF b
<1>8. ASSUME k = 1
      PROVE  b[4] = 0 /\ b[5] = 0 /\ b[6] = 0 /\ b[7] = Ascii(v[1])
  <2>1. /\ (4 * k - 3) + 1 - 1 = 1 /\ (4 * k - 3) + 2 - 1 = 2
        /\ (4 * k - 3) + 3 - 1 = 3 /\ (4 * k - 3) + 4 - 1 = 4
    BY <1>8
  <2>2. w[1] = f[1] /\ w[2] = f[2] /\ w[3] = f[3] /\ w[4] = f[4]
    <3>1. /\ w[1] = f[(4 * k - 3) + 1 - 1] /\ w[2] = f[(4 * k - 3) + 2 - 1]
          /\ w[3] = f[(4 * k - 3) + 3 - 1] /\ w[4] = f[(4 * k - 3) + 4 - 1]
      BY <1>4, <1>6, Zenon
    <3> QED BY <2>1, <3>1, Zenon
  <2>3. b[3 + 1] = w[1] /\ b[3 + 2] = w[2] /\ b[3 + 3] = w[3] /\ b[3 + 4] = w[4]
    BY <1>4, <1>7, Zenon
  <2> QED BY <1>4, <1>5, <2>2, <2>3, Zenon
<1> QED BY <1>7, <1>8 DEF b, h, w, f, z, t

\* The answer to 0902 before CAN.
LEMMA LegacyVinBegins ==
  ASSUME NEW v \in Seq(Chars), Len(v) = 17, NEW lines,
         Len(lines) = 5,
         \A k \in 1..5 :
           lines[k] = Sent(<<73, 2, k>> \o SubSeq(<<0, 0, 0>> \o VinCodes(v), 4 * k - 3, 4 * k))
  PROVE  Begins(FlattenSeq(lines), LegacyFront(High(v, 1), Low(v, 1)))
<1> DEFINE bytes(k) == <<73, 2, k>> \o SubSeq(<<0, 0, 0>> \o VinCodes(v), 4 * k - 3, 4 * k)
           A == LegacyFront(High(v, 1), Low(v, 1))
<1>1. ASSUME NEW k \in 1..5
      PROVE  /\ bytes(k) \in Seq(Byte) /\ Len(bytes(k)) = 7
             /\ bytes(k)[1] = 73 /\ bytes(k)[2] = 2 /\ bytes(k)[3] = k
             /\ k = 1 => /\ bytes(k)[4] = 0 /\ bytes(k)[5] = 0 /\ bytes(k)[6] = 0
                         /\ bytes(k)[7] = Ascii(v[1])
  BY LegacyVinLine, ZenonT(60)
<1>2. \A k \in 1..5 : lines[k] = Sent(bytes(k))
  OBVIOUS
<1> HIDE DEF bytes
<1>3. /\ 1 \in 1..5 /\ 2 \in 1..5 /\ 7 \in Nat /\ 2 * 7 = 14 /\ 2 * 7 + 1 = 15
  OBVIOUS
<1>4. ASSUME NEW k \in 1..5
      PROVE  /\ lines[k] \in Seq(Nat) /\ Len(lines[k]) = 15 /\ lines[k][15] = Gap
             /\ \A j \in 1..7 : /\ lines[k][2 * j - 1] = bytes(k)[j] \div 16
                                /\ lines[k][2 * j] = bytes(k)[j] % 16
  <2> DEFINE b == bytes(k)
  <2>1. b \in Seq(Byte) /\ Len(b) = 7
    BY <1>1
  <2>2. lines[k] = Sent(b)
    BY <1>2
  <2> HIDE DEF b
  <2>3. /\ Sent(b) \in Seq(Nat) /\ Len(Sent(b)) = 2 * 7 + 1
        /\ Sent(b)[2 * 7 + 1] = Gap
        /\ \A j \in 1..7 : Sent(b)[2 * j - 1] = b[j] \div 16 /\ Sent(b)[2 * j] = b[j] % 16
    BY <1>3, <2>1, SentIs, ZenonT(60)
  <2>4. /\ Sent(b) \in Seq(Nat) /\ Len(Sent(b)) = 15 /\ Sent(b)[15] = Gap
        /\ \A j \in 1..7 : Sent(b)[2 * j - 1] = b[j] \div 16 /\ Sent(b)[2 * j] = b[j] % 16
    BY <1>3, <2>3, Zenon
  <2> QED BY <2>2, <2>4, Zenon DEF b
<1>5. Begins(FlattenSeq(lines), lines[1] \o lines[2])
  <2>1. 5 \in Nat /\ 5 > 0 /\ 5 >= 2 /\ Len(lines) = 5
    OBVIOUS
  <2>2. \A i \in 1..5 : lines[i] \in Seq(Nat)
    BY <1>4
  <2> QED BY <2>1, <2>2, FlattenBegins, Zenon
<1>6. /\ 1 \in 1..7 /\ 2 \in 1..7 /\ 3 \in 1..7 /\ 4 \in 1..7 /\ 5 \in 1..7 /\ 6 \in 1..7
      /\ 7 \in 1..7
  OBVIOUS
<1>7. /\ 73 \div 16 = 4 /\ 73 % 16 = 9 /\ 2 \div 16 = 0 /\ 2 % 16 = 2
      /\ 1 \div 16 = 0 /\ 1 % 16 = 1 /\ 0 \div 16 = 0 /\ 0 % 16 = 0
      /\ 2 * 1 - 1 = 1 /\ 2 * 1 = 2 /\ 2 * 2 - 1 = 3 /\ 2 * 2 = 4
      /\ 2 * 3 - 1 = 5 /\ 2 * 3 = 6 /\ 2 * 4 - 1 = 7 /\ 2 * 4 = 8
      /\ 2 * 5 - 1 = 9 /\ 2 * 5 = 10 /\ 2 * 6 - 1 = 11 /\ 2 * 6 = 12
      /\ 2 * 7 - 1 = 13 /\ 2 * 7 = 14
  OBVIOUS
<1>8. /\ lines[1] \in Seq(Nat) /\ Len(lines[1]) = 15
      /\ lines[1][1] = 4 /\ lines[1][2] = 9 /\ lines[1][3] = 0 /\ lines[1][4] = 2
      /\ lines[1][5] = 0 /\ lines[1][6] = 1 /\ lines[1][7] = 0 /\ lines[1][8] = 0
      /\ lines[1][9] = 0 /\ lines[1][10] = 0 /\ lines[1][11] = 0 /\ lines[1][12] = 0
      /\ lines[1][13] = High(v, 1) /\ lines[1][14] = Low(v, 1) /\ lines[1][15] = Gap
  <2> DEFINE l == lines[1]
             b == bytes(1)
  <2>1. /\ b[1] = 73 /\ b[2] = 2 /\ b[3] = 1 /\ b[4] = 0 /\ b[5] = 0 /\ b[6] = 0
        /\ b[7] = Ascii(v[1])
    BY <1>1, <1>3
  <2>2. /\ l \in Seq(Nat) /\ Len(l) = 15 /\ l[15] = Gap
        /\ \A j \in 1..7 : l[2 * j - 1] = b[j] \div 16 /\ l[2 * j] = b[j] % 16
    BY <1>3, <1>4
  <2> HIDE DEF l, b
  <2>3. /\ l[2 * 1 - 1] = b[1] \div 16 /\ l[2 * 1] = b[1] % 16
        /\ l[2 * 2 - 1] = b[2] \div 16 /\ l[2 * 2] = b[2] % 16
        /\ l[2 * 3 - 1] = b[3] \div 16 /\ l[2 * 3] = b[3] % 16
        /\ l[2 * 4 - 1] = b[4] \div 16 /\ l[2 * 4] = b[4] % 16
        /\ l[2 * 5 - 1] = b[5] \div 16 /\ l[2 * 5] = b[5] % 16
        /\ l[2 * 6 - 1] = b[6] \div 16 /\ l[2 * 6] = b[6] % 16
        /\ l[2 * 7 - 1] = b[7] \div 16 /\ l[2 * 7] = b[7] % 16
    BY <1>6, <2>2, Zenon
  <2>4. /\ l[1] = 4 /\ l[2] = 9 /\ l[3] = 0 /\ l[4] = 2 /\ l[5] = 0 /\ l[6] = 1
        /\ l[7] = 0 /\ l[8] = 0 /\ l[9] = 0 /\ l[10] = 0 /\ l[11] = 0 /\ l[12] = 0
    <3>1. l[2 * 1 - 1] = 4 /\ l[2 * 1] = 9
      BY <2>1, <2>3, SMTT(60)
    <3>2. l[2 * 2 - 1] = 0 /\ l[2 * 2] = 2
      BY <2>1, <2>3, SMTT(60)
    <3>3. l[2 * 3 - 1] = 0 /\ l[2 * 3] = 1
      BY <2>1, <2>3, SMTT(60)
    <3>4. /\ l[2 * 4 - 1] = 0 /\ l[2 * 4] = 0
          /\ l[2 * 5 - 1] = 0 /\ l[2 * 5] = 0
          /\ l[2 * 6 - 1] = 0 /\ l[2 * 6] = 0
      BY <2>1, <2>3, SMTT(60)
    <3> QED BY <1>7, <3>1, <3>2, <3>3, <3>4, Zenon
  <2>5. l[13] = High(v, 1) /\ l[14] = Low(v, 1)
    BY <1>7, <2>1, <2>3, Zenon DEF High, Low
  <2> QED BY <2>2, <2>4, <2>5, Zenon DEF l
<1>9. /\ lines[2] \in Seq(Nat) /\ Len(lines[2]) = 15
      /\ lines[2][1] = 4 /\ lines[2][2] = 9 /\ lines[2][3] = 0 /\ lines[2][4] = 2
  <2> DEFINE l == lines[2]
             b == bytes(2)
  <2>1. b[1] = 73 /\ b[2] = 2
    BY <1>1, <1>3
  <2>2. /\ l \in Seq(Nat) /\ Len(l) = 15
        /\ \A j \in 1..7 : l[2 * j - 1] = b[j] \div 16 /\ l[2 * j] = b[j] % 16
    BY <1>3, <1>4
  <2> HIDE DEF l, b
  <2>3. /\ l[2 * 1 - 1] = b[1] \div 16 /\ l[2 * 1] = b[1] % 16
        /\ l[2 * 2 - 1] = b[2] \div 16 /\ l[2 * 2] = b[2] % 16
    BY <1>6, <2>2, Zenon
  <2>4. /\ l[1] = 4 /\ l[2] = 9 /\ l[3] = 0 /\ l[4] = 2
    <3>1. /\ 2 * 1 - 1 = 1 /\ 2 * 1 = 2 /\ 2 * 2 - 1 = 3 /\ 2 * 2 = 4
      OBVIOUS
    <3>2. /\ l[1] = b[1] \div 16 /\ l[2] = b[1] % 16
          /\ l[3] = b[2] \div 16 /\ l[4] = b[2] % 16
      BY <2>3, <3>1
    <3>3. 73 \div 16 = 4 /\ 73 % 16 = 9 /\ 2 \div 16 = 0 /\ 2 % 16 = 2
      OBVIOUS
    <3>4. /\ b[1] \div 16 = 73 \div 16 /\ b[1] % 16 = 73 % 16
          /\ b[2] \div 16 = 2 \div 16 /\ b[2] % 16 = 2 % 16
      BY <2>1
    <3> QED BY <3>2, <3>3, <3>4
  <2> QED BY <2>2, <2>4, Zenon DEF l
<1> DEFINE two == lines[1] \o lines[2]
<1>10. /\ two \in Seq(Nat) /\ Len(two) = 30
       /\ \A i \in 1..15 : two[i] = lines[1][i]
       /\ two[16] = 4 /\ two[17] = 9 /\ two[18] = 0 /\ two[19] = 2
  <2>1. /\ two \in Seq(Nat) /\ Len(two) = Len(lines[1]) + Len(lines[2])
        /\ \A i \in 1..(Len(lines[1]) + Len(lines[2])) :
             two[i] = IF i <= Len(lines[1]) THEN lines[1][i] ELSE lines[2][i - Len(lines[1])]
    <3>1. lines[1] \in Seq(Nat) /\ lines[2] \in Seq(Nat)
      BY <1>8, <1>9, Zenon
    <3> QED BY <3>1, ConcatProperties
  <2> HIDE DEF two
  <2>2. Len(lines[1]) + Len(lines[2]) = 30
    <3>1. 15 + 15 = 30
      OBVIOUS
    <3> QED BY <1>8, <1>9, <3>1, Zenon
  <2>3. \A i \in 1..30 : two[i] = IF i <= 15 THEN lines[1][i] ELSE lines[2][i - 15]
    BY <1>8, <2>1, <2>2, Zenon
  <2>4. /\ 16 \in 1..30 /\ ~(16 <= 15) /\ 16 - 15 = 1
        /\ 17 \in 1..30 /\ ~(17 <= 15) /\ 17 - 15 = 2
        /\ 18 \in 1..30 /\ ~(18 <= 15) /\ 18 - 15 = 3
        /\ 19 \in 1..30 /\ ~(19 <= 15) /\ 19 - 15 = 4
    OBVIOUS
  <2>5. /\ two[16] = lines[2][1] /\ two[17] = lines[2][2]
        /\ two[18] = lines[2][3] /\ two[19] = lines[2][4]
    BY <2>3, <2>4, ZenonT(60)
  <2>6. \A i \in 1..15 : i \in 1..30 /\ i <= 15
    OBVIOUS
  <2>7. \A i \in 1..15 : two[i] = lines[1][i]
    BY <2>3, <2>6, Zenon
  <2> QED BY <1>9, <2>1, <2>2, <2>5, <2>7, Zenon
<1>11. Begins(FlattenSeq(lines), two)
  BY <1>5
<1> HIDE DEF two
<1>12. /\ A \in Seq(Nat) /\ Len(A) = 19
       /\ A[1] = 4 /\ A[2] = 9 /\ A[3] = 0 /\ A[4] = 2 /\ A[5] = 0 /\ A[6] = 1
       /\ A[7] = 0 /\ A[8] = 0 /\ A[9] = 0 /\ A[10] = 0 /\ A[11] = 0 /\ A[12] = 0
       /\ A[13] = High(v, 1) /\ A[14] = Low(v, 1) /\ A[15] = Gap /\ A[16] = 4 /\ A[17] = 9
       /\ A[18] = 0 /\ A[19] = 2
  <2>1. High(v, 1) \in Nat /\ Low(v, 1) \in Nat /\ Gap \in Nat
    <3>1. 1 \in 1..17
      OBVIOUS
    <3>2. (\A x \in 3..5 : x \in Nat) /\ \A x \in 0..15 : x \in Nat
      OBVIOUS
    <3>3. High(v, 1) \in 3..5 /\ Low(v, 1) \in 0..15
      BY <3>1, VinCodesAre
    <3> QED BY <3>2, <3>3 DEF Gap
  <2> QED BY <2>1 DEF LegacyFront
<1> HIDE DEF A
<1>13. \A j \in 1..19 : two[j] = A[j]
  <2> DEFINE Same(j) == two[j] = A[j]
  <2>1. \A i \in 1..15 : two[i] = lines[1][i]
    BY <1>10, Zenon
  <2>2. /\ 1 \in 1..15 /\ 2 \in 1..15 /\ 3 \in 1..15 /\ 4 \in 1..15 /\ 5 \in 1..15
        /\ 6 \in 1..15 /\ 7 \in 1..15 /\ 8 \in 1..15 /\ 9 \in 1..15 /\ 10 \in 1..15
        /\ 11 \in 1..15 /\ 12 \in 1..15 /\ 13 \in 1..15 /\ 14 \in 1..15 /\ 15 \in 1..15
    OBVIOUS
  <2>3. Same(1) /\ Same(2) /\ Same(3) /\ Same(4) /\ Same(5) /\ Same(6)
    BY <1>8, <1>12, <2>1, <2>2, Zenon
  <2>4. Same(7) /\ Same(8) /\ Same(9) /\ Same(10) /\ Same(11) /\ Same(12)
    BY <1>8, <1>12, <2>1, <2>2, Zenon
  <2>5. Same(13) /\ Same(14) /\ Same(15)
    BY <1>8, <1>12, <2>1, <2>2, Zenon
  <2>6. Same(16) /\ Same(17) /\ Same(18) /\ Same(19)
    BY <1>10, <1>12, Zenon
  <2>7. \A j \in 1..19 : j \in {1, 2, 3, 4, 5, 6, 7, 8, 9, 10, 11, 12, 13, 14, 15, 16, 17,
                                18, 19}
    OBVIOUS
  <2> HIDE DEF Same
  <2>8. \A j \in 1..19 : Same(j)
    BY <2>3, <2>4, <2>5, <2>6, <2>7, Zenon
  <2> QED BY <2>8, Zenon DEF Same
<1> DEFINE all == FlattenSeq(lines)
<1>14. /\ all \in Seq(Nat) /\ Len(all) >= Len(two)
       /\ \A j \in 1..Len(two) : all[j] = two[j]
  BY <1>11, Zenon DEF Begins
<1> HIDE DEF all
<1>15. Len(all) >= Len(A) /\ \A j \in 1..Len(A) : j \in 1..Len(two)
  <2>1. Len(all) \in Nat /\ Len(all) >= 30
    <3>1. Len(all) \in Nat
      BY <1>14
    <3> QED BY <1>10, <1>14, <3>1, Zenon
  <2>2. Len(all) >= 19 /\ \A j \in 1..19 : j \in 1..30
    BY <2>1
  <2> QED BY <1>10, <1>12, <2>2, Zenon
<1>16. Begins(all, A)
  <2>1. \A j \in 1..Len(A) : two[j] = A[j]
    BY <1>12, <1>13, Zenon
  <2> QED BY <1>12, <1>14, <1>15, <2>1, Zenon DEF Begins
<1> QED BY <1>16 DEF all, A

\* The seventeen digits of the answer that extractVIN takes.
RawVin(bus, v) ==
  IF bus = "can"
  THEN CanVin(High(v, 1), Low(v, 1), High(v, 2), Low(v, 2), High(v, 3), Low(v, 3))
  ELSE LegacyVin(High(v, 1), Low(v, 1))

\* The answer is a text, and of what comes of it extractVIN makes these digits or nothing.
LEMMA VinFound ==
  ASSUME car \in Cars
  PROVE  /\ VinReply \in Seq(Nat)
         /\ \A text \in Arrives(VinReply) :
              extractVIN(Cut(text, <<0, 9, 0, 2>>)) \in {<<>>, RawVin(car.bus, car.vin)}
<1> DEFINE v == car.vin
<1>1. v \in Seq(Chars) /\ Len(v) = 17
  BY ReadAssumption
<1>2. VinReply = IF car.bus = "can" THEN Framed(<<73, 2, 1>> \o VinCodes(v))
                 ELSE FlattenSeq([k \in 1..5 |->
                        Sent(<<73, 2, k>> \o
                             SubSeq(<<0, 0, 0>> \o VinCodes(v), 4 * k - 3, 4 * k))])
  BY DEF VinReply, VinCodes
<1>3. RawVin(car.bus, v) =
        IF car.bus = "can"
        THEN CanVin(High(v, 1), Low(v, 1), High(v, 2), Low(v, 2), High(v, 3), Low(v, 3))
        ELSE LegacyVin(High(v, 1), Low(v, 1))
  BY DEF RawVin
<1> HIDE DEF v
<1>4. /\ High(v, 1) \in 3..5 /\ Low(v, 1) \in 0..15 /\ High(v, 2) \in 3..5
      /\ Low(v, 2) \in 0..15 /\ High(v, 3) \in 3..5 /\ Low(v, 3) \in 0..15
  <2>1. 1 \in 1..17 /\ 2 \in 1..17 /\ 3 \in 1..17
    OBVIOUS
  <2> QED BY <1>1, <2>1, VinCodesAre
<1>5. ASSUME NEW A, NEW n, NEW R, \E c : Fronts(A, n, c, R), Begins(VinReply, A)
      PROVE  /\ VinReply \in Seq(Nat)
             /\ \A text \in Arrives(VinReply) :
                  extractVIN(Cut(text, <<0, 9, 0, 2>>)) \in {<<>>, R}
  <2>1. PICK c : Fronts(A, n, c, R)
    BY <1>5, Zenon
  <2>2. VinReply \in Seq(Nat)
    BY <1>5 DEF Begins
  <2> QED BY <1>5, <2>1, <2>2, FrontDecides
<1>6. CASE car.bus = "can"
  <2> DEFINE A == CanFront(High(v, 1), Low(v, 1), High(v, 2), Low(v, 2), High(v, 3), Low(v, 3))
             R == CanVin(High(v, 1), Low(v, 1), High(v, 2), Low(v, 2), High(v, 3), Low(v, 3))
  <2>1. Begins(VinReply, A)
    BY <1>1, <1>2, <1>6, CanVinBegins
  <2>2. \E c : Fronts(A, 20, c, R)
    BY <1>4, CanFronts
  <2>3. RawVin(car.bus, v) = R
    BY <1>3, <1>6
  <2> HIDE DEF A, R
  <2> QED BY <1>5, <2>1, <2>2, <2>3 DEF v
<1>7. CASE car.bus # "can"
  <2> DEFINE A == LegacyFront(High(v, 1), Low(v, 1))
             R == LegacyVin(High(v, 1), Low(v, 1))
             lines == [k \in 1..5 |->
                        Sent(<<73, 2, k>> \o
                             SubSeq(<<0, 0, 0>> \o VinCodes(v), 4 * k - 3, 4 * k))]
  <2>1. Begins(VinReply, A)
    <3>1. /\ Len(lines) = 5
          /\ \A k \in 1..5 :
               lines[k] = Sent(<<73, 2, k>> \o
                               SubSeq(<<0, 0, 0>> \o VinCodes(v), 4 * k - 3, 4 * k))
      OBVIOUS
    <3>2. VinReply = FlattenSeq(lines)
      BY <1>2, <1>7
    <3> HIDE DEF lines
    <3> QED BY <1>1, <3>1, <3>2, LegacyVinBegins
  <2>2. \E c : Fronts(A, 18, c, R)
    BY <1>4, LegacyFronts
  <2>3. RawVin(car.bus, v) = R
    BY <1>3, <1>7
  <2> HIDE DEF A, R
  <2> QED BY <1>5, <2>1, <2>2, <2>3 DEF v
<1> QED BY <1>6, <1>7

\* The VIN of the scan is none, or the beginning of the ECU's answer as it came.
VinAsReceived == car \in Cars /\ vin \in {<<>>, RawVin(car.bus, car.vin)}

\* Whatever the car and wherever its answer broke off, the VIN a scan reports is none or the
\* first seventeen hexadecimal digits of the answer, the counts and the indexes of the lines
\* among them: extractVIN looks for a VIN in the digits and not in the characters they stand
\* for, and the first window always looks like one.
THEOREM VinIsNotDecoded == Spec => []VinAsReceived
<1>1. Init => VinAsReceived
  BY DEF Init, VinAsReceived
<1>2. VinAsReceived /\ [Next]_vars => VinAsReceived'
  <2> SUFFICES ASSUME VinAsReceived, [Next]_vars
               PROVE  VinAsReceived'
    OBVIOUS
  <2>1. CASE Identify
    <3>1. car' = car /\ car \in Cars
      BY <2>1 DEF Identify, VinAsReceived
    <3>2. \A text \in Arrives(VinReply) :
            extractVIN(Cut(text, <<0, 9, 0, 2>>)) \in {<<>>, RawVin(car.bus, car.vin)}
      BY <3>1, VinFound
    <3>3. vin' \in {extractVIN(Cut(text, <<0, 9, 0, 2>>)) : text \in Arrives(VinReply)}
                    \cup {<<>>}
      BY <2>1, Zenon DEF Identify
    <3>4. vin' \in {<<>>, RawVin(car.bus, car.vin)}
      BY <3>2, <3>3, Zenon
    <3> QED BY <3>1, <3>4 DEF VinAsReceived
  <2>2. CASE ~Identify
    <3>1. car' = car /\ vin' = vin
      BY <2>2 DEF Next, IdentifyFails, ModeAnswered, ModeLost, Frames, PidAnswered,
                  PidLost, SampleEnds, vars
    <3> QED BY <3>1 DEF VinAsReceived
  <2> QED BY <2>1, <2>2
<1> QED BY <1>1, <1>2, PTL DEF Spec

\* Two readings on CAN agree just when their digits of the VIN do.
LEMMA SameCanDigits ==
  ASSUME NEW h1, NEW d1, NEW h2, NEW d2, NEW h3, NEW d3,
         NEW g1, NEW e1, NEW g2, NEW e2, NEW g3, NEW e3
  PROVE  CanVin(h1, d1, h2, d2, h3, d3) = CanVin(g1, e1, g2, e2, g3, e3) <=>
           h1 = g1 /\ d1 = e1 /\ h2 = g2 /\ d2 = e2 /\ h3 = g3 /\ d3 = e3
BY DEF CanVin

\* So do two before CAN.
LEMMA SameLegacyDigits ==
  ASSUME NEW h1, NEW d1, NEW g1, NEW e1
  PROVE  LegacyVin(h1, d1) = LegacyVin(g1, e1) <=> h1 = g1 /\ d1 = e1
BY DEF LegacyVin

\* The code of a character stands for no other.
LEMMA AsciiOnce ==
  ASSUME NEW c \in Chars, NEW d \in Chars,
         Ascii(c) \div 16 = Ascii(d) \div 16, Ascii(c) % 16 = Ascii(d) % 16
  PROVE  c = d
<1>1. Ascii(c) = Ascii(d)
  BY AsciiIs, TwoDigits
<1> QED BY <1>1 DEF Ascii, Chars

\* What a scan reports as the VIN tells two cars on CAN apart only by the first three
\* characters of their VINs, and two cars before CAN only by the first (extractVIN; the shop
\* keeps a car's record and history by this VIN).
THEOREM VinsAreShared ==
  ASSUME NEW v \in Seq(Chars), Len(v) = 17, NEW w \in Seq(Chars), Len(w) = 17
  PROVE  /\ RawVin("can", v) = RawVin("can", w) <=> v[1] = w[1] /\ v[2] = w[2] /\ v[3] = w[3]
         /\ RawVin("legacy", v) = RawVin("legacy", w) <=> v[1] = w[1]
<1>1. 1 \in 1..17 /\ 2 \in 1..17 /\ 3 \in 1..17
  OBVIOUS
<1>2. ASSUME NEW i \in 1..17
      PROVE  v[i] = w[i] <=> High(v, i) = High(w, i) /\ Low(v, i) = Low(w, i)
  <2>1. v[i] \in Chars /\ w[i] \in Chars
    BY VinCodesAre
  <2>2. ASSUME High(v, i) = High(w, i), Low(v, i) = Low(w, i)
        PROVE  v[i] = w[i]
    BY <2>1, <2>2, AsciiOnce, Zenon DEF High, Low
  <2>3. ASSUME v[i] = w[i]
        PROVE  High(v, i) = High(w, i) /\ Low(v, i) = Low(w, i)
    BY <2>3, Zenon DEF High, Low
  <2> QED BY <2>2, <2>3, Zenon
<1>3. "legacy" # "can"
  OBVIOUS
<1>4. RawVin("can", v) = RawVin("can", w) <=>
        /\ High(v, 1) = High(w, 1) /\ Low(v, 1) = Low(w, 1)
        /\ High(v, 2) = High(w, 2) /\ Low(v, 2) = Low(w, 2)
        /\ High(v, 3) = High(w, 3) /\ Low(v, 3) = Low(w, 3)
  <2>1. /\ RawVin("can", v) = CanVin(High(v, 1), Low(v, 1), High(v, 2), Low(v, 2),
                                     High(v, 3), Low(v, 3))
        /\ RawVin("can", w) = CanVin(High(w, 1), Low(w, 1), High(w, 2), Low(w, 2),
                                     High(w, 3), Low(w, 3))
    BY DEF RawVin
  <2>2. CanVin(High(v, 1), Low(v, 1), High(v, 2), Low(v, 2), High(v, 3), Low(v, 3))
          = CanVin(High(w, 1), Low(w, 1), High(w, 2), Low(w, 2), High(w, 3), Low(w, 3)) <=>
        /\ High(v, 1) = High(w, 1) /\ Low(v, 1) = Low(w, 1)
        /\ High(v, 2) = High(w, 2) /\ Low(v, 2) = Low(w, 2)
        /\ High(v, 3) = High(w, 3) /\ Low(v, 3) = Low(w, 3)
    BY SameCanDigits
  <2> QED BY <2>1, <2>2, Zenon
<1>5. RawVin("legacy", v) = RawVin("legacy", w) <=>
        High(v, 1) = High(w, 1) /\ Low(v, 1) = Low(w, 1)
  <2>1. /\ RawVin("legacy", v) = LegacyVin(High(v, 1), Low(v, 1))
        /\ RawVin("legacy", w) = LegacyVin(High(w, 1), Low(w, 1))
    BY <1>3 DEF RawVin
  <2>2. LegacyVin(High(v, 1), Low(v, 1)) = LegacyVin(High(w, 1), Low(w, 1)) <=>
          High(v, 1) = High(w, 1) /\ Low(v, 1) = Low(w, 1)
    BY SameLegacyDigits
  <2> QED BY <2>1, <2>2, Zenon
<1> QED BY <1>1, <1>2, <1>4, <1>5, Zenon

\* On each bus the VIN that is its own raw reading.
OwnRawVin(bus) ==
  IF bus = "can" THEN <<0, 1, 4, 0, 4, 9, 0, 2, 0, 1, 3, 0, 3, 1, 3, 4, 1>>
  ELSE <<4, 9, 0, 2, 0, 1, 0, 0, 0, 0, 0, 0, 3, 4, 4, 9, 0>>

\* No other VIN is.
LEMMA OnlyOneIsRight ==
  ASSUME NEW bus, NEW v \in Seq(Chars), Len(v) = 17
  PROVE  RawVin(bus, v) = v <=> v = OwnRawVin(bus)
<1>1. Ascii(0) = 48 /\ Ascii(1) = 49 /\ Ascii(4) = 52
  BY DEF Ascii
<1>2. /\ 48 \div 16 = 3 /\ 48 % 16 = 0 /\ 49 \div 16 = 3 /\ 49 % 16 = 1
      /\ 52 \div 16 = 3 /\ 52 % 16 = 4
  OBVIOUS
<1>3. ASSUME NEW i, v[i] = 0
      PROVE  High(v, i) = 3 /\ Low(v, i) = 0
  BY <1>1, <1>2, <1>3, Zenon DEF High, Low
<1>4. ASSUME NEW i, v[i] = 1
      PROVE  High(v, i) = 3 /\ Low(v, i) = 1
  BY <1>1, <1>2, <1>4, Zenon DEF High, Low
<1>5. ASSUME NEW i, v[i] = 4
      PROVE  High(v, i) = 3 /\ Low(v, i) = 4
  BY <1>1, <1>2, <1>5, Zenon DEF High, Low
<1>6. CASE bus = "can"
  <2>1. RawVin(bus, v) = CanVin(High(v, 1), Low(v, 1), High(v, 2), Low(v, 2),
                                High(v, 3), Low(v, 3))
    BY <1>6 DEF RawVin
  <2>2. OwnRawVin(bus) = CanVin(3, 0, 3, 1, 3, 4)
    BY <1>6 DEF OwnRawVin, CanVin
  <2>3. ASSUME v[1] = 0, v[2] = 1, v[3] = 4
        PROVE  RawVin(bus, v) = OwnRawVin(bus)
    BY <1>3, <1>4, <1>5, <2>1, <2>2, <2>3, Zenon
  <2>4. ASSUME RawVin(bus, v) = v
        PROVE  v[1] = 0 /\ v[2] = 1 /\ v[3] = 4
    <3>1. v = CanVin(High(v, 1), Low(v, 1), High(v, 2), Low(v, 2), High(v, 3), Low(v, 3))
      BY <2>1, <2>4, Zenon
    <3>2. \A a, b, c, d, e, f : /\ CanVin(a, b, c, d, e, f)[1] = 0
                                /\ CanVin(a, b, c, d, e, f)[2] = 1
                                /\ CanVin(a, b, c, d, e, f)[3] = 4
      BY DEF CanVin
    <3> QED BY <3>1, <3>2, Zenon
  <2>5. ASSUME v = OwnRawVin(bus)
        PROVE  v[1] = 0 /\ v[2] = 1 /\ v[3] = 4
    BY <1>6, <2>5 DEF OwnRawVin
  <2> QED BY <2>3, <2>4, <2>5, Zenon
<1>7. CASE bus # "can"
  <2>1. RawVin(bus, v) = LegacyVin(High(v, 1), Low(v, 1))
    BY <1>7 DEF RawVin
  <2>2. OwnRawVin(bus) = LegacyVin(3, 4)
    BY <1>7 DEF OwnRawVin, LegacyVin
  <2>3. ASSUME v[1] = 4
        PROVE  RawVin(bus, v) = OwnRawVin(bus)
    BY <1>5, <2>1, <2>2, <2>3, Zenon
  <2>4. ASSUME RawVin(bus, v) = v
        PROVE  v[1] = 4
    <3>1. v = LegacyVin(High(v, 1), Low(v, 1))
      BY <2>1, <2>4, Zenon
    <3>2. \A a, b : LegacyVin(a, b)[1] = 4
      BY DEF LegacyVin
    <3> QED BY <3>1, <3>2, Zenon
  <2>5. ASSUME v = OwnRawVin(bus)
        PROVE  v[1] = 4
    BY <1>7, <2>5 DEF OwnRawVin
  <2> QED BY <2>3, <2>4, <2>5, Zenon
<1> QED BY <1>6, <1>7

\* The VIN of the scan is the car's just when one was read and the car's is that one.
VinIsTheCars == vin = car.vin <=> vin # <<>> /\ car.vin = OwnRawVin(car.bus)

\* On either bus a scan reports only one of all VINs as it is (extractVIN; "`vehicle.vin` is a
\* 17-character value from the ECU", docs/verifying-obd-reads.md:37).
THEOREM VinIsWrong == Spec => []VinIsTheCars
<1>1. VinAsReceived => VinIsTheCars
  <2> SUFFICES ASSUME VinAsReceived PROVE VinIsTheCars
    OBVIOUS
  <2>1. /\ car.vin \in Seq(Chars) /\ Len(car.vin) = 17
        /\ vin = <<>> \/ vin = RawVin(car.bus, car.vin)
    BY ReadAssumption DEF VinAsReceived
  <2>2. car.vin # <<>>
    <3>1. Len(<<>>) = 0 /\ 0 # 17
      OBVIOUS
    <3> QED BY <2>1, <3>1, Zenon
  <2>3. RawVin(car.bus, car.vin) # <<>>
    <3>1. \A a, b, c, d, e, f : CanVin(a, b, c, d, e, f) # <<>> /\ LegacyVin(a, b) # <<>>
      BY DEF CanVin, LegacyVin
    <3> QED BY <3>1, Zenon DEF RawVin
  <2>4. RawVin(car.bus, car.vin) = car.vin <=> car.vin = OwnRawVin(car.bus)
    BY <2>1, OnlyOneIsRight, Zenon
  <2> QED BY <2>1, <2>2, <2>3, <2>4, Zenon DEF VinIsTheCars
<1> QED BY <1>1, VinIsNotDecoded, PTL

\* What is decoded of an answer, whatever it is and wherever it breaks off, has the type its
\* variable needs: the names of codes, and the bytes of a reading.
LEMMA DecodedTypes ==
  ASSUME car \in Cars
  PROVE  /\ \A m \in Modes : \A text \in Arrives(Reply(m)) :
              text \in Seq(Nat) /\ CutAndDecode(m, text) \subseteq Names
         /\ \A p \in Range(Pids) : \A text \in Arrives(LiveReply(p)) :
              text \in Seq(Nat) /\ Decode(p, Cut(text, CommandOf(p))) \in Seq(Byte)
<1>1. ASSUME NEW m \in Modes, NEW text \in Arrives(Reply(m))
      PROVE  text \in Seq(Nat) /\ CutAndDecode(m, text) \subseteq Names
  <2> DEFINE cmd == Command[m]
  <2>1. text \in Seq(Nat)
    <3>1. Reply(m) \in Seq(Nat)
      BY ReplyIsText
    <3> QED BY <3>1, ArrivesIs
  <2>2. Len(cmd) \in Nat \ {0}
    <3>1. Len(Command[m]) = 2
      BY DEF Command, Modes
    <3> QED BY <3>1
  <2>3. CutAndDecode(m, text) = DecodeDTCs(Cut(text, cmd))
    BY DEF CutAndDecode
  <2> HIDE DEF cmd
  <2>4. Len(Cut(text, cmd)) \in Nat
    <3>1. Cut(text, cmd) \in Seq(Nat)
      BY <2>1, <2>2, CutShortens
    <3> QED BY <3>1
  <2> QED BY <2>1, <2>3, <2>4, FindsNames
<1>2. ASSUME NEW p \in Range(Pids), NEW text \in Arrives(LiveReply(p))
      PROVE  text \in Seq(Nat) /\ Decode(p, Cut(text, CommandOf(p))) \in Seq(Byte)
  <2> DEFINE cmd == CommandOf(p)
  <2>1. text \in Seq(Nat)
    <3>1. LiveReply(p) \in Seq(Nat)
      BY LiveReplyIsText
    <3> QED BY <3>1, ArrivesIs
  <2>2. Len(cmd) \in Nat \ {0}
    BY DEF CommandOf, Hex
  <2> HIDE DEF cmd
  <2>3. Len(Cut(text, cmd)) \in Nat
    <3>1. Cut(text, cmd) \in Seq(Nat)
      BY <2>1, <2>2, CutShortens
    <3> QED BY <3>1
  <2>4. Decode(p, Cut(text, cmd)) \in Seq(Byte)
    BY <2>3, ReadsBytes
  <2> QED BY <2>1, <2>4 DEF cmd
<1> QED BY <1>1, <1>2

\* The state of a scan keeps its type, whatever is answered and whatever of it is cut: the VIN
\* is none or 17 characters of a VIN (extractVIN), every code found is one of the names that
\* encodeDTC makes and has a status (DecodeDTCs, ReadDTCs), and a reading is bytes
\* (decodePayload).
THEOREM ReadTypes == Spec => []TypeOK
<1> DEFINE R == [given : BOOLEAN, bytes : Seq(Byte), text : Seq(Nat)]
<1>1. Init => TypeOK
  <2> SUFFICES ASSUME Init PROVE TypeOK
    OBVIOUS
  <2>1. live \in Seq(R)
    <3>1. live = <<>>
      BY DEF Init
    <3> HIDE DEF R
    <3> QED BY <3>1
  <2>2. DOMAIN seen = {} /\ DOMAIN heard = {}
    BY DEF Init
  <2>3. next \in 1..Len(Sources)
    BY DEF Init, Sources
  <2>4. car \in Cars /\ pc = "identify" /\ vin = <<>>
    BY DEF Init
  <2> QED BY <2>1, <2>2, <2>3, <2>4 DEF TypeOK
<1>2. TypeOK /\ [Next]_vars => TypeOK'
  <2> SUFFICES ASSUME TypeOK, [Next]_vars
               PROVE  TypeOK'
    OBVIOUS
  <2>0. Len(Sources) = 3 /\ \A i \in 1..3 : Sources[i] \in Modes
    BY DEF Sources, Modes
  <2>1. car' = car /\ car \in Cars
    BY DEF Next, IdentifyFails, Identify, ModeAnswered, ModeLost, Frames, PidAnswered,
           PidLost, SampleEnds, vars, TypeOK
  <2>2. /\ pc' \in {"identify", "dtcs", "frames", "live", "done", "failed"}
        /\ next' \in 1..Len(Sources)
    BY <2>0 DEF Next, IdentifyFails, Identify, ModeAnswered, ModeLost, Frames, PidAnswered,
                PidLost, SampleEnds, vars, TypeOK, Advance
  <2>3. vin' = <<>> \/ (vin' \in Seq(VinChars) /\ Len(vin') = 17)
    <3>1. CASE Identify
      <4> DEFINE cmd == <<0, 9, 0, 2>>
      <4>1. vin' \in {extractVIN(Cut(text, cmd)) : text \in Arrives(VinReply)} \cup {<<>>}
        BY <3>1, Zenon DEF Identify
      <4>2. Len(cmd) \in Nat \ {0}
        OBVIOUS
      <4> HIDE DEF cmd
      <4>3. ASSUME NEW text \in Arrives(VinReply)
            PROVE  \/ extractVIN(Cut(text, cmd)) = <<>>
                   \/ extractVIN(Cut(text, cmd)) \in Seq(VinChars)
                      /\ Len(extractVIN(Cut(text, cmd))) = 17
        <5>1. VinReply \in Seq(Nat)
          BY <2>1, VinFound
        <5>2. text \in Seq(Nat)
          BY <5>1, ArrivesIs
        <5>3. Cut(text, cmd) \in Seq(Nat)
          BY <4>2, <5>2, CutShortens
        <5>4. Len(Cut(text, cmd)) \in Nat
          BY <5>3
        <5> QED BY <5>4, ExtractsAVin
      <4>4. CASE \E text \in Arrives(VinReply) : vin' = extractVIN(Cut(text, cmd))
        <5>1. PICK text \in Arrives(VinReply) : vin' = extractVIN(Cut(text, cmd))
          BY <4>4, Zenon
        <5> QED BY <4>3, <5>1, Zenon
      <4>5. CASE vin' = <<>>
        BY <4>5
      <4> QED BY <4>1, <4>4, <4>5, Zenon
    <3>2. CASE ~Identify
      <4>1. vin' = vin
        BY <3>2 DEF Next, IdentifyFails, ModeAnswered, ModeLost, Frames, PidAnswered,
                    PidLost, SampleEnds, vars
      <4> QED BY <4>1 DEF TypeOK
    <3> QED BY <3>1, <3>2
  <2>4. /\ DOMAIN seen' \subseteq Names
        /\ \A c \in DOMAIN seen' : seen'[c] \in Statuses
        /\ DOMAIN heard' \subseteq Modes
        /\ \A m \in DOMAIN heard' : heard'[m] \in Seq(Nat)
    <3>1. CASE ModeAnswered
      <4> DEFINE m == Sources[next]
      <4>1. m \in Modes
        BY <2>0 DEF TypeOK
      <4>2. PICK text \in Arrives(Reply(m)) :
              /\ seen' = Merge(CutAndDecode(m, text), StatusOf[m])
              /\ heard' = [k \in DOMAIN heard \cup {m} |-> IF k = m THEN text ELSE heard[k]]
        BY <3>1, Zenon DEF ModeAnswered
      <4> HIDE DEF m
      <4>3. text \in Seq(Nat) /\ CutAndDecode(m, text) \subseteq Names
        BY <2>1, <4>1, DecodedTypes
      <4>4. StatusOf[m] \in Statuses
        BY <4>1 DEF StatusOf, Modes, Statuses
      <4> DEFINE D == CutAndDecode(m, text)
                 st == StatusOf[m]
      <4> HIDE DEF D, st
      <4>5. seen' = [c \in DOMAIN seen \cup D |->
                      IF c \in D /\ ~(c \in DOMAIN seen /\ seen[c] = "confirmed")
                      THEN st ELSE seen[c]]
        BY <4>2, Zenon DEF Merge, D, st
      <4>6. DOMAIN seen \subseteq Names /\ \A c \in DOMAIN seen : seen[c] \in Statuses
        BY DEF TypeOK
      <4>7. D \subseteq Names /\ st \in Statuses
        BY <4>3, <4>4 DEF D, st
      <4>8. DOMAIN seen' \subseteq Names /\ \A c \in DOMAIN seen' : seen'[c] \in Statuses
        BY <4>5, <4>6, <4>7
      <4>9. DOMAIN heard \subseteq Modes /\ \A k \in DOMAIN heard : heard[k] \in Seq(Nat)
        BY DEF TypeOK
      <4>10. DOMAIN heard' \subseteq Modes /\ \A k \in DOMAIN heard' : heard'[k] \in Seq(Nat)
        BY <4>1, <4>2, <4>3, <4>9
      <4> QED BY <4>8, <4>10
    <3>2. CASE ~ModeAnswered
      <4>1. seen' = seen /\ heard' = heard
        BY <3>2 DEF Next, IdentifyFails, Identify, ModeLost, Frames, PidAnswered, PidLost,
                    SampleEnds, vars
      <4> QED BY <4>1 DEF TypeOK
    <3> QED BY <3>1, <3>2
  <2>5. live' \in Seq(R)
    <3>0. live \in Seq(R)
      BY DEF TypeOK
    <3>1. NoReading \in R
      <4>1. <<>> \in Seq(Byte) /\ <<>> \in Seq(Nat)
        OBVIOUS
      <4> QED BY <4>1 DEF NoReading
    <3>2. ASSUME Len(live) < Len(Pids), NEW text \in Arrives(LiveReply(Asking))
          PROVE  [given |-> TRUE, bytes |-> Decode(Asking, Cut(text, CommandOf(Asking))),
                  text |-> text] \in R
      <4>1. Pids \in Seq(Range(AllPids)) /\ Len(live) \in Nat
        <5> HIDE DEF R
        <5> QED BY <3>0, ReadAssumption
      <4>2. Len(live) + 1 \in DOMAIN Pids
        BY <3>2, <4>1
      <4>3. Asking \in Range(Pids)
        BY <4>2, Zenon DEF Asking, Range
      <4>4. /\ text \in Seq(Nat)
            /\ Decode(Asking, Cut(text, CommandOf(Asking))) \in Seq(Byte)
        BY <2>1, <3>2, <4>3, DecodedTypes
      <4> QED BY <4>4
    <3> HIDE DEF R
    <3>3. CASE PidAnswered
      <4>1. PICK r \in R : live' = Append(live, r)
        <5>1. Len(live) < Len(Pids)
          BY <3>3 DEF PidAnswered
        <5>2. PICK text \in Arrives(LiveReply(Asking)) :
                live' = Append(live,
                  IF text = NoData THEN NoReading
                  ELSE [given |-> TRUE,
                        bytes |-> Decode(Asking, Cut(text, CommandOf(Asking))), text |-> text])
          BY <3>3, Zenon DEF PidAnswered
        <5> QED BY <3>1, <3>2, <5>1, <5>2, Zenon
      <4> QED BY <3>0, <4>1, AppendProperties
    <3>4. CASE PidLost
      <4>1. live' = Append(live, NoReading)
        BY <3>4 DEF PidLost
      <4> QED BY <3>0, <3>1, <4>1, AppendProperties
    <3>5. CASE ~PidAnswered /\ ~PidLost
      <4>1. live' = live
        BY <3>5 DEF Next, IdentifyFails, Identify, ModeAnswered, ModeLost, Frames, SampleEnds,
                    vars
      <4> QED BY <3>0, <4>1
    <3> QED BY <3>3, <3>4, <3>5
  <2> QED BY <2>1, <2>2, <2>3, <2>4, <2>5 DEF TypeOK
<1> QED BY <1>1, <1>2, PTL DEF Spec

-----------------------------------------------------------------------------
\* ReportIsTheCars is about the answers that report no code, and those of one line before CAN,
\* in which the digits of the command do not follow each other, and the sensors of which no
\* ECU refuses and no answer holds them: that is what Readable and LiveReadable mean
\* (strings.ReplaceAll of the command in command(), which is there for its echo).
THEOREM ReadableMeans ==
  /\ \A m \in DOMAIN heard : m \in Modes /\ heard[m] \in Seq(Nat) =>
       (Readable(m) <=>
         /\ car.codes[m] = <<>> \/ (car.bus = "legacy" /\ Lines(car.codes[m]) <= 1)
         /\ ~OccursIn(Command[m], heard[m]))
  /\ \A p \in Range(Pids) : \A text \in Seq(Nat) :
       LiveReadable(p, text) <=> p \notin car.refused /\ ~OccursIn(CommandOf(p), text)
<1>1. ASSUME NEW m \in Modes, NEW text \in Seq(Nat)
      PROVE  Cut(text, Command[m]) = text <=> ~OccursIn(Command[m], text)
  <2>1. Len(Command[m]) = 2
    BY DEF Command, Modes
  <2>2. Len(Command[m]) \in Nat \ {0}
    BY <2>1
  <2> QED BY <2>2, CutIsHarmless, Zenon
<1>2. ASSUME NEW p \in Range(Pids), NEW text \in Seq(Nat)
      PROVE  Cut(text, CommandOf(p)) = text <=> ~OccursIn(CommandOf(p), text)
  <2>1. Len(CommandOf(p)) \in Nat \ {0}
    BY DEF CommandOf, Hex
  <2> QED BY <2>1, CutIsHarmless, Zenon
<1> QED BY <1>1, <1>2, Zenon DEF Readable, LiveReadable

\* On CAN the only code of a mode is lost and another one reported in its place, made of the
\* number of codes and of the first byte of the code: DecodeDTCs pairs the bytes behind the
\* service byte, where a CAN bus has counted the codes.  P0101 alone comes out as it is
\* ("Accepts frames like "43 01 33 00 00" or multi-line responses", pkg/obd/codes.go:49).
THEOREM CountIsReadAsACode ==
  ASSUME car \in Cars, car.bus = "can", NEW m \in Modes,
         NEW a \in Byte, NEW b \in Byte, car.codes[m] = <<<<a, b>>>>,
         ~OccursIn(Command[m], Reply(m))
  PROVE  /\ CutAndDecode(m, Reply(m)) = {EncodeDTC(1, a)}
         /\ CutAndDecode(m, Reply(m)) = Stored[m] <=> a = 1 /\ b = 1
<1> DEFINE B == <<Service[m], 1, a, b>>
           text == Sent(B)
           hex == HexDigits(text)
           raw == ToBytes(hex)
<1>1. Service[m] \in {67, 71, 74}
  BY DEF Service, Modes
<1>2. B \in Seq(Byte) /\ Len(B) = 4
  BY <1>1 DEF Byte
<1>3. Reply(m) = text
  <2> DEFINE codes == car.codes[m]
  <2>1. Len(codes) = 1
    OBVIOUS
  <2>2. Paired(codes) = <<a, b>>
    <3>1. Paired(codes) = [i \in 1..(2 * 1) |-> codes[(i + 1) \div 2][((i - 1) % 2) + 1]]
      BY <2>1, Zenon DEF Paired
    <3>2. \A i \in 1..(2 * 1) : codes[(i + 1) \div 2][((i - 1) % 2) + 1] = <<a, b>>[i]
      <4>1. /\ (1 + 1) \div 2 = 1 /\ ((1 - 1) % 2) + 1 = 1
            /\ (2 + 1) \div 2 = 1 /\ ((2 - 1) % 2) + 1 = 2
        OBVIOUS
      <4>2. codes[1] = <<a, b>>
        OBVIOUS
      <4>3. \A i \in 1..(2 * 1) : i = 1 \/ i = 2
        OBVIOUS
      <4> HIDE DEF codes
      <4>4. /\ codes[(1 + 1) \div 2][((1 - 1) % 2) + 1] = <<a, b>>[1]
            /\ codes[(2 + 1) \div 2][((2 - 1) % 2) + 1] = <<a, b>>[2]
        BY <4>1, <4>2, Zenon
      <4> QED BY <4>3, <4>4, Zenon
    <3>3. <<a, b>> = [i \in 1..(2 * 1) |-> <<a, b>>[i]]
      OBVIOUS
    <3> HIDE DEF codes
    <3> QED BY <3>1, <3>2, <3>3, Zenon
  <2>3. <<Service[m], 1>> \o <<a, b>> = B
    <3> DEFINE h == <<Service[m], 1>>
               t == <<a, b>>
               f == h \o t
    <3>1. h \in Seq(Byte) /\ Len(h) = 2 /\ h[1] = Service[m] /\ h[2] = 1
      BY <1>1 DEF Byte
    <3>2. t \in Seq(Byte) /\ Len(t) = 2 /\ t[1] = a /\ t[2] = b
      OBVIOUS
    <3>3. /\ B[1] = Service[m] /\ B[2] = 1 /\ B[3] = a /\ B[4] = b
      OBVIOUS
    <3> HIDE DEF h, t, B
    <3>4. /\ f \in Seq(Byte) /\ Len(f) = Len(h) + Len(t)
          /\ \A i \in 1..Len(h) : f[i] = h[i]
          /\ \A i \in 1..Len(t) : f[Len(h) + i] = t[i]
      BY <3>1, <3>2, BytesBehind
    <3> HIDE DEF f
    <3>5. 2 + 2 = 4 /\ 2 + 1 = 3 /\ 1 \in 1..2 /\ 2 \in 1..2
      OBVIOUS
    <3>6. Len(f) = 4 /\ f[1] = Service[m] /\ f[2] = 1
      BY <3>1, <3>2, <3>4, <3>5, Zenon
    <3>7. f[2 + 1] = a /\ f[2 + 2] = b
      BY <3>1, <3>2, <3>4, <3>5, Zenon
    <3>8. f[3] = a /\ f[4] = b
      BY <3>5, <3>7, Zenon
    <3>9. Len(f) = Len(B) /\ \A i \in 1..Len(f) : f[i] = B[i]
      <4>1. \A i \in 1..4 : i = 1 \/ i = 2 \/ i = 3 \/ i = 4
        OBVIOUS
      <4> QED BY <1>2, <3>3, <3>6, <3>8, <4>1, Zenon
    <3> QED BY <1>2, <3>4, <3>9, SeqEqual DEF f, h, t
  <2> HIDE DEF codes, text, B
  <2>4. Reply(m) = Framed(<<Service[m], Len(codes)>> \o Paired(codes))
    BY Zenon DEF Reply, codes
  <2>5. Reply(m) = Framed(B)
    BY <2>1, <2>2, <2>3, <2>4, Zenon
  <2>6. Framed(B) = Sent(B)
    BY <1>2 DEF Framed
  <2> QED BY <2>5, <2>6 DEF text
<1>4. /\ B[1] = Service[m] /\ B[2] = 1 /\ B[3] = a /\ B[4] = b
  OBVIOUS
<1> HIDE DEF B
<1>5. text \in Seq(Nat)
  BY <1>2, SentIsText
<1>6. /\ Len(hex) = 8 /\ Len(raw) = 4
      /\ \A j \in 1..4 : raw[j] = B[j]
  <2>1. 4 \in Nat /\ 2 * 4 = 8
    OBVIOUS
  <2>2. Len(text) >= Len(Sent(B)) /\ \A i \in 1..Len(Sent(B)) : text[i] = Sent(B)[i]
    BY <1>5
  <2>3. /\ \A j \in 1..4 : raw[j] = B[j]
        /\ text = Sent(B) => Len(hex) = 2 * 4 /\ Len(raw) = 4
    BY <1>2, <1>5, <2>1, <2>2, BytesAre
  <2> HIDE DEF hex, raw
  <2> QED BY <2>1, <2>3, Zenon DEF text
<1>7. CutAndDecode(m, Reply(m)) = DecodeDTCs(text)
  <2>1. Len(Command[m]) = 2
    BY DEF Command, Modes
  <2>2. Cut(text, Command[m]) = text
    <3> HIDE DEF text
    <3>1. Len(Command[m]) \in Nat \ {0}
      BY <2>1
    <3> QED BY <1>3, <1>5, <3>1, CutsNothing
  <2> QED BY <1>3, <2>2, Zenon DEF CutAndDecode
<1>8. raw[1] \in {67, 71, 74} /\ raw[2] = 1 /\ raw[3] = a /\ raw[4] = b
  <2>1. 1 \in 1..4 /\ 2 \in 1..4 /\ 3 \in 1..4 /\ 4 \in 1..4
    OBVIOUS
  <2> HIDE DEF raw
  <2> QED BY <1>1, <1>4, <1>6, <2>1, Zenon
<1>9. DecodeDTCs(text) = {EncodeDTC(1, a)}
  <2> DEFINE In == {j \in 2..(Len(raw) - 1) :
                      (j - 2) % 2 = 0 /\ <<raw[j], raw[j + 1]>> # <<0, 0>>}
  <2>1. DecodeDTCs(text) = {EncodeDTC(raw[i], raw[i + 1]) : i \in In}
    <3>1. ~(Len(hex) < 6)
      BY <1>6
    <3>2. (IF raw[1] \in {67, 71, 74} THEN 2 ELSE 1) = 2
      BY <1>8
    <3> QED BY <3>1, <3>2 DEF DecodeDTCs
  <2> HIDE DEF raw, hex, text
  <2>2. Len(raw) - 1 = 3 /\ 2 + 1 = 3 /\ (2 - 2) % 2 = 0 /\ (3 - 2) % 2 = 1
    BY <1>6
  <2>3. <<raw[2], raw[2 + 1]>> # <<0, 0>>
    BY <1>8, <2>2
  <2>4. In = {2}
    <3>1. \A j \in 2..3 : j = 2 \/ j = 3
      OBVIOUS
    <3>2. 2 \in 2..3
      OBVIOUS
    <3> QED BY <2>2, <2>3, <3>1, <3>2
  <2> HIDE DEF In
  <2> DEFINE Name(i) == EncodeDTC(raw[i], raw[i + 1])
  <2>5. {EncodeDTC(raw[i], raw[i + 1]) : i \in {2}} = {EncodeDTC(raw[2], raw[2 + 1])}
    <3>1. {Name(i) : i \in {2}} = {Name(2)}
      <4> HIDE DEF Name
      <4> QED OBVIOUS
    <3> QED BY <3>1, Zenon
  <2> QED BY <1>8, <2>1, <2>2, <2>4, <2>5, Zenon
<1>10. Stored[m] = {EncodeDTC(a, b)}
  <2>1. Stored[m] = {EncodeDTC(c[1], c[2]) : c \in Range(<<<<a, b>>>>)}
    BY Zenon DEF Stored
  <2>2. Range(<<<<a, b>>>>) = {<<a, b>>}
    BY DEF Range
  <2>3. {EncodeDTC(c[1], c[2]) : c \in {<<a, b>>}} = {EncodeDTC(<<a, b>>[1], <<a, b>>[2])}
    OBVIOUS
  <2>4. <<a, b>>[1] = a /\ <<a, b>>[2] = b
    OBVIOUS
  <2> QED BY <2>1, <2>2, <2>3, <2>4, Zenon
<1>11. EncodeDTC(1, a) = EncodeDTC(a, b) <=> a = 1 /\ b = 1
  <2>1. 1 \in Byte
    BY DEF Byte
  <2>2. ASSUME EncodeDTC(1, a) = EncodeDTC(a, b)
        PROVE  a = 1 /\ b = 1
    <3>1. 1 = a /\ a = b
      BY <2>1, <2>2, OneNamePerCode
    <3> QED BY <3>1
  <2> QED BY <2>2
<1>12. {EncodeDTC(1, a)} = {EncodeDTC(a, b)} <=> EncodeDTC(1, a) = EncodeDTC(a, b)
  OBVIOUS
<1> QED BY <1>7, <1>9, <1>10, <1>11, <1>12, Zenon

-----------------------------------------------------------------------------
\* The ranking of the findings with the positions s, as FoldLeft makes it: the last of
\* them is inserted into the ranking r of the others.
Ranking(F, r, s) == IF s = {} THEN <<>> ELSE LET x == Max(s) IN Insert(r[s \ {x}], F[x])

\* FoldLeft(Insert, ...), which orders the findings of Analyze, is the ranking of all of its
\* positions.
LEMMA FoldIs ==
  ASSUME NEW F
  PROVE  FoldLeft(Insert, <<>>, F) =
           (CHOOSE r : r = [s \in SUBSET DOMAIN F |-> Ranking(F, r, s)])[DOMAIN F]
BY DEF FoldLeft, MapThenFoldSet, Ranking

\* The last position.
LEMMA LastPosition ==
  ASSUME NEW k \in Nat, NEW s \in SUBSET (1..(k + 1))
  PROVE  /\ k + 1 \in s => Max(s) = k + 1 /\ s \ {Max(s)} \in SUBSET (1..k)
         /\ k + 1 \notin s => s \in SUBSET (1..k)
<1>1. CASE k + 1 \in s
  <2>1. \A y \in s : y \in Int /\ k + 1 >= y
    OBVIOUS
  <2>2. \A x \in s : (\A y \in s : x >= y) => x = k + 1
    BY <1>1, <2>1
  <2>3. Max(s) = k + 1
    BY <1>1, <2>1, <2>2, Zenon DEF Max
  <2> QED BY <2>1, <2>3
<1>2. CASE k + 1 \notin s
  BY <1>2
<1> QED BY <1>1, <1>2

\* There is a ranking of every set of positions.
LEMMA RankingExists ==
  ASSUME NEW F, NEW n \in Nat
  PROVE  \E r : r = [s \in SUBSET (1..n) |-> Ranking(F, r, s)]
<1> DEFINE Have == { k \in Nat : \E r : r = [s \in SUBSET (1..k) |-> Ranking(F, r, s)] }
<1>1. 0 \in Have
  <2> DEFINE r == [s \in SUBSET (1..0) |-> <<>>]
  <2>1. SUBSET (1..0) = {{}}
    OBVIOUS
  <2>2. \A s \in SUBSET (1..0) : Ranking(F, r, s) = <<>>
    BY <2>1 DEF Ranking
  <2>3. r = [s \in SUBSET (1..0) |-> Ranking(F, r, s)]
    BY <2>2
  <2> QED BY <2>3
<1>2. ASSUME NEW k \in Nat, k \in Have
      PROVE  k + 1 \in Have
  <2>1. PICK r : r = [s \in SUBSET (1..k) |-> Ranking(F, r, s)]
    BY <1>2
  <2> DEFINE q == [s \in SUBSET (1..(k + 1)) |->
                     IF k + 1 \in s THEN Insert(r[s \ {k + 1}], F[k + 1]) ELSE r[s]]
  <2>2. ASSUME NEW s \in SUBSET (1..(k + 1))
        PROVE  q[s] = Ranking(F, q, s)
    <3>1. CASE k + 1 \in s
      <4>1. s # {} /\ Max(s) = k + 1 /\ s \ {k + 1} \in SUBSET (1..(k + 1))
        BY <3>1, LastPosition
      <4>2. q[s] = Insert(r[s \ {k + 1}], F[k + 1])
        BY <3>1
      <4>3. q[s \ {k + 1}] = r[s \ {k + 1}]
        BY <4>1
      <4> HIDE DEF q
      <4> QED BY <4>1, <4>2, <4>3 DEF Ranking
    <3>2. CASE k + 1 \notin s
      <4>1. s \in SUBSET (1..k)
        BY <3>2
      <4>2. q[s] = r[s] /\ r[s] = Ranking(F, r, s)
        BY <2>1, <3>2, <4>1
      <4>3. CASE s = {}
        BY <4>2, <4>3 DEF Ranking
      <4>4. CASE s # {}
        <5>1. s \ {Max(s)} \in SUBSET (1..(k + 1)) /\ k + 1 \notin s \ {Max(s)}
          BY <3>2, <4>1
        <5>2. q[s \ {Max(s)}] = r[s \ {Max(s)}]
          BY <5>1
        <5> HIDE DEF q
        <5> QED BY <4>2, <4>4, <5>2 DEF Ranking
      <4> QED BY <4>3, <4>4
    <3> QED BY <3>1, <3>2
  <2>3. q = [s \in SUBSET (1..(k + 1)) |-> Ranking(F, q, s)]
    <3>1. q = [s \in SUBSET (1..(k + 1)) |-> q[s]]
      OBVIOUS
    <3> HIDE DEF q
    <3> QED BY <2>2, <3>1
  <2>4. \E p : p = [s \in SUBSET (1..(k + 1)) |-> Ranking(F, p, s)]
    <3> HIDE DEF q
    <3> QED BY <2>3
  <2> QED BY <2>4
<1>3. Nat \subseteq Have
  <2> HIDE DEF Have
  <2> QED BY <1>1, <1>2, EveryNumber
<1> QED BY <1>3

\* A fold is a sequence of insertions, one for each finding in its turn.
LEMMA FoldInserts ==
  ASSUME NEW n \in Nat, NEW F, DOMAIN F = 1..n
  PROVE  \E h : /\ h[0] = <<>>
                /\ \A k \in 0..(n - 1) : h[k + 1] = Insert(h[k], F[k + 1])
                /\ h[n] = FoldLeft(Insert, <<>>, F)
<1> DEFINE r == CHOOSE r : r = [s \in SUBSET (1..n) |-> Ranking(F, r, s)]
           h == [k \in 0..n |-> r[1..k]]
<1>1. r = [s \in SUBSET (1..n) |-> Ranking(F, r, s)]
  BY RankingExists
<1>2. FoldLeft(Insert, <<>>, F) = r[1..n]
  BY FoldIs
<1> HIDE DEF r
<1>3. h[0] = <<>>
  <2>1. h[0] = r[1..0] /\ 1..0 = {} /\ 1..0 \in SUBSET (1..n)
    OBVIOUS
  <2>2. r[1..0] = Ranking(F, r, 1..0)
    BY <1>1, <2>1
  <2> QED BY <2>1, <2>2 DEF Ranking
<1>4. ASSUME NEW k \in 0..(n - 1)
      PROVE  h[k + 1] = Insert(h[k], F[k + 1])
  <2> DEFINE s == 1..(k + 1)
  <2>1. k \in Nat /\ k \in 0..n /\ k + 1 \in 0..n
    OBVIOUS
  <2>2. h[k + 1] = r[s] /\ h[k] = r[1..k]
    BY <2>1
  <2>3. s \in SUBSET (1..n) /\ s # {} /\ k + 1 \in s /\ s \in SUBSET (1..(k + 1))
    BY <2>1
  <2>4. s \ {k + 1} = 1..k
    BY <2>1
  <2>5. Max(s) = k + 1
    BY <2>1, <2>3, LastPosition
  <2> HIDE DEF s, h
  <2>6. r[s] = Ranking(F, r, s)
    BY <1>1, <2>3
  <2> QED BY <2>2, <2>3, <2>4, <2>5, <2>6 DEF Ranking
<1>5. h[n] = r[1..n]
  OBVIOUS
<1> HIDE DEF h
<1> QED BY <1>2, <1>3, <1>4, <1>5

\* A set of positions has a last one.
LEMMA LastOf ==
  ASSUME NEW n \in Nat, NEW S \in SUBSET (1..n), S # {}
  PROVE  Max(S) \in S /\ \A y \in S : y <= Max(S)
<1> DEFINE Have == { k \in Nat : \A T \in SUBSET (1..k) :
                                   T # {} => \E x \in T : \A y \in T : x >= y }
<1>1. 0 \in Have
  <2>1. \A T \in SUBSET (1..0) : T = {}
    OBVIOUS
  <2> QED BY <2>1
<1>2. ASSUME NEW k \in Nat, k \in Have
      PROVE  k + 1 \in Have
  <2>1. ASSUME NEW T \in SUBSET (1..(k + 1)), T # {}
        PROVE  \E x \in T : \A y \in T : x >= y
    <3>1. CASE k + 1 \in T
      BY <3>1
    <3>2. CASE k + 1 \notin T
      BY <1>2, <2>1, <3>2
    <3> QED BY <3>1, <3>2
  <2> QED BY <2>1
<1>3. n \in Have
  <2> HIDE DEF Have
  <2> QED BY <1>1, <1>2, EveryNumber
<1>4. \E x \in S : \A y \in S : x >= y
  BY <1>3
<1>5. Max(S) \in S /\ \A y \in S : Max(S) >= y
  BY <1>4, Zenon DEF Max
<1> QED BY <1>5

\* A ranking goes down, and no two of it are as sure.
GoesDown(s) == \A i, j \in 1..Len(s) : i < j => s[i].confidence > s[j].confidence

\* t is the ranking s with x at its place.
Placed(X, s, x, t) ==
  /\ t \in Seq(X) /\ Len(t) = Len(s) + 1 /\ GoesDown(t)
  /\ \E i \in 1..(Len(s) + 1) : \A k \in 1..(Len(s) + 1) :
       t[k] = IF k < i THEN s[k] ELSE IF k = i THEN x ELSE s[k - 1]

\* Insert puts a finding at its place in a ranking and moves what follows.
LEMMA InsertIs ==
  ASSUME NEW X, \A x \in X : x.confidence \in Nat, NEW s \in Seq(X), NEW x \in X, GoesDown(s),
         \A k \in 1..Len(s) : s[k].confidence # x.confidence
  PROVE  Placed(X, s, x, Insert(s, x))
<1> DEFINE I == { i \in 1..Len(s) : s[i].confidence >= x.confidence }
           i == IF I # {} THEN Max(I) ELSE 0
           t == SubSeq(s, 1, i) \o <<x>> \o SubSeq(s, i + 1, Len(s))
<1>1. \A k \in 1..Len(s) : s[k] \in X /\ s[k].confidence \in Nat
  OBVIOUS
<1>0. Len(s) \in Nat /\ I \in SUBSET (1..Len(s))
  OBVIOUS
<1>2. i \in 0..Len(s) /\ \A k \in 1..Len(s) : s[k].confidence >= x.confidence => k <= i
  <2>1. CASE I = {}
    BY <2>1
  <2>2. CASE I # {}
    <3> HIDE DEF I
    <3>1. Max(I) \in I /\ \A k \in I : k <= Max(I)
      BY <1>0, <2>2, LastOf
    <3>2. i = Max(I)
      BY <2>2
    <3>3. i \in I /\ \A k \in I : k <= i
      BY <3>1, <3>2
    <3> HIDE DEF i
    <3> QED BY <3>3, <1>0 DEF I
  <2> QED BY <2>1, <2>2
<1>3. \A k \in 1..Len(s) : k <= i => s[k].confidence > x.confidence
  <2>1. CASE I = {}
    BY <2>1
  <2>2. CASE I # {}
    <3> HIDE DEF I
    <3>1. Max(I) \in I
      BY <1>0, <2>2, LastOf
    <3>2. i \in I
      BY <2>2, <3>1
    <3> HIDE DEF i
    <3>3. i \in 1..Len(s) /\ s[i].confidence >= x.confidence
      BY <3>2 DEF I
    <3> QED BY <1>1, <3>3 DEF GoesDown
  <2> QED BY <2>1, <2>2
<1>4. Insert(s, x) = t
  <2>1. SelectLastInSeq(s, LAMBDA f : f.confidence >= x.confidence) = i
    BY DEF SelectLastInSeq
  <2> HIDE DEF i
  <2>2. Insert(s, x) = InsertAt(s, i + 1, x)
    BY <2>1 DEF Insert
  <2>3. (i + 1) - 1 = i
    BY <1>2
  <2> QED BY <2>2, <2>3 DEF InsertAt
<1> HIDE DEF i
<1>5. /\ t \in Seq(X) /\ Len(t) = Len(s) + 1
      /\ \A k \in 1..(Len(s) + 1) :
           t[k] = IF k < i + 1 THEN s[k] ELSE IF k = i + 1 THEN x ELSE s[k - 1]
  <2> DEFINE a == SubSeq(s, 1, i)
             c == SubSeq(s, i + 1, Len(s))
  <2>1. a \in Seq(X) /\ Len(a) = i /\ \A k \in 1..i : a[k] = s[k]
    BY <1>0, <1>2
  <2>2. c \in Seq(X) /\ Len(c) = Len(s) - i /\ \A k \in 1..(Len(s) - i) : c[k] = s[i + k]
    BY <1>0, <1>2
  <2> HIDE DEF a, c
  <2> DEFINE b == a \o <<x>>
  <2>3. /\ b \in Seq(X) /\ Len(b) = i + 1
        /\ \A k \in 1..(i + 1) : b[k] = IF k <= i THEN s[k] ELSE x
    BY <1>2, <2>1
  <2>4. t = b \o c
    BY DEF a, c
  <2> HIDE DEF b, t
  <2>8. /\ t \in Seq(X) /\ Len(t) = Len(b) + Len(c)
        /\ \A k \in 1..(Len(b) + Len(c)) : t[k] = IF k <= Len(b) THEN b[k] ELSE c[k - Len(b)]
    BY <2>2, <2>3, <2>4, ConcatProperties, Zenon
  <2>5. t \in Seq(X) /\ Len(t) = Len(s) + 1
    BY <1>0, <1>2, <2>2, <2>3, <2>8
  <2>6. \A k \in 1..(Len(s) + 1) : t[k] = IF k <= i + 1 THEN b[k] ELSE c[k - (i + 1)]
    BY <1>0, <1>2, <2>2, <2>3, <2>8
  <2>7. \A k \in 1..(Len(s) + 1) : k > i + 1 => c[k - (i + 1)] = s[k - 1]
    BY <1>0, <1>2, <2>2
  <2>9. ASSUME NEW k \in 1..(Len(s) + 1)
        PROVE  t[k] = IF k < i + 1 THEN s[k] ELSE IF k = i + 1 THEN x ELSE s[k - 1]
    <3>1. CASE k <= i + 1
      <4>1. k \in 1..(i + 1) /\ t[k] = b[k]
        BY <1>2, <2>6, <3>1
      <4> QED BY <1>2, <2>3, <4>1
    <3>2. CASE k > i + 1
      BY <1>2, <2>6, <2>7, <3>2
    <3> QED BY <1>2, <3>1, <3>2
  <2> QED BY <2>5, <2>9
<1> HIDE DEF t, I
<1>6. GoesDown(t)
  <2>1. \A k \in 1..Len(s) : k > i => s[k].confidence < x.confidence
    BY <1>1, <1>2
  <2>2. SUFFICES ASSUME NEW j \in 1..Len(t), NEW k \in 1..Len(t), j < k
                 PROVE  t[j].confidence > t[k].confidence
    BY DEF GoesDown
  <2>3. CASE k < i + 1
    <3>1. t[j] = s[j] /\ t[k] = s[k] /\ j \in 1..Len(s) /\ k \in 1..Len(s)
      BY <1>0, <1>2, <1>5, <2>2, <2>3
    <3> QED BY <2>2, <3>1 DEF GoesDown
  <2>4. CASE k = i + 1
    <3>1. t[j] = s[j] /\ t[k] = x /\ j \in 1..Len(s) /\ j <= i
      BY <1>0, <1>2, <1>5, <2>2, <2>4
    <3> QED BY <1>3, <3>1
  <2>5. CASE j < i + 1 /\ k > i + 1
    <3>1. t[j] = s[j] /\ t[k] = s[k - 1] /\ j \in 1..Len(s) /\ k - 1 \in 1..Len(s) /\ j < k - 1
      BY <1>0, <1>2, <1>5, <2>2, <2>5
    <3> QED BY <3>1 DEF GoesDown
  <2>6. CASE j = i + 1
    <3>1. t[j] = x /\ t[k] = s[k - 1] /\ k - 1 \in 1..Len(s) /\ k - 1 > i
      BY <1>0, <1>2, <1>5, <2>2, <2>6
    <3> QED BY <1>1, <2>1, <3>1
  <2>7. CASE j > i + 1
    <3>1. t[j] = s[j - 1] /\ t[k] = s[k - 1] /\ k - 1 \in 1..Len(s) /\ j - 1 \in 1..Len(s)
          /\ j - 1 < k - 1
      BY <1>0, <1>2, <1>5, <2>2, <2>7
    <3> QED BY <3>1 DEF GoesDown
  <2> QED BY <1>2, <2>2, <2>3, <2>4, <2>5, <2>6, <2>7
<1>7. i + 1 \in 1..(Len(s) + 1)
  BY <1>2
<1>8. Placed(X, s, x, t)
  BY <1>5, <1>6, <1>7 DEF Placed
<1> QED BY <1>4, <1>8

\* t has what s has, and x.
Added(X, s, x, t) ==
  /\ t \in Seq(X) /\ Len(t) = Len(s) + 1 /\ GoesDown(t)
  /\ \A j \in 1..Len(t) : t[j] = x \/ \E k \in 1..Len(s) : t[j] = s[k]
  /\ \A k \in 1..Len(s) : \E j \in 1..Len(t) : t[j] = s[k]
  /\ \E j \in 1..Len(t) : t[j] = x

\* Insert keeps what is there and adds the finding.
LEMMA InsertAdds ==
  ASSUME NEW X, \A x \in X : x.confidence \in Nat, NEW s \in Seq(X), NEW x \in X, GoesDown(s),
         \A k \in 1..Len(s) : s[k].confidence # x.confidence
  PROVE  Added(X, s, x, Insert(s, x))
<1> DEFINE t == Insert(s, x)
<1>0. Placed(X, s, x, t)
  BY InsertIs
<1> HIDE DEF t
<1>1. /\ t \in Seq(X) /\ Len(t) = Len(s) + 1 /\ GoesDown(t)
      /\ \E i \in 1..(Len(s) + 1) : \A k \in 1..(Len(s) + 1) :
           t[k] = IF k < i THEN s[k] ELSE IF k = i THEN x ELSE s[k - 1]
  BY <1>0 DEF Placed
<1>2. PICK i \in 1..(Len(s) + 1) : \A k \in 1..(Len(s) + 1) :
           t[k] = IF k < i THEN s[k] ELSE IF k = i THEN x ELSE s[k - 1]
  BY <1>1
<1>3. Len(s) \in Nat
  OBVIOUS
<1>4. ASSUME NEW j \in 1..Len(t)
      PROVE  t[j] = x \/ \E k \in 1..Len(s) : t[j] = s[k]
  <2>1. CASE j < i
    BY <1>1, <1>2, <1>3, <2>1
  <2>2. CASE j = i
    BY <1>1, <1>2, <1>3, <2>2
  <2>3. CASE j > i
    <3>1. j - 1 \in 1..Len(s) /\ t[j] = s[j - 1]
      BY <1>1, <1>2, <1>3, <2>3
    <3> QED BY <3>1
  <2> QED BY <1>2, <1>3, <2>1, <2>2, <2>3
<1>5. ASSUME NEW k \in 1..Len(s)
      PROVE  \E j \in 1..Len(t) : t[j] = s[k]
  <2>1. CASE k < i
    <3>1. k \in 1..Len(t) /\ t[k] = s[k]
      BY <1>1, <1>2, <1>3, <2>1
    <3> QED BY <3>1
  <2>2. CASE ~(k < i)
    <3>1. k + 1 \in 1..Len(t) /\ t[k + 1] = s[(k + 1) - 1] /\ (k + 1) - 1 = k
      BY <1>1, <1>2, <1>3, <2>2
    <3> QED BY <3>1
  <2> QED BY <2>1, <2>2
<1>6. i \in 1..Len(t) /\ t[i] = x
  BY <1>1, <1>2, <1>3
<1>7. Added(X, s, x, t)
  BY <1>1, <1>4, <1>5, <1>6 DEF Added
<1> QED BY <1>7 DEF t

\* s ranks the first k findings of F.
Ranks(X, F, s, k) ==
  /\ s \in Seq(X) /\ Len(s) = k /\ GoesDown(s)
  /\ \A j \in 1..k : \E i \in 1..k : s[j] = F[i]
  /\ \A i \in 1..k : \E j \in 1..k : s[j] = F[i]

\* One more finding is ranked with the others.
LEMMA OneMoreRanked ==
  ASSUME NEW X, \A x \in X : x.confidence \in Nat, NEW F, NEW s, NEW k \in Nat, Ranks(X, F, s, k),
         F[k + 1] \in X, \A i \in 1..k : F[i].confidence # F[k + 1].confidence
  PROVE  Ranks(X, F, Insert(s, F[k + 1]), k + 1)
<1> DEFINE x == F[k + 1]
           t == Insert(s, x)
<1>1. s \in Seq(X) /\ Len(s) = k /\ GoesDown(s) /\ x \in X
  BY DEF Ranks
<1>2. \A j \in 1..k : \E i \in 1..k : s[j] = F[i]
  BY DEF Ranks
<1>3. \A i \in 1..k : \E j \in 1..k : s[j] = F[i]
  BY DEF Ranks
<1>4. \A j \in 1..Len(s) : s[j].confidence # x.confidence
  BY <1>1, <1>2
<1>5. x = F[k + 1]
  OBVIOUS
<1>6. Insert(s, F[k + 1]) = t
  OBVIOUS
<1> HIDE DEF x
<1>7. /\ t \in Seq(X) /\ Len(t) = Len(s) + 1 /\ GoesDown(t)
      /\ \A j \in 1..Len(t) : t[j] = x \/ \E i \in 1..Len(s) : t[j] = s[i]
      /\ \A i \in 1..Len(s) : \E j \in 1..Len(t) : t[j] = s[i]
      /\ \E j \in 1..Len(t) : t[j] = x
  <2>1. Added(X, s, x, Insert(s, x))
    <3> HIDE DEF t
    <3> QED BY <1>1, <1>4, InsertAdds
  <2>2. Added(X, s, x, t)
    BY <2>1
  <2> HIDE DEF t
  <2> QED BY <2>2 DEF Added
<1> HIDE DEF t
<1>8. /\ Len(t) = k + 1 /\ k + 1 \in 1..(k + 1)
      /\ \A i \in 1..k : i \in 1..(k + 1)
      /\ \A i \in 1..(k + 1) : i \in 1..k \/ i = k + 1
  BY <1>1, <1>7
<1>9. ASSUME NEW j \in 1..(k + 1)
      PROVE  \E i \in 1..(k + 1) : t[j] = F[i]
  <2>1. CASE t[j] = x
    BY <1>5, <1>8, <2>1
  <2>2. CASE \E m \in 1..k : t[j] = s[m]
    <3>1. PICK m \in 1..k : t[j] = s[m]
      BY <2>2
    <3>2. PICK i \in 1..k : s[m] = F[i]
      BY <1>2
    <3> QED BY <1>8, <3>1, <3>2
  <2>3. t[j] = x \/ \E m \in 1..k : t[j] = s[m]
    BY <1>1, <1>7, <1>8
  <2> QED BY <2>1, <2>2, <2>3
<1>10. ASSUME NEW i \in 1..(k + 1)
       PROVE  \E j \in 1..(k + 1) : t[j] = F[i]
  <2>1. CASE i = k + 1
    BY <1>5, <1>7, <1>8, <2>1
  <2>2. CASE i \in 1..k
    <3>1. PICK m \in 1..k : s[m] = F[i]
      BY <1>3, <2>2
    <3>2. \E j \in 1..(k + 1) : t[j] = s[m]
      BY <1>1, <1>7, <1>8
    <3> QED BY <3>1, <3>2
  <2> QED BY <1>8, <2>1, <2>2
<1> QED BY <1>6, <1>7, <1>8, <1>9, <1>10 DEF Ranks

\* A has the findings F in their order.
InOrder(X, F, A) ==
  A \in Seq(X) /\ Len(A) = Len(F) /\ GoesDown(A) /\ ToSet(A) = ToSet(F)

\* Findings of which no two are as sure are put in order, and none is lost.
LEMMA FoldRanks ==
  ASSUME NEW X, \A x \in X : x.confidence \in Nat, NEW F \in Seq(X),
         \A i, j \in 1..Len(F) : i # j => F[i].confidence # F[j].confidence
  PROVE  InOrder(X, F, FoldLeft(Insert, <<>>, F))
<1> DEFINE n == Len(F)
           A == FoldLeft(Insert, <<>>, F)
<1>1. n \in Nat /\ DOMAIN F = 1..n /\ \A k \in 1..n : F[k] \in X
  OBVIOUS
<1>2. PICK h : /\ h[0] = <<>>
               /\ \A k \in 0..(n - 1) : h[k + 1] = Insert(h[k], F[k + 1])
               /\ h[n] = A
  <2> HIDE DEF n
  <2> QED BY <1>1, FoldInserts
<1>3. \A i, j \in 1..n : i # j => F[i].confidence # F[j].confidence
  OBVIOUS
<1> HIDE DEF A, n
<1> DEFINE Have == { k \in Nat : k <= n => Ranks(X, F, h[k], k) }
<1>4. 0 \in Have
  <2>1. h[0] \in Seq(X) /\ Len(h[0]) = 0 /\ 1..0 = {}
    BY <1>2
  <2> QED BY <2>1 DEF Ranks, GoesDown
<1>5. ASSUME NEW k \in Nat, k \in Have
      PROVE  k + 1 \in Have
  <2>1. SUFFICES ASSUME k + 1 <= n PROVE Ranks(X, F, h[k + 1], k + 1)
    OBVIOUS
  <2>2. /\ Ranks(X, F, h[k], k) /\ h[k + 1] = Insert(h[k], F[k + 1]) /\ F[k + 1] \in X
        /\ \A i \in 1..k : F[i].confidence # F[k + 1].confidence
    <3>1. k \in 0..(n - 1) /\ k <= n /\ k + 1 \in 1..n /\ \A i \in 1..k : i \in 1..n /\ i # k + 1
      BY <1>1, <2>1
    <3> QED BY <1>1, <1>2, <1>3, <1>5, <3>1
  <2> HIDE DEF Have
  <2>3. Ranks(X, F, Insert(h[k], F[k + 1]), k + 1)
    BY <2>2, OneMoreRanked
  <2> QED BY <2>2, <2>3
<1>6. n \in Have
  <2> HIDE DEF Have
  <2> QED BY <1>1, <1>4, <1>5, EveryNumber
<1>7. Ranks(X, F, A, n)
  BY <1>1, <1>2, <1>6
<1>8. DOMAIN A = 1..n /\ A \in Seq(X) /\ Len(A) = n /\ GoesDown(A)
  BY <1>7 DEF Ranks
<1>9. ToSet(A) = ToSet(F)
  <2>1. /\ \A j \in 1..n : \E i \in 1..n : A[j] = F[i]
        /\ \A i \in 1..n : \E j \in 1..n : A[j] = F[i]
    BY <1>7 DEF Ranks
  <2>2. ToSet(A) = { A[j] : j \in 1..n } /\ ToSet(F) = { F[i] : i \in 1..n }
    BY <1>1, <1>8 DEF ToSet
  <2> HIDE DEF Have
  <2>3. \A f \in ToSet(A) : f \in ToSet(F)
    BY <2>1, <2>2
  <2>4. ASSUME NEW f \in ToSet(F)
        PROVE  f \in ToSet(A)
    <3>1. PICK i \in 1..n : f = F[i]
      BY <2>2
    <3>2. PICK j \in 1..n : A[j] = F[i]
      BY <2>1
    <3>3. A[j] \in ToSet(A)
      BY <2>2
    <3> QED BY <3>1, <3>2, <3>3
  <2> QED BY <2>3, <2>4
<1>10. InOrder(X, F, A)
  BY <1>8, <1>9 DEF n, InOrder
<1> QED BY <1>10 DEF A

-----------------------------------------------------------------------------
\* The rule whose findings are as sure as that.
IdOf(confidence) ==
  CASE confidence = 78 -> "trim.idle_lean_unmetered_air"
    [] confidence = 72 -> "trim.cruise_lean_fuel_or_maf"
    [] confidence = 70 -> "trim.rich_bias"
    [] confidence = 68 -> "maf.low_vs_rpm"
    [] confidence = 60 -> "maf.high_vs_rpm"
    [] confidence = 55 -> "o2.rear_tracks_front"
    [] confidence = 74 -> "ff.condition_mismatch"
    [] confidence = 80 -> "misfire.single_cylinder"
    [] confidence = 66 -> "misfire.with_lean_trims"
    [] confidence = 62 -> "link.fragile"
    [] confidence = 76 -> "power.low_module_voltage"
    [] OTHER -> "fleet.cooccurrence"

\* How sure the rules are.
Sure == {78, 72, 70, 68, 60, 55, 74, 80, 66, 62, 76, 58}

\* Each rule with its confidence.
LEMMA RulesAre ==
  /\ 78 \in Sure /\ IdOf(78) = "trim.idle_lean_unmetered_air"
  /\ 72 \in Sure /\ IdOf(72) = "trim.cruise_lean_fuel_or_maf"
  /\ 70 \in Sure /\ IdOf(70) = "trim.rich_bias"
  /\ 68 \in Sure /\ IdOf(68) = "maf.low_vs_rpm"
  /\ 60 \in Sure /\ IdOf(60) = "maf.high_vs_rpm"
  /\ 55 \in Sure /\ IdOf(55) = "o2.rear_tracks_front"
  /\ 74 \in Sure /\ IdOf(74) = "ff.condition_mismatch"
  /\ 80 \in Sure /\ IdOf(80) = "misfire.single_cylinder"
  /\ 66 \in Sure /\ IdOf(66) = "misfire.with_lean_trims"
  /\ 62 \in Sure /\ IdOf(62) = "link.fragile"
  /\ 76 \in Sure /\ IdOf(76) = "power.low_module_voltage"
  /\ 58 \in Sure /\ IdOf(58) = "fleet.cooccurrence"
BY DEF Sure, IdOf

\* A sequence of findings as sure as C says, each of its own rule.
Within(s, C) ==
  /\ \E X : s \in Seq(X)
  /\ \A i \in 1..Len(s) :
       s[i].confidence \in C /\ s[i] = Finding(IdOf(s[i].confidence), s[i].confidence, s[i].evidence)
  /\ \A i, j \in 1..Len(s) : i # j => s[i].confidence # s[j].confidence

\* A rule that found nothing.
LEMMA NothingWithin ==
  ASSUME NEW C
  PROVE  Within(<<>>, C)
<1>1. <<>> \in Seq({}) /\ Len(<<>>) = 0
  OBVIOUS
<1> QED BY <1>1 DEF Within

\* The rule found one thing or nothing.
Single(s, id, c) == \E e : s = <<>> \/ s = <<Finding(id, c, e)>>

\* A rule that found one thing at most is within its confidence.
LEMMA OneWithin ==
  ASSUME NEW id, NEW c \in Sure, id = IdOf(c), NEW s, Single(s, id, c)
  PROVE  Within(s, {c})
<1>0. PICK e : s = <<>> \/ s = <<Finding(id, c, e)>>
  BY DEF Single
<1>1. CASE s = <<>>
  BY <1>1, NothingWithin
<1>2. CASE s = <<Finding(id, c, e)>>
  <2> DEFINE f == Finding(id, c, e)
  <2>1. f.confidence = c /\ f.id = id /\ f.evidence = e
    BY DEF Finding
  <2>2. f = Finding(IdOf(f.confidence), f.confidence, f.evidence)
    BY <2>1
  <2> HIDE DEF f
  <2>3. s \in Seq({f}) /\ Len(s) = 1 /\ s[1] = f
    BY <1>2 DEF f
  <2> QED BY <2>1, <2>2, <2>3 DEF Within
<1> QED BY <1>0, <1>1, <1>2

\* What two rules of different confidence found.
LEMMA BothWithin ==
  ASSUME NEW s, NEW t, NEW C, NEW D, Within(s, C), Within(t, D), C \cap D = {}
  PROVE  Within(s \o t, C \cup D)
<1>1. PICK X : s \in Seq(X)
  BY DEF Within
<1>2. PICK Y : t \in Seq(Y)
  BY DEF Within
<1> DEFINE Z == X \cup Y
           u == s \o t
<1>3. s \in Seq(Z) /\ t \in Seq(Z) /\ Len(s) \in Nat /\ Len(t) \in Nat
  BY <1>1, <1>2
<1> HIDE DEF Z, u
<1>4. /\ u \in Seq(Z) /\ Len(u) = Len(s) + Len(t)
      /\ \A k \in 1..(Len(s) + Len(t)) : u[k] = IF k <= Len(s) THEN s[k] ELSE t[k - Len(s)]
  BY <1>3, ConcatProperties, Zenon DEF u
<1>5. ASSUME NEW k \in 1..Len(u)
      PROVE  \/ k \in 1..Len(s) /\ u[k] = s[k] /\ u[k].confidence \in C
             \/ k - Len(s) \in 1..Len(t) /\ u[k] = t[k - Len(s)] /\ u[k].confidence \in D
  BY <1>3, <1>4 DEF Within
<1>6. ASSUME NEW k \in 1..Len(u)
      PROVE  /\ u[k].confidence \in C \cup D
             /\ u[k] = Finding(IdOf(u[k].confidence), u[k].confidence, u[k].evidence)
  BY <1>5 DEF Within
<1>7. ASSUME NEW i \in 1..Len(u), NEW j \in 1..Len(u), i # j
      PROVE  u[i].confidence # u[j].confidence
  <2>1. CASE i \in 1..Len(s) /\ u[i] = s[i] /\ j \in 1..Len(s) /\ u[j] = s[j]
    BY <1>7, <2>1 DEF Within
  <2>2. CASE /\ i - Len(s) \in 1..Len(t) /\ u[i] = t[i - Len(s)]
             /\ j - Len(s) \in 1..Len(t) /\ u[j] = t[j - Len(s)]
    <3>1. i - Len(s) # j - Len(s)
      BY <1>3, <1>4, <1>7
    <3> QED BY <2>2, <3>1 DEF Within
  <2>3. CASE u[i].confidence \in C /\ u[j].confidence \in D
    BY <2>3
  <2>4. CASE u[i].confidence \in D /\ u[j].confidence \in C
    BY <2>4
  <2> QED BY <1>5, <2>1, <2>2, <2>3, <2>4
<1>8. Within(u, C \cup D)
  BY <1>4, <1>6, <1>7 DEF Within
<1> QED BY <1>8 DEF u

\* The rules find what is theirs, whatever the input.
LEMMA TrimWithin ==
  ASSUME NEW in
  PROVE  Within(TrimIdleVsCruise(in), {78, 72, 70})
<1>1. CASE ~Given(in, {"st", "lt"})
  <2>1. TrimIdleVsCruise(in) = <<>>
    BY <1>1 DEF TrimIdleVsCruise
  <2> QED BY <2>1, NothingWithin
<1>2. CASE Given(in, {"st", "lt"})
  <2> DEFINE sample == in.obs.live
             trims == <<sample.st, sample.lt>>
             atRpm == Append(trims, OrZero(sample.rpm))
             e == <<atRpm, <<>>>>
             f == <<atRpm>>
             g == <<trims>>
             a == If(About(in, LeanCodes) /\ Idle(sample) /\ sample.st > 12 /\ sample.lt > 10,
                     Finding("trim.idle_lean_unmetered_air", 78, e))
             b == If(About(in, LeanCodes) /\ ~Idle(sample) /\ OrZero(sample.rpm) > 1800
                       /\ sample.st > 10 /\ sample.lt > 10,
                     Finding("trim.cruise_lean_fuel_or_maf", 72, f))
             c == If(About(in, {172}) /\ sample.st < -12 /\ sample.lt < -8,
                     Finding("trim.rich_bias", 70, g))
  <2>1. /\ TrimIdleVsCruise(in) = a \o b \o c
        /\ Single(a, "trim.idle_lean_unmetered_air", 78)
        /\ Single(b, "trim.cruise_lean_fuel_or_maf", 72)
        /\ Single(c, "trim.rich_bias", 70)
    <3>1. Single(a, "trim.idle_lean_unmetered_air", 78)
      BY DEF If, Single
    <3>2. Single(b, "trim.cruise_lean_fuel_or_maf", 72)
      BY DEF If, Single
    <3>3. Single(c, "trim.rich_bias", 70)
      BY DEF If, Single
    <3>4. TrimIdleVsCruise(in) = a \o b \o c
      BY <1>2 DEF TrimIdleVsCruise
    <3> HIDE DEF a, b, c
    <3> QED BY <3>1, <3>2, <3>3, <3>4
  <2> HIDE DEF a, b, c, e, f, g
  <2>2. Within(a, {78}) /\ Within(b, {72}) /\ Within(c, {70})
    BY <2>1, RulesAre, OneWithin
  <2>3. Within(a \o b, {78} \cup {72})
    BY <2>2, BothWithin
  <2>4. Within((a \o b) \o c, ({78} \cup {72}) \cup {70})
    BY <2>2, <2>3, BothWithin
  <2>5. ({78} \cup {72}) \cup {70} = {78, 72, 70}
    OBVIOUS
  <2> QED BY <2>1, <2>4, <2>5
<1> QED BY <1>1, <1>2

\* The rule of the air mass: its two findings have a confidence each.
LEMMA MafWithin ==
  ASSUME NEW in
  PROVE  Within(MafPlausibility(in), {68, 60})
<1>1. CASE ~Given(in, {"maf", "rpm"}) \/ in.obs.live.rpm < 600
  <2>1. MafPlausibility(in) = <<>>
    BY <1>1 DEF MafPlausibility
  <2> QED BY <2>1, NothingWithin
<1>2. CASE ~(~Given(in, {"maf", "rpm"}) \/ in.obs.live.rpm < 600)
  <2> DEFINE sample == in.obs.live
             idle == IF OrZero(sample.load) > 40 THEN 80 ELSE 35
             leanish == Has(in, LeanCodes) \/ in.focus = 171
             e == <<<<sample.maf, sample.rpm>>>>
             a == If(leanish /\ 80000 * sample.maf < 55 * idle * sample.rpm,
                     Finding("maf.low_vs_rpm", 68, e))
             b == If(leanish /\ 8000 * sample.maf > 18 * idle * sample.rpm,
                     Finding("maf.high_vs_rpm", 60, e))
  <2>1. /\ MafPlausibility(in) = a \o b
        /\ Single(a, "maf.low_vs_rpm", 68)
        /\ Single(b, "maf.high_vs_rpm", 60)
    <3>1. Single(a, "maf.low_vs_rpm", 68)
      BY DEF If, Single
    <3>2. Single(b, "maf.high_vs_rpm", 60)
      BY DEF If, Single
    <3>3. MafPlausibility(in) = a \o b
      <4>1. MafPlausibility(in) =
              IF ~Given(in, {"maf", "rpm"}) \/ in.obs.live.rpm < 600 THEN <<>> ELSE a \o b
        BY DEF MafPlausibility
      <4> HIDE DEF a, b
      <4> QED BY <1>2, <4>1, Zenon
    <3> HIDE DEF a, b
    <3> QED BY <3>1, <3>2, <3>3
  <2> HIDE DEF a, b, e
  <2>2. Within(a, {68}) /\ Within(b, {60})
    BY <2>1, RulesAre, OneWithin
  <2>3. Within(a \o b, {68} \cup {60})
    BY <2>2, BothWithin
  <2>4. {68} \cup {60} = {68, 60}
    OBVIOUS
  <2> QED BY <2>1, <2>3, <2>4
<1> QED BY <1>1, <1>2

\* The rule of the misfires: its two findings have a confidence each.
LEMMA MisfireWithin ==
  ASSUME NEW in
  PROVE  Within(MisfireFingerprint(in), {80, 66})
<1>1. CASE ~About(in, {300})
  <2>1. MisfireFingerprint(in) = <<>>
    BY <1>1 DEF MisfireFingerprint
  <2> QED BY <2>1, NothingWithin
<1>2. CASE About(in, {300})
  <2>1. PICK a, b :
          /\ MisfireFingerprint(in) = a \o b
          /\ Single(a, "misfire.single_cylinder", 80)
          /\ Single(b, "misfire.with_lean_trims", 66)
    BY <1>2, Zenon DEF MisfireFingerprint, If, Single
  <2>2. Within(a, {80}) /\ Within(b, {66})
    BY <2>1, RulesAre, OneWithin
  <2>3. Within(a \o b, {80} \cup {66})
    BY <2>2, BothWithin
  <2>4. {80} \cup {66} = {80, 66}
    OBVIOUS
  <2> QED BY <2>1, <2>3, <2>4
<1> QED BY <1>1, <1>2

\* The five rules with one finding.
LEMMA OthersWithin ==
  ASSUME NEW in
  PROVE  /\ Within(O2CatalystProxy(in), {55})
         /\ Within(FreezeFrameMismatch(in), {74})
         /\ Within(LinkFragility(in), {62})
         /\ Within(ModuleVoltage(in), {76})
         /\ Within(CoOccurrenceFindings(in), {58})
<1>1. Single(O2CatalystProxy(in), "o2.rear_tracks_front", 55)
  BY Zenon DEF O2CatalystProxy, If, Single
<1>2. Single(FreezeFrameMismatch(in), "ff.condition_mismatch", 74)
  BY ZenonT(60) DEF FreezeFrameMismatch, If, Single
<1>3. Single(LinkFragility(in), "link.fragile", 62)
  BY Zenon DEF LinkFragility, If, Single
<1>4. Single(ModuleVoltage(in), "power.low_module_voltage", 76)
  BY Zenon DEF ModuleVoltage, If, Single
<1>5. Single(CoOccurrenceFindings(in), "fleet.cooccurrence", 58)
  BY Zenon DEF CoOccurrenceFindings, If, Single
<1>6. Within(O2CatalystProxy(in), {55})
  BY <1>1, RulesAre, OneWithin
<1>7. Within(FreezeFrameMismatch(in), {74})
  BY <1>2, RulesAre, OneWithin
<1>8. Within(LinkFragility(in), {62})
  BY <1>3, RulesAre, OneWithin
<1>9. Within(ModuleVoltage(in), {76})
  BY <1>4, RulesAre, OneWithin
<1>10. Within(CoOccurrenceFindings(in), {58})
  BY <1>5, RulesAre, OneWithin
<1> QED BY <1>6, <1>7, <1>8, <1>9, <1>10

\* All findings of an input: a rule finds one thing at most, and no two are as sure.
LEMMA FindingsWithin ==
  ASSUME NEW in
  PROVE  Within(Findings(in), Sure)
<1> DEFINE a == TrimIdleVsCruise(in)
           b == MafPlausibility(in)
           c == O2CatalystProxy(in)
           d == FreezeFrameMismatch(in)
           e == MisfireFingerprint(in)
           f == LinkFragility(in)
           g == ModuleVoltage(in)
           h == CoOccurrenceFindings(in)
<1>1. /\ Within(a, {78, 72, 70}) /\ Within(b, {68, 60}) /\ Within(c, {55}) /\ Within(d, {74})
      /\ Within(e, {80, 66}) /\ Within(f, {62}) /\ Within(g, {76}) /\ Within(h, {58})
  BY TrimWithin, MafWithin, MisfireWithin, OthersWithin
<1>2. Findings(in) = a \o b \o c \o d \o e \o f \o g \o h
  BY DEF Findings
<1> HIDE DEF a, b, c, d, e, f, g, h
<1>3. Within(a \o b, {78, 72, 70} \cup {68, 60})
  BY <1>1, BothWithin
<1>4. {78, 72, 70} \cup {68, 60} = {78, 72, 70, 68, 60}
  OBVIOUS
<1>5. Within(a \o b \o c, {78, 72, 70, 68, 60} \cup {55})
  BY <1>1, <1>3, <1>4, BothWithin
<1>6. {78, 72, 70, 68, 60} \cup {55} = {78, 72, 70, 68, 60, 55}
  OBVIOUS
<1>7. Within(a \o b \o c \o d, {78, 72, 70, 68, 60, 55} \cup {74})
  BY <1>1, <1>5, <1>6, BothWithin
<1>8. {78, 72, 70, 68, 60, 55} \cup {74} = {78, 72, 70, 68, 60, 55, 74}
  OBVIOUS
<1>9. Within(a \o b \o c \o d \o e, {78, 72, 70, 68, 60, 55, 74} \cup {80, 66})
  BY <1>1, <1>7, <1>8, BothWithin
<1>10. {78, 72, 70, 68, 60, 55, 74} \cup {80, 66} = {78, 72, 70, 68, 60, 55, 74, 80, 66}
  OBVIOUS
<1>11. Within(a \o b \o c \o d \o e \o f, {78, 72, 70, 68, 60, 55, 74, 80, 66} \cup {62})
  BY <1>1, <1>9, <1>10, BothWithin
<1>12. {78, 72, 70, 68, 60, 55, 74, 80, 66} \cup {62} = {78, 72, 70, 68, 60, 55, 74, 80, 66, 62}
  OBVIOUS
<1>13. Within(a \o b \o c \o d \o e \o f \o g,
              {78, 72, 70, 68, 60, 55, 74, 80, 66, 62} \cup {76})
  BY <1>1, <1>11, <1>12, BothWithin
<1>14. {78, 72, 70, 68, 60, 55, 74, 80, 66, 62} \cup {76}
         = {78, 72, 70, 68, 60, 55, 74, 80, 66, 62, 76}
  OBVIOUS
<1>15. Within(a \o b \o c \o d \o e \o f \o g \o h,
              {78, 72, 70, 68, 60, 55, 74, 80, 66, 62, 76} \cup {58})
  BY <1>1, <1>13, <1>14, BothWithin
<1>16. {78, 72, 70, 68, 60, 55, 74, 80, 66, 62, 76} \cup {58} = Sure
  BY DEF Sure
<1> QED BY <1>2, <1>15, <1>16

-----------------------------------------------------------------------------
\* The first m of a ranking are m.
LEMMA FirstAre ==
  ASSUME NEW X, \A x \in X : x.confidence \in Nat, NEW A \in Seq(X), GoesDown(A)
  PROVE  \A m \in 0..Len(A) : LET S == { A[j] : j \in 1..m } IN
           IsFiniteSet(S) /\ Cardinality(S) = m
<1> DEFINE S(m) == { A[j] : j \in 1..m }
           Have == { m \in Nat : m <= Len(A) => IsFiniteSet(S(m)) /\ Cardinality(S(m)) = m }
<1>1. 0 \in Have
  <2>1. S(0) = {}
    OBVIOUS
  <2> HIDE DEF S
  <2> QED BY <2>1, FS_EmptySet
<1>2. ASSUME NEW m \in Nat, m \in Have
      PROVE  m + 1 \in Have
  <2>1. SUFFICES ASSUME m + 1 <= Len(A)
                 PROVE  IsFiniteSet(S(m + 1)) /\ Cardinality(S(m + 1)) = m + 1
    OBVIOUS
  <2>2. IsFiniteSet(S(m)) /\ Cardinality(S(m)) = m
    BY <1>2, <2>1
  <2>3. A[m + 1] \notin S(m)
    <3>1. SUFFICES ASSUME NEW j \in 1..m, A[j] = A[m + 1] PROVE FALSE
      OBVIOUS
    <3>2. j \in 1..Len(A) /\ m + 1 \in 1..Len(A) /\ j < m + 1
      BY <2>1
    <3>3. A[j].confidence > A[m + 1].confidence
      BY <3>2 DEF GoesDown
    <3>4. A[m + 1].confidence \in Nat
      BY <3>2
    <3> QED BY <3>1, <3>3, <3>4
  <2>4. S(m + 1) = S(m) \cup {A[m + 1]}
    <3>1. 1..(m + 1) = 1..m \cup {m + 1}
      OBVIOUS
    <3> QED BY <3>1
  <2> HIDE DEF S
  <2> QED BY <2>2, <2>3, <2>4, FS_AddElement
<1>3. Nat \subseteq Have
  <2> HIDE DEF Have
  <2> QED BY <1>1, <1>2, EveryNumber
<1>4. ASSUME NEW m \in 0..Len(A)
      PROVE  IsFiniteSet(S(m)) /\ Cardinality(S(m)) = m
  BY <1>3
<1> QED BY <1>4

\* Those above the i-th of a ranking are the i - 1 before it.
LEMMA AboveAre ==
  ASSUME NEW X, \A x \in X : x.confidence \in Nat, NEW A \in Seq(X), GoesDown(A),
         NEW i \in 1..Len(A)
  PROVE  Cardinality({ f \in ToSet(A) : f.confidence > A[i].confidence }) = i - 1
<1>1. ToSet(A) = { A[j] : j \in 1..Len(A) }
  BY DEF ToSet
<1>2. \A j \in 1..Len(A) : A[j].confidence \in Nat
  OBVIOUS
<1>3. \A j \in 1..Len(A) : A[j].confidence > A[i].confidence <=> j < i
  BY <1>2 DEF GoesDown
<1> DEFINE S == { A[j] : j \in 1..(i - 1) }
           T == { f \in ToSet(A) : f.confidence > A[i].confidence }
<1>4. ASSUME NEW f \in T
      PROVE  f \in S
  <2>1. PICK j \in 1..Len(A) : f = A[j]
    BY <1>1
  <2>2. j < i
    BY <1>3, <2>1
  <2> QED BY <2>1, <2>2
<1>5. ASSUME NEW f \in S
      PROVE  f \in T
  <2>1. PICK j \in 1..(i - 1) : f = A[j]
    OBVIOUS
  <2>2. j \in 1..Len(A) /\ A[j].confidence > A[i].confidence
    BY <1>3
  <2> QED BY <1>1, <2>1, <2>2
<1>6. T = S
  BY <1>4, <1>5
<1>7. i - 1 \in 0..Len(A)
  OBVIOUS
<1>8. Cardinality(S) = i - 1
  BY <1>7, FirstAre
<1> QED BY <1>6, <1>8

\* The findings of the analysis are all there are, in the order of their confidence.
Analysed(X, in) ==
  /\ \A x \in X : /\ x.confidence \in Nat /\ x.confidence < 85
                  /\ x = Finding(x.id, x.confidence, x.evidence)
  /\ \A x, y \in X : x.id = y.id => x.confidence = y.confidence
  /\ InOrder(X, Findings(in), Analyze(in))
  /\ X = ToSet(Findings(in))

\* Analyze gives every finding of every input, in order.
LEMMA AnalysisIs ==
  ASSUME NEW in
  PROVE  \E X : Analysed(X, in)
<1> DEFINE F == Findings(in)
           X == ToSet(F)
<1>1. Within(F, Sure)
  BY FindingsWithin
<1>2. Analyze(in) = FoldLeft(Insert, <<>>, F)
  BY DEF Analyze
<1> HIDE DEF F
<1>3. PICK Y : F \in Seq(Y)
  BY <1>1 DEF Within
<1>4. F \in Seq(X) /\ X = { F[i] : i \in 1..Len(F) }
  BY <1>3 DEF ToSet
<1>5. \A i, j \in 1..Len(F) : i # j => F[i].confidence # F[j].confidence
  BY <1>1 DEF Within
<1>6. \A i \in 1..Len(F) :
        /\ F[i].confidence \in Sure
        /\ F[i] = Finding(IdOf(F[i].confidence), F[i].confidence, F[i].evidence)
  BY <1>1 DEF Within
<1> HIDE DEF X
<1>7. \A x \in X : /\ x.confidence \in Sure
                   /\ x = Finding(IdOf(x.confidence), x.confidence, x.evidence)
  BY <1>4, <1>6
<1>8. \A x \in X : x.id = IdOf(x.confidence)
  BY <1>7 DEF Finding
<1>9. \A c \in Sure : c \in Nat /\ c < 85
  BY DEF Sure
<1>10. \A c, d \in Sure : IdOf(c) = IdOf(d) => c = d
  BY DEF Sure, IdOf
<1>11. InOrder(X, F, FoldLeft(Insert, <<>>, F))
  BY <1>4, <1>5, <1>7, <1>9, FoldRanks
<1>12. \A x \in X : x = Finding(x.id, x.confidence, x.evidence)
  BY <1>7, <1>8
<1>13. Analysed(X, in)
  BY <1>2, <1>7, <1>8, <1>9, <1>10, <1>11, <1>12 DEF Analysed, F, X
<1> QED BY <1>13

\* What is kept of the analysis A: its first three.
Kept(A, kept) ==
  /\ kept \in Seq({ kept[i] : i \in DOMAIN kept })
  /\ Len(kept) = IF Len(A) <= 3 THEN Len(A) ELSE 3
  /\ \A i \in 1..Len(kept) : kept[i].id = A[i].id /\ kept[i].confidence = A[i].confidence

\* BuildPacket shortens the evidence of a finding and no more.
LEMMA Shortened ==
  ASSUME NEW f, f = Finding(f.id, f.confidence, f.evidence), NEW e
  PROVE  LET g == [f EXCEPT !.evidence = e] IN g.id = f.id /\ g.confidence = f.confidence
BY DEF Finding

\* BuildPacket keeps the first three of the analysis.
LEMMA PacketKeeps ==
  ASSUME NEW X, NEW in, Analysed(X, in)
  PROVE  Kept(Analyze(in), BuildPacket(in).findings)
<1> DEFINE A == Analyze(in)
           top == Top(A, 3)
           kept == [i \in DOMAIN top |-> [top[i] EXCEPT !.evidence = Top(top[i].evidence, 2)]]
<1>1. A \in Seq(X) /\ Len(A) \in Nat
  BY DEF Analysed, InOrder
<1>2. BuildPacket(in).findings = kept
  BY DEF BuildPacket
<1> HIDE DEF A
<1>3. /\ top \in Seq(X) /\ Len(top) = IF Len(A) <= 3 THEN Len(A) ELSE 3
      /\ \A i \in 1..Len(top) : top[i] = A[i]
  <2>1. CASE Len(A) <= 3
    BY <1>1, <2>1 DEF Top
  <2>2. CASE ~(Len(A) <= 3)
    <3>1. top = SubSeq(A, 1, 3)
      BY <2>2 DEF Top
    <3> HIDE DEF top
    <3> QED BY <1>1, <2>2, <3>1
  <2> QED BY <2>1, <2>2
<1> HIDE DEF top
<1>4. DOMAIN top = 1..Len(top) /\ Len(top) \in Nat
  <2>1. top \in Seq(X)
    BY <1>3
  <2> HIDE DEF kept
  <2> QED BY <2>1
<1>5. ASSUME NEW i \in 1..Len(top)
      PROVE  kept[i].id = A[i].id /\ kept[i].confidence = A[i].confidence
  <2>1. top[i] = A[i] /\ top[i] \in X
    BY <1>3
  <2>2. top[i] = Finding(top[i].id, top[i].confidence, top[i].evidence)
    BY <2>1 DEF Analysed
  <2>3. kept[i] = [top[i] EXCEPT !.evidence = Top(top[i].evidence, 2)]
    BY <1>4
  <2> QED BY <2>1, <2>2, <2>3, Shortened
<1> DEFINE Y == { kept[i] : i \in DOMAIN kept }
<1>6. kept \in Seq(Y) /\ Len(kept) = Len(top)
  <2>1. DOMAIN kept = 1..Len(top) /\ \A i \in 1..Len(top) : kept[i] \in Y
    BY <1>4
  <2>2. kept = [i \in 1..Len(top) |-> kept[i]]
    BY <1>4
  <2> HIDE DEF kept, Y
  <2> QED BY <1>4, <2>1, <2>2
<1>7. Kept(A, kept)
  <2> HIDE DEF kept
  <2> QED BY <1>3, <1>5, <1>6 DEF Kept
<1> QED BY <1>2, <1>7 DEF A

\* So it keeps the strongest findings of all the rules, each at its rank.
LEMMA PacketKeepsStrongest ==
  ASSUME NEW in
  PROVE  KeepsStrongest(in, BuildPacket(in).findings)
<1>1. PICK all : Analysed(all, in)
  BY AnalysisIs
<1> DEFINE A == Analyze(in)
           kept == BuildPacket(in).findings
           of(i) == CHOOSE f \in all : f.id = kept[i].id
<1>2. Kept(A, kept)
  BY <1>1, PacketKeeps
<1>3. /\ \A x \in all : x.confidence \in Nat
      /\ \A x, y \in all : x.id = y.id => x.confidence = y.confidence
      /\ all = ToSet(Findings(in))
      /\ A \in Seq(all) /\ Len(A) = Len(Findings(in)) /\ GoesDown(A) /\ ToSet(A) = all
  BY <1>1 DEF Analysed, InOrder
<1> HIDE DEF A, kept
<1>4. /\ DOMAIN kept = 1..Len(kept) /\ Len(kept) \in Nat
      /\ Len(kept) = IF Len(A) <= 3 THEN Len(A) ELSE 3
      /\ Len(A) \in Nat /\ \A i \in DOMAIN kept : i \in 1..Len(A) /\ A[i] \in all
  <2> HIDE DEF of
  <2>1. Len(A) \in Nat /\ \A i \in 1..Len(A) : A[i] \in all
    <3>1. A \in Seq(all)
      BY <1>3
    <3> QED BY <3>1
  <2>2. DOMAIN kept = 1..Len(kept) /\ Len(kept) \in Nat
    <3> DEFINE Y == { kept[i] : i \in DOMAIN kept }
    <3>1. kept \in Seq(Y)
      BY <1>2 DEF Kept
    <3> HIDE DEF Y
    <3> QED BY <3>1
  <2>3. Len(kept) = IF Len(A) <= 3 THEN Len(A) ELSE 3
    BY <1>2 DEF Kept
  <2> QED BY <2>1, <2>2, <2>3
<1>5. ASSUME NEW i \in DOMAIN kept
      PROVE  /\ \E f \in all : f.id = kept[i].id
             /\ Cardinality({ f \in all : f.confidence > of(i).confidence }) = i - 1
  <2>1. A[i] \in all /\ kept[i].id = A[i].id /\ i \in 1..Len(A)
    BY <1>2, <1>4 DEF Kept
  <2>2. of(i) \in all /\ of(i).id = kept[i].id
    BY <2>1
  <2>3. of(i).confidence = A[i].confidence
    BY <1>3, <2>1, <2>2
  <2>4. Cardinality({ f \in ToSet(A) : f.confidence > A[i].confidence }) = i - 1
    BY <1>3, <2>1, AboveAre
  <2> QED BY <1>3, <2>1, <2>3, <2>4
<1>6. Len(kept) = 3 \/ Len(kept) = Cardinality(all)
  <2>1. all = { A[j] : j \in 1..Len(A) }
    <3>1. A \in Seq(all) /\ all = ToSet(A)
      BY <1>3
    <3>2. DOMAIN A = 1..Len(A)
      BY <3>1
    <3> QED BY <3>1, <3>2, Zenon DEF ToSet
  <2>2. Cardinality(all) = Len(A)
    <3>1. Len(A) \in 0..Len(A)
      BY <1>4
    <3>2. \A x \in all : x.confidence \in Nat
      BY <1>3
    <3>3. A \in Seq(all) /\ GoesDown(A)
      BY <1>3
    <3>4. \A m \in 0..Len(A) : Cardinality({ A[j] : j \in 1..m }) = m
      BY <3>2, <3>3, FirstAre, ZenonT(60)
    <3> QED BY <2>1, <3>1, <3>4, ZenonT(60)
  <2> QED BY <1>4, <2>2
<1> QED BY <1>3, <1>5, <1>6 DEF KeepsStrongest, kept

\* No rule is sure enough for its finding to stand alone.
LEMMA WorthIt ==
  ASSUME NEW in, NEW force, BuildPacket(in).findings # <<>>
  PROVE  WorthNarrating(BuildPacket(in), force) \in {"forced", "ok"}
<1>1. PICK X : Analysed(X, in)
  BY AnalysisIs
<1> DEFINE A == Analyze(in)
           p == BuildPacket(in)
<1>2. Kept(A, p.findings)
  BY <1>1, PacketKeeps
<1>3. A \in Seq(X) /\ \A x \in X : x.confidence \in Nat /\ x.confidence < 85
  BY <1>1 DEF Analysed, InOrder
<1>4. p.findings # <<>>
  OBVIOUS
<1> HIDE DEF A, p
<1>5. ASSUME Len(p.findings) = 1
      PROVE  ~(p.findings[1].confidence >= 85)
  <2>1. p.findings[1].confidence = A[1].confidence /\ 1 \in 1..Len(A)
    BY <1>2, <1>3, <1>5 DEF Kept
  <2> QED BY <1>3, <2>1
<1>6. WorthNarrating(p, force) \in {"forced", "ok"}
  BY <1>4, <1>5, Zenon DEF WorthNarrating
<1> QED BY <1>6 DEF p

-----------------------------------------------------------------------------
\* The rules that found something.
IdsOf(s) == { f.id : f \in ToSet(s) }

\* The rules that found something, of two sequences of findings.
LEMMA IdsOfBoth ==
  ASSUME NEW s, NEW t, NEW C, NEW D, Within(s, C), Within(t, D)
  PROVE  IdsOf(s \o t) = IdsOf(s) \cup IdsOf(t)
<1>1. PICK X : s \in Seq(X)
  BY DEF Within
<1>2. PICK Y : t \in Seq(Y)
  BY DEF Within
<1> DEFINE Z == X \cup Y
           u == s \o t
<1>3. s \in Seq(Z) /\ t \in Seq(Z) /\ Len(s) \in Nat /\ Len(t) \in Nat
  BY <1>1, <1>2
<1> HIDE DEF Z, u
<1>4. /\ u \in Seq(Z) /\ Len(u) = Len(s) + Len(t)
      /\ \A k \in 1..(Len(s) + Len(t)) : u[k] = IF k <= Len(s) THEN s[k] ELSE t[k - Len(s)]
  BY <1>3, ConcatProperties, Zenon DEF u
<1>5. /\ ToSet(s) = { s[i] : i \in 1..Len(s) } /\ ToSet(t) = { t[i] : i \in 1..Len(t) }
      /\ ToSet(u) = { u[i] : i \in 1..Len(u) }
  <2>1. DOMAIN s = 1..Len(s) /\ DOMAIN t = 1..Len(t) /\ DOMAIN u = 1..Len(u)
    BY <1>3, <1>4
  <2> QED BY <2>1, Zenon DEF ToSet
<1>6. ASSUME NEW f \in ToSet(u)
      PROVE  f \in ToSet(s) \cup ToSet(t)
  <2>1. PICK k \in 1..Len(u) : f = u[k]
    BY <1>5
  <2>2. \/ k \in 1..Len(s) /\ f = s[k]
        \/ k - Len(s) \in 1..Len(t) /\ f = t[k - Len(s)]
    BY <1>3, <1>4, <2>1
  <2> QED BY <1>5, <2>2
<1>7. ASSUME NEW f \in ToSet(s)
      PROVE  f \in ToSet(u)
  <2>1. PICK k \in 1..Len(s) : f = s[k]
    BY <1>5
  <2>2. k \in 1..Len(u) /\ u[k] = f
    BY <1>3, <1>4, <2>1
  <2> QED BY <1>5, <2>2
<1>8. ASSUME NEW f \in ToSet(t)
      PROVE  f \in ToSet(u)
  <2>1. PICK k \in 1..Len(t) : f = t[k]
    BY <1>5
  <2> DEFINE m == k + Len(s)
  <2>2. m \in 1..(Len(s) + Len(t)) /\ ~(m <= Len(s)) /\ m - Len(s) = k
    BY <1>3
  <2> HIDE DEF m
  <2>3. m \in 1..Len(u) /\ u[m] = f
    BY <1>4, <2>1, <2>2
  <2> QED BY <1>5, <2>3
<1>9. ToSet(u) = ToSet(s) \cup ToSet(t)
  BY <1>6, <1>7, <1>8
<1> QED BY <1>9 DEF IdsOf, u

\* What all rules find, rule by rule.
LEMMA IdsAre ==
  ASSUME NEW in
  PROVE  Ids(in) = IdsOf(TrimIdleVsCruise(in)) \cup IdsOf(MafPlausibility(in))
                     \cup IdsOf(O2CatalystProxy(in)) \cup IdsOf(FreezeFrameMismatch(in))
                     \cup IdsOf(MisfireFingerprint(in)) \cup IdsOf(LinkFragility(in))
                     \cup IdsOf(ModuleVoltage(in)) \cup IdsOf(CoOccurrenceFindings(in))
<1> DEFINE a == TrimIdleVsCruise(in)
           b == MafPlausibility(in)
           c == O2CatalystProxy(in)
           d == FreezeFrameMismatch(in)
           e == MisfireFingerprint(in)
           f == LinkFragility(in)
           g == ModuleVoltage(in)
           h == CoOccurrenceFindings(in)
<1>1. /\ Within(a, {78, 72, 70}) /\ Within(b, {68, 60}) /\ Within(c, {55}) /\ Within(d, {74})
      /\ Within(e, {80, 66}) /\ Within(f, {62}) /\ Within(g, {76}) /\ Within(h, {58})
  BY TrimWithin, MafWithin, MisfireWithin, OthersWithin
<1>2. Ids(in) = IdsOf(a \o b \o c \o d \o e \o f \o g \o h)
  BY DEF Ids, IdsOf, Findings
<1> HIDE DEF a, b, c, d, e, f, g, h
<1>3. Within(a \o b, {78, 72, 70} \cup {68, 60}) /\ IdsOf(a \o b) = IdsOf(a) \cup IdsOf(b)
  <2>1. {78, 72, 70} \cap {68, 60} = {}
    OBVIOUS
  <2> QED BY <1>1, <2>1, BothWithin, IdsOfBoth
<1> DEFINE A == {78, 72, 70} \cup {68, 60}
           abc == (a \o b) \o c
           abcd == abc \o d
           abcde == abcd \o e
           abcdef == abcde \o f
           abcdefg == abcdef \o g
<1>4. Within(abc, A \cup {55}) /\ IdsOf(abc) = IdsOf(a \o b) \cup IdsOf(c)
  <2>1. A \cap {55} = {}
    OBVIOUS
  <2> HIDE DEF A
  <2>2. Within(a \o b, A)
    BY <1>3 DEF A
  <2> QED BY <1>1, <2>1, <2>2, BothWithin, IdsOfBoth
<1> DEFINE B == A \cup {55}
<1>5. Within(abcd, B \cup {74}) /\ IdsOf(abcd) = IdsOf(abc) \cup IdsOf(d)
  <2>1. B \cap {74} = {}
    OBVIOUS
  <2>2. Within(abc, B)
    BY <1>4
  <2> HIDE DEF B, abc
  <2> QED BY <1>1, <2>1, <2>2, BothWithin, IdsOfBoth
<1> DEFINE C == B \cup {74}
<1>6. Within(abcde, C \cup {80, 66}) /\ IdsOf(abcde) = IdsOf(abcd) \cup IdsOf(e)
  <2>1. C \cap {80, 66} = {}
    OBVIOUS
  <2>2. Within(abcd, C)
    BY <1>5
  <2> HIDE DEF C, abcd
  <2> QED BY <1>1, <2>1, <2>2, BothWithin, IdsOfBoth
<1> DEFINE D == C \cup {80, 66}
<1>7. Within(abcdef, D \cup {62}) /\ IdsOf(abcdef) = IdsOf(abcde) \cup IdsOf(f)
  <2>1. D \cap {62} = {}
    OBVIOUS
  <2>2. Within(abcde, D)
    BY <1>6
  <2> HIDE DEF D, abcde
  <2> QED BY <1>1, <2>1, <2>2, BothWithin, IdsOfBoth
<1> DEFINE E == D \cup {62}
<1>8. Within(abcdefg, E \cup {76}) /\ IdsOf(abcdefg) = IdsOf(abcdef) \cup IdsOf(g)
  <2>1. E \cap {76} = {}
    OBVIOUS
  <2>2. Within(abcdef, E)
    BY <1>7
  <2> HIDE DEF E, abcdef
  <2> QED BY <1>1, <2>1, <2>2, BothWithin, IdsOfBoth
<1>9. IdsOf(abcdefg \o h) = IdsOf(abcdefg) \cup IdsOf(h)
  <2>1. Within(abcdefg, E \cup {76})
    BY <1>8
  <2> HIDE DEF abcdefg
  <2> QED BY <1>1, <2>1, IdsOfBoth
<1>10. Ids(in) = IdsOf(abcdefg \o h)
  BY <1>2
<1>11. Ids(in) = IdsOf(a) \cup IdsOf(b) \cup IdsOf(c) \cup IdsOf(d) \cup IdsOf(e)
                   \cup IdsOf(f) \cup IdsOf(g) \cup IdsOf(h)
  <2> HIDE DEF abc, abcd, abcde, abcdef, abcdefg
  <2> QED BY <1>3, <1>4, <1>5, <1>6, <1>7, <1>8, <1>9, <1>10
<1> QED BY <1>11 DEF a, b, c, d, e, f, g, h

\* in with the code asked about in the scan.
WithFocus(in) == [in EXCEPT !.codes = @ \cup {in.focus}]

\* No other part of the input changes.
LEMMA WithFocusIs ==
  ASSUME NEW in \in AnyInput
  PROVE  LET s == WithFocus(in) IN
           /\ s.focus = in.focus /\ s.codes = in.codes \cup {in.focus}
           /\ s.frame = in.frame /\ s.obs = in.obs /\ s.co = in.co
BY DEF WithFocus, AnyInput

\* A rule that asks for a code or the focus does not see the difference.
LEMMA SameAbout ==
  ASSUME NEW in \in AnyInput, NEW C
  PROVE  About(WithFocus(in), C) <=> About(in, C)
<1>1. WithFocus(in).focus = in.focus /\ WithFocus(in).codes = in.codes \cup {in.focus}
  BY WithFocusIs
<1> QED BY <1>1 DEF About, Has

\* Nor does a rule that asks for readings.
LEMMA SameGiven ==
  ASSUME NEW in \in AnyInput, NEW F
  PROVE  Given(WithFocus(in), F) <=> Given(in, F)
<1>1. WithFocus(in).obs = in.obs
  BY WithFocusIs
<1> QED BY <1>1 DEF Given

\* The rule of the trims finds the same.
LEMMA SameTrim ==
  ASSUME NEW in \in AnyInput
  PROVE  TrimIdleVsCruise(WithFocus(in)) = TrimIdleVsCruise(in)
<1> DEFINE s == WithFocus(in)
<1>1. s.obs = in.obs
  BY WithFocusIs
<1>2. /\ About(s, LeanCodes) <=> About(in, LeanCodes)
      /\ About(s, {172}) <=> About(in, {172})
      /\ Given(s, {"st", "lt"}) <=> Given(in, {"st", "lt"})
  BY SameAbout, SameGiven
<1> HIDE DEF s
<1>3. TrimIdleVsCruise(s) = TrimIdleVsCruise(in)
  BY <1>1, <1>2 DEF TrimIdleVsCruise, If
<1> QED BY <1>3 DEF s

\* What the rules of the catalyst and of the frame look at.
RearTracks(obs) == obs.live.front - obs.live.rear \in -49..49 /\ obs.live.rear \in 401..699
FarFrom(frame, obs) == frame.rpm # None /\ frame.rpm - obs.live.rpm \notin -800..800

\* The rule of the catalyst in these words.
LEMMA CatalystIs ==
  ASSUME NEW in
  PROVE  O2CatalystProxy(in) =
           IF Given(in, {"front", "rear"}) /\ About(in, {420}) /\ RearTracks(in.obs)
           THEN <<Finding("o2.rear_tracks_front", 55, <<<<in.obs.live.front, in.obs.live.rear>>>>)>>
           ELSE <<>>
<1>1. CASE Given(in, {"front", "rear"})
  <2>1. O2CatalystProxy(in) =
          If(About(in, {420}) /\ RearTracks(in.obs),
             Finding("o2.rear_tracks_front", 55, <<<<in.obs.live.front, in.obs.live.rear>>>>))
    BY <1>1, ZenonT(60) DEF O2CatalystProxy, If, RearTracks
  <2> QED BY <1>1, <2>1 DEF If
<1>2. CASE ~Given(in, {"front", "rear"})
  <2>1. O2CatalystProxy(in) = <<>>
    BY <1>2 DEF O2CatalystProxy
  <2> QED BY <1>2, <2>1
<1> QED BY <1>1, <1>2

\* The rule of the freeze frame in these words.
LEMMA FreezeIs ==
  ASSUME NEW in
  PROVE  FreezeFrameMismatch(in) =
           IF Given(in, {"rpm"}) /\ Frame(in) # None /\ FarFrom(Frame(in), in.obs)
           THEN <<Finding("ff.condition_mismatch", 74, <<<<Frame(in).rpm, in.obs.live.rpm>>>>)>>
           ELSE <<>>
<1>1. CASE Given(in, {"rpm"}) /\ Frame(in) # None
  <2>1. ~(~Given(in, {"rpm"}) \/ Frame(in) = None)
    BY <1>1
  <2>2. FreezeFrameMismatch(in) =
          If(FarFrom(Frame(in), in.obs),
             Finding("ff.condition_mismatch", 74, <<<<Frame(in).rpm, in.obs.live.rpm>>>>))
    BY <2>1, ZenonT(60) DEF FreezeFrameMismatch, If, FarFrom
  <2> QED BY <1>1, <2>2 DEF If
<1>2. CASE ~(Given(in, {"rpm"}) /\ Frame(in) # None)
  <2>1. ~Given(in, {"rpm"}) \/ Frame(in) = None
    BY <1>2
  <2>2. FreezeFrameMismatch(in) = <<>>
    BY <2>1 DEF FreezeFrameMismatch
  <2> QED BY <1>2, <2>2
<1> QED BY <1>1, <1>2

\* Five rules find the same, the code in the scan or only asked about.
LEMMA SameOthers ==
  ASSUME NEW in \in AnyInput
  PROVE  /\ O2CatalystProxy(WithFocus(in)) = O2CatalystProxy(in)
         /\ FreezeFrameMismatch(WithFocus(in)) = FreezeFrameMismatch(in)
         /\ LinkFragility(WithFocus(in)) = LinkFragility(in)
         /\ ModuleVoltage(WithFocus(in)) = ModuleVoltage(in)
         /\ CoOccurrenceFindings(WithFocus(in)) = CoOccurrenceFindings(in)
<1> DEFINE s == WithFocus(in)
<1>1. s.obs = in.obs /\ s.frame = in.frame /\ s.co = in.co
  BY WithFocusIs
<1>2. /\ About(s, {420}) <=> About(in, {420})
      /\ Given(s, {"front", "rear"}) <=> Given(in, {"front", "rear"})
      /\ Given(s, {"rpm"}) <=> Given(in, {"rpm"})
      /\ Given(s, {"volts"}) <=> Given(in, {"volts"})
  BY SameAbout, SameGiven
<1> HIDE DEF s
<1>3. O2CatalystProxy(s) = O2CatalystProxy(in)
  BY <1>1, <1>2, CatalystIs
<1>4. FreezeFrameMismatch(s) = FreezeFrameMismatch(in)
  <2>1. Frame(s) = Frame(in)
    BY <1>1 DEF Frame
  <2> QED BY <1>1, <1>2, <2>1, FreezeIs
<1>5. LinkFragility(s) = LinkFragility(in)
  BY <1>1 DEF LinkFragility, If
<1>6. ModuleVoltage(s) = ModuleVoltage(in)
  BY <1>1, <1>2 DEF ModuleVoltage, If
<1>7. CoOccurrenceFindings(s) = CoOccurrenceFindings(in)
  BY <1>1 DEF CoOccurrenceFindings
<1> QED BY <1>3, <1>4, <1>5, <1>6, <1>7 DEF s

\* A code that is no cylinder's leaves the cylinders of the scan as they are.
LEMMA SameMisfire ==
  ASSUME NEW in \in AnyInput, in.focus \notin Cylinders
  PROVE  MisfireFingerprint(WithFocus(in)) = MisfireFingerprint(in)
<1> DEFINE s == WithFocus(in)
<1>1. s.obs = in.obs /\ s.codes = in.codes \cup {in.focus}
  BY WithFocusIs
<1>2. s.codes \cap Cylinders = in.codes \cap Cylinders
  BY <1>1
<1>3. /\ About(s, {300}) <=> About(in, {300})
      /\ Given(s, {"st"}) <=> Given(in, {"st"})
  BY SameAbout, SameGiven
<1> HIDE DEF s
<1>4. MisfireFingerprint(s) = MisfireFingerprint(in)
  BY <1>1, <1>2, <1>3 DEF MisfireFingerprint, If
<1> QED BY <1>4 DEF s

\* The air mass tells P0174 from P0171, and finds no more than it can find.
LEMMA SameMaf ==
  ASSUME NEW in \in AnyInput, in.focus # 174
  PROVE  MafPlausibility(WithFocus(in)) = MafPlausibility(in)
<1> DEFINE s == WithFocus(in)
<1>1. s.obs = in.obs /\ s.focus = in.focus /\ s.codes = in.codes \cup {in.focus}
  BY WithFocusIs
<1>2. Has(s, LeanCodes) \/ s.focus = 171 <=> Has(in, LeanCodes) \/ in.focus = 171
  BY <1>1 DEF Has, LeanCodes
<1>3. Given(s, {"maf", "rpm"}) <=> Given(in, {"maf", "rpm"})
  BY SameGiven
<1> HIDE DEF s
<1>4. MafPlausibility(s) = MafPlausibility(in)
  BY <1>1, <1>2, <1>3 DEF MafPlausibility, If
<1> QED BY <1>4 DEF s

\* What the air mass can find.
LEMMA MafFinds ==
  ASSUME NEW in
  PROVE  IdsOf(MafPlausibility(in)) \subseteq {"maf.low_vs_rpm", "maf.high_vs_rpm"}
<1> DEFINE s == MafPlausibility(in)
<1>1. Within(s, {68, 60})
  BY MafWithin
<1> HIDE DEF s
<1>2. PICK X : s \in Seq(X)
  BY <1>1 DEF Within
<1>3. ASSUME NEW f \in ToSet(s)
      PROVE  f.id \in {"maf.low_vs_rpm", "maf.high_vs_rpm"}
  <2>1. PICK i \in 1..Len(s) : f = s[i]
    BY <1>2 DEF ToSet
  <2>2. f.confidence \in {68, 60} /\ f = Finding(IdOf(f.confidence), f.confidence, f.evidence)
    BY <1>1, <2>1 DEF Within
  <2>3. f.id = IdOf(f.confidence)
    BY <2>2 DEF Finding
  <2> QED BY <2>2, <2>3, RulesAre
<1>4. IdsOf(s) \subseteq {"maf.low_vs_rpm", "maf.high_vs_rpm"}
  BY <1>3 DEF IdsOf
<1> QED BY <1>4 DEF s

\* An explanation finds for the code asked about what it would find had the scan
\* stored it, but for the air mass of P0174.
LEMMA FocusFindsTheSame ==
  ASSUME NEW in \in AnyInput, in.focus \notin Cylinders
  PROVE  LET air == IF in.focus = 174 THEN {"maf.low_vs_rpm", "maf.high_vs_rpm"} ELSE {} IN
           Ids(in) \ air = Ids(WithFocus(in)) \ air
<1> DEFINE s == WithFocus(in)
<1>1. /\ TrimIdleVsCruise(s) = TrimIdleVsCruise(in)
      /\ O2CatalystProxy(s) = O2CatalystProxy(in)
      /\ FreezeFrameMismatch(s) = FreezeFrameMismatch(in)
      /\ MisfireFingerprint(s) = MisfireFingerprint(in)
      /\ LinkFragility(s) = LinkFragility(in)
      /\ ModuleVoltage(s) = ModuleVoltage(in)
      /\ CoOccurrenceFindings(s) = CoOccurrenceFindings(in)
  BY SameTrim, SameMisfire, SameOthers
<1>2. in.focus # 174 => MafPlausibility(s) = MafPlausibility(in)
  BY SameMaf
<1> HIDE DEF s
<1>3. \E rest : /\ Ids(in) = rest \cup IdsOf(MafPlausibility(in))
                /\ Ids(s) = rest \cup IdsOf(MafPlausibility(s))
  <2> DEFINE rest == IdsOf(TrimIdleVsCruise(in))
                     \cup IdsOf(O2CatalystProxy(in)) \cup IdsOf(FreezeFrameMismatch(in))
                     \cup IdsOf(MisfireFingerprint(in)) \cup IdsOf(LinkFragility(in))
                     \cup IdsOf(ModuleVoltage(in)) \cup IdsOf(CoOccurrenceFindings(in))
  <2>1. Ids(in) = rest \cup IdsOf(MafPlausibility(in))
    BY IdsAre
  <2>2. Ids(s) = rest \cup IdsOf(MafPlausibility(s))
    BY <1>1, IdsAre
  <2> QED BY <2>1, <2>2
<1>4. /\ IdsOf(MafPlausibility(in)) \subseteq {"maf.low_vs_rpm", "maf.high_vs_rpm"}
      /\ IdsOf(MafPlausibility(s)) \subseteq {"maf.low_vs_rpm", "maf.high_vs_rpm"}
  BY MafFinds
<1> QED BY <1>2, <1>3, <1>4 DEF s

-----------------------------------------------------------------------------
\* The handlers of an invariant's step, with what they hold: I the inputs of the behaviour,
\* P the packets of them.
EntriesOf(P) == [key : P, of : P, at : Nat]

HandlersOf(I, P) ==
  [ pc     : {"idle", "narrate", "load", "delete", "call", "store", "reply"},
    in     : I \cup {None},
    packet : P,
    force  : BOOLEAN,
    seen   : EntriesOf(P),
    text   : P,
    age    : Nat,
    reason : {"", "no_findings_or_kb", "kb_only", "structured_sufficient", "llm_disabled",
              "llm_error"} ]

\* A handler with no request.
LEMMA NoRequestIs ==
  ASSUME NEW I, NEW P, NoPacket \in P
  PROVE  /\ NoEntry \in EntriesOf(P)
         /\ NoRequest \in HandlersOf(I, P)
         /\ NoRequest.pc = "idle" /\ NoRequest.age = 0
BY DEF NoEntry, NoRequest, EntriesOf, HandlersOf

\* A handler b with a request.
Fill(b, step, in, p, force) == [b EXCEPT !.pc = step, !.in = in, !.packet = p, !.force = force]

\* What Explains makes of a handler.
NewHandler(in, narrative, force) ==
  [NoRequest EXCEPT !.pc = IF narrative THEN "narrate" ELSE "reply",
                    !.in = in, !.packet = BuildPacket(in), !.force = force]

\* The handlers of a request for in.
NewHandlersOf(in) == { NewHandler(in, narrative, force) : narrative, force \in BOOLEAN }

\* q was asked for in and has done nothing yet.
NewlyAsked(I, P, in, q) ==
  /\ q \in HandlersOf(I, P)
  /\ q.pc \in {"narrate", "reply"} /\ q.in = in /\ q.packet = BuildPacket(in)
  /\ q.reason = "" /\ q.text = NoPacket /\ q.age = 0

\* A handler that was just asked has its packet and no text.
LEMMA AskedIs ==
  ASSUME NEW I, NEW P, NoPacket \in P, NEW in \in I, BuildPacket(in) \in P, NEW q \in NewHandlersOf(in)
  PROVE  NewlyAsked(I, P, in, q)
<1>1. PICK narrative \in BOOLEAN, force \in BOOLEAN : q = NewHandler(in, narrative, force)
  BY DEF NewHandlersOf
<1> DEFINE p == BuildPacket(in)
           step == IF narrative THEN "narrate" ELSE "reply"
<1>2. step \in {"narrate", "reply"} /\ p \in P
  OBVIOUS
<1>3. /\ NoRequest \in HandlersOf(I, P)
      /\ NoRequest.reason = "" /\ NoRequest.text = NoPacket /\ NoRequest.age = 0
  BY NoRequestIs DEF NoRequest
<1>4. q = Fill(NoRequest, step, in, p, force)
  BY <1>1 DEF NewHandler, Fill
<1> HIDE DEF step, p
<1>5. /\ q \in HandlersOf(I, P)
      /\ q.pc = step /\ q.in = in /\ q.packet = p
      /\ q.reason = NoRequest.reason /\ q.text = NoRequest.text /\ q.age = NoRequest.age
  BY <1>2, <1>3, <1>4 DEF Fill, HandlersOf
<1> QED BY <1>2, <1>3, <1>5 DEF p, NewlyAsked

\* What the other steps make of a handler q.
Moved(q, step, reason, text, age, entry) ==
  [q EXCEPT !.pc = step, !.reason = reason, !.text = text, !.age = age, !.seen = entry]

\* m is q after it.
HasMoved(m, I, P, q, step, reason, text, age, entry) ==
  /\ m \in HandlersOf(I, P)
  /\ m.pc = step /\ m.in = q.in /\ m.packet = q.packet
  /\ m.reason = reason /\ m.text = text /\ m.age = age /\ m.seen = entry

\* The other fields of the handler stay.
LEMMA MovedIs ==
  ASSUME NEW I, NEW P, NEW q \in HandlersOf(I, P),
         NEW step \in {"idle", "narrate", "load", "delete", "call", "store", "reply"},
         NEW reason \in {"", "no_findings_or_kb", "kb_only", "structured_sufficient",
                        "llm_disabled", "llm_error"},
         NEW text \in P, NEW age \in Nat, NEW entry \in EntriesOf(P)
  PROVE  HasMoved(Moved(q, step, reason, text, age, entry), I, P, q, step, reason, text, age, entry)
<1> DEFINE m == Moved(q, step, reason, text, age, entry)
<1>1. m \in HandlersOf(I, P)
  BY ZenonT(60) DEF HandlersOf, Moved
<1>2. /\ m.pc = step /\ m.in = q.in /\ m.packet = q.packet
      /\ m.reason = reason /\ m.text = text /\ m.age = age /\ m.seen = entry
  BY ZenonT(60) DEF HandlersOf, Moved
<1> HIDE DEF m
<1>3. HasMoved(m, I, P, q, step, reason, text, age, entry)
  BY <1>1, <1>2 DEF HasMoved
<1> QED BY <1>3 DEF m

\* The parts of the invariant as facts of values: a handler q, the inputs I, the time n, the
\* cache c, the texts m and the raced keys x.
PacketsOf(I) == { BuildPacket(in) : in \in I } \cup {NoPacket}

HandlerSound(q, I, n) ==
  /\ q.pc # "idle" => q.in \in I /\ q.packet = BuildPacket(q.in)
  /\ q.pc # "idle" => q.text \in {NoPacket, q.packet}
  /\ q.pc # "idle" /\ q.packet.findings # <<>> => q.reason \in {"", "llm_disabled", "llm_error"}
  /\ q.pc = "store" => q.text = q.packet
  /\ q.age < TTL
  /\ q.pc = "delete" => ~(n - q.seen.at < TTL)

CacheSound(c, m, n) ==
  /\ \A e \in c : e.of = e.key
  /\ \A e, f \in c : e.key = f.key => e = f
  /\ \A t \in c \cup m : t.at <= n

FreshKept(m, c, x, n) ==
  \A t \in m : n - t.at < TTL => t.key \in x \/ \E e \in c : e.key = t.key /\ e.at >= t.at

Sound(l, n, c, q, m, x) ==
  /\ l \in AnyLoad
  /\ n \in Nat
  /\ c \subseteq EntriesOf(PacketsOf(l.inputs))
  /\ m \subseteq EntriesOf(PacketsOf(l.inputs))
  /\ q \in [Requests -> HandlersOf(l.inputs, PacketsOf(l.inputs))]
  /\ \A r \in Requests : HandlerSound(q[r], l.inputs, n)
  /\ CacheSound(c, m, n)
  /\ FreshKept(m, c, x, n)

\* The invariant in these words, of a state and of the one after it.
LEMMA InvariantIs ==
  /\ NarratorInv <=> Sound(load, now, cache, req, made, raced)
  /\ NarratorInv' <=> Sound(load', now', cache', req', made', raced')
<1>1. NarratorInv <=> Sound(load, now, cache, req, made, raced)
  BY Zenon DEF NarratorInv, NarratorTypes, RequestIsSound, CacheIsSound, FreshIsKept, InHand, At, Fresh,
     AnyEntry, AnyRequest, Packets, Sound, EntriesOf, HandlersOf, PacketsOf, HandlerSound,
     CacheSound, FreshKept
<1>2. NarratorInv' <=> Sound(load', now', cache', req', made', raced')
  BY Zenon DEF NarratorInv, NarratorTypes, RequestIsSound, CacheIsSound, FreshIsKept, InHand, At, Fresh,
     AnyEntry, AnyRequest, Packets, Sound, EntriesOf, HandlersOf, PacketsOf, HandlerSound,
     CacheSound, FreshKept
<1> QED BY <1>1, <1>2

\* The server starts with an empty cache and no request.
LEMMA SoundAtFirst ==
  ASSUME NarratorInit
  PROVE  NarratorInv
<1>1. load \in AnyLoad /\ now = 0 /\ cache = {} /\ made = {}
  BY NarratorAssumption DEF NarratorInit
<1>2. NoPacket \in PacketsOf(load.inputs)
  BY DEF PacketsOf
<1>3. /\ NoRequest \in HandlersOf(load.inputs, PacketsOf(load.inputs))
      /\ NoRequest.pc = "idle" /\ NoRequest.age = 0
  BY <1>2, NoRequestIs
<1>4. req \in [Requests -> HandlersOf(load.inputs, PacketsOf(load.inputs))]
      /\ \A r \in Requests : req[r] = NoRequest
  BY <1>3 DEF NarratorInit
<1>5. HandlerSound(NoRequest, load.inputs, now)
  BY <1>3, NarratorAssumption DEF HandlerSound
<1>6. CacheSound(cache, made, now) /\ FreshKept(made, cache, raced, now)
  BY <1>1 DEF CacheSound, FreshKept
<1>7. Sound(load, now, cache, req, made, raced)
  BY <1>1, <1>4, <1>5, <1>6 DEF Sound
<1> QED BY <1>7, InvariantIs

\* A step of one handler that leaves the cache alone.
LEMMA HandlerSteps ==
  ASSUME NarratorInv, NEW r \in Requests, NEW q, req' = [req EXCEPT ![r] = q],
         load' \in AnyLoad, load'.inputs = load.inputs,
         now' = now, cache' = cache, made' = made, raced' = raced,
         q \in HandlersOf(load.inputs, PacketsOf(load.inputs)),
         HandlerSound(q, load.inputs, now)
  PROVE  NarratorInv'
<1> DEFINE I == load.inputs
           H == HandlersOf(I, PacketsOf(I))
<1>1. Sound(load, now, cache, req, made, raced)
  BY InvariantIs
<1>2. req \in [Requests -> H] /\ \A s \in Requests : HandlerSound(req[s], I, now)
  BY <1>1 DEF Sound
<1> HIDE DEF H, I
<1>3. req' \in [Requests -> H] /\ \A s \in Requests : HandlerSound(req'[s], I, now)
  BY <1>2 DEF H, I
<1>4. Sound(load', now', cache', req', made', raced')
  BY <1>1, <1>3 DEF Sound, H, I
<1> QED BY <1>4, InvariantIs

\* What a handler of a state is.
LEMMA HandlerIs ==
  ASSUME NarratorInv, NEW r \in Requests
  PROVE  /\ req[r] \in HandlersOf(load.inputs, PacketsOf(load.inputs))
         /\ HandlerSound(req[r], load.inputs, now)
         /\ load \in AnyLoad /\ NoPacket \in PacketsOf(load.inputs) /\ now \in Nat
<1>1. Sound(load, now, cache, req, made, raced)
  BY InvariantIs
<1> QED BY <1>1 DEF Sound, PacketsOf

\* A request comes, and its packet is made of its input.
LEMMA ExplainsSound ==
  ASSUME NarratorInv, NEW r \in Requests, Explains(r)
  PROVE  NarratorInv'
<1> DEFINE I == load.inputs
           P == PacketsOf(I)
<1>1. load \in AnyLoad /\ NoPacket \in P
  BY HandlerIs
<1>2. load.asks > 0 /\ load' = [load EXCEPT !.asks = load.asks - 1]
  BY DEF Explains
<1>3. load' \in AnyLoad /\ load'.inputs = load.inputs
  BY <1>1, <1>2 DEF AnyLoad
<1>4. PICK in \in I : \E q \in NewHandlersOf(in) : req' = [req EXCEPT ![r] = q]
  <2>1. PICK in \in I, narrative \in BOOLEAN, force \in BOOLEAN :
          req' = [req EXCEPT ![r] = NewHandler(in, narrative, force)]
    BY Zenon DEF Explains, NewHandler
  <2>2. NewHandler(in, narrative, force) \in NewHandlersOf(in)
    BY DEF NewHandlersOf
  <2> QED BY <2>1, <2>2, Zenon
<1>5. PICK q \in NewHandlersOf(in) : req' = [req EXCEPT ![r] = q]
  BY <1>4
<1>6. BuildPacket(in) \in P
  BY DEF PacketsOf
<1>7. /\ q \in HandlersOf(I, P)
      /\ q.pc \in {"narrate", "reply"} /\ q.in = in /\ q.packet = BuildPacket(in)
      /\ q.reason = "" /\ q.text = NoPacket /\ q.age = 0
  <2> HIDE DEF P, I
  <2>1. NewlyAsked(I, P, in, q)
    BY <1>1, <1>4, <1>5, <1>6, AskedIs
  <2> QED BY <2>1 DEF NewlyAsked
<1>8. HandlerSound(q, load.inputs, now)
  <2>1. 0 < TTL
    BY NarratorAssumption
  <2> HIDE DEF P
  <2> QED BY <1>7, <2>1 DEF HandlerSound
<1>9. now' = now /\ cache' = cache /\ made' = made /\ raced' = raced
  BY DEF Explains
<1> QED BY <1>3, <1>5, <1>7, <1>8, <1>9, HandlerSteps

\* A step of a handler that has a packet, where the cache and the load stay as they are.
MayMove(q, step, reason, text, age, entry) ==
  /\ q.pc # "idle"
  /\ step \in {"narrate", "load", "delete", "call", "store", "reply"}
  /\ reason \in {"", "no_findings_or_kb", "kb_only", "structured_sufficient", "llm_disabled",
                 "llm_error"}
  /\ q.packet.findings # <<>> => reason \in {"", "llm_disabled", "llm_error"}
  /\ text \in {NoPacket, q.packet}
  /\ age \in Nat /\ age < TTL
  /\ entry \in EntriesOf(PacketsOf(load.inputs))
  /\ step = "store" => text = q.packet
  /\ step = "delete" => ~(now - entry.at < TTL)

\* r takes such a step.
MovesBy(r, step, reason, text, age, entry) ==
  /\ req' = [req EXCEPT ![r] = Moved(req[r], step, reason, text, age, entry)]
  /\ load' = load /\ now' = now /\ cache' = cache /\ made' = made /\ raced' = raced

\* Such a step keeps the invariant.
LEMMA MovesSound ==
  ASSUME NarratorInv, NEW r \in Requests, NEW step, NEW reason, NEW text, NEW age, NEW entry,
         MayMove(req[r], step, reason, text, age, entry), MovesBy(r, step, reason, text, age, entry)
  PROVE  NarratorInv'
<1> DEFINE I == load.inputs
           P == PacketsOf(I)
           q == Moved(req[r], step, reason, text, age, entry)
<1>1. /\ req[r] \in HandlersOf(I, P) /\ HandlerSound(req[r], I, now)
      /\ load \in AnyLoad /\ NoPacket \in P
  BY HandlerIs
<1>2. /\ req[r].packet \in P /\ text \in P
      /\ step \in {"idle", "narrate", "load", "delete", "call", "store", "reply"}
      /\ reason \in {"", "no_findings_or_kb", "kb_only", "structured_sufficient", "llm_disabled",
                     "llm_error"}
      /\ age \in Nat /\ entry \in EntriesOf(P)
  BY <1>1 DEF HandlersOf, MayMove
<1> HIDE DEF I, P
<1>3. /\ q \in HandlersOf(I, P)
      /\ q.pc = step /\ q.in = req[r].in /\ q.packet = req[r].packet
      /\ q.reason = reason /\ q.text = text /\ q.age = age /\ q.seen = entry
  <2>1. req[r] \in HandlersOf(I, P)
    BY <1>1
  <2>2. HasMoved(q, I, P, req[r], step, reason, text, age, entry)
    BY <1>2, <2>1, MovedIs
  <2> HIDE DEF q
  <2> QED BY <2>2 DEF HasMoved
<1> HIDE DEF q
<1>4. HandlerSound(q, I, now)
  BY <1>1, <1>3 DEF HandlerSound, MayMove, I
<1>5. /\ req' = [req EXCEPT ![r] = q]
      /\ load' = load /\ now' = now /\ cache' = cache /\ made' = made /\ raced' = raced
  BY DEF q, MovesBy
<1> QED BY <1>1, <1>3, <1>4, <1>5, HandlerSteps DEF I, P

\* What a handler with a packet is.
LEMMA AskingIs ==
  ASSUME NarratorInv, NEW r \in Requests, req[r].pc # "idle"
  PROVE  /\ req[r] \in HandlersOf(load.inputs, PacketsOf(load.inputs))
         /\ req[r].in \in load.inputs /\ req[r].packet = BuildPacket(req[r].in)
         /\ req[r].text \in {NoPacket, req[r].packet}
         /\ req[r].reason \in {"", "no_findings_or_kb", "kb_only", "structured_sufficient",
                         "llm_disabled", "llm_error"}
         /\ req[r].packet.findings # <<>> => req[r].reason \in {"", "llm_disabled", "llm_error"}
         /\ req[r].age \in Nat /\ req[r].age < TTL
         /\ req[r].seen \in EntriesOf(PacketsOf(load.inputs))
         /\ req[r].pc = "delete" => ~(now - req[r].seen.at < TTL)
         /\ req[r].pc = "store" => req[r].text = req[r].packet
BY HandlerIs DEF HandlersOf, HandlerSound

\* A packet with findings is narrated unless the LLM is off.
LEMMA NarratesSound ==
  ASSUME NarratorInv, NEW r \in Requests, Narrates(r)
  PROVE  NarratorInv'
<1> DEFINE worth == WorthNarrating(req[r].packet, req[r].force)
           q == req[r]
<1>1. q.pc = "narrate"
  BY DEF Narrates, At
<1>2. /\ q \in HandlersOf(load.inputs, PacketsOf(load.inputs))
      /\ q.packet = BuildPacket(q.in)
      /\ q.text \in {NoPacket, q.packet}
      /\ q.reason \in {"", "no_findings_or_kb", "kb_only", "structured_sufficient",
                       "llm_disabled", "llm_error"}
      /\ q.packet.findings # <<>> => q.reason \in {"", "llm_disabled", "llm_error"}
      /\ q.age \in Nat /\ q.age < TTL
      /\ q.seen \in EntriesOf(PacketsOf(load.inputs))
  BY <1>1, AskingIs
<1>3. worth \notin {"forced", "ok"} => q.packet.findings = <<>>
  BY <1>2, WorthIt
<1>4. worth \notin {"forced", "ok"} =>
        worth \in {"no_findings_or_kb", "kb_only", "structured_sufficient"}
  BY Zenon DEF WorthNarrating
<1>5. load' = load /\ now' = now /\ cache' = cache /\ made' = made /\ raced' = raced
  BY DEF Narrates
<1>6. \/ worth \notin {"forced", "ok"} /\ req' = [req EXCEPT ![r].pc = "reply", ![r].reason = worth]
      \/ req' = [req EXCEPT ![r].pc = "reply", ![r].reason = "llm_disabled"]
      \/ req' = [req EXCEPT ![r].pc = "load"]
  BY Zenon DEF Narrates
<1> HIDE DEF worth
<1>7. CASE worth \notin {"forced", "ok"} /\ req' = [req EXCEPT ![r].pc = "reply", ![r].reason = worth]
  <2>1. MayMove(q, "reply", worth, q.text, q.age, q.seen)
    BY <1>1, <1>2, <1>3, <1>4, <1>7 DEF MayMove
  <2>2. [q EXCEPT !.pc = "reply", !.reason = worth] = Moved(q, "reply", worth, q.text, q.age, q.seen)
    BY <1>2 DEF HandlersOf, Moved
  <2>3. MovesBy(r, "reply", worth, q.text, q.age, q.seen)
    BY <1>5, <1>7, <2>2 DEF MovesBy
  <2> QED BY <2>1, <2>3, MovesSound
<1>8. CASE req' = [req EXCEPT ![r].pc = "reply", ![r].reason = "llm_disabled"]
  <2>1. MayMove(q, "reply", "llm_disabled", q.text, q.age, q.seen)
    BY <1>1, <1>2 DEF MayMove
  <2>2. [q EXCEPT !.pc = "reply", !.reason = "llm_disabled"]
          = Moved(q, "reply", "llm_disabled", q.text, q.age, q.seen)
    BY <1>2 DEF HandlersOf, Moved
  <2>3. MovesBy(r, "reply", "llm_disabled", q.text, q.age, q.seen)
    BY <1>5, <1>8, <2>2 DEF MovesBy
  <2> QED BY <2>1, <2>3, MovesSound
<1>9. CASE req' = [req EXCEPT ![r].pc = "load"]
  <2>1. MayMove(q, "load", q.reason, q.text, q.age, q.seen)
    BY <1>1, <1>2 DEF MayMove
  <2>2. [q EXCEPT !.pc = "load"] = Moved(q, "load", q.reason, q.text, q.age, q.seen)
    BY <1>2 DEF HandlersOf, Moved
  <2>3. MovesBy(r, "load", q.reason, q.text, q.age, q.seen)
    BY <1>5, <1>9, <2>2 DEF MovesBy
  <2> QED BY <2>1, <2>3, MovesSound
<1> QED BY <1>6, <1>7, <1>8, <1>9

\* What the cache of a state is.
LEMMA CacheIs ==
  ASSUME NarratorInv
  PROVE  /\ load \in AnyLoad /\ now \in Nat
         /\ cache \subseteq EntriesOf(PacketsOf(load.inputs))
         /\ made \subseteq EntriesOf(PacketsOf(load.inputs))
         /\ req \in [Requests -> HandlersOf(load.inputs, PacketsOf(load.inputs))]
         /\ \A r \in Requests : HandlerSound(req[r], load.inputs, now)
         /\ CacheSound(cache, made, now) /\ FreshKept(made, cache, raced, now)
BY InvariantIs DEF Sound

\* Load: a fresh entry is the reply, a stale one is to be deleted.
LEMMA LoadsSound ==
  ASSUME NarratorInv, NEW r \in Requests, Loads(r)
  PROVE  NarratorInv'
<1> DEFINE q == req[r]
<1>1. q.pc = "load"
  BY DEF Loads, At
<1>2. /\ q \in HandlersOf(load.inputs, PacketsOf(load.inputs))
      /\ q.text \in {NoPacket, q.packet}
      /\ q.reason \in {"", "no_findings_or_kb", "kb_only", "structured_sufficient",
                       "llm_disabled", "llm_error"}
      /\ q.packet.findings # <<>> => q.reason \in {"", "llm_disabled", "llm_error"}
      /\ q.age \in Nat /\ q.age < TTL
      /\ q.seen \in EntriesOf(PacketsOf(load.inputs))
  BY <1>1, AskingIs
<1>3. load' = load /\ now' = now /\ cache' = cache /\ made' = made /\ raced' = raced
  BY DEF Loads
<1>4. /\ cache \subseteq EntriesOf(PacketsOf(load.inputs)) /\ now \in Nat
      /\ \A e \in cache : e.of = e.key /\ e.at <= now
  BY CacheIs DEF CacheSound
<1>5. \/ req' = [req EXCEPT ![r].pc = "call"]
      \/ \E e \in cache : e.key = q.packet /\ Fresh(e) /\
           req' = [req EXCEPT ![r].pc = "reply", ![r].text = e.of, ![r].age = now - e.at]
      \/ \E e \in cache : ~Fresh(e) /\
           req' = [req EXCEPT ![r].pc = "delete", ![r].seen = e]
  BY Zenon DEF Loads, Entries, Fingerprint
<1>6. CASE req' = [req EXCEPT ![r].pc = "call"]
  <2>1. MayMove(q, "call", q.reason, q.text, q.age, q.seen)
    BY <1>1, <1>2 DEF MayMove
  <2>2. [q EXCEPT !.pc = "call"] = Moved(q, "call", q.reason, q.text, q.age, q.seen)
    BY <1>2 DEF HandlersOf, Moved
  <2>3. MovesBy(r, "call", q.reason, q.text, q.age, q.seen)
    BY <1>3, <1>6, <2>2 DEF MovesBy
  <2> QED BY <2>1, <2>3, MovesSound
<1>7. ASSUME NEW e \in cache, e.key = q.packet, Fresh(e),
             req' = [req EXCEPT ![r].pc = "reply", ![r].text = e.of, ![r].age = now - e.at]
      PROVE  NarratorInv'
  <2>1. e.of = q.packet /\ now - e.at \in Nat /\ now - e.at < TTL
    <3>1. e.at \in Nat /\ e.at <= now /\ now \in Nat /\ e.of = e.key
      BY <1>4 DEF EntriesOf
    <3> QED BY <1>7, <3>1 DEF Fresh
  <2>2. MayMove(q, "reply", q.reason, e.of, now - e.at, q.seen)
    BY <1>1, <1>2, <2>1 DEF MayMove
  <2>3. [q EXCEPT !.pc = "reply", !.text = e.of, !.age = now - e.at]
          = Moved(q, "reply", q.reason, e.of, now - e.at, q.seen)
    BY <1>2 DEF HandlersOf, Moved
  <2>4. MovesBy(r, "reply", q.reason, e.of, now - e.at, q.seen)
    BY <1>3, <1>7, <2>3 DEF MovesBy
  <2> QED BY <2>2, <2>4, MovesSound
<1>8. ASSUME NEW e \in cache, ~Fresh(e), req' = [req EXCEPT ![r].pc = "delete", ![r].seen = e]
      PROVE  NarratorInv'
  <2>1. e \in EntriesOf(PacketsOf(load.inputs)) /\ ~(now - e.at < TTL)
    BY <1>4, <1>8 DEF Fresh
  <2>2. MayMove(q, "delete", q.reason, q.text, q.age, e)
    BY <1>1, <1>2, <2>1 DEF MayMove
  <2>3. [q EXCEPT !.pc = "delete", !.seen = e] = Moved(q, "delete", q.reason, q.text, q.age, e)
    BY <1>2 DEF HandlersOf, Moved
  <2>4. MovesBy(r, "delete", q.reason, q.text, q.age, e)
    BY <1>3, <1>8, <2>3 DEF MovesBy
  <2> QED BY <2>2, <2>4, MovesSound
<1> QED BY <1>5, <1>6, <1>7, <1>8

\* The LLM answers with the text of the packet it was sent.
LEMMA CompletesSound ==
  ASSUME NarratorInv, NEW r \in Requests, Completes(r)
  PROVE  NarratorInv'
<1> DEFINE q == req[r]
<1>1. q.pc = "call" /\ req' = [req EXCEPT ![r].pc = "store", ![r].text = req[r].packet]
  BY DEF Completes, At
<1>2. /\ q \in HandlersOf(load.inputs, PacketsOf(load.inputs))
      /\ q.reason \in {"", "no_findings_or_kb", "kb_only", "structured_sufficient",
                       "llm_disabled", "llm_error"}
      /\ q.packet.findings # <<>> => q.reason \in {"", "llm_disabled", "llm_error"}
      /\ q.age \in Nat /\ q.age < TTL
      /\ q.seen \in EntriesOf(PacketsOf(load.inputs))
  BY <1>1, AskingIs
<1>3. load' = load /\ now' = now /\ cache' = cache /\ made' = made /\ raced' = raced
  BY DEF Completes
<1>4. MayMove(q, "store", q.reason, q.packet, q.age, q.seen)
  BY <1>1, <1>2 DEF MayMove
<1>5. [q EXCEPT !.pc = "store", !.text = q.packet]
        = Moved(q, "store", q.reason, q.packet, q.age, q.seen)
  BY <1>2 DEF HandlersOf, Moved
<1>6. MovesBy(r, "store", q.reason, q.packet, q.age, q.seen)
  BY <1>1, <1>3, <1>5 DEF MovesBy
<1> QED BY <1>4, <1>6, MovesSound

\* The call fails, and the reply has no text.
LEMMA CallFailsSound ==
  ASSUME NarratorInv, NEW r \in Requests, CallFails(r)
  PROVE  NarratorInv'
<1> DEFINE q == req[r]
<1>1. q.pc = "call" /\ req' = [req EXCEPT ![r].pc = "reply", ![r].reason = "llm_error"]
  BY DEF CallFails, At
<1>2. /\ q \in HandlersOf(load.inputs, PacketsOf(load.inputs))
      /\ q.text \in {NoPacket, q.packet}
      /\ q.age \in Nat /\ q.age < TTL
      /\ q.seen \in EntriesOf(PacketsOf(load.inputs))
  BY <1>1, AskingIs
<1>3. load' = load /\ now' = now /\ cache' = cache /\ made' = made /\ raced' = raced
  BY DEF CallFails
<1>4. MayMove(q, "reply", "llm_error", q.text, q.age, q.seen)
  BY <1>1, <1>2 DEF MayMove
<1>5. [q EXCEPT !.pc = "reply", !.reason = "llm_error"]
        = Moved(q, "reply", "llm_error", q.text, q.age, q.seen)
  BY <1>2 DEF HandlersOf, Moved
<1>6. MovesBy(r, "reply", "llm_error", q.text, q.age, q.seen)
  BY <1>1, <1>3, <1>5 DEF MovesBy
<1> QED BY <1>4, <1>6, MovesSound

\* The reply is sent.
LEMMA RepliesSound ==
  ASSUME NarratorInv, NEW r \in Requests, Replies(r)
  PROVE  NarratorInv'
<1>1. req' = [req EXCEPT ![r] = NoRequest]
  BY DEF Replies
<1>2. load' = load /\ now' = now /\ cache' = cache /\ made' = made /\ raced' = raced
  BY DEF Replies
<1>3. load \in AnyLoad /\ NoPacket \in PacketsOf(load.inputs)
  BY HandlerIs
<1>4. /\ NoRequest \in HandlersOf(load.inputs, PacketsOf(load.inputs))
      /\ NoRequest.pc = "idle" /\ NoRequest.age = 0
  BY <1>3, NoRequestIs
<1>5. HandlerSound(NoRequest, load.inputs, now)
  BY <1>4, NarratorAssumption DEF HandlerSound
<1> QED BY <1>1, <1>2, <1>3, <1>4, <1>5, HandlerSteps

\* A day goes on: no text becomes fresh again.
LEMMA TickSound ==
  ASSUME NarratorInv, Tick
  PROVE  NarratorInv'
<1>1. /\ load.until > 0 /\ load' = [load EXCEPT !.until = load.until - 1] /\ now' = now + 1
      /\ cache' = cache /\ req' = req /\ made' = made /\ raced' = raced
  BY DEF Tick
<1>2. /\ load \in AnyLoad /\ now \in Nat
      /\ cache \subseteq EntriesOf(PacketsOf(load.inputs))
      /\ made \subseteq EntriesOf(PacketsOf(load.inputs))
      /\ req \in [Requests -> HandlersOf(load.inputs, PacketsOf(load.inputs))]
      /\ \A r \in Requests : HandlerSound(req[r], load.inputs, now)
      /\ CacheSound(cache, made, now) /\ FreshKept(made, cache, raced, now)
  BY CacheIs
<1>3. load' \in AnyLoad /\ load'.inputs = load.inputs
  BY <1>1, <1>2 DEF AnyLoad
<1>4. \A e \in cache \cup made : e.at \in Nat
  BY <1>2 DEF EntriesOf
<1>5. CacheSound(cache, made, now + 1)
  BY <1>2, <1>4 DEF CacheSound
<1>6. TTL \in Nat
  BY NarratorAssumption
<1>7. FreshKept(made, cache, raced, now + 1)
  BY <1>2, <1>4, <1>6 DEF FreshKept
<1>8. ASSUME NEW r \in Requests
      PROVE  HandlerSound(req[r], load.inputs, now + 1)
  <2>1. req[r].seen.at \in Nat
    BY <1>2 DEF HandlersOf, EntriesOf
  <2>2. HandlerSound(req[r], load.inputs, now)
    BY <1>2
  <2>3. ~(now - req[r].seen.at < TTL) => ~((now + 1) - req[r].seen.at < TTL)
    BY <1>2, <1>6, <2>1
  <2> QED BY <2>2, <2>3, Zenon DEF HandlerSound
<1>9. Sound(load', now', cache', req', made', raced')
  BY <1>1, <1>2, <1>3, <1>5, <1>7, <1>8 DEF Sound
<1> QED BY <1>9, InvariantIs

\* Delete takes the entry of the key whoever stored it: a fresh one that goes is raced.
LEMMA DeletesSound ==
  ASSUME NarratorInv, NEW r \in Requests, Deletes(r)
  PROVE  NarratorInv'
<1> DEFINE q == req[r]
           key == q.packet
           I == load.inputs
           P == PacketsOf(I)
           new == [q EXCEPT !.pc = "call", !.seen = NoEntry]
<1>1. /\ q.pc = "delete" /\ cache' = cache \ Entries(key)
      /\ req' = [req EXCEPT ![r] = new]
      /\ load' = load /\ now' = now /\ made' = made
      /\ raced' = IF Entries(key) \ {q.seen} # {} THEN raced \cup {key} ELSE raced
  BY DEF Deletes, At, Fingerprint
<1>2. /\ load \in AnyLoad /\ now \in Nat
      /\ cache \subseteq EntriesOf(P) /\ made \subseteq EntriesOf(P)
      /\ req \in [Requests -> HandlersOf(I, P)]
      /\ \A s \in Requests : HandlerSound(req[s], I, now)
      /\ CacheSound(cache, made, now) /\ FreshKept(made, cache, raced, now)
  BY CacheIs
<1>3. q \in HandlersOf(I, P) /\ HandlerSound(q, I, now) /\ ~(now - q.seen.at < TTL)
  BY <1>1, <1>2 DEF HandlerSound
<1>4. NoEntry \in EntriesOf(P)
  <2>1. NoPacket \in P
    BY DEF PacketsOf
  <2> QED BY <2>1, NoRequestIs
<1> HIDE DEF I, P
<1>5. /\ new \in HandlersOf(I, P) /\ new.pc = "call" /\ new.in = q.in /\ new.packet = q.packet
      /\ new.text = q.text /\ new.reason = q.reason /\ new.age = q.age
  BY <1>3, <1>4 DEF HandlersOf
<1> HIDE DEF new
<1>6. HandlerSound(new, I, now)
  BY <1>1, <1>3, <1>5 DEF HandlerSound
<1>7. /\ req' \in [Requests -> HandlersOf(I, P)]
      /\ \A s \in Requests : HandlerSound(req'[s], I, now)
  BY <1>1, <1>2, <1>5, <1>6
<1>8. CacheSound(cache', made, now)
  <2>1. cache' \subseteq cache
    BY <1>1
  <2> QED BY <1>2, <2>1 DEF CacheSound
<1>9. FreshKept(made, cache', raced', now)
  <2>1. SUFFICES ASSUME NEW t \in made, now - t.at < TTL
                 PROVE  t.key \in raced' \/ \E e \in cache' : e.key = t.key /\ e.at >= t.at
    BY DEF FreshKept
  <2>2. t.key \in raced \/ \E e \in cache : e.key = t.key /\ e.at >= t.at
    BY <1>2, <2>1 DEF FreshKept
  <2>3. CASE t.key \in raced
    BY <1>1, <2>3
  <2>4. ASSUME NEW e \in cache, e.key = t.key, e.at >= t.at
        PROVE  t.key \in raced' \/ \E f \in cache' : f.key = t.key /\ f.at >= t.at
    <3>1. CASE e \notin Entries(key)
      BY <1>1, <2>4, <3>1
    <3>2. CASE e \in Entries(key) /\ Entries(key) \ {q.seen} # {}
      <4>1. t.key = key
        BY <2>4, <3>2 DEF Entries
      <4> QED BY <1>1, <3>2, <4>1
    <3>3. CASE e \in Entries(key) /\ Entries(key) \ {q.seen} = {}
      <4>1. e = q.seen
        BY <3>3
      <4>2. ~(now - e.at < TTL)
        BY <1>3, <4>1
      <4>3. e.at \in Nat /\ t.at \in Nat /\ TTL \in Nat
        BY <1>2, <2>1, NarratorAssumption DEF EntriesOf
      <4> QED BY <1>2, <2>1, <2>4, <4>2, <4>3
    <3> QED BY <3>1, <3>2, <3>3
  <2> QED BY <2>2, <2>3, <2>4
<1>10. cache' \subseteq EntriesOf(P)
  BY <1>1, <1>2
<1>11. Sound(load', now', cache', req', made', raced')
  BY <1>1, <1>2, <1>7, <1>8, <1>9, <1>10 DEF Sound, I, P
<1> QED BY <1>11, InvariantIs

\* Store replaces the entry of the key by the newest.
LEMMA StoresSound ==
  ASSUME NarratorInv, NEW r \in Requests, Stores(r)
  PROVE  NarratorInv'
<1> DEFINE q == req[r]
           key == q.packet
           I == load.inputs
           P == PacketsOf(I)
           e == [key |-> key, of |-> q.text, at |-> now]
           new == [q EXCEPT !.pc = "reply"]
<1>1. /\ q.pc = "store" /\ cache' = (cache \ Entries(e.key)) \cup {e}
      /\ made' = made \cup {e}
      /\ req' = [req EXCEPT ![r] = new]
      /\ load' = load /\ now' = now /\ raced' = raced
  BY DEF Stores, At, Fingerprint
<1>2. /\ load \in AnyLoad /\ now \in Nat
      /\ cache \subseteq EntriesOf(P) /\ made \subseteq EntriesOf(P)
      /\ req \in [Requests -> HandlersOf(I, P)]
      /\ \A s \in Requests : HandlerSound(req[s], I, now)
      /\ CacheSound(cache, made, now) /\ FreshKept(made, cache, raced, now)
  BY CacheIs
<1>3. q \in HandlersOf(I, P) /\ HandlerSound(q, I, now) /\ q.text = key
  BY <1>1, <1>2 DEF HandlerSound
<1> HIDE DEF I, P
<1>4. key \in P
  BY <1>3 DEF HandlersOf
<1>5. e \in EntriesOf(P) /\ e.key = key /\ e.of = key /\ e.at = now
  BY <1>2, <1>3, <1>4 DEF EntriesOf
<1> HIDE DEF e
<1>6. /\ new \in HandlersOf(I, P) /\ new.pc = "reply" /\ new.in = q.in /\ new.packet = q.packet
      /\ new.text = q.text /\ new.reason = q.reason /\ new.age = q.age
  BY <1>3 DEF HandlersOf
<1> HIDE DEF new
<1>7. HandlerSound(new, I, now)
  BY <1>1, <1>3, <1>6 DEF HandlerSound
<1>8. /\ req' \in [Requests -> HandlersOf(I, P)]
      /\ \A s \in Requests : HandlerSound(req'[s], I, now)
  BY <1>1, <1>2, <1>6, <1>7
<1>9. cache' \subseteq EntriesOf(P) /\ made' \subseteq EntriesOf(P)
  BY <1>1, <1>2, <1>5
<1>10. \A f \in cache' : f = e \/ (f \in cache /\ f.key # key)
  BY <1>1, <1>5 DEF Entries
<1>11. CacheSound(cache', made', now)
  <2>1. \A f \in cache' : f.of = f.key
    BY <1>2, <1>5, <1>10 DEF CacheSound
  <2>2. \A f, g \in cache' : f.key = g.key => f = g
    BY <1>2, <1>5, <1>10 DEF CacheSound
  <2>3. \A t \in cache' \cup made' : t.at <= now
    BY <1>1, <1>2, <1>5, <1>10 DEF CacheSound
  <2> QED BY <2>1, <2>2, <2>3 DEF CacheSound
<1>12. FreshKept(made', cache', raced', now)
  <2>1. SUFFICES ASSUME NEW t \in made', now - t.at < TTL
                 PROVE  t.key \in raced' \/ \E f \in cache' : f.key = t.key /\ f.at >= t.at
    BY DEF FreshKept
  <2>2. CASE t.key = key
    <3>1. e \in cache' /\ e.key = t.key /\ e.at = now /\ t.at <= now
      BY <1>1, <1>5, <1>11, <2>2 DEF CacheSound
    <3>2. t.at \in Nat
      BY <1>9 DEF EntriesOf
    <3> QED BY <1>2, <3>1, <3>2
  <2>3. CASE t.key # key
    <3>1. t \in made
      BY <1>1, <1>5, <2>3
    <3>2. t.key \in raced \/ \E f \in cache : f.key = t.key /\ f.at >= t.at
      BY <1>2, <2>1, <3>1 DEF FreshKept
    <3>3. \A f \in cache : f.key = t.key => f \in cache'
      BY <1>1, <1>5, <2>3 DEF Entries
    <3> QED BY <1>1, <3>2, <3>3
  <2> QED BY <2>2, <2>3
<1>13. Sound(load', now', cache', req', made', raced')
  BY <1>1, <1>2, <1>8, <1>9, <1>11, <1>12 DEF Sound, I, P
<1> QED BY <1>13, InvariantIs

\* The inductive invariant holds of every run: a cached text is of its own packet, a
\* handler has the packet of its own input, and a fresh text is found unless Delete raced it.
THEOREM NarratorInvariance == NarratorSpec => []NarratorInv
<1>1. NarratorInit => NarratorInv
  BY SoundAtFirst
<1>2. NarratorInv /\ [NarratorNext]_narratorVars => NarratorInv'
  <2>1. SUFFICES ASSUME NarratorInv, [NarratorNext]_narratorVars PROVE NarratorInv'
    OBVIOUS
  <2>2. CASE \E r \in Requests :
               \/ Explains(r) \/ Narrates(r) \/ Loads(r) \/ Deletes(r)
               \/ Completes(r) \/ CallFails(r) \/ Stores(r) \/ Replies(r)
    BY <2>1, <2>2, ExplainsSound, NarratesSound, LoadsSound, DeletesSound, CompletesSound,
       CallFailsSound, StoresSound, RepliesSound
  <2>3. CASE Tick
    BY <2>1, <2>3, TickSound
  <2>4. CASE UNCHANGED narratorVars
    <3>1. Sound(load, now, cache, req, made, raced)
      BY <2>1, InvariantIs
    <3>2. /\ load' = load /\ now' = now /\ cache' = cache /\ req' = req /\ made' = made
          /\ raced' = raced
      BY <2>4 DEF narratorVars
    <3>3. Sound(load', now', cache', req', made', raced')
      BY <3>1, <3>2
    <3> QED BY <3>3, InvariantIs
  <2> QED BY <2>1, <2>2, <2>3, <2>4 DEF NarratorNext
<1> QED BY <1>1, <1>2, PTL DEF NarratorSpec

\* A packet has the strongest findings of all the rules, strongest first, whatever the car.
THEOREM StrongestFirst == NarratorSpec => []StrongestInPacket
<1>1. ASSUME NarratorInv PROVE StrongestInPacket
  <2>1. SUFFICES ASSUME NEW r \in Requests, InHand(r)
                 PROVE  KeepsStrongest(req[r].in, req[r].packet.findings)
    BY DEF StrongestInPacket
  <2>2. req[r].pc # "idle"
    BY <2>1 DEF InHand, At
  <2>3. req[r].packet = BuildPacket(req[r].in)
    BY <1>1, <2>2, AskingIs
  <2> QED BY <2>3, PacketKeepsStrongest
<1> QED BY <1>1, NarratorInvariance, PTL

\* An explanation of a code the scan did not store finds what a scan with it would.
THEOREM AskingIsScanning == NarratorSpec => []FocusIsEnough
<1>1. ASSUME NarratorInv PROVE FocusIsEnough
  <2>1. SUFFICES ASSUME NEW r \in Requests, InHand(r), req[r].in.focus \notin Cylinders
                 PROVE  LET in == req[r].in
                            scanned == [in EXCEPT !.codes = @ \cup {in.focus}]
                            air == IF in.focus = 174 THEN {"maf.low_vs_rpm", "maf.high_vs_rpm"}
                                   ELSE {} IN
                        Ids(in) \ air = Ids(scanned) \ air
    BY Zenon DEF FocusIsEnough
  <2>2. req[r].pc # "idle"
    BY <2>1 DEF InHand, At
  <2>3. req[r].in \in AnyInput
    <3>1. req[r].in \in load.inputs
      BY <1>1, <2>2, AskingIs
    <3>2. load \in AnyLoad
      BY <1>1, CacheIs
    <3> QED BY <3>1, <3>2 DEF AnyLoad
  <2> QED BY <2>1, <2>3, FocusFindsTheSame DEF WithFocus
<1> QED BY <1>1, NarratorInvariance, PTL

\* The reply to a request with findings never says "structured_sufficient".
SkipIsNeverTaken ==
  \A r \in Requests : InHand(r) /\ req[r].packet.findings # <<>> =>
    req[r].reason \in {"", "llm_disabled", "llm_error"}

\* WorthNarrating prefers to skip the model when a single finding of high confidence
\* stands beside an article (the comment at packet.go:125, docs/llm-context.md:40).  It
\* never does: no rule of the engine is as sure as packet.go:133 asks, whatever the scan,
\* the freeze frame, the history and the fleet are.
THEOREM TheSkipIsNeverTaken == NarratorSpec => []SkipIsNeverTaken
<1>1. ASSUME NarratorInv PROVE SkipIsNeverTaken
  <2>1. SUFFICES ASSUME NEW r \in Requests, InHand(r), req[r].packet.findings # <<>>
                 PROVE  req[r].reason \in {"", "llm_disabled", "llm_error"}
    BY DEF SkipIsNeverTaken
  <2>2. req[r].pc # "idle"
    BY <2>1 DEF InHand, At
  <2> QED BY <1>1, <2>1, <2>2, AskingIs
<1> QED BY <1>1, NarratorInvariance, PTL

\* No reply has the text of another packet or an expired one, however the requests
\* interleave at the cache.
THEOREM OwnText == NarratorSpec => []TextIsOwn
<1>1. ASSUME NarratorInv PROVE TextIsOwn
  <2>1. SUFFICES ASSUME NEW r \in Requests, At(r, "reply"), req[r].text # NoPacket
                 PROVE  req[r].text = req[r].packet /\ req[r].age < TTL
    BY DEF TextIsOwn
  <2>2. req[r].pc # "idle"
    BY <2>1 DEF At
  <2> QED BY <1>1, <2>1, <2>2, AskingIs
<1> QED BY <1>1, NarratorInvariance, PTL

\* A text stored less than a day ago is not made a second time, unless a Delete that
\* was meant for an older entry took it.
THEOREM OneCallADay == NarratorSpec => CachedForADay
<1> DEFINE Cached ==
      \A r \in Requests : At(r, "load") /\ req'[r].pc \in {"delete", "call"} =>
        LET key == Fingerprint(req[r].packet) IN
        key \in raced \/ \A t \in made : t.key = key => now - t.at >= TTL
<1>1. ASSUME NarratorInv, [NarratorNext]_narratorVars PROVE Cached
  <2>1. SUFFICES ASSUME NEW r \in Requests, At(r, "load"), req'[r].pc \in {"delete", "call"},
                        req[r].packet \notin raced,
                        NEW t \in made, t.key = req[r].packet, now - t.at < TTL
                 PROVE  FALSE
    <3>1. now \in Nat /\ TTL \in Nat /\ \A s \in made : s.at \in Nat
      BY <1>1, CacheIs, NarratorAssumption DEF EntriesOf
    <3> QED BY <3>1 DEF Fingerprint
  <2>2. /\ req \in [Requests -> HandlersOf(load.inputs, PacketsOf(load.inputs))]
        /\ cache \subseteq EntriesOf(PacketsOf(load.inputs))
        /\ made \subseteq EntriesOf(PacketsOf(load.inputs))
        /\ CacheSound(cache, made, now) /\ FreshKept(made, cache, raced, now)
        /\ now \in Nat /\ TTL \in Nat
    BY <1>1, CacheIs, NarratorAssumption
  <2>3. PICK e \in cache : e.key = req[r].packet /\ e.at >= t.at
    BY <2>1, <2>2 DEF FreshKept
  <2>4. Fresh(e)
    <3>1. e.at \in Nat /\ t.at \in Nat
      BY <2>1, <2>2, <2>3 DEF EntriesOf
    <3> QED BY <2>1, <2>2, <2>3, <3>1 DEF Fresh
  <2>5. \A f \in cache : f.key = req[r].packet => f = e
    BY <2>2, <2>3 DEF CacheSound
  <2>6. req[r].pc = "load"
    BY <2>1 DEF At
  <2>7. Loads(r)
    <3>1. req'[r] # req[r]
      BY <2>1, <2>6
    <3>2. NarratorNext
      BY <1>1, <3>1 DEF narratorVars
    <3>3. ASSUME NEW s \in Requests,
                 \/ Explains(s) \/ Narrates(s) \/ Deletes(s)
                 \/ Completes(s) \/ CallFails(s) \/ Stores(s) \/ Replies(s)
          PROVE  FALSE
      <4>1. req[s].pc # "load" /\ \A u \in Requests : u # s => req'[u] = req[u]
        BY <2>2, <3>3 DEF Explains, Narrates, Deletes, Completes, CallFails, Stores, Replies, At
      <4> QED BY <2>6, <3>1, <4>1
    <3>4. ASSUME NEW s \in Requests, Loads(s)
          PROVE  s = r
      BY <2>2, <3>1, <3>4 DEF Loads
    <3>5. ~Tick
      BY <3>1 DEF Tick
    <3> QED BY <3>2, <3>3, <3>4, <3>5 DEF NarratorNext
  <2>8. Entries(Fingerprint(req[r].packet)) = {e}
    BY <2>3, <2>5 DEF Entries, Fingerprint
  <2>9. req' = [req EXCEPT ![r].pc = "reply", ![r].text = e.of, ![r].age = now - e.at]
    BY <2>4, <2>7, <2>8, Zenon DEF Loads
  <2>10. req'[r].pc = "reply"
    BY <2>2, <2>9 DEF HandlersOf
  <2> QED BY <2>1, <2>10
<1>2. NarratorInv /\ [NarratorNext]_narratorVars => [Cached]_narratorVars
  BY <1>1
<1>3. CachedForADay <=> [][Cached]_narratorVars
  BY DEF CachedForADay
<1> QED BY <1>2, <1>3, NarratorInvariance, PTL DEF NarratorSpec
=============================================================================
