------------------------------- MODULE Triage -------------------------------
(***************************************************************************)
(* What MechMind makes of a trouble code: the rules of Analyze and their   *)
(* ranking (internal/diagnosis/engine.go), and the packet an LLM is given  *)
(* (internal/explain/packet.go).  All of it is pure; Narrator runs it.     *)
(*                                                                         *)
(* A code is its number: P0171 is 171.  Readings are whole: rpm, km/h,     *)
(* percent, millivolts of a lambda sensor, tenths of a volt, tenths of a   *)
(* gram of air per second.  A line of evidence is the numbers in it; the   *)
(* titles and severities go with the ids and are left out, as are the      *)
(* related codes.  Rates are fractions, compared as such.                  *)
(***************************************************************************)
EXTENDS Integers, Sequences, FiniteSets, SequencesExt

CONSTANT None   \* nil: a reading, a frame, a pack or an article that is not there

Finding(id, confidence, evidence) ==
  [id |-> id, confidence |-> confidence, evidence |-> evidence]

\* A rule finds one thing or nothing.
If(holds, finding) == IF holds THEN <<finding>> ELSE <<>>

\* One of the codes is in the scan, or it is the one asked about.
Has(in, C)   == in.codes \cap C # {}
About(in, C) == Has(in, C) \/ in.focus \in C

\* The live sample is there and has these readings.
Given(in, F) ==
  /\ in.obs # None
  /\ in.obs.live # None
  /\ \A f \in F : in.obs.live[f] # None

OrZero(reading) == IF reading = None THEN 0 ELSE reading

LeanCodes == {171, 174}
Cylinders == 301..306
-----------------------------------------------------------------------------
(* The rules *)

Idle(live) ==
  /\ OrZero(live.rpm) \in 1..1099
  /\ OrZero(live.speed) < 3

TrimIdleVsCruise(in) ==
  LET live == in.obs.live
      trims == <<live.st, live.lt>>
      atRpm == Append(trims, OrZero(live.rpm))
      lean == About(in, LeanCodes) IN
  IF ~Given(in, {"st", "lt"}) THEN <<>>
  ELSE If(lean /\ Idle(live) /\ live.st > 12 /\ live.lt > 10,
          Finding("trim.idle_lean_unmetered_air", 78, <<atRpm, <<>>>>))
    \o If(lean /\ ~Idle(live) /\ OrZero(live.rpm) > 1800 /\ live.st > 10 /\ live.lt > 10,
          Finding("trim.cruise_lean_fuel_or_maf", 72, <<atRpm>>))
    \o If(About(in, {172}) /\ live.st < -12 /\ live.lt < -8,
          Finding("trim.rich_bias", 70, <<trims>>))

\* maf over 3.5 g/s, or 8 under load, at 800 rpm, is below 0.55 or above 1.8.  At
\* 600 rpm and more the floor of 0.5 of the code is never reached.  Asked about
\* P0174 the rule wants a lean code in the scan, asked about P0171 it does not.
MafPlausibility(in) ==
  LET live == in.obs.live
      idle == IF OrZero(live.load) > 40 THEN 80 ELSE 35
      leanish == Has(in, LeanCodes) \/ in.focus = 171
      seen == <<<<live.maf, live.rpm>>>> IN
  IF ~Given(in, {"maf", "rpm"}) \/ live.rpm < 600 THEN <<>>
  ELSE If(leanish /\ 80000 * live.maf < 55 * idle * live.rpm,
          Finding("maf.low_vs_rpm", 68, seen))
    \o If(leanish /\ 8000 * live.maf > 18 * idle * live.rpm,
          Finding("maf.high_vs_rpm", 60, seen))

\* Mutant of O2CatalystProxy: P0420 has to be in the scan.
O2CatalystScanned(in) ==
  LET live == in.obs.live IN
  IF ~Given(in, {"front", "rear"}) THEN <<>>
  ELSE If(/\ Has(in, {420})
          /\ live.front - live.rear \in -49..49
          /\ live.rear \in 401..699,
          Finding("o2.rear_tracks_front", 55, <<<<live.front, live.rear>>>>))

O2CatalystProxy(in) ==
  LET live == in.obs.live IN
  IF ~Given(in, {"front", "rear"}) THEN <<>>
  ELSE If(/\ About(in, {420})
          /\ live.front - live.rear \in -49..49
          /\ live.rear \in 401..699,
          Finding("o2.rear_tracks_front", 55, <<<<live.front, live.rear>>>>))

\* The frame stored with the code goes before the one of the observations; a frame
\* without an rpm is still a frame.
Frame(in) == IF in.frame # None THEN in.frame ELSE in.obs.frame

FreezeFrameMismatch(in) ==
  LET frame == Frame(in)
      rpm == in.obs.live.rpm IN
  IF ~Given(in, {"rpm"}) \/ frame = None THEN <<>>
  ELSE If(frame.rpm # None /\ frame.rpm - rpm \notin -800..800,
          Finding("ff.condition_mismatch", 74, <<<<frame.rpm, rpm>>>>))

MisfireFingerprint(in) ==
  LET cyl == in.codes \cap Cylinders IN
  IF ~About(in, {300}) THEN <<>>
  ELSE If(Cardinality(cyl) = 1,
          Finding("misfire.single_cylinder", 80, <<SetToSeq(cyl)>>))
    \o If(cyl = {} /\ Given(in, {"st"}) /\ in.obs.live.st > 12,
          Finding("misfire.with_lean_trims", 66, <<<<in.obs.live.st>>>>))

\* The link metrics are their confidence; 0 is that of a link without a command.
LinkFragility(in) ==
  If(in.obs # None /\ OrZero(in.obs.link) \in 1..54,
     Finding("link.fragile", 62, <<<<in.obs.link>>>>))

ModuleVoltage(in) ==
  If(Given(in, {"volts"}) /\ in.obs.live.volts \in 1..117,
     Finding("power.low_module_voltage", 76, <<<<in.obs.live.volts>>>>))

\* take, and the cuts beside it.
Top(s, n) == IF Len(s) <= n THEN s ELSE SubSeq(s, 1, n)

\* A row of the co-occurrence is a code and in how many of the scans with the focus
\* it was; every fourth or more is enough.
Often(row) == 4 * row.with >= row.of

CoOccurrenceFindings(in) ==
  LET rows == SelectSeq(Top(in.co, 3), LAMBDA row : Often(row) /\ row.with >= 2) IN
  If(rows # <<>>,
     Finding("fleet.cooccurrence", 58,
             [i \in DOMAIN rows |-> <<rows[i].code, rows[i].with, rows[i].of>>]))

Findings(in) ==
  TrimIdleVsCruise(in) \o MafPlausibility(in) \o O2CatalystProxy(in)
    \o FreezeFrameMismatch(in) \o MisfireFingerprint(in) \o LinkFragility(in)
    \o ModuleVoltage(in) \o CoOccurrenceFindings(in)
-----------------------------------------------------------------------------
(* The ranking and the packet *)

\* Mutant of Insert: one exchange with the last one and no further.
InsertOnce(ranked, finding) ==
  IF ranked # <<>> /\ Last(ranked).confidence < finding.confidence
  THEN InsertAt(ranked, Len(ranked), finding)
  ELSE Append(ranked, finding)

\* A step of the insertion sort: behind the last one that is not weaker.
Insert(ranked, finding) ==
  LET i == SelectLastInSeq(ranked, LAMBDA f : f.confidence >= finding.confidence) IN
  InsertAt(ranked, i + 1, finding)

Analyze(in) == FoldLeft(Insert, <<>>, Findings(in))

\* round2 of a rate, in percent.
Percent(row) == (200 * row.with + row.of) \div (2 * row.of)

\* The article and the car are taken as they are; the cuts of their texts are left out.
BuildPacket(in) ==
  LET findings == Top(Analyze(in), 3)
      often == Top(SelectSeq(in.co, Often), 2) IN
  [ code     |-> in.focus,
    vehicle  |-> in.vehicle,
    findings |-> [i \in DOMAIN findings |->
                    [findings[i] EXCEPT !.evidence = Top(findings[i].evidence, 2)]],
    kb       |-> in.article,
    coOccur  |-> [i \in DOMAIN often |-> <<often[i].code, Percent(often[i])>>],
    history  |-> Top(in.history, 2) ]

\* The reason an LLM is asked for ("forced", "ok") or is not.
WorthNarrating(p, force) ==
  IF force THEN "forced"
  ELSE IF p.findings = <<>>
       THEN IF p.kb = None THEN "no_findings_or_kb" ELSE "kb_only"
  ELSE IF Len(p.findings) = 1 /\ p.findings[1].confidence >= 85 /\ p.kb # None
       THEN "structured_sufficient"
  ELSE "ok"
-----------------------------------------------------------------------------
(* What the result must be, said without its algorithm *)

Ids(in) == { f.id : f \in ToSet(Findings(in)) }

\* The findings that are kept are the strongest, in their order.
KeepsStrongest(in, kept) ==
  LET all == ToSet(Findings(in))
      of(i) == CHOOSE f \in all : f.id = kept[i].id IN
  /\ \A i \in DOMAIN kept : \E f \in all : f.id = kept[i].id
  /\ Len(kept) = 3 \/ Len(kept) = Cardinality(all)
  /\ \A i \in DOMAIN kept :
       Cardinality({ f \in all : f.confidence > of(i).confidence }) = i - 1
=============================================================================
