--------------------------- MODULE UsbPortProofs ---------------------------
(***************************************************************************)
(* Theorems about UsbPort, for any number of handles, rates, attempts and  *)
(* scans.  Its actions change the adapter's variables in few ways: not at  *)
(* all, one record of a handle, or a port that is abandoned, identified or *)
(* taken.  Each way has a lemma, and the actions are cases of them.        *)
(***************************************************************************)
EXTENDS UsbPort, TLAPS

Inv == TypeOK /\ PortInv

HandleMaps == [Handles -> HandleRecords]
HandleStates == {"free", "opening", "ready", "failed", "orphan", "held", "closing"}
Waiting == {"opening", "ready", "failed"}

USE PortAssumption, NoHandleAssumption
-----------------------------------------------------------------------------
(* One record of a handle is changed *)

LEMMA SetSt ==
  ASSUME NEW hs \in HandleMaps, NEW h \in Handles, NEW st \in HandleStates
  PROVE  LET g == [hs EXCEPT ![h].st = st] IN
           /\ g \in HandleMaps
           /\ g[h].st = st /\ g[h].mode = hs[h].mode /\ g[h].spoke = hs[h].spoke
           /\ \A k \in Handles : k # h => g[k] = hs[k]
  BY DEF HandleMaps, HandleRecords, HandleStates

LEMMA SetMode ==
  ASSUME NEW hs \in HandleMaps, NEW h \in Handles, NEW b \in 0..Bauds
  PROVE  LET g == [hs EXCEPT ![h].mode = b] IN
           /\ g \in HandleMaps
           /\ g[h].st = hs[h].st /\ g[h].mode = b /\ g[h].spoke = hs[h].spoke
           /\ \A k \in Handles : k # h => g[k] = hs[k]
  BY DEF HandleMaps, HandleRecords

LEMMA SetSpoke ==
  ASSUME NEW hs \in HandleMaps, NEW h \in Handles, NEW b \in 0..Bauds
  PROVE  LET g == [hs EXCEPT ![h].spoke = b] IN
           /\ g \in HandleMaps
           /\ g[h].st = hs[h].st /\ g[h].mode = hs[h].mode /\ g[h].spoke = b
           /\ \A k \in Handles : k # h => g[k] = hs[k]
  BY DEF HandleMaps, HandleRecords

LEMMA SetStuck ==
  ASSUME NEW hs \in HandleMaps, NEW h \in Handles
  PROVE  LET g == [hs EXCEPT ![h].stuck = TRUE] IN
           /\ g \in HandleMaps
           /\ g[h].st = hs[h].st /\ g[h].mode = hs[h].mode /\ g[h].spoke = hs[h].spoke
           /\ \A k \in Handles : k # h => g[k] = hs[k]
  BY DEF HandleMaps, HandleRecords

LEMMA SetFree ==
  ASSUME NEW hs \in HandleMaps, NEW h \in Handles
  PROVE  LET g == [hs EXCEPT ![h] = Free] IN
           /\ g \in HandleMaps
           /\ g[h].st = "free"
           /\ \A k \in Handles : k # h => g[k] = hs[k]
  BY DEF HandleMaps, HandleRecords, Free

LEMMA SetOpening ==
  ASSUME NEW hs \in HandleMaps, NEW h \in Handles, NEW b \in 1..Bauds
  PROVE  LET g == [hs EXCEPT ![h] = Opening(b)] IN
           /\ g \in HandleMaps
           /\ g[h].st = "opening" /\ g[h].mode = b
           /\ \A k \in Handles : k # h => g[k] = hs[k]
  <1>2. Opening(b) \in HandleRecords
    BY DEF HandleRecords, Opening
  <1>3. \A r \in HandleRecords :
          /\ [hs EXCEPT ![h] = r] \in HandleMaps
          /\ [hs EXCEPT ![h] = r][h] = r
          /\ \A k \in Handles : k # h => [hs EXCEPT ![h] = r][k] = hs[k]
    BY DEF HandleMaps
  <1>4. Opening(b).st = "opening" /\ Opening(b).mode = b
    BY DEF Opening
  <1> QED BY <1>2, <1>3, <1>4, Zenon

\* The handles after a command on the port: what an invariant looks at is as before.
LEMMA AfterKeeps ==
  ASSUME NEW o, handle \in HandleMaps, port \in Handles
  PROVE  /\ After(o) \in HandleMaps
         /\ After(o)[port].st = handle[port].st
         /\ After(o)[port].mode = handle[port].mode
         /\ After(o)[port].spoke = handle[port].spoke
         /\ \A k \in Handles : k # port => After(o)[k] = handle[k]
  BY SetStuck DEF After
-----------------------------------------------------------------------------
(* What the invariant says where an action starts *)

PCs == {"idle", "opening", "next", "gone", "reopening"} \cup OnPort

FlagsOK == dead \in BOOLEAN /\ sawDead \in BOOLEAN /\ present \in BOOLEAN

\* Places and counters, typed and in step.
CountersOK ==
  /\ scans \in 0..MaxScans
  /\ pc \in PCs
  /\ rate \in 1..Bauds
  /\ tries \in 0..(AtiTries + ConfigLast)
  /\ pc = "ati" => tries \in 1..AtiTries
  /\ pc = "config" => tries \in 0..ConfigLast

\* The rest, about the port and the handles.
PortsOK ==
  /\ port \in Handles \cup {NoHandle} /\ want \in Handles \cup {NoHandle}
  /\ baud \in 1..Bauds
  /\ handle \in HandleMaps
  /\ \A h \in Handles :
       /\ handle[h].st = "held" => port = h /\ pc # "idle"
       /\ handle[h].st \in Waiting => want = h /\ pc \in {"opening", "reopening"}
       /\ handle[h].st # "free" => handle[h].mode > 0
  /\ port # NoHandle => handle[port].mode = baud /\ handle[port].st = "held"
  /\ pc \in Talking => handle[port].spoke = handle[port].mode
  /\ pc \in OnPort => port # NoHandle
  /\ pc \in {"idle", "opening", "gone", "reopening"} => port = NoHandle
  /\ pc \in {"opening", "reopening"} => want # NoHandle /\ handle[want].st \in Waiting
  /\ pc \notin {"opening", "reopening"} => want = NoHandle

LEMMA InvIs == Inv <=> FlagsOK /\ CountersOK /\ PortsOK
  BY DEF Inv, FlagsOK, TypeOK, PortInv, NoHandleLeft, BaudInStep, TalksToELM, CountersOK, PortsOK,
         PCs, HandleMaps, Waiting
-----------------------------------------------------------------------------
(* The ways in which a step changes the adapter's variables *)

\* Not at all: the scan moves on the port it has, or to the next rate.
LEMMA QuietStep ==
  ASSUME PortsOK, pc' \in PCs, UNCHANGED adapterVars,
         pc' \in OnPort => pc \in OnPort,
         pc' \in Talking => pc \in Talking,
         pc' \in {"idle", "opening", "gone", "reopening"} \/ pc \in {"idle", "opening", "reopening"}
           => pc' = pc
  PROVE  PortsOK'
<1>1. port' = port /\ want' = want /\ baud' = baud /\ handle' = handle
  BY DEF adapterVars
<1>2. pc' \in {"idle", "opening", "reopening"} <=> pc \in {"idle", "opening", "reopening"}
  OBVIOUS
<1> QED
  BY <1>1, <1>2 DEF PortsOK, Talking, OnPort

\* The port is abandoned, after a command or without one.
LEMMA AbandonStep ==
  ASSUME PortsOK, pc \in OnPort \cup {"next"}, pc' \in {"idle", "gone"},
         NEW hs, Abandons(hs),
         hs \in HandleMaps, port # NoHandle => hs[port].mode = handle[port].mode,
         \A k \in Handles : k # port => hs[k] = handle[k]
  PROVE  PortsOK'
<1>1. port' = NoHandle /\ handle' = Closing(hs) /\ baud' = baud /\ want' = want
  BY DEF Abandons
<1>2. want = NoHandle
  BY DEF PortsOK, OnPort, Talking
<1>3. CASE port = NoHandle
  <2>1. handle' = hs
    BY <1>1, <1>3 DEF Closing
  <2>2. \A k \in Handles : hs[k] = handle[k]
    BY <1>3
  <2> QED
    BY <1>1, <1>2, <1>3, <2>1, <2>2 DEF PortsOK, OnPort, Talking
<1>4. CASE port # NoHandle
  <2>1. port \in Handles
    BY <1>4 DEF PortsOK
  <2>2. /\ handle' \in HandleMaps
        /\ handle'[port].st = "closing" /\ handle'[port].mode = hs[port].mode
        /\ \A k \in Handles : k # port => handle'[k] = hs[k]
    <3>1. handle' = [hs EXCEPT ![port].st = "closing"]
      BY <1>1, <1>4 DEF Closing
    <3>2. "closing" \in HandleStates
      BY DEF HandleStates
    <3> DEFINE g == [hs EXCEPT ![port].st = "closing"]
    <3>3. /\ g \in HandleMaps
          /\ g[port].st = "closing" /\ g[port].mode = hs[port].mode
          /\ \A k \in Handles : k # port => g[k] = hs[k]
      BY <2>1, <3>2, SetSt
    <3> QED
      BY <3>1, <3>3, Zenon
  <2>3. handle[port].st = "held" /\ handle[port].mode > 0
    BY <1>4, <2>1 DEF PortsOK
  <2>4. \A h \in Handles :
          /\ handle'[h].st # "held" /\ handle'[h].st \notin Waiting
          /\ handle'[h].st # "free" => handle'[h].mode > 0
    <3> SUFFICES ASSUME NEW h \in Handles
                 PROVE  /\ handle'[h].st # "held" /\ handle'[h].st \notin Waiting
                        /\ handle'[h].st # "free" => handle'[h].mode > 0
      OBVIOUS
    <3>1. CASE h = port
      BY <1>4, <2>2, <2>3, <3>1 DEF Waiting
    <3>2. CASE h # port
      <4>1. handle'[h] = handle[h]
        BY <2>1, <2>2, <3>2
      <4> QED
        BY <4>1, <3>2, <1>2 DEF PortsOK
    <3> QED BY <3>1, <3>2
  <2> QED
    BY <1>1, <1>2, <2>2, <2>4 DEF PortsOK, OnPort, Talking
<1> QED BY <1>3, <1>4

\* A command on the port, without a change of what the invariant looks at, or with
\* the name of an ELM.
LEMMA HeldStep ==
  ASSUME PortsOK, pc \in OnPort, pc' \in OnPort, UNCHANGED <<port, baud, want>>,
         handle' \in HandleMaps,
         handle'[port].st = handle[port].st, handle'[port].mode = handle[port].mode,
         pc' \in Talking => handle'[port].spoke = handle'[port].mode,
         \A k \in Handles : k # port => handle'[k] = handle[k]
  PROVE  PortsOK'
<1>1. port \in Handles /\ want = NoHandle
  BY DEF PortsOK, OnPort, Talking
<1>2. \A h \in Handles : handle'[h].st = handle[h].st /\ handle'[h].mode = handle[h].mode
  BY <1>1
<1> QED
  BY <1>1, <1>2 DEF PortsOK, OnPort, Talking

\* setBaud succeeds: the port and u.Baud go to the next rate together.
LEMMA SetBaudStep ==
  ASSUME PortsOK, pc = "next", pc' = "wake", port # NoHandle, UNCHANGED <<port, want>>,
         NEW b \in 1..Bauds, baud' = b, handle' = [handle EXCEPT ![port].mode = b]
  PROVE  PortsOK'
<1>1. port \in Handles /\ want = NoHandle /\ handle \in HandleMaps
  BY DEF PortsOK, OnPort, Talking
<1>2. b \in 0..Bauds
  OBVIOUS
<1> DEFINE g == [handle EXCEPT ![port].mode = b]
<1>3. /\ g \in HandleMaps
      /\ g[port].st = handle[port].st /\ g[port].mode = b
      /\ \A k \in Handles : k # port => g[k] = handle[k]
  BY <1>1, <1>2 DEF HandleMaps, HandleRecords
<1>4. handle' = g
  OBVIOUS
<1> HIDE DEF g
<1>5. handle[port].st = "held" /\ b > 0
  BY DEF PortsOK
<1>6. \A h \in Handles :
        /\ handle'[h].st = handle[h].st
        /\ handle[h].st # "free" => handle'[h].mode > 0
  <2> SUFFICES ASSUME NEW h \in Handles
               PROVE  /\ handle'[h].st = handle[h].st
                      /\ handle[h].st # "free" => handle'[h].mode > 0
    OBVIOUS
  <2>1. CASE h = port
    BY <2>1, <1>3, <1>4, <1>5, Zenon
  <2>2. CASE h # port
    BY <2>2, <1>3, <1>4 DEF PortsOK
  <2> QED BY <2>1, <2>2
<1> QED
  BY <1>1, <1>3, <1>4, <1>5, <1>6 DEF PortsOK, OnPort, Talking

\* openPort begins: a free handle is opened at rate b, and the scan waits for it.
LEMMA OpeningStep ==
  ASSUME PortsOK, pc \in {"idle", "gone"}, pc' \in {"opening", "reopening"},
         port' = NoHandle, baud' \in 1..Bauds, NEW b \in 1..Bauds, StartsOpening(b)
  PROVE  PortsOK'
<1>1. PICK n \in Handles :
        /\ handle[n].st = "free"
        /\ handle' = [handle EXCEPT ![n] = Opening(b)]
        /\ want' = n
  BY DEF StartsOpening
<1>2. handle \in HandleMaps
  BY DEF PortsOK
<1> DEFINE g == [handle EXCEPT ![n] = Opening(b)]
<1>3. /\ g \in HandleMaps
      /\ g[n].st = "opening" /\ g[n].mode = b
      /\ \A k \in Handles : k # n => g[k] = handle[k]
  BY <1>2, SetOpening
<1>4. handle' = g
  BY <1>1
<1> HIDE DEF g
<1>5. port = NoHandle /\ want = NoHandle
  BY DEF PortsOK, OnPort, Talking
<1>6. \A h \in Handles :
        /\ handle'[h].st # "held"
        /\ handle'[h].st \in Waiting => h = n
        /\ handle'[h].st # "free" => handle'[h].mode > 0
  <2> SUFFICES ASSUME NEW h \in Handles
               PROVE  /\ handle'[h].st # "held"
                      /\ handle'[h].st \in Waiting => h = n
                      /\ handle'[h].st # "free" => handle'[h].mode > 0
    OBVIOUS
  <2>1. CASE h = n
    BY <2>1, <1>3, <1>4
  <2>2. CASE h # n
    BY <2>2, <1>3, <1>4, <1>5, NoHandleAssumption DEF PortsOK
  <2> QED BY <2>1, <2>2
<1>7. handle'[n].st \in Waiting
  BY <1>3, <1>4 DEF Waiting
<1> QED
  BY <1>1, <1>3, <1>4, <1>6, <1>7 DEF PortsOK, OnPort, Talking

\* openPort ends with a port.
LEMMA TakesStep ==
  ASSUME PortsOK, pc \in {"opening", "reopening"}, pc' \in OnPort \ Talking, TakesPort
  PROVE  PortsOK'
<1>1. want \in Handles /\ handle \in HandleMaps /\ port = NoHandle
  BY DEF PortsOK
<1>2. "held" \in HandleStates
  BY DEF HandleStates
<1> DEFINE g == [handle EXCEPT ![want].st = "held"]
<1>3. /\ g \in HandleMaps
      /\ g[want].st = "held" /\ g[want].mode = handle[want].mode
      /\ \A k \in Handles : k # want => g[k] = handle[k]
  BY <1>1, <1>2, SetSt
<1>4. /\ handle' = g /\ port' = want /\ want' = NoHandle
      /\ baud' = handle[want].mode /\ handle[want].st = "ready"
  BY DEF TakesPort
<1> HIDE DEF g
<1>5. handle[want].mode \in 1..Bauds
  <2>1. handle[want].mode \in 0..Bauds
    BY <1>1 DEF HandleMaps, HandleRecords
  <2>2. handle[want].mode > 0
    BY <1>1, <1>4 DEF PortsOK
  <2> QED BY <2>1, <2>2
<1>6. \A h \in Handles :
        /\ handle'[h].st = "held" => h = want
        /\ handle'[h].st \notin Waiting
        /\ handle'[h].st # "free" => handle'[h].mode > 0
  <2> SUFFICES ASSUME NEW h \in Handles
               PROVE  /\ handle'[h].st = "held" => h = want
                      /\ handle'[h].st \notin Waiting
                      /\ handle'[h].st # "free" => handle'[h].mode > 0
    OBVIOUS
  <2>1. CASE h = want
    BY <2>1, <1>3, <1>4, <1>5 DEF Waiting
  <2>2. CASE h # want
    BY <2>2, <1>1, <1>3, <1>4, NoHandleAssumption DEF PortsOK
  <2> QED BY <2>1, <2>2
<1> QED
  BY <1>1, <1>3, <1>4, <1>5, <1>6 DEF PortsOK, OnPort, Talking

\* openPort ends without one: what it waited for is free, an orphan or closing.
LEMMA NoPortStep ==
  ASSUME PortsOK, pc \in {"opening", "reopening"}, pc' \in {"idle", "next"}, NoPort
  PROVE  PortsOK'
<1>1. want \in Handles /\ handle \in HandleMaps /\ port = NoHandle
  BY DEF PortsOK
<1>2. port' = port /\ baud' = baud /\ want' = NoHandle
  BY DEF NoPort
<1>3. handle[want].mode > 0
  BY <1>1 DEF PortsOK, Waiting
<1>4. /\ handle' \in HandleMaps
      /\ handle'[want].st \in {"free", "orphan", "closing"}
      /\ handle'[want].st # "free" => handle'[want].mode > 0
      /\ \A k \in Handles : k # want => handle'[k] = handle[k]
  <2>1. CASE handle' = [handle EXCEPT ![want] = Free]
    <3> DEFINE g == [handle EXCEPT ![want] = Free]
    <3>1. /\ g \in HandleMaps
          /\ g[want].st = "free"
          /\ \A k \in Handles : k # want => g[k] = handle[k]
      BY <1>1, SetFree, Zenon
    <3>2. handle' = g
      BY <2>1
    <3> HIDE DEF g
    <3> QED
      BY <3>1, <3>2
  <2>2. ASSUME NEW st \in {"orphan", "closing"}, handle' = [handle EXCEPT ![want].st = st]
        PROVE  <1>4!1 /\ <1>4!2 /\ <1>4!3 /\ <1>4!4
    <3>1. st \in HandleStates
      BY DEF HandleStates
    <3> DEFINE g == [handle EXCEPT ![want].st = st]
    <3>2. /\ g \in HandleMaps
          /\ g[want].st = st /\ g[want].mode = handle[want].mode
          /\ \A k \in Handles : k # want => g[k] = handle[k]
      BY <3>1, <1>1, SetSt
    <3>3. handle' = g
      BY <2>2
    <3> HIDE DEF g
    <3> QED
      BY <3>2, <3>3, <1>3
  <2> QED
    BY <2>1, <2>2 DEF NoPort
<1>5. \A h \in Handles :
        /\ handle'[h].st # "held" /\ handle'[h].st \notin Waiting
        /\ handle'[h].st # "free" => handle'[h].mode > 0
  <2> SUFFICES ASSUME NEW h \in Handles
               PROVE  /\ handle'[h].st # "held" /\ handle'[h].st \notin Waiting
                      /\ handle'[h].st # "free" => handle'[h].mode > 0
    OBVIOUS
  <2>1. CASE h = want
    BY <2>1, <1>4 DEF Waiting
  <2>2. CASE h # want
    BY <2>2, <1>1, <1>4, NoHandleAssumption DEF PortsOK
  <2> QED BY <2>1, <2>2
<1> QED
  BY <1>1, <1>2, <1>4, <1>5 DEF PortsOK, OnPort, Talking

\* serial.Open or Close returns: a handle moves on its own, in its order of states.
LEMMA HandleStep ==
  ASSUME PortsOK, UNCHANGED <<pc, port, baud, want>>, NEW h \in Handles,
         handle' \in HandleMaps,
         \A k \in Handles : k # h => handle'[k] = handle[k],
         \/ handle[h].st = "opening" /\ handle'[h].st \in {"ready", "failed"}
         \/ handle[h].st \in {"orphan", "closing"} /\ handle'[h].st \in {"free", "closing"},
         handle'[h].st # "free" => handle'[h].mode = handle[h].mode
  PROVE  PortsOK'
<1>1. /\ port = NoHandle \/ port # h
      /\ want # NoHandle => want \in Handles /\ (want = h => handle[h].st = "opening")
  BY DEF PortsOK, Waiting, OnPort, Talking
<1>2. \A k \in Handles :
        /\ handle'[k].st = "held" => handle[k].st = "held"
        /\ handle'[k].st \in Waiting <=> handle[k].st \in Waiting
        /\ handle'[k].st # "free" => handle'[k].mode > 0
  <2> SUFFICES ASSUME NEW k \in Handles
               PROVE  /\ handle'[k].st = "held" => handle[k].st = "held"
                      /\ handle'[k].st \in Waiting <=> handle[k].st \in Waiting
                      /\ handle'[k].st # "free" => handle'[k].mode > 0
    OBVIOUS
  <2>1. CASE k = h
    BY <2>1 DEF PortsOK, Waiting
  <2>2. CASE k # h
    BY <2>2 DEF PortsOK
  <2> QED BY <2>1, <2>2
<1>3. port # NoHandle => handle'[port] = handle[port]
  BY <1>1 DEF PortsOK
<1>4. pc \in Talking => port # NoHandle
  BY DEF PortsOK, OnPort
<1>5. want # NoHandle => (handle'[want].st \in Waiting <=> handle[want].st \in Waiting)
  BY <1>1, <1>2
<1> QED
  BY <1>2, <1>3, <1>4, <1>5 DEF PortsOK
-----------------------------------------------------------------------------
(* What several actions end with *)

\* initELM gives up on a rate.
LEMMA NextRateStep ==
  ASSUME PortsOK, pc \in OnPort \cup {"gone", "next"}, pc' = "next", UNCHANGED adapterVars
  PROVE  PortsOK'
<1>1. pc' \in PCs /\ pc' \notin OnPort /\ pc' \notin Talking
  BY DEF PCs, OnPort, Talking
<1>2. /\ pc' \notin {"idle", "opening", "gone", "reopening"}
      /\ pc \notin {"idle", "opening", "reopening"}
  BY DEF OnPort, Talking
<1> QED BY <1>1, <1>2, QuietStep

\* The next command of initELM, on the port as it is.
LEMMA SameHandlesStep ==
  ASSUME PortsOK, pc \in OnPort, pc' \in OnPort, UNCHANGED adapterVars,
         pc' \in Talking => pc \in Talking
  PROVE  PortsOK'
<1>1. pc' \in PCs
  BY DEF PCs
<1>2. /\ pc' \notin {"idle", "opening", "gone", "reopening"}
      /\ pc \notin {"idle", "opening", "reopening"}
  BY DEF OnPort, Talking
<1> QED BY <1>1, <1>2, QuietStep

\* errStuckSerial while Open looks for it.
LEMMA StuckStep ==
  ASSUME PortsOK, pc \in OnPort, GivesUpStuck
  PROVE  PortsOK'
<1>1. pc' \in {"idle", "gone"} /\ Abandons(After("stuck"))
  BY DEF GivesUpStuck
<1>2. port \in Handles /\ handle \in HandleMaps
  BY DEF PortsOK
<1>3. /\ After("stuck") \in HandleMaps
      /\ After("stuck")[port].mode = handle[port].mode
      /\ \A k \in Handles : k # port => After("stuck")[k] = handle[k]
  BY <1>2, AfterKeeps
<1> QED BY <1>1, <1>3, AbandonStep

\* An ELM has given its name, at the rate the port is set to.
LEMMA IdentifiedStep ==
  ASSUME PortsOK, pc \in OnPort, NEW o, Identified(o)
  PROVE  PortsOK'
<1>1. port \in Handles /\ handle \in HandleMaps
  BY DEF PortsOK
<1>2. /\ After(o) \in HandleMaps
      /\ After(o)[port].st = handle[port].st
      /\ After(o)[port].mode = handle[port].mode
      /\ \A k \in Handles : k # port => After(o)[k] = handle[k]
  BY <1>1, AfterKeeps
<1>3. handle[port].mode \in 0..Bauds
  BY <1>1 DEF HandleMaps, HandleRecords
<1> DEFINE hs == After(o)
           b  == handle[port].mode
<1>4. hs \in HandleMaps
  BY <1>2
<1>5. /\ handle' = [hs EXCEPT ![port].spoke = b]
      /\ UNCHANGED <<port, baud, want>> /\ pc' = "config"
  BY DEF Identified, Spoke
<1>6. /\ handle'[port].st = hs[port].st /\ handle'[port].mode = hs[port].mode
      /\ handle'[port].spoke = b
      /\ \A k \in Handles : k # port => handle'[k] = hs[k]
      /\ handle' \in HandleMaps
  <2> DEFINE g == [hs EXCEPT ![port].spoke = b]
  <2>1. /\ g \in HandleMaps
        /\ g[port].st = hs[port].st /\ g[port].mode = hs[port].mode /\ g[port].spoke = b
        /\ \A k \in Handles : k # port => g[k] = hs[k]
    <3> SUFFICES ASSUME NEW STATE f, f \in HandleMaps, NEW STATE c, c \in 0..Bauds
                 PROVE  LET e == [f EXCEPT ![port].spoke = c] IN
                          /\ e \in HandleMaps
                          /\ e[port].st = f[port].st /\ e[port].mode = f[port].mode
                          /\ e[port].spoke = c
                          /\ \A k \in Handles : k # port => e[k] = f[k]
      BY <1>3, <1>4
    <3> QED BY <1>1 DEF HandleMaps, HandleRecords
  <2> HIDE DEF g
  <2>2. handle' = g
    BY <1>5 DEF g
  <2> QED BY <2>1, <2>2, Zenon
<1>7. pc' \in OnPort
  BY <1>5 DEF OnPort, Talking
<1> QED BY <1>2, <1>5, <1>6, <1>7, HeldStep

\* A command whose outcome the scan does not look at.
LEMMA HeedlessStep ==
  ASSUME PortsOK, pc \in Talking, pc' \in Talking, NEW o, handle' = After(o),
         UNCHANGED <<port, baud, want>>
  PROVE  PortsOK'
<1>1. pc \in OnPort /\ pc' \in OnPort
  BY DEF OnPort
<1>2. port \in Handles /\ handle \in HandleMaps /\ handle[port].spoke = handle[port].mode
  BY <1>1 DEF PortsOK
<1>3. /\ After(o) \in HandleMaps
      /\ After(o)[port].st = handle[port].st
      /\ After(o)[port].mode = handle[port].mode
      /\ After(o)[port].spoke = handle[port].spoke
      /\ \A k \in Handles : k # port => After(o)[k] = handle[k]
  BY <1>2, AfterKeeps
<1> QED BY <1>1, <1>2, <1>3, HeldStep
-----------------------------------------------------------------------------
(* The invariant is inductive *)

LEMMA InitInv == Init => FlagsOK /\ CountersOK /\ PortsOK
<1> SUFFICES ASSUME Init PROVE FlagsOK /\ CountersOK /\ PortsOK
  OBVIOUS
<1>1. CountersOK
  BY DEF Init, CountersOK, PCs
<1>2. Free \in HandleRecords /\ Free.st = "free"
  BY DEF Free, HandleRecords
<1>3. handle \in HandleMaps /\ \A h \in Handles : handle[h].st = "free"
  BY <1>2 DEF Init, HandleMaps
<1>4. PortsOK
  BY <1>3 DEF Init, PortsOK, OnPort, Talking, Waiting
<1>5. FlagsOK
  BY DEF Init, FlagsOK
<1> QED BY <1>1, <1>4, <1>5

\* The flags: the context's, isPortDead's answer and the device's.
LEMMA FlagsStep ==
  ASSUME FlagsOK, [Next]_vars
  PROVE  FlagsOK'
<1>1. CASE ScanStarts
  BY <1>1, Zenon DEF FlagsOK, ScanStarts
<1>2. CASE Scan
  <2>1. ASSUME NEW o \in CanBring, Command(o)
        PROVE  FlagsOK'
    <3>1. dead' = dead /\ present' = present
      BY <2>1, Zenon DEF Command
    <3>2. sawDead' = sawDead \/ sawDead' \in BOOLEAN
      BY <2>1, Zenon DEF Command, AsksATI, AsksATWS, AsksATZ, AsksAgain, Configures, Talks,
                         GivesUpStuck, Identified, NextRate
    <3> QED BY <3>1, <3>2, Zenon DEF FlagsOK
  <2> QED
    BY <1>2, <2>1, Zenon DEF FlagsOK, Scan, Opens, TriesRate, Wakes, Reappears, Reopens,
                             Rewakes, TalkEnds, Parks, NextRate, initVars
<1>3. ASSUME NEW h \in Handles, SerialOpens(h) \/ CloseEnds(h)
      PROVE  FlagsOK'
  BY <1>3, Zenon DEF FlagsOK, SerialOpens, CloseEnds, initVars
<1>4. CASE DeviceResets \/ ContextEnds \/ UNCHANGED vars
  BY <1>4, Zenon DEF FlagsOK, DeviceResets, ContextEnds, vars, initVars
<1> QED BY <1>1, <1>2, <1>3, <1>4, Zenon DEF Next

\* Places and counters, one step per action.
LEMMA CountersStep ==
  ASSUME CountersOK, [Next]_vars
  PROVE  CountersOK'
<1>1. CASE ScanStarts
  BY <1>1 DEF CountersOK, PCs, ScanStarts
<1>2. CASE Opens
  BY <1>2 DEF CountersOK, PCs, OnPort, Talking, Opens, initVars
<1>3. CASE TriesRate
  BY <1>3 DEF CountersOK, PCs, OnPort, Talking, TriesRate
<1>4. CASE Wakes
  BY <1>4 DEF CountersOK, PCs, OnPort, Talking, Wakes, NextRate
<1>5. CASE Reappears
  BY <1>5 DEF CountersOK, PCs, OnPort, Talking, Reappears, NextRate
<1>6. CASE Reopens
  BY <1>6 DEF CountersOK, PCs, OnPort, Talking, Reopens, NextRate
<1>7. CASE Rewakes
  BY <1>7 DEF CountersOK, PCs, OnPort, Talking, Rewakes, NextRate
<1>8. CASE TalkEnds
  BY <1>8 DEF CountersOK, PCs, OnPort, Talking, TalkEnds, initVars
<1>9. CASE Parks
  BY <1>9 DEF CountersOK, PCs, Parks, initVars
<1>10. ASSUME NEW o \in CanBring, Command(o)
       PROVE  CountersOK'
  <2> UNCHANGED <<scans, dead, rate, present>>
    BY <1>10 DEF Command
  <2>1. CASE AsksATI(o)
    BY <2>1 DEF CountersOK, PCs, OnPort, Talking, AsksATI, GivesUpStuck, Identified, NextRate
  <2>2. CASE AsksATWS(o)
    BY <2>2 DEF CountersOK, PCs, OnPort, Talking, AsksATWS, GivesUpStuck, Identified
  <2>3. CASE AsksATZ(o)
    BY <2>3 DEF CountersOK, PCs, OnPort, Talking, AsksATZ, GivesUpStuck, Identified, NextRate
  <2>4. CASE AsksAgain(o)
    BY <2>4 DEF CountersOK, PCs, OnPort, Talking, AsksAgain, GivesUpStuck, Identified, NextRate
  <2>5. CASE Configures(o)
    BY <2>5 DEF CountersOK, PCs, OnPort, Talking, Configures, GivesUpStuck, NextRate
  <2>6. CASE Talks(o)
    BY <2>6 DEF CountersOK, Talks
  <2> QED BY <1>10, <2>1, <2>2, <2>3, <2>4, <2>5, <2>6 DEF Command
<1>11. ASSUME NEW h \in Handles, SerialOpens(h) \/ CloseEnds(h)
       PROVE  CountersOK'
  BY <1>11 DEF CountersOK, SerialOpens, CloseEnds, initVars
<1>12. CASE DeviceResets
  BY <1>12 DEF CountersOK, DeviceResets, initVars
<1>13. CASE ContextEnds
  BY <1>13 DEF CountersOK, ContextEnds, initVars
<1>14. CASE UNCHANGED vars
  BY <1>14 DEF CountersOK, vars, initVars
<1> QED
  BY <1>1, <1>2, <1>3, <1>4, <1>5, <1>6, <1>7, <1>8, <1>9, <1>10, <1>11, <1>12, <1>13, <1>14,
     Zenon DEF Next, Scan

\* A command of a scan, by the place it is given in.
LEMMA CommandStep ==
  ASSUME PortsOK, NEW o \in CanBring, Command(o)
  PROVE  PortsOK'
<1> DEFINE Ends == GivesUpStuck \/ Identified(o) \/ (NextRate /\ UNCHANGED adapterVars)
<1>1. ASSUME pc \in OnPort, Ends
      PROVE  PortsOK'
  BY <1>1, StuckStep, IdentifiedStep, NextRateStep DEF NextRate
<1>2. CASE AsksATI(o)
  <2>1. pc \in OnPort
    BY <1>2 DEF AsksATI, OnPort
  <2>2. CASE UNCHANGED adapterVars /\ pc' \in {"ati", "atws"}
    <3>1. pc' \in OnPort /\ pc' \notin Talking
      BY <2>2 DEF OnPort, Talking
    <3> QED BY <2>1, <2>2, <3>1, SameHandlesStep
  <2>3. Ends \/ (UNCHANGED adapterVars /\ pc' \in {"ati", "atws"})
    BY <1>2, Zenon DEF AsksATI
  <2> QED BY <2>1, <2>2, <2>3, <1>1
<1>3. CASE AsksATWS(o)
  <2>1. pc \in OnPort
    BY <1>3 DEF AsksATWS, OnPort
  <2>2. CASE UNCHANGED adapterVars /\ pc' = "atz"
    <3>1. pc' \in OnPort /\ pc' \notin Talking
      BY <2>2 DEF OnPort, Talking
    <3> QED BY <2>1, <2>2, <3>1, SameHandlesStep
  <2>3. Ends \/ (UNCHANGED adapterVars /\ pc' = "atz")
    BY <1>3, Zenon DEF AsksATWS
  <2> QED BY <2>1, <2>2, <2>3, <1>1
<1>4. CASE AsksATZ(o)
  <2>1. pc \in OnPort
    BY <1>4 DEF AsksATZ, OnPort
  <2>2. CASE pc' = "gone" /\ Abandons(handle)
    <3>1. handle \in HandleMaps
      BY DEF PortsOK
    <3> QED BY <2>1, <2>2, <3>1, AbandonStep
  <2>3. Ends \/ (pc' = "gone" /\ Abandons(handle))
    BY <1>4, Zenon DEF AsksATZ
  <2> QED BY <2>1, <2>2, <2>3, <1>1
<1>5. CASE AsksAgain(o)
  <2>1. pc \in OnPort
    BY <1>5 DEF AsksAgain, OnPort
  <2>2. Ends
    BY <1>5, Zenon DEF AsksAgain
  <2> QED BY <2>1, <2>2, <1>1
<1>6. CASE Configures(o)
  <2>1. pc = "config" /\ pc \in OnPort /\ pc \in Talking
    BY <1>6 DEF Configures, OnPort, Talking
  <2>2. CASE UNCHANGED <<pc, adapterVars>>
    BY <2>1, <2>2, SameHandlesStep
  <2>3. CASE pc' = "talk" /\ handle' = After(o) /\ UNCHANGED <<port, baud, want>>
    <3>1. pc' \in Talking
      BY <2>3 DEF Talking
    <3> QED BY <2>1, <2>3, <3>1, HeedlessStep
  <2>4. \/ Ends
        \/ UNCHANGED <<pc, adapterVars>>
        \/ pc' = "talk" /\ handle' = After(o) /\ UNCHANGED <<port, baud, want>>
    BY <1>6 DEF Configures
  <2> QED BY <2>1, <2>2, <2>3, <2>4, <1>1
<1>7. CASE Talks(o)
  <2>1. pc \in Talking /\ pc' \in Talking
    BY <1>7 DEF Talks, Talking
  <2>2. handle' = After(o) /\ UNCHANGED <<port, baud, want>>
    BY <1>7 DEF Talks
  <2> QED BY <2>1, <2>2, HeedlessStep
<1> QED
  BY <1>2, <1>3, <1>4, <1>5, <1>6, <1>7 DEF Command

\* serial.Open and Close, returning in a goroutine.
LEMMA GoroutineStep ==
  ASSUME PortsOK, NEW h \in Handles, SerialOpens(h) \/ CloseEnds(h)
  PROVE  PortsOK'
<1>1. handle \in HandleMaps
  BY DEF PortsOK
<1>2. UNCHANGED <<pc, port, baud, want>>
  BY DEF SerialOpens, CloseEnds
<1>3. ASSUME NEW st \in {"ready", "failed", "closing"}, handle' = [handle EXCEPT ![h].st = st]
      PROVE  /\ handle' \in HandleMaps
             /\ handle'[h].st = st /\ handle'[h].mode = handle[h].mode
             /\ \A k \in Handles : k # h => handle'[k] = handle[k]
  <2>1. st \in HandleStates
    BY DEF HandleStates
  <2> DEFINE g == [handle EXCEPT ![h].st = st]
  <2>2. /\ g \in HandleMaps
        /\ g[h].st = st /\ g[h].mode = handle[h].mode
        /\ \A k \in Handles : k # h => g[k] = handle[k]
    BY <2>1, <1>1, SetSt
  <2>3. handle' = g
    BY <1>3
  <2> HIDE DEF g
  <2> QED BY <2>2, <2>3, Zenon
<1>4. CASE handle[h].st = "opening" /\ \E st \in {"ready", "failed"} : handle' = [handle EXCEPT ![h].st = st]
  <2>1. PICK st \in {"ready", "failed"} : handle' = [handle EXCEPT ![h].st = st]
    BY <1>4
  <2>2. /\ handle' \in HandleMaps
        /\ handle'[h].st = st /\ handle'[h].mode = handle[h].mode
        /\ \A k \in Handles : k # h => handle'[k] = handle[k]
    BY <2>1, <1>3
  <2> QED BY <2>2, <1>2, <1>4, HandleStep
<1>5. CASE handle[h].st = "orphan" /\ handle' = [handle EXCEPT ![h].st = "closing"]
  <2>1. /\ handle' \in HandleMaps
        /\ handle'[h].st = "closing" /\ handle'[h].mode = handle[h].mode
        /\ \A k \in Handles : k # h => handle'[k] = handle[k]
    BY <1>5, <1>3
  <2> QED BY <2>1, <1>2, <1>5, HandleStep
<1>6. CASE handle[h].st \in {"orphan", "closing"} /\ handle' = [handle EXCEPT ![h] = Free]
  <2> DEFINE g == [handle EXCEPT ![h] = Free]
  <2>1. g \in HandleMaps /\ g[h].st = "free" /\ \A k \in Handles : k # h => g[k] = handle[k]
    BY <1>1, SetFree, Zenon
  <2>2. handle' = g
    BY <1>6
  <2> HIDE DEF g
  <2>3. /\ handle' \in HandleMaps /\ handle'[h].st = "free"
        /\ \A k \in Handles : k # h => handle'[k] = handle[k]
    BY <2>1, <2>2, Zenon
  <2> QED BY <2>3, <1>2, <1>6, HandleStep
<1> QED
  BY <1>4, <1>5, <1>6 DEF SerialOpens, CloseEnds

\* The port and the handles, one step per action.
LEMMA PortsStep ==
  ASSUME CountersOK, PortsOK, [Next]_vars
  PROVE  PortsOK'
<1>0. handle \in HandleMaps
  BY DEF PortsOK
<1>1. CASE ScanStarts
  <2>1. /\ pc \in {"idle", "gone"} /\ pc' \in {"opening", "reopening"}
        /\ port' = NoHandle /\ baud' \in 1..Bauds /\ 1 \in 1..Bauds /\ StartsOpening(1)
    BY <1>1 DEF ScanStarts
  <2> QED BY <2>1, OpeningStep
<1>2. CASE Opens
  <2>1. pc \in {"opening", "reopening"}
    BY <1>2 DEF Opens
  <2>2. \/ TakesPort /\ pc' \in OnPort \ Talking
        \/ NoPort /\ pc' \in {"idle", "next"}
    BY <1>2 DEF Opens, OnPort, Talking
  <2> QED BY <2>1, <2>2, TakesStep, NoPortStep
<1>3. CASE TriesRate
  <2>1. pc = "next" /\ pc \in OnPort \cup {"next"} /\ pc \in OnPort \cup {"gone", "next"}
    BY <1>3 DEF TriesRate
  <2>2. CASE pc' = "idle" /\ Abandons(handle)
    BY <2>1, <2>2, <1>0, AbandonStep
  <2>3. CASE pc' = "next" /\ UNCHANGED adapterVars
    BY <2>1, <2>3, NextRateStep
  <2>4. CASE /\ rate < Bauds /\ port # NoHandle
             /\ handle' = [handle EXCEPT ![port].mode = rate + 1]
             /\ baud' = rate + 1
             /\ pc' = "wake"
             /\ UNCHANGED <<port, want>>
    <3>1. rate + 1 \in 1..Bauds
      BY <2>4 DEF CountersOK
    <3> QED BY <2>1, <2>4, <3>1, SetBaudStep
  <2> QED
    BY <1>3, <2>2, <2>3, <2>4, Zenon DEF TriesRate
<1>4. CASE Wakes
  <2>1. pc \in OnPort /\ UNCHANGED adapterVars
    BY <1>4 DEF Wakes, OnPort
  <2>2. pc' = "next" \/ (pc' \in OnPort /\ pc' \notin Talking)
    BY <1>4 DEF Wakes, NextRate, OnPort, Talking
  <2> QED BY <2>1, <2>2, NextRateStep, SameHandlesStep
<1>5. CASE Reappears
  <2>1. pc = "gone"
    BY <1>5 DEF Reappears
  <2>2. CASE NextRate /\ UNCHANGED adapterVars
    BY <2>1, <2>2, NextRateStep DEF NextRate
  <2>3. CASE StartsOpening(baud) /\ pc' = "reopening" /\ UNCHANGED <<port, baud>>
    <3>1. port' = NoHandle /\ baud \in 1..Bauds /\ baud' \in 1..Bauds
      BY <2>1, <2>3 DEF PortsOK
    <3> QED BY <2>1, <2>3, <3>1, OpeningStep
  <2> QED
    BY <1>5, <2>2, <2>3 DEF Reappears
<1>6. CASE Reopens
  <2>1. pc \in {"opening", "reopening"}
    BY <1>6 DEF Reopens
  <2>2. \/ TakesPort /\ pc' \in OnPort \ Talking
        \/ NoPort /\ pc' \in {"idle", "next"}
    BY <1>6 DEF Reopens, NextRate, OnPort, Talking
  <2> QED BY <2>1, <2>2, TakesStep, NoPortStep
<1>7. CASE Rewakes
  <2>1. pc \in OnPort /\ UNCHANGED adapterVars
    BY <1>7 DEF Rewakes, OnPort
  <2>2. pc' = "next" \/ (pc' \in OnPort /\ pc' \notin Talking)
    BY <1>7 DEF Rewakes, NextRate, OnPort, Talking
  <2> QED BY <2>1, <2>2, NextRateStep, SameHandlesStep
<1>8. CASE TalkEnds
  <2>1. pc \in OnPort /\ pc' \in OnPort /\ pc \in Talking /\ UNCHANGED adapterVars
    BY <1>8 DEF TalkEnds, OnPort, Talking
  <2> QED BY <2>1, SameHandlesStep
<1>9. CASE Parks
  <2>1. PICK o : Abandons(After(o))
    BY <1>9 DEF Parks
  <2>2. pc \in OnPort /\ pc' \in {"idle", "gone"}
    BY <1>9 DEF Parks, OnPort, Talking
  <2>3. port \in Handles
    BY <2>2 DEF PortsOK
  <2>4. /\ After(o) \in HandleMaps
        /\ After(o)[port].mode = handle[port].mode
        /\ \A k \in Handles : k # port => After(o)[k] = handle[k]
    BY <2>3, <1>0, AfterKeeps
  <2> QED BY <2>1, <2>2, <2>4, AbandonStep
<1>10. ASSUME NEW o \in CanBring, Command(o)
       PROVE  PortsOK'
  BY <1>10, CommandStep
<1>11. ASSUME NEW h \in Handles, SerialOpens(h) \/ CloseEnds(h)
       PROVE  PortsOK'
  BY <1>11, GoroutineStep
<1>12. CASE UNCHANGED <<pc, adapterVars>>
  BY <1>12 DEF PortsOK, adapterVars
<1>13. DeviceResets \/ ContextEnds \/ UNCHANGED vars => UNCHANGED <<pc, adapterVars>>
  BY DEF DeviceResets, ContextEnds, vars
<1> QED
  BY <1>1, <1>2, <1>3, <1>4, <1>5, <1>6, <1>7, <1>8, <1>9, <1>10, <1>11, <1>12, <1>13,
     Zenon DEF Next, Scan
-----------------------------------------------------------------------------
(* Theorems *)

\* The inductive invariant of the adapter's port: the places of the scan, u.port,
\* u.Baud and the handles that goroutines still open or close agree.
THEOREM PortInvariant == Spec => []Inv
<1>1. Init => Inv
  BY InitInv, InvIs
<1>2. Inv /\ [Next]_vars => Inv'
  <2> SUFFICES ASSUME Inv, [Next]_vars PROVE Inv'
    OBVIOUS
  <2>1. FlagsOK /\ CountersOK /\ PortsOK
    BY InvIs
  <2>2. FlagsOK' /\ CountersOK' /\ PortsOK'
    BY <2>1, FlagsStep, CountersStep, PortsStep
  <2> QED
    BY <2>2 DEF Inv, FlagsOK, TypeOK, PortInv, NoHandleLeft, BaudInStep, TalksToELM, CountersOK,
                PortsOK, PCs, HandleMaps, Waiting
<1> QED BY <1>1, <1>2, PTL DEF Spec

\* Every variable of USBAdapter and of Open's loops keeps its type.
THEOREM TypeCorrect == Spec => []TypeOK
<1>1. Inv => TypeOK
  BY DEF Inv
<1> QED BY <1>1, PortInvariant, PTL

\* openPort, abandonPort and Close: whatever serial.Open, the device and the
\* context do, a handle that is open belongs to a running scan or to the goroutine
\* that closes it.
THEOREM NoHandleIsLeft == Spec => []NoHandleLeft
<1>1. Inv => NoHandleLeft
  BY DEF Inv, PortInv
<1> QED BY <1>1, PortInvariant, PTL

\* setBaud and openPort: u.Baud is the rate of the port, so that the port is opened
\* anew at the rate it had.
THEOREM BaudsInStep == Spec => []BaudInStep
<1>1. Inv => BaudInStep
  BY DEF Inv, PortInv
<1> QED BY <1>1, PortInvariant, PTL

\* initELM: the car is only talked to where an ELM has answered, at that rate.
THEOREM TalksToAnELM == Spec => []TalksToELM
<1>1. Inv => TalksToELM
  BY DEF Inv, PortInv
<1> QED BY <1>1, PortInvariant, PTL
=============================================================================
