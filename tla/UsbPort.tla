------------------------------ MODULE UsbPort ------------------------------
(***************************************************************************)
(* The life of a serial port in USBAdapter (pkg/obd/usb.go): a scan opens  *)
(* the device, wakes an ELM327 on it at one baud rate after another, opens *)
(* it anew when the chip resets the USB link, talks to the car and closes. *)
(* serial.Open and Close can block for many seconds, so both run in        *)
(* goroutines that a scan may leave behind, and the next scan on the same  *)
(* device starts beside them.                                              *)
(*                                                                         *)
(* A command is one step with an outcome here; module ElmLink is about its *)
(* inside.  The rates of baudCandidates are numbered in the order they are *)
(* tried.                                                                  *)
(***************************************************************************)
EXTENDS Integers

CONSTANTS
  Handles,     \* bound: port handles that can exist at once
  Bauds,       \* rates to try
  AtiTries,    \* 3 in the code
  ConfigLast,  \* commands of configureELM that must succeed: 5 in the code
  MaxScans     \* bound: scans, one after another

ASSUME PortAssumption ==
  /\ Bauds \in Nat \ {0}
  /\ AtiTries \in Nat \ {0}
  /\ ConfigLast \in Nat
  /\ MaxScans \in Nat

CONSTANT NoHandle
ASSUME NoHandleAssumption == NoHandle \notin Handles

VARIABLES
  scans,    \* scans started
  pc,       \* where the scan is
  dead,     \* its context is over
  port,     \* u.port
  baud,     \* u.Baud
  want,     \* the handle openPort waits for
  handle,   \* the handles
  rate,     \* the turn of Open's loop over the rates
  tries,    \* commands of the current ATI or configure loop so far
  sawDead,  \* isPortDead of an error initELM keeps
  present   \* the device file exists

adapterVars == <<port, baud, want, handle>>
initVars    == <<rate, tries, sawDead>>
vars        == <<scans, pc, dead, adapterVars, initVars, present>>

\* "opening": serial.Open runs; "ready", "failed": its outcome is in the channel;
\* "orphan": it runs and nobody waits; "held": u.port; "closing": Close runs.
\* "mode" is the rate the port is set to; "spoke" the rate at which an ELM has
\* given its name on it, 0 for none; "stuck" that a Read is left on it.
Free == [st |-> "free", mode |-> 0, spoke |-> 0, stuck |-> FALSE]

Opening(b) == [st |-> "opening", mode |-> b, spoke |-> 0, stuck |-> FALSE]

\* Where u.port is set, and where the ELM has been identified on it.
Talking == {"config", "talk", "park"}
OnPort  == {"wake", "ati", "atws", "atz", "rewake", "reati"} \cup Talking

\* What a command brings: its text and its error.  "banner" is a text that
\* looksLikeELM and no error, "bannerError" the same with an error, "dead" an
\* error for which isPortDead holds, "stuck" errStuckSerial.
Outcomes == {"banner", "bannerError", "quiet", "error", "dead", "stuck"}

CanBring ==
  IF dead THEN {"error", "dead"}
  ELSE IF present THEN Outcomes ELSE {"error", "dead", "stuck"}

Init ==
  /\ scans = 0
  /\ pc = "idle"
  /\ dead = FALSE
  /\ port = NoHandle
  /\ baud = 1
  /\ want = NoHandle
  /\ handle = [h \in Handles |-> Free]
  /\ rate = 1
  /\ tries = 0
  /\ sawDead = FALSE
  /\ present = TRUE
-----------------------------------------------------------------------------
(* serial.Open, Close and the device *)

\* serial.Open returns.  A handle nobody waits for is closed at once.
SerialOpens(h) ==
  /\ \/ /\ handle[h].st = "opening"
        /\ \E st \in {"ready", "failed"} : handle' = [handle EXCEPT ![h].st = st]
     \/ /\ handle[h].st = "orphan"
        /\ \/ handle' = [handle EXCEPT ![h].st = "closing"]
           \/ handle' = [handle EXCEPT ![h] = Free]
  /\ UNCHANGED <<scans, pc, dead, port, baud, want, initVars, present>>

CloseEnds(h) ==
  /\ handle[h].st = "closing"
  /\ handle' = [handle EXCEPT ![h] = Free]
  /\ UNCHANGED <<scans, pc, dead, port, baud, want, initVars, present>>

\* The adapter resets its USB link, or comes back.
DeviceResets ==
  /\ present' = ~present
  /\ UNCHANGED <<scans, pc, dead, adapterVars, initVars>>

\* The budget of the scan is over, or it is cancelled.
ContextEnds ==
  /\ pc # "idle"
  /\ ~dead
  /\ dead' = TRUE
  /\ UNCHANGED <<scans, pc, adapterVars, initVars, present>>
-----------------------------------------------------------------------------
(* openPort and abandonPort *)

\* openPort starts serial.Open at rate b.
StartsOpening(b) ==
  \E h \in Handles :
    /\ handle[h].st = "free"
    /\ handle' = [handle EXCEPT ![h] = Opening(b)]
    /\ want' = h

TakesPort ==
  /\ handle[want].st = "ready"
  /\ port' = want
  /\ baud' = handle[want].mode
  /\ handle' = [handle EXCEPT ![want].st = "held"]
  /\ want' = NoHandle

\* Mutant of NoPort: a late handle is left to itself.
NoPortLeavesLate ==
  /\ \/ handle[want].st = "failed" /\ handle' = [handle EXCEPT ![want] = Free]
     \/ handle[want].st = "opening" /\ handle' = [handle EXCEPT ![want].st = "orphan"]
     \/ handle[want].st = "ready" /\ UNCHANGED handle
  /\ want' = NoHandle
  /\ UNCHANGED <<port, baud>>

\* It has failed, or the 12 s or the scan's context are over: then a goroutine
\* waits for the handle, to close it.
NoPort ==
  /\ \/ handle[want].st = "failed" /\ handle' = [handle EXCEPT ![want] = Free]
     \/ handle[want].st = "opening" /\ handle' = [handle EXCEPT ![want].st = "orphan"]
     \/ handle[want].st = "ready" /\ handle' = [handle EXCEPT ![want].st = "closing"]
  /\ want' = NoHandle
  /\ UNCHANGED <<port, baud>>

\* abandonPort: Close runs in a goroutine; "hs" are the handles before it.
Closing(hs) == IF port = NoHandle THEN hs ELSE [hs EXCEPT ![port].st = "closing"]

Abandons(hs) ==
  /\ port' = NoHandle
  /\ handle' = Closing(hs)
  /\ UNCHANGED <<baud, want>>

\* The handles after a command with outcome o on u.port.
After(o) == IF o = "stuck" THEN [handle EXCEPT ![port].stuck = TRUE] ELSE handle
Spoke(o) == [After(o) EXCEPT ![port].spoke = handle[port].mode]
-----------------------------------------------------------------------------
(* Open *)

\* Scanner.Scan on a new adapter.
ScanStarts ==
  /\ pc = "idle"
  /\ scans < MaxScans
  /\ scans' = scans + 1
  /\ pc' = "opening"
  /\ dead' = FALSE
  /\ port' = NoHandle
  /\ baud' = 1
  /\ StartsOpening(1)
  /\ rate' = 1
  /\ UNCHANGED <<tries, sawDead, present>>

\* The outcome of the first openPort; without a port Open fails, and the scan
\* with it.
Opens ==
  /\ pc = "opening"
  /\ \/ TakesPort /\ pc' = "wake"
     \/ NoPort /\ pc' = "idle"
  /\ UNCHANGED <<scans, dead, initVars, present>>

\* Open's loop goes on to the next rate; initELM's error is only kept.
NextRate ==
  /\ pc' = "next"
  /\ UNCHANGED <<tries, sawDead>>

\* Mutant of TriesRate: setBaud does not note the rate.
TriesRateUnnoted ==
  /\ pc = "next"
  /\ \/ /\ rate = Bauds \/ dead
        /\ pc' = "idle"
        /\ Abandons(handle)
        /\ UNCHANGED rate
     \/ /\ rate < Bauds /\ ~dead
        /\ rate' = rate + 1
        /\ port # NoHandle
        /\ handle' = [handle EXCEPT ![port].mode = rate + 1]
        /\ pc' = "wake"
        /\ UNCHANGED <<port, baud, want>>
  /\ UNCHANGED <<scans, dead, tries, sawDead, present>>

\* No rate is left, or the context is over: the port is abandoned and Open fails.
\* Else setBaud, which fails without a port and may fail with one.
TriesRate ==
  /\ pc = "next"
  /\ \/ /\ rate = Bauds \/ dead
        /\ pc' = "idle"
        /\ Abandons(handle)
        /\ UNCHANGED rate
     \/ /\ rate < Bauds /\ ~dead
        /\ rate' = rate + 1
        /\ \/ pc' = "next" /\ UNCHANGED adapterVars
           \/ /\ port # NoHandle
              /\ handle' = [handle EXCEPT ![port].mode = rate + 1]
              /\ baud' = rate + 1
              /\ pc' = "wake"
              /\ UNCHANGED <<port, want>>
  /\ UNCHANGED <<scans, dead, tries, sawDead, present>>

\* errStuckSerial during Open: the port is abandoned and Open fails.
GivesUpStuck ==
  /\ pc' = "idle"
  /\ Abandons(After("stuck"))
  /\ UNCHANGED <<tries, sawDead>>
-----------------------------------------------------------------------------
(* initELM *)

\* wake and the pause after it look at the context.
Wakes ==
  /\ pc = "wake"
  /\ \/ dead /\ NextRate
     \/ /\ ~dead
        /\ pc' = "ati"
        /\ tries' = 1
        /\ sawDead' = FALSE
  /\ UNCHANGED <<scans, dead, adapterVars, rate, present>>

Identified(o) ==
  /\ pc' = "config"
  /\ tries' = 0
  /\ handle' = Spoke(o)
  /\ UNCHANGED <<port, baud, want, sawDead>>

\* ATI, AtiTries times; the pauses between look at the context.  Only the error
\* of the last one is kept.
AsksATI(o) ==
  /\ pc = "ati"
  /\ \/ o = "stuck" /\ GivesUpStuck
     \/ o = "banner" /\ Identified(o)
     \/ o = "bannerError" /\ NextRate /\ UNCHANGED adapterVars
     \/ /\ o \in {"quiet", "error", "dead"}
        /\ \/ tries < AtiTries /\ dead /\ NextRate
           \/ /\ tries < AtiTries /\ ~dead
              /\ tries' = tries + 1
              /\ UNCHANGED <<pc, sawDead>>
           \/ /\ tries = AtiTries
              /\ pc' = "atws"
              /\ sawDead' = (o = "dead")
              /\ UNCHANGED tries
        /\ UNCHANGED adapterVars

\* ATWS: a banner counts even with an error.
AsksATWS(o) ==
  /\ pc = "atws"
  /\ \/ o = "stuck" /\ GivesUpStuck
     \/ o \in {"banner", "bannerError"} /\ Identified(o)
     \/ /\ o \in {"quiet", "error", "dead"}
        /\ pc' = "atz"
        /\ sawDead' = (sawDead \/ o = "dead")
        /\ UNCHANGED <<adapterVars, tries>>

\* ATZ: after it a dead port is taken for a USB reset.
AsksATZ(o) ==
  /\ pc = "atz"
  /\ \/ o = "stuck" /\ GivesUpStuck
     \/ o \in {"banner", "bannerError"} /\ Identified(o)
     \/ /\ o \in {"quiet", "error", "dead"}
        /\ \/ /\ sawDead \/ o = "dead"
              /\ pc' = "gone"
              /\ Abandons(handle)
              /\ UNCHANGED <<tries, sawDead>>
           \/ /\ ~(sawDead \/ o = "dead")
              /\ NextRate
              /\ UNCHANGED adapterVars
-----------------------------------------------------------------------------
(* reopenAfterUSBReset *)

\* Mutant of Reappears: no deadline.
ReappearsEver ==
  /\ pc = "gone"
  /\ ~dead /\ present
  /\ StartsOpening(baud)
  /\ pc' = "reopening"
  /\ UNCHANGED <<scans, dead, port, baud, initVars, present>>

\* It waits for the device file, up to 3 s, then opens it at the same rate.
Reappears ==
  /\ pc = "gone"
  /\ \/ /\ dead \/ ~present
        /\ NextRate
        /\ UNCHANGED adapterVars
     \/ /\ ~dead /\ present
        /\ StartsOpening(baud)
        /\ pc' = "reopening"
        /\ UNCHANGED <<port, baud, tries, sawDead>>
  /\ UNCHANGED <<scans, dead, rate, present>>

Reopens ==
  /\ pc = "reopening"
  /\ \/ TakesPort /\ pc' = "rewake" /\ UNCHANGED <<tries, sawDead>>
     \/ NoPort /\ NextRate
  /\ UNCHANGED <<scans, dead, rate, present>>

Rewakes ==
  /\ pc = "rewake"
  /\ \/ dead /\ NextRate
     \/ ~dead /\ pc' = "reati" /\ UNCHANGED <<tries, sawDead>>
  /\ UNCHANGED <<scans, dead, adapterVars, rate, present>>

\* Mutant of AsksAgain: configures whatever ATI has brought.
AsksAgainTrusts(o) ==
  /\ pc = "reati"
  /\ \/ o = "stuck" /\ GivesUpStuck
     \/ o = "banner" /\ Identified(o)
     \/ /\ o \in {"quiet", "error", "dead", "bannerError"}
        /\ pc' = "config" /\ tries' = 0
        /\ UNCHANGED <<adapterVars, sawDead>>

\* One ATI on the new port.
AsksAgain(o) ==
  /\ pc = "reati"
  /\ \/ o = "stuck" /\ GivesUpStuck
     \/ o = "banner" /\ Identified(o)
     \/ o \in {"quiet", "error", "dead", "bannerError"} /\ NextRate /\ UNCHANGED adapterVars
-----------------------------------------------------------------------------
(* configureELM, the scan itself, Close *)

\* The commands before the last must succeed; the error of ATSTFF is dropped,
\* whatever it is, and Open returns.
Configures(o) ==
  /\ pc = "config"
  /\ \/ /\ tries < ConfigLast
        /\ \/ o = "stuck" /\ GivesUpStuck
           \/ o \in {"error", "dead", "bannerError"} /\ NextRate /\ UNCHANGED adapterVars
           \/ /\ o \in {"banner", "quiet"}
              /\ tries' = tries + 1
              /\ UNCHANGED <<pc, adapterVars, sawDead>>
     \/ /\ tries = ConfigLast
        /\ pc' = "talk"
        /\ handle' = After(o)
        /\ UNCHANGED <<port, baud, want, tries, sawDead>>

\* Any command of Identify, ReadDTCs, ReadFreezeFrame or ReadLiveSnapshot: none
\* of them looks for errStuckSerial.
Talks(o) ==
  /\ pc = "talk"
  /\ handle' = After(o)
  /\ UNCHANGED <<pc, port, baud, want, tries, sawDead>>

\* One of them fails the scan, or it is over.
TalkEnds ==
  /\ pc = "talk"
  /\ pc' = "park"
  /\ UNCHANGED <<scans, dead, adapterVars, initVars, present>>

\* Close: ATWS under a context of its own, then abandonPort.
Parks ==
  /\ pc = "park"
  /\ \E o \in (IF present THEN Outcomes ELSE {"error", "dead", "stuck"}) : Abandons(After(o))
  /\ pc' = "idle"
  /\ UNCHANGED <<scans, dead, initVars, present>>
-----------------------------------------------------------------------------
Command(o) ==
  /\ AsksATI(o) \/ AsksATWS(o) \/ AsksATZ(o) \/ AsksAgain(o) \/ Configures(o) \/ Talks(o)
  /\ UNCHANGED <<scans, dead, rate, present>>

Scan ==
  \/ Opens \/ TriesRate \/ Wakes \/ Reappears \/ Reopens \/ Rewakes \/ TalkEnds \/ Parks
  \/ \E o \in CanBring : Command(o)

Next ==
  \/ ScanStarts \/ Scan
  \/ \E h \in Handles : SerialOpens(h) \/ CloseEnds(h)
  \/ DeviceResets \/ ContextEnds

Spec == Init /\ [][Next]_vars

\* The scan's goroutine runs and its timers fire; the commands between Open and
\* Close are finitely many; serial.Open and Close return in the end.
FairSpec ==
  /\ Spec
  /\ WF_vars(Scan) /\ WF_vars(TalkEnds)
  /\ \A h \in Handles : WF_vars(SerialOpens(h)) /\ WF_vars(CloseEnds(h))
-----------------------------------------------------------------------------
(* Properties *)

HandleRecords ==
  [ st : {"free", "opening", "ready", "failed", "orphan", "held", "closing"},
    mode : 0..Bauds, spoke : 0..Bauds, stuck : BOOLEAN ]

\* Every variable keeps its type; the loops stay within their bounds.
TypeOK ==
  /\ scans \in 0..MaxScans
  /\ pc \in {"idle", "opening", "next", "gone", "reopening"} \cup OnPort
  /\ dead \in BOOLEAN /\ sawDead \in BOOLEAN /\ present \in BOOLEAN
  /\ port \in Handles \cup {NoHandle} /\ want \in Handles \cup {NoHandle}
  /\ handle \in [Handles -> HandleRecords]
  /\ baud \in 1..Bauds /\ rate \in 1..Bauds
  /\ tries \in 0..(AtiTries + ConfigLast)

\* Somebody answers for every handle: one that is open is u.port or being closed,
\* one that is about to be is waited for by the scan or by the goroutine that
\* closes it.  Scan does not call Close after a failed Open, so a scan that is
\* over must have left neither.
NoHandleLeft ==
  \A h \in Handles :
    /\ handle[h].st = "held" => port = h /\ pc # "idle"
    /\ handle[h].st \in {"opening", "ready", "failed"} =>
         want = h /\ pc \in {"opening", "reopening"}

\* u.Baud, which a USB reset opens the port with, is the rate the port is set to.
BaudInStep == port # NoHandle => handle[port].mode = baud

\* The car is only talked to through a port on which an ELM has given its name,
\* at the rate the port is set to now, whatever rates and resets came between.
TalksToELM == pc \in Talking => handle[port].spoke = handle[port].mode

\* The inductive form of the three: the port is set where the code uses it.
PortInv ==
  /\ NoHandleLeft /\ BaudInStep /\ TalksToELM
  /\ pc \in OnPort => port # NoHandle
  /\ pc \in {"idle", "opening", "gone", "reopening"} => port = NoHandle
  /\ port # NoHandle => handle[port].st = "held"
  /\ pc \in {"opening", "reopening"} =>
       want # NoHandle /\ handle[want].st \in {"opening", "ready", "failed"}
  /\ pc \notin {"opening", "reopening"} => want = NoHandle
  /\ pc = "ati" => tries \in 1..AtiTries
  /\ pc = "config" => tries \in 0..ConfigLast
  /\ \A h \in Handles : handle[h].st # "free" => handle[h].mode > 0

\* A scan is over in the end, with the adapter silent, stuck or gone.
ScanReturns == (pc # "idle") ~> (pc = "idle")

\* Every handle is given back in the end, those that come after the scan gave
\* them up included.
HandlesReturn == \A h \in Handles : (handle[h].st # "free") ~> (handle[h].st = "free")
=============================================================================
