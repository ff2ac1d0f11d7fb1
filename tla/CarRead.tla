------------------------------ MODULE CarRead ------------------------------
(***************************************************************************)
(* What a scan says of a car against what the car's ECU answered: the VIN  *)
(* of Identify and the trouble codes of ReadDTCs (pkg/obd/usb.go), decoded *)
(* by extractVIN and by DecodeDTCs (pkg/obd/codes.go), and the live        *)
(* sensors of ReadLiveSnapshot (pkg/obd/pids.go).                          *)
(*                                                                         *)
(* A text is a sequence of characters: 0..15 the hexadecimal digits,       *)
(* 16..35 the letters after F, Gap any other character.  configureELM has  *)
(* turned echo, spaces and headers off, so an answer is hex digits in      *)
(* lines.  A CAN bus, which ensureBus asks first, counts the codes in      *)
(* front of them, and the adapter numbers the lines of an answer that does *)
(* not fit into one frame.  command() returns what has come when its time  *)
(* is over or the port ends (usb.go:635, 684): an answer may break off.    *)
(***************************************************************************)
EXTENDS Integers, Sequences, Functions, SequencesExt

CONSTANTS
  Cars,     \* cars that may be on the cable
  Pids,     \* the sensors that are asked for, in order
  PerLine,  \* codes in one line of an answer of a bus before CAN
  Breaks    \* numbers of characters after which an answer may break off

Byte  == 0..255
Chars == 0..35
Gap   == 36

Modes    == {"03", "07", "0A"}
Statuses == {"confirmed", "pending", "permanent"}

\* The order in which ReadDTCs asks, and the status a mode gives its codes.
Sources == <<"03", "07", "0A">>
StatusOf == [m \in Modes |-> IF m = "03" THEN "confirmed"
                             ELSE IF m = "07" THEN "pending" ELSE "permanent"]

\* The characters of the commands, and the first byte of an answer.
Command == [m \in Modes |-> IF m = "03" THEN <<0, 3>>
                            ELSE IF m = "07" THEN <<0, 7>> ELSE <<0, 10>>]
Service == [m \in Modes |-> IF m = "03" THEN 67 ELSE IF m = "07" THEN 71 ELSE 74]

\* The list of ReadLiveSnapshot: rpm, speed, load, coolant, intake air, air mass,
\* pressure, throttle, four fuel trims, two lambda sensors, voltage.
AllPids == <<12, 13, 4, 5, 15, 16, 11, 17, 6, 7, 8, 9, 20, 21, 66>>

\* decodeRPM, decodeMAF and decodeVoltage take two bytes, the others one.
Width(p) == IF p \in {12, 16, 66} THEN 2 ELSE 1

\* A car: its bus; its VIN, a VIN being 17 characters; its codes by mode, pairs of
\* bytes; by sensor the data of each ECU that answers; and the sensors for which one
\* refuses.
ASSUME ReadAssumption ==
  /\ Pids \in Seq(Range(AllPids))
  /\ PerLine \in Nat \ {0}
  /\ Breaks \subseteq Nat \ {0}
  /\ \A c \in Cars :
       /\ c.bus \in {"can", "legacy"}
       /\ c.vin \in Seq(Chars) /\ Len(c.vin) = 17
       /\ \A m \in Modes : /\ c.codes[m] \in Seq((Byte \X Byte) \ {<<0, 0>>})
                          /\ Len(c.codes[m]) <= 127
       /\ \A p \in Range(Pids) : c.data[p] \in Seq([1..Width(p) -> Byte])
       /\ \A p \in c.refused : c.data[p] = <<>>

VARIABLES
  car,    \* the car on the cable
  pc,     \* "identify", "dtcs", "frames", "live", "done" or "failed"
  next,   \* index in Sources of the mode to ask next
  vin,    \* VehicleInfo.VIN, <<>> when none was found
  seen,   \* ReadDTCs's map: the status of each code found so far
  heard,  \* history: what came from each mode that was answered without an error
  live    \* what the setters of the sensors asked so far were given, in order

vars == <<car, pc, next, vin, seen, heard, live>>
-----------------------------------------------------------------------------
(* The car's answers *)

\* "NO DATA": D, A and A are hexadecimal digits.
NoData == <<Gap, Gap, Gap, 13, 10, Gap, 10>>

Hex(byte) == <<byte \div 16, byte % 16>>

\* A line of an answer.
Sent(bytes) ==
  [i \in 1..(2 * Len(bytes)) |-> Hex(bytes[(i + 1) \div 2])[((i - 1) % 2) + 1]] \o <<Gap>>

\* Lines of PerLine codes, each led by the service byte and filled with 00 00.
Line(m, codes, k) ==
  LET code(j) == LET i == PerLine * (k - 1) + j
                 IN IF i <= Len(codes) THEN codes[i] ELSE <<0, 0>>
  IN Sent(<<Service[m]>> \o
            [i \in 1..(2 * PerLine) |-> code((i + 1) \div 2)[((i - 1) % 2) + 1]])

Lines(codes) == (Len(codes) + PerLine - 1) \div PerLine

\* An answer on CAN: one frame has room for seven bytes.  A longer one is led by their
\* number, three digits, and comes in frames of six and then of seven, each behind its
\* index and a colon, the last filled with 00.
Framed(bytes) ==
  LET n      == Len(bytes)
      frames == 1 + n \div 7
      filled == bytes \o [i \in 1..(7 * frames - 1 - n) |-> 0]
  IN IF n <= 7 THEN Sent(bytes)
     ELSE <<n \div 256, (n \div 16) % 16, n % 16, Gap>> \o
          FlattenSeq([k \in 1..frames |->
            <<(k - 1) % 16, Gap>> \o
            Sent(SubSeq(filled, IF k = 1 THEN 1 ELSE 7 * (k - 1), 7 * k - 1))])

Paired(codes) == [i \in 1..(2 * Len(codes)) |-> codes[(i + 1) \div 2][((i - 1) % 2) + 1]]

Reply(m) ==
  LET codes == car.codes[m]
  IN IF car.bus = "can" THEN Framed(<<Service[m], Len(codes)>> \o Paired(codes))
     ELSE IF codes = <<>> THEN NoData
     ELSE FlattenSeq([k \in 1..Lines(codes) |-> Line(m, codes, k)])

\* A character of a VIN in ASCII: a digit d is 3d, the letters begin at 41.
Ascii(c) == IF c < 10 THEN 48 + c ELSE 55 + c

\* 49 02 01 and the VIN; before CAN five lines of four bytes each, 49 02 and the number
\* of the line before them, the first filled with 00 in front.
VinReply ==
  LET text == [i \in 1..17 |-> Ascii(car.vin[i])]
  IN IF car.bus = "can" THEN Framed(<<73, 2, 1>> \o text)
     ELSE FlattenSeq([k \in 1..5 |->
            Sent(<<73, 2, k>> \o SubSeq(<<0, 0, 0>> \o text, 4 * k - 3, 4 * k))])

\* A line per ECU: 41, the sensor and its data; or 7F 01 12 where the ECU has no such
\* sensor and says so.
LiveReply(p) ==
  IF p \in car.refused THEN Sent(<<127, 1, 18>>)
  ELSE IF car.data[p] = <<>> THEN NoData
  ELSE FlattenSeq([e \in DOMAIN car.data[p] |-> Sent(<<65, p>> \o car.data[p][e])])
-----------------------------------------------------------------------------
(* command() and the decoders *)

\* What readUntilPrompt has of an answer: all of it up to the prompt; or, when the time
\* or the port ends first, what came until then, which is no error.
Arrives(text) ==
  {text} \cup {SubSeq(text, 1, n) : n \in {k \in 1..Len(text) : k \in Breaks}}

\* strings.ReplaceAll(raw, cmd, ""), anywhere in the answer.
Cut(text, cmd) ==
  LET n == Len(cmd)
      from[i \in 1..(Len(text) + n)] ==
        IF i > Len(text) THEN <<>>
        ELSE IF i + n - 1 <= Len(text) /\ SubSeq(text, i, i + n - 1) = cmd THEN from[i + n]
        ELSE <<text[i]>> \o from[i + 1]
  IN from[1]

\* P, C, B or U, two bits, then three hexadecimal digits.
EncodeDTC(a, b) ==
  << (a \div 64) % 4, (a \div 16) % 4, a % 16, (b \div 16) % 16, b % 16 >>

Names == (0..3) \X (0..3) \X (0..15) \X (0..15) \X (0..15)

\* The characters of a text that are in S, collected one by one.
Keep(text, S) ==
  LET kept[k \in 0..Len(text)] ==
        IF k = 0 THEN <<>>
        ELSE IF text[k] \in S THEN Append(kept[k - 1], text[k]) ELSE kept[k - 1]
  IN kept[Len(text)]

HexDigits(text) == Keep(text, 0..15)

\* An odd last digit is dropped.
ToBytes(hex) == [k \in 1..(Len(hex) \div 2) |-> 16 * hex[2 * k - 1] + hex[2 * k]]

\* Mutant of DecodeDTCs: the service byte is decoded with the codes.
DecodeDTCsWithService(text) ==
  LET raw == ToBytes(HexDigits(text))
  IN {EncodeDTC(raw[i], raw[i + 1]) :
        i \in {j \in 1..(Len(raw) - 1) : j % 2 = 1 /\ <<raw[j], raw[j + 1]>> # <<0, 0>>}}

DecodeDTCs(text) ==
  LET hex   == HexDigits(text)
      raw   == ToBytes(hex)
      first == IF raw[1] \in {67, 71, 74} THEN 2 ELSE 1
  IN IF Len(hex) < 6 THEN {}
     ELSE {EncodeDTC(raw[i], raw[i + 1]) :
             i \in {j \in first..(Len(raw) - 1) :
                      (j - first) % 2 = 0 /\ <<raw[j], raw[j + 1]>> # <<0, 0>>}}

\* The alphabet of a VIN: no I, O or Q.
VinChars == Chars \ {18, 24, 26}

\* Seventeen characters, three of them digits.
looksLikeVIN(s) ==
  Len(s) = 17 /\ Len(Keep(s, 0..9)) >= 3

\* The first window that looks like one.
extractVIN(text) ==
  LET s       == Keep(text, VinChars)
      windows == {i \in 1..(Len(s) - 16) : looksLikeVIN(SubSeq(s, i, i + 16))}
  IN IF windows = {} THEN <<>>
     ELSE LET i == CHOOSE i \in windows : \A j \in windows : i <= j
          IN SubSeq(s, i, i + 16)

\* What follows 41 and another byte: the first 41 that has two bytes behind it.  An
\* answer without one loses its first two bytes.
decodePayload(text) ==
  LET hex == HexDigits(text)
      raw == ToBytes(hex)
      led == {i \in 1..(Len(raw) - 2) : raw[i] = 65}
      at  == IF led = {} THEN 1 ELSE CHOOSE i \in led : \A j \in led : i <= j
  IN IF Len(hex) < 6 THEN <<>> ELSE SubSeq(raw, at + 2, Len(raw))

\* Mutant of Decode: the data begins behind the first byte.
DecodeWithPid(p, text) ==
  LET data == decodePayload(text)
  IN IF Len(data) < Width(p) THEN <<>> ELSE <<p>> \o SubSeq(data, 1, Width(p) - 1)

\* The decoders of the sensors; the bytes they take stand for the number, which each
\* decoder scales and shifts in its own way.  <<>> is nil.
Decode(p, text) ==
  LET data == decodePayload(text)
  IN IF Len(data) < Width(p) THEN <<>> ELSE SubSeq(data, 1, Width(p))

\* What came from a mode, cut and decoded.
CutAndDecode(m, text) == DecodeDTCs(Cut(text, Command[m]))
Decoded == [m \in DOMAIN heard |-> CutAndDecode(m, heard[m])]

CommandOf(p) == <<0, 1>> \o Hex(p)
-----------------------------------------------------------------------------
Init ==
  /\ car \in Cars
  /\ pc = "identify"
  /\ next = 1
  /\ vin = <<>>
  /\ seen = <<>>
  /\ heard = <<>>
  /\ live = <<>>

\* No ECU on any bus, or the port is gone after the VIN was asked for.
IdentifyFails ==
  /\ pc = "identify"
  /\ pc' = "failed"
  /\ UNCHANGED <<car, next, vin, seen, heard, live>>

\* The VIN is answered, or is not and the scan goes on without one.
Identify ==
  /\ pc = "identify"
  /\ vin' \in {extractVIN(Cut(text, <<0, 9, 0, 2>>)) : text \in Arrives(VinReply)} \cup {<<>>}
  /\ pc' = "dtcs"
  /\ UNCHANGED <<car, next, seen, heard, live>>

\* Mutant of Merge: a later mode always overwrites.
MergeOverwrites(codes, status) ==
  [c \in DOMAIN seen \cup codes |-> IF c \in codes THEN status ELSE seen[c]]

\* A code already confirmed keeps its status, any other is overwritten.
Merge(codes, status) ==
  [c \in DOMAIN seen \cup codes |->
     IF c \in codes /\ ~(c \in DOMAIN seen /\ seen[c] = "confirmed")
     THEN status ELSE seen[c]]

\* A sensor whose setter was not called.  "text" is history: what came.
NoReading == [given |-> FALSE, bytes |-> <<>>, text |-> <<>>]

Advance ==
  IF next < Len(Sources) THEN next' = next + 1 /\ pc' = pc
                         ELSE next' = next /\ pc' = "frames"

ModeAnswered ==
  /\ pc = "dtcs"
  /\ LET m == Sources[next]
     IN \E text \in Arrives(Reply(m)) :
          /\ seen' = Merge(CutAndDecode(m, text), StatusOf[m])
          /\ heard' = [k \in DOMAIN heard \cup {m} |-> IF k = m THEN text ELSE heard[k]]
  /\ Advance
  /\ UNCHANGED <<car, vin, live>>

\* An error of command() (a timeout, a stuck or closed port, UNABLE, ERROR) is
\* skipped: the next mode is asked, and ReadDTCs returns no error.
ModeLost ==
  /\ pc = "dtcs"
  /\ Advance
  /\ UNCHANGED <<car, vin, seen, heard, live>>

\* ReadFreezeFrame for every code: an error is counted and skipped, but the end of the
\* scan's time between two of them is the end of the scan.
Frames ==
  /\ pc = "frames"
  /\ \/ pc' = "live"
     \/ DOMAIN seen # {} /\ pc' = "failed"
  /\ UNCHANGED <<car, next, vin, seen, heard, live>>

Asking == Pids[Len(live) + 1]

\* NO DATA is skipped like an answer that is lost.
PidAnswered ==
  /\ pc = "live"
  /\ Len(live) < Len(Pids)
  /\ \E text \in Arrives(LiveReply(Asking)) :
       live' = Append(live,
         IF text = NoData THEN NoReading
         ELSE [given |-> TRUE, bytes |-> Decode(Asking, Cut(text, CommandOf(Asking))),
               text |-> text])
  /\ UNCHANGED <<car, pc, next, vin, seen, heard>>

PidLost ==
  /\ pc = "live"
  /\ Len(live) < Len(Pids)
  /\ live' = Append(live, NoReading)
  /\ UNCHANGED <<car, pc, next, vin, seen, heard>>

\* After the last sensor, or with those it has when the scan's time is over.
SampleEnds ==
  /\ pc = "live"
  /\ pc' = "done"
  /\ UNCHANGED <<car, next, vin, seen, heard, live>>

Next ==
  \/ IdentifyFails \/ Identify \/ ModeAnswered \/ ModeLost
  \/ Frames \/ PidAnswered \/ PidLost \/ SampleEnds

Spec == Init /\ [][Next]_vars
-----------------------------------------------------------------------------
\* Every variable keeps its type: a VIN is empty or 17 characters of its
\* alphabet (extractVIN), a code found has one of the names encodeDTC makes.
TypeOK ==
  /\ car \in Cars
  /\ pc \in {"identify", "dtcs", "frames", "live", "done", "failed"}
  /\ next \in 1..Len(Sources)
  /\ vin = <<>> \/ (vin \in Seq(VinChars) /\ Len(vin) = 17)
  /\ DOMAIN seen \subseteq Names
  /\ \A c \in DOMAIN seen : seen[c] \in Statuses
  /\ DOMAIN heard \subseteq Modes
  /\ \A m \in DOMAIN heard : heard[m] \in Seq(Nat)
  /\ live \in Seq([given : BOOLEAN, bytes : Seq(Byte), text : Seq(Nat)])

\* The strongest status the answered modes give a code.
Strongest(c, modes, of) ==
  IF "03" \in modes /\ c \in of["03"] THEN "confirmed"
  ELSE IF "0A" \in modes /\ c \in of["0A"] THEN "permanent"
  ELSE "pending"

\* The codes of the answered modes, each with its strongest status.
Report(modes, of) == [c \in UNION {of[m] : m \in modes} |-> Strongest(c, modes, of)]

\* Whatever the answers, whichever of them are lost and wherever they break off, the
\* codes found are those of what came from the modes, each with its strongest status:
\* confirmed, else permanent, else pending (the merge of ReadDTCs, written as "prefer
\* confirmed over pending").
StatusIsRight == seen = Report(DOMAIN heard, Decoded)

\* The codes the car has stored under each mode.
Stored == [m \in Modes |-> {EncodeDTC(c[1], c[2]) : c \in Range(car.codes[m])}]

\* An answer DecodeDTCs finds its way in: that there is no code; or, on a bus before CAN,
\* one line.  What came of it has the digits of the command nowhere.
Readable(m) ==
  /\ car.codes[m] = <<>> \/ (car.bus = "legacy" /\ Lines(car.codes[m]) <= 1)
  /\ Cut(heard[m], Command[m]) = heard[m]

\* One that is data, of which what came has the digits of the command nowhere.
LiveReadable(p, text) ==
  /\ p \notin car.refused
  /\ Cut(text, CommandOf(p)) = text

\* When what came is readable, wherever it broke off, the scan reports no code that the
\* car has not stored, and each as one of the modes that came has it; when it came whole,
\* the report is what the car has stored under those modes, with the strongest status.  A
\* sensor that was read reads what the first ECU said of it or nothing, and not nothing
\* when that came whole, however many ECUs answered and whatever bytes they sent (ReadDTCs
\* with DecodeDTCs and encodeDTC, ReadLiveSnapshot with decodePayload, against the car).
ReportIsTheCars ==
  /\ (\A m \in DOMAIN heard : Readable(m)) =>
       /\ \A c \in DOMAIN seen :
            \E m \in DOMAIN heard : c \in Stored[m] /\ seen[c] = StatusOf[m]
       /\ (\A m \in DOMAIN heard : heard[m] = Reply(m)) => seen = Report(DOMAIN heard, Stored)
  /\ \A i \in DOMAIN live :
       LET p == Pids[i]
       IN live[i].given /\ LiveReadable(p, live[i].text) =>
            \/ live[i].bytes = <<>> /\ live[i].text # LiveReply(p)
            \/ car.data[p] # <<>> /\ live[i].bytes = car.data[p][1]
=============================================================================
