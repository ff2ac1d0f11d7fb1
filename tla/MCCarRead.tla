----------------------------- MODULE MCCarRead -----------------------------
(***************************************************************************)
(* Two kinds of cars: on either bus, with up to three confirmed codes, at  *)
(* most one pending and one permanent and no sensor; and without a code    *)
(* and with any answers of two sensors.                                    *)
(***************************************************************************)
EXTENDS CarRead

\* 1HGCM82633A004352 as characters 0..35.
MCVin == <<1, 17, 16, 12, 22, 8, 2, 6, 3, 3, 10, 0, 0, 4, 3, 5, 2>>

\* P0171, C0035, and P0300, which holds the digits of mode 03.
MCCodes == {<<1, 113>>, <<64, 53>>, <<3, 0>>}

Stores(m) == {s \in UNION {[1..n -> MCCodes] : n \in 0..(IF m = "03" THEN 2 ELSE 1)} :
                IsInjective(s)}
             \cup IF m = "03" THEN {<<<<1, 113>>, <<64, 53>>, <<3, 0>>>>} ELSE {}

\* Load and air mass: data that begins like an answer, with 41, and data that is the
\* command, 01 10.
MCPids == <<4, 16>>
Data(p) == IF p = 4 THEN {<<4>>, <<65>>} ELSE {<<65, 0>>, <<1, 16>>}

\* No ECU has the sensor, or one or two have it, or one refuses.
Answers(p) == {<<>>} \cup {<<d>> : d \in Data(p)} \cup (Data(p) \X Data(p))

\* Inside the second byte and the fifth, and behind the first of several frames.
MCBreaks == {3, 9, 19}

MCCars ==
  {[bus |-> bus, vin |-> MCVin, codes |-> codes, data |-> [p \in Range(Pids) |-> <<>>],
    refused |-> {}] : bus \in {"can", "legacy"},
                      codes \in {f \in [Modes -> Stores("03")] :
                                   \A m \in Modes : f[m] \in Stores(m)}}
  \cup
  {c \in [bus : {"can"}, vin : {MCVin}, codes : {[m \in Modes |-> <<>>]},
          data : {d \in [Range(Pids) -> UNION {Answers(p) : p \in Range(Pids)}] :
                    \A p \in Range(Pids) : d[p] \in Answers(p)},
          refused : SUBSET Range(Pids)] :
     \A p \in c.refused : c.data[p] = <<>>}
=============================================================================
