----------------------------- MODULE MCNarrator -----------------------------
(***************************************************************************)
(* Two kinds of behaviours.  In the first one explanation is asked for, of *)
(* every combination of the rules' thresholds below.  In the second two    *)
(* handlers answer a few requests about two states of one car, over more   *)
(* than a day.                                                             *)
(***************************************************************************)
EXTENDS Narrator, TLC

Live(rpm, speed, st, lt, maf, load_, front, rear, volts) ==
  [ rpm |-> rpm, speed |-> speed, st |-> st, lt |-> lt, maf |-> maf, load |-> load_,
    front |-> front, rear |-> rear, volts |-> volts ]

\* Idle, cruise and neither; trims at their thresholds and beyond; the air mass low,
\* high and in between; front and rear alike or not; the battery low or not.
Engines == { <<800, 0>>, <<800, 3>>, <<1100, 0>>, <<2000, 60>>, <<None, None>> }
Trims   == { <<13, 11>>, <<12, 11>>, <<11, 11>>, <<-13, -9>>, <<None, 11>> }
Others  == { <<10, None, 450, 499, 117>>, <<70, 50, 450, 500, 118>>,
             <<200, 40, None, 450, None>> }

\* Every engine with every trim, and with everything else.
Sample(e, t, o) == Live(e[1], e[2], t[1], t[2], o[1], o[2], o[3], o[4], o[5])

Samples ==
  { Sample(e, t, <<200, 40, None, 450, None>>) : e \in Engines, t \in Trims }
    \cup { Sample(e, <<13, 11>>, o) : e \in Engines, o \in Others } \cup {None}

\* A fragile link with a frame far from 800 rpm, or neither.
Packs ==
  { [live |-> s, link |-> x[1], frame |-> x[2]] :
      s \in Samples, x \in {<<54, [rpm |-> 1601]>>, <<None, None>>} } \cup {None}

Row(code, with) == [code |-> code, with |-> with, of |-> 4]

\* One code often, one at the limit, one below; and rows of too few scans.  Without any,
\* with an article or not.
Fleets ==
  { <<<<Row(505, 3), Row(506, 2), Row(507, 1), Row(508, 1)>>, "article">>,
    <<<<[code |-> 505, with |-> 1, of |-> 1]>>, "article">>,
    <<<<>>, "article">>, <<<<>>, None>> }

Input(focus, codes, frame, obs, co, article) ==
  [ focus |-> focus, codes |-> codes, frame |-> frame, obs |-> obs, co |-> co,
    article |-> article, vehicle |-> None, history |-> <<3, 2, 1>> ]

Scanned == { {}, {171, 300, 301}, {172, 420}, {174, 300}, {300, 301, 302} }

EveryInput ==
  { Input(focus, codes, IF focus \in codes THEN frame ELSE None, obs, co[1], co[2]) :
      focus \in {171, 172, 174, 300, 420}, codes \in Scanned,
      frame \in {None, [rpm |-> None]}, obs \in Packs, co \in Fleets }

Symmetry == Permutations(Requests)

\* Before and after the repair.
Lean == Input(171, {171}, None,
  [live |-> Live(800, 0, 13, 11, None, None, None, None, None), link |-> None,
   frame |-> None], <<>>, "article")
Lean2 == [Lean EXCEPT !.obs.live.st = 14]

MCBehaviours ==
  { [inputs |-> {in}, asks |-> 1, until |-> 0] : in \in EveryInput }
    \cup { [inputs |-> {Lean, Lean2}, asks |-> 4, until |-> 3] }
=============================================================================
