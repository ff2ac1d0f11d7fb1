---------------------------- MODULE MCBaySession ----------------------------
(* BaySession with symmetric tabs, first without a token or with one of another API. *)
EXTENDS BaySession, TLC

MCSaved == {None} \cup { t \in Tokens : t.api # Flag /\ t.user = 2 }

Symmetry == Permutations(Tabs)
=============================================================================
