---------------------------- MODULE MCSummary ----------------------------
(* Small instances of Summary. *)
EXTENDS Summary, TLC

CONSTANTS a1, a2, t1, t2

MCAdders == {a1, a2}
MCTopics == {t1, t2}
OneAdder == {a1}
OneTopic == {t1}
Symmetry == Permutations(MCAdders) \cup Permutations(MCTopics)
=============================================================================
