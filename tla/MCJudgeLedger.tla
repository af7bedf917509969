---------------------------- MODULE MCJudgeLedger ---------------------------
(* An instance of JudgeLedger for TLC: one question judged before, and two  *)
(* that the extension adds.                                                 *)
EXTENDS JudgeLedger

OnePrefix  == <<"q1">>
TwoMore    == <<"x1", "x2">>
=============================================================================
