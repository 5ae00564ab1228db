------------------------------- MODULE OneShot -------------------------------
(***************************************************************************)
(* What the final gate promises to those who ask for its verdict: the      *)
(* gates run at most once, whoever asks and however often; there is one    *)
(* verdict, it never changes, and everyone who is told one is told that    *)
(* one; it names a report only when the one run produced that report.      *)
(***************************************************************************)
EXTENDS Naturals

CONSTANTS Verdicts, \* what may be decided: records that may name a report
          None

VARIABLES runs,     \* how often the gates have begun to run
          outcome,  \* what the run produced, None before it ended
          verdict,  \* None until it is decided
          told      \* the verdicts callers have been told

Init == runs = 0 /\ outcome = None /\ verdict = None /\ told = {}

Run == /\ runs = 0 /\ verdict = None
       /\ runs' = 1
       /\ UNCHANGED <<outcome, verdict, told>>

Finish == /\ runs = 1 /\ outcome = None /\ verdict = None
          /\ outcome' \in {"passed", "failed", "error"}
          /\ UNCHANGED <<runs, verdict, told>>

Decide(v) == /\ verdict = None
             /\ v.report \in {outcome, None}
             /\ verdict' = v
             /\ UNCHANGED <<runs, outcome, told>>

Tell == /\ verdict # None
        /\ told' = told \union {verdict}
        /\ UNCHANGED <<runs, outcome, verdict>>

Next == Run \/ Finish \/ (\E v \in Verdicts : Decide(v)) \/ Tell

Spec == Init /\ [][Next]_<<runs, outcome, verdict, told>>
=============================================================================
