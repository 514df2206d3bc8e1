--------------------------- MODULE MCEnclaveManager ---------------------------
(***************************************************************************)
(* Small instances of EnclaveManager for TLC.                              *)
(***************************************************************************)
EXTENDS EnclaveManager, TLC

CONSTANTS j1, j2, h1, h2, e1, e2

OneJob == {j1}
TwoJobs == {j1, j2}
OneHandler == {h1}
TwoHandlers == {h1, h2}
OneTee == {e1}
TwoTees == {e1, e2}

TwoFiles == {"model", "weights"}
ThreeFiles == TwoFiles \cup {"preprocessing"}

NoCommitment == {{}}
OptionalPreprocessing == {{}, {"preprocessing"}}

\* For liveness: a client does not send again what was answered 200 (a client
\* that uploads for ever could keep a job.json torn at every single tick).
NoResend ==
    \A h \in Handlers :
        th[h].pc = "idle" /\ th'[h].pc = "art_open" => th'[h].art \notin acked[th'[h].job]
LiveSpec == Init /\ [][Next /\ NoResend]_vars /\ Fairness

Symmetric == Permutations(Jobs) \cup Permutations(Handlers) \cup Permutations(Tees)
================================================================================
