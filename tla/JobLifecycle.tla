---------------------------- MODULE JobLifecycle ----------------------------
(***************************************************************************)
(* What the job service promises of a job, were there no files and no      *)
(* threads: it is created, queued once it is complete, evaluated once,     *)
(* recorded as dispatched and then as complete, and deleted; of all jobs   *)
(* one at a time is between being taken and being complete.                *)
(***************************************************************************)
CONSTANT Jobs

VARIABLES stage,       \* what the record of each job says
          taken,       \* the jobs a Processing TEE has ever taken
          evaluating   \* the jobs that are being evaluated

vars == <<stage, taken, evaluating>>

Init ==
  /\ stage = [j \in Jobs |-> "none"]
  /\ taken = {}
  /\ evaluating = {}

Advance(j, from, to) == stage[j] = from /\ stage' = [stage EXCEPT ![j] = to]

Create(j) == Advance(j, "none", "pending_upload") /\ UNCHANGED <<taken, evaluating>>

Queue(j) == Advance(j, "pending_upload", "queued") /\ UNCHANGED <<taken, evaluating>>

\* Another job was taken and its record does not say complete yet.
Busy == \E j \in taken : stage[j] \notin {"complete", "deleted"}

Take(j) ==
  /\ stage[j] = "queued" /\ ~Busy /\ evaluating = {}
  /\ taken' = taken \cup {j} /\ evaluating' = {j}
  /\ UNCHANGED stage

Dispatch(j) == j \in taken /\ Advance(j, "queued", "dispatched") /\ UNCHANGED <<taken, evaluating>>

\* The evaluation ends; the service is not told.
End(j) == j \in evaluating /\ evaluating' = evaluating \ {j} /\ UNCHANGED <<stage, taken>>

Complete(j) ==
  j \notin evaluating /\ Advance(j, "dispatched", "complete") /\ UNCHANGED <<taken, evaluating>>

Delete(old) ==
  /\ \A j \in old : stage[j] = "complete"
  /\ stage' = [j \in Jobs |-> IF j \in old THEN "deleted" ELSE stage[j]]
  /\ UNCHANGED <<taken, evaluating>>

Next ==
  \/ \E j \in Jobs : Create(j) \/ Queue(j) \/ Take(j) \/ Dispatch(j) \/ End(j) \/ Complete(j)
  \/ \E old \in SUBSET Jobs : Delete(old)

Spec == Init /\ [][Next]_vars
=============================================================================
