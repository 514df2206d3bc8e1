------------------------------ MODULE Dispatch ------------------------------
(***************************************************************************)
(* What the scheduler relies on when it runs the RA-TLS client: an attempt *)
(* on a target hands the payload to at most one enclave, one that runs the *)
(* target's image, and reports success only if that enclave took it.  A    *)
(* failure reports nothing of the kind: the payload may have been taken,   *)
(* or may still be, after the attempt was given up.                        *)
(***************************************************************************)
CONSTANTS Attempts,  \* dispatch attempts, each one run of the client
          Images,    \* image digests a target may be expected to run
          Peers,     \* whoever may be reached, the TEEs of Images among them
          Nobody     \* not a peer

VARIABLES phase,     \* per attempt: "new", "running", "ok" or "failed"
          target,    \* per attempt: the image the target must run
          takenBy,   \* per attempt: the peer that took the payload
          attested   \* whether targets are attested at all, fixed at start

vars == <<phase, target, takenBy, attested>>

Init ==
  /\ phase = [a \in Attempts |-> "new"]
  /\ target \in [Attempts -> Images]
  /\ takenBy = [a \in Attempts |-> Nobody]
  /\ attested \in BOOLEAN

Begin(a) ==
  /\ phase[a] = "new"
  /\ \A b \in Attempts : phase[b] # "running"
  /\ phase' = [phase EXCEPT ![a] = "running"]
  /\ UNCHANGED <<target, takenBy, attested>>

\* Without attestation it may be anyone.
Take(a) ==
  /\ phase[a] \in {"running", "failed"} /\ takenBy[a] = Nobody
  /\ \E p \in IF attested THEN {target[a]} ELSE Peers :
       takenBy' = [takenBy EXCEPT ![a] = p]
  /\ UNCHANGED <<phase, target, attested>>

Succeed(a) ==
  /\ phase[a] = "running" /\ takenBy[a] # Nobody
  /\ phase' = [phase EXCEPT ![a] = "ok"]
  /\ UNCHANGED <<target, takenBy, attested>>

Fail(a) ==
  /\ phase[a] = "running"
  /\ phase' = [phase EXCEPT ![a] = "failed"]
  /\ UNCHANGED <<target, takenBy, attested>>

Next == \E a \in Attempts : Begin(a) \/ Take(a) \/ Succeed(a) \/ Fail(a)

Spec == Init /\ [][Next]_vars
=============================================================================
