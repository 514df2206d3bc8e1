----------------------------- MODULE Provisioning -----------------------------
(***************************************************************************)
(* How the scheduler thread gets a Processing TEE for the job it picked:   *)
(* _provision_processing_tee and what it calls, in                         *)
(* src/enclave_manager_buffer.py.  The GPU VM is tried first, with at most *)
(* MaxAttempts stop-start cycles per job (counted in job.json), then the   *)
(* CPU VM.  Start requests to a VM keep a cooldown, whose timestamps are   *)
(* in dispatch_state.json.  Both files survive a crash of the service.     *)
(*                                                                         *)
(* Time is counted in polls and only as far as the cooldown needs it: the  *)
(* age of a timestamp saturates at Cooldown.  The VMs are external: a      *)
(* start is accepted or refused by the cloud API, and an accepted one ends *)
(* in a ready VM or in a broken (half-booted) one.                         *)
(***************************************************************************)
EXTENDS Integers

CONSTANTS
    MaxAttempts,    \* MAX_GPU_PROVISION_ATTEMPTS
    Cooldown,       \* PROCESSING_VM_START_COOLDOWN_SECONDS, in polls
    BootPolls,      \* the boot timeouts, in polls
    StopPause,      \* VM_STOP_WAIT_SECONDS, in polls
    TickPause,      \* SCHEDULER_INTERVAL_SECONDS, in polls
    CpuSettings,    \* may CPU_CS_ADDR and CPU_CS_IMAGE_DIGEST be set, be unset?
    Refusing,       \* VMs whose start or stop request may be refused
    Flaky,          \* VMs whose boot may end half-way
    Dead,           \* VMs whose boot never ends well
    MaxCrashes,     \* how often the service is killed and restarted
    MaxTears,       \* how often a crash hits a write of dispatch_state.json
    MaxBreaks       \* how often a healthy VM stops answering

Vms == {"gpu", "cpu"}

ASSUME ProvisioningAssumption ==
    /\ {MaxAttempts, Cooldown, BootPolls, StopPause, TickPause, MaxCrashes,
        MaxTears, MaxBreaks} \subseteq Nat
    /\ MaxAttempts > 0 /\ BootPolls > 0
    /\ CpuSettings \subseteq BOOLEAN
    /\ Refusing \subseteq Vms /\ Flaky \subseteq Vms /\ Dead \subseteq Vms

VARIABLES
    pc,         \* where the scheduler thread is
    target,     \* the VM it is working on
    left,       \* polls left in _wait_for_vm
    attempts,   \* job.json: gpu_provision_attempts
    age,        \* dispatch_state.json: age of last_vm_start_request_unix_<vm>
                \* (and of the un-namespaced one, "any"); Never: no such key
    vm,         \* the state of each VM
    asked,      \* history: time since the VM was last asked to start
    issued,     \* history: GPU starts that were accepted for this job
    cpuConfigured,  \* is the CPU fallback configured?
    crashes, breaks,
    tears       \* crashes that left dispatch_state.json torn

others == <<cpuConfigured, crashes, breaks, tears>>
vars == <<pc, target, left, attempts, age, vm, asked, issued, others>>

Never == -1
PCs == {"rest", "probe", "loop", "stop", "start", "accepted", "refused", "count",
        "wait", "off", "sent"}
VmStates == {"off", "booting", "ready", "broken"}

Init ==
    /\ pc = "rest"
    /\ target = "gpu"
    /\ left = 0
    /\ attempts = 0
    /\ age = [k \in Vms \cup {"any"} |-> Never]
    /\ vm = [v \in Vms |-> "off"]
    /\ asked = [v \in Vms |-> Cooldown]
    /\ issued = 0
    /\ cpuConfigured \in CpuSettings
    /\ crashes = 0
    /\ breaks = 0
    /\ tears = 0

Older(a, n) == IF a + n < Cooldown THEN a + n ELSE Cooldown

\* n polls go by.
Passes(n) ==
    /\ age' = [k \in Vms \cup {"any"} |->
                  IF age[k] = Never THEN Never ELSE Older(age[k], n)]
    /\ asked' = [v \in Vms |-> Older(asked[v], n)]

NoTime == UNCHANGED <<age, asked>>

(***************************************************************************)
(* A tick picks the job; one whose GPU attempts are used up goes straight  *)
(* to the CPU.                                                             *)
(***************************************************************************)
Tick ==
    /\ pc = "rest"
    /\ Passes(TickPause)
    /\ pc' = "probe"
    /\ target' = IF attempts >= MaxAttempts THEN "cpu" ELSE "gpu"
    /\ UNCHANGED <<left, attempts, vm, issued, others>>

\* A torn dispatch_state.json: whatever the tick does next reads it first,
\* raises, and ends the tick.  Nothing ever replaces the file.
StateRaises ==
    /\ pc = "probe"
    /\ tears > 0
    /\ pc' = "rest"
    /\ NoTime
    /\ UNCHANGED <<target, left, attempts, vm, issued, others>>

\* A healthy VM is used; for the GPU, without an attempt.
Probe ==
    /\ pc = "probe"
    /\ tears = 0
    /\ target = "cpu" => cpuConfigured
    /\ pc' = CASE vm[target] = "ready" -> "sent"
               [] vm[target] # "ready" /\ target = "gpu" -> "loop"
               [] vm[target] # "ready" /\ target = "cpu" -> "start"
    /\ NoTime
    /\ UNCHANGED <<target, left, attempts, vm, issued, others>>

\* Without a CPU address and digest the fallback ends the tick.
CpuUnconfigured ==
    /\ pc = "probe"
    /\ tears = 0
    /\ target = "cpu" /\ ~cpuConfigured
    /\ pc' = "rest"
    /\ NoTime
    /\ UNCHANGED <<target, left, attempts, vm, issued, others>>

\* Variant: the retry loop ends one attempt early.
LoopShort ==
    /\ pc = "loop"
    /\ IF attempts + 1 >= MaxAttempts
       THEN pc' = "probe" /\ target' = "cpu"
       ELSE pc' = (IF attempts = 0 THEN "start" ELSE "stop") /\ target' = "gpu"
    /\ NoTime
    /\ UNCHANGED <<left, attempts, vm, issued, others>>

\* Variant: the retry loop makes one attempt too many.
LoopLong ==
    /\ pc = "loop"
    /\ IF attempts > MaxAttempts
       THEN pc' = "probe" /\ target' = "cpu"
       ELSE pc' = (IF attempts = 0 THEN "start" ELSE "stop") /\ target' = "gpu"
    /\ NoTime
    /\ UNCHANGED <<left, attempts, vm, issued, others>>

\* The head of the retry loop: the first attempt of a job skips the stop.
Loop ==
    /\ pc = "loop"
    /\ IF attempts >= MaxAttempts
       THEN pc' = "probe" /\ target' = "cpu"
       ELSE pc' = (IF attempts = 0 THEN "start" ELSE "stop") /\ target' = "gpu"
    /\ NoTime
    /\ UNCHANGED <<left, attempts, vm, issued, others>>

\* _stop_vm, before a retry ("stop") and after a boot that timed out ("off"):
\* a stop that is refused is only logged, the pause follows anyway.
Stop(done) ==
    /\ pc \in {"stop", "off"}
    /\ done \/ "gpu" \in Refusing
    /\ vm' = IF done THEN [vm EXCEPT !["gpu"] = "off"] ELSE vm
    /\ Passes(StopPause)
    /\ pc' = IF pc = "stop" THEN "start" ELSE "loop"
    /\ UNCHANGED <<target, left, attempts, issued, others>>

(***************************************************************************)
(* _request_vm_start: the cooldown (a missing key falls back to the common *)
(* timestamp); the start script; the timestamps taken before it ran are    *)
(* saved, whether or not it succeeded.                                     *)
(***************************************************************************)
LastAge(v) == IF age[v] = Never THEN age["any"] ELSE age[v]

\* Variant: the cooldown is looked up under a key that is never written.
CoolingDownWrongKey(v) == FALSE

CoolingDown(v) == LastAge(v) # Never /\ LastAge(v) < Cooldown

StartSkipped ==
    /\ pc = "start"
    /\ CoolingDown(target)
    /\ pc' = "rest"
    /\ NoTime
    /\ UNCHANGED <<target, left, attempts, vm, issued, others>>

StartScript(ok) ==
    /\ pc = "start"
    /\ ~CoolingDown(target)
    /\ ok \/ target \in Refusing
    /\ vm' = IF ok /\ vm[target] = "off" THEN [vm EXCEPT ![target] = "booting"] ELSE vm
    /\ issued' = IF ok /\ target = "gpu" THEN issued + 1 ELSE issued
    /\ asked' = [asked EXCEPT ![target] = 0]
    /\ pc' = IF ok THEN "accepted" ELSE "refused"
    /\ UNCHANGED <<target, left, attempts, age, others>>

StartRecorded ==
    /\ pc \in {"accepted", "refused"}
    /\ age' = [age EXCEPT ![target] = asked[target], !["any"] = asked[target]]
    /\ pc' = CASE pc = "refused" -> "rest"
               [] pc = "accepted" /\ target = "gpu" -> "count"
               [] pc = "accepted" /\ target = "cpu" -> "wait"
    /\ left' = IF pc = "accepted" THEN BootPolls ELSE 0
    /\ UNCHANGED <<target, attempts, vm, asked, issued, others>>

\* Variant: the count is kept in memory only, the job record is not saved.
CountUnsaved ==
    /\ pc = "count"
    /\ pc' = "wait"
    /\ NoTime
    /\ UNCHANGED <<target, left, attempts, vm, issued, others>>

\* An accepted GPU start consumes the attempt, before the wait.
Count ==
    /\ pc = "count"
    /\ attempts' = attempts + 1
    /\ pc' = "wait"
    /\ NoTime
    /\ UNCHANGED <<target, left, vm, issued, others>>

(***************************************************************************)
(* _wait_for_vm: polls until the VM is healthy or the time is up.          *)
(***************************************************************************)
Healthy ==
    /\ pc = "wait"
    /\ vm[target] = "ready"
    /\ pc' = "sent"
    /\ left' = 0
    /\ NoTime
    /\ UNCHANGED <<target, attempts, vm, issued, others>>

\* Variant: a GPU VM that did not come up in time is left as it is.
PollKeepsGpu ==
    /\ pc = "wait"
    /\ vm[target] # "ready"
    /\ Passes(1)
    /\ left' = left - 1
    /\ pc' = CASE left > 1 -> "wait"
               [] left = 1 /\ target = "gpu" -> "loop"
               [] left = 1 /\ target = "cpu" -> "rest"
    /\ UNCHANGED <<target, attempts, vm, issued, others>>

\* Variant: the wait has no deadline.
PollNoDeadline ==
    /\ pc = "wait"
    /\ vm[target] # "ready"
    /\ Passes(1)
    /\ UNCHANGED <<pc, target, left, attempts, vm, issued, others>>

Poll ==
    /\ pc = "wait"
    /\ vm[target] # "ready"
    /\ Passes(1)
    /\ left' = left - 1
    /\ pc' = CASE left > 1 -> "wait"
               [] left = 1 /\ target = "gpu" -> "off"
               [] left = 1 /\ target = "cpu" -> "rest"
    /\ UNCHANGED <<target, attempts, vm, issued, others>>

(***************************************************************************)
(* The dispatch.  It fails, and the job stays queued; or the TEE evaluates *)
(* the job and deallocates itself, and the next job starts with no         *)
(* attempts (the fallback is not sticky).                                  *)
(***************************************************************************)
DispatchFails ==
    /\ pc = "sent"
    /\ pc' = "rest"
    /\ NoTime
    /\ UNCHANGED <<target, left, attempts, vm, issued, others>>

NextJob ==
    /\ pc = "sent"
    /\ pc' = "rest"
    /\ vm' = [vm EXCEPT ![target] = "off"]
    /\ attempts' = 0
    /\ issued' = 0
    /\ Passes(TickPause)
    /\ UNCHANGED <<target, left, others>>

(***************************************************************************)
(* The VMs and the service's crashes.                                      *)
(***************************************************************************)
Boots(v) ==
    /\ vm[v] = "booting"
    /\ v \notin Dead
    /\ vm' = [vm EXCEPT ![v] = "ready"]
    /\ UNCHANGED <<pc, target, left, attempts, age, asked, issued, others>>

BootFails(v) ==
    /\ vm[v] = "booting"
    /\ v \in Flaky
    /\ vm' = [vm EXCEPT ![v] = "broken"]
    /\ UNCHANGED <<pc, target, left, attempts, age, asked, issued, others>>

Breaks(v) ==
    /\ vm[v] = "ready"
    /\ breaks < MaxBreaks
    /\ vm' = [vm EXCEPT ![v] = "broken"]
    /\ breaks' = breaks + 1
    /\ UNCHANGED <<pc, target, left, attempts, age, asked, issued, cpuConfigured, crashes, tears>>

\* job.json and dispatch_state.json survive.  The latter is rewritten at every
\* probe, start and status change, from open("w") on: a crash in a tick may
\* leave it torn.
Crash ==
    /\ crashes < MaxCrashes
    /\ crashes' = crashes + 1
    /\ \/ UNCHANGED tears
       \/ pc # "rest" /\ tears < MaxTears /\ tears' = tears + 1
    /\ pc' = "rest"
    /\ left' = 0
    /\ NoTime
    /\ UNCHANGED <<target, attempts, vm, issued, cpuConfigured, breaks>>

Scheduler ==
    \/ Tick \/ StateRaises \/ Probe \/ CpuUnconfigured \/ Loop
    \/ \E done \in BOOLEAN : Stop(done)
    \/ StartSkipped \/ \E ok \in BOOLEAN : StartScript(ok)
    \/ StartRecorded \/ Count \/ Healthy \/ Poll \/ DispatchFails \/ NextJob

Cloud == \E v \in Vms : Boots(v) \/ BootFails(v) \/ Breaks(v)

Next == Scheduler \/ Cloud \/ Crash

Spec == Init /\ [][Next]_vars

\* The scheduler thread keeps running, a VM that is not dead comes up in the
\* end (perhaps only after a boot timeout), and the cloud does not refuse
\* every start for ever.
Fairness ==
    /\ WF_vars(Scheduler)
    /\ SF_vars(StartScript(TRUE))
    /\ \A v \in Vms : WF_vars(Boots(v))

FairSpec == Spec /\ Fairness

--------------------------------------------------------------------------------
Ages == 0..Cooldown

\* Every variable has its type; a job never has more attempts than configured.
TypeOK ==
    /\ pc \in PCs
    /\ target \in Vms
    /\ left \in 0..BootPolls
    /\ attempts \in 0..MaxAttempts
    /\ age \in [Vms \cup {"any"} -> Ages \cup {Never}]
    /\ vm \in [Vms -> VmStates]
    /\ asked \in [Vms -> Ages]
    /\ issued \in Nat
    /\ cpuConfigured \in BOOLEAN
    /\ crashes \in 0..MaxCrashes
    /\ breaks \in 0..MaxBreaks
    /\ tears \in 0..MaxTears

\* The start that is under way.
Uncounted == IF pc \in {"accepted", "count"} /\ target = "gpu" THEN 1 ELSE 0

\* An attempt stands for an accepted start, and every accepted start is an
\* attempt, but for the one under way and at most one per crash: neither the
\* cooldown nor refusals nor restarts let a job start the GPU VM for free.
AttemptsAreStarts ==
    /\ attempts <= issued
    /\ issued <= attempts + crashes + Uncounted

\* A job works on the CPU VM only after the GPU VM was started for it as often
\* as configured: the CPU is a fallback, also after restarts.
CpuIsFallback == target = "cpu" /\ pc # "rest" => issued >= MaxAttempts

\* A job that no TEE takes (no CPU fallback is configured, say) has the GPU
\* VM booted at most MaxAttempts times, and once more per crash, however many
\* ticks it waits: provision-cpu-cs-vm.md:134-135.
GpuBootsCapped == issued <= MaxAttempts + crashes

\* While the service does not crash, the GPU VM is not left half-booted
\* when the scheduler turns to the CPU (a refused stop excepted).
HalfBootedGpuIsStopped ==
    crashes = 0 /\ target = "cpu" /\ pc # "rest" => vm["gpu"] \notin {"booting", "broken"}

\* Two start requests to one VM are a cooldown apart, whichever job and which
\* loop they come from (while the service does not crash).
CooldownKept ==
    [][\A ok \in BOOLEAN : crashes = 0 /\ StartScript(ok) => asked[target] = Cooldown]_vars

\* Provisioning never gives up and never waits for ever: again and again a job
\* gets a healthy TEE, though the GPU VM never comes up.
JobsAreSent == []<>(pc = "sent")
================================================================================
