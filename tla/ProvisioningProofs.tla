-------------------------- MODULE ProvisioningProofs --------------------------
(***************************************************************************)
(* What holds of Provisioning for every number of attempts, crashes and    *)
(* polls, and whatever the cloud refuses: the count of attempts in         *)
(* job.json is the number of GPU starts, up to one per crash, and the CPU  *)
(* is used only after all of them.  Before the first crash, two starts of  *)
(* a VM are a cooldown apart, and the GPU VM is not left half-booted.      *)
(***************************************************************************)
EXTENDS Provisioning, TLAPS

USE ProvisioningAssumption

\* Where the thread works on the GPU VM it still has an attempt to use, from
\* the loop's head to the count; and it turns to the CPU with none left.
PlaceOK ==
    /\ pc \in {"loop", "stop", "off", "count"} => target = "gpu"
    /\ pc \in {"stop", "start", "accepted", "refused", "count"} /\ target = "gpu"
            => attempts < MaxAttempts
    /\ pc # "rest" /\ target = "cpu" => attempts = MaxAttempts
    /\ pc \in {"accepted", "count"} /\ target = "gpu" => issued >= attempts + 1
    /\ pc \in {"count", "wait"} => left \in 1..BootPolls

IInv == TypeOK /\ AttemptsAreStarts /\ PlaceOK

\* An age stays an age when polls go by.
LEMMA AgesOlder ==
    ASSUME NEW a \in Ages, NEW n \in Nat
    PROVE  Older(a, n) \in Ages
  BY DEF Older, Ages

\* So the timestamps keep their types.
LEMMA TimePasses ==
    ASSUME TypeOK, NEW n \in Nat, Passes(n)
    PROVE  /\ age' \in [Vms \cup {"any"} -> Ages \cup {Never}]
           /\ asked' \in [Vms -> Ages]
  BY AgesOlder DEF Passes, TypeOK

\* The invariant holds before the first tick.
LEMMA ProvInit == Init => IInv
  BY DEF Init, IInv, TypeOK, AttemptsAreStarts, Uncounted, PlaceOK, PCs, Vms, VmStates, Ages, Never

\* Every step of the scheduler, the cloud and a crash keeps the invariant.
LEMMA ProvNext == IInv /\ [Next]_vars => IInv'
  <1> SUFFICES ASSUME IInv, [Next]_vars PROVE IInv'
    OBVIOUS
  <1> USE DEF IInv, TypeOK, AttemptsAreStarts, Uncounted, PlaceOK, PCs, VmStates, others
  <1>1. CASE Tick
    BY <1>1, TimePasses DEF Tick, Vms
  <1>2. CASE Probe \/ CpuUnconfigured \/ StateRaises
    BY <1>2 DEF Probe, CpuUnconfigured, StateRaises, NoTime, Vms
  <1>3. CASE Loop
    BY <1>3 DEF Loop, NoTime, Vms
  <1>4. ASSUME NEW done \in BOOLEAN, Stop(done)
        PROVE  IInv'
    <2>1. vm' \in [Vms -> VmStates]
      BY <1>4 DEF Stop
    <2> QED BY <1>4, <2>1, TimePasses DEF Stop
  <1>5. CASE StartSkipped
    BY <1>5 DEF StartSkipped, NoTime
  <1>6. ASSUME NEW ok \in BOOLEAN, StartScript(ok)
        PROVE  IInv'
    <2>1. vm' \in [Vms -> VmStates]
      BY <1>6 DEF StartScript
    <2>2. asked' \in [Vms -> Ages]
      BY <1>6 DEF StartScript, Ages
    <2>3. issued' \in Nat /\ attempts' <= issued'
      BY <1>6 DEF StartScript
    <2>4. CASE target = "gpu"
      BY <1>6, <2>1, <2>2, <2>3, <2>4 DEF StartScript
    <2>5. CASE target = "cpu"
      BY <1>6, <2>1, <2>2, <2>3, <2>5 DEF StartScript
    <2> QED BY <2>4, <2>5 DEF Vms
  <1>7. CASE StartRecorded
    <2>1. age' \in [Vms \cup {"any"} -> Ages \cup {Never}]
      BY <1>7 DEF StartRecorded
    <2>2. left' \in 0..BootPolls
      BY <1>7 DEF StartRecorded
    <2> QED BY <1>7, <2>1, <2>2 DEF StartRecorded, Vms
  <1>8. CASE Count
    BY <1>8 DEF Count, NoTime
  <1>9. CASE Healthy
    BY <1>9 DEF Healthy, NoTime
  <1>10. CASE Poll
    <2>1. age' \in [Vms \cup {"any"} -> Ages \cup {Never}] /\ asked' \in [Vms -> Ages]
      BY <1>10, TimePasses DEF Poll
    <2>2. left' \in 0..BootPolls
      BY <1>10 DEF Poll
    <2> QED BY <1>10, <2>1, <2>2 DEF Poll, Vms
  <1>11. CASE DispatchFails
    BY <1>11 DEF DispatchFails, NoTime
  <1>12. CASE NextJob
    BY <1>12, TimePasses DEF NextJob
  <1>13. ASSUME NEW v \in Vms, Boots(v) \/ BootFails(v) \/ Breaks(v)
         PROVE  IInv'
    <2>1. vm' \in [Vms -> VmStates]
      BY <1>13 DEF Boots, BootFails, Breaks
    <2>2. breaks' \in 0..MaxBreaks
      BY <1>13 DEF Boots, BootFails, Breaks
    <2> QED BY <1>13, <2>1, <2>2 DEF Boots, BootFails, Breaks
  <1>14. CASE Crash
    <2>1. tears' \in 0..MaxTears
      BY <1>14 DEF Crash
    <2> QED BY <1>14, <2>1 DEF Crash, NoTime
  <1>15. CASE UNCHANGED vars
    BY <1>15 DEF vars
  <1> QED
    BY <1>1, <1>2, <1>3, <1>4, <1>5, <1>6, <1>7, <1>8, <1>9, <1>10, <1>11,
       <1>12, <1>13, <1>14, <1>15
    DEF Next, Scheduler, Cloud

\* Types, and with them the cap on the attempts of a job.
THEOREM ProvTypes == Spec => []TypeOK
  <1>1. IInv => TypeOK
    BY DEF IInv
  <1> QED BY ProvInit, ProvNext, <1>1, PTL DEF Spec

\* Attempts and accepted GPU starts differ only by the one under way and one
\* per crash.
THEOREM AttemptsMatchStarts == Spec => []AttemptsAreStarts
  <1>1. IInv => AttemptsAreStarts
    BY DEF IInv
  <1> QED BY ProvInit, ProvNext, <1>1, PTL DEF Spec

\* A job has the GPU VM booted at most MaxAttempts times, and once per crash.
THEOREM BootsCapped == Spec => []GpuBootsCapped
  <1>1. IInv => GpuBootsCapped
    BY DEF IInv, TypeOK, AttemptsAreStarts, Uncounted, PlaceOK, GpuBootsCapped
  <1> QED BY ProvInit, ProvNext, <1>1, PTL DEF Spec

\* The CPU VM is used for a job only after MaxAttempts GPU starts.
THEOREM CpuAfterGpu == Spec => []CpuIsFallback
  <1>1. IInv => CpuIsFallback
    BY DEF IInv, TypeOK, AttemptsAreStarts, PlaceOK, CpuIsFallback
  <1> QED BY ProvInit, ProvNext, <1>1, PTL DEF Spec

(***************************************************************************)
(* The two properties of the time before the first crash.                  *)
(***************************************************************************)

\* What dispatch_state.json remembers of a VM is what happened to it, except
\* between its start script and the save that records it.
AgeOK ==
    crashes = 0 =>
        \A v \in Vms :
            \/ pc \in {"accepted", "refused"} /\ target = v
            \/ asked[v] = IF age[v] = Never THEN Cooldown ELSE age[v]

\* Only an attempt on it that is under way leaves the GPU VM between off and
\* ready, if it does not break down later.
BootOK ==
    crashes = 0 /\ breaks = 0 /\ vm["gpu"] \in {"booting", "broken"} =>
        target = "gpu" /\ pc \in {"accepted", "count", "wait", "off"}

\* The record of the starts stays right: it ages as the VMs' histories do.
LEMMA AgesKept == Init => AgeOK
  BY DEF Init, AgeOK, Vms

\* Every step keeps it so: only the save after the start script changes one alone.
LEMMA AgesKeep == IInv /\ AgeOK /\ [Next]_vars => AgeOK'
  <1> SUFFICES ASSUME TypeOK, AgeOK, [Next]_vars, crashes' = 0,
                      NEW v \in Vms
               PROVE  \/ pc' \in {"accepted", "refused"} /\ target' = v
                      \/ asked'[v] = IF age'[v] = Never THEN Cooldown ELSE age'[v]
    BY DEF AgeOK, IInv
  <1>1. crashes \in Nat /\ v \in Vms \cup {"any"} /\ target \in Vms
    BY DEF TypeOK, Vms
  <1>2. age[v] \in Ages \cup {Never} /\ asked[v] \in Ages
    BY <1>1 DEF TypeOK
  <1>3. \A a \in Ages : a # Never
    BY DEF Ages, Never
  <1>4. CASE crashes # 0
    BY <1>1, <1>4
    DEF Next, Scheduler, Cloud, vars, others, Tick, StateRaises, Probe, CpuUnconfigured,
        Loop, Stop, StartSkipped, StartScript, StartRecorded, Count, Healthy, Poll,
        DispatchFails, NextJob, Boots, BootFails, Breaks, Crash
  <1>5. ASSUME crashes = 0
        PROVE  \/ pc \in {"accepted", "refused"} /\ target = v
               \/ asked[v] = IF age[v] = Never THEN Cooldown ELSE age[v]
    BY <1>5 DEF AgeOK
  \* Polls go by while no start is being recorded.
  <1>6. ASSUME NEW n \in Nat, Passes(n), crashes = 0, pc \notin {"accepted", "refused"}
        PROVE  asked'[v] = IF age'[v] = Never THEN Cooldown ELSE age'[v]
    <2>1. Older(Cooldown, n) = Cooldown
      BY DEF Older
    <2>2. /\ age'[v] = IF age[v] = Never THEN Never ELSE Older(age[v], n)
          /\ asked'[v] = Older(asked[v], n)
      BY <1>1, <1>6 DEF Passes
    <2>3. asked[v] = IF age[v] = Never THEN Cooldown ELSE age[v]
      BY <1>5, <1>6
    <2>4. Older(asked[v], n) # Never
      BY <1>2, <1>3, <1>6, AgesOlder
    <2> QED BY <2>1, <2>2, <2>3, <2>4
  <1>7. CASE Tick \/ NextJob
    BY <1>4, <1>6, <1>7 DEF Tick, NextJob
  <1>8. ASSUME NEW done \in BOOLEAN, Stop(done)
        PROVE  crashes = 0 => asked'[v] = IF age'[v] = Never THEN Cooldown ELSE age'[v]
    BY <1>6, <1>8 DEF Stop
  <1>9. CASE Poll
    BY <1>4, <1>6, <1>9 DEF Poll
  <1>10. CASE StateRaises \/ Probe \/ CpuUnconfigured \/ Loop \/ StartSkipped \/ Count
              \/ Healthy \/ DispatchFails
    BY <1>4, <1>5, <1>10
    DEF StateRaises, Probe, CpuUnconfigured, Loop, StartSkipped, Count, Healthy,
        DispatchFails, NoTime
  <1>11. ASSUME NEW ok \in BOOLEAN, StartScript(ok)
         PROVE  crashes = 0 =>
                    \/ pc' \in {"accepted", "refused"} /\ target' = v
                    \/ asked'[v] = IF age'[v] = Never THEN Cooldown ELSE age'[v]
    <2>1. pc' \in {"accepted", "refused"} /\ pc = "start" /\ target' = target /\ age' = age
      BY <1>11 DEF StartScript
    <2>2. v # target => asked'[v] = asked[v]
      BY <1>1, <1>11 DEF StartScript, TypeOK
    <2> QED BY <1>5, <2>1, <2>2
  <1>12. CASE StartRecorded
    <2>1. asked' = asked /\ "any" # v
      BY <1>12 DEF StartRecorded, Vms
    <2>2. age'[v] = IF v = target THEN asked[v] ELSE age[v]
      BY <1>1, <1>12, <2>1 DEF StartRecorded, TypeOK
    <2> QED BY <1>2, <1>3, <1>4, <1>5, <2>1, <2>2
  <1>13. CASE Crash
    BY <1>1, <1>13 DEF Crash
  <1>14. CASE Cloud \/ UNCHANGED vars
    BY <1>4, <1>5, <1>14 DEF Cloud, Boots, BootFails, Breaks, vars, others
  <1>15. CASE crashes = 0
    BY <1>7, <1>8, <1>9, <1>10, <1>11, <1>12, <1>13, <1>14, <1>15 DEF Next, Scheduler
  <1> QED BY <1>4, <1>15

\* The GPU VM is stopped before its attempt is over.
LEMMA BootKept == Init => BootOK
  BY DEF Init, BootOK, Vms

\* Every step keeps it so, where the cloud grants the stop of the GPU VM.
LEMMA BootKeeps == "gpu" \notin Refusing /\ IInv /\ BootOK /\ [Next]_vars => BootOK'
  <1> SUFFICES ASSUME "gpu" \notin Refusing, TypeOK, PlaceOK, BootOK, [Next]_vars,
                      crashes' = 0, breaks' = 0, vm'["gpu"] \in {"booting", "broken"}
               PROVE  target' = "gpu" /\ pc' \in {"accepted", "count", "wait", "off"}
    BY DEF BootOK, IInv
  <1>1. crashes \in Nat /\ breaks \in Nat /\ target \in Vms /\ "gpu" \in Vms
    BY DEF TypeOK, Vms
  <1>2. vm["gpu"] \in VmStates
    BY <1>1 DEF TypeOK
  <1>3. crashes = 0 /\ breaks = 0
    BY <1>1
    DEF Next, Scheduler, Cloud, vars, others, Tick, StateRaises, Probe, CpuUnconfigured,
        Loop, Stop, StartSkipped, StartScript, StartRecorded, Count, Healthy, Poll,
        DispatchFails, NextJob, Boots, BootFails, Breaks, Crash
  <1>4. ASSUME vm["gpu"] \in {"booting", "broken"}
        PROVE  target = "gpu" /\ pc \in {"accepted", "count", "wait", "off"}
    BY <1>3, <1>4 DEF BootOK
  <1>5. CASE Tick \/ StateRaises \/ Probe \/ CpuUnconfigured \/ Loop \/ StartSkipped
             \/ DispatchFails
    BY <1>4, <1>5 DEF Tick, StateRaises, Probe, CpuUnconfigured, Loop, StartSkipped, DispatchFails
  <1>6. ASSUME NEW done \in BOOLEAN, Stop(done)
        PROVE  FALSE
    <2>1. vm'["gpu"] = "off"
      BY <1>1, <1>6 DEF Stop, TypeOK
    <2> QED BY <2>1
  <1>7. ASSUME NEW ok \in BOOLEAN, StartScript(ok)
        PROVE  target' = "gpu" /\ pc' \in {"accepted", "count", "wait", "off"}
    <2>1. target = "gpu"
      <3>1. CASE target # "gpu"
        <4>1. vm'["gpu"] = vm["gpu"]
          BY <1>1, <1>7, <3>1 DEF StartScript, TypeOK
        <4> QED BY <1>4, <4>1
      <3> QED BY <3>1
    <2> QED BY <1>7, <2>1 DEF StartScript
  <1>8. CASE StartRecorded
    <2>1. vm' = vm /\ target' = target /\ pc \in {"accepted", "refused"}
      BY <1>8 DEF StartRecorded
    <2> QED BY <1>4, <1>8, <2>1 DEF StartRecorded
  <1>9. CASE Count \/ Healthy
    BY <1>4, <1>9 DEF Count, Healthy
  <1>10. CASE Poll
    BY <1>4, <1>10 DEF Poll, PlaceOK
  <1>11. CASE NextJob
    <2>1. vm'["gpu"] = "off" \/ vm'["gpu"] = vm["gpu"]
      BY <1>1, <1>11 DEF NextJob, TypeOK
    <2> QED BY <1>4, <1>11, <2>1 DEF NextJob
  <1>12. ASSUME NEW v \in Vms, Boots(v) \/ BootFails(v) \/ Breaks(v)
         PROVE  target' = "gpu" /\ pc' \in {"accepted", "count", "wait", "off"}
    <2>1. ~Breaks(v)
      BY <1>3 DEF Breaks
    <2>2. vm["gpu"] \in {"booting", "broken"} /\ pc' = pc /\ target' = target
      BY <1>1, <1>12, <2>1 DEF Boots, BootFails, TypeOK
    <2> QED BY <1>4, <2>2
  <1>13. CASE Crash
    BY <1>1, <1>13 DEF Crash
  <1>14. CASE UNCHANGED vars
    BY <1>4, <1>14 DEF vars
  <1> QED
    BY <1>5, <1>6, <1>7, <1>8, <1>9, <1>10, <1>11, <1>12, <1>13, <1>14
    DEF Next, Scheduler, Cloud

\* Before the first crash, two start requests to one VM are a cooldown apart,
\* although a VM without a timestamp of its own is judged by the common one.
THEOREM StartsAreApart == Spec => CooldownKept
  <1>1. ASSUME IInv, AgeOK, NEW ok \in BOOLEAN, crashes = 0, StartScript(ok)
        PROVE  asked[target] = Cooldown
    <2>1. target \in Vms /\ pc = "start" /\ ~CoolingDown(target)
      BY <1>1 DEF StartScript, IInv, TypeOK
    <2>2. asked[target] = IF age[target] = Never THEN Cooldown ELSE age[target]
      BY <1>1, <2>1 DEF AgeOK
    <2>3. age[target] \in Ages \cup {Never}
      BY <1>1, <2>1 DEF IInv, TypeOK
    <2> QED BY <2>1, <2>2, <2>3 DEF CoolingDown, LastAge, Ages
  <1>2. IInv /\ AgeOK => \A ok \in BOOLEAN : crashes = 0 /\ StartScript(ok) => asked[target] = Cooldown
    BY <1>1, Zenon
  <1> QED BY ProvInit, ProvNext, AgesKept, AgesKeep, <1>2, PTL DEF Spec, CooldownKept

\* Where stop requests of the GPU VM are granted, and as long as the service
\* has not crashed and no VM broken down, the GPU VM is not left half-booted
\* (and paid for) when a job turns to the CPU.
THEOREM GpuStoppedBeforeCpu ==
    "gpu" \notin Refusing => (Spec => [](breaks = 0 => HalfBootedGpuIsStopped))
  <1> SUFFICES ASSUME "gpu" \notin Refusing
               PROVE  Spec => [](breaks = 0 => HalfBootedGpuIsStopped)
    OBVIOUS
  <1>1. IInv /\ BootOK /\ [Next]_vars => BootOK'
    BY BootKeeps
  <1>2. BootOK => (breaks = 0 => HalfBootedGpuIsStopped)
    BY DEF BootOK, HalfBootedGpuIsStopped
  <1> QED BY ProvInit, ProvNext, BootKept, <1>1, <1>2, PTL DEF Spec
================================================================================
