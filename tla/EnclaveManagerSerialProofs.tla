---------------------- MODULE EnclaveManagerSerialProofs ----------------------
(***************************************************************************)
(* What holds of EnclaveManager, for every set of jobs, threads and        *)
(* targets, when clients upload one artifact at a time, the service is not *)
(* killed and no reply of a Processing TEE is lost: no job is evaluated    *)
(* twice.  Where no probe is false either (Processing TEEs may still die), *)
(* which is the hypothesis of the run em_serial, no two are evaluated at   *)
(* the same time, and the files, threads and Processing TEEs implement     *)
(* JobLifecycle.                                                           *)
(***************************************************************************)
EXTENDS EnclaveManagerFilesProofs

\* The hypotheses.
Once == Undisturbed /\ MaxLostReplies = 0
NoFaults == Once /\ MaxFalseProbes = 0

USE SchedAssumption

\* The scheduler is about to write down that its job was taken.
Marking == th[Sched].pc = "mark" \/ (Saving(Sched) /\ th[Sched].rec = "dispatched")

\* A record past its dispatch.
Past(rec) == rec \in {"dispatched", "complete", "deleted"}

\* A job that was taken is past its dispatch, or the scheduler is at it.
AcceptedAt(j) ==
    /\ accepted[j] < 2
    /\ accepted[j] > 0 => Past(file[j].rec) \/ (Claiming /\ th[Sched].job = j)

\* A job that runs does so on the TEE it is assigned to, and is neither complete
\* nor about to be; or it was taken just now.
RunsAt(e, j) ==
    /\ e \in up
    /\ \/ /\ file[j].rec = "dispatched" /\ assigned[j] = e
          /\ ~(Completing /\ th[Sched].job = j)
       \/ Marking /\ th[Sched].job = j /\ th[Sched].tee = e

\* A false probe completes a job that still runs.
RunningOK == MaxFalseProbes = 0 =>
    \A e \in Tees : \A j \in running[e] : RunsAt(e, j)

EInv == SInv /\ FInv /\ (\A j \in Jobs : AcceptedAt(j)) /\ RunningOK

\* The first start: nothing was taken.
LEMMA EvalInit == Init => EInv
  <1> SUFFICES ASSUME Init PROVE EInv
    OBVIOUS
  <1>1. (\A j \in Jobs : AcceptedAt(j)) /\ RunningOK
    BY DEF Init, AcceptedAt, RunningOK
  <1> QED BY <1>1, SafeInit, FilesInit DEF EInv

\* A step in which no job is taken and none is forgotten.
LEMMA AcceptedKeeps ==
    ASSUME EInv, UNCHANGED accepted, NEW j \in Jobs,
           Past(file[j].rec) \/ (Claiming /\ th[Sched].job = j) =>
             Past(file'[j].rec) \/ (Claiming' /\ th'[Sched].job = j)
    PROVE  AcceptedAt(j)'
  BY DEF EInv, AcceptedAt

\* A step after which no more runs than before, and what runs is still dispatched.
LEMMA RunningKeeps ==
    ASSUME EInv, UNCHANGED assigned,
           \A e \in Tees : /\ running'[e] \subseteq running[e]
                           /\ e \in up /\ running'[e] # {} => e \in up',
           \A e \in Tees : \A j \in running'[e] :
              /\ file[j].rec = "dispatched" /\ ~(Completing /\ th[Sched].job = j) =>
                   file'[j].rec = "dispatched" /\ ~(Completing' /\ th'[Sched].job = j)
              /\ Marking /\ th[Sched].job = j =>
                   Marking' /\ th'[Sched].job = j /\ th'[Sched].tee = th[Sched].tee
    PROVE  RunningOK'
  <1> SUFFICES ASSUME MaxFalseProbes = 0, NEW e \in Tees, NEW j \in running'[e]
               PROVE  RunsAt(e, j)'
    BY DEF RunningOK
  <1>1. RunsAt(e, j) /\ e \in up'
    BY DEF EInv, RunningOK, RunsAt
  <1> QED BY <1>1 DEF RunsAt

\* What the invariant says of the scheduler's place.
LEMMA Places ==
    ASSUME EInv
    PROVE  /\ PastScan => \A j \in Jobs : file[j].rec # "dispatched"
           /\ Claiming => Holding
           /\ Marking => Claiming /\ PastScan
           /\ th[Sched].pc \notin {"mark", "save_open", "save_flush"} => ~Claiming /\ ~Marking
           /\ Holding => th[Sched].job \in Jobs
  <1>1. Holding => th[Sched].job \in Jobs
    BY DEF EInv, FInv, TInv, LocalOK, SchedOK, Holding, Dispatching, Completing
  <1> QED BY <1>1 DEF EInv, SInv, ScanHolds, PastScan, Claiming, Marking, Holding,
                      Dispatching, Completing, Saving

\* A handler writes no record of a job that was taken.
LEMMA HandlerEvals ==
    ASSUME EInv, FInv', SInv', NEW h \in Handlers, Handler(h)
    PROVE  EInv'
  <1> h \in Threads /\ h # Sched /\ TInv
    BY DEF Threads, EInv, FInv
  <1>1. UNCHANGED <<accepted, running, up, assigned>> /\ th'[Sched] = th[Sched]
    <2>1. th[h].pc = "save_flush" => th[h].rec # "dispatched"
      BY DEF TInv, LocalOK, HandlerOK, Saving
    <2>2. th'[Sched] = th[Sched]
      BY DEF Handler, HandlerSteps, SaveAndQueue, Create, StartUpload, ArtifactOpen,
             ArtifactWrite, CheckComplete, SaveOpen, SaveFlush, QueueRead,
             QueueReadRaises, QueueOpen, QueueFlush, Goto, Rest, TInv, StateOK, Threads
    <2>3. UNCHANGED <<accepted, running, up, assigned>>
      BY <2>1
      DEF Handler, HandlerSteps, SaveAndQueue, Create, StartUpload, ArtifactOpen,
          ArtifactWrite, CheckComplete, SaveOpen, SaveFlush, QueueRead, QueueReadRaises,
          QueueOpen, QueueFlush, disk, tees, history
    <2> QED BY <2>2, <2>3
  <1>2. ASSUME NEW j \in Jobs, Past(file[j].rec) PROVE file'[j] = file[j]
    <2>1. CASE SaveOpen(h) \/ SaveFlush(h)
      <3>1. Early(h) /\ Saving(h)
        BY <2>1 DEF SaveOpen, SaveFlush, Early, Saving
      <3>2. file[th[h].job].rec \in {"pending_upload", "none", "empty"}
        BY <3>1 DEF EInv, FInv, UploadsOK, UploadOK, Saving
      <3>3. th[h].job # j
        BY <1>2, <3>2 DEF Past
      <3> QED BY <2>1, <3>3 DEF SaveOpen, SaveFlush, TInv, StateOK
    <2>2. CASE ~(SaveOpen(h) \/ SaveFlush(h))
      BY <2>2 DEF Handler, HandlerSteps, SaveAndQueue, Create, StartUpload, ArtifactOpen,
            ArtifactWrite, CheckComplete, QueueRead, QueueReadRaises, QueueOpen,
            QueueFlush, disk
    <2> QED BY <2>1, <2>2
  <1>3. Claiming' = Claiming /\ Completing' = Completing /\ Marking' = Marking
    BY <1>1 DEF Claiming, Completing, Marking, Saving
  <1>4. \A j \in Jobs : AcceptedAt(j)'
    BY <1>1, <1>2, <1>3, AcceptedKeeps
  <1>5. RunningOK'
    <2>1. \A e \in Tees : running[e] \subseteq Jobs
      BY DEF TInv, StateOK
    <2> QED BY <1>1, <1>2, <1>3, <2>1, RunningKeeps DEF Past
  <1> QED BY <1>4, <1>5 DEF EInv

\* Processing TEEs that end or die run nothing, and no other is affected.
LEMMA TeeEvals ==
    ASSUME EInv, FInv', SInv', NEW e \in Tees, TeeFinish(e) \/ TeeCrash(e)
    PROVE  EInv'
  <1>1. UNCHANGED <<accepted, file, assigned, th>>
    BY DEF TeeFinish, TeeCrash, disk, history
  <1>2. Claiming' = Claiming /\ Completing' = Completing /\ Marking' = Marking
    BY <1>1 DEF Claiming, Completing, Marking, Saving
  <1>3. \A j \in Jobs : AcceptedAt(j)'
    BY <1>1, <1>2, AcceptedKeeps
  <1>4. \A f \in Tees : /\ running'[f] \subseteq running[f]
                        /\ f \in up /\ running'[f] # {} => f \in up'
    BY DEF TeeFinish, TeeCrash, EInv, FInv, TInv, StateOK
  <1>5. RunningOK'
    BY <1>1, <1>2, <1>4, RunningKeeps
  <1> QED BY <1>3, <1>5 DEF EInv
\* The scheduler, where it holds no job that was taken and comes to complete none.
LEMMA TickEvals ==
    ASSUME EInv, FInv', SInv', UNCHANGED <<accepted, running, assigned, file>>,
           up \subseteq up', ~Claiming, ~Marking, ~Completing'
    PROVE  EInv'
  <1>1. \A j \in Jobs : AcceptedAt(j)'
    BY AcceptedKeeps
  <1>2. RunningOK'
    BY RunningKeeps
  <1> QED BY <1>1, <1>2 DEF EInv

(***************************************************************************)
(* The scheduler: it takes a job only when nothing runs, completes one     *)
(* only when its TEE is down, and is never short of the record of a job    *)
(* that was taken.                                                         *)
(***************************************************************************)
LEMMA SchedulerEvals ==
    ASSUME Once, EInv, FInv', SInv', Scheduler
    PROVE  EInv'
  <1> Sched \in Threads
    BY DEF Threads
  <1> DEFINE pc == th[Sched].pc
             newpc == th'[Sched].pc
  <1>0. /\ TInv /\ TInv' /\ SchedOK /\ th[Sched].todo \in SUBSET Jobs
        /\ file \in [Jobs -> Texts] /\ \A e \in Tees : running[e] \subseteq Jobs
        /\ running \in [Tees -> SUBSET Jobs] /\ accepted \in [Jobs -> 0..2]
        /\ assigned \in [Jobs -> Tees \cup {Nil}]
        /\ th[Sched].tee \in Tees \cup {Nil}
    BY Fields DEF EInv, FInv, TInv, LocalOK, StateOK
  <1>1. ASSUME \/ FinalizeScan \/ FinalizeDone
               \/ \E j \in Jobs : ProbeAlive(j) \/ Pick(j)
               \/ BusyScan \/ ProvisionSave \/ NotBooted \/ Recheck \/ GiveUp
               \/ \E e \in Tees : Booted(e)
               \/ QueueRead(Sched) \/ QueueReadRaises(Sched)
               \/ QueueOpen(Sched) \/ QueueFlush(Sched)
        PROVE  EInv'
    <2>1. UNCHANGED <<accepted, running, assigned, file>> /\ up \subseteq up'
      BY <1>1 DEF FinalizeScan, FinalizeDone, ProbeAlive, Pick, BusyScan, ProvisionSave,
                  NotBooted, Recheck, GiveUp, Booted, QueueRead, QueueReadRaises,
                  QueueOpen, QueueFlush, disk, tees, history
    <2>2. pc \notin {"save_open", "save_flush"}
      BY <1>1 DEF FinalizeScan, FinalizeDone, ProbeAlive, Pick, BusyScan, ProvisionSave,
                  NotBooted, Recheck, GiveUp, Booted, QueueRead, QueueReadRaises,
                  QueueOpen, QueueFlush
    <2>3. pc # "mark"
      <3>1. CASE GiveUp
        <4>1. pc = "mark" => ~Unreadable(th[Sched].job)
          BY DEF EInv, FInv, DispatchOK, Dispatching, Unreadable
        <4> QED BY <3>1, <4>1 DEF GiveUp
      <3>2. CASE ~GiveUp
        BY <1>1, <3>2
        DEF FinalizeScan, FinalizeDone, ProbeAlive, Pick, BusyScan, ProvisionSave,
            NotBooted, Recheck, Booted, QueueRead, QueueReadRaises, QueueOpen, QueueFlush
      <3> QED BY <3>1, <3>2
    <2>4. ~Claiming /\ ~Marking
      BY <2>2, <2>3, Places
    <2>5. \/ newpc \notin {"reload", "save_open", "save_flush"}
          \/ newpc = "save_open" /\ th'[Sched].rec = "provisioned"
      <3>1. CASE FinalizeScan
        BY <1>0, <3>1, SchedTurns DEF Turns, Holds
      <3>2. ASSUME NEW j \in Jobs, ProbeAlive(j)
            PROVE  newpc = "finalize"
        BY <1>0, <3>2, SchedTurns DEF ProbeAlive, Turns, Holds
      <3>3. ASSUME NEW j \in Jobs, Pick(j)
            PROVE  newpc = "provision"
        BY <1>0, <3>3, SchedTurns DEF Turns, Holds
      <3>4. ASSUME NEW e \in Tees, Booted(e)
            PROVE  newpc = "recheck"
        BY <1>0, <3>4, SchedTurns DEF Turns, Holds
      <3>5. CASE ProvisionSave
        BY <1>0, <3>5, SchedTurns DEF Saves, Turns, Holds
      <3>6. CASE FinalizeDone \/ BusyScan \/ NotBooted \/ Recheck \/ GiveUp
        BY <1>0, <3>6, SchedTurns DEF GoesTo, Ends, Turns, Holds
      <3>7. CASE QueueRead(Sched) \/ QueueReadRaises(Sched) \/ QueueOpen(Sched)
                 \/ QueueFlush(Sched)
        BY <1>0, <3>7, SharedTurns DEF GoesTo, Ends, Turns, Holds
      <3> QED BY <1>1, <3>1, <3>2, <3>3, <3>4, <3>5, <3>6, <3>7
    <2>6. ~Completing'
      BY <2>5 DEF Completing, Saving
    <2> QED BY <2>1, <2>4, <2>6, TickEvals
  <1>2. ASSUME NEW j \in Jobs, th[Sched].job = j, Reload
        PROVE  EInv'
    <2>1. pc = "reload" /\ Completing /\ UNCHANGED <<accepted, running, up, assigned, file>>
      BY <1>2 DEF Reload, Completing, disk, tees, history
    <2>2. file[j].ok /\ file[j].rec = "dispatched"
      BY <1>2, <2>1 DEF EInv, FInv, DispatchOK
    <2>3. Saves(Sched, "complete")
      BY <1>0, <1>2, <2>2, SchedTurns, Statuses
    <2>4. th'[Sched].job = j
      BY <1>2, <2>3 DEF Saves, Turns, Holds
    <2>5. ~Claiming /\ ~Marking
      BY <2>1, Places
    <2>6. \A i \in Jobs : AcceptedAt(i)'
      BY <2>1, <2>5, AcceptedKeeps
    <2>7. RunningOK'
      BY <1>2, <2>1, <2>4, <2>5, RunningKeeps
    <2> QED BY <2>6, <2>7 DEF EInv
  \* The probe tells the truth.
  <1>3. ASSUME NEW j \in Jobs, ProbeDead(j)
        PROVE  EInv'
    <2>1. /\ pc = "finalize" /\ UNCHANGED <<accepted, running, up, assigned, file>>
          /\ faults.probe + (IF assigned[j] \in up THEN 1 ELSE 0) <= MaxFalseProbes
      BY <1>3 DEF ProbeDead, disk, tees, history
    <2>2. MaxFalseProbes = 0 => assigned[j] \notin up
      <3>0. SUFFICES ASSUME MaxFalseProbes = 0 PROVE assigned[j] \notin up
        OBVIOUS
      <3>1. faults \in [crash : 0..MaxCrashes, lost : 0..MaxLostReplies,
                        tee : 0..MaxTeeCrashes, probe : 0..MaxFalseProbes]
        BY <1>0 DEF TInv, StateOK
      <3>2. faults.probe \in 0..0
        BY <3>0, <3>1
      <3> QED BY <2>1, <3>0, <3>2
    <2>3. th'[Sched].job = j
      BY <1>0, <1>3, SchedTurns DEF Turns, Holds
    <2>4. ~Claiming /\ ~Marking
      BY <2>1, Places
    <2>5. MaxFalseProbes = 0 => \A e \in Tees : j \notin running[e]
      BY <2>2, <2>4 DEF EInv, RunningOK, RunsAt
    <2>6. \A i \in Jobs : AcceptedAt(i)'
      BY <2>1, <2>4, AcceptedKeeps
    <2>7. RunningOK'
      <3>1. CASE MaxFalseProbes = 0
        BY <2>1, <2>3, <2>4, <2>5, <3>1, RunningKeeps
      <3>2. CASE MaxFalseProbes # 0
        BY <3>2 DEF RunningOK
      <3> QED BY <3>1, <3>2
    <2> QED BY <2>6, <2>7 DEF EInv
  \* The job is taken: no other runs, and it was not taken before.
  <1>4. ASSUME NEW ok \in BOOLEAN, NEW j \in Jobs, th[Sched].job = j, Send(ok)
        PROVE  EInv'
    <2> DEFINE e == th[Sched].tee
    <2>1. /\ pc = "send" /\ e \in up /\ UNCHANGED <<file, assigned, up>>
          /\ running' = [running EXCEPT ![e] = @ \cup {j}]
          /\ accepted' = [accepted EXCEPT ![j] = IF @ < 2 THEN @ + 1 ELSE 2]
      BY <1>4 DEF Send, disk
    <2>2. ok
      <3>1. faults.lost + (IF ok THEN 0 ELSE 1) <= MaxLostReplies
        BY <1>4 DEF Send
      <3>2. faults \in [crash : 0..MaxCrashes, lost : 0..MaxLostReplies,
                        tee : 0..MaxTeeCrashes, probe : 0..MaxFalseProbes]
        BY <1>0 DEF TInv, StateOK
      <3>3. faults.lost \in 0..0
        BY <3>2 DEF Once
      <3> QED BY <3>1, <3>3 DEF Once
    <2>3. GoesTo(Sched, "mark")
      BY <1>0, <1>4, <2>2, SchedTurns
    <2>4. newpc = "mark" /\ th'[Sched].job = j /\ th'[Sched].tee = e
      BY <1>4, <2>3 DEF GoesTo, Turns, Holds
    <2>5. ~Claiming /\ ~Marking /\ PastScan /\ Dispatching
      BY <2>1, Places DEF PastScan, Dispatching
    <2>6. MaxFalseProbes = 0 => \A f \in Tees : running[f] = {}
      BY <1>0, <2>5, Places DEF EInv, RunningOK, RunsAt
    <2>7. accepted[j] = 0
      <3>1. file[j].rec \in {"queued", "provisioned"}
        BY <1>4, <2>1, <2>5 DEF EInv, FInv, DispatchOK
      <3>2. ~(accepted[j] > 0) /\ accepted[j] \in 0..2
        BY <1>0, <2>5, <3>1 DEF EInv, AcceptedAt, Past
      <3> QED BY <3>2
    <2>8. AcceptedAt(j)'
      <3>1. accepted'[j] = 1
        BY <1>0, <2>1, <2>7
      <3>2. Claiming'
        BY <2>4 DEF Claiming
      <3> QED BY <2>4, <3>1, <3>2 DEF AcceptedAt
    <2>9. ASSUME NEW i \in Jobs \ {j} PROVE AcceptedAt(i)'
      BY <1>0, <2>1, <2>5, <2>9 DEF EInv, AcceptedAt
    <2>10. RunningOK'
      <3>1. ASSUME MaxFalseProbes = 0, NEW f \in Tees, NEW i \in running'[f]
            PROVE  f = e /\ i = j
        BY <1>0, <2>1, <2>6, <3>1
      <3>2. Marking'
        BY <2>4 DEF Marking
      <3> QED BY <2>1, <2>4, <3>1, <3>2 DEF RunningOK, RunsAt
    <2> QED BY <2>8, <2>9, <2>10 DEF EInv
  <1>5. ASSUME NEW j \in Jobs, th[Sched].job = j, MarkLoad
        PROVE  EInv'
    <2>1. pc = "mark" /\ UNCHANGED <<accepted, running, up, assigned, file>>
      BY <1>5 DEF MarkLoad, disk, tees, history
    <2>2. Saves(Sched, "dispatched")
      BY <1>0, <1>5, SchedTurns
    <2>3. /\ newpc = "save_open" /\ th'[Sched].rec = "dispatched"
          /\ th'[Sched].job = j /\ th'[Sched].tee = th[Sched].tee
      BY <1>5, <2>2 DEF Saves, Turns, Holds
    <2>4. Claiming' /\ Marking' /\ ~Completing'
      BY <2>3 DEF Claiming, Marking, Completing, Saving
    <2>5. \A i \in Jobs : AcceptedAt(i)'
      BY <1>5, <2>1, <2>3, <2>4, AcceptedKeeps
    <2>6. RunningOK'
      BY <1>5, <2>1, <2>3, <2>4, RunningKeeps
    <2> QED BY <2>5, <2>6 DEF EInv
  <1>6. ASSUME NEW j \in Jobs, th[Sched].job = j, SaveOpen(Sched)
        PROVE  EInv'
    <2>1. /\ pc = "save_open" /\ Saving(Sched) /\ UNCHANGED <<accepted, running, up, assigned>>
          /\ \A i \in Jobs \ {j} : file'[i] = file[i]
      BY <1>0, <1>6 DEF SaveOpen, Saving, tees, history
    <2>2. GoesTo(Sched, "save_flush")
      BY <1>0, <1>6, SharedTurns
    <2>3. /\ newpc = "save_flush" /\ th'[Sched].rec = th[Sched].rec
          /\ th'[Sched].job = j /\ th'[Sched].tee = th[Sched].tee
      BY <1>6, <2>2 DEF GoesTo, Turns, Holds
    <2>4. Claiming' = Claiming /\ Marking' = Marking /\ Completing' = Completing
      BY <2>1, <2>3 DEF Claiming, Marking, Completing, Saving
    <2>5. Past(file[j].rec) => Claiming /\ Completing
      BY <1>0, <1>6, <2>1
      DEF EInv, FInv, DispatchOK, Dispatching, Completing, Claiming, SchedOK, Past, Saving
    <2>6. \A i \in Jobs : AcceptedAt(i)'
      BY <1>6, <2>1, <2>3, <2>4, <2>5, AcceptedKeeps
    <2>7. RunningOK'
      <3>1. \A i \in Jobs : file[i].rec = "dispatched" /\ ~(Completing /\ i = j) =>
                              file'[i].rec = "dispatched"
        BY <2>1, <2>5 DEF Past
      <3> QED BY <1>0, <1>6, <2>1, <2>3, <2>4, <3>1, RunningKeeps
    <2> QED BY <2>6, <2>7 DEF EInv
  <1>7. ASSUME NEW j \in Jobs, th[Sched].job = j, SaveFlush(Sched)
        PROVE  EInv'
    <2>1. /\ pc = "save_flush" /\ Saving(Sched) /\ UNCHANGED <<accepted, running, up>>
          /\ file' = [file EXCEPT ![j] = Overwrite(file[j], th[Sched].rec)]
          /\ assigned' = IF th[Sched].rec = "dispatched"
                         THEN [assigned EXCEPT ![j] = th[Sched].tee] ELSE assigned
      BY <1>7 DEF SaveFlush, Saving, tees
    <2>2. th[Sched].rec \in {"provisioned", "dispatched", "complete"}
      BY <1>0, <2>1 DEF SchedOK
    <2>3. file[j].rec = "empty"
      BY <1>7, <2>1 DEF EInv, FInv, DispatchOK
    <2>4. /\ file'[j].rec = th[Sched].rec
          /\ \A i \in Jobs \ {j} : file'[i] = file[i]
      BY <1>0, <2>1, <2>2, <2>3 DEF Overwrite, Size
    <2>5. newpc \in {"queue_read", "boot", "finalize"}
      BY <1>0, <1>7, SchedTurns DEF GoesTo, Turns, Holds
    <2>6. ~Completing'
      BY <2>5 DEF Completing, Saving
    <2>7. \A i \in Jobs : AcceptedAt(i)'
      <3>1. Claiming => Past(file'[j].rec)
        BY <2>1, <2>4 DEF Claiming, Saving, Past
      <3>2. ~Past(file[j].rec)
        BY <2>3 DEF Past
      <3> QED BY <1>7, <2>1, <2>4, <3>1, <3>2, AcceptedKeeps
    <2>8. CASE th[Sched].rec = "dispatched"
      <3>1. PastScan
        BY <2>1, <2>8 DEF PastScan
      <3>2. ASSUME MaxFalseProbes = 0, NEW f \in Tees, NEW i \in running'[f]
            PROVE  f \in up' /\ i = j /\ th[Sched].tee = f
        <4>1. RunsAt(f, i) /\ i \in Jobs
          BY <1>0, <2>1, <3>2 DEF EInv, RunningOK
        <4> QED BY <1>7, <2>1, <3>1, <4>1, Places DEF RunsAt
      <3>3. assigned'[j] = th[Sched].tee
        BY <1>0, <2>1, <2>8
      <3>4. RunningOK'
        BY <2>4, <2>6, <2>8, <3>2, <3>3 DEF RunningOK, RunsAt
      <3> QED BY <2>7, <3>4 DEF EInv
    <2>9. CASE th[Sched].rec # "dispatched"
      <3>1. ~Marking /\ assigned' = assigned
        BY <2>1, <2>9 DEF Marking
      <3>2. \A i \in Jobs : file[i].rec = "dispatched" => file'[i].rec = "dispatched"
        BY <2>3, <2>4
      <3>3. RunningOK'
        BY <1>0, <2>1, <2>6, <3>1, <3>2, RunningKeeps
      <3> QED BY <2>7, <3>3 DEF EInv
    <2> QED BY <2>8, <2>9
  <1>8. ASSUME NEW old \in SUBSET Jobs, Cleanup(old)
        PROVE  EInv'
    <2>1. /\ \A i \in old : file[i].rec = "complete" /\ file'[i].rec = "deleted"
          /\ \A i \in Jobs \ old : file'[i] = file[i]
          /\ UNCHANGED <<accepted, running, up, assigned>> /\ pc = "sleep"
      BY <1>8, Statuses DEF Cleanup, tees, history
    <2>2. GoesTo(Sched, "finalize_scan")
      BY <1>0, <1>8, SchedTurns
    <2>3. newpc = "finalize_scan"
      BY <2>2 DEF GoesTo, Turns, Holds
    <2>4. ~Claiming /\ ~Marking /\ ~Completing'
      BY <2>1, <2>3, Places DEF Completing, Saving
    <2>5. \A i \in Jobs : Past(file[i].rec) => Past(file'[i].rec)
      BY <2>1 DEF Past
    <2>6. \A i \in Jobs : AcceptedAt(i)'
      BY <2>1, <2>4, <2>5, AcceptedKeeps
    <2>7. \A i \in Jobs : file[i].rec = "dispatched" => file'[i].rec = "dispatched"
      BY <2>1
    <2>8. RunningOK'
      BY <1>0, <2>1, <2>4, <2>7, RunningKeeps
    <2> QED BY <2>6, <2>8 DEF EInv
  <1>9. Reload \/ MarkLoad \/ SaveOpen(Sched) \/ SaveFlush(Sched)
          \/ (\E ok \in BOOLEAN : Send(ok)) => th[Sched].job \in Jobs
    BY <1>0 DEF Reload, MarkLoad, SaveOpen, SaveFlush, Send, SchedOK, Saving
  <1> QED BY <1>1, <1>2, <1>3, <1>4, <1>5, <1>6, <1>7, <1>8, <1>9
          DEF Scheduler, SaveAndQueue

\* Every step keeps the invariant.
LEMMA EvalNext == Once /\ EInv /\ [Next]_vars => EInv'
  <1> SUFFICES ASSUME Once, EInv, [Next]_vars PROVE EInv'
    OBVIOUS
  <1>1. FInv' /\ SInv'
    BY FilesNext, SafeNext DEF Once, Undisturbed, EInv
  <1>2. CASE UNCHANGED vars
    <2>1. UNCHANGED <<accepted, running, up, assigned, file, th>>
      BY <1>2 DEF vars, disk, tees, history
    <2>2. Claiming' = Claiming /\ Completing' = Completing /\ Marking' = Marking
      BY <2>1 DEF Claiming, Completing, Marking, Saving
    <2>3. \A j \in Jobs : AcceptedAt(j)'
      BY <2>1, <2>2, AcceptedKeeps
    <2>4. RunningOK'
      BY <2>1, <2>2, RunningKeeps
    <2> QED BY <1>1, <2>3, <2>4 DEF EInv
  <1>3. CASE Environment
    <2>1. ~Crash
      <3>1. faults \in [crash : 0..MaxCrashes, lost : 0..MaxLostReplies,
                        tee : 0..MaxTeeCrashes, probe : 0..MaxFalseProbes]
        BY DEF EInv, FInv, TInv, StateOK
      <3>2. faults.crash \in 0..MaxCrashes
        BY <3>1
      <3> QED BY <3>2 DEF Once, Undisturbed, Crash
    <2> QED BY <1>1, <1>3, <2>1, TeeEvals DEF Environment
  <1>4. CASE \E h \in Handlers : Handler(h)
    BY <1>1, <1>4, HandlerEvals
  <1>5. CASE Scheduler
    BY <1>1, <1>5, SchedulerEvals
  <1> QED BY <1>2, <1>3, <1>4, <1>5 DEF Next

\* EInv is an invariant.
LEMMA EvalHolds == Once => (Spec => []EInv)
  <1> SUFFICES ASSUME Once PROVE Spec => []EInv
    OBVIOUS
  <1>1. EInv /\ [Next]_vars => EInv'
    BY EvalNext
  <1> QED BY <1>1, EvalInit, PTL DEF Spec

\* With serial uploads, no crash and no lost reply, no Processing TEE takes a job
\* twice, also while the id of a dispatched job is still in the queue, and also
\* after a false probe completed it early.
THEOREM NoJobRunsTwice == Once => (Spec => []RunsAtMostOnce)
  <1> SUFFICES ASSUME Once PROVE Spec => []RunsAtMostOnce
    OBVIOUS
  <1>1. EInv => RunsAtMostOnce
    BY DEF EInv, AcceptedAt, RunsAtMostOnce
  <1>2. Spec => []EInv
    BY EvalHolds
  <1> QED BY <1>1, <1>2, PTL

\* While a job is evaluated its record says dispatched, or the scheduler is on
\* its way to write that, and AtMostOneDispatched holds.
LEMMA RunsAlone == MaxFalseProbes = 0 /\ EInv => OneEvaluationAtATime
  <1> SUFFICES ASSUME MaxFalseProbes = 0, EInv, NEW e \in Tees, NEW f \in Tees,
                      NEW i \in running[e], NEW j \in running[f]
               PROVE  e = f /\ i = j
    BY DEF OneEvaluationAtATime
  <1>1. RunsAt(e, i) /\ RunsAt(f, j) /\ i \in Jobs /\ j \in Jobs
    BY DEF EInv, RunningOK, FInv, TInv, StateOK
  <1>2. Marking => \A k \in Jobs : file[k].rec # "dispatched"
    BY Places
  <1> QED BY <1>1, <1>2 DEF RunsAt, EInv, SInv, AtMostOneDispatched

\* Short of faults, and with serial uploads, no two jobs are ever evaluated at
\* once, on one Processing TEE or on two, though the tick that sends a job only
\* looked for dispatched records minutes before.
THEOREM EvaluationIsExclusive == NoFaults => (Spec => []OneEvaluationAtATime)
  <1> SUFFICES ASSUME NoFaults PROVE Spec => []OneEvaluationAtATime
    OBVIOUS
  <1>1. Spec => []EInv
    BY EvalHolds DEF NoFaults
  <1>2. EInv => OneEvaluationAtATime
    BY RunsAlone DEF NoFaults
  <1> QED BY <1>1, <1>2, PTL

--------------------------------------------------------------------------------
(***************************************************************************)
(* The refinement of JobLifecycle.  A stage changes when a save begins,    *)
(* since Recorded takes it for done; at most one thread saves a record.    *)
(***************************************************************************)

\* The mapping.
Stages == [j \in Jobs |-> Status(Recorded(j))]
Taken == {j \in Jobs : accepted[j] > 0}
Evaluating == UNION {running[e] : e \in Tees}

\* The actions of JobLifecycle under it.
LEMMA Mapped ==
    ASSUME NEW j \in Jobs
    PROVE  /\ /\ Stages[j] = "none" /\ Stages' = [Stages EXCEPT ![j] = "pending_upload"]
              /\ UNCHANGED <<Taken, Evaluating>>
              => Lifecycle!Create(j)
           /\ /\ Stages[j] = "pending_upload" /\ Stages' = [Stages EXCEPT ![j] = "queued"]
              /\ UNCHANGED <<Taken, Evaluating>>
              => Lifecycle!Queue(j)
           /\ /\ Stages[j] = "queued" /\ Evaluating = {}
              /\ \A i \in Taken : Stages[i] \in {"complete", "deleted"}
              /\ Taken' = Taken \cup {j} /\ Evaluating' = {j} /\ UNCHANGED Stages
              => Lifecycle!Take(j)
           /\ /\ j \in Taken /\ Stages[j] = "queued"
              /\ Stages' = [Stages EXCEPT ![j] = "dispatched"]
              /\ UNCHANGED <<Taken, Evaluating>>
              => Lifecycle!Dispatch(j)
           /\ /\ j \in Evaluating /\ Evaluating' = Evaluating \ {j}
              /\ UNCHANGED <<Stages, Taken>>
              => Lifecycle!End(j)
           /\ /\ j \notin Evaluating /\ Stages[j] = "dispatched"
              /\ Stages' = [Stages EXCEPT ![j] = "complete"]
              /\ UNCHANGED <<Taken, Evaluating>>
              => Lifecycle!Complete(j)
  BY Zenon DEF Stages, Taken, Evaluating, Lifecycle!Create, Lifecycle!Queue, Lifecycle!Take,
     Lifecycle!Busy, Lifecycle!Dispatch, Lifecycle!End, Lifecycle!Complete, Lifecycle!Advance

\* The deletion of many jobs at once.
LEMMA MappedDelete ==
    ASSUME NEW old \in SUBSET Jobs, \A j \in old : Stages[j] = "complete",
           Stages' = [j \in Jobs |-> IF j \in old THEN "deleted" ELSE Stages[j]],
           UNCHANGED <<Taken, Evaluating>>
    PROVE  Lifecycle!Delete(old)
  BY Zenon DEF Stages, Taken, Evaluating, Lifecycle!Delete

\* A step that JobLifecycle does not see.
LEMMA MappedStutter ==
    ASSUME UNCHANGED <<Stages, Taken, Evaluating>>
    PROVE  UNCHANGED Lifecycle!vars
  BY Zenon DEF Stages, Taken, Evaluating, Lifecycle!vars

\* The record of job j, given the states T of the threads and the files f.
Saver(T, t, j) == T[t].pc = "save_flush" /\ T[t].job = j
Written(T, f, j) ==
    IF \E t \in Threads : Saver(T, t, j)
    THEN (CHOOSE r \in Saved : \E t \in Threads : Saver(T, t, j) /\ T[t].rec = r)
    ELSE f[j].rec

\* The one thread that saves the record decides what it says,
LEMMA WrittenBy ==
    ASSUME NEW T, NEW f, NEW j, NEW t \in Threads, Saver(T, t, j), T[t].rec \in Saved,
           \A u \in Threads : Saver(T, u, j) => T[u].rec = T[t].rec
    PROVE  Written(T, f, j) = T[t].rec
  <1> DEFINE P(r) == \E u \in Threads : Saver(T, u, j) /\ T[u].rec = r
             c == CHOOSE r \in Saved : P(r)
  <1>1. P(T[t].rec) /\ \A r : P(r) => r = T[t].rec
    OBVIOUS
  <1>2. Written(T, f, j) = c
    BY Zenon DEF Written
  <1> HIDE DEF P
  <1>3. c \in Saved /\ P(c)
    BY <1>1, Zenon
  <1> QED BY <1>1, <1>2, <1>3

\* and without one the file does.
LEMMA WrittenLast ==
    ASSUME NEW T, NEW f, NEW j, \A t \in Threads : ~Saver(T, t, j)
    PROVE  Written(T, f, j) = f[j].rec
  BY Zenon DEF Written

\* So does the mapping's Recorded, before and after a step.
LEMMA RecordedIs ==
    ASSUME NEW j
    PROVE  Recorded(j) = Written(th, file, j) /\ Recorded(j)' = Written(th', file', j)
  BY Zenon DEF Recorded, Written, Saver

\* At most one thread saves the record of a job, and finds it truncated.
LEMMA OneSaver ==
    ASSUME FInv, NEW t \in Threads, Saving(t), NEW j \in Jobs, th[t].job = j
    PROVE  /\ th[t].rec \in Saved
           /\ \A u \in Threads \ {t} : ~Saver(th, u, j)
           /\ th[t].pc = "save_flush" => file[j].rec = "empty"
  <1>1. th[t].rec \in Saved
    BY DEF FInv, TInv, LocalOK, SchedOK, HandlerOK, Threads, Saved
  <1>2. ASSUME NEW u \in Threads \ {t} PROVE ~Saver(th, u, j)
    <2>1. CASE t = Sched
      BY <2>1 DEF FInv, TInv, LocalOK, SchedOK, ApartFromSched, Early, Saver, Saving, Holding,
                  Dispatching, Completing, Threads
    <2>2. CASE u = Sched
      BY <2>2 DEF FInv, TInv, LocalOK, SchedOK, ApartFromSched, Early, Saver, Saving, Holding,
                  Dispatching, Completing, Threads
    <2>3. CASE t # Sched /\ u # Sched
      BY <2>3, NilAssumption DEF FInv, HandlersApart, Saver, Threads
    <2> QED BY <2>1, <2>2, <2>3
  <1>3. th[t].pc = "save_flush" => file[j].rec = "empty"
    BY DEF FInv, UploadsOK, UploadOK, DispatchOK, Threads
  <1> QED BY <1>1, <1>2, <1>3

\* A record that is not being saved.
LEMMA Settled ==
    ASSUME FInv, NEW j \in Jobs, file[j].rec # "empty"
    PROVE  Recorded(j) = file[j].rec /\ \A t \in Threads : ~Saver(th, t, j)
  <1>1. \A t \in Threads : ~Saver(th, t, j)
    BY OneSaver DEF Saver, Saving
  <1> QED BY <1>1, RecordedIs, WrittenLast

\* A step that begins or ends no save of job j and leaves its file alone.
LEMMA RecordKeeps ==
    ASSUME FInv, NEW j \in Jobs, file'[j].rec = file[j].rec,
           \A t \in Threads : Saver(th, t, j) \/ Saver(th', t, j) =>
              Saver(th, t, j) /\ Saver(th', t, j) /\ th'[t].rec = th[t].rec
    PROVE  Recorded(j)' = Recorded(j)
  <1>1. CASE \E t \in Threads : Saver(th, t, j)
    <2>1. PICK t \in Threads : Saver(th, t, j)
      BY <1>1
    <2>2. th[t].rec \in Saved /\ \A u \in Threads \ {t} : ~Saver(th, u, j)
      BY <2>1, OneSaver DEF Saver, Saving
    <2>3. Written(th, file, j) = th[t].rec
      BY <2>1, <2>2, WrittenBy
    <2>4. Saver(th', t, j) /\ th'[t].rec = th[t].rec
          /\ \A u \in Threads \ {t} : ~Saver(th', u, j)
      BY <2>1, <2>2
    <2>5. Written(th', file', j) = th'[t].rec
      BY <2>2, <2>4, WrittenBy
    <2> QED BY <2>3, <2>4, <2>5, RecordedIs
  <1>2. CASE \A t \in Threads : ~Saver(th, t, j)
    BY <1>2, WrittenLast, RecordedIs
  <1> QED BY <1>1, <1>2

\* A thread that neither begins nor ends a save, and touches no file.
LEMMA StagesKeep ==
    ASSUME FInv, file' = file, NEW t \in Threads, Moves(t),
           th[t].pc # "save_flush", th'[t].pc # "save_flush"
    PROVE  UNCHANGED Stages
  <1>1. ASSUME NEW j \in Jobs PROVE Recorded(j)' = Recorded(j)
    BY RecordKeeps DEF Moves, Saver
  <1> QED BY <1>1 DEF Stages, Status

\* The beginning of a save.
LEMMA StageAdvances ==
    ASSUME FInv, NEW t \in Threads, NEW j \in Jobs, th[t].job = j, SaveOpen(t)
    PROVE  /\ Stages[j] = Status(file[j].rec)
           /\ Stages' = [Stages EXCEPT ![j] = Status(th[t].rec)]
           /\ UNCHANGED <<Taken, Evaluating>>
  <1>1. /\ th[t].pc = "save_open" /\ Saving(t) /\ UNCHANGED <<accepted, running>>
        /\ \A i \in Jobs \ {j} : file'[i] = file[i]
    BY DEF SaveOpen, Saving, tees, history, FInv, TInv, StateOK
  <1>2. GoesTo(t, "save_flush")
    BY SharedTurns DEF FInv
  <1>3. /\ th'[t].pc = "save_flush" /\ th'[t].job = j /\ th'[t].rec = th[t].rec
        /\ \A u \in Threads \ {t} : th'[u] = th[u]
    BY <1>2 DEF GoesTo, Turns, Holds, Moves
  <1>4. th[t].rec \in Saved /\ \A u \in Threads \ {t} : ~Saver(th, u, j)
    BY <1>1, OneSaver
  <1>5. Recorded(j) = file[j].rec
    <2>1. \A u \in Threads : ~Saver(th, u, j)
      BY <1>1, <1>4 DEF Saver
    <2> QED BY <2>1, WrittenLast, RecordedIs
  <1>6. Recorded(j)' = th[t].rec
    <2>1. Saver(th', t, j) /\ \A u \in Threads \ {t} : ~Saver(th', u, j)
      BY <1>3, <1>4 DEF Saver
    <2>2. Written(th', file', j) = th'[t].rec
      BY <1>3, <1>4, <2>1, WrittenBy
    <2> QED BY <1>3, <2>2, RecordedIs
  <1>7. ASSUME NEW i \in Jobs \ {j} PROVE Recorded(i)' = Recorded(i)
    BY <1>1, <1>3, RecordKeeps DEF Saver
  <1>8. Stages' = [Stages EXCEPT ![j] = Status(th[t].rec)]
    BY <1>6, <1>7 DEF Stages, Status
  <1>9. Stages[j] = Status(file[j].rec)
    BY <1>5 DEF Stages
  <1> QED BY <1>1, <1>8, <1>9 DEF Taken, Evaluating

\* Its end is not seen.
LEMMA StageStays ==
    ASSUME FInv, NEW t \in Threads, NEW j \in Jobs, th[t].job = j, SaveFlush(t),
           Moves(t), th'[t].pc # "save_flush"
    PROVE  UNCHANGED <<Stages, Taken, Evaluating>>
  <1>1. /\ th[t].pc = "save_flush" /\ Saving(t) /\ UNCHANGED <<accepted, running>>
        /\ file' = [file EXCEPT ![j] = Overwrite(file[j], th[t].rec)]
    BY DEF SaveFlush, Saving, tees
  <1>2. /\ th[t].rec \in Saved /\ \A u \in Threads \ {t} : ~Saver(th, u, j)
        /\ file[j].rec = "empty"
    BY <1>1, OneSaver
  <1>3. /\ file'[j].rec = th[t].rec
        /\ \A i \in Jobs \ {j} : file'[i] = file[i]
    BY <1>1, <1>2 DEF Overwrite, Size, Saved, FInv, TInv, StateOK
  <1>4. Recorded(j) = th[t].rec
    <2>1. Saver(th, t, j)
      BY <1>1 DEF Saver
    <2>2. Written(th, file, j) = th[t].rec
      BY <1>2, <2>1, WrittenBy
    <2> QED BY <2>2, RecordedIs
  <1>5. Recorded(j)' = th[t].rec
    <2>1. \A u \in Threads : ~Saver(th', u, j)
      BY <1>2 DEF Saver, Moves
    <2> QED BY <1>3, <2>1, WrittenLast, RecordedIs
  <1>6. ASSUME NEW i \in Jobs \ {j} PROVE Recorded(i)' = Recorded(i)
    BY <1>1, <1>3, RecordKeeps DEF Saver, Moves
  <1>7. UNCHANGED Stages
    BY <1>4, <1>5, <1>6 DEF Stages, Status
  <1> QED BY <1>1, <1>7 DEF Taken, Evaluating

\* A handler creates a job, queues it, or is not seen.
LEMMA HandlerRefines ==
    ASSUME EInv, NEW h \in Handlers, Handler(h)
    PROVE  Lifecycle!Next \/ UNCHANGED Lifecycle!vars
  <1> h \in Threads /\ h # Sched
    BY DEF Threads
  <1>0. /\ FInv /\ TInv /\ UploadOK(h) /\ HandlerOK(h) /\ Nil \notin Jobs
        /\ th[h].job \in Jobs \cup {Nil}
    <2>1. th[h] \in ThreadStates
      BY DEF EInv, FInv, TInv, StateOK
    <2> QED BY <2>1, Fields, NilAssumption DEF EInv, FInv, UploadsOK, TInv, LocalOK
  <1>1. ASSUME NEW j \in Jobs, th[h].job = j, SaveOpen(h)
        PROVE  Lifecycle!Next \/ UNCHANGED Lifecycle!vars
    <2>1. /\ th[h].rec \in {"pending_upload", "queued"}
          /\ \/ file[j].rec = "pending_upload"
             \/ file[j].rec = "none" /\ th[h].rec = "pending_upload"
      BY <1>0, <1>1 DEF SaveOpen, HandlerOK, UploadOK, Saving
    <2>2. /\ Stages[j] = file[j].rec
          /\ Stages' = [Stages EXCEPT ![j] = th[h].rec]
          /\ UNCHANGED <<Taken, Evaluating>>
      <3>1. Status(th[h].rec) = th[h].rec /\ Status(file[j].rec) = file[j].rec
        BY <2>1 DEF Status
      <3> QED BY <1>0, <1>1, <3>1, StageAdvances
    <2>3. CASE file[j].rec = "none"
      <3>1. Lifecycle!Create(j)
        BY <2>1, <2>2, <2>3, Mapped
      <3> QED BY <3>1 DEF Lifecycle!Next
    <2>4. CASE file[j].rec = "pending_upload" /\ th[h].rec = "queued"
      <3>1. Lifecycle!Queue(j)
        BY <2>2, <2>4, Mapped
      <3> QED BY <3>1 DEF Lifecycle!Next
    <2>5. CASE file[j].rec = "pending_upload" /\ th[h].rec = "pending_upload"
      <3>1. UNCHANGED Stages
        BY <2>2, <2>5 DEF Stages
      <3> QED BY <2>2, <3>1, MappedStutter
    <2> QED BY <2>1, <2>3, <2>4, <2>5
  <1>2. ASSUME NEW j \in Jobs, th[h].job = j, SaveFlush(h)
        PROVE  UNCHANGED Lifecycle!vars
    <2>1. Ends(h) \/ GoesTo(h, "queue_read")
      BY <1>0, <1>2, HandlerTurns
    <2>2. Moves(h) /\ th'[h].pc # "save_flush"
      BY <2>1 DEF Ends, GoesTo, Turns, Holds
    <2> QED BY <1>0, <1>2, <2>2, StageStays, MappedStutter
  <1>3. ASSUME ~SaveOpen(h), ~SaveFlush(h)
        PROVE  UNCHANGED Lifecycle!vars
    <2>1. /\ UNCHANGED <<file, accepted, running>> /\ th[h].pc # "save_flush"
      BY <1>3 DEF Handler, HandlerSteps, SaveAndQueue, Create, StartUpload, ArtifactOpen,
            ArtifactWrite, CheckComplete, QueueRead, QueueReadRaises, QueueOpen,
            QueueFlush, disk, tees, history
    <2>2. Moves(h) /\ th'[h].pc # "save_flush"
      <3>1. ASSUME NEW j \in Jobs, NEW c \in Commitments, Create(h, j, c)
            PROVE  Moves(h) /\ th'[h].pc = "save_open"
        BY <1>0, <3>1, HandlerTurns DEF Turns, Holds
      <3>2. ASSUME NEW j \in Jobs, NEW a \in Artifacts, StartUpload(h, j, a)
            PROVE  Moves(h) /\ th'[h].pc = "art_open"
        <4>1. PICK d \in {"good", "bad"} :
                  Turns(h, "art_open", j, a, d, th[h].rec, th[h].tee, th[h].todo)
          BY <1>0, <3>2, HandlerTurns
        <4> QED BY <4>1 DEF Turns, Holds
      <3>3. CASE ArtifactOpen(h) \/ ArtifactWrite(h) \/ CheckComplete(h)
        BY <1>0, <3>3, HandlerTurns DEF GoesTo, Saves, Ends, Turns, Holds
      <3>4. CASE QueueRead(h) \/ QueueReadRaises(h) \/ QueueOpen(h) \/ QueueFlush(h)
        BY <1>0, <3>4, SharedTurns DEF GoesTo, Ends, Turns, Holds
      <3> QED BY <1>3, <3>1, <3>2, <3>3, <3>4 DEF Handler, HandlerSteps, SaveAndQueue
    <2>3. UNCHANGED <<Stages, Taken, Evaluating>>
      BY <1>0, <2>1, <2>2, StagesKeep DEF Taken, Evaluating
    <2> QED BY <2>3, MappedStutter
  <1>4. SaveOpen(h) \/ SaveFlush(h) => th[h].job \in Jobs
    BY <1>0 DEF SaveOpen, SaveFlush, UploadOK
  <1> QED BY <1>1, <1>2, <1>3, <1>4

\* A Processing TEE that ends or dies ends the evaluation, if there is one.
LEMMA TeeRefines ==
    ASSUME NoFaults, EInv, NEW e \in Tees, TeeFinish(e) \/ TeeCrash(e)
    PROVE  Lifecycle!Next \/ UNCHANGED Lifecycle!vars
  <1>1. /\ UNCHANGED <<file, th, accepted>>
        /\ \A f \in Tees : running'[f] = IF f = e THEN {} ELSE running[f]
        /\ running[e] \subseteq Jobs
    BY DEF TeeFinish, TeeCrash, disk, history, EInv, FInv, TInv, StateOK
  <1>2. UNCHANGED <<Stages, Taken>>
    <2>1. \A j : Recorded(j)' = Recorded(j)
      BY <1>1, RecordedIs
    <2> QED BY <1>1, <2>1 DEF Stages, Taken, Status
  <1>3. CASE running[e] = {}
    <2>1. UNCHANGED Evaluating
      BY <1>1, <1>3 DEF Evaluating
    <2> QED BY <1>2, <2>1, MappedStutter
  <1>4. ASSUME NEW j \in running[e]
        PROVE  Lifecycle!Next
    <2>1. \A f \in Tees : \A i \in running[f] : f = e /\ i = j
      BY RunsAlone DEF NoFaults, OneEvaluationAtATime
    <2>2. j \in Evaluating /\ Evaluating' = Evaluating \ {j}
      BY <1>1, <2>1 DEF Evaluating
    <2>3. Lifecycle!End(j)
      BY <1>1, <1>2, <2>2, Mapped
    <2> QED BY <1>1, <2>3 DEF Lifecycle!Next
  <1> QED BY <1>3, <1>4

(***************************************************************************)
(* The scheduler takes, dispatches, completes and deletes.                 *)
(***************************************************************************)
LEMMA SchedulerRefines ==
    ASSUME NoFaults, EInv, Scheduler
    PROVE  Lifecycle!Next \/ UNCHANGED Lifecycle!vars
  <1> Sched \in Threads
    BY DEF Threads
  <1>0. /\ FInv /\ TInv /\ SchedOK /\ running \in [Tees -> SUBSET Jobs]
        /\ accepted \in [Jobs -> 0..2] /\ th[Sched].tee \in Tees \cup {Nil}
    BY Fields DEF EInv, FInv, TInv, LocalOK, StateOK
  <1>1. ASSUME NEW j \in Jobs, th[Sched].job = j, SaveOpen(Sched)
        PROVE  Lifecycle!Next \/ UNCHANGED Lifecycle!vars
    <2>1. /\ th[Sched].rec \in {"provisioned", "dispatched", "complete"}
          /\ th[Sched].pc = "save_open" /\ Saving(Sched)
      BY <1>0, <1>1 DEF SaveOpen, SchedOK, Saving
    <2>2. /\ Stages[j] = Status(file[j].rec)
          /\ Stages' = [Stages EXCEPT ![j] = Status(th[Sched].rec)]
          /\ UNCHANGED <<Taken, Evaluating>>
      BY <1>0, <1>1, StageAdvances
    <2>3. CASE th[Sched].rec = "provisioned"
      <3>1. file[j].rec \in {"queued", "provisioned"}
        BY <1>0, <1>1, <2>1, <2>3 DEF FInv, DispatchOK, Dispatching
      <3>2. UNCHANGED Stages
        BY <2>2, <2>3, <3>1 DEF Status, Stages
      <3> QED BY <2>2, <3>2, MappedStutter
    <2>4. CASE th[Sched].rec = "dispatched"
      <3>1. file[j].rec \in {"queued", "provisioned"}
        BY <1>0, <1>1, <2>1, <2>4 DEF FInv, DispatchOK, Dispatching
      <3>2. j \in Taken
        BY <1>1, <2>1, <2>4 DEF EInv, SInv, ClaimAccepted, Claiming, Taken
      <3>3. Stages[j] = "queued" /\ Stages' = [Stages EXCEPT ![j] = "dispatched"]
        BY <2>2, <2>4, <3>1 DEF Status
      <3>4. Lifecycle!Dispatch(j)
        BY <2>2, <3>2, <3>3, Mapped
      <3> QED BY <3>4 DEF Lifecycle!Next
    <2>5. CASE th[Sched].rec = "complete"
      <3>1. Completing /\ ~Marking
        BY <2>1, <2>5 DEF Completing, Marking
      <3>2. file[j].rec = "dispatched"
        BY <1>0, <1>1, <2>1, <3>1 DEF FInv, DispatchOK
      <3>3. j \notin Evaluating
        BY <1>1, <3>1 DEF NoFaults, EInv, RunningOK, RunsAt, Evaluating
      <3>4. Stages[j] = "dispatched" /\ Stages' = [Stages EXCEPT ![j] = "complete"]
        BY <2>2, <2>5, <3>2 DEF Status
      <3>5. Lifecycle!Complete(j)
        BY <2>2, <3>3, <3>4, Mapped
      <3> QED BY <3>5 DEF Lifecycle!Next
    <2> QED BY <2>1, <2>3, <2>4, <2>5
  <1>2. ASSUME NEW j \in Jobs, th[Sched].job = j, SaveFlush(Sched)
        PROVE  UNCHANGED Lifecycle!vars
    <2>1. Moves(Sched) /\ th'[Sched].pc # "save_flush"
      BY <1>0, <1>2, SchedTurns DEF GoesTo, Turns, Holds
    <2> QED BY <1>0, <1>2, <2>1, StageStays, MappedStutter
  <1>3. ASSUME NEW old \in SUBSET Jobs, Cleanup(old)
        PROVE  Lifecycle!Next
    <2>1. /\ \A i \in old : file[i].rec = "complete" /\ file'[i].rec = "deleted"
          /\ \A i \in Jobs \ old : file'[i] = file[i]
          /\ UNCHANGED <<accepted, running>> /\ th[Sched].pc = "sleep"
      BY <1>3, Statuses DEF Cleanup, tees, history
    <2>2. GoesTo(Sched, "finalize_scan")
      BY <1>0, <1>3, SchedTurns
    <2>3. /\ th'[Sched].pc = "finalize_scan" /\ \A t \in Threads \ {Sched} : th'[t] = th[t]
      BY <2>2 DEF GoesTo, Turns, Holds, Moves
    <2>4. ASSUME NEW i \in old
          PROVE  Recorded(i) = "complete" /\ Recorded(i)' = "deleted"
      <3>1. Recorded(i) = "complete" /\ \A t \in Threads : ~Saver(th, t, i)
        BY <1>0, <2>1, Settled
      <3>2. \A t \in Threads : ~Saver(th', t, i)
        BY <2>3, <3>1 DEF Saver
      <3> QED BY <2>1, <3>1, <3>2, WrittenLast, RecordedIs
    <2>5. ASSUME NEW i \in Jobs \ old PROVE Recorded(i)' = Recorded(i)
      BY <1>0, <2>1, <2>3, RecordKeeps DEF Saver
    <2>6. /\ \A i \in old : Stages[i] = "complete"
          /\ Stages' = [i \in Jobs |-> IF i \in old THEN "deleted" ELSE Stages[i]]
      BY <2>4, <2>5 DEF Stages, Status
    <2>7. UNCHANGED <<Taken, Evaluating>>
      BY <2>1 DEF Taken, Evaluating
    <2>8. Lifecycle!Delete(old)
      BY <2>6, <2>7, MappedDelete
    <2> QED BY <2>8 DEF Lifecycle!Next
  <1>4. ASSUME NEW ok \in BOOLEAN, NEW j \in Jobs, th[Sched].job = j, Send(ok)
        PROVE  Lifecycle!Next
    <2> DEFINE e == th[Sched].tee
    <2>1. /\ th[Sched].pc = "send" /\ e \in up /\ UNCHANGED file
          /\ running' = [running EXCEPT ![e] = @ \cup {j}]
          /\ accepted' = [accepted EXCEPT ![j] = IF @ < 2 THEN @ + 1 ELSE 2]
      BY <1>4 DEF Send, disk
    <2>2. IF ok THEN GoesTo(Sched, "mark") ELSE Ends(Sched)
      BY <1>0, <1>4, SchedTurns
    <2>3. Moves(Sched) /\ th'[Sched].pc # "save_flush"
      BY <2>2 DEF GoesTo, Ends, Turns, Holds
    <2>4. UNCHANGED Stages
      BY <1>0, <2>1, <2>3, StagesKeep
    <2>5. ~Claiming /\ ~Marking /\ PastScan /\ Dispatching
      BY <2>1, Places DEF PastScan, Dispatching
    <2>6. \A f \in Tees : running[f] = {}
      BY <1>0, <2>5, Places DEF NoFaults, EInv, RunningOK, RunsAt
    <2>7. Evaluating = {} /\ Evaluating' = {j}
      <3>1. e \in Tees
        BY <1>0, <2>1 DEF TInv, StateOK
      <3>2. \A f \in Tees : running'[f] = IF f = e THEN {j} ELSE {}
        BY <1>0, <2>1, <2>6
      <3> QED BY <2>6, <3>1, <3>2 DEF Evaluating
    <2>8. Taken' = Taken \cup {j}
      <3>1. accepted'[j] > 0 /\ \A i \in Jobs \ {j} : accepted'[i] = accepted[i]
        BY <1>0, <2>1
      <3> QED BY <3>1 DEF Taken
    <2>9. Stages[j] = "queued"
      <3>1. file[j].rec \in {"queued", "provisioned"}
        BY <1>0, <1>4, <2>1, <2>5 DEF FInv, DispatchOK
      <3>2. Recorded(j) = file[j].rec
        BY <1>0, <3>1, Settled
      <3> QED BY <3>1, <3>2 DEF Stages, Status
    <2>10. ASSUME NEW i \in Taken PROVE Stages[i] \in {"complete", "deleted"}
      <3>1. i \in Jobs /\ file[i].rec \in {"complete", "deleted"}
        BY <2>5, Places DEF EInv, AcceptedAt, Past, Taken
      <3>2. Recorded(i) = file[i].rec
        BY <1>0, <3>1, Settled
      <3> QED BY <3>1, <3>2 DEF Stages, Status
    <2>11. Lifecycle!Take(j)
      BY <2>4, <2>7, <2>8, <2>9, <2>10, Mapped
    <2> QED BY <2>11 DEF Lifecycle!Next
  \* The rest is not seen.
  <1>5. ASSUME \/ FinalizeScan \/ FinalizeDone \/ Reload
               \/ \E j \in Jobs : ProbeAlive(j) \/ ProbeDead(j) \/ Pick(j)
               \/ BusyScan \/ ProvisionSave \/ NotBooted \/ Recheck
               \/ \E e \in Tees : Booted(e)
               \/ MarkLoad \/ GiveUp
               \/ QueueRead(Sched) \/ QueueReadRaises(Sched)
               \/ QueueOpen(Sched) \/ QueueFlush(Sched)
        PROVE  UNCHANGED Lifecycle!vars
    <2>1. UNCHANGED <<file, accepted, running>> /\ th[Sched].pc # "save_flush"
      BY <1>5 DEF FinalizeScan, FinalizeDone, Reload, ProbeAlive, ProbeDead, Pick, BusyScan,
                  ProvisionSave, NotBooted, Recheck, Booted, MarkLoad, GiveUp, QueueRead,
                  QueueReadRaises, QueueOpen, QueueFlush, disk, tees, history
    <2>2. Moves(Sched) /\ th'[Sched].pc # "save_flush"
      <3>1. ASSUME NEW j \in Jobs, ProbeAlive(j) \/ ProbeDead(j) \/ Pick(j)
            PROVE  Moves(Sched) /\ th'[Sched].pc # "save_flush"
        BY <1>0, <2>1, <3>1, SchedTurns DEF Turns, Holds
      <3>2. ASSUME NEW e \in Tees, Booted(e)
            PROVE  Moves(Sched) /\ th'[Sched].pc # "save_flush"
        BY <1>0, <3>2, SchedTurns DEF Turns, Holds
      <3>3. CASE Reload \/ ProvisionSave \/ MarkLoad \/ FinalizeScan
        BY <1>0, <3>3, SchedTurns DEF Saves, Turns, Holds
      <3>4. CASE FinalizeDone \/ BusyScan \/ NotBooted \/ Recheck \/ GiveUp
        BY <1>0, <3>4, SchedTurns DEF GoesTo, Ends, Turns, Holds
      <3>5. CASE QueueRead(Sched) \/ QueueReadRaises(Sched) \/ QueueOpen(Sched)
                 \/ QueueFlush(Sched)
        BY <1>0, <3>5, SharedTurns DEF GoesTo, Ends, Turns, Holds
      <3> QED BY <1>5, <3>1, <3>2, <3>3, <3>4, <3>5
    <2>3. UNCHANGED <<Stages, Taken, Evaluating>>
      BY <1>0, <2>1, <2>2, StagesKeep DEF Taken, Evaluating
    <2> QED BY <2>3, MappedStutter
  <1>6. SaveOpen(Sched) \/ SaveFlush(Sched) \/ (\E ok \in BOOLEAN : Send(ok))
          => th[Sched].job \in Jobs
    BY <1>0 DEF SaveOpen, SaveFlush, Send, SchedOK, Saving
  <1> QED BY <1>1, <1>2, <1>3, <1>4, <1>5, <1>6 DEF Scheduler, SaveAndQueue

\* With clients that upload one artifact at a time, and short of faults, the files
\* and threads of the service implement JobLifecycle: every record goes through
\* its stages in order, no job is taken twice or out of turn, and none is complete
\* while it is evaluated.
THEOREM ImplementsLifecycle == NoFaults => (Spec => KeepsLifecycle)
  <1> SUFFICES ASSUME NoFaults PROVE Spec => KeepsLifecycle
    OBVIOUS
  <1>1. Init => Lifecycle!Init
    <2> SUFFICES ASSUME Init PROVE Lifecycle!Init
      OBVIOUS
    <2>1. \A j \in Jobs : Recorded(j) = "none"
      <3>1. FInv /\ \A j \in Jobs : file[j].rec = "none"
        BY FilesInit DEF Init
      <3> QED BY <3>1, Settled
    <2>2. Stages = [j \in Jobs |-> "none"] /\ Taken = {} /\ Evaluating = {}
      BY <2>1 DEF Init, Stages, Status, Taken, Evaluating
    <2> QED BY <2>2, Zenon DEF Lifecycle!Init, Stages, Taken, Evaluating
  <1>2. EInv /\ [Next]_vars => [Lifecycle!Next]_Lifecycle!vars
    <2> SUFFICES ASSUME EInv, [Next]_vars
                 PROVE  Lifecycle!Next \/ UNCHANGED Lifecycle!vars
      OBVIOUS
    <2>1. CASE UNCHANGED vars
      <3>1. UNCHANGED <<file, th, accepted, running>>
        BY <2>1 DEF vars, disk, tees, history
      <3>2. \A j : Recorded(j)' = Recorded(j)
        BY <3>1, RecordedIs
      <3>3. UNCHANGED <<Stages, Taken, Evaluating>>
        BY <3>1, <3>2 DEF Stages, Taken, Evaluating, Status
      <3> QED BY <3>3, MappedStutter
    <2>2. CASE Environment
      <3>1. ~Crash
        <4>1. faults \in [crash : 0..MaxCrashes, lost : 0..MaxLostReplies,
                          tee : 0..MaxTeeCrashes, probe : 0..MaxFalseProbes]
          BY DEF EInv, FInv, TInv, StateOK
        <4>2. faults.crash \in 0..MaxCrashes
          BY <4>1
        <4> QED BY <4>2 DEF NoFaults, Once, Undisturbed, Crash
      <3> QED BY <2>2, <3>1, TeeRefines DEF Environment
    <2> QED BY <2>1, <2>2, HandlerRefines, SchedulerRefines DEF Next
  <1>3. Spec => []EInv
    BY EvalHolds DEF NoFaults
  <1> QED BY <1>1, <1>2, <1>3, PTL DEF Spec, KeepsLifecycle, Lifecycle!Spec

================================================================================
