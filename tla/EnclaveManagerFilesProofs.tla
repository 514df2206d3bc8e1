---------------------- MODULE EnclaveManagerFilesProofs ----------------------
(***************************************************************************)
(* What holds of the files of EnclaveManager, for every set of jobs,       *)
(* threads and targets, when clients upload one artifact at a time; the    *)
(* service may be killed, dispatches lost, probes false, Processing TEEs   *)
(* may die.  NoStaleSave follows and, where the service is not killed,     *)
(* TornIsTransient and NoPartialPayload.                                   *)
(***************************************************************************)
EXTENDS EnclaveManagerProofs

\* What torn records and half artifacts need besides: a kill leaves them behind.
Undisturbed == SerialUploads /\ MaxCrashes = 0

\* A handler that may still write its job's record or artifacts.
Early(h) == th[h].pc \in {"art_open", "art_write", "check"} \/ Saving(h)

\* No two requests are about one job.
HandlersApart ==
    \A g, h \in Handlers : g # h => th[g].job = Nil \/ th[g].job # th[h].job

\* The record a handler finds while it has not queued its job.
UploadOK(h) ==
    /\ th[h].pc = "idle" <=> th[h].job = Nil
    /\ th[h].pc \in {"art_open", "art_write", "check"} =>
         file[th[h].job].ok /\ file[th[h].job].rec = "pending_upload"
    /\ th[h].pc = "save_open" =>
         /\ file[th[h].job].ok
         /\ \/ file[th[h].job].rec = "pending_upload"
            \/ file[th[h].job].rec = "none" /\ th[h].rec = "pending_upload"
    /\ th[h].pc = "save_flush" =>
         ~file[th[h].job].ok /\ file[th[h].job].rec = "empty"

UploadsOK == \A h \in Handlers : UploadOK(h)

\* The scheduler is dispatching its job, or completing it.
Dispatching ==
    \/ th[Sched].pc \in {"provision", "boot", "recheck", "send", "mark"}
    \/ Saving(Sched) /\ th[Sched].rec \in {"provisioned", "dispatched"}
Completing == th[Sched].pc = "reload" \/ (Saving(Sched) /\ th[Sched].rec = "complete")
Holding == Dispatching \/ Completing

\* The record of that job.
DispatchOK ==
    /\ Dispatching /\ th[Sched].pc # "save_flush" =>
         /\ file[th[Sched].job].ok
         /\ file[th[Sched].job].rec \in {"queued", "provisioned"}
    /\ Completing /\ th[Sched].pc # "save_flush" =>
         file[th[Sched].job].ok /\ file[th[Sched].job].rec = "dispatched"
    /\ th[Sched].pc = "save_flush" =>
         ~file[th[Sched].job].ok /\ file[th[Sched].job].rec = "empty"

\* The jobs a tick has still to probe.
TodoOK ==
    th[Sched].pc = "finalize" \/ Completing =>
        \A i \in th[Sched].todo :
            /\ file[i].ok /\ file[i].rec = "dispatched"
            /\ Completing => i # th[Sched].job

\* No handler writes the record that the scheduler holds.
ApartFromSched ==
    \A h \in Handlers : Early(h) /\ Holding => th[h].job # th[Sched].job

\* A record that cannot be read is empty: without crashes, somebody has just
\* truncated it.
TornAt(j) == ~file[j].ok =>
    /\ file[j].rec = "empty"
    /\ MaxCrashes = 0 => \E t \in Threads : th[t].pc = "save_flush" /\ th[t].job = j

\* Without crashes, half an artifact is one that somebody is writing ...
PartialAt(j) == MaxCrashes = 0 =>
    \A a \in Artifacts : art[j][a] = "partial" =>
        \E h \in Handlers : th[h].pc = "art_write" /\ th[h].job = j /\ th[h].art = a

\* ... and no payload holds one.
PayloadAt(j) == MaxCrashes = 0 /\ outgoing[j] # Nil =>
    \A a \in Artifacts : outgoing[j][a] # "partial"

JobOK(j) == TornAt(j) /\ PartialAt(j) /\ PayloadAt(j)

FInv ==
    /\ TInv
    /\ HandlersApart /\ UploadsOK
    /\ DispatchOK /\ TodoOK /\ ApartFromSched
    /\ \A j \in Jobs : JobOK(j)

USE SchedAssumption

\* The first start: no job has a record.
LEMMA FilesInit == Init => FInv
  <1> SUFFICES ASSUME Init PROVE FInv
    OBVIOUS
  <1>1. \A t \in Threads : /\ th[t].pc = (IF t = Sched THEN "sleep" ELSE "idle")
                           /\ th[t].job = Nil /\ th[t].rec = Nil
    BY DEF Init, Resting
  <1>2. \A j \in Jobs : /\ file[j].ok /\ file[j].rec = "none" /\ outgoing[j] = Nil
                        /\ \A a \in Artifacts : art[j][a] = "absent"
    BY DEF Init
  <1>3. HandlersApart /\ UploadsOK
    BY <1>1 DEF HandlersApart, UploadsOK, UploadOK, Saving, Threads
  <1>4. DispatchOK /\ TodoOK /\ ApartFromSched
    <2>1. th[Sched].pc = "sleep"
      BY <1>1 DEF Threads
    <2> QED BY <2>1 DEF DispatchOK, TodoOK, ApartFromSched, Dispatching, Completing,
                        Holding, Saving
  <1>5. ASSUME NEW j \in Jobs PROVE JobOK(j)
    BY <1>1, <1>2 DEF JobOK, TornAt, PartialAt, PayloadAt, Saving, Threads
  <1> QED BY <1>3, <1>4, <1>5, TInit DEF FInv

\* The records, artifacts and commitments of every job but j are left alone.
Only(j) == \A i \in Jobs \ {j} :
    file'[i] = file[i] /\ art'[i] = art[i] /\ commit'[i] = commit[i]

(***************************************************************************)
(* A step of handler h about job j, which is its own and which the         *)
(* scheduler does not hold, leaves the rest as it should be.               *)
(***************************************************************************)
LEMMA HandlerKeeps ==
    ASSUME FInv, TInv', NEW h \in Handlers, NEW j \in Jobs,
           Moves(h), Only(j), outgoing' = outgoing,
           th[h].job \in {j, Nil}, th'[h].job \in {j, Nil},
           \A g \in Handlers \ {h} : th[g].job # j,
           Holding => th[Sched].job # j, file[j].rec # "dispatched",
           UploadOK(h)', JobOK(j)'
    PROVE  FInv'
  <1>0. /\ \A t \in Threads \ {h} : th'[t] = th[t]
        /\ th'[Sched] = th[Sched] /\ j # Nil
        /\ \A g \in Handlers \ {h} : th'[g] = th[g]
    BY NilAssumption DEF Moves, Threads
  <1>1. HandlersApart'
    <2>1. ASSUME NEW f \in Handlers, NEW g \in Handlers, f # g
          PROVE  th'[f].job = Nil \/ th'[f].job # th'[g].job
      <3>1. CASE f = h
        BY <1>0, <2>1, <3>1
      <3>2. CASE g = h
        BY <1>0, <2>1, <3>2
      <3>3. CASE f # h /\ g # h
        BY <1>0, <2>1, <3>3 DEF FInv, HandlersApart
      <3> QED BY <3>1, <3>2, <3>3
    <2> QED BY <2>1 DEF HandlersApart
  <1>2. ASSUME NEW g \in Handlers \ {h} PROVE UploadOK(g)'
    <2>1. UploadOK(g) /\ th'[g] = th[g] /\ th[g].job # j /\ th[g].job \in Jobs \cup {Nil}
      BY <1>0, Fields DEF FInv, UploadsOK, TInv, StateOK, Threads
    <2>2. CASE th[g].job = Nil
      BY <2>1, <2>2 DEF UploadOK, Saving
    <2>3. CASE th[g].job # Nil
      <3>1. /\ file'[th[g].job] = file[th[g].job] /\ art'[th[g].job] = art[th[g].job]
            /\ commit'[th[g].job] = commit[th[g].job]
        BY <2>1, <2>3 DEF Only
      <3> QED BY <2>1, <3>1 DEF UploadOK, Saving
    <2> QED BY <2>2, <2>3
  <1>3. DispatchOK' /\ TodoOK'
    <2>1. Holding => file'[th[Sched].job] = file[th[Sched].job]
      BY DEF Only, FInv, TInv, LocalOK, SchedOK, Holding, Dispatching, Completing
    <2>2. \A i \in th[Sched].todo : i \in Jobs
      BY Fields DEF FInv, TInv, StateOK, Threads
    <2>3. th[Sched].pc = "save_flush" => Holding
      BY DEF FInv, TInv, LocalOK, SchedOK, Saving, Holding, Dispatching, Completing
    <2>4. DispatchOK'
      BY <1>0, <2>1, <2>3 DEF FInv, DispatchOK, Holding, Dispatching, Completing, Saving
    <2>5. \A i \in th[Sched].todo : file[i].rec = "dispatched" => file'[i] = file[i]
      BY <2>2 DEF Only
    <2>6. TodoOK'
      BY <1>0, <2>5 DEF FInv, TodoOK, Completing, Saving
    <2> QED BY <2>4, <2>6
  <1>4. ApartFromSched'
    <2>1. ASSUME NEW g \in Handlers, Early(g)', Holding' PROVE th'[g].job # th'[Sched].job
      <3>1. Holding
        BY <1>0, <2>1 DEF Holding, Dispatching, Completing, Saving
      <3>2. CASE g = h
        BY <1>0, <2>1, <3>1, <3>2 DEF UploadOK, Early, Saving
      <3>3. CASE g # h
        BY <1>0, <2>1, <3>1, <3>3 DEF FInv, ApartFromSched, Early, Saving
      <3> QED BY <3>2, <3>3
    <2> QED BY <2>1 DEF ApartFromSched
  <1>5. ASSUME NEW i \in Jobs \ {j} PROVE JobOK(i)'
    <2>1. JobOK(i) /\ file'[i] = file[i] /\ art'[i] = art[i] /\ commit'[i] = commit[i]
          /\ th[h].job # i
      BY NilAssumption DEF FInv, Only
    <2>2. TornAt(i)'
      BY <1>0, <2>1 DEF JobOK, TornAt
    <2>3. PartialAt(i)'
      BY <1>0, <2>1 DEF JobOK, PartialAt
    <2>4. PayloadAt(i)'
      BY <2>1 DEF JobOK, PayloadAt
    <2> QED BY <2>2, <2>3, <2>4 DEF JobOK
  <1> QED BY <1>1, <1>2, <1>3, <1>4, <1>5 DEF FInv, UploadsOK

\* A handler that is done with its job's files leaves them all alone.
LEMMA QueueKeeps ==
    ASSUME FInv, TInv', NEW h \in Handlers, Moves(h), Queueing(h),
           UNCHANGED <<file, art, commit, outgoing>>,
           \/ th'[h].pc \in {"queue_open", "queue_flush"} /\ th'[h].job = th[h].job
           \/ th'[h].pc = "idle" /\ th'[h].job = Nil
    PROVE  FInv'
  <1>0. /\ \A t \in Threads \ {h} : th'[t] = th[t]
        /\ th'[Sched] = th[Sched]
        /\ \A g \in Handlers \ {h} : th'[g] = th[g]
        /\ th[h].pc \in {"queue_read", "queue_open", "queue_flush"}
    BY DEF Moves, Threads, Queueing
  <1>1. HandlersApart'
    <2>1. ASSUME NEW f \in Handlers, NEW g \in Handlers, f # g
          PROVE  th'[f].job = Nil \/ th'[f].job # th'[g].job
      <3>1. th[f].job = Nil \/ th[f].job # th[g].job
        BY <2>1 DEF FInv, HandlersApart
      <3> QED BY <1>0, <2>1, <3>1
    <2> QED BY <2>1 DEF HandlersApart
  <1>2. ASSUME NEW g \in Handlers PROVE UploadOK(g)'
    <2>1. UploadOK(g)
      BY DEF FInv, UploadsOK
    <2>2. CASE g = h
      BY <1>0, <2>1, <2>2 DEF UploadOK, Saving
    <2>3. CASE g # h
      BY <1>0, <2>1, <2>3 DEF UploadOK, Saving
    <2> QED BY <2>2, <2>3
  <1>3. DispatchOK' /\ TodoOK'
    BY <1>0 DEF FInv, DispatchOK, TodoOK, Dispatching, Completing, Saving
  <1>4. ApartFromSched'
    BY <1>0 DEF FInv, ApartFromSched, Early, Holding, Dispatching, Completing, Saving
  <1>5. ASSUME NEW j \in Jobs PROVE JobOK(j)'
    <2>1. JobOK(j)
      BY DEF FInv
    <2>2. TornAt(j)'
      BY <1>0, <2>1 DEF JobOK, TornAt
    <2>3. PartialAt(j)'
      BY <1>0, <2>1 DEF JobOK, PartialAt
    <2>4. PayloadAt(j)'
      BY <1>0, <2>1 DEF JobOK, PayloadAt, Saving
    <2> QED BY <2>2, <2>3, <2>4 DEF JobOK
  <1> QED BY <1>1, <1>2, <1>3, <1>4, <1>5 DEF FInv, UploadsOK

\* The record of the job a handler is about, and the scheduler's, are others.
LEMMA JobIsFree ==
    ASSUME FInv, NEW j \in Jobs, file[j].rec \in {"none", "pending_upload"}
    PROVE  Holding => th[Sched].job # j
  <1>1. Holding => file[th[Sched].job].rec \in {"queued", "provisioned", "dispatched", "empty"}
    BY DEF FInv, DispatchOK, Holding
  <1> QED BY <1>1

(***************************************************************************)
(* The handlers: each of their steps keeps the files as they should be.    *)
(***************************************************************************)
LEMMA HandlerFiles ==
    ASSUME SerialUploads, FInv, NEW h \in Handlers, Handler(h)
    PROVE  FInv'
  <1> h \in Threads /\ h # Sched
    BY DEF Threads
  <1>0. /\ TInv /\ TInv' /\ HandlerOK(h) /\ UploadOK(h) /\ th[h] \in ThreadStates
        /\ th[h].job \in Jobs \cup {Nil} /\ Nil \notin Jobs
        /\ file \in [Jobs -> Texts] /\ commit \in [Jobs -> SUBSET Artifacts]
        /\ art \in [Jobs -> [Artifacts -> Copy]]
    <2>1. TInv /\ TInv'
      BY HandlerTypes DEF FInv
    <2>2. th[h] \in ThreadStates
      BY <2>1 DEF TInv, StateOK
    <2> QED BY <2>1, <2>2, Fields, NilAssumption DEF FInv, UploadsOK, TInv, StateOK, LocalOK
  \* Whoever is at a job is the only one.
  <1>a. th[h].job # Nil =>
          th[h].job \in Jobs /\ \A g \in Handlers \ {h} : th[g].job # th[h].job
    BY <1>0 DEF FInv, HandlersApart
  <1>b. Early(h) => /\ th[h].job \in Jobs /\ (Holding => th[Sched].job # th[h].job)
                    /\ file[th[h].job].rec # "dispatched"
    BY <1>0, <1>a DEF Early, FInv, ApartFromSched, UploadOK, Saving
  <1>1. ASSUME NEW i \in Jobs, NEW c \in Commitments, Create(h, i, c)
        PROVE  FInv'
    <2>1. /\ th[h].pc = "idle" /\ th[h].job = Nil /\ file[i].rec = "none"
          /\ commit' = [commit EXCEPT ![i] = c] /\ UNCHANGED <<file, art, outgoing>>
          /\ \A g \in Handlers : th[g].job # i
      BY <1>0, <1>1 DEF Create, Uploading, UploadOK
    <2>2. Turns(h, "save_open", i, th[h].art, th[h].data, "pending_upload",
                th[h].tee, th[h].todo)
      BY <1>0, <1>1, HandlerTurns
    <2>3. JobOK(i) /\ file[i].ok
      BY <2>1 DEF FInv, JobOK, TornAt
    <2>4. Holding => th[Sched].job # i
      BY <2>1, JobIsFree
    <2>5. Only(i)
      BY <1>0, <2>1 DEF Only
    <2>6. UploadOK(h)'
      BY <1>0, <2>1, <2>2, <2>3 DEF UploadOK, Turns, Holds, Saving
    <2>7. JobOK(i)'
      <3>1. \A t \in Threads \ {h} : th'[t] = th[t]
        BY <2>2 DEF Turns, Moves
      <3>2. TornAt(i)'
        BY <2>1, <2>3 DEF TornAt
      <3>3. PartialAt(i)'
        BY <2>1, <2>3 DEF JobOK, PartialAt
      <3>4. PayloadAt(i)'
        BY <2>1, <2>3 DEF JobOK, PayloadAt
      <3> QED BY <3>2, <3>3, <3>4 DEF JobOK
    <2> QED BY <1>0, <2>1, <2>2, <2>4, <2>5, <2>6, <2>7, HandlerKeeps DEF Turns, Holds
  <1>2. ASSUME NEW i \in Jobs, NEW a \in Artifacts, StartUpload(h, i, a)
        PROVE  FInv'
    <2>1. /\ th[h].pc = "idle" /\ th[h].job = Nil /\ file[i].ok /\ file[i].rec = "pending_upload"
          /\ UNCHANGED <<file, art, commit, outgoing>>
          /\ \A g \in Handlers : th[g].job # i
      <3>1. file[i].ok /\ file[i].rec = "pending_upload"
        BY <1>2 DEF StartUpload, StatusIs, Status, Readable
      <3> QED BY <1>0, <1>2, <3>1 DEF StartUpload, Uploading, UploadOK, disk
    <2>2. PICK d \in {"good", "bad"} :
              Turns(h, "art_open", i, a, d, th[h].rec, th[h].tee, th[h].todo)
      BY <1>0, <1>2, HandlerTurns
    <2>3. JobOK(i)
      BY DEF FInv
    <2>4. Holding => th[Sched].job # i
      BY <2>1, JobIsFree
    <2>5. Only(i)
      BY <2>1 DEF Only
    <2>6. UploadOK(h)'
      BY <1>0, <2>1, <2>2 DEF UploadOK, Turns, Holds, Saving
    <2>7. JobOK(i)'
      <3>1. \A t \in Threads \ {h} : th'[t] = th[t]
        BY <2>2 DEF Turns, Moves
      <3>2. TornAt(i)'
        BY <2>1 DEF TornAt
      <3>3. PartialAt(i)'
        BY <2>1, <2>3 DEF JobOK, PartialAt
      <3>4. PayloadAt(i)'
        BY <2>1, <2>3 DEF JobOK, PayloadAt
      <3> QED BY <3>2, <3>3, <3>4 DEF JobOK
    <2> QED BY <1>0, <2>1, <2>2, <2>4, <2>5, <2>6, <2>7, HandlerKeeps DEF Turns, Holds
  <1>3. ASSUME NEW j \in Jobs, th[h].job = j, ArtifactOpen(h)
        PROVE  FInv'
    <2>0. /\ Early(h) /\ th[h].job = j /\ \A g \in Handlers \ {h} : th[g].job # j
          /\ (Holding => th[Sched].job # j) /\ file[j].rec # "dispatched"
      BY <1>3, <1>0, <1>a, <1>b DEF ArtifactOpen, Early, Saving
    <2>1. /\ th[h].pc = "art_open" /\ Early(h) /\ th[h].art \in Artifacts
          /\ art' = [art EXCEPT ![j][th[h].art] = "partial"]
          /\ UNCHANGED <<file, commit, outgoing>>
      BY <2>0, <1>0, <1>3 DEF ArtifactOpen, Early, HandlerOK
    <2>2. GoesTo(h, "art_write")
      BY <1>0, <1>3, HandlerTurns
    <2>3. JobOK(j) /\ j \in Jobs /\ file[j].ok /\ file[j].rec = "pending_upload"
      BY <1>0, <2>0, <2>1 DEF FInv, UploadOK
    <2>5. Only(j)
      BY <2>0, <1>0, <2>1 DEF Only
    <2>6. UploadOK(h)'
      BY <2>0, <1>0, <2>1, <2>2, <2>3 DEF UploadOK, GoesTo, Turns, Holds, Saving
    <2>7. JobOK(j)'
      <3>0. /\ \A t \in Threads \ {h} : th'[t] = th[t]
            /\ th'[h].pc = "art_write" /\ th'[h].job = j /\ th'[h].art = th[h].art
        BY <2>0, <2>2 DEF GoesTo, Turns, Moves, Holds
      <3>1. \A a \in Artifacts : art'[j][a] = IF a = th[h].art THEN "partial" ELSE art[j][a]
        BY <2>0, <1>0, <2>1, <2>3
      <3>2. TornAt(j)'
        BY <2>0, <2>1, <2>3 DEF TornAt
      <3>3. PartialAt(j)'
        <4>1. \A g \in Handlers : th[g].pc = "art_write" /\ th[g].job = j => th'[g] = th[g]
          BY <2>0, <2>1, <3>0 DEF Threads
        <4> QED BY <2>0, <2>3, <3>0, <3>1, <4>1 DEF JobOK, PartialAt
      <3>4. PayloadAt(j)'
        BY <2>0, <2>1, <2>3 DEF JobOK, PayloadAt
      <3> QED BY <3>2, <3>3, <3>4 DEF JobOK
    <2>8. th[h].job \in {j, Nil} /\ th'[h].job \in {j, Nil} /\ Moves(h)
      BY <2>0, <2>2 DEF GoesTo, Turns, Holds
    <2> QED BY <1>0, <2>0, <2>1, <2>3, <2>5, <2>6, <2>7, <2>8, HandlerKeeps
  <1>4. ASSUME NEW j \in Jobs, th[h].job = j, ArtifactWrite(h)
        PROVE  FInv'
    <2>0. /\ Early(h) /\ th[h].job = j /\ \A g \in Handlers \ {h} : th[g].job # j
          /\ (Holding => th[Sched].job # j) /\ file[j].rec # "dispatched"
      BY <1>4, <1>0, <1>a, <1>b DEF ArtifactWrite, Early, Saving
    <2>1. /\ th[h].pc = "art_write" /\ Early(h) /\ th[h].art \in Artifacts
          /\ th[h].data \in {"good", "bad"}
          /\ art' = [art EXCEPT ![j][th[h].art] = th[h].data]
          /\ UNCHANGED <<file, commit, outgoing>>
      BY <2>0, <1>0, <1>4 DEF ArtifactWrite, Early, HandlerOK
    <2>2. Ends(h) \/ GoesTo(h, "check")
      BY <1>0, <1>4, HandlerTurns
    <2>3. JobOK(j) /\ j \in Jobs /\ file[j].ok /\ file[j].rec = "pending_upload"
      BY <1>0, <2>0, <2>1 DEF FInv, UploadOK
    <2>4. /\ \A t \in Threads \ {h} : th'[t] = th[t]
          /\ \/ th'[h].pc = "idle" /\ th'[h].job = Nil
             \/ th'[h].pc = "check" /\ th'[h].job = j
          /\ Moves(h)
      BY <2>0, <2>2 DEF Ends, GoesTo, Turns, Moves, Holds
    <2>5. Only(j)
      BY <2>0, <1>0, <2>1 DEF Only
    <2>6. UploadOK(h)'
      BY <2>0, <1>0, <2>1, <2>3, <2>4 DEF UploadOK, Saving
    <2>7. JobOK(j)'
      <3>1. \A a \in Artifacts : art'[j][a] = IF a = th[h].art THEN th[h].data ELSE art[j][a]
        BY <2>0, <1>0, <2>1, <2>3
      <3>2. TornAt(j)'
        BY <2>0, <2>1, <2>3 DEF TornAt
      <3>3. PartialAt(j)'
        <4> SUFFICES ASSUME MaxCrashes = 0, NEW a \in Artifacts, art'[j][a] = "partial"
                     PROVE  \E g \in Handlers : /\ th'[g].pc = "art_write"
                                                /\ th'[g].job = j /\ th'[g].art = a
          BY DEF PartialAt
        <4>1. a # th[h].art /\ art[j][a] = "partial"
          BY <2>0, <2>1, <3>1
        <4>2. PICK g \in Handlers : th[g].pc = "art_write" /\ th[g].job = j /\ th[g].art = a
          BY <2>0, <2>3, <4>1 DEF JobOK, PartialAt
        <4> QED BY <2>0, <2>4, <4>1, <4>2 DEF Threads
      <3>4. PayloadAt(j)'
        BY <2>0, <2>1, <2>3 DEF JobOK, PayloadAt
      <3> QED BY <3>2, <3>3, <3>4 DEF JobOK
    <2>8. th[h].job \in {j, Nil} /\ th'[h].job \in {j, Nil}
      BY <2>0, <2>4
    <2> QED BY <1>0, <2>0, <2>1, <2>3, <2>4, <2>5, <2>6, <2>7, <2>8, HandlerKeeps
  <1>5. ASSUME NEW j \in Jobs, th[h].job = j, CheckComplete(h)
        PROVE  FInv'
    <2>0. /\ Early(h) /\ th[h].job = j /\ \A g \in Handlers \ {h} : th[g].job # j
          /\ (Holding => th[Sched].job # j) /\ file[j].rec # "dispatched"
      BY <1>5, <1>0, <1>a, <1>b DEF CheckComplete, Early, Saving
    <2>1. /\ th[h].pc = "check" /\ Early(h)
          /\ UNCHANGED <<file, art, commit, outgoing>>
      BY <2>0, <1>5 DEF CheckComplete, Early, disk
    <2>2. Saves(h, IF AllRequired(j) THEN "queued" ELSE "pending_upload")
      BY <1>0, <1>5, HandlerTurns
    <2>3. JobOK(j) /\ j \in Jobs /\ file[j].ok /\ file[j].rec = "pending_upload"
      BY <1>0, <2>0, <2>1 DEF FInv, UploadOK
    <2>4. /\ \A t \in Threads \ {h} : th'[t] = th[t]
          /\ th'[h].pc = "save_open" /\ th'[h].job = j
          /\ th'[h].rec = "queued" => AllRequired(j)
          /\ Moves(h)
      BY <2>0, <2>2 DEF Saves, Turns, Moves, Holds
    <2>5. Only(j)
      BY <2>0, <2>1 DEF Only
    <2>6. UploadOK(h)'
      BY <2>0, <1>0, <2>1, <2>3, <2>4 DEF UploadOK, Saving
    <2>7. JobOK(j)'
      <3>2. TornAt(j)'
        BY <2>0, <2>1, <2>3 DEF TornAt
      <3>3. PartialAt(j)'
        BY <2>0, <2>1, <2>3, <2>4 DEF JobOK, PartialAt, Threads
      <3>4. PayloadAt(j)'
        BY <2>0, <2>1, <2>3 DEF JobOK, PayloadAt
      <3> QED BY <3>2, <3>3, <3>4 DEF JobOK
    <2>8. th[h].job \in {j, Nil} /\ th'[h].job \in {j, Nil}
      BY <2>0, <2>4
    <2> QED BY <1>0, <2>0, <2>1, <2>3, <2>4, <2>5, <2>6, <2>7, <2>8, HandlerKeeps
  <1>6. ASSUME NEW j \in Jobs, th[h].job = j, SaveOpen(h)
        PROVE  FInv'
    <2>0. /\ Early(h) /\ th[h].job = j /\ \A g \in Handlers \ {h} : th[g].job # j
          /\ (Holding => th[Sched].job # j) /\ file[j].rec # "dispatched"
      BY <1>6, <1>0, <1>a, <1>b DEF SaveOpen, Early, Saving
    <2>1. /\ th[h].pc = "save_open" /\ Early(h)
          /\ file' = [file EXCEPT ![j] = [ok |-> FALSE, rec |-> "empty"]]
          /\ UNCHANGED <<art, commit, outgoing>>
      BY <2>0, <1>6 DEF SaveOpen, Early, Saving
    <2>2. GoesTo(h, "save_flush")
      BY <1>0, <1>6, SharedTurns
    <2>3. JobOK(j) /\ j \in Jobs
      BY <2>0, <2>1 DEF FInv
    <2>4. /\ \A t \in Threads \ {h} : th'[t] = th[t]
          /\ th'[h].pc = "save_flush" /\ th'[h].job = j /\ th'[h].rec = th[h].rec
          /\ Moves(h)
      BY <2>0, <2>2 DEF GoesTo, Turns, Moves, Holds
    <2>5. Only(j) /\ ~file'[j].ok /\ file'[j].rec = "empty"
      BY <1>0, <2>0, <2>1, <2>3 DEF Only
    <2>6. UploadOK(h)'
      BY <2>0, <1>0, <2>1, <2>3, <2>4, <2>5 DEF UploadOK, Saving
    <2>7. JobOK(j)'
      <3>2. TornAt(j)'
        BY <2>0, <2>4, <2>5 DEF TornAt
      <3>3. PartialAt(j)'
        BY <2>0, <2>1, <2>3, <2>4 DEF JobOK, PartialAt, Threads
      <3>4. PayloadAt(j)'
        BY <2>0, <2>1, <2>3, <2>5 DEF JobOK, PayloadAt
      <3> QED BY <3>2, <3>3, <3>4 DEF JobOK
    <2>8. th[h].job \in {j, Nil} /\ th'[h].job \in {j, Nil}
      BY <2>0, <2>4
    <2> QED BY <1>0, <2>0, <2>1, <2>3, <2>4, <2>5, <2>6, <2>7, <2>8, HandlerKeeps
  <1>7. ASSUME NEW j \in Jobs, th[h].job = j, SaveFlush(h)
        PROVE  FInv'
    <2>0. /\ Early(h) /\ th[h].job = j /\ \A g \in Handlers \ {h} : th[g].job # j
          /\ (Holding => th[Sched].job # j) /\ file[j].rec # "dispatched"
      BY <1>7, <1>0, <1>a, <1>b DEF SaveFlush, Early, Saving
    <2>1. /\ th[h].pc = "save_flush" /\ Early(h) /\ Saving(h)
          /\ th[h].rec \in {"pending_upload", "queued"}
          /\ file' = [file EXCEPT ![j] = Overwrite(file[j], th[h].rec)]
          /\ UNCHANGED <<art, commit, outgoing>>
      BY <2>0, <1>0, <1>7 DEF SaveFlush, Early, Saving, HandlerOK
    <2>2. \/ th[h].rec = "pending_upload" /\ Ends(h)
          \/ th[h].rec = "queued" /\ GoesTo(h, "queue_read")
      BY <1>0, <1>7, HandlerTurns
    <2>3. JobOK(j) /\ j \in Jobs /\ file[j].rec = "empty"
      BY <1>0, <2>0, <2>1 DEF FInv, UploadOK
    <2>4. /\ \A t \in Threads \ {h} : th'[t] = th[t]
          /\ \/ th'[h].pc = "idle" /\ th'[h].job = Nil
             \/ th'[h].pc = "queue_read" /\ th'[h].job = j
          /\ Moves(h)
      BY <2>0, <2>2 DEF Ends, GoesTo, Turns, Moves, Holds
    <2>5. Only(j) /\ file'[j].ok /\ file'[j].rec = th[h].rec
      BY <1>0, <2>0, <2>1, <2>3 DEF Only, Overwrite, Size
    <2>6. UploadOK(h)'
      BY <2>0, <1>0, <2>4 DEF UploadOK, Saving
    <2>7. JobOK(j)'
      <3>2. TornAt(j)'
        BY <2>0, <2>5 DEF TornAt
      <3>3. PartialAt(j)'
        BY <2>0, <2>1, <2>3, <2>4 DEF JobOK, PartialAt, Threads
      <3>4. PayloadAt(j)'
        BY <2>0, <2>1, <2>3, <2>5 DEF JobOK, PayloadAt
      <3> QED BY <3>2, <3>3, <3>4 DEF JobOK
    <2>8. th[h].job \in {j, Nil} /\ th'[h].job \in {j, Nil}
      BY <2>0, <2>4
    <2> QED BY <1>0, <2>0, <2>1, <2>3, <2>4, <2>5, <2>6, <2>7, <2>8, HandlerKeeps
  <1>8. ASSUME QueueRead(h) \/ QueueReadRaises(h) \/ QueueOpen(h) \/ QueueFlush(h)
        PROVE  FInv'
    <2>1. Queueing(h) /\ UNCHANGED <<file, art, commit, outgoing>>
      BY <1>8 DEF QueueRead, QueueReadRaises, QueueOpen, QueueFlush, Queueing, disk
    <2>2. Ends(h) \/ GoesTo(h, "queue_open") \/ GoesTo(h, "queue_flush")
      BY <1>0, <1>8, SharedTurns
    <2> QED BY <1>0, <2>1, <2>2, QueueKeeps DEF Ends, GoesTo, Turns, Holds
  <1>9. ArtifactOpen(h) \/ ArtifactWrite(h) \/ CheckComplete(h) \/ SaveOpen(h) \/ SaveFlush(h)
          => Early(h)
    BY DEF ArtifactOpen, ArtifactWrite, CheckComplete, SaveOpen, SaveFlush, Early, Saving
  <1> QED BY <1>b, <1>1, <1>2, <1>3, <1>4, <1>5, <1>6, <1>7, <1>8, <1>9
          DEF Handler, HandlerSteps, SaveAndQueue

--------------------------------------------------------------------------------
(***************************************************************************)
(* The scheduler.  While no record changes, what DispatchOK says of the    *)
(* record it holds keeps it apart from the handlers: a handler that may    *)
(* still write finds another status.                                       *)
(***************************************************************************)
LEMMA SchedKeeps ==
    ASSUME FInv, TInv', Moves(Sched), UNCHANGED <<file, art, commit>>,
           th[Sched].pc # "save_flush", th'[Sched].pc # "save_flush",
           DispatchOK', TodoOK', \A j \in Jobs : PayloadAt(j)'
    PROVE  FInv'
  <1>0. \A h \in Handlers : th'[h] = th[h]
    BY DEF Moves, Threads
  <1>1. HandlersApart' /\ UploadsOK'
    <2>1. HandlersApart'
      BY <1>0 DEF FInv, HandlersApart
    <2>2. ASSUME NEW h \in Handlers PROVE UploadOK(h)'
      BY <1>0 DEF FInv, UploadsOK, UploadOK, Saving
    <2> QED BY <2>1, <2>2 DEF UploadsOK
  <1>2. ApartFromSched'
    <2>1. ASSUME NEW h \in Handlers, Early(h)'
          PROVE  file[th[h].job].rec \in {"pending_upload", "none", "empty"}
      BY <1>0, <2>1 DEF FInv, UploadsOK, UploadOK, Early, Saving
    <2>2. Holding' => file[th'[Sched].job].rec \in {"queued", "provisioned", "dispatched"}
      BY DEF DispatchOK, Holding
    <2> QED BY <1>0, <2>1, <2>2 DEF ApartFromSched
  <1>3. ASSUME NEW j \in Jobs PROVE JobOK(j)'
    <2>1. JobOK(j)
      BY DEF FInv
    <2>2. TornAt(j)'
      <3>1. \A t \in Threads : th[t].pc = "save_flush" => th'[t] = th[t]
        BY DEF Moves
      <3> QED BY <2>1, <3>1 DEF JobOK, TornAt
    <2>3. PartialAt(j)'
      BY <1>0, <2>1 DEF JobOK, PartialAt
    <2> QED BY <2>2, <2>3 DEF JobOK
  <1> QED BY <1>1, <1>2, <1>3 DEF FInv

\* As long as payloads stay what they are, so does what is said of them.
LEMMA PayloadsKeep ==
    ASSUME FInv, UNCHANGED <<file, commit, outgoing>>
    PROVE  \A j \in Jobs : PayloadAt(j)'
  BY DEF FInv, JobOK, PayloadAt

\* A record that can be read, by its status.
LEMMA Statuses ==
    ASSUME NEW j \in Jobs
    PROVE  /\ StatusIs(j, "queued") => file[j].ok /\ file[j].rec \in {"queued", "provisioned"}
           /\ StatusIs(j, "dispatched") => file[j].ok /\ file[j].rec = "dispatched"
           /\ StatusIs(j, "complete") => file[j].ok /\ file[j].rec = "complete"
           /\ file[j].ok /\ file[j].rec = "dispatched" => StatusIs(j, "dispatched")
  BY DEF StatusIs, Status, Readable, Exists

\* The scheduler's steps that leave the records and the artifacts alone.
LEMMA SchedReads ==
    ASSUME FInv, Scheduler,
           \/ FinalizeScan \/ FinalizeDone \/ Reload
           \/ \E j \in Jobs : ProbeAlive(j) \/ ProbeDead(j) \/ Pick(j)
           \/ BusyScan \/ ProvisionSave \/ NotBooted \/ Recheck
           \/ \E e \in Tees : Booted(e)
           \/ \E ok \in BOOLEAN : Send(ok)
           \/ MarkLoad \/ GiveUp
           \/ QueueRead(Sched) \/ QueueReadRaises(Sched)
           \/ QueueOpen(Sched) \/ QueueFlush(Sched)
    PROVE  FInv'
  <1> Sched \in Threads
    BY DEF Threads
  <1>0. TInv /\ TInv' /\ SchedOK /\ th[Sched].todo \in SUBSET Jobs
    BY SchedulerTypes, Fields DEF FInv, TInv, LocalOK, StateOK
  \* Where a tick holds no job, and where it stays at the job it dispatches.
  <1>a. ASSUME th'[Sched].pc \in {"sleep", "busy_scan", "pick", "queue_open", "queue_flush"}
        PROVE  DispatchOK' /\ TodoOK' /\ th'[Sched].pc # "save_flush"
    BY <1>a DEF DispatchOK, TodoOK, Dispatching, Completing, Saving
  <1>b. ASSUME file' = file, Dispatching, th[Sched].pc # "save_flush",
               th'[Sched].job = th[Sched].job,
               \/ th'[Sched].pc \in {"provision", "recheck", "send", "mark"}
               \/ th'[Sched].pc = "save_open" /\ th'[Sched].rec \in {"provisioned", "dispatched"}
        PROVE  DispatchOK' /\ TodoOK' /\ th'[Sched].pc # "save_flush"
    BY <1>b DEF FInv, DispatchOK, TodoOK, Dispatching, Completing, Saving
  <1>f. UNCHANGED <<file, art, commit>> /\ (UNCHANGED outgoing \/ Recheck)
    BY DEF FinalizeScan, FinalizeDone, Reload, ProbeAlive, ProbeDead, Pick, BusyScan,
           ProvisionSave, NotBooted, Recheck, Booted, Send, MarkLoad, GiveUp, QueueRead,
           QueueReadRaises, QueueOpen, QueueFlush, disk
  <1>1. ASSUME FinalizeScan
        PROVE  FInv'
    <2>1. Turns(Sched, "finalize", th[Sched].job, th[Sched].art, th[Sched].data,
                th[Sched].rec, th[Sched].tee, Dispatched) /\ th[Sched].pc # "save_flush"
      BY <1>0, <1>1, SchedTurns DEF FinalizeScan
    <2>2. th'[Sched].pc = "finalize" /\ th'[Sched].todo = Dispatched /\ Moves(Sched)
      BY <2>1 DEF Turns, Holds
    <2>3. \A i \in Dispatched : file'[i].ok /\ file'[i].rec = "dispatched"
      BY <1>f, Statuses DEF Dispatched
    <2>4. DispatchOK' /\ TodoOK'
      BY <2>2, <2>3 DEF DispatchOK, TodoOK, Dispatching, Completing, Saving
    <2>5. \A j \in Jobs : PayloadAt(j)'
      BY <1>f, <1>1, PayloadsKeep DEF FinalizeScan, disk
    <2> QED BY <1>0, <1>f, <2>1, <2>2, <2>4, <2>5, SchedKeeps
  <1>2. ASSUME NEW j \in Jobs, th[Sched].job = j, Reload
        PROVE  FInv'
    <2>1. th[Sched].pc = "reload" /\ Completing
      BY <1>2 DEF Reload, Completing
    <2>2. file[j].ok /\ file[j].rec = "dispatched"
      BY <1>2, <2>1 DEF FInv, DispatchOK
    <2>3. Saves(Sched, "complete")
      BY <1>0, <1>2, <2>2, SchedTurns, Statuses
    <2>4. /\ th'[Sched].pc = "save_open" /\ th'[Sched].rec = "complete"
          /\ th'[Sched].job = j /\ th'[Sched].todo = th[Sched].todo /\ Moves(Sched)
      BY <1>2, <2>3 DEF Saves, Turns, Holds
    <2>5. DispatchOK' /\ TodoOK'
      BY <1>2, <1>f, <2>1, <2>2, <2>4
      DEF FInv, DispatchOK, TodoOK, Dispatching, Completing, Saving
    <2>6. \A i \in Jobs : PayloadAt(i)'
      BY <1>f, <1>2, PayloadsKeep DEF Reload, disk
    <2> QED BY <1>0, <1>f, <2>1, <2>4, <2>5, <2>6, SchedKeeps
  <1>3. ASSUME NEW j \in Jobs, ProbeAlive(j) \/ ProbeDead(j)
        PROVE  FInv'
    <2>1. th[Sched].pc = "finalize" /\ j \in th[Sched].todo /\ outgoing' = outgoing
      BY <1>3 DEF ProbeAlive, ProbeDead, disk
    <2>2. \A i \in th[Sched].todo : file[i].ok /\ file[i].rec = "dispatched"
      BY <2>1 DEF FInv, TodoOK
    <2>3. /\ th'[Sched].todo = th[Sched].todo \ {j} /\ Moves(Sched)
          /\ \/ th'[Sched].pc = "finalize"
             \/ th'[Sched].pc = "reload" /\ th'[Sched].job = j
      <3>1. CASE ProbeAlive(j)
        BY <1>0, <2>1, <3>1, SchedTurns DEF Turns, Holds
      <3>2. CASE ProbeDead(j)
        BY <1>0, <2>1, <3>2, SchedTurns DEF Turns, Holds
      <3> QED BY <1>3, <3>1, <3>2
    <2>4. DispatchOK' /\ TodoOK'
      BY <1>f, <2>1, <2>2, <2>3 DEF DispatchOK, TodoOK, Dispatching, Completing, Saving
    <2>5. \A i \in Jobs : PayloadAt(i)'
      BY <1>f, <2>1, PayloadsKeep
    <2> QED BY <1>0, <1>f, <2>1, <2>3, <2>4, <2>5, SchedKeeps
  <1>4. ASSUME NEW j \in Jobs, Pick(j)
        PROVE  FInv'
    <2>1. th[Sched].pc = "pick" /\ outgoing' = outgoing /\ StatusIs(j, "queued")
      BY <1>4 DEF Pick, NextQueued, disk
    <2>2. file[j].ok /\ file[j].rec \in {"queued", "provisioned"}
      BY <2>1, Statuses
    <2>3. th'[Sched].pc = "provision" /\ th'[Sched].job = j /\ Moves(Sched)
      BY <1>0, <1>4, SchedTurns DEF Turns, Holds
    <2>4. DispatchOK' /\ TodoOK'
      BY <1>f, <2>2, <2>3 DEF DispatchOK, TodoOK, Dispatching, Completing, Saving
    <2>5. \A i \in Jobs : PayloadAt(i)'
      BY <1>f, <2>1, PayloadsKeep
    <2> QED BY <1>0, <1>f, <2>1, <2>3, <2>4, <2>5, SchedKeeps
  \* The tick ends or goes on without a job.
  <1>5. ASSUME \/ FinalizeDone \/ BusyScan \/ GiveUp \/ Send(FALSE)
               \/ QueueRead(Sched) \/ QueueReadRaises(Sched)
               \/ QueueOpen(Sched) \/ QueueFlush(Sched)
        PROVE  FInv'
    <2>1. th[Sched].pc # "save_flush" /\ outgoing' = outgoing
      BY <1>5 DEF FinalizeDone, BusyScan, GiveUp, Send, QueueRead, QueueReadRaises,
                  QueueOpen, QueueFlush, disk
    <2>2. \/ Ends(Sched) \/ GoesTo(Sched, "busy_scan") \/ GoesTo(Sched, "pick")
          \/ GoesTo(Sched, "queue_open") \/ GoesTo(Sched, "queue_flush")
      <3>1. FALSE \in BOOLEAN
        OBVIOUS
      <3> QED BY <1>0, <1>5, <3>1, SchedTurns, SharedTurns
    <2>3. /\ th'[Sched].pc \in {"sleep", "busy_scan", "pick", "queue_open", "queue_flush"}
          /\ Moves(Sched)
      BY <2>2 DEF Ends, GoesTo, Turns, Holds
    <2>4. \A i \in Jobs : PayloadAt(i)'
      BY <1>f, <2>1, PayloadsKeep
    <2> QED BY <1>0, <1>a, <1>f, <2>1, <2>3, <2>4, SchedKeeps
  \* The tick goes on with the job that it dispatches.
  <1>6. ASSUME \/ ProvisionSave \/ NotBooted \/ MarkLoad \/ Send(TRUE)
               \/ \E e \in Tees : Booted(e)
        PROVE  FInv'
    <2>1. th[Sched].pc # "save_flush" /\ outgoing' = outgoing /\ Dispatching
      BY <1>6 DEF ProvisionSave, NotBooted, MarkLoad, Send, Booted, disk, Dispatching
    <2>2. /\ th'[Sched].job = th[Sched].job /\ Moves(Sched)
          /\ \/ th'[Sched].pc \in {"provision", "recheck", "send", "mark"}
             \/ th'[Sched].pc = "save_open" /\ th'[Sched].rec \in {"provisioned", "dispatched"}
      <3>1. CASE ProvisionSave \/ MarkLoad
        BY <1>0, <3>1, SchedTurns DEF Saves, Turns, Holds
      <3>2. CASE NotBooted
        BY <1>0, <3>2, SchedTurns DEF GoesTo, Turns, Holds
      <3>3. CASE Send(TRUE)
        <4>1. GoesTo(Sched, "mark")
          BY <1>0, <3>3, SchedTurns
        <4> QED BY <4>1 DEF GoesTo, Turns, Holds
      <3>4. ASSUME NEW e \in Tees, Booted(e)
            PROVE  th'[Sched].job = th[Sched].job /\ Moves(Sched) /\ th'[Sched].pc = "recheck"
        BY <1>0, <3>4, SchedTurns DEF Turns, Holds
      <3> QED BY <1>6, <3>1, <3>2, <3>3, <3>4
    <2>3. \A i \in Jobs : PayloadAt(i)'
      BY <1>f, <2>1, PayloadsKeep
    <2> QED BY <1>0, <1>b, <1>f, <2>1, <2>2, <2>3, SchedKeeps
  \* The payload is built.
  <1>7. ASSUME NEW j \in Jobs, th[Sched].job = j, Recheck
        PROVE  FInv'
    <2>1. /\ th[Sched].pc = "recheck" /\ Dispatching /\ Holding
          /\ outgoing' = [outgoing EXCEPT ![j] = art[j]]
      BY <1>7 DEF Recheck, Payload, Dispatching, Holding
    <2>2. GoesTo(Sched, "send")
      BY <1>0, <1>7, SchedTurns
    <2>3. th'[Sched].pc = "send" /\ th'[Sched].job = j /\ Moves(Sched)
      BY <1>7, <2>2 DEF GoesTo, Turns, Holds
    <2>4. MaxCrashes = 0 => \A a \in Artifacts : art[j][a] # "partial"
      <3>1. \A h \in Handlers : th[h].pc = "art_write" => th[h].job # j
        BY <1>7, <2>1 DEF FInv, ApartFromSched, Early
      <3> QED BY <3>1 DEF FInv, JobOK, PartialAt
    <2>5. PayloadAt(j)'
      <3>1. outgoing'[j] = art[j]
        BY <1>0, <2>1 DEF TInv, StateOK
      <3> QED BY <2>4, <3>1 DEF PayloadAt
    <2>6. ASSUME NEW i \in Jobs \ {j} PROVE PayloadAt(i)'
      <3>1. outgoing'[i] = outgoing[i]
        BY <1>0, <2>1 DEF TInv, StateOK
      <3> QED BY <3>1 DEF FInv, JobOK, PayloadAt
    <2> QED BY <1>0, <1>7, <1>b, <1>f, <2>1, <2>3, <2>5, <2>6, SchedKeeps
  <1>8. Reload \/ Recheck => th[Sched].job \in Jobs
    BY <1>0 DEF Reload, Recheck, SchedOK
  <1>9. ASSUME NEW ok \in BOOLEAN, Send(ok)
        PROVE  Send(TRUE) \/ Send(FALSE)
    <2>1. CASE ok
      BY <1>9, <2>1
    <2>2. CASE ~ok
      BY <1>9, <2>2
    <2> QED BY <2>1, <2>2
  <1> QED BY <1>1, <1>2, <1>3, <1>4, <1>5, <1>6, <1>7, <1>8, <1>9

\* A save by the scheduler touches the record it holds and no other.
LEMMA SchedSaves ==
    ASSUME FInv, TInv', Moves(Sched), NEW j \in Jobs, th[Sched].job = j, Holding,
           Only(j), UNCHANGED <<art, commit, outgoing>>, th'[Sched].job \in {j, Nil},
           DispatchOK', TodoOK', ApartFromSched', JobOK(j)'
    PROVE  FInv'
  <1>0. \A h \in Handlers : th'[h] = th[h]
    BY DEF Moves, Threads
  <1>1. HandlersApart'
    BY <1>0 DEF FInv, HandlersApart
  <1>2. ASSUME NEW h \in Handlers PROVE UploadOK(h)'
    <2>1. UploadOK(h) /\ th'[h] = th[h] /\ th[h].job \in Jobs \cup {Nil}
      BY <1>0, Fields DEF FInv, UploadsOK, TInv, StateOK, Threads
    <2>2. Early(h) => th[h].job # j /\ th[h].job # Nil
      BY <2>1 DEF FInv, ApartFromSched, UploadOK, Early, Saving
    <2>3. Early(h) => file'[th[h].job] = file[th[h].job]
      BY <2>1, <2>2 DEF Only
    <2> QED BY <2>1, <2>3 DEF UploadOK, Early, Saving
  <1>3. ASSUME NEW i \in Jobs \ {j} PROVE JobOK(i)'
    <2>1. JobOK(i) /\ file'[i] = file[i] /\ th'[Sched].job # i
      BY NilAssumption DEF FInv, Only
    <2>2. TornAt(i)'
      BY <2>1 DEF JobOK, TornAt, Moves
    <2>3. PartialAt(i)'
      BY <1>0, <2>1 DEF JobOK, PartialAt
    <2>4. PayloadAt(i)'
      BY <2>1 DEF JobOK, PayloadAt
    <2> QED BY <2>2, <2>3, <2>4 DEF JobOK
  <1> QED BY <1>1, <1>2, <1>3 DEF FInv, UploadsOK

(***************************************************************************)
(* The scheduler's steps that write: cleanup and the saves.                *)
(***************************************************************************)
LEMMA SchedWrites ==
    ASSUME FInv, Scheduler,
           \/ \E old \in SUBSET Jobs : Cleanup(old)
           \/ SaveOpen(Sched) \/ SaveFlush(Sched)
    PROVE  FInv'
  <1> Sched \in Threads
    BY DEF Threads
  <1>0. /\ TInv /\ TInv' /\ SchedOK /\ th[Sched].todo \in SUBSET Jobs
        /\ file \in [Jobs -> Texts]
    BY SchedulerTypes, Fields DEF FInv, TInv, LocalOK, StateOK
  <1>1. ASSUME NEW old \in SUBSET Jobs, Cleanup(old)
        PROVE  FInv'
    <2>1. /\ \A i \in old : StatusIs(i, "complete") /\ \A h \in Handlers : th[h].job # i
          /\ \A i \in Jobs \ old : file'[i] = file[i] /\ art'[i] = art[i]
          /\ \A i \in old : /\ file'[i] = [ok |-> TRUE, rec |-> "deleted"]
                            /\ art'[i] = [a \in Artifacts |-> "absent"]
          /\ UNCHANGED <<commit, outgoing>> /\ th[Sched].pc = "sleep"
      BY <1>1 DEF Cleanup, Uploading
    <2>2. th'[Sched].pc = "finalize_scan" /\ Moves(Sched)
      BY <1>0, <1>1, SchedTurns DEF GoesTo, Turns, Holds
    <2>3. \A h \in Handlers : th'[h] = th[h]
      BY <2>2 DEF Moves, Threads
    <2>4. DispatchOK' /\ TodoOK' /\ ApartFromSched'
      BY <2>2 DEF DispatchOK, TodoOK, ApartFromSched, Holding, Dispatching, Completing, Saving
    <2>5. HandlersApart'
      BY <2>3 DEF FInv, HandlersApart
    <2>6. ASSUME NEW h \in Handlers PROVE UploadOK(h)'
      <3>1. UploadOK(h) /\ th'[h] = th[h] /\ th[h].job \in Jobs \cup {Nil}
        BY <1>0, <2>3, Fields DEF FInv, UploadsOK, TInv, StateOK, Threads
      <3>2. Early(h) => th[h].job \in Jobs \ old
        BY <2>1, <3>1 DEF UploadOK, Early, Saving
      <3>3. Early(h) => /\ file'[th[h].job] = file[th[h].job]
                        /\ art'[th[h].job] = art[th[h].job]
        BY <2>1, <3>2
      <3> QED BY <2>1, <3>1, <3>3 DEF UploadOK, Early, Saving
    <2>7. ASSUME NEW i \in Jobs PROVE JobOK(i)'
      <3>1. JobOK(i)
        BY DEF FInv
      <3>2. \A t \in Threads : th[t].pc = "save_flush" => th'[t] = th[t]
        BY <2>1, <2>2 DEF Moves
      <3>3. CASE i \in old
        <4>1. file[i].rec = "complete"
          BY <2>1, <3>3, Statuses
        <4>2. TornAt(i)' /\ PartialAt(i)'
          BY <2>1, <3>3 DEF TornAt, PartialAt
        <4>3. PayloadAt(i)'
          BY <2>1, <3>1, <3>3 DEF JobOK, PayloadAt
        <4> QED BY <4>2, <4>3 DEF JobOK
      <3>4. CASE i \notin old
        <4>1. file'[i] = file[i] /\ art'[i] = art[i]
          BY <2>1, <3>4
        <4>2. TornAt(i)' /\ PartialAt(i)'
          BY <2>3, <3>1, <3>2, <4>1 DEF JobOK, TornAt, PartialAt
        <4>3. PayloadAt(i)'
          BY <2>1, <2>2, <3>1, <4>1
          DEF JobOK, PayloadAt, Saving
        <4> QED BY <4>2, <4>3 DEF JobOK
      <3> QED BY <3>3, <3>4
    <2> QED BY <1>0, <2>4, <2>5, <2>6, <2>7 DEF FInv, UploadsOK
  <1>2. ASSUME NEW j \in Jobs, th[Sched].job = j, SaveOpen(Sched)
        PROVE  FInv'
    <2>1. /\ th[Sched].pc = "save_open" /\ UNCHANGED <<art, commit, outgoing>>
          /\ file' = [file EXCEPT ![j] = [ok |-> FALSE, rec |-> "empty"]]
      BY <1>2 DEF SaveOpen
    <2>2. Holding
      BY <1>0, <2>1 DEF SchedOK, Holding, Dispatching, Completing, Saving
    <2>3. GoesTo(Sched, "save_flush")
      BY <1>0, <1>2, SharedTurns
    <2>4. /\ th'[Sched].pc = "save_flush" /\ th'[Sched].job = j
          /\ th'[Sched].rec = th[Sched].rec /\ th'[Sched].todo = th[Sched].todo
          /\ Moves(Sched)
      BY <1>2, <2>3 DEF GoesTo, Turns, Holds
    <2>5. /\ Only(j) /\ ~file'[j].ok /\ file'[j].rec = "empty"
          /\ \A i \in Jobs \ {j} : file'[i] = file[i]
      BY <1>0, <2>1 DEF Only
    <2>6. DispatchOK'
      BY <2>4, <2>5 DEF DispatchOK
    <2>7. TodoOK'
      BY <1>0, <1>2, <2>1, <2>4, <2>5 DEF FInv, TodoOK, Completing, Saving
    <2>8. ApartFromSched'
      BY <1>2, <2>2, <2>4 DEF FInv, ApartFromSched, Early, Saving, Moves, Threads
    <2>9. JobOK(j)'
      <3>1. JobOK(j) /\ \A h \in Handlers : th'[h] = th[h]
        BY <2>4 DEF FInv, Moves, Threads
      <3>2. TornAt(j)'
        BY <2>4, <2>5 DEF TornAt
      <3>3. PartialAt(j)'
        BY <2>1, <3>1 DEF JobOK, PartialAt
      <3>4. PayloadAt(j)'
        BY <2>1, <2>5, <3>1 DEF JobOK, PayloadAt
      <3> QED BY <3>2, <3>3, <3>4 DEF JobOK
    <2> QED BY <1>0, <1>2, <2>1, <2>2, <2>4, <2>5, <2>6, <2>7, <2>8, <2>9, SchedSaves
  <1>3. ASSUME NEW j \in Jobs, th[Sched].job = j, SaveFlush(Sched)
        PROVE  FInv'
    <2>1. /\ th[Sched].pc = "save_flush" /\ UNCHANGED <<art, commit, outgoing>>
          /\ file' = [file EXCEPT ![j] = Overwrite(file[j], th[Sched].rec)]
      BY <1>3 DEF SaveFlush
    <2>2. Holding /\ Saving(Sched) /\ th[Sched].rec \in {"provisioned", "dispatched", "complete"}
      BY <1>0, <2>1 DEF SchedOK, Holding, Dispatching, Completing, Saving
    <2>3. file[j].rec = "empty"
      BY <1>3, <2>1 DEF FInv, DispatchOK
    <2>4. /\ Only(j) /\ file'[j].ok /\ file'[j].rec = th[Sched].rec
          /\ \A i \in Jobs \ {j} : file'[i] = file[i]
      BY <1>0, <2>1, <2>2, <2>3 DEF Only, Overwrite, Size
    <2>5. /\ Moves(Sched) /\ th'[Sched].todo = th[Sched].todo
          /\ \/ th[Sched].rec = "dispatched" /\ th'[Sched].pc = "queue_read"
                /\ th'[Sched].job = j
             \/ th[Sched].rec = "provisioned" /\ th'[Sched].pc = "boot" /\ th'[Sched].job = j
             \/ th[Sched].rec = "complete" /\ th'[Sched].pc = "finalize"
                /\ th'[Sched].job = Nil
      BY <1>0, <1>3, SchedTurns DEF GoesTo, Turns, Holds
    <2>6. DispatchOK'
      BY <2>4, <2>5 DEF DispatchOK, Dispatching, Completing, Saving
    <2>7. TodoOK'
      BY <1>0, <1>3, <2>1, <2>4, <2>5 DEF FInv, TodoOK, Completing, Saving
    <2>8. ApartFromSched'
      <3>1. \A h \in Handlers : th'[h] = th[h]
        BY <2>5 DEF Moves, Threads
      <3> QED BY <1>3, <2>2, <2>5, <3>1
              DEF FInv, ApartFromSched, Early, Saving, Holding, Dispatching, Completing
    <2>9. JobOK(j)'
      <3>1. JobOK(j) /\ \A h \in Handlers : th'[h] = th[h]
        BY <2>5 DEF FInv, Moves, Threads
      <3>2. TornAt(j)'
        BY <2>4 DEF TornAt
      <3>3. PartialAt(j)'
        BY <2>1, <3>1 DEF JobOK, PartialAt
      <3>4. PayloadAt(j)'
        BY <2>1, <2>2, <2>4, <3>1 DEF JobOK, PayloadAt
      <3> QED BY <3>2, <3>3, <3>4 DEF JobOK
    <2> QED BY <1>0, <1>3, <2>1, <2>2, <2>4, <2>5, <2>6, <2>7, <2>8, <2>9, SchedSaves
  <1>4. SaveOpen(Sched) \/ SaveFlush(Sched) => th[Sched].job \in Jobs
    BY <1>0 DEF SaveOpen, SaveFlush, SchedOK, Saving
  <1> QED BY <1>1, <1>2, <1>3, <1>4

\* A Processing TEE touches no file.
LEMMA FilesStand ==
    ASSUME FInv, TInv', UNCHANGED <<file, art, commit, outgoing, th>>
    PROVE  FInv'
  <1>1. HandlersApart' /\ UploadsOK'
    BY DEF FInv, HandlersApart, UploadsOK, UploadOK, Saving
  <1>2. DispatchOK' /\ TodoOK' /\ ApartFromSched'
    BY DEF FInv, DispatchOK, TodoOK, ApartFromSched, Early, Holding, Dispatching,
           Completing, Saving
  <1>3. ASSUME NEW j \in Jobs PROVE JobOK(j)'
    <2>1. JobOK(j)
      BY DEF FInv
    <2> QED BY <2>1 DEF JobOK, TornAt, PartialAt, PayloadAt
  <1> QED BY <1>1, <1>2, <1>3 DEF FInv

\* A crash leaves all threads at rest, and the files as they are: what is said of
\* torn records, half artifacts and payloads no longer is.
LEMMA FilesCrash ==
    ASSUME FInv, TInv', Crash
    PROVE  FInv'
  <1>1. /\ \A t \in Threads : /\ th'[t].pc = (IF t = Sched THEN "sleep" ELSE "idle")
                              /\ th'[t].job = Nil
        /\ UNCHANGED <<file, art, commit, outgoing>> /\ faults.crash < MaxCrashes
    BY DEF Crash, Resting, disk
  <1>2. MaxCrashes # 0
    <2>1. faults \in [crash : 0..MaxCrashes, lost : 0..MaxLostReplies,
                      tee : 0..MaxTeeCrashes, probe : 0..MaxFalseProbes]
      BY DEF FInv, TInv, StateOK
    <2>2. faults.crash \in 0..MaxCrashes
      BY <2>1
    <2> QED BY <1>1, <2>2
  <1>3. HandlersApart' /\ UploadsOK'
    BY <1>1 DEF HandlersApart, UploadsOK, UploadOK, Saving, Threads
  <1>4. DispatchOK' /\ TodoOK' /\ ApartFromSched'
    <2>1. th'[Sched].pc = "sleep"
      BY <1>1 DEF Threads
    <2> QED BY <2>1 DEF DispatchOK, TodoOK, ApartFromSched, Dispatching, Completing,
                        Holding, Saving
  <1>5. ASSUME NEW j \in Jobs PROVE JobOK(j)'
    BY <1>1, <1>2 DEF FInv, JobOK, TornAt, PartialAt, PayloadAt
  <1> QED BY <1>3, <1>4, <1>5 DEF FInv

\* Every step keeps the files as they should be.
LEMMA FilesNext == SerialUploads /\ FInv /\ [Next]_vars => FInv'
  <1> SUFFICES ASSUME SerialUploads, FInv, [Next]_vars PROVE FInv'
    OBVIOUS
  <1>t. TInv'
    BY TNext DEF FInv
  <1>1. CASE UNCHANGED vars
    BY <1>t, <1>1, FilesStand DEF vars, disk
  <1>2. CASE Environment
    <2>1. CASE Crash
      BY <1>t, <2>1, FilesCrash
    <2>2. CASE ~Crash
      BY <1>t, <1>2, <2>2, FilesStand DEF Environment, TeeFinish, TeeCrash, disk
    <2> QED BY <2>1, <2>2
  <1>3. CASE \E h \in Handlers : Handler(h)
    BY <1>3, HandlerFiles
  <1>4. CASE Scheduler
    BY <1>4, SchedReads, SchedWrites DEF Scheduler, SaveAndQueue
  <1> QED BY <1>1, <1>2, <1>3, <1>4 DEF Next

\* FInv is an invariant.
LEMMA FilesHold == SerialUploads => (Spec => []FInv)
  <1> SUFFICES ASSUME SerialUploads PROVE Spec => []FInv
    OBVIOUS
  <1>1. FInv /\ [Next]_vars => FInv'
    BY FilesNext
  <1> QED BY <1>1, FilesInit, PTL DEF Spec

--------------------------------------------------------------------------------
\* With serial uploads and no crash, a job.json that cannot be read is one that
\* some thread has just truncated and is about to flush.
THEOREM TornRecordsPass == Undisturbed => (Spec => []TornIsTransient)
  <1> SUFFICES ASSUME Undisturbed PROVE Spec => []TornIsTransient
    OBVIOUS
  <1>1. FInv => TornIsTransient
    BY DEF FInv, JobOK, TornAt, TornIsTransient, Unreadable, Undisturbed
  <1>2. Spec => []FInv
    BY FilesHold DEF Undisturbed
  <1> QED BY <1>1, <1>2, PTL

\* With serial uploads, no thread is about to save a record that would take its
\* job back: no update is lost, though no lock is held and the service may be
\* killed and restarted between any two steps.
THEOREM NoUpdateIsLost == SerialUploads => (Spec => []NoStaleSave)
  <1> SUFFICES ASSUME SerialUploads PROVE Spec => []NoStaleSave
    OBVIOUS
  <1>1. ASSUME FInv, NEW t \in Threads, Saving(t)
        PROVE  Stage[th[t].rec] >= Stage[file[th[t].job].rec]
    <2>1. CASE t = Sched
      BY <1>1, <2>1 DEF FInv, TInv, LocalOK, SchedOK, DispatchOK, Dispatching, Completing,
                        Saving, Stage
    <2>2. CASE t \in Handlers
      BY <1>1, <2>2 DEF FInv, TInv, LocalOK, HandlerOK, UploadsOK, UploadOK, Saving, Stage
    <2> QED BY <2>1, <2>2 DEF Threads
  <1>2. FInv => NoStaleSave
    BY <1>1 DEF NoStaleSave, Saving
  <1>3. Spec => []FInv
    BY FilesHold
  <1> QED BY <1>2, <1>3, PTL

\* With serial uploads and no crash, no dispatch payload holds half an artifact,
\* though the upload and the dispatch share no lock.
THEOREM PayloadsAreWhole == Undisturbed => (Spec => []NoPartialPayload)
  <1> SUFFICES ASSUME Undisturbed PROVE Spec => []NoPartialPayload
    OBVIOUS
  <1>1. FInv => NoPartialPayload
    BY DEF FInv, JobOK, PayloadAt, NoPartialPayload, Undisturbed
  <1>2. Spec => []FInv
    BY FilesHold DEF Undisturbed
  <1> QED BY <1>1, <1>2, PTL

================================================================================
