------------------------- MODULE EnclaveManagerProofs -------------------------
(***************************************************************************)
(* What holds of EnclaveManager for every set of jobs, threads and targets *)
(* and every number of crashes and faults, with clients that upload        *)
(* concurrently: the types, the queue's among them, PayloadHasRequired,    *)
(* AtMostOneDispatched, AcceptedBeforeComplete, and that a torn queue.json *)
(* with nobody at it stays torn.                                           *)
(***************************************************************************)
EXTENDS EnclaveManager, WellFoundedInduction, TLAPS

Saving(t) == th[t].pc \in {"save_open", "save_flush"}
Queueing(t) == th[t].pc \in {"queue_read", "queue_open", "queue_flush"}

(***************************************************************************)
(* What a thread's place says of its local variables: the handlers and the *)
(* scheduler keep to their own places, and save only their own records.    *)
(***************************************************************************)
HandlerOK(h) ==
    /\ th[h].pc \in HandlerPCs \cup SharedPCs
    /\ Saving(h) => th[h].rec \in {"pending_upload", "queued"}
    /\ Queueing(h) \/ (Saving(h) /\ th[h].rec = "queued")
         \/ th[h].pc \in {"art_open", "art_write", "check"}
            => th[h].art \in Artifacts
    /\ th[h].pc \in {"art_open", "art_write"} => th[h].data \in {"good", "bad"}

SchedOK ==
    /\ th[Sched].pc \in SchedPCs \cup SharedPCs
    /\ Saving(Sched) => th[Sched].rec \in {"provisioned", "dispatched", "complete"}
    /\ Saving(Sched) \/ th[Sched].pc \in {"reload", "provision", "boot", "recheck",
                                         "send", "mark"}
            => th[Sched].job \in Jobs

LocalOK == SchedOK /\ \A h \in Handlers : HandlerOK(h)

TInv == StateOK /\ LocalOK

USE SchedAssumption

(***************************************************************************)
(* What a step makes of the thread that takes it: Turns(t, ...) says that  *)
(* thread t moves, no other does, and what its fields come to hold.        *)
(***************************************************************************)
Moves(t) ==
    /\ th' \in [Threads -> ThreadStates]
    /\ \A u \in Threads \ {t} : th'[u] = th[u]

Holds(s, p, j, a, d, r, e, D) ==
    /\ s.pc = p /\ s.job = j /\ s.art = a /\ s.data = d
    /\ s.rec = r /\ s.tee = e /\ s.todo = D

Turns(t, p, j, a, d, r, e, D) == Moves(t) /\ Holds(th'[t], p, j, a, d, r, e, D)

GoesTo(t, p) ==
    Turns(t, p, th[t].job, th[t].art, th[t].data, th[t].rec, th[t].tee, th[t].todo)
Saves(t, r) ==
    Turns(t, "save_open", th[t].job, th[t].art, th[t].data, r, th[t].tee, th[t].todo)
Ends(t) ==
    Turns(t, IF t = Sched THEN "sleep" ELSE "idle", Nil, Nil, Nil, Nil, Nil, {})

\* The fields of a thread.
LEMMA Fields ==
    ASSUME NEW s \in ThreadStates
    PROVE  /\ s.pc \in PCs /\ s.job \in Jobs \cup {Nil} /\ s.art \in Artifacts \cup {Nil}
           /\ s.data \in {"good", "bad", Nil} /\ s.rec \in Saved \cup {Nil}
           /\ s.tee \in Tees \cup {Nil} /\ s.todo \in SUBSET Jobs
  BY Zenon DEF ThreadStates

\* A thread at rest is a thread state.
LEMMA RestingOK ==
    ASSUME NEW t \in Threads
    PROVE  /\ Resting(t) \in ThreadStates
           /\ Holds(Resting(t), IF t = Sched THEN "sleep" ELSE "idle",
                    Nil, Nil, Nil, Nil, Nil, {})
  BY DEF Resting, Holds, ThreadStates, PCs, HandlerPCs, SchedPCs

\* A new state of thread t.
LEMMA Place ==
    ASSUME th \in [Threads -> ThreadStates], NEW t \in Threads,
           NEW s \in ThreadStates, th' = [th EXCEPT ![t] = s]
    PROVE  Moves(t) /\ th'[t] = s
  BY Zenon DEF Moves

\* A request or a tick that ends.
LEMMA Rests ==
    ASSUME th \in [Threads -> ThreadStates], NEW t \in Threads, Rest(t)
    PROVE  Ends(t)
  <1>1. Moves(t) /\ th'[t] = Resting(t)
    BY RestingOK, Place DEF Rest
  <1> QED BY <1>1, RestingOK DEF Turns, Ends

\* A thread that goes on.
LEMMA Goes ==
    ASSUME th \in [Threads -> ThreadStates], NEW t \in Threads,
           NEW p \in PCs,
           Goto(t, p)
    PROVE  GoesTo(t, p)
  <1> DEFINE s == [th[t] EXCEPT !.pc = p]
  <1>1. th' = [th EXCEPT ![t] = s]
    BY DEF Goto
  <1>2. s \in ThreadStates /\ Holds(s, p, th[t].job, th[t].art, th[t].data, th[t].rec, th[t].tee, th[t].todo)
    BY Zenon DEF ThreadStates, Holds
  <1> HIDE DEF s
  <1> QED BY <1>1, <1>2, Place DEF Turns, GoesTo

\* One that is about to save record r.
LEMMA Loads ==
    ASSUME th \in [Threads -> ThreadStates], NEW t \in Threads,
           NEW r \in Saved \cup {Nil},
           th' = [th EXCEPT ![t].pc = "save_open", ![t].rec = r]
    PROVE  Saves(t, r)
  <1> DEFINE s == [th[t] EXCEPT !.pc = "save_open", !.rec = r]
  <1>1. th' = [th EXCEPT ![t] = s]
    OBVIOUS
  <1>2. s \in ThreadStates /\ Holds(s, "save_open", th[t].job, th[t].art, th[t].data, r, th[t].tee, th[t].todo)
    BY Zenon DEF ThreadStates, Holds, PCs, SharedPCs
  <1> HIDE DEF s
  <1> QED BY <1>1, <1>2, Place DEF Turns, Saves

\* The scheduler, choosing or dropping a job.
LEMMA Chooses ==
    ASSUME th \in [Threads -> ThreadStates], NEW t \in Threads,
           NEW p \in PCs, NEW j \in Jobs \cup {Nil},
           th' = [th EXCEPT ![t].pc = p, ![t].job = j]
    PROVE  Turns(t, p, j, th[t].art, th[t].data, th[t].rec, th[t].tee, th[t].todo)
  <1> DEFINE s == [th[t] EXCEPT !.pc = p, !.job = j]
  <1>1. th' = [th EXCEPT ![t] = s]
    OBVIOUS
  <1>2. s \in ThreadStates /\ Holds(s, p, j, th[t].art, th[t].data, th[t].rec, th[t].tee, th[t].todo)
    BY Zenon DEF ThreadStates, Holds
  <1> HIDE DEF s
  <1> QED BY <1>1, <1>2, Place DEF Turns

\* A handler that creates a job.
LEMMA Creates ==
    ASSUME th \in [Threads -> ThreadStates], NEW t \in Threads,
           NEW p \in PCs, NEW j \in Jobs, NEW r \in Saved,
           th' = [th EXCEPT ![t].pc = p, ![t].job = j, ![t].rec = r]
    PROVE  Turns(t, p, j, th[t].art, th[t].data, r, th[t].tee, th[t].todo)
  <1> DEFINE s == [th[t] EXCEPT !.pc = p, !.job = j, !.rec = r]
  <1>1. th' = [th EXCEPT ![t] = s]
    OBVIOUS
  <1>2. s \in ThreadStates /\ Holds(s, p, j, th[t].art, th[t].data, r, th[t].tee, th[t].todo)
    BY Zenon DEF ThreadStates, Holds
  <1> HIDE DEF s
  <1> QED BY <1>1, <1>2, Place DEF Turns

\* A handler that starts an upload.
LEMMA Starts ==
    ASSUME th \in [Threads -> ThreadStates], NEW t \in Threads,
           NEW p \in PCs, NEW j \in Jobs, NEW a \in Artifacts, NEW d \in {"good", "bad"},
           th' = [th EXCEPT ![t].pc = p, ![t].job = j, ![t].art = a, ![t].data = d]
    PROVE  Turns(t, p, j, a, d, th[t].rec, th[t].tee, th[t].todo)
  <1> DEFINE s == [th[t] EXCEPT !.pc = p, !.job = j, !.art = a, !.data = d]
  <1>1. th' = [th EXCEPT ![t] = s]
    OBVIOUS
  <1>2. s \in ThreadStates /\ Holds(s, p, j, a, d, th[t].rec, th[t].tee, th[t].todo)
    BY Zenon DEF ThreadStates, Holds
  <1> HIDE DEF s
  <1> QED BY <1>1, <1>2, Place DEF Turns

\* The scheduler, with a list of jobs to probe.
LEMMA Scans ==
    ASSUME th \in [Threads -> ThreadStates], NEW t \in Threads,
           NEW p \in PCs, NEW D \in SUBSET Jobs,
           th' = [th EXCEPT ![t].pc = p, ![t].todo = D]
    PROVE  Turns(t, p, th[t].job, th[t].art, th[t].data, th[t].rec, th[t].tee, D)
  <1> DEFINE s == [th[t] EXCEPT !.pc = p, !.todo = D]
  <1>1. th' = [th EXCEPT ![t] = s]
    OBVIOUS
  <1>2. s \in ThreadStates /\ Holds(s, p, th[t].job, th[t].art, th[t].data, th[t].rec, th[t].tee, D)
    BY Zenon DEF ThreadStates, Holds
  <1> HIDE DEF s
  <1> QED BY <1>1, <1>2, Place DEF Turns

\* The scheduler, with a shorter one.
LEMMA Skips ==
    ASSUME th \in [Threads -> ThreadStates], NEW t \in Threads,
           NEW D \in SUBSET Jobs,
           th' = [th EXCEPT ![t].todo = D]
    PROVE  Turns(t, th[t].pc, th[t].job, th[t].art, th[t].data, th[t].rec, th[t].tee, D)
  <1> DEFINE s == [th[t] EXCEPT !.todo = D]
  <1>1. th' = [th EXCEPT ![t] = s]
    OBVIOUS
  <1>2. s \in ThreadStates /\ Holds(s, th[t].pc, th[t].job, th[t].art, th[t].data, th[t].rec, th[t].tee, D)
    BY Zenon DEF ThreadStates, Holds
  <1> HIDE DEF s
  <1> QED BY <1>1, <1>2, Place DEF Turns

\* The scheduler, at a job of that list.
LEMMA Probes ==
    ASSUME th \in [Threads -> ThreadStates], NEW t \in Threads,
           NEW p \in PCs, NEW j \in Jobs, NEW D \in SUBSET Jobs,
           th' = [th EXCEPT ![t].pc = p, ![t].job = j, ![t].todo = D]
    PROVE  Turns(t, p, j, th[t].art, th[t].data, th[t].rec, th[t].tee, D)
  <1> DEFINE s == [th[t] EXCEPT !.pc = p, !.job = j, !.todo = D]
  <1>1. th' = [th EXCEPT ![t] = s]
    OBVIOUS
  <1>2. s \in ThreadStates /\ Holds(s, p, j, th[t].art, th[t].data, th[t].rec, th[t].tee, D)
    BY Zenon DEF ThreadStates, Holds
  <1> HIDE DEF s
  <1> QED BY <1>1, <1>2, Place DEF Turns

\* The scheduler, with a target.
LEMMA Reaches ==
    ASSUME th \in [Threads -> ThreadStates], NEW t \in Threads,
           NEW p \in PCs, NEW e \in Tees,
           th' = [th EXCEPT ![t].pc = p, ![t].tee = e]
    PROVE  Turns(t, p, th[t].job, th[t].art, th[t].data, th[t].rec, e, th[t].todo)
  <1> DEFINE s == [th[t] EXCEPT !.pc = p, !.tee = e]
  <1>1. th' = [th EXCEPT ![t] = s]
    OBVIOUS
  <1>2. s \in ThreadStates /\ Holds(s, p, th[t].job, th[t].art, th[t].data, th[t].rec, e, th[t].todo)
    BY Zenon DEF ThreadStates, Holds
  <1> HIDE DEF s
  <1> QED BY <1>1, <1>2, Place DEF Turns

\* The scheduler, on with its job once it is saved.
LEMMA Proceeds ==
    ASSUME th \in [Threads -> ThreadStates], NEW t \in Threads,
           NEW p \in PCs,
           th' = [th EXCEPT ![t].pc = p, ![t].rec = Nil]
    PROVE  Turns(t, p, th[t].job, th[t].art, th[t].data, Nil, th[t].tee, th[t].todo)
  <1> DEFINE s == [th[t] EXCEPT !.pc = p, !.rec = Nil]
  <1>1. th' = [th EXCEPT ![t] = s]
    OBVIOUS
  <1>2. s \in ThreadStates /\ Holds(s, p, th[t].job, th[t].art, th[t].data, Nil, th[t].tee, th[t].todo)
    BY Zenon DEF ThreadStates, Holds
  <1> HIDE DEF s
  <1> QED BY <1>1, <1>2, Place DEF Turns

\* The scheduler, done with a job.
LEMMA Finishes ==
    ASSUME th \in [Threads -> ThreadStates], NEW t \in Threads,
           NEW p \in PCs,
           th' = [th EXCEPT ![t].pc = p, ![t].rec = Nil, ![t].job = Nil]
    PROVE  Turns(t, p, Nil, th[t].art, th[t].data, Nil, th[t].tee, th[t].todo)
  <1> DEFINE s == [th[t] EXCEPT !.pc = p, !.rec = Nil, !.job = Nil]
  <1>1. th' = [th EXCEPT ![t] = s]
    OBVIOUS
  <1>2. s \in ThreadStates /\ Holds(s, p, Nil, th[t].art, th[t].data, Nil, th[t].tee, th[t].todo)
    BY Zenon DEF ThreadStates, Holds
  <1> HIDE DEF s
  <1> QED BY <1>1, <1>2, Place DEF Turns

\* The type invariant holds when the service starts for the first time.
LEMMA TInit == Init => TInv
  <1> SUFFICES ASSUME Init PROVE TInv
    OBVIOUS
  <1>1. th \in [Threads -> ThreadStates]
    BY RestingOK DEF Init
  <1>2. StateOK
    BY <1>1, BoundsAssumption DEF Init, StateOK, Texts, Contents, Copy
  <1>3. LocalOK
    BY DEF Init, LocalOK, SchedOK, HandlerOK, Resting, Threads, Saving, Queueing,
           HandlerPCs, SchedPCs, SharedPCs
  <1> QED BY <1>2, <1>3 DEF TInv

(***************************************************************************)
(* A step of one thread keeps the places of the others.                    *)
(***************************************************************************)
LEMMA OtherThreads ==
    ASSUME TInv, NEW t \in Threads, Moves(t)
    PROVE  /\ \A h \in Handlers \ {t} : HandlerOK(h)'
           /\ t # Sched => SchedOK'
  <1>1. \A u \in Threads \ {t} : th'[u] = th[u]
    BY DEF Moves
  <1>2. ASSUME NEW h \in Handlers \ {t} PROVE HandlerOK(h)'
    <2>1. th'[h] = th[h] /\ HandlerOK(h)
      BY <1>1 DEF TInv, LocalOK, Threads
    <2> QED BY <2>1 DEF HandlerOK, Saving, Queueing
  <1>3. t # Sched => SchedOK'
    BY <1>1 DEF TInv, LocalOK, SchedOK, Saving, Threads
  <1> QED BY <1>2, <1>3

\* OtherThreads for a handler: only its own place is at stake.
LEMMA HandlerMoves ==
    ASSUME TInv, NEW h \in Handlers, Moves(h), HandlerOK(h)'
    PROVE  th' \in [Threads -> ThreadStates] /\ LocalOK'
  <1>1. h \in Threads /\ h # Sched
    BY DEF Threads
  <1> QED BY <1>1, OtherThreads DEF LocalOK, Moves

\* OtherThreads for the scheduler thread.
LEMMA SchedMoves ==
    ASSUME TInv, Moves(Sched), SchedOK'
    PROVE  th' \in [Threads -> ThreadStates] /\ LocalOK'
  BY OtherThreads DEF LocalOK, Threads, Moves

(***************************************************************************)
(* The steps of a handler, one by one: what becomes of its place ...       *)
(***************************************************************************)
LEMMA HandlerTurns ==
    ASSUME TInv, NEW h \in Handlers
    PROVE  /\ \A j \in Jobs, c \in Commitments : Create(h, j, c) =>
                Turns(h, "save_open", j, th[h].art, th[h].data, "pending_upload",
                      th[h].tee, th[h].todo)
           /\ \A j \in Jobs, a \in Artifacts : StartUpload(h, j, a) =>
                \E d \in {"good", "bad"} :
                    Turns(h, "art_open", j, a, d, th[h].rec, th[h].tee, th[h].todo)
           /\ ArtifactOpen(h) => GoesTo(h, "art_write")
           /\ ArtifactWrite(h) => IF th[h].data = "bad" THEN Ends(h) ELSE GoesTo(h, "check")
           /\ CheckComplete(h) =>
                Saves(h, IF AllRequired(th[h].job) THEN "queued" ELSE "pending_upload")
           /\ SaveFlush(h) =>
                \/ th[h].rec = "pending_upload" /\ Ends(h)
                \/ th[h].rec = "queued" /\ GoesTo(h, "queue_read")
  <1> h \in Threads /\ h # Sched
    BY DEF Threads
  <1>0. th \in [Threads -> ThreadStates] /\ HandlerOK(h)
    BY DEF TInv, StateOK, LocalOK
  <1>p. /\ {"art_open", "art_write", "check", "save_open", "queue_read"} \subseteq PCs
        /\ {"queued", "pending_upload"} \subseteq Saved
    BY DEF PCs, HandlerPCs, SharedPCs, Saved
  <1>1. ASSUME NEW j \in Jobs, NEW c \in Commitments, Create(h, j, c)
        PROVE  Turns(h, "save_open", j, th[h].art, th[h].data, "pending_upload",
                     th[h].tee, th[h].todo)
    BY <1>0, <1>p, <1>1, Creates DEF Create
  <1>2. ASSUME NEW j \in Jobs, NEW a \in Artifacts, StartUpload(h, j, a)
        PROVE  \E d \in {"good", "bad"} :
                   Turns(h, "art_open", j, a, d, th[h].rec, th[h].tee, th[h].todo)
    <2>1. ASSUME NEW d \in {"good", "bad"},
                 th' = [th EXCEPT ![h].pc = "art_open", ![h].job = j, ![h].art = a,
                                  ![h].data = d]
          PROVE  Turns(h, "art_open", j, a, d, th[h].rec, th[h].tee, th[h].todo)
      BY <1>0, <1>p, <2>1, Starts
    <2>2. Arriving(j, a) \subseteq {"good", "bad"}
      BY DEF Arriving
    <2> QED BY <1>2, <2>1, <2>2 DEF StartUpload
  <1>3. ArtifactOpen(h) => GoesTo(h, "art_write")
    BY <1>0, <1>p, Goes DEF ArtifactOpen
  <1>4. ArtifactWrite(h) => IF th[h].data = "bad" THEN Ends(h) ELSE GoesTo(h, "check")
    BY <1>0, <1>p, Goes, Rests DEF ArtifactWrite
  <1>5. CheckComplete(h) =>
          Saves(h, IF AllRequired(th[h].job) THEN "queued" ELSE "pending_upload")
    <2>1. (IF AllRequired(th[h].job) THEN "queued" ELSE "pending_upload") \in Saved \cup {Nil}
      BY <1>p
    <2> HIDE DEF AllRequired
    <2> QED BY <1>0, <2>1, Loads DEF CheckComplete
  <1>6. ASSUME SaveFlush(h)
        PROVE  \/ th[h].rec = "pending_upload" /\ Ends(h)
               \/ th[h].rec = "queued" /\ GoesTo(h, "queue_read")
    <2>1. th' = [th EXCEPT ![h] = AfterSave(h)]
      BY <1>6 DEF SaveFlush
    <2>2. th[h].rec \in {"pending_upload", "queued"}
      BY <1>0, <1>6 DEF SaveFlush, HandlerOK, Saving
    <2>3. CASE th[h].rec = "pending_upload"
      <3>1. Rest(h)
        BY <2>1, <2>3 DEF AfterSave, Rest
      <3> QED BY <1>0, <2>3, <3>1, Rests
    <2>4. CASE th[h].rec = "queued"
      <3>1. Goto(h, "queue_read")
        BY <2>1, <2>4 DEF AfterSave, Goto
      <3> QED BY <1>0, <1>p, <2>4, <3>1, Goes
    <2> QED BY <2>2, <2>3, <2>4
  <1> QED BY <1>1, <1>2, <1>3, <1>4, <1>5, <1>6

\* The steps that every thread can take.
LEMMA SharedTurns ==
    ASSUME TInv, NEW t \in Threads
    PROVE  /\ SaveOpen(t) => GoesTo(t, "save_flush")
           /\ QueueRead(t) => GoesTo(t, "queue_open")
           /\ QueueReadRaises(t) => Ends(t)
           /\ QueueOpen(t) => GoesTo(t, "queue_flush")
           /\ QueueFlush(t) => Ends(t)
  <1>0. th \in [Threads -> ThreadStates]
    BY DEF TInv, StateOK
  <1>p. {"save_flush", "queue_open", "queue_flush"} \subseteq PCs
    BY DEF PCs, SharedPCs
  <1>1. SaveOpen(t) => GoesTo(t, "save_flush")
    BY <1>0, <1>p, Goes DEF SaveOpen
  <1>2. QueueRead(t) => GoesTo(t, "queue_open")
    BY <1>0, <1>p, Goes DEF QueueRead
  <1>3. QueueReadRaises(t) => Ends(t)
    BY <1>0, Rests DEF QueueReadRaises
  <1>4. QueueOpen(t) => GoesTo(t, "queue_flush")
    BY <1>0, <1>p, Goes DEF QueueOpen
  <1>5. QueueFlush(t) => Ends(t)
    BY <1>0, Rests DEF QueueFlush
  <1> QED BY <1>1, <1>2, <1>3, <1>4, <1>5

(***************************************************************************)
(* ... and that the types hold after it.                                   *)
(***************************************************************************)
LEMMA HandlerTypes ==
    ASSUME TInv, NEW h \in Handlers, Handler(h)
    PROVE  TInv'
  <1> h \in Threads /\ h # Sched
    BY DEF Threads
  <1>0. /\ HandlerOK(h) /\ th[h] \in ThreadStates
        /\ file \in [Jobs -> Texts] /\ commit \in [Jobs -> SUBSET Artifacts]
        /\ art \in [Jobs -> [Artifacts -> Copy]]
        /\ assigned \in [Jobs -> Tees \cup {Nil}] /\ acked \in [Jobs -> SUBSET Artifacts]
    BY DEF TInv, StateOK, LocalOK
  <1> DEFINE Placed == Moves(h) /\ HandlerOK(h)'
  <1> SUFFICES /\ Placed
               /\ file' \in [Jobs -> Texts]
               /\ commit' \in [Jobs -> SUBSET Artifacts]
               /\ art' \in [Jobs -> [Artifacts -> Copy]]
               /\ assigned' \in [Jobs -> Tees \cup {Nil}]
               /\ acked' \in [Jobs -> SUBSET Artifacts]
               /\ UNCHANGED <<outgoing, tees, accepted, delivered, faults>>
    BY HandlerMoves DEF TInv, StateOK, tees
  <1>e. Ends(h) => Placed
    BY DEF Ends, Turns, Holds, HandlerOK, Saving, Queueing, HandlerPCs
  <1>1. ASSUME NEW j \in Jobs, NEW c \in Commitments, Create(h, j, c)
        PROVE  Placed /\ commit' \in [Jobs -> SUBSET Artifacts]
    <2>1. Placed
      BY <1>1, HandlerTurns DEF Turns, Holds, HandlerOK, Saving, Queueing, SharedPCs
    <2>2. commit' \in [Jobs -> SUBSET Artifacts]
      BY <1>0, <1>1, CommitmentsAssumption DEF Create
    <2> QED BY <2>1, <2>2
  <1>2. ASSUME NEW j \in Jobs, NEW a \in Artifacts, StartUpload(h, j, a)
        PROVE  Placed
    BY <1>2, HandlerTurns DEF Turns, Holds, HandlerOK, Saving, Queueing, HandlerPCs
  <1>3. ASSUME ArtifactOpen(h)
        PROVE  Placed /\ art' \in [Jobs -> [Artifacts -> Copy]]
    <2>1. Placed
      <3>1. th[h].pc = "art_open"
        BY <1>3 DEF ArtifactOpen
      <3> QED BY <1>0, <1>3, <3>1, HandlerTurns
              DEF GoesTo, Turns, Holds, HandlerOK, Saving, Queueing, HandlerPCs
    <2>2. art' \in [Jobs -> [Artifacts -> Copy]]
      BY <1>0, <1>3 DEF ArtifactOpen, Copy
    <2> QED BY <2>1, <2>2
  <1>4. ASSUME ArtifactWrite(h)
        PROVE  Placed /\ art' \in [Jobs -> [Artifacts -> Copy]]
    <2>1. th[h].pc = "art_write" /\ th[h].data \in Copy
      BY <1>0, <1>4 DEF ArtifactWrite, HandlerOK, Copy
    <2>2. Placed
      BY <1>0, <1>4, <1>e, <2>1, HandlerTurns
      DEF GoesTo, Turns, Holds, HandlerOK, Saving, Queueing, HandlerPCs
    <2>3. art' \in [Jobs -> [Artifacts -> Copy]]
      BY <1>0, <1>4, <2>1 DEF ArtifactWrite
    <2> QED BY <2>2, <2>3
  <1>5. ASSUME CheckComplete(h)
        PROVE  Placed
    <2>1. th[h].pc = "check"
      BY <1>5 DEF CheckComplete
    <2> QED BY <1>0, <1>5, <2>1, HandlerTurns
            DEF Saves, Turns, Holds, HandlerOK, Saving, Queueing, SharedPCs
  <1>6. ASSUME SaveOpen(h)
        PROVE  Placed /\ file' \in [Jobs -> Texts]
    <2>1. Placed
      <3>1. th[h].pc = "save_open"
        BY <1>6 DEF SaveOpen
      <3> QED BY <1>0, <1>6, <3>1, SharedTurns
              DEF GoesTo, Turns, Holds, HandlerOK, Saving, Queueing, SharedPCs
    <2>2. file' \in [Jobs -> Texts]
      BY <1>0, <1>6 DEF SaveOpen, Texts, Contents
    <2> QED BY <2>1, <2>2
  <1>7. ASSUME SaveFlush(h)
        PROVE  /\ Placed
               /\ file' \in [Jobs -> Texts]
               /\ assigned' \in [Jobs -> Tees \cup {Nil}]
               /\ acked' \in [Jobs -> SUBSET Artifacts]
    <2>1. th[h].rec \in {"pending_upload", "queued"} /\ th[h].pc = "save_flush"
      BY <1>0, <1>7 DEF SaveFlush, HandlerOK, Saving
    <2>2. Placed
      BY <1>0, <1>7, <1>e, <2>1, HandlerTurns
      DEF GoesTo, Turns, Holds, HandlerOK, Saving, Queueing, SharedPCs
    <2>3. file' \in [Jobs -> Texts]
      BY <1>0, <1>7, <2>1 DEF SaveFlush, Overwrite, Texts, Contents, Saved
    <2>4. assigned' \in [Jobs -> Tees \cup {Nil}]
      BY <1>0, <1>7, <2>1 DEF SaveFlush
    <2>5. acked' \in [Jobs -> SUBSET Artifacts]
      BY <1>0, <1>7, Fields DEF SaveFlush
    <2> QED BY <2>2, <2>3, <2>4, <2>5
  <1>8. ASSUME QueueRead(h) \/ QueueReadRaises(h) \/ QueueOpen(h)
        PROVE  Placed
    <2>1. th[h].pc \in {"queue_read", "queue_open"}
      BY <1>8 DEF QueueRead, QueueReadRaises, QueueOpen
    <2> QED BY <1>0, <1>8, <1>e, <2>1, SharedTurns
            DEF GoesTo, Turns, Holds, HandlerOK, Saving, Queueing, SharedPCs
  <1>9. ASSUME QueueFlush(h)
        PROVE  Placed /\ acked' \in [Jobs -> SUBSET Artifacts]
    <2>1. Placed
      BY <1>9, <1>e, SharedTurns
    <2>2. acked' \in [Jobs -> SUBSET Artifacts]
      <3>1. th[h].art \in Artifacts
        BY <1>0, <1>9 DEF QueueFlush, HandlerOK, Queueing
      <3> QED BY <1>0, <1>9, <3>1 DEF QueueFlush
    <2> QED BY <2>1, <2>2
  <1> HIDE DEF Placed
  <1> QED
    BY <1>0, <1>1, <1>2, <1>3, <1>4, <1>5, <1>6, <1>7, <1>8, <1>9
    DEF Handler, HandlerSteps, SaveAndQueue, Create, StartUpload, ArtifactOpen,
        ArtifactWrite, CheckComplete, SaveOpen, SaveFlush, QueueRead,
        QueueReadRaises, QueueOpen, QueueFlush, disk, tees, history

(***************************************************************************)
(* The steps of the scheduler, one by one: what becomes of its place ...   *)
(***************************************************************************)
LEMMA SchedTurns ==
    ASSUME TInv
    PROVE  /\ \A old \in SUBSET Jobs : Cleanup(old) => GoesTo(Sched, "finalize_scan")
           /\ FinalizeScan =>
                Turns(Sched, "finalize", th[Sched].job, th[Sched].art, th[Sched].data,
                      th[Sched].rec, th[Sched].tee, Dispatched)
           /\ FinalizeDone => GoesTo(Sched, "busy_scan")
           /\ Reload =>
                IF StatusIs(th[Sched].job, "dispatched") THEN Saves(Sched, "complete")
                ELSE Turns(Sched, "finalize", Nil, th[Sched].art, th[Sched].data,
                           th[Sched].rec, th[Sched].tee, th[Sched].todo)
           /\ \A j \in Jobs : ProbeAlive(j) =>
                Turns(Sched, th[Sched].pc, th[Sched].job, th[Sched].art, th[Sched].data,
                      th[Sched].rec, th[Sched].tee, th[Sched].todo \ {j})
           /\ \A j \in Jobs : ProbeDead(j) =>
                Turns(Sched, "reload", j, th[Sched].art, th[Sched].data,
                      th[Sched].rec, th[Sched].tee, th[Sched].todo \ {j})
           /\ \A j \in Jobs : Pick(j) =>
                Turns(Sched, "provision", j, th[Sched].art, th[Sched].data,
                      th[Sched].rec, th[Sched].tee, th[Sched].todo)
           /\ BusyScan => IF Dispatched = {} THEN GoesTo(Sched, "pick") ELSE Ends(Sched)
           /\ ProvisionSave => Saves(Sched, "provisioned")
           /\ NotBooted => GoesTo(Sched, "provision")
           /\ \A e \in Tees : Booted(e) =>
                Turns(Sched, "recheck", th[Sched].job, th[Sched].art, th[Sched].data,
                      th[Sched].rec, e, th[Sched].todo)
           /\ Recheck => GoesTo(Sched, "send")
           /\ \A ok \in BOOLEAN : Send(ok) =>
                IF ok THEN GoesTo(Sched, "mark") ELSE Ends(Sched)
           /\ MarkLoad => Saves(Sched, "dispatched")
           /\ GiveUp => Ends(Sched)
           /\ SaveFlush(Sched) =>
                \/ th[Sched].rec = "dispatched" /\ GoesTo(Sched, "queue_read")
                \/ /\ th[Sched].rec = "provisioned"
                   /\ Turns(Sched, "boot", th[Sched].job, th[Sched].art, th[Sched].data,
                            Nil, th[Sched].tee, th[Sched].todo)
                \/ /\ th[Sched].rec = "complete"
                   /\ Turns(Sched, "finalize", Nil, th[Sched].art, th[Sched].data,
                            Nil, th[Sched].tee, th[Sched].todo)
  <1> Sched \in Threads
    BY DEF Threads
  <1>0. /\ th \in [Threads -> ThreadStates] /\ SchedOK /\ th[Sched] \in ThreadStates
        /\ \A j \in Jobs : th[Sched].todo \ {j} \in SUBSET Jobs
    BY Fields DEF TInv, StateOK, LocalOK
  <1>p. /\ {"finalize_scan", "finalize", "busy_scan", "reload", "provision", "pick", "boot",
            "recheck", "send", "mark", "queue_read"} \subseteq PCs
        /\ {"complete", "provisioned", "dispatched"} \subseteq Saved
    BY DEF PCs, SchedPCs, SharedPCs, Saved
  <1>1. ASSUME NEW old \in SUBSET Jobs, Cleanup(old)
        PROVE  GoesTo(Sched, "finalize_scan")
    BY <1>0, <1>p, <1>1, Goes DEF Cleanup
  <1>2. FinalizeScan =>
          Turns(Sched, "finalize", th[Sched].job, th[Sched].art, th[Sched].data,
                th[Sched].rec, th[Sched].tee, Dispatched)
    <2>1. Dispatched \in SUBSET Jobs
      BY DEF Dispatched
    <2> QED BY <1>0, <1>p, <2>1, Scans DEF FinalizeScan
  <1>3. FinalizeDone => GoesTo(Sched, "busy_scan")
    BY <1>0, <1>p, Goes DEF FinalizeDone
  <1>4. Reload =>
          IF StatusIs(th[Sched].job, "dispatched") THEN Saves(Sched, "complete")
          ELSE Turns(Sched, "finalize", Nil, th[Sched].art, th[Sched].data,
                     th[Sched].rec, th[Sched].tee, th[Sched].todo)
    BY <1>0, <1>p, Loads, Chooses DEF Reload
  <1>5. ASSUME NEW j \in Jobs, ProbeAlive(j)
        PROVE  Turns(Sched, th[Sched].pc, th[Sched].job, th[Sched].art, th[Sched].data,
                     th[Sched].rec, th[Sched].tee, th[Sched].todo \ {j})
    BY <1>0, <1>5, Skips DEF ProbeAlive
  <1>6. ASSUME NEW j \in Jobs, ProbeDead(j)
        PROVE  Turns(Sched, "reload", j, th[Sched].art, th[Sched].data,
                     th[Sched].rec, th[Sched].tee, th[Sched].todo \ {j})
    BY <1>0, <1>p, <1>6, Probes DEF ProbeDead
  <1>7. ASSUME NEW j \in Jobs, Pick(j)
        PROVE  Turns(Sched, "provision", j, th[Sched].art, th[Sched].data,
                     th[Sched].rec, th[Sched].tee, th[Sched].todo)
    BY <1>0, <1>p, <1>7, Chooses DEF Pick
  <1>8. BusyScan => IF Dispatched = {} THEN GoesTo(Sched, "pick") ELSE Ends(Sched)
    BY <1>0, <1>p, Goes, Rests DEF BusyScan
  <1>9. ProvisionSave => Saves(Sched, "provisioned")
    BY <1>0, <1>p, Loads DEF ProvisionSave
  <1>10. NotBooted => GoesTo(Sched, "provision")
    BY <1>0, <1>p, Goes DEF NotBooted
  <1>11. ASSUME NEW e \in Tees, Booted(e)
         PROVE  Turns(Sched, "recheck", th[Sched].job, th[Sched].art, th[Sched].data,
                      th[Sched].rec, e, th[Sched].todo)
    BY <1>0, <1>p, <1>11, Reaches DEF Booted
  <1>12. Recheck => GoesTo(Sched, "send")
    BY <1>0, <1>p, Goes DEF Recheck
  <1>13. ASSUME NEW ok \in BOOLEAN, Send(ok)
         PROVE  IF ok THEN GoesTo(Sched, "mark") ELSE Ends(Sched)
    BY <1>0, <1>p, <1>13, Goes, Rests DEF Send
  <1>14. MarkLoad => Saves(Sched, "dispatched")
    BY <1>0, <1>p, Loads DEF MarkLoad
  <1>15. GiveUp => Ends(Sched)
    BY <1>0, Rests DEF GiveUp
  <1>16. ASSUME SaveFlush(Sched)
         PROVE  \/ th[Sched].rec = "dispatched" /\ GoesTo(Sched, "queue_read")
                \/ /\ th[Sched].rec = "provisioned"
                   /\ Turns(Sched, "boot", th[Sched].job, th[Sched].art, th[Sched].data,
                            Nil, th[Sched].tee, th[Sched].todo)
                \/ /\ th[Sched].rec = "complete"
                   /\ Turns(Sched, "finalize", Nil, th[Sched].art, th[Sched].data,
                            Nil, th[Sched].tee, th[Sched].todo)
    <2>1. th' = [th EXCEPT ![Sched] = AfterSave(Sched)]
      BY <1>16 DEF SaveFlush
    <2>2. th[Sched].rec \in {"provisioned", "dispatched", "complete"}
      BY <1>0, <1>16 DEF SaveFlush, SchedOK, Saving
    <2>3. CASE th[Sched].rec = "dispatched"
      <3>1. Goto(Sched, "queue_read")
        BY <2>1, <2>3 DEF AfterSave, Goto
      <3> QED BY <1>0, <1>p, <2>3, <3>1, Goes
    <2>4. CASE th[Sched].rec = "provisioned"
      <3>1. th' = [th EXCEPT ![Sched].pc = "boot", ![Sched].rec = Nil]
        BY <2>1, <2>4 DEF AfterSave
      <3> QED BY <1>0, <1>p, <2>4, <3>1, Proceeds
    <2>5. CASE th[Sched].rec = "complete"
      <3>1. th' = [th EXCEPT ![Sched].pc = "finalize", ![Sched].rec = Nil,
                             ![Sched].job = Nil]
        BY <2>1, <2>5 DEF AfterSave
      <3> QED BY <1>0, <1>p, <2>5, <3>1, Finishes
    <2> QED BY <2>2, <2>3, <2>4, <2>5
  <1> QED BY <1>1, <1>2, <1>3, <1>4, <1>5, <1>6, <1>7, <1>8, <1>9, <1>10, <1>11,
             <1>12, <1>13, <1>14, <1>15, <1>16

(***************************************************************************)
(* ... and that the types hold after it.                                   *)
(***************************************************************************)
LEMMA SchedulerTypes ==
    ASSUME TInv, Scheduler
    PROVE  TInv'
  <1> Sched \in Threads
    BY DEF Threads
  <1> DEFINE Faults == [crash : 0..MaxCrashes, lost : 0..MaxLostReplies,
                        tee : 0..MaxTeeCrashes, probe : 0..MaxFalseProbes]
             Placed == Moves(Sched) /\ SchedOK'
  <1>0. /\ SchedOK /\ th[Sched] \in ThreadStates
        /\ file \in [Jobs -> Texts]
        /\ art \in [Jobs -> [Artifacts -> Copy]]
        /\ outgoing \in [Jobs -> [Artifacts -> Copy] \cup {Nil}]
        /\ assigned \in [Jobs -> Tees \cup {Nil}]
        /\ up \in SUBSET Tees
        /\ running \in [Tees -> SUBSET Jobs]
        /\ accepted \in [Jobs -> 0..2]
        /\ acked \in [Jobs -> SUBSET Artifacts]
        /\ faults \in Faults
    BY DEF TInv, StateOK, LocalOK
  <1> SUFFICES /\ Placed
               /\ file' \in [Jobs -> Texts]
               /\ art' \in [Jobs -> [Artifacts -> Copy]]
               /\ outgoing' \in [Jobs -> [Artifacts -> Copy] \cup {Nil}]
               /\ assigned' \in [Jobs -> Tees \cup {Nil}]
               /\ up' \in SUBSET Tees
               /\ running' \in [Tees -> SUBSET Jobs]
               /\ accepted' \in [Jobs -> 0..2]
               /\ acked' \in [Jobs -> SUBSET Artifacts]
               /\ faults' \in Faults
               /\ UNCHANGED <<commit, delivered>>
    BY SchedMoves DEF TInv, StateOK
  <1>e. Ends(Sched) => Placed
    BY DEF Ends, Turns, Holds, SchedOK, Saving, SchedPCs
  \* A step that ends where no job is needed.
  <1>n. ASSUME Moves(Sched),
               th'[Sched].pc \in {"finalize_scan", "finalize", "busy_scan", "pick",
                                  "queue_read", "queue_open", "queue_flush"}
        PROVE  Placed
    BY <1>n DEF SchedOK, Saving, SchedPCs, SharedPCs
  \* A step that ends where one is.
  <1>j. ASSUME Moves(Sched), th'[Sched].job \in Jobs,
               \/ th'[Sched].pc \in {"reload", "provision", "boot", "recheck", "send", "mark"}
               \/ /\ th'[Sched].pc \in {"save_open", "save_flush"}
                  /\ th'[Sched].rec \in {"provisioned", "dispatched", "complete"}
        PROVE  Placed
    BY <1>j DEF SchedOK, Saving, SchedPCs, SharedPCs
  <1>h. th[Sched].pc \in {"reload", "provision", "boot", "recheck", "send", "mark",
                         "save_open", "save_flush"} => th[Sched].job \in Jobs
    BY <1>0 DEF SchedOK, Saving
  <1> HIDE DEF Placed
  <1>1. ASSUME NEW old \in SUBSET Jobs, Cleanup(old)
        PROVE  /\ Placed
               /\ file' \in [Jobs -> Texts]
               /\ art' \in [Jobs -> [Artifacts -> Copy]]
    <2>1. Placed
      BY <1>1, <1>n, SchedTurns DEF GoesTo, Turns, Holds
    <2>2. file' \in [Jobs -> Texts]
      BY <1>0, <1>1 DEF Cleanup, Texts, Contents
    <2>3. art' \in [Jobs -> [Artifacts -> Copy]]
      BY <1>0, <1>1 DEF Cleanup, Copy
    <2> QED BY <2>1, <2>2, <2>3
  <1>2. FinalizeScan \/ FinalizeDone => Placed
    BY <1>n, SchedTurns DEF GoesTo, Turns, Holds
  <1>3. Reload => Placed
    <2>1. Reload => th[Sched].pc = "reload"
      BY DEF Reload
    <2> QED BY <1>n, <1>j, <1>h, <2>1, SchedTurns DEF Saves, Turns, Holds
  <1>4. ASSUME NEW j \in Jobs, ProbeAlive(j) \/ Pick(j)
        PROVE  Placed
    <2>1. CASE ProbeAlive(j)
      <3>1. th[Sched].pc = "finalize"
        BY <2>1 DEF ProbeAlive
      <3> QED BY <1>n, <2>1, <3>1, SchedTurns DEF Turns, Holds
    <2>2. CASE Pick(j)
      BY <1>j, <2>2, SchedTurns DEF Turns, Holds
    <2> QED BY <1>4, <2>1, <2>2
  <1>5. ASSUME NEW j \in Jobs, ProbeDead(j)
        PROVE  Placed /\ faults' \in Faults
    <2>1. Placed
      BY <1>j, <1>5, SchedTurns DEF Turns, Holds
    <2>2. PICK n \in {0, 1} : /\ faults.probe + n <= MaxFalseProbes
                             /\ faults' = [faults EXCEPT !.probe = @ + n]
      BY <1>5 DEF ProbeDead
    <2>3. faults.probe + n \in 0..MaxFalseProbes
      <3>1. MaxFalseProbes \in Nat /\ faults.probe \in 0..MaxFalseProbes
        BY <1>0, BoundsAssumption
      <3> QED BY <3>1, <2>2
    <2> QED BY <1>0, <2>1, <2>2, <2>3
  <1>6. BusyScan => Placed
    BY <1>n, <1>e, SchedTurns DEF GoesTo, Turns, Holds
  <1>7. ProvisionSave \/ MarkLoad \/ NotBooted => Placed
    <2>1. ProvisionSave \/ MarkLoad \/ NotBooted => th[Sched].pc \in {"provision", "mark", "boot"}
      BY DEF ProvisionSave, MarkLoad, NotBooted
    <2> QED BY <1>j, <1>h, <2>1, SchedTurns DEF Saves, GoesTo, Turns, Holds
  <1>8. Recheck => Placed /\ outgoing' \in [Jobs -> [Artifacts -> Copy] \cup {Nil}]
    <2>1. Recheck => th[Sched].pc = "recheck"
      BY DEF Recheck
    <2>2. Recheck => Placed
      BY <1>j, <1>h, <2>1, SchedTurns DEF GoesTo, Turns, Holds
    <2>3. Recheck => outgoing' \in [Jobs -> [Artifacts -> Copy] \cup {Nil}]
      BY <1>0 DEF Recheck, Payload
    <2> QED BY <2>2, <2>3
  <1>9. ASSUME NEW e \in Tees, Booted(e)
        PROVE  Placed /\ up' \in SUBSET Tees
    <2>1. th[Sched].pc = "boot" /\ up' = up \cup {e}
      BY <1>9 DEF Booted
    <2>2. Placed
      BY <1>j, <1>h, <1>9, <2>1, SchedTurns DEF Turns, Holds
    <2> QED BY <1>0, <2>1, <2>2
  <1>10. ASSUME NEW ok \in BOOLEAN, Send(ok)
         PROVE  /\ Placed
                /\ running' \in [Tees -> SUBSET Jobs]
                /\ accepted' \in [Jobs -> 0..2]
                /\ faults' \in Faults
    <2>1. th[Sched].pc = "send" /\ th[Sched].job \in Jobs
      BY <1>10, <1>h DEF Send
    <2>2. Placed
      BY <1>j, <1>e, <1>10, <2>1, SchedTurns DEF GoesTo, Turns, Holds
    <2>3. running' \in [Tees -> SUBSET Jobs]
      BY <1>0, <1>10, <2>1 DEF Send
    <2>4. accepted' \in [Jobs -> 0..2]
      <3>1. accepted' = [accepted EXCEPT ![th[Sched].job] = IF @ < 2 THEN @ + 1 ELSE 2]
        BY <1>10 DEF Send
      <3>2. \A n \in 0..2 : (IF n < 2 THEN n + 1 ELSE 2) \in 0..2
        OBVIOUS
      <3>3. accepted[th[Sched].job] \in 0..2
        BY <1>0, <2>1
      <3> QED BY <1>0, <3>1, <3>2, <3>3
    <2>5. PICK n \in {0, 1} : /\ faults.lost + n <= MaxLostReplies
                             /\ faults' = [faults EXCEPT !.lost = @ + n]
      BY <1>10 DEF Send
    <2>6. faults.lost + n \in 0..MaxLostReplies
      <3>1. MaxLostReplies \in Nat /\ faults.lost \in 0..MaxLostReplies
        BY <1>0, BoundsAssumption
      <3> QED BY <3>1, <2>5
    <2> QED BY <1>0, <2>2, <2>3, <2>4, <2>5, <2>6
  <1>11. GiveUp \/ QueueReadRaises(Sched) \/ QueueFlush(Sched) => Placed
    BY <1>e, SchedTurns, SharedTurns
  <1>12. QueueRead(Sched) \/ QueueOpen(Sched) => Placed
    BY <1>n, SharedTurns DEF GoesTo, Turns, Holds
  <1>13. ASSUME SaveOpen(Sched)
         PROVE  Placed /\ file' \in [Jobs -> Texts]
    <2>1. th[Sched].pc = "save_open"
      BY <1>13 DEF SaveOpen
    <2>2. th[Sched].rec \in {"provisioned", "dispatched", "complete"}
      BY <1>0, <2>1 DEF SchedOK, Saving
    <2>3. Placed
      BY <1>j, <1>h, <1>13, <2>1, <2>2, SharedTurns DEF GoesTo, Turns, Holds
    <2>4. file' \in [Jobs -> Texts]
      BY <1>0, <1>13 DEF SaveOpen, Texts, Contents
    <2> QED BY <2>3, <2>4
  <1>14. ASSUME SaveFlush(Sched)
         PROVE  /\ Placed
                /\ file' \in [Jobs -> Texts]
                /\ assigned' \in [Jobs -> Tees \cup {Nil}]
                /\ acked' \in [Jobs -> SUBSET Artifacts]
    <2>1. /\ th[Sched].pc = "save_flush" /\ th[Sched].job \in Jobs
          /\ th[Sched].rec \in {"provisioned", "dispatched", "complete"}
      BY <1>0, <1>14, <1>h DEF SaveFlush, SchedOK, Saving
    <2>2. Placed
      BY <1>j, <1>n, <1>14, <2>1, SchedTurns DEF GoesTo, Turns, Holds
    <2>3. file' \in [Jobs -> Texts]
      BY <1>0, <1>14, <2>1 DEF SaveFlush, Overwrite, Texts, Contents, Saved
    <2>4. assigned' \in [Jobs -> Tees \cup {Nil}]
      BY <1>0, <1>14, Fields DEF SaveFlush
    <2>5. acked' = acked
      BY <1>14, <2>1 DEF SaveFlush
    <2> QED BY <1>0, <2>2, <2>3, <2>4, <2>5
  <1> HIDE DEF Faults
  <1> QED
    BY <1>0, <1>1, <1>2, <1>3, <1>4, <1>5, <1>6, <1>7, <1>8, <1>9, <1>10, <1>11,
       <1>12, <1>13, <1>14
    DEF Scheduler, SaveAndQueue, Cleanup, FinalizeScan, FinalizeDone, Reload,
        ProbeAlive, Pick, ProbeDead, BusyScan, ProvisionSave, NotBooted,
        MarkLoad, Recheck, Booted, Send, GiveUp, SaveOpen, SaveFlush,
        QueueRead, QueueOpen, QueueReadRaises, QueueFlush, disk, tees, history

\* Crashes and Processing TEEs keep the types.
LEMMA EnvironmentTypes ==
    ASSUME TInv, Environment
    PROVE  TInv'
  <1> USE DEF disk, tees, history
  <1>1. ASSUME Crash
        PROVE  TInv'
    <2>1. th' \in [Threads -> ThreadStates]
      BY <1>1, RestingOK DEF Crash
    <2>2. faults' \in [crash : 0..MaxCrashes, lost : 0..MaxLostReplies,
                       tee : 0..MaxTeeCrashes, probe : 0..MaxFalseProbes]
      BY <1>1, BoundsAssumption DEF Crash, TInv, StateOK
    <2>3. LocalOK'
      BY <1>1 DEF Crash, LocalOK, SchedOK, HandlerOK, Resting, Threads, Saving,
                  Queueing, HandlerPCs, SchedPCs, SharedPCs
    <2> QED BY <1>1, <2>1, <2>2, <2>3 DEF Crash, TInv, StateOK
  <1>2. ASSUME UNCHANGED th
        PROVE  LocalOK'
    BY <1>2 DEF TInv, LocalOK, SchedOK, HandlerOK, Saving, Queueing
  <1>3. ASSUME NEW e \in Tees, TeeFinish(e)
        PROVE  TInv'
    BY <1>2, <1>3 DEF TeeFinish, TInv, StateOK
  <1>4. ASSUME NEW e \in Tees, TeeCrash(e)
        PROVE  TInv'
    <2>1. faults' \in [crash : 0..MaxCrashes, lost : 0..MaxLostReplies,
                       tee : 0..MaxTeeCrashes, probe : 0..MaxFalseProbes]
      BY <1>4, BoundsAssumption DEF TeeCrash, TInv, StateOK
    <2> QED BY <1>2, <1>4, <2>1 DEF TeeCrash, TInv, StateOK
  <1> QED BY <1>1, <1>3, <1>4 DEF Environment

\* Every step keeps the types.
LEMMA TNext == TInv /\ [Next]_vars => TInv'
  <1> SUFFICES ASSUME TInv, [Next]_vars PROVE TInv'
    OBVIOUS
  <1>1. CASE UNCHANGED vars
    BY <1>1 DEF vars, disk, tees, history, TInv, StateOK, LocalOK, SchedOK,
                HandlerOK, Saving, Queueing
  <1> QED BY <1>1, SchedulerTypes, HandlerTypes, EnvironmentTypes DEF Next

\* Types: what each thread and each file may hold, for every instance.
THEOREM Types == Spec => []StateOK
  <1>1. TInv => StateOK
    BY DEF TInv
  <1> QED BY TInit, TNext, <1>1, PTL DEF Spec

--------------------------------------------------------------------------------
(***************************************************************************)
(* The queue.  What _remove_job_from_queue computes is a recursion over    *)
(* the ids; the induction over their number goes by the least number of a  *)
(* set, which is WFMin of the library.                                     *)
(***************************************************************************)
LEMMA MinimalExists ==
  ASSUME NEW R, NEW S, IsWellFoundedOn(R, S), NEW T, T \subseteq S, T # {}
  PROVE  \E x \in T : \A y \in T : ~ (<<y, x>> \in R)
  BY WFMin, Zenon

\* A set of naturals that is not empty has a least element.
LEMMA LeastExists ==
  ASSUME NEW T, T \subseteq Nat, T # {}
  PROVE  \E x \in T : \A y \in T : x <= y
  <1> DEFINE R == {p \in Nat \X Nat : p[1] < p[2]}
  <1>1. IsWellFoundedOn(R, Nat)
    BY NatLessThanWellFounded DEF OpToRel
  <1>2. \A x, y \in Nat : <<y, x>> \in R <=> y < x
    OBVIOUS
  <1> HIDE DEF R
  <1>3. PICK x \in T : \A y \in T : ~ (<<y, x>> \in R)
    BY <1>1, MinimalExists, Zenon
  <1>4. ASSUME NEW y \in T PROVE x <= y
    <2>1. x \in Nat /\ y \in Nat /\ ~ (<<y, x>> \in R)
      BY <1>3, Zenon
    <2>2. ~ (y < x)
      BY <1>2, <2>1, Zenon
    <2> QED BY <2>1, <2>2
  <1> QED BY <1>4, Zenon

\* Induction up to m, for a property given as the set of the numbers that have it.
LEMMA UpTo ==
  ASSUME NEW m \in Nat, NEW T, 0 \in T,
         \A k \in 1 .. m : k - 1 \in T => k \in T
  PROVE  \A k \in 0 .. m : k \in T
  <1> SUFFICES ASSUME {k \in 0 .. m : k \notin T} # {} PROVE FALSE
    OBVIOUS
  <1> DEFINE Missing == {k \in 0 .. m : k \notin T}
  <1>1. Missing \subseteq Nat /\ Missing # {}
    OBVIOUS
  <1>2. \A k \in Missing : k \in 1 .. m /\ k \notin T
    OBVIOUS
  <1>3. \A k \in 0 .. m : k \notin T => k \in Missing
    OBVIOUS
  <1> HIDE DEF Missing
  <1>4. PICK x \in Missing : \A y \in Missing : x <= y
    BY <1>1, LeastExists
  <1>5. x \in 1 .. m /\ x \notin T
    BY <1>2
  <1>6. x - 1 \in 0 .. m /\ x - 1 \notin T
    BY <1>5
  <1>7. x - 1 \in Missing
    BY <1>3, <1>6
  <1> QED BY <1>4, <1>5, <1>7

\* _remove_job_from_queue leaves the other ids, and none of j.
LEMMA WithoutOK ==
    ASSUME NEW S, NEW ids \in Seq(S), NEW j
    PROVE  Without(ids, j) \in Seq(S \ {j})
  <1> DEFINE L == Len(ids)
             Q == Seq(S \ {j})
             Keep(s, n) == IF ids[n] = j THEN s ELSE Append(s, ids[n])
             Upto(k, f) == /\ f \in [0..k -> Q] /\ f[0] = <<>>
                           /\ \A n \in 1..k : f[n] = Keep(f[n - 1], n)
             T == {k \in 0..L : \E f : Upto(k, f)}
  <1>1. L \in Nat /\ \A n \in 1..L : ids[n] \in S
    OBVIOUS
  <1>2. <<>> \in Q
    OBVIOUS
  <1>3. ASSUME NEW s \in Q, NEW n \in 1..L PROVE Keep(s, n) \in Q
    <2>1. CASE ids[n] = j
      BY <2>1
    <2>2. CASE ids[n] # j
      <3>1. ids[n] \in S \ {j}
        BY <1>1, <2>2
      <3>2. Append(s, ids[n]) \in Q
        BY <3>1
      <3> QED BY <2>2, <3>2
    <2> QED BY <2>1, <2>2
  <1> HIDE DEF L, Q, Keep
  <1>4. 0 \in T
    <2>1. Upto(0, [n \in 0..0 |-> <<>>])
      BY <1>2
    <2>2. 0 \in 0..L
      BY <1>1
    <2> QED BY <2>1, <2>2, Zenon
  <1>5. ASSUME NEW k \in 1..L, k - 1 \in T PROVE k \in T
    <2>1. PICK f : Upto(k - 1, f)
      BY <1>5
    <2>2. /\ k \in Nat /\ k > 0 /\ k - 1 \in 0..k - 1 /\ 0 \in 0..k - 1 /\ 0 \in 0..k /\ 0 # k
          /\ k \in 0..L /\ k \in 0..k
          /\ \A n \in 1..k : n - 1 \in 0..k - 1 /\ n \in 0..k /\ n - 1 \in 0..k /\ n - 1 # k
          /\ \A n \in 1..k : n # k => n \in 1..k - 1
          /\ \A n \in 0..k : n # k => n \in 0..k - 1
      BY <1>1
    <2> DEFINE g == [n \in 0..k |-> IF n = k THEN Keep(f[k - 1], k) ELSE f[n]]
    <2>3. Keep(f[k - 1], k) \in Q
      BY <1>3, <2>1, <2>2
    <2>4. \A n \in 0..k : g[n] = IF n = k THEN Keep(f[k - 1], k) ELSE f[n]
      OBVIOUS
    <2>5. g \in [0..k -> Q]
      BY <2>1, <2>2, <2>3
    <2> HIDE DEF g
    <2>6. g[0] = <<>>
      BY <2>1, <2>2, <2>4
    <2>7. ASSUME NEW n \in 1..k PROVE g[n] = Keep(g[n - 1], n)
      <3>1. g[n - 1] = f[n - 1]
        BY <2>2, <2>4
      <3>2. CASE n = k
        BY <2>2, <2>4, <3>1, <3>2
      <3>3. CASE n # k
        BY <2>1, <2>2, <2>4, <3>1, <3>3
      <3> QED BY <3>2, <3>3
    <2>8. Upto(k, g)
      BY <2>5, <2>6, <2>7
    <2> QED BY <2>2, <2>8
  <1>6. L \in T
    <2> HIDE DEF T
    <2>1. \A k \in 0..L : k \in T
      BY <1>1, <1>4, <1>5, UpTo
    <2>2. L \in 0..L
      BY <1>1
    <2> QED BY <2>1, <2>2, Zenon
  <1>7. PICK f : Upto(L, f)
    BY <1>6
  <1> DEFINE Body(v) == [n \in 0..L |-> IF n = 0 THEN <<>> ELSE Keep(v[n - 1], n)]
             w == CHOOSE v : v = Body(v)
  <1>8. f = Body(f)
    <2>1. \A n \in 0..L : n # 0 => n \in 1..L
      BY <1>1
    <2>2. f = [n \in 0..L |-> f[n]]
      BY <1>7
    <2>3. \A n \in 0..L : f[n] = IF n = 0 THEN <<>> ELSE Keep(f[n - 1], n)
      BY <1>7, <2>1
    <2> QED BY <2>2, <2>3
  <1>9. w = Body(w)
    BY <1>8, Zenon
  <1>10. Without(ids, j) = w[L]
    BY Zenon DEF Without, Keep, L
  <1> HIDE DEF w
  <1>11. /\ w[0] = <<>>
         /\ \A n \in 1..L : w[n] = Keep(w[n - 1], n)
    <2>1. 0 \in 0..L /\ \A n \in 1..L : n \in 0..L /\ n # 0
      BY <1>1
    <2>2. \A n \in 0..L : w[n] = IF n = 0 THEN <<>> ELSE Keep(w[n - 1], n)
      BY <1>9, Zenon
    <2> QED BY <2>1, <2>2
  <1> DEFINE N == {k \in 0..L : w[k] \in Q}
  <1>12. 0 \in N
    BY <1>1, <1>2, <1>11
  <1>13. ASSUME NEW k \in 1..L, k - 1 \in N PROVE k \in N
    <2>1. k \in 0..L
      BY <1>1
    <2>2. w[k - 1] \in Q
      BY <1>13
    <2> QED BY <1>3, <1>11, <2>1, <2>2
  <1>14. \A k \in 0..L : k \in N
    <2> HIDE DEF N
    <2> QED BY <1>1, <1>12, <1>13, UpTo
  <1>15. w[L] \in Q
    BY <1>1, <1>14
  <1> QED BY <1>10, <1>15 DEF Q

\* A handler that is busy has a job.
Working == \A h \in Handlers : th[h].pc # "idle" => th[h].job \in Jobs

QInv == TInv /\ QueueOK /\ Working

\* The queue is empty, and every handler idle, when the service starts.
LEMMA QInit == Init => QInv
  <1> SUFFICES ASSUME Init PROVE QInv
    OBVIOUS
  <1>1. <<>> \in Seq(Jobs)
    OBVIOUS
  <1>2. QueueOK
    BY <1>1 DEF Init, QueueOK
  <1>3. Working
    BY DEF Init, Working, Resting, Threads
  <1> QED BY <1>2, <1>3, TInit DEF QInv

\* A read, a truncation or a flush of queue.json by a thread that has a job,
\* or by the scheduler, keeps the queue and its edits sequences of job ids.
LEMMA QueueSteps ==
    ASSUME TInv, QueueOK, NEW t \in Threads, t = Sched \/ th[t].job \in Jobs,
           QueueRead(t) \/ QueueReadRaises(t) \/ QueueOpen(t) \/ QueueFlush(t)
    PROVE  QueueOK'
  <1>1. <<>> \in Seq(Jobs) /\ edit[t] \in Seq(Jobs) /\ queue.ids \in Seq(Jobs)
        /\ queue \in [ok : BOOLEAN, ids : Seq(Jobs)] /\ edit \in [Threads -> Seq(Jobs)]
    <2>1. <<>> \in Seq(Jobs)
      OBVIOUS
    <2> QED BY <2>1, Zenon DEF QueueOK
  <1>2. CASE QueueRead(t)
    <2>1. EditedQueue(t) \in Seq(Jobs)
      <3>1. CASE t = Sched
        <4>1. Without(queue.ids, th[t].job) \in Seq(Jobs \ {th[t].job})
          BY <1>1, WithoutOK
        <4>2. ASSUME NEW S, NEW j, NEW s \in Seq(S \ {j}) PROVE s \in Seq(S)
          OBVIOUS
        <4>3. Without(queue.ids, th[t].job) \in Seq(Jobs)
          BY <4>1, <4>2, Zenon
        <4> QED BY <3>1, <4>3, Zenon DEF EditedQueue
      <3>2. CASE t # Sched
        <4>1. th[t].job \in Jobs
          BY <3>2
        <4>2. Append(queue.ids, th[t].job) \in Seq(Jobs)
          BY <1>1, <4>1
        <4> QED BY <3>2, <4>2, Zenon DEF EditedQueue
      <3> QED BY <3>1, <3>2
    <2>2. edit' = [edit EXCEPT ![t] = EditedQueue(t)] /\ queue' = queue
      BY <1>2 DEF QueueRead, disk
    <2>3. edit' \in [Threads -> Seq(Jobs)]
      BY <1>1, <2>1, <2>2, Zenon
    <2> QED BY <1>1, <2>2, <2>3, Zenon DEF QueueOK
  <1>3. CASE QueueReadRaises(t)
    <2>1. queue' = queue /\ edit' = edit
      BY <1>3 DEF QueueReadRaises, disk
    <2> QED BY <1>1, <2>1, Zenon DEF QueueOK
  <1>4. CASE QueueOpen(t)
    <2>1. queue' = [ok |-> FALSE, ids |-> <<>>] /\ edit' = edit
      BY <1>4 DEF QueueOpen
    <2>2. queue' \in [ok : BOOLEAN, ids : Seq(Jobs)]
      BY <1>1, <2>1
    <2> QED BY <1>1, <2>1, <2>2, Zenon DEF QueueOK
  <1>5. CASE QueueFlush(t)
    <2>1. edit' = [edit EXCEPT ![t] = <<>>]
      BY <1>5 DEF QueueFlush
    <2>2. \/ queue' = [queue EXCEPT !.ok = FALSE]
          \/ queue' = [ok |-> TRUE, ids |-> edit[t]]
      BY <1>5, Zenon DEF QueueFlush
    <2>3. queue' \in [ok : BOOLEAN, ids : Seq(Jobs)]
      <3>1. CASE queue' = [queue EXCEPT !.ok = FALSE]
        BY <1>1, <3>1, Zenon
      <3>2. CASE queue' = [ok |-> TRUE, ids |-> edit[t]]
        BY <1>1, <3>2, Zenon
      <3> QED BY <2>2, <3>1, <3>2
    <2>4. edit' \in [Threads -> Seq(Jobs)]
      BY <1>1, <2>1, Zenon
    <2> QED BY <2>3, <2>4, Zenon DEF QueueOK
  <1> QED BY <1>2, <1>3, <1>4, <1>5

\* Every step keeps the type of the queue and the handlers at their jobs.
LEMMA QNext == QInv /\ [Next]_vars => QInv'
  <1> SUFFICES ASSUME TInv, QueueOK, Working, [Next]_vars PROVE QueueOK' /\ Working'
    BY TNext DEF QInv
  <1>s. Sched \in Threads /\ \A h \in Handlers : h \in Threads /\ h # Sched
    BY DEF Threads
  <1>q. ASSUME queue' = queue, edit' = edit PROVE QueueOK'
    BY <1>q, Zenon DEF QueueOK
  <1>w. ASSUME NEW t \in Threads, Moves(t),
               t # Sched /\ th'[t].pc # "idle" => th'[t].job \in Jobs
        PROVE  Working'
    BY <1>s, <1>w DEF Working, Moves
  <1>g. ASSUME NEW t \in Threads, Turns(t, th'[t].pc, th[t].job, th'[t].art, th'[t].data,
                                        th'[t].rec, th'[t].tee, th'[t].todo),
               t = Sched \/ th[t].job \in Jobs
        PROVE  Working'
    BY <1>g, <1>w DEF Turns, Holds
  <1>e. ASSUME NEW t \in Threads, Ends(t) PROVE Working'
    BY <1>e, <1>w DEF Ends, Turns, Holds
  <1>1. CASE Scheduler
    <2>1. Working'
      <3>1. TInv'
        BY <1>1, SchedulerTypes
      <3>2. \A h \in Handlers : th'[h] = th[h]
        BY <1>1, <1>s
        DEF Scheduler, SaveAndQueue, Cleanup, FinalizeScan, FinalizeDone, GiveUp, Reload,
            BusyScan, ProvisionSave, NotBooted, Recheck, Pick, Booted, Send, MarkLoad,
            ProbeAlive, ProbeDead, SaveOpen, SaveFlush, QueueRead, QueueReadRaises,
            QueueOpen, QueueFlush, Goto, Rest, TInv, StateOK
      <3> QED BY <3>2 DEF Working
    <2>2. CASE QueueRead(Sched) \/ QueueReadRaises(Sched) \/ QueueOpen(Sched) \/ QueueFlush(Sched)
      BY <1>s, <2>1, <2>2, QueueSteps
    <2>3. CASE ~(QueueRead(Sched) \/ QueueReadRaises(Sched) \/ QueueOpen(Sched) \/ QueueFlush(Sched))
      <3>1. queue' = queue /\ edit' = edit
        BY <1>1, <2>3
        DEF Scheduler, SaveAndQueue, Cleanup, FinalizeScan, FinalizeDone, GiveUp, Reload,
            BusyScan, ProvisionSave, NotBooted, Recheck, Pick, Booted, Send, MarkLoad,
            ProbeAlive, ProbeDead, SaveOpen, SaveFlush, disk
      <3> QED BY <1>q, <2>1, <3>1
    <2> QED BY <2>2, <2>3
  <1>2. ASSUME NEW h \in Handlers, Handler(h)
        PROVE  QueueOK' /\ Working'
    <2> h \in Threads /\ h # Sched
      BY <1>s
    <2>1. ASSUME NEW j \in Jobs, NEW c \in Commitments, Create(h, j, c)
          PROVE  QueueOK' /\ Working'
      <3>1. Moves(h) /\ th'[h].job = j
        BY <2>1, HandlerTurns DEF Turns, Holds
      <3>2. queue' = queue /\ edit' = edit
        BY <2>1 DEF Create
      <3> QED BY <1>q, <1>w, <3>1, <3>2
    <2>2. ASSUME NEW j \in Jobs, NEW a \in Artifacts, StartUpload(h, j, a)
          PROVE  QueueOK' /\ Working'
      <3>1. Moves(h) /\ th'[h].job = j
        BY <2>2, HandlerTurns DEF Turns, Holds
      <3>2. queue' = queue /\ edit' = edit
        BY <2>2 DEF StartUpload, disk
      <3> QED BY <1>q, <1>w, <3>1, <3>2
    <2>3. ASSUME HandlerSteps(h), th[h].job \in Jobs
          PROVE  Working'
      <3>1. \/ Ends(h)
            \/ Moves(h) /\ th'[h].job = th[h].job
        BY <2>3, HandlerTurns, SharedTurns
        DEF HandlerSteps, SaveAndQueue, GoesTo, Saves, Turns, Holds
      <3>2. CASE Ends(h)
        BY <1>e, <3>2
      <3>3. CASE Moves(h) /\ th'[h].job = th[h].job
        BY <1>w, <2>3, <3>3
      <3> QED BY <3>1, <3>2, <3>3
    <2>4. HandlerSteps(h) => th[h].job \in Jobs
      <3>1. HandlerSteps(h) => th[h].pc # "idle"
        BY DEF HandlerSteps, SaveAndQueue, ArtifactOpen, ArtifactWrite, CheckComplete,
               SaveOpen, SaveFlush, QueueRead, QueueReadRaises, QueueOpen, QueueFlush
      <3> QED BY <3>1 DEF Working
    <2>5. ASSUME HandlerSteps(h)
          PROVE  QueueOK'
      <3>1. CASE QueueRead(h) \/ QueueReadRaises(h) \/ QueueOpen(h) \/ QueueFlush(h)
        BY <2>4, <2>5, <3>1, QueueSteps
      <3>2. CASE ~(QueueRead(h) \/ QueueReadRaises(h) \/ QueueOpen(h) \/ QueueFlush(h))
        <4>1. queue' = queue /\ edit' = edit
          BY <2>5, <3>2 DEF HandlerSteps, SaveAndQueue, ArtifactOpen, ArtifactWrite,
                            CheckComplete, SaveOpen, SaveFlush, disk
        <4> QED BY <1>q, <4>1
      <3> QED BY <3>1, <3>2
    <2> QED BY <1>2, <2>1, <2>2, <2>3, <2>4, <2>5 DEF Handler
  <1>3. CASE Environment
    <2>1. CASE Crash
      <3>1. Working'
        BY <1>s, <2>1 DEF Crash, Working, Resting
      <3>2. queue' = queue /\ edit' = [t \in Threads |-> <<>>]
        BY <2>1 DEF Crash, disk
      <3>3. <<>> \in Seq(Jobs)
        OBVIOUS
      <3>4. edit' \in [Threads -> Seq(Jobs)]
        BY <3>2, <3>3, Zenon
      <3>5. QueueOK'
        BY <3>2, <3>4, Zenon DEF QueueOK
      <3> QED BY <3>1, <3>5
    <2>2. ASSUME NEW e \in Tees, TeeFinish(e) \/ TeeCrash(e)
          PROVE  QueueOK' /\ Working'
      <3>1. queue' = queue /\ edit' = edit /\ th' = th
        BY <2>2 DEF TeeFinish, TeeCrash, disk
      <3> QED BY <1>q, <3>1 DEF Working
    <2> QED BY <1>3, <2>1, <2>2 DEF Environment
  <1>4. CASE UNCHANGED vars
    <2>1. queue' = queue /\ edit' = edit /\ th' = th
      BY <1>4 DEF vars, disk
    <2> QED BY <1>q, <2>1 DEF Working
  <1> QED BY <1>1, <1>2, <1>3, <1>4 DEF Next

\* Every variable keeps its type, for every instance: in particular every
\* job.json holds the text of one of the saves, whole or not, and queue.json
\* lists job ids only, whoever edited it and wherever the service was killed.
THEOREM AllTypes == Spec => []TypeOK
  <1>1. QInv => TypeOK
    BY DEF QInv, TInv, TypeOK
  <1> QED BY QInit, QNext, <1>1, PTL DEF Spec

--------------------------------------------------------------------------------
(***************************************************************************)
(* A torn queue.json that no thread is writing stays so: whoever would     *)
(* write it reads it first, and a crash leaves no thread with it open.     *)
(***************************************************************************)
Writes(t) == th[t].pc \in {"queue_open", "queue_flush"}

\* Only the steps of _queue_job and _remove_job_from_queue touch queue.json.
LEMMA QueueKept ==
    /\ Scheduler => \/ queue' = queue
                    \/ QueueRead(Sched) \/ QueueOpen(Sched) \/ QueueFlush(Sched)
    /\ \A h \in Handlers : Handler(h) =>
          queue' = queue \/ QueueRead(h) \/ QueueOpen(h) \/ QueueFlush(h)
  <1> USE DEF disk
  <1>1. \A t \in Threads : SaveOpen(t) \/ SaveFlush(t) \/ QueueReadRaises(t) => queue' = queue
    BY DEF SaveOpen, SaveFlush, QueueReadRaises
  <1>2. \A old \in SUBSET Jobs : Cleanup(old) => queue' = queue
    BY DEF Cleanup
  <1>3. FinalizeScan \/ FinalizeDone \/ Reload \/ BusyScan => queue' = queue
    BY DEF FinalizeScan, FinalizeDone, Reload, BusyScan
  <1>4. \A j \in Jobs : ProbeAlive(j) \/ ProbeDead(j) \/ Pick(j) => queue' = queue
    BY DEF ProbeAlive, ProbeDead, Pick
  <1>5. ProvisionSave \/ NotBooted \/ Recheck \/ MarkLoad \/ GiveUp => queue' = queue
    BY DEF ProvisionSave, NotBooted, Recheck, MarkLoad, GiveUp
  <1>6. /\ \A e \in Tees : Booted(e) => queue' = queue
        /\ \A ok \in BOOLEAN : Send(ok) => queue' = queue
    BY DEF Booted, Send
  <1>7. \A h \in Handlers :
          /\ \A j \in Jobs, c \in Commitments : Create(h, j, c) => queue' = queue
          /\ \A j \in Jobs, a \in Artifacts : StartUpload(h, j, a) => queue' = queue
          /\ ArtifactOpen(h) \/ ArtifactWrite(h) \/ CheckComplete(h) => queue' = queue
    <2> TAKE h \in Handlers
    <2>1. \A j \in Jobs, c \in Commitments : Create(h, j, c) => queue' = queue
      BY DEF Create
    <2>2. \A j \in Jobs, a \in Artifacts : StartUpload(h, j, a) => queue' = queue
      BY DEF StartUpload
    <2>3. ArtifactOpen(h) \/ ArtifactWrite(h) \/ CheckComplete(h) => queue' = queue
      BY DEF ArtifactOpen, ArtifactWrite, CheckComplete
    <2> QED BY <2>1, <2>2, <2>3
  <1>8. Sched \in Threads /\ Handlers \subseteq Threads
    BY DEF Threads
  <1>9. Scheduler => \/ queue' = queue
                     \/ QueueRead(Sched) \/ QueueOpen(Sched) \/ QueueFlush(Sched)
    BY <1>1, <1>2, <1>3, <1>4, <1>5, <1>6, <1>8 DEF Scheduler, SaveAndQueue
  <1>10. \A h \in Handlers : Handler(h) =>
           queue' = queue \/ QueueRead(h) \/ QueueOpen(h) \/ QueueFlush(h)
    BY <1>1, <1>7, <1>8 DEF Handler, HandlerSteps, SaveAndQueue
  <1> QED BY <1>9, <1>10

\* No step mends a queue.json that is torn for good.
LEMMA TornStep == TInv /\ TornForGood /\ [Next]_vars => TornForGood'
  <1> SUFFICES ASSUME TInv, TornForGood, [Next]_vars PROVE TornForGood'
    OBVIOUS
  <1>s. Sched \in Threads /\ \A h \in Handlers : h \in Threads /\ h # Sched
    BY DEF Threads
  <1>0. ~queue.ok /\ \A t \in Threads : ~Writes(t)
    BY DEF TornForGood, Writes
  <1>1. ASSUME queue' = queue, \A t \in Threads : ~Writes(t)' PROVE TornForGood'
    BY <1>0, <1>1 DEF TornForGood, Writes
  <1>2. ASSUME NEW t \in Threads, Moves(t), ~Writes(t)', queue' = queue
        PROVE  TornForGood'
    BY <1>0, <1>1, <1>2 DEF Moves, Writes
  <1>3. ASSUME NEW t \in Threads
        PROVE  ~(QueueRead(t) \/ QueueOpen(t) \/ QueueFlush(t))
    BY <1>0 DEF QueueRead, QueueOpen, QueueFlush, Writes
  <1>4. CASE Scheduler
    <2>1. queue' = queue
      BY <1>s, <1>3, <1>4, QueueKept
    <2>2. Moves(Sched) /\ ~Writes(Sched)'
      BY <1>s, <1>0, <1>3, <1>4, SchedTurns, SharedTurns
      DEF Scheduler, SaveAndQueue, GoesTo, Saves, Ends, Turns, Holds, Writes
    <2> QED BY <1>s, <1>2, <2>1, <2>2
  <1>5. ASSUME NEW h \in Handlers, Handler(h) PROVE TornForGood'
    <2>1. queue' = queue
      BY <1>s, <1>3, <1>5, QueueKept
    <2>2. Moves(h) /\ ~Writes(h)'
      BY <1>s, <1>3, <1>5, HandlerTurns, SharedTurns
      DEF Handler, HandlerSteps, SaveAndQueue, GoesTo, Saves, Ends, Turns, Holds, Writes
    <2> QED BY <1>s, <1>2, <2>1, <2>2
  <1>6. CASE Environment
    <2>1. CASE Crash
      BY <1>1, <2>1 DEF Crash, Resting, Writes, disk
    <2>2. CASE th' = th /\ queue' = queue
      BY <1>0, <1>1, <2>2 DEF Writes
    <2> QED BY <1>6, <2>1, <2>2 DEF Environment, TeeFinish, TeeCrash, disk
  <1>7. CASE UNCHANGED vars
    BY <1>0, <1>1, <1>7 DEF vars, disk, Writes
  <1> QED BY <1>4, <1>5, <1>6, <1>7 DEF Next

\* Once queue.json is torn with nobody at it, it is torn for ever, whatever
\* clients, the scheduler and restarts of the service do: the tear that
\* TornQueueIsTransient excludes, and that two writers can make, is final.
THEOREM TearIsFinal == Spec => [][TornForGood => TornForGood']_vars
  <1>1. TInv /\ [Next]_vars => [TornForGood => TornForGood']_vars
    BY TornStep
  <1> QED BY TInit, TNext, <1>1, PTL DEF Spec

--------------------------------------------------------------------------------
(***************************************************************************)
(* PayloadHasRequired.  An artifact that has arrived stays until its job   *)
(* is deleted, so what a handler found when it looked is still there when  *)
(* it, or the scheduler after it, saves the record, and when the payload   *)
(* is built; the commitments cannot change under a record that exists.     *)
(***************************************************************************)

\* The scheduler is on its way to save the job it picked, or waits for a target.
Chosen ==
    \/ th[Sched].pc \in {"provision", "boot"}
    \/ Saving(Sched) /\ th[Sched].rec = "provisioned"

ChosenOK ==
    Chosen => file[th[Sched].job].rec # "none" /\ AllRequired(th[Sched].job)

\* A handler that is about to save "queued" found all that is required.
QueuerOK == \A h \in Handlers :
    Saving(h) /\ th[h].rec = "queued" => AllRequired(th[h].job)

\* A queued record has all that it requires, and so has every payload.
QueuedAt(j) == file[j].rec \in {"queued", "provisioned"} => AllRequired(j)
FilledAt(j) == outgoing[j] # Nil =>
    file[j].rec # "none" /\ \A a \in Required(j) : outgoing[j][a] # "absent"

RInv ==
    /\ QInv
    /\ ChosenOK /\ QueuerOK
    /\ \A j \in Jobs : QueuedAt(j) /\ FilledAt(j)

\* What is required of a job are artifacts.
LEMMA RequiredAreArtifacts ==
    ASSUME TInv, NEW j \in Jobs
    PROVE  Required(j) \subseteq Artifacts
  BY ArtifactsAssumption DEF Required, TInv, StateOK

\* No artifact of job j disappears and its commitments stay.
Keeps(j) ==
    /\ commit'[j] = commit[j]
    /\ \A a \in Artifacts : art[j][a] # "absent" => art'[j][a] # "absent"

\* Then nothing that is required of it does.
LEMMA RequiredKeeps ==
    ASSUME TInv, NEW j \in Jobs, Keeps(j)
    PROVE  Required(j)' = Required(j) /\ (AllRequired(j) => AllRequired(j)')
  BY RequiredAreArtifacts DEF Required, AllRequired, Keeps

\* The first start.
LEMMA RInit == Init => RInv
  <1> SUFFICES ASSUME Init PROVE RInv
    OBVIOUS
  <1>1. /\ \A t \in Threads : th[t].pc = (IF t = Sched THEN "sleep" ELSE "idle")
        /\ \A j \in Jobs : file[j].rec = "none" /\ outgoing[j] = Nil
    BY DEF Init, Resting
  <1>2. ChosenOK /\ QueuerOK
    BY <1>1 DEF ChosenOK, Chosen, QueuerOK, Saving, Threads
  <1> QED BY <1>1, <1>2, QInit DEF RInv, QueuedAt, FilledAt

\* A step that leaves all artifacts there, queues only jobs with all of them, and
\* builds a payload only from these.
LEMMA RKeeps ==
    ASSUME RInv, QInv',
           \A j \in Jobs :
              /\ Keeps(j)
              /\ file[j].rec # "none" => file'[j].rec # "none"
              /\ file'[j].rec \in {"queued", "provisioned"} =>
                   file'[j].rec = file[j].rec \/ AllRequired(j)
              /\ outgoing'[j] # outgoing[j] =>
                   file[j].rec # "none" /\ \A a \in Required(j) : outgoing'[j][a] # "absent",
           \A h \in Handlers : Saving(h)' /\ th'[h].rec = "queued" =>
              AllRequired(th'[h].job),
           Chosen' => file[th'[Sched].job].rec # "none" /\ AllRequired(th'[Sched].job)
    PROVE  RInv'
  <1>1. TInv /\ TInv' /\ SchedOK' /\ Working'
    BY DEF RInv, QInv, TInv, LocalOK
  <1>2. ChosenOK'
    <2>1. Chosen' => th'[Sched].job \in Jobs
      BY <1>1 DEF Chosen, SchedOK, Saving
    <2> QED BY <1>1, <2>1, RequiredKeeps DEF ChosenOK
  <1>3. QueuerOK'
    <2>1. ASSUME NEW h \in Handlers, Saving(h)' PROVE th'[h].job \in Jobs
      BY <1>1, <2>1 DEF Working, Saving
    <2> QED BY <1>1, <2>1, RequiredKeeps DEF QueuerOK
  <1>4. ASSUME NEW j \in Jobs PROVE QueuedAt(j)' /\ FilledAt(j)'
    <2>1. Required(j)' = Required(j) /\ (AllRequired(j) => AllRequired(j)')
      BY <1>1, RequiredKeeps
    <2>2. QueuedAt(j)'
      BY <2>1 DEF RInv, QueuedAt
    <2>3. FilledAt(j)'
      BY <2>1 DEF RInv, FilledAt
    <2> QED BY <2>2, <2>3
  <1> QED BY <1>2, <1>3, <1>4 DEF RInv

\* The handlers: uploads only add artifacts, and a new job has neither a record
\* nor a payload, nor is anybody at it.
LEMMA RHandler ==
    ASSUME RInv, QInv', NEW h \in Handlers, Handler(h)
    PROVE  RInv'
  <1> h \in Threads /\ h # Sched
    BY DEF Threads
  <1>0. /\ TInv /\ HandlerOK(h) /\ Working /\ SchedOK
        /\ art \in [Jobs -> [Artifacts -> Copy]] /\ file \in [Jobs -> Texts]
        /\ commit \in [Jobs -> SUBSET Artifacts]
    BY DEF RInv, QInv, TInv, LocalOK, StateOK
  <1>m. ASSUME Moves(h)
        PROVE  th'[Sched] = th[Sched] /\ \A g \in Handlers \ {h} : th'[g] = th[g]
    BY <1>m DEF Moves, Threads
  \* A step that leaves the artifacts there and is not about to queue.
  <1>k. ASSUME Moves(h), \A j \in Jobs : Keeps(j), outgoing' = outgoing,
               \A j \in Jobs :
                  /\ file[j].rec # "none" => file'[j].rec # "none"
                  /\ file'[j].rec \in {"queued", "provisioned"} =>
                       file'[j].rec = file[j].rec \/ AllRequired(j),
               Saving(h)' /\ th'[h].rec = "queued" => AllRequired(th'[h].job)
        PROVE  RInv'
    <2>1. \A g \in Handlers : Saving(g)' /\ th'[g].rec = "queued" => AllRequired(th'[g].job)
      BY <1>k, <1>m DEF RInv, QueuerOK, Saving
    <2>2. Chosen' => file[th'[Sched].job].rec # "none" /\ AllRequired(th'[Sched].job)
      BY <1>k, <1>m DEF RInv, ChosenOK, Chosen, Saving
    <2> QED BY <1>k, <2>1, <2>2, RKeeps
  <1>u. ASSUME art' = art, commit' = commit PROVE \A j \in Jobs : Keeps(j)
    BY <1>u DEF Keeps
  <1>1. ASSUME NEW i \in Jobs, NEW c \in Commitments, Create(h, i, c)
        PROVE  RInv'
    <2>1. /\ Moves(h) /\ th'[h].rec = "pending_upload"
          /\ file[i].rec = "none" /\ \A g \in Handlers : th[g].job # i
          /\ UNCHANGED <<file, art, outgoing>>
          /\ \A j \in Jobs \ {i} : commit'[j] = commit[j]
      <3>1. Moves(h) /\ th'[h].rec = "pending_upload"
        BY <1>0, <1>1, HandlerTurns DEF Turns, Holds
      <3>2. /\ file[i].rec = "none" /\ ~Uploading(i) /\ commit' = [commit EXCEPT ![i] = c]
            /\ UNCHANGED <<file, art, outgoing>>
        BY <1>1 DEF Create
      <3>3. \A g \in Handlers : th[g].job # i
        BY <3>2 DEF Uploading
      <3> QED BY <1>0, <3>1, <3>2, <3>3
    <2>2. ASSUME NEW j \in Jobs \ {i}
          PROVE  Required(j)' = Required(j) /\ (AllRequired(j) => AllRequired(j)')
      <3>1. Keeps(j)
        BY <2>1 DEF Keeps
      <3> QED BY <1>0, <3>1, RequiredKeeps
    <2>3. ChosenOK'
      <3>1. Chosen' => Chosen /\ th[Sched].job \in Jobs /\ th'[Sched].job = th[Sched].job
        BY <1>0, <1>m, <2>1 DEF Chosen, Saving, SchedOK
      <3> QED BY <2>1, <2>2, <3>1 DEF RInv, ChosenOK
    <2>4. QueuerOK'
      <3>1. ASSUME NEW g \in Handlers, Saving(g)', th'[g].rec = "queued"
            PROVE  AllRequired(th[g].job)'
        <4>1. g # h /\ th'[g] = th[g] /\ Saving(g)
          BY <1>m, <2>1, <3>1 DEF Saving
        <4>2. AllRequired(th[g].job) /\ th[g].job \in Jobs \ {i}
          BY <1>0, <2>1, <3>1, <4>1 DEF RInv, QueuerOK, Working, Saving
        <4> QED BY <2>2, <4>1, <4>2
      <3> QED BY <3>1 DEF QueuerOK
    <2>5. ASSUME NEW j \in Jobs PROVE QueuedAt(j)' /\ FilledAt(j)'
      <3>1. QueuedAt(j) /\ FilledAt(j)
        BY DEF RInv
      <3>2. CASE j = i
        BY <2>1, <3>1, <3>2 DEF QueuedAt, FilledAt
      <3>3. CASE j # i
        BY <2>1, <2>2, <3>1, <3>3 DEF QueuedAt, FilledAt
      <3> QED BY <3>2, <3>3
    <2> QED BY <2>3, <2>4, <2>5 DEF RInv
  <1>2. ASSUME NEW i \in Jobs, NEW a \in Artifacts, StartUpload(h, i, a)
        PROVE  RInv'
    <2>1. Moves(h) /\ ~Saving(h)'
      BY <1>0, <1>2, HandlerTurns DEF Turns, Holds, Saving
    <2>2. UNCHANGED <<file, art, commit, outgoing>>
      BY <1>2 DEF StartUpload, disk
    <2>3. \A j \in Jobs : Keeps(j)
      BY <2>2 DEF Keeps
    <2> QED BY <1>k, <2>1, <2>2, <2>3
  <1>3. ASSUME NEW i \in Jobs, th[h].job = i, ArtifactOpen(h)
        PROVE  RInv'
    <2>1. Moves(h) /\ ~Saving(h)'
      BY <1>0, <1>3, HandlerTurns DEF GoesTo, Turns, Holds, Saving
    <2>2. UNCHANGED <<file, commit, outgoing>> /\ art' = [art EXCEPT ![i][th[h].art] = "partial"]
      BY <1>3 DEF ArtifactOpen
    <2>3. \A j \in Jobs : Keeps(j)
      BY <1>0, <2>2 DEF Keeps
    <2> QED BY <1>k, <2>1, <2>2, <2>3
  <1>4. ASSUME NEW i \in Jobs, th[h].job = i, ArtifactWrite(h)
        PROVE  RInv'
    <2>1. Moves(h) /\ ~Saving(h)'
      BY <1>0, <1>4, HandlerTurns DEF Ends, GoesTo, Turns, Holds, Saving
    <2>2. /\ UNCHANGED <<file, commit, outgoing>> /\ th[h].data \in {"good", "bad"}
          /\ art' = [art EXCEPT ![i][th[h].art] = th[h].data]
      BY <1>0, <1>4 DEF ArtifactWrite, HandlerOK
    <2>3. \A j \in Jobs : Keeps(j)
      BY <1>0, <2>2 DEF Keeps
    <2> QED BY <1>k, <2>1, <2>2, <2>3
  <1>5. CASE CheckComplete(h)
    <2>1. Saves(h, IF AllRequired(th[h].job) THEN "queued" ELSE "pending_upload")
      BY <1>0, <1>5, HandlerTurns
    <2>2. Moves(h) /\ th'[h].job = th[h].job /\ (th'[h].rec = "queued" => AllRequired(th[h].job))
      BY <2>1 DEF Saves, Turns, Holds
    <2> QED BY <1>5, <1>k, <1>u, <2>2 DEF CheckComplete, disk
  <1>6. ASSUME NEW i \in Jobs, th[h].job = i, SaveOpen(h)
        PROVE  RInv'
    <2>1. /\ Moves(h) /\ th'[h].job = i /\ th'[h].rec = th[h].rec /\ Saving(h)
          /\ UNCHANGED <<art, commit, outgoing>>
          /\ file' = [file EXCEPT ![i] = [ok |-> FALSE, rec |-> "empty"]]
      BY <1>0, <1>6, SharedTurns DEF SaveOpen, Saving, GoesTo, Turns, Holds
    <2>2. \A j \in Jobs : file'[j] = file[j] \/ file'[j].rec = "empty"
      BY <1>0, <2>1
    <2>3. th[h].rec = "queued" => AllRequired(i)
      BY <1>6, <2>1 DEF RInv, QueuerOK
    <2> QED BY <1>6, <1>k, <1>u, <2>1, <2>2, <2>3
  <1>7. ASSUME NEW i \in Jobs, th[h].job = i, SaveFlush(h)
        PROVE  RInv'
    <2>1. /\ Moves(h) /\ ~Saving(h)' /\ Saving(h) /\ UNCHANGED <<art, commit, outgoing>>
          /\ th[h].rec \in {"pending_upload", "queued"}
          /\ file' = [file EXCEPT ![i] = Overwrite(file[i], th[h].rec)]
      <3>1. \/ th[h].rec = "pending_upload" /\ Ends(h)
            \/ th[h].rec = "queued" /\ GoesTo(h, "queue_read")
        BY <1>0, <1>7, HandlerTurns
      <3>2. Moves(h) /\ ~Saving(h)' /\ th[h].rec \in {"pending_upload", "queued"}
        BY <3>1 DEF Saving, Ends, GoesTo, Turns, Holds
      <3>3. /\ Saving(h) /\ UNCHANGED <<art, commit, outgoing>>
            /\ file' = [file EXCEPT ![i] = Overwrite(file[i], th[h].rec)]
        BY <1>7 DEF SaveFlush, Saving
      <3> QED BY <3>2, <3>3
    <2>2. \A j \in Jobs : file'[j].rec = file[j].rec \/ (j = i /\ file'[j].rec = th[h].rec)
      BY <1>0, <2>1 DEF Overwrite
    <2>3. th[h].rec = "queued" => AllRequired(i)
      BY <1>7, <2>1 DEF RInv, QueuerOK
    <2>4. \A j \in Jobs :
             /\ file[j].rec # "none" => file'[j].rec # "none"
             /\ file'[j].rec \in {"queued", "provisioned"} =>
                  file'[j].rec = file[j].rec \/ AllRequired(j)
      BY <2>1, <2>2, <2>3
    <2>5. \A j \in Jobs : Keeps(j)
      BY <1>u, <2>1
    <2> QED BY <1>k, <2>1, <2>4, <2>5
  <1>8. CASE QueueRead(h) \/ QueueReadRaises(h) \/ QueueOpen(h) \/ QueueFlush(h)
    <2>1. Ends(h) \/ GoesTo(h, "queue_open") \/ GoesTo(h, "queue_flush")
      BY <1>0, <1>8, SharedTurns
    <2>2. Moves(h) /\ ~Saving(h)'
      BY <2>1 DEF Ends, GoesTo, Turns, Holds, Saving
    <2>3. UNCHANGED <<file, art, commit, outgoing>>
      BY <1>8 DEF QueueRead, QueueReadRaises, QueueOpen, QueueFlush, disk
    <2> QED BY <1>k, <1>u, <2>2, <2>3
  <1>9. ArtifactOpen(h) \/ ArtifactWrite(h) \/ SaveOpen(h) \/ SaveFlush(h) => th[h].job \in Jobs
    BY <1>0 DEF Working, ArtifactOpen, ArtifactWrite, SaveOpen, SaveFlush
  <1> QED BY <1>1, <1>2, <1>3, <1>4, <1>5, <1>6, <1>7, <1>8, <1>9
          DEF Handler, HandlerSteps, SaveAndQueue

\* The scheduler: it takes a queued job, saves it as provisioned or later, and
\* builds the payload of one that is still queued; it deletes only what nobody
\* is at.
LEMMA RScheduler ==
    ASSUME RInv, QInv', Scheduler
    PROVE  RInv'
  <1> Sched \in Threads
    BY DEF Threads
  <1>0. /\ TInv /\ SchedOK /\ Working
        /\ file \in [Jobs -> Texts] /\ outgoing \in [Jobs -> [Artifacts -> Copy] \cup {Nil}]
    BY DEF RInv, QInv, TInv, LocalOK, StateOK
  <1>k. ASSUME Moves(Sched), UNCHANGED <<art, commit>>,
               \A j \in Jobs :
                  /\ file[j].rec # "none" => file'[j].rec # "none"
                  /\ file'[j].rec \in {"queued", "provisioned"} =>
                       file'[j].rec = file[j].rec \/ AllRequired(j)
                  /\ outgoing'[j] # outgoing[j] =>
                       file[j].rec # "none" /\ \A a \in Required(j) : outgoing'[j][a] # "absent",
               Chosen' => file[th'[Sched].job].rec # "none" /\ AllRequired(th'[Sched].job)
        PROVE  RInv'
    <2>1. \A g \in Handlers : th'[g] = th[g]
      BY <1>k DEF Moves, Threads
    <2>2. \A g \in Handlers : Saving(g)' /\ th'[g].rec = "queued" => AllRequired(th'[g].job)
      BY <2>1 DEF RInv, QueuerOK, Saving
    <2>3. \A j \in Jobs : Keeps(j)
      BY <1>k DEF Keeps
    <2> QED BY <1>k, <2>2, <2>3, RKeeps
  <1>1. ASSUME NEW old \in SUBSET Jobs, Cleanup(old)
        PROVE  RInv'
    <2>1. /\ \A i \in old : file'[i].rec = "deleted" /\ \A g \in Handlers : th[g].job # i
          /\ \A i \in old : file[i].rec # "none"
          /\ \A i \in Jobs \ old : file'[i] = file[i] /\ art'[i] = art[i]
          /\ UNCHANGED <<commit, outgoing>>
      BY <1>1 DEF Cleanup, Uploading, StatusIs, Readable, Exists
    <2>2. th'[Sched].pc = "finalize_scan" /\ \A g \in Handlers : th'[g] = th[g]
      BY <1>0, <1>1, SchedTurns DEF GoesTo, Turns, Holds, Moves, Threads
    <2>3. ASSUME NEW j \in Jobs \ old
          PROVE  Required(j)' = Required(j) /\ (AllRequired(j) => AllRequired(j)')
      <3>1. Keeps(j)
        BY <2>1 DEF Keeps
      <3> QED BY <1>0, <3>1, RequiredKeeps
    <2>4. ChosenOK'
      BY <2>2 DEF ChosenOK, Chosen, Saving
    <2>5. QueuerOK'
      <3>1. ASSUME NEW g \in Handlers, Saving(g)', th'[g].rec = "queued"
            PROVE  AllRequired(th[g].job)'
        <4>1. th'[g] = th[g] /\ Saving(g)
          BY <2>2, <3>1 DEF Saving
        <4>2. AllRequired(th[g].job) /\ th[g].job \in Jobs \ old
          BY <1>0, <2>1, <3>1, <4>1 DEF RInv, QueuerOK, Working, Saving
        <4> QED BY <2>3, <4>1, <4>2
      <3> QED BY <3>1 DEF QueuerOK
    <2>6. ASSUME NEW j \in Jobs PROVE QueuedAt(j)' /\ FilledAt(j)'
      <3>1. QueuedAt(j) /\ FilledAt(j)
        BY DEF RInv
      <3>2. CASE j \in old
        <4>1. Required(j)' = Required(j)
          BY <2>1 DEF Required
        <4> QED BY <2>1, <3>1, <3>2, <4>1 DEF QueuedAt, FilledAt
      <3>3. CASE j \notin old
        BY <2>1, <2>3, <3>1, <3>3 DEF QueuedAt, FilledAt
      <3> QED BY <3>2, <3>3
    <2> QED BY <2>4, <2>5, <2>6 DEF RInv
  <1>2. ASSUME NEW j \in Jobs, Pick(j)
        PROVE  RInv'
    <2>1. th'[Sched].job = j /\ Moves(Sched)
      BY <1>0, <1>2, SchedTurns DEF Turns, Holds
    <2>2. file[j].rec \in {"queued", "provisioned"}
      BY <1>2 DEF Pick, NextQueued, StatusIs, Status
    <2>3. AllRequired(j)
      BY <2>2 DEF RInv, QueuedAt
    <2> QED BY <1>2, <1>k, <2>1, <2>2, <2>3 DEF Pick, disk
  <1>3. CASE ProvisionSave \/ NotBooted
    <2>1. Chosen
      BY <1>3 DEF ProvisionSave, NotBooted, Chosen
    <2>2. th'[Sched].job = th[Sched].job /\ Moves(Sched)
      BY <1>0, <1>3, SchedTurns DEF Saves, GoesTo, Turns, Holds
    <2>3. UNCHANGED <<file, art, commit, outgoing>>
      BY <1>3 DEF ProvisionSave, NotBooted, disk
    <2> QED BY <1>k, <2>1, <2>2, <2>3 DEF RInv, ChosenOK
  <1>4. ASSUME NEW j \in Jobs, th[Sched].job = j, Recheck
        PROVE  RInv'
    <2>1. /\ outgoing' = [outgoing EXCEPT ![j] = art[j]] /\ UNCHANGED <<file, art, commit>>
          /\ file[j].rec \in {"queued", "provisioned"}
      BY <1>4 DEF Recheck, Payload, NextQueued, StatusIs, Status
    <2>2. AllRequired(j)
      BY <2>1 DEF RInv, QueuedAt
    <2>3. \A i \in Jobs : outgoing'[i] # outgoing[i] =>
             file[i].rec # "none" /\ \A a \in Required(i) : outgoing'[i][a] # "absent"
      BY <1>0, <2>1, <2>2 DEF AllRequired
    <2>4. th'[Sched].pc = "send" /\ Moves(Sched)
      BY <1>0, <1>4, SchedTurns DEF GoesTo, Turns, Holds
    <2> QED BY <1>k, <2>1, <2>3, <2>4 DEF Chosen, Saving
  <1>5. ASSUME NEW j \in Jobs, th[Sched].job = j, SaveOpen(Sched)
        PROVE  RInv'
    <2>1. /\ Moves(Sched) /\ th'[Sched].job = j /\ th'[Sched].rec = th[Sched].rec
          /\ th'[Sched].pc = "save_flush" /\ Saving(Sched) /\ UNCHANGED <<art, commit, outgoing>>
          /\ file' = [file EXCEPT ![j] = [ok |-> FALSE, rec |-> "empty"]]
      BY <1>0, <1>5, SharedTurns DEF SaveOpen, Saving, GoesTo, Turns, Holds
    <2>2. \A i \in Jobs : file'[i] = file[i] \/ file'[i].rec = "empty"
      BY <1>0, <2>1
    <2>3. Chosen' => Chosen
      BY <2>1 DEF Chosen, Saving
    <2> QED BY <1>5, <1>k, <2>1, <2>2, <2>3 DEF RInv, ChosenOK
  <1>6. ASSUME NEW j \in Jobs, th[Sched].job = j, SaveFlush(Sched)
        PROVE  RInv'
    <2>1. /\ UNCHANGED <<art, commit, outgoing>> /\ Saving(Sched)
          /\ file' = [file EXCEPT ![j] = Overwrite(file[j], th[Sched].rec)]
      BY <1>6 DEF SaveFlush, Saving
    <2>2. /\ Moves(Sched) /\ th[Sched].rec \in {"provisioned", "dispatched", "complete"}
          /\ \/ th'[Sched].pc \in {"queue_read", "finalize"}
             \/ th[Sched].rec = "provisioned" /\ th'[Sched].job = j
      BY <1>0, <1>6, SchedTurns DEF GoesTo, Turns, Holds
    <2>3. \A i \in Jobs : file'[i].rec = file[i].rec \/ (i = j /\ file'[i].rec = th[Sched].rec)
      BY <1>0, <2>1 DEF Overwrite
    <2>4. th[Sched].rec = "provisioned" => file[j].rec # "none" /\ AllRequired(j)
      BY <1>6, <2>1 DEF RInv, ChosenOK, Chosen
    <2>5. Chosen' => th[Sched].rec = "provisioned" /\ th'[Sched].job = j
      BY <2>2 DEF Chosen, Saving
    <2>6. \A i \in Jobs :
             /\ file[i].rec # "none" => file'[i].rec # "none"
             /\ file'[i].rec \in {"queued", "provisioned"} =>
                  file'[i].rec = file[i].rec \/ AllRequired(i)
      BY <2>2, <2>3, <2>4
    <2>7. Chosen' => file[th'[Sched].job].rec # "none" /\ AllRequired(th'[Sched].job)
      BY <2>4, <2>5
    <2> QED BY <1>k, <2>1, <2>2, <2>6, <2>7
  \* The scheduler is not, or no longer, at a job it has chosen.
  <1>7. ASSUME \/ FinalizeScan \/ FinalizeDone \/ Reload \/ BusyScan \/ MarkLoad \/ GiveUp
               \/ \E j \in Jobs : ProbeAlive(j) \/ ProbeDead(j)
               \/ \E e \in Tees : Booted(e)
               \/ \E ok \in BOOLEAN : Send(ok)
               \/ QueueRead(Sched) \/ QueueReadRaises(Sched)
               \/ QueueOpen(Sched) \/ QueueFlush(Sched)
        PROVE  RInv'
    <2>1. UNCHANGED <<file, art, commit, outgoing>>
      <3>1. CASE FinalizeScan \/ FinalizeDone \/ Reload \/ BusyScan \/ MarkLoad \/ GiveUp
        BY <3>1 DEF FinalizeScan, FinalizeDone, Reload, BusyScan, MarkLoad, GiveUp, disk
      <3>2. ASSUME NEW j \in Jobs, ProbeAlive(j) \/ ProbeDead(j)
            PROVE  UNCHANGED <<file, art, commit, outgoing>>
        BY <3>2 DEF ProbeAlive, ProbeDead, disk
      <3>3. ASSUME NEW e \in Tees, Booted(e) PROVE UNCHANGED <<file, art, commit, outgoing>>
        BY <3>3 DEF Booted, disk
      <3>4. ASSUME NEW ok \in BOOLEAN, Send(ok) PROVE UNCHANGED <<file, art, commit, outgoing>>
        BY <3>4 DEF Send, disk
      <3>5. CASE QueueRead(Sched) \/ QueueReadRaises(Sched) \/ QueueOpen(Sched)
                 \/ QueueFlush(Sched)
        BY <3>5 DEF QueueRead, QueueReadRaises, QueueOpen, QueueFlush, disk
      <3> QED BY <1>7, <3>1, <3>2, <3>3, <3>4, <3>5
    <2>2. Moves(Sched) /\ ~Chosen'
      <3>1. CASE FinalizeDone \/ BusyScan \/ GiveUp
        BY <1>0, <3>1, SchedTurns DEF GoesTo, Ends, Turns, Holds, Chosen, Saving
      <3>2. CASE FinalizeScan \/ Reload \/ MarkLoad
        BY <1>0, <3>2, SchedTurns DEF Saves, Turns, Holds, Chosen, Saving
      <3>3. ASSUME NEW j \in Jobs, ProbeAlive(j) \/ ProbeDead(j)
            PROVE  Moves(Sched) /\ th'[Sched].pc \in {"finalize", "reload"}
        BY <1>0, <3>3, SchedTurns DEF ProbeAlive, Turns, Holds
      <3>4. ASSUME NEW e \in Tees, Booted(e)
            PROVE  Moves(Sched) /\ th'[Sched].pc = "recheck"
        BY <1>0, <3>4, SchedTurns DEF Turns, Holds
      <3>5. ASSUME NEW ok \in BOOLEAN, Send(ok)
            PROVE  Moves(Sched) /\ th'[Sched].pc \in {"mark", "sleep"}
        BY <1>0, <3>5, SchedTurns DEF GoesTo, Ends, Turns, Holds
      <3>6. CASE QueueRead(Sched) \/ QueueReadRaises(Sched) \/ QueueOpen(Sched)
                 \/ QueueFlush(Sched)
        BY <1>0, <3>6, SharedTurns DEF GoesTo, Ends, Turns, Holds, Chosen, Saving
      <3>7. th'[Sched].pc \in {"finalize", "reload", "recheck", "mark", "sleep"} => ~Chosen'
        BY DEF Chosen, Saving
      <3> QED BY <1>7, <3>1, <3>2, <3>3, <3>4, <3>5, <3>6, <3>7
    <2> QED BY <1>k, <2>1, <2>2
  <1>8. Recheck \/ SaveOpen(Sched) \/ SaveFlush(Sched) => th[Sched].job \in Jobs
    BY <1>0 DEF Recheck, SaveOpen, SaveFlush, SchedOK, Saving
  <1> QED BY <1>1, <1>2, <1>3, <1>4, <1>5, <1>6, <1>7, <1>8 DEF Scheduler, SaveAndQueue

\* A crash leaves the files as they are and nobody about to save.
LEMMA REnvironment ==
    ASSUME RInv, QInv', Environment \/ UNCHANGED vars
    PROVE  RInv'
  <1>1. UNCHANGED <<file, art, commit, outgoing>> /\ \A j \in Jobs : Keeps(j)
    BY DEF Environment, Crash, TeeFinish, TeeCrash, vars, disk, Keeps
  <1>2. CASE Crash
    <2>1. \A t \in Threads : th'[t].pc = (IF t = Sched THEN "sleep" ELSE "idle")
      BY <1>2 DEF Crash, Resting
    <2>2. ~Chosen' /\ \A h \in Handlers : ~Saving(h)'
      BY <2>1 DEF Chosen, Saving, Threads
    <2> QED BY <1>1, <2>2, RKeeps
  <1>3. CASE th' = th
    BY <1>1, <1>3, RKeeps DEF RInv, ChosenOK, Chosen, QueuerOK, Saving
  <1> QED BY <1>2, <1>3 DEF Environment, TeeFinish, TeeCrash, vars

\* Every step keeps what is required.
LEMMA RNext == RInv /\ [Next]_vars => RInv'
  <1> SUFFICES ASSUME RInv, [Next]_vars PROVE RInv'
    OBVIOUS
  <1>1. QInv'
    BY QNext DEF RInv
  <1> QED BY <1>1, RHandler, RScheduler, REnvironment DEF Next

\* A payload holds every artifact that the job's record requires, a committed
\* preprocessing script included, with clients that upload concurrently,
\* wherever the service is killed and whatever is lost.
THEOREM PayloadsAreComplete == Spec => []PayloadHasRequired
  <1>1. RInv => PayloadHasRequired
    BY DEF RInv, FilledAt, PayloadHasRequired
  <1> QED BY RInit, RNext, <1>1, PTL DEF Spec

--------------------------------------------------------------------------------
(***************************************************************************)
(* The safety invariants.  Neither is inductive: a tick that has found     *)
(* nothing dispatched must still find it so when it saves "dispatched"     *)
(* (ScanHolds; only the scheduler ever writes that text, and a handler's   *)
(* flush over it leaves it or replaces it), and the job it is about to     *)
(* mark or to complete must be one a TEE took (ClaimAccepted).             *)
(***************************************************************************)
PastScan ==
    \/ th[Sched].pc \in {"pick", "provision", "boot", "recheck", "send", "mark"}
    \/ Saving(Sched) /\ th[Sched].rec \in {"provisioned", "dispatched"}

ScanHolds == PastScan => \A j \in Jobs : file[j].rec # "dispatched"

Claiming ==
    \/ th[Sched].pc = "mark"
    \/ Saving(Sched) /\ th[Sched].rec \in {"dispatched", "complete"}

ClaimAccepted == Claiming => accepted[th[Sched].job] > 0

SInv ==
    /\ TInv
    /\ AtMostOneDispatched
    /\ AcceptedBeforeComplete
    /\ ScanHolds
    /\ ClaimAccepted

\* No record comes to say dispatched or complete, and no TEE takes a job back.
Quiet ==
    /\ \A j \in Jobs : file'[j].rec \in {"dispatched", "complete"} =>
                         file'[j].rec = file[j].rec
    /\ \A j \in Jobs : accepted'[j] >= accepted[j]

\* A step that dispatches nothing, completes nothing and moves the scheduler to no
\* place with a claim keeps the safety invariant.
LEMMA QuietStep ==
    ASSUME SInv, TInv', Quiet, ScanHolds', ClaimAccepted'
    PROVE  SInv'
  <1>1. AtMostOneDispatched'
    BY DEF SInv, Quiet, AtMostOneDispatched
  <1>2. AcceptedBeforeComplete'
    <2> SUFFICES ASSUME NEW j \in Jobs, file'[j].rec \in {"dispatched", "complete"}
                 PROVE  accepted'[j] > 0
      BY DEF AcceptedBeforeComplete
    <2>1. accepted[j] > 0 /\ accepted'[j] >= accepted[j]
      BY DEF SInv, Quiet, AcceptedBeforeComplete
    <2>2. accepted[j] \in Int /\ accepted'[j] \in Int
      <3>1. accepted \in [Jobs -> 0..2]
        BY DEF SInv, TInv, StateOK
      <3>2. accepted' \in [Jobs -> 0..2]
        BY DEF TInv, StateOK
      <3> QED BY <3>1, <3>2
    <2> QED BY <2>1, <2>2
  <1> QED BY <1>1, <1>2 DEF SInv

\* A step that is not the scheduler's and is quiet keeps the invariant.
LEMMA QuietOther ==
    ASSUME SInv, TInv', Quiet, th'[Sched] = th[Sched], accepted' = accepted
    PROVE  SInv'
  <1>1. ScanHolds'
    BY DEF SInv, Quiet, ScanHolds, PastScan, Saving
  <1>2. ClaimAccepted'
    BY DEF SInv, ClaimAccepted, Claiming, Saving
  <1> QED BY <1>1, <1>2, QuietStep

\* The safety invariant holds of the empty disk.
LEMMA SafeInit == Init => SInv
  <1> SUFFICES ASSUME Init PROVE SInv
    OBVIOUS
  <1>1. th[Sched].pc = "sleep" /\ \A j \in Jobs : file[j].rec = "none"
    BY DEF Init, Resting, Threads
  <1> QED BY <1>1, TInit DEF SInv, AtMostOneDispatched, AcceptedBeforeComplete,
        ScanHolds, PastScan, ClaimAccepted, Claiming, Saving

\* No handler can disturb the safety invariant: none saves dispatched or complete.
LEMMA HandlerSafe ==
    ASSUME SInv, NEW h \in Handlers, Handler(h)
    PROVE  SInv'
  <1> h \in Threads /\ h # Sched /\ TInv /\ HandlerOK(h)
    BY DEF Threads, SInv, TInv, LocalOK
  <1> USE DEF disk, tees, history
  <1>1. th'[Sched] = th[Sched]
    BY DEF Handler, HandlerSteps, SaveAndQueue, Create, StartUpload, ArtifactOpen,
           ArtifactWrite, CheckComplete, SaveOpen, SaveFlush, QueueRead,
           QueueReadRaises, QueueOpen, QueueFlush, Goto, Rest, TInv, StateOK, Threads
  <1>2. accepted' = accepted
    BY DEF Handler, HandlerSteps, SaveAndQueue, Create, StartUpload, ArtifactOpen,
           ArtifactWrite, CheckComplete, SaveOpen, SaveFlush, QueueRead,
           QueueReadRaises, QueueOpen, QueueFlush
  <1>3. accepted \in [Jobs -> Int]
    BY DEF TInv, StateOK
  <1>4. SaveOpen(h) => Quiet
    BY <1>2, <1>3 DEF SaveOpen, Quiet, TInv, StateOK
  <1>5. ASSUME SaveFlush(h) PROVE Quiet
    <2>1. th[h].rec \in {"pending_upload", "queued"}
      BY <1>5 DEF SaveFlush, HandlerOK, Saving
    <2> QED BY <1>2, <1>3, <1>5, <2>1 DEF SaveFlush, Overwrite, Quiet, TInv, StateOK
  <1>6. file' = file => Quiet
    BY <1>2, <1>3 DEF Quiet
  <1>7. Quiet
    BY <1>4, <1>5, <1>6 DEF Handler, HandlerSteps, SaveAndQueue, Create, StartUpload,
        ArtifactOpen, ArtifactWrite, CheckComplete, QueueRead, QueueReadRaises,
        QueueOpen, QueueFlush
  <1> QED BY <1>1, <1>2, <1>7, HandlerTypes, QuietOther

\* Neither can a crash, which sends the scheduler to sleep, nor a Processing TEE.
LEMMA EnvironmentSafe ==
    ASSUME SInv, Environment
    PROVE  SInv'
  <1> TInv /\ Sched \in Threads
    BY DEF SInv, Threads
  <1>1. accepted \in [Jobs -> Int]
    BY DEF TInv, StateOK
  <1>2. Quiet
    BY <1>1 DEF Environment, Crash, TeeFinish, TeeCrash, disk, history, Quiet
  <1>3. ASSUME Crash
        PROVE  ScanHolds' /\ ClaimAccepted'
    BY <1>3 DEF Crash, Resting, ScanHolds, PastScan, ClaimAccepted, Claiming, Saving
  <1>4. ASSUME NEW e \in Tees, TeeFinish(e) \/ TeeCrash(e)
        PROVE  ScanHolds' /\ ClaimAccepted'
    BY <1>4 DEF TeeFinish, TeeCrash, disk, history, SInv, ScanHolds, PastScan,
                ClaimAccepted, Claiming, Saving
  <1> QED BY <1>2, <1>3, <1>4, EnvironmentTypes, QuietStep DEF Environment

(***************************************************************************)
(* The scheduler.  Where a tick goes ("PastScan" or "Claiming") decides.   *)
(***************************************************************************)
LEMMA SchedulerSafe ==
    ASSUME SInv, Scheduler
    PROVE  SInv'
  <1> Sched \in Threads /\ TInv /\ th[Sched] \in ThreadStates /\ SchedOK
    BY DEF Threads, SInv, TInv, StateOK, LocalOK
  <1> DEFINE pc == th[Sched].pc
             newpc == th'[Sched].pc
  <1> USE DEF disk, tees, history
  <1>t. TInv'
    BY SchedulerTypes
  <1>a. accepted \in [Jobs -> Int]
    BY DEF TInv, StateOK
  <1>b. ASSUME file' = file, accepted' = accepted
        PROVE  Quiet
    BY <1>a, <1>b DEF Quiet
  \* A step that ends up neither past the scan nor with a claim.
  <1>c. ASSUME newpc \in {"sleep", "finalize_scan", "finalize", "reload", "busy_scan",
                         "queue_read", "queue_open", "queue_flush"}
        PROVE  ScanHolds' /\ ClaimAccepted'
    BY <1>c DEF ScanHolds, PastScan, ClaimAccepted, Claiming, Saving
  <1>g. ASSUME NEW label, Goto(Sched, label)
        PROVE  /\ newpc = label
               /\ th'[Sched].rec = th[Sched].rec
               /\ th'[Sched].job = th[Sched].job
    BY <1>g DEF Goto, ThreadStates, TInv, StateOK
  <1>r. Rest(Sched) => newpc = "sleep"
    BY DEF Rest, Resting, TInv, StateOK
  <1>1. ASSUME NEW old \in SUBSET Jobs, Cleanup(old)
        PROVE  SInv'
    <2>1. newpc = "finalize_scan"
      BY <1>1 DEF Cleanup, Goto, TInv, StateOK
    <2>2. Quiet
      BY <1>1, <1>a DEF Cleanup, Quiet
    <2> QED BY <2>1, <2>2, <1>c, <1>t, QuietStep
  <1>2. ASSUME \/ FinalizeScan \/ FinalizeDone \/ GiveUp
               \/ QueueRead(Sched) \/ QueueReadRaises(Sched)
               \/ QueueOpen(Sched) \/ QueueFlush(Sched)
               \/ \E j \in Jobs : ProbeAlive(j) \/ ProbeDead(j)
        PROVE  SInv'
    <2>1. newpc \in {"sleep", "finalize", "reload", "busy_scan", "queue_open",
                    "queue_flush"}
      <3>1. CASE FinalizeDone \/ QueueRead(Sched) \/ QueueOpen(Sched)
        BY <3>1, <1>g DEF FinalizeDone, QueueRead, QueueOpen
      <3>2. CASE GiveUp \/ QueueReadRaises(Sched) \/ QueueFlush(Sched)
        BY <3>2, <1>r DEF GiveUp, QueueReadRaises, QueueFlush
      <3>3. CASE FinalizeScan
        BY <3>3 DEF FinalizeScan, ThreadStates, TInv, StateOK
      <3>4. ASSUME NEW j \in Jobs, ProbeAlive(j) \/ ProbeDead(j)
            PROVE  newpc \in {"finalize", "reload"}
        BY <3>4 DEF ProbeAlive, ProbeDead, ThreadStates, TInv, StateOK
      <3> QED BY <1>2, <3>1, <3>2, <3>3, <3>4
    <2>2. file' = file /\ accepted' = accepted
      BY <1>2 DEF FinalizeScan, FinalizeDone, GiveUp, QueueRead, QueueReadRaises,
          QueueOpen, QueueFlush, ProbeAlive, ProbeDead
    <2> QED BY <2>1, <2>2, <1>b, <1>c, <1>t, QuietStep
  <1>3. ASSUME Reload
        PROVE  SInv'
    <2>1. file' = file /\ accepted' = accepted
      BY <1>3 DEF Reload
    <2>2. CASE StatusIs(th[Sched].job, "dispatched")
      <3>1. th'[Sched] = [th[Sched] EXCEPT !.pc = "save_open", !.rec = "complete"]
        BY <1>3, <2>2 DEF Reload, TInv, StateOK
      <3>2. th[Sched].job \in Jobs
        BY <1>3 DEF Reload, SchedOK
      <3>3. th[Sched].job = th'[Sched].job
        BY <3>1 DEF ThreadStates
      <3>4. file[th[Sched].job].rec = "dispatched"
        BY <2>2 DEF StatusIs, Status
      <3>5. accepted[th[Sched].job] > 0
        BY <3>2, <3>4 DEF SInv, AcceptedBeforeComplete
      <3>6. ClaimAccepted'
        BY <3>3, <3>5, <2>1 DEF ClaimAccepted
      <3>7. ScanHolds'
        BY <3>1 DEF ScanHolds, PastScan, Saving, ThreadStates
      <3> QED BY <3>6, <3>7, <2>1, <1>b, <1>t, QuietStep
    <2>3. CASE ~StatusIs(th[Sched].job, "dispatched")
      <3>1. newpc = "finalize"
        BY <1>3, <2>3 DEF Reload, TInv, StateOK
      <3> QED BY <3>1, <2>1, <1>b, <1>c, <1>t, QuietStep
    <2> QED BY <2>2, <2>3
  <1>4. ASSUME BusyScan
        PROVE  SInv'
    <2>1. file' = file /\ accepted' = accepted
      BY <1>4 DEF BusyScan
    <2>2. CASE Dispatched = {}
      <3>1. newpc = "pick"
        BY <1>4, <2>2, <1>g DEF BusyScan
      <3>2. \A j \in Jobs : file[j].rec # "dispatched"
        BY <1>4, <2>2 DEF BusyScan, Dispatched, StatusIs, Status, Readable,
                          Unreadable, Exists
      <3> QED BY <3>1, <3>2, <2>1, <1>b, <1>t, QuietStep
          DEF ScanHolds, ClaimAccepted, Claiming, Saving
    <2>3. CASE Dispatched # {}
      <3>1. newpc = "sleep"
        BY <1>4, <2>3, <1>r DEF BusyScan
      <3> QED BY <3>1, <2>1, <1>b, <1>c, <1>t, QuietStep
    <2> QED BY <2>2, <2>3
  \* From the scan to the dispatch nothing is written but "provisioned".
  <1>5. ASSUME \/ ProvisionSave \/ NotBooted \/ Recheck
               \/ \E j \in Jobs : Pick(j)
               \/ \E e \in Tees : Booted(e)
        PROVE  SInv'
    <2>1. file' = file /\ accepted' = accepted
      BY <1>5 DEF ProvisionSave, NotBooted, Recheck, Pick, Booted
    <2>2. PastScan
      BY <1>5 DEF ProvisionSave, NotBooted, Recheck, Pick, Booted, PastScan
    <2>3. \/ newpc \in {"provision", "boot", "recheck", "send"}
          \/ newpc = "save_open" /\ th'[Sched].rec = "provisioned"
      BY <1>5 DEF ProvisionSave, NotBooted, Recheck, Pick, Booted, Goto,
                  ThreadStates, TInv, StateOK
    <2>4. ScanHolds'
      BY <2>1, <2>2 DEF SInv, ScanHolds
    <2>5. ClaimAccepted'
      BY <2>3 DEF ClaimAccepted, Claiming, Saving
    <2> QED BY <2>1, <2>4, <2>5, <1>b, <1>t, QuietStep
  <1>6. ASSUME NEW ok \in BOOLEAN, Send(ok)
        PROVE  SInv'
    <2>1. file' = file
      BY <1>6 DEF Send
    <2>2. PastScan /\ th[Sched].job \in Jobs
      BY <1>6 DEF Send, PastScan, SchedOK
    <2>3. accepted' = [accepted EXCEPT ![th[Sched].job] = IF @ < 2 THEN @ + 1 ELSE 2]
      BY <1>6 DEF Send
    <2>4. Quiet
      BY <2>1, <2>2, <2>3, <1>a DEF Quiet, TInv, StateOK
    <2>5. ScanHolds'
      BY <2>1, <2>2 DEF SInv, ScanHolds
    <2>6. CASE ok
      <3>1. newpc = "mark" /\ th'[Sched].job = th[Sched].job
        BY <1>6, <2>6, <1>g DEF Send
      <3>2. accepted'[th[Sched].job] > 0
        BY <2>2, <2>3 DEF TInv, StateOK
      <3> QED BY <3>1, <3>2, <2>4, <2>5, <1>t, QuietStep DEF ClaimAccepted
    <2>7. CASE ~ok
      <3>1. newpc = "sleep"
        BY <1>6, <2>7, <1>r DEF Send
      <3> QED BY <3>1, <2>4, <1>c, <1>t, QuietStep
    <2> QED BY <2>6, <2>7
  <1>7. ASSUME MarkLoad
        PROVE  SInv'
    <2>1. file' = file /\ accepted' = accepted
      BY <1>7 DEF MarkLoad
    <2>2. PastScan /\ Claiming
      BY <1>7 DEF MarkLoad, PastScan, Claiming
    <2>3. th'[Sched].job = th[Sched].job
      BY <1>7 DEF MarkLoad, ThreadStates, TInv, StateOK
    <2>4. ScanHolds' /\ ClaimAccepted'
      BY <2>1, <2>2, <2>3 DEF SInv, ScanHolds, ClaimAccepted
    <2> QED BY <2>1, <2>4, <1>b, <1>t, QuietStep
  <1>8. ASSUME SaveOpen(Sched)
        PROVE  SInv'
    <2>1. newpc = "save_flush" /\ th'[Sched].rec = th[Sched].rec
            /\ th'[Sched].job = th[Sched].job
      BY <1>8, <1>g DEF SaveOpen
    <2>2. Quiet /\ accepted' = accepted
      BY <1>8, <1>a DEF SaveOpen, Quiet, TInv, StateOK
    <2>3. Saving(Sched)
      BY <1>8 DEF SaveOpen, Saving
    <2>4. ScanHolds'
      BY <2>1, <2>2, <2>3 DEF SInv, ScanHolds, PastScan, Saving, Quiet
    <2>5. ClaimAccepted'
      BY <2>1, <2>2, <2>3 DEF SInv, ClaimAccepted, Claiming, Saving
    <2> QED BY <2>2, <2>4, <2>5, <1>t, QuietStep
  \* The one step that makes a record dispatched or complete.
  <1>9. ASSUME SaveFlush(Sched)
        PROVE  SInv'
    <2> DEFINE j == th[Sched].job
               rec == th[Sched].rec
    <2>1. Saving(Sched) /\ j \in Jobs /\ rec \in {"provisioned", "dispatched", "complete"}
      BY <1>9 DEF SaveFlush, Saving, SchedOK
    <2>2. accepted' = accepted /\ file' = [file EXCEPT ![j] = Overwrite(file[j], rec)]
      BY <1>9 DEF SaveFlush
    <2>3. \A i \in Jobs \ {j} : file'[i] = file[i]
      BY <2>2 DEF TInv, StateOK
    <2>4. file'[j].rec \in {rec, file[j].rec}
      BY <2>1, <2>2 DEF Overwrite, TInv, StateOK
    <2>5. th'[Sched] = AfterSave(Sched)
      BY <1>9 DEF SaveFlush, TInv, StateOK
    <2>6. CASE rec = "provisioned"
      <3>1. newpc = "boot"
        BY <2>5, <2>6 DEF AfterSave, ThreadStates
      <3>2. Quiet
        BY <2>2, <2>3, <2>4, <2>6, <1>a DEF Quiet
      <3>3. PastScan
        BY <2>1, <2>6 DEF PastScan
      <3>4. ScanHolds' /\ ClaimAccepted'
        BY <3>1, <3>2, <3>3 DEF SInv, Quiet, ScanHolds, ClaimAccepted, Claiming, Saving
      <3> QED BY <3>2, <3>4, <1>t, QuietStep
    <2>7. CASE rec \in {"dispatched", "complete"}
      <3>1. newpc \in {"queue_read", "finalize"}
        BY <2>5, <2>7 DEF AfterSave, ThreadStates
      <3>2. accepted[j] > 0
        BY <2>1, <2>7 DEF SInv, ClaimAccepted, Claiming
      <3>3. AcceptedBeforeComplete'
        BY <2>2, <2>3, <3>2 DEF SInv, AcceptedBeforeComplete
      <3>4. rec = "dispatched" => \A i \in Jobs : file[i].rec # "dispatched"
        BY <2>1 DEF SInv, ScanHolds, PastScan
      <3>5. AtMostOneDispatched'
        BY <2>3, <2>4, <2>7, <3>4 DEF SInv, AtMostOneDispatched
      <3> QED BY <3>1, <3>3, <3>5, <1>c, <1>t DEF SInv
    <2> QED BY <2>1, <2>6, <2>7
  <1> QED
    BY <1>1, <1>2, <1>3, <1>4, <1>5, <1>6, <1>7, <1>8, <1>9
    DEF Scheduler, SaveAndQueue

\* Every step keeps the safety invariant.
LEMMA SafeNext == SInv /\ [Next]_vars => SInv'
  <1> SUFFICES ASSUME SInv, [Next]_vars PROVE SInv'
    OBVIOUS
  <1>1. CASE UNCHANGED vars
    <2>1. TInv'
      BY <1>1, TNext DEF SInv
    <2>2. accepted \in [Jobs -> Int]
      BY DEF SInv, TInv, StateOK
    <2>3. Quiet
      BY <1>1, <2>2 DEF vars, disk, history, Quiet
    <2> QED BY <1>1, <2>1, <2>3, QuietOther DEF vars, disk, history
  <1> QED BY <1>1, SchedulerSafe, HandlerSafe, EnvironmentSafe DEF Next

\* However many jobs, threads and faults: two records never say dispatched.
THEOREM DispatchIsExclusive == Spec => []AtMostOneDispatched
  <1>1. SInv => AtMostOneDispatched
    BY DEF SInv
  <1> QED BY SafeInit, SafeNext, <1>1, PTL DEF Spec

\* However many jobs, threads and faults: a record says dispatched or complete
\* only for a job that a Processing TEE took.
THEOREM CompleteWasAccepted == Spec => []AcceptedBeforeComplete
  <1>1. SInv => AcceptedBeforeComplete
    BY DEF SInv
  <1> QED BY SafeInit, SafeNext, <1>1, PTL DEF Spec
================================================================================
