---------------------------- MODULE EnclaveManager ----------------------------
(***************************************************************************)
(* The job service of the Buffer TEE: src/enclave_manager_buffer.py (Flask *)
(* handlers and dispatch callback) with src/job_scheduler.py (the          *)
(* scheduler thread).  Everything the service remembers is in files:       *)
(* jobs/<id>/job.json, jobs/<id>/artifacts/*, outgoing/*.json, queue.json. *)
(*                                                                         *)
(* The handler threads and the scheduler interleave at every file access.  *)
(* job_file_lock is not a variable here: only the scheduler thread takes   *)
(* it, so it excludes nobody.  A JSON file is written by open("w"), which  *)
(* truncates, and a flush at close; a reader in between sees an empty      *)
(* file, and a flush over a longer text that another writer flushed since  *)
(* the truncation leaves that text's tail behind (both are unreadable).    *)
(*                                                                         *)
(* Abstracted: the content of artifacts (is it what the submitter          *)
(* committed to?), time (the grace period, the retention and the tick are  *)
(* nondeterministic), which target provisioning picks and how (see         *)
(* Provisioning), dispatch_state.json (written, never read here).          *)
(***************************************************************************)
EXTENDS Integers, Sequences, FiniteSets

CONSTANTS
    Jobs,             \* job ids
    Handlers,         \* Flask request threads
    Sched,            \* the scheduler thread
    Tees,             \* addresses of the Processing TEEs
    Artifacts,        \* names of the files a submitter may upload
    Commitments,      \* sets of artifacts whose hash a submitter may commit to
    SerialUploads,    \* does a client wait for one upload before the next?
    Nil,
    MaxQueue,         \* no upload starts once queue.json holds this many ids
    MaxCrashes,       \* how often the service is killed and restarted
    MaxLostReplies,   \* how often a dispatch times out though it was accepted
    MaxTeeCrashes,    \* how often a Processing TEE dies in mid-evaluation
    MaxFalseProbes    \* how often /healthz fails on a TEE that is up

ASSUME SchedAssumption == Sched \notin Handlers
ASSUME ArtifactsAssumption ==
    {"model", "weights"} \subseteq Artifacts
ASSUME CommitmentsAssumption == Commitments \subseteq SUBSET Artifacts
ASSUME NilAssumption == Nil \notin Jobs \cup Tees \cup Artifacts
ASSUME BoundsAssumption ==
    /\ SerialUploads \in BOOLEAN
    /\ {MaxQueue, MaxCrashes, MaxLostReplies, MaxTeeCrashes, MaxFalseProbes}
            \subseteq Nat

VARIABLES
    file,       \* job.json of each job: [ok: is it readable, rec: its content]
    queue,      \* queue.json: [ok: is it readable, ids: its job ids]
    commit,     \* the artifacts each job's record holds an expected hash for
    art,        \* the artifact files of each job
    outgoing,   \* the dispatch payload file of each job
    assigned,   \* assigned_processing_tee of each job's record
    th,         \* per thread: where it is, and its local variables
    edit,       \* per thread: the ids it is about to write to queue.json
    up,         \* the Processing TEEs that answer /healthz
    running,    \* the jobs each Processing TEE is evaluating
    accepted,   \* history: how often (0, 1, 2 or more) a TEE took the job
    acked,      \* history: the artifacts whose upload was answered 200
    delivered,  \* history: jobs whose results reached the leaderboard
    faults      \* how many of each kind of fault have happened

disk == <<file, queue, commit, art, outgoing, assigned>>
tees == <<up, running>>
history == <<accepted, acked, delivered>>
vars == <<disk, th, edit, tees, history, faults>>

Threads == Handlers \cup {Sched}

(***************************************************************************)
(* Contents of job.json, by the last save that wrote them.  "provisioned"  *)
(* is a queued record with the provisioning fields in it.                  *)
(***************************************************************************)
Saved == {"pending_upload", "queued", "provisioned", "dispatched", "complete"}
Contents == Saved \cup {"none", "deleted", "empty"}
Status(rec) == IF rec = "provisioned" THEN "queued" ELSE rec

\* The order of the texts by length: "queued" is shorter than
\* "pending_upload", and every later save adds fields.
Size == [none |-> 0, deleted |-> 0, empty |-> 0, queued |-> 1,
         pending_upload |-> 2, provisioned |-> 3, dispatched |-> 4,
         complete |-> 5]

Copy == {"absent", "partial", "good", "bad"}
Texts == [ok : BOOLEAN, rec : Contents]

HandlerPCs == {"idle", "art_open", "art_write", "check"}
SchedPCs == {"sleep", "finalize_scan", "finalize", "reload", "busy_scan",
             "pick", "provision", "boot", "recheck", "send", "mark"}
SharedPCs == {"save_open", "save_flush", "queue_read", "queue_open",
              "queue_flush"}
PCs == HandlerPCs \cup SchedPCs \cup SharedPCs

Resting(t) ==
    [pc |-> IF t = Sched THEN "sleep" ELSE "idle", job |-> Nil, art |-> Nil,
     data |-> Nil, rec |-> Nil, tee |-> Nil, todo |-> {}]

Exists(j) == file[j].rec \notin {"none", "deleted"}
Readable(j) == Exists(j) /\ file[j].ok
Unreadable(j) == Exists(j) /\ ~file[j].ok
StatusIs(j, s) == Readable(j) /\ Status(file[j].rec) = s

Goto(t, label) == th' = [th EXCEPT ![t].pc = label]
\* A thread's request or tick ends: a reply, a return, or a caught exception.
Rest(t) == th' = [th EXCEPT ![t] = Resting(t)]

Init ==
    /\ file = [j \in Jobs |-> [ok |-> TRUE, rec |-> "none"]]
    /\ queue = [ok |-> TRUE, ids |-> <<>>]
    /\ commit = [j \in Jobs |-> {}]
    /\ art = [j \in Jobs |-> [a \in Artifacts |-> "absent"]]
    /\ outgoing = [j \in Jobs |-> Nil]
    /\ assigned = [j \in Jobs |-> Nil]
    /\ th = [t \in Threads |-> Resting(t)]
    /\ edit = [t \in Threads |-> <<>>]
    /\ up = {}
    /\ running = [e \in Tees |-> {}]
    /\ accepted = [j \in Jobs |-> 0]
    /\ acked = [j \in Jobs |-> {}]
    /\ delivered = {}
    /\ faults = [crash |-> 0, lost |-> 0, tee |-> 0, probe |-> 0]

--------------------------------------------------------------------------------
(***************************************************************************)
(* _save_job: open("w"), then the flush at close.                          *)
(***************************************************************************)

\* Variant: the file is never closed, so the text stays in the buffer.
OverwriteUnclosed(old, new) == old

\* What a JSON file holds when text "new" is flushed from its start.
Overwrite(old, new) ==
    IF Size[old.rec] > Size[new]
    THEN [ok |-> FALSE, rec |-> old.rec]
    ELSE [ok |-> TRUE, rec |-> new]

SaveOpen(t) ==
    /\ th[t].pc = "save_open"
    /\ file' = [file EXCEPT ![th[t].job] = [ok |-> FALSE, rec |-> "empty"]]
    /\ Goto(t, "save_flush")
    /\ UNCHANGED <<queue, commit, art, outgoing, assigned, tees, history, faults, edit>>

\* What the caller of _save_job does next, by the record it saved.
AfterSave(t) ==
    CASE th[t].rec = "pending_upload" -> Resting(t)
      [] th[t].rec \in {"queued", "dispatched"} ->
            [th[t] EXCEPT !.pc = "queue_read"]
      [] th[t].rec = "provisioned" -> [th[t] EXCEPT !.pc = "boot", !.rec = Nil]
      [] th[t].rec = "complete" ->
            [th[t] EXCEPT !.pc = "finalize", !.rec = Nil, !.job = Nil]

SaveFlush(t) ==
    LET j == th[t].job
        rec == th[t].rec
    IN  /\ th[t].pc = "save_flush"
        /\ file' = [file EXCEPT ![j] = Overwrite(file[j], rec)]
        /\ assigned' = IF rec = "dispatched"
                       THEN [assigned EXCEPT ![j] = th[t].tee] ELSE assigned
        /\ acked' = IF rec = "pending_upload" /\ th[t].art # Nil
                    THEN [acked EXCEPT ![j] = @ \cup {th[t].art}] ELSE acked
        /\ th' = [th EXCEPT ![t] = AfterSave(t)]
        /\ UNCHANGED <<queue, commit, art, outgoing, tees, accepted, delivered,
                       faults, edit>>

(***************************************************************************)
(* _queue_job appends the id (an upload that completes its job);           *)
(* _remove_job_from_queue drops every copy of it (the scheduler, once the  *)
(* job is dispatched).  Each reads queue.json, truncates it, flushes it.   *)
(***************************************************************************)
Without(ids, j) ==
    LET kept[n \in 0..Len(ids)] ==
            IF n = 0 THEN <<>>
            ELSE IF ids[n] = j THEN kept[n - 1] ELSE Append(kept[n - 1], ids[n])
    IN  kept[Len(ids)]

\* Variant: the artifact's name is appended instead of the job's id.
EditedQueueSwapped(t) ==
    IF t = Sched THEN Without(queue.ids, th[t].job)
                 ELSE Append(queue.ids, th[t].art)

EditedQueue(t) ==
    IF t = Sched THEN Without(queue.ids, th[t].job)
                 ELSE Append(queue.ids, th[t].job)

QueueRead(t) ==
    /\ th[t].pc = "queue_read"
    /\ queue.ok
    /\ Goto(t, "queue_open")
    /\ edit' = [edit EXCEPT ![t] = EditedQueue(t)]
    /\ UNCHANGED <<disk, tees, history, faults>>

\* json.load raises on a torn queue.json: 400, or the end of the tick.
QueueReadRaises(t) ==
    /\ th[t].pc = "queue_read"
    /\ ~queue.ok
    /\ Rest(t)
    /\ UNCHANGED <<disk, tees, history, faults, edit>>

QueueOpen(t) ==
    /\ th[t].pc = "queue_open"
    /\ queue' = [ok |-> FALSE, ids |-> <<>>]
    /\ Goto(t, "queue_flush")
    /\ UNCHANGED <<file, commit, art, outgoing, assigned, tees, history, faults, edit>>

QueueFlush(t) ==
    /\ th[t].pc = "queue_flush"
    /\ queue' = IF Len(queue.ids) > Len(edit[t])
                THEN [queue EXCEPT !.ok = FALSE]
                ELSE [ok |-> TRUE, ids |-> edit[t]]
    /\ edit' = [edit EXCEPT ![t] = <<>>]
    /\ acked' = IF t = Sched THEN acked
                ELSE [acked EXCEPT ![th[t].job] = @ \cup {th[t].art}]
    /\ Rest(t)
    /\ UNCHANGED <<file, commit, art, outgoing, assigned, tees, accepted,
                   delivered, faults>>

SaveAndQueue(t) ==
    \/ SaveOpen(t) \/ SaveFlush(t)
    \/ QueueRead(t) \/ QueueReadRaises(t) \/ QueueOpen(t) \/ QueueFlush(t)

--------------------------------------------------------------------------------
(***************************************************************************)
(* The Flask handlers.                                                     *)
(***************************************************************************)
Uploading(j) == \E h \in Handlers : th[h].job = j

\* What may arrive for artifact a of job j: with a committed hash, also
\* bytes that do not match it.
Arriving(j, a) == IF a \in commit[j] THEN {"good", "bad"} ELSE {"good"}

\* POST /buffer/jobs: _create_job_record, up to its _save_job.
Create(h, j, c) ==
    /\ th[h].pc = "idle"
    /\ file[j].rec = "none"
    /\ ~Uploading(j)
    /\ commit' = [commit EXCEPT ![j] = c]
    /\ th' = [th EXCEPT ![h].pc = "save_open", ![h].job = j,
                        ![h].rec = "pending_upload"]
    /\ UNCHANGED <<file, queue, art, outgoing, assigned, tees, history, faults, edit>>

\* Variant: a job that is already queued still takes uploads.
StartUploadLate(h, j, a) ==
    /\ th[h].pc = "idle"
    /\ StatusIs(j, "pending_upload") \/ StatusIs(j, "queued")
    /\ Len(queue.ids) < MaxQueue
    /\ SerialUploads => ~Uploading(j)
    /\ \E d \in Arriving(j, a) :
        th' = [th EXCEPT ![h].pc = "art_open", ![h].job = j, ![h].art = a,
                         ![h].data = d]
    /\ UNCHANGED <<disk, tees, history, faults, edit>>

\* PUT /buffer/jobs/<id>/<artifact>: _receive_artifact loads the record and
\* goes on only if it is awaiting uploads (otherwise nothing changes: 400).
StartUpload(h, j, a) ==
    /\ th[h].pc = "idle"
    /\ StatusIs(j, "pending_upload")
    /\ Len(queue.ids) < MaxQueue
    /\ SerialUploads => ~Uploading(j)
    /\ \E d \in Arriving(j, a) :
        th' = [th EXCEPT ![h].pc = "art_open", ![h].job = j, ![h].art = a,
                         ![h].data = d]
    /\ UNCHANGED <<disk, tees, history, faults, edit>>

\* path.write_bytes: truncate ...
ArtifactOpen(h) ==
    /\ th[h].pc = "art_open"
    /\ art' = [art EXCEPT ![th[h].job][th[h].art] = "partial"]
    /\ Goto(h, "art_write")
    /\ UNCHANGED <<file, queue, commit, outgoing, assigned, tees, history, faults, edit>>

\* ... and write; a hash mismatch is a 400 that leaves the file in place.
ArtifactWrite(h) ==
    /\ th[h].pc = "art_write"
    /\ art' = [art EXCEPT ![th[h].job][th[h].art] = th[h].data]
    /\ IF th[h].data = "bad" THEN Rest(h) ELSE Goto(h, "check")
    /\ UNCHANGED <<file, queue, commit, outgoing, assigned, tees, history, faults, edit>>

Required(j) == {"model", "weights"} \cup (commit[j] \cap {"preprocessing"})

\* Variant: the committed preprocessing script is not waited for.
AllRequiredNoScript(j) == \A a \in {"model", "weights"} : art[j][a] # "absent"

AllRequired(j) == \A a \in Required(j) : art[j][a] # "absent"

\* all_required decides which record this thread will save.
CheckComplete(h) ==
    /\ th[h].pc = "check"
    /\ th' = [th EXCEPT ![h].pc = "save_open",
                        ![h].rec = IF AllRequired(th[h].job) THEN "queued"
                                   ELSE "pending_upload"]
    /\ UNCHANGED <<disk, tees, history, faults, edit>>

HandlerSteps(h) ==
    \/ ArtifactOpen(h) \/ ArtifactWrite(h) \/ CheckComplete(h)
    \/ SaveAndQueue(h)

Handler(h) ==
    \/ \E j \in Jobs, c \in Commitments : Create(h, j, c)
    \/ \E j \in Jobs, a \in Artifacts : StartUpload(h, j, a)
    \/ HandlerSteps(h)

--------------------------------------------------------------------------------
(***************************************************************************)
(* The scheduler thread: cleanup, then one dispatch callback per tick.     *)
(***************************************************************************)

\* _cleanup_old_jobs: jobs past retention go, one that cannot be read stays.
\* (JOB_RETENTION_SECONDS, a day, is far longer than any request.)
Cleanup(old) ==
    /\ th[Sched].pc = "sleep"
    /\ \A j \in old : StatusIs(j, "complete") /\ ~Uploading(j)
    /\ file' = [j \in Jobs |-> IF j \in old THEN [ok |-> TRUE, rec |-> "deleted"]
                               ELSE file[j]]
    /\ art' = [j \in Jobs |-> IF j \in old THEN [a \in Artifacts |-> "absent"]
                              ELSE art[j]]
    /\ Goto(Sched, "finalize_scan")
    /\ UNCHANGED <<queue, commit, outgoing, assigned, tees, history, faults, edit>>

Dispatched == {j \in Jobs : StatusIs(j, "dispatched")}

\* _finalize_dispatched_jobs lists the dispatched jobs.  One unreadable
\* job.json, of any job, raises and ends the tick.
FinalizeScan ==
    /\ th[Sched].pc = "finalize_scan"
    /\ \A j \in Jobs : ~Unreadable(j)
    /\ th' = [th EXCEPT ![Sched].pc = "finalize", ![Sched].todo = Dispatched]
    /\ UNCHANGED <<disk, tees, history, faults, edit>>

\* A job in its grace period, or whose TEE answers the probe, is left alone.
ProbeAlive(j) ==
    /\ th[Sched].pc = "finalize"
    /\ j \in th[Sched].todo
    /\ th' = [th EXCEPT ![Sched].todo = @ \ {j}]
    /\ UNCHANGED <<disk, tees, history, faults, edit>>

\* The probe fails: the TEE is down, or (a fault) it is up and answers late.
ProbeDead(j) ==
    LET false == IF assigned[j] \in up THEN 1 ELSE 0
    IN  /\ th[Sched].pc = "finalize"
        /\ j \in th[Sched].todo
        /\ faults.probe + false <= MaxFalseProbes
        /\ faults' = [faults EXCEPT !.probe = @ + false]
        /\ th' = [th EXCEPT ![Sched].pc = "reload", ![Sched].job = j,
                            ![Sched].todo = @ \ {j}]
        /\ UNCHANGED <<disk, tees, history, edit>>

\* Variant: a record that is no longer dispatched ends the loop of the tick
\* with the completion unsaved.
ReloadUnsaved ==
    /\ th[Sched].pc = "reload"
    /\ th' = [th EXCEPT ![Sched].pc = "finalize", ![Sched].job = Nil]
    /\ UNCHANGED <<disk, tees, history, faults, edit>>

\* The record is read again; only one that is still dispatched is completed.
Reload ==
    LET j == th[Sched].job
    IN  /\ th[Sched].pc = "reload"
        /\ ~Unreadable(j)
        /\ th' = IF StatusIs(j, "dispatched")
                 THEN [th EXCEPT ![Sched].pc = "save_open",
                                 ![Sched].rec = "complete"]
                 ELSE [th EXCEPT ![Sched].pc = "finalize", ![Sched].job = Nil]
        /\ UNCHANGED <<disk, tees, history, faults, edit>>

FinalizeDone ==
    /\ th[Sched].pc = "finalize"
    /\ th[Sched].todo = {}
    /\ Goto(Sched, "busy_scan")
    /\ UNCHANGED <<disk, tees, history, faults, edit>>

\* Variant: the scan of dispatched jobs is skipped.
BusyScanSkipped ==
    /\ th[Sched].pc = "busy_scan"
    /\ \A j \in Jobs : ~Unreadable(j)
    /\ Goto(Sched, "pick")
    /\ UNCHANGED <<disk, tees, history, faults, edit>>

\* dispatch_next_queued_job: nothing is dispatched while something is.
BusyScan ==
    /\ th[Sched].pc = "busy_scan"
    /\ \A j \in Jobs : ~Unreadable(j)
    /\ IF Dispatched = {} THEN Goto(Sched, "pick") ELSE Rest(Sched)
    /\ UNCHANGED <<disk, tees, history, faults, edit>>

\* Variant: the status of a listed job is not looked at.
NextQueuedAnyStatus(j) ==
    /\ queue.ok
    /\ \E i \in DOMAIN queue.ids : queue.ids[i] = j /\ Readable(j)

\* Variant: only the head of the queue is looked at.
NextQueuedHeadOnly(j) ==
    queue.ok /\ queue.ids # <<>> /\ Head(queue.ids) = j /\ StatusIs(j, "queued")

\* _next_queued_job returns j: the first listed id whose record exists and
\* is queued.  It raises on an unreadable file it meets before that.
NextQueued(j) ==
    /\ queue.ok
    /\ \E i \in DOMAIN queue.ids :
        /\ queue.ids[i] = j
        /\ StatusIs(j, "queued")
        /\ \A k \in 1..(i - 1) :
            /\ ~Unreadable(queue.ids[k])
            /\ ~StatusIs(queue.ids[k], "queued")

Pick(j) ==
    /\ th[Sched].pc = "pick"
    /\ NextQueued(j)
    /\ th' = [th EXCEPT ![Sched].pc = "provision", ![Sched].job = j]
    /\ UNCHANGED <<disk, tees, history, faults, edit>>

\* _provision_processing_tee saves the record it was given before it waits
\* for a target (no lock is held, the record may be stale) ...
ProvisionSave ==
    /\ th[Sched].pc = "provision"
    /\ th' = [th EXCEPT ![Sched].pc = "save_open", ![Sched].rec = "provisioned"]
    /\ UNCHANGED <<disk, tees, history, faults, edit>>

\* ... then target e is healthy, or is not and a further attempt is made.
Booted(e) ==
    /\ th[Sched].pc = "boot"
    /\ up' = up \cup {e}
    /\ th' = [th EXCEPT ![Sched].pc = "recheck", ![Sched].tee = e]
    /\ UNCHANGED <<disk, running, history, faults, edit>>

NotBooted ==
    /\ th[Sched].pc = "boot"
    /\ Goto(Sched, "provision")
    /\ UNCHANGED <<disk, tees, history, faults, edit>>

\* _build_secure_dispatch_payload: the files as they are at that moment.
Payload(j) == art[j]

\* The job must still be the next one; its payload is built from the files.
\* _next_queued_job returns another job or none, or the read of a missing
\* artifact raises: then the tick ends (GiveUp).
Recheck ==
    LET j == th[Sched].job
    IN  /\ th[Sched].pc = "recheck"
        /\ NextQueued(j)
        /\ \A a \in {"model", "weights"} : art[j][a] # "absent"
        /\ outgoing' = [outgoing EXCEPT ![j] = Payload(j)]
        /\ Goto(Sched, "send")
        /\ UNCHANGED <<file, queue, commit, art, assigned, tees, history, faults, edit>>

\* The RA-TLS client delivers the payload and the TEE takes the job.  The
\* subprocess may still fail: its 180 s pass, or the reply is lost.
Send(ok) ==
    LET j == th[Sched].job
        e == th[Sched].tee
        lost == IF ok THEN 0 ELSE 1
    IN  /\ th[Sched].pc = "send"
        /\ e \in up
        /\ faults.lost + lost <= MaxLostReplies
        /\ faults' = [faults EXCEPT !.lost = @ + lost]
        /\ running' = [running EXCEPT ![e] = @ \cup {j}]
        /\ accepted' = [accepted EXCEPT ![j] = IF @ < 2 THEN @ + 1 ELSE 2]
        /\ IF ok THEN Goto(Sched, "mark") ELSE Rest(Sched)
        /\ UNCHANGED <<disk, up, acked, delivered, edit>>

\* _mark_job_dispatched loads whatever record is there, then saves it.
MarkLoad ==
    /\ th[Sched].pc = "mark"
    /\ Readable(th[Sched].job)
    /\ th' = [th EXCEPT ![Sched].pc = "save_open", ![Sched].rec = "dispatched"]
    /\ UNCHANGED <<disk, tees, history, faults, edit>>

\* Variant: the exit code of the RA-TLS client is not looked at.
GiveUpUnchecked ==
    /\ th[Sched].pc = "send"
    /\ Goto(Sched, "mark")
    /\ UNCHANGED <<disk, tees, history, faults, edit>>

\* Every way a tick ends early.
GiveUp ==
    LET j == th[Sched].job
    IN  /\ \/ /\ th[Sched].pc \in {"finalize_scan", "busy_scan"}
              /\ \E i \in Jobs : Unreadable(i)
           \/ th[Sched].pc \in {"reload", "mark"} /\ Unreadable(j)
           \/ th[Sched].pc = "pick" /\ \A i \in Jobs : ~NextQueued(i)
           \/ th[Sched].pc \in {"provision", "send"}
           \/ /\ th[Sched].pc = "recheck"
              /\ ~NextQueued(j) \/ \E a \in {"model", "weights"} : art[j][a] = "absent"
        /\ Rest(Sched)
        /\ UNCHANGED <<disk, tees, history, faults, edit>>

Scheduler ==
    \/ \E old \in SUBSET Jobs : Cleanup(old)
    \/ FinalizeScan \/ FinalizeDone \/ Reload
    \/ \E j \in Jobs : ProbeAlive(j) \/ ProbeDead(j) \/ Pick(j)
    \/ BusyScan \/ ProvisionSave \/ NotBooted \/ Recheck
    \/ \E e \in Tees : Booted(e)
    \/ \E ok \in BOOLEAN : Send(ok)
    \/ MarkLoad \/ GiveUp
    \/ SaveAndQueue(Sched)

--------------------------------------------------------------------------------
(***************************************************************************)
(* What happens to the service.                                            *)
(***************************************************************************)

\* The process is killed and restarted: the files stay as they are, torn
\* ones included, and every thread starts afresh.
Crash ==
    /\ faults.crash < MaxCrashes
    /\ faults' = [faults EXCEPT !.crash = @ + 1]
    /\ th' = [t \in Threads |-> Resting(t)]
    /\ edit' = [t \in Threads |-> <<>>]
    /\ UNCHANGED <<disk, tees, history>>

\* A Processing TEE delivers its results to the leaderboard and then
\* deallocates itself; it does not report back.
TeeFinish(e) ==
    /\ running[e] # {}
    /\ delivered' = delivered \cup running[e]
    /\ running' = [running EXCEPT ![e] = {}]
    /\ up' = up \ {e}
    /\ UNCHANGED <<disk, th, accepted, acked, faults, edit>>

TeeCrash(e) ==
    /\ e \in up
    /\ faults.tee < MaxTeeCrashes
    /\ faults' = [faults EXCEPT !.tee = @ + 1]
    /\ running' = [running EXCEPT ![e] = {}]
    /\ up' = up \ {e}
    /\ UNCHANGED <<disk, th, history, edit>>

Environment == Crash \/ \E e \in Tees : TeeFinish(e) \/ TeeCrash(e)

Next == Scheduler \/ (\E h \in Handlers : Handler(h)) \/ Environment

Spec == Init /\ [][Next]_vars

(***************************************************************************)
(* Fairness.  A thread that can take a step takes it (each step is a local *)
(* computation or a file access).  What depends on luck is strongly fair:  *)
(* a start is requested outside the cooldown in some tick, a target boots  *)
(* on some attempt, a dispatch gets through on some attempt, a probe of a  *)
(* TEE that is down and out of its grace period fails.  Nothing obliges a  *)
(* client to create or upload.                                             *)
(***************************************************************************)
ProbeFails == \E j \in Jobs : assigned[j] \notin up /\ ProbeDead(j)

Fairness ==
    /\ \A h \in Handlers : WF_vars(HandlerSteps(h))
    /\ WF_vars(Scheduler)
    /\ \A e \in Tees : WF_vars(TeeFinish(e))
    /\ SF_vars(ProvisionSave)
    /\ SF_vars(\E e \in Tees : Booted(e))
    /\ SF_vars(Send(TRUE))
    /\ SF_vars(ProbeFails)

--------------------------------------------------------------------------------
(***************************************************************************)
(* Properties.                                                             *)
(***************************************************************************)
ThreadStates ==
    [pc : PCs, job : Jobs \cup {Nil}, art : Artifacts \cup {Nil},
     data : {"good", "bad", Nil}, rec : Saved \cup {Nil},
     tee : Tees \cup {Nil}, todo : SUBSET Jobs]

\* The type of every variable but the queue and the edits of it.
StateOK ==
    /\ file \in [Jobs -> Texts]
    /\ commit \in [Jobs -> SUBSET Artifacts]
    /\ art \in [Jobs -> [Artifacts -> Copy]]
    /\ outgoing \in [Jobs -> [Artifacts -> Copy] \cup {Nil}]
    /\ assigned \in [Jobs -> Tees \cup {Nil}]
    /\ th \in [Threads -> ThreadStates]
    /\ up \in SUBSET Tees
    /\ running \in [Tees -> SUBSET Jobs]
    /\ accepted \in [Jobs -> 0..2]
    /\ acked \in [Jobs -> SUBSET Artifacts]
    /\ delivered \in SUBSET Jobs
    /\ faults \in [crash : 0..MaxCrashes, lost : 0..MaxLostReplies,
                   tee : 0..MaxTeeCrashes, probe : 0..MaxFalseProbes]

\* The queue and the edits of it are sequences of job ids.
QueueOK ==
    /\ queue \in [ok : BOOLEAN, ids : Seq(Jobs)]
    /\ edit \in [Threads -> Seq(Jobs)]

\* Every variable has its type: in particular each job.json always holds
\* the text of one of the saves, whole or not.
TypeOK == StateOK /\ QueueOK

\* At no time do two records say dispatched, whatever the handlers, crashes
\* and lost replies do: the one-job-at-a-time rule of
\* dispatch_next_queued_job, which it keeps by scanning before it picks.
AtMostOneDispatched ==
    \A i, j \in Jobs :
        file[i].rec = "dispatched" /\ file[j].rec = "dispatched" => i = j

\* A record says dispatched or complete only for a job a Processing TEE
\* took: no race, crash or stale save moves a job past its dispatch.
AcceptedBeforeComplete ==
    \A j \in Jobs :
        file[j].rec \in {"dispatched", "complete"} => accepted[j] > 0

\* No Processing TEE takes a job twice (without crash or lost reply, and
\* with a client that uploads one artifact at a time): the queue, the status
\* in job.json and the two scans of a tick together stop a job from being
\* dispatched again, also while its id is still listed.
RunsAtMostOnce == \A j \in Jobs : accepted[j] < 2

\* The Processing TEEs evaluate one job at a time, over all of them (where no
\* probe is false either): a tick that finds a dispatched job starts nothing.
OneEvaluationAtATime ==
    \A e, f \in Tees : \A i \in running[e], j \in running[f] : e = f /\ i = j

\* No dispatch payload is built from a half-written artifact, though uploads
\* and _build_secure_dispatch_payload share no lock.
NoPartialPayload ==
    \A j \in Jobs : outgoing[j] # Nil =>
        \A a \in Artifacts : outgoing[j][a] # "partial"

\* A payload holds every artifact the job's record requires: the model, the
\* weights and, if its hash was committed to, the preprocessing script.
PayloadHasRequired ==
    \A j \in Jobs : outgoing[j] # Nil =>
        \A a \in Required(j) : outgoing[j][a] # "absent"

\* A job.json is unreadable only while some thread is between the truncation
\* and the flush of that very file; no two writers leave a torn record behind.
TornIsTransient ==
    \A j \in Jobs : Unreadable(j) =>
        \E t \in Threads : th[t].pc = "save_flush" /\ th[t].job = j

\* No thread is about to save a record that would take its job back to an
\* earlier stage of its life than the one on disk (a lost update).
Stage == [none |-> 0, empty |-> 0, pending_upload |-> 1, queued |-> 2,
          provisioned |-> 3, dispatched |-> 4, complete |-> 5, deleted |-> 6]
NoStaleSave ==
    \A t \in Threads : th[t].pc \in {"save_open", "save_flush"} =>
        Stage[th[t].rec] >= Stage[file[th[t].job].rec]

\* The record of j, taking a save for done once it has begun.
Recorded(j) ==
    IF \E t \in Threads : th[t].pc = "save_flush" /\ th[t].job = j
    THEN (CHOOSE r \in Saved :
             \E t \in Threads : th[t].pc = "save_flush" /\ th[t].job = j /\ th[t].rec = r)
    ELSE file[j].rec

Lifecycle == INSTANCE JobLifecycle WITH
    stage <- [j \in Jobs |-> Status(Recorded(j))],
    taken <- {j \in Jobs : accepted[j] > 0},
    evaluating <- UNION {running[e] : e \in Tees}

\* For a client that uploads one artifact at a time, and short of crashes and
\* lost replies, the files and threads implement JobLifecycle: every record
\* goes through its stages in order, no job is taken twice or out of turn,
\* and none is complete while it is evaluated.
KeepsLifecycle == Lifecycle!Spec

Listed(j) == \E i \in DOMAIN queue.ids : queue.ids[i] = j

\* queue.json cannot be read, and no thread is between the truncation and the
\* flush of it, or about to truncate it.  Nothing mends it any more, since
\* _queue_job and _remove_job_from_queue read before they write.
TornForGood ==
    ~queue.ok /\ \A t \in Threads : th[t].pc \notin {"queue_open", "queue_flush"}

\* Unless queue.json is ever torn for good (it may be, see
\* TornQueueIsTransient; then nothing is dispatched any more), no job stays
\* queued and listed for ever, past lost replies and dead TEEs, wherever in
\* the queue it is and whatever stays listed in front of it (as the id of a
\* dispatched job does if _remove_job_from_queue meets a truncated file).
NoJobWaitsForever ==
    []~TornForGood => \A j \in Jobs : <>[]~(StatusIs(j, "queued") /\ Listed(j))

\* A dispatched job is in the end complete: neither a dead TEE nor a torn
\* file leaves it dispatched, which would stop every other job.
DispatchedCompletes ==
    \A j \in Jobs : StatusIs(j, "dispatched") ~> file[j].rec \in {"complete", "deleted"}

(***************************************************************************)
(* What the comments and the README say and the code does not do: each is  *)
(* the property of one run that shows how.                                 *)
(***************************************************************************)

\* lib/buffer_lock.py:3-4, the lock serializes compound read-modify-write
\* operations on queue.json: so a queued job is listed, if every artifact it
\* requires was answered 200 (its append went through) and no upload of it
\* goes on.
QueuedJobIsListed ==
    \A j \in Jobs :
        /\ StatusIs(j, "queued")
        /\ Required(j) \subseteq acked[j]
        /\ queue.ok
        /\ ~Uploading(j)
        => Listed(j)

\* lib/buffer_lock.py:3-4 once more, for two edits of queue.json that flush
\* texts of different lengths: no two threads have it open at once, so it is
\* never torn but while a thread that will flush it is at it.
TornQueueIsTransient == ~TornForGood

\* enclave_manager_buffer.py:736-739, a job that was dispatched and whose
\* Processing TEE has finished is done and is not dispatched again.  A record
\* that once said dispatched has named its TEE (SaveFlush sets assigned with
\* that status only, and nothing clears it).
DoneNeverReruns ==
    [][\A j \in Jobs : assigned[j] # Nil /\ j \in delivered
            => accepted'[j] = accepted[j]]_vars
================================================================================
