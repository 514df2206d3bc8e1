# Buffer TEE: models, checks and proofs

TLA+ models of the Buffer TEE in `src/`, the TLC runs that check small instances of
them, and TLAPS proofs of what holds for every instance. The Buffer TEE takes sealed
submissions from browsers, keeps jobs and their artifacts as files, gets a GPU or CPU
Processing TEE started for the next job, and hands the job over.

    browser --HPKE / AES-GCM--> Go enclave :8443 --plaintext HTTP--> Flask job service :4100
                                  | rotator goroutine                  | request threads
                                  | Builder (keys, token)              v
                                  v                                  job.json, artifacts, queue.json
                              OIDC token of the launcher               ^
                                                                       | scheduler thread
                            start/stop scripts (GPU VM, CPU VM) <------+----> RA-TLS client --> Processing TEE
                                                                                                   |
                                                                                 leaderboard <-----+

## 1. Inventory

| Component | State | Operations | Interacts with |
|---|---|---|---|
| Flask handlers, `enclave_manager_buffer.py` | `jobs/<id>/job.json`, `jobs/<id>/artifacts/*`, `queue.json` | `POST /buffer/jobs`; `PUT .../model`, `.../weights`, `.../preprocessing`; GET routes | the scheduler, through the files only |
| Scheduler thread, `job_scheduler.py` and the dispatch callback | the same files, `outgoing/*.json` | per tick: `_cleanup_old_jobs`, `_finalize_dispatched_jobs`, pick, provision, build the payload, send, `_mark_job_dispatched` | handlers (files), VMs (scripts, `/healthz`), TEE (RA-TLS client subprocess) |
| Provisioning, `_provision_processing_tee` | `gpu_provision_attempts` in `job.json`, `dispatch_state.json` | retry loop of stop, start, wait; CPU fallback; cooldown | start/stop scripts, `/healthz` |
| Go enclave: `bundle`, `rotation` | `Builder`: keys, OIDC token, under one RWMutex | `Build`, `HPKEKeys`, `RefreshOIDC`, `FullRotate`; two tickers in one goroutine | launcher (token), handlers |
| Go enclave: `HandleAttest`, `HandleSubmit`, uploads | the keys read for the request | decrypt, forward to Flask, seal the answer | Builder, Flask, browser |
| Chunked upload framing, `submit.go` | nonce, counter and plaintext of the request | header, chunk loop, hash, proxied PUT | browser, Flask |
| Auth middleware, `auth.go`, in front of the routes of `server.go` | JWKS cache under one RWMutex | `validateKeycloakJWT`, `getPublicKey`, `fetchJWKS`, `requireRole` | Keycloak, clients |
| RA-TLS client, `b2p-ratls` | one process, one pinned connection, one session's EKM | `Connect`, `VerifyOIDCToken`, the POST; started and killed by `_run_ratls_dispatch` | Processing TEE, scheduler |
| Start-up, `config.py`, `entrypoint.sh`, `evaluation_script.py` | none that changes | | |

Where the behaviour is hard:

- **Files without a lock.** `lib/buffer_lock.py` describes a lock for read-modify-write
  on `queue.json` and `job.json`, but only the scheduler thread takes it. Handler threads
  and the scheduler interleave at every file access, and `open("w")` truncates a file
  long before `json.dump`'s text is flushed. A scan over all jobs raises on any one
  unreadable record. `queue.json` may even be left unreadable for good, without a crash:
  two writers have it open, and the shorter text is flushed over the longer one. From then
  on nothing is queued or dispatched (`em_v_torn`).
- **Crashes.** The state is in the files; the service can die between any two accesses,
  and inside one.
- **A remote step that is not acknowledged.** The dispatch subprocess is killed after
  180 s, whatever the TEE did; a TEE reports to the leaderboard and deallocates itself,
  and is found finished only by a probe that fails.
- **Retries with limits.** GPU attempts per job, cooldown per VM, boot timeouts, all of
  which outlive the process.
- **Keys replaced under requests.** A browser seals to a bundle it fetched earlier; the
  rotator fetches tokens without the lock and then writes them.
- **A cache tested under one lock and filled under another.** Requests find a key stale or
  missing, queue for the write lock, and fetch with it held; meanwhile Keycloak publishes.
- **A body read frame by frame from whoever sends it**, with nonces counted on both sides.
- **A client that verifies one request's answer and sends the secret with the next**, to a
  peer that may be a relay, and that is killed while the payload is on its way.

What makes each component correct:

- *handlers and scheduler*: a job is evaluated once, one job at a time, from whole
  artifacts that verify; a queued job is listed; no file is torn for good and no record
  taken back; nothing is complete that no TEE took; every listed job is dispatched and
  every dispatched job completes (not all of it is so: section 3 has the violation runs,
  and which of the rest holds for serial clients only);
- *provisioning*: the counter counts what was started; the CPU is a fallback only; boots
  are capped; the cooldown is kept; a half-booted GPU VM is stopped; a job finds a TEE;
- *keys*: a served token binds the served keys; answers can be opened; only a key
  rotation costs a request;
- *framing*: what is forwarded is one whole file, and an intact upload is accepted;
- *authentication*: a withdrawn key is accepted for a bounded time only, a good token is
  refused only if a fetch failed, no data goes to a request without a valid token, and no
  path keeps the lock;
- *dispatch*: a payload leaves towards the attested TEE of the expected image only, one
  TEE takes it at most, and success is reported only of what was taken.

`PROJECT.json` lists every component with what is left out of it, and every hazard with
its line and the properties aimed at it.

## 2. Modules

| Module | Role |
|---|---|
| `EnclaveManager` | the job service: handlers, scheduler, Processing TEEs, faults |
| `JobLifecycle` | abstract: what the job service promises of a job; `EnclaveManager` refines it |
| `MCEnclaveManager` | instances of `EnclaveManager`; `LiveSpec`; symmetry |
| `EnclaveManagerProofs` | concurrent clients, all faults: types, `AtMostOneDispatched`, `AcceptedBeforeComplete`, complete payloads, the finality of a torn `queue.json` |
| `EnclaveManagerFilesProofs` | serial clients: no lost update; without a crash also no lasting torn record, whole payloads |
| `EnclaveManagerSerialProofs` | and no lost reply: one run per job; and no false probe: one job at a time, the refinement of `JobLifecycle` |
| `Provisioning` | `_provision_processing_tee` and what it calls; the VMs; crashes; a torn file |
| `MCProvisioning`, `ProvisioningProofs` | its instances; all its safety properties |
| `RatlsDispatch` | the RA-TLS client, its peers, and the service that starts and kills it |
| `Dispatch` | abstract: what an attempt promises the scheduler; `RatlsDispatch` refines it |
| `RatlsDispatchProofs` | `PayloadOnlyToTarget`; the refinement of `Dispatch` |
| `KeyRotation` | Builder, rotator, attest/submit/upload as far as they use keys |
| `MCKeyRotation`, `KeyRotationProofs` | its instances; all its invariants |
| `UploadFraming` | `decryptChunkedUpload` and the proxied PUT, over any body |
| `MCUploadFraming`, `UploadFramingProofs` | its instances; both its invariants |
| `Authentication` | the middleware, the JWKS cache, the routes; Keycloak and the clock |
| `MCAuthentication`, `AuthenticationProofs` | its instances; its four action properties |

A definition marked `Variant:` is a plausible bug of the operator after it. No action
uses one; `PROJECT.json` names the property that notices the bug.

### EnclaveManager

*State.* `file[j]` is `job.json`: whether it can be parsed, and the last save whose text
it holds. `queue` is `queue.json` likewise. `art[j]` are the artifact files (absent,
partial, good: what the submitter sent and committed to, bad: bytes that fail the hash),
`outgoing[j]` the dispatch payload, `assigned[j]` the TEE address in the record. `th[t]`
is where thread `t` is with its local variables (the loaded job, the record it will save,
the jobs still to be probed), `edit[t]` the queue it is about to write. `up` and
`running` are the Processing TEEs. `accepted`, `acked`, `delivered` are history.

*Actions.* One per file access, in the order of the code. `_save_job` is `SaveOpen`
(truncate) and `SaveFlush`; `_queue_job` and `_remove_job_from_queue` are `QueueRead`,
`QueueOpen`, `QueueFlush`; an upload is `StartUpload` (load the record, return early
unless it awaits uploads), `ArtifactOpen`, `ArtifactWrite` (early return on a hash
mismatch), `CheckComplete`, the save, the queue append. A tick is `Cleanup`,
`FinalizeScan`, `ProbeAlive`/`ProbeDead`, `Reload`, the save, `BusyScan`, `Pick`,
`ProvisionSave`, `Booted`/`NotBooted`, `Recheck`, `Send`, `MarkLoad`, the save, the queue
removal; every early return and every caught exception of a tick is `GiveUp`. A flush
over a text that is longer than the new one leaves a tail (`Overwrite`): the record is
unreadable until the next save. `queue.json` stays unreadable after such a flush
(`QueueFlush`, `TornForGood`): whoever would write it reads it first. Environment: `Crash`, `TeeFinish`, `TeeCrash`; a lost
reply is `Send(FALSE)`, a missed probe is `ProbeDead` of a TEE that is up.

*Abstracted.* `job_file_lock` (one thread takes it, it excludes nobody); time (grace
period, retention, tick: nondeterministic, retention longer than any request); what is in
an artifact; which VM is provisioned and how (`Provisioning`); `dispatch_state.json` (this
module would only write it); job ids are never used again (they are uuids); a read of a
small file is one step, and so is a scan of all records (only the scheduler writes the
statuses it scans for, so another cut would find the same); GET routes change nothing.

*What it implements.* `JobLifecycle` has no files and no threads: a job is created, queued,
taken, recorded as dispatched and then as complete, deleted; of all jobs one at a time is
between being taken and being complete. `Lifecycle` maps to it: a job's stage is what its
record says, a save counting as done once it has begun;
`taken` is `accepted`, `evaluating` what the TEEs run. `KeepsLifecycle` is
`JobLifecycle`'s specification under this mapping.

### Provisioning

`pc` is the place in `_provision_processing_tee`; `attempts` is persisted in `job.json`,
`age` in `dispatch_state.json`. One action per effect: `Tick`, `Probe`, `Loop`, `Stop`,
`StartSkipped` (cooldown), `StartScript` (accepted or refused), `StartRecorded`, `Count`
(the attempt is saved), `Poll`/`Healthy`, then `DispatchFails` or `NextJob`. A `Crash`
may come between any two. Time is counted in polls, ages saturate at `Cooldown`. A VM is
off, booting, ready or broken; the scripts are the request their exit code reports.
`StartRecorded` saves the time that was taken before the script ran, as the code does. A
crash in that save leaves `dispatch_state.json` torn: from then on whatever reads it
raises, and nothing ever writes it anew.

### RatlsDispatch

`run[a]` is attempt `a`: the process (`Dial`, `GetBundle`, `Verify`, `Post`, `Reply`, each
with its fatal exit), its one connection, the token it received, and what became of the
payload. A session's EKM nonce is the attempt's number. Whoever answers at the address may
be the TEE of an expected image, a TEE of another image, or a relay; which tokens it can
show is `Showable`, the one assumption on the world: a token that Google signed for one of
our images names no session but those that image itself served. The claims are the set of
checks a token stands; test mode takes the peer's word, as the code does. `Kill` is the
subprocess timeout at any point, `PeerReads` may come after it, `Drop` breaks the
connection. `Promise` maps to `Dispatch` by exit status and taker.

### KeyRotation

A generation of keys is its number and a token is the generation it binds, so
`VerifyEatNonce` is equality. `Generate`/`FullRotate` and `CopyKeys`/`RefreshOIDC` are
the two functions cut where they give up the lock for the fetch; `FetchFails` is each of
their error returns. A session is `Attest`, `Send`, `ReadKeys` (the handler reads the
Builder only when the body, or its first frame, is there), `OpenFails` or `Forward`, and
`Reply`. Each critical section of the mutex is one step. Tokens do not expire, and a
browser may keep a bundle for as long as it likes.

### UploadFraming

One handler's run over one body: `ReadHeader`, `ReadChunk` or `BadRead` per frame,
`CheckHash`, `ProxyPlaintextUpload`. Every frame is any chunk any browser ever sealed, the
header any combination of fields, so loss, repetition, reordering and mixtures of uploads
are all bodies. A chunk opens only for its key, nonce and additional data. The browser's
nonce is defined by arithmetic on the number the bytes stand for, as the protocol comment
has it (`submit.go:191`), the handler's by `Increment`, the carry loop on bytes.

### Authentication

`req[t]` is the request that thread `t` serves: in the lookup under the read lock, waiting
for the write lock, fetching with it held, holding the received document, verifying, at
the mux. A step under the read lock needs `writer = NoThread`. A document carries its
version and the time Keycloak made it; `withdrawn` records when a key last left Keycloak's
document, `kept` that a request's key has been there since it arrived. A token is what is
checked of it. Time ticks at any point, except that a document travels `ReplyDelay` at
most. Keys of other types than RSA are dropped by `fetchJWKS` and are not among `Kids`.

## 3. Runs

Passing runs:

| Run | Instance | What it shows |
|---|---|---|
| `em_serial` | 2 jobs, 2 handler threads, 2 TEEs, 3 artifact names, optional script, one TEE crash; a client waits for one upload before the next | Without a crash of the service or a lost reply, the protocol of status, queue and two scans is safe although nothing locks: a job runs once, one runs at a time, payloads are whole and complete, no `job.json` stays torn, no save is stale; in sum, it implements `JobLifecycle`. |
| `em_faults` | 2 jobs, 1 handler, 2 TEEs, one crash, one lost reply, one TEE crash, one missed probe | A crash at any file access, torn files included, leaves no two dispatched records and no dispatched or complete job that no TEE took. |
| `em_live` | 2 jobs, 1 handler, 1 TEE, one lost reply, one TEE crash, fairness | As long as `queue.json` is not torn for good, no listed job waits for ever behind whatever is left in front of it. Dispatched jobs complete, with `queue.json` torn too. The instance reaches the tear, without a crash: for those behaviours nothing is claimed of queued jobs, and `em_v_torn` shows one. |
| `prov_crash` | 3 attempts, cooldown 3, both VMs flaky and refusing, CPU configured or not, crashes, a torn `dispatch_state.json`, a VM that breaks | The counter stands for the starts; the CPU is a fallback; GPU boots are capped. |
| `prov_live` | a GPU VM that never comes up, CPU starts refused now and then, 2 crashes, fairness | The job is sent again and again; before the first crash, a half-booted GPU VM is off when the CPU is used and starts of one VM are a cooldown apart. |
| `rot_keys` | 2 sessions, 2 rotations | Bound bundles, readable answers, failures only across a rotation. |
| `upload` | nonces of 3 bytes of 2 values, every base, files of up to 3 chunks, one file sent twice and another | Only whole files are forwarded; an intact body is never refused. |
| `auth` | 2 requests, 2 keys, 3 tokens (an admin's, one that expires, a forged one), TTL 2, travel 1, 3 ticks, one publication | Withdrawn keys, the order of documents, refusals, authorisation; every request is answered. |
| `ratls` | 2 attempts, 2 expected images and another, a relay, test mode on or off | Who gets the payload; the refinement of `Dispatch`. |

Violation runs: each checks one sentence of the repository that the code does not keep.

| Run | The sentence | What the run shows |
|---|---|---|
| `em_v_listed` | `lib/buffer_lock.py:3-4`, the lock serializes compound operations on `queue.json` | Two uploads that complete different jobs read the same queue; one append is lost. Every artifact of the job was answered 200, the job stays queued, and is listed nowhere. |
| `em_v_torn` | the same sentence, for edits of different lengths | The scheduler, which removes a dispatched job, and an upload, which appends another, both read and open the queue. The upload flushes the longer list, the scheduler the shorter one over it. The file is unreadable and no thread is at it, hence it stays so (theorem `TearIsFinal`). |
| `em_v_rerun` | `enclave_manager_buffer.py:736-739`, a finished job is not dispatched again | Two concurrent uploads of one job: one completes it, it is dispatched and its record says so; the other, which loaded the record before, saves `queued` over `dispatched`. The TEE delivers, and the job is sent again. |

*Bounds.* Two jobs are the least with which queue updates collide, one job stands in
front of another and two could be dispatched; two handlers collide on one record and on
the queue while the scheduler makes a third party; two TEEs tell "one evaluation per TEE"
from "one in all". `MaxQueue` stops new uploads when two ids are listed. One fault of each
kind lets every pair of kinds meet. A cooldown of 3 polls is shorter than the boot wait
and longer than stop pause and tick in `prov_crash`, so that starts inside and outside
the cooldown both occur; three attempts have a first one (no stop), a middle one and a
last one. With two rotations a bundle can be two generations old; two sessions share
nothing but the Builder. Nonces of three bits let every carry and the wrap happen within
three chunks. Two requests are a fetcher and one that waits for its lock; with a TTL of 2
and 3 ticks the cache is fresh, goes stale and is filled again, and one publication adds
and withdraws keys at any point of that. Two attempts let a token of an earlier session be
shown in a later one.

*Fairness.* Every thread keeps running (weak fairness of each handler's next access and
of the scheduler). Strong fairness stands for luck that comes again and again: a start
requested outside the cooldown, a boot, a dispatch that gets through, a probe of a dead
TEE that fails out of the grace period. Clients owe nothing: a half-uploaded job may stay
so. `em_live` lets a client repeat an upload only if it was not answered 200: one that
uploads for ever keeps `job.json` torn at every tick, and as every scan raises on it, no
tick would get anywhere. In `Provisioning` the scheduler is weakly fair, and so is the
boot of a VM that is not dead; a start that is not refused for ever is accepted some time
(strong fairness). In `Authentication` a goroutine is scheduled and a fetch ends (nothing
in the code sees to that: `http.Get` has no timeout), and a waiter for the lock gets it
past the others (strong fairness: Go's mutex hands itself to a starved waiter). In
`RatlsDispatch` nothing is fair, and only safety is checked: a peer may keep a client
waiting for ever, and that the attempt then ends is the timeout of `subprocess.run`, which
is taken for granted (in `EnclaveManager` too, where a send is one step).

*Deadlock* is checked in every run but `ratls`, where all attempts may be over.

## 4. Proofs

Every invariant and action property that a passing run checks is a theorem here, and so
are both refinements. The theorems rest on the named `ASSUME`s of their modules (the
scheduler is not a handler; model and weights are artifacts; the bounds are naturals).
Where a module caps a counter, the theorem holds for every value of the cap. Seven have
a hypothesis on the constants besides, stated in the theorem and no stronger than the code
needs:

| Hypothesis | Theorems | Why it is needed |
|---|---|---|
| `SerialUploads` | `NoUpdateIsLost` | `em_v_rerun` shows what two uploads of one job do to its record |
| `Undisturbed`: also no crash of the service | `TornRecordsPass`, `PayloadsAreWhole` | a crash leaves a record torn or an artifact half written |
| `Once`: also no lost reply | `NoJobRunsTwice` | a job whose reply is lost, or whose record a crash left queued, is sent again |
| `NoFaults`: also no false probe | `EvaluationIsExclusive`, `ImplementsLifecycle` | a job that is falsely found finished makes room for the next |
| `"gpu" \notin Refusing`, and `breaks = 0` | `GpuStoppedBeforeCpu` | a refused stop leaves the VM running; one that breaks later is nobody's attempt |

`EnclaveManagerProofs`. `TInv` joins the types with `LocalOK`: which places each thread
can be at, and which records it can be saving there (a handler never saves `dispatched`).
From it `Types`. `AtMostOneDispatched` and `AcceptedBeforeComplete` are not inductive: a
scheduler that is about to save `dispatched` must have found no dispatched job, and still
find none, minutes after its scan; and the job it marks or completes must have been taken.
`ScanHolds` and `ClaimAccepted` say this, and hold because only the scheduler writes
`dispatched`, handlers save over it without restoring it, and a crash sends the scheduler
back to the start of its tick. `PayloadHasRequired` needs two threads to agree without a
lock: what a handler found when it counted the artifacts must still be there when it saves
`queued`, minutes later when the scheduler saves `provisioned`, and when the payload is
built. `RInv` says so of each of the three (`QueuerOK`, `ChosenOK`, `QueuedAt`): artifacts
are overwritten but never removed before `_cleanup` deletes a job that nobody is at, and
the commitments cannot change under a record that exists. All three hold for concurrent
clients, any number of crashes and all faults: they are what remains true where the runs
above show that much else does not. `AllTypes` adds what `queue.json` holds: `QInv` says
that a list that waits to be written is a list of jobs, for which `WithoutOK` shows, by
induction over the list, that taking a job out of a list leaves a list without it.
`TearIsFinal` says why `em_v_torn` matters and why `NoJobWaitsForever` needs its premise: no
step mends a `queue.json` that is unreadable while no thread has it open, since an edit
begins with a read that raises, and a crash leaves no thread at the file.

`EnclaveManagerFilesProofs`. Nothing locks `job.json`, so each thread must rely on what it
loaded. `FInv` says why it can. Two handlers are never at the same job (`HandlersApart`,
from the serial clients). While a handler has its job in hand the record still says
`pending_upload` (`UploadsOK`), and while the scheduler has one it says what the scheduler
read (`DispatchOK`, `TodoOK`): the two never hold the same job, since what one may take the
other may not (`ApartFromSched`). `NoStaleSave` is that no save finds a record beyond the
one it was made from. A crash does not disturb this: it leaves no thread with a record in hand,
and a record that it left torn is `empty`, which nobody loads. What a crash does end is
said of each job with `MaxCrashes = 0` as a condition: a record is torn, an artifact half
written, only while its writer is at it, and a payload was read when none was.

`EnclaveManagerSerialProofs`. `EInv` adds the Processing TEEs to `SInv` and `FInv`: a job
that was taken is past its dispatch, or the scheduler is at the save that makes it so
(`AcceptedAt`); what a TEE runs is dispatched to that TEE, or was sent a moment ago
(`RunningOK`, which a false probe would break and which is only claimed without one).
`NoJobRunsTwice` needs `AcceptedAt` alone, and follows although the job's id stays in the
queue until after the save; `EvaluationIsExclusive` by `AtMostOneDispatched`.
`ImplementsLifecycle` has a lemma per action: the stage of a job changes when a save of its record begins, since
the mapping counts it as done from then on, and the flush is a stutter.

`ProvisioningProofs`. `PlaceOK` says that between the loop's head and `Count` an attempt
is left, and that the CPU is worked on with none left. With `AttemptsAreStarts` it is
inductive, and gives `CpuIsFallback` and `GpuBootsCapped`. For `CooldownKept`, `AgeOK`: the
timestamps in `dispatch_state.json` are as old as the last requests, but between the
script and the save. The fallback to the other VM's timestamp can only lengthen a wait.
For `HalfBootedGpuIsStopped`, `BootOK`: a GPU VM between off and ready belongs to the
attempt under way.

`KeyRotationProofs`. `RotatorInv`: what is published is bound, and while the one rotator
is in its fetch nobody else changes the keys. `SessionInv`: a bundle is never newer than
the Builder, and a handler's keys lie between the two. All three invariants follow. A
second goroutine that rotates would break `RotatorInv`: the lock alone does not protect
`RefreshOIDC`.

`UploadFramingProofs`. The chunks assembled so far are chunks `0 .. i-1` of one upload: of
the one whose key the header unwraps to, since every chunk opened under it. The additional
data of the last carries that upload's total, so nothing shorter is forwarded. That an
intact upload is not refused is arithmetic: the browser's nonce for chunk i is the base
plus i, modulo the number of nonces, and the handler's is the base after i runs of the
carry loop. `IncrementAddsOne` shows by induction over the bytes that a run adds one: the
number of the first k bytes goes up by one, or wraps, if a carry comes into them, and stays
what it is if none does. `ValueInjective` makes the nonce with a number unique.
The induction is by the least natural number (`UpTo`), as the library's induction theorems
take an operator as a parameter.

`AuthenticationProofs`. `FetchOK`: whoever fetches holds the write lock, so the cache
cannot change between its fetch and its install, and its document is no older than the
cached one. `CacheOK`: a cached key was served at most a document's travel before the
cache was filled. `TokenOK`: a request behind the middleware carries a token that was
verified. The conjunction is inductive; three of the action properties follow from it by a
case on the one action that can disturb each. For `GoodTokenRefusedOnlyByFailure` it is
joined by `KeptOK`: a key that Keycloak kept since the request arrived is in the document
fetched for it.

`RatlsDispatchProofs`. An attempt that got past `Verify` and is not in test mode is
connected to the TEE of its target, and has not dialled since: the token names this
session's EKM, and only the TEE that runs the image can show one that does. With it each
step of the client is one of `Dispatch`, or a stutter.

*Model-checked only.* The liveness properties `NoJobWaitsForever`, `DispatchedCompletes`,
`JobsAreSent` and `EveryRequestAnswered`: the provers have no rule for
fairness and `ENABLED`.

## 5. Met while modelling, without a run

Each of these is a behaviour of the models; a run that shows it would say nothing new.

- An artifact that fails its hash is answered 400 but stays on disk, and
  `enclave_manager_buffer.py:318` only asks for existence: an upload of another artifact
  then queues the job, where `README.md:56` says the hashes verify first. So does a partial
  artifact after a crash inside `write_bytes`.
- A TEE that dies in mid-evaluation is taken for one that finished; the docstring at
  `enclave_manager_buffer.py:741-745` says so.
- Two concurrent uploads of one job, both answered 200, may leave it `pending_upload`
  with all files there, and a longer save may leave `job.json` torn, which stops every
  tick for all jobs.
- A crash inside the rewriting of `job.json` or `queue.json` leaves it torn too, with the
  same effect; one between the save of `queued` and the append leaves a queued job that is
  listed nowhere (its upload was not answered, so `QueuedJobIsListed` does not count it).
- A job whose reply is lost, or whose record a crash left queued after the TEE took it, is
  sent and evaluated again: nothing in the code prevents it.
- A refused stop, or a restart after the last attempt, leaves a GPU VM running while the
  CPU is used.
- Without its own timestamp a VM's cooldown falls back to the other one's
  (`enclave_manager_buffer.py:429`): the first CPU start may wait for the GPU's.
- No code stops the CPU VM when it is broken: it is asked to start again and again.
- A refused GPU start consumes no attempt (`enclave_manager_buffer.py:593`), so a GPU
  that cannot be started at all, for want of quota, keeps the job from the CPU for ever;
  `README.md:57` says the service falls back.
- A torn `dispatch_state.json` is read at every probe and never replaced: after a crash in
  its rewriting no job is sent any more until somebody removes it.
- A request sealed to the old key that arrives after the swap is answered 400
  (`submit.go:113`); `bundle.go:94` says in-flight requests complete with the old keys.
- `README.md:63` lists `/v1/attest` as needing no JWT and has tokens validated against the
  JWKS on every request; the middleware exempts `OPTIONS` and `/healthz` only, and uses
  keys up to an hour old.
- With authentication off (`auth.go:19`, all requests pass), `GET /v1/queue` still asks for
  the role and answers 403 without a token.
- With `RATLS_TEST_MODE` the client takes the peer's claims unsigned.
- While Keycloak does not answer, the fetch holds the write lock without a timeout, and
  requests whose key is cached wait too.

## 6. Not modelled

Token lifetimes of the Confidential Space launcher (named nowhere in the repository), so
a rotator that fails or hangs until its token expires; start-up and shutdown of the two
servers, which happen once (a restart is the crash of the other modules);
`getWellKnown`, `_requeue_job_id` and `_write_queue`, which have no caller; the sizes of
chunks and files in memory; the `go run` fallback of the dispatch command. `config.py`
reads its file once, `entrypoint.sh` fetches a certificate and starts two processes,
`evaluation_script.py` is a sequential computation that runs elsewhere; the Processing TEE
and the leaderboard are not in this repository, and neither is the Go package
`internal/keys`, which `KeyRotation` knows as "a new generation". Browsers, Keycloak and
the peers of a dispatch are modelled from how the code uses them.

## 7. Plan

Done: the modules of section 2, each with its run, and the proofs of section 4. Left:

1. Proofs: what the promise of `JobLifecycle` becomes with one fault of each kind (a lifecycle
   in which a taken job may be taken again), and its refinement.
2. Compositions: `EnclaveManager` with `Provisioning` (provisioning blocks finalization;
   the attempts and the status are in one record) and with `Dispatch` in place of its
   `Send`; `KeyRotation` with `EnclaveManager` (a lost answer leaves a pending job).
3. `KeyRotation` with the token's lifetime as a constant.
