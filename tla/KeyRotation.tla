---------------------------- MODULE KeyRotation ----------------------------
(***************************************************************************)
(* The attested keys of the Go enclave (internal/bundle, internal/rotation *)
(* and the handlers of internal/server that use the keys).                 *)
(*                                                                         *)
(* One Builder holds the HPKE and binding keys and the OIDC token whose    *)
(* eat_nonce binds them.  One rotator goroutine refreshes the token or     *)
(* replaces keys and token; the request handlers run beside it and take    *)
(* the Builder's lock only for the moment in which they read it.  A        *)
(* browser attests, seals its submission and its uploads to the key of the *)
(* bundle it was served, and the handler that opens them reads the keys    *)
(* anew: the keys may have been replaced in between.                       *)
(*                                                                         *)
(* A generation of keys is its number; a token is the generation it binds. *)
(* The lock is not a variable: each critical section is one step.          *)
(***************************************************************************)
EXTENDS Naturals

CONSTANTS Sessions,      \* browser sessions
          MaxRotations   \* bound on the key generations made after start

ASSUME RotationsAssumption == MaxRotations \in Nat

VARIABLES builder,    \* Builder: [keys, oidcToken]
          generated,  \* the newest generation keys.Generate has returned
          rotator,    \* [pc, k]: what the goroutine does and its local keys
          session     \* per session, its bundle, its request and its reply

vars == <<builder, generated, rotator, session>>

Generations == 0 .. MaxRotations

\* What verifyEatNonce asserts of a token and a pair of keys.
VerifyEatNonce(token, k) == token = k

\* AttestBundle, with the parts that name a generation.
Bundle == [keys : Generations, oidcToken : Generations]

(***************************************************************************)
(* A session's request is "none", on its way ("sent"), held by a handler   *)
(* that has read the keys ("keyed"), or passed on to the buffer manager    *)
(* ("forwarded").  held is the handler's hpkePriv/hpkePub pair; info is    *)
(* the enclave key in the context the reply was sealed with; has says      *)
(* whether the browser holds a bundle and whether it knows a job.          *)
(***************************************************************************)
Session == [has : SUBSET {"bundle", "job"}, bundle : Bundle,
            request : {"none", "sent", "keyed", "forwarded"},
            kind : {"submit", "upload"},
            held : Generations, info : Generations,
            reply : {"none", "ok", "error", "decryption failed"}]

\* NewBuilder: the first generation, its token fetched and verified.
Init ==
  /\ builder = [keys |-> 0, oidcToken |-> 0]
  /\ generated = 0
  /\ rotator = [pc |-> "select", k |-> 0]
  /\ session = [s \in Sessions |->
                  [has |-> {}, bundle |-> builder, request |-> "none",
                   kind |-> "submit", held |-> 0, info |-> 0, reply |-> "none"]]

-----------------------------------------------------------------------------
(* The rotator goroutine: one tick of either ticker at a time. *)

\* Variant: the generated keys are published before their token is fetched.
GenerateInstalls ==
  /\ rotator.pc = "select"
  /\ generated < MaxRotations
  /\ generated' = generated + 1
  /\ rotator' = [pc |-> "rotate", k |-> generated + 1]
  /\ builder' = [builder EXCEPT !.keys = generated + 1]
  /\ UNCHANGED session

\* FullRotate up to its fetch: keys generated, nothing published.
Generate ==
  /\ rotator.pc = "select"
  /\ generated < MaxRotations
  /\ generated' = generated + 1
  /\ rotator' = [pc |-> "rotate", k |-> generated + 1]
  /\ UNCHANGED <<builder, session>>

\* FullRotate, its token fetched and verified: everything swapped at once.
FullRotate ==
  /\ rotator.pc = "rotate"
  /\ \E token \in Generations :
       /\ VerifyEatNonce(token, rotator.k)
       /\ builder' = [keys |-> rotator.k, oidcToken |-> token]
  /\ rotator' = [rotator EXCEPT !.pc = "select"]
  /\ UNCHANGED <<generated, session>>

\* RefreshOIDC up to its fetch: the current keys copied under the read lock.
CopyKeys ==
  /\ rotator.pc = "select"
  /\ rotator' = [pc |-> "refresh", k |-> builder.keys]
  /\ UNCHANGED <<builder, generated, session>>

\* RefreshOIDC, its token fetched for the copied keys: only the token replaced.
RefreshOIDC ==
  /\ rotator.pc = "refresh"
  /\ \E token \in Generations :
       /\ VerifyEatNonce(token, rotator.k)
       /\ builder' = [builder EXCEPT !.oidcToken = token]
  /\ rotator' = [rotator EXCEPT !.pc = "select"]
  /\ UNCHANGED <<generated, session>>

\* The fetch or the verification fails: logged, and left to the next tick.
FetchFails ==
  /\ rotator.pc # "select"
  /\ rotator' = [rotator EXCEPT !.pc = "select"]
  /\ UNCHANGED <<builder, generated, session>>

Rotator == Generate \/ FullRotate \/ CopyKeys \/ RefreshOIDC \/ FetchFails

-----------------------------------------------------------------------------
(* The request handlers, one request of a session at a time. *)

\* HandleAttest and Build: one consistent read of the Builder.
Attest(s) ==
  /\ session[s].request = "none"
  /\ session' = [session EXCEPT ![s].bundle = builder, ![s].has = @ \cup {"bundle"},
                                ![s].reply = "none"]
  /\ UNCHANGED <<builder, generated, rotator>>

\* The browser seals a submission, or an upload of a job it knows, to the key
\* of its bundle.
Send(s) ==
  /\ session[s].request = "none" /\ "bundle" \in session[s].has
  /\ \E kind \in {"submit"} \cup (IF "job" \in session[s].has THEN {"upload"} ELSE {}) :
       session' = [session EXCEPT ![s].request = "sent", ![s].kind = kind,
                                  ![s].reply = "none"]
  /\ UNCHANGED <<builder, generated, rotator>>

\* Variant: the key pair the process started with.
HPKEKeysOfStart == 0

\* The key pair in force at the moment of the call.
HPKEKeys == builder.keys

\* Read when the body (submit) or its first frame (upload) is there.
ReadKeys(s) ==
  /\ session[s].request = "sent"
  /\ session' = [session EXCEPT ![s].request = "keyed", ![s].held = HPKEKeys]
  /\ UNCHANGED <<builder, generated, rotator>>

\* OpenFromBrowser succeeds with the pair, and the context made of it, that the
\* browser sealed to.
Opens(s) == session[s].held = session[s].bundle.keys

\* A request that does not open is answered 400 and changes nothing.
OpenFails(s) ==
  /\ session[s].request = "keyed"
  /\ ~Opens(s)
  /\ session' = [session EXCEPT ![s].request = "none", ![s].reply = "decryption failed"]
  /\ UNCHANGED <<builder, generated, rotator>>

\* The plaintext goes to the buffer manager, by processJob or by
\* proxyPlaintextUpload.
Forward(s) ==
  /\ session[s].request = "keyed"
  /\ Opens(s)
  /\ session' = [session EXCEPT ![s].request = "forwarded"]
  /\ UNCHANGED <<builder, generated, rotator>>

\* Variant: the keys are read once more for the answer.
ReplyRereads(s) ==
  /\ session[s].request = "forwarded"
  /\ \E status \in {"ok", "error"} :
       session' = [session EXCEPT
         ![s].request = "none", ![s].reply = status, ![s].info = HPKEKeys,
         ![s].has = IF status = "ok" /\ session[s].kind = "submit"
                      THEN @ \cup {"job"} ELSE @]
  /\ UNCHANGED <<builder, generated, rotator>>

\* The handler answers.  The answer to a submission, an error of the buffer
\* manager included, is sealed with the context made when the keys were read;
\* the answer to an upload is passed on as it is.
Reply(s) ==
  /\ session[s].request = "forwarded"
  /\ \E status \in {"ok", "error"} :
       session' = [session EXCEPT
         ![s].request = "none", ![s].reply = status, ![s].info = session[s].held,
         ![s].has = IF status = "ok" /\ session[s].kind = "submit"
                      THEN @ \cup {"job"} ELSE @]
  /\ UNCHANGED <<builder, generated, rotator>>

Request(s) == Attest(s) \/ Send(s) \/ ReadKeys(s) \/ OpenFails(s) \/ Forward(s) \/ Reply(s)

Next == Rotator \/ \E s \in Sessions : Request(s)

Spec == Init /\ [][Next]_vars

-----------------------------------------------------------------------------
\* Every variable keeps its type, and no key is used before it is generated.
TypeOK ==
  /\ builder \in Bundle
  /\ generated \in Generations
  /\ rotator \in [pc : {"select", "refresh", "rotate"}, k : Generations]
  /\ session \in [Sessions -> Session]
  /\ builder.keys =< generated

\* A bundle a browser was served carries a token that binds the keys it
\* carries, though RefreshOIDC writes a token it fetched without the lock and
\* FullRotate replaces the keys (bundle.go, Build, RefreshOIDC, FullRotate).
BundleBindsKeys ==
  \A s \in Sessions :
    "bundle" \in session[s].has =>
      VerifyEatNonce(session[s].bundle.oidcToken, session[s].bundle.keys)

\* A browser can open the answer to its submission whatever the rotator did
\* while the buffer manager worked on it: the answer is sealed with the context
\* of the key the browser sealed to (submit.go, HandleSubmit).
ReplyOpens ==
  \A s \in Sessions :
    session[s].kind = "submit" /\ session[s].reply \in {"ok", "error"}
      => session[s].info = session[s].bundle.keys

\* A request fails to decrypt only if the keys were replaced after the bundle it
\* was sealed to was served: a token refresh never costs a request
\* (submit.go, HPKEKeys; bundle.go, RefreshOIDC).
FailsOnlyAcrossRotation ==
  \A s \in Sessions :
    session[s].request = "keyed" /\ ~Opens(s)
      => session[s].bundle.keys < builder.keys
=============================================================================
