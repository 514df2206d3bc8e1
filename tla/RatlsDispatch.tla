--------------------------- MODULE RatlsDispatch ---------------------------
(***************************************************************************)
(* The dispatch of a payload over RA-TLS: _run_ratls_dispatch of the job   *)
(* service runs the client (src/b2p-ratls), which dials the target, asks   *)
(* it for an attestation bundle on that very connection, verifies the      *)
(* token and only then posts the payload, on the connection it verified.   *)
(*                                                                         *)
(* Each attempt is one TLS session, and the EKM nonce of a session is the  *)
(* attempt's number.  At the address may be a TEE of some image or a relay *)
(* that passes on what TEEs say elsewhere.  Connections drop, replies are  *)
(* lost, and the service kills a client that takes too long.               *)
(***************************************************************************)
EXTENDS Naturals, Sequences

CONSTANTS MaxAttempts, \* bound on the runs of the client
          Images,      \* the images targets are expected to run
          OtherImages, \* images of other TEEs
          Relay,       \* a peer that is no TEE
          Nobody       \* not a peer

Attempts == 1 .. MaxAttempts
TEEs == Images \cup OtherImages
Peers == TEEs \cup {Relay}

ASSUME AttemptsAssumption == MaxAttempts \in Nat
ASSUME PeersAssumption ==
  Images \cap OtherImages = {} /\ Relay \notin TEEs /\ Nobody \notin Peers

(***************************************************************************)
(* A token, by what is asked of it: which checks it stands, and the nonces *)
(* and the image it names.  "exp" allows for the leeway, "platform" is     *)
(* hwmodel and swname; nonce 0 is one of some other session.               *)
(***************************************************************************)
Checks == {"signature", "exp", "iss", "aud", "platform"}
Token == [stands : SUBSET Checks,
          nonces : {<<n>> : n \in 0 .. MaxAttempts} \cup {<<>>} \cup {<<0, n>> : n \in Attempts},
          digest : TEEs]
NoToken == [stands |-> {}, nonces |-> <<>>]

VARIABLES run,      \* per attempt, the client process and its connection
          current,  \* the attempt of the process that runs or ran last
          testMode  \* RATLS_TEST_MODE is set in the container

vars == <<run, current, testMode>>

(***************************************************************************)
(* pc "exited": the process ended with the exit status ok, or was killed.  *)
(* sentTo, inFlight: the payload was written to a connection that ends at  *)
(* sentTo, which has not read it yet; answer is what that peer made of it. *)
(***************************************************************************)
Run == [pc : {"new", "dial", "connect", "verify", "post", "sent", "exited"},
        ok : BOOLEAN, target : Images, peer : Peers \cup {Nobody}, conn : BOOLEAN,
        token : Token \cup {NoToken}, sentTo : Peers \cup {Nobody}, inFlight : BOOLEAN,
        answer : {"none", "accepted", "rejected"}]

TypeOK == /\ run \in [Attempts -> Run]
          /\ current \in 0 .. MaxAttempts
          /\ testMode \in BOOLEAN

Init ==
  /\ run \in [Attempts -> {[pc |-> "new", ok |-> FALSE, target |-> m, peer |-> Nobody,
                            conn |-> FALSE, token |-> NoToken, sentTo |-> Nobody,
                            inFlight |-> FALSE, answer |-> "none"] : m \in Images}]
  /\ current = 0
  /\ testMode \in BOOLEAN

-----------------------------------------------------------------------------
(* The client, an attempt a of it. *)

Becomes(a, r) == run' = [run EXCEPT ![a] = r]

\* log.Fatalf, or the end of main: the connection goes with the process.
Exited(r, ok) == [r EXCEPT !.pc = "exited", !.ok = ok, !.conn = FALSE, !.token = NoToken]
Exit(a, ok) == Becomes(a, Exited(run[a], ok))

\* The service starts a client for the next target, after the last has ended.
Start(a) ==
  /\ a = current + 1
  /\ current > 0 => run[current].pc = "exited"
  /\ Becomes(a, [run[a] EXCEPT !.pc = "dial"])
  /\ current' = a
  /\ UNCHANGED testMode

\* The TLS handshake succeeds with whoever is at the address: its
\* certificate is not verified.  The EKM of this session is kept.
Dial(a) ==
  /\ run[a].pc = "dial"
  /\ \/ \E p \in Peers :
          Becomes(a, [run[a] EXCEPT !.pc = "connect", !.peer = p, !.conn = TRUE])
     \/ Exit(a, FALSE)
  /\ UNCHANGED <<current, testMode>>

(***************************************************************************)
(* Which tokens a peer can show in session a.  A TEE of an image we expect *)
(* asks its launcher for the nonce of the session it serves and no other;  *)
(* any peer may pass on tokens of other sessions, and make up its own.     *)
(***************************************************************************)
Showable(token, a) ==
  "signature" \in token.stands /\ token.digest \in Images
  /\ (\E j \in DOMAIN token.nonces : token.nonces[j] = a)
    => run[a].peer = token.digest

\* GET /ratls/connect: a bundle arrives; or an error, another status, or a
\* body that does not parse.
GetBundle(a) ==
  /\ run[a].pc = "connect"
  /\ \/ /\ run[a].conn
        /\ \E token \in Token :
             /\ Showable(token, a)
             /\ Becomes(a, [run[a] EXCEPT !.pc = "verify", !.token = token])
     \/ Exit(a, FALSE)
  /\ UNCHANGED <<current, testMode>>

\* extractEatNonce: a string, or the first of an array.
EatNonceIs(token, n) == token.nonces # <<>> /\ Head(token.nonces) = n

\* VerifyOIDCToken; with test mode on the peer's word is taken instead.
VerifyOIDC(token) == {"signature", "exp", "iss", "aud"} \subseteq token.stands

\* Variant: the token is not compared with this session's EKM.
VerifiedAnySession(token, a) ==
  /\ testMode \/ VerifyOIDC(token)
  /\ {"aud", "platform"} \subseteq token.stands
  /\ token.digest = run[a].target

\* The checks of Connect on the claims.
Verified(token, a) ==
  /\ testMode \/ VerifyOIDC(token)
  /\ EatNonceIs(token, a)
  /\ {"aud", "platform"} \subseteq token.stands
  /\ token.digest = run[a].target

\* Verification, or the failure to fetch Google's keys for it (with test mode
\* on as well, if the bundle comes without test claims).
Verify(a) ==
  /\ run[a].pc = "verify"
  /\ \/ Verified(run[a].token, a)
        /\ Becomes(a, [run[a] EXCEPT !.pc = "post", !.token = NoToken])
     \/ Exit(a, FALSE)
  /\ UNCHANGED <<current, testMode>>

\* Variant: a lost connection is dialled anew.
PostRedials(a) ==
  /\ run[a].pc = "post"
  /\ \E p \in Peers : (run[a].conn => p = run[a].peer) /\
       Becomes(a, [run[a] EXCEPT !.pc = "sent", !.sentTo = p, !.inFlight = TRUE])
  /\ UNCHANGED <<current, testMode>>

\* POST /api/load-model on the pinned connection.  A transport that finds it
\* closed is handed the same one again, and fails; so does a payload file
\* that cannot be read.
Post(a) ==
  /\ run[a].pc = "post"
  /\ \/ /\ run[a].conn
        /\ Becomes(a, [run[a] EXCEPT !.pc = "sent", !.sentTo = run[a].peer, !.inFlight = TRUE])
     \/ Exit(a, FALSE)
  /\ UNCHANGED <<current, testMode>>

\* Variant: every answer counts as delivered.
ReplyAnyStatus(a) ==
  /\ run[a].pc = "sent"
  /\ \/ run[a].conn /\ run[a].answer # "none" /\ Exit(a, TRUE)
     \/ Exit(a, FALSE)
  /\ UNCHANGED <<current, testMode>>

\* The answer arrives: 200 or 202, or another status; or the connection fails.
Reply(a) ==
  /\ run[a].pc = "sent"
  /\ \/ run[a].conn /\ run[a].answer = "accepted" /\ Exit(a, TRUE)
     \/ Exit(a, FALSE)
  /\ UNCHANGED <<current, testMode>>

\* subprocess.run(timeout=180) kills the client, wherever it is.
Kill(a) ==
  /\ run[a].pc \notin {"new", "exited"}
  /\ Exit(a, FALSE)
  /\ UNCHANGED <<current, testMode>>

-----------------------------------------------------------------------------
(* The peer and the network. *)

\* What was written is read, be it after the client was killed.
PeerReads(a) ==
  /\ run[a].inFlight
  /\ \E ans \in {"accepted", "rejected"} :
       Becomes(a, [run[a] EXCEPT !.inFlight = FALSE, !.answer = ans])
  /\ UNCHANGED <<current, testMode>>

\* The connection breaks, with what is in flight or after it was read.
Drop(a) ==
  /\ run[a].conn \/ run[a].inFlight
  /\ Becomes(a, [run[a] EXCEPT !.conn = FALSE, !.inFlight = FALSE])
  /\ UNCHANGED <<current, testMode>>

Client(a) == Dial(a) \/ GetBundle(a) \/ Verify(a) \/ Post(a) \/ Reply(a) \/ Kill(a)

Next == \E a \in Attempts : Start(a) \/ Client(a) \/ PeerReads(a) \/ Drop(a)

Spec == Init /\ [][Next]_vars

-----------------------------------------------------------------------------
(* Properties *)

\* The payload leaves only towards the TEE that runs the expected image:
\* neither a relay nor a TEE of the other target's image ever receives it,
\* whatever tokens they show.
PayloadOnlyToTarget ==
  \A a \in Attempts : run[a].sentTo \in (IF testMode THEN Peers ELSE {run[a].target}) \cup {Nobody}

\* What the scheduler sees of an attempt.
Promise == INSTANCE Dispatch WITH
  phase <- [a \in Attempts |-> CASE run[a].pc = "new" -> "new"
                                 [] run[a].pc = "exited" -> IF run[a].ok THEN "ok" ELSE "failed"
                                 [] OTHER -> "running"],
  target <- [a \in Attempts |-> run[a].target],
  takenBy <- [a \in Attempts |-> IF run[a].answer = "accepted" THEN run[a].sentTo ELSE Nobody],
  attested <- ~testMode

\* Every attempt behaves as Dispatch says (used by the scheduler at
\* enclave_manager_buffer.py:849): one taker at most, the right one, and no
\* success unless it took the payload.
KeepsPromise == Promise!Spec
=============================================================================
