------------------------ MODULE RatlsDispatchProofs ------------------------
(***************************************************************************)
(* The payload reaches the expected TEE only, and the client implements    *)
(* what Dispatch promises, for every number of attempts, every set of      *)
(* images and whatever the peers show.                                     *)
(***************************************************************************)
EXTENDS RatlsDispatch, TLAPS

Reached(a) == IF testMode THEN Peers ELSE {run[a].target}

\* The client holds a token it was shown in this session, and has a verified
\* peer when it posts.
VerifyOK(a) ==
  /\ run[a].pc \in {"connect", "verify", "post"} => run[a].peer \in Peers
  /\ run[a].pc = "verify" => run[a].token \in Token /\ Showable(run[a].token, a)
  /\ run[a].pc = "post" => run[a].peer \in Reached(a)

\* Before the post nothing was sent; what is in flight was not answered; and
\* only an accepted payload lets the client succeed.
SentOK(a) ==
  /\ run[a].pc \notin {"sent", "exited"} =>
       run[a].sentTo = Nobody /\ ~run[a].inFlight /\ run[a].answer = "none"
  /\ run[a].inFlight => run[a].sentTo # Nobody /\ run[a].answer = "none"
  /\ run[a].answer # "none" => run[a].sentTo # Nobody
  /\ run[a].pc = "exited" /\ run[a].ok => run[a].answer = "accepted"
  /\ run[a].sentTo \in Reached(a) \cup {Nobody}

\* One client at a time.
TurnOK(a) ==
  /\ a < current => run[a].pc = "exited"
  /\ a > current => run[a].pc = "new"
  /\ a = current => run[a].pc # "new"

IInv == TypeOK /\ \A a \in Attempts : VerifyOK(a) /\ SentOK(a) /\ TurnOK(a)

-----------------------------------------------------------------------------
\* Only the TEE of the target's image passes verification: its token names
\* this session, and the launcher gave it to no one else.
LEMMA VerifiedPeer ==
  ASSUME NEW a \in Attempts, NEW token \in Token, ~testMode,
         Verified(token, a), Showable(token, a), run[a].target \in Images
  PROVE  run[a].peer = run[a].target
<1>1. "signature" \in token.stands /\ token.digest = run[a].target
  BY DEF Verified, VerifyOIDC
<1>2. \E j \in DOMAIN token.nonces : token.nonces[j] = a
  <2>1. token.nonces # <<>> /\ Head(token.nonces) = a
    BY DEF Verified, EatNonceIs
  <2>2. \/ \E n \in 0 .. MaxAttempts : token.nonces = <<n>>
        \/ \E n \in Attempts : token.nonces = <<0, n>>
    BY <2>1 DEF Token
  <2>3. 1 \in DOMAIN token.nonces /\ token.nonces[1] = a
    BY <2>1, <2>2
  <2> QED BY <2>3
<1> QED BY <1>1, <1>2 DEF Showable

\* The records the steps make are well-typed.
LEMMA NewType ==
  ASSUME NEW m \in Images
  PROVE  [pc |-> "new", ok |-> FALSE, target |-> m, peer |-> Nobody,
          conn |-> FALSE, token |-> NoToken, sentTo |-> Nobody,
          inFlight |-> FALSE, answer |-> "none"] \in Run
BY Zenon DEF Run

\* So has one whose process has ended.
LEMMA ExitedType == ASSUME NEW r \in Run, NEW ok \in BOOLEAN PROVE Exited(r, ok) \in Run
BY Zenon DEF Exited, Run

\* A step of attempt a leaves the others alone.
LEMMA OthersStay ==
  ASSUME TypeOK, NEW a \in Attempts, NEW r \in Run, Becomes(a, r)
  PROVE  /\ run' \in [Attempts -> Run]
         /\ run'[a] = r /\ \A b \in Attempts \ {a} : run'[b] = run[b]
BY DEF TypeOK, Becomes

-----------------------------------------------------------------------------
\* Before the first attempt.
THEOREM RatlsInit == Init => IInv
<1> SUFFICES ASSUME Init PROVE IInv
  OBVIOUS
<1>1. \A a \in Attempts : \E m \in Images :
        run[a] = [pc |-> "new", ok |-> FALSE, target |-> m, peer |-> Nobody,
                  conn |-> FALSE, token |-> NoToken, sentTo |-> Nobody,
                  inFlight |-> FALSE, answer |-> "none"]
  BY DEF Init
<1>2. TypeOK
  <2>1. \A a \in Attempts : run[a] \in Run
    BY <1>1, NewType
  <2>2. run \in [Attempts -> Run]
    BY <2>1, SMT DEF Init
  <2>3. testMode \in BOOLEAN
    BY DEF Init
  <2>4. current \in 0 .. MaxAttempts
    BY AttemptsAssumption DEF Init
  <2> QED BY <2>2, <2>3, <2>4 DEF TypeOK
<1>3. ASSUME NEW a \in Attempts PROVE VerifyOK(a) /\ SentOK(a) /\ TurnOK(a)
  BY <1>1 DEF Init, VerifyOK, SentOK, TurnOK, Attempts
<1> QED BY <1>2, <1>3 DEF IInv

-----------------------------------------------------------------------------
\* A step of attempt a keeps the invariant if it keeps a's part of it, and if
\* it starts or ends nothing out of turn.
LEMMA StepOfOne ==
  ASSUME IInv, NEW a \in Attempts, NEW r \in Run, Becomes(a, r),
         UNCHANGED <<current, testMode>>,
         r.pc = run[a].pc \/ (a = current /\ r.pc # "new"),
         VerifyOK(a)', SentOK(a)'
  PROVE  IInv'
<1>1. /\ run' \in [Attempts -> Run]
      /\ run'[a] = r /\ \A b \in Attempts \ {a} : run'[b] = run[b]
  BY OthersStay DEF IInv
<1>2. TypeOK'
  BY <1>1 DEF IInv, TypeOK
<1>3. ASSUME NEW b \in Attempts \ {a} PROVE VerifyOK(b)' /\ SentOK(b)' /\ TurnOK(b)'
  <2>1. run'[b] = run[b] /\ VerifyOK(b) /\ SentOK(b) /\ TurnOK(b)
    BY <1>1 DEF IInv
  <2> QED BY <2>1 DEF VerifyOK, SentOK, TurnOK, Reached, Showable
<1>4. TurnOK(a)'
  BY <1>1 DEF IInv, TurnOK, Attempts
<1> QED BY <1>2, <1>3, <1>4 DEF IInv

\* The client exits before it has sent anything, or without success.
LEMMA ExitStep ==
  ASSUME IInv, NEW a \in Attempts, NEW ok \in BOOLEAN, Exit(a, ok),
         UNCHANGED <<current, testMode>>, run[a].pc \notin {"new", "exited"},
         ok => run[a].answer = "accepted"
  PROVE  IInv'
<1> DEFINE r == Exited(run[a], ok)
<1>1. run[a] \in Run /\ VerifyOK(a) /\ SentOK(a) /\ TurnOK(a)
  BY DEF IInv, TypeOK
<1>2. r \in Run
  BY <1>1, ExitedType
<1>3. Becomes(a, r)
  BY DEF Exit
<1>4. /\ r.pc = "exited" /\ r.ok = ok /\ r.target = run[a].target /\ r.peer = run[a].peer
      /\ r.sentTo = run[a].sentTo /\ r.inFlight = run[a].inFlight /\ r.answer = run[a].answer
  BY <1>1, Zenon DEF Exited, Run
<1> HIDE DEF r
<1>5. run'[a] = r
  BY <1>2, <1>3, OthersStay DEF IInv
<1>6. a = current
  BY <1>1 DEF IInv, TypeOK, TurnOK, Attempts
<1>7. VerifyOK(a)' /\ SentOK(a)'
  BY <1>1, <1>4, <1>5 DEF VerifyOK, SentOK, Reached
<1> QED BY <1>2, <1>3, <1>4, <1>6, <1>7, StepOfOne

-----------------------------------------------------------------------------
\* Each step of an attempt keeps the invariant: the service starts it,
LEMMA StartStep == ASSUME IInv, NEW a \in Attempts, Start(a) PROVE IInv'
<1> DEFINE r == [run[a] EXCEPT !.pc = "dial"]
<1>1. run[a] \in Run /\ VerifyOK(a) /\ SentOK(a) /\ TurnOK(a)
  BY DEF IInv, TypeOK
<1>2. r \in Run
  BY <1>1, Zenon DEF Run
<1>3. Becomes(a, r) /\ a = current + 1 /\ current' = a /\ testMode' = testMode
      /\ (current > 0 => run[current].pc = "exited")
  BY DEF Start
<1>4. /\ r.pc = "dial" /\ r.ok = run[a].ok /\ r.target = run[a].target /\ r.peer = run[a].peer
      /\ r.sentTo = run[a].sentTo /\ r.inFlight = run[a].inFlight /\ r.answer = run[a].answer
  BY <1>1, Zenon DEF Run
<1> HIDE DEF r
<1>5. /\ run' \in [Attempts -> Run]
      /\ run'[a] = r /\ \A b \in Attempts \ {a} : run'[b] = run[b]
  BY <1>2, <1>3, OthersStay DEF IInv
<1>6. TypeOK'
  BY <1>3, <1>5 DEF IInv, TypeOK, Attempts
<1>7. current \in 0 .. MaxAttempts /\ run[a].pc = "new"
  BY <1>1, <1>3 DEF IInv, TypeOK, TurnOK, Attempts
<1>8. VerifyOK(a)' /\ SentOK(a)' /\ TurnOK(a)'
  BY <1>1, <1>3, <1>4, <1>5, <1>7 DEF VerifyOK, SentOK, TurnOK, Reached
<1>9. ASSUME NEW b \in Attempts \ {a} PROVE VerifyOK(b)' /\ SentOK(b)' /\ TurnOK(b)'
  <2>1. run'[b] = run[b] /\ VerifyOK(b) /\ SentOK(b) /\ TurnOK(b)
    BY <1>5 DEF IInv
  <2>2. TurnOK(b)'
    BY <2>1, <1>3, <1>7 DEF TurnOK, Attempts
  <2> QED BY <2>1, <2>2, <1>3 DEF VerifyOK, SentOK, Reached, Showable
<1> QED BY <1>6, <1>8, <1>9 DEF IInv

\* it dials, and verifies nothing yet,
LEMMA DialStep == ASSUME IInv, NEW a \in Attempts, Dial(a) PROVE IInv'
<1>1. run[a] \in Run /\ VerifyOK(a) /\ SentOK(a) /\ TurnOK(a)
  BY DEF IInv, TypeOK
<1>2. run[a].pc = "dial" /\ UNCHANGED <<current, testMode>>
  BY DEF Dial
<1>3. CASE Exit(a, FALSE)
  BY <1>2, <1>3, ExitStep
<1>4. ASSUME NEW p \in Peers,
             Becomes(a, [run[a] EXCEPT !.pc = "connect", !.peer = p, !.conn = TRUE])
      PROVE  IInv'
  <2> DEFINE r == [run[a] EXCEPT !.pc = "connect", !.peer = p, !.conn = TRUE]
  <2>1. r \in Run
    BY <1>1, Zenon DEF Run
  <2>2. /\ r.pc = "connect" /\ r.ok = run[a].ok /\ r.target = run[a].target /\ r.peer = p
        /\ r.sentTo = run[a].sentTo /\ r.inFlight = run[a].inFlight /\ r.answer = run[a].answer
    BY <1>1, Zenon DEF Run
  <2> HIDE DEF r
  <2>3. Becomes(a, r)
    BY <1>4 DEF r
  <2>4. run'[a] = r
    BY <2>1, <2>3, OthersStay DEF IInv
  <2>5. VerifyOK(a)' /\ SentOK(a)'
    BY <1>1, <1>2, <2>2, <2>4 DEF VerifyOK, SentOK, Reached
  <2>6. a = current
    BY <1>1, <1>2 DEF IInv, TypeOK, TurnOK, Attempts
  <2> QED BY <1>2, <2>1, <2>2, <2>3, <2>5, <2>6, StepOfOne
<1> QED BY <1>3, <1>4 DEF Dial

\* it receives a token that the peer can show,
LEMMA GetBundleStep == ASSUME IInv, NEW a \in Attempts, GetBundle(a) PROVE IInv'
<1>1. run[a] \in Run /\ VerifyOK(a) /\ SentOK(a) /\ TurnOK(a)
  BY DEF IInv, TypeOK
<1>2. run[a].pc = "connect" /\ UNCHANGED <<current, testMode>>
  BY DEF GetBundle
<1>3. CASE Exit(a, FALSE)
  BY <1>2, <1>3, ExitStep
<1>4. ASSUME NEW token \in Token, Showable(token, a),
             Becomes(a, [run[a] EXCEPT !.pc = "verify", !.token = token])
      PROVE  IInv'
  <2> DEFINE r == [run[a] EXCEPT !.pc = "verify", !.token = token]
  <2>1. r \in Run
    BY <1>1, Zenon DEF Run
  <2>2. /\ r.pc = "verify" /\ r.ok = run[a].ok /\ r.target = run[a].target /\ r.peer = run[a].peer
        /\ r.sentTo = run[a].sentTo /\ r.inFlight = run[a].inFlight /\ r.answer = run[a].answer
        /\ r.token = token
    BY <1>1, Zenon DEF Run
  <2> HIDE DEF r
  <2>3. Becomes(a, r)
    BY <1>4 DEF r
  <2>4. run'[a] = r
    BY <2>1, <2>3, OthersStay DEF IInv
  <2>5. VerifyOK(a)' /\ SentOK(a)'
    BY <1>1, <1>2, <1>4, <2>2, <2>4 DEF VerifyOK, SentOK, Reached, Showable
  <2>6. a = current
    BY <1>1, <1>2 DEF IInv, TypeOK, TurnOK, Attempts
  <2> QED BY <1>2, <2>1, <2>2, <2>3, <2>5, <2>6, StepOfOne
<1> QED BY <1>3, <1>4 DEF GetBundle

\* it accepts the token, or exits,
LEMMA VerifyStep == ASSUME IInv, NEW a \in Attempts, Verify(a) PROVE IInv'
<1>1. run[a] \in Run /\ VerifyOK(a) /\ SentOK(a) /\ TurnOK(a)
  BY DEF IInv, TypeOK
<1>2. run[a].pc = "verify" /\ UNCHANGED <<current, testMode>>
  BY DEF Verify
<1>3. CASE Exit(a, FALSE)
  BY <1>2, <1>3, ExitStep
<1>4. ASSUME Verified(run[a].token, a), Becomes(a, [run[a] EXCEPT !.pc = "post", !.token = NoToken])
      PROVE  IInv'
  <2> DEFINE r == [run[a] EXCEPT !.pc = "post", !.token = NoToken]
  <2>1. r \in Run
    BY <1>1, Zenon DEF Run
  <2>2. /\ r.pc = "post" /\ r.ok = run[a].ok /\ r.target = run[a].target /\ r.peer = run[a].peer
        /\ r.sentTo = run[a].sentTo /\ r.inFlight = run[a].inFlight /\ r.answer = run[a].answer
    BY <1>1, Zenon DEF Run
  <2> HIDE DEF r
  <2>3. Becomes(a, r)
    BY <1>4 DEF r
  <2>4. run'[a] = r
    BY <2>1, <2>3, OthersStay DEF IInv
  <2>5. run[a].token \in Token /\ Showable(run[a].token, a) /\ run[a].peer \in Peers
    BY <1>1, <1>2 DEF VerifyOK
  <2>6. run[a].target \in Images
    BY <1>1 DEF Run
  <2>7. run[a].peer \in Reached(a)
    BY <1>4, <2>5, <2>6, VerifiedPeer DEF Reached
  <2>8. VerifyOK(a)' /\ SentOK(a)'
    BY <1>1, <1>2, <2>2, <2>4, <2>5, <2>7 DEF VerifyOK, SentOK, Reached
  <2>9. a = current
    BY <1>1, <1>2 DEF IInv, TypeOK, TurnOK, Attempts
  <2> QED BY <1>2, <2>1, <2>2, <2>3, <2>8, <2>9, StepOfOne
<1> QED BY <1>3, <1>4 DEF Verify

\* it posts the payload on the verified connection,
LEMMA PostStep == ASSUME IInv, NEW a \in Attempts, Post(a) PROVE IInv'
<1>1. run[a] \in Run /\ VerifyOK(a) /\ SentOK(a) /\ TurnOK(a)
  BY DEF IInv, TypeOK
<1>2. run[a].pc = "post" /\ UNCHANGED <<current, testMode>>
  BY DEF Post
<1>3. CASE Exit(a, FALSE)
  BY <1>2, <1>3, ExitStep
<1>4. ASSUME Becomes(a, [run[a] EXCEPT !.pc = "sent", !.sentTo = run[a].peer, !.inFlight = TRUE])
      PROVE  IInv'
  <2> DEFINE p == run[a].peer
             r == [run[a] EXCEPT !.pc = "sent", !.sentTo = p, !.inFlight = TRUE]
  <2>1. p \in Peers /\ p \in Reached(a) /\ p # Nobody
    BY <1>1, <1>2, PeersAssumption DEF VerifyOK
  <2>2. r \in Run
    BY <1>1, <2>1, Zenon DEF Run
  <2>3. /\ r.pc = "sent" /\ r.ok = run[a].ok /\ r.target = run[a].target /\ r.peer = p
        /\ r.sentTo = p /\ r.inFlight /\ r.answer = run[a].answer
    BY <1>1, Zenon DEF Run
  <2> HIDE DEF r
  <2>4. Becomes(a, r)
    BY <1>4 DEF r
  <2>5. run'[a] = r
    BY <2>2, <2>4, OthersStay DEF IInv
  <2>6. VerifyOK(a)' /\ SentOK(a)'
    BY <1>1, <1>2, <2>1, <2>3, <2>5 DEF VerifyOK, SentOK, Reached
  <2>7. a = current
    BY <1>1, <1>2 DEF IInv, TypeOK, TurnOK, Attempts
  <2> QED BY <1>2, <2>2, <2>3, <2>4, <2>6, <2>7, StepOfOne
<1> QED BY <1>3, <1>4 DEF Post

\* the peer takes the payload or rejects it,
LEMMA PeerReadsStep == ASSUME IInv, NEW a \in Attempts, PeerReads(a) PROVE IInv'
<1>1. run[a] \in Run /\ VerifyOK(a) /\ SentOK(a)
  BY DEF IInv, TypeOK
<1>2. PICK ans \in {"accepted", "rejected"} :
        Becomes(a, [run[a] EXCEPT !.inFlight = FALSE, !.answer = ans])
  BY DEF PeerReads
<1> DEFINE r == [run[a] EXCEPT !.inFlight = FALSE, !.answer = ans]
<1>3. r \in Run
  BY <1>1, Zenon DEF Run
<1>4. /\ r.pc = run[a].pc /\ r.ok = run[a].ok /\ r.target = run[a].target /\ r.peer = run[a].peer
      /\ r.sentTo = run[a].sentTo /\ r.inFlight = FALSE /\ r.answer = ans /\ r.token = run[a].token
  BY <1>1, Zenon DEF Run
<1> HIDE DEF r
<1>5. Becomes(a, r) /\ run[a].inFlight /\ UNCHANGED <<current, testMode>>
  BY <1>2 DEF r, PeerReads
<1>6. run'[a] = r
  BY <1>3, <1>5, OthersStay DEF IInv
<1>7. VerifyOK(a)' /\ SentOK(a)'
  BY <1>1, <1>4, <1>5, <1>6 DEF VerifyOK, SentOK, Reached, Showable
<1> QED BY <1>3, <1>4, <1>5, <1>7, StepOfOne

\* the connection breaks,
LEMMA DropStep == ASSUME IInv, NEW a \in Attempts, Drop(a) PROVE IInv'
<1>1. run[a] \in Run /\ VerifyOK(a) /\ SentOK(a)
  BY DEF IInv, TypeOK
<1> DEFINE r == [run[a] EXCEPT !.conn = FALSE, !.inFlight = FALSE]
<1>2. r \in Run
  BY <1>1, Zenon DEF Run
<1>3. /\ r.pc = run[a].pc /\ r.ok = run[a].ok /\ r.target = run[a].target /\ r.peer = run[a].peer
      /\ r.sentTo = run[a].sentTo /\ r.inFlight = FALSE /\ r.answer = run[a].answer
      /\ r.token = run[a].token
  BY <1>1, Zenon DEF Run
<1> HIDE DEF r
<1>4. Becomes(a, r) /\ UNCHANGED <<current, testMode>>
  BY DEF r, Drop
<1>5. run'[a] = r
  BY <1>2, <1>4, OthersStay DEF IInv
<1>6. VerifyOK(a)' /\ SentOK(a)'
  BY <1>1, <1>3, <1>4, <1>5 DEF VerifyOK, SentOK, Reached, Showable
<1> QED BY <1>2, <1>3, <1>4, <1>6, StepOfOne

\* and the process ends or is killed.
LEMMA ReplyKillStep == ASSUME IInv, NEW a \in Attempts, Reply(a) \/ Kill(a) PROVE IInv'
<1>1. CASE Reply(a)
  BY <1>1, ExitStep DEF Reply
<1>2. CASE Kill(a)
  BY <1>2, ExitStep DEF Kill
<1> QED BY <1>1, <1>2

-----------------------------------------------------------------------------
\* Every step keeps the invariant.
THEOREM RatlsStep == IInv /\ [Next]_vars => IInv'
<1> SUFFICES ASSUME IInv, [Next]_vars PROVE IInv'
  OBVIOUS
<1>1. ASSUME NEW a \in Attempts, Start(a) \/ Client(a) \/ PeerReads(a) \/ Drop(a) PROVE IInv'
  BY <1>1, StartStep, DialStep, GetBundleStep, VerifyStep, PostStep, ReplyKillStep,
     PeerReadsStep, DropStep DEF Client
<1>2. CASE UNCHANGED vars
  BY <1>2 DEF vars, IInv, TypeOK, VerifyOK, SentOK, TurnOK, Reached, Showable
<1> QED BY <1>1, <1>2 DEF Next

\* So the invariant always holds: who is verified and who has the payload.
THEOREM RatlsInv == Spec => []IInv
BY RatlsInit, RatlsStep, PTL DEF Spec

\* With attestation on, the payload leaves only towards the TEE that runs the
\* expected image: the token names this session and this image, and it is
\* posted on the connection that was verified (client.go:98-173).
THEOREM PayloadReachesTarget == Spec => []PayloadOnlyToTarget
<1>1. IInv => PayloadOnlyToTarget
  BY DEF IInv, SentOK, Reached, PayloadOnlyToTarget
<1> QED BY <1>1, RatlsInv, PTL
-----------------------------------------------------------------------------
(* The refinement.  What the mapping makes of one attempt: *)

Phase(r) == CASE r.pc = "new" -> "new"
              [] r.pc = "exited" -> IF r.ok THEN "ok" ELSE "failed"
              [] OTHER -> "running"
TakenBy(r) == IF r.answer = "accepted" THEN r.sentTo ELSE Nobody

\* The mapping, attempt by attempt.
Phases == [a \in Attempts |-> Phase(run[a])]
Targets == [a \in Attempts |-> run[a].target]
Takers == [a \in Attempts |-> TakenBy(run[a])]

\* The actions of Dispatch under it.
LEMMA Mapped ==
  ASSUME NEW a \in Attempts
  PROVE  /\ /\ Phases[a] = "new" /\ \A b \in Attempts : Phases[b] # "running"
            /\ Phases' = [Phases EXCEPT ![a] = "running"]
            /\ UNCHANGED <<Targets, Takers, ~testMode>>
            => Promise!Begin(a)
         /\ /\ Phases[a] \in {"running", "failed"} /\ Takers[a] = Nobody
            /\ \E p \in IF ~testMode THEN {Targets[a]} ELSE Peers :
                 Takers' = [Takers EXCEPT ![a] = p]
            /\ UNCHANGED <<Phases, Targets, ~testMode>>
            => Promise!Take(a)
         /\ /\ Phases[a] = "running" /\ Takers[a] # Nobody
            /\ Phases' = [Phases EXCEPT ![a] = "ok"]
            /\ UNCHANGED <<Targets, Takers, ~testMode>>
            => Promise!Succeed(a)
         /\ /\ Phases[a] = "running"
            /\ Phases' = [Phases EXCEPT ![a] = "failed"]
            /\ UNCHANGED <<Targets, Takers, ~testMode>>
            => Promise!Fail(a)
BY Zenon DEF Phases, Targets, Takers, Phase, TakenBy, Promise!Begin, Promise!Take,
   Promise!Succeed, Promise!Fail

\* A step that Dispatch does not see.
LEMMA MappedStutter ==
  ASSUME UNCHANGED <<Phases, Targets, Takers, ~testMode>>
  PROVE  UNCHANGED Promise!vars
BY Zenon DEF Phases, Targets, Takers, Phase, TakenBy, Promise!vars

\* What a step that replaces the record of attempt a does to the mapping.
LEMMA Maps ==
  ASSUME NEW a \in Attempts, NEW r, run'[a] = r,
         \A b \in Attempts \ {a} : run'[b] = run[b], r.target = run[a].target
  PROVE  /\ Phases[a] = Phase(run[a]) /\ Takers[a] = TakenBy(run[a])
         /\ Phases' = [Phases EXCEPT ![a] = Phase(r)]
         /\ Takers' = [Takers EXCEPT ![a] = TakenBy(r)]
         /\ UNCHANGED Targets
         /\ Phase(r) = Phase(run[a]) => UNCHANGED Phases
         /\ TakenBy(r) = TakenBy(run[a]) => UNCHANGED Takers
<1>1. Phases' = [Phases EXCEPT ![a] = Phase(r)]
  BY DEF Phases
<1>2. Takers' = [Takers EXCEPT ![a] = TakenBy(r)]
  BY DEF Takers
<1>3. UNCHANGED Targets
  BY DEF Targets
<1>4. Phases[a] = Phase(run[a]) /\ Takers[a] = TakenBy(run[a])
  BY DEF Phases, Takers
<1>5. Phase(r) = Phase(run[a]) => UNCHANGED Phases
  BY DEF Phases
<1>6. TakenBy(r) = TakenBy(run[a]) => UNCHANGED Takers
  BY DEF Takers
<1> QED BY <1>1, <1>2, <1>3, <1>4, <1>5, <1>6

\* A step that changes none of it stutters.
LEMMA Stutters ==
  ASSUME IInv, NEW a \in Attempts, NEW r \in Run, Becomes(a, r), testMode' = testMode,
         Phase(r) = Phase(run[a]), TakenBy(r) = TakenBy(run[a]), r.target = run[a].target
  PROVE  UNCHANGED Promise!vars
<1>1. /\ run'[a] = r /\ \A b \in Attempts \ {a} : run'[b] = run[b]
  BY OthersStay DEF IInv
<1>2. UNCHANGED <<Phases, Targets, Takers>>
  BY <1>1, Maps
<1> QED BY <1>2, MappedStutter

\* A client that ends without success fails; one that ends with success was
\* answered by whoever took the payload.
LEMMA ExitRefines ==
  ASSUME IInv, NEW a \in Attempts, NEW ok \in BOOLEAN, Exit(a, ok),
         testMode' = testMode, run[a].pc \notin {"new", "exited"},
         ok => run[a].answer = "accepted"
  PROVE  Promise!Next
<1> DEFINE r == Exited(run[a], ok)
<1>1. run[a] \in Run /\ SentOK(a)
  BY DEF IInv, TypeOK
<1>2. r \in Run /\ Becomes(a, r)
  BY <1>1, ExitedType DEF Exit
<1>3. /\ r.pc = "exited" /\ r.ok = ok /\ r.target = run[a].target
      /\ r.sentTo = run[a].sentTo /\ r.answer = run[a].answer
  BY <1>1, Zenon DEF Exited, Run
<1> HIDE DEF r
<1>4. /\ run'[a] = r /\ \A b \in Attempts \ {a} : run'[b] = run[b]
  BY <1>2, OthersStay DEF IInv
<1>m. /\ Phases[a] = Phase(run[a]) /\ Takers[a] = TakenBy(run[a])
      /\ Phases' = [Phases EXCEPT ![a] = Phase(r)]
      /\ UNCHANGED <<Targets, Takers, ~testMode>>
  <2>1. TakenBy(r) = TakenBy(run[a])
    BY <1>3 DEF TakenBy
  <2> QED BY <1>3, <1>4, <2>1, Maps
<1>p. Phase(run[a]) = "running" /\ Phase(r) = IF ok THEN "ok" ELSE "failed"
  BY <1>3 DEF Phase
<1>5. CASE ok
  <2>1. TakenBy(run[a]) # Nobody
    BY <1>1, <1>5, PeersAssumption DEF SentOK, TakenBy, Reached, Run
  <2>2. Promise!Succeed(a)
    BY <1>m, <1>p, <1>5, <2>1, Mapped
  <2> QED BY <2>2 DEF Promise!Next
<1>6. CASE ~ok
  <2>1. Promise!Fail(a)
    BY <1>m, <1>p, <1>6, Mapped
  <2> QED BY <2>1 DEF Promise!Next
<1> QED BY <1>5, <1>6

\* The start of an attempt begins one of Dispatch.
LEMMA StartRefines == ASSUME IInv, NEW a \in Attempts, Start(a) PROVE Promise!Next
<1> DEFINE r == [run[a] EXCEPT !.pc = "dial"]
<1>1. run[a] \in Run /\ \A b \in Attempts : TurnOK(b)
  BY DEF IInv, TypeOK
<1>2. r \in Run
  BY <1>1, Zenon DEF Run
<1>3. /\ r.pc = "dial" /\ r.target = run[a].target
      /\ r.sentTo = run[a].sentTo /\ r.answer = run[a].answer
  BY <1>1, Zenon DEF Run
<1> HIDE DEF r
<1>4. Becomes(a, r) /\ a = current + 1 /\ testMode' = testMode
      /\ (current > 0 => run[current].pc = "exited")
  BY DEF Start, r
<1>5. /\ run'[a] = r /\ \A b \in Attempts \ {a} : run'[b] = run[b]
  BY <1>2, <1>4, OthersStay DEF IInv
<1>6. run[a].pc = "new" /\ \A b \in Attempts : run[b].pc \in {"new", "exited"}
  BY <1>1, <1>4 DEF IInv, TypeOK, TurnOK, Attempts
<1>7. /\ Phases' = [Phases EXCEPT ![a] = "running"]
      /\ UNCHANGED <<Targets, Takers, ~testMode>>
  <2>1. Phase(r) = "running" /\ TakenBy(r) = TakenBy(run[a])
    BY <1>3 DEF Phase, TakenBy
  <2> QED BY <1>3, <1>4, <1>5, <2>1, Maps
<1>8. Phases[a] = "new" /\ \A b \in Attempts : Phases[b] # "running"
  BY <1>6 DEF Phases, Phase
<1>9. Promise!Begin(a)
  BY <1>7, <1>8, Mapped
<1> QED BY <1>9 DEF Promise!Next

\* A peer that takes the payload takes it in Dispatch.
LEMMA PeerReadsRefines ==
  ASSUME IInv, NEW a \in Attempts, PeerReads(a)
  PROVE  Promise!Next \/ UNCHANGED Promise!vars
<1>1. run[a] \in Run /\ SentOK(a)
  BY DEF IInv, TypeOK
<1>2. PICK ans \in {"accepted", "rejected"} :
        Becomes(a, [run[a] EXCEPT !.inFlight = FALSE, !.answer = ans])
  BY DEF PeerReads
<1> DEFINE r == [run[a] EXCEPT !.inFlight = FALSE, !.answer = ans]
<1>3. r \in Run
  BY <1>1, Zenon DEF Run
<1>4. /\ r.pc = run[a].pc /\ r.ok = run[a].ok /\ r.target = run[a].target
      /\ r.sentTo = run[a].sentTo /\ r.answer = ans
  BY <1>1, Zenon DEF Run
<1> HIDE DEF r
<1>5. Becomes(a, r) /\ run[a].inFlight /\ testMode' = testMode
  BY <1>2 DEF r, PeerReads
<1>6. /\ run'[a] = r /\ \A b \in Attempts \ {a} : run'[b] = run[b]
  BY <1>3, <1>5, OthersStay DEF IInv
<1>7. run[a].answer = "none" /\ run[a].sentTo \in Reached(a) /\ run[a].pc \in {"sent", "exited"}
  BY <1>1, <1>5, PeersAssumption DEF SentOK, Run
<1>8. CASE ans = "rejected"
  <2>1. Phase(r) = Phase(run[a]) /\ TakenBy(r) = TakenBy(run[a])
    BY <1>4, <1>7, <1>8 DEF Phase, TakenBy
  <2> QED BY <1>3, <1>4, <1>5, <2>1, Stutters
<1>9. CASE ans = "accepted"
  <2>1. run[a].pc = "exited" => ~run[a].ok
    BY <1>1, <1>7 DEF SentOK
  <2>2. Phase(r) = Phase(run[a]) /\ Phase(r) \in {"running", "failed"}
    BY <1>4, <1>7, <2>1 DEF Phase
  <2>3. TakenBy(run[a]) = Nobody /\ TakenBy(r) = run[a].sentTo
    BY <1>4, <1>7, <1>9 DEF TakenBy
  <2>4. /\ Phases[a] \in {"running", "failed"} /\ Takers[a] = Nobody
        /\ Takers' = [Takers EXCEPT ![a] = run[a].sentTo]
        /\ UNCHANGED <<Phases, Targets, ~testMode>>
    BY <1>4, <1>5, <1>6, <2>2, <2>3, Maps
  <2>5. run[a].sentTo \in IF ~testMode THEN {Targets[a]} ELSE Peers
    BY <1>7 DEF Reached, Targets
  <2>6. Promise!Take(a)
    BY <2>4, <2>5, Mapped
  <2> QED BY <2>6 DEF Promise!Next
<1> QED BY <1>8, <1>9

\* The client's own steps end an attempt of Dispatch or are none of it.
LEMMA ClientRefines ==
  ASSUME IInv, NEW a \in Attempts, Client(a) \/ Drop(a)
  PROVE  Promise!Next \/ UNCHANGED Promise!vars
<1>1. run[a] \in Run /\ SentOK(a) /\ VerifyOK(a)
  BY DEF IInv, TypeOK
<1> DEFINE Ends(ok) == /\ Exit(a, ok) /\ testMode' = testMode
                       /\ run[a].pc \notin {"new", "exited"}
                       /\ ok => run[a].answer = "accepted"
           Stays(r) == /\ Becomes(a, r) /\ testMode' = testMode
                       /\ Phase(r) = Phase(run[a]) /\ TakenBy(r) = TakenBy(run[a])
                       /\ r.target = run[a].target
\* A live attempt that stays live and takes nothing stutters.
<1>a. ASSUME NEW r \in Run, Becomes(a, r), testMode' = testMode,
             run[a].pc \notin {"new", "exited"}, r.pc \notin {"new", "exited"},
             r.target = run[a].target, r.answer = run[a].answer,
             r.answer = "none" \/ r.sentTo = run[a].sentTo
      PROVE  \E s \in Run : Stays(s)
  <2>1. Phase(r) = Phase(run[a]) /\ TakenBy(r) = TakenBy(run[a])
    BY <1>a DEF Phase, TakenBy
  <2> QED BY <1>a, <2>1
<1>2. Ends(TRUE) \/ Ends(FALSE) \/ \E r \in Run : Stays(r)
  <2> USE <1>1
  <2>1. CASE Dial(a)
    <3>1. ASSUME NEW p \in Peers,
                 Becomes(a, [run[a] EXCEPT !.pc = "connect", !.peer = p, !.conn = TRUE])
          PROVE  \E r \in Run : Stays(r)
      <4> DEFINE r == [run[a] EXCEPT !.pc = "connect", !.peer = p, !.conn = TRUE]
      <4>1. r \in Run /\ r.pc = "connect" /\ r.target = run[a].target
            /\ r.answer = run[a].answer /\ r.sentTo = run[a].sentTo
        BY Zenon DEF Run
      <4> HIDE DEF r
      <4>2. Becomes(a, r) /\ testMode' = testMode /\ run[a].pc = "dial"
        BY <2>1, <3>1 DEF r, Dial
      <4> HIDE DEF Stays
      <4> QED BY <1>a, <4>1, <4>2
    <3> QED BY <2>1, <3>1 DEF Dial
  <2>2. CASE GetBundle(a)
    <3>1. ASSUME NEW token \in Token,
                 Becomes(a, [run[a] EXCEPT !.pc = "verify", !.token = token])
          PROVE  \E r \in Run : Stays(r)
      <4> DEFINE r == [run[a] EXCEPT !.pc = "verify", !.token = token]
      <4>1. r \in Run /\ r.pc = "verify" /\ r.target = run[a].target
            /\ r.answer = run[a].answer /\ r.sentTo = run[a].sentTo
        BY Zenon DEF Run
      <4> HIDE DEF r
      <4>2. Becomes(a, r) /\ testMode' = testMode /\ run[a].pc = "connect"
        BY <2>2, <3>1 DEF r, GetBundle
      <4> HIDE DEF Stays
      <4> QED BY <1>a, <4>1, <4>2
    <3> QED BY <2>2, <3>1 DEF GetBundle
  <2>3. CASE Verify(a)
    <3>1. ASSUME Becomes(a, [run[a] EXCEPT !.pc = "post", !.token = NoToken])
          PROVE  \E r \in Run : Stays(r)
      <4> DEFINE r == [run[a] EXCEPT !.pc = "post", !.token = NoToken]
      <4>1. r \in Run /\ r.pc = "post" /\ r.target = run[a].target
            /\ r.answer = run[a].answer /\ r.sentTo = run[a].sentTo
        BY Zenon DEF Run
      <4> HIDE DEF r
      <4>2. Becomes(a, r) /\ testMode' = testMode /\ run[a].pc = "verify"
        BY <2>3, <3>1 DEF r, Verify
      <4> HIDE DEF Stays
      <4> QED BY <1>a, <4>1, <4>2
    <3> QED BY <2>3, <3>1 DEF Verify
  <2>4. CASE Post(a)
    <3>1. ASSUME Becomes(a, [run[a] EXCEPT !.pc = "sent", !.sentTo = run[a].peer,
                                           !.inFlight = TRUE])
          PROVE  \E r \in Run : Stays(r)
      <4> DEFINE r == [run[a] EXCEPT !.pc = "sent", !.sentTo = run[a].peer, !.inFlight = TRUE]
      <4>1. run[a].pc = "post" /\ run[a].peer \in Peers /\ run[a].answer = "none"
        BY <2>4 DEF Post, VerifyOK, SentOK
      <4>2. r \in Run /\ r.pc = "sent" /\ r.target = run[a].target
            /\ r.answer = run[a].answer
        BY <4>1, Zenon DEF Run
      <4> HIDE DEF r
      <4>3. Becomes(a, r) /\ testMode' = testMode
        BY <2>4, <3>1 DEF r, Post
      <4> HIDE DEF Stays
      <4> QED BY <1>a, <4>1, <4>2, <4>3
    <3> QED BY <2>4, <3>1 DEF Post
  <2>5. CASE Reply(a)
    BY <2>5 DEF Reply
  <2>6. CASE Kill(a)
    BY <2>6 DEF Kill
  <2>7. CASE Drop(a)
    <3>1. LET r == [run[a] EXCEPT !.conn = FALSE, !.inFlight = FALSE]
          IN r \in Run /\ r.pc = run[a].pc /\ r.ok = run[a].ok /\ r.target = run[a].target
             /\ r.answer = run[a].answer /\ r.sentTo = run[a].sentTo
      BY Zenon DEF Run
    <3> DEFINE r == [run[a] EXCEPT !.conn = FALSE, !.inFlight = FALSE]
    <3>2. r \in Run /\ Becomes(a, r) /\ testMode' = testMode
      BY <2>7, <3>1 DEF Drop
    <3>3. Phase(r) = Phase(run[a]) /\ TakenBy(r) = TakenBy(run[a]) /\ r.target = run[a].target
      BY <3>1, Zenon DEF Phase, TakenBy
    <3> HIDE DEF r
    <3> QED BY <3>2, <3>3
  <2> QED BY <2>1, <2>2, <2>3, <2>4, <2>5, <2>6, <2>7 DEF Client
<1>3. CASE Ends(TRUE)
  BY <1>3, ExitRefines
<1>4. CASE Ends(FALSE)
  BY <1>4, ExitRefines
<1>5. ASSUME NEW r \in Run, Stays(r) PROVE UNCHANGED Promise!vars
  BY <1>5, Stutters
<1> HIDE DEF Ends, Stays
<1> QED BY <1>2, <1>3, <1>4, <1>5

\* The initial states map to the initial state of Dispatch.
LEMMA RefinesInit == Init => Promise!Init
<1> SUFFICES ASSUME Init PROVE Promise!Init
  OBVIOUS
<1>1. \A a \in Attempts : /\ run[a].pc = "new" /\ run[a].answer = "none"
                          /\ run[a].target \in Images
  BY DEF Init
<1> QED BY <1>1 DEF Init, Promise!Init

\* Every step maps to a step of Dispatch or to a stutter.
LEMMA RefinesStep == IInv /\ [Next]_vars => [Promise!Next]_(Promise!vars)
<1> SUFFICES ASSUME IInv, [Next]_vars PROVE Promise!Next \/ UNCHANGED Promise!vars
  OBVIOUS
<1>1. ASSUME NEW a \in Attempts, Start(a) \/ Client(a) \/ PeerReads(a) \/ Drop(a)
      PROVE  Promise!Next \/ UNCHANGED Promise!vars
  BY <1>1, StartRefines, ClientRefines, PeerReadsRefines
<1>2. CASE UNCHANGED vars
  BY <1>2 DEF vars, Promise!vars
<1> QED BY <1>1, <1>2 DEF Next

\* Every attempt behaves as Dispatch says: one taker at most, the right one,
\* no success unless it took the payload, and after a failure it may have.
THEOREM ClientKeepsPromise == Spec => KeepsPromise
BY RatlsInv, RefinesInit, RefinesStep, PTL DEF Spec, KeepsPromise, Promise!Spec
=============================================================================
