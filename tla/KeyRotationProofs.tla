------------------------ MODULE KeyRotationProofs ------------------------
(***************************************************************************)
(* Proofs about KeyRotation, for any number of sessions and of rotations.  *)
(*                                                                         *)
(* The argument is that one goroutine rotates.  While it fetches a token   *)
(* for the keys it copied nobody else replaces the keys, so the token it   *)
(* writes still binds them; and since generations only grow, a key read    *)
(* after a bundle was served is of the bundle's generation or a later one. *)
(***************************************************************************)
EXTENDS KeyRotation, TLAPS

\* A generation is a number.
LEMMA GenerationsAreNat == Generations \subseteq Nat
  BY RotationsAssumption DEF Generations

\* What the rotator holds, and that what is published is bound.
RotatorInv ==
  /\ VerifyEatNonce(builder.oidcToken, builder.keys)
  /\ rotator.pc = "refresh" => rotator.k = builder.keys
  /\ rotator.pc = "rotate" => rotator.k = generated /\ builder.keys < rotator.k

\* What session s holds, by how far its request has come.
SessionInv(s) ==
  /\ VerifyEatNonce(session[s].bundle.oidcToken, session[s].bundle.keys)
  /\ session[s].bundle.keys =< builder.keys
  /\ session[s].request = "keyed" =>
       session[s].bundle.keys =< session[s].held /\ session[s].held =< builder.keys
  /\ session[s].request = "forwarded" => session[s].held = session[s].bundle.keys
  /\ session[s].request = "forwarded" => session[s].reply = "none"
  /\ session[s].request \in {"sent", "keyed"} => session[s].reply = "none"
  /\ session[s].reply \in {"ok", "error"} => session[s].info = session[s].bundle.keys

IInv == TypeOK /\ RotatorInv /\ \A s \in Sessions : SessionInv(s)

\* The Builder main starts with satisfies the invariant.
LEMMA InitIInv == Init => IInv
  BY RotationsAssumption
     DEF Init, IInv, TypeOK, RotatorInv, SessionInv, VerifyEatNonce, Generations, Bundle, Session

\* A step of the rotator keeps the sessions as they are and publishes only
\* what is bound and no older.
LEMMA RotatorStep ==
  ASSUME IInv, Rotator
  PROVE  /\ TypeOK' /\ RotatorInv'
         /\ UNCHANGED session
         /\ builder.keys =< builder'.keys
  <1> USE RotationsAssumption
      DEF IInv, TypeOK, RotatorInv, VerifyEatNonce, Generations, Bundle
  <1>1. CASE Generate
    BY <1>1 DEF Generate
  <1>2. CASE FullRotate
    BY <1>2 DEF FullRotate
  <1>3. CASE CopyKeys
    BY <1>3 DEF CopyKeys
  <1>4. CASE RefreshOIDC
    BY <1>4 DEF RefreshOIDC
  <1>5. CASE FetchFails
    BY <1>5 DEF FetchFails
  <1> QED BY <1>1, <1>2, <1>3, <1>4, <1>5 DEF Rotator

\* What a record r put in place of session s leaves alone.
LEMMA Replace ==
  ASSUME session \in [Sessions -> Session], NEW s \in Sessions, NEW r \in Session,
         session' = [session EXCEPT ![s] = r]
  PROVE  /\ session' \in [Sessions -> Session]
         /\ session'[s] = r
         /\ \A q \in Sessions \ {s} : session'[q] = session[q]
  OBVIOUS

\* A step of session s changes s alone and leaves the keys as they are.
LEMMA RequestStep ==
  ASSUME IInv, NEW s \in Sessions, Request(s)
  PROVE  /\ UNCHANGED <<builder, generated, rotator>>
         /\ session' \in [Sessions -> Session]
         /\ \A q \in Sessions \ {s} : session'[q] = session[q]
         /\ SessionInv(s)'
  <1> DEFINE c == session[s]
  <1>1. /\ session \in [Sessions -> Session] /\ c \in Session
        /\ builder \in Bundle /\ builder.keys \in Nat /\ builder.keys \in Generations
    BY GenerationsAreNat DEF IInv, TypeOK, Bundle
  <1>2. /\ SessionInv(s)
        /\ VerifyEatNonce(builder.oidcToken, builder.keys)
        /\ c.bundle.keys \in Nat /\ c.held \in Nat /\ c.held \in Generations
    BY <1>1, GenerationsAreNat DEF IInv, RotatorInv, Session, Bundle
  <1>3. CASE Attest(s)
    <2> DEFINE r == [c EXCEPT !.bundle = builder, !.has = @ \cup {"bundle"}, !.reply = "none"]
    <2>2. r \in Session
      BY <1>1, <1>2 DEF Session
    <2>3. session' = [session EXCEPT ![s] = r] /\ UNCHANGED <<builder, generated, rotator>>
      BY <1>3, <1>1 DEF Attest
    <2>4. /\ session' \in [Sessions -> Session] /\ session'[s] = r
          /\ \A q \in Sessions \ {s} : session'[q] = session[q]
      <3> HIDE DEF r
      <3> QED BY <1>1, <2>2, <2>3, Replace
    <2>5. SessionInv(s)'
      BY <1>3, <1>1, <1>2, <2>3, <2>4 DEF Attest, SessionInv, VerifyEatNonce
    <2> QED BY <2>3, <2>4, <2>5
  <1>4. CASE Send(s)
    <2>1. PICK kind \in {"submit", "upload"} :
            session' = [session EXCEPT ![s] =
              [c EXCEPT !.request = "sent", !.kind = kind, !.reply = "none"]]
      BY <1>4, <1>1 DEF Send
    <2> DEFINE r == [c EXCEPT !.request = "sent", !.kind = kind, !.reply = "none"]
    <2>2. r \in Session
      BY <1>1, <1>2 DEF Session
    <2>3. session' = [session EXCEPT ![s] = r] /\ UNCHANGED <<builder, generated, rotator>>
      BY <2>1, <1>4 DEF Send
    <2>4. /\ session' \in [Sessions -> Session] /\ session'[s] = r
          /\ \A q \in Sessions \ {s} : session'[q] = session[q]
      <3> HIDE DEF r
      <3> QED BY <1>1, <2>2, <2>3, Replace
    <2>5. SessionInv(s)'
      BY <1>4, <1>1, <1>2, <2>3, <2>4 DEF Send, SessionInv, Session, VerifyEatNonce
    <2> QED BY <2>3, <2>4, <2>5
  <1>5. CASE ReadKeys(s)
    <2> DEFINE r == [c EXCEPT !.request = "keyed", !.held = builder.keys]
    <2>2. r \in Session
      BY <1>1, <1>2 DEF Session
    <2>3. session' = [session EXCEPT ![s] = r] /\ UNCHANGED <<builder, generated, rotator>>
      BY <1>5, <1>1 DEF ReadKeys, HPKEKeys
    <2>4. /\ session' \in [Sessions -> Session] /\ session'[s] = r
          /\ \A q \in Sessions \ {s} : session'[q] = session[q]
      <3> HIDE DEF r
      <3> QED BY <1>1, <2>2, <2>3, Replace
    <2>5. SessionInv(s)'
      BY <1>5, <1>1, <1>2, <2>3, <2>4 DEF ReadKeys, HPKEKeys, SessionInv, VerifyEatNonce
    <2> QED BY <2>3, <2>4, <2>5
  <1>6. CASE OpenFails(s)
    <2> DEFINE r == [c EXCEPT !.request = "none", !.reply = "decryption failed"]
    <2>2. r \in Session
      BY <1>1, <1>2 DEF Session
    <2>3. session' = [session EXCEPT ![s] = r] /\ UNCHANGED <<builder, generated, rotator>>
      BY <1>6, <1>1 DEF OpenFails, Opens
    <2>4. /\ session' \in [Sessions -> Session] /\ session'[s] = r
          /\ \A q \in Sessions \ {s} : session'[q] = session[q]
      <3> HIDE DEF r
      <3> QED BY <1>1, <2>2, <2>3, Replace
    <2>5. SessionInv(s)'
      BY <1>6, <1>1, <1>2, <2>3, <2>4 DEF OpenFails, Opens, SessionInv, Session, VerifyEatNonce
    <2> QED BY <2>3, <2>4, <2>5
  <1>7. CASE Forward(s)
    <2> DEFINE r == [c EXCEPT !.request = "forwarded"]
    <2>2. r \in Session
      BY <1>1, <1>2 DEF Session
    <2>3. session' = [session EXCEPT ![s] = r] /\ UNCHANGED <<builder, generated, rotator>>
      BY <1>7, <1>1 DEF Forward, Opens
    <2>4. /\ session' \in [Sessions -> Session] /\ session'[s] = r
          /\ \A q \in Sessions \ {s} : session'[q] = session[q]
      <3> HIDE DEF r
      <3> QED BY <1>1, <2>2, <2>3, Replace
    <2>5. SessionInv(s)'
      BY <1>7, <1>1, <1>2, <2>3, <2>4 DEF Forward, Opens, SessionInv, Session, VerifyEatNonce
    <2> QED BY <2>3, <2>4, <2>5
  <1>8. CASE Reply(s)
    <2>1. PICK status \in {"ok", "error"} :
            session' = [session EXCEPT ![s].request = "none", ![s].reply = status,
                                       ![s].info = session[s].held,
                                       ![s].has = IF status = "ok" /\ session[s].kind = "submit"
                                                  THEN @ \cup {"job"} ELSE @]
      BY <1>8, Zenon DEF Reply
    <2> DEFINE r == [c EXCEPT !.request = "none", !.reply = status, !.info = c.held,
                           !.has = IF status = "ok" /\ c.kind = "submit"
                                     THEN @ \cup {"job"} ELSE @]
    <2>2. /\ r \in Session /\ r.request = "none" /\ r.reply = status
          /\ r.info = c.held /\ r.held = c.held /\ r.bundle = c.bundle /\ r.kind = c.kind
          /\ r.has = IF status = "ok" /\ c.kind = "submit" THEN c.has \cup {"job"} ELSE c.has
      BY <1>1, <1>2 DEF Session
    <2>3. session' = [session EXCEPT ![s] = r] /\ UNCHANGED <<builder, generated, rotator>>
      <3>1. session' = [session EXCEPT ![s] = r]
        BY <2>1, <1>1
      <3> QED BY <3>1, <1>8 DEF Reply
    <2>4. /\ session' \in [Sessions -> Session] /\ session'[s] = r
          /\ \A q \in Sessions \ {s} : session'[q] = session[q]
      <3> HIDE DEF r
      <3> QED BY <1>1, <2>2, <2>3, Replace
    <2>5. SessionInv(s)'
      BY <1>8, <1>1, <1>2, <2>3, <2>4 DEF Reply, SessionInv, Session, VerifyEatNonce
    <2> QED BY <2>3, <2>4, <2>5
  <1> QED BY <1>3, <1>4, <1>5, <1>6, <1>7, <1>8 DEF Request

\* Every step keeps the invariant.
LEMMA NextIInv == IInv /\ [Next]_vars => IInv'
  <1> SUFFICES ASSUME IInv, [Next]_vars PROVE IInv'
    OBVIOUS
  <1>1. CASE Rotator
    <2>1. TypeOK' /\ RotatorInv' /\ session' = session /\ builder.keys =< builder'.keys
      BY <1>1, RotatorStep
    <2>2. ASSUME NEW s \in Sessions PROVE SessionInv(s)'
      <3>1. session[s] \in Session /\ builder \in Bundle /\ builder' \in Bundle /\ SessionInv(s)
        BY <2>1 DEF IInv, TypeOK
      <3>2. /\ session[s].bundle.keys \in Nat /\ session[s].held \in Nat
            /\ builder.keys \in Nat /\ builder'.keys \in Nat
        BY <3>1, GenerationsAreNat DEF Session, Bundle
      <3> QED BY <2>1, <3>1, <3>2 DEF SessionInv
    <2> QED BY <2>1, <2>2 DEF IInv
  <1>2. ASSUME NEW s \in Sessions, Request(s) PROVE IInv'
    <2>1. /\ UNCHANGED <<builder, generated, rotator>>
          /\ session' \in [Sessions -> Session]
          /\ \A r \in Sessions \ {s} : session'[r] = session[r]
          /\ SessionInv(s)'
      BY <1>2, RequestStep
    <2>2. TypeOK' /\ RotatorInv'
      BY <2>1 DEF IInv, TypeOK, RotatorInv
    <2>3. ASSUME NEW r \in Sessions PROVE SessionInv(r)'
      <3>1. CASE r = s
        BY <2>1, <3>1
      <3>2. CASE r # s
        BY <2>1, <3>2 DEF IInv, SessionInv
      <3> QED BY <3>1, <3>2
    <2> QED BY <2>2, <2>3 DEF IInv
  <1>3. CASE UNCHANGED vars
    BY <1>3 DEF vars, IInv, TypeOK, RotatorInv, SessionInv
  <1> QED BY <1>1, <1>2, <1>3 DEF Next

\* The invariant holds of every reachable state.
LEMMA Invariance == Spec => []IInv
  BY InitIInv, NextIInv, PTL DEF Spec

\* Every variable keeps its type and no key is used before it is generated.
THEOREM KeyTypes == Spec => []TypeOK
  BY Invariance, PTL DEF IInv

\* Every bundle served binds the keys it carries (bundle.go, Build), for any
\* number of rotations and of browsers attesting while they happen.
THEOREM BundlesBind == Spec => []BundleBindsKeys
  <1>1. IInv => BundleBindsKeys
    BY DEF IInv, SessionInv, BundleBindsKeys
  <1> QED BY <1>1, Invariance, PTL

\* Every answer to a submission can be opened by the browser that sent it
\* (submit.go, HandleSubmit), whatever is rotated while it is being worked on.
THEOREM RepliesOpen == Spec => []ReplyOpens
  <1>1. IInv => ReplyOpens
    BY DEF IInv, SessionInv, ReplyOpens
  <1> QED BY <1>1, Invariance, PTL

\* Only a full rotation makes a request undecryptable (submit.go, HPKEKeys).
THEOREM OnlyRotationFails == Spec => []FailsOnlyAcrossRotation
  <1>1. ASSUME IInv, NEW s \in Sessions,
               session[s].request = "keyed", session[s].held # session[s].bundle.keys
        PROVE  session[s].bundle.keys < builder.keys
    <2>1. session[s] \in Session /\ builder \in Bundle /\ SessionInv(s)
      BY <1>1 DEF IInv, TypeOK
    <2>2. session[s].bundle.keys \in Nat /\ session[s].held \in Nat /\ builder.keys \in Nat
      BY <2>1, GenerationsAreNat DEF Session, Bundle
    <2> QED BY <1>1, <2>1, <2>2 DEF SessionInv
  <1>2. IInv => FailsOnlyAcrossRotation
    BY <1>1 DEF FailsOnlyAcrossRotation, Opens
  <1> QED BY <1>2, Invariance, PTL
=============================================================================
