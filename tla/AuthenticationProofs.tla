----------------------- MODULE AuthenticationProofs -----------------------
(***************************************************************************)
(* The key cache and the middleware, for any number of requests at once,   *)
(* any keys and tokens, and every lifetime and delay.                      *)
(***************************************************************************)
EXTENDS Authentication, TLAPS

\* Keycloak's clock and the cache's: a cached key was served at most
\* ReplyDelay before the cache was filled, and no cached document is newer
\* than Keycloak's.
CacheOK ==
  /\ \A k \in Kids : keycloak.withdrawn[k] <= now
  /\ cache.version <= keycloak.version
  /\ \A k \in cache.keys : cache.fetchedAt - ReplyDelay <= LastServed(k)

\* Whoever fetches holds the write lock, so that the document it receives is
\* no older than the cached one.
FetchOK(t) ==
  /\ req[t].pc \in {"fetching", "received"} => writer = t
  /\ req[t].pc = "received" =>
       /\ cache.version <= req[t].doc.version /\ req[t].doc.version <= keycloak.version
       /\ now - req[t].doc.at <= ReplyDelay
       /\ \A k \in req[t].doc.keys : req[t].doc.at <= LastServed(k)

Signed(token) == token \in Tokens /\ token.signer = token.kid /\ token.issuer = "ours"

\* A request in the lookup has a token; one that reached the mux a valid one.
TokenOK(t) ==
  /\ req[t].pc \in {"lookup", "slow", "fetching", "received", "verify"} => req[t].token \in Tokens
  /\ req[t].pc = "mux" /\ authOn /\ req[t].route # "open" => Signed(req[t].token)

IInv == TypeOK /\ CacheOK /\ \A t \in Threads : FetchOK(t) /\ TokenOK(t)

-----------------------------------------------------------------------------
\* "No document" has the type of one.
LEMMA NoDocumentType == NoDocument \in Document
BY BoundsAssumption DEF NoDocument, Document, Time

\* An idle request has the type of one.
LEMMA IdleType ==
  ASSUME NEW a \in {"none", "unauthorized", "no document", "forbidden", "served"}
  PROVE  Idle(a) \in Request /\ Idle(a).pc = "idle" /\ Idle(a).answer = a
BY NoDocumentType, Zenon DEF Idle, Request, Routes

\* So has a request that goes on,
LEMMA GotoType ==
  ASSUME NEW r \in Request, NEW pc \in {"slow", "fetching", "verify", "mux"}
  PROVE  LET s == [r EXCEPT !.pc = pc, !.doc = NoDocument]
         IN /\ s \in Request /\ s.pc = pc /\ s.route = r.route /\ s.token = r.token
            /\ s.answer = r.answer
BY NoDocumentType, Zenon DEF Request

\* and one that has received a document.
LEMMA ReceivedType ==
  ASSUME NEW r \in Request, NEW doc \in Document
  PROVE  LET s == [r EXCEPT !.pc = "received", !.doc = doc]
         IN /\ s \in Request /\ s.pc = "received" /\ s.token = r.token /\ s.doc = doc
BY Zenon DEF Request

\* The types of the parts that the proofs compare.
LEMMA FieldTypes ==
  ASSUME TypeOK
  PROVE  /\ now \in Int
         /\ keycloak.served \subseteq Kids /\ keycloak.version \in Int
         /\ keycloak.withdrawn \in [Kids -> Int]
         /\ cache.keys \subseteq Kids /\ cache.version \in Int /\ cache.fetchedAt \in Int
         /\ \A t \in Threads : /\ req[t] \in Request
                               /\ req[t].doc.keys \subseteq Kids
                               /\ req[t].doc.version \in 0 .. MaxVersions
                               /\ req[t].doc.at \in Time
         /\ TTL \in Int /\ ReplyDelay \in Int /\ TTL > 0 /\ ReplyDelay >= 0
<1>1. \A t \in Threads : req[t] \in Request
  BY DEF TypeOK
<1>2. \A t \in Threads : req[t].doc \in Document
  BY <1>1, Zenon DEF Request
<1>3. now \in Int /\ keycloak.version \in Int /\ cache.version \in Int
  BY BoundsAssumption DEF TypeOK, Time
<1>4. /\ keycloak.served \subseteq Kids /\ keycloak.withdrawn \in [Kids -> Int]
      /\ cache.keys \subseteq Kids /\ cache.fetchedAt \in Int
  BY DEF TypeOK
<1> QED BY <1>1, <1>2, <1>3, <1>4, BoundsAssumption DEF Document

\* A step of thread t leaves the other requests alone.
LEMMA OthersStay ==
  ASSUME TypeOK, NEW t \in Threads, NEW r \in Request, Becomes(t, r)
  PROVE  /\ req' \in [Threads -> Request] /\ req'[t] = r
         /\ \A u \in Threads \ {t} : req'[u] = req[u]
BY DEF TypeOK, Becomes

-----------------------------------------------------------------------------
\* A step of one request that leaves the cache and the lock alone.
LEMMA QuietStep ==
  ASSUME IInv, NEW t \in Threads, NEW r \in Request, Becomes(t, r),
         UNCHANGED <<now, keycloak, cache, writer, authOn>>,
         r.pc \notin {"fetching", "received"}, TokenOK(t)'
  PROVE  IInv'
<1>1. /\ req' \in [Threads -> Request] /\ req'[t] = r
      /\ \A u \in Threads \ {t} : req'[u] = req[u]
  BY OthersStay DEF IInv
<1>2. TypeOK'
  BY <1>1 DEF IInv, TypeOK
<1>3. CacheOK'
  BY DEF IInv, CacheOK, LastServed
<1>4. \A u \in Threads : FetchOK(u)' /\ TokenOK(u)'
  <2>1. FetchOK(t)'
    BY <1>1 DEF FetchOK
  <2>2. ASSUME NEW u \in Threads \ {t} PROVE FetchOK(u)' /\ TokenOK(u)'
    BY <1>1 DEF IInv, FetchOK, TokenOK, LastServed
  <2> QED BY <2>1, <2>2
<1> QED BY <1>2, <1>3, <1>4 DEF IInv

\* A step of the one that takes the lock, or gives it back.
LEMMA LockStep ==
  ASSUME IInv, NEW t \in Threads, NEW r \in Request, Becomes(t, r),
         UNCHANGED <<now, keycloak, authOn>>,
         TypeOK', CacheOK', FetchOK(t)', TokenOK(t)',
         \/ writer = NoThread /\ cache' = cache
         \/ writer = t
  PROVE  IInv'
<1>1. /\ req'[t] = r /\ \A u \in Threads \ {t} : req'[u] = req[u]
  BY OthersStay DEF IInv
<1>2. ASSUME NEW u \in Threads \ {t} PROVE FetchOK(u)' /\ TokenOK(u)'
  <2>1. req[u].pc \notin {"fetching", "received"}
    BY ThreadsAssumption DEF IInv, FetchOK
  <2> QED BY <1>1, <2>1 DEF IInv, FetchOK, TokenOK
<1> QED BY <1>2 DEF IInv

-----------------------------------------------------------------------------
\* Each step keeps the invariant; first the arrival of a request.
LEMMA ArriveStep == ASSUME IInv, NEW t \in Threads, Arrive(t) PROVE IInv'
<1>1. PICK route \in Routes, token \in Tokens \cup {NoToken} :
        LET open == ~authOn \/ route = "open"
            parses == token # NoToken /\ token.wellFormed
        IN Becomes(t,
             IF ~open /\ ~parses THEN Idle("unauthorized")
             ELSE [pc |-> IF open THEN "mux" ELSE "lookup", route |-> route, token |-> token,
                   doc |-> NoDocument, answer |-> "none",
                   kept |-> ~open /\ token.kid \in keycloak.served])
  BY DEF Arrive
<1>2. UNCHANGED <<now, keycloak, cache, writer, authOn>>
  BY DEF Arrive
<1>3. CASE Becomes(t, Idle("unauthorized"))
  <2> DEFINE r == Idle("unauthorized")
  <2>1. r \in Request /\ r.pc = "idle"
    BY IdleType
  <2> HIDE DEF r
  <2>2. Becomes(t, r)
    BY <1>3 DEF r
  <2>3. TokenOK(t)'
    BY <2>1, <2>2, OthersStay DEF IInv, TokenOK
  <2> QED BY <1>2, <2>1, <2>2, <2>3, QuietStep
<1>4. ASSUME NEW pc \in {"mux", "lookup"}, NEW kept \in BOOLEAN,
             pc = "mux" => ~authOn \/ route = "open", pc = "lookup" => token # NoToken,
             Becomes(t, [pc |-> pc, route |-> route, token |-> token, doc |-> NoDocument,
                         answer |-> "none", kept |-> kept])
      PROVE  IInv'
  <2> DEFINE r == [pc |-> pc, route |-> route, token |-> token, doc |-> NoDocument,
                   answer |-> "none", kept |-> kept]
  <2>1. r \in Request /\ r.pc = pc /\ r.route = route /\ r.token = token
    BY NoDocumentType, Zenon DEF Request
  <2> HIDE DEF r
  <2>2. Becomes(t, r)
    BY <1>4 DEF r
  <2>3. TokenOK(t)'
    BY <1>2, <1>4, <2>1, <2>2, OthersStay DEF IInv, TokenOK
  <2> QED BY <1>2, <1>4, <2>1, <2>2, <2>3, QuietStep
<1>5. (~(~authOn \/ route = "open") /\ token.kid \in keycloak.served) \in BOOLEAN
  OBVIOUS
<1>6. CASE ~authOn \/ route = "open"
  BY <1>1, <1>4, <1>5, <1>6
<1>7. CASE ~(~authOn \/ route = "open") /\ token # NoToken /\ token.wellFormed
  BY <1>1, <1>4, <1>5, <1>7
<1>8. CASE ~(~authOn \/ route = "open") /\ ~(token # NoToken /\ token.wellFormed)
  BY <1>1, <1>3, <1>8
<1> QED BY <1>6, <1>7, <1>8

\* A request is answered and nothing else changes, or goes on to verify or slow.
LEMMA AnswerQuiet ==
  ASSUME IInv, NEW t \in Threads, UNCHANGED <<now, keycloak, cache, writer, authOn>>,
         NEW a \in {"none", "unauthorized", "no document", "forbidden", "served"}, Answer(t, a)
  PROVE  IInv'
<1> DEFINE r == Idle(a)
<1>1. r \in Request /\ r.pc = "idle"
  BY IdleType
<1>2. Becomes(t, r)
  BY DEF Answer
<1> HIDE DEF r
<1>3. TokenOK(t)'
  BY <1>1, <1>2, OthersStay DEF IInv, TokenOK
<1> QED BY <1>1, <1>2, <1>3, QuietStep

\* A request that goes on and touches neither cache nor lock.
LEMMA GotoQuiet ==
  ASSUME IInv, NEW t \in Threads, UNCHANGED <<now, keycloak, cache, writer, authOn>>,
         NEW pc \in {"slow", "verify", "mux"}, Goto(t, pc),
         req[t].pc \in {"lookup", "slow", "verify"},
         pc = "mux" => Signed(req[t].token)
  PROVE  IInv'
<1> DEFINE r == [req[t] EXCEPT !.pc = pc, !.doc = NoDocument]
<1>1. r \in Request /\ r.pc = pc /\ r.token = req[t].token
  <2>1. req[t] \in Request /\ pc \in {"slow", "fetching", "verify", "mux"}
    BY FieldTypes DEF IInv
  <2> QED BY <2>1, GotoType
<1>2. Becomes(t, r)
  BY DEF Goto
<1> HIDE DEF r
<1>3. TokenOK(t)'
  BY <1>1, <1>2, OthersStay DEF IInv, TokenOK
<1> QED BY <1>1, <1>2, <1>3, QuietStep

\* The lookup under the read lock, the verification, the mux.
LEMMA QuietSteps ==
  ASSUME IInv, NEW t \in Threads, FastPath(t) \/ Verify(t) \/ Mux(t)
  PROVE  IInv'
<1>1. CASE FastPath(t)
  <2>1. Goto(t, "verify") \/ Goto(t, "slow")
    BY <1>1 DEF FastPath
  <2>2. req[t].pc = "lookup" /\ UNCHANGED <<now, keycloak, cache, writer, authOn>>
    BY <1>1 DEF FastPath
  <2> QED BY <2>1, <2>2, GotoQuiet
<1>2. CASE Verify(t)
  <2>1. Valid(req[t].token) => Signed(req[t].token)
    BY <1>2 DEF Verify, Valid, Signed, IInv, TokenOK
  <2> QED BY <1>2, <2>1, GotoQuiet, AnswerQuiet DEF Verify
<1>3. CASE Mux(t)
  <2>1. \/ Answer(t, "served") \/ Answer(t, "forbidden")
    BY <1>3 DEF Mux
  <2> QED BY <1>3, <2>1, AnswerQuiet DEF Mux
<1> QED BY <1>1, <1>2, <1>3

\* The lookup under the write lock, which takes it.
LEMMA SlowPathStep == ASSUME IInv, NEW t \in Threads, SlowPath(t) PROVE IInv'
<1>1. CASE Hit(t)
  BY <1>1, GotoQuiet DEF SlowPath
<1>2. CASE ~Hit(t)
  <2> DEFINE r == [req[t] EXCEPT !.pc = "fetching", !.doc = NoDocument]
  <2>1. r \in Request /\ r.pc = "fetching" /\ r.token = req[t].token
    BY FieldTypes, GotoType DEF IInv
  <2>2. Becomes(t, r) /\ UNCHANGED <<now, keycloak, cache, authOn>>
        /\ writer = NoThread /\ writer' = t /\ req[t].pc = "slow"
    BY <1>2 DEF SlowPath, Goto
  <2> HIDE DEF r
  <2>3. req' \in [Threads -> Request] /\ req'[t] = r
    BY <2>1, <2>2, OthersStay DEF IInv
  <2>4. TypeOK'
    BY <2>2, <2>3 DEF IInv, TypeOK
  <2>5. CacheOK'
    BY <2>2 DEF IInv, CacheOK, LastServed
  <2>6. FetchOK(t)' /\ TokenOK(t)'
    BY <2>1, <2>2, <2>3 DEF IInv, FetchOK, TokenOK
  <2> QED BY <2>1, <2>2, <2>4, <2>5, <2>6, LockStep
<1> QED BY <1>1, <1>2

\* A fetch that fails gives the write lock back.
LEMMA FetchFailsStep == ASSUME IInv, NEW t \in Threads, FetchFails(t) PROVE IInv'
<1> DEFINE r == Idle("no document")
<1>1. r \in Request /\ r.pc = "idle"
  BY IdleType
<1>2. Becomes(t, r) /\ UNCHANGED <<now, keycloak, cache, authOn>> /\ writer' = NoThread
  BY DEF FetchFails, Answer
<1> HIDE DEF r
<1>3. req' \in [Threads -> Request] /\ req'[t] = r
  BY <1>1, <1>2, OthersStay DEF IInv
<1>4. TypeOK'
  BY <1>2, <1>3 DEF IInv, TypeOK
<1>5. CacheOK'
  BY <1>2 DEF IInv, CacheOK, LastServed
<1>6. FetchOK(t)' /\ TokenOK(t)'
  BY <1>1, <1>3 DEF FetchOK, TokenOK
<1>7. writer = t
  BY DEF FetchFails, IInv, FetchOK
<1> QED BY <1>1, <1>2, <1>4, <1>5, <1>6, <1>7, LockStep

\* The cache is filled, and the request goes on as r.
LEMMA InstallAs ==
  ASSUME IInv, NEW t \in Threads, Install(t), NEW r \in Request, Becomes(t, r),
         r.pc \in {"idle", "verify"}, r.pc = "verify" => r.token = req[t].token
  PROVE  IInv'
<1> DEFINE doc == req[t].doc
<1>1. /\ req[t].pc = "received" /\ writer = t /\ writer' = NoThread
      /\ cache' = [keys |-> doc.keys, fetchedAt |-> now, version |-> doc.version]
      /\ UNCHANGED <<now, keycloak, authOn>>
      /\ FetchOK(t) /\ TokenOK(t)
  BY DEF Install, IInv, FetchOK
<1>3. req' \in [Threads -> Request] /\ req'[t] = r
  BY OthersStay DEF IInv
<1>4. cache' \in [keys : SUBSET Kids, fetchedAt : Int, version : 0 .. MaxVersions]
  BY <1>1, FieldTypes, Zenon DEF IInv
<1>5. TypeOK'
  BY <1>1, <1>3, <1>4 DEF IInv, TypeOK
<1>6. CacheOK'
  <2>1. cache'.keys = doc.keys /\ cache'.fetchedAt = now /\ cache'.version = doc.version
    BY <1>1
  <2>2. doc.version <= keycloak.version
    BY <1>1 DEF FetchOK
  <2>3. ASSUME NEW k \in doc.keys PROVE now - ReplyDelay <= LastServed(k)
    <3>1. doc.at <= LastServed(k) /\ now - doc.at <= ReplyDelay
      BY <1>1 DEF FetchOK
    <3>2. LastServed(k) \in Int /\ doc.at \in Int /\ now \in Int /\ ReplyDelay \in Int
      BY FieldTypes DEF IInv, LastServed, Time
    <3> QED BY <3>1, <3>2
  <2>4. \A k \in cache'.keys : cache'.fetchedAt - ReplyDelay <= LastServed(k)
    BY <2>1, <2>3
  <2>5. \A k \in Kids : LastServed(k)' = LastServed(k)
    BY <1>1 DEF LastServed
  <2>6. cache'.keys \subseteq Kids
    BY <2>1, FieldTypes DEF IInv
  <2> QED BY <1>1, <2>1, <2>2, <2>4, <2>5, <2>6 DEF IInv, CacheOK
<1>7. FetchOK(t)' /\ TokenOK(t)'
  BY <1>1, <1>3 DEF FetchOK, TokenOK
<1> QED BY <1>1, <1>5, <1>6, <1>7, LockStep

\* A fetch that succeeds fills the cache and gives the lock back.
LEMMA InstallStep == ASSUME IInv, NEW t \in Threads, Install(t) PROVE IInv'
<1>1. CASE Goto(t, "verify")
  <2> DEFINE r == [req[t] EXCEPT !.pc = "verify", !.doc = NoDocument]
  <2>1. r \in Request /\ r.pc = "verify" /\ r.token = req[t].token
    BY FieldTypes, GotoType DEF IInv
  <2>2. Becomes(t, r)
    BY <1>1 DEF Goto
  <2> HIDE DEF r
  <2> QED BY <2>1, <2>2, InstallAs
<1>2. CASE Answer(t, "unauthorized")
  <2> DEFINE r == Idle("unauthorized")
  <2>1. r \in Request /\ r.pc = "idle"
    BY IdleType
  <2>2. Becomes(t, r)
    BY <1>2 DEF Answer
  <2> HIDE DEF r
  <2> QED BY <2>1, <2>2, InstallAs
<1> QED BY <1>1, <1>2 DEF Install

\* Keycloak answers a fetch.
LEMMA ServeStep == ASSUME IInv, NEW t \in Threads, Serve(t) PROVE IInv'
<1> DEFINE doc == [keys |-> keycloak.served, version |-> keycloak.version, at |-> now]
           r == [req[t] EXCEPT !.pc = "received", !.doc = doc]
<1>1. doc \in Document /\ doc.keys = keycloak.served /\ doc.version = keycloak.version
      /\ doc.at = now
  BY DEF IInv, TypeOK, Document
<1> HIDE DEF doc
<1>2. r \in Request /\ r.pc = "received" /\ r.token = req[t].token /\ r.doc = doc
  BY <1>1, FieldTypes, ReceivedType DEF IInv
<1>3. /\ Becomes(t, r) /\ UNCHANGED <<now, keycloak, cache, writer, authOn>>
      /\ req[t].pc = "fetching"
  BY DEF Serve, doc
<1> HIDE DEF r
<1>4. req' \in [Threads -> Request] /\ req'[t] = r
  BY <1>2, <1>3, OthersStay DEF IInv
<1>5. TypeOK'
  BY <1>3, <1>4 DEF IInv, TypeOK
<1>6. CacheOK'
  BY <1>3 DEF IInv, CacheOK, LastServed
<1>7. now - now <= ReplyDelay /\ now <= now /\ keycloak.version <= keycloak.version
  BY FieldTypes DEF IInv
<1>8. FetchOK(t)' /\ TokenOK(t)'
  BY <1>1, <1>2, <1>3, <1>4, <1>7 DEF IInv, FetchOK, TokenOK, CacheOK, LastServed
<1>9. writer = t
  BY <1>3 DEF IInv, FetchOK
<1> QED BY <1>2, <1>3, <1>5, <1>6, <1>8, <1>9, LockStep


-----------------------------------------------------------------------------
\* Publishing never moves the moment a key was last served backwards.
LEMMA PublishStep == ASSUME IInv, Publish PROVE IInv'
<1>1. PICK S \in SUBSET Kids :
        /\ keycloak' = [served |-> S, version |-> keycloak.version + 1,
             withdrawn |-> [k \in Kids |->
                IF k \in keycloak.served \ S THEN now ELSE keycloak.withdrawn[k]]]
        /\ req' = [t \in Threads |-> [req[t] EXCEPT !.kept =
                     @ /\ req[t].token # NoToken /\ req[t].token.kid \in S]]
  BY DEF Publish
<1>2. UNCHANGED <<now, cache, writer, authOn>> /\ keycloak.version < MaxVersions
  BY DEF Publish
<1>3. \A t \in Threads :
        /\ req'[t] \in Request /\ req'[t].pc = req[t].pc /\ req'[t].route = req[t].route
        /\ req'[t].token = req[t].token /\ req'[t].doc = req[t].doc
  <2> SUFFICES ASSUME NEW t \in Threads
               PROVE /\ req'[t] \in Request /\ req'[t].pc = req[t].pc
                     /\ req'[t].route = req[t].route
                     /\ req'[t].token = req[t].token /\ req'[t].doc = req[t].doc
    OBVIOUS
  <2> DEFINE kept == req[t].kept /\ req[t].token # NoToken /\ req[t].token.kid \in S
  <2>1. req'[t] = [req[t] EXCEPT !.kept = kept]
    BY <1>1
  <2>2. req[t] \in Request /\ kept \in BOOLEAN
    BY FieldTypes DEF IInv
  <2> HIDE DEF kept
  <2>3. LET r == [req[t] EXCEPT !.kept = kept]
        IN /\ r \in Request /\ r.pc = req[t].pc /\ r.route = req[t].route
           /\ r.token = req[t].token /\ r.doc = req[t].doc
    BY <2>2, Zenon DEF Request
  <2> QED BY <2>1, <2>3
<1>4. /\ keycloak'.served = S /\ keycloak'.version = keycloak.version + 1
      /\ keycloak'.withdrawn = [k \in Kids |->
           IF k \in keycloak.served \ S THEN now ELSE keycloak.withdrawn[k]]
  BY <1>1
<1>5. keycloak' \in [served : SUBSET Kids, version : 0 .. MaxVersions, withdrawn : [Kids -> Int]]
  <2>1. keycloak.version + 1 \in 0 .. MaxVersions
    BY <1>2, BoundsAssumption DEF IInv, TypeOK
  <2>2. [k \in Kids |-> IF k \in keycloak.served \ S THEN now ELSE keycloak.withdrawn[k]]
          \in [Kids -> Int]
    BY FieldTypes DEF IInv
  <2> QED BY <1>1, <2>1, <2>2
<1>6. TypeOK'
  <2>1. req' \in [Threads -> Request]
    BY <1>1, <1>3
  <2> QED BY <1>2, <1>5, <2>1 DEF IInv, TypeOK
<1>7. \A k \in Kids : LastServed(k) <= LastServed(k)' /\ keycloak'.withdrawn[k] <= now
  BY <1>2, <1>4, FieldTypes DEF IInv, CacheOK, LastServed
<1>8. \A k \in Kids : LastServed(k) \in Int /\ LastServed(k)' \in Int
  BY <1>2, <1>5, FieldTypes DEF IInv, LastServed
<1>9. keycloak.version <= keycloak'.version
  BY <1>4, FieldTypes DEF IInv
<1>10. CacheOK'
  <2>1. cache.version <= keycloak'.version
    BY <1>4, FieldTypes DEF IInv, CacheOK
  <2>2. ASSUME NEW k \in cache.keys PROVE cache.fetchedAt - ReplyDelay <= LastServed(k)'
    BY <1>7, <1>8, FieldTypes DEF IInv, CacheOK
  <2> QED BY <1>2, <1>7, <2>1, <2>2 DEF CacheOK
<1>11. ASSUME NEW t \in Threads PROVE FetchOK(t)' /\ TokenOK(t)'
  <2>1. TokenOK(t)'
    BY <1>2, <1>3 DEF IInv, TokenOK
  <2>2. ASSUME req[t].pc = "received" PROVE
           /\ cache.version <= req[t].doc.version /\ req[t].doc.version <= keycloak'.version
           /\ now - req[t].doc.at <= ReplyDelay
           /\ \A k \in req[t].doc.keys : req[t].doc.at <= LastServed(k)'
    <3>1. FetchOK(t)
      BY DEF IInv
    <3>2. req[t].doc.version \in Int /\ req[t].doc.at \in Int /\ req[t].doc.keys \subseteq Kids
      BY FieldTypes DEF IInv, Time
    <3>3. req[t].doc.version <= keycloak'.version
      BY <1>4, <2>2, <3>1, <3>2, FieldTypes DEF IInv, FetchOK
    <3>4. ASSUME NEW k \in req[t].doc.keys PROVE req[t].doc.at <= LastServed(k)'
      BY <1>7, <1>8, <2>2, <3>1, <3>2 DEF FetchOK
    <3> QED BY <2>2, <3>1, <3>3, <3>4 DEF FetchOK
  <2>3. req[t].pc \in {"fetching", "received"} => writer = t
    BY DEF IInv, FetchOK
  <2>4. FetchOK(t)'
    BY <1>2, <1>3, <2>2, <2>3 DEF FetchOK
  <2> QED BY <2>1, <2>4
<1> QED BY <1>6, <1>10, <1>11 DEF IInv

\* The clock waits for the documents that have travelled long enough.
LEMMA TickStep == ASSUME IInv, Tick PROVE IInv'
<1>1. /\ now' = now + 1 /\ now < MaxTime /\ UNCHANGED <<keycloak, cache, writer, req, authOn>>
      /\ \A t \in Threads : req[t].pc = "received" => now - req[t].doc.at < ReplyDelay
  BY DEF Tick
<1>2. TypeOK'
  BY <1>1, BoundsAssumption DEF IInv, TypeOK, Time
<1>3. \A k \in Kids : LastServed(k) <= LastServed(k)' /\ keycloak.withdrawn[k] <= now'
  BY <1>1, FieldTypes DEF IInv, CacheOK, LastServed
<1>4. \A k \in Kids : LastServed(k) \in Int /\ LastServed(k)' \in Int
  BY <1>1, FieldTypes DEF IInv, LastServed
<1>5. CacheOK'
  <2>1. ASSUME NEW k \in cache.keys PROVE cache.fetchedAt - ReplyDelay <= LastServed(k)'
    BY <1>3, <1>4, FieldTypes DEF IInv, CacheOK
  <2> QED BY <1>1, <1>3, <2>1 DEF IInv, CacheOK
<1>6. ASSUME NEW t \in Threads PROVE FetchOK(t)' /\ TokenOK(t)'
  <2>1. TokenOK(t)'
    BY <1>1 DEF IInv, TokenOK
  <2>2. ASSUME req[t].pc = "received" PROVE
           /\ now' - req[t].doc.at <= ReplyDelay
           /\ \A k \in req[t].doc.keys : req[t].doc.at <= LastServed(k)'
    <3>1. req[t].doc.at \in Int /\ req[t].doc.keys \subseteq Kids
      BY FieldTypes DEF IInv, Time
    <3>2. now' - req[t].doc.at <= ReplyDelay
      BY <1>1, <2>2, <3>1, FieldTypes DEF IInv
    <3>3. ASSUME NEW k \in req[t].doc.keys PROVE req[t].doc.at <= LastServed(k)'
      BY <1>3, <1>4, <2>2, <3>1 DEF IInv, FetchOK
    <3> QED BY <3>2, <3>3
  <2>3. FetchOK(t)'
    BY <1>1, <2>2 DEF IInv, FetchOK
  <2> QED BY <2>1, <2>3
<1> QED BY <1>2, <1>5, <1>6 DEF IInv

-----------------------------------------------------------------------------
\* The cache starts empty, no request is in the lookup, and the lock is free.
LEMMA AuthInit == Init => IInv
<1> SUFFICES ASSUME Init PROVE IInv
  OBVIOUS
<1>1. Idle("none") \in Request /\ Idle("none").pc = "idle"
  BY IdleType
<1>2. req \in [Threads -> Request] /\ \A t \in Threads : req[t].pc = "idle"
  BY <1>1 DEF Init
<1>3. keycloak.withdrawn = [k \in Kids |-> -1] /\ keycloak.served \subseteq Kids
      /\ keycloak.version = 0
  BY DEF Init
<1>4. keycloak \in [served : SUBSET Kids, version : 0 .. MaxVersions, withdrawn : [Kids -> Int]]
  <2>1. PICK S \in SUBSET Kids : keycloak = [served |-> S, version |-> 0,
                                             withdrawn |-> [k \in Kids |-> -1]]
    BY Zenon DEF Init
  <2>2. [k \in Kids |-> -1] \in [Kids -> Int] /\ 0 \in 0 .. MaxVersions
    BY BoundsAssumption
  <2> QED BY <2>1, <2>2
<1>5. TypeOK
  BY <1>2, <1>4, BoundsAssumption DEF Init, TypeOK, Time
<1>6. CacheOK
  BY <1>3 DEF Init, CacheOK
<1> QED BY <1>2, <1>5, <1>6 DEF IInv, FetchOK, TokenOK

\* Every step keeps the invariant.
LEMMA AuthStep == IInv /\ [Next]_vars => IInv'
<1> SUFFICES ASSUME IInv, [Next]_vars PROVE IInv'
  OBVIOUS
<1>1. ASSUME NEW t \in Threads, Arrive(t) \/ Locks(t) \/ Fetches(t) \/ Verify(t) \/ Mux(t)
      PROVE  IInv'
  BY <1>1, ArriveStep, QuietSteps, SlowPathStep, FetchFailsStep, InstallStep, ServeStep
     DEF Locks, Fetches
<1>2. CASE UNCHANGED vars
  BY <1>2 DEF vars, IInv, TypeOK, CacheOK, FetchOK, TokenOK, LastServed
<1> QED BY <1>1, <1>2, PublishStep, TickStep DEF Next

\* What holds of the cache, the lock and the requests at all times: auth.go
\* from the bearer token (auth.go:19) to the installed document (auth.go:79).
THEOREM AuthInv == Spec => []IInv
BY AuthInit, AuthStep, PTL DEF Spec

-----------------------------------------------------------------------------
\* The steps a request takes itself.
Own(t) == Arrive(t) \/ Locks(t) \/ Fetches(t) \/ Verify(t) \/ Mux(t)

\* No step but its own moves a request.
LEMMA OnlyOwnStepMoves ==
  ASSUME IInv, [Next]_vars, NEW t \in Threads, req'[t].pc # req[t].pc
  PROVE  Own(t)
<1>1. req \in [Threads -> Request]
  BY DEF IInv, TypeOK
<1>2. ASSUME NEW u \in Threads, u # t, Own(u) PROVE req'[t] = req[t]
  BY <1>1, <1>2 DEF Own, Arrive, Locks, FastPath, SlowPath, Fetches, Serve, FetchFails, Install,
                    Verify, Mux, Goto, Answer, Becomes
<1>3. Tick \/ UNCHANGED vars => req' = req
  BY DEF Tick, vars
<1>4. ASSUME Publish PROVE req'[t].pc = req[t].pc
  <2>1. PICK S \in SUBSET Kids :
          req' = [u \in Threads |-> [req[u] EXCEPT !.kept =
                    @ /\ req[u].token # NoToken /\ req[u].token.kid \in S]]
    BY <1>4 DEF Publish
  <2>2. req'[t] = [req[t] EXCEPT !.kept =
                    @ /\ req[t].token # NoToken /\ req[t].token.kid \in S]
    BY <2>1
  <2>3. req[t] \in Request
    BY <1>1
  <2> QED BY <2>2, <2>3 DEF Request
<1> QED BY <1>2, <1>3, <1>4 DEF Next, Own

\* Where a step of its own leaves a request that was not idle.
LEMMA AfterGoto ==
  ASSUME IInv, NEW t \in Threads, NEW pc \in {"slow", "fetching", "verify", "mux"}, Goto(t, pc)
  PROVE  req'[t].pc = pc
<1> DEFINE r == [req[t] EXCEPT !.pc = pc, !.doc = NoDocument]
<1>1. r \in Request /\ r.pc = pc
  <2>1. req[t] \in Request /\ pc \in {"slow", "fetching", "verify", "mux"}
    BY FieldTypes DEF IInv
  <2> QED BY <2>1, GotoType
<1>2. Becomes(t, r)
  BY DEF Goto
<1> HIDE DEF r
<1> QED BY <1>1, <1>2, OthersStay DEF IInv

\* Where a request is after it was answered,
LEMMA AfterAnswer ==
  ASSUME IInv, NEW t \in Threads,
         NEW a \in {"none", "unauthorized", "no document", "forbidden", "served"}, Answer(t, a)
  PROVE  req'[t].pc = "idle" /\ req'[t].answer = a
<1> DEFINE r == Idle(a)
<1>1. r \in Request /\ r.pc = "idle" /\ r.answer = a
  BY IdleType
<1>2. Becomes(t, r)
  BY DEF Answer
<1> HIDE DEF r
<1> QED BY <1>1, <1>2, OthersStay DEF IInv

\* after Keycloak served its document,
LEMMA AfterServe ==
  ASSUME IInv, NEW t \in Threads, Serve(t) PROVE req'[t].pc = "received"
<1>1. req[t] \in Request /\ req \in [Threads -> Request]
  BY DEF IInv, TypeOK
<1> QED BY <1>1 DEF Serve, Becomes, Request

\* and after it arrived.
LEMMA AfterArrive ==
  ASSUME IInv, NEW t \in Threads, Arrive(t)
  PROVE  req[t].pc = "idle" /\ req'[t].pc \in {"idle", "mux", "lookup"}
<1>1. req \in [Threads -> Request]
  BY DEF IInv, TypeOK
<1> QED BY <1>1 DEF Arrive, Becomes, Idle

-----------------------------------------------------------------------------
\* jwksCacheTTL bounds how long a key that Keycloak withdrew is still
\* accepted (auth.go:53, auth.go:62, auth.go:79).
THEOREM WithdrawnKeyBounded == Spec => KeyRecentlyServed
<1>1. ASSUME IInv, [Next]_vars, NEW t \in Threads, req[t].pc # "verify", req'[t].pc = "verify"
      PROVE  now - LastServed(req[t].token.kid) < TTL + ReplyDelay
  <2> DEFINE kid == req[t].token.kid
  <2>1. Own(t)
    BY <1>1, OnlyOwnStepMoves
  <2>2. \/ Locks(t) /\ Hit(t)
        \/ Install(t) /\ kid \in req[t].doc.keys
    <3>1. CASE Arrive(t)
      BY <1>1, <3>1, AfterArrive
    <3>2. CASE Locks(t)
      BY <1>1, <3>2, AfterGoto DEF Locks, FastPath, SlowPath
    <3>3. CASE Serve(t)
      BY <1>1, <3>3, AfterServe
    <3>4. CASE FetchFails(t)
      BY <1>1, <3>4, AfterAnswer DEF FetchFails
    <3>5. CASE Install(t)
      BY <1>1, <3>5, AfterAnswer DEF Install
    <3>6. CASE Verify(t)
      BY <1>1, <3>6 DEF Verify
    <3>7. CASE Mux(t)
      BY <1>1, <3>7, AfterAnswer DEF Mux
    <3> QED BY <2>1, <3>1, <3>2, <3>3, <3>4, <3>5, <3>6, <3>7 DEF Own, Fetches
  <2>3. CASE Hit(t)
    <3>1. kid \in Kids /\ cache.fetchedAt - ReplyDelay <= LastServed(kid)
      BY <1>1, <2>3, FieldTypes DEF Hit, IInv, CacheOK
    <3>2. now - cache.fetchedAt < TTL
      BY <2>3 DEF Hit, Fresh
    <3>3. LastServed(kid) \in Int
      BY <1>1, <3>1, FieldTypes DEF IInv, LastServed
    <3> QED BY <1>1, <3>1, <3>2, <3>3, FieldTypes DEF IInv
  <2>4. CASE Install(t) /\ kid \in req[t].doc.keys
    <3>1. req[t].doc.at <= LastServed(kid) /\ now - req[t].doc.at <= ReplyDelay
      BY <1>1, <2>4 DEF Install, IInv, FetchOK
    <3>2. LastServed(kid) \in Int /\ req[t].doc.at \in Int
      BY <1>1, <2>4, FieldTypes DEF IInv, LastServed, Time
    <3> QED BY <1>1, <3>1, <3>2, FieldTypes DEF IInv
  <2> QED BY <2>2, <2>3, <2>4
<1>2. IInv /\ [Next]_vars =>
        [\A t \in Threads : req[t].pc # "verify" /\ req'[t].pc = "verify"
           => now - LastServed(req[t].token.kid) < TTL + ReplyDelay]_vars
  BY <1>1
<1> QED BY <1>2, AuthInv, PTL DEF Spec, KeyRecentlyServed

\* The write lock is held from the fetch to the install (auth.go:59), so a
\* slow Keycloak answer cannot replace the document of a later one.
THEOREM CacheMonotone == Spec => CacheNeverGoesBack
<1>1. ASSUME IInv, [Next]_vars PROVE cache.version <= cache'.version
  <2>1. ASSUME NEW t \in Threads, Install(t) PROVE cache.version <= cache'.version
    BY <1>1, <2>1 DEF Install, IInv, FetchOK
  <2>2. cache' = cache => cache.version <= cache'.version
    BY <1>1, FieldTypes DEF IInv
  <2> QED BY <1>1, <2>1, <2>2 DEF Next, vars, Arrive, Locks, FastPath, SlowPath, Fetches, Serve,
                                  FetchFails, Verify, Mux, Publish, Tick
<1>2. IInv /\ [Next]_vars => [cache.version <= cache'.version]_vars
  BY <1>1
<1> QED BY <1>2, AuthInv, PTL DEF Spec, CacheNeverGoesBack

\* With authentication on, what is answered with data was asked for with a
\* token that Keycloak signed for this issuer, and the queue by an admin
\* (auth.go:19, auth.go:204, server.go's routes).
THEOREM OnlyAuthorized == Spec => OnlyAuthorizedServed
<1>1. ASSUME IInv, [Next]_vars, NEW t \in Threads, authOn, Answered(t, "served"),
             req[t].route # "open"
      PROVE  /\ req[t].token # NoToken /\ req[t].token.signer = req[t].token.kid
             /\ req[t].token.issuer = "ours"
             /\ req[t].route = "queue" => req[t].token.orgAdmin
  <2>1. Own(t)
    BY <1>1, OnlyOwnStepMoves DEF Answered
  <2>2. Mux(t)
    <3>1. CASE Arrive(t)
      BY <1>1, <3>1, AfterArrive DEF Answered
    <3>2. CASE Locks(t)
      BY <1>1, <3>2, AfterGoto DEF Locks, FastPath, SlowPath, Answered
    <3>3. CASE Serve(t)
      BY <1>1, <3>3, AfterServe DEF Answered
    <3>4. CASE FetchFails(t)
      BY <1>1, <3>4, AfterAnswer DEF FetchFails, Answered
    <3>5. CASE Install(t)
      BY <1>1, <3>5, AfterAnswer, AfterGoto DEF Install, Answered
    <3>6. CASE Verify(t)
      BY <1>1, <3>6, AfterAnswer, AfterGoto DEF Verify, Answered
    <3> QED BY <2>1, <3>1, <3>2, <3>3, <3>4, <3>5, <3>6 DEF Own, Fetches
  <2>3. req[t].token \in Tokens /\ Signed(req[t].token)
    BY <1>1, <2>2 DEF Mux, IInv, TokenOK, Signed
  <2>4. req[t].route = "queue" => HasRole(req[t].token)
    BY <1>1, <2>2, AfterAnswer DEF Mux, Answered
  <2> QED BY <2>3, <2>4, TokensAssumption DEF Signed, HasRole
<1>2. IInv /\ [Next]_vars =>
        [\A t \in Threads : LET r == req[t] IN
           authOn /\ Answered(t, "served") /\ r.route # "open"
             => /\ r.token # NoToken /\ r.token.signer = r.token.kid /\ r.token.issuer = "ours"
                /\ r.route = "queue" => r.token.orgAdmin]_vars
  BY <1>1
<1> QED BY <1>2, AuthInv, PTL DEF Spec, OnlyAuthorizedServed

-----------------------------------------------------------------------------
\* A key that Keycloak kept since the request arrived is in the document that
\* was fetched for it.
KeptOK(t) ==
  req[t].kept => /\ req[t].token.kid \in keycloak.served
                 /\ req[t].pc = "received" => req[t].token.kid \in req[t].doc.keys

KInv == IInv /\ \A t \in Threads : KeptOK(t)

\* A step that gives thread t the request r keeps KeptOK if r does.
LEMMA KeptStep ==
  ASSUME KInv, NEW t \in Threads, NEW r \in Request, Becomes(t, r), UNCHANGED keycloak,
         r.kept => /\ r.token.kid \in keycloak.served
                   /\ r.pc = "received" => r.token.kid \in r.doc.keys
  PROVE  \A u \in Threads : KeptOK(u)'
<1>1. req'[t] = r /\ \A u \in Threads \ {t} : req'[u] = req[u]
  BY OthersStay DEF KInv, IInv
<1>2. KeptOK(t)'
  BY <1>1 DEF KeptOK
<1>3. ASSUME NEW u \in Threads \ {t} PROVE KeptOK(u)'
  BY <1>1 DEF KInv, KeptOK
<1> QED BY <1>2, <1>3

\* An answer forgets what was kept.
LEMMA KeptAnswer ==
  ASSUME KInv, NEW t \in Threads, UNCHANGED keycloak,
         NEW a \in {"none", "unauthorized", "no document", "forbidden", "served"}, Answer(t, a)
  PROVE  \A u \in Threads : KeptOK(u)'
<1> DEFINE r == Idle(a)
<1>1. r \in Request /\ ~r.kept
  BY IdleType DEF Idle
<1>2. Becomes(t, r)
  BY DEF Answer
<1> HIDE DEF r
<1> QED BY <1>1, <1>2, KeptStep

\* A request that goes on keeps what it had.
LEMMA KeptGoto ==
  ASSUME KInv, NEW t \in Threads, UNCHANGED keycloak,
         NEW pc \in {"slow", "fetching", "verify", "mux"}, Goto(t, pc)
  PROVE  \A u \in Threads : KeptOK(u)'
<1> DEFINE r == [req[t] EXCEPT !.pc = pc, !.doc = NoDocument]
<1>1. req[t] \in Request
  BY FieldTypes DEF KInv, IInv
<1>2. r \in Request /\ r.pc = pc /\ r.token = req[t].token
  BY <1>1, GotoType
<1>3. r.kept = req[t].kept
  BY <1>1, Zenon DEF Request
<1>4. Becomes(t, r)
  BY DEF Goto
<1> HIDE DEF r
<1> QED BY <1>2, <1>3, <1>4, KeptStep DEF KInv, KeptOK

\* A request that arrives looks whether its key is served now.
LEMMA KeptArrive ==
  ASSUME KInv, NEW t \in Threads, Arrive(t) PROVE \A u \in Threads : KeptOK(u)'
<1>1. PICK route \in Routes, token \in Tokens \cup {NoToken} :
        LET open == ~authOn \/ route = "open"
            parses == token # NoToken /\ token.wellFormed
        IN Becomes(t,
             IF ~open /\ ~parses THEN Idle("unauthorized")
             ELSE [pc |-> IF open THEN "mux" ELSE "lookup", route |-> route, token |-> token,
                   doc |-> NoDocument, answer |-> "none",
                   kept |-> ~open /\ token.kid \in keycloak.served])
  BY DEF Arrive
<1>2. UNCHANGED keycloak
  BY DEF Arrive
<1>3. ASSUME NEW pc \in {"mux", "lookup"}, NEW kept \in BOOLEAN,
             kept => token.kid \in keycloak.served,
             Becomes(t, [pc |-> pc, route |-> route, token |-> token, doc |-> NoDocument,
                         answer |-> "none", kept |-> kept])
      PROVE  \A u \in Threads : KeptOK(u)'
  <2> DEFINE r == [pc |-> pc, route |-> route, token |-> token, doc |-> NoDocument,
                   answer |-> "none", kept |-> kept]
  <2>1. r \in Request /\ r.pc = pc /\ r.token = token /\ r.kept = kept
    BY NoDocumentType, Zenon DEF Request
  <2> HIDE DEF r
  <2>2. Becomes(t, r)
    BY <1>3 DEF r
  <2> QED BY <1>2, <1>3, <2>1, <2>2, KeptStep
<1>4. /\ (~(~authOn \/ route = "open") /\ token.kid \in keycloak.served) \in BOOLEAN
      /\ ~(~authOn \/ route = "open") /\ token.kid \in keycloak.served
           => token.kid \in keycloak.served
  OBVIOUS
<1>5. CASE Answer(t, "unauthorized")
  BY <1>2, <1>5, KeptAnswer
<1>6. CASE ~authOn \/ route = "open"
  BY <1>1, <1>3, <1>4, <1>6
<1>7. CASE ~(~authOn \/ route = "open") /\ token # NoToken /\ token.wellFormed
  BY <1>1, <1>3, <1>4, <1>7
<1>8. CASE ~(~authOn \/ route = "open") /\ ~(token # NoToken /\ token.wellFormed)
  BY <1>1, <1>5, <1>8 DEF Answer
<1> QED BY <1>6, <1>7, <1>8

\* A key kept so far is in the document that Keycloak makes now.
LEMMA KeptServe ==
  ASSUME KInv, NEW t \in Threads, Serve(t) PROVE \A u \in Threads : KeptOK(u)'
<1> DEFINE doc == [keys |-> keycloak.served, version |-> keycloak.version, at |-> now]
           r == [req[t] EXCEPT !.pc = "received", !.doc = doc]
<1>1. doc \in Document /\ doc.keys = keycloak.served
  BY DEF KInv, IInv, TypeOK, Document
<1>2. Becomes(t, r) /\ UNCHANGED keycloak
  BY DEF Serve
<1> HIDE DEF doc
<1>3. req[t] \in Request
  BY FieldTypes DEF KInv, IInv
<1>4. r \in Request /\ r.token = req[t].token /\ r.doc = doc
  BY <1>1, <1>3, ReceivedType
<1>5. r.kept = req[t].kept
  BY <1>3, Zenon DEF Request
<1> HIDE DEF r
<1> QED BY <1>1, <1>2, <1>4, <1>5, KeptStep DEF KInv, KeptOK

\* A key that Keycloak withdraws is kept no longer, in any request.
LEMMA KeptPublish == ASSUME KInv, Publish PROVE \A u \in Threads : KeptOK(u)'
<1> SUFFICES ASSUME NEW t \in Threads PROVE KeptOK(t)'
  OBVIOUS
<1>1. PICK S \in SUBSET Kids :
        /\ keycloak' = [served |-> S, version |-> keycloak.version + 1,
             withdrawn |-> [k \in Kids |->
                IF k \in keycloak.served \ S THEN now ELSE keycloak.withdrawn[k]]]
        /\ req' = [u \in Threads |-> [req[u] EXCEPT !.kept =
                     @ /\ req[u].token # NoToken /\ req[u].token.kid \in S]]
  BY DEF Publish
<1> DEFINE kept == req[t].kept /\ req[t].token # NoToken /\ req[t].token.kid \in S
<1>2. req'[t] = [req[t] EXCEPT !.kept = kept] /\ keycloak'.served = S
  BY <1>1
<1>3. req[t] \in Request
  BY FieldTypes DEF KInv, IInv
<1> HIDE DEF kept
<1>4. LET r == [req[t] EXCEPT !.kept = kept]
      IN r.kept = kept /\ r.pc = req[t].pc /\ r.token = req[t].token /\ r.doc = req[t].doc
  BY <1>3, Zenon DEF Request
<1>5. req'[t].kept = kept /\ req'[t].pc = req[t].pc /\ req'[t].token = req[t].token
      /\ req'[t].doc = req[t].doc
  BY <1>2, <1>4
<1>6. kept => req[t].kept /\ req[t].token.kid \in S
  BY DEF kept
<1> QED BY <1>2, <1>5, <1>6 DEF KInv, KeptOK

\* At the start nothing is kept.
LEMMA KeptInit == Init => KInv
<1>1. ASSUME Init, NEW t \in Threads PROVE ~req[t].kept
  BY <1>1 DEF Init, Idle
<1> QED BY <1>1, AuthInit DEF KInv, KeptOK

\* Every step keeps KeptOK.
LEMMA KeptStepAll == KInv /\ [Next]_vars => KInv'
<1> SUFFICES ASSUME KInv, [Next]_vars PROVE \A u \in Threads : KeptOK(u)'
  BY AuthStep DEF KInv
<1>1. ASSUME NEW t \in Threads, Locks(t) PROVE \A u \in Threads : KeptOK(u)'
  <2>1. UNCHANGED keycloak /\ \E pc \in {"slow", "fetching", "verify", "mux"} : Goto(t, pc)
    BY <1>1 DEF Locks, FastPath, SlowPath
  <2> QED BY <2>1, KeptGoto
<1>2. ASSUME NEW t \in Threads, FetchFails(t) \/ Install(t) \/ Verify(t) \/ Mux(t)
      PROVE  \A u \in Threads : KeptOK(u)'
  <2>1. /\ UNCHANGED keycloak
        /\ \/ Goto(t, "verify") \/ Goto(t, "mux")
           \/ Answer(t, "unauthorized") \/ Answer(t, "no document")
           \/ Answer(t, "forbidden") \/ Answer(t, "served")
    BY <1>2 DEF FetchFails, Install, Verify, Mux
  <2> QED BY <2>1, KeptGoto, KeptAnswer
<1>3. CASE Tick \/ UNCHANGED vars
  BY <1>3 DEF Tick, vars, KInv, KeptOK
<1> QED BY <1>1, <1>2, <1>3, KeptArrive, KeptServe, KeptPublish DEF Next, Fetches

\* A key that Keycloak serves all the while is found: by the second look
\* under the write lock, or in the document fetched there (auth.go:64-86).
THEOREM GoodTokenAccepted == Spec => GoodTokenRefusedOnlyByFailure
<1>1. ASSUME KInv, [Next]_vars, NEW t \in Threads, Answered(t, "unauthorized"),
             req[t].kept, Valid(req[t].token)
      PROVE  FALSE
  <2>1. IInv /\ KeptOK(t)
    BY <1>1 DEF KInv
  <2>2. Own(t)
    BY <1>1, <2>1, OnlyOwnStepMoves DEF Answered
  <2>3. CASE Arrive(t)
    BY <1>1, <2>1, <2>3, AfterArrive DEF Answered
  <2>4. CASE Locks(t)
    BY <1>1, <2>1, <2>4, AfterGoto DEF Locks, FastPath, SlowPath, Answered
  <2>5. CASE Serve(t)
    BY <1>1, <2>1, <2>5, AfterServe DEF Answered
  <2>6. CASE FetchFails(t)
    BY <1>1, <2>1, <2>6, AfterAnswer DEF FetchFails, Answered
  <2>7. CASE Install(t)
    <3>1. req[t].token.kid \in req[t].doc.keys
      BY <1>1, <2>1, <2>7 DEF Install, KeptOK
    <3> QED BY <1>1, <2>1, <2>7, <3>1, AfterGoto DEF Install, Answered
  <2>8. CASE Verify(t)
    BY <1>1, <2>1, <2>8, AfterGoto DEF Verify, Answered
  <2>9. CASE Mux(t)
    BY <1>1, <2>1, <2>9, AfterAnswer DEF Mux, Answered
  <2> QED BY <2>2, <2>3, <2>4, <2>5, <2>6, <2>7, <2>8, <2>9 DEF Own, Fetches
<1>2. KInv /\ [Next]_vars =>
        [\A t \in Threads : LET r == req[t] IN
           Answered(t, "unauthorized") => ~(r.kept /\ r.token.wellFormed /\ Valid(r.token))]_vars
  BY <1>1
<1>3. Spec => []KInv
  BY KeptInit, KeptStepAll, PTL DEF Spec
<1> QED BY <1>2, <1>3, PTL DEF Spec, GoodTokenRefusedOnlyByFailure
=============================================================================
