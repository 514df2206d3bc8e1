--------------------------- MODULE Authentication ---------------------------
(***************************************************************************)
(* The Keycloak middleware of the Go enclave (internal/server/auth.go), in *)
(* front of the routes of server.go.  Requests run side by side and share  *)
(* one cache of signing keys under a read-write lock: the lookup first     *)
(* takes the read lock, releases it, and only then queues for the write    *)
(* lock, under which it fetches the document from Keycloak.  Meanwhile     *)
(* time passes, tokens expire, and Keycloak adds and withdraws keys.       *)
(*                                                                         *)
(* A key is its kid.  The read lock is not a variable, since a read is one *)
(* step that needs the write lock to be free.                              *)
(***************************************************************************)
EXTENDS Integers

CONSTANTS Threads,     \* goroutines serving requests
          NoThread,    \* not a thread: the write lock is free
          Kids,        \* the key ids Keycloak uses
          Tokens,      \* bearer tokens clients hold
          NoToken,     \* not a token: no Authorization header
          TTL,         \* jwksCacheTTL, in ticks
          ReplyDelay,  \* bound on the ticks a document travels
          MaxTime,     \* bound on the ticks
          MaxVersions  \* bound on the documents Keycloak publishes

ASSUME ThreadsAssumption == NoThread \notin Threads
ASSUME BoundsAssumption ==
  /\ TTL \in Nat \ {0}
  /\ ReplyDelay \in Nat
  /\ MaxTime \in Nat
  /\ MaxVersions \in Nat

Time == 0 .. MaxTime

(***************************************************************************)
(* wellFormed: three parts that decode and parse, RS256, a kid.  signer is *)
(* the key the signature verifies with: kid's own, unless it is forged.    *)
(***************************************************************************)
Token == [wellFormed : BOOLEAN, kid : Kids, signer : Kids \cup {"forger"},
          exp : Time, issuer : {"ours", "other"}, orgAdmin : BOOLEAN]
ASSUME TokensAssumption == Tokens \subseteq Token /\ NoToken \notin Tokens

VARIABLES now,
          keycloak,  \* [served, version, withdrawn]: the document it serves and, per kid, when it last left it
          cache,     \* globalJWKSCache: [keys, fetchedAt], and the version of the document it holds
          writer,    \* the holder of the write lock
          req,       \* per thread, the request it serves and the document it received
          authOn     \* JWKSUrl is configured

vars == <<now, keycloak, cache, writer, req, authOn>>

\* "open": OPTIONS on any path, and /healthz; "submit": every other guarded one.
Routes == {"open", "queue", "submit"}

Document == [keys : SUBSET Kids, version : 0 .. MaxVersions, at : Time]
NoDocument == [keys |-> {}, version |-> 0, at |-> 0]

\* kept is history: its kid stayed in Keycloak's document since the request
\* arrived.  Of the 401 answers, "no document" is the one for a failed fetch.
Request == [pc : {"idle", "lookup", "slow", "fetching", "received", "verify", "mux"},
            route : Routes, token : Tokens \cup {NoToken}, doc : Document,
            kept : BOOLEAN,
            answer : {"none", "unauthorized", "no document", "forbidden", "served"}]

TypeOK ==
  /\ now \in Time
  /\ keycloak \in [served : SUBSET Kids, version : 0 .. MaxVersions, withdrawn : [Kids -> Int]]
  /\ cache \in [keys : SUBSET Kids, fetchedAt : Int, version : 0 .. MaxVersions]
  /\ writer \in Threads \cup {NoThread}
  /\ req \in [Threads -> Request]
  /\ authOn \in BOOLEAN

Idle(answer) == [pc |-> "idle", route |-> "open", token |-> NoToken,
                 doc |-> NoDocument, kept |-> FALSE, answer |-> answer]

\* A cache that was never filled is a full TTL old, as the zero time is.
Init ==
  /\ now = 0
  /\ keycloak \in [served : SUBSET Kids, version : {0}, withdrawn : {[k \in Kids |-> -1]}]
  /\ cache = [keys |-> {}, fetchedAt |-> -TTL, version |-> 0]
  /\ writer = NoThread
  /\ req = [t \in Threads |-> Idle("none")]
  /\ authOn \in BOOLEAN

Becomes(t, r) == req' = [req EXCEPT ![t] = r]
Goto(t, pc) == Becomes(t, [req[t] EXCEPT !.pc = pc, !.doc = NoDocument])
Answer(t, a) == Becomes(t, Idle(a))

-----------------------------------------------------------------------------
(* The middleware. *)

\* The header alone decides for exempt routes, and for a request without a
\* bearer token or with one that validateKeycloakJWT cannot take apart.
Arrive(t) ==
  /\ req[t].pc = "idle"
  /\ \E route \in Routes, token \in Tokens \cup {NoToken} :
       LET open == ~authOn \/ route = "open"
           parses == token # NoToken /\ token.wellFormed
       IN Becomes(t,
            IF ~open /\ ~parses THEN Idle("unauthorized")
            ELSE [pc |-> IF open THEN "mux" ELSE "lookup", route |-> route, token |-> token,
                  doc |-> NoDocument, answer |-> "none",
                  kept |-> ~open /\ token.kid \in keycloak.served])
  /\ UNCHANGED <<now, keycloak, cache, writer, authOn>>

Fresh == now - cache.fetchedAt < TTL
\* Variant: the cached key is used whatever its age.
HitStale(t) == req[t].token.kid \in cache.keys

\* The cache answers for the kid of t's token.
Hit(t) == Fresh /\ req[t].token.kid \in cache.keys

\* getPublicKey under the read lock, which is released before the slow path.
FastPath(t) ==
  /\ req[t].pc = "lookup"
  /\ writer = NoThread
  /\ Goto(t, IF Hit(t) THEN "verify" ELSE "slow")
  /\ UNCHANGED <<now, keycloak, cache, writer, authOn>>

\* Variant: the write lock is taken only to install what was fetched.
SlowPathUnlocked(t) ==
  /\ req[t].pc = "slow"
  /\ writer = NoThread
  /\ Goto(t, IF Hit(t) THEN "verify" ELSE "fetching")
  /\ UNCHANGED <<now, keycloak, cache, writer, authOn>>

\* Variant: a kid that a fresh cache lacks is refused without a fetch.
SlowPathNoRefetch(t) ==
  /\ req[t].pc = "slow"
  /\ writer = NoThread
  /\ IF Hit(t) THEN Goto(t, "verify")
     ELSE IF Fresh THEN Answer(t, "unauthorized") ELSE Goto(t, "fetching")
  /\ writer' = IF Fresh THEN NoThread ELSE t
  /\ UNCHANGED <<now, keycloak, cache, authOn>>

\* The write lock is free: re-check, then fetch with the lock held.
SlowPath(t) ==
  /\ req[t].pc = "slow"
  /\ writer = NoThread
  /\ Goto(t, IF Hit(t) THEN "verify" ELSE "fetching")
  /\ writer' = IF Hit(t) THEN NoThread ELSE t
  /\ UNCHANGED <<now, keycloak, cache, authOn>>

\* Variant: an error returns with the lock held.
FetchFailsLocked(t) ==
  /\ req[t].pc \in {"fetching", "received"}
  /\ Answer(t, "no document")
  /\ UNCHANGED <<now, keycloak, cache, writer, authOn>>

\* fetchJWKS returns an error: no answer, a status but 200, a body that does
\* not parse.  The cache stays as it was.
FetchFails(t) ==
  /\ req[t].pc \in {"fetching", "received"}
  /\ Answer(t, "no document")
  /\ writer' = NoThread
  /\ UNCHANGED <<now, keycloak, cache, authOn>>

\* The document is installed as of the moment it is parsed; the kid is looked
\* up in it, whatever its age.
Install(t) ==
  /\ req[t].pc = "received"
  /\ LET doc == req[t].doc IN
       /\ cache' = [keys |-> doc.keys, fetchedAt |-> now, version |-> doc.version]
       /\ IF req[t].token.kid \in doc.keys THEN Goto(t, "verify") ELSE Answer(t, "unauthorized")
  /\ writer' = NoThread
  /\ UNCHANGED <<now, keycloak, authOn>>

\* Variant: the claims alone are checked.
ValidClaims(token) == now <= token.exp /\ token.issuer = "ours"

Valid(token) == token.signer = token.kid /\ now <= token.exp /\ token.issuer = "ours"

\* The rest of validateKeycloakJWT, with the key the lookup returned.
Verify(t) ==
  /\ req[t].pc = "verify"
  /\ IF Valid(req[t].token) THEN Goto(t, "mux") ELSE Answer(t, "unauthorized")
  /\ UNCHANGED <<now, keycloak, cache, writer, authOn>>

(***************************************************************************)
(* Behind it, the CORS handler and the mux: preflight and health check are *)
(* answered at once, the queue asks for the role in the token, and what is *)
(* left is answered by the buffer manager, or with 502 in its place.       *)
(***************************************************************************)
HasRole(token) == token # NoToken /\ token.wellFormed /\ token.orgAdmin

Mux(t) ==
  /\ req[t].pc = "mux"
  /\ CASE req[t].route = "open" -> Answer(t, "served")
       [] req[t].route = "queue" /\ ~HasRole(req[t].token) -> Answer(t, "forbidden")
       [] OTHER -> Answer(t, "served")
  /\ UNCHANGED <<now, keycloak, cache, writer, authOn>>

-----------------------------------------------------------------------------
(* Keycloak and the clock. *)

\* Keycloak answers with the document of this moment.  Of its keys fetchJWKS
\* keeps those that are RSA and well-formed: the ones Kids stands for.
Serve(t) ==
  /\ req[t].pc = "fetching"
  /\ Becomes(t, [req[t] EXCEPT !.pc = "received",
       !.doc = [keys |-> keycloak.served, version |-> keycloak.version, at |-> now]])
  /\ UNCHANGED <<now, keycloak, cache, writer, authOn>>

Publish ==
  /\ keycloak.version < MaxVersions
  /\ \E S \in SUBSET Kids :
       /\ keycloak' = [served |-> S, version |-> keycloak.version + 1,
            withdrawn |-> [k \in Kids |->
               IF k \in keycloak.served \ S THEN now ELSE keycloak.withdrawn[k]]]
       /\ req' = [t \in Threads |-> [req[t] EXCEPT !.kept =
                    @ /\ req[t].token # NoToken /\ req[t].token.kid \in S]]
  /\ UNCHANGED <<now, cache, writer, authOn>>

\* A document does not travel for more than ReplyDelay ticks.
Tick ==
  /\ now < MaxTime
  /\ \A t \in Threads : req[t].pc = "received" => now - req[t].doc.at < ReplyDelay
  /\ now' = now + 1
  /\ UNCHANGED <<keycloak, cache, writer, req, authOn>>

Locks(t) == FastPath(t) \/ SlowPath(t)
Fetches(t) == Serve(t) \/ FetchFails(t) \/ Install(t)

Next ==
  \/ \E t \in Threads : Arrive(t) \/ Locks(t) \/ Fetches(t) \/ Verify(t) \/ Mux(t)
  \/ Publish
  \/ Tick

(***************************************************************************)
(* A goroutine is scheduled, and a fetch ends one way or the other (the    *)
(* http.Get has no timeout: this is what the code relies on).  Whoever     *)
(* waits for the lock gets it past the others: SF, since the mutex         *)
(* under sync.RWMutex hands itself to a waiter it has starved.             *)
(***************************************************************************)
Fairness == \A t \in Threads : SF_vars(Locks(t)) /\ WF_vars(Fetches(t) \/ Verify(t) \/ Mux(t))

Spec == Init /\ [][Next]_vars /\ Fairness

-----------------------------------------------------------------------------
(* Properties *)

Answered(t, a) == req[t].pc # "idle" /\ req'[t].pc = "idle" /\ req'[t].answer = a

LastServed(k) == IF k \in keycloak.served THEN now ELSE keycloak.withdrawn[k]

\* A key that is taken from the cache or from a document was served by
\* Keycloak less than a TTL and a document's travel ago: jwksCacheTTL bounds
\* how long a withdrawn key is still accepted, though freshness counts from
\* the install (auth.go:79) and is tested under two locks in turn.
KeyRecentlyServed ==
  [][\A t \in Threads : req[t].pc # "verify" /\ req'[t].pc = "verify"
       => now - LastServed(req[t].token.kid) < TTL + ReplyDelay]_vars

\* A slow fetch never overwrites a newer document with an older one.
CacheNeverGoesBack == [][cache.version <= cache'.version]_vars

\* Whoever presents a good token, with a key that Keycloak serves all the
\* while, is refused only when the fetch made for it failed: a kid the cache
\* does not know, or no longer, is looked up anew ("On a kid miss it
\* re-fetches once (handles Keycloak key rotation)", auth.go:48).
GoodTokenRefusedOnlyByFailure ==
  [][\A t \in Threads : LET r == req[t] IN
       Answered(t, "unauthorized") => ~(r.kept /\ r.token.wellFormed /\ Valid(r.token))]_vars

\* With authentication on, no data is served without a token that Keycloak
\* signed for this issuer, and the queue only to an admin: requireRole reads
\* the payload without verifying it again (auth.go:204).
OnlyAuthorizedServed ==
  [][\A t \in Threads : LET r == req[t] IN
       authOn /\ Answered(t, "served") /\ r.route # "open"
         => /\ r.token # NoToken /\ r.token.signer = r.token.kid /\ r.token.issuer = "ours"
            /\ r.route = "queue" => r.token.orgAdmin]_vars

\* Every request is answered, failed fetches and all: no path keeps the lock.
EveryRequestAnswered == \A t \in Threads : req[t].pc # "idle" ~> req[t].pc = "idle"
=============================================================================
