---------------------------- MODULE UploadFraming ----------------------------
(***************************************************************************)
(* One PUT /v1/upload of the Go enclave: decryptChunkedUpload of           *)
(* internal/server/submit.go and the proxying of what it decrypts.         *)
(*                                                                         *)
(* A browser cuts a file into chunks and seals chunk i under the upload's  *)
(* AES key, with the nonce base_iv + i and the additional data             *)
(* "i:total:file_id".  The body that arrives may be cut, its frames lost,  *)
(* repeated, reordered or mixed with those of another upload, and its      *)
(* header may be another upload's or altered.  The handler reads one frame *)
(* after the other and forwards the plaintext once it has read them all.   *)
(*                                                                         *)
(* Every upload has an AES key of its own, so its key is the upload.       *)
(***************************************************************************)
EXTENDS Integers, Sequences

CONSTANTS FileIds,        \* file_id values
          NoFileId,       \* the empty file_id
          NonceLen,       \* bytes of a nonce: 12
          Byte,           \* values of a byte: 256
          MaxTotalChunks, \* maxTotalChunks
          Uploads,        \* what browsers have sealed
          NoHash          \* not an upload: the header has no plaintext_sha256

ASSUME SizesAssumption == /\ NonceLen \in Nat \ {0} /\ Byte \in Nat \ {0, 1}
                          /\ MaxTotalChunks \in Nat \ {0}

\* Big-endian: the last byte is the lowest.
Nonces == [1 .. NonceLen -> 0 .. Byte - 1]

ASSUME UploadsAssumption ==
  Uploads \subseteq [file : FileIds, base : Nonces, total : 1 .. MaxTotalChunks]
ASSUME NamesAssumption == Uploads # {} /\ NoFileId \notin FileIds /\ NoHash \notin Uploads

-----------------------------------------------------------------------------
(* The browser's side, which is not in this repository. *)

Value(n) == LET v[j \in 0 .. NonceLen] == IF j = 0 THEN 0 ELSE v[j - 1] * Byte + n[j]
            IN v[NonceLen]

\* 2^96: the number of nonces.
NonceCount == Value([j \in 1 .. NonceLen |-> Byte - 1]) + 1

\* "baseIV + i (96-bit big-endian increment of the 12-byte base IV)"
IV(base, i) == CHOOSE n \in Nonces : Value(n) = (Value(base) + i) % NonceCount

AAD(i, total, file) == <<i, total, file>>

Seal(u, i) == [key |-> u, nonce |-> IV(u.base, i), aad |-> AAD(i, u.total, u.file),
               data |-> <<u, i>>]

\* Every chunk any browser has sealed.
Frames == UNION {{Seal(u, i) : i \in 0 .. u.total - 1} : u \in Uploads}

Plain(u) == [j \in 1 .. u.total |-> <<u, j - 1>>]

HeaderOf(u) == [key |-> u, base |-> u.base, total |-> u.total, file |-> u.file, hash |-> NoHash]

\* ChunkedUploadHeader as it may arrive: key is what enc and wrapped_key
\* unwrap to, hash the upload whose plaintext hashes to plaintext_sha256.
Headers == [key : Uploads, base : {u.base : u \in Uploads}, total : 0 .. MaxTotalChunks + 1,
            file : FileIds \cup {NoFileId}, hash : Uploads \cup {NoHash}]

-----------------------------------------------------------------------------
VARIABLES pc,         \* "header", "chunks", "forward", "refused", "unavailable" or "done"
          hdr, i, nonce, assembled,  \* the locals of decryptChunkedUpload
          forwarded,  \* the bytes the buffer manager has received
          intact      \* history: the body is, so far, what one browser sent

vars == <<pc, hdr, i, nonce, assembled, forwarded, intact>>

\* The header's place before a header is read.
Blank == HeaderOf(CHOOSE u \in Uploads : TRUE)

Init ==
  /\ pc = "header"
  /\ hdr = Blank
  /\ i = 0 /\ nonce = hdr.base /\ assembled = <<>> /\ forwarded = <<>>
  /\ intact = TRUE

\* Variant: the limit itself is refused.
HeaderOKStrict(h) == 0 < h.total /\ h.total < MaxTotalChunks /\ h.file # NoFileId

HeaderOK(h) == 0 < h.total /\ h.total <= MaxTotalChunks /\ h.file # NoFileId

\* Variant: the increment stops at the last byte.
IncrementNoCarry(n) == [n EXCEPT ![NonceLen] = (@ + 1) % Byte]

\* The loop over nonce[11] .. nonce[0]: bytes that wrap to 0 carry into the
\* byte before, and the first that does not ends it.
Increment(n) ==
  [j \in 1 .. NonceLen |->
     IF \A k \in j + 1 .. NonceLen : n[k] = Byte - 1 THEN (n[j] + 1) % Byte ELSE n[j]]

\* Variant: the total is left out of the additional data.
OpensAnyTotal(frame) ==
  /\ frame.key = hdr.key /\ frame.nonce = nonce
  /\ frame.aad[1] = i /\ frame.aad[3] = hdr.file

\* gcm.Open: the tag verifies for this key, nonce and additional data only.
Opens(frame) ==
  frame.key = hdr.key /\ frame.nonce = nonce /\ frame.aad = AAD(i, hdr.total, hdr.file)

Refuse == pc' = "refused" /\ UNCHANGED <<hdr, i, nonce, assembled, forwarded>>

\* Frame 0 is read, parsed and checked, its key unwrapped.
ReadHeader ==
  /\ pc = "header"
  /\ \E h \in Headers :
       /\ hdr' = h /\ nonce' = h.base
       /\ intact' = (h = HeaderOf(h.key) \/ h = [HeaderOf(h.key) EXCEPT !.hash = h.key])
       /\ pc' = IF HeaderOK(h) THEN "chunks" ELSE "refused"
  /\ UNCHANGED <<i, assembled, forwarded>>

\* The body ends or stalls until the server's ReadTimeout; or frame 0 has no
\* browser key, a length out of range, fields that do not decode, or a key
\* that the enclave's present HPKE key does not unwrap.
BadRead ==
  /\ pc \in {"header", "chunks"}
  /\ pc = "chunks" => i < hdr.total
  /\ intact' = FALSE
  /\ Refuse

ReadChunk ==
  /\ pc = "chunks" /\ i < hdr.total
  /\ \E frame \in Frames :
       /\ intact' = (intact /\ frame = Seal(hdr.key, i))
       /\ IF Opens(frame)
          THEN /\ assembled' = Append(assembled, frame.data)
               /\ i' = i + 1
               /\ nonce' = Increment(nonce)
               /\ UNCHANGED <<pc, hdr, forwarded>>
          ELSE Refuse

\* The optional plaintext_sha256.
CheckHash ==
  /\ pc = "chunks" /\ i = hdr.total
  /\ pc' = IF hdr.hash = NoHash \/ assembled = Plain(hdr.hash) THEN "forward" ELSE "refused"
  /\ UNCHANGED <<hdr, i, nonce, assembled, forwarded, intact>>

\* The PUT to the buffer manager, whose answer may be lost: 502.
ProxyPlaintextUpload ==
  /\ pc = "forward"
  /\ \/ forwarded' = assembled /\ pc' \in {"done", "unavailable"}
     \/ UNCHANGED forwarded /\ pc' = "unavailable"
  /\ UNCHANGED <<hdr, i, nonce, assembled, intact>>

\* The browser sends the file again, or another one.
NextUpload ==
  /\ pc \in {"refused", "unavailable", "done"}
  /\ pc' = "header" /\ hdr' = Blank /\ i' = 0 /\ nonce' = hdr'.base
  /\ assembled' = <<>> /\ forwarded' = <<>> /\ intact' = TRUE

Next == ReadHeader \/ BadRead \/ ReadChunk \/ CheckHash \/ ProxyPlaintextUpload \/ NextUpload

Spec == Init /\ [][Next]_vars

-----------------------------------------------------------------------------
(* Properties *)

\* What reaches the buffer manager is one sealed file, whole and in order,
\* whatever frames arrived under whatever header: neither a prefix nor a
\* mixture of two uploads gets past the additional data (submit.go:279).
ForwardedIsWholeFile == forwarded # <<>> => \E u \in Uploads : forwarded = Plain(u)

\* A body that arrives as the browser sent it is not refused, however its
\* nonces carry or wrap and up to the largest number of chunks: the
\* increment (submit.go:288) keeps step with baseIV + i.
IntactUploadNotRefused == intact => pc # "refused"
=============================================================================
