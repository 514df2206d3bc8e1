------------------------ MODULE UploadFramingProofs ------------------------
(***************************************************************************)
(* What an upload forwards is one whole file, and an intact one is not     *)
(* refused, for every set of uploads, length of a nonce, size of a byte    *)
(* and limit of chunks.                                                    *)
(***************************************************************************)
EXTENDS UploadFraming, SequenceTheorems, WellFoundedInduction, TLAPS

\* The first n chunks of an upload.
Chunks(u, n) == [j \in 1 .. n |-> <<u, j - 1>>]

HdrOK == hdr \in Headers /\ i \in Nat

\* What is assembled are the first i chunks of the header's own upload; one
\* chunk is enough to tell that the header's total is that of the upload.
AssembledOK ==
  pc = "chunks" =>
    /\ 0 < hdr.total /\ i <= hdr.total
    /\ assembled = Chunks(hdr.key, i)
    /\ i > 0 => hdr.total = hdr.key.total

StartOK == pc = "header" => i = 0 /\ assembled = <<>>

WholeOK == pc = "forward" => assembled = Plain(hdr.key)

IInv == HdrOK /\ StartOK /\ AssembledOK /\ WholeOK /\ ForwardedIsWholeFile

-----------------------------------------------------------------------------
\* The blank header is a header.
LEMMA BlankIsHeader == Blank \in Headers
<1>1. (CHOOSE u \in Uploads : TRUE) \in Uploads
  BY NamesAssumption
<1>2. ASSUME NEW u \in Uploads PROVE HeaderOf(u) \in Headers
  BY UploadsAssumption, SizesAssumption DEF HeaderOf, Headers
<1> QED BY <1>1, <1>2 DEF Blank

\* Before the first chunk.
LEMMA NoChunks == ASSUME NEW u PROVE Chunks(u, 0) = <<>>
BY DEF Chunks

\* The chunks are a sequence of n.
LEMMA ChunksAreSeq ==
  ASSUME NEW u, NEW S, NEW n \in Nat, \A k \in Nat : <<u, k>> \in S
  PROVE  /\ Chunks(u, n) \in Seq(S) /\ Len(Chunks(u, n)) = n
         /\ \A j \in 1 .. n : Chunks(u, n)[j] = <<u, j - 1>>
<1>1. \A j \in 1 .. n : j - 1 \in Nat
  OBVIOUS
<1>2. Chunks(u, n) \in [1 .. n -> S]
  BY <1>1, Zenon DEF Chunks
<1>3. Chunks(u, n) \in Seq(S)
  BY <1>2
<1>4. /\ Len(Chunks(u, n)) \in Nat
      /\ DOMAIN Chunks(u, n) = 1 .. Len(Chunks(u, n))
  BY <1>3, LenProperties
<1>5. DOMAIN Chunks(u, n) = 1 .. n
  BY <1>2, Zenon
<1>6. ASSUME NEW m \in Nat, 1 .. m = 1 .. n PROVE m = n
  <2>1. m \in 1 .. n \/ m = 0
    BY <1>6
  <2>2. n \in 1 .. m \/ n = 0
    BY <1>6
  <2> QED BY <2>1, <2>2
<1>7. \A j \in 1 .. n : Chunks(u, n)[j] = <<u, j - 1>>
  BY Zenon DEF Chunks
<1> QED BY <1>3, <1>4, <1>5, <1>6, <1>7

\* One more chunk.
LEMMA OneMore == ASSUME NEW u, NEW n \in Nat
                 PROVE  Append(Chunks(u, n), <<u, n>>) = Chunks(u, n + 1)
<1>0. n + 1 \in Nat
  OBVIOUS
<1> DEFINE S == {<<u, k>> : k \in Nat}
           longer == Append(Chunks(u, n), <<u, n>>)
<1>1. \A k \in Nat : <<u, k>> \in S
  OBVIOUS
<1> HIDE DEF S
<1>2. /\ Chunks(u, n) \in Seq(S) /\ Len(Chunks(u, n)) = n
      /\ \A j \in 1 .. n : Chunks(u, n)[j] = <<u, j - 1>>
  BY <1>1, ChunksAreSeq
<1>3. /\ Chunks(u, n + 1) \in Seq(S) /\ Len(Chunks(u, n + 1)) = n + 1
      /\ \A j \in 1 .. n + 1 : Chunks(u, n + 1)[j] = <<u, j - 1>>
  BY <1>0, <1>1, ChunksAreSeq
<1>4. /\ longer \in Seq(S) /\ Len(longer) = n + 1
      /\ \A j \in 1 .. n : longer[j] = Chunks(u, n)[j]
      /\ longer[n + 1] = <<u, n>>
  BY <1>1, <1>2, AppendProperties
<1>5. ASSUME NEW j \in 1 .. n + 1 PROVE longer[j] = Chunks(u, n + 1)[j]
  <2>1. CASE j \in 1 .. n
    BY <2>1, <1>2, <1>3, <1>4
  <2>2. CASE j = n + 1
    <3>1. j - 1 = n
      BY <2>2
    <3> QED BY <2>2, <3>1, <1>3, <1>4
  <2>3. j \in 1 .. n \/ j = n + 1
    OBVIOUS
  <2> QED BY <2>1, <2>2, <2>3
<1> HIDE DEF longer
<1>6. longer = Chunks(u, n + 1)
  BY <1>3, <1>4, <1>5, SeqEqual
<1> QED BY <1>6 DEF longer

\* A frame that opens is chunk i of the header's upload, under its total.
LEMMA OpensOwnChunk ==
  ASSUME HdrOK, NEW frame \in Frames, Opens(frame)
  PROVE  frame.data = <<hdr.key, i>> /\ hdr.total = hdr.key.total /\ i < hdr.total
<1>1. PICK u \in Uploads : \E k \in 0 .. u.total - 1 : frame = Seal(u, k)
  BY DEF Frames
<1>2. PICK k \in 0 .. u.total - 1 : frame = Seal(u, k)
  BY <1>1
<1>3. u = hdr.key /\ k = i /\ u.total = hdr.total
  BY <1>2 DEF Opens, Seal, AAD
<1>4. frame.data = <<u, k>> /\ k < u.total
  BY <1>2, UploadsAssumption DEF Seal
<1> QED BY <1>3, <1>4

-----------------------------------------------------------------------------
(* The handler's increment of a nonce is the addition of 1 to the number it *)
(* stands for.  The induction over the bytes goes by the least number of a  *)
(* set, which is WFMin of the library.                                      *)

\* A set on which a relation is well-founded has minimal elements (WFMin).
LEMMA MinimalExists ==
  ASSUME NEW R, NEW S, IsWellFoundedOn(R, S), NEW T, T \subseteq S, T # {}
  PROVE  \E x \in T : \A y \in T : ~ (<<y, x>> \in R)
BY WFMin, Zenon

\* A set of naturals that is not empty has a least element.
LEMMA LeastExists ==
  ASSUME NEW T, T \subseteq Nat, T # {}
  PROVE  \E x \in T : \A y \in T : x <= y
<1> DEFINE R == {p \in Nat \X Nat : p[1] < p[2]}
<1>1. IsWellFoundedOn(R, Nat)
  BY NatLessThanWellFounded DEF OpToRel
<1>2. \A x, y \in Nat : <<y, x>> \in R <=> y < x
  OBVIOUS
<1> HIDE DEF R
<1>3. PICK x \in T : \A y \in T : ~ (<<y, x>> \in R)
  BY <1>1, MinimalExists, Zenon
<1>4. ASSUME NEW y \in T PROVE x <= y
  <2>1. x \in Nat /\ y \in Nat /\ ~ (<<y, x>> \in R)
    BY <1>3, Zenon
  <2>2. ~ (y < x)
    BY <1>2, <2>1, Zenon
  <2> QED BY <2>1, <2>2
<1> QED BY <1>4, Zenon

\* Induction up to m, for a property given as the set of the numbers that have it.
LEMMA UpTo ==
  ASSUME NEW m \in Nat, NEW T, 0 \in T,
         \A k \in 1 .. m : k - 1 \in T => k \in T
  PROVE  \A k \in 0 .. m : k \in T
<1> SUFFICES ASSUME {k \in 0 .. m : k \notin T} # {} PROVE FALSE
  OBVIOUS
<1> DEFINE Missing == {k \in 0 .. m : k \notin T}
<1>1. Missing \subseteq Nat /\ Missing # {}
  OBVIOUS
<1>2. \A k \in Missing : k \in 1 .. m /\ k \notin T
  OBVIOUS
<1>3. \A k \in 0 .. m : k \notin T => k \in Missing
  OBVIOUS
<1> HIDE DEF Missing
<1>4. PICK x \in Missing : \A y \in Missing : x <= y
  BY <1>1, LeastExists
<1>5. x \in 1 .. m /\ x \notin T
  BY <1>2
<1>6. x - 1 \in 0 .. m /\ x - 1 \notin T
  BY <1>5
<1>7. x - 1 \in Missing
  BY <1>3, <1>6
<1> QED BY <1>4, <1>5, <1>7

\* v[k] is the number that the first k bytes of n stand for.
Prefixes(n, v) ==
  /\ v \in [0 .. NonceLen -> Nat] /\ v[0] = 0
  /\ \A j \in 1 .. NonceLen : v[j] = v[j - 1] * Byte + n[j]

\* A byte has at least two values and a nonce at least one byte.
LEMMA ByteIsNat == Byte \in Nat /\ Byte > 1 /\ NonceLen \in Nat /\ NonceLen > 0
BY SizesAssumption

\* Every byte of a nonce is a digit.
LEMMA Bytes == ASSUME NEW n \in Nonces, NEW j \in 1 .. NonceLen
               PROVE  n[j] \in Nat /\ n[j] < Byte
BY ByteIsNat DEF Nonces

\* One more digit gives a natural number.
LEMMA HornerIsNat == ASSUME NEW a \in Nat, NEW d \in Nat PROVE a * Byte + d \in Nat
BY ByteIsNat

\* What Value computes byte by byte.
LEMMA ValueIs ==
  ASSUME NEW n \in Nonces
  PROVE  \E v : Prefixes(n, v) /\ Value(n) = v[NonceLen]
<1> DEFINE Upto(k, f) == /\ f \in [0 .. k -> Nat] /\ f[0] = 0
                         /\ \A j \in 1 .. k : f[j] = f[j - 1] * Byte + n[j]
           T == {k \in 0 .. NonceLen : \E f : Upto(k, f)}
<1>1. NonceLen \in Nat
  BY ByteIsNat
<1>2. 0 \in T
  <2>1. Upto(0, [j \in 0 .. 0 |-> 0])
    OBVIOUS
  <2>2. 0 \in 0 .. NonceLen
    BY <1>1
  <2> QED BY <2>1, <2>2, Zenon
<1>3. ASSUME NEW k \in 1 .. NonceLen, k - 1 \in T PROVE k \in T
  <2>1. PICK f : Upto(k - 1, f)
    BY <1>3
  <2> DEFINE last == f[k - 1] * Byte + n[k]
             g == [j \in 0 .. k |-> IF j = k THEN last ELSE f[j]]
  <2>2. /\ k \in Nat /\ k > 0 /\ k - 1 \in 0 .. k - 1 /\ 0 \in 0 .. k - 1
        /\ \A j \in 1 .. k : j - 1 \in 0 .. k - 1 /\ j \in 0 .. k /\ j - 1 \in 0 .. k /\ j - 1 # k
        /\ \A j \in 1 .. k : j # k => j \in 1 .. k - 1
        /\ \A j \in 0 .. k : j # k => j \in 0 .. k - 1
    BY <1>1
  <2>3. last \in Nat
    <3>1. f[k - 1] \in Nat /\ n[k] \in Nat
      BY <2>1, <2>2, Bytes
    <3> QED BY <3>1, HornerIsNat
  <2>4. g[k] = last
    BY <2>2
  <2> HIDE DEF last
  <2>5. \A j \in 0 .. k : g[j] = IF j = k THEN last ELSE f[j]
    OBVIOUS
  <2>6. g \in [0 .. k -> Nat]
    BY <2>1, <2>2, <2>3
  <2> HIDE DEF g
  <2>7. g[0] = 0
    BY <2>1, <2>2, <2>5
  <2>8. ASSUME NEW j \in 1 .. k PROVE g[j] = g[j - 1] * Byte + n[j]
    <3>1. g[j - 1] = f[j - 1]
      BY <2>2, <2>5
    <3>2. CASE j = k
      BY <2>4, <3>1, <3>2 DEF last
    <3>3. CASE j # k
      <4>1. g[j] = f[j] /\ j \in 1 .. k - 1
        BY <2>2, <2>5, <3>3
      <4>2. f[j] = f[j - 1] * Byte + n[j]
        BY <2>1, <4>1
      <4> QED BY <3>1, <4>1, <4>2
    <3> QED BY <3>2, <3>3
  <2>9. Upto(k, g)
    BY <2>6, <2>7, <2>8
  <2>10. k \in 0 .. NonceLen
    BY <1>1
  <2> QED BY <2>9, <2>10
<1> HIDE DEF T
<1>4. NonceLen \in T
  <2>1. \A k \in 0 .. NonceLen : k \in T
    BY <1>1, <1>2, <1>3, UpTo
  <2> QED BY <1>1, <2>1
<1>5. PICK f : Upto(NonceLen, f)
  BY <1>4 DEF T
<1> DEFINE Body(v) == [j \in 0 .. NonceLen |-> IF j = 0 THEN 0 ELSE v[j - 1] * Byte + n[j]]
           w == CHOOSE v : v = Body(v)
<1>6. f = Body(f)
  <2>1. \A j \in 0 .. NonceLen : j # 0 => j \in 1 .. NonceLen
    BY <1>1
  <2>2. f = [j \in 0 .. NonceLen |-> f[j]]
    BY <1>5
  <2>3. \A j \in 0 .. NonceLen : f[j] = IF j = 0 THEN 0 ELSE f[j - 1] * Byte + n[j]
    BY <1>5, <2>1
  <2> QED BY <2>2, <2>3
<1>7. w = Body(w)
  BY <1>6, Zenon
<1>8. Value(n) = w[NonceLen]
  BY Zenon DEF Value
<1> HIDE DEF w
<1>9. /\ \A j \in 1 .. NonceLen : w[j] = w[j - 1] * Byte + n[j]
      /\ w[0] = 0
  <2>1. \A j \in 1 .. NonceLen : j \in 0 .. NonceLen /\ j # 0
    BY <1>1
  <2>2. 0 \in 0 .. NonceLen
    BY <1>1
  <2>3. \A j \in 0 .. NonceLen : w[j] = IF j = 0 THEN 0 ELSE w[j - 1] * Byte + n[j]
    BY <1>7, Zenon
  <2> QED BY <2>1, <2>2, <2>3
<1>10. \A k \in 0 .. NonceLen : w[k] \in Nat
  <2> DEFINE N == {k \in 0 .. NonceLen : w[k] \in Nat}
  <2>1. 0 \in N
    BY <1>1, <1>9
  <2>2. ASSUME NEW k \in 1 .. NonceLen, k - 1 \in N PROVE k \in N
    <3>1. w[k - 1] \in Nat /\ n[k] \in Nat /\ k \in 0 .. NonceLen
      BY <1>1, <2>2, Bytes
    <3> QED BY <1>9, <3>1, HornerIsNat
  <2>3. \A k \in 0 .. NonceLen : k \in N
    <3> HIDE DEF N
    <3> QED BY <1>1, <2>1, <2>2, UpTo
  <2> QED BY <2>3
<1>11. w \in [0 .. NonceLen -> Nat]
  <2>1. w = [j \in 0 .. NonceLen |-> w[j]]
    BY <1>7
  <2> QED BY <1>10, <2>1
<1> QED BY <1>8, <1>9, <1>11 DEF Prefixes

\* Two numbers of equal value have the same last digit and the same rest.
LEMMA SameDigits ==
  ASSUME NEW a \in Nat, NEW b \in Nat, NEW d \in Nat, NEW e \in Nat,
         d < Byte, e < Byte, a * Byte + d = b * Byte + e
  PROVE  a = b /\ d = e
<1> DEFINE B == Byte
<1>1. B \in Nat /\ d < B /\ e < B /\ a * B + d = b * B + e
  BY ByteIsNat
<1> HIDE DEF B
<1> QED BY <1>1

\* A nonce is determined by its number.
LEMMA ValueInjective ==
  ASSUME NEW n \in Nonces, NEW m \in Nonces, Value(n) = Value(m)
  PROVE  n = m
<1>1. PICK v : Prefixes(n, v) /\ Value(n) = v[NonceLen]
  BY ValueIs, Zenon
<1>2. PICK w : Prefixes(m, w) /\ Value(m) = w[NonceLen]
  BY ValueIs, Zenon
<1>3. NonceLen \in Nat
  BY ByteIsNat
\* From the last byte to the first: the prefixes before byte NonceLen - k.
<1> DEFINE T == {k \in 0 .. NonceLen : v[NonceLen - k] = w[NonceLen - k]}
<1>4. 0 \in T
  <2>1. NonceLen - 0 = NonceLen /\ 0 \in 0 .. NonceLen
    BY <1>3
  <2>2. v[NonceLen] = w[NonceLen]
    BY <1>1, <1>2, Zenon
  <2> QED BY <2>1, <2>2
<1>5. ASSUME NEW j \in 1 .. NonceLen, v[j] = w[j] PROVE v[j - 1] = w[j - 1] /\ n[j] = m[j]
  <2>1. j - 1 \in 0 .. NonceLen
    BY <1>3
  <2>2. /\ v[j - 1] \in Nat /\ w[j - 1] \in Nat
        /\ v[j] = v[j - 1] * Byte + n[j] /\ w[j] = w[j - 1] * Byte + m[j]
    BY <1>1, <1>2, <2>1 DEF Prefixes
  <2>3. n[j] \in Nat /\ n[j] < Byte /\ m[j] \in Nat /\ m[j] < Byte
    BY Bytes
  <2>4. v[j - 1] * Byte + n[j] = w[j - 1] * Byte + m[j]
    BY <1>5, <2>2, Zenon
  <2> QED BY <2>2, <2>3, <2>4, SameDigits
<1>6. ASSUME NEW k \in 1 .. NonceLen, k - 1 \in T PROVE k \in T
  <2>1. NonceLen - (k - 1) \in 1 .. NonceLen /\ (NonceLen - (k - 1)) - 1 = NonceLen - k
    BY <1>3
  <2>2. v[NonceLen - (k - 1)] = w[NonceLen - (k - 1)]
    BY <1>6
  <2>3. v[(NonceLen - (k - 1)) - 1] = w[(NonceLen - (k - 1)) - 1]
    BY <1>5, <2>1, <2>2, Zenon
  <2>4. v[NonceLen - k] = w[NonceLen - k]
    BY <2>1, <2>3, Zenon
  <2>5. k \in 0 .. NonceLen
    BY <1>3
  <2> QED BY <2>4, <2>5
<1>7. \A k \in 0 .. NonceLen : k \in T
  <2> HIDE DEF T
  <2> QED BY <1>3, <1>4, <1>6, UpTo
<1>8. ASSUME NEW j \in 1 .. NonceLen PROVE n[j] = m[j]
  <2>1. NonceLen - j \in 0 .. NonceLen /\ NonceLen - (NonceLen - j) = j
    BY <1>3
  <2>2. v[j] = w[j]
    BY <1>7, <2>1
  <2> QED BY <1>5, <2>2
<1>9. n = [j \in 1 .. NonceLen |-> n[j]] /\ m = [j \in 1 .. NonceLen |-> m[j]]
  BY DEF Nonces
<1> QED BY <1>8, <1>9, Zenon

\* The nonce that the count of nonces is taken from.
Highest == [j \in 1 .. NonceLen |-> Byte - 1]

\* It is one.
LEMMA HighestIsNonce == Highest \in Nonces
BY ByteIsNat DEF Highest, Nonces

\* Multiplication by the base is monotone.
LEMMA Multiplies == ASSUME NEW a \in Nat, NEW b \in Nat, a <= b PROVE a * Byte <= b * Byte
<1> DEFINE B == Byte
<1>1. B \in Nat
  BY ByteIsNat
<1> HIDE DEF B
<1>2. a * B <= b * B
  BY <1>1
<1> QED BY <1>2 DEF B

\* No nonce has a number beyond that of the highest.
LEMMA ValueBound ==
  ASSUME NEW n \in Nonces
  PROVE  Value(n) \in Nat /\ Value(n) < NonceCount /\ NonceCount \in Nat
<1>1. PICK v : Prefixes(n, v) /\ Value(n) = v[NonceLen]
  BY ValueIs, Zenon
<1>2. PICK w : Prefixes(Highest, w) /\ Value(Highest) = w[NonceLen]
  BY ValueIs, HighestIsNonce, Zenon
<1>3. NonceLen \in Nat /\ NonceLen \in 0 .. NonceLen
  BY ByteIsNat
<1> DEFINE T == {k \in 0 .. NonceLen : v[k] <= w[k]}
<1>4. 0 \in T
  BY <1>1, <1>2, <1>3 DEF Prefixes
<1>5. ASSUME NEW k \in 1 .. NonceLen, k - 1 \in T PROVE k \in T
  <2>1. k - 1 \in 0 .. NonceLen /\ k \in 0 .. NonceLen
    BY <1>3
  <2>2. /\ v[k - 1] \in Nat /\ w[k - 1] \in Nat
        /\ v[k] = v[k - 1] * Byte + n[k] /\ w[k] = w[k - 1] * Byte + Highest[k]
    BY <1>1, <1>2, <2>1 DEF Prefixes
  <2>3. n[k] \in Nat /\ n[k] <= Highest[k] /\ Highest[k] \in Nat
    BY Bytes, ByteIsNat DEF Highest
  <2>4. v[k - 1] * Byte <= w[k - 1] * Byte
    BY <1>5, <2>2, Multiplies
  <2>5. v[k - 1] * Byte \in Nat /\ w[k - 1] * Byte \in Nat
    BY <2>2, ByteIsNat
  <2> DEFINE a == v[k - 1] * Byte
             b == w[k - 1] * Byte
  <2>6. a \in Nat /\ b \in Nat /\ a <= b /\ v[k] = a + n[k] /\ w[k] = b + Highest[k]
    BY <2>2, <2>4, <2>5
  <2> HIDE DEF a, b
  <2>7. v[k] <= w[k]
    BY <2>3, <2>6
  <2> QED BY <2>1, <2>7
<1>6. \A k \in 0 .. NonceLen : k \in T
  <2> HIDE DEF T
  <2> QED BY <1>3, <1>4, <1>5, UpTo
<1>7. v[NonceLen] <= w[NonceLen] /\ v[NonceLen] \in Nat /\ w[NonceLen] \in Nat
  BY <1>1, <1>2, <1>3, <1>6 DEF Prefixes
<1>8. NonceCount = w[NonceLen] + 1
  BY <1>2, Zenon DEF NonceCount, Highest
<1> QED BY <1>1, <1>7, <1>8

\* The carry loop yields a nonce, the next one or, after the highest, zero.
LEMMA IncrementIsNonce == ASSUME NEW n \in Nonces PROVE Increment(n) \in Nonces
<1> SUFFICES ASSUME NEW j \in 1 .. NonceLen,
                    NEW d, d = (n[j] + 1) % Byte \/ d = n[j]
             PROVE  d \in 0 .. Byte - 1
  BY DEF Increment, Nonces
<1> QED BY Bytes, ByteIsNat

\* The carry loop adds 1 to the number, or turns the highest into 0.
LEMMA IncrementAddsOne ==
  ASSUME NEW n \in Nonces
  PROVE  Value(Increment(n)) = IF Value(n) + 1 = NonceCount THEN 0 ELSE Value(n) + 1
<1> DEFINE m == Increment(n)
<1>0. m \in Nonces
  BY IncrementIsNonce
<1>1. PICK v : Prefixes(n, v) /\ Value(n) = v[NonceLen]
  BY ValueIs, Zenon
<1>2. PICK w : Prefixes(m, w) /\ Value(m) = w[NonceLen]
  BY <1>0, ValueIs, Zenon
<1>3. PICK h : Prefixes(Highest, h) /\ Value(Highest) = h[NonceLen]
  BY HighestIsNonce, ValueIs, Zenon
<1>4. NonceLen \in Nat /\ NonceLen \in 0 .. NonceLen
  BY ByteIsNat
\* A carry comes out of the bytes after k.
<1> DEFINE C(k) == \A j \in k + 1 .. NonceLen : n[j] = Byte - 1
           Next1(k) == w[k] = v[k] + 1 \/ (w[k] = 0 /\ v[k] = h[k])
           T == {k \in 0 .. NonceLen : IF C(k) THEN Next1(k) ELSE w[k] = v[k]}
<1>5. \A j \in 1 .. NonceLen : m[j] = IF C(j) THEN (n[j] + 1) % Byte ELSE n[j]
  BY DEF Increment
<1> HIDE DEF m
<1>6. 0 \in T
  BY <1>1, <1>2, <1>3, <1>4 DEF Prefixes
<1>7. ASSUME NEW k \in 1 .. NonceLen, k - 1 \in T PROVE k \in T
  <2>1. k - 1 \in 0 .. NonceLen /\ k \in 0 .. NonceLen /\ (k - 1) + 1 = k
    BY <1>4
  <2>2. /\ v[k - 1] \in Nat /\ w[k - 1] \in Nat /\ h[k - 1] \in Nat
        /\ v[k] = v[k - 1] * Byte + n[k]
        /\ w[k] = w[k - 1] * Byte + m[k]
        /\ h[k] = h[k - 1] * Byte + Highest[k]
    BY <1>1, <1>2, <1>3, <2>1 DEF Prefixes
  <2>3. n[k] \in Nat /\ n[k] < Byte /\ Highest[k] = Byte - 1 /\ Byte \in Nat
    BY Bytes, ByteIsNat DEF Highest
  <2>4. C(k - 1) <=> C(k) /\ n[k] = Byte - 1
    <3>1. \A j : j \in (k - 1) + 1 .. NonceLen <=> j = k \/ j \in k + 1 .. NonceLen
      BY <1>4
    <3> QED BY <3>1
  <2>5. m[k] = IF C(k) THEN (n[k] + 1) % Byte ELSE n[k]
    BY <1>5
  <2>6. IF C(k - 1) THEN Next1(k - 1) ELSE w[k - 1] = v[k - 1]
    BY <1>7
  <2> HIDE DEF C
  <2>7. CASE ~ C(k)
    BY <2>1, <2>2, <2>4, <2>5, <2>6, <2>7
  <2>8. CASE C(k) /\ n[k] # Byte - 1
    <3>1. m[k] = n[k] + 1
      BY <2>3, <2>5, <2>8
    <3>2. w[k - 1] = v[k - 1]
      BY <2>4, <2>6, <2>8
    <3>3. v[k - 1] * Byte \in Nat
      BY <2>2, <2>3
    <3> DEFINE a == v[k - 1] * Byte
    <3>4. a \in Nat /\ v[k] = a + n[k] /\ w[k] = a + (n[k] + 1)
      BY <2>2, <3>1, <3>2, <3>3
    <3> HIDE DEF a
    <3>5. w[k] = v[k] + 1
      BY <2>3, <3>4
    <3> QED BY <2>1, <2>8, <3>5
  <2>9. CASE C(k) /\ n[k] = Byte - 1
    <3>1. m[k] = 0
      BY <2>3, <2>5, <2>9
    <3>2. Next1(k - 1)
      BY <2>4, <2>6, <2>9
    <3>3. CASE w[k - 1] = v[k - 1] + 1
      <4> DEFINE a == v[k - 1]
                 B == Byte
      <4>1. a \in Nat /\ B \in Nat /\ v[k] = a * B + (B - 1) /\ w[k] = (a + 1) * B + 0
        BY <2>2, <2>3, <2>9, <3>1, <3>3
      <4> HIDE DEF a, B
      <4>2. w[k] = v[k] + 1
        BY <4>1
      <4> QED BY <2>1, <2>9, <4>2
    <3>4. CASE w[k - 1] = 0 /\ v[k - 1] = h[k - 1]
      <4>1. w[k] = 0 * Byte + 0 /\ v[k] = h[k]
        BY <2>2, <2>3, <2>9, <3>1, <3>4
      <4>2. w[k] = 0
        BY <2>3, <4>1
      <4> QED BY <2>1, <2>9, <4>1, <4>2
    <3> QED BY <3>2, <3>3, <3>4
  <2> QED BY <2>7, <2>8, <2>9
<1>8. NonceLen \in T
  <2>1. \A k \in 0 .. NonceLen : k \in T
    <3> HIDE DEF T
    <3> QED BY <1>4, <1>6, <1>7, UpTo
  <2> QED BY <1>4, <2>1
<1>9. C(NonceLen)
  BY <1>4
<1>10. w[NonceLen] = v[NonceLen] + 1 \/ (w[NonceLen] = 0 /\ v[NonceLen] = h[NonceLen])
  BY <1>8, <1>9
<1>11. NonceCount = h[NonceLen] + 1
  BY <1>3, Zenon DEF NonceCount, Highest
<1>12. /\ v[NonceLen] \in Nat /\ h[NonceLen] \in Nat
       /\ w[NonceLen] \in Nat /\ w[NonceLen] <= h[NonceLen]
  <2>1. Value(m) < NonceCount /\ Value(m) \in Nat
    BY <1>0, ValueBound
  <2>2. v[NonceLen] \in Nat /\ h[NonceLen] \in Nat
    BY <1>1, <1>3, <1>4 DEF Prefixes
  <2> QED BY <1>2, <1>11, <2>1, <2>2
<1>13. Value(m) = IF Value(n) + 1 = NonceCount THEN 0 ELSE Value(n) + 1
  BY <1>1, <1>2, <1>10, <1>11, <1>12
<1> QED BY <1>13 DEF m

\* Counting modulo M.
LEMMA Division == ASSUME NEW x \in Nat, NEW M \in Nat, M > 0
                  PROVE  \E q \in Nat : x = q * M + (x % M)
<1> DEFINE q == x \div M
           r == x % M
<1>1. q \in Nat
  OBVIOUS
<1>2. x = q * M + r
  OBVIOUS
<1> QED BY <1>1, <1>2, Zenon

\* A remainder below M is the one of the division by M.
LEMMA Remainder == ASSUME NEW q \in Nat, NEW r \in Nat, NEW M \in Nat, r < M
                   PROVE  (q * M + r) % M = r
OBVIOUS

\* The remainder of the next number.
LEMMA NextRemainder ==
  ASSUME NEW x \in Nat, NEW M \in Nat, M > 0
  PROVE  (x + 1) % M = IF (x % M) + 1 = M THEN 0 ELSE (x % M) + 1
<1>1. PICK q \in Nat : x = q * M + (x % M)
  BY Division
<1> DEFINE r == x % M
<1>2. r \in Nat /\ r < M
  OBVIOUS
<1>3. x = q * M + r
  BY <1>1
<1> HIDE DEF r
<1>4. CASE r + 1 = M
  <2>1. q + 1 \in Nat /\ 0 \in Nat /\ x + 1 = (q + 1) * M + 0
    BY <1>2, <1>3, <1>4
  <2>2. ((q + 1) * M + 0) % M = 0
    BY <2>1, Remainder
  <2> QED BY <1>4, <2>1, <2>2 DEF r
<1>5. CASE r + 1 # M
  <2>1. r + 1 \in Nat /\ r + 1 < M /\ x + 1 = q * M + (r + 1)
    BY <1>2, <1>3, <1>5
  <2>2. (q * M + (r + 1)) % M = r + 1
    BY <2>1, Remainder
  <2> QED BY <1>5, <2>1, <2>2 DEF r
<1> QED BY <1>4, <1>5

\* n is the nonce of chunk k of an upload with this base.
IsIV(n, base, k) == n \in Nonces /\ Value(n) = (Value(base) + k) % NonceCount

\* The nonce of chunk k is the only one with its number.
LEMMA IVIs == ASSUME NEW base \in Nonces, NEW k \in Nat, NEW n, IsIV(n, base, k)
              PROVE  IV(base, k) = n
<1>1. \E m \in Nonces : Value(m) = (Value(base) + k) % NonceCount
  BY DEF IsIV
<1>2. IV(base, k) \in Nonces /\ Value(IV(base, k)) = (Value(base) + k) % NonceCount
  BY <1>1, Zenon DEF IV
<1>3. n \in Nonces /\ Value(IV(base, k)) = Value(n)
  BY <1>2, Zenon DEF IsIV
<1> QED BY <1>2, <1>3, ValueInjective

\* The handler's nonce keeps step: the base first ...
LEMMA FirstIV == ASSUME NEW base \in Nonces PROVE IsIV(base, base, 0)
<1> DEFINE x == Value(base)
<1>1. x \in Nat /\ NonceCount \in Nat /\ x < NonceCount
  BY ValueBound
<1> HIDE DEF x
<1>2. (x + 0) % NonceCount = x
  BY <1>1
<1> QED BY <1>2 DEF IsIV, x

\* ... and from each chunk's nonce the carry loop makes the next chunk's.
LEMMA NextIV ==
  ASSUME NEW base \in Nonces, NEW k \in Nat, NEW n, IsIV(n, base, k)
  PROVE  IsIV(Increment(n), base, k + 1)
<1>1. n \in Nonces /\ Increment(n) \in Nonces
  BY IncrementIsNonce DEF IsIV
<1>2. Value(Increment(n)) = IF Value(n) + 1 = NonceCount THEN 0 ELSE Value(n) + 1
  BY <1>1, IncrementAddsOne
<1> DEFINE x == Value(base) + k
<1>3. x \in Nat /\ NonceCount \in Nat /\ NonceCount > 0 /\ Value(base) + (k + 1) = x + 1
  BY ValueBound
<1>4. Value(n) = x % NonceCount
  BY DEF IsIV
<1> HIDE DEF x
<1>5. (x + 1) % NonceCount
        = IF (x % NonceCount) + 1 = NonceCount THEN 0 ELSE (x % NonceCount) + 1
  BY <1>3, NextRemainder
<1> QED BY <1>1, <1>2, <1>3, <1>4, <1>5 DEF IsIV

-----------------------------------------------------------------------------
\* What is assembled are the first chunks of the header's own upload.
THEOREM UploadInv == Spec => []IInv
<1>1. Init => IInv
  BY BlankIsHeader DEF Init, IInv, HdrOK, StartOK, AssembledOK, WholeOK, ForwardedIsWholeFile
<1>2. IInv /\ [Next]_vars => IInv'
  <2> SUFFICES ASSUME IInv, [Next]_vars PROVE IInv'
    OBVIOUS
  <2> USE DEF IInv, HdrOK, StartOK, AssembledOK, WholeOK
  <2>1. CASE ReadHeader
    <3>1. PICK h \in Headers :
            /\ hdr' = h /\ i' = i /\ assembled' = assembled /\ forwarded' = forwarded
            /\ pc = "header" /\ pc' = IF HeaderOK(h) THEN "chunks" ELSE "refused"
      BY <2>1 DEF ReadHeader
    <3>2. h.total \in Int
      BY SizesAssumption DEF Headers
    <3> QED BY <3>1, <3>2, NoChunks DEF HeaderOK, ForwardedIsWholeFile
  <2>2. CASE BadRead
    BY <2>2 DEF BadRead, Refuse, ForwardedIsWholeFile
  <2>3. CASE ReadChunk
    <3>1. PICK frame \in Frames :
            IF Opens(frame)
            THEN /\ assembled' = Append(assembled, frame.data)
                 /\ i' = i + 1
                 /\ UNCHANGED <<pc, hdr, forwarded>>
            ELSE Refuse
      BY <2>3 DEF ReadChunk
    <3>2. CASE Opens(frame)
      <4>1. frame.data = <<hdr.key, i>> /\ hdr.total = hdr.key.total /\ i < hdr.total
        BY <3>2, OpensOwnChunk
      <4>2. hdr.total \in Int
        BY SizesAssumption DEF Headers
      <4>3. pc = "chunks" /\ assembled' = Chunks(hdr.key, i + 1)
        BY <2>3, <3>1, <3>2, <4>1, OneMore DEF ReadChunk
      <4> QED BY <3>1, <3>2, <4>1, <4>2, <4>3 DEF ForwardedIsWholeFile
    <3>3. CASE ~Opens(frame)
      BY <3>1, <3>3 DEF Refuse, ForwardedIsWholeFile
    <3> QED BY <3>2, <3>3
  <2>4. CASE CheckHash
    <3>1. hdr.total \in Int
      BY SizesAssumption DEF Headers
    <3>2. assembled = Plain(hdr.key)
      BY <2>4, <3>1 DEF CheckHash, Plain, Chunks
    <3> QED BY <2>4, <3>2 DEF CheckHash, Plain, ForwardedIsWholeFile
  <2>5. CASE ProxyPlaintextUpload
    <3>1. hdr.key \in Uploads
      BY DEF Headers
    <3> QED BY <2>5, <3>1 DEF ProxyPlaintextUpload, Plain, ForwardedIsWholeFile
  <2>6. CASE NextUpload
    BY <2>6, BlankIsHeader DEF NextUpload, ForwardedIsWholeFile
  <2>7. CASE UNCHANGED vars
    BY <2>7 DEF vars, Plain, ForwardedIsWholeFile
  <2> QED BY <2>1, <2>2, <2>3, <2>4, <2>5, <2>6, <2>7 DEF Next
<1> QED BY <1>1, <1>2, PTL DEF Spec

\* Whatever frames arrive under whatever header, the buffer manager receives
\* one sealed file, whole and in order, or nothing (submit.go:269-306).
THEOREM WholeFiles == Spec => []ForwardedIsWholeFile
BY UploadInv, PTL DEF IInv
-----------------------------------------------------------------------------
\* As long as the body is what one browser sent, the header is that upload's
\* own, but for the hash it may carry, and the nonce is the next chunk's.
IntactOK ==
  intact =>
    /\ pc # "refused"
    /\ pc = "chunks" =>
         /\ hdr = HeaderOf(hdr.key) \/ hdr = [HeaderOf(hdr.key) EXCEPT !.hash = hdr.key]
         /\ IsIV(nonce, hdr.base, i)

\* A header that arrives intact has the fields of its upload, which are legal.
LEMMA OwnHeader ==
  ASSUME NEW h \in Headers, h = HeaderOf(h.key) \/ h = [HeaderOf(h.key) EXCEPT !.hash = h.key]
  PROVE  /\ h.key \in Uploads /\ h.base = h.key.base /\ h.base \in Nonces
         /\ h.total = h.key.total /\ h.file = h.key.file
         /\ h.hash \in {NoHash, h.key} /\ HeaderOK(h)
<1>1. h.key \in Uploads
  BY DEF Headers
<1>2. /\ h.key.base \in Nonces /\ h.key.total \in 1 .. MaxTotalChunks /\ h.key.file \in FileIds
  BY <1>1, UploadsAssumption
<1>3. /\ h.base = h.key.base /\ h.total = h.key.total /\ h.file = h.key.file
      /\ h.hash \in {NoHash, h.key}
  BY DEF HeaderOf
<1>4. HeaderOK(h)
  BY <1>2, <1>3, SizesAssumption, NamesAssumption DEF HeaderOK
<1> QED BY <1>1, <1>2, <1>3, <1>4

\* Before a body arrives nothing is refused.
LEMMA IntactInit == Init => IntactOK
BY DEF Init, IntactOK

\* Every step of an intact body keeps to its upload.
LEMMA IntactNext == IInv /\ IntactOK /\ [Next]_vars => IntactOK'
<1> SUFFICES ASSUME IInv, IntactOK, [Next]_vars, intact'
             PROVE  /\ pc' # "refused"
                    /\ pc' = "chunks" =>
                         /\ \/ hdr' = HeaderOf(hdr'.key)
                            \/ hdr' = [HeaderOf(hdr'.key) EXCEPT !.hash = hdr'.key]
                         /\ IsIV(nonce', hdr'.base, i')
  BY DEF IntactOK
<1>1. CASE ReadHeader
  <2>1. PICK h \in Headers :
          /\ hdr' = h /\ nonce' = h.base /\ i' = i /\ pc = "header"
          /\ intact' = (h = HeaderOf(h.key) \/ h = [HeaderOf(h.key) EXCEPT !.hash = h.key])
          /\ pc' = IF HeaderOK(h) THEN "chunks" ELSE "refused"
    BY <1>1 DEF ReadHeader
  <2>2. h = HeaderOf(h.key) \/ h = [HeaderOf(h.key) EXCEPT !.hash = h.key]
    BY <2>1
  <2>3. h.base \in Nonces /\ HeaderOK(h)
    BY <2>2, OwnHeader
  <2>4. i = 0
    BY <2>1 DEF IInv, StartOK
  <2> QED BY <2>1, <2>2, <2>3, <2>4, FirstIV
<1>2. CASE BadRead
  BY <1>2 DEF BadRead
<1>3. CASE ReadChunk
  <2>1. PICK frame \in Frames :
          /\ intact' = (intact /\ frame = Seal(hdr.key, i))
          /\ IF Opens(frame)
             THEN i' = i + 1 /\ nonce' = Increment(nonce) /\ pc' = pc /\ hdr' = hdr
             ELSE Refuse
    BY <1>3 DEF ReadChunk
  <2>2. intact /\ frame = Seal(hdr.key, i) /\ pc = "chunks" /\ hdr \in Headers /\ i \in Nat
    BY <1>3, <2>1 DEF ReadChunk, IInv, HdrOK
  <2>3. /\ hdr = HeaderOf(hdr.key) \/ hdr = [HeaderOf(hdr.key) EXCEPT !.hash = hdr.key]
        /\ IsIV(nonce, hdr.base, i)
    BY <2>2 DEF IntactOK
  <2>4. /\ hdr.base = hdr.key.base /\ hdr.base \in Nonces
        /\ hdr.total = hdr.key.total /\ hdr.file = hdr.key.file
    BY <2>2, <2>3, OwnHeader
  <2>5. IV(hdr.key.base, i) = nonce
    BY <2>2, <2>3, <2>4, IVIs
  <2>6. Opens(frame)
    BY <2>2, <2>4, <2>5 DEF Opens, Seal, AAD
  <2>7. IsIV(Increment(nonce), hdr.base, i + 1)
    BY <2>2, <2>3, <2>4, NextIV
  <2> QED BY <2>1, <2>2, <2>3, <2>6, <2>7
<1>4. CASE CheckHash
  <2>1. intact /\ pc = "chunks" /\ i = hdr.total /\ hdr \in Headers
    BY <1>4 DEF CheckHash, IInv, HdrOK
  <2>2. hdr.hash \in {NoHash, hdr.key} /\ hdr.total = hdr.key.total
    BY <2>1, OwnHeader DEF IntactOK
  <2>3. assembled = Plain(hdr.key)
    BY <2>1, <2>2 DEF IInv, AssembledOK, Plain, Chunks
  <2> QED BY <1>4, <2>2, <2>3 DEF CheckHash
<1>5. CASE ProxyPlaintextUpload \/ NextUpload
  BY <1>5 DEF ProxyPlaintextUpload, NextUpload
<1>6. CASE UNCHANGED vars
  BY <1>6 DEF vars, IntactOK
<1> QED BY <1>1, <1>2, <1>3, <1>4, <1>5, <1>6 DEF Next

\* A body that arrives as one browser sent it is not refused, for every width
\* of nonce and byte, every base and up to the largest number of chunks: the
\* handler's carry loop over bytes (submit.go:288) is base_iv + i modulo the
\* number of nonces.
THEOREM IntactAccepted == Spec => []IntactUploadNotRefused
<1>1. IntactOK => IntactUploadNotRefused
  BY DEF IntactOK, IntactUploadNotRefused
<1> QED BY <1>1, UploadInv, IntactInit, IntactNext, PTL DEF Spec
=============================================================================
