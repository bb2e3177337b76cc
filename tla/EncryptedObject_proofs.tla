------------------------ MODULE EncryptedObject_proofs ------------------------
(***************************************************************************)
(* Theorems about put_object and get_object, for any number of writes and  *)
(* any contexts and policies: what every request carries, what a read can  *)
(* have gathered from two of them, and what it then releases.              *)
(***************************************************************************)
EXTENDS EncryptedObject, TLAPS

(* Dicts *)

\* A lookup in a merged dict finds the left item, and else the right one.
LEMMA Merged ==
  ASSUME NEW d, NEW e
  PROVE  /\ DOMAIN (d @@ e) = DOMAIN d \cup DOMAIN e
         /\ \A k \in DOMAIN d : (d @@ e)[k] = d[k]
         /\ \A k \in DOMAIN e \ DOMAIN d : (d @@ e)[k] = e[k]
BY DEF @@

\* What is left of a dict keeps its items.
LEMMA Restricted ==
  ASSUME NEW d, NEW S
  PROVE  DOMAIN Restrict(d, S) = S /\ \A k \in S : Restrict(d, S)[k] = d[k]
BY DEF Restrict

-----------------------------------------------------------------------------
(* What a write's metadata holds *)

\* The context of a data key is the caller's and the suite, or that of V1.
LEMMA BoundContexts ==
  ASSUME NEW w
  PROVE  /\ w.wrap = "kms+context" =>
              /\ KMS_CONTEXT_DEFAULT_KEY \in DOMAIN Bound(w)
              /\ Bound(w)[KMS_CONTEXT_DEFAULT_KEY] = w.suite
              /\ Without(Bound(w), Reserved) = Without(w.ctx, Reserved)
         /\ w.wrap # "kms+context" => DOMAIN Bound(w) = {KMS_V1_DEFAULT_KEY}
<1>1. ASSUME w.wrap = "kms+context"
      PROVE  /\ KMS_CONTEXT_DEFAULT_KEY \in DOMAIN Bound(w)
             /\ Bound(w)[KMS_CONTEXT_DEFAULT_KEY] = w.suite
             /\ Without(Bound(w), Reserved) = Without(w.ctx, Reserved)
  <2> DEFINE b == KMS_CONTEXT_DEFAULT_KEY :> w.suite @@ w.ctx
  <2>1. Bound(w) = b
    BY <1>1 DEF Bound, OnEncryptContext
  <2>2. /\ DOMAIN b = {KMS_CONTEXT_DEFAULT_KEY} \cup DOMAIN w.ctx
        /\ b[KMS_CONTEXT_DEFAULT_KEY] = w.suite
        /\ \A k \in DOMAIN w.ctx : k # KMS_CONTEXT_DEFAULT_KEY => b[k] = w.ctx[k]
    BY DEF :>, @@
  <2>3. DOMAIN b \ Reserved = DOMAIN w.ctx \ Reserved
    BY <2>2 DEF Reserved
  <2>4. \A k \in DOMAIN w.ctx \ Reserved : b[k] = w.ctx[k]
    BY <2>2 DEF Reserved
  <2>5. Without(b, Reserved) = Without(w.ctx, Reserved)
    BY <2>3, <2>4 DEF Without, Restrict
  <2> QED
    BY <2>1, <2>2, <2>5
<1>2. ASSUME w.wrap # "kms+context" PROVE DOMAIN Bound(w) = {KMS_V1_DEFAULT_KEY}
  BY <1>2 DEF Bound, :>
<1> QED
  BY <1>1, <1>2

\* The keys of each format and their names.
LEMMA FormatKeys ==
  /\ KeyName("v1") = "x-amz-key" /\ KeyName("v2") = "x-amz-key-v2"
  /\ KeyName("v3") = "x-amz-3"
  /\ Marks("v1") = {"x-amz-key"} /\ Marks("v2") = {"x-amz-key-v2"}
  /\ Marks("v3") = {"x-amz-3", "x-amz-c", "x-amz-d", "x-amz-i"}
  /\ Marking = {"x-amz-key", "x-amz-key-v2", "x-amz-3", "x-amz-c", "x-amz-d", "x-amz-i"}
BY DEF KeyName, Marks, Marking, EncryptedDataKeys, V3ContentKeys

\* put_object and create_multipart_upload, two copies of the same code, make
\* complete metadata of format V2 or V3, by the suite.
LEMMA OwnMetadata ==
  ASSUME NEW n, NEW suite \in {GCM, KC}, NEW ctx, NEW stray, NEW m,
         m = EncryptionMetadata(n, suite, ctx) \/ m = MultipartMetadata(n, suite, ctx)
  PROVE  LET w == Write(suite, "kms+context", ctx, stray)
             f == IF suite = KC THEN "v3" ELSE "v2"
         IN /\ KeyPart(m, n, w, f) /\ ContentPart(m, n, w, f)
            /\ DOMAIN m \cap Marking = Marks(f)
            /\ DOMAIN m \subseteq VALID_S3EC_METADATA_KEYS
<1> DEFINE w == Write(suite, "kms+context", ctx, stray)
           b == OnEncryptContext(ctx, suite)
           edk == DataKey(n, b)
<1>1. /\ w.suite = suite /\ w.wrap = "kms+context" /\ Bound(w) = b /\ edk.ctx = b
  BY DEF Write, Bound, DataKey
<1>2. CASE suite = KC
  <2>1. m = EncryptKcGcm(n, edk)
    BY <1>2 DEF EncryptionMetadata, MultipartMetadata, EncryptKcGcm
  <2>2. /\ DOMAIN m = {"x-amz-c", "x-amz-w", "x-amz-3", "x-amz-i", "x-amz-d", "x-amz-t"}
        /\ m["x-amz-c"] = KC /\ m["x-amz-w"] = "12" /\ m["x-amz-3"] = edk
        /\ m["x-amz-i"] = n /\ m["x-amz-d"] = Commitment(n, n) /\ m["x-amz-t"] = edk.ctx
    BY <2>1 DEF EncryptKcGcm, :>, @@
  <2>3. KeyPart(m, n, w, "v3")
    BY <1>1, <1>2, <2>2, FormatKeys DEF KeyPart, V3WrapAlg
  <2>4. ContentPart(m, n, w, "v3")
    BY <2>2 DEF ContentPart, V3ContentKeys
  <2>5. DOMAIN m \cap Marking = Marks("v3") /\ DOMAIN m \subseteq VALID_S3EC_METADATA_KEYS
    BY <2>2, FormatKeys DEF VALID_S3EC_METADATA_KEYS
  <2> QED
    BY <1>2, <2>3, <2>4, <2>5
<1>3. CASE suite = GCM
  <2>0. GCM # KC
    BY DEF GCM, KC
  <2>1. m = EncryptGcm(n, edk)
    BY <1>3, <2>0 DEF EncryptionMetadata, MultipartMetadata, EncryptGcm
  <2>2. /\ DOMAIN m = {"x-amz-key-v2", "x-amz-wrap-alg", "x-amz-iv", "x-amz-cek-alg",
                       "x-amz-matdesc", "x-amz-tag-len"}
        /\ m["x-amz-key-v2"] = edk /\ m["x-amz-wrap-alg"] = "kms+context"
        /\ m["x-amz-iv"] = n /\ m["x-amz-cek-alg"] = GCM /\ m["x-amz-matdesc"] = edk.ctx
    BY <2>1 DEF EncryptGcm, :>, @@
  <2>3. KeyPart(m, n, w, "v2")
    BY <1>1, <1>3, <2>0, <2>2, FormatKeys DEF KeyPart
  <2>4. ContentPart(m, n, w, "v2")
    BY <1>1, <1>3, <2>2 DEF ContentPart
  <2>5. DOMAIN m \cap Marking = Marks("v2") /\ DOMAIN m \subseteq VALID_S3EC_METADATA_KEYS
    BY <2>2, FormatKeys DEF VALID_S3EC_METADATA_KEYS
  <2> QED
    BY <1>3, <2>0, <2>3, <2>4, <2>5
<1> QED
  BY <1>2, <1>3

\* A write's metadata is not disturbed by what is merged in behind it.
LEMMA KeepsParts ==
  ASSUME NEW m, NEW e, NEW n, NEW w, NEW f \in Formats
  PROVE  /\ KeyPart(m, n, w, f) => KeyPart(m @@ e, n, w, f)
         /\ ContentPart(m, n, w, f) => ContentPart(m @@ e, n, w, f)
<1>1. DOMAIN m \subseteq DOMAIN (m @@ e) /\ \A k \in DOMAIN m : (m @@ e)[k] = m[k]
  BY Merged
<1>2. KeyPart(m, n, w, f) => KeyPart(m @@ e, n, w, f)
  BY <1>1 DEF KeyPart
<1>3. ContentPart(m, n, w, f) => ContentPart(m @@ e, n, w, f)
  BY <1>1 DEF ContentPart, V3ContentKeys
<1> QED
  BY <1>2, <1>3

\* The context foreign clients bind a data key to is the one of its write.
ForeignContext(suite, wrap) ==
  IF wrap = "kms+context" THEN KMS_CONTEXT_DEFAULT_KEY :> suite
                          ELSE KMS_V1_DEFAULT_KEY :> "key"

\* It is what the record of the write says.
LEMMA ForeignBound ==
  ASSUME NEW suite, NEW wrap
  PROVE  Bound(Write(suite, wrap, Empty, {})) = ForeignContext(suite, wrap)
<1>1. (KMS_CONTEXT_DEFAULT_KEY :> suite) @@ Empty = KMS_CONTEXT_DEFAULT_KEY :> suite
  <2>1. DOMAIN Empty = {}
    BY DEF Empty
  <2> QED
    BY <2>1 DEF :>, @@
<1> QED
  BY <1>1 DEF Bound, Write, ForeignContext, OnEncryptContext

\* What other languages' clients write, in each of their formats.
LEMMA ForeignWrites ==
  ASSUME NEW n, NEW f \in ForeignFormats
  PROVE  LET w == Write(f[2], f[3], Empty, {})
             m == ForeignMetadata(n, f[1], f[2], f[3], DataKey(n, ForeignContext(f[2], f[3])))
         IN /\ f[1] \in Formats /\ w \in Writes
            /\ KeyPart(m, n, w, f[1]) /\ ContentPart(m, n, w, f[1])
            /\ DOMAIN m \cap Marking = Marks(f[1])
            /\ DOMAIN m \subseteq VALID_S3EC_METADATA_KEYS
<1> DEFINE w == Write(f[2], f[3], Empty, {})
           b == ForeignContext(f[2], f[3])
           edk == DataKey(n, b)
           m == ForeignMetadata(n, f[1], f[2], f[3], edk)
<1>1. /\ w.suite = f[2] /\ w.wrap = f[3] /\ Bound(w) = b /\ edk.ctx = b
  BY ForeignBound DEF Write, DataKey
<1>2. w \in Writes
  BY DEF Write, Writes, ForeignFormats, AlgorithmSuite
<1>3. CASE f = <<"v1", CBC, "kms">>
  <2>1. f[1] = "v1" /\ f[2] = CBC /\ f[3] = "kms" /\ CBC # KC
    BY <1>3 DEF CBC, KC
  <2>2. /\ DOMAIN m = {"x-amz-key", "x-amz-iv", "x-amz-matdesc", "x-amz-wrap-alg"}
        /\ m["x-amz-key"] = edk /\ m["x-amz-iv"] = n /\ m["x-amz-matdesc"] = edk.ctx
        /\ m["x-amz-wrap-alg"] = f[3]
    BY <2>1 DEF ForeignMetadata, :>, @@
  <2>3. KeyPart(m, n, w, "v1")
    BY <1>1, <2>1, <2>2, FormatKeys DEF KeyPart
  <2>4. ContentPart(m, n, w, "v1")
    BY <1>1, <2>1, <2>2 DEF ContentPart
  <2>5. DOMAIN m \cap Marking = Marks("v1") /\ DOMAIN m \subseteq VALID_S3EC_METADATA_KEYS
    BY <2>2, FormatKeys DEF VALID_S3EC_METADATA_KEYS
  <2> QED
    BY <1>2, <2>1, <2>3, <2>4, <2>5 DEF Formats
<1>4. CASE f[1] = "v2"
  <2>1. f[1] = "v2" /\ f[2] # KC
    BY <1>4 DEF ForeignFormats, CBC, GCM, KC
  <2>2. /\ DOMAIN m = {"x-amz-key-v2", "x-amz-iv", "x-amz-matdesc", "x-amz-wrap-alg",
                       "x-amz-cek-alg"}
        /\ m["x-amz-key-v2"] = edk /\ m["x-amz-iv"] = n /\ m["x-amz-matdesc"] = edk.ctx
        /\ m["x-amz-wrap-alg"] = f[3] /\ m["x-amz-cek-alg"] = f[2]
    BY <2>1 DEF ForeignMetadata, :>, @@
  <2>3. KeyPart(m, n, w, "v2")
    BY <1>1, <2>1, <2>2, FormatKeys DEF KeyPart
  <2>4. ContentPart(m, n, w, "v2")
    BY <1>1, <2>1, <2>2 DEF ContentPart
  <2>5. DOMAIN m \cap Marking = Marks("v2") /\ DOMAIN m \subseteq VALID_S3EC_METADATA_KEYS
    BY <2>2, FormatKeys DEF VALID_S3EC_METADATA_KEYS
  <2> QED
    BY <1>2, <2>1, <2>3, <2>4, <2>5 DEF Formats
<1>5. CASE f[1] = "v3"
  <2>1. f[1] = "v3" /\ f[2] = KC /\ f[3] \in {"kms+context", "AES/GCM"}
    BY <1>5 DEF ForeignFormats
  <2>2. CASE f[3] = "kms+context"
    <3>1. /\ DOMAIN m = {"x-amz-c", "x-amz-d", "x-amz-i", "x-amz-3", "x-amz-w", "x-amz-t"}
          /\ m["x-amz-c"] = KC /\ m["x-amz-d"] = Commitment(n, n) /\ m["x-amz-i"] = n
          /\ m["x-amz-3"] = edk /\ m["x-amz-w"] = "12" /\ m["x-amz-t"] = edk.ctx
      BY <2>1, <2>2 DEF ForeignMetadata, :>, @@
    <3>2. KeyPart(m, n, w, "v3")
      BY <1>1, <2>1, <2>2, <3>1, FormatKeys DEF KeyPart, V3WrapAlg
    <3>3. ContentPart(m, n, w, "v3")
      BY <3>1 DEF ContentPart, V3ContentKeys
    <3>4. DOMAIN m \cap Marking = Marks("v3") /\ DOMAIN m \subseteq VALID_S3EC_METADATA_KEYS
      BY <3>1, FormatKeys DEF VALID_S3EC_METADATA_KEYS
    <3> QED
      BY <1>2, <2>1, <3>2, <3>3, <3>4 DEF Formats
  <2>3. CASE f[3] = "AES/GCM"
    <3>1. /\ DOMAIN m = {"x-amz-c", "x-amz-d", "x-amz-i", "x-amz-3", "x-amz-w", "x-amz-m"}
          /\ m["x-amz-c"] = KC /\ m["x-amz-d"] = Commitment(n, n) /\ m["x-amz-i"] = n
          /\ m["x-amz-3"] = edk /\ m["x-amz-w"] = "02" /\ m["x-amz-m"] = edk.ctx
      BY <2>1, <2>3 DEF ForeignMetadata, :>, @@
    <3>2. KeyPart(m, n, w, "v3")
      BY <1>1, <2>1, <2>3, <3>1, FormatKeys DEF KeyPart, V3WrapAlg
    <3>3. ContentPart(m, n, w, "v3")
      BY <3>1 DEF ContentPart, V3ContentKeys
    <3>4. DOMAIN m \cap Marking = Marks("v3") /\ DOMAIN m \subseteq VALID_S3EC_METADATA_KEYS
      BY <3>1, FormatKeys DEF VALID_S3EC_METADATA_KEYS
    <3> QED
      BY <1>2, <2>1, <3>2, <3>3, <3>4 DEF Formats
  <2> QED
    BY <2>1, <2>2, <2>3
<1> QED
  BY <1>3, <1>4, <1>5 DEF ForeignFormats

\* What an instruction file leaves in the object, and what the file adds up to.
KeptPart(m) == Restrict(m, V3ContentKeys \cap DOMAIN m)
FilePart(m) == FileMetadata(PutFile("x-amz-crypto-instr-file" :> "", Without(m, V3ContentKeys)))

\* With an instruction file the object keeps the content keys of V3, nothing
\* of V1 or V2, and the file has all the rest.
LEMMA SplitWrites ==
  ASSUME NEW n, NEW w, NEW f \in Formats, NEW m,
         KeyPart(m, n, w, f), ContentPart(m, n, w, f), DOMAIN m \cap Marking = Marks(f)
  PROVE  /\ w.suite = KC => /\ ContentPart(KeptPart(m), n, w, "v3")
                             /\ DOMAIN KeptPart(m) = V3ContentKeys
         /\ w.suite # KC => DOMAIN KeptPart(m) = {}
         /\ KeyPart(FilePart(m), n, w, f) /\ (f # "v3" => ContentPart(FilePart(m), n, w, f))
         /\ DOMAIN FilePart(m) \cap Marking = {KeyName(f)}
<1> DEFINE o == Restrict(m, V3ContentKeys \cap DOMAIN m)
           c == Without(m, V3ContentKeys)
           x == "x-amz-crypto-instr-file" :> ""
           g == FileMetadata(PutFile(x, c))
<1>1. w.suite = KC <=> f = "v3"
  BY DEF KeyPart
<1>2. DOMAIN o = V3ContentKeys \cap DOMAIN m /\ \A k \in DOMAIN o : o[k] = m[k]
  BY Restricted
<1>3. f = "v3" => ContentPart(o, n, w, "v3") /\ DOMAIN o = V3ContentKeys
  <2> SUFFICES ASSUME f = "v3"
               PROVE  ContentPart(o, n, w, "v3") /\ DOMAIN o = V3ContentKeys
    OBVIOUS
  <2>1. V3ContentKeys \subseteq DOMAIN m
    BY DEF ContentPart
  <2>2. DOMAIN o = V3ContentKeys
    BY <1>2, <2>1
  <2>3. o["x-amz-c"] = m["x-amz-c"] /\ o["x-amz-i"] = m["x-amz-i"] /\ o["x-amz-d"] = m["x-amz-d"]
    BY <1>2, <2>2 DEF V3ContentKeys
  <2> QED
    BY <2>2, <2>3 DEF ContentPart
<1>4. f # "v3" => DOMAIN o = {}
  <2>1. f # "v3" => Marks(f) \cap V3ContentKeys = {}
    BY FormatKeys DEF Formats, V3ContentKeys
  <2>2. DOMAIN o \subseteq V3ContentKeys \cap DOMAIN m \cap Marking
    BY <1>2 DEF Marking
  <2> QED
    BY <2>1, <2>2
<1>5. DOMAIN c = DOMAIN m \ V3ContentKeys /\ \A k \in DOMAIN c : c[k] = m[k]
  BY Restricted DEF Without
<1>6. g = c @@ x /\ DOMAIN x = {"x-amz-crypto-instr-file"}
  BY DEF FileMetadata, PutFile, :>
<1>7. DOMAIN g = DOMAIN c \cup {"x-amz-crypto-instr-file"} /\ \A k \in DOMAIN c : g[k] = c[k]
  <2> HIDE DEF c, x, g
  <2> QED
    BY <1>6, Merged
<1>8. \A k \in DOMAIN m \ V3ContentKeys : k \in DOMAIN g /\ g[k] = m[k]
  BY <1>5, <1>7
<1>9. KeyPart(g, n, w, f)
  <2>1. KeyName(f) \notin V3ContentKeys
    BY FormatKeys DEF Formats, V3ContentKeys
  <2>2. \A k \in {"x-amz-wrap-alg", "x-amz-matdesc", "x-amz-w", "x-amz-t", "x-amz-m"} :
          k \notin V3ContentKeys
    BY DEF V3ContentKeys
  <2> QED
    BY <1>8, <2>1, <2>2 DEF KeyPart
<1>10. f # "v3" => ContentPart(g, n, w, f)
  <2>1. "x-amz-iv" \notin V3ContentKeys /\ "x-amz-cek-alg" \notin V3ContentKeys
    BY DEF V3ContentKeys
  <2> QED
    BY <1>8, <2>1 DEF ContentPart
<1>11. DOMAIN g \cap Marking = {KeyName(f)}
  <2>1. DOMAIN g \cap Marking = Marks(f) \ V3ContentKeys
    <3>1. "x-amz-crypto-instr-file" \notin Marking
      BY FormatKeys
    <3> QED
      BY <1>5, <1>7, <3>1
  <2>2. Marks(f) \ V3ContentKeys = {KeyName(f)}
    BY FormatKeys DEF Formats, V3ContentKeys
  <2> QED
    BY <2>1, <2>2
<1>12. KeptPart(m) = o /\ FilePart(m) = g
  BY DEF KeptPart, FilePart
<1> HIDE DEF o, g
<1> QED
  BY <1>1, <1>3, <1>4, <1>9, <1>10, <1>11, <1>12

-----------------------------------------------------------------------------
(* Requests keep their meaning as the log grows *)

\* No write is changed by a later one.
LogGrows ==
  log' \in Seq(Writes) /\ \A n \in 1..Len(log) : n \in 1..Len(log') /\ log'[n] = log[n]

\* So every request stays the request of the same write.
LEMMA RequestsKept ==
  ASSUME TypeOK, LogGrows
  PROVE  /\ \A r : ObjectRequest(r) => ObjectRequest(r)'
         /\ \A r : FileRequest(r) => FileRequest(r)'
<1>1. ASSUME NEW r, ObjectRequest(r) PROVE ObjectRequest(r)'
  <2> DEFINE n == r.body.key
  <2>1. n \in 1..Len(log') /\ log'[n] = log[n]
    BY <1>1 DEF ObjectRequest, LogGrows
  <2> QED
    BY <1>1, <2>1 DEF ObjectRequest
<1>2. ASSUME NEW r, FileRequest(r) PROVE FileRequest(r)'
  <2>1. CASE "other" \in DOMAIN r.content
    BY <2>1 DEF FileRequest
  <2>2. CASE "other" \notin DOMAIN r.content
    <3> DEFINE m == FileMetadata(r)
    <3>1. PICK n \in 1..Len(log), f \in Formats :
            /\ KeyPart(m, n, log[n], f) /\ (f # "v3" => ContentPart(m, n, log[n], f))
            /\ DOMAIN m \cap Marking = {KeyName(f)}
      BY <1>2, <2>2 DEF FileRequest
    <3>2. n \in 1..Len(log') /\ log'[n] = log[n]
      BY DEF LogGrows
    <3> QED
      BY <3>1, <3>2 DEF FileRequest
  <2> QED
    BY <2>1, <2>2
<1> QED
  BY <1>1, <1>2

\* A new write is the last of the log.
LEMMA LogAppended ==
  ASSUME TypeOK, NEW w \in Writes, log' = Append(log, w)
  PROVE  /\ LogGrows /\ Len(log) + 1 \in 1..Len(log')
         /\ log'[Len(log) + 1] = w
BY DEF TypeOK, LogGrows

\* What is said of every request in flight.
WireInv == \A r \in wire : \/ r.at = "object" /\ ObjectRequest(r)
                           \/ r.at = "instr" /\ FileRequest(r)

\* put_object and create_multipart_upload send the body under its own
\* metadata; what they keep of the caller's Metadata is recorded as stray.
LEMMA SendStep ==
  ASSUME TypeOK, WireInv, NEW suite \in AlgorithmSuite, NEW policy, NEW ctx \in Contexts,
         NEW user \in UserMetadata,
         PutObject(suite, policy, ctx, user) \/ CreateMultipartUpload(suite, policy, ctx, user)
  PROVE  LogGrows /\ WireInv'
<1>0. PICK n : n = Len(log) + 1
  OBVIOUS
<1>1. PICK m : /\ m = EncryptionMetadata(n, suite, ctx) \/ m = MultipartMetadata(n, suite, ctx)
               /\ Send(n, suite, ctx, m, user)
  BY <1>0 DEF PutObject, CreateMultipartUpload
<1>2. suite \in {GCM, KC}
  BY DEF PutObject, CreateMultipartUpload, ValidConfig, is_legacy, AlgorithmSuite
<1> DEFINE stray == DOMAIN user \ DOMAIN m
           w == Write(suite, "kms+context", ctx, stray)
           f == IF suite = KC THEN "v3" ELSE "v2"
           r == PutBody(m @@ user, Body(n, suite))
<1>3. /\ KeyPart(m, n, w, f) /\ ContentPart(m, n, w, f)
      /\ DOMAIN m \cap Marking = Marks(f) /\ DOMAIN m \subseteq VALID_S3EC_METADATA_KEYS
  BY <1>1, <1>2, OwnMetadata
<1>4. DOMAIN user \subseteq VALID_S3EC_METADATA_KEYS
  <2>1. CASE user = Empty
    BY <2>1 DEF Empty
  <2>2. CASE user # Empty
    <3>1. object # NoObject /\ user = object.meta
      BY <2>2 DEF UserMetadata
    <3>2. ObjectRequest(object)
      BY <3>1 DEF TypeOK, WireInv
    <3> QED
      BY <3>1, <3>2 DEF ObjectRequest
  <2> QED
    BY <2>1, <2>2
<1>5. w \in Writes
  BY <1>2, <1>4 DEF Write, Writes
<1>6. log' = Append(log, w) /\ wire' = wire \cup {r}
  BY <1>1 DEF Send
<1>7. LogGrows /\ n \in 1..Len(log') /\ log'[n] = w
  BY <1>0, <1>5, <1>6, LogAppended
<1>8. ObjectRequest(r)'
  <2>1. /\ r.body.key = n /\ r.body = Body(n, suite) /\ r.meta = m @@ user
        /\ w.suite = suite /\ w.stray = stray
    BY DEF PutBody, Body, Write
  <2>2. KeyPart(m @@ user, n, w, f) /\ ContentPart(m @@ user, n, w, f) /\ f \in Formats
    <3>1. f \in Formats
      BY DEF Formats
    <3> QED
      BY <1>3, <3>1, KeepsParts
  <2>3. DOMAIN (m @@ user) = DOMAIN m \cup DOMAIN user
    BY Merged
  <2>4. (DOMAIN (m @@ user) \cap Marking) \ Marks(f) \subseteq stray
    BY <1>3, <2>3
  <2>5. DOMAIN (m @@ user) \subseteq VALID_S3EC_METADATA_KEYS
    BY <1>3, <1>4, <2>3
  <2> QED
    BY <1>7, <2>1, <2>2, <2>4, <2>5 DEF ObjectRequest
<1>9. r.at = "object"
  BY DEF PutBody
<1>10. \A q \in wire : \/ q.at = "object" /\ ObjectRequest(q)'
                       \/ q.at = "instr" /\ FileRequest(q)'
  BY <1>7, RequestsKept DEF WireInv
<1> QED
  BY <1>6, <1>7, <1>8, <1>9, <1>10 DEF WireInv

\* A foreign write is one request, or two that split its metadata.
LEMMA ForeignStep ==
  ASSUME TypeOK, WireInv, NEW f \in ForeignFormats, NEW file \in BOOLEAN,
         ForeignPut(f[1], f[2], f[3], file)
  PROVE  LogGrows /\ WireInv'
<1>0. PICK n : n = Len(log) + 1
  OBVIOUS
<1> DEFINE w == Write(f[2], f[3], Empty, {})
           m == ForeignMetadata(n, f[1], f[2], f[3], DataKey(n, ForeignContext(f[2], f[3])))
           all == PutBody(m, Body(n, f[2]))
           o == Restrict(m, V3ContentKeys \cap DOMAIN m)
           part == PutBody(o, Body(n, f[2]))
           rest == PutFile("x-amz-crypto-instr-file" :> "", Without(m, V3ContentKeys))
<1>1. /\ log' = Append(log, w)
      /\ wire' = wire \cup IF file THEN {part, rest} ELSE {all}
  BY <1>0 DEF ForeignPut, ForeignContext
<1>2. /\ f[1] \in Formats /\ w \in Writes
      /\ KeyPart(m, n, w, f[1]) /\ ContentPart(m, n, w, f[1])
      /\ DOMAIN m \cap Marking = Marks(f[1]) /\ DOMAIN m \subseteq VALID_S3EC_METADATA_KEYS
  BY ForeignWrites
<1>3. LogGrows /\ n \in 1..Len(log') /\ log'[n] = w /\ w.suite = f[2]
  BY <1>0, <1>1, <1>2, LogAppended DEF Write
<1> HIDE DEF m, w
<1>4. all.at = "object" /\ ObjectRequest(all)'
  <2>1. all.at = "object" /\ all.body.key = n /\ all.body = Body(n, f[2]) /\ all.meta = m
    BY DEF PutBody, Body
  <2>2. (DOMAIN m \cap Marking) \ Marks(f[1]) \subseteq w.stray
    BY <1>2
  <2> QED
    BY <1>2, <1>3, <2>1, <2>2 DEF ObjectRequest
<1>5. o = KeptPart(m) /\ FileMetadata(rest) = FilePart(m)
  BY DEF KeptPart, FilePart
<1>a. /\ w.suite = KC => /\ ContentPart(KeptPart(m), n, w, "v3")
                          /\ DOMAIN KeptPart(m) = V3ContentKeys
      /\ w.suite # KC => DOMAIN KeptPart(m) = {}
      /\ KeyPart(FilePart(m), n, w, f[1])
      /\ f[1] # "v3" => ContentPart(FilePart(m), n, w, f[1])
      /\ DOMAIN FilePart(m) \cap Marking = {KeyName(f[1])}
  BY <1>2, SplitWrites
<1>6. part.at = "object" /\ ObjectRequest(part)'
  <2>1. part.at = "object" /\ part.body.key = n /\ part.body = Body(n, f[2]) /\ part.meta = o
    BY DEF PutBody, Body
  <2>2. DOMAIN o \subseteq VALID_S3EC_METADATA_KEYS
    BY <1>5, <1>a DEF V3ContentKeys, VALID_S3EC_METADATA_KEYS
  <2> HIDE DEF o, part
  <2> QED
    BY <1>3, <1>5, <1>a, <2>1, <2>2 DEF ObjectRequest
<1>7. rest.at = "instr" /\ FileRequest(rest)'
  <2>1. rest.at = "instr"
    BY DEF PutFile
  <2> HIDE DEF rest
  <2> QED
    BY <1>2, <1>3, <1>5, <1>a, <2>1 DEF FileRequest
<1>8. \A q \in wire : \/ q.at = "object" /\ ObjectRequest(q)'
                      \/ q.at = "instr" /\ FileRequest(q)'
  BY <1>3, RequestsKept DEF WireInv
<1> HIDE DEF all, part, rest
<1> QED
  BY <1>1, <1>3, <1>4, <1>6, <1>7, <1>8 DEF WireInv

\* Something else under the instruction file's name is known by its content.
LEMMA OtherStep ==
  ASSUME TypeOK, WireInv, PutOther
  PROVE  LogGrows /\ WireInv'
<1> DEFINE r == PutFile(Empty, "other" :> 0)
<1>1. log' = log /\ wire' = wire \cup {r}
  BY DEF PutOther
<1>2. LogGrows
  BY <1>1 DEF TypeOK, LogGrows
<1>3. r.at = "instr" /\ FileRequest(r)'
  BY DEF PutFile, FileRequest, :>
<1>4. \A q \in wire : \/ q.at = "object" /\ ObjectRequest(q)'
                      \/ q.at = "instr" /\ FileRequest(q)'
  BY <1>2, RequestsKept DEF WireInv
<1> QED
  BY <1>1, <1>2, <1>3, <1>4 DEF WireInv

-----------------------------------------------------------------------------
(* What a read gathers *)

\* A data key of V1 or V2 keeps metadata from being V3.
LEMMA FormatUnderKey ==
  ASSUME NEW m, NEW f \in Formats, KeyName(f) \in DOMAIN m, f # "v3"
  PROVE  ~is_v3_format(m)
BY FormatKeys DEF Formats, is_v3_format

\* An object whose own metadata suffices.
LEMMA ReadAlone ==
  ASSUME NEW o, ObjectRequest(o), ~should_use_instruction_file(o.meta)
  PROVE  Gathered(o.meta, o.body.key)
<1> DEFINE m == o.meta
           n == o.body.key
           w == log[n]
<1>1. DOMAIN m # V3ContentKeys /\ DOMAIN m # {}
  BY DEF should_use_instruction_file, is_v3_in_object_metadata, EncryptedDataKeys, V3ContentKeys
<1>2. n \in 1..Len(log)
  BY DEF ObjectRequest
<1>3. PICK f \in Formats : /\ KeyPart(m, n, w, f) /\ ContentPart(m, n, w, f)
                           /\ (DOMAIN m \cap Marking) \ Marks(f) \subseteq w.stray
  BY <1>1 DEF ObjectRequest
<1>4. KeyName(f) \in EncryptedDataKeys \cap DOMAIN m
  BY <1>3, FormatKeys DEF KeyPart, Formats, EncryptedDataKeys
<1>5. ASSUME ~has_exclusive_key_collision(m), NEW k \in EncryptedDataKeys \cap DOMAIN m
      PROVE  k = KeyName(f)
  BY <1>4, <1>5 DEF has_exclusive_key_collision
<1>6. ASSUME w.stray \cap Marking = {} PROVE DOMAIN m \cap Marking = Marks(f)
  <2>1. Marks(f) \subseteq DOMAIN m \cap Marking
    BY <1>3, <1>4 DEF Marks, Marking, ContentPart
  <2> QED
    BY <1>3, <1>6, <2>1
<1>7. IF w.suite = KC THEN ContentPart(m, n, w, "v3") ELSE ~is_v3_format(m)
  BY <1>3, <1>4, FormatUnderKey DEF KeyPart
<1> QED
  BY <1>2, <1>3, <1>5, <1>6, <1>7 DEF Gathered

\* Metadata that has only content keys does not hide a file's data key.
LEMMA BehindContent ==
  ASSUME NEW d, NEW g, NEW n, NEW w, NEW f \in Formats,
         DOMAIN d \subseteq V3ContentKeys, KeyPart(g, n, w, f)
  PROVE  KeyPart(d @@ g, n, w, f)
<1>1. \A k \in DOMAIN g \ V3ContentKeys : k \in DOMAIN (d @@ g) /\ (d @@ g)[k] = g[k]
  BY DEF @@
<1>2. KeyName(f) \notin V3ContentKeys
  BY FormatKeys DEF Formats, V3ContentKeys
<1>3. \A k \in {"x-amz-wrap-alg", "x-amz-matdesc", "x-amz-w", "x-amz-t", "x-amz-m"} :
        k \notin V3ContentKeys
  BY DEF V3ContentKeys
<1> HIDE DEF V3ContentKeys
<1> QED
  BY <1>1, <1>2, <1>3 DEF KeyPart

\* An object and an instruction file, of one write or of two.
LEMMA ReadTwo ==
  ASSUME NEW o, ObjectRequest(o), should_use_instruction_file(o.meta),
         NEW r, FileRequest(r), ValidInstructionFile(r, o)
  PROVE  Gathered(o.meta @@ FileMetadata(r), o.body.key)
<1> DEFINE d == o.meta
           g == FileMetadata(r)
           m == d @@ g
           n == o.body.key
           w == log[n]
<1>1. "other" \notin DOMAIN r.content
  BY DEF ValidInstructionFile, VALID_S3EC_METADATA_KEYS
<1>2. PICK j \in 1..Len(log), h \in Formats :
        /\ KeyPart(g, j, log[j], h) /\ (h # "v3" => ContentPart(g, j, log[j], h))
        /\ DOMAIN g \cap Marking = {KeyName(h)}
  BY <1>1 DEF FileRequest
<1>3. n \in 1..Len(log)
  BY DEF ObjectRequest
<1>4. DOMAIN m = DOMAIN d \cup DOMAIN g
  BY Merged
<1>5. ASSUME NEW f \in Formats, KeyPart(d, n, w, f), ContentPart(d, n, w, f),
             (DOMAIN d \cap Marking) \ Marks(f) \subseteq w.stray
      PROVE  Gathered(m, n)
  <2>1. KeyName(f) \in EncryptedDataKeys \cap DOMAIN d
    BY <1>5, FormatKeys DEF KeyPart, Formats, EncryptedDataKeys
  <2>2. V3ContentKeys \subseteq DOMAIN d /\ "x-amz-3" \notin DOMAIN d
    BY <2>1 DEF should_use_instruction_file, is_v3_in_object_metadata
  <2>3. "x-amz-c" \in DOMAIN d \cap Marking /\ "x-amz-c" \notin Marks(f)
    BY <2>1, <2>2, FormatKeys DEF V3ContentKeys, Formats
  <2>4. w.stray \cap Marking # {}
    BY <1>5, <2>3
  <2>5. KeyPart(m, n, w, f) /\ ContentPart(m, n, w, f)
    BY <1>5, KeepsParts
  <2>6. ASSUME ~has_exclusive_key_collision(m), NEW k \in EncryptedDataKeys \cap DOMAIN m
        PROVE  k = KeyName(f)
    BY <1>4, <2>1, <2>6 DEF has_exclusive_key_collision
  <2>7. IF w.suite = KC THEN ContentPart(m, n, w, "v3") ELSE ~is_v3_format(m)
    BY <1>4, <2>1, <2>5, FormatUnderKey DEF KeyPart
  <2> QED
    BY <1>3, <2>4, <2>5, <2>6, <2>7 DEF Gathered
<1>6. ASSUME DOMAIN d \subseteq V3ContentKeys,
             w.suite = KC => ContentPart(d, n, w, "v3") /\ DOMAIN d = V3ContentKeys,
             w.suite # KC => DOMAIN d = {}
      PROVE  Gathered(m, n)
  <2>1. KeyPart(m, j, log[j], h)
    BY <1>2, <1>6, BehindContent
  <2>2. EncryptedDataKeys \cap DOMAIN m = {KeyName(h)}
    <3>1. EncryptedDataKeys \cap V3ContentKeys = {} /\ EncryptedDataKeys \subseteq Marking
      BY DEF EncryptedDataKeys, V3ContentKeys, Marking
    <3>2. KeyName(h) \in EncryptedDataKeys
      BY FormatKeys DEF Formats, EncryptedDataKeys
    <3> QED
      BY <1>2, <1>4, <1>6, <3>1, <3>2
  <2>3. ASSUME HoldsKeyOf(m, n)
        PROVE  /\ KeyPart(m, n, w, h) /\ ContentPart(m, n, w, h)
               /\ DOMAIN m \cap Marking = Marks(h)
    <3>1. j = n
      <4>1. m[KeyName(h)] = DataKey(j, Bound(log[j]))
        BY <2>1 DEF KeyPart
      <4>2. m[KeyName(h)].key = n
        BY <2>2, <2>3 DEF HoldsKeyOf
      <4> QED
        BY <4>1, <4>2 DEF DataKey
    <3>2. KeyPart(m, n, w, h) /\ (w.suite = KC <=> h = "v3")
      BY <2>1, <3>1 DEF KeyPart
    <3>3. CASE h = "v3"
      <4>1. ContentPart(d, n, w, "v3") /\ DOMAIN d = V3ContentKeys
        BY <1>6, <3>2, <3>3
      <4>2. ContentPart(m, n, w, "v3")
        BY <4>1, KeepsParts DEF Formats
      <4>3. DOMAIN m \cap Marking = V3ContentKeys \cup {KeyName(h)}
        BY <1>2, <1>4, <4>1 DEF Marking
      <4> QED
        BY <3>2, <3>3, <4>2, <4>3 DEF Marks
    <3>4. CASE h # "v3"
      <4>1. DOMAIN d = {}
        BY <1>6, <3>2, <3>4
      <4>2. DOMAIN m = DOMAIN g /\ \A k \in DOMAIN g : m[k] = g[k]
        BY <4>1 DEF @@
      <4>3. ContentPart(m, n, w, h)
        BY <1>2, <3>1, <3>4, <4>2 DEF ContentPart
      <4>4. DOMAIN m \cap Marking = Marks(h)
        BY <1>2, <3>4, <4>2 DEF Marks
      <4> QED
        BY <3>2, <4>3, <4>4
    <3> QED
      BY <3>3, <3>4
  <2>4. CASE w.suite = KC
    <3>1. ContentPart(m, n, w, "v3")
      BY <1>6, <2>4, KeepsParts DEF Formats
    <3> QED
      BY <2>1, <2>2, <2>3, <2>4, <3>1 DEF Gathered
  <2>5. CASE w.suite # KC
    <3>1. "x-amz-c" \notin DOMAIN m
      BY <1>2, <1>4, <1>6, <2>5, FormatKeys DEF Formats
    <3>2. ~is_v3_format(m)
      BY <3>1 DEF is_v3_format, V3ContentKeys
    <3> QED
      BY <2>1, <2>2, <2>3, <2>5, <3>2 DEF Gathered
  <2> QED
    BY <2>4, <2>5
<1> QED
  BY <1>5, <1>6 DEF ObjectRequest

-----------------------------------------------------------------------------
(* What decrypt makes of it *)

\* The metadata is in format f.
IsFormat(m, f) ==
  \/ f = "v1" /\ is_v1_format(m)
  \/ f = "v2" /\ is_v2_format(m)
  \/ f = "v3" /\ is_v3_format(m)

\* _decrypt_v1, _decrypt_v2 and _decrypt_v3 find what the write stored.
LEMMA MaterialsFound ==
  ASSUME NEW m, NEW j, NEW w, NEW f \in Formats, IsFormat(m, f), KeyPart(m, j, w, f)
  PROVE  /\ DecryptionMaterials(m).edks = <<DataKey(j, Bound(w))>>
         /\ DecryptionMaterials(m).wrap = w.wrap
         /\ DecryptionMaterials(m).stored = Bound(w)
<1>1. CASE f = "v1"
  <2>1. is_v1_format(m) /\ ~is_v3_format(m)
    BY <1>1 DEF IsFormat, is_v1_format, is_v3_format
  <2>2. /\ {"x-amz-wrap-alg", "x-amz-matdesc"} \subseteq DOMAIN m
        /\ m["x-amz-key"] = DataKey(j, Bound(w)) /\ m["x-amz-wrap-alg"] = w.wrap
        /\ m["x-amz-matdesc"] = Bound(w)
    BY <1>1, FormatKeys DEF KeyPart
  <2> QED
    BY <2>1, <2>2 DEF DecryptionMaterials, Get
<1>2. CASE f = "v2"
  <2>1. ~is_v1_format(m) /\ ~is_v3_format(m)
    BY <1>2 DEF IsFormat, is_v1_format, is_v2_format, is_v3_format
  <2>2. /\ {"x-amz-wrap-alg", "x-amz-matdesc"} \subseteq DOMAIN m
        /\ m["x-amz-key-v2"] = DataKey(j, Bound(w)) /\ m["x-amz-wrap-alg"] = w.wrap
        /\ m["x-amz-matdesc"] = Bound(w)
    BY <1>2, FormatKeys DEF KeyPart
  <2> QED
    BY <2>1, <2>2 DEF DecryptionMaterials, Get
<1>3. CASE f = "v3"
  <2>1. is_v3_format(m)
    BY <1>3 DEF IsFormat
  <2>2. /\ m["x-amz-3"] = DataKey(j, Bound(w)) /\ V3WrapAlg(m["x-amz-w"]) = w.wrap
        /\ w.wrap = "kms+context" => "x-amz-t" \in DOMAIN m /\ m["x-amz-t"] = Bound(w)
        /\ w.wrap # "kms+context" => "x-amz-m" \in DOMAIN m /\ m["x-amz-m"] = Bound(w)
    BY <1>3, FormatKeys DEF KeyPart
  <2> QED
    BY <2>1, <2>2 DEF DecryptionMaterials, Get
<1> QED
  BY <1>1, <1>2, <1>3 DEF Formats

\* Metadata with a known suite is in one of the formats.
LEMMA SuiteHasFormat ==
  ASSUME NEW m, DetermineAlgorithmSuite(m) \in AlgorithmSuite
  PROVE  \E f \in Formats : IsFormat(m, f) /\ KeyName(f) \in EncryptedDataKeys \cap DOMAIN m
<1>1. "none" \notin AlgorithmSuite
  BY DEF AlgorithmSuite, CBC, GCM, KC
<1>2. is_v1_format(m) \/ is_v2_format(m) \/ is_v3_format(m)
  BY <1>1 DEF DetermineAlgorithmSuite
<1>3. CASE is_v1_format(m)
  <2>1. IsFormat(m, "v1") /\ KeyName("v1") \in EncryptedDataKeys \cap DOMAIN m
    BY <1>3, FormatKeys DEF IsFormat, is_v1_format, EncryptedDataKeys
  <2> QED
    BY <2>1 DEF Formats
<1>4. CASE is_v2_format(m)
  <2>1. IsFormat(m, "v2") /\ KeyName("v2") \in EncryptedDataKeys \cap DOMAIN m
    BY <1>4, FormatKeys DEF IsFormat, is_v2_format, EncryptedDataKeys
  <2> QED
    BY <2>1 DEF Formats
<1>5. CASE is_v3_format(m)
  <2>1. IsFormat(m, "v3") /\ KeyName("v3") \in EncryptedDataKeys \cap DOMAIN m
    BY <1>5, FormatKeys DEF IsFormat, is_v3_format, EncryptedDataKeys
  <2> QED
    BY <2>1 DEF Formats
<1> QED
  BY <1>2, <1>3, <1>4, <1>5

\* What decrypts under gathered metadata was encrypted as the configuration
\* allows, and the caller has passed its context.
LEMMA DecryptsPermitted ==
  ASSUME NEW m, NEW n \in 1..Len(log), NEW cfg, NEW ctx, Gathered(m, n),
         Accepts(cfg, ctx, m), Deciphers(m, Body(n, log[n].suite))
  PROVE  Permitted(cfg, log[n]) /\ ctx = CallerContext(log[n])
<1> DEFINE suite == DetermineAlgorithmSuite(m)
           mat == DecryptionMaterials(m)
           w == log[n]
<1>1. /\ suite \in AlgorithmSuite /\ ~has_exclusive_key_collision(m)
      /\ OnDecrypt(cfg, mat, suite, ctx) /\ LegacyAllowed(cfg, suite) /\ PolicyAllows(cfg, suite)
  BY DEF Accepts
<1>2. PICK f \in Formats : IsFormat(m, f) /\ KeyName(f) \in EncryptedDataKeys \cap DOMAIN m
  BY <1>1, SuiteHasFormat
<1>3. PICK j \in 1..Len(log), g \in Formats : KeyName(f) = KeyName(g) /\ KeyPart(m, j, log[j], g)
  BY <1>1, <1>2 DEF Gathered
<1>4. g = f
  BY <1>3, FormatKeys DEF Formats
<1>5. /\ mat.edks = <<DataKey(j, Bound(log[j]))>> /\ mat.wrap = log[j].wrap
      /\ mat.stored = Bound(log[j])
  BY <1>2, <1>3, <1>4, MaterialsFound
<1>6. Body(n, w.suite).key = mat.edks[1].key /\ Body(n, w.suite).suite = suite
  BY DEF Deciphers
<1>7. j = n /\ suite = w.suite
  BY <1>5, <1>6 DEF Body, DataKey
<1>8. mat.wrap = w.wrap /\ mat.stored = Bound(w)
  BY <1>5, <1>7
<1> HIDE DEF mat, suite, w
<1>9. CASE w.wrap = "kms+context"
  <2>1. ctx = Without(Bound(w), Reserved)
    BY <1>1, <1>8, <1>9 DEF OnDecrypt, ContextMatches
  <2>2. ctx = CallerContext(w)
    BY <1>9, <2>1, BoundContexts DEF CallerContext
  <2> QED
    BY <1>1, <1>7, <1>9, <2>2
       DEF Permitted, LegacyAllowed, PolicyAllows, is_legacy, supports_key_commitment, w
<1>10. CASE w.wrap # "kms+context"
  <2>1. w.wrap = "kms" /\ cfg.legacyWrapping /\ ctx = Empty
    BY <1>1, <1>8, <1>10 DEF OnDecrypt
  <2> QED
    BY <1>1, <1>7, <2>1 DEF Permitted, CallerContext, LegacyAllowed, PolicyAllows, is_legacy,
                            supports_key_commitment, w
<1> QED
  BY <1>9, <1>10

\* Complete metadata of a permitted write is accepted, and its body deciphered.
LEMMA CompleteDecrypts ==
  ASSUME NEW m, NEW n, NEW w \in Writes, NEW f \in Formats, NEW cfg, NEW ctx,
         KeyPart(m, n, w, f), ContentPart(m, n, w, f), DOMAIN m \cap Marking = Marks(f),
         Permitted(cfg, w), ctx = CallerContext(w)
  PROVE  Accepts(cfg, ctx, m) /\ CommitmentFits(m) /\ Deciphers(m, Body(n, w.suite))
<1> DEFINE mat == DecryptionMaterials(m)
           suite == DetermineAlgorithmSuite(m)
<1>1. /\ IsFormat(m, f) /\ suite = w.suite /\ ~(is_v2_format(m) /\ V3ContentKeys \cap DOMAIN m # {})
  <2>1. CASE f = "v1"
    <3>1. DOMAIN m \cap Marking = {"x-amz-key"}
      BY <2>1, FormatKeys
    <3>2. "x-amz-key" \in DOMAIN m /\ "x-amz-key-v2" \notin DOMAIN m /\ "x-amz-3" \notin DOMAIN m
      BY <3>1, FormatKeys
    <3>3. is_v1_format(m) /\ ~is_v2_format(m) /\ ~is_v3_format(m)
      BY <2>1, <3>2 DEF KeyPart, ContentPart, is_v1_format, is_v2_format, is_v3_format
    <3> QED
      BY <2>1, <3>3 DEF IsFormat, DetermineAlgorithmSuite, ContentPart
  <2>2. CASE f = "v2"
    <3>1. DOMAIN m \cap Marking = {"x-amz-key-v2"}
      BY <2>2, FormatKeys
    <3>2. "x-amz-key-v2" \in DOMAIN m /\ "x-amz-key" \notin DOMAIN m
          /\ V3ContentKeys \cap DOMAIN m = {}
      BY <3>1, FormatKeys DEF V3ContentKeys
    <3>3. is_v2_format(m) /\ ~is_v1_format(m) /\ ~is_v3_format(m)
      BY <2>2, <3>2 DEF KeyPart, ContentPart, is_v1_format, is_v2_format, is_v3_format
    <3> QED
      BY <2>2, <3>2, <3>3 DEF IsFormat, DetermineAlgorithmSuite, ContentPart
  <2>3. CASE f = "v3"
    <3>1. "x-amz-3" \in DOMAIN m /\ "x-amz-key" \notin DOMAIN m /\ "x-amz-key-v2" \notin DOMAIN m
      BY <2>3, FormatKeys
    <3>2. is_v3_format(m) /\ ~is_v1_format(m) /\ ~is_v2_format(m)
      BY <2>3, <3>1 DEF KeyPart, ContentPart, is_v1_format, is_v2_format, is_v3_format
    <3>3. w.suite = KC /\ m["x-amz-c"] = KC
      BY <2>3 DEF KeyPart, ContentPart
    <3> QED
      BY <2>3, <3>2, <3>3 DEF IsFormat, DetermineAlgorithmSuite
  <2> QED
    BY <2>1, <2>2, <2>3 DEF Formats
<1>2. /\ mat.edks = <<DataKey(n, Bound(w))>> /\ mat.wrap = w.wrap /\ mat.stored = Bound(w)
  BY <1>1, MaterialsFound
<1>3. ~has_exclusive_key_collision(m)
  <2>1. \A k \in EncryptedDataKeys \cap DOMAIN m : k \in Marks(f) \cap EncryptedDataKeys
    BY DEF Marking
  <2>2. Marks(f) \cap EncryptedDataKeys = {KeyName(f)}
    BY FormatKeys DEF Formats, EncryptedDataKeys
  <2> QED
    BY <2>1, <2>2 DEF has_exclusive_key_collision
<1>4. w.suite \in AlgorithmSuite /\ LegacyAllowed(cfg, w.suite) /\ PolicyAllows(cfg, w.suite)
  BY DEF Writes, Permitted, LegacyAllowed, PolicyAllows, is_legacy, supports_key_commitment
<1>5. OnDecrypt(cfg, mat, w.suite, ctx)
  <2> HIDE DEF mat
  <2>1. ValidMaterials(mat) /\ KmsDecrypts(mat.edks[1], mat.stored)
    BY <1>2 DEF ValidMaterials, KmsDecrypts, DataKey
  <2>2. CASE w.wrap = "kms+context"
    <3>1. ctx = Without(w.ctx, Reserved) /\ KMS_CONTEXT_DEFAULT_KEY \notin DOMAIN ctx
      <4>1. ctx = Without(w.ctx, Reserved)
        BY <2>2 DEF CallerContext
      <4> QED
        BY <4>1, Restricted DEF Without, Reserved
    <3>2. ContextMatches(mat.stored, ctx)
      BY <1>2, <2>2, <3>1, BoundContexts DEF ContextMatches
    <3>3. Get(mat.stored, KMS_CONTEXT_DEFAULT_KEY, "none") = w.suite
      BY <1>2, <2>2, BoundContexts DEF Get
    <3> QED
      BY <1>2, <2>1, <2>2, <3>2, <3>3 DEF OnDecrypt
  <2>3. CASE w.wrap # "kms+context"
    <3>1. w.wrap = "kms" /\ cfg.legacyWrapping /\ ctx = Empty
      BY <2>3 DEF Permitted, CallerContext
    <3> QED
      BY <1>2, <2>1, <3>1 DEF OnDecrypt
  <2> QED
    BY <2>2, <2>3
<1>6. Accepts(cfg, ctx, m)
  <2> HIDE DEF mat
  <2> QED
    BY <1>1, <1>3, <1>4, <1>5 DEF Accepts, mat
<1>7. CommitmentFits(m) /\ Deciphers(m, Body(n, w.suite))
  <2>1. mat.edks[1].key = n
    BY <1>2 DEF DataKey
  <2>2. w.suite = KC <=> f = "v3"
    BY DEF KeyPart
  <2>3. f = "v3" => /\ V3ContentKeys \subseteq DOMAIN m /\ m["x-amz-i"] = n
                    /\ m["x-amz-d"] = Commitment(n, n)
    BY DEF ContentPart
  <2>4. f # "v3" => "x-amz-iv" \in DOMAIN m /\ m["x-amz-iv"] = n
    BY DEF ContentPart
  <2> QED
    BY <1>1, <2>1, <2>2, <2>3, <2>4 DEF CommitmentFits, Deciphers, Body, V3ContentKeys
<1> QED
  BY <1>6, <1>7

\* The data key of the body's own write deciphers it, once accepted.
LEMMA MatchedDeciphers ==
  ASSUME NEW m, NEW n \in 1..Len(log), NEW cfg, NEW ctx, Gathered(m, n),
         Accepts(cfg, ctx, m), HoldsKeyOf(m, n)
  PROVE  Deciphers(m, Body(n, log[n].suite))
<1> DEFINE w == log[n]
<1>1. DetermineAlgorithmSuite(m) \in AlgorithmSuite /\ ~has_exclusive_key_collision(m)
  BY DEF Accepts
<1>2. PICK f \in Formats : KeyPart(m, n, w, f) /\ ContentPart(m, n, w, f)
  BY DEF Gathered
<1>3. KeyName(f) \in EncryptedDataKeys \cap DOMAIN m
  BY <1>2, FormatKeys DEF KeyPart, Formats, EncryptedDataKeys
<1>4. PICK g \in Formats : IsFormat(m, g) /\ KeyName(g) \in EncryptedDataKeys \cap DOMAIN m
  BY <1>1, SuiteHasFormat
<1>5. g = f
  <2>1. KeyName(g) = KeyName(f)
    BY <1>1, <1>3, <1>4 DEF has_exclusive_key_collision
  <2> QED
    BY <2>1, FormatKeys DEF Formats
<1>6. DecryptionMaterials(m).edks[1].key = n
  <2>1. DecryptionMaterials(m).edks = <<DataKey(n, Bound(w))>>
    BY <1>2, <1>4, <1>5, MaterialsFound
  <2> QED
    BY <2>1 DEF DataKey
<1>7. CASE f = "v1"
  <2>0. is_v1_format(m) /\ ~is_v2_format(m) /\ ~is_v3_format(m)
    BY <1>4, <1>5, <1>7 DEF IsFormat, is_v1_format, is_v2_format, is_v3_format
  <2>1. DetermineAlgorithmSuite(m) = CBC /\ w.suite = CBC
    BY <1>2, <1>7, <2>0 DEF DetermineAlgorithmSuite, ContentPart
  <2>2. "x-amz-iv" \in DOMAIN m /\ m["x-amz-iv"] = n
    BY <1>2, <1>7 DEF ContentPart
  <2> QED
    BY <1>6, <2>1, <2>2 DEF Deciphers, Body, CBC, KC
<1>8. CASE f = "v2"
  <2>1. is_v2_format(m) /\ ~is_v1_format(m) /\ ~is_v3_format(m)
    BY <1>4, <1>5, <1>8 DEF IsFormat, is_v1_format, is_v2_format, is_v3_format
  <2>2. DetermineAlgorithmSuite(m) = w.suite /\ w.suite # KC
    BY <1>2, <1>8, <2>1 DEF DetermineAlgorithmSuite, ContentPart, KeyPart
  <2>3. "x-amz-iv" \in DOMAIN m /\ m["x-amz-iv"] = n
    BY <1>2, <1>8 DEF ContentPart
  <2> QED
    BY <1>6, <2>2, <2>3 DEF Deciphers, Body
<1>9. CASE f = "v3"
  <2>1. is_v3_format(m) /\ ~is_v1_format(m) /\ ~is_v2_format(m)
    BY <1>4, <1>5, <1>9 DEF IsFormat, is_v1_format, is_v2_format, is_v3_format
  <2>2. DetermineAlgorithmSuite(m) = KC /\ w.suite = KC
    BY <1>2, <1>9, <2>1 DEF DetermineAlgorithmSuite, ContentPart, KeyPart
  <2>3. "x-amz-i" \in DOMAIN m /\ m["x-amz-i"] = n
    BY <1>2, <1>9 DEF ContentPart, V3ContentKeys
  <2> QED
    BY <1>6, <2>2, <2>3 DEF Deciphers, Body
<1> QED
  BY <1>7, <1>8, <1>9 DEF Formats

\* A body that does not decipher under metadata that is accepted and whose
\* commitment fits: not as V3, and only as V1 if its own suite commits.
LEMMA MixedBody ==
  ASSUME NEW m, NEW n \in 1..Len(log), NEW cfg, NEW ctx, Gathered(m, n),
         Accepts(cfg, ctx, m), CommitmentFits(m), ~Deciphers(m, Body(n, log[n].suite)),
         DetermineAlgorithmSuite(m) = CBC \/ cfg.delayedAuth
  PROVE  /\ cfg.policy # "REQUIRE_ENCRYPT_REQUIRE_DECRYPT"
         /\ cfg.legacyModes \/ (cfg.delayedAuth /\ log[n].suite # KC)
<1> DEFINE w == log[n]
           suite == DetermineAlgorithmSuite(m)
<1>1. /\ suite \in AlgorithmSuite /\ LegacyAllowed(cfg, suite) /\ PolicyAllows(cfg, suite)
      /\ ~(is_v2_format(m) /\ V3ContentKeys \cap DOMAIN m # {})
  BY DEF Accepts
<1>2. ASSUME w.suite = KC PROVE ContentPart(m, n, w, "v3") /\ V3ContentKeys \subseteq DOMAIN m
  BY <1>2 DEF Gathered, ContentPart
<1>3. ~is_v3_format(m)
  <2> SUFFICES ASSUME is_v3_format(m) PROVE FALSE
    OBVIOUS
  <2>1. w.suite = KC
    BY DEF Gathered
  <2>2. m["x-amz-c"] = KC /\ m["x-amz-i"] = n /\ m["x-amz-d"] = Commitment(n, n)
    BY <1>2, <2>1 DEF ContentPart
  <2>3. ~is_v1_format(m) /\ ~is_v2_format(m)
    BY DEF is_v1_format, is_v2_format, is_v3_format
  <2>4. suite = KC
    BY <2>2, <2>3 DEF DetermineAlgorithmSuite
  <2>5. m["x-amz-d"] = Commitment(DecryptionMaterials(m).edks[1].key, n)
    BY <2>2, <2>4 DEF CommitmentFits
  <2>6. DecryptionMaterials(m).edks[1].key = n
    BY <2>2, <2>5 DEF Commitment
  <2>7. "x-amz-i" \in DOMAIN m
    BY DEF is_v3_format, V3ContentKeys
  <2> QED
    BY <2>1, <2>2, <2>4, <2>6, <2>7 DEF Deciphers, Body
<1>4. is_v1_format(m) \/ is_v2_format(m)
  <2>1. "none" \notin AlgorithmSuite
    BY DEF AlgorithmSuite, CBC, GCM, KC
  <2> QED
    BY <1>1, <1>3, <2>1 DEF DetermineAlgorithmSuite
<1>5. CASE is_v1_format(m)
  <2>0. ~is_v2_format(m) /\ ~is_v3_format(m)
    BY <1>5 DEF is_v1_format, is_v2_format, is_v3_format
  <2>1. suite = CBC
    BY <1>5, <2>0 DEF DetermineAlgorithmSuite
  <2> QED
    BY <1>1, <2>1 DEF LegacyAllowed, PolicyAllows, is_legacy, supports_key_commitment, CBC, KC
<1>6. CASE ~is_v1_format(m)
  <2>1. w.suite # KC
    BY <1>1, <1>2, <1>4, <1>6 DEF V3ContentKeys
  <2>2. suite # KC
    BY <1>1, <1>4, <1>6 DEF CommitmentFits, V3ContentKeys
  <2> QED
    BY <1>1, <2>1, <2>2 DEF LegacyAllowed, PolicyAllows, is_legacy, supports_key_commitment
<1> QED
  BY <1>5, <1>6

-----------------------------------------------------------------------------
(* The inductive invariant *)

\* What is said of a read that has ended.
Released == /\ ReadHonoursConfig /\ ContextBinding
            /\ MixUpsNeedOptIn /\ PermittedReadSucceeds

IInv == TypeOK /\ WritesInv /\ Released

\* A read that has begun holds the object's request of some write.
LEMMA ReadHolds ==
  ASSUME TypeOK, WritesInv, rd.pc # "idle"
  PROVE  LET n == rd.obj.body.key IN
         /\ ObjectRequest(rd.obj) /\ n \in 1..Len(log) /\ log[n] \in Writes
         /\ rd.obj.body = Body(n, log[n].suite)
<1>1. rd.obj \in wire /\ rd.obj.at = "object"
  BY DEF TypeOK
<1>2. ObjectRequest(rd.obj)
  BY <1>1 DEF WritesInv
<1>3. rd.obj.body.key \in 1..Len(log) /\ rd.obj.body = Body(rd.obj.body.key, log[rd.obj.body.key].suite)
  BY <1>2 DEF ObjectRequest
<1> QED
  BY <1>2, <1>3 DEF TypeOK

\* What a read has gathered keeps its meaning as the log grows.
LEMMA GatheredKept ==
  ASSUME TypeOK, LogGrows, NEW m, NEW n \in 1..Len(log), Gathered(m, n)
  PROVE  Gathered(m, n)'
<1>1. log'[n] = log[n]
  BY DEF LogGrows
<1>2. ASSUME ~has_exclusive_key_collision(m), NEW k \in EncryptedDataKeys \cap DOMAIN m
      PROVE  \E j \in 1..Len(log'), f \in Formats : k = KeyName(f) /\ KeyPart(m, j, log'[j], f)
  <2>1. PICK j \in 1..Len(log), f \in Formats : k = KeyName(f) /\ KeyPart(m, j, log[j], f)
    BY <1>2 DEF Gathered
  <2>2. j \in 1..Len(log') /\ log'[j] = log[j]
    BY DEF LogGrows
  <2> QED
    BY <2>1, <2>2
<1>3. ASSUME HoldsKeyOf(m, n)
      PROVE  \E f \in Formats :
               /\ KeyPart(m, n, log'[n], f) /\ ContentPart(m, n, log'[n], f)
               /\ log'[n].stray \cap Marking = {} => DOMAIN m \cap Marking = Marks(f)
  BY <1>1, <1>3 DEF Gathered
<1>4. IF log'[n].suite = KC THEN ContentPart(m, n, log'[n], "v3") ELSE ~is_v3_format(m)
  BY <1>1 DEF Gathered
<1> QED
  BY <1>2, <1>3, <1>4 DEF Gathered

\* A write leaves every read as it was.
LEMMA WriteStep ==
  ASSUME IInv, LogGrows, WireInv', wire \subseteq wire', UNCHANGED <<object, instr, rd>>
  PROVE  IInv'
<1> USE DEF IInv
<1>1. TypeOK'
  <2>1. log' \in Seq(Writes)
    BY DEF LogGrows
  <2>2. rd # [pc |-> "idle"] =>
          rd \in [pc: {"instr", "decrypt", "ended"}, cfg: Config, ctx: Contexts,
                  obj: {r \in wire' : r.at = "object"}, meta: {rd.meta},
                  out: {"none", "plain", "garbage", "rejected", "failed"}]
    BY DEF TypeOK
  <2> QED
    BY <2>1, <2>2 DEF TypeOK
<1>2. CASE rd.pc = "idle"
  BY <1>1, <1>2 DEF WritesInv, WireInv, ReadInv, Released, ReadHonoursConfig, ContextBinding,
                    MixUpsNeedOptIn, PermittedReadSucceeds
<1>3. CASE rd.pc # "idle"
  <2> DEFINE n == rd.obj.body.key
  <2>1. n \in 1..Len(log) /\ log'[n] = log[n]
    BY <1>3, ReadHolds DEF LogGrows
  <2>2. rd.pc = "decrypt" => Gathered(rd.meta, n)'
    BY <2>1, GatheredKept DEF WritesInv, ReadInv
  <2>3. WritesInv'
    BY <2>2 DEF WritesInv, WireInv, ReadInv
  <2>4. Source' = Source
    BY <2>1 DEF Source
  <2>5. Released'
    BY <2>4 DEF Released, ReadHonoursConfig, ContextBinding,
                MixUpsNeedOptIn, PermittedReadSucceeds, Matched
  <2> QED
    BY <1>1, <2>3, <2>5
<1> QED
  BY <1>2, <1>3

\* What has to hold of the outcome for a call to end with it.
Outcome(out) ==
  /\ out \in {"plain", "garbage", "rejected", "failed"}
  /\ out = "plain" => Permitted(rd.cfg, Source) /\ rd.ctx = CallerContext(Source)
  /\ out = "garbage" => /\ ~Matched /\ rd.cfg.policy # "REQUIRE_ENCRYPT_REQUIRE_DECRYPT"
                        /\ rd.cfg.legacyModes \/ (rd.cfg.delayedAuth /\ Source.suite # KC)
  /\ out \in {"rejected", "garbage"} =>
       ~(/\ Matched /\ Permitted(rd.cfg, Source) /\ rd.ctx = CallerContext(Source)
         /\ Source.stray \cap (EncryptedDataKeys \cup V3ContentKeys) = {})

\* A call may end with an outcome of which that holds.
LEMMA EndStep ==
  ASSUME IInv, NEW out, Outcome(out), rd.pc \in {"instr", "decrypt"}, End(out),
         UNCHANGED <<log, wire, object, instr>>
  PROVE  IInv'
<1> USE DEF IInv
<1>1. rd \in [pc: {"instr", "decrypt", "ended"}, cfg: Config, ctx: Contexts,
              obj: {r \in wire : r.at = "object"}, meta: {rd.meta},
              out: {"none", "plain", "garbage", "rejected", "failed"}]
  BY DEF TypeOK
<1>2. /\ rd' = [rd EXCEPT !.pc = "ended", !.out = out] /\ rd'.pc = "ended" /\ rd'.out = out
      /\ rd'.cfg = rd.cfg /\ rd'.ctx = rd.ctx /\ rd'.obj = rd.obj /\ rd'.meta = rd.meta
  BY <1>1 DEF End
<1>3. rd' \in [pc: {"instr", "decrypt", "ended"}, cfg: Config, ctx: Contexts,
               obj: {r \in wire : r.at = "object"}, meta: {rd'.meta},
               out: {"none", "plain", "garbage", "rejected", "failed"}]
  BY <1>1, <1>2 DEF Outcome
<1>4. TypeOK'
  BY <1>3 DEF TypeOK
<1>5. WritesInv'
  <2>1. WireInv'
    BY DEF WritesInv, WireInv, ObjectRequest, FileRequest
  <2> QED
    BY <1>2, <2>1 DEF WritesInv, WireInv, ReadInv
<1>6. Source' = Source /\ Matched' = Matched
  BY <1>2 DEF Source, Matched
<1>7. Released'
  BY <1>2, <1>6 DEF Outcome, Released, ReadHonoursConfig, ContextBinding,
                    MixUpsNeedOptIn, PermittedReadSucceeds
<1> QED
  BY <1>4, <1>5, <1>7

\* A permitted read that holds the data key of its write, with no stray map
\* keys in its way, is about to decrypt and succeeds.
LEMMA PermittedDecrypts ==
  ASSUME IInv, rd.pc \in {"instr", "decrypt"},
         Matched, Permitted(rd.cfg, Source), rd.ctx = CallerContext(Source),
         Source.stray \cap (EncryptedDataKeys \cup V3ContentKeys) = {}
  PROVE  /\ rd.pc = "decrypt" /\ Accepts(rd.cfg, rd.ctx, rd.meta)
         /\ CommitmentFits(rd.meta) /\ Deciphers(rd.meta, rd.obj.body)
<1> USE DEF IInv
<1>0. PICK n : n = rd.obj.body.key
  OBVIOUS
<1>1. PICK w : w = log[n]
  OBVIOUS
<1>2. /\ ObjectRequest(rd.obj) /\ n \in 1..Len(log) /\ w \in Writes
      /\ rd.obj.body = Body(n, w.suite) /\ Source = w /\ w.stray \cap Marking = {}
      /\ HoldsKeyOf(rd.meta, n)
  BY <1>0, <1>1, ReadHolds DEF Source, Marking, Matched
<1>3. ASSUME rd.pc = "instr" PROVE FALSE
  <2>1. rd.meta = rd.obj.meta /\ should_use_instruction_file(rd.meta)
    BY <1>3 DEF WritesInv, ReadInv
  <2>2. EncryptedDataKeys \cap DOMAIN rd.meta # {}
    BY <1>2 DEF HoldsKeyOf
  <2>3. V3ContentKeys \subseteq DOMAIN rd.meta /\ "x-amz-3" \notin DOMAIN rd.meta
    BY <2>1, <2>2 DEF should_use_instruction_file, is_v3_in_object_metadata
  <2>4. DOMAIN rd.meta # V3ContentKeys /\ DOMAIN rd.meta # {}
    BY <2>2 DEF EncryptedDataKeys, V3ContentKeys
  <2>5. PICK f \in Formats : KeyPart(rd.meta, n, w, f) /\ (DOMAIN rd.meta \cap Marking) \ Marks(f) \subseteq w.stray
    BY <1>0, <1>1, <1>2, <2>1, <2>4 DEF ObjectRequest
  <2>6. KeyName(f) \in DOMAIN rd.meta
    BY <2>5 DEF KeyPart
  <2>7. f # "v3"
    BY <2>3, <2>6, FormatKeys
  <2>8. "x-amz-c" \in DOMAIN rd.meta \cap Marking /\ "x-amz-c" \notin Marks(f)
    BY <2>3, <2>7, FormatKeys DEF V3ContentKeys, Formats
  <2> QED
    BY <1>2, <2>5, <2>8
<1>4. rd.pc = "decrypt"
  BY <1>3
<1>5. PICK f \in Formats : /\ KeyPart(rd.meta, n, w, f) /\ ContentPart(rd.meta, n, w, f)
                           /\ DOMAIN rd.meta \cap Marking = Marks(f)
  BY <1>0, <1>1, <1>2, <1>4 DEF WritesInv, ReadInv, Gathered
<1>6. /\ Accepts(rd.cfg, rd.ctx, rd.meta) /\ CommitmentFits(rd.meta)
      /\ Deciphers(rd.meta, Body(n, w.suite))
  BY <1>2, <1>5, CompleteDecrypts
<1> QED
  BY <1>2, <1>4, <1>6

-----------------------------------------------------------------------------
(* Every step *)

\* The first request: all that is needed, or a file to be looked for.
LEMMA GetStep ==
  ASSUME IInv, NEW cfg \in Config, NEW ctx \in Contexts, GetObject(cfg, ctx)
  PROVE  IInv'
<1> USE DEF IInv
<1>1. object \in wire /\ object.at = "object"
  BY DEF TypeOK, GetObject
<1>2. ObjectRequest(object)
  BY <1>1 DEF WritesInv
<1> DEFINE next == IF should_use_instruction_file(object.meta) THEN "instr" ELSE "decrypt"
<1>3. /\ rd' = Reading(next, cfg, ctx, object, object.meta, "none")
      /\ UNCHANGED <<log, wire, object, instr>>
  BY DEF GetObject
<1>4. /\ rd'.pc = next /\ rd'.obj = object /\ rd'.meta = object.meta /\ rd'.out = "none"
  BY <1>3 DEF Reading
<1>5. TypeOK'
  <2>1. rd' \in [pc: {"instr", "decrypt", "ended"}, cfg: Config, ctx: Contexts,
                 obj: {r \in wire : r.at = "object"}, meta: {rd'.meta},
                 out: {"none", "plain", "garbage", "rejected", "failed"}]
    BY <1>1, <1>3, <1>4 DEF Reading
  <2> QED
    BY <1>3, <2>1 DEF TypeOK
<1>6. WireInv'
  BY <1>3 DEF WritesInv, WireInv, ObjectRequest, FileRequest
<1>7. next = "decrypt" => Gathered(object.meta, object.body.key)'
  <2>1. next = "decrypt" => Gathered(object.meta, object.body.key)
    BY <1>2, ReadAlone
  <2> QED
    BY <1>3, <2>1 DEF Gathered
<1>8. WritesInv'
  BY <1>1, <1>3, <1>4, <1>6, <1>7 DEF WritesInv, WireInv, ReadInv
<1>9. Released'
  BY <1>4 DEF Released, ReadHonoursConfig, ContextBinding,
              MixUpsNeedOptIn, PermittedReadSucceeds
<1> QED
  BY <1>5, <1>8, <1>9

\* The second request: whatever file is there now, of this write or another.
LEMMA FetchStep ==
  ASSUME IInv, FetchInstructionFile
  PROVE  IInv'
<1> USE DEF IInv
<1>1. /\ rd.pc = "instr" /\ instr # NoObject /\ ValidInstructionFile(instr, rd.obj)
      /\ UNCHANGED <<log, wire, object, instr>>
  BY DEF FetchInstructionFile, InstructionFileFound
<1>2. rd \in [pc: {"instr", "decrypt", "ended"}, cfg: Config, ctx: Contexts,
              obj: {r \in wire : r.at = "object"}, meta: {rd.meta},
              out: {"none", "plain", "garbage", "rejected", "failed"}]
  BY <1>1 DEF TypeOK
<1>3. PICK m : m = rd.obj.meta @@ FileMetadata(instr)
  OBVIOUS
<1>4. /\ rd' = [rd EXCEPT !.pc = "decrypt", !.meta = m]
      /\ rd'.pc = "decrypt" /\ rd'.meta = m /\ rd'.obj = rd.obj
  BY <1>2, <1>3 DEF FetchInstructionFile
<1>5. TypeOK'
  <2>1. rd' \in [pc: {"instr", "decrypt", "ended"}, cfg: Config, ctx: Contexts,
                 obj: {r \in wire : r.at = "object"}, meta: {rd'.meta},
                 out: {"none", "plain", "garbage", "rejected", "failed"}]
    BY <1>2, <1>4
  <2> QED
    BY <1>1, <2>1 DEF TypeOK
<1>6. ObjectRequest(rd.obj) /\ should_use_instruction_file(rd.obj.meta)
  BY <1>1, ReadHolds DEF WritesInv, ReadInv
<1>7. FileRequest(instr)
  BY <1>1 DEF TypeOK, WritesInv
<1>8. Gathered(m, rd.obj.body.key)
  BY <1>1, <1>3, <1>6, <1>7, ReadTwo
<1>9. Gathered(m, rd.obj.body.key)'
  BY <1>1, <1>4, <1>8 DEF Gathered
<1>10. WireInv'
  BY <1>1 DEF WritesInv, WireInv, ObjectRequest, FileRequest
<1>11. WritesInv'
  BY <1>1, <1>4, <1>9, <1>10 DEF WritesInv, WireInv, ReadInv
<1>12. Released'
  BY <1>4 DEF Released, ReadHonoursConfig, ContextBinding,
              MixUpsNeedOptIn, PermittedReadSucceeds
<1> QED
  BY <1>5, <1>11, <1>12

\* A request that reaches S3 changes what later reads find, and no read.
LEMMA ArriveStep ==
  ASSUME IInv, NEW r \in wire, Arrive(r)
  PROVE  IInv'
<1> USE DEF IInv
<1>1. UNCHANGED <<log, wire, rd>>
  BY DEF Arrive
<1>2. r.at \in {"object", "instr"}
  BY DEF WritesInv
<1>3. TypeOK'
  BY <1>1, <1>2 DEF TypeOK, Arrive
<1>4. WritesInv'
  BY <1>1 DEF WritesInv, ReadInv, Gathered, ObjectRequest, FileRequest
<1>5. Released'
  BY <1>1 DEF Released, ReadHonoursConfig, ContextBinding, Source, Matched,
              MixUpsNeedOptIn, PermittedReadSucceeds
<1> QED
  BY <1>3, <1>4, <1>5

\* Every ending of a read has what its outcome needs.
LEMMA EndingStep ==
  ASSUME IInv, \/ FetchInstructionFileRejected \/ DecryptRejected \/ Decrypt
               \/ DecryptFails \/ DecryptGarbage \/ ServiceFails
  PROVE  IInv'
<1>1. CASE FetchInstructionFileRejected
  <2>1. rd.pc = "instr" /\ End("rejected") /\ UNCHANGED <<log, wire, object, instr>>
    BY <1>1 DEF FetchInstructionFileRejected
  <2>2. Outcome("rejected")
    BY <2>1, PermittedDecrypts DEF Outcome
  <2> QED
    BY <2>1, <2>2, EndStep
<1>2. CASE DecryptRejected
  <2>1. /\ rd.pc = "decrypt" /\ End("rejected") /\ UNCHANGED <<log, wire, object, instr>>
        /\ ~Accepts(rd.cfg, rd.ctx, rd.meta)
    BY <1>2 DEF DecryptRejected
  <2>2. Outcome("rejected")
    BY <2>1, PermittedDecrypts DEF Outcome
  <2> QED
    BY <2>1, <2>2, EndStep
<1>3. CASE Decrypt
  <2>1. /\ rd.pc = "decrypt" /\ End("plain") /\ UNCHANGED <<log, wire, object, instr>>
        /\ Accepts(rd.cfg, rd.ctx, rd.meta) /\ Deciphers(rd.meta, rd.obj.body)
    BY <1>3 DEF Decrypt
  <2>2. PICK n : n = rd.obj.body.key
    OBVIOUS
  <2>3. n \in 1..Len(log) /\ rd.obj.body = Body(n, log[n].suite) /\ Gathered(rd.meta, n)
    BY <2>1, <2>2, ReadHolds DEF IInv, WritesInv, ReadInv
  <2>4. Permitted(rd.cfg, log[n]) /\ rd.ctx = CallerContext(log[n])
    BY <2>1, <2>3, DecryptsPermitted
  <2>5. Outcome("plain")
    BY <2>2, <2>4 DEF Outcome, Source
  <2> QED
    BY <2>1, <2>5, EndStep
<1>4. CASE DecryptFails
  <2>1. /\ rd.pc = "decrypt" /\ End("rejected") /\ UNCHANGED <<log, wire, object, instr>>
        /\ ~(CommitmentFits(rd.meta) /\ Deciphers(rd.meta, rd.obj.body))
    BY <1>4 DEF DecryptFails
  <2>2. Outcome("rejected")
    BY <2>1, PermittedDecrypts DEF Outcome
  <2> QED
    BY <2>1, <2>2, EndStep
<1>5. CASE DecryptGarbage
  <2>1. /\ rd.pc = "decrypt" /\ End("garbage") /\ UNCHANGED <<log, wire, object, instr>>
        /\ Accepts(rd.cfg, rd.ctx, rd.meta) /\ CommitmentFits(rd.meta)
        /\ ~Deciphers(rd.meta, rd.obj.body)
        /\ DetermineAlgorithmSuite(rd.meta) = CBC \/ rd.cfg.delayedAuth
    BY <1>5 DEF DecryptGarbage
  <2>2. PICK n : n = rd.obj.body.key
    OBVIOUS
  <2>3. n \in 1..Len(log) /\ rd.obj.body = Body(n, log[n].suite) /\ Gathered(rd.meta, n)
    BY <2>1, <2>2, ReadHolds DEF IInv, WritesInv, ReadInv
  <2>4. ~HoldsKeyOf(rd.meta, n)
    BY <2>1, <2>3, MatchedDeciphers
  <2>5. /\ rd.cfg.policy # "REQUIRE_ENCRYPT_REQUIRE_DECRYPT"
        /\ rd.cfg.legacyModes \/ (rd.cfg.delayedAuth /\ log[n].suite # KC)
    BY <2>1, <2>3, MixedBody
  <2>6. Outcome("garbage")
    BY <2>2, <2>4, <2>5 DEF Outcome, Source, Matched
  <2> QED
    BY <2>1, <2>6, EndStep
<1>6. CASE ServiceFails
  <2>1. /\ rd.pc \in {"instr", "decrypt"} /\ End("failed") /\ UNCHANGED <<log, wire, object, instr>>
    BY <1>6 DEF ServiceFails
  <2>2. Outcome("failed")
    BY DEF Outcome
  <2> QED
    BY <2>1, <2>2, EndStep
<1> QED
  BY <1>1, <1>2, <1>3, <1>4, <1>5, <1>6

\* A key that was never written, and a client that has not read.
LEMMA Initially == ASSUME Init PROVE IInv
BY DEF Init, IInv, TypeOK, WritesInv, ReadInv, Released, ReadHonoursConfig, ContextBinding,
       MixUpsNeedOptIn, PermittedReadSucceeds

\* No step of a writer, of S3 or of a reader disturbs it.
LEMMA NextStep ==
  ASSUME IInv, [Next]_vars
  PROVE  IInv'
<1>0. TypeOK /\ WireInv
  BY DEF IInv, WritesInv, WireInv
<1>1. ASSUME NEW suite \in AlgorithmSuite, NEW policy \in CommitmentPolicy, NEW ctx \in Contexts,
             NEW user \in UserMetadata,
             PutObject(suite, policy, ctx, user) \/ CreateMultipartUpload(suite, policy, ctx, user)
      PROVE  IInv'
  <2>1. LogGrows /\ WireInv'
    BY <1>0, <1>1, SendStep
  <2>2. wire \subseteq wire' /\ UNCHANGED <<object, instr, rd>>
    BY <1>1 DEF PutObject, CreateMultipartUpload, Send
  <2> QED
    BY <2>1, <2>2, WriteStep
<1>2. ASSUME NEW f \in ForeignFormats, NEW file \in BOOLEAN, ForeignPut(f[1], f[2], f[3], file)
      PROVE  IInv'
  <2>1. LogGrows /\ WireInv'
    BY <1>0, <1>2, ForeignStep
  <2>2. wire \subseteq wire' /\ UNCHANGED <<object, instr, rd>>
    BY <1>2 DEF ForeignPut
  <2> QED
    BY <2>1, <2>2, WriteStep
<1>3. CASE PutOther
  <2>1. LogGrows /\ WireInv'
    BY <1>0, <1>3, OtherStep
  <2>2. wire \subseteq wire' /\ UNCHANGED <<object, instr, rd>>
    BY <1>3 DEF PutOther
  <2> QED
    BY <2>1, <2>2, WriteStep
<1>4. ASSUME NEW r \in wire, Arrive(r) PROVE IInv'
  BY <1>4, ArriveStep
<1>5. ASSUME NEW cfg \in Config, NEW ctx \in Contexts, GetObject(cfg, ctx) PROVE IInv'
  BY <1>5, GetStep
<1>6. CASE FetchInstructionFile
  BY <1>6, FetchStep
<1>7. CASE \/ FetchInstructionFileRejected \/ DecryptRejected \/ Decrypt
           \/ DecryptFails \/ DecryptGarbage \/ ServiceFails
  BY <1>7, EndingStep
<1>8. CASE UNCHANGED vars
  BY <1>8 DEF vars, IInv, TypeOK, WritesInv, ReadInv, Gathered, ObjectRequest, FileRequest,
              Released, ReadHonoursConfig, ContextBinding, MixUpsNeedOptIn,
              PermittedReadSucceeds, Source, Matched
<1> QED
  BY <1>1, <1>2, <1>3, <1>4, <1>5, <1>6, <1>7, <1>8 DEF Next

-----------------------------------------------------------------------------
(* Theorems *)

\* The invariant the six theorems below are parts of.
THEOREM Invariance == Spec => []IInv
<1>1. Init => IInv
  BY Initially
<1>2. IInv /\ [Next]_vars => IInv'
  BY NextStep
<1> QED
  BY <1>1, <1>2, PTL DEF Spec

\* S3 holds nothing under the key or its instruction file's name that was not
\* sent there, and get_object's locals are of one response.
THEOREM ObjectsTyped == Spec => []TypeOK
<1>1. IInv => TypeOK
  BY DEF IInv
<1> QED
  BY <1>1, Invariance, PTL

\* Every PUT request, of put_object, create_multipart_upload or another
\* language's client, is that of one write, and what decrypt works on pairs a
\* data key with what its own write was wrapped by, for any number of writes,
\* retries and arrivals in any order.
THEOREM RequestsOfOneWrite == Spec => []WritesInv
<1>1. IInv => WritesInv
  BY DEF IInv
<1> QED
  BY <1>1, Invariance, PTL

\* GetEncryptedObjectPipeline.decrypt releases plaintext only of a body that
\* was encrypted as the reading client's policy and legacy settings allow,
\* although it only looks at metadata of two separate requests.
THEOREM ReadsHonourConfig == Spec => []ReadHonoursConfig
<1>1. IInv => ReadHonoursConfig
  BY DEF IInv, Released
<1> QED
  BY <1>1, Invariance, PTL

\* KmsKeyring.on_decrypt lets a read succeed only with the encryption context
\* of the write whose body was fetched.
THEOREM ContextsBound == Spec => []ContextBinding
<1>1. IInv => ContextBinding
  BY DEF IInv, Released
<1> QED
  BY <1>1, Invariance, PTL

\* An object and an instruction file of different writes release bytes only to
\* a client with enable_legacy_unauthenticated_modes, or with
\* enable_delayed_authentication and a body whose suite does not commit, and to
\* none whose policy requires commitment: verify_commitment comes first.
THEOREM MixUpsAreOptedInto == Spec => []MixUpsNeedOptIn
<1>1. IInv => MixUpsNeedOptIn
  BY DEF IInv, Released
<1> QED
  BY <1>1, Invariance, PTL

\* None of the checks of get_object refuses a read that is permitted, passes
\* the right context and has found the data key of its object's write.
THEOREM PermittedReadsSucceed == Spec => []PermittedReadSucceeds
<1>1. IInv => PermittedReadSucceeds
  BY DEF IInv, Released
<1> QED
  BY <1>1, Invariance, PTL
=============================================================================
