--------------------------- MODULE EncryptedObject ---------------------------
(***************************************************************************)
(* put_object and get_object on one S3 key: PutEncryptedObjectPipeline,    *)
(* KmsKeyring and GetEncryptedObjectPipeline, with S3, KMS and the S3      *)
(* encryption clients of other languages as the environment.               *)
(*                                                                         *)
(* The number of a write stands for all that is fresh in it: its data key, *)
(* its IV or message ID, and its plaintext.  An encrypted data key carries *)
(* the encryption context KMS bound it to.  A body is what some suite made *)
(* under one data key and IV.  Algorithm suites are named by the value of  *)
(* x-amz-cek-alg or x-amz-c that stands for them.                          *)
(*                                                                         *)
(* A PUT request may reach S3 at any time after it was sent, more than     *)
(* once when it is retried, or never.  The object and its instruction file *)
(* are two S3 objects, written and read by separate requests.  One read    *)
(* is enough: reads change nothing that another read could see.            *)
(***************************************************************************)
EXTENDS ObjectMetadata, Naturals, Sequences

CONSTANTS
  Contexts,   \* encryption contexts callers pass (dicts)
  Policies,   \* the commitment policies of reading clients
  MaxWrites   \* bound: how many writes there are

VARIABLES
  log,      \* what each write was
  wire,     \* PUT requests sent so far
  object,   \* the S3 object under the key, or NoObject
  instr,    \* the S3 object under the key with the instruction suffix
  rd        \* the reader's get_object call

vars == <<log, wire, object, instr, rd>>

NoObject == [at |-> "nowhere"]

-----------------------------------------------------------------------------
(* Algorithm suites, policies and configurations *)

CBC == "AES/CBC/PKCS5Padding"
GCM == "AES/GCM/NoPadding"
KC == "115"                       \* ALG_AES_256_GCM_HKDF_SHA512_COMMIT_KEY
AlgorithmSuite == {CBC, GCM, KC}

is_legacy(suite) == suite = CBC
supports_key_commitment(suite) == suite = KC

CommitmentPolicy == {"FORBID_ENCRYPT_ALLOW_DECRYPT", "REQUIRE_ENCRYPT_ALLOW_DECRYPT",
                     "REQUIRE_ENCRYPT_REQUIRE_DECRYPT"}

ASSUME PolicyAssumption == Policies \subseteq CommitmentPolicy
ASSUME MaxWritesAssumption == MaxWrites \in Nat

\* S3EncryptionClientConfig.__attrs_post_init__ accepts suite under policy.
ValidConfig(suite, policy) ==
  /\ ~is_legacy(suite)
  /\ supports_key_commitment(suite) <=> policy # "FORBID_ENCRYPT_ALLOW_DECRYPT"

\* What a reading client is configured with.
Config == [policy: Policies,
           legacyModes: BOOLEAN,      \* enable_legacy_unauthenticated_modes
           legacyWrapping: BOOLEAN,   \* enable_legacy_wrapping_algorithms
           delayedAuth: BOOLEAN,      \* enable_delayed_authentication
           disableInstr: BOOLEAN]     \* instruction_file_config.disable_get_object

KMS_CONTEXT_DEFAULT_KEY == "aws:x-amz-cek-alg"
KMS_V1_DEFAULT_KEY == "kms_cmk_id"
Reserved == {KMS_V1_DEFAULT_KEY, KMS_CONTEXT_DEFAULT_KEY}

-----------------------------------------------------------------------------
(* Writing *)

\* KmsKeyring.on_encrypt: the suite becomes part of the context ...
OnEncryptContext(ctx, suite) == KMS_CONTEXT_DEFAULT_KEY :> suite @@ ctx

\* ... that GenerateDataKey binds the encrypted key to (external: KMS).
DataKey(n, ctx) == [key |-> n, ctx |-> ctx]

Body(n, suite) == [key |-> n, iv |-> n, suite |-> suite]

\* derive_keys: the commitment is a function of data key and message ID.
Commitment(key, messageId) == <<key, messageId>>

\* PutEncryptedObjectPipeline._encrypt_gcm and _encrypt_kc_gcm.
EncryptGcm(n, edk) ==
  "x-amz-key-v2" :> edk @@ "x-amz-wrap-alg" :> "kms+context" @@ "x-amz-iv" :> n
    @@ "x-amz-cek-alg" :> GCM @@ "x-amz-matdesc" :> edk.ctx @@ "x-amz-tag-len" :> "128"

EncryptKcGcm(n, edk) ==
  "x-amz-c" :> KC @@ "x-amz-w" :> "12" @@ "x-amz-3" :> edk @@ "x-amz-i" :> n
    @@ "x-amz-d" :> Commitment(n, n) @@ "x-amz-t" :> edk.ctx

\* A PUT request for the object, or for its instruction file.
PutBody(meta, body) == [at |-> "object", meta |-> meta, body |-> body]
PutFile(meta, content) == [at |-> "instr", meta |-> meta, content |-> content]

\* stray: map keys in the object's metadata that the write did not make.
Write(suite, wrap, ctx, stray) ==
  [suite |-> suite, wrap |-> wrap, ctx |-> ctx, stray |-> stray]

\* The Metadata of a caller's put: none, or what a get_object or head_object
\* of the object has returned, kept as the object is written anew.
UserMetadata == {Empty} \cup {o.meta : o \in {object} \ {NoObject}}

\* PutEncryptedObjectPipeline.encrypt: materials, then the suite's format.
EncryptionMetadata(n, suite, ctx) ==
  LET edk == DataKey(n, OnEncryptContext(ctx, suite)) IN
  IF suite = KC THEN EncryptKcGcm(n, edk) ELSE EncryptGcm(n, edk)

\* The second copy left behind when the committing suite came (mutant).
MultipartMetadata_gcm(n, suite, ctx) == EncryptGcm(n, DataKey(n, OnEncryptContext(ctx, suite)))

\* MultipartUploadPipeline.__attrs_post_init__, _init_gcm and _init_kc_gcm: a
\* second copy of that code, for an object that is sent in parts.
MultipartMetadata(n, suite, ctx) ==
  LET edk == DataKey(n, OnEncryptContext(ctx, suite))
      gcm == "x-amz-key-v2" :> edk @@ "x-amz-wrap-alg" :> "kms+context" @@ "x-amz-iv" :> n
               @@ "x-amz-cek-alg" :> GCM @@ "x-amz-matdesc" :> edk.ctx @@ "x-amz-tag-len" :> "128"
      kc == "x-amz-c" :> KC @@ "x-amz-w" :> "12" @@ "x-amz-3" :> edk @@ "x-amz-i" :> n
              @@ "x-amz-d" :> Commitment(n, n) @@ "x-amz-t" :> edk.ctx
  IN IF suite = KC THEN kc ELSE gcm

\* The pipeline's metadata replaces the caller's key by key.
Send(n, suite, ctx, meta, user) ==
  /\ n <= MaxWrites
  /\ log' = Append(log, Write(suite, "kms+context", ctx, DOMAIN user \ DOMAIN meta))
  /\ wire' = wire \cup {PutBody(meta @@ user, Body(n, suite))}
  /\ UNCHANGED <<object, instr, rd>>

\* put_object of a client configured with suite and policy.
PutObject(suite, policy, ctx, user) ==
  LET n == Len(log) + 1 IN
  /\ ValidConfig(suite, policy)
  /\ Send(n, suite, ctx, EncryptionMetadata(n, suite, ctx), user)

\* create_multipart_upload fixes the metadata of an object that the completion
\* of the upload makes visible (MultipartUpload has the parts).
CreateMultipartUpload(suite, policy, ctx, user) ==
  LET n == Len(log) + 1 IN
  /\ ValidConfig(suite, policy)
  /\ Send(n, suite, ctx, MultipartMetadata(n, suite, ctx), user)

\* What clients of other languages write: the metadata of format V1, V2, V3.
ForeignMetadata(n, format, suite, wrap, edk) ==
  CASE format = "v1" ->
         "x-amz-key" :> edk @@ "x-amz-iv" :> n @@ "x-amz-matdesc" :> edk.ctx
           @@ "x-amz-wrap-alg" :> wrap
    [] format = "v2" ->
         "x-amz-key-v2" :> edk @@ "x-amz-iv" :> n @@ "x-amz-matdesc" :> edk.ctx
           @@ "x-amz-wrap-alg" :> wrap @@ "x-amz-cek-alg" :> suite
    [] format = "v3" ->
         "x-amz-c" :> suite @@ "x-amz-d" :> Commitment(n, n) @@ "x-amz-i" :> n
           @@ "x-amz-3" :> edk
           @@ IF wrap = "kms+context" THEN "x-amz-w" :> "12" @@ "x-amz-t" :> edk.ctx
                                      ELSE "x-amz-w" :> "02" @@ "x-amz-m" :> edk.ctx

ForeignFormats ==
  {<<"v1", CBC, "kms">>, <<"v2", CBC, "kms">>, <<"v2", GCM, "kms">>,
   <<"v2", GCM, "kms+context">>, <<"v3", KC, "kms+context">>, <<"v3", KC, "AES/GCM">>}

\* With an instruction file, V1 and V2 keep nothing in the object's metadata
\* and V3 its content keys; file and object are two requests.
ForeignPut(format, suite, wrap, file) ==
  LET n == Len(log) + 1
      ctx == IF wrap = "kms+context" THEN KMS_CONTEXT_DEFAULT_KEY :> suite
                                     ELSE KMS_V1_DEFAULT_KEY :> "key"
      meta == ForeignMetadata(n, format, suite, wrap, DataKey(n, ctx))
      body == Body(n, suite)
  IN
  /\ n <= MaxWrites
  /\ log' = Append(log, Write(suite, wrap, Empty, {}))
  /\ wire' = wire \cup
       IF file THEN {PutBody(Restrict(meta, V3ContentKeys \cap DOMAIN meta), body),
                     PutFile("x-amz-crypto-instr-file" :> "", Without(meta, V3ContentKeys))}
               ELSE {PutBody(meta, body)}
  /\ UNCHANGED <<object, instr, rd>>

\* Something else is stored under the instruction file's name.
PutOther ==
  /\ wire' = wire \cup {PutFile(Empty, "other" :> 0)}
  /\ UNCHANGED <<log, object, instr, rd>>

\* A request reaches S3, for the first time or as a retry.
Arrive(r) ==
  /\ IF r.at = "object" THEN object' = r /\ UNCHANGED instr
                        ELSE instr' = r /\ UNCHANGED object
  /\ UNCHANGED <<log, wire, rd>>

-----------------------------------------------------------------------------
(* Reading *)

\* get_object's locals: the response, the metadata gathered from it and from
\* the instruction file, and how the call ended.
Reading(pc, cfg, ctx, obj, meta, out) ==
  [pc |-> pc, cfg |-> cfg, ctx |-> ctx, obj |-> obj, meta |-> meta, out |-> out]

End(out) == rd' = [rd EXCEPT !.pc = "ended", !.out = out]

\* The first request; a missing object is an error.
GetObject(cfg, ctx) ==
  /\ rd.pc = "idle" /\ object # NoObject
  /\ rd' = Reading(IF should_use_instruction_file(object.meta) THEN "instr" ELSE "decrypt",
                   cfg, ctx, object, object.meta, "none")
  /\ UNCHANGED <<log, wire, object, instr>>

\* process_instruction_file: what the file adds to its own S3 metadata.
FileMetadata(file) == file.content @@ file.meta

\* parse_instruction_file and the checks of fetch_instruction_file and decrypt
\* on the file, and on the object's metadata if the file holds V1 or V2.
ValidInstructionFile(file, obj) ==
  LET found == FileMetadata(file)
      m == obj.meta @@ found
  IN
  /\ DOMAIN file.content \subseteq VALID_S3EC_METADATA_KEYS
  /\ DOMAIN found \cap VALID_S3EC_METADATA_KEYS # {}
  /\ DOMAIN found \cap V3ContentKeys = {}
  /\ (is_v1_format(m) \/ is_v2_format(m)) =>
       DOMAIN obj.meta \cap {"x-amz-cek-alg", "x-amz-iv", "x-amz-wrap-alg"} = {}

\* The second request, made while the first response is held.
InstructionFileFound ==
  ~rd.cfg.disableInstr /\ instr # NoObject /\ ValidInstructionFile(instr, rd.obj)

\* The response of the nested request kept in place of the object's (mutant).
FetchInstructionFile_replaces ==
  /\ rd.pc = "instr" /\ InstructionFileFound
  /\ rd' = [rd EXCEPT !.pc = "decrypt", !.obj = instr,
                      !.meta = rd.obj.meta @@ FileMetadata(instr)]
  /\ UNCHANGED <<log, wire, object, instr>>

FetchInstructionFile ==
  /\ rd.pc = "instr" /\ InstructionFileFound
  /\ rd' = [rd EXCEPT !.pc = "decrypt", !.meta = rd.obj.meta @@ FileMetadata(instr)]
  /\ UNCHANGED <<log, wire, object, instr>>

FetchInstructionFileRejected ==
  /\ rd.pc = "instr" /\ ~InstructionFileFound
  /\ End("rejected")
  /\ UNCHANGED <<log, wire, object, instr>>

\* The value of x-amz-cek-alg or x-amz-c; V1 is always CBC.
DetermineAlgorithmSuite(m) ==
  CASE is_v1_format(m) -> CBC
    [] is_v2_format(m) -> m["x-amz-cek-alg"]
    [] is_v3_format(m) -> m["x-amz-c"]
    [] OTHER -> "none"

V3WrapAlg(w) ==
  CASE w = "02" -> "AES/GCM" [] w = "12" -> "kms+context" [] w = "22" -> "RSA-OAEP-SHA1"
    [] OTHER -> "none"

\* _decrypt_v1, _decrypt_v2 and _decrypt_v3.
DecryptionMaterials(m) ==
  IF is_v3_format(m)
  THEN LET wrap == V3WrapAlg(m["x-amz-w"]) IN
       [edks |-> <<m["x-amz-3"]>>, wrap |-> wrap,
        stored |-> Get(m, IF wrap = "kms+context" THEN "x-amz-t" ELSE "x-amz-m", Empty)]
  ELSE [edks |-> <<m[IF is_v1_format(m) THEN "x-amz-key" ELSE "x-amz-key-v2"]>>,
        wrap |-> Get(m, "x-amz-wrap-alg", "none"),
        stored |-> Get(m, "x-amz-matdesc", Empty)]

\* A context compared only when one is given (mutant).
ContextMatches_ifGiven(stored, ctx) ==
  /\ KMS_CONTEXT_DEFAULT_KEY \notin DOMAIN ctx
  /\ ctx # Empty => Without(stored, Reserved) = ctx

ContextMatches(stored, ctx) ==
  /\ KMS_CONTEXT_DEFAULT_KEY \notin DOMAIN ctx
  /\ Without(stored, Reserved) = ctx

\* KMS opens a data key only in the context it was bound to (external).
KmsDecrypts(edk, ctx) == edk.ctx = ctx

\* S3Keyring.on_decrypt: there is exactly one data key to try.
ValidMaterials(mat) == Len(mat.edks) = 1

\* KmsKeyring.on_decrypt yields the data key.
OnDecrypt(cfg, mat, suite, ctx) ==
  /\ ValidMaterials(mat)
  /\ \/ /\ mat.wrap = "kms+context"
        /\ ContextMatches(mat.stored, ctx)
        /\ Get(mat.stored, KMS_CONTEXT_DEFAULT_KEY, "none") = suite
     \/ /\ mat.wrap = "kms"
        /\ cfg.legacyWrapping /\ ctx = Empty
  /\ KmsDecrypts(mat.edks[1], mat.stored)

LegacyAllowed(cfg, suite) == is_legacy(suite) => cfg.legacyModes

\* The policy of encryption taken for that of decryption (mutant).
PolicyAllows_encrypt(cfg, suite) ==
  cfg.policy = "REQUIRE_ENCRYPT_ALLOW_DECRYPT" => supports_key_commitment(suite)

PolicyAllows(cfg, suite) ==
  cfg.policy = "REQUIRE_ENCRYPT_REQUIRE_DECRYPT" => supports_key_commitment(suite)

\* GetEncryptedObjectPipeline.decrypt up to the choice of a cipher.
Accepts(cfg, ctx, m) ==
  LET suite == DetermineAlgorithmSuite(m) IN
  /\ suite \in AlgorithmSuite
  /\ ~has_exclusive_key_collision(m)
  /\ ~(is_v2_format(m) /\ V3ContentKeys \cap DOMAIN m # {})
  /\ OnDecrypt(cfg, DecryptionMaterials(m), suite, ctx)
  /\ LegacyAllowed(cfg, suite)
  /\ PolicyAllows(cfg, suite)

\* A commitment that is not looked at (mutant).
CommitmentFits_skipped(m) == TRUE

\* verify_commitment, made before a committing suite's cipher is set up.
CommitmentFits(m) ==
  DetermineAlgorithmSuite(m) = KC =>
    /\ {"x-amz-i", "x-amz-d"} \subseteq DOMAIN m
    /\ m["x-amz-d"] = Commitment(DecryptionMaterials(m).edks[1].key, m["x-amz-i"])

\* The body is what this suite made under this data key and IV.
Deciphers(m, body) ==
  LET suite == DetermineAlgorithmSuite(m)
      iv == IF suite = KC THEN "x-amz-i" ELSE "x-amz-iv"
  IN
  /\ iv \in DOMAIN m
  /\ body = [key |-> DecryptionMaterials(m).edks[1].key, iv |-> m[iv], suite |-> suite]

DecryptRejected ==
  /\ rd.pc = "decrypt" /\ ~Accepts(rd.cfg, rd.ctx, rd.meta)
  /\ End("rejected")
  /\ UNCHANGED <<log, wire, object, instr>>

\* The caller reads the plaintext of the body.
Decrypt ==
  /\ rd.pc = "decrypt" /\ Accepts(rd.cfg, rd.ctx, rd.meta)
  /\ CommitmentFits(rd.meta) /\ Deciphers(rd.meta, rd.obj.body)
  /\ End("plain")
  /\ UNCHANGED <<log, wire, object, instr>>

\* The commitment does not fit, or the tag or the padding does not and nothing
\* has been released: one_shot_decrypt, or a stream not read before its end.
DecryptFails ==
  /\ rd.pc = "decrypt" /\ Accepts(rd.cfg, rd.ctx, rd.meta)
  /\ ~(CommitmentFits(rd.meta) /\ Deciphers(rd.meta, rd.obj.body))
  /\ End("rejected")
  /\ UNCHANGED <<log, wire, object, instr>>

\* A DecryptingStream hands out bytes before it comes to the tag or to the
\* padding: always for CBC, with delayed authentication for the other suites.
DecryptGarbage ==
  /\ rd.pc = "decrypt" /\ Accepts(rd.cfg, rd.ctx, rd.meta)
  /\ CommitmentFits(rd.meta) /\ ~Deciphers(rd.meta, rd.obj.body)
  /\ DetermineAlgorithmSuite(rd.meta) = CBC \/ rd.cfg.delayedAuth
  /\ End("garbage")
  /\ UNCHANGED <<log, wire, object, instr>>

\* S3 or KMS fails, whatever the object is.
ServiceFails ==
  /\ rd.pc \in {"instr", "decrypt"}
  /\ End("failed")
  /\ UNCHANGED <<log, wire, object, instr>>

-----------------------------------------------------------------------------
Init ==
  /\ log = <<>> /\ wire = {}
  /\ object = NoObject /\ instr = NoObject
  /\ rd = [pc |-> "idle"]

Next ==
  \/ \E suite \in AlgorithmSuite, policy \in CommitmentPolicy, ctx \in Contexts,
        user \in UserMetadata :
       PutObject(suite, policy, ctx, user) \/ CreateMultipartUpload(suite, policy, ctx, user)
  \/ \E f \in ForeignFormats, file \in BOOLEAN : ForeignPut(f[1], f[2], f[3], file)
  \/ PutOther
  \/ \E r \in wire : Arrive(r)
  \/ \E cfg \in Config, ctx \in Contexts : GetObject(cfg, ctx)
  \/ FetchInstructionFile \/ FetchInstructionFileRejected
  \/ DecryptRejected \/ Decrypt \/ DecryptFails \/ DecryptGarbage \/ ServiceFails

Spec == Init /\ [][Next]_vars

-----------------------------------------------------------------------------
(* Properties *)

Writes == [suite: AlgorithmSuite, wrap: {"kms+context", "kms", "AES/GCM"},
           ctx: Contexts \cup {Empty}, stray: SUBSET VALID_S3EC_METADATA_KEYS]

TypeOK ==
  /\ log \in Seq(Writes)
  /\ object = NoObject \/ (object \in wire /\ object.at = "object")
  /\ instr = NoObject \/ (instr \in wire /\ instr.at = "instr")
  /\ \/ rd = [pc |-> "idle"]
     \/ rd \in [pc: {"instr", "decrypt", "ended"}, cfg: Config, ctx: Contexts,
                obj: {r \in wire : r.at = "object"}, meta: {rd.meta},
                out: {"none", "plain", "garbage", "rejected", "failed"}]

\* The write whose body a read has fetched, and what its caller had to give.
Source == log[rd.obj.body.key]
CallerContext(w) == IF w.wrap = "kms" THEN Empty ELSE Without(w.ctx, Reserved)

\* What a configuration is meant to let through.
Permitted(cfg, w) ==
  /\ w.suite = CBC => cfg.legacyModes
  /\ cfg.policy = "REQUIRE_ENCRYPT_REQUIRE_DECRYPT" => w.suite = KC
  /\ w.wrap \in {"kms+context"} \cup (IF cfg.legacyWrapping THEN {"kms"} ELSE {})

\* Plaintext is released only of an object that was really encrypted the way
\* the reader's configuration allows, whatever instruction file its metadata
\* was completed with: the checks look at metadata, this at the body.
ReadHonoursConfig ==
  (rd.pc = "ended" /\ rd.out = "plain") => Permitted(rd.cfg, Source)

\* Plaintext is released only to a caller that passes the context of the very
\* write whose body it fetched, reserved keys aside.
ContextBinding ==
  (rd.pc = "ended" /\ rd.out = "plain") => rd.ctx = CallerContext(Source)

\* The encrypted data key the read has found is that of the body's write.
HoldsKeyOf(m, n) == \E k \in EncryptedDataKeys \cap DOMAIN m : m[k].key = n
Matched == HoldsKeyOf(rd.meta, rd.obj.body.key)

\* An object and an instruction file of two different writes may come
\* together in one get_object, and under some configurations bytes of the body
\* are handed out before anything tells.  That happens only to callers that
\* have opted in: to legacy modes, or to delayed authentication of a body
\* whose suite does not commit to its key.  A committing body is safe with
\* delayed authentication, and with a policy that requires commitment no mix-up
\* releases anything.
MixUpsNeedOptIn ==
  (rd.pc = "ended" /\ rd.out = "garbage") =>
    /\ ~Matched
    /\ rd.cfg.policy # "REQUIRE_ENCRYPT_REQUIRE_DECRYPT"
    /\ rd.cfg.legacyModes \/ (rd.cfg.delayedAuth /\ Source.suite # KC)

\* A permitted read is not refused: whatever format an object is in, whatever
\* else is or was stored under its instruction file's name, a reader that is
\* configured for it, passes its context and found its data key gets the
\* plaintext unless S3 or KMS fails.  Of map keys that a caller's Metadata has
\* left beside the write's own, only those of data keys and of V3 contents are
\* in its way.
PermittedReadSucceeds ==
  (rd.pc = "ended" /\ rd.out \in {"rejected", "garbage"}) =>
    ~(/\ Matched /\ Permitted(rd.cfg, Source) /\ rd.ctx = CallerContext(Source)
      /\ Source.stray \cap (EncryptedDataKeys \cup V3ContentKeys) = {})

-----------------------------------------------------------------------------
(* The inductive invariant *)

\* The map keys that tell the formats apart, and those a format has of them.
Marking == EncryptedDataKeys \cup V3ContentKeys
KeyName(f) == CASE f = "v1" -> "x-amz-key" [] f = "v2" -> "x-amz-key-v2" [] f = "v3" -> "x-amz-3"
Marks(f) == {KeyName(f)} \cup IF f = "v3" THEN V3ContentKeys ELSE {}

\* The context KMS bound the data key of a write to.
Bound(w) == IF w.wrap = "kms+context" THEN OnEncryptContext(w.ctx, w.suite)
                                      ELSE KMS_V1_DEFAULT_KEY :> "key"

\* m holds, in format f, the data key of write n, recorded as w, with what
\* unwraps it ...
KeyPart(m, n, w, f) ==
  LET ctxKey == IF w.wrap = "kms+context" THEN "x-amz-t" ELSE "x-amz-m" IN
  /\ w.suite = KC <=> f = "v3"
  /\ KeyName(f) \in DOMAIN m /\ m[KeyName(f)] = DataKey(n, Bound(w))
  /\ f # "v3" => /\ {"x-amz-wrap-alg", "x-amz-matdesc"} \subseteq DOMAIN m
                 /\ m["x-amz-wrap-alg"] = w.wrap /\ m["x-amz-matdesc"] = Bound(w)
  /\ f = "v3" => /\ {"x-amz-w", ctxKey} \subseteq DOMAIN m
                 /\ V3WrapAlg(m["x-amz-w"]) = w.wrap /\ m[ctxKey] = Bound(w)

\* ... and what its body is deciphered with.
ContentPart(m, n, w, f) ==
  /\ f = "v1" => w.suite = CBC
  /\ f = "v2" => "x-amz-cek-alg" \in DOMAIN m /\ m["x-amz-cek-alg"] = w.suite
  /\ f # "v3" => "x-amz-iv" \in DOMAIN m /\ m["x-amz-iv"] = n
  /\ f = "v3" => /\ V3ContentKeys \subseteq DOMAIN m
                 /\ m["x-amz-c"] = KC /\ m["x-amz-i"] = n /\ m["x-amz-d"] = Commitment(n, n)

Formats == {"v1", "v2", "v3"}

\* An object's request: the body of one write under the metadata of that
\* write, with at most its stray keys besides, or under what V1, V2 or V3
\* leave in the object when the rest is in an instruction file.
ObjectRequest(r) ==
  LET n == r.body.key
      w == log[n]
      m == r.meta
  IN
  /\ n \in 1..Len(log) /\ r.body = Body(n, w.suite) /\ DOMAIN m \subseteq VALID_S3EC_METADATA_KEYS
  /\ \/ \E f \in Formats : /\ KeyPart(m, n, w, f) /\ ContentPart(m, n, w, f)
                           /\ (DOMAIN m \cap Marking) \ Marks(f) \subseteq w.stray
     \/ w.suite = KC /\ ContentPart(m, n, w, "v3") /\ DOMAIN m = V3ContentKeys
     \/ w.suite # KC /\ DOMAIN m = {}

\* An instruction file's request: the rest of one write, or something else.
FileRequest(r) ==
  LET m == FileMetadata(r) IN
  \/ "other" \in DOMAIN r.content
  \/ \E n \in 1..Len(log), f \in Formats :
       /\ KeyPart(m, n, log[n], f) /\ (f # "v3" => ContentPart(m, n, log[n], f))
       /\ DOMAIN m \cap Marking = {KeyName(f)}

\* What a read has gathered before it decrypts: a data key that stands alone
\* comes with what its own write was unwrapped by; the data key of the body's
\* write with all that write made, and without stray keys nothing else; and
\* the content keys of V3, by which it is known, are of the body's write.
Gathered(m, n) ==
  /\ ~has_exclusive_key_collision(m) =>
       \A k \in EncryptedDataKeys \cap DOMAIN m :
         \E j \in 1..Len(log), f \in Formats : k = KeyName(f) /\ KeyPart(m, j, log[j], f)
  /\ HoldsKeyOf(m, n) =>
       \E f \in Formats :
         /\ KeyPart(m, n, log[n], f) /\ ContentPart(m, n, log[n], f)
         /\ log[n].stray \cap Marking = {} => DOMAIN m \cap Marking = Marks(f)
  /\ IF log[n].suite = KC THEN ContentPart(m, n, log[n], "v3") ELSE ~is_v3_format(m)

ReadInv ==
  /\ rd.pc = "instr" => rd.meta = rd.obj.meta /\ should_use_instruction_file(rd.meta)
  /\ rd.pc = "decrypt" => Gathered(rd.meta, rd.obj.body.key)

\* Every request sent is of one write, and so is what a read gathers.
WritesInv ==
  /\ \A r \in wire : (r.at = "object" /\ ObjectRequest(r)) \/ (r.at = "instr" /\ FileRequest(r))
  /\ ReadInv

-----------------------------------------------------------------------------
(* What the docs say of the code and the code does not do *)

\* "May include EncryptionContext if it was used during encryption."
\* (get_object's docstring): the context that was passed to put_object is one
\* that get_object accepts.
SameContextReads ==
  (rd.pc = "ended" /\ rd.out = "rejected") =>
    ~(Matched /\ Permitted(rd.cfg, Source) /\ Source.wrap = "kms+context"
        /\ rd.ctx = Source.ctx)
=============================================================================
