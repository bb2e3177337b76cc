--------------------------- MODULE MultipartUpload ---------------------------
(***************************************************************************)
(* Encrypted multipart uploads: S3EncryptionClient.create_multipart_upload,*)
(* upload_part, complete_multipart_upload, abort_multipart_upload and the  *)
(* MultipartUploadPipeline behind them, called by any number of            *)
(* application threads, with the S3 service as the environment.            *)
(*                                                                         *)
(* One AES-GCM cipher serves all parts of an upload.  What a ciphertext    *)
(* decrypts to depends only on where it lies in that cipher's output, so a *)
(* ciphertext is named by its position: position n of upload u stands for  *)
(* the bytes of the n-th successful encrypt_part, described by out[u][n].  *)
(* Position 0 is Python's None, the initial _last_encrypted_ciphertext.    *)
(*                                                                         *)
(* A call is cut into the steps between which another thread can run: the  *)
(* registry lookup under _multipart_lock, encrypt_part under the           *)
(* pipeline's _lock, the request to S3, and the registry update after it.  *)
(* A call that raises leaves the thread idle; a call that raises before it *)
(* changes anything is not a step.                                         *)
(***************************************************************************)
EXTENDS Naturals, Sequences

CONSTANTS Threads,  \* application threads sharing one client
          Uploads,  \* the UploadIds S3 can hand out
          MaxPart   \* bound: the largest PartNumber a caller passes

ASSUME MaxPartAssumption == MaxPart \in Nat \ {0}

VARIABLES
  registry,    \* keys of S3EncryptionClient._multipart_uploads
  next_part,   \* MultipartUploadPipeline._next_part, per upload
  final_seen,  \* ..._has_final_part_been_seen
  last_part,   \* ..._last_encrypted_part
  last_ct,     \* ..._last_encrypted_ciphertext
  out,         \* what the pipeline's _encryptor has produced, in order
  s3state,     \* S3: the upload's state
  s3parts,     \* S3: the ciphertext stored under each part number
  s3object,    \* S3: the ciphertexts the completed object is made of
  acked,       \* the ETag (here: the ciphertext) each part number returned
  call         \* the call each thread is in, with its local variables

pipeline == <<next_part, final_seen, last_part, last_ct, out>>
s3 == <<s3state, s3parts, s3object>>
vars == <<registry, pipeline, s3, acked, call>>

NoCt == 0
S3Part == 1..MaxPart              \* the part numbers S3 accepts
NoParts == [p \in S3Part |-> NoCt]

\* What encryptor.update accepts, and what it raises TypeError for.
Bodies == {"bytes", "other"}

Output == [part: 0..MaxPart, tagged: BOOLEAN]

\* A thread's call: where it is, and the locals it needs from there on.
Idle == [pc |-> "idle"]
EncryptCall == [pc: {"encrypt"}, up: Uploads, part: 0..MaxPart, last: BOOLEAN, body: Bodies]
SendCall == [pc: {"send"}, up: Uploads, part: 0..MaxPart, last: BOOLEAN, ct: Nat]
ListCall == [pc: {"check", "complete", "pop"}, up: Uploads, etags: [S3Part -> Nat]]
AbortCall == [pc: {"abort"}, up: Uploads]
Call == {Idle} \cup EncryptCall \cup SendCall \cup ListCall \cup AbortCall

TypeOK ==
  /\ registry \in SUBSET Uploads
  /\ next_part \in [Uploads -> 1..(MaxPart + 1)]
  /\ final_seen \in [Uploads -> BOOLEAN]
  /\ last_part \in [Uploads -> 0..MaxPart]
  /\ last_ct \in [Uploads -> Nat]
  /\ out \in [Uploads -> Seq(Output)]
  /\ s3state \in [Uploads -> {"none", "open", "completed", "aborted"}]
  /\ s3parts \in [Uploads -> [S3Part -> Nat]]
  /\ s3object \in [Uploads -> [S3Part -> Nat]]
  /\ acked \in [Uploads -> [S3Part -> Nat]]
  /\ call \in [Threads -> Call]

Init ==
  /\ registry = {}
  /\ next_part = [u \in Uploads |-> 1]
  /\ final_seen = [u \in Uploads |-> FALSE]
  /\ last_part = [u \in Uploads |-> 0]
  /\ last_ct = [u \in Uploads |-> NoCt]
  /\ out = [u \in Uploads |-> <<>>]
  /\ s3state = [u \in Uploads |-> "none"]
  /\ s3parts = [u \in Uploads |-> NoParts]
  /\ s3object = [u \in Uploads |-> NoParts]
  /\ acked = [u \in Uploads |-> NoParts]
  /\ call = [t \in Threads |-> Idle]

Goto(t, c) == call' = [call EXCEPT ![t] = c]
Return(t) == Goto(t, Idle)

-----------------------------------------------------------------------------
(* create_multipart_upload *)

\* The S3 request succeeds and the pipeline built before it is registered.
CreateMultipartUpload(t, u) ==
  /\ call[t] = Idle
  /\ s3state[u] = "none"
  /\ s3state' = [s3state EXCEPT ![u] = "open"]
  /\ registry' = registry \cup {u}
  /\ UNCHANGED <<pipeline, s3parts, s3object, acked, call>>

\* S3 opens the upload and the response is lost: create raises before line
\* 622 and the pipeline is dropped.
CreateMultipartUploadLost(t, u) ==
  /\ call[t] = Idle
  /\ s3state[u] = "none"
  /\ s3state' = [s3state EXCEPT ![u] = "open"]
  /\ UNCHANGED <<registry, pipeline, s3parts, s3object, acked, call>>

-----------------------------------------------------------------------------
(* upload_part *)

\* A wrong lookup (mutant): any upload S3 knows of has a pipeline.
UploadPart_unregistered(t, u, p, last, body) ==
  /\ call[t] = Idle
  /\ s3state[u] # "none"
  /\ Goto(t, [pc |-> "encrypt", up |-> u, part |-> p, last |-> last, body |-> body])
  /\ UNCHANGED <<registry, pipeline, s3, acked>>

\* Fetch the pipeline under _multipart_lock and normalise the body.
UploadPart(t, u, p, last, body) ==
  /\ call[t] = Idle
  /\ u \in registry
  /\ Goto(t, [pc |-> "encrypt", up |-> u, part |-> p, last |-> last, body |-> body])
  /\ UNCHANGED <<registry, pipeline, s3, acked>>

\* encrypt_part runs under the pipeline's lock, so each of its four outcomes
\* is one step.  A retry is recognised by its part number alone.
IsRetry(c) == c.part = last_part[c.up]

\* Three wrong sequence checks (mutants): any order, a part encrypted again,
\* and a part after the final one.
InSequence_anyOrder(c) == ~final_seen[c.up] /\ c.part \in S3Part
InSequence_reencrypts(c) == ~final_seen[c.up] /\ c.part \in 1..next_part[c.up]
InSequence_afterFinal(c) == c.part = next_part[c.up]

InSequence(c) == ~final_seen[c.up] /\ c.part = next_part[c.up]

Sending(c, ct) == [pc |-> "send", up |-> c.up, part |-> c.part, last |-> c.last, ct |-> ct]

\* The cached ciphertext is returned, whatever body and is_last say.
EncryptPartRetry(t) ==
  LET c == call[t] IN
  /\ c.pc = "encrypt" /\ IsRetry(c)
  /\ Goto(t, Sending(c, last_ct[c.up]))
  /\ UNCHANGED <<registry, pipeline, s3, acked>>

EncryptPartRejected(t) ==
  LET c == call[t] IN
  /\ c.pc = "encrypt" /\ ~IsRetry(c) /\ ~InSequence(c)
  /\ Return(t)
  /\ UNCHANGED <<registry, pipeline, s3, acked>>

\* update() raises after _next_part has moved on.
EncryptPartRaises(t) ==
  LET c == call[t] IN
  /\ c.pc = "encrypt" /\ ~IsRetry(c) /\ InSequence(c) /\ c.body = "other"
  /\ next_part' = [next_part EXCEPT ![c.up] = @ + 1]
  /\ Return(t)
  /\ UNCHANGED <<registry, final_seen, last_part, last_ct, out, s3, acked>>

EncryptPart(t) ==
  LET c == call[t]
      n == Len(out[c.up]) + 1
  IN
  /\ c.pc = "encrypt" /\ ~IsRetry(c) /\ InSequence(c) /\ c.body = "bytes"
  /\ next_part' = [next_part EXCEPT ![c.up] = @ + 1]
  /\ out' = [out EXCEPT ![c.up] = Append(@, [part |-> c.part, tagged |-> c.last])]
  /\ final_seen' = [final_seen EXCEPT ![c.up] = @ \/ c.last]
  /\ last_part' = [last_part EXCEPT ![c.up] = c.part]
  /\ last_ct' = [last_ct EXCEPT ![c.up] = n]
  /\ Goto(t, Sending(c, n))
  /\ UNCHANGED <<registry, s3, acked>>

\* S3 stores the part and the caller gets its ETag.
SendPart(t) ==
  LET c == call[t] IN
  /\ c.pc = "send"
  /\ c.ct # NoCt /\ c.part \in S3Part /\ s3state[c.up] = "open"
  /\ s3parts' = [s3parts EXCEPT ![c.up][c.part] = c.ct]
  /\ acked' = [acked EXCEPT ![c.up][c.part] = c.ct]
  /\ Return(t)
  /\ UNCHANGED <<registry, pipeline, s3state, s3object>>

\* S3 stores the part but the response is lost: upload_part raises.
SendPartLost(t) ==
  LET c == call[t] IN
  /\ c.pc = "send"
  /\ c.ct # NoCt /\ c.part \in S3Part /\ s3state[c.up] = "open"
  /\ s3parts' = [s3parts EXCEPT ![c.up][c.part] = c.ct]
  /\ Return(t)
  /\ UNCHANGED <<registry, pipeline, s3state, s3object, acked>>

\* The request never takes effect: a network or service failure, parameter
\* validation of a None body, or NoSuchUpload.
SendPartFailed(t) ==
  /\ call[t].pc = "send"
  /\ Return(t)
  /\ UNCHANGED <<registry, pipeline, s3, acked>>

-----------------------------------------------------------------------------
(* complete_multipart_upload *)

\* The registry lookup.  The caller lists parts by the ETags it was given.
CompleteMultipartUpload(t, u, listed) ==
  /\ call[t] = Idle
  /\ u \in registry
  /\ Goto(t, [pc |-> "check", up |-> u,
              etags |-> [p \in S3Part |-> IF p \in listed THEN acked[u][p] ELSE NoCt]])
  /\ UNCHANGED <<registry, pipeline, s3, acked>>

\* The same complete call, at its next step.
Listing(pc, c) == [pc |-> pc, up |-> c.up, etags |-> c.etags]

\* The guard of line 703 dropped (mutant).
CheckFinalPart_unchecked(t) ==
  /\ call[t].pc = "check"
  /\ Goto(t, Listing("complete", call[t]))
  /\ UNCHANGED <<registry, pipeline, s3, acked>>

\* has_final_part_been_seen is read without the pipeline's lock.
CheckFinalPart(t) ==
  LET c == call[t] IN
  /\ c.pc = "check"
  /\ IF final_seen[c.up] THEN Goto(t, Listing("complete", c)) ELSE Return(t)
  /\ UNCHANGED <<registry, pipeline, s3, acked>>

\* S3 assembles the listed parts if it still holds each under its ETag.
S3Complete(c) ==
  /\ s3state[c.up] = "open"
  /\ \E p \in S3Part : c.etags[p] # NoCt
  /\ \A p \in S3Part : c.etags[p] # NoCt => s3parts[c.up][p] = c.etags[p]
  /\ s3state' = [s3state EXCEPT ![c.up] = "completed"]
  /\ s3object' = [s3object EXCEPT ![c.up] = c.etags]
  /\ UNCHANGED s3parts

SendComplete(t) ==
  LET c == call[t] IN
  /\ c.pc = "complete"
  /\ S3Complete(c)
  /\ Goto(t, Listing("pop", c))
  /\ UNCHANGED <<registry, pipeline, acked>>

\* S3 completes the upload and the response is lost.
SendCompleteLost(t) ==
  LET c == call[t] IN
  /\ c.pc = "complete"
  /\ S3Complete(c)
  /\ Return(t)
  /\ UNCHANGED <<registry, pipeline, acked>>

SendCompleteFailed(t) ==
  /\ call[t].pc = "complete"
  /\ Return(t)
  /\ UNCHANGED <<registry, pipeline, s3, acked>>

\* Only a successful response drops the cipher state.
CompletePop(t) ==
  /\ call[t].pc = "pop"
  /\ registry' = registry \ {call[t].up}
  /\ Return(t)
  /\ UNCHANGED <<pipeline, s3, acked>>

-----------------------------------------------------------------------------
(* abort_multipart_upload *)

\* The pipeline would be dropped only once S3 has answered (mutant: the
\* request raises, and it stays).
AbortMultipartUpload_keeps(t, u) ==
  /\ call[t] = Idle
  /\ s3state[u] # "none"
  /\ Goto(t, [pc |-> "abort", up |-> u])
  /\ UNCHANGED <<registry, pipeline, s3, acked>>

\* The pipeline is dropped before S3 is asked to abort.
AbortMultipartUpload(t, u) ==
  /\ call[t] = Idle
  /\ s3state[u] # "none"
  /\ registry' = registry \ {u}
  /\ Goto(t, [pc |-> "abort", up |-> u])
  /\ UNCHANGED <<pipeline, s3, acked>>

\* S3 discards the parts (whether or not the response arrives).
SendAbort(t) ==
  LET u == call[t].up IN
  /\ call[t].pc = "abort"
  /\ s3state[u] = "open"
  /\ s3state' = [s3state EXCEPT ![u] = "aborted"]
  /\ s3parts' = [s3parts EXCEPT ![u] = NoParts]
  /\ Return(t)
  /\ UNCHANGED <<registry, pipeline, s3object, acked>>

\* The request has no effect: a failure, or the upload is already gone.
SendAbortFailed(t) ==
  /\ call[t].pc = "abort"
  /\ Return(t)
  /\ UNCHANGED <<registry, pipeline, s3, acked>>

-----------------------------------------------------------------------------
Step(t) ==
  \/ EncryptPartRetry(t) \/ EncryptPartRejected(t)
  \/ EncryptPartRaises(t) \/ EncryptPart(t)
  \/ SendPart(t) \/ SendPartLost(t) \/ SendPartFailed(t)
  \/ CheckFinalPart(t)
  \/ SendComplete(t) \/ SendCompleteLost(t) \/ SendCompleteFailed(t)
  \/ CompletePop(t)
  \/ SendAbort(t) \/ SendAbortFailed(t)

Acked(u) == {p \in S3Part : acked[u][p] # NoCt}

Start(t) ==
  \E u \in Uploads :
     \/ CreateMultipartUpload(t, u)
     \/ CreateMultipartUploadLost(t, u)
     \/ \E p \in 0..MaxPart, last \in BOOLEAN, body \in Bodies :
          UploadPart(t, u, p, last, body)
     \/ \E listed \in SUBSET Acked(u) : CompleteMultipartUpload(t, u, listed)
     \/ AbortMultipartUpload(t, u)

Next == \E t \in Threads : Start(t) \/ Step(t)

Spec == Init /\ [][Next]_vars

-----------------------------------------------------------------------------
(* Properties *)

\* A part number is bound to one ciphertext for the life of its upload:
\* whatever retries and concurrent callers do, the body a thread is about to
\* send, the body S3 stores and the ETag a caller holds for part p agree.
\* (The cache in encrypt_part, pipelines.py:284-285, is what makes a retry
\* repeat the bytes instead of encrypting at a new position.)
OneCiphertextPerPart ==
  \A u \in Uploads, p \in S3Part :
    LET held == {call[t].ct : t \in {s \in Threads : /\ call[s].pc = "send"
                                                     /\ call[s].up = u
                                                     /\ call[s].part = p}}
        known == (held \cup {s3parts[u][p], acked[u][p]}) \ {NoCt}
    IN \A a, b \in known : a = b

\* An ETag that upload_part returned stays good: as long as the upload is
\* not aborted, S3 still stores that very ciphertext under the part number,
\* so a complete call listing it is not refused with InvalidPart.
AckedPartStaysStored ==
  \A u \in Uploads, p \in S3Part :
    (acked[u][p] # NoCt /\ s3state[u] # "aborted") => s3parts[u][p] = acked[u][p]

\* The ciphertexts a completed object consists of, in the ascending part
\* order S3 concatenates them in, are in the order the cipher produced them.
CompletedInCipherOrder ==
  \A u \in Uploads : \A p, q \in S3Part :
    (p < q /\ s3object[u][p] # NoCt /\ s3object[u][q] # NoCt)
      => s3object[u][p] < s3object[u][q]

\* The object is the cipher's whole output, and its tag is at the very end.
Decrypts(u) ==
  LET n == Len(out[u]) IN
  /\ {s3object[u][p] : p \in S3Part} \ {NoCt} = 1..n
  /\ \A i \in 1..n : out[u][i].tagged <=> i = n

\* A caller that lists every part it had encrypted gets an object that
\* decrypts: the guard of complete_multipart_upload (line 703), the refusal
\* of parts after the final one and the sequence check together put exactly
\* one tag on the object, at its end.
FullListDecrypts ==
  \A u \in Uploads :
    /\ s3state[u] = "completed"
    /\ \A i \in 1..Len(out[u]) : \E p \in S3Part :
         p = out[u][i].part /\ s3object[u][p] # NoCt
    => Decrypts(u)

\* Dropping an upload's cipher state is final: once complete or abort took
\* its pipeline out of the registry and every encrypt_part already under way
\* has returned, no later call reaches that pipeline, so its cipher never
\* runs again under the same key and IV.
Unreachable(u) ==
  /\ u \notin registry /\ s3state[u] # "none"
  /\ \A t \in Threads : call[t].pc = "encrypt" => call[t].up # u

DroppedPipelineIsDead ==
  [][\A u \in Uploads : Unreachable(u) => Unreachable(u)' /\ out'[u] = out[u]]_vars

-----------------------------------------------------------------------------
(* The inductive invariant *)

\* ct is the position at which part p of upload u was encrypted.
Names(u, p, ct) == ct \in 1..Len(out[u]) /\ out[u][ct].part = p

\* The pipeline's fields against the cipher's output: the cache holds the
\* newest ciphertext, parts ascend below _next_part, and the only tag is on
\* the newest ciphertext of a finished cipher.
CipherInv(u) ==
  LET n == Len(out[u]) IN
  /\ last_ct[u] = n
  /\ n = 0 => last_part[u] = 0 /\ ~final_seen[u]
  /\ n > 0 => last_part[u] = out[u][n].part
  /\ \A i \in 1..n : 0 < out[u][i].part /\ out[u][i].part < next_part[u]
  /\ \A i, j \in 1..n : i < j => out[u][i].part < out[u][j].part
  /\ \A i \in 1..n : out[u][i].tagged <=> (i = n /\ final_seen[u])

\* What S3 stores and what callers hold are positions of the right part.
StoreInv(u) ==
  \A p \in S3Part :
    /\ s3parts[u][p] # NoCt => Names(u, p, s3parts[u][p])
    /\ acked[u][p] # NoCt => Names(u, p, acked[u][p])
    /\ s3object[u][p] # NoCt => Names(u, p, s3object[u][p])
    /\ s3object[u][p] # NoCt => s3state[u] = "completed"
    /\ (acked[u][p] # NoCt /\ s3state[u] # "aborted") => s3parts[u][p] = acked[u][p]

\* What a thread holds between two steps is still true of the pipeline.
CallInv(c) ==
  /\ c.pc = "send" => (c.part = 0 /\ c.ct = NoCt) \/ Names(c.up, c.part, c.ct)
  /\ c.pc \in {"check", "complete", "pop"} =>
       \A p \in S3Part : c.etags[p] # NoCt => Names(c.up, p, c.etags[p])
  /\ c.pc \in {"complete", "pop"} => final_seen[c.up]

\* Together these are inductive; the invariants above follow from them.
IInv ==
  /\ TypeOK
  /\ \A u \in Uploads : CipherInv(u) /\ StoreInv(u)
  /\ \A u \in Uploads : s3state[u] = "completed" => final_seen[u]
  /\ \A t \in Threads : CallInv(call[t])

-----------------------------------------------------------------------------
(* What the docs say of the code and the code does not do *)

\* "Parts must be sequential starting from 1." (encrypt_part's docstring):
\* the n-th ciphertext of an upload is that of part n, without gaps.
SequentialParts ==
  \A u \in Uploads : \A i \in 1..Len(out[u]) : out[u][i].part = i

\* "the final part has not been uploaded" is the error that keeps complete
\* from S3: a complete request goes out only for an upload whose final part
\* S3 has received (or that has ended meanwhile).
CompleteOnlyAfterFinalUploaded ==
  \A t \in Threads :
    call[t].pc = "complete" =>
      LET u == call[t].up IN
      s3state[u] = "open" => \E p \in S3Part :
        s3parts[u][p] # NoCt /\ out[u][s3parts[u][p]].tagged

-----------------------------------------------------------------------------
(* The abstraction this specification implements *)

Sealed == INSTANCE SealedUpload WITH
  Parts <- 0..MaxPart,
  log <- out,
  sealed <- final_seen,
  object <- [u \in Uploads |-> {s3object[u][p] : p \in S3Part} \ {NoCt}]

\* Seen from outside, threads, retries, the registry and S3's failures
\* disappear: an upload is a log of encrypted parts that only grows, in
\* ascending part order, until its tag seals it, and that is published at
\* most once and only after that.
ImplementsSealedUpload == Sealed!Spec
=============================================================================
