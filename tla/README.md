# Amazon S3 Encryption Client for Python: a TLA+ development

This directory models the library under `src/src/s3_encryption/` (below:
`__init__.py`, `pipelines.py`, ... without the prefix). TLC checks the modules on
small instances, and TLAPS proves the safety properties of multipart uploads and
their drivers, of the decrypting stream and its lines, of put and get, of the event handlers and of the
deletes for every value of the constants. `PROJECT.json` maps each definition to the lines it models and lists the runs, the mutants, the
findings, the hazards and the theorems.

    tlc -config MC_MultipartUpload.cfg MC_MultipartUpload
    tlapm MultipartUpload_proofs.tla

## 1. The system

The library wraps a boto3 S3 client. It encrypts what is written, decrypts what
is read, and keeps the encrypted data key and the cipher's parameters beside the
object, in its S3 metadata or in a second S3 object, the *instruction file*.

| component | state it keeps | operations | who it interacts with |
|---|---|---|---|
| Multipart upload (`__init__.py` 581-748, `pipelines.py` 190-309) | `_multipart_uploads` under `_multipart_lock`; per upload one cipher, `_next_part`, `_has_final_part_been_seen`, the last part and its ciphertext under `_lock` | create, upload part, complete, abort | any number of application threads; S3 |
| `upload_file`, `upload_fileobj` (`__init__.py` 750-868) | locals of one call: the chunk in hand, the chunk read ahead, the part number, the parts list | one call | a caller of the multipart operations, or of `put_object` for a small file; a file |
| `DecryptingStream` and decryptors (`stream.py`, `decryptor.py`, `buffered_decrypt.py`) | bytes consumed, `_finalized`, the GCM tail, the CBC cipher's and the unpadder's buffers; in `iter_lines` the pending line | `read` and its wrappers, `close` | the HTTP response body |
| Put and get pipelines (`pipelines.py`) | none between calls | encrypt; decrypt with a second request for the instruction file | keyring, S3 |
| Object metadata, instruction files (`metadata.py`, `instruction_file.py`) | none; formats V1, V2, V3 | recognise, parse, validate | the pipelines |
| KMS keyring, materials manager (`materials/`) | none | `on_encrypt`, `on_decrypt` | KMS |
| Suites, commitment policy, configuration (`materials/materials.py`, `__init__.py`) | immutable configuration | validation | all of the above |
| Event plugin (`__init__.py` 163-311) | thread-local context of the call under way | handlers before and after botocore's calls | boto3, the pipelines |
| `delete_object(s)` (`__init__.py` 423-509) | none | two requests each | S3 |
| Key derivation, exceptions, user agent | none | functions | |

What is hard in it, and to be got right:

* **One cipher, many callers.** All parts of an upload share one AES-GCM stream.
  The order of encryption fixes what each part decrypts to, but threads, retries
  and S3 each have an order of their own. A retried part must repeat its bytes:
  encrypting it again would put it at a new position of the key stream.
* **Requests whose outcome is unknown.** S3 may act and the response be lost, at
  every request. What the client then keeps (the pipeline in the registry, the
  cached ciphertext) decides whether a retry or an abort is safe.
* **Authentication after release.** With delayed authentication, plaintext leaves
  before the tag is seen. No byte of tag or padding may leave with it, and a
  truncated body must not look like the end of the object.
* **Two S3 objects read by two requests.** Object and instruction file can come
  from different writes; the checks see only the mixture of their metadata.
* **Two S3 objects deleted by two requests.** Either can fail, in whole or for
  some keys, be lost, repeated or served late, and others write in between.
* **Arguments passed past boto3.** `put_object` and `get_object` hand their arguments to
  the event handlers through thread-local attributes; the handler of a `get_object`
  calls `get_object` again for the instruction file. Every way out of every call
  must leave them clean.
* **Boundaries.** Empty sources, sources of exactly one chunk, reads of zero bytes,
  reads smaller than the tag, reserved keys in a context.

## 2. The modules

| module | models | extends |
|---|---|---|
| `MultipartUpload` | the four client operations and `MultipartUploadPipeline`, threads, S3 | |
| `SealedUpload` | what a multipart upload promises: a log, sealed once, published once | |
| `MultipartUpload_proofs` | theorems about `MultipartUpload` | `MultipartUpload` |
| `MultipartDriver` | `upload_file`, `upload_fileobj`, `_multipart_upload_from_readable`, composed with the operations they call | `MultipartUpload` |
| `MultipartDriver_proofs` | theorems about `MultipartDriver` | `MultipartDriver`, `MultipartUpload_proofs` |
| `DecryptingStream` | `read`, `close`, `AesGcmDecryptor`, `AesCbcDecryptor`, `one_shot_decrypt` | |
| `DecryptingStream_proofs` | theorems about `DecryptingStream` | `DecryptingStream` |
| `IterLines` | the line splitting of `iter_lines` | |
| `IterLines_proofs` | theorems about `IterLines` | `IterLines` |
| `ObjectMetadata` | the format predicates of `metadata.py` | |
| `EncryptedObject` | `put_object`, `create_multipart_upload`'s metadata and `get_object`: pipelines, keyring, policy, instruction file | `ObjectMetadata` |
| `EncryptedObject_proofs` | theorems about `EncryptedObject` | `EncryptedObject` |
| `PluginContext` | the event handlers, the thread-local attributes, the nested fetch | |
| `PluginContext_proofs` | theorems about `PluginContext` | `PluginContext` |
| `DeleteObjects` | `delete_object`, `delete_objects` | |
| `DeleteObjects_proofs` | theorems about `DeleteObjects` | `DeleteObjects` |
| `MC_MultipartUpload`, `MC_EncryptedObject` | symmetry and values of constants for TLC | |

### MultipartUpload

`registry` is the key set of `_multipart_uploads`; `next_part`, `final_seen`,
`last_part` and `last_ct` are the pipeline's fields. Bytes are not represented:
what a ciphertext decrypts to depends only on where it lies in the cipher's
output, so a ciphertext *is* its position, and `out[u][n]` says which part was
encrypted there and whether the tag follows it. `s3state`, `s3parts` and `s3object` are S3
(external); an ETag is the ciphertext it was given for. `acked` is a history
variable, the ETags callers hold.

A call is cut where another thread can run: the registry lookup under
`_multipart_lock`, `encrypt_part` under `_lock`, the check of line 703 with no lock,
each request, the registry update after it. `encrypt_part` has four outcomes, each
one step: a retry served from the cache, a refusal, `update()` raising after
`_next_part` has moved, and success. Each request can succeed, take effect with its
response lost, or fail; of an abort the first two leave the same state here, since the pipeline is
dropped before the request. A call that raises before changing anything is no step.

Callers are arbitrary: any thread calls any operation at any time, with part numbers
from 0 to `MaxPart`, with either `IsLastPart`, with a body that `update()` accepts or not, and
completes with any subset of the parts it has ETags for, in ascending order as S3
demands. S3's minimum size of parts (a request it refuses has failed, which is
modelled) and callers that make up ETags are not modelled.

### MultipartDriver

Each step of the driver is a step of the operation it has called joined with the
change of its own locals, so the module inherits every failure of
`MultipartUpload`: lost responses, the abort's included (`AbortLost`: the upload is gone
and the caller gets the abort's error), and every refusal by the client itself. A lookup that finds no
upload, a part out of sequence and a final part not seen all lead to the `except`
clause (`UploadChunk`, `ChunkFailed`, `Complete`, `CompleteChecked`). That a driver composed like this takes only steps the
client allows any caller holds by construction and is a lemma of the proofs, no property. How many chunks a source gives is not known in advance
(`total` is chosen when the call begins and used only by the reads), reads may
raise, and so may encryption, every request and the abort. `Leave` is the
`finally` clause. Only `Exception` is modelled: a `KeyboardInterrupt` passes the
`except` clause by, in the code as well. A file below the threshold is read at once
and put (`PutSmallFile`); what `put_object` does is `EncryptedObject`'s matter.
`failed` is a history variable: a read, an encryption or a request has failed. A
refusal by the client does not set it, which is what `FailsOnlyForCause` is about.

### DecryptingStream

Bytes are counted. `Init` chooses the object (algorithm, length, padding, whether
it is what an encryptor produced) and how much of the body will come; the body
gives any number of bytes up to what was asked for. `tail` is the GCM hold-back,
`block` and `unpad` what the CBC cipher and the PKCS7 unpadder keep (the last two,
and the tag check, are `cryptography`'s, modelled from their use). A read is a
loop, `Read` then `Loop...` steps, since between two turns the body changes.
`readinto`, `readlines`, `__next__`, `iter_chunks` and `iter_lines` change no state but
through `read`. One stream belongs to one thread; the class has no lock and
claims none. In the buffered path, GCM without delayed authentication, one step
reads the body, decrypts it and leaves the plaintext in `buffer`, or raises; reads
then take from `buffer`.

### IterLines

A plaintext of the three kinds of byte that matter (CR, LF, other) arrives in
chunks cut anywhere. `SplitLines` is Python's `bytes.splitlines` (external), and the
reference is `SplitLines` of the whole plaintext. The *j*th line ends where the *j*th of
the ends lies, found by counting (`Ended`, `LineEnd`), so that no recursion is needed.

### EncryptedObject

A write's number stands for its data key, IV and plaintext. Writers are this
library and the clients of other languages (external: formats V1 and V2 with CBC or GCM,
V3, each with or without instruction file). Requests sit in `wire` and arrive at
any time, again if retried, or never. The reader is cut between the request for the
object and that for the instruction file, so that any write can come between them.
A configuration has the commitment policy, the two legacy switches,
`enable_delayed_authentication` and the instruction-file switch. What a mixture of two writes
yields depends on the former: a commitment that does not fit is refused before anything is
decrypted (`CommitmentFits`); CBC, and GCM with delayed authentication, hand out bytes
before padding or tag are checked (`DecryptGarbage`); the buffered path refuses (`DecryptFails`).
`Accepts` is the conjunction of the checks of `GetEncryptedObjectPipeline.decrypt`
and `KmsKeyring.on_decrypt`; their order only chooses which error is raised.
Refusals are one outcome, `rejected`. Base64, JSON and
UTF-8 are injective on what is stored and are left out, as is HKDF: the
commitment is an injective function of data key and message ID. One reader is
enough, reads having no effect that another call could see.

Callers may pass `Metadata` of their own, also the keys of an object they read
before (`UserMetadata`); the encryption metadata is laid over it, by `put_object`
for every suite and by `create_multipart_upload` for the new upload.
`ValidMaterials` are the checks of materials between keyring and pipeline.

Metadata are functions from keys to values. `ObjectMetadata` defines `:>` and `@@` itself,
as the module TLC does, so that proofs can expand them.

### PluginContext

`local` holds the attributes of the plugin's `threading.local()`, `stack` the calls
a thread is in, innermost last. botocore calls the plugin's handlers for calls
on the wrapped client too, and these are modelled. A call is cut where it can
fail or where other code runs: when it begins, before the handler, while a `Body` is read, around the
nested fetch, at its end (`Return`, with the `finally` clauses in `Finally`). `as`
and `seen` record what a handler took its call for and which arguments it
worked with. A `Body` whose `read` calls the same client is not modelled (section 7).

### DeleteObjects

Objects have versions if `Versioned`; a delete without `VersionId` then adds a
delete marker. A `VersionId` is the place of a version or of a delete marker, and a call may name
any of them, or none, for each key, as `delete_object(s)` pass on what they are given. What is deleted by its
`VersionId` leaves the value `Gone` in its place; if that was the newest marker, the version
under it is current again. `lifts` counts, as a history, the markers so removed. The instruction file beside a key is the write it belongs to. Requests
are in `wire`: they are served and answered (`Serve`, with keys refused in the answer
of `delete_objects`), served with the answer lost and repeated by boto3 (`ServeUnheard`), or
served after their caller gave up (`ServeLate`). `begun`, `removed` and `lifts` are
history. What callers name and that they repeat a call is the application's part (external). Writers are other clients that keep instruction files (external); this library
writes none.

## 3. The runs

| run | expected | shows |
|---|---|---|
| `upload` | pass | below |
| `driver` | pass | below |
| `stream` | pass | below |
| `lines` | pass | below |
| `object` | pass | below |
| `plugin` | pass | below |
| `delete` | pass | below |
| `upload_gap`, `upload_final`, `stream_zero`, `object_reserved`, `delete_refused` | violation | one finding each, section 6 |

**`upload`** (2 threads, 1 upload, 3 parts, thread symmetry; about 98,000 states).
Two threads are enough for every race the code has: a step of one between two
steps of the other. Uploads share nothing but the registry, whose entries are
independent, so one is enough; three parts let the one-slot cache be overwritten
twice and leave a part on each side of a gap.

* `OneCiphertextPerPart`: the bytes about to be sent, stored and acknowledged
  for a part number are the same, over all retries and threads.
* `AckedPartStaysStored`: an ETag handed out stays valid until an abort, also when
  a late duplicate of the part arrives after it.
* `CompletedInCipherOrder`: S3's order of parts is the cipher's order.
* `FullListDecrypts`: a completed object listing every encrypted part is the whole
  output of the cipher with exactly one tag, at its end.
* `DroppedPipelineIsDead` (action property): no call revives a dropped pipeline.
* `ImplementsSealedUpload`: refinement of `SealedUpload`.
* `IInv`: the inductive invariant of section 5, tried here first. It contains the
  type invariant.

`upload_part` accepts part numbers above a gap and complete accepts a
partial list, so no invariant says that *every* completed object decrypts.
`FullListDecrypts` states the condition on the caller under which it does.

**`driver`** (2 threads with an upload each, up to 3 chunks; about 391,000 states).
Zero, one and two chunks are the three cases of the read-ahead, the third chunk
makes its loop turn once more between the first and the last.

* `ObjectIsWhole`: what becomes visible in S3 has every chunk, in order, with its
  tag, also when the driver never learns that complete succeeded and aborts.
* `EndedIsForgotten`: no cipher state survives the call, however it ends, and a
  file `upload_file` opened is closed, unless create has raised.
* `OriginalErrorMeansAborted`: if the original error propagates, and not one of
  the abort, S3 holds no parts.
* `FailsOnlyForCause`: a driver comes to its abort only if reading, encrypting or S3 has
  failed or its source is empty; none of the client's checks (two lookups,
  sequence and final part in `encrypt_part`, final part in complete) refuses what its own
  driver asks of it.
* `EveryCallEnds` (liveness), through every failure and the abort.
* `DriverInv`: the inductive invariant, beside `DTypeOK`.

Deadlock is not checked here, since all drivers may have ended.

**`stream`** (tag of 2, block of 3, objects up to 7 bytes, reads of 0, 1, 2, 3 and
all; about 14,000 states). Tag and block differ in length, so that no accident of
equal lengths hides an error, and 7 bytes are two blocks and a piece, or more
than three tags. 16 and 16 in the code are covered by the proofs.

* `OnlyPlaintextReleased`, `CleanEndIsWhole`: no tag or padding comes out, and an
  end without exception is the whole, authenticated plaintext.
* `ReleasedIsAuthentic`: without delayed authentication nothing leaves that was not
  authenticated, altered and truncated bodies included.
* `EveryReadReturns` (liveness): the loop waiting for plaintext cannot spin.
* `IInv`: the inductive invariant.

**`lines`** (plaintexts of up to 5 bytes, both values of `keepends`; about 8,700
states). Five bytes hold two line ends of two bytes each and a byte between
them, cut in every way.

* `YieldsLinesOnly`, `YieldsAllLines`: what is yielded is a prefix of the lines of
  the whole plaintext, and all of them when the generator ends without an exception. A CR LF
  cut in two is one end.
* `IInv`: the inductive invariant.

**`object`** (2 writes, contexts: empty, a caller's own, one with a reserved key; two
of the three commitment policies, every switch; about 1,991,000 states). Two writes are what a mixture
takes. Of the policies, `FORBID_ENCRYPT_ALLOW_DECRYPT` decrypts exactly as
`REQUIRE_ENCRYPT_ALLOW_DECRYPT` does and is left out of the readers' (writers use
all three).

* `ReadHonoursConfig`, `ContextBinding`: the checks look at metadata, these
  properties at the write the *body* came from. They say that no mixture of an
  object with another write's instruction file gets around commitment policy, legacy
  switches or encryption context.
* `MixUpsNeedOptIn`: bytes that no writer wrote reach a caller only if object and instruction file
  come from different writes, never under `REQUIRE_ENCRYPT_REQUIRE_DECRYPT`, and only to a client with
  legacy modes enabled or, for a body without key commitment, delayed authentication.
* `PermittedReadSucceeds`: and nothing that should be readable is refused,
  whatever is stored under the instruction file's name.
* `WritesInv`: the inductive invariant, beside `TypeOK`.

**`plugin`** (2 threads, 2 contexts, 2 keys, 2 suffixes, 3 calls; about 54,000 states).
Two calls of one thread, one after the other, and one of another thread beside
them are what it takes for values to pass from one call to another.

* `HandlersSeeTheirCall`: a handler works with the arguments of its own call, never
  with those of another thread or of an earlier call that failed.
* `OnlyFetchesArePlain`: exactly the nested fetch is handled as an instruction file.
* `FetchesOwnFile`: the file fetched is that of the object asked for, and the fetch
  fetches nothing in turn.
* `NothingLeftBehind`: between calls a thread's attributes are clean.
* `EveryCallEnds` (liveness); `IInv`, the inductive invariant.

**`delete`** (2 keys, 2 callers, versions, 1 write, 1 failure; about 755,000 states).
Two keys let one be refused and the other deleted; two callers let one remove the delete
marker that the other has just made, or made before; one write is one object with its
file, arriving at any point of either call. One failure is a refused key, a lost answer, or a
caller that gives up, leaves a late request behind and repeats. The proofs are for any
number of callers, writes and failures, and for buckets without versions too. Callers stop
when their call has returned, so deadlock is not checked.

* `ReturnedMeansDeleted`: when a call returns, what was there when it began is
  gone, but what the answers refuse and what a call has brought back since, by deleting a delete
  marker, however many attempts it took.
* `FilesFollowObjects`: at no step, failure or late request is an object left
  without the instruction file it needs, with the exceptions the definition
  states: objects S3 refused to delete (a finding), deletes of one version or delete
  marker, and objects written or brought back after the call began.
* `RetriedDeleteCompletes` (liveness): repeating a call that raised
  completes it, also where an earlier attempt has left nothing to delete.
* `DeletesInv`: the inductive invariant, beside `TypeOK`.

Every property has a mutant in `PROJECT.json`, a plausible mistake in a mapped
definition under which TLC reports it violated. Mutated forms stand before the
definitions they replace and are marked as such.

## 4. Fairness

* `DFairness`, `WF(DStep(t))`: once called, a driver is straight-line code in one
  thread, and botocore's timeouts and bounded retries end every request, in an error
  if need be. No outcome is assumed: every failure may be chosen every time. Nothing
  obliges a caller to start (`Begin` has no fairness), and a blocked source
  is not modelled.
* `DecryptingStream`, `WF(Loop)`: a read is a loop in the caller's thread, and a read
  of the body returns. That the body raises is possible but nothing counts on it.
* `PluginContext`, `WF(Step(t))`: a thread inside a call runs on, and requests and
  reads of a body end. No outcome is assumed.
* `DeleteObjects`: a request that is waited for is served once requests no longer fail
  (`Serve` with no key refused; `MaxFailures` bounds the failures), and a caller
  whose call raised repeats it, as the docstring of `delete_objects` suggests. Late
  requests and writers have no fairness.
* `MultipartUpload`, `EncryptedObject` and `IterLines` assume none and make no liveness claim:
  callers may stop at any point.

## 5. What is proved

Assumptions, all on numbers and on the domains of parameters:

* `MaxPartAssumption`: `MaxPart` is a positive natural number;
* `MaxChunksAssumption`: a source has at most `MaxPart` chunks. S3 allows 10,000
  parts, and the driver does not check: beyond that its requests fail;
* `LengthAssumption`: tag and block have a positive length, amounts are at most `MaxLen`;
* `MaxCallsAssumption`, `MaxWritesAssumption`, `MaxLenAssumption`, `BoundsAssumption`: the
  bounds on calls, writes, plaintexts and failures are natural numbers;
* `SuffixAssumption`: no suffix is the value that stands for none;
* `PolicyAssumption`, `VersionedAssumption`: the policies are some of the three, a
  bucket has versions or not.

Threads, callers, uploads, keys, contexts and suffixes are arbitrary sets, finite or not.

**`MultipartUpload_proofs`.** `TypeCorrect` needs no other invariant. None of the safety
properties is inductive: that a retry repeats the right bytes depends on the
cache, the cache on what the cipher did, and both on what other threads hold
between two steps. `IInv` relates all to `out`:

* `CipherInv`: the cache is the newest output, parts ascend strictly below
  `_next_part`, the only tag is on the newest output of a finished cipher;
* `StoreInv`: whatever S3 stores or a caller holds for part *p* is a position at
  which *p* was encrypted (and there is only one, by the previous clause);
* `CallInv`: so is whatever a thread carries between encryption and request, or
  between listing and completing; past line 703 the cipher is finished.

`PipelineStep`, `StoreStep` and `CallStep` preserve the three, after
`PipelineMoves`, `StoreMoves` and `CallMoves` have reduced the actions to the
few that touch each. From `Inductive` follow `OneCiphertext`, `AckedStays`,
`CipherOrder` and `FullListGood`; `DroppedIsDead` proves the action property and
`Refinement` that the specification implements `SealedUpload`.

**`DecryptingStream_proofs`.** `IInv` says that until finalization the decryptor holds
exactly what was consumed and not released, with a full tag, or a full block, held
back once anything was released; and that after a finalization without error all was
consumed and verified. `UpdateFacts` and `FinalizeStep` carry the arithmetic.
`Inductive` gives `NoTagReleased`, `EndIsWhole` and, for the buffered path,
`BufferedIsAuthentic`, for every length of tag and block.

**`PluginContext_proofs`.** What a handler has seen does not say what the
attributes are while it runs, so `IInv` gives, for each thread, its attributes by
the depth of its stack (`ThreadInv`): none outside a call; inside one call exactly
its arguments (`InCall`); inside a `get_object` and its one fetch the mark of the
fetch, over a call that has read its arguments (`InFetch`). One lemma per action
keeps `ThreadInv`, in terms of the changed thread's attributes and stack only;
`Invariance` combines them. `CallIsolation`, `PlainFetches`, `OwnFile` and
`CleanBetweenCalls` follow.

**`MultipartDriver_proofs`.** `StepImplements` shows that each step of a driver is a step
of `MultipartUpload` or leaves its variables alone, which gives `DriversUseUploads`
(`DSpec => Spec`, by the construction of the module; a lemma) and with it `IInv` of `MultipartUpload`. That a
driver is one caller among many does not say where its call is while its own locals
are in some state, so `DriverInv` adds, for each driver: no other has its upload; the call
its program counter stands for (`CallOfDriver`); which chunks it holds and which it has
sent (`SourceInv`); that the cipher has seen exactly the parts it has sent
(`CipherOfDriver`); and what the registry and S3 hold of its upload (`UploadOfDriver`).
`OtherDrivers` disposes of the steps of other threads, one lemma per phase of the call
does the rest. `AlwaysFound` and `NeverRefused` show that the steps for refusals are never taken
with a source that is not empty. `ObjectsAreWhole` then needs that the list a driver completes with is every part
it encrypted, and `FullListGood` of `MultipartUpload_proofs`; `EndedForgotten`, `OriginalErrors`
and `FailuresHaveCause` follow from `DriverInv`.

**`EncryptedObject_proofs`.** The properties speak of the write a body came from, the code
sees keys of a dict that was put together from two requests. `WritesInv` bridges the
two: every request under way carries the metadata of one write in one format, with
the key part and the content part in one place or apart (`ObjectRequest`, `FileRequest`,
`KeyPart`, `ContentPart`), and what a read has `Gathered` is what one object, or one object and
one file, can give. `OwnMetadata`, `ForeignWrites` and `SplitWrites` show that the writers
send only that, also with stray keys in the caller's `Metadata`; `ReadAlone` and `ReadTwo` that
one and two requests gather only that. `DecryptsPermitted` is the argument for
`ReadsHonourConfig` and `ContextsBound`: what `Accepts` lets
through decrypts only under the key and context of the write it came from. `FormatUnderKey`,
`MatchedDeciphers` and `MixedBody` give `MixUpsAreOptedInto`: metadata of one write decipher its
body, and if those of two writes pass the commitment check, the suite is one without commitment.
`CompleteDecrypts` is its converse, for `PermittedReadsSucceed`.

**`DeleteObjects_proofs`.** That an object is gone at the end of a call depends on what
S3 holds between its two requests, while others write and late requests arrive.
In `DeletesInv` a write is `Settled` if a delete marker comes after it, so that nothing served
later can bring it back before a delete marker of its key is removed; `lifts`, which only grows, says
whether one was (`SettledKept`, `CallOKKept`). Past its first request, all that was there when a call began
is settled, but for what S3 refused, and versions named by `VersionId` are gone
(`ObjectSettled`, also of requests for files that arrive late); a write that is still on its
way is not among what any call saw when it began (`Unserved`), or storing it would break
that; and a call that has returned has deleted the files. `SettledIsNotCurrent` needs that a set of indices has a
largest one, proved in `LargestIndex` from the library's well-foundedness of `<`.
`ReturnedDeleted` and `FilesGoLast` follow.

**`IterLines_proofs`.** The properties compare two splittings, of the whole plaintext and
of the pieces that chunks make of it. `PendingInv` says that the pending bytes are the plaintext
from the end of the last line yielded to where it is read, and that no line ends
in them but at the last byte, where a CR may be half of an end. `EndsInPiece` is the
reason why only that byte can be wrong: elsewhere a byte and its successor lie in the piece. `CountInPiece`
adds up the ends in a piece and those before it, so that `LinesOfPiece` can number its lines
as the plaintext's. `LineEndExists` and `CountInPiece` would be inductions over positions;
both are argued from the least position at which the claim fails (`LeastNumber`, from the
library's `WFMin`). `OnlyLines` and `AllLines` hold for every length and every cut.

**Only model-checked.** Liveness, which is out of this prover's reach: `EveryCallEnds` (of the
drivers and of the event handlers), `EveryReadReturns`, `RetriedDeleteCompletes`. All
invariants and the other action properties of the passing runs are proved. No recursive operator is used.

## 6. Findings

Each of the first five is a run in which TLC violates what a docstring, an error message or a
comment says. `PROJECT.json` quotes the lines.

1. `upload_gap`: `_next_part` advances before `update()` can raise (`pipelines.py`
   296-298). The part can then not be repeated, and its successor is accepted.
2. `upload_final`: complete checks that the final part was *encrypted*, its error
   message says *uploaded* (`__init__.py` 703).
3. `stream_zero`: `read(0)` finalizes the stream (`stream.py` 90).
4. `object_reserved`: a context with `kms_cmk_id` is accepted on write and refused
   on read (`kms_keyring.py` 171).
5. `delete_refused`: `delete_objects` deletes the instruction file of an object that
   S3 refused to delete (`__init__.py` 497).

Met while modelling, in the models where the properties name them as exceptions, and without a
run of their own:

* repeating the newest part with `IsLastPart=True`, as complete's error message
  advises, returns the cached bytes without a tag (`pipelines.py` 284);
* a failing create leaves the file `upload_file` opened unclosed (`__init__.py` 832;
  exception in `EndedIsForgotten`);
* `upload_fileobj` of an empty source raises (`__init__.py` 843; exception in
  `FailsOnlyForCause`);
* `read()` returns after the first piece of a body that comes in pieces (`stream.py`
  106);
* an object written anew, under another suite, with the `Metadata` it was read with
  cannot be read (`__init__.py` 219; exception in `PermittedReadSucceeds`);
* `delete_objects` ignores the errors in its second answer (`__init__.py` 501;
  exception in `ReturnedMeansDeleted`), and deleting an old version deletes the current
  version's instruction file (`__init__.py` 456; exception in `FilesFollowObjects`);
* deleting a delete marker brings an object back and deletes its instruction file in the same
  call, and an object written between the two requests of a delete loses its file to the second
  (`__init__.py` 448, 456; exceptions in `FilesFollowObjects`).

## 7. Not modelled, and the plan

Not modelled:

* exceptions, user agent and package files (no state);
* type checks of `S3Keyring` and the dict conversions of the materials manager, which
  guard against callers of other types; lengths and numeric ids of the suites; HKDF;
* a `Body` whose `read` calls the same client: the handler reads the body before the
  encryption context, and the inner call's cleanup would clear it (`__init__.py` 202);
* two `S3EncryptionClient`s around one boto3 client: the handlers of both then run for
  every call. Neither code nor docs say what this should do, so there is nothing
  to hold it against;
* the examples, test servers, CDK stack and release validation, which are not part
  of the library.

Done: multipart uploads with their abstraction, the drivers, the stream
with its buffered path, line splitting, the put and get path with the caller's
metadata, the event handlers and the deletes, with proofs of all their invariants. Left:

1. action properties: what a step of a delete, of a read or of a driver may never undo;
2. the composition of `IterLines` with `DecryptingStream`, which today meet only in prose: a chunk
   is what a `read` returns.
