----------------------- MODULE MultipartDriver_proofs -----------------------
(***************************************************************************)
(* Theorems about upload_file and upload_fileobj, for any number of        *)
(* threads, uploads and chunks: the drivers only make calls that           *)
(* MultipartUpload allows, so its theorems hold of them, and with its      *)
(* inductive invariant their own properties follow.                        *)
(***************************************************************************)
EXTENDS MultipartDriver, MultipartUpload_proofs

\* A driver's record, field by field.
LEMMA DriverFields ==
  ASSUME DTypeOK, NEW t \in Threads
  PROVE  /\ drv[t] \in Driver
         /\ drv[t].up \in Uploads
         /\ drv[t].total \in 0..MaxChunks /\ drv[t].read \in 0..MaxChunks
         /\ drv[t].part \in 0..MaxChunks
         /\ drv[t].cur \in BOOLEAN /\ drv[t].nxt \in BOOLEAN /\ drv[t].failed \in BOOLEAN
         /\ drv[t].owns \in BOOLEAN /\ drv[t].open \in BOOLEAN
BY DEF DTypeOK, Driver

\* Chunks are numbered by parts S3 accepts.
LEMMA ChunkBound == MaxChunks \in Nat /\ MaxPart \in Nat /\ MaxChunks <= MaxPart
BY MaxChunksAssumption, MaxPartAssumption

\* Setting one driver leaves the others.
LEMMA SetDriver ==
  ASSUME DTypeOK, NEW t \in Threads, NEW d, Set(t, d)
  PROVE  drv'[t] = d /\ \A s \in Threads : s # t => drv'[s] = drv[s]
BY DEF DTypeOK, Set

\* The same of the calls.
LEMMA SetCall ==
  ASSUME TypeOK, NEW t \in Threads, NEW c, Goto(t, c)
  PROVE  call'[t] = c /\ \A s \in Threads : s # t => call'[s] = call[s]
BY DEF TypeOK, Goto

-----------------------------------------------------------------------------
(* The client's checks never refuse a driver *)

\* A driver in its loop finds its upload registered, the part it uploads is
\* neither the one the cache holds nor out of sequence nor after the final
\* one: of the ways its calls can go, those that refuse it are not possible.
LEMMA NeverRefused ==
  ASSUME DTypeOK, DriverInv, NEW t \in Threads
  PROVE  /\ drv[t].at = "loop" => drv[t].up \in registry
         /\ EncryptChunk(t) => EncryptPart(t) /\ drv[t].at = "uploading" /\ UNCHANGED drv
         /\ ChunkFailed(t) => /\ EncryptPartRaises(t) \/ SendPartLost(t) \/ SendPartFailed(t)
                              /\ drv[t].at = "uploading" /\ Fail(t, "abort")
<1> DEFINE d == drv[t]
           u == d.up
           c == call[t]
<1>1. /\ TypeOK /\ u \in Uploads /\ d.total \in Nat /\ d.part \in Nat /\ d.read \in Nat
      /\ d.nxt \in BOOLEAN
  BY DriverFields, ChunkBound DEF DTypeOK
<1>2. CallOfDriver(t) /\ SourceInv(d) /\ CipherOfDriver(t) /\ UploadOfDriver(t)
  BY DEF DriverInv
<1>3. d.at = "loop" => u \in registry
  BY <1>2 DEF UploadOfDriver, Active
<1>4. ASSUME d.at = "uploading", c.pc = "encrypt" PROVE ~IsRetry(c) /\ InSequence(c)
  <2>1. c.up = u /\ c.part = d.part /\ d.part > 0 /\ d.part <= d.total
    BY <1>1, <1>2, <1>4 DEF CallOfDriver, SourceInv
  <2>2. /\ last_part[u] = d.part - 1 /\ next_part[u] = d.part
        /\ final_seen[u] <=> (d.part - 1 = d.total /\ d.total > 0)
    BY <1>1, <1>2, <1>4 DEF CipherOfDriver, Active
  <2>3. ~final_seen[u]
    BY <1>1, <2>1, <2>2
  <2>4. last_part[u] # d.part
    BY <1>1, <2>2
  <2> QED
    BY <2>1, <2>2, <2>3, <2>4 DEF IsRetry, InSequence
<1>5. d.at = "uploading" => ~EncryptPartRetry(t) /\ ~EncryptPartRejected(t)
  BY <1>4 DEF EncryptPartRetry, EncryptPartRejected
<1> QED
  BY <1>3, <1>5 DEF EncryptChunk, ChunkFailed

\* So upload_part and complete_multipart_upload always get past the lookup.
LEMMA AlwaysFound ==
  ASSUME DTypeOK, DriverInv, NEW t \in Threads
  PROVE  /\ \A body : UploadChunk(t, body) =>
              /\ drv[t].at = "loop" /\ drv[t].cur /\ Set(t, ReadAhead(t, "uploading"))
              /\ UploadPart(t, drv[t].up, drv[t].part + 1, IsLast(t), body)
         /\ Complete(t) =>
              /\ drv[t].at = "loop" /\ ~drv[t].cur /\ At(t, "completing")
              /\ CompleteMultipartUpload(t, drv[t].up, 1..drv[t].part)
BY NeverRefused DEF UploadChunk, Complete

-----------------------------------------------------------------------------
(* The drivers are callers of MultipartUpload *)

\* The parts a driver lists are parts it has ETags of, and the part numbers
\* it counts up are numbers S3 accepts: each of its steps is one of the
\* client's, or none.
LEMMA StepImplements ==
  ASSUME DTypeOK, DriverInv, [DNext]_dvars
  PROVE  [Next]_vars
<1>0. TypeOK
  BY DEF DTypeOK
<1>1. CASE UNCHANGED dvars
  BY <1>1 DEF dvars
<1>2. ASSUME NEW t \in Threads, DStart(t) PROVE [Next]_vars
  BY <1>2 DEF DStart, Refuse, PutSmallFile, Begin
<1>3. ASSUME NEW t \in Threads, DStep(t) PROVE [Next]_vars
  <2> DEFINE d == drv[t]
  <2>1. d.up \in Uploads /\ d.part \in Nat /\ d.read \in Nat /\ d.total \in 0..MaxChunks
    BY DriverFields, ChunkBound
  <2>2. CallOfDriver(t) /\ SourceInv(d) /\ CipherOfDriver(t)
    BY DEF DriverInv
  <2>3. ASSUME UNCHANGED vars PROVE [Next]_vars
    BY <2>3
  <2>4. ASSUME Start(t) \/ Step(t) PROVE [Next]_vars
    BY <2>4 DEF Next
  <2>5. ASSUME NEW body \in Bodies, UploadChunk(t, body) PROVE Start(t)
    <3>1. d.part + 1 \in 0..MaxPart
      BY <2>1, <2>2, <2>5, ChunkBound DEF UploadChunk, SourceInv
    <3>2. IsLast(t) \in BOOLEAN
      BY DEF IsLast
    <3>3. UploadPart(t, d.up, d.part + 1, IsLast(t), body)
      BY <2>5, AlwaysFound
    <3> QED
      BY <2>1, <2>5, <3>1, <3>2, <3>3 DEF Start
  <2>6. ASSUME Complete(t) PROVE Start(t)
    <3>1. 1..d.part \subseteq Acked(d.up)
      <4>1. d.part <= MaxPart
        BY DriverFields, ChunkBound
      <4>2. \A p \in 1..d.part : acked[d.up][p] # NoCt
        BY <2>2, <2>6 DEF Complete, CipherOfDriver, Active
      <4> QED
        BY <2>1, <4>1, <4>2, ChunkBound DEF Acked, S3Part
    <3>2. CompleteMultipartUpload(t, d.up, 1..d.part)
      BY <2>6, AlwaysFound
    <3> QED
      BY <2>1, <3>1, <3>2 DEF Start
  <2>7. ASSUME Create(t) \/ CreateLost(t) \/ Abort(t) PROVE Start(t)
    BY <2>1, <2>7 DEF Start, Create, CreateLost, Abort
  <2>8. ASSUME \/ EncryptChunk(t) \/ ChunkUploaded(t) \/ ChunkFailed(t)
               \/ CompleteChecked(t) \/ CompleteSent(t) \/ CompleteFailed(t)
               \/ Completed(t) \/ Aborted(t) \/ AbortLost(t) \/ AbortFailed(t)
        PROVE  Step(t)
    BY <2>8 DEF Step, EncryptChunk, ChunkUploaded, ChunkFailed, CompleteChecked,
                CompleteSent, CompleteFailed, Completed, Aborted, AbortLost, AbortFailed
  <2>9. ASSUME \/ PutReturns(t) \/ PutRaises(t) \/ CreateFailed(t)
               \/ ReadFirst(t) \/ ReadRaises(t)
        PROVE  UNCHANGED vars
    BY <2>9 DEF PutReturns, PutRaises, CreateFailed, ReadFirst, ReadRaises
  <2> QED
    BY <1>3, <2>3, <2>4, <2>5, <2>6, <2>7, <2>8, <2>9 DEF DStep
<1> QED
  BY <1>1, <1>2, <1>3 DEF DNext

-----------------------------------------------------------------------------
(* A step of one driver leaves the others alone *)

\* Two records that differ at most in their position.
SameButAt(e, d) ==
  /\ e.up = d.up /\ e.total = d.total /\ e.read = d.read /\ e.cur = d.cur /\ e.nxt = d.nxt
  /\ e.part = d.part

\* The three ways a driver moves on without touching its counters.
LEMMA Moves ==
  ASSUME DTypeOK, NEW t \in Threads, NEW at
  PROVE  /\ At(t, at) => /\ drv'[t].at = at /\ SameButAt(drv'[t], drv[t])
                         /\ drv'[t].failed = drv[t].failed
                         /\ drv'[t].owns = drv[t].owns /\ drv'[t].open = drv[t].open
         /\ Fail(t, at) => /\ drv'[t].at = at /\ SameButAt(drv'[t], drv[t])
                           /\ drv'[t].failed = TRUE
                           /\ drv'[t].owns = drv[t].owns /\ drv'[t].open = drv[t].open
         /\ Leave(t, at) => /\ drv'[t].at = at /\ SameButAt(drv'[t], drv[t])
                            /\ drv'[t].failed = drv[t].failed
                            /\ drv'[t].owns = drv[t].owns
                            /\ drv'[t].open = (drv[t].open /\ ~drv[t].owns)
<1>1. drv[t] \in Driver
  BY DriverFields
<1>2. ASSUME At(t, at) PROVE drv'[t] = [drv[t] EXCEPT !.at = at]
  BY <1>2, SetDriver DEF At
<1>3. ASSUME Fail(t, at) PROVE drv'[t] = [drv[t] EXCEPT !.at = at, !.failed = TRUE]
  BY <1>3, SetDriver DEF Fail
<1>4. ASSUME Leave(t, at)
      PROVE  drv'[t] = [drv[t] EXCEPT !.at = at, !.open = @ /\ ~drv[t].owns]
  BY <1>4, SetDriver DEF Leave
<1>5. ASSUME At(t, at) PROVE /\ drv'[t].at = at /\ SameButAt(drv'[t], drv[t])
                             /\ drv'[t].failed = drv[t].failed
                             /\ drv'[t].owns = drv[t].owns /\ drv'[t].open = drv[t].open
  BY <1>1, <1>2, <1>5 DEF Driver, SameButAt
<1>6. ASSUME Fail(t, at) PROVE /\ drv'[t].at = at /\ SameButAt(drv'[t], drv[t])
                               /\ drv'[t].failed = TRUE
                               /\ drv'[t].owns = drv[t].owns /\ drv'[t].open = drv[t].open
  BY <1>1, <1>3, <1>6 DEF Driver, SameButAt
<1>7. ASSUME Leave(t, at) PROVE /\ drv'[t].at = at /\ SameButAt(drv'[t], drv[t])
                                /\ drv'[t].failed = drv[t].failed
                                /\ drv'[t].owns = drv[t].owns
                                /\ drv'[t].open = (drv[t].open /\ ~drv[t].owns)
  BY <1>1, <1>4, <1>7 DEF Driver, SameButAt
<1> QED
  BY <1>5, <1>6, <1>7

\* All that the invariant says of the upload u of a driver.
SameUpload(u) ==
  /\ u \in registry' <=> u \in registry
  /\ next_part'[u] = next_part[u] /\ final_seen'[u] = final_seen[u]
  /\ last_part'[u] = last_part[u] /\ out'[u] = out[u]
  /\ s3state'[u] = s3state[u] /\ s3object'[u] = s3object[u] /\ acked'[u] = acked[u]

\* The client's operations touch the upload they are called for and no other.
LEMMA OwnUploadOnly ==
  ASSUME DTypeOK, DriverInv, NEW t \in Threads, DStart(t) \/ DStep(t),
         NEW u \in Uploads, u # drv[t].up
  PROVE  SameUpload(u)
<1> DEFINE v == drv[t].up
<1>0. TypeOK /\ v \in Uploads /\ CallOfDriver(t)
  BY DriverFields DEF DTypeOK, DriverInv
<1>1. ASSUME UNCHANGED vars PROVE SameUpload(u)
  BY <1>1 DEF vars, pipeline, s3, SameUpload
<1>2. CASE Create(t) \/ CreateLost(t)
  BY <1>0, <1>2 DEF Create, CreateLost, CreateMultipartUpload, CreateMultipartUploadLost,
                    SameUpload, TypeOK, pipeline
<1>3. ASSUME NEW body \in Bodies, UploadChunk(t, body) PROVE SameUpload(u)
  BY <1>3, AlwaysFound DEF UploadPart, SameUpload, pipeline, s3
<1>4. CASE EncryptChunk(t)
  <2>1. call[t].up = v
    BY <1>0, <1>4 DEF EncryptChunk, CallOfDriver
  <2>2. EncryptPart(t)
    BY <1>4, NeverRefused
  <2>3. registry' = registry /\ UNCHANGED s3 /\ acked' = acked
    BY <2>2 DEF EncryptPart
  <2>4. /\ next_part'[u] = next_part[u] /\ final_seen'[u] = final_seen[u]
        /\ last_part'[u] = last_part[u]
    BY <1>0, <2>1, <2>2 DEF EncryptPart, TypeOK
  <2>5. out'[u] = out[u]
    BY <1>0, <2>1, <2>2 DEF EncryptPart, TypeOK
  <2> QED
    BY <2>3, <2>4, <2>5 DEF SameUpload, s3
<1>5. CASE ChunkUploaded(t) \/ ChunkFailed(t)
  <2>1. call[t].up = v
    BY <1>0, <1>5 DEF ChunkUploaded, ChunkFailed, CallOfDriver
  <2>2. CASE SendPart(t) \/ SendPartLost(t) \/ SendPartFailed(t)
    BY <1>0, <2>1, <2>2 DEF SendPart, SendPartLost, SendPartFailed, SameUpload, TypeOK,
                            pipeline, s3
  <2>3. CASE EncryptPartRaises(t)
    BY <1>0, <2>1, <2>3 DEF EncryptPartRaises, SameUpload, TypeOK, s3
  <2> QED
    BY <1>5, <2>2, <2>3, NeverRefused DEF ChunkUploaded
<1>6. CASE Complete(t) \/ CompleteChecked(t)
  BY <1>6, AlwaysFound DEF CompleteChecked, CompleteMultipartUpload, CheckFinalPart,
                           SameUpload, pipeline, s3
<1>7. CASE CompleteSent(t) \/ CompleteFailed(t) \/ Completed(t)
  <2>1. call[t].up = v
    BY <1>0, <1>7 DEF CompleteSent, CompleteFailed, Completed, CallOfDriver
  <2> QED
    BY <1>0, <1>7, <2>1 DEF CompleteSent, CompleteFailed, Completed, SendComplete,
      SendCompleteLost, SendCompleteFailed, CompletePop, S3Complete, SameUpload, TypeOK,
      pipeline, s3
<1>8. CASE Abort(t)
  BY <1>0, <1>8 DEF Abort, AbortMultipartUpload, SameUpload, pipeline, s3
<1>9. CASE Aborted(t) \/ AbortLost(t) \/ AbortFailed(t)
  <2>1. call[t].up = v
    BY <1>0, <1>9 DEF Aborted, AbortLost, AbortFailed, CallOfDriver
  <2> QED
    BY <1>0, <1>9, <2>1 DEF Aborted, AbortLost, AbortFailed, SendAbort, SendAbortFailed, SameUpload,
                            TypeOK, pipeline, s3
<1>10. ASSUME \/ DStart(t)
              \/ PutReturns(t) \/ PutRaises(t) \/ CreateFailed(t)
              \/ ReadFirst(t) \/ ReadRaises(t)
       PROVE  UNCHANGED vars
  BY <1>10 DEF DStart, Refuse, PutSmallFile, Begin, PutReturns, PutRaises, CreateFailed,
               ReadFirst, ReadRaises
<1> QED
  BY <1>1, <1>2, <1>3, <1>4, <1>5, <1>6, <1>7, <1>8, <1>9, <1>10 DEF DStep

\* A driver runs in its own thread.
LEMMA OwnThreadOnly ==
  ASSUME DTypeOK, NEW t \in Threads, DStart(t) \/ DStep(t), NEW s \in Threads, s # t
  PROVE  drv'[s] = drv[s] /\ call'[s] = call[s]
<1>0. TypeOK
  BY DEF DTypeOK
<1>1. UNCHANGED drv \/ \E d : Set(t, d)
  BY DEF DStart, Refuse, PutSmallFile, Begin, DStep, PutReturns, PutRaises, Create,
    CreateLost, CreateFailed, ReadFirst, ReadRaises, UploadChunk, EncryptChunk,
    ChunkUploaded, ChunkFailed, Complete, CompleteChecked, CompleteSent, CompleteFailed,
    Completed, Abort, Aborted, AbortLost, AbortFailed, At, Fail, Leave
<1>2. UNCHANGED call \/ \E c : Goto(t, c)
  <2>1. CASE UNCHANGED vars
    BY <2>1 DEF vars
  <2>2. ASSUME NEW u, CreateMultipartUpload(t, u) \/ CreateMultipartUploadLost(t, u)
        PROVE  UNCHANGED call
    BY <2>2 DEF CreateMultipartUpload, CreateMultipartUploadLost
  <2>3. ASSUME Step(t) PROVE \E c : Goto(t, c)
    BY <2>3 DEF Step, Return, EncryptPartRetry, EncryptPartRejected, EncryptPartRaises,
      EncryptPart, SendPart, SendPartLost, SendPartFailed, CheckFinalPart, SendComplete,
      SendCompleteLost, SendCompleteFailed, CompletePop, SendAbort, SendAbortFailed
  <2>4. ASSUME NEW u, NEW p, NEW last, NEW body, UploadPart(t, u, p, last, body)
        PROVE  \E c : Goto(t, c)
    BY <2>4 DEF UploadPart
  <2>5. ASSUME NEW u, NEW listed,
               CompleteMultipartUpload(t, u, listed) \/ AbortMultipartUpload(t, u)
        PROVE  \E c : Goto(t, c)
    BY <2>5 DEF CompleteMultipartUpload, AbortMultipartUpload
  <2>6. \/ UNCHANGED vars
        \/ Create(t) \/ CreateLost(t) \/ Complete(t) \/ Abort(t)
        \/ Step(t) \/ \E body \in Bodies : UploadChunk(t, body)
    BY DEF DStart, Refuse, PutSmallFile, Begin, DStep, PutReturns, PutRaises,
      CreateFailed, ReadFirst, ReadRaises, EncryptChunk, ChunkUploaded, ChunkFailed,
      CompleteChecked, CompleteSent, CompleteFailed, Completed, Aborted, AbortLost,
      AbortFailed, Step
  <2> QED
    BY <2>1, <2>2, <2>3, <2>4, <2>5, <2>6 DEF Create, CreateLost, Complete, Abort, UploadChunk
<1>3. drv'[s] = drv[s]
  BY <1>1, SetDriver
<1>4. call'[s] = call[s]
  BY <1>0, <1>2, SetCall
<1> QED
  BY <1>3, <1>4

\* The invariant of one driver.
OneDriverInv(t) ==
  CallOfDriver(t) /\ SourceInv(drv[t]) /\ CipherOfDriver(t) /\ UploadOfDriver(t)

\* Another thread's step keeps it.
LEMMA OtherDrivers ==
  ASSUME DTypeOK, DriverInv, NEW t \in Threads, DStart(t) \/ DStep(t),
         NEW s \in Threads, s # t
  PROVE  OneDriverInv(s)'
<1>1. drv'[s] = drv[s] /\ call'[s] = call[s]
  BY OwnThreadOnly
<1>2. SameUpload(drv[s].up)
  BY OwnUploadOnly, DriverFields DEF DriverInv
<1>3. CallOfDriver(s) /\ SourceInv(drv[s]) /\ CipherOfDriver(s) /\ UploadOfDriver(s)
  BY DEF DriverInv
<1>4. CallOfDriver(s)' /\ SourceInv(drv[s])'
  BY <1>1, <1>3 DEF CallOfDriver, SourceInv
<1>5. CipherOfDriver(s)'
  BY <1>1, <1>2, <1>3 DEF CipherOfDriver, SameUpload
<1>6. UploadOfDriver(s)'
  BY <1>1, <1>2, <1>3 DEF UploadOfDriver, SameUpload
<1> QED
  BY <1>4, <1>5, <1>6 DEF OneDriverInv

-----------------------------------------------------------------------------
(* A driver's own steps *)

\* Where the client and S3 stay as they are, what is said of an upload stays.
LEMMA QuietStep ==
  ASSUME DTypeOK, NEW t \in Threads, UNCHANGED vars
  PROVE  SameUpload(drv[t].up) /\ call' = call
BY DEF vars, pipeline, s3, SameUpload

\* The steps before and beside the multipart upload, and the reads, change
\* only the driver's own variables.
LEMMA ReadingSteps ==
  ASSUME DTypeOK, DriverInv, NEW t \in Threads,
         \/ DStart(t) \/ PutReturns(t) \/ PutRaises(t) \/ CreateFailed(t)
         \/ ReadFirst(t) \/ ReadRaises(t)
  PROVE  OneDriverInv(t)'
<1> DEFINE d == drv[t]
           e == drv'[t]
<1>1. /\ d \in Driver /\ d.up \in Uploads
      /\ d.total \in 0..MaxChunks /\ d.read \in 0..MaxChunks /\ d.part \in 0..MaxChunks
      /\ d.cur \in BOOLEAN /\ d.nxt \in BOOLEAN /\ d.failed \in BOOLEAN
      /\ d.owns \in BOOLEAN /\ d.open \in BOOLEAN
  BY DriverFields
<1>2. CallOfDriver(t) /\ SourceInv(d) /\ CipherOfDriver(t) /\ UploadOfDriver(t)
  BY DEF DriverInv
<1>3. UNCHANGED vars
  BY DEF DStart, Refuse, PutSmallFile, Begin, PutReturns, PutRaises, CreateFailed,
         ReadFirst, ReadRaises
<1>4. SameUpload(d.up) /\ call'[t] = call[t]
  BY <1>3, QuietStep
<1>5. ASSUME /\ e.up = d.up /\ e.part = d.part /\ e.at \notin {"uploading", "completing", "aborting"}
             /\ d.at \notin {"uploading", "completing", "aborting"}
             /\ e.at \in Active => d.at \in Active /\ e.total = d.total
             /\ e.total = d.total \/ d.at = "new"
      PROVE  CallOfDriver(t)' /\ CipherOfDriver(t)'
  <2>1. CallOfDriver(t)'
    BY <1>2, <1>4, <1>5 DEF CallOfDriver
  <2>2. CipherOfDriver(t)'
    BY <1>2, <1>4, <1>5 DEF CipherOfDriver, SameUpload
  <2> QED
    BY <2>1, <2>2
<1>6. CASE Refuse(t)
  <2>1. /\ d.at = "new" /\ e.at = "refused" /\ SameButAt(e, d) /\ e.failed = d.failed
        /\ e.owns = d.owns /\ e.open = d.open
    BY <1>6, Moves DEF Refuse
  <2>2. CallOfDriver(t)' /\ CipherOfDriver(t)'
    BY <1>5, <2>1 DEF SameButAt, Active
  <2>3. UploadOfDriver(t)'
    BY <1>2, <1>4, <2>1 DEF UploadOfDriver, SameUpload, SameButAt, Active, Final
  <2>4. SourceInv(e)
    BY <1>1, <1>2, <2>1 DEF SourceInv, SameButAt, Final
  <2> QED
    BY <2>2, <2>3, <2>4 DEF OneDriverInv
<1>7. ASSUME NEW total \in 0..MaxChunks, PutSmallFile(t, total) PROVE OneDriverInv(t)'
  <2>0. d.at = "new" /\ e = [d EXCEPT !.at = "putting", !.total = total, !.read = total,
                                      !.owns = TRUE, !.open = TRUE]
    BY <1>7, SetDriver DEF PutSmallFile
  <2>1. /\ d.at = "new" /\ e.at = "putting" /\ e.up = d.up /\ e.part = d.part
        /\ e.total = total /\ e.read = total
    BY <1>1, <2>0 DEF Driver
  <2>2. CallOfDriver(t)' /\ CipherOfDriver(t)'
    BY <1>5, <2>1 DEF Active
  <2>3. UploadOfDriver(t)'
    BY <1>2, <1>4, <2>1 DEF UploadOfDriver, SameUpload, Active, Final
  <2>4. SourceInv(e)
    BY <1>1, <1>2, <2>1 DEF SourceInv, Final
  <2> QED
    BY <2>2, <2>3, <2>4 DEF OneDriverInv
<1>8. ASSUME NEW total \in 0..MaxChunks, NEW owns \in BOOLEAN, Begin(t, total, owns)
      PROVE  OneDriverInv(t)'
  <2>0. d.at = "new" /\ e = [d EXCEPT !.at = "create", !.total = total, !.owns = owns,
                                      !.open = TRUE]
    BY <1>8, SetDriver DEF Begin
  <2>1. /\ d.at = "new" /\ e.at = "create" /\ e.up = d.up /\ e.part = d.part
        /\ e.total = total /\ e.read = d.read
    BY <1>1, <2>0 DEF Driver
  <2>2. CallOfDriver(t)' /\ CipherOfDriver(t)'
    BY <1>5, <2>1 DEF Active
  <2>3. UploadOfDriver(t)'
    BY <1>2, <1>4, <2>1 DEF UploadOfDriver, SameUpload, Active, Final
  <2>4. SourceInv(e)
    BY <1>1, <1>2, <2>1 DEF SourceInv, Final
  <2> QED
    BY <2>2, <2>3, <2>4 DEF OneDriverInv
<1>9. CASE PutReturns(t) \/ PutRaises(t)
  <2>1. /\ d.at = "putting" /\ e.at \in {"returned", "put_raised"} /\ SameButAt(e, d)
        /\ e.owns = d.owns /\ e.open = (d.open /\ ~d.owns)
    BY <1>9, Moves DEF PutReturns, PutRaises
  <2>2. CallOfDriver(t)' /\ CipherOfDriver(t)'
    BY <1>5, <2>1 DEF SameButAt, Active
  <2>3. UploadOfDriver(t)'
    BY <1>2, <1>4, <2>1 DEF UploadOfDriver, SameUpload, SameButAt, Active, Final
  <2>4. SourceInv(e)
    BY <1>1, <1>2, <2>1 DEF SourceInv, SameButAt, Final
  <2> QED
    BY <2>2, <2>3, <2>4 DEF OneDriverInv
<1>10. CASE CreateFailed(t)
  <2>1. d.at = "create" /\ e.at = "create_raised" /\ SameButAt(e, d)
    BY <1>10, Moves DEF CreateFailed
  <2>2. CallOfDriver(t)' /\ CipherOfDriver(t)'
    BY <1>5, <2>1 DEF SameButAt, Active
  <2>3. UploadOfDriver(t)'
    BY <1>2, <1>4, <2>1 DEF UploadOfDriver, SameUpload, SameButAt, Active, Final
  <2>4. SourceInv(e)
    BY <1>1, <1>2, <2>1 DEF SourceInv, SameButAt, Final
  <2> QED
    BY <2>2, <2>3, <2>4 DEF OneDriverInv
<1>11. CASE ReadFirst(t)
  <2>0. d.at = "first" /\ e = [d EXCEPT !.at = "loop", !.cur = HasMore(t), !.read = Advance(t)]
    BY <1>11, SetDriver DEF ReadFirst
  <2>1. /\ d.at = "first" /\ e.at = "loop" /\ e.up = d.up /\ e.part = d.part
        /\ e.total = d.total /\ e.cur = HasMore(t) /\ e.read = Advance(t)
    BY <1>1, <2>0 DEF Driver
  <2>2. CallOfDriver(t)' /\ CipherOfDriver(t)'
    BY <1>5, <2>1 DEF Active
  <2>3. UploadOfDriver(t)'
    BY <1>2, <1>4, <2>1 DEF UploadOfDriver, SameUpload, Active, Final
  <2>4. SourceInv(e)
    <3>1. d.read = 0 /\ d.part = 0 /\ d.total \in Nat
      BY <1>1, <1>2, <2>1, ChunkBound DEF SourceInv
    <3>2. CASE d.total = 0
      <4>1. ~HasMore(t) /\ Advance(t) = 0
        BY <3>1, <3>2 DEF HasMore, Advance
      <4>2. ~e.cur /\ e.read = 0 /\ e.part = 0 /\ e.total = 0 /\ e.at = "loop"
        BY <2>1, <3>1, <3>2, <4>1
      <4> QED
        BY <4>2 DEF SourceInv, Final
    <3>3. CASE d.total > 0
      <4>1. HasMore(t) /\ Advance(t) = 1
        BY <3>1, <3>3 DEF HasMore, Advance
      <4>2. e.cur /\ e.read = 1 /\ e.part = 0 /\ e.total = d.total /\ e.at = "loop"
        BY <2>1, <3>1, <4>1
      <4> QED
        BY <3>1, <3>3, <4>2 DEF SourceInv, Final
    <3> QED
      BY <3>1, <3>2, <3>3
  <2> QED
    BY <2>2, <2>3, <2>4 DEF OneDriverInv
<1>12. CASE ReadRaises(t)
  <2>1. d.at \in {"first", "loop"} /\ e.at = "abort" /\ SameButAt(e, d) /\ e.failed
    BY <1>12, Moves DEF ReadRaises
  <2>2. CallOfDriver(t)' /\ CipherOfDriver(t)'
    BY <1>5, <2>1 DEF SameButAt, Active
  <2>3. call[t].pc # "pop"
    BY <1>2, <2>1 DEF CallOfDriver, Idle
  <2>4. UploadOfDriver(t)'
    BY <1>2, <1>4, <2>1, <2>3 DEF UploadOfDriver, SameUpload, SameButAt, Active, Final
  <2>5. SourceInv(e)
    BY <1>1, <1>2, <2>1 DEF SourceInv, SameButAt, Final
  <2> QED
    BY <2>2, <2>4, <2>5 DEF OneDriverInv
<1> QED
  BY <1>6, <1>7, <1>8, <1>9, <1>10, <1>11, <1>12 DEF DStart

\* create_multipart_upload opens and registers the driver's upload; when its
\* response is lost only S3 knows of the upload.
LEMMA CreatingSteps ==
  ASSUME DTypeOK, DriverInv, NEW t \in Threads, Create(t) \/ CreateLost(t)
  PROVE  OneDriverInv(t)'
<1> DEFINE d == drv[t]
           e == drv'[t]
           u == d.up
<1>1. TypeOK /\ u \in Uploads /\ d.total \in Nat /\ d.read \in Nat
  BY DriverFields, ChunkBound DEF DTypeOK
<1>2. CallOfDriver(t) /\ SourceInv(d) /\ CipherOfDriver(t) /\ UploadOfDriver(t)
  BY DEF DriverInv
<1>3. /\ d.at = "create" /\ e.at \in {"first", "create_raised"} /\ SameButAt(e, d)
      /\ e.at = "first" => Create(t)
      /\ e.at = "create_raised" => CreateLost(t)
  <2>1. Create(t) => d.at = "create" /\ e.at = "first" /\ SameButAt(e, d)
    BY Moves DEF Create
  <2>2. CreateLost(t) => d.at = "create" /\ e.at = "create_raised" /\ SameButAt(e, d)
    BY Moves DEF CreateLost
  <2> QED
    BY <2>1, <2>2
<1>4. /\ call' = call /\ out' = out /\ next_part' = next_part /\ final_seen' = final_seen
      /\ acked' = acked /\ s3object' = s3object /\ last_part' = last_part
      /\ s3state[u] = "none" /\ s3state'[u] = "open"
      /\ e.at = "first" => u \in registry'
      /\ e.at = "create_raised" => registry' = registry
  BY <1>1, <1>3 DEF Create, CreateLost, CreateMultipartUpload, CreateMultipartUploadLost,
                    TypeOK, pipeline
<1>5. CallOfDriver(t)' /\ call[t].pc = "idle"
  BY <1>2, <1>3, <1>4 DEF CallOfDriver, Idle
<1>6. SourceInv(e)
  BY <1>2, <1>3 DEF SourceInv, SameButAt, Final
<1>7. CipherOfDriver(t)'
  BY <1>1, <1>2, <1>3, <1>4, <1>5 DEF CipherOfDriver, SourceInv, SameButAt, Active
<1>8. UploadOfDriver(t)'
  BY <1>2, <1>3, <1>4, <1>5 DEF UploadOfDriver, SameButAt, Active, Final
<1> QED
  BY <1>5, <1>6, <1>7, <1>8 DEF OneDriverInv

\* upload_part is called with the next part number, and with IsLastPart
\* exactly when the read-ahead found the end of the source.
LEMMA UploadingStep ==
  ASSUME DTypeOK, DriverInv, NEW t \in Threads, NEW body \in Bodies, UploadChunk(t, body)
  PROVE  OneDriverInv(t)'
<1> DEFINE d == drv[t]
           e == drv'[t]
           u == d.up
<1>0. UploadPart(t, u, d.part + 1, IsLast(t), body)
  BY AlwaysFound
<1>1. /\ TypeOK /\ d \in Driver /\ u \in Uploads /\ d.total \in Nat /\ d.read \in Nat
      /\ d.part \in Nat
  BY DriverFields, ChunkBound DEF DTypeOK
<1>2. CallOfDriver(t) /\ SourceInv(d) /\ CipherOfDriver(t) /\ UploadOfDriver(t)
  BY DEF DriverInv
<1>3. /\ d.at = "loop" /\ d.cur
      /\ e = [d EXCEPT !.at = "uploading", !.nxt = HasMore(t), !.read = Advance(t),
                       !.part = @ + 1]
  BY SetDriver, AlwaysFound DEF ReadAhead
<1>4. /\ e.at = "uploading" /\ e.up = u /\ e.total = d.total /\ e.part = d.part + 1
      /\ e.nxt = HasMore(t) /\ e.read = Advance(t)
  BY <1>1, <1>3 DEF Driver
<1>5. d.read = d.part + 1 /\ d.read <= d.total
  BY <1>2, <1>3 DEF SourceInv
<1>6. /\ e.nxt => d.part + 2 <= d.total /\ e.read = d.part + 2
      /\ ~e.nxt => d.part + 1 = d.total /\ e.read = d.part + 1
      /\ IsLast(t) <=> d.part + 1 = d.total
  <2>1. HasMore(t) <=> d.part + 2 <= d.total
    BY <1>1, <1>5 DEF HasMore
  <2>2. /\ HasMore(t) => Advance(t) = d.part + 2
        /\ ~HasMore(t) => Advance(t) = d.part + 1
    BY <1>1, <1>5 DEF Advance
  <2>3. ~HasMore(t) <=> d.part + 1 = d.total
    BY <1>1, <1>5, <2>1
  <2>4. e.nxt <=> HasMore(t)
    BY <1>4
  <2> QED
    BY <1>4, <2>1, <2>2, <2>3, <2>4 DEF IsLast
<1>7. /\ call'[t].pc = "encrypt" /\ call'[t].up = u /\ call'[t].part = d.part + 1
      /\ call'[t].last = IsLast(t)
  BY <1>0, <1>1, SetCall DEF UploadPart
<1>8. SameUpload(u) /\ call[t].pc = "idle"
  BY <1>0, <1>2, <1>3 DEF UploadPart, SameUpload, pipeline, s3, CallOfDriver, Idle
<1>9. CallOfDriver(t)'
  BY <1>4, <1>6, <1>7 DEF CallOfDriver
<1>10. SourceInv(e)
  BY <1>1, <1>4, <1>6 DEF SourceInv, Final
<1>11. CipherOfDriver(t)'
  <2>1. /\ Len(out[u]) = d.part /\ next_part[u] = d.part + 1
        /\ ~final_seen[u]
        /\ \A p \in 1..d.part : acked[u][p] # NoCt
        /\ last_part[u] = Len(out[u])
        /\ \A i \in 1..Len(out[u]) : out[u][i].part = i
    BY <1>1, <1>2, <1>3, <1>5, <1>8 DEF CipherOfDriver, Active
  <2>2. /\ e.part - 1 = d.part
        /\ \A p \in 1..e.part : p # e.part => p \in 1..d.part
        /\ s3state'[u] # "none"
    BY <1>1, <1>2, <1>3, <1>4, <1>8 DEF UploadOfDriver, SameUpload, Active
  <2>3. d.part # d.total
    BY <1>1, <1>5
  <2> QED
    BY <1>4, <1>7, <1>8, <2>1, <2>2, <2>3 DEF CipherOfDriver, SameUpload, Active
<1>12. UploadOfDriver(t)'
  BY <1>2, <1>3, <1>4, <1>7, <1>8 DEF UploadOfDriver, SameUpload, Active, Final
<1> QED
  BY <1>9, <1>10, <1>11, <1>12 DEF OneDriverInv

\* The chunk becomes the next ciphertext, tagged if it is the last.
LEMMA EncryptingStep ==
  ASSUME DTypeOK, DriverInv, NEW t \in Threads, EncryptChunk(t)
  PROVE  OneDriverInv(t)'
<1> DEFINE d == drv[t]
           u == d.up
           c == call[t]
           new == [part |-> c.part, tagged |-> c.last]
<1>0. EncryptPart(t)
  BY NeverRefused
<1>1. /\ TypeOK /\ u \in Uploads /\ d.total \in Nat /\ d.part \in Nat
  BY DriverFields, ChunkBound DEF DTypeOK
<1>2. CallOfDriver(t) /\ SourceInv(d) /\ CipherOfDriver(t) /\ UploadOfDriver(t)
  BY DEF DriverInv
<1>3. d.at = "uploading" /\ c.pc = "encrypt" /\ drv' = drv /\ d.part > 0
  BY <1>0, <1>2, NeverRefused DEF EncryptPart, SourceInv
<1>4. c.up = u /\ c.part = d.part /\ (c.last <=> d.part = d.total)
  BY <1>2, <1>3 DEF CallOfDriver
<1>5. /\ call'[t].pc = "send" /\ call'[t].up = u /\ call'[t].part = d.part
      /\ call'[t].last = c.last
  <2>1. call'[t] = Sending(c, Len(out[u]) + 1)
    BY <1>0, <1>1, <1>4, SetCall DEF EncryptPart
  <2> QED
    BY <1>4, <2>1 DEF Sending
<1>6. /\ out'[u] = Append(out[u], new) /\ next_part'[u] = next_part[u] + 1
      /\ final_seen'[u] <=> (final_seen[u] \/ c.last)
      /\ last_part'[u] = d.part
      /\ s3state' = s3state /\ s3object' = s3object /\ acked' = acked /\ registry' = registry
  BY <1>0, <1>1, <1>4 DEF EncryptPart, TypeOK, s3
<1>7. CallOfDriver(t)'
  BY <1>3, <1>4, <1>5 DEF CallOfDriver
<1>8. SourceInv(d)'
  BY <1>2, <1>3 DEF SourceInv
<1>9. s3state[u] = "open" /\ u \in registry
  BY <1>2, <1>3 DEF UploadOfDriver, Active
<1>10. CipherOfDriver(t)'
  <2>1. /\ Len(out[u]) = d.part - 1 /\ next_part[u] = d.part
        /\ final_seen[u] <=> (d.part - 1 = d.total /\ d.total > 0)
        /\ \A p \in 1..d.part : p # d.part => acked[u][p] # NoCt
        /\ \A i \in 1..Len(out[u]) : out[u][i].part = i
    <3>1. d.at \in Active /\ d.at = "uploading" /\ c.pc = "encrypt"
      BY <1>3 DEF Active
    <3>2. /\ Len(out[u]) = d.part - 1 /\ next_part[u] = d.part - 1 + 1
          /\ final_seen[u] <=> (d.part - 1 = d.total /\ d.total > 0)
          /\ \A i \in 1..Len(out[u]) : out[u][i].part = i
      BY <1>2, <3>1 DEF CipherOfDriver
    <3>3. \A p \in 1..d.part : p # d.part => acked[u][p] # NoCt
      BY <1>2, <3>1 DEF CipherOfDriver
    <3>4. next_part[u] = d.part
      BY <1>1, <3>2
    <3> QED
      BY <3>2, <3>3, <3>4
  <2>2. d.part <= d.total
    BY <1>1, <1>2, <1>3, DriverFields DEF SourceInv
  <2>3. out[u] \in Seq(Output)
    BY <1>1 DEF TypeOK
  <2>4. Len(out'[u]) = d.part /\ next_part'[u] = d.part + 1
    BY <1>1, <1>3, <1>6, <2>1, <2>3
  <2>5. \A i \in 1..Len(out'[u]) : out'[u][i].part = i
    <3> SUFFICES ASSUME NEW i \in 1..d.part PROVE out'[u][i].part = i
      BY <2>4
    <3>1. CASE i = d.part
      BY <1>1, <1>4, <1>6, <2>1, <2>3, <3>1
    <3>2. CASE i # d.part
      <4>1. i \in 1..Len(out[u])
        BY <1>1, <2>1, <3>2
      <4>2. out'[u][i] = out[u][i]
        BY <1>6, <2>3, <4>1
      <4> QED
        BY <2>1, <4>1, <4>2
    <3> QED
      BY <3>1, <3>2
  <2>6. final_seen'[u] <=> (d.part = d.total /\ d.total > 0)
    BY <1>1, <1>3, <1>4, <1>6, <2>1, <2>2
  <2> QED
    BY <1>3, <1>5, <1>6, <1>9, <2>1, <2>4, <2>5, <2>6 DEF CipherOfDriver, Active
<1>11. UploadOfDriver(t)'
  BY <1>3, <1>5, <1>6, <1>9 DEF UploadOfDriver, Active, Final
<1> QED
  BY <1>3, <1>7, <1>8, <1>10, <1>11 DEF OneDriverInv

\* An acknowledged chunk has its ETag; the loop goes on with the chunk that
\* was read ahead.
LEMMA UploadedStep ==
  ASSUME DTypeOK, DriverInv, NEW t \in Threads, ChunkUploaded(t)
  PROVE  OneDriverInv(t)'
<1> DEFINE d == drv[t]
           e == drv'[t]
           u == d.up
           c == call[t]
<1>1. /\ TypeOK /\ d \in Driver /\ u \in Uploads /\ d.total \in Nat /\ d.part \in Nat
  BY DriverFields, ChunkBound DEF DTypeOK
<1>2. CallOfDriver(t) /\ SourceInv(d) /\ CipherOfDriver(t) /\ UploadOfDriver(t)
  BY DEF DriverInv
<1>3. /\ d.at = "uploading" /\ c.pc = "send" /\ c.up = u /\ c.part = d.part
      /\ c.ct # NoCt /\ d.part \in S3Part
  BY <1>2 DEF ChunkUploaded, SendPart, CallOfDriver
<1>4. e = [d EXCEPT !.at = "loop", !.cur = d.nxt]
  BY SetDriver DEF ChunkUploaded
<1>5. /\ e.at = "loop" /\ e.cur = d.nxt /\ e.up = u /\ e.total = d.total
      /\ e.read = d.read /\ e.part = d.part
  BY <1>1, <1>4 DEF Driver
<1>6. call'[t] = Idle
  BY <1>1, SetCall DEF ChunkUploaded, SendPart, Return
<1>7. /\ acked'[u] = [acked[u] EXCEPT ![d.part] = c.ct]
      /\ s3state' = s3state /\ s3object' = s3object /\ registry' = registry
      /\ out' = out /\ next_part' = next_part /\ final_seen' = final_seen
      /\ last_part' = last_part
  BY <1>1, <1>3 DEF ChunkUploaded, SendPart, TypeOK, pipeline
<1>8. CallOfDriver(t)'
  BY <1>5, <1>6 DEF CallOfDriver
<1>9. SourceInv(e)
  BY <1>2, <1>3, <1>5 DEF SourceInv, Final
<1>10. CipherOfDriver(t)'
  <2>1. \A p \in 1..d.part : acked'[u][p] # NoCt
    <3> SUFFICES ASSUME NEW p \in 1..d.part PROVE acked'[u][p] # NoCt
      OBVIOUS
    <3>1. p \in S3Part
      BY <1>1, <1>3, ChunkBound DEF S3Part
    <3>2. p # d.part => acked[u][p] # NoCt
      BY <1>2, <1>3 DEF CipherOfDriver, Active
    <3>3. acked[u] \in [S3Part -> Nat]
      BY <1>1 DEF TypeOK
    <3>4. CASE p = d.part
      BY <1>3, <1>7, <3>1, <3>3, <3>4
    <3>5. CASE p # d.part
      BY <1>7, <3>1, <3>2, <3>3, <3>5
    <3> QED
      BY <3>4, <3>5
  <2> QED
    BY <1>2, <1>3, <1>5, <1>6, <1>7, <2>1 DEF CipherOfDriver, Active, Idle
<1>11. UploadOfDriver(t)'
  BY <1>2, <1>3, <1>5, <1>6, <1>7 DEF UploadOfDriver, Active, Final, Idle
<1> QED
  BY <1>8, <1>9, <1>10, <1>11 DEF OneDriverInv

\* What goes wrong inside the try block leads to the abort, with the upload
\* open, or completed when only the response was lost.
LEMMA FailingStep ==
  ASSUME DTypeOK, DriverInv, NEW t \in Threads, ChunkFailed(t)
  PROVE  OneDriverInv(t)'
<1> DEFINE d == drv[t]
           e == drv'[t]
           u == d.up
           c == call[t]
<1>0. /\ EncryptPartRaises(t) \/ SendPartLost(t) \/ SendPartFailed(t)
      /\ d.at = "uploading" /\ Fail(t, "abort")
  BY NeverRefused
<1>1. /\ TypeOK /\ u \in Uploads
  BY DriverFields DEF DTypeOK
<1>2. CallOfDriver(t) /\ SourceInv(d) /\ CipherOfDriver(t) /\ UploadOfDriver(t)
  BY DEF DriverInv
<1>3. d.at = "uploading" /\ c.pc \in {"encrypt", "send"} /\ c.up = u
  BY <1>0, <1>2 DEF CallOfDriver
<1>4. e.at = "abort" /\ SameButAt(e, d) /\ e.failed
  BY <1>0, Moves
<1>5. /\ call'[t] = Idle /\ s3state' = s3state /\ s3object' = s3object
      /\ registry' = registry /\ out' = out /\ last_part' = last_part
  BY <1>0, <1>1, SetCall DEF EncryptPartRaises, SendPartLost, SendPartFailed,
                             Return, pipeline, s3
<1>6. s3state[u] = "open"
  BY <1>2, <1>3 DEF UploadOfDriver, Active
<1>7. CallOfDriver(t)'
  BY <1>4, <1>5 DEF CallOfDriver
<1>8. SourceInv(e)
  BY <1>2, <1>4 DEF SourceInv, SameButAt, Final
<1>9. CipherOfDriver(t)'
  BY <1>2, <1>4, <1>5, <1>6 DEF CipherOfDriver, SameButAt, Active
<1>10. UploadOfDriver(t)'
  BY <1>4, <1>5, <1>6 DEF UploadOfDriver, SameButAt, Active, Final
<1> QED
  BY <1>7, <1>8, <1>9, <1>10 DEF OneDriverInv

\* complete_multipart_upload is called at the end of the source, with the
\* ETags of all its parts.
LEMMA ListingStep ==
  ASSUME DTypeOK, DriverInv, NEW t \in Threads, Complete(t)
  PROVE  OneDriverInv(t)'
<1> DEFINE d == drv[t]
           e == drv'[t]
           u == d.up
           c == call[t]
<1>1. /\ TypeOK /\ u \in Uploads /\ d.total \in Nat /\ d.total <= MaxPart /\ d.part \in Nat
  BY DriverFields, ChunkBound DEF DTypeOK
<1>2. CallOfDriver(t) /\ SourceInv(d) /\ CipherOfDriver(t) /\ UploadOfDriver(t)
  BY DEF DriverInv
<1>3. d.at = "loop" /\ ~d.cur /\ c = Idle
  BY <1>2, AlwaysFound DEF CompleteMultipartUpload
<1>4. e.at = "completing" /\ SameButAt(e, d)
  BY Moves, AlwaysFound
<1>5. d.part = d.total /\ d.read = d.total
  BY <1>2, <1>3 DEF SourceInv
<1>6. call'[t] = [pc |-> "check", up |-> u,
                  etags |-> [p \in S3Part |-> IF p \in 1..d.part THEN acked[u][p] ELSE NoCt]]
  BY <1>1, SetCall, AlwaysFound DEF CompleteMultipartUpload
<1>7. SameUpload(u)
  BY AlwaysFound DEF CompleteMultipartUpload, SameUpload, pipeline, s3
<1>8. CallOfDriver(t)'
  <2>1. \A p \in 1..d.part : acked[u][p] # NoCt /\ p \in S3Part
    <3>1. \A p \in 1..d.part : acked[u][p] # NoCt
      BY <1>2, <1>3 DEF CipherOfDriver, Active
    <3> QED
      BY <1>1, <1>5, <3>1, ChunkBound DEF S3Part
  <2>2. \A p \in 1..d.total : call'[t].etags[p] # NoCt
    BY <1>5, <1>6, <2>1
  <2> QED
    BY <1>4, <1>6, <2>2 DEF CallOfDriver, SameButAt
<1>9. SourceInv(e)
  BY <1>1, <1>4, <1>5 DEF SourceInv, SameButAt, Final
<1>10. CipherOfDriver(t)'
  BY <1>2, <1>3, <1>4, <1>6, <1>7 DEF CipherOfDriver, SameUpload, SameButAt, Active, Idle
<1>11. UploadOfDriver(t)'
  BY <1>2, <1>3, <1>4, <1>6, <1>7 DEF UploadOfDriver, SameUpload, SameButAt, Active, Final, Idle
<1> QED
  BY <1>8, <1>9, <1>10, <1>11 DEF OneDriverInv

\* The final part has been seen unless the source was empty, so the check of
\* has_final_part_been_seen fails for an empty source only.
LEMMA CheckingStep ==
  ASSUME DTypeOK, DriverInv, NEW t \in Threads, CompleteChecked(t)
  PROVE  OneDriverInv(t)'
<1> DEFINE d == drv[t]
           e == drv'[t]
           u == d.up
           c == call[t]
<1>1. /\ TypeOK /\ u \in Uploads /\ d.total \in Nat
  BY DriverFields, ChunkBound DEF DTypeOK
<1>2. CallOfDriver(t) /\ SourceInv(d) /\ CipherOfDriver(t) /\ UploadOfDriver(t)
  BY DEF DriverInv
<1>3. /\ d.at = "completing" /\ c.pc = "check" /\ c.up = u
      /\ d.part = d.total /\ s3state[u] = "open"
  BY <1>2 DEF CompleteChecked, CheckFinalPart, CallOfDriver, SourceInv, UploadOfDriver, Active
<1>4. SameUpload(u)
  BY DEF CompleteChecked, CheckFinalPart, SameUpload, pipeline, s3
<1>5. CASE final_seen[u]
  <2>1. drv' = drv /\ call'[t] = Listing("complete", c)
    BY <1>1, <1>3, <1>5, SetCall DEF CompleteChecked, CheckFinalPart
  <2>2. call'[t].pc = "complete" /\ call'[t].up = u /\ call'[t].etags = c.etags
    BY <1>3, <2>1 DEF Listing
  <2>3. CallOfDriver(t)' /\ SourceInv(e)
    BY <1>2, <1>3, <2>1, <2>2 DEF CallOfDriver, SourceInv
  <2>4. CipherOfDriver(t)'
    BY <1>2, <1>3, <1>4, <2>1, <2>2 DEF CipherOfDriver, SameUpload, Active
  <2>5. UploadOfDriver(t)'
    BY <1>2, <1>3, <1>4, <2>1, <2>2 DEF UploadOfDriver, SameUpload, Active, Final
  <2> QED
    BY <2>3, <2>4, <2>5 DEF OneDriverInv
<1>6. CASE ~final_seen[u]
  <2>1. e.at = "abort" /\ SameButAt(e, d) /\ call'[t] = Idle
    <3>1. At(t, "abort") /\ Goto(t, Idle)
      BY <1>3, <1>6 DEF CompleteChecked, CheckFinalPart, Return
    <3> QED
      BY <1>1, <3>1, SetCall, Moves
  <2>2. d.total = 0
    BY <1>1, <1>2, <1>3, <1>6 DEF CipherOfDriver, Active
  <2>3. CallOfDriver(t)' /\ SourceInv(e)
    BY <1>2, <2>1, <2>2 DEF CallOfDriver, SourceInv, SameButAt, Final
  <2>4. CipherOfDriver(t)'
    BY <1>2, <1>3, <1>4, <2>1 DEF CipherOfDriver, SameUpload, SameButAt, Active
  <2>5. UploadOfDriver(t)'
    BY <1>2, <1>3, <1>4, <2>1 DEF UploadOfDriver, SameUpload, SameButAt, Active, Final
  <2> QED
    BY <2>3, <2>4, <2>5 DEF OneDriverInv
<1> QED
  BY <1>5, <1>6

\* S3 makes the object of all the parts listed: the whole source.
LEMMA CompletingSteps ==
  ASSUME DTypeOK, DriverInv, NEW t \in Threads,
         CompleteSent(t) \/ CompleteFailed(t) \/ Completed(t)
  PROVE  OneDriverInv(t)'
<1> DEFINE d == drv[t]
           e == drv'[t]
           u == d.up
           c == call[t]
<1>1. TypeOK /\ u \in Uploads /\ d.total \in Nat
  BY DriverFields, ChunkBound DEF DTypeOK
<1>2. CallOfDriver(t) /\ SourceInv(d) /\ CipherOfDriver(t) /\ UploadOfDriver(t)
  BY DEF DriverInv
<1>3. /\ d.at = "completing" /\ c.up = u /\ d.part = d.total
      /\ \A p \in 1..d.total : c.etags[p] # NoCt
  BY <1>2 DEF CompleteSent, CompleteFailed, Completed, CallOfDriver, SourceInv
<1>4. c.pc \in {"complete", "pop"} => Len(out[u]) = d.total
  BY <1>2, <1>3 DEF CipherOfDriver, Active
<1>5. ASSUME S3Complete(c)
      PROVE  s3state'[u] = "completed" /\ s3object'[u] = c.etags
  BY <1>1, <1>3, <1>5 DEF S3Complete, TypeOK
<1>6. CASE CompleteSent(t)
  <2>1. drv' = drv /\ c.pc = "complete" /\ call'[t] = Listing("pop", c)
    BY <1>1, <1>6, SetCall DEF CompleteSent, SendComplete
  <2>2. call'[t].pc = "pop" /\ call'[t].up = u /\ call'[t].etags = c.etags
    BY <1>3, <2>1 DEF Listing
  <2>3. /\ s3state'[u] = "completed" /\ s3object'[u] = c.etags /\ registry' = registry
        /\ out' = out /\ next_part' = next_part /\ final_seen' = final_seen /\ acked' = acked
        /\ last_part' = last_part
    BY <1>5, <1>6 DEF CompleteSent, SendComplete, pipeline
  <2>4. CallOfDriver(t)' /\ SourceInv(e)
    BY <1>2, <1>3, <2>1, <2>2 DEF CallOfDriver, SourceInv
  <2>5. CipherOfDriver(t)'
    BY <1>2, <1>3, <2>1, <2>2, <2>3 DEF CipherOfDriver, Active
  <2>6. UploadOfDriver(t)'
    BY <1>2, <1>3, <1>4, <2>1, <2>2, <2>3 DEF UploadOfDriver, Active, Final
  <2> QED
    BY <2>4, <2>5, <2>6 DEF OneDriverInv
<1>7. CASE CompleteFailed(t)
  <2>1. e.at = "abort" /\ SameButAt(e, d) /\ e.failed
    BY <1>7, Moves DEF CompleteFailed
  <2>2. /\ c.pc = "complete" /\ call'[t] = Idle /\ out' = out /\ last_part' = last_part
        /\ s3state[u] = "open"
    <3>1. c.pc = "complete" /\ call'[t] = Idle /\ out' = out /\ last_part' = last_part
      BY <1>1, <1>7, SetCall DEF CompleteFailed, SendCompleteLost, SendCompleteFailed,
                                 Return, pipeline
    <3> QED
      BY <1>2, <1>3, <3>1 DEF UploadOfDriver, Active
  <2>3. \/ s3state'[u] = "completed" /\ s3object'[u] = c.etags
        \/ s3state'[u] = "open"
    <3>1. CASE SendCompleteLost(t)
      BY <1>5, <3>1 DEF SendCompleteLost
    <3>2. CASE SendCompleteFailed(t)
      BY <2>2, <3>2 DEF SendCompleteFailed, s3
    <3> QED
      BY <1>7, <3>1, <3>2 DEF CompleteFailed
  <2>4. CallOfDriver(t)' /\ SourceInv(e)
    BY <1>2, <2>1, <2>2 DEF CallOfDriver, SourceInv, SameButAt, Final
  <2>5. CipherOfDriver(t)'
    BY <1>2, <1>3, <2>1, <2>2, <2>3 DEF CipherOfDriver, SameButAt, Active
  <2>6. UploadOfDriver(t)'
    BY <1>3, <1>4, <2>1, <2>2, <2>3 DEF UploadOfDriver, SameButAt, Active, Final
  <2> QED
    BY <2>4, <2>5, <2>6 DEF OneDriverInv
<1>8. CASE Completed(t)
  <2>1. /\ e.at = "returned" /\ SameButAt(e, d) /\ e.owns = d.owns
        /\ e.open = (d.open /\ ~d.owns)
    BY <1>8, Moves DEF Completed
  <2>2. c.pc = "pop" /\ call'[t] = Idle
    BY <1>1, <1>8, SetCall DEF Completed, CompletePop, Return
  <2>3. /\ s3state' = s3state /\ s3object' = s3object /\ out' = out /\ last_part' = last_part
        /\ registry' = registry \ {u} /\ s3state[u] = "completed"
    BY <1>2, <1>3, <1>8, <2>2 DEF Completed, CompletePop, pipeline, s3, UploadOfDriver, Active
  <2>4. CallOfDriver(t)' /\ SourceInv(e)
    BY <1>2, <1>3, <2>1, <2>2 DEF CallOfDriver, SourceInv, SameButAt, Final
  <2>5. CipherOfDriver(t)'
    BY <1>2, <2>1, <2>2, <2>3 DEF CipherOfDriver, SameButAt, Active
  <2>6. UploadOfDriver(t)'
    BY <1>2, <2>1, <2>2, <2>3 DEF UploadOfDriver, SameButAt, Active, Final
  <2> QED
    BY <2>4, <2>5, <2>6 DEF OneDriverInv
<1> QED
  BY <1>6, <1>7, <1>8

\* The abort drops the cipher state first; the original error propagates only
\* when S3 has aborted.
LEMMA AbortingSteps ==
  ASSUME DTypeOK, DriverInv, NEW t \in Threads,
         Abort(t) \/ Aborted(t) \/ AbortLost(t) \/ AbortFailed(t)
  PROVE  OneDriverInv(t)'
<1> DEFINE d == drv[t]
           e == drv'[t]
           u == d.up
           c == call[t]
<1>1. TypeOK /\ u \in Uploads
  BY DriverFields DEF DTypeOK
<1>2. CallOfDriver(t) /\ SourceInv(d) /\ CipherOfDriver(t) /\ UploadOfDriver(t)
  BY DEF DriverInv
<1>3. CASE Abort(t)
  <2>1. d.at = "abort" /\ e.at = "aborting" /\ SameButAt(e, d) /\ e.failed = d.failed
    BY <1>3, Moves DEF Abort
  <2>2. call'[t] = [pc |-> "abort", up |-> u]
    BY <1>1, <1>3, SetCall DEF Abort, AbortMultipartUpload
  <2>3. /\ s3state' = s3state /\ s3object' = s3object /\ out' = out /\ last_part' = last_part
        /\ next_part' = next_part /\ final_seen' = final_seen
        /\ registry' = registry \ {u} /\ s3state[u] # "none"
    BY <1>3 DEF Abort, AbortMultipartUpload, pipeline, s3
  <2>4. CallOfDriver(t)' /\ SourceInv(e)
    BY <1>2, <2>1, <2>2 DEF CallOfDriver, SourceInv, SameButAt, Final
  <2>5. CipherOfDriver(t)'
    BY <1>2, <2>1, <2>2, <2>3 DEF CipherOfDriver, SameButAt, Active
  <2>6. UploadOfDriver(t)'
    BY <1>2, <2>1, <2>2, <2>3 DEF UploadOfDriver, SameButAt, Active, Final
  <2> QED
    BY <2>4, <2>5, <2>6 DEF OneDriverInv
<1>4. CASE Aborted(t) \/ AbortLost(t) \/ AbortFailed(t)
  <2>1. /\ d.at = "aborting" /\ e.at \in {"raised", "abort_raised"} /\ SameButAt(e, d)
        /\ e.failed = d.failed /\ e.owns = d.owns /\ e.open = (d.open /\ ~d.owns)
    BY <1>4, Moves DEF Aborted, AbortLost, AbortFailed
  <2>2. call'[t] = Idle /\ c.up = u
    BY <1>1, <1>2, <1>4, <2>1, SetCall DEF Aborted, AbortLost, AbortFailed, SendAbort,
      SendAbortFailed, Return, CallOfDriver
  <2>3. s3object' = s3object /\ out' = out /\ last_part' = last_part /\ registry' = registry
    BY <1>4 DEF Aborted, AbortLost, AbortFailed, SendAbort, SendAbortFailed, pipeline, s3
  <2>4. /\ e.at = "raised" => s3state'[u] = "aborted"
        /\ s3state' = s3state \/ s3state'[u] = "aborted"
    <3>1. CASE SendAbort(t)
      BY <1>1, <2>2, <3>1 DEF SendAbort, TypeOK
    <3>2. CASE AbortFailed(t)
      <4>1. e.at = "abort_raised"
        BY <3>2, Moves DEF AbortFailed
      <4>2. s3state' = s3state
        BY <3>2 DEF AbortFailed, SendAbortFailed, s3
      <4> QED
        BY <4>1, <4>2
    <3> QED
      BY <1>4, <3>1, <3>2 DEF Aborted, AbortLost
  <2>5. CallOfDriver(t)' /\ SourceInv(e)
    BY <1>2, <2>1, <2>2 DEF CallOfDriver, SourceInv, SameButAt, Final
  <2>6. s3state[u] \in {"open", "completed"} /\ u \notin registry
    BY <1>2, <2>1 DEF UploadOfDriver, Final
  <2>7. CipherOfDriver(t)'
    BY <1>2, <2>1, <2>2, <2>3, <2>4, <2>6 DEF CipherOfDriver, SameButAt, Active
  <2>8. UploadOfDriver(t)'
    BY <1>2, <2>1, <2>2, <2>3, <2>4, <2>6 DEF UploadOfDriver, SameButAt, Active, Final
  <2> QED
    BY <2>5, <2>7, <2>8 DEF OneDriverInv
<1> QED
  BY <1>3, <1>4

\* A step keeps every driver's record of its type, and its upload.
LEMMA DriverType ==
  ASSUME DTypeOK, DriverInv, NEW t \in Threads, DStart(t) \/ DStep(t)
  PROVE  drv' \in [Threads -> Driver] /\ drv'[t].up = drv[t].up
<1> DEFINE d == drv[t]
<1>1. /\ d \in Driver /\ d.total \in 0..MaxChunks /\ d.read \in 0..MaxChunks
      /\ d.part \in 0..MaxChunks /\ d.nxt \in BOOLEAN /\ SourceInv(d) /\ MaxChunks \in Nat
  BY DriverFields, ChunkBound DEF DriverInv
<1>2. ASSUME NEW e \in Driver, Set(t, e), e.up = d.up
      PROVE  drv' \in [Threads -> Driver] /\ drv'[t].up = d.up
  BY <1>2 DEF Set, DTypeOK
<1>3. ASSUME NEW at \in {"new", "putting", "create", "first", "loop", "uploading",
                         "completing", "abort", "aborting"} \cup Final,
             At(t, at) \/ Fail(t, at) \/ Leave(t, at)
      PROVE  drv' \in [Threads -> Driver] /\ drv'[t].up = d.up
  <2>1. [d EXCEPT !.at = at] \in Driver /\ [d EXCEPT !.at = at].up = d.up
    BY <1>1 DEF Driver
  <2>2. /\ [d EXCEPT !.at = at, !.failed = TRUE] \in Driver
        /\ [d EXCEPT !.at = at, !.failed = TRUE].up = d.up
    BY <1>1 DEF Driver
  <2>3. (d.open /\ ~d.owns) \in BOOLEAN
    OBVIOUS
  <2>4. /\ [d EXCEPT !.at = at, !.open = @ /\ ~d.owns] \in Driver
        /\ [d EXCEPT !.at = at, !.open = @ /\ ~d.owns].up = d.up
    BY <1>1, <2>3 DEF Driver
  <2>5. CASE At(t, at)
    BY <1>2, <2>1, <2>5 DEF At
  <2>6. CASE Fail(t, at)
    BY <1>2, <2>2, <2>6 DEF Fail
  <2>7. CASE Leave(t, at)
    BY <1>2, <2>4, <2>7 DEF Leave
  <2> QED
    BY <1>3, <2>5, <2>6, <2>7
<1>4. HasMore(t) \in BOOLEAN /\ Advance(t) \in 0..MaxChunks
  BY <1>1 DEF HasMore, Advance
<1>5. ASSUME NEW total \in 0..MaxChunks, PutSmallFile(t, total)
      PROVE  drv' \in [Threads -> Driver] /\ drv'[t].up = d.up
  <2> DEFINE e == [d EXCEPT !.at = "putting", !.total = total, !.read = total,
                            !.owns = TRUE, !.open = TRUE]
  <2>1. e \in Driver /\ e.up = d.up
    BY <1>1 DEF Driver
  <2> QED
    BY <1>2, <1>5, <2>1 DEF PutSmallFile
<1>6. ASSUME NEW total \in 0..MaxChunks, NEW owns \in BOOLEAN, Begin(t, total, owns)
      PROVE  drv' \in [Threads -> Driver] /\ drv'[t].up = d.up
  <2> DEFINE e == [d EXCEPT !.at = "create", !.total = total, !.owns = owns, !.open = TRUE]
  <2>1. e \in Driver /\ e.up = d.up
    BY <1>1 DEF Driver
  <2> QED
    BY <1>2, <1>6, <2>1 DEF Begin
<1>7. CASE ReadFirst(t)
  <2> DEFINE e == [d EXCEPT !.at = "loop", !.cur = HasMore(t), !.read = Advance(t)]
  <2>1. e \in Driver /\ e.up = d.up
    BY <1>1, <1>4 DEF Driver
  <2> QED
    BY <1>2, <1>7, <2>1 DEF ReadFirst
<1>8. ASSUME NEW body \in Bodies, UploadChunk(t, body)
      PROVE  drv' \in [Threads -> Driver] /\ drv'[t].up = d.up
  <2> DEFINE e == [d EXCEPT !.at = "uploading", !.nxt = HasMore(t), !.read = Advance(t),
                            !.part = @ + 1]
  <2>1. d.part + 1 \in 0..MaxChunks
    BY <1>1, <1>8, AlwaysFound DEF SourceInv
  <2>2. e \in Driver /\ e.up = d.up
    BY <1>1, <1>4, <2>1 DEF Driver
  <2> QED
    BY <1>2, <1>8, <2>2, AlwaysFound DEF ReadAhead
<1>9. CASE ChunkUploaded(t)
  <2> DEFINE e == [d EXCEPT !.at = "loop", !.cur = d.nxt]
  <2>1. e \in Driver /\ e.up = d.up
    BY <1>1 DEF Driver
  <2> QED
    BY <1>2, <1>9, <2>1 DEF ChunkUploaded
<1>10. CASE UNCHANGED drv
  BY <1>10 DEF DTypeOK
<1>11. ASSUME \/ Refuse(t) \/ PutReturns(t) \/ PutRaises(t) \/ Create(t) \/ CreateLost(t)
              \/ CreateFailed(t) \/ ReadRaises(t) \/ ChunkFailed(t) \/ Complete(t)
              \/ CompleteFailed(t) \/ Completed(t) \/ Abort(t) \/ Aborted(t)
              \/ AbortLost(t) \/ AbortFailed(t)
       PROVE  \E at \in {"first", "abort", "completing", "aborting"} \cup Final :
                At(t, at) \/ Fail(t, at) \/ Leave(t, at)
  BY <1>11 DEF Refuse, PutReturns, PutRaises, Create, CreateLost, CreateFailed, ReadRaises,
    ChunkFailed, Complete, CompleteFailed, Completed, Abort, Aborted, AbortLost, AbortFailed,
    Final
<1>12. ASSUME EncryptChunk(t) \/ CompleteSent(t) \/ CompleteChecked(t)
       PROVE  UNCHANGED drv \/ At(t, "abort")
  BY <1>12 DEF EncryptChunk, CompleteSent, CompleteChecked
<1> QED
  BY <1>3, <1>5, <1>6, <1>7, <1>8, <1>9, <1>10, <1>11, <1>12 DEF DStart, DStep

-----------------------------------------------------------------------------
(* The inductive invariant *)

\* Drivers that have not been called yet satisfy the invariant.
LEMMA DriverInit == DInit => DTypeOK /\ DriverInv
<1> SUFFICES ASSUME DInit PROVE DTypeOK /\ DriverInv
  OBVIOUS
<1>1. PICK up \in [Threads -> Uploads] :
        /\ \A s, t \in Threads : s # t => up[s] # up[t]
        /\ drv = [t \in Threads |->
                   [at |-> "new", up |-> up[t], total |-> 0, read |-> 0, cur |-> FALSE,
                    nxt |-> FALSE, part |-> 0, failed |-> FALSE, owns |-> FALSE, open |-> FALSE]]
  BY DEF DInit
<1>2. TypeOK /\ Init
  BY InitType DEF DInit
<1>3. drv \in [Threads -> Driver]
  BY <1>1, ChunkBound DEF Driver
<1>4. ASSUME NEW t \in Threads
      PROVE  CallOfDriver(t) /\ SourceInv(drv[t]) /\ CipherOfDriver(t) /\ UploadOfDriver(t)
  <2>1. /\ drv[t].at = "new" /\ drv[t].up \in Uploads /\ drv[t].total = 0
        /\ drv[t].read = 0 /\ drv[t].part = 0 /\ drv[t].owns = FALSE
    BY <1>1
  <2>2. CallOfDriver(t) /\ SourceInv(drv[t])
    BY <1>2, <2>1 DEF Init, CallOfDriver, SourceInv, Final
  <2>3. CipherOfDriver(t)
    BY <1>2, <2>1 DEF Init, CipherOfDriver, Active
  <2>4. UploadOfDriver(t)
    BY <1>2, <2>1 DEF Init, UploadOfDriver, Active, Final
  <2> QED
    BY <2>2, <2>3, <2>4
<1> QED
  BY <1>1, <1>2, <1>3, <1>4 DEF DTypeOK, DriverInv

\* Every step keeps it: its own thread by the lemmas on each of the driver's
\* steps, the other threads because they have other uploads.
LEMMA DriverNext ==
  DTypeOK /\ DriverInv /\ [DNext]_dvars => (DTypeOK /\ DriverInv)'
<1> SUFFICES ASSUME DTypeOK, DriverInv, [DNext]_dvars PROVE DTypeOK' /\ DriverInv'
  OBVIOUS
<1>1. TypeOK'
  BY StepImplements, NextType DEF DTypeOK
<1>2. CASE UNCHANGED dvars
  BY <1>1, <1>2 DEF dvars, vars, pipeline, s3, DTypeOK, DriverInv, CallOfDriver, SourceInv,
                    CipherOfDriver, UploadOfDriver
<1>3. ASSUME NEW t \in Threads, DStart(t) \/ DStep(t) PROVE DTypeOK' /\ DriverInv'
  <2>1. DTypeOK'
    BY <1>1, <1>3, DriverType DEF DTypeOK
  <2>2. \A s \in Threads : drv'[s].up = drv[s].up
    BY <1>3, DriverType, OwnThreadOnly
  <2>3. OneDriverInv(t)'
    BY <1>3, ReadingSteps, CreatingSteps, UploadingStep, EncryptingStep, UploadedStep,
       FailingStep, ListingStep, CheckingStep, CompletingSteps, AbortingSteps DEF DStep
  <2>4. \A s \in Threads : OneDriverInv(s)'
    BY <1>3, <2>3, OtherDrivers
  <2> QED
    BY <2>1, <2>2, <2>4 DEF DriverInv, OneDriverInv
<1> QED
  BY <1>2, <1>3 DEF DNext

\* Together they are inductive; fairness is not needed for either.
LEMMA DriversInductive == DSpec => [](DTypeOK /\ DriverInv)
BY DriverInit, DriverNext, PTL DEF DSpec

\* The drivers' locals stay in range: no read and no part number runs past
\* the chunks the source has.
THEOREM DriversTyped == DSpec => []DTypeOK
BY DriversInductive, PTL

\* Each driver has an upload of its own and, at every point between reading
\* the source and the end of the call, its locals, the cipher's output, the
\* registry and S3 agree on how far it has come.
THEOREM DriversAgree == DSpec => []DriverInv
BY DriversInductive, PTL

\* upload_file and upload_fileobj use the client as any caller may: what is
\* proved of MultipartUpload can be used of them.
LEMMA DriversUseUploads == DSpec => Spec
<1>1. DInit => Init
  BY DEF DInit
<1>2. DTypeOK /\ DriverInv /\ [DNext]_dvars => [Next]_vars
  BY StepImplements
<1> QED
  BY <1>1, <1>2, DriversInductive, PTL DEF DSpec, Spec

-----------------------------------------------------------------------------
(* What a caller of upload_file or upload_fileobj can rely on *)

\* An object that S3 shows is the whole source, in order and with its tag at
\* the end, also when the driver never learns that its request succeeded.
THEOREM ObjectsAreWhole == DSpec => []ObjectIsWhole
<1>1. ASSUME IInv, DTypeOK, DriverInv PROVE ObjectIsWhole
  <2> SUFFICES ASSUME NEW t \in Threads
      PROVE  LET d == drv[t] IN
             /\ d.at = "returned" => d.read = d.total /\ s3state[d.up] \in {"none", "completed"}
             /\ s3state[d.up] = "completed" => Len(out[d.up]) = d.total /\ Decrypts(d.up)
    BY DEF ObjectIsWhole
  <2> DEFINE d == drv[t]
             u == d.up
  <2>1. SourceInv(d) /\ CipherOfDriver(t) /\ UploadOfDriver(t)
    BY <1>1 DEF DriverInv
  <2>2. u \in Uploads /\ d.total \in Nat /\ d.total <= MaxPart
    BY <1>1, DriverFields, ChunkBound
  <2>3. d.at = "returned" => d.read = d.total /\ s3state[u] \in {"none", "completed"}
    BY <2>1 DEF SourceInv, UploadOfDriver
  <2>4. ASSUME s3state[u] = "completed" PROVE Len(out[u]) = d.total /\ Decrypts(u)
    <3>1. Len(out[u]) = d.total /\ \A p \in 1..d.total : s3object[u][p] # NoCt
      BY <2>1, <2>4 DEF UploadOfDriver
    <3>2. \A i \in 1..Len(out[u]) : out[u][i].part = i
      BY <2>1 DEF CipherOfDriver
    <3>3. \A i \in 1..Len(out[u]) : \E p \in S3Part :
            p = out[u][i].part /\ s3object[u][p] # NoCt
      BY <2>2, <3>1, <3>2, ChunkBound DEF S3Part
    <3> QED
      BY <1>1, <2>2, <2>4, <3>1, <3>3, FullList DEF FullListDecrypts
  <2> QED
    BY <2>3, <2>4
<1>2. IInv /\ DTypeOK /\ DriverInv => ObjectIsWhole
  BY <1>1
<1> QED
  BY <1>2, DriversInductive, DriversUseUploads, Inductive, PTL

\* However the call ends, the client holds no cipher state of its upload, and
\* the file it opened is closed unless create_multipart_upload raised.
THEOREM EndedForgotten == DSpec => []EndedIsForgotten
<1>1. DTypeOK /\ DriverInv => EndedIsForgotten
  BY DriverFields DEF DriverInv, SourceInv, UploadOfDriver, EndedIsForgotten, Final
<1> QED
  BY <1>1, DriversInductive, PTL

\* The original error reaches the caller only after S3 has dropped the parts.
THEOREM OriginalErrors == DSpec => []OriginalErrorMeansAborted
<1>1. DTypeOK /\ DriverInv => OriginalErrorMeansAborted
  BY DEF DriverInv, UploadOfDriver, OriginalErrorMeansAborted
<1> QED
  BY <1>1, DriversInductive, PTL

\* The client's own checks never refuse a driver: a source that is not empty
\* is lost only to a failing read, cipher or service.
THEOREM FailuresHaveCause == DSpec => []FailsOnlyForCause
<1>1. DTypeOK /\ DriverInv => FailsOnlyForCause
  BY DEF DriverInv, SourceInv, FailsOnlyForCause
<1> QED
  BY <1>1, DriversInductive, PTL
=============================================================================
