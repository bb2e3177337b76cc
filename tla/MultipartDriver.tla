--------------------------- MODULE MultipartDriver ---------------------------
(***************************************************************************)
(* upload_file and upload_fileobj: threads of one client that each upload  *)
(* their own source, a small file by put_object and any other source by    *)
(* _multipart_upload_from_readable, through the operations of              *)
(* MultipartUpload.                                                        *)
(*                                                                         *)
(* A source yields a number of non-empty chunks and then end of file; the  *)
(* number is whatever the reads turn out to give, not what os.path.getsize *)
(* said.  Each step of a driver is a step of the client operation it has   *)
(* called, joined with what the driver does at that moment.                *)
(***************************************************************************)
EXTENDS MultipartUpload

CONSTANT MaxChunks  \* bound: the most chunks a source yields

ASSUME MaxChunksAssumption == MaxChunks \in 0..MaxPart

VARIABLE drv        \* the drivers' local variables

dvars == <<vars, drv>>

\* "create_raised": create_multipart_upload raised; "raised": the original
\* error propagates after an abort; "abort_raised": the abort itself raised.
\* "refused": the parameters or the file itself were at fault; "put_raised":
\* the put_object of a small file raised.
Final == {"refused", "returned", "put_raised", "create_raised", "raised", "abort_raised"}

Driver == [at: {"new", "putting", "create", "first", "loop", "uploading", "completing",
                "abort", "aborting"} \cup Final,
           up: Uploads,
           total: 0..MaxChunks,     \* chunks the source yields
           read: 0..MaxChunks,      \* chunks read so far
           cur: BOOLEAN,            \* current_chunk is non-empty
           nxt: BOOLEAN,            \* next_chunk is non-empty
           part: 0..MaxChunks,      \* part_number
           failed: BOOLEAN,         \* history: a read, a cipher or S3 failed
           owns: BOOLEAN,           \* owns_readable
           open: BOOLEAN]           \* the readable has not been closed

DTypeOK == TypeOK /\ drv \in [Threads -> Driver]

DInit ==
  /\ Init
  /\ \E up \in [Threads -> Uploads] :
       /\ \A s, t \in Threads : s # t => up[s] # up[t]
       /\ drv = [t \in Threads |->
                  [at |-> "new", up |-> up[t], total |-> 0, read |-> 0, cur |-> FALSE,
                   nxt |-> FALSE, part |-> 0, failed |-> FALSE, owns |-> FALSE, open |-> FALSE]]

Set(t, d) == drv' = [drv EXCEPT ![t] = d]
At(t, at) == Set(t, [drv[t] EXCEPT !.at = at])
Fail(t, at) == Set(t, [drv[t] EXCEPT !.at = at, !.failed = TRUE])

\* The finally clause runs on every way out of the try block.
Leave(t, at) == Set(t, [drv[t] EXCEPT !.at = at, !.open = @ /\ ~drv[t].owns])

-----------------------------------------------------------------------------
\* A threshold or chunk size is out of range, or the file cannot be opened.
Refuse(t) ==
  /\ drv[t].at = "new"
  /\ At(t, "refused")
  /\ UNCHANGED vars

\* upload_file of a file that is smaller than the threshold: all that is in
\* it by now is read and put.
PutSmallFile(t, total) ==
  /\ drv[t].at = "new"
  /\ Set(t, [drv[t] EXCEPT !.at = "putting", !.total = total, !.read = total,
                           !.owns = TRUE, !.open = TRUE])
  /\ UNCHANGED vars

\* The with statement closes the file either way.
PutReturns(t) ==
  /\ drv[t].at = "putting"
  /\ Leave(t, "returned")
  /\ UNCHANGED vars

PutRaises(t) ==
  /\ drv[t].at = "putting"
  /\ Leave(t, "put_raised")
  /\ UNCHANGED vars

\* upload_file opens the file itself; upload_fileobj is handed one.
Begin(t, total, owns) ==
  /\ drv[t].at = "new"
  /\ Set(t, [drv[t] EXCEPT !.at = "create", !.total = total, !.owns = owns, !.open = TRUE])
  /\ UNCHANGED vars

Create(t) ==
  /\ drv[t].at = "create"
  /\ CreateMultipartUpload(t, drv[t].up)
  /\ At(t, "first")

\* create_multipart_upload stands before the try block.
CreateLost(t) ==
  /\ drv[t].at = "create"
  /\ CreateMultipartUploadLost(t, drv[t].up)
  /\ At(t, "create_raised")

CreateFailed(t) ==
  /\ drv[t].at = "create"
  /\ At(t, "create_raised")
  /\ UNCHANGED vars

\* readable.read returns a chunk while there is one.
\* (Mutants: the last chunk is taken for end of file; the position runs on
\* at end of file.)
HasMore_short(t) == drv[t].read + 1 < drv[t].total
Advance_past(t) == drv[t].read + 1

HasMore(t) == drv[t].read < drv[t].total
Advance(t) == IF HasMore(t) THEN drv[t].read + 1 ELSE drv[t].read

ReadFirst(t) ==
  /\ drv[t].at = "first"
  /\ Set(t, [drv[t] EXCEPT !.at = "loop", !.cur = HasMore(t), !.read = Advance(t)])
  /\ UNCHANGED vars

\* A read outside the try block's reach (mutant).
ReadRaises_unhandled(t) ==
  /\ drv[t].at = "first" \/ (drv[t].at = "loop" /\ drv[t].cur)
  /\ Leave(t, "raised")
  /\ UNCHANGED vars

ReadRaises(t) ==
  /\ drv[t].at = "first" \/ (drv[t].at = "loop" /\ drv[t].cur)
  /\ Fail(t, "abort")
  /\ UNCHANGED vars

\* Read ahead, then upload the current chunk, the last one if nothing came.
\* (Mutant: the chunk before the last is announced as the last one.)
IsLast_early(t) == drv[t].read + 1 >= drv[t].total

IsLast(t) == ~HasMore(t)

ReadAhead(t, at) == [drv[t] EXCEPT !.at = at, !.nxt = HasMore(t), !.read = Advance(t),
                                   !.part = @ + 1]

\* upload_part looks the upload up first, and raises if it is not there.
UploadChunk(t, body) ==
  /\ drv[t].at = "loop" /\ drv[t].cur
  /\ IF drv[t].up \in registry
     THEN /\ Set(t, ReadAhead(t, "uploading"))
          /\ UploadPart(t, drv[t].up, drv[t].part + 1, IsLast(t), body)
     ELSE Set(t, ReadAhead(t, "abort")) /\ UNCHANGED vars

\* encrypt_part returns a ciphertext, a new one or the cached one.
EncryptChunk(t) ==
  /\ drv[t].at = "uploading"
  /\ EncryptPart(t) \/ EncryptPartRetry(t)
  /\ UNCHANGED drv

ChunkUploaded(t) ==
  /\ drv[t].at = "uploading"
  /\ SendPart(t)
  /\ Set(t, [drv[t] EXCEPT !.at = "loop", !.cur = drv[t].nxt])

\* Any exception of upload_part leads to the abort.  A refusal by encrypt_part
\* is the client's own; the other exceptions are failures around it.
ChunkFailed(t) ==
  /\ drv[t].at = "uploading"
  /\ \/ EncryptPartRejected(t) /\ At(t, "abort")
     \/ /\ EncryptPartRaises(t) \/ SendPartLost(t) \/ SendPartFailed(t)
        /\ Fail(t, "abort")

\* The list handed to complete is the parts acknowledged so far; complete,
\* too, looks the upload up first.
Complete(t) ==
  /\ drv[t].at = "loop" /\ ~drv[t].cur
  /\ IF drv[t].up \in registry
     THEN /\ CompleteMultipartUpload(t, drv[t].up, 1..drv[t].part)
          /\ At(t, "completing")
     ELSE At(t, "abort") /\ UNCHANGED vars

\* has_final_part_been_seen is false when the source was empty.
CompleteChecked(t) ==
  /\ drv[t].at = "completing"
  /\ CheckFinalPart(t)
  /\ IF final_seen[drv[t].up] THEN UNCHANGED drv ELSE At(t, "abort")

CompleteSent(t) ==
  /\ drv[t].at = "completing"
  /\ SendComplete(t)
  /\ UNCHANGED drv

CompleteFailed(t) ==
  /\ drv[t].at = "completing"
  /\ SendCompleteLost(t) \/ SendCompleteFailed(t)
  /\ Fail(t, "abort")

Completed(t) ==
  /\ drv[t].at = "completing"
  /\ CompletePop(t)
  /\ Leave(t, "returned")

\* The except clause: any Exception aborts, and is raised again after it.
Abort(t) ==
  /\ drv[t].at = "abort"
  /\ AbortMultipartUpload(t, drv[t].up)
  /\ At(t, "aborting")

Aborted(t) ==
  /\ drv[t].at = "aborting"
  /\ SendAbort(t)
  /\ Leave(t, "raised")

\* S3 has aborted but its response is lost: abort_multipart_upload raises,
\* and its error takes the place of the original one.
AbortLost(t) ==
  /\ drv[t].at = "aborting"
  /\ SendAbort(t)
  /\ Leave(t, "abort_raised")

\* An abort tried again until it succeeds (mutant).
AbortFailed_retries(t) ==
  /\ drv[t].at = "aborting"
  /\ SendAbortFailed(t)
  /\ At(t, "abort")

AbortFailed(t) ==
  /\ drv[t].at = "aborting"
  /\ SendAbortFailed(t)
  /\ Leave(t, "abort_raised")

-----------------------------------------------------------------------------
DStart(t) ==
  \/ Refuse(t)
  \/ \E total \in 0..MaxChunks : PutSmallFile(t, total)
  \/ \E total \in 0..MaxChunks, owns \in BOOLEAN : Begin(t, total, owns)

DStep(t) ==
  \/ PutReturns(t) \/ PutRaises(t)
  \/ Create(t) \/ CreateLost(t) \/ CreateFailed(t)
  \/ ReadFirst(t) \/ ReadRaises(t)
  \/ \E body \in Bodies : UploadChunk(t, body)
  \/ EncryptChunk(t) \/ ChunkUploaded(t) \/ ChunkFailed(t)
  \/ Complete(t) \/ CompleteChecked(t) \/ CompleteSent(t)
  \/ CompleteFailed(t) \/ Completed(t)
  \/ Abort(t) \/ Aborted(t) \/ AbortLost(t) \/ AbortFailed(t)

DNext == \E t \in Threads : DStart(t) \/ DStep(t)

\* A driver is straight-line code: once called it runs on, and a request to
\* S3 ends, in an error if need be, when botocore's timeouts and retries do.
DFairness == \A t \in Threads : WF_dvars(DStep(t))

DSpec == DInit /\ [][DNext]_dvars /\ DFairness

-----------------------------------------------------------------------------
(* Properties *)

\* An object that becomes visible in S3 is all of its source: every chunk is
\* in it, in order, with the tag at the end, even when the driver never
\* learns that its complete request succeeded.  A driver that returns has
\* read its source to the end and made such an object, or put it as one.
ObjectIsWhole ==
  \A t \in Threads :
    LET d == drv[t] IN
    /\ d.at = "returned" => d.read = d.total /\ s3state[d.up] \in {"none", "completed"}
    /\ s3state[d.up] = "completed" => Len(out[d.up]) = d.total /\ Decrypts(d.up)

\* However a driver ends, the client keeps no cipher state of its upload, and
\* a file that upload_file opened is closed unless create_multipart_upload,
\* which stands before the try block, has raised.
EndedIsForgotten ==
  \A t \in Threads : drv[t].at \in Final =>
    /\ drv[t].up \notin registry
    /\ drv[t].owns /\ drv[t].at # "create_raised" => ~drv[t].open

\* A source that is not empty is uploaded unless reading it, encrypting it or
\* S3 fails: none of the client's own checks (the lookups of upload_part and
\* complete, encrypt_part's sequence and final part checks, the final part
\* check of complete) ever refuses the driver.
FailsOnlyForCause ==
  \A t \in Threads :
    drv[t].at \in {"abort", "aborting", "raised", "abort_raised"} =>
      drv[t].failed \/ drv[t].total = 0

\* A caller that gets the original error, rather than one of the abort's,
\* has no parts left in S3 to pay for.
OriginalErrorMeansAborted ==
  \A t \in Threads : drv[t].at = "raised" => s3state[drv[t].up] = "aborted"

\* Every call ends, whatever reads, encryption and S3 do on the way.
EveryCallEnds ==
  \A t \in Threads : drv[t].at \in {"putting", "create"} ~> drv[t].at \in Final

-----------------------------------------------------------------------------
(* The inductive invariant *)

\* Where a driver has an upload that is open and registered.
Active == {"first", "loop", "uploading", "completing"}

\* The call a thread is in is the one its driver has made.
CallOfDriver(t) ==
  LET d == drv[t]
      c == call[t]
  IN
  /\ d.at \notin {"uploading", "completing", "aborting"} => c = Idle
  /\ d.at = "uploading" => /\ c.pc \in {"encrypt", "send"} /\ c.up = d.up /\ c.part = d.part
                           /\ c.last <=> d.part = d.total
  /\ d.at = "completing" => /\ c.pc \in {"check", "complete", "pop"} /\ c.up = d.up
                            /\ \A p \in 1..d.total : c.etags[p] # NoCt
  /\ d.at = "aborting" => c.pc = "abort" /\ c.up = d.up

\* How far the source is read against how far it is uploaded: at most one
\* chunk is held, and none is held only at the end of the source.
SourceInv(d) ==
  /\ d.read <= d.total
  /\ d.at \in {"new", "create", "first"} => d.read = 0 /\ d.part = 0
  /\ d.at = "loop" => d.read = (IF d.cur THEN d.part + 1 ELSE d.part)
  /\ d.at = "uploading" => d.read = (IF d.nxt THEN d.part + 1 ELSE d.part) /\ d.part > 0
  /\ (d.at = "loop" /\ ~d.cur) \/ (d.at = "uploading" /\ ~d.nxt) => d.part = d.total
  /\ d.at = "completing" => d.part = d.total
  /\ d.at \in {"putting", "completing", "returned"} => d.read = d.total
  /\ d.at \in {"abort", "aborting", "raised", "abort_raised"} => d.failed \/ d.total = 0
  /\ d.at \in {"new", "refused"} => ~d.owns
  /\ d.at \in Final \ {"refused", "create_raised"} => ~(d.owns /\ d.open)

\* The cipher's output is the source's chunks in order, up to the chunk being
\* uploaded, sealed exactly when that was the last.
CipherOfDriver(t) ==
  LET d == drv[t]
      u == d.up
      n == IF call[t].pc = "encrypt" THEN d.part - 1 ELSE d.part
  IN
  /\ \A i \in 1..Len(out[u]) : out[u][i].part = i
  /\ last_part[u] = Len(out[u])
  /\ s3state[u] = "none" => Len(out[u]) = 0 /\ next_part[u] = 1 /\ ~final_seen[u]
  /\ d.at \in Active => /\ Len(out[u]) = n /\ next_part[u] = n + 1
                        /\ final_seen[u] <=> (n = d.total /\ d.total > 0)
                        /\ \A p \in 1..d.part :
                             (d.at = "uploading" => p # d.part) => acked[u][p] # NoCt

\* What S3 and the registry know of the upload at each point of the driver.
UploadOfDriver(t) ==
  LET d == drv[t]
      u == d.up
  IN
  /\ d.at \in {"new", "putting", "create", "refused", "put_raised"} =>
       s3state[u] = "none" /\ u \notin registry
  /\ d.at \in Active => /\ s3state[u] = (IF call[t].pc = "pop" THEN "completed" ELSE "open")
                        /\ u \in registry
  /\ d.at \in {"abort", "aborting"} => s3state[u] \in {"open", "completed"}
  /\ d.at = "abort_raised" => s3state[u] # "none"
  /\ d.at = "raised" => s3state[u] = "aborted"
  /\ d.at = "returned" => s3state[u] \in {"none", "completed"}
  /\ d.at \in Final \cup {"aborting"} => u \notin registry
  /\ s3state[u] = "completed" => /\ Len(out[u]) = d.total
                                 /\ \A p \in 1..d.total : s3object[u][p] # NoCt

\* Each driver has an upload of its own, and its locals, its call, the cipher
\* and S3 agree on how far it has come.
DriverInv ==
  /\ \A s, t \in Threads : s # t => drv[s].up # drv[t].up
  /\ \A t \in Threads : /\ CallOfDriver(t) /\ SourceInv(drv[t])
                        /\ CipherOfDriver(t) /\ UploadOfDriver(t)
=============================================================================
