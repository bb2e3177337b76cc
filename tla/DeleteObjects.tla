--------------------------- MODULE DeleteObjects ---------------------------
(***************************************************************************)
(* delete_object and delete_objects: an object and its instruction file    *)
(* are two S3 objects, deleted by two requests, the first for the objects  *)
(* and the second for the instruction files, while other clients write     *)
(* both.                                                                   *)
(*                                                                         *)
(* A request that was sent may be served late, after its caller has given  *)
(* up, or again, when boto3 repeats it after losing the answer.  S3        *)
(* answers a request for several keys as a whole and lists the keys it     *)
(* could not delete in the answer's Errors.                                *)
(***************************************************************************)
EXTENDS Integers, Sequences, FiniteSets, FiniteSetsExt, Functions

CONSTANTS
  Keys,         \* S3 keys of encrypted objects
  Callers,      \* threads that delete
  Versioned,    \* whether the bucket keeps versions
  MaxWrites,    \* bound: how many writes there are
  MaxFailures   \* bound: how many requests fail or are served twice

ASSUME VersionedAssumption == Versioned \in BOOLEAN
ASSUME BoundsAssumption == MaxWrites \in Nat /\ MaxFailures \in Nat

VARIABLES
  writes,    \* how many writes have begun
  objects,   \* each key's versions and delete markers, oldest first, Gone where
             \* one was deleted; the ID of a version or a marker is its place
  files,     \* the write whose instruction file is stored beside each key, or None
  wire,      \* the requests that S3 may still serve
  call,      \* each caller's delete call
  failures,  \* how many requests have failed so far
  removed,   \* history: the instruction files that deletes have removed
  lifts      \* history: how many delete markers of each key deletes have removed

vars == <<writes, objects, files, wire, call, failures, removed, lifts>>

None == 0   \* no VersionId, no instruction file, or a delete marker

Gone == -1  \* what was a version or a delete marker that a delete has named

\* The newest version that is there.
Kept(versions) == {i \in DOMAIN versions : versions[i] # Gone}
Current(versions) == IF Kept(versions) = {} THEN None ELSE versions[Max(Kept(versions))]

-----------------------------------------------------------------------------
(* S3 (external) *)

Put(versions, w) == IF Versioned THEN Append(versions, w) ELSE <<w>>

\* Without a VersionId the current version goes, under a delete marker if
\* the bucket keeps versions; with one, that version or delete marker goes and
\* no other, and what was under a marker may be current again.
Delete(versions, version) ==
  IF version # None
  THEN [i \in DOMAIN versions |-> IF i = version THEN Gone ELSE versions[i]]
  ELSE IF Current(versions) = None THEN versions
  ELSE IF Versioned THEN Append(versions, None)
  ELSE <<>>

\* A client that keeps its metadata in instruction files writes both.
WriteObject(k) ==
  /\ writes < MaxWrites
  /\ writes' = writes + 1
  /\ wire' = wire \cup {[put |-> at, key |-> k, write |-> writes + 1] : at \in {"object", "file"}}
  /\ UNCHANGED <<objects, files, call, failures, removed, lifts>>

ServePut(r) ==
  /\ wire' = wire \ {r}
  /\ IF r.put = "object"
     THEN objects' = [objects EXCEPT ![r.key] = Put(@, r.write)] /\ UNCHANGED files
     ELSE files' = [files EXCEPT ![r.key] = r.write] /\ UNCHANGED objects
  /\ UNCHANGED <<writes, call, failures, removed, lifts>>

-----------------------------------------------------------------------------
(* The calls *)

Idle == [pc |-> "idle"]

\* What callers name: one key for delete_object, some keys for delete_objects,
\* each without a VersionId or with that of any version or delete marker.
Targets ==
  {t \in UNION {[K -> 0..Max({Len(objects[k]) : k \in K})] : K \in SUBSET Keys \ {{}}} :
     \A k \in DOMAIN t : t[k] = None \/ (Versioned /\ t[k] \in DOMAIN objects[k])}

\* What there is of k when a call begins.
Found(k) == [object |-> Current(objects[k]), file |-> files[k], lifts |-> lifts[k]]

\* Both requests are sent at once (mutant).
Begin_both(c, op, targets, disabled) ==
  /\ call[c].pc = "idle"
  /\ op = "delete_object" => Cardinality(DOMAIN targets) = 1
  /\ call' = [call EXCEPT ![c] =
       [pc |-> "objects", op |-> op, targets |-> targets, disabled |-> disabled,
        attempt |-> 1, errors |-> {}, missed |-> {},
        begun |-> [k \in DOMAIN targets |-> Found(k)]]]
  /\ wire' = wire \cup
       {[delete |-> "objects", by |-> c, attempt |-> 1, targets |-> targets],
        [delete |-> "files", by |-> c, attempt |-> 1, refused |-> {},
         targets |-> [k \in DOMAIN targets |-> None]]}
  /\ UNCHANGED <<writes, objects, files, failures, removed, lifts>>

\* The first request; errors holds the keys the first answer refuses and, as
\* a history, missed those the second refuses and begun what was there.
Begin(c, op, targets, disabled) ==
  /\ call[c].pc = "idle"
  /\ op = "delete_object" => Cardinality(DOMAIN targets) = 1
  /\ call' = [call EXCEPT ![c] =
       [pc |-> "objects", op |-> op, targets |-> targets, disabled |-> disabled,
        attempt |-> 1, errors |-> {}, missed |-> {},
        begun |-> [k \in DOMAIN targets |-> Found(k)]]]
  /\ wire' = wire \cup {[delete |-> "objects", by |-> c, attempt |-> 1, targets |-> targets]}
  /\ UNCHANGED <<writes, objects, files, failures, removed, lifts>>

\* "maybe tried again": the caller repeats the call that raised.  Each attempt
\* but the first follows a failure, so the bound on failures bounds them too.
Retry(c) ==
  LET n == call[c].attempt + 1 IN
  /\ call[c].pc = "raised" /\ n <= MaxFailures + 1
  /\ call' = [call EXCEPT ![c].pc = "objects", ![c].attempt = n, ![c].errors = {}]
  /\ wire' = wire \cup {[delete |-> "objects", by |-> c, attempt |-> n,
                         targets |-> call[c].targets]}
  /\ UNCHANGED <<writes, objects, files, failures, removed, lifts>>

\* The instruction files only of keys that still had an object (mutant).
SecondRequest_present(r, bad) ==
  [delete |-> "files", by |-> r.by, attempt |-> r.attempt, refused |-> bad,
   targets |-> [k \in {k \in DOMAIN r.targets : Current(objects[k]) # None} |-> None]]

\* The VersionId of an object given for its instruction file too (mutant).
SecondRequest_version(r, bad) ==
  [delete |-> "files", by |-> r.by, attempt |-> r.attempt, refused |-> bad,
   targets |-> r.targets]

\* The second request names the instruction files of all the keys, without a
\* VersionId, whatever the first answer says of them.
SecondRequest(r, bad) ==
  [delete |-> "files", by |-> r.by, attempt |-> r.attempt, refused |-> bad,
   targets |-> [k \in DOMAIN r.targets |-> None]]

\* Objects that are not there are an error (mutant).
ObjectsDeleted_missing(r, bad) ==
  IF \A k \in DOMAIN r.targets : Current(objects[k]) = None
  THEN call' = [call EXCEPT ![r.by].pc = "raised"] /\ wire' = wire \ {r}
  ELSE IF call[r.by].disabled
  THEN /\ call' = [call EXCEPT ![r.by].pc = "returned", ![r.by].errors = bad]
       /\ wire' = wire \ {r}
  ELSE /\ call' = [call EXCEPT ![r.by].pc = "files", ![r.by].errors = bad]
       /\ wire' = (wire \ {r}) \cup {SecondRequest(r, bad)}

\* The first answer is kept, to be returned in the end.
ObjectsDeleted(r, bad) ==
  IF call[r.by].disabled
  THEN /\ call' = [call EXCEPT ![r.by].pc = "returned", ![r.by].errors = bad]
       /\ wire' = wire \ {r}
  ELSE /\ call' = [call EXCEPT ![r.by].pc = "files", ![r.by].errors = bad]
       /\ wire' = (wire \ {r}) \cup {SecondRequest(r, bad)}

\* The second answer is not looked at.
FilesDeleted(r, bad) ==
  /\ call' = [call EXCEPT ![r.by].pc = "returned", ![r.by].missed = bad]
  /\ wire' = wire \ {r}

\* The call still waits for the answer to this request.
Awaited(r) == call[r.by].attempt = r.attempt /\ call[r.by].pc = r.delete

Fail == failures < MaxFailures /\ failures' = failures + 1

\* The deletion of this version ID is that of a delete marker.
Lifts(versions, version) == version # None /\ versions[version] = None

\* S3 deletes what the request names but the keys it refuses.
Apply(r, bad) ==
  LET gone == DOMAIN r.targets \ bad
      begun(k) == call[r.by].begun[k]
  IN
  IF r.delete = "objects"
  THEN /\ objects' = [k \in Keys |-> IF k \in gone THEN Delete(objects[k], r.targets[k])
                                                   ELSE objects[k]]
       /\ lifts' = [k \in Keys |-> IF k \in gone /\ Lifts(objects[k], r.targets[k])
                                   THEN lifts[k] + 1 ELSE lifts[k]]
       /\ UNCHANGED <<files, removed>>
  ELSE /\ files' = [k \in Keys |-> IF k \in gone THEN None ELSE files[k]]
       /\ removed' = removed \cup
            {[key |-> k, write |-> files[k], known |-> begun(k).object = files[k],
              versionId |-> call[r.by].targets[k] # None, refused |-> k \in r.refused,
              lifts |-> begun(k).lifts] : k \in {k \in gone : files[k] # None}}
       /\ UNCHANGED <<objects, lifts>>

\* A request is served and its answer received.  Only a request for several
\* keys can be refused for some of them: one for a single object would raise.
Serve(r, bad) ==
  /\ Awaited(r)
  /\ \/ bad = {} /\ UNCHANGED failures
     \/ bad # {} /\ call[r.by].op = "delete_objects" /\ Fail
  /\ Apply(r, bad)
  /\ IF r.delete = "objects" THEN ObjectsDeleted(r, bad) ELSE FilesDeleted(r, bad)
  /\ UNCHANGED writes

\* A request is served, its answer lost, and boto3 repeats it.
ServeUnheard(r) ==
  /\ Awaited(r) /\ Fail
  /\ Apply(r, {})
  /\ UNCHANGED <<writes, wire, call>>

\* A request is served after its caller has given up.
ServeLate(r) ==
  /\ ~Awaited(r)
  /\ Apply(r, {})
  /\ wire' = wire \ {r}
  /\ UNCHANGED <<writes, call, failures>>

\* boto3 raises: the call fails, its request may still be on the wire.
GiveUp(c) ==
  /\ call[c].pc \in {"objects", "files"} /\ Fail
  /\ call' = [call EXCEPT ![c].pc = "raised"]
  /\ UNCHANGED <<writes, objects, files, wire, removed, lifts>>

-----------------------------------------------------------------------------
Init ==
  /\ writes = 0 /\ failures = 0 /\ wire = {} /\ removed = {}
  /\ objects = [k \in Keys |-> <<>>]
  /\ files = [k \in Keys |-> None] /\ lifts = [k \in Keys |-> 0]
  /\ call = [c \in Callers |-> Idle]

Puts == {r \in wire : "put" \in DOMAIN r}
Deletes == wire \ Puts

Next ==
  \/ \E k \in Keys : WriteObject(k)
  \/ \E r \in Puts : ServePut(r)
  \/ \E c \in Callers, op \in {"delete_object", "delete_objects"}, t \in Targets, d \in BOOLEAN :
       Begin(c, op, t, d)
  \/ \E c \in Callers : Retry(c) \/ GiveUp(c)
  \/ \E r \in Deletes : \E bad \in SUBSET DOMAIN r.targets : Serve(r, bad)
  \/ \E r \in Deletes : ServeUnheard(r) \/ ServeLate(r)

\* S3 serves a request that is waited for, and a caller whose call raised
\* tries again.
Fairness ==
  \A c \in Callers :
    /\ WF_vars(\E r \in Deletes : r.by = c /\ Serve(r, {}))
    /\ WF_vars(Retry(c))

Spec == Init /\ [][Next]_vars /\ Fairness

-----------------------------------------------------------------------------
(* Properties *)

\* A call that was made, and the requests of writers and of calls.
CallOK(x) ==
  /\ x \in [pc: {"objects", "files", "returned", "raised"}, op: {"delete_object", "delete_objects"},
            targets: {x.targets}, disabled: BOOLEAN, attempt: Nat,
            errors: SUBSET Keys, missed: SUBSET Keys, begun: {x.begun}]
  /\ DOMAIN x.targets \subseteq Keys /\ DOMAIN x.begun = DOMAIN x.targets
  /\ \A k \in DOMAIN x.targets :
       /\ x.targets[k] = None \/ (Versioned /\ x.targets[k] \in DOMAIN objects[k])
       /\ x.begun[k] \in [object: 0..writes, file: 0..writes, lifts: 0..lifts[k]]

PutRequests == [put: {"object", "file"}, key: Keys, write: 1..writes]

DeleteOK(r) ==
  /\ r.by \in Callers /\ call[r.by] # Idle
  /\ \/ r \in [delete: {"objects"}, by: Callers, attempt: Nat, targets: {call[r.by].targets}]
     \/ r \in [delete: {"files"}, by: Callers, attempt: Nat, refused: SUBSET Keys,
               targets: {[k \in DOMAIN call[r.by].targets |-> None]}]

TypeOK ==
  /\ writes \in 0..MaxWrites /\ failures \in 0..MaxFailures
  /\ objects \in [Keys -> Seq({Gone} \cup 0..writes)] /\ files \in [Keys -> 0..writes]
  /\ \A r \in wire : r \in PutRequests \/ DeleteOK(r)
  /\ DOMAIN call = Callers /\ \A c \in Callers : call[c] = Idle \/ CallOK(call[c])
  /\ \A c \in Callers :
       call[c].pc \in {"objects", "files"} => \E r \in Deletes : r.by = c /\ Awaited(r)
  /\ lifts \in [Keys -> Nat]
  /\ removed \subseteq [key: Keys, write: 1..writes, known: BOOLEAN,
                        versionId: BOOLEAN, refused: BOOLEAN, lifts: Nat]

\* The object, or the version or delete marker of it, that the call was to
\* delete is gone.  An object may be back that a call has brought back, by
\* deleting the delete marker over it, after this one began.
ObjectGone(c, k) ==
  LET v == call[c].targets[k]
      found == call[c].begun[k]
  IN
  IF v # None THEN objects[k][v] = Gone
  ELSE found.object # None /\ found.lifts = lifts[k] => Current(objects[k]) # found.object

FileGone(c, k) == call[c].begun[k].file # None => files[k] # call[c].begun[k].file

\* A call that returns has deleted every object that was there when its first
\* attempt began, but those its answer names as errors, and every instruction
\* file that S3 did not refuse to delete, however far earlier attempts got and
\* whatever repeated and late requests do.
ReturnedMeansDeleted ==
  \A c \in Callers : call[c].pc = "returned" =>
    \A k \in DOMAIN call[c].targets :
      /\ k \in call[c].errors \/ ObjectGone(c, k)
      /\ call[c].disabled \/ k \in call[c].missed \/ FileGone(c, k)

\* An object that needs its instruction file is never left without it, at any
\* step of a delete, by a failure or by a late request: the object is gone
\* first.  The exceptions are the objects S3 refused to delete, deletes of one
\* version or delete marker, and objects that became current, as written or as
\* brought back, after the call began.
FilesFollowObjects ==
  \A x \in removed :
    x.known /\ ~x.versionId /\ ~x.refused /\ x.lifts = lifts[x.key] =>
      Current(objects[x.key]) # x.write

\* "maybe tried again to clean up": repeated until it returns, a delete
\* completes, also where an earlier attempt left nothing to delete.
RetriedDeleteCompletes ==
  \A c \in Callers : call[c].pc = "objects" ~> call[c].pc = "returned"

-----------------------------------------------------------------------------
(* The inductive invariant *)

\* A write is not current and cannot be again before a delete marker is
\* removed: one has come after it.
Settled(versions, w) ==
  \A i \in DOMAIN versions : versions[i] = w =>
    \E j \in DOMAIN versions : i < j /\ versions[j] = None

\* What call x was to delete of k's object is gone, for good or until it is
\* brought back.
ObjectSettled(x, k) ==
  IF x.targets[k] # None THEN objects[k][x.targets[k]] = Gone
  ELSE x.begun[k].object # None /\ x.begun[k].lifts = lifts[k] =>
         Settled(objects[k], x.begun[k].object)

\* A write that is still to be stored is unknown to every delete.
Unserved(r) ==
  /\ r.put = "object" => /\ r.write \notin Range(objects[r.key])
                         /\ \A x \in removed : x.key = r.key /\ x.known => x.write # r.write
  /\ r.put = "file" => files[r.key] # r.write
  /\ \A c \in Callers : call[c] # Idle /\ r.key \in DOMAIN call[c].targets =>
       /\ r.put = "object" => r.write # call[c].begun[r.key].object
       /\ r.put = "file" => r.write # call[c].begun[r.key].file

DeletesInv ==
  /\ \A r \in Puts : Unserved(r)
  /\ \A r \in Deletes : r.delete = "files" =>
       \A k \in DOMAIN r.targets \ r.refused : ObjectSettled(call[r.by], k)
  /\ \A c \in Callers : call[c].pc \in {"files", "returned"} =>
       \A k \in DOMAIN call[c].targets \ call[c].errors : ObjectSettled(call[c], k)
  /\ \A c \in Callers : call[c].pc = "returned" /\ ~call[c].disabled =>
       \A k \in DOMAIN call[c].targets \ call[c].missed : FileGone(c, k)
  /\ \A x \in removed :
       /\ x.lifts <= lifts[x.key]
       /\ x.known /\ ~x.versionId /\ ~x.refused /\ x.lifts = lifts[x.key] =>
            Settled(objects[x.key], x.write)

-----------------------------------------------------------------------------
(* What the docs say of the code and the code does not do *)

\* "Delete an object and its associated instruction file from S3."
\* (delete_object's docstring, and delete_objects' of several objects): the
\* instruction file of an object that the call leaves in place, because it
\* names another version or S3 refuses to delete it, is not deleted.
OnlyAssociatedFiles ==
  \A x \in removed : x.known => Current(objects[x.key]) # x.write
=============================================================================
