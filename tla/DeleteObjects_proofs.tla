------------------------- MODULE DeleteObjects_proofs -------------------------
(***************************************************************************)
(* Theorems about delete_object and delete_objects, for any keys, callers, *)
(* writes and failures, in a bucket with or without versions.              *)
(***************************************************************************)
EXTENDS DeleteObjects, WellFoundedInduction, TLAPS

(* Versions *)

\* A set of indices that is not empty has a largest one.
LEMMA LargestIndex ==
  ASSUME NEW n \in Nat, NEW S, S \subseteq 1..n, S # {}
  PROVE  Max(S) \in S /\ \A i \in S : i <= Max(S)
<1>1. PICK T : T = {n - i : i \in S}
  OBVIOUS
<1>2. T \subseteq Nat
  BY <1>1
<1>3. T # {}
  <2>1. PICK i : i \in S
    OBVIOUS
  <2>2. n - i \in T
    BY <1>1, <2>1
  <2> QED
    BY <2>2
<1>4. PICK x \in T : \A y \in T : ~(<<y, x>> \in OpToRel(<, Nat))
  BY <1>2, <1>3, NatLessThanWellFounded, WFMin
<1>5. \A y \in T : ~(y < x)
  BY <1>2, <1>4 DEF OpToRel
<1>6. PICK i \in S : x = n - i
  BY <1>1
<1>7. \A j \in S : j <= i
  <2> SUFFICES ASSUME NEW j \in S PROVE j <= i
    OBVIOUS
  <2>1. n - j \in T
    BY <1>1
  <2>2. ~(n - j < n - i)
    BY <1>5, <1>6, <2>1
  <2> QED
    BY <2>2
<1> QED
  BY <1>6, <1>7 DEF Max

\* The current version is one of the versions, and none that is there is newer.
LEMMA CurrentIsNewest ==
  ASSUME NEW V, NEW s \in Seq(V), Kept(s) # {}
  PROVE  \E i \in Kept(s) : Current(s) = s[i] /\ \A j \in Kept(s) : j <= i
<1>1. Kept(s) \subseteq 1..Len(s) /\ Len(s) \in Nat
  BY DEF Kept
<1>2. Max(Kept(s)) \in Kept(s) /\ \A j \in Kept(s) : j <= Max(Kept(s))
  BY <1>1, LargestIndex
<1>3. Current(s) = s[Max(Kept(s))]
  BY DEF Current
<1> QED
  BY <1>2, <1>3

\* So a call that asks for it learns of no write that is not stored.
LEMMA CurrentKnown ==
  ASSUME NEW V, NEW s \in Seq(V)
  PROVE  Current(s) = None \/ (Current(s) \in Range(s) /\ Current(s) \in V /\ Current(s) # Gone)
<1>1. CASE Kept(s) = {}
  BY <1>1 DEF Current
<1>2. CASE Kept(s) # {}
  <2>1. PICK i \in Kept(s) : Current(s) = s[i]
    BY <1>2, CurrentIsNewest
  <2> QED
    BY <2>1 DEF Kept, Range
<1> QED
  BY <1>1, <1>2

\* A write under a delete marker is not current.
LEMMA SettledIsNotCurrent ==
  ASSUME NEW V, NEW s \in Seq(V), NEW w, w # None, w # Gone, Settled(s, w)
  PROVE  Current(s) # w
<1> SUFFICES ASSUME Current(s) = w PROVE FALSE
  OBVIOUS
<1>1. Kept(s) # {}
  BY DEF Current
<1>2. PICK i \in Kept(s) : s[i] = w /\ \A j \in Kept(s) : j <= i
  BY <1>1, CurrentIsNewest
<1>3. PICK j \in DOMAIN s : i < j /\ s[j] = None
  BY <1>2 DEF Settled, Kept
<1>4. j \in Kept(s) /\ i \in 1..Len(s) /\ j \in 1..Len(s)
  BY <1>3 DEF Kept, None, Gone
<1> QED
  BY <1>2, <1>3, <1>4

\* In a bucket that keeps versions, no place is taken again.
SlotsKept(s, t) == \A i \in DOMAIN s : i \in DOMAIN t /\ (s[i] = Gone => t[i] = Gone)

\* A new version leaves what is settled or absent so.
LEMMA PutKeeps ==
  ASSUME NEW V, NEW s \in Seq(V), NEW u \in V
  PROVE  /\ Put(s, u) \in Seq(V)
         /\ \A w : w # u /\ Settled(s, w) => Settled(Put(s, u), w)
         /\ \A w : w # u /\ w \notin Range(s) => w \notin Range(Put(s, u))
         /\ Versioned => SlotsKept(s, Put(s, u))
<1>1. CASE Versioned
  <2>1. Put(s, u) = Append(s, u)
    BY <1>1 DEF Put
  <2>2. /\ Append(s, u) \in Seq(V) /\ DOMAIN Append(s, u) = 1..(Len(s) + 1) /\ DOMAIN s = 1..Len(s)
        /\ \A i \in 1..Len(s) : Append(s, u)[i] = s[i] /\ i \in 1..(Len(s) + 1)
        /\ Append(s, u)[Len(s) + 1] = u
        /\ \A i \in 1..(Len(s) + 1) : i \in 1..Len(s) \/ i = Len(s) + 1
    OBVIOUS
  <2> QED
    BY <2>1, <2>2 DEF Settled, Range, SlotsKept
<1>2. CASE ~Versioned
  <2>1. Put(s, u) = <<u>>
    BY <1>2 DEF Put
  <2>2. <<u>> \in Seq(V) /\ DOMAIN <<u>> = {1} /\ <<u>>[1] = u
    OBVIOUS
  <2> QED
    BY <1>2, <2>1, <2>2 DEF Settled, Range
<1> QED
  BY <1>1, <1>2

\* So does a delete, unless it removes a delete marker.
LEMMA DeleteKeeps ==
  ASSUME NEW V, NEW s \in Seq(V), NEW v, None \in V, Gone \in V, v = None \/ v \in DOMAIN s
  PROVE  /\ Delete(s, v) \in Seq(V)
         /\ ~Lifts(s, v) =>
              \A w : w \notin {None, Gone} /\ Settled(s, w) => Settled(Delete(s, v), w)
         /\ \A w : w \notin {None, Gone} /\ w \notin Range(s) => w \notin Range(Delete(s, v))
         /\ Versioned => SlotsKept(s, Delete(s, v))
<1>1. CASE v # None
  <2> DEFINE d == [i \in DOMAIN s |-> IF i = v THEN Gone ELSE s[i]]
  <2>1. Delete(s, v) = d
    BY <1>1 DEF Delete
  <2>2. /\ d \in Seq(V) /\ DOMAIN d = DOMAIN s
        /\ \A i \in DOMAIN s : d[i] = IF i = v THEN Gone ELSE s[i]
    OBVIOUS
  <2> HIDE DEF d
  <2>3. ASSUME ~Lifts(s, v), NEW w, w \notin {None, Gone}, Settled(s, w) PROVE Settled(d, w)
    <3> SUFFICES ASSUME NEW i \in DOMAIN s, d[i] = w PROVE \E j \in DOMAIN s : i < j /\ d[j] = None
      BY <2>2 DEF Settled
    <3>1. s[i] = w
      BY <2>2, <2>3
    <3>2. PICK j \in DOMAIN s : i < j /\ s[j] = None
      BY <2>3, <3>1 DEF Settled
    <3>3. j # v
      BY <1>1, <2>3, <3>2 DEF Lifts
    <3> QED
      BY <2>2, <3>2, <3>3
  <2>4. \A w : w \notin {None, Gone} /\ w \notin Range(s) => w \notin Range(d)
    BY <2>2 DEF Range
  <2> QED
    BY <2>1, <2>2, <2>3, <2>4 DEF SlotsKept
<1>2. CASE v = None /\ (Current(s) = None \/ ~Versioned)
  <2>1. Delete(s, v) = s \/ Delete(s, v) = <<>>
    BY <1>2 DEF Delete
  <2>2. <<>> \in Seq(V) /\ DOMAIN <<>> = {}
    OBVIOUS
  <2>3. Versioned => Delete(s, v) = s
    BY <1>2 DEF Delete
  <2> QED
    BY <2>1, <2>2, <2>3 DEF Settled, Range, SlotsKept
<1>3. CASE v = None /\ Current(s) # None /\ Versioned
  <2>1. Delete(s, v) = Append(s, None)
    BY <1>3 DEF Delete
  <2>2. /\ Append(s, None) \in Seq(V) /\ DOMAIN Append(s, None) = 1..(Len(s) + 1)
        /\ DOMAIN s = 1..Len(s)
        /\ \A i \in 1..Len(s) : Append(s, None)[i] = s[i] /\ i \in 1..(Len(s) + 1)
        /\ Append(s, None)[Len(s) + 1] = None
        /\ \A i \in 1..(Len(s) + 1) : i \in 1..Len(s) \/ i = Len(s) + 1
    OBVIOUS
  <2> QED
    BY <2>1, <2>2 DEF Settled, Range, SlotsKept
<1> QED
  BY <1>1, <1>2, <1>3

\* And what a delete names, or finds without a VersionId, is settled by it.
LEMMA DeleteSettles ==
  ASSUME NEW V, NEW s \in Seq(V)
  PROVE  /\ \A w : w \notin {None, Gone} => Settled(Delete(s, None), w)
         /\ \A v \in DOMAIN s : v # None => Delete(s, v)[v] = Gone
<1>1. ASSUME NEW v \in DOMAIN s, v # None PROVE Delete(s, v)[v] = Gone
  BY <1>1 DEF Delete
<1>2. ASSUME NEW w, w \notin {None, Gone} PROVE Settled(Delete(s, None), w)
  <2>1. CASE Current(s) = None
    <3>1. Delete(s, None) = s
      BY <2>1 DEF Delete
    <3>2. SUFFICES ASSUME NEW i \in DOMAIN s, s[i] = w
                   PROVE  \E j \in DOMAIN s : i < j /\ s[j] = None
      BY <3>1 DEF Settled
    <3>3. i \in Kept(s)
      BY <1>2, <3>2 DEF Kept
    <3>4. PICK j \in Kept(s) : s[j] = None /\ i <= j
      BY <2>1, <3>3, CurrentIsNewest
    <3>5. j \in DOMAIN s /\ i # j /\ i \in 1..Len(s) /\ j \in 1..Len(s)
      BY <1>2, <3>2, <3>4 DEF Kept
    <3> QED
      BY <3>4, <3>5
  <2>2. CASE Current(s) # None /\ Versioned
    <3>1. Delete(s, None) = Append(s, None)
      BY <2>2 DEF Delete
    <3>2. /\ DOMAIN Append(s, None) = 1..(Len(s) + 1) /\ Append(s, None)[Len(s) + 1] = None
          /\ \A i \in 1..(Len(s) + 1) : i < Len(s) + 1 \/ i = Len(s) + 1
          /\ Len(s) + 1 \in 1..(Len(s) + 1)
      OBVIOUS
    <3> QED
      BY <1>2, <3>1, <3>2 DEF Settled
  <2>3. CASE Current(s) # None /\ ~Versioned
    <3>1. Delete(s, None) = <<>>
      BY <2>3 DEF Delete
    <3> QED
      BY <3>1 DEF Settled
  <2> QED
    BY <2>1, <2>2, <2>3
<1> QED
  BY <1>1, <1>2

-----------------------------------------------------------------------------
(* Requests and calls *)

IInv == TypeOK /\ DeletesInv

\* The values of an object's versions.
Ids == {Gone} \cup 0..writes

\* Requests to write and requests to delete are told apart by their fields.
LEMMA RequestKinds ==
  ASSUME TypeOK
  PROVE  /\ \A r \in Puts : r \in PutRequests
         /\ \A r \in Deletes : DeleteOK(r) /\ r \in wire /\ r.delete \in {"objects", "files"}
         /\ \A r \in wire : r \in PutRequests => r \in Puts
         /\ \A r \in wire : DeleteOK(r) => r \in Deletes
<1>1. \A r \in PutRequests : "put" \in DOMAIN r
  BY DEF PutRequests
<1>2. ASSUME NEW r, DeleteOK(r) PROVE "put" \notin DOMAIN r /\ r.delete \in {"objects", "files"}
  BY <1>2 DEF DeleteOK
<1> QED
  BY <1>1, <1>2 DEF TypeOK, Puts, Deletes

\* What the request of a call is to delete.
LEMMA RequestOfCall ==
  ASSUME TypeOK, NEW r \in Deletes
  PROVE  /\ r.by \in Callers /\ CallOK(call[r.by]) /\ r.attempt \in Nat
         /\ DOMAIN r.targets = DOMAIN call[r.by].targets /\ DOMAIN r.targets \subseteq Keys
         /\ r.delete = "objects" => r.targets = call[r.by].targets
         /\ r.delete = "files" => r.refused \subseteq Keys
<1>1. DeleteOK(r)
  BY RequestKinds
<1>2. r.by \in Callers /\ CallOK(call[r.by])
  BY <1>1 DEF DeleteOK, TypeOK
<1>3. DOMAIN call[r.by].targets \subseteq Keys
  BY <1>2 DEF CallOK
<1> QED
  BY <1>1, <1>2, <1>3 DEF DeleteOK

\* From one state to the next, k's versions keep write w settled, if no delete
\* marker is removed, or absent ...
Keeps(k, w) ==
  /\ lifts'[k] = lifts[k] /\ Settled(objects[k], w) => Settled(objects'[k], w)
  /\ w \notin Range(objects[k]) => w \notin Range(objects'[k])

\* ... and what was named stays gone.
Places(k) ==
  /\ lifts'[k] \in Nat /\ lifts[k] <= lifts'[k]
  /\ Versioned => SlotsKept(objects[k], objects'[k])

\* Then what a call has deleted of k stays deleted.
LEMMA SettledKept ==
  ASSUME NEW x, CallOK(x), NEW k \in DOMAIN x.targets, ObjectSettled(x, k),
         lifts[k] \in Nat, Places(k), x.begun[k].object # None => Keeps(k, x.begun[k].object)
  PROVE  ObjectSettled(x, k)'
<1>1. /\ x.targets[k] = None \/ (Versioned /\ x.targets[k] \in DOMAIN objects[k])
      /\ x.begun[k].lifts \in 0..lifts[k]
  BY DEF CallOK
<1>2. CASE x.targets[k] # None
  BY <1>1, <1>2 DEF ObjectSettled, Places, SlotsKept
<1>3. CASE x.targets[k] = None
  <2>1. x.begun[k].lifts = lifts'[k] => x.begun[k].lifts = lifts[k] /\ lifts'[k] = lifts[k]
    BY <1>1 DEF Places
  <2> QED
    BY <1>3, <2>1 DEF ObjectSettled, Keeps
<1> QED
  BY <1>2, <1>3

\* And the call's own record stays well formed.
LEMMA CallOKKept ==
  ASSUME NEW x, CallOK(x), writes \in Nat, writes' = writes,
         \A k \in Keys : lifts[k] \in Nat /\ Places(k)
  PROVE  CallOK(x)'
<1>1. /\ DOMAIN x.targets \subseteq Keys
      /\ \A k \in DOMAIN x.targets :
           /\ x.targets[k] = None \/ (Versioned /\ x.targets[k] \in DOMAIN objects[k])
           /\ x.begun[k] \in [object: 0..writes, file: 0..writes, lifts: 0..lifts[k]]
  BY DEF CallOK
<1>2. ASSUME NEW k \in DOMAIN x.targets
      PROVE  /\ x.targets[k] = None \/ (Versioned /\ x.targets[k] \in DOMAIN objects'[k])
             /\ x.begun[k] \in [object: 0..writes, file: 0..writes, lifts: 0..lifts'[k]]
  <2>1. lifts[k] \in Nat /\ Places(k)
    BY <1>1
  <2>2. 0..lifts[k] \subseteq 0..lifts'[k]
    BY <2>1 DEF Places
  <2> QED
    BY <1>1, <2>1, <2>2 DEF Places, SlotsKept
<1> QED
  BY <1>2 DEF CallOK

\* What S3 does when it serves a request to delete.
LEMMA ApplyStep ==
  ASSUME IInv, NEW r \in Deletes, NEW bad, Apply(r, bad)
  PROVE  /\ objects' \in [Keys -> Seq(Ids)] /\ files' \in [Keys -> 0..writes]
         /\ lifts' \in [Keys -> Nat] /\ \A k \in Keys : Places(k)
         /\ \A k \in Keys, w \in 1..writes : Keeps(k, w)
         /\ \A k \in Keys : files'[k] \in {files[k], None}
         /\ r.delete = "objects" =>
              /\ removed' = removed
              /\ \A x : x = call[r.by] =>
                   \A k \in DOMAIN r.targets \ bad : ObjectSettled(x, k)'
         /\ r.delete = "files" =>
              /\ objects' = objects /\ lifts' = lifts
              /\ \A k \in DOMAIN r.targets \ bad : files'[k] = None
<1> DEFINE gone == DOMAIN r.targets \ bad
<1>0. PICK x : x = call[r.by]
  OBVIOUS
<1>1. /\ CallOK(x) /\ DOMAIN r.targets = DOMAIN x.targets /\ DOMAIN r.targets \subseteq Keys
      /\ r.delete \in {"objects", "files"}
      /\ r.delete = "objects" => r.targets = x.targets
  BY <1>0, RequestOfCall, RequestKinds DEF IInv
<1>2. /\ objects \in [Keys -> Seq(Ids)] /\ files \in [Keys -> 0..writes] /\ writes \in Nat
      /\ None \in Ids /\ Gone \in Ids /\ lifts \in [Keys -> Nat]
  BY BoundsAssumption DEF IInv, TypeOK, Ids, None
<1>3. \A w \in 1..writes : w \notin {None, Gone}
  BY <1>2 DEF None, Gone
<1>4. CASE r.delete = "objects"
  <2>1. /\ objects' = [k \in Keys |-> IF k \in gone THEN Delete(objects[k], r.targets[k])
                                                    ELSE objects[k]]
        /\ lifts' = [k \in Keys |-> IF k \in gone /\ Lifts(objects[k], r.targets[k])
                                    THEN lifts[k] + 1 ELSE lifts[k]]
        /\ files' = files /\ removed' = removed
    BY <1>4 DEF Apply
  <2>a. ASSUME NEW k \in gone
        PROVE  r.targets[k] = None \/ r.targets[k] \in DOMAIN objects[k]
    BY <1>1, <1>4 DEF CallOK
  <2>b. lifts' \in [Keys -> Nat] /\ \A k \in Keys : lifts[k] <= lifts'[k]
    BY <1>2, <2>1
  <2>3. ASSUME NEW k \in Keys
        PROVE  /\ objects'[k] \in Seq(Ids) /\ Places(k)
               /\ \A w \in 1..writes : Keeps(k, w)
    <3>1. objects[k] \in Seq(Ids) /\ lifts'[k] \in Nat /\ lifts[k] <= lifts'[k]
      BY <1>2, <2>b
    <3>2. CASE k \notin gone
      <4>1. objects'[k] = objects[k]
        BY <2>1, <3>2
      <4> QED
        BY <3>1, <4>1 DEF Keeps, Places, SlotsKept
    <3>3. CASE k \in gone
      <4>1. objects'[k] = Delete(objects[k], r.targets[k])
        BY <2>1, <3>3
      <4>2. lifts'[k] = lifts[k] => ~Lifts(objects[k], r.targets[k])
        BY <1>2, <2>1, <3>3
      <4> QED
        BY <1>2, <1>3, <2>a, <3>1, <3>3, <4>1, <4>2, DeleteKeeps DEF Keeps, Places
    <3> QED
      BY <3>2, <3>3
  <2>2. objects' \in [Keys -> Seq(Ids)]
    BY <2>1, <2>3
  <2>4. ASSUME NEW k \in gone PROVE ObjectSettled(x, k)'
    <3>1. /\ k \in Keys /\ k \in DOMAIN x.targets /\ objects[k] \in Seq(Ids)
          /\ objects'[k] = Delete(objects[k], x.targets[k])
      BY <1>1, <1>2, <1>4, <2>1
    <3>2. /\ x.targets[k] = None \/ x.targets[k] \in DOMAIN objects[k]
          /\ x.begun[k].object \in 0..writes
      BY <1>1, <3>1 DEF CallOK
    <3>3. CASE x.targets[k] = None
      <4>1. x.begun[k].object # None => x.begun[k].object \notin {None, Gone}
        BY <1>2, <3>2 DEF None, Gone
      <4>2. x.begun[k].object # None => Settled(objects'[k], x.begun[k].object)
        BY <3>1, <3>3, <4>1, DeleteSettles
      <4> QED
        BY <3>3, <4>2 DEF ObjectSettled
    <3>4. CASE x.targets[k] # None
      <4>1. objects'[k][x.targets[k]] = Gone
        BY <3>1, <3>2, <3>4, DeleteSettles
      <4> QED
        BY <3>4, <4>1 DEF ObjectSettled
    <3> QED
      BY <3>3, <3>4
  <2> QED
    BY <1>0, <1>2, <1>4, <2>1, <2>2, <2>b, <2>3, <2>4
<1>5. CASE r.delete = "files"
  <2>1. /\ files' = [k \in Keys |-> IF k \in gone THEN None ELSE files[k]]
        /\ objects' = objects /\ lifts' = lifts
    BY <1>5 DEF Apply
  <2>2. files' \in [Keys -> 0..writes] /\ \A k \in Keys : files'[k] \in {files[k], None}
    BY <1>2, <2>1 DEF None
  <2>3. \A k \in gone : files'[k] = None
    BY <1>1, <2>1
  <2>4. \A k \in Keys : Places(k)
    BY <1>2, <2>1 DEF Places, SlotsKept
  <2> QED
    BY <1>2, <1>5, <2>1, <2>2, <2>3, <2>4 DEF Keeps
<1> QED
  BY <1>1, <1>4, <1>5

\* The instruction files it removes.
LEMMA RemovedStep ==
  ASSUME IInv, NEW r \in Deletes, NEW bad, Apply(r, bad)
  PROVE  /\ removed' \subseteq [key: Keys, write: 1..writes, known: BOOLEAN,
                                versionId: BOOLEAN, refused: BOOLEAN, lifts: Nat]
         /\ \A y \in removed' : y \in removed \/
              /\ y.key \in DOMAIN call[r.by].targets
              /\ y.known => y.write = call[r.by].begun[y.key].object
         /\ \A y \in removed' :
              /\ y.lifts <= lifts'[y.key]
              /\ y.known /\ ~y.versionId /\ ~y.refused /\ y.lifts = lifts'[y.key] =>
                   Settled(objects'[y.key], y.write)
<1> DEFINE x == call[r.by]
           R == [key: Keys, write: 1..writes, known: BOOLEAN, versionId: BOOLEAN,
                 refused: BOOLEAN, lifts: Nat]
<1>1. /\ DOMAIN r.targets = DOMAIN x.targets /\ DOMAIN r.targets \subseteq Keys
      /\ r.delete \in {"objects", "files"} /\ CallOK(x)
  BY RequestOfCall, RequestKinds DEF IInv
<1>2. /\ removed \subseteq R /\ files \in [Keys -> 0..writes] /\ writes \in Nat
      /\ lifts \in [Keys -> Nat]
  BY BoundsAssumption DEF IInv, TypeOK
<1>3. /\ \A k \in Keys, w \in 1..writes : Keeps(k, w)
      /\ lifts' \in [Keys -> Nat] /\ \A k \in Keys : Places(k)
  BY ApplyStep
<1>4. ASSUME NEW y \in removed
      PROVE  /\ y.lifts <= lifts'[y.key]
             /\ y.known /\ ~y.versionId /\ ~y.refused /\ y.lifts = lifts'[y.key] =>
                  Settled(objects'[y.key], y.write)
  <2>1. /\ y.lifts <= lifts[y.key]
        /\ y.known /\ ~y.versionId /\ ~y.refused /\ y.lifts = lifts[y.key] =>
             Settled(objects[y.key], y.write)
    BY DEF IInv, DeletesInv
  <2>2. y.key \in Keys /\ y.write \in 1..writes /\ y.lifts \in Nat
    BY <1>2
  <2>3. lifts[y.key] \in Nat /\ lifts'[y.key] \in Nat /\ lifts[y.key] <= lifts'[y.key]
    BY <1>2, <1>3, <2>2 DEF Places
  <2>4. y.lifts <= lifts'[y.key]
    BY <2>1, <2>2, <2>3
  <2>5. y.lifts = lifts'[y.key] => y.lifts = lifts[y.key] /\ lifts'[y.key] = lifts[y.key]
    BY <2>1, <2>2, <2>3
  <2> QED
    BY <1>3, <2>1, <2>2, <2>4, <2>5 DEF Keeps
<1>5. CASE r.delete = "objects"
  <2>1. removed' = removed
    BY <1>5 DEF Apply
  <2> QED
    BY <1>2, <1>4, <2>1
<1>6. CASE r.delete = "files"
  <2>1. ASSUME NEW y \in removed', y \notin removed
        PROVE  \E k \in DOMAIN r.targets :
                 /\ files[k] # None
                 /\ y = [key |-> k, write |-> files[k], known |-> x.begun[k].object = files[k],
                         versionId |-> x.targets[k] # None, refused |-> k \in r.refused,
                         lifts |-> x.begun[k].lifts]    BY <1>6, <2>1 DEF Apply
  <2>2. ASSUME NEW y \in removed', y \notin removed
        PROVE  /\ y \in R /\ y.key \in DOMAIN x.targets
               /\ y.known => y.write = x.begun[y.key].object
               /\ y.lifts <= lifts'[y.key]
               /\ y.known /\ ~y.versionId /\ ~y.refused /\ y.lifts = lifts'[y.key] =>
                    Settled(objects'[y.key], y.write)
    <3>1. PICK k \in DOMAIN r.targets :
            /\ files[k] # None
            /\ y = [key |-> k, write |-> files[k], known |-> x.begun[k].object = files[k],
                    versionId |-> x.targets[k] # None, refused |-> k \in r.refused,
                    lifts |-> x.begun[k].lifts]      BY <2>1, <2>2
    <3>2. /\ y.key = k /\ y.write = files[k] /\ y.known = (x.begun[k].object = files[k])
          /\ y.versionId = (x.targets[k] # None) /\ y.refused = (k \in r.refused)
          /\ y.lifts = x.begun[k].lifts
      BY <3>1
    <3>3. /\ k \in Keys /\ files[k] \in 1..writes /\ lifts[k] \in Nat /\ lifts'[k] = lifts[k]
          /\ x.begun[k].lifts \in 0..lifts[k]
      <4>1. k \in Keys /\ files[k] \in 1..writes /\ lifts[k] \in Nat
        BY <1>1, <1>2, <3>1 DEF None
      <4>2. lifts' = lifts
        BY <1>6, ApplyStep
      <4>3. x.begun[k] \in [object: 0..writes, file: 0..writes, lifts: 0..lifts[k]]
        BY <1>1, <3>1 DEF CallOK
      <4> QED
        BY <4>1, <4>2, <4>3
    <3>4. y \in R
      BY <3>1, <3>3
    <3>5. ASSUME y.known, ~y.versionId, ~y.refused, y.lifts = lifts'[k]
          PROVE  Settled(objects'[k], files[k])
      <4>1. k \in DOMAIN r.targets \ r.refused
        BY <3>2, <3>5
      <4>2. ObjectSettled(x, k)
        BY <1>6, <4>1 DEF IInv, DeletesInv
      <4>3. Settled(objects[k], files[k])
        BY <3>1, <3>2, <3>3, <3>5, <4>2 DEF ObjectSettled
      <4> QED
        BY <1>3, <3>3, <4>3 DEF Keeps
    <3>6. y.lifts <= lifts'[k]
      BY <3>2, <3>3
    <3> QED
      BY <1>1, <3>1, <3>2, <3>4, <3>5, <3>6
  <2> QED
    BY <1>2, <1>4, <2>2
<1> QED
  BY <1>1, <1>5, <1>6

-----------------------------------------------------------------------------
(* Steps of the calls *)

\* No call forgets what it was to delete.
CallsKept ==
  \A c \in Callers : /\ call'[c] = Idle <=> call[c] = Idle
                     /\ call[c] # Idle => /\ call'[c].targets = call[c].targets
                                          /\ call'[c].begun = call[c].begun

RemovedFiles == [key: Keys, write: 1..writes, known: BOOLEAN, versionId: BOOLEAN,
                 refused: BOOLEAN, lifts: Nat]

\* What all steps of calls have in common: nothing is stored.
Quiet ==
  /\ writes' = writes /\ CallsKept
  /\ objects' \in [Keys -> Seq(Ids)] /\ files' \in [Keys -> 0..writes]
  /\ lifts' \in [Keys -> Nat] /\ \A k \in Keys : Places(k)
  /\ \A k \in Keys, w \in 1..writes : Keeps(k, w)
  /\ \A k \in Keys : files'[k] \in {files[k], None}
  /\ removed' \subseteq RemovedFiles
  /\ \A y \in removed' : y \in removed \/ \E c \in Callers :
       /\ call[c] # Idle /\ y.key \in DOMAIN call[c].targets
       /\ y.known => y.write = call[c].begun[y.key].object
  /\ \A y \in removed' :
       /\ y.lifts <= lifts'[y.key]
       /\ y.known /\ ~y.versionId /\ ~y.refused /\ y.lifts = lifts'[y.key] =>
            Settled(objects'[y.key], y.write)

\* A call that was made is not idle.
LEMMA MadeIsNotIdle ==
  ASSUME NEW x, CallOK(x)
  PROVE  x # Idle /\ x.pc # "idle"
BY DEF CallOK, Idle

\* What a call has deleted stays deleted.
LEMMA StaysDeleted ==
  ASSUME IInv, Quiet, NEW c \in Callers, call[c] # Idle, NEW k \in DOMAIN call[c].targets
  PROVE  /\ ObjectSettled(call[c], k) => ObjectSettled(call[c], k)'
         /\ FileGone(c, k) => FileGone(c, k)'
<1>0. PICK x : x = call[c]
  OBVIOUS
<1>1. CallOK(x) /\ k \in Keys /\ writes \in Nat
  BY <1>0, BoundsAssumption DEF IInv, TypeOK, CallOK
<1>2. k \in DOMAIN x.targets /\ x.begun[k].object \in 0..writes
  BY <1>0, <1>1 DEF CallOK
<1>3. /\ x.begun[k].object # None => Keeps(k, x.begun[k].object)
      /\ Places(k) /\ lifts[k] \in Nat
  BY <1>1, <1>2 DEF Quiet, None, IInv, TypeOK
<1>4. call'[c].targets = x.targets /\ call'[c].begun = x.begun
  BY <1>0 DEF Quiet, CallsKept
<1>5. ASSUME ObjectSettled(call[c], k) PROVE ObjectSettled(call[c], k)'
  <2>1. ObjectSettled(x, k)'
    BY <1>0, <1>1, <1>2, <1>3, <1>5, SettledKept
  <2> QED
    BY <1>4, <2>1 DEF ObjectSettled
<1>6. ASSUME FileGone(c, k) PROVE FileGone(c, k)'
  <2>1. files'[k] \in {files[k], None}
    BY <1>1 DEF Quiet
  <2> QED
    BY <1>0, <1>4, <1>6, <2>1 DEF FileGone
<1> QED
  BY <1>5, <1>6

\* A write that is still to be stored stays unknown.
LEMMA StaysUnserved ==
  ASSUME IInv, Quiet, NEW r \in Puts
  PROVE  Unserved(r)'
<1>1. r \in PutRequests /\ Unserved(r) /\ writes \in Nat
  BY RequestKinds, BoundsAssumption DEF IInv, DeletesInv, TypeOK
<1>2. r.key \in Keys /\ r.write \in 1..writes
  BY <1>1 DEF PutRequests
<1>3. ASSUME r.put = "object"
      PROVE  /\ r.write \notin Range(objects'[r.key])
             /\ \A y \in removed' : y.key = r.key /\ y.known => y.write # r.write
  <2>1. r.write \notin Range(objects[r.key])
    BY <1>1, <1>3 DEF Unserved
  <2>2. Keeps(r.key, r.write)
    BY <1>2 DEF Quiet
  <2>3. ASSUME NEW y \in removed', y.key = r.key, y.known PROVE y.write # r.write
    <3>1. CASE y \in removed
      BY <1>1, <1>3, <2>3, <3>1 DEF Unserved
    <3>2. CASE y \notin removed
      <4>1. PICK c \in Callers : /\ call[c] # Idle /\ y.key \in DOMAIN call[c].targets
                                 /\ y.known => y.write = call[c].begun[y.key].object
        BY <3>2 DEF Quiet
      <4> QED
        BY <1>1, <1>3, <2>3, <4>1 DEF Unserved
    <3> QED
      BY <3>1, <3>2
  <2> QED
    BY <2>1, <2>2, <2>3 DEF Keeps
<1>4. r.put = "file" => files'[r.key] # r.write
  <2>1. files'[r.key] \in {files[r.key], None} /\ r.write # None
    BY <1>1, <1>2 DEF Quiet, None
  <2> QED
    BY <1>1, <2>1 DEF Unserved
<1>5. ASSUME NEW c \in Callers, call'[c] # Idle, r.key \in DOMAIN call'[c].targets
      PROVE  /\ r.put = "object" =>
                  r.write # call'[c].begun[r.key].object
             /\ r.put = "file" => r.write # call'[c].begun[r.key].file
  <2>1. call[c] # Idle /\ call'[c].targets = call[c].targets /\ call'[c].begun = call[c].begun
    BY <1>5 DEF Quiet, CallsKept
  <2> QED
    BY <1>1, <1>5, <2>1 DEF Unserved
<1> QED
  BY <1>3, <1>4, <1>5 DEF Unserved

\* A step of one caller: the other callers' requests are left on the wire, and
\* what is new there is a request of its own.
LEMMA CallerStep ==
  ASSUME IInv, Quiet, NEW who \in Callers, DOMAIN call' = Callers, failures' \in 0..MaxFailures,
         \A c \in Callers \ {who} : call'[c] = call[c],
         CallOK(call'[who]),
         call'[who].pc \in {"objects", "files"} => (\E r \in Deletes : r.by = who /\ Awaited(r))',
         \A r \in Deletes : r \in wire' \/ r.by = who,
         \A r \in wire' : \/ r \in wire
                          \/ /\ DeleteOK(r)' /\ r.by = who
                             /\ r.delete = "files" => \A k \in DOMAIN r.targets \ r.refused :
                                                        ObjectSettled(call[who], k)',
         call'[who].pc \in {"files", "returned"} =>
           \A k \in DOMAIN call'[who].targets \ call'[who].errors : ObjectSettled(call[who], k)',
         call'[who].pc = "returned" /\ ~call'[who].disabled =>
           \A k \in DOMAIN call'[who].targets \ call'[who].missed : FileGone(who, k)'
  PROVE  IInv'
<1>1. /\ writes' = writes /\ CallsKept /\ DOMAIN call = Callers
      /\ \A c \in Callers : call[c] = Idle \/ CallOK(call[c])
  BY DEF Quiet, IInv, TypeOK
<1>2. ASSUME NEW x, CallOK(x) PROVE CallOK(x)'
  <2>1. writes \in Nat /\ \A k \in Keys : lifts[k] \in Nat /\ Places(k)
    BY BoundsAssumption DEF Quiet, IInv, TypeOK
  <2> QED
    BY <1>1, <1>2, <2>1, CallOKKept
<1>3. \A c \in Callers : call'[c] = Idle \/ CallOK(call'[c])
  BY <1>1
<1>4. ASSUME NEW r \in wire' PROVE r \in PutRequests' \/ DeleteOK(r)'
  <2>1. CASE r \in wire /\ r \in PutRequests
    BY <1>1, <2>1 DEF PutRequests
  <2>2. CASE r \in wire /\ DeleteOK(r)
    BY <1>1, <2>2 DEF DeleteOK, CallsKept
  <2>3. CASE r \notin wire
    BY <1>4, <2>3
  <2> QED
    BY <2>1, <2>2, <2>3 DEF IInv, TypeOK
<1>5. ASSUME NEW c \in Callers, call'[c].pc \in {"objects", "files"}
      PROVE  \E r \in Deletes' : r.by = c /\ Awaited(r)'
  <2>1. CASE c = who
    BY <1>5, <2>1
  <2>2. CASE c # who
    <3>1. call'[c] = call[c]
      BY <2>2
    <3>2. PICK r \in Deletes : r.by = c /\ Awaited(r)
      BY <1>5, <3>1 DEF IInv, TypeOK
    <3>3. r \in wire' /\ "put" \notin DOMAIN r
      BY <2>2, <3>2 DEF Deletes, Puts
    <3> QED
      BY <3>1, <3>2, <3>3 DEF Deletes, Puts, Awaited
  <2> QED
    BY <2>1, <2>2
<1>6. TypeOK'
  <2>1. objects' \in [Keys -> Seq({Gone} \cup 0..writes)] /\ files' \in [Keys -> 0..writes]
    BY DEF Quiet, Ids
  <2>2. /\ lifts' \in [Keys -> Nat]
        /\ removed' \subseteq [key: Keys, write: 1..writes, known: BOOLEAN,
                               versionId: BOOLEAN, refused: BOOLEAN, lifts: Nat]
    BY DEF Quiet, RemovedFiles
  <2>3. writes \in 0..MaxWrites
    BY DEF IInv, TypeOK
  <2>4. \A c \in Callers : call'[c] = Idle \/ CallOK(call[c])'
    BY <1>2, <1>3
  <2> QED
    BY <1>1, <1>4, <1>5, <2>1, <2>2, <2>3, <2>4 DEF TypeOK
<1>7. ASSUME NEW r \in Puts' PROVE Unserved(r)'
  <2>1. r \in wire' /\ "put" \in DOMAIN r
    BY DEF Puts
  <2>2. r \in wire
    <3> SUFFICES ASSUME r \notin wire PROVE FALSE
      OBVIOUS
    <3>1. DeleteOK(r)'
      BY <2>1
    <3> QED
      BY <2>1, <3>1 DEF DeleteOK
  <2> QED
    BY <2>1, <2>2, StaysUnserved DEF Puts
<1>8. ASSUME NEW r \in Deletes', r.delete = "files", NEW k \in DOMAIN r.targets \ r.refused
      PROVE  ObjectSettled(call[r.by], k)'
  <2>1. r \in wire' /\ "put" \notin DOMAIN r
    BY DEF Deletes, Puts
  <2>2. CASE r \in wire
    <3>1. r \in Deletes
      BY <2>1, <2>2 DEF Deletes, Puts
    <3>2. ObjectSettled(call[r.by], k)
      BY <1>8, <3>1 DEF IInv, DeletesInv
    <3>3. r.by \in Callers /\ call[r.by] # Idle /\ k \in DOMAIN call[r.by].targets
      BY <3>1, RequestOfCall, MadeIsNotIdle DEF IInv
    <3> QED
      BY <3>2, <3>3, StaysDeleted
  <2>3. CASE r \notin wire
    BY <1>8, <2>1, <2>3
  <2> QED
    BY <2>2, <2>3
<1>9. ASSUME NEW c \in Callers, call'[c].pc \in {"files", "returned"},
             NEW k \in DOMAIN call'[c].targets \ call'[c].errors
      PROVE  ObjectSettled(call[c], k)'
  <2>1. CASE c = who
    BY <1>9, <2>1
  <2>2. CASE c # who
    <3>1. call'[c] = call[c] /\ call[c] # Idle
      BY <1>9, <2>2 DEF Idle
    <3>2. ObjectSettled(call[c], k)
      BY <1>9, <3>1 DEF IInv, DeletesInv
    <3> QED
      BY <3>1, <3>2, StaysDeleted
  <2> QED
    BY <2>1, <2>2
<1>10. ASSUME NEW c \in Callers, call'[c].pc = "returned", ~call'[c].disabled,
              NEW k \in DOMAIN call'[c].targets \ call'[c].missed
       PROVE  FileGone(c, k)'
  <2>1. CASE c = who
    BY <1>10, <2>1
  <2>2. CASE c # who
    <3>1. call'[c] = call[c] /\ call[c] # Idle
      BY <1>10, <2>2 DEF Idle
    <3>2. FileGone(c, k)
      BY <1>10, <3>1 DEF IInv, DeletesInv
    <3> QED
      BY <3>1, <3>2, StaysDeleted
  <2> QED
    BY <2>1, <2>2
<1>11. DeletesInv'
  BY <1>7, <1>8, <1>9, <1>10 DEF DeletesInv, Quiet
<1> QED
  BY <1>6, <1>11 DEF IInv

\* A call that goes on keeps what it was to delete.
LEMMA CallGoesOn ==
  ASSUME TypeOK, NEW c \in Callers, CallOK(call[c]), NEW y, CallOK(y),
         y.targets = call[c].targets, y.begun = call[c].begun, call' = [call EXCEPT ![c] = y]
  PROVE  /\ CallsKept /\ DOMAIN call' = Callers /\ call'[c] = y
         /\ \A d \in Callers \ {c} : call'[d] = call[d]
<1>1. DOMAIN call = Callers
  BY DEF TypeOK
<1>2. /\ DOMAIN call' = Callers /\ call'[c] = y
      /\ \A d \in Callers \ {c} : call'[d] = call[d]
  BY <1>1
<1>3. y # Idle /\ call[c] # Idle
  BY MadeIsNotIdle
<1> QED
  BY <1>2, <1>3 DEF CallsKept

\* Serving a request to delete stores nothing ...
LEMMA ApplyIsQuiet ==
  ASSUME IInv, NEW r \in Deletes, NEW bad, Apply(r, bad), writes' = writes, CallsKept
  PROVE  Quiet
<1>1. r.by \in Callers /\ call[r.by] # Idle
  BY RequestOfCall, MadeIsNotIdle DEF IInv
<1>2. /\ objects' \in [Keys -> Seq(Ids)] /\ files' \in [Keys -> 0..writes]
      /\ lifts' \in [Keys -> Nat] /\ \A k \in Keys : Places(k)
      /\ \A k \in Keys, w \in 1..writes : Keeps(k, w)
      /\ \A k \in Keys : files'[k] \in {files[k], None}
  BY ApplyStep
<1>3. /\ removed' \subseteq RemovedFiles
      /\ \A y \in removed' : y \in removed \/
           /\ y.key \in DOMAIN call[r.by].targets
           /\ y.known => y.write = call[r.by].begun[y.key].object
      /\ \A y \in removed' :
           /\ y.lifts <= lifts'[y.key]
           /\ y.known /\ ~y.versionId /\ ~y.refused /\ y.lifts = lifts'[y.key] =>
                Settled(objects'[y.key], y.write)
  BY RemovedStep DEF RemovedFiles
<1> QED
  BY <1>1, <1>2, <1>3 DEF Quiet

\* ... and neither does sending one or giving up.
LEMMA NothingServed ==
  ASSUME IInv, UNCHANGED <<writes, objects, files, removed, lifts>>, CallsKept
  PROVE  Quiet
<1>1. /\ objects \in [Keys -> Seq(Ids)] /\ files \in [Keys -> 0..writes]
      /\ removed \subseteq RemovedFiles /\ lifts \in [Keys -> Nat]
  BY DEF IInv, TypeOK, Ids, RemovedFiles
<1>2. \A y \in removed :
        /\ y.lifts <= lifts[y.key]
        /\ y.known /\ ~y.versionId /\ ~y.refused /\ y.lifts = lifts[y.key] =>
             Settled(objects[y.key], y.write)
  BY DEF IInv, DeletesInv
<1>3. \A k \in Keys : Places(k)
  BY <1>1 DEF Places, SlotsKept
<1> QED
  BY <1>1, <1>2, <1>3 DEF Quiet, Keeps

\* boto3 raises.
LEMMA GiveUpStep ==
  ASSUME IInv, NEW c \in Callers, GiveUp(c)
  PROVE  IInv'
<1> DEFINE y == [call[c] EXCEPT !.pc = "raised"]
<1>1. CallOK(call[c]) /\ DOMAIN call = Callers
  BY DEF GiveUp, IInv, TypeOK, Idle
<1>2. call' = [call EXCEPT ![c] = y] /\ UNCHANGED <<writes, objects, files, wire, removed, lifts>>
  BY DEF GiveUp
<1>3. CallOK(y) /\ y.targets = call[c].targets /\ y.begun = call[c].begun /\ y.pc = "raised"
  BY <1>1 DEF CallOK
<1> HIDE DEF y
<1>4. /\ CallsKept /\ DOMAIN call' = Callers /\ call'[c] = y
      /\ \A d \in Callers \ {c} : call'[d] = call[d]
  BY <1>1, <1>2, <1>3, CallGoesOn DEF IInv
<1>5. Quiet
  BY <1>2, <1>4, NothingServed
<1>6. failures' \in 0..MaxFailures
  BY BoundsAssumption DEF GiveUp, Fail, IInv, TypeOK
<1>7. \A r \in Deletes : r \in wire'
  BY <1>2 DEF Deletes
<1> QED
  BY <1>2, <1>3, <1>4, <1>5, <1>6, <1>7, CallerStep

\* The caller tries again.
LEMMA RetryStep ==
  ASSUME IInv, NEW c \in Callers, Retry(c)
  PROVE  IInv'
<1>0. PICK n : n = call[c].attempt + 1
  OBVIOUS
<1>q. PICK q : q = [delete |-> "objects", by |-> c, attempt |-> n, targets |-> call[c].targets]
  OBVIOUS
<1> DEFINE y == [call[c] EXCEPT !.pc = "objects", !.attempt = n, !.errors = {}]
<1>1. CallOK(call[c]) /\ DOMAIN call = Callers
  BY DEF Retry, IInv, TypeOK, Idle
<1>2. /\ call' = [call EXCEPT ![c] = y] /\ wire' = wire \cup {q}
      /\ UNCHANGED <<writes, objects, files, failures, removed, lifts>>
  BY <1>0, <1>q, <1>1 DEF Retry
<1>3. /\ CallOK(y) /\ y.targets = call[c].targets /\ y.begun = call[c].begun
      /\ y.pc = "objects" /\ y.attempt = n /\ n \in Nat
  <2>1. n \in Nat
    BY <1>0, <1>1 DEF CallOK
  <2>2. /\ y \in [pc: {"objects", "files", "returned", "raised"},
                  op: {"delete_object", "delete_objects"}, targets: {y.targets},
                  disabled: BOOLEAN, attempt: Nat, errors: SUBSET Keys, missed: SUBSET Keys,
                  begun: {y.begun}]
        /\ y.targets = call[c].targets /\ y.begun = call[c].begun
        /\ y.pc = "objects" /\ y.attempt = n
    BY <1>1, <2>1 DEF CallOK
  <2> HIDE DEF y
  <2> QED
    BY <1>1, <2>1, <2>2 DEF CallOK
<1> HIDE DEF y
<1>4. /\ CallsKept /\ DOMAIN call' = Callers /\ call'[c] = y
      /\ \A d \in Callers \ {c} : call'[d] = call[d]
  BY <1>1, <1>2, <1>3, CallGoesOn DEF IInv
<1>5. Quiet
  BY <1>2, <1>4, NothingServed
<1>6. failures' \in 0..MaxFailures /\ \A r \in Deletes : r \in wire'
  BY <1>2 DEF IInv, TypeOK, Deletes
<1>7. DeleteOK(q)' /\ q.by = c /\ q.delete = "objects" /\ q.attempt = n
  <2>1. y # Idle
    BY <1>3, MadeIsNotIdle
  <2> QED
    BY <1>q, <1>3, <1>4, <2>1 DEF DeleteOK
<1>8. (\E r \in Deletes : r.by = c /\ Awaited(r))'
  <2>1. q \in Deletes'
    BY <1>q, <1>2 DEF Deletes, Puts
  <2>2. Awaited(q)'
    BY <1>3, <1>4, <1>7 DEF Awaited
  <2> QED
    BY <1>7, <2>1, <2>2
<1>9. \A r \in wire' : r \in wire \/ r = q
  BY <1>2
<1> QED
  BY <1>3, <1>4, <1>5, <1>6, <1>7, <1>8, <1>9, CallerStep

\* A request that is served while no call hears of it.
LEMMA UnheardStep ==
  ASSUME IInv, NEW r \in Deletes, ServeUnheard(r) \/ ServeLate(r)
  PROVE  IInv'
<1>0. PICK c : c = r.by
  OBVIOUS
<1>1. c \in Callers /\ CallOK(call[c]) /\ call[c] # Idle
  BY <1>0, RequestOfCall, MadeIsNotIdle DEF IInv
<1>2. /\ Apply(r, {}) /\ call' = call /\ writes' = writes
      /\ wire' = wire \/ (wire' = wire \ {r} /\ ~Awaited(r))
  BY DEF ServeUnheard, ServeLate
<1>3. CallsKept
  BY <1>2 DEF CallsKept
<1>4. Quiet
  BY <1>2, <1>3, ApplyIsQuiet
<1>5. failures' \in 0..MaxFailures
  BY BoundsAssumption DEF ServeUnheard, ServeLate, Fail, IInv, TypeOK
<1>6. ASSUME call'[c].pc \in {"objects", "files"}
      PROVE  (\E q \in Deletes : q.by = c /\ Awaited(q))'
  <2>1. PICK q \in Deletes : q.by = c /\ Awaited(q)
    BY <1>1, <1>2, <1>6 DEF IInv, TypeOK
  <2>2. q \in wire' /\ "put" \notin DOMAIN q
    BY <1>2, <2>1 DEF Deletes, Puts
  <2> QED
    BY <1>2, <2>1, <2>2 DEF Deletes, Puts, Awaited
<1>7. ASSUME call'[c].pc \in {"files", "returned"},
             NEW k \in DOMAIN call'[c].targets \ call'[c].errors
      PROVE  ObjectSettled(call[c], k)'
  <2>1. ObjectSettled(call[c], k)
    BY <1>1, <1>2, <1>7 DEF IInv, DeletesInv
  <2> QED
    BY <1>1, <1>2, <1>4, <2>1, StaysDeleted
<1>8. ASSUME call'[c].pc = "returned", ~call'[c].disabled,
             NEW k \in DOMAIN call'[c].targets \ call'[c].missed
      PROVE  FileGone(c, k)'
  <2>1. FileGone(c, k)
    BY <1>1, <1>2, <1>8 DEF IInv, DeletesInv
  <2> QED
    BY <1>1, <1>2, <1>4, <2>1, StaysDeleted
<1>9. DOMAIN call' = Callers /\ \A q \in Deletes : q \in wire' \/ q.by = c
  BY <1>0, <1>2 DEF IInv, TypeOK, Deletes
<1>10. /\ \A q \in wire' : q \in wire
       /\ \A d \in Callers \ {c} : call'[d] = call[d] /\ CallOK(call'[c])
  BY <1>1, <1>2
<1>11. CallOK(call'[c])
  BY <1>1, <1>2
<1> QED
  BY <1>1, <1>4, <1>5, <1>6, <1>7, <1>8, <1>9, <1>10, <1>11, CallerStep

\* The first answer: what it does not refuse is gone before the second request.
LEMMA ServeObjectsStep ==
  ASSUME IInv, NEW r \in Deletes, NEW bad, bad \subseteq DOMAIN r.targets,
         r.delete = "objects", Serve(r, bad)
  PROVE  IInv'
<1>0. PICK c : c = r.by
  OBVIOUS
<1>1. /\ c \in Callers /\ CallOK(call[c]) /\ DOMAIN call = Callers /\ r.attempt \in Nat
      /\ DOMAIN r.targets = DOMAIN call[c].targets /\ DOMAIN r.targets \subseteq Keys
  BY <1>0, RequestOfCall DEF IInv, TypeOK
<1>2. /\ Apply(r, bad) /\ ObjectsDeleted(r, bad) /\ writes' = writes
      /\ call[c].attempt = r.attempt
  BY <1>0 DEF Serve, Awaited
<1>3. PICK p \in {"files", "returned"} :
        /\ call' = [call EXCEPT ![c] = [call[c] EXCEPT !.pc = p, !.errors = bad]]
        /\ p = "returned" => call[c].disabled /\ wire' = wire \ {r}
        /\ p = "files" => wire' = (wire \ {r}) \cup {SecondRequest(r, bad)}
  <2>1. CASE call[c].disabled
    BY <1>0, <1>1, <1>2, <2>1 DEF ObjectsDeleted
  <2>2. CASE ~call[c].disabled
    BY <1>0, <1>1, <1>2, <2>2 DEF ObjectsDeleted
  <2> QED
    BY <2>1, <2>2
<1>4. PICK y : y = [call[c] EXCEPT !.pc = p, !.errors = bad]
  OBVIOUS
<1>5. /\ CallOK(y) /\ y.targets = call[c].targets /\ y.begun = call[c].begun
      /\ y.pc = p /\ y.errors = bad /\ y.attempt = r.attempt /\ y.disabled = call[c].disabled
  <2>1. /\ y \in [pc: {"objects", "files", "returned", "raised"},
                  op: {"delete_object", "delete_objects"}, targets: {y.targets},
                  disabled: BOOLEAN, attempt: Nat, errors: SUBSET Keys, missed: SUBSET Keys,
                  begun: {y.begun}]
        /\ y.targets = call[c].targets /\ y.begun = call[c].begun
        /\ y.pc = p /\ y.errors = bad /\ y.attempt = call[c].attempt
        /\ y.disabled = call[c].disabled
    BY <1>1, <1>4 DEF CallOK
  <2> QED
    BY <1>1, <1>2, <2>1 DEF CallOK
<1>6. /\ CallsKept /\ DOMAIN call' = Callers /\ call'[c] = y
      /\ \A d \in Callers \ {c} : call'[d] = call[d]
  BY <1>1, <1>3, <1>4, <1>5, CallGoesOn DEF IInv
<1>7. Quiet
  BY <1>2, <1>6, ApplyIsQuiet
<1>8. failures' \in 0..MaxFailures
  BY BoundsAssumption DEF Serve, Fail, IInv, TypeOK
<1>9. ASSUME NEW k \in DOMAIN r.targets \ bad PROVE ObjectSettled(call[c], k)'
  <2>1. PICK x : x = call[c]
    OBVIOUS
  <2>2. ObjectSettled(x, k)'
    BY <1>0, <1>2, <2>1, ApplyStep
  <2> QED
    BY <1>5, <1>6, <2>1, <2>2 DEF ObjectSettled
<1>10. PICK q : q = SecondRequest(r, bad)
  OBVIOUS
<1>11. /\ DeleteOK(q)' /\ q.by = c /\ q.attempt = r.attempt /\ q.delete = "files"
       /\ q.refused = bad /\ DOMAIN q.targets = DOMAIN r.targets
  <2>1. q = [delete |-> "files", by |-> c, attempt |-> r.attempt, refused |-> bad,
             targets |-> [k \in DOMAIN r.targets |-> None]]
    BY <1>0, <1>10 DEF SecondRequest
  <2>2. y # Idle
    BY <1>5, MadeIsNotIdle
  <2>3. [k \in DOMAIN r.targets |-> None] = [k \in DOMAIN call'[c].targets |-> None]
    BY <1>1, <1>5, <1>6
  <2>4. bad \subseteq Keys
    BY <1>1
  <2> QED
    BY <1>1, <1>6, <2>1, <2>2, <2>3, <2>4 DEF DeleteOK
<1>12. y.pc \in {"objects", "files"} => (\E d \in Deletes : d.by = c /\ Awaited(d))'
  <2> SUFFICES ASSUME p = "files" PROVE (\E d \in Deletes : d.by = c /\ Awaited(d))'
    BY <1>5
  <2>1. q \in wire' /\ "put" \notin DOMAIN q
    BY <1>3, <1>10, <1>11 DEF DeleteOK
  <2>2. Awaited(q)'
    BY <1>5, <1>6, <1>11 DEF Awaited
  <2> QED
    BY <1>11, <2>1, <2>2 DEF Deletes, Puts
<1>13. /\ \A d \in wire' : d \in wire \/ d = q
       /\ \A d \in Deletes : d \in wire' \/ d.by = c
  BY <1>0, <1>3, <1>10 DEF Deletes
<1>14. ~(y.pc = "returned" /\ ~y.disabled)
  BY <1>3, <1>5
<1> QED
  BY <1>1, <1>5, <1>6, <1>7, <1>8, <1>9, <1>11, <1>12, <1>13, <1>14, CallerStep

\* The second answer: the instruction files are gone too.
LEMMA ServeFilesStep ==
  ASSUME IInv, NEW r \in Deletes, NEW bad, bad \subseteq DOMAIN r.targets,
         r.delete = "files", Serve(r, bad)
  PROVE  IInv'
<1>0. PICK c : c = r.by
  OBVIOUS
<1>1. /\ c \in Callers /\ CallOK(call[c]) /\ call[c] # Idle /\ DOMAIN call = Callers
      /\ DOMAIN r.targets = DOMAIN call[c].targets /\ DOMAIN r.targets \subseteq Keys
  BY <1>0, RequestOfCall, MadeIsNotIdle DEF IInv, TypeOK
<1>2. /\ Apply(r, bad) /\ FilesDeleted(r, bad) /\ writes' = writes /\ call[c].pc = "files"
  BY <1>0 DEF Serve, Awaited
<1>3. PICK y : y = [call[c] EXCEPT !.pc = "returned", !.missed = bad]
  OBVIOUS
<1>4. call' = [call EXCEPT ![c] = y] /\ wire' = wire \ {r}
  BY <1>0, <1>1, <1>2, <1>3 DEF FilesDeleted
<1>5. /\ CallOK(y) /\ y.targets = call[c].targets /\ y.begun = call[c].begun
      /\ y.pc = "returned" /\ y.errors = call[c].errors /\ y.missed = bad
  <2>1. /\ y \in [pc: {"objects", "files", "returned", "raised"},
                  op: {"delete_object", "delete_objects"}, targets: {y.targets},
                  disabled: BOOLEAN, attempt: Nat, errors: SUBSET Keys, missed: SUBSET Keys,
                  begun: {y.begun}]
        /\ y.targets = call[c].targets /\ y.begun = call[c].begun
        /\ y.pc = "returned" /\ y.errors = call[c].errors /\ y.missed = bad
    BY <1>1, <1>3 DEF CallOK
  <2> QED
    BY <1>1, <2>1 DEF CallOK
<1>6. /\ CallsKept /\ DOMAIN call' = Callers /\ call'[c] = y
      /\ \A d \in Callers \ {c} : call'[d] = call[d]
  BY <1>1, <1>4, <1>5, CallGoesOn DEF IInv
<1>7. Quiet
  BY <1>2, <1>6, ApplyIsQuiet
<1>8. failures' \in 0..MaxFailures
  BY BoundsAssumption DEF Serve, Fail, IInv, TypeOK
<1>9. ASSUME NEW k \in DOMAIN y.targets \ y.errors PROVE ObjectSettled(call[c], k)'
  <2>1. ObjectSettled(call[c], k)
    BY <1>1, <1>2, <1>5 DEF IInv, DeletesInv
  <2> QED
    BY <1>1, <1>5, <1>7, <2>1, StaysDeleted
<1>10. ASSUME NEW k \in DOMAIN y.targets \ y.missed PROVE FileGone(c, k)'
  <2>1. files'[k] = None
    BY <1>1, <1>2, <1>5, ApplyStep
  <2> QED
    BY <2>1 DEF FileGone
<1>11. /\ \A d \in wire' : d \in wire
       /\ \A d \in Deletes : d \in wire' \/ d.by = c
  BY <1>0, <1>4 DEF Deletes
<1> QED
  BY <1>1, <1>5, <1>6, <1>7, <1>8, <1>9, <1>10, <1>11, CallerStep

-----------------------------------------------------------------------------
(* New calls and writes *)

\* A call begins: it knows only what is stored.
LEMMA BeginStep ==
  ASSUME IInv, NEW c \in Callers, NEW op \in {"delete_object", "delete_objects"},
         NEW t \in Targets, NEW disabled \in BOOLEAN, Begin(c, op, t, disabled)
  PROVE  IInv'
<1>1. /\ writes \in 0..MaxWrites /\ writes \in Nat /\ DOMAIN call = Callers
      /\ objects \in [Keys -> Seq(Ids)] /\ files \in [Keys -> 0..writes]
      /\ lifts \in [Keys -> Nat]
  BY BoundsAssumption DEF IInv, TypeOK, Ids
<1>2. call[c] = Idle
  BY DEF Begin, IInv, TypeOK, CallOK
<1>3. /\ DOMAIN t \subseteq Keys
      /\ \A k \in DOMAIN t : t[k] = None \/ (Versioned /\ t[k] \in DOMAIN objects[k])
  BY DEF Targets
<1>4. PICK y : y = [pc |-> "objects", op |-> op, targets |-> t, disabled |-> disabled,
                    attempt |-> 1, errors |-> {}, missed |-> {},
                    begun |-> [k \in DOMAIN t |-> Found(k)]]
  OBVIOUS
<1>5. PICK q : q = [delete |-> "objects", by |-> c, attempt |-> 1, targets |-> t]
  OBVIOUS
<1>6. /\ call' = [call EXCEPT ![c] = y] /\ wire' = wire \cup {q}
      /\ UNCHANGED <<writes, objects, files, failures, removed, lifts>>
  BY <1>4, <1>5 DEF Begin
<1>7. call'[c] = y /\ DOMAIN call' = Callers /\ \A d \in Callers \ {c} : call'[d] = call[d]
  BY <1>1, <1>6
<1>8. ASSUME NEW k \in DOMAIN t
      PROVE  /\ k \in Keys /\ Current(objects[k]) \in 0..writes
             /\ Current(objects[k]) = None \/ Current(objects[k]) \in Range(objects[k])
  <2>1. k \in Keys /\ objects[k] \in Seq(Ids)
    BY <1>1, <1>3
  <2>2. \/ Current(objects[k]) = None
        \/ Current(objects[k]) \in Range(objects[k]) /\ Current(objects[k]) \in Ids
           /\ Current(objects[k]) # Gone
    BY <2>1, CurrentKnown
  <2> QED
    BY <1>1, <2>1, <2>2 DEF Ids, None
<1>9. CallOK(y) /\ y # Idle
  <2>1. y.targets = t /\ DOMAIN y.begun = DOMAIN t
    BY <1>4
  <2>2. \A k \in DOMAIN t :
          y.begun[k] \in [object: 0..writes, file: 0..writes, lifts: 0..lifts[k]]
    BY <1>1, <1>4, <1>8 DEF Found
  <2>3. y \in [pc: {"objects", "files", "returned", "raised"},
               op: {"delete_object", "delete_objects"}, targets: {y.targets},
               disabled: BOOLEAN, attempt: Nat, errors: SUBSET Keys, missed: SUBSET Keys,
               begun: {y.begun}]
    BY <1>4
  <2>4. CallOK(y)
    BY <1>3, <2>1, <2>2, <2>3 DEF CallOK
  <2> QED
    BY <2>4, MadeIsNotIdle
<1>10. DeleteOK(q)' /\ q.by = c /\ q.delete = "objects" /\ "put" \notin DOMAIN q
  <2>1. call'[c].targets = t
    BY <1>4, <1>7
  <2> QED
    BY <1>5, <1>7, <1>9, <2>1 DEF DeleteOK
<1>11. ASSUME NEW r \in wire, DeleteOK(r) PROVE r.by # c /\ DeleteOK(r)'
  BY <1>2, <1>7, <1>11 DEF DeleteOK
<1>12. \A r \in Deletes : r.by \in Callers \ {c} /\ call'[r.by] = call[r.by]
  BY <1>7, <1>11, RequestKinds DEF IInv, DeleteOK
<1>13. \A r \in wire' : r \in PutRequests' \/ DeleteOK(r)'
  BY <1>6, <1>10, <1>11 DEF IInv, TypeOK, PutRequests
<1>14. Puts' = Puts /\ Deletes' = Deletes \cup {q}
  BY <1>6, <1>10 DEF Puts, Deletes
<1>15. ASSUME NEW d \in Callers, call'[d].pc \in {"objects", "files"}
       PROVE  \E r \in Deletes' : r.by = d /\ Awaited(r)'
  <2>1. CASE d = c
    <3>1. Awaited(q)'
      BY <1>4, <1>5, <1>7 DEF Awaited
    <3> QED
      BY <1>10, <1>14, <2>1, <3>1
  <2>2. CASE d # c
    <3>1. PICK r \in Deletes : r.by = d /\ Awaited(r)
      BY <1>7, <1>15, <2>2 DEF IInv, TypeOK
    <3> QED
      BY <1>7, <1>14, <2>2, <3>1 DEF Awaited
  <2> QED
    BY <2>1, <2>2
<1>16. TypeOK'
  <2>1. \A x : CallOK(x)' <=> CallOK(x)
    BY <1>6 DEF CallOK
  <2>2. \A d \in Callers : call'[d] = Idle \/ CallOK(call'[d])
    BY <1>7, <1>9 DEF IInv, TypeOK
  <2> QED
    BY <1>6, <1>7, <1>13, <1>15, <2>1, <2>2 DEF IInv, TypeOK
<1>17. ASSUME NEW r \in Puts PROVE Unserved(r)'
  <2>1. Unserved(r) /\ r.key \in Keys /\ r.write \in 1..writes /\ r.write # None
    BY <1>1, RequestKinds DEF IInv, DeletesInv, PutRequests, None
  <2>2. ASSUME r.key \in DOMAIN t
        PROVE  /\ r.put = "object" => r.write # Current(objects[r.key])
               /\ r.put = "file" => r.write # files[r.key]
    BY <1>3, <1>8, <2>1, <2>2 DEF Unserved
  <2>3. /\ y.targets = t
        /\ \A k \in DOMAIN t : y.begun[k].object = Current(objects[k]) /\ y.begun[k].file = files[k]
    BY <1>4 DEF Found
  <2>4. ASSUME NEW d \in Callers, call'[d] # Idle, r.key \in DOMAIN call'[d].targets
        PROVE  /\ r.put = "object" =>
                    r.write # call'[d].begun[r.key].object
               /\ r.put = "file" => r.write # call'[d].begun[r.key].file
    <3>1. CASE d = c
      BY <1>7, <2>2, <2>3, <2>4, <3>1
    <3>2. CASE d # c
      BY <1>7, <2>1, <2>4, <3>2 DEF Unserved
    <3> QED
      BY <3>1, <3>2
  <2> QED
    BY <1>6, <2>1, <2>4 DEF Unserved
<1>18. DeletesInv'
  <2>1. ASSUME NEW r \in Deletes', r.delete = "files", NEW k \in DOMAIN r.targets \ r.refused
        PROVE  ObjectSettled(call[r.by], k)'
    <3>1. r \in Deletes
      BY <1>10, <1>14, <2>1
    <3> QED
      BY <1>6, <1>12, <2>1, <3>1 DEF IInv, DeletesInv, ObjectSettled
  <2>2. ASSUME NEW d \in Callers, call'[d].pc \in {"files", "returned"}
        PROVE  d # c /\ call'[d] = call[d]
    BY <1>4, <1>7, <2>2
  <2>3. ASSUME NEW d \in Callers, call'[d].pc \in {"files", "returned"},
               NEW k \in DOMAIN call'[d].targets \ call'[d].errors
        PROVE  ObjectSettled(call[d], k)'
    BY <1>6, <2>2, <2>3 DEF IInv, DeletesInv, ObjectSettled
  <2>4. ASSUME NEW d \in Callers, call'[d].pc = "returned", ~call'[d].disabled,
               NEW k \in DOMAIN call'[d].targets \ call'[d].missed
        PROVE  FileGone(d, k)'
    BY <1>6, <2>2, <2>4 DEF IInv, DeletesInv, FileGone
  <2> QED
    BY <1>6, <1>14, <1>17, <2>1, <2>3, <2>4 DEF IInv, DeletesInv
<1> QED
  BY <1>16, <1>18 DEF IInv

\* A write begins: its number is new to everyone.
LEMMA WriteObjectStep ==
  ASSUME IInv, NEW k \in Keys, WriteObject(k)
  PROVE  IInv'
<1>1. /\ writes \in Nat /\ MaxWrites \in Nat /\ writes < MaxWrites /\ writes' = writes + 1
      /\ UNCHANGED <<objects, files, call, failures, removed, lifts>>
  BY BoundsAssumption DEF WriteObject, IInv, TypeOK
<1>2. /\ 0..writes \subseteq 0..writes' /\ 1..writes \subseteq 1..writes'
      /\ writes + 1 \notin 0..writes /\ writes + 1 \in 1..writes' /\ writes' \in 0..MaxWrites
      /\ writes + 1 \notin Ids
  BY <1>1 DEF Ids, Gone
<1>3. /\ objects \in [Keys -> Seq(Ids)] /\ files \in [Keys -> 0..writes]
      /\ removed \subseteq RemovedFiles /\ lifts \in [Keys -> Nat]
  BY DEF IInv, TypeOK, Ids, RemovedFiles
<1> DEFINE new == {[put |-> at, key |-> k, write |-> writes + 1] : at \in {"object", "file"}}
<1>4. wire' = wire \cup new
  BY DEF WriteObject
<1>5. \A r \in new : /\ r \in PutRequests' /\ "put" \in DOMAIN r
                     /\ r.key = k /\ r.write = writes + 1 /\ r.put \in {"object", "file"}
  BY <1>2 DEF PutRequests
<1> HIDE DEF new
<1>6. Deletes' = Deletes /\ Puts' = Puts \cup new
  BY <1>4, <1>5 DEF Deletes, Puts
<1>7. ASSUME NEW x, CallOK(x) PROVE CallOK(x)'
  <2>1. \A j \in DOMAIN x.targets :
          x.begun[j] \in [object: 0..writes', file: 0..writes', lifts: 0..lifts[j]]
    BY <1>2, <1>7 DEF CallOK
  <2> QED
    BY <1>1, <1>7, <2>1 DEF CallOK
<1>8. TypeOK'
  <2>1. objects \in [Keys -> Seq({Gone} \cup 0..writes')]
    <3>1. Ids \subseteq {Gone} \cup 0..writes'
      BY <1>2 DEF Ids
    <3>2. \A s \in Seq(Ids) : s \in Seq({Gone} \cup 0..writes')
      BY <3>1
    <3> QED
      BY <1>3, <3>2
  <2>2. files \in [Keys -> 0..writes']
    BY <1>2, <1>3
  <2>3. removed \subseteq [key: Keys, write: 1..writes', known: BOOLEAN,
                           versionId: BOOLEAN, refused: BOOLEAN, lifts: Nat]
    BY <1>2, <1>3 DEF RemovedFiles
  <2>4. ASSUME NEW r \in wire' PROVE r \in PutRequests' \/ DeleteOK(r)'
    <3>1. CASE r \in wire /\ r \in PutRequests
      BY <1>2, <3>1 DEF PutRequests
    <3>2. CASE r \in wire /\ DeleteOK(r)
      BY <1>1, <3>2 DEF DeleteOK
    <3> QED
      BY <1>4, <1>5, <3>1, <3>2 DEF IInv, TypeOK
  <2>5. \A c \in Callers : call[c].pc \in {"objects", "files"} =>
          \E r \in Deletes' : r.by = c /\ Awaited(r)'
    BY <1>1, <1>6 DEF IInv, TypeOK, Awaited
  <2> QED
    BY <1>1, <1>2, <1>7, <2>1, <2>2, <2>3, <2>4, <2>5 DEF IInv, TypeOK
<1>9. ASSUME NEW r \in Puts' PROVE Unserved(r)'
  <2>1. CASE r \in Puts
    BY <1>1, <2>1 DEF IInv, DeletesInv, Unserved
  <2>2. CASE r \in new
    <3>1. r.key = k /\ r.write = writes + 1
      BY <1>5, <2>2
    <3>2. r.write \notin Range(objects[k])
      <4>1. objects[k] \in Seq(Ids)
        BY <1>3
      <4>2. Range(objects[k]) \subseteq Ids
        BY <4>1 DEF Range
      <4> QED
        BY <1>2, <3>1, <4>2
    <3>3. \A y \in removed : y.write # r.write
      BY <1>2, <1>3, <3>1 DEF RemovedFiles
    <3>4. files[k] # r.write
      BY <1>2, <1>3, <3>1
    <3>5. ASSUME NEW c \in Callers, call[c] # Idle, k \in DOMAIN call[c].targets
          PROVE  /\ r.write # call[c].begun[k].object
                 /\ r.write # call[c].begun[k].file
      <4>1. CallOK(call[c])
        BY <3>5 DEF IInv, TypeOK
      <4>2. /\ call[c].begun[k].object \in 0..writes
            /\ call[c].begun[k].file \in 0..writes
        BY <3>5, <4>1 DEF CallOK
      <4> QED
        BY <1>2, <3>1, <4>2
    <3> QED
      BY <1>1, <3>1, <3>2, <3>3, <3>4, <3>5 DEF Unserved
  <2> QED
    BY <1>6, <2>1, <2>2
<1>10. DeletesInv'
  BY <1>1, <1>6, <1>9 DEF IInv, DeletesInv, ObjectSettled, FileGone
<1> QED
  BY <1>8, <1>10 DEF IInv

\* A write is stored: what calls have deleted stays so, and the requests still
\* to be served are of other writes.
LEMMA ServePutStep ==
  ASSUME IInv, NEW r \in Puts, ServePut(r)
  PROVE  IInv'
<1>1. /\ r \in PutRequests /\ Unserved(r) /\ writes \in Nat
      /\ objects \in [Keys -> Seq(Ids)] /\ files \in [Keys -> 0..writes]
      /\ removed \subseteq RemovedFiles /\ lifts \in [Keys -> Nat]
  <2>1. TypeOK
    BY DEF IInv
  <2>2. r \in PutRequests
    BY <2>1, RequestKinds
  <2>3. Unserved(r)
    BY DEF IInv, DeletesInv
  <2>4. /\ writes \in Nat /\ objects \in [Keys -> Seq(Ids)] /\ files \in [Keys -> 0..writes]
        /\ removed \subseteq RemovedFiles /\ lifts \in [Keys -> Nat]
    BY <2>1, BoundsAssumption DEF TypeOK, Ids, RemovedFiles
  <2> QED
    BY <2>2, <2>3, <2>4
<1>2. /\ r.key \in Keys /\ r.write \in 1..writes /\ r.put \in {"object", "file"}
      /\ r.write \in Ids /\ r.write \in 0..writes /\ r.write # None
  BY <1>1 DEF PutRequests, Ids, None
<1>3. wire' = wire \ {r} /\ UNCHANGED <<writes, call, failures, removed, lifts>>
  BY DEF ServePut
<1>4. Puts' = Puts \ {r} /\ Deletes' = Deletes
  BY <1>3 DEF Puts, Deletes
<1>5. /\ objects' \in [Keys -> Seq(Ids)]
      /\ r.put = "file" => objects' = objects
      /\ \A k \in Keys : \A w : k # r.key \/ w # r.write => Keeps(k, w)
      /\ \A k \in Keys : Places(k)
  <2>1. CASE r.put = "object"
    <3>1. objects' = [objects EXCEPT ![r.key] = Put(objects[r.key], r.write)]
      BY <2>1 DEF ServePut
    <3>2. /\ Put(objects[r.key], r.write) \in Seq(Ids)
          /\ \A w : w # r.write /\ Settled(objects[r.key], w) =>
                      Settled(Put(objects[r.key], r.write), w)
          /\ \A w : w # r.write /\ w \notin Range(objects[r.key]) =>
                      w \notin Range(Put(objects[r.key], r.write))
          /\ Versioned => SlotsKept(objects[r.key], Put(objects[r.key], r.write))
      <4>1. objects[r.key] \in Seq(Ids)
        BY <1>1, <1>2
      <4> QED
        BY <1>2, <4>1, PutKeeps
    <3>3. \A k \in Keys : Places(k)
      BY <1>1, <1>2, <1>3, <3>1, <3>2 DEF Places, SlotsKept
    <3> QED
      BY <1>1, <1>2, <1>3, <2>1, <3>1, <3>2, <3>3 DEF Keeps
  <2>2. CASE r.put = "file"
    BY <1>1, <1>3, <2>2 DEF ServePut, Keeps, Places, SlotsKept
  <2> QED
    BY <1>2, <2>1, <2>2
<1>6. /\ files' \in [Keys -> 0..writes]
      /\ r.put = "object" => files' = files
      /\ \A k \in Keys : files'[k] = files[k] \/ (k = r.key /\ files'[k] = r.write)
  BY <1>1, <1>2 DEF ServePut
<1>7. TypeOK'
  <2>1. \A c \in Callers : call[c] = Idle \/ CallOK(call[c])'
    <3>1. ASSUME NEW x, CallOK(x) PROVE CallOK(x)'
      BY <1>1, <1>3, <1>5, <3>1, CallOKKept
    <3> QED
      BY <1>3, <3>1 DEF IInv, TypeOK
  <2>2. \A q \in wire' : q \in PutRequests' \/ DeleteOK(q)'
    BY <1>3 DEF IInv, TypeOK, PutRequests, DeleteOK
  <2>3. \A c \in Callers : call[c].pc \in {"objects", "files"} =>
          \E q \in Deletes' : q.by = c /\ Awaited(q)'
    BY <1>3, <1>4 DEF IInv, TypeOK, Awaited
  <2>4. objects' \in [Keys -> Seq({Gone} \cup 0..writes)]
    BY <1>5 DEF Ids
  <2> QED
    BY <1>3, <1>6, <2>1, <2>2, <2>3, <2>4 DEF IInv, TypeOK
<1>8. ASSUME NEW q \in Puts' PROVE Unserved(q)'
  <2>1. q \in Puts /\ q # r /\ q \in PutRequests /\ Unserved(q)
    BY <1>4, RequestKinds DEF IInv, DeletesInv
  <2>2. q.key \in Keys /\ (q.put # r.put \/ q.key # r.key \/ q.write # r.write)
    <3>1. \A d \in PutRequests : d = [put |-> d.put, key |-> d.key, write |-> d.write]
      BY DEF PutRequests
    <3>2. q.key \in Keys
      BY <2>1 DEF PutRequests
    <3> QED
      BY <1>1, <2>1, <3>1, <3>2
  <2>3. q.put = "object" => q.write \notin Range(objects'[q.key])
    BY <1>2, <1>5, <2>1, <2>2 DEF Unserved, Keeps
  <2>4. q.put = "file" => files'[q.key] # q.write
    BY <1>2, <1>6, <2>1, <2>2 DEF Unserved
  <2> QED
    BY <1>3, <2>1, <2>3, <2>4 DEF Unserved
<1>9. ASSUME NEW c \in Callers, call[c] # Idle, NEW k \in DOMAIN call[c].targets
      PROVE  /\ ObjectSettled(call[c], k) => ObjectSettled(call[c], k)'
             /\ FileGone(c, k) => FileGone(c, k)'
  <2>0. PICK x : x = call[c]
    OBVIOUS
  <2>1. CallOK(x) /\ k \in Keys
    BY <1>9, <2>0 DEF IInv, TypeOK, CallOK
  <2>2. k = r.key => /\ r.put = "object" => r.write # x.begun[k].object
                     /\ r.put = "file" => r.write # x.begun[k].file
    BY <1>1, <1>9, <2>0 DEF Unserved
  <2>3. Keeps(k, x.begun[k].object) /\ Places(k) /\ lifts[k] \in Nat
    <3>1. CASE r.put = "object"
      BY <1>1, <1>5, <2>1, <2>2, <3>1
    <3>2. CASE r.put = "file"
      BY <1>1, <1>5, <2>1, <3>2 DEF Keeps
    <3> QED
      BY <1>2, <3>1, <3>2
  <2>4. ASSUME ObjectSettled(x, k) PROVE ObjectSettled(x, k)'
    BY <1>9, <2>0, <2>1, <2>3, <2>4, SettledKept
  <2>5. ASSUME FileGone(c, k) PROVE FileGone(c, k)'
    <3>1. files'[k] = files[k] \/ (r.put = "file" /\ k = r.key /\ files'[k] = r.write)
      BY <1>2, <1>6, <2>1
    <3> QED
      BY <1>3, <2>0, <2>2, <2>5, <3>1 DEF FileGone
  <2>6. ObjectSettled(call[c], k)' <=> ObjectSettled(x, k)'
    BY <1>3, <2>0 DEF ObjectSettled
  <2> QED
    BY <2>0, <2>4, <2>5, <2>6
<1>10. ASSUME NEW y \in removed, y.known, ~y.versionId, ~y.refused, y.lifts = lifts[y.key]
       PROVE  Settled(objects'[y.key], y.write)
  <2>1. y.key \in Keys /\ Settled(objects[y.key], y.write) /\ lifts' = lifts
    BY <1>1, <1>3, <1>10 DEF IInv, DeletesInv, RemovedFiles
  <2>2. CASE r.put = "object"
    <3>1. y.key # r.key \/ y.write # r.write
      BY <1>1, <1>10, <2>2 DEF Unserved
    <3> QED
      BY <1>5, <2>1, <3>1 DEF Keeps
  <2>3. CASE r.put = "file"
    BY <1>5, <2>1, <2>3
  <2> QED
    BY <1>2, <2>2, <2>3
<1>11. DeletesInv'
  <2>1. ASSUME NEW q \in Deletes, q.delete = "files", NEW k \in DOMAIN q.targets \ q.refused
        PROVE  ObjectSettled(call[q.by], k)'
    <3>1. q.by \in Callers /\ call[q.by] # Idle /\ k \in DOMAIN call[q.by].targets
      BY RequestOfCall, MadeIsNotIdle DEF IInv
    <3>2. ObjectSettled(call[q.by], k)
      BY <2>1 DEF IInv, DeletesInv
    <3> QED
      BY <1>9, <3>1, <3>2
  <2>2. ASSUME NEW c \in Callers, call[c].pc \in {"files", "returned"},
               NEW k \in DOMAIN call[c].targets \ call[c].errors
        PROVE  ObjectSettled(call[c], k)'
    <3>1. call[c] # Idle /\ ObjectSettled(call[c], k)
      BY <2>2 DEF IInv, DeletesInv, Idle
    <3> QED
      BY <1>9, <3>1
  <2>3. ASSUME NEW c \in Callers, call[c].pc = "returned", ~call[c].disabled,
               NEW k \in DOMAIN call[c].targets \ call[c].missed
        PROVE  FileGone(c, k)'
    <3>1. call[c] # Idle /\ FileGone(c, k)
      BY <2>3 DEF IInv, DeletesInv, Idle
    <3> QED
      BY <1>9, <3>1
  <2>4. \A c \in Callers : call'[c] = call[c]
    BY <1>3
  <2>5. \A q \in Deletes' : q.delete = "files" =>
          \A k \in DOMAIN q.targets \ q.refused : ObjectSettled(call[q.by], k)'
    BY <1>4, <2>1
  <2>6. \A c \in Callers : call'[c].pc \in {"files", "returned"} =>
          \A k \in DOMAIN call'[c].targets \ call'[c].errors : ObjectSettled(call[c], k)'
    BY <2>2, <2>4
  <2>7. \A c \in Callers : call'[c].pc = "returned" /\ ~call'[c].disabled =>
          \A k \in DOMAIN call'[c].targets \ call'[c].missed : FileGone(c, k)'
    BY <2>3, <2>4
  <2>8. ASSUME NEW y \in removed'
        PROVE  /\ y.lifts <= lifts'[y.key]
               /\ y.known /\ ~y.versionId /\ ~y.refused /\ y.lifts = lifts'[y.key] =>
                    Settled(objects'[y.key], y.write)
    <3>1. y \in removed /\ lifts' = lifts
      BY <1>3
    <3>2. y.lifts <= lifts[y.key]
      BY <3>1 DEF IInv, DeletesInv
    <3> QED
      BY <1>10, <3>1, <3>2
  <2> QED
    BY <1>8, <2>5, <2>6, <2>7, <2>8 DEF DeletesInv
<1> QED
  BY <1>7, <1>11 DEF IInv

-----------------------------------------------------------------------------
(* Theorems *)

\* An empty bucket, and no calls.
LEMMA Initially == ASSUME Init PROVE IInv
<1>1. Puts = {} /\ Deletes = {}
  BY DEF Init, Puts, Deletes
<1>2. <<>> \in Seq({Gone} \cup 0..0) /\ None \in 0..0
  BY DEF None
<1>3. TypeOK
  BY <1>1, <1>2, BoundsAssumption DEF Init, TypeOK, Idle
<1>4. DeletesInv
  BY <1>1 DEF Init, DeletesInv, Idle
<1> QED
  BY <1>3, <1>4 DEF IInv

\* No step of a writer, of S3 or of a call disturbs the invariant.
LEMMA NextStep ==
  ASSUME IInv, [Next]_vars
  PROVE  IInv'
<1>1. ASSUME NEW k \in Keys, WriteObject(k) PROVE IInv'
  BY <1>1, WriteObjectStep
<1>2. ASSUME NEW r \in Puts, ServePut(r) PROVE IInv'
  BY <1>2, ServePutStep
<1>3. ASSUME NEW c \in Callers, NEW op \in {"delete_object", "delete_objects"},
             NEW t \in Targets, NEW d \in BOOLEAN, Begin(c, op, t, d)
      PROVE  IInv'
  BY <1>3, BeginStep
<1>4. ASSUME NEW c \in Callers, Retry(c) \/ GiveUp(c) PROVE IInv'
  BY <1>4, RetryStep, GiveUpStep
<1>5. ASSUME NEW r \in Deletes, NEW bad \in SUBSET DOMAIN r.targets, Serve(r, bad) PROVE IInv'
  <2>1. r.delete \in {"objects", "files"}
    BY RequestKinds DEF IInv
  <2> QED
    BY <1>5, <2>1, ServeObjectsStep, ServeFilesStep
<1>6. ASSUME NEW r \in Deletes, ServeUnheard(r) \/ ServeLate(r) PROVE IInv'
  BY <1>6, UnheardStep
<1>7. CASE UNCHANGED vars
  BY <1>7 DEF vars, IInv, TypeOK, DeletesInv, CallOK, PutRequests, DeleteOK, Puts, Deletes,
              Awaited, Unserved, ObjectSettled, FileGone
<1> QED
  BY <1>1, <1>2, <1>3, <1>4, <1>5, <1>6, <1>7 DEF Next

\* The invariant the theorems below are parts or consequences of.
THEOREM Invariance == Spec => []IInv
<1>1. Init => IInv
  BY Initially
<1>2. IInv /\ [Next]_vars => IInv'
  BY NextStep
<1> QED
  BY <1>1, <1>2, PTL DEF Spec

\* A delete call that is under way has a request that S3 may still serve, and
\* every request names just what its call was to delete.
THEOREM DeletesTyped == Spec => []TypeOK
<1>1. IInv => TypeOK
  BY DEF IInv
<1> QED
  BY <1>1, Invariance, PTL

\* Before the request for the instruction files is sent the objects are gone
\* for good, and no write that is still to be stored is one a delete has seen.
THEOREM ObjectsSettledFirst == Spec => []DeletesInv
<1>1. IInv => DeletesInv
  BY DEF IInv
<1> QED
  BY <1>1, Invariance, PTL

\* A delete_object or delete_objects that returns has deleted what it did not
\* report, whatever repeated and late requests and other callers do.
THEOREM ReturnedDeleted == Spec => []ReturnedMeansDeleted
<1>1. ASSUME IInv PROVE ReturnedMeansDeleted
  <2> SUFFICES ASSUME NEW c \in Callers, call[c].pc = "returned", NEW k \in DOMAIN call[c].targets
               PROVE  /\ k \in call[c].errors \/ ObjectGone(c, k)
                      /\ call[c].disabled \/ k \in call[c].missed \/ FileGone(c, k)
    BY DEF ReturnedMeansDeleted
  <2>1. CallOK(call[c])
    BY <1>1 DEF IInv, TypeOK, Idle
  <2>2. k \in Keys /\ call[c].begun[k].object \in 0..writes
    BY <2>1 DEF CallOK
  <2>3. objects[k] \in Seq({Gone} \cup 0..writes) /\ writes \in Nat
    BY <1>1, <2>2, BoundsAssumption DEF IInv, TypeOK
  <2>4. ASSUME k \notin call[c].errors PROVE ObjectGone(c, k)
    <3>1. ObjectSettled(call[c], k)
      BY <1>1, <2>4 DEF IInv, DeletesInv
    <3>2. CASE call[c].targets[k] # None
      BY <3>1, <3>2 DEF ObjectSettled, ObjectGone
    <3>3. CASE /\ call[c].targets[k] = None /\ call[c].begun[k].object # None
               /\ call[c].begun[k].lifts = lifts[k]
      <4>1. Settled(objects[k], call[c].begun[k].object)
        BY <3>1, <3>3 DEF ObjectSettled
      <4>2. call[c].begun[k].object # Gone
        BY <2>2, <2>3 DEF Gone
      <4>3. Current(objects[k]) # call[c].begun[k].object
        BY <2>3, <3>3, <4>1, <4>2, SettledIsNotCurrent
      <4> QED
        BY <3>3, <4>3 DEF ObjectGone
    <3>4. CASE /\ call[c].targets[k] = None
               /\ call[c].begun[k].object = None \/ call[c].begun[k].lifts # lifts[k]
      BY <3>4 DEF ObjectGone
    <3> QED
      BY <3>2, <3>3, <3>4
  <2>5. call[c].disabled \/ k \in call[c].missed \/ FileGone(c, k)
    BY <1>1 DEF IInv, DeletesInv
  <2> QED
    BY <2>4, <2>5
<1> QED
  BY <1>1, Invariance, PTL

\* No step of a delete leaves an object that it knew without the instruction
\* file it needs, for any number of callers.
THEOREM FilesGoLast == Spec => []FilesFollowObjects
<1>1. ASSUME IInv PROVE FilesFollowObjects
  <2> SUFFICES ASSUME NEW x \in removed, x.known, ~x.versionId, ~x.refused,
                      x.lifts = lifts[x.key]
               PROVE  Current(objects[x.key]) # x.write
    BY DEF FilesFollowObjects
  <2>1. x.key \in Keys /\ x.write \in 1..writes /\ writes \in Nat
    BY <1>1, BoundsAssumption DEF IInv, TypeOK
  <2>2. objects[x.key] \in Seq({Gone} \cup 0..writes) /\ Settled(objects[x.key], x.write)
    BY <1>1, <2>1 DEF IInv, TypeOK, DeletesInv
  <2>3. x.write # None /\ x.write # Gone
    BY <2>1 DEF None, Gone
  <2> QED
    BY <2>2, <2>3, SettledIsNotCurrent
<1> QED
  BY <1>1, Invariance, PTL
=============================================================================
