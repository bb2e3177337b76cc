----------------------------- MODULE SealedUpload -----------------------------
(***************************************************************************)
(* What an encrypted multipart upload promises: per upload, a log of       *)
(* encrypted parts that grows in ascending part order until its            *)
(* authentication tag seals it, and that is published at most once, sealed.*)
(***************************************************************************)
EXTENDS Naturals, Sequences

CONSTANTS Uploads,  \* the uploads
          Parts     \* the part numbers a caller may use

VARIABLES log,      \* [part, tagged] of every ciphertext produced, in order
          sealed,   \* the tag has been produced
          object    \* the log positions the published object consists of

vars == <<log, sealed, object>>

Init ==
  /\ log = [u \in Uploads |-> <<>>]
  /\ sealed = [u \in Uploads |-> FALSE]
  /\ object = [u \in Uploads |-> {}]

\* Encrypt part p; the last one carries the tag.
Write(u, p, last) ==
  /\ ~sealed[u]
  /\ \A i \in 1..Len(log[u]) : log[u][i].part < p
  /\ log' = [log EXCEPT ![u] = Append(@, [part |-> p, tagged |-> last])]
  /\ sealed' = [sealed EXCEPT ![u] = last]
  /\ UNCHANGED object

\* Make an object of the ciphertexts at positions S.
Publish(u, S) ==
  /\ sealed[u] /\ object[u] = {} /\ S # {}
  /\ object' = [object EXCEPT ![u] = S]
  /\ UNCHANGED <<log, sealed>>

Next ==
  \E u \in Uploads :
    \/ \E p \in Parts, last \in BOOLEAN : Write(u, p, last)
    \/ \E S \in SUBSET (1..Len(log[u])) : Publish(u, S)

Spec == Init /\ [][Next]_vars
=============================================================================
