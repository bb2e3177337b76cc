--------------------------- MODULE ObjectMetadata ---------------------------
(***************************************************************************)
(* The content metadata of an encrypted object (metadata.py): which of the *)
(* message formats V1, V2 and V3 a set of map keys is in, and whether the  *)
(* rest of it is to be looked for in an instruction file.                  *)
(*                                                                         *)
(* Metadata is a function whose domain is the map keys that are present: a *)
(* field of ObjectMetadata is None exactly when its key is not in it.      *)
(***************************************************************************)
EXTENDS Functions

Empty == [k \in {} |-> k]         \* an empty dict

\* {k: v}, and e.update(d) or {**e, **d}: d's items before e's.  (As in module
\* TLC, whose operators the provers cannot expand.)
k :> v == [x \in {k} |-> v]
d @@ e == [x \in DOMAIN d \cup DOMAIN e |-> IF x \in DOMAIN d THEN d[x] ELSE e[x]]

\* d without the given keys, and d.get(k, default).
Without(d, ks) == Restrict(d, DOMAIN d \ ks)
Get(d, k, default) == IF k \in DOMAIN d THEN d[k] ELSE default

VALID_S3EC_METADATA_KEYS ==
  {"x-amz-key", "x-amz-key-v2", "x-amz-wrap-alg", "x-amz-matdesc", "x-amz-iv",
   "x-amz-cek-alg", "x-amz-tag-len", "x-amz-crypto-instr-file",
   "x-amz-c", "x-amz-3", "x-amz-m", "x-amz-t", "x-amz-w", "x-amz-d", "x-amz-i"}

\* The map keys of the encrypted data key, one per format.
EncryptedDataKeys == {"x-amz-key", "x-amz-key-v2", "x-amz-3"}

\* The V3 map keys that stay in the object's metadata.
V3ContentKeys == {"x-amz-c", "x-amz-d", "x-amz-i"}

is_v1_format(m) ==
  /\ {"x-amz-iv", "x-amz-matdesc", "x-amz-key"} \subseteq DOMAIN m
  /\ "x-amz-key-v2" \notin DOMAIN m

is_v2_format(m) ==
  /\ {"x-amz-cek-alg", "x-amz-iv", "x-amz-wrap-alg", "x-amz-key-v2"} \subseteq DOMAIN m
  /\ "x-amz-key" \notin DOMAIN m

is_v3_format(m) ==
  /\ V3ContentKeys \cup {"x-amz-w", "x-amz-3"} \subseteq DOMAIN m
  /\ {"x-amz-key", "x-amz-key-v2"} \cap DOMAIN m = {}

has_exclusive_key_collision(m) ==
  \E j, k \in EncryptedDataKeys \cap DOMAIN m : j # k

is_v3_in_object_metadata(m) ==
  V3ContentKeys \subseteq DOMAIN m /\ "x-amz-3" \notin DOMAIN m

\* An instruction file looked for whenever the metadata is not V3 (mutant).
should_use_instruction_file_unlessV3(m) == ~is_v3_format(m)

should_use_instruction_file(m) ==
  is_v3_in_object_metadata(m) \/ EncryptedDataKeys \cap DOMAIN m = {}
=============================================================================
