--------------------------- MODULE DecryptingStream ---------------------------
(***************************************************************************)
(* The stream get_object returns.  When plaintext is released              *)
(* incrementally it is a DecryptingStream over an AesGcmDecryptor (delayed *)
(* authentication) or an AesCbcDecryptor (legacy objects), reading a       *)
(* response body that may come in pieces of any size, stop early, or not   *)
(* be what was encrypted.  Otherwise one_shot_decrypt has put the          *)
(* plaintext into a buffer before get_object returns.                      *)
(*                                                                         *)
(* Bytes are counted, not represented: what matters is how many ciphertext *)
(* bytes went where.  The body's n-th byte decrypts to the plaintext's     *)
(* n-th byte or belongs to the tag or padding at the end.                  *)
(***************************************************************************)
EXTENDS Integers

CONSTANTS TagLen,    \* bytes of GCM tag (16 in the code)
          BlockLen,  \* bytes of a CBC block (16 in the code)
          MaxLen,    \* bound: the longest ciphertext
          Amounts    \* the values of amt a caller passes; None is MaxLen

ASSUME LengthAssumption ==
  /\ TagLen \in Nat \ {0} /\ BlockLen \in Nat \ {0} /\ MaxLen \in Nat
  /\ Amounts \subseteq 0..MaxLen

VARIABLES
  obj,          \* the object: algorithm, ContentLength, padding, authenticity
  body,         \* bytes the response body still holds
  consumed,     \* DecryptingStream._bytes_consumed
  finalized,    \* DecryptingStream._finalized
  amount_read,  \* Decryptor._amount_read
  tail,         \* AesGcmDecryptor._tail (its length)
  block,        \* CBC: bytes of an incomplete block in the cipher
  unpad,        \* CBC: bytes in the unpadder's buffer
  buffer,       \* one_shot_decrypt: plaintext bytes not read yet
  amt,          \* the argument of the read under way
  pc,           \* "idle", or "loop" inside read
  released,     \* plaintext bytes handed to the caller so far
  last,         \* how the latest read ended
  failed        \* some read has raised

decryptor == <<amount_read, tail, block, unpad>>
vars == <<obj, body, consumed, finalized, decryptor, buffer, amt, pc, released, last, failed>>

\* An object S3 returns.  "genuine": its ContentLength bytes are exactly what
\* an encryptor produced; CBC objects come in whole blocks, the last padded.
\* "delayed": it is streamed, as enable_delayed_authentication says for GCM.
Objects ==
  {o \in [alg: {"gcm", "cbc"}, len: 0..MaxLen, pad: 1..BlockLen, genuine: BOOLEAN,
         delayed: BOOLEAN] :
     /\ o.alg = "cbc" => o.delayed
     /\ (o.alg = "gcm" /\ o.genuine) => o.len >= TagLen
     /\ (o.alg = "cbc" /\ o.genuine) => o.len % BlockLen = 0 /\ o.len >= BlockLen}

\* The plaintext bytes in a genuine object.
PlaintextLen(o) == IF o.alg = "gcm" THEN o.len - TagLen ELSE o.len - o.pad

TypeOK ==
  /\ obj \in Objects
  /\ body \in 0..MaxLen /\ consumed \in 0..MaxLen /\ amount_read \in 0..MaxLen
  /\ finalized \in BOOLEAN /\ failed \in BOOLEAN
  /\ tail \in 0..TagLen /\ block \in Nat /\ unpad \in Nat /\ buffer \in Nat
  /\ amt \in Amounts \cup {0}
  /\ pc \in {"idle", "loop"}
  /\ released \in Nat
  /\ last \in {"none", "data", "empty", "error"}

Init ==
  /\ obj \in Objects
  /\ body \in 0..obj.len
  /\ consumed = 0 /\ amount_read = 0 /\ released = 0
  /\ finalized = FALSE /\ failed = FALSE
  /\ tail = 0 /\ block = 0 /\ unpad = 0 /\ buffer = 0
  /\ amt = 0 /\ pc = "idle" /\ last = "none"

\* read returns n plaintext bytes, or raises.
Return(n) ==
  /\ released' = released + n
  /\ last' = IF n = 0 THEN "empty" ELSE "data"
  /\ pc' = "idle"
  /\ UNCHANGED failed

Raise ==
  /\ last' = "error" /\ failed' = TRUE
  /\ pc' = "idle"
  /\ UNCHANGED released

-----------------------------------------------------------------------------
(* The decryptors *)

WholeBlocks(n) == (n \div BlockLen) * BlockLen

\* What the PKCS7 unpadder gives out of n buffered bytes: all but the last
\* whole block, which may be padding (external: cryptography).
\* (Mutant: the last block too.)
Unpadded_all(n) == WholeBlocks(n)

Unpadded(n) == IF n \div BlockLen > 0 THEN WholeBlocks(n) - BlockLen ELSE 0

\* An update that holds nothing back for the tag (mutant).
UpdateOut_noTail(k) ==
  IF obj.alg = "gcm" THEN tail + k ELSE Unpadded(unpad + WholeBlocks(block + k))

\* Decryptor.update(data), len(data) = k: the plaintext bytes it returns ...
UpdateOut(k) ==
  IF obj.alg = "gcm"
  THEN IF tail + k <= TagLen THEN 0 ELSE (tail + k) - TagLen
  ELSE Unpadded(unpad + WholeBlocks(block + k))

\* ... and its new state.
Update(k) ==
  /\ amount_read' = amount_read + k
  /\ IF obj.alg = "gcm"
     THEN /\ tail' = IF tail + k <= TagLen THEN tail + k ELSE TagLen
          /\ UNCHANGED <<block, unpad>>
     ELSE /\ block' = (block + k) - WholeBlocks(block + k)
          /\ unpad' = (unpad + WholeBlocks(block + k)) - UpdateOut(k)
          /\ UNCHANGED tail

\* finalize_with_tag accepts only the complete, unmodified ciphertext.
TagVerifies(k) == obj.genuine /\ amount_read + k = obj.len

\* No length check (mutant).
LengthVerified_skipped == TRUE

\* The length check of the stream after the decryptor's own checks.
LengthVerified == amount_read' = obj.len

\* AesGcmDecryptor.finalize on the last k bytes, and the length check.
GcmFinalize(k) ==
  IF tail + k >= TagLen /\ TagVerifies(k) /\ LengthVerified
  THEN Return((tail + k) - TagLen)
  ELSE Raise

\* The number of padding bytes the unpadder may find: of anything but a
\* genuine end any last block may look padded (external: cryptography).
PadBytes == IF obj.genuine THEN {obj.pad} ELSE 1..BlockLen

\* AesCbcDecryptor.finalize on the last k bytes, and the length check.
CbcFinalize(k) ==
  LET left == unpad + block + k
      wellFormed == left >= BlockLen /\ left % BlockLen = 0 /\ LengthVerified
  IN
  \/ wellFormed /\ \E pad \in PadBytes : Return(left - pad)
  \/ ~(wellFormed /\ obj.genuine) /\ Raise

\* DecryptingStream._finalize: the flag is set before the decryptor is asked,
\* so a failure is final too.
Finalize(k) ==
  /\ finalized' = TRUE
  /\ amount_read' = amount_read + k
  /\ UNCHANGED <<tail, block, unpad>>
  /\ IF obj.alg = "gcm" THEN GcmFinalize(k) ELSE CbcFinalize(k)

-----------------------------------------------------------------------------
(* DecryptingStream.read and the methods that only call it: readinto,      *)
(* readlines, __next__, iter_chunks, iter_lines.                           *)

Read(a) ==
  /\ pc = "idle" /\ ~finalized /\ obj.delayed
  /\ amt' = a /\ pc' = "loop"
  /\ UNCHANGED <<obj, body, consumed, finalized, decryptor, buffer, released, last, failed>>

ReadFinalized ==
  /\ pc = "idle" /\ finalized /\ obj.delayed
  /\ Return(0)
  /\ UNCHANGED <<obj, body, consumed, finalized, decryptor, buffer, amt>>

Remaining == obj.len - consumed
ToRead == IF amt < Remaining THEN amt ELSE Remaining

\* One turn of the loop in which nothing is left to read (ContentLength 0).
LoopAtEnd ==
  /\ pc = "loop" /\ Remaining = 0
  /\ Finalize(0)
  /\ UNCHANGED <<obj, body, consumed, buffer, amt>>

\* The body gives k bytes, possibly fewer than asked for: the last ones go to
\* finalize, others to update, and an update that absorbs them all loops.
LoopChunk(k) ==
  /\ pc = "loop" /\ k \in 1..ToRead /\ k <= body
  /\ body' = body - k
  /\ consumed' = consumed + k
  /\ IF consumed + k = obj.len
     THEN Finalize(k)
     ELSE /\ Update(k)
          /\ IF UpdateOut(k) > 0
             THEN Return(UpdateOut(k))
             ELSE UNCHANGED <<pc, released, last, failed>>
          /\ UNCHANGED finalized
  /\ UNCHANGED <<obj, buffer, amt>>

\* An empty read is tried again (mutant).
LoopEmpty_retries ==
  /\ pc = "loop" /\ Remaining > 0
  /\ body = 0 \/ ToRead = 0
  /\ UNCHANGED vars

\* The body gives no bytes: it has ended early, or none were asked for.
LoopEmpty ==
  /\ pc = "loop" /\ Remaining > 0
  /\ body = 0 \/ ToRead = 0
  /\ Finalize(0)
  /\ UNCHANGED <<obj, body, consumed, buffer, amt>>

\* The body raises (a broken connection, botocore's IncompleteReadError) and
\* has nothing more to give.
LoopRaises ==
  /\ pc = "loop" /\ Remaining > 0
  /\ body' = 0
  /\ Raise
  /\ UNCHANGED <<obj, consumed, finalized, decryptor, buffer, amt>>

\* close closes the body, after which it gives nothing.
Close ==
  /\ pc = "idle" /\ obj.delayed
  /\ body' = 0
  /\ UNCHANGED <<obj, consumed, finalized, decryptor, buffer, amt, pc, released, last, failed>>

-----------------------------------------------------------------------------
(* one_shot_decrypt and the stream over its buffer                         *)

\* update instead of finalize: the tag is never looked at (mutant).
OneShot_unverified ==
  /\ pc = "idle" /\ ~obj.delayed /\ ~finalized
  /\ body' = 0 /\ consumed' = body
  /\ finalized' = TRUE
  /\ Update(body)
  /\ buffer' = UpdateOut(body)
  /\ UNCHANGED <<obj, amt, pc, released, last, failed>>

\* The whole body is read and finalized in one step; a body that ends early
\* is botocore's IncompleteReadError.
OneShot ==
  /\ pc = "idle" /\ ~obj.delayed /\ ~finalized
  /\ body' = 0 /\ consumed' = body /\ amount_read' = body
  /\ finalized' = TRUE
  /\ IF body = obj.len /\ body >= TagLen /\ TagVerifies(body)
     THEN buffer' = body - TagLen /\ UNCHANGED <<pc, released, last, failed>>
     ELSE Raise /\ UNCHANGED buffer
  /\ UNCHANGED <<obj, tail, block, unpad, amt>>

\* read on the StreamingBody that get_object then returns; read(0) says
\* nothing of the end.
ReadBuffer(a) ==
  LET n == IF a < buffer THEN a ELSE buffer IN
  /\ pc = "idle" /\ ~obj.delayed /\ finalized /\ ~failed
  /\ buffer' = buffer - n
  /\ released' = released + n
  /\ last' = IF n = 0 /\ a > 0 THEN "empty" ELSE "data"
  /\ UNCHANGED <<obj, body, consumed, finalized, decryptor, amt, pc, failed>>

-----------------------------------------------------------------------------
Loop == LoopAtEnd \/ (\E k \in 1..MaxLen : LoopChunk(k)) \/ LoopEmpty

Next ==
  \/ (\E a \in Amounts : Read(a)) \/ ReadFinalized \/ Close \/ Loop \/ LoopRaises
  \/ OneShot \/ (\E a \in Amounts : ReadBuffer(a))

\* read is a loop in one thread: once entered it goes on, and a read of the
\* body returns (or raises: nothing counts on that).
Spec == Init /\ [][Next]_vars /\ WF_vars(Loop)

-----------------------------------------------------------------------------
(* Properties *)

\* However the tag or the padding is cut across reads, no byte of it is ever
\* released as plaintext: of a GCM object, genuine or not, the last TagLen
\* bytes stay back, of a genuine CBC object the padding.
OnlyPlaintextReleased ==
  released > 0 =>
    /\ obj.alg = "gcm" => released + TagLen <= obj.len
    /\ (obj.alg = "cbc" /\ obj.genuine) => released + obj.pad <= obj.len

\* A caller that reaches the end of the stream (an empty read, no exception
\* before it) has the whole plaintext: nothing was cut off the body, and with
\* GCM the tag over all of it was verified.
CleanEndIsWhole ==
  (last = "empty" /\ ~failed) =>
    /\ consumed = obj.len
    /\ obj.alg = "gcm" => obj.genuine
    /\ obj.genuine => released = PlaintextLen(obj)

\* Without delayed authentication no byte of an object is released that is not
\* exactly what was encrypted, tag included, also when the body ends early.
ReleasedIsAuthentic ==
  (~obj.delayed /\ released > 0) => obj.genuine /\ consumed = obj.len

\* A read returns: the loop that waits for plaintext cannot spin.
EveryReadReturns == pc = "loop" ~> pc = "idle"

-----------------------------------------------------------------------------
(* The inductive invariant *)

\* Until it is finalized, the decryptor holds exactly what was consumed and
\* not released: the GCM tail is the last TagLen bytes (or all there are), and
\* once CBC has released something the unpadder keeps back a whole block.
HeldBack ==
  /\ obj.alg = "gcm" => /\ released + tail = consumed
                        /\ tail <= TagLen
                        /\ released > 0 => tail = TagLen
  /\ obj.alg = "cbc" => /\ released + unpad + block = consumed
                        /\ released > 0 => unpad >= BlockLen

IInv ==
  /\ TypeOK
  /\ consumed + body <= obj.len
  /\ amount_read = consumed
  /\ ~finalized => HeldBack /\ (consumed < obj.len \/ obj.len = 0)
  /\ OnlyPlaintextReleased
  /\ (finalized /\ ~failed) =>
       /\ consumed = obj.len
       /\ obj.alg = "gcm" => obj.genuine
       /\ obj.genuine => released + buffer = PlaintextLen(obj)
  /\ (last = "empty" /\ ~failed) => finalized /\ buffer = 0
  /\ pc = "loop" => ~finalized /\ obj.delayed
  /\ obj.delayed \/ failed \/ ~finalized => buffer = 0
  /\ (~obj.delayed /\ (failed \/ ~finalized)) => released = 0
  /\ (~obj.delayed /\ ~finalized) => ~failed

-----------------------------------------------------------------------------
(* What the docs say of the code and the code does not do *)

\* "a drop-in replacement for parsed["Body"]" (class docstring) finalizes
\* when it has come to the end of the body, not when it is asked for nothing.
FinalizedOnlyAtEnd ==
  [][(obj.genuine /\ finalized' /\ ~finalized) => body' = 0]_vars
=============================================================================
