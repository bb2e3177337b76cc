------------------------ MODULE DecryptingStream_proofs ------------------------
(***************************************************************************)
(* Theorems about DecryptingStream, for every tag and block length and     *)
(* every object length.                                                    *)
(***************************************************************************)
EXTENDS DecryptingStream, TLAPS

\* Cutting n bytes into whole blocks keeps at most n of them, and at least a
\* block if there is one.
LEMMA BlockFacts ==
  ASSUME NEW n \in Nat
  PROVE  /\ WholeBlocks(n) \in Nat /\ WholeBlocks(n) <= n
         /\ Unpadded(n) \in Nat /\ Unpadded(n) <= n
         /\ Unpadded(n) > 0 => n - Unpadded(n) >= BlockLen
<1> DEFINE q == n \div BlockLen
<1>1. BlockLen \in Nat \ {0} /\ q \in Nat
  BY LengthAssumption
<1>2. q * BlockLen \in Nat /\ q * BlockLen <= n
  BY <1>1
<1>3. q > 0 => q * BlockLen >= BlockLen
  BY <1>1
<1> HIDE DEF q
<1>4. WholeBlocks(n) = q * BlockLen
  BY DEF WholeBlocks, q
<1>5. Unpadded(n) = IF q > 0 THEN WholeBlocks(n) - BlockLen ELSE 0
  BY DEF Unpadded, q
<1> QED
  BY <1>1, <1>2, <1>3, <1>4, <1>5

\* An object's plaintext fits in its body.
LEMMA ObjectFacts ==
  ASSUME NEW o \in Objects
  PROVE  /\ o.alg \in {"gcm", "cbc"} /\ o.len \in Nat /\ o.len <= MaxLen
         /\ o.pad \in Nat /\ 1 <= o.pad /\ o.pad <= BlockLen /\ o.genuine \in BOOLEAN
         /\ o.delayed \in BOOLEAN /\ (o.alg = "cbc" => o.delayed)
         /\ (o.alg = "gcm" /\ o.genuine) => o.len >= TagLen
         /\ (o.alg = "cbc" /\ o.genuine) => o.len >= BlockLen
BY LengthAssumption DEF Objects

\* What update returns and keeps, for both decryptors.
LEMMA UpdateFacts ==
  ASSUME IInv, ~finalized, NEW k \in Nat \ {0}, Update(k)
  PROVE  /\ UpdateOut(k) \in Nat
         /\ tail' \in 0..TagLen /\ block' \in Nat /\ unpad' \in Nat
         /\ obj.alg = "gcm" => /\ UpdateOut(k) + tail' = tail + k
                               /\ UpdateOut(k) > 0 \/ released > 0 => tail' = TagLen
         /\ obj.alg = "cbc" => /\ UpdateOut(k) + unpad' + block' = unpad + block + k
                               /\ UpdateOut(k) > 0 => unpad' >= BlockLen
                               /\ UpdateOut(k) = 0 => unpad' >= unpad
<1>0. /\ obj \in Objects /\ tail \in 0..TagLen /\ block \in Nat /\ unpad \in Nat
      /\ released \in Nat /\ TagLen \in Nat \ {0} /\ BlockLen \in Nat \ {0}
  BY LengthAssumption DEF IInv, TypeOK
<1>1. CASE obj.alg = "gcm"
  BY <1>0, <1>1 DEF Update, UpdateOut, IInv, HeldBack
<1>2. CASE obj.alg = "cbc"
  <2> DEFINE w == WholeBlocks(block + k)
             x == Unpadded(unpad + w)
  <2>1. w \in Nat /\ w <= block + k
    BY <1>0, BlockFacts
  <2>2. x \in Nat /\ x <= unpad + w /\ (x > 0 => (unpad + w) - x >= BlockLen)
    BY <1>0, <2>1, BlockFacts
  <2>3. UpdateOut(k) = x /\ block' = (block + k) - w /\ unpad' = (unpad + w) - x /\ tail' = tail
    BY <1>2 DEF Update, UpdateOut
  <2> HIDE DEF w, x
  <2> QED
    BY <1>0, <1>2, <2>1, <2>2, <2>3
<1> QED
  BY <1>0, <1>1, <1>2, ObjectFacts

\* Finalizing with the last k bytes either hands over the rest of the
\* plaintext or raises.
LEMMA FinalizeStep ==
  ASSUME IInv, ~finalized, NEW k \in Nat, Finalize(k), UNCHANGED <<obj, amt, buffer>>,
         obj.delayed,
         consumed' = consumed + k, body' \in Nat, consumed + k + body' <= obj.len
  PROVE  IInv'
<1>0. /\ obj \in Objects /\ tail \in 0..TagLen /\ block \in Nat /\ unpad \in Nat
      /\ released \in Nat /\ consumed \in Nat /\ body \in Nat
      /\ TagLen \in Nat \ {0} /\ BlockLen \in Nat \ {0} /\ MaxLen \in Nat
      /\ amount_read = consumed /\ HeldBack /\ OnlyPlaintextReleased
      /\ failed \in BOOLEAN /\ buffer = 0
  BY LengthAssumption DEF IInv, TypeOK
<1>1. /\ obj.alg \in {"gcm", "cbc"} /\ obj.len \in Nat /\ obj.len <= MaxLen
      /\ obj.pad \in Nat /\ 1 <= obj.pad /\ obj.pad <= BlockLen /\ obj.genuine \in BOOLEAN
      /\ (obj.alg = "gcm" /\ obj.genuine) => obj.len >= TagLen
      /\ (obj.alg = "cbc" /\ obj.genuine) => obj.len >= BlockLen
  BY <1>0, ObjectFacts
<1>2. /\ finalized' = TRUE /\ obj' = obj /\ amt' = amt /\ buffer' = 0
      /\ amount_read' = consumed + k /\ consumed' = consumed + k
      /\ tail' = tail /\ block' = block /\ unpad' = unpad
  BY <1>0 DEF Finalize
<1>3. CASE Raise
  BY <1>0, <1>1, <1>2, <1>3 DEF Raise, IInv, TypeOK, OnlyPlaintextReleased
<1>4. CASE obj.alg = "gcm" /\ tail + k >= TagLen /\ TagVerifies(k) /\ LengthVerified
           /\ Return((tail + k) - TagLen)
  <2>1. consumed + k = obj.len /\ obj.genuine
    BY <1>0, <1>4 DEF TagVerifies
  <2>2. released' = released + ((tail + k) - TagLen) /\ released + tail = consumed
    BY <1>0, <1>4 DEF Return, HeldBack
  <2>3. released' = PlaintextLen(obj) /\ released' \in Nat /\ released' + TagLen = obj.len
    BY <1>0, <1>1, <1>4, <2>1, <2>2 DEF PlaintextLen
  <2> QED
    BY <1>0, <1>1, <1>2, <1>4, <2>1, <2>3
       DEF Return, IInv, TypeOK, OnlyPlaintextReleased, PlaintextLen
<1>5. ASSUME obj.alg = "cbc", NEW pad \in PadBytes,
             unpad + block + k >= BlockLen, LengthVerified, Return((unpad + block + k) - pad)
      PROVE  IInv'
  <2>1. pad \in Nat /\ pad <= BlockLen /\ (obj.genuine => pad = obj.pad)
    BY <1>0, <1>1 DEF PadBytes
  <2>2. consumed + k = obj.len
    BY <1>2, <1>5 DEF LengthVerified
  <2>3. released' = released + ((unpad + block + k) - pad) /\ released + unpad + block = consumed
    BY <1>0, <1>5 DEF Return, HeldBack
  <2>4. released' \in Nat /\ released' + pad = obj.len
    BY <1>0, <1>1, <1>5, <2>1, <2>2, <2>3
  <2>5. obj.genuine => released' = PlaintextLen(obj)
    BY <1>1, <1>5, <2>1, <2>4 DEF PlaintextLen
  <2> QED
    BY <1>0, <1>1, <1>2, <1>5, <2>1, <2>2, <2>4, <2>5
       DEF Return, IInv, TypeOK, OnlyPlaintextReleased, PlaintextLen
<1>6. CASE obj.alg = "gcm"
  BY <1>3, <1>4, <1>6 DEF Finalize, GcmFinalize
<1>7. CASE obj.alg = "cbc"
  <2>1. \/ Raise
        \/ /\ unpad + block + k >= BlockLen /\ LengthVerified
           /\ \E pad \in PadBytes : Return((unpad + block + k) - pad)
    <3>1. CbcFinalize(k)
      BY <1>7 DEF Finalize
    <3> QED
      BY <3>1, Zenon DEF CbcFinalize
  <2> QED
    BY <1>3, <1>5, <1>7, <2>1
<1> QED
  BY <1>1, <1>6, <1>7

\* A stream just opened has read nothing and released nothing.
LEMMA InitIInv == Init => IInv
<1> SUFFICES ASSUME Init PROVE IInv
  OBVIOUS
<1>1. obj \in Objects /\ obj.len \in Nat /\ obj.len <= MaxLen /\ obj.alg \in {"gcm", "cbc"}
  BY ObjectFacts DEF Init
<1>2. body \in 0..obj.len
  BY DEF Init
<1>3. TypeOK
  <2>1. body \in 0..MaxLen /\ 0 \in 0..MaxLen /\ 0 \in 0..TagLen
    BY <1>1, <1>2, LengthAssumption
  <2> QED
    BY <1>1, <2>1 DEF Init, TypeOK
<1>4. HeldBack /\ OnlyPlaintextReleased
  BY LengthAssumption DEF Init, HeldBack, OnlyPlaintextReleased
<1>5. consumed < obj.len \/ obj.len = 0
  BY <1>1 DEF Init
<1> QED
  BY <1>1, <1>2, <1>3, <1>4, <1>5 DEF Init, IInv

\* One step of read, of close or of finalization keeps the bookkeeping of
\* stream and decryptor.
LEMMA NextIInv == IInv /\ [Next]_vars => IInv'
<1> SUFFICES ASSUME IInv, [Next]_vars PROVE IInv'
  OBVIOUS
<1>0. /\ obj \in Objects /\ tail \in 0..TagLen /\ block \in Nat /\ unpad \in Nat
      /\ released \in Nat /\ consumed \in Nat /\ body \in Nat /\ amt \in Nat
      /\ TagLen \in Nat \ {0} /\ BlockLen \in Nat \ {0} /\ MaxLen \in Nat
      /\ amount_read = consumed /\ OnlyPlaintextReleased /\ consumed + body <= obj.len
      /\ pc = "loop" => ~finalized /\ obj.delayed
      /\ buffer \in Nat /\ (obj.delayed => buffer = 0)
  BY LengthAssumption DEF IInv, TypeOK
<1>1. /\ obj.alg \in {"gcm", "cbc"} /\ obj.len \in Nat /\ obj.len <= MaxLen
      /\ obj.pad \in Nat /\ 1 <= obj.pad /\ obj.pad <= BlockLen /\ obj.genuine \in BOOLEAN
  BY <1>0, ObjectFacts
<1>2. CASE UNCHANGED vars
  BY <1>2 DEF vars, decryptor, IInv, TypeOK, HeldBack, OnlyPlaintextReleased, PlaintextLen
<1>3. ASSUME NEW a \in Amounts, Read(a) PROVE IInv'
  BY <1>3 DEF Read, decryptor, IInv, TypeOK, HeldBack, OnlyPlaintextReleased, PlaintextLen
<1>4. CASE ReadFinalized
  BY <1>0, <1>4 DEF ReadFinalized, Return, decryptor, IInv, TypeOK, HeldBack,
                    OnlyPlaintextReleased, PlaintextLen
<1>5. CASE Close
  BY <1>0, <1>1, <1>5 DEF Close, decryptor, IInv, TypeOK, HeldBack,
                    OnlyPlaintextReleased, PlaintextLen
<1>6. CASE LoopAtEnd \/ LoopEmpty
  <2>1. Finalize(0) /\ UNCHANGED <<obj, body, consumed, buffer, amt>> /\ ~finalized /\ obj.delayed
    BY <1>0, <1>6 DEF LoopAtEnd, LoopEmpty
  <2> QED
    BY <1>0, <1>1, <2>1, FinalizeStep
<1>7. CASE LoopRaises
  BY <1>0, <1>1, <1>7 DEF LoopRaises, Raise, decryptor, IInv, TypeOK, HeldBack,
                    OnlyPlaintextReleased, PlaintextLen
<1>8. ASSUME NEW k \in 1..MaxLen, LoopChunk(k) PROVE IInv'
  <2>1. /\ k \in Nat \ {0} /\ k <= body /\ ~finalized /\ obj.delayed
        /\ body' = body - k /\ consumed' = consumed + k /\ UNCHANGED <<obj, buffer, amt>>
    BY <1>0, <1>8 DEF LoopChunk
  <2>2. body' \in Nat /\ consumed + k + body' <= obj.len
    BY <1>0, <1>1, <2>1
  <2>3. CASE consumed + k = obj.len
    BY <1>8, <2>1, <2>2, <2>3, FinalizeStep DEF LoopChunk
  <2>4. CASE consumed + k # obj.len
    <3>1. Update(k) /\ finalized' = finalized
      BY <1>8, <2>4 DEF LoopChunk
    <3>2. /\ UpdateOut(k) \in Nat
          /\ tail' \in 0..TagLen /\ block' \in Nat /\ unpad' \in Nat
          /\ obj.alg = "gcm" => /\ UpdateOut(k) + tail' = tail + k
                                /\ UpdateOut(k) > 0 \/ released > 0 => tail' = TagLen
          /\ obj.alg = "cbc" => /\ UpdateOut(k) + unpad' + block' = unpad + block + k
                                /\ UpdateOut(k) > 0 => unpad' >= BlockLen
                                /\ UpdateOut(k) = 0 => unpad' >= unpad
      BY <2>1, <3>1, UpdateFacts
    <3>3. /\ released' = released + UpdateOut(k)
          /\ \/ pc' = "idle" /\ last' = "data" /\ failed' = failed
             \/ pc' = pc /\ last' = last /\ failed' = failed
      BY <1>0, <1>8, <2>4, <3>2 DEF LoopChunk, Return
    <3>4. amount_read' = consumed + k /\ consumed + k < obj.len
      BY <1>0, <1>1, <2>1, <2>2, <2>4, <3>1 DEF Update
    <3>5. HeldBack'
      BY <1>0, <1>1, <2>1, <3>2, <3>3 DEF IInv, HeldBack
    <3>6. OnlyPlaintextReleased'
      <4>1. CASE obj.alg = "gcm"
        BY <1>0, <1>1, <2>1, <3>2, <3>3, <3>4, <3>5, <4>1 DEF HeldBack, OnlyPlaintextReleased
      <4>2. CASE obj.alg = "cbc"
        BY <1>0, <1>1, <2>1, <3>2, <3>3, <3>4, <3>5, <4>2 DEF HeldBack, OnlyPlaintextReleased
      <4> QED
        BY <1>1, <4>1, <4>2
    <3>7. TypeOK'
      BY <1>0, <1>1, <2>1, <2>2, <3>1, <3>2, <3>3, <3>4 DEF IInv, TypeOK
    <3> QED
      BY <1>0, <1>1, <2>1, <2>2, <3>1, <3>3, <3>4, <3>5, <3>6, <3>7 DEF IInv
  <2> QED
    BY <2>3, <2>4
<1>9. CASE OneShot
  <2>1. /\ obj' = obj /\ body' = 0 /\ consumed' = body /\ amount_read' = body
        /\ finalized' = TRUE /\ ~obj.delayed /\ ~finalized
        /\ UNCHANGED <<tail, block, unpad, amt>> /\ pc' = "idle" /\ released' = released
    BY <1>9 DEF OneShot, Raise
  <2>2. obj.alg = "gcm" /\ released = 0 /\ buffer = 0 /\ body <= obj.len
    BY <1>0, <1>1, <2>1, ObjectFacts DEF IInv
  <2>3. CASE Raise /\ buffer' = buffer
    BY <1>0, <1>1, <2>1, <2>2, <2>3 DEF Raise, IInv, TypeOK, OnlyPlaintextReleased
  <2>4. CASE body = obj.len /\ body >= TagLen /\ TagVerifies(body) /\ buffer' = body - TagLen
             /\ UNCHANGED <<pc, released, last, failed>>
    <3>1. obj.genuine /\ buffer' \in Nat /\ released' + buffer' = PlaintextLen(obj)
      BY <1>0, <1>1, <2>1, <2>2, <2>4 DEF TagVerifies, PlaintextLen
    <3>2. (last' = "empty" /\ ~failed') => FALSE
      BY <2>1, <2>4 DEF IInv
    <3> QED
      BY <1>0, <1>1, <2>1, <2>2, <2>4, <3>1, <3>2
         DEF IInv, TypeOK, OnlyPlaintextReleased, PlaintextLen
  <2> QED
    BY <1>9, <2>3, <2>4 DEF OneShot
<1>10. ASSUME NEW a \in Amounts, ReadBuffer(a) PROVE IInv'
  <2> DEFINE n == IF a < buffer THEN a ELSE buffer
  <2>1. a \in Nat /\ n \in Nat /\ n <= buffer /\ (n = 0 /\ a > 0 => buffer = 0)
    BY <1>0, LengthAssumption
  <2>2. /\ ~obj.delayed /\ finalized /\ ~failed /\ pc = "idle"
        /\ buffer' = buffer - n /\ released' = released + n
        /\ last' = IF n = 0 /\ a > 0 THEN "empty" ELSE "data"
        /\ UNCHANGED <<obj, body, consumed, finalized, decryptor, amt, pc, failed>>
    BY <1>10 DEF ReadBuffer
  <2> HIDE DEF n
  <2>3. obj.alg = "gcm" /\ obj.genuine /\ released + buffer = obj.len - TagLen
    BY <1>0, <1>1, <2>2, ObjectFacts DEF IInv, PlaintextLen
  <2>4. /\ buffer' \in Nat /\ released' \in Nat /\ released' + buffer' = obj.len - TagLen
        /\ last' = "empty" => buffer' = 0
    BY <1>0, <1>1, <2>1, <2>2, <2>3
  <2>5. TypeOK'
    BY <1>0, <2>2, <2>4 DEF IInv, TypeOK, decryptor
  <2>6. OnlyPlaintextReleased'
    BY <1>0, <1>1, <2>2, <2>3, <2>4 DEF OnlyPlaintextReleased
  <2> QED
    BY <1>0, <1>1, <2>2, <2>3, <2>4, <2>5, <2>6 DEF IInv, PlaintextLen, decryptor
<1> QED
  BY <1>2, <1>3, <1>4, <1>5, <1>6, <1>7, <1>8, <1>9, <1>10 DEF Next, Loop

\* The bookkeeping of stream and decryptor stays consistent.
THEOREM Inductive == Spec => []IInv
BY InitIInv, NextIInv, PTL DEF Spec

\* No split of the body over reads lets tag or padding bytes out.
THEOREM NoTagReleased == Spec => []OnlyPlaintextReleased
<1>1. IInv => OnlyPlaintextReleased
  BY DEF IInv
<1> QED
  BY <1>1, Inductive, PTL

\* An empty read with no exception before it means that the caller has the
\* whole plaintext, authenticated if the object is GCM.
THEOREM EndIsWhole == Spec => []CleanEndIsWhole
<1>1. IInv => CleanEndIsWhole
  <2> SUFFICES ASSUME IInv, last = "empty", ~failed
               PROVE  /\ consumed = obj.len
                      /\ obj.alg = "gcm" => obj.genuine
                      /\ obj.genuine => released = PlaintextLen(obj)
    BY DEF CleanEndIsWhole
  <2>1. finalized /\ buffer = 0 /\ released \in Nat
    BY DEF IInv, TypeOK
  <2> QED
    BY <2>1 DEF IInv
<1> QED
  BY <1>1, Inductive, PTL

\* Without delayed authentication only authenticated plaintext is released.
THEOREM BufferedIsAuthentic == Spec => []ReleasedIsAuthentic
<1>1. IInv => ReleasedIsAuthentic
  <2> SUFFICES ASSUME IInv, ~obj.delayed, released > 0
               PROVE  obj.genuine /\ consumed = obj.len
    BY DEF ReleasedIsAuthentic
  <2>1. obj.alg = "gcm"
    BY ObjectFacts DEF IInv, TypeOK
  <2>2. finalized /\ ~failed
    BY DEF IInv, TypeOK
  <2> QED
    BY <2>1, <2>2 DEF IInv
<1> QED
  BY <1>1, Inductive, PTL
=============================================================================
