------------------------ MODULE MultipartUpload_proofs ------------------------
(***************************************************************************)
(* Theorems about MultipartUpload, for every set of threads and uploads    *)
(* and every bound on part numbers.                                        *)
(***************************************************************************)
EXTENDS MultipartUpload, TLAPS

\* A call's pc tells which locals it has.
LEMMA CallCases ==
  ASSUME NEW c \in Call
  PROVE  /\ c.pc = "encrypt" => c \in EncryptCall
         /\ c.pc = "send" => c \in SendCall
         /\ c.pc \in {"check", "complete", "pop"} => c \in ListCall
         /\ c.pc = "abort" => c \in AbortCall
BY DEF Call, Idle, EncryptCall, SendCall, ListCall, AbortCall

\* Each action keeps every variable of its type.
LEMMA NextType == TypeOK /\ [Next]_vars => TypeOK'
<1> SUFFICES ASSUME TypeOK, [Next]_vars PROVE TypeOK'
  OBVIOUS
<1>0. CASE UNCHANGED vars
  BY <1>0 DEF TypeOK, vars, pipeline, s3
<1>1. ASSUME NEW t \in Threads, NEW u \in Uploads,
             CreateMultipartUpload(t, u) \/ CreateMultipartUploadLost(t, u)
      PROVE TypeOK'
  BY <1>1 DEF TypeOK, CreateMultipartUpload, CreateMultipartUploadLost, pipeline
<1>2. ASSUME NEW t \in Threads, NEW u \in Uploads, NEW p \in 0..MaxPart,
             NEW last \in BOOLEAN, NEW body \in Bodies, UploadPart(t, u, p, last, body)
      PROVE TypeOK'
  <2>1. [pc |-> "encrypt", up |-> u, part |-> p, last |-> last, body |-> body] \in Call
    BY DEF Call, EncryptCall
  <2> QED
    BY <1>2, <2>1 DEF TypeOK, UploadPart, Goto, pipeline, s3
<1>3. ASSUME NEW t \in Threads,
             \/ EncryptPartRetry(t) \/ EncryptPartRejected(t)
             \/ EncryptPartRaises(t) \/ EncryptPart(t)
      PROVE TypeOK'
  <2> DEFINE c == call[t]
             u == c.up
             part == [part |-> c.part, tagged |-> c.last]
  <2>1. call[t] \in EncryptCall
    BY <1>3, CallCases DEF TypeOK, EncryptPartRetry, EncryptPartRejected,
                           EncryptPartRaises, EncryptPart
  <2>2. u \in Uploads /\ c.part \in 0..MaxPart /\ c.last \in BOOLEAN
    BY <2>1 DEF EncryptCall
  <2>3. Idle \in Call /\ \A ct \in Nat : Sending(c, ct) \in Call
    BY <2>2 DEF Call, SendCall, Sending
  <2>4. CASE EncryptPartRetry(t)
    BY <2>2, <2>3, <2>4 DEF TypeOK, EncryptPartRetry, Goto, pipeline, s3
  <2>5. CASE EncryptPartRejected(t)
    BY <2>3, <2>5 DEF TypeOK, EncryptPartRejected, Goto, Return, pipeline, s3
  <2>6. CASE EncryptPartRaises(t)
    <3>1. next_part' \in [Uploads -> 1..(MaxPart + 1)]
      BY <2>2, <2>6, MaxPartAssumption DEF TypeOK, EncryptPartRaises, InSequence
    <3>2. call' \in [Threads -> Call]
      BY <2>3, <2>6 DEF TypeOK, EncryptPartRaises, Goto, Return
    <3> QED
      BY <2>6, <3>1, <3>2 DEF TypeOK, EncryptPartRaises, s3
  <2>7. CASE EncryptPart(t)
    <3>1. next_part' \in [Uploads -> 1..(MaxPart + 1)]
      BY <2>2, <2>7, MaxPartAssumption DEF TypeOK, EncryptPart, InSequence
    <3>2. part \in Output /\ out[u] \in Seq(Output)
      BY <2>2 DEF Output, TypeOK
    <3>3. Append(out[u], part) \in Seq(Output) /\ Len(out[u]) + 1 \in Nat
      BY <3>2
    <3>4. out' \in [Uploads -> Seq(Output)]
      BY <2>2, <2>7, <3>3 DEF TypeOK, EncryptPart
    <3>5. call' \in [Threads -> Call]
      BY <2>3, <2>7, <3>3 DEF TypeOK, EncryptPart, Goto
    <3>6. /\ last_part' \in [Uploads -> 0..MaxPart]
          /\ last_ct' \in [Uploads -> Nat]
      BY <2>2, <2>7, <3>3 DEF TypeOK, EncryptPart
    <3>7. final_seen' \in [Uploads -> BOOLEAN]
      BY <2>2, <2>7 DEF TypeOK, EncryptPart
    <3> QED
      BY <2>7, <3>1, <3>4, <3>5, <3>6, <3>7 DEF TypeOK, EncryptPart, s3
  <2> QED
    BY <1>3, <2>4, <2>5, <2>6, <2>7
<1>4. ASSUME NEW t \in Threads,
             SendPart(t) \/ SendPartLost(t) \/ SendPartFailed(t)
      PROVE TypeOK'
  <2>1. call[t] \in SendCall
    BY <1>4, CallCases DEF TypeOK, SendPart, SendPartLost, SendPartFailed
  <2>2. call[t].up \in Uploads /\ call[t].ct \in Nat
    BY <2>1 DEF SendCall
  <2>3. Idle \in Call
    BY DEF Call
  <2>4. call' \in [Threads -> Call]
    BY <1>4, <2>3 DEF TypeOK, SendPart, SendPartLost, SendPartFailed, Goto, Return
  <2>5. CASE SendPart(t)
    BY <2>2, <2>4, <2>5 DEF TypeOK, SendPart, pipeline
  <2>6. CASE SendPartLost(t)
    BY <2>2, <2>4, <2>6 DEF TypeOK, SendPartLost, pipeline
  <2>7. CASE SendPartFailed(t)
    BY <2>4, <2>7 DEF TypeOK, SendPartFailed, pipeline, s3
  <2> QED
    BY <1>4, <2>5, <2>6, <2>7
<1>5. ASSUME NEW t \in Threads, NEW u \in Uploads, NEW listed \in SUBSET Acked(u),
             CompleteMultipartUpload(t, u, listed)
      PROVE TypeOK'
  <2>1. [p \in S3Part |-> IF p \in listed THEN acked[u][p] ELSE NoCt] \in [S3Part -> Nat]
    BY DEF TypeOK, NoCt
  <2>2. [pc |-> "check", up |-> u,
         etags |-> [p \in S3Part |-> IF p \in listed THEN acked[u][p] ELSE NoCt]] \in Call
    BY <2>1 DEF Call, ListCall
  <2> QED
    BY <1>5, <2>2 DEF TypeOK, CompleteMultipartUpload, Goto, pipeline, s3
<1>6. ASSUME NEW t \in Threads,
             CheckFinalPart(t) \/ SendComplete(t) \/ SendCompleteLost(t)
               \/ SendCompleteFailed(t) \/ CompletePop(t)
      PROVE TypeOK'
  <2>1. call[t] \in ListCall
    BY <1>6, CallCases DEF TypeOK, CheckFinalPart, SendComplete, SendCompleteLost,
                           SendCompleteFailed, CompletePop
  <2>2. /\ Idle \in Call
        /\ Listing("complete", call[t]) \in Call
        /\ Listing("pop", call[t]) \in Call
    BY <2>1 DEF Call, ListCall, Listing
  <2>3. call[t].up \in Uploads /\ call[t].etags \in [S3Part -> Nat]
    BY <2>1 DEF ListCall
  <2>4. call' \in [Threads -> Call]
    BY <1>6, <2>2 DEF TypeOK, CheckFinalPart, SendComplete, SendCompleteLost,
         SendCompleteFailed, CompletePop, Goto, Return
  <2>5. /\ s3state' \in [Uploads -> {"none", "open", "completed", "aborted"}]
        /\ s3object' \in [Uploads -> [S3Part -> Nat]]
        /\ registry' \in SUBSET Uploads
    BY <1>6, <2>3 DEF TypeOK, CheckFinalPart, SendComplete, SendCompleteLost,
         SendCompleteFailed, CompletePop, S3Complete, s3
  <2> QED
    BY <1>6, <2>4, <2>5 DEF TypeOK, CheckFinalPart, SendComplete, SendCompleteLost,
         SendCompleteFailed, CompletePop, S3Complete, pipeline, s3
<1>7. ASSUME NEW t \in Threads, NEW u \in Uploads, AbortMultipartUpload(t, u)
      PROVE TypeOK'
  <2>1. [pc |-> "abort", up |-> u] \in Call
    BY DEF Call, AbortCall
  <2> QED
    BY <1>7, <2>1 DEF TypeOK, AbortMultipartUpload, Goto, pipeline, s3
<1>8. ASSUME NEW t \in Threads, SendAbort(t) \/ SendAbortFailed(t) PROVE TypeOK'
  <2>1. call[t] \in AbortCall
    BY <1>8, CallCases DEF TypeOK, SendAbort, SendAbortFailed
  <2>2. Idle \in Call /\ NoParts \in [S3Part -> Nat]
    BY DEF Call, NoParts, NoCt
  <2> QED
    <3>1. call[t].up \in Uploads
      BY <2>1 DEF AbortCall
    <3>2. call' \in [Threads -> Call]
      BY <1>8, <2>2 DEF TypeOK, SendAbort, SendAbortFailed, Goto, Return
    <3>3. CASE SendAbort(t)
      BY <2>2, <3>1, <3>2, <3>3 DEF TypeOK, SendAbort, pipeline
    <3>4. CASE SendAbortFailed(t)
      BY <3>2, <3>4 DEF TypeOK, SendAbortFailed, pipeline, s3
    <3> QED
      BY <1>8, <3>3, <3>4
<1> QED
  BY <1>0, <1>1, <1>2, <1>3, <1>4, <1>5, <1>6, <1>7, <1>8 DEF Next, Start, Step

\* A client that has made no call has every variable of its type.
LEMMA InitType == Init => TypeOK
BY MaxPartAssumption DEF Init, TypeOK, NoParts, NoCt, S3Part, Call, Output

\* Every reachable state of the client and of S3 is well typed; with it
\* last_ct, out and the S3 stores range over all of Nat, so the theorem does
\* not depend on how many parts a run encrypts.
THEOREM TypeCorrect == Spec => []TypeOK
BY InitType, NextType, PTL DEF Spec

-----------------------------------------------------------------------------
(* The inductive invariant *)

\* Positions keep their meaning and a finished cipher stays finished.
Forward(u) ==
  /\ \A p \in 0..MaxPart, ct \in Nat : Names(u, p, ct) => Names(u, p, ct)'
  /\ final_seen[u] => final_seen'[u]

\* Only two actions touch a pipeline.
LEMMA PipelineMoves ==
  [Next]_vars => \/ UNCHANGED pipeline
                 \/ \E t \in Threads : EncryptPartRaises(t) \/ EncryptPart(t)
BY DEF Next, Start, Step, vars, CreateMultipartUpload, CreateMultipartUploadLost,
  UploadPart, EncryptPartRetry, EncryptPartRejected, SendPart, SendPartLost,
  SendPartFailed, CompleteMultipartUpload, CheckFinalPart, SendComplete,
  SendCompleteLost, SendCompleteFailed, CompletePop, AbortMultipartUpload,
  SendAbort, SendAbortFailed

\* Every position of the cipher's output carries a part number.
LEMMA OutputParts ==
  ASSUME TypeOK, NEW u \in Uploads
  PROVE  /\ out[u] \in Seq(Output)
         /\ \A i \in 1..Len(out[u]) : out[u][i].part \in Nat
<1>1. out[u] \in Seq(Output)
  BY DEF TypeOK
<1>2. ASSUME NEW i \in 1..Len(out[u]) PROVE out[u][i].part \in Nat
  <2>1. out[u][i] \in Output
    BY <1>1
  <2> QED
    BY <2>1, MaxPartAssumption DEF Output
<1> QED
  BY <1>1, <1>2

\* The cache, the sequence number and the tag stay consistent with what the
\* cipher has produced.
LEMMA PipelineStep ==
  ASSUME IInv, [Next]_vars, NEW u \in Uploads
  PROVE  CipherInv(u)' /\ Forward(u)
<1> USE DEF NoCt
<1>0. TypeOK /\ CipherInv(u)
  BY DEF IInv
<1>1. CASE UNCHANGED pipeline
  BY <1>0, <1>1 DEF CipherInv, Forward, Names, pipeline
<1>2. ASSUME NEW t \in Threads, EncryptPartRaises(t) PROVE CipherInv(u)' /\ Forward(u)
  <2>1. next_part'[u] \in Nat /\ next_part[u] \in Nat /\ next_part[u] <= next_part'[u]
    <3>1. call[t] \in EncryptCall
      BY <1>0, <1>2, CallCases DEF TypeOK, EncryptPartRaises
    <3> QED
      BY <1>0, <1>2, <3>1, MaxPartAssumption DEF TypeOK, EncryptPartRaises, EncryptCall
  <2>2. out[u] \in Seq(Output)
    BY <1>0 DEF TypeOK
  <2>3. \A i \in 1..Len(out[u]) : out[u][i].part \in Nat
    BY <1>0, OutputParts
  <2> QED
    BY <1>0, <1>2, <2>1, <2>2, <2>3 DEF CipherInv, Forward, Names, EncryptPartRaises
<1>3. ASSUME NEW t \in Threads, EncryptPart(t) PROVE CipherInv(u)' /\ Forward(u)
  <2> DEFINE c == call[t]
             n == Len(out[u])
             new == [part |-> c.part, tagged |-> c.last]
  <2>1. /\ c.up \in Uploads /\ c.part \in 0..MaxPart /\ c.last \in BOOLEAN
        /\ c.part = next_part[c.up] /\ ~final_seen[c.up] /\ c.part # last_part[c.up]
    BY <1>0, <1>3, CallCases DEF TypeOK, EncryptPart, EncryptCall, InSequence, IsRetry
  <2>2. CASE u # c.up
    <3>1. /\ next_part'[u] = next_part[u] /\ out'[u] = out[u] /\ last_ct'[u] = last_ct[u]
          /\ final_seen'[u] = final_seen[u] /\ last_part'[u] = last_part[u]
      BY <1>0, <1>3, <2>1, <2>2 DEF EncryptPart, TypeOK
    <3> QED
      BY <1>0, <3>1 DEF CipherInv, Forward, Names
  <2>3. CASE u = c.up
    <3>1. /\ next_part'[u] = next_part[u] + 1 /\ out'[u] = Append(out[u], new)
          /\ last_ct'[u] = n + 1 /\ last_part'[u] = c.part
          /\ final_seen'[u] = c.last
      BY <1>0, <1>3, <2>1, <2>3 DEF EncryptPart, TypeOK
    <3>2. out[u] \in Seq(Output) /\ next_part[u] \in Nat
      BY <1>0, MaxPartAssumption DEF TypeOK
    <3>3. /\ n \in Nat /\ Len(out'[u]) = n + 1
          /\ \A i \in 1..n : out'[u][i] = out[u][i]
          /\ out'[u][n + 1] = new
      BY <3>1, <3>2
    <3>4. \A i \in 1..n : out[u][i].part \in Nat
      BY <1>0, OutputParts
    <3>5. Forward(u)
      BY <2>1, <2>3, <3>1, <3>3 DEF Forward, Names
    <3>6. \A i \in 1..(n + 1) : 0 < out'[u][i].part /\ out'[u][i].part < next_part'[u]
      <4>1. ASSUME NEW i \in 1..n
            PROVE  0 < out'[u][i].part /\ out'[u][i].part < next_part'[u]
        <5>1. 0 < out[u][i].part /\ out[u][i].part < next_part[u]
          BY <1>0 DEF CipherInv
        <5> QED
          BY <3>1, <3>2, <3>3, <3>4, <5>1
      <4>2. out'[u][n + 1].part = next_part[u] /\ 0 < next_part[u]
        <5>1. out'[u][n + 1].part = next_part[u]
          BY <2>1, <2>3, <3>3
        <5>2. next_part[u] \in 1..(MaxPart + 1)
          BY <1>0 DEF TypeOK
        <5> QED
          BY <5>1, <5>2, MaxPartAssumption
      <4>3. \A i \in 1..(n + 1) : i \in 1..n \/ i = n + 1
        BY <3>3
      <4> QED
        BY <3>1, <3>2, <4>1, <4>2, <4>3
    <3>7. \A i, j \in 1..(n + 1) : i < j => out'[u][i].part < out'[u][j].part
      <4> SUFFICES ASSUME NEW i \in 1..(n + 1), NEW j \in 1..(n + 1), i < j
                   PROVE  out'[u][i].part < out'[u][j].part
        OBVIOUS
      <4>1. i \in 1..n /\ (j \in 1..n \/ j = n + 1)
        BY <3>3
      <4>2. CASE j \in 1..n
        BY <1>0, <3>3, <4>1, <4>2 DEF CipherInv
      <4>3. CASE j = n + 1
        <5>1. out[u][i].part < next_part[u]
          BY <1>0, <4>1 DEF CipherInv
        <5>2. out'[u][j].part = next_part[u]
          BY <2>1, <2>3, <3>3, <4>3
        <5> QED
          BY <3>3, <4>1, <5>1, <5>2
      <4> QED
        BY <4>1, <4>2, <4>3
    <3>8. \A i \in 1..(n + 1) : out'[u][i].tagged <=> (i = n + 1 /\ final_seen'[u])
      <4>1. ASSUME NEW i \in 1..n PROVE ~out'[u][i].tagged /\ i # n + 1
        <5>1. out'[u][i] = out[u][i] /\ i # n + 1
          BY <3>3
        <5>2. ~final_seen[u]
          BY <2>1, <2>3
        <5>3. out[u][i].tagged <=> (i = n /\ final_seen[u])
          BY <1>0 DEF CipherInv
        <5> QED
          BY <5>1, <5>2, <5>3
      <4>2. out'[u][n + 1].tagged <=> final_seen'[u]
        BY <3>1, <3>3
      <4>3. \A i \in 1..(n + 1) : i \in 1..n \/ i = n + 1
        BY <3>3
      <4> QED
        BY <4>1, <4>2, <4>3
    <3> QED
      BY <3>1, <3>3, <3>5, <3>6, <3>7, <3>8 DEF CipherInv
  <2> QED
    BY <2>2, <2>3
<1> QED
  BY <1>1, <1>2, <1>3, PipelineMoves

\* What a thread read under a lock stays true after other threads' steps.
LEMMA CallKept ==
  ASSUME TypeOK, \A u \in Uploads : Forward(u), NEW c \in Call, CallInv(c)
  PROVE  CallInv(c)'
<1>1. CASE c.pc = "send"
  <2>1. c \in SendCall
    BY <1>1, CallCases
  <2> QED
    BY <1>1, <2>1 DEF CallInv, Forward, SendCall
<1>2. CASE c.pc \in {"check", "complete", "pop"}
  <2>1. c \in ListCall
    BY <1>2, CallCases
  <2>2. S3Part \subseteq 0..MaxPart
    BY MaxPartAssumption DEF S3Part
  <2> QED
    BY <1>2, <2>1, <2>2 DEF CallInv, Forward, ListCall
<1> QED
  BY <1>1, <1>2 DEF CallInv

\* A part number has one position: the cipher's parts ascend strictly.
LEMMA NamesUnique ==
  ASSUME TypeOK, NEW u \in Uploads, CipherInv(u), NEW p, NEW a, NEW b,
         Names(u, p, a), Names(u, p, b)
  PROVE  a = b
<1>1. /\ out[u] \in Seq(Output)
      /\ \A i \in 1..Len(out[u]) : out[u][i].part \in Nat
  BY OutputParts
<1> QED
  BY <1>1 DEF CipherInv, Names

\* Only these actions touch what S3 stores or what callers were told.
LEMMA StoreMoves ==
  [Next]_vars => \/ UNCHANGED <<s3, acked>>
                 \/ \E t \in Threads, u \in Uploads :
                      CreateMultipartUpload(t, u) \/ CreateMultipartUploadLost(t, u)
                 \/ \E t \in Threads :
                      \/ SendPart(t) \/ SendPartLost(t) \/ SendAbort(t)
                      \/ SendComplete(t) \/ SendCompleteLost(t)
BY DEF Next, Start, Step, vars, UploadPart, EncryptPartRetry, EncryptPartRejected,
  EncryptPartRaises, EncryptPart, SendPartFailed, CompleteMultipartUpload,
  CheckFinalPart, SendCompleteFailed, CompletePop, AbortMultipartUpload, SendAbortFailed

\* What S3 stores, what it assembled and the ETags callers hold remain
\* positions of the right part, and an acknowledged part is the stored one.
LEMMA StoreStep ==
  ASSUME IInv, [Next]_vars, NEW u \in Uploads
  PROVE  StoreInv(u)' /\ (s3state'[u] = "completed" => final_seen'[u])
<1> USE DEF NoCt
<1>0. /\ TypeOK /\ StoreInv(u) /\ CipherInv(u) /\ Forward(u)
      /\ s3state[u] = "completed" => final_seen[u]
      /\ \A t \in Threads : call[t] \in Call /\ CallInv(call[t])
  BY PipelineStep DEF IInv, TypeOK
<1>1. S3Part \subseteq 0..MaxPart
  BY MaxPartAssumption DEF S3Part
<1>2. \A p \in S3Part : s3parts[u][p] \in Nat /\ acked[u][p] \in Nat /\ s3object[u][p] \in Nat
  BY <1>0 DEF TypeOK
<1>3. CASE UNCHANGED <<s3, acked>>
  BY <1>0, <1>1, <1>2, <1>3 DEF StoreInv, Forward, s3
<1>4. ASSUME NEW t \in Threads, NEW v \in Uploads,
             CreateMultipartUpload(t, v) \/ CreateMultipartUploadLost(t, v)
      PROVE  StoreInv(u)' /\ (s3state'[u] = "completed" => final_seen'[u])
  <2>1. /\ s3parts' = s3parts /\ acked' = acked /\ s3object' = s3object
        /\ s3state'[u] = s3state[u] \/ (s3state[u] = "none" /\ s3state'[u] = "open")
    BY <1>0, <1>4 DEF TypeOK, CreateMultipartUpload, CreateMultipartUploadLost
  <2> QED
    BY <1>0, <1>1, <1>2, <2>1 DEF StoreInv, Forward
<1>5. ASSUME NEW t \in Threads, SendPart(t) \/ SendPartLost(t)
      PROVE  StoreInv(u)' /\ (s3state'[u] = "completed" => final_seen'[u])
  <2> DEFINE c == call[t]
  <2>1. c \in SendCall /\ c.pc = "send" /\ c.ct # 0 /\ c.part \in S3Part
    BY <1>0, <1>5, CallCases DEF SendPart, SendPartLost
  <2>2. c.up \in Uploads /\ c.part \in 0..MaxPart /\ c.ct \in Nat
    BY <2>1 DEF SendCall
  <2>3. Names(c.up, c.part, c.ct)
    BY <1>0, <2>1 DEF CallInv
  <2>4. s3state' = s3state /\ s3object' = s3object /\ s3state[c.up] = "open"
    BY <1>5 DEF SendPart, SendPartLost
  <2>5. CASE u # c.up
    <3>1. s3parts'[u] = s3parts[u] /\ acked'[u] = acked[u]
      BY <1>0, <1>5, <2>2, <2>5 DEF TypeOK, SendPart, SendPartLost
    <3> QED
      BY <1>0, <1>1, <1>2, <2>4, <3>1 DEF StoreInv, Forward
  <2>6. CASE u = c.up
    <3>1. ASSUME NEW p \in S3Part
          PROVE  /\ s3parts'[u][p] = IF p = c.part THEN c.ct ELSE s3parts[u][p]
                 /\ acked'[u][p] = acked[u][p] \/ (p = c.part /\ acked'[u][p] = c.ct)
      <4>1. /\ s3parts \in [Uploads -> [S3Part -> Nat]]
            /\ acked \in [Uploads -> [S3Part -> Nat]]
        BY <1>0 DEF TypeOK
      <4>2. /\ s3parts' = [s3parts EXCEPT ![u][c.part] = c.ct]
            /\ acked' = acked \/ acked' = [acked EXCEPT ![u][c.part] = c.ct]
        BY <1>5, <2>6 DEF SendPart, SendPartLost
      <4>3. s3parts'[u][p] = IF p = c.part THEN c.ct ELSE s3parts[u][p]
        BY <2>1, <4>1, <4>2
      <4>4. acked'[u][p] = acked[u][p] \/ (p = c.part /\ acked'[u][p] = c.ct)
        BY <2>1, <4>1, <4>2
      <4> QED
        BY <4>3, <4>4
    <3>2. acked[u][c.part] # 0 => acked[u][c.part] = c.ct
      BY <1>0, <2>1, <2>2, <2>3, <2>6, NamesUnique DEF StoreInv
    <3>3. \A p \in 0..MaxPart, ct \in Nat :
            p = c.part /\ ct = c.ct => Names(u, p, ct)'
      BY <1>0, <2>2, <2>3, <2>6 DEF Forward
    <3>4. ASSUME NEW p \in S3Part, p # c.part
          PROVE  /\ s3parts'[u][p] = s3parts[u][p] /\ acked'[u][p] = acked[u][p]
      BY <3>1, <3>4
    <3>5. s3parts'[u][c.part] = c.ct /\ acked'[u][c.part] \in {0, c.ct}
      BY <2>1, <3>1, <3>2
    <3>6. ASSUME NEW p \in S3Part
          PROVE  /\ s3parts'[u][p] # NoCt => Names(u, p, s3parts[u][p])'
                 /\ acked'[u][p] # NoCt => Names(u, p, acked[u][p])'
                 /\ acked'[u][p] # NoCt => s3parts'[u][p] = acked'[u][p]
      <4>1. CASE p = c.part
        BY <1>1, <2>2, <3>3, <3>5, <4>1
      <4>2. CASE p # c.part
        BY <1>0, <1>1, <1>2, <2>4, <2>6, <3>4, <4>2 DEF StoreInv, Forward
      <4> QED
        BY <4>1, <4>2
    <3> QED
      BY <1>0, <1>1, <1>2, <2>4, <2>6, <3>6 DEF StoreInv, Forward
  <2> QED
    BY <2>5, <2>6
<1>6. ASSUME NEW t \in Threads, SendAbort(t)
      PROVE  StoreInv(u)' /\ (s3state'[u] = "completed" => final_seen'[u])
  <2>1. call[t].up \in Uploads
    BY <1>0, <1>6, CallCases DEF SendAbort, AbortCall
  <2>2. /\ s3object' = s3object /\ acked' = acked
        /\ \/ s3parts'[u] = s3parts[u] /\ s3state'[u] = s3state[u]
           \/ s3parts'[u] = NoParts /\ s3state'[u] = "aborted" /\ s3state[u] = "open"
    BY <1>0, <1>6, <2>1 DEF TypeOK, SendAbort
  <2> QED
    BY <1>0, <1>1, <1>2, <2>2 DEF StoreInv, Forward, NoParts
<1>7. ASSUME NEW t \in Threads, SendComplete(t) \/ SendCompleteLost(t)
      PROVE  StoreInv(u)' /\ (s3state'[u] = "completed" => final_seen'[u])
  <2> DEFINE c == call[t]
  <2>1. c \in ListCall /\ c.pc = "complete" /\ S3Complete(c)
    BY <1>0, <1>7, CallCases DEF SendComplete, SendCompleteLost
  <2>2. c.up \in Uploads /\ c.etags \in [S3Part -> Nat]
    BY <2>1 DEF ListCall
  <2>3. s3parts' = s3parts /\ acked' = acked
    BY <1>7 DEF SendComplete, SendCompleteLost, S3Complete
  <2>4. \/ s3object'[u] = s3object[u] /\ s3state'[u] = s3state[u]
        \/ /\ u = c.up /\ s3object'[u] = c.etags
           /\ s3state'[u] = "completed" /\ s3state[u] = "open"
    BY <1>0, <2>1, <2>2 DEF TypeOK, S3Complete
  <2>5. /\ \A p \in S3Part : c.etags[p] # 0 => Names(c.up, p, c.etags[p])
        /\ final_seen[c.up]
    BY <1>0, <2>1 DEF CallInv
  <2> QED
    BY <1>0, <1>1, <1>2, <2>2, <2>3, <2>4, <2>5 DEF StoreInv, Forward
<1> QED
  BY <1>3, <1>4, <1>5, <1>6, <1>7, StoreMoves

\* How the call of a thread s changes: not at all, to a point where it holds
\* nothing the invariant speaks of, or by one of five actions of s.
LEMMA CallMoves ==
  ASSUME TypeOK, [Next]_vars, NEW s \in Threads
  PROVE  \/ call'[s] = call[s]
         \/ call'[s].pc \in {"idle", "encrypt", "abort"}
         \/ EncryptPartRetry(s) \/ EncryptPart(s)
         \/ \E u \in Uploads, listed \in SUBSET S3Part : CompleteMultipartUpload(s, u, listed)
         \/ CheckFinalPart(s) \/ SendComplete(s)
<1> DEFINE Goal == \/ call'[s] = call[s]
                   \/ call'[s].pc \in {"idle", "encrypt", "abort"}
                   \/ EncryptPartRetry(s) \/ EncryptPart(s)
                   \/ \E u \in Uploads, listed \in SUBSET S3Part :
                        CompleteMultipartUpload(s, u, listed)
                   \/ CheckFinalPart(s) \/ SendComplete(s)
<1>0. call \in [Threads -> Call]
  BY DEF TypeOK
<1>1. ASSUME NEW t \in Threads, NEW x, Goto(t, x) PROVE call'[s] = IF s = t THEN x ELSE call[s]
  BY <1>0, <1>1 DEF Goto
<1>2. CASE UNCHANGED vars
  BY <1>2 DEF vars
<1>3. ASSUME NEW t \in Threads, Start(t) PROVE Goal
  <2>1. ASSUME NEW u \in Uploads,
               CreateMultipartUpload(t, u) \/ CreateMultipartUploadLost(t, u)
        PROVE  Goal
    BY <2>1 DEF CreateMultipartUpload, CreateMultipartUploadLost
  <2>2. ASSUME NEW u \in Uploads, NEW p \in 0..MaxPart, NEW last \in BOOLEAN,
               NEW body \in Bodies, UploadPart(t, u, p, last, body)
        PROVE  Goal
    BY <1>1, <2>2 DEF UploadPart
  <2>3. ASSUME NEW u \in Uploads, NEW listed \in SUBSET Acked(u),
               CompleteMultipartUpload(t, u, listed)
        PROVE  Goal
    <3>1. listed \in SUBSET S3Part
      BY DEF Acked
    <3>2. CASE s = t
      BY <2>3, <3>1, <3>2
    <3>3. CASE s # t
      BY <1>1, <2>3, <3>3 DEF CompleteMultipartUpload
    <3> QED
      BY <3>2, <3>3
  <2>4. ASSUME NEW u \in Uploads, AbortMultipartUpload(t, u) PROVE Goal
    BY <1>1, <2>4 DEF AbortMultipartUpload
  <2> QED
    BY <1>3, <2>1, <2>2, <2>3, <2>4 DEF Start
<1>4. ASSUME NEW t \in Threads, Step(t) PROVE Goal
  <2>1. CASE s # t
    <3>1. \E x : Goto(t, x)
      BY <1>4 DEF Step, Return, EncryptPartRetry, EncryptPartRejected, EncryptPartRaises,
           EncryptPart, SendPart, SendPartLost, SendPartFailed, CheckFinalPart,
           SendComplete, SendCompleteLost, SendCompleteFailed, CompletePop,
           SendAbort, SendAbortFailed
    <3> QED
      BY <1>1, <2>1, <3>1
  <2>2. CASE s = t
    <3>1. Return(t) => call'[s].pc = "idle"
      BY <1>1, <2>2 DEF Return, Idle
    <3> QED
      BY <1>4, <2>2, <3>1 DEF Step, EncryptPartRejected, EncryptPartRaises, SendPart,
           SendPartLost, SendPartFailed, SendCompleteLost, SendCompleteFailed,
           CompletePop, SendAbort, SendAbortFailed
  <2> QED
    BY <2>1, <2>2
<1> QED
  BY <1>2, <1>3, <1>4 DEF Next

\* What the moving thread carries to its next step is true when it gets
\* there, and what the others carry stays true.
LEMMA CallStep ==
  ASSUME IInv, [Next]_vars, NEW s \in Threads
  PROVE  CallInv(call[s])'
<1> USE DEF NoCt
<1>0. /\ TypeOK /\ TypeOK'
      /\ \A u \in Uploads : CipherInv(u) /\ StoreInv(u) /\ CipherInv(u)' /\ Forward(u)
      /\ call[s] \in Call /\ CallInv(call[s]) /\ call' \in [Threads -> Call]
  BY NextType, PipelineStep DEF IInv, TypeOK
<1>1. \A c \in Call : CallInv(c) => CallInv(c)'
  BY <1>0, CallKept
<1>2. S3Part \subseteq 0..MaxPart
  BY MaxPartAssumption DEF S3Part
<1>3. SUFFICES ASSUME NEW c \in Call, c = call'[s] PROVE CallInv(c)'
  BY <1>0 DEF CallInv, Names
<1>4. CASE call'[s] = call[s]
  BY <1>0, <1>1, <1>3, <1>4
<1>5. CASE call'[s].pc \in {"idle", "encrypt", "abort"}
  BY <1>3, <1>5 DEF CallInv
<1>6. CASE EncryptPartRetry(s)
  <2> DEFINE d == call[s]
  <2>1. d \in EncryptCall /\ d.part = last_part[d.up]
    BY <1>0, <1>6, CallCases DEF EncryptPartRetry, IsRetry
  <2>2. c = Sending(d, last_ct[d.up])
    BY <1>0, <1>3, <1>6 DEF TypeOK, EncryptPartRetry, Goto
  <2>3. d.up \in Uploads /\ out[d.up] \in Seq(Output)
    BY <1>0, <2>1 DEF TypeOK, EncryptCall
  <2>4. (d.part = 0 /\ last_ct[d.up] = 0) \/ Names(d.up, d.part, last_ct[d.up])
    <3>1. CASE Len(out[d.up]) = 0
      BY <1>0, <2>1, <2>3, <3>1 DEF CipherInv
    <3>2. CASE Len(out[d.up]) > 0
      BY <1>0, <2>1, <2>3, <3>2 DEF CipherInv, Names
    <3> QED
      BY <2>3, <3>1, <3>2
  <2>5. c.pc = "send" /\ c.up = d.up /\ c.part = d.part /\ c.ct = last_ct[d.up]
    BY <2>2 DEF Sending
  <2>6. CallInv(c)
    BY <2>4, <2>5 DEF CallInv
  <2> QED
    BY <1>1, <2>6
<1>7. CASE EncryptPart(s)
  <2> DEFINE d == call[s]
             n == Len(out[d.up]) + 1
  <2>1. d \in EncryptCall
    BY <1>0, <1>7, CallCases DEF EncryptPart
  <2>2. c = Sending(d, n)
    BY <1>0, <1>3, <1>7 DEF TypeOK, EncryptPart, Goto
  <2>3. d.up \in Uploads /\ out[d.up] \in Seq(Output)
    BY <1>0, <2>1 DEF TypeOK, EncryptCall
  <2>4. out'[d.up] = Append(out[d.up], [part |-> d.part, tagged |-> d.last])
    BY <1>0, <1>7, <2>3 DEF TypeOK, EncryptPart
  <2>5. n \in 1..Len(out'[d.up]) /\ out'[d.up][n].part = d.part
    BY <2>3, <2>4
  <2>6. c.pc = "send" /\ c.up = d.up /\ c.part = d.part /\ c.ct = n
    BY <2>2 DEF Sending
  <2> QED
    BY <2>5, <2>6 DEF CallInv, Names
<1>8. ASSUME NEW u \in Uploads, NEW listed \in SUBSET S3Part,
             CompleteMultipartUpload(s, u, listed)
      PROVE  CallInv(c)'
  <2>1. c = [pc |-> "check", up |-> u,
             etags |-> [p \in S3Part |-> IF p \in listed THEN acked[u][p] ELSE NoCt]]
    BY <1>0, <1>3, <1>8 DEF TypeOK, CompleteMultipartUpload, Goto
  <2>2. CallInv(c)
    BY <1>0, <2>1 DEF CallInv, StoreInv
  <2> QED
    BY <1>1, <2>2
<1>9. CASE CheckFinalPart(s) \/ SendComplete(s)
  <2> DEFINE d == call[s]
  <2>1. d \in ListCall /\ d.pc \in {"check", "complete", "pop"}
    BY <1>0, <1>9, CallCases DEF CheckFinalPart, SendComplete
  <2>2. /\ c = Idle \/ c = Listing("complete", d) \/ c = Listing("pop", d)
        /\ c # Idle => final_seen[d.up]
    BY <1>0, <1>3, <1>9 DEF TypeOK, CheckFinalPart, SendComplete, Goto, Return, CallInv
  <2>3. CASE c = Idle
    BY <2>3 DEF CallInv, Idle
  <2>4. CASE c # Idle
    <3>1. c.pc \in {"complete", "pop"} /\ c.up = d.up /\ c.etags = d.etags
      BY <2>2, <2>4 DEF Listing
    <3>2. CallInv(c)
      BY <1>0, <2>1, <2>2, <2>4, <3>1 DEF CallInv
    <3> QED
      BY <1>1, <3>2
  <2> QED
    BY <2>3, <2>4
<1> QED
  BY <1>0, <1>4, <1>5, <1>6, <1>7, <1>8, <1>9, CallMoves

\* Nothing encrypted, stored or acknowledged satisfies the invariant.
LEMMA InitIInv == Init => IInv
<1> SUFFICES ASSUME Init PROVE IInv
  OBVIOUS
<1>1. TypeOK
  BY InitType
<1>2. \A u \in Uploads : CipherInv(u) /\ StoreInv(u)
  BY DEF Init, CipherInv, StoreInv, NoParts, NoCt
<1>3. \A t \in Threads : CallInv(call[t])
  BY DEF Init, CallInv, Idle
<1> QED
  BY <1>1, <1>2, <1>3 DEF IInv, Init

\* Every action keeps the invariant: the pipeline's part, S3's part and the
\* callers' part of it are lemmas of their own.
LEMMA NextIInv == IInv /\ [Next]_vars => IInv'
<1> SUFFICES ASSUME IInv, [Next]_vars PROVE IInv'
  OBVIOUS
<1>1. TypeOK'
  BY NextType DEF IInv
<1>2. \A u \in Uploads : /\ CipherInv(u)' /\ StoreInv(u)'
                         /\ s3state'[u] = "completed" => final_seen'[u]
  BY PipelineStep, StoreStep
<1>3. \A t \in Threads : CallInv(call[t])'
  BY CallStep
<1> QED
  BY <1>1, <1>2, <1>3 DEF IInv

\* The inductive invariant holds throughout: the pipeline's bookkeeping, S3's
\* stores and the locals of every call in flight agree on one cipher output.
THEOREM Inductive == Spec => []IInv
BY InitIInv, NextIInv, PTL DEF Spec

-----------------------------------------------------------------------------
(* The safety properties *)

\* Retries and concurrent callers never make two ciphertexts of one part:
\* what is about to be sent, what S3 stores and what was acknowledged agree.
THEOREM OneCiphertext == Spec => []OneCiphertextPerPart
<1>1. IInv => OneCiphertextPerPart
  <2> USE DEF NoCt
  <2> SUFFICES ASSUME IInv, NEW u \in Uploads, NEW p \in S3Part
      PROVE LET held == {call[t].ct : t \in {s \in Threads : /\ call[s].pc = "send"
                                                             /\ call[s].up = u
                                                             /\ call[s].part = p}}
                known == (held \cup {s3parts[u][p], acked[u][p]}) \ {NoCt}
            IN \A a, b \in known : a = b
    BY DEF OneCiphertextPerPart
  <2>1. /\ TypeOK /\ CipherInv(u) /\ StoreInv(u)
        /\ \A t \in Threads : CallInv(call[t])
    BY DEF IInv
  <2>2. \A t \in Threads : (call[t].pc = "send" /\ call[t].up = u /\ call[t].part = p
                              /\ call[t].ct # NoCt) => Names(u, p, call[t].ct)
    BY <2>1 DEF CallInv
  <2>3. \A a, b : Names(u, p, a) /\ Names(u, p, b) => a = b
    BY <2>1, NamesUnique
  <2> QED
    BY <2>1, <2>2, <2>3 DEF StoreInv
<1> QED
  BY <1>1, Inductive, PTL

\* An ETag a caller was given stays the ETag S3 knows the part by, until an
\* abort.
THEOREM AckedStays == Spec => []AckedPartStaysStored
<1>1. IInv => AckedPartStaysStored
  BY DEF IInv, AckedPartStaysStored, StoreInv
<1> QED
  BY <1>1, Inductive, PTL

\* S3 concatenates the parts of a completed object in the cipher's order.
THEOREM CipherOrder == Spec => []CompletedInCipherOrder
<1>1. IInv => CompletedInCipherOrder
  <2> SUFFICES ASSUME IInv, NEW u \in Uploads, NEW p \in S3Part, NEW q \in S3Part,
                      p < q, s3object[u][p] # NoCt, s3object[u][q] # NoCt
               PROVE  s3object[u][p] < s3object[u][q]
    BY DEF CompletedInCipherOrder
  <2> DEFINE a == s3object[u][p]
             b == s3object[u][q]
  <2>1. TypeOK /\ CipherInv(u) /\ StoreInv(u)
    BY DEF IInv
  <2>2. Names(u, p, a) /\ Names(u, q, b)
    BY <2>1 DEF StoreInv
  <2>3. out[u] \in Seq(Output) /\ \A i \in 1..Len(out[u]) : out[u][i].part \in Nat
    BY <2>1, OutputParts
  <2>4. /\ a \in 1..Len(out[u]) /\ b \in 1..Len(out[u]) /\ Len(out[u]) \in Nat
        /\ out[u][a].part = p /\ out[u][b].part = q
    BY <2>2, <2>3 DEF Names
  <2>5. b < a => q < p
    BY <2>1, <2>4 DEF CipherInv
  <2>6. p \in Nat /\ q \in Nat
    BY DEF S3Part
  <2> QED
    BY <2>4, <2>5, <2>6
<1> QED
  BY <1>1, Inductive, PTL

\* A part number has one position, so an object with every encrypted part
\* has every position, and a completed upload is sealed.
LEMMA FullList == IInv => FullListDecrypts
<1> USE DEF NoCt
<1> SUFFICES ASSUME IInv, NEW u \in Uploads, s3state[u] = "completed",
                    \A i \in 1..Len(out[u]) : \E p \in S3Part :
                      p = out[u][i].part /\ s3object[u][p] # NoCt
             PROVE  Decrypts(u)
  BY DEF FullListDecrypts
<1>1. TypeOK /\ CipherInv(u) /\ StoreInv(u) /\ final_seen[u]
  BY DEF IInv
<1>2. {s3object[u][p] : p \in S3Part} \ {NoCt} = 1..Len(out[u])
  <2>1. ASSUME NEW p \in S3Part, s3object[u][p] # NoCt
        PROVE  s3object[u][p] \in 1..Len(out[u])
    BY <1>1, <2>1 DEF StoreInv, Names
  <2>2. ASSUME NEW i \in 1..Len(out[u])
        PROVE  \E p \in S3Part : s3object[u][p] = i
    <3>1. PICK p \in S3Part : p = out[u][i].part /\ s3object[u][p] # NoCt
      OBVIOUS
    <3>2. Names(u, p, s3object[u][p]) /\ Names(u, p, i)
      BY <1>1, <3>1 DEF StoreInv, Names
    <3>3. s3object[u][p] = i
      BY <1>1, <3>2, NamesUnique
    <3> QED
      BY <3>3
  <2>3. Len(out[u]) \in Nat
    BY <1>1, OutputParts
  <2> QED
    BY <2>1, <2>2, <2>3
<1>3. \A i \in 1..Len(out[u]) : out[u][i].tagged <=> i = Len(out[u])
  BY <1>1 DEF CipherInv
<1> QED
  BY <1>2, <1>3 DEF Decrypts

\* A completed object that lists every encrypted part is the cipher's whole
\* output with its one tag at the end.
THEOREM FullListGood == Spec => []FullListDecrypts
BY FullList, Inductive, PTL

\* No call revives a pipeline that complete or abort dropped.
THEOREM DroppedIsDead == Spec => DroppedPipelineIsDead
<1>1. ASSUME TypeOK, [Next]_vars, NEW u \in Uploads, Unreachable(u)
      PROVE  Unreachable(u)' /\ out'[u] = out[u]
  <2>1. ASSUME NEW t \in Threads, EncryptPart(t) PROVE out'[u] = out[u]
    <3>1. call[t].up \in Uploads /\ call[t].up # u
      BY <1>1, <2>1, CallCases DEF Unreachable, EncryptPart, EncryptCall, TypeOK
    <3> QED
      BY <1>1, <2>1, <3>1 DEF TypeOK, EncryptPart
  <2>2. out'[u] = out[u]
    BY <1>1, <2>1, PipelineMoves DEF pipeline, EncryptPartRaises
  <2>3. s3state'[u] # "none"
    BY <1>1, StoreMoves DEF Unreachable, TypeOK, s3, CreateMultipartUpload,
         CreateMultipartUploadLost, SendPart, SendPartLost, SendAbort, SendComplete,
         SendCompleteLost, S3Complete
  <2>4. u \notin registry'
    BY <1>1 DEF Unreachable, Next, Start, Step, vars, CreateMultipartUpload,
      CreateMultipartUploadLost, UploadPart, EncryptPartRetry, EncryptPartRejected,
      EncryptPartRaises, EncryptPart, SendPart, SendPartLost, SendPartFailed,
      CompleteMultipartUpload, CheckFinalPart, SendComplete, SendCompleteLost,
      SendCompleteFailed, CompletePop, AbortMultipartUpload, SendAbort, SendAbortFailed
  <2>5. ASSUME NEW s \in Threads, call'[s].pc = "encrypt" PROVE call'[s].up # u
    <3>1. call'[s] = call[s] \/ \E v \in registry : call'[s].up = v
      <4>0. call \in [Threads -> Call] /\ call[s] \in Call
        BY <1>1 DEF TypeOK
      <4>1. ASSUME NEW t \in Threads, NEW x, Goto(t, x)
            PROVE call'[s] = IF s = t THEN x ELSE call[s]
        BY <4>0, <4>1 DEF Goto
      <4>2. ASSUME NEW t \in Threads, Step(t) PROVE call'[s] = call[s]
        <5>1. \E x : Goto(t, x) /\ x.pc # "encrypt"
          BY <4>2 DEF Step, Return, Idle, Sending, Listing, EncryptPartRetry,
             EncryptPartRejected, EncryptPartRaises, EncryptPart, SendPart, SendPartLost,
             SendPartFailed, CheckFinalPart, SendComplete, SendCompleteLost,
             SendCompleteFailed, CompletePop, SendAbort, SendAbortFailed
        <5> QED
          BY <2>5, <4>1, <5>1
      <4>3. ASSUME NEW t \in Threads, Start(t)
            PROVE call'[s] = call[s] \/ \E v \in registry : call'[s].up = v
        <5>1. \/ call' = call
              \/ \E x : Goto(t, x) /\ (x.pc # "encrypt" \/ x.up \in registry)
          <6>1. ASSUME NEW v \in Uploads, NEW p \in 0..MaxPart, NEW last \in BOOLEAN,
                       NEW body \in Bodies, UploadPart(t, v, p, last, body)
                PROVE  \E x : Goto(t, x) /\ (x.pc # "encrypt" \/ x.up \in registry)
            BY <6>1 DEF UploadPart
          <6>2. ASSUME NEW v \in Uploads, NEW listed \in SUBSET Acked(v),
                       CompleteMultipartUpload(t, v, listed)
                PROVE  \E x : Goto(t, x) /\ (x.pc # "encrypt" \/ x.up \in registry)
            BY <6>2 DEF CompleteMultipartUpload
          <6>3. ASSUME NEW v \in Uploads, AbortMultipartUpload(t, v)
                PROVE  \E x : Goto(t, x) /\ (x.pc # "encrypt" \/ x.up \in registry)
            BY <6>3 DEF AbortMultipartUpload
          <6> QED
            BY <4>3, <6>1, <6>2, <6>3 DEF Start, CreateMultipartUpload,
                                          CreateMultipartUploadLost
        <5> QED
          BY <2>5, <4>1, <5>1
      <4> QED
        BY <1>1, <4>2, <4>3 DEF Next, vars
    <3> QED
      BY <1>1, <2>5, <3>1 DEF Unreachable
  <2> QED
    BY <2>2, <2>3, <2>4, <2>5 DEF Unreachable
<1>2. TypeOK /\ [Next]_vars =>
        [\A u \in Uploads : Unreachable(u) => Unreachable(u)' /\ out'[u] = out[u]]_vars
  BY <1>1
<1> QED
  BY <1>2, TypeCorrect, PTL DEF Spec, DroppedPipelineIsDead

-----------------------------------------------------------------------------
(* Refinement *)

\* The published positions, the abstract variable "object".
Published == [u \in Uploads |-> {s3object[u][p] : p \in S3Part} \ {NoCt}]

\* No upload begun is the empty log, unsealed and unpublished.
LEMMA RefinesInit == Init => Sealed!Init
<1> SUFFICES ASSUME Init PROVE Sealed!Init
  OBVIOUS
<1>1. \A u \in Uploads : {s3object[u][p] : p \in S3Part} \ {NoCt} = {}
  BY DEF Init, NoParts
<1>2. [u \in Uploads |-> {s3object[u][p] : p \in S3Part} \ {NoCt}] = [u \in Uploads |-> {}]
  BY <1>1
<1> QED
  BY <1>2 DEF Init, Sealed!Init

\* encrypt_part appends to or seals the log, a completion publishes it, and
\* every other step leaves the log as it is.
LEMMA RefinesNext == IInv /\ [Next]_vars => [Sealed!Next]_(Sealed!vars)
<1> SUFFICES ASSUME IInv, [Next]_vars PROVE [Sealed!Next]_(Sealed!vars)
  OBVIOUS
<1> USE DEF NoCt
<1>0. TypeOK /\ \A u \in Uploads : CipherInv(u) /\ StoreInv(u)
  BY DEF IInv
<1>1. ASSUME NEW t \in Threads, EncryptPart(t) PROVE [Sealed!Next]_(Sealed!vars)
  <2> DEFINE c == call[t]
             u == c.up
  <2>1. /\ u \in Uploads /\ c.part \in 0..MaxPart /\ c.last \in BOOLEAN
        /\ c.part = next_part[u] /\ ~final_seen[u]
    BY <1>0, <1>1, CallCases DEF TypeOK, EncryptPart, EncryptCall, InSequence
  <2>2. final_seen' = [final_seen EXCEPT ![u] = c.last]
    <3>1. (final_seen[u] \/ c.last) = c.last
      BY <2>1
    <3> QED
      BY <1>1, <2>1, <3>1 DEF EncryptPart
  <2>3. \A i \in 1..Len(out[u]) : out[u][i].part < c.part
    BY <1>0, <2>1 DEF CipherInv
  <2>4. /\ out' = [out EXCEPT ![u] = Append(@, [part |-> c.part, tagged |-> c.last])]
        /\ s3object' = s3object
    BY <1>1 DEF EncryptPart, s3
  <2>5. Sealed!Write(u, c.part, c.last)
    BY <2>1, <2>2, <2>3, <2>4 DEF Sealed!Write
  <2> QED
    BY <2>1, <2>5 DEF Sealed!Next
<1>2. ASSUME NEW t \in Threads, SendComplete(t) \/ SendCompleteLost(t)
      PROVE  [Sealed!Next]_(Sealed!vars)
  <2> DEFINE c == call[t]
             u == c.up
             S == {c.etags[p] : p \in S3Part} \ {0}
  <2>1. c \in Call /\ CallInv(c) /\ c.pc = "complete" /\ S3Complete(c)
    BY <1>0, <1>2 DEF IInv, TypeOK, SendComplete, SendCompleteLost
  <2>2. u \in Uploads /\ c.etags \in [S3Part -> Nat]
    BY <2>1, CallCases DEF ListCall
  <2>3. final_seen[u] /\ \A p \in S3Part : c.etags[p] # 0 => c.etags[p] \in 1..Len(out[u])
    BY <2>1 DEF CallInv, Names
  <2>4. S \in SUBSET (1..Len(out[u])) /\ S # {}
    BY <2>1, <2>3 DEF S3Complete
  <2>5. Published[u] = {}
    <3>1. \A p \in S3Part : s3object[u][p] = 0
      BY <1>0, <2>1, <2>2 DEF StoreInv, S3Complete
    <3> QED
      BY <2>2, <3>1 DEF Published
  <2>6. s3object' = [s3object EXCEPT ![u] = c.etags]
    BY <2>1 DEF S3Complete
  <2>7. Published' = [Published EXCEPT ![u] = S]
    <3>1. /\ s3object'[u] = c.etags
          /\ \A v \in Uploads : v # u => s3object'[v] = s3object[v]
      BY <1>0, <2>2, <2>6 DEF TypeOK
    <3>2. ASSUME NEW v \in Uploads PROVE Published'[v] = [Published EXCEPT ![u] = S][v]
      BY <2>2, <3>1 DEF Published
    <3> QED
      BY <3>2 DEF Published
  <2>8. out' = out /\ final_seen' = final_seen
    BY <1>2 DEF SendComplete, SendCompleteLost, pipeline
  <2>9. \A v \in Uploads : \A T \in SUBSET (1..Len(out[v])) :
          v = u /\ T = S => Sealed!Publish(v, T)
    BY <2>3, <2>4, <2>5, <2>7, <2>8 DEF Sealed!Publish, Published
  <2> QED
    BY <2>2, <2>4, <2>9 DEF Sealed!Next
<1>3. ASSUME UNCHANGED <<out, final_seen, s3object>> PROVE UNCHANGED Sealed!vars
  BY <1>3 DEF Sealed!vars
<1> QED
  <2>1. \/ UNCHANGED <<out, final_seen>> \/ \E t \in Threads : EncryptPart(t)
    BY PipelineMoves DEF pipeline, EncryptPartRaises
  <2>2. \/ UNCHANGED s3object
        \/ \E t \in Threads : SendComplete(t) \/ SendCompleteLost(t)
    BY StoreMoves DEF s3, CreateMultipartUpload, CreateMultipartUploadLost, SendPart,
                      SendPartLost, SendAbort
  <2> QED
    BY <1>1, <1>2, <1>3, <2>1, <2>2

\* The client with its threads, retries and failing requests implements the
\* sealed upload: parts are only added, in order and before the tag, and the
\* object is published once, after it.
THEOREM Refinement == Spec => ImplementsSealedUpload
BY RefinesInit, RefinesNext, Inductive, PTL DEF Spec, Sealed!Spec, ImplementsSealedUpload
=============================================================================
