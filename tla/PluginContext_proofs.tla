------------------------ MODULE PluginContext_proofs ------------------------
(***************************************************************************)
(* Proofs about PluginContext for any number of threads and calls.         *)
(***************************************************************************)
EXTENDS PluginContext, SequenceTheorems, TLAPS

-----------------------------------------------------------------------------
(* Stacks *)

LEMMA Topped ==
  ASSUME NEW S, NEW s \in Seq(S), Len(s) \in {1, 2}
  PROVE  /\ Last(s) = s[Len(s)] /\ Last(s) \in S
         /\ Front(s) \in Seq(S)
         /\ Len(Front(s)) = Len(s) - 1
         /\ Len(s) = 2 => Front(s)[1] = s[1]
<1>1. Last(s) = s[Len(s)] /\ Last(s) \in S
  BY DEF Last
<1>2. Front(s) = SubSeq(s, 1, Len(s) - 1)
  BY DEF Front
<1>3. 1 \in Int /\ Len(s) - 1 \in Int /\ \A i \in 1..(Len(s) - 1) : s[i] \in S
  OBVIOUS
<1>4. /\ SubSeq(s, 1, Len(s) - 1) \in Seq(S)
      /\ Len(SubSeq(s, 1, Len(s) - 1)) = IF 1 <= Len(s) - 1 THEN Len(s) - 1 - 1 + 1 ELSE 0
      /\ \A i \in 1..(Len(s) - 1 - 1 + 1) : SubSeq(s, 1, Len(s) - 1)[i] = s[1 + i - 1]
  BY <1>3, SubSeqProperties
<1>5. CASE Len(s) = 1
  BY <1>1, <1>2, <1>4, <1>5
<1>6. CASE Len(s) = 2
  <2>1. SubSeq(s, 1, Len(s) - 1)[1] = s[1]
    BY <1>4, <1>6
  <2> QED BY <1>1, <1>2, <1>4, <1>6, <2>1
<1> QED BY <1>5, <1>6

\* A new call on a stack, and a new top of one.
LEMMA Pushed ==
  ASSUME NEW S, NEW s \in Seq(S), NEW e \in S
  PROVE  /\ Append(s, e) \in Seq(S)
         /\ Len(Append(s, e)) = Len(s) + 1
         /\ Append(s, e)[Len(s) + 1] = e
         /\ \A i \in 1..Len(s) : Append(s, e)[i] = s[i]
BY AppendProperties

LEMMA Replaced ==
  ASSUME NEW S, NEW s \in Seq(S), Len(s) \in {1, 2}, NEW e \in S
  PROVE  /\ Append(Front(s), e) \in Seq(S)
         /\ Len(Append(Front(s), e)) = Len(s)
         /\ Append(Front(s), e)[Len(s)] = e
         /\ Len(s) = 2 => Append(Front(s), e)[1] = s[1]
<1>1. Front(s) \in Seq(S) /\ Len(Front(s)) = Len(s) - 1 /\ (Len(s) = 2 => Front(s)[1] = s[1])
  BY Topped
<1>2. /\ Append(Front(s), e) \in Seq(S)
      /\ Len(Append(Front(s), e)) = Len(Front(s)) + 1
      /\ Append(Front(s), e)[Len(Front(s)) + 1] = e
      /\ \A i \in 1..Len(Front(s)) : Append(Front(s), e)[i] = Front(s)[i]
  BY <1>1, Pushed
<1> QED BY <1>1, <1>2

-----------------------------------------------------------------------------
(* Steps *)

\* A step of a thread leaves the attributes and calls of the others alone.
LEMMA OneThread ==
  ASSUME IInv, NEW t \in Threads, NEW a \in Attributes, NEW s \in Seq(CallRecord),
         local' = [local EXCEPT ![t] = a], stack' = [stack EXCEPT ![t] = s],
         calls' \in 0..MaxCalls, ThreadInv(a, s)
  PROVE  IInv'
<1>1. TypeOK'
  BY DEF IInv, TypeOK
<1>2. ASSUME NEW u \in Threads PROVE ThreadInv(local'[u], stack'[u])
  <2>1. CASE u = t
    <3>1. local'[u] = a /\ stack'[u] = s
      BY <2>1 DEF IInv, TypeOK
    <3> QED BY <3>1
  <2>2. CASE u # t
    <3>1. local'[u] = local[u] /\ stack'[u] = stack[u]
      BY <2>2 DEF IInv, TypeOK
    <3> QED BY <3>1 DEF IInv
  <2> QED BY <2>1, <2>2
<1> QED BY <1>1, <1>2 DEF IInv, ThreadInv, InCall, InFetch, Between, Arguments, IsPut

\* The same where the attributes stay as they are.
LEMMA OneThreadStack ==
  ASSUME IInv, NEW t \in Threads, NEW s \in Seq(CallRecord),
         local' = local, stack' = [stack EXCEPT ![t] = s],
         calls' \in 0..MaxCalls, ThreadInv(local[t], s)
  PROVE  IInv'
<1>1. local[t] \in Attributes /\ local' = [local EXCEPT ![t] = local[t]]
  BY DEF IInv, TypeOK
<1> QED BY <1>1, OneThread

\* A step replaces the call that a thread is in.
LEMMA OneCall ==
  ASSUME IInv, NEW t \in Threads, NEW f \in CallRecord, Len(stack[t]) \in {1, 2},
         local' = local, calls' = calls, Become(t, f),
         Len(stack[t]) = 1 => InCall(local[t], f),
         Len(stack[t]) = 2 => InFetch(local[t], stack[t][1], f)
  PROVE  IInv'
<1> DEFINE s == Append(Front(stack[t]), f)
<1>1. stack[t] \in Seq(CallRecord)
  BY DEF IInv, TypeOK
<1>2. /\ s \in Seq(CallRecord)
      /\ Len(s) = Len(stack[t])
      /\ s[Len(stack[t])] = f
      /\ Len(stack[t]) = 2 => s[1] = stack[t][1]
  BY <1>1, Replaced
<1>3. stack' = [stack EXCEPT ![t] = s]
  BY DEF Become, IInv, TypeOK
<1>4. ThreadInv(local[t], s)
  <2>1. CASE Len(stack[t]) = 1
    BY <2>1, <1>2 DEF ThreadInv
  <2>2. CASE Len(stack[t]) = 2
    BY <2>2, <1>2 DEF ThreadInv
  <2> QED BY <2>1, <2>2
<1>5. calls' \in 0..MaxCalls
  BY DEF IInv, TypeOK
<1> HIDE DEF s
<1> QED BY <1>2, <1>3, <1>4, <1>5, OneThreadStack

\* The same where the thread is in that call alone.
LEMMA OnlyCall ==
  ASSUME IInv, NEW t \in Threads, NEW f \in CallRecord, Len(stack[t]) = 1,
         local' = local, calls' = calls, Become(t, f), InCall(local[t], f)
  PROVE  IInv'
<1>1. Len(stack[t]) \in {1, 2} /\ Len(stack[t]) # 2
  OBVIOUS
<1> QED BY <1>1, OneCall

\* A thread that is inside a call has one or two of them on its stack.
LEMMA Inside ==
  ASSUME IInv, NEW t \in Threads, stack[t] # <<>>
  PROVE  /\ Len(stack[t]) \in {1, 2}
         /\ stack[t] \in Seq(CallRecord)
         /\ Top(t) = stack[t][Len(stack[t])] /\ Top(t) \in CallRecord
         /\ local[t] \in Attributes
         /\ Len(stack[t]) = 1 => InCall(local[t], Top(t))
         /\ Len(stack[t]) = 2 => InFetch(local[t], stack[t][1], Top(t))
<1>1. stack[t] \in Seq(CallRecord) /\ local[t] \in Attributes
  BY DEF IInv, TypeOK
<1>2. Len(stack[t]) # 0
  BY <1>1, EmptySeq
<1>3. ThreadInv(local[t], stack[t])
  BY DEF IInv
<1>4. Len(stack[t]) \in {1, 2}
  BY <1>2, <1>3 DEF ThreadInv
<1>5. Top(t) = stack[t][Len(stack[t])] /\ Top(t) \in CallRecord
  BY <1>1, <1>4, Topped DEF Top
<1> QED BY <1>1, <1>3, <1>4, <1>5 DEF ThreadInv

LEMMA RaiseInv ==
  ASSUME IInv, NEW t \in Threads, Raise(t) PROVE IInv'
<1> DEFINE f == [Top(t) EXCEPT !.pc = "raised"]
<1>1. /\ Len(stack[t]) \in {1, 2} /\ Top(t) \in CallRecord
      /\ Len(stack[t]) = 1 => InCall(local[t], Top(t))
      /\ Len(stack[t]) = 2 => InFetch(local[t], stack[t][1], Top(t))
  BY Inside DEF Raise
<1>2. f \in CallRecord
  BY <1>1 DEF CallRecord
<1>3. Len(stack[t]) = 1 => InCall(local[t], f)
  BY <1>1 DEF InCall, CallRecord, Arguments, IsPut
<1>4. Len(stack[t]) = 2 => InFetch(local[t], stack[t][1], f)
  BY <1>1 DEF InFetch, CallRecord
<1>5. Become(t, f) /\ local' = local /\ calls' = calls
  BY DEF Raise
<1> HIDE DEF f
<1> QED BY <1>1, <1>2, <1>3, <1>4, <1>5, OneCall

\* Beginning a call: the stack is empty.
LEMMA BeginInv ==
  ASSUME IInv, NEW t \in Threads, MayCall(t),
         NEW a \in Attributes, NEW f \in CallRecord,
         Set(t, a), Push(t, f), Between(local[t]) => InCall(a, f)
  PROVE  IInv'
<1>1. stack[t] = <<>>
  BY DEF MayCall
<1>2. stack[t] \in Seq(CallRecord) /\ Len(stack[t]) = 0
  BY <1>1, EmptySeq DEF IInv, TypeOK
<1>3. Between(local[t])
  BY <1>2 DEF IInv, ThreadInv
<1> DEFINE s == Append(stack[t], f)
<1>4. s \in Seq(CallRecord) /\ Len(s) = 1 /\ s[1] = f
  BY <1>2, Pushed
<1>5. ThreadInv(a, s)
  BY <1>3, <1>4 DEF ThreadInv
<1>6. calls' \in 0..MaxCalls
  BY MaxCallsAssumption DEF MayCall, IInv, TypeOK
<1>7. local' = [local EXCEPT ![t] = a] /\ stack' = [stack EXCEPT ![t] = s]
  BY DEF Set, Push, Own
<1> HIDE DEF s
<1> QED BY <1>4, <1>5, <1>6, <1>7, OneThread

LEMMA PutObjectInv ==
  ASSUME IInv, NEW t \in Threads, NEW ctx \in Contexts \cup {None},
         PutObject(t, ctx)
  PROVE  IInv'
<1> DEFINE a == [local[t] EXCEPT !.encryption_context = ctx]
           f == Call("put", ctx, None, None)
<1>1. local[t] \in Attributes
  BY DEF IInv, TypeOK
<1>2. a \in Attributes
  BY <1>1 DEF Attributes
<1>3. f \in CallRecord
  BY DEF Call, CallRecord, Ops
<1>4. Between(local[t]) => InCall(a, f)
  BY <1>1 DEF Between, InCall, Call, NoAttributes, Attributes, IsPut, Arguments
<1>5. MayCall(t) /\ Set(t, a) /\ Push(t, f)
  BY DEF PutObject, Own
<1> HIDE DEF a, f
<1> QED BY <1>2, <1>3, <1>4, <1>5, BeginInv

LEMMA GetObjectInv ==
  ASSUME IInv, NEW t \in Threads, NEW ctx \in Contexts \cup {None},
         NEW key \in Keys, NEW suffix \in FileSuffixes \cup {Default},
         GetObject(t, ctx, key, suffix)
  PROVE  IInv'
<1> DEFINE a == [local[t] EXCEPT !.encryption_context = ctx, !.key = key,
                   !.instruction_file_suffix = suffix, !.s3_client = "wrapped"]
           f == Call("get", ctx, key, suffix)
<1>1. local[t] \in Attributes
  BY DEF IInv, TypeOK
<1>2. a \in Attributes
  BY <1>1 DEF Attributes
<1>3. f \in CallRecord
  BY DEF Call, CallRecord, Ops
<1>4. Between(local[t]) => InCall(a, f)
  BY <1>1 DEF Between, InCall, Call, NoAttributes, Attributes, IsPut, Arguments
<1>5. MayCall(t) /\ Set(t, a) /\ Push(t, f)
  BY DEF GetObject, Own
<1> HIDE DEF a, f
<1> QED BY <1>2, <1>3, <1>4, <1>5, BeginInv

LEMMA WrappedInv ==
  ASSUME IInv, NEW t \in Threads, NEW op \in {"wrapped_put", "wrapped_get"},
         NEW key \in Keys \cup {None}, MayCall(t), Push(t, Call(op, None, key, None)),
         local' = local
  PROVE  IInv'
<1> DEFINE f == Call(op, None, key, None)
<1>1. local[t] \in Attributes /\ Set(t, local[t])
  BY DEF IInv, TypeOK, Set, Own
<1>2. f \in CallRecord
  BY DEF Call, CallRecord, Ops
<1>3. Between(local[t]) => InCall(local[t], f)
  BY <1>1 DEF Between, InCall, Call, NoAttributes, Attributes, IsPut, Arguments
<1> HIDE DEF f
<1> QED BY <1>1, <1>2, <1>3, BeginInv DEF f

LEMMA BeforeCallInv ==
  ASSUME IInv, NEW t \in Threads, BeforeCall(t) PROVE IInv'
<1> DEFINE f == [Top(t) EXCEPT !.pc = "reading"]
<1>1. /\ Len(stack[t]) \in {1, 2} /\ Top(t) \in CallRecord
      /\ Len(stack[t]) = 1 => InCall(local[t], Top(t))
      /\ Len(stack[t]) = 2 => InFetch(local[t], stack[t][1], Top(t))
  BY Inside DEF BeforeCall
<1>2. Len(stack[t]) = 1 /\ ~local[t].instruction_file_mode
  BY <1>1 DEF BeforeCall, InFetch, InCall, IsPut
<1>3. f \in CallRecord
  BY <1>1 DEF CallRecord
<1>4. InCall(local[t], f)
  BY <1>1, <1>2 DEF InCall, CallRecord, Arguments, IsPut, BeforeCall
<1>5. Become(t, f) /\ local' = local /\ calls' = calls
  BY <1>2 DEF BeforeCall, Own
<1> HIDE DEF f
<1> QED BY <1>2, <1>3, <1>4, <1>5, OneCall

LEMMA EncryptInv ==
  ASSUME IInv, NEW t \in Threads, Encrypt(t) PROVE IInv'
<1>1. /\ Len(stack[t]) \in {1, 2} /\ Top(t) \in CallRecord /\ local[t] \in Attributes
      /\ Len(stack[t]) = 1 => InCall(local[t], Top(t))
      /\ Len(stack[t]) = 2 => InFetch(local[t], stack[t][1], Top(t))
  BY Inside DEF Encrypt
<1>2. Len(stack[t]) = 1 /\ Top(t).pc = "reading"
  BY <1>1 DEF Encrypt, InFetch
<1>3. PICK pc \in {"done", "raised"} :
        Become(t, [Top(t) EXCEPT !.pc = pc, !.as = "object",
                     !.seen = <<local[t].encryption_context>>])
  BY DEF Encrypt, Own
<1> DEFINE f == [Top(t) EXCEPT !.pc = pc, !.as = "object",
                   !.seen = <<local[t].encryption_context>>]
<1>4. f \in CallRecord
  <2>1. local[t].encryption_context \in Values
    BY <1>1 DEF Attributes, Values
  <2>2. <<local[t].encryption_context>> \in Seq(Values)
    BY <2>1
  <2> QED BY <1>1, <2>2 DEF CallRecord
<1>5. <<local[t].encryption_context>> = Arguments(Top(t))
  BY <1>1, <1>2 DEF InCall, IsPut, Arguments
<1>6. InCall(local[t], f)
  BY <1>1, <1>2, <1>5 DEF InCall, CallRecord, Arguments, IsPut
<1>7. Become(t, f) /\ local' = local /\ calls' = calls
  BY <1>3 DEF Encrypt
<1> HIDE DEF f
<1> QED BY <1>2, <1>4, <1>6, <1>7, OnlyCall

LEMMA ProcessInstructionFileInv ==
  ASSUME IInv, NEW t \in Threads, ProcessInstructionFile(t) PROVE IInv'
<1>1. /\ Len(stack[t]) \in {1, 2} /\ Top(t) \in CallRecord
      /\ Len(stack[t]) = 1 => InCall(local[t], Top(t))
      /\ Len(stack[t]) = 2 => InFetch(local[t], stack[t][1], Top(t))
  BY Inside DEF ProcessInstructionFile, Answered
<1>2. Len(stack[t]) = 2
  BY <1>1 DEF ProcessInstructionFile, InCall, Own
<1>3. PICK pc \in {"done", "raised"} : Become(t, [Top(t) EXCEPT !.pc = pc, !.as = "file"])
  BY DEF ProcessInstructionFile
<1> DEFINE f == [Top(t) EXCEPT !.pc = pc, !.as = "file"]
<1>4. f \in CallRecord
  BY <1>1 DEF CallRecord
<1>5. InFetch(local[t], stack[t][1], f)
  BY <1>1, <1>2 DEF InFetch, CallRecord
<1>6. Become(t, f) /\ local' = local /\ calls' = calls
  BY <1>3 DEF ProcessInstructionFile
<1> HIDE DEF f
<1> QED BY <1>2, <1>4, <1>5, <1>6, OneCall

\* What the handler of an object passes to the pipeline is of the right kind,
\* and the arguments of the call.
LEMMA SeenArguments ==
  ASSUME IInv, NEW t \in Threads, Answered(t), ~local[t].instruction_file_mode
  PROVE  /\ Len(stack[t]) = 1 /\ Top(t) \in CallRecord /\ local[t] \in Attributes
         /\ stack[t] \in Seq(CallRecord) /\ InCall(local[t], Top(t))
         /\ Top(t).op \in {"get", "wrapped_get"} /\ Top(t).pc = "begun"
         /\ Seen(t) \in Seq(Values)
         /\ Seen(t) = Arguments(Top(t))
<1>1. /\ Len(stack[t]) \in {1, 2} /\ Top(t) \in CallRecord /\ local[t] \in Attributes
      /\ stack[t] \in Seq(CallRecord)
      /\ Len(stack[t]) = 1 => InCall(local[t], Top(t))
      /\ Len(stack[t]) = 2 => InFetch(local[t], stack[t][1], Top(t))
  BY Inside DEF Answered
<1>2. Len(stack[t]) = 1
  BY <1>1 DEF InFetch
<1>3. Top(t).op \in {"get", "wrapped_get"} /\ Top(t).pc = "begun"
  BY <1>1, <1>2 DEF Answered, IsPut, InCall, CallRecord, Ops
<1> DEFINE c == local[t].encryption_context
           k == local[t].key
           x == IF local[t].instruction_file_suffix = None
                THEN Default ELSE local[t].instruction_file_suffix
<1>4. Seen(t) = <<c, k, x>>
  BY DEF Seen, Own
<1>5. c \in Values /\ k \in Values /\ x \in Values
  BY <1>1 DEF Attributes, Values
<1>6. <<c, k, x>> \in Seq(Values)
  BY <1>5
<1>7. <<c, k, x>> = Arguments(Top(t))
  BY <1>1, <1>2, <1>3, SuffixAssumption DEF InCall, Arguments
<1> QED BY <1>1, <1>2, <1>3, <1>4, <1>6, <1>7

LEMMA ObjectHandledInv ==
  ASSUME IInv, NEW t \in Threads, DecryptObject(t) \/ FetchRefused(t) PROVE IInv'
<1>1. Answered(t) /\ ~local[t].instruction_file_mode /\ local' = local /\ calls' = calls
  BY DEF DecryptObject, FetchRefused, Own
<1>2. PICK pc \in {"done", "raised"} :
        Become(t, [Top(t) EXCEPT !.pc = pc, !.as = "object", !.seen = Seen(t)])
  BY DEF DecryptObject, FetchRefused
<1> DEFINE f == [Top(t) EXCEPT !.pc = pc, !.as = "object", !.seen = Seen(t)]
<1>3. /\ Len(stack[t]) = 1 /\ Top(t) \in CallRecord /\ InCall(local[t], Top(t))
      /\ Top(t).op \in {"get", "wrapped_get"}
      /\ Seen(t) \in Seq(Values) /\ Seen(t) = Arguments(Top(t))
  BY <1>1, SeenArguments
<1>4. f \in CallRecord
  BY <1>3 DEF CallRecord
<1>5. Arguments(f) = Arguments(Top(t))
  BY <1>3 DEF Arguments, CallRecord
<1>6. InCall(local[t], f)
  BY <1>3, <1>5 DEF InCall, CallRecord, IsPut
<1>7. Become(t, f) /\ local' = local /\ calls' = calls
  BY <1>1, <1>2
<1>8. Len(stack[t]) = 1
  BY <1>3
<1> HIDE DEF f
<1> QED BY <1>4, <1>6, <1>7, <1>8, OnlyCall

LEMMA FetchInstructionFileInv ==
  ASSUME IInv, NEW t \in Threads, FetchInstructionFile(t) PROVE IInv'
<1> DEFINE key == <<local[t].key, Seen(t)[3]>>
           g == [Top(t) EXCEPT !.pc = "fetching", !.as = "object", !.seen = Seen(t)]
           f == Call("fetch", None, key, None)
           a == [local[t] EXCEPT !.instruction_file_mode = TRUE, !.key = key]
           s == Append(Append(Front(stack[t]), g), f)
<1>1. Answered(t) /\ ~local[t].instruction_file_mode /\ CanFetch(t) /\ calls' = calls
  BY DEF FetchInstructionFile, Own
<1>2. /\ Len(stack[t]) = 1 /\ Top(t) \in CallRecord /\ local[t] \in Attributes
      /\ stack[t] \in Seq(CallRecord) /\ InCall(local[t], Top(t))
      /\ Top(t).op \in {"get", "wrapped_get"} /\ Top(t).pc = "begun"
      /\ Seen(t) \in Seq(Values) /\ Seen(t) = Arguments(Top(t))
  BY <1>1, SeenArguments
<1>3. Top(t).op = "get"
  BY <1>1, <1>2 DEF InCall, CanFetch, Own
<1>4. /\ Top(t).key \in Keys /\ Top(t).suffix \in FileSuffixes \cup {Default}
      /\ local[t].key = Top(t).key
  BY <1>2, <1>3 DEF InCall
<1>5. Seen(t)[3] = Top(t).suffix
  BY <1>2, <1>3 DEF Arguments
<1>6. key = <<Top(t).key, Top(t).suffix>> /\ key \in InstructionKeys
  BY <1>4, <1>5 DEF InstructionKeys
<1>7. f \in CallRecord
  BY <1>6 DEF Call, CallRecord, Ops
<1>8. g \in CallRecord
  BY <1>2 DEF CallRecord
<1>9. a \in Attributes
  BY <1>2, <1>6 DEF Attributes
<1>10. InFetch(a, g, f)
  <2>1. g.op = "get" /\ g.pc = "fetching" /\ g.as = "object" /\ g.seen = Seen(t)
        /\ g.key = Top(t).key /\ g.suffix = Top(t).suffix /\ g.ctx = Top(t).ctx
    BY <1>2, <1>3 DEF CallRecord
  <2>2. Arguments(g) = Arguments(Top(t))
    BY <2>1, <1>3 DEF Arguments
  <2>3. a.instruction_file_mode
    BY <1>2 DEF Attributes
  <2>4. f.op = "fetch" /\ f.pc = "begun" /\ f.as = "none" /\ f.seen = <<>> /\ f.key = key
    BY DEF Call
  <2> HIDE DEF a, g, f, key
  <2> QED BY <1>2, <1>4, <1>6, <2>1, <2>2, <2>3, <2>4 DEF InFetch
<1>11. s \in Seq(CallRecord) /\ Len(s) = 2 /\ s[1] = g /\ s[2] = f
  <2> HIDE DEF g, f
  <2>1. /\ Append(Front(stack[t]), g) \in Seq(CallRecord)
        /\ Len(Append(Front(stack[t]), g)) = 1 /\ Append(Front(stack[t]), g)[1] = g
    BY <1>2, <1>8, Replaced
  <2> QED BY <1>7, <2>1, Pushed
<1>12. local' = [local EXCEPT ![t] = a] /\ stack' = [stack EXCEPT ![t] = s]
  BY DEF FetchInstructionFile, Set, Own
<1>13. calls' \in 0..MaxCalls
  BY <1>1 DEF IInv, TypeOK
<1> HIDE DEF s, a, g, f, key
<1>14. ThreadInv(a, s)
  BY <1>10, <1>11 DEF ThreadInv
<1> QED BY <1>9, <1>11, <1>12, <1>13, <1>14, OneThread

LEMMA ReturnInv ==
  ASSUME IInv, NEW t \in Threads, Return(t) PROVE IInv'
<1>1. /\ Len(stack[t]) \in {1, 2} /\ Top(t) \in CallRecord /\ local[t] \in Attributes
      /\ stack[t] \in Seq(CallRecord) /\ Top(t) = stack[t][Len(stack[t])]
      /\ Len(stack[t]) = 1 => InCall(local[t], Top(t))
      /\ Len(stack[t]) = 2 => InFetch(local[t], stack[t][1], Top(t))
  BY Inside DEF Return
<1>2. calls' \in 0..MaxCalls
  BY DEF Return, IInv, TypeOK
<1> DEFINE a == Finally(t, Top(t))
           s == Front(stack[t])
<1>3. a \in Attributes
  BY <1>1 DEF Finally, Attributes, Own
<1>4. s \in Seq(CallRecord) /\ Len(s) = Len(stack[t]) - 1 /\ (Len(stack[t]) = 2 => s[1] = stack[t][1])
  BY <1>1, Topped
<1>5. local' = [local EXCEPT ![t] = a]
  BY DEF Return, Set, Own
<1>6. CASE Len(stack[t]) = 1
  <2>1. InCall(local[t], Top(t)) /\ Top(t).op # "fetch"
    BY <1>1, <1>6 DEF InCall
  <2>2. stack' = [stack EXCEPT ![t] = s]
    BY <2>1 DEF Return
  <2>3. Between(a)
    BY <1>1, <2>1 DEF Between, InCall, Finally, NoAttributes, Attributes, CallRecord, Ops, Own
  <2> HIDE DEF a, s
  <2>4. ThreadInv(a, s)
    BY <1>4, <1>6, <2>3 DEF ThreadInv
  <2> QED BY <1>2, <1>3, <1>4, <1>5, <2>2, <2>4, OneThread
<1>7. CASE Len(stack[t]) = 2
  <2>1. InFetch(local[t], stack[t][1], Top(t)) /\ Top(t).op = "fetch"
    BY <1>1, <1>7 DEF InFetch
  <2>2. PICK pc \in {"done", "raised"} :
          stack' = [stack EXCEPT ![t] = Append(Front(s), [Last(s) EXCEPT !.pc = pc])]
    BY <2>1 DEF Return, Outcomes
  <2>3. Last(s) = stack[t][1] /\ Last(s) \in CallRecord
    BY <1>4, <1>7, Topped
  <2> DEFINE g == [Last(s) EXCEPT !.pc = pc]
             r == Append(Front(s), g)
  <2>4. g \in CallRecord
    BY <2>3 DEF CallRecord
  <2>5. r \in Seq(CallRecord) /\ Len(r) = 1 /\ r[1] = g
    <3> HIDE DEF g, s
    <3> QED BY <1>4, <1>7, <2>4, Replaced
  <2>6. InCall(a, g)
    <3>1. ~a.instruction_file_mode
      BY <1>1, <2>1 DEF Finally, Attributes, Own
    <3>2. /\ g.op = "get" /\ g.pc \in {"done", "raised"} /\ g.as = "object"
          /\ g.seen = Arguments(g) /\ g.key \in Keys /\ g.suffix \in FileSuffixes \cup {Default}
      BY <2>1, <2>3 DEF InFetch, CallRecord, Arguments
    <3> HIDE DEF a, g
    <3> QED BY <3>1, <3>2 DEF InCall
  <2>7. stack' = [stack EXCEPT ![t] = r]
    BY <2>2
  <2> HIDE DEF a, s, g, r
  <2>8. ThreadInv(a, r)
    BY <2>5, <2>6 DEF ThreadInv
  <2> QED BY <1>2, <1>3, <1>5, <2>5, <2>7, <2>8, OneThread
<1> QED BY <1>1, <1>6, <1>7

-----------------------------------------------------------------------------
(* The theorems *)

LEMMA InitInv == Init => IInv
<1> SUFFICES ASSUME Init PROVE IInv
  OBVIOUS
<1>1. NoAttributes \in Attributes
  BY DEF NoAttributes, Attributes
<1>2. TypeOK
  BY <1>1, MaxCallsAssumption DEF Init, TypeOK
<1>3. ASSUME NEW t \in Threads PROVE ThreadInv(local[t], stack[t])
  BY DEF Init, ThreadInv, Between, NoAttributes
<1> QED BY <1>2, <1>3 DEF IInv

LEMMA NextInv ==
  ASSUME IInv, [Next]_vars PROVE IInv'
<1>1. CASE UNCHANGED vars
  <2>1. local' = local /\ stack' = stack /\ calls' = calls
    BY <1>1 DEF vars
  <2>2. \A t \in Threads : ThreadInv(local'[t], stack'[t])
    BY <2>1 DEF IInv
  <2>3. TypeOK'
    BY <2>1 DEF IInv, TypeOK
  <2> QED BY <2>2, <2>3 DEF IInv, ThreadInv, InCall, InFetch, Between, Arguments, IsPut
<1>2. ASSUME NEW t \in Threads, NEW ctx \in Contexts \cup {None}, PutObject(t, ctx) PROVE IInv'
  BY <1>2, PutObjectInv
<1>3. ASSUME NEW t \in Threads, NEW ctx \in Contexts \cup {None}, NEW key \in Keys,
             NEW suffix \in FileSuffixes \cup {Default}, GetObject(t, ctx, key, suffix)
      PROVE IInv'
  BY <1>3, GetObjectInv
<1>4. ASSUME NEW t \in Threads, WrappedPut(t) PROVE IInv'
  BY <1>4, WrappedInv DEF WrappedPut
<1>5. ASSUME NEW t \in Threads, NEW key \in Keys, WrappedGet(t, key) PROVE IInv'
  BY <1>5, WrappedInv DEF WrappedGet
<1>6. ASSUME NEW t \in Threads, Step(t) PROVE IInv'
  BY <1>6, BeforeCallInv, EncryptInv, RaiseInv, ProcessInstructionFileInv, ObjectHandledInv,
     FetchInstructionFileInv, ReturnInv DEF Step
<1> QED BY <1>1, <1>2, <1>3, <1>4, <1>5, <1>6 DEF Next

\* Every reachable state satisfies the inductive invariant: a thread is in no
\* call, in one call whose arguments its attributes are, or in a get_object
\* and the fetch of its instruction file.
THEOREM Invariance == Spec => []IInv
<1>1. Init => IInv
  BY InitInv
<1>2. IInv /\ [Next]_vars => IInv'
  BY NextInv
<1> QED BY <1>1, <1>2, PTL DEF Spec

\* The handlers see the arguments of their own call (threading.local, the
\* assignments of put_object and get_object and their finally clauses).
THEOREM CallIsolation == Spec => []HandlersSeeTheirCall
<1>1. IInv => HandlersSeeTheirCall
  BY DEF IInv, ThreadInv, InCall, InFetch, HandlersSeeTheirCall
<1> QED BY <1>1, Invariance, PTL

\* Only the nested get_object of fetch_instruction_file is handled as the
\* read of an instruction file, and it always is.
THEOREM PlainFetches == Spec => []OnlyFetchesArePlain
<1>1. IInv => OnlyFetchesArePlain
  <2> SUFFICES ASSUME IInv, NEW t \in Threads, NEW i \in 1..Len(stack[t]), stack[t][i].as # "none"
               PROVE  stack[t][i].as = "file" <=> stack[t][i].op = "fetch"
    BY DEF OnlyFetchesArePlain
  <2>1. stack[t] \in Seq(CallRecord) /\ stack[t][i] \in CallRecord
    BY DEF IInv, TypeOK
  <2>2. stack[t][i].as \in {"file", "object"}
    BY <2>1 DEF CallRecord
  <2>3. ThreadInv(local[t], stack[t])
    BY DEF IInv
  <2>4. CASE Len(stack[t]) = 1
    BY <2>2, <2>3, <2>4 DEF ThreadInv, InCall
  <2>5. CASE Len(stack[t]) = 2
    BY <2>1, <2>2, <2>3, <2>5 DEF ThreadInv, InFetch
  <2> QED BY <2>1, <2>3, <2>4, <2>5 DEF ThreadInv
<1> QED BY <1>1, Invariance, PTL

\* fetch_instruction_file asks for the file of the object that get_object was
\* called for, under the suffix it was given, and is never nested.
THEOREM OwnFile == Spec => []FetchesOwnFile
<1>1. IInv => FetchesOwnFile
  BY DEF IInv, ThreadInv, InCall, InFetch, FetchesOwnFile
<1> QED BY <1>1, Invariance, PTL

\* Nothing of a call is left in a thread's attributes once it has ended.
THEOREM CleanBetweenCalls == Spec => []NothingLeftBehind
<1>1. IInv => NothingLeftBehind
  <2> SUFFICES ASSUME IInv, NEW t \in Threads, stack[t] = <<>>
               PROVE  Between(local[t])
    BY DEF NothingLeftBehind
  <2>1. Len(stack[t]) = 0
    BY EmptySeq
  <2> QED BY <2>1 DEF IInv, ThreadInv
<1> QED BY <1>1, Invariance, PTL
=============================================================================
