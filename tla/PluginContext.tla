--------------------------- MODULE PluginContext ---------------------------
(***************************************************************************)
(* The event handlers of S3EncryptionClientPlugin and the thread-local     *)
(* attributes through which put_object and get_object pass them their      *)
(* arguments, with the nested get_object that fetches an instruction file. *)
(*                                                                         *)
(* boto3 calls the handlers of the plugin for every put_object and         *)
(* get_object of the wrapped client, those that callers make on it         *)
(* directly too.  Each thread has a stack of calls.  What is encrypted and *)
(* what an object holds is left to EncryptedObject: here S3 and KMS just   *)
(* succeed or fail.  The bucket is set and cleared together with the key.  *)
(* A Body whose read calls the client is not modelled.                     *)
(***************************************************************************)
EXTENDS Naturals, Sequences, SequencesExt

CONSTANTS
  Threads,
  Contexts,     \* encryption contexts callers pass
  Keys,         \* S3 keys
  FileSuffixes, \* instruction file suffixes callers pass
  MaxCalls      \* bound: how many calls there are

CONSTANTS None, Default   \* no value, and the suffix ".instruction"

ASSUME MaxCallsAssumption == MaxCalls \in Nat
ASSUME SuffixAssumption == None \notin FileSuffixes \cup {Default}

VARIABLES
  local,    \* the attributes of the plugin's threading.local()
  stack,    \* each thread's calls in progress, the innermost last
  calls     \* how many calls have begun

vars == <<local, stack, calls>>

\* An attribute that was deleted reads as its default, None.
NoAttributes == [encryption_context |-> None, key |-> None, instruction_file_suffix |-> None,
                 s3_client |-> None, instruction_file_mode |-> FALSE]

\* One object shared by all threads (mutant).
Own_shared(t) == CHOOSE u \in Threads : TRUE

\* threading.local(): each thread has attributes of its own.
Own(t) == t

Set(t, attributes) == local' = [local EXCEPT ![Own(t)] = attributes]

-----------------------------------------------------------------------------
(* Calls *)

Ops == {"put", "get",                    \* of the S3EncryptionClient
        "wrapped_put", "wrapped_get",    \* of the wrapped client itself
        "fetch"}                         \* of the wrapped client, by the handler

\* A call: its arguments, where it is, and what its handler took it for and
\* read from the attributes.
Call(op, ctx, key, suffix) ==
  [op |-> op, ctx |-> ctx, key |-> key, suffix |-> suffix, pc |-> "begun",
   as |-> "none", seen |-> <<>>]

Top(t) == Last(stack[t])
Push(t, f) == stack' = [stack EXCEPT ![t] = Append(@, f)]
Become(t, f) == stack' = [stack EXCEPT ![t] = Append(Front(@), f)]

\* A caller makes one call after the other.
MayCall(t) == stack[t] = <<>> /\ calls < MaxCalls /\ calls' = calls + 1

PutObject(t, ctx) ==
  /\ MayCall(t)
  /\ Set(t, [local[Own(t)] EXCEPT !.encryption_context = ctx])
  /\ Push(t, Call("put", ctx, None, None))

GetObject(t, ctx, key, suffix) ==
  /\ MayCall(t)
  /\ Set(t, [local[Own(t)] EXCEPT !.encryption_context = ctx, !.key = key,
               !.instruction_file_suffix = suffix, !.s3_client = "wrapped"])
  /\ Push(t, Call("get", ctx, key, suffix))

\* Callers reach the wrapped client directly or through __getattr__.
WrappedPut(t) ==
  MayCall(t) /\ Push(t, Call("wrapped_put", None, None, None)) /\ UNCHANGED local

WrappedGet(t, key) ==
  MayCall(t) /\ Push(t, Call("wrapped_get", None, key, None)) /\ UNCHANGED local

IsPut(f) == f.op \in {"put", "wrapped_put"}

\* The request fails before a handler is called, or the handler raises.
Raise(t) ==
  /\ stack[t] # <<>> /\ Top(t).pc \in {"begun", "reading"}
  /\ Become(t, [Top(t) EXCEPT !.pc = "raised"])
  /\ UNCHANGED <<local, calls>>

-----------------------------------------------------------------------------
(* on_put_object_before_call *)

BeforeCall(t) ==
  /\ stack[t] # <<>> /\ Top(t).pc = "begun" /\ IsPut(Top(t))
  /\ Become(t, IF local[Own(t)].instruction_file_mode
               THEN [Top(t) EXCEPT !.pc = "raised", !.as = "file"]
               ELSE [Top(t) EXCEPT !.pc = "reading"])
  /\ UNCHANGED <<local, calls>>

\* The body is read; only now are the attributes.
Encrypt(t) ==
  /\ stack[t] # <<>> /\ Top(t).pc = "reading"
  /\ \E pc \in {"done", "raised"} :
       Become(t, [Top(t) EXCEPT !.pc = pc, !.as = "object",
                    !.seen = <<local[Own(t)].encryption_context>>])
  /\ UNCHANGED <<local, calls>>

-----------------------------------------------------------------------------
(* on_get_object_after_call *)

Answered(t) == stack[t] # <<>> /\ Top(t).pc = "begun" /\ ~IsPut(Top(t))

\* process_instruction_file parses the body, if there is a good one.
ProcessInstructionFile(t) ==
  /\ Answered(t) /\ local[Own(t)].instruction_file_mode
  /\ \E pc \in {"done", "raised"} : Become(t, [Top(t) EXCEPT !.pc = pc, !.as = "file"])
  /\ UNCHANGED <<local, calls>>

\* The suffix the caller gave is not looked at (mutant).
Seen_default(t) ==
  LET a == local[Own(t)] IN <<a.encryption_context, a.key, Default>>

\* The attributes the handler passes to the pipeline.
Seen(t) ==
  LET a == local[Own(t)] IN
  <<a.encryption_context, a.key,
    IF a.instruction_file_suffix = None THEN Default ELSE a.instruction_file_suffix>>

\* The object has all its metadata, or has no body or is refused.
DecryptObject(t) ==
  /\ Answered(t) /\ ~local[Own(t)].instruction_file_mode
  /\ \E pc \in {"done", "raised"} :
       Become(t, [Top(t) EXCEPT !.pc = pc, !.as = "object", !.seen = Seen(t)])
  /\ UNCHANGED <<local, calls>>

CanFetch(t) == local[Own(t)].s3_client # None /\ local[Own(t)].key # None

\* The fetch is left in decryption mode (mutant).
FetchInstructionFile_unmarked(t) ==
  LET instruction_key == <<local[Own(t)].key, Seen(t)[3]>>
      outer == [Top(t) EXCEPT !.pc = "fetching", !.as = "object", !.seen = Seen(t)]
  IN
  /\ Answered(t) /\ ~local[Own(t)].instruction_file_mode /\ CanFetch(t)
  /\ Set(t, [local[Own(t)] EXCEPT !.key = instruction_key])
  /\ stack' = [stack EXCEPT ![t] =
       Append(Append(Front(@), outer), Call("fetch", None, instruction_key, None))]
  /\ UNCHANGED calls

\* The metadata is in an instruction file: fetch_instruction_file marks the
\* thread's attributes and calls the wrapped client's get_object.
FetchInstructionFile(t) ==
  LET instruction_key == <<local[Own(t)].key, Seen(t)[3]>>
      outer == [Top(t) EXCEPT !.pc = "fetching", !.as = "object", !.seen = Seen(t)]
  IN
  /\ Answered(t) /\ ~local[Own(t)].instruction_file_mode /\ CanFetch(t)
  /\ Set(t, [local[Own(t)] EXCEPT !.instruction_file_mode = TRUE, !.key = instruction_key])
  /\ stack' = [stack EXCEPT ![t] =
       Append(Append(Front(@), outer), Call("fetch", None, instruction_key, None))]
  /\ UNCHANGED calls

\* Without client or key there is nothing to fetch.
FetchRefused(t) ==
  /\ Answered(t) /\ ~local[Own(t)].instruction_file_mode /\ ~CanFetch(t)
  /\ Become(t, [Top(t) EXCEPT !.pc = "raised", !.as = "object", !.seen = Seen(t)])
  /\ UNCHANGED <<local, calls>>

-----------------------------------------------------------------------------
(* The end of a call *)

\* The mode is cleared only after a fetch that succeeds (mutant).
Finally_success(t, f) ==
  LET a == local[Own(t)] IN
  CASE f.op = "put" -> [a EXCEPT !.encryption_context = None]
    [] f.op = "get" -> [a EXCEPT !.encryption_context = None, !.key = None,
                                 !.instruction_file_suffix = None]
    [] f.op = "fetch" -> [a EXCEPT !.instruction_file_mode = @ /\ f.pc = "raised"]
    [] OTHER -> a

\* The finally clauses of put_object, get_object and fetch_instruction_file.
Finally(t, f) ==
  LET a == local[Own(t)] IN
  CASE f.op = "put" -> [a EXCEPT !.encryption_context = None]
    [] f.op = "get" -> [a EXCEPT !.encryption_context = None, !.key = None,
                                 !.instruction_file_suffix = None]
    [] f.op = "fetch" -> [a EXCEPT !.instruction_file_mode = FALSE]
    [] OTHER -> a

\* The error of a fetch is swallowed and its answer waited for (mutant).
Outcomes_swallowed(f) == IF f.pc = "done" THEN {"done", "raised"} ELSE {"fetching"}

\* How the decryption around a fetch goes on.
Outcomes(f) == IF f.pc = "done" THEN {"done", "raised"} ELSE {"raised"}

Return(t) ==
  LET f == Top(t)
      below == Front(stack[t])
  IN
  /\ stack[t] # <<>> /\ f.pc \in {"done", "raised"}
  /\ Set(t, Finally(t, f))
  /\ IF f.op = "fetch"
     THEN \E pc \in Outcomes(f) :
            stack' = [stack EXCEPT ![t] = Append(Front(below), [Last(below) EXCEPT !.pc = pc])]
     ELSE stack' = [stack EXCEPT ![t] = below]
  /\ UNCHANGED calls

-----------------------------------------------------------------------------
Init ==
  /\ local = [t \in Threads |-> NoAttributes]
  /\ stack = [t \in Threads |-> <<>>]
  /\ calls = 0

Step(t) ==
  \/ BeforeCall(t) \/ Encrypt(t) \/ Raise(t)
  \/ ProcessInstructionFile(t) \/ DecryptObject(t)
  \/ FetchInstructionFile(t) \/ FetchRefused(t)
  \/ Return(t)

Next ==
  \E t \in Threads :
    \/ \E ctx \in Contexts \cup {None} : PutObject(t, ctx)
    \/ \E ctx \in Contexts \cup {None}, key \in Keys, suffix \in FileSuffixes \cup {Default} :
         GetObject(t, ctx, key, suffix)
    \/ WrappedPut(t)
    \/ \E key \in Keys : WrappedGet(t, key)
    \/ Step(t)

\* A thread that is inside a call goes on.
Fairness == \A t \in Threads : WF_vars(Step(t))

Spec == Init /\ [][Next]_vars /\ Fairness

-----------------------------------------------------------------------------
(* Properties *)

InstructionKeys == Keys \X (FileSuffixes \cup {Default})

Attributes ==
  [encryption_context: Contexts \cup {None},
   key: Keys \cup InstructionKeys \cup {None},
   instruction_file_suffix: FileSuffixes \cup {Default, None},
   s3_client: {"wrapped", None},
   instruction_file_mode: BOOLEAN]

Values == Contexts \cup Keys \cup InstructionKeys \cup FileSuffixes \cup {Default, None}

CallRecord ==
  [op: Ops, ctx: Contexts \cup {None}, key: Keys \cup InstructionKeys \cup {None},
   suffix: FileSuffixes \cup {Default, None},
   pc: {"begun", "reading", "fetching", "done", "raised"},
   as: {"none", "file", "object"}, seen: Seq(Values)]

TypeOK ==
  /\ calls \in 0..MaxCalls
  /\ local \in [Threads -> Attributes]
  /\ stack \in [Threads -> Seq(CallRecord)]

\* What a handler has to work with: the arguments of the call it handles, and
\* none for a call of the wrapped client.
Arguments(f) ==
  CASE f.op = "put" -> <<f.ctx>>
    [] f.op = "get" -> <<f.ctx, f.key, f.suffix>>
    [] f.op = "wrapped_put" -> <<None>>
    [] f.op = "wrapped_get" -> <<None, None, Default>>

\* The handlers work with the arguments of the very call they handle, never
\* with those of another thread's call or of one that ended before, however
\* it ended.
HandlersSeeTheirCall ==
  \A t \in Threads : \A i \in 1..Len(stack[t]) :
    LET f == stack[t][i] IN f.seen # <<>> => f.seen = Arguments(f)

\* Exactly the nested fetch is taken for an instruction file: it is not
\* decrypted, and no object is handed over undecrypted or refused as one.
OnlyFetchesArePlain ==
  \A t \in Threads : \A i \in 1..Len(stack[t]) :
    LET f == stack[t][i] IN f.as # "none" => (f.as = "file" <=> f.op = "fetch")

\* The instruction file that is fetched is that of the object asked for.
FetchesOwnFile ==
  \A t \in Threads : \A i \in 1..Len(stack[t]) :
    stack[t][i].op = "fetch" =>
      /\ i = 2 /\ stack[t][1].op = "get"
      /\ stack[t][i].key = <<stack[t][1].key, stack[t][1].suffix>>

Between(a) ==
  /\ a.encryption_context = None /\ a.key = None /\ a.instruction_file_suffix = None
  /\ ~a.instruction_file_mode

\* Between calls a thread's attributes hold nothing of a call, whichever way
\* the last one ended; only the client is kept.
NothingLeftBehind ==
  \A t \in Threads : stack[t] = <<>> => Between(local[t])

\* Every call ends: the fetch of an instruction file does not start another.
EveryCallEnds == \A t \in Threads : stack[t] # <<>> ~> stack[t] = <<>>

-----------------------------------------------------------------------------
(* An inductive invariant: a thread is in no call, in one, or in a          *)
(* get_object and its fetch.                                                *)

\* The attributes a of a thread that is in the call f alone: until a handler
\* is done with it they are its arguments, and none of any other call.
InCall(a, f) ==
  /\ f.op # "fetch" /\ f.pc # "fetching"
  /\ f.pc = "reading" => IsPut(f)
  /\ f.as # "file"
  /\ f.seen # <<>> => f.seen = Arguments(f)
  /\ ~a.instruction_file_mode
  /\ f.op \in {"wrapped_put", "wrapped_get"} => a.encryption_context = None
  /\ f.op \in {"put", "get"} /\ f.pc \in {"begun", "reading"} => a.encryption_context = f.ctx
  /\ f.op # "get" => a.key = None /\ a.instruction_file_suffix = None
  /\ f.op = "get" =>
       /\ f.key \in Keys /\ f.suffix \in FileSuffixes \cup {Default}
       /\ f.pc = "begun" => a.key = f.key /\ a.instruction_file_suffix = f.suffix

\* The attributes of a thread that fetches, in f, the instruction file for g.
InFetch(a, g, f) ==
  /\ g.op = "get" /\ g.pc = "fetching" /\ g.as = "object" /\ g.seen = Arguments(g)
  /\ g.key \in Keys /\ g.suffix \in FileSuffixes \cup {Default}
  /\ f.op = "fetch" /\ f.pc \in {"begun", "done", "raised"} /\ f.as # "object" /\ f.seen = <<>>
  /\ f.key = <<g.key, g.suffix>>
  /\ a.instruction_file_mode

ThreadInv(a, s) ==
  \/ Len(s) = 0 /\ Between(a)
  \/ Len(s) = 1 /\ InCall(a, s[1])
  \/ Len(s) = 2 /\ InFetch(a, s[1], s[2])

IInv == TypeOK /\ \A t \in Threads : ThreadInv(local[t], stack[t])
=============================================================================
