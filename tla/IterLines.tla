------------------------------ MODULE IterLines ------------------------------
(***************************************************************************)
(* DecryptingStream.iter_lines: the lines of a plaintext that arrives in   *)
(* chunks of any size, from a stream that may raise at any chunk.  How a   *)
(* chunk comes about is DecryptingStream's matter: cut anywhere, a CR LF   *)
(* in the middle too, because GCM holds back a tag and CBC a block.        *)
(***************************************************************************)
EXTENDS Naturals, Sequences, FiniteSets, SequencesExt

CONSTANT MaxLen   \* bound: the longest plaintext

ASSUME MaxLenAssumption == MaxLen \in Nat

CR == "\r"
LF == "\n"
Byte == {"x", CR, LF}   \* x stands for every byte that ends no line

VARIABLES
  text,      \* the plaintext
  keepends,  \* iter_lines' argument
  pos,       \* how much of it has been read
  pending,   \* iter_lines' local: the line that may go on in the next chunk
  yielded,   \* the lines yielded so far
  outcome    \* "none", or how the generator ended

vars == <<text, keepends, pos, pending, yielded, outcome>>

-----------------------------------------------------------------------------
(* bytes.splitlines (external: Python) *)

\* Where the lines of s end: at each LF, each CR no LF follows, and at the end.
LineEnds(s) ==
  {i \in 1..Len(s) : i = Len(s) \/ s[i] = LF \/ (s[i] = CR /\ s[i + 1] # LF)}

\* How many lines of s have ended at position i.
Ended(s, i) == Cardinality({e \in LineEnds(s) : e <= i})

\* Where the jth line of s ends.
LineEnd(s, j) == IF j = 0 THEN 0 ELSE CHOOSE e \in LineEnds(s) : Ended(s, e) = j

\* splitlines(True): the pieces between one end and the next.
SplitLines(s) ==
  [j \in 1..Ended(s, Len(s)) |-> SubSeq(s, LineEnd(s, j - 1) + 1, LineEnd(s, j))]

\* A line without its end.
WithoutEnd(l) == SelectSeq(l, LAMBDA b : b \notin {CR, LF})

\* line.splitlines(keepends)[0]: the line with or without its end.
Line(l) == IF keepends THEN l ELSE WithoutEnd(l)

Lines(ls) == [j \in 1..Len(ls) |-> Line(ls[j])]

-----------------------------------------------------------------------------
(* iter_lines *)

\* The last line of a chunk is complete if it has an end (mutant).
Chunk_eager(k) ==
  LET lines == SplitLines(pending \o SubSeq(text, pos + 1, pos + k))
      whole == IF Last(Last(lines)) \in {CR, LF} THEN lines ELSE Front(lines)
  IN
  /\ outcome = "none" /\ pos + k <= Len(text)
  /\ yielded' = yielded \o Lines(whole)
  /\ pending' = IF whole = lines THEN <<>> ELSE Last(lines)
  /\ pos' = pos + k
  /\ UNCHANGED <<text, keepends, outcome>>

\* A chunk of k bytes: all lines in it but the last are complete.
Chunk(k) ==
  LET lines == SplitLines(pending \o SubSeq(text, pos + 1, pos + k)) IN
  /\ outcome = "none" /\ pos + k <= Len(text)
  /\ yielded' = yielded \o Lines(Front(lines))
  /\ pending' = Last(lines)
  /\ pos' = pos + k
  /\ UNCHANGED <<text, keepends, outcome>>

\* What is left over is dropped (mutant).
EndOfStream_drops ==
  /\ outcome = "none" /\ pos = Len(text)
  /\ outcome' = "ended"
  /\ UNCHANGED <<text, keepends, pos, pending, yielded>>

\* An empty chunk ends the loop; what is left over is the last line.
EndOfStream ==
  /\ outcome = "none" /\ pos = Len(text)
  /\ yielded' = IF pending # <<>> THEN Append(yielded, Line(pending)) ELSE yielded
  /\ outcome' = "ended"
  /\ UNCHANGED <<text, keepends, pos, pending>>

\* read raises: so does the generator, and what is left over is not yielded.
ReadRaises ==
  /\ outcome = "none"
  /\ outcome' = "raised"
  /\ UNCHANGED <<text, keepends, pos, pending, yielded>>

-----------------------------------------------------------------------------
Init ==
  /\ text \in BoundedSeq(Byte, MaxLen)
  /\ keepends \in BOOLEAN
  /\ pos = 0 /\ pending = <<>> /\ yielded = <<>> /\ outcome = "none"

Next == (\E k \in 1..MaxLen : Chunk(k)) \/ EndOfStream \/ ReadRaises

Spec == Init /\ [][Next]_vars

-----------------------------------------------------------------------------
(* Properties *)

\* Whatever the chunks, what is yielded are lines of the plaintext, in order,
\* none cut short by the end of a chunk or by an exception.
YieldsLinesOnly == IsPrefix(yielded, Lines(SplitLines(text)))

\* A generator that ends without an exception has yielded all of them.
YieldsAllLines == outcome = "ended" => yielded = Lines(SplitLines(text))

-----------------------------------------------------------------------------
(* The inductive invariant *)

TypeOK ==
  /\ text \in Seq(Byte) /\ keepends \in BOOLEAN /\ pos \in 0..Len(text)
  /\ outcome \in {"none", "ended", "raised"}

\* What is pending reaches from the end of the last line yielded to where the
\* plaintext is read, is not empty once anything is read, and no line ends in
\* it but possibly at its last byte: there a CR may be half of an end.
PendingInv ==
  LET b == LineEnd(text, Len(yielded)) IN
  outcome = "none" =>
    /\ pending = SubSeq(text, b + 1, pos)
    /\ b <= pos /\ (pos > 0 => b < pos)
    /\ \A e \in LineEnds(text) : b < e => pos <= e

\* What is yielded are the first lines of the plaintext.
YieldedInv ==
  \E k \in 0..Ended(text, Len(text)) : yielded = SubSeq(Lines(SplitLines(text)), 1, k)

IInv == TypeOK /\ YieldedInv /\ YieldsAllLines /\ PendingInv
=============================================================================
