---------------------------- MODULE ReplyChunks ----------------------------
(***************************************************************************)
(* splitChunks: a reply is cut into pieces a platform accepts, at the last *)
(* newline of the second half of each window if there is one.  A character *)
(* is a newline or not; one step is one turn of the loop.                  *)
(***************************************************************************)
EXTENDS Integers, SequencesExt

CONSTANTS
  Limit,    \* characters a platform takes in one message
  MaxLength \* bound: characters of a reply

VARIABLES text, rest, out

vars == <<text, rest, out>>

Newline == "\n"

\* Mutant: the cut leaves the newline out of both pieces' reach.
CutBeyond(runes) ==
  LET breaks == {i \in 1..Limit : i > Limit \div 2 /\ runes[i] = Newline}
  IN  IF breaks = {} THEN Limit ELSE Max(breaks) + 1

\* Where the window is cut, counting characters kept.
Cut(runes) ==
  LET breaks == {i \in 1..Limit : i > Limit \div 2 /\ runes[i] = Newline}
  IN  IF breaks = {} THEN Limit ELSE Max(breaks)

Split ==
  /\ Len(rest) > Limit
  /\ out' = Append(out, SubSeq(rest, 1, Cut(rest)))
  /\ rest' = SubSeq(rest, Cut(rest) + 1, Len(rest))
  /\ UNCHANGED text

\* The remainder, which may be the whole of a short text.
LastChunk ==
  /\ Len(rest) <= Limit
  /\ rest = <<>> => out = <<>>
  /\ out' = Append(out, rest) /\ rest' = <<>>
  /\ UNCHANGED text

Init ==
  /\ text \in UNION {[1..n -> {"x", Newline}] : n \in 0..MaxLength}
  /\ rest = text /\ out = <<>>

ChunksDone == rest = <<>> /\ out # <<>> /\ UNCHANGED vars

Next == Split \/ LastChunk \/ ChunksDone

Spec == Init /\ [][Next]_vars

-----------------------------------------------------------------------------
(* Properties *)

\* splitChunks: the pieces put together are the reply, none is longer than the
\* platform takes, none but that of an empty reply is empty, and a paragraph is
\* torn only if no newline stood in the second half of its window.
ChunksAreTheReply ==
  /\ FlattenSeq(out) \o rest = text
  /\ \A i \in DOMAIN out :
       /\ Len(out[i]) \in (IF text = <<>> THEN {0} ELSE 1..Limit)
       /\ i < Len(out) /\ Last(out[i]) # Newline =>
            \A k \in Limit \div 2 + 1..Len(out[i]) : out[i][k] # Newline
=============================================================================
