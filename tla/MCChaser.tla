------------------------------ MODULE MCChaser ------------------------------
(***************************************************************************)
(* Chaser on a small instance, and the property about the order of what    *)
(* has been handed to the upstream client, which needs the sequence        *)
(* operators of the community modules.                                     *)
(***************************************************************************)
EXTENDS Chaser, SequencesExt

\* The replies reach the upstream client in the order of their serial numbers,
\* which is the order in which the server read them: what the serials and
\* misorderedReplies are there for.
RepliesInOrder == FlattenSeq(delivered) = [i \in 1..Len(FlattenSeq(delivered)) |-> i]
=============================================================================
