--------------------------------- MODULE Pipe ---------------------------------
(***************************************************************************)
(* What one direction of a connection promises: chunks that are fed into   *)
(* it come out in the order in which they were fed, each at most once, and *)
(* none is left out; at most Capacity are on their way.  Nothing is said   *)
(* of an end: a pipe may stop at any time with chunks still in it.         *)
(***************************************************************************)
EXTENDS Naturals, Sequences

CONSTANT Capacity

VARIABLES
  fed,   \* how many chunks went in: chunk n is the n-th
  got    \* the chunks that came out

Init == fed = 0 /\ got = <<>>

Feed ==
  /\ fed - Len(got) < Capacity
  /\ fed' = fed + 1
  /\ UNCHANGED got

Take ==
  /\ Len(got) < fed
  /\ got' = Append(got, Len(got) + 1)
  /\ UNCHANGED fed

Spec == Init /\ [][Feed \/ Take]_<<fed, got>>
===============================================================================
