---------------------------- MODULE MCLongPoller ----------------------------
(***************************************************************************)
(* LongPoller on small instances.  Safety is checked with three chunks, so *)
(* that a request can be stored while two more come before its turn, and   *)
(* two buffers from downstream; liveness with two chunks and one buffer,   *)
(* where every order of arrival of two requests is there.                  *)
(***************************************************************************)
EXTENDS LongPoller
=============================================================================
