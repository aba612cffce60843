------------------------------- MODULE MCConnRW -------------------------------
(***************************************************************************)
(* ConnRW on a small instance: three buffers from the peer, so that one    *)
(* can meet a full channel and another follow it; two buffers to the peer, *)
(* of two units each with room for one in the kernel, so that a write is   *)
(* cut in two; channels of one.                                            *)
(***************************************************************************)
EXTENDS ConnRW
===============================================================================
