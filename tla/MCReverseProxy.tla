---------------------------- MODULE MCReverseProxy ----------------------------
(***************************************************************************)
(* ReverseProxy with two keys and three requests: enough for two tunnels   *)
(* and a packet for one of them, or for one tunnel with two packets, or    *)
(* with a packet and a request to close it, and each with a Stop at any    *)
(* moment.                                                                 *)
(***************************************************************************)
EXTENDS ReverseProxy
===============================================================================
