-------------------------------- MODULE Wire --------------------------------
(***************************************************************************)
(* What the client half and the server half of a tunnel share: the two     *)
(* roommates (the two HTTP sockets of one Chaser) and the life of one HTTP *)
(* exchange on a socket.  A request is key + serial + body and a reply is  *)
(* body + serial; the key is left out, a body is the number of the chunk   *)
(* it carries (chunks are numbered in the order in which they were read    *)
(* from the TCP connection), and NoChunk is a body of length zero.         *)
(*                                                                         *)
(* An exchange is "idle" before the POST, "sent" while the request is on   *)
(* its way (in the network, in the packetHandler or in the muxer),         *)
(* "parked" while a LongPoller holds it in its waiters, "replied" once the *)
(* reply is on its way back, and "gone" when the client has given up on a  *)
(* request that a LongPoller still holds.                                  *)
(***************************************************************************)
EXTENDS Integers

Roommate == {"alpha", "beta"}

Other(r) == IF r = "alpha" THEN "beta" ELSE "alpha"

NoChunk  == 0
NoSerial == -1   \* the serial of every empty request and of every empty reply

Exchange(Chunk) ==
  [st : {"idle", "sent", "parked", "replied", "gone"},
   ser : {NoSerial} \cup (Nat \ {0}),
   body : Chunk \cup {NoChunk}]

Idle == [st |-> "idle", ser |-> NoSerial, body |-> NoChunk]

Request(ser, body) == [st |-> "sent", ser |-> ser, body |-> body]

Reply(ser, body) == [st |-> "replied", ser |-> ser, body |-> body]

Gone == [st |-> "gone", ser |-> NoSerial, body |-> NoChunk]

Held(e) == [st |-> "parked", ser |-> e.ser, body |-> e.body]
=============================================================================
