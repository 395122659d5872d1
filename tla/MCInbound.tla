----------------------------- MODULE MCInbound -----------------------------
(* A small instance of Inbound: one chat, one key with two texts. *)
EXTENDS Inbound

CONSTANTS chat, key, text, other

MCChatOf == [m \in Messages |-> chat]
MCRequests == {[key |-> key, text |-> text], [key |-> key, text |-> other],
               [key |-> NoKey, text |-> text]}
============================================================================
