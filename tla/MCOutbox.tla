------------------------------- MODULE MCOutbox -------------------------------
(***************************************************************************)
(* Model-checking instance of Outbox.  The MCOutbox*.cfg files give the    *)
(* constants; nothing of the specification is replaced.                    *)
(***************************************************************************)
EXTENDS Outbox
==============================================================================
