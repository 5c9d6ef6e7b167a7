------------------------------ MODULE MCCaster ------------------------------
(***************************************************************************)
(* Two connections at one address.  Queues of two messages: with three     *)
(* messages each of them can refuse one, be drained and hold others again. *)
(* No symmetry: the run checks liveness too.                               *)
(***************************************************************************)
EXTENDS Caster

CONSTANTS c1, c2, lan

MCClients == {c1, c2}
MCAddresses == {lan}
=============================================================================
