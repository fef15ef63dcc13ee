----------------------------- MODULE MCCapcurld -----------------------------
(***************************************************************************)
(* Three clients, one of which may idle: with descriptors for no more than *)
(* a mint beside it, for a request beside it, and for all.                 *)
(***************************************************************************)
EXTENDS Capcurld

CONSTANTS ann, bob, sloth
=============================================================================
