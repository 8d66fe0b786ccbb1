------------------------------ MODULE MCNetchan ------------------------------
(***************************************************************************)
(* Netchan on a small instance: fragments of two bytes, messages below, at *)
(* and above every fragment boundary up to MAX_MSGLEN, with two messages   *)
(* of the same length told apart by their bytes.                           *)
(***************************************************************************)
EXTENDS Netchan

CONSTANTS a, b

\* Message instance.
MCMessage == {<<a>>, <<a, a>>, <<b, b>>, <<a, b, a>>, <<b, a, a, b>>}
=============================================================================
