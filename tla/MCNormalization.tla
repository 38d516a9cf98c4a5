-------------------------- MODULE MCNormalization --------------------------
(* The instance of Normalization for TLC is all in its .cfg file.           *)
EXTENDS Normalization
=============================================================================
