---------------------------- MODULE MCFileChecks ----------------------------
(* The instance of FileChecks for TLC is all in its .cfg file.              *)
EXTENDS FileChecks
=============================================================================
