--------------------------- MODULE MCController ---------------------------
(* Instances of Controller for TLC.                                        *)
EXTENDS Controller

CONSTANTS a, b, c, x, y

\* b is the same package as a, notified again from a watched directory.
SharedIds == [p \in Pkgs |-> IF p = c THEN y ELSE x]
=============================================================================
