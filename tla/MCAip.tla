-------------------------------- MODULE MCAip --------------------------------
(* Instances of Aip for TLC.                                               *)
EXTENDS Aip

CONSTANTS f1, f2, g1, m0, d1, nowhere

Id(b, c) == [of |-> b, complete |-> c]

\* Identifiers for rows and for none; an incomplete one before a complete one.
SomeDeclarations ==
  {<<Id(Sip, TRUE), Id(nowhere, TRUE), Id(f1, TRUE)>>, <<Id(d1, FALSE), Id(f1, TRUE)>>}

\* f2 is derived from f1 or the other way round; a Derivation may be missing.
SomeSources ==
  {[f \in Files |-> IF f = f2 THEN f1 ELSE f], [f \in Files |-> IF f = f1 THEN f2 ELSE f],
   [f \in Files |-> IF f = f2 THEN "lost" ELSE f]}

\* The METS of the earlier ingest describes f1, or neither of them.
SomeKnown == {{}, {f1}}
=============================================================================
