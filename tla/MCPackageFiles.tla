--------------------------- MODULE MCPackageFiles ---------------------------
(* Instances of PackageFiles for TLC.                                      *)
EXTENDS PackageFiles, TLC

N(base, form) == [base |-> base, form |-> form, num |-> 0, ext |-> 0]

\* "a b", "a?b" and "a_b" side by side; a package in a directory to rename;
\* a package with another one in it, and hidden and unneeded files; a package
\* whose unneeded file is named like another one will be; "e" with an accent,
\* composed and not, beside a directory and in a package.
MCReceived ==
  {<<N("a", 0)>> :> "c1" @@ <<N("a", 1)>> :> "c2" @@ <<N("a", 2)>> :> "c3",
   <<N("d", 1), N("p", 0)>> :> "zip" @@ <<N("a", 0)>> :> "c1",
   <<N("p", 1)>> :> "nest" @@ <<N(".h", 0)>> :> "c4",
   <<N("p", 0)>> :> "zip" @@ <<N("q", 0)>> :> "zip2",
   <<N("p", 0)>> :> "like",
   <<N("e", 1)>> :> "c1" @@ <<N("e", 2)>> :> "c2" @@ <<N("d", 1), N("a", 1)>> :> "c3",
   <<N("p", 0)>> :> "twins"}

MCComposed == N("e", 2) :> N("e", 1)

MCMembers ==
  "zip" :> (N("x", 1) :> "c5" @@ N("Thumbs.db", 0) :> "c6")
  @@ "zip2" :> (N("y", 0) :> "c7")
  @@ "nest" :> (N("p", 0) :> "zip2")
  @@ "like" :> (N("q", 0) :> "zip2" @@ N("Thumbs.db", 0) :> "c8" @@ N("Thumbs.db", 1) :> "c9")
  @@ "twins" :> (N("e", 1) :> "c5" @@ N("e", 2) :> "zip2")
=============================================================================
