--------------------------- MODULE MCJobIterator ---------------------------
(* Instances of JobIterator for TLC: small workflows.                      *)
EXTENDS JobIterator, TLC

CONSTANTS c1, c2, c3, filter, extract, remember, approve, auto, stale, level, format, upload,
          resume, store, reject, i1, i2, v

Exit(link) == 0 :> [link |-> link, step |-> "complete"]
None == [c \in {} |-> Nil]

Entry(kind, exits, fallback, end, target, choices, preset) ==
  [kind |-> kind, exits |-> exits, fallback |-> fallback, fallbackStep |-> "failed", end |-> end,
   var |-> v, target |-> target, choices |-> choices, preset |-> preset, settings |-> FALSE]

\* A transfer chain that asks for approval and, after a script that failed, takes
\* a preconfigured choice the workflow does not have, or ends; an ingest chain
\* that resumes at the link the first one remembered, starts over when it did not
\* yet, and after a failure sets a variable that has a value and no link; a chain
\* that starts with a choice none of whose chains is left.
Workflow == [l \in Links |->
  CASE l = extract  -> Entry("client",
                           Exit(remember) @@ 2 :> [link |-> reject, step |-> "failed"], auto, FALSE, Nil, {}, Nil)
    [] l = remember -> Entry("set", Exit(approve), Nil, FALSE, store, {}, Nil)
    [] l = approve  -> Entry("choice", None, Nil, FALSE, Nil, {c2, c3}, Nil)
    [] l = auto     -> Entry("choice", None, Nil, FALSE, Nil, {c2, c3}, Unknown)
    [] l = stale    -> Entry("choice", None, Nil, FALSE, Nil, {}, c2)
    [] l = filter   -> Entry("set", Exit(store), Nil, FALSE, Nil, {}, Nil)
    [] l = level    -> Entry("context", None, resume, FALSE, Nil, {}, Nil)
    [] l = format   -> Entry("context", None, upload, FALSE, Nil, {}, c2)
    [] l = upload   -> [Entry("context", None, resume, FALSE, Nil, {}, Nil) EXCEPT !.settings = TRUE]
    [] l = resume   -> Entry("get", None, Nil, FALSE, Nil, {}, Nil)
    [] l = store    -> Entry("client", Exit(Nil), filter, TRUE, Nil, {}, Nil)
    [] l = reject   -> Entry("client", Exit(Nil), Nil, FALSE, Nil, {}, Nil)]

FirstLink == c1 :> extract @@ c2 :> level @@ c3 :> stale

\* The first iterator starts at the transfer chain, the second at the ingest
\* chain, whose directory the package was moved to, and bypasses its first link.
TwoStarts == i1 :> c1 @@ i2 :> c2
Bypass == [i \in Iterators |-> IF i = i2 THEN format ELSE Nil]
=============================================================================
