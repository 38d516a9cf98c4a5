-------------------------- MODULE PackageLifecycle --------------------------
(***************************************************************************)
(* What the controller promises to those who hand it packages, without its *)
(* lists, mutex, ticker and errgroup.  Packages are served in the order in *)
(* which they arrive, each one once, by a fixed number of slots.  A        *)
(* package may stop to ask for a decision, keeps its slot while it waits   *)
(* and goes on only when it was answered or the service is closing.  Once  *)
(* the service is closed no package asks anything any more.                *)
(*                                                                         *)
(* Controller implements this specification (Controller!Refines).          *)
(***************************************************************************)
EXTENDS Naturals, Sequences, FiniteSets

CONSTANTS
  Packages,  \* the packages that may arrive
  Asking,    \* those that may need a decision
  Slots      \* how many may be in progress at a time

VARIABLES
  line,      \* the packages that arrived and were not started, in order
  phase,     \* how far each package is
  answered,  \* packages whose current decision was answered
  service    \* open, closing or closed

vars == <<line, phase, answered, service>>

InProgress == {p \in Packages : phase[p] \in {"running", "deciding"}}

Init ==
  /\ line = <<>>
  /\ phase = [p \in Packages |-> "new"]
  /\ answered = {}
  /\ service = "open"

Becomes(p, from, to) ==
  /\ phase[p] = from
  /\ phase' = [phase EXCEPT ![p] = to]

Arrive(p) ==
  /\ Becomes(p, "new", "waiting")
  /\ line' = Append(line, p)
  /\ UNCHANGED <<answered, service>>

\* The package that waited longest takes a free slot.
Start(p) ==
  /\ line # <<>>
  /\ p = Head(line)
  /\ Cardinality(InProgress) < Slots
  /\ Becomes(p, "waiting", "running")
  /\ line' = Tail(line)
  /\ UNCHANGED <<answered, service>>

Ask(p) ==
  /\ p \in Asking
  /\ service # "closed"
  /\ Becomes(p, "running", "deciding")
  /\ UNCHANGED <<line, answered, service>>

Answer(p) ==
  /\ phase[p] = "deciding"
  /\ p \notin answered
  /\ answered' = answered \cup {p}
  /\ UNCHANGED <<line, phase, service>>

GoOn(p) ==
  /\ p \in answered \/ service # "open"
  /\ Becomes(p, "deciding", "running")
  /\ answered' = answered \ {p}
  /\ UNCHANGED <<line, service>>

Finish(p) ==
  /\ Becomes(p, "running", "finished")
  /\ UNCHANGED <<line, answered, service>>

Close ==
  /\ service = "open"
  /\ service' = "closing"
  /\ UNCHANGED <<line, phase, answered>>

Closed ==
  /\ service = "closing"
  /\ InProgress = {}
  /\ service' = "closed"
  /\ UNCHANGED <<line, phase, answered>>

Next ==
  \/ \E p \in Packages :
       Arrive(p) \/ Start(p) \/ Ask(p) \/ Answer(p) \/ GoOn(p) \/ Finish(p)
  \/ Close
  \/ Closed

Spec == Init /\ [][Next]_vars

=============================================================================
