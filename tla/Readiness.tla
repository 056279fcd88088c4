------------------------------ MODULE Readiness ------------------------------
(***************************************************************************)
(* The dependency rules of scripts/factory/unblock-evaluator.mjs: when a   *)
(* ticket's "## Blocked by" section lets it be dispatched.  Every operator *)
(* is a pure function of what the caller read, as in the source.           *)
(*                                                                         *)
(* A parsed section is abstracted to three facts: it declares None, some   *)
(* bullet of it cannot be resolved to one issue, and the set of issues its *)
(* clean bullets name.                                                     *)
(***************************************************************************)
EXTENDS FiniteSets

\* What lookupState can answer for a blocker; "unknown" also stands for an
\* issue that could not be fetched and for a close without a readable reason.
BlockerState == {"open", "completed", "not_planned", "unknown"}

Verdict == {"ready", "blocked", "needs-human", "cycle"}

\* C is strongly connected under edges: no proper part of it is a dead end.
StronglyConnected(C, edges) ==
  \A S \in (SUBSET C) \ {{}, C} : \E x \in S, y \in C \ S : y \in edges[x]

\* detectCycles: a cycle is a component of more than one issue, or a self-loop;
\* an edge that leaves the known issues is a dead end.
OnCycle(known, edges, t) ==
  \E C \in SUBSET known :
    /\ t \in C
    /\ C = {t} => t \in edges[t]
    /\ StronglyConnected(C, edges)

\* Mutant of IsReady: any close of a blocker releases the ticket.
IsReadyOnClose(onCycle, none, unresolvable, refs, state) ==
  CASE onCycle -> "cycle"
    [] ~onCycle /\ none -> "ready"
    [] ~onCycle /\ ~none /\ unresolvable -> "needs-human"
    [] ~onCycle /\ ~none /\ ~unresolvable ->
         IF \E r \in refs : state[r] = "open" THEN "blocked" ELSE "ready"

\* isReady: cycle membership trumps a None declaration, which trumps the rest;
\* anything that cannot be decided goes to a human before an open blocker is
\* waited for; only blockers closed as completed release the ticket.
IsReady(onCycle, none, unresolvable, refs, state) ==
  CASE onCycle -> "cycle"
    [] ~onCycle /\ none -> "ready"
    [] /\ ~onCycle /\ ~none
       /\ unresolvable \/ \E r \in refs : state[r] \in {"not_planned", "unknown"}
         -> "needs-human"
    [] /\ ~onCycle /\ ~none /\ ~unresolvable
       /\ \A r \in refs : state[r] \in {"open", "completed"}
         -> IF \E r \in refs : state[r] = "open" THEN "blocked" ELSE "ready"
=============================================================================
