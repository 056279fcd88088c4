----------------------------- MODULE DispatchPlan -----------------------------
(***************************************************************************)
(* scripts/factory/dispatch-evaluator.mjs: the plan of one dispatch pass,  *)
(* a pure function of a snapshot S of the fleet, which the pass read piece *)
(* by piece.  S has the fields                                             *)
(*   open     the tickets it saw open      labels   their labels then      *)
(*   epics    the epics it saw open        refs     what each is blocked by*)
(*   prs      tickets with an open agent PR                                *)
(*   linked   tickets seen closed whose body it fetched for such a PR      *)
(*   state    the state it has of every blocker (lookupState)              *)
(* A pass reads only the repositories of the fleet, so planDispatch's      *)
(* "outside-fleet" verdict cannot occur; a PR is taken to map to one       *)
(* ticket, the one its branch names.                                       *)
(***************************************************************************)
EXTENDS Tickets, Readiness

CONSTANTS
  Epic,          \* the issues that carry the label "epic"
  PartOf,        \* PartOf[t]: the epics its "Part of" lines name
  BlockedBy,     \* BlockedBy[t]: the tickets its clean "## Blocked by" bullets name
  Unresolvable   \* tickets with a bullet that is no clean reference

ASSUME PlanAssumption ==
  /\ PartOf \in [Ticket -> SUBSET Epic]
  /\ BlockedBy \in [Ticket -> SUBSET Ticket]
  /\ Unresolvable \subseteq Ticket

\* toon-meta#331, which the reaper appends as a blocker; it is no ticket here.
Bug331 == 331

ASSUME Bug331Assumption == Bug331 \notin Ticket

\* Membership: a reference binds when it names an epic seen open.
EpicsOf(S, t) == PartOf[t] \intersect S.epics
Children(S)   == {t \in S.open : EpicsOf(S, t) # {}}

\* Mutant of BusyEpics: a closed child that still carries the label counts.
BusyByAnyLabel(S) ==
  (UNION {EpicsOf(S, t) : t \in S.prs \intersect (S.open \union S.linked)})
    \union UNION {EpicsOf(S, t) : t \in {u \in Ticket : "implement" \in S.labels[u]}}

\* Mutant of BusyEpics: only labels count, not an open PR without one.
BusyByLabel(S) ==
  UNION {EpicsOf(S, t) : t \in {u \in Children(S) : "implement" \in S.labels[u]}}

\* An epic is busy with an open agent PR it can attribute, or with a child that
\* carries agent:implement.
BusyEpics(S) ==
  (UNION {EpicsOf(S, t) : t \in S.prs \intersect (S.open \union S.linked)})
    \union UNION {EpicsOf(S, t) : t \in {u \in Children(S) : "implement" \in S.labels[u]}}

\* Mutant of ChildVerdict: held tickets are not excluded.
ChildVerdictHeld(S, t) ==
  IF "implement" \in S.labels[t] THEN "in-flight-label"
  ELSE IF t \in S.prs THEN "in-flight-pr"
  ELSE IsReady(OnCycle(S.open, S.refs, t), S.refs[t] = {} /\ t \notin Unresolvable,
               t \in Unresolvable, S.refs[t], S.state)

\* The verdict on one child; the order of the cases is the source's.
ChildVerdict(S, t) ==
  IF S.labels[t] \intersect Excluded # {} THEN "excluded"
  ELSE IF "implement" \in S.labels[t] THEN "in-flight-label"
  ELSE IF t \in S.prs THEN "in-flight-pr"
  ELSE IsReady(OnCycle(S.open, S.refs, t), S.refs[t] = {} /\ t \notin Unresolvable,
               t \in Unresolvable, S.refs[t], S.state)

ReadyChildren(S)   == {t \in Children(S) : ChildVerdict(S, t) = "ready"}
FlaggedChildren(S) == {t \in Children(S) : ChildVerdict(S, t) \in {"needs-human", "cycle"}}

\* The serialization loop, by what it computes: D holds a ready child exactly
\* when its epics are neither busy nor taken by a smaller member of D.
IsDispatch(S, D) ==
  /\ D \subseteq ReadyChildren(S)
  /\ \A t \in ReadyChildren(S) :
       t \in D <=>
         EpicsOf(S, t) \intersect
           (BusyEpics(S) \union UNION {EpicsOf(S, u) : u \in {v \in D : v < t}}) = {}
=============================================================================
