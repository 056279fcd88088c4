----------------------------- MODULE EpicPromise -----------------------------
(***************************************************************************)
(* What the epic completion pass promises, without its passes: an epic is  *)
(* closed over children that are done and announced as reduced over one    *)
(* that was dropped, of the moment of the write; children that were filed  *)
(* or reopened while a pass was under way are late, and may be overlooked. *)
(***************************************************************************)
CONSTANTS
  Child,   \* the issues with a "Part of" line
  Epic,    \* the issues with the label "epic"
  PartOf   \* PartOf[c]: the epics c is a child of

VARIABLES
  child,      \* child[c]: the state of the issue
  closed,     \* epics that are closed
  escalated,  \* epics whose dropped scope was announced
  late        \* children a pass under way may have read before they were opened

vars == <<child, closed, escalated, late>>

Init ==
  /\ child \in [Child -> {"unborn", "open"}]
  /\ closed = {}
  /\ escalated = {}
  /\ late = {}

\* A pass ends.
Forget == late' \subseteq late

Open(c) ==
  /\ child[c] # "open"
  /\ child' = [child EXCEPT ![c] = "open"]
  /\ late' \subseteq late \union {c}
  /\ UNCHANGED <<closed, escalated>>

Close(c, reason) ==
  /\ child[c] = "open"
  /\ child' = [child EXCEPT ![c] = reason]
  /\ UNCHANGED <<closed, escalated, late>>

CloseEpic(e) ==
  /\ \A c \in Child : e \in PartOf[c] => child[c] \in {"unborn", "completed"} \/ c \in late
  /\ closed' = closed \union {e}
  /\ Forget
  /\ UNCHANGED <<child, escalated>>

Announce(e) ==
  /\ \E c \in Child : e \in PartOf[c] /\ (child[c] = "not_planned" \/ c \in late)
  /\ escalated' = escalated \union {e}
  /\ Forget
  /\ UNCHANGED <<child, closed>>

ReopenEpic(e) ==
  /\ closed' = closed \ {e}
  /\ UNCHANGED <<child, escalated, late>>

PassEnds == Forget /\ UNCHANGED <<child, closed, escalated>>

Next ==
  \/ \E c \in Child : Open(c) \/ Close(c, "completed") \/ Close(c, "not_planned")
  \/ \E e \in Epic : CloseEpic(e) \/ Announce(e) \/ ReopenEpic(e)
  \/ PassEnds

Spec == Init /\ [][Next]_vars
=============================================================================
