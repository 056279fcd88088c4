------------------------------ MODULE Completion -------------------------------
(***************************************************************************)
(* The epic completion pass, which follows each dispatch pass in the same  *)
(* process: scripts/factory/unblock-dispatcher.mjs (the reads and writes)  *)
(* and completion-evaluator.mjs (the verdict).  An epic whose children are *)
(* all closed as completed is closed; one with a child that was dropped    *)
(* goes to a human.  Closed children are found on the timelines of the     *)
(* epics; the open issues are those the dispatch pass listed before it     *)
(* dispatched.  The dispatch itself moves no issue and is left out, and so *)
(* is the summary comment of a closed epic, which nobody reads back.       *)
(***************************************************************************)
EXTENDS Naturals

CONSTANTS
  Child,     \* the issues with a "Part of" line
  Epic,      \* the issues with the label "epic", in canonical order
  PartOf,    \* PartOf[c]: the epics c is a child of
  ShownOn,   \* ShownOn[c]: the epics whose timelines show c, for whatever reason
  Repo,      \* the fleet's repositories, numbered in the order of the list
  RepoOf,    \* RepoOf[i]: the repository of a child or an epic
  Pass,      \* passes that may overlap
  Faults     \* the misfortunes this instance allows

\* "issues"    a repository's issue list cannot be read
\* "timeline"  an epic's timeline cannot be read
\* "reason"    a timeline omits why an issue was closed
\* "rest"      one issue cannot be fetched
\* "comments"  the comments of an epic cannot be read
\* "write"     a write fails
\* "killed"    a pass is cut off
FaultName == {"issues", "timeline", "reason", "rest", "comments", "write", "killed"}

ASSUME CompletionAssumption ==
  /\ Child \union Epic \union Repo \subseteq Nat
  /\ PartOf \in [Child -> SUBSET Epic]
  /\ ShownOn \in [Child -> SUBSET Epic]
  /\ \A c \in Child : PartOf[c] \subseteq ShownOn[c]
  /\ RepoOf \in [Child \union Epic -> Repo]
  /\ Faults \subseteq FaultName

ChildState == {"unborn", "open", "completed", "not_planned"}

\* What a pass knows of a child: nothing, or a state; "closed" has no reason.
Knowledge == {"none", "open", "completed", "not_planned", "closed"}

VARIABLES
  child,      \* child[c]: the state of the issue
  closed,     \* epics that are closed
  held,       \* epics with needs:human
  escalated,  \* epics with the escalation comment
  pass        \* pass[p]: program counter, what it read, the actions left

vars == <<child, closed, held, escalated, pass>>

fleet == <<child, closed, held, escalated>>

\* moved observes the children that were opened or reopened since the pass started;
\* no action depends on it.
NoPass == [pc |-> "idle", repos |-> {}, open |-> {}, epics |-> {}, held |-> {},
           todo |-> {}, seen |-> [c \in Child |-> "none"], close |-> {}, escalate |-> {},
           moved |-> {}]

PassRecord ==
  [pc : {"idle", "list", "timelines", "write", "comment"},
   repos : SUBSET Repo, open : SUBSET Child, epics : SUBSET Epic, held : SUBSET Epic,
   todo : SUBSET Epic, seen : [Child -> Knowledge], close : SUBSET Epic,
   escalate : SUBSET Epic, moved : SUBSET Child]

TypeOK ==
  /\ child \in [Child -> ChildState]
  /\ closed \in SUBSET Epic
  /\ held \in SUBSET Epic
  /\ escalated \in SUBSET Epic
  /\ pass \in [Pass -> PassRecord]

Init ==
  /\ child \in [Child -> {"unborn", "open"}]
  /\ closed = {}
  /\ held = {}
  /\ escalated = {}
  /\ pass = [p \in Pass |-> NoPass]

First(S) == CHOOSE x \in S : \A y \in S : x <= y

-----------------------------------------------------------------------------
(* The reads.                                                              *)

StartPass(p) ==
  /\ pass[p].pc = "idle"
  /\ pass' = [pass EXCEPT ![p].pc = "list", ![p].repos = Repo]
  /\ UNCHANGED fleet

\* readFleet's issue lists, a repository at a time: the epics and children it shows.
Listed(p, epics, open) ==
  /\ pass[p].pc = "list"
  /\ LET left == pass[p].repos \ {First(pass[p].repos)}
     IN  pass' = [pass EXCEPT ![p].pc = IF left = {} THEN "timelines" ELSE "list",
                    ![p].repos = left,
                    ![p].open  = @ \union open,
                    ![p].epics = @ \union epics,
                    ![p].todo  = @ \union epics,
                    ![p].held  = @ \union (held \intersect epics)]
  /\ UNCHANGED fleet

\* Mutant of ListIssues: the open epics are taken for open children too.
ListIssuesAll(p) ==
  LET Here(S) == {i \in S : RepoOf[i] = First(pass[p].repos)}
  IN  Listed(p, Here(Epic \ closed), Here({c \in Child : child[c] = "open"} \union Epic))

ListIssues(p) ==
  LET Here(S) == {i \in S : RepoOf[i] = First(pass[p].repos)}
  IN  Listed(p, Here(Epic \ closed), Here({c \in Child : child[c] = "open"}))

\* A list that cannot be read counts as empty.
IssuesUnreadable(p) == "issues" \in Faults /\ Listed(p, {}, {})

\* What a timeline says of c: its state, or that it is closed.
Mention(c) ==
  {child[c]} \union (IF "reason" \in Faults /\ child[c] # "open" THEN {"closed"} ELSE {})

\* The timeline of an epic mentions its children, and issues that only name the epic
\* and may be another's; the first mention of an issue counts.
ReadTimeline(p, e) ==
  /\ pass[p].pc = "timelines"
  /\ e \in pass[p].todo
  /\ LET new == {c \in Child : e \in ShownOn[c] /\ child[c] # "unborn"
                                 /\ pass[p].seen[c] = "none"}
     IN  \E says \in [new -> Knowledge] :
           /\ \A c \in new : says[c] \in Mention(c)
           /\ pass' = [pass EXCEPT ![p].todo = @ \ {e},
                         ![p].seen = [c \in Child |-> IF c \in new THEN says[c] ELSE @[c]]]
  /\ UNCHANGED fleet

\* A timeline that cannot be read mentions nobody.
TimelineUnreadable(p, e) ==
  /\ "timeline" \in Faults
  /\ pass[p].pc = "timelines"
  /\ e \in pass[p].todo
  /\ pass' = [pass EXCEPT ![p].todo = @ \ {e}]
  /\ UNCHANGED fleet

-----------------------------------------------------------------------------
(* planCompletion                                                          *)

\* Mutant of Candidate: a missing reason is not fetched.
CandidateBare(p, c, failed) ==
  LET s == pass[p].seen[c]
  IN  IF s = "none" /\ c \in pass[p].open THEN "open" ELSE s

\* What the evaluator is told of c.  A listed child that no timeline mentioned is open.
\* A missing reason is fetched, as it is by now, unless that fails; a child that was
\* reopened has a reason that counts for nothing.
Candidate(p, c, failed) ==
  LET s == pass[p].seen[c]
  IN  CASE s = "none" -> IF c \in pass[p].open THEN "open" ELSE s
        [] s = "closed" -> IF c \in failed \/ child[c] = "open" THEN s ELSE child[c]
        [] OTHER -> s

\* The states of the children of e that the pass knows of.
Tally(p, e, failed) ==
  {Candidate(p, c, failed) : c \in {d \in Child : e \in PartOf[d]}} \ {"none"}

\* Mutant of Verdict: a close without a reason counts as completed.
VerdictLenient(tally, isHeld) ==
  CASE tally = {} -> "no-children"
    [] tally # {} /\ isHeld -> "held"
    [] tally # {} /\ ~isHeld /\ "not_planned" \in tally -> "escalate"
    [] tally # {} /\ ~isHeld /\ "not_planned" \notin tally ->
         IF "open" \in tally THEN "incomplete" ELSE "complete"

\* Mutant of Verdict: a close without a reason counts as dropped.
VerdictStrict(tally, isHeld) ==
  CASE tally = {} -> "no-children"
    [] tally # {} /\ isHeld -> "held"
    [] tally # {} /\ ~isHeld /\ tally \intersect {"not_planned", "closed"} # {} -> "escalate"
    [] tally # {} /\ ~isHeld /\ tally \intersect {"not_planned", "closed"} = {} ->
         IF tally = {"completed"} THEN "complete" ELSE "incomplete"

\* Mutant of Verdict: dropped scope is surfaced when the work that is left is done.
VerdictLate(tally, isHeld) ==
  CASE tally = {} -> "no-children"
    [] tally # {} /\ isHeld -> "held"
    [] tally # {} /\ ~isHeld /\ tally \intersect {"open", "closed"} # {} -> "incomplete"
    [] tally # {} /\ ~isHeld /\ tally \intersect {"open", "closed"} = {} ->
         IF "not_planned" \in tally THEN "escalate" ELSE "complete"

Verdict(tally, isHeld) ==
  CASE tally = {} -> "no-children"
    [] tally # {} /\ isHeld -> "held"
    [] tally # {} /\ ~isHeld /\ "not_planned" \in tally -> "escalate"
    [] tally # {} /\ ~isHeld /\ "not_planned" \notin tally ->
         IF tally = {"completed"} THEN "complete" ELSE "incomplete"

\* All timelines are read; the single issues in failed cannot be.
PlanCompletion(p, failed) ==
  /\ pass[p].pc = "timelines"
  /\ pass[p].todo = {}
  /\ LET With(v) == {e \in pass[p].epics : Verdict(Tally(p, e, failed), e \in pass[p].held) = v}
         acts    == With("complete") \union With("escalate")
     IN  pass' = [pass EXCEPT ![p] =
                    IF acts = {} THEN NoPass
                    ELSE [NoPass EXCEPT !.pc = "write", !.close = With("complete"),
                            !.escalate = With("escalate"), !.moved = pass[p].moved]]
  /\ UNCHANGED fleet

-----------------------------------------------------------------------------
(* The writes, in the order of the epics.                                  *)

Turn(p) == First(pass[p].close \union pass[p].escalate)

NextAction(p) ==
  LET left == (pass[p].close \union pass[p].escalate) \ {Turn(p)}
  IN  IF left = {} THEN NoPass
      ELSE [pass[p] EXCEPT !.pc = "write", !.close = @ \intersect left,
                           !.escalate = @ \intersect left]

\* Nothing is read again; closing a closed epic changes nothing.
CloseEpic(p) ==
  /\ pass[p].pc = "write"
  /\ Turn(p) \in pass[p].close
  /\ closed' = closed \union {Turn(p)}
  /\ pass' = [pass EXCEPT ![p] = NextAction(p)]
  /\ UNCHANGED <<child, held, escalated>>

\* An epic is escalated once in its life.
AlreadyEscalated(p) ==
  /\ pass[p].pc = "write"
  /\ Turn(p) \in pass[p].escalate \intersect escalated
  /\ pass' = [pass EXCEPT ![p] = NextAction(p)]
  /\ UNCHANGED fleet

Label(p) ==
  /\ pass[p].pc = "write"
  /\ Turn(p) \in pass[p].escalate
  /\ held' = held \union {Turn(p)}
  /\ pass' = [pass EXCEPT ![p].pc = "comment"]
  /\ UNCHANGED <<child, closed, escalated>>

Escalate(p) == Label(p) /\ Turn(p) \notin escalated

\* Comments that cannot be read hold no marker.
EscalateAgain(p) ==
  /\ "comments" \in Faults
  /\ Label(p)
  /\ Turn(p) \in escalated

EscalationComment(p) ==
  /\ pass[p].pc = "comment"
  /\ escalated' = escalated \union {Turn(p)}
  /\ pass' = [pass EXCEPT ![p] = NextAction(p)]
  /\ UNCHANGED <<child, closed, held>>

\* runWrite: a failing write ends its own action.
WriteFails(p) ==
  /\ "write" \in Faults
  /\ pass[p].pc \in {"write", "comment"}
  /\ pass' = [pass EXCEPT ![p] = NextAction(p)]
  /\ UNCHANGED fleet

PassKilled(p) ==
  /\ "killed" \in Faults
  /\ pass[p].pc # "idle"
  /\ pass' = [pass EXCEPT ![p] = NoPass]
  /\ UNCHANGED fleet

PassStep(p) ==
  \/ StartPass(p)
  \/ ListIssues(p)
  \/ \E e \in Epic : ReadTimeline(p, e)
  \/ PlanCompletion(p, {})
  \/ CloseEpic(p)
  \/ AlreadyEscalated(p)
  \/ Escalate(p)
  \/ EscalationComment(p)

Outage(p) ==
  \/ IssuesUnreadable(p)
  \/ \E e \in Epic : TimelineUnreadable(p, e)
  \/ "rest" \in Faults /\ \E failed \in SUBSET Child \ {{}} : PlanCompletion(p, failed)
  \/ EscalateAgain(p)
  \/ WriteFails(p)
  \/ PassKilled(p)

-----------------------------------------------------------------------------
(* The world: children are filed, closed and reopened; people own epics.   *)

OpenChild(c) ==
  /\ child[c] # "open"
  /\ child' = [child EXCEPT ![c] = "open"]
  /\ pass' = [p \in Pass |-> IF pass[p].pc = "idle" THEN pass[p]
                             ELSE [pass[p] EXCEPT !.moved = @ \union {c}]]
  /\ UNCHANGED <<closed, held, escalated>>

CloseChild(c, reason) ==
  /\ child[c] = "open"
  /\ child' = [child EXCEPT ![c] = reason]
  /\ UNCHANGED <<closed, held, escalated, pass>>

Hold(e) ==
  /\ held' = held \union {e}
  /\ UNCHANGED <<child, closed, escalated, pass>>

Release(e) ==
  /\ held' = held \ {e}
  /\ UNCHANGED <<child, closed, escalated, pass>>

ReopenEpic(e) ==
  /\ closed' = closed \ {e}
  /\ UNCHANGED <<child, held, escalated, pass>>

World ==
  \/ \E c \in Child : OpenChild(c) \/ CloseChild(c, "completed") \/ CloseChild(c, "not_planned")
  \/ \E e \in Epic : Hold(e) \/ Release(e) \/ ReopenEpic(e)

Next == (\E p \in Pass : PassStep(p) \/ Outage(p)) \/ World

\* The cron starts passes for ever, a pass goes on, and in the end GitHub's outages
\* stop; a timeline may go on to omit reasons.  Nothing is assumed of the world.
Fairness ==
  /\ \A p \in Pass : WF_vars(PassStep(p))
  /\ <>[][(\E p \in Pass : PassStep(p)) \/ World]_vars

Spec == Init /\ [][Next]_vars /\ Fairness

-----------------------------------------------------------------------------
(* Properties                                                              *)

\* planCompletion's "every child is closed as completed", of the moment of the close:
\* a pass closes an epic only over completed children, or over such as were filed or
\* reopened while it ran.  Lists, timelines and single reads may fail, as long as a
\* child shows on no timeline but that of its one epic.
ClosedOverDone ==
  [][\A p \in Pass : pass[p].close \ pass'[p].close # {} /\ CloseEpic(p) =>
       \A c \in Child : Turn(p) \in PartOf[c] =>
         child[c] \in {"unborn", "completed"} \/ c \in pass[p].moved]_vars

\* The children that were filed or reopened while some pass ran.
Late == UNION {pass[p].moved : p \in Pass}

Promise == INSTANCE EpicPromise WITH late <- Late

\* The pass, with its snapshots, its two writes per escalation and every fault, is seen
\* from outside as EpicPromise: whatever fails, nothing but a finished epic is closed
\* and nothing but dropped scope is announced.
PromiseKept == Promise!Spec

Born(e) == {c \in Child : e \in PartOf[c] /\ child[c] # "unborn"}

\* An open epic that nobody holds and whose children are all done.
Done(e) ==
  /\ e \notin closed \union held
  /\ Born(e) # {}
  /\ \A c \in Born(e) : child[c] = "completed"

\* A finished epic does not stay open: passes that failed leave nothing behind that
\* keeps the next one from closing it, and a reason the timeline omits is fetched.
DoneEpicCloses == \A e \in Epic : Done(e) ~> ~Done(e)

\* An open epic that nobody holds, with no word about its dropped child c.
Buried(e, c) ==
  /\ e \notin closed \union held \union escalated
  /\ e \in PartOf[c]
  /\ child[c] = "not_planned"

\* Dropped scope is surfaced as soon as it shows, whatever work is left, however many
\* passes failed before.
DroppedScopeSurfaced == \A e \in Epic, c \in Child : Buried(e, c) ~> ~Buried(e, c)
=============================================================================
