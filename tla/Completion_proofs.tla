--------------------------- MODULE Completion_proofs ---------------------------
(***************************************************************************)
(* Proofs about Completion, for every set of children, epics, repositories *)
(* and overlapping passes, and for every set of faults.  Three results:    *)
(*   CompletionTypeCorrect  the type invariant;                            *)
(*   CompletionClosesOverDone  ClosedOverDone, where a child shows on the  *)
(*                   timeline of its one epic only, from the invariant     *)
(*                   Informed: an epic of which a pass knows one child is  *)
(*                   an epic of which it knows every child;                *)
(*   CompletionKeepsPromise  Completion implements EpicPromise, under the  *)
(*                   same assumption, with the invariant Warned.           *)
(***************************************************************************)
EXTENDS Completion, TLAPS

\* A pass that is about to comment is at an escalation.
Underway == \A p \in Pass : pass[p].pc = "comment" => Turn(p) \in pass[p].escalate

LEMMA NoPassType == NoPass \in PassRecord
BY DEF NoPass, PassRecord, Knowledge

LEMMA NextActionType ==
  ASSUME TypeOK, NEW p \in Pass
  PROVE  /\ NextAction(p) \in PassRecord
         /\ NextAction(p).pc \in {"idle", "write"}
<1> DEFINE left == (pass[p].close \union pass[p].escalate) \ {Turn(p)}
<1>1. pass[p] \in PassRecord
  BY DEF TypeOK
<1>2. CASE left = {}
  BY <1>2, NoPassType DEF NextAction, NoPass
<1>3. CASE left # {}
  <2> DEFINE next == [pass[p] EXCEPT !.pc = "write", !.close = @ \intersect left,
                                     !.escalate = @ \intersect left]
  <2>1. next \in PassRecord /\ next.pc = "write"
    BY <1>1 DEF PassRecord
  <2>2. NextAction(p) = next
    BY <1>3 DEF NextAction
  <2> QED BY <2>1, <2>2
<1> QED BY <1>2, <1>3

LEMMA CandidateType ==
  ASSUME TypeOK, NEW p \in Pass, NEW c \in Child, NEW failed
  PROVE  Candidate(p, c, failed) \in Knowledge \union ChildState
BY DEF Candidate, TypeOK, PassRecord, Knowledge, ChildState

\* A step of a pass replaces its record by another, and an escalation's comment
\* follows its label.
LEMMA PassStepType ==
  ASSUME TypeOK, Underway, NEW p \in Pass, PassStep(p) \/ Outage(p)
  PROVE  /\ \E r \in PassRecord : pass' = [pass EXCEPT ![p] = r]
         /\ child' = child
         /\ closed' \in SUBSET Epic /\ held' \in SUBSET Epic /\ escalated' \in SUBSET Epic
         /\ pass'[p].pc = "comment" => Turn(p)' \in pass'[p].escalate
<1> DEFINE Goal ==
      /\ \E r \in PassRecord : pass' = [pass EXCEPT ![p] = r]
      /\ child' = child
      /\ closed' \in SUBSET Epic /\ held' \in SUBSET Epic /\ escalated' \in SUBSET Epic
      /\ pass'[p].pc = "comment" => Turn(p)' \in pass'[p].escalate
<1>1. /\ pass[p] \in PassRecord /\ pass \in [Pass -> PassRecord]
      /\ closed \in SUBSET Epic /\ held \in SUBSET Epic /\ escalated \in SUBSET Epic
  BY DEF TypeOK
<1>2. CASE StartPass(p)
  <2> DEFINE r == [pass[p] EXCEPT !.pc = "list", !.repos = Repo]
  <2>1. r \in PassRecord /\ r.pc = "list"
    BY <1>1 DEF PassRecord
  <2>2. pass' = [pass EXCEPT ![p] = r] /\ UNCHANGED fleet
    BY <1>2, <1>1 DEF StartPass
  <2> QED BY <1>1, <2>1, <2>2 DEF fleet
<1>3. ASSUME NEW epics \in SUBSET Epic, NEW open \in SUBSET Child, Listed(p, epics, open)
      PROVE  Goal
  <2> DEFINE left == pass[p].repos \ {First(pass[p].repos)}
             r == [pass[p] EXCEPT !.pc = IF left = {} THEN "timelines" ELSE "list",
                    !.repos = left,
                    !.open  = @ \union open,
                    !.epics = @ \union epics,
                    !.todo  = @ \union epics,
                    !.held  = @ \union (held \intersect epics)]
  <2>1. r \in PassRecord /\ r.pc # "comment"
    BY <1>1 DEF PassRecord
  <2>2. pass' = [pass EXCEPT ![p] = r] /\ UNCHANGED fleet
    BY <1>3, <1>1 DEF Listed
  <2> QED BY <1>1, <2>1, <2>2 DEF fleet
<1>4. CASE ListIssues(p) \/ IssuesUnreadable(p)
  <2>1. CASE ListIssues(p)
    <3> DEFINE epics == {i \in Epic \ closed : RepoOf[i] = First(pass[p].repos)}
               open == {i \in {c \in Child : child[c] = "open"} :
                          RepoOf[i] = First(pass[p].repos)}
    <3>1. Listed(p, epics, open)
      BY <2>1, Zenon DEF ListIssues
    <3>2. epics \in SUBSET Epic /\ open \in SUBSET Child
      OBVIOUS
    <3> HIDE DEF epics, open
    <3> QED BY <1>3, <3>1, <3>2
  <2>2. CASE IssuesUnreadable(p)
    BY <1>3, <2>2 DEF IssuesUnreadable
  <2> QED BY <1>4, <2>1, <2>2
<1>5. ASSUME NEW e \in Epic, ReadTimeline(p, e)
      PROVE  Goal
  <2> DEFINE new == {c \in Child : e \in ShownOn[c] /\ child[c] # "unborn"
                                   /\ pass[p].seen[c] = "none"}
  <2>1. PICK says \in [new -> Knowledge] :
          pass' = [pass EXCEPT ![p].todo = @ \ {e},
                     ![p].seen = [c \in Child |-> IF c \in new THEN says[c] ELSE @[c]]]
    BY <1>5 DEF ReadTimeline
  <2> DEFINE r == [pass[p] EXCEPT !.todo = @ \ {e},
                     !.seen = [c \in Child |-> IF c \in new THEN says[c] ELSE @[c]]]
  <2>2. r \in PassRecord /\ r.pc = "timelines"
    <3> HIDE DEF new
    <3> QED BY <1>1, <1>5 DEF PassRecord, ReadTimeline
  <2>3. pass' = [pass EXCEPT ![p] = r] /\ UNCHANGED fleet
    BY <1>5, <1>1, <2>1 DEF ReadTimeline
  <2> QED BY <1>1, <2>2, <2>3 DEF fleet
<1>6. ASSUME NEW e \in Epic, TimelineUnreadable(p, e)
      PROVE  Goal
  <2> DEFINE r == [pass[p] EXCEPT !.todo = @ \ {e}]
  <2>1. r \in PassRecord /\ r.pc = "timelines"
    BY <1>1, <1>6 DEF PassRecord, TimelineUnreadable
  <2>2. pass' = [pass EXCEPT ![p] = r] /\ UNCHANGED fleet
    BY <1>6, <1>1 DEF TimelineUnreadable
  <2> QED BY <1>1, <2>1, <2>2 DEF fleet
<1>7. ASSUME NEW failed, PlanCompletion(p, failed)
      PROVE  Goal
  <2>1. PICK close \in SUBSET Epic, escalate \in SUBSET Epic :
          pass' = [pass EXCEPT ![p] =
                     IF close \union escalate = {} THEN NoPass
                     ELSE [NoPass EXCEPT !.pc = "write", !.close = close,
                             !.escalate = escalate, !.moved = pass[p].moved]]
    <3> DEFINE With(v) == {e \in pass[p].epics :
                             Verdict(Tally(p, e, failed), e \in pass[p].held) = v}
    <3>1. With("complete") \in SUBSET Epic /\ With("escalate") \in SUBSET Epic
      BY <1>1 DEF PassRecord
    <3>2. pass' = [pass EXCEPT ![p] =
                     IF With("complete") \union With("escalate") = {} THEN NoPass
                     ELSE [NoPass EXCEPT !.pc = "write", !.close = With("complete"),
                             !.escalate = With("escalate"), !.moved = pass[p].moved]]
      BY <1>7 DEF PlanCompletion
    <3> HIDE DEF With
    <3> QED BY <3>1, <3>2
  <2> DEFINE w == [NoPass EXCEPT !.pc = "write", !.close = close,
                     !.escalate = escalate, !.moved = pass[p].moved]
             r == IF close \union escalate = {} THEN NoPass ELSE w
  <2>2. w \in PassRecord /\ w.pc = "write" /\ NoPass.pc = "idle"
    BY <1>1, NoPassType DEF PassRecord, NoPass
  <2>3. r \in PassRecord /\ r.pc # "comment"
    BY <2>2, NoPassType
  <2>4. pass' = [pass EXCEPT ![p] = r] /\ UNCHANGED fleet
    BY <1>7, <2>1 DEF PlanCompletion
  <2> QED BY <1>1, <2>3, <2>4 DEF fleet
<1>8. CASE CloseEpic(p)
  <2>1. NextAction(p) \in PassRecord /\ NextAction(p).pc # "comment"
    BY NextActionType
  <2>2. pass' = [pass EXCEPT ![p] = NextAction(p)] /\ Turn(p) \in pass[p].close
        /\ closed' = closed \union {Turn(p)} /\ UNCHANGED <<child, held, escalated>>
    BY <1>8 DEF CloseEpic
  <2> QED BY <1>1, <2>1, <2>2 DEF PassRecord
<1>9. CASE AlreadyEscalated(p) \/ WriteFails(p)
  <2>1. NextAction(p) \in PassRecord /\ NextAction(p).pc # "comment"
    BY NextActionType
  <2>2. pass' = [pass EXCEPT ![p] = NextAction(p)] /\ UNCHANGED fleet
    BY <1>9 DEF AlreadyEscalated, WriteFails
  <2> QED BY <1>1, <2>1, <2>2 DEF fleet
<1>10. CASE Label(p)
  <2> DEFINE r == [pass[p] EXCEPT !.pc = "comment"]
  <2>1. r \in PassRecord /\ r.close = pass[p].close /\ r.escalate = pass[p].escalate
    BY <1>1 DEF PassRecord
  <2>2. pass' = [pass EXCEPT ![p] = r] /\ Turn(p) \in pass[p].escalate
        /\ held' = held \union {Turn(p)} /\ UNCHANGED <<child, closed, escalated>>
    BY <1>10, <1>1 DEF Label
  <2>3. Turn(p)' = Turn(p)
    BY <1>1, <2>1, <2>2 DEF Turn
  <2> QED BY <1>1, <2>1, <2>2, <2>3 DEF PassRecord
<1>11. CASE EscalationComment(p)
  <2>1. NextAction(p) \in PassRecord /\ NextAction(p).pc # "comment"
    BY NextActionType
  <2>2. Turn(p) \in pass[p].escalate
    BY <1>11 DEF EscalationComment, Underway
  <2>3. pass' = [pass EXCEPT ![p] = NextAction(p)]
        /\ escalated' = escalated \union {Turn(p)} /\ UNCHANGED <<child, closed, held>>
    BY <1>11 DEF EscalationComment
  <2> QED BY <1>1, <2>1, <2>2, <2>3 DEF PassRecord
<1>12. CASE PassKilled(p)
  <2>1. pass' = [pass EXCEPT ![p] = NoPass] /\ UNCHANGED fleet /\ NoPass.pc = "idle"
    BY <1>12 DEF PassKilled, NoPass
  <2> QED BY <1>1, <2>1, NoPassType DEF fleet
<1> QED BY <1>2, <1>4, <1>5, <1>6, <1>7, <1>8, <1>9, <1>10, <1>11, <1>12
        DEF PassStep, Outage, Escalate, EscalateAgain

\* A world step leaves a pass what it read.
LEMMA WorldType ==
  ASSUME TypeOK, World
  PROVE  /\ TypeOK'
         /\ \A p \in Pass : pass'[p] = pass[p]
              \/ /\ pass[p].pc # "idle"
                 /\ \E c \in Child : pass'[p] = [pass[p] EXCEPT !.moved = @ \union {c}]
<1>1. ASSUME NEW c \in Child, OpenChild(c)
      PROVE  /\ TypeOK'
             /\ \A p \in Pass : pass'[p] = pass[p]
                  \/ /\ pass[p].pc # "idle"
                     /\ pass'[p] = [pass[p] EXCEPT !.moved = @ \union {c}]
  <2>1. ASSUME NEW r \in PassRecord PROVE [r EXCEPT !.moved = @ \union {c}] \in PassRecord
    BY DEF PassRecord
  <2>2. pass' = [p \in Pass |-> IF pass[p].pc = "idle" THEN pass[p]
                                ELSE [pass[p] EXCEPT !.moved = @ \union {c}]]
    BY <1>1 DEF OpenChild
  <2>3. child' \in [Child -> ChildState]
    BY <1>1 DEF OpenChild, TypeOK, ChildState
  <2>4. pass' \in [Pass -> PassRecord]
    <3>1. \A p \in Pass : pass[p] \in PassRecord
      BY DEF TypeOK
    <3> QED BY <2>1, <2>2, <3>1
  <2> QED BY <1>1, <2>2, <2>3, <2>4 DEF OpenChild, TypeOK
<1>2. ASSUME NEW c \in Child, CloseChild(c, "completed") \/ CloseChild(c, "not_planned")
      PROVE  TypeOK' /\ pass' = pass
  BY <1>2 DEF CloseChild, TypeOK, ChildState
<1>3. ASSUME NEW e \in Epic, Hold(e) \/ Release(e) \/ ReopenEpic(e)
      PROVE  TypeOK' /\ pass' = pass
  BY <1>3 DEF Hold, Release, ReopenEpic, TypeOK
<1> QED BY <1>1, <1>2, <1>3 DEF World

LEMMA TypeInit == Init => TypeOK /\ Underway
BY NoPassType DEF Init, TypeOK, Underway, ChildState, NoPass

LEMMA TypeNext == TypeOK /\ Underway /\ [Next]_vars => TypeOK' /\ Underway'
<1> SUFFICES ASSUME TypeOK, Underway, [Next]_vars PROVE TypeOK' /\ Underway'
  OBVIOUS
<1>1. ASSUME NEW p \in Pass, PassStep(p) \/ Outage(p) PROVE TypeOK' /\ Underway'
  <2>1. PICK r \in PassRecord : pass' = [pass EXCEPT ![p] = r]
    BY <1>1, PassStepType
  <2>2. \A q \in Pass \ {p} : pass'[q] = pass[q]
    BY <2>1 DEF TypeOK
  <2>3. \A q \in Pass \ {p} : Turn(q)' = Turn(q)
    BY <2>2 DEF Turn
  <2>4. TypeOK'
    BY <1>1, <2>1, PassStepType DEF TypeOK
  <2>5. Underway'
    BY <1>1, <2>2, <2>3, PassStepType DEF Underway
  <2> QED BY <2>4, <2>5
<1>2. CASE World
  <2>1. TypeOK'
    BY <1>2, WorldType
  <2>2. ASSUME NEW p \in Pass
        PROVE  /\ pass'[p].pc = pass[p].pc
               /\ pass'[p].close = pass[p].close
               /\ pass'[p].escalate = pass[p].escalate
    <3>1. pass[p] \in PassRecord
      BY DEF TypeOK
    <3>2. \/ pass'[p] = pass[p]
          \/ \E c \in Child : pass'[p] = [pass[p] EXCEPT !.moved = @ \union {c}]
      BY <1>2, WorldType
    <3> QED BY <3>1, <3>2 DEF PassRecord
  <2>3. \A p \in Pass : Turn(p)' = Turn(p)
    BY <2>2 DEF Turn
  <2> QED BY <2>1, <2>2, <2>3 DEF Underway
<1>3. CASE UNCHANGED vars
  BY <1>3 DEF vars, TypeOK, Underway, Turn
<1> QED BY <1>1, <1>2, <1>3 DEF Next

\* Every variable of the completion pass keeps its type, with any number of passes.
THEOREM CompletionTypeCorrect == Spec => []TypeOK
<1> QED BY TypeInit, TypeNext, PTL DEF Spec

-----------------------------------------------------------------------------
(* ClosedOverDone                                                          *)

\* A child shows on the timeline of its epic and nowhere else.
OneTimeline ==
  \A c \in Child : ShownOn[c] = PartOf[c] /\ \A e, f \in PartOf[c] : e = f

\* A pass at rest remembers nothing.
Rested(p) == pass[p].pc = "idle" => pass[p] = NoPass

\* A child seen completed is still completed, unless it moved.
SeenDone(p) ==
  \A c \in Child : pass[p].seen[c] = "completed" =>
    child[c] = "completed" \/ c \in pass[p].moved

\* Who knows one child of an epic from a timeline knows them all, but for those that
\* were filed since.
SeenTogether(p) ==
  \A c, d \in Child : PartOf[c] \intersect PartOf[d] # {} /\ pass[p].seen[d] # "none" =>
    pass[p].seen[c] # "none" \/ child[c] = "unborn" \/ c \in pass[p].moved

\* An epic is about to be closed over children that are done, unless they moved.
CloseDone(p) ==
  \A c \in Child : PartOf[c] \intersect pass[p].close # {} =>
    child[c] \in {"unborn", "completed"} \/ c \in pass[p].moved

Informed == \A p \in Pass : Rested(p) /\ SeenDone(p) /\ SeenTogether(p) /\ CloseDone(p)

LEMMA NoPassInformed ==
  ASSUME NEW p \in Pass, pass[p] = NoPass
  PROVE  Rested(p) /\ SeenDone(p) /\ SeenTogether(p) /\ CloseDone(p)
BY DEF NoPass, Rested, SeenDone, SeenTogether, CloseDone

\* A child of a complete epic is done, or was not there when the pass looked.
LEMMA CompleteDone ==
  ASSUME TypeOK, Informed, NEW p \in Pass, NEW failed, NEW e \in Epic,
         Verdict(Tally(p, e, failed), e \in pass[p].held) = "complete",
         NEW c \in Child, e \in PartOf[c]
  PROVE  child[c] \in {"unborn", "completed"} \/ c \in pass[p].moved
<1>1. Tally(p, e, failed) = {"completed"}
  BY DEF Verdict
<1>2. PICK d \in Child : e \in PartOf[d] /\ Candidate(p, d, failed) = "completed"
  BY <1>1 DEF Tally
<1>3. pass[p].seen[d] # "none"
  BY <1>2 DEF Candidate
<1>4. Candidate(p, c, failed) \in {"none", "completed"}
  BY <1>1 DEF Tally
<1>5. CASE pass[p].seen[c] = "none"
  BY <1>2, <1>3, <1>5 DEF Informed, SeenTogether
<1>6. CASE pass[p].seen[c] = "closed"
  BY <1>4, <1>6 DEF Candidate, TypeOK, ChildState
<1>7. CASE pass[p].seen[c] \notin {"none", "closed"}
  BY <1>4, <1>7 DEF Candidate, Informed, SeenDone
<1> QED BY <1>5, <1>6, <1>7

LEMMA InformedPassStep ==
  ASSUME TypeOK, Underway, Informed, OneTimeline, NEW p \in Pass, PassStep(p) \/ Outage(p)
  PROVE  Informed'
<1> DEFINE Known(q) == Rested(q) /\ SeenDone(q) /\ SeenTogether(q) /\ CloseDone(q)
<1>1. PICK r \in PassRecord : pass' = [pass EXCEPT ![p] = r]
  BY PassStepType
<1>2. child' = child /\ \A q \in Pass \ {p} : pass'[q] = pass[q]
  BY <1>1, PassStepType DEF TypeOK
<1>3. \A q \in Pass \ {p} : Known(q)'
  BY <1>2 DEF Informed, Rested, SeenDone, SeenTogether, CloseDone
<1>4. pass[p] \in PassRecord /\ pass'[p] = r /\ Known(p)
  BY <1>1 DEF TypeOK, Informed
<1> SUFFICES Known(p)'
  BY <1>3 DEF Informed
<1>5. ASSUME pass'[p].seen = pass[p].seen, pass'[p].close \subseteq pass[p].close,
             pass'[p].moved = pass[p].moved, pass'[p].pc # "idle"
      PROVE  Known(p)'
  BY <1>2, <1>4, <1>5 DEF Rested, SeenDone, SeenTogether, CloseDone
<1>6. ASSUME pass'[p] = NoPass PROVE Known(p)'
  BY <1>6 DEF NoPass, Rested, SeenDone, SeenTogether, CloseDone
<1>7. CASE StartPass(p)
  <2>1. pass'[p] = [pass[p] EXCEPT !.pc = "list", !.repos = Repo]
    BY <1>7 DEF StartPass, TypeOK
  <2> QED BY <1>4, <1>5, <2>1 DEF PassRecord
<1>8. ASSUME NEW epics, NEW open, Listed(p, epics, open) PROVE Known(p)'
  <2> DEFINE left == pass[p].repos \ {First(pass[p].repos)}
             pc == IF left = {} THEN "timelines" ELSE "list"
             next == [pass[p] EXCEPT !.pc = pc,
                        !.repos = left,
                        !.open  = @ \union open,
                        !.epics = @ \union epics,
                        !.todo  = @ \union epics,
                        !.held  = @ \union (held \intersect epics)]
  <2>1. pass'[p] = next
    BY <1>8 DEF Listed, TypeOK
  <2>2. pc # "idle"
    OBVIOUS
  <2>3. /\ next.seen = pass[p].seen /\ next.close = pass[p].close
        /\ next.moved = pass[p].moved /\ next.pc = pc
    <3> HIDE DEF pc, left
    <3> QED BY <1>4 DEF PassRecord
  <2> HIDE DEF next, pc
  <2> QED BY <1>5, <2>1, <2>2, <2>3
<1>9. ASSUME NEW e \in Epic, ReadTimeline(p, e) PROVE Known(p)'
  <2> DEFINE new == {c \in Child : e \in ShownOn[c] /\ child[c] # "unborn"
                                   /\ pass[p].seen[c] = "none"}
  <2>1. PICK says \in [new -> Knowledge] :
          /\ \A c \in new : says[c] \in Mention(c)
          /\ pass' = [pass EXCEPT ![p].todo = @ \ {e},
                        ![p].seen = [c \in Child |-> IF c \in new THEN says[c] ELSE @[c]]]
    BY <1>9 DEF ReadTimeline
  <2>2. /\ \A c \in new : /\ pass'[p].seen[c] \in {child[c], "closed"}
                          /\ pass'[p].seen[c] # "none"
        /\ \A c \in Child \ new : pass'[p].seen[c] = pass[p].seen[c]
        /\ pass'[p].close = pass[p].close /\ pass'[p].moved = pass[p].moved
        /\ pass'[p].pc = "timelines"
    <3> HIDE DEF new
    <3>1. new \subseteq Child
      BY DEF new
    <3>2. \A c \in new : says[c] \in {child[c], "closed"} /\ says[c] # "none"
      BY <2>1, <3>1 DEF Mention, TypeOK, ChildState
    <3> QED BY <1>4, <1>9, <2>1, <3>1, <3>2 DEF ReadTimeline, TypeOK, PassRecord
  <2>3. SeenDone(p)'
    BY <1>2, <1>4, <2>2 DEF SeenDone
  <2>4. SeenTogether(p)'
    <3> SUFFICES ASSUME NEW c \in Child, NEW d \in Child, NEW f \in PartOf[c] \intersect PartOf[d],
                        pass'[p].seen[d] # "none", child[c] # "unborn",
                        c \notin pass[p].moved
                 PROVE  pass'[p].seen[c] # "none"
      BY <1>2, <2>2 DEF SeenTogether
    <3>1. CASE d \in new
      <4>1. e \in PartOf[d] /\ f = e
        BY <3>1 DEF OneTimeline
      <4>2. c \in new \/ pass[p].seen[c] # "none"
        BY <4>1 DEF OneTimeline
      <4> QED BY <2>2, <4>2
    <3>2. CASE d \notin new
      <4>1. pass[p].seen[c] # "none"
        BY <1>4, <2>2, <3>2 DEF SeenTogether
      <4> QED BY <2>2, <4>1
    <3> QED BY <3>1, <3>2
  <2>5. CloseDone(p)' /\ Rested(p)'
    BY <1>2, <1>4, <2>2 DEF CloseDone, Rested
  <2> QED BY <2>3, <2>4, <2>5
<1>10. ASSUME NEW e \in Epic, TimelineUnreadable(p, e) PROVE Known(p)'
  <2>1. pass'[p] = [pass[p] EXCEPT !.todo = @ \ {e}] /\ pass[p].pc = "timelines"
    BY <1>10 DEF TimelineUnreadable, TypeOK
  <2> QED BY <1>4, <1>5, <2>1 DEF PassRecord
<1>11. ASSUME NEW failed, PlanCompletion(p, failed) PROVE Known(p)'
  <2> DEFINE With(v) == {e \in pass[p].epics :
                           Verdict(Tally(p, e, failed), e \in pass[p].held) = v}
             plan == [NoPass EXCEPT !.pc = "write", !.close = With("complete"),
                        !.escalate = With("escalate"), !.moved = pass[p].moved]
  <2>1. \A c \in Child : PartOf[c] \intersect With("complete") # {} =>
          child[c] \in {"unborn", "completed"} \/ c \in pass[p].moved
    BY <1>4, CompleteDone DEF PassRecord
  <2>2. pass'[p] = NoPass \/ pass'[p] = plan
    <3> HIDE DEF With
    <3>1. pass' = [pass EXCEPT ![p] =
                    IF With("complete") \union With("escalate") = {} THEN NoPass ELSE plan]
      BY <1>11 DEF PlanCompletion, With
    <3> QED BY <3>1 DEF TypeOK
  <2>3. CASE pass'[p] = plan
    <3> HIDE DEF With
    <3>1. /\ \A c \in Child : plan.seen[c] = "none"
          /\ plan.close = With("complete") /\ plan.moved = pass[p].moved /\ plan.pc = "write"
      BY DEF NoPass
    <3> HIDE DEF plan
    <3> QED BY <1>2, <2>1, <2>3, <3>1 DEF Rested, SeenDone, SeenTogether, CloseDone
  <2> QED BY <1>6, <2>2, <2>3
<1>12. ASSUME pass' = [pass EXCEPT ![p] = NextAction(p)] PROVE Known(p)'
  <2> DEFINE left == (pass[p].close \union pass[p].escalate) \ {Turn(p)}
             next == [pass[p] EXCEPT !.pc = "write", !.close = @ \intersect left,
                                     !.escalate = @ \intersect left]
  <2>1. pass'[p] = NoPass \/ pass'[p] = next
    BY <1>12 DEF NextAction, TypeOK
  <2>2. /\ next.seen = pass[p].seen /\ next.close \subseteq pass[p].close
        /\ next.moved = pass[p].moved /\ next.pc = "write"
    BY <1>4 DEF PassRecord
  <2> HIDE DEF next
  <2> QED BY <1>5, <1>6, <2>1, <2>2
<1>13. CASE CloseEpic(p) \/ AlreadyEscalated(p) \/ EscalationComment(p) \/ WriteFails(p)
  BY <1>12, <1>13 DEF CloseEpic, AlreadyEscalated, EscalationComment, WriteFails
<1>14. CASE Label(p)
  <2>1. pass'[p] = [pass[p] EXCEPT !.pc = "comment"]
    BY <1>14 DEF Label, TypeOK
  <2> QED BY <1>4, <1>5, <2>1 DEF PassRecord
<1>15. CASE PassKilled(p)
  BY <1>6, <1>15 DEF PassKilled, TypeOK
<1> QED BY <1>7, <1>8, <1>9, <1>10, <1>11, <1>13, <1>14, <1>15
        DEF PassStep, Outage, Escalate, EscalateAgain, ListIssues, IssuesUnreadable

LEMMA InformedWorld ==
  ASSUME TypeOK, Informed, World
  PROVE  Informed'
<1> SUFFICES ASSUME NEW p \in Pass
             PROVE  (Rested(p) /\ SeenDone(p) /\ SeenTogether(p) /\ CloseDone(p))'
  BY DEF Informed
<1>1. Rested(p) /\ SeenDone(p) /\ SeenTogether(p) /\ CloseDone(p) /\ pass[p] \in PassRecord
  BY DEF Informed, TypeOK
<1>2. CASE pass[p].pc = "idle"
  <2>1. pass'[p] = NoPass
    BY <1>1, <1>2, WorldType DEF Rested
  <2> QED BY <2>1 DEF NoPass, Rested, SeenDone, SeenTogether, CloseDone
<1>3. ASSUME pass[p].pc # "idle", NEW c \in Child, OpenChild(c)
      PROVE  (Rested(p) /\ SeenDone(p) /\ SeenTogether(p) /\ CloseDone(p))'
  <2>1. pass'[p] = [pass[p] EXCEPT !.moved = @ \union {c}]
    BY <1>3 DEF OpenChild
  <2>2. /\ pass'[p].seen = pass[p].seen /\ pass'[p].close = pass[p].close
        /\ pass'[p].moved = pass[p].moved \union {c} /\ pass'[p].pc # "idle"
    BY <1>1, <1>3, <2>1 DEF PassRecord
  <2>3. \A d \in Child \ {c} : child'[d] = child[d]
    BY <1>3 DEF OpenChild, TypeOK
  <2> QED BY <1>1, <2>2, <2>3 DEF Rested, SeenDone, SeenTogether, CloseDone
<1>4. ASSUME NEW c \in Child, CloseChild(c, "completed") \/ CloseChild(c, "not_planned")
      PROVE  (Rested(p) /\ SeenDone(p) /\ SeenTogether(p) /\ CloseDone(p))'
  <2>1. /\ pass' = pass /\ child[c] = "open" /\ child'[c] # "unborn"
        /\ \A d \in Child \ {c} : child'[d] = child[d]
    BY <1>4 DEF CloseChild, TypeOK
  <2> QED BY <1>1, <2>1 DEF Rested, SeenDone, SeenTogether, CloseDone
<1>5. ASSUME NEW e \in Epic, Hold(e) \/ Release(e) \/ ReopenEpic(e)
      PROVE  (Rested(p) /\ SeenDone(p) /\ SeenTogether(p) /\ CloseDone(p))'
  BY <1>1, <1>5 DEF Hold, Release, ReopenEpic, Rested, SeenDone, SeenTogether, CloseDone
<1> QED BY <1>2, <1>3, <1>4, <1>5 DEF World

LEMMA InformedInit == Init => Informed
BY NoPassInformed DEF Init, Informed

LEMMA InformedNext ==
  ASSUME OneTimeline
  PROVE  TypeOK /\ Underway /\ Informed /\ [Next]_vars => Informed'
<1>1. ASSUME TypeOK, Underway, Informed, Next PROVE Informed'
  BY <1>1, InformedPassStep, InformedWorld DEF Next
<1>2. ASSUME Informed, UNCHANGED vars PROVE Informed'
  BY <1>2 DEF vars, Informed, Rested, SeenDone, SeenTogether, CloseDone
<1> QED BY <1>1, <1>2

\* With any number of children, epics and overlapping passes, and with any fault: a
\* pass closes an epic only over children that are completed by then, or that were
\* filed or reopened while it ran.  What it asks for is that a child shows on no
\* timeline but its epic's; the code has no such rule.
THEOREM CompletionClosesOverDone ==
  ASSUME OneTimeline
  PROVE  Spec => ClosedOverDone
<1> DEFINE CloseOk == \A p \in Pass : pass[p].close \ pass'[p].close # {} /\ CloseEpic(p) =>
       \A c \in Child : Turn(p) \in PartOf[c] =>
         child[c] \in {"unborn", "completed"} \/ c \in pass[p].moved
<1>1. Informed => CloseOk
  BY DEF Informed, CloseDone, CloseEpic
<1> HIDE DEF CloseOk
<1>2. Spec => [][CloseOk]_vars
  BY <1>1, TypeInit, TypeNext, InformedInit, InformedNext, PTL DEF Spec
<1> QED BY <1>2 DEF CloseOk, ClosedOverDone

-----------------------------------------------------------------------------
(* The promise.  The close of an epic rests on Informed, its announcement on *)
(* Warned: a pass announces an epic because of a child that was dropped when *)
(* it looked, and such a child is still dropped or has moved.                *)

\* A child seen dropped is still dropped, unless it moved.
SeenDropped(p) ==
  \A c \in Child : pass[p].seen[c] = "not_planned" =>
    child[c] = "not_planned" \/ c \in pass[p].moved

\* An epic is about to be announced for a child that was dropped, unless it moved.
DroppedBelow(e, p) ==
  \E c \in Child : e \in PartOf[c] /\ (child[c] = "not_planned" \/ c \in pass[p].moved)

EscalateDropped(p) == \A e \in pass[p].escalate : DroppedBelow(e, p)

Warned == \A p \in Pass : Rested(p) /\ SeenDropped(p) /\ EscalateDropped(p)

LEMMA NoPassWarned ==
  ASSUME NEW p \in Pass, pass[p] = NoPass
  PROVE  Rested(p) /\ SeenDropped(p) /\ EscalateDropped(p)
BY DEF NoPass, Rested, SeenDropped, EscalateDropped

\* But for the reading of a timeline and the plan, a step of a pass learns nothing and
\* plans nothing, or ends the pass.
LEMMA StepShape ==
  ASSUME TypeOK, NEW p \in Pass, PassStep(p) \/ Outage(p)
  PROVE  \/ pass'[p] = NoPass
         \/ /\ pass'[p].seen = pass[p].seen
            /\ pass'[p].escalate \subseteq pass[p].escalate
            /\ pass'[p].moved = pass[p].moved
            /\ pass'[p].pc # "idle"
         \/ \E e \in Epic : ReadTimeline(p, e)
         \/ \E failed : PlanCompletion(p, failed)
<1> DEFINE Quiet == /\ pass'[p].seen = pass[p].seen
                    /\ pass'[p].escalate \subseteq pass[p].escalate
                    /\ pass'[p].moved = pass[p].moved
                    /\ pass'[p].pc # "idle"
<1>1. pass[p] \in PassRecord /\ pass \in [Pass -> PassRecord]
  BY DEF TypeOK
<1>2. CASE StartPass(p)
  <2>1. pass'[p] = [pass[p] EXCEPT !.pc = "list", !.repos = Repo]
    BY <1>1, <1>2 DEF StartPass
  <2> QED BY <1>1, <2>1 DEF PassRecord
<1>3. ASSUME NEW epics, NEW open, Listed(p, epics, open) PROVE Quiet
  <2> DEFINE left == pass[p].repos \ {First(pass[p].repos)}
             pc == IF left = {} THEN "timelines" ELSE "list"
             next == [pass[p] EXCEPT !.pc = pc,
                        !.repos = left,
                        !.open  = @ \union open,
                        !.epics = @ \union epics,
                        !.todo  = @ \union epics,
                        !.held  = @ \union (held \intersect epics)]
  <2>1. pass'[p] = next
    BY <1>1, <1>3 DEF Listed
  <2>2. pc # "idle"
    OBVIOUS
  <2>3. /\ next.seen = pass[p].seen /\ next.escalate = pass[p].escalate
        /\ next.moved = pass[p].moved /\ next.pc = pc
    <3> HIDE DEF pc, left
    <3> QED BY <1>1 DEF PassRecord
  <2> HIDE DEF next, pc
  <2> QED BY <2>1, <2>2, <2>3
<1>4. ASSUME NEW e \in Epic, TimelineUnreadable(p, e) PROVE Quiet
  <2>1. pass'[p] = [pass[p] EXCEPT !.todo = @ \ {e}] /\ pass[p].pc = "timelines"
    BY <1>1, <1>4 DEF TimelineUnreadable
  <2> QED BY <1>1, <2>1 DEF PassRecord
<1>5. CASE Label(p)
  <2>1. pass'[p] = [pass[p] EXCEPT !.pc = "comment"]
    BY <1>1, <1>5 DEF Label
  <2> QED BY <1>1, <2>1 DEF PassRecord
<1>6. ASSUME pass' = [pass EXCEPT ![p] = NextAction(p)] PROVE pass'[p] = NoPass \/ Quiet
  <2> DEFINE left == (pass[p].close \union pass[p].escalate) \ {Turn(p)}
             next == [pass[p] EXCEPT !.pc = "write", !.close = @ \intersect left,
                                     !.escalate = @ \intersect left]
  <2>1. pass'[p] = NoPass \/ pass'[p] = next
    BY <1>1, <1>6 DEF NextAction
  <2>2. /\ next.seen = pass[p].seen /\ next.escalate \subseteq pass[p].escalate
        /\ next.moved = pass[p].moved /\ next.pc = "write"
    BY <1>1 DEF PassRecord
  <2> HIDE DEF next
  <2> QED BY <2>1, <2>2
<1>7. CASE CloseEpic(p) \/ AlreadyEscalated(p) \/ EscalationComment(p) \/ WriteFails(p)
  BY <1>6, <1>7 DEF CloseEpic, AlreadyEscalated, EscalationComment, WriteFails
<1>8. CASE PassKilled(p)
  BY <1>1, <1>8 DEF PassKilled
<1> QED BY <1>2, <1>3, <1>4, <1>5, <1>7, <1>8
        DEF PassStep, Outage, Escalate, EscalateAgain, ListIssues, IssuesUnreadable

\* An epic that is to be announced has a child that was dropped.
LEMMA EscalateSees ==
  ASSUME TypeOK, Warned, NEW p \in Pass, NEW failed, NEW e \in Epic,
         Verdict(Tally(p, e, failed), e \in pass[p].held) = "escalate"
  PROVE  DroppedBelow(e, p)
<1>1. "not_planned" \in Tally(p, e, failed)
  BY DEF Verdict
<1>2. PICK c \in Child : e \in PartOf[c] /\ Candidate(p, c, failed) = "not_planned"
  BY <1>1 DEF Tally
<1>3. pass[p].seen[c] = "not_planned" \/ child[c] = "not_planned"
  BY <1>2 DEF Candidate
<1> QED BY <1>2, <1>3 DEF Warned, SeenDropped, DroppedBelow

LEMMA WarnedPassStep ==
  ASSUME TypeOK, Underway, Warned, NEW p \in Pass, PassStep(p) \/ Outage(p)
  PROVE  Warned'
<1> DEFINE Known(q) == Rested(q) /\ SeenDropped(q) /\ EscalateDropped(q)
<1>1. PICK r \in PassRecord : pass' = [pass EXCEPT ![p] = r]
  BY PassStepType
<1>2. child' = child /\ \A q \in Pass \ {p} : pass'[q] = pass[q]
  BY <1>1, PassStepType DEF TypeOK
<1>3. \A q \in Pass \ {p} : Known(q)'
  BY <1>2 DEF Warned, Rested, SeenDropped, EscalateDropped, DroppedBelow
<1>4. pass[p] \in PassRecord /\ pass'[p] = r /\ Known(p)
  BY <1>1 DEF TypeOK, Warned
<1>5. CASE pass'[p] = NoPass
  <2>1. Known(p)'
    BY <1>5 DEF NoPass, Rested, SeenDropped, EscalateDropped
  <2> QED BY <1>3, <2>1 DEF Warned
<1>6. CASE /\ pass'[p].seen = pass[p].seen
           /\ pass'[p].escalate \subseteq pass[p].escalate
           /\ pass'[p].moved = pass[p].moved
           /\ pass'[p].pc # "idle"
  <2>1. Known(p)'
    BY <1>2, <1>4, <1>6 DEF Rested, SeenDropped, EscalateDropped, DroppedBelow
  <2> QED BY <1>3, <2>1 DEF Warned
<1>7. ASSUME NEW e \in Epic, ReadTimeline(p, e) PROVE Known(p)'
  <2> DEFINE new == {c \in Child : e \in ShownOn[c] /\ child[c] # "unborn"
                                   /\ pass[p].seen[c] = "none"}
  <2>1. PICK says \in [new -> Knowledge] :
          /\ \A c \in new : says[c] \in Mention(c)
          /\ pass' = [pass EXCEPT ![p].todo = @ \ {e},
                        ![p].seen = [c \in Child |-> IF c \in new THEN says[c] ELSE @[c]]]
    BY <1>7 DEF ReadTimeline
  <2>2. /\ \A c \in new : pass'[p].seen[c] \in {child[c], "closed"}
        /\ \A c \in Child \ new : pass'[p].seen[c] = pass[p].seen[c]
        /\ pass'[p].escalate = pass[p].escalate /\ pass'[p].moved = pass[p].moved
        /\ pass'[p].pc = "timelines"
    <3> HIDE DEF new
    <3>1. new \subseteq Child
      BY DEF new
    <3>2. \A c \in new : says[c] \in {child[c], "closed"}
      BY <2>1, <3>1 DEF Mention, TypeOK, ChildState
    <3> QED BY <1>4, <1>7, <2>1, <3>1, <3>2 DEF ReadTimeline, TypeOK, PassRecord
  <2> HIDE DEF new
  <2> QED BY <1>2, <1>4, <2>2 DEF Rested, SeenDropped, EscalateDropped, DroppedBelow
<1>8. ASSUME NEW failed, PlanCompletion(p, failed) PROVE Known(p)'
  <2> DEFINE With(v) == {e \in pass[p].epics :
                           Verdict(Tally(p, e, failed), e \in pass[p].held) = v}
             plan == [NoPass EXCEPT !.pc = "write", !.close = With("complete"),
                        !.escalate = With("escalate"), !.moved = pass[p].moved]
  <2>1. \A e \in With("escalate") : DroppedBelow(e, p)
    BY <1>4, EscalateSees DEF PassRecord
  <2>2. pass'[p] = NoPass \/ pass'[p] = plan
    <3> HIDE DEF With
    <3>1. pass' = [pass EXCEPT ![p] =
                    IF With("complete") \union With("escalate") = {} THEN NoPass ELSE plan]
      BY <1>8 DEF PlanCompletion, With
    <3> QED BY <3>1 DEF TypeOK
  <2>3. CASE pass'[p] = plan
    <3> HIDE DEF With
    <3>1. /\ \A c \in Child : plan.seen[c] = "none"
          /\ plan.escalate = With("escalate") /\ plan.moved = pass[p].moved
          /\ plan.pc = "write"
      BY DEF NoPass
    <3> HIDE DEF plan
    <3> QED BY <1>2, <2>1, <2>3, <3>1 DEF Rested, SeenDropped, EscalateDropped, DroppedBelow
  <2>4. CASE pass'[p] = NoPass
    BY <2>4 DEF NoPass, Rested, SeenDropped, EscalateDropped
  <2> QED BY <2>2, <2>3, <2>4
<1> QED BY <1>3, <1>5, <1>6, <1>7, <1>8, StepShape DEF Warned

LEMMA WarnedWorld ==
  ASSUME TypeOK, Warned, World
  PROVE  Warned'
<1> SUFFICES ASSUME NEW p \in Pass
             PROVE  (Rested(p) /\ SeenDropped(p) /\ EscalateDropped(p))'
  BY DEF Warned
<1>1. Rested(p) /\ SeenDropped(p) /\ EscalateDropped(p) /\ pass[p] \in PassRecord
  BY DEF Warned, TypeOK
<1>2. CASE pass[p].pc = "idle"
  <2>1. pass'[p] = NoPass
    BY <1>1, <1>2, WorldType DEF Rested
  <2> QED BY <2>1 DEF NoPass, Rested, SeenDropped, EscalateDropped
<1>3. ASSUME pass[p].pc # "idle", NEW c \in Child, OpenChild(c)
      PROVE  (Rested(p) /\ SeenDropped(p) /\ EscalateDropped(p))'
  <2>1. pass'[p] = [pass[p] EXCEPT !.moved = @ \union {c}]
    BY <1>3 DEF OpenChild
  <2>2. /\ pass'[p].seen = pass[p].seen /\ pass'[p].escalate = pass[p].escalate
        /\ pass'[p].moved = pass[p].moved \union {c} /\ pass'[p].pc # "idle"
    BY <1>1, <1>3, <2>1 DEF PassRecord
  <2>3. \A d \in Child \ {c} : child'[d] = child[d]
    BY <1>3 DEF OpenChild, TypeOK
  <2> QED BY <1>1, <2>2, <2>3 DEF Rested, SeenDropped, EscalateDropped, DroppedBelow
<1>4. ASSUME NEW c \in Child, CloseChild(c, "completed") \/ CloseChild(c, "not_planned")
      PROVE  (Rested(p) /\ SeenDropped(p) /\ EscalateDropped(p))'
  <2>1. /\ pass' = pass /\ child[c] = "open"
        /\ \A d \in Child \ {c} : child'[d] = child[d]
    BY <1>4 DEF CloseChild, TypeOK
  <2> QED BY <1>1, <2>1 DEF Rested, SeenDropped, EscalateDropped, DroppedBelow
<1>5. ASSUME NEW e \in Epic, Hold(e) \/ Release(e) \/ ReopenEpic(e)
      PROVE  (Rested(p) /\ SeenDropped(p) /\ EscalateDropped(p))'
  BY <1>1, <1>5 DEF Hold, Release, ReopenEpic, Rested, SeenDropped, EscalateDropped,
                    DroppedBelow
<1> QED BY <1>2, <1>3, <1>4, <1>5 DEF World

LEMMA WarnedInit == Init => Warned
BY NoPassWarned DEF Init, Warned

LEMMA WarnedNext == TypeOK /\ Underway /\ Warned /\ [Next]_vars => Warned'
<1>1. ASSUME TypeOK, Underway, Warned, Next PROVE Warned'
  BY <1>1, WarnedPassStep, WarnedWorld DEF Next
<1>2. ASSUME Warned, UNCHANGED vars PROVE Warned'
  BY <1>2 DEF vars, Warned, Rested, SeenDropped, EscalateDropped, DroppedBelow
<1> QED BY <1>1, <1>2

-----------------------------------------------------------------------------
(* The refinement                                                          *)

LEMMA PromiseInit == Init => Promise!Init
<1> SUFFICES ASSUME Init PROVE Late = {}
  BY DEF Init, Promise!Init
<1> QED BY DEF Init, Late, NoPass

\* What moved while a pass ran is late; a step of a pass only forgets.
LEMMA PassForgets ==
  ASSUME TypeOK, Underway, NEW p \in Pass, PassStep(p) \/ Outage(p)
  PROVE  Late' \subseteq Late
<1>1. PICK r \in PassRecord : pass' = [pass EXCEPT ![p] = r]
  BY PassStepType
<1>2. \A q \in Pass \ {p} : pass'[q] = pass[q]
  BY <1>1 DEF TypeOK
<1>3. pass'[p].moved \subseteq pass[p].moved
  <2>1. CASE pass'[p] = NoPass
    BY <2>1 DEF NoPass
  <2>2. ASSUME NEW e \in Epic, ReadTimeline(p, e) PROVE pass'[p].moved = pass[p].moved
    BY <2>2 DEF ReadTimeline, TypeOK, PassRecord
  <2>3. ASSUME NEW failed, PlanCompletion(p, failed) PROVE pass'[p].moved \subseteq pass[p].moved
    BY <2>3 DEF PlanCompletion, NoPass, TypeOK
  <2> QED BY <2>1, <2>2, <2>3, StepShape
<1> QED BY <1>2, <1>3 DEF Late

LEMMA WorldPromises ==
  ASSUME TypeOK, World
  PROVE  [Promise!Next]_Promise!vars
<1>1. ASSUME NEW c \in Child, OpenChild(c) PROVE Promise!Open(c)
  <2>1. \A q \in Pass : pass'[q].moved \subseteq pass[q].moved \union {c}
    BY <1>1 DEF OpenChild, TypeOK, PassRecord
  <2>2. Late' \subseteq Late \union {c}
    BY <2>1 DEF Late
  <2> QED BY <1>1, <2>2 DEF OpenChild, Promise!Open
<1>2. ASSUME NEW c \in Child, NEW reason, CloseChild(c, reason) PROVE Promise!Close(c, reason)
  BY <1>2 DEF CloseChild, Promise!Close, Late
<1>3. ASSUME NEW e \in Epic, ReopenEpic(e) PROVE Promise!ReopenEpic(e)
  BY <1>3 DEF ReopenEpic, Promise!ReopenEpic, Late
<1>4. ASSUME NEW e \in Epic, Hold(e) \/ Release(e) PROVE UNCHANGED Promise!vars
  BY <1>4 DEF Hold, Release, Promise!vars, Late
<1> QED BY <1>1, <1>2, <1>3, <1>4 DEF World, Promise!Next

LEMMA PassPromises ==
  ASSUME TypeOK, Underway, Informed, Warned, NEW p \in Pass, PassStep(p) \/ Outage(p)
  PROVE  Promise!Next
<1>1. Promise!Forget /\ child' = child
  BY PassForgets, PassStepType DEF Promise!Forget
<1>2. pass[p] \in PassRecord
  BY DEF TypeOK
<1>3. CASE CloseEpic(p)
  <2>1. Turn(p) \in Epic /\ Turn(p) \in pass[p].close /\ closed' = closed \union {Turn(p)}
        /\ UNCHANGED <<child, escalated>>
    BY <1>2, <1>3 DEF CloseEpic, PassRecord
  <2>2. \A c \in Child : Turn(p) \in PartOf[c] =>
          child[c] \in {"unborn", "completed"} \/ c \in Late
    BY <2>1 DEF Informed, CloseDone, Late
  <2>3. Promise!CloseEpic(Turn(p))
    BY <1>1, <2>1, <2>2 DEF Promise!CloseEpic
  <2> QED BY <2>1, <2>3 DEF Promise!Next
<1>4. CASE EscalationComment(p)
  <2>1. Turn(p) \in pass[p].escalate
    BY <1>4 DEF EscalationComment, Underway
  <2>2. Turn(p) \in Epic /\ escalated' = escalated \union {Turn(p)} /\ UNCHANGED <<child, closed>>
    BY <1>2, <1>4, <2>1 DEF EscalationComment, PassRecord
  <2>3. PICK c \in Child : Turn(p) \in PartOf[c] /\ (child[c] = "not_planned" \/ c \in Late)
    BY <2>1 DEF Warned, EscalateDropped, DroppedBelow, Late
  <2>4. Promise!Announce(Turn(p))
    BY <1>1, <2>2, <2>3 DEF Promise!Announce
  <2> QED BY <2>2, <2>4 DEF Promise!Next
<1>5. ASSUME UNCHANGED <<child, closed, escalated>> PROVE Promise!Next
  BY <1>1, <1>5 DEF Promise!Next, Promise!PassEnds
<1>6. UNCHANGED fleet => UNCHANGED <<child, closed, escalated>>
  BY DEF fleet
<1>7. CASE StartPass(p) \/ AlreadyEscalated(p) \/ WriteFails(p) \/ PassKilled(p)
  BY <1>5, <1>6, <1>7 DEF StartPass, AlreadyEscalated, WriteFails, PassKilled
<1>8. CASE ListIssues(p) \/ IssuesUnreadable(p)
  BY <1>5, <1>6, <1>8 DEF ListIssues, IssuesUnreadable, Listed
<1>9. ASSUME NEW e \in Epic, ReadTimeline(p, e) \/ TimelineUnreadable(p, e)
      PROVE  Promise!Next
  BY <1>5, <1>6, <1>9 DEF ReadTimeline, TimelineUnreadable
<1>10. ASSUME NEW failed, PlanCompletion(p, failed) PROVE Promise!Next
  BY <1>5, <1>6, <1>10 DEF PlanCompletion
<1>11. CASE Label(p)
  BY <1>5, <1>11 DEF Label
<1> QED BY <1>3, <1>4, <1>7, <1>8, <1>9, <1>10, <1>11
        DEF PassStep, Outage, Escalate, EscalateAgain

LEMMA PromiseNext ==
  TypeOK /\ Underway /\ Informed /\ Warned /\ [Next]_vars => [Promise!Next]_Promise!vars
<1> SUFFICES ASSUME TypeOK, Underway, Informed, Warned, [Next]_vars
             PROVE  [Promise!Next]_Promise!vars
  OBVIOUS
<1>1. CASE UNCHANGED vars
  BY <1>1 DEF vars, Promise!vars, Late
<1> QED BY <1>1, PassPromises, WorldPromises DEF Next

\* Completion implements EpicPromise: with any number of passes at once and any fault,
\* every step of a pass is a promised step, or none that shows from outside.
THEOREM CompletionKeepsPromise ==
  ASSUME OneTimeline
  PROVE  Spec => PromiseKept
<1>1. Spec => [](TypeOK /\ Underway /\ Informed /\ Warned)
  BY TypeInit, TypeNext, InformedInit, InformedNext, WarnedInit, WarnedNext, PTL DEF Spec
<1>2. Spec => Promise!Init /\ [][Promise!Next]_Promise!vars
  BY <1>1, PromiseInit, PromiseNext, PTL DEF Spec
<1> QED BY <1>2 DEF PromiseKept, Promise!Spec
=============================================================================
