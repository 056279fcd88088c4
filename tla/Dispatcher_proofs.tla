-------------------------- MODULE Dispatcher_proofs --------------------------
(***************************************************************************)
(* Proofs about Dispatcher, for every set of tickets, epics, repositories  *)
(* and overlapping passes, every bound and every set of faults unless said *)
(* otherwise.  Seven results:                                              *)
(*   FleetTypeCorrect     the type invariant, with Commenting: a pass      *)
(*                        comments on a ticket that it has flagged;        *)
(*   DispatchesUnblocked  OnlyUnblocked, from Unblocked: what a plan sends *)
(*                        was unblocked when it was read, and a blocker    *)
(*                        that is completed stays so;                      *)
(*   EpicsSerial          OneInFlight, from Serialized, where passes do not *)
(*                        overlap, lists of issues can be read and nobody  *)
(*                        labels by hand;                                  *)
(*   LanesAreSafe         what the promise EpicLanes implies, without      *)
(*                        passes;                                          *)
(*   FleetKeepsLanes      LanesKept: there, the passes implement EpicLanes;*)
(*   PlanIsDeterministic  every snapshot has one plan and no other;        *)
(*   PlanSettles          a plan made over the labels of another one sends *)
(*                        nothing more.                                    *)
(***************************************************************************)
EXTENDS Dispatcher, Tickets_proofs, FiniteSetTheorems, WellFoundedInduction

-----------------------------------------------------------------------------
(* Types                                                                   *)

DispatchRecord ==
  [pc : {"idle", "issues", "prs", "plan", "write", "comment"},
   repos : SUBSET Repo, open : SUBSET Ticket, epics : SUBSET Epic,
   prs : SUBSET Ticket, held : SUBSET Ticket, labels : [Ticket -> SUBSET Label],
   send : SUBSET Ticket, flag : SUBSET Ticket]

\* A pass that comments has a ticket it flagged at hand.
Commenting == \A p \in Pass : disp[p].pc = "comment" => Turn(p) \in disp[p].flag

LEMMA NoPassType == NoPass \in DispatchRecord
BY DEF NoPass, DispatchRecord

LEMMA NextActionType ==
  ASSUME DispatcherTypeOK, NEW p \in Pass
  PROVE  NextAction(p) \in DispatchRecord /\ NextAction(p).pc \in {"idle", "write"}
<1>1. disp[p] \in DispatchRecord
  BY DEF DispatcherTypeOK, DispatchRecord
<1> QED BY <1>1, NoPassType DEF NextAction, DispatchRecord, NoPass

\* The list of agent PRs, as what it does to the record of its pass.
LEMMA AgentPrsListed ==
  ASSUME DispatcherTypeOK, NEW p \in Pass, ListAgentPrs(p)
  PROVE  LET left == disp[p].repos \ {First(disp[p].repos)}
             here == {u \in Ticket : RepoOf[u] = First(disp[p].repos) /\ pr[u] = "open"}
         IN  \E seen \in {here} \union (IF "prs" \in Faults THEN {{}} ELSE {}) :
               disp' = [disp EXCEPT ![p] =
                          [disp[p] EXCEPT !.pc = IF left = {} THEN "plan" ELSE "issues",
                                          !.repos = left, !.prs = @ \union seen]]
<1> DEFINE left == disp[p].repos \ {First(disp[p].repos)}
           here == {u \in Ticket : RepoOf[u] = First(disp[p].repos) /\ pr[u] = "open"}
           step == IF left = {} THEN "plan" ELSE "issues"
<1>1. PICK seen \in {here} \union (IF "prs" \in Faults THEN {{}} ELSE {}) :
         disp' = [disp EXCEPT ![p].pc = step, ![p].repos = left, ![p].prs = @ \union seen]
  BY Zenon DEF ListAgentPrs
<1>2. DOMAIN disp = Pass
  BY DEF DispatcherTypeOK
<1> HIDE DEF left, here, step
<1>3. disp' = [disp EXCEPT ![p] = [disp[p] EXCEPT !.pc = step, !.repos = left,
                                                  !.prs = @ \union seen]]
  BY <1>1, <1>2
<1> QED BY <1>1, <1>3, Zenon DEF left, here, step

LEMMA FleetTypeInit == FleetInit => FleetTypeOK /\ Commenting
BY TicketTypeInit, NoPassType
DEF FleetInit, DispatcherInit, FleetTypeOK, DispatcherTypeOK, DispatchRecord, Commenting, NoPass

\* A pass that goes from one record to another keeps the type, and comments on what it may.
LEMMA PassGoes ==
  ASSUME DispatcherTypeOK, Commenting, NEW p \in Pass, NEW r \in DispatchRecord,
         disp' = [disp EXCEPT ![p] = r],
         r.pc = "comment" => Turn(p)' \in r.flag
  PROVE  /\ disp' \in [Pass -> DispatchRecord]
         /\ Commenting'
<1>1. disp' \in [Pass -> DispatchRecord]
  BY DEF DispatcherTypeOK, DispatchRecord
<1>2. ASSUME NEW q \in Pass, disp'[q].pc = "comment" PROVE Turn(q)' \in disp'[q].flag
  <2>1. CASE q = p
    BY <1>2, <2>1 DEF DispatcherTypeOK
  <2>2. CASE q # p
    <3>1. disp'[q] = disp[q]
      BY <2>2 DEF DispatcherTypeOK
    <3> QED BY <1>2, <3>1 DEF Commenting, Turn
  <2> QED BY <2>1, <2>2
<1> QED BY <1>1, <1>2 DEF Commenting

LEMMA StepType ==
  ASSUME FleetTypeOK, Commenting, DispatcherStep
  PROVE  (FleetTypeOK /\ Commenting)'
<1> USE DEF FleetTypeOK
<1>1. PICK p \in Pass : \/ StartPass(p)
                        \/ ListIssues(p)
                        \/ IssuesUnreadable(p)
                        \/ ListAgentPrs(p)
                        \/ Plan(p)
                        \/ Dispatch(p)
                        \/ AlreadyFlagged(p)
                        \/ Flag(p)
                        \/ FlagComment(p)
                        \/ DispatchWriteFails(p)
                        \/ PassKilled(p)
  BY DEF DispatcherStep
<1>2. disp[p] \in DispatchRecord /\ DOMAIN disp = Pass
  BY DEF DispatcherTypeOK, DispatchRecord
<1>3. ASSUME NEW r \in DispatchRecord, disp' = [disp EXCEPT ![p] = r], r.pc # "comment",
             UNCHANGED <<ticketVars, marked>>
      PROVE  (FleetTypeOK /\ Commenting)'
  <2>1. disp' \in [Pass -> DispatchRecord] /\ Commenting'
    BY <1>3, PassGoes
  <2> QED BY <1>3, <2>1 DEF DispatcherTypeOK, DispatchRecord, TicketTypeOK, ticketVars
<1>4. CASE StartPass(p)
  <2> DEFINE r == [disp[p] EXCEPT !.pc = "issues", !.repos = Repo]
  <2>1. r \in DispatchRecord /\ r.pc # "comment"
    BY <1>2 DEF DispatchRecord
  <2>2. disp' = [disp EXCEPT ![p] = r]
    BY <1>2, <1>4 DEF StartPass
  <2> QED BY <1>3, <1>4, <2>1, <2>2 DEF StartPass
<1>5. CASE ListIssues(p)
  <2> DEFINE here == {i \in Ticket \union Epic : RepoOf[i] = First(disp[p].repos)}
             seen == [t \in Ticket |-> IF t \in here THEN labels[t] ELSE disp[p].labels[t]]
             r == [disp[p] EXCEPT !.pc = "prs",
                     !.open = @ \union {t \in Ticket \intersect here : issue[t] = "open"},
                     !.held = @ \union (bullet \intersect here),
                     !.epics = @ \union (Epic \intersect here),
                     !.labels = seen]
  <2>1. seen \in [Ticket -> SUBSET Label]
    BY <1>2 DEF DispatchRecord, TicketTypeOK
  <2>2. disp' = [disp EXCEPT ![p] = r]
    BY <1>2, <1>5 DEF ListIssues
  <2>3. bullet \subseteq Ticket
    BY DEF TicketTypeOK
  <2> HIDE DEF seen, here
  <2>4. r \in DispatchRecord /\ r.pc # "comment"
    BY <1>2, <2>1, <2>3 DEF DispatchRecord
  <2> HIDE DEF r
  <2> QED BY <1>3, <1>5, <2>2, <2>4 DEF ListIssues
<1>6. CASE IssuesUnreadable(p)
  <2> DEFINE r == [disp[p] EXCEPT !.pc = "prs"]
  <2>1. r \in DispatchRecord /\ r.pc # "comment"
    BY <1>2 DEF DispatchRecord
  <2>2. disp' = [disp EXCEPT ![p] = r]
    BY <1>2, <1>6 DEF IssuesUnreadable
  <2> QED BY <1>3, <1>6, <2>1, <2>2 DEF IssuesUnreadable
<1>7. CASE ListAgentPrs(p)
  <2> DEFINE left == disp[p].repos \ {First(disp[p].repos)}
             here == {t \in Ticket : RepoOf[t] = First(disp[p].repos) /\ pr[t] = "open"}
             r(seen) == [disp[p] EXCEPT !.pc = IF left = {} THEN "plan" ELSE "issues",
                                        !.repos = left, !.prs = @ \union seen]
  <2>1. PICK seen \in {here} \union (IF "prs" \in Faults THEN {{}} ELSE {}) :
           disp' = [disp EXCEPT ![p] = r(seen)]
    BY <1>7, AgentPrsListed
  <2>2. seen \subseteq Ticket
    BY <2>1
  <2>3. r(seen) \in DispatchRecord /\ r(seen).pc # "comment"
    BY <1>2, <2>2 DEF DispatchRecord
  <2> HIDE DEF r
  <2> QED BY <1>3, <1>7, <2>1, <2>3 DEF ListAgentPrs
<1>8. CASE Plan(p)
  <2>1. PICK failed : PlanFor(p, failed)
    BY <1>8 DEF Plan
  <2>2. PICK r \in DispatchRecord : disp' = [disp EXCEPT ![p] = r] /\ r.pc # "comment"
    <3> DEFINE S == Snapshot(p, failed)
    <3>1. PICK D \in SUBSET ReadyChildren(S) :
             disp' = [disp EXCEPT ![p] =
                        IF D \union FlaggedChildren(S) = {} THEN NoPass
                        ELSE [NoPass EXCEPT !.pc = "write", !.send = D,
                                            !.flag = FlaggedChildren(S)]]
      BY <2>1 DEF PlanFor
    <3>2. S.open \subseteq Ticket
      BY <1>2 DEF Snapshot, DispatchRecord
    <3>3. D \subseteq Ticket /\ FlaggedChildren(S) \subseteq Ticket
      BY <3>1, <3>2 DEF ReadyChildren, FlaggedChildren, Children
    <3> HIDE DEF S
    <3> DEFINE w == [NoPass EXCEPT !.pc = "write", !.send = D, !.flag = FlaggedChildren(S)]
    <3>4. w \in DispatchRecord /\ w.pc # "comment" /\ NoPass.pc # "comment"
      BY <3>3, NoPassType DEF DispatchRecord, NoPass
    <3> QED BY <3>1, <3>4, NoPassType
  <2> QED BY <1>3, <2>1, <2>2 DEF PlanFor
<1>9. CASE Dispatch(p)
  <2>1. Turn(p) \in Ticket
    BY <1>2, <1>9 DEF Dispatch, DispatchRecord
  <2>2. TicketTypeOK'
    BY <1>9, <2>1, ApplyImplementType DEF Dispatch, TicketTypeOK
  <2>3. disp' \in [Pass -> DispatchRecord] /\ Commenting'
    BY <1>9, NextActionType, PassGoes DEF Dispatch
  <2> QED BY <1>9, <2>2, <2>3 DEF Dispatch, DispatcherTypeOK, DispatchRecord
<1>10. CASE AlreadyFlagged(p) \/ DispatchWriteFails(p)
  BY <1>3, <1>10, NextActionType DEF AlreadyFlagged, DispatchWriteFails
<1>11. CASE Flag(p)
  <2> DEFINE r == [disp[p] EXCEPT !.pc = "comment"]
  <2>1. Turn(p) \in Ticket
    BY <1>2, <1>11 DEF Flag, DispatchRecord
  <2>2. TicketTypeOK'
    BY <1>11, <2>1 DEF Flag, TicketTypeOK, Label
  <2>3. r \in DispatchRecord /\ r.flag = disp[p].flag /\ r.send = disp[p].send
    BY <1>2 DEF DispatchRecord
  <2>4. disp' = [disp EXCEPT ![p] = r]
    BY <1>2, <1>11 DEF Flag
  <2>5. Turn(p)' = Turn(p)
    BY <1>2, <2>3, <2>4 DEF Turn
  <2>6. disp' \in [Pass -> DispatchRecord] /\ Commenting'
    BY <1>11, <2>3, <2>4, <2>5, PassGoes DEF Flag
  <2> QED BY <1>11, <2>2, <2>6 DEF Flag, DispatcherTypeOK, DispatchRecord
<1>12. CASE FlagComment(p)
  <2>1. Turn(p) \in Ticket
    BY <1>2, <1>12 DEF FlagComment, DispatchRecord, Commenting
  <2>2. disp' \in [Pass -> DispatchRecord] /\ Commenting'
    BY <1>12, NextActionType, PassGoes DEF FlagComment
  <2>3. marked' \in SUBSET Ticket
    BY <1>12, <2>1 DEF FlagComment, DispatcherTypeOK
  <2> QED BY <1>12, <2>2, <2>3
          DEF FlagComment, DispatcherTypeOK, DispatchRecord, TicketTypeOK, ticketVars
<1>13. CASE PassKilled(p)
  BY <1>3, <1>13, NoPassType DEF PassKilled, NoPass
<1> QED BY <1>1, <1>4, <1>5, <1>6, <1>7, <1>8, <1>9, <1>10, <1>11, <1>12, <1>13

LEMMA FleetTypeNext ==
  FleetTypeOK /\ Commenting /\ [FleetNext]_fleetVars => (FleetTypeOK /\ Commenting)'
<1> SUFFICES ASSUME FleetTypeOK, Commenting, [FleetNext]_fleetVars
             PROVE  (FleetTypeOK /\ Commenting)'
  OBVIOUS
<1>1. CASE DispatcherStep
  BY <1>1, StepType
<1>2. CASE Beside /\ UNCHANGED dispVars
  <2>1. TicketTypeOK'
    BY <1>2, WorldType, RunnerType DEF Beside, FleetTypeOK
  <2> QED BY <1>2, <2>1 DEF FleetTypeOK, DispatcherTypeOK, Commenting, Turn, dispVars
<1>3. CASE UNCHANGED fleetVars
  BY <1>3 DEF FleetTypeOK, TicketTypeOK, DispatcherTypeOK, Commenting, Turn, fleetVars, ticketVars,
              dispVars
<1> QED BY <1>1, <1>2, <1>3 DEF FleetNext

\* Every variable of the fleet and of the passes keeps its type.
THEOREM FleetTypeCorrect == FleetSpec => []FleetTypeOK
<1> QED BY FleetTypeInit, FleetTypeNext, PTL DEF FleetSpec

-----------------------------------------------------------------------------
(* Nothing is dispatched over a blocker                                    *)

\* Every blocker of a ticket is closed as completed, and every bullet of it is clean.
Free(t) ==
  /\ \A b \in BlockedBy[t] : issue[b] = "completed"
  /\ t \notin Unresolvable

\* What a pass is about to label is free.
Unblocked == \A p \in Pass : \A t \in disp[p].send : Free(t)

LEMMA ReadyIsFree ==
  ASSUME FleetTypeOK, NEW p \in Pass, NEW failed, NEW t \in ReadyChildren(Snapshot(p, failed))
  PROVE  /\ Free(t)
         /\ t \in disp[p].held => fix331 = "completed"
<1> DEFINE S == Snapshot(p, failed)
           onCycle == OnCycle(S.open, S.refs, t)
           none == S.refs[t] = {} /\ t \notin Unresolvable
<1>1. t \in Ticket
  BY DEF ReadyChildren, Children, Snapshot, FleetTypeOK, DispatcherTypeOK
<1>2. S.refs[t] = BlockedBy[t] \union (IF t \in disp[p].held THEN {Bug331} ELSE {})
  BY <1>1 DEF Snapshot
<1>3. ASSUME NEW b \in BlockedBy[t], S.state[b] = "completed" PROVE issue[b] = "completed"
  <2>1. b \in Ticket /\ b # Bug331
    BY <1>1, PlanAssumption, Bug331Assumption
  <2>2. S.state[b] = IF b \in disp[p].open THEN "open"
                     ELSE IF b \in failed THEN "unknown"
                     ELSE IF b = Bug331 THEN fix331 ELSE issue[b]
    BY <2>1 DEF Snapshot
  <2> QED BY <1>3, <2>1, <2>2
<1>7. ASSUME S.state[Bug331] = "completed" PROVE fix331 = "completed"
  <2>1. Bug331 \notin disp[p].open
    BY Bug331Assumption DEF FleetTypeOK, DispatcherTypeOK
  <2>2. S.state[Bug331] = IF Bug331 \in failed THEN "unknown" ELSE fix331
    BY <2>1 DEF Snapshot
  <2> QED BY <1>7, <2>2
<1>4. IsReady(onCycle, none, t \in Unresolvable, S.refs[t], S.state) = "ready"
  BY DEF ReadyChildren, ChildVerdict
<1> HIDE DEF S, onCycle, none
<1>5. CASE none
  BY <1>2, <1>5 DEF Free, none
<1>6. CASE ~none
  <2>1. ~onCycle
    BY <1>4 DEF IsReady
  <2>2. /\ t \notin Unresolvable
        /\ \A r \in S.refs[t] : S.state[r] \notin {"not_planned", "unknown"}
    BY <1>4, <1>6, <2>1 DEF IsReady
  <2>3. ASSUME NEW r \in S.refs[t] PROVE S.state[r] # "open" /\ S.state[r] \in {"open", "completed"}
    <3>1. \A q \in S.refs[t] : S.state[q] \in {"open", "completed"}
      <4>1. ASSUME NEW q \in S.refs[t] PROVE S.state[q] \in BlockerState
        <5>1. q \in Ticket \union {Bug331}
          BY <1>1, <1>2, <4>1, PlanAssumption
        <5>2. issue \in [Ticket -> IssueState] /\ fix331 \in IssueState
          BY DEF FleetTypeOK, TicketTypeOK
        <5> QED BY <5>1, <5>2, Bug331Assumption DEF S, Snapshot, BlockerState, IssueState
      <4> QED BY <2>2, <4>1 DEF BlockerState
    <3>2. ~\E q \in S.refs[t] : S.state[q] = "open"
      BY <1>4, <1>6, <2>1, <2>2, <3>1 DEF IsReady
    <3> QED BY <3>1, <3>2
  <2> QED BY <1>2, <1>3, <1>7, <2>2, <2>3 DEF Free
<1> QED BY <1>5, <1>6

\* A ticket that is completed stays so, and so a free one stays free.
LEMMA FreeStays ==
  ASSUME FleetTypeOK, [FleetNext]_fleetVars, NEW t \in Ticket, Free(t)
  PROVE  Free(t)'
<1>1. ASSUME NEW b \in Ticket, issue[b] = "completed" PROVE issue'[b] = "completed"
  <2>1. CASE DispatcherStep
    BY <1>1, <2>1
    DEF DispatcherStep, StartPass, ListIssues, IssuesUnreadable, ListAgentPrs, Plan, PlanFor,
        Dispatch, AlreadyFlagged, Flag, FlagComment, DispatchWriteFails, PassKilled, ticketVars
  <2>2. CASE World
    BY <1>1, <2>2
    DEF World, Merge, ClosePr, CloseNotPlanned, Hold, Release, Unlabel, HandLabel, Fix331,
        FleetTypeOK, TicketTypeOK
  <2>3. CASE \E u \in Ticket, c \in Cycle : Runner(u, c)
    BY <1>1, <2>3
    DEF Runner, Guard, StartJob, NoCommits, Commit, OpenPr, FinishJob, FailJob
  <2> QED BY <1>1, <2>1, <2>2, <2>3 DEF FleetNext, Beside, fleetVars, ticketVars
<1> QED BY <1>1, PlanAssumption DEF Free

LEMMA UnblockedNext ==
  ASSUME FleetTypeOK, Unblocked, [FleetNext]_fleetVars
  PROVE  Unblocked'
<1> SUFFICES ASSUME NEW p \in Pass, NEW t \in disp'[p].send PROVE Free(t)'
  BY DEF Unblocked
<1>1. disp[p] \in DispatchRecord /\ DOMAIN disp = Pass
  BY DEF FleetTypeOK, DispatcherTypeOK, DispatchRecord
<1>2. CASE t \in disp[p].send
  BY <1>1, <1>2, FreeStays DEF Unblocked, DispatchRecord
<1>3. CASE t \notin disp[p].send
  <2>1. PICK q \in Pass : \E failed : PlanFor(q, failed)
    <3>1. ASSUME NEW q \in Pass,
                 StartPass(q) \/ IssuesUnreadable(q) \/ ListAgentPrs(q) \/ Flag(q)
          PROVE  disp'[p].send = disp[p].send
      <4>1. CASE q = p
        <5>1. CASE StartPass(p)
          BY <1>1, <5>1 DEF StartPass, DispatchRecord
        <5>2. CASE IssuesUnreadable(p)
          BY <1>1, <5>2 DEF IssuesUnreadable, DispatchRecord
        <5>3. CASE Flag(p)
          BY <1>1, <5>3 DEF Flag, DispatchRecord
        <5>4. CASE ListAgentPrs(p)
          <6> DEFINE left == disp[p].repos \ {First(disp[p].repos)}
                     here == {u \in Ticket : RepoOf[u] = First(disp[p].repos) /\ pr[u] = "open"}
                     r(seen) == [disp[p] EXCEPT !.pc = IF left = {} THEN "plan" ELSE "issues",
                                                !.repos = left, !.prs = @ \union seen]
          <6>1. PICK seen \in {here} \union (IF "prs" \in Faults THEN {{}} ELSE {}) :
                   disp' = [disp EXCEPT ![p] = r(seen)]
            BY <5>4, AgentPrsListed DEF FleetTypeOK
          <6>2. r(seen).send = disp[p].send
            BY <1>1 DEF DispatchRecord
          <6> HIDE DEF r
          <6> QED BY <1>1, <6>1, <6>2
        <5> QED BY <3>1, <4>1, <5>1, <5>2, <5>3, <5>4
      <4>2. CASE q # p
        BY <1>1, <3>1, <4>2 DEF StartPass, IssuesUnreadable, ListAgentPrs, Flag
      <4> QED BY <4>1, <4>2
    <3>2. ASSUME NEW q \in Pass, ListIssues(q) PROVE disp'[p].send = disp[p].send
      <4>1. CASE q = p
        BY <1>1, <3>2, <4>1 DEF ListIssues, DispatchRecord
      <4>2. CASE q # p
        BY <1>1, <3>2, <4>2 DEF ListIssues
      <4> QED BY <4>1, <4>2
    <3>3. ASSUME NEW q \in Pass, disp' \in {[disp EXCEPT ![q] = NextAction(q)],
                                           [disp EXCEPT ![q] = NoPass]}
          PROVE  disp'[p].send \subseteq disp[p].send
      <4>1. NextAction(p).send \subseteq disp[p].send /\ NoPass.send = {}
        BY <1>1 DEF NextAction, NoPass, DispatchRecord
      <4> QED BY <1>1, <3>3, <4>1
    <3>4. ASSUME NEW q \in Pass,
                 \/ Dispatch(q) \/ AlreadyFlagged(q) \/ FlagComment(q) \/ DispatchWriteFails(q)
                 \/ PassKilled(q)
          PROVE  disp'[p].send \subseteq disp[p].send
      BY <3>3, <3>4 DEF Dispatch, AlreadyFlagged, FlagComment, DispatchWriteFails, PassKilled
    <3> QED
      BY <1>3, <3>1, <3>2, <3>4 DEF FleetNext, DispatcherStep, Plan, fleetVars, dispVars
  <2>2. PICK failed : PlanFor(q, failed)
    BY <2>1
  <2> DEFINE S == Snapshot(q, failed)
  <2>3. PICK D \in SUBSET ReadyChildren(S) :
           disp' = [disp EXCEPT ![q] =
                      IF D \union FlaggedChildren(S) = {} THEN NoPass
                      ELSE [NoPass EXCEPT !.pc = "write", !.send = D,
                                          !.flag = FlaggedChildren(S)]]
    BY <2>2 DEF PlanFor
  <2> HIDE DEF S
  <2>4. t \in ReadyChildren(S)
    BY <1>1, <1>3, <2>3 DEF NoPass
  <2>5. Free(t)
    BY <2>4, ReadyIsFree DEF S
  <2>6. UNCHANGED issue
    BY <2>2 DEF PlanFor, ticketVars
  <2> QED BY <2>5, <2>6 DEF Free
<1> QED BY <1>2, <1>3

LEMMA WhoLabels ==
  ASSUME FleetTypeOK, "relabel" \notin Faults, [FleetNext]_fleetVars,
         NEW t \in Ticket, cycle'[t] > cycle[t]
  PROVE  \E p \in Pass : Dispatch(p) /\ t = Turn(p)
<1>1. cycle[t] \in Nat
  BY TicketAssumption DEF FleetTypeOK, TicketTypeOK
<1>2. cycle' # cycle
  BY <1>1
<1>3. ~Beside
  BY <1>2
  DEF Beside, World, Merge, ClosePr, CloseNotPlanned, Hold, Release, Unlabel, HandLabel, Fix331,
      Runner, Guard, StartJob, NoCommits, Commit, OpenPr, FinishJob, FailJob
<1>4. PICK p \in Pass : Dispatch(p)
  BY <1>2, <1>3
  DEF FleetNext, DispatcherStep, StartPass, ListIssues, IssuesUnreadable, ListAgentPrs, Plan,
      PlanFor, AlreadyFlagged, Flag, FlagComment, DispatchWriteFails, PassKilled, fleetVars,
      ticketVars
<1>5. cycle' = [cycle EXCEPT ![Turn(p)] = @ + 1]
  BY <1>2, <1>4 DEF Dispatch, ApplyImplement
<1>6. t = Turn(p)
  BY <1>1, <1>5 DEF FleetTypeOK, TicketTypeOK
<1> QED BY <1>4, <1>6

\* Where nobody labels by hand, a ticket is labeled only when every blocker of it is closed
\* as completed and every bullet of it is clean, however old the reads are and whichever
\* of them fail.
THEOREM DispatchesUnblocked ==
  ASSUME "relabel" \notin Faults
  PROVE  FleetSpec => OnlyUnblocked
<1>1. FleetInit => Unblocked
  BY DEF FleetInit, DispatcherInit, NoPass, Unblocked
<1>2. FleetTypeOK /\ Unblocked /\ [FleetNext]_fleetVars => Unblocked'
  BY UnblockedNext
<1>3. ASSUME FleetTypeOK, Unblocked, [FleetNext]_fleetVars,
             NEW t \in Ticket, cycle'[t] > cycle[t]
      PROVE  /\ \A b \in BlockedBy[t] : issue[b] = "completed"
             /\ t \notin Unresolvable
  BY <1>3, WhoLabels DEF Unblocked, Dispatch, Free
<1>4. FleetTypeOK /\ Unblocked /\ [FleetNext]_fleetVars =>
        [\A t \in Ticket : cycle'[t] > cycle[t] =>
           /\ \A b \in BlockedBy[t] : issue[b] = "completed"
           /\ t \notin Unresolvable]_fleetVars
  BY <1>3
<1> QED
  BY <1>1, <1>2, <1>4, FleetTypeInit, FleetTypeNext, PTL DEF FleetSpec, OnlyUnblocked

-----------------------------------------------------------------------------
(* One ticket in flight per epic                                           *)

\* Passes do not overlap, issue lists can be read, and people leave the label alone.
Serial ==
  /\ \A p, q \in Pass : p = q
  /\ "issues" \notin Faults /\ "relabel" \notin Faults

Taken(t) == "implement" \in labels[t]

\* What works carries the label.
Labeled ==
  \A t \in Ticket : pr[t] # "none" \/ (\E c \in Cycle : runs[t][c] # "none") => Taken(t)

\* The issues whose repository pass p has listed.
Read(p, i) ==
  \/ RepoOf[i] \notin disp[p].repos
  \/ disp[p].pc = "prs" /\ RepoOf[i] = First(disp[p].repos)

\* What a pass has read of the labels and the epics is so still.
Knows(p) ==
  disp[p].pc \in {"issues", "prs", "plan"} =>
    /\ disp[p].pc = "plan" => disp[p].repos = {}
    /\ \A t \in Ticket : Read(p, t) =>
         /\ issue[t] = "open" => t \in disp[p].open
         /\ "implement" \in disp[p].labels[t] <=> Taken(t)
    /\ \A e \in Epic : Read(p, e) => e \in disp[p].epics

Apart(t, u) == PartOf[t] \intersect PartOf[u] = {}

\* What a pass will label has no epic in common with anything labeled, or with another.
Sends(p) ==
  /\ \A t \in disp[p].send, u \in Ticket : issue[u] = "open" /\ Taken(u) => Apart(t, u)
  /\ \A t, u \in disp[p].send : t # u => Apart(t, u)

\* No two open tickets of an epic carry the label.
OneLabeled ==
  \A t, u \in Ticket :
    /\ issue[t] = "open" /\ Taken(t)
    /\ issue[u] = "open" /\ Taken(u)
    /\ t # u
    => Apart(t, u)

Serialized == Labeled /\ OneLabeled /\ \A p \in Pass : Knows(p) /\ Sends(p)

LEMMA SerializedInit == FleetInit => Serialized
<1> SUFFICES ASSUME FleetInit PROVE Serialized
  OBVIOUS
<1>1. Labeled /\ OneLabeled
  BY DEF FleetInit, TicketInit, Labeled, OneLabeled, Taken
<1>2. \A p \in Pass : Knows(p) /\ Sends(p)
  BY DEF FleetInit, DispatcherInit, NoPass, Knows, Sends
<1> QED BY <1>1, <1>2 DEF Serialized

\* Beside the passes no ticket is opened again, and nobody labels or unlabels one.
LEMMA BesideKeeps ==
  ASSUME FleetTypeOK, "relabel" \notin Faults, Beside, NEW t \in Ticket
  PROVE  /\ Taken(t)' <=> Taken(t)
         /\ issue'[t] = "open" => issue[t] = "open"
<1>1. CASE World
  <2>1. ASSUME NEW u \in Ticket,
               Merge(u) \/ ClosePr(u) \/ CloseNotPlanned(u)
        PROVE  UNCHANGED labels /\ (issue'[t] = "open" => issue[t] = "open")
    BY <2>1 DEF Merge, ClosePr, CloseNotPlanned, FleetTypeOK, TicketTypeOK
  <2>2. ASSUME NEW u \in Ticket, Hold(u) \/ Release(u)
        PROVE  UNCHANGED issue /\ (Taken(t)' <=> Taken(t))
    BY <2>2 DEF Hold, Release, Taken, Excluded, FleetTypeOK, TicketTypeOK
  <2>3. \A u \in Ticket : ~Unlabel(u) /\ ~HandLabel(u)
    BY DEF Unlabel, HandLabel
  <2> QED BY <1>1, <2>1, <2>2, <2>3 DEF World, Fix331, Taken
<1>2. ASSUME NEW u \in Ticket, NEW c \in Cycle, Runner(u, c)
      PROVE  UNCHANGED <<issue, labels>>
  BY <1>2 DEF Runner, Guard, StartJob, NoCommits, Commit, OpenPr, FinishJob, FailJob
<1> QED BY <1>1, <1>2 DEF Beside, Taken

LEMMA BesideLabeled ==
  ASSUME FleetTypeOK, "relabel" \notin Faults, Beside, Labeled
  PROVE  Labeled'
<1> SUFFICES ASSUME NEW t \in Ticket,
                    pr'[t] # "none" \/ \E c \in Cycle : runs'[t][c] # "none"
             PROVE  pr[t] # "none" \/ \E c \in Cycle : runs[t][c] # "none"
  BY BesideKeeps DEF Labeled
<1>1. CASE World
  <2>1. UNCHANGED runs
    BY <1>1
    DEF World, Merge, ClosePr, CloseNotPlanned, Hold, Release, Unlabel, HandLabel, Fix331
  <2>2. pr'[t] # "none" => pr[t] # "none"
    BY <1>1
    DEF World, Merge, ClosePr, CloseNotPlanned, Hold, Release, Unlabel, HandLabel, Fix331,
        FleetTypeOK, TicketTypeOK
  <2> QED BY <2>1, <2>2
<1>2. ASSUME NEW u \in Ticket, NEW d \in Cycle, Runner(u, d)
      PROVE  pr[t] # "none" \/ \E c \in Cycle : runs[t][c] # "none"
  <2>1. runs[u][d] # "none"
    BY <1>2, Zenon
    DEF Runner, Guard, StartJob, NoCommits, Commit, OpenPr, FinishJob, FailJob, InJob
  <2>2. CASE t = u
    BY <2>1, <2>2
  <2>3. CASE t # u
    <3>1. PICK x \in RunState : runs' = [runs EXCEPT ![u][d] = x]
      BY <1>2, Zenon DEF Runner, Guard, GuardVerdicts, StartJob, NoCommits, Commit, OpenPr,
         FinishJob, FailJob, RunState
    <3>2. runs'[t] = runs[t]
      BY <2>3, <3>1 DEF FleetTypeOK, TicketTypeOK
    <3>3. pr'[t] = pr[t]
      BY <1>2, <2>3
      DEF Runner, Guard, StartJob, NoCommits, Commit, OpenPr, FinishJob, FailJob,
          FleetTypeOK, TicketTypeOK
    <3> QED BY <3>2, <3>3
  <2> QED BY <2>2, <2>3
<1> QED BY <1>1, <1>2 DEF Beside

LEMMA SerializedBeside ==
  ASSUME FleetTypeOK, Serial, Serialized, Beside, UNCHANGED dispVars
  PROVE  Serialized'
<1>1. Labeled'
  BY BesideLabeled DEF Serial, Serialized
<1>2. OneLabeled'
  BY BesideKeeps DEF Serial, Serialized, OneLabeled, Apart
<1>3. ASSUME NEW p \in Pass PROVE Knows(p)' /\ Sends(p)'
  <2>1. disp' = disp /\ \A i : Read(p, i)' <=> Read(p, i)
    BY DEF dispVars, Read
  <2>2. Knows(p)'
    BY <2>1, BesideKeeps DEF Serial, Serialized, Knows
  <2>3. Sends(p)'
    BY <2>1, BesideKeeps DEF Serial, Serialized, Sends, Apart
  <2> QED BY <2>2, <2>3
<1> QED BY <1>1, <1>2, <1>3 DEF Serialized

\* A step of the pass that labels nothing keeps what was labeled, and goes on from there.
LEMMA SerializedPass ==
  ASSUME FleetTypeOK, Serial, Serialized, NEW p \in Pass,
         UNCHANGED <<issue, pr, runs>>, \A t \in Ticket : Taken(t)' <=> Taken(t),
         DOMAIN disp' = Pass,
         Knows(p)',
         Sends(p)' \/ disp'[p].send \subseteq disp[p].send
  PROVE  Serialized'
<1>1. Labeled' /\ OneLabeled'
  BY DEF Serialized, Labeled, OneLabeled, Apart
<1>2. Sends(p)'
  BY DEF Serialized, Sends, Apart
<1> QED BY <1>1, <1>2 DEF Serial, Serialized

LEMMA SerializedRead ==
  ASSUME FleetTypeOK, Serial, Serialized, NEW p \in Pass,
         StartPass(p) \/ ListIssues(p) \/ ListAgentPrs(p)
  PROVE  Serialized'
<1>1. disp[p] \in DispatchRecord /\ DOMAIN disp = Pass
  BY DEF FleetTypeOK, DispatcherTypeOK, DispatchRecord
<1>2. UNCHANGED ticketVars /\ DOMAIN disp' = Pass
  BY <1>1 DEF StartPass, ListIssues, ListAgentPrs
<1>3. UNCHANGED <<issue, pr, runs>> /\ \A t \in Ticket : Taken(t)' <=> Taken(t)
  BY <1>2 DEF ticketVars, Taken
<1>4. CASE StartPass(p)
  <2>1. disp'[p] = [disp[p] EXCEPT !.pc = "issues", !.repos = Repo]
    BY <1>1, <1>4 DEF StartPass
  <2>2. \A i \in Ticket \union Epic : ~Read(p, i)'
    BY <1>1, <2>1, DispatcherAssumption DEF Read, DispatchRecord
  <2>3. Knows(p)'
    BY <1>1, <2>1, <2>2 DEF Knows, DispatchRecord
  <2> QED BY <1>1, <1>2, <1>3, <2>1, <2>3, SerializedPass DEF DispatchRecord
<1>5. CASE ListIssues(p)
  <2> DEFINE here == {i \in Ticket \union Epic : RepoOf[i] = First(disp[p].repos)}
             seen == [t \in Ticket |-> IF t \in here THEN labels[t] ELSE disp[p].labels[t]]
             r == [disp[p] EXCEPT !.pc = "prs",
                     !.open = @ \union {t \in Ticket \intersect here : issue[t] = "open"},
                     !.held = @ \union (bullet \intersect here),
                     !.epics = @ \union (Epic \intersect here),
                     !.labels = seen]
  <2>1. disp'[p] = r /\ disp[p].pc = "issues"
    BY <1>1, <1>5 DEF ListIssues
  <2>2. /\ r.pc = "prs" /\ r.repos = disp[p].repos /\ r.send = disp[p].send
        /\ r.open = disp[p].open \union {t \in Ticket \intersect here : issue[t] = "open"}
        /\ r.epics = disp[p].epics \union (Epic \intersect here)
        /\ r.labels = seen
    BY <1>1 DEF DispatchRecord
  <2> HIDE DEF r
  <2>3. \A i \in Ticket \union Epic : Read(p, i)' => Read(p, i) \/ i \in here
    BY <2>1, <2>2 DEF Read
  <2>4. Knows(p)
    BY DEF Serialized
  <2>5. ASSUME NEW t \in Ticket, Read(p, t)'
        PROVE  /\ issue[t] = "open" => t \in r.open
               /\ "implement" \in r.labels[t] <=> Taken(t)
    BY <2>1, <2>2, <2>3, <2>4, <2>5 DEF Knows, Taken
  <2>6. ASSUME NEW e \in Epic, Read(p, e)' PROVE e \in r.epics
    BY <2>1, <2>2, <2>3, <2>4, <2>6 DEF Knows
  <2>7. Knows(p)'
    BY <1>3, <2>1, <2>2, <2>5, <2>6 DEF Knows
  <2> QED BY <1>2, <1>3, <2>1, <2>2, <2>7, SerializedPass
<1>6. CASE ListAgentPrs(p)
  <2> DEFINE left == disp[p].repos \ {First(disp[p].repos)}
             here == {u \in Ticket : RepoOf[u] = First(disp[p].repos) /\ pr[u] = "open"}
             r(seen) == [disp[p] EXCEPT !.pc = IF left = {} THEN "plan" ELSE "issues",
                                        !.repos = left, !.prs = @ \union seen]
  <2>1. PICK seen \in {here} \union (IF "prs" \in Faults THEN {{}} ELSE {}) :
           disp' = [disp EXCEPT ![p] = r(seen)]
    BY <1>6, AgentPrsListed DEF FleetTypeOK
  <2>2. /\ r(seen).pc \in {"plan", "issues"} /\ r(seen).repos = left
        /\ r(seen).pc = "plan" => left = {}
        /\ r(seen).send = disp[p].send /\ r(seen).open = disp[p].open
        /\ r(seen).epics = disp[p].epics /\ r(seen).labels = disp[p].labels
    BY <1>1 DEF DispatchRecord
  <2>3. disp'[p] = r(seen) /\ disp[p].pc = "prs"
    BY <1>1, <1>6, <2>1 DEF ListAgentPrs
  <2> HIDE DEF r
  <2>4. \A i \in Ticket \union Epic : Read(p, i)' => Read(p, i)
    BY <2>2, <2>3 DEF Read
  <2>5. Knows(p)
    BY DEF Serialized
  <2>6. Knows(p)'
    BY <1>3, <2>2, <2>3, <2>4, <2>5 DEF Knows
  <2> QED BY <1>2, <1>3, <2>2, <2>3, <2>6, SerializedPass
<1> QED BY <1>4, <1>5, <1>6

\* The plan sends what is apart from everything labeled.
LEMMA PlanIsApart ==
  ASSUME FleetTypeOK, Serial, Serialized, NEW p \in Pass, disp[p].pc = "plan",
         NEW failed, NEW D \in SUBSET ReadyChildren(Snapshot(p, failed)),
         IsDispatch(Snapshot(p, failed), D)
  PROVE  /\ \A t \in D, u \in Ticket : issue[u] = "open" /\ Taken(u) => Apart(t, u)
         /\ \A t, u \in D : t # u => Apart(t, u)
<1> DEFINE S == Snapshot(p, failed)
<1>1. /\ S.open = disp[p].open /\ S.epics = disp[p].epics /\ S.labels = disp[p].labels
  BY DEF Snapshot
<1>2. /\ \A t \in Ticket : /\ issue[t] = "open" => t \in S.open
                           /\ "implement" \in S.labels[t] <=> Taken(t)
      /\ Epic \subseteq S.epics
      /\ S.open \subseteq Ticket
  BY <1>1 DEF Serialized, Knows, Read, FleetTypeOK, DispatcherTypeOK
<1>3. \A t \in Ticket : EpicsOf(S, t) = PartOf[t]
  BY <1>2, PlanAssumption DEF EpicsOf
<1>4. D \subseteq Ticket
  BY <1>2 DEF ReadyChildren, Children
<1>5. \A t \in D : EpicsOf(S, t) \intersect
             (BusyEpics(S) \union UNION {EpicsOf(S, u) : u \in {v \in D : v < t}}) = {}
  BY DEF IsDispatch
<1> HIDE DEF S
<1>6. ASSUME NEW t \in D, NEW u \in Ticket, issue[u] = "open", Taken(u)
      PROVE  Apart(t, u)
  <2>1. CASE EpicsOf(S, u) = {}
    BY <1>3, <1>6, <2>1 DEF Apart
  <2>2. CASE EpicsOf(S, u) # {}
    <3>1. u \in Children(S) /\ "implement" \in S.labels[u]
      BY <1>2, <1>6, <2>2 DEF Children
    <3>2. EpicsOf(S, u) \subseteq BusyEpics(S)
      <4> DEFINE L == UNION {EpicsOf(S, v) : v \in {w \in Children(S) : "implement" \in S.labels[w]}}
      <4>1. u \in {w \in Children(S) : "implement" \in S.labels[w]}
        BY <3>1
      <4>2. \A e \in EpicsOf(S, u) : e \in L
        BY <4>1
      <4>3. L \subseteq BusyEpics(S)
        BY DEF BusyEpics
      <4> HIDE DEF L
      <4> QED BY <4>2, <4>3
    <3>3. EpicsOf(S, t) \intersect BusyEpics(S) = {}
      BY <1>5
    <3> QED BY <1>3, <1>4, <3>2, <3>3 DEF Apart
  <2> QED BY <2>1, <2>2
<1>7. ASSUME NEW t \in D, NEW u \in D, u < t PROVE Apart(t, u)
  <2>1. EpicsOf(S, t) \intersect EpicsOf(S, u) = {}
    BY <1>5, <1>7
  <2> QED BY <1>3, <1>4, <2>1 DEF Apart
<1>8. ASSUME NEW t \in D, NEW u \in D, t # u PROVE Apart(t, u)
  <2>1. t < u \/ u < t
    BY <1>4, <1>8, TicketAssumption
  <2> QED BY <1>7, <2>1 DEF Apart
<1> QED BY <1>6, <1>8

LEMMA SerializedPlan ==
  ASSUME FleetTypeOK, Serial, Serialized, NEW p \in Pass, Plan(p)
  PROVE  Serialized'
<1>1. PICK failed : PlanFor(p, failed)
  BY DEF Plan
<1> DEFINE S == Snapshot(p, failed)
<1>2. PICK D \in SUBSET ReadyChildren(S) :
         /\ IsDispatch(S, D)
         /\ disp' = [disp EXCEPT ![p] =
                       IF D \union FlaggedChildren(S) = {} THEN NoPass
                       ELSE [NoPass EXCEPT !.pc = "write", !.send = D,
                                           !.flag = FlaggedChildren(S)]]
  BY <1>1 DEF PlanFor
<1>3. UNCHANGED ticketVars /\ disp[p].pc = "plan" /\ DOMAIN disp = Pass
  BY <1>1 DEF PlanFor, FleetTypeOK, DispatcherTypeOK
<1>4. UNCHANGED <<issue, pr, runs>> /\ \A t \in Ticket : Taken(t)' <=> Taken(t)
  BY <1>3 DEF ticketVars, Taken
<1>5. /\ \A t \in D, u \in Ticket : issue[u] = "open" /\ Taken(u) => Apart(t, u)
      /\ \A t, u \in D : t # u => Apart(t, u)
  BY <1>2, <1>3, PlanIsApart
<1> HIDE DEF S
<1>6. disp'[p].send \subseteq D /\ disp'[p].pc \in {"idle", "write"} /\ DOMAIN disp' = Pass
  BY <1>2, <1>3 DEF NoPass
<1>7. Knows(p)'
  BY <1>6 DEF Knows
<1>8. Sends(p)'
  BY <1>4, <1>5, <1>6 DEF Sends, Apart
<1> QED BY <1>4, <1>6, <1>7, <1>8, SerializedPass

\* The pass labels the ticket whose turn it is: it is apart from all that is labeled, and
\* what is still to be sent is apart from it.
LEMMA ApplyElsewhere ==
  ASSUME TicketTypeOK, NEW t \in Ticket, NEW hand, ApplyImplement(t, hand)
  PROVE  \A u \in Ticket : u # t => (Taken(u)' <=> Taken(u)) /\ runs'[u] = runs[u]
<1>1. CASE "implement" \in labels[t]
  BY <1>1 DEF ApplyImplement, Taken
<1>2. CASE "implement" \notin labels[t]
  <2>1. labels' = [labels EXCEPT ![t] = @ \union {"implement"}]
    BY <1>2 DEF ApplyImplement
  <2>2. PICK fired : runs' = [runs EXCEPT ![t][cycle[t] + 1] = fired]
    BY <1>2 DEF ApplyImplement
  <2>3. runs' = [runs EXCEPT ![t] = [@ EXCEPT ![cycle[t] + 1] = fired]]
    BY <2>2
  <2> QED BY <2>1, <2>3 DEF Taken, TicketTypeOK
<1> QED BY <1>1, <1>2

LEMMA SerializedDispatch ==
  ASSUME FleetTypeOK, Serial, Serialized, NEW p \in Pass, Dispatch(p)
  PROVE  Serialized'
<1> PICK t \in disp[p].send : t = Turn(p)
  BY DEF Dispatch
<1>1. t \in Ticket /\ t \in disp[p].send /\ DOMAIN disp = Pass /\ disp[p] \in DispatchRecord
  BY DEF Dispatch, FleetTypeOK, DispatcherTypeOK, DispatchRecord
<1>2. /\ disp'[p].send \subseteq disp[p].send \ {t}
      /\ disp'[p].pc \in {"idle", "write"}
  <2>1. /\ NextAction(p).send \subseteq disp[p].send \ {t}
        /\ NextAction(p).pc \in {"idle", "write"}
    BY <1>1 DEF NextAction, NoPass, DispatchRecord
  <2> QED BY <1>1, <2>1 DEF Dispatch
<1>3. UNCHANGED <<issue, pr>>
  BY DEF Dispatch
<1>4. \A u \in Ticket : u # t => (Taken(u)' <=> Taken(u)) /\ runs'[u] = runs[u]
  BY <1>1, ApplyElsewhere DEF Dispatch, FleetTypeOK
<1>5. Taken(t)'
  <2>1. CASE Taken(t)
    BY <2>1 DEF Dispatch, ApplyImplement, Taken
  <2>2. CASE ~Taken(t)
    <3>1. labels' = [labels EXCEPT ![t] = @ \union {"implement"}]
      BY <2>2 DEF Dispatch, ApplyImplement, Taken
    <3> QED BY <1>1, <3>1 DEF Taken, FleetTypeOK, TicketTypeOK
  <2> QED BY <2>1, <2>2
<1>6. Sends(p)
  BY DEF Serialized
<1>7. Labeled'
  <2>1. ASSUME NEW u \in Ticket, pr[u] # "none" \/ \E c \in Cycle : runs'[u][c] # "none"
        PROVE  Taken(u)'
    <3>1. CASE u = t
      BY <1>5, <3>1
    <3>2. CASE u # t
      BY <1>4, <2>1, <3>2 DEF Serialized, Labeled
    <3> QED BY <3>1, <3>2
  <2> QED BY <1>3, <2>1 DEF Labeled
<1>8. OneLabeled'
  <2>1. ASSUME NEW u \in Ticket, NEW v \in Ticket, u # v,
               issue[u] = "open", Taken(u)', issue[v] = "open", Taken(v)'
        PROVE  Apart(u, v)
    <3>1. CASE u # t /\ v # t
      BY <2>1, <3>1, <1>4 DEF Serialized, OneLabeled
    <3>2. CASE u = t
      BY <1>1, <1>4, <1>6, <2>1, <3>2 DEF Sends
    <3>3. CASE v = t
      BY <1>1, <1>4, <1>6, <2>1, <3>3 DEF Sends, Apart
    <3> QED BY <3>1, <3>2, <3>3
  <2> QED BY <1>3, <2>1 DEF OneLabeled, Apart
<1>9. Sends(p)'
  <2>1. ASSUME NEW u \in disp'[p].send, NEW v \in Ticket, issue[v] = "open", Taken(v)'
        PROVE  Apart(u, v)
    BY <1>1, <1>2, <1>4, <1>6, <2>1 DEF Sends
  <2>2. \A u, v \in disp'[p].send : u # v => Apart(u, v)
    BY <1>2, <1>6 DEF Sends
  <2> QED BY <1>3, <2>1, <2>2 DEF Sends, Apart
<1>10. Knows(p)'
  BY <1>2 DEF Knows
<1> QED BY <1>7, <1>8, <1>9, <1>10 DEF Serial, Serialized

LEMMA SerializedFlags ==
  ASSUME FleetTypeOK, Serial, Serialized, NEW p \in Pass,
         \/ AlreadyFlagged(p) \/ Flag(p) \/ FlagComment(p) \/ DispatchWriteFails(p)
         \/ PassKilled(p)
  PROVE  Serialized'
<1>1. DOMAIN disp = Pass /\ disp[p] \in DispatchRecord
  BY DEF FleetTypeOK, DispatcherTypeOK, DispatchRecord
<1>2. UNCHANGED <<issue, pr, runs>>
  BY DEF AlreadyFlagged, Flag, FlagComment, DispatchWriteFails, PassKilled, ticketVars
<1>3. \A t \in Ticket : Taken(t)' <=> Taken(t)
  BY DEF AlreadyFlagged, Flag, FlagComment, DispatchWriteFails, PassKilled, ticketVars, Taken,
         FleetTypeOK, TicketTypeOK
<1>4. /\ DOMAIN disp' = Pass
      /\ disp'[p].send \subseteq disp[p].send
      /\ disp'[p].pc \in {"idle", "write", "comment"}
  <2>1. CASE Flag(p)
    BY <1>1, <2>1 DEF Flag, DispatchRecord
  <2>2. CASE ~Flag(p)
    <3>1. /\ NextAction(p).send \subseteq disp[p].send /\ NextAction(p).pc \in {"idle", "write"}
          /\ NoPass.send = {} /\ NoPass.pc = "idle"
      BY <1>1 DEF NextAction, NoPass, DispatchRecord
    <3> QED BY <1>1, <2>2, <3>1 DEF AlreadyFlagged, FlagComment, DispatchWriteFails, PassKilled
  <2> QED BY <2>1, <2>2
<1>5. Knows(p)'
  BY <1>4 DEF Knows
<1> QED BY <1>2, <1>3, <1>4, <1>5, SerializedPass

LEMMA SerializedNext ==
  ASSUME FleetTypeOK, Serial, Serialized, [FleetNext]_fleetVars
  PROVE  Serialized'
<1>1. ASSUME UNCHANGED fleetVars PROVE Serialized'
  BY <1>1
  DEF fleetVars, ticketVars, dispVars, Serialized, Labeled, OneLabeled, Knows, Sends, Read,
      Taken, Apart
<1>2. ASSUME DispatcherStep PROVE Serialized'
  <2>1. PICK p \in Pass :
           \/ StartPass(p) \/ ListIssues(p) \/ IssuesUnreadable(p) \/ ListAgentPrs(p)
           \/ Plan(p) \/ Dispatch(p) \/ AlreadyFlagged(p) \/ Flag(p) \/ FlagComment(p)
           \/ DispatchWriteFails(p) \/ PassKilled(p)
    BY <1>2 DEF DispatcherStep
  <2>2. ~IssuesUnreadable(p)
    BY DEF Serial, IssuesUnreadable
  <2> QED
    BY <2>1, <2>2, SerializedRead, SerializedPlan, SerializedDispatch, SerializedFlags
<1> QED BY <1>1, <1>2, SerializedBeside DEF FleetNext

\* Where passes do not overlap, issue lists can be read and nobody labels by hand, no two
\* open tickets of an epic have a live run or an open PR at a time: the label is there from
\* the write that starts the work, the plan reads every label before it sends, and what it
\* sends in one pass is apart.
THEOREM EpicsSerial ==
  ASSUME Serial
  PROVE  FleetSpec => []OneInFlight
<1>1. ASSUME FleetTypeOK, Serialized PROVE OneInFlight
  <2> SUFFICES ASSUME NEW e \in Epic
               PROVE  Cardinality({t \in Ticket : issue[t] = "open" /\ e \in PartOf[t] /\ Working(t)}) <= 1
    BY DEF OneInFlight
  <2> DEFINE W == {t \in Ticket : issue[t] = "open" /\ e \in PartOf[t] /\ Working(t)}
  <2>1. ASSUME NEW t \in W PROVE Taken(t)
    BY <1>1, <2>1 DEF Working, Live, Serialized, Labeled
  <2>2. ASSUME NEW t \in W, NEW u \in W PROVE t = u
    BY <1>1, <2>1, <2>2 DEF Serialized, OneLabeled, Apart
  <2>3. CASE W = {}
    BY <2>3, FS_EmptySet
  <2>4. CASE W # {}
    <3>1. PICK t : W = {t}
      BY <2>2, <2>4
    <3>2. Cardinality(W) = 1
      BY <3>1, FS_Singleton
    <3> QED BY <3>2
  <2> QED BY <2>3, <2>4
<1>2. FleetTypeOK /\ Serialized /\ [FleetNext]_fleetVars => Serialized'
  BY SerializedNext
<1> QED
  BY <1>1, <1>2, SerializedInit, FleetTypeInit, FleetTypeNext, PTL DEF FleetSpec

-----------------------------------------------------------------------------
(* EpicLanes                                                               *)

\* What EpicLanes promises: no two tickets of an epic are in flight, and none is before its
\* blockers are done.
THEOREM LanesAreSafe == Lanes!Spec => [](Lanes!Alone /\ Lanes!InOrder)
<1> DEFINE Safe == Lanes!Alone /\ Lanes!InOrder
<1>1. Lanes!Init => Safe
  BY DEF Lanes!Init, Lanes!Alone, Lanes!InOrder, Lanes!InFlight
<1>2. ASSUME Safe, UNCHANGED Stage PROVE Safe'
  BY <1>2 DEF Lanes!Alone, Lanes!InOrder, Lanes!InFlight
<1>3. ASSUME Safe, NEW t \in Ticket, NEW x, Stage' = [Stage EXCEPT ![t] = x],
             Stage[t] # "completed",
             x \in {"taken", "working"} =>
               \A u \in Ticket : u # t /\ Lanes!InFlight(u) =>
                 PartOf[t] \intersect PartOf[u] = {},
             x \in {"taken", "working", "completed"} =>
               t \notin Unresolvable /\ \A b \in BlockedBy[t] : Stage[b] = "completed"
      PROVE  Safe'
  <2>1. Stage'[t] = x /\ \A u \in Ticket : u # t => Stage'[u] = Stage[u]
    BY <1>3 DEF Stage
  <2>2. ASSUME NEW b \in Ticket, Stage[b] = "completed" PROVE Stage'[b] = "completed"
    BY <1>3, <2>1, <2>2
  <2>3. Lanes!Alone'
    BY <1>3, <2>1 DEF Lanes!Alone, Lanes!InFlight
  <2>4. Lanes!InOrder'
    BY <1>3, <2>1, <2>2, PlanAssumption DEF Lanes!InOrder, Lanes!InFlight
  <2> QED BY <2>3, <2>4
<1>4. ASSUME Safe, NEW t \in Ticket, Lanes!Take(t) PROVE Safe'
  BY <1>3, <1>4 DEF Lanes!Take
<1>5. ASSUME Safe, NEW t \in Ticket, Lanes!Stop(t) \/ Lanes!Finish(t) PROVE Safe'
  <2>1. PICK x \in {"taken", "waiting", "completed"} : Stage' = [Stage EXCEPT ![t] = x]
    BY <1>5 DEF Lanes!Stop, Lanes!Finish
  <2>2. Stage[t] = "working"
    BY <1>5 DEF Lanes!Stop, Lanes!Finish
  <2> QED BY <1>3, <1>5, <2>1, <2>2 DEF Lanes!Alone, Lanes!InOrder, Lanes!InFlight
<1>6. ASSUME Safe, NEW t \in Ticket, Lanes!GiveBack(t) \/ Lanes!Drop(t) PROVE Safe'
  <2>1. PICK x \in {"waiting", "not_planned"} : Stage' = [Stage EXCEPT ![t] = x]
    BY <1>6 DEF Lanes!GiveBack, Lanes!Drop
  <2>2. Stage[t] # "completed"
    BY <1>6 DEF Lanes!GiveBack, Lanes!Drop
  <2> QED BY <1>3, <1>6, <2>1, <2>2
<1>7. Safe /\ [Lanes!Next]_Stage => Safe'
  BY <1>2, <1>4, <1>5, <1>6 DEF Lanes!Next
<1> QED BY <1>1, <1>7, PTL DEF Lanes!Spec

\* The ways of a ticket that ask nothing of other tickets.
MovesOn(from, to) ==
  \/ from = to
  \/ from = "working" /\ to \in {"taken", "waiting", "completed"}
  \/ from = "taken" /\ to = "waiting"
  \/ from \in {"waiting", "taken", "working"} /\ to = "not_planned"

\* The ticket is free, and nothing that is labeled, runs or has a PR shares an epic with it.
MayTake(t) ==
  /\ Free(t)
  /\ \A u \in Ticket : issue[u] = "open" /\ (Taken(u) \/ Working(u)) => Apart(t, u)

LEMMA OneLaneMoves ==
  ASSUME FleetTypeOK, NEW t \in Ticket, \A u \in Ticket \ {t} : LaneOf(u)' = LaneOf(u),
         \/ MovesOn(LaneOf(t), LaneOf(t)')
         \/ LaneOf(t) = "waiting" /\ LaneOf(t)' \in {"taken", "working"} /\ MayTake(t)
  PROVE  [Lanes!Next]_Stage
<1> DEFINE x == LaneOf(t)'
<1>1. Stage[t] = LaneOf(t) /\ DOMAIN Stage = Ticket /\ \A u \in Ticket : Stage[u] = LaneOf(u)
  BY DEF Stage
<1>2. Stage' = [Stage EXCEPT ![t] = x]
  BY DEF Stage
<1> HIDE DEF x
<1>3. CASE LaneOf(t) = x
  BY <1>1, <1>2, <1>3 DEF Stage
<1>4. CASE LaneOf(t) = "working" /\ x \in {"taken", "waiting", "completed"}
  BY <1>1, <1>2, <1>4 DEF Lanes!Next, Lanes!Stop, Lanes!Finish
<1>5. CASE LaneOf(t) = "taken" /\ x = "waiting"
  BY <1>1, <1>2, <1>5 DEF Lanes!Next, Lanes!GiveBack
<1>6. CASE LaneOf(t) \in {"waiting", "taken", "working"} /\ x = "not_planned"
  BY <1>1, <1>2, <1>6 DEF Lanes!Next, Lanes!Drop
<1>7. CASE LaneOf(t) = "waiting" /\ x \in {"taken", "working"} /\ MayTake(t)
  <2>1. ASSUME NEW u \in Ticket, Lanes!InFlight(u) PROVE PartOf[t] \intersect PartOf[u] = {}
    <3>1. LaneOf(u) \in {"taken", "working"}
      BY <1>1, <2>1 DEF Lanes!InFlight
    <3>2. issue[u] = "open" /\ (Taken(u) \/ Working(u))
      BY <3>1 DEF LaneOf, Taken, FleetTypeOK, TicketTypeOK, IssueState
    <3> QED BY <1>7, <3>2 DEF MayTake, Apart
  <2>2. ASSUME NEW b \in BlockedBy[t] PROVE Stage[b] = "completed"
    <3>1. b \in Ticket /\ issue[b] = "completed"
      BY <1>7, <2>2, PlanAssumption DEF MayTake, Free
    <3> QED BY <1>1, <3>1 DEF LaneOf
  <2>3. Lanes!Take(t)
    BY <1>1, <1>2, <1>7, <2>1, <2>2 DEF Lanes!Take, MayTake, Free
  <2> QED BY <2>3 DEF Lanes!Next
<1> QED BY <1>3, <1>4, <1>5, <1>6, <1>7 DEF MovesOn, x

\* A lane is what issue, label, runs and PR make it.
LEMMA LaneStays ==
  ASSUME NEW t \in Ticket, issue'[t] = issue[t], pr'[t] = pr[t], runs'[t] = runs[t],
         Taken(t)' <=> Taken(t)
  PROVE  LaneOf(t)' = LaneOf(t)
BY DEF LaneOf, Working, Taken

LEMMA LanesStay ==
  ASSUME UNCHANGED <<issue, pr, runs>>, \A t \in Ticket : Taken(t)' <=> Taken(t)
  PROVE  UNCHANGED Stage
<1>1. \A t \in Ticket : LaneOf(t)' = LaneOf(t)
  BY LaneStays
<1> QED BY <1>1 DEF Stage

\* Where nobody labels by hand, runs and people take no ticket.
LEMMA BesideLanes ==
  ASSUME FleetTypeOK, "relabel" \notin Faults, Beside
  PROVE  [Lanes!Next]_Stage
<1>1. issue \in [Ticket -> IssueState] /\ pr \in [Ticket -> PrState]
  BY DEF FleetTypeOK, TicketTypeOK
<1>2. \A t \in Ticket : Taken(t)' <=> Taken(t)
  BY BesideKeeps
<1>3. ASSUME NEW t \in Ticket, Merge(t) PROVE [Lanes!Next]_Stage
  <2>1. \A u \in Ticket \ {t} : LaneOf(u)' = LaneOf(u)
    BY <1>1, <1>2, <1>3, LaneStays DEF Merge
  <2>2. MovesOn(LaneOf(t), LaneOf(t)')
    BY <1>1, <1>3 DEF Merge, MovesOn, LaneOf, Working
  <2> QED BY <2>1, <2>2, OneLaneMoves
<1>4. ASSUME NEW t \in Ticket, CloseNotPlanned(t) PROVE [Lanes!Next]_Stage
  <2>1. \A u \in Ticket \ {t} : LaneOf(u)' = LaneOf(u)
    BY <1>1, <1>2, <1>4, LaneStays DEF CloseNotPlanned
  <2>2. MovesOn(LaneOf(t), LaneOf(t)')
    BY <1>1, <1>4 DEF CloseNotPlanned, MovesOn, LaneOf
  <2> QED BY <2>1, <2>2, OneLaneMoves
<1>5. ASSUME NEW t \in Ticket, issue' = issue, Working(t),
             \A u \in Ticket \ {t} : pr'[u] = pr[u] /\ runs'[u] = runs[u]
      PROVE  [Lanes!Next]_Stage
  <2>1. \A u \in Ticket \ {t} : LaneOf(u)' = LaneOf(u)
    BY <1>2, <1>5, LaneStays
  <2>2. MovesOn(LaneOf(t), LaneOf(t)')
    BY <1>5 DEF MovesOn, LaneOf
  <2> QED BY <2>1, <2>2, OneLaneMoves
<1>6. ASSUME NEW t \in Ticket, ClosePr(t) PROVE [Lanes!Next]_Stage
  BY <1>1, <1>5, <1>6 DEF ClosePr, Working
<1>7. ASSUME NEW t \in Ticket, Hold(t) \/ Release(t) \/ Fix331 PROVE [Lanes!Next]_Stage
  BY <1>2, <1>7, LanesStay DEF Hold, Release, Fix331
<1>8. ASSUME NEW t \in Ticket, NEW c \in Cycle, Runner(t, c) PROVE [Lanes!Next]_Stage
  <2>1. runs[t][c] \in Live
    BY <1>8, Zenon DEF Runner, Guard, GuardVerdicts, StartJob, NoCommits, Commit, OpenPr,
       FinishJob, FailJob, Live, InJob
  <2>2. PICK x \in RunState : runs' = [runs EXCEPT ![t][c] = x]
    BY <1>8, Zenon DEF Runner, Guard, GuardVerdicts, StartJob, NoCommits, Commit, OpenPr,
       FinishJob, FailJob, RunState
  <2>3. runs' = [runs EXCEPT ![t] = [@ EXCEPT ![c] = x]]
    BY <2>2
  <2>4. \A u \in Ticket \ {t} : runs'[u] = runs[u]
    BY <2>3 DEF FleetTypeOK, TicketTypeOK
  <2>5. issue' = issue /\ \A u \in Ticket \ {t} : pr'[u] = pr[u]
    BY <1>1, <1>8 DEF Runner, Guard, StartJob, NoCommits, Commit, OpenPr, FinishJob, FailJob
  <2> QED BY <1>5, <2>1, <2>4, <2>5 DEF Working
<1>9. \A t \in Ticket : ~Unlabel(t) /\ ~HandLabel(t)
  BY DEF Unlabel, HandLabel
<1>10. CASE Fix331
  BY <1>2, <1>10, LanesStay DEF Fix331
<1> QED BY <1>3, <1>4, <1>6, <1>7, <1>8, <1>9, <1>10 DEF Beside, World

\* A pass takes the ticket it labels, and moves no other.
LEMMA DispatchLanes ==
  ASSUME FleetTypeOK, NEW p \in Pass, Dispatch(p),
         \A t \in disp[p].send : MayTake(t)
  PROVE  [Lanes!Next]_Stage
<1> PICK t \in disp[p].send : t = Turn(p)
  BY DEF Dispatch
<1>1. t \in Ticket /\ MayTake(t) /\ ApplyImplement(t, FALSE) /\ UNCHANGED <<issue, pr>>
  BY DEF Dispatch, FleetTypeOK, DispatcherTypeOK
<1>2. \A u \in Ticket \ {t} : LaneOf(u)' = LaneOf(u)
  BY <1>1, ApplyElsewhere, LaneStays DEF FleetTypeOK
<1>3. CASE Taken(t)
  <2>1. LaneOf(t)' = LaneOf(t)
    BY <1>1, <1>3, LaneStays DEF ApplyImplement, Taken
  <2>2. MovesOn(LaneOf(t), LaneOf(t)')
    BY <2>1 DEF MovesOn
  <2> QED BY <1>1, <1>2, <2>2, OneLaneMoves
<1>4. CASE ~Taken(t) /\ issue[t] # "open"
  <2>1. LaneOf(t)' = LaneOf(t)
    BY <1>1, <1>4 DEF LaneOf
  <2>2. MovesOn(LaneOf(t), LaneOf(t)')
    BY <2>1 DEF MovesOn
  <2> QED BY <1>1, <1>2, <2>2, OneLaneMoves
<1>5. CASE ~Taken(t) /\ issue[t] = "open"
  <2>1. labels' = [labels EXCEPT ![t] = @ \union {"implement"}]
    BY <1>1, <1>5 DEF ApplyImplement, Taken
  <2>2. Taken(t)'
    BY <1>1, <2>1 DEF Taken, FleetTypeOK, TicketTypeOK
  <2>3. LaneOf(t)' \in {"taken", "working"}
    BY <1>1, <1>5, <2>2 DEF LaneOf, Taken
  <2>4. CASE ~Working(t)
    BY <1>1, <1>2, <1>5, <2>3, <2>4, OneLaneMoves DEF LaneOf, Taken
  <2>5. CASE Working(t)
    <3>1. LaneOf(t) = "working"
      BY <1>5, <2>5 DEF LaneOf
    <3>2. MovesOn(LaneOf(t), LaneOf(t)')
      BY <2>3, <3>1 DEF MovesOn
    <3> QED BY <1>1, <1>2, <3>2, OneLaneMoves
  <2> QED BY <2>4, <2>5
<1> QED BY <1>3, <1>4, <1>5

LEMMA DispatcherLanes ==
  ASSUME FleetTypeOK, DispatcherStep, \A p \in Pass : \A t \in disp[p].send : MayTake(t)
  PROVE  [Lanes!Next]_Stage
<1>1. PICK p \in Pass :
         \/ StartPass(p) \/ ListIssues(p) \/ IssuesUnreadable(p) \/ ListAgentPrs(p)
         \/ Plan(p) \/ Dispatch(p) \/ AlreadyFlagged(p) \/ Flag(p) \/ FlagComment(p)
         \/ DispatchWriteFails(p) \/ PassKilled(p)
  BY DEF DispatcherStep
<1>2. CASE ~Dispatch(p)
  <2>1. UNCHANGED <<issue, pr, runs>>
    BY <1>1, <1>2
    DEF StartPass, ListIssues, IssuesUnreadable, ListAgentPrs, Plan, PlanFor, AlreadyFlagged,
        Flag, FlagComment, DispatchWriteFails, PassKilled, ticketVars
  <2>2. CASE Flag(p)
    <3>1. \A t \in Ticket : Taken(t)' <=> Taken(t)
      BY <2>2 DEF Flag, Taken, FleetTypeOK, TicketTypeOK
    <3> QED BY <2>1, <3>1, LanesStay
  <2>3. CASE ~Flag(p)
    <3>1. UNCHANGED labels
      BY <1>1, <1>2, <2>3
      DEF StartPass, ListIssues, IssuesUnreadable, ListAgentPrs, Plan, PlanFor,
          AlreadyFlagged, FlagComment, DispatchWriteFails, PassKilled, ticketVars
    <3> QED BY <2>1, <3>1, LanesStay DEF Taken
  <2> QED BY <2>2, <2>3
<1> QED BY <1>1, <1>2, DispatchLanes

LEMMA LanesInit == TicketInit => Lanes!Init
<1> SUFFICES ASSUME TicketInit PROVE \A t \in Ticket : LaneOf(t) = "waiting"
  BY DEF Lanes!Init, Stage
<1> QED BY DEF TicketInit, LaneOf, Working, Live

\* Under the conditions of EpicsSerial the passes implement EpicLanes, whatever fails: what
\* planDispatch decided on a snapshot holds when the label is written.
THEOREM FleetKeepsLanes ==
  ASSUME Serial
  PROVE  FleetSpec => LanesKept
<1>1. FleetInit => Unblocked /\ Lanes!Init
  BY LanesInit DEF FleetInit, DispatcherInit, NoPass, Unblocked
<1>2. ASSUME FleetTypeOK, Unblocked, Serialized, NEW p \in Pass, NEW t \in disp[p].send
      PROVE  MayTake(t)
  <2>1. Free(t) /\ Sends(p) /\ Labeled
    BY <1>2 DEF Unblocked, Serialized
  <2>2. \A u \in Ticket : Working(u) => Taken(u)
    BY <2>1 DEF Labeled, Working, Live
  <2> QED BY <1>2, <2>1, <2>2 DEF Sends, MayTake
<1>3. FleetTypeOK /\ Unblocked /\ Serialized /\ [FleetNext]_fleetVars => [Lanes!Next]_Stage
  <2> SUFFICES ASSUME FleetTypeOK, Unblocked, Serialized, [FleetNext]_fleetVars
               PROVE  [Lanes!Next]_Stage
    OBVIOUS
  <2>1. CASE UNCHANGED fleetVars
    BY <2>1, LanesStay DEF fleetVars, ticketVars, Taken
  <2> QED BY <1>2, <2>1, BesideLanes, DispatcherLanes DEF Serial, FleetNext
<1>4. FleetTypeOK /\ Unblocked /\ [FleetNext]_fleetVars => Unblocked'
  BY UnblockedNext
<1>5. FleetTypeOK /\ Serialized /\ [FleetNext]_fleetVars => Serialized'
  BY SerializedNext
<1>6. FleetSpec => Lanes!Init /\ [][Lanes!Next]_Stage
  BY <1>1, <1>3, <1>4, <1>5, SerializedInit, FleetTypeInit, FleetTypeNext, PTL DEF FleetSpec
<1> QED BY <1>6 DEF LanesKept, Lanes!Spec

-----------------------------------------------------------------------------
(* planDispatch as a function of what the pass read                        *)

\* What the plan D takes before it comes to t.
TakenBefore(S, D, t) == UNION {EpicsOf(S, u) : u \in {v \in D : v < t}}

\* D is what the loop has sent when it has come to n.
PlanUpto(S, D, n) ==
  \A t \in ReadyChildren(S) :
    t < n => (t \in D <=> EpicsOf(S, t) \intersect (BusyEpics(S) \union TakenBefore(S, D, t)) = {})

LEMMA LeastNumber ==
  ASSUME NEW T, T \subseteq Nat, T # {}
  PROVE  \E x \in T : \A y \in T : x <= y
<1> DEFINE R == {ss \in Nat \X Nat : ss[1] < ss[2]}
<1>1. IsWellFoundedOn(R, Nat)
  BY NatLessThanWellFounded DEF OpToRel
<1>2. PICK x \in T : \A y \in T : ~ (<<y, x>> \in R)
  BY <1>1, WFMin
<1>3. ASSUME NEW y \in T PROVE x <= y
  <2>1. x \in Nat /\ y \in Nat /\ <<y, x>> \in Nat \X Nat
    OBVIOUS
  <2>2. ~ (y < x)
    BY <1>2, <2>1
  <2> QED BY <2>1, <2>2
<1> QED BY <1>3

LEMMA ReadyAreNumbers ==
  ASSUME NEW S, S.open \subseteq Ticket
  PROVE  ReadyChildren(S) \subseteq Ticket /\ ReadyChildren(S) \subseteq Nat
BY TicketAssumption DEF ReadyChildren, Children

LEMMA TakenBeforeSame ==
  ASSUME NEW S, NEW D1, NEW D2, NEW t, \A v : v \in D1 /\ v < t <=> v \in D2 /\ v < t
  PROVE  TakenBefore(S, D1, t) = TakenBefore(S, D2, t)
<1>1. {v \in D1 : v < t} = {v \in D2 : v < t}
  OBVIOUS
<1> QED BY <1>1 DEF TakenBefore

\* Two plans agree as far as both go: take the least ticket on which they differ.
LEMMA PlansAgree ==
  ASSUME NEW S, S.open \subseteq Ticket, NEW n \in Nat,
         NEW D1 \in SUBSET ReadyChildren(S), NEW D2 \in SUBSET ReadyChildren(S),
         PlanUpto(S, D1, n), PlanUpto(S, D2, n)
  PROVE  \A t \in ReadyChildren(S) : t < n => (t \in D1 <=> t \in D2)
<1> DEFINE T == {t \in ReadyChildren(S) : t < n /\ ~ (t \in D1 <=> t \in D2)}
<1>1. T \subseteq Nat
  BY ReadyAreNumbers
<1>2. ASSUME T # {} PROVE FALSE
  <2>1. PICK t \in T : \A u \in T : t <= u
    BY <1>1, <1>2, LeastNumber
  <2>2. ASSUME NEW v \in ReadyChildren(S), v < t PROVE v \in D1 <=> v \in D2
    <3>1. v \in Nat /\ t \in Nat /\ t < n
      BY <1>1, ReadyAreNumbers
    <3>2. v < n /\ ~ (t <= v)
      BY <2>2, <3>1
    <3> QED BY <2>1, <3>2
  <2>3. TakenBefore(S, D1, t) = TakenBefore(S, D2, t)
    BY <2>2, TakenBeforeSame
  <2> QED BY <2>3 DEF PlanUpto
<1> QED BY <1>2

\* The loop comes to every n: it takes the ticket n when nothing stands against it.
LEMMA PlanReaches ==
  ASSUME NEW S, S.open \subseteq Ticket
  PROVE  \A n \in Nat : \E D \in SUBSET ReadyChildren(S) : PlanUpto(S, D, n)
<1> DEFINE T == {n \in Nat : ~ \E D \in SUBSET ReadyChildren(S) : PlanUpto(S, D, n)}
<1>1. ASSUME T # {} PROVE FALSE
  <2>1. PICK n \in T : \A k \in T : n <= k
    BY <1>1, LeastNumber
  <2>2. CASE n = 0
    <3>1. PlanUpto(S, {}, n)
      BY <2>2, ReadyAreNumbers DEF PlanUpto
    <3> QED BY <3>1
  <2>3. CASE n # 0
    <3> DEFINE m == n - 1
    <3>1. m \in Nat /\ n = m + 1 /\ ~ (n <= m)
      BY <2>3
    <3> HIDE DEF m
    <3>2. PICK D \in SUBSET ReadyChildren(S) : PlanUpto(S, D, m)
      BY <2>1, <3>1
    <3> DEFINE free == EpicsOf(S, m) \intersect (BusyEpics(S) \union TakenBefore(S, D, m)) = {}
               E == {t \in D : t < m} \union (IF m \in ReadyChildren(S) /\ free THEN {m} ELSE {})
    <3>3. E \in SUBSET ReadyChildren(S)
      OBVIOUS
    <3>4. ASSUME NEW t \in ReadyChildren(S), t <= m
          PROVE  TakenBefore(S, E, t) = TakenBefore(S, D, t)
      <4>1. t \in Nat /\ D \subseteq Nat
        BY ReadyAreNumbers
      <4>2. \A v \in Nat : v < t => v < m /\ v # m
        BY <3>1, <3>4, <4>1
      <4>3. \A v : v \in E /\ v < t <=> v \in D /\ v < t
        BY <3>1, <4>1, <4>2
      <4> HIDE DEF E
      <4> QED BY <4>3, TakenBeforeSame
    <3>5. ASSUME NEW t \in ReadyChildren(S), t < n
          PROVE  t \in E <=> EpicsOf(S, t) \intersect (BusyEpics(S) \union TakenBefore(S, E, t)) = {}
      <4>1. t \in Nat /\ (t < m \/ t = m) /\ t <= m
        BY <3>1, <3>5, ReadyAreNumbers
      <4>2. TakenBefore(S, E, t) = TakenBefore(S, D, t)
        BY <3>4, <4>1
      <4>3. CASE t < m
        <5>1. t \in E <=> t \in D
          BY <3>1, <4>1, <4>3
        <5> HIDE DEF E
        <5> QED BY <3>2, <4>2, <4>3, <5>1 DEF PlanUpto
      <4>4. CASE t = m
        <5>1. t \in E <=> free
          BY <3>1, <4>4
        <5> HIDE DEF E
        <5> QED BY <4>2, <4>4, <5>1
      <4> QED BY <4>1, <4>3, <4>4
    <3>6. PlanUpto(S, E, n)
      BY <3>5 DEF PlanUpto
    <3> QED BY <3>3, <3>6
  <2> QED BY <2>2, <2>3
<1> QED BY <1>1

LEMMA PlanIsUpto ==
  ASSUME NEW S, NEW D, IsDispatch(S, D), NEW n
  PROVE  PlanUpto(S, D, n)
BY DEF IsDispatch, PlanUpto, TakenBefore

\* planDispatch gives a plan for every snapshot, and one only: IsDispatch, which says what
\* the loop computes, determines it, so that two passes that read the same send the same.
THEOREM PlanIsDeterministic ==
  ASSUME NEW S, S.open \subseteq Ticket
  PROVE  /\ \E D \in SUBSET ReadyChildren(S) : IsDispatch(S, D)
         /\ \A D1, D2 : IsDispatch(S, D1) /\ IsDispatch(S, D2) => D1 = D2
<1> DEFINE R == ReadyChildren(S)
           P == {t \in R : \E D \in SUBSET R : PlanUpto(S, D, t + 1) /\ t \in D}
<1>1. R \subseteq Nat
  BY ReadyAreNumbers
<1>2. ASSUME NEW t \in R
      PROVE  t \in P <=> EpicsOf(S, t) \intersect (BusyEpics(S) \union TakenBefore(S, P, t)) = {}
  <2>1. t \in Nat /\ t + 1 \in Nat /\ t < t + 1
    BY <1>1
  <2>2. PICK D \in SUBSET R : PlanUpto(S, D, t + 1)
    BY <2>1, PlanReaches
  <2>3. ASSUME NEW v \in R, v <= t PROVE v \in P <=> v \in D
    <3>1. v \in Nat /\ v + 1 \in Nat /\ v < v + 1
      BY <1>1
    <3>2. \A u \in Nat : u < v + 1 => u < t + 1
      BY <2>1, <2>3, <3>1
    <3>3. PlanUpto(S, D, v + 1)
      BY <1>1, <2>2, <3>2 DEF PlanUpto
    <3>4. ASSUME NEW E \in SUBSET R, PlanUpto(S, E, v + 1) PROVE v \in E <=> v \in D
      BY <3>1, <3>3, <3>4, PlansAgree
    <3> QED BY <3>3, <3>4
  <2> HIDE DEF P
  <2>4. P \subseteq R
    BY DEF P
  <2>5. \A v \in Nat : v < t => v <= t
    BY <2>1
  <2>6. \A v : v \in P /\ v < t <=> v \in D /\ v < t
    BY <1>1, <2>3, <2>4, <2>5
  <2>7. TakenBefore(S, P, t) = TakenBefore(S, D, t)
    BY <2>6, TakenBeforeSame
  <2>8. t \in P <=> t \in D
    BY <2>1, <2>3
  <2> QED BY <2>1, <2>2, <2>7, <2>8 DEF PlanUpto
<1>3. P \in SUBSET R
  OBVIOUS
<1>4. IsDispatch(S, P)
  <2> HIDE DEF P
  <2> QED BY <1>2, <1>3 DEF IsDispatch, TakenBefore
<1>5. ASSUME NEW D1, NEW D2, IsDispatch(S, D1), IsDispatch(S, D2) PROVE D1 = D2
  <2>1. D1 \in SUBSET R /\ D2 \in SUBSET R
    BY <1>5 DEF IsDispatch
  <2>2. ASSUME NEW t \in R PROVE t \in D1 <=> t \in D2
    <3>1. t + 1 \in Nat /\ t < t + 1
      BY <1>1
    <3>2. PlanUpto(S, D1, t + 1) /\ PlanUpto(S, D2, t + 1)
      BY <1>5, PlanIsUpto
    <3> QED BY <2>1, <3>1, <3>2, PlansAgree
  <2> QED BY <2>1, <2>2
<1> QED BY <1>3, <1>4, <1>5

\* The snapshot S after the labels of the plan D are written, and nothing else.
SentOut(S, D) ==
  [open |-> S.open, epics |-> S.epics, prs |-> S.prs, linked |-> S.linked,
   refs |-> S.refs, state |-> S.state,
   labels |-> [t \in Ticket |-> S.labels[t] \union (IF t \in D THEN {"implement"} ELSE {})]]

\* A pass that plans over the work of another one, all of it written and nothing finished
\* yet, sends nothing more: whatever was left waits for an epic that the first plan took.
THEOREM PlanSettles ==
  ASSUME NEW S, S.open \subseteq Ticket, NEW D, IsDispatch(S, D)
  PROVE  \A E : IsDispatch(SentOut(S, D), E) => E = {}
<1> DEFINE Z == SentOut(S, D)
<1>1. /\ Z.open = S.open /\ Z.epics = S.epics /\ Z.prs = S.prs /\ Z.linked = S.linked
      /\ Z.refs = S.refs /\ Z.state = S.state
  BY DEF SentOut
<1>2. \A t \in Ticket : Z.labels[t] = S.labels[t] \union (IF t \in D THEN {"implement"} ELSE {})
  BY DEF SentOut
<1> HIDE DEF Z
<1>3. \A t : EpicsOf(Z, t) = EpicsOf(S, t)
  BY <1>1 DEF EpicsOf
<1>4. Children(Z) = Children(S) /\ Children(S) \subseteq Ticket
  BY <1>1, <1>3 DEF Children
<1>5. ReadyChildren(Z) \subseteq ReadyChildren(S) \ D
  <2>1. SUFFICES ASSUME NEW t \in ReadyChildren(Z) PROVE t \in ReadyChildren(S) /\ t \notin D
    OBVIOUS
  <2>2. t \in Children(S) /\ t \in Ticket /\ ChildVerdict(Z, t) = "ready"
    BY <1>4 DEF ReadyChildren
  <2>3. Z.labels[t] \intersect Excluded = {} /\ "implement" \notin Z.labels[t]
    BY <2>2 DEF ChildVerdict
  <2>4. t \notin D /\ S.labels[t] = Z.labels[t]
    BY <1>2, <2>2, <2>3
  <2>5. ChildVerdict(S, t) = ChildVerdict(Z, t)
    BY <1>1, <2>4 DEF ChildVerdict
  <2> QED BY <2>2, <2>4, <2>5 DEF ReadyChildren
<1>6. BusyEpics(S) \subseteq BusyEpics(Z)
  <2> DEFINE byPr(W) == UNION {EpicsOf(W, t) : t \in W.prs \intersect (W.open \union W.linked)}
             byLabel(W) == UNION {EpicsOf(W, t) : t \in {u \in Children(W) : "implement" \in W.labels[u]}}
  <2>1. byPr(S) = byPr(Z)
    BY <1>1, <1>3
  <2>2. byLabel(S) \subseteq byLabel(Z)
    BY <1>2, <1>3, <1>4
  <2>3. BusyEpics(S) = byPr(S) \union byLabel(S) /\ BusyEpics(Z) = byPr(Z) \union byLabel(Z)
    BY DEF BusyEpics
  <2> HIDE DEF byPr, byLabel
  <2> QED BY <2>1, <2>2, <2>3
<1>7. D \subseteq Children(S)
  BY DEF IsDispatch, ReadyChildren
<1>8. ASSUME NEW u \in D PROVE EpicsOf(S, u) \subseteq BusyEpics(Z)
  <2> DEFINE L == UNION {EpicsOf(Z, t) : t \in {v \in Children(Z) : "implement" \in Z.labels[v]}}
  <2>1. u \in Children(Z) /\ "implement" \in Z.labels[u]
    BY <1>2, <1>4, <1>7
  <2>2. \A e \in EpicsOf(Z, u) : e \in L
    BY <2>1
  <2>3. L \subseteq BusyEpics(Z)
    BY DEF BusyEpics
  <2> HIDE DEF L
  <2> QED BY <1>3, <2>2, <2>3
<1>9. ASSUME NEW E, IsDispatch(Z, E), NEW t \in E PROVE FALSE
  <2>1. t \in ReadyChildren(S) /\ t \notin D
    BY <1>5, <1>9 DEF IsDispatch
  <2>2. EpicsOf(S, t) \intersect (BusyEpics(S) \union TakenBefore(S, D, t)) # {}
    BY <2>1 DEF IsDispatch, TakenBefore
  <2>3. TakenBefore(S, D, t) \subseteq BusyEpics(Z)
    BY <1>8 DEF TakenBefore
  <2>4. EpicsOf(Z, t) \intersect BusyEpics(Z) # {}
    BY <1>3, <1>6, <2>2, <2>3
  <2>5. EpicsOf(Z, t) \intersect BusyEpics(Z) = {}
    BY <1>9 DEF IsDispatch
  <2> QED BY <2>4, <2>5
<1> QED BY <1>9 DEF Z
=============================================================================
