---------------------------- MODULE Factory_proofs ----------------------------
(***************************************************************************)
(* Proofs about Factory, for every set of tickets, epics and repositories, *)
(* every bound and every set of faults unless said otherwise.              *)
(*   FactoryTypeCorrect  the type invariant;                               *)
(*   FactoryNeverRespins RespinFree, from the invariants Parked (of the    *)
(*                       reaper), Careful and Evidence: what a pass has    *)
(*                       read of a ticket that was labeled before shows    *)
(*                       that it was let go, and nobody parks it before    *)
(*                       the pass labels it;                               *)
(*   FactoryHoldsRepeatDeaths  RepeatDeathHeld, from Warned: a ticket that *)
(*                       died twice in the window is held by a label from  *)
(*                       the moment it is out of flight, or was let go, and*)
(*                       every pass has read it so;                        *)
(*   FactoryDispatchesUnblocked  OnlyUnblocked, from Unblocked, as of the  *)
(*                       dispatcher alone;                                 *)
(*   FactorySparesLiveRuns  LiveRunSpared, from Parked and Informed, as of *)
(*                       the reaper alone;                                 *)
(*   FactoryKeepsLanes   LanesKept, where dispatch passes do not overlap,  *)
(*                       lists can be read and nobody labels by hand, from *)
(*                       these and Cautious: what a pass has read shows    *)
(*                       all that is in flight, by its label or by its PR, *)
(*                       though the reaper takes labels off meanwhile;     *)
(*   FactoryEpicsSerial  OneInFlight, which follows from it.               *)
(***************************************************************************)
EXTENDS Factory, Reaper_proofs, Dispatcher_proofs

LEMMA FactoryTypeInit == FactoryInit => FactoryTypeOK /\ Commenting
<1> SUFFICES ASSUME FactoryInit PROVE FactoryTypeOK /\ Commenting
  OBVIOUS
<1>1. TypeOK
  BY TypeInit DEF FactoryInit, Init
<1>2. FleetTypeOK /\ Commenting
  BY FleetTypeInit DEF FactoryInit, FleetInit
<1> QED BY <1>1, <1>2 DEF FactoryTypeOK, FleetTypeOK

LEMMA FactoryTypeNext ==
  FactoryTypeOK /\ Commenting /\ [FactoryNext]_factoryVars => (FactoryTypeOK /\ Commenting)'
<1> SUFFICES ASSUME FactoryTypeOK, Commenting, [FactoryNext]_factoryVars
             PROVE  (FactoryTypeOK /\ Commenting)'
  OBVIOUS
<1>1. TypeOK /\ FleetTypeOK
  BY DEF FactoryTypeOK, TypeOK, FleetTypeOK
<1>2. ASSUME TypeOK', UNCHANGED dispVars PROVE (FactoryTypeOK /\ Commenting)'
  BY <1>1, <1>2 DEF FactoryTypeOK, FleetTypeOK, DispatcherTypeOK, Commenting, Turn, dispVars
<1>3. ASSUME TicketTypeOK', UNCHANGED <<reapVars, dispVars>>
      PROVE  (FactoryTypeOK /\ Commenting)'
  <2>1. TypeOK'
    BY <1>1, <1>3 DEF TypeOK, ReaperTypeOK, reapVars
  <2> QED BY <1>2, <1>3, <2>1
<1>4. CASE ReaperStep /\ UNCHANGED dispVars
  BY <1>1, <1>2, <1>4, ReaperStepType
<1>5. CASE DispatcherStep /\ UNCHANGED reapVars
  <2>1. (FleetTypeOK /\ Commenting)'
    BY <1>1, <1>5, StepType
  <2>2. TypeOK'
    BY <1>1, <1>5, <2>1 DEF FleetTypeOK, TypeOK, ReaperTypeOK, reapVars
  <2> QED BY <2>1, <2>2 DEF FactoryTypeOK, FleetTypeOK
<1>6. CASE ReaperTick /\ UNCHANGED dispVars
  BY <1>1, <1>2, <1>6, ReaperTickType
<1>7. CASE Outside /\ UNCHANGED <<reapVars, dispVars>>
  <2>1. TicketTypeOK'
    BY <1>1, <1>7, WorldType, RunnerType DEF Outside, TypeOK
  <2> QED BY <1>3, <1>7, <2>1
<1>8. CASE UNCHANGED factoryVars
  BY <1>1, <1>3, <1>8 DEF factoryVars, TypeOK, TicketTypeOK, ticketVars
<1> QED BY <1>4, <1>5, <1>6, <1>7, <1>8 DEF FactoryNext

\* Every variable of the fleet and of the two passes keeps its type.
THEOREM FactoryTypeCorrect == FactorySpec => []FactoryTypeOK
<1> QED BY FactoryTypeInit, FactoryTypeNext, PTL DEF FactorySpec

-----------------------------------------------------------------------------
(* What both passes respect                                                *)

LEMMA OutsideParks ==
  ASSUME TypeOK, Parked, Outside, UNCHANGED reapVars
  PROVE  Parked'
<1>1. CASE World
  BY <1>1, WorldParks
<1>2. ASSUME NEW t \in Ticket, NEW c \in Cycle, Runner(t, c)
      PROVE  Parked'
  BY <1>2 DEF Runner, Guard, GuardVerdicts, StartJob, NoCommits, Commit, OpenPr,
     FinishJob, FailJob, reapVars, Parked, Settled
<1> QED BY <1>1, <1>2 DEF Outside

\* A dispatcher labels one ticket, holds one, or leaves all tickets as they are.
LEMMA DispatcherEdits ==
  ASSUME FactoryTypeOK, DispatcherStep
  PROVE  \/ \E p \in Pass : Dispatch(p) /\ Turn(p) \in disp[p].send /\ Turn(p) \in Ticket
         \/ \E p \in Pass : Flag(p)
         \/ UNCHANGED ticketVars
<1>1. PICK p \in Pass :
         \/ StartPass(p) \/ ListIssues(p) \/ IssuesUnreadable(p) \/ ListAgentPrs(p)
         \/ Plan(p) \/ Dispatch(p) \/ AlreadyFlagged(p) \/ Flag(p) \/ FlagComment(p)
         \/ DispatchWriteFails(p) \/ PassKilled(p)
  BY DEF DispatcherStep
<1>2. CASE Dispatch(p)
  BY <1>2 DEF Dispatch, FactoryTypeOK, DispatcherTypeOK
<1>3. CASE ~Dispatch(p) /\ ~Flag(p)
  BY <1>1, <1>3
  DEF StartPass, ListIssues, IssuesUnreadable, ListAgentPrs, Plan, PlanFor, AlreadyFlagged,
      FlagComment, DispatchWriteFails, PassKilled
<1> QED BY <1>2, <1>3

LEMMA DispatcherParks ==
  ASSUME FactoryTypeOK, Parked, DispatcherStep, UNCHANGED reapVars
  PROVE  Parked'
<1>1. reap' = reap /\ TypeOK
  BY DEF reapVars, FactoryTypeOK
<1>2. ASSUME NEW p \in Pass, Dispatch(p), Turn(p) \in Ticket PROVE Parked'
  BY <1>1, <1>2, ApplyParks DEF Dispatch
<1>3. ASSUME NEW p \in Pass, Flag(p) PROVE Parked'
  <2>1. \A u \in Ticket : labels[u] \subseteq labels'[u]
    BY <1>1, <1>3 DEF Flag, TypeOK, TicketTypeOK
  <2>2. UNCHANGED <<cycle, bullet, released>>
    BY <1>3 DEF Flag
  <2>3. reap.at \subseteq Ticket
    BY <1>1 DEF TypeOK, ReaperTypeOK, PassRecord
  <2> QED BY <1>1, <2>1, <2>2, <2>3 DEF Parked, Settled
<1>4. CASE UNCHANGED ticketVars
  BY <1>1, <1>4 DEF ticketVars, Parked, Settled
<1> QED BY <1>2, <1>3, <1>4, DispatcherEdits

LEMMA ParkedStays ==
  ASSUME FactoryTypeOK, Parked, [FactoryNext]_factoryVars
  PROVE  Parked'
<1>1. TypeOK
  BY DEF FactoryTypeOK
<1>2. CASE ReaperTick
  BY <1>2 DEF ReaperTick, Tick, Parked, Settled
<1>3. CASE UNCHANGED factoryVars
  BY <1>3 DEF factoryVars, ticketVars, reapVars, Parked, Settled
<1> QED BY <1>1, <1>2, <1>3, ReaperStepParks, DispatcherParks, OutsideParks DEF FactoryNext

-----------------------------------------------------------------------------
(* RespinFree                                                              *)

\* What the result assumes: dispatch passes do not overlap, and people leave the label
\* alone.
OnePassNoHands == /\ \A p, q \in Pass : p = q
                  /\ "relabel" \notin Faults

\* The tickets on the reaper's sheet carry the label, until it removes it itself.
Careful ==
  /\ reap.at \subseteq reap.todo
  /\ reap.pc \notin {"pair", "remove", "comment"} => reap.at = {}
  /\ \A t \in reap.todo : \/ "implement" \in labels[t]
                          \/ t \in reap.at /\ reap.pc = "comment"

\* What the snapshot shows of a ticket that was labeled before: it is out of flight
\* still, and was let go, or the pass sees the hold or the bullet.
Seen(p) ==
  /\ disp[p].pc = "idle" => disp[p].open = {}
  /\ disp[p].pc \in {"issues", "prs", "plan"} =>
       \A t \in disp[p].open :
         cycle[t] > 0 /\ "implement" \notin disp[p].labels[t] =>
           /\ "implement" \notin labels[t]
           /\ \/ t \in released
              \/ disp[p].labels[t] \intersect Excluded # {}
              \/ t \in disp[p].held /\ t \in bullet

\* What a pass is about to label anew was let go, or its bullet is satisfied.
MayGo(t) ==
  cycle[t] > 0 =>
    /\ "implement" \notin labels[t]
    /\ t \in released \/ (t \in bullet /\ fix331 = "completed")

Evidence == \A p \in Pass : Seen(p) /\ (\A t \in disp[p].send : MayGo(t))

LEMMA RespinInit == FactoryInit => Parked /\ Careful /\ Evidence
<1> SUFFICES ASSUME FactoryInit PROVE Parked /\ Careful /\ Evidence
  OBVIOUS
<1>1. Parked
  BY ParkedInit DEF FactoryInit, Init
<1>2. Careful
  BY DEF FactoryInit, ReaperInit, Idle, Careful
<1>3. Evidence
  BY DEF FactoryInit, DispatcherInit, NoPass, Evidence, Seen
<1> QED BY <1>1, <1>2, <1>3

\* A step that takes no label on or off, and parks nothing that is out of flight.
LEMMA EvidenceStays ==
  ASSUME FactoryTypeOK, Evidence, UNCHANGED <<disp, cycle>>,
         bullet \subseteq bullet',
         fix331 = "completed" => fix331' = "completed",
         \A t \in Ticket : "implement" \notin labels[t] =>
           "implement" \notin labels'[t] /\ (t \in released => t \in released')
  PROVE  Evidence'
<1>1. \A p \in Pass : disp[p].open \subseteq Ticket /\ disp[p].send \subseteq Ticket
  BY DEF FactoryTypeOK, DispatcherTypeOK
<1>2. ASSUME NEW p \in Pass PROVE Seen(p)'
  BY <1>1 DEF Evidence, Seen
<1>3. ASSUME NEW p \in Pass, NEW t \in disp[p].send PROVE MayGo(t)'
  BY <1>1, <1>3 DEF Evidence, MayGo
<1> QED BY <1>2, <1>3 DEF Evidence

LEMMA RespinBeside ==
  ASSUME FactoryTypeOK, OnePassNoHands, Parked, Careful, Evidence,
         Outside, UNCHANGED <<reapVars, dispVars>>
  PROVE  (Parked /\ Careful /\ Evidence)'
<1>1. TypeOK /\ FleetTypeOK
  BY DEF FactoryTypeOK, TypeOK, FleetTypeOK
<1>2. \A t \in Ticket : Taken(t)' <=> Taken(t)
  BY <1>1, BesideKeeps DEF OnePassNoHands, Outside, Beside
<1>3. /\ UNCHANGED <<cycle, bullet>>
      /\ fix331 = "completed" => fix331' = "completed"
      /\ released \subseteq released'
  BY DEF Outside, World, Merge, ClosePr, CloseNotPlanned, Hold, Release, Unlabel, HandLabel,
      Fix331, Runner, Guard, StartJob, NoCommits, Commit, OpenPr, FinishJob, FailJob,
      OnePassNoHands
<1>4. Evidence'
  BY <1>2, <1>3, EvidenceStays DEF Taken, dispVars
<1>5. Careful'
  BY <1>1, <1>2 DEF Careful, Taken, reapVars, TypeOK, ReaperTypeOK, PassRecord
<1>6. Parked'
  BY <1>1, OutsideParks
<1> QED BY <1>4, <1>5, <1>6

LEMMA CarefulReaperStep ==
  ASSUME TypeOK, Parked, Careful, ReaperStep
  PROVE  Careful'
<1>1. reap \in PassRecord /\ labels \in [Ticket -> SUBSET Label]
  BY DEF TypeOK, TicketTypeOK, ReaperTypeOK
<1>2. CASE ListTickets
  <2>1. /\ reap'.pc = "prs" /\ reap'.at = reap.at
        /\ reap'.todo = {t \in Ticket : issue[t] = "open" /\ "implement" \in labels[t]}
    BY <1>1, <1>2, Zenon DEF ListTickets, PassRecord
  <2>2. reap.at = {} /\ UNCHANGED labels
    BY <1>2 DEF ListTickets, Careful, ticketVars
  <2> QED BY <2>1, <2>2 DEF Careful
<1>3. CASE ListPrs \/ FetchRuns \/ RunsUnreadable
  <2>1. reap'.pc \in {"runs", "judge"} /\ reap'.at = reap.at /\ reap'.todo = reap.todo
    <3>1. CASE ListPrs
      BY <1>1, <3>1 DEF ListPrs, PassRecord
    <3>2. CASE FetchRuns
      BY <1>1, <3>2, Zenon DEF FetchRuns, PassRecord
    <3>3. CASE RunsUnreadable
      BY <1>1, <3>3 DEF RunsUnreadable, PassRecord
    <3> QED BY <1>3, <3>1, <3>2, <3>3
  <2>2. reap.pc \in {"prs", "runs"} /\ UNCHANGED labels
    BY <1>3 DEF ListPrs, FetchRuns, RunsUnreadable, ticketVars
  <2> QED BY <2>1, <2>2 DEF Careful
<1>4. CASE PrsUnreadable \/ Killed
  BY <1>4 DEF PrsUnreadable, Killed, Idle, Careful
<1>5. ASSUME NEW t \in Ticket, reap' = NextTicket(t), UNCHANGED labels,
             t \in reap.todo, t \in reap.at \/ reap.pc = "judge"
      PROVE  Careful'
  <2>1. CASE reap' = Idle
    BY <2>1 DEF Idle, Careful
  <2>2. CASE reap' # Idle
    <3>1. /\ reap'.pc = "judge" /\ reap'.todo = reap.todo \ {t} /\ reap'.at = {}
      BY <1>1, <1>5, <2>2, NextTicketFields, NextTicketAt
    <3>2. \A u \in reap.todo \ {t} : "implement" \in labels[u]
      BY <1>5 DEF Careful, Parked
    <3> QED BY <1>5, <3>1, <3>2 DEF Careful
  <2> QED BY <2>1, <2>2
<1>6. ASSUME NEW t \in Ticket, Judge(t) PROVE Careful'
  <2>1. CASE reap' = NextTicket(t)
    BY <1>5, <1>6, <2>1 DEF Judge, ticketVars
  <2>2. CASE reap' # NextTicket(t)
    <3>1. PICK verdict : reap' = [reap EXCEPT !.pc = "pair", !.at = {t}, !.key = cycle[t],
                                              !.pairing = verdict]
      BY <1>6, <2>2, JudgeOutcome
    <3>2. reap'.pc = "pair" /\ reap'.at = {t} /\ reap'.todo = reap.todo
      BY <1>1, <3>1 DEF PassRecord
    <3>3. t \in reap.todo /\ reap.pc = "judge" /\ UNCHANGED labels
      BY <1>6 DEF Judge, ticketVars
    <3> QED BY <3>2, <3>3 DEF Careful
  <2> QED BY <2>1, <2>2
<1>7. ASSUME NEW t \in Ticket, Pair(t) PROVE Careful'
  <2>1. /\ reap'.pc = "remove" /\ reap'.at = reap.at /\ reap'.todo = reap.todo
        /\ reap.pc = "pair"
    BY <1>1, <1>7 DEF Pair, PassRecord
  <2>2. \A u \in Ticket : "implement" \in labels[u] => "implement" \in labels'[u]
    BY <1>1, <1>7 DEF Pair
  <2> QED BY <1>1, <2>1, <2>2 DEF Careful, PassRecord
<1>8. ASSUME NEW t \in Ticket, Remove(t) PROVE Careful'
  <2>1. /\ reap'.pc = "comment" /\ reap'.at = reap.at /\ reap'.todo = reap.todo
        /\ reap.pc = "remove" /\ t \in reap.at
    BY <1>1, <1>8 DEF Remove, PassRecord
  <2>2. \A u \in Ticket \ {t} : "implement" \in labels[u] => "implement" \in labels'[u]
    BY <1>1, <1>8 DEF Remove
  <2> QED BY <1>1, <2>1, <2>2 DEF Careful, PassRecord
<1>9. ASSUME NEW t \in Ticket, Comment(t) \/ WriteFails(t) PROVE Careful'
  BY <1>5, <1>9 DEF Comment, WriteFails, Careful, ticketVars
<1> QED BY <1>2, <1>3, <1>4, <1>6, <1>7, <1>8, <1>9 DEF ReaperStep

\* The reaper takes the hold of nobody: what it parks carries the label.
LEMMA RespinReaperStep ==
  ASSUME FactoryTypeOK, Parked, Careful, Evidence, ReaperStep, UNCHANGED dispVars
  PROVE  (Parked /\ Careful /\ Evidence)'
<1>1. TypeOK /\ labels \in [Ticket -> SUBSET Label]
  BY DEF FactoryTypeOK, TypeOK, TicketTypeOK
<1>2. Parked' /\ Careful'
  BY <1>1, ReaperStepParks, CarefulReaperStep
<1>3. ASSUME UNCHANGED ticketVars PROVE Evidence'
  BY <1>3, EvidenceStays DEF ticketVars, dispVars
<1>4. ASSUME NEW t \in Ticket, Pair(t) PROVE Evidence'
  <2>1. "implement" \in labels[t]
    BY <1>4 DEF Pair, Careful
  <2>2. reap.pairing # "implement" /\ UNCHANGED <<cycle, fix331>> /\ bullet \subseteq bullet'
    BY <1>1, <1>4 DEF Pair, TypeOK, ReaperTypeOK, Parking
  <2>3. \A u \in Ticket : "implement" \notin labels[u] => "implement" \notin labels'[u]
    BY <1>1, <1>4, <2>2 DEF Pair
  <2>4. \A u \in Ticket \ {t} : u \in released => u \in released'
    BY <1>4 DEF Pair
  <2> QED BY <2>1, <2>2, <2>3, <2>4, EvidenceStays DEF dispVars
<1>5. ASSUME NEW t \in Ticket, Remove(t) PROVE Evidence'
  <2>1. \A u \in Ticket : "implement" \notin labels[u] => "implement" \notin labels'[u]
    BY <1>1, <1>5 DEF Remove
  <2> QED BY <1>5, <2>1, EvidenceStays DEF Remove, dispVars
<1>6. Evidence'
  BY <1>3, <1>4, <1>5 DEF ReaperStep, ListTickets, ListPrs, PrsUnreadable, Killed, FetchRuns,
     RunsUnreadable, Judge, Comment, WriteFails
<1> QED BY <1>2, <1>6

\* A step of the pass that labels nothing anew, by what it does to the record.
LEMMA EvidencePass ==
  ASSUME FactoryTypeOK, OnePassNoHands, Evidence, NEW p \in Pass, DOMAIN disp' = Pass,
         UNCHANGED <<cycle, bullet, fix331, released>>,
         \A t \in Ticket : Taken(t)' <=> Taken(t),
         Seen(p)',
         disp'[p].send \subseteq disp[p].send \/ \A t \in disp'[p].send : t \in Ticket /\ MayGo(t)
  PROVE  Evidence'
<1>1. disp[p].send \subseteq Ticket
  BY DEF FactoryTypeOK, DispatcherTypeOK
<1>2. ASSUME NEW t \in disp'[p].send PROVE MayGo(t)'
  <2>1. t \in Ticket /\ MayGo(t)
    BY <1>1, <1>2 DEF Evidence
  <2> QED BY <2>1 DEF MayGo, Taken
<1> QED BY <1>2 DEF OnePassNoHands, Evidence

LEMMA EvidenceRead ==
  ASSUME FactoryTypeOK, OnePassNoHands, Parked, Evidence, NEW p \in Pass,
         StartPass(p) \/ ListIssues(p) \/ IssuesUnreadable(p) \/ ListAgentPrs(p)
  PROVE  Evidence'
<1>1. disp[p] \in DispatchRecord /\ DOMAIN disp = Pass
  BY DEF FactoryTypeOK, DispatcherTypeOK, DispatchRecord
<1>2. UNCHANGED ticketVars /\ DOMAIN disp' = Pass
  BY <1>1 DEF StartPass, ListIssues, IssuesUnreadable, ListAgentPrs
<1>3. /\ UNCHANGED <<labels, cycle, bullet, fix331, released>>
      /\ \A t \in Ticket : Taken(t)' <=> Taken(t)
  BY <1>2 DEF ticketVars, Taken
<1>4. Seen(p)
  BY DEF Evidence
<1>5. CASE StartPass(p)
  <2>1. disp'[p] = [disp[p] EXCEPT !.pc = "issues", !.repos = Repo] /\ disp[p].pc = "idle"
    BY <1>1, <1>5 DEF StartPass
  <2>2. disp'[p].pc = "issues" /\ disp'[p].open = {} /\ disp'[p].send = disp[p].send
    BY <1>1, <1>4, <2>1 DEF Seen, DispatchRecord
  <2>3. Seen(p)'
    BY <2>2 DEF Seen
  <2> QED BY <1>2, <1>3, <2>2, <2>3, EvidencePass
<1>6. CASE ListIssues(p)
  <2> DEFINE here == {i \in Ticket \union Epic : RepoOf[i] = First(disp[p].repos)}
             seen == [t \in Ticket |-> IF t \in here THEN labels[t] ELSE disp[p].labels[t]]
             r == [disp[p] EXCEPT !.pc = "prs",
                     !.open = @ \union {t \in Ticket \intersect here : issue[t] = "open"},
                     !.held = @ \union (bullet \intersect here),
                     !.epics = @ \union (Epic \intersect here),
                     !.labels = seen]
  <2>1. disp'[p] = r /\ disp[p].pc = "issues"
    BY <1>1, <1>6 DEF ListIssues
  <2>2. /\ r.pc = "prs" /\ r.send = disp[p].send /\ r.labels = seen
        /\ r.open = disp[p].open \union {t \in Ticket \intersect here : issue[t] = "open"}
        /\ r.held = disp[p].held \union (bullet \intersect here)
    BY <1>1 DEF DispatchRecord
  <2> HIDE DEF r
  <2>3. ASSUME NEW t \in r.open, cycle[t] > 0, "implement" \notin r.labels[t]
        PROVE  /\ "implement" \notin labels[t]
               /\ \/ t \in released
                  \/ r.labels[t] \intersect Excluded # {}
                  \/ t \in r.held /\ t \in bullet
    <3>1. t \in Ticket
      BY <1>1, <2>2 DEF DispatchRecord
    <3>2. CASE t \in here
      <4>1. r.labels[t] = labels[t]
        BY <2>2, <3>1, <3>2
      <4> QED BY <2>2, <2>3, <3>1, <3>2, <4>1 DEF Parked, Settled
    <3>3. CASE t \notin here
      <4>1. t \in disp[p].open /\ r.labels[t] = disp[p].labels[t]
        BY <2>2, <3>1, <3>3
      <4> QED BY <1>4, <2>1, <2>2, <2>3, <4>1 DEF Seen
    <3> QED BY <3>2, <3>3
  <2>4. Seen(p)'
    BY <1>3, <2>1, <2>2, <2>3 DEF Seen
  <2> QED BY <1>2, <1>3, <2>1, <2>2, <2>4, EvidencePass
<1>7. CASE IssuesUnreadable(p) \/ ListAgentPrs(p)
  <2>1. /\ disp'[p].pc \in {"prs", "plan", "issues"} /\ disp'[p].open = disp[p].open
        /\ disp'[p].labels = disp[p].labels /\ disp'[p].held = disp[p].held
        /\ disp'[p].send = disp[p].send /\ disp[p].pc \in {"issues", "prs"}
    <3>1. CASE IssuesUnreadable(p)
      BY <1>1, <3>1 DEF IssuesUnreadable, DispatchRecord
    <3>2. CASE ListAgentPrs(p)
      <4> DEFINE left == disp[p].repos \ {First(disp[p].repos)}
                 here == {u \in Ticket : RepoOf[u] = First(disp[p].repos) /\ pr[u] = "open"}
                 r(seen) == [disp[p] EXCEPT !.pc = IF left = {} THEN "plan" ELSE "issues",
                                            !.repos = left, !.prs = @ \union seen]
      <4>1. PICK seen \in {here} \union (IF "prs" \in Faults THEN {{}} ELSE {}) :
               disp' = [disp EXCEPT ![p] = r(seen)]
        BY <3>2, AgentPrsListed DEF FactoryTypeOK
      <4>2. /\ r(seen).pc \in {"plan", "issues"} /\ r(seen).open = disp[p].open
            /\ r(seen).labels = disp[p].labels /\ r(seen).held = disp[p].held
            /\ r(seen).send = disp[p].send
        BY <1>1 DEF DispatchRecord
      <4>3. disp'[p] = r(seen) /\ disp[p].pc = "prs"
        BY <1>1, <3>2, <4>1 DEF ListAgentPrs
      <4> HIDE DEF r
      <4> QED BY <4>2, <4>3
    <3> QED BY <1>7, <3>1, <3>2
  <2>2. Seen(p)'
    BY <1>3, <1>4, <2>1 DEF Seen
  <2> QED BY <1>2, <1>3, <2>1, <2>2, EvidencePass
<1> QED BY <1>5, <1>6, <1>7

\* A ready ticket that was labeled before was let go, or its bullet is satisfied.
LEMMA ReadyMayGo ==
  ASSUME FactoryTypeOK, Evidence, NEW p \in Pass, disp[p].pc = "plan", NEW failed,
         NEW t \in ReadyChildren(Snapshot(p, failed))
  PROVE  t \in Ticket /\ MayGo(t)
<1> DEFINE S == Snapshot(p, failed)
<1>1. S.open = disp[p].open /\ S.labels = disp[p].labels
  BY DEF Snapshot
<1>2. t \in Children(S) /\ ChildVerdict(S, t) = "ready"
  BY DEF ReadyChildren
<1> HIDE DEF S
<1>3. t \in disp[p].open
  BY <1>1, <1>2 DEF Children
<1>4. disp[p].labels[t] \intersect Excluded = {} /\ "implement" \notin disp[p].labels[t]
  BY <1>1, <1>2 DEF ChildVerdict
<1>5. t \in disp[p].held => fix331 = "completed"
  BY ReadyIsFree DEF FactoryTypeOK, TypeOK, FleetTypeOK
<1>6. t \in Ticket
  BY <1>3 DEF FactoryTypeOK, DispatcherTypeOK
<1> QED BY <1>3, <1>4, <1>5, <1>6 DEF Evidence, Seen, MayGo

LEMMA EvidencePlan ==
  ASSUME FactoryTypeOK, OnePassNoHands, Evidence, NEW p \in Pass, Plan(p)
  PROVE  Evidence'
<1>1. PICK failed : PlanFor(p, failed)
  BY DEF Plan
<1> DEFINE S == Snapshot(p, failed)
<1>2. PICK D \in SUBSET ReadyChildren(S) :
         disp' = [disp EXCEPT ![p] =
                    IF D \union FlaggedChildren(S) = {} THEN NoPass
                    ELSE [NoPass EXCEPT !.pc = "write", !.send = D,
                                        !.flag = FlaggedChildren(S)]]
  BY <1>1 DEF PlanFor
<1>3. UNCHANGED ticketVars /\ disp[p].pc = "plan" /\ DOMAIN disp = Pass
  BY <1>1 DEF PlanFor, FactoryTypeOK, DispatcherTypeOK
<1>4. /\ UNCHANGED <<cycle, bullet, fix331, released>>
      /\ \A t \in Ticket : Taken(t)' <=> Taken(t)
  BY <1>3 DEF ticketVars, Taken
<1>5. \A t \in D : t \in Ticket /\ MayGo(t)
  BY <1>2, <1>3, ReadyMayGo
<1> HIDE DEF S
<1>6. /\ disp'[p].send \subseteq D /\ disp'[p].pc \in {"idle", "write"}
      /\ disp'[p].open = {} /\ DOMAIN disp' = Pass
  BY <1>2, <1>3 DEF NoPass
<1>7. Seen(p)'
  BY <1>6 DEF Seen
<1> QED BY <1>4, <1>5, <1>6, <1>7, EvidencePass

\* An action of the plan is done or given up; what is left is what was left.
LEMMA EvidenceWrites ==
  ASSUME FactoryTypeOK, OnePassNoHands, Evidence, NEW p \in Pass,
         \/ AlreadyFlagged(p) \/ Flag(p) \/ FlagComment(p) \/ DispatchWriteFails(p)
         \/ PassKilled(p)
  PROVE  Evidence'
<1>1. /\ DOMAIN disp = Pass /\ disp[p] \in DispatchRecord
      /\ labels \in [Ticket -> SUBSET Label]
  BY DEF FactoryTypeOK, TypeOK, TicketTypeOK, DispatcherTypeOK, DispatchRecord
<1>2. UNCHANGED <<cycle, bullet, fix331, released>>
  BY DEF AlreadyFlagged, Flag, FlagComment, DispatchWriteFails, PassKilled, ticketVars
<1>3. \A t \in Ticket : Taken(t)' <=> Taken(t)
  BY <1>1 DEF AlreadyFlagged, Flag, FlagComment, DispatchWriteFails, PassKilled, ticketVars,
     Taken
<1>4. /\ DOMAIN disp' = Pass
      /\ disp'[p].send \subseteq disp[p].send
      /\ disp'[p].pc \in {"write", "comment"} \/ (disp'[p].pc = "idle" /\ disp'[p].open = {})
  <2>1. CASE Flag(p)
    BY <1>1, <2>1 DEF Flag, DispatchRecord
  <2>2. CASE ~Flag(p)
    <3>1. /\ NextAction(p).send \subseteq disp[p].send
          /\ NextAction(p).pc = "write" \/ (NextAction(p).pc = "idle" /\ NextAction(p).open = {})
          /\ NoPass.send = {} /\ NoPass.pc = "idle" /\ NoPass.open = {}
      BY <1>1 DEF NextAction, NoPass, DispatchRecord
    <3> QED BY <1>1, <2>2, <3>1 DEF AlreadyFlagged, FlagComment, DispatchWriteFails, PassKilled
  <2> QED BY <2>1, <2>2
<1>5. Seen(p)'
  BY <1>4 DEF Seen
<1> QED BY <1>2, <1>3, <1>4, <1>5, EvidencePass

\* The pass labels the ticket whose turn it is, and only that.
LEMMA EvidenceDispatch ==
  ASSUME FactoryTypeOK, OnePassNoHands, Evidence, NEW p \in Pass, Dispatch(p)
  PROVE  Evidence'
<1> PICK t \in disp[p].send : t = Turn(p)
  BY DEF Dispatch
<1>1. /\ t \in Ticket /\ DOMAIN disp = Pass /\ disp[p] \in DispatchRecord
      /\ disp[p].send \subseteq Ticket
  BY DEF FactoryTypeOK, DispatcherTypeOK, DispatchRecord
<1>2. /\ disp'[p].send \subseteq disp[p].send \ {t}
      /\ disp'[p].pc = "write" \/ (disp'[p].pc = "idle" /\ disp'[p].open = {})
  <2>1. /\ NextAction(p).send \subseteq disp[p].send \ {t}
        /\ NextAction(p).pc = "write" \/ (NextAction(p).pc = "idle" /\ NextAction(p).open = {})
    BY <1>1 DEF NextAction, NoPass, DispatchRecord
  <2> QED BY <1>1, <2>1 DEF Dispatch
<1>3. UNCHANGED <<bullet, fix331, released>>
  BY DEF Dispatch, ApplyImplement
<1>4. \A u \in Ticket \ {t} : labels'[u] = labels[u] /\ cycle'[u] = cycle[u]
  BY <1>1 DEF Dispatch, ApplyImplement, FactoryTypeOK, TypeOK, TicketTypeOK
<1>5. Seen(p)'
  BY <1>2 DEF Seen
<1>6. ASSUME NEW u \in disp'[p].send PROVE MayGo(u)'
  <2>1. u \in Ticket \ {t} /\ MayGo(u)
    BY <1>1, <1>2, <1>6 DEF Evidence
  <2> QED BY <1>3, <1>4, <2>1 DEF MayGo
<1> QED BY <1>5, <1>6 DEF OnePassNoHands, Evidence

LEMMA RespinDispatcherStep ==
  ASSUME FactoryTypeOK, OnePassNoHands, Parked, Careful, Evidence,
         DispatcherStep, UNCHANGED reapVars
  PROVE  (Parked /\ Careful /\ Evidence)'
<1>1. PICK p \in Pass :
         \/ StartPass(p) \/ ListIssues(p) \/ IssuesUnreadable(p) \/ ListAgentPrs(p)
         \/ Plan(p) \/ Dispatch(p) \/ AlreadyFlagged(p) \/ Flag(p) \/ FlagComment(p)
         \/ DispatchWriteFails(p) \/ PassKilled(p)
  BY DEF DispatcherStep
<1>2. Evidence'
  BY <1>1, EvidenceRead, EvidencePlan, EvidenceDispatch, EvidenceWrites
<1>3. Parked'
  BY DispatcherParks
<1>4. reap' = reap /\ reap.todo \subseteq Ticket /\ TypeOK
  BY DEF reapVars, FactoryTypeOK, TypeOK, ReaperTypeOK, PassRecord
<1>5. \A u \in Ticket : "implement" \in labels[u] => "implement" \in labels'[u]
  <2>1. ASSUME NEW q \in Pass, Dispatch(q), Turn(q) \in Ticket, NEW u \in Ticket
        PROVE  labels[u] \subseteq labels'[u]
    BY <1>4, <2>1 DEF Dispatch, ApplyImplement, TypeOK, TicketTypeOK
  <2>2. ASSUME NEW q \in Pass, Flag(q), NEW u \in Ticket
        PROVE  labels[u] \subseteq labels'[u]
    <3>1. labels' = [labels EXCEPT ![Turn(q)] = @ \union {"human"}]
      BY <2>2 DEF Flag
    <3>2. DOMAIN labels = Ticket
      BY <1>4 DEF TypeOK, TicketTypeOK
    <3> QED BY <3>1, <3>2
  <2> QED BY <2>1, <2>2, DispatcherEdits DEF ticketVars
<1>6. Careful'
  BY <1>4, <1>5 DEF Careful
<1> QED BY <1>2, <1>3, <1>6

LEMMA RespinNext ==
  ASSUME FactoryTypeOK, OnePassNoHands, Parked, Careful, Evidence, [FactoryNext]_factoryVars
  PROVE  (Parked /\ Careful /\ Evidence)'
<1>1. CASE ReaperTick /\ UNCHANGED dispVars
  <2>1. UNCHANGED <<disp, reap, labels, cycle, bullet, fix331, released>>
    BY <1>1 DEF ReaperTick, Tick, dispVars
  <2> QED BY <2>1 DEF Parked, Settled, Careful, Evidence, Seen, MayGo
<1>2. CASE UNCHANGED factoryVars
  BY <1>2
  DEF factoryVars, ticketVars, reapVars, dispVars, Parked, Settled, Careful, Evidence, Seen,
      MayGo
<1> QED
  BY <1>1, <1>2, RespinReaperStep, RespinDispatcherStep, RespinBeside DEF FactoryNext

\* Only a dispatch labels.
LEMMA WhoRelabels ==
  ASSUME FactoryTypeOK, "relabel" \notin Faults, [FactoryNext]_factoryVars,
         NEW t \in Ticket, cycle'[t] > cycle[t]
  PROVE  \E p \in Pass : Dispatch(p) /\ t = Turn(p)
<1>1. FleetTypeOK
  BY DEF FactoryTypeOK, TypeOK, FleetTypeOK
<1>2. cycle' # cycle
  BY <1>1 DEF FleetTypeOK, TicketTypeOK
<1>3. ~ReaperStep /\ ~ReaperTick /\ ~Outside
  BY <1>2, Zenon
  DEF ReaperStep, ListTickets, ListPrs, PrsUnreadable, Killed, FetchRuns, RunsUnreadable,
      Judge, Pair, Remove, Comment, WriteFails, ReaperTick, Tick, ticketVars, Outside, World,
      Merge, ClosePr, CloseNotPlanned, Hold, Release, Unlabel, HandLabel, Fix331, Runner, Guard,
      StartJob, NoCommits, Commit, OpenPr, FinishJob, FailJob
<1>4. DispatcherStep
  BY <1>2, <1>3 DEF FactoryNext, factoryVars, ticketVars
<1> QED BY <1>1, <1>4, WhoLabels DEF FleetNext

LEMMA WhoLabelsAgain ==
  ASSUME FactoryTypeOK, OnePassNoHands, Evidence, [FactoryNext]_factoryVars,
         NEW t \in Ticket, cycle'[t] > cycle[t], cycle[t] > 0
  PROVE  t \in released' \/ (t \in bullet /\ fix331 = "completed")
<1>1. PICK p \in Pass : Dispatch(p) /\ t = Turn(p)
  BY WhoRelabels DEF OnePassNoHands
<1>2. released' = released /\ MayGo(t)
  BY <1>1 DEF Dispatch, ApplyImplement, Evidence
<1> QED BY <1>2 DEF MayGo

\* Where dispatch passes do not overlap and nobody labels by hand: however old the reads of a
\* pass are, and whatever the reaper does meanwhile, a ticket that was labeled before is
\* labeled again only after somebody let it go, or with #331 closed.
THEOREM FactoryNeverRespins ==
  ASSUME OnePassNoHands
  PROVE  FactorySpec => RespinFree
<1>1. FactoryTypeOK /\ Parked /\ Careful /\ Evidence /\ [FactoryNext]_factoryVars =>
        (Parked /\ Careful /\ Evidence)'
  BY RespinNext
<1>2. FactoryTypeOK /\ Evidence /\ [FactoryNext]_factoryVars =>
        [\A t \in Ticket : cycle'[t] > cycle[t] /\ cycle[t] > 0 =>
           t \in released' \/ (t \in bullet /\ fix331 = "completed")]_factoryVars
  BY WhoLabelsAgain
<1> QED
  BY <1>1, <1>2, FactoryTypeInit, FactoryTypeNext, RespinInit, PTL DEF FactorySpec, RespinFree

-----------------------------------------------------------------------------
(* RepeatDeathHeld                                                         *)

Young(t)     == \E c \in Cycle : marks[t][c] < RepeatWindow
TwoDeaths(t) == \E c, d \in Cycle : /\ c # d
                                    /\ marks[t][c] < RepeatWindow
                                    /\ marks[t][d] < RepeatWindow

\* The second death is on the record, or the reaper is about to record it.
RepeatDead(t) == TwoDeaths(t) \/ (Young(t) /\ t \in reap.at /\ reap.pc = "comment")

\* A person has the ticket, or had it and let it go.
InHand(t) == t \in released \/ labels[t] \intersect Excluded # {}

\* The ticket the reaper parks gets a label if it died in the window before: only that can
\* hold it, as #331 may be closed.
Heedful ==
  \A t \in reap.at : Young(t) =>
    /\ reap.pc = "pair" => reap.pairing # "blocker"
    /\ reap.pc \in {"remove", "comment"} => InHand(t)

\* So a repeat death that is out of flight is in hand;
Escalated == \A t \in Ticket : "implement" \notin labels[t] /\ RepeatDead(t) => InHand(t)

\* a pass that read it so saw the hold, unless it was let go;
SeenDead(p) ==
  disp[p].pc \in {"issues", "prs", "plan"} =>
    \A t \in disp[p].open :
      cycle[t] > 0 /\ "implement" \notin disp[p].labels[t] /\ RepeatDead(t) =>
        t \in released \/ disp[p].labels[t] \intersect Excluded # {}

\* and what it is about to label was let go.
SentDead(p) == \A t \in disp[p].send : cycle[t] > 0 /\ RepeatDead(t) => t \in released

Warned == Heedful /\ Escalated /\ \A p \in Pass : SeenDead(p) /\ SentDead(p)

LEMMA WarnedInit == FactoryInit => Warned
<1> SUFFICES ASSUME FactoryInit PROVE Warned
  OBVIOUS
<1>1. \A t \in Ticket, c \in Cycle : ~ (marks[t][c] < RepeatWindow)
  BY ReaperAssumption DEF FactoryInit, ReaperInit, NoMark
<1>2. \A t \in Ticket : ~RepeatDead(t)
  BY <1>1 DEF RepeatDead, TwoDeaths, Young
<1>3. reap.at = {}
  BY DEF FactoryInit, ReaperInit, Idle
<1>4. \A p \in Pass : disp[p].pc = "idle" /\ disp[p].send = {}
  BY DEF FactoryInit, DispatcherInit, NoPass
<1> QED BY <1>2, <1>3, <1>4 DEF Warned, Heedful, Escalated, SeenDead, SentDead

\* What a pass knows stays true while no ticket out of flight dies or is parked.
LEMMA DeadStays ==
  ASSUME FactoryTypeOK, Evidence, Warned, UNCHANGED <<disp, cycle>>,
         \A t \in Ticket : "implement" \notin labels[t] =>
           (RepeatDead(t)' => RepeatDead(t)) /\ (t \in released => t \in released')
  PROVE  \A p \in Pass : SeenDead(p)' /\ SentDead(p)'
<1>1. \A p \in Pass : disp[p].open \subseteq Ticket /\ disp[p].send \subseteq Ticket
  BY DEF FactoryTypeOK, DispatcherTypeOK
<1>2. ASSUME NEW p \in Pass PROVE SeenDead(p)'
  <2>1. ASSUME NEW t \in disp[p].open, disp[p].pc \in {"issues", "prs", "plan"},
               cycle[t] > 0, "implement" \notin disp[p].labels[t], RepeatDead(t)'
        PROVE  t \in released' \/ disp[p].labels[t] \intersect Excluded # {}
    <3>1. t \in Ticket /\ "implement" \notin labels[t]
      BY <1>1, <2>1 DEF Evidence, Seen
    <3>2. RepeatDead(t)
      BY <2>1, <3>1
    <3> QED BY <2>1, <3>1, <3>2 DEF Warned, SeenDead
  <2> QED BY <2>1 DEF SeenDead
<1>3. ASSUME NEW p \in Pass PROVE SentDead(p)'
  <2>1. ASSUME NEW t \in disp[p].send, cycle[t] > 0, RepeatDead(t)'
        PROVE  t \in released'
    <3>1. t \in Ticket /\ "implement" \notin labels[t]
      BY <1>1, <2>1 DEF Evidence, MayGo
    <3> QED BY <2>1, <3>1 DEF Warned, SentDead
  <2> QED BY <2>1 DEF SentDead
<1> QED BY <1>2, <1>3

\* A turn that ends, or a pass that reads: what was on the record stays, nothing comes.
LEMMA WarnedAtRest ==
  ASSUME FactoryTypeOK, Evidence, Warned, UNCHANGED <<ticketVars, marks, disp>>, reap'.at = {}
  PROVE  Warned'
<1>1. \A t \in Ticket : TwoDeaths(t)' => TwoDeaths(t)
  BY DEF TwoDeaths
<1>2. \A t \in Ticket : RepeatDead(t)' => RepeatDead(t)
  BY <1>1 DEF RepeatDead
<1>3. UNCHANGED <<labels, cycle, released>>
  BY DEF ticketVars
<1>4. Escalated'
  BY <1>2, <1>3 DEF Warned, Escalated, InHand
<1> QED BY <1>2, <1>3, <1>4, DeadStays DEF Warned, Heedful

\* A death in the window before rules the bullet out: who sees a claim among the comments
\* sees that death as well.
LEMMA RepeatVerdict ==
  ASSUME NEW t \in Ticket, NEW failed, Young(t), reap \in PassRecord,
         marks \in [Ticket -> [Cycle -> 0..NoMark]]
  PROVE  VerdictOn(t, failed) # "blocker"
<1>1. ASSUME "comments" \notin failed
      PROVE  \E c \in OwnComments(t, failed) : marks[t][c] < RepeatWindow
  <2>1. PICK c \in Cycle : marks[t][c] < RepeatWindow
    BY DEF Young
  <2>2. marks[t][c] # NoMark
    BY <2>1, ReaperAssumption DEF NoMark
  <2> QED BY <1>1, <2>1, <2>2 DEF OwnComments
<1>2. ASSUME NEW open, NEW run, NEW age, NEW claimed, NEW exists
      PROVE  Evaluate(open, run, age, claimed, exists, TRUE) # "blocker"
  BY DEF Evaluate
<1>3. ASSUME NEW open, NEW run \in RunState, NEW age, NEW exists, NEW repeated
      PROVE  Evaluate(open, run, age, FALSE, exists, repeated) # "blocker"
  <2>1. CASE open \/ run \in Live
    BY <2>1 DEF Evaluate
  <2>2. CASE ~open /\ run \notin Live
    <3>1. Outcome(run, FALSE, exists) # "pushed-nothing"
      BY <2>2 DEF Outcome, RunState, Live
    <3>2. ChoosePairing(Outcome(run, FALSE, exists)) # "blocker"
      BY <3>1 DEF ChoosePairing
    <3> QED BY <2>2, <3>2 DEF Evaluate
  <2> QED BY <2>1, <2>2
<1>4. FindRun(t, cycle[t]) \in RunState
  BY DEF FindRun, PassRecord, RunState
<1> DEFINE run == IF FindRun(t, cycle[t]) = "refused" /\ "jobs" \in failed THEN "empty"
                  ELSE FindRun(t, cycle[t])
           exists == t \in branch /\ "branch" \notin failed
<1>5. run \in RunState
  BY <1>4 DEF RunState
<1> HIDE DEF run, exists
<1>6. CASE "comments" \in failed
  <2>1. VerdictOn(t, failed) = Evaluate(t \in reap.prs, run, labelAge[t], FALSE, exists,
                                 \E c \in OwnComments(t, failed) : marks[t][c] < RepeatWindow)
    BY <1>6 DEF VerdictOn, run, exists
  <2> QED BY <1>3, <1>5, <2>1
<1>7. CASE "comments" \notin failed
  BY <1>1, <1>2, <1>7 DEF VerdictOn
<1> QED BY <1>6, <1>7

LEMMA WarnedJudge ==
  ASSUME FactoryTypeOK, Careful, Evidence, Warned, NEW t \in Ticket, Judge(t),
         UNCHANGED dispVars
  PROVE  Warned'
<1>1. reap \in PassRecord /\ marks \in [Ticket -> [Cycle -> 0..NoMark]]
  BY DEF FactoryTypeOK, TypeOK, ReaperTypeOK
<1>2. UNCHANGED <<ticketVars, marks, disp>>
  BY DEF Judge, dispVars
<1>3. CASE reap' = NextTicket(t)
  BY <1>1, <1>2, <1>3, NextTicketAt, WarnedAtRest
<1>4. CASE reap' # NextTicket(t)
  <2>1. PICK failed :
           reap' = [reap EXCEPT !.pc = "pair", !.at = {t}, !.key = cycle[t],
                                !.pairing = VerdictOn(t, failed)]
    BY <1>4, Zenon DEF Judge
  <2>2. reap'.pc = "pair" /\ reap'.at = {t} /\ reap'.pairing = VerdictOn(t, failed)
    BY <1>1, <2>1 DEF PassRecord
  <2>3. Young(t)' => Young(t)
    BY <1>2 DEF Young
  <2>4. Heedful'
    BY <1>1, <2>1, <2>2, <2>3, RepeatVerdict DEF Heedful
  <2>5. \A u \in Ticket : RepeatDead(u)' => RepeatDead(u)
    BY <1>2, <2>2 DEF RepeatDead, TwoDeaths
  <2>6. UNCHANGED <<labels, cycle, released>>
    BY <1>2 DEF ticketVars
  <2>7. Escalated'
    BY <2>5, <2>6 DEF Warned, Escalated, InHand
  <2> QED BY <1>2, <2>4, <2>5, <2>6, <2>7, DeadStays DEF Warned
<1> QED BY <1>3, <1>4

\* The pairing of a repeat death is a hold.
LEMMA WarnedPair ==
  ASSUME FactoryTypeOK, Careful, Parked, Evidence, Warned, NEW t \in Ticket, Pair(t),
         UNCHANGED dispVars
  PROVE  Warned'
<1>1. /\ reap \in PassRecord /\ labels \in [Ticket -> SUBSET Label]
      /\ reap.pc = "pair" /\ t \in reap.at /\ reap.at \subseteq Ticket
      /\ reap.pairing \in Parking
      /\ \A u \in reap.at : u = t
  BY DEF FactoryTypeOK, TypeOK, TicketTypeOK, ReaperTypeOK, Pair, Parked, PassRecord
<1>2. reap'.pc = "remove" /\ reap'.at = reap.at
  BY <1>1 DEF Pair, PassRecord
<1>3. UNCHANGED <<cycle, marks, disp>> /\ released' = released \ {t}
  BY DEF Pair, dispVars
<1>4. \A u \in Ticket \ {t} : labels'[u] = labels[u]
  BY <1>1 DEF Pair
<1>5. labels[t] \subseteq labels'[t] /\ (reap.pairing # "blocker" => reap.pairing \in labels'[t])
  BY <1>1 DEF Pair
<1>6. "implement" \in labels[t]
  BY <1>1 DEF Careful
<1>7. Heedful'
  <2>1. Young(t)' => Young(t)
    BY <1>3 DEF Young
  <2>2. Young(t)' => InHand(t)'
    BY <1>1, <1>5, <2>1 DEF Warned, Heedful, InHand, Excluded, Parking
  <2> QED BY <1>1, <1>2, <2>2 DEF Heedful
<1>8. \A u \in Ticket : RepeatDead(u)' => RepeatDead(u)
  BY <1>2, <1>3 DEF RepeatDead, TwoDeaths
<1>9. Escalated'
  BY <1>3, <1>4, <1>5, <1>6, <1>8 DEF Warned, Escalated, InHand
<1>10. \A u \in Ticket : "implement" \notin labels[u] =>
          (RepeatDead(u)' => RepeatDead(u)) /\ (u \in released => u \in released')
  BY <1>3, <1>6, <1>8
<1> QED BY <1>3, <1>7, <1>9, <1>10, DeadStays DEF Warned

\* A repeat death is in hand when it loses the label,
LEMMA WarnedRemove ==
  ASSUME FactoryTypeOK, Careful, Parked, Evidence, Warned, NEW t \in Ticket, Remove(t),
         UNCHANGED dispVars
  PROVE  Warned'
<1>1. /\ reap \in PassRecord /\ labels \in [Ticket -> SUBSET Label]
      /\ reap.pc = "remove" /\ t \in reap.at /\ reap.at \subseteq Ticket
      /\ \A u \in reap.at : u = t
  BY DEF FactoryTypeOK, TypeOK, TicketTypeOK, ReaperTypeOK, Remove, Parked, PassRecord
<1>2. reap'.pc = "comment" /\ reap'.at = reap.at
  BY <1>1 DEF Remove, PassRecord
<1>3. UNCHANGED <<cycle, marks, disp, released>>
  BY DEF Remove, dispVars
<1>4. /\ \A u \in Ticket \ {t} : labels'[u] = labels[u]
      /\ labels'[t] = labels[t] \ {"implement"}
  BY <1>1 DEF Remove
<1>5. "implement" \in labels[t]
  BY <1>1 DEF Careful
<1>6. \A u \in Ticket : Young(u)' => Young(u)
  BY <1>3 DEF Young
<1>7. InHand(t) => InHand(t)'
  BY <1>3, <1>4 DEF InHand, Excluded
<1>8. Young(t) => InHand(t)
  BY <1>1 DEF Warned, Heedful
<1>9. Heedful'
  BY <1>1, <1>2, <1>6, <1>7, <1>8 DEF Heedful
<1>10. \A u \in Ticket \ {t} : RepeatDead(u)' => RepeatDead(u)
  BY <1>1, <1>2, <1>3 DEF RepeatDead, TwoDeaths
<1>11. RepeatDead(t)' => InHand(t)'
  BY <1>6, <1>7, <1>8 DEF RepeatDead, TwoDeaths, Young
<1>12. Escalated'
  BY <1>3, <1>4, <1>10, <1>11 DEF Warned, Escalated, InHand
<1> QED BY <1>3, <1>5, <1>9, <1>10, <1>12, DeadStays DEF Warned

\* and its comment puts on the record what the reaper knew.
LEMMA WarnedComment ==
  ASSUME FactoryTypeOK, Careful, Parked, Evidence, Warned, NEW t \in Ticket, Comment(t),
         UNCHANGED dispVars
  PROVE  Warned'
<1>1. /\ reap \in PassRecord /\ marks \in [Ticket -> [Cycle -> 0..NoMark]]
      /\ reap.pc = "comment" /\ t \in reap.at
  BY DEF FactoryTypeOK, TypeOK, ReaperTypeOK, Comment
<1>2. UNCHANGED <<labels, cycle, released, disp>> /\ reap'.at = {}
  BY <1>1, NextTicketAt DEF Comment, dispVars, ticketVars
<1>3. marks' = [marks EXCEPT ![t][reap.key] = 0]
  BY DEF Comment
<1>4. \A u \in Ticket \ {t} : TwoDeaths(u)' => TwoDeaths(u)
  BY <1>1, <1>3 DEF TwoDeaths
<1>5. TwoDeaths(t)' => Young(t)
  <2>1. \A c \in Cycle : c # reap.key => marks'[t][c] = marks[t][c]
    BY <1>1, <1>3
  <2> QED BY <2>1 DEF TwoDeaths, Young
<1>6. \A u \in Ticket : RepeatDead(u)' => RepeatDead(u)
  BY <1>1, <1>2, <1>4, <1>5 DEF RepeatDead
<1>7. Escalated'
  BY <1>2, <1>6 DEF Warned, Escalated, InHand
<1> QED BY <1>2, <1>6, <1>7, DeadStays DEF Warned, Heedful

LEMMA WarnedReaperStep ==
  ASSUME FactoryTypeOK, Careful, Parked, Evidence, Warned,
         ReaperStep, UNCHANGED dispVars
  PROVE  Warned'
<1>1. reap \in PassRecord
  BY DEF FactoryTypeOK, TypeOK, ReaperTypeOK
<1>2. CASE ListTickets \/ ListPrs \/ FetchRuns \/ RunsUnreadable
  <2>1. reap'.at = reap.at
    <3>1. CASE ListTickets
      BY <1>1, <3>1, Zenon DEF ListTickets, PassRecord
    <3>2. CASE ListPrs
      BY <1>1, <3>2 DEF ListPrs, PassRecord
    <3>3. CASE FetchRuns
      BY <1>1, <3>3, Zenon DEF FetchRuns, PassRecord
    <3>4. CASE RunsUnreadable
      BY <1>1, <3>4 DEF RunsUnreadable, PassRecord
    <3> QED BY <1>2, <3>1, <3>2, <3>3, <3>4
  <2>2. reap.at = {} /\ UNCHANGED <<ticketVars, marks, disp>>
    BY <1>2 DEF ListTickets, ListPrs, FetchRuns, RunsUnreadable, Careful, dispVars
  <2> QED BY <2>1, <2>2, WarnedAtRest
<1>3. CASE PrsUnreadable \/ Killed
  BY <1>3, WarnedAtRest DEF PrsUnreadable, Killed, Idle, dispVars
<1>4. ASSUME NEW t \in Ticket, WriteFails(t) PROVE Warned'
  BY <1>1, <1>4, NextTicketAt, WarnedAtRest DEF WriteFails, dispVars
<1> QED
  BY <1>2, <1>3, <1>4, WarnedJudge, WarnedPair, WarnedRemove, WarnedComment DEF ReaperStep

\* People let tickets go, and take their hold off no other way.
LEMMA WarnedBeside ==
  ASSUME FactoryTypeOK, OnePassNoHands, Evidence, Warned, Outside,
         UNCHANGED <<reapVars, dispVars>>
  PROVE  Warned'
<1>1. TypeOK /\ FleetTypeOK /\ labels \in [Ticket -> SUBSET Label] /\ reap.at \subseteq Ticket
  BY DEF FactoryTypeOK, TypeOK, FleetTypeOK, TicketTypeOK, ReaperTypeOK, PassRecord
<1>2. \A t \in Ticket : Taken(t)' <=> Taken(t)
  BY <1>1, BesideKeeps DEF OnePassNoHands, Outside, Beside
<1>3. UNCHANGED <<cycle, reap, marks, disp>> /\ released \subseteq released'
  BY DEF Outside, World, Merge, ClosePr, CloseNotPlanned, Hold, Release, Unlabel, HandLabel,
      Fix331, Runner, Guard, StartJob, NoCommits, Commit, OpenPr, FinishJob, FailJob,
      OnePassNoHands, reapVars, dispVars
<1>4. \A t \in Ticket : InHand(t) => InHand(t)'
  <2>1. ASSUME NEW u \in Ticket, Hold(u) PROVE \A t \in Ticket : InHand(t) => InHand(t)'
    BY <1>1, <1>3, <2>1 DEF Hold, InHand
  <2>2. ASSUME NEW u \in Ticket, Release(u) PROVE \A t \in Ticket : InHand(t) => InHand(t)'
    BY <1>1, <1>3, <2>2 DEF Release, InHand
  <2>3. CASE \A u \in Ticket : ~Hold(u) /\ ~Release(u)
    <3>1. UNCHANGED labels
      BY <2>3 DEF Outside, World, Merge, ClosePr, CloseNotPlanned, Unlabel, HandLabel, Fix331,
         Runner, Guard, StartJob, NoCommits, Commit, OpenPr, FinishJob, FailJob, OnePassNoHands
    <3> QED BY <1>3, <3>1 DEF InHand
  <2> QED BY <2>1, <2>2, <2>3
<1>5. \A t \in Ticket : (RepeatDead(t)' => RepeatDead(t)) /\ (Young(t)' => Young(t))
  BY <1>3 DEF RepeatDead, TwoDeaths, Young
<1>6. Heedful'
  BY <1>1, <1>3, <1>4, <1>5 DEF Warned, Heedful
<1>7. Escalated'
  BY <1>2, <1>4, <1>5 DEF Warned, Escalated, Taken
<1> QED BY <1>3, <1>5, <1>6, <1>7, DeadStays DEF Warned

\* Comments only grow older, and none is at hand then.
LEMMA WarnedTick ==
  ASSUME FactoryTypeOK, Careful, Evidence, Warned, ReaperTick, UNCHANGED dispVars
  PROVE  Warned'
<1>1. UNCHANGED <<labels, cycle, released, reap, disp>> /\ reap.at = {}
  BY DEF ReaperTick, Tick, dispVars, Careful
<1>2. \A t \in Ticket, c \in Cycle : marks'[t][c] < RepeatWindow => marks[t][c] < RepeatWindow
  BY ReaperAssumption DEF ReaperTick, FactoryTypeOK, TypeOK, ReaperTypeOK, NoMark
<1>3. \A t \in Ticket : RepeatDead(t)' => RepeatDead(t)
  BY <1>1, <1>2 DEF RepeatDead, TwoDeaths
<1>4. Escalated'
  BY <1>1, <1>3 DEF Warned, Escalated, InHand
<1> QED BY <1>1, <1>3, <1>4, DeadStays DEF Warned, Heedful

\* A step of a pass moves no death and no hold: it is about what the pass knows.
LEMMA WarnedPass ==
  ASSUME FactoryTypeOK, OnePassNoHands, Warned, NEW p \in Pass,
         UNCHANGED <<reap, marks, released>>,
         \A t \in Ticket : labels[t] \subseteq labels'[t],
         SeenDead(p)', SentDead(p)'
  PROVE  Warned'
<1>1. reap.at \subseteq Ticket
  BY DEF FactoryTypeOK, TypeOK, ReaperTypeOK, PassRecord
<1>2. \A t \in Ticket : (RepeatDead(t)' => RepeatDead(t)) /\ (Young(t)' => Young(t))
  BY DEF RepeatDead, TwoDeaths, Young
<1>3. \A t \in Ticket : InHand(t) => InHand(t)'
  BY DEF InHand
<1>4. Heedful'
  BY <1>1, <1>2, <1>3 DEF Warned, Heedful
<1>5. Escalated'
  BY <1>2, <1>3 DEF Warned, Escalated
<1> QED BY <1>4, <1>5 DEF OnePassNoHands, Warned

\* What the reading of a repository adds to the snapshot.
LEMMA ReadAdds ==
  ASSUME FactoryTypeOK, Evidence, NEW p \in Pass,
         StartPass(p) \/ ListIssues(p) \/ IssuesUnreadable(p) \/ ListAgentPrs(p)
  PROVE  /\ UNCHANGED ticketVars /\ disp'[p].send = disp[p].send
         /\ \A t \in disp'[p].open :
              /\ t \in Ticket
              /\ \/ disp'[p].labels[t] = labels[t]
                 \/ /\ disp[p].pc \in {"issues", "prs", "plan"}
                    /\ t \in disp[p].open /\ disp'[p].labels[t] = disp[p].labels[t]
<1>1. disp[p] \in DispatchRecord /\ DOMAIN disp = Pass
  BY DEF FactoryTypeOK, DispatcherTypeOK, DispatchRecord
<1>2. UNCHANGED ticketVars
  BY DEF StartPass, ListIssues, IssuesUnreadable, ListAgentPrs
<1>3. disp[p].open \subseteq Ticket
  BY <1>1 DEF DispatchRecord
<1>4. CASE StartPass(p)
  <2>1. disp'[p] = [disp[p] EXCEPT !.pc = "issues", !.repos = Repo] /\ disp[p].pc = "idle"
    BY <1>1, <1>4 DEF StartPass
  <2>2. disp'[p].open = {} /\ disp'[p].send = disp[p].send
    BY <1>1, <2>1 DEF Evidence, Seen, DispatchRecord
  <2> QED BY <1>2, <2>2
<1>5. CASE ListIssues(p)
  <2> DEFINE here == {i \in Ticket \union Epic : RepoOf[i] = First(disp[p].repos)}
             seen == [t \in Ticket |-> IF t \in here THEN labels[t] ELSE disp[p].labels[t]]
             r == [disp[p] EXCEPT !.pc = "prs",
                     !.open = @ \union {t \in Ticket \intersect here : issue[t] = "open"},
                     !.held = @ \union (bullet \intersect here),
                     !.epics = @ \union (Epic \intersect here),
                     !.labels = seen]
  <2>1. disp'[p] = r /\ disp[p].pc = "issues"
    BY <1>1, <1>5 DEF ListIssues
  <2>2. /\ r.send = disp[p].send /\ r.labels = seen
        /\ r.open = disp[p].open \union {t \in Ticket \intersect here : issue[t] = "open"}
    BY <1>1 DEF DispatchRecord
  <2> HIDE DEF r
  <2>3. ASSUME NEW t \in r.open
        PROVE  /\ t \in Ticket
               /\ \/ r.labels[t] = labels[t]
                  \/ t \in disp[p].open /\ r.labels[t] = disp[p].labels[t]
    <3>1. t \in Ticket
      BY <1>3, <2>2
    <3>2. CASE t \in here
      BY <2>2, <3>1, <3>2
    <3>3. CASE t \notin here
      BY <2>2, <3>1, <3>3
    <3> QED BY <3>1, <3>2, <3>3
  <2> QED BY <1>2, <2>1, <2>2, <2>3
<1>6. CASE IssuesUnreadable(p)
  <2>1. /\ disp'[p].open = disp[p].open /\ disp'[p].labels = disp[p].labels
        /\ disp'[p].send = disp[p].send /\ disp[p].pc = "issues"
    BY <1>1, <1>6 DEF IssuesUnreadable, DispatchRecord
  <2> QED BY <1>2, <1>3, <2>1
<1>7. CASE ListAgentPrs(p)
  <2> DEFINE left == disp[p].repos \ {First(disp[p].repos)}
             here == {u \in Ticket : RepoOf[u] = First(disp[p].repos) /\ pr[u] = "open"}
             r(seen) == [disp[p] EXCEPT !.pc = IF left = {} THEN "plan" ELSE "issues",
                                        !.repos = left, !.prs = @ \union seen]
  <2>1. PICK seen \in {here} \union (IF "prs" \in Faults THEN {{}} ELSE {}) :
           disp' = [disp EXCEPT ![p] = r(seen)]
    BY <1>7, AgentPrsListed DEF FactoryTypeOK
  <2>2. /\ r(seen).open = disp[p].open /\ r(seen).labels = disp[p].labels
        /\ r(seen).send = disp[p].send
    BY <1>1 DEF DispatchRecord
  <2>3. disp'[p] = r(seen) /\ disp[p].pc = "prs"
    BY <1>1, <1>7, <2>1 DEF ListAgentPrs
  <2> HIDE DEF r
  <2> QED BY <1>2, <1>3, <2>2, <2>3
<1> QED BY <1>4, <1>5, <1>6, <1>7

LEMMA WarnedRead ==
  ASSUME FactoryTypeOK, OnePassNoHands, Evidence, Warned, NEW p \in Pass, UNCHANGED reapVars,
         StartPass(p) \/ ListIssues(p) \/ IssuesUnreadable(p) \/ ListAgentPrs(p)
  PROVE  Warned'
<1>1. UNCHANGED <<labels, cycle, released, reap, marks>> /\ disp'[p].send = disp[p].send
  BY ReadAdds DEF ticketVars, reapVars
<1>2. \A t \in Ticket : RepeatDead(t)' => RepeatDead(t)
  BY <1>1 DEF RepeatDead, TwoDeaths, Young
<1>3. disp[p].send \subseteq Ticket
  BY DEF FactoryTypeOK, DispatcherTypeOK
<1>4. SentDead(p)'
  BY <1>1, <1>2, <1>3 DEF Warned, SentDead
<1>5. SeenDead(p)'
  <2>1. ASSUME NEW t \in disp'[p].open, cycle[t] > 0, "implement" \notin disp'[p].labels[t],
               RepeatDead(t)'
        PROVE  t \in released \/ disp'[p].labels[t] \intersect Excluded # {}
    <3>1. t \in Ticket /\ RepeatDead(t)
      BY <1>2, <2>1, ReadAdds
    <3>2. CASE disp'[p].labels[t] = labels[t]
      BY <2>1, <3>1, <3>2 DEF Warned, Escalated, InHand
    <3>3. CASE /\ disp[p].pc \in {"issues", "prs", "plan"} /\ t \in disp[p].open
               /\ disp'[p].labels[t] = disp[p].labels[t]
      BY <2>1, <3>1, <3>3 DEF Warned, SeenDead
    <3> QED BY <2>1, <3>2, <3>3, ReadAdds
  <2> QED BY <1>1, <2>1 DEF SeenDead
<1> QED BY <1>1, <1>4, <1>5, WarnedPass

\* A ready ticket that died twice was let go.
LEMMA ReadyWasLetGo ==
  ASSUME Warned, NEW p \in Pass, disp[p].pc = "plan", NEW failed,
         NEW t \in ReadyChildren(Snapshot(p, failed)), cycle[t] > 0, RepeatDead(t)
  PROVE  t \in released
<1> DEFINE S == Snapshot(p, failed)
<1>1. S.open = disp[p].open /\ S.labels = disp[p].labels
  BY DEF Snapshot
<1>2. t \in Children(S) /\ ChildVerdict(S, t) = "ready"
  BY DEF ReadyChildren
<1> HIDE DEF S
<1>3. t \in disp[p].open
  BY <1>1, <1>2 DEF Children
<1>4. disp[p].labels[t] \intersect Excluded = {} /\ "implement" \notin disp[p].labels[t]
  BY <1>1, <1>2 DEF ChildVerdict
<1> QED BY <1>3, <1>4 DEF Warned, SeenDead

LEMMA WarnedPlan ==
  ASSUME FactoryTypeOK, OnePassNoHands, Warned, NEW p \in Pass, Plan(p), UNCHANGED reapVars
  PROVE  Warned'
<1>1. PICK failed : PlanFor(p, failed)
  BY DEF Plan
<1> DEFINE S == Snapshot(p, failed)
<1>2. PICK D \in SUBSET ReadyChildren(S) :
         disp' = [disp EXCEPT ![p] =
                    IF D \union FlaggedChildren(S) = {} THEN NoPass
                    ELSE [NoPass EXCEPT !.pc = "write", !.send = D,
                                        !.flag = FlaggedChildren(S)]]
  BY <1>1 DEF PlanFor
<1>3. /\ UNCHANGED <<labels, cycle, released, reap, marks>> /\ disp[p].pc = "plan"
      /\ DOMAIN disp = Pass
  BY <1>1 DEF PlanFor, FactoryTypeOK, DispatcherTypeOK, ticketVars, reapVars
<1>4. \A t \in D : cycle[t] > 0 /\ RepeatDead(t) => t \in released
  BY <1>2, <1>3, ReadyWasLetGo
<1> HIDE DEF S
<1>5. disp'[p].send \subseteq D /\ disp'[p].pc \in {"idle", "write"}
  BY <1>2, <1>3 DEF NoPass
<1>6. \A t \in D : RepeatDead(t)' => RepeatDead(t)
  BY <1>3 DEF RepeatDead, TwoDeaths, Young
<1>7. SeenDead(p)' /\ SentDead(p)'
  BY <1>3, <1>4, <1>5, <1>6 DEF SeenDead, SentDead
<1> QED BY <1>3, <1>7, WarnedPass

\* A write takes one action of the plan off, and puts labels on.
LEMMA WarnedWrite ==
  ASSUME FactoryTypeOK, OnePassNoHands, Warned, NEW p \in Pass, UNCHANGED reapVars,
         \/ Dispatch(p) \/ AlreadyFlagged(p) \/ Flag(p) \/ FlagComment(p)
         \/ DispatchWriteFails(p) \/ PassKilled(p)
  PROVE  Warned'
<1>1. /\ DOMAIN disp = Pass /\ disp[p] \in DispatchRecord /\ disp[p].send \subseteq Ticket
      /\ disp[p].flag \subseteq Ticket
      /\ labels \in [Ticket -> SUBSET Label] /\ cycle \in [Ticket -> 0..MaxCycles]
  BY DEF FactoryTypeOK, TypeOK, TicketTypeOK, DispatcherTypeOK, DispatchRecord
<1>2. UNCHANGED <<reap, marks, released>>
  BY DEF reapVars, Dispatch, ApplyImplement, AlreadyFlagged, Flag, FlagComment,
     DispatchWriteFails, PassKilled, ticketVars
<1>3. \A t \in Ticket : labels[t] \subseteq labels'[t]
  <2>1. CASE Dispatch(p)
    BY <1>1, <2>1 DEF Dispatch, ApplyImplement
  <2>2. CASE Flag(p)
    BY <1>1, <2>2 DEF Flag
  <2>3. CASE ~Dispatch(p) /\ ~Flag(p)
    BY <2>3 DEF AlreadyFlagged, FlagComment, DispatchWriteFails, PassKilled, ticketVars
  <2> QED BY <2>1, <2>2, <2>3
<1>4. /\ disp'[p].send \subseteq disp[p].send /\ disp'[p].pc \in {"idle", "write", "comment"}
      /\ \A t \in disp'[p].send : cycle'[t] = cycle[t]
  <2>1. CASE Dispatch(p)
    <3> PICK t \in disp[p].send : t = Turn(p)
      BY <2>1 DEF Dispatch
    <3>1. /\ NextAction(p).send \subseteq disp[p].send \ {t}
          /\ NextAction(p).pc \in {"idle", "write"}
      BY <1>1 DEF NextAction, NoPass, DispatchRecord
    <3>2. \A u \in Ticket \ {t} : cycle'[u] = cycle[u]
      BY <1>1, <2>1 DEF Dispatch, ApplyImplement
    <3> QED BY <1>1, <2>1, <3>1, <3>2 DEF Dispatch
  <2>2. CASE Flag(p)
    BY <1>1, <2>2 DEF Flag, DispatchRecord
  <2>3. CASE ~Dispatch(p) /\ ~Flag(p)
    <3>1. /\ NextAction(p).send \subseteq disp[p].send /\ NoPass.send = {}
          /\ NextAction(p).pc \in {"idle", "write"} /\ NoPass.pc = "idle"
      BY <1>1 DEF NextAction, NoPass, DispatchRecord
    <3> QED
      BY <1>1, <2>3, <3>1
      DEF AlreadyFlagged, FlagComment, DispatchWriteFails, PassKilled, ticketVars
  <2> QED BY <2>1, <2>2, <2>3
<1>5. \A t \in Ticket : RepeatDead(t)' => RepeatDead(t)
  BY <1>2 DEF RepeatDead, TwoDeaths, Young
<1>6. SeenDead(p)' /\ SentDead(p)'
  BY <1>1, <1>2, <1>4, <1>5 DEF SeenDead, SentDead, Warned
<1> QED BY <1>2, <1>3, <1>6, WarnedPass

LEMMA WarnedNext ==
  ASSUME FactoryTypeOK, OnePassNoHands, Parked, Careful, Evidence, Warned,
         [FactoryNext]_factoryVars
  PROVE  Warned'
<1>1. CASE DispatcherStep /\ UNCHANGED reapVars
  BY <1>1, WarnedRead, WarnedPlan, WarnedWrite DEF DispatcherStep
<1>2. CASE UNCHANGED factoryVars
  <2>1. /\ UNCHANGED <<disp, cycle, labels, released, reap, marks>>
    BY <1>2 DEF factoryVars, ticketVars, reapVars, dispVars
  <2>2. \A t \in Ticket : RepeatDead(t)' => RepeatDead(t)
    BY <2>1 DEF RepeatDead, TwoDeaths, Young
  <2>3. Heedful' /\ Escalated'
    BY <2>1, <2>2 DEF Warned, Heedful, Escalated, Young, InHand
  <2> QED BY <2>1, <2>2, <2>3, DeadStays DEF Warned
<1> QED
  BY <1>1, <1>2, WarnedReaperStep, WarnedTick, WarnedBeside DEF FactoryNext

\* Two young comments are two deaths.
LEMMA TwoDeathsCount ==
  ASSUME NEW t \in Ticket, ~TwoDeaths(t)
  PROVE  Cardinality({c \in Cycle : marks[t][c] < RepeatWindow}) <= 1
<1> DEFINE C == {c \in Cycle : marks[t][c] < RepeatWindow}
<1>1. CASE C = {}
  BY <1>1, FS_EmptySet
<1>2. CASE C # {}
  <2>1. PICK c : c \in C
    BY <1>2
  <2>2. C = {c}
    BY <2>1 DEF TwoDeaths
  <2>3. Cardinality(C) = 1
    BY <2>2, FS_Singleton
  <2> QED BY <2>3
<1> QED BY <1>1, <1>2

\* Where dispatch passes do not overlap and nobody labels by hand: however old the reads of a
\* pass are, and whichever the reaper's fail, a ticket that died twice in the repeat window
\* (evaluateTicket's repeat escalation) is labeled again only after somebody let it go.
THEOREM FactoryHoldsRepeatDeaths ==
  ASSUME OnePassNoHands
  PROVE  FactorySpec => RepeatDeathHeld
<1> DEFINE Again == \A t \in Ticket : Relabeled(t) =>
             \/ t \in released'
             \/ Cardinality({c \in Cycle : marks[t][c] < RepeatWindow}) <= 1
<1>1. FactoryTypeOK /\ Evidence /\ Warned /\ [FactoryNext]_factoryVars => Again
  <2> SUFFICES ASSUME FactoryTypeOK, Evidence, Warned, [FactoryNext]_factoryVars,
                      NEW t \in Ticket, Relabeled(t), TwoDeaths(t)
               PROVE  t \in released'
    BY TwoDeathsCount
  <2>1. PICK p \in Pass : Dispatch(p) /\ t = Turn(p)
    BY WhoRelabels DEF Relabeled, OnePassNoHands
  <2>2. t \in disp[p].send /\ released' = released
    BY <2>1 DEF Dispatch, ApplyImplement
  <2> QED BY <2>2 DEF Warned, SentDead, RepeatDead, Relabeled
<1> HIDE DEF Again
<1>2. FactorySpec => [][Again]_vars
  BY <1>1, FactoryTypeInit, FactoryTypeNext, RespinInit, RespinNext, WarnedInit, WarnedNext,
     PTL DEF FactorySpec
<1> QED BY <1>2, PTL DEF Again, RepeatDeathHeld

-----------------------------------------------------------------------------
(* OnlyUnblocked and LiveRunSpared                                         *)

LEMMA UnblockedStays ==
  ASSUME FactoryTypeOK, Unblocked, [FactoryNext]_factoryVars
  PROVE  Unblocked'
<1>1. FleetTypeOK
  BY DEF FactoryTypeOK, TypeOK, FleetTypeOK
<1>2. CASE DispatcherStep \/ (Outside /\ UNCHANGED dispVars)
  BY <1>1, <1>2, UnblockedNext DEF FleetNext, Outside, Beside
<1>3. CASE ReaperStep /\ UNCHANGED dispVars
  <2>1. UNCHANGED <<disp, issue>>
    BY <1>3, Zenon
    DEF ReaperStep, ListTickets, ListPrs, PrsUnreadable, Killed, FetchRuns, RunsUnreadable,
        Judge, Pair, Remove, Comment, WriteFails, ticketVars, dispVars
  <2> QED BY <2>1 DEF Unblocked, Free
<1>4. CASE (ReaperTick /\ UNCHANGED dispVars) \/ UNCHANGED factoryVars
  BY <1>4
  DEF ReaperTick, Tick, dispVars, factoryVars, ticketVars, Unblocked, Free
<1> QED BY <1>2, <1>3, <1>4 DEF FactoryNext

\* The reaper beside it changes nothing of DispatchesUnblocked: where nobody labels by hand,
\* a ticket is labeled only when every blocker of it is closed as completed.
THEOREM FactoryDispatchesUnblocked ==
  ASSUME "relabel" \notin Faults
  PROVE  FactorySpec => OnlyUnblocked
<1> DEFINE Clean == \A t \in Ticket : cycle'[t] > cycle[t] =>
             /\ \A b \in BlockedBy[t] : issue[b] = "completed"
             /\ t \notin Unresolvable
<1>1. FactoryInit => Unblocked
  BY DEF FactoryInit, DispatcherInit, NoPass, Unblocked
<1>2. FactoryTypeOK /\ Unblocked /\ [FactoryNext]_factoryVars => Clean
  BY WhoRelabels DEF Unblocked, Dispatch, Free
<1> HIDE DEF Clean
<1>3. FactorySpec => [][Clean]_fleetVars
  BY <1>1, <1>2, UnblockedStays, FactoryTypeInit, FactoryTypeNext, PTL DEF FactorySpec
<1> QED BY <1>3, PTL DEF Clean, OnlyUnblocked

LEMMA InformedStays ==
  ASSUME FactoryTypeOK, FactoryTypeOK', Reliable, Parked, Informed, [FactoryNext]_factoryVars
  PROVE  Informed'
<1>1. TypeOK /\ TypeOK'
  BY DEF FactoryTypeOK
<1>2. CASE DispatcherStep /\ UNCHANGED reapVars
  <2>1. UNCHANGED reap
    BY <1>2 DEF reapVars
  <2>2. ASSUME NEW p \in Pass, Dispatch(p), Turn(p) \in Ticket PROVE Informed'
    BY <1>1, <2>1, <2>2, InformedApply DEF Dispatch
  <2>3. ASSUME NEW p \in Pass, Flag(p) PROVE Informed'
    <3>1. UNCHANGED <<cycle, labelAge, runs>>
      BY <2>3 DEF Flag
    <3>2. \A t \in Ticket : "implement" \in labels'[t] <=> "implement" \in labels[t]
      BY <1>1, <2>3 DEF Flag, TypeOK, TicketTypeOK
    <3> QED BY <1>1, <2>1, <3>1, <3>2, InformedFrame DEF Informed, TypeOK, TicketTypeOK
  <2>4. CASE UNCHANGED ticketVars
    BY <2>1, <2>4 DEF ticketVars, Informed
  <2> QED BY <1>2, <2>2, <2>3, <2>4, DispatcherEdits
<1>3. CASE Outside /\ UNCHANGED <<reapVars, dispVars>>
  BY <1>1, <1>3, InformedWorld, InformedRunner DEF Outside
<1>4. CASE UNCHANGED factoryVars
  BY <1>4 DEF factoryVars, ticketVars, reapVars, Informed
<1> QED BY <1>1, <1>2, <1>3, <1>4, InformedReaperStep, InformedTick DEF FactoryNext

\* What the reaper knows of runs that are over stays true whatever the dispatcher labels
\* meanwhile: no ticket is parked whose run could still open a PR.
THEOREM FactorySparesLiveRuns ==
  ASSUME Reliable
  PROVE  FactorySpec => []LiveRunSpared
<1>1. FactoryInit => Parked /\ Informed
  BY ParkedInit, InformedInit DEF FactoryInit, Init
<1>2. Informed => LiveRunSpared
  BY DEF Informed, LiveRunSpared
<1>3. FactoryTypeOK /\ FactoryTypeOK' /\ Parked /\ Informed /\ [FactoryNext]_factoryVars =>
        Informed'
  BY InformedStays
<1> QED BY <1>1, <1>2, <1>3, ParkedStays, FactoryTypeInit, FactoryTypeNext, PTL
    DEF FactorySpec

-----------------------------------------------------------------------------
(* EpicLanes, with the reaper at work                                      *)

\* What the results assume: dispatch passes do not overlap, every list of issues, PRs and
\* runs can be read, and people leave the label alone.
Orderly == Serial /\ Reliable /\ "prs" \notin Faults

\* A live run is that of the last labeling, and its ticket carries the label.
OneRun ==
  \A t \in Ticket, c \in Cycle : runs[t][c] \in Live => c = cycle[t] /\ Taken(t)

\* What pass p has read shows every ticket in flight, by its label or by its PR.
Covers(p) ==
  disp[p].pc \in {"issues", "prs", "plan"} =>
    /\ disp[p].repos \subseteq Repo
    /\ disp[p].pc = "plan" => disp[p].repos = {}
    /\ disp[p].repos = {} => disp[p].pc = "plan" \/ Repo = {}
    /\ \A t \in Ticket : Read(p, t) =>
         /\ issue[t] = "open" => t \in disp[p].open
         /\ Taken(t) => "implement" \in disp[p].labels[t]
    /\ \A t \in Ticket : RepoOf[t] \notin disp[p].repos /\ pr[t] = "open" =>
         "implement" \in disp[p].labels[t] \/ t \in disp[p].prs
    /\ \A e \in Epic : Read(p, e) => e \in disp[p].epics

\* What a pass will label has no epic in common with anything in flight, or with another.
Clear(p) ==
  /\ \A t \in disp[p].send, u \in Ticket :
       issue[u] = "open" /\ (Taken(u) \/ Working(u)) => Apart(t, u)
  /\ \A t, u \in disp[p].send : t # u => Apart(t, u)

Cautious == OneRun /\ \A p \in Pass : Covers(p) /\ Clear(p)

LEMMA CautiousInit == FactoryInit => Cautious
<1> SUFFICES ASSUME FactoryInit PROVE Cautious
  OBVIOUS
<1>1. OneRun
  BY DEF FactoryInit, TicketInit, OneRun, Live
<1>2. \A p \in Pass : Covers(p) /\ Clear(p)
  BY DEF FactoryInit, DispatcherInit, NoPass, Covers, Clear
<1> QED BY <1>1, <1>2 DEF Cautious

\* A step beside the passes that takes no ticket, opens none again, and lets none work that
\* did not: what was read of labels and PRs covers what is in flight still.
LEMMA CautiousBeside ==
  ASSUME Cautious, OneRun', UNCHANGED disp,
         \A t \in Ticket : /\ Taken(t)' => Taken(t)
                           /\ issue'[t] = "open" => issue[t] = "open"
                           /\ Working(t)' => Working(t)
  PROVE  Cautious'
<1>1. ASSUME NEW t \in Ticket, pr'[t] = "open", pr[t] # "open" PROVE Taken(t)
  <2>1. Working(t)
    BY <1>1 DEF Working
  <2> QED BY <1>1, <2>1 DEF Working, Cautious, OneRun
<1>2. ASSUME NEW p \in Pass PROVE Covers(p)'
  <2>1. \A i : Read(p, i)' <=> Read(p, i)
    BY DEF Read
  <2>2. \A t \in Ticket : RepoOf[t] \notin disp[p].repos => Read(p, t)
    BY DEF Read
  <2>3. Covers(p)
    BY DEF Cautious
  <2> QED BY <1>1, <2>1, <2>2, <2>3 DEF Covers
<1>3. ASSUME NEW p \in Pass PROVE Clear(p)'
  BY DEF Cautious, Clear, Apart
<1> QED BY <1>2, <1>3 DEF Cautious

LEMMA CautiousOutside ==
  ASSUME FactoryTypeOK, "relabel" \notin Faults, Cautious, Outside, UNCHANGED dispVars
  PROVE  Cautious'
<1>1. FleetTypeOK /\ Beside
  BY DEF FactoryTypeOK, TypeOK, FleetTypeOK, Outside, Beside
<1>2. UNCHANGED cycle /\ \A t \in Ticket : Taken(t)' <=> Taken(t)
  <2>1. UNCHANGED cycle
    BY DEF Outside, World, Merge, ClosePr, CloseNotPlanned, Hold, Release, Unlabel, HandLabel,
       Fix331, Runner, Guard, StartJob, NoCommits, Commit, OpenPr, FinishJob, FailJob
  <2> QED BY <1>1, <2>1, BesideKeeps
<1>3. CASE World
  <2>1. UNCHANGED runs /\ \A t \in Ticket : pr'[t] = "open" => pr[t] = "open"
    BY <1>1, <1>3
    DEF World, Merge, ClosePr, CloseNotPlanned, Hold, Release, Unlabel, HandLabel, Fix331,
        FleetTypeOK, TicketTypeOK
  <2>2. OneRun'
    BY <1>2, <2>1 DEF Cautious, OneRun
  <2>3. \A t \in Ticket : Working(t)' => Working(t)
    BY <2>1 DEF Working
  <2> QED BY <1>1, <1>2, <2>2, <2>3, BesideKeeps, CautiousBeside DEF dispVars
<1>4. ASSUME NEW u \in Ticket, NEW d \in Cycle, Runner(u, d) PROVE Cautious'
  <2>1. \A t \in Ticket, c \in Cycle : runs'[t][c] \in Live => runs[t][c] \in Live
    BY <1>1, <1>4, RunnerKeepsOver DEF FleetTypeOK
  <2>2. OneRun'
    BY <1>2, <2>1 DEF Cautious, OneRun
  <2>3. Working(u)
    BY <1>4, Zenon DEF Runner, Guard, GuardVerdicts, StartJob, NoCommits, Commit, OpenPr,
       FinishJob, FailJob, Live, InJob, Working
  <2>4. \A t \in Ticket : t # u => pr'[t] = pr[t]
    BY <1>1, <1>4 DEF Runner, Guard, StartJob, NoCommits, Commit, OpenPr, FinishJob, FailJob,
       FleetTypeOK, TicketTypeOK
  <2>5. \A t \in Ticket : Working(t)' => Working(t)
    BY <2>1, <2>3, <2>4 DEF Working
  <2> QED BY <1>1, <1>2, <2>2, <2>5, BesideKeeps, CautiousBeside DEF dispVars
<1> QED BY <1>3, <1>4 DEF Outside

\* The reaper takes the label off a ticket whose run is over, and only that.
LEMMA ReaperGives ==
  ASSUME FactoryTypeOK, Informed, Cautious, ReaperStep
  PROVE  /\ UNCHANGED <<issue, pr, runs, cycle>>
         /\ \/ \A t \in Ticket : Taken(t)' <=> Taken(t)
            \/ \E t \in Ticket : /\ \A c \in Cycle : runs[t][c] \notin Live
                                 /\ ~Taken(t)'
                                 /\ \A u \in Ticket \ {t} : Taken(u)' <=> Taken(u)
<1>1. UNCHANGED <<issue, pr, runs, cycle>>
  BY Zenon
  DEF ReaperStep, ListTickets, ListPrs, PrsUnreadable, Killed, FetchRuns, RunsUnreadable,
      Judge, Pair, Remove, Comment, WriteFails, ticketVars
<1>2. labels \in [Ticket -> SUBSET Label] /\ reap \in PassRecord
  BY DEF FactoryTypeOK, TypeOK, TicketTypeOK, ReaperTypeOK
<1>3. ASSUME NEW t \in Ticket, Pair(t) PROVE \A u \in Ticket : Taken(u)' <=> Taken(u)
  <2>1. reap.pairing \in Parking
    BY <1>3 DEF Pair, FactoryTypeOK, TypeOK, ReaperTypeOK
  <2>2. labels' = labels \/ labels' = [labels EXCEPT ![t] = @ \union {reap.pairing}]
    BY <1>3 DEF Pair
  <2> QED BY <1>2, <2>1, <2>2 DEF Taken, Parking
<1>4. ASSUME NEW t \in Ticket, Remove(t)
      PROVE  /\ \A c \in Cycle : runs[t][c] \notin Live
             /\ ~Taken(t)'
             /\ \A u \in Ticket \ {t} : Taken(u)' <=> Taken(u)
  <2>1. runs[t][cycle[t]] \notin Live
    BY <1>4 DEF Remove, Informed
  <2>2. labels' = [labels EXCEPT ![t] = @ \ {"implement"}]
    BY <1>4 DEF Remove
  <2> QED BY <1>2, <2>1, <2>2 DEF Cautious, OneRun, Taken
<1>5. ASSUME UNCHANGED labels PROVE \A t \in Ticket : Taken(t)' <=> Taken(t)
  BY <1>5 DEF Taken
<1>6. UNCHANGED labels \/ (\E t \in Ticket : Pair(t) \/ Remove(t))
  BY Zenon
  DEF ReaperStep, ListTickets, ListPrs, PrsUnreadable, Killed, FetchRuns, RunsUnreadable,
      Judge, Comment, WriteFails, ticketVars
<1> QED BY <1>1, <1>3, <1>4, <1>5, <1>6

LEMMA CautiousReaperStep ==
  ASSUME FactoryTypeOK, Informed, Cautious, ReaperStep, UNCHANGED dispVars
  PROVE  Cautious'
<1>1. UNCHANGED <<issue, pr, runs, cycle, disp>>
  BY ReaperGives DEF dispVars
<1>2. \A t \in Ticket : Taken(t)' => Taken(t)
  BY ReaperGives
<1>3. OneRun'
  BY <1>1, ReaperGives DEF Cautious, OneRun
<1>4. \A t \in Ticket : Working(t)' <=> Working(t)
  BY <1>1 DEF Working
<1> QED BY <1>1, <1>2, <1>3, <1>4, CautiousBeside

LEMMA ReaperLanes ==
  ASSUME FactoryTypeOK, Informed, Cautious, ReaperStep
  PROVE  [Lanes!Next]_Stage
<1>1. UNCHANGED <<issue, pr, runs>>
  BY ReaperGives
<1>2. CASE \A t \in Ticket : Taken(t)' <=> Taken(t)
  BY <1>1, <1>2, LanesStay
<1>3. ASSUME NEW t \in Ticket, \A c \in Cycle : runs[t][c] \notin Live, ~Taken(t)',
             \A u \in Ticket \ {t} : Taken(u)' <=> Taken(u)
      PROVE  [Lanes!Next]_Stage
  <2>1. \A u \in Ticket \ {t} : LaneOf(u)' = LaneOf(u)
    BY <1>1, <1>3, LaneStays
  <2>2. Working(t)' <=> Working(t)
    BY <1>1 DEF Working
  <2>3. MovesOn(LaneOf(t), LaneOf(t)')
    BY <1>1, <1>3, <2>2 DEF MovesOn, LaneOf, Taken
  <2>4. FleetTypeOK
    BY DEF FactoryTypeOK, TypeOK, FleetTypeOK
  <2> QED BY <2>1, <2>3, <2>4, OneLaneMoves
<1> QED BY <1>2, <1>3, ReaperGives

\* A step of the pass that labels nothing keeps what is in flight, and goes on from there.
LEMMA CautiousPass ==
  ASSUME FactoryTypeOK, Orderly, Cautious, NEW p \in Pass,
         UNCHANGED <<issue, pr, runs, cycle>>, \A t \in Ticket : Taken(t)' <=> Taken(t),
         Covers(p)',
         Clear(p)' \/ disp'[p].send \subseteq disp[p].send
  PROVE  Cautious'
<1>1. OneRun'
  BY DEF Cautious, OneRun
<1>2. \A t \in Ticket : Working(t)' <=> Working(t)
  BY DEF Working
<1>3. Clear(p)'
  BY <1>2 DEF Cautious, Clear, Apart
<1> QED BY <1>1, <1>3 DEF Orderly, Serial, Cautious

\* A pass reads a repository that it has not read yet.
LEMMA FirstIsIn ==
  ASSUME NEW T \in SUBSET Repo, T # {}
  PROVE  First(T) \in T
<1>1. \E x \in T : \A y \in T : x <= y
  BY LeastNumber, DispatcherAssumption
<1> QED BY <1>1 DEF First

LEMMA CautiousStart ==
  ASSUME FactoryTypeOK, Orderly, Cautious, NEW p \in Pass, StartPass(p)
  PROVE  Cautious'
<1>1. disp[p] \in DispatchRecord /\ DOMAIN disp = Pass
  BY DEF FactoryTypeOK, DispatcherTypeOK, DispatchRecord
<1>2. disp'[p] = [disp[p] EXCEPT !.pc = "issues", !.repos = Repo]
  BY <1>1 DEF StartPass
<1>3. disp'[p].pc = "issues" /\ disp'[p].repos = Repo /\ disp'[p].send = disp[p].send
  BY <1>1, <1>2 DEF DispatchRecord
<1>4. \A i \in Ticket \union Epic : RepoOf[i] \in disp'[p].repos /\ ~Read(p, i)'
  BY <1>3, DispatcherAssumption DEF Read
<1>5. Covers(p)'
  BY <1>3, <1>4 DEF Covers
<1>6. UNCHANGED <<issue, pr, runs, cycle>> /\ \A t \in Ticket : Taken(t)' <=> Taken(t)
  BY DEF StartPass, ticketVars, Taken
<1> QED BY <1>3, <1>5, <1>6, CautiousPass

LEMMA CautiousIssues ==
  ASSUME FactoryTypeOK, Orderly, Cautious, NEW p \in Pass, ListIssues(p)
  PROVE  Cautious'
<1> DEFINE here == {i \in Ticket \union Epic : RepoOf[i] = First(disp[p].repos)}
           seen == [t \in Ticket |-> IF t \in here THEN labels[t] ELSE disp[p].labels[t]]
           r == [disp[p] EXCEPT !.pc = "prs",
                   !.open = @ \union {t \in Ticket \intersect here : issue[t] = "open"},
                   !.held = @ \union (bullet \intersect here),
                   !.epics = @ \union (Epic \intersect here),
                   !.labels = seen]
<1>1. disp[p] \in DispatchRecord /\ DOMAIN disp = Pass
  BY DEF FactoryTypeOK, DispatcherTypeOK, DispatchRecord
<1>2. UNCHANGED <<issue, pr, runs, cycle>> /\ \A t \in Ticket : Taken(t)' <=> Taken(t)
  BY DEF ListIssues, ticketVars, Taken
<1>3. disp'[p] = r /\ disp[p].pc = "issues"
  BY <1>1 DEF ListIssues
<1>4. /\ r.pc = "prs" /\ r.repos = disp[p].repos /\ r.send = disp[p].send
      /\ r.open = disp[p].open \union {t \in Ticket \intersect here : issue[t] = "open"}
      /\ r.epics = disp[p].epics \union (Epic \intersect here)
      /\ r.labels = seen /\ r.prs = disp[p].prs
  BY <1>1 DEF DispatchRecord
<1> HIDE DEF r
<1>5. \A i \in Ticket \union Epic : Read(p, i)' => Read(p, i) \/ i \in here
  BY <1>3, <1>4 DEF Read
<1>6. /\ Covers(p) /\ disp[p].repos \subseteq Repo
      /\ \A t \in Ticket : disp[p].repos # {}
  BY <1>3, DispatcherAssumption DEF Cautious, Covers
<1>7. ASSUME NEW t \in Ticket, Read(p, t)'
      PROVE  /\ issue[t] = "open" => t \in r.open
             /\ Taken(t) => "implement" \in r.labels[t]
  BY <1>3, <1>4, <1>5, <1>6, <1>7 DEF Covers, Taken
<1>8. ASSUME NEW t \in Ticket, RepoOf[t] \notin disp[p].repos, pr[t] = "open"
      PROVE  "implement" \in r.labels[t] \/ t \in r.prs
  <2>1. First(disp[p].repos) \in disp[p].repos
    BY <1>6, FirstIsIn
  <2>2. r.labels[t] = disp[p].labels[t]
    BY <1>4, <1>8, <2>1
  <2> QED BY <1>3, <1>4, <1>6, <1>8, <2>2 DEF Covers
<1>9. ASSUME NEW e \in Epic, Read(p, e)' PROVE e \in r.epics
  BY <1>3, <1>4, <1>5, <1>6, <1>9 DEF Covers
<1>10. r.repos = {} => Repo = {}
  BY <1>3, <1>4, <1>6 DEF Covers
<1>11. Covers(p)'
  BY <1>2, <1>3, <1>4, <1>6, <1>7, <1>8, <1>9, <1>10 DEF Covers
<1> QED BY <1>2, <1>3, <1>4, <1>11, CautiousPass

\* The PRs of a repository are listed after its issues: a ticket whose label is gone by the
\* time its issue is read has its PR, if any, by then.
LEMMA CautiousPrs ==
  ASSUME FactoryTypeOK, Orderly, Cautious, NEW p \in Pass, ListAgentPrs(p)
  PROVE  Cautious'
<1> DEFINE left == disp[p].repos \ {First(disp[p].repos)}
           here == {u \in Ticket : RepoOf[u] = First(disp[p].repos) /\ pr[u] = "open"}
           r == [disp[p] EXCEPT !.pc = IF left = {} THEN "plan" ELSE "issues",
                                !.repos = left, !.prs = @ \union here]
<1>1. disp[p] \in DispatchRecord /\ DOMAIN disp = Pass
  BY DEF FactoryTypeOK, DispatcherTypeOK, DispatchRecord
<1>2. UNCHANGED <<issue, pr, runs, cycle>> /\ \A t \in Ticket : Taken(t)' <=> Taken(t)
  BY DEF ListAgentPrs, ticketVars, Taken
<1>3. disp' = [disp EXCEPT ![p] = r]
  BY AgentPrsListed DEF FactoryTypeOK, Orderly
<1>4. disp'[p] = r /\ disp[p].pc = "prs"
  BY <1>1, <1>3 DEF ListAgentPrs
<1>5. /\ r.pc = (IF left = {} THEN "plan" ELSE "issues")
      /\ r.repos = left /\ r.prs = disp[p].prs \union here
      /\ r.send = disp[p].send /\ r.open = disp[p].open
      /\ r.epics = disp[p].epics /\ r.labels = disp[p].labels
  BY <1>1 DEF DispatchRecord
<1> HIDE DEF r
<1>6. Covers(p) /\ disp[p].repos \subseteq Repo
  BY <1>4 DEF Cautious, Covers
<1>7. \A i : Read(p, i)' => Read(p, i)
  BY <1>4, <1>5 DEF Read
<1>8. ASSUME NEW t \in Ticket, RepoOf[t] \notin left, pr[t] = "open"
      PROVE  "implement" \in r.labels[t] \/ t \in r.prs
  <2>1. CASE RepoOf[t] = First(disp[p].repos)
    BY <1>5, <1>8, <2>1
  <2>2. CASE RepoOf[t] # First(disp[p].repos)
    BY <1>4, <1>5, <1>6, <1>8, <2>2 DEF Covers
  <2> QED BY <2>1, <2>2
<1>9. ASSUME NEW t \in Ticket, Read(p, t)'
      PROVE  /\ issue[t] = "open" => t \in r.open
             /\ Taken(t) => "implement" \in r.labels[t]
  BY <1>4, <1>5, <1>6, <1>7, <1>9 DEF Covers
<1>10. ASSUME NEW e \in Epic, Read(p, e)' PROVE e \in r.epics
  BY <1>4, <1>5, <1>6, <1>7, <1>10 DEF Covers
<1>11. Covers(p)'
  BY <1>2, <1>4, <1>5, <1>6, <1>8, <1>9, <1>10 DEF Covers
<1> QED BY <1>2, <1>4, <1>5, <1>11, CautiousPass

\* The plan sends what is apart from everything in flight.
LEMMA PlanIsClear ==
  ASSUME FactoryTypeOK, Cautious, NEW p \in Pass, disp[p].pc = "plan",
         NEW failed, NEW D \in SUBSET ReadyChildren(Snapshot(p, failed)),
         IsDispatch(Snapshot(p, failed), D)
  PROVE  /\ \A t \in D, u \in Ticket :
              issue[u] = "open" /\ (Taken(u) \/ Working(u)) => Apart(t, u)
         /\ \A t, u \in D : t # u => Apart(t, u)
<1> DEFINE S == Snapshot(p, failed)
<1>1. /\ S.open = disp[p].open /\ S.epics = disp[p].epics /\ S.labels = disp[p].labels
      /\ S.prs = disp[p].prs
  BY DEF Snapshot
<1>2. Covers(p) /\ disp[p].repos = {} /\ \A i : Read(p, i)
  BY DEF Cautious, Covers, Read
<1>3. /\ \A t \in Ticket : /\ issue[t] = "open" => t \in S.open
                           /\ Taken(t) \/ pr[t] = "open" =>
                                "implement" \in S.labels[t] \/ t \in S.prs
      /\ Epic \subseteq S.epics
      /\ S.open \subseteq Ticket
  BY <1>1, <1>2 DEF Covers, FactoryTypeOK, DispatcherTypeOK
<1>4. \A t \in Ticket : EpicsOf(S, t) = PartOf[t]
  BY <1>3, PlanAssumption DEF EpicsOf
<1>5. D \subseteq Ticket
  BY <1>3 DEF ReadyChildren, Children
<1>6. \A t \in D : EpicsOf(S, t) \intersect
             (BusyEpics(S) \union UNION {EpicsOf(S, u) : u \in {v \in D : v < t}}) = {}
  BY DEF IsDispatch
<1> HIDE DEF S
<1>7. ASSUME NEW t \in D, NEW u \in Ticket, issue[u] = "open", Taken(u) \/ Working(u)
      PROVE  Apart(t, u)
  <2>1. Taken(u) \/ pr[u] = "open"
    BY <1>7 DEF Working, Cautious, OneRun
  <2>2. u \in S.open /\ ("implement" \in S.labels[u] \/ u \in S.prs)
    BY <1>3, <1>7, <2>1
  <2>3. \A e \in EpicsOf(S, u) : e \in BusyEpics(S)
    <3>1. CASE u \in S.prs
      <4>1. u \in S.prs \intersect (S.open \union S.linked)
        BY <2>2, <3>1
      <4> QED BY <4>1, Zenon DEF BusyEpics
    <3>2. ASSUME "implement" \in S.labels[u], NEW e \in EpicsOf(S, u)
          PROVE  e \in BusyEpics(S)
      <4>1. u \in {w \in Children(S) : "implement" \in S.labels[w]}
        BY <1>7, <2>2, <3>2 DEF Children
      <4> QED BY <3>2, <4>1, Zenon DEF BusyEpics
    <3> QED BY <2>2, <3>1, <3>2
  <2>4. EpicsOf(S, t) \intersect BusyEpics(S) = {}
    BY <1>6
  <2> QED BY <1>4, <1>5, <2>3, <2>4 DEF Apart
<1>8. ASSUME NEW t \in D, NEW u \in D, u < t PROVE Apart(t, u)
  <2>1. EpicsOf(S, t) \intersect EpicsOf(S, u) = {}
    BY <1>6, <1>8
  <2> QED BY <1>4, <1>5, <2>1 DEF Apart
<1>9. ASSUME NEW t \in D, NEW u \in D, t # u PROVE Apart(t, u)
  <2>1. t < u \/ u < t
    BY <1>5, <1>9, TicketAssumption
  <2> QED BY <1>8, <2>1 DEF Apart
<1> QED BY <1>7, <1>9

LEMMA CautiousPlan ==
  ASSUME FactoryTypeOK, Orderly, Cautious, NEW p \in Pass, Plan(p)
  PROVE  Cautious'
<1>1. PICK failed : PlanFor(p, failed)
  BY DEF Plan
<1> DEFINE S == Snapshot(p, failed)
<1>2. PICK D \in SUBSET ReadyChildren(S) :
         /\ IsDispatch(S, D)
         /\ disp' = [disp EXCEPT ![p] =
                       IF D \union FlaggedChildren(S) = {} THEN NoPass
                       ELSE [NoPass EXCEPT !.pc = "write", !.send = D,
                                           !.flag = FlaggedChildren(S)]]
  BY <1>1 DEF PlanFor
<1>3. UNCHANGED ticketVars /\ disp[p].pc = "plan" /\ DOMAIN disp = Pass
  BY <1>1 DEF PlanFor, FactoryTypeOK, DispatcherTypeOK
<1>4. UNCHANGED <<issue, pr, runs, cycle>> /\ \A t \in Ticket : Taken(t)' <=> Taken(t)
  BY <1>3 DEF ticketVars, Taken
<1>5. /\ \A t \in D, u \in Ticket :
            issue[u] = "open" /\ (Taken(u) \/ Working(u)) => Apart(t, u)
      /\ \A t, u \in D : t # u => Apart(t, u)
  BY <1>2, <1>3, PlanIsClear
<1> HIDE DEF S
<1>6. disp'[p].send \subseteq D /\ disp'[p].pc \in {"idle", "write"}
  BY <1>2, <1>3 DEF NoPass
<1>7. Covers(p)'
  BY <1>6 DEF Covers
<1>8. \A t \in Ticket : Working(t)' <=> Working(t)
  BY <1>4 DEF Working
<1>9. Clear(p)'
  BY <1>4, <1>5, <1>6, <1>8 DEF Clear, Apart
<1> QED BY <1>4, <1>7, <1>9, CautiousPass

\* A labeling begins a cycle of which nothing runs yet, and ends no other.
LEMMA ApplyOneRun ==
  ASSUME TicketTypeOK, OneRun, NEW t \in Ticket, NEW hand, ApplyImplement(t, hand)
  PROVE  OneRun'
<1>1. CASE Taken(t)
  BY <1>1 DEF ApplyImplement, Taken, OneRun
<1>2. CASE ~Taken(t)
  <2>1. PICK fired : runs' = [runs EXCEPT ![t][cycle[t] + 1] = fired]
    BY <1>2 DEF ApplyImplement, Taken
  <2>2. /\ labels' = [labels EXCEPT ![t] = @ \union {"implement"}]
        /\ cycle' = [cycle EXCEPT ![t] = @ + 1]
    BY <1>2 DEF ApplyImplement, Taken
  <2>3. runs' = [runs EXCEPT ![t] = [@ EXCEPT ![cycle[t] + 1] = fired]]
    BY <2>1
  <2>4. \A c \in Cycle : c # cycle[t] + 1 => runs'[t][c] = runs[t][c]
    BY <2>3 DEF TicketTypeOK
  <2>5. \A c \in Cycle : runs'[t][c] \in Live => c = cycle'[t] /\ Taken(t)'
    BY <1>2, <2>2, <2>4 DEF OneRun, Taken, TicketTypeOK
  <2>6. ASSUME NEW u \in Ticket, u # t
        PROVE  runs'[u] = runs[u] /\ cycle'[u] = cycle[u] /\ labels'[u] = labels[u]
    BY <2>2, <2>3, <2>6 DEF TicketTypeOK
  <2> QED BY <2>5, <2>6 DEF OneRun, Taken
<1> QED BY <1>1, <1>2

LEMMA CautiousDispatch ==
  ASSUME FactoryTypeOK, Orderly, Cautious, NEW p \in Pass, Dispatch(p)
  PROVE  Cautious'
<1> PICK t \in disp[p].send : t = Turn(p)
  BY DEF Dispatch
<1>1. /\ t \in Ticket /\ DOMAIN disp = Pass /\ disp[p] \in DispatchRecord
      /\ disp[p].send \subseteq Ticket /\ TicketTypeOK
  BY DEF FactoryTypeOK, TypeOK, DispatcherTypeOK, DispatchRecord
<1>2. /\ disp'[p].send \subseteq disp[p].send \ {t}
      /\ disp'[p].pc \in {"idle", "write"}
  <2>1. /\ NextAction(p).send \subseteq disp[p].send \ {t}
        /\ NextAction(p).pc \in {"idle", "write"}
    BY <1>1 DEF NextAction, NoPass, DispatchRecord
  <2> QED BY <1>1, <2>1 DEF Dispatch
<1>3. UNCHANGED <<issue, pr>> /\ ApplyImplement(t, FALSE)
  BY DEF Dispatch
<1>4. \A u \in Ticket : u # t => (Taken(u)' <=> Taken(u)) /\ (Working(u)' <=> Working(u))
  BY <1>1, <1>3, ApplyElsewhere DEF Working
<1>5. OneRun'
  BY <1>1, <1>3, ApplyOneRun DEF Cautious
<1>6. Clear(p)
  BY DEF Cautious
<1>7. Covers(p)'
  BY <1>2 DEF Covers
<1>8. Clear(p)'
  <2>1. ASSUME NEW u \in disp'[p].send, NEW v \in Ticket, issue[v] = "open",
               Taken(v)' \/ Working(v)'
        PROVE  Apart(u, v)
    <3>1. CASE v = t
      BY <1>2, <1>6, <3>1 DEF Clear
    <3>2. CASE v # t
      BY <1>2, <1>4, <1>6, <2>1, <3>2 DEF Clear
    <3> QED BY <3>1, <3>2
  <2>2. \A u, v \in disp'[p].send : u # v => Apart(u, v)
    BY <1>2, <1>6 DEF Clear
  <2> QED BY <1>3, <2>1, <2>2 DEF Clear, Apart
<1> QED BY <1>5, <1>7, <1>8 DEF Orderly, Serial, Cautious

LEMMA CautiousFlags ==
  ASSUME FactoryTypeOK, Orderly, Cautious, NEW p \in Pass,
         \/ AlreadyFlagged(p) \/ Flag(p) \/ FlagComment(p) \/ DispatchWriteFails(p)
         \/ PassKilled(p)
  PROVE  Cautious'
<1>1. /\ DOMAIN disp = Pass /\ disp[p] \in DispatchRecord
      /\ labels \in [Ticket -> SUBSET Label]
  BY DEF FactoryTypeOK, TypeOK, TicketTypeOK, DispatcherTypeOK, DispatchRecord
<1>2. UNCHANGED <<issue, pr, runs, cycle>>
  BY DEF AlreadyFlagged, Flag, FlagComment, DispatchWriteFails, PassKilled, ticketVars
<1>3. \A t \in Ticket : Taken(t)' <=> Taken(t)
  BY <1>1 DEF AlreadyFlagged, Flag, FlagComment, DispatchWriteFails, PassKilled, ticketVars,
     Taken
<1>4. /\ disp'[p].send \subseteq disp[p].send
      /\ disp'[p].pc \in {"idle", "write", "comment"}
  <2>1. CASE Flag(p)
    BY <1>1, <2>1 DEF Flag, DispatchRecord
  <2>2. CASE ~Flag(p)
    <3>1. /\ NextAction(p).send \subseteq disp[p].send /\ NextAction(p).pc \in {"idle", "write"}
          /\ NoPass.send = {} /\ NoPass.pc = "idle"
      BY <1>1 DEF NextAction, NoPass, DispatchRecord
    <3> QED BY <1>1, <2>2, <3>1 DEF AlreadyFlagged, FlagComment, DispatchWriteFails, PassKilled
  <2> QED BY <2>1, <2>2
<1>5. Covers(p)'
  BY <1>4 DEF Covers
<1> QED BY <1>2, <1>3, <1>4, <1>5, CautiousPass

LEMMA CautiousNext ==
  ASSUME FactoryTypeOK, Orderly, Informed, Cautious, [FactoryNext]_factoryVars
  PROVE  Cautious'
<1>1. CASE UNCHANGED <<issue, labels, runs, cycle, pr, disp>>
  BY <1>1 DEF Cautious, OneRun, Covers, Clear, Read, Taken, Working, Apart
<1>2. CASE DispatcherStep
  <2>1. PICK p \in Pass :
           \/ StartPass(p) \/ ListIssues(p) \/ IssuesUnreadable(p) \/ ListAgentPrs(p)
           \/ Plan(p) \/ Dispatch(p) \/ AlreadyFlagged(p) \/ Flag(p) \/ FlagComment(p)
           \/ DispatchWriteFails(p) \/ PassKilled(p)
    BY <1>2 DEF DispatcherStep
  <2>2. ~IssuesUnreadable(p)
    BY DEF Orderly, Serial, IssuesUnreadable
  <2> QED
    BY <2>1, <2>2, CautiousStart, CautiousIssues, CautiousPrs, CautiousPlan, CautiousDispatch,
       CautiousFlags
<1>3. CASE ReaperTick /\ UNCHANGED dispVars
  BY <1>1, <1>3 DEF ReaperTick, Tick, dispVars
<1>4. CASE UNCHANGED factoryVars
  BY <1>1, <1>4 DEF factoryVars, ticketVars, dispVars
<1> QED BY <1>2, <1>3, <1>4, CautiousReaperStep, CautiousOutside
    DEF FactoryNext, Orderly, Serial

\* Dispatcher and reaper together implement EpicLanes: the reaper gives a ticket back only
\* when nothing works on it, or while its PR shows that something did; and what the plan
\* decides on labels and PRs, read one after the other, holds when the label is written.
THEOREM FactoryKeepsLanes ==
  ASSUME Orderly
  PROVE  FactorySpec => LanesKept
<1>1. FactoryInit => Parked /\ Informed /\ Unblocked /\ Lanes!Init
  BY ParkedInit, InformedInit, LanesInit
  DEF FactoryInit, Init, DispatcherInit, NoPass, Unblocked
<1>2. FactoryTypeOK /\ Informed /\ Unblocked /\ Cautious /\ [FactoryNext]_factoryVars =>
        [Lanes!Next]_Stage
  <2> SUFFICES ASSUME FactoryTypeOK, Informed, Unblocked, Cautious,
                      [FactoryNext]_factoryVars
               PROVE  [Lanes!Next]_Stage
    OBVIOUS
  <2>1. FleetTypeOK
    BY DEF FactoryTypeOK, TypeOK, FleetTypeOK
  <2>2. \A p \in Pass : \A t \in disp[p].send : MayTake(t)
    BY DEF Unblocked, Cautious, Clear, MayTake
  <2>3. CASE UNCHANGED <<issue, pr, runs, labels>>
    BY <2>3, LanesStay DEF Taken
  <2>4. CASE ReaperTick \/ UNCHANGED factoryVars
    BY <2>3, <2>4 DEF ReaperTick, Tick, factoryVars, ticketVars
  <2>5. CASE Outside
    BY <2>1, <2>5, BesideLanes DEF Outside, Beside, Orderly, Serial
  <2> QED BY <2>1, <2>2, <2>4, <2>5, DispatcherLanes, ReaperLanes DEF FactoryNext
<1>3. FactoryTypeOK /\ FactoryTypeOK' /\ Parked /\ Informed /\ [FactoryNext]_factoryVars =>
        Informed'
  BY InformedStays DEF Orderly
<1>4. FactoryTypeOK /\ Informed /\ Cautious /\ [FactoryNext]_factoryVars => Cautious'
  BY CautiousNext
<1>5. FactorySpec => Lanes!Init /\ [][Lanes!Next]_Stage
  BY <1>1, <1>2, <1>3, <1>4, ParkedStays, UnblockedStays, CautiousInit, FactoryTypeInit,
     FactoryTypeNext, PTL DEF FactorySpec
<1> QED BY <1>5 DEF LanesKept, Lanes!Spec

\* With the reaper at work as without: no two open tickets of an epic have a live run or an
\* open PR at a time.  The labels alone no longer show it, as they did for EpicsSerial.
THEOREM FactoryEpicsSerial ==
  ASSUME Orderly
  PROVE  FactorySpec => []OneInFlight
<1>1. ASSUME Lanes!Alone PROVE OneInFlight
  <2> SUFFICES ASSUME NEW e \in Epic
               PROVE  Cardinality({t \in Ticket : issue[t] = "open" /\ e \in PartOf[t] /\ Working(t)}) <= 1
    BY DEF OneInFlight
  <2> DEFINE W == {t \in Ticket : issue[t] = "open" /\ e \in PartOf[t] /\ Working(t)}
  <2>1. ASSUME NEW t \in W PROVE Lanes!InFlight(t)
    BY <2>1 DEF Lanes!InFlight, Stage, LaneOf
  <2>2. ASSUME NEW t \in W, NEW u \in W PROVE t = u
    BY <1>1, <2>1, <2>2 DEF Lanes!Alone
  <2>3. CASE W = {}
    BY <2>3, FS_EmptySet
  <2>4. CASE W # {}
    <3>1. PICK t : W = {t}
      BY <2>2, <2>4
    <3>2. Cardinality(W) = 1
      BY <3>1, FS_Singleton
    <3> QED BY <3>2
  <2> QED BY <2>3, <2>4
<1>2. FactorySpec => Lanes!Spec
  BY FactoryKeepsLanes DEF LanesKept
<1> QED BY <1>1, <1>2, LanesAreSafe, PTL
=============================================================================
