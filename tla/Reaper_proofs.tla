---------------------------- MODULE Reaper_proofs ----------------------------
(***************************************************************************)
(* Proofs about Reaper, for every set of tickets and every value of the    *)
(* bounds.  Three results:                                                 *)
(*   ReaperTypeCorrect  the type invariant;                                *)
(*   ReaperNeverRespins NoRespin, from the invariant Parked: a ticket that *)
(*                      was labeled before either still carries the label, *)
(*                      or is parked, or was let go;                       *)
(*   ReaperSparesLiveRuns  LiveRunSpared, where the run list is readable   *)
(*                      and no person relabels, from the invariant         *)
(*                      Informed: what a pass knows of a run that is over  *)
(*                      stays true, and a labeling it does not know of is  *)
(*                      younger than the grace period.                     *)
(***************************************************************************)
EXTENDS Reaper, Tickets_proofs

LEMMA IdleType == Idle \in PassRecord
BY TicketAssumption DEF Idle, PassRecord, Pairing, Parking, RunState

LEMMA NextTicketType ==
  ASSUME reap \in PassRecord, NEW t \in Ticket
  PROVE  NextTicket(t) \in PassRecord
<1>1. CASE reap.todo = {t}
  BY <1>1, IdleType DEF NextTicket
<1>2. CASE reap.todo # {t}
  <2>1. "none" \in Pairing /\ 0 \in 0..MaxCycles
    BY TicketAssumption DEF Pairing, Parking
  <2> QED BY <1>2, <2>1 DEF NextTicket, PassRecord
<1> QED BY <1>1, <1>2

LEMMA NextTicketPc ==
  ASSUME reap \in PassRecord, NEW t \in Ticket
  PROVE  NextTicket(t).pc \in {"idle", "judge"}
BY DEF NextTicket, PassRecord, Idle

\* A ticket's turn ends at once, or it goes on with a way to park the ticket.
LEMMA JudgeOutcome ==
  ASSUME NEW t \in Ticket, Judge(t)
  PROVE  \/ reap' = NextTicket(t)
         \/ \E failed \in SUBSET TicketRead :
              /\ VerdictOn(t, failed) \in Parking
              /\ reap' = [reap EXCEPT !.pc = "pair", !.at = {t}, !.key = cycle[t],
                                      !.pairing = VerdictOn(t, failed)]
<1> DEFINE park(failed) == [reap EXCEPT !.pc = "pair", !.at = {t}, !.key = cycle[t],
                                        !.pairing = VerdictOn(t, failed)]
<1>1. PICK failed \in SUBSET TicketRead :
        reap' = IF \/ "timeline" \in failed
                   \/ VerdictOn(t, failed) \notin Parking
                   \/ cycle[t] \in OwnComments(t, failed)
                THEN NextTicket(t) ELSE park(failed)
  BY Zenon DEF Judge
<1> HIDE DEF park
<1>2. reap' = NextTicket(t) \/ (VerdictOn(t, failed) \in Parking /\ reap' = park(failed))
  BY <1>1
<1> QED BY <1>2 DEF park

LEMMA TypeInit == Init => TypeOK
<1> SUFFICES ASSUME Init PROVE TypeOK
  OBVIOUS
<1>1. TicketTypeOK
  BY TicketTypeInit DEF Init
<1>2. ReaperTypeOK
  BY IdleType, ReaperAssumption DEF Init, ReaperInit, ReaperTypeOK, NoMark, Idle
<1> QED BY <1>1, <1>2 DEF TypeOK

\* A step of the pass, as what it does to the pass and to the shared state.
LEMMA ReaperStepType == TypeOK /\ ReaperStep => TypeOK'
<1> SUFFICES ASSUME TypeOK, ReaperStep PROVE TypeOK'
  OBVIOUS
<1> USE DEF TypeOK, ReaperTypeOK
<1>1. CASE ListTickets
  <2>1. reap' \in PassRecord /\ reap'.pc = "prs"
    BY <1>1 DEF ListTickets, PassRecord
  <2> QED BY <1>1, <2>1 DEF ListTickets, ticketVars, TicketTypeOK
<1>2. CASE ListPrs
  <2>1. reap' \in PassRecord /\ reap'.pc = "runs"
    BY <1>2 DEF ListPrs, PassRecord
  <2> QED BY <1>2, <2>1 DEF ListPrs, ticketVars, TicketTypeOK
<1>3. CASE PrsUnreadable
  BY <1>3, IdleType DEF PrsUnreadable, ticketVars, TicketTypeOK, Idle
<1>11. CASE Killed
  BY <1>11, IdleType DEF Killed, ticketVars, TicketTypeOK, Idle
<1>4. CASE FetchRuns
  <2> DEFINE snap == [t \in Ticket |-> IF cycle[t] = 0 THEN "none" ELSE runs[t][cycle[t]]]
  <2>1. snap \in [Ticket -> RunState]
    BY TicketAssumption DEF TicketTypeOK, RunState, Cycle
  <2> HIDE DEF snap
  <2>2. PICK unseen \in SUBSET Unseen :
          reap' = [reap EXCEPT !.pc = "judge",
                     !.known = [t \in Ticket |-> IF t \in unseen THEN 0 ELSE cycle[t]],
                     !.runs = snap]
    BY <1>4, Zenon DEF FetchRuns, snap
  <2>3. [t \in Ticket |-> IF t \in unseen THEN 0 ELSE cycle[t]] \in [Ticket -> 0..MaxCycles]
    BY TicketAssumption DEF TicketTypeOK
  <2>4. reap' \in PassRecord /\ reap'.pc = "judge"
    BY <2>1, <2>2, <2>3 DEF PassRecord
  <2> QED BY <1>4, <2>4 DEF FetchRuns, ticketVars, TicketTypeOK
<1>5. CASE RunsUnreadable
  <2>1. reap' \in PassRecord /\ reap'.pc = "judge"
    BY <1>5 DEF RunsUnreadable, PassRecord
  <2> QED BY <1>5, <2>1 DEF RunsUnreadable, ticketVars, TicketTypeOK
<1>6. ASSUME NEW t \in Ticket, Judge(t) PROVE TypeOK'
  <2>1. CASE reap' = NextTicket(t)
    BY <1>6, <2>1, NextTicketType, NextTicketPc DEF Judge, ticketVars, TicketTypeOK
  <2>2. ASSUME NEW verdict \in Parking,
               reap' = [reap EXCEPT !.pc = "pair", !.at = {t}, !.key = cycle[t],
                                    !.pairing = verdict]
        PROVE  TypeOK'
    <3>1. cycle[t] \in 0..MaxCycles /\ verdict \in Pairing
      BY DEF TicketTypeOK, Pairing
    <3>2. reap' \in PassRecord /\ reap'.pairing = verdict
      BY <2>2, <3>1 DEF PassRecord
    <3> QED BY <1>6, <2>2, <3>2 DEF Judge, ticketVars, TicketTypeOK
  <2> QED BY <1>6, <2>1, <2>2, JudgeOutcome
<1>7. ASSUME NEW t \in Ticket, Pair(t) PROVE TypeOK'
  <2>1. reap' \in PassRecord /\ reap'.pairing = reap.pairing /\ reap.pairing \in Parking
    BY <1>7 DEF Pair, PassRecord
  <2>2. labels' \in [Ticket -> SUBSET Label] /\ bullet' \in SUBSET Ticket
    <3>1. CASE reap.pairing = "blocker"
      BY <1>7, <3>1 DEF Pair, TicketTypeOK
    <3>2. CASE reap.pairing # "blocker"
      <4>1. reap.pairing \in Label
        BY <2>1, <3>2 DEF Parking, Label
      <4> QED BY <1>7, <3>2, <4>1 DEF Pair, TicketTypeOK
    <3> QED BY <3>1, <3>2
  <2> QED BY <1>7, <2>1, <2>2 DEF Pair, TicketTypeOK
<1>8. ASSUME NEW t \in Ticket, Remove(t) PROVE TypeOK'
  <2>1. reap' \in PassRecord /\ reap'.pairing = reap.pairing /\ reap.pairing \in Parking
    BY <1>8 DEF Remove, PassRecord
  <2> QED BY <1>8, <2>1 DEF Remove, TicketTypeOK
<1>9. ASSUME NEW t \in Ticket, Comment(t) PROVE TypeOK'
  <2>1. marks' \in [Ticket -> [Cycle -> 0..NoMark]]
    <3> DEFINE row == [marks[t] EXCEPT ![reap.key] = 0]
    <3>1. marks[t] \in [Cycle -> 0..NoMark] /\ 0 \in 0..NoMark
      BY ReaperAssumption DEF NoMark
    <3>2. row \in [Cycle -> 0..NoMark]
      BY <3>1
    <3>3. marks' = [marks EXCEPT ![t] = row]
      BY <1>9 DEF Comment
    <3> HIDE DEF row
    <3> QED BY <3>2, <3>3
  <2> QED BY <1>9, <2>1, NextTicketType, NextTicketPc DEF Comment, ticketVars, TicketTypeOK
<1>10. ASSUME NEW t \in Ticket, WriteFails(t) PROVE TypeOK'
  BY <1>10, NextTicketType, NextTicketPc DEF WriteFails, ticketVars, TicketTypeOK
<1> QED BY <1>1, <1>2, <1>3, <1>4, <1>5, <1>6, <1>7, <1>8, <1>9, <1>10, <1>11 DEF ReaperStep

LEMMA RedispatchType ==
  ASSUME TypeOK, NEW t \in Ticket, Redispatch(t)
  PROVE  TypeOK'
BY ApplyImplementType DEF Redispatch, TypeOK, TicketTypeOK, ReaperTypeOK

LEMMA ReaperTickType == TypeOK /\ ReaperTick => TypeOK'
<1> SUFFICES ASSUME TypeOK, ReaperTick PROVE TypeOK'
  OBVIOUS
<1>1. marks' \in [Ticket -> [Cycle -> 0..NoMark]]
  BY ReaperAssumption DEF TypeOK, ReaperTypeOK, ReaperTick, NoMark
<1> QED BY <1>1, TickType DEF TypeOK, ReaperTypeOK, ReaperTick

LEMMA TypeNext == TypeOK /\ [Next]_vars => TypeOK'
<1> SUFFICES ASSUME TypeOK, [Next]_vars PROVE TypeOK'
  OBVIOUS
<1>1. CASE ReaperStep
  BY <1>1, ReaperStepType
<1>2. CASE ReaperTick
  BY <1>2, ReaperTickType
<1>3. ASSUME NEW t \in Ticket, Redispatch(t) PROVE TypeOK'
  BY <1>3, RedispatchType
<1>4. CASE World /\ UNCHANGED reapVars
  BY <1>4, WorldType DEF TypeOK, ReaperTypeOK, reapVars
<1>5. ASSUME NEW t \in Ticket, NEW c \in Cycle, Runner(t, c), UNCHANGED reapVars
      PROVE  TypeOK'
  BY <1>5, RunnerType DEF TypeOK, ReaperTypeOK, reapVars
<1>6. CASE UNCHANGED vars
  BY <1>6 DEF vars, ticketVars, reapVars, TypeOK, TicketTypeOK, ReaperTypeOK
<1> QED BY <1>1, <1>2, <1>3, <1>4, <1>5, <1>6 DEF Next, Outside

\* The state of the protocol keeps its type: labels, runs, PRs and the pass.
THEOREM ReaperTypeCorrect == Spec => []TypeOK
BY TypeInit, TypeNext, PTL DEF Spec

-----------------------------------------------------------------------------
(* NoRespin                                                                *)

\* Something keeps the ticket from being labeled, or somebody let it go.
Settled(t) == t \in released \/ labels[t] \intersect Excluded # {} \/ t \in bullet

\* A ticket that was labeled before carries the label or is settled; and when the
\* label is about to come off, the pairing is there already.
Parked ==
  /\ \A t \in Ticket : cycle[t] > 0 => "implement" \in labels[t] \/ Settled(t)
  /\ \A t \in reap.at : reap.pc = "remove" => Settled(t)
  /\ \A t, u \in reap.at : t = u

LEMMA ParkedInit == Init => Parked
BY DEF Init, TicketInit, ReaperInit, Idle, Parked

LEMMA ApplyParks ==
  ASSUME TypeOK, Parked, NEW t \in Ticket, NEW hand \in BOOLEAN,
         ApplyImplement(t, hand), UNCHANGED <<bullet, reap>>
  PROVE  Parked'
<1>1. CASE "implement" \in labels[t]
  BY <1>1 DEF ApplyImplement, Parked, Settled
<1>2. CASE "implement" \notin labels[t]
  <2>1. /\ labels' = [labels EXCEPT ![t] = @ \union {"implement"}]
        /\ cycle' = [cycle EXCEPT ![t] = @ + 1]
        /\ released \subseteq released'
    BY <1>2 DEF ApplyImplement
  <2>2. \A u \in Ticket : Settled(u) => Settled(u)'
    BY <2>1 DEF Settled, TypeOK, TicketTypeOK
  <2>3. \A u \in Ticket : cycle'[u] > 0 => "implement" \in labels'[u] \/ Settled(u)'
    BY <2>1, <2>2 DEF Parked, TypeOK, TicketTypeOK
  <2> QED BY <2>2, <2>3 DEF Parked, TypeOK, ReaperTypeOK, PassRecord
<1> QED BY <1>1, <1>2

LEMMA WorldParks ==
  ASSUME TypeOK, Parked, World, UNCHANGED reapVars
  PROVE  Parked'
<1> USE DEF Parked, Settled, TypeOK, TicketTypeOK, ReaperTypeOK, PassRecord, reapVars
<1>1. ASSUME NEW t \in Ticket, Merge(t) \/ ClosePr(t) \/ CloseNotPlanned(t) PROVE Parked'
  BY <1>1 DEF Merge, ClosePr, CloseNotPlanned
<1>2. ASSUME NEW t \in Ticket, Hold(t) PROVE Parked'
  BY <1>2 DEF Hold
<1>3. ASSUME NEW t \in Ticket, Release(t) PROVE Parked'
  BY <1>3 DEF Release, Excluded
<1>4. ASSUME NEW t \in Ticket, Unlabel(t) PROVE Parked'
  BY <1>4 DEF Unlabel, Excluded
<1>5. ASSUME NEW t \in Ticket, HandLabel(t) PROVE Parked'
  BY <1>5, ApplyParks DEF HandLabel
<1>6. CASE Fix331
  BY <1>6 DEF Fix331
<1> QED BY <1>1, <1>2, <1>3, <1>4, <1>5, <1>6 DEF World

LEMMA NextTicketAt ==
  ASSUME reap \in PassRecord, NEW t \in Ticket
  PROVE  NextTicket(t).at = {}
BY DEF NextTicket, PassRecord, Idle

LEMMA ReaperStepParks ==
  ASSUME TypeOK, Parked, ReaperStep
  PROVE  Parked'
<1> USE DEF TypeOK, ReaperTypeOK
<1>1. CASE ListTickets \/ ListPrs \/ PrsUnreadable \/ Killed \/ FetchRuns \/ RunsUnreadable
  <2>1. reap'.pc # "remove" /\ (reap'.at = reap.at \/ reap'.at = {})
    <3>1. CASE ListTickets
      BY <3>1 DEF ListTickets, PassRecord
    <3>2. CASE ListPrs
      BY <3>2 DEF ListPrs, PassRecord
    <3>3. CASE PrsUnreadable
      BY <3>3 DEF PrsUnreadable, Idle
    <3>4. CASE FetchRuns
      BY <3>4, Zenon DEF FetchRuns, PassRecord
    <3>5. CASE RunsUnreadable
      BY <3>5 DEF RunsUnreadable, PassRecord
    <3>6. CASE Killed
      BY <3>6 DEF Killed, Idle
    <3> QED BY <1>1, <3>1, <3>2, <3>3, <3>4, <3>5, <3>6
  <2>2. UNCHANGED ticketVars
    BY <1>1 DEF ListTickets, ListPrs, PrsUnreadable, Killed, FetchRuns, RunsUnreadable
  <2> QED BY <2>1, <2>2 DEF Parked, Settled, ticketVars
<1>2. ASSUME NEW t \in Ticket, Judge(t) PROVE Parked'
  <2>1. reap'.pc # "remove" /\ (reap'.at = {} \/ reap'.at = {t})
    BY <1>2, JudgeOutcome, NextTicketAt, NextTicketPc DEF PassRecord
  <2>2. UNCHANGED ticketVars
    BY <1>2 DEF Judge
  <2> QED BY <2>1, <2>2 DEF Parked, Settled, ticketVars
<1>3. ASSUME NEW t \in Ticket, Pair(t) PROVE Parked'
  <2>1. Settled(t)'
    <3>1. CASE reap.pairing = "blocker"
      BY <1>3, <3>1 DEF Pair, Settled
    <3>2. CASE reap.pairing # "blocker"
      <4>1. reap.pairing \in Excluded
        BY <1>3, <3>2 DEF Pair, Parking, Excluded
      <4> QED BY <1>3, <3>2, <4>1 DEF Pair, Settled, TicketTypeOK
    <3> QED BY <3>1, <3>2
  <2>2. \A u \in Ticket : u # t /\ Settled(u) => Settled(u)'
    BY <1>3 DEF Pair, Settled, TicketTypeOK
  <2>3. \A u \in Ticket : "implement" \in labels[u] => "implement" \in labels'[u]
    BY <1>3 DEF Pair, TicketTypeOK
  <2>4. reap'.at = reap.at /\ t \in reap.at /\ cycle' = cycle
    BY <1>3 DEF Pair, PassRecord
  <2> QED BY <2>1, <2>2, <2>3, <2>4 DEF Parked
<1>4. ASSUME NEW t \in Ticket, Remove(t) PROVE Parked'
  <2>1. \A u \in Ticket : Settled(u) => Settled(u)'
    BY <1>4 DEF Remove, Settled, TicketTypeOK, Excluded
  <2>2. \A u \in Ticket \ {t} : "implement" \in labels[u] => "implement" \in labels'[u]
    BY <1>4 DEF Remove, TicketTypeOK
  <2>3. reap'.at = reap.at /\ reap'.pc = "comment" /\ Settled(t) /\ cycle' = cycle
    BY <1>4 DEF Remove, PassRecord, Parked
  <2> QED BY <2>1, <2>2, <2>3 DEF Parked
<1>5. ASSUME NEW t \in Ticket, Comment(t) \/ WriteFails(t) PROVE Parked'
  <2>1. reap' = NextTicket(t) /\ UNCHANGED ticketVars
    BY <1>5 DEF Comment, WriteFails
  <2> QED BY <2>1, NextTicketAt DEF Parked, Settled, ticketVars
<1> QED BY <1>1, <1>2, <1>3, <1>4, <1>5 DEF ReaperStep

LEMMA ParkedNext == TypeOK /\ Parked /\ [Next]_vars => Parked'
<1> SUFFICES ASSUME TypeOK, Parked, [Next]_vars PROVE Parked'
  OBVIOUS
<1>1. CASE ReaperStep
  BY <1>1, ReaperStepParks
<1>2. CASE ReaperTick
  BY <1>2 DEF ReaperTick, Tick, Parked, Settled
<1>3. ASSUME NEW t \in Ticket, Redispatch(t) PROVE Parked'
  BY <1>3, ApplyParks DEF Redispatch
<1>4. CASE World /\ UNCHANGED reapVars
  BY <1>4, WorldParks
<1>5. ASSUME NEW t \in Ticket, NEW c \in Cycle, Runner(t, c), UNCHANGED reapVars
      PROVE  Parked'
  BY <1>5 DEF Runner, Guard, GuardVerdicts, StartJob, NoCommits, Commit, OpenPr,
     FinishJob, FailJob, reapVars, Parked, Settled
<1>6. CASE UNCHANGED vars
  BY <1>6 DEF vars, ticketVars, reapVars, Parked, Settled
<1> QED BY <1>1, <1>2, <1>3, <1>4, <1>5, <1>6 DEF Next, Outside

\* Only the dispatcher and a person add the label.
LEMMA RespinStep ==
  ASSUME TypeOK, Parked, [Next]_vars, NEW t \in Ticket, Relabeled(t)
  PROVE  t \in released' \/ (t \in bullet /\ fix331 = "completed")
<1>1. CASE ReaperStep \/ ReaperTick
  <2>1. cycle' = cycle
    BY <1>1, Zenon DEF ReaperStep, ListTickets, ListPrs, PrsUnreadable, Killed, FetchRuns,
       RunsUnreadable, Judge, Pair, Remove, Comment, WriteFails, ReaperTick, Tick, ticketVars
  <2> QED BY <2>1 DEF Relabeled, TypeOK, TicketTypeOK
<1>2. ASSUME NEW u \in Ticket, Redispatch(u)
      PROVE  t \in released' \/ (t \in bullet /\ fix331 = "completed")
  <2>1. "implement" \notin labels[u] /\ u = t
    BY <1>2 DEF Redispatch, ApplyImplement, Relabeled, TypeOK, TicketTypeOK
  <2>2. labels[t] = {} /\ cycle[t] > 0
    BY <1>2, <2>1 DEF Redispatch, Relabeled
  <2>3. t \in released \/ t \in bullet
    BY <2>2 DEF Parked, Settled
  <2>4. released' = released
    BY <1>2 DEF Redispatch, ApplyImplement
  <2> QED BY <1>2, <2>1, <2>3, <2>4 DEF Redispatch
<1>3. CASE World
  <2>1. PICK u \in Ticket : HandLabel(u)
    BY <1>3 DEF World, Merge, ClosePr, CloseNotPlanned, Hold, Release, Unlabel, Fix331,
       Relabeled, TypeOK, TicketTypeOK
  <2> QED BY <2>1 DEF HandLabel, ApplyImplement, Relabeled, TypeOK, TicketTypeOK
<1>4. ASSUME NEW u \in Ticket, NEW c \in Cycle, Runner(u, c)
      PROVE  FALSE
  BY <1>4 DEF Runner, Guard, GuardVerdicts, StartJob, NoCommits, Commit, OpenPr,
     FinishJob, FailJob, Relabeled, TypeOK, TicketTypeOK
<1>5. CASE UNCHANGED vars
  BY <1>5 DEF vars, ticketVars, Relabeled, TypeOK, TicketTypeOK
<1> QED BY <1>1, <1>2, <1>3, <1>4, <1>5 DEF Next, Outside

\* Never reap bare: whatever fails, and however the pass and the world interleave,
\* a ticket that was labeled before is labeled again only after somebody let it go,
\* or through the lost-push pairing once #331 is closed.
THEOREM ReaperNeverRespins == Spec => NoRespin
<1>1. TypeOK /\ Parked /\ [Next]_vars =>
        [\A t \in Ticket : Relabeled(t) =>
           t \in released' \/ (t \in bullet /\ fix331 = "completed")]_vars
  BY RespinStep
<1> QED BY <1>1, ReaperTypeCorrect, ParkedInit, ParkedNext, PTL DEF Spec, NoRespin

-----------------------------------------------------------------------------
(* LiveRunSpared                                                           *)

\* What the result assumes: the run list can be read, and nobody relabels by hand.  A run
\* shows within the grace period (Unseen), however short that is; the job's cap, which the
\* code derives it from, does not matter.
Reliable == "runs" \notin Faults /\ "relabel" \notin Faults

\* What a pass knows of runs stays true of runs that are over; a labeling that it has to
\* judge and does not know of is younger than the grace period; the tickets that it still
\* has to judge carry the label, so that no run of theirs can start again; and the run of
\* the ticket at hand is over until its label is off.
Informed ==
  /\ \A t \in Ticket : reap.known[t] <= cycle[t]
  /\ \A t \in Ticket : reap.known[t] > 0 /\ reap.runs[t] \notin Live =>
       runs[t][reap.known[t]] = reap.runs[t]
  /\ reap.pc \in {"judge", "pair", "remove", "comment"} =>
       \A t \in reap.todo \ reap.at : reap.known[t] = cycle[t] \/ labelAge[t] < Grace
  /\ \A t \in Ticket : "implement" \in labels[t] => cycle[t] > 0
  /\ \A t \in reap.todo : \/ "implement" \in labels[t]
                          \/ t \in reap.at /\ reap.pc = "comment"
  /\ reap.at \subseteq reap.todo
  /\ reap.pc \notin {"pair", "remove", "comment"} => reap.at = {}
  /\ \A t \in reap.at : reap.pc \in {"pair", "remove"} => runs[t][cycle[t]] \notin Live

LEMMA InformedInit == Init => Informed
<1> SUFFICES ASSUME Init PROVE Informed
  OBVIOUS
<1>1. reap = Idle /\ cycle = [t \in Ticket |-> 0] /\ labels = [t \in Ticket |-> {}]
  BY DEF Init, ReaperInit, TicketInit
<1> QED BY <1>1, TicketAssumption DEF Idle, Informed

\* A run of a begun cycle that is over keeps its outcome, and its cycle its number.
LEMMA InformedFrame ==
  ASSUME Reliable, TypeOK, TypeOK', Informed, UNCHANGED reap,
         \A t \in Ticket : cycle[t] <= cycle'[t],
         \A t \in Ticket, c \in Cycle :
           c <= cycle[t] /\ runs[t][c] \notin Live => runs'[t][c] = runs[t][c],
         \A t \in Ticket : "implement" \in labels[t] => labelAge'[t] = labelAge[t] \/ reap.pc = "idle",
         \A t \in Ticket : "implement" \in labels'[t] => cycle'[t] > 0,
         \A t \in Ticket : "implement" \in labels[t] =>
           "implement" \in labels'[t] /\ cycle'[t] = cycle[t]
  PROVE  Informed'
<1> USE DEF TypeOK, TicketTypeOK, ReaperTypeOK, PassRecord
<1>1. (\A t \in Ticket : reap.known[t] <= cycle[t])'
  BY TicketAssumption DEF Informed
<1>2. (\A t \in Ticket : reap.known[t] > 0 /\ reap.runs[t] \notin Live =>
         runs[t][reap.known[t]] = reap.runs[t])'
  <2> SUFFICES ASSUME NEW t \in Ticket, reap.known[t] > 0, reap.runs[t] \notin Live
               PROVE  runs'[t][reap.known[t]] = reap.runs[t]
    OBVIOUS
  <2>1. reap.known[t] \in Cycle /\ reap.known[t] <= cycle[t]
    BY TicketAssumption DEF Informed, Cycle
  <2>2. runs[t][reap.known[t]] = reap.runs[t]
    BY DEF Informed
  <2> QED BY <2>1, <2>2
<1>3. (reap.pc \in {"judge", "pair", "remove", "comment"} =>
         \A t \in reap.todo \ reap.at : reap.known[t] = cycle[t] \/ labelAge[t] < Grace)'
  BY DEF Informed
<1>4. (\A t \in reap.todo : \/ "implement" \in labels[t]
                            \/ t \in reap.at /\ reap.pc = "comment")'
  BY DEF Informed
<1>5. (\A t \in reap.at : reap.pc \in {"pair", "remove"} => runs[t][cycle[t]] \notin Live)'
  <2> SUFFICES ASSUME NEW t \in reap.at, reap.pc \in {"pair", "remove"}
               PROVE  runs'[t][cycle'[t]] \notin Live
    OBVIOUS
  <2>1. t \in Ticket /\ "implement" \in labels[t] /\ cycle[t] > 0
    BY DEF Informed
  <2>2. cycle'[t] = cycle[t] /\ cycle[t] \in Cycle
    BY <2>1, TicketAssumption DEF Cycle
  <2>3. runs[t][cycle[t]] \notin Live
    BY DEF Informed
  <2> QED BY <2>1, <2>2, <2>3
<1> QED BY <1>1, <1>2, <1>3, <1>4, <1>5 DEF Informed

LEMMA InformedApply ==
  ASSUME Reliable, TypeOK, TypeOK', Informed, NEW t \in Ticket, NEW hand \in BOOLEAN,
         ApplyImplement(t, hand), UNCHANGED reap
  PROVE  Informed'
<1>1. CASE "implement" \in labels[t]
  BY <1>1, InformedFrame DEF ApplyImplement, Informed, TypeOK, TicketTypeOK
<1>2. CASE "implement" \notin labels[t]
  <2>1. /\ labels' = [labels EXCEPT ![t] = @ \union {"implement"}]
        /\ cycle' = [cycle EXCEPT ![t] = @ + 1]
        /\ labelAge' = [labelAge EXCEPT ![t] = 0]
    BY <1>2 DEF ApplyImplement
  <2>2. \A u \in Ticket, c \in Cycle :
          c <= cycle[u] /\ runs[u][c] \notin Live => runs'[u][c] = runs[u][c]
    BY ApplyKeepsRuns DEF TypeOK, Cycle
  <2>3. \A u \in Ticket : cycle[u] <= cycle'[u]
    BY <2>1 DEF TypeOK, TicketTypeOK
  <2>4. \A u \in Ticket : "implement" \in labels[u] => labelAge'[u] = labelAge[u]
    BY <1>2, <2>1 DEF TypeOK, TicketTypeOK
  <2>5. \A u \in Ticket : "implement" \in labels'[u] => cycle'[u] > 0
    BY <2>1 DEF Informed, TypeOK, TicketTypeOK
  <2>6. \A u \in Ticket : "implement" \in labels[u] =>
          "implement" \in labels'[u] /\ cycle'[u] = cycle[u]
    BY <1>2, <2>1 DEF TypeOK, TicketTypeOK
  <2> QED BY <2>2, <2>3, <2>4, <2>5, <2>6, InformedFrame
<1> QED BY <1>1, <1>2

LEMMA InformedWorld ==
  ASSUME Reliable, TypeOK, TypeOK', Informed, World, UNCHANGED reapVars
  PROVE  Informed'
<1>1. UNCHANGED <<cycle, labelAge, runs, reap>>
  BY DEF Reliable, World, Merge, ClosePr, CloseNotPlanned, Hold, Release, Unlabel,
     HandLabel, Fix331, reapVars
<1>2. \A t \in Ticket : "implement" \in labels'[t] <=> "implement" \in labels[t]
  <2> TAKE t \in Ticket
  <2>1. ASSUME NEW u \in Ticket, Hold(u)
        PROVE  "implement" \in labels'[t] <=> "implement" \in labels[t]
    BY <2>1 DEF Hold, TypeOK, TicketTypeOK
  <2>2. ASSUME NEW u \in Ticket, Release(u)
        PROVE  "implement" \in labels'[t] <=> "implement" \in labels[t]
    BY <2>2 DEF Release, Excluded, TypeOK, TicketTypeOK
  <2>3. ASSUME NEW u \in Ticket, Unlabel(u) \/ HandLabel(u) PROVE FALSE
    BY <2>3 DEF Reliable, Unlabel, HandLabel
  <2>4. ASSUME NEW u \in Ticket, Merge(u) \/ ClosePr(u) \/ CloseNotPlanned(u)
        PROVE  labels' = labels
    BY <2>4 DEF Merge, ClosePr, CloseNotPlanned
  <2>5. CASE Fix331
    BY <2>5 DEF Fix331
  <2> QED BY <2>1, <2>2, <2>3, <2>4, <2>5 DEF World
<1> QED BY <1>1, <1>2, InformedFrame DEF Informed, TypeOK, TicketTypeOK

LEMMA InformedRunner ==
  ASSUME Reliable, TypeOK, TypeOK', Informed, NEW t \in Ticket, NEW c \in Cycle, Runner(t, c),
         UNCHANGED reapVars
  PROVE  Informed'
<1>1. UNCHANGED <<cycle, labelAge, labels, reap>>
  BY DEF Runner, Guard, GuardVerdicts, StartJob, NoCommits, Commit, OpenPr,
     FinishJob, FailJob, reapVars
<1>2. \A u \in Ticket, d \in Cycle : runs[u][d] \notin Live => runs'[u][d] = runs[u][d]
  BY RunnerKeepsOver DEF TypeOK
<1> QED BY <1>1, <1>2, InformedFrame DEF Informed, TypeOK, TicketTypeOK

LEMMA InformedTick ==
  ASSUME Reliable, TypeOK, TypeOK', Informed, ReaperTick
  PROVE  Informed'
<1>1. reap.pc = "idle" /\ UNCHANGED <<cycle, runs, labels, reap>>
  BY DEF ReaperTick, Tick
<1> QED BY <1>1, InformedFrame DEF Informed, TypeOK, TicketTypeOK

\* A verdict that parks a ticket: there is no run, for longer than the grace period,
\* or the run is over.
LEMMA ParkingVerdict ==
  ASSUME NEW t \in Ticket, NEW failed, VerdictOn(t, failed) \in Parking,
         labelAge[t] \in Nat, Grace \in Nat
  PROVE  /\ FindRun(t, cycle[t]) \notin Live
         /\ FindRun(t, cycle[t]) = "none" => labelAge[t] >= Grace
<1>1. ASSUME NEW open, NEW run, NEW claimed, NEW exists, NEW repeated, NEW age \in Nat,
             Evaluate(open, run, age, claimed, exists, repeated) \in Parking
      PROVE  run \notin Live /\ (run = "none" => age >= Grace)
  <2>1. CASE open
    BY <1>1, <2>1 DEF Evaluate, Parking
  <2>2. CASE ~open /\ run \in Live
    BY <1>1, <2>2 DEF Evaluate, Parking
  <2>3. CASE ~open /\ run \notin Live /\ run = "none" /\ age < Grace
    BY <1>1, <2>3 DEF Evaluate, Parking
  <2> QED BY <2>1, <2>2, <2>3, TicketAssumption
<1> DEFINE run == FindRun(t, cycle[t])
           seen == IF run = "refused" /\ "jobs" \in failed THEN "empty" ELSE run
<1>2. seen \notin Live /\ (seen = "none" => labelAge[t] >= Grace)
  BY <1>1, Zenon DEF VerdictOn
<1> QED BY <1>2 DEF Live

LEMMA JudgedIsOver ==
  ASSUME Reliable, TypeOK, Informed, NEW t \in Ticket, Judge(t),
         NEW failed, VerdictOn(t, failed) \in Parking
  PROVE  runs[t][cycle[t]] \notin Live
<1>1. /\ FindRun(t, cycle[t]) \notin Live
      /\ FindRun(t, cycle[t]) = "none" => labelAge[t] >= Grace
  BY ParkingVerdict, TicketAssumption DEF TypeOK, TicketTypeOK
<1>2. /\ reap.pc = "judge" /\ "implement" \in labels[t] /\ cycle[t] > 0
      /\ t \in reap.todo \ reap.at
  BY DEF Judge, Informed
<1>3. CASE reap.known[t] = cycle[t]
  BY <1>1, <1>2, <1>3 DEF FindRun, Informed
<1>4. CASE reap.known[t] # cycle[t]
  <2>1. FindRun(t, cycle[t]) = "none" /\ labelAge[t] < Grace
    BY <1>2, <1>4 DEF FindRun, Informed
  <2> QED BY <1>1, <2>1, TicketAssumption DEF TypeOK, TicketTypeOK
<1> QED BY <1>3, <1>4

LEMMA NextTicketFields ==
  ASSUME reap \in PassRecord, NEW t \in Ticket
  PROVE  \/ NextTicket(t) = Idle
         \/ /\ NextTicket(t).pc = "judge"
            /\ NextTicket(t).todo = reap.todo \ {t}
            /\ NextTicket(t).known = reap.known
            /\ NextTicket(t).runs = reap.runs
<1>1. CASE reap.todo = {t}
  BY <1>1 DEF NextTicket
<1>2. CASE reap.todo # {t}
  BY <1>2 DEF NextTicket, PassRecord
<1> QED BY <1>1, <1>2

\* An idle pass knows nothing and has nothing left to do.
LEMMA InformedIdle ==
  ASSUME TypeOK, Informed, reap' = Idle, UNCHANGED <<cycle, labels>>
  PROVE  Informed'
<1>1. /\ reap'.pc = "idle" /\ reap'.todo = {} /\ reap'.at = {}
      /\ \A t \in Ticket : reap'.known[t] = 0
  BY DEF Idle
<1> QED BY <1>1 DEF Informed, TypeOK, TicketTypeOK

\* The end of a turn: the label of t may be gone, and t is no longer to do.
LEMMA InformedNextTicket ==
  ASSUME TypeOK, Informed, Parked, NEW t \in reap.todo, reap' = NextTicket(t),
         reap.pc \in {"judge", "pair", "remove", "comment"},
         reap.pc = "judge" \/ t \in reap.at,
         UNCHANGED ticketVars
  PROVE  Informed'
<1> USE DEF TypeOK, ReaperTypeOK
<1>1. t \in Ticket
  BY DEF PassRecord
<1>2. CASE reap' = Idle
  BY <1>2, InformedIdle DEF ticketVars
<1>3. CASE reap' # Idle
  <2>1. /\ reap'.pc = "judge" /\ reap'.todo = reap.todo \ {t} /\ reap'.at = {}
        /\ reap'.known = reap.known /\ reap'.runs = reap.runs
    BY <1>1, <1>3, NextTicketFields, NextTicketAt
  <2>2. reap.todo \ {t} \subseteq reap.todo \ reap.at
    BY DEF Informed, Parked
  <2>3. \A u \in reap'.todo : /\ "implement" \in labels[u]
                              /\ reap.known[u] = cycle[u] \/ labelAge[u] < Grace
    BY <2>1, <2>2 DEF Informed
  <2> QED BY <2>1, <2>3 DEF Informed, ticketVars
<1> QED BY <1>2, <1>3

LEMMA InformedReaperStep ==
  ASSUME Reliable, TypeOK, Parked, Informed, ReaperStep
  PROVE  Informed'
<1> USE DEF TypeOK, ReaperTypeOK
<1>1. CASE ListTickets
  <2>1. /\ reap'.pc = "prs" /\ reap'.at = reap.at
        /\ reap'.todo = {t \in Ticket : issue[t] = "open" /\ "implement" \in labels[t]}
        /\ reap'.known = reap.known /\ reap'.runs = reap.runs
    BY <1>1, Zenon DEF ListTickets, PassRecord
  <2>2. reap.at = {}
    BY <1>1 DEF ListTickets, Informed
  <2> QED BY <1>1, <2>1, <2>2 DEF ListTickets, ticketVars, Informed
<1>2. CASE ListPrs
  <2>1. /\ reap'.pc = "runs" /\ reap'.at = reap.at /\ reap'.todo = reap.todo
        /\ reap'.known = reap.known /\ reap'.runs = reap.runs
    BY <1>2 DEF ListPrs, PassRecord
  <2> QED BY <1>2, <2>1 DEF ListPrs, ticketVars, Informed
<1>3. CASE PrsUnreadable
  BY <1>3, InformedIdle DEF PrsUnreadable, ticketVars
<1>10. CASE Killed
  BY <1>10, InformedIdle DEF Killed, ticketVars
<1>4. CASE FetchRuns
  <2> DEFINE snap == [t \in Ticket |-> IF cycle[t] = 0 THEN "none" ELSE runs[t][cycle[t]]]
             known(unseen) == [t \in Ticket |-> IF t \in unseen THEN 0 ELSE cycle[t]]
  <2>0. PICK unseen \in SUBSET Unseen :
          reap' = [reap EXCEPT !.pc = "judge", !.known = known(unseen), !.runs = snap]
    BY <1>4, Zenon DEF FetchRuns
  <2>1. /\ reap'.pc = "judge" /\ reap'.at = reap.at /\ reap'.todo = reap.todo
        /\ \A t \in Ticket :
             reap'.known[t] = cycle[t] \/ (reap'.known[t] = 0 /\ labelAge[t] < Grace)
    BY <2>0 DEF Unseen, PassRecord
  <2>2. \A t \in Ticket : cycle[t] > 0 => reap'.runs[t] = runs[t][cycle[t]]
    BY <2>0 DEF PassRecord, TicketTypeOK
  <2> HIDE DEF snap, known
  <2>3. /\ reap.at = {} /\ UNCHANGED <<cycle, labels, labelAge, runs>>
        /\ \A t \in reap.todo : "implement" \in labels[t]
        /\ \A t \in Ticket : "implement" \in labels[t] => cycle[t] > 0
    BY <1>4 DEF FetchRuns, ticketVars, Informed
  <2>4. \A t \in Ticket : cycle[t] \in Nat
    BY TicketAssumption DEF TicketTypeOK
  <2>5. \A t \in Ticket : reap'.known[t] <= cycle[t]
    BY <2>1, <2>4
  <2>6. \A t \in Ticket : reap'.known[t] > 0 => reap'.runs[t] = runs[t][reap'.known[t]]
    BY <2>1, <2>2
  <2>7. \A t \in reap'.todo : reap'.known[t] = cycle[t] \/ labelAge[t] < Grace
    BY <2>1 DEF PassRecord
  <2> QED BY <2>1, <2>3, <2>5, <2>6, <2>7 DEF Informed
<1>5. CASE RunsUnreadable
  BY <1>5 DEF RunsUnreadable, Reliable
<1>6. ASSUME NEW t \in Ticket, Judge(t) PROVE Informed'
  <2>1. CASE reap' = NextTicket(t)
    BY <1>6, <2>1, InformedNextTicket DEF Judge
  <2>2. CASE reap' # NextTicket(t)
    <3>1. PICK failed \in SUBSET TicketRead :
            /\ VerdictOn(t, failed) \in Parking
            /\ reap' = [reap EXCEPT !.pc = "pair", !.at = {t}, !.key = cycle[t],
                                    !.pairing = VerdictOn(t, failed)]
      BY <1>6, <2>2, JudgeOutcome
    <3>2. /\ reap'.pc = "pair" /\ reap'.at = {t} /\ reap'.todo = reap.todo
          /\ reap'.known = reap.known /\ reap'.runs = reap.runs
      BY <3>1 DEF PassRecord
    <3>3. runs[t][cycle[t]] \notin Live
      BY <1>6, <3>1, JudgedIsOver
    <3>4. t \in reap.todo /\ reap.pc = "judge" /\ UNCHANGED ticketVars
      BY <1>6 DEF Judge
    <3> QED BY <3>2, <3>3, <3>4 DEF Informed, ticketVars
  <2> QED BY <2>1, <2>2
<1>7. ASSUME NEW t \in Ticket, Pair(t) PROVE Informed'
  <2>1. /\ reap'.pc = "remove" /\ reap'.at = reap.at /\ reap'.todo = reap.todo
        /\ reap'.known = reap.known /\ reap'.runs = reap.runs /\ reap.pc = "pair"
    BY <1>7 DEF Pair, PassRecord
  <2>2. \A u \in Ticket : "implement" \in labels'[u] <=> "implement" \in labels[u]
    <3>1. reap.pairing \in Parking /\ reap.pairing # "implement"
      BY <1>7 DEF Pair, Parking
    <3>2. labels' = labels \/ labels' = [labels EXCEPT ![t] = @ \union {reap.pairing}]
      BY <1>7 DEF Pair
    <3>3. CASE labels' = labels
      BY <3>3
    <3>4. CASE labels' = [labels EXCEPT ![t] = @ \union {reap.pairing}]
      <4>1. \A u \in Ticket : labels'[u] = labels[u] \/ labels'[u] = labels[u] \union {reap.pairing}
        BY <3>4 DEF TicketTypeOK
      <4> QED BY <3>1, <4>1
    <3> QED BY <3>2, <3>3, <3>4
  <2>3. UNCHANGED <<cycle, labelAge, runs>>
    BY <1>7 DEF Pair
  <2> QED BY <2>1, <2>2, <2>3 DEF Informed, PassRecord
<1>8. ASSUME NEW t \in Ticket, Remove(t) PROVE Informed'
  <2>1. /\ reap'.pc = "comment" /\ reap'.at = reap.at /\ reap'.todo = reap.todo
        /\ reap'.known = reap.known /\ reap'.runs = reap.runs /\ reap.pc = "remove"
    BY <1>8 DEF Remove, PassRecord
  <2>2. /\ \A u \in Ticket \ {t} : "implement" \in labels'[u] <=> "implement" \in labels[u]
        /\ "implement" \notin labels'[t]
    BY <1>8 DEF Remove, TicketTypeOK
  <2>3. UNCHANGED <<cycle, labelAge, runs>> /\ t \in reap.at
    BY <1>8 DEF Remove
  <2> QED BY <2>1, <2>2, <2>3 DEF Informed, PassRecord
<1>9. ASSUME NEW t \in Ticket, Comment(t) \/ WriteFails(t) PROVE Informed'
  <2>1. /\ reap' = NextTicket(t) /\ UNCHANGED ticketVars /\ t \in reap.at
        /\ reap.pc \in {"pair", "remove", "comment"}
    BY <1>9 DEF Comment, WriteFails
  <2>2. t \in reap.todo
    BY <2>1 DEF Informed
  <2> QED BY <2>1, <2>2, InformedNextTicket
<1> QED BY <1>1, <1>2, <1>3, <1>4, <1>5, <1>6, <1>7, <1>8, <1>9, <1>10 DEF ReaperStep

LEMMA InformedNext == TypeOK /\ Parked /\ Informed /\ Reliable /\ [Next]_vars => Informed'
<1> SUFFICES ASSUME TypeOK, Parked, Informed, Reliable, [Next]_vars PROVE Informed'
  OBVIOUS
<1>0. TypeOK'
  BY TypeNext
<1>1. CASE ReaperStep
  BY <1>1, InformedReaperStep
<1>2. CASE ReaperTick
  BY <1>0, <1>2, InformedTick
<1>3. ASSUME NEW t \in Ticket, Redispatch(t) PROVE Informed'
  BY <1>0, <1>3, InformedApply DEF Redispatch
<1>4. CASE World /\ UNCHANGED reapVars
  BY <1>0, <1>4, InformedWorld
<1>5. ASSUME NEW t \in Ticket, NEW c \in Cycle, Runner(t, c), UNCHANGED reapVars
      PROVE  Informed'
  BY <1>0, <1>5, InformedRunner
<1>6. CASE UNCHANGED vars
  BY <1>6 DEF vars, ticketVars, reapVars, Informed
<1> QED BY <1>1, <1>2, <1>3, <1>4, <1>5, <1>6 DEF Next, Outside

\* Where the run list is readable and nobody relabels by hand, no ticket is parked
\* whose run could still open a PR, though the pass decides on a list of runs that
\* is stale by then and on the age of the label.
THEOREM ReaperSparesLiveRuns ==
  ASSUME Reliable
  PROVE  Spec => []LiveRunSpared
<1>1. Informed => LiveRunSpared
  BY DEF Informed, LiveRunSpared
<1>2. TypeOK /\ Parked /\ Informed /\ [Next]_vars => Informed'
  BY InformedNext
<1> QED BY <1>1, <1>2, ReaperTypeCorrect, ParkedInit, ParkedNext, InformedInit, TypeInit,
          TypeNext, PTL DEF Spec
=============================================================================
