---------------------------- MODULE Tickets_proofs ----------------------------
(***************************************************************************)
(* What the shared ticket state promises to every component that extends   *)
(* it: each step of the workflow, of the clock and of the people keeps its *)
(* type, and a run whose outcome is known keeps that outcome.              *)
(***************************************************************************)
EXTENDS Tickets, TLAPS

LEMMA TicketTypeInit == TicketInit => TicketTypeOK
BY TicketAssumption DEF TicketInit, TicketTypeOK, IssueState, PrState, RunState,
   Label, Cycle

LEMMA RunsUpdate ==
  ASSUME runs \in [Ticket -> [Cycle -> RunState]],
         NEW t \in Ticket, NEW c \in Cycle, NEW x \in RunState
  PROVE  [runs EXCEPT ![t][c] = x] \in [Ticket -> [Cycle -> RunState]]
OBVIOUS

LEMMA ApplyImplementType ==
  ASSUME TicketTypeOK, NEW t \in Ticket, NEW hand, ApplyImplement(t, hand)
  PROVE  /\ labels' \in [Ticket -> SUBSET Label]
         /\ cycle' \in [Ticket -> 0..MaxCycles]
         /\ labelAge' \in [Ticket -> 0..Grace]
         /\ runs' \in [Ticket -> [Cycle -> RunState]]
         /\ released' \in SUBSET Ticket
<1>1. CASE "implement" \in labels[t]
  BY <1>1 DEF ApplyImplement, TicketTypeOK
<1>2. CASE "implement" \notin labels[t]
  <2>1. labels' \in [Ticket -> SUBSET Label]
    BY <1>2 DEF ApplyImplement, TicketTypeOK, Label
  <2>2. cycle' \in [Ticket -> 0..MaxCycles]
    BY <1>2, TicketAssumption DEF ApplyImplement, TicketTypeOK
  <2>3. labelAge' \in [Ticket -> 0..Grace]
    BY <1>2, TicketAssumption DEF ApplyImplement, TicketTypeOK
  <2>4. runs' \in [Ticket -> [Cycle -> RunState]]
    <3>1. cycle[t] + 1 \in Cycle
      BY <1>2, TicketAssumption DEF ApplyImplement, TicketTypeOK, Cycle
    <3>2. PICK x \in {"queued", "none"} : runs' = [runs EXCEPT ![t][cycle[t] + 1] = x]
      BY <1>2, Zenon DEF ApplyImplement
    <3>3. x \in RunState
      BY DEF RunState
    <3> QED BY <3>1, <3>2, <3>3, RunsUpdate DEF TicketTypeOK
  <2>5. released' \in SUBSET Ticket
    BY <1>2 DEF ApplyImplement, TicketTypeOK
  <2> QED BY <2>1, <2>2, <2>3, <2>4, <2>5
<1> QED BY <1>1, <1>2

LEMMA RunnerType ==
  ASSUME TicketTypeOK, NEW t \in Ticket, NEW c \in Cycle, Runner(t, c)
  PROVE  TicketTypeOK'
<1>1. runs' \in [Ticket -> [Cycle -> RunState]]
  <2>1. PICK x \in RunState : runs' = [runs EXCEPT ![t][c] = x]
    BY Zenon DEF Runner, Guard, GuardVerdicts, StartJob, NoCommits, Commit, OpenPr,
       FinishJob, FailJob, RunState
  <2> QED BY <2>1, RunsUpdate DEF TicketTypeOK
<1>2. runAge' \in [Ticket -> 0..JobCap]
  BY TicketAssumption DEF Runner, Guard, GuardVerdicts, StartJob, NoCommits, Commit,
     OpenPr, FinishJob, FailJob, TicketTypeOK
<1>3. branch' \in SUBSET Ticket /\ claim' \in SUBSET Ticket
  BY DEF Runner, Guard, GuardVerdicts, StartJob, NoCommits, Commit, OpenPr,
     FinishJob, FailJob, TicketTypeOK
<1>4. pr' \in [Ticket -> PrState]
  BY DEF Runner, Guard, GuardVerdicts, StartJob, NoCommits, Commit, OpenPr,
     FinishJob, FailJob, TicketTypeOK, PrState
<1>5. UNCHANGED <<issue, labels, bullet, fix331, cycle, labelAge, released>>
  BY DEF Runner, Guard, GuardVerdicts, StartJob, NoCommits, Commit, OpenPr,
     FinishJob, FailJob
<1> QED BY <1>1, <1>2, <1>3, <1>4, <1>5 DEF TicketTypeOK

LEMMA TickType == TicketTypeOK /\ Tick => TicketTypeOK'
<1> SUFFICES ASSUME TicketTypeOK, Tick PROVE TicketTypeOK'
  OBVIOUS
<1>1. labelAge' \in [Ticket -> 0..Grace]
  BY TicketAssumption DEF Tick, TicketTypeOK
<1>2. runAge' \in [Ticket -> 0..JobCap]
  BY TicketAssumption DEF Tick, TicketTypeOK
<1> QED BY <1>1, <1>2 DEF Tick, TicketTypeOK

LEMMA WorldType == TicketTypeOK /\ World => TicketTypeOK'
<1> SUFFICES ASSUME TicketTypeOK, World PROVE TicketTypeOK'
  OBVIOUS
<1>1. ASSUME NEW t \in Ticket, Merge(t) PROVE TicketTypeOK'
  BY <1>1 DEF Merge, TicketTypeOK, IssueState, PrState
<1>2. ASSUME NEW t \in Ticket, ClosePr(t) PROVE TicketTypeOK'
  BY <1>2 DEF ClosePr, TicketTypeOK, PrState
<1>3. ASSUME NEW t \in Ticket, CloseNotPlanned(t) PROVE TicketTypeOK'
  BY <1>3 DEF CloseNotPlanned, TicketTypeOK, IssueState
<1>4. ASSUME NEW t \in Ticket, Hold(t) PROVE TicketTypeOK'
  BY <1>4 DEF Hold, TicketTypeOK, Label
<1>5. ASSUME NEW t \in Ticket, Release(t) PROVE TicketTypeOK'
  BY <1>5 DEF Release, TicketTypeOK
<1>6. ASSUME NEW t \in Ticket, Unlabel(t) PROVE TicketTypeOK'
  BY <1>6 DEF Unlabel, TicketTypeOK
<1>7. ASSUME NEW t \in Ticket, HandLabel(t) PROVE TicketTypeOK'
  BY <1>7, ApplyImplementType DEF HandLabel, TicketTypeOK
<1>8. ASSUME Fix331 PROVE TicketTypeOK'
  BY <1>8 DEF Fix331, TicketTypeOK, IssueState
<1> QED BY <1>1, <1>2, <1>3, <1>4, <1>5, <1>6, <1>7, <1>8 DEF World

\* A run that is over, or that never was, does not move again.
LEMMA RunnerKeepsOver ==
  ASSUME TicketTypeOK, NEW t \in Ticket, NEW c \in Cycle, Runner(t, c),
         NEW u \in Ticket, NEW d \in Cycle, runs[u][d] \notin Live
  PROVE  runs'[u][d] = runs[u][d]
<1>1. runs[t][c] \in Live
  BY Zenon DEF Runner, Guard, GuardVerdicts, StartJob, NoCommits, Commit, OpenPr,
     FinishJob, FailJob, Live, InJob
<1>2. PICK x \in RunState : runs' = [runs EXCEPT ![t][c] = x]
  BY Zenon DEF Runner, Guard, GuardVerdicts, StartJob, NoCommits, Commit, OpenPr,
     FinishJob, FailJob, RunState
<1>3. u # t \/ d # c
  BY <1>1
<1> QED BY <1>2, <1>3 DEF TicketTypeOK

\* A labeling touches the run of no earlier cycle.
LEMMA ApplyKeepsRuns ==
  ASSUME TicketTypeOK, NEW t \in Ticket, NEW hand, ApplyImplement(t, hand),
         NEW u \in Ticket, NEW d \in 1..cycle[u]
  PROVE  runs'[u][d] = runs[u][d]
<1>1. CASE "implement" \in labels[t]
  BY <1>1 DEF ApplyImplement
<1>2. CASE "implement" \notin labels[t]
  <2>1. PICK x \in {"queued", "none"} : runs' = [runs EXCEPT ![t][cycle[t] + 1] = x]
    BY <1>2, Zenon DEF ApplyImplement
  <2>2. u # t \/ d # cycle[t] + 1
    BY TicketAssumption DEF TicketTypeOK
  <2>3. d \in Cycle /\ cycle[t] + 1 \in Cycle
    BY <1>2, TicketAssumption DEF ApplyImplement, TicketTypeOK, Cycle
  <2> QED BY <2>1, <2>2, <2>3 DEF TicketTypeOK
<1> QED BY <1>1, <1>2

\* The World changes no run of a cycle that has begun.
LEMMA WorldKeepsRuns ==
  ASSUME TicketTypeOK, World, NEW u \in Ticket, NEW d \in 1..cycle[u]
  PROVE  runs'[u][d] = runs[u][d]
<1>1. ASSUME NEW t \in Ticket, HandLabel(t) PROVE runs'[u][d] = runs[u][d]
  BY <1>1, ApplyKeepsRuns DEF HandLabel
<1>2. CASE \A t \in Ticket : ~HandLabel(t)
  BY <1>2 DEF World, Merge, ClosePr, CloseNotPlanned, Hold, Release, Unlabel, Fix331
<1> QED BY <1>1, <1>2
=============================================================================
