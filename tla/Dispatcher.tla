------------------------------ MODULE Dispatcher ------------------------------
(***************************************************************************)
(* The unblock dispatcher: scripts/factory/unblock-dispatcher.mjs, its     *)
(* dispatch pass (completion is a module of its own).  A pass reads the    *)
(* fleet repository by repository, issues before PRs; fetches one by one   *)
(* what the lists do not hold; computes the plan; and then writes the      *)
(* plan's actions in the order of the tickets.  A pass started by a close  *)
(* belongs to the repository of the closed issue, so passes can overlap    *)
(* (unblock-dispatcher.yml); Pass is the set of passes that can.           *)
(***************************************************************************)
EXTENDS DispatchPlan

CONSTANTS
  Pass,    \* passes that may overlap
  Repo,    \* the fleet's repositories, numbered in the order of the list
  RepoOf   \* RepoOf[i]: the repository of a ticket or an epic

ASSUME DispatcherAssumption ==
  /\ Repo \subseteq Nat
  /\ RepoOf \in [Ticket \union Epic -> Repo]

VARIABLES
  disp,    \* disp[p]: the pass: program counter, snapshot, and actions left
  marked   \* tickets with the dispatcher's needs-human comment

dispVars == <<disp, marked>>

NoPass == [pc |-> "idle", repos |-> {}, open |-> {}, epics |-> {}, prs |-> {},
           held |-> {}, labels |-> [t \in Ticket |-> {}], send |-> {}, flag |-> {}]

DispatcherTypeOK ==
  /\ disp \in [Pass -> [pc : {"idle", "issues", "prs", "plan", "write", "comment"},
                        repos : SUBSET Repo, open : SUBSET Ticket, epics : SUBSET Epic,
                        prs : SUBSET Ticket, held : SUBSET Ticket, labels : [Ticket -> SUBSET Label],
                        send : SUBSET Ticket, flag : SUBSET Ticket]]
  /\ marked \in SUBSET Ticket

DispatcherInit ==
  /\ disp = [p \in Pass |-> NoPass]
  /\ marked = {}

First(S) == CHOOSE x \in S : \A y \in S : x <= y

-----------------------------------------------------------------------------
(* readFleet                                                               *)

StartPass(p) ==
  /\ disp[p].pc = "idle"
  /\ disp' = [disp EXCEPT ![p].pc = "issues", ![p].repos = Repo]
  /\ UNCHANGED <<ticketVars, marked>>

\* Mutant of ListIssues: the epics are taken for tickets too.
ListIssuesAll(p) ==
  /\ disp[p].pc = "issues"
  /\ LET here == {i \in Ticket \union Epic : RepoOf[i] = First(disp[p].repos)}
     IN  disp' = [disp EXCEPT ![p].pc = "prs", ![p].open = @ \union here,
                       ![p].held = @ \union (bullet \intersect here),
                       ![p].epics = @ \union (Epic \intersect here),
                       ![p].labels = [t \in Ticket |-> IF t \in here THEN labels[t] ELSE @[t]]]
  /\ UNCHANGED <<ticketVars, marked>>

ListIssues(p) ==
  /\ disp[p].pc = "issues"
  /\ LET here == {i \in Ticket \union Epic : RepoOf[i] = First(disp[p].repos)}
     IN  disp' = [disp EXCEPT ![p].pc = "prs",
                       ![p].open = @ \union {t \in Ticket \intersect here : issue[t] = "open"},
                       ![p].held = @ \union (bullet \intersect here),
                       ![p].epics = @ \union (Epic \intersect here),
                       ![p].labels = [t \in Ticket |-> IF t \in here THEN labels[t] ELSE @[t]]]
  /\ UNCHANGED <<ticketVars, marked>>

\* An issue list that cannot be read counts as empty.
IssuesUnreadable(p) ==
  /\ "issues" \in Faults
  /\ disp[p].pc = "issues"
  /\ disp' = [disp EXCEPT ![p].pc = "prs"]
  /\ UNCHANGED <<ticketVars, marked>>

\* So does a PR list.
ListAgentPrs(p) ==
  /\ disp[p].pc = "prs"
  /\ LET r    == First(disp[p].repos)
         here == {t \in Ticket : RepoOf[t] = r /\ pr[t] = "open"}
         left == disp[p].repos \ {r}
     IN  \E seen \in {here} \union (IF "prs" \in Faults THEN {{}} ELSE {}) :
           disp' = [disp EXCEPT ![p].pc = IF left = {} THEN "plan" ELSE "issues",
                                ![p].repos = left, ![p].prs = @ \union seen]
  /\ UNCHANGED <<ticketVars, marked>>

-----------------------------------------------------------------------------
(* The single-issue reads and planDispatch.                                *)

\* The snapshot as the plan sees it.  An issue of the lists is open; any other is
\* fetched, and one that cannot be fetched stays unknown, or unattributed.
Snapshot(p, failed) ==
  LET seen == disp[p]
  IN  [open |-> seen.open, epics |-> seen.epics, prs |-> seen.prs, labels |-> seen.labels,
       linked |-> seen.prs \ failed,
       refs |-> [t \in Ticket |-> BlockedBy[t] \union
                                   (IF t \in seen.held THEN {Bug331} ELSE {})],
       state |-> [i \in Ticket \union {Bug331} |->
                    IF i \in seen.open THEN "open"
                    ELSE IF i \in failed THEN "unknown"
                    ELSE IF i = Bug331 THEN fix331 ELSE issue[i]]]

\* The plan when the single-issue reads of failed do not come back.
PlanFor(p, failed) ==
  /\ disp[p].pc = "plan"
  /\ LET S == Snapshot(p, failed)
     IN  \E D \in SUBSET ReadyChildren(S) :
           /\ IsDispatch(S, D)
           /\ disp' = [disp EXCEPT ![p] =
                         IF D \union FlaggedChildren(S) = {} THEN NoPass
                         ELSE [NoPass EXCEPT !.pc = "write", !.send = D,
                                             !.flag = FlaggedChildren(S)]]
  /\ UNCHANGED <<ticketVars, marked>>

Plan(p) ==
  \E failed \in SUBSET (IF "rest" \in Faults THEN Ticket \union {Bug331} ELSE {}) :
    PlanFor(p, failed)

-----------------------------------------------------------------------------
(* The writes, each caught on its own by runWrite.                         *)

Turn(p) == First(disp[p].send \union disp[p].flag)

NextAction(p) ==
  LET left == (disp[p].send \union disp[p].flag) \ {Turn(p)}
  IN  IF left = {} THEN NoPass
      ELSE [disp[p] EXCEPT !.pc = "write", !.send = @ \intersect left,
                           !.flag = @ \intersect left]

\* The plan is minutes old: nothing is read again before the label is added.
Dispatch(p) ==
  /\ disp[p].pc = "write"
  /\ Turn(p) \in disp[p].send
  /\ ApplyImplement(Turn(p), FALSE)
  /\ disp' = [disp EXCEPT ![p] = NextAction(p)]
  /\ UNCHANGED <<issue, bullet, fix331, runAge, branch, claim, pr, marked>>

\* A ticket is flagged once in its life: the marker comment ends its turn.
AlreadyFlagged(p) ==
  /\ disp[p].pc = "write"
  /\ Turn(p) \in disp[p].flag \intersect marked
  /\ disp' = [disp EXCEPT ![p] = NextAction(p)]
  /\ UNCHANGED <<ticketVars, marked>>

\* Comments that cannot be read hold no marker.
Flag(p) ==
  /\ disp[p].pc = "write"
  /\ Turn(p) \in disp[p].flag
  /\ Turn(p) \in marked => "ticket" \in Faults
  /\ labels' = [labels EXCEPT ![Turn(p)] = @ \union {"human"}]
  /\ disp' = [disp EXCEPT ![p].pc = "comment"]
  /\ UNCHANGED <<issue, bullet, fix331, cycle, labelAge, runs, runAge, branch, claim, pr,
                 released, marked>>

FlagComment(p) ==
  /\ disp[p].pc = "comment"
  /\ marked' = marked \union {Turn(p)}
  /\ disp' = [disp EXCEPT ![p] = NextAction(p)]
  /\ UNCHANGED ticketVars

DispatchWriteFails(p) ==
  /\ "write" \in Faults
  /\ disp[p].pc \in {"write", "comment"}
  /\ disp' = [disp EXCEPT ![p] = NextAction(p)]
  /\ UNCHANGED <<ticketVars, marked>>

\* The pass is cut off; no later pass knows how far it got.
PassKilled(p) ==
  /\ "killed" \in Faults
  /\ disp[p].pc # "idle"
  /\ disp' = [disp EXCEPT ![p] = NoPass]
  /\ UNCHANGED <<ticketVars, marked>>

DispatcherStep ==
  \E p \in Pass :
    \/ StartPass(p)
    \/ ListIssues(p)
    \/ IssuesUnreadable(p)
    \/ ListAgentPrs(p)
    \/ Plan(p)
    \/ Dispatch(p)
    \/ AlreadyFlagged(p)
    \/ Flag(p)
    \/ FlagComment(p)
    \/ DispatchWriteFails(p)
    \/ PassKilled(p)

Beside ==
  \/ World
  \/ \E t \in Ticket, c \in Cycle : Runner(t, c)

fleetVars == <<ticketVars, dispVars>>

FleetInit == TicketInit /\ DispatcherInit

FleetNext == DispatcherStep \/ (Beside /\ UNCHANGED dispVars)

\* A step that ends a pass as its timeout would, and is its own last step.
EndsByItself(p) == Plan(p) \/ AlreadyFlagged(p) \/ FlagComment(p) \/ DispatchWriteFails(p)

\* The cron starts passes for ever, a pass ends, an outage does too: now and then a
\* pass reads all the epics and every issue it asks for, a write that keeps being
\* tried succeeds, and in the end no pass is cut off any more.  A run ends (its job
\* has a cap).
FleetFairness ==
  /\ \A p \in Pass :
       /\ WF_fleetVars(StartPass(p))
       /\ SF_fleetVars(ListIssues(p))
       /\ WF_fleetVars(ListAgentPrs(p))
       /\ WF_fleetVars(Plan(p))
       /\ SF_fleetVars(disp[p].epics = Epic /\ PlanFor(p, {}))
       /\ WF_fleetVars(AlreadyFlagged(p))
       /\ SF_fleetVars(Dispatch(p))
       /\ SF_fleetVars(Flag(p))
       /\ WF_fleetVars(FlagComment(p) \/ DispatchWriteFails(p))
  /\ WF_fleetVars((\E t \in Ticket, c \in Cycle : Runner(t, c)) /\ UNCHANGED dispVars)
  /\ <>[][\A p \in Pass : PassKilled(p) => EndsByItself(p)]_fleetVars

FleetSpec == FleetInit /\ [][FleetNext]_fleetVars /\ FleetFairness

-----------------------------------------------------------------------------
(* Properties                                                              *)

FleetTypeOK == TicketTypeOK /\ DispatcherTypeOK

\* A run that may still open a PR, or a PR that is open.
Working(t) == pr[t] = "open" \/ \E c \in Cycle : runs[t][c] \in Live

\* Serialization: no two open tickets of an epic are being worked on.  The evidence
\* a pass has (labels, then PRs) is spread over several reads and is older than
\* its writes; runs move on between any two of them.
OneInFlight ==
  \A e \in Epic : Cardinality({t \in Ticket :
    issue[t] = "open" /\ e \in PartOf[t] /\ Working(t)}) <= 1

\* A ticket is labeled only when every blocker of it is closed as completed and
\* every bullet of it is a clean reference, however old the pass's reads are.
OnlyUnblocked ==
  [][\A t \in Ticket : cycle'[t] > cycle[t] =>
       /\ \A b \in BlockedBy[t] : issue[b] = "completed"
       /\ t \notin Unresolvable]_fleetVars

\* How far a ticket is, from the label, the runs and the PR.
LaneOf(t) ==
  IF issue[t] # "open" THEN issue[t]
  ELSE IF Working(t) THEN "working"
  ELSE IF "implement" \in labels[t] THEN "taken"
  ELSE "waiting"

Stage == [t \in Ticket |-> LaneOf(t)]

Lanes == INSTANCE EpicLanes WITH stage <- Stage

\* The passes, with their snapshots, their faults and everything that happens between
\* their reads and their writes, are seen from outside as EpicLanes: tickets are taken
\* one at a time per epic and in the order of their blockers, and none goes back to
\* waiting under a run (planDispatch's serialization, and the label that stands for it).
LanesKept == Lanes!Spec

Eligible(t) ==
  /\ issue[t] = "open"
  /\ labels[t] = {}
  /\ PartOf[t] # {}
  /\ ~Working(t)

\* A ready ticket whose epics are idle: no label, run or PR in any of them.
Takeable(t) ==
  /\ Eligible(t)
  /\ t \notin Unresolvable
  /\ \A b \in BlockedBy[t] : issue[b] = "completed"
  /\ \A u \in Ticket : PartOf[u] \intersect PartOf[t] # {} =>
       ~Working(u) /\ ~(issue[u] = "open" /\ "implement" \in labels[u])

\* No dropped event wedges an epic: a ticket that could be taken does not stay so.
IdleEpicResumes == \A t \in Ticket : Takeable(t) ~> ~Takeable(t)
=============================================================================
