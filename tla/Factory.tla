------------------------------- MODULE Factory --------------------------------
(***************************************************************************)
(* The dispatcher and the reaper over one fleet.  They share no state but  *)
(* GitHub's: the dispatcher takes agent:implement for work in flight, the  *)
(* reaper decides when it no longer is, and what keeps the two from        *)
(* running a dead ticket for ever is the pairing that the reaper leaves    *)
(* behind for the dispatcher's readiness rules to read.                    *)
(***************************************************************************)
EXTENDS Reaper, Dispatcher

factoryVars == <<ticketVars, reapVars, dispVars>>

FactoryInit == TicketInit /\ ReaperInit /\ DispatcherInit

\* ReaperTick keeps the two passes short against the reaper's clock: no tick
\* falls inside either.
FactoryNext ==
  \/ ReaperStep /\ UNCHANGED dispVars
  \/ DispatcherStep /\ UNCHANGED reapVars
  \/ (\A p \in Pass : disp[p].pc = "idle") /\ ReaperTick /\ UNCHANGED dispVars
  \/ Outside /\ UNCHANGED <<reapVars, dispVars>>

FactorySpec == FactoryInit /\ [][FactoryNext]_factoryVars

-----------------------------------------------------------------------------
(* Properties                                                              *)

FactoryTypeOK == TypeOK /\ DispatcherTypeOK

\* Redispatch of a ticket that was labeled before: only after somebody let it go,
\* or with #331 closed.  Here the dispatcher's reads are as old as its pass.
RespinFree ==
  [][\A t \in Ticket : cycle'[t] > cycle[t] /\ cycle[t] > 0 =>
       t \in released' \/ (t \in bullet /\ fix331 = "completed")]_factoryVars
=============================================================================
