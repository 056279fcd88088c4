--------------------------- MODULE BlockedBySection ---------------------------
(***************************************************************************)
(* The text of a "## Blocked by" section, between its two owners:          *)
(* parseBlockedBy (scripts/factory/unblock-evaluator.mjs) reads it for the *)
(* dispatcher, and appendBlockerRef (scripts/factory/reap-evaluator.mjs)   *)
(* edits it for the reaper, line by line and with its own idea of what     *)
(* declares "None".  Readiness and DispatchPlan start from the parsed      *)
(* section; this module is about getting there.                            *)
(*                                                                         *)
(* A body is a sequence of lines, and a line is one of the kinds below:    *)
(* a bullet is written with its dash, a heading without its marks.         *)
(* A line of text that continues a bullet is taken to spoil it: the        *)
(* parenthetical annotation that would not is left out.                    *)
(***************************************************************************)
EXTENDS Naturals, SequencesExt, Readiness

CONSTANTS
  MaxLines,   \* bound: the lines of the body before the first reap
  MaxReaps    \* bound: how often the ticket is reaped

ASSUME SectionAssumption == MaxLines \in Nat /\ MaxReaps \in Nat

Bug331Ref == "-#331"                      \* PUSHED_NOTHING_BLOCKER_REF's bullet
CleanRef  == {"-#7", Bug331Ref}           \* bullets of one reference
Bullet    == CleanRef \union {"-None", "-prose"}
Prose     == {"None", "prose"}
Ends      == {"BlockedBy", "other"}        \* a level-1/2 heading ends a section
Line      == Bullet \union Prose \union Ends \union {"blank"}

-----------------------------------------------------------------------------
(* parseBlockedBy                                                          *)

\* The line of the first heading, or 0; and the line that ends its section.
Heading(body) == SelectInSeq(body, LAMBDA l : l = "BlockedBy")
SectionEnd(body) ==
  LET next == SelectInSubSeq(body, Heading(body) + 1, Len(body), LAMBDA l : l \in Ends)
  IN  IF next = 0 THEN Len(body) + 1 ELSE next
Section(body) ==
  IF Heading(body) = 0 THEN <<>>
  ELSE SubSeq(body, Heading(body) + 1, SectionEnd(body) - 1)

\* An item starts with a bullet, or with prose that does not continue an item.
Starts(s) == {i \in DOMAIN s : s[i] \in Bullet \/ (s[i] \in Prose /\ (i = 1 \/ s[i - 1] = "blank"))}
Continued(s, i) == i < Len(s) /\ s[i + 1] \in Prose

DeclaresNone(s) == \E i \in Starts(s) : s[i] \in {"None", "-None"}
ListsBullets(s) == \E i \in Starts(s) : s[i] \in Bullet \ {"-None"}

None(body) == DeclaresNone(Section(body)) /\ ~ListsBullets(Section(body))

\* A section that declares None has no edges, contradictory or not.
Edges(body) ==
  LET s == Section(body)
  IN  IF DeclaresNone(s) THEN {}
      ELSE {s[i] : i \in {j \in Starts(s) : s[j] \in CleanRef /\ ~Continued(s, j)}}

\* No section, an empty one, a contradictory one, or an item that is not a reference.
Unresolved(body) ==
  LET s == Section(body)
  IN  \/ Starts(s) = {}
      \/ DeclaresNone(s) /\ ListsBullets(s)
      \/ /\ ~DeclaresNone(s)
         /\ \E i \in Starts(s) : s[i] \notin CleanRef \/ Continued(s, i)

-----------------------------------------------------------------------------
(* appendBlockerRef                                                        *)

\* The section without its trailing blank lines.
Trimmed(s) == SubSeq(s, 1, SelectLastInSeq(s, LAMBDA l : l # "blank"))

\* A body without the section gets one at its end.
NewSection(body) ==
  (IF Trimmed(body) = <<>> THEN <<>> ELSE Append(Trimmed(body), "blank"))
    \o <<"BlockedBy", "blank", Bug331Ref, "blank">>

\* Mutant of AppendBlockerRef: the bullet goes to the end of the body.
AppendAtEnd(body) ==
  IF Bug331Ref \in Edges(body) THEN body
  ELSE IF Heading(body) = 0 THEN NewSection(body)
  ELSE body \o <<Bug331Ref>>

\* Mutant of AppendBlockerRef: the bullet replaces the section.
AppendOver(body) ==
  IF Bug331Ref \in Edges(body) THEN body
  ELSE IF Heading(body) = 0 THEN NewSection(body)
  ELSE SubSeq(body, 1, Heading(body)) \o <<Bug331Ref, "blank">>
         \o SubSeq(body, SectionEnd(body), Len(body))

\* A line of prose that declares None is replaced by the bullet; otherwise the
\* bullet comes last.  A bullet that declares None is not looked for.
AppendBlockerRef(body) ==
  LET s       == Section(body)
      none    == SelectInSeq(s, LAMBDA l : l = "None")
      section == IF none # 0 THEN ReplaceAt(s, none, Bug331Ref)
                 ELSE Append(Trimmed(s), Bug331Ref)
  IN  IF Bug331Ref \in Edges(body) THEN body
      ELSE IF Heading(body) = 0 THEN NewSection(body)
      ELSE SubSeq(body, 1, Heading(body)) \o section \o <<"blank">>
             \o SubSeq(body, SectionEnd(body), Len(body))

-----------------------------------------------------------------------------
VARIABLES
  body,      \* the ticket's body
  reaps,     \* how often it was reaped with the lost-push pairing
  blocker    \* the state of each blocker

vars == <<body, reaps, blocker>>

\* A body that nobody has reaped; the author's blocker is closed or open.
Init ==
  /\ body \in UNION {[1..n -> Line \ {Bug331Ref}] : n \in 0..MaxLines}
  /\ reaps = 0
  /\ blocker \in {[l \in CleanRef |-> IF l = Bug331Ref THEN "open" ELSE st] :
                    st \in {"open", "completed"}}

Reap ==
  /\ reaps < MaxReaps
  /\ reaps' = reaps + 1
  /\ body' = AppendBlockerRef(body)
  /\ UNCHANGED blocker

Close331 ==
  /\ blocker[Bug331Ref] = "open"
  /\ blocker' = [blocker EXCEPT ![Bug331Ref] = "completed"]
  /\ UNCHANGED <<body, reaps>>

Next == Reap \/ Close331

Spec == Init /\ [][Next]_vars

-----------------------------------------------------------------------------
(* Properties                                                              *)

VerdictNow == IsReady(FALSE, None(body), Unresolved(body), Edges(body), blocker)

\* The pairing of a lost push holds, whatever the section looked like: as long as
\* #331 is open the dispatcher declines the ticket.  Two parsers have to agree on
\* where the section ends and on what declares None.
Declined == reaps > 0 /\ blocker[Bug331Ref] = "open" => VerdictNow # "ready"

\* A decidable list of blockers stays one and gains exactly the new blocker.
ListExtended ==
  [][Reap /\ ~Unresolved(body) /\ ~None(body) =>
       /\ ~Unresolved(body')
       /\ Edges(body') = Edges(body) \union {Bug331Ref}]_vars
=============================================================================
