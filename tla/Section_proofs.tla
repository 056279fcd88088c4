---------------------------- MODULE Section_proofs -----------------------------
(***************************************************************************)
(* Proofs about BlockedBySection, for bodies of every length and every     *)
(* number of reaps.  Two results:                                          *)
(*   PairingDeclines  Declined, from the invariant Paired: a section that  *)
(*                    holds the bullet of #331 is a guard, for it cannot   *)
(*                    be decided or it has the edge;                       *)
(*   ListsExtended    ListExtended: where nothing but clean references     *)
(*                    starts an item there is no prose, so the edit comes  *)
(*                    last and takes nothing away.                         *)
(* Both rest on SectionSplice: what the reaper puts between the heading    *)
(* and the next one is what the dispatcher reads there.                    *)
(***************************************************************************)
EXTENDS BlockedBySection, SequenceTheorems, WellFoundedInduction, TLAPS

\* A set of numbers has a least member, and a bounded one a greatest.
LEMMA LeastOf ==
  ASSUME NEW T, T \subseteq Nat, T # {}
  PROVE  Min(T) \in T /\ \A y \in T : Min(T) <= y
<1> DEFINE R == {ss \in Nat \X Nat : ss[1] < ss[2]}
<1>1. IsWellFoundedOn(R, Nat)
  BY NatLessThanWellFounded DEF OpToRel
<1>2. PICK x \in T : \A y \in T : ~ (<<y, x>> \in R)
  BY <1>1, WFMin
<1>3. ASSUME NEW y \in T PROVE x <= y
  <2>1. x \in Nat /\ y \in Nat /\ <<y, x>> \in Nat \X Nat
    OBVIOUS
  <2>2. ~ (y < x)
    BY <1>2, <2>1
  <2> QED BY <2>1, <2>2
<1>4. \E x0 \in T : \A y \in T : x0 <= y
  BY <1>3
<1> QED BY <1>4 DEF Min

LEMMA GreatestOf ==
  ASSUME NEW T, NEW n \in Nat, T \subseteq 0..n, T # {}
  PROVE  Max(T) \in T /\ \A y \in T : Max(T) >= y
<1> DEFINE D == {n - x : x \in T}
<1>1. D \subseteq Nat
  OBVIOUS
<1>2. D # {}
  OBVIOUS
<1>3. PICK x \in T : Min(D) = n - x
  BY <1>1, <1>2, LeastOf
<1>4. ASSUME NEW y \in T PROVE x >= y
  <2>1. n - y \in D /\ x \in Int /\ y \in Int
    OBVIOUS
  <2>2. n - x <= n - y
    BY <1>1, <1>2, <1>3, <2>1, LeastOf
  <2> QED BY <2>1, <2>2
<1>5. \E x0 \in T : \A y \in T : x0 >= y
  BY <1>4
<1> QED BY <1>5 DEF Max

-----------------------------------------------------------------------------
(* Where the section is                                                    *)

\* What Heading finds: the first line of the kind, or there is none.
LEMMA HeadingIs ==
  ASSUME NEW b \in Seq(Line)
  PROVE  /\ Heading(b) \in 0..Len(b)
         /\ Heading(b) = 0 => \A i \in 1..Len(b) : b[i] # "BlockedBy"
         /\ Heading(b) # 0 => /\ b[Heading(b)] = "BlockedBy"
                              /\ \A i \in 1..(Heading(b) - 1) : b[i] # "BlockedBy"
<1> DEFINE I == {i \in 1..Len(b) : b[i] = "BlockedBy"}
<1>1. Heading(b) = IF I # {} THEN Min(I) ELSE 0
  BY DEF Heading, SelectInSeq
<1>2. Len(b) \in Nat
  BY LenProperties
<1>3. I \subseteq Nat
  BY <1>2
<1>4. CASE I = {}
  BY <1>1, <1>2, <1>4
<1>5. CASE I # {}
  <2>1. Heading(b) \in I /\ \A j \in I : Heading(b) <= j
    BY <1>1, <1>3, <1>5, LeastOf
  <2>2. ASSUME NEW i \in 1..(Heading(b) - 1) PROVE b[i] # "BlockedBy"
    <3>1. i \in 1..Len(b) /\ ~ (Heading(b) <= i)
      BY <1>2, <2>1
    <3> QED BY <2>1, <3>1
  <2> QED BY <1>2, <2>1, <2>2
<1> QED BY <1>4, <1>5

\* There is one such place.
LEMMA HeadingAt ==
  ASSUME NEW b \in Seq(Line), NEW h \in 1..Len(b), b[h] = "BlockedBy",
         \A i \in 1..(h - 1) : b[i] # "BlockedBy"
  PROVE  Heading(b) = h
<1>1. Len(b) \in Nat /\ Heading(b) \in 0..Len(b)
  BY LenProperties, HeadingIs
<1>2. Heading(b) # 0
  BY HeadingIs
<1>3. Heading(b) \in 1..(h - 1) \/ h \in 1..(Heading(b) - 1) \/ Heading(b) = h
  BY <1>1, <1>2
<1> QED BY <1>2, <1>3, HeadingIs

\* What SectionEnd finds: the first heading after the section's own, or the end.
LEMMA SectionEndIs ==
  ASSUME NEW b \in Seq(Line), Heading(b) # 0
  PROVE  /\ SectionEnd(b) \in (Heading(b) + 1)..(Len(b) + 1)
         /\ SectionEnd(b) <= Len(b) => b[SectionEnd(b)] \in Ends
         /\ \A i \in (Heading(b) + 1)..(SectionEnd(b) - 1) : b[i] \notin Ends
<1> DEFINE h == Heading(b)
           I == {i \in (h + 1)..Len(b) : b[i] \in Ends}
           next == IF I # {} THEN Min(I) ELSE 0
<1>1. SectionEnd(b) = IF next = 0 THEN Len(b) + 1 ELSE next
  BY DEF SectionEnd, SelectInSubSeq
<1>2. Len(b) \in Nat /\ h \in 1..Len(b)
  BY LenProperties, HeadingIs
<1> HIDE DEF h
<1>3. I \subseteq Nat
  BY <1>2
<1>4. CASE I = {}
  BY <1>1, <1>2, <1>4 DEF h
<1>5. CASE I # {}
  <2>1. next \in I /\ \A j \in I : next <= j
    BY <1>3, <1>5, LeastOf
  <2>2. SectionEnd(b) = next
    BY <1>1, <1>2, <2>1
  <2>3. ASSUME NEW i \in (h + 1)..(next - 1) PROVE b[i] \notin Ends
    <3>1. i \in (h + 1)..Len(b) /\ ~ (next <= i)
      BY <1>2, <2>1
    <3> SUFFICES ASSUME b[i] \in Ends PROVE FALSE
      OBVIOUS
    <3>2. i \in I
      BY <3>1
    <3> HIDE DEF next, I
    <3> QED BY <2>1, <3>1, <3>2
  <2>4. next \in (h + 1)..Len(b) /\ b[next] \in Ends
    <3> HIDE DEF next
    <3> QED BY <2>1
  <2> HIDE DEF I, next
  <2>5. next \in (h + 1)..(Len(b) + 1)
    BY <1>2, <2>4
  <2> QED BY <2>2, <2>3, <2>4, <2>5 DEF h
<1> QED BY <1>4, <1>5

LEMMA SectionEndAt ==
  ASSUME NEW b \in Seq(Line), Heading(b) # 0,
         NEW e \in (Heading(b) + 1)..(Len(b) + 1), e <= Len(b) => b[e] \in Ends,
         \A i \in (Heading(b) + 1)..(e - 1) : b[i] \notin Ends
  PROVE  SectionEnd(b) = e
<1>1. /\ Len(b) \in Nat /\ Heading(b) \in 0..Len(b)
      /\ SectionEnd(b) \in (Heading(b) + 1)..(Len(b) + 1)
  BY LenProperties, HeadingIs, SectionEndIs
<1>2. CASE SectionEnd(b) < e
  <2>1. SectionEnd(b) \in (Heading(b) + 1)..(e - 1) /\ SectionEnd(b) <= Len(b)
    BY <1>1, <1>2
  <2> QED BY <2>1, SectionEndIs
<1>3. CASE e < SectionEnd(b)
  <2>1. e \in (Heading(b) + 1)..(SectionEnd(b) - 1) /\ e <= Len(b)
    BY <1>1, <1>3
  <2> QED BY <2>1, SectionEndIs
<1> QED BY <1>1, <1>2, <1>3

\* The section is what stands between the two.
LEMMA SectionIs ==
  ASSUME NEW b \in Seq(Line), Heading(b) # 0
  PROVE  /\ Section(b) \in Seq(Line \ Ends)
         /\ Len(Section(b)) = SectionEnd(b) - Heading(b) - 1
         /\ \A i \in 1..Len(Section(b)) : Section(b)[i] = b[Heading(b) + i]
<1>1. /\ Len(b) \in Nat /\ Heading(b) \in 1..Len(b)
      /\ SectionEnd(b) \in (Heading(b) + 1)..(Len(b) + 1)
  BY LenProperties, HeadingIs, SectionEndIs
<1>2. Section(b) = SubSeq(b, Heading(b) + 1, SectionEnd(b) - 1)
  BY DEF Section
<1>3. \A i \in (Heading(b) + 1)..(SectionEnd(b) - 1) : b[i] \in Line \ Ends
  BY <1>1, SectionEndIs, ElementOfSeq
<1>4. /\ Section(b) \in Seq(Line \ Ends)
      /\ Len(Section(b)) = IF Heading(b) + 1 <= SectionEnd(b) - 1
                           THEN SectionEnd(b) - 1 - (Heading(b) + 1) + 1 ELSE 0
      /\ \A i \in 1..(SectionEnd(b) - 1 - (Heading(b) + 1) + 1) :
           Section(b)[i] = b[Heading(b) + 1 + i - 1]
  BY <1>1, <1>2, <1>3, SubSeqProperties
<1>5. Len(Section(b)) = SectionEnd(b) - Heading(b) - 1
  BY <1>1, <1>4
<1>6. ASSUME NEW i \in 1..Len(Section(b)) PROVE Section(b)[i] = b[Heading(b) + i]
  <2>1. /\ i \in 1..(SectionEnd(b) - 1 - (Heading(b) + 1) + 1)
        /\ Heading(b) + 1 + i - 1 = Heading(b) + i
    BY <1>1, <1>5
  <2> QED BY <1>4, <2>1
<1> QED BY <1>4, <1>5, <1>6

\* Lines without a heading, put in the place of the section, are the new section.
LEMMA SectionSplice ==
  ASSUME NEW b \in Seq(Line), Heading(b) # 0, NEW mid \in Seq(Line \ Ends)
  PROVE  LET new == SubSeq(b, 1, Heading(b)) \o mid \o SubSeq(b, SectionEnd(b), Len(b))
         IN  new \in Seq(Line) /\ Section(new) = mid
<1> DEFINE h == Heading(b)
           e == SectionEnd(b)
           n == Len(b)
           m == Len(mid)
           A == SubSeq(b, 1, h)
           C == SubSeq(b, e, n)
           AM == A \o mid
           new == AM \o C
<1>1. /\ n \in Nat /\ h \in 1..n /\ e \in (h + 1)..(n + 1)
      /\ m \in Nat /\ mid \in Seq(Line)
  BY LenProperties, HeadingIs, SectionEndIs, SeqMonotonic
<1>2. \A i \in 1..n : b[i] \in Line
  BY ElementOfSeq
<1>3. b[h] = "BlockedBy" /\ \A i \in 1..(h - 1) : b[i] # "BlockedBy"
  BY <1>1, HeadingIs
<1>4. e <= n => b[e] \in Ends
  BY SectionEndIs
<1>5. \A i \in 1..m : mid[i] \notin Ends
  BY ElementOfSeq
<1> HIDE DEF h, e, n, m
<1>6. A \in Seq(Line) /\ Len(A) = h /\ \A i \in 1..h : A[i] = b[i]
  <2>1. \A i \in 1..h : b[i] \in Line
    BY <1>1, <1>2
  <2>2. /\ A \in Seq(Line) /\ Len(A) = IF 1 <= h THEN h - 1 + 1 ELSE 0
        /\ \A i \in 1..(h - 1 + 1) : A[i] = b[1 + i - 1]
    BY <1>1, <2>1, SubSeqProperties
  <2> QED BY <1>1, <2>2
<1>7. /\ C \in Seq(Line) /\ Len(C) = n - e + 1
      /\ n >= e => C[1] = b[e]
  <2>1. \A i \in e..n : b[i] \in Line
    BY <1>1, <1>2
  <2>2. /\ C \in Seq(Line) /\ Len(C) = IF e <= n THEN n - e + 1 ELSE 0
        /\ \A i \in 1..(n - e + 1) : C[i] = b[e + i - 1]
    BY <1>1, <2>1, SubSeqProperties
  <2> QED BY <1>1, <2>2
<1> HIDE DEF A, C
<1>8. /\ AM \in Seq(Line) /\ Len(AM) = h + m
      /\ \A i \in 1..(h + m) : AM[i] = IF i <= h THEN A[i] ELSE mid[i - h]
  BY <1>1, <1>6, ConcatProperties DEF m
<1> HIDE DEF AM
<1>9. /\ new \in Seq(Line) /\ Len(new) = h + m + (n - e + 1)
      /\ \A i \in 1..(h + m + (n - e + 1)) :
           new[i] = IF i <= h + m THEN AM[i] ELSE C[i - (h + m)]
  <2>1. /\ new \in Seq(Line) /\ Len(new) = Len(AM) + Len(C)
        /\ \A i \in 1..Len(AM) + Len(C) :
             new[i] = IF i <= Len(AM) THEN AM[i] ELSE C[i - Len(AM)]
    BY <1>7, <1>8, ConcatProperties
  <2> QED BY <1>7, <1>8, <2>1
<1>10. \A i \in 1..h : new[i] = b[i]
  BY <1>1, <1>6, <1>8, <1>9
<1>11. \A i \in 1..m : new[h + i] = mid[i]
  <2> TAKE i \in 1..m
  <2>1. /\ h + i \in 1..(h + m) /\ h + i \in 1..(h + m + (n - e + 1))
        /\ h + i <= h + m /\ ~ (h + i <= h) /\ (h + i) - h = i
    BY <1>1
  <2> QED BY <1>8, <1>9, <2>1
<1>12. n >= e => new[h + m + 1] = b[e]
  <2> HAVE n >= e
  <2>1. /\ h + m + 1 \in 1..(h + m + (n - e + 1)) /\ ~ (h + m + 1 <= h + m)
        /\ h + m + 1 - (h + m) = 1
    BY <1>1
  <2>2. new[h + m + 1] = C[h + m + 1 - (h + m)]
    BY <1>1, <1>9, <2>1
  <2> QED BY <1>1, <1>7, <2>1, <2>2
<1> HIDE DEF new
<1>13. Heading(new) = h
  <2>1. h \in 1..Len(new) /\ new[h] = "BlockedBy"
    BY <1>1, <1>3, <1>9, <1>10
  <2>2. \A i \in 1..(h - 1) : new[i] # "BlockedBy"
    BY <1>1, <1>3, <1>10
  <2> QED BY <1>9, <2>1, <2>2, HeadingAt
<1>14. SectionEnd(new) = h + m + 1
  <2> DEFINE k == h + m + 1
  <2>1. /\ Heading(new) # 0 /\ k \in (Heading(new) + 1)..(Len(new) + 1)
        /\ k <= Len(new) => new[k] \in Ends
    BY <1>1, <1>4, <1>9, <1>12, <1>13
  <2>2. ASSUME NEW i \in (Heading(new) + 1)..(k - 1) PROVE new[i] \notin Ends
    <3>1. i - h \in 1..m /\ h + (i - h) = i
      BY <1>1, <1>13
    <3> QED BY <1>5, <1>11, <3>1
  <2> HIDE DEF k
  <2>3. SectionEnd(new) = k
    BY <1>9, <2>1, <2>2, SectionEndAt
  <2> QED BY <2>3 DEF k
<1>15. /\ Section(new) \in Seq(Line \ Ends) /\ Len(Section(new)) = m
       /\ \A i \in 1..m : Section(new)[i] = new[h + i]
  <2>1. Heading(new) # 0 /\ SectionEnd(new) - Heading(new) - 1 = m
    BY <1>1, <1>13, <1>14
  <2>2. /\ Section(new) \in Seq(Line \ Ends) /\ Len(Section(new)) = m
        /\ \A i \in 1..Len(Section(new)) : Section(new)[i] = new[Heading(new) + i]
    BY <1>9, <2>1, SectionIs
  <2> QED BY <1>13, <2>2
<1>16. Section(new) = mid
  BY <1>11, <1>15, SeqEqual DEF m
<1> QED BY <1>9, <1>16 DEF new, AM, A, C, h, e, n

-----------------------------------------------------------------------------
(* What the reaper writes                                                  *)

\* Trimmed keeps every line that is not blank, in its place.
LEMMA TrimmedIs ==
  ASSUME NEW S, NEW s \in Seq(S)
  PROVE  /\ Trimmed(s) \in Seq(S)
         /\ Len(Trimmed(s)) \in 0..Len(s)
         /\ \A i \in 1..Len(Trimmed(s)) : Trimmed(s)[i] = s[i]
         /\ \A i \in 1..Len(s) : s[i] # "blank" => i <= Len(Trimmed(s))
<1> DEFINE I == {i \in 1..Len(s) : s[i] # "blank"}
           k == IF I # {} THEN Max(I) ELSE 0
<1>1. Trimmed(s) = SubSeq(s, 1, k)
  BY DEF Trimmed, SelectLastInSeq
<1>2. Len(s) \in Nat
  BY LenProperties
<1>3. k \in 0..Len(s) /\ \A i \in I : i <= k
  <2>1. CASE I = {}
    BY <1>2, <2>1
  <2>2. CASE I # {}
    <3>1. I \subseteq 0..Len(s)
      BY <1>2
    <3>2. k \in I /\ \A i \in I : k >= i
      BY <1>2, <2>2, <3>1, GreatestOf
    <3> QED BY <1>2, <3>1, <3>2
  <2> QED BY <2>1, <2>2
<1> HIDE DEF k
<1>4. \A i \in 1..k : s[i] \in S
  BY <1>2, <1>3, ElementOfSeq
<1>5. /\ Trimmed(s) \in Seq(S)
      /\ Len(Trimmed(s)) = IF 1 <= k THEN k - 1 + 1 ELSE 0
      /\ \A i \in 1..(k - 1 + 1) : Trimmed(s)[i] = s[1 + i - 1]
  BY <1>1, <1>2, <1>3, <1>4, SubSeqProperties
<1>6. Len(Trimmed(s)) = k
  BY <1>2, <1>3, <1>5
<1> QED BY <1>2, <1>3, <1>5, <1>6

\* A body without the section gets one that holds the bullet.
LEMMA NewSectionIs ==
  ASSUME NEW b \in Seq(Line), Heading(b) = 0
  PROVE  /\ NewSection(b) \in Seq(Line)
         /\ Section(NewSection(b)) \in Seq(Line \ Ends)
         /\ \E j \in 1..Len(Section(NewSection(b))) : Section(NewSection(b))[j] = Bug331Ref
<1> DEFINE T == IF Trimmed(b) = <<>> THEN <<>> ELSE Append(Trimmed(b), "blank")
           Q == <<"BlockedBy", "blank", Bug331Ref, "blank">>
           new == T \o Q
           k == Len(T)
<1>1. NewSection(b) = new
  BY DEF NewSection
<1>2. "blank" \in Line /\ "BlockedBy" \in Line /\ Bug331Ref \in Line
  BY DEF Line, Ends, Bullet, CleanRef
<1>3. T \in Seq(Line) /\ \A i \in 1..Len(T) : T[i] # "BlockedBy"
  <2>1. /\ Trimmed(b) \in Seq(Line) /\ Len(Trimmed(b)) \in 0..Len(b)
        /\ \A i \in 1..Len(Trimmed(b)) : Trimmed(b)[i] # "BlockedBy"
    <3>1. Len(b) \in Nat /\ \A i \in 1..Len(b) : b[i] # "BlockedBy"
      BY LenProperties, HeadingIs
    <3> QED BY <3>1, TrimmedIs
  <2>2. CASE Trimmed(b) = <<>>
    BY <2>2
  <2>3. CASE Trimmed(b) # <<>>
    <3>1. T = Append(Trimmed(b), "blank")
      BY <2>3
    <3> HIDE DEF T
    <3>2. /\ T \in Seq(Line) /\ Len(T) = Len(Trimmed(b)) + 1
          /\ \A i \in 1..Len(Trimmed(b)) : T[i] = Trimmed(b)[i]
          /\ T[Len(Trimmed(b)) + 1] = "blank"
      BY <1>2, <2>1, <3>1, AppendProperties
    <3>3. Len(Trimmed(b)) \in Nat
      BY <2>1, LenProperties
    <3> QED BY <2>1, <3>2, <3>3
  <2> QED BY <2>2, <2>3
<1>4. /\ Q \in Seq(Line) /\ Len(Q) = 4
      /\ Q[1] = "BlockedBy" /\ Q[2] = "blank" /\ Q[3] = Bug331Ref /\ Q[4] = "blank"
  BY <1>2
<1> HIDE DEF T, Q
<1>5. k \in Nat
  BY <1>3, LenProperties
<1>6. /\ new \in Seq(Line) /\ Len(new) = k + 4
      /\ \A i \in 1..k + 4 : new[i] = IF i <= k THEN T[i] ELSE Q[i - k]
  <2>1. /\ new \in Seq(Line) /\ Len(new) = Len(T) + Len(Q)
        /\ \A i \in 1..Len(T) + Len(Q) : new[i] = IF i <= Len(T) THEN T[i] ELSE Q[i - Len(T)]
    <3>1. T \in Seq(Line) /\ Q \in Seq(Line)
      BY <1>3, <1>4
    <3> HIDE DEF k
    <3> QED BY ONLY <3>1, ConcatProperties
  <2> HIDE DEF new
  <2>2. Len(T) + Len(Q) = k + 4
    BY <1>4
  <2> QED BY <2>1, <2>2
<1> HIDE DEF new, k
<1>7. /\ new[k + 1] = "BlockedBy" /\ new[k + 2] = "blank"
      /\ new[k + 3] = Bug331Ref /\ new[k + 4] = "blank"
      /\ \A i \in 1..k : new[i] # "BlockedBy"
  <2>1. \A i \in 1..4 : k + i \in 1..k + 4 /\ ~ (k + i <= k) /\ (k + i) - k = i
    BY <1>5
  <2>2. \A i \in 1..4 : new[k + i] = Q[i]
    BY <1>5, <1>6, <2>1
  <2>3. \A i \in 1..k : new[i] = T[i]
    BY <1>5, <1>6
  <2> QED BY <1>3, <1>4, <2>2, <2>3 DEF k
<1>8. Heading(new) = k + 1
  <2> DEFINE h == k + 1
  <2>1. h \in 1..Len(new) /\ \A i \in 1..(h - 1) : new[i] # "BlockedBy"
    BY <1>5, <1>6, <1>7
  <2>2. new[h] = "BlockedBy"
    BY <1>7
  <2> HIDE DEF h
  <2>3. Heading(new) = h
    BY <1>6, <2>1, <2>2, HeadingAt
  <2> QED BY <2>3 DEF h
<1>9. SectionEnd(new) = k + 5
  <2> DEFINE e == k + 5
  <2>1. Heading(new) # 0 /\ e \in (Heading(new) + 1)..(Len(new) + 1) /\ ~ (e <= Len(new))
    BY <1>5, <1>6, <1>8
  <2>2. ASSUME NEW i \in (Heading(new) + 1)..(e - 1) PROVE new[i] \notin Ends
    <3>1. i = k + 2 \/ i = k + 3 \/ i = k + 4
      BY <1>5, <1>8
    <3> QED BY <1>7, <3>1 DEF Ends, Bug331Ref
  <2> HIDE DEF e
  <2>3. SectionEnd(new) = e
    BY <1>6, <2>1, <2>2, SectionEndAt
  <2> QED BY <2>3 DEF e
<1>10. /\ Section(new) \in Seq(Line \ Ends) /\ Len(Section(new)) = 3
       /\ Section(new)[2] = Bug331Ref
  <2>1. Heading(new) # 0 /\ SectionEnd(new) - Heading(new) - 1 = 3
    BY <1>5, <1>8, <1>9
  <2>2. /\ Section(new) \in Seq(Line \ Ends) /\ Len(Section(new)) = 3
        /\ \A i \in 1..Len(Section(new)) : Section(new)[i] = new[Heading(new) + i]
    BY <1>6, <2>1, SectionIs
  <2>3. Section(new)[2] = new[k + 1 + 2] /\ k + 1 + 2 = k + 3
    BY <1>5, <1>8, <2>2
  <2> QED BY <1>7, <2>2, <2>3
<1> QED BY <1>1, <1>6, <1>10

\* Where a section holds the bullet, the dispatcher has a reason to decline the ticket:
\* a section that cannot be decided, or the edge.
Guarded(b) == ~None(b) /\ (Unresolved(b) \/ Bug331Ref \in Edges(b))

LEMMA ListedIsGuarded ==
  ASSUME NEW b, NEW S, Section(b) \in Seq(S), NEW j \in 1..Len(Section(b)),
         Section(b)[j] = Bug331Ref
  PROVE  Guarded(b)
<1> DEFINE s == Section(b)
<1>1. j \in DOMAIN s /\ DOMAIN s = 1..Len(s)
  BY LenProperties
<1>2. j \in Starts(s) /\ s[j] \in CleanRef /\ s[j] \in Bullet \ {"-None"}
  BY <1>1 DEF Starts, Bullet, CleanRef, Bug331Ref
<1>3. ListsBullets(s)
  BY <1>2 DEF ListsBullets
<1>4. CASE DeclaresNone(s)
  BY <1>3, <1>4 DEF Guarded, None, Unresolved
<1>5. CASE ~DeclaresNone(s) /\ Continued(s, j)
  BY <1>2, <1>5 DEF Guarded, None, Unresolved
<1>6. CASE ~DeclaresNone(s) /\ ~Continued(s, j)
  BY <1>2, <1>6 DEF Guarded, None, Edges
<1> QED BY <1>4, <1>5, <1>6

-----------------------------------------------------------------------------
(* What the reaper does to a section that is there                         *)

\* The section with the bullet, as AppendBlockerRef writes it.
Edited(s) ==
  LET none == SelectInSeq(s, LAMBDA l : l = "None")
  IN  IF none # 0 THEN ReplaceAt(s, none, Bug331Ref) ELSE Append(Trimmed(s), Bug331Ref)

LEMMA BulletIsLine == Bug331Ref \in Line \ Ends /\ "blank" \in Line \ Ends
BY DEF Line, Ends, Bullet, CleanRef, Bug331Ref

\* A line of prose that declares None is found, or there is none.
LEMMA NoneLineIs ==
  ASSUME NEW S, NEW s \in Seq(S)
  PROVE  LET none == SelectInSeq(s, LAMBDA l : l = "None")
         IN  \/ none = 0 /\ \A i \in 1..Len(s) : s[i] # "None"
             \/ none \in 1..Len(s) /\ s[none] = "None"
<1> DEFINE I == {i \in 1..Len(s) : s[i] = "None"}
           none == IF I # {} THEN Min(I) ELSE 0
<1>1. SelectInSeq(s, LAMBDA l : l = "None") = none
  BY DEF SelectInSeq
<1>2. CASE I = {}
  BY <1>1, <1>2
<1>3. CASE I # {}
  <2>1. Len(s) \in Nat
    BY LenProperties
  <2>2. I \subseteq Nat
    BY <2>1
  <2>3. none \in I
    BY <1>3, <2>2, LeastOf
  <2> QED BY <1>1, <2>3
<1> QED BY <1>2, <1>3

\* The bullet is in it, and nothing that would end it.
LEMMA EditedIs ==
  ASSUME NEW s \in Seq(Line \ Ends)
  PROVE  Edited(s) \in Seq(Line \ Ends) /\ \E j \in 1..Len(Edited(s)) : Edited(s)[j] = Bug331Ref
<1> DEFINE none == SelectInSeq(s, LAMBDA l : l = "None")
<1>1. Edited(s) = IF none # 0 THEN ReplaceAt(s, none, Bug331Ref)
                  ELSE Append(Trimmed(s), Bug331Ref)
  BY DEF Edited
<1>2. none = 0 \/ none \in 1..Len(s)
  BY NoneLineIs
<1> HIDE DEF none
<1>3. CASE none # 0
  <2>1. Edited(s) = [s EXCEPT ![none] = Bug331Ref] /\ none \in 1..Len(s)
    BY <1>1, <1>2, <1>3 DEF ReplaceAt
  <2>2. /\ Edited(s) \in Seq(Line \ Ends) /\ Len(Edited(s)) = Len(s)
        /\ Edited(s)[none] = Bug331Ref
    BY <2>1, BulletIsLine, ExceptSeq
  <2> QED BY <2>1, <2>2
<1>4. CASE none = 0
  <2>1. Edited(s) = Append(Trimmed(s), Bug331Ref) /\ Trimmed(s) \in Seq(Line \ Ends)
    BY <1>1, <1>4, TrimmedIs
  <2>2. /\ Edited(s) \in Seq(Line \ Ends) /\ Len(Edited(s)) = Len(Trimmed(s)) + 1
        /\ Edited(s)[Len(Trimmed(s)) + 1] = Bug331Ref
    BY <2>1, BulletIsLine, AppendProperties
  <2>3. Len(Trimmed(s)) + 1 \in 1..Len(Edited(s))
    BY <2>1, <2>2, LenProperties
  <2> QED BY <2>2, <2>3
<1> QED BY <1>3, <1>4

\* One blank line more.
LEMMA WithBlank ==
  ASSUME NEW s \in Seq(Line \ Ends)
  PROVE  /\ s \o <<"blank">> \in Seq(Line \ Ends)
         /\ Len(s \o <<"blank">>) = Len(s) + 1
         /\ \A i \in 1..Len(s) : (s \o <<"blank">>)[i] = s[i]
         /\ (s \o <<"blank">>)[Len(s) + 1] = "blank"
<1>1. s \o <<"blank">> = Append(s, "blank")
  BY BulletIsLine, AppendIsConcat
<1> QED BY <1>1, BulletIsLine, AppendProperties

\* What the dispatcher reads after the edit.
LEMMA AppendIs ==
  ASSUME NEW b \in Seq(Line), Bug331Ref \notin Edges(b), Heading(b) # 0
  PROVE  /\ AppendBlockerRef(b) \in Seq(Line)
         /\ Section(AppendBlockerRef(b)) = Edited(Section(b)) \o <<"blank">>
         /\ Edited(Section(b)) \in Seq(Line \ Ends)
<1> DEFINE A == SubSeq(b, 1, Heading(b))
           E == Edited(Section(b))
           C == SubSeq(b, SectionEnd(b), Len(b))
<1>1. AppendBlockerRef(b) = ((A \o E) \o <<"blank">>) \o C
  BY DEF AppendBlockerRef, Edited
<1>2. E \in Seq(Line \ Ends) /\ E \o <<"blank">> \in Seq(Line \ Ends)
  BY SectionIs, EditedIs, WithBlank
<1>3. /\ A \o (E \o <<"blank">>) \o C \in Seq(Line)
      /\ Section(A \o (E \o <<"blank">>) \o C) = E \o <<"blank">>
  BY <1>2, SectionSplice
<1>4. A \in Seq(Line)
  <2>1. /\ Len(b) \in Nat /\ Heading(b) \in 0..Len(b)
        /\ \A i \in 1..Heading(b) : b[i] \in Line
    BY LenProperties, HeadingIs, ElementOfSeq
  <2> QED BY <2>1, SubSeqProperties
<1>5. (A \o E) \o <<"blank">> = A \o (E \o <<"blank">>)
  <2>1. E \in Seq(Line) /\ <<"blank">> \in Seq(Line)
    BY <1>2, BulletIsLine, SeqMonotonic
  <2> HIDE DEF A, E
  <2> QED BY <1>4, <2>1, ConcatAssociative
<1> QED BY <1>1, <1>2, <1>3, <1>5

\* Whatever the section looked like, the ticket is guarded afterwards.
LEMMA ReapGuards ==
  ASSUME NEW b \in Seq(Line)
  PROVE  AppendBlockerRef(b) \in Seq(Line) /\ Guarded(AppendBlockerRef(b))
<1> DEFINE a == AppendBlockerRef(b)
<1>1. CASE Bug331Ref \in Edges(b)
  <2>1. a = b
    BY <1>1 DEF AppendBlockerRef
  <2>2. ~DeclaresNone(Section(b))
    BY <1>1 DEF Edges
  <2> QED BY <1>1, <2>1, <2>2 DEF Guarded, None
<1>2. CASE Bug331Ref \notin Edges(b) /\ Heading(b) = 0
  <2>1. a = NewSection(b)
    BY <1>2 DEF AppendBlockerRef
  <2> QED BY <1>2, <2>1, NewSectionIs, ListedIsGuarded
<1>3. CASE Bug331Ref \notin Edges(b) /\ Heading(b) # 0
  <2> DEFINE E == Edited(Section(b))
  <2>1. a \in Seq(Line) /\ Section(a) = E \o <<"blank">> /\ E \in Seq(Line \ Ends)
    BY <1>3, AppendIs
  <2>2. PICK j \in 1..Len(E) : E[j] = Bug331Ref
    BY <1>3, SectionIs, EditedIs
  <2> HIDE DEF a, E
  <2>3. /\ Section(a) \in Seq(Line \ Ends) /\ Len(Section(a)) = Len(E) + 1
        /\ Section(a)[j] = Bug331Ref
    BY <2>1, <2>2, WithBlank
  <2>4. j \in 1..Len(Section(a))
    BY <2>1, <2>3, LenProperties
  <2>5. Guarded(a)
    BY <2>3, <2>4, ListedIsGuarded
  <2> QED BY <2>1, <2>5 DEF a
<1> QED BY <1>1, <1>2, <1>3

-----------------------------------------------------------------------------
(* The invariant                                                           *)

\* The body stays a body, and a ticket that was reaped with the pairing of a lost push
\* is guarded from then on.
Paired ==
  /\ body \in Seq(Line)
  /\ blocker \in [CleanRef -> {"open", "completed"}]
  /\ reaps \in Nat
  /\ reaps > 0 => Guarded(body)

LEMMA PairedInit == Init => Paired
<1> SUFFICES ASSUME Init PROVE Paired
  OBVIOUS
<1>1. body \in Seq(Line)
  <2>1. PICK n \in 0..MaxLines : body \in [1..n -> Line \ {Bug331Ref}]
    BY DEF Init
  <2>2. n \in Nat /\ body \in [1..n -> Line]
    BY <2>1, SectionAssumption
  <2> QED BY <2>2, SeqDef
<1>2. blocker \in [CleanRef -> {"open", "completed"}]
  BY DEF Init
<1> QED BY <1>1, <1>2 DEF Init, Paired

LEMMA PairedNext == Paired /\ [Next]_vars => Paired'
<1> SUFFICES ASSUME Paired, [Next]_vars PROVE Paired'
  OBVIOUS
<1>1. CASE Reap
  <2>1. body' \in Seq(Line) /\ Guarded(body')
    BY <1>1, ReapGuards DEF Reap, Paired
  <2> QED BY <1>1, <2>1 DEF Reap, Paired
<1>2. CASE Close331
  BY <1>2 DEF Close331, Paired
<1>3. CASE UNCHANGED vars
  BY <1>3 DEF vars, Paired
<1> QED BY <1>1, <1>2, <1>3 DEF Next

\* An open #331 behind a guard is a reason not to dispatch.
LEMMA GuardedIsDeclined ==
  ASSUME Paired, Guarded(body), blocker[Bug331Ref] = "open"
  PROVE  VerdictNow # "ready"
<1>1. ~None(body)
  BY DEF Guarded
<1>2. Edges(body) \subseteq CleanRef
  BY DEF Edges
<1>3. CASE Unresolved(body)
  BY <1>1, <1>3 DEF VerdictNow, IsReady
<1>4. CASE ~Unresolved(body)
  <2>1. Bug331Ref \in Edges(body)
    BY <1>4 DEF Guarded
  <2>2. \A r \in Edges(body) : blocker[r] \in {"open", "completed"}
    BY <1>2 DEF Paired
  <2>3. VerdictNow = "blocked"
    BY <1>1, <1>4, <2>1, <2>2 DEF VerdictNow, IsReady
  <2> QED BY <2>3
<1> QED BY <1>3, <1>4

\* However long the body and however often the ticket is reaped: while #331 is open the
\* dispatcher declines a ticket that was reaped with the pairing of a lost push, whatever
\* the section looked like (appendBlockerRef writes what parseBlockedBy can read).
THEOREM PairingDeclines == Spec => []Declined
<1>1. Paired => Declined
  BY GuardedIsDeclined DEF Paired, Declined
<1> QED BY <1>1, PairedInit, PairedNext, PTL DEF Spec

-----------------------------------------------------------------------------
(* A list of clean references                                              *)

\* Where nothing but clean references starts an item and none is continued, there is no
\* prose: the first line of it would start an item or continue one.
LEMMA CleanHasNoProse ==
  ASSUME NEW s \in Seq(Line \ Ends),
         \A i \in Starts(s) : s[i] \in CleanRef /\ ~Continued(s, i)
  PROVE  \A i \in 1..Len(s) : s[i] \notin Prose
<1> DEFINE P == {i \in 1..Len(s) : s[i] \in Prose}
<1>1. Len(s) \in Nat /\ DOMAIN s = 1..Len(s)
  BY LenProperties
<1>2. SUFFICES ASSUME P # {} PROVE FALSE
  OBVIOUS
<1>3. P \subseteq Nat
  BY <1>1
<1> DEFINE k == Min(P)
<1> HIDE DEF P
<1>4. k \in P /\ \A i \in P : k <= i
  BY <1>2, <1>3, LeastOf
<1> HIDE DEF k
<1> USE DEF P
<1>5. k \in 1..Len(s) /\ s[k] \in Prose /\ s[k] \notin CleanRef
  BY <1>4 DEF Prose, CleanRef, Bug331Ref
<1>6. k \notin Starts(s)
  BY <1>5
<1>7. k # 1 /\ s[k - 1] # "blank"
  BY <1>1, <1>5, <1>6 DEF Starts
<1>8. k - 1 \in 1..Len(s) /\ k - 1 \notin P /\ k - 1 < Len(s) /\ (k - 1) + 1 = k
  <2>1. k - 1 \in 1..Len(s) /\ k - 1 < Len(s) /\ (k - 1) + 1 = k /\ ~ (k <= k - 1)
    BY <1>1, <1>5, <1>7
  <2> QED BY <1>4, <2>1
<1>9. s[k - 1] \in Bullet
  <2>1. s[k - 1] \in Line \ Ends /\ s[k - 1] \notin Prose
    BY <1>8, ElementOfSeq
  <2> QED BY <1>7, <2>1 DEF Line
<1>10. k - 1 \in Starts(s)
  BY <1>1, <1>8, <1>9 DEF Starts
<1>11. Continued(s, k - 1)
  BY <1>5, <1>8 DEF Continued
<1> QED BY <1>10, <1>11

\* There the edit adds the bullet behind the last one, and takes nothing away.
LEMMA CleanExtended ==
  ASSUME NEW s \in Seq(Line \ Ends), Starts(s) # {},
         \A i \in Starts(s) : s[i] \in CleanRef /\ ~Continued(s, i)
  PROVE  LET m == Edited(s) \o <<"blank">>
         IN  /\ \A i \in Starts(m) : m[i] \in CleanRef /\ ~Continued(m, i)
             /\ {m[i] : i \in Starts(m)} = {s[i] : i \in Starts(s)} \union {Bug331Ref}
             /\ Starts(m) # {}
<1> DEFINE T == Trimmed(s)
           k == Len(T)
           E == Edited(s)
           m == E \o <<"blank">>
<1>1. \A i \in 1..Len(s) : s[i] \notin Prose
  BY CleanHasNoProse
<1>2. E = Append(T, Bug331Ref)
  <2>1. \A i \in 1..Len(s) : s[i] # "None"
    BY <1>1 DEF Prose
  <2>2. SelectInSeq(s, LAMBDA l : l = "None") = 0
    BY <2>1, NoneLineIs
  <2> QED BY <2>2 DEF Edited
<1>3. /\ T \in Seq(Line \ Ends) /\ k \in 0..Len(s) /\ \A i \in 1..k : T[i] = s[i]
      /\ \A i \in 1..Len(s) : s[i] # "blank" => i <= k
  BY TrimmedIs
<1> HIDE DEF T
<1>4. /\ E \in Seq(Line \ Ends) /\ Len(E) = k + 1
      /\ \A i \in 1..k : E[i] = T[i]
      /\ E[k + 1] = Bug331Ref
  BY <1>2, <1>3, BulletIsLine, AppendProperties
<1> HIDE DEF E, k
<1>5. /\ m \in Seq(Line \ Ends) /\ Len(m) = k + 1 + 1
      /\ \A i \in 1..(k + 1) : m[i] = E[i]
      /\ m[k + 1 + 1] = "blank"
  BY <1>4, WithBlank
<1> HIDE DEF m
<1>6. Len(s) \in Nat /\ DOMAIN s = 1..Len(s) /\ DOMAIN m = 1..Len(m) /\ k \in Nat
  BY <1>3, <1>5, LenProperties
<1>7. /\ \A i \in 1..k : m[i] = s[i]
      /\ m[k + 1] = Bug331Ref /\ m[k + 2] = "blank"
      /\ \A i \in 1..Len(m) : i \in 1..k \/ i = k + 1 \/ i = k + 2
  BY <1>3, <1>4, <1>5, <1>6
<1>8. Bug331Ref \in CleanRef /\ Bug331Ref \notin Prose /\ "blank" \notin Prose \union Bullet
  BY DEF CleanRef, Prose, Bullet, Bug331Ref
<1>9. \A i \in 1..Len(m) : m[i] \notin Prose
  BY <1>1, <1>3, <1>6, <1>7, <1>8
<1>10. Starts(s) = {i \in 1..Len(s) : s[i] \in Bullet}
  BY <1>1, <1>6 DEF Starts
<1>11. Starts(m) = {i \in 1..Len(m) : m[i] \in Bullet}
  BY <1>6, <1>9 DEF Starts
<1>12. Starts(m) = Starts(s) \union {k + 1}
  <2>1. ASSUME NEW i \in Starts(m) PROVE i \in Starts(s) \union {k + 1}
    BY <1>3, <1>6, <1>7, <1>8, <1>10, <1>11, <2>1
  <2>2. ASSUME NEW i \in Starts(s) PROVE i \in 1..k /\ i \in Starts(m)
    <3>1. i \in 1..Len(s) /\ s[i] \in Bullet /\ s[i] # "blank"
      BY <1>8, <1>10
    <3>2. i \in 1..k /\ i \in 1..Len(m)
      BY <1>3, <1>5, <1>6, <3>1
    <3> QED BY <1>7, <1>11, <3>1, <3>2
  <2>3. k + 1 \in Starts(m)
    BY <1>5, <1>6, <1>7, <1>11 DEF Bullet, CleanRef
  <2> QED BY <2>1, <2>2, <2>3
<1>13. \A i \in Starts(s) : i \in 1..k /\ m[i] = s[i]
  <2> TAKE i \in Starts(s)
  <2>1. i \in 1..Len(s) /\ s[i] # "blank"
    BY <1>8, <1>10
  <2> QED BY <1>3, <1>6, <1>7, <2>1
<1>14. \A i \in Starts(m) : m[i] \in CleanRef /\ ~Continued(m, i)
  <2> TAKE i \in Starts(m)
  <2>1. m[i] \in CleanRef
    BY <1>7, <1>8, <1>12, <1>13
  <2>2. i \in 1..Len(m)
    BY <1>11
  <2>3. ~Continued(m, i)
    BY <1>5, <1>6, <1>9, <2>2 DEF Continued
  <2> QED BY <2>1, <2>3
<1>15. {m[i] : i \in Starts(m)} = {s[i] : i \in Starts(s)} \union {Bug331Ref}
  BY <1>7, <1>12, <1>13
<1> QED BY <1>12, <1>14, <1>15 DEF m, E

\* What a decidable list of blockers is, and what its edges are.
LEMMA ResolvedIsClean ==
  ASSUME NEW b, ~Unresolved(b), ~None(b)
  PROVE  /\ Starts(Section(b)) # {}
         /\ \A i \in Starts(Section(b)) :
              Section(b)[i] \in CleanRef /\ ~Continued(Section(b), i)
BY DEF Unresolved, None

LEMMA CleanIsResolved ==
  ASSUME NEW b, Starts(Section(b)) # {},
         \A i \in Starts(Section(b)) : Section(b)[i] \in CleanRef /\ ~Continued(Section(b), i)
  PROVE  ~Unresolved(b) /\ Edges(b) = {Section(b)[i] : i \in Starts(Section(b))}
<1>1. ~DeclaresNone(Section(b))
  BY DEF DeclaresNone, CleanRef, Bug331Ref
<1> QED BY <1>1 DEF Unresolved, Edges

LEMMA ReapExtends ==
  ASSUME NEW b \in Seq(Line), ~Unresolved(b), ~None(b)
  PROVE  /\ ~Unresolved(AppendBlockerRef(b))
         /\ Edges(AppendBlockerRef(b)) = Edges(b) \union {Bug331Ref}
<1> DEFINE a == AppendBlockerRef(b)
           s == Section(b)
<1>1. CASE Bug331Ref \in Edges(b)
  <2>1. a = b
    BY <1>1 DEF AppendBlockerRef
  <2> QED BY <1>1, <2>1
<1>2. CASE Bug331Ref \notin Edges(b)
  <2>1. /\ Starts(s) # {} /\ \A i \in Starts(s) : s[i] \in CleanRef /\ ~Continued(s, i)
        /\ Edges(b) = {s[i] : i \in Starts(s)}
    BY ResolvedIsClean, CleanIsResolved
  <2>2. Heading(b) # 0
    BY <2>1 DEF Section, Starts
  <2>3. s \in Seq(Line \ Ends) /\ Section(a) = Edited(s) \o <<"blank">>
    BY <1>2, <2>2, SectionIs, AppendIs
  <2> HIDE DEF a, s
  <2>4. /\ Starts(Section(a)) # {}
        /\ \A i \in Starts(Section(a)) : Section(a)[i] \in CleanRef /\ ~Continued(Section(a), i)
        /\ {Section(a)[i] : i \in Starts(Section(a))} = {s[i] : i \in Starts(s)} \union {Bug331Ref}
    BY <2>1, <2>3, CleanExtended
  <2>5. ~Unresolved(a) /\ Edges(a) = {Section(a)[i] : i \in Starts(Section(a))}
    BY <2>4, CleanIsResolved
  <2> QED BY <2>1, <2>4, <2>5 DEF a
<1> QED BY <1>1, <1>2

\* However long the body and however often the ticket is reaped: the reaper's edit of a
\* decidable list of blockers leaves it decidable, drops none of them and adds #331 alone
\* (appendBlockerRef, read by parseBlockedBy).
THEOREM ListsExtended == Spec => ListExtended
<1> DEFINE Extended == Reap /\ ~Unresolved(body) /\ ~None(body) =>
             /\ ~Unresolved(body')
             /\ Edges(body') = Edges(body) \union {Bug331Ref}
<1>1. Paired => Extended
  BY ReapExtends DEF Paired, Reap
<1> HIDE DEF Extended
<1>2. Spec => [][Extended]_vars
  BY <1>1, PairedInit, PairedNext, PTL DEF Spec
<1> QED BY <1>2 DEF Extended, ListExtended
=============================================================================
