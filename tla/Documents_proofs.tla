--------------------------- MODULE Documents_proofs ---------------------------
(***************************************************************************)
(* Proofs about what becomes of texts: the sections that are drafted, the  *)
(* report that is made of an answer, the chunks of the knowledge base, the *)
(* texts that a query finds and the passages that a verdict cites.         *)
(***************************************************************************)
EXTENDS AssessmentPipeline, KnowledgeBase, Retrieval, EvidenceCritic, Induction, SequenceTheorems

-----------------------------------------------------------------------------
(***************************************************************************)
(* Cutting a long text.                                                    *)
(***************************************************************************)
LEMMA CutWithin ==
  ASSUME NEW text \in Texts, NEW start \in Nat
  PROVE  LET cut == CutAfter(text, start)
         IN /\ cut \in Nat /\ start + SectionSize \div 2 <= cut
            /\ cut <= start + SectionSize
<1> DEFINE half == SectionSize \div 2
           end == start + SectionSize
           In(places, width) == { p \in places : start + half <= p /\ p + width <= end }
<1>1. SectionSize \in Nat /\ half \in Nat /\ half <= SectionSize
  BY PipelineAssumption
<1>2. text.paragraphs \subseteq Nat /\ text.lines \subseteq Nat
  BY PipelineAssumption
<1>3. ASSUME NEW places \in SUBSET Nat, NEW width \in Nat, In(places, width) # {}
      PROVE  Max(In(places, width)) \in In(places, width)
  <2>1. end \in Int
    BY <1>1
  <2> HIDE DEF half, end
  <2>2. ASSUME NEW x \in In(places, width) PROVE x \in Int /\ x <= end
    <3>1. x \in Nat /\ x + width <= end
      OBVIOUS
    <3> QED BY <2>1, <3>1
  <2> HIDE DEF In
  <2> QED BY <1>3, <2>1, <2>2, GreatestOf
<1>4. CASE In(text.paragraphs, 2) # {}
  <2>1. CutAfter(text, start) = Max(In(text.paragraphs, 2))
    BY <1>4 DEF CutAfter
  <2>2. Max(In(text.paragraphs, 2)) \in In(text.paragraphs, 2)
    BY <1>2, <1>3, <1>4
  <2> QED BY <1>1, <1>2, <2>1, <2>2
<1>5. CASE In(text.paragraphs, 2) = {} /\ In(text.lines, 1) # {}
  <2>1. CutAfter(text, start) = Max(In(text.lines, 1))
    BY <1>5 DEF CutAfter
  <2>2. Max(In(text.lines, 1)) \in In(text.lines, 1)
    BY <1>2, <1>3, <1>5
  <2> QED BY <1>1, <1>2, <2>1, <2>2
<1>6. CASE In(text.paragraphs, 2) = {} /\ In(text.lines, 1) = {}
  <2>1. CutAfter(text, start) = end
    BY <1>6 DEF CutAfter
  <2> QED BY <1>1, <2>1
<1> QED BY <1>4, <1>5, <1>6

\* What a section that starts at a place is followed by, given the rest.
Cut(text, rest, start) ==
  IF start + SectionSize >= text.length THEN <<[from |-> start, to |-> text.length]>>
  ELSE <<[from |-> start, to |-> CutAfter(text, start)]>> \o rest[CutAfter(text, start) - Overlap]

LEMMA CutNext ==
  ASSUME NEW text \in Texts, NEW start \in 0..text.length, start + SectionSize < text.length
  PROVE  CutAfter(text, start) - Overlap \in (start + 1)..text.length
<1>1. /\ SectionSize \in Nat /\ SectionSize \div 2 \in Nat /\ Overlap \in Nat
      /\ Overlap < SectionSize \div 2 /\ text.length \in Nat
  BY PipelineAssumption
<1>2. /\ CutAfter(text, start) \in Nat /\ start + SectionSize \div 2 <= CutAfter(text, start)
      /\ CutAfter(text, start) <= start + SectionSize
  BY <1>1, CutWithin
<1> QED BY <1>1, <1>2

\* The recursion goes on at a later place, so it is well founded.
LEMMA CutsExist ==
  ASSUME NEW text \in Texts
  PROVE  \E g : g = [start \in 0..text.length |-> Cut(text, g, start)]
<1> DEFINE N == text.length
           T == { k \in Nat : k <= N =>
                    \E g : g = [start \in (N - k)..N |-> Cut(text, g, start)] }
<1>1. N \in Nat /\ SectionSize \in Nat
  BY PipelineAssumption
<1>2. 0 \in T
  <2> DEFINE g == [start \in (N - 0)..N |-> <<[from |-> N, to |-> N]>>]
  <2>1. \A start \in (N - 0)..N : Cut(text, g, start) = <<[from |-> N, to |-> N]>>
    BY <1>1 DEF Cut
  <2>2. g = [start \in (N - 0)..N |-> Cut(text, g, start)]
    BY <2>1
  <2> QED BY <2>2
<1>3. ASSUME NEW k \in Nat, k \in T PROVE k + 1 \in T
  <2> SUFFICES ASSUME k + 1 <= N
               PROVE  \E h : h = [start \in (N - (k + 1))..N |-> Cut(text, h, start)]
    OBVIOUS
  <2>1. PICK g : g = [start \in (N - k)..N |-> Cut(text, g, start)]
    BY <1>1, <1>3
  <2> DEFINE first == N - (k + 1)
             h == [start \in first..N |-> Cut(text, g, start)]
  <2>2. first \in Nat /\ \A start \in first..N : start = first \/ start \in (N - k)..N
    BY <1>1
  <2>3. ASSUME NEW start \in (N - k)..N PROVE h[start] = g[start]
    <3>1. start \in first..N
      BY <1>1, <2>2
    <3>2. h[start] = Cut(text, g, start)
      BY <3>1
    <3>3. g[start] = Cut(text, g, start)
      BY <2>1
    <3> QED BY <3>2, <3>3
  <2>4. ASSUME NEW start \in first..N PROVE Cut(text, h, start) = Cut(text, g, start)
    <3>1. CASE start + SectionSize >= N
      BY <3>1 DEF Cut
    <3>2. CASE start + SectionSize < N
      <4>1. start \in 0..N
        BY <1>1, <2>2
      <4>2. CutAfter(text, start) - Overlap \in (start + 1)..N
        BY <3>2, <4>1, CutNext
      <4>3. CutAfter(text, start) - Overlap \in (N - k)..N
        BY <1>1, <2>2, <4>1, <4>2
      <4>4. h[CutAfter(text, start) - Overlap] = g[CutAfter(text, start) - Overlap]
        BY <2>3, <4>3
      <4> HIDE DEF h
      <4> QED BY <4>4 DEF Cut
    <3> QED BY <1>1, <2>2, <3>1, <3>2
  <2>5. h = [start \in first..N |-> Cut(text, h, start)]
    BY <2>4
  <2> QED BY <2>5
<1>4. N \in T
  <2> HIDE DEF T
  <2> QED BY <1>1, <1>2, <1>3, Induct
<1> QED BY <1>1, <1>4

\* Sections from a place to the end of the text, as SectionsCover wants them.
Covers(text, s, start) ==
  /\ s \in Seq([from : Int, to : Int]) /\ s # <<>>
  /\ s[1].from = start /\ s[Len(s)].to = text.length
  /\ \A i \in 1..(Len(s) - 1) :
       s[i + 1].from = s[i].to - Overlap /\ s[i + 1].from > s[i].from
  /\ \A i \in 1..Len(s) : s[i].to - s[i].from <= SectionSize

LEMMA OneMore ==
  ASSUME NEW text \in Texts, NEW start \in 0..text.length, start + SectionSize < text.length,
         NEW rest, Covers(text, rest, CutAfter(text, start) - Overlap)
  PROVE  Covers(text, <<[from |-> start, to |-> CutAfter(text, start)]>> \o rest, start)
<1> DEFINE cut == CutAfter(text, start)
           first == [from |-> start, to |-> cut]
           s == <<first>> \o rest
<1>1. /\ SectionSize \in Nat /\ Overlap \in Nat /\ text.length \in Nat
      /\ start \in Nat /\ SectionSize \div 2 \in Nat
  BY PipelineAssumption
<1>2. cut \in Nat /\ cut <= start + SectionSize /\ cut - Overlap > start
  BY <1>1, CutWithin, CutNext
<1> HIDE DEF cut
<1>3. first \in [from : Int, to : Int] /\ first.from = start /\ first.to = cut
  BY <1>1, <1>2
<1> HIDE DEF first
<1>4. /\ rest \in Seq([from : Int, to : Int]) /\ rest # <<>> /\ Len(rest) \in Nat /\ Len(rest) > 0
      /\ rest[1].from = cut - Overlap /\ rest[Len(rest)].to = text.length
      /\ \A i \in 1..(Len(rest) - 1) :
           rest[i + 1].from = rest[i].to - Overlap /\ rest[i + 1].from > rest[i].from
      /\ \A i \in 1..Len(rest) : rest[i].to - rest[i].from <= SectionSize
  BY DEF Covers, cut
<1>5. /\ s \in Seq([from : Int, to : Int]) /\ Len(s) = 1 + Len(rest) /\ s[1] = first
      /\ \A i \in 1..Len(rest) : s[i + 1] = rest[i]
  <2>1. <<first>> \in Seq([from : Int, to : Int]) /\ Len(<<first>>) = 1 /\ <<first>>[1] = first
    BY <1>3
  <2> DEFINE one == <<first>>
  <2> HIDE DEF one
  <2>2. s = one \o rest
    BY DEF one
  <2>3. /\ one \o rest \in Seq([from : Int, to : Int]) /\ Len(one \o rest) = Len(one) + Len(rest)
        /\ \A i \in 1..Len(one \o rest) : (one \o rest)[i] = IF i <= Len(one) THEN one[i] ELSE rest[i - Len(one)]
    BY <1>4, <2>1, ConcatProperties DEF one
  <2> QED BY <1>4, <2>1, <2>2, <2>3 DEF one
<1>6. \A i \in 2..Len(s) : i - 1 \in 1..Len(rest) /\ s[i] = rest[i - 1]
  BY <1>4, <1>5
<1> HIDE DEF s
<1>7. s # <<>> /\ s[1].from = start /\ s[Len(s)].to = text.length
  <2>1. Len(rest) \in 1..Len(rest) /\ Len(s) = Len(rest) + 1
    BY <1>4, <1>5
  <2>2. s[Len(s)] = rest[Len(rest)]
    BY <1>5, <2>1
  <2> QED BY <1>3, <1>4, <1>5, <2>1, <2>2
<1>8. ASSUME NEW i \in 1..(Len(s) - 1)
      PROVE  s[i + 1].from = s[i].to - Overlap /\ s[i + 1].from > s[i].from
  <2>1. CASE i = 1
    BY <1>2, <1>3, <1>4, <1>5, <2>1
  <2>2. CASE i # 1
    <3>1. i \in 1..Len(rest) /\ i - 1 \in 1..(Len(rest) - 1) /\ (i - 1) + 1 = i
      <4>1. Len(rest) \in Nat /\ Len(s) = Len(rest) + 1
        BY <1>4, <1>5
      <4> QED BY <2>2, <4>1
    <3>2. i \in 2..Len(s) /\ i + 1 \in 2..Len(s) /\ (i + 1) - 1 = i
      BY <1>4, <1>5, <2>2
    <3>3. s[i] = rest[i - 1] /\ s[i + 1] = rest[i]
      BY <1>6, <3>2
    <3>4. rest[i].from = rest[i - 1].to - Overlap /\ rest[i].from > rest[i - 1].from
      BY <1>4, <3>1
    <3> QED BY <3>3, <3>4
  <2> QED BY <2>1, <2>2
<1>9. ASSUME NEW i \in 1..Len(s) PROVE s[i].to - s[i].from <= SectionSize
  <2>1. CASE i = 1
    BY <1>1, <1>2, <1>3, <1>5, <2>1
  <2>2. CASE i # 1
    <3>1. i \in 2..Len(s)
      BY <1>4, <1>5, <2>2
    <3>2. i - 1 \in 1..Len(rest) /\ s[i] = rest[i - 1]
      BY <1>6, <3>1
    <3> QED BY <1>4, <3>2
  <2> QED BY <2>1, <2>2
<1> QED BY <1>5, <1>7, <1>8, <1>9 DEF Covers, s, first, cut

LEMMA CutsCover ==
  ASSUME NEW text \in Texts, NEW g, g = [start \in 0..text.length |-> Cut(text, g, start)]
  PROVE  \A start \in 0..text.length : Covers(text, g[start], start)
<1> DEFINE N == text.length
           T == { k \in Nat : \A start \in 0..N : N - start <= k => Covers(text, g[start], start) }
<1>1. N \in Nat /\ SectionSize \in Nat
  BY PipelineAssumption
<1>2. ASSUME NEW start \in 0..N, start + SectionSize >= N PROVE Covers(text, g[start], start)
  <2>1. g[start] = <<[from |-> start, to |-> N]>>
    BY <1>2 DEF Cut
  <2>2. N - start <= SectionSize /\ start \in Int
    BY <1>1, <1>2
  <2> DEFINE s == <<[from |-> start, to |-> N]>>
  <2>3. s \in Seq([from : Int, to : Int]) /\ Len(s) = 1 /\ s[1].from = start /\ s[1].to = N /\ s # <<>>
    BY <1>1, <2>2
  <2>4. \A i \in 1..Len(s) : i = 1
    BY <2>3
  <2> HIDE DEF s
  <2>5. Covers(text, s, start)
    BY <2>2, <2>3, <2>4 DEF Covers
  <2> QED BY <2>1, <2>5 DEF s
<1>3. 0 \in T
  <2>1. ASSUME NEW start \in 0..N, N - start <= 0 PROVE start + SectionSize >= N
    BY <1>1, <2>1
  <2> QED BY <1>2, <2>1
<1>4. ASSUME NEW k \in Nat, k \in T PROVE k + 1 \in T
  <2> SUFFICES ASSUME NEW start \in 0..N, N - start <= k + 1 PROVE Covers(text, g[start], start)
    OBVIOUS
  <2>1. CASE start + SectionSize < N
    <3> DEFINE next == CutAfter(text, start) - Overlap
    <3>1. next \in (start + 1)..N
      BY <2>1, CutNext
    <3>2. next \in 0..N /\ N - next <= k
      BY <1>1, <3>1
    <3>3. Covers(text, g[next], next)
      BY <1>4, <3>2
    <3>4. g[start] = <<[from |-> start, to |-> CutAfter(text, start)]>> \o g[next]
      <4>1. g[start] = Cut(text, g, start)
        OBVIOUS
      <4>2. ~(start + SectionSize >= N)
        BY <1>1, <2>1
      <4> QED BY <4>1, <4>2 DEF Cut
    <3> QED BY <2>1, <3>3, <3>4, OneMore
  <2>2. CASE ~(start + SectionSize < N)
    <3>1. start + SectionSize >= N
      BY <1>1, <2>2
    <3> QED BY <1>2, <3>1
  <2> QED BY <2>1, <2>2
<1>5. N \in T
  <2> HIDE DEF T
  <2> QED BY <1>1, <1>3, <1>4, Induct
<1> QED BY <1>1, <1>5

LEMMA SectionsCovered ==
  ASSUME NEW text \in Texts
  PROVE  Covers(text, SectionsOf(text), 0)
<1> DEFINE from[start \in 0..text.length] ==
             IF start + SectionSize >= text.length THEN <<[from |-> start, to |-> text.length]>>
             ELSE LET cut == CutAfter(text, start)
                  IN <<[from |-> start, to |-> cut]>> \o from[cut - Overlap]
<1>1. SectionsOf(text) = from[0]
  BY DEF SectionsOf
<1>2. from = CHOOSE g : g = [start \in 0..text.length |-> Cut(text, g, start)]
  BY DEF Cut
<1> HIDE DEF from
<1>3. from = [start \in 0..text.length |-> Cut(text, from, start)]
  BY <1>2, CutsExist
<1>4. 0 \in 0..text.length
  BY PipelineAssumption
<1> QED BY <1>1, <1>3, <1>4, CutsCover

-----------------------------------------------------------------------------
(***************************************************************************)
(* The threats of a report: one for each usable threat of the answer.      *)
(***************************************************************************)
Drawn == Seq([id : Seq(Nat), usable : BOOLEAN])
NameOf(threats, n) == IF threats[n].id = <<>> THEN <<n>> ELSE threats[n].id
WithThreat(threats, seen, n) ==
  IF ~threats[n].usable THEN seen
  ELSE Append(seen, IF Contains(seen, NameOf(threats, n)) THEN Append(NameOf(threats, n), n)
                    ELSE NameOf(threats, n))

LEMMA WithThreatTyped ==
  ASSUME NEW threats \in Drawn, NEW seen \in Seq(Seq(Nat)), NEW n \in 1..Len(threats)
  PROVE  /\ NameOf(threats, n) \in Seq(Nat) /\ WithThreat(threats, seen, n) \in Seq(Seq(Nat))
<1>1. threats[n].id \in Seq(Nat) /\ n \in Nat
  <2>1. Len(threats) \in Nat
    BY DEF Drawn
  <2>2. n \in Nat
    BY <2>1
  <2>3. threats[n] \in [id : Seq(Nat), usable : BOOLEAN]
    BY ElementOfSeq DEF Drawn
  <2> QED BY <2>2, <2>3
<1>2. NameOf(threats, n) \in Seq(Nat)
  BY <1>1 DEF NameOf
<1>3. Append(NameOf(threats, n), n) \in Seq(Nat)
  BY <1>1, <1>2
<1> QED BY <1>2, <1>3 DEF WithThreat

LEMMA NormalizedStepwise ==
  ASSUME NEW threats \in Drawn
  PROVE  \E f \in [0..Len(threats) -> Seq(Seq(Nat))] :
           /\ Normalized(threats) = f[Len(threats)]
           /\ f[0] = <<>>
           /\ \A n \in 1..Len(threats) : f[n] = WithThreat(threats, f[n - 1], n)
<1> DEFINE Distinct(i) == IF threats[i].id = <<>> THEN <<i>> ELSE threats[i].id
           seen[n \in 0..Len(threats)] ==
             IF n = 0 THEN <<>>
             ELSE IF ~threats[n].usable THEN seen[n - 1]
             ELSE Append(seen[n - 1], IF Contains(seen[n - 1], Distinct(n)) THEN Append(Distinct(n), n) ELSE Distinct(n))
           S == Seq(Seq(Nat))
           N == Len(threats)
           step == [v \in S \X (1..N) |-> WithThreat(threats, v[1], v[2])]
<1>1. Normalized(threats) = seen[N]
  BY DEF Normalized
<1>2. seen = CHOOSE g : g = [n \in 0..N |-> IF n = 0 THEN <<>> ELSE WithThreat(threats, g[n - 1], n)]
  BY DEF WithThreat, NameOf
<1> HIDE DEF seen
<1>3. N \in Nat /\ step \in [S \X (1..N) -> S] /\ <<>> \in S
  <2>1. N \in Nat /\ <<>> \in S
    BY DEF Drawn
  <2>2. ASSUME NEW v \in S \X (1..N) PROVE WithThreat(threats, v[1], v[2]) \in S
    <3>1. v[1] \in S /\ v[2] \in 1..N
      OBVIOUS
    <3> QED BY <3>1, WithThreatTyped
  <2> QED BY <2>1, <2>2
<1>4. PICK f \in [0..N -> S] : f[0] = <<>> /\ \A n \in 1..N : f[n] = step[<<f[n - 1], n>>]
  <2>1. step \in Steps(S, N)
    BY <1>3 DEF Steps
  <2> HIDE DEF S, N, step
  <2>2. \E f \in [0..N -> S] : Follows(f, N, <<>>, step)
    BY <1>3, <2>1, Recursion
  <2> QED BY <2>2 DEF Follows
<1>5. ASSUME NEW n \in 1..N PROVE f[n] = WithThreat(threats, f[n - 1], n)
  <2>1. f[n - 1] \in S
    BY <1>3
  <2>2. step[<<f[n - 1], n>>] = WithThreat(threats, f[n - 1], n)
    BY <2>1
  <2>3. f[n] = step[<<f[n - 1], n>>]
    BY <1>3, <1>4
  <2> QED BY <2>2, <2>3
<1>6. f = [n \in 0..N |-> IF n = 0 THEN <<>> ELSE WithThreat(threats, f[n - 1], n)]
  <2> HIDE DEF S, step
  <2>1. DOMAIN f = 0..N /\ f[0] = <<>>
    BY <1>3, <1>4
  <2>2. \A n \in 0..N : f[n] = IF n = 0 THEN <<>> ELSE WithThreat(threats, f[n - 1], n)
    BY <1>3, <1>5, <2>1
  <2> QED BY <2>1, <2>2
<1>7. seen = [n \in 0..N |-> IF n = 0 THEN <<>> ELSE WithThreat(threats, seen[n - 1], n)]
  BY <1>2, <1>6
<1>8. seen[0] = <<>> /\ \A n \in 1..N : seen[n] = WithThreat(threats, seen[n - 1], n)
  BY <1>3, <1>7
<1>9. \A n \in 0..N : seen[n] \in S
  <2> HIDE DEF S, step
  <2>1. seen[0] \in S
    BY <1>3, <1>8
  <2>2. ASSUME NEW n \in 1..N, seen[n - 1] \in S PROVE seen[n] \in S
    BY <1>8, <2>2, WithThreatTyped DEF S
  <2> QED BY <1>3, <2>1, <2>2, StepByStep
<1> QED BY <1>1, <1>3, <1>7, <1>8, <1>9

LEMMA ThreatsCounted ==
  ASSUME NEW threats \in Drawn
  PROVE  Len(Normalized(threats)) = Cardinality({ i \in DOMAIN threats : threats[i].usable })
<1>1. PICK f \in [0..Len(threats) -> Seq(Seq(Nat))] :
        /\ Normalized(threats) = f[Len(threats)] /\ f[0] = <<>>
        /\ \A n \in 1..Len(threats) : f[n] = WithThreat(threats, f[n - 1], n)
  BY NormalizedStepwise
<1> DEFINE N == Len(threats)
           U(n) == { i \in 1..n : threats[i].usable }
           T == { n \in Nat : n <= N => Len(f[n]) = Cardinality(U(n)) }
<1>2. N \in Nat /\ DOMAIN threats = 1..N
  BY DEF Drawn
<1>3. ASSUME NEW n \in Nat PROVE IsFiniteSet(U(n))
  <2>1. IsFiniteSet(1..n)
    BY FS_Interval
  <2> QED BY <2>1, FS_Subset
<1>4. 0 \in T
  <2>1. U(0) = {}
    OBVIOUS
  <2> QED BY <1>1, <2>1, FS_EmptySet
<1>5. ASSUME NEW n \in Nat, n \in T PROVE n + 1 \in T
  <2> SUFFICES ASSUME n + 1 <= N PROVE Len(f[n + 1]) = Cardinality(U(n + 1))
    OBVIOUS
  <2>1. /\ n \in 0..N /\ n + 1 \in 1..N /\ f[n + 1] = WithThreat(threats, f[n], n + 1)
        /\ f[n] \in Seq(Seq(Nat)) /\ Len(f[n]) = Cardinality(U(n))
    <3>1. n + 1 \in 1..N /\ (n + 1) - 1 = n /\ n \in 0..N
      BY <1>2
    <3> QED BY <1>1, <1>5, <3>1
  <2>2. CASE ~threats[n + 1].usable
    <3>1. U(n + 1) = U(n)
      BY <2>2
    <3> QED BY <2>1, <2>2, <3>1 DEF WithThreat
  <2>3. CASE threats[n + 1].usable
    <3>1. U(n + 1) = U(n) \cup {n + 1} /\ n + 1 \notin U(n)
      BY <2>3
    <3>2. Cardinality(U(n + 1)) = Cardinality(U(n)) + 1
      <4> HIDE DEF U
      <4> QED BY <1>3, <3>1, FS_AddElement
    <3>3. ASSUME NEW x PROVE Len(Append(f[n], x)) = Len(f[n]) + 1
      BY <2>1
    <3>4. Len(f[n + 1]) = Len(f[n]) + 1
      BY <2>1, <2>3, <3>3 DEF WithThreat
    <3> QED BY <2>1, <3>2, <3>4
  <2> QED BY <2>2, <2>3
<1>6. N \in T
  <2> HIDE DEF T
  <2> QED BY <1>2, <1>4, <1>5, Induct
<1>7. Len(f[N]) = Cardinality(U(N))
  BY <1>2, <1>6
<1>8. U(N) = { i \in DOMAIN threats : threats[i].usable }
  BY <1>2
<1> QED BY <1>1, <1>7, <1>8

\* A suffixed id ends with the place of its threat, which no earlier id does.
Apart(seen, n) ==
  /\ \A i, j \in 1..Len(seen) : seen[i] = seen[j] => i = j
  /\ \A i \in 1..Len(seen) : Len(seen[i]) = 1 \/ (Len(seen[i]) = 2 /\ seen[i][2] <= n)

LEMMA StillApart ==
  ASSUME NEW threats \in Drawn, NEW n \in Nat, n + 1 \in 1..Len(threats), Len(threats[n + 1].id) < 2,
         NEW seen \in Seq(Seq(Nat)), Apart(seen, n)
  PROVE  Apart(WithThreat(threats, seen, n + 1), n + 1)
<1> DEFINE name == NameOf(threats, n + 1)
<1>1. Len(seen) \in Nat /\ \A i \in 1..Len(seen) : seen[i] \in Seq(Nat)
  BY ElementOfSeq
<1>2. name \in Seq(Nat) /\ Len(name) = 1
  <2>1. threats[n + 1].id \in Seq(Nat)
    <3>1. threats[n + 1] \in [id : Seq(Nat), usable : BOOLEAN]
      BY ElementOfSeq DEF Drawn
    <3> QED BY <3>1
  <2>2. CASE threats[n + 1].id = <<>>
    BY <2>2 DEF NameOf
  <2>3. CASE threats[n + 1].id # <<>>
    <3>1. Len(threats[n + 1].id) \in Nat /\ Len(threats[n + 1].id) # 0
      BY <2>1, <2>3, EmptySeq
    <3>2. name = threats[n + 1].id
      BY <2>3 DEF NameOf
    <3>3. \A k \in Nat : k < 2 /\ k # 0 => k = 1
      OBVIOUS
    <3>4. Len(threats[n + 1].id) = 1
      BY <3>1, <3>3
    <3> QED BY <2>1, <3>2, <3>4
  <2> QED BY <2>2, <2>3
<1> HIDE DEF name
<1>3. ASSUME NEW x \in Seq(Nat), \A i \in 1..Len(seen) : seen[i] # x,
             Len(x) = 1 \/ (Len(x) = 2 /\ x[2] <= n + 1)
      PROVE  Apart(Append(seen, x), n + 1)
  <2> DEFINE s == Append(seen, x)
  <2>1. /\ Len(s) = Len(seen) + 1 /\ s[Len(seen) + 1] = x
        /\ \A i \in 1..Len(seen) : s[i] = seen[i]
    BY <1>1
  <2>2. \A i \in 1..Len(s) : i \in 1..Len(seen) \/ i = Len(seen) + 1
    BY <1>1, <2>1
  <2> HIDE DEF s
  <2>3. ASSUME NEW i \in 1..Len(s), NEW j \in 1..Len(s), s[i] = s[j] PROVE i = j
    <3>1. CASE i \in 1..Len(seen) /\ j \in 1..Len(seen)
      <4>1. seen[i] = seen[j]
        BY <2>1, <2>3, <3>1
      <4> QED BY <3>1, <4>1 DEF Apart
    <3>2. CASE i \in 1..Len(seen) /\ j = Len(seen) + 1
      BY <1>3, <2>1, <2>3, <3>2
    <3>3. CASE i = Len(seen) + 1 /\ j \in 1..Len(seen)
      BY <1>3, <2>1, <2>3, <3>3
    <3> QED BY <2>2, <3>1, <3>2, <3>3
  <2>4. ASSUME NEW i \in 1..Len(s) PROVE Len(s[i]) = 1 \/ (Len(s[i]) = 2 /\ s[i][2] <= n + 1)
    <3>1. CASE i = Len(seen) + 1
      BY <1>3, <2>1, <3>1
    <3>2. CASE i \in 1..Len(seen) /\ Len(seen[i]) = 2
      <4>1. seen[i] \in Seq(Nat) /\ seen[i][2] <= n
        BY <1>1, <3>2 DEF Apart
      <4>2. seen[i][2] \in Nat
        BY <3>2, <4>1, ElementOfSeq
      <4> QED BY <2>1, <3>2, <4>1, <4>2
    <3>3. CASE i \in 1..Len(seen) /\ Len(seen[i]) # 2
      BY <2>1, <3>3 DEF Apart
    <3> QED BY <2>2, <3>1, <3>2, <3>3
  <2> QED BY <2>3, <2>4 DEF Apart, s
<1>4. CASE ~threats[n + 1].usable
  <2>1. WithThreat(threats, seen, n + 1) = seen
    BY <1>4 DEF WithThreat
  <2>2. ASSUME NEW i \in 1..Len(seen), Len(seen[i]) = 2, seen[i][2] <= n PROVE seen[i][2] <= n + 1
    <3>1. seen[i] \in Seq(Nat)
      BY <1>1
    <3>2. seen[i][2] \in Nat
      BY <2>2, <3>1, ElementOfSeq
    <3> QED BY <2>2, <3>2
  <2> QED BY <2>1, <2>2 DEF Apart
<1>5. CASE threats[n + 1].usable /\ ~Contains(seen, name)
  <2>1. WithThreat(threats, seen, n + 1) = Append(seen, name)
    BY <1>5 DEF WithThreat, name
  <2>2. \A i \in 1..Len(seen) : seen[i] # name
    BY <1>5 DEF Contains
  <2> QED BY <1>2, <1>3, <2>1, <2>2
<1>6. CASE threats[n + 1].usable /\ Contains(seen, name)
  <2> DEFINE x == Append(name, n + 1)
  <2>1. WithThreat(threats, seen, n + 1) = Append(seen, x)
    BY <1>6 DEF WithThreat, name
  <2>2. x \in Seq(Nat) /\ Len(x) = 2 /\ x[2] = n + 1
    <3>1. n + 1 \in Nat /\ Len(name) + 1 = 2
      BY <1>2
    <3>2. x \in Seq(Nat) /\ Len(x) = Len(name) + 1 /\ x[Len(name) + 1] = n + 1
      BY <1>2, <3>1, AppendProperties
    <3> QED BY <3>1, <3>2
  <2> HIDE DEF x
  <2>3. ASSUME NEW i \in 1..Len(seen), seen[i] = x PROVE FALSE
    <3>1. Len(seen[i]) = 1 \/ (Len(seen[i]) = 2 /\ seen[i][2] <= n)
      BY DEF Apart
    <3>2. Len(x) = 1 \/ x[2] <= n
      BY <2>3, <3>1
    <3>3. ~(n + 1 <= n)
      OBVIOUS
    <3> QED BY <2>2, <3>2, <3>3
  <2>4. n + 1 <= n + 1
    OBVIOUS
  <2> QED BY <1>3, <2>1, <2>2, <2>3, <2>4
<1> QED BY <1>4, <1>5, <1>6

LEMMA ThreatsApart ==
  ASSUME NEW threats \in Drawn, \A i \in DOMAIN threats : Len(threats[i].id) < 2
  PROVE  \A i, j \in DOMAIN Normalized(threats) : Normalized(threats)[i] = Normalized(threats)[j] => i = j
<1>1. PICK f \in [0..Len(threats) -> Seq(Seq(Nat))] :
        /\ Normalized(threats) = f[Len(threats)] /\ f[0] = <<>>
        /\ \A n \in 1..Len(threats) : f[n] = WithThreat(threats, f[n - 1], n)
  BY NormalizedStepwise
<1> DEFINE N == Len(threats)
           T == { n \in Nat : n <= N => Apart(f[n], n) }
<1>2. N \in Nat /\ DOMAIN threats = 1..N
  BY DEF Drawn
<1>3. 0 \in T
  <2>1. 1..Len(f[0]) = {}
    BY <1>1
  <2> QED BY <2>1 DEF Apart
<1>4. ASSUME NEW n \in Nat, n \in T PROVE n + 1 \in T
  <2> SUFFICES ASSUME n + 1 <= N PROVE Apart(f[n + 1], n + 1)
    OBVIOUS
  <2>1. n + 1 \in 1..N /\ (n + 1) - 1 = n /\ n \in 0..N
    BY <1>2
  <2>2. /\ f[n + 1] = WithThreat(threats, f[n], n + 1) /\ f[n] \in Seq(Seq(Nat))
        /\ Apart(f[n], n) /\ Len(threats[n + 1].id) < 2
    <3>1. n + 1 \in DOMAIN threats
      BY <1>2, <2>1
    <3>2. Len(threats[n + 1].id) < 2
      BY <3>1
    <3> QED BY <1>1, <1>4, <2>1, <3>2
  <2> QED BY <2>1, <2>2, StillApart
<1>5. N \in T
  <2> HIDE DEF T
  <2> QED BY <1>2, <1>3, <1>4, Induct
<1>6. Apart(f[N], N) /\ DOMAIN f[N] = 1..Len(f[N])
  BY <1>2, <1>5
<1> QED BY <1>1, <1>6 DEF Apart

-----------------------------------------------------------------------------
(***************************************************************************)
(* The sources of a report.                                                *)
(***************************************************************************)
Distinct(srcs) ==
  /\ \A s \in srcs : s.chunk \in Offered
  /\ \A s, t \in srcs : s.id = t.id \/ s.chunk = t.chunk => s = t

LEMMA OfferedChunks ==
  ASSUME NEW c \in Offered
  PROVE  /\ c = <<c[1], c[2]>>
         /\ \/ c[1] = "policy" /\ c[2] \in 1..chunks.policy
            \/ c[1] = "history" /\ c[2] \in 1..chunks.history
BY DEF Offered

LEMMA EverythingNamed ==
  ASSUME PipelineOK
  PROVE  Distinct(Everything)
<1> DEFINE id(c) == IF c[1] = "policy" THEN c[2] ELSE chunks.policy + c[2]
<1>1. chunks.policy \in Nat /\ chunks.history \in Nat
  <2>1. MaxPolicy \in Nat /\ MaxHistory \in Nat
    BY PipelineAssumption
  <2> QED BY <2>1 DEF PipelineOK
<1>2. ASSUME NEW c \in Offered, NEW d \in Offered, id(c) = id(d) PROVE c = d
  <2>1. /\ c = <<c[1], c[2]>> /\ d = <<d[1], d[2]>>
        /\ \/ c[1] = "policy" /\ c[2] \in 1..chunks.policy
           \/ c[1] = "history" /\ c[2] \in 1..chunks.history
        /\ \/ d[1] = "policy" /\ d[2] \in 1..chunks.policy
           \/ d[1] = "history" /\ d[2] \in 1..chunks.history
    BY OfferedChunks
  <2>2. c[1] = d[1] /\ c[2] = d[2]
    BY <1>1, <1>2, <2>1
  <2> QED BY <2>1, <2>2
<1>3. Everything = { [id |-> id(c), chunk |-> c] : c \in Offered }
  BY DEF Everything
<1> HIDE DEF id
<1> QED BY <1>2, <1>3 DEF Distinct

LEMMA DeclaredNamed ==
  ASSUME NEW names \in Seq({"policy", "history"} \X Nat)
  PROVE  Distinct(Declared(names))
<1>1. DOMAIN names \subseteq Nat
  OBVIOUS
<1>2. ASSUME NEW s \in Declared(names)
      PROVE  /\ s.id \in Nat /\ s = [id |-> s.id, chunk |-> names[s.id]] /\ s.chunk \in Offered
             /\ \A j \in 1..(s.id - 1) : names[j] # s.chunk
             /\ s.id \in DOMAIN names
  BY <1>1 DEF Declared
<1>3. ASSUME NEW s \in Declared(names), NEW t \in Declared(names), s.chunk = t.chunk PROVE s.id = t.id
  <2>1. s.id \in Nat /\ t.id \in Nat /\ s.id >= 1 /\ t.id >= 1
    BY <1>2
  <2>2. names[s.id] = s.chunk /\ names[t.id] = t.chunk
    BY <1>2
  <2>3. ~(s.id < t.id)
    <3>1. s.id < t.id => s.id \in 1..(t.id - 1)
      BY <2>1
    <3> QED BY <1>2, <1>3, <2>2, <3>1
  <2>4. ~(t.id < s.id)
    <3>1. t.id < s.id => t.id \in 1..(s.id - 1)
      BY <2>1
    <3> QED BY <1>2, <1>3, <2>2, <3>1
  <2> QED BY <2>1, <2>3, <2>4
<1> QED BY <1>2, <1>3 DEF Distinct

\* Every report that an answer is made into can be traced.
TraceableReport(r) ==
  /\ Distinct(r.sources)
  /\ r.findings \in Nat
  /\ r.parsed =>
       /\ Len(r.threats) = Cardinality({ i \in DOMAIN reply.threats : reply.threats[i].usable })
       /\ (\A i \in DOMAIN reply.threats : Len(reply.threats[i].id) < 2) =>
            \A i, j \in DOMAIN r.threats : r.threats[i] = r.threats[j] => i = j

LEMMA ParsedTraced ==
  ASSUME PipelineOK, NEW v
  PROVE  TraceableReport([Parsed(reply) EXCEPT !.verified = v])
<1> DEFINE r == [Parsed(reply) EXCEPT !.verified = v]
<1> SUFFICES TraceableReport(r)
  OBVIOUS
<1>1. CASE reply = Unparsed
  <2>1. r.sources = Everything /\ r.parsed = FALSE /\ r.findings = 0
    BY <1>1 DEF Parsed, NoReport
  <2> HIDE DEF r
  <2> QED BY <2>1, EverythingNamed DEF TraceableReport
<1>2. CASE reply # Unparsed
  <2>1. reply \in Replies
    BY <1>2 DEF PipelineOK
  <2>2. /\ r.sources = ReportSources(reply.sources) /\ r.threats = Normalized(reply.threats)
        /\ r.findings = reply.findings
    BY <1>2 DEF Parsed
  <2>3. /\ reply.findings \in Nat /\ reply.sources \in Seq({"policy", "history"} \X Nat)
        /\ reply.threats \in Drawn
    BY <2>1, PipelineAssumption DEF Drawn
  <2>4. Distinct(r.sources)
    BY <2>2, <2>3, EverythingNamed, DeclaredNamed DEF ReportSources
  <2> HIDE DEF r
  <2>5. Len(r.threats) = Cardinality({ i \in DOMAIN reply.threats : reply.threats[i].usable })
    <3> HIDE DEF Drawn
    <3> QED BY <2>2, <2>3, ThreatsCounted
  <2>6. (\A i \in DOMAIN reply.threats : Len(reply.threats[i].id) < 2) =>
          \A i, j \in DOMAIN r.threats : r.threats[i] = r.threats[j] => i = j
    <3> SUFFICES ASSUME \A i \in DOMAIN reply.threats : Len(reply.threats[i].id) < 2
                 PROVE  \A i, j \in DOMAIN r.threats : r.threats[i] = r.threats[j] => i = j
      OBVIOUS
    <3> DEFINE drawn == reply.threats
    <3>1. drawn \in Drawn /\ r.threats = Normalized(drawn)
          /\ \A i \in DOMAIN drawn : Len(drawn[i].id) < 2
      BY <2>2, <2>3
    <3> HIDE DEF drawn
    <3> QED BY <3>1, ThreatsApart
  <2>7. r.findings \in Nat
    BY <2>2, <2>3
  <2> QED BY <2>4, <2>5, <2>6, <2>7 DEF TraceableReport
<1> QED BY <1>1, <1>2

-----------------------------------------------------------------------------
(***************************************************************************)
(* The nodes of the graph.                                                 *)
(***************************************************************************)
\* A report is what the parser made of the reply and of the chunks that are
\* still those that were offered; sections are those of the text.
Derived ==
  /\ node \in {"gather", "draft", "review", "parse", "raised"} => report = NoReport
  /\ node \in {"verify", "evaluate", "persist", "done"} =>
       \E v : report = [Parsed(reply) EXCEPT !.verified = v]
  /\ sections = <<>> \/ sections = Pieces(task.text)

PipelineInv == PipelineOK /\ Derived /\ RowsAllOrNothing

LEMMA PipelineInitially == PipelineInit => PipelineInv
<1> SUFFICES ASSUME PipelineInit PROVE PipelineInv
  OBVIOUS
<1>1. MaxPolicy \in Nat /\ MaxHistory \in Nat /\ MaxAttempts \in Nat /\ MaxAttempts > 0
  BY PipelineAssumption
<1>2. PipelineOK
  BY <1>1 DEF PipelineInit, PipelineOK, Nodes
<1> QED BY <1>1, <1>2 DEF PipelineInit, PipelineInv, Derived, RowsAllOrNothing

LEMMA PipelineSteps == PipelineInv /\ [PipelineNext]_pipeline => PipelineInv'
<1> SUFFICES ASSUME PipelineInv, [PipelineNext]_pipeline PROVE PipelineInv'
  OBVIOUS
<1>1. MaxPolicy \in Nat /\ MaxHistory \in Nat /\ MaxAttempts \in Nat /\ attempt \in 1..MaxAttempts
  BY PipelineAssumption DEF PipelineInv, PipelineOK
<1>2. report.findings \in Nat
  <2>1. report = NoReport \/ \E v : report = [Parsed(reply) EXCEPT !.verified = v]
    BY DEF PipelineInv, PipelineOK, Derived, Nodes
  <2>2. NoReport.findings \in Nat
    BY DEF NoReport
  <2>3. \A v : TraceableReport([Parsed(reply) EXCEPT !.verified = v])
    BY ParsedTraced DEF PipelineInv
  <2> QED BY <2>1, <2>2, <2>3 DEF TraceableReport
<1> USE DEF PipelineInv, At
<1>3. ASSUME NEW p \in 0..MaxPolicy, NEW h \in 0..MaxHistory, Gather(p, h) PROVE PipelineInv'
  BY <1>3 DEF Gather, PipelineOK, Nodes, Derived, RowsAllOrNothing
<1>4. CASE Draft
  BY <1>4 DEF Draft, PipelineOK, Nodes, Derived, RowsAllOrNothing
<1>5. ASSUME NEW answer \in Replies \cup {Unparsed}, Review(answer) PROVE PipelineInv'
  BY <1>5 DEF Review, PipelineOK, Nodes, Derived, RowsAllOrNothing
<1>6. CASE Parse
  <2>1. /\ reply' = reply /\ chunks' = chunks /\ report' = Parsed(reply)
        /\ Parsed(reply).verified = FALSE
    BY <1>6 DEF Parse, Parsed, NoReport
  <2>2. Parsed(reply)' = Parsed(reply)
    BY <2>1 DEF Parsed, ReportSources, Everything, Declared, Offered
  <2>3. report' = [Parsed(reply) EXCEPT !.verified = FALSE]'
    BY <2>1, <2>2 DEF Parsed, NoReport
  <2>4. PipelineOK' /\ Derived'
    BY <1>6, <2>3 DEF Parse, PipelineOK, Nodes, Derived
  <2> QED BY <1>6, <2>4 DEF Parse, RowsAllOrNothing
<1>7. ASSUME NEW v, report' = [report EXCEPT !.verified = v], node = "verify", node' = "evaluate",
             UNCHANGED <<task, chunks, sections, reply, outcome, controlRows, attempt>>
      PROVE  PipelineInv'
  <2>1. Parsed(reply)' = Parsed(reply)
    BY <1>7 DEF Parsed, ReportSources, Everything, Declared, Offered
  <2>2. PICK w : report = [Parsed(reply) EXCEPT !.verified = w]
    BY <1>7 DEF Derived
  <2>3. report' = [Parsed(reply)' EXCEPT !.verified = v]
    BY <1>7, <2>1, <2>2
  <2>4. PipelineOK' /\ Derived'
    BY <1>7, <2>3 DEF PipelineOK, Nodes, Derived
  <2> QED BY <1>7, <2>4 DEF RowsAllOrNothing
<1>8. ASSUME UNCHANGED <<task, chunks, sections, reply, report>>,
             node' \in {"persist", "done"}, node \in {"evaluate", "persist"}, attempt' = attempt,
             outcome' \in {"none", "passed", "needs_review", "failed"},
             \/ controlRows' = controlRows
             \/ /\ node' = "done"
                /\ controlRows' = [controlRows EXCEPT ![attempt] =
                                    IF task.project = "uuid" THEN report.findings ELSE 0]
      PROVE  PipelineInv'
  <2>1. Parsed(reply)' = Parsed(reply)
    BY <1>8 DEF Parsed, ReportSources, Everything, Declared, Offered
  <2>2. PipelineOK'
    BY <1>2, <1>8 DEF PipelineOK, Nodes
  <2>3. Derived'
    BY <1>8, <2>1 DEF Derived
  <2>4. RowsAllOrNothing'
    BY <1>1, <1>2, <1>8 DEF RowsAllOrNothing, PipelineOK
  <2> QED BY <2>2, <2>3, <2>4
<1>9. CASE Verify
  BY <1>7, <1>9 DEF Verify
<1>10. CASE EvaluateReport
  <2>1. outcome' \in {"none", "passed", "needs_review", "failed"}
    BY <1>10 DEF EvaluateReport, Evaluation
  <2> QED BY <1>8, <1>10, <2>1 DEF EvaluateReport
<1>11. CASE Persist \/ PersistFails
  <2>1. outcome' \in {"none", "passed", "needs_review", "failed"}
    BY <1>11 DEF Persist, PersistFails, PipelineOK
  <2> QED BY <1>8, <1>11, <2>1 DEF Persist, PersistFails
<1>12. CASE Raise
  <2>1. node \in {"draft", "review", "parse"}
    BY <1>12 DEF Raise
  <2> QED BY <1>12, <2>1 DEF Raise, PipelineOK, Nodes, Derived, RowsAllOrNothing
<1>13. CASE Again
  <2>1. attempt + 1 \in 1..MaxAttempts
    BY <1>1, <1>13 DEF Again
  <2>2. PipelineOK'
    BY <1>1, <1>13, <2>1 DEF Again, Anew, PipelineOK, Nodes
  <2>3. Derived' /\ RowsAllOrNothing'
    BY <1>1, <1>13, <2>1 DEF Again, Anew, Derived, RowsAllOrNothing
  <2> QED BY <2>2, <2>3
<1>14. CASE UNCHANGED pipeline
  <2>1. Parsed(reply)' = Parsed(reply)
    BY <1>14 DEF pipeline, Parsed, ReportSources, Everything, Declared, Offered
  <2> QED BY <1>14, <2>1 DEF pipeline, PipelineOK, Derived, RowsAllOrNothing
<1> QED BY <1>3, <1>4, <1>5, <1>6, <1>9, <1>10, <1>11, <1>12, <1>13, <1>14 DEF PipelineNext

\* The state of the graph has its types, and what a node leaves to the next is
\* made of the text, the chunks and the reply (run_assessment_graph).
THEOREM PipelineInvariance == PipelineSpec => []PipelineInv
BY PipelineInitially, PipelineSteps, PTL DEF PipelineSpec

\* For every text the sections that are drafted read all of it in order, none
\* longer than its limit, each taking up what the last one ended with
\* (_split_text_with_overlap).
THEOREM SectionsReadAll == PipelineSpec => []SectionsCover
<1>1. PipelineInv => SectionsCover
  <2> SUFFICES ASSUME PipelineInv, sections # <<>> PROVE SectionsCover
    BY DEF SectionsCover
  <2>1. sections = Pieces(task.text) /\ task.text \in Texts
    BY DEF PipelineInv, Derived, PipelineOK, Tasks
  <2>2. CASE task.text.length > Threshold
    <3>1. Covers(task.text, sections, 0)
      BY <2>1, <2>2, SectionsCovered DEF Pieces
    <3>2. DOMAIN sections = 1..Len(sections)
      BY <3>1 DEF Covers
    <3> QED BY <3>1, <3>2 DEF Covers, SectionsCover
  <2>3. CASE ~(task.text.length > Threshold)
    <3>1. sections = <<[from |-> 0, to |-> task.text.length]>>
      BY <2>1, <2>3 DEF Pieces
    <3> QED BY <3>1 DEF SectionsCover
  <2> QED BY <2>2, <2>3
<1> QED BY <1>1, PipelineInvariance, PTL

\* Every source of a report stands for a chunk that the reviewer was given, under
\* an id of its own, every usable threat is in it, and an attempt leaves all its
\* findings among the project's controls or none (_parse_sources,
\* _normalize_threat_model and the nodes of the graph), for any reply.
THEOREM ReportsAreTraceable == PipelineSpec => []ReportTraceable
<1>1. PipelineInv => ReportTraceable
  <2> SUFFICES ASSUME PipelineInv PROVE ReportTraceable
    OBVIOUS
  <2>1. RowsAllOrNothing
    BY DEF PipelineInv
  <2>2. Traceable
    <3> SUFFICES ASSUME report # NoReport PROVE Traceable
      BY DEF Traceable
    <3>1. PICK v : report = [Parsed(reply) EXCEPT !.verified = v]
      BY DEF PipelineInv, PipelineOK, Derived, Nodes
    <3>2. PipelineOK
      BY DEF PipelineInv
    <3>3. TraceableReport(report)
      BY <3>1, <3>2, ParsedTraced
    <3> QED BY <3>3, Zenon DEF Traceable, TraceableReport, Distinct
  <2> QED BY <2>1, <2>2 DEF ReportTraceable
<1> QED BY <1>1, PipelineInvariance, PTL

-----------------------------------------------------------------------------
(***************************************************************************)
(* Packing paragraphs into chunks.                                         *)
(***************************************************************************)
Paragraph == [at : Nat, size : Nat]
Packing == [chunks : Seq(Seq(Paragraph)), current : Seq(Paragraph)]

\* A paragraph as it is in a chunk: its end is lost if it does not fit.
KeptAs(p, x, cap) == x.at = p.at /\ (p.size <= cap => x = p)

\* What is where: the chunk, the place in it and the paragraph.
Placed(packed) ==
  { e \in Nat \X Nat \X Paragraph :
      \/ /\ e[1] \in 1..Len(packed.chunks) /\ e[2] \in 1..Len(packed.chunks[e[1]])
         /\ e[3] = packed.chunks[e[1]][e[2]]
      \/ /\ e[1] = Len(packed.chunks) + 1 /\ e[2] \in 1..Len(packed.current)
         /\ e[3] = packed.current[e[2]] }

LEMMA PlacedOneMore ==
  ASSUME NEW packed \in Packing, NEW p \in Paragraph, NEW cap \in Nat
  PROVE  /\ WithParagraph(packed, p, cap) \in Packing
         /\ \E e \in Nat \X Nat \X Paragraph :
              /\ KeptAs(p, e[3], cap)
              /\ \A d \in Placed(packed) : ~(d[1] = e[1] /\ d[2] = e[2])
              /\ Placed(WithParagraph(packed, p, cap)) = Placed(packed) \cup {e}
<1> DEFINE full == ~((IF packed.current = <<>> THEN 0 ELSE ChunkSize(packed.current) - 2) + p.size + 2 <= cap)
           new == WithParagraph(packed, p, cap)
           cs == packed.chunks
           c == packed.current
<1>1. cs \in Seq(Seq(Paragraph)) /\ c \in Seq(Paragraph) /\ Len(cs) \in Nat /\ Len(c) \in Nat
      /\ p.size \in Nat /\ p.at \in Nat
  BY DEF Packing, Paragraph
<1> DEFINE q == [p EXCEPT !.size = Min({@, cap})]
<1>2. q \in Paragraph /\ KeptAs(p, q, cap)
  <2>1. Min({p.size, cap}) = IF p.size <= cap THEN p.size ELSE cap
    BY <1>1, LesserOf
  <2>2. q = [p EXCEPT !.size = IF p.size <= cap THEN p.size ELSE cap]
    BY <2>1 DEF Paragraph
  <2> QED BY <1>1, <2>2 DEF KeptAs, Paragraph
<1>3. CASE ~full
  <2>1. new.chunks = cs /\ new.current = Append(c, p) /\ new \in Packing
    <3>1. new = [packed EXCEPT !.current = Append(@, p)]
      BY <1>3 DEF WithParagraph
    <3>2. new = [chunks |-> cs, current |-> Append(c, p)]
      BY <3>1 DEF Packing
    <3>3. Append(c, p) \in Seq(Paragraph)
      BY <1>1
    <3> QED BY <1>1, <3>2, <3>3 DEF Packing
  <2> DEFINE e == <<Len(cs) + 1, Len(c) + 1, p>>
  <2> HIDE DEF new, cs, c
  <2>2. /\ Len(Append(c, p)) = Len(c) + 1 /\ Append(c, p)[Len(c) + 1] = p
        /\ \A m \in 1..Len(c) : Append(c, p)[m] = c[m]
    BY <1>1
  <2>3. Placed(new) = Placed(packed) \cup {e}
    BY <1>1, <2>1, <2>2 DEF Placed, cs, c
  <2>4. \A d \in Placed(packed) : ~(d[1] = e[1] /\ d[2] = e[2])
    BY <1>1 DEF Placed, cs, c
  <2>5. e \in Nat \X Nat \X Paragraph /\ KeptAs(p, e[3], cap)
    BY <1>1 DEF KeptAs
  <2> QED BY <2>1, <2>3, <2>4, <2>5 DEF new
<1>4. CASE full /\ c = <<>>
  <2>1. new.chunks = cs /\ new.current = <<q>> /\ new \in Packing
    BY <1>1, <1>2, <1>4 DEF WithParagraph, Packing
  <2> DEFINE e == <<Len(cs) + 1, 1, q>>
  <2> HIDE DEF new, cs, c, q
  <2>2. Len(<<q>>) = 1 /\ <<q>>[1] = q /\ Len(c) = 0
    BY <1>4
  <2>3. Placed(new) = Placed(packed) \cup {e}
    BY <1>1, <1>2, <2>1, <2>2 DEF Placed, cs, c
  <2>4. \A d \in Placed(packed) : ~(d[1] = e[1] /\ d[2] = e[2])
    BY <1>1, <2>2 DEF Placed, cs, c
  <2>5. e \in Nat \X Nat \X Paragraph /\ KeptAs(p, e[3], cap)
    BY <1>1, <1>2
  <2> QED BY <2>1, <2>3, <2>4, <2>5 DEF new
<1>5. CASE full /\ c # <<>>
  <2>1. new.chunks = Append(cs, c) /\ new.current = <<q>> /\ new \in Packing
    BY <1>1, <1>2, <1>5 DEF WithParagraph, Packing
  <2> DEFINE e == <<Len(cs) + 2, 1, q>>
  <2> HIDE DEF new, cs, c, q
  <2>2. Len(<<q>>) = 1 /\ <<q>>[1] = q
    OBVIOUS
  <2>3. /\ Len(Append(cs, c)) = Len(cs) + 1 /\ Append(cs, c)[Len(cs) + 1] = c
        /\ \A m \in 1..Len(cs) : Append(cs, c)[m] = cs[m]
    BY <1>1
  <2>4. Placed(new) = Placed(packed) \cup {e}
    BY <1>1, <1>2, <2>1, <2>2, <2>3 DEF Placed, cs, c
  <2>5. \A d \in Placed(packed) : ~(d[1] = e[1] /\ d[2] = e[2])
    BY <1>1 DEF Placed, cs, c
  <2>6. e \in Nat \X Nat \X Paragraph /\ KeptAs(p, e[3], cap)
    BY <1>1, <1>2
  <2> QED BY <2>1, <2>4, <2>5, <2>6 DEF new
<1> QED BY <1>3, <1>4, <1>5

LEMMA PackedStepwise ==
  ASSUME NEW P \in Seq(Paragraph), NEW cap \in Nat
  PROVE  \E f \in [0..Len(P) -> Packing] :
           /\ Packed(P, cap) = IF f[Len(P)].current = <<>> THEN f[Len(P)].chunks
                               ELSE Append(f[Len(P)].chunks, f[Len(P)].current)
           /\ f[0] = [chunks |-> <<>>, current |-> <<>>]
           /\ \A n \in 1..Len(P) : f[n] = WithParagraph(f[n - 1], P[n], cap)
<1> DEFINE N == Len(P)
           start == [chunks |-> <<>>, current |-> <<>>]
           packed[n \in 0..N] ==
             IF n = 0 THEN start ELSE WithParagraph(packed[n - 1], P[n], cap)
           step == [v \in Packing \X (1..N) |-> WithParagraph(v[1], P[v[2]], cap)]
<1>1. Packed(P, cap) = IF packed[N].current = <<>> THEN packed[N].chunks
                       ELSE Append(packed[N].chunks, packed[N].current)
  BY DEF Packed
<1>2. packed = CHOOSE g : g = [n \in 0..N |-> IF n = 0 THEN start ELSE WithParagraph(g[n - 1], P[n], cap)]
  OBVIOUS
<1> HIDE DEF packed
<1>3. N \in Nat /\ start \in Packing /\ \A n \in 1..N : P[n] \in Paragraph
  BY DEF Packing
<1>4. ASSUME NEW x \in Packing, NEW n \in 1..N PROVE WithParagraph(x, P[n], cap) \in Packing
  BY <1>3, PlacedOneMore
<1>5. PICK f \in [0..N -> Packing] : f[0] = start /\ \A n \in 1..N : f[n] = step[<<f[n - 1], n>>]
  <2>1. step \in Steps(Packing, N)
    BY <1>4 DEF Steps
  <2> HIDE DEF N, step, start
  <2>2. \E f \in [0..N -> Packing] : Follows(f, N, start, step)
    BY <1>3, <2>1, Recursion
  <2> QED BY <2>2 DEF Follows
<1>6. ASSUME NEW n \in 1..N PROVE f[n] = WithParagraph(f[n - 1], P[n], cap)
  <2>1. f[n - 1] \in Packing
    BY <1>3
  <2> QED BY <1>5, <2>1
<1>7. f = [n \in 0..N |-> IF n = 0 THEN start ELSE WithParagraph(f[n - 1], P[n], cap)]
  <2> HIDE DEF step, start
  <2>1. DOMAIN f = 0..N /\ f[0] = start
    BY <1>3, <1>5
  <2>2. \A n \in 0..N : f[n] = IF n = 0 THEN start ELSE WithParagraph(f[n - 1], P[n], cap)
    BY <1>3, <1>6, <2>1
  <2> QED BY <2>1, <2>2
<1> HIDE DEF start
<1>8. packed = [n \in 0..N |-> IF n = 0 THEN start ELSE WithParagraph(packed[n - 1], P[n], cap)]
  BY <1>2, <1>7
<1>9. packed[0] = start /\ \A n \in 1..N : packed[n] = WithParagraph(packed[n - 1], P[n], cap)
  BY <1>3, <1>8
<1>10. \A n \in 0..N : packed[n] \in Packing
  <2>1. packed[0] \in Packing
    BY <1>3, <1>9
  <2>2. ASSUME NEW n \in 1..N, packed[n - 1] \in Packing PROVE packed[n] \in Packing
    BY <1>4, <1>9, <2>2
  <2> QED BY <1>3, <2>1, <2>2, StepByStep
<1> QED BY <1>1, <1>3, <1>8, <1>9, <1>10 DEF start

\* Chunks that hold every one of the paragraphs once.
Carries(held, P, cap) ==
  /\ held \in Seq(Seq(Paragraph))
  /\ \A j \in 1..Len(P) : \E k \in 1..Len(held) : \E m \in 1..Len(held[k]) :
       KeptAs(P[j], held[k][m], cap)
  /\ \A k \in 1..Len(held) : \A m \in 1..Len(held[k]) : \E j \in 1..Len(P) :
       KeptAs(P[j], held[k][m], cap)
  /\ \A k, l \in 1..Len(held) : \A m \in 1..Len(held[k]), n \in 1..Len(held[l]) :
       held[k][m].at = held[l][n].at => k = l /\ m = n

AllDifferent(P) == \A i, j \in 1..Len(P) : P[i].at = P[j].at => i = j

\* The same of a packing under way, for the first n paragraphs.
CarriesSoFar(packed, P, n, cap) ==
  /\ \A j \in 1..n : \E e \in Placed(packed) : KeptAs(P[j], e[3], cap)
  /\ \A e \in Placed(packed) : \E j \in 1..n : KeptAs(P[j], e[3], cap)
  /\ \A d, e \in Placed(packed) : d[3].at = e[3].at => d[1] = e[1] /\ d[2] = e[2]

LEMMA PositionsOf ==
  ASSUME NEW S, NEW R \in Seq(Seq(S))
  PROVE  \A k \in 1..Len(R) : \A m \in 1..Len(R[k]) : R[k][m] \in S /\ k \in Nat /\ m \in Nat
<1>1. ASSUME NEW k \in 1..Len(R), NEW m \in 1..Len(R[k]) PROVE R[k][m] \in S /\ k \in Nat /\ m \in Nat
  <2>1. R[k] \in Seq(S) /\ k \in Nat
    OBVIOUS
  <2> QED BY <2>1
<1> QED BY <1>1

LEMMA PackedHolds ==
  ASSUME NEW P \in Seq(Paragraph), NEW cap \in Nat, AllDifferent(P)
  PROVE  Carries(Packed(P, cap), P, cap)
<1> DEFINE N == Len(P)
<1>1. PICK f \in [0..N -> Packing] :
        /\ Packed(P, cap) = IF f[N].current = <<>> THEN f[N].chunks
                            ELSE Append(f[N].chunks, f[N].current)
        /\ f[0] = [chunks |-> <<>>, current |-> <<>>]
        /\ \A n \in 1..N : f[n] = WithParagraph(f[n - 1], P[n], cap)
  BY PackedStepwise
<1>2. N \in Nat /\ \A n \in 1..N : P[n] \in Paragraph
  OBVIOUS
<1> DEFINE T == { n \in Nat : n <= N => CarriesSoFar(f[n], P, n, cap) }
<1>3. 0 \in T
  <2>1. Placed(f[0]) = {}
    BY <1>1 DEF Placed
  <2> QED BY <2>1 DEF CarriesSoFar
<1>4. ASSUME NEW n \in Nat, n \in T PROVE n + 1 \in T
  <2> SUFFICES ASSUME n + 1 <= N PROVE CarriesSoFar(f[n + 1], P, n + 1, cap)
    OBVIOUS
  <2>1. n + 1 \in 1..N /\ (n + 1) - 1 = n /\ n \in 0..N /\ n <= N
    BY <1>2
  <2>2. /\ f[n + 1] = WithParagraph(f[n], P[n + 1], cap) /\ f[n] \in Packing
        /\ P[n + 1] \in Paragraph /\ CarriesSoFar(f[n], P, n, cap)
    BY <1>1, <1>2, <1>4, <2>1
  <2>3. PICK e \in Nat \X Nat \X Paragraph :
          /\ KeptAs(P[n + 1], e[3], cap)
          /\ \A d \in Placed(f[n]) : ~(d[1] = e[1] /\ d[2] = e[2])
          /\ Placed(f[n + 1]) = Placed(f[n]) \cup {e}
    <3> DEFINE x == f[n]
               p == P[n + 1]
    <3>1. x \in Packing /\ p \in Paragraph
      BY <2>2
    <3>2. f[n + 1] = WithParagraph(x, p, cap)
      BY <2>2
    <3> HIDE DEF x, p
    <3>3. \E e \in Nat \X Nat \X Paragraph :
            /\ KeptAs(p, e[3], cap)
            /\ \A d \in Placed(x) : ~(d[1] = e[1] /\ d[2] = e[2])
            /\ Placed(WithParagraph(x, p, cap)) = Placed(x) \cup {e}
      BY <3>1, PlacedOneMore
    <3> QED BY <3>2, <3>3 DEF x, p
  <2>4. \A j \in 1..(n + 1) : j \in 1..n \/ j = n + 1
    OBVIOUS
  <2>5. \A j \in 1..(n + 1) : \E d \in Placed(f[n + 1]) : KeptAs(P[j], d[3], cap)
    BY <2>2, <2>3, <2>4 DEF CarriesSoFar
  <2>6. \A d \in Placed(f[n + 1]) : \E j \in 1..(n + 1) : KeptAs(P[j], d[3], cap)
    <3>1. n + 1 \in 1..(n + 1) /\ 1..n \subseteq 1..(n + 1)
      OBVIOUS
    <3> QED BY <2>2, <2>3, <3>1 DEF CarriesSoFar
  <2>7. ASSUME NEW d \in Placed(f[n]) PROVE d[3].at # e[3].at
    <3>1. PICK j \in 1..n : d[3].at = P[j].at
      BY <2>2 DEF CarriesSoFar, KeptAs
    <3>2. e[3].at = P[n + 1].at
      BY <2>3 DEF KeptAs
    <3>3. j \in 1..N /\ n + 1 \in 1..N /\ j # n + 1
      BY <1>2, <2>1
    <3> QED BY <3>1, <3>2, <3>3 DEF AllDifferent
  <2> QED BY <2>2, <2>3, <2>5, <2>6, <2>7 DEF CarriesSoFar
<1>5. CarriesSoFar(f[N], P, N, cap)
  <2>1. N \in T
    <3> HIDE DEF T
    <3> QED BY <1>2, <1>3, <1>4, Induct
  <2> QED BY <1>2, <2>1
<1> DEFINE cs == f[N].chunks
           c == f[N].current
           R == Packed(P, cap)
<1>6. cs \in Seq(Seq(Paragraph)) /\ c \in Seq(Paragraph) /\ Len(cs) \in Nat
  BY <1>2 DEF Packing
<1>7. /\ R \in Seq(Seq(Paragraph))
      /\ \A k \in 1..Len(R) : \A m \in 1..Len(R[k]) : <<k, m, R[k][m]>> \in Placed(f[N])
      /\ \A d \in Placed(f[N]) : /\ d[1] \in 1..Len(R) /\ d[2] \in 1..Len(R[d[1]])
                                /\ d[3] = R[d[1]][d[2]]
  <2>1. R = IF c = <<>> THEN cs ELSE Append(cs, c)
    BY <1>1
  <2> HIDE DEF R
  <2>2. CASE c = <<>>
    <3>1. R = cs /\ Len(c) = 0
      BY <2>1, <2>2
    <3>2. R \in Seq(Seq(Paragraph))
      BY <1>6, <3>1
    <3>3. \A k \in 1..Len(cs) : \A m \in 1..Len(cs[k]) : cs[k][m] \in Paragraph /\ k \in Nat /\ m \in Nat
      BY <1>6, PositionsOf
    <3>4. \A k \in 1..Len(cs) : \A m \in 1..Len(cs[k]) : <<k, m, cs[k][m]>> \in Placed(f[N])
      BY <3>3 DEF Placed
    <3>5. \A d \in Placed(f[N]) : d[1] \in 1..Len(cs) /\ d[2] \in 1..Len(cs[d[1]]) /\ d[3] = cs[d[1]][d[2]]
      BY <1>6, <3>1 DEF Placed
    <3> QED BY <3>1, <3>2, <3>4, <3>5
  <2>3. CASE c # <<>>
    <3>1. R = Append(cs, c)
      BY <2>1, <2>3
    <3> HIDE DEF cs, c
    <3>2. /\ R \in Seq(Seq(Paragraph)) /\ Len(R) = Len(cs) + 1 /\ R[Len(cs) + 1] = c
          /\ \A k \in 1..Len(cs) : R[k] = cs[k]
      BY <1>6, <3>1
    <3>3. \A k \in 1..Len(R) : \A m \in 1..Len(R[k]) : R[k][m] \in Paragraph /\ k \in Nat /\ m \in Nat
      BY <3>2, PositionsOf
    <3>4. \A k \in 1..Len(R) : k \in 1..Len(cs) \/ k = Len(cs) + 1
      BY <1>6, <3>2
    <3>5. \A k \in 1..Len(R) : \A m \in 1..Len(R[k]) : <<k, m, R[k][m]>> \in Placed(f[N])
      BY <3>2, <3>3, <3>4 DEF Placed, cs, c
    <3>6. \A d \in Placed(f[N]) : d[1] \in 1..Len(R) /\ d[2] \in 1..Len(R[d[1]]) /\ d[3] = R[d[1]][d[2]]
      <4> SUFFICES ASSUME NEW d \in Placed(f[N])
                   PROVE  d[1] \in 1..Len(R) /\ d[2] \in 1..Len(R[d[1]]) /\ d[3] = R[d[1]][d[2]]
        OBVIOUS
      <4>1. CASE d[1] \in 1..Len(cs) /\ d[2] \in 1..Len(cs[d[1]]) /\ d[3] = cs[d[1]][d[2]]
        BY <1>6, <3>2, <4>1
      <4>2. CASE d[1] = Len(cs) + 1 /\ d[2] \in 1..Len(c) /\ d[3] = c[d[2]]
        BY <1>6, <3>2, <4>2
      <4> QED BY <4>1, <4>2 DEF Placed, cs, c
    <3> QED BY <3>2, <3>5, <3>6
  <2> QED BY <2>2, <2>3
<1> HIDE DEF R
<1>8. \A j \in 1..N : \E k \in 1..Len(R) : \E m \in 1..Len(R[k]) : KeptAs(P[j], R[k][m], cap)
  <2> SUFFICES ASSUME NEW j \in 1..N PROVE \E k \in 1..Len(R) : \E m \in 1..Len(R[k]) : KeptAs(P[j], R[k][m], cap)
    OBVIOUS
  <2>1. PICK d \in Placed(f[N]) : KeptAs(P[j], d[3], cap)
    BY <1>5 DEF CarriesSoFar
  <2> QED BY <1>7, <2>1
<1>9. \A k \in 1..Len(R) : \A m \in 1..Len(R[k]) : \E j \in 1..N : KeptAs(P[j], R[k][m], cap)
  <2> SUFFICES ASSUME NEW k \in 1..Len(R), NEW m \in 1..Len(R[k]) PROVE \E j \in 1..N : KeptAs(P[j], R[k][m], cap)
    OBVIOUS
  <2>1. <<k, m, R[k][m]>> \in Placed(f[N])
    BY <1>7
  <2>2. PICK j \in 1..N : KeptAs(P[j], <<k, m, R[k][m]>>[3], cap)
    BY <1>5, <2>1 DEF CarriesSoFar
  <2> QED BY <2>2
<1>10. ASSUME NEW k \in 1..Len(R), NEW l \in 1..Len(R), NEW m \in 1..Len(R[k]), NEW n \in 1..Len(R[l]),
              R[k][m].at = R[l][n].at
       PROVE  k = l /\ m = n
  <2> DEFINE d == <<k, m, R[k][m]>>
             e == <<l, n, R[l][n]>>
  <2>1. d \in Placed(f[N]) /\ e \in Placed(f[N]) /\ d[3].at = e[3].at
    BY <1>7, <1>10
  <2>2. d[1] = e[1] /\ d[2] = e[2]
    <3> HIDE DEF d, e
    <3> QED BY <1>5, <2>1 DEF CarriesSoFar
  <2> QED BY <2>2
<1> QED BY <1>7, <1>8, <1>9, <1>10 DEF Carries, R

-----------------------------------------------------------------------------
(***************************************************************************)
(* What the index finds.                                                   *)
(***************************************************************************)
LEMMA ParagraphsDiffer ==
  ASSUME NEW doc \in Docs
  PROVE  /\ ParagraphsOf(doc) \in Seq(Paragraph) /\ AllDifferent(ParagraphsOf(doc))
         /\ Len(ParagraphsOf(doc)) = Len(Sizes[doc]) /\ Len(Sizes[doc]) \in Nat
         /\ \A i \in 1..Len(Sizes[doc]) : ParagraphsOf(doc)[i] = [at |-> i, size |-> Sizes[doc][i]]
<1> DEFINE n == Len(Sizes[doc])
           P == [i \in 1..n |-> [at |-> i, size |-> Sizes[doc][i]]]
<1>1. Sizes[doc] \in Seq(Nat)
  BY KnowledgeAssumption
<1>2. n \in Nat /\ \A i \in 1..n : Sizes[doc][i] \in Nat
  BY <1>1
<1>3. \A i \in 1..n : P[i] = [at |-> i, size |-> Sizes[doc][i]] /\ P[i].at = i /\ P[i] \in Paragraph
  BY <1>2 DEF Paragraph
<1>4. P \in Seq(Paragraph) /\ Len(P) = n
  <2> HIDE DEF n
  <2>1. P \in [1..n -> Paragraph]
    BY <1>3
  <2> HIDE DEF P
  <2> QED BY <1>2, <2>1
<1>5. AllDifferent(P)
  BY <1>3, <1>4 DEF AllDifferent
<1>6. ParagraphsOf(doc) = P
  BY DEF ParagraphsOf
<1> HIDE DEF P
<1> QED BY <1>2, <1>3, <1>4, <1>5, <1>6

\* A chunk's paragraphs are all different, so it can be packed again.
LEMMA ChunksDiffer ==
  ASSUME NEW P, NEW cap, NEW held, Carries(held, P, cap), NEW k \in 1..Len(held)
  PROVE  held[k] \in Seq(Paragraph) /\ AllDifferent(held[k])
<1>1. held[k] \in Seq(Paragraph)
  BY DEF Carries
<1>2. ASSUME NEW i \in 1..Len(held[k]), NEW j \in 1..Len(held[k]), held[k][i].at = held[k][j].at
      PROVE  i = j
  BY <1>2, Zenon DEF Carries
<1> QED BY <1>1, <1>2 DEF AllDifferent

LEMMA HeldOnce ==
  ASSUME NEW P, NEW cap, NEW held, Carries(held, P, cap),
         NEW k \in 1..Len(held), NEW l \in 1..Len(held),
         NEW m \in 1..Len(held[k]), NEW n \in 1..Len(held[l]),
         held[k][m].at = held[l][n].at
  PROVE  k = l
BY Zenon DEF Carries

LEMMA HeldComesFrom ==
  ASSUME NEW P, NEW cap, NEW held, Carries(held, P, cap),
         NEW k \in 1..Len(held), NEW m \in 1..Len(held[k])
  PROVE  \E j \in 1..Len(P) : P[j].at = held[k][m].at
<1>1. PICK j \in 1..Len(P) : KeptAs(P[j], held[k][m], cap)
  BY Zenon DEF Carries
<1> QED BY <1>1 DEF KeptAs

\* What fits is kept as it is.
LEMMA HeldWhole ==
  ASSUME NEW P, NEW cap, NEW held, Carries(held, P, cap), NEW j \in 1..Len(P), P[j].size <= cap
  PROVE  \E k \in 1..Len(held) : \E m \in 1..Len(held[k]) : held[k][m] = P[j]
<1>1. PICK k \in 1..Len(held) : \E m \in 1..Len(held[k]) : KeptAs(P[j], held[k][m], cap)
  BY Zenon DEF Carries
<1>2. PICK m \in 1..Len(held[k]) : KeptAs(P[j], held[k][m], cap)
  BY <1>1
<1>3. held[k][m] = P[j]
  BY <1>2 DEF KeptAs
<1> QED BY <1>3

\* Of the files that an index is built from, each of an artifact's paragraphs
\* that fits is in one chunk.
ChunksWith(whole, a, i) ==
  { c \in Built(whole) : c.of = a /\ [at |-> i, size |-> Sizes[a.doc][i]] \in Range(c.body) }

LEMMA FoundOnce ==
  ASSUME NEW whole, NEW a \in Artifact, a \in whole, NEW i \in 1..Len(Sizes[a.doc]),
         Sizes[a.doc][i] <= ArtifactCap
  PROVE  \E chunk : ChunksWith(whole, a, i) = {chunk}
<1> DEFINE P == ParagraphsOf(a.doc)
           x == [at |-> i, size |-> Sizes[a.doc][i]]
           outer == Packed(P, ArtifactCap)
           inner(k) == Packed(outer[k], IndexCap)
<1>1. a.doc \in Docs /\ ArtifactCap \in Nat /\ IndexCap \in Nat /\ ArtifactCap <= IndexCap
  BY KnowledgeAssumption DEF Artifact
<1>2. /\ P \in Seq(Paragraph) /\ AllDifferent(P) /\ i \in 1..Len(P) /\ P[i] = x
      /\ x.at = i /\ x.size <= ArtifactCap /\ x \in Paragraph /\ x.size <= IndexCap /\ x.size \in Nat
  <2>1. x \in Paragraph
    BY <1>1, KnowledgeAssumption DEF Paragraph
  <2>2. P \in Seq(Paragraph) /\ AllDifferent(P) /\ i \in 1..Len(P) /\ P[i] = x
    BY <1>1, ParagraphsDiffer
  <2>3. x.at = i /\ x.size = Sizes[a.doc][i] /\ x.size \in Nat
    BY <2>1 DEF Paragraph
  <2> HIDE DEF x, P
  <2> QED BY <1>1, <2>1, <2>2, <2>3
<1> HIDE DEF P, x
<1>3. Carries(outer, P, ArtifactCap)
  BY <1>1, <1>2, PackedHolds
<1> HIDE DEF outer
<1>4. ASSUME NEW k \in 1..Len(outer)
      PROVE  outer[k] \in Seq(Paragraph) /\ Carries(inner(k), outer[k], IndexCap)
  <2>1. outer[k] \in Seq(Paragraph) /\ AllDifferent(outer[k])
    BY <1>3, ChunksDiffer
  <2> QED BY <1>1, <2>1, PackedHolds
<1> HIDE DEF inner
<1>5. PICK k \in 1..Len(outer) : \E m \in 1..Len(outer[k]) : outer[k][m] = x
  BY <1>2, <1>3, HeldWhole
<1>6. PICK l \in 1..Len(inner(k)) : \E n \in 1..Len(inner(k)[l]) : inner(k)[l][n] = x
  <2>1. PICK m \in 1..Len(outer[k]) : outer[k][m] = x
    BY <1>5
  <2>2. Carries(inner(k), outer[k], IndexCap) /\ outer[k][m].size <= IndexCap
    BY <1>2, <1>4, <2>1
  <2> QED BY <2>1, <2>2, HeldWhole
<1> DEFINE chunk == [of |-> a, body |-> inner(k)[l]]
           Has(c) == c.of = a /\ x \in Range(c.body)
<1>7. \A body : body \in UNION { Range(Packed(section, IndexCap)) : section \in Range(outer) } <=>
        \E j \in 1..Len(outer) : \E n \in 1..Len(inner(j)) : body = inner(j)[n]
  <2>1. DOMAIN outer = 1..Len(outer) /\ \A j \in 1..Len(outer) : DOMAIN inner(j) = 1..Len(inner(j))
    BY <1>3, <1>4 DEF Carries
  <2>2. \A j \in 1..Len(outer) : Range(inner(j)) = { inner(j)[n] : n \in 1..Len(inner(j)) }
    BY <2>1 DEF Range
  <2>3. Range(outer) = { outer[j] : j \in 1..Len(outer) }
    BY <2>1 DEF Range
  <2>4. UNION { Range(Packed(section, IndexCap)) : section \in Range(outer) }
        = UNION { Range(inner(j)) : j \in 1..Len(outer) }
    BY <2>3 DEF inner
  <2> SUFFICES ASSUME NEW body
               PROVE  body \in UNION { Range(inner(j)) : j \in 1..Len(outer) } <=>
                        \E j \in 1..Len(outer) : \E n \in 1..Len(inner(j)) : body = inner(j)[n]
    BY <2>4
  <2>5. body \in UNION { Range(inner(j)) : j \in 1..Len(outer) } <=>
          \E j \in 1..Len(outer) : body \in Range(inner(j))
    OBVIOUS
  <2>6. \A j \in 1..Len(outer) : body \in Range(inner(j)) <=> \E n \in 1..Len(inner(j)) : body = inner(j)[n]
    BY <2>2
  <2> QED BY <2>5, <2>6
<1>8. \A c : c \in Built(whole) /\ c.of = a =>
        \E j \in 1..Len(outer) : \E n \in 1..Len(inner(j)) : c = [of |-> a, body |-> inner(j)[n]]
  <2> SUFFICES ASSUME NEW c \in Built(whole), c.of = a
               PROVE  \E j \in 1..Len(outer) : \E n \in 1..Len(inner(j)) : c = [of |-> a, body |-> inner(j)[n]]
    OBVIOUS
  <2>1. PICK b \in whole : c \in UNION { { [of |-> b, body |-> body] : body \in Range(Packed(section, IndexCap)) }
                                      : section \in Range(Packed(ParagraphsOf(b.doc), ArtifactCap)) }
    BY Zenon DEF Built
  <2>2. PICK section \in Range(Packed(ParagraphsOf(b.doc), ArtifactCap)) :
          c \in { [of |-> b, body |-> body] : body \in Range(Packed(section, IndexCap)) }
    BY <2>1
  <2>3. PICK body \in Range(Packed(section, IndexCap)) : c = [of |-> b, body |-> body]
    BY <2>2
  <2>4. b = a
    BY <2>3
  <2>5. section \in Range(outer)
    BY <2>2, <2>4 DEF outer, P
  <2>6. body \in UNION { Range(Packed(s, IndexCap)) : s \in Range(outer) }
    BY <2>3, <2>5
  <2> QED BY <1>7, <2>3, <2>4, <2>6
<1>9. chunk \in Built(whole) /\ Has(chunk)
  <2>1. PICK n \in 1..Len(inner(k)[l]) : inner(k)[l][n] = x
    BY <1>6
  <2>2. inner(k)[l] \in Seq(Paragraph)
    BY <1>4, ChunksDiffer
  <2>3. x \in Range(inner(k)[l])
    BY <2>1, <2>2 DEF Range
  <2>4. inner(k)[l] \in Range(inner(k)) /\ outer[k] \in Range(outer)
    BY <1>3, <1>4 DEF Range, Carries
  <2>5. inner(k)[l] \in Range(Packed(outer[k], IndexCap)) /\ outer[k] \in Range(Packed(ParagraphsOf(a.doc), ArtifactCap))
    BY <2>4 DEF inner, outer, P
  <2>6. chunk \in { [of |-> a, body |-> body] : body \in Range(Packed(outer[k], IndexCap)) }
    BY <2>5
  <2>7. chunk \in Built(whole)
    BY <2>5, <2>6 DEF Built
  <2> QED BY <2>3, <2>7
<1>10. ASSUME NEW c \in Built(whole), Has(c) PROVE c = chunk
  <2>1. PICK j \in 1..Len(outer) : \E n \in 1..Len(inner(j)) : c = [of |-> a, body |-> inner(j)[n]]
    BY <1>8, <1>10
  <2>2. PICK n \in 1..Len(inner(j)) : c = [of |-> a, body |-> inner(j)[n]]
    BY <2>1
  <2>3. inner(j)[n] \in Seq(Paragraph)
    BY <1>4, ChunksDiffer
  <2>4. PICK r \in 1..Len(inner(j)[n]) : inner(j)[n][r] = x
    <3>1. x \in Range(inner(j)[n])
      BY <1>10, <2>2
    <3> QED BY <2>3, <3>1 DEF Range
  <2>5. PICK m \in 1..Len(outer[j]) : outer[j][m].at = i
    <3>1. Carries(inner(j), outer[j], IndexCap)
      BY <1>4
    <3> DEFINE A == inner(j)
               B == outer[j]
    <3>2. Carries(A, B, IndexCap) /\ n \in 1..Len(A) /\ r \in 1..Len(A[n])
      BY <2>2, <2>4, <3>1
    <3> HIDE DEF A, B
    <3>3. \E m \in 1..Len(B) : B[m].at = A[n][r].at
      BY <3>2, HeldComesFrom
    <3> QED BY <1>2, <2>4, <3>3 DEF A, B
  <2>6. PICK q \in 1..Len(outer[k]) : outer[k][q].at = i
    BY <1>2, <1>5
  <2>7. j = k
    BY <1>3, <2>5, <2>6, HeldOnce
  <2>8. PICK s \in 1..Len(inner(k)[l]) : inner(k)[l][s] = x
    BY <1>6
  <2>9. n = l
    BY <1>4, <2>4, <2>7, <2>8, HeldOnce
  <2> QED BY <2>2, <2>7, <2>9
<1> HIDE DEF chunk
<1>11. { c \in Built(whole) : Has(c) } = {chunk}
  BY <1>9, <1>10
<1> QED BY <1>11 DEF ChunksWith, x

LEMMA BuiltOf ==
  ASSUME NEW whole
  PROVE  \A c \in Built(whole) : c.of \in whole
<1> SUFFICES ASSUME NEW c \in Built(whole) PROVE c.of \in whole
  OBVIOUS
<1>1. PICK b \in whole : c \in UNION { { [of |-> b, body |-> body] : body \in Range(Packed(section, IndexCap)) }
                                    : section \in Range(Packed(ParagraphsOf(b.doc), ArtifactCap)) }
  BY Zenon DEF Built
<1>2. PICK section \in Range(Packed(ParagraphsOf(b.doc), ArtifactCap)) :
        c \in { [of |-> b, body |-> body] : body \in Range(Packed(section, IndexCap)) }
  BY <1>1
<1> QED BY <1>2

-----------------------------------------------------------------------------
\* An index was built of whole files that are still there, with all those that
\* its process has reported and that were whole then, and of pieces of torn ones.
BuiltWell(p) ==
  \E whole \in SUBSET artifacts, some \in SUBSET index[p] :
    /\ index[p] = Built(whole) \cup some
    /\ \A chunk \in some : chunk.of \in missed[p]
    /\ reported[p] \ missed[p] \subseteq whole

KnowledgeInv ==
  /\ KnowledgeOK
  /\ \A p \in Servers : /\ reported[p] \subseteq artifacts
                        /\ ~Free(p) => writing[p].of \in artifacts
                        /\ index[p] # Nothing => BuiltWell(p)

LEMMA KnowledgeInitially == KnowledgeInit => KnowledgeInv
<1>1. 0 \in 0..MaxSteps
  BY KnowledgeAssumption
<1> QED BY <1>1 DEF KnowledgeInit, KnowledgeInv, KnowledgeOK, Free

\* A step that keeps the files there, and what a process knows of them.
LEMMA StaysBuilt ==
  ASSUME KnowledgeInv, artifacts \subseteq artifacts', NEW p \in Servers,
         reported'[p] = reported[p],
         index'[p] = Nothing \/ (index'[p] = index[p] /\ missed'[p] = missed[p])
  PROVE  reported'[p] \subseteq artifacts' /\ (index'[p] # Nothing => BuiltWell(p)')
<1>1. reported'[p] \subseteq artifacts'
  BY DEF KnowledgeInv
<1>2. ASSUME index'[p] # Nothing PROVE BuiltWell(p)'
  <2>1. index'[p] = index[p] /\ missed'[p] = missed[p] /\ BuiltWell(p)
    BY <1>2 DEF KnowledgeInv
  <2>2. PICK whole \in SUBSET artifacts, some \in SUBSET index[p] :
          /\ index[p] = Built(whole) \cup some
          /\ \A chunk \in some : chunk.of \in missed[p]
          /\ reported[p] \ missed[p] \subseteq whole
    BY <2>1 DEF BuiltWell
  <2>3. whole \in SUBSET artifacts' /\ some \in SUBSET index'[p]
    BY <2>1, <2>2
  <2> QED BY <2>1, <2>2, <2>3 DEF BuiltWell
<1> QED BY <1>1, <1>2

LEMMA KnowledgeUnmoved ==
  ASSUME KnowledgeInv, KnowledgeOK', UNCHANGED <<files, known>>
  PROVE  KnowledgeInv'
<1>1. \A p \in Servers : /\ reported'[p] \subseteq artifacts'
                         /\ index'[p] # Nothing => BuiltWell(p)'
  BY StaysBuilt DEF files, known
<1> QED BY <1>1 DEF KnowledgeInv, Free, files, known

\* The types of the files, and of what is known of them.
FilesOK ==
  /\ artifacts \subseteq Artifact /\ torn \subseteq artifacts
  /\ writing \in [Servers -> Write \cup {Nothing}]
  /\ \A p \in Servers : ~Free(p) => writing[p].of \in artifacts
KnownOK ==
  /\ DOMAIN index = Servers
  /\ \A p \in Servers : index[p] = Nothing \/ \A chunk \in index[p] : chunk.of \in Artifact
  /\ missed \in [Servers -> SUBSET Artifact]
  /\ reported \in [Servers -> SUBSET Artifact]

LEMMA OpenFiles ==
  ASSUME FilesOK, NEW p \in Servers, NEW a \in Artifact, Open(p, a)
  PROVE  FilesOK' /\ artifacts \subseteq artifacts'
<1>1. CASE UNCHANGED files
  BY <1>1 DEF files, FilesOK, Free
<1>2. CASE ~ UNCHANGED files
  <2> DEFINE Same(q) == writing[q] # Nothing /\ writing[q].of = a
  <2>1. /\ artifacts' = artifacts \cup {a} /\ torn' = torn \cup {a}
        /\ writing' = [q \in Servers |->
             IF q = p THEN [of |-> a, alone |-> \A r \in Servers \ {p} : ~Same(r)]
             ELSE IF Same(q) THEN [writing[q] EXCEPT !.alone = FALSE] ELSE writing[q]]
    BY <1>2 DEF Open
  <2>2. [of |-> a, alone |-> \A r \in Servers \ {p} : ~Same(r)] \in Write
    <3>1. (\A r \in Servers \ {p} : ~Same(r)) \in BOOLEAN
      OBVIOUS
    <3> HIDE DEF Same
    <3> QED BY <3>1, Zenon DEF Write
  <2>3. ASSUME NEW q \in Servers
        PROVE  /\ writing'[q] \in Write \cup {Nothing}
               /\ writing'[q] # Nothing => writing'[q].of \in artifacts'
    <3>1. CASE q = p
      <4>1. writing'[q] = [of |-> a, alone |-> \A r \in Servers \ {p} : ~Same(r)]
        BY <2>1, <3>1
      <4> HIDE DEF Same
      <4> QED BY <2>1, <2>2, <4>1
    <3>2. CASE q # p /\ Same(q)
      <4>1. writing'[q] = [writing[q] EXCEPT !.alone = FALSE] /\ writing[q] \in Write
        BY <2>1, <3>2 DEF FilesOK
      <4> QED BY <2>1, <3>2, <4>1 DEF Write
    <3>3. CASE q # p /\ ~Same(q)
      <4>1. writing'[q] = writing[q]
        BY <2>1, <3>3
      <4>2. writing[q] \in Write \cup {Nothing} /\ (writing[q] # Nothing => writing[q].of \in artifacts)
        BY DEF FilesOK, Free
      <4>3. artifacts \subseteq artifacts'
        BY <2>1
      <4> QED BY <4>1, <4>2, <4>3
    <3> QED BY <3>1, <3>2, <3>3
  <2>4. writing' \in [Servers -> Write \cup {Nothing}]
    <3>1. DOMAIN writing' = Servers /\ writing' = [q \in Servers |-> writing'[q]]
      BY <2>1
    <3> QED BY <2>3, <3>1
  <2>5. artifacts' \subseteq Artifact /\ torn' \subseteq artifacts'
    BY <2>1 DEF FilesOK
  <2> QED BY <2>1, <2>3, <2>4, <2>5 DEF FilesOK, Free
<1> QED BY <1>1, <1>2

LEMMA ClosedFiles ==
  ASSUME FilesOK, NEW p \in Servers, ~Free(p), Written(p) \/ GivenUp(p)
  PROVE  FilesOK' /\ artifacts' = artifacts
<1>1. /\ artifacts' = artifacts /\ writing' = [writing EXCEPT ![p] = Nothing]
      /\ torn' \subseteq torn \cup {writing[p].of}
  BY DEF Written, GivenUp
<1>2. writing[p].of \in artifacts
  BY DEF FilesOK
<1>3. torn' \subseteq artifacts' /\ writing' \in [Servers -> Write \cup {Nothing}]
  BY <1>1, <1>2 DEF FilesOK
<1>4. \A q \in Servers : ~Free(q)' => writing'[q].of \in artifacts'
  BY <1>1 DEF FilesOK, Free
<1> QED BY <1>1, <1>3, <1>4 DEF FilesOK

LEMMA KnowledgeSteps == KnowledgeInv /\ [KnowledgeNext]_knowledge => KnowledgeInv'
<1> SUFFICES ASSUME KnowledgeInv, [KnowledgeNext]_knowledge PROVE KnowledgeInv'
  OBVIOUS
<1>1. KnowledgeOK /\ FilesOK /\ KnownOK
  BY DEF KnowledgeInv, KnowledgeOK, FilesOK, KnownOK
<1>2. Counted => steps' \in 0..MaxSteps
  BY <1>1, KnowledgeAssumption DEF Counted, KnowledgeOK
\* The steps that leave the files and what is known of them alone.
<1>3. ASSUME NEW p \in Servers, NEW name \in Names, NEW doc \in Docs, Upload(p, name, doc) PROVE KnowledgeInv'
  <2>1. UNCHANGED <<files, known>>
    BY <1>3 DEF Upload
  <2>2. KnowledgeOK'
    BY <1>1, <1>2, <1>3, <2>1 DEF Upload, Embed, KnowledgeOK, Job, Places, files, known
  <2> QED BY <2>1, <2>2, KnowledgeUnmoved
<1>4. Scan \in Job
  BY <1>1 DEF KnowledgeOK, Scan, Job, FilesThere
<1>5. ASSUME NEW p \in Servers, Reindex(p) \/ Wake(p) PROVE KnowledgeInv'
  <2>1. UNCHANGED <<files, known>>
    BY <1>5 DEF Reindex, Wake
  <2>2. <<p, "request">> \in Places /\ <<p, "loop">> \in Places
    BY DEF Places
  <2>3. /\ ingestions' \in [Places -> Job \cup {Nothing}]
        /\ loop' \in [Servers -> {"waiting", "running", "ended"}]
    BY <1>1, <1>4, <1>5, <2>2 DEF Reindex, Wake, KnowledgeOK
  <2>4. KnowledgeOK'
    BY <1>1, <1>2, <1>5, <2>1, <2>3 DEF Reindex, Wake, KnowledgeOK, files, known
  <2> QED BY <2>1, <2>4, KnowledgeUnmoved
<1>6. ASSUME NEW w \in Places, NEW name \in Names, NextFile(w, name) PROVE KnowledgeInv'
  <2>1. UNCHANGED <<files, known>>
    BY <1>6 DEF NextFile
  <2>2. ingestions[w] \in Job
    BY <1>1, <1>6 DEF KnowledgeOK, NextFile
  <2>3. name \in FilesThere => directory[name] \in Docs
    BY <1>1 DEF KnowledgeOK, FilesThere
  <2>4. ingestions' \in [Places -> Job \cup {Nothing}] /\ vectors' \in [Docs -> Names \cup {Nothing}]
    BY <1>1, <1>6, <2>2, <2>3 DEF NextFile, Embed, KnowledgeOK, Job
  <2>5. KnowledgeOK'
    BY <1>1, <1>6, <2>1, <2>4 DEF NextFile, KnowledgeOK, files, known
  <2> QED BY <2>1, <2>5, KnowledgeUnmoved
<1>7. ASSUME NEW w \in Places, Finish(w) PROVE KnowledgeInv'
  <2>1. UNCHANGED <<files, known>>
    BY <1>7 DEF Finish
  <2>2. KnowledgeOK'
    BY <1>1, <1>7, <2>1 DEF Finish, KnowledgeOK, Places, files, known
  <2> QED BY <2>1, <2>2, KnowledgeUnmoved
<1>8. CASE ChangeDirectory
  <2>1. UNCHANGED <<files, known>>
    BY <1>8 DEF ChangeDirectory
  <2>2. KnowledgeOK'
    BY <1>1, <1>2, <1>8, <2>1 DEF ChangeDirectory, KnowledgeOK, files, known
  <2> QED BY <2>1, <2>2, KnowledgeUnmoved
<1>9. CASE UNCHANGED knowledge
  <2>1. UNCHANGED <<files, known>>
    BY <1>9 DEF knowledge
  <2>2. KnowledgeOK'
    BY <1>1, <1>9 DEF knowledge, files, known, KnowledgeOK
  <2> QED BY <2>1, <2>2, KnowledgeUnmoved
\* The steps that open, write or leave a file.
<1>10. ASSUME FilesOK', artifacts \subseteq artifacts', UNCHANGED known, KnowledgeOK' PROVE KnowledgeInv'
  <2>1. \A p \in Servers : /\ reported'[p] \subseteq artifacts'
                           /\ index'[p] # Nothing => BuiltWell(p)'
    BY <1>10, StaysBuilt DEF known
  <2> QED BY <1>10, <2>1 DEF KnowledgeInv, FilesOK
<1>11. ASSUME NEW w \in Places, GraphAnswers(w) PROVE KnowledgeInv'
  <2>1. ingestions[w] \in Job /\ ingestions[w].doc \in Docs /\ w[1] \in Servers
    BY <1>1, <1>11 DEF KnowledgeOK, GraphAnswers, Job, Places
  <2> DEFINE a == [doc |-> ingestions[w].doc, upload |-> 0]
  <2>2. a \in Artifact /\ Open(w[1], a)
    BY <1>11, <2>1, KnowledgeAssumption DEF Artifact, GraphAnswers
  <2> HIDE DEF a
  <2>3. FilesOK' /\ artifacts \subseteq artifacts'
    BY <1>1, <2>1, <2>2, OpenFiles
  <2>4. ingestions' \in [Places -> Job \cup {Nothing}] /\ graph' \subseteq Docs
    BY <1>1, <1>11, <2>1 DEF GraphAnswers, GraphInsert, KnowledgeOK, Job
  <2>5. KnowledgeOK' /\ UNCHANGED known
    BY <1>1, <1>11, <2>3, <2>4 DEF GraphAnswers, KnowledgeOK, FilesOK, known
  <2> QED BY <1>10, <2>3, <2>5
<1>12. ASSUME NEW p \in Servers, NEW doc \in Docs, UploadPolicy(p, doc) PROVE KnowledgeInv'
  <2> DEFINE n == Max({ a.upload : a \in artifacts } \cup {0}) + 1
             a == [doc |-> doc, upload |-> n]
  <2>1. n \in Int /\ n > 0
    <3> DEFINE uploads == { b.upload : b \in artifacts } \cup {0}
    <3>1. \A b \in artifacts : b.upload \in 0..MaxUploads
      BY <1>1 DEF KnowledgeOK, Artifact
    <3>2. uploads \in SUBSET Int /\ uploads # {} /\ \A x \in uploads : x <= MaxUploads
      BY <3>1, KnowledgeAssumption
    <3>6. MaxUploads \in Int
      BY KnowledgeAssumption
    <3> HIDE DEF uploads
    <3>3. Max(uploads) \in uploads /\ \A x \in uploads : x <= Max(uploads)
      BY <3>2, <3>6, GreatestOf
    <3>4. 0 \in uploads
      BY DEF uploads
    <3>5. Max(uploads) \in Int /\ Max(uploads) >= 0
      BY <3>2, <3>3, <3>4
    <3> QED BY <3>5 DEF uploads
  <2>2. n <= MaxUploads /\ Open(p, a)
    BY <1>12 DEF UploadPolicy
  <2> HIDE DEF n
  <2>3. a \in Artifact
    BY <2>1, <2>2, KnowledgeAssumption DEF Artifact
  <2> HIDE DEF a
  <2>4. FilesOK' /\ artifacts \subseteq artifacts'
    BY <1>1, <2>2, <2>3, OpenFiles
  <2>5. KnowledgeOK' /\ UNCHANGED known
    BY <1>1, <1>2, <1>12, <2>4 DEF UploadPolicy, KnowledgeOK, FilesOK, known
  <2> QED BY <1>10, <2>4, <2>5
<1>13. ASSUME NEW p \in Servers, WriteFails(p) PROVE KnowledgeInv'
  <2>1. FilesOK' /\ artifacts' = artifacts
    BY <1>1, <1>13, ClosedFiles DEF WriteFails
  <2>2. KnowledgeOK' /\ UNCHANGED known
    BY <1>1, <1>13, <2>1 DEF WriteFails, KnowledgeOK, FilesOK, known
  <2> QED BY <1>10, <2>1, <2>2
\* The steps that report a file, read the files or forget what was read.
<1>14. ASSUME NEW p \in Servers, WriteArtifacts(p) PROVE KnowledgeInv'
  <2> DEFINE a == writing[p].of
  <2>1. FilesOK' /\ artifacts' = artifacts
    BY <1>1, <1>14, ClosedFiles DEF WriteArtifacts
  <2>2. a \in artifacts /\ a \in Artifact /\ a.upload \in 0..MaxUploads
    BY <1>1, <1>14 DEF WriteArtifacts, FilesOK, Artifact
  <2>3. /\ index' = [index EXCEPT ![p] = Nothing] /\ missed' = [missed EXCEPT ![p] = {}]
        /\ reported' = [reported EXCEPT ![p] = @ \cup {a}]
    BY <1>14 DEF WriteArtifacts, Report
  <2>4. policies' \subseteq 1..MaxUploads
    <3>1. policies' \in {policies} \cup (IF a.upload > 0 THEN {policies \cup {a.upload}} ELSE {})
      BY <1>14 DEF WriteArtifacts
    <3> QED BY <1>1, <2>2, <3>1, KnowledgeAssumption DEF KnowledgeOK
  <2> HIDE DEF a
  <2>5. KnownOK'
    BY <1>1, <2>2, <2>3 DEF KnownOK
  <2>6. KnowledgeOK'
    BY <1>1, <1>14, <2>1, <2>4, <2>5 DEF WriteArtifacts, KnowledgeOK, FilesOK, KnownOK
  <2>7. ASSUME NEW q \in Servers
        PROVE  reported'[q] \subseteq artifacts' /\ (index'[q] # Nothing => BuiltWell(q)')
    <3>1. CASE q = p
      BY <1>1, <2>1, <2>2, <2>3, <3>1 DEF KnowledgeInv, KnownOK
    <3>2. CASE q # p
      <4>1. reported'[q] = reported[q] /\ index'[q] = index[q] /\ missed'[q] = missed[q]
        BY <1>1, <2>3, <3>2 DEF KnownOK
      <4> QED BY <2>1, <4>1, StaysBuilt
    <3> QED BY <3>1, <3>2
  <2> QED BY <2>1, <2>6, <2>7 DEF KnowledgeInv, FilesOK
<1>15. ASSUME NEW p \in Servers, Search(p) PROVE KnowledgeInv'
  <2>1. PICK some \in SUBSET Built(torn) :
          index' = [index EXCEPT ![p] = Built(artifacts \ torn) \cup some]
    BY <1>15 DEF Search
  <2>2. missed' = [missed EXCEPT ![p] = torn] /\ reported' = reported /\ UNCHANGED files
    BY <1>15 DEF Search
  <2>3. /\ \A c \in some : c.of \in torn
        /\ \A c \in Built(artifacts \ torn) \cup some : c.of \in artifacts
    BY <1>1, <2>1, BuiltOf DEF FilesOK
  <2>4. KnownOK'
    BY <1>1, <2>1, <2>2, <2>3 DEF KnownOK, FilesOK
  <2>5. KnowledgeOK'
    BY <1>1, <1>15, <2>2, <2>4 DEF Search, KnowledgeOK, KnownOK, files
  <2>6. ASSUME NEW q \in Servers
        PROVE  reported'[q] \subseteq artifacts' /\ (index'[q] # Nothing => BuiltWell(q)')
    <3>1. CASE q = p
      <4>1. index'[p] = Built(artifacts \ torn) \cup some /\ missed'[p] = torn
        BY <1>1, <2>1, <2>2 DEF KnownOK
      <4>2. reported'[p] \subseteq artifacts /\ artifacts' = artifacts
        BY <2>2 DEF KnowledgeInv, files
      <4>3. artifacts \ torn \in SUBSET artifacts' /\ some \in SUBSET index'[p]
        BY <4>1, <4>2
      <4>4. /\ \A c \in some : c.of \in missed'[p]
            /\ reported'[p] \ missed'[p] \subseteq artifacts \ torn
        BY <2>3, <4>1, <4>2
      <4>5. BuiltWell(p)'
        BY <4>1, <4>3, <4>4 DEF BuiltWell
      <4> QED BY <3>1, <4>2, <4>5
    <3>2. CASE q # p
      <4>1. reported'[q] = reported[q] /\ index'[q] = index[q] /\ missed'[q] = missed[q]
        BY <1>1, <2>1, <2>2, <3>2 DEF KnownOK
      <4> QED BY <2>2, <4>1, StaysBuilt DEF files
    <3> QED BY <3>1, <3>2
  <2> QED BY <1>1, <2>2, <2>5, <2>6 DEF KnowledgeInv, FilesOK, Free, files
<1>16. ASSUME NEW p \in Servers, RestartServer(p) PROVE KnowledgeInv'
  <2>1. FilesOK' /\ artifacts' = artifacts
    <3>1. CASE Free(p)
      BY <1>1, <1>16, <3>1 DEF RestartServer, FilesOK, files, Free
    <3>2. CASE ~Free(p)
      BY <1>1, <1>16, <3>2, ClosedFiles DEF RestartServer
    <3> QED BY <3>1, <3>2
  <2>2. /\ index' = [index EXCEPT ![p] = Nothing] /\ missed' = [missed EXCEPT ![p] = {}]
        /\ reported' = reported
    BY <1>16 DEF RestartServer
  <2>3. KnownOK'
    BY <1>1, <2>2 DEF KnownOK
  <2>4. /\ ingestions' \in [Places -> Job \cup {Nothing}]
        /\ loop' \in [Servers -> {"waiting", "running", "ended"}]
    BY <1>1, <1>16 DEF RestartServer, KnowledgeOK
  <2>5. KnowledgeOK'
    BY <1>1, <1>2, <1>16, <2>1, <2>3, <2>4 DEF RestartServer, KnowledgeOK, FilesOK, KnownOK
  <2>6. ASSUME NEW q \in Servers
        PROVE  reported'[q] \subseteq artifacts' /\ (index'[q] # Nothing => BuiltWell(q)')
    <3>1. index'[q] = Nothing \/ (index'[q] = index[q] /\ missed'[q] = missed[q])
      BY <1>1, <2>2 DEF KnownOK
    <3> QED BY <2>1, <2>2, <3>1, StaysBuilt
  <2> QED BY <2>1, <2>5, <2>6 DEF KnowledgeInv, FilesOK
<1> QED BY <1>3, <1>5, <1>6, <1>7, <1>8, <1>9, <1>11, <1>12, <1>13, <1>14, <1>15, <1>16 DEF KnowledgeNext

\* What a process reported is among the artifacts, and an index is built of
\* artifacts with all those that the process reported and that were not torn
\* then (ingest, _build_index).
THEOREM KnowledgeInvariance == KnowledgeSpec => []KnowledgeInv
BY KnowledgeInitially, KnowledgeSteps, PTL DEF KnowledgeSpec

\* A document that a process reported as written is found by its searches:
\* each of its paragraphs that fits is in one chunk of the index, for documents
\* and limits of any size, whatever was uploaded, reindexed or failed since,
\* unless its file was torn when the index was built (write_artifacts,
\* chunk_text and the cached index).
THEOREM ConfirmedStaySearchable == KnowledgeSpec => []ConfirmedIsSearchable
<1>1. KnowledgeInv => ConfirmedIsSearchable
  <2> SUFFICES ASSUME KnowledgeInv, NEW p \in Servers, index[p] # Nothing,
                      NEW a \in reported[p] \ missed[p],
                      NEW i \in 1..Len(Sizes[a.doc]), Sizes[a.doc][i] <= ArtifactCap
               PROVE  Cardinality({ chunk \in index[p] : chunk.of = a
                        /\ [at |-> i, size |-> Sizes[a.doc][i]] \in Range(chunk.body) }) = 1
    BY DEF ConfirmedIsSearchable, Quantify
  <2>1. PICK whole \in SUBSET artifacts, some \in SUBSET index[p] :
          /\ index[p] = Built(whole) \cup some
          /\ \A chunk \in some : chunk.of \in missed[p]
          /\ reported[p] \ missed[p] \subseteq whole
    BY DEF KnowledgeInv, BuiltWell
  <2>2. a \in Artifact /\ a \in whole
    BY <2>1 DEF KnowledgeInv, KnowledgeOK
  <2>3. PICK chunk : ChunksWith(whole, a, i) = {chunk}
    BY <2>2, FoundOnce
  <2>4. \A c \in index[p] : c.of = a => c \in Built(whole)
    BY <2>1
  <2>5. { c \in index[p] : c.of = a /\ [at |-> i, size |-> Sizes[a.doc][i]] \in Range(c.body) }
        = ChunksWith(whole, a, i)
    BY <2>1, <2>4 DEF ChunksWith
  <2>6. Cardinality({chunk}) = 1
    BY FS_Singleton
  <2> QED BY <2>3, <2>5, <2>6
<1> QED BY <1>1, KnowledgeInvariance, PTL

-----------------------------------------------------------------------------
(***************************************************************************)
(* Merging what two stores found.                                          *)
(***************************************************************************)
Unlike(s) == \A i, j \in 1..Len(s) : s[i].key = s[j].key => i = j
Starts(s, t) == Len(s) <= Len(t) /\ \A i \in 1..Len(s) : t[i] = s[i]
KeyAt(store, n) == { store[i].key : i \in { i \in 1..Len(store) : i = n } }
KeysUpTo(store, n) == { store[i].key : i \in { i \in 1..Len(store) : i <= n } }

LEMMA TakeOne ==
  ASSUME NEW s \in Seq(Text), NEW store \in Seq(Text), NEW n \in Nat, n > 0
  PROVE  /\ Take(s, store, n) \in Seq(Text) /\ Starts(s, Take(s, store, n))
         /\ KeysOf(Take(s, store, n)) = KeysOf(s) \cup KeyAt(store, n)
         /\ Unlike(s) => Unlike(Take(s, store, n))
<1> DEFINE t == Append(s, store[n])
<1>1. Len(s) \in Nat /\ Len(store) \in Nat
  OBVIOUS
<1>2. CASE n > Len(store)
  <2>1. Take(s, store, n) = s /\ KeyAt(store, n) = {}
    BY <1>1, <1>2 DEF Take, KeyAt
  <2> QED BY <2>1 DEF Starts
<1>3. CASE n <= Len(store) /\ \E i \in 1..Len(s) : s[i].key = store[n].key
  <2>1. Take(s, store, n) = s /\ KeyAt(store, n) = {store[n].key}
    BY <1>1, <1>3 DEF Take, KeyAt
  <2>2. store[n].key \in KeysOf(s)
    BY <1>3 DEF KeysOf
  <2> QED BY <2>1, <2>2 DEF Starts
<1>4. CASE n <= Len(store) /\ ~\E i \in 1..Len(s) : s[i].key = store[n].key
  <2>1. Take(s, store, n) = t /\ KeyAt(store, n) = {store[n].key}
    BY <1>1, <1>4 DEF Take, KeyAt
  <2>2. store[n] \in Text
    BY <1>1, <1>4
  <2>3. /\ t \in Seq(Text) /\ Len(t) = Len(s) + 1 /\ t[Len(s) + 1] = store[n]
        /\ \A i \in 1..Len(s) : t[i] = s[i]
    BY <2>2
  <2> HIDE DEF t
  <2>4. \A i \in 1..Len(t) : i \in 1..Len(s) \/ i = Len(s) + 1
    BY <1>1, <2>3
  <2>5. Len(s) + 1 \in 1..Len(t) /\ 1..Len(s) \subseteq 1..Len(t)
    BY <1>1, <2>3
  <2>6. KeysOf(t) = KeysOf(s) \cup {store[n].key}
    BY <2>3, <2>4, <2>5 DEF KeysOf
  <2>7. Unlike(s) => Unlike(t)
    BY <1>4, <2>3, <2>4 DEF Unlike
  <2>8. Starts(s, t)
    BY <1>1, <2>3 DEF Starts
  <2> QED BY <2>1, <2>3, <2>6, <2>7, <2>8
<1> QED BY <1>1, <1>2, <1>3, <1>4

TakeBoth(s, first, second, n) == Take(Take(s, first, n), second, n)

LEMMA TakeTwo ==
  ASSUME NEW s \in Seq(Text), NEW first \in Seq(Text), NEW second \in Seq(Text), NEW n \in Nat, n > 0
  PROVE  /\ TakeBoth(s, first, second, n) \in Seq(Text) /\ Starts(s, TakeBoth(s, first, second, n))
         /\ KeysOf(TakeBoth(s, first, second, n)) = KeysOf(s) \cup KeyAt(first, n) \cup KeyAt(second, n)
         /\ Unlike(s) => Unlike(TakeBoth(s, first, second, n))
<1> DEFINE t == Take(s, first, n)
           u == Take(t, second, n)
<1>1. t \in Seq(Text) /\ Starts(s, t) /\ KeysOf(t) = KeysOf(s) \cup KeyAt(first, n) /\ (Unlike(s) => Unlike(t))
  BY TakeOne
<1> HIDE DEF t
<1>2. u \in Seq(Text) /\ Starts(t, u) /\ KeysOf(u) = KeysOf(t) \cup KeyAt(second, n) /\ (Unlike(t) => Unlike(u))
  <2>1. t \in Seq(Text)
    BY <1>1
  <2> QED BY <2>1, TakeOne
<1> HIDE DEF u
<1>3. Starts(s, u)
  <2>1. Len(s) \in Nat /\ Len(t) \in Nat /\ Len(u) \in Nat
    BY <1>1, <1>2
  <2> QED BY <1>1, <1>2, <2>1 DEF Starts
<1>4. TakeBoth(s, first, second, n) = u
  BY DEF TakeBoth, t, u
<1> QED BY <1>1, <1>2, <1>3, <1>4

Ranks(first, second) == IF Len(first) >= Len(second) THEN Len(first) ELSE Len(second)
Turns(f, first, second, asked, N) ==
  /\ Merged(first, second, asked) = SubSeq(f[N], 1, IF asked <= Len(f[N]) THEN asked ELSE Len(f[N]))
  /\ f[0] = <<>>
  /\ \A n \in 1..N : f[n] = TakeBoth(f[n - 1], first, second, n)

LEMMA MergedStepwise ==
  ASSUME NEW first \in Seq(Text), NEW second \in Seq(Text), NEW asked \in Nat
  PROVE  \E f \in [0..Ranks(first, second) -> Seq(Text)] : Turns(f, first, second, asked, Ranks(first, second))
<1> DEFINE N == Ranks(first, second)
           taken[n \in 0..N] == IF n = 0 THEN <<>> ELSE Take(Take(taken[n - 1], first, n), second, n)
           S == Seq(Text)
           step == [v \in S \X (1..N) |-> TakeBoth(v[1], first, second, v[2])]
<1>1. N \in Nat /\ Max({Len(first), Len(second)}) = N
  <2>1. Len(first) \in Int /\ Len(second) \in Int /\ Len(first) \in Nat /\ Len(second) \in Nat
    OBVIOUS
  <2>2. Max({Len(first), Len(second)}) = IF Len(first) >= Len(second) THEN Len(first) ELSE Len(second)
    BY <2>1, GreaterOf
  <2> QED BY <2>1, <2>2 DEF Ranks
<1>2. Merged(first, second, asked) = SubSeq(taken[N], 1, Min({asked, Len(taken[N])}))
  BY <1>1 DEF Merged
<1>3. taken = CHOOSE g : g = [n \in 0..N |-> IF n = 0 THEN <<>> ELSE TakeBoth(g[n - 1], first, second, n)]
  BY DEF TakeBoth
<1> HIDE DEF taken, N
<1>4. ASSUME NEW x \in S, NEW n \in 1..N PROVE TakeBoth(x, first, second, n) \in S
  <2>1. n \in Nat /\ n > 0
    BY <1>1
  <2> QED BY <2>1, TakeTwo
<1>5. PICK f \in [0..N -> S] : f[0] = <<>> /\ \A n \in 1..N : f[n] = step[<<f[n - 1], n>>]
  <2>1. step \in Steps(S, N) /\ <<>> \in S
    BY <1>4 DEF Steps
  <2> HIDE DEF S, step
  <2>2. \E f \in [0..N -> S] : Follows(f, N, <<>>, step)
    BY <1>1, <2>1, Recursion
  <2> QED BY <2>2 DEF Follows
<1>6. ASSUME NEW n \in 1..N PROVE f[n] = TakeBoth(f[n - 1], first, second, n)
  <2>1. n - 1 \in 0..N
    BY <1>1
  <2>2. f[n - 1] \in S
    BY <2>1
  <2> QED BY <1>5, <2>2
<1>7. f = [n \in 0..N |-> IF n = 0 THEN <<>> ELSE TakeBoth(f[n - 1], first, second, n)]
  <2> HIDE DEF step, S
  <2>1. DOMAIN f = 0..N /\ f[0] = <<>>
    BY <1>1, <1>5
  <2>2. \A n \in 0..N : f[n] = IF n = 0 THEN <<>> ELSE TakeBoth(f[n - 1], first, second, n)
    BY <1>1, <1>6, <2>1
  <2> QED BY <2>1, <2>2
<1>8. taken = [n \in 0..N |-> IF n = 0 THEN <<>> ELSE TakeBoth(taken[n - 1], first, second, n)]
  BY <1>3, <1>7
<1>9. taken[0] = <<>> /\ \A n \in 1..N : taken[n] = TakeBoth(taken[n - 1], first, second, n)
  <2>1. \A n \in 0..N : taken[n] = IF n = 0 THEN <<>> ELSE TakeBoth(taken[n - 1], first, second, n)
    BY <1>8
  <2>2. 0 \in 0..N /\ \A n \in 1..N : n \in 0..N /\ n # 0
    BY <1>1
  <2> QED BY <2>1, <2>2
<1>10. \A n \in 0..N : taken[n] \in S
  <2>1. taken[0] \in S
    BY <1>9
  <2> HIDE DEF S, step
  <2>2. ASSUME NEW n \in 1..N, taken[n - 1] \in S PROVE taken[n] \in S
    BY <1>4, <1>9, <2>2
  <2> QED BY <1>1, <2>1, <2>2, StepByStep
<1>11. Min({asked, Len(taken[N])}) = IF asked <= Len(taken[N]) THEN asked ELSE Len(taken[N])
  <2>1. Len(taken[N]) \in Int /\ asked \in Int
    BY <1>1, <1>10
  <2> QED BY <2>1, LesserOf
<1> QED BY <1>2, <1>8, <1>9, <1>10, <1>11 DEF Turns, N

LEMMA KeysCounted ==
  ASSUME NEW s \in Seq(Text), Unlike(s)
  PROVE  Cardinality(KeysOf(s)) = Len(s)
<1> DEFINE f == [i \in 1..Len(s) |-> s[i].key]
<1>1. f \in Bijection(1..Len(s), KeysOf(s))
  <2>1. f \in [1..Len(s) -> KeysOf(s)] /\ \A key \in KeysOf(s) : \E i \in 1..Len(s) : f[i] = key
    BY DEF KeysOf
  <2>2. \A i, j \in 1..Len(s) : f[i] = f[j] => i = j
    BY DEF Unlike
  <2> HIDE DEF f
  <2> QED BY <2>1, <2>2 DEF Bijection, Injection, Surjection, IsInjective
<1>2. ExistsBijection(1..Len(s), KeysOf(s))
  BY <1>1 DEF ExistsBijection
<1>3. IsFiniteSet(1..Len(s)) /\ Cardinality(1..Len(s)) = Len(s)
  <2>1. Len(s) \in Nat
    OBVIOUS
  <2> QED BY <2>1, FS_Interval
<1> QED BY <1>2, <1>3, FS_Bijection

\* What an answer is to be, of two stores and the number of texts asked for.
FairAnswer(answer, first, second, asked) ==
  /\ answer \in Seq(Text) /\ Unlike(answer)
  /\ Cardinality(KeysOf(first) \cup KeysOf(second)) \in Nat
  /\ Len(answer) = (IF asked <= Cardinality(KeysOf(first) \cup KeysOf(second)) THEN asked
                    ELSE Cardinality(KeysOf(first) \cup KeysOf(second)))
  /\ \A n \in Nat : (KeysUpTo(first, n) \cup KeysUpTo(second, n)) \subseteq KeysOf(answer)
                    \/ KeysOf(answer) \subseteq KeysUpTo(first, n) \cup KeysUpTo(second, n)

LEMMA MergedFairly ==
  ASSUME NEW first \in Seq(Text), NEW second \in Seq(Text), NEW asked \in Nat
  PROVE  FairAnswer(Merged(first, second, asked), first, second, asked)
<1> DEFINE N == Ranks(first, second)
           Keys(n) == KeysUpTo(first, n) \cup KeysUpTo(second, n)
<1>1. N \in Nat /\ Len(first) \in Nat /\ Len(second) \in Nat /\ Len(first) <= N /\ Len(second) <= N
  BY DEF Ranks
<1>2. PICK f \in [0..N -> Seq(Text)] :
        /\ Merged(first, second, asked) = SubSeq(f[N], 1, IF asked <= Len(f[N]) THEN asked ELSE Len(f[N]))
        /\ f[0] = <<>>
        /\ \A n \in 1..N : f[n] = TakeBoth(f[n - 1], first, second, n)
  BY MergedStepwise DEF Turns
<1>3. Keys(0) = {}
  BY DEF KeysUpTo
<1>4. ASSUME NEW n \in Nat PROVE Keys(n + 1) = Keys(n) \cup KeyAt(first, n + 1) \cup KeyAt(second, n + 1)
  <2>1. \A i \in Nat : i <= n + 1 <=> i <= n \/ i = n + 1
    OBVIOUS
  <2>2. KeysUpTo(first, n + 1) = KeysUpTo(first, n) \cup KeyAt(first, n + 1)
    BY <1>1, <2>1 DEF KeysUpTo, KeyAt
  <2>3. KeysUpTo(second, n + 1) = KeysUpTo(second, n) \cup KeyAt(second, n + 1)
    BY <1>1, <2>1 DEF KeysUpTo, KeyAt
  <2> QED BY <2>2, <2>3
<1>5. Keys(N) = KeysOf(first) \cup KeysOf(second)
  BY <1>1 DEF KeysUpTo, KeysOf
<1> HIDE DEF N, Keys
<1>6. ASSUME NEW n \in Nat, n + 1 <= N
      PROVE  /\ f[n] \in Seq(Text) /\ f[n + 1] \in Seq(Text) /\ Starts(f[n], f[n + 1])
             /\ KeysOf(f[n + 1]) = KeysOf(f[n]) \cup KeyAt(first, n + 1) \cup KeyAt(second, n + 1)
             /\ Unlike(f[n]) => Unlike(f[n + 1])
  <2>1. n + 1 \in 1..N /\ (n + 1) - 1 = n /\ n \in 0..N /\ n + 1 \in Nat /\ n + 1 > 0
    BY <1>1, <1>6
  <2>2. f[n + 1] = TakeBoth(f[n], first, second, n + 1) /\ f[n] \in Seq(Text)
    BY <1>2, <2>1
  <2> DEFINE x == f[n]
  <2> HIDE DEF x
  <2>3. x \in Seq(Text) /\ f[n] = x
    BY <2>2 DEF x
  <2>4. /\ TakeBoth(x, first, second, n + 1) \in Seq(Text) /\ Starts(x, TakeBoth(x, first, second, n + 1))
        /\ KeysOf(TakeBoth(x, first, second, n + 1)) = KeysOf(x) \cup KeyAt(first, n + 1) \cup KeyAt(second, n + 1)
        /\ Unlike(x) => Unlike(TakeBoth(x, first, second, n + 1))
    <3> DEFINE k == n + 1
    <3>1. k \in Nat /\ k > 0
      BY <2>1
    <3> HIDE DEF k
    <3>2. /\ TakeBoth(x, first, second, k) \in Seq(Text) /\ Starts(x, TakeBoth(x, first, second, k))
          /\ KeysOf(TakeBoth(x, first, second, k)) = KeysOf(x) \cup KeyAt(first, k) \cup KeyAt(second, k)
          /\ Unlike(x) => Unlike(TakeBoth(x, first, second, k))
      <4>1. TakeBoth(x, first, second, k) \in Seq(Text)
        BY <2>3, <3>1, TakeTwo
      <4>2. Starts(x, TakeBoth(x, first, second, k))
        BY <2>3, <3>1, TakeTwo
      <4>3. KeysOf(TakeBoth(x, first, second, k)) = KeysOf(x) \cup KeyAt(first, k) \cup KeyAt(second, k)
        BY <2>3, <3>1, TakeTwo
      <4>4. Unlike(x) => Unlike(TakeBoth(x, first, second, k))
        BY <2>3, <3>1, TakeTwo
      <4> QED BY <4>1, <4>2, <4>3, <4>4
    <3> QED BY <3>2 DEF k
  <2> QED BY <2>2, <2>3, <2>4
<1>7. \A n \in 0..N : f[n] \in Seq(Text) /\ Unlike(f[n]) /\ KeysOf(f[n]) = Keys(n)
  <2> DEFINE T == { n \in Nat : n <= N => Unlike(f[n]) /\ KeysOf(f[n]) = Keys(n) }
  <2>1. 0 \in T
    BY <1>2, <1>3 DEF Unlike, KeysOf
  <2>2. ASSUME NEW n \in Nat, n \in T PROVE n + 1 \in T
    <3> SUFFICES ASSUME n + 1 <= N PROVE Unlike(f[n + 1]) /\ KeysOf(f[n + 1]) = Keys(n + 1)
      OBVIOUS
    <3>1. Unlike(f[n]) /\ KeysOf(f[n]) = Keys(n)
      BY <1>1, <2>2
    <3> QED BY <1>4, <1>6, <3>1
  <2>3. Nat \subseteq T
    <3> HIDE DEF T
    <3> QED BY <2>1, <2>2, Induct
  <2> QED BY <1>1, <1>2, <2>3
<1>8. ASSUME NEW r \in 0..N PROVE Starts(f[r], f[N])
  <2> DEFINE T == { n \in Nat : n <= N /\ r <= n => Starts(f[r], f[n]) }
  <2>1. f[r] \in Seq(Text) /\ r \in Nat
    BY <1>1, <1>7
  <2>2. Starts(f[r], f[r])
    BY <2>1 DEF Starts
  <2>3. 0 \in T
    BY <2>1, <2>2
  <2>4. ASSUME NEW n \in Nat, n \in T PROVE n + 1 \in T
    <3> SUFFICES ASSUME n + 1 <= N, r <= n + 1 PROVE Starts(f[r], f[n + 1])
      OBVIOUS
    <3>1. CASE r = n + 1
      BY <2>2, <3>1
    <3>2. CASE r <= n
      <4>1. Starts(f[r], f[n]) /\ Starts(f[n], f[n + 1]) /\ f[n] \in Seq(Text) /\ f[n + 1] \in Seq(Text)
        BY <1>1, <1>6, <2>4, <3>2
      <4>2. Len(f[r]) \in Nat /\ Len(f[n]) \in Nat /\ Len(f[n + 1]) \in Nat
        BY <2>1, <4>1
      <4> QED BY <4>1, <4>2 DEF Starts
    <3> QED BY <2>1, <3>1, <3>2
  <2>5. N \in T
    <3> HIDE DEF T
    <3> QED BY <1>1, <2>3, <2>4, Induct
  <2> QED BY <1>1, <2>5
<1> DEFINE D == f[N]
           m == IF asked <= Len(D) THEN asked ELSE Len(D)
           answer == SubSeq(D, 1, m)
<1>9. D \in Seq(Text) /\ Unlike(D) /\ KeysOf(D) = Keys(N) /\ Len(D) \in Nat
  <2>1. N \in 0..N
    BY <1>1
  <2> QED BY <1>7, <2>1
<1>10. Starts(answer, D) /\ answer \in Seq(Text) /\ Len(answer) = m /\ m \in Nat /\ m <= Len(D)
  <2>1. m \in Nat /\ m <= Len(D)
    BY <1>9
  <2> HIDE DEF D, m
  <2>2. answer \in Seq(Text) /\ Len(answer) = m /\ \A i \in 1..m : answer[i] = D[i]
    BY <1>9, <2>1
  <2> HIDE DEF answer
  <2> QED BY <2>1, <2>2 DEF Starts
<1>11. Merged(first, second, asked) = answer
  BY <1>2
<1> HIDE DEF D, answer
<1>12. Unlike(answer)
  <2> SUFFICES ASSUME NEW i \in 1..Len(answer), NEW j \in 1..Len(answer), answer[i].key = answer[j].key
               PROVE  i = j
    BY DEF Unlike
  <2>1. i \in 1..Len(D) /\ j \in 1..Len(D)
    BY <1>9, <1>10
  <2>2. D[i] = answer[i] /\ D[j] = answer[j]
    BY <1>10 DEF Starts
  <2> QED BY <1>9, <2>1, <2>2 DEF Unlike
<1>13. Cardinality(KeysOf(first) \cup KeysOf(second)) = Len(D)
  BY <1>5, <1>9, KeysCounted
<1>14. ASSUME NEW n \in Nat, ~(Keys(n) \subseteq KeysOf(answer)) PROVE KeysOf(answer) \subseteq Keys(n)
  <2>1. CASE n >= N
    <3>1. Keys(N) \subseteq Keys(n)
      BY <1>1, <2>1 DEF Keys, KeysUpTo
    <3>2. KeysOf(answer) \subseteq KeysOf(D)
      BY <1>9, <1>10 DEF KeysOf, Starts
    <3> QED BY <1>9, <3>1, <3>2
  <2>2. CASE n < N
    <3>1. n \in 0..N
      BY <1>1, <2>2
    <3>2. Starts(f[n], D) /\ f[n] \in Seq(Text) /\ KeysOf(f[n]) = Keys(n) /\ Len(f[n]) \in Nat
      BY <1>7, <1>8, <3>1 DEF D
    <3>3. PICK q \in 1..Len(f[n]) : f[n][q].key \notin KeysOf(answer)
      BY <1>14, <3>2 DEF KeysOf
    <3>4. D[q] = f[n][q] /\ q \in 1..Len(D)
      BY <1>9, <3>2 DEF Starts
    <3>5. q > m
      BY <1>10, <3>3, <3>4 DEF KeysOf, Starts
    <3>6. ASSUME NEW i \in 1..Len(answer) PROVE answer[i].key \in Keys(n)
      <4>1. i \in 1..Len(f[n])
        BY <1>10, <3>2, <3>5
      <4>2. answer[i] = D[i] /\ f[n][i] = D[i]
        BY <1>10, <3>2, <4>1 DEF Starts
      <4> QED BY <3>2, <4>1, <4>2 DEF KeysOf
    <3> QED BY <3>6 DEF KeysOf
  <2> QED BY <1>1, <2>1, <2>2
<1>15. \A n \in Nat : Keys(n) \subseteq KeysOf(answer) \/ KeysOf(answer) \subseteq Keys(n)
  BY <1>14
<1> QED BY <1>9, <1>10, <1>11, <1>12, <1>13, <1>15 DEF FairAnswer, Keys

-----------------------------------------------------------------------------
RetrievalInv ==
  /\ RetrievalOK
  /\ retrieved # NotAsked =>
       /\ retrieved.vector \in Seq(Text) /\ retrieved.graph \in Seq(Text) /\ retrieved.asked \in Nat
       /\ GraphEnabled => retrieved.merged = Merged(retrieved.vector, retrieved.graph, retrieved.asked)

LEMMA FoundTyped ==
  ASSUME NEW store \in {"vector", "graph"}
  PROVE  Found(store) \subseteq Seq(Text)
<1> SUFFICES ASSUME NEW s \in UNION { TupleOf(TextKeys, n) : n \in 0..MaxFound }
             PROVE  [i \in 1..Len(s) |-> [key |-> s[i], store |-> store]] \in Seq(Text)
  BY DEF Found
<1>1. s \in Seq(TextKeys)
  <2>1. PICK n \in 0..MaxFound : s \in TupleOf(TextKeys, n)
    OBVIOUS
  <2>2. n \in Nat
    BY RetrievalAssumption
  <2> QED BY <2>1, <2>2 DEF TupleOf
<1>2. Len(s) \in Nat /\ \A i \in 1..Len(s) : s[i] \in TextKeys
  BY <1>1
<1>3. \A i \in 1..Len(s) : [key |-> s[i], store |-> store] \in Text
  BY <1>2 DEF Text
<1> QED BY <1>2, <1>3

\* A query's texts have their types, and what is answered is the merge of what
\* the stores found (query).
THEOREM RetrievalInvariance == RetrievalSpec => []RetrievalInv
<1>1. RetrievalInit => RetrievalInv
  BY DEF RetrievalInit, RetrievalInv, RetrievalOK
<1>2. RetrievalInv /\ [RetrievalNext]_retrieved => RetrievalInv'
  <2> SUFFICES ASSUME RetrievalInv, [RetrievalNext]_retrieved PROVE RetrievalInv'
    OBVIOUS
  <2>1. CASE UNCHANGED retrieved
    BY <2>1 DEF RetrievalInv, RetrievalOK
  <2>2. CASE Query
    <3>1. PICK asked \in 1..MaxAsked, g \in GraphTexts, v \in Found("vector") :
            retrieved' = [ asked |-> asked, vector |-> v, graph |-> g,
                           merged |-> IF GraphEnabled THEN Merged(v, g, asked) ELSE v ]
      BY <2>2 DEF Query
    <3>2. asked \in Nat /\ v \in Seq(Text) /\ g \in Seq(Text)
      BY FoundTyped, RetrievalAssumption DEF GraphTexts
    <3>3. Merged(v, g, asked) \in Seq(Text)
      BY <3>2, MergedFairly DEF FairAnswer
    <3> QED BY <3>1, <3>2, <3>3 DEF RetrievalInv, RetrievalOK
  <2> QED BY <2>1, <2>2 DEF RetrievalNext
<1> QED BY <1>1, <1>2, PTL DEF RetrievalSpec

\* The answer of a hybrid query repeats no text, is as long as it can be, and
\* leaves a text out only for texts that a store ranks as high (_merge_results),
\* for whatever the stores found and any number of texts asked for.
THEOREM MergesAreFair == RetrievalSpec => []MergeIsFair
<1>1. RetrievalInv => MergeIsFair
  <2> SUFFICES ASSUME RetrievalInv, GraphEnabled, retrieved # NotAsked PROVE MergeIsFair
    BY DEF MergeIsFair
  <2> DEFINE v == retrieved.vector
             g == retrieved.graph
             stores == {v, g}
             Outranks(key, r) == \E s \in stores : \E i \in 1..Min({r, Len(s)}) : s[i].key = key
             answer == retrieved.merged
  <2>1. v \in Seq(Text) /\ g \in Seq(Text) /\ retrieved.asked \in Nat
        /\ FairAnswer(answer, v, g, retrieved.asked)
    BY MergedFairly DEF RetrievalInv
  <2> HIDE DEF v, g, answer
  <2>2. Cardinality(KeysOf(answer)) = Len(answer)
    BY <2>1, KeysCounted DEF FairAnswer
  <2>3. UNION { KeysOf(s) : s \in stores } = KeysOf(v) \cup KeysOf(g)
    OBVIOUS
  <2>4. Len(answer) = Min({retrieved.asked, Cardinality(UNION { KeysOf(s) : s \in stores })})
    <3> DEFINE most == Cardinality(KeysOf(v) \cup KeysOf(g))
    <3>1. Len(answer) = IF retrieved.asked <= most THEN retrieved.asked ELSE most
      BY <2>1 DEF FairAnswer
    <3>2. most \in Int
      BY <2>1 DEF FairAnswer
    <3> HIDE DEF most
    <3>3. retrieved.asked \in Int
      BY <2>1
    <3>4. Min({retrieved.asked, most}) = IF retrieved.asked <= most THEN retrieved.asked ELSE most
      BY <3>2, <3>3, LesserOf
    <3> QED BY <2>3, <3>1, <3>4 DEF most
  <2>5. ASSUME NEW s \in stores, NEW r \in 1..Len(s), s[r].key \notin KeysOf(answer), NEW key \in KeysOf(answer)
        PROVE  Outranks(key, r)
    <3>1. r \in Nat /\ Len(s) \in Nat /\ Len(v) \in Nat /\ Len(g) \in Nat
      BY <2>1
    <3>2. s[r].key \in KeysUpTo(s, r)
      BY <3>1 DEF KeysUpTo
    <3>3. key \in KeysUpTo(v, r) \cup KeysUpTo(g, r)
      BY <2>1, <2>5, <3>1, <3>2 DEF FairAnswer
    <3>4. PICK t \in stores : key \in KeysUpTo(t, r)
      BY <3>3
    <3>5. PICK i \in 1..Len(t) : i <= r /\ key = t[i].key
      BY <3>4 DEF KeysUpTo
    <3>6. i \in 1..Min({r, Len(t)})
      <4>1. r \in Int /\ Len(t) \in Int
        BY <3>1
      <4>2. Min({r, Len(t)}) = IF r <= Len(t) THEN r ELSE Len(t)
        BY <4>1, LesserOf
      <4> QED BY <3>5, <4>1, <4>2
    <3> QED BY <3>5, <3>6
  <2> QED BY <2>2, <2>4, <2>5 DEF MergeIsFair, v, g, answer
<1> QED BY <1>1, RetrievalInvariance, PTL

-----------------------------------------------------------------------------
(***************************************************************************)
(* Cutting a document into passages.                                       *)
(***************************************************************************)
Cutting == [spans : SUBSET Span, first : Nat, chars : Nat]

\* The line at which the passage that is open starts, or would start.
OpenAt(cut, n) == IF cut.chars = 0 THEN n + 1 ELSE cut.first
SpansOver(spans, i) == { p \in spans : i \in p.first..p.last }

LinePlaced(spans, lines, i) ==
  IF lines[i] = 0 THEN SpansOver(spans, i) = {} ELSE \E p : SpansOver(spans, i) = {p}

\* Of a document's first n lines, those before the open passage are in one
\* passage each if they are not blank and in none otherwise.
CutSoFar(cut, d, lines, n) ==
  /\ cut \in Cutting /\ \A p \in cut.spans : p.doc = d
  /\ OpenAt(cut, n) \in 1..(n + 1)
  /\ \A p \in cut.spans : p.last < OpenAt(cut, n)
  /\ \A i \in OpenAt(cut, n)..n : lines[i] # 0
  /\ \A i \in 1..(OpenAt(cut, n) - 1) :
       LinePlaced(cut.spans, lines, i)

LEMMA FlushKeepsTrack ==
  ASSUME NEW d \in Nat, NEW lines, NEW n \in Nat, NEW cut, CutSoFar(cut, d, lines, n)
  PROVE  CutSoFar(Flush(cut, d, n), d, lines, n) /\ Flush(cut, d, n).chars = 0
<1>1. CASE cut.chars = 0
  BY <1>1 DEF Flush
<1>2. CASE cut.chars # 0
  <2> DEFINE s == [doc |-> d, first |-> cut.first, last |-> n]
             new == Flush(cut, d, n)
  <2>1. /\ cut.first \in Nat /\ cut.first >= 1 /\ cut.first <= n + 1 /\ OpenAt(cut, n) = cut.first
        /\ cut.spans \subseteq Span
    BY <1>2 DEF CutSoFar, Cutting, OpenAt
  <2>2. new = [spans |-> cut.spans \cup {s}, first |-> 0, chars |-> 0]
    BY <1>2 DEF Flush
  <2>3. s \in Span /\ s.first = cut.first /\ s.last = n /\ s.doc = d
    BY <2>1 DEF Span
  <2> HIDE DEF s, new
  <2>4. new \in Cutting /\ new.chars = 0 /\ OpenAt(new, n) = n + 1 /\ new.spans = cut.spans \cup {s}
    BY <2>1, <2>2, <2>3 DEF Cutting, OpenAt
  <2>5. \A p \in new.spans : p.doc = d /\ p.last < n + 1 /\ (p = s \/ (p \in cut.spans /\ p.last < cut.first))
    <3> SUFFICES ASSUME NEW p \in new.spans
                 PROVE  p.doc = d /\ p.last < n + 1 /\ (p = s \/ (p \in cut.spans /\ p.last < cut.first))
      OBVIOUS
    <3>1. CASE p = s
      BY <2>3, <3>1
    <3>2. CASE p \in cut.spans
      <4>1. p.last \in Nat /\ p.last < cut.first /\ p.doc = d
        BY <2>1, <3>2 DEF CutSoFar, Span
      <4> QED BY <2>1, <3>2, <4>1
    <3> QED BY <2>4, <3>1, <3>2
  <2>6. ASSUME NEW i \in 1..n
        PROVE  LinePlaced(new.spans, lines, i)
    <3>1. CASE i < cut.first
      <4>1. SpansOver(new.spans, i) = SpansOver(cut.spans, i)
        BY <2>3, <2>4, <3>1 DEF SpansOver, Span
      <4>2. i \in 1..(OpenAt(cut, n) - 1)
        BY <2>1, <3>1
      <4> QED BY <4>1, <4>2 DEF CutSoFar, LinePlaced
    <3>2. CASE i >= cut.first
      <4>1. lines[i] # 0
        BY <2>1, <3>2 DEF CutSoFar
      <4>2. SpansOver(new.spans, i) = {s}
        <5>1. s \in SpansOver(new.spans, i)
          BY <2>3, <2>4, <3>2 DEF SpansOver
        <5>2. ASSUME NEW p \in new.spans, i \in p.first..p.last PROVE p = s
          <6>1. p \in cut.spans => p.last \in Nat /\ p.first \in Nat
            BY <2>1 DEF Span
          <6> QED BY <2>1, <2>5, <3>2, <5>2, <6>1
        <5> QED BY <5>1, <5>2 DEF SpansOver
      <4> QED BY <4>1, <4>2 DEF LinePlaced
    <3> QED BY <2>1, <3>1, <3>2
  <2>7. CutSoFar(new, d, lines, n)
    <3>1. n + 1 \in 1..(n + 1) /\ (n + 1) - 1 = n /\ (n + 1)..n = {}
      OBVIOUS
    <3> QED BY <2>4, <2>5, <2>6, <3>1 DEF CutSoFar
  <2> QED BY <2>4, <2>7 DEF new
<1> QED BY <1>1, <1>2

LEMMA FlushTyped ==
  ASSUME NEW cut \in Cutting, NEW d \in Nat, NEW n \in Nat
  PROVE  Flush(cut, d, n) \in Cutting
<1>1. cut.spans \subseteq Span /\ cut.first \in Nat
  BY DEF Cutting
<1> QED BY <1>1 DEF Flush, Cutting, Span

ReadLine(cut, d, lines, n) ==
  IF lines[n] = 0 THEN Flush(cut, d, n - 1) ELSE AddLine(cut, d, n, lines[n])

LEMMA LineRead ==
  ASSUME NEW d \in Nat, NEW lines \in Seq(Nat), NEW n \in Nat, n + 1 \in 1..Len(lines),
         NEW cut, CutSoFar(cut, d, lines, n)
  PROVE  CutSoFar(ReadLine(cut, d, lines, n + 1), d, lines, n + 1)
<1> DEFINE k == n + 1
<1>1. lines[k] \in Nat /\ k \in Nat /\ k - 1 = n
  OBVIOUS
<1>2. CASE lines[k] = 0
  <2> DEFINE new == Flush(cut, d, n)
  <2>1. CutSoFar(new, d, lines, n) /\ new.chars = 0 /\ ReadLine(cut, d, lines, k) = new
    BY <1>1, <1>2, FlushKeepsTrack DEF ReadLine
  <2> HIDE DEF new
  <2>2. OpenAt(new, n) = k /\ OpenAt(new, k) = k + 1
    BY <2>1 DEF OpenAt
  <2>3. \A p \in new.spans : p.last \in Nat /\ p.last < k
    BY <2>1, <2>2 DEF CutSoFar, Cutting, Span
  <2>4. SpansOver(new.spans, k) = {}
    BY <2>1, <2>3 DEF SpansOver, CutSoFar, Cutting
  <2>5. ASSUME NEW i \in 1..k
        PROVE  LinePlaced(new.spans, lines, i)
    <3>1. CASE i = k
      BY <1>2, <2>4, <3>1 DEF LinePlaced
    <3>2. CASE i < k
      BY <2>1, <2>2, <3>2 DEF CutSoFar
    <3> QED BY <3>1, <3>2
  <2>6. CutSoFar(new, d, lines, k)
    BY <2>1, <2>2, <2>3, <2>5 DEF CutSoFar
  <2> QED BY <2>1, <2>6
<1>3. CASE lines[k] # 0
  <2> DEFINE grown == [spans |-> cut.spans, first |-> IF cut.chars = 0 THEN k ELSE cut.first,
                       chars |-> cut.chars + lines[k]]
  <2>1. cut \in Cutting /\ cut.chars \in Nat /\ cut.first \in Nat
    BY DEF CutSoFar, Cutting
  <2>2. /\ grown \in Cutting /\ grown.spans = cut.spans /\ grown.chars = cut.chars + lines[k]
        /\ grown.first = (IF cut.chars = 0 THEN k ELSE cut.first)
    BY <1>1, <2>1 DEF Cutting
  <2> HIDE DEF grown
  <2>3. OpenAt(grown, k) = OpenAt(cut, n)
    BY <1>1, <1>3, <2>1, <2>2 DEF OpenAt
  <2>4. CutSoFar(grown, d, lines, k)
    <3>1. \A i \in OpenAt(cut, n)..k : i \in OpenAt(cut, n)..n \/ i = k
      BY DEF CutSoFar
    <3>2. OpenAt(cut, n) \in 1..(k + 1)
      BY DEF CutSoFar
    <3> QED BY <1>3, <2>2, <2>3, <3>1, <3>2 DEF CutSoFar
  <2>5. ReadLine(cut, d, lines, k) \in {grown, Flush(grown, d, k)}
    BY <1>3 DEF ReadLine, AddLine, grown
  <2> QED BY <1>1, <2>4, <2>5, FlushKeepsTrack
<1> QED BY <1>2, <1>3

LEMMA PassagesStepwise ==
  ASSUME NEW d \in Nat, NEW lines \in Seq(Nat)
  PROVE  \E f : /\ PassagesOf(d, lines) = Flush(f[Len(lines)], d, Len(lines)).spans
               /\ f[0] = [spans |-> {}, first |-> 0, chars |-> 0]
               /\ \A n \in 1..Len(lines) : f[n] = ReadLine(f[n - 1], d, lines, n)
<1> DEFINE N == Len(lines)
           start == [spans |-> {}, first |-> 0, chars |-> 0]
           read[n \in 0..N] ==
             IF n = 0 THEN start
             ELSE IF lines[n] = 0 THEN Flush(read[n - 1], d, n - 1) ELSE AddLine(read[n - 1], d, n, lines[n])
           step == [v \in Cutting \X (1..N) |-> ReadLine(v[1], d, lines, v[2])]
<1>1. PassagesOf(d, lines) = Flush(read[N], d, N).spans
  BY DEF PassagesOf
<1>2. read = CHOOSE g : g = [n \in 0..N |-> IF n = 0 THEN start ELSE ReadLine(g[n - 1], d, lines, n)]
  BY DEF ReadLine
<1> HIDE DEF read
<1>3. N \in Nat /\ start \in Cutting /\ \A n \in 1..N : lines[n] \in Nat
  BY DEF Cutting
<1>4. ASSUME NEW x \in Cutting, NEW n \in 1..N PROVE ReadLine(x, d, lines, n) \in Cutting
  <2>1. n \in Nat /\ n - 1 \in Nat /\ lines[n] \in Nat
    BY <1>3
  <2> DEFINE grown == [spans |-> x.spans, first |-> IF x.chars = 0 THEN n ELSE x.first,
                       chars |-> x.chars + lines[n]]
  <2>2. grown \in Cutting
    BY <2>1 DEF Cutting
  <2>3. ReadLine(x, d, lines, n) \in {Flush(x, d, n - 1), grown, Flush(grown, d, n)}
    BY DEF ReadLine, AddLine
  <2> HIDE DEF grown
  <2> QED BY <2>1, <2>2, <2>3, FlushTyped
<1>5. PICK f \in [0..N -> Cutting] : f[0] = start /\ \A n \in 1..N : f[n] = step[<<f[n - 1], n>>]
  <2>1. step \in Steps(Cutting, N)
    BY <1>4 DEF Steps
  <2> HIDE DEF N, step, start
  <2>2. \E f \in [0..N -> Cutting] : Follows(f, N, start, step)
    BY <1>3, <2>1, Recursion
  <2> QED BY <2>2 DEF Follows
<1>6. ASSUME NEW n \in 1..N PROVE f[n] = ReadLine(f[n - 1], d, lines, n)
  <2>1. n - 1 \in 0..N
    BY <1>3
  <2>2. f[n - 1] \in Cutting
    BY <2>1
  <2> QED BY <1>5, <2>2
<1>7. f = [n \in 0..N |-> IF n = 0 THEN start ELSE ReadLine(f[n - 1], d, lines, n)]
  <2> HIDE DEF step, start
  <2>1. DOMAIN f = 0..N /\ f[0] = start
    BY <1>3, <1>5
  <2>2. \A n \in 0..N : f[n] = IF n = 0 THEN start ELSE ReadLine(f[n - 1], d, lines, n)
    BY <1>3, <1>6, <2>1
  <2> QED BY <2>1, <2>2
<1> HIDE DEF start
<1>8. read = [n \in 0..N |-> IF n = 0 THEN start ELSE ReadLine(read[n - 1], d, lines, n)]
  BY <1>2, <1>7
<1>9. read[0] = start /\ \A n \in 1..N : read[n] = ReadLine(read[n - 1], d, lines, n)
  <2>1. \A n \in 0..N : read[n] = IF n = 0 THEN start ELSE ReadLine(read[n - 1], d, lines, n)
    BY <1>8
  <2>2. 0 \in 0..N /\ \A n \in 1..N : n \in 0..N /\ n # 0
    BY <1>3
  <2> QED BY <2>1, <2>2
<1> QED BY <1>1, <1>9 DEF start

LEMMA PassagesFound ==
  ASSUME NEW d \in Nat, NEW lines \in Seq(Nat)
  PROVE  /\ PassagesOf(d, lines) \subseteq Span /\ \A p \in PassagesOf(d, lines) : p.doc = d
         /\ \A i \in 1..Len(lines) : LinePlaced(PassagesOf(d, lines), lines, i)
<1> DEFINE N == Len(lines)
<1>1. PICK f : /\ PassagesOf(d, lines) = Flush(f[N], d, N).spans
               /\ f[0] = [spans |-> {}, first |-> 0, chars |-> 0]
               /\ \A n \in 1..N : f[n] = ReadLine(f[n - 1], d, lines, n)
  BY PassagesStepwise
<1>2. N \in Nat
  OBVIOUS
<1> HIDE DEF N
<1> DEFINE T == { n \in Nat : n <= N => CutSoFar(f[n], d, lines, n) }
<1>3. 0 \in T
  <2>1. f[0] \in Cutting /\ f[0].spans = {} /\ f[0].chars = 0
    BY <1>1 DEF Cutting
  <2>2. OpenAt(f[0], 0) = 1 /\ 1 \in 1..(0 + 1) /\ 1..0 = {} /\ 1..(1 - 1) = {}
    BY <2>1 DEF OpenAt
  <2> QED BY <2>1, <2>2 DEF CutSoFar
<1>4. ASSUME NEW n \in Nat, n \in T PROVE n + 1 \in T
  <2> SUFFICES ASSUME n + 1 <= N PROVE CutSoFar(f[n + 1], d, lines, n + 1)
    OBVIOUS
  <2>1. n + 1 \in 1..N /\ (n + 1) - 1 = n /\ CutSoFar(f[n], d, lines, n)
    BY <1>2, <1>4
  <2>2. f[n + 1] = ReadLine(f[n], d, lines, n + 1)
    BY <1>1, <2>1
  <2>3. n + 1 \in 1..Len(lines)
    BY <2>1 DEF N
  <2> QED BY <2>1, <2>2, <2>3, LineRead
<1>5. CutSoFar(f[N], d, lines, N)
  <2>1. N \in T
    <3> HIDE DEF T
    <3> QED BY <1>2, <1>3, <1>4, Induct
  <2> QED BY <1>2, <2>1
<1> DEFINE all == Flush(f[N], d, N)
<1>6. CutSoFar(all, d, lines, N) /\ all.chars = 0
  BY <1>2, <1>5, FlushKeepsTrack
<1>7. PassagesOf(d, lines) = all.spans
  BY <1>1
<1> HIDE DEF all
<1>8. OpenAt(all, N) - 1 = N
  BY <1>2, <1>6 DEF OpenAt
<1>9. all.spans \subseteq Span
  BY <1>6 DEF CutSoFar, Cutting
<1> QED BY <1>6, <1>7, <1>8, <1>9 DEF CutSoFar, N

-----------------------------------------------------------------------------
CutUp ==
  /\ documents \in Libraries
  /\ progress # "drafted" /\ design /\ Threats # <<>> => passages = AllPassages(documents)

\* The passages of the documents hold each of their lines that is not blank
\* once and no other (build_document_passages), for documents of any length and
\* any limits on a passage's lines and characters.
THEOREM PassagesCutOnce == CriticSpec => []PassagesPartition
<1>1. CriticInit => CutUp
  BY DEF CriticInit, CutUp
<1>2. CutUp /\ [CriticNext]_critic => CutUp'
  <2> SUFFICES ASSUME CutUp, [CriticNext]_critic PROVE CutUp'
    OBVIOUS
  <2>1. CASE UNCHANGED critic
    BY <2>1 DEF critic, CutUp, AllPassages
  <2>2. CASE Skip
    BY <2>2 DEF Skip, CutUp
  <2>3. CASE Ask
    BY <2>3 DEF Ask, CutUp, AllPassages
  <2>4. CASE Fail
    BY <2>4 DEF Fail, CutUp, AllPassages
  <2>5. ASSUME NEW said, CriticReply(said) PROVE CutUp'
    BY <2>5 DEF CriticReply, CutUp, AllPassages
  <2> QED BY <2>1, <2>2, <2>3, <2>4, <2>5 DEF CriticNext
<1>3. CutUp => PassagesPartition
  <2> SUFFICES ASSUME CutUp, progress # "drafted", design, Threats # <<>>,
                      NEW d \in DOMAIN documents, NEW n \in DOMAIN documents[d]
               PROVE  Cardinality({ p \in passages : p.doc = d /\ n \in p.first..p.last })
                        = (IF documents[d][n] = 0 THEN 0 ELSE 1)
    BY DEF PassagesPartition
  <2> DEFINE lines == documents[d]
             ps == PassagesOf(d, lines)
  <2>1. documents \in Seq(Seq(Nat)) /\ passages = AllPassages(documents)
    BY CriticAssumption DEF CutUp
  <2>2. /\ \A c \in DOMAIN documents : c \in Nat /\ documents[c] \in Seq(Nat)
        /\ n \in 1..Len(lines)
    BY <2>1
  <2>3. LinePlaced(ps, lines, n)
    BY <2>2, PassagesFound
  <2>4. { p \in passages : p.doc = d /\ n \in p.first..p.last } = SpansOver(ps, n)
    <3>1. \A c \in DOMAIN documents : \A p \in PassagesOf(c, documents[c]) : p.doc = c
      BY <2>2, PassagesFound
    <3> QED BY <2>1, <3>1 DEF AllPassages, SpansOver
  <2>5. CASE lines[n] = 0
    BY <2>3, <2>4, <2>5, FS_EmptySet DEF LinePlaced
  <2>6. CASE lines[n] # 0
    <3>1. PICK p : SpansOver(ps, n) = {p}
      BY <2>3, <2>6 DEF LinePlaced
    <3> QED BY <2>4, <2>6, <3>1, FS_Singleton
  <2> QED BY <2>5, <2>6
<1> QED BY <1>1, <1>2, <1>3, PTL DEF CriticSpec

LEMMA KeptTyped ==
  ASSUME candidates' \in [ThreatIds -> SUBSET Span], NEW t, NEW said,
         said = <<>> \/ candidates' = candidates
  PROVE  VerdictOn(t, said) \in [status : Statuses, evidence : SUBSET Span, counter : SUBSET Span]
<1> DEFINE V == [status : Statuses, evidence : SUBSET Span, counter : SUBSET Span]
<1>1. Unanswered \in V
  BY DEF Unanswered, Statuses
<1>2. ASSUME candidates' = candidates, NEW v PROVE Kept(v) \in V
  <2>1. Allowed(v.threat) \subseteq Span
    <3>1. Examined \subseteq ThreatIds
      <4>1. Len(Threats) \in Nat /\ DOMAIN Threats = 1..Len(Threats) /\ MaxThreats \in Int
        BY CriticAssumption
      <4>2. 1..Min({Len(Threats), MaxThreats}) \subseteq DOMAIN Threats
        BY <4>1, LesserOf
      <4> QED BY <4>2 DEF Examined, ThreatIds
    <3> QED BY <1>2, <3>1 DEF Allowed
  <2> DEFINE evidence == v.evidence \cap Allowed(v.threat)
             counter == v.counter \cap Allowed(v.threat)
  <2>2. evidence \in SUBSET Span /\ counter \in SUBSET Span
    BY <2>1
  <2>3. Kept(v) \in {Unanswered, [status |-> "supported", evidence |-> evidence, counter |-> counter],
                     [status |-> "contradicted", evidence |-> evidence, counter |-> counter],
                     [status |-> "contradicted", evidence |-> {}, counter |-> evidence]}
    BY Zenon DEF Kept
  <2> HIDE DEF evidence, counter
  <2> QED BY <1>1, <2>2, <2>3 DEF Statuses
<1>3. said = <<>> => VerdictOn(t, said) = Unanswered
  BY DEF VerdictOn
<1> QED BY <1>1, <1>2, <1>3 DEF VerdictOn

LEMMA AppliedTyped ==
  ASSUME candidates' \in [ThreatIds -> SUBSET Span], sources \subseteq Span, NEW said,
         said = <<>> \/ candidates' = candidates, NEW how \in {"completed", "fallback"},
         ApplyVerdicts(said, how)
  PROVE  /\ verdicts' \in Seq([status : Statuses, evidence : SUBSET Span, counter : SUBSET Span])
         /\ sources' \subseteq Span
         /\ summary'.status \in {"none", "completed", "fallback"}
<1> DEFINE V == [status : Statuses, evidence : SUBSET Span, counter : SUBSET Span]
           kept == [i \in DOMAIN Threats |-> VerdictOn(Threats[i], said)]
<1>1. \A i \in DOMAIN Threats : VerdictOn(Threats[i], said) \in V
  BY KeptTyped
<1>2. Len(Threats) \in Nat /\ DOMAIN Threats = 1..Len(Threats)
  BY CriticAssumption
<1>3. kept \in Seq(V) /\ \A i \in DOMAIN kept : kept[i] \in V
  <2>1. kept = [i \in 1..Len(Threats) |-> VerdictOn(Threats[i], said)]
    BY <1>2
  <2> QED BY <1>1, <1>2, <2>1
<1> HIDE DEF kept
<1>4. verdicts' = kept /\ sources' = sources \cup UNION { kept[i].evidence \cup kept[i].counter : i \in DOMAIN kept }
      /\ summary'.status = how
  BY DEF ApplyVerdicts, kept
<1>5. \A i \in DOMAIN kept : kept[i].evidence \cup kept[i].counter \subseteq Span
  BY <1>3
<1> QED BY <1>3, <1>4, <1>5

\* Passages, candidates, verdicts and sources are of the passages of the
\* documents, whatever was replied (evidence_critic.py).
THEOREM CriticTypes == CriticSpec => []CriticOK
<1>1. CriticInit => CriticOK
  <2>1. <<>> \in Seq([status : Statuses, evidence : SUBSET Span, counter : SUBSET Span])
    OBVIOUS
  <2> QED BY <2>1 DEF CriticInit, CriticOK, NoSummary
<1>2. CriticOK /\ [CriticNext]_critic => CriticOK'
  <2> SUFFICES ASSUME CriticOK, [CriticNext]_critic PROVE CriticOK'
    OBVIOUS
  <2>1. CASE UNCHANGED critic
    BY <2>1 DEF critic, CriticOK
  <2>2. CASE Skip
    BY <2>2 DEF Skip, CriticOK
  <2>3. CASE Ask
    <3> DEFINE ps == AllPassages(documents)
               best == [t \in ThreatIds |-> IF t \in Examined THEN Ranked(t, ps) ELSE {}]
    <3>1. ps \subseteq Span
      <4>1. \A d \in DOMAIN documents : d \in Nat /\ documents[d] \in Seq(Nat)
        BY CriticAssumption DEF CriticOK
      <4>2. \A d \in DOMAIN documents : PassagesOf(d, documents[d]) \subseteq Span
        BY <4>1, PassagesFound
      <4> QED BY <4>2 DEF AllPassages
    <3>2. ASSUME NEW t PROVE Ranked(t, ps) \subseteq ps
      BY DEF Ranked
    <3>3. candidates' \in [ThreatIds -> SUBSET Span] /\ passages' \subseteq Span
      BY <2>3, <3>1, <3>2 DEF Ask
    <3>4. CASE progress' = "verified" /\ ApplyVerdicts(<<>>, "fallback")
      BY <2>3, <3>3, <3>4, AppliedTyped DEF Ask, CriticOK
    <3>5. CASE progress' = "asked" /\ UNCHANGED <<verdicts, sources, summary>>
      BY <2>3, <3>3, <3>5 DEF Ask, CriticOK
    <3> QED BY <2>3, <3>4, <3>5 DEF Ask
  <2>4. CASE Fail
    BY <2>4, AppliedTyped DEF Fail, CriticOK
  <2>5. ASSUME NEW said, CriticReply(said) PROVE CriticOK'
    BY <2>5, AppliedTyped DEF CriticReply, CriticOK
  <2> QED BY <2>1, <2>2, <2>3, <2>4, <2>5 DEF CriticNext
<1> QED BY <1>1, <1>2, PTL DEF CriticSpec
=============================================================================
