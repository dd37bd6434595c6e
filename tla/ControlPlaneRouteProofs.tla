------------------------ MODULE ControlPlaneRouteProofs ------------------------
(***************************************************************************)
(* Proofs about the way of a study along its route in ControlPlane, for     *)
(* every route, every set of threads, both modes and every bound: no step   *)
(* lacks its candidate and no human decision is passed over, whatever is    *)
(* refused, revised, re-routed, retargeted or lost to a restart, except the *)
(* steps on record as waived; what is complete was reviewed; checkpoints    *)
(* that a continuation in the conversation finds open stay open.            *)
(***************************************************************************)
EXTENDS ControlPlaneProofs

Formatting == "journal_style_revision"
Reviewed == HumanGates \ {"uncertainty_gate"}

\* The steps of a project, with and without a publication target.
Route(target) == IF target THEN Formatted(Workflow) ELSE Workflow

\* The last step that a publication target leaves where it is.
LastFixed == LastBeforeFormatting(Workflow)

\* The steps that a study may leave behind: those on record as waived and those
\* with a candidate and, when they are human decisions, with an approved Gate.
Cleared == waived \cup {a \in produced : a \in Reviewed => ApprovedGate(a)}

\* All steps before the current one are cleared.
Passed(s, cleared) ==
  \A i \in DOMAIN s.steps : 3 <= i /\ i < s.index => s.steps[i] \in cleared

\* Action a is at the current step or beyond it, and nothing is missing before
\* it, except a formatting stage that was added ahead of the current step.
Pending(a, s, cleared) ==
  /\ s.routed
  /\ \E k \in 3..Len(s.steps) :
       /\ s.index <= k /\ s.steps[k] = a
       /\ \A j \in 3..(k - 1) : s.steps[j] \in cleared \/ (s.steps[j] = Formatting /\ s.index < j)

\* A row of the states, current or copied.
SoundRow(s) == /\ s \in States
               /\ s.routed => s.steps = Route(s.target) /\ s.index >= 3
               /\ ~s.routed => s.index = 1 /\ s.gate = 0
               /\ s.life = "ACTIVE" => s.index <= Len(s.steps) + 1

----------------------------------------------------------------------------
(* Routes.                                                                  *)

LEMMA WorkflowFacts ==
  /\ Workflow \in Seq(Actions) /\ Len(Workflow) \in Nat /\ Len(Workflow) >= 3
  /\ DOMAIN Workflow = 1..Len(Workflow)
  /\ \A i, j \in 1..Len(Workflow) : Workflow[i] = Workflow[j] => i = j
  /\ \A i \in 1..Len(Workflow) : Workflow[i] # None /\ Workflow[i] # Formatting
  /\ LastFixed \in 1..Len(Workflow) /\ LastFixed >= 3
<1>1. Workflow \in Seq(Actions)  BY RouteIsOfActions
<1>2. Len(Workflow) \in Nat /\ DOMAIN Workflow = 1..Len(Workflow)  BY <1>1, LenProperties
<1>3. Len(Workflow) >= 3 /\ \A i, j \in 1..Len(Workflow) : Workflow[i] = Workflow[j] => i = j
  BY <1>2, WorkflowAssumption
<1>4. \A i \in 1..Len(Workflow) : Workflow[i] # None /\ Workflow[i] # Formatting
  BY <1>2, WorkflowAssumption DEF Formatting
<1>5. LastFixed \in 1..Len(Workflow)
  BY <1>1, <1>2, <1>3, StepsAreNames, PositionIsThere DEF LastFixed, LastBeforeFormatting
<1>6. LastFixed >= 3
  <2>1. CASE ~In(Workflow, "writing")
    BY <1>3, <2>1 DEF LastFixed, LastBeforeFormatting
  <2>2. CASE In(Workflow, "writing")
    <3>1. LastFixed \in 1..Len(Workflow) /\ Workflow[LastFixed] = "writing"
      BY <1>1, <1>2, <2>2, StepsAreNames, PositionIsThere
         DEF LastFixed, LastBeforeFormatting, In, Position
    <3>2. <<Workflow[LastFixed], Workflow[LastFixed]>> \in Returns  BY <3>1 DEF Returns
    <3> QED BY <1>2, <3>1, <3>2, RouteAssumption DEF RouteOrder
  <2> QED BY <2>1, <2>2
<1> QED BY <1>1, <1>2, <1>3, <1>4, <1>5, <1>6

\* The formatting stage is added once.
LEMMA FormattedOnce ==
  ASSUME NEW steps \in {Unclassified, Workflow}
  PROVE  Formatted(Formatted(steps)) = Formatted(steps)
<1> DEFINE p == LastBeforeFormatting(steps)
           f == Formatted(steps)
<1>1. steps \in Seq(Names) /\ Len(steps) \in Nat  BY StepsAreNames, LenProperties
<1>2. CASE In(steps, Formatting)  BY <1>2 DEF Formatted, Formatting
<1>3. CASE ~In(steps, Formatting)
  <2>1. p \in 0..Len(steps)  BY <1>1, PositionIsThere DEF LastBeforeFormatting
  <2>2. f = SubSeq(steps, 1, p) \o <<Formatting>> \o SubSeq(steps, p + 1, Len(steps))
    BY <1>3 DEF Formatted, InsertAfter, Formatting
  <2> DEFINE first == SubSeq(steps, 1, p)
             rest == SubSeq(steps, p + 1, Len(steps))
  <2> HIDE DEF p, f
  <2>3. first \in Seq(Names) /\ rest \in Seq(Names)
    <3>1. \A i \in 1..Len(steps) : steps[i] \in Names  BY <1>1, ElementOfSeq
    <3>2. \A i \in 1..p : i \in 1..Len(steps)  BY <1>1, <2>1
    <3>3. \A i \in (p + 1)..Len(steps) : i \in 1..Len(steps)  BY <1>1, <2>1
    <3> QED BY <1>1, <2>1, <3>1, <3>2, <3>3, SubSeqProperties
  <2> HIDE DEF first, rest
  <2>4. <<Formatting>> \in Seq(Names) /\ Len(<<Formatting>>) = 1  BY DEF Names, Formatting
  <2>5. first \o <<Formatting>> \in Seq(Names) /\ Len(first) \in Nat
        /\ Len(first \o <<Formatting>>) = Len(first) + 1
        /\ (first \o <<Formatting>>)[Len(first) + 1] = Formatting
    <3>1. Len(first) \in Nat  BY <2>3, LenProperties
    <3> QED BY <2>3, <2>4, <3>1, ConcatProperties
  <2>6. f \in Seq(Names) /\ Len(f) = Len(first) + 1 + Len(rest) /\ f[Len(first) + 1] = Formatting
        /\ Len(rest) \in Nat
    <3>1. f = (first \o <<Formatting>>) \o rest  BY <2>2 DEF first, rest
    <3>2. Len(rest) \in Nat  BY <2>3, LenProperties
    <3> QED BY <2>3, <2>5, <3>1, <3>2, ConcatProperties
  <2>7. In(f, Formatting)
    <3>1. DOMAIN f = 1..Len(f) /\ Len(first) + 1 \in 1..Len(f)  BY <2>5, <2>6, LenProperties
    <3> QED BY <2>6, <3>1 DEF In
  <2> QED BY <2>7 DEF Formatted, Formatting, f
<1> QED BY <1>2, <1>3

\* The formatting stage comes after the last fixed step and shifts the rest.
LEMMA FormattedFacts ==
  /\ Formatted(Workflow) \in Seq(Actions)
  /\ Len(Formatted(Workflow)) = Len(Workflow) + 1
  /\ DOMAIN Formatted(Workflow) = 1..(Len(Workflow) + 1)
  /\ \A i \in 1..LastFixed : Formatted(Workflow)[i] = Workflow[i]
  /\ Formatted(Workflow)[LastFixed + 1] = Formatting
  /\ \A i \in (LastFixed + 2)..(Len(Workflow) + 1) : Formatted(Workflow)[i] = Workflow[i - 1]
  /\ Formatted(Formatted(Workflow)) = Formatted(Workflow)
<1> DEFINE n == Len(Workflow)
           p == LastFixed
           first == SubSeq(Workflow, 1, p)
           rest == SubSeq(Workflow, p + 1, n)
           f == Formatted(Workflow)
<1>1. Workflow \in Seq(Actions) /\ n \in Nat /\ p \in 1..n /\ DOMAIN Workflow = 1..n
      /\ \A i \in 1..n : Workflow[i] # Formatting
  BY WorkflowFacts
<1>2. f = first \o <<Formatting>> \o rest
  BY <1>1 DEF Formatted, InsertAfter, In, Formatting, LastFixed
<1>3. /\ first \in Seq(Actions) /\ Len(first) = p
      /\ \A i \in 1..p : first[i] = Workflow[i]
  <2>1. \A i \in 1..p : Workflow[i] \in Actions  BY <1>1, ElementOfSeq
  <2> QED BY <1>1, <2>1, SubSeqProperties
<1>4. /\ rest \in Seq(Actions) /\ Len(rest) = n - p
      /\ \A i \in 1..(n - p) : rest[i] = Workflow[p + i]
  <2>1. \A i \in (p + 1)..n : Workflow[i] \in Actions  BY <1>1, ElementOfSeq
  <2>2. /\ rest \in Seq(Actions)
        /\ Len(rest) = IF p + 1 <= n THEN n - (p + 1) + 1 ELSE 0
        /\ \A i \in 1..(n - (p + 1) + 1) : rest[i] = Workflow[(p + 1) + i - 1]
    <3> HIDE DEF n, p
    <3> QED BY <1>1, <2>1, SubSeqProperties
  <2>3. p \in Nat /\ n \in Nat /\ p <= n  BY <1>1
  <2> HIDE DEF n, p, rest
  <2>4. n - (p + 1) + 1 = n - p /\ Len(rest) = n - p  BY <2>2, <2>3
  <2>5. \A i \in 1..(n - p) : (p + 1) + i - 1 = p + i  BY <2>3
  <2> QED BY <2>2, <2>4, <2>5
<1> DEFINE one == <<Formatting>>
           both == first \o one
<1>5. one \in Seq(Actions) /\ Len(one) = 1 /\ one[1] = Formatting
  BY DEF Actions, Formatting
<1> HIDE DEF n, p, first, rest, one
<1>6. /\ both \in Seq(Actions) /\ Len(both) = p + 1
      /\ \A i \in 1..p : both[i] = Workflow[i]
      /\ both[p + 1] = Formatting
  <2>1. /\ both \in Seq(Actions) /\ Len(both) = Len(first) + Len(one)
        /\ \A i \in 1..(Len(first) + Len(one)) :
             both[i] = IF i <= Len(first) THEN first[i] ELSE one[i - Len(first)]
    BY <1>3, <1>5, ConcatProperties
  <2> HIDE DEF both
  <2>2. p \in Nat /\ p + 1 \in 1..(p + 1) /\ (p + 1) - p = 1 /\ ~(p + 1 <= p)  BY <1>1
  <2>3. \A i \in 1..p : i \in 1..(p + 1) /\ i <= p  BY <2>2
  <2> QED BY <1>3, <1>5, <2>1, <2>2, <2>3
<1>7. f = both \o rest  BY <1>2 DEF one
<1> HIDE DEF both
<1>8. /\ both \o rest \in Seq(Actions) /\ Len(both \o rest) = n + 1
      /\ \A i \in 1..(n + 1) : (both \o rest)[i] = IF i <= p + 1 THEN both[i] ELSE rest[i - (p + 1)]
  <2>1. /\ both \o rest \in Seq(Actions) /\ Len(both \o rest) = Len(both) + Len(rest)
        /\ \A i \in 1..(Len(both) + Len(rest)) :
             (both \o rest)[i] = IF i <= Len(both) THEN both[i] ELSE rest[i - Len(both)]
    BY <1>4, <1>6, ConcatProperties
  <2>2. (p + 1) + (n - p) = n + 1  BY <1>1
  <2> QED BY <1>4, <1>6, <2>1, <2>2
<1>9. f \in Seq(Actions) /\ Len(f) = n + 1 /\ DOMAIN f = 1..(n + 1)
  BY <1>7, <1>8, LenProperties
<1> HIDE DEF f
<1>10. \A i \in 1..(n + 1) : f[i] = IF i <= p + 1 THEN both[i] ELSE rest[i - (p + 1)]
  BY <1>7, <1>8
<1>11. \A i \in 1..p : f[i] = Workflow[i]  BY <1>1, <1>6, <1>10
<1>12. f[p + 1] = Formatting  BY <1>1, <1>6, <1>10
<1>13. \A i \in (p + 2)..(n + 1) : f[i] = Workflow[i - 1]
  <2> SUFFICES ASSUME NEW i \in (p + 2)..(n + 1) PROVE f[i] = Workflow[i - 1]  OBVIOUS
  <2>1. f[i] = rest[i - (p + 1)]  BY <1>1, <1>10
  <2>2. i - (p + 1) \in 1..(n - p) /\ p + (i - (p + 1)) = i - 1  BY <1>1
  <2>3. rest[i - (p + 1)] = Workflow[p + (i - (p + 1))]  BY <1>4, <2>2
  <2> QED BY <2>1, <2>2, <2>3
<1>14. Formatted(f) = f
  BY <1>1, <1>9, <1>12 DEF Formatted, In, Formatting
<1> QED BY <1>9, <1>11, <1>12, <1>13, <1>14 DEF f, n, p

LEMMA RouteFacts ==
  ASSUME NEW target \in BOOLEAN
  PROVE  LET r == Route(target) IN
         /\ r \in Seq(Actions) /\ Len(r) \in Nat /\ DOMAIN r = 1..Len(r)
         /\ Len(r) >= Len(Workflow) /\ Len(r) <= Len(Workflow) + 1
         /\ \A i \in 1..LastFixed : i \in 1..Len(r) /\ r[i] = Workflow[i]
         /\ \A i \in 1..Len(r) : r[i] = Formatting => i = LastFixed + 1
         /\ \A i \in 1..Len(r) : r[i] # None
         /\ \A i \in 1..Len(r) : r[i] # Formatting =>
              \E j \in 1..Len(Workflow) : j <= i /\ Workflow[j] = r[i]
         /\ \A j \in 1..Len(Workflow) : \E i \in j..Len(r) : r[i] = Workflow[j]
         /\ \A i, j \in 1..Len(r) : r[i] = r[j] => i = j
<1> DEFINE r == Route(target)
           n == Len(Workflow)
           p == LastFixed
<1>1. /\ Workflow \in Seq(Actions) /\ n \in Nat /\ DOMAIN Workflow = 1..n /\ p \in 1..n
      /\ \A i, j \in 1..n : Workflow[i] = Workflow[j] => i = j
      /\ \A i \in 1..n : Workflow[i] # None /\ Workflow[i] # Formatting
  BY WorkflowFacts
<1>2. CASE ~target
  <2>1. r = Workflow  BY <1>2 DEF Route
  <2>2. \A i \in 1..n : i <= i  BY <1>1
  <2>3. \A i \in 1..p : i \in 1..n  BY <1>1
  <2>4. \A j \in 1..n : j \in j..n  BY <1>1
  <2>5. n >= n /\ n <= n + 1  BY <1>1
  <2> QED BY <1>1, <2>1, <2>2, <2>3, <2>4, <2>5
<1>3. CASE target
  <2> DEFINE f == Formatted(Workflow)
  <2>1. r = f  BY <1>3 DEF Route
  <2>2. /\ f \in Seq(Actions) /\ Len(f) = n + 1 /\ DOMAIN f = 1..(n + 1)
        /\ \A i \in 1..p : f[i] = Workflow[i]
        /\ f[p + 1] = Formatting
        /\ \A i \in (p + 2)..(n + 1) : f[i] = Workflow[i - 1]
    BY FormattedFacts
  <2> HIDE DEF r, n, p, f
  <2>3. \A i \in 1..(n + 1) : \/ i \in 1..p /\ f[i] = Workflow[i]
                              \/ i = p + 1 /\ f[i] = Formatting
                              \/ /\ i \in (p + 2)..(n + 1) /\ f[i] = Workflow[i - 1]
                                 /\ i - 1 \in 1..n /\ i - 1 <= i
    BY <1>1, <2>2
  <2>4. \A i \in 1..p : i \in 1..(n + 1) /\ i \in 1..n /\ i <= i  BY <1>1
  <2>5. \A i \in 1..(n + 1) : f[i] = Formatting => i = p + 1
    BY <1>1, <2>3, <2>4
  <2>6. \A i \in 1..(n + 1) : f[i] # None
    BY <1>1, <2>3, <2>4 DEF Formatting, None
  <2>7. \A i \in 1..(n + 1) : f[i] # Formatting => \E j \in 1..n : j <= i /\ Workflow[j] = f[i]
    BY <2>3, <2>4
  <2>8. \A j \in 1..n : \E i \in j..(n + 1) : f[i] = Workflow[j]
    <3> SUFFICES ASSUME NEW j \in 1..n PROVE \E i \in j..(n + 1) : f[i] = Workflow[j]  OBVIOUS
    <3>1. CASE j <= p
      <4>1. j \in 1..p /\ j \in j..(n + 1)  BY <1>1, <3>1
      <4> QED BY <2>2, <4>1
    <3>2. CASE j > p
      <4>1. j + 1 \in (p + 2)..(n + 1) /\ (j + 1) - 1 = j /\ j + 1 \in j..(n + 1)  BY <1>1, <3>2
      <4>2. f[j + 1] = Workflow[(j + 1) - 1]  BY <2>2, <4>1
      <4> QED BY <4>1, <4>2
    <3> QED BY <1>1, <3>1, <3>2
  <2>9. \A i, j \in 1..(n + 1) : f[i] = f[j] => i = j
    <3> SUFFICES ASSUME NEW i \in 1..(n + 1), NEW j \in 1..(n + 1), f[i] = f[j] PROVE i = j
      OBVIOUS
    <3>1. CASE i = p + 1 \/ j = p + 1
      BY <2>2, <2>5, <3>1
    <3>2. CASE i # p + 1 /\ j # p + 1
      <4> DEFINE was(k) == IF k <= p THEN k ELSE k - 1
      <4>1. \A k \in 1..(n + 1) : k # p + 1 => was(k) \in 1..n /\ f[k] = Workflow[was(k)]
        BY <1>1, <2>3
      <4>2. was(i) = was(j)
        <5> HIDE DEF was
        <5>1. /\ was(i) \in 1..n /\ f[i] = Workflow[was(i)]
              /\ was(j) \in 1..n /\ f[j] = Workflow[was(j)]
          BY <3>2, <4>1
        <5>2. Workflow[was(i)] = Workflow[was(j)]  BY <5>1
        <5> QED BY <1>1, <5>1, <5>2
      <4> QED BY SMTT(20), <1>1, <3>2, <4>2
    <3> QED BY <3>1, <3>2
  <2>10. n + 1 >= n /\ n + 1 <= n + 1 /\ n + 1 \in Nat  BY <1>1
  <2> QED BY <2>1, <2>2, <2>4, <2>5, <2>6, <2>7, <2>8, <2>9, <2>10 DEF r, n, p
<1> QED BY <1>2, <1>3

\* The step at which a study resumes after step k, or to which it returns, is
\* no further than the next, and no formatting stage lies before it.
LEMMA ResumesNear ==
  ASSUME NEW target \in BOOLEAN, NEW k \in 1..Len(Route(target)), NEW step,
         In(Route(target), step),
         <<Route(target)[k], step>> \in Resumptions \cup Returns
  PROVE  LET r == Route(target)
             q == Position(r, step) IN
         /\ q \in 3..Len(r) /\ r[q] = step /\ q <= k + 1
         /\ <<r[k], step>> \in Returns => q <= k
         /\ \A j \in 1..(q - 1) : j \in 1..Len(r) /\ r[j] # Formatting
<1> DEFINE r == Route(target)
           n == Len(Workflow)
           q == Position(r, step)
<1>1. /\ r \in Seq(Actions) /\ Len(r) \in Nat /\ DOMAIN r = 1..Len(r)
      /\ \A i \in 1..LastFixed : i \in 1..Len(r) /\ r[i] = Workflow[i]
      /\ \A i \in 1..Len(r) : r[i] = Formatting => i = LastFixed + 1
      /\ \A i \in 1..Len(r) : r[i] # Formatting =>
           \E j \in 1..n : j <= i /\ Workflow[j] = r[i]
      /\ \A i, j \in 1..Len(r) : r[i] = r[j] => i = j
  BY RouteFacts
<1>2. n \in Nat /\ DOMAIN Workflow = 1..n /\ LastFixed \in 1..n
      /\ \A i, j \in 1..n : Workflow[i] = Workflow[j] => i = j
  BY WorkflowFacts
<1>3. q \in 1..Len(r) /\ r[q] = step
  BY <1>1 DEF In, Position
<1> HIDE DEF r, n, q
<1>4. k \in 1..Len(r) /\ <<r[k], r[q]>> \in Resumptions \cup Returns  BY <1>3 DEF r
<1>5. r[k] # Formatting /\ r[q] # Formatting  BY <1>4 DEF Resumptions, Returns, Formatting
<1>6. PICK i \in 1..n : i <= k /\ Workflow[i] = r[k]  BY <1>1, <1>4, <1>5
<1>7. PICK j \in 1..n : j <= q /\ Workflow[j] = r[q]  BY <1>1, <1>3, <1>5
<1>8. /\ <<Workflow[i], Workflow[j]>> \in Resumptions => j <= i + 1
      /\ <<Workflow[i], Workflow[j]>> \in Returns => j <= i
      /\ <<Workflow[i], Workflow[j]>> \in Resumptions \cup Returns => j >= 3 /\ j <= LastFixed
  BY <1>2, RouteAssumption DEF RouteOrder, LastFixed
<1>9. j >= 3 /\ j <= LastFixed  BY <1>4, <1>6, <1>7, <1>8
<1>10. j \in 1..Len(r) /\ r[j] = Workflow[j]  BY <1>1, <1>2, <1>9
<1>11. j = q  BY <1>1, <1>3, <1>7, <1>10
<1>12. q <= k + 1 /\ (<<r[k], r[q]>> \in Returns => q <= k)
  <2>1. i \in Nat /\ j \in Nat /\ k \in Nat  BY <1>1, <1>2, <1>4
  <2>2. <<r[k], r[q]>> \in Returns => j <= i  BY <1>6, <1>7, <1>8
  <2>3. j <= i + 1  BY <1>4, <1>6, <1>7, <1>8, <2>1
  <2> QED BY <1>6, <1>11, <2>1, <2>2, <2>3
<1>13. \A x \in 1..(q - 1) : x \in 1..Len(r) /\ r[x] # Formatting
  BY <1>1, <1>2, <1>3, <1>9, <1>11
<1>14. q \in 3..Len(r)  BY <1>1, <1>3, <1>9, <1>11
<1> QED BY <1>3, <1>12, <1>13, <1>14 DEF r, q

LEMMA InRoutes ==
  ASSUME NEW target \in BOOLEAN, NEW step, step # Formatting
  PROVE  In(Route(target), step) <=> In(Workflow, step)
<1> DEFINE r == Route(target)
<1>1. /\ DOMAIN r = 1..Len(r) /\ Len(r) \in Nat
      /\ \A i \in 1..Len(r) : r[i] # Formatting =>
           \E j \in 1..Len(Workflow) : j <= i /\ Workflow[j] = r[i]
      /\ \A j \in 1..Len(Workflow) : \E i \in j..Len(r) : r[i] = Workflow[j]
  BY RouteFacts
<1>2. DOMAIN Workflow = 1..Len(Workflow) /\ Len(Workflow) \in Nat  BY WorkflowFacts
<1> HIDE DEF r
<1>3. ASSUME In(r, step) PROVE In(Workflow, step)  BY <1>1, <1>2, <1>3 DEF In
<1>4. ASSUME In(Workflow, step) PROVE In(r, step)
  <2>1. PICK j \in 1..Len(Workflow) : Workflow[j] = step  BY <1>2, <1>4 DEF In
  <2>2. PICK i \in j..Len(r) : r[i] = Workflow[j]  BY <1>1
  <2>3. i \in 1..Len(r)  BY <1>1, <1>2
  <2> QED BY <1>1, <2>1, <2>2, <2>3 DEF In
<1> QED BY <1>3, <1>4 DEF r

\* The step that a candidate's checkpoint names is one where its action resumes,
\* or to which it returns, and the action is no human decision.
LEMMA CandidateResumes ==
  ASSUME NEW target \in BOOLEAN, NEW a, NEW m, NEW c \in Checkpoints(a, m),
         In(Route(target), ResumeStep(Route(target), c))
  PROVE  LET step == ResumeStep(Route(target), c) IN
         /\ <<a, step>> \in Resumptions \cup Returns
         /\ c \notin {"RESEARCH_QUESTION_REVIEW", "RESEARCH_DESIGN_REVIEW"} => <<a, step>> \in Returns
         /\ a \notin Reviewed /\ a # Formatting
<1> DEFINE r == Route(target)
<1>1. DOMAIN r = 1..Len(r) /\ \A i \in 1..Len(r) : r[i] # None  BY RouteFacts
<1> HIDE DEF r
<1>2. ~In(r, None)  BY <1>1 DEF In
<1>3. In(r, ResumeStep(r, c))  BY DEF r
<1>4. ResumeStep(r, c) # None  BY <1>2, <1>3
<1>5. \/ a = "research_question_design" /\ c = "RESEARCH_QUESTION_REVIEW"
      \/ a = "power_analysis" /\ c = "RESEARCH_DESIGN_REVIEW"
      \/ a = "data_audit" /\ c \in {None, "DATA_DESIGN_REVIEW"}
      \/ a = "writing" /\ c \in {None, "MANUSCRIPT_REVIEW"}
      \/ c \in {None, "OPERATOR_REVIEW"}
  BY DEF Checkpoints
<1>6. CASE c \in {None, "OPERATOR_REVIEW"}  BY <1>4, <1>6 DEF ResumeStep, None
<1>7. CASE a = "research_question_design" /\ c = "RESEARCH_QUESTION_REVIEW"
  BY <1>7 DEF ResumeStep, Resumptions, Reviewed, HumanGates, Formatting, r
<1>8. CASE a = "power_analysis" /\ c = "RESEARCH_DESIGN_REVIEW"
  BY <1>8 DEF ResumeStep, Resumptions, Reviewed, HumanGates, Formatting
<1>9. CASE a = "data_audit" /\ c = "DATA_DESIGN_REVIEW"
  BY <1>9 DEF ResumeStep, Returns, Reviewed, HumanGates, Formatting
<1>10. CASE a = "writing" /\ c = "MANUSCRIPT_REVIEW"
  BY <1>10 DEF ResumeStep, Returns, Reviewed, HumanGates, Formatting
<1> QED BY <1>5, <1>6, <1>7, <1>8, <1>9, <1>10

LEMMA OnRoute ==
  ASSUME NEW target \in BOOLEAN, NEW a \in Actions, a # Formatting
  PROVE  \E k \in 1..Len(Route(target)) : Route(target)[k] = a
<1>1. In(Workflow, a)  BY DEF Actions, In, Formatting
<1>2. In(Route(target), a)  BY <1>1, InRoutes
<1>3. DOMAIN Route(target) = 1..Len(Route(target))  BY RouteFacts
<1> QED BY <1>2, <1>3 DEF In

----------------------------------------------------------------------------
(* Rows: what each kind of save makes of a state.                           *)

LEMMA ClearedGrows ==
  ASSUME NEW s, NEW old, NEW new, old \subseteq new
  PROVE  /\ Passed(s, old) => Passed(s, new)
         /\ \A a : Pending(a, s, old) => Pending(a, s, new)
BY DEF Passed, Pending

LEMMA RowFacts ==
  ASSUME NEW s, SoundRow(s)
  PROVE  /\ s.target \in BOOLEAN /\ s.routed \in BOOLEAN
         /\ s.rev \in Nat /\ s.gate \in Nat /\ s.notes \in 0..MaxNotes
         /\ s.index \in Nat /\ s.index >= 1
         /\ s.steps \in Seq(Names) /\ Len(s.steps) \in Nat /\ DOMAIN s.steps = 1..Len(s.steps)
         /\ s.routed => /\ s.steps = Route(s.target) /\ s.index >= 3
                        /\ Len(s.steps) >= 3 /\ s.steps \in Seq(Actions)
<1>1. s \in States  BY DEF SoundRow
<1>2. /\ s.target \in BOOLEAN /\ s.routed \in BOOLEAN /\ s.rev \in 1..MaxRevision
      /\ s.gate \in 0..MaxGates /\ s.index \in Nat \ {0} /\ s.notes \in 0..MaxNotes
      /\ s.steps \in {Formatted(x) : x \in {Unclassified, Workflow}} \cup {Unclassified, Workflow}
  BY <1>1 DEF States
<1>3. s.steps \in Seq(Names)  BY <1>2, StepsAreNames, FormattedIsRoute
<1>4. Len(s.steps) \in Nat /\ DOMAIN s.steps = 1..Len(s.steps)  BY <1>3, LenProperties
<1>5. s.routed => /\ s.steps = Route(s.target) /\ s.index >= 3
                  /\ Len(s.steps) >= 3 /\ s.steps \in Seq(Actions)
  <2> SUFFICES ASSUME s.routed
               PROVE  /\ s.steps = Route(s.target) /\ s.index >= 3
                      /\ Len(s.steps) >= 3 /\ s.steps \in Seq(Actions)
    OBVIOUS
  <2>1. s.steps = Route(s.target) /\ s.index >= 3  BY DEF SoundRow
  <2>2. /\ Len(Route(s.target)) >= Len(Workflow) /\ Len(Route(s.target)) \in Nat
        /\ Route(s.target) \in Seq(Actions)
    BY <1>2, RouteFacts
  <2>3. Len(Workflow) \in Nat /\ Len(Workflow) >= 3  BY WorkflowFacts
  <2> QED BY <2>1, <2>2, <2>3
<1> QED BY <1>2, <1>3, <1>4, <1>5, BoundsAssumption

\* A row with another index, Gate, checkpoint or lifecycle is sound.
RowWith(s, i, g, c, l) == [s EXCEPT !.index = i, !.gate = g, !.checkpoint = c, !.life = l]

LEMMA RowSet ==
  ASSUME NEW s, SoundRow(s), s.routed, NEW i \in Nat, i >= 3,
         NEW g \in 0..MaxGates, NEW c \in CheckpointNames \cup {None},
         NEW l \in {"ACTIVE", "COMPLETED", "TERMINATED"}, l = "ACTIVE" => i <= Len(s.steps) + 1,
         NEW new, new = RowWith(s, i, g, c, l)
  PROVE  /\ SoundRow(new) /\ new.index = i /\ new.gate = g /\ new.checkpoint = c /\ new.life = l
         /\ new.rev = s.rev /\ new.steps = s.steps /\ new.routed /\ new.notes = s.notes
<1>1. s \in States  BY DEF SoundRow
<1>2. i \in Nat \ {0}  OBVIOUS
<1>3. new \in States  BY <1>1, <1>2 DEF States, RowWith
<1>4. /\ new.index = i /\ new.gate = g /\ new.checkpoint = c /\ new.life = l
      /\ new.rev = s.rev /\ new.steps = s.steps /\ new.routed = s.routed /\ new.notes = s.notes
      /\ new.target = s.target
  BY <1>1 DEF States, RowWith
<1>5. SoundRow(new)  BY <1>3, <1>4 DEF SoundRow
<1> QED BY <1>4, <1>5

\* choose_route sends the study back to the first step after the intake.
Rerouted(s) == [s EXCEPT !.routed = TRUE, !.index = 3, !.gate = 0,
                         !.steps = IF s.target THEN Formatted(Workflow) ELSE Workflow]

LEMMA Rerouting ==
  ASSUME NEW s, SoundRow(s), NEW cleared
  PROVE  /\ SoundRow(Rerouted(s)) /\ Rerouted(s).rev = s.rev /\ Rerouted(s).gate = 0
         /\ Rerouted(s).life = s.life /\ Rerouted(s).checkpoint = s.checkpoint
         /\ Rerouted(s).routed /\ Passed(Rerouted(s), cleared)
         /\ \A a : Pending(a, s, cleared) => Pending(a, Rerouted(s), cleared)
<1> DEFINE new == Rerouted(s)
<1>1. s \in States /\ s.target \in BOOLEAN  BY RowFacts DEF SoundRow
<1>2. new = [s EXCEPT !.routed = TRUE, !.index = 3, !.gate = 0, !.steps = Route(s.target)]
  BY <1>1 DEF Rerouted, Route
<1>3. /\ new.routed = TRUE /\ new.index = 3 /\ new.gate = 0 /\ new.steps = Route(s.target)
      /\ new.rev = s.rev /\ new.life = s.life /\ new.checkpoint = s.checkpoint
      /\ new.target = s.target
  BY <1>1, <1>2 DEF States
<1>4. Len(Route(s.target)) \in Nat /\ Len(Route(s.target)) >= 3
  BY <1>1, RouteFacts, WorkflowFacts
<1>5. new \in States
  <2>1. 3 \in Nat \ {0} /\ 0 \in 0..MaxGates  BY BoundsAssumption
  <2>2. Route(s.target) \in {Formatted(x) : x \in {Unclassified, Workflow}} \cup {Unclassified, Workflow}
    BY DEF Route
  <2> QED BY <1>1, <1>2, <2>1, <2>2 DEF States
<1> HIDE DEF new
<1>6. SoundRow(new)  BY <1>1, <1>3, <1>4, <1>5 DEF SoundRow
<1>7. Passed(new, cleared)
  <2>1. DOMAIN Route(s.target) = 1..Len(Route(s.target))  BY <1>1, RouteFacts
  <2> QED BY <1>3, <1>4, <2>1 DEF Passed
<1>8. ASSUME NEW a, Pending(a, s, cleared) PROVE Pending(a, new, cleared)
  <2>1. s.index >= 3 /\ s.index \in Nat /\ s.steps = Route(s.target)  BY <1>8, RowFacts DEF Pending
  <2> QED BY <1>3, <1>4, <1>8, <2>1 DEF Pending
<1> QED BY <1>3, <1>6, <1>7, <1>8 DEF new

\* set_publication_target adds the formatting stage, which is on record as
\* waived if the study is beyond its place.
Retargeted(s) == [s EXCEPT !.target = TRUE, !.steps = Formatted(s.steps)]

LEMMA Retargeting ==
  ASSUME NEW s, SoundRow(s), NEW cleared, Passed(s, cleared),
         s.routed /\ ~s.target /\ s.index > LastFixed => Formatting \in cleared
  PROVE  /\ SoundRow(Retargeted(s)) /\ Retargeted(s).rev = s.rev /\ Retargeted(s).gate = s.gate
         /\ Retargeted(s).life = s.life /\ Retargeted(s).checkpoint = s.checkpoint
         /\ Retargeted(s).routed = s.routed /\ Passed(Retargeted(s), cleared)
         /\ \A a : Pending(a, s, cleared) => Pending(a, Retargeted(s), cleared)
<1> DEFINE new == Retargeted(s)
           n == Len(Workflow)
           p == LastFixed
           f == Formatted(Workflow)
           g == Formatted(s.steps)
<1>1. /\ s \in States /\ s.target \in BOOLEAN /\ s.routed \in BOOLEAN /\ s.steps \in Seq(Names)
      /\ s.index \in Nat /\ s.index >= 1
  BY RowFacts DEF SoundRow
<1>2. /\ new.target = TRUE /\ new.steps = g /\ new.routed = s.routed /\ new.index = s.index
      /\ new.gate = s.gate /\ new.rev = s.rev /\ new.life = s.life
      /\ new.checkpoint = s.checkpoint
  BY <1>1 DEF States, Retargeted
<1>3. /\ n \in Nat /\ p \in 1..n /\ Len(f) = n + 1 /\ DOMAIN f = 1..(n + 1) /\ p >= 3
      /\ \A i \in 1..p : f[i] = Workflow[i]
      /\ f[p + 1] = Formatting
      /\ \A i \in (p + 2)..(n + 1) : f[i] = Workflow[i - 1]
      /\ Formatted(f) = f /\ DOMAIN Workflow = 1..n
      /\ \A i \in 1..n : Workflow[i] # Formatting
  BY FormattedFacts, WorkflowFacts
<1>4. g \in Seq(Names) /\ Len(g) \in Nat /\ DOMAIN g = 1..Len(g)
  <2>1. g \in Seq(Names)  BY <1>1, FormattedIsRoute
  <2> QED BY <2>1, LenProperties
<1>5. new \in States
  <2>1. g \in {Formatted(x) : x \in {Unclassified, Workflow}} \cup {Unclassified, Workflow}
    <3>1. s.steps \in {Formatted(x) : x \in {Unclassified, Workflow}} \cup {Unclassified, Workflow}
      BY <1>1 DEF States
    <3>2. CASE s.steps \in {Unclassified, Workflow}  BY <3>2
    <3>3. CASE s.steps \in {Formatted(x) : x \in {Unclassified, Workflow}}
      <4>1. PICK x \in {Unclassified, Workflow} : s.steps = Formatted(x)  BY <3>3
      <4>2. Formatted(Formatted(x)) = Formatted(x)  BY <4>1, FormattedOnce
      <4> QED BY <4>1, <4>2
    <3> QED BY <3>1, <3>2, <3>3
  <2> HIDE DEF g
  <2>2. new = [s EXCEPT !.target = TRUE, !.steps = g]  BY DEF Retargeted, g
  <2> QED BY <1>1, <2>1, <2>2 DEF States
<1> HIDE DEF new, n, p, f, g
<1>6. CASE ~s.routed
  <2>1. s.index = 1 /\ s.gate = 0  BY <1>6 DEF SoundRow
  <2>2. SoundRow(new)
    <3>1. ~new.routed /\ new.index = 1 /\ new.gate = 0  BY <1>2, <1>6, <2>1
    <3>2. new.index <= Len(new.steps) + 1  BY <1>2, <1>4, <3>1
    <3> QED BY <1>5, <3>1, <3>2 DEF SoundRow
  <2>3. Passed(new, cleared)  BY <1>2, <1>4, <2>1 DEF Passed
  <2>4. \A a : ~Pending(a, s, cleared)  BY <1>6 DEF Pending
  <2> QED BY <1>2, <2>2, <2>3, <2>4 DEF new
<1>7. CASE s.routed /\ s.target
  <2>1. s.steps = f /\ g = f  BY <1>3, <1>7 DEF SoundRow, Route, f, g
  <2>2. SoundRow(new)  BY <1>2, <1>5, <1>7, <2>1 DEF SoundRow, Route, f
  <2>3. Passed(new, cleared)  BY <1>2, <2>1 DEF Passed
  <2>4. \A a : Pending(a, s, cleared) => Pending(a, new, cleared)  BY <1>2, <2>1 DEF Pending
  <2> QED BY <1>2, <2>2, <2>3, <2>4 DEF new
<1>8. CASE s.routed /\ ~s.target
  <2>1. s.steps = Workflow /\ g = f /\ s.index >= 3  BY <1>8 DEF SoundRow, Route, f, g
  <2>2. SoundRow(new)
    <3>1. s.life = "ACTIVE" => s.index <= Len(f) + 1  BY <1>1, <1>3, <2>1 DEF SoundRow, n
    <3> QED BY <1>2, <1>5, <1>8, <2>1, <3>1 DEF SoundRow, Route, f
  <2>3. s.index > p => Formatting \in cleared  BY <1>8 DEF p
  <2>4. \A i \in 1..n : 3 <= i /\ i < s.index => Workflow[i] \in cleared
    BY <1>3, <2>1 DEF Passed
  <2>5. Passed(new, cleared)
    <3> SUFFICES ASSUME NEW i \in 1..(n + 1), 3 <= i, i < s.index PROVE f[i] \in cleared
      BY <1>2, <1>3, <2>1 DEF Passed
    <3>1. CASE i <= p
      <4>1. i \in 1..p /\ i \in 1..n  BY <1>3, <3>1
      <4> QED BY <1>3, <2>4, <4>1
    <3>2. CASE i = p + 1
      <4>1. s.index > p  BY <1>1, <1>3, <3>2
      <4> QED BY <1>3, <2>3, <3>2, <4>1
    <3>3. CASE i > p + 1
      <4>1. i \in (p + 2)..(n + 1) /\ i - 1 \in 1..n /\ 3 <= i - 1 /\ i - 1 < s.index
        BY <1>1, <1>3, <3>3
      <4> QED BY <1>3, <2>4, <4>1
    <3> QED BY <1>3, <3>1, <3>2, <3>3
  <2>6. ASSUME NEW a, Pending(a, s, cleared) PROVE Pending(a, new, cleared)
    <3>1. PICK k \in 3..n : /\ s.index <= k /\ Workflow[k] = a
                            /\ \A j \in 3..(k - 1) : Workflow[j] \in cleared
      <4>1. \A j \in 3..n : j \in 1..n  BY <1>3
      <4>2. PICK k \in 3..n : /\ s.index <= k /\ Workflow[k] = a
                              /\ \A j \in 3..(k - 1) :
                                   \/ Workflow[j] \in cleared
                                   \/ Workflow[j] = Formatting /\ s.index < j
        BY <2>1, <2>6 DEF Pending, n
      <4>3. \A j \in 3..(k - 1) : j \in 1..n  BY <1>3
      <4> QED BY <1>3, <4>2, <4>3
    <3> DEFINE l == IF k <= p THEN k ELSE k + 1
    <3>2. l \in 3..(n + 1) /\ s.index <= l
      BY <1>1, <1>3, <3>1
    <3>3. f[l] = a
      <4>1. CASE k <= p
        <5>1. k \in 1..p  BY <1>3, <4>1
        <5> QED BY <1>3, <3>1, <4>1, <5>1
      <4>2. CASE k > p
        <5>1. l = k + 1 /\ l \in (p + 2)..(n + 1) /\ l - 1 = k  BY <1>3, <4>2
        <5> QED BY <1>3, <3>1, <5>1
      <4> QED BY <1>3, <4>1, <4>2
    <3>4. ASSUME NEW j \in 3..(l - 1)
          PROVE  f[j] \in cleared \/ (f[j] = Formatting /\ s.index < j)
      <4>1. CASE j <= p
        <5>1. j \in 1..p /\ j \in 3..(k - 1)  BY <1>3, <4>1
        <5> QED BY <1>3, <3>1, <5>1
      <4>2. CASE j = p + 1
        <5>1. CASE s.index > p  BY <1>3, <2>3, <4>2, <5>1
        <5>2. CASE ~(s.index > p)
          <6>1. s.index < j  BY <1>1, <1>3, <4>2, <5>2
          <6> QED BY <1>3, <4>2, <6>1
        <5> QED BY <5>1, <5>2
      <4>3. CASE j > p + 1
        <5>1. j \in (p + 2)..(n + 1) /\ j - 1 \in 3..(k - 1)
          <6>1. j <= l - 1 /\ l <= k + 1  BY <1>3
          <6> QED BY <1>3, <4>3, <6>1
        <5>2. f[j] = Workflow[j - 1]  BY <1>3, <5>1
        <5> QED BY <3>1, <5>1, <5>2
      <4> QED BY <1>3, <4>1, <4>2, <4>3
    <3> HIDE DEF l
    <3> QED BY <1>2, <1>3, <1>8, <2>1, <3>2, <3>3, <3>4 DEF Pending
  <2> QED BY <1>2, <2>2, <2>5, <2>6 DEF new
<1> QED BY <1>1, <1>6, <1>7, <1>8

\* Nothing but the pending action itself is missing before the step at which
\* it resumes, and nothing at all before the one to which it returns.
LEMMA BeforeResumption ==
  ASSUME NEW s, SoundRow(s), s.routed, NEW cleared, NEW k \in 3..Len(s.steps),
         \A j \in 3..(k - 1) : s.steps[j] \in cleared \/ (s.steps[j] = Formatting /\ s.index < j),
         NEW step, In(s.steps, step), <<s.steps[k], step>> \in Resumptions \cup Returns
  PROVE  LET q == Position(s.steps, step) IN
         /\ q \in 3..Len(s.steps)
         /\ \A j \in 3..(q - 1) : s.steps[j] \in cleared \cup {s.steps[k]}
         /\ <<s.steps[k], step>> \in Returns =>
              q <= k /\ \A j \in 3..k : s.steps[j] = Formatting => q < j
<1> DEFINE r == Route(s.target)
           q == Position(r, step)
<1>1. s.steps = r /\ s.target \in BOOLEAN /\ Len(r) \in Nat  BY RowFacts
<1>2. k \in 1..Len(r)  BY <1>1
<1>3. /\ q \in 3..Len(r) /\ r[q] = step /\ q <= k + 1
      /\ <<r[k], step>> \in Returns => q <= k
      /\ \A j \in 1..(q - 1) : j \in 1..Len(r) /\ r[j] # Formatting
  BY <1>1, <1>2, ResumesNear
<1> HIDE DEF r, q
<1>4. \A j \in 3..(k - 1) : r[j] \in cleared \/ r[j] = Formatting  BY <1>1
<1>5. ASSUME NEW j \in 3..(q - 1) PROVE r[j] # Formatting /\ (j \in 3..(k - 1) \/ (j = k /\ q > k))
  BY <1>1, <1>2, <1>3
<1>6. \A j \in 3..(q - 1) : r[j] \in cleared \cup {r[k]}  BY <1>4, <1>5
<1>7. ASSUME <<r[k], step>> \in Returns, NEW j \in 3..k, r[j] = Formatting PROVE q < j
  <2>1. step # Formatting  BY <1>7 DEF Returns, Formatting
  <2>2. q # j /\ j \notin 3..(q - 1) /\ q \in Nat /\ j \in Nat  BY <1>1, <1>2, <1>3, <1>5, <1>7, <2>1
  <2> QED BY <1>3, <2>2
<1> QED BY <1>1, <1>3, <1>6, <1>7 DEF q

\* What a study leaves behind when its index moves on to i.
LEMMA PassedOn ==
  ASSUME NEW s, SoundRow(s), NEW cleared, Passed(s, cleared),
         NEW new, new.steps = s.steps, new.index \in Nat, Between(s, new.index) \subseteq cleared
  PROVE  Passed(new, cleared)
<1>1. s.index \in Nat  BY RowFacts
<1> SUFFICES ASSUME NEW j \in DOMAIN s.steps, 3 <= j, j < new.index PROVE s.steps[j] \in cleared
  BY DEF Passed
<1>2. j \in Nat  BY RowFacts
<1>3. CASE j < s.index  BY <1>3 DEF Passed
<1>4. CASE s.index <= j  BY <1>4 DEF Between
<1> QED BY <1>1, <1>2, <1>3, <1>4

\* complete_action_with_candidate: wherever the study is, the index it moves to
\* is one of the route, and no human decision moves it on.
LEMMA NextIndexIsStep ==
  ASSUME NEW s, SoundRow(s), s.routed, NEW a \in Actions, NEW m, NEW c \in Checkpoints(a, m)
  PROVE  LET i == NextIndex(s, NeedsHumanGate(a, m), c) IN
         /\ i \in Nat /\ i >= 3 /\ (s.life = "ACTIVE" => i <= Len(s.steps) + 1)
         /\ i > s.index => a \notin Reviewed
         /\ Between(s, i) \subseteq Actions
<1> DEFINE human == NeedsHumanGate(a, m)
           step == ResumeStep(s.steps, c)
           i == NextIndex(s, human, c)
<1>1. /\ s.index \in Nat /\ s.index >= 3 /\ Len(s.steps) \in Nat /\ s.steps \in Seq(Actions)
      /\ s.target \in BOOLEAN /\ s.steps = Route(s.target) /\ DOMAIN s.steps = 1..Len(s.steps)
  BY RowFacts
<1>2. Between(s, i) \subseteq Actions
  <2>1. \A x \in DOMAIN s.steps : s.steps[x] \in Actions  BY <1>1, ElementOfSeq
  <2> QED BY <2>1 DEF Between
<1>3. CASE In(s.steps, step)
  <2>1. <<a, step>> \in Resumptions \cup Returns /\ a \notin Reviewed /\ a # Formatting
    BY <1>1, <1>3, CandidateResumes
  <2>2. PICK k \in 1..Len(s.steps) : s.steps[k] = a  BY <1>1, <2>1, OnRoute
  <2>3. i = Position(s.steps, step)  BY <1>3 DEF NextIndex
  <2> HIDE DEF i, step, human
  <2>4. i \in 3..Len(s.steps)  BY <1>1, <1>3, <2>1, <2>2, <2>3, ResumesNear
  <2> QED BY <1>1, <1>2, <2>1, <2>4 DEF i, human
<1>4. CASE ~In(s.steps, step) /\ ~(~human /\ s.index <= Len(s.steps))
  <2>1. i = s.index  BY <1>4 DEF NextIndex
  <2>2. s.life = "ACTIVE" => s.index <= Len(s.steps) + 1  BY DEF SoundRow
  <2> HIDE DEF i
  <2> QED BY <1>1, <1>2, <2>1, <2>2 DEF i, human
<1>5. CASE ~In(s.steps, step) /\ ~human /\ s.index <= Len(s.steps)
  <2>1. i = s.index + 1  BY <1>5 DEF NextIndex
  <2>2. a \notin Reviewed  BY <1>5 DEF NeedsHumanGate, Reviewed
  <2> HIDE DEF i
  <2> QED BY <1>1, <1>2, <1>5, <2>1, <2>2 DEF i, human
<1> QED BY <1>3, <1>4, <1>5

\* The candidate of a pending action: the action was all that was missing, and
\* while its Gate is open it stays pending, unless the study advances twice.
LEMMA PendingCommit ==
  ASSUME NEW s, SoundRow(s), NEW cleared, NEW a, Pending(a, s, cleared),
         NEW m, NEW c \in Checkpoints(a, m)
  PROVE  LET human == NeedsHumanGate(a, m)
             i == NextIndex(s, human, c) IN
         /\ Between(s, i) \subseteq cleared \cup {a}
         /\ \A row : /\ row.routed /\ row.steps = s.steps /\ row.index = i
                     /\ human /\ ~(/\ c \in {"RESEARCH_QUESTION_REVIEW", "RESEARCH_DESIGN_REVIEW"}
                                   /\ In(s.steps, ResumeStep(s.steps, c)))
                     => Pending(a, row, cleared)
<1> DEFINE human == NeedsHumanGate(a, m)
           step == ResumeStep(s.steps, c)
           i == NextIndex(s, human, c)
           twice == c \in {"RESEARCH_QUESTION_REVIEW", "RESEARCH_DESIGN_REVIEW"} /\ In(s.steps, step)
<1>1. PICK k \in 3..Len(s.steps) :
        /\ s.index <= k /\ s.steps[k] = a
        /\ \A j \in 3..(k - 1) : s.steps[j] \in cleared \/ (s.steps[j] = Formatting /\ s.index < j)
  BY DEF Pending
<1>2. /\ s.index \in Nat /\ s.index >= 3 /\ Len(s.steps) \in Nat /\ DOMAIN s.steps = 1..Len(s.steps)
      /\ s.target \in BOOLEAN /\ s.steps = Route(s.target) /\ s.routed
  BY RowFacts DEF Pending
<1> SUFFICES /\ Between(s, i) \subseteq cleared \cup {a}
             /\ \A row : /\ row.routed /\ row.steps = s.steps /\ row.index = i /\ human /\ ~twice
                         => Pending(a, row, cleared)
  OBVIOUS
<1> HIDE DEF twice
<1>3. CASE In(s.steps, step)
  <2>1. /\ <<a, step>> \in Resumptions \cup Returns
        /\ ~twice => <<a, step>> \in Returns
    BY <1>2, <1>3, CandidateResumes DEF twice
  <2>2. i = Position(s.steps, step)  BY <1>3 DEF NextIndex
  <2> HIDE DEF i, step, human
  <2>3. <<s.steps[k], step>> \in Resumptions \cup Returns  BY <1>1, <2>1
  <2>4. ~twice => <<s.steps[k], step>> \in Returns  BY <1>1, <2>1
  <2>5. LET q == Position(s.steps, step) IN
        /\ q \in 3..Len(s.steps)
        /\ \A j \in 3..(q - 1) : s.steps[j] \in cleared \cup {s.steps[k]}
        /\ <<s.steps[k], step>> \in Returns =>
             q <= k /\ \A j \in 3..k : s.steps[j] = Formatting => q < j
    BY <1>1, <1>2, <1>3, <2>3, BeforeResumption
  <2>6. /\ i \in 3..Len(s.steps) /\ \A j \in 3..(i - 1) : s.steps[j] \in cleared \cup {a}
        /\ ~twice => i <= k /\ \A j \in 3..k : s.steps[j] = Formatting => i < j
    BY <1>1, <2>2, <2>4, <2>5
  <2>7. Between(s, i) \subseteq cleared \cup {a}
    <3>1. \A y \in DOMAIN s.steps : s.index <= y /\ y < i => y \in 3..(i - 1)  BY <1>2, <2>6
    <3> QED BY <2>6, <3>1 DEF Between
  <2>8. ASSUME NEW row, row.routed, row.steps = s.steps, row.index = i, ~twice
        PROVE  Pending(a, row, cleared)
    <3>1. \A j \in 3..(k - 1) : j \in 3..k  BY <1>2
    <3>2. \A j \in 3..(k - 1) : s.steps[j] \in cleared \/ (s.steps[j] = Formatting /\ i < j)
      BY <1>1, <2>6, <2>8, <3>1
    <3> QED BY <1>1, <2>6, <2>8, <3>2 DEF Pending
  <2> QED BY <2>7, <2>8
<1>4. CASE ~In(s.steps, step) /\ human
  <2>1. i = s.index  BY <1>4 DEF NextIndex
  <2> HIDE DEF i
  <2>2. Between(s, i) = {}
    <3>1. \A y \in DOMAIN s.steps : ~(s.index <= y /\ y < i)  BY <1>2, <2>1
    <3> QED BY <3>1 DEF Between
  <2>3. ASSUME NEW row, row.routed, row.steps = s.steps, row.index = i PROVE Pending(a, row, cleared)
    BY <2>1, <2>3 DEF Pending
  <2> QED BY <2>2, <2>3
<1>5. CASE ~In(s.steps, step) /\ ~human
  <2>1. i = s.index + 1  BY <1>1, <1>2, <1>5 DEF NextIndex
  <2> HIDE DEF i
  <2>2. s.index = k \/ s.index \in 3..(k - 1)  BY <1>1, <1>2
  <2>3. s.steps[s.index] \in cleared \cup {a}  BY <1>1, <1>2, <2>2
  <2>4. \A y \in DOMAIN s.steps : s.index <= y /\ y < i => y = s.index  BY <1>2, <2>1
  <2>5. Between(s, i) \subseteq cleared \cup {a}  BY <2>3, <2>4 DEF Between
  <2> QED BY <1>5, <2>5
<1> QED BY <1>3, <1>4, <1>5

\* decide_gate: wherever the study is, it goes on at a step of the route, or is
\* complete beyond the last.
LEMMA DecidedRow ==
  ASSUME NEW s, SoundRow(s), s.routed, NEW a \in Actions, NEW d \in Decisions
  PROVE  LET new == Decided(s, a, d) IN
         /\ SoundRow(new) /\ new.rev = s.rev /\ new.steps = s.steps /\ new.routed /\ new.gate = 0
         /\ new.index \in Nat /\ Between(s, new.index) \subseteq Actions
         /\ \/ new.checkpoint = s.checkpoint
            \/ new.checkpoint = None /\ a = "manuscript_citation_verification"
         /\ new.life = "COMPLETED" => s.life = "COMPLETED" \/ new.index > Len(s.steps)
<1> DEFINE new == Decided(s, a, d)
           i == Approved(s, a)
<1>1. /\ s.index \in Nat /\ s.index >= 3 /\ Len(s.steps) \in Nat /\ s.steps \in Seq(Actions)
      /\ s.target \in BOOLEAN /\ s.steps = Route(s.target) /\ DOMAIN s.steps = 1..Len(s.steps)
  BY RowFacts
<1>2. /\ s \in States /\ s.checkpoint \in CheckpointNames \cup {None}
      /\ s.life \in {"ACTIVE", "COMPLETED", "TERMINATED"}
      /\ s.life = "ACTIVE" => s.index <= Len(s.steps) + 1
  BY DEF SoundRow, States
<1>3. \A x : Between(s, x) \subseteq Actions
  <2>1. \A x \in DOMAIN s.steps : s.steps[x] \in Actions  BY <1>1, ElementOfSeq
  <2> QED BY <2>1 DEF Between
<1>4. ASSUME NEW x \in Nat, x >= 3, NEW c \in {None, s.checkpoint},
             c = s.checkpoint \/ a = "manuscript_citation_verification",
             NEW l \in {"ACTIVE", "COMPLETED", "TERMINATED"},
             l = "ACTIVE" => x <= Len(s.steps) + 1,
             l = "COMPLETED" => s.life = "COMPLETED" \/ x > Len(s.steps),
             NEW t, t = RowWith(s, x, 0, c, l)
      PROVE  /\ SoundRow(t) /\ t.rev = s.rev /\ t.steps = s.steps /\ t.routed /\ t.gate = 0
             /\ t.index \in Nat /\ Between(s, t.index) \subseteq Actions
             /\ \/ t.checkpoint = s.checkpoint
                \/ t.checkpoint = None /\ a = "manuscript_citation_verification"
             /\ t.life = "COMPLETED" => s.life = "COMPLETED" \/ t.index > Len(s.steps)
  <2>1. 0 \in 0..MaxGates /\ c \in CheckpointNames \cup {None}  BY <1>2, <1>4, BoundsAssumption
  <2>2. /\ SoundRow(t) /\ t.index = x /\ t.gate = 0 /\ t.checkpoint = c /\ t.life = l
        /\ t.rev = s.rev /\ t.steps = s.steps /\ t.routed
    BY <1>4, <2>1, RowSet
  <2> QED BY <1>3, <1>4, <2>2
<1>5. CASE d = "stop"
  <2>1. new = RowWith(s, s.index, 0, s.checkpoint, "TERMINATED")
    BY <1>2, <1>5 DEF Decided, States, RowWith
  <2> HIDE DEF new
  <2> QED BY <1>1, <1>4, <2>1 DEF new
<1>6. CASE d = "approve"
  <2> DEFINE life == IF i > Len(s.steps) THEN "COMPLETED" ELSE s.life
  <2>1. new = RowWith(s, i, 0, s.checkpoint, life)
    BY <1>2, <1>6 DEF Decided, States, RowWith
  <2>2. i \in Nat /\ i >= 3
    <3> DEFINE raw == Position(s.steps, "raw_data_import")
    <3>1. CASE i = s.index + 1  BY <1>1, <3>1
    <3>2. CASE i # s.index + 1
      <4>1. In(s.steps, "raw_data_import") /\ raw > s.index /\ i = raw  BY <3>2 DEF Approved
      <4>2. raw \in 1..Len(s.steps)  BY <1>1, <4>1 DEF In, Position
      <4> QED BY <1>1, <4>1, <4>2
    <3> QED BY <3>1, <3>2
  <2> HIDE DEF i
  <2>3. /\ life \in {"ACTIVE", "COMPLETED", "TERMINATED"}
        /\ life = "ACTIVE" => i <= Len(s.steps) + 1
        /\ life = "COMPLETED" => s.life = "COMPLETED" \/ i > Len(s.steps)
    BY <1>1, <1>2, <2>2
  <2> HIDE DEF new, life
  <2> QED BY <1>4, <2>1, <2>2, <2>3 DEF new
<1>7. ASSUME NEW step, NEW c \in {None, s.checkpoint}, <<a, step>> \in Returns,
             In(Workflow, a) => In(Workflow, step),
             c = s.checkpoint \/ a = "manuscript_citation_verification",
             new = RowWith(s, Position(s.steps, step), 0, c, s.life)
      PROVE  /\ SoundRow(new) /\ new.rev = s.rev /\ new.steps = s.steps /\ new.routed /\ new.gate = 0
             /\ new.index \in Nat /\ Between(s, new.index) \subseteq Actions
             /\ \/ new.checkpoint = s.checkpoint
                \/ new.checkpoint = None /\ a = "manuscript_citation_verification"
             /\ new.life = "COMPLETED" => s.life = "COMPLETED" \/ new.index > Len(s.steps)
  <2> DEFINE q == Position(s.steps, step)
  <2>1. a # Formatting /\ step # Formatting  BY <1>7 DEF Returns, Formatting
  <2>2. PICK k \in 1..Len(s.steps) : s.steps[k] = a  BY <1>1, <2>1, OnRoute
  <2>3. In(s.steps, a)  BY <1>1, <2>2 DEF In
  <2>4. In(s.steps, step)  BY <1>1, <1>7, <2>1, <2>3, InRoutes
  <2>5. q \in 3..Len(s.steps)  BY <1>1, <1>7, <2>2, <2>4, ResumesNear
  <2> HIDE DEF q, new
  <2>6. q \in Nat /\ q >= 3 /\ q <= Len(s.steps) + 1  BY <1>1, <2>5
  <2> QED BY SMTT(20), <1>2, <1>4, <1>7, <2>6 DEF q
<1>8. CASE d = "revise" /\ a = "claim_evidence_support"
  <2>1. new = RowWith(s, Position(s.steps, "evidence_normalization"), 0, s.checkpoint, s.life)
    BY <1>2, <1>8 DEF Decided, States, RowWith
  <2>2. /\ <<a, "evidence_normalization">> \in Returns
        /\ In(Workflow, a) => In(Workflow, "evidence_normalization")
    BY <1>8, RouteAssumption DEF Returns, RouteOrder
  <2> HIDE DEF new
  <2> QED BY <1>7, <2>1, <2>2 DEF new
<1>9. CASE d = "revise" /\ a = "manuscript_citation_verification"
  <2>1. new = RowWith(s, Position(s.steps, "writing"), 0, None, s.life)
    BY <1>2, <1>9 DEF Decided, States, RowWith
  <2>2. <<a, "writing">> \in Returns /\ (In(Workflow, a) => In(Workflow, "writing"))
    BY <1>9, RouteAssumption DEF Returns, RouteOrder
  <2> HIDE DEF new
  <2> QED BY <1>7, <1>9, <2>1, <2>2 DEF new
<1>10. CASE \/ d = "reject"
            \/ d = "revise" /\ a \notin {"claim_evidence_support", "manuscript_citation_verification"}
  <2>1. new = RowWith(s, s.index, 0, s.checkpoint, s.life)
    BY <1>2, <1>10 DEF Decided, States, RowWith
  <2> HIDE DEF new
  <2> QED BY <1>1, <1>2, <1>4, <2>1 DEF new
<1> QED BY <1>5, <1>6, <1>8, <1>9, <1>10 DEF Decisions

\* A decision about a pending action: an approval leaves nothing behind but the
\* approved step, a revision goes back.
LEMMA PendingDecision ==
  ASSUME NEW s, SoundRow(s), NEW cleared, NEW a \in Actions, Pending(a, s, cleared),
         NEW d \in Decisions, d = "approve" => a \in cleared
  PROVE  Between(s, Decided(s, a, d).index) \subseteq cleared
<1> DEFINE i == Decided(s, a, d).index
<1>1. PICK k \in 3..Len(s.steps) :
        /\ s.index <= k /\ s.steps[k] = a
        /\ \A j \in 3..(k - 1) : s.steps[j] \in cleared \/ (s.steps[j] = Formatting /\ s.index < j)
  BY DEF Pending
<1>2. /\ s.index \in Nat /\ s.index >= 3 /\ Len(s.steps) \in Nat /\ DOMAIN s.steps = 1..Len(s.steps)
      /\ s.target \in BOOLEAN /\ s.steps = Route(s.target) /\ s.routed /\ s \in States
  BY RowFacts DEF Pending, SoundRow
<1>3. \A x \in 3..Len(s.steps) : s.index <= x => x \in DOMAIN s.steps  BY <1>2
<1>4. ASSUME NEW x \in Nat, x <= s.index PROVE Between(s, x) = {}
  <2>1. \A y \in DOMAIN s.steps : ~(s.index <= y /\ y < x)  BY <1>2, <1>4
  <2> QED BY <2>1 DEF Between
<1>5. CASE d = "approve"
  <2> DEFINE raw == Position(s.steps, "raw_data_import")
  <2>1. i = Approved(s, a)  BY <1>2, <1>5 DEF Decided, States
  <2>2. a \in cleared  BY <1>5
  <2> HIDE DEF i
  <2>3. CASE i = s.index + 1
    <3>1. s.index = k \/ s.index \in 3..(k - 1)  BY <1>1, <1>2
    <3>2. s.steps[s.index] \in cleared  BY <1>1, <1>2, <2>2, <3>1
    <3>3. \A y \in DOMAIN s.steps : s.index <= y /\ y < i => y = s.index  BY <1>2, <2>3
    <3> QED BY <3>2, <3>3 DEF Between, i
  <2>4. CASE i # s.index + 1
    <3>1. a = "qualitative_design" /\ In(s.steps, "raw_data_import") /\ i = raw
      BY <2>1, <2>4 DEF Approved
    <3>2. <<s.steps[k], "raw_data_import">> \in Resumptions \cup Returns
      BY <1>1, <3>1 DEF Resumptions
    <3>3. raw \in 3..Len(s.steps) /\ \A j \in 3..(raw - 1) : s.steps[j] \in cleared \cup {s.steps[k]}
      BY <1>1, <1>2, <3>1, <3>2, BeforeResumption
    <3> HIDE DEF raw
    <3>4. \A y \in DOMAIN s.steps : s.index <= y /\ y < i => y \in 3..(raw - 1)
      BY <1>2, <3>1, <3>3
    <3> QED BY <1>1, <2>2, <3>1, <3>3, <3>4 DEF Between, i
  <2> QED BY <2>3, <2>4
<1>6. ASSUME NEW step, <<a, step>> \in Returns, In(Workflow, a) => In(Workflow, step),
             i = Position(s.steps, step)
      PROVE  Between(s, i) \subseteq cleared
  <2> DEFINE q == Position(s.steps, step)
  <2>1. a # Formatting /\ step # Formatting  BY <1>6 DEF Returns, Formatting
  <2>2. In(s.steps, a)
    <3>1. k \in DOMAIN s.steps  BY <1>2
    <3> QED BY <1>1, <3>1 DEF In
  <2>3. In(s.steps, step)  BY <1>2, <1>6, <2>1, <2>2, InRoutes
  <2>4. /\ q \in 3..Len(s.steps) /\ \A j \in 3..(q - 1) : s.steps[j] \in cleared \cup {s.steps[k]}
        /\ q <= k
    BY <1>1, <1>2, <1>6, <2>3, BeforeResumption
  <2> HIDE DEF q, i
  <2>5. \A y \in DOMAIN s.steps : s.index <= y /\ y < q => y \in 3..(k - 1) /\ s.index <= y
    BY <1>2, <2>4
  <2>6. \A y \in 3..(k - 1) : y < q => s.steps[y] # Formatting
    <3>1. \A j \in 3..k : s.steps[j] = Formatting => q < j
      BY <1>1, <1>2, <1>6, <2>3, BeforeResumption DEF q
    <3>2. \A y \in 3..(k - 1) : y \in 3..k /\ y \in Nat  BY <1>2
    <3> QED BY <1>2, <2>4, <3>1, <3>2
  <2>7. \A y \in DOMAIN s.steps : s.index <= y /\ y < q => s.steps[y] \in cleared
    BY <1>1, <2>5, <2>6
  <2> QED BY <1>6, <2>7 DEF Between, q
<1>7. CASE d = "revise" /\ a = "claim_evidence_support"
  <2>1. i = Position(s.steps, "evidence_normalization")
    BY <1>2, <1>7 DEF Decided, States
  <2>2. /\ <<a, "evidence_normalization">> \in Returns
        /\ In(Workflow, a) => In(Workflow, "evidence_normalization")
    BY <1>7, RouteAssumption DEF Returns, RouteOrder
  <2> HIDE DEF i
  <2> QED BY <1>6, <2>1, <2>2 DEF i
<1>8. CASE d = "revise" /\ a = "manuscript_citation_verification"
  <2>1. i = Position(s.steps, "writing")  BY <1>2, <1>8 DEF Decided, States
  <2>2. <<a, "writing">> \in Returns /\ (In(Workflow, a) => In(Workflow, "writing"))
    BY <1>8, RouteAssumption DEF Returns, RouteOrder
  <2> HIDE DEF i
  <2> QED BY <1>6, <2>1, <2>2 DEF i
<1>9. CASE \/ d \in {"stop", "reject"}
           \/ d = "revise" /\ a \notin {"claim_evidence_support", "manuscript_citation_verification"}
  <2>1. i = s.index  BY <1>2, <1>9 DEF Decided, States
  <2> HIDE DEF i
  <2> QED BY <1>2, <1>4, <2>1 DEF i
<1> QED BY <1>5, <1>7, <1>8, <1>9 DEF Decisions

----------------------------------------------------------------------------
(* The invariant.                                                           *)

\* A copy at the current revision is the current state.
CopiesAgree == /\ state.rev = 1 => state = Created
               /\ \A t \in Threads : copy[t].rev = state.rev => copy[t] = state

Rooms == /\ SoundRow(state) /\ \A t \in Threads : SoundRow(copy[t])
         /\ gates \in Seq(GateRows) /\ Len(gates) <= MaxGates
         /\ data \in BOOLEAN /\ produced \subseteq Actions /\ faults \in 0..MaxFaults
         /\ waived \subseteq Actions /\ astray \subseteq DOMAIN gates
         /\ overtaken \subseteq {t \in Threads : pc[t] \in Busy}

\* The places between a read and its save.
Saving == Locked \cup {"noting", "answering"}

ReadBounded(t) ==
  /\ pc[t] \in Saving => copy[t].rev < MaxRevision
  /\ pc[t] = "noting" => copy[t].notes < MaxNotes

\* A worker with an action of the route: unless it was overtaken, no Gate is
\* active and its action is pending.
WorkPends(t) == pc[t] \in Busy =>
  /\ t \in Workers /\ state.routed /\ job[t].action \in Actions /\ job[t].mode \in Modes
  /\ t \notin overtaken => state.gate = 0 /\ Pending(job[t].action, state, Cleared)
  /\ pc[t] # "gated" => job[t].gate = 0
  /\ pc[t] \in {"committing", "gated"} =>
       /\ job[t].human = NeedsHumanGate(job[t].action, job[t].mode)
       /\ job[t].checkpoint \in Checkpoints(job[t].action, job[t].mode)
  /\ pc[t] = "gated" => /\ job[t].human /\ job[t].gate \in DOMAIN gates
                        /\ gates[job[t].gate].action = job[t].action

\* A decision is about the Gate that was active when the state was read.
DecisionSound(t) == pc[t] \in {"deciding", "decided"} =>
  /\ job[t].gate \in DOMAIN gates /\ copy[t].gate = job[t].gate /\ job[t].decision \in Decisions
  /\ pc[t] = "deciding" /\ job[t].decision = "approve" => MayApprove(job[t].gate, job[t].independent)
  /\ pc[t] = "decided" /\ job[t].decision = "approve" => gates[job[t].gate].status = "APPROVED"

At(t) == ReadBounded(t) /\ WorkPends(t) /\ DecisionSound(t)

\* The active Gate is about a candidate, which is pending unless it went astray.
ActiveGatePends == state.gate # 0 =>
  /\ state.gate \in DOMAIN gates /\ gates[state.gate].action \in produced
  /\ state.gate \notin astray => Pending(gates[state.gate].action, state, Cleared)

ApprovalsJustified == \A g \in DOMAIN gates : gates[g].status = "APPROVED" =>
  /\ gates[g].action = "raw_data_import" => data
  /\ gates[g].action = "reviewer_final_confirmation" => gates[g].independent

RouteInv == /\ CInv /\ CopiesAgree /\ Rooms /\ (\A t \in Threads : At(t))
            /\ ActiveGatePends /\ ApprovalsJustified
            /\ Passed(state, Cleared) /\ CompletedWasReviewed

----------------------------------------------------------------------------
(* Kinds of steps.                                                          *)

\* Gates are added and decided, and nothing else.
GatesGrow == \A g \in DOMAIN gates :
  /\ g \in DOMAIN gates' /\ gates'[g].action = gates[g].action /\ gates'[g].valid = gates[g].valid
  /\ gates[g].status # "PENDING" => gates'[g] = gates[g]

\* What is on record stays on record; a thread stays overtaken while it works.
HistoryGrows ==
  /\ waived \subseteq waived' /\ waived' \subseteq Actions
  /\ astray \subseteq astray' /\ astray' \subseteq DOMAIN gates'
  /\ \A t \in overtaken : pc'[t] \in Busy => t \in overtaken'
  /\ overtaken' \subseteq {t \in Threads : pc'[t] \in Busy}

\* Steps that overtake nobody and lead no Gate astray.
LEMMA HistoryStands ==
  ASSUME Rooms, NEW t \in Threads, \A u \in Threads \ {t} : pc'[u] = pc[u],
         waived' = waived \/ (waived \subseteq waived' /\ waived' \subseteq Actions),
         astray' = astray, DOMAIN gates \subseteq DOMAIN gates',
         \/ overtaken' = overtaken /\ (pc[t] \in Busy => pc'[t] \in Busy)
         \/ overtaken' = overtaken \ {t} /\ pc'[t] \notin Busy
  PROVE  HistoryGrows
BY DEF Rooms, HistoryGrows

LEMMA ClearedKept ==
  ASSUME GatesGrow, HistoryGrows, produced \subseteq produced'
  PROVE  Cleared \subseteq Cleared'
<1>1. \A a : ApprovedGate(a) => \E g \in DOMAIN gates' : gates'[g].action = a /\ gates'[g].status = "APPROVED"
  BY DEF GatesGrow, ApprovedGate
<1> QED BY <1>1 DEF Cleared, ApprovedGate, HistoryGrows

FinalApproved == \E g \in DOMAIN gates : /\ gates[g].action = "reviewer_final_confirmation"
                                         /\ gates[g].status = "APPROVED" /\ gates[g].independent

\* What the invariant says of the state stays true of it while more is cleared.
LEMMA StateHolds ==
  ASSUME RouteInv, GatesGrow, HistoryGrows, produced \subseteq produced'
  PROVE  /\ Passed(state, Cleared')
         /\ \A u \in Threads : pc[u] \in Busy /\ u \notin overtaken
              => state.gate = 0 /\ Pending(job[u].action, state, Cleared')
         /\ \A u \in Threads : pc[u] \in Busy => state.routed
         /\ state.gate # 0 => /\ state.gate \in DOMAIN gates
                              /\ gates[state.gate].action \in produced'
                              /\ state.gate \notin astray' =>
                                   Pending(gates[state.gate].action, state, Cleared')
         /\ state.life = "COMPLETED" /\ "reviewer_final_confirmation" \notin waived' => FinalApproved
<1>1. Cleared \subseteq Cleared'  BY ClearedKept
<1>2. /\ (\A u \in Threads : WorkPends(u)) /\ ActiveGatePends
      /\ Passed(state, Cleared) /\ CompletedWasReviewed
  BY DEF RouteInv, At
<1>3. Passed(state, Cleared') /\ \A a : Pending(a, state, Cleared) => Pending(a, state, Cleared')
  BY <1>1, <1>2, ClearedGrows
<1>4. \A u \in Threads : pc[u] \in Busy =>
        state.routed /\ (u \notin overtaken => state.gate = 0 /\ Pending(job[u].action, state, Cleared'))
  BY <1>2, <1>3 DEF WorkPends
<1>5. state.gate # 0 => /\ state.gate \in DOMAIN gates
                        /\ gates[state.gate].action \in produced'
                        /\ state.gate \notin astray' =>
                             Pending(gates[state.gate].action, state, Cleared')
  BY <1>2, <1>3 DEF ActiveGatePends, HistoryGrows
<1>6. state.life = "COMPLETED" /\ "reviewer_final_confirmation" \notin waived' => FinalApproved
  BY <1>2 DEF CompletedWasReviewed, HistoryGrows, FinalApproved
<1> QED BY <1>3, <1>4, <1>5, <1>6

\* A thread that does not move stays where it may be.
LEMMA OtherStays ==
  ASSUME NEW u \in Threads, At(u), pc'[u] = pc[u], copy'[u] = copy[u], job'[u] = job[u],
         GatesGrow, data => data',
         pc[u] \in Busy => /\ state'.routed
                           /\ u \notin overtaken' => /\ state'.gate = 0
                                                     /\ Pending(job[u].action, state', Cleared')
  PROVE  At(u)'
<1>1. ReadBounded(u)'  BY DEF At, ReadBounded
<1>2. WorkPends(u)'  BY DEF At, WorkPends, GatesGrow
<1>3. DecisionSound(u)'
  <2>1. CASE pc[u] \notin {"deciding", "decided"}  BY <2>1 DEF DecisionSound
  <2>2. CASE pc[u] \in {"deciding", "decided"}
    <3>1. /\ job[u].gate \in DOMAIN gates /\ copy[u].gate = job[u].gate /\ job[u].decision \in Decisions
          /\ pc[u] = "deciding" /\ job[u].decision = "approve" => MayApprove(job[u].gate, job[u].independent)
          /\ pc[u] = "decided" /\ job[u].decision = "approve" => gates[job[u].gate].status = "APPROVED"
      BY <2>2 DEF At, DecisionSound
    <3>2. /\ job[u].gate \in DOMAIN gates'
          /\ gates'[job[u].gate].action = gates[job[u].gate].action
          /\ gates'[job[u].gate].valid = gates[job[u].gate].valid
          /\ gates[job[u].gate].status = "APPROVED" => gates'[job[u].gate] = gates[job[u].gate]
      BY <3>1 DEF GatesGrow
    <3>3. pc[u] = "deciding" /\ job[u].decision = "approve" => MayApprove(job[u].gate, job[u].independent)'
      BY <3>1, <3>2 DEF MayApprove
    <3> QED BY <3>1, <3>2, <3>3 DEF DecisionSound
  <2> QED BY <2>1, <2>2
<1> QED BY <1>1, <1>2, <1>3 DEF At

LEMMA CreatedIsSound == SoundRow(Created)
<1>1. Len(Unclassified) \in Nat  BY StepsAreNames, LenProperties
<1>2. Created \in States  BY BoundsAssumption DEF Created, States, None
<1> QED BY <1>1, <1>2 DEF SoundRow, Created

\* A step of t that leaves the state alone.
LEMMA MoveKeeps ==
  ASSUME RouteInv, CInv', NEW t \in Threads, state' = state, produced' = produced,
         GatesGrow, gates' \in Seq(GateRows), Len(gates') <= MaxGates, ApprovalsJustified',
         HistoryGrows, data => data', data' \in BOOLEAN, faults' \in 0..MaxFaults,
         \A u \in Threads \ {t} : pc'[u] = pc[u] /\ job'[u] = job[u] /\ copy'[u] = copy[u],
         copy'[t] \in {copy[t], state, Created},
         At(t)'
  PROVE  RouteInv'
<1>1. /\ CopiesAgree /\ Rooms /\ (\A u \in Threads : At(u)) /\ ActiveGatePends
      /\ Passed(state, Cleared) /\ CompletedWasReviewed
  BY DEF RouteInv
<1>2. /\ Passed(state, Cleared')
      /\ \A u \in Threads : pc[u] \in Busy /\ u \notin overtaken
           => state.gate = 0 /\ Pending(job[u].action, state, Cleared')
      /\ \A u \in Threads : pc[u] \in Busy => state.routed
      /\ state.gate # 0 => /\ state.gate \in DOMAIN gates
                           /\ gates[state.gate].action \in produced'
                           /\ state.gate \notin astray' =>
                                Pending(gates[state.gate].action, state, Cleared')
  BY StateHolds
<1>3. CopiesAgree'  BY <1>1, CreatedCounted DEF CopiesAgree
<1>4. Rooms'  BY <1>1, CreatedIsSound DEF Rooms, HistoryGrows
<1>5. ASSUME NEW u \in Threads PROVE At(u)'
  <2>1. CASE u = t  BY <2>1
  <2>2. CASE u # t
    <3>1. pc'[u] = pc[u] /\ job'[u] = job[u] /\ copy'[u] = copy[u] /\ At(u)  BY <1>1, <2>2
    <3>2. pc[u] \in Busy => /\ state'.routed
                            /\ u \notin overtaken' => /\ state'.gate = 0
                                                      /\ Pending(job[u].action, state', Cleared')
      BY <1>2, <3>1 DEF HistoryGrows
    <3> QED BY <3>1, <3>2, OtherStays
  <2> QED BY <2>1, <2>2
<1>6. ActiveGatePends'  BY <1>2 DEF ActiveGatePends, GatesGrow
<1>7. CompletedWasReviewed'  BY <1>1 DEF CompletedWasReviewed, GatesGrow, HistoryGrows
<1>8. Passed(state, Cleared)'  BY <1>2
<1> QED BY <1>3, <1>4, <1>5, <1>6, <1>7, <1>8 DEF RouteInv

\* The revision of a row says nothing about the rest of it.
LEMMA NextRevision ==
  ASSUME NEW new, SoundRow(new), NEW r, r = new.rev, r < MaxRevision,
         NEW next, next = [new EXCEPT !.rev = r + 1]
  PROVE  /\ SoundRow(next) /\ next.rev = r + 1
         /\ next.gate = new.gate /\ next.life = new.life /\ next.checkpoint = new.checkpoint
         /\ next.routed = new.routed
         /\ \A c : Passed(new, c) => Passed(next, c)
         /\ \A a, c : Pending(a, new, c) => Pending(a, next, c)
<1>1. new \in States /\ new.rev \in 1..MaxRevision  BY DEF SoundRow, States
<1>2. r + 1 \in 1..MaxRevision  BY <1>1, BoundsAssumption
<1>3. next \in States  BY <1>1, <1>2 DEF States
<1>4. /\ next.rev = r + 1 /\ next.steps = new.steps /\ next.index = new.index
      /\ next.routed = new.routed /\ next.target = new.target
      /\ next.gate = new.gate /\ next.life = new.life /\ next.checkpoint = new.checkpoint
  BY <1>1 DEF States
<1>5. SoundRow(next)  BY <1>3, <1>4 DEF SoundRow
<1>6. \A c : Passed(new, c) => Passed(next, c)  BY <1>4 DEF Passed
<1>7. \A a, c : Pending(a, new, c) => Pending(a, next, c)  BY <1>4 DEF Pending
<1> QED BY <1>4, <1>5, <1>6, <1>7

\* What a row must be so that it may be saved, if the save succeeds.
Savable(t, new) ==
  /\ SoundRow(new) /\ new.rev = state.rev
  /\ Passed(new, Cleared')
  /\ new.gate # 0 => /\ new.gate \in DOMAIN gates
                     /\ gates[new.gate].action \in produced'
                     /\ new.gate \notin astray' => Pending(gates[new.gate].action, new, Cleared')
  /\ new.life = "COMPLETED" /\ "reviewer_final_confirmation" \notin waived' => FinalApproved
  /\ \A u \in Threads \ {t} : pc[u] \in Busy =>
       /\ new.routed
       /\ u \notin overtaken \cup overtaken' => new.gate = 0 /\ Pending(job[u].action, new, Cleared')

\* A save either fails and leaves the state alone, or takes its row.
LEMMA RowSaved ==
  ASSUME RouteInv, CInv', NEW t \in Threads, pc[t] \in Saving, NEW new, Save(t, new),
         gates' = gates, data' = data, faults' = faults, HistoryGrows,
         Unchanged(t) => /\ produced \subseteq produced' /\ produced' \subseteq Actions
                         /\ copy[t] = state => Savable(t, new),
         ~Unchanged(t) => produced' = produced
  PROVE  RouteInv'
<1>1. /\ CopiesAgree /\ Rooms /\ (\A u \in Threads : At(u)) /\ ActiveGatePends
      /\ ApprovalsJustified /\ CopiesCurrent
      /\ DOMAIN copy = Threads /\ pc \in [Threads -> Places] /\ job \in [Threads -> Jobs]
  BY DEF RouteInv, CInv, Shape
<1>2. /\ pc'[t] = "idle" /\ copy'[t] = Created
      /\ \A u \in Threads \ {t} : pc'[u] = pc[u] /\ job'[u] = job[u] /\ copy'[u] = copy[u]
  <2>1. copy = [u \in Threads |-> copy[u]]  BY DEF RouteInv, CInv, Shape
  <2> QED BY <1>1, <2>1 DEF Save, Goto
<1>3. At(t)'
  BY <1>2, PlacesOfLock DEF At, ReadBounded, WorkPends, DecisionSound, Saving, Busy
<1>4. GatesGrow  BY DEF GatesGrow
<1>5. ApprovalsJustified'  BY <1>1 DEF ApprovalsJustified
<1>6. CASE ~Unchanged(t)
  <2>1. state' = state /\ produced' = produced  BY <1>6 DEF Save
  <2> QED BY <1>1, <1>2, <1>3, <1>4, <1>5, <2>1, MoveKeeps DEF Rooms
<1>7. CASE Unchanged(t)
  <2>1. copy[t].rev = state.rev /\ copy[t] = state  BY <1>1, <1>7 DEF CopiesAgree, Unchanged
  <2>2. Savable(t, new) /\ produced \subseteq produced' /\ produced' \subseteq Actions  BY <1>7, <2>1
  <2>3. state.rev \in Nat /\ state.rev >= 1 /\ state.rev < MaxRevision
    BY <1>1, <2>1 DEF At, ReadBounded, Rooms, RouteInv, CInv, Shape, Counted
  <2>4. state' = [new EXCEPT !.rev = state.rev + 1]  BY <1>7, <2>1 DEF Save
  <2>5. /\ SoundRow(state') /\ state'.rev = state.rev + 1
        /\ state'.gate = new.gate /\ state'.life = new.life /\ state'.routed = new.routed
        /\ \A c : Passed(new, c) => Passed(state', c)
        /\ \A a, c : Pending(a, new, c) => Pending(a, state', c)
    BY <2>2, <2>3, <2>4, NextRevision DEF Savable
  <2>6. CopiesAgree'
    <3>1. \A u \in Threads : copy[u].rev \in Nat /\ copy[u].rev <= state.rev
      BY <1>1 DEF CopiesCurrent, RouteInv, CInv, Shape, Counted
    <3>2. \A u \in Threads : copy'[u].rev # state'.rev
      BY <1>2, <2>3, <2>5, <3>1, CreatedCounted
    <3>3. state'.rev # 1  BY <2>3, <2>5
    <3> QED BY <3>2, <3>3 DEF CopiesAgree
  <2>7. Rooms'  BY <1>1, <1>2, <2>2, <2>5, CreatedIsSound DEF Rooms, HistoryGrows
  <2>8. ASSUME NEW u \in Threads PROVE At(u)'
    <3>1. CASE u = t  BY <1>3, <3>1
    <3>2. CASE u # t
      <4>1. pc'[u] = pc[u] /\ job'[u] = job[u] /\ copy'[u] = copy[u] /\ At(u)  BY <1>1, <1>2, <3>2
      <4>2. pc[u] \in Busy =>
              /\ new.routed
              /\ u \notin overtaken' => new.gate = 0 /\ Pending(job[u].action, new, Cleared')
        BY <2>2, <3>2, <4>1 DEF Savable, HistoryGrows
      <4>3. pc[u] \in Busy => /\ state'.routed
                              /\ u \notin overtaken' => /\ state'.gate = 0
                                                        /\ Pending(job[u].action, state', Cleared')
        BY <2>5, <4>2
      <4> QED BY <1>4, <4>1, <4>3, OtherStays
    <3> QED BY <3>1, <3>2
  <2>9. ActiveGatePends'  BY <2>2, <2>5 DEF ActiveGatePends, Savable
  <2>10. Passed(state', Cleared')  BY <2>2, <2>5 DEF Savable
  <2>11. CompletedWasReviewed'
    BY <2>2, <2>5 DEF CompletedWasReviewed, Savable, FinalApproved
  <2> QED BY <1>5, <2>6, <2>7, <2>8, <2>9, <2>10, <2>11 DEF RouteInv
<1> QED BY <1>6, <1>7

----------------------------------------------------------------------------
(* Saves, one by one.                                                       *)

LEMMA PlacesDiffer ==
  /\ \A l \in {"idle", "route"} : l \notin Saving /\ l \notin Busy /\ l \notin {"deciding", "decided"}
  /\ \A l \in {"routing", "targeting", "storing", "noting", "answering"} :
       l \in Saving /\ l \notin Busy /\ l \notin {"deciding", "decided"}
  /\ \A l \in {"chosen", "working"} :
       l \notin Saving /\ l \in Busy /\ l \notin {"deciding", "decided"}
  /\ \A l \in {"committing", "gated"} : l \in Saving /\ l \in Busy /\ l \notin {"deciding", "decided"}
  /\ \A l \in {"deciding", "decided"} : l \in Saving /\ l \notin Busy
BY DEF Saving, Locked, Busy

LEMMA SaveMoves ==
  ASSUME RouteInv, NEW t \in Threads, NEW new, Save(t, new)
  PROVE  pc'[t] = "idle" /\ \A u \in Threads \ {t} : pc'[u] = pc[u]
<1>1. pc \in [Threads -> Places]  BY DEF RouteInv, CInv, Shape
<1> QED BY <1>1 DEF Save, Goto

\* A save that records at most steps as waived.
LEMMA SaveStands ==
  ASSUME RouteInv, NEW t \in Threads, NEW new, Save(t, new), pc[t] \notin Busy, gates' = gates,
         waived' = waived \/ (waived \subseteq waived' /\ waived' \subseteq Actions),
         astray' = astray, overtaken' = overtaken
  PROVE  HistoryGrows
<1>1. Rooms /\ \A u \in Threads \ {t} : pc'[u] = pc[u]  BY SaveMoves DEF RouteInv
<1> QED BY <1>1, HistoryStands

\* Saves that leave steps, index, Gate and lifecycle alone.
LEMMA Resaving ==
  ASSUME RouteInv, NEW t \in Threads, produced' = produced, gates' = gates, HistoryGrows,
         NEW new, SoundRow(new),
         new.rev = state.rev, new.steps = state.steps, new.index = state.index,
         new.gate = state.gate, new.life = state.life, new.routed = state.routed
  PROVE  Savable(t, new)
<1>1. GatesGrow  BY DEF GatesGrow
<1>2. Passed(new, Cleared')  BY <1>1, StateHolds DEF Passed
<1>3. \A a : Pending(a, state, Cleared') => Pending(a, new, Cleared')  BY DEF Pending
<1> QED BY <1>1, <1>2, <1>3, StateHolds DEF Savable

LEMMA ChooseRouteKeeps ==
  ASSUME RouteInv, CInv', NEW t \in Threads, ChooseRoute(t)
  PROVE  RouteInv'
<1>1. /\ Save(t, Rerouted(copy[t])) /\ pc[t] \in Saving /\ pc[t] \notin Busy
      /\ gates' = gates /\ data' = data /\ faults' = faults /\ produced' = produced
      /\ UNCHANGED history
  BY PlacesDiffer DEF ChooseRoute, Rerouted
<1>2. HistoryGrows  BY <1>1, SaveStands DEF history
<1>3. produced' \subseteq Actions  BY <1>1 DEF RouteInv, Rooms
<1>4. ASSUME copy[t] = state PROVE Savable(t, Rerouted(copy[t]))
  <2> DEFINE new == Rerouted(state)
  <2>1. SoundRow(state) /\ GatesGrow  BY <1>1 DEF RouteInv, Rooms, GatesGrow
  <2>2. /\ SoundRow(new) /\ new.rev = state.rev /\ new.gate = 0 /\ new.routed
        /\ new.life = state.life /\ Passed(new, Cleared')
        /\ \A a : Pending(a, state, Cleared') => Pending(a, new, Cleared')
    BY <2>1, Rerouting
  <2> HIDE DEF new
  <2>3. Savable(t, new)  BY <1>1, <1>2, <2>1, <2>2, StateHolds DEF Savable
  <2> QED BY <1>4, <2>3 DEF new
<1> QED BY <1>1, <1>2, <1>3, <1>4, RowSaved

LEMMA SetTargetKeeps ==
  ASSUME RouteInv, CInv', NEW t \in Threads, SetPublicationTarget(t)
  PROVE  RouteInv'
<1>1. /\ Save(t, Retargeted(copy[t])) /\ pc[t] \in Saving /\ pc[t] \notin Busy
      /\ gates' = gates /\ data' = data /\ faults' = faults /\ produced' = produced
      /\ astray' = astray /\ overtaken' = overtaken
      /\ waived' = IF Unchanged(t) /\ LateTarget(t) THEN waived \cup {Formatting} ELSE waived
  BY PlacesDiffer DEF SetPublicationTarget, Retargeted, Formatting
<1>2. HistoryGrows
  <2>1. Formatting \in Actions /\ waived \subseteq Actions  BY DEF Actions, Formatting, RouteInv, Rooms
  <2> QED BY <1>1, <2>1, SaveStands
<1>3. produced' \subseteq Actions  BY <1>1 DEF RouteInv, Rooms
<1>4. ASSUME copy[t] = state PROVE Savable(t, Retargeted(copy[t]))
  <2> DEFINE new == Retargeted(state)
  <2>1. SoundRow(state) /\ GatesGrow  BY <1>1 DEF RouteInv, Rooms, GatesGrow
  <2>2. ASSUME state.routed, ~state.target, state.index > LastFixed PROVE Formatting \in Cleared'
    <3>1. state.steps = Workflow  BY <2>1, <2>2 DEF SoundRow, Route
    <3>2. LateTarget(t) /\ Unchanged(t)  BY <1>4, <2>2, <3>1 DEF LateTarget, LastFixed, Unchanged
    <3> QED BY <1>1, <3>2 DEF Cleared
  <2>3. Passed(state, Cleared')  BY <1>1, <1>2, <2>1, StateHolds
  <2>4. /\ SoundRow(new) /\ new.rev = state.rev /\ new.gate = state.gate
        /\ new.life = state.life /\ new.routed = state.routed /\ Passed(new, Cleared')
        /\ \A a : Pending(a, state, Cleared') => Pending(a, new, Cleared')
    BY <2>1, <2>2, <2>3, Retargeting
  <2> HIDE DEF new
  <2>5. Savable(t, new)  BY <1>1, <1>2, <2>1, <2>4, StateHolds DEF Savable
  <2> QED BY <1>4, <2>5 DEF new
<1> QED BY <1>1, <1>2, <1>3, <1>4, RowSaved

\* The primary data, the constraints and the answers of the conversation.
LEMMA StatusKeeps ==
  ASSUME RouteInv, CInv', NEW t \in Threads, SaveDataStatus(t) \/ TakeNote(t) \/ AnswerCheckpoint(t)
  PROVE  RouteInv'
<1>1. SoundRow(copy[t]) /\ SoundRow(state) /\ copy[t] \in States
  BY DEF RouteInv, Rooms, SoundRow
<1>2. ASSUME NEW new, Save(t, new), pc[t] \in {"storing", "noting", "answering"}, SoundRow(new),
             gates' = gates, data' = data, faults' = faults, produced' = produced, UNCHANGED history,
             new.rev = copy[t].rev, new.steps = copy[t].steps, new.index = copy[t].index,
             new.gate = copy[t].gate, new.life = copy[t].life, new.routed = copy[t].routed
      PROVE  RouteInv'
  <2>1. produced' \subseteq Actions  BY <1>2 DEF RouteInv, Rooms
  <2>2. pc[t] \in Saving /\ pc[t] \notin Busy  BY <1>2, PlacesDiffer
  <2>3. HistoryGrows  BY <1>2, <2>2, SaveStands DEF history
  <2>4. copy[t] = state => Savable(t, new)  BY <1>2, <2>3, Resaving
  <2> QED BY <1>2, <2>1, <2>2, <2>3, <2>4, RowSaved
<1>3. CASE SaveDataStatus(t)
  BY <1>1, <1>2, <1>3 DEF SaveDataStatus
<1>4. CASE TakeNote(t)
  <2> DEFINE new == [copy[t] EXCEPT !.notes = @ + 1]
  <2>1. copy[t].notes < MaxNotes  BY <1>4 DEF TakeNote, RouteInv, At, ReadBounded
  <2>2. copy[t].notes + 1 \in 0..MaxNotes  BY <1>1, <2>1, RowFacts, BoundsAssumption
  <2>3. new \in States  BY <1>1, <2>2 DEF States
  <2>4. /\ new.rev = copy[t].rev /\ new.steps = copy[t].steps /\ new.index = copy[t].index
        /\ new.gate = copy[t].gate /\ new.life = copy[t].life /\ new.routed = copy[t].routed
        /\ new.target = copy[t].target
    BY <1>1 DEF States
  <2>5. Save(t, new) /\ pc[t] = "noting"
        /\ gates' = gates /\ data' = data /\ faults' = faults /\ produced' = produced
        /\ UNCHANGED history
    BY <1>4 DEF TakeNote
  <2> HIDE DEF new
  <2>6. SoundRow(new)  BY <1>1, <2>3, <2>4 DEF SoundRow
  <2> QED BY <1>2, <2>4, <2>5, <2>6
<1>5. CASE AnswerCheckpoint(t)
  <2>1. PICK c \in AfterAnswer(copy[t].checkpoint) : Save(t, [copy[t] EXCEPT !.checkpoint = c])
    BY <1>5 DEF AnswerCheckpoint
  <2> DEFINE new == [copy[t] EXCEPT !.checkpoint = c]
  <2>2. c \in CheckpointNames \cup {None}  BY <1>1 DEF AfterAnswer, States
  <2>3. new \in States  BY <1>1, <2>2 DEF States
  <2>4. /\ new.rev = copy[t].rev /\ new.steps = copy[t].steps /\ new.index = copy[t].index
        /\ new.gate = copy[t].gate /\ new.life = copy[t].life /\ new.routed = copy[t].routed
        /\ new.target = copy[t].target
    BY <1>1 DEF States
  <2>5. Save(t, new) /\ pc[t] = "answering"
        /\ gates' = gates /\ data' = data /\ faults' = faults /\ produced' = produced
        /\ UNCHANGED history
    BY <1>5, <2>1 DEF AnswerCheckpoint
  <2> HIDE DEF new
  <2>6. SoundRow(new)  BY <1>1, <2>3, <2>4 DEF SoundRow
  <2> QED BY <1>2, <2>4, <2>5, <2>6
<1> QED BY <1>3, <1>4, <1>5

\* A candidate: what it was made for is cleared, or waits at its Gate, and what
\* it passes besides, when it was overtaken, is on record.
LEMMA CandidateSavable ==
  ASSUME RouteInv, NEW t \in Threads, CompleteAction(t), copy[t] = state, Unchanged(t), HistoryGrows,
         NEW new, new = [copy[t] EXCEPT !.gate = job[t].gate, !.checkpoint = job[t].checkpoint,
                           !.index = NextIndex(copy[t], job[t].human, job[t].checkpoint)]
  PROVE  Savable(t, new)
<1> DEFINE j == job[t]
           a == j.action
           i == NextIndex(state, j.human, j.checkpoint)
           row == RowWith(state, i, j.gate, j.checkpoint, state.life)
<1>1. /\ pc[t] = (IF j.human THEN "gated" ELSE "committing")
      /\ gates' = gates /\ produced' = produced \cup {a} /\ Record(t, i)
  BY DEF CompleteAction
<1>2. pc[t] \in Busy  BY <1>1, PlacesDiffer
<1>3. /\ state.routed /\ a \in Actions
      /\ t \notin overtaken => Pending(a, state, Cleared)
      /\ pc[t] # "gated" => j.gate = 0
      /\ j.human = NeedsHumanGate(a, j.mode) /\ j.checkpoint \in Checkpoints(a, j.mode)
      /\ pc[t] = "gated" => j.gate \in DOMAIN gates /\ gates[j.gate].action = a
  BY <1>1, <1>2 DEF RouteInv, At, WorkPends
<1>4. /\ SoundRow(state) /\ Passed(state, Cleared) /\ state \in States
      /\ gates \in Seq(GateRows) /\ Len(gates) <= MaxGates
  BY DEF RouteInv, Rooms, SoundRow
<1>5. GatesGrow /\ produced \subseteq produced'  BY <1>1 DEF GatesGrow
<1>6. Cleared \subseteq Cleared' /\ Passed(state, Cleared')
  BY <1>5, ClearedKept, StateHolds
<1>7. /\ i \in Nat /\ i >= 3 /\ (state.life = "ACTIVE" => i <= Len(state.steps) + 1)
      /\ i > state.index => a \notin Reviewed
  BY <1>3, <1>4, NextIndexIsStep
<1>8. /\ j.gate \in 0..MaxGates
      /\ j.gate # 0 => j.human /\ j.gate \in DOMAIN gates /\ gates[j.gate].action = a
  <2>1. DOMAIN gates = 1..Len(gates) /\ Len(gates) \in Nat  BY <1>4, LenProperties
  <2> QED BY <1>1, <1>3, <1>4, <2>1, BoundsAssumption
<1>9. j.checkpoint \in CheckpointNames \cup {None}  BY <1>3, CheckpointsAreNames
<1>10. state.life \in {"ACTIVE", "COMPLETED", "TERMINATED"}  BY <1>4 DEF States
<1>11. new = row  BY <1>4 DEF RowWith, States
<1> HIDE DEF i
<1>12. /\ SoundRow(row) /\ row.index = i /\ row.gate = j.gate /\ row.life = state.life
       /\ row.rev = state.rev /\ row.steps = state.steps /\ row.routed
  BY <1>3, <1>4, <1>7, <1>8, <1>9, <1>10, RowSet
<1> HIDE DEF row, a
<1>13. i > state.index => a \in Cleared'  BY <1>1, <1>7 DEF Cleared
<1>14. ASSUME t \notin overtaken
       PROVE  /\ Between(state, i) \subseteq Cleared' \cup {a}
              /\ j.human /\ ~TwiceAdvanced(j, state.steps) => Pending(a, row, Cleared')
  <2>1. Pending(a, state, Cleared')  BY <1>3, <1>6, <1>14, ClearedGrows
  <2> DEFINE human == NeedsHumanGate(a, j.mode)
             k == NextIndex(state, human, j.checkpoint)
  <2>2. /\ Between(state, k) \subseteq Cleared' \cup {a}
        /\ \A r : /\ r.routed /\ r.steps = state.steps /\ r.index = k
                  /\ human /\ ~(/\ j.checkpoint \in {"RESEARCH_QUESTION_REVIEW", "RESEARCH_DESIGN_REVIEW"}
                                /\ In(state.steps, ResumeStep(state.steps, j.checkpoint)))
                  => Pending(a, r, Cleared')
    BY <1>3, <1>4, <2>1, PendingCommit
  <2>3. k = i /\ human = j.human  BY <1>3 DEF i
  <2> HIDE DEF k, human, j
  <2> QED BY <1>12, <2>2, <2>3 DEF TwiceAdvanced
<1>15. ASSUME t \in overtaken PROVE Between(state, i) \subseteq Cleared' \cup {a}
  <2>1. Between(state, i) \ {a} \subseteq waived'  BY <1>1, <1>15 DEF Record, a
  <2> QED BY <2>1 DEF Cleared
<1>16. Passed(row, Cleared')
  <2>1. state.index \in Nat  BY <1>4, RowFacts
  <2>2. CASE i <= state.index
    <3>1. \A y \in DOMAIN state.steps : ~(state.index <= y /\ y < i)
      <4>1. \A y \in DOMAIN state.steps : y \in Nat  BY <1>4, RowFacts
      <4> QED BY <1>7, <2>1, <2>2, <4>1
    <3>2. Between(state, i) = {}  BY <3>1 DEF Between
    <3> QED BY <1>4, <1>6, <1>7, <1>12, <3>2, PassedOn
  <2>3. CASE i > state.index
    <3>1. Between(state, i) \subseteq Cleared'  BY <1>13, <1>14, <1>15, <2>3
    <3> QED BY <1>4, <1>6, <1>7, <1>12, <3>1, PassedOn
  <2> QED BY <1>7, <2>1, <2>2, <2>3
<1>17. row.gate # 0 => /\ row.gate \in DOMAIN gates /\ gates[row.gate].action = a
                       /\ row.gate \notin astray' => Pending(a, row, Cleared')
  <2>1. j.human /\ (t \in overtaken \/ TwiceAdvanced(j, state.steps)) => j.gate \in astray'
    BY <1>1 DEF Record
  <2> QED BY <1>8, <1>12, <1>14, <2>1
<1>18. \A u \in Threads \ {t} : pc[u] \in Busy => u \in overtaken'
  BY <1>1 DEF Record
<1>19. row.life = "COMPLETED" /\ "reviewer_final_confirmation" \notin waived' => FinalApproved
  BY <1>5, <1>12, StateHolds
<1>20. a \in produced'  BY <1>1 DEF a
<1> QED BY <1>11, <1>12, <1>16, <1>17, <1>18, <1>19, <1>20 DEF Savable

LEMMA CompleteKeeps ==
  ASSUME RouteInv, CInv', NEW t \in Threads, CompleteAction(t)
  PROVE  RouteInv'
<1> DEFINE j == job[t]
           i == NextIndex(copy[t], j.human, j.checkpoint)
           new == [copy[t] EXCEPT !.gate = j.gate, !.checkpoint = j.checkpoint, !.index = i]
<1>1. /\ Save(t, new) /\ pc[t] = (IF j.human THEN "gated" ELSE "committing")
      /\ gates' = gates /\ data' = data /\ faults' = faults
      /\ IF Unchanged(t) THEN produced' = produced \cup {j.action} /\ Record(t, i)
         ELSE overtaken' = overtaken \ {t} /\ UNCHANGED <<produced, astray, waived>>
  BY DEF CompleteAction
<1>2. pc[t] \in Saving /\ pc[t] \in Busy  BY <1>1, PlacesDiffer
<1>3. /\ Rooms /\ j.action \in Actions /\ state.routed
      /\ j.human = NeedsHumanGate(j.action, j.mode)
      /\ j.checkpoint \in Checkpoints(j.action, j.mode)
      /\ pc[t] = "gated" => j.gate \in DOMAIN gates
  BY <1>1, <1>2 DEF RouteInv, At, WorkPends
<1>4. pc'[t] = "idle" /\ \A u \in Threads \ {t} : pc'[u] = pc[u]
  BY <1>1, SaveMoves
<1>5. HistoryGrows
  <2>1. CASE ~Unchanged(t)
    <3>1. overtaken' = overtaken \ {t} /\ astray' = astray /\ waived' = waived  BY <1>1, <2>1
    <3>2. pc'[t] \notin Busy /\ DOMAIN gates \subseteq DOMAIN gates'  BY <1>1, <1>4, PlacesDiffer
    <3> HIDE DEF new, i, j
    <3> QED BY <1>3, <1>4, <3>1, <3>2, HistoryStands
  <2>2. CASE Unchanged(t)
    <3>1. Record(t, i)  BY <1>1, <2>2
    <3>2. copy[t] = state  BY <2>2 DEF RouteInv, CopiesAgree, Unchanged
    <3>3. Between(copy[t], i) \subseteq Actions
      BY <1>3, <3>2, NextIndexIsStep DEF Rooms
    <3> HIDE DEF i, new
    <3>4. waived \subseteq waived' /\ waived' \subseteq Actions
      BY <1>3, <3>1, <3>3 DEF Record, Rooms
    <3>5. astray \subseteq astray' /\ astray' \subseteq DOMAIN gates'
      BY <1>1, <1>3, <3>1 DEF Record, Rooms
    <3>6. /\ \A u \in overtaken : pc'[u] \in Busy => u \in overtaken'
          /\ overtaken' \subseteq {u \in Threads : pc'[u] \in Busy}
      BY <1>3, <1>4, <3>1, PlacesDiffer DEF Record, Rooms
    <3> QED BY <3>4, <3>5, <3>6 DEF HistoryGrows
  <2> QED BY <2>1, <2>2
<1>6. ASSUME copy[t] = state, Unchanged(t) PROVE Savable(t, new)
  <2>1. new = [copy[t] EXCEPT !.gate = job[t].gate, !.checkpoint = job[t].checkpoint,
                !.index = NextIndex(copy[t], job[t].human, job[t].checkpoint)]
    OBVIOUS
  <2> HIDE DEF new
  <2> QED BY <1>5, <1>6, <2>1, CandidateSavable
<1>7. Unchanged(t) => produced \subseteq produced' /\ produced' \subseteq Actions
  BY <1>1, <1>3 DEF Rooms
<1>8. ~Unchanged(t) => produced' = produced  BY <1>1
<1> HIDE DEF new, i, j
<1> QED BY <1>1, <1>2, <1>5, <1>6, <1>7, <1>8, RowSaved

\* The final step is among the cleared ones when all steps of a route are.
LEMMA FinalIsCleared ==
  ASSUME NEW s, SoundRow(s), s.routed, NEW cleared, \A j \in 3..Len(s.steps) : s.steps[j] \in cleared
  PROVE  "reviewer_final_confirmation" \in cleared
<1> DEFINE n == Len(Workflow)
<1>1. n \in Nat /\ n >= 3 /\ Workflow[n] = "reviewer_final_confirmation"
  BY WorkflowFacts, RouteAssumption DEF RouteOrder
<1>2. s.target \in BOOLEAN /\ s.steps = Route(s.target) /\ Len(s.steps) \in Nat  BY RowFacts
<1>3. PICK i \in n..Len(s.steps) : s.steps[i] = Workflow[n]
  <2>1. n \in 1..n  BY <1>1
  <2> QED BY <1>2, <2>1, RouteFacts
<1>4. i \in 3..Len(s.steps)  BY <1>1, <1>2
<1> QED BY <1>1, <1>3, <1>4

LEMMA SaveDecisionKeeps ==
  ASSUME RouteInv, CInv', NEW t \in Threads, SaveDecision(t)
  PROVE  RouteInv'
<1> DEFINE g == job[t].gate
           a == gates[g].action
           d == job[t].decision
           new == Decided(copy[t], a, d)
<1>1. /\ Save(t, new) /\ pc[t] = "decided" /\ pc[t] \in Saving /\ pc[t] \notin Busy
      /\ gates' = gates /\ data' = data /\ faults' = faults /\ produced' = produced
      /\ overtaken' = overtaken /\ astray' = astray
      /\ waived' = IF Unchanged(t) /\ g \in astray THEN waived \cup PassedOver(copy[t], a, d) ELSE waived
  BY PlacesDiffer DEF SaveDecision
<1>2. /\ g \in DOMAIN gates /\ copy[t].gate = g /\ d \in Decisions
      /\ d = "approve" => gates[g].status = "APPROVED"
  BY <1>1 DEF RouteInv, At, DecisionSound
<1>3. /\ SoundRow(state) /\ produced \subseteq Actions /\ gates \in Seq(GateRows)
      /\ waived \subseteq Actions /\ ApprovalsJustified
  BY DEF RouteInv, Rooms
<1>4. g # 0
  <2>1. DOMAIN gates = 1..Len(gates) /\ Len(gates) \in Nat  BY <1>3, LenProperties
  <2> QED BY <1>2, <2>1
<1>5. ASSUME copy[t] = state
      PROVE  /\ state.routed /\ a \in produced /\ a \in Actions
             /\ g \notin astray => Pending(a, state, Cleared)
             /\ SoundRow(new) /\ new.rev = state.rev /\ new.steps = state.steps /\ new.routed
             /\ new.gate = 0 /\ new.index \in Nat /\ Between(state, new.index) \subseteq Actions
             /\ new.life = "COMPLETED" => state.life = "COMPLETED" \/ new.index > Len(state.steps)
  <2>1. state.gate = g /\ state.gate # 0  BY <1>2, <1>4, <1>5
  <2>2. a \in produced /\ a \in Actions /\ (g \notin astray => Pending(a, state, Cleared))
    BY <1>3, <2>1 DEF RouteInv, ActiveGatePends
  <2>3. state.routed  BY <1>3, <2>1, RowFacts DEF SoundRow
  <2> HIDE DEF a, d, g
  <2> QED BY <1>2, <1>3, <1>5, <2>2, <2>3, DecidedRow
<1>6. HistoryGrows
  <2>1. CASE ~Unchanged(t)  BY <1>1, <2>1, SaveStands
  <2>2. CASE Unchanged(t)
    <3>1. copy[t] = state  BY <2>2 DEF RouteInv, CopiesAgree, Unchanged
    <3>2. PassedOver(copy[t], a, d) \subseteq Actions  BY <1>5, <3>1 DEF PassedOver
    <3> HIDE DEF a, d, g, new
    <3>3. waived \subseteq waived' /\ waived' \subseteq Actions  BY <1>1, <1>3, <3>2
    <3> QED BY <1>1, <3>3, SaveStands
  <2> QED BY <2>1, <2>2
<1>7. ASSUME copy[t] = state PROVE Savable(t, new)
  <2>1. GatesGrow /\ produced \subseteq produced'  BY <1>1 DEF GatesGrow
  <2>2. Cleared \subseteq Cleared' /\ Passed(state, Cleared')  BY <1>6, <2>1, ClearedKept, StateHolds
  <2>3. d = "approve" => a \in Cleared'
    BY <1>1, <1>2, <1>5, <1>7 DEF Cleared, ApprovedGate
  <2>4. Between(state, new.index) \subseteq Cleared'
    <3>1. CASE g \notin astray
      <4>1. Pending(a, state, Cleared')  BY <1>5, <1>7, <2>2, <3>1, ClearedGrows
      <4> HIDE DEF a, d, g
      <4> QED BY <1>2, <1>3, <1>5, <1>7, <2>3, <4>1, PendingDecision
    <3>2. CASE g \in astray
      <4>1. Unchanged(t)  BY <1>7 DEF Unchanged
      <4>2. PassedOver(state, a, d) \subseteq Cleared'  BY <1>1, <1>7, <3>2, <4>1 DEF Cleared
      <4> HIDE DEF a, d, g, new
      <4>3. Between(state, new.index) \ (IF d = "approve" THEN {a} ELSE {}) \subseteq Cleared'
        BY <1>7, <4>2 DEF PassedOver, new
      <4> QED BY <2>3, <4>3
    <3> QED BY <3>1, <3>2
  <2> HIDE DEF new
  <2>5. Passed(new, Cleared')  BY <1>3, <1>5, <1>7, <2>2, <2>4, PassedOn
  <2>6. new.life = "COMPLETED" /\ "reviewer_final_confirmation" \notin waived' => FinalApproved
    <3>1. CASE state.life = "COMPLETED"  BY <1>6, <2>1, <3>1, StateHolds
    <3>2. CASE new.index > Len(state.steps) /\ "reviewer_final_confirmation" \notin waived'
      <4>1. Len(state.steps) \in Nat /\ DOMAIN state.steps = 1..Len(state.steps)  BY <1>3, RowFacts
      <4>2. \A j \in 3..Len(state.steps) : j \in DOMAIN state.steps /\ 3 <= j /\ j < new.index
        BY <1>5, <1>7, <3>2, <4>1
      <4>3. \A j \in 3..Len(new.steps) : new.steps[j] \in Cleared'
        BY <1>5, <1>7, <2>5, <4>2 DEF Passed
      <4>4. SoundRow(new) /\ new.routed  BY <1>5, <1>7
      <4>5. "reviewer_final_confirmation" \in Cleared'  BY <4>3, <4>4, FinalIsCleared
      <4>6. ApprovedGate("reviewer_final_confirmation")
        BY <1>1, <3>2, <4>5 DEF Cleared, Reviewed, HumanGates, ApprovedGate
      <4> QED BY <1>3, <4>6 DEF ApprovedGate, ApprovalsJustified, FinalApproved
    <3> QED BY <1>5, <1>7, <3>1, <3>2
  <2>7. \A u \in Threads : pc[u] \in Busy => u \in overtaken
    <3>1. state.gate # 0  BY <1>2, <1>4, <1>7
    <3> QED BY <3>1 DEF RouteInv, At, WorkPends
  <2> QED BY <1>5, <1>7, <2>5, <2>6, <2>7 DEF Savable
<1> HIDE DEF new, a, d, g
<1> QED BY <1>1, <1>3, <1>6, <1>7, RowSaved

----------------------------------------------------------------------------
(* Steps that leave the state alone.                                        *)

\* A request goes on without touching the rows or its job.
LEMMA RequestKeeps ==
  ASSUME RouteInv, CInv', NEW t \in Threads, NEW l, Goto(t, l), pc[t] \in {"idle", "route"},
         UNCHANGED <<state, gates, produced, faults, job, history>>, data => data', data' \in BOOLEAN,
         l \in {"route", "routing", "targeting", "storing", "noting", "answering"},
         \/ copy' = copy /\ l = "route"
         \/ copy' = [copy EXCEPT ![t] = state] /\ state.rev < MaxRevision,
         l = "noting" => state.notes < MaxNotes
  PROVE  RouteInv'
<1>1. Rooms /\ ApprovalsJustified /\ DOMAIN copy = Threads /\ pc \in [Threads -> Places]
  BY DEF RouteInv, CInv, Shape
<1>2. pc'[t] = l /\ \A u \in Threads \ {t} : pc'[u] = pc[u]  BY <1>1 DEF Goto
<1>3. /\ copy'[t] \in {copy[t], state} /\ \A u \in Threads \ {t} : copy'[u] = copy[u]
      /\ l = "route" \/ (copy'[t] = state /\ state.rev < MaxRevision)
  <2>1. CASE copy' = copy /\ l = "route"  BY <2>1
  <2>2. CASE copy' = [copy EXCEPT ![t] = state] /\ state.rev < MaxRevision  BY <1>1, <2>2
  <2> QED BY <2>1, <2>2
<1>4. l \notin Busy /\ l \notin {"deciding", "decided"} /\ pc[t] \notin Busy  BY PlacesDiffer
<1>5. At(t)'
  <2>1. l \in Saving => l # "route"  BY PlacesDiffer
  <2>2. ReadBounded(t)'  BY <1>2, <1>3, <2>1 DEF ReadBounded
  <2> QED BY <1>2, <1>4, <2>2 DEF At, WorkPends, DecisionSound
<1>6. GatesGrow /\ ApprovalsJustified'  BY <1>1 DEF GatesGrow, ApprovalsJustified
<1>7. HistoryGrows  BY <1>1, <1>2, <1>4, HistoryStands DEF history
<1> QED BY <1>1, <1>2, <1>3, <1>5, <1>6, <1>7, MoveKeeps DEF Rooms

LEMMA ReadingKeeps ==
  ASSUME RouteInv, CInv', NEW t \in Threads,
         \/ AskForRoute(t) \/ ReadForRoute(t) \/ ReadForTarget(t) \/ StorePrimaryData(t)
         \/ RefuseWithoutData(t) \/ ReadForNote(t) \/ ReadForAnswer(t)
  PROVE  RouteInv'
<1>1. data \in BOOLEAN /\ state.notes = notes  BY DEF RouteInv, Rooms, CInv, CopiesCurrent
<1>2. CASE AskForRoute(t)
  BY <1>1, <1>2, RequestKeeps DEF AskForRoute
<1>3. CASE ReadForRoute(t)
  BY <1>1, <1>3, RequestKeeps DEF ReadForRoute, Read
<1>4. CASE ReadForTarget(t)
  BY <1>1, <1>4, RequestKeeps DEF ReadForTarget, Read
<1>5. CASE StorePrimaryData(t)
  BY <1>1, <1>5, RequestKeeps DEF StorePrimaryData, Read
<1>6. CASE RefuseWithoutData(t)
  BY <1>1, <1>6, RequestKeeps DEF RefuseWithoutData, Read
<1>7. CASE ReadForNote(t)
  BY <1>1, <1>7, RequestKeeps DEF ReadForNote, Read
<1>8. CASE ReadForAnswer(t)
  BY <1>1, <1>8, RequestKeeps DEF ReadForAnswer, Read
<1> QED BY <1>2, <1>3, <1>4, <1>5, <1>6, <1>7, <1>8

\* A worker goes on with its job, pending unless it was overtaken, or gives it up.
LEMMA WorkerKeeps ==
  ASSUME RouteInv, CInv', NEW t \in Threads, NEW l, NEW j,
         Goto(t, l), job' = [job EXCEPT ![t] = j],
         UNCHANGED <<state, gates, data, produced, faults, astray, waived>>,
         \/ l = "idle" /\ copy' = copy /\ overtaken' = overtaken \ {t}
         \/ l \in {"chosen", "working"} /\ copy' = copy /\ overtaken' = overtaken
         \/ /\ l = "committing" /\ copy' = [copy EXCEPT ![t] = state] /\ state.rev < MaxRevision
            /\ overtaken' = overtaken,
         l # "idle" => /\ t \in Workers /\ state.routed /\ j.action \in Actions /\ j.mode \in Modes
                       /\ t \notin overtaken => state.gate = 0 /\ Pending(j.action, state, Cleared)
                       /\ j.gate = 0,
         l = "committing" => /\ j.human = NeedsHumanGate(j.action, j.mode)
                             /\ j.checkpoint \in Checkpoints(j.action, j.mode)
  PROVE  RouteInv'
<1>1. /\ Rooms /\ ApprovalsJustified /\ DOMAIN copy = Threads
      /\ copy = [u \in Threads |-> copy[u]] /\ job \in [Threads -> Jobs] /\ pc \in [Threads -> Places]
  BY DEF RouteInv, CInv, Shape
<1>2. /\ pc'[t] = l /\ job'[t] = j
      /\ \A u \in Threads \ {t} : pc'[u] = pc[u] /\ job'[u] = job[u]
  BY <1>1 DEF Goto
<1>3. /\ copy'[t] \in {copy[t], state} /\ \A u \in Threads \ {t} : copy'[u] = copy[u]
      /\ l = "committing" => copy'[t] = state /\ state.rev < MaxRevision
  <2>1. CASE l \in {"idle", "chosen", "working"} /\ copy' = copy  BY <2>1
  <2>2. CASE l = "committing" /\ copy' = [copy EXCEPT ![t] = state] /\ state.rev < MaxRevision
    BY <1>1, <2>2
  <2> QED BY <2>1, <2>2
<1>4. l \in {"idle", "chosen", "working", "committing"}  OBVIOUS
<1>5. At(t)'
  <2>1. ReadBounded(t)'  BY <1>2, <1>3, <1>4, PlacesDiffer DEF ReadBounded
  <2>2. Cleared' = Cleared  BY DEF Cleared, ApprovedGate
  <2>3. l # "idle" => overtaken' = overtaken  BY <1>4
  <2>4. WorkPends(t)'  BY <1>2, <1>4, <2>2, <2>3, PlacesDiffer DEF WorkPends
  <2>5. DecisionSound(t)'  BY <1>2, <1>4, PlacesDiffer DEF DecisionSound
  <2> QED BY <2>1, <2>4, <2>5 DEF At
<1>6. GatesGrow /\ ApprovalsJustified'  BY <1>1 DEF GatesGrow, ApprovalsJustified
<1>7. HistoryGrows
  <2>1. CASE l = "idle" /\ overtaken' = overtaken \ {t}
    BY <1>1, <1>2, <2>1, HistoryStands, PlacesDiffer
  <2>2. CASE l # "idle" /\ overtaken' = overtaken
    BY <1>1, <1>2, <1>4, <2>2, HistoryStands, PlacesDiffer
  <2> QED BY <1>4, <2>1, <2>2
<1> QED BY <1>1, <1>2, <1>3, <1>5, <1>6, <1>7, MoveKeeps DEF Rooms

LEMMA WorkingKeeps ==
  ASSUME RouteInv, CInv', NEW t \in Threads,
         (\E m \in Modes : Continue(t, m)) \/ Enqueue(t) \/ BeginCommit(t) \/ AbandonAction(t)
  PROVE  RouteInv'
<1>1. /\ job \in [Threads -> Jobs]
      /\ SoundRow(state) /\ Passed(state, Cleared) /\ WorkPends(t)
  BY DEF RouteInv, Rooms, CInv, Shape, At
<1>2. ASSUME NEW m \in Modes, Continue(t, m)  PROVE RouteInv'
  <2> DEFINE j == [NoJob EXCEPT !.action = state.steps[state.index], !.mode = m]
  <2>1. j.action = state.steps[state.index] /\ j.mode = m /\ j.gate = 0  BY DEF NoJob
  <2>2. Pending(state.steps[state.index], state, Cleared) /\ state.steps[state.index] \in Actions
    <3>1. /\ state.routed /\ state.index \in DOMAIN state.steps
          /\ state.index \in Nat /\ state.index >= 3 /\ Len(state.steps) \in Nat
          /\ DOMAIN state.steps = 1..Len(state.steps) /\ state.steps \in Seq(Actions)
      BY <1>1, <1>2, RowFacts DEF Continue
    <3>2. state.index \in 3..Len(state.steps) /\ state.index <= state.index  BY <3>1
    <3>3. \A i \in 3..(state.index - 1) : i \in DOMAIN state.steps /\ 3 <= i /\ i < state.index
      BY <3>1, <3>2
    <3>4. state.steps[state.index] \in Actions  BY <3>1, ElementOfSeq
    <3> QED BY <1>1, <3>1, <3>2, <3>3, <3>4 DEF Pending, Passed
  <2>3. /\ t \in Workers /\ state.gate = 0 /\ state.routed
        /\ job' = [job EXCEPT ![t] = j] /\ Goto(t, "chosen")
        /\ UNCHANGED <<state, gates, data, produced, faults, copy, overtaken, astray, waived>>
    BY <1>2 DEF Continue, history
  <2> HIDE DEF j
  <2> QED BY <1>1, <2>1, <2>2, <2>3, WorkerKeeps
<1>3. CASE Enqueue(t)
  <2> DEFINE j == [job[t] EXCEPT !.expected = state.rev]
  <2>1. /\ pc[t] = "chosen" /\ job' = [job EXCEPT ![t] = j] /\ Goto(t, "working")
        /\ UNCHANGED <<state, gates, data, produced, faults, copy, overtaken, astray, waived>>
    BY <1>3 DEF Enqueue, history
  <2>2. /\ t \in Workers /\ state.routed /\ job[t].gate = 0
        /\ job[t].action \in Actions /\ job[t].mode \in Modes
        /\ t \notin overtaken => state.gate = 0 /\ Pending(job[t].action, state, Cleared)
    BY <1>1, <2>1 DEF WorkPends, Busy
  <2>3. j.action = job[t].action /\ j.gate = job[t].gate /\ j.mode = job[t].mode
    BY <1>1 DEF Jobs
  <2> HIDE DEF j
  <2> QED BY <1>1, <2>1, <2>2, <2>3, WorkerKeeps
<1>4. CASE BeginCommit(t)
  <2>1. CASE state.rev # job[t].expected
    <3>1. /\ Goto(t, "idle") /\ job' = [job EXCEPT ![t] = NoJob] /\ overtaken' = overtaken \ {t}
          /\ UNCHANGED <<state, gates, data, produced, faults, copy, astray, waived>>
      BY <1>4, <2>1 DEF BeginCommit
    <3> QED BY <1>1, <3>1, WorkerKeeps
  <2>2. CASE state.rev = job[t].expected
    <3>1. PICK c \in Checkpoints(job[t].action, job[t].mode), valid \in BOOLEAN :
            job' = [job EXCEPT ![t] = [job[t] EXCEPT
              !.human = NeedsHumanGate(job[t].action, job[t].mode), !.checkpoint = c, !.valid = valid]]
      BY <1>4, <2>2 DEF BeginCommit
    <3> DEFINE j == [job[t] EXCEPT !.human = NeedsHumanGate(job[t].action, job[t].mode),
                                   !.checkpoint = c, !.valid = valid]
    <3>2. /\ pc[t] = "working" /\ job' = [job EXCEPT ![t] = j] /\ Goto(t, "committing")
          /\ copy' = [copy EXCEPT ![t] = state] /\ state.rev < MaxRevision
          /\ UNCHANGED <<state, gates, data, produced, faults, overtaken, astray, waived>>
      BY <1>4, <2>2, <3>1 DEF BeginCommit, Read
    <3>3. /\ t \in Workers /\ state.routed /\ job[t].gate = 0
          /\ job[t].action \in Actions /\ job[t].mode \in Modes
          /\ t \notin overtaken => state.gate = 0 /\ Pending(job[t].action, state, Cleared)
      BY <1>1, <3>2 DEF WorkPends, Busy
    <3>4. /\ j.action = job[t].action /\ j.gate = job[t].gate /\ j.mode = job[t].mode
          /\ j.human = NeedsHumanGate(job[t].action, job[t].mode) /\ j.checkpoint = c
      BY <1>1 DEF Jobs
    <3> HIDE DEF j
    <3> QED BY ZenonT(60), <1>1, <3>1, <3>2, <3>3, <3>4, WorkerKeeps
  <2> QED BY <2>1, <2>2
<1>5. CASE AbandonAction(t)
  BY <1>1, <1>5, WorkerKeeps DEF AbandonAction
<1> QED BY <1>2, <1>3, <1>4, <1>5

----------------------------------------------------------------------------
(* Steps that write a Gate, and restarts.                                   *)

LEMMA GatePutKeeps ==
  ASSUME RouteInv, CInv', NEW t \in Threads, PutGate(t)
  PROVE  RouteInv'
<1> DEFINE a == job[t].action
           row == [action |-> a, status |-> "PENDING", valid |-> job[t].valid, independent |-> FALSE]
           g == Len(gates) + 1
           j == [job[t] EXCEPT !.gate = g]
<1>1. /\ Rooms /\ ApprovalsJustified /\ DOMAIN copy = Threads /\ pc \in [Threads -> Places]
      /\ job \in [Threads -> Jobs] /\ WorkPends(t) /\ ReadBounded(t)
  BY DEF RouteInv, CInv, Shape, At
<1>2. /\ pc[t] = "committing" /\ job[t].human /\ Len(gates) < MaxGates
      /\ gates' = Append(gates, row) /\ job' = [job EXCEPT ![t] = j] /\ Goto(t, "gated")
      /\ UNCHANGED <<state, data, produced, notes, copy, faults, overtaken, astray, waived>>
  BY DEF PutGate, history
<1>3. /\ t \in Workers /\ state.routed /\ a \in Actions /\ job[t].mode \in Modes
      /\ t \notin overtaken => state.gate = 0 /\ Pending(a, state, Cleared)
      /\ job[t].human = NeedsHumanGate(a, job[t].mode)
      /\ job[t].checkpoint \in Checkpoints(a, job[t].mode)
  BY <1>1, <1>2 DEF WorkPends, Busy
<1>4. row \in GateRows /\ row.action = a /\ row.status = "PENDING"
  <2>1. job[t].valid \in BOOLEAN  BY <1>1 DEF Jobs
  <2> QED BY <1>3, <2>1 DEF GateRows
<1> HIDE DEF row
<1>5. /\ gates' \in Seq(GateRows) /\ Len(gates') = g /\ Len(gates) \in Nat
      /\ DOMAIN gates = 1..Len(gates) /\ DOMAIN gates' = 1..g
      /\ \A x \in 1..Len(gates) : gates'[x] = gates[x]
      /\ gates'[g] = row
  BY <1>1, <1>2, <1>4, AppendProperties, LenProperties DEF Rooms
<1>6. Len(gates') <= MaxGates  BY <1>2, <1>5, BoundsAssumption
<1>7. GatesGrow /\ DOMAIN gates \subseteq DOMAIN gates'  BY <1>5 DEF GatesGrow
<1>8. ApprovalsJustified'
  <2>1. \A x \in DOMAIN gates' : gates'[x].status = "APPROVED" => x \in DOMAIN gates /\ gates'[x] = gates[x]
    BY <1>4, <1>5
  <2> QED BY <1>1, <1>2, <2>1 DEF ApprovalsJustified
<1>9. /\ pc'[t] = "gated" /\ job'[t] = j
      /\ \A u \in Threads \ {t} : pc'[u] = pc[u] /\ job'[u] = job[u] /\ copy'[u] = copy[u]
  BY <1>1, <1>2 DEF Goto
<1>10. /\ j.action = a /\ j.mode = job[t].mode /\ j.human = job[t].human
       /\ j.checkpoint = job[t].checkpoint /\ j.gate = g
  BY <1>1 DEF Jobs
<1> HIDE DEF j
<1>11. HistoryGrows  BY <1>1, <1>2, <1>7, <1>9, HistoryStands, PlacesDiffer
<1>12. At(t)'
  <2>1. ReadBounded(t)'
    BY <1>1, <1>2, <1>9 DEF ReadBounded, Saving, Locked
  <2>2. t \notin overtaken => Pending(a, state, Cleared')
    <3>1. Cleared \subseteq Cleared'  BY <1>2, <1>7, <1>11, ClearedKept
    <3> QED BY <1>3, <3>1, ClearedGrows
  <2>3. g \in DOMAIN gates' /\ gates'[g].action = a  BY <1>4, <1>5
  <2> HIDE DEF a, g
  <2>4. WorkPends(t)'
    BY <1>2, <1>3, <1>9, <1>10, <2>2, <2>3 DEF WorkPends
  <2>5. DecisionSound(t)'  BY <1>9 DEF DecisionSound
  <2> QED BY <2>1, <2>4, <2>5 DEF At
<1> QED BY <1>1, <1>2, <1>5, <1>6, <1>7, <1>8, <1>9, <1>11, <1>12, MoveKeeps DEF Rooms

LEMMA DecidingKeeps ==
  ASSUME RouteInv, CInv', NEW t \in Threads, NEW g \in DOMAIN gates,
         BeginDecide(t, g) \/ BeginMigrate(t, g)
  PROVE  RouteInv'
<1>1. /\ Rooms /\ ApprovalsJustified /\ DOMAIN copy = Threads /\ pc \in [Threads -> Places]
      /\ job \in [Threads -> Jobs] /\ copy = [u \in Threads |-> copy[u]]
  BY DEF RouteInv, CInv, Shape
<1>2. PICK d \in Decisions, independent \in BOOLEAN :
        /\ d = "approve" => MayApprove(g, independent)
        /\ job' = [job EXCEPT ![t] = [NoJob EXCEPT !.gate = g, !.decision = d,
                                                  !.independent = independent]]
  <2>1. CASE BeginDecide(t, g)  BY <2>1 DEF BeginDecide
  <2>2. CASE BeginMigrate(t, g)  BY <2>2 DEF BeginMigrate, Decisions
  <2> QED BY <2>1, <2>2
<1>3. /\ state.gate = g /\ Goto(t, "deciding") /\ copy' = [copy EXCEPT ![t] = state]
      /\ pc[t] = "idle" /\ state.rev < MaxRevision
      /\ UNCHANGED <<state, gates, data, produced, notes, faults, overtaken, astray, waived>>
  BY DEF BeginDecide, BeginMigrate, Decidable, Read, history
<1> DEFINE j == [NoJob EXCEPT !.gate = g, !.decision = d, !.independent = independent]
<1>4. job' = [job EXCEPT ![t] = j]  BY <1>2
<1>5. j.gate = g /\ j.decision = d /\ j.independent = independent  BY DEF NoJob
<1> HIDE DEF j
<1>6. /\ pc'[t] = "deciding" /\ job'[t] = j /\ copy'[t] = state
      /\ \A u \in Threads \ {t} : pc'[u] = pc[u] /\ job'[u] = job[u] /\ copy'[u] = copy[u]
  BY <1>1, <1>3, <1>4 DEF Goto
<1>7. GatesGrow /\ ApprovalsJustified'  BY <1>1, <1>3 DEF GatesGrow, ApprovalsJustified
<1>8. HistoryGrows  BY <1>1, <1>3, <1>6, HistoryStands, PlacesDiffer
<1>9. At(t)'
  <2>1. ReadBounded(t)'  BY <1>3, <1>6 DEF ReadBounded
  <2>2. WorkPends(t)'  BY <1>6, PlacesDiffer DEF WorkPends
  <2>3. d = "approve" => MayApprove(g, independent)'  BY <1>2, <1>3 DEF MayApprove
  <2>4. DecisionSound(t)'  BY <1>2, <1>3, <1>5, <1>6, <2>3 DEF DecisionSound
  <2> QED BY <2>1, <2>2, <2>4 DEF At
<1> QED BY <1>1, <1>3, <1>6, <1>7, <1>8, <1>9, MoveKeeps DEF Rooms

LEMMA DecisionPutKeeps ==
  ASSUME RouteInv, CInv', NEW t \in Threads, PutDecision(t)
  PROVE  RouteInv'
<1> DEFINE k == job[t].gate
           row == [gates[k] EXCEPT
                     !.status = IF job[t].decision = "approve" THEN "APPROVED" ELSE "REJECTED",
                     !.independent = job[t].independent]
<1>1. /\ Rooms /\ ApprovalsJustified /\ DOMAIN copy = Threads /\ pc \in [Threads -> Places]
      /\ job \in [Threads -> Jobs] /\ DecisionSound(t) /\ ReadBounded(t) /\ DecidesPending
  BY DEF RouteInv, CInv, Shape, At
<1>2. /\ pc[t] = "deciding" /\ Goto(t, "decided") /\ gates' = [gates EXCEPT ![k] = row]
      /\ UNCHANGED <<state, data, produced, notes, copy, job, faults, overtaken, astray, waived>>
  BY DEF PutDecision, history
<1>3. /\ k \in DOMAIN gates /\ copy[t].gate = k /\ job[t].decision \in Decisions
      /\ job[t].decision = "approve" => MayApprove(k, job[t].independent)
      /\ gates[k].status = "PENDING" /\ gates \in Seq(GateRows)
  BY <1>1, <1>2 DEF DecisionSound, DecidesPending, Rooms
<1>4. /\ gates[k] \in GateRows /\ k \in 1..Len(gates)
      /\ job[t].independent \in BOOLEAN
  BY <1>1, <1>3, ElementOfSeq, LenProperties DEF Jobs
<1>5. /\ row \in GateRows /\ row.action = gates[k].action /\ row.valid = gates[k].valid
      /\ row.independent = job[t].independent
      /\ row.status = IF job[t].decision = "approve" THEN "APPROVED" ELSE "REJECTED"
  BY <1>4 DEF GateRows
<1> HIDE DEF row
<1>6. /\ gates' \in Seq(GateRows) /\ DOMAIN gates' = DOMAIN gates /\ Len(gates') = Len(gates)
      /\ \A x \in DOMAIN gates : gates'[x] = IF x = k THEN row ELSE gates[x]
  BY <1>2, <1>3, <1>4, <1>5, ExceptSeq
<1>7. GatesGrow  BY <1>3, <1>5, <1>6 DEF GatesGrow
<1>8. ApprovalsJustified'
  <2>1. row.status = "APPROVED" =>
          /\ row.action = "raw_data_import" => data
          /\ row.action = "reviewer_final_confirmation" => row.independent
    BY <1>3, <1>5 DEF MayApprove
  <2> SUFFICES ASSUME NEW x \in DOMAIN gates, gates'[x].status = "APPROVED"
               PROVE  /\ gates'[x].action = "raw_data_import" => data
                      /\ gates'[x].action = "reviewer_final_confirmation" => gates'[x].independent
    BY <1>2, <1>6 DEF ApprovalsJustified
  <2>2. CASE x = k
    <3>1. gates'[x] = row  BY <1>6, <2>2
    <3> QED BY <2>1, <3>1
  <2>3. CASE x # k
    <3>1. gates'[x] = gates[x]  BY <1>6, <2>3
    <3> QED BY <1>1, <3>1 DEF ApprovalsJustified
  <2> QED BY <2>2, <2>3
<1>9. pc'[t] = "decided" /\ \A u \in Threads \ {t} : pc'[u] = pc[u]
  BY <1>1, <1>2 DEF Goto
<1>10. HistoryGrows  BY <1>1, <1>2, <1>6, <1>9, HistoryStands, PlacesDiffer
<1>11. At(t)'
  <2>1. ReadBounded(t)'  BY <1>1, <1>2, <1>9 DEF ReadBounded, Saving, Locked
  <2>2. WorkPends(t)'  BY <1>9, PlacesDiffer DEF WorkPends
  <2>3. DecisionSound(t)'  BY <1>2, <1>3, <1>5, <1>6, <1>9 DEF DecisionSound
  <2> QED BY <2>1, <2>2, <2>3 DEF At
<1> QED BY <1>1, <1>2, <1>6, <1>7, <1>8, <1>9, <1>10, <1>11, MoveKeeps DEF Rooms

\* After a restart no thread is about anything.
LEMMA RestartKeeps ==
  ASSUME RouteInv, CInv', Crash
  PROVE  RouteInv'
<1>1. /\ CopiesAgree /\ Rooms /\ ActiveGatePends /\ ApprovalsJustified
      /\ Passed(state, Cleared) /\ CompletedWasReviewed
  BY DEF RouteInv
<1>2. /\ UNCHANGED <<state, gates, data, produced, notes, astray, waived>> /\ overtaken' = {}
      /\ \A t \in Threads : pc'[t] = "idle" /\ copy'[t] = Created
      /\ faults' \in 0..MaxFaults
  <2>1. faults' \in 0..MaxFaults  BY <1>1, BoundsAssumption DEF Crash, Rooms
  <2> QED BY <2>1 DEF Crash
<1>3. Cleared' = Cleared  BY <1>2 DEF Cleared, ApprovedGate
<1>4. CopiesAgree'  BY <1>1, <1>2, CreatedCounted DEF CopiesAgree
<1>5. Rooms'  BY <1>1, <1>2, CreatedIsSound DEF Rooms
<1>6. \A t \in Threads : At(t)'
  BY <1>2, PlacesDiffer DEF At, ReadBounded, WorkPends, DecisionSound
<1>7. ActiveGatePends'  BY <1>1, <1>2, <1>3 DEF ActiveGatePends
<1>8. ApprovalsJustified' /\ CompletedWasReviewed'
  BY <1>1, <1>2 DEF ApprovalsJustified, CompletedWasReviewed
<1>9. Passed(state, Cleared)'  BY <1>1, <1>2, <1>3
<1> QED BY <1>4, <1>5, <1>6, <1>7, <1>8, <1>9 DEF RouteInv


----------------------------------------------------------------------------
(* Theorems.                                                                *)

LEMMA CreatedIsInv == Init => RouteInv
<1> SUFFICES ASSUME Init PROVE RouteInv  OBVIOUS
<1>1. CInv  BY InitEstablishes
<1>2. /\ state = Created /\ gates = <<>> /\ data = FALSE /\ produced = {} /\ faults = 0
      /\ overtaken = {} /\ astray = {} /\ waived = {}
      /\ \A t \in Threads : pc[t] = "idle" /\ copy[t] = Created
  BY DEF Init
<1>3. CopiesAgree  BY <1>2 DEF CopiesAgree
<1>4. Rooms
  <2>1. gates \in Seq(GateRows) /\ Len(gates) = 0  BY <1>2, EmptySeq
  <2>2. Len(gates) <= MaxGates /\ faults \in 0..MaxFaults  BY <1>2, <2>1, BoundsAssumption
  <2>3. SoundRow(state) /\ \A t \in Threads : SoundRow(copy[t])  BY <1>2, CreatedIsSound
  <2>4. data \in BOOLEAN /\ produced \subseteq Actions  BY <1>2
  <2> QED BY <1>2, <2>1, <2>2, <2>3, <2>4 DEF Rooms
<1>5. \A t \in Threads : At(t)
  BY <1>2, PlacesDiffer DEF At, ReadBounded, WorkPends, DecisionSound
<1>6. ActiveGatePends /\ CompletedWasReviewed
  BY <1>2 DEF ActiveGatePends, CompletedWasReviewed, Created
<1>7. ApprovalsJustified
  <2>1. DOMAIN gates = {}  BY <1>2, EmptySeq
  <2> QED BY <2>1 DEF ApprovalsJustified
<1>8. Passed(state, Cleared)  BY <1>2 DEF Passed, Created
<1> QED BY <1>1, <1>3, <1>4, <1>5, <1>6, <1>7, <1>8 DEF RouteInv

LEMMA RouteStepsKeep ==
  ASSUME RouteInv, [Next]_vars
  PROVE  RouteInv'
<1>1. CInv'  BY StepsKeep DEF RouteInv
<1>2. CASE UNCHANGED vars
  <2>1. UNCHANGED <<state, gates, data, produced, notes, pc, copy, job, faults,
                    overtaken, astray, waived>>
    BY <1>2 DEF vars, history
  <2>2. Cleared' = Cleared  BY <2>1 DEF Cleared, ApprovedGate
  <2>3. CopiesAgree' /\ Rooms' /\ CompletedWasReviewed'
    BY <2>1 DEF RouteInv, CopiesAgree, Rooms, CompletedWasReviewed
  <2>4. \A t \in Threads : At(t)'
    BY <2>1, <2>2 DEF RouteInv, At, ReadBounded, WorkPends, DecisionSound, MayApprove
  <2>5. ActiveGatePends' /\ ApprovalsJustified'
    BY <2>1, <2>2 DEF RouteInv, ActiveGatePends, ApprovalsJustified
  <2>6. Passed(state, Cleared)'  BY <2>1, <2>2 DEF RouteInv
  <2> QED BY <1>1, <2>3, <2>4, <2>5, <2>6 DEF RouteInv
<1>3. CASE Crash  BY <1>1, <1>3, RestartKeeps
<1>4. ASSUME NEW t \in Threads, Talk(t)  PROVE RouteInv'
  BY <1>1, <1>4, ReadingKeeps, ChooseRouteKeeps, SetTargetKeeps, StatusKeeps DEF Talk
<1>5. ASSUME NEW t \in Threads, Work(t)  PROVE RouteInv'
  BY <1>1, <1>5, WorkingKeeps, GatePutKeeps, CompleteKeeps DEF Work
<1>6. ASSUME NEW t \in Threads, Decide(t)  PROVE RouteInv'
  BY <1>1, <1>6, DecidingKeeps, DecisionPutKeeps, SaveDecisionKeeps DEF Decide
<1> QED BY <1>2, <1>3, <1>4, <1>5, <1>6 DEF Next

\* The invariant that the following theorems rest on, whatever threads continue
\* the project and in whatever mode, and whenever its target is set.
THEOREM RouteInvariance == Spec => []RouteInv
<1>1. Init => RouteInv  BY CreatedIsInv
<1>2. RouteInv /\ [Next]_vars => RouteInv'  BY RouteStepsKeep
<1> QED BY <1>1, <1>2, PTL DEF Spec

\* The rows hold what their columns may hold; the active Gate of the state
\* exists, and so does the current step of a project that is not at its end.
THEOREM Typed == Spec => []TypeOK
<1>1. RouteInv => TypeOK
  <2> SUFFICES ASSUME RouteInv PROVE TypeOK  OBVIOUS
  <2>1. /\ SoundRow(state) /\ \A t \in Threads : SoundRow(copy[t])
        /\ gates \in Seq(GateRows) /\ Len(gates) <= MaxGates
        /\ data \in BOOLEAN /\ produced \subseteq Actions /\ faults \in 0..MaxFaults
        /\ waived \subseteq Actions /\ astray \subseteq DOMAIN gates
        /\ overtaken \subseteq {t \in Threads : pc[t] \in Busy}
        /\ state.notes = notes /\ \A t \in Threads : copy[t].rev <= state.rev
    BY DEF RouteInv, Rooms, CInv, CopiesCurrent
  <2>2. \A g \in DOMAIN gates : gates[g] \in GateRows  BY <2>1, ElementOfSeq, LenProperties
  <2>3. state.gate <= Len(gates)
    <3>1. DOMAIN gates = 1..Len(gates) /\ Len(gates) \in Nat  BY <2>1, LenProperties
    <3> QED BY <3>1 DEF RouteInv, ActiveGatePends
  <2>4. notes \in 0..MaxNotes  BY <2>1, RowFacts
  <2> QED BY <2>1, <2>2, <2>3, <2>4 DEF TypeOK, SoundRow
<1> QED BY <1>1, RouteInvariance, PTL

\* Every step between the intake and the current one has had a candidate, or
\* is on record as jumped, whatever was refused, revised, re-routed, retargeted
\* or lost to a restart and however many threads continue the project.
THEOREM NoStepSkipped == Spec => []StepsHaveCandidates
<1>1. RouteInv => StepsHaveCandidates
  BY DEF RouteInv, Passed, Cleared, StepsHaveCandidates, Behind
<1> QED BY <1>1, RouteInvariance, PTL

\* No checkpoint, stale save, revision, migration or late target takes the
\* study beyond a human decision without an approved Gate.
THEOREM HumansDecide == Spec => []HumanGatesPassed
<1>1. RouteInv => HumanGatesPassed
  BY DEF RouteInv, Passed, Cleared, Reviewed, HumanGatesPassed, Behind
<1> QED BY <1>1, RouteInvariance, PTL

\* What is complete was approved by an independent reviewer, unless the final
\* Gate is on record as jumped.
THEOREM CompleteIsReviewed == Spec => []CompletedWasReviewed
<1>1. RouteInv => CompletedWasReviewed  BY DEF RouteInv
<1> QED BY <1>1, RouteInvariance, PTL

\* No study is beyond its data import without registered primary data, unless
\* the import is on record as jumped.
THEOREM DataComesFirst == Spec => []DataBeforeAnalysis
<1>1. RouteInv => DataBeforeAnalysis
  <2>1. "raw_data_import" \in Reviewed  BY DEF Reviewed, HumanGates
  <2> QED BY <2>1
       DEF RouteInv, Passed, Cleared, ApprovedGate, ApprovalsJustified, DataBeforeAnalysis, Behind
<1> QED BY <1>1, RouteInvariance, PTL

\* The step that the active Gate reviews is never behind the current one,
\* unless the Gate is on record as astray.
THEOREM GateIsAhead == Spec => []ActiveGateIsAhead
<1>1. RouteInv => ActiveGateIsAhead
  <2> SUFFICES ASSUME RouteInv, state.gate # 0, state.gate \notin astray
               PROVE  \E i \in state.index..Len(state.steps) : state.steps[i] = gates[state.gate].action
    BY DEF ActiveGateIsAhead
  <2>1. state.index \in Nat /\ Len(state.steps) \in Nat  BY RowFacts DEF RouteInv, Rooms
  <2>2. PICK k \in 3..Len(state.steps) :
          state.index <= k /\ state.steps[k] = gates[state.gate].action
    BY DEF RouteInv, ActiveGatePends, Pending
  <2>3. k \in state.index..Len(state.steps)  BY <2>1, <2>2
  <2> QED BY <2>2, <2>3
<1> QED BY <1>1, RouteInvariance, PTL

----------------------------------------------------------------------------
(* Open checkpoints of the conversation.                                    *)

\* A thread that works while a checkpoint is open belongs to the continue
\* endpoint or was overtaken; one that answers has read an open one.
Quiet(t) ==
  /\ pc[t] \in Busy /\ state.checkpoint # None => job[t].mode = "api" \/ t \in overtaken
  /\ pc[t] = "answering" => copy[t].checkpoint # None

\* The Gate whose revision closes a checkpoint is never active beside an open one.
Undisturbed ==
  /\ \A t \in Threads : Quiet(t)
  /\ state.gate # 0 /\ gates[state.gate].action = "manuscript_citation_verification"
       => state.checkpoint = None

\* Who closes an open checkpoint in a step.
Closes(t) ==
  \/ pc[t] = "answering" /\ copy[t].checkpoint = state.checkpoint
  \/ /\ pc[t] \in {"committing", "gated"} /\ pc'[t] = "idle"
     /\ job[t].mode = "api" \/ t \in overtaken

\* What CheckpointIsAnswered says of a step.
ClosedByAnswer ==
  state.checkpoint # None /\ state'.checkpoint # state.checkpoint => \E t \in Threads : Closes(t)

LEMMA MoveIsQuiet ==
  ASSUME Undisturbed, NEW t \in Threads, state' = state, Quiet(t)', overtaken \ {t} \subseteq overtaken',
         \A u \in Threads \ {t} : pc'[u] = pc[u] /\ copy'[u] = copy[u] /\ job'[u] = job[u],
         state.gate # 0 => gates'[state.gate].action = gates[state.gate].action
  PROVE  Undisturbed' /\ ClosedByAnswer
<1>1. ASSUME NEW u \in Threads PROVE Quiet(u)'
  <2>1. CASE u = t  BY <2>1
  <2>2. CASE u # t
    <3>1. /\ pc'[u] = pc[u] /\ copy'[u] = copy[u] /\ job'[u] = job[u]
          /\ u \in overtaken => u \in overtaken'
      BY <2>2
    <3> QED BY <3>1 DEF Undisturbed, Quiet
  <2> QED BY <2>1, <2>2
<1> QED BY <1>1 DEF Undisturbed, ClosedByAnswer

\* A save that succeeds opens no checkpoint unless it overtakes the threads at
\* work, and closes one only if it may.
LEMMA SaveIsQuiet ==
  ASSUME RouteInv, Undisturbed, NEW t \in Threads, NEW new, Save(t, new), gates' = gates,
         {"gate", "checkpoint"} \subseteq DOMAIN new, overtaken \ {t} \subseteq overtaken',
         copy[t] = state /\ Unchanged(t) =>
           /\ new.gate # 0 /\ gates[new.gate].action = "manuscript_citation_verification"
                => new.checkpoint = None
           /\ \/ new.checkpoint \in {None, state.checkpoint}
              \/ \A u \in Threads \ {t} : pc[u] \in Busy => u \in overtaken'
           /\ state.checkpoint # None /\ new.checkpoint # state.checkpoint => Closes(t)
  PROVE  Undisturbed' /\ ClosedByAnswer
<1>1. copy = [u \in Threads |-> copy[u]] /\ pc \in [Threads -> Places] /\ job \in [Threads -> Jobs]
  BY DEF RouteInv, CInv, Shape
<1>2. /\ pc'[t] = "idle"
      /\ \A u \in Threads \ {t} : pc'[u] = pc[u] /\ copy'[u] = copy[u] /\ job'[u] = job[u]
  BY <1>1 DEF Save, Goto
<1>3. Quiet(t)'  BY <1>2, PlacesDiffer DEF Quiet
<1>4. CASE ~Unchanged(t)
  <2>1. state' = state  BY <1>4 DEF Save
  <2> QED BY <1>2, <1>3, <2>1, MoveIsQuiet
<1>5. CASE Unchanged(t)
  <2>1. copy[t] = state  BY <1>5 DEF RouteInv, CopiesAgree, Unchanged
  <2>2. state'.gate = new.gate /\ state'.checkpoint = new.checkpoint  BY <1>5 DEF Save
  <2>3. ASSUME NEW u \in Threads \ {t} PROVE Quiet(u)'
    <3>1. /\ pc'[u] = pc[u] /\ copy'[u] = copy[u] /\ job'[u] = job[u] /\ Quiet(u)
          /\ u \in overtaken => u \in overtaken'
      BY <1>2 DEF Undisturbed
    <3>2. CASE new.checkpoint \in {None, state.checkpoint}  BY <2>2, <3>1, <3>2 DEF Quiet
    <3>3. CASE pc[u] \in Busy => u \in overtaken'  BY <3>1, <3>3 DEF Quiet
    <3> QED BY <1>5, <2>1, <3>2, <3>3
  <2>4. Undisturbed'  BY <1>3, <1>5, <2>1, <2>2, <2>3 DEF Undisturbed
  <2>5. ClosedByAnswer  BY <1>5, <2>1, <2>2 DEF ClosedByAnswer
  <2> QED BY <2>4, <2>5
<1> QED BY <1>4, <1>5

LEMMA SavesAreQuiet ==
  ASSUME RouteInv, Undisturbed, NEW t \in Threads,
         \/ ChooseRoute(t) \/ SetPublicationTarget(t) \/ SaveDataStatus(t) \/ TakeNote(t)
         \/ AnswerCheckpoint(t) \/ SaveDecision(t)
  PROVE  Undisturbed' /\ ClosedByAnswer
<1>1. /\ copy[t] \in States /\ SoundRow(state)
      /\ state.gate # 0 /\ gates[state.gate].action = "manuscript_citation_verification"
           => state.checkpoint = None
  BY DEF RouteInv, Rooms, SoundRow, Undisturbed
<1>2. gates' = gates /\ overtaken' = overtaken
  BY DEF ChooseRoute, SetPublicationTarget, SaveDataStatus, TakeNote, AnswerCheckpoint,
         SaveDecision, history
<1>3. ASSUME NEW new, Save(t, new), {"gate", "checkpoint"} \subseteq DOMAIN new,
             new.gate \in {0, copy[t].gate}, new.checkpoint = copy[t].checkpoint
      PROVE  Undisturbed' /\ ClosedByAnswer
  <2>1. copy[t] = state =>
          /\ new.gate # 0 /\ gates[new.gate].action = "manuscript_citation_verification"
               => new.checkpoint = None
          /\ new.checkpoint = state.checkpoint
    BY <1>1, <1>3
  <2> QED BY <1>2, <1>3, <2>1, SaveIsQuiet
<1>4. CASE ChooseRoute(t)
  <2> DEFINE new == Rerouted(copy[t])
  <2>1. Save(t, new)  BY <1>4 DEF ChooseRoute, Rerouted
  <2>2. {"gate", "checkpoint"} \subseteq DOMAIN new /\ new.gate = 0 /\ new.checkpoint = copy[t].checkpoint
    BY <1>1 DEF Rerouted, States
  <2> HIDE DEF new
  <2> QED BY <1>3, <2>1, <2>2
<1>5. CASE SetPublicationTarget(t)
  <2> DEFINE new == Retargeted(copy[t])
  <2>1. Save(t, new)  BY <1>5 DEF SetPublicationTarget, Retargeted
  <2>2. /\ {"gate", "checkpoint"} \subseteq DOMAIN new
        /\ new.gate = copy[t].gate /\ new.checkpoint = copy[t].checkpoint
    BY <1>1 DEF Retargeted, States
  <2> HIDE DEF new
  <2> QED BY <1>3, <2>1, <2>2
<1>6. CASE SaveDataStatus(t)
  <2>1. {"gate", "checkpoint"} \subseteq DOMAIN copy[t]  BY <1>1 DEF States
  <2> QED BY <1>3, <1>6, <2>1 DEF SaveDataStatus
<1>7. CASE TakeNote(t)
  <2> DEFINE new == [copy[t] EXCEPT !.notes = @ + 1]
  <2>1. Save(t, new)  BY <1>7 DEF TakeNote
  <2>2. /\ {"gate", "checkpoint"} \subseteq DOMAIN new
        /\ new.gate = copy[t].gate /\ new.checkpoint = copy[t].checkpoint
    BY <1>1 DEF States
  <2> HIDE DEF new
  <2> QED BY <1>3, <2>1, <2>2
<1>8. CASE AnswerCheckpoint(t)
  <2>1. PICK c \in AfterAnswer(copy[t].checkpoint) : Save(t, [copy[t] EXCEPT !.checkpoint = c])
    BY <1>8 DEF AnswerCheckpoint
  <2> DEFINE new == [copy[t] EXCEPT !.checkpoint = c]
  <2>2. /\ {"gate", "checkpoint"} \subseteq DOMAIN new
        /\ new.gate = copy[t].gate /\ new.checkpoint = c
    BY <1>1 DEF States
  <2>3. c \in {None, copy[t].checkpoint}  BY DEF AfterAnswer
  <2>4. pc[t] = "answering"  BY <1>8 DEF AnswerCheckpoint
  <2>5. Save(t, new)  BY <2>1
  <2> HIDE DEF new
  <2>6. copy[t] = state =>
          /\ new.gate # 0 /\ gates[new.gate].action = "manuscript_citation_verification"
               => new.checkpoint = None
          /\ new.checkpoint \in {None, state.checkpoint} /\ Closes(t)
    BY <1>1, <2>2, <2>3, <2>4 DEF Closes
  <2> QED BY <1>2, <2>2, <2>5, <2>6, SaveIsQuiet
<1>9. CASE SaveDecision(t)
  <2> DEFINE g == job[t].gate
             a == gates[g].action
             new == Decided(copy[t], a, job[t].decision)
  <2>1. Save(t, new) /\ pc[t] = "decided"  BY <1>9 DEF SaveDecision
  <2>2. g \in DOMAIN gates /\ copy[t].gate = g
    BY <2>1 DEF RouteInv, At, DecisionSound
  <2>3. g # 0
    <3>1. DOMAIN gates = 1..Len(gates) /\ Len(gates) \in Nat  BY LenProperties DEF RouteInv, Rooms
    <3> QED BY <2>2, <3>1
  <2>4. /\ {"gate", "checkpoint"} \subseteq DOMAIN new /\ new.gate = 0
        /\ \/ new.checkpoint = copy[t].checkpoint
           \/ new.checkpoint = None /\ a = "manuscript_citation_verification"
    <3> DEFINE cleared == [copy[t] EXCEPT !.gate = 0]
    <3>1. /\ {"gate", "checkpoint", "index", "life"} \subseteq DOMAIN cleared
          /\ cleared.gate = 0 /\ cleared.checkpoint = copy[t].checkpoint
      BY <1>1 DEF States
    <3>2. \E i, l : \/ new = cleared
                    \/ new = [cleared EXCEPT !.life = l]
                    \/ new = [cleared EXCEPT !.index = i, !.life = l]
                    \/ new = [cleared EXCEPT !.index = i]
                    \/ /\ new = [cleared EXCEPT !.index = i, !.checkpoint = None]
                       /\ a = "manuscript_citation_verification"
      BY DEF Decided
    <3> HIDE DEF new, cleared, a
    <3> QED BY <3>1, <3>2
  <2> HIDE DEF new
  <2>5. copy[t] = state => new.checkpoint = state.checkpoint
    BY <1>1, <2>2, <2>3, <2>4
  <2> QED BY <1>2, <2>1, <2>4, <2>5, SaveIsQuiet
<1> QED BY <1>4, <1>5, <1>6, <1>7, <1>8, <1>9

\* A candidate that is committed overtakes the other threads at work.
LEMMA CandidateIsQuiet ==
  ASSUME RouteInv, Undisturbed, NEW t \in Threads, CompleteAction(t)
  PROVE  Undisturbed' /\ ClosedByAnswer
<1> DEFINE j == job[t]
           i == NextIndex(copy[t], j.human, j.checkpoint)
           new == [copy[t] EXCEPT !.gate = j.gate, !.checkpoint = j.checkpoint, !.index = i]
<1>1. /\ Save(t, new) /\ pc[t] = (IF j.human THEN "gated" ELSE "committing") /\ gates' = gates
      /\ IF Unchanged(t) THEN Record(t, i) ELSE overtaken' = overtaken \ {t}
  BY DEF CompleteAction
<1>2. pc[t] \in Busy /\ pc[t] \in {"committing", "gated"}  BY <1>1, PlacesDiffer
<1>3. /\ pc[t] # "gated" => j.gate = 0
      /\ pc[t] = "gated" => gates[j.gate].action = j.action
      /\ j.checkpoint \in Checkpoints(j.action, j.mode)
  BY <1>2 DEF RouteInv, At, WorkPends
<1>4. j.gate # 0 /\ gates[j.gate].action = "manuscript_citation_verification" => j.checkpoint = None
  <2>1. Checkpoints("manuscript_citation_verification", j.mode) = {None}
    BY DEF Checkpoints, ChatReviewed
  <2> QED BY <1>2, <1>3, <2>1
<1>5. {"gate", "checkpoint"} \subseteq DOMAIN new /\ new.gate = j.gate /\ new.checkpoint = j.checkpoint
  <2>1. copy[t] \in States  BY DEF RouteInv, Rooms, SoundRow
  <2> QED BY <2>1 DEF States
<1> HIDE DEF i
<1>6. /\ overtaken \ {t} \subseteq overtaken'
      /\ Unchanged(t) => \A u \in Threads \ {t} : pc[u] \in Busy => u \in overtaken'
  BY <1>1 DEF Record
<1>7. pc'[t] = "idle"  BY <1>1, SaveMoves
<1>8. state.checkpoint # None => Closes(t)
  BY <1>2, <1>7 DEF Undisturbed, Quiet, Closes
<1> HIDE DEF new, j
<1> QED BY <1>1, <1>4, <1>5, <1>6, <1>8, SaveIsQuiet

\* The rows of orchestration_gates keep their actions.
LEMMA ActiveActionStands ==
  ASSUME RouteInv, NEW t \in Threads, PutGate(t) \/ PutDecision(t), state.gate # 0
  PROVE  gates'[state.gate].action = gates[state.gate].action
<1>1. gates \in Seq(GateRows) /\ state.gate \in DOMAIN gates
  BY DEF RouteInv, Rooms, ActiveGatePends
<1>2. CASE PutGate(t)
  <2>1. PICK row : gates' = Append(gates, row)  BY <1>2 DEF PutGate
  <2>2. gates'[state.gate] = gates[state.gate]  BY <1>1, <2>1
  <2> QED BY <2>2
<1>3. CASE PutDecision(t)
  <2>1. PICK status, independent :
          gates' = [gates EXCEPT ![job[t].gate] = [@ EXCEPT !.status = status, !.independent = independent]]
    BY <1>3 DEF PutDecision
  <2>2. gates[state.gate] \in GateRows  BY <1>1, ElementOfSeq, LenProperties
  <2>3. CASE state.gate = job[t].gate
    <3>1. gates'[state.gate] = [gates[state.gate] EXCEPT !.status = status, !.independent = independent]
      BY <1>1, <2>1, <2>3
    <3> QED BY <2>2, <3>1 DEF GateRows
  <2>4. CASE state.gate # job[t].gate  BY <1>1, <2>1, <2>4
  <2> QED BY <2>3, <2>4
<1> QED BY <1>2, <1>3

\* A step of t that saves nothing and takes it to l.
LEMMA StepIsQuiet ==
  ASSUME RouteInv, Undisturbed, NEW t \in Threads, NEW l, Goto(t, l), state' = state,
         copy' = copy \/ copy' = [copy EXCEPT ![t] = state],
         \A u \in Threads \ {t} : job'[u] = job[u],
         overtaken \ {t} \subseteq overtaken',
         state.gate # 0 => gates'[state.gate].action = gates[state.gate].action,
         l \in Busy /\ state.checkpoint # None => job'[t].mode = "api" \/ t \in overtaken',
         l = "answering" => state.checkpoint # None /\ copy' = [copy EXCEPT ![t] = state]
  PROVE  Undisturbed' /\ ClosedByAnswer
<1>1. copy = [u \in Threads |-> copy[u]] /\ pc \in [Threads -> Places]
  BY DEF RouteInv, CInv, Shape
<1>2. pc'[t] = l /\ \A u \in Threads \ {t} : pc'[u] = pc[u]  BY <1>1 DEF Goto
<1>3. \A u \in Threads \ {t} : copy'[u] = copy[u]  BY <1>1
<1>4. l = "answering" => copy'[t] = state  BY <1>1
<1>5. Quiet(t)'  BY <1>2, <1>4 DEF Quiet
<1> QED BY <1>2, <1>3, <1>5, MoveIsQuiet

LEMMA MovesAreQuiet ==
  ASSUME RouteInv, Undisturbed, NEW t \in Threads,
         \/ AskForRoute(t) \/ ReadForRoute(t) \/ ReadForTarget(t) \/ StorePrimaryData(t)
         \/ RefuseWithoutData(t) \/ ReadForNote(t) \/ ReadForAnswer(t)
         \/ (\E m \in Modes : Continue(t, m)) \/ Enqueue(t) \/ BeginCommit(t) \/ AbandonAction(t)
         \/ PutGate(t) \/ (\E g \in DOMAIN gates : BeginDecide(t, g) \/ BeginMigrate(t, g))
         \/ PutDecision(t)
  PROVE  Undisturbed' /\ ClosedByAnswer
<1>1. /\ job \in [Threads -> Jobs]
      /\ pc[t] \in Busy /\ state.checkpoint # None => job[t].mode = "api" \/ t \in overtaken
  BY DEF RouteInv, CInv, Shape, Undisturbed, Quiet
<1>2. CASE AskForRoute(t)
  BY <1>2, StepIsQuiet, PlacesDiffer DEF AskForRoute, history
<1>3. CASE \/ ReadForRoute(t) \/ ReadForTarget(t) \/ StorePrimaryData(t) \/ RefuseWithoutData(t)
           \/ ReadForNote(t)
  <2>1. PICK l \in {"routing", "targeting", "storing", "noting"} :
          Goto(t, l) /\ copy' = [copy EXCEPT ![t] = state] /\ UNCHANGED <<state, gates, job, overtaken>>
    BY <1>3 DEF ReadForRoute, ReadForTarget, StorePrimaryData, RefuseWithoutData, ReadForNote, Read, history
  <2> QED BY <2>1, StepIsQuiet, PlacesDiffer
<1>4. CASE ReadForAnswer(t)
  BY <1>4, StepIsQuiet, PlacesDiffer DEF ReadForAnswer, Read, history
<1>5. ASSUME NEW m \in Modes, Continue(t, m)  PROVE Undisturbed' /\ ClosedByAnswer
  <2> DEFINE j == [NoJob EXCEPT !.action = state.steps[state.index], !.mode = m]
  <2>1. /\ Goto(t, "chosen") /\ job' = [job EXCEPT ![t] = j] /\ MayContinue(m)
        /\ UNCHANGED <<state, gates, copy, overtaken>>
    BY <1>5 DEF Continue, history
  <2>2. j.mode = m  BY DEF NoJob
  <2> HIDE DEF j
  <2>3. job'[t] = j /\ \A u \in Threads \ {t} : job'[u] = job[u]  BY <1>1, <2>1
  <2>4. state.checkpoint # None => m = "api"  BY <2>1, ModesAssumption DEF MayContinue
  <2> QED BY <2>1, <2>2, <2>3, <2>4, StepIsQuiet
<1>6. CASE Enqueue(t)
  <2>1. /\ pc[t] = "chosen" /\ Goto(t, "working") /\ UNCHANGED <<state, gates, copy, overtaken>>
        /\ job' = [job EXCEPT ![t] = [job[t] EXCEPT !.expected = state.rev]]
    BY <1>6 DEF Enqueue, history
  <2>2. job'[t].mode = job[t].mode /\ \A u \in Threads \ {t} : job'[u] = job[u]
    BY <1>1, <2>1 DEF Jobs
  <2> QED BY <1>1, <2>1, <2>2, StepIsQuiet, PlacesDiffer
<1>7. CASE BeginCommit(t)
  <2>1. CASE state.rev # job[t].expected
    <3>1. /\ Goto(t, "idle") /\ job' = [job EXCEPT ![t] = NoJob] /\ overtaken' = overtaken \ {t}
          /\ UNCHANGED <<state, gates, copy>>
      BY <1>7, <2>1 DEF BeginCommit
    <3>2. \A u \in Threads \ {t} : job'[u] = job[u]  BY <1>1, <3>1
    <3> QED BY <3>1, <3>2, StepIsQuiet, PlacesDiffer
  <2>2. CASE state.rev = job[t].expected
    <3>1. PICK c \in Checkpoints(job[t].action, job[t].mode), valid \in BOOLEAN :
            job' = [job EXCEPT ![t] = [job[t] EXCEPT
              !.human = NeedsHumanGate(job[t].action, job[t].mode), !.checkpoint = c, !.valid = valid]]
      BY <1>7, <2>2 DEF BeginCommit
    <3>2. /\ pc[t] = "working" /\ Goto(t, "committing") /\ copy' = [copy EXCEPT ![t] = state]
          /\ UNCHANGED <<state, gates, overtaken>>
      BY <1>7, <2>2 DEF BeginCommit, Read
    <3>3. job'[t].mode = job[t].mode /\ \A u \in Threads \ {t} : job'[u] = job[u]
      BY <1>1, <3>1 DEF Jobs
    <3> QED BY <1>1, <3>2, <3>3, StepIsQuiet, PlacesDiffer
  <2> QED BY <2>1, <2>2
<1>8. CASE AbandonAction(t)
  <2>1. /\ Goto(t, "idle") /\ job' = [job EXCEPT ![t] = NoJob] /\ overtaken' = overtaken \ {t}
        /\ UNCHANGED <<state, gates, copy>>
    BY <1>8 DEF AbandonAction
  <2>2. \A u \in Threads \ {t} : job'[u] = job[u]  BY <1>1, <2>1
  <2> QED BY <2>1, <2>2, StepIsQuiet, PlacesDiffer
<1>9. CASE PutGate(t)
  <2>1. /\ pc[t] = "committing" /\ Goto(t, "gated") /\ UNCHANGED <<state, copy, overtaken>>
        /\ job' = [job EXCEPT ![t] = [job[t] EXCEPT !.gate = Len(gates) + 1]]
    BY <1>9 DEF PutGate, history
  <2>2. job'[t].mode = job[t].mode /\ \A u \in Threads \ {t} : job'[u] = job[u]
    BY <1>1, <2>1 DEF Jobs
  <2> QED BY <1>1, <1>9, <2>1, <2>2, ActiveActionStands, StepIsQuiet, PlacesDiffer
<1>10. ASSUME NEW g \in DOMAIN gates, BeginDecide(t, g) \/ BeginMigrate(t, g)
       PROVE  Undisturbed' /\ ClosedByAnswer
  <2>1. /\ Goto(t, "deciding") /\ copy' = [copy EXCEPT ![t] = state]
        /\ UNCHANGED <<state, gates, overtaken>>
        /\ \E j : job' = [job EXCEPT ![t] = j]
    BY <1>10 DEF BeginDecide, BeginMigrate, Read, history
  <2>2. \A u \in Threads \ {t} : job'[u] = job[u]  BY <1>1, <2>1
  <2> QED BY <2>1, <2>2, StepIsQuiet, PlacesDiffer
<1>11. CASE PutDecision(t)
  <2>1. Goto(t, "decided") /\ UNCHANGED <<state, copy, job, overtaken>>
    BY <1>11 DEF PutDecision, history
  <2> QED BY <1>11, <2>1, ActiveActionStands, StepIsQuiet, PlacesDiffer
<1> QED BY <1>2, <1>3, <1>4, <1>5, <1>6, <1>7, <1>8, <1>9, <1>10, <1>11

LEMMA StepsAreQuiet ==
  ASSUME RouteInv, Undisturbed, [Next]_vars
  PROVE  Undisturbed' /\ [ClosedByAnswer]_vars
<1>1. CASE UNCHANGED vars
  BY <1>1 DEF vars, history, Undisturbed, Quiet
<1>2. CASE Crash
  BY <1>2, PlacesDiffer DEF Crash, Undisturbed, Quiet, ClosedByAnswer
<1>3. ASSUME NEW t \in Threads, Talk(t)  PROVE Undisturbed' /\ ClosedByAnswer
  BY <1>3, SavesAreQuiet, MovesAreQuiet DEF Talk
<1>4. ASSUME NEW t \in Threads, Work(t)  PROVE Undisturbed' /\ ClosedByAnswer
  BY <1>4, CandidateIsQuiet, MovesAreQuiet DEF Work
<1>5. ASSUME NEW t \in Threads, Decide(t)  PROVE Undisturbed' /\ ClosedByAnswer
  BY <1>5, SavesAreQuiet, MovesAreQuiet DEF Decide
<1> QED BY <1>1, <1>2, <1>3, <1>4, <1>5 DEF Next

\* An open checkpoint is closed only by the turn that answers it, by a commit
\* of the continue endpoint, or by one of a thread that was at work before the
\* candidate was committed that opened it.
THEOREM AnswersClose == Spec => CheckpointIsAnswered
<1>1. Spec => []RouteInv  BY RouteInvariance
<1>2. Init => Undisturbed
  BY PlacesDiffer DEF Init, Undisturbed, Quiet, Created
<1>3. RouteInv /\ Undisturbed /\ [Next]_vars => Undisturbed'  BY StepsAreQuiet
<1>4. RouteInv /\ Undisturbed /\ [Next]_vars => [ClosedByAnswer]_vars  BY StepsAreQuiet
<1>5. Spec => [][ClosedByAnswer]_vars  BY <1>1, <1>2, <1>3, <1>4, PTL DEF Spec
<1> QED BY <1>5 DEF CheckpointIsAnswered, ClosedByAnswer, Closes
=============================================================================
