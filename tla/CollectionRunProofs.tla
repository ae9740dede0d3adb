------------------------- MODULE CollectionRunProofs -------------------------
(***************************************************************************)
(* Proofs about the collection runs.                                       *)
(*                                                                         *)
(* The loops over pages and items are recursive functions.  That they have *)
(* a value and what it is follows by induction over the number of passes.  *)
(* An induction here is about a set of numbers: a set that holds 0, and    *)
(* with each number the next, holds them all (SetInduction).               *)
(***************************************************************************)
EXTENDS CollectionRun, FiniteSetTheorems, WellFoundedInduction, TLAPS

-----------------------------------------------------------------------------
(* Loops.                                                                  *)

\* Induction over the naturals, for a set: otherwise there is a least number missing.
LEMMA SetInduction ==
  ASSUME NEW S, 0 \in S, \A n \in Nat : n \in S => n + 1 \in S
  PROVE  Nat \subseteq S
<1> DEFINE T == Nat \ S
           R == OpToRel(<, Nat)
<1> SUFFICES ASSUME T # {} PROVE FALSE
  OBVIOUS
<1>1. IsWellFoundedOn(R, Nat)
  BY NatLessThanWellFounded, Zenon
<1>2. \A x, y \in Nat : x < y => <<x, y>> \in R
  BY DEF OpToRel
<1>3. \E x \in T : \A y \in T : ~(<<y, x>> \in R)
  <2> HIDE DEF R
  <2>1. T \subseteq Nat
    OBVIOUS
  <2> QED BY <1>1, <2>1, WFMin
<1>4. PICK x \in T : \A y \in T : ~(y < x)
  BY <1>2, <1>3
<1>5. x - 1 \in T
  BY <1>4
<1> QED BY <1>4, <1>5

\* Induction over the passes of a loop.
LEMMA Passes ==
  ASSUME NEW n \in Nat, NEW S, 0 \in S, \A i \in 1 .. n : i - 1 \in S => i \in S
  PROVE  \A i \in 0 .. n : i \in S
<1> DEFINE T == {m \in Nat : m <= n => m \in S}
<1>1. 0 \in T
  OBVIOUS
<1>2. \A m \in Nat : m \in T => m + 1 \in T
  OBVIOUS
<1>3. Nat \subseteq T
  <2> HIDE DEF T
  <2> QED BY <1>1, <1>2, SetInduction
<1> QED BY <1>3

\* g gives the value after every pass of a loop whose i-th pass applies step[i].
IsLoop(g, A, n, base, step) ==
  /\ g \in [0 .. n -> A]
  /\ g[0] = base
  /\ \A i \in 1 .. n : g[i] = step[i][g[i - 1]]

\* A loop whose body maps A to A has a value after every pass.
LEMMA LoopExists ==
  ASSUME NEW A, NEW n \in Nat, NEW base \in A, NEW step \in [1 .. n -> [A -> A]]
  PROVE  \E g : IsLoop(g, A, n, base, step)
<1> DEFINE Good(g, m) == IsLoop(g, A, m, base, step)
           S == {m \in 0 .. n : \E g : Good(g, m)}
<1>1. 0 \in S
  <2> DEFINE g == [i \in 0 .. 0 |-> base]
  <2>1. g \in [0 .. 0 -> A] /\ g[0] = base /\ 1 .. 0 = {}
    OBVIOUS
  <2>2. Good(g, 0)
    <3> HIDE DEF g
    <3> QED BY <2>1 DEF IsLoop
  <2> HIDE DEF Good, g
  <2> QED BY <2>2
<1>2. ASSUME NEW m \in 1 .. n, m - 1 \in S PROVE m \in S
  <2>1. PICK g : Good(g, m - 1)
    BY <1>2
  <2> DEFINE h == [i \in 0 .. m |-> IF i = m THEN step[m][g[m - 1]] ELSE g[i]]
  <2>2. m - 1 \in 0 .. m - 1 /\ g[m - 1] \in A /\ step[m][g[m - 1]] \in A
    BY <2>1 DEF IsLoop
  <2>3. h \in [0 .. m -> A] /\ h[0] = base
    BY <2>1, <2>2 DEF IsLoop
  <2>4. ASSUME NEW i \in 1 .. m PROVE h[i] = step[i][h[i - 1]]
    <3>1. h[i - 1] = g[i - 1]
      OBVIOUS
    <3>2. CASE i = m
      BY <3>1, <3>2
    <3>3. CASE i # m
      <4>1. h[i] = g[i] /\ i \in 1 .. m - 1
        BY <3>3
      <4> QED BY <3>1, <4>1, <2>1 DEF IsLoop
    <3> QED BY <3>2, <3>3
  <2>5. Good(h, m)
    <3> HIDE DEF h
    <3> QED BY <2>3, <2>4 DEF IsLoop
  <2> HIDE DEF Good, h
  <2> QED BY <2>5
<1>3. \A i \in 0 .. n : i \in S
  <2> HIDE DEF S
  <2>1. \A m \in 1 .. n : m - 1 \in S => m \in S
    BY <1>2
  <2> QED BY <1>1, <2>1, Passes
<1>4. n \in S
  BY <1>3
<1> QED BY <1>4

\* f starts like the loop and goes on like it as long as its values are in A.
LooksLike(f, A, n, base, step) ==
  /\ f[0] = base
  /\ \A i \in 1 .. n : f[i - 1] \in A => f[i] = step[i][f[i - 1]]

\* Such a function ends like the loop.
LEMMA LoopUnique ==
  ASSUME NEW A, NEW n \in Nat, NEW base \in A, NEW step, NEW g, IsLoop(g, A, n, base, step),
         NEW f, LooksLike(f, A, n, base, step)
  PROVE  f[n] = g[n]
<1> DEFINE S == {i \in 0 .. n : f[i] = g[i]}
<1>1. 0 \in S
  BY DEF IsLoop, LooksLike
<1>2. ASSUME NEW i \in 1 .. n, i - 1 \in S PROVE i \in S
  <2>1. i - 1 \in 0 .. n /\ f[i - 1] = g[i - 1]
    BY <1>2
  <2>2. g[i - 1] \in A
    BY <2>1 DEF IsLoop
  <2> QED BY <2>1, <2>2 DEF IsLoop, LooksLike
<1>3. \A i \in 0 .. n : i \in S
  <2>1. \A i \in 1 .. n : i - 1 \in S => i \in S
    BY <1>2
  <2> HIDE DEF S
  <2> QED BY <1>1, <2>1, Passes
<1> QED BY <1>3

-----------------------------------------------------------------------------
(* AddNew and Filter.                                                      *)

\* The loop of AddNew, pass by pass.
AddsNew(seen, found, jobs, limit) ==
  /\ seen \in [0 .. Len(jobs) -> Seq(Listings)]
  /\ seen[0] = found
  /\ \A i \in 1 .. Len(jobs) :
       seen[i] = IF Contains(seen[i - 1], jobs[i]) \/ Len(seen[i - 1]) >= limit
                 THEN seen[i - 1] ELSE Append(seen[i - 1], jobs[i])

LEMMA AddNewLoop ==
  ASSUME NEW found \in Seq(Listings), NEW jobs \in Seq(Listings), NEW limit
  PROVE  \E seen : AddsNew(seen, found, jobs, limit) /\ AddNew(found, jobs, limit) = seen[Len(jobs)]
<1> DEFINE n == Len(jobs)
           A == Seq(Listings)
           Body(a, l) == IF Contains(a, l) \/ Len(a) >= limit THEN a ELSE Append(a, l)
           step == [i \in 1 .. n |-> [a \in A |-> Body(a, jobs[i])]]
           f == CHOOSE g : g = [i \in 0 .. n |-> IF i = 0 THEN found ELSE Body(g[i - 1], jobs[i])]
<1>1. n \in Nat /\ \A i \in 1 .. n : jobs[i] \in Listings
  OBVIOUS
<1>2. \A a \in A, l \in Listings : Body(a, l) \in A
  OBVIOUS
<1>3. step \in [1 .. n -> [A -> A]] /\ \A i \in 1 .. n, a \in A : step[i][a] = Body(a, jobs[i])
  <2> HIDE DEF Body, A, n
  <2> QED BY <1>1, <1>2
<1>4. PICK g : IsLoop(g, A, n, found, step)
  <2>1. found \in A /\ n \in Nat
    OBVIOUS
  <2>2. step \in [1 .. n -> [A -> A]]
    BY <1>3
  <2> HIDE DEF step, n, A
  <2> QED BY <2>1, <2>2, LoopExists
<1>5. \A i \in 1 .. n : g[i] = Body(g[i - 1], jobs[i])
  <2> HIDE DEF step, Body, A, n
  <2> QED BY <1>1, <1>3, <1>4 DEF IsLoop
<1>6. g = [i \in 0 .. n |-> IF i = 0 THEN found ELSE Body(g[i - 1], jobs[i])]
  <2> HIDE DEF Body, A, n
  <2> QED BY <1>1, <1>4, <1>5 DEF IsLoop
<1>7. f = [i \in 0 .. n |-> IF i = 0 THEN found ELSE Body(f[i - 1], jobs[i])]
  <2> HIDE DEF Body, A, n
  <2> QED BY <1>6
<1>8. f[n] = g[n]
  <2>1. f[0] = found /\ found \in A /\ n \in Nat
    <3> HIDE DEF f, Body
    <3> QED BY <1>1, <1>7
  <2>2. \A i \in 1 .. n : f[i - 1] \in A => f[i] = step[i][f[i - 1]]
    <3> HIDE DEF f, Body, A, n, step
    <3> QED BY <1>1, <1>3, <1>7
  <2>3. LooksLike(f, A, n, found, step)
    <3> HIDE DEF f, A, n, step
    <3> QED BY <2>1, <2>2 DEF LooksLike
  <2> HIDE DEF f, A, n, step
  <2> QED BY <1>4, <2>1, <2>3, LoopUnique
<1>9. AddNew(found, jobs, limit) = f[n]
  BY DEF AddNew
<1> HIDE DEF f, step
<1>10. AddNew(found, jobs, limit) = g[n]
  BY <1>1, <1>8, <1>9
<1>11. AddsNew(g, found, jobs, limit)
  BY <1>4, <1>5 DEF IsLoop, AddsNew
<1> QED BY <1>10, <1>11

\* AddNew adds listings to a list and keeps it within the limit and without repeats.
LEMMA AddNewFacts ==
  ASSUME NEW found \in Seq(Listings), NEW jobs \in Seq(Listings), NEW limit \in Nat
  PROVE  /\ AddNew(found, jobs, limit) \in Seq(Listings)
         /\ ToSet(found) \subseteq ToSet(AddNew(found, jobs, limit))
         /\ Len(found) <= limit => Len(AddNew(found, jobs, limit)) <= limit
         /\ IsInjective(found) => IsInjective(AddNew(found, jobs, limit))
<1>1. PICK seen : AddsNew(seen, found, jobs, limit) /\ AddNew(found, jobs, limit) = seen[Len(jobs)]
  BY AddNewLoop
<1> DEFINE Good(s) == /\ ToSet(found) \subseteq ToSet(s)
                      /\ Len(found) <= limit => Len(s) <= limit
                      /\ IsInjective(found) => IsInjective(s)
           S == {i \in 0 .. Len(jobs) : Good(seen[i])}
<1>2. Len(jobs) \in Nat /\ 0 \in S
  BY <1>1 DEF AddsNew
<1>3. ASSUME NEW i \in 1 .. Len(jobs), i - 1 \in S PROVE i \in S
  <2> DEFINE a == seen[i - 1]
  <2>1. a \in Seq(Listings) /\ Good(a) /\ jobs[i] \in Listings
    <3> HIDE DEF Good
    <3> QED BY <1>1, <1>3 DEF AddsNew
  <2>2. CASE seen[i] = a
    <3> HIDE DEF Good
    <3> QED BY <2>1, <2>2
  <2>3. CASE seen[i] = Append(a, jobs[i]) /\ ~Contains(a, jobs[i]) /\ ~(Len(a) >= limit)
    <3> HIDE DEF a
    <3> DEFINE b == Append(a, jobs[i])
    <3>1. /\ b \in Seq(Listings) /\ Len(b) = Len(a) + 1
          /\ \A j \in 1 .. Len(a) : b[j] = a[j]
          /\ b[Len(a) + 1] = jobs[i]
      BY <2>1
    <3>2. DOMAIN a = 1 .. Len(a) /\ DOMAIN b = 1 .. Len(a) + 1
      BY <2>1, <3>1
    <3> HIDE DEF b
    <3>3. ToSet(a) \subseteq ToSet(b)
      BY <2>1, <3>1, <3>2 DEF ToSet
    <3>4. IsInjective(a) => IsInjective(b)
      BY <2>1, <2>3, <3>1, <3>2 DEF IsInjective, Contains
    <3>5. Good(b)
      BY <2>1, <2>3, <3>1, <3>3, <3>4
    <3>6. Good(seen[i])
      <4> HIDE DEF Good
      <4> QED BY <2>3, <3>5 DEF b
    <3> HIDE DEF Good
    <3> QED BY <3>6
  <2> QED BY <1>1, <2>2, <2>3 DEF AddsNew
<1>4. \A i \in 0 .. Len(jobs) : i \in S
  <2>1. \A i \in 1 .. Len(jobs) : i - 1 \in S => i \in S
    BY <1>3
  <2> HIDE DEF S
  <2> QED BY <1>2, <2>1, Passes
<1>5. Good(seen[Len(jobs)]) /\ seen[Len(jobs)] \in Seq(Listings)
  BY <1>1, <1>2, <1>4 DEF AddsNew
<1> QED BY <1>1, <1>5

LEMMA ToSetAppend ==
  ASSUME NEW T, NEW s \in Seq(T), NEW x \in T
  PROVE  ToSet(Append(s, x)) = ToSet(s) \cup {x}
<1> DEFINE b == Append(s, x)
<1>1. /\ DOMAIN s = 1 .. Len(s) /\ DOMAIN b = 1 .. Len(s) + 1 /\ Len(s) \in Nat
      /\ \A j \in 1 .. Len(s) : b[j] = s[j]
      /\ b[Len(s) + 1] = x
  OBVIOUS
<1> HIDE DEF b
<1>2. ToSet(b) = ToSet(s) \cup {x}
  BY <1>1 DEF ToSet
<1> QED BY <1>2 DEF b

\* The loop of Filter, pass by pass.
Filters(kept, s, keep) ==
  /\ kept \in [0 .. Len(s) -> Seq(Listings)]
  /\ kept[0] = <<>>
  /\ \A i \in 1 .. Len(s) :
       kept[i] = IF s[i] \in keep THEN Append(kept[i - 1], s[i]) ELSE kept[i - 1]

LEMMA FilterLoop ==
  ASSUME NEW s \in Seq(Listings), NEW keep
  PROVE  \E kept : Filters(kept, s, keep) /\ Filter(s, keep) = kept[Len(s)]
<1> DEFINE n == Len(s)
           A == Seq(Listings)
           Body(a, l) == IF l \in keep THEN Append(a, l) ELSE a
           step == [i \in 1 .. n |-> [a \in A |-> Body(a, s[i])]]
           f == CHOOSE g : g = [i \in 0 .. n |-> IF i = 0 THEN <<>> ELSE Body(g[i - 1], s[i])]
<1>1. n \in Nat /\ (\A i \in 1 .. n : s[i] \in Listings) /\ <<>> \in A
  OBVIOUS
<1>2. \A a \in A, l \in Listings : Body(a, l) \in A
  OBVIOUS
<1>3. step \in [1 .. n -> [A -> A]] /\ \A i \in 1 .. n, a \in A : step[i][a] = Body(a, s[i])
  <2> HIDE DEF Body, A, n
  <2> QED BY <1>1, <1>2
<1>4. PICK g : IsLoop(g, A, n, <<>>, step)
  <2>1. step \in [1 .. n -> [A -> A]]
    BY <1>3
  <2> HIDE DEF step, n, A
  <2> QED BY <1>1, <2>1, LoopExists
<1>5. \A i \in 1 .. n : g[i] = Body(g[i - 1], s[i])
  <2> HIDE DEF step, Body, A, n
  <2> QED BY <1>1, <1>3, <1>4 DEF IsLoop
<1>6. g = [i \in 0 .. n |-> IF i = 0 THEN <<>> ELSE Body(g[i - 1], s[i])]
  <2> HIDE DEF Body, A, n
  <2> QED BY <1>1, <1>4, <1>5 DEF IsLoop
<1>7. f = [i \in 0 .. n |-> IF i = 0 THEN <<>> ELSE Body(f[i - 1], s[i])]
  <2> HIDE DEF Body, A, n
  <2> QED BY <1>6
<1>8. f[n] = g[n]
  <2>1. LooksLike(f, A, n, <<>>, step)
    <3> HIDE DEF f, Body, A, n, step
    <3> QED BY <1>1, <1>3, <1>7 DEF LooksLike
  <2> HIDE DEF f, A, n, step
  <2> QED BY <1>1, <1>4, <2>1, LoopUnique
<1>9. Filter(s, keep) = f[n]
  BY DEF Filter
<1> HIDE DEF f, step
<1>10. Filter(s, keep) = g[n]
  BY <1>1, <1>8, <1>9
<1>11. Filters(g, s, keep)
  BY <1>4, <1>5 DEF IsLoop, Filters
<1> QED BY <1>10, <1>11

\* Filter keeps exactly the elements that are in keep.
LEMMA FilterFacts ==
  ASSUME NEW s \in Seq(Listings), NEW keep
  PROVE  Filter(s, keep) \in Seq(Listings) /\ ToSet(Filter(s, keep)) = ToSet(s) \cap keep
<1>1. PICK kept : Filters(kept, s, keep) /\ Filter(s, keep) = kept[Len(s)]
  BY FilterLoop
<1> DEFINE First(i) == {s[j] : j \in 1 .. i}
           S == {i \in 0 .. Len(s) : ToSet(kept[i]) = First(i) \cap keep}
<1>2. Len(s) \in Nat /\ 0 \in S
  <2>1. ToSet(<<>>) = {} /\ First(0) = {}
    BY DEF ToSet
  <2> HIDE DEF First
  <2> QED BY <1>1, <2>1 DEF Filters
<1>3. ASSUME NEW i \in 1 .. Len(s), i - 1 \in S PROVE i \in S
  <2> DEFINE a == kept[i - 1]
  <2>1. a \in Seq(Listings) /\ s[i] \in Listings /\ ToSet(a) = First(i - 1) \cap keep
    <3> HIDE DEF First
    <3> QED BY <1>1, <1>3 DEF Filters
  <2>2. First(i) = First(i - 1) \cup {s[i]}
    OBVIOUS
  <2>3. ToSet(Append(a, s[i])) = ToSet(a) \cup {s[i]}
    <3> HIDE DEF a
    <3> QED BY <2>1, ToSetAppend
  <2>4. kept[i] = IF s[i] \in keep THEN Append(a, s[i]) ELSE a
    BY <1>1 DEF Filters
  <2> HIDE DEF First, a
  <2> QED BY <2>1, <2>2, <2>3, <2>4
<1>4. \A i \in 0 .. Len(s) : i \in S
  <2>1. \A i \in 1 .. Len(s) : i - 1 \in S => i \in S
    BY <1>3
  <2> HIDE DEF S
  <2> QED BY <1>2, <2>1, Passes
<1>5. ToSet(s) = First(Len(s))
  BY DEF ToSet
<1>6. ToSet(kept[Len(s)]) = First(Len(s)) \cap keep /\ kept[Len(s)] \in Seq(Listings)
  <2> HIDE DEF First
  <2> QED BY <1>1, <1>2, <1>4 DEF Filters
<1> HIDE DEF First
<1> QED BY <1>1, <1>5, <1>6

-----------------------------------------------------------------------------
(* What a listing says, and the merge of it into the rows.                 *)

\* The values of normalize_job.
Facts == [core : SUBSET CoreFields, exp : Range2s, pay : Range2s, doc : Seq(Range2s)]

\* The index of the first match, or 0.
LEMMA SelectFirst ==
  ASSUME NEW n \in Nat, NEW I \in SUBSET (1 .. n)
  PROVE  I # {} => Min(I) \in I
<1> SUFFICES ASSUME I # {} PROVE \E x \in I : \A y \in I : x <= y
  BY DEF Min
<1> DEFINE S == {i \in 0 .. n : \A y \in I : y > i}
<1> SUFFICES ASSUME ~\E x \in I : \A y \in I : x <= y PROVE FALSE
  OBVIOUS
<1>1. 0 \in S
  OBVIOUS
<1>2. \A i \in 1 .. n : i - 1 \in S => i \in S
  OBVIOUS
<1>3. \A i \in 0 .. n : i \in S
  <2> HIDE DEF S
  <2> QED BY <1>1, <1>2, Passes
<1>4. n \in S
  BY <1>3
<1>5. PICK y \in I : TRUE
  OBVIOUS
<1> QED BY <1>4, <1>5

LEMMA SortedTyped == \A r \in Range2s : Sorted(r) \in Range2s
  BY DEF Sorted, Range2s, Range2

LEMMA ExperienceTyped ==
  ASSUME NEW years \in Seq(Range2s)
  PROVE  extract_experience(years) \in Range2s
<1> DEFINE I == {i \in 1 .. Len(years) : Sane(years[i])}
<1>1. I \in SUBSET (1 .. Len(years)) /\ Len(years) \in Nat
  OBVIOUS
<1>2. I # {} => Min(I) \in I
  <2> HIDE DEF I
  <2> QED BY <1>1, SelectFirst
<1>3. NoRange \in Range2s
  BY DEF NoRange, Range2, Range2s, Absent
<1>4. extract_experience(years) = IF (IF I # {} THEN Min(I) ELSE 0) = 0 THEN NoRange
                                  ELSE Sorted(years[IF I # {} THEN Min(I) ELSE 0])
  BY DEF extract_experience, FirstMatch, SelectInSeq
<1>5. CASE I = {}
  <2> HIDE DEF I
  <2> QED BY <1>3, <1>4, <1>5
<1>6. CASE I # {}
  <2>1. Min(I) \in 1 .. Len(years) /\ Min(I) # 0
    BY <1>1, <1>2, <1>6
  <2>2. years[Min(I)] \in Range2s
    <3> HIDE DEF I
    <3> QED BY <2>1
  <2> HIDE DEF I
  <2> QED BY <1>4, <1>6, <2>1, <2>2, SortedTyped
<1> QED BY <1>5, <1>6

\* The two patterns of parse_salary.
LEMMA SalaryTyped ==
  ASSUME NEW p \in PagePayloads
  PROVE  parse_salary(p) \in Range2s
<1> DEFINE I == {i \in 1 .. Len(p.ranges) : IsSalaryRange(p.ranges[i])}
           J == {i \in 1 .. Len(p.singles) : IsSalary(p.singles[i])}
           ofRange(m) == Sorted(Range2(Lower(m), Scaled(m.hi, m.hiK)))
           ofSingle(m) == Range2(Scaled(m.amount, m.k), Scaled(m.amount, m.k))
           range == IF (IF I # {} THEN Min(I) ELSE 0) = 0 THEN NoRange
                    ELSE ofRange(p.ranges[IF I # {} THEN Min(I) ELSE 0])
           single == IF (IF J # {} THEN Min(J) ELSE 0) = 0 THEN NoRange
                     ELSE ofSingle(p.singles[IF J # {} THEN Min(J) ELSE 0])
<1>1. parse_salary(p) = IF range # NoRange THEN range ELSE single
  BY DEF parse_salary, FirstMatch, SelectInSeq
<1>2. NoRange \in Range2s
  BY DEF NoRange, Range2, Range2s, Absent
<1>3. range \in Range2s
  <2>1. I \in SUBSET (1 .. Len(p.ranges)) /\ p.ranges \in Seq(RangeMatches) /\ Len(p.ranges) \in Nat
    BY DEF PagePayloads
  <2>0. I # {} => Min(I) \in I
    <3> HIDE DEF I
    <3> QED BY <2>1, SelectFirst
  <2>2. CASE I = {}
    <3> HIDE DEF I
    <3> QED BY <1>2, <2>2
  <2>3. CASE I # {}
    <3>1. Min(I) \in 1 .. Len(p.ranges) /\ Min(I) # 0
      BY <2>0, <2>1, <2>3
    <3>2. PICK m : /\ m = p.ranges[Min(I)] /\ m.lo \in Int /\ m.hi \in Int
                   /\ m.loK \in BOOLEAN /\ m.hiK \in BOOLEAN
      <4> HIDE DEF I
      <4>1. p.ranges[Min(I)] \in RangeMatches
        BY <2>1, <3>1
      <4> QED BY <4>1 DEF RangeMatches
    <3>3. Lower(m) \in Int /\ Scaled(m.hi, m.hiK) \in Int
      BY <3>2 DEF Lower, Scaled
    <3>4. Range2(Lower(m), Scaled(m.hi, m.hiK)) \in Range2s
      BY <3>3 DEF Range2, Range2s
    <3>5. ofRange(m) \in Range2s
      BY <3>4, SortedTyped
    <3> HIDE DEF I, ofRange
    <3> QED BY <2>3, <3>1, <3>2, <3>5
  <2> QED BY <2>2, <2>3
<1>4. single \in Range2s
  <2>1. J \in SUBSET (1 .. Len(p.singles)) /\ p.singles \in Seq(SingleMatches) /\ Len(p.singles) \in Nat
    BY DEF PagePayloads
  <2>0. J # {} => Min(J) \in J
    <3> HIDE DEF J
    <3> QED BY <2>1, SelectFirst
  <2>2. CASE J = {}
    <3> HIDE DEF J
    <3> QED BY <1>2, <2>2
  <2>3. CASE J # {}
    <3>1. Min(J) \in 1 .. Len(p.singles) /\ Min(J) # 0
      BY <2>0, <2>1, <2>3
    <3>2. PICK m : m = p.singles[Min(J)] /\ m.amount \in Int /\ m.k \in BOOLEAN
      <4> HIDE DEF J
      <4>1. p.singles[Min(J)] \in SingleMatches
        BY <2>1, <3>1
      <4> QED BY <4>1 DEF SingleMatches
    <3>3. ofSingle(m) \in Range2s
      BY <3>2 DEF Range2, Range2s, Scaled
    <3> HIDE DEF J, ofSingle
    <3> QED BY <2>3, <3>1, <3>2, <3>3
  <2> QED BY <2>2, <2>3
<1> HIDE DEF range, single
<1> QED BY <1>1, <1>3, <1>4

\* normalize_job, whatever the page holds.
LEMMA NormalizedTyped ==
  ASSUME NEW k \in Kinds, NEW p \in PagePayloads
  PROVE  normalize_job(k, p) \in Facts
<1>1. CoreOf(k, p) \in SUBSET CoreFields
  BY DEF PagePayloads, Kinds, CoreOf, DiceCore, LinkedInCore, GlassdoorCore, HiringCafeCore, CoreFields
<1>2. parse_salary(p) \in Range2s
  BY SalaryTyped
<1>3. SalaryOf(k, p) \in Range2s
  <2>1. p.base.min \in Int /\ p.base.max \in Int /\ p.base.exact \in Int
    BY DEF PagePayloads
  <2>2. DiceSalary(p) \in Range2s
    BY <1>2, <2>1 DEF DiceSalary, Or, Range2, Range2s
  <2>3. GlassdoorSalary(p) \in Range2s
    BY <1>2, <2>1 DEF GlassdoorSalary, Range2, Range2s
  <2> QED BY <1>2, <2>2, <2>3 DEF SalaryOf
<1>4. extract_experience(p.years) \in Range2s /\ p.years \in Seq(Range2s)
  BY ExperienceTyped DEF PagePayloads
<1> QED BY <1>1, <1>2, <1>3, <1>4 DEF normalize_job, Facts

\* A merged row keeps its type and every value it had.
LEMMA MergedRange ==
  ASSUME NEW old \in Range2s, NEW new \in Range2s
  PROVE  /\ MergeRange(old, new) \in Range2s
         /\ \A f \in {"lo", "hi"} : old[f] # Absent => MergeRange(old, new)[f] # Absent
  BY DEF MergeRange, Range2, Range2s, Or, Absent

LEMMA MergedLegacy ==
  ASSUME NEW row \in LegacyRows, NEW d \in Facts
  PROVE  LET new == MergeLegacy(row, d)
         IN new \in LegacyRows /\ Known(row) \subseteq Known(new) /\ new.stored /\ new.recent
<1>1. row.exp \in Range2s /\ d.exp \in Range2s
  BY DEF LegacyRows, Facts
<1>2. MergeLegacy(row, d) \in LegacyRows
  BY <1>1, MergedRange DEF MergeLegacy, LegacyRows, Facts
<1>3. Known(row) \subseteq Known(MergeLegacy(row, d))
  BY <1>1, MergedRange DEF Known, MergeLegacy
<1> QED BY <1>2, <1>3 DEF MergeLegacy

LEMMA MergedJob ==
  ASSUME NEW row \in JobRows, NEW d \in Facts, NEW detail \in BOOLEAN
  PROVE  LET new == MergeJob(row, d, detail)
         IN /\ new \in JobRows /\ Known(row) \subseteq Known(new) /\ KnownPay(row) \subseteq KnownPay(new)
            /\ new.stored /\ new.detail = (row.detail \/ detail)
            /\ new.core = row.core \cup d.core
<1>1. row.exp \in Range2s /\ d.exp \in Range2s /\ row.pay \in Range2s /\ d.pay \in Range2s
  BY DEF JobRows, Facts
<1>2. MergeJob(row, d, detail) \in JobRows
  BY <1>1, MergedRange DEF MergeJob, JobRows, Facts
<1>3. Known(row) \subseteq Known(MergeJob(row, d, detail))
  BY <1>1, MergedRange DEF Known, MergeJob
<1>4. KnownPay(row) \subseteq KnownPay(MergeJob(row, d, detail))
  BY <1>1, MergedRange DEF KnownPay, MergeJob
<1> QED BY <1>2, <1>3, <1>4 DEF MergeJob

-----------------------------------------------------------------------------
(* persist_raw_jobs.                                                       *)

\* The tables and counts between two items.
Saved ==
  [legacy : [Listings -> LegacyRows], job : [Listings -> JobRows], inserted : Nat,
   refreshed : Nat, failed : Nat, canonicalFailed : Nat,
   legacySeen : SUBSET Listings, jobSeen : SUBSET Listings]

\* What an item of listing l does to them: it fails ...
Skips(a, b) ==
  /\ b.failed = a.failed + 1 /\ b.canonicalFailed = a.canonicalFailed
  /\ b.inserted = a.inserted /\ b.refreshed = a.refreshed
  /\ b.legacy = a.legacy /\ b.legacySeen = a.legacySeen
  /\ b.job = a.job /\ b.jobSeen = a.jobSeen

\* ... or its legacy row is written, ...
WritesLegacy(a, b, l) ==
  /\ b.failed = a.failed
  /\ IF a.legacy[l].stored THEN b.inserted = a.inserted /\ b.refreshed = a.refreshed + 1
                           ELSE b.inserted = a.inserted + 1 /\ b.refreshed = a.refreshed
  /\ b.legacySeen = a.legacySeen \cup {l}
  /\ \A m \in Listings \ {l} : b.legacy[m] = a.legacy[m]
  /\ b.legacy[l].stored /\ b.legacy[l].recent
  /\ Known(a.legacy[l]) \subseteq Known(b.legacy[l])

\* ... and then the canonical one, unless that fails.
WritesJob(a, b, l) ==
  \/ /\ b.canonicalFailed = a.canonicalFailed + 1
     /\ b.job = a.job /\ b.jobSeen = a.jobSeen
  \/ /\ b.canonicalFailed = a.canonicalFailed
     /\ b.jobSeen = a.jobSeen \cup {l}
     /\ \A m \in Listings \ {l} : b.job[m] = a.job[m]
     /\ b.job[l].stored /\ b.job[l].detail
     /\ Known(a.job[l]) \subseteq Known(b.job[l])
     /\ KnownPay(a.job[l]) \subseteq KnownPay(b.job[l])

LEMMA ItemsTyped ==
  ASSUME kind \in Kinds, NEW item \in Items
  PROVE  item[1] \in Listings /\ item[2] \in PagePayloads
<1>1. PICK l \in Listings : item \in {l} \X Offers[kind][l]
  BY DEF Items
<1>2. item[1] = l /\ item[2] \in Offers[kind][l]
  BY <1>1
<1>3. Offers[kind][l] \in SUBSET PagePayloads
  BY RunConstants
<1> QED BY <1>2, <1>3

LEMMA ItemStep ==
  ASSUME kind \in Kinds, NEW a \in Saved, NEW item \in Items, NEW bad, NEW badJob
  PROVE  LET b == PersistItem(a, item, bad, badJob)
         IN b \in Saved /\ (Skips(a, b) \/ (WritesLegacy(a, b, item[1]) /\ WritesJob(a, b, item[1])))
<1> DEFINE l == item[1]
           d == normalize_job(kind, item[2])
           row == MergeLegacy(a.legacy[l], d)
           new == MergeJob(a.job[l], d, TRUE)
           counted == IF a.legacy[l].stored THEN [a EXCEPT !.refreshed = @ + 1]
                                            ELSE [a EXCEPT !.inserted = @ + 1]
           kept == [counted EXCEPT !.legacy[l] = row, !.legacySeen = @ \cup {l}]
           b == PersistItem(a, item, bad, badJob)
<1> SUFFICES b \in Saved /\ (Skips(a, b) \/ (WritesLegacy(a, b, l) /\ WritesJob(a, b, l)))
  OBVIOUS
<1>1. l \in Listings /\ d \in Facts
  BY ItemsTyped, NormalizedTyped
<1>2. /\ a.legacy \in [Listings -> LegacyRows] /\ a.job \in [Listings -> JobRows]
      /\ a.legacySeen \in SUBSET Listings /\ a.jobSeen \in SUBSET Listings
      /\ a.inserted \in Nat /\ a.refreshed \in Nat /\ a.failed \in Nat /\ a.canonicalFailed \in Nat
  BY DEF Saved
<1>3. /\ row \in LegacyRows /\ Known(a.legacy[l]) \subseteq Known(row) /\ row.stored /\ row.recent
      /\ new \in JobRows /\ Known(a.job[l]) \subseteq Known(new)
      /\ KnownPay(a.job[l]) \subseteq KnownPay(new) /\ new.stored /\ new.detail
  <2> HIDE DEF d, l
  <2>1. a.legacy[l] \in LegacyRows /\ a.job[l] \in JobRows
    BY <1>1, <1>2
  <2> QED BY <1>1, <2>1, MergedLegacy, MergedJob
<1>4. b = IF bad \/ ~LegacyOk(row) THEN [a EXCEPT !.failed = @ + 1]
          ELSE IF badJob \/ ~JobOk(new) THEN [kept EXCEPT !.canonicalFailed = @ + 1]
          ELSE [kept EXCEPT !.job[l] = new, !.jobSeen = @ \cup {l}]
  BY DEF PersistItem
<1> HIDE DEF l, d, row, new, b
<1>5. CASE b = [a EXCEPT !.failed = @ + 1]
  <2>1. b \in Saved
    BY <1>2, <1>5 DEF Saved
  <2>2. Skips(a, b)
    BY <1>2, <1>5 DEF Saved, Skips
  <2> QED BY <2>1, <2>2
<1>6. /\ kept \in Saved /\ kept.failed = a.failed /\ kept.canonicalFailed = a.canonicalFailed
      /\ kept.job = a.job /\ kept.jobSeen = a.jobSeen
      /\ kept.legacySeen = a.legacySeen \cup {l} /\ kept.legacy = [a.legacy EXCEPT ![l] = row]
      /\ IF a.legacy[l].stored THEN kept.inserted = a.inserted /\ kept.refreshed = a.refreshed + 1
                               ELSE kept.inserted = a.inserted + 1 /\ kept.refreshed = a.refreshed
  <2>1. counted \in Saved /\ counted.failed = a.failed /\ counted.canonicalFailed = a.canonicalFailed
          /\ counted.job = a.job /\ counted.jobSeen = a.jobSeen
          /\ counted.legacySeen = a.legacySeen /\ counted.legacy = a.legacy
    <3>1. CASE a.legacy[l].stored
      BY <1>2, <3>1 DEF Saved
    <3>2. CASE ~a.legacy[l].stored
      BY <1>2, <3>2 DEF Saved
    <3> QED BY <3>1, <3>2
  <2>2. IF a.legacy[l].stored THEN counted.inserted = a.inserted /\ counted.refreshed = a.refreshed + 1
                              ELSE counted.inserted = a.inserted + 1 /\ counted.refreshed = a.refreshed
    <3>1. CASE a.legacy[l].stored
      BY <1>2, <3>1 DEF Saved
    <3>2. CASE ~a.legacy[l].stored
      BY <1>2, <3>2 DEF Saved
    <3> QED BY <3>1, <3>2
  <2> HIDE DEF counted
  <2>3. [a.legacy EXCEPT ![l] = row] \in [Listings -> LegacyRows]
    BY <1>1, <1>2, <1>3
  <2>4. kept \in Saved
    BY <1>1, <2>1, <2>3 DEF Saved
  <2> QED BY <2>1, <2>2, <2>4 DEF Saved
<1> HIDE DEF kept
<1>7. WritesLegacy(a, kept, l)
  BY <1>1, <1>2, <1>3, <1>6 DEF WritesLegacy
<1>8. CASE b = [kept EXCEPT !.canonicalFailed = @ + 1]
  <2>1. /\ b \in Saved /\ b.failed = kept.failed /\ b.inserted = kept.inserted
        /\ b.refreshed = kept.refreshed /\ b.legacySeen = kept.legacySeen /\ b.legacy = kept.legacy
        /\ b.job = kept.job /\ b.jobSeen = kept.jobSeen /\ b.canonicalFailed = kept.canonicalFailed + 1
    BY <1>6, <1>8 DEF Saved
  <2>2. WritesLegacy(a, b, l)
    BY <1>7, <2>1 DEF WritesLegacy
  <2>3. WritesJob(a, b, l)
    BY <1>6, <2>1 DEF WritesJob
  <2> QED BY <2>1, <2>2, <2>3
<1>9. CASE b = [kept EXCEPT !.job[l] = new, !.jobSeen = @ \cup {l}]
  <2>1. [a.job EXCEPT ![l] = new] \in [Listings -> JobRows]
    BY <1>1, <1>2, <1>3
  <2>2. /\ b.failed = kept.failed /\ b.inserted = kept.inserted
        /\ b.refreshed = kept.refreshed /\ b.legacySeen = kept.legacySeen /\ b.legacy = kept.legacy
        /\ b.job = [a.job EXCEPT ![l] = new] /\ b.jobSeen = a.jobSeen \cup {l}
        /\ b.canonicalFailed = kept.canonicalFailed
    BY <1>6, <1>9 DEF Saved
  <2>3. b \in Saved
    BY <1>1, <1>2, <1>6, <1>9, <2>1 DEF Saved
  <2>4. WritesLegacy(a, b, l)
    BY <1>7, <2>2 DEF WritesLegacy
  <2>5. WritesJob(a, b, l)
    BY <1>1, <1>2, <1>3, <1>6, <2>2 DEF WritesJob
  <2> QED BY <2>3, <2>4, <2>5
<1> QED BY <1>4, <1>5, <1>8, <1>9

\* The loop of persist_raw_jobs, pass by pass.
Persists(acc, raw, bad, badJob) ==
  /\ acc \in [0 .. Len(raw) -> Saved]
  /\ acc[0] = Unsaved
  /\ \A i \in 1 .. Len(raw) : acc[i] = PersistItem(acc[i - 1], raw[i], i \in bad, i \in badJob)

TablesOK == kind \in Kinds /\ legacy \in [Listings -> LegacyRows] /\ job \in [Listings -> JobRows]

LEMMA PersistLoop ==
  ASSUME TablesOK, NEW raw \in Seq(Items), NEW bad, NEW badJob
  PROVE  \E acc : Persists(acc, raw, bad, badJob) /\ persist_raw_jobs(raw, bad, badJob) = acc[Len(raw)]
<1> DEFINE n == Len(raw)
           Body(a, i) == PersistItem(a, raw[i], i \in bad, i \in badJob)
           step == [i \in 1 .. n |-> [a \in Saved |-> Body(a, i)]]
           f == CHOOSE g : g = [i \in 0 .. n |-> IF i = 0 THEN Unsaved ELSE Body(g[i - 1], i)]
<1>1. n \in Nat /\ (\A i \in 1 .. n : raw[i] \in Items) /\ Unsaved \in Saved
  BY DEF TablesOK, Unsaved, Saved
<1>2. \A a \in Saved, i \in 1 .. n : Body(a, i) \in Saved
  <2> SUFFICES ASSUME NEW a \in Saved, NEW i \in 1 .. n PROVE Body(a, i) \in Saved
    OBVIOUS
  <2>1. raw[i] \in Items /\ kind \in Kinds
    BY <1>1 DEF TablesOK
  <2> QED BY <2>1, ItemStep
<1>3. step \in [1 .. n -> [Saved -> Saved]] /\ \A i \in 1 .. n, a \in Saved : step[i][a] = Body(a, i)
  <2> HIDE DEF Body, n
  <2> QED BY <1>1, <1>2
<1>4. PICK g : IsLoop(g, Saved, n, Unsaved, step)
  <2>1. step \in [1 .. n -> [Saved -> Saved]]
    BY <1>3
  <2> HIDE DEF step, n
  <2> QED BY <1>1, <2>1, LoopExists
<1>5. \A i \in 1 .. n : g[i] = Body(g[i - 1], i)
  <2> HIDE DEF step, Body, n
  <2> QED BY <1>1, <1>3, <1>4 DEF IsLoop
<1>6. g = [i \in 0 .. n |-> IF i = 0 THEN Unsaved ELSE Body(g[i - 1], i)]
  <2> HIDE DEF Body, n
  <2> QED BY <1>1, <1>4, <1>5 DEF IsLoop
<1>7. f = [i \in 0 .. n |-> IF i = 0 THEN Unsaved ELSE Body(f[i - 1], i)]
  <2> HIDE DEF Body, n
  <2> QED BY <1>6
<1>8. f[n] = g[n]
  <2>1. LooksLike(f, Saved, n, Unsaved, step)
    <3> HIDE DEF f, Body, n, step
    <3> QED BY <1>1, <1>3, <1>7 DEF LooksLike
  <2> HIDE DEF f, n, step
  <2> QED BY <1>1, <1>4, <2>1, LoopUnique
<1>9. persist_raw_jobs(raw, bad, badJob) = f[n]
  BY DEF persist_raw_jobs
<1> HIDE DEF f, step
<1>10. persist_raw_jobs(raw, bad, badJob) = g[n]
  BY <1>1, <1>8, <1>9
<1>11. Persists(g, raw, bad, badJob)
  BY <1>4, <1>5 DEF IsLoop, Persists
<1> QED BY <1>10, <1>11

\* The listings that the items made appear in global_jobs.
Appeared(a) == {l \in Listings : a.legacy[l].stored /\ ~legacy[l].stored}

\* The counts after i items.
CountsInv(a, i) ==
  /\ a.inserted + a.refreshed + a.failed = i
  /\ a.inserted = Cardinality(Appeared(a))

\* No row loses anything.
KeepInv(a) ==
  \A l \in Listings :
    /\ Known(legacy[l]) \subseteq Known(a.legacy[l])
    /\ Known(job[l]) \subseteq Known(a.job[l]) /\ KnownPay(job[l]) \subseteq KnownPay(a.job[l])
    /\ legacy[l].stored => a.legacy[l].stored
    /\ legacy[l].recent => a.legacy[l].recent
    /\ job[l].detail => a.job[l].detail

\* The rows that were written are marked, and those marked are written.
SeenInv(a) ==
  /\ \A l \in a.legacySeen : a.legacy[l].stored /\ a.legacy[l].recent
  /\ \A l \in a.jobSeen : l \in a.legacySeen /\ a.job[l].stored /\ a.job[l].detail
  /\ \A l \in Listings : /\ a.legacy[l].stored => legacy[l].stored \/ l \in a.legacySeen
                         /\ a.job[l].stored => job[l].stored \/ l \in a.jobSeen

\* Without failures, every item so far is among them.
AllSeen(a, i, raw) ==
  a.failed = 0 /\ a.canonicalFailed = 0 =>
    \A j \in 1 .. i : raw[j][1] \in a.legacySeen /\ raw[j][1] \in a.jobSeen

SaveInv(a, i, raw) == CountsInv(a, i) /\ KeepInv(a) /\ SeenInv(a) /\ AllSeen(a, i, raw)

\* What an item does to the tables and counts, in either case.
Does(a, b, l) == Skips(a, b) \/ (WritesLegacy(a, b, l) /\ WritesJob(a, b, l))

LEMMA ItemCounts ==
  ASSUME NEW a \in Saved, NEW b \in Saved, NEW l \in Listings, Does(a, b, l), KeepInv(a),
         NEW i \in Nat, CountsInv(a, i)
  PROVE  CountsInv(b, i + 1)
<1>1. a.inserted \in Nat /\ a.refreshed \in Nat /\ a.failed \in Nat
  BY DEF Saved
<1>2. IsFiniteSet(Appeared(a))
  <2>1. IsFiniteSet(Listings) /\ Appeared(a) \subseteq Listings
    BY RunConstants DEF Appeared
  <2> QED BY <2>1, FS_Subset
<1>3. CASE Skips(a, b)
  <2>1. Appeared(b) = Appeared(a)
    BY <1>3 DEF Skips, Appeared
  <2> QED BY <1>1, <1>3, <2>1 DEF Skips, CountsInv
<1>4. CASE WritesLegacy(a, b, l) /\ a.legacy[l].stored
  <2>1. Appeared(b) = Appeared(a)
    BY <1>4 DEF WritesLegacy, Appeared
  <2> QED BY <1>1, <1>4, <2>1 DEF WritesLegacy, CountsInv
<1>5. CASE WritesLegacy(a, b, l) /\ ~a.legacy[l].stored
  <2>1. ~legacy[l].stored
    BY <1>5 DEF KeepInv
  <2>2. Appeared(b) = Appeared(a) \cup {l} /\ l \notin Appeared(a)
    BY <1>5, <2>1 DEF WritesLegacy, Appeared
  <2>3. Cardinality(Appeared(b)) = Cardinality(Appeared(a)) + 1
    BY <1>2, <2>2, FS_AddElement
  <2> QED BY <1>1, <1>5, <2>3 DEF WritesLegacy, CountsInv
<1> QED BY <1>3, <1>4, <1>5 DEF Does

LEMMA ItemKeeps ==
  ASSUME NEW a, NEW b, NEW l \in Listings, Does(a, b, l), KeepInv(a)
  PROVE  KeepInv(b)
<1> SUFFICES ASSUME NEW m \in Listings
             PROVE  /\ Known(legacy[m]) \subseteq Known(b.legacy[m])
                    /\ Known(job[m]) \subseteq Known(b.job[m])
                    /\ KnownPay(job[m]) \subseteq KnownPay(b.job[m])
                    /\ legacy[m].stored => b.legacy[m].stored
                    /\ legacy[m].recent => b.legacy[m].recent
                    /\ job[m].detail => b.job[m].detail
  BY DEF KeepInv
<1>1. /\ Known(legacy[m]) \subseteq Known(a.legacy[m])
      /\ Known(job[m]) \subseteq Known(a.job[m]) /\ KnownPay(job[m]) \subseteq KnownPay(a.job[m])
      /\ legacy[m].stored => a.legacy[m].stored
      /\ legacy[m].recent => a.legacy[m].recent
      /\ job[m].detail => a.job[m].detail
  BY DEF KeepInv
<1>2. CASE Skips(a, b)
  BY <1>1, <1>2 DEF Skips
<1>3. CASE WritesLegacy(a, b, l) /\ WritesJob(a, b, l)
  <2>1. CASE m = l
    BY <1>1, <1>3, <2>1 DEF WritesLegacy, WritesJob
  <2>2. CASE m # l
    BY <1>1, <1>3, <2>2 DEF WritesLegacy, WritesJob
  <2> QED BY <2>1, <2>2
<1> QED BY <1>2, <1>3 DEF Does

LEMMA ItemSeen ==
  ASSUME NEW a \in Saved, NEW b \in Saved, NEW l \in Listings, Does(a, b, l), SeenInv(a)
  PROVE  SeenInv(b)
<1>1. CASE Skips(a, b)
  BY <1>1 DEF Skips, SeenInv
<1>2. CASE WritesLegacy(a, b, l) /\ WritesJob(a, b, l)
  <2>1. \A m \in b.legacySeen : b.legacy[m].stored /\ b.legacy[m].recent
    BY <1>2 DEF Saved, WritesLegacy, SeenInv
  <2>2. \A m \in b.jobSeen : m \in b.legacySeen /\ b.job[m].stored /\ b.job[m].detail
    BY <1>2 DEF Saved, WritesLegacy, WritesJob, SeenInv
  <2>3. \A m \in Listings : b.legacy[m].stored => legacy[m].stored \/ m \in b.legacySeen
    BY <1>2 DEF WritesLegacy, SeenInv
  <2>4. \A m \in Listings : b.job[m].stored => job[m].stored \/ m \in b.jobSeen
    BY <1>2 DEF WritesJob, SeenInv
  <2> QED BY <2>1, <2>2, <2>3, <2>4 DEF SeenInv
<1> QED BY <1>1, <1>2 DEF Does

LEMMA ItemAllSeen ==
  ASSUME NEW a \in Saved, NEW b \in Saved, NEW raw, NEW i \in Nat, Does(a, b, raw[i + 1][1]),
         AllSeen(a, i, raw)
  PROVE  AllSeen(b, i + 1, raw)
<1> SUFFICES ASSUME b.failed = 0, b.canonicalFailed = 0, NEW j \in 1 .. i + 1
             PROVE  raw[j][1] \in b.legacySeen /\ raw[j][1] \in b.jobSeen
  BY DEF AllSeen
<1>1. a.failed \in Nat /\ a.canonicalFailed \in Nat
  BY DEF Saved
<1>2. ~Skips(a, b)
  BY <1>1 DEF Skips
<1>3. WritesLegacy(a, b, raw[i + 1][1]) /\ WritesJob(a, b, raw[i + 1][1])
  BY <1>2 DEF Does
<1>4. /\ a.failed = 0 /\ a.canonicalFailed = 0
      /\ b.legacySeen = a.legacySeen \cup {raw[i + 1][1]}
      /\ b.jobSeen = a.jobSeen \cup {raw[i + 1][1]}
  BY <1>1, <1>3 DEF WritesLegacy, WritesJob
<1>5. CASE j = i + 1
  BY <1>4, <1>5
<1>6. CASE j # i + 1
  <2>1. j \in 1 .. i
    BY <1>6
  <2> QED BY <1>4, <2>1 DEF AllSeen
<1> QED BY <1>5, <1>6

\* What persist_raw_jobs has done when it returns.
LEMMA PersistFacts ==
  ASSUME TablesOK, NEW raw \in Seq(Items), NEW bad, NEW badJob
  PROVE  LET end == persist_raw_jobs(raw, bad, badJob)
         IN end \in Saved /\ SaveInv(end, Len(raw), raw)
<1>1. PICK acc : Persists(acc, raw, bad, badJob) /\ persist_raw_jobs(raw, bad, badJob) = acc[Len(raw)]
  BY PersistLoop
<1> DEFINE S == {i \in 0 .. Len(raw) : SaveInv(acc[i], i, raw)}
<1>2. Len(raw) \in Nat
  OBVIOUS
<1>3. SaveInv(Unsaved, 0, raw)
  <2>1. CountsInv(Unsaved, 0)
    <3>1. Appeared(Unsaved) = {}
      BY DEF Appeared, Unsaved
    <3>2. Cardinality({}) = 0
      BY FS_EmptySet
    <3>3. Unsaved.inserted = 0 /\ Unsaved.refreshed = 0 /\ Unsaved.failed = 0
      BY DEF Unsaved
    <3> QED BY <3>1, <3>2, <3>3 DEF CountsInv
  <2>2. KeepInv(Unsaved)
    BY DEF KeepInv, Unsaved
  <2>3. SeenInv(Unsaved)
    BY DEF SeenInv, Unsaved
  <2>4. AllSeen(Unsaved, 0, raw)
    BY DEF AllSeen
  <2> QED BY <2>1, <2>2, <2>3, <2>4 DEF SaveInv
<1>4. 0 \in S
  BY <1>1, <1>2, <1>3 DEF Persists
<1>5. ASSUME NEW i \in 1 .. Len(raw), i - 1 \in S PROVE i \in S
  <2>1. /\ acc[i - 1] \in Saved /\ acc[i] = PersistItem(acc[i - 1], raw[i], i \in bad, i \in badJob)
        /\ SaveInv(acc[i - 1], i - 1, raw) /\ raw[i] \in Items /\ kind \in Kinds
    BY <1>1, <1>5 DEF Persists, TablesOK
  <2>2. acc[i] \in Saved /\ Does(acc[i - 1], acc[i], raw[i][1]) /\ raw[i][1] \in Listings
    BY <2>1, ItemStep, ItemsTyped DEF Does
  <2>3. PICK k \in Nat : k = i - 1 /\ i = k + 1
    OBVIOUS
  <2>4. CountsInv(acc[i], i) /\ KeepInv(acc[i]) /\ SeenInv(acc[i])
    BY <2>1, <2>2, <2>3, ItemCounts, ItemKeeps, ItemSeen DEF SaveInv
  <2>5. AllSeen(acc[i], i, raw)
    BY <2>1, <2>2, <2>3, ItemAllSeen DEF SaveInv
  <2> QED BY <2>4, <2>5 DEF SaveInv
<1>6. \A i \in 0 .. Len(raw) : i \in S
  <2>1. \A i \in 1 .. Len(raw) : i - 1 \in S => i \in S
    BY <1>5
  <2> HIDE DEF S
  <2> QED BY <1>2, <1>4, <2>1, Passes
<1> QED BY <1>1, <1>2, <1>6 DEF Persists

-----------------------------------------------------------------------------
(* The inductive invariant.                                                *)

\* The variables other than run.
DataOK ==
  /\ kind \in Kinds
  /\ result \in Outcomes
  /\ DOMAIN cache \subseteq Listings
  /\ \A l \in DOMAIN cache : cache[l] \in Offers["glassdoor"][l]
  /\ legacy \in [Listings -> LegacyRows] /\ job \in [Listings -> JobRows]
  /\ done \subseteq Listings /\ repaired \subseteq Listings

\* A run at p, when the cache holds the listings held: there is a page left to search,
\* nothing is due or fetched before the split, something is due until
\* the last detail page, and Glassdoor holds what it has found until it serves it.
PlaceOK(p, held) ==
  /\ Len(p.found) <= MaxJobs /\ IsInjective(p.found)
  /\ p.pc = "discover" => p.page < MaxPages
  /\ p.pc \in {"discover", "split"} => p.todo = <<>> /\ p.raw = <<>>
  /\ p.pc = "details" => p.todo # <<>>
  /\ kind = "glassdoor" =>
       /\ p.pc \in {"discover", "split", "details"} => ToSet(p.found) \subseteq held
       /\ p.pc = "details" => ToSet(p.todo) = ToSet(p.found) \ p.recent
       /\ p.pc = "persist" => {item[1] : item \in ToSet(p.raw)} = ToSet(p.found) \ p.recent

RunsOK == run \in [Runs -> Places] /\ \A r \in Runs : PlaceOK(run[r], DOMAIN cache)

\* The listings persisted within six hours are recent, and have a payload.
DoneOK == \A l \in done : legacy[l].recent /\ job[l].detail

Inv == DataOK /\ RunsOK /\ DoneOK

LEMMA IdleOK == ASSUME NEW held PROVE Idle \in Places /\ PlaceOK(Idle, held)
<1>1. Idle \in Places
  BY RunConstants DEF Idle, Places
<1>2. Len(Idle.found) <= MaxJobs /\ IsInjective(Idle.found)
  BY RunConstants DEF Idle, IsInjective
<1>3. Idle.pc = "idle"
  BY DEF Idle
<1> QED BY <1>1, <1>2, <1>3 DEF PlaceOK

LEMMA InitOK == Init => Inv
<1> SUFFICES ASSUME Init PROVE Inv
  OBVIOUS
<1>1. RunsOK
  BY IdleOK DEF Init, RunsOK
<1>2. NoLegacy \in LegacyRows /\ NoJob \in JobRows
  BY DEF NoLegacy, NoJob, LegacyRows, JobRows, NoRange, Range2, Range2s, Absent
<1>3. legacy \in [Listings -> LegacyRows] /\ job \in [Listings -> JobRows]
  <2>1. PICK old \in SUBSET Listings, core \in {{"company", "url"}, CoreFields} :
          /\ legacy = [l \in Listings |-> IF l \in old
                         THEN [NoLegacy EXCEPT !.stored = TRUE, !.core = core] ELSE NoLegacy]
          /\ job = [l \in Listings |-> IF l \in old
                      THEN [NoJob EXCEPT !.stored = TRUE, !.core = core] ELSE NoJob]
    BY DEF Init
  <2>2. core \subseteq CoreFields
    BY DEF CoreFields
  <2>3. /\ [NoLegacy EXCEPT !.stored = TRUE, !.core = core] \in LegacyRows
        /\ [NoJob EXCEPT !.stored = TRUE, !.core = core] \in JobRows
    BY <1>2, <2>2 DEF LegacyRows, JobRows
  <2> QED BY <1>2, <2>1, <2>3
<1>4. DataOK
  <2>1. kind \in Kinds /\ done = {} /\ repaired = {} /\ cache = <<>> /\ result = NoResult
    BY DEF Init
  <2>2. NoResult \in Outcomes
    BY DEF NoResult, Outcomes
  <2> QED BY <1>3, <2>1, <2>2 DEF DataOK
<1>5. DoneOK
  BY DEF Init, DoneOK
<1> QED BY <1>1, <1>4, <1>5 DEF Inv

\* A step that takes one run to a good place, and leaves the listings in the cache,
\* leaves all of them in good places.
LEMMA Moves ==
  ASSUME RunsOK, NEW r \in Runs, NEW p \in Places, PlaceOK(p, DOMAIN cache'),
         run' = [run EXCEPT ![r] = p], kind' = kind, DOMAIN cache \subseteq DOMAIN cache'
  PROVE  RunsOK'
<1>1. Places' = Places
  BY DEF Places, Items
<1>2. run' \in [Runs -> Places']
  BY <1>1 DEF RunsOK
<1>3. ASSUME NEW q \in Runs PROVE PlaceOK(run[q], DOMAIN cache)'
  <2>1. CASE q = r
    <3>1. run'[q] = p
      BY <2>1 DEF RunsOK
    <3> QED BY <3>1 DEF PlaceOK
  <2>2. CASE q # r
    <3>1. run'[q] = run[q] /\ PlaceOK(run[q], DOMAIN cache)
      BY <2>2 DEF RunsOK
    <3> QED BY <3>1 DEF PlaceOK
  <2> QED BY <2>1, <2>2
<1> QED BY <1>2, <1>3 DEF RunsOK

LEMMA MovesIdle ==
  ASSUME RunsOK, NEW r \in Runs, run' = [run EXCEPT ![r] = Idle], kind' = kind, cache' = cache
  PROVE  RunsOK'
BY IdleOK, Moves

\* What a place is made of.
LEMMA PlaceParts ==
  ASSUME RunsOK, NEW r \in Runs
  PROVE  /\ run[r] \in Places /\ PlaceOK(run[r], DOMAIN cache)
         /\ run[r].found \in Seq(Listings) /\ run[r].todo \in Seq(Listings)
         /\ run[r].recent \subseteq Listings /\ run[r].raw \in Seq(Items)
         /\ run[r].page \in 0 .. MaxPages /\ run[r].attempt \in 1 .. Attempts
BY DEF RunsOK, Places

LEMMA StartMoves ==
  ASSUME RunsOK, NEW r \in Runs, Start(r)
  PROVE  RunsOK'
<1> DEFINE p == [Idle EXCEPT !.pc = "discover"]
<1>1. run' = [run EXCEPT ![r] = p] /\ kind' = kind /\ cache' = cache
  BY DEF Start
<1>2. p \in Places
  BY IdleOK DEF Places
<1>3. PlaceOK(p, DOMAIN cache')
  <2>1. Len(p.found) <= MaxJobs /\ IsInjective(p.found) /\ ToSet(p.found) = {}
    BY RunConstants DEF Idle, IsInjective, ToSet
  <2>2. p.pc = "discover" /\ p.page < MaxPages /\ p.todo = <<>> /\ p.raw = <<>>
    BY RunConstants DEF Idle
  <2> QED BY <2>1, <2>2 DEF PlaceOK
<1> HIDE DEF p
<1> QED BY <1>1, <1>2, <1>3, Moves

\* A page of the search.
LEMMA PageMoves ==
  ASSUME RunsOK, NEW r \in Runs, run[r].pc = "discover", NEW jobs \in Seq(Listings), NEW last,
         TakePage(r, jobs, last), kind' = kind, DOMAIN cache \subseteq DOMAIN cache',
         kind = "glassdoor" => ToSet(CollectNew(run[r].found, jobs)) \subseteq DOMAIN cache'
  PROVE  RunsOK'
<1> DEFINE found == CollectNew(run[r].found, jobs)
           page == run[r].page + 1
           stop == jobs = <<>> \/ found = run[r].found \/ last \/ page = MaxPages
                     \/ Len(found) >= MaxJobs
           pc == IF stop THEN "split" ELSE "discover"
           p == [run[r] EXCEPT !.page = page, !.attempt = 1, !.found = found, !.pc = pc]
<1>1. run[r] \in Places /\ PlaceOK(run[r], DOMAIN cache)
  BY PlaceParts
<1>2. /\ run[r].page \in Nat /\ run[r].page < MaxPages /\ run[r].found \in Seq(Listings)
      /\ run[r].todo = <<>> /\ run[r].raw = <<>>
      /\ Len(run[r].found) <= MaxJobs /\ IsInjective(run[r].found)
  BY <1>1, PlaceParts DEF PlaceOK
<1>3. found \in Seq(Listings) /\ Len(found) <= MaxJobs /\ IsInjective(found)
  BY <1>2, RunConstants, AddNewFacts DEF CollectNew
<1>4. run' = [run EXCEPT ![r] = p]
  <2>1. run' = [run EXCEPT ![r].page = page, ![r].attempt = 1, ![r].found = found,
                           ![r].pc = IF stop THEN "split" ELSE @]
    BY DEF TakePage
  <2> HIDE DEF found, page, stop
  <2> QED BY <1>1, <2>1 DEF RunsOK, Places
<1>5. page \in 0 .. MaxPages /\ 1 \in 1 .. Attempts
  BY <1>2, RunConstants
<1>6. pc = "discover" => page < MaxPages
  BY <1>5, RunConstants
<1>7. pc \in {"discover", "split"}
  OBVIOUS
<1> HIDE DEF found, page, stop, pc
<1>8. p \in Places /\ p.pc = pc /\ p.found = found /\ p.page = page /\ p.todo = <<>> /\ p.raw = <<>>
  BY <1>1, <1>2, <1>3, <1>5, <1>7 DEF Places
<1>9. kind = "glassdoor" => ToSet(found) \subseteq DOMAIN cache'
  BY DEF found
<1> HIDE DEF p
<1>10. PlaceOK(p, DOMAIN cache')
  BY <1>3, <1>6, <1>7, <1>8, <1>9 DEF PlaceOK
<1> QED BY <1>4, <1>8, <1>10, Moves

\* Pages are read as lists of listings.
LEMMA BoundedLists ==
  ASSUME NEW T, NEW n \in Nat, NEW s \in SeqOf(T, n)
  PROVE  s \in Seq(T) /\ Len(s) <= n
BY DEF SeqOf

LEMMA DeduplicateTyped ==
  ASSUME NEW s \in Seq(Listings)
  PROVE  Deduplicate(s) \in Seq(Listings)
<1>1. <<>> \in Seq(Listings) /\ Len(s) \in Nat
  OBVIOUS
<1> QED BY <1>1, AddNewFacts DEF Deduplicate

LEMMA DiceSearchTyped ==
  ASSUME NEW lists \in Seq(Seq(Listings))
  PROVE  DiceSearch(lists) \in Seq(Listings)
<1> DEFINE I == {i \in 1 .. Len(lists) : lists[i] # <<>>}
<1>1. I \in SUBSET (1 .. Len(lists)) /\ Len(lists) \in Nat
  OBVIOUS
<1>2. I # {} => Min(I) \in I
  <2> HIDE DEF I
  <2> QED BY <1>1, SelectFirst
<1>3. DiceSearch(lists) = IF (IF I # {} THEN Min(I) ELSE 0) = 0 THEN <<>>
                          ELSE Deduplicate(lists[IF I # {} THEN Min(I) ELSE 0])
  BY DEF DiceSearch, SelectInSeq
<1>4. CASE I = {}
  <2> HIDE DEF I
  <2> QED BY <1>3, <1>4
<1>5. CASE I # {}
  <2>1. Min(I) \in 1 .. Len(lists) /\ Min(I) # 0
    BY <1>1, <1>2, <1>5
  <2> HIDE DEF I
  <2>2. lists[Min(I)] \in Seq(Listings)
    BY <2>1
  <2> QED BY <1>3, <1>5, <2>1, <2>2, DeduplicateTyped
<1> QED BY <1>4, <1>5

LEMMA DiscoverMoves ==
  ASSUME RunsOK, NEW r \in Runs, DiscoverDice(r) \/ DiscoverLinkedIn(r) \/ DiscoverGlassdoor(r)
  PROVE  RunsOK'
<1>1. \A body \in Bodies : body \in Seq(Listings)
  BY RunConstants, BoundedLists DEF Bodies
<1>2. CASE DiscoverDice(r)
  <2>1. PICK page \in DicePages(Bodies) :
          TakePage(r, DiceSearch(page), Len(DiceSearch(page)) < PageSize)
    BY <1>2 DEF DiscoverDice
  <2>2. page \in Seq(Seq(Listings))
    <3>1. PICK n \in 1 .. 4, b \in Bodies : page = [i \in 1 .. 4 |-> IF i < n THEN <<>> ELSE b]
      BY DEF DicePages
    <3>2. page \in [1 .. 4 -> Seq(Listings)]
      BY <1>1, <3>1
    <3>3. page \in SeqOf(Seq(Listings), 4)
      BY <3>2 DEF SeqOf
    <3> QED BY <3>3, BoundedLists
  <2>3. DiceSearch(page) \in Seq(Listings)
    BY <2>2, DiceSearchTyped
  <2>4. run[r].pc = "discover" /\ kind = "dice" /\ kind' = kind /\ cache' = cache
    BY <1>2 DEF DiscoverDice
  <2> QED BY <2>1, <2>3, <2>4, PageMoves
<1>3. CASE DiscoverLinkedIn(r)
  <2>1. PICK body \in Bodies :
          TakePage(r, LinkedInSearch(body), Len(LinkedInSearch(body)) < PageSize)
    BY <1>3 DEF DiscoverLinkedIn
  <2>2. LinkedInSearch(body) \in Seq(Listings)
    BY <1>1, DeduplicateTyped DEF LinkedInSearch
  <2>3. run[r].pc = "discover" /\ kind = "linkedin" /\ kind' = kind /\ cache' = cache
    BY <1>3 DEF DiscoverLinkedIn
  <2> QED BY <2>1, <2>2, <2>3, PageMoves
<1>4. CASE DiscoverGlassdoor(r)
  <2>1. PICK body \in Bodies :
          /\ TakePage(r, GlassdoorSearch(body), FALSE)
          /\ LET new == ToSet(CollectNew(run[r].found, GlassdoorSearch(body))) \ ToSet(run[r].found)
             IN \E p \in Payloads(new) :
                  cache' = [l \in new \cup DOMAIN cache |-> IF l \in new THEN p[l] ELSE cache[l]]
    BY <1>4 DEF DiscoverGlassdoor
  <2>2. GlassdoorSearch(body) \in Seq(Listings)
    BY <1>1, DeduplicateTyped DEF GlassdoorSearch
  <2>3. run[r].pc = "discover" /\ kind = "glassdoor" /\ kind' = kind
    BY <1>4 DEF DiscoverGlassdoor
  <2>4. DOMAIN cache' = (ToSet(CollectNew(run[r].found, GlassdoorSearch(body))) \ ToSet(run[r].found))
                          \cup DOMAIN cache
    BY <2>1
  <2>5. ToSet(run[r].found) \subseteq DOMAIN cache
    BY <2>3, PlaceParts DEF PlaceOK
  <2>6. ToSet(CollectNew(run[r].found, GlassdoorSearch(body))) \subseteq DOMAIN cache'
    BY <2>4, <2>5
  <2> QED BY <2>1, <2>2, <2>3, <2>4, <2>6, PageMoves
<1> QED BY <1>2, <1>3, <1>4

LEMMA RetryMoves ==
  ASSUME RunsOK, NEW r \in Runs, RetryGlassdoor(r)
  PROVE  RunsOK'
<1> DEFINE p == [run[r] EXCEPT !.attempt = @ + 1]
<1>1. run[r] \in Places /\ PlaceOK(run[r], DOMAIN cache) /\ run[r].attempt + 1 \in 1 .. Attempts
  BY RunConstants, PlaceParts DEF RetryGlassdoor
<1>2. kind' = kind /\ cache' = cache /\ run' = [run EXCEPT ![r] = p]
  BY <1>1 DEF RetryGlassdoor, RunsOK, Places
<1>3. /\ p \in Places /\ p.pc = run[r].pc /\ p.page = run[r].page /\ p.found = run[r].found
      /\ p.recent = run[r].recent /\ p.todo = run[r].todo /\ p.raw = run[r].raw
  BY <1>1 DEF Places
<1> HIDE DEF p
<1>4. PlaceOK(p, DOMAIN cache')
  BY <1>1, <1>2, <1>3 DEF PlaceOK
<1> QED BY <1>2, <1>3, <1>4, Moves

LEMMA PrefixTyped ==
  ASSUME NEW T, NEW s \in Seq(T), NEW k \in 0 .. Len(s)
  PROVE  SubSeq(s, 1, k) \in Seq(T)
OBVIOUS

LEMMA HitsMove ==
  ASSUME RunsOK, NEW r \in Runs, CollectHits(r)
  PROVE  RunsOK'
<1>1. PICK hits \in SeqOf(Items, PageSize) :
        run' = [run EXCEPT ![r].pc = "persist", ![r].raw = SubSeq(hits, 1, Min({Len(hits), MaxJobs}))]
  BY DEF CollectHits, Items
<1> DEFINE raw == SubSeq(hits, 1, Min({Len(hits), MaxJobs}))
           p == [run[r] EXCEPT !.pc = "persist", !.raw = raw]
<1>2. hits \in Seq(Items)
  BY RunConstants, BoundedLists
<1>3. raw \in Seq(Items)
  <2>1. Min({Len(hits), MaxJobs}) \in 0 .. Len(hits)
    BY <1>2, RunConstants DEF Min
  <2> QED BY <1>2, <2>1, PrefixTyped
<1>4. run[r] \in Places /\ PlaceOK(run[r], DOMAIN cache)
  BY PlaceParts
<1> HIDE DEF raw
<1>5. run' = [run EXCEPT ![r] = p]
  BY <1>1, <1>4 DEF raw, RunsOK, Places
<1>6. p \in Places /\ p.pc = "persist" /\ p.found = run[r].found
  BY <1>3, <1>4 DEF Places
<1>7. kind # "glassdoor" /\ kind' = kind /\ cache' = cache
  BY DEF CollectHits
<1> HIDE DEF p
<1>8. PlaceOK(p, DOMAIN cache')
  BY <1>4, <1>6, <1>7 DEF PlaceOK
<1> QED BY <1>5, <1>6, <1>7, <1>8, Moves

LEMMA SplitMoves ==
  ASSUME RunsOK, NEW r \in Runs, Split(r)
  PROVE  RunsOK'
<1> DEFINE fresh == {l \in Listings : Recent(l)}
           due == Filter(run[r].found, Listings \ fresh)
           pc == IF due = <<>> THEN "persist" ELSE "details"
           recent == ToSet(run[r].found) \cap fresh
           p == [run[r] EXCEPT !.recent = recent, !.todo = due, !.pc = pc]
<1>1. /\ run[r] \in Places /\ PlaceOK(run[r], DOMAIN cache) /\ run[r].pc = "split"
      /\ run[r].found \in Seq(Listings) /\ run[r].raw = <<>>
  BY PlaceParts DEF Split, PlaceOK
<1>2. due \in Seq(Listings) /\ ToSet(due) = ToSet(run[r].found) \cap (Listings \ fresh)
  BY <1>1, FilterFacts
<1>3. ToSet(run[r].found) \subseteq Listings
  BY <1>1 DEF ToSet
<1> HIDE DEF fresh
<1>4. recent \subseteq Listings /\ ToSet(due) = ToSet(run[r].found) \ recent
  BY <1>2, <1>3
<1>5. run' = [run EXCEPT ![r] = p]
  <2>1. run' = [run EXCEPT ![r].recent = recent, ![r].todo = due, ![r].pc = pc]
    BY DEF Split, fresh
  <2> HIDE DEF due, pc, recent
  <2> QED BY <1>1, <2>1 DEF RunsOK, Places
<1>6. \/ pc = "persist" /\ due = <<>> /\ ToSet(due) = {}
      \/ pc = "details" /\ due # <<>>
  <2>1. ToSet(<<>>) = {}
    BY DEF ToSet
  <2> HIDE DEF due
  <2> QED BY <2>1
<1> HIDE DEF due, pc, recent
<1>7. /\ p \in Places /\ p.pc = pc /\ p.found = run[r].found /\ p.recent = recent
      /\ p.todo = due /\ p.raw = <<>>
  BY <1>1, <1>2, <1>4, <1>6 DEF Places
<1>8. kind' = kind /\ cache' = cache
  BY DEF Split
<1> HIDE DEF p
<1>9. {item[1] : item \in ToSet(p.raw)} = {}
  BY <1>7 DEF ToSet
<1>10. PlaceOK(p, DOMAIN cache')
  BY <1>1, <1>4, <1>6, <1>7, <1>8, <1>9 DEF PlaceOK
<1> QED BY <1>5, <1>7, <1>8, <1>10, Moves

\* A detail page, which gives a list of items.
LEMMA AdvanceMoves ==
  ASSUME RunsOK, NEW r \in Runs, run[r].pc = "details", kind # "glassdoor",
         NEW items \in Seq(Items), Advance(r, run[r].raw \o items), kind' = kind, cache' = cache
  PROVE  RunsOK'
<1> DEFINE rest == Tail(run[r].todo)
           raw == run[r].raw \o items
           pc == IF rest = <<>> THEN "persist" ELSE "details"
           p == [run[r] EXCEPT !.todo = rest, !.raw = raw, !.pc = pc]
<1>1. /\ run[r] \in Places /\ PlaceOK(run[r], DOMAIN cache) /\ run[r].todo # <<>>
      /\ run[r].todo \in Seq(Listings) /\ run[r].raw \in Seq(Items)
  BY PlaceParts DEF PlaceOK
<1>2. rest \in Seq(Listings)
  BY <1>1
<1>3. raw \in Seq(Items)
  <2> DEFINE T == Items
  <2>1. run[r].raw \in Seq(T) /\ items \in Seq(T)
    BY <1>1
  <2> HIDE DEF T
  <2>2. run[r].raw \o items \in Seq(T)
    BY <2>1
  <2> QED BY <2>2 DEF T
<1>4. run' = [run EXCEPT ![r] = p]
  <2>1. run' = [run EXCEPT ![r].todo = rest, ![r].raw = raw,
                           ![r].pc = IF rest = <<>> THEN "persist" ELSE @]
    BY DEF Advance
  <2> HIDE DEF rest, raw
  <2> QED BY <1>1, <2>1 DEF RunsOK, Places
<1>5. pc = "persist" \/ (pc = "details" /\ rest # <<>>)
  OBVIOUS
<1> HIDE DEF rest, raw, pc
<1>6. p \in Places /\ p.pc = pc /\ p.found = run[r].found /\ p.todo = rest
  BY <1>1, <1>2, <1>3, <1>5 DEF Places
<1> HIDE DEF p
<1>7. PlaceOK(p, DOMAIN cache')
  BY <1>1, <1>5, <1>6 DEF PlaceOK
<1> QED BY <1>4, <1>6, <1>7, Moves

LEMMA DetailsMove ==
  ASSUME RunsOK, NEW r \in Runs, DetailDice(r) \/ DetailLinkedIn(r)
  PROVE  RunsOK'
<1>1. run[r].pc = "details" /\ kind \in {"dice", "linkedin"} /\ kind' = kind /\ cache' = cache
  BY DEF DetailDice, DetailLinkedIn
<1>2. run[r].todo # <<>> /\ run[r].todo \in Seq(Listings)
  BY <1>1, PlaceParts DEF PlaceOK
<1> DEFINE l == Head(run[r].todo)
<1>3. l \in Listings
  BY <1>2
<1> HIDE DEF l
<1>4. \A p \in Offers[kind][l] : << <<l, p>> >> \in Seq(Items)
  <2>1. \A p \in Offers[kind][l] : <<l, p>> \in Items
    BY <1>3 DEF Items
  <2> QED BY <2>1
<1>5. <<>> \in Seq(Items)
  OBVIOUS
<1>6. CASE DetailDice(r)
  <2>1. kind = "dice"
    BY <1>6 DEF DetailDice
  <2>2. PICK items \in DiceDetail(l) : Advance(r, run[r].raw \o items)
    BY <1>6 DEF DetailDice, l
  <2>3. items \in Seq(Items)
    BY <1>4, <1>5, <2>1, <2>2 DEF DiceDetail
  <2> QED BY <1>1, <2>1, <2>2, <2>3, AdvanceMoves
<1>7. CASE DetailLinkedIn(r)
  <2>1. kind = "linkedin"
    BY <1>7 DEF DetailLinkedIn
  <2>2. PICK items \in LinkedInDetail(l) : Advance(r, run[r].raw \o items)
    BY <1>7 DEF DetailLinkedIn, l
  <2>3. items \in Seq(Items)
    BY <1>4, <1>5, <2>1, <2>2 DEF LinkedInDetail
  <2> QED BY <1>1, <2>1, <2>2, <2>3, AdvanceMoves
<1> QED BY <1>6, <1>7

\* Glassdoor's details: the cache still holds every candidate.
LEMMA CachedMoves ==
  ASSUME DataOK, RunsOK, NEW r \in Runs, FetchCached(r)
  PROVE  RunsOK'
<1> DEFINE served == Filter(run[r].todo, DOMAIN cache)
           raw == [i \in DOMAIN served |-> <<served[i], cache[served[i]]>>]
           p == [run[r] EXCEPT !.pc = "persist", !.raw = raw]
<1>1. /\ run[r].pc = "details" /\ kind = "glassdoor" /\ kind' = kind /\ cache' = cache
      /\ run' = [run EXCEPT ![r].pc = "persist", ![r].raw = raw]
  BY DEF FetchCached
<1>2. /\ run[r] \in Places /\ PlaceOK(run[r], DOMAIN cache) /\ run[r].todo \in Seq(Listings)
  BY PlaceParts
<1>3. /\ ToSet(run[r].found) \subseteq DOMAIN cache
      /\ ToSet(run[r].todo) = ToSet(run[r].found) \ run[r].recent
  BY <1>1, <1>2 DEF PlaceOK
<1>4. served \in Seq(Listings) /\ ToSet(served) = ToSet(run[r].todo) \cap DOMAIN cache
  BY <1>2, FilterFacts
<1>5. ToSet(served) = ToSet(run[r].found) \ run[r].recent /\ ToSet(served) \subseteq DOMAIN cache
  BY <1>3, <1>4
<1> HIDE DEF served
<1>6. \A i \in DOMAIN served : served[i] \in DOMAIN cache /\ served[i] \in Listings
  BY <1>4, <1>5 DEF ToSet
<1>7. \A i \in DOMAIN served : <<served[i], cache[served[i]]>> \in Items
  BY <1>1, <1>6 DEF DataOK, Items
<1>8. raw \in Seq(Items)
  <2>1. DOMAIN served = 1 .. Len(served) /\ Len(served) \in Nat
    BY <1>4
  <2>2. raw \in [1 .. Len(served) -> Items]
    BY <1>7, <2>1
  <2>3. raw \in SeqOf(Items, Len(served))
    BY <2>1, <2>2 DEF SeqOf
  <2> QED BY <2>1, <2>3, BoundedLists
<1>9. {item[1] : item \in ToSet(raw)} = ToSet(served)
  <2>1. DOMAIN raw = DOMAIN served /\ \A i \in DOMAIN served : raw[i][1] = served[i]
    OBVIOUS
  <2> HIDE DEF raw
  <2>2. ToSet(raw) = {raw[i] : i \in DOMAIN raw} /\ ToSet(served) = {served[i] : i \in DOMAIN served}
    BY DEF ToSet
  <2> QED BY <2>1, <2>2
<1> HIDE DEF raw
<1>10. run' = [run EXCEPT ![r] = p]
  BY <1>1, <1>2 DEF RunsOK, Places
<1>11. p \in Places /\ p.pc = "persist" /\ p.found = run[r].found /\ p.recent = run[r].recent /\ p.raw = raw
  BY <1>2, <1>8 DEF Places
<1> HIDE DEF p
<1>12. PlaceOK(p, DOMAIN cache')
  BY <1>2, <1>5, <1>9, <1>11 DEF PlaceOK
<1> QED BY <1>1, <1>10, <1>11, <1>12, Moves

LEMMA StaysPut ==
  ASSUME RunsOK, run' = run, kind' = kind, cache' = cache
  PROVE  RunsOK'
<1>1. Places' = Places
  BY DEF Places, Items
<1>2. \A r \in Runs : PlaceOK(run[r], DOMAIN cache)'
  BY DEF RunsOK, PlaceOK
<1> QED BY <1>1, <1>2 DEF RunsOK

LEMMA RunsStep ==
  ASSUME DataOK, RunsOK, [Next]_vars
  PROVE  RunsOK'
<1>1. CASE UNCHANGED vars
  BY <1>1, StaysPut DEF vars
<1>2. ASSUME NEW r \in Runs, Start(r) PROVE RunsOK'
  BY <1>2, StartMoves
<1>3. ASSUME NEW r \in Runs, DiscoverDice(r) \/ DiscoverLinkedIn(r) \/ DiscoverGlassdoor(r) PROVE RunsOK'
  BY <1>3, DiscoverMoves
<1>4. ASSUME NEW r \in Runs, RetryGlassdoor(r) PROVE RunsOK'
  BY <1>4, RetryMoves
<1>5. ASSUME NEW r \in Runs, SearchFails(r) PROVE RunsOK'
  BY <1>5, MovesIdle DEF SearchFails, Finish
<1>6. ASSUME NEW r \in Runs, CollectHits(r) PROVE RunsOK'
  BY <1>6, HitsMove
<1>7. ASSUME NEW r \in Runs, Blocked(r) PROVE RunsOK'
  BY <1>7, MovesIdle DEF Blocked, Finish
<1>8. ASSUME NEW r \in Runs, Split(r) PROVE RunsOK'
  BY <1>8, SplitMoves
<1>9. ASSUME NEW r \in Runs, DetailDice(r) \/ DetailLinkedIn(r) PROVE RunsOK'
  BY <1>9, DetailsMove
<1>10. ASSUME NEW r \in Runs, DetailFails(r) PROVE RunsOK'
  BY <1>10, MovesIdle DEF DetailFails, Finish
<1>11. ASSUME NEW r \in Runs, FetchCached(r) PROVE RunsOK'
  BY <1>11, CachedMoves
<1>12. ASSUME NEW r \in Runs, Persist(r) PROVE RunsOK'
  BY <1>12, MovesIdle DEF Persist, Finish
<1>13. ASSUME NEW r \in Runs, Abort(r) PROVE RunsOK'
  BY <1>13, MovesIdle DEF Abort, Finish
<1>14. CASE ApplyLocal \/ FetchLive \/ TimePasses
  BY <1>14, StaysPut DEF ApplyLocal, FetchLive, TimePasses
<1> QED
  BY <1>1, <1>2, <1>3, <1>4, <1>5, <1>6, <1>7, <1>8, <1>9, <1>10, <1>11, <1>12, <1>13, <1>14 DEF Next

\* What the end of persist_raw_jobs makes of the tables.
Written(end) == legacy' = end.legacy /\ job' = end.job /\ done' = done \cup end.jobSeen

\* The items that --fetch-live persists.
LEMMA LiveItems ==
  ASSUME NEW order \in Seq(Listings), NEW p \in Payloads(ToSet(order))
  PROVE  [i \in DOMAIN order |-> <<order[i], p[order[i]]>>] \in Seq(Items)
<1>1. DOMAIN order = 1 .. Len(order) /\ Len(order) \in Nat
  OBVIOUS
<1>2. \A i \in DOMAIN order : order[i] \in ToSet(order) /\ order[i] \in Listings
  BY DEF ToSet
<1>3. \A l \in ToSet(order) : p[l] \in Offers[kind][l]
  BY DEF Payloads
<1>4. \A i \in DOMAIN order : <<order[i], p[order[i]]>> \in Items
  BY <1>2, <1>3 DEF Items
<1>5. [i \in DOMAIN order |-> <<order[i], p[order[i]]>>] \in [1 .. Len(order) -> Items]
  BY <1>1, <1>4
<1>6. [i \in DOMAIN order |-> <<order[i], p[order[i]]>>] \in SeqOf(Items, Len(order))
  BY <1>1, <1>5 DEF SeqOf
<1> QED BY <1>1, <1>6, BoundedLists

LEMMA PersistWrites ==
  ASSUME DataOK, RunsOK, NEW r \in Runs, Persist(r)
  PROVE  \E end \in Saved : /\ SaveInv(end, Len(run[r].raw), run[r].raw) /\ Written(end)
                            /\ result' = ResultOf(run[r].raw, Touch(end, run[r].recent))
                            /\ run' = [run EXCEPT ![r] = Idle] /\ repaired' = {}
<1>1. PICK bad, badJob \in SUBSET (DOMAIN run[r].raw) :
        LET end == persist_raw_jobs(run[r].raw, bad, badJob)
        IN Written(end) /\ Finish(r, ResultOf(run[r].raw, Touch(end, run[r].recent)))
  BY DEF Persist, Written
<1>2. TablesOK /\ run[r].raw \in Seq(Items)
  BY PlaceParts DEF DataOK, TablesOK
<1>3. LET end == persist_raw_jobs(run[r].raw, bad, badJob)
      IN end \in Saved /\ SaveInv(end, Len(run[r].raw), run[r].raw)
  BY <1>2, PersistFacts
<1> QED BY <1>1, <1>3 DEF Finish

LEMMA LiveWrites ==
  ASSUME DataOK, FetchLive
  PROVE  \E end \in Saved : Written(end) /\ \E raw : SaveInv(end, Len(raw), raw)
<1>1. PICK order \in SeqOf(LiveCandidates, RepairLimit) :
        \E p \in Payloads(ToSet(order)), bad, badJob \in SUBSET (DOMAIN order) :
          Written(persist_raw_jobs([i \in DOMAIN order |-> <<order[i], p[order[i]]>>], bad, badJob))
  BY DEF FetchLive, Written
<1>2. PICK p \in Payloads(ToSet(order)), bad, badJob \in SUBSET (DOMAIN order) :
        Written(persist_raw_jobs([i \in DOMAIN order |-> <<order[i], p[order[i]]>>], bad, badJob))
  BY <1>1
<1> DEFINE raw == [i \in DOMAIN order |-> <<order[i], p[order[i]]>>]
           end == persist_raw_jobs(raw, bad, badJob)
<1>3. LiveCandidates \subseteq Listings
  BY DEF LiveCandidates, FirstOf
<1>4. order \in Seq(Listings)
  <2>1. order \in SeqOf(Listings, RepairLimit)
    BY <1>3 DEF SeqOf
  <2> QED BY <2>1, RunConstants, BoundedLists
<1>5. raw \in Seq(Items)
  BY <1>4, LiveItems
<1>6. TablesOK
  BY DEF DataOK, TablesOK
<1>7. Written(end)
  BY <1>2
<1> HIDE DEF raw
<1>8. end \in Saved /\ SaveInv(end, Len(raw), raw)
  BY <1>5, <1>6, PersistFacts
<1> HIDE DEF end
<1> QED BY <1>7, <1>8

\* What every step but those of the tables leaves alone.
Reads == UNCHANGED <<kind, legacy, job, done>> /\ repaired' = {}

LEMMA FailuresTyped == \A why \in {"retry", "error"} : NoResult \in Outcomes /\ Failed(why) \in Outcomes
<1>1. NoResult \in Outcomes
  BY DEF NoResult, Outcomes
<1> QED BY <1>1 DEF Failed, Outcomes

\* The steps of a run before it persists only read the tables.
LEMMA ReadSteps ==
  ASSUME NEW r \in Runs,
         \/ Start(r) \/ DiscoverDice(r) \/ DiscoverLinkedIn(r) \/ DiscoverGlassdoor(r)
         \/ RetryGlassdoor(r) \/ SearchFails(r) \/ CollectHits(r) \/ Blocked(r)
         \/ Split(r) \/ DetailDice(r) \/ DetailLinkedIn(r) \/ DetailFails(r) \/ FetchCached(r)
         \/ Abort(r)
  PROVE  Reads /\ result' \in Outcomes /\ result'.status \in {"none", "retry", "error"}
<1>1. ASSUME Silent PROVE result' \in Outcomes /\ result'.status = "none" /\ repaired' = {}
  BY <1>1, FailuresTyped DEF Silent, NoResult
<1>2. ASSUME NEW why \in {"retry", "error"}, Finish(r, Failed(why))
      PROVE  result' \in Outcomes /\ result'.status = why /\ repaired' = {}
  BY <1>2, FailuresTyped DEF Finish, Failed, NoResult
<1>3. CASE Start(r)
  BY <1>1, <1>3 DEF Start, Reads, tables
<1>4. CASE DiscoverDice(r) \/ DiscoverLinkedIn(r) \/ DiscoverGlassdoor(r)
  BY <1>1, <1>4 DEF DiscoverDice, DiscoverLinkedIn, DiscoverGlassdoor, Reads, tables
<1>5. CASE RetryGlassdoor(r)
  BY <1>1, <1>5 DEF RetryGlassdoor, Reads, tables
<1>6. CASE SearchFails(r)
  <2>1. PICK why \in {"retry", "error"} : Finish(r, Failed(why))
    BY <1>6 DEF SearchFails, StatusDice, StatusLinkedIn, StatusGlassdoor
  <2> QED BY <1>2, <1>6, <2>1 DEF SearchFails, Reads, tables
<1>7. CASE CollectHits(r)
  BY <1>1, <1>7 DEF CollectHits, Reads, tables
<1>8. CASE Blocked(r)
  BY <1>2, <1>8 DEF Blocked, Reads, tables
<1>9. CASE Split(r)
  BY <1>1, <1>9 DEF Split, Reads, tables
<1>10. CASE DetailDice(r) \/ DetailLinkedIn(r)
  BY <1>1, <1>10 DEF DetailDice, DetailLinkedIn, Reads, tables
<1>11. CASE DetailFails(r)
  <2>1. PICK why \in {"retry", "error"} : Finish(r, Failed(why))
    BY <1>11 DEF DetailFails, StatusDice, StatusLinkedIn
  <2> QED BY <1>2, <1>11, <2>1 DEF DetailFails, Reads, tables
<1>12. CASE FetchCached(r)
  BY <1>1, <1>12 DEF FetchCached, Reads, tables
<1>13. CASE Abort(r)
  BY <1>2, <1>13 DEF Abort, Reads, tables
<1> QED BY <1>3, <1>4, <1>5, <1>6, <1>7, <1>8, <1>9, <1>10, <1>11, <1>12, <1>13

\* A step of the specification, told apart by what it does to the tables.
LEMMA StepKinds ==
  ASSUME [Next]_vars
  PROVE  \/ UNCHANGED vars
         \/ Reads /\ result' \in Outcomes /\ result'.status \in {"none", "retry", "error"}
         \/ \E r \in Runs : Persist(r)
         \/ ApplyLocal
         \/ FetchLive
         \/ TimePasses
BY ReadSteps DEF Next

\* Only a page of Glassdoor changes the cache.
LEMMA CacheStep ==
  ASSUME DataOK, RunsOK, [Next]_vars
  PROVE  DOMAIN cache' \subseteq Listings /\ \A l \in DOMAIN cache' : cache'[l] \in Offers["glassdoor"][l]
<1>1. ASSUME NEW r \in Runs, DiscoverGlassdoor(r)
      PROVE  DOMAIN cache' \subseteq Listings /\ \A l \in DOMAIN cache' : cache'[l] \in Offers["glassdoor"][l]
  <2>1. PICK body \in Bodies :
          LET new == ToSet(CollectNew(run[r].found, GlassdoorSearch(body))) \ ToSet(run[r].found)
          IN \E p \in Payloads(new) :
               cache' = [l \in new \cup DOMAIN cache |-> IF l \in new THEN p[l] ELSE cache[l]]
    BY <1>1 DEF DiscoverGlassdoor
  <2> DEFINE new == ToSet(CollectNew(run[r].found, GlassdoorSearch(body))) \ ToSet(run[r].found)
  <2>2. PICK p \in Payloads(new) :
          cache' = [l \in new \cup DOMAIN cache |-> IF l \in new THEN p[l] ELSE cache[l]]
    BY <2>1
  <2>3. GlassdoorSearch(body) \in Seq(Listings) /\ run[r].found \in Seq(Listings)
    BY RunConstants, BoundedLists, DeduplicateTyped, PlaceParts DEF Bodies, GlassdoorSearch
  <2>4. new \subseteq Listings
    <3>1. CollectNew(run[r].found, GlassdoorSearch(body)) \in Seq(Listings)
      BY <2>3, RunConstants, AddNewFacts DEF CollectNew
    <3> QED BY <3>1 DEF ToSet
  <2>5. kind = "glassdoor"
    BY <1>1 DEF DiscoverGlassdoor
  <2> HIDE DEF new
  <2>6. \A l \in new : p[l] \in Offers["glassdoor"][l]
    BY <2>5 DEF Payloads
  <2> QED BY <2>2, <2>4, <2>6 DEF DataOK
<1>2. CASE cache' = cache
  BY <1>2 DEF DataOK
<1>3. cache' = cache \/ \E r \in Runs : DiscoverGlassdoor(r)
  BY DEF Next, vars, Start, DiscoverDice, DiscoverLinkedIn, RetryGlassdoor, SearchFails, CollectHits,
         Blocked, Split, DetailDice, DetailLinkedIn, DetailFails, FetchCached, Persist, Abort,
         ApplyLocal, FetchLive, TimePasses
<1> QED BY <1>1, <1>2, <1>3

\* What --apply-local makes of jobs: rows that hold all that global_jobs has of them.
LEMMA LocalWrites ==
  ASSUME DataOK, ApplyLocal
  PROVE  /\ job' \in [Listings -> JobRows]
         /\ LocalCandidates \subseteq Listings
         /\ \A l \in LocalCandidates : legacy[l].core \subseteq job'[l].core
         /\ \A l \in Listings : /\ Known(job[l]) \subseteq Known(job'[l])
                                /\ KnownPay(job[l]) \subseteq KnownPay(job'[l])
                                /\ job[l].detail => job'[l].detail
<1>1. PICK pay \in ScrapedPays :
        job' = [l \in Listings |-> IF l \in LocalCandidates
                                   THEN MergeJob(job[l], FromLegacy(legacy[l], pay), FALSE) ELSE job[l]]
  BY DEF ApplyLocal
<1>2. LocalCandidates \subseteq Listings
  BY DEF LocalCandidates, FirstOf
<1>3. ASSUME NEW l \in Listings
      PROVE  LET new == MergeJob(job[l], FromLegacy(legacy[l], pay), FALSE)
             IN /\ new \in JobRows /\ legacy[l].core \subseteq new.core
                /\ Known(job[l]) \subseteq Known(new) /\ KnownPay(job[l]) \subseteq KnownPay(new)
                /\ new.detail = job[l].detail
  <2>1. legacy[l] \in LegacyRows /\ job[l] \in JobRows
    BY DEF DataOK
  <2>2. extract_experience(legacy[l].doc) \in Range2s
    BY <2>1, ExperienceTyped DEF LegacyRows
  <2> DEFINE d == FromLegacy(legacy[l], pay)
  <2>3. d \in Facts /\ d.core = legacy[l].core
    BY <2>1, <2>2, RunConstants DEF FromLegacy, Facts, LegacyRows
  <2> HIDE DEF d
  <2>4. /\ MergeJob(job[l], d, FALSE) \in JobRows
        /\ Known(job[l]) \subseteq Known(MergeJob(job[l], d, FALSE))
        /\ KnownPay(job[l]) \subseteq KnownPay(MergeJob(job[l], d, FALSE))
        /\ MergeJob(job[l], d, FALSE).core = job[l].core \cup d.core
    BY <2>1, <2>3, MergedJob
  <2>5. MergeJob(job[l], d, FALSE).detail = job[l].detail
    BY <2>1 DEF MergeJob, JobRows
  <2> QED BY <2>3, <2>4, <2>5 DEF d
<1>4. \A l \in Listings :
        job'[l] = IF l \in LocalCandidates THEN MergeJob(job[l], FromLegacy(legacy[l], pay), FALSE) ELSE job[l]
  BY <1>1
<1>5. job' \in [Listings -> JobRows]
  BY <1>1, <1>3 DEF DataOK
<1> QED BY <1>2, <1>3, <1>4, <1>5

LEMMA ResultTyped ==
  ASSUME NEW r \in Runs, RunsOK, NEW end \in Saved
  PROVE  LET res == ResultOf(run[r].raw, Touch(end, run[r].recent))
         IN /\ res \in Outcomes /\ res.status = Status(end) /\ res.raw = Len(run[r].raw)
            /\ res.inserted = end.inserted /\ res.refreshed = end.refreshed /\ res.failed = end.failed
            /\ res.legacySeen = end.legacySeen \cup {l \in run[r].recent : legacy[l].stored}
            /\ res.jobSeen = end.jobSeen \cup {l \in run[r].recent : job[l].stored}
<1> DEFINE all == Touch(end, run[r].recent)
<1>1. run[r].recent \subseteq Listings /\ Len(run[r].raw) \in Nat
  BY PlaceParts
<1>2. /\ all \in Saved /\ all.failed = end.failed /\ all.canonicalFailed = end.canonicalFailed
      /\ all.inserted = end.inserted /\ all.refreshed = end.refreshed
      /\ all.legacySeen = end.legacySeen \cup {l \in run[r].recent : legacy[l].stored}
      /\ all.jobSeen = end.jobSeen \cup {l \in run[r].recent : job[l].stored}
  BY <1>1 DEF Touch, Saved
<1> HIDE DEF all
<1>3. Status(all) = Status(end) /\ Status(all) \in {"partial", "success"}
  BY <1>2 DEF Status
<1>4. ResultOf(run[r].raw, all) \in Outcomes
  BY <1>1, <1>2, <1>3 DEF ResultOf, Outcomes, Saved
<1>5. /\ ResultOf(run[r].raw, all).status = Status(all) /\ ResultOf(run[r].raw, all).raw = Len(run[r].raw)
      /\ ResultOf(run[r].raw, all).inserted = all.inserted
      /\ ResultOf(run[r].raw, all).refreshed = all.refreshed
      /\ ResultOf(run[r].raw, all).failed = all.failed
      /\ ResultOf(run[r].raw, all).legacySeen = all.legacySeen
      /\ ResultOf(run[r].raw, all).jobSeen = all.jobSeen
  BY DEF ResultOf
<1> QED BY <1>2, <1>3, <1>4, <1>5 DEF all

LEMMA DataStep ==
  ASSUME DataOK, RunsOK, [Next]_vars
  PROVE  DataOK'
<1>1. DOMAIN cache' \subseteq Listings /\ \A l \in DOMAIN cache' : cache'[l] \in Offers["glassdoor"][l]
  BY CacheStep
<1>2. CASE UNCHANGED vars
  BY <1>2 DEF vars, DataOK
<1>3. CASE Reads /\ result' \in Outcomes
  BY <1>1, <1>3 DEF Reads, DataOK
<1>4. ASSUME NEW r \in Runs, Persist(r) PROVE DataOK'
  <2>1. PICK end \in Saved : /\ Written(end) /\ repaired' = {}
                             /\ result' = ResultOf(run[r].raw, Touch(end, run[r].recent))
    BY <1>4, PersistWrites
  <2>2. result' \in Outcomes
    BY <2>1, ResultTyped
  <2>3. kind' = kind
    BY <1>4 DEF Persist
  <2> QED BY <1>1, <2>1, <2>2, <2>3 DEF Written, Saved, DataOK
<1>5. CASE ApplyLocal
  <2>1. result' \in Outcomes /\ repaired' = LocalCandidates /\ UNCHANGED <<kind, legacy, done>>
    BY <1>5, FailuresTyped DEF ApplyLocal
  <2>2. job' \in [Listings -> JobRows] /\ LocalCandidates \subseteq Listings
    BY <1>5, LocalWrites
  <2> QED BY <1>1, <2>1, <2>2 DEF DataOK
<1>6. CASE FetchLive
  <2>1. PICK end \in Saved : Written(end)
    BY <1>6, LiveWrites
  <2>2. result' \in Outcomes /\ repaired' = {} /\ kind' = kind
    BY <1>6, FailuresTyped DEF FetchLive, Silent
  <2> QED BY <1>1, <2>1, <2>2 DEF Written, Saved, DataOK
<1>7. CASE TimePasses
  <2>1. /\ legacy' = [l \in Listings |-> [legacy[l] EXCEPT !.recent = FALSE]] /\ done' = {}
        /\ result' \in Outcomes /\ repaired' = {} /\ UNCHANGED <<kind, job>>
    BY <1>7, FailuresTyped DEF TimePasses, Silent
  <2>2. legacy' \in [Listings -> LegacyRows]
    BY <2>1 DEF DataOK, LegacyRows
  <2> QED BY <1>1, <2>1, <2>2 DEF DataOK
<1> QED BY <1>2, <1>3, <1>4, <1>5, <1>6, <1>7, StepKinds

LEMMA DoneStep ==
  ASSUME DataOK, RunsOK, DoneOK, [Next]_vars
  PROVE  DoneOK'
<1>1. CASE UNCHANGED vars \/ Reads
  BY <1>1 DEF vars, Reads, DoneOK
<1>2. ASSUME NEW end \in Saved, NEW i, NEW raw, SaveInv(end, i, raw), Written(end) PROVE DoneOK'
  <2>1. \A l \in end.jobSeen : end.legacy[l].recent /\ end.job[l].detail
    BY <1>2 DEF SaveInv, SeenInv
  <2>2. \A l \in done : end.legacy[l].recent /\ end.job[l].detail
    BY <1>2 DEF SaveInv, KeepInv, DoneOK, DataOK
  <2> QED BY <1>2, <2>1, <2>2 DEF Written, DoneOK
<1>3. ASSUME NEW r \in Runs, Persist(r) PROVE DoneOK'
  BY <1>2, <1>3, PersistWrites
<1>4. CASE ApplyLocal
  <2>1. \A l \in Listings : job[l].detail => job'[l].detail
    BY <1>4, LocalWrites
  <2>2. done' = done /\ legacy' = legacy
    BY <1>4 DEF ApplyLocal
  <2> QED BY <2>1, <2>2 DEF DoneOK, DataOK
<1>5. CASE FetchLive
  BY <1>2, <1>5, LiveWrites
<1>6. CASE TimePasses
  BY <1>6 DEF TimePasses, DoneOK
<1> QED BY <1>1, <1>3, <1>4, <1>5, <1>6, StepKinds

\* The inductive invariant holds in every state of a collection worker.
LEMMA Invariance == Spec => []Inv
<1>1. Inv /\ [Next]_vars => Inv'
  BY DataStep, RunsStep, DoneStep DEF Inv
<1> QED BY InitOK, <1>1, PTL DEF Spec

-----------------------------------------------------------------------------
(* The theorems.                                                           *)

\* The variables have their types; discover returns at most max_jobs listings, each of
\* them once, for every number of runs, listings, pages and payloads.
THEOREM TypeCorrect == Spec => []TypeOK
<1>1. Inv => TypeOK
  BY DEF Inv, DataOK, RunsOK, PlaceOK, TypeOK
<1> QED BY Invariance, <1>1, PTL

\* Glassdoor's fetch_details serves every listing that discover collected and that is
\* due: whatever other runs do with the shared _cache, none of them is missing.
THEOREM CacheIsEnough == Spec => []CacheServes
<1>1. Inv => CacheServes
  BY DEF Inv, RunsOK, PlaceOK, CacheServes
<1> QED BY Invariance, <1>1, PTL

\* The rows that --apply-local has replayed are no longer candidates for it.
THEOREM RepairHelps == Spec => []LocalRepairHelps
<1>1. Init => LocalRepairHelps
  BY DEF Init, LocalRepairHelps
<1>2. Inv /\ LocalRepairHelps /\ [Next]_vars => LocalRepairHelps'
  <2> SUFFICES ASSUME Inv, LocalRepairHelps, [Next]_vars PROVE LocalRepairHelps'
    OBVIOUS
  <2>1. CASE UNCHANGED vars
    BY <2>1 DEF vars, LocalRepairHelps
  <2>2. CASE repaired' = {}
    BY <2>2 DEF LocalRepairHelps
  <2>3. CASE ApplyLocal
    <3>1. /\ repaired' = LocalCandidates /\ legacy' = legacy
          /\ \A l \in LocalCandidates : legacy[l].core \subseteq job'[l].core
      BY <2>3, LocalWrites DEF ApplyLocal, Inv
    <3> QED BY <3>1 DEF LocalRepairHelps, Improvable
  <2>4. UNCHANGED vars \/ repaired' = {} \/ ApplyLocal
    BY StepKinds DEF Reads, Persist, Finish, FetchLive, TimePasses, Silent
  <2> QED BY <2>1, <2>2, <2>3, <2>4
<1> QED BY Invariance, <1>1, <1>2, PTL DEF Spec

\* A run whose search is over splits its listings, ends, or waits.
LEMMA SplitIsNext ==
  ASSUME run \in [Runs -> Places], Next, NEW r \in Runs, run[r].pc = "split"
  PROVE  Split(r) \/ run'[r] = Idle \/ run'[r] = run[r]
<1>1. ASSUME NEW q \in Runs, NEW x, run' = [run EXCEPT ![q] = x], x = Idle \/ q # r
      PROVE  run'[r] = Idle \/ run'[r] = run[r]
  BY <1>1
<1>2. ASSUME NEW q \in Runs, Start(q) PROVE run'[r] = run[r]
  BY <1>2 DEF Start
<1>3. ASSUME NEW q \in Runs, DiscoverDice(q) \/ DiscoverLinkedIn(q) \/ DiscoverGlassdoor(q) PROVE run'[r] = run[r]
  <2>1. q # r /\ \E jobs, last : TakePage(q, jobs, last)
    BY <1>3 DEF DiscoverDice, DiscoverLinkedIn, DiscoverGlassdoor
  <2> QED BY <2>1 DEF TakePage
<1>4. ASSUME NEW q \in Runs, RetryGlassdoor(q) PROVE run'[r] = run[r]
  BY <1>4 DEF RetryGlassdoor
<1>5. ASSUME NEW q \in Runs, CollectHits(q) PROVE run'[r] = run[r]
  BY <1>5 DEF CollectHits
<1>6. ASSUME NEW q \in Runs, Split(q), q # r PROVE run'[r] = run[r]
  BY <1>6 DEF Split
<1>7. ASSUME NEW q \in Runs, DetailDice(q) \/ DetailLinkedIn(q) PROVE run'[r] = run[r]
  <2>1. q # r /\ \E raw : Advance(q, raw)
    BY <1>7 DEF DetailDice, DetailLinkedIn
  <2> QED BY <2>1 DEF Advance
<1>8. ASSUME NEW q \in Runs, FetchCached(q) PROVE run'[r] = run[r]
  BY <1>8 DEF FetchCached
<1>9. ASSUME NEW q \in Runs, SearchFails(q) \/ Blocked(q) \/ DetailFails(q) \/ Persist(q) \/ Abort(q)
      PROVE  run'[r] = Idle \/ run'[r] = run[r]
  <2>1. run' = [run EXCEPT ![q] = Idle]
    BY <1>9 DEF SearchFails, Blocked, DetailFails, Persist, Abort, Finish
  <2> QED BY <1>1, <2>1
<1>10. CASE ApplyLocal \/ FetchLive \/ TimePasses
  BY <1>10 DEF ApplyLocal, FetchLive, TimePasses
<1> QED BY <1>2, <1>3, <1>4, <1>5, <1>6, <1>7, <1>8, <1>9, <1>10 DEF Next

\* The split of a run never asks for a listing that went into both tables within the
\* last six hours, whichever run persisted it and however incomplete it is.
THEOREM FetchIsNeeded == Spec => NoNeedlessFetch
<1> DEFINE A == \A r \in Runs : run[r].pc = "split" => ToSet(run'[r].todo) \cap done = {}
<1>1. Inv /\ [Next]_vars => [A]_vars
  <2> SUFFICES ASSUME Inv, Next, NEW r \in Runs, run[r].pc = "split"
               PROVE  ToSet(run'[r].todo) \cap done = {}
    OBVIOUS
  <2>1. run \in [Runs -> Places] /\ run[r].todo = <<>> /\ run[r].found \in Seq(Listings) /\ ToSet(<<>>) = {}
    <3>1. run \in [Runs -> Places] /\ PlaceOK(run[r], DOMAIN cache) /\ run[r].found \in Seq(Listings)
      BY PlaceParts DEF Inv, RunsOK
    <3>2. run[r].todo = <<>>
      BY <3>1 DEF PlaceOK
    <3>3. ToSet(<<>>) = {}
      BY DEF ToSet
    <3> QED BY <3>1, <3>2, <3>3
  <2>2. CASE Split(r)
    <3> DEFINE recent == {l \in Listings : Recent(l)}
               due == Filter(run[r].found, Listings \ recent)
    <3>1. run'[r].todo = due
      BY <2>1, <2>2 DEF Split, Places
    <3>2. ToSet(due) \subseteq Listings \ recent
      BY <2>1, FilterFacts
    <3>3. done \subseteq recent
      BY DEF Inv, DataOK, DoneOK, Recent
    <3> QED BY <3>1, <3>2, <3>3
  <2>3. CASE run'[r] = Idle \/ run'[r] = run[r]
    BY <2>1, <2>3 DEF Idle
  <2>4. Split(r) \/ run'[r] = Idle \/ run'[r] = run[r]
    BY <2>1, SplitIsNext DEF RunsOK
  <2> QED BY <2>2, <2>3, <2>4
<1> QED BY Invariance, <1>1, PTL DEF Spec, NoNeedlessFetch

\* No step makes a stored row forget a field, an end of its experience range or of its
\* salary range: the merges of upsert and of ingest, item by item and in any order.
THEOREM NothingIsForgotten == Spec => NothingForgotten
<1> DEFINE A == \A l \in Listings : /\ Known(legacy[l]) \subseteq Known(legacy'[l])
                                    /\ Known(job[l]) \subseteq Known(job'[l])
                                    /\ KnownPay(job[l]) \subseteq KnownPay(job'[l])
<1>1. Inv /\ [Next]_vars => [A]_vars
  <2> SUFFICES ASSUME Inv, [Next]_vars PROVE A
    OBVIOUS
  <2>1. CASE UNCHANGED vars \/ Reads
    BY <2>1 DEF vars, Reads
  <2>2. ASSUME NEW end, NEW i, NEW raw, SaveInv(end, i, raw), Written(end) PROVE A
    BY <2>2 DEF SaveInv, KeepInv, Written
  <2>3. ASSUME NEW r \in Runs, Persist(r) PROVE A
    <3>1. PICK end \in Saved : SaveInv(end, Len(run[r].raw), run[r].raw) /\ Written(end)
      BY <2>3, PersistWrites DEF Inv
    <3> HIDE DEF A
    <3> QED BY <2>2, <3>1
  <2>4. CASE ApplyLocal
    <3>1. legacy' = legacy
      BY <2>4 DEF ApplyLocal
    <3> QED BY <2>4, <3>1, LocalWrites DEF Inv
  <2>5. CASE FetchLive
    <3>1. PICK end \in Saved : Written(end) /\ \E raw : SaveInv(end, Len(raw), raw)
      BY <2>5, LiveWrites DEF Inv
    <3> HIDE DEF A
    <3> QED BY <2>2, <3>1
  <2>6. CASE TimePasses
    <3>1. job' = job /\ legacy' = [l \in Listings |-> [legacy[l] EXCEPT !.recent = FALSE]]
      BY <2>6 DEF TimePasses
    <3>2. \A l \in Listings : legacy[l] \in LegacyRows
      BY DEF Inv, DataOK
    <3>3. \A l \in Listings : legacy'[l].core = legacy[l].core /\ legacy'[l].exp = legacy[l].exp
      BY <3>1, <3>2 DEF LegacyRows
    <3> QED BY <3>1, <3>3 DEF Known
  <2> HIDE DEF A
  <2> QED BY <2>1, <2>3, <2>4, <2>5, <2>6, StepKinds
<1> QED BY Invariance, <1>1, PTL DEF Spec, NothingForgotten

\* Only the commit of a run reports "partial" or "success" and ends the run.
LEMMA CommitStep ==
  ASSUME Inv, Next, NEW r \in Runs, run[r].pc = "persist",
         result'.status \in {"partial", "success"}, run'[r].pc = "idle"
  PROVE  Persist(r)
<1>1. ~(result'.status \in {"none", "retry", "error"})
  OBVIOUS
<1>2. run \in [Runs -> Places]
  BY DEF Inv, RunsOK
<1>3. NoResult.status = "none" /\ run' # run
  BY DEF NoResult
<1>4. ~ApplyLocal /\ ~FetchLive /\ ~TimePasses
  BY <1>3 DEF ApplyLocal, FetchLive, TimePasses
<1>5. PICK q \in Runs : Persist(q)
  BY <1>1, <1>4, ReadSteps DEF Next
<1>6. run' = [run EXCEPT ![q] = Idle]
  BY <1>5 DEF Persist, Finish
<1> QED BY <1>2, <1>5, <1>6

\* Without failures, the listings of the items are all marked.
LEMMA SeenItems ==
  ASSUME RunsOK, NEW r \in Runs, NEW end, AllSeen(end, Len(run[r].raw), run[r].raw),
         end.failed = 0, end.canonicalFailed = 0, NEW l \in {item[1] : item \in ToSet(run[r].raw)}
  PROVE  l \in end.legacySeen /\ l \in end.jobSeen
<1>1. DOMAIN run[r].raw = 1 .. Len(run[r].raw)
  BY PlaceParts
<1>2. PICK j \in DOMAIN run[r].raw : l = run[r].raw[j][1]
  BY DEF ToSet
<1> QED BY <1>1, <1>2 DEF AllSeen

\* CoordinatorResult is truthful for every list of items and every pattern of failures:
\* jobs_inserted counts the rows that appear, the counts add up to the items, and a
\* success means that each of them is in both tables.
THEOREM StatisticsAreTruthful == Spec => TruthfulStatistics
<1> DEFINE A == \A r \in Runs : run[r].pc = "persist" /\ result'.status \in {"partial", "success"} /\ run'[r].pc = "idle" =>
                  LET res == result'
                  IN /\ res.inserted = Cardinality({l \in Listings : legacy'[l].stored /\ ~legacy[l].stored})
                     /\ res.raw = res.inserted + res.refreshed + res.failed
                     /\ res.status = "success" =>
                          \A l \in {item[1] : item \in ToSet(run[r].raw)} : legacy'[l].stored /\ job'[l].stored
<1>1. Inv /\ [Next]_vars => [A]_vars
  <2> SUFFICES ASSUME Inv, Next, NEW r \in Runs, run[r].pc = "persist",
                      result'.status \in {"partial", "success"}, run'[r].pc = "idle"
               PROVE  /\ result'.inserted = Cardinality({l \in Listings : legacy'[l].stored /\ ~legacy[l].stored})
                      /\ result'.raw = result'.inserted + result'.refreshed + result'.failed
                      /\ result'.status = "success" =>
                           \A l \in {item[1] : item \in ToSet(run[r].raw)} : legacy'[l].stored /\ job'[l].stored
    OBVIOUS
  <2>1. DataOK /\ RunsOK /\ Persist(r)
    BY CommitStep DEF Inv
  <2>2. PICK end \in Saved : /\ SaveInv(end, Len(run[r].raw), run[r].raw) /\ Written(end)
                             /\ result' = ResultOf(run[r].raw, Touch(end, run[r].recent))
    BY <2>1, PersistWrites
  <2>3. /\ result'.status = Status(end) /\ result'.raw = Len(run[r].raw)
        /\ result'.inserted = end.inserted /\ result'.refreshed = end.refreshed /\ result'.failed = end.failed
    BY <2>1, <2>2, ResultTyped
  <2>4. CountsInv(end, Len(run[r].raw)) /\ SeenInv(end) /\ AllSeen(end, Len(run[r].raw), run[r].raw)
    BY <2>2 DEF SaveInv
  <2>5. Appeared(end) = {l \in Listings : legacy'[l].stored /\ ~legacy[l].stored}
    BY <2>2 DEF Written, Appeared
  <2>6. ASSUME result'.status = "success", NEW l \in {item[1] : item \in ToSet(run[r].raw)}
        PROVE  legacy'[l].stored /\ job'[l].stored
    <3>1. end.failed = 0 /\ end.canonicalFailed = 0
      BY <2>3, <2>6 DEF Status, Saved
    <3>2. l \in end.legacySeen /\ l \in end.jobSeen
      BY <2>1, <2>4, <2>6, <3>1, SeenItems
    <3> QED BY <2>2, <2>4, <3>2 DEF SeenInv, Written
  <2> QED BY <2>3, <2>4, <2>5, <2>6 DEF CountsInv
<1> QED BY Invariance, <1>1, PTL DEF Spec, TruthfulStatistics

\* A run that succeeds marks every stored listing it came across, fetched or recent, as
\* seen in both tables, so that freshness takes none of them for stale.
THEOREM EverythingIsSeen == Spec => EveryListingSeen
<1> DEFINE A == \A r \in Runs : run[r].pc = "persist" /\ result'.status = "success" /\ run'[r].pc = "idle" =>
                  \A l \in {item[1] : item \in ToSet(run[r].raw)} \cup run[r].recent :
                    /\ legacy'[l].stored => l \in result'.legacySeen
                    /\ job'[l].stored => l \in result'.jobSeen
<1>1. Inv /\ [Next]_vars => [A]_vars
  <2> SUFFICES ASSUME Inv, Next, NEW r \in Runs, run[r].pc = "persist", result'.status = "success",
                      run'[r].pc = "idle",
                      NEW l \in {item[1] : item \in ToSet(run[r].raw)} \cup run[r].recent
               PROVE  /\ legacy'[l].stored => l \in result'.legacySeen
                      /\ job'[l].stored => l \in result'.jobSeen
    OBVIOUS
  <2>1. DataOK /\ RunsOK /\ Persist(r)
    BY CommitStep DEF Inv
  <2>2. PICK end \in Saved : /\ SaveInv(end, Len(run[r].raw), run[r].raw) /\ Written(end)
                             /\ result' = ResultOf(run[r].raw, Touch(end, run[r].recent))
    BY <2>1, PersistWrites
  <2>3. /\ result'.status = Status(end)
        /\ result'.legacySeen = end.legacySeen \cup {m \in run[r].recent : legacy[m].stored}
        /\ result'.jobSeen = end.jobSeen \cup {m \in run[r].recent : job[m].stored}
    BY <2>1, <2>2, ResultTyped
  <2>4. SeenInv(end) /\ AllSeen(end, Len(run[r].raw), run[r].raw)
    BY <2>2 DEF SaveInv
  <2>5. CASE l \in {item[1] : item \in ToSet(run[r].raw)}
    <3>1. end.failed = 0 /\ end.canonicalFailed = 0
      BY <2>3 DEF Status, Saved
    <3> QED BY <2>1, <2>3, <2>4, <2>5, <3>1, SeenItems
  <2>6. CASE l \in run[r].recent
    <3>1. l \in Listings
      BY <2>1, <2>6, PlaceParts
    <3> QED BY <2>2, <2>3, <2>4, <2>6, <3>1 DEF SeenInv, Written
  <2> QED BY <2>5, <2>6
<1> QED BY Invariance, <1>1, PTL DEF Spec, EveryListingSeen

=============================================================================
