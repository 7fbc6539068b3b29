-------------------------- MODULE SchedulerProofs --------------------------
(***************************************************************************)
(* Proofs about Scheduler: the window that a cycle takes of the list of    *)
(* organizations, types, the order in which steps are queued, that         *)
(* organizations take turns, and that a step is queued when the calendar   *)
(* says so, for any number of organizations, enrollments, steps, worker    *)
(* processes, and any zones and schedules.                                 *)
(***************************************************************************)
EXTENDS Scheduler, FiniteSetTheorems, SequenceTheorems, WellFoundedInduction, TLAPS

----------------------------------------------------------------------------
(* The list in the order of the ids, and its windows.                        *)

\* The smaller of two numbers.
LEMMA MinOfTwo ==
  ASSUME NEW a \in Int, NEW b \in Int
  PROVE  Min({a, b}) = IF a <= b THEN a ELSE b
<1> DEFINE least == IF a <= b THEN a ELSE b
<1>1. least \in {a, b} /\ \A y \in {a, b} : least =< y
  OBVIOUS
<1>2. Min({a, b}) \in {a, b} /\ \A y \in {a, b} : Min({a, b}) =< y
  BY <1>1 DEF Min
<1> QED
  BY <1>1, <1>2

\* Going round a list once at most.
LEMMA Modulo ==
  ASSUME NEW n \in Nat \ {0}, NEW a \in 0..(2 * n - 1)
  PROVE  a % n = IF a < n THEN a ELSE a - n
OBVIOUS

\* A remainder is less than what it is divided by.
LEMMA ModuloType == ASSUME NEW n \in Nat \ {0}, NEW a \in Nat PROVE a % n \in 0..(n - 1)
OBVIOUS

\* Ids are numbers.
LEMMA Numbers == ASSUME NEW S \in SUBSET Orgs PROVE \A o \in S : o \in Int
BY DEF Orgs

\* Where an organization stands in the list.
Rank(S, o) == Cardinality({x \in S : x <= o})

\* Organizations with greater ids stand further back, and nobody stands outside the list.
LEMMA RankOrders ==
  ASSUME NEW S \in SUBSET Orgs
  PROVE  /\ IsFiniteSet(S) /\ Cardinality(S) \in 0..OrgCount
         /\ \A o \in S : Rank(S, o) \in 1..Cardinality(S)
         /\ \A o, q \in S : o < q => Rank(S, o) < Rank(S, q)
<1>1. IsFiniteSet(Orgs) /\ Cardinality(Orgs) = OrgCount
  BY Assumptions, FS_Interval DEF Orgs
<1>2. IsFiniteSet(S) /\ Cardinality(S) \in 0..OrgCount
  BY <1>1, Assumptions, FS_Subset, FS_CardinalityType
<1>3. ASSUME NEW o \in S PROVE Rank(S, o) \in 1..Cardinality(S) /\ IsFiniteSet({x \in S : x <= o})
  <2>1. IsFiniteSet({x \in S : x <= o}) /\ Cardinality({x \in S : x <= o}) <= Cardinality(S)
    BY <1>2, FS_Subset
  <2>2. o \in {x \in S : x <= o}
    BY DEF Orgs
  <2>3. Cardinality({x \in S : x <= o}) \in Nat /\ Cardinality({x \in S : x <= o}) # 0
    BY <2>1, <2>2, FS_EmptySet, FS_CardinalityType
  <2> QED
    BY <1>2, <2>1, <2>3 DEF Rank
<1>4. ASSUME NEW o \in S, NEW q \in S, o < q PROVE Rank(S, o) < Rank(S, q)
  <2> DEFINE A == {x \in S : x <= o}
             B == {x \in S : x <= q}
  <2>1. A \in SUBSET B /\ q \in B /\ q \notin A
    <3>1. o \in Int /\ q \in Int /\ \A x \in S : x \in Int
      BY Numbers
    <3>2. \A x \in S : x <= o => x <= q
      BY <1>4, <3>1
    <3>3. q <= q /\ ~(q <= o)
      BY <1>4, <3>1
    <3> QED
      BY <3>2, <3>3
  <2>2. IsFiniteSet(B) /\ Cardinality(A) \in Nat /\ Cardinality(B) \in Nat
    BY <1>2, <1>3 DEF Rank
  <2>3. Cardinality(A) <= Cardinality(B) /\ Cardinality(A) # Cardinality(B)
    BY <2>1, <2>2, FS_Subset
  <2> QED
    BY <2>2, <2>3 DEF Rank
<1> QED
  BY <1>2, <1>3, <1>4

\* So the list in the order of the ids exists, and everybody stands where Rank says.
LEMMA Ordered ==
  ASSUME NEW S \in SUBSET Orgs
  PROVE  /\ OrderedById(S) \in [1..Cardinality(S) -> S]
         /\ \A o \in S : OrderedById(S)[Rank(S, o)] = o
<1> DEFINE n == Cardinality(S)
           rank == [o \in S |-> Rank(S, o)]
<1>0. n \in Nat /\ IsFiniteSet(S) /\ IsFiniteSet(1..n) /\ Cardinality(1..n) = n
  BY RankOrders, FS_Interval
<1>1. rank \in [S -> 1..n]
  BY RankOrders
<1>2. \A o, q \in S : rank[o] = rank[q] => o = q
  <2> SUFFICES ASSUME NEW o \in S, NEW q \in S, Rank(S, o) = Rank(S, q) PROVE o = q
    OBVIOUS
  <2>1. o \in Int /\ q \in Int /\ Rank(S, o) \in Int /\ Rank(S, q) \in Int
    BY RankOrders, Numbers
  <2>2. (o < q => Rank(S, o) < Rank(S, q)) /\ (q < o => Rank(S, q) < Rank(S, o))
    BY RankOrders
  <2> QED
    BY <2>1, <2>2
<1>3. rank \in Injection(S, 1..n)
  BY <1>1, <1>2 DEF Injection, IsInjective
<1>4. rank \in Surjection(S, 1..n)
  BY <1>0, <1>3, FS_Injection
<1>5. \A i \in 1..n : \E o \in S : rank[o] = i
  BY <1>4 DEF Surjection
<1> DEFINE f == [i \in 1..n |-> CHOOSE o \in S : rank[o] = i]
<1>6. f \in [1..n -> S] /\ \A i \in 1..n : Rank(S, f[i]) = i
  BY <1>5
<1>7. \A i, j \in DOMAIN f : i < j => f[i] < f[j]
  <2> HIDE DEF f
  <2> SUFFICES ASSUME NEW i \in 1..n, NEW j \in 1..n, i < j PROVE f[i] < f[j]
    BY <1>6
  <2>1. f[i] \in S /\ f[j] \in S /\ Rank(S, f[i]) = i /\ Rank(S, f[j]) = j
    BY <1>6
  <2>2. f[i] \in Int /\ f[j] \in Int
    BY <2>1, Numbers
  <2>3. ~(f[j] < f[i]) /\ f[i] # f[j]
    BY <2>1, RankOrders
  <2> QED
    BY <2>2, <2>3
<1> DEFINE g == OrderedById(S)
<1>8. g \in [1..n -> S] /\ \A i, j \in DOMAIN g : i < j => g[i] < g[j]
  <2> HIDE DEF f
  <2> QED
    BY <1>6, <1>7 DEF OrderedById
<1> HIDE DEF f, g
<1>9. \A i \in 1..n : g[i] \in S /\ g[i] \in Int
  BY <1>8, Numbers
<1>10. \A i, j \in 1..n : g[i] <= g[j] => i <= j
  <2> SUFFICES ASSUME NEW i \in 1..n, NEW j \in 1..n, ~(i <= j) PROVE ~(g[i] <= g[j])
    OBVIOUS
  <2>1. g[j] < g[i]
    BY <1>8
  <2> QED
    BY <1>9, <2>1
<1>11. \A o \in S : \E i \in 1..n : g[i] = o
  <2>1. \A i, j \in 1..n : g[i] = g[j] => i = j
    <3> SUFFICES ASSUME NEW i \in 1..n, NEW j \in 1..n, g[i] = g[j] PROVE i = j
      OBVIOUS
    <3>1. i <= j /\ j <= i
      BY <1>9, <1>10
    <3> QED
      BY <3>1
  <2>2. g \in Injection(1..n, S)
    BY <1>8, <2>1 DEF Injection, IsInjective
  <2>3. g \in Surjection(1..n, S)
    BY <1>0, <2>2, FS_Injection
  <2> QED
    BY <2>3 DEF Surjection
<1>12. ASSUME NEW i \in 1..n PROVE Rank(S, g[i]) = i
  <2> DEFINE T == {x \in S : x <= g[i]}
             h == [j \in 1..i |-> g[j]]
  <2>1. \A j \in 1..i : j \in 1..n /\ g[j] \in T
    <3> SUFFICES ASSUME NEW j \in 1..i PROVE j \in 1..n /\ g[j] <= g[i]
      BY <1>9
    <3>1. j \in 1..n /\ (j < i \/ j = i)
      BY <1>0
    <3>2. g[j] \in Int /\ g[i] \in Int
      BY <1>9, <3>1
    <3> QED
      BY <1>8, <3>1, <3>2
  <2>2. h \in [1..i -> T]
    BY <2>1
  <2>3. \A j, k \in 1..i : h[j] = h[k] => j = k
    <3> SUFFICES ASSUME NEW j \in 1..i, NEW k \in 1..i, g[j] = g[k] PROVE j = k
      OBVIOUS
    <3>1. j \in 1..n /\ k \in 1..n
      BY <2>1
    <3>2. g[j] \in Int /\ g[k] \in Int
      BY <1>9, <3>1
    <3>3. j <= k /\ k <= j
      BY <1>10, <3>1, <3>2
    <3> QED
      BY <3>1, <3>3
  <2>4. \A x \in T : \E j \in 1..i : h[j] = x
    <3> SUFFICES ASSUME NEW x \in S, x <= g[i] PROVE \E j \in 1..i : g[j] = x
      OBVIOUS
    <3>1. PICK j \in 1..n : g[j] = x
      BY <1>11
    <3>2. j <= i
      BY <1>10, <3>1
    <3> QED
      BY <3>1, <3>2
  <2>5. h \in Bijection(1..i, T)
    BY <2>2, <2>3, <2>4 DEF Bijection, Injection, IsInjective, Surjection
  <2>6. IsFiniteSet(1..i) /\ Cardinality(1..i) = i
    BY FS_Interval
  <2>7. ExistsBijection(1..i, T)
    BY <2>5 DEF ExistsBijection
  <2>8. Cardinality(T) = i
    BY <2>6, <2>7, FS_Bijection
  <2> QED
    BY <2>8 DEF Rank
<1>13. \A o \in S : g[Rank(S, o)] = o
  BY <1>11, <1>12
<1> QED
  BY <1>8, <1>13 DEF g

\* How far the list goes on from the offset until it comes to a place.
Gap(place, offset, n) == IF place >= offset THEN place - offset ELSE place - offset + n

\* A window is a sequence of at most MaxOrgsPerCycle organizations, and the next offset is in
\* the list; whoever is left out stands behind the window, and comes nearer by its length.
LEMMA WindowTurns ==
  ASSUME NEW S \in SUBSET Orgs, S # {}, NEW offset \in Nat
  PROVE  LET w == Window(S, offset)
             n == Cardinality(S)
         IN  /\ n \in Nat \ {0}
             /\ w.selected \in Seq(Orgs) /\ Len(w.selected) \in 1..MaxOrgsPerCycle
             /\ w.next \in 0..(n - 1) /\ w.next \in 0..(OrgCount - 1)
             /\ \A o \in S : (\A i \in DOMAIN w.selected : w.selected[i] # o) =>
                  Gap(Rank(S, o) - 1, w.next, n) = Gap(Rank(S, o) - 1, offset % n, n) - MaxOrgsPerCycle
<1> DEFINE w == Window(S, offset)
           n == Cardinality(S)
           start == offset % n
           size == Min({MaxOrgsPerCycle, n})
           order == OrderedById(S)
<1>1. n \in 1..OrgCount /\ n \in Nat \ {0} /\ n <= OrgCount /\ MaxOrgsPerCycle \in Nat \ {0}
  <2>1. IsFiniteSet(S) /\ n \in 0..OrgCount /\ n # 0
    BY RankOrders, FS_EmptySet
  <2> QED
    BY <2>1, Assumptions
<1>2. start \in 0..(n - 1)
  BY <1>1, ModuloType
<1>3. size \in 1..n /\ size <= MaxOrgsPerCycle /\ (size = n \/ size = MaxOrgsPerCycle)
  BY <1>1, MinOfTwo
<1>4. order \in [1..n -> S] /\ \A o \in S : Rank(S, o) \in 1..n /\ order[Rank(S, o)] = o
  BY Ordered, RankOrders
<1>5. /\ w.selected = [i \in 1..size |-> order[((start + i - 1) % n) + 1]]
      /\ w.next = (start + size) % n
  BY DEF Window
<1> HIDE DEF w, n, start, size, order
<1>6. ASSUME NEW a \in 0..(2 * n - 1)
      PROVE  a % n = (IF a < n THEN a ELSE a - n) /\ a % n \in 0..(n - 1)
  <2>1. a \in Nat
    BY <1>1
  <2> QED
    BY <1>1, <2>1, Modulo, ModuloType
<1>7. start + size \in 0..(2 * n - 1) /\ \A i \in 1..size : start + i - 1 \in 0..(2 * n - 1)
  BY <1>1, <1>2, <1>3
<1>8. w.next \in 0..(n - 1) /\ w.next = IF start + size < n THEN start + size ELSE start + size - n
  <2>1. start + size \in 0..(2 * n - 1)
    BY <1>7
  <2> DEFINE a == start + size
  <2>2. a % n = (IF a < n THEN a ELSE a - n) /\ a % n \in 0..(n - 1)
    <3> HIDE DEF a
    <3>1. a \in 0..(2 * n - 1)
      BY <2>1 DEF a
    <3> QED
      BY <1>6, <3>1
  <2>3. w.next = a % n
    BY <1>5
  <2> HIDE DEF a
  <2>4. w.next \in 0..(n - 1) /\ w.next = (IF a < n THEN a ELSE a - n)
    BY <2>2, <2>3
  <2> QED
    BY <1>1, <1>2, <1>3, <2>4 DEF a
<1>9. \A i \in 1..size : w.selected[i] \in Orgs
  <2> SUFFICES ASSUME NEW i \in 1..size PROVE order[((start + i - 1) % n) + 1] \in S
    BY <1>5
  <2>1. (start + i - 1) % n \in 0..(n - 1)
    BY <1>6, <1>7
  <2>2. ((start + i - 1) % n) + 1 \in 1..n
    BY <1>1, <2>1
  <2> QED
    BY <1>4, <2>2
<1>10. w.selected \in Seq(Orgs) /\ Len(w.selected) = size /\ DOMAIN w.selected = 1..size
  <2>1. DOMAIN w.selected = 1..size /\ size \in Nat
    BY <1>1, <1>3, <1>5
  <2>2. w.selected \in [1..size -> Orgs]
    BY <1>5, <1>9
  <2> QED
    BY <2>1, <2>2
<1>11. ASSUME NEW o \in S, \A i \in DOMAIN w.selected : w.selected[i] # o
       PROVE  Gap(Rank(S, o) - 1, w.next, n) = Gap(Rank(S, o) - 1, start, n) - MaxOrgsPerCycle
  <2> DEFINE place == Rank(S, o) - 1
             d == Gap(place, start, n)
  <2>1. place \in 0..(n - 1) /\ d \in 0..(n - 1) /\ order[place + 1] = o
    BY <1>1, <1>2, <1>4 DEF Gap
  <2>2. (start + d) % n = place
    <3>1. start + d \in 0..(2 * n - 1) /\ place = IF start + d < n THEN start + d ELSE start + d - n
      BY <1>1, <1>2, <2>1 DEF Gap
    <3> HIDE DEF d, place
    <3> QED
      BY <1>1, <1>2, <1>6, <2>1, <3>1
  <2> HIDE DEF d, place
  <2>3. d >= size
    <3> SUFFICES ASSUME d < size PROVE FALSE
      BY <1>1, <1>3, <2>1
    <3>1. d + 1 \in 1..size /\ start + (d + 1) - 1 = start + d
      BY <1>1, <1>2, <1>3, <2>1
    <3>2. w.selected[d + 1] = order[place + 1]
      BY <1>5, <2>2, <3>1
    <3> QED
      BY <1>10, <1>11, <2>1, <3>1, <3>2
  <2>4. size = MaxOrgsPerCycle
    BY <1>1, <1>3, <2>1, <2>3
  <2>5. Gap(place, w.next, n) = d - size
    BY <1>1, <1>2, <1>3, <1>8, <2>1, <2>3 DEF Gap, d
  <2> QED
    BY <2>4, <2>5 DEF d, place
<1>12. w.next \in 0..(OrgCount - 1)
  BY <1>1, <1>8, Assumptions
<1> QED
  BY <1>1, <1>3, <1>8, <1>10, <1>11, <1>12 DEF w, n, start

----------------------------------------------------------------------------
(* Types.                                                                    *)

\* What a process may be in the middle of at a time.
CycleAt(time) ==
  {c \in [now : 0..Horizon, orgs : Seq(Orgs), batch : SUBSET Candidates] :
     c.now <= time /\ Len(c.orgs) <= MaxOrgsPerCycle}

\* The cycle's conjuncts of TypeOK, for one process at a time.
LEMMA CyclesFit ==
  ASSUME NEW cycles, NEW time
  PROVE  cycles \in [Processes -> CycleAt(time)] <=>
           /\ cycles \in [Processes -> [now : 0..Horizon, orgs : Seq(Orgs), batch : SUBSET Candidates]]
           /\ \A p \in Processes : cycles[p].now <= time /\ Len(cycles[p].orgs) <= MaxOrgsPerCycle
BY DEF CycleAt

\* No cycle is one, and so is what is left of a cycle.
LEMMA RestFits ==
  ASSUME NEW time \in 0..Horizon
  PROVE  Idle \in CycleAt(time) /\ \A c \in CycleAt(time) : Rest(c) \in CycleAt(time)
<1>1. <<>> \in Seq(Orgs) /\ Len(<<>>) = 0
  OBVIOUS
<1>2. Idle \in CycleAt(time)
  BY <1>1, Assumptions DEF Idle, CycleAt
<1> QED
  BY <1>2 DEF Rest

\* Time passes, and what was a cycle remains one.
LEMMA CycleLater ==
  ASSUME NEW time \in 0..Horizon, NEW later \in 0..Horizon, time <= later
  PROVE  CycleAt(time) \subseteq CycleAt(later)
<1> SUFFICES ASSUME NEW c \in CycleAt(time) PROVE c \in CycleAt(later)
  OBVIOUS
<1>1. c.now \in 0..Horizon /\ c.now <= time
  BY DEF CycleAt
<1>2. c.now <= later
  BY <1>1, Assumptions
<1> QED
  BY <1>2 DEF CycleAt

\* Taking up the next organization leaves the others, in a sequence shorter by one.
LEMMA TailFits ==
  ASSUME NEW time \in 0..Horizon, NEW c \in CycleAt(time), c.orgs # <<>>, NEW B \in SUBSET Candidates
  PROVE  [c EXCEPT !.batch = B, !.orgs = Tail(@)] \in CycleAt(time) /\ Head(c.orgs) \in Orgs
<1>1. c.orgs \in Seq(Orgs) /\ Len(c.orgs) \in Nat /\ Len(c.orgs) <= MaxOrgsPerCycle
  BY LenProperties DEF CycleAt
<1>2. Tail(c.orgs) \in Seq(Orgs) /\ Len(Tail(c.orgs)) = Len(c.orgs) - 1 /\ Head(c.orgs) \in Orgs
  BY <1>1, HeadTailProperties
<1>3. Len(Tail(c.orgs)) <= MaxOrgsPerCycle
  BY <1>1, <1>2, Assumptions
<1> QED
  BY <1>2, <1>3 DEF CycleAt

\* What a cycle queues is among the rows it reads, which are among the pending ones.
LEMMA RowsRead ==
  ASSUME NEW o, NEW rowsRead \in SUBSET PendingRows(o), NEW instant
  PROVE  ToQueue(rowsRead, instant) \subseteq PendingRows(o) /\ PendingRows(o) \subseteq Candidates
BY DEF ToQueue, PendingRows

\* The list is of organizations.
LEMMA EligibleOrgsType == EligibleOrgs \subseteq Orgs
BY DEF EligibleOrgs

\* Every state has its type at the start.
LEMMA TypeInit == Init => TypeOK
<1> SUFFICES ASSUME Init PROVE TypeOK
  OBVIOUS
<1>1. 0 \in 0..Horizon /\ 1 \in Steps /\ 0 \in 0..(OrgCount - 1) /\ 0 \in 0..MaxDisturbances
  BY Assumptions DEF Steps
<1>2. cycle \in [Processes -> CycleAt(clock)]
  BY <1>1, RestFits DEF Init
<1>3. /\ cycle \in [Processes -> [now : 0..Horizon, orgs : Seq(Orgs), batch : SUBSET Candidates]]
      /\ \A p \in Processes : cycle[p].now <= clock /\ Len(cycle[p].orgs) <= MaxOrgsPerCycle
  BY <1>2, CyclesFit
<1> QED
  BY <1>1, <1>3 DEF Init, TypeOK

\* Every step keeps the types: the window that a cycle takes is a short sequence of
\* organizations, and the next offset stays within the list.
LEMMA TypeStep == TypeOK /\ [Next]_vars => TypeOK'
<1> SUFFICES ASSUME TypeOK, [Next]_vars PROVE TypeOK'
  OBVIOUS
<1>1. cycle \in [Processes -> CycleAt(clock)] /\ clock \in 0..Horizon
  BY CyclesFit DEF TypeOK
<1>2. ASSUME   /\ setting' \in Settings /\ clock' \in 0..Horizon
               /\ cycle' \in [Processes -> CycleAt(clock')]
               /\ enrollment' \in [Enrollments -> {"absent", "active", "away", "completed"}]
               /\ enrolledAt' \in [Enrollments -> 0..Horizon]
               /\ current' \in [Enrollments -> Steps]
               /\ row' \in [Enrollments -> [Steps -> {"none", "pending", "queued", "completed"}]]
               /\ reachable' \subseteq Enrollments
               /\ nextOrgOffset' \in [Processes -> 0..(OrgCount - 1)]
               /\ listed' \in [Processes -> SUBSET Orgs]
               /\ waited' \in [Processes -> [Orgs -> Nat]]
               /\ disturbances' \in 0..MaxDisturbances
      PROVE    TypeOK'
  <2>1. /\ cycle' \in [Processes -> [now : 0..Horizon, orgs : Seq(Orgs), batch : SUBSET Candidates]]
        /\ \A p \in Processes : cycle'[p].now <= clock' /\ Len(cycle'[p].orgs) <= MaxOrgsPerCycle
    BY <1>2, CyclesFit
  <2> QED
    BY <1>2, <2>1 DEF TypeOK
<1>3. CASE UNCHANGED vars
  BY <1>1, <1>3 DEF TypeOK, vars, people, history
<1>4. CASE disturbances < MaxDisturbances /\ disturbances' = disturbances + 1
           /\ UNCHANGED <<setting, clock>>
           /\ \E p \in Processes : CycleFails(p) \/ Restart(p)
  <2>1. disturbances' \in 0..MaxDisturbances
    BY <1>4, Assumptions DEF TypeOK
  <2>2. cycle' \in [Processes -> CycleAt(clock')]
    BY <1>1, <1>4, RestFits DEF CycleFails, Restart
  <2>3. 0 \in 0..(OrgCount - 1)
    BY Assumptions
  <2> QED
    <3>1. /\ UNCHANGED <<setting, clock, enrollment, enrolledAt, current, row, reachable, waited>>
          /\ nextOrgOffset' \in [Processes -> 0..(OrgCount - 1)]
          /\ listed' \in [Processes -> SUBSET Orgs]
      BY <1>4, <2>3 DEF CycleFails, Restart, TypeOK, people, history
    <3> QED
      BY <1>1, <1>2, <2>1, <2>2, <3>1 DEF TypeOK
<1>5. ASSUME NEW p \in Processes, BeginCycle(p) PROVE TypeOK'
  <2> DEFINE w == Window(EligibleOrgs, nextOrgOffset[p])
  <2>1. nextOrgOffset[p] \in Nat
    BY Assumptions DEF TypeOK
  <2>2. /\ w.selected \in Seq(Orgs) /\ Len(w.selected) <= MaxOrgsPerCycle
        /\ w.next \in 0..(OrgCount - 1)
    <3>1. EligibleOrgs \in SUBSET Orgs /\ EligibleOrgs # {}
      BY <1>5, EligibleOrgsType DEF BeginCycle
    <3>2. /\ w.selected \in Seq(Orgs) /\ Len(w.selected) \in 1..MaxOrgsPerCycle
          /\ w.next \in 0..(OrgCount - 1)
      BY <2>1, <3>1, WindowTurns
    <3> QED
      BY <3>2, Assumptions
  <2> HIDE DEF w
  <2>3. [now |-> clock, orgs |-> w.selected, batch |-> {}] \in CycleAt(clock)
    BY <1>1, <2>2, Assumptions DEF CycleAt
  <2>4. cycle' \in [Processes -> CycleAt(clock')] /\ nextOrgOffset' \in [Processes -> 0..(OrgCount - 1)]
    BY <1>1, <1>5, <2>2, <2>3 DEF BeginCycle, TypeOK, w
  <2>5. waited' \in [Processes -> [Orgs -> Nat]]
    BY <1>5 DEF BeginCycle, TypeOK
  <2>6. listed' \in [Processes -> SUBSET Orgs]
    BY <1>5, EligibleOrgsType DEF BeginCycle, TypeOK
  <2> QED
    BY <1>2, <1>5, <2>4, <2>5, <2>6 DEF BeginCycle, TypeOK, people
<1>6. ASSUME NEW p \in Processes, ReadCandidates(p) PROVE TypeOK'
  <2>1. PICK rowsRead \in SUBSET PendingRows(Head(cycle[p].orgs)) :
          cycle' = [cycle EXCEPT ![p] = Rest([cycle[p] EXCEPT !.batch = ToQueue(rowsRead, cycle[p].now),
                                                              !.orgs = Tail(@)])]
    BY <1>6 DEF ReadCandidates, kSubset
  <2>2. ToQueue(rowsRead, cycle[p].now) \in SUBSET Candidates
    BY RowsRead
  <2>3. cycle[p] \in CycleAt(clock) /\ cycle[p].orgs # <<>>
    BY <1>1, <1>6 DEF ReadCandidates
  <2>4. Rest([cycle[p] EXCEPT !.batch = ToQueue(rowsRead, cycle[p].now), !.orgs = Tail(@)])
          \in CycleAt(clock)
    BY <1>1, <2>2, <2>3, TailFits, RestFits
  <2> DEFINE rest == Rest([cycle[p] EXCEPT !.batch = ToQueue(rowsRead, cycle[p].now), !.orgs = Tail(@)])
  <2>5. cycle' = [cycle EXCEPT ![p] = rest]
    BY <2>1
  <2> HIDE DEF rest
  <2>6. cycle' \in [Processes -> CycleAt(clock)] /\ clock' = clock
    BY <1>1, <1>6, <2>4, <2>5 DEF ReadCandidates, rest
  <2> QED
    BY <1>2, <1>6, <2>6 DEF ReadCandidates, TypeOK, people, history
<1>7. ASSUME NEW p \in Processes, NEW c \in Candidates, QueueStep(p, c) PROVE TypeOK'
  <2>1. cycle[p] \in CycleAt(clock)
    BY <1>1
  <2>2. [cycle[p] EXCEPT !.batch = @ \ {c}] \in CycleAt(clock)
    BY <2>1 DEF CycleAt
  <2> DEFINE rest == Rest([cycle[p] EXCEPT !.batch = @ \ {c}])
  <2>5. cycle' = [cycle EXCEPT ![p] = rest] /\ clock' = clock
    BY <1>7 DEF QueueStep
  <2>6. rest \in CycleAt(clock)
    BY <1>1, <2>2, RestFits
  <2> HIDE DEF rest
  <2>3. cycle' \in [Processes -> CycleAt(clock)] /\ clock' = clock
    BY <1>1, <2>5, <2>6
  <2>4. row' \in [Enrollments -> [Steps -> {"none", "pending", "queued", "completed"}]]
    BY <1>7 DEF QueueStep, TypeOK, Candidates
  <2> QED
    BY <1>2, <1>7, <2>3, <2>4 DEF QueueStep, TypeOK, history
<1>8. CASE Tick
  <2>1. clock' \in 0..Horizon /\ clock <= clock'
    BY <1>1, <1>8, Assumptions DEF Tick
  <2>2. cycle' \in [Processes -> CycleAt(clock')]
    BY <1>1, <1>8, <2>1, CycleLater DEF Tick
  <2> QED
    BY <1>2, <1>8, <2>1, <2>2 DEF Tick, TypeOK, people, history
<1>9. ASSUME NEW e \in Enrollments,
             Enroll(e) \/ Leave(e) \/ ComeBack(e) \/ OptOut(e) \/ Complete(e)
      PROVE  TypeOK'
  <2>1. clock' = clock /\ cycle' = cycle /\ setting' = setting
        /\ UNCHANGED <<nextOrgOffset, listed, waited>>
    BY <1>9 DEF Enroll, Leave, ComeBack, OptOut, Complete, history
  <2>2. disturbances' \in 0..MaxDisturbances
    BY <1>9, Assumptions DEF Enroll, Leave, ComeBack, OptOut, Complete, TypeOK
  <2>3. current' \in [Enrollments -> Steps]
    <3>1. CASE current' = current
      BY <3>1 DEF TypeOK
    <3>2. CASE current[e] # N /\ current' = [current EXCEPT ![e] = current[e] + 1]
      <4>1. current[e] \in 1..N /\ N \in Nat
        BY Assumptions DEF TypeOK, Steps
      <4>2. current[e] + 1 \in Steps
        BY <3>2, <4>1 DEF Steps
      <4> QED
        BY <3>2, <4>2 DEF TypeOK
    <3> QED
      BY <1>9, <3>1, <3>2 DEF Enroll, Leave, ComeBack, OptOut, Complete
  <2>4. /\ enrollment' \in [Enrollments -> {"absent", "active", "away", "completed"}]
        /\ enrolledAt' \in [Enrollments -> 0..Horizon] /\ reachable' \subseteq Enrollments
    <3>1. CASE Enroll(e)
      BY <1>1, <3>1 DEF Enroll, TypeOK
    <3>2. CASE Leave(e) \/ ComeBack(e) \/ OptOut(e)
      BY <3>2 DEF Leave, ComeBack, OptOut, TypeOK
    <3>3. CASE Complete(e)
      BY <3>3 DEF Complete, TypeOK
    <3> QED
      BY <1>9, <3>1, <3>2, <3>3
  <2>5. row' \in [Enrollments -> [Steps -> {"none", "pending", "queued", "completed"}]]
    <3>1. CASE Enroll(e)
      BY <3>1 DEF Enroll, TypeOK
    <3>2. CASE Leave(e) \/ ComeBack(e) \/ OptOut(e)
      BY <3>2 DEF Leave, ComeBack, OptOut, TypeOK
    <3>3. CASE Complete(e)
      BY <3>3 DEF Complete, TypeOK
    <3> QED
      BY <1>9, <3>1, <3>2, <3>3
  <2> QED
    BY <1>1, <1>2, <2>1, <2>2, <2>3, <2>4, <2>5 DEF TypeOK
<1> QED
  BY <1>3, <1>4, <1>5, <1>6, <1>7, <1>8, <1>9 DEF Next, Work, CycleFails, Restart

\* TypeOK holds of every run, for any number of organizations, people, steps and processes.
THEOREM Typing == Spec => []TypeOK
BY TypeInit, TypeStep, PTL DEF Spec

----------------------------------------------------------------------------
(* Steps are queued one at a time.                                           *)

\* Where the rows stand relative to the current step.
RowsAround(e) ==
  /\ \A s \in Steps : s < current[e] => row[e][s] = "completed"
  /\ \A s \in Steps : current[e] < s => row[e][s] \in {"none", "pending"}
  /\ enrollment[e] = "absent" => current[e] = 1 /\ \A s \in Steps : row[e][s] = "none"

\* The inductive invariant: a cycle may hold a candidate that has become stale, but never
\* one that is ahead of its enrollment.
InOrder ==
  /\ \A e \in Enrollments : RowsAround(e)
  /\ \A p \in Processes : \A c \in cycle[p].batch : c[2] <= current[c[1]]

\* The order holds at the start.
LEMMA InOrderInit == Init => InOrder
<1> SUFFICES ASSUME Init PROVE InOrder
  OBVIOUS
<1>1. \A p \in Processes : cycle[p].batch = {}
  BY DEF Init, Idle
<1>2. ASSUME NEW e \in Enrollments PROVE RowsAround(e)
  <2>1. \A s \in Steps : ~(s < 1)
    BY DEF Steps
  <2> QED
    BY <2>1 DEF RowsAround, Init
<1> QED
  BY <1>1, <1>2 DEF InOrder

\* What is left of a cycle has no candidates that the cycle had not.
LEMMA RestBatch == ASSUME NEW c PROVE Rest(c).batch = c.batch
BY DEF Rest, Idle

\* Every step keeps the order.
LEMMA InOrderStep == TypeOK /\ InOrder /\ [Next]_vars => InOrder'
<1> SUFFICES ASSUME TypeOK, InOrder, [Next]_vars PROVE InOrder'
  OBVIOUS
<1>1. CASE UNCHANGED <<enrollment, current, row>> /\ \A p \in Processes : cycle'[p].batch \subseteq cycle[p].batch
  BY <1>1 DEF InOrder, RowsAround
<1>2. CASE UNCHANGED vars
  BY <1>1, <1>2 DEF vars, people
<1>3. CASE Tick
  BY <1>1, <1>3 DEF Tick, people
<1>4. ASSUME NEW p \in Processes, BeginCycle(p) \/ CycleFails(p) \/ Restart(p) PROVE InOrder'
  <2>1. UNCHANGED <<enrollment, current, row>>
    BY <1>4 DEF BeginCycle, CycleFails, Restart, people
  <2>2. \A q \in Processes : cycle'[q].batch = {} \/ cycle'[q] = cycle[q]
    BY <1>4 DEF BeginCycle, CycleFails, Restart, Idle, TypeOK
  <2> QED
    BY <1>1, <2>1, <2>2
<1>5. ASSUME NEW p \in Processes, ReadCandidates(p) PROVE InOrder'
  <2>1. UNCHANGED <<enrollment, current, row>>
    BY <1>5 DEF ReadCandidates, people
  <2>2. PICK rowsRead \in SUBSET PendingRows(Head(cycle[p].orgs)) :
          cycle' = [cycle EXCEPT ![p] = Rest([cycle[p] EXCEPT !.batch = ToQueue(rowsRead, cycle[p].now),
                                                              !.orgs = Tail(@)])]
    BY <1>5 DEF ReadCandidates, kSubset
  <2> DEFINE c == [cycle[p] EXCEPT !.batch = ToQueue(rowsRead, cycle[p].now), !.orgs = Tail(@)]
  <2>3. c.batch = ToQueue(rowsRead, cycle[p].now)
    BY DEF TypeOK
  <2>4. cycle' = [cycle EXCEPT ![p] = Rest(c)]
    BY <2>2
  <2> HIDE DEF c
  <2>5. Rest(c).batch = ToQueue(rowsRead, cycle[p].now)
    BY <2>3, RestBatch
  <2>6. \A q \in Processes : cycle'[q] = IF q = p THEN Rest(c) ELSE cycle[q]
    BY <2>4 DEF TypeOK
  <2>7. \A d \in ToQueue(rowsRead, cycle[p].now) : d[2] <= current[d[1]]
    <3>1. \A d \in ToQueue(rowsRead, cycle[p].now) : d \in Candidates /\ d[2] = current[d[1]]
      BY RowsRead DEF ToQueue
    <3> QED
      BY <3>1 DEF Candidates, Steps
  <2> QED
    BY <2>1, <2>5, <2>6, <2>7 DEF InOrder, RowsAround
<1>6. ASSUME NEW p \in Processes, NEW c \in Candidates, QueueStep(p, c) PROVE InOrder'
  <2> DEFINE left == [cycle[p] EXCEPT !.batch = @ \ {c}]
  <2>1. UNCHANGED <<enrollment, current>> /\ c \in cycle[p].batch
        /\ cycle' = [cycle EXCEPT ![p] = Rest(left)]
    BY <1>6 DEF QueueStep
  <2>2. left.batch = cycle[p].batch \ {c}
    BY DEF TypeOK
  <2> HIDE DEF left
  <2>3. \A q \in Processes : cycle'[q].batch \subseteq cycle[q].batch
    BY <2>1, <2>2, RestBatch DEF TypeOK
  <2>4. PICK e \in Enrollments, s \in Steps : c = <<e, s>> /\ s <= current[e]
    BY <2>1 DEF Candidates, InOrder
  <2>5. row' = [row EXCEPT ![e][s] = IF row[e][s] = "pending" THEN "queued" ELSE row[e][s]]
    BY <1>6, <2>4 DEF QueueStep
  <2>6. \A f \in Enrollments : \A t \in Steps :
          row'[f][t] = IF f = e /\ t = s /\ row[e][s] = "pending" THEN "queued" ELSE row[f][t]
    BY <2>5 DEF TypeOK
  <2>7. row[e][s] = "pending" => s = current[e] /\ enrollment[e] # "absent"
    <3>1. s \in Int /\ current[e] \in Int
      BY DEF TypeOK, Steps
    <3>2. s < current[e] \/ s = current[e]
      BY <2>4, <3>1
    <3> QED
      BY <3>2 DEF InOrder, RowsAround
  <2>8. \A t \in Steps : ~(t < t)
    BY DEF Steps
  <2>9. ASSUME NEW f \in Enrollments PROVE RowsAround(f)'
    BY <2>1, <2>6, <2>7, <2>8 DEF InOrder, RowsAround
  <2> QED
    BY <2>1, <2>3, <2>9 DEF InOrder
<1>7. ASSUME NEW e \in Enrollments, Enroll(e) PROVE InOrder'
  <2>1. UNCHANGED <<current, cycle>> /\ current[e] = 1
    BY <1>7 DEF Enroll, InOrder, RowsAround
  <2>2. \A t \in Steps : ~(t < 1)
    BY DEF Steps
  <2>3. ASSUME NEW f \in Enrollments PROVE RowsAround(f)'
    BY <1>7, <2>1, <2>2 DEF Enroll, InOrder, RowsAround, TypeOK
  <2> QED
    BY <2>1, <2>3 DEF InOrder
<1>8. ASSUME NEW e \in Enrollments, Leave(e) \/ ComeBack(e) \/ OptOut(e) PROVE InOrder'
  <2>1. UNCHANGED <<current, cycle, row>>
    BY <1>8 DEF Leave, ComeBack, OptOut
  <2>2. \A f \in Enrollments : enrollment'[f] = "absent" => enrollment[f] = "absent"
    BY <1>8 DEF Leave, ComeBack, OptOut, TypeOK
  <2> QED
    BY <2>1, <2>2 DEF InOrder, RowsAround
<1>9. ASSUME NEW e \in Enrollments, Complete(e) PROVE InOrder'
  <2> DEFINE s == current[e]
  <2>1. s \in Steps /\ UNCHANGED cycle /\ enrollment[e] = "active"
        /\ row' = [row EXCEPT ![e][s] = "completed"]
    BY <1>9 DEF Complete, TypeOK
  <2>2. \A f \in Enrollments : \A t \in Steps :
          row'[f][t] = IF f = e /\ t = s THEN "completed" ELSE row[f][t]
    BY <2>1 DEF TypeOK
  <2>3. \A f \in Enrollments : current'[f] = IF f = e /\ s # N THEN s + 1 ELSE current[f]
    BY <1>9 DEF Complete, TypeOK
  <2>4. \A f \in Enrollments : enrollment'[f] = "absent" <=> enrollment[f] = "absent"
    BY <1>9 DEF Complete, TypeOK
  <2>5. \A f \in Enrollments : f # e => RowsAround(f)'
    BY <2>2, <2>3, <2>4 DEF InOrder, RowsAround
  <2>6. RowsAround(e)'
    <3>1. \A t \in Steps : t < s => row[e][t] = "completed"
      BY DEF InOrder, RowsAround
    <3>2. \A t \in Steps : s < t => row[e][t] \in {"none", "pending"}
      BY DEF InOrder, RowsAround
    <3>3. current'[e] \in {s, s + 1} /\ enrollment'[e] # "absent"
      BY <2>1, <2>3, <2>4
    <3>4. \A t \in Steps : /\ t < current'[e] => t < s \/ t = s
                           /\ current'[e] < t => s < t /\ t # s
      BY <2>1, <3>3 DEF Steps
    <3> QED
      BY <2>2, <3>1, <3>2, <3>3, <3>4 DEF RowsAround
  <2>7. \A f \in Enrollments : current[f] <= current'[f] /\ current[f] \in Int /\ current'[f] \in Int
    BY <2>1, <2>3 DEF TypeOK, Steps
  <2>8. ASSUME NEW p \in Processes, NEW c \in cycle'[p].batch PROVE c[2] <= current'[c[1]]
    <3>1. c \in Candidates /\ c[2] <= current[c[1]]
      BY <2>1 DEF InOrder, TypeOK
    <3>2. c[1] \in Enrollments /\ c[2] \in Int
      BY <3>1 DEF Candidates, Steps
    <3> QED
      BY <2>7, <3>1, <3>2
  <2> QED
    BY <2>5, <2>6, <2>8 DEF InOrder
<1> QED
  BY <1>2, <1>3, <1>4, <1>5, <1>6, <1>7, <1>8, <1>9 DEF Next, Work

\* The order says that everything before a queued or completed step is completed.
LEMMA InOrderSuffices == TypeOK /\ InOrder => StepsInOrder
<1> SUFFICES ASSUME TypeOK, InOrder, NEW e \in Enrollments, NEW s \in Steps,
                    row[e][s] \in {"queued", "completed"}, NEW t \in 1..(s - 1)
             PROVE  row[e][t] = "completed"
  BY DEF StepsInOrder
<1>1. s \in Int /\ t \in Int /\ current[e] \in Int /\ t < s /\ t \in Steps
  BY Assumptions DEF Steps, TypeOK
<1>2. ~(current[e] < s)
  BY DEF InOrder, RowsAround
<1>3. t < current[e]
  BY <1>1, <1>2
<1> QED
  BY <1>1, <1>3 DEF InOrder, RowsAround

\* However many processes run their cycles at once, and whatever became of the rows since a
\* cycle read them, steps are queued in order.
THEOREM Order == Spec => []StepsInOrder
<1>1. Init => TypeOK /\ InOrder
  BY TypeInit, InOrderInit
<1>2. TypeOK /\ InOrder /\ [Next]_vars => (TypeOK /\ InOrder)'
  BY TypeStep, InOrderStep
<1> QED
  BY <1>1, <1>2, InOrderSuffices, PTL DEF Spec

----------------------------------------------------------------------------
(* Organizations take turns.                                                 *)

\* Whoever was passed over is so much nearer to the offset.
InTurn(list, next, wait) == \A o \in list :
  \/ wait[o] = 0
  \/ /\ next < Cardinality(list)
     /\ wait[o] * MaxOrgsPerCycle + Gap(Rank(list, o) - 1, next, Cardinality(list)) <= Cardinality(list) - 1

\* The inductive invariant: the length of the wait and the way still to go, together, are
\* less than the list is long.
Turns == \A p \in Processes : InTurn(listed[p], nextOrgOffset[p], waited[p])

\* A gap is shorter than the list.
LEMMA GapType ==
  ASSUME NEW n \in Nat \ {0}, NEW place \in 0..(n - 1), NEW offset \in 0..(n - 1)
  PROVE  Gap(place, offset, n) \in 0..(n - 1)
BY DEF Gap

\* One more turn waited is one window more.
LEMMA Distribute == ASSUME NEW w \in Nat, NEW m \in Nat PROVE (w + 1) * m = w * m + m /\ w * m \in Nat /\ 1 * m = m
OBVIOUS

\* A cycle keeps its process's turns.
LEMMA BeginTurns ==
  ASSUME TypeOK, Turns, NEW p \in Processes, BeginCycle(p)
  PROVE  InTurn(listed'[p], nextOrgOffset'[p], waited'[p])
<1> DEFINE S == EligibleOrgs
           offset == nextOrgOffset[p]
           win == Window(S, offset)
           n == Cardinality(S)
           M == MaxOrgsPerCycle
           Served(o) == \E i \in DOMAIN win.selected : win.selected[i] = o
<1>1. S \in SUBSET Orgs /\ S # {} /\ offset \in Nat /\ M \in Nat \ {0}
  BY EligibleOrgsType, Assumptions DEF BeginCycle, TypeOK
<1>2. /\ n \in Nat \ {0} /\ win.next \in 0..(n - 1)
      /\ \A o \in S : ~Served(o) => Gap(Rank(S, o) - 1, win.next, n) = Gap(Rank(S, o) - 1, offset % n, n) - M
  BY <1>1, WindowTurns
<1>3. listed'[p] = S /\ nextOrgOffset'[p] = win.next
  BY DEF BeginCycle, TypeOK
<1>4. \A o \in Orgs : waited'[p][o] = IF o \notin S \/ Served(o) THEN 0
                                      ELSE IF listed[p] = S THEN waited[p][o] + 1 ELSE 1
  BY DEF BeginCycle, TypeOK
<1>5. waited[p] \in [Orgs -> Nat]
  BY DEF TypeOK
<1>6. InTurn(listed[p], offset, waited[p])
  BY DEF Turns
<1> HIDE DEF S, offset, win, n, M, Served
<1>7. ASSUME NEW o \in S, waited'[p][o] # 0
      PROVE  waited'[p][o] * M + Gap(Rank(S, o) - 1, win.next, n) <= n - 1
  <2> DEFINE before == Gap(Rank(S, o) - 1, offset % n, n)
             after == Gap(Rank(S, o) - 1, win.next, n)
             wait == waited[p][o]
  <2>1. ~Served(o) /\ o \in Orgs
    BY <1>1, <1>4, <1>7
  <2>2. after = before - M
    BY <1>2, <2>1
  <2>3. before \in 0..(n - 1) /\ wait \in Nat
    <3>1. Rank(S, o) \in 1..n
      BY <1>1, RankOrders DEF n
    <3>2. Rank(S, o) - 1 \in 0..(n - 1)
      BY <1>2, <3>1
    <3>3. offset % n \in 0..(n - 1)
      BY <1>1, <1>2, ModuloType
    <3> QED
      BY <1>2, <1>5, <2>1, <3>2, <3>3, GapType
  <2>4. CASE listed[p] = S /\ wait # 0
    <3>1. offset < n /\ wait * M + Gap(Rank(S, o) - 1, offset, n) <= n - 1
      BY <1>6, <2>4 DEF InTurn, n, M
    <3>2. offset % n = offset
      <4>1. offset \in 0..(2 * n - 1)
        BY <1>1, <1>2, <3>1
      <4> QED
        BY <1>2, <3>1, <4>1, Modulo
    <3>3. waited'[p][o] = wait + 1
      BY <1>4, <2>1, <2>4
    <3> HIDE DEF wait
    <3>4. (wait + 1) * M = wait * M + M /\ wait * M \in Nat
      BY <1>1, <2>3, Distribute
    <3>5. wait * M + before <= n - 1
      BY <3>1, <3>2
    <3> DEFINE product == wait * M
    <3>6. product + M + after <= n - 1
      <4> HIDE DEF product, before, after
      <4>1. product \in Nat /\ product + before <= n - 1
        BY <3>4, <3>5 DEF product
      <4> QED
        BY <1>1, <1>2, <2>2, <2>3, <4>1
    <3> QED
      BY <3>3, <3>4, <3>6
  <2>5. CASE ~(listed[p] = S /\ wait # 0)
    <3>1. waited'[p][o] = 1
      BY <1>4, <2>1, <2>3, <2>5
    <3>2. 1 * M = M
      BY <1>1, Distribute
    <3> HIDE DEF before, after
    <3>3. M + after <= n - 1
      BY <1>1, <1>2, <2>2, <2>3
    <3> QED
      BY <3>1, <3>2, <3>3 DEF after
  <2> QED
    BY <2>4, <2>5
<1>8. win.next < n
  BY <1>2
<1> QED
  BY <1>3, <1>7, <1>8 DEF InTurn, n, M

\* The turns hold at the start, and every step keeps them.
LEMMA TurnsStep == (Init => Turns) /\ (TypeOK /\ Turns /\ [Next]_vars => Turns')
<1>1. ASSUME Init PROVE Turns
  BY <1>1 DEF Init, Turns, InTurn
<1>2. ASSUME TypeOK, Turns, [Next]_vars PROVE Turns'
  <2>1. CASE UNCHANGED <<listed, nextOrgOffset, waited>>
    BY <1>2, <2>1 DEF Turns, InTurn
  <2>2. ASSUME NEW p \in Processes, BeginCycle(p) PROVE Turns'
    <3>1. InTurn(listed'[p], nextOrgOffset'[p], waited'[p])
      BY <1>2, <2>2, BeginTurns
    <3>2. \A q \in Processes : q # p => /\ listed'[q] = listed[q] /\ waited'[q] = waited[q]
                                        /\ nextOrgOffset'[q] = nextOrgOffset[q]
      BY <1>2, <2>2 DEF BeginCycle, TypeOK
    <3>3. \A q \in Processes : InTurn(listed[q], nextOrgOffset[q], waited[q])
      BY <1>2 DEF Turns
    <3>4. \A q \in Processes : InTurn(listed'[q], nextOrgOffset'[q], waited'[q])
      BY <3>1, <3>2, <3>3
    <3> QED
      BY <3>4 DEF Turns
  <2>3. ASSUME NEW p \in Processes, Restart(p) PROVE Turns'
    <3>1. \A q \in Processes : \/ listed'[q] = {}
                               \/ /\ listed'[q] = listed[q] /\ waited'[q] = waited[q]
                                  /\ nextOrgOffset'[q] = nextOrgOffset[q]
      BY <1>2, <2>3 DEF Restart, TypeOK
    <3>2. \A q \in Processes : InTurn(listed[q], nextOrgOffset[q], waited[q])
      BY <1>2 DEF Turns
    <3>3. \A next, wait : InTurn({}, next, wait)
      BY DEF InTurn
    <3>4. \A q \in Processes : InTurn(listed'[q], nextOrgOffset'[q], waited'[q])
      BY <3>1, <3>2, <3>3
    <3> QED
      BY <3>4 DEF Turns
  <2>4. ASSUME NEW p \in Processes, ReadCandidates(p) \/ (\E c \in Candidates : QueueStep(p, c)) \/ CycleFails(p)
        PROVE  Turns'
    BY <2>1, <2>4 DEF ReadCandidates, QueueStep, CycleFails, history
  <2>5. CASE Tick \/ \E e \in Enrollments : Enroll(e) \/ Leave(e) \/ ComeBack(e) \/ OptOut(e) \/ Complete(e)
    BY <2>1, <2>5 DEF Tick, Enroll, Leave, ComeBack, OptOut, Complete, history
  <2>6. CASE UNCHANGED vars
    BY <2>1, <2>6 DEF vars, history
  <2> QED
    BY <1>2, <2>2, <2>3, <2>4, <2>5, <2>6 DEF Next, Work
<1> QED
  BY <1>1, <1>2

\* The turns bound the wait.
LEMMA TurnsSuffice == TypeOK /\ Turns => OrgServedInTurn
<1> SUFFICES ASSUME TypeOK, Turns, NEW p \in Processes, NEW o \in listed[p]
             PROVE  waited[p][o] * MaxOrgsPerCycle < Cardinality(listed[p])
  BY DEF OrgServedInTurn
<1> DEFINE S == listed[p]
           n == Cardinality(S)
           wait == waited[p][o]
           next == nextOrgOffset[p]
           product == wait * MaxOrgsPerCycle
<1>1. S \in SUBSET Orgs /\ o \in S /\ wait \in Nat /\ next \in Nat
  BY Assumptions DEF TypeOK
<1>2. n \in Nat /\ Rank(S, o) \in 1..n
  BY <1>1, RankOrders, FS_CardinalityType
<1>3. n \in Nat \ {0} /\ Rank(S, o) - 1 \in 0..(n - 1)
  <2> HIDE DEF n
  <2> QED
    BY <1>2
<1>4. wait = 0 \/ (next < n /\ product + Gap(Rank(S, o) - 1, next, n) <= n - 1)
  BY DEF Turns, InTurn
<1> HIDE DEF S, n, wait, next
<1>5. product \in Nat /\ (wait = 0 => product = 0)
  BY <1>1, Assumptions
<1> HIDE DEF product
<1>6. CASE wait = 0
  BY <1>3, <1>5, <1>6 DEF product, wait, n, S
<1>7. CASE wait # 0
  <2>1. next \in 0..(n - 1)
    BY <1>1, <1>3, <1>4, <1>7
  <2>2. Gap(Rank(S, o) - 1, next, n) \in 0..(n - 1)
    BY <1>3, <2>1, GapType
  <2>3. product < n
    BY <1>3, <1>4, <1>5, <1>7, <2>2
  <2> QED
    BY <2>3 DEF product, wait, n, S
<1> QED
  BY <1>6, <1>7

\* For any number of organizations and of organizations a cycle takes on, nobody who stays
\* on an unchanged list is passed over by a process for longer than one way round it.
THEOREM Served == Spec => []OrgServedInTurn
<1>1. Init => TypeOK /\ Turns
  BY TypeInit, TurnsStep
<1>2. TypeOK /\ Turns /\ [Next]_vars => (TypeOK /\ Turns)'
  BY TypeStep, TurnsStep
<1> QED
  BY <1>1, <1>2, TurnsSuffice, PTL DEF Spec

----------------------------------------------------------------------------
(* The calendar.  The differences and remainders of local dates say the same  *)
(* as counting midnights, whatever clocks do by a day at most in a slot.       *)

\* Days by division, for any length of the day.
LEMMA Days ==
  ASSUME NEW a \in Int, NEW b \in Int, b - a \in (-SlotsPerDay)..SlotsPerDay
  PROVE  /\ a \div SlotsPerDay \in Int
         /\ b \div SlotsPerDay - a \div SlotsPerDay \in -1..1
<1> DEFINE S == SlotsPerDay
           q == a \div S
           r == a % S
           u == b \div S
           v == b % S
<1>1. S \in Nat \ {0}
  BY CalendarAssumptions
<1>2. /\ q \in Int /\ r \in 0..(S - 1) /\ a = S * q + r
      /\ u \in Int /\ v \in 0..(S - 1) /\ b = S * u + v
  BY <1>1
<1> HIDE DEF S, q, r, u, v
<1>3. ASSUME u - q >= 2 PROVE FALSE
  <2>1. S * u >= S * (q + 2)
    BY <1>1, <1>2, <1>3
  <2>2. S * (q + 2) = S * q + 2 * S
    BY <1>1, <1>2
  <2>3. S * u \in Int /\ S * q \in Int
    BY <1>1, <1>2
  <2>4. b - a <= S
    BY DEF S
  <2> QED
    BY <1>1, <1>2, <2>1, <2>2, <2>3, <2>4
<1>4. ASSUME u - q <= -2 PROVE FALSE
  <2>1. S * q >= S * (u + 2)
    BY <1>1, <1>2, <1>4
  <2>2. S * (u + 2) = S * u + 2 * S
    BY <1>1, <1>2
  <2>3. S * u \in Int /\ S * q \in Int
    BY <1>1, <1>2
  <2>4. b - a >= -S
    BY <1>1 DEF S
  <2> QED
    BY <1>1, <1>2, <2>1, <2>2, <2>3, <2>4
<1>5. q \in Int /\ u - q \in -1..1
  BY <1>2, <1>3, <1>4
<1> QED
  BY <1>5 DEF q, u, S

\* A local date is a day, and from slot to slot it moves by a day at most.
LEMMA DatesMove ==
  ASSUME NEW s \in Settings
  PROVE  /\ \A i \in 0..Horizon : LocalDate(i, s.zone) \in Int
         /\ \A i \in 1..Horizon : LocalDate(i, s.zone) - LocalDate(i - 1, s.zone) \in -1..1
<1>1. \A i \in 0..Horizon : LocalTime(i, s.zone) \in Int
  BY Assumptions DEF LocalTime
<1>2. SlotsPerDay \in Nat \ {0}
  BY CalendarAssumptions
<1>3. \A i \in 0..Horizon : LocalDate(i, s.zone) \in Int
  BY <1>1, <1>2 DEF LocalDate
<1>4. ASSUME NEW i \in 1..Horizon PROVE LocalDate(i, s.zone) - LocalDate(i - 1, s.zone) \in -1..1
  <2>1. i \in 0..Horizon /\ i - 1 \in 0..Horizon
    BY Assumptions
  <2>2. LocalTime(i, s.zone) - LocalTime(i - 1, s.zone) \in (-SlotsPerDay)..SlotsPerDay
    BY ZoneAssumption
  <2> QED
    BY <1>1, <2>1, <2>2, Days DEF LocalDate
<1> QED
  BY <1>3, <1>4

\* Counting midnights from instant 0 on gives the days between the local dates, by induction
\* on the instant: there is no first one that it is wrong for.
LEMMA MidnightsCounted ==
  ASSUME NEW s \in Settings, NEW n \in 0..Horizon
  PROVE  Passed(n, s.zone) = LocalDate(n, s.zone) - LocalDate(0, s.zone)
<1> DEFINE date(i) == LocalDate(i, s.zone)
           on(m) == {i \in 1..m : date(i) > date(i - 1)}
           back(m) == {i \in 1..m : date(i) < date(i - 1)}
           Right(m) == /\ IsFiniteSet(on(m)) /\ IsFiniteSet(back(m))
                       /\ Cardinality(on(m)) - Cardinality(back(m)) = date(m) - date(0)
           Wrong == {m \in 0..Horizon : ~Right(m)}
<1>1. SUFFICES Wrong = {}
  BY <1>1 DEF Passed
<1>2. SUFFICES ASSUME Wrong # {} PROVE FALSE
  OBVIOUS
<1>3. PICK m \in Wrong : \A l \in Wrong : ~(<<l, m>> \in OpToRel(<, Nat))
  <2>1. Wrong \subseteq Nat
    OBVIOUS
  <2> HIDE DEF Wrong
  <2> QED
    BY <1>2, <2>1, WFMin, NatLessThanWellFounded
<1>4. \A i \in 0..Horizon : date(i) \in Int
  BY DatesMove
<1>5. m # 0
  <2>1. on(0) = {} /\ back(0) = {}
    OBVIOUS
  <2>2. date(0) \in Int
    BY <1>4, Assumptions
  <2> HIDE DEF on, back, date
  <2>3. Right(0)
    BY <2>1, <2>2, FS_EmptySet
  <2> QED
    BY <2>3
<1> DEFINE l == m - 1
<1>6. m \in 1..Horizon /\ l \in 0..Horizon /\ m \in Nat /\ l \in Nat /\ m = l + 1 /\ l < m
  BY <1>5, Assumptions
<1>7. Right(l)
  <2>1. <<l, m>> \in OpToRel(<, Nat)
    BY <1>6 DEF OpToRel
  <2> QED
    BY <1>3, <1>6, <2>1
<1>8. date(m) - date(l) \in -1..1 /\ date(m) \in Int /\ date(l) \in Int /\ date(0) \in Int
  BY <1>4, <1>6, DatesMove, Assumptions
<1>9. 1..m = (1..l) \cup {m} /\ m \notin 1..l
  BY <1>6
<1>10. /\ on(m) = IF date(m) > date(l) THEN on(l) \cup {m} ELSE on(l)
       /\ back(m) = IF date(m) < date(l) THEN back(l) \cup {m} ELSE back(l)
       /\ m \notin on(l) /\ m \notin back(l)
  <2> HIDE DEF date
  <2> QED
    BY <1>9
<1> HIDE DEF on, back, date, l
<1>11. /\ IsFiniteSet(on(m)) /\ IsFiniteSet(back(m))
       /\ Cardinality(on(m)) = IF date(m) > date(l) THEN Cardinality(on(l)) + 1 ELSE Cardinality(on(l))
       /\ Cardinality(back(m)) = IF date(m) < date(l) THEN Cardinality(back(l)) + 1 ELSE Cardinality(back(l))
  <2>1. /\ IsFiniteSet(on(l) \cup {m}) /\ Cardinality(on(l) \cup {m}) = Cardinality(on(l)) + 1
        /\ IsFiniteSet(back(l) \cup {m}) /\ Cardinality(back(l) \cup {m}) = Cardinality(back(l)) + 1
    BY <1>7, <1>10, FS_AddElement
  <2> QED
    BY <1>7, <1>10, <2>1
<1>12. Cardinality(on(l)) \in Nat /\ Cardinality(back(l)) \in Nat
  BY <1>7, FS_CardinalityType
<1>13. Right(m)
  BY <1>7, <1>8, <1>11, <1>12
<1> QED
  BY <1>3, <1>13

\* The day's name is that of the local date.
LEMMA DayNamed ==
  ASSUME NEW s \in Settings, NEW n \in 0..Horizon
  PROVE  /\ Weekday(n, s.zone) \in 0..6
         /\ DayName(Weekday(0, s.zone), Passed(n, s.zone))
              = <<"Sun", "Mon", "Tue", "Wed", "Thu", "Fri", "Sat">>[Weekday(n, s.zone) + 1]
<1> DEFINE a == LocalDate(0, s.zone)
           b == LocalDate(n, s.zone)
<1>1. a \in Int /\ b \in Int
  BY DatesMove, Assumptions
<1>2. Passed(n, s.zone) = b - a
  BY MidnightsCounted
<1> HIDE DEF a, b
<1>3. b % 7 \in 0..6 /\ ((a % 7) + (b - a)) % 7 = b % 7
  BY <1>1
<1> QED
  BY <1>2, <1>3 DEF DayName, Weekday, a, b

\* The names of the days that a schedule sends on are those of the weekdays it allows.
LEMMA DaysAllowed ==
  ASSUME NEW schedule \in Schedules, NEW weekday \in 0..6, IsAllowedSendDay(schedule, weekday)
  PROVE  <<"Sun", "Mon", "Tue", "Wed", "Thu", "Fri", "Sat">>[weekday + 1] \in SendDays(schedule)
<1> DEFINE name(d) == <<"Sun", "Mon", "Tue", "Wed", "Thu", "Fri", "Sat">>[d + 1]
<1>1. /\ schedule.type \in ScheduleTypes /\ schedule.daysOfWeek \subseteq 0..6
  BY DEF Schedules
<1>2. /\ name(0) = "Sun" /\ name(1) = "Mon" /\ name(2) = "Tue" /\ name(3) = "Wed"
      /\ name(4) = "Thu" /\ name(5) = "Fri" /\ name(6) = "Sat"
  OBVIOUS
<1>3. weekday \in {0, 1, 2, 3, 4, 5, 6}
  OBVIOUS
<1> HIDE DEF name
<1>4. name(weekday) \in {"Sun", "Mon", "Tue", "Wed", "Thu", "Fri", "Sat"}
  BY <1>2, <1>3
<1>5. CASE schedule.type \in {"daily", "custom_interval"}
  BY <1>4, <1>5 DEF SendDays
<1>6. CASE schedule.type = "weekdays"
  <2>1. weekday \in {1, 2, 3, 4, 5}
    BY <1>6 DEF IsAllowedSendDay
  <2> QED
    BY <1>2, <1>6, <2>1 DEF SendDays
<1>7. CASE schedule.type = "monday_wednesday_friday"
  <2>1. weekday \in {1, 3, 5}
    BY <1>7 DEF IsAllowedSendDay
  <2> QED
    BY <1>2, <1>7, <2>1 DEF SendDays
<1>8. CASE schedule.type = "custom_days_of_week" /\ schedule.daysOfWeek # {}
  <2>1. weekday \in schedule.daysOfWeek
    BY <1>1, <1>8 DEF IsAllowedSendDay
  <2>2. SendDays(schedule) = {name(d) : d \in schedule.daysOfWeek}
    BY <1>8 DEF SendDays, name
  <2> QED
    BY <2>1, <2>2 DEF name
<1>9. CASE schedule.type = "custom_days_of_week" /\ schedule.daysOfWeek = {}
  BY <1>4, <1>9 DEF SendDays
<1> QED
  BY <1>1, <1>5, <1>6, <1>7, <1>8, <1>9 DEF ScheduleTypes, name

\* A delay by the rule is one by the calendar.
LEMMA DelayEnough ==
  ASSUME NEW schedule \in Schedules, NEW order \in Nat \ {0}
  PROVE  /\ RequiredDelayDays(schedule, order) \in Int
         /\ RequiredDelayDays(schedule, order) >=
              (order - 1) * (IF schedule.type = "custom_interval" /\ schedule.intervalDays # NotSet
                             THEN schedule.intervalDays ELSE 1)
<1>1. schedule.intervalDays \in Nat \cup {NotSet}
  BY DEF Schedules
<1>2. CASE schedule.type # "custom_interval"
  BY <1>2 DEF RequiredDelayDays
<1>3. CASE schedule.type = "custom_interval" /\ schedule.intervalDays = NotSet
  BY <1>3 DEF RequiredDelayDays, NotSet
<1>4. CASE schedule.type = "custom_interval" /\ schedule.intervalDays = 0
  BY <1>4 DEF RequiredDelayDays, NotSet
<1>5. CASE schedule.type = "custom_interval" /\ schedule.intervalDays \in Nat \ {0}
  <2>1. (order - 1) * schedule.intervalDays \in Int
    BY <1>5
  <2> QED
    BY <1>5, <2>1 DEF RequiredDelayDays, NotSet
<1> QED
  BY <1>1, <1>2, <1>3, <1>4, <1>5

\* The midnights since the enrollment are the days between the local dates.
LEMMA MidnightsBetween ==
  ASSUME NEW s \in Settings, NEW enrolled \in 0..Horizon, NEW now \in 0..Horizon
  PROVE  /\ Midnights(enrolled, now, s.zone) = DaysBetweenLocalDates(enrolled, now, s.zone)
         /\ DaysBetweenLocalDates(enrolled, now, s.zone) \in Int
<1>1. /\ LocalDate(0, s.zone) \in Int /\ LocalDate(now, s.zone) \in Int /\ LocalDate(enrolled, s.zone) \in Int
  BY DatesMove, Assumptions
<1>2. /\ Passed(now, s.zone) = LocalDate(now, s.zone) - LocalDate(0, s.zone)
      /\ Passed(enrolled, s.zone) = LocalDate(enrolled, s.zone) - LocalDate(0, s.zone)
  BY MidnightsCounted
<1> QED
  BY <1>1, <1>2 DEF Midnights, DaysBetweenLocalDates

\* What the rule takes to be due is due by the calendar, but at a local midnight that prints as 24.
LEMMA DueByRule ==
  ASSUME NEW s \in Settings, NEW enrolled \in 0..Horizon, NEW now \in 0..Horizon, NEW order \in Steps,
         MidnightHour = 0 \/ SlotOf(now, s.zone) # 0,
         IsStepDue(s.schedule, enrolled, now, s.zone, order, s.delay[order])
  PROVE  DueByCalendar(s.schedule, enrolled, now, s.zone, order, s.delay[order])
<1>1. s.schedule \in Schedules /\ order \in Nat \ {0} /\ s.delay[order] \in Nat \cup {NotSet}
  BY Assumptions DEF Steps
<1>2. Midnights(enrolled, now, s.zone) = DaysBetweenLocalDates(enrolled, now, s.zone)
      /\ DaysBetweenLocalDates(enrolled, now, s.zone) \in Int
  BY MidnightsBetween
<1>3. Midnights(enrolled, now, s.zone) >=
        IF s.delay[order] # NotSet THEN s.delay[order]
        ELSE (order - 1) * (IF s.schedule.type = "custom_interval" /\ s.schedule.intervalDays # NotSet
                            THEN s.schedule.intervalDays ELSE 1)
  <2> DEFINE least == (order - 1) * (IF s.schedule.type = "custom_interval" /\ s.schedule.intervalDays # NotSet
                                     THEN s.schedule.intervalDays ELSE 1)
  <2>1. RequiredDelayDays(s.schedule, order) >= least /\ RequiredDelayDays(s.schedule, order) \in Int
    BY <1>1, DelayEnough
  <2>2. least \in Int
    BY <1>1 DEF Schedules
  <2> HIDE DEF least
  <2>3. Midnights(enrolled, now, s.zone) >= IF s.delay[order] # NotSet THEN s.delay[order] ELSE least
    BY <1>2, <2>1, <2>2 DEF IsStepDue
  <2> QED
    BY <2>3 DEF least
<1>4. DayName(Weekday(0, s.zone), Passed(now, s.zone)) \in SendDays(s.schedule)
  BY <1>1, DayNamed, DaysAllowed DEF IsStepDue
<1>5. SlotOf(now, s.zone) >= IF s.schedule.sendTime = NotSet THEN DefaultSendTime ELSE s.schedule.sendTime
  <2> DEFINE time == IF s.schedule.sendTime = NotSet THEN DefaultSendTime ELSE s.schedule.sendTime
  <2>1. Hour(now, s.zone) >= time
    BY DEF IsStepDue, IsAtOrAfterSendTime
  <2> HIDE DEF time
  <2>2. Hour(now, s.zone) = SlotOf(now, s.zone)
    BY DEF Hour
  <2> QED
    BY <2>1, <2>2 DEF time
<1> QED
  BY <1>3, <1>4, <1>5 DEF DueByCalendar

\* A weekday whose name is among the days that a schedule sends on is allowed.
LEMMA DaysNamed ==
  ASSUME NEW schedule \in Schedules, NEW weekday \in 0..6,
         <<"Sun", "Mon", "Tue", "Wed", "Thu", "Fri", "Sat">>[weekday + 1] \in SendDays(schedule)
  PROVE  IsAllowedSendDay(schedule, weekday)
<1> DEFINE name(d) == <<"Sun", "Mon", "Tue", "Wed", "Thu", "Fri", "Sat">>[d + 1]
<1>1. /\ schedule.type \in ScheduleTypes /\ schedule.daysOfWeek \subseteq 0..6
  BY DEF Schedules
<1>2. /\ name(0) = "Sun" /\ name(1) = "Mon" /\ name(2) = "Tue" /\ name(3) = "Wed"
      /\ name(4) = "Thu" /\ name(5) = "Fri" /\ name(6) = "Sat"
  OBVIOUS
<1>3. \A d \in 0..6 : d \in {0, 1, 2, 3, 4, 5, 6}
  OBVIOUS
<1>4. name(weekday) \in SendDays(schedule)
  OBVIOUS
<1>5. CASE schedule.type \in {"daily", "custom_interval"}
  BY <1>5 DEF IsAllowedSendDay
<1>6. CASE schedule.type = "weekdays"
  <2> HIDE DEF name
  <2>1. weekday \in {1, 2, 3, 4, 5}
    BY <1>2, <1>3, <1>4, <1>6 DEF SendDays
  <2> QED
    BY <1>6, <2>1 DEF IsAllowedSendDay
<1>7. CASE schedule.type = "monday_wednesday_friday"
  <2> HIDE DEF name
  <2>1. weekday \in {1, 3, 5}
    BY <1>2, <1>3, <1>4, <1>7 DEF SendDays
  <2> QED
    BY <1>7, <2>1 DEF IsAllowedSendDay
<1>8. CASE schedule.type = "custom_days_of_week" /\ schedule.daysOfWeek # {}
  <2>1. SendDays(schedule) = {name(d) : d \in schedule.daysOfWeek}
    BY <1>8 DEF SendDays, name
  <2> HIDE DEF name
  <2>2. PICK d \in schedule.daysOfWeek : name(weekday) = name(d)
    BY <1>4, <2>1
  <2>3. weekday = d
    <3>1. d \in {0, 1, 2, 3, 4, 5, 6} /\ weekday \in {0, 1, 2, 3, 4, 5, 6}
      BY <1>1, <1>3
    <3> QED
      BY <1>2, <2>2, <3>1
  <2> QED
    BY <1>8, <2>3 DEF IsAllowedSendDay
<1>9. CASE schedule.type = "custom_days_of_week" /\ schedule.daysOfWeek = {}
  BY <1>9 DEF IsAllowedSendDay
<1> QED
  BY <1>1, <1>5, <1>6, <1>7, <1>8, <1>9 DEF ScheduleTypes

\* With an interval that the API accepts, the rule and the calendar agree in every zone: no step
\* is due early, and none is held back.  The exception is local midnight where Intl prints it as
\* 24 (EarlyAtMidnight).
THEOREM RuleIsTheCalendar ==
  ASSUME NEW s \in Settings, NEW enrolled \in 0..Horizon, NEW now \in 0..Horizon, NEW order \in Steps,
         s.schedule.intervalDays # 0,
         MidnightHour = 0 \/ SlotOf(now, s.zone) # 0
  PROVE  IsStepDue(s.schedule, enrolled, now, s.zone, order, s.delay[order])
           <=> DueByCalendar(s.schedule, enrolled, now, s.zone, order, s.delay[order])
<1> SUFFICES ASSUME DueByCalendar(s.schedule, enrolled, now, s.zone, order, s.delay[order])
             PROVE  IsStepDue(s.schedule, enrolled, now, s.zone, order, s.delay[order])
  BY DueByRule
<1>1. /\ s.schedule \in Schedules /\ order \in Nat \ {0}
      /\ s.schedule.intervalDays \in (Nat \ {0}) \cup {NotSet} /\ s.schedule.sendTime \in Nat \cup {NotSet}
  BY Assumptions DEF Steps, Schedules
<1>2. DaysBetweenLocalDates(enrolled, now, s.zone) = Midnights(enrolled, now, s.zone)
  BY MidnightsBetween
<1>3. RequiredDelayDays(s.schedule, order)
        = (order - 1) * (IF s.schedule.type = "custom_interval" /\ s.schedule.intervalDays # NotSet
                         THEN s.schedule.intervalDays ELSE 1)
  <2>1. CASE s.schedule.type # "custom_interval"
    BY <1>1, <2>1 DEF RequiredDelayDays
  <2>2. CASE s.schedule.type = "custom_interval" /\ s.schedule.intervalDays = NotSet
    BY <2>2 DEF RequiredDelayDays, NotSet
  <2>3. CASE s.schedule.type = "custom_interval" /\ s.schedule.intervalDays \in Nat \ {0}
    BY <2>3 DEF RequiredDelayDays, NotSet
  <2> QED
    BY <1>1, <2>1, <2>2, <2>3
<1>4. DaysBetweenLocalDates(enrolled, now, s.zone) >=
        IF s.delay[order] # NotSet THEN s.delay[order] ELSE RequiredDelayDays(s.schedule, order)
  BY <1>2, <1>3 DEF DueByCalendar
<1>5. IsAllowedSendDay(s.schedule, Weekday(now, s.zone))
  BY <1>1, DayNamed, DaysNamed DEF DueByCalendar
<1>6. IsAtOrAfterSendTime(now, s.zone, s.schedule)
  <2> DEFINE time == IF s.schedule.sendTime = NotSet THEN DefaultSendTime ELSE s.schedule.sendTime
  <2>1. SlotOf(now, s.zone) >= time
    BY DEF DueByCalendar
  <2> HIDE DEF time
  <2>2. Hour(now, s.zone) = SlotOf(now, s.zone)
    BY DEF Hour
  <2> QED
    BY <2>1, <2>2 DEF IsAtOrAfterSendTime, time
<1> QED
  BY <1>4, <1>5, <1>6 DEF IsStepDue

\* Where Intl prints local midnight as 24, a step whose days have passed is due at local midnight
\* already, on the day it is to be sent but before its send time: the calendar says it is not.
THEOREM EarlyAtMidnight ==
  ASSUME NEW s \in Settings, NEW enrolled \in 0..Horizon, NEW now \in 0..Horizon, NEW order \in Steps,
         MidnightHour # 0, SlotOf(now, s.zone) = 0,
         s.schedule.sendTime \in 1..(SlotsPerDay - 1),
         s.delay[order] # NotSet, DaysBetweenLocalDates(enrolled, now, s.zone) >= s.delay[order],
         IsAllowedSendDay(s.schedule, Weekday(now, s.zone))
  PROVE  /\ IsStepDue(s.schedule, enrolled, now, s.zone, order, s.delay[order])
         /\ ~DueByCalendar(s.schedule, enrolled, now, s.zone, order, s.delay[order])
<1>1. MidnightHour = SlotsPerDay /\ SlotsPerDay \in Nat \ {0}
  BY CalendarAssumptions
<1>2. s.schedule.sendTime # NotSet /\ s.schedule.sendTime > 0 /\ s.schedule.sendTime <= SlotsPerDay
  BY <1>1 DEF NotSet
<1>3. IsAtOrAfterSendTime(now, s.zone, s.schedule)
  BY <1>1, <1>2 DEF IsAtOrAfterSendTime, Hour
<1>4. ~DueByCalendar(s.schedule, enrolled, now, s.zone, order, s.delay[order])
  BY <1>2 DEF DueByCalendar
<1> QED
  BY <1>3, <1>4 DEF IsStepDue

\* The rows a cycle is about to queue were due when it began, and their enrollments are there.
DueBatches == \A p \in Processes : \A c \in cycle[p].batch :
  enrollment[c[1]] # "absent" /\ IsDue(c[1], c[2], cycle[p].now)

\* What a step must leave alone for the rows of a cycle to stay due.
LEMMA StillDue ==
  ASSUME DueBatches, UNCHANGED setting,
         \A e \in Enrollments : enrollment[e] # "absent" => enrollment'[e] # "absent" /\ enrolledAt'[e] = enrolledAt[e],
         \A p \in Processes : \/ cycle'[p].batch = {}
                              \/ cycle'[p].now = cycle[p].now /\ cycle'[p].batch \subseteq cycle[p].batch,
         TypeOK
  PROVE  DueBatches'
<1> SUFFICES ASSUME NEW p \in Processes, NEW c \in cycle'[p].batch
             PROVE  (enrollment[c[1]] # "absent" /\ IsDue(c[1], c[2], cycle[p].now))'
  BY DEF DueBatches
<1>1. cycle'[p].now = cycle[p].now /\ c \in cycle[p].batch
  OBVIOUS
<1>2. enrollment[c[1]] # "absent" /\ IsDue(c[1], c[2], cycle[p].now)
  BY <1>1 DEF DueBatches
<1>3. c[1] \in Enrollments
  <2>1. c \in Candidates
    BY <1>1 DEF TypeOK
  <2> QED
    BY <2>1 DEF Candidates
<1>4. enrollment'[c[1]] # "absent" /\ enrolledAt'[c[1]] = enrolledAt[c[1]] /\ setting' = setting
  BY <1>2, <1>3
<1> QED
  BY <1>1, <1>2, <1>4 DEF IsDue

\* Every step keeps the rows of cycles due.
LEMMA DueBatchesStep == TypeOK /\ DueBatches /\ [Next]_vars => DueBatches'
<1> SUFFICES ASSUME TypeOK, DueBatches, [Next]_vars PROVE DueBatches'
  OBVIOUS
<1>1. CASE UNCHANGED <<setting, enrollment, enrolledAt, cycle>>
  BY <1>1, StillDue
<1>2. CASE UNCHANGED vars \/ Tick \/ \E e \in Enrollments : OptOut(e)
  BY <1>1, <1>2 DEF vars, people, Tick, OptOut
<1>3. ASSUME NEW p \in Processes, BeginCycle(p) \/ CycleFails(p) \/ Restart(p) PROVE DueBatches'
  <2>1. UNCHANGED <<setting, enrollment, enrolledAt>>
    BY <1>3 DEF BeginCycle, CycleFails, Restart, people
  <2>2. \A q \in Processes : cycle'[q].batch = {} \/ cycle'[q] = cycle[q]
    BY <1>3 DEF BeginCycle, CycleFails, Restart, Idle, TypeOK
  <2> QED
    BY <2>1, <2>2, StillDue
<1>4. ASSUME NEW p \in Processes, ReadCandidates(p) PROVE DueBatches'
  <2>1. UNCHANGED <<setting, enrollment, enrolledAt>>
    BY <1>4 DEF ReadCandidates, people
  <2>2. PICK rowsRead \in SUBSET PendingRows(Head(cycle[p].orgs)) :
          cycle' = [cycle EXCEPT ![p] = Rest([cycle[p] EXCEPT !.batch = ToQueue(rowsRead, cycle[p].now),
                                                              !.orgs = Tail(@)])]
    BY <1>4 DEF ReadCandidates, kSubset
  <2> DEFINE c == [cycle[p] EXCEPT !.batch = ToQueue(rowsRead, cycle[p].now), !.orgs = Tail(@)]
  <2>3. c.batch = ToQueue(rowsRead, cycle[p].now) /\ c.now = cycle[p].now
    BY DEF TypeOK
  <2>4. cycle' = [cycle EXCEPT ![p] = Rest(c)]
    BY <2>2
  <2> HIDE DEF c
  <2>5. Rest(c).batch = ToQueue(rowsRead, cycle[p].now)
    BY <2>3, RestBatch
  <2>6. Rest(c).batch # {} => Rest(c).now = cycle[p].now
    BY <2>3 DEF Rest, Idle
  <2>7. \A q \in Processes : cycle'[q] = IF q = p THEN Rest(c) ELSE cycle[q]
    BY <2>4 DEF TypeOK
  <2>8. \A d \in ToQueue(rowsRead, cycle[p].now) : enrollment[d[1]] # "absent" /\ IsDue(d[1], d[2], cycle[p].now)
    BY DEF ToQueue, PendingRows
  <2>9. ASSUME NEW q \in Processes, NEW d \in cycle'[q].batch
        PROVE  enrollment[d[1]] # "absent" /\ IsDue(d[1], d[2], cycle'[q].now)
    BY <2>5, <2>6, <2>7, <2>8 DEF DueBatches
  <2> QED
    BY <2>1, <2>9 DEF DueBatches, IsDue
<1>5. ASSUME NEW p \in Processes, NEW c \in Candidates, QueueStep(p, c) PROVE DueBatches'
  <2> DEFINE left == [cycle[p] EXCEPT !.batch = @ \ {c}]
  <2>1. UNCHANGED <<setting, enrollment, enrolledAt>> /\ cycle' = [cycle EXCEPT ![p] = Rest(left)]
    BY <1>5 DEF QueueStep
  <2>2. left.batch = cycle[p].batch \ {c} /\ left.now = cycle[p].now
    BY DEF TypeOK
  <2> HIDE DEF left
  <2>3. \A q \in Processes : \/ cycle'[q].batch = {}
                             \/ cycle'[q].now = cycle[q].now /\ cycle'[q].batch \subseteq cycle[q].batch
    BY <2>1, <2>2 DEF TypeOK, Rest, Idle
  <2> QED
    BY <2>1, <2>3, StillDue
<1>6. ASSUME NEW e \in Enrollments, Enroll(e) \/ Leave(e) \/ ComeBack(e) \/ Complete(e) PROVE DueBatches'
  <2>1. UNCHANGED <<setting, cycle>>
    BY <1>6 DEF Enroll, Leave, ComeBack, Complete
  <2>2. \A f \in Enrollments : enrollment[f] # "absent" => enrollment'[f] # "absent" /\ enrolledAt'[f] = enrolledAt[f]
    BY <1>6 DEF Enroll, Leave, ComeBack, Complete, TypeOK
  <2> QED
    BY <2>1, <2>2, StillDue
<1> QED
  BY <1>2, <1>3, <1>4, <1>5, <1>6 DEF Next, Work

\* A row only moves forward, to queued only in a cycle that holds it.
LEMMA RowsMove ==
  ASSUME MidnightHour = 0, TypeOK, InOrder, DueBatches, Next, NEW e \in Enrollments, NEW s \in Steps, row'[e][s] # row[e][s]
  PROVE  /\ RowRank[row'[e][s]] > RowRank[row[e][s]]
         /\ row'[e][s] = "queued" => \E p \in Processes : CalendarSays(e, s, cycle[p].now)
<1>1. CASE \E p \in Processes : \E c \in Candidates : QueueStep(p, c)
  <2>1. PICK p \in Processes, c \in Candidates : QueueStep(p, c)
    BY <1>1
  <2>2. PICK f \in Enrollments, t \in Steps : c = <<f, t>>
    BY DEF Candidates
  <2>3. /\ row' = [row EXCEPT ![f][t] = IF row[f][t] = "pending" THEN "queued" ELSE row[f][t]]
        /\ c \in cycle[p].batch
    BY <2>1, <2>2 DEF QueueStep
  <2>4. f = e /\ t = s /\ row[e][s] = "pending" /\ row'[e][s] = "queued"
    BY <2>3 DEF TypeOK
  <2>5. IsDue(e, s, cycle[p].now)
    BY <2>2, <2>3, <2>4 DEF DueBatches
  <2>6. setting \in Settings /\ enrolledAt[e] \in 0..Horizon /\ cycle[p].now \in 0..Horizon
    BY DEF TypeOK
  <2>7. CalendarSays(e, s, cycle[p].now)
    BY <2>5, <2>6, DueByRule DEF IsDue, CalendarSays
  <2> QED
    BY <2>4, <2>7 DEF RowRank
<1>2. CASE \E f \in Enrollments : Enroll(f)
  <2>1. PICK f \in Enrollments : Enroll(f)
    BY <1>2
  <2>2. f = e /\ row'[e][s] = "pending" /\ enrollment[e] = "absent"
    BY <2>1 DEF Enroll, TypeOK
  <2>3. row[e][s] = "none"
    BY <2>2 DEF InOrder, RowsAround
  <2> QED
    BY <2>2, <2>3 DEF RowRank
<1>3. CASE \E f \in Enrollments : Complete(f)
  <2>1. PICK f \in Enrollments : Complete(f)
    BY <1>3
  <2>2. f = e /\ row[e][s] = "queued" /\ row'[e][s] = "completed"
    BY <2>1 DEF Complete, TypeOK
  <2> QED
    BY <2>2 DEF RowRank
<1>4. CASE row' = row
  BY <1>4
<1>5. \/ \E p \in Processes : \E c \in Candidates : QueueStep(p, c)
      \/ \E f \in Enrollments : Enroll(f) \/ Complete(f)
      \/ row' = row
  <2>1. ASSUME Tick \/ \E p \in Processes : BeginCycle(p) \/ ReadCandidates(p) \/ CycleFails(p) \/ Restart(p)
        PROVE  row' = row
    BY <2>1 DEF Tick, BeginCycle, ReadCandidates, CycleFails, Restart, people
  <2>2. ASSUME NEW f \in Enrollments, Leave(f) \/ ComeBack(f) \/ OptOut(f) PROVE row' = row
    BY <2>2 DEF Leave, ComeBack, OptOut
  <2> QED
    BY <2>1, <2>2 DEF Next, Work
<1> QED
  BY <1>1, <1>2, <1>3, <1>4, <1>5

\* For any number of processes, whatever the zone's clock does by a day at most, and however old
\* a candidate has become: a step is queued only when the calendar said it was due, where Intl
\* prints local midnight as 00.
THEOREM Due == ASSUME MidnightHour = 0 PROVE Spec => QueuedWhenDue
<1>1. Init => TypeOK /\ InOrder /\ DueBatches
  <2>1. Init => DueBatches
    BY DEF Init, Idle, DueBatches
  <2> QED
    BY <2>1, TypeInit, InOrderInit
<1>2. TypeOK /\ InOrder /\ DueBatches /\ [Next]_vars => (TypeOK /\ InOrder /\ DueBatches)'
  BY TypeStep, InOrderStep, DueBatchesStep
<1>3. TypeOK /\ InOrder /\ DueBatches /\ [Next]_vars =>
        [\A e \in Enrollments : \A s \in Steps :
           row'[e][s] # row[e][s] =>
             /\ RowRank[row'[e][s]] > RowRank[row[e][s]]
             /\ row'[e][s] = "queued" => \E p \in Processes : CalendarSays(e, s, cycle[p].now)]_vars
  BY RowsMove
<1> QED
  BY <1>1, <1>2, <1>3, PTL DEF Spec, QueuedWhenDue

=============================================================================
