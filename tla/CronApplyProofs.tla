--------------------------- MODULE CronApplyProofs ---------------------------
(***************************************************************************)
(* Proofs about the crontab and the commands that plan, apply, verify and  *)
(* roll it back (module CronApply), for crontabs of any length, any lines  *)
(* of the owner and any number of edits, runs and failures.                *)
(***************************************************************************)
EXTENDS CronApply, FiniteSetTheorems, TLAPS

-----------------------------------------------------------------------------
(* Arranging and picking                                                   *)

\* The members of a finite set in a strict total order: each stands at one
\* place, and the places follow the order.
LEMMA ArrangedIsOrdered ==
    ASSUME NEW S, IsFiniteSet(S), NEW R,
           \A x \in S : <<x, x>> \notin R,
           \A x, y, z \in S : <<x, y>> \in R /\ <<y, z>> \in R => <<x, z>> \in R,
           \A x, y \in S : x = y \/ <<x, y>> \in R \/ <<y, x>> \in R
    PROVE  /\ Cardinality(S) \in Nat
           /\ Arranged(S, R) \in [1..Cardinality(S) -> S]
           /\ \A x \in S : \E k \in 1..Cardinality(S) : Arranged(S, R)[k] = x
           /\ \A i, j \in 1..Cardinality(S) :
                <<Arranged(S, R)[i], Arranged(S, R)[j]>> \in R => i < j
<1>. DEFINE n == Cardinality(S)
            pre == [x \in S |-> {y \in S : <<y, x>> \in R}]
            rank == [x \in S |-> Cardinality(pre[x])]
            at(k) == CHOOSE x \in S : Cardinality({y \in S : <<y, x>> \in R}) = k - 1
<1>1. n \in Nat
  BY FS_CardinalityType
<1>2. ASSUME NEW x \in S PROVE IsFiniteSet(pre[x]) /\ rank[x] \in 0..(n - 1)
  <2>1. pre[x] \in SUBSET S /\ pre[x] # S
    OBVIOUS
  <2>. HIDE DEF pre
  <2>2. IsFiniteSet(pre[x]) /\ Cardinality(pre[x]) <= n /\ Cardinality(pre[x]) # n
    BY <2>1, FS_Subset
  <2>3. Cardinality(pre[x]) \in Nat
    BY <2>2, FS_CardinalityType
  <2>. QED BY <1>1, <2>2, <2>3
<1>3. ASSUME NEW x \in S, NEW y \in S, <<x, y>> \in R PROVE rank[x] < rank[y]
  <2>1. pre[x] \in SUBSET pre[y] /\ pre[x] # pre[y]
    BY <1>3
  <2>. HIDE DEF pre
  <2>2. IsFiniteSet(pre[y])
    BY <1>2
  <2>3. Cardinality(pre[x]) <= Cardinality(pre[y]) /\ Cardinality(pre[x]) # Cardinality(pre[y])
    BY <2>1, <2>2, FS_Subset
  <2>4. rank[x] \in 0..(n - 1) /\ rank[y] \in 0..(n - 1)
    BY <1>2
  <2>. QED BY <1>1, <2>3, <2>4
<1>4. Arranged(S, R) = [k \in 1..n |-> at(k)]
  BY DEF Arranged
<1>5. ASSUME NEW k \in 1..n, \E x \in S : rank[x] = k - 1 PROVE at(k) \in S /\ rank[at(k)] = k - 1
  BY <1>5
<1>. HIDE DEF rank, pre, at
<1>6. rank \in [S -> 0..(n - 1)]
  BY <1>2 DEF rank
<1>7. ASSUME NEW x \in S, NEW y \in S, rank[x] = rank[y] PROVE x = y
  <2>1. rank[x] \in Int /\ ~ (rank[x] < rank[y]) /\ ~ (rank[y] < rank[x])
    BY <1>1, <1>6, <1>7
  <2>. QED BY <2>1, <1>3
<1>8. ASSUME NEW k \in 1..n PROVE \E x \in S : rank[x] = k - 1
  <2>. SUFFICES ASSUME \A x \in S : rank[x] # k - 1 PROVE FALSE
    OBVIOUS
  <2>. DEFINE T == (0..(n - 1)) \ {k - 1}
  <2>1. IsFiniteSet(0..(n - 1)) /\ Cardinality(0..(n - 1)) = n
    <3>1. 0 \in Int /\ n - 1 \in Int /\ ~ (0 > n - 1) /\ (n - 1) - 0 + 1 = n
      BY <1>1
    <3>. QED BY <3>1, FS_Interval
  <2>2. T \in SUBSET (0..(n - 1)) /\ T # 0..(n - 1)
    BY <1>1
  <2>3. rank \in [S -> T]
    BY <1>6
  <2>. HIDE DEF T
  <2>4. IsFiniteSet(T) /\ Cardinality(T) <= n /\ Cardinality(T) # n
    BY <2>1, <2>2, FS_Subset
  <2>5. Cardinality(T) < n
    BY <1>1, <2>4, FS_CardinalityType
  <2>6. \E x, y \in S : x # y /\ rank[x] = rank[y]
    BY <2>3, <2>4, <2>5, FS_PigeonHole
  <2>. QED BY <2>6, <1>7
<1>9. ASSUME NEW k \in 1..n PROVE Arranged(S, R)[k] \in S /\ rank[Arranged(S, R)[k]] = k - 1
  BY <1>4, <1>5, <1>8
<1>10. Arranged(S, R) \in [1..n -> S]
  BY <1>4, <1>9
<1>11. ASSUME NEW x \in S PROVE \E k \in 1..n : Arranged(S, R)[k] = x
  <2>1. PICK k \in 1..n : k = rank[x] + 1
    BY <1>1, <1>6
  <2>2. rank[Arranged(S, R)[k]] = rank[x]
    BY <1>1, <1>6, <1>9, <2>1
  <2>. QED BY <1>7, <1>9, <2>2
<1>12. ASSUME NEW i \in 1..n, NEW j \in 1..n, <<Arranged(S, R)[i], Arranged(S, R)[j]>> \in R PROVE i < j
  <2>1. rank[Arranged(S, R)[i]] < rank[Arranged(S, R)[j]]
    BY <1>3, <1>9, <1>12
  <2>. QED BY <1>1, <1>9, <2>1
<1>. QED BY <1>1, <1>10, <1>11, <1>12

\* The lines picked from a sequence are the lines at these places, all of
\* them, in their order.
LEMMA PickedIsSub ==
    ASSUME NEW T, NEW s \in Seq(T), NEW ks \in SUBSET DOMAIN s
    PROVE  /\ Picked(s, ks) \in Seq(T)
           /\ \E at \in [DOMAIN Picked(s, ks) -> ks] :
                /\ \A k \in DOMAIN Picked(s, ks) : Picked(s, ks)[k] = s[at[k]]
                /\ \A i \in ks : \E k \in DOMAIN Picked(s, ks) : at[k] = i
                /\ \A j, k \in DOMAIN Picked(s, ks) : at[j] < at[k] => j < k
<1>. DEFINE R == {p \in ks \X ks : p[1] < p[2]}
            at == Arranged(ks, R)
            n == Cardinality(ks)
<1>1. IsFiniteSet(ks) /\ ks \subseteq Nat
  <2>1. DOMAIN s = 1..Len(s) /\ Len(s) \in Nat
    OBVIOUS
  <2>2. IsFiniteSet(1..Len(s))
    BY <2>1, FS_Interval
  <2>. QED BY <2>1, <2>2, FS_Subset
<1>2. \A x, y \in ks : <<x, y>> \in R <=> x < y
  OBVIOUS
<1>. HIDE DEF R
<1>3. /\ \A x \in ks : <<x, x>> \notin R
      /\ \A x, y, z \in ks : <<x, y>> \in R /\ <<y, z>> \in R => <<x, z>> \in R
      /\ \A x, y \in ks : x = y \/ <<x, y>> \in R \/ <<y, x>> \in R
  BY <1>1, <1>2
<1>4. /\ n \in Nat
      /\ at \in [1..n -> ks]
      /\ \A x \in ks : \E k \in 1..n : at[k] = x
      /\ \A i, j \in 1..n : <<at[i], at[j]>> \in R => i < j
  BY <1>1, <1>3, ArrangedIsOrdered
<1>5. Picked(s, ks) = [k \in 1..n |-> s[at[k]]]
  BY <1>4 DEF Picked, R
<1>. HIDE DEF at
<1>6. Picked(s, ks) \in Seq(T)
  <2>1. \A k \in 1..n : s[at[k]] \in T
    BY <1>4
  <2>. QED BY <1>4, <1>5, <2>1
<1>7. DOMAIN Picked(s, ks) = 1..n
  BY <1>5
<1>8. \A k \in 1..n : Picked(s, ks)[k] = s[at[k]]
  BY <1>5
<1>9. at \in [DOMAIN Picked(s, ks) -> ks]
  BY <1>4, <1>7
<1>10. /\ \A k \in DOMAIN Picked(s, ks) : Picked(s, ks)[k] = s[at[k]]
       /\ \A i \in ks : \E k \in DOMAIN Picked(s, ks) : at[k] = i
       /\ \A j, k \in DOMAIN Picked(s, ks) : at[j] < at[k] => j < k
  BY <1>2, <1>4, <1>7, <1>8
<1>. QED BY <1>6, <1>9, <1>10

-----------------------------------------------------------------------------
(* The plan                                                                *)

Ops == [action : {"create", "skip", "manual"}, line : Lines]

\* Of two lines with different keys one is before the other.
LEMMA LinesAreOrdered ==
    ASSUME NEW l \in Lines, NEW m \in Lines
    PROVE  /\ ~ Before(l, l)
           /\ Key(l) = Key(m) \/ Before(l, m) \/ Before(m, l)
<1>1. \A x \in {l, m} : x.kind \in {"job", "env"} /\ x.name \in Nat /\ x.home \in {"source", "dest", "none"}
  BY CronApplyAssumption DEF Lines
<1>2. \A h \in {"source", "dest", "none"} : Place[h] \in Nat
  BY DEF Place
<1>3. \A g, h \in {"source", "dest", "none"} : Place[g] = Place[h] => g = h
  BY DEF Place
<1>4. ~ Before(l, l)
  BY <1>1, <1>2 DEF Before, KeyBefore
<1>5. CASE l.kind # m.kind
  BY <1>1, <1>5, <1>4 DEF Before
<1>6. CASE l.kind = m.kind /\ l.name # m.name
  BY <1>1, <1>6, <1>4 DEF Before, KeyBefore
<1>7. CASE l.kind = m.kind /\ l.name = m.name
  <2>1. CASE l.home = m.home
    BY <1>4, <1>7, <2>1 DEF Key
  <2>2. CASE l.home # m.home
    BY <1>1, <1>2, <1>3, <1>4, <1>7, <2>2 DEF Before, KeyBefore
  <2>. QED BY <2>1, <2>2
<1>. QED BY <1>5, <1>6, <1>7

\* The order of the lines is transitive.
LEMMA BeforeIsTransitive ==
    ASSUME NEW l \in Lines, NEW m \in Lines, NEW n \in Lines, Before(l, m), Before(m, n)
    PROVE  Before(l, n)
<1>1. \A x \in {l, m, n} : x.kind \in {"job", "env"} /\ x.name \in Nat /\ x.home \in {"source", "dest", "none"}
  BY CronApplyAssumption DEF Lines
<1>2. \A h \in {"source", "dest", "none"} : Place[h] \in Nat
  BY DEF Place
<1>3. CASE l.kind # m.kind \/ m.kind # n.kind
  BY <1>1, <1>3 DEF Before
<1>4. CASE l.kind = m.kind /\ m.kind = n.kind
  BY <1>1, <1>2, <1>4 DEF Before, KeyBefore
<1>. QED BY <1>3, <1>4

\* The first lines of a crontab have different keys, and are in order.
LEMMA FirstsAreOrdered ==
    ASSUME NEW src \in Seq(Lines)
    PROVE  /\ \A i \in Firsts(src) : i \in DOMAIN src /\ src[i] \in Lines
           /\ \A i, j \in Firsts(src) : Key(src[i]) = Key(src[j]) => i = j
           /\ \A i \in Firsts(src) : ~ Before(src[i], src[i])
           /\ \A i, j \in Firsts(src) : i = j \/ Before(src[i], src[j]) \/ Before(src[j], src[i])
           /\ \A i, j, k \in Firsts(src) :
                Before(src[i], src[j]) /\ Before(src[j], src[k]) => Before(src[i], src[k])
<1>1. \A i \in Firsts(src) : i \in DOMAIN src /\ i \in Nat /\ src[i] \in Lines
  BY DEF Firsts
<1>2. \A i, j \in Firsts(src) : Key(src[i]) = Key(src[j]) => i = j
  BY <1>1 DEF Firsts, Matches
<1>3. \A i \in Firsts(src) : ~ Before(src[i], src[i])
  BY <1>1, LinesAreOrdered
<1>4. \A i, j \in Firsts(src) : i = j \/ Before(src[i], src[j]) \/ Before(src[j], src[i])
  BY <1>1, <1>2, LinesAreOrdered
<1>5. \A i, j, k \in Firsts(src) :
        Before(src[i], src[j]) /\ Before(src[j], src[k]) => Before(src[i], src[k])
  BY <1>1, BeforeIsTransitive
<1>. QED BY <1>1, <1>2, <1>3, <1>4, <1>5

\* The op of a line is an op.
LEMMA PlanOpType ==
    ASSUME NEW l \in Lines, NEW dest
    PROVE  /\ PlanOp(l, dest) \in Ops
           /\ PlanOp(l, dest).line \in {l, adaptCronPath(l)} /\ PlanOp(l, dest).line.kind = l.kind
           /\ l.kind = "env" => PlanOp(l, dest).line = l
<1>1. adaptCronPath(l) \in Lines /\ adaptCronPath(l).kind = l.kind
  BY DEF adaptCronPath, Lines
<1>. QED BY <1>1 DEF PlanOp, Ops

\* The plan has one op for the first line of each key, in order.
LEMMA PlanFollowsSource ==
    ASSUME NEW src \in Seq(Lines), NEW dest
    PROVE  /\ BuildCronPlan(src, dest) \in Seq(Ops)
           /\ \E at \in [DOMAIN BuildCronPlan(src, dest) -> Firsts(src)] :
                /\ \A k \in DOMAIN BuildCronPlan(src, dest) :
                     BuildCronPlan(src, dest)[k] = PlanOp(src[at[k]], dest)
                /\ \A i \in Firsts(src) : \E k \in DOMAIN BuildCronPlan(src, dest) : at[k] = i
                /\ \A j, k \in DOMAIN BuildCronPlan(src, dest) :
                     Before(src[at[j]], src[at[k]]) => j < k
<1>. DEFINE S == Firsts(src)
            R == {p \in S \X S : Before(src[p[1]], src[p[2]])}
            at == Arranged(S, R)
            n == Cardinality(S)
<1>1. IsFiniteSet(S) /\ S \subseteq DOMAIN src
  <2>1. DOMAIN src = 1..Len(src) /\ Len(src) \in Nat
    OBVIOUS
  <2>2. IsFiniteSet(1..Len(src))
    BY <2>1, FS_Interval
  <2>3. S \in SUBSET DOMAIN src
    BY DEF Firsts
  <2>. QED BY <2>1, <2>2, <2>3, FS_Subset
<1>2. \A x, y \in S : <<x, y>> \in R <=> Before(src[x], src[y])
  OBVIOUS
<1>3. BuildCronPlan(src, dest) = [k \in DOMAIN at |-> PlanOp(src[at[k]], dest)]
  BY DEF BuildCronPlan
<1>. HIDE DEF R
<1>4. /\ \A x \in S : <<x, x>> \notin R
      /\ \A x, y, z \in S : <<x, y>> \in R /\ <<y, z>> \in R => <<x, z>> \in R
      /\ \A x, y \in S : x = y \/ <<x, y>> \in R \/ <<y, x>> \in R
  BY <1>2, FirstsAreOrdered
<1>5. /\ n \in Nat
      /\ at \in [1..n -> S]
      /\ \A x \in S : \E k \in 1..n : at[k] = x
      /\ \A i, j \in 1..n : <<at[i], at[j]>> \in R => i < j
  BY <1>1, <1>4, ArrangedIsOrdered
<1>. HIDE DEF at, S
<1>6. \A k \in 1..n : PlanOp(src[at[k]], dest) \in Ops
  <2>1. \A k \in 1..n : src[at[k]] \in Lines
    BY <1>1, <1>5
  <2>. QED BY ONLY <2>1, PlanOpType
<1>7. BuildCronPlan(src, dest) \in Seq(Ops) /\ DOMAIN BuildCronPlan(src, dest) = 1..n
  <2>1. DOMAIN at = 1..n /\ n \in Nat
    BY <1>5
  <2>2. [k \in 1..n |-> PlanOp(src[at[k]], dest)] \in Seq(Ops)
    BY ONLY <1>6, <2>1
  <2>. QED BY <1>3, <2>1, <2>2
<1>8. at \in [DOMAIN BuildCronPlan(src, dest) -> S]
  BY <1>5, <1>7
<1>9. /\ \A k \in DOMAIN BuildCronPlan(src, dest) :
           BuildCronPlan(src, dest)[k] = PlanOp(src[at[k]], dest)
      /\ \A i \in S : \E k \in DOMAIN BuildCronPlan(src, dest) : at[k] = i
      /\ \A j, k \in DOMAIN BuildCronPlan(src, dest) : Before(src[at[j]], src[at[k]]) => j < k
  BY <1>2, <1>3, <1>5, <1>7
<1>. QED BY <1>7, <1>8, <1>9 DEF S

-----------------------------------------------------------------------------
(* The runs                                                                *)

\* What a run has read: the table as it was, and what the owner has touched
\* since then is on record.
ReadingSound ==
    /\ pc \in {"idle", "backup", "install", "verify"} => result = "none"
    /\ pc = "backup" /\ ~touched => current = tab
    /\ pc \in {"backup", "install"} => \A k \in DOMAIN tab : tab[k] \in late \/ Contains(current, tab[k])

\* An install and a restore follow a backup.
BackupTaken ==
    /\ pc = "install" => backup = current
    /\ pc = "restore" => backup # Missing

\* What an install has written is in the table until somebody edits it.
Appended ==
    (pc = "verify" \/ (pc = "report" /\ result = "applied")) /\ ~touched => tab = current \o NewLines

\* A plan is made from the source and from the table that was seen.
Planned ==
    /\ plan = <<>> \/ plan = BuildCronPlan(source, seen)
    /\ seen # Missing => plan = BuildCronPlan(source, seen)

CronInv == TypeOK /\ RollbackOnlyRemoves /\ ReadingSound /\ BackupTaken /\ Appended /\ Planned

\* A sequence is a prefix of itself and of what is appended to it.
LEMMA PrefixKept ==
    ASSUME NEW T, NEW s \in Seq(T), NEW t \in Seq(T)
    PROVE  IsPrefix(s, s) /\ IsPrefix(s, s \o t)
<1>1. SubSeq(s \o t, 1, Len(s)) = SubSeq(s, 1, Len(s))
  OBVIOUS
<1>. QED BY <1>1 DEF IsPrefix

\* The places of what is appended follow those of what was there.
LEMMA AppendedPlaces ==
    ASSUME NEW T, NEW s \in Seq(T), NEW t \in Seq(T), NEW r, r = s \o t
    PROVE  /\ Len(s) \in Nat /\ DOMAIN s = 1..Len(s)
           /\ \A i \in 1..Len(s) : i \in DOMAIN r /\ r[i] = s[i]
           /\ \A i \in DOMAIN t : Len(s) + i \in DOMAIN r /\ r[Len(s) + i] = t[i]
           /\ \A i \in DOMAIN r : i > Len(s) => i - Len(s) \in DOMAIN t /\ r[i] = t[i - Len(s)]
<1>1. DOMAIN s = 1..Len(s) /\ DOMAIN t = 1..Len(t) /\ DOMAIN (s \o t) = 1..(Len(s) + Len(t))
  OBVIOUS
<1>2. \A i \in 1..Len(s) : (s \o t)[i] = s[i]
  OBVIOUS
<1>3. ASSUME NEW i \in DOMAIN t
      PROVE  Len(s) + i \in DOMAIN (s \o t) /\ (s \o t)[Len(s) + i] = t[i]
  BY <1>1
<1>4. ASSUME NEW i \in DOMAIN (s \o t), i > Len(s)
      PROVE  i - Len(s) \in DOMAIN t /\ (s \o t)[i] = t[i - Len(s)]
  BY <1>1, <1>4
<1>. QED BY <1>1, <1>2, <1>3, <1>4

\* The created lines are lines, and those of the plan's creates.
LEMMA NewLinesType ==
    ASSUME plan \in Seq(Ops)
    PROVE  NewLines \in Seq(Lines)
<1>. DEFINE ks == {k \in DOMAIN plan : plan[k].action = "create"}
<1>1. Picked(plan, ks) \in Seq(Ops)
  BY PickedIsSub
<1>2. Creates \in Seq(Ops)
  BY <1>1 DEF Creates
<1>3. \A k \in DOMAIN Creates : Creates[k] \in Ops
  BY <1>2
<1>4. \A k \in DOMAIN Creates : Creates[k].line \in Lines
  BY <1>3 DEF Ops
<1>. QED BY <1>2, <1>4 DEF NewLines

\* What an install does to the table, to the control and to the result.
LEMMA InstallEffect ==
    ASSUME TypeOK, NEW content \in Seq(Lines), NEW next, NEW failed, Install(content, next, failed)
    PROVE  /\ tab' \in Seq(Lines) /\ touched' \in BOOLEAN /\ faults' \in 0..MaxFaults
           /\ tab' = tab \/ tab' = content
           /\ (tab' = content /\ touched' = FALSE) \/ (tab' = tab /\ touched' = touched)
           /\ (pc' = next /\ result' = result /\ tab' = content /\ touched' = FALSE)
              \/ (pc' = failed /\ result' = "failed")
<1>1. faults' = faults \/ Fault
  BY DEF Install
<1>2. faults' \in 0..MaxFaults
  BY <1>1, CronApplyAssumption DEF Fault, TypeOK
<1>. QED BY <1>2 DEF Install, TypeOK

\* The owner adds, removes or comments out lines: whatever is new is on record.
LEMMA OwnerEditEffect ==
    ASSUME TypeOK, NEW l \in OwnerLines, OwnerEdit(l)
    PROVE  /\ tab' \in Seq(Lines) /\ late' \subseteq Lines /\ late \subseteq late'
           /\ \A k \in DOMAIN tab' : tab'[k] \in late' \/ \E j \in DOMAIN tab : tab[j] = tab'[k]
<1>1. l \in Lines
  BY CronApplyAssumption
<1>2. CASE tab' = Append(tab, l) /\ late' = late \cup {l}
  <2>1. tab' \in Seq(Lines)
    BY <1>1, <1>2 DEF TypeOK
  <2>2. ASSUME NEW k \in DOMAIN Append(tab, l)
        PROVE  Append(tab, l)[k] = l \/ (k \in DOMAIN tab /\ Append(tab, l)[k] = tab[k])
    <3>1. tab \in Seq(Lines) /\ Len(tab) \in Nat /\ k \in 1..(Len(tab) + 1)
      BY <1>1 DEF TypeOK
    <3>2. CASE k = Len(tab) + 1
      BY <1>1, <3>1, <3>2
    <3>3. CASE k \in 1..Len(tab)
      BY <1>1, <3>1, <3>3
    <3>. QED BY <3>1, <3>2, <3>3
  <2>. QED BY <1>1, <1>2, <2>1, <2>2 DEF TypeOK
<1>3. CASE tab' = Picked(tab, {k \in DOMAIN tab : tab[k] # l}) /\ late' = late \cup {l}
  <2>. DEFINE ks == {k \in DOMAIN tab : tab[k] # l}
  <2>1. ks \in SUBSET DOMAIN tab /\ tab \in Seq(Lines)
    BY DEF TypeOK
  <2>. HIDE DEF ks
  <2>2. Picked(tab, ks) \in Seq(Lines)
    BY <2>1, PickedIsSub
  <2>3. PICK at \in [DOMAIN Picked(tab, ks) -> ks] :
           \A k \in DOMAIN Picked(tab, ks) : Picked(tab, ks)[k] = tab[at[k]]
    BY <2>1, PickedIsSub
  <2>4. \A k \in DOMAIN Picked(tab, ks) : \E j \in DOMAIN tab : tab[j] = Picked(tab, ks)[k]
    BY <2>1, <2>3
  <2>5. tab' = Picked(tab, ks)
    BY <1>3 DEF ks
  <2>. QED BY <1>1, <1>3, <2>2, <2>4, <2>5 DEF TypeOK
<1>4. CASE LET off == [l EXCEPT !.on = FALSE] IN
             /\ tab' = [k \in DOMAIN tab |-> IF tab[k] = l THEN off ELSE tab[k]]
             /\ late' = late \cup {l, off}
  <2>. DEFINE off == [l EXCEPT !.on = FALSE]
  <2>1. off \in Lines
    BY <1>1 DEF Lines
  <2>. HIDE DEF off
  <2>2. tab' = [k \in DOMAIN tab |-> IF tab[k] = l THEN off ELSE tab[k]] /\ late' = late \cup {l, off}
    BY <1>4 DEF off
  <2>3. tab' \in Seq(Lines)
    <3>1. tab \in Seq(Lines)
      BY DEF TypeOK
    <3>. QED BY ONLY <2>1, <2>2, <3>1
  <2>4. late \cup {l, off} \subseteq Lines /\ late \subseteq late \cup {l, off}
    BY <1>1, <2>1 DEF TypeOK
  <2>5. \A k \in DOMAIN tab' : k \in DOMAIN tab /\ (tab'[k] = off \/ tab'[k] = tab[k])
    BY <2>2
  <2>6. late' = late \cup {l, off}
    BY <2>2
  <2>. QED BY <2>3, <2>4, <2>5, <2>6
<1>. QED BY <1>2, <1>3, <1>4 DEF OwnerEdit

\* The created lines change only with the plan.
LEMMA NewLinesKept == ASSUME plan' = plan PROVE NewLines' = NewLines
  BY DEF NewLines, Creates

\* A plan is made when nothing else is going on.
LEMMA MakePlanInv == ASSUME CronInv, MakePlan PROVE CronInv'
<1>1. plan' \in Seq(Ops)
  <2>1. BuildCronPlan(source, tab) \in Seq(Ops)
    BY PlanFollowsSource DEF CronInv, TypeOK
  <2>2. <<>> \in Seq(Ops)
    OBVIOUS
  <2>. QED BY <2>1, <2>2 DEF MakePlan
<1>2. TypeOK'
  BY <1>1, CronApplyAssumption DEF MakePlan, Fault, locals, CronInv, TypeOK, Ops
<1>3. RollbackOnlyRemoves' /\ ReadingSound' /\ BackupTaken'
  BY DEF MakePlan, locals, CronInv, RollbackOnlyRemoves, ReadingSound, BackupTaken
<1>4. Appended'
  BY DEF MakePlan, locals, CronInv, Appended
<1>5. Planned'
  BY DEF MakePlan, locals, Planned
<1>. QED BY <1>2, <1>3, <1>4, <1>5 DEF CronInv

\* The table is read: from here on the owner's edits are on record.
LEMMA ReadCrontabInv == ASSUME CronInv, ReadCrontab PROVE CronInv'
<1>1. TypeOK'
  BY CronApplyAssumption DEF ReadCrontab, Fault, files, CronInv, TypeOK
<1>2. RollbackOnlyRemoves' /\ BackupTaken'
  BY DEF ReadCrontab, files, CronInv, RollbackOnlyRemoves, BackupTaken
<1>3. ReadingSound'
  <2>1. \A k \in DOMAIN tab : Contains(tab, tab[k])
    BY DEF CronInv, TypeOK, Contains
  <2>. QED BY <2>1 DEF ReadCrontab, files, CronInv, ReadingSound, Contains
<1>4. Appended' /\ Planned'
  BY DEF ReadCrontab, files, CronInv, ReadingSound, Appended, Planned
<1>. QED BY <1>1, <1>2, <1>3, <1>4 DEF CronInv

\* The backup is what was read, or is torn.
LEMMA WriteBackupInv == ASSUME CronInv, WriteBackup PROVE CronInv'
<1>1. TypeOK'
  BY CronApplyAssumption DEF WriteBackup, Fault, CronInv, TypeOK
<1>2. RollbackOnlyRemoves'
  <2>1. IsPrefix(tab, tab)
    BY PrefixKept DEF CronInv, TypeOK
  <2>. QED BY <2>1 DEF WriteBackup, CronInv, RollbackOnlyRemoves, ReadingSound
<1>3. ReadingSound' /\ BackupTaken'
  BY DEF WriteBackup, CronInv, ReadingSound, BackupTaken, Contains
<1>4. Appended' /\ Planned'
  BY DEF WriteBackup, CronInv, Appended, Planned
<1>. QED BY <1>1, <1>2, <1>3, <1>4 DEF CronInv

\* The install writes the backup with the created lines after it, or nothing.
LEMMA InstallMergedInv == ASSUME CronInv, InstallMerged PROVE CronInv'
<1>1. current \in Seq(Lines) /\ NewLines \in Seq(Lines) /\ Merged \in Seq(Lines)
  BY NewLinesType DEF CronInv, TypeOK, Ops, Merged
<1>2. NewLines' = NewLines
  BY NewLinesKept DEF InstallMerged, files
<1>3. /\ tab' \in Seq(Lines) /\ touched' \in BOOLEAN /\ faults' \in 0..MaxFaults
      /\ tab' = tab \/ tab' = Merged
      /\ (tab' = Merged /\ touched' = FALSE) \/ (tab' = tab /\ touched' = touched)
      /\ (pc' = "verify" /\ result' = result /\ tab' = Merged /\ touched' = FALSE)
         \/ (pc' = "report" /\ result' = "failed")
  BY <1>1, InstallEffect DEF InstallMerged, CronInv
<1>4. TypeOK'
  BY <1>3 DEF InstallMerged, files, CronInv, TypeOK
<1>5. RollbackOnlyRemoves'
  <2>1. IsPrefix(current, Merged)
    BY <1>1, PrefixKept DEF Merged
  <2>. QED BY <1>3, <2>1 DEF InstallMerged, files, CronInv, RollbackOnlyRemoves, BackupTaken
<1>6. ReadingSound' /\ BackupTaken' /\ Planned'
  BY <1>3 DEF InstallMerged, files, CronInv, ReadingSound, BackupTaken, Planned
<1>7. Appended'
  BY <1>2, <1>3 DEF InstallMerged, files, CronInv, Appended, Merged
<1>. QED BY <1>4, <1>5, <1>6, <1>7 DEF CronInv

\* The rest of an apply reads the table again and writes the report.
LEMMA ReportInv == ASSUME CronInv, VerifyAfter \/ finishCronReport PROVE CronInv'
<1>1. NewLines' = NewLines
  BY NewLinesKept DEF VerifyAfter, finishCronReport, files
<1>2. CASE VerifyAfter
  <2>1. TypeOK'
    BY <1>2, CronApplyAssumption DEF VerifyAfter, files, Fault, CronInv, TypeOK
  <2>2. RollbackOnlyRemoves' /\ ReadingSound' /\ BackupTaken' /\ Planned'
    BY <1>2 DEF VerifyAfter, files, CronInv, RollbackOnlyRemoves, ReadingSound, BackupTaken, Planned
  <2>3. Appended'
    BY <1>1, <1>2 DEF VerifyAfter, files, CronInv, Appended
  <2>. QED BY <2>1, <2>2, <2>3 DEF CronInv
<1>3. CASE finishCronReport
  <2>1. TypeOK'
    <3>1. <<>> \in Seq(Lines)
      OBVIOUS
    <3>. QED BY <1>3, <3>1, CronApplyAssumption DEF finishCronReport, Fault, CronInv, TypeOK
  <2>2. RollbackOnlyRemoves' /\ ReadingSound' /\ BackupTaken' /\ Planned' /\ Appended'
    BY <1>3 DEF finishCronReport, CronInv, RollbackOnlyRemoves, ReadingSound, BackupTaken, Planned, Appended
  <2>. QED BY <2>1, <2>2 DEF CronInv
<1>. QED BY <1>2, <1>3

\* A rollback puts the backup in the place of the table.
LEMMA RollbackInv ==
    ASSUME CronInv, StartRollback \/ RestoreBackup \/ VerifyRestore \/ EndRollback
    PROVE  CronInv'
<1>1. CASE StartRollback
  <2>1. TypeOK'
    BY <1>1, CronApplyAssumption DEF StartRollback, files, CronInv, TypeOK
  <2>2. RollbackOnlyRemoves' /\ ReadingSound' /\ BackupTaken' /\ Planned' /\ Appended'
    BY <1>1 DEF StartRollback, files, CronInv, RollbackOnlyRemoves, ReadingSound, BackupTaken, Planned, Appended
  <2>. QED BY <2>1, <2>2 DEF CronInv
<1>2. CASE RestoreBackup
  <2>1. backup \in Seq(Lines)
    BY <1>2 DEF RestoreBackup, CronInv, TypeOK, BackupTaken
  <2>2. /\ tab' \in Seq(Lines) /\ touched' \in BOOLEAN /\ faults' \in 0..MaxFaults
        /\ tab' = tab \/ tab' = backup
        /\ (tab' = backup /\ touched' = FALSE) \/ (tab' = tab /\ touched' = touched)
        /\ (pc' = "rverify" /\ result' = result /\ tab' = backup /\ touched' = FALSE)
           \/ (pc' = "rreport" /\ result' = "failed")
    BY <1>2, <2>1, InstallEffect DEF RestoreBackup, CronInv
  <2>3. TypeOK'
    BY <1>2, <2>2 DEF RestoreBackup, files, CronInv, TypeOK
  <2>4. RollbackOnlyRemoves'
    <3>1. IsPrefix(backup, backup)
      BY <2>1, PrefixKept
    <3>. QED BY <1>2, <2>2, <3>1 DEF RestoreBackup, files, CronInv, RollbackOnlyRemoves
  <2>5. ReadingSound' /\ BackupTaken' /\ Planned' /\ Appended'
    BY <1>2, <2>2 DEF RestoreBackup, files, CronInv, ReadingSound, BackupTaken, Planned, Appended
  <2>. QED BY <2>3, <2>4, <2>5 DEF CronInv
<1>3. CASE VerifyRestore
  <2>1. TypeOK'
    BY <1>3, CronApplyAssumption DEF VerifyRestore, Fault, files, CronInv, TypeOK
  <2>2. RollbackOnlyRemoves' /\ ReadingSound' /\ BackupTaken' /\ Planned' /\ Appended'
    BY <1>3 DEF VerifyRestore, files, CronInv, RollbackOnlyRemoves, ReadingSound, BackupTaken, Planned, Appended
  <2>. QED BY <2>1, <2>2 DEF CronInv
<1>4. CASE EndRollback
  <2>1. TypeOK'
    BY <1>4 DEF EndRollback, files, bounds, CronInv, TypeOK
  <2>2. RollbackOnlyRemoves' /\ ReadingSound' /\ BackupTaken' /\ Planned' /\ Appended'
    BY <1>4 DEF EndRollback, files, bounds, CronInv, RollbackOnlyRemoves, ReadingSound, BackupTaken, Planned, Appended
  <2>. QED BY <2>1, <2>2 DEF CronInv
<1>. QED BY <1>1, <1>2, <1>3, <1>4

\* A process that dies leaves its files, and the owner edits at any moment.
LEMMA OthersInv ==
    ASSUME CronInv, Crash \/ \E l \in OwnerLines : OwnerEdit(l)
    PROVE  CronInv'
<1>1. CASE Crash
  <2>1. TypeOK'
    <3>1. <<>> \in Seq(Lines)
      OBVIOUS
    <3>. QED BY <1>1, <3>1, CronApplyAssumption DEF Crash, Fault, CronInv, TypeOK
  <2>2. RollbackOnlyRemoves' /\ ReadingSound' /\ BackupTaken' /\ Planned' /\ Appended'
    BY <1>1 DEF Crash, CronInv, RollbackOnlyRemoves, ReadingSound, BackupTaken, Planned, Appended
  <2>. QED BY <2>1, <2>2 DEF CronInv
<1>2. ASSUME NEW l \in OwnerLines, OwnerEdit(l) PROVE CronInv'
  <2>1. /\ tab' \in Seq(Lines) /\ late' \subseteq Lines /\ late \subseteq late'
        /\ \A k \in DOMAIN tab' : tab'[k] \in late' \/ \E j \in DOMAIN tab : tab[j] = tab'[k]
    BY <1>2, OwnerEditEffect DEF CronInv
  <2>2. /\ touched' /\ UNCHANGED <<source, plan, backup, report, pc, current, result, seen, runs, faults>>
        /\ edits' \in 0..MaxEdits /\ touched' \in BOOLEAN
    BY <1>2, CronApplyAssumption DEF OwnerEdit, files, locals, CronInv, TypeOK
  <2>3. TypeOK'
    BY <2>1, <2>2 DEF CronInv, TypeOK
  <2>4. RollbackOnlyRemoves' /\ BackupTaken' /\ Planned' /\ Appended'
    BY <2>2 DEF CronInv, RollbackOnlyRemoves, BackupTaken, Planned, Appended
  <2>5. ReadingSound'
    BY <2>1, <2>2 DEF CronInv, ReadingSound, Contains
  <2>. QED BY <2>3, <2>4, <2>5 DEF CronInv
<1>. QED BY <1>1, <1>2

\* Nothing has been read or written at the beginning.
LEMMA CronInitInv == ASSUME Init PROVE CronInv
<1>1. tab \in Seq(Lines) /\ source \in Seq(Lines)
  BY CronApplyAssumption DEF Init
<1>2. <<>> \in Seq(Lines) /\ <<>> \in Seq([action : {"create", "skip", "manual"}, line : Lines])
  OBVIOUS
<1>3. 0 \in 0..MaxEdits /\ 0 \in 0..MaxRuns /\ 0 \in 0..MaxFaults
  BY CronApplyAssumption
<1>4. TypeOK
  BY <1>1, <1>2, <1>3 DEF Init, TypeOK
<1>. QED BY <1>4 DEF Init, CronInv, RollbackOnlyRemoves, ReadingSound, BackupTaken, Appended, Planned

\* Every step keeps the invariant.
LEMMA CronNextInv == ASSUME CronInv, [Next]_vars PROVE CronInv'
<1>1. CASE Next
  BY <1>1, MakePlanInv, ReadCrontabInv, WriteBackupInv, InstallMergedInv, ReportInv, RollbackInv, OthersInv
     DEF Next
<1>2. CASE UNCHANGED vars
  <2>. UNCHANGED <<tab, source, plan, backup, report, pc, current, result, late, touched, seen, edits, runs, faults>>
    BY <1>2 DEF vars, files, locals, bounds
  <2>1. NewLines' = NewLines
    BY NewLinesKept
  <2>2. TypeOK' /\ RollbackOnlyRemoves' /\ ReadingSound' /\ BackupTaken' /\ Appended' /\ Planned'
    BY <2>1 DEF CronInv, TypeOK, RollbackOnlyRemoves, ReadingSound, BackupTaken, Appended, Planned
  <2>. QED BY <2>2 DEF CronInv
<1>. QED BY <1>1, <1>2

-----------------------------------------------------------------------------
(* What a plan from two readable crontabs is good for                      *)

\* Each first line of the source has an op, and a text that has the lines of
\* all ops has it, with the home directory of either account.
LEMMA CleanPlan == CronInv => CleanMeansMigrated
<1>. SUFFICES ASSUME CronInv, seen # Missing, Clean(plan, tab), NEW i \in Firsts(source)
              PROVE  HasText(tab, source[i]) \/ HasText(tab, adaptCronPath(source[i]))
  BY DEF CleanMeansMigrated
<1>1. source \in Seq(Lines) /\ plan = BuildCronPlan(source, seen)
  BY DEF CronInv, TypeOK, Planned
<1>2. PICK at \in [DOMAIN plan -> Firsts(source)] :
         /\ \A k \in DOMAIN plan : plan[k] = PlanOp(source[at[k]], seen)
         /\ \A j \in Firsts(source) : \E k \in DOMAIN plan : at[k] = j
  BY <1>1, PlanFollowsSource
<1>3. PICK k \in DOMAIN plan : at[k] = i
  BY <1>2
<1>4. source[i] \in Lines
  BY <1>1, FirstsAreOrdered
<1>5. plan[k].line \in {source[i], adaptCronPath(source[i])}
  BY <1>2, <1>3, <1>4, PlanOpType
<1>6. HasText(tab, plan[k].line)
  BY DEF Clean
<1>. QED BY <1>5, <1>6

\* The created lines are the lines of the creates of the plan, in its order.
LEMMA NewLinesFollowPlan ==
    ASSUME plan \in Seq(Ops)
    PROVE  \E at \in [DOMAIN NewLines -> {k \in DOMAIN plan : plan[k].action = "create"}] :
              /\ \A k \in DOMAIN NewLines : NewLines[k] = plan[at[k]].line
              /\ \A i \in DOMAIN plan : plan[i].action = "create" => \E k \in DOMAIN NewLines : at[k] = i
              /\ \A j, k \in DOMAIN NewLines : at[j] < at[k] => j < k
<1>. DEFINE ks == {k \in DOMAIN plan : plan[k].action = "create"}
<1>1. Creates = Picked(plan, ks)
  BY DEF Creates
<1>2. ks \in SUBSET DOMAIN plan /\ \A i \in DOMAIN plan : plan[i].action = "create" => i \in ks
  OBVIOUS
<1>3. DOMAIN NewLines = DOMAIN Creates /\ \A k \in DOMAIN Creates : NewLines[k] = Creates[k].line
  BY DEF NewLines
<1>. HIDE DEF ks
<1>4. PICK at \in [DOMAIN Creates -> ks] :
         /\ \A k \in DOMAIN Creates : Creates[k] = plan[at[k]]
         /\ \A i \in ks : \E k \in DOMAIN Creates : at[k] = i
         /\ \A j, k \in DOMAIN Creates : at[j] < at[k] => j < k
  <2>1. \E at \in [DOMAIN Picked(plan, ks) -> ks] :
           /\ \A k \in DOMAIN Picked(plan, ks) : Picked(plan, ks)[k] = plan[at[k]]
           /\ \A i \in ks : \E k \in DOMAIN Picked(plan, ks) : at[k] = i
           /\ \A j, k \in DOMAIN Picked(plan, ks) : at[j] < at[k] => j < k
    BY ONLY <1>2, plan \in Seq(Ops), PickedIsSub
  <2>. QED BY ONLY <1>1, <2>1
<1>5. at \in [DOMAIN NewLines -> ks]
  BY <1>3, <1>4
<1>6. /\ \A k \in DOMAIN NewLines : NewLines[k] = plan[at[k]].line
      /\ \A i \in DOMAIN plan : plan[i].action = "create" => \E k \in DOMAIN NewLines : at[k] = i
      /\ \A j, k \in DOMAIN NewLines : at[j] < at[k] => j < k
  BY <1>2, <1>3, <1>4
<1>. QED BY <1>5, <1>6 DEF ks

\* A finite set of places has a last one.
LEMMA LastPlace ==
    ASSUME NEW ks \in SUBSET Nat, IsFiniteSet(ks), ks # {}
    PROVE  \E m \in ks : \A k \in ks : k <= m
<1>. DEFINE R == {p \in ks \X ks : p[1] < p[2]}
            at == Arranged(ks, R)
            n == Cardinality(ks)
<1>1. \A x, y \in ks : <<x, y>> \in R <=> x < y
  OBVIOUS
<1>. HIDE DEF R
<1>2. /\ \A x \in ks : <<x, x>> \notin R
      /\ \A x, y, z \in ks : <<x, y>> \in R /\ <<y, z>> \in R => <<x, z>> \in R
      /\ \A x, y \in ks : x = y \/ <<x, y>> \in R \/ <<y, x>> \in R
  BY <1>1
<1>3. /\ n \in Nat
      /\ at \in [1..n -> ks]
      /\ \A x \in ks : \E k \in 1..n : at[k] = x
      /\ \A i, j \in 1..n : <<at[i], at[j]>> \in R => i < j
  BY <1>2, ArrangedIsOrdered
<1>. HIDE DEF at
<1>4. n \in 1..n
  <2>1. \E k \in 1..n : TRUE
    BY <1>3
  <2>. QED BY <1>3, <2>1
<1>5. ASSUME NEW k \in ks PROVE k <= at[n]
  <2>1. PICK i \in 1..n : at[i] = k
    BY <1>3
  <2>2. at[n] \in ks /\ at[i] \in ks
    BY <1>3, <1>4
  <2>3. ~ (n < i)
    BY <1>3
  <2>4. ~ (at[n] < at[i])
    BY <1>1, <1>3, <1>4, <2>2, <2>3
  <2>5. at[n] \in Nat /\ k \in Nat /\ ~ (at[n] < k)
    BY <2>1, <2>2, <2>4
  <2>. QED BY <2>5
<1>. QED BY <1>3, <1>4, <1>5

\* A variable that the source defines has one op, for the only line that
\* defines it, and no other op is about that variable.
LEMMA OneOpPerVariable ==
    ASSUME CronInv, NEW at \in [DOMAIN plan -> Firsts(source)],
           \A k \in DOMAIN plan : plan[k] = PlanOp(source[at[k]], seen),
           NEW o \in DOMAIN plan, NEW q \in DOMAIN plan,
           plan[o].line.kind = "env", plan[q].line.kind = "env",
           plan[q].line.name = plan[o].line.name
    PROVE  plan[q] = plan[o]
<1>1. source \in Seq(Lines)
  BY DEF CronInv, TypeOK
<1>2. \A k \in DOMAIN plan : source[at[k]] \in Lines
  BY <1>1, FirstsAreOrdered
<1>3. ASSUME NEW k \in {o, q} PROVE source[at[k]].kind = "env" /\ plan[k].line = source[at[k]]
  BY <1>2, PlanOpType
<1>4. Key(source[at[q]]) = Key(source[at[o]])
  BY <1>3 DEF Key
<1>5. at[q] = at[o]
  BY <1>1, <1>4, FirstsAreOrdered
<1>. QED BY <1>5

\* A variable is in effect for a line that stands after a line defining it,
\* if all later ones before that line say the same.
LEMMA InEffectIs ==
    ASSUME NEW t \in Seq(Lines), NEW k \in DOMAIN t, NEW name,
           NEW j \in 1..(k - 1), t[j].kind = "env", t[j].name = name,
           \A i \in 1..(k - 1) : t[i].kind = "env" /\ t[i].name = name /\ j <= i => t[i].rest = t[j].rest
    PROVE  InEffect(t, k, name) = t[j].rest
<1>. DEFINE at == {i \in 1..(k - 1) : t[i].kind = "env" /\ t[i].name = name}
            last == CHOOSE i \in at : \A h \in at : h <= i
<1>1. k - 1 \in Int /\ IsFiniteSet(1..(k - 1))
  <2>1. 1 \in Int /\ k - 1 \in Int
    OBVIOUS
  <2>. QED BY <2>1, FS_Interval
<1>2. j \in at /\ at \in SUBSET (1..(k - 1)) /\ at \in SUBSET Nat
  OBVIOUS
<1>3. InEffect(t, k, name) = IF at = {} THEN Missing ELSE t[last].rest
  BY DEF InEffect
<1>4. \A i \in at : j <= i => t[i].rest = t[j].rest
  OBVIOUS
<1>. HIDE DEF at
<1>5. IsFiniteSet(at)
  BY <1>1, <1>2, FS_Subset
<1>6. \E i \in at : \A h \in at : h <= i
  BY <1>2, <1>5, LastPlace
<1>7. last \in at /\ \A h \in at : h <= last
  BY <1>6
<1>. HIDE DEF last
<1>. QED BY <1>2, <1>3, <1>4, <1>7

\* The place of the last definition of a variable in a readable crontab.
LEMMA MatchIsLast ==
    ASSUME NEW t \in Seq(Lines), NEW l \in Lines, l.kind = "env", Matches(t, l) # {}
    PROVE  \E m \in DOMAIN t :
              /\ t[m] = Match(t, l) /\ t[m].kind = "env" /\ t[m].name = l.name
              /\ \A k \in DOMAIN t : t[k].kind = "env" /\ t[k].name = l.name => k <= m
<1>. DEFINE ks == Matches(t, l)
            m == CHOOSE k \in ks : \A j \in ks : IF l.kind = "job" THEN k <= j ELSE k >= j
<1>1. \A k \in DOMAIN t : t[k] \in Lines
  OBVIOUS
<1>2. \A k \in DOMAIN t : k \in ks <=> t[k].kind = "env" /\ t[k].name = l.name
  BY <1>1 DEF Matches, Key, Lines
<1>3. ks \in SUBSET DOMAIN t /\ ks \in SUBSET Nat /\ IsFiniteSet(ks)
  <2>1. ks \in SUBSET DOMAIN t
    BY DEF Matches
  <2>2. DOMAIN t = 1..Len(t) /\ Len(t) \in Nat
    OBVIOUS
  <2>3. 1 \in Int /\ Len(t) \in Int
    BY <2>2
  <2>4. IsFiniteSet(1..Len(t))
    BY <2>3, FS_Interval
  <2>. QED BY <2>1, <2>2, <2>4, FS_Subset
<1>4. \E i \in ks : \A j \in ks : j <= i
  BY <1>3, LastPlace
<1>5. \E k \in ks : \A j \in ks : IF l.kind = "job" THEN k <= j ELSE k >= j
  BY <1>3, <1>4
<1>6. m \in ks /\ \A j \in ks : j <= m
  <2>1. m \in ks /\ \A j \in ks : IF l.kind = "job" THEN m <= j ELSE m >= j
    BY <1>5
  <2>. QED BY <1>3, <2>1
<1>7. Match(t, l) = t[m]
  BY DEF Match
<1>. HIDE DEF m, ks
<1>. QED BY <1>2, <1>3, <1>6, <1>7

\* A job that was just created finds the variables of the source: those that
\* the destination had stay the last of their name, and those that were created
\* with it stand before it.
LEMMA VariablesCarried == CronInv => EnvironmentCarriedOver
<1>0. SUFFICES ASSUME CronInv, pc = "report", result = "applied", current = seen, ~touched,
                     NEW k \in DOMAIN tab, k > Len(current), tab[k].kind = "job",
                     NEW l \in Range(source), Defines(l),
                     NEW o \in DOMAIN plan, plan[o].line = l, plan[o].action # "manual"
              PROVE  InEffect(tab, k, l.name) = l.rest
  BY DEF EnvironmentCarriedOver
<1>1. source \in Seq(Lines) /\ plan = BuildCronPlan(source, seen)
  <2>1. plan # <<>>
    BY <1>0
  <2>. QED BY <1>0, <2>1 DEF CronInv, TypeOK, Planned
<1>2. /\ current \in Seq(Lines) /\ tab \in Seq(Lines) /\ plan \in Seq(Ops) /\ NewLines \in Seq(Lines)
      /\ tab = current \o NewLines
  BY <1>0, NewLinesType DEF CronInv, TypeOK, Ops, Appended
<1>3. l.kind = "env" /\ l \in Lines
  BY <1>0, <1>1 DEF Defines, Range
<1>. DEFINE n == Len(current)
            isVar(x) == x.kind = "env" /\ x.name = l.name
<1>4. /\ n \in Nat /\ DOMAIN current = 1..n
      /\ \A i \in 1..n : i \in DOMAIN tab /\ tab[i] = current[i]
      /\ \A i \in DOMAIN NewLines : n + i \in DOMAIN tab /\ tab[n + i] = NewLines[i]
      /\ \A i \in DOMAIN tab : i > n => i - n \in DOMAIN NewLines /\ tab[i] = NewLines[i - n]
  BY ONLY <1>2, AppendedPlaces
<1>5. PICK at \in [DOMAIN plan -> Firsts(source)] :
         /\ \A i \in DOMAIN plan : plan[i] = PlanOp(source[at[i]], seen)
         /\ \A j \in Firsts(source) : \E i \in DOMAIN plan : at[i] = j
         /\ \A i, j \in DOMAIN plan : Before(source[at[i]], source[at[j]]) => i < j
  <2>1. \E at \in [DOMAIN BuildCronPlan(source, seen) -> Firsts(source)] :
           /\ \A i \in DOMAIN BuildCronPlan(source, seen) :
                BuildCronPlan(source, seen)[i] = PlanOp(source[at[i]], seen)
           /\ \A j \in Firsts(source) : \E i \in DOMAIN BuildCronPlan(source, seen) : at[i] = j
           /\ \A i, j \in DOMAIN BuildCronPlan(source, seen) :
                Before(source[at[i]], source[at[j]]) => i < j
    BY ONLY <1>1, PlanFollowsSource
  <2>. QED BY ONLY <1>1, <2>1
<1>6. PICK of \in [DOMAIN NewLines -> {i \in DOMAIN plan : plan[i].action = "create"}] :
         /\ \A i \in DOMAIN NewLines : NewLines[i] = plan[of[i]].line
         /\ \A i \in DOMAIN plan : plan[i].action = "create" => \E j \in DOMAIN NewLines : of[j] = i
         /\ \A i, j \in DOMAIN NewLines : of[i] < of[j] => i < j
  BY <1>2, NewLinesFollowPlan
<1>7. \A q \in DOMAIN plan : isVar(plan[q].line) => plan[q] = plan[o]
  BY <1>0, <1>3, <1>5, OneOpPerVariable
<1>8. source[at[o]] = l
  <2>1. source[at[o]] \in Lines
    BY <1>0, <1>1, <1>5, FirstsAreOrdered
  <2>. QED BY <1>0, <1>3, <1>5, <2>1, PlanOpType
<1>9. plan[o] = PlanOp(l, seen) /\ plan[o].action \in {"create", "skip"}
  <2>1. plan[o] \in Ops
    BY <1>0, <1>2
  <2>. QED BY <1>0, <1>5, <1>8, <2>1 DEF Ops
<1>10. ASSUME NEW i \in DOMAIN tab, i > n, isVar(tab[i])
       PROVE  tab[i] = l /\ plan[o].action = "create"
  <2>1. i - n \in DOMAIN NewLines /\ tab[i] = NewLines[i - n]
    BY <1>0, <1>4, <1>10
  <2>2. tab[i] = plan[of[i - n]].line /\ of[i - n] \in DOMAIN plan /\ plan[of[i - n]].action = "create"
    BY <1>0, <1>6, <2>1
  <2>3. plan[of[i - n]] = plan[o]
    BY <1>0, <1>7, <1>10, <2>2
  <2>. QED BY <1>0, <2>2, <2>3
<1>11. k \in Nat /\ n < k /\ \A i \in 1..(k - 1) : i \in DOMAIN tab
  BY <1>0, <1>2, <1>4
<1>12. CASE plan[o].action = "skip"
  <2>1. Matches(seen, l) # {} /\ Match(seen, l) = l
    BY <1>0, <1>3, <1>9, <1>12 DEF PlanOp
  <2>2. PICK m \in DOMAIN current :
           /\ current[m] = l
           /\ \A i \in DOMAIN current : isVar(current[i]) => i <= m
    <3>1. Matches(current, l) # {} /\ Match(current, l) = l
      BY <1>0, <2>1
    <3>2. PICK m \in DOMAIN current :
             /\ current[m] = Match(current, l) /\ current[m].kind = "env" /\ current[m].name = l.name
             /\ \A i \in DOMAIN current : current[i].kind = "env" /\ current[i].name = l.name => i <= m
      BY <1>2, <1>3, <3>1, MatchIsLast
    <3>. QED BY <1>0, <3>1, <3>2
  <2>3. m \in 1..(k - 1) /\ tab[m] = l
    BY <1>0, <1>4, <1>11, <2>2
  <2>4. ASSUME NEW i \in 1..(k - 1), isVar(tab[i]), m <= i PROVE tab[i].rest = l.rest
    <3>1. CASE i <= n
      <4>1. i \in DOMAIN current /\ tab[i] = current[i]
        BY <1>0, <1>4, <3>1
      <4>2. i = m
        BY <1>0, <1>4, <2>2, <2>4, <4>1
      <4>. QED BY <1>0, <2>2, <4>1, <4>2
    <3>2. CASE i > n
      BY <1>0, <1>10, <1>11, <1>12, <2>4, <3>2
    <3>. QED BY <1>0, <1>4, <3>1, <3>2
  <2>5. \A i \in 1..(k - 1) : isVar(tab[i]) /\ m <= i => tab[i].rest = l.rest
    BY <1>0, <2>4
  <2>6. tab[m].kind = "env" /\ tab[m].name = l.name
    BY <1>0, <1>3, <2>3
  <2>7. InEffect(tab, k, l.name) = tab[m].rest
    <3>1. tab \in Seq(Lines) /\ k \in DOMAIN tab /\ m \in 1..(k - 1)
      BY <1>0, <1>2, <2>3
    <3>2. \A i \in 1..(k - 1) : isVar(tab[i]) /\ m <= i => tab[i].rest = tab[m].rest
      BY <1>0, <2>3, <2>5
    <3>. QED BY ONLY <2>6, <3>1, <3>2, InEffectIs
  <2>. QED BY <1>0, <2>3, <2>7
<1>13. CASE plan[o].action = "create"
  <2>1. Matches(seen, l) = {}
    BY <1>0, <1>3, <1>9, <1>13 DEF PlanOp
  <2>2. PICK p \in DOMAIN NewLines : of[p] = o
    BY <1>0, <1>6, <1>13
  <2>3. tab[n + p] = l /\ n + p \in DOMAIN tab
    BY <1>0, <1>4, <1>6, <2>2
  <2>4. p < k - n
    <3>1. k - n \in DOMAIN NewLines /\ tab[k] = NewLines[k - n]
      BY <1>0, <1>4
    <3>. DEFINE q == of[k - n]
    <3>2. q \in DOMAIN plan /\ plan[q].line.kind = "job" /\ plan[q] = PlanOp(source[at[q]], seen)
      BY <1>0, <1>5, <1>6, <3>1
    <3>. HIDE DEF q
    <3>3. source[at[q]] \in Lines
      BY <1>0, <1>1, <1>5, <3>2, FirstsAreOrdered
    <3>4. source[at[q]].kind = "job"
      BY <1>0, <3>2, <3>3, PlanOpType
    <3>5. Before(source[at[o]], source[at[q]])
      BY <1>0, <1>3, <1>8, <3>4 DEF Before
    <3>6. o < q
      BY <1>0, <1>5, <3>2, <3>5
    <3>. QED BY <1>0, <1>6, <2>2, <3>1, <3>6 DEF q
  <2>5. n + p \in 1..(k - 1)
    BY <1>0, <1>2, <1>4, <1>11, <2>2, <2>4
  <2>6. ASSUME NEW i \in 1..(k - 1), isVar(tab[i]) PROVE tab[i].rest = l.rest
    <3>1. CASE i <= n
      <4>1. i \in DOMAIN current /\ tab[i] = current[i] /\ current[i] \in Lines
        BY <1>0, <1>2, <1>4, <3>1
      <4>2. i \in Matches(seen, l)
        BY <1>0, <1>3, <2>6, <4>1 DEF Matches, Key
      <4>. QED BY <1>0, <2>1, <4>2
    <3>2. CASE i > n
      BY <1>0, <1>10, <1>11, <2>6, <3>2
    <3>. QED BY <1>0, <1>4, <3>1, <3>2
  <2>7. \A i \in 1..(k - 1) : isVar(tab[i]) /\ n + p <= i => tab[i].rest = l.rest
    BY <1>0, <2>6
  <2>8. tab[n + p].kind = "env" /\ tab[n + p].name = l.name
    BY <1>0, <1>3, <2>3
  <2>9. InEffect(tab, k, l.name) = tab[n + p].rest
    <3>1. tab \in Seq(Lines) /\ k \in DOMAIN tab /\ n + p \in 1..(k - 1)
      BY <1>0, <1>2, <2>3, <2>5
    <3>2. \A i \in 1..(k - 1) : isVar(tab[i]) /\ n + p <= i => tab[i].rest = tab[n + p].rest
      BY <1>0, <2>3, <2>7
    <3>. QED BY ONLY <2>8, <3>1, <3>2, InEffectIs
  <2>. QED BY <1>0, <2>3, <2>9
<1>. QED BY <1>0, <1>9, <1>12, <1>13

-----------------------------------------------------------------------------
(* Theorems                                                                *)

\* Created jobs keep their variables, a rollback takes off only what the tool
\* appended unless somebody edited the table since, and a clean verification
\* means that the source's lines are there (runCronApplyWrites,
\* runCronRollback, verifyCronPlan).
THEOREM CrontabIsSound == Spec => []CrontabSound
<1>1. Init => CronInv
  BY CronInitInv
<1>2. CronInv /\ [Next]_vars => CronInv'
  BY CronNextInv
<1>3. CronInv => CrontabSound
  BY VariablesCarried, CleanPlan DEF CronInv, CrontabSound
<1>. QED BY <1>1, <1>2, <1>3, PTL DEF Spec

\* No line of the owner is lost by an install, but those touched between the
\* run's reading of the table and its writing (runCronApplyWrites).
THEOREM OwnersLines == Spec => OwnerLinesKept
<1>1. Init => CronInv
  BY CronInitInv
<1>2. CronInv /\ [Next]_vars => CronInv'
  BY CronNextInv
<1>3. ASSUME CronInv, [Next]_vars, pc = "install", edits' = edits, NEW k \in DOMAIN tab
      PROVE  tab[k] \in late \/ Contains(tab', tab[k])
  <2>1. tab \in Seq(Lines) /\ current \in Seq(Lines) /\ NewLines \in Seq(Lines) /\ edits \in Nat
    BY <1>3, NewLinesType DEF CronInv, TypeOK, Ops
  <2>2. tab' = tab \/ tab' = current \o NewLines
    <3>1. CASE InstallMerged
      BY <3>1 DEF InstallMerged, Install, Merged
    <3>2. CASE Crash \/ UNCHANGED vars
      BY <3>2 DEF Crash, vars
    <3>3. ASSUME NEW l \in OwnerLines, OwnerEdit(l) PROVE FALSE
      BY <1>3, <2>1, <3>3 DEF OwnerEdit
    <3>4. CASE MakePlan \/ ReadCrontab \/ WriteBackup \/ VerifyAfter \/ finishCronReport
      BY <3>4 DEF MakePlan, ReadCrontab, WriteBackup, VerifyAfter, finishCronReport
    <3>5. CASE StartRollback \/ RestoreBackup \/ VerifyRestore \/ EndRollback
      BY <1>3, <3>5 DEF StartRollback, RestoreBackup, VerifyRestore, EndRollback
    <3>. QED BY <1>3, <3>1, <3>2, <3>3, <3>4, <3>5 DEF Next
  <2>3. CASE tab' = tab
    BY <2>1, <2>3 DEF Contains
  <2>4. CASE tab' = current \o NewLines
    <3>1. \A i \in 1..Len(current) : i \in DOMAIN tab' /\ tab'[i] = current[i]
      BY <2>1, <2>4, AppendedPlaces
    <3>2. tab' \in Seq(Lines)
      BY <2>1, <2>4
    <3>3. Contains(current, tab[k]) => Contains(tab', tab[k])
      BY <3>1, <3>2 DEF Contains
    <3>. QED BY <1>3, <3>3 DEF CronInv, ReadingSound
  <2>. QED BY <2>2, <2>3, <2>4
<1>4. CronInv /\ [Next]_vars =>
        [pc = "install" /\ edits' = edits => \A k \in DOMAIN tab : tab[k] \in late \/ Contains(tab', tab[k])]_vars
  BY <1>3
<1>. QED BY <1>1, <1>2, <1>4, PTL DEF Spec, OwnerLinesKept
=============================================================================
