--------------------------- MODULE SchedulerProof ---------------------------
(***************************************************************************)
(* The scheduler keeps its promises for every number of tasks and          *)
(* priorities, every width of the tick counter, every block time and every *)
(* interleaving of tasks and interrupts.                                   *)
(***************************************************************************)
EXTENDS Scheduler, FiniteSetTheorems, WellFoundedInduction, TLAPS

-----------------------------------------------------------------------------
(* Numbers. *)

\* A non-empty set of naturals has a least element. Facts that would need
\* induction are proved from it, by looking at a least counterexample.
LEMMA NatMin ==
  ASSUME NEW T \in SUBSET Nat, T # {}
  PROVE  \E x \in T : \A y \in T : x <= y
<1>1. PICK x \in T : \A y \in T : ~ (<<y, x>> \in OpToRel(<, Nat))
  BY NatLessThanWellFounded, WFMin
<1>2. ASSUME NEW y \in T PROVE x <= y
  <2>1. ~ (<<y, x>> \in OpToRel(<, Nat))
    BY <1>1
  <2>2. ~ (y < x)
    BY <2>1 DEF OpToRel
  <2> QED
    BY <2>2
<1> QED
  BY <1>2

\* A non-empty bounded set of naturals has a highest element.
LEMMA HighestIs ==
  ASSUME NEW S \in SUBSET Nat, S # {}, NEW n \in Nat, \A p \in S : p <= n
  PROVE  Highest(S) \in S /\ \A q \in S : q <= Highest(S)
<1> DEFINE T == {m \in Nat : \A p \in S : p <= m}
<1>1. PICK m \in T : \A y \in T : m <= y
  <2>1. n \in T
    OBVIOUS
  <2> HIDE DEF T
  <2>2. T \in SUBSET Nat
    BY DEF T
  <2> QED
    BY <2>1, <2>2, NatMin
<1>2. m \in S
  <2> SUFFICES ASSUME m \notin S PROVE FALSE
    OBVIOUS
  <2>1. m \in Nat /\ \A p \in S : p \in Nat /\ p < m
    BY <1>1
  <2>2. m - 1 \in Nat /\ \A p \in S : p <= m - 1
    <3>1. PICK p \in S : TRUE
      OBVIOUS
    <3> HIDE DEF T
    <3> QED
      BY <2>1, <3>1
  <2>3. m - 1 \in T
    BY <2>2
  <2> QED
    BY <1>1, <2>3
<1>3. \E p \in S : \A q \in S : q <= p
  BY <1>1, <1>2
<1> QED
  BY <1>3 DEF Highest

-----------------------------------------------------------------------------
(* Lists. *)

Distinct(s) == \A i, j \in DOMAIN s : s[i] = s[j] => i = j

DistinctOwners(s) == \A i, j \in DOMAIN s : s[i].owner = s[j].owner => i = j

Sorted(s) == \A i, j \in DOMAIN s : i <= j => s[i].value <= s[j].value

\* f is the part of s at the positions that e enumerates upwards: those of P.
Embeds(e, f, s, P) ==
  /\ \A i \in DOMAIN f : e[i] \in DOMAIN s /\ f[i] = s[e[i]]
  /\ \A i, j \in DOMAIN f : e[i] = e[j] => i = j
  /\ \A i, j \in DOMAIN f : i <= j => e[i] <= e[j]
  /\ In(f) = {s[i] : i \in P}

\* Subsequence keeps the elements at the positions it is given, in their order.
LEMMA SubsequenceIs ==
  ASSUME NEW S, NEW s \in Seq(S), NEW P \in SUBSET DOMAIN s
  PROVE  /\ Subsequence(s, P) \in Seq(S)
         /\ \E e : Embeds(e, Subsequence(s, P), s, P)
<1> DEFINE rank(i) == Cardinality({j \in P : j <= i})
           N == Cardinality(P)
           e == [n \in 1 .. N |-> CHOOSE i \in P : rank(i) = n]
           f == Subsequence(s, P)
<1>1. /\ DOMAIN s = 1 .. Len(s) /\ Len(s) \in Nat
      /\ \A i \in P : i \in Nat /\ i <= Len(s)
  OBVIOUS
<1>2. IsFiniteSet(P) /\ N \in Nat
  <2>1. IsFiniteSet(1 .. Len(s)) /\ P \in SUBSET (1 .. Len(s))
    BY <1>1, FS_Interval
  <2>2. IsFiniteSet(P)
    BY <2>1, FS_Subset
  <2> QED
    BY <2>2, FS_CardinalityType
<1>3. ASSUME NEW i \in P
      PROVE  rank(i) \in 1 .. N
  <2>1. {j \in P : j <= i} \in SUBSET P /\ i \in {j \in P : j <= i}
    BY <1>1
  <2>2. IsFiniteSet({j \in P : j <= i}) /\ rank(i) <= N
    BY <1>2, <2>1, FS_Subset
  <2>3. rank(i) \in Nat /\ rank(i) # 0
    BY <2>1, <2>2, FS_CardinalityType, FS_EmptySet
  <2> QED
    BY <1>2, <2>2, <2>3
<1>4. ASSUME NEW i \in P, NEW j \in P, i < j
      PROVE  rank(i) < rank(j)
  <2> DEFINE A == {x \in P : x <= i}
             B == {x \in P : x <= j}
  <2>1. A \in SUBSET B /\ B \in SUBSET P /\ A # B
    <3>1. j \in B /\ j \notin A
      BY <1>1, <1>4
    <3>2. \A x \in A : x \in B
      BY <1>1, <1>4
    <3> QED
      BY <3>1, <3>2
  <2>2. IsFiniteSet(B)
    BY <1>2, <2>1, FS_Subset
  <2>3. Cardinality(A) <= Cardinality(B) /\ Cardinality(A) # Cardinality(B)
    BY <2>1, <2>2, FS_Subset
  <2>4. rank(i) \in Nat /\ rank(j) \in Nat
    BY <1>2, <1>3
  <2> QED
    BY <2>3, <2>4
<1> HIDE DEF rank
<1>5. \A n \in 1 .. N : \E i \in P : rank(i) = n
  <2> DEFINE g == [i \in P |-> rank(i)]
  <2>1. g \in [P -> 1 .. N]
    BY <1>3
  <2>2. \A i, j \in P : g[i] = g[j] => i = j
    <3> SUFFICES ASSUME NEW i \in P, NEW j \in P, rank(i) = rank(j), i # j
                 PROVE  FALSE
      OBVIOUS
    <3>1. i < j \/ j < i
      BY <1>1
    <3> QED
      BY <1>2, <1>3, <1>4, <3>1
  <2>3. g \in Injection(P, 1 .. N)
    BY <2>1, <2>2 DEF Injection, IsInjective
  <2>4. IsFiniteSet(1 .. N) /\ Cardinality(1 .. N) = N
    BY <1>2, FS_Interval
  <2>5. g \in Surjection(P, 1 .. N)
    BY <2>3, <2>4, FS_Injection
  <2> QED
    BY <2>5 DEF Surjection
<1>6. \A n \in 1 .. N : e[n] \in P /\ rank(e[n]) = n
  BY <1>5
<1>7. f = [n \in 1 .. N |-> s[e[n]]]
  BY DEF Subsequence, rank
<1> HIDE DEF e, f, N
<1>8. \A n \in 1 .. N : e[n] \in DOMAIN s
  BY <1>6
<1>9. f \in Seq(S) /\ DOMAIN f = 1 .. N
  <2>1. f \in [1 .. N -> S]
    BY <1>7, <1>8
  <2> QED
    BY <1>2, <2>1
<1>10. ASSUME NEW i \in 1 .. N, NEW j \in 1 .. N, i < j
       PROVE  e[i] < e[j]
  <2>1. e[i] \in P /\ e[j] \in P /\ rank(e[i]) = i /\ rank(e[j]) = j
    BY <1>6
  <2> SUFFICES ASSUME e[j] <= e[i] PROVE FALSE
    BY <1>1, <2>1
  <2>2. e[i] # e[j]
    BY <1>10, <2>1
  <2>3. e[j] < e[i]
    BY <1>1, <2>1, <2>2
  <2>4. rank(e[j]) < rank(e[i])
    BY <1>4, <2>1, <2>3
  <2> QED
    BY <1>10, <2>1, <2>4
<1>11. ASSUME NEW p \in P PROVE \E i \in 1 .. N : e[i] = p
  <2>1. rank(p) \in 1 .. N
    BY <1>3
  <2>2. e[rank(p)] \in P /\ rank(e[rank(p)]) = rank(p)
    BY <1>6, <2>1
  <2>3. e[rank(p)] = p
    <3> SUFFICES ASSUME e[rank(p)] # p PROVE FALSE
      OBVIOUS
    <3>1. e[rank(p)] < p \/ p < e[rank(p)]
      BY <1>1, <2>2
    <3> QED
      BY <1>2, <1>4, <2>1, <2>2, <3>1
  <2> QED
    BY <2>1, <2>3
<1>12. \A i, j \in 1 .. N : (e[i] = e[j] => i = j) /\ (i <= j => e[i] <= e[j])
  <2> SUFFICES ASSUME NEW i \in 1 .. N, NEW j \in 1 .. N
               PROVE  (e[i] = e[j] => i = j) /\ (i <= j => e[i] <= e[j])
    OBVIOUS
  <2>1. e[i] \in Nat /\ e[j] \in Nat
    BY <1>1, <1>6
  <2>2. i = j \/ i < j \/ j < i
    BY <1>2
  <2> QED
    BY <1>2, <1>10, <2>1, <2>2
<1>13. In(f) = {s[i] : i \in P}
  <2>1. ASSUME NEW x \in In(f) PROVE x \in {s[i] : i \in P}
    BY <1>6, <1>7, <1>9 DEF In
  <2>2. ASSUME NEW p \in P PROVE s[p] \in In(f)
    BY <1>7, <1>9, <1>11 DEF In
  <2> QED
    BY <2>1, <2>2
<1>14. Embeds(e, f, s, P)
  BY <1>7, <1>8, <1>9, <1>12, <1>13 DEF Embeds
<1> QED
  BY <1>9, <1>14 DEF f

\* A task is taken out of a list.
LEMMA WithoutIs ==
  ASSUME NEW S, NEW s \in Seq(S), Distinct(s), NEW t
  PROVE  /\ Without(s, t) \in Seq(S)
         /\ Distinct(Without(s, t))
         /\ In(Without(s, t)) = In(s) \ {t}
<1> DEFINE P == {i \in DOMAIN s : s[i] # t}
           f == Without(s, t)
<1>1. P \in SUBSET DOMAIN s
  OBVIOUS
<1>2. f \in Seq(S) /\ \E e : Embeds(e, f, s, P)
  BY <1>1, SubsequenceIs DEF Without
<1>3. PICK e : Embeds(e, f, s, P)
  BY <1>2
<1> HIDE DEF f, P
<1>4. /\ In(f) = {s[i] : i \in P}
      /\ \A i, j \in DOMAIN f : e[i] = e[j] => i = j
      /\ \A i \in DOMAIN f : e[i] \in DOMAIN s
  BY <1>3 DEF Embeds
<1>5. Distinct(f)
  BY <1>3, <1>4 DEF Distinct, Embeds
<1>6. {s[i] : i \in P} = In(s) \ {t}
  BY DEF P, In
<1> QED
  BY <1>2, <1>4, <1>5, <1>6 DEF f

\* Lists of items.
Items(V) == Seq([owner : Tasks, value : V])

LEMMA ItemsAre ==
  ASSUME NEW V, NEW s \in Items(V)
  PROVE  /\ Owners(s) \subseteq Tasks
         /\ Owners(s) = {x.owner : x \in In(s)}
         /\ \A x \in In(s) : x.owner \in Tasks /\ x.value \in V /\ x.owner \in Owners(s)
<1>1. ASSUME NEW i \in DOMAIN s PROVE s[i].owner \in Tasks /\ s[i].value \in V
  <2> DEFINE R == [owner : Tasks, value : V]
  <2>1. s \in Seq(R)
    BY DEF Items
  <2> HIDE DEF R
  <2>2. s[i] \in R
    BY <2>1
  <2> QED
    BY <2>2 DEF R
<1>2. Owners(s) \subseteq Tasks
  BY <1>1 DEF Owners
<1>3. Owners(s) = {x.owner : x \in In(s)}
  BY DEF Owners, In
<1>4. \A x \in In(s) : x.owner \in Tasks /\ x.value \in V
  BY <1>1 DEF In
<1> QED
  BY <1>2, <1>3, <1>4

Kept(f, s, ts) == In(f) = {x \in In(s) : x.owner \notin ts}

\* Tasks are taken out of a list of items.
LEMMA DropIs ==
  ASSUME NEW V, NEW s \in Items(V), NEW ts, DistinctOwners(s), NEW f, f = Drop(s, ts)
  PROVE  /\ f \in Items(V) /\ DistinctOwners(f)
         /\ Sorted(s) => Sorted(f)
         /\ Kept(f, s, ts)
         /\ Owners(f) = Owners(s) \ ts
<1> DEFINE P == {i \in DOMAIN s : s[i].owner \notin ts}
<1>1. P \in SUBSET DOMAIN s /\ s \in Seq([owner : Tasks, value : V])
  BY DEF Items
<1>2. f \in Items(V) /\ \E e : Embeds(e, f, s, P)
  BY <1>1, SubsequenceIs DEF Drop, Items
<1>3. PICK e : Embeds(e, f, s, P)
  BY <1>2
<1> HIDE DEF P
<1>4. /\ In(f) = {s[i] : i \in P}
      /\ \A i, j \in DOMAIN f : e[i] = e[j] => i = j
      /\ \A i \in DOMAIN f : e[i] \in DOMAIN s
      /\ \A i, j \in DOMAIN f : i <= j => e[i] <= e[j]
  BY <1>3 DEF Embeds
<1>5. DistinctOwners(f)
  BY <1>3, <1>4 DEF DistinctOwners, Embeds
<1>6. Sorted(s) => Sorted(f)
  BY <1>3, <1>4 DEF Sorted, Embeds
<1>7. {s[i] : i \in P} = {x \in In(s) : x.owner \notin ts}
  BY DEF P, In
<1>8. Owners(f) = {x.owner : x \in In(f)}
  BY DEF Owners, In
<1>9. Owners(s) = {x.owner : x \in In(s)}
  BY DEF Owners, In
<1>10. Owners(f) = Owners(s) \ ts
  BY <1>4, <1>7, <1>8, <1>9
<1> QED
  BY <1>2, <1>4, <1>5, <1>6, <1>7, <1>10 DEF Kept

\* The tasks of one priority.
LEMMA OfPriorityIs ==
  ASSUME NEW ts \in Seq(Tasks), Distinct(ts), NEW prio, NEW p
  PROVE  /\ OfPriority(ts, prio, p) \in Seq(Tasks)
         /\ Distinct(OfPriority(ts, prio, p))
         /\ In(OfPriority(ts, prio, p)) = {t \in In(ts) : prio[t] = p}
<1> DEFINE P == {i \in DOMAIN ts : prio[ts[i]] = p}
           f == OfPriority(ts, prio, p)
<1>1. P \in SUBSET DOMAIN ts
  OBVIOUS
<1>2. f \in Seq(Tasks) /\ \E e : Embeds(e, f, ts, P)
  BY <1>1, SubsequenceIs DEF OfPriority
<1>3. PICK e : Embeds(e, f, ts, P)
  BY <1>2
<1> HIDE DEF f, P
<1>4. /\ In(f) = {ts[i] : i \in P}
      /\ \A i, j \in DOMAIN f : e[i] = e[j] => i = j
      /\ \A i \in DOMAIN f : e[i] \in DOMAIN ts
  BY <1>3 DEF Embeds
<1>5. Distinct(f)
  BY <1>3, <1>4 DEF Distinct, Embeds
<1>6. {ts[i] : i \in P} = {t \in In(ts) : prio[t] = p}
  BY DEF P, In
<1> QED
  BY <1>2, <1>4, <1>5, <1>6 DEF f

\* Two lists without a common element, one after the other.
LEMMA ConcatIs ==
  ASSUME NEW S, NEW s \in Seq(S), NEW u \in Seq(S), Distinct(s), Distinct(u),
         In(s) \cap In(u) = {}
  PROVE  /\ s \o u \in Seq(S)
         /\ Distinct(s \o u)
         /\ In(s \o u) = In(s) \cup In(u)
<1> DEFINE f == s \o u
           m == Len(s)
           n == Len(u)
<1>1. /\ f \in Seq(S) /\ m \in Nat /\ n \in Nat
      /\ DOMAIN f = 1 .. m + n /\ DOMAIN s = 1 .. m /\ DOMAIN u = 1 .. n
  OBVIOUS
<1>2. \A i \in 1 .. m + n : f[i] = IF i <= m THEN s[i] ELSE u[i - m]
  OBVIOUS
<1> HIDE DEF f, m, n
<1>3. In(f) = In(s) \cup In(u)
  <2>1. ASSUME NEW x \in In(f) PROVE x \in In(s) \cup In(u)
    <3>1. PICK i \in 1 .. m + n : x = f[i]
      BY <1>1 DEF In
    <3>2. CASE i <= m
      BY <1>1, <1>2, <3>1, <3>2 DEF In
    <3>3. CASE i > m
      <4>1. i - m \in 1 .. n /\ x = u[i - m]
        BY <1>1, <1>2, <3>1, <3>3
      <4> QED
        BY <1>1, <4>1 DEF In
    <3> QED
      BY <1>1, <3>2, <3>3
  <2>2. ASSUME NEW x \in In(s) PROVE x \in In(f)
    BY <1>1, <1>2 DEF In
  <2>3. ASSUME NEW x \in In(u) PROVE x \in In(f)
    <3>1. PICK i \in 1 .. n : x = u[i]
      BY <1>1 DEF In
    <3>2. i + m \in 1 .. m + n /\ f[i + m] = u[i]
      BY <1>1, <1>2
    <3> QED
      BY <1>1, <3>1, <3>2 DEF In
  <2> QED
    BY <2>1, <2>2, <2>3
<1>4. Distinct(f)
  <2> SUFFICES ASSUME NEW i \in 1 .. m + n, NEW j \in 1 .. m + n, f[i] = f[j], i < j
               PROVE  FALSE
    BY <1>1 DEF Distinct
  <2>1. CASE j <= m
    <3>1. i \in 1 .. m /\ j \in 1 .. m /\ s[i] = s[j] /\ i # j
      BY <1>1, <1>2, <2>1
    <3> QED
      BY <1>1, <3>1 DEF Distinct
  <2>2. CASE m < i
    <3>1. i - m \in 1 .. n /\ j - m \in 1 .. n /\ u[i - m] = u[j - m] /\ i - m # j - m
      BY <1>1, <1>2, <2>2
    <3> QED
      BY <1>1, <3>1 DEF Distinct
  <2>3. CASE i <= m /\ m < j
    <3>1. j - m \in 1 .. n /\ s[i] = u[j - m] /\ i \in 1 .. m
      BY <1>1, <1>2, <2>3
    <3> QED
      BY <1>1, <3>1 DEF In
  <2> QED
    BY <1>1, <2>1, <2>2, <2>3
<1> QED
  BY <1>1, <1>3, <1>4 DEF f

\* A ring holds its end marker, and every task once.
Ring(r) == r \in Seq(Tasks \cup {End}) /\ Distinct(r) /\ End \in In(r)

\* Moving the first element to the end.
LEMMA RotateIs ==
  ASSUME NEW S, NEW r \in Seq(S), r # <<>>, Distinct(r)
  PROVE  /\ Rotate(r) \in Seq(S)
         /\ Distinct(Rotate(r))
         /\ In(Rotate(r)) = In(r)
         /\ Len(Rotate(r)) = Len(r)
         /\ Rotate(r)[1] = IF Len(r) = 1 THEN r[1] ELSE r[2]
<1> DEFINE n == Len(r)
           f == Rotate(r)
<1>1. n \in Nat /\ n > 0 /\ DOMAIN r = 1 .. n
  OBVIOUS
<1>2. f \in Seq(S) /\ Len(f) = n
  BY DEF Rotate
<1>3. DOMAIN f = 1 .. n
  BY <1>2
<1>4. \A i \in 1 .. n : f[i] = IF i < n THEN r[i + 1] ELSE r[1]
  <2> DEFINE tl == Tail(r)
  <2>1. tl \in Seq(S) /\ Len(tl) = n - 1 /\ \A i \in 1 .. n - 1 : tl[i] = r[i + 1]
    BY <1>1
  <2>2. f = Append(tl, r[1])
    BY DEF Rotate
  <2>3. r[1] \in S
    BY <1>1
  <2> HIDE DEF tl, f, n
  <2>4. Len(Append(tl, r[1])) = n /\ \A i \in 1 .. n : Append(tl, r[1])[i] = IF i <= n - 1 THEN tl[i] ELSE r[1]
    BY <1>1, <2>1, <2>3
  <2> QED
    BY <1>1, <2>1, <2>2, <2>4
<1> HIDE DEF f, n
<1>5. In(f) = In(r)
  <2>1. ASSUME NEW i \in 1 .. n PROVE f[i] \in In(r)
    <3>1. i < n => i + 1 \in 1 .. n
      BY <1>1
    <3> QED
      BY <1>1, <1>4, <3>1 DEF In
  <2>2. ASSUME NEW i \in 1 .. n PROVE r[i] \in In(f)
    <3>1. CASE i = 1
      BY <1>1, <1>3, <1>4, <3>1 DEF In
    <3>2. CASE i # 1
      <4>1. i - 1 \in 1 .. n /\ f[i - 1] = r[i]
        BY <1>1, <1>4, <3>2
      <4> QED
        BY <1>3, <4>1 DEF In
    <3> QED
      BY <3>1, <3>2
  <2> QED
    BY <1>1, <1>3, <2>1, <2>2 DEF In
<1>6. Distinct(f)
  <2> SUFFICES ASSUME NEW i \in 1 .. n, NEW j \in 1 .. n, f[i] = f[j], i < j
               PROVE  FALSE
    BY <1>1, <1>3 DEF Distinct
  <2>1. f[i] = r[i + 1] /\ i + 1 \in 1 .. n
    BY <1>1, <1>4
  <2>2. CASE j < n
    <3>1. f[j] = r[j + 1] /\ j + 1 \in 1 .. n /\ i + 1 # j + 1
      BY <1>1, <1>4, <2>2
    <3> QED
      BY <1>1, <2>1, <3>1 DEF Distinct
  <2>3. CASE j = n
    <3>1. f[j] = r[1] /\ 1 \in 1 .. n /\ i + 1 # 1
      BY <1>1, <1>4, <2>3
    <3> QED
      BY <1>1, <2>1, <3>1 DEF Distinct
  <2> QED
    BY <1>1, <2>2, <2>3
<1>7. f[1] = IF n = 1 THEN r[1] ELSE r[2]
  <2>1. 1 \in 1 .. n /\ (1 < n \/ n = 1)
    BY <1>1
  <2> QED
    BY <1>1, <1>4, <2>1
<1> QED
  BY <1>2, <1>5, <1>6, <1>7 DEF f, n

\* listGET_OWNER_OF_NEXT_ENTRY steps over the end marker to a task.
LEMMA NextEntryIs ==
  ASSUME NEW r, Ring(r), Len(r) > 1
  PROVE  /\ Ring(NextEntry(r))
         /\ In(NextEntry(r)) = In(r)
         /\ Len(NextEntry(r)) = Len(r)
         /\ Head(NextEntry(r)) \in In(r) \ {End}
<1> DEFINE S == Tasks \cup {End}
           one == Rotate(r)
           two == Rotate(one)
<1>1. r \in Seq(S) /\ r # <<>> /\ Distinct(r) /\ Len(r) \in Nat
  BY DEF Ring
<1>2. /\ one \in Seq(S) /\ Distinct(one) /\ In(one) = In(r) /\ Len(one) = Len(r)
  BY <1>1, RotateIs
<1>3. one # <<>>
  BY <1>1, <1>2
<1> HIDE DEF one
<1>4. /\ two \in Seq(S) /\ Distinct(two) /\ In(two) = In(r) /\ Len(two) = Len(r)
      /\ two[1] = one[2]
  BY <1>1, <1>2, <1>3, RotateIs
<1> HIDE DEF two
<1>5. /\ Head(one) = one[1] /\ Head(two) = two[1] /\ one[1] # one[2]
      /\ one[1] \in In(one) /\ two[1] \in In(two)
  <2>1. 1 \in DOMAIN one /\ 2 \in DOMAIN one /\ 1 \in DOMAIN two
    BY <1>1, <1>2, <1>4
  <2> QED
    BY <1>2, <1>3, <1>4, <2>1 DEF Distinct, In
<1>6. NextEntry(r) = IF Head(one) = End THEN two ELSE one
  BY DEF NextEntry, one, two
<1> QED
  BY <1>2, <1>4, <1>5, <1>6 DEF Ring

\* uxListRemove takes the task out, wherever pxIndex points.
LEMMA RemoveFromRingIs ==
  ASSUME NEW r, Ring(r), NEW t \in In(r), t # End
  PROVE  Ring(RemoveFromRing(r, t)) /\ In(RemoveFromRing(r, t)) = In(r) \ {t}
<1> DEFINE S == Tasks \cup {End}
           n == Len(r)
           f == RemoveFromRing(r, t)
<1>1. r \in Seq(S) /\ Distinct(r) /\ n \in Nat /\ DOMAIN r = 1 .. n
  BY DEF Ring
<1>2. CASE Head(r) # t
  <2>1. f = Without(r, t)
    BY <1>2 DEF RemoveFromRing
  <2> QED
    BY <1>1, <2>1, WithoutIs DEF Ring
<1>3. CASE Head(r) = t
  <2>1. PICK e \in 1 .. n : r[e] = End
    BY <1>1 DEF Ring, In
  <2>2. r # <<>> /\ r[1] = t /\ n > 1
    BY <1>1, <1>3, <2>1
  <2>3. f = <<r[n]>> \o SubSeq(r, 2, n - 1)
    BY <1>3 DEF RemoveFromRing
  <2> DEFINE g == SubSeq(r, 2, n - 1)
  <2>4. g \in Seq(S) /\ DOMAIN g = 1 .. n - 2 /\ \A i \in 1 .. n - 2 : g[i] = r[i + 1]
    BY <1>1, <2>2
  <2>5. n \in 1 .. n /\ r[n] \in S
    BY <1>1, <2>2
  <2> HIDE DEF g, n
  <2>6. <<r[n]>> \in Seq(S) /\ Distinct(<<r[n]>>) /\ In(<<r[n]>>) = {r[n]}
    BY <2>5 DEF Distinct, In
  <2>7. Distinct(g)
    <3> SUFFICES ASSUME NEW i \in 1 .. n - 2, NEW j \in 1 .. n - 2, g[i] = g[j]
                 PROVE  i = j
      BY <2>4 DEF Distinct
    <3>1. i + 1 \in 1 .. n /\ j + 1 \in 1 .. n /\ r[i + 1] = r[j + 1]
      BY <1>1, <2>4
    <3>2. i + 1 = j + 1
      BY <1>1, <3>1 DEF Distinct
    <3> QED
      BY <3>2
  <2>8. ASSUME NEW x \in In(g) PROVE x \in In(r) /\ x # r[n] /\ x # t
    <3>1. PICK i \in 1 .. n - 2 : x = r[i + 1]
      BY <2>4 DEF In
    <3>2. i + 1 \in 1 .. n /\ i + 1 # n /\ i + 1 # 1 /\ 1 \in 1 .. n /\ n \in 1 .. n
      BY <1>1, <2>2
    <3> QED
      BY <1>1, <2>2, <3>1, <3>2 DEF Distinct, In
  <2>9. ASSUME NEW x \in In(r), x # t, x # r[n] PROVE x \in In(g)
    <3>1. PICK i \in 1 .. n : x = r[i]
      BY <1>1 DEF In
    <3>2. i # 1 /\ i # n
      BY <2>2, <2>9, <3>1
    <3>3. i - 1 \in 1 .. n - 2 /\ g[i - 1] = r[i]
      BY <1>1, <2>4, <3>2
    <3> QED
      BY <2>4, <3>1, <3>3 DEF In
  <2>10. r[n] # t /\ r[n] \in In(r)
    BY <1>1, <2>2, <2>5 DEF Distinct, In
  <2>11. In(<<r[n]>>) \cap In(g) = {}
    BY <2>6, <2>8
  <2>12. f \in Seq(S) /\ Distinct(f) /\ In(f) = {r[n]} \cup In(g)
    <3> DEFINE a == <<r[n]>>
    <3>1. f = a \o g
      BY <2>3 DEF g
    <3>2. a \in Seq(S) /\ Distinct(a) /\ In(a) = {r[n]} /\ In(a) \cap In(g) = {}
      BY <2>6, <2>11
    <3> HIDE DEF f, S, a
    <3> QED
      BY <2>4, <2>7, <3>1, <3>2, ConcatIs
  <2>13. In(f) = In(r) \ {t}
    BY <2>8, <2>9, <2>10, <2>12
  <2> QED
    BY <2>12, <2>13 DEF Ring
<1> QED
  BY <1>2, <1>3

\* An item is put into a list behind the first n.
InsertAt(s, n, x) == SubSeq(s, 1, n) \o <<x>> \o SubSeq(s, n + 1, Len(s))

Inserted(f, s, n, x) ==
  /\ Len(f) = Len(s) + 1
  /\ \A i \in 1 .. Len(s) + 1 :
       f[i] = IF i <= n THEN s[i] ELSE IF i = n + 1 THEN x ELSE s[i - 1]

LEMMA InsertIs ==
  ASSUME NEW S, NEW s \in Seq(S), NEW x \in S, NEW n \in 0 .. Len(s)
  PROVE  InsertAt(s, n, x) \in Seq(S) /\ Inserted(InsertAt(s, n, x), s, n, x)
<1> DEFINE a == SubSeq(s, 1, n)
           b == SubSeq(s, n + 1, Len(s))
           f == InsertAt(s, n, x)
           m == Len(s)
<1>1. m \in Nat /\ n \in Nat /\ n <= m
  OBVIOUS
<1>2. a \in Seq(S) /\ Len(a) = n /\ \A i \in 1 .. n : a[i] = s[i]
  BY <1>1
<1>3. b \in Seq(S) /\ Len(b) = m - n /\ \A i \in 1 .. m - n : b[i] = s[i + n]
  BY <1>1
<1> HIDE DEF a, b, m
<1> DEFINE c == a \o <<x>>
<1>4. c \in Seq(S) /\ Len(c) = n + 1 /\ \A i \in 1 .. n + 1 : c[i] = IF i <= n THEN s[i] ELSE x
  BY <1>1, <1>2
<1> HIDE DEF c
<1> DEFINE d == c \o b
<1>5. d \in Seq(S) /\ Len(d) = m + 1
  <2>1. b \in Seq(S) /\ c \in Seq(S) /\ Len(c) + Len(b) = m + 1
    BY <1>1, <1>3, <1>4
  <2> QED
    BY <2>1
<1>6. \A i \in 1 .. m + 1 : d[i] = IF i <= n + 1 THEN c[i] ELSE b[i - (n + 1)]
  BY <1>1, <1>3, <1>4
<1> HIDE DEF d
<1>7. ASSUME NEW i \in 1 .. m + 1
      PROVE  d[i] = IF i <= n THEN s[i] ELSE IF i = n + 1 THEN x ELSE s[i - 1]
  <2>1. CASE i <= n + 1
    BY <1>1, <1>4, <1>6, <2>1
  <2>2. CASE i > n + 1
    <3>1. i - (n + 1) \in 1 .. m - n /\ (i - (n + 1)) + n = i - 1
      BY <1>1, <2>2
    <3>2. d[i] = b[i - (n + 1)]
      BY <1>1, <1>6, <2>2
    <3>3. b[i - (n + 1)] = s[i - 1]
      BY <1>3, <3>1
    <3> QED
      BY <1>1, <2>2, <3>2, <3>3
  <2> QED
    BY <1>1, <2>1, <2>2
<1>8. f = d
  BY DEF InsertAt, a, b, c, d
<1> QED
  BY <1>5, <1>7, <1>8 DEF Inserted, m

\* vListInsert puts the item into the list, which stays sorted.
LEMMA vListInsertIs ==
  ASSUME NEW V \in SUBSET Int, NEW s \in Items(V), NEW x, x \in [owner : Tasks, value : V],
         DistinctOwners(s), x.owner \notin Owners(s), NEW f, f = vListInsert(s, x)
  PROVE  /\ f \in Items(V) /\ DistinctOwners(f) /\ (Sorted(s) => Sorted(f))
         /\ In(f) = In(s) \cup {x} /\ Owners(f) = Owners(s) \cup {x.owner}
<1> DEFINE S == [owner : Tasks, value : V]
           m == Len(s)
           P == {i \in DOMAIN s : s[i].value <= x.value}
           n == Cardinality(P)
<1>1. /\ m \in Nat /\ DOMAIN s = 1 .. m
      /\ x.value \in Int /\ \A i \in 1 .. m : s[i] \in S /\ s[i].value \in Int
  <2>1. s \in Seq(S) /\ x \in S /\ \A y \in S : y.value \in Int
    BY DEF Items
  <2> HIDE DEF S
  <2> QED
    BY <2>1
<1>2. n \in 0 .. m
  <2>1. P \in SUBSET (1 .. m)
    BY <1>1
  <2> HIDE DEF P, m
  <2>4. IsFiniteSet(1 .. m) /\ Cardinality(1 .. m) = m
    BY <1>1, FS_Interval
  <2>2. IsFiniteSet(P) /\ Cardinality(P) <= m
    BY <2>1, <2>4, FS_Subset
  <2>3. Cardinality(P) \in Nat
    BY <2>2, FS_CardinalityType
  <2> QED
    BY <1>1, <2>2, <2>3
<1>3. f = InsertAt(s, n, x)
  BY DEF vListInsert, InsertAt
<1>0. s \in Seq(S) /\ x \in S
  BY DEF Items
<1> HIDE DEF n, P, S
<1>4. /\ f \in Seq(S) /\ Len(f) = m + 1
      /\ \A i \in 1 .. m + 1 :
           f[i] = IF i <= n THEN s[i] ELSE IF i = n + 1 THEN x ELSE s[i - 1]
  <2>1. n \in 0 .. Len(s) /\ m = Len(s)
    BY <1>2
  <2> HIDE DEF m
  <2>2. InsertAt(s, n, x) \in Seq(S) /\ Inserted(InsertAt(s, n, x), s, n, x)
    BY <1>0, <2>1, InsertIs
  <2> QED
    BY <1>3, <2>1, <2>2 DEF Inserted
<1>5. DOMAIN f = 1 .. m + 1
  BY <1>4
<1> HIDE DEF m
<1>6. ASSUME NEW i \in 1 .. m
      PROVE  \E j \in 1 .. m + 1 : f[j] = s[i]
  <2>1. CASE i <= n
    BY <1>1, <1>2, <1>4, <2>1
  <2>2. CASE i > n
    <3>1. i + 1 \in 1 .. m + 1 /\ f[i + 1] = s[i]
      BY <1>1, <1>2, <1>4, <2>2
    <3> QED
      BY <3>1
  <2> QED
    BY <1>1, <1>2, <2>1, <2>2
<1>7. n + 1 \in 1 .. m + 1 /\ f[n + 1] = x
  BY <1>1, <1>2, <1>4
<1>8. ASSUME NEW j \in 1 .. m + 1, j # n + 1
      PROVE  \E i \in 1 .. m : f[j] = s[i] /\ i = IF j <= n THEN j ELSE j - 1
  <2>1. CASE j <= n
    BY <1>1, <1>2, <1>4, <2>1
  <2>2. CASE j > n
    <3>1. j - 1 \in 1 .. m /\ f[j] = s[j - 1]
      BY <1>1, <1>2, <1>4, <1>8, <2>2
    <3> QED
      BY <1>2, <2>2, <3>1
  <2> QED
    BY <1>1, <1>2, <2>1, <2>2
<1>9. In(f) = In(s) \cup {x}
  <2>1. ASSUME NEW y \in In(f) PROVE y \in In(s) \cup {x}
    BY <1>1, <1>5, <1>7, <1>8 DEF In
  <2>2. ASSUME NEW y \in In(s) PROVE y \in In(f)
    BY <1>1, <1>5, <1>6 DEF In
  <2>3. x \in In(f)
    BY <1>5, <1>7 DEF In
  <2> QED
    BY <2>1, <2>2, <2>3
<1>10. Owners(f) = Owners(s) \cup {x.owner}
  <2>1. Owners(f) = {y.owner : y \in In(f)}
    BY DEF Owners, In
  <2>2. Owners(s) = {y.owner : y \in In(s)}
    BY DEF Owners, In
  <2> QED
    BY <1>9, <2>1, <2>2
<1>11. DistinctOwners(f)
  <2> SUFFICES ASSUME NEW i \in 1 .. m + 1, NEW j \in 1 .. m + 1,
                      f[i].owner = f[j].owner
               PROVE  i = j
    BY <1>5 DEF DistinctOwners
  <2>1. \A l \in 1 .. m : s[l].owner # x.owner
    BY <1>1 DEF Owners
  <2>2. CASE i = n + 1 \/ j = n + 1
    BY <1>7, <1>8, <2>1, <2>2
  <2>3. CASE i # n + 1 /\ j # n + 1
    <3>1. PICK a \in 1 .. m : f[i] = s[a] /\ a = IF i <= n THEN i ELSE i - 1
      BY <1>8, <2>3
    <3>2. PICK b \in 1 .. m : f[j] = s[b] /\ b = IF j <= n THEN j ELSE j - 1
      BY <1>8, <2>3
    <3>3. a = b
      BY <1>1, <3>1, <3>2 DEF DistinctOwners
    <3> QED
      BY <1>1, <1>2, <2>3, <3>1, <3>2, <3>3
  <2> QED
    BY <2>2, <2>3
<1>12. ASSUME Sorted(s) PROVE Sorted(f)
  <2>1. \A i \in 1 .. m : i <= n <=> s[i].value <= x.value
    <3> DEFINE T == {l \in 0 .. m : \A i \in 1 .. m : l < i => x.value < s[i].value}
    <3>1. m \in T
      BY <1>1
    <3>2. T \in SUBSET Nat
      BY <1>1
    <3>3. PICK l \in T : \A y \in T : l <= y
      <4> HIDE DEF T
      <4> QED
        BY <3>1, <3>2, NatMin
    <3>4. \A i \in 1 .. m : l < i => x.value < s[i].value
      BY <3>3
    <3>5. l \in 0 .. m
      BY <3>3
    <3>6. ASSUME NEW i \in 1 .. m, i <= l PROVE s[i].value <= x.value
      <4> SUFFICES ASSUME x.value < s[i].value PROVE FALSE
        BY <1>1
      <4>1. ASSUME NEW j \in 1 .. m, i - 1 < j PROVE x.value < s[j].value
        <5>1. i <= j
          BY <1>1, <4>1
        <5>2. s[i].value <= s[j].value
          BY <1>1, <1>12, <5>1 DEF Sorted
        <5> QED
          BY <1>1, <5>2
      <4>2. i - 1 \in 0 .. m
        BY <1>1
      <4>3. i - 1 \in T
        BY <4>1, <4>2
      <4>4. l <= i - 1
        BY <3>3, <4>3
      <4> QED
        BY <1>1, <3>5, <3>6, <4>4
    <3>7. P = 1 .. l
      <4>1. ASSUME NEW i \in 1 .. m PROVE i \in P <=> i <= l
        <5>1. i \in P <=> s[i].value <= x.value
          BY <1>1 DEF P
        <5> QED
          BY <1>1, <3>4, <3>5, <3>6, <5>1
      <4>2. P \subseteq 1 .. m
        BY <1>1 DEF P
      <4>3. \A i : i \in 1 .. l <=> i \in 1 .. m /\ i <= l
        BY <1>1, <3>5
      <4> QED
        BY <4>1, <4>2, <4>3
    <3>8. n = l
      BY <3>5, <3>7, FS_Interval DEF n
    <3> QED
      BY <1>1, <3>4, <3>5, <3>6, <3>8
  <2> SUFFICES ASSUME NEW i \in 1 .. m + 1, NEW j \in 1 .. m + 1, i < j
               PROVE  f[i].value <= f[j].value
    <3>1. \A y \in S : y.value \in Int
      BY DEF S
    <3>2. \A i \in 1 .. m + 1 : f[i].value \in Int
      BY <1>4, <1>5, <3>1
    <3>3. \A i, j \in 1 .. m + 1 : i <= j => i = j \/ i < j
      BY <1>1
    <3> QED
      BY <1>5, <3>2, <3>3 DEF Sorted
  <2>2. \A a, b \in 1 .. m : a <= b => s[a].value <= s[b].value
    BY <1>1, <1>12 DEF Sorted
  <2>3. CASE j <= n
    BY <1>1, <1>2, <1>4, <2>2, <2>3
  <2>4. CASE j = n + 1
    <3>1. i \in 1 .. m /\ i <= n /\ f[i] = s[i]
      BY <1>1, <1>2, <1>4, <2>4
    <3> QED
      BY <1>7, <2>1, <2>4, <3>1
  <2>5. CASE j > n + 1
    <3>1. j - 1 \in 1 .. m /\ f[j] = s[j - 1] /\ ~ (j - 1 <= n)
      BY <1>1, <1>2, <1>4, <2>5
    <3>2. CASE i = n + 1
      BY <1>1, <1>7, <2>1, <3>1, <3>2
    <3>3. CASE i <= n
      <4>1. i \in 1 .. m /\ f[i] = s[i] /\ i <= j - 1
        BY <1>1, <1>2, <1>4, <3>1, <3>3
      <4> QED
        BY <2>2, <3>1, <4>1
    <3>4. CASE i > n + 1
      <4>1. i - 1 \in 1 .. m /\ f[i] = s[i - 1] /\ i - 1 <= j - 1
        BY <1>1, <1>2, <1>4, <3>4
      <4> QED
        BY <2>2, <3>1, <4>1
    <3> QED
      BY <1>1, <1>2, <3>2, <3>3, <3>4
  <2> QED
    BY <1>1, <1>2, <2>3, <2>4, <2>5
<1> QED
  BY <1>4, <1>9, <1>10, <1>11, <1>12 DEF Items, S

-----------------------------------------------------------------------------
(* The invariant. *)

FieldNames ==
  {"uxPriority", "ready", "top", "delayed", "overflow", "suspended", "events", "pending",
   "left", "xTickCount", "xNextTaskUnblockTime", "xPendedTicks", "uxSchedulerSuspended",
   "xYieldPending", "pxCurrentTCB"}

\* The state of a kernel has its fields and their types.
Kernel(s) ==
  /\ DOMAIN s = FieldNames
  /\ s.uxPriority \in Priorities
  /\ s.ready \in [Levels -> Seq(Tasks \cup {End})] /\ s.top \in Levels
  /\ s.delayed \in Items(0 .. W - 1)
  /\ s.overflow \in Items(0 .. W - 1)
  /\ s.suspended \in SUBSET Tasks
  /\ s.events \in Items(Int)
  /\ s.pending \in Seq(Tasks)
  /\ s.left \in [Tasks -> 0 .. W - 1]
  /\ s.xTickCount \in 0 .. W - 1 /\ s.xNextTaskUnblockTime \in 0 .. W - 1
  /\ s.xPendedTicks \in 0 .. MaxPended
  /\ s.uxSchedulerSuspended \in 0 .. MaxNesting
  /\ s.xYieldPending \in BOOLEAN /\ s.pxCurrentTCB \in Tasks

Ready(s) == (UNION {In(s.ready[p]) : p \in Levels}) \ {End}

Sleeping(s) == Owners(s.delayed) \cup Owners(s.overflow)

\* Every ready list is a ring of tasks of its own priority.
RingsOK(s) ==
  \A p \in Levels : /\ Ring(s.ready[p])
                    /\ \A t \in In(s.ready[p]) \ {End} : s.uxPriority[t] = p

\* uxTopReadyPriority is not below the priority of any ready task.
TopOK(s) == \A t \in Ready(s) : s.uxPriority[t] <= s.top

\* An item of the current list is due when the counter reaches its value, one of
\* the overflow list after the counter has wrapped.
SleepOK(s) ==
  /\ Sorted(s.delayed) /\ DistinctOwners(s.delayed)
  /\ Sorted(s.overflow) /\ DistinctOwners(s.overflow)
  /\ \A x \in In(s.delayed) : x.value = s.xTickCount + s.left[x.owner]
  /\ \A x \in In(s.overflow) : x.value + W = s.xTickCount + s.left[x.owner]
  /\ \A t \in Tasks \ Sleeping(s) : s.left[t] = 0

\* xNextTaskUnblockTime is not later than any item of the current list.
NextOK(s) == \A x \in In(s.delayed) : s.xNextTaskUnblockTime <= x.value

\* No task in a delayed list has had its time.
DueOK(s) == \A t \in Sleeping(s) : s.left[t] > 0

\* Each task is in one list.
Placed(t, R, D, O, S) ==
  \/ t \in R /\ t \notin D /\ t \notin O /\ t \notin S
  \/ t \notin R /\ t \in D /\ t \notin O /\ t \notin S
  \/ t \notin R /\ t \notin D /\ t \in O /\ t \notin S
  \/ t \notin R /\ t \notin D /\ t \notin O /\ t \in S

PlaceOK(s) ==
  \A t \in Tasks :
    Placed(t, Ready(s), Owners(s.delayed), Owners(s.overflow), s.suspended)

\* An event item is in an event list or in xPendingReadyList, not in both, and
\* only when the task is not ready.
EventOK(s) ==
  /\ DistinctOwners(s.events) /\ Distinct(s.pending)
  /\ \A t \in Owners(s.events) : t \notin Ready(s) /\ t \notin In(s.pending)
  /\ \A t \in In(s.pending) : t \notin Ready(s)

\* The parts that hold also between two steps of a kernel function.
Lists(s) == Kernel(s) /\ RingsOK(s) /\ TopOK(s) /\ SleepOK(s) /\ NextOK(s)

Steady(s) == /\ Lists(s) /\ DueOK(s) /\ PlaceOK(s) /\ EventOK(s)
             /\ Idle \in Ready(s)

\* Only with the scheduler suspended does anything wait in xPendingReadyList.
PendOK(s) == s.pending # <<>> => s.uxSchedulerSuspended # 0

\* The fields that have to do with who runs.
SameRun(s, u) ==
  /\ u.uxPriority = s.uxPriority /\ u.pxCurrentTCB = s.pxCurrentTCB
  /\ u.uxSchedulerSuspended = s.uxSchedulerSuspended
  /\ u.xYieldPending = s.xYieldPending

SameClock(s, u) == u.xTickCount = s.xTickCount /\ u.xPendedTicks = s.xPendedTicks

SameEvents(s, u) == u.events = s.events /\ u.pending = s.pending

\* What the proofs use of the constants.
LEMMA Constants ==
  /\ IsFiniteSet(Tasks) /\ Idle \in Tasks /\ End \notin Tasks
  /\ configMAX_PRIORITIES \in Nat /\ configMAX_PRIORITIES > 0
  /\ Levels \subseteq Nat /\ 0 \in Levels
  /\ \A f \in Priorities : f \in [Tasks -> Levels] /\ f[Idle] = 0
  /\ W \in Nat /\ W > 1 /\ MaxPended \in Nat /\ MaxNesting \in Nat /\ MaxNesting > 0
  /\ \A d \in Delays : d \in 1 .. W - 1
<1>1. Levels = 0 .. configMAX_PRIORITIES - 1
  BY DEF Levels
<1> QED
  BY <1>1, SchedulerAssumption

\* The priorities of the tasks.
LEMMA PrioritiesAre ==
  ASSUME NEW s, Kernel(s)
  PROVE  s.uxPriority \in [Tasks -> Levels] /\ s.uxPriority[Idle] = 0
  BY Constants DEF Kernel

\* A task is ready exactly when it is in the ring of its priority.
LEMMA ReadyAt ==
  ASSUME NEW s, Kernel(s), RingsOK(s)
  PROVE  /\ Ready(s) \subseteq Tasks
         /\ \A t \in Tasks : t \in Ready(s) <=> t \in In(s.ready[s.uxPriority[t]])
         /\ \A p \in Levels, t \in Tasks : t \in In(s.ready[p]) => s.uxPriority[t] = p
<1>1. s.uxPriority \in [Tasks -> Levels] /\ End \notin Tasks
  BY PrioritiesAre, Constants
<1>2. \A p \in Levels : In(s.ready[p]) \subseteq Tasks \cup {End}
  BY DEF Kernel, RingsOK, Ring, In
<1>3. \A p \in Levels, t \in Tasks : t \in In(s.ready[p]) => s.uxPriority[t] = p
  BY <1>1 DEF RingsOK
<1>4. Ready(s) \subseteq Tasks
  BY <1>2 DEF Ready
<1>5. ASSUME NEW t \in Tasks PROVE t \in Ready(s) <=> t \in In(s.ready[s.uxPriority[t]])
  <2>1. t # End /\ s.uxPriority[t] \in Levels
    BY <1>1
  <2>2. t \in Ready(s) <=> \E p \in Levels : t \in In(s.ready[p])
    BY <2>1 DEF Ready
  <2> QED
    BY <1>3, <2>1, <2>2
<1> QED
  BY <1>3, <1>4, <1>5

\* The fields after the state item of a task was taken out of its list.
LEMMA RemoveFields ==
  ASSUME NEW s, Kernel(s), NEW t \in Tasks, NEW u, u = RemoveStateItem(s, t)
  PROVE  /\ u.ready = [s.ready EXCEPT ![s.uxPriority[t]] =
                         IF t \in In(@) THEN RemoveFromRing(@, t) ELSE @]
         /\ u.delayed = Drop(s.delayed, {t}) /\ u.overflow = Drop(s.overflow, {t})
         /\ u.suspended = s.suspended \ {t}
         /\ u.left = [s.left EXCEPT ![t] = 0]
         /\ u.top = s.top /\ u.xNextTaskUnblockTime = s.xNextTaskUnblockTime
         /\ SameRun(s, u) /\ SameClock(s, u) /\ SameEvents(s, u)
         /\ DOMAIN u = FieldNames
<1>0. DOMAIN s = FieldNames
  BY DEF Kernel
<1>1. u.ready = [s.ready EXCEPT ![s.uxPriority[t]] =
                   IF t \in In(@) THEN RemoveFromRing(@, t) ELSE @]
  BY <1>0 DEF RemoveStateItem, FieldNames
<1>2. u.delayed = Drop(s.delayed, {t}) /\ u.overflow = Drop(s.overflow, {t})
  BY <1>0 DEF RemoveStateItem, FieldNames
<1>3. u.suspended = s.suspended \ {t}
  BY <1>0 DEF RemoveStateItem, FieldNames
<1>4. u.left = [s.left EXCEPT ![t] = 0]
  BY <1>0 DEF RemoveStateItem, FieldNames
<1>5. u.top = s.top /\ u.xNextTaskUnblockTime = s.xNextTaskUnblockTime
  BY <1>0 DEF RemoveStateItem, FieldNames
<1>6. SameRun(s, u) /\ SameClock(s, u) /\ SameEvents(s, u)
  BY <1>0 DEF RemoveStateItem, FieldNames, SameRun, SameClock, SameEvents
<1>7. DOMAIN u = FieldNames
  BY <1>0 DEF RemoveStateItem
<1> QED
  BY <1>1, <1>2, <1>3, <1>4, <1>5, <1>6, <1>7

-----------------------------------------------------------------------------
(* What depends on a part of the state only. *)

SameReady(s, u) == u.ready = s.ready /\ u.uxPriority = s.uxPriority

SameSleep(s, u) ==
  /\ u.delayed = s.delayed /\ u.overflow = s.overflow /\ u.left = s.left
  /\ u.xTickCount = s.xTickCount /\ u.xNextTaskUnblockTime = s.xNextTaskUnblockTime

LEMMA ReadyFrame ==
  ASSUME NEW s, NEW u, SameReady(s, u)
  PROVE  /\ Ready(u) = Ready(s)
         /\ RingsOK(s) => RingsOK(u)
         /\ TopOK(s) /\ u.top = s.top => TopOK(u)
<1>1. Ready(u) = Ready(s)
  BY DEF SameReady, Ready
<1>2. RingsOK(s) => RingsOK(u)
  BY DEF SameReady, RingsOK
<1>3. TopOK(s) /\ u.top = s.top => TopOK(u)
  BY <1>1 DEF SameReady, TopOK
<1> QED
  BY <1>1, <1>2, <1>3

LEMMA SleepFrame ==
  ASSUME NEW s, NEW u, SameSleep(s, u)
  PROVE  /\ (SleepOK(s) => SleepOK(u)) /\ (DueOK(s) => DueOK(u)) /\ (NextOK(s) => NextOK(u))
         /\ Sleeping(u) = Sleeping(s)
<1>1. Sleeping(u) = Sleeping(s)
  BY DEF SameSleep, Sleeping
<1>2. SleepOK(s) => SleepOK(u)
  BY <1>1 DEF SameSleep, SleepOK
<1>3. DueOK(s) => DueOK(u)
  BY <1>1 DEF SameSleep, DueOK
<1>4. NextOK(s) => NextOK(u)
  BY DEF SameSleep, NextOK
<1> QED
  BY <1>1, <1>2, <1>3, <1>4

-----------------------------------------------------------------------------
(* The kernel's functions, one lemma each. *)

Awaken(s, u, t) == u.left = [s.left EXCEPT ![t] = 0]

\* A task whose state item is taken out is in no list; nothing else changes.
LEMMA RemoveIs ==
  ASSUME NEW s, Lists(s), NEW t \in Tasks, NEW u, u = RemoveStateItem(s, t)
  PROVE  /\ Lists(u) /\ (DueOK(s) => DueOK(u))
         /\ Ready(u) = Ready(s) \ {t}
         /\ Owners(u.delayed) = Owners(s.delayed) \ {t}
         /\ Owners(u.overflow) = Owners(s.overflow) \ {t}
         /\ u.suspended = s.suspended \ {t}
         /\ Awaken(s, u, t)
         /\ SameRun(s, u) /\ SameClock(s, u) /\ SameEvents(s, u)
<1> DEFINE p == s.uxPriority[t]
           V == 0 .. W - 1
<1>1. Kernel(s) /\ RingsOK(s) /\ TopOK(s) /\ SleepOK(s) /\ NextOK(s)
  BY DEF Lists
<1>2. /\ s.uxPriority \in [Tasks -> Levels] /\ End \notin Tasks /\ p \in Levels
      /\ W \in Nat /\ W > 1
  BY <1>1, PrioritiesAre, Constants
<1>3. /\ u.ready = [s.ready EXCEPT ![p] = IF t \in In(@) THEN RemoveFromRing(@, t) ELSE @]
      /\ u.delayed = Drop(s.delayed, {t}) /\ u.overflow = Drop(s.overflow, {t})
      /\ u.suspended = s.suspended \ {t}
      /\ u.left = [s.left EXCEPT ![t] = 0]
      /\ u.top = s.top /\ u.xNextTaskUnblockTime = s.xNextTaskUnblockTime
      /\ SameRun(s, u) /\ SameClock(s, u) /\ SameEvents(s, u)
      /\ DOMAIN u = FieldNames
  BY <1>1, RemoveFields
<1>4. ASSUME NEW q \in Levels
      PROVE  Ring(u.ready[q]) /\ In(u.ready[q]) = In(s.ready[q]) \ {t}
  <2>1. Ring(s.ready[q]) /\ (t \in In(s.ready[q]) => q = p) /\ t # End
    BY <1>1, <1>2, ReadyAt DEF RingsOK
  <2>2. s.ready \in [Levels -> Seq(Tasks \cup {End})]
    BY <1>1 DEF Kernel
  <2>3. u.ready[q] = IF t \in In(s.ready[q]) THEN RemoveFromRing(s.ready[q], t) ELSE s.ready[q]
    BY <1>2, <1>3, <2>1, <2>2
  <2>4. CASE t \in In(s.ready[q])
    <3>1. Ring(RemoveFromRing(s.ready[q], t))
          /\ In(RemoveFromRing(s.ready[q], t)) = In(s.ready[q]) \ {t}
      BY <2>1, <2>4, RemoveFromRingIs
    <3> QED
      BY <2>3, <2>4, <3>1
  <2>5. CASE t \notin In(s.ready[q])
    BY <2>1, <2>3, <2>5
  <2> QED
    BY <2>4, <2>5
<1>5. RingsOK(u)
  <2>1. u.uxPriority = s.uxPriority
    BY <1>3 DEF SameRun
  <2> QED
    BY <1>1, <1>4, <2>1 DEF RingsOK
<1>6. Ready(u) = Ready(s) \ {t}
  <2>1. \A x : x \in Ready(u) <=> x \in Ready(s) /\ x # t
    BY <1>4 DEF Ready
  <2> QED
    BY <2>1
<1>7. TopOK(u)
  BY <1>1, <1>3, <1>6 DEF TopOK, SameRun
<1>8. /\ s.delayed \in Items(V) /\ DistinctOwners(s.delayed)
      /\ s.overflow \in Items(V) /\ DistinctOwners(s.overflow)
      /\ Sorted(s.delayed) /\ Sorted(s.overflow)
  BY <1>1 DEF Kernel, SleepOK
<1> HIDE DEF V
<1>9. /\ u.delayed \in Items(V) /\ DistinctOwners(u.delayed)
      /\ Sorted(u.delayed)
      /\ Kept(u.delayed, s.delayed, {t})
      /\ Owners(u.delayed) = Owners(s.delayed) \ {t}
  BY <1>3, <1>8, DropIs
<1>10. /\ u.overflow \in Items(V) /\ DistinctOwners(u.overflow)
       /\ Sorted(u.overflow)
       /\ Kept(u.overflow, s.overflow, {t})
       /\ Owners(u.overflow) = Owners(s.overflow) \ {t}
  BY <1>3, <1>8, DropIs
<1>11. s.left \in [Tasks -> V] /\ 0 \in V
  BY <1>1, <1>2 DEF Kernel, V
<1>12. Kernel(u)
  <2>1. u.left \in [Tasks -> V] /\ u.suspended \in SUBSET Tasks
    BY <1>1, <1>3, <1>11 DEF Kernel
  <2>2. u.ready \in [Levels -> Seq(Tasks \cup {End})]
    <3>1. DOMAIN u.ready = Levels /\ u.ready = [q \in Levels |-> u.ready[q]]
      BY <1>1, <1>3 DEF Kernel
    <3>2. \A q \in Levels : u.ready[q] \in Seq(Tasks \cup {End})
      BY <1>4 DEF Ring
    <3> QED
      BY <3>1, <3>2
  <2> QED
    BY <1>1, <1>3, <1>9, <1>10, <2>1, <2>2 DEF Kernel, V, SameRun, SameClock, SameEvents
<1>13. SleepOK(u)
  <2>1. \A a \in Tasks : a # t => u.left[a] = s.left[a]
    BY <1>3, <1>11
  <2>2. u.xTickCount = s.xTickCount
    BY <1>3 DEF SameClock
  <2>3. ASSUME NEW x \in In(u.delayed) PROVE x.value = u.xTickCount + u.left[x.owner]
    <3>1. x \in In(s.delayed) /\ x.owner # t
      BY <1>9 DEF Kept
    <3>2. x.owner \in Tasks
      BY <1>8, <3>1, ItemsAre
    <3> QED
      BY <1>1, <1>3, <2>1, <2>2, <3>1, <3>2 DEF SleepOK
  <2>4. ASSUME NEW x \in In(u.overflow)
        PROVE  x.value + W = u.xTickCount + u.left[x.owner]
    <3>1. x \in In(s.overflow) /\ x.owner # t
      BY <1>10 DEF Kept
    <3>2. x.owner \in Tasks
      BY <1>8, <3>1, ItemsAre
    <3> QED
      BY <1>1, <2>1, <2>2, <3>1, <3>2 DEF SleepOK
  <2>5. ASSUME NEW a \in Tasks \ Sleeping(u) PROVE u.left[a] = 0
    <3>1. CASE a = t
      BY <1>3, <1>11, <3>1
    <3>2. CASE a # t
      <4>1. a \in Tasks \ Sleeping(s)
        BY <1>9, <1>10, <3>2 DEF Sleeping
      <4> QED
        BY <1>1, <2>1, <3>2, <4>1 DEF SleepOK
    <3> QED
      BY <3>1, <3>2
  <2> QED
    BY <1>9, <1>10, <2>3, <2>4, <2>5 DEF SleepOK
<1>14. DueOK(s) => DueOK(u)
  <2>1. \A a \in Sleeping(u) : a \in Sleeping(s) /\ a # t
    BY <1>9, <1>10 DEF Sleeping
  <2>2. \A a \in Sleeping(s) : a \in Tasks
    BY <1>8, ItemsAre DEF Sleeping
  <2> QED
    BY <1>3, <1>11, <2>1, <2>2 DEF DueOK
<1>15. NextOK(u)
  BY <1>1, <1>3, <1>9 DEF NextOK, Kept
<1> QED
  BY <1>3, <1>5, <1>6, <1>7, <1>9, <1>10, <1>12, <1>13, <1>14, <1>15 DEF Lists, Awaken

\* A list of tasks that are not ready becomes ready; nothing else changes.
LEMMA AddIs ==
  ASSUME NEW s, Lists(s), NEW ts \in Seq(Tasks), Distinct(ts), In(ts) \cap Ready(s) = {},
         NEW u, u = AddToReadyLists(s, ts)
  PROVE  /\ Lists(u) /\ (DueOK(s) => DueOK(u))
         /\ Ready(u) = Ready(s) \cup In(ts)
         /\ u.suspended = s.suspended
         /\ SameSleep(s, u) /\ SameRun(s, u) /\ SameClock(s, u) /\ SameEvents(s, u)
<1> DEFINE prio == s.uxPriority
           add(p) == OfPriority(ts, prio, p)
           H == {s.top} \cup {prio[t] : t \in In(ts)}
<1>1. Kernel(s) /\ RingsOK(s) /\ TopOK(s) /\ SleepOK(s) /\ NextOK(s)
  BY DEF Lists
<1>2. prio \in [Tasks -> Levels] /\ End \notin Tasks
  BY <1>1, PrioritiesAre, Constants
<1>3. DOMAIN s = FieldNames
  BY <1>1 DEF Kernel
<1>4. u.ready = [p \in Levels |-> s.ready[p] \o OfPriority(ts, s.uxPriority, p)]
  BY <1>3 DEF AddToReadyLists, FieldNames
<1>5. u.top = Highest({s.top} \cup {s.uxPriority[t] : t \in In(ts)})
  BY <1>3 DEF AddToReadyLists, FieldNames
<1>6. u.suspended = s.suspended /\ SameSleep(s, u) /\ SameRun(s, u) /\ DOMAIN u = FieldNames
  BY <1>3 DEF AddToReadyLists, FieldNames, SameSleep, SameRun
<1>7. SameClock(s, u) /\ SameEvents(s, u)
  BY <1>3 DEF AddToReadyLists, FieldNames, SameClock, SameEvents
<1>8. In(ts) \subseteq Tasks
  BY DEF In
<1>9. ASSUME NEW p \in Levels
      PROVE  Ring(u.ready[p]) /\ In(u.ready[p]) = In(s.ready[p]) \cup {t \in In(ts) : prio[t] = p}
  <2> DEFINE r == s.ready[p]
             S == Tasks \cup {End}
             a == add(p)
  <2>1. a \in Seq(Tasks) /\ Distinct(a) /\ In(a) = {t \in In(ts) : prio[t] = p}
    BY OfPriorityIs
  <2>2. r \in Seq(S) /\ Distinct(r) /\ End \in In(r)
    BY <1>1 DEF RingsOK, Ring
  <2>3. u.ready[p] = r \o a
    BY <1>4
  <2>4. In(r) \cap In(a) = {}
    <3>1. In(r) \subseteq Ready(s) \cup {End}
      BY DEF Ready
    <3>2. In(a) \subseteq In(ts) /\ End \notin In(ts)
      BY <1>2, <1>8, <2>1
    <3> HIDE DEF r, a
    <3> QED
      BY <3>1, <3>2
  <2>5. a \in Seq(S)
    <3> HIDE DEF a
    <3> QED
      BY <2>1
  <2> DEFINE c == r \o a
  <2>6. c \in Seq(S) /\ Distinct(c) /\ In(c) = In(r) \cup In(a)
    <3> HIDE DEF r, a, S
    <3> QED
      BY <2>1, <2>2, <2>4, <2>5, ConcatIs
  <2> HIDE DEF r, a, c
  <2>7. End \in In(c)
    BY <2>2, <2>6
  <2>8. Ring(c)
    BY <2>6, <2>7 DEF Ring
  <2> QED
    BY <2>1, <2>3, <2>6, <2>8 DEF c, r
<1>10. RingsOK(u)
  <2>1. u.uxPriority = s.uxPriority
    BY <1>6 DEF SameRun
  <2>2. ASSUME NEW p \in Levels, NEW t \in In(u.ready[p]) \ {End} PROVE prio[t] = p
    BY <1>1, <1>9 DEF RingsOK
  <2> QED
    BY <1>9, <2>1, <2>2 DEF RingsOK
<1>11. Ready(u) = Ready(s) \cup In(ts)
  <2>1. ASSUME NEW x \in Ready(u) PROVE x \in Ready(s) \cup In(ts)
    BY <1>9 DEF Ready
  <2>2. ASSUME NEW x \in Ready(s) PROVE x \in Ready(u)
    BY <1>9 DEF Ready
  <2>3. ASSUME NEW x \in In(ts) PROVE x \in Ready(u)
    <3>1. x \in Tasks /\ prio[x] \in Levels /\ x # End
      BY <1>2, <1>8
    <3>2. x \in In(u.ready[prio[x]])
      BY <1>9, <3>1
    <3> QED
      BY <3>1, <3>2 DEF Ready
  <2> QED
    BY <2>1, <2>2, <2>3
<1>12. u.top \in Levels /\ \A q \in H : q <= u.top
  <2>1. H \in SUBSET Levels /\ H # {}
    BY <1>1, <1>2, <1>8 DEF Kernel
  <2>2. configMAX_PRIORITIES \in Nat /\ Levels \subseteq Nat
    BY Constants
  <2>3. \A p \in Levels : p <= configMAX_PRIORITIES
    BY <2>2 DEF Levels
  <2>4. u.top = Highest(H)
    BY <1>5
  <2> HIDE DEF H
  <2>5. H \in SUBSET Nat /\ \A p \in H : p <= configMAX_PRIORITIES
    BY <2>1, <2>2, <2>3
  <2>6. Highest(H) \in H /\ \A q \in H : q <= Highest(H)
    BY <2>1, <2>2, <2>5, HighestIs
  <2> QED
    BY <2>1, <2>4, <2>6
<1>13. TopOK(u)
  <2>1. u.uxPriority = s.uxPriority
    BY <1>6 DEF SameRun
  <2>2. ASSUME NEW t \in Ready(u) PROVE prio[t] <= u.top
    <3>1. CASE t \in In(ts)
      BY <1>12, <3>1
    <3>2. CASE t \in Ready(s)
      <4>1. t \in Tasks
        BY <1>1, <3>2, ReadyAt
      <4>2. prio[t] <= s.top /\ s.top <= u.top
        BY <1>1, <1>12, <3>2 DEF TopOK
      <4>3. prio[t] \in Nat /\ s.top \in Nat /\ u.top \in Nat
        BY <1>1, <1>2, <1>12, <4>1, Constants DEF Kernel
      <4> QED
        BY <4>2, <4>3
    <3> QED
      BY <1>11, <2>2, <3>1, <3>2
  <2> QED
    BY <2>1, <2>2 DEF TopOK
<1>14. Kernel(u)
  <2>1. u.ready \in [Levels -> Seq(Tasks \cup {End})]
    <3>1. \A p \in Levels : u.ready[p] \in Seq(Tasks \cup {End})
      BY <1>9 DEF Ring
    <3>2. u.ready = [p \in Levels |-> u.ready[p]]
      BY <1>4
    <3> QED
      BY <3>1, <3>2
  <2> QED
    BY <1>1, <1>6, <1>7, <1>12, <2>1 DEF Kernel, SameSleep, SameRun, SameClock, SameEvents
<1>15. SleepOK(u) /\ NextOK(u) /\ (DueOK(s) => DueOK(u))
  BY <1>1, <1>6, SleepFrame
<1> QED
  BY <1>6, <1>7, <1>10, <1>11, <1>13, <1>14, <1>15 DEF Lists

\* A task is taken from wherever it was to its ready list.
LEMMA MakeReadyIs ==
  ASSUME NEW s, Lists(s), NEW t \in Tasks,
         NEW u, u = AddToReadyLists(RemoveStateItem(s, t), <<t>>)
  PROVE  /\ Lists(u) /\ (DueOK(s) => DueOK(u)) /\ (PlaceOK(s) => PlaceOK(u))
         /\ Ready(u) = Ready(s) \cup {t}
         /\ SameRun(s, u) /\ SameClock(s, u) /\ SameEvents(s, u)
<1> DEFINE v == RemoveStateItem(s, t)
           ts == <<t>>
<1>1. v = RemoveStateItem(s, t) /\ u = AddToReadyLists(v, ts)
  OBVIOUS
<1>2. ts \in Seq(Tasks) /\ Distinct(ts) /\ In(ts) = {t}
  BY DEF Distinct, In
<1> HIDE DEF v, ts
<1>3. /\ Lists(v) /\ (DueOK(s) => DueOK(v))
      /\ Ready(v) = Ready(s) \ {t}
      /\ Owners(v.delayed) = Owners(s.delayed) \ {t}
      /\ Owners(v.overflow) = Owners(s.overflow) \ {t}
      /\ v.suspended = s.suspended \ {t}
      /\ SameRun(s, v) /\ SameClock(s, v) /\ SameEvents(s, v)
  BY <1>1, RemoveIs
<1>4. In(ts) \cap Ready(v) = {}
  BY <1>3, <1>2
<1>5. /\ Lists(u) /\ (DueOK(v) => DueOK(u))
      /\ Ready(u) = Ready(v) \cup In(ts)
      /\ u.suspended = v.suspended
      /\ SameSleep(v, u) /\ SameRun(v, u) /\ SameClock(v, u) /\ SameEvents(v, u)
  BY <1>3, <1>2, <1>1, <1>4, AddIs
<1>6. SameRun(s, u) /\ SameClock(s, u) /\ SameEvents(s, u)
  BY <1>3, <1>5 DEF SameRun, SameClock, SameEvents
<1>7. Ready(u) = Ready(s) \cup {t}
  BY <1>3, <1>2, <1>5
<1>8. /\ Owners(u.delayed) = Owners(s.delayed) \ {t}
      /\ Owners(u.overflow) = Owners(s.overflow) \ {t}
      /\ u.suspended = s.suspended \ {t}
  BY <1>3, <1>5 DEF SameSleep
<1>9. PlaceOK(s) => PlaceOK(u)
  BY <1>7, <1>8 DEF PlaceOK, Placed
<1> QED
  BY <1>3, <1>5, <1>6, <1>7, <1>9

\* The first item of a delayed list has the least value.
LEMMA HeadIsLeast ==
  ASSUME NEW V \in SUBSET Int, NEW d \in Items(V), d # <<>>, Sorted(d)
  PROVE  Head(d).value \in V /\ \A x \in In(d) : Head(d).value <= x.value
<1>1. d \in Seq([owner : Tasks, value : V])
  BY DEF Items
<1>2. 1 \in DOMAIN d /\ Head(d) = d[1]
  BY <1>1
<1>3. \A i \in DOMAIN d : i \in Nat /\ 1 <= i
  BY <1>1
<1>4. d[1].value \in V
  BY <1>2, ItemsAre DEF In
<1>5. \A i \in DOMAIN d : d[1].value <= d[i].value
  BY <1>2, <1>3 DEF Sorted
<1> QED
  BY <1>2, <1>4, <1>5 DEF In

\* xNextTaskUnblockTime is set from the current list.
LEMMA ResetIs ==
  ASSUME NEW s, Kernel(s), SleepOK(s), NEW u, u = prvResetNextTaskUnblockTime(s)
  PROVE  /\ Kernel(u) /\ SleepOK(u) /\ NextOK(u) /\ (DueOK(s) => DueOK(u))
         /\ u.delayed = s.delayed /\ u.overflow = s.overflow /\ u.suspended = s.suspended
         /\ SameReady(s, u) /\ u.top = s.top
         /\ SameRun(s, u) /\ SameClock(s, u) /\ SameEvents(s, u)
<1> DEFINE V == 0 .. W - 1
           next == IF s.delayed = <<>> THEN portMAX_DELAY ELSE Head(s.delayed).value
<1>1. DOMAIN s = FieldNames /\ s.delayed \in Items(V) /\ Sorted(s.delayed)
  BY DEF Kernel, SleepOK
<1>2. u = [s EXCEPT !.xNextTaskUnblockTime = next]
  BY DEF prvResetNextTaskUnblockTime
<1> HIDE DEF next, V
<1>3. /\ u.xNextTaskUnblockTime = next
      /\ u.delayed = s.delayed /\ u.overflow = s.overflow /\ u.left = s.left
      /\ u.suspended = s.suspended
  BY <1>1, <1>2 DEF FieldNames
<1>4. SameReady(s, u) /\ u.top = s.top /\ DOMAIN u = FieldNames
  BY <1>1, <1>2 DEF FieldNames, SameReady
<1>5. SameRun(s, u) /\ SameClock(s, u) /\ SameEvents(s, u)
  BY <1>1, <1>2 DEF FieldNames, SameRun, SameClock, SameEvents
<1>6. next \in V /\ \A x \in In(s.delayed) : next <= x.value
  <2>1. W \in Nat /\ W > 1
    BY Constants
  <2>2. CASE s.delayed = <<>>
    <3>1. In(s.delayed) = {}
      BY <2>2 DEF In
    <3> QED
      BY <2>1, <2>2, <3>1 DEF next, V, portMAX_DELAY
  <2>3. CASE s.delayed # <<>>
    <3>1. V \in SUBSET Int
      BY <2>1 DEF V
    <3>2. Head(s.delayed).value \in V /\ \A x \in In(s.delayed) : Head(s.delayed).value <= x.value
      BY <1>1, <2>3, <3>1, HeadIsLeast
    <3> QED
      BY <2>3, <3>2 DEF next
  <2> QED
    BY <2>2, <2>3
<1>7. Kernel(u)
  BY <1>3, <1>4, <1>5, <1>6 DEF Kernel, V, SameReady, SameRun, SameClock, SameEvents
<1>8. Sleeping(u) = Sleeping(s)
  BY <1>3 DEF Sleeping
<1>9. SleepOK(u)
  BY <1>3, <1>5, <1>8 DEF SleepOK, SameClock
<1>10. NextOK(u)
  BY <1>3, <1>6 DEF NextOK
<1>11. DueOK(s) => DueOK(u)
  BY <1>3, <1>8 DEF DueOK
<1> QED
  BY <1>3, <1>4, <1>5, <1>7, <1>9, <1>10, <1>11

\* The lists are the same.
SameLists(s, u) ==
  /\ SameReady(s, u) /\ u.top = s.top /\ SameSleep(s, u)
  /\ u.suspended = s.suspended /\ SameEvents(s, u)

LEMMA SteadyFrame ==
  ASSUME NEW s, Steady(s), NEW u, Kernel(u), SameLists(s, u)
  PROVE  Steady(u) /\ Ready(u) = Ready(s)
<1>1. SameReady(s, u) /\ u.top = s.top /\ SameSleep(s, u)
  BY DEF SameLists
<1>2. Ready(u) = Ready(s) /\ (RingsOK(s) => RingsOK(u)) /\ (TopOK(s) /\ u.top = s.top => TopOK(u))
  BY <1>1, ReadyFrame
<1>3. (SleepOK(s) => SleepOK(u)) /\ (DueOK(s) => DueOK(u)) /\ (NextOK(s) => NextOK(u))
  BY <1>1, SleepFrame
<1>4. PlaceOK(s) => PlaceOK(u)
  BY <1>2 DEF PlaceOK, SameLists, SameSleep
<1>5. EventOK(s) => EventOK(u)
  BY <1>2 DEF EventOK, SameLists, SameEvents
<1> QED
  BY <1>1, <1>2, <1>3, <1>4, <1>5 DEF Steady, Lists

\* The current task is ready and no ready task has a higher priority.
AtTop(s) ==
  /\ s.pxCurrentTCB \in Ready(s)
  /\ \A t \in Ready(s) : s.uxPriority[t] <= s.uxPriority[s.pxCurrentTCB]

\* A ring with a task in it has another element than the end marker.
LEMMA RingLen ==
  ASSUME NEW r, Ring(r)
  PROVE  Len(r) \in Nat /\ Len(r) >= 1 /\ \A t \in In(r) : t # End => Len(r) > 1
<1>1. r \in Seq(Tasks \cup {End}) /\ Len(r) \in Nat /\ DOMAIN r = 1 .. Len(r)
  BY DEF Ring
<1>2. PICK i \in 1 .. Len(r) : r[i] = End
  BY <1>1 DEF Ring, In
<1>3. ASSUME NEW t \in In(r), t # End PROVE Len(r) > 1
  <2>1. PICK j \in 1 .. Len(r) : r[j] = t
    BY <1>1 DEF In
  <2> QED
    BY <1>1, <1>2, <1>3, <2>1
<1> QED
  BY <1>1, <1>2, <1>3

\* vTaskSwitchContext with the scheduler running selects a ready task of the
\* highest priority.
LEMMA SwitchIs ==
  ASSUME NEW s, Steady(s), s.uxSchedulerSuspended = 0, NEW u, u = vTaskSwitchContext(s)
  PROVE  /\ Steady(u) /\ AtTop(u) /\ Ready(u) = Ready(s)
         /\ u.uxPriority = s.uxPriority /\ u.uxSchedulerSuspended = 0
         /\ ~u.xYieldPending
         /\ SameClock(s, u) /\ SameEvents(s, u)
<1> DEFINE Best(x) ==
             /\ x <= s.top /\ Len(s.ready[x]) > 1
             /\ \A q \in Levels : x < q /\ q <= s.top => Len(s.ready[q]) = 1
           L == {x \in Levels : x <= s.top /\ Len(s.ready[x]) > 1}
           p == CHOOSE x \in Levels : Best(x)
           ring == NextEntry(s.ready[p])
           prio == s.uxPriority
<1>1. /\ Kernel(s) /\ RingsOK(s) /\ TopOK(s) /\ SleepOK(s) /\ NextOK(s)
      /\ DueOK(s) /\ PlaceOK(s) /\ EventOK(s) /\ Idle \in Ready(s)
  BY DEF Steady, Lists
<1>2. /\ prio \in [Tasks -> Levels] /\ prio[Idle] = 0 /\ Idle \in Tasks
      /\ Levels \subseteq Nat /\ 0 \in Levels /\ End \notin Tasks
      /\ s.top \in Levels
  BY <1>1, PrioritiesAre, Constants DEF Kernel
<1>3. \A x \in Levels : Ring(s.ready[x])
  BY <1>1 DEF RingsOK
<1>4. ASSUME NEW t \in Ready(s)
      PROVE  t \in Tasks /\ t # End /\ t \in In(s.ready[prio[t]]) /\ prio[t] \in L
  <2>1. t \in Tasks /\ t # End /\ t \in In(s.ready[prio[t]]) /\ prio[t] \in Levels
    BY <1>1, <1>2, ReadyAt
  <2>2. Ring(s.ready[prio[t]])
    BY <1>3, <2>1
  <2>3. Len(s.ready[prio[t]]) > 1
    BY <2>1, <2>2, RingLen
  <2>4. prio[t] <= s.top
    BY <1>1 DEF TopOK
  <2> QED
    BY <2>1, <2>3, <2>4
<1>5. PICK b \in L : \A q \in L : q <= b
  <2>1. L # {}
    BY <1>1, <1>4
  <2>2. L \in SUBSET Nat /\ s.top \in Nat /\ \A q \in L : q <= s.top
    BY <1>2
  <2> HIDE DEF L
  <2>3. Highest(L) \in L /\ \A q \in L : q <= Highest(L)
    BY <2>1, <2>2, HighestIs
  <2> QED
    BY <2>3
<1>6. Best(b)
  <2>1. ASSUME NEW q \in Levels, b < q, q <= s.top PROVE Len(s.ready[q]) = 1
    <3>1. q \notin L
      BY <1>2, <1>5, <2>1
    <3>2. Len(s.ready[q]) \in Nat /\ Len(s.ready[q]) >= 1
      BY <1>3, RingLen
    <3>3. ~(Len(s.ready[q]) > 1)
      BY <2>1, <3>1
    <3> DEFINE n == Len(s.ready[q])
    <3> HIDE DEF n
    <3>4. n \in Nat /\ n >= 1 /\ ~(n > 1)
      BY <3>2, <3>3 DEF n
    <3>5. n = 1
      BY <3>4
    <3> QED
      BY <3>5 DEF n
  <2> QED
    BY <1>5, <2>1
<1>7. p \in Levels /\ Best(p)
  <2>1. \E x \in Levels : Best(x)
    BY <1>5, <1>6
  <2> HIDE DEF Best
  <2> QED
    BY <2>1
<1>8. u = [s EXCEPT !.xYieldPending = FALSE, !.ready[p] = ring, !.top = p,
                    !.pxCurrentTCB = Head(ring)]
  BY DEF vTaskSwitchContext
<1> HIDE DEF p
<1>9. Ring(s.ready[p]) /\ Len(s.ready[p]) > 1
  BY <1>3, <1>7
<1> HIDE DEF ring
<1>10. /\ Ring(ring) /\ In(ring) = In(s.ready[p]) /\ Head(ring) \in In(s.ready[p]) \ {End}
  BY <1>9, NextEntryIs DEF ring
<1>11. DOMAIN s = FieldNames /\ s.ready \in [Levels -> Seq(Tasks \cup {End})]
  BY <1>1 DEF Kernel
<1>12. /\ u.ready = [s.ready EXCEPT ![p] = ring] /\ u.top = p /\ u.pxCurrentTCB = Head(ring)
       /\ u.xYieldPending = FALSE
  BY <1>8, <1>11 DEF FieldNames
<1>13. /\ SameSleep(s, u) /\ SameClock(s, u) /\ SameEvents(s, u)
       /\ u.suspended = s.suspended /\ u.uxPriority = s.uxPriority
       /\ u.uxSchedulerSuspended = s.uxSchedulerSuspended /\ DOMAIN u = FieldNames
  BY <1>8, <1>11 DEF FieldNames, SameSleep, SameClock, SameEvents
<1>14. ASSUME NEW q \in Levels PROVE Ring(u.ready[q]) /\ In(u.ready[q]) = In(s.ready[q])
  BY <1>3, <1>10, <1>11, <1>12
<1>15. RingsOK(u)
  BY <1>1, <1>13, <1>14 DEF RingsOK
<1>16. Ready(u) = Ready(s)
  <2>1. \A x : x \in Ready(u) <=> x \in Ready(s)
    BY <1>14 DEF Ready
  <2> QED
    BY <2>1
<1>17. Head(ring) \in Ready(s) /\ prio[Head(ring)] = p
  <2>1. Head(ring) \in Ready(s)
    BY <1>7, <1>10 DEF Ready
  <2>2. prio[Head(ring)] = p
    BY <1>1, <1>7, <1>10 DEF RingsOK
  <2> QED
    BY <2>1, <2>2
<1>18. ASSUME NEW t \in Ready(s) PROVE prio[t] <= p
  <2>1. prio[t] \in L /\ prio[t] \in Nat /\ p \in Nat
    BY <1>2, <1>4, <1>7
  <2>2. ~(p < prio[t])
    <3> SUFFICES ASSUME p < prio[t] PROVE FALSE
      OBVIOUS
    <3> DEFINE n == Len(s.ready[prio[t]])
    <3>1. n = 1
      BY <1>7, <2>1
    <3>2. n > 1
      BY <2>1
    <3> HIDE DEF n
    <3> QED
      BY <3>1, <3>2
  <2> QED
    BY <2>1, <2>2
<1>19. AtTop(u) /\ TopOK(u)
  BY <1>12, <1>13, <1>16, <1>17, <1>18 DEF AtTop, TopOK
<1>20. Kernel(u)
  <2>1. u.pxCurrentTCB \in Tasks
    BY <1>4, <1>12, <1>17
  <2>2. u.ready \in [Levels -> Seq(Tasks \cup {End})]
    BY <1>7, <1>10, <1>11, <1>12 DEF Ring
  <2>3. u.top \in Levels /\ u.xYieldPending \in BOOLEAN
    BY <1>7, <1>12
  <2> QED
    BY <1>1, <1>13, <2>1, <2>2, <2>3 DEF Kernel, SameSleep, SameClock, SameEvents
<1>21. SleepOK(u) /\ DueOK(u) /\ NextOK(u)
  BY <1>1, <1>13, SleepFrame
<1>22. PlaceOK(u)
  BY <1>1, <1>13, <1>16 DEF PlaceOK, SameSleep
<1>23. EventOK(u)
  BY <1>1, <1>13, <1>16 DEF EventOK, SameEvents
<1>24. Steady(u)
  BY <1>1, <1>15, <1>16, <1>19, <1>20, <1>21, <1>22, <1>23 DEF Steady, Lists
<1> QED
  BY <1>12, <1>13, <1>16, <1>19, <1>24

\* With the scheduler suspended the switch is left pending.
LEMMA SuspendedSwitchIs ==
  ASSUME NEW s, Steady(s), s.uxSchedulerSuspended # 0, NEW u, u = vTaskSwitchContext(s)
  PROVE  /\ Steady(u) /\ Ready(u) = Ready(s) /\ u.xYieldPending
         /\ u.uxPriority = s.uxPriority /\ u.pxCurrentTCB = s.pxCurrentTCB
         /\ u.uxSchedulerSuspended = s.uxSchedulerSuspended
         /\ SameClock(s, u) /\ SameEvents(s, u)
<1>1. u = [s EXCEPT !.xYieldPending = TRUE]
  BY DEF vTaskSwitchContext
<1>2. Kernel(s) /\ DOMAIN s = FieldNames
  BY DEF Steady, Lists, Kernel
<1>3. /\ u.xYieldPending = TRUE /\ DOMAIN u = FieldNames
      /\ u.uxPriority = s.uxPriority /\ u.pxCurrentTCB = s.pxCurrentTCB
      /\ u.uxSchedulerSuspended = s.uxSchedulerSuspended
  BY <1>1, <1>2 DEF FieldNames
<1>4. SameClock(s, u) /\ SameLists(s, u) /\ SameEvents(s, u)
  BY <1>1, <1>2 DEF FieldNames, SameClock, SameLists, SameReady, SameSleep, SameEvents
<1>5. Kernel(u)
  BY <1>2, <1>3, <1>4 DEF Kernel, SameClock, SameLists, SameReady, SameSleep, SameEvents
<1>6. Steady(u) /\ Ready(u) = Ready(s)
  BY <1>4, <1>5, SteadyFrame
<1> QED
  BY <1>3, <1>4, <1>6

-----------------------------------------------------------------------------
(* The tick. *)

LEMMA ModParts ==
  ASSUME NEW n \in Nat, n > 0, NEW a \in Nat
  PROVE  a = n * (a \div n) + (a % n) /\ a \div n \in Nat /\ a % n \in 0 .. n - 1
  OBVIOUS

LEMMA ModOfParts ==
  ASSUME NEW n \in Nat, n > 0, NEW q \in Nat, NEW r \in 0 .. n - 1
  PROVE  (n * q + r) % n = r
  OBVIOUS

LEMMA ModAdd ==
  ASSUME NEW n \in Nat, n > 0, NEW a \in Nat, NEW b \in Nat
  PROVE  ((a % n) + b) % n = (a + b) % n
<1> DEFINE q == a \div n
           r == a % n
           q2 == (r + b) \div n
           r2 == (r + b) % n
<1>1. a = n * q + r /\ q \in Nat /\ r \in Nat
  BY ModParts
<1> HIDE DEF q, r
<1>2. r + b = n * q2 + r2 /\ q2 \in Nat /\ r2 \in 0 .. n - 1
  <2>1. r + b \in Nat
    BY <1>1
  <2> QED
    BY <2>1, ModParts
<1> HIDE DEF q2, r2
<1>3. a + b = n * (q + q2) + r2 /\ q + q2 \in Nat
  <2>1. a + b = n * q + n * q2 + r2
    BY <1>1, <1>2
  <2>2. n * q + n * q2 = n * (q + q2)
    BY <1>1, <1>2
  <2> QED
    BY <1>1, <1>2, <2>1, <2>2
<1>4. (n * (q + q2) + r2) % n = r2
  BY <1>2, <1>3, ModOfParts
<1> QED
  BY <1>3, <1>4 DEF r2, r

\* The next value of the tick counter.
LEMMA TickIs ==
  ASSUME NEW x \in 0 .. W - 1
  PROVE  /\ (x + 1) % W \in 0 .. W - 1
         /\ x < W - 1 => (x + 1) % W = x + 1
         /\ x = W - 1 => (x + 1) % W = 0
<1>1. W \in Nat /\ W > 1
  BY Constants
<1>2. (x + 1) % W \in 0 .. W - 1
  BY <1>1
<1>3. ASSUME x < W - 1 PROVE (x + 1) % W = x + 1
  BY <1>1, <1>3
<1>4. ASSUME x = W - 1 PROVE (x + 1) % W = 0
  <2>1. x + 1 = W /\ W % W = 0
    BY <1>1, <1>4
  <2> QED
    BY <2>1
<1> QED
  BY <1>2, <1>3, <1>4

\* Between the step of the clock and the wake-ups some tasks may be due.
Ticking(s) == Lists(s) /\ PlaceOK(s) /\ EventOK(s) /\ Idle \in Ready(s)

\* The clock moves; the delayed lists change places when the counter wraps, and
\* then the current list was empty.
LEMMA AdvanceIs ==
  ASSUME NEW s, Steady(s), NEW u, u = AdvanceTick(s)
  PROVE  /\ Ticking(u) /\ Ready(u) = Ready(s)
         /\ SameRun(s, u) /\ SameEvents(s, u)
         /\ u.xTickCount = (s.xTickCount + 1) % W /\ u.xPendedTicks = s.xPendedTicks
<1> DEFINE tick == (s.xTickCount + 1) % W
           V == 0 .. W - 1
           left == [t \in Tasks |-> IF s.left[t] > 0 THEN s.left[t] - 1 ELSE 0]
           aged == [s EXCEPT !.xTickCount = tick, !.left = left]
           turned == [aged EXCEPT !.delayed = s.overflow, !.overflow = s.delayed]
<1>1. /\ Kernel(s) /\ RingsOK(s) /\ TopOK(s) /\ SleepOK(s) /\ NextOK(s)
      /\ DueOK(s) /\ PlaceOK(s) /\ EventOK(s) /\ Idle \in Ready(s)
  BY DEF Steady, Lists
<1>2. /\ W \in Nat /\ W > 1 /\ s.xTickCount \in V
      /\ s.delayed \in Items(V) /\ s.overflow \in Items(V) /\ s.left \in [Tasks -> V]
      /\ DOMAIN s = FieldNames
  BY <1>1, Constants DEF Kernel
<1>3. tick \in V /\ (s.xTickCount < W - 1 => tick = s.xTickCount + 1)
                 /\ (s.xTickCount = W - 1 => tick = 0)
  BY <1>2, TickIs
<1>4. left \in [Tasks -> V]
  <2>1. ASSUME NEW t \in Tasks PROVE left[t] \in V
    BY <1>2
  <2> QED
    BY <2>1
<1>5. ASSUME NEW t \in Sleeping(s)
      PROVE  t \in Tasks /\ left[t] = s.left[t] - 1 /\ s.left[t] \in Nat /\ s.left[t] > 0
  <2>1. t \in Tasks
    BY <1>2, ItemsAre DEF Sleeping
  <2>2. s.left[t] > 0 /\ s.left[t] \in V
    BY <1>1, <1>2, <2>1 DEF DueOK
  <2> QED
    BY <2>1, <2>2
<1>6. ASSUME NEW t \in Tasks \ Sleeping(s) PROVE left[t] = 0
  BY <1>1 DEF SleepOK
<1>7. /\ \A x \in In(s.delayed) :
           x.owner \in Sleeping(s) /\ x.value \in V /\ x.value = s.xTickCount + s.left[x.owner]
      /\ \A x \in In(s.overflow) :
           x.owner \in Sleeping(s) /\ x.value \in V /\ x.value + W = s.xTickCount + s.left[x.owner]
  <2>1. \A x \in In(s.delayed) : x.owner \in Owners(s.delayed) /\ x.value \in V
    BY <1>2, ItemsAre
  <2>2. \A x \in In(s.overflow) : x.owner \in Owners(s.overflow) /\ x.value \in V
    BY <1>2, ItemsAre
  <2> QED
    BY <1>1, <2>1, <2>2 DEF SleepOK, Sleeping
<1>8. u = IF tick # 0 THEN aged ELSE prvResetNextTaskUnblockTime(turned)
  BY DEF AdvanceTick
<1> HIDE DEF tick, left
<1>9. CASE s.xTickCount < W - 1
  <2>1. u = aged /\ tick = s.xTickCount + 1
    BY <1>2, <1>3, <1>8, <1>9
  <2>2. /\ u.xTickCount = tick /\ u.left = left /\ DOMAIN u = FieldNames
        /\ u.delayed = s.delayed /\ u.overflow = s.overflow /\ u.suspended = s.suspended
        /\ u.xNextTaskUnblockTime = s.xNextTaskUnblockTime
        /\ u.xPendedTicks = s.xPendedTicks
    BY <1>2, <2>1 DEF FieldNames
  <2>3. SameReady(s, u) /\ u.top = s.top /\ SameRun(s, u) /\ SameEvents(s, u)
    BY <1>2, <2>1 DEF FieldNames, SameReady, SameRun, SameEvents
  <2>4. Kernel(u)
    BY <1>1, <1>3, <1>4, <2>2, <2>3 DEF Kernel, SameReady, SameRun, SameEvents
  <2>5. Ready(u) = Ready(s) /\ RingsOK(u) /\ TopOK(u)
    BY <1>1, <2>3, ReadyFrame
  <2>6. Sleeping(u) = Sleeping(s)
    BY <2>2 DEF Sleeping
  <2>7. SleepOK(u)
    <3>1. ASSUME NEW x \in In(s.delayed) PROVE x.value = tick + left[x.owner]
      <4>1. x.value \in V /\ x.value = s.xTickCount + s.left[x.owner]
            /\ left[x.owner] = s.left[x.owner] - 1 /\ s.left[x.owner] \in Nat
        BY <1>5, <1>7
      <4> QED
        BY <1>2, <2>1, <4>1
    <3>2. ASSUME NEW x \in In(s.overflow) PROVE x.value + W = tick + left[x.owner]
      <4>1. x.value \in V /\ x.value + W = s.xTickCount + s.left[x.owner]
            /\ left[x.owner] = s.left[x.owner] - 1 /\ s.left[x.owner] \in Nat
        BY <1>5, <1>7
      <4> QED
        BY <1>2, <2>1, <4>1
    <3>3. \A t \in Tasks \ Sleeping(u) : u.left[t] = 0
      BY <1>6, <2>2, <2>6
    <3>4. /\ Sorted(u.delayed) /\ DistinctOwners(u.delayed)
          /\ Sorted(u.overflow) /\ DistinctOwners(u.overflow)
      BY <1>1, <2>2 DEF SleepOK
    <3>5. \A x \in In(u.delayed) : x.value = u.xTickCount + u.left[x.owner]
      BY <2>2, <3>1
    <3>6. \A x \in In(u.overflow) : x.value + W = u.xTickCount + u.left[x.owner]
      BY <2>2, <3>2
    <3> QED
      BY <3>3, <3>4, <3>5, <3>6 DEF SleepOK
  <2>8. NextOK(u)
    BY <1>1, <2>2 DEF NextOK
  <2>9. PlaceOK(u) /\ EventOK(u)
    BY <1>1, <2>2, <2>3, <2>5 DEF PlaceOK, EventOK, SameEvents
  <2> QED
    BY <1>1, <2>2, <2>3, <2>4, <2>5, <2>7, <2>8, <2>9 DEF Ticking, Lists, tick
<1>10. CASE s.xTickCount = W - 1
  <2> DEFINE v == turned
  <2>1. u = prvResetNextTaskUnblockTime(v) /\ tick = 0
    BY <1>3, <1>8, <1>10
  <2>2. /\ v.xTickCount = tick /\ v.left = left /\ DOMAIN v = FieldNames
        /\ v.delayed = s.overflow /\ v.overflow = s.delayed /\ v.suspended = s.suspended
        /\ v.xNextTaskUnblockTime = s.xNextTaskUnblockTime
        /\ v.xPendedTicks = s.xPendedTicks
    BY <1>2 DEF FieldNames
  <2>3. SameReady(s, v) /\ v.top = s.top /\ SameRun(s, v) /\ SameEvents(s, v)
    BY <1>2 DEF FieldNames, SameReady, SameRun, SameEvents
  <2> HIDE DEF v
  <2>4. Kernel(v)
    BY <1>1, <1>3, <1>4, <2>2, <2>3 DEF Kernel, SameReady, SameRun, SameEvents
  <2>5. In(s.delayed) = {}
    <3> SUFFICES ASSUME NEW x \in In(s.delayed) PROVE FALSE
      OBVIOUS
    <3>1. x.value \in V /\ x.value = s.xTickCount + s.left[x.owner] /\ s.left[x.owner] \in Nat
          /\ s.left[x.owner] > 0
      BY <1>5, <1>7
    <3> QED
      BY <1>2, <1>10, <3>1
  <2>6. Sleeping(v) = Sleeping(s)
    BY <2>2 DEF Sleeping
  <2>7. SleepOK(v)
    <3>1. ASSUME NEW x \in In(v.delayed) PROVE x.value = v.xTickCount + v.left[x.owner]
      <4>1. x \in In(s.overflow)
        BY <2>2
      <4>2. x.value \in V /\ x.value + W = s.xTickCount + s.left[x.owner]
            /\ left[x.owner] = s.left[x.owner] - 1 /\ s.left[x.owner] \in Nat
        BY <1>5, <1>7, <4>1
      <4> QED
        BY <1>2, <1>10, <2>1, <2>2, <4>2
    <3>2. \A x \in In(v.overflow) : x.value + W = v.xTickCount + v.left[x.owner]
      BY <2>2, <2>5
    <3>3. \A t \in Tasks \ Sleeping(v) : v.left[t] = 0
      BY <1>6, <2>2, <2>6
    <3>4. /\ Sorted(v.delayed) /\ DistinctOwners(v.delayed)
          /\ Sorted(v.overflow) /\ DistinctOwners(v.overflow)
      BY <1>1, <2>2 DEF SleepOK
    <3> QED
      BY <3>1, <3>2, <3>3, <3>4 DEF SleepOK
  <2>8. /\ Kernel(u) /\ SleepOK(u) /\ NextOK(u)
        /\ u.delayed = v.delayed /\ u.overflow = v.overflow /\ u.suspended = v.suspended
        /\ SameReady(v, u) /\ u.top = v.top
        /\ SameRun(v, u) /\ SameClock(v, u) /\ SameEvents(v, u)
    BY <2>1, <2>4, <2>7, ResetIs
  <2>9. SameReady(s, u) /\ u.top = s.top /\ SameRun(s, u) /\ SameEvents(s, u)
    BY <2>3, <2>8 DEF SameReady, SameRun, SameEvents
  <2>10. Ready(u) = Ready(s) /\ RingsOK(u) /\ TopOK(u)
    BY <1>1, <2>9, ReadyFrame
  <2>11. Owners(u.delayed) = Owners(s.overflow) /\ Owners(u.overflow) = Owners(s.delayed)
         /\ u.suspended = s.suspended
    BY <2>2, <2>8
  <2>12. PlaceOK(u)
    BY <1>1, <2>10, <2>11 DEF PlaceOK, Placed
  <2>13. EventOK(u)
    BY <1>1, <2>9, <2>10 DEF EventOK, SameEvents
  <2>14. u.xTickCount = tick /\ u.xPendedTicks = s.xPendedTicks
    BY <2>2, <2>8 DEF SameClock
  <2> QED
    BY <1>1, <2>8, <2>9, <2>10, <2>12, <2>13, <2>14 DEF Ticking, Lists, tick
<1> QED
  BY <1>2, <1>9, <1>10

\* The first n items of the list have had their time, the others have not.
Due(s, n) ==
  /\ n \in 0 .. Len(s.delayed)
  /\ \A i \in 1 .. n : s.delayed[i].value <= s.xTickCount
  /\ \A i \in n + 1 .. Len(s.delayed) : s.delayed[i].value > s.xTickCount

LEMMA ExpiredIs ==
  ASSUME NEW s, Lists(s)
  PROVE  Due(s, Expired(s))
<1> DEFINE d == s.delayed
           N == Len(d)
           x == s.xTickCount
           V == 0 .. W - 1
           First(n) == /\ \A i \in 1 .. n : d[i].value <= x
                       /\ n < N => d[n + 1].value > x
           T == {n \in 0 .. N : n < N => d[n + 1].value > x}
<1>1. d \in Items(V) /\ Sorted(d) /\ x \in V /\ s.xNextTaskUnblockTime \in V
      /\ W \in Nat /\ NextOK(s)
  BY Constants DEF Lists, Kernel, SleepOK
<1>2. N \in Nat /\ DOMAIN d = 1 .. N
  BY <1>1 DEF Items
<1>3. \A i \in 1 .. N : d[i].value \in Int /\ d[i] \in In(d)
  <2>1. V \in SUBSET Int
    BY <1>1
  <2> HIDE DEF V, d, N
  <2>2. \A y \in In(d) : y.value \in V
    BY <1>1, ItemsAre
  <2> QED
    BY <1>2, <2>1, <2>2 DEF In
<1>4. x \in Int
  BY <1>1
<1>5. CASE x < s.xNextTaskUnblockTime
  <2>1. Expired(s) = 0
    BY <1>5 DEF Expired
  <2>2. ASSUME NEW i \in 1 .. N PROVE d[i].value > x
    <3>1. s.xNextTaskUnblockTime <= d[i].value
      BY <1>1, <1>3 DEF NextOK
    <3>2. s.xNextTaskUnblockTime \in Int /\ d[i].value \in Int
      BY <1>1, <1>3
    <3> QED
      BY <1>4, <1>5, <3>1, <3>2
  <2> QED
    BY <1>2, <2>1, <2>2 DEF Due
<1>6. CASE ~(x < s.xNextTaskUnblockTime)
  <2>1. PICK m \in T : \A y \in T : m <= y
    <3>1. N \in T /\ T \in SUBSET Nat
      BY <1>2
    <3> HIDE DEF T
    <3> QED
      BY <3>1, NatMin
  <2>2. First(m)
    <3>1. ASSUME NEW i \in 1 .. m PROVE d[i].value <= x
      <4>0. m \in 0 .. N /\ \A y \in T : m <= y
        BY <2>1
      <4>1. i - 1 \in 0 .. N /\ i - 1 \notin T /\ i \in 1 .. N
        <5> HIDE DEF T, N
        <5>1. i - 1 \in 0 .. N /\ i \in 1 .. N /\ ~(m <= i - 1)
          BY <1>2, <4>0
        <5> QED
          BY <4>0, <5>1
      <4>2. (i - 1) + 1 = i
        OBVIOUS
      <4>3. ~(d[i].value > x)
        BY <4>1, <4>2
      <4>4. d[i].value \in Int
        BY <1>3, <4>1
      <4> HIDE DEF d, x
      <4> QED
        BY <1>4, <4>3, <4>4
    <3> QED
      BY <2>1, <3>1
  <2>3. Expired(s) = CHOOSE n \in 0 .. N : First(n)
    BY <1>6 DEF Expired
  <2>4. Expired(s) \in 0 .. N /\ First(Expired(s))
    <3>1. \E n \in 0 .. N : First(n)
      BY <2>1, <2>2
    <3> HIDE DEF First, N
    <3> QED
      BY <2>3, <3>1
  <2> DEFINE n == Expired(s)
  <2> HIDE DEF n
  <2>5. n \in 0 .. N /\ First(n)
    BY <2>4 DEF n
  <2>6. ASSUME NEW i \in n + 1 .. N PROVE d[i].value > x
    <3>1. n < N /\ n + 1 \in 1 .. N /\ i \in 1 .. N /\ n + 1 <= i
      BY <1>2, <2>5
    <3>2. d[n + 1].value > x
      BY <2>5, <3>1
    <3>3. d[n + 1].value <= d[i].value
      BY <1>1, <1>2, <3>1 DEF Sorted
    <3>4. d[n + 1].value \in Int /\ d[i].value \in Int
      BY <1>3, <3>1
    <3> HIDE DEF d, x
    <3> QED
      BY <1>4, <3>2, <3>3, <3>4
  <2> QED
    BY <2>5, <2>6 DEF Due, n
<1> QED
  BY <1>5, <1>6

Rest(s, n) == SubSeq(s, n + 1, Len(s))

RestOf(f, s, n) == Len(f) = Len(s) - n /\ \A i \in 1 .. Len(s) - n : f[i] = s[i + n]

LEMMA RestIs ==
  ASSUME NEW S, NEW s \in Seq(S), NEW n \in 0 .. Len(s)
  PROVE  Rest(s, n) \in Seq(S) /\ RestOf(Rest(s, n), s, n)
<1>1. Len(s) \in Nat /\ n \in Nat /\ n <= Len(s)
  OBVIOUS
<1> QED
  BY <1>1 DEF Rest, RestOf

\* f is what is left of s behind its first n items.
Behind(f, s, n) ==
  /\ \A x \in In(f) : \E i \in n + 1 .. Len(s) : x = s[i]
  /\ \A i \in n + 1 .. Len(s) : s[i] \in In(f)

LEMMA BehindIs ==
  ASSUME NEW V, NEW s \in Items(V), DistinctOwners(s), NEW n \in 0 .. Len(s),
         NEW f, f = Rest(s, n)
  PROVE  /\ f \in Items(V) /\ DistinctOwners(f) /\ (Sorted(s) => Sorted(f))
         /\ Behind(f, s, n)
<1> DEFINE R == [owner : Tasks, value : V]
           m == Len(s)
<1>1. s \in Seq(R)
  BY DEF Items
<1> HIDE DEF R
<1>2. m \in Nat /\ n \in Nat /\ n <= m /\ DOMAIN s = 1 .. m
  BY <1>1
<1>3. f \in Seq(R) /\ Len(f) = m - n /\ \A i \in 1 .. m - n : f[i] = s[i + n]
  <2>1. f \in Seq(R) /\ RestOf(f, s, n)
    BY <1>1, RestIs
  <2> QED
    BY <2>1 DEF RestOf
<1>30. DOMAIN f = 1 .. m - n
  <2> HIDE DEF m
  <2> QED
    BY <1>2, <1>3
<1> HIDE DEF m
<1>4. \A i \in DOMAIN f : i + n \in DOMAIN s /\ f[i] = s[i + n] /\ i \in Nat
  BY <1>2, <1>3, <1>30
<1>5. DistinctOwners(f)
  <2>1. ASSUME NEW i \in DOMAIN f, NEW j \in DOMAIN f, f[i].owner = f[j].owner PROVE i = j
    <3>1. i + n = j + n
      BY <1>4, <2>1 DEF DistinctOwners
    <3> QED
      BY <1>4, <3>1
  <2> QED
    BY <2>1 DEF DistinctOwners
<1>6. Sorted(s) => Sorted(f)
  <2>1. ASSUME Sorted(s), NEW i \in DOMAIN f, NEW j \in DOMAIN f, i <= j
        PROVE  f[i].value <= f[j].value
    <3>1. i + n <= j + n
      BY <1>4, <2>1
    <3> QED
      BY <1>4, <2>1, <3>1 DEF Sorted
  <2> QED
    BY <2>1 DEF Sorted
<1>7. Behind(f, s, n)
  <2>1. ASSUME NEW x \in In(f) PROVE \E i \in n + 1 .. m : x = s[i]
    <3>1. PICK j \in DOMAIN f : x = f[j]
      BY DEF In
    <3>2. j + n \in n + 1 .. m /\ x = s[j + n]
      BY <1>2, <1>3, <1>30, <3>1
    <3> QED
      BY <3>2
  <2>2. ASSUME NEW i \in n + 1 .. m PROVE s[i] \in In(f)
    <3>1. i - n \in DOMAIN f /\ (i - n) + n = i
      BY <1>2, <1>30
    <3>2. f[i - n] = s[i]
      BY <1>4, <3>1
    <3> QED
      BY <3>1, <3>2 DEF In
  <2> QED
    BY <2>1, <2>2 DEF Behind, m
<1> QED
  BY <1>3, <1>5, <1>6, <1>7 DEF Items, R

\* The tasks that a tick wakes.
Woken(s) == {s.delayed[i].owner : i \in 1 .. Expired(s)}

\* The loop over the delayed list wakes the tasks that are due, and no other.
LEMMA UnblockIs ==
  ASSUME NEW s, Ticking(s), s.pending = <<>>, NEW u, u = Unblock(s)
  PROVE  /\ Steady(u) /\ Ready(u) = Ready(s) \cup Woken(s)
         /\ SameRun(s, u) /\ SameClock(s, u) /\ u.pending = <<>>
<1> DEFINE d == s.delayed
           N == Len(d)
           n == Expired(s)
           V == 0 .. W - 1
           x == s.xTickCount
           woken == [i \in 1 .. n |-> s.delayed[i].owner]
           rest == [s EXCEPT !.delayed = SubSeq(s.delayed, n + 1, Len(s.delayed)),
                             !.events = Drop(s.events, In(woken))]
<1>1. /\ Kernel(s) /\ RingsOK(s) /\ TopOK(s) /\ SleepOK(s) /\ NextOK(s)
      /\ PlaceOK(s) /\ EventOK(s) /\ Idle \in Ready(s) /\ Lists(s)
  BY DEF Ticking, Lists
<1>2. /\ W \in Nat /\ W > 1 /\ x \in V /\ d \in Items(V) /\ s.overflow \in Items(V)
      /\ s.events \in Items(Int) /\ s.left \in [Tasks -> V] /\ DOMAIN s = FieldNames
      /\ DistinctOwners(d) /\ Sorted(d) /\ DistinctOwners(s.events)
  BY <1>1, Constants DEF Kernel, SleepOK, EventOK
<1>3. Due(s, n)
  BY <1>1, ExpiredIs
<1>4. N \in Nat /\ DOMAIN d = 1 .. N
  BY <1>2 DEF Items
<1>5. \A y \in In(d) : y.owner \in Tasks /\ y.value \in V /\ y.value = x + s.left[y.owner]
                       /\ s.left[y.owner] \in V
  <2>1. \A y \in In(d) : y.owner \in Tasks /\ y.value \in V
    <3> HIDE DEF V, d
    <3> QED
      BY <1>2, ItemsAre
  <2> QED
    BY <1>1, <1>2, <2>1 DEF SleepOK
<1>6. \A i \in 1 .. N : d[i] \in In(d) /\ d[i].owner \in Tasks /\ d[i].owner \in Owners(d)
  BY <1>4, <1>5 DEF In, Owners
<1> HIDE DEF n
<1>7. n \in 0 .. N /\ \A i \in 1 .. n : i \in 1 .. N
  BY <1>3, <1>4 DEF Due
<1>8. /\ woken \in Seq(Tasks) /\ Distinct(woken) /\ In(woken) = Woken(s)
      /\ In(woken) \subseteq Owners(d)
  <2>1. \A i \in 1 .. n : woken[i] \in Tasks
    BY <1>6, <1>7
  <2>2. woken \in Seq(Tasks) /\ DOMAIN woken = 1 .. n
    BY <1>4, <1>7, <2>1
  <2>3. Distinct(woken)
    BY <1>2, <1>4, <1>7 DEF Distinct, DistinctOwners
  <2>4. In(woken) = Woken(s)
    BY DEF In, Woken, n
  <2>5. In(woken) \subseteq Owners(d)
    BY <1>6, <1>7, <2>2 DEF In
  <2> QED
    BY <2>2, <2>3, <2>4, <2>5
<1>9. /\ \A i \in 1 .. n : d[i].owner \in In(woken)
      /\ \A t \in In(woken) : \E i \in 1 .. n : d[i].owner = t
  BY DEF In
<1>10. u = IF x < s.xNextTaskUnblockTime THEN s
           ELSE AddToReadyLists(prvResetNextTaskUnblockTime(rest), woken)
  BY DEF Unblock, n
<1>11. ASSUME NEW t \in Owners(s.overflow) PROVE s.left[t] > 0
  <2>1. PICK y \in In(s.overflow) : t = y.owner
    BY DEF Owners, In
  <2>2. y.owner \in Tasks /\ y.value \in V
    <3> HIDE DEF V
    <3> QED
      BY <1>2, ItemsAre
  <2>3. y.value + W = x + s.left[t] /\ s.left[t] \in V
    BY <1>1, <1>2, <2>1, <2>2 DEF SleepOK
  <2> QED
    BY <1>2, <2>2, <2>3
<1>12. ASSUME NEW i \in n + 1 .. N PROVE d[i].owner \in Tasks /\ s.left[d[i].owner] > 0
  <2>1. i \in 1 .. N /\ d[i].value > x
    BY <1>3, <1>4, <1>7 DEF Due
  <2>2. d[i] \in In(d)
    BY <1>6, <2>1
  <2>3. d[i].value = x + s.left[d[i].owner] /\ s.left[d[i].owner] \in V /\ d[i].owner \in Tasks
    BY <1>5, <2>2
  <2> QED
    BY <1>2, <2>1, <2>3
<1>13. ASSUME NEW i \in 1 .. n PROVE s.left[d[i].owner] = 0
  <2>1. i \in 1 .. N /\ d[i].value <= x
    BY <1>3, <1>7 DEF Due
  <2>2. d[i] \in In(d)
    BY <1>6, <2>1
  <2>3. d[i].value = x + s.left[d[i].owner] /\ s.left[d[i].owner] \in V
    BY <1>5, <2>2
  <2> QED
    BY <1>2, <2>1, <2>3
<1> HIDE DEF woken
<1>14. CASE x < s.xNextTaskUnblockTime
  <2>1. u = s /\ n = 0
    BY <1>10, <1>14 DEF n, Expired
  <2>2. Woken(s) = {}
    BY <2>1 DEF Woken, n
  <2>3. DueOK(s)
    <3> SUFFICES ASSUME NEW t \in Sleeping(s) PROVE s.left[t] > 0
      BY DEF DueOK
    <3>1. CASE t \in Owners(s.overflow)
      BY <1>11, <3>1
    <3>2. CASE t \in Owners(d)
      <4>1. PICK i \in 1 .. N : t = d[i].owner
        BY <1>4, <3>2 DEF Owners
      <4>2. i \in n + 1 .. N
        BY <1>4, <2>1
      <4> QED
        BY <1>12, <4>1, <4>2
    <3> QED
      BY <3>1, <3>2 DEF Sleeping
  <2>4. Steady(s)
    BY <1>1, <2>3 DEF Steady
  <2> QED
    BY <2>1, <2>2, <2>4 DEF SameRun, SameClock
<1>15. CASE ~(x < s.xNextTaskUnblockTime)
  <2> DEFINE f == SubSeq(d, n + 1, N)
             e == Drop(s.events, In(woken))
             r == rest
             v == prvResetNextTaskUnblockTime(r)
  <2>1. v = prvResetNextTaskUnblockTime(r) /\ u = AddToReadyLists(v, woken)
    BY <1>10, <1>15
  <2>2. f \in Items(V) /\ DistinctOwners(f) /\ Sorted(f) /\ Behind(f, d, n)
    <3>1. f = Rest(d, n) /\ n \in 0 .. Len(d)
      BY <1>7 DEF Rest
    <3> HIDE DEF V, d, f, N
    <3> QED
      BY <1>2, <3>1, BehindIs
  <2>3. e \in Items(Int) /\ DistinctOwners(e) /\ Owners(e) = Owners(s.events) \ In(woken)
    <3> HIDE DEF e
    <3>1. e = Drop(s.events, In(woken))
      BY DEF e
    <3> QED
      BY <1>2, <3>1, DropIs
  <2>4. /\ r.delayed = f /\ r.events = e /\ r.overflow = s.overflow /\ r.left = s.left
        /\ r.suspended = s.suspended /\ r.pending = s.pending /\ r.top = s.top
        /\ r.xNextTaskUnblockTime = s.xNextTaskUnblockTime /\ DOMAIN r = FieldNames
    BY <1>2 DEF FieldNames
  <2>5. SameReady(s, r) /\ SameRun(s, r) /\ SameClock(s, r)
    BY <1>2 DEF FieldNames, SameReady, SameRun, SameClock
  <2> HIDE DEF r, f, e, v
  <2>6. Kernel(r)
    BY <1>1, <2>2, <2>3, <2>4, <2>5 DEF Kernel, V, SameReady, SameRun, SameClock
  <2>7. Owners(f) = Owners(d) \ In(woken)
    <3>1. \A t : t \in Owners(f) <=> \E i \in n + 1 .. N : t = d[i].owner
      <4>1. Owners(f) = {y.owner : y \in In(f)}
        <5> HIDE DEF V
        <5> QED
          BY <2>2, ItemsAre
      <4>2. \A y \in In(f) : \E i \in n + 1 .. N : y = d[i]
        BY <2>2 DEF Behind
      <4>3. \A i \in n + 1 .. N : d[i] \in In(f)
        BY <2>2 DEF Behind
      <4> QED
        BY <4>1, <4>2, <4>3
    <3>2. ASSUME NEW t \in Owners(f) PROVE t \in Owners(d) \ In(woken)
      <4>1. PICK i \in n + 1 .. N : t = d[i].owner
        BY <3>1
      <4>2. i \in 1 .. N /\ \A j \in 1 .. n : j \in 1 .. N /\ i # j
        BY <1>4, <1>7
      <4>3. t \in Owners(d)
        BY <1>6, <4>1, <4>2
      <4>4. ASSUME t \in In(woken) PROVE FALSE
        <5>1. PICK j \in 1 .. n : d[j].owner = t
          BY <1>9, <4>4
        <5> QED
          BY <1>2, <1>4, <4>1, <4>2, <5>1 DEF DistinctOwners
      <4> QED
        BY <4>3, <4>4
    <3>3. ASSUME NEW t \in Owners(d) \ In(woken) PROVE t \in Owners(f)
      <4>1. PICK i \in 1 .. N : t = d[i].owner
        BY <1>4 DEF Owners
      <4>2. i \notin 1 .. n
        BY <1>9, <4>1
      <4>3. i \in n + 1 .. N
        BY <1>4, <1>7, <4>2
      <4> QED
        BY <3>1, <4>1, <4>3
    <3> QED
      BY <3>2, <3>3
  <2>8. \A t \in Owners(f) : t \in Tasks /\ s.left[t] > 0
    <3>1. \A y \in In(f) : \E i \in n + 1 .. N : y = d[i]
      BY <2>2 DEF Behind
    <3>2. Owners(f) = {y.owner : y \in In(f)}
      <4> HIDE DEF V
      <4> QED
        BY <2>2, ItemsAre
    <3>3. ASSUME NEW t \in Owners(f) PROVE t \in Tasks /\ s.left[t] > 0
      <4>1. PICK y \in In(f) : t = y.owner
        BY <3>2
      <4>2. PICK i \in n + 1 .. N : y = d[i]
        BY <3>1
      <4> QED
        BY <1>12, <4>1, <4>2
    <3> QED
      BY <3>3
  <2>9. SleepOK(r)
    <3>1. \A y \in In(f) : y \in In(d)
      <4>1. \A y \in In(f) : \E i \in n + 1 .. N : y = d[i]
        BY <2>2 DEF Behind
      <4>2. \A i \in n + 1 .. N : i \in 1 .. N
        BY <1>4, <1>7
      <4> QED
        BY <1>6, <4>1, <4>2
    <3>2. r.xTickCount = s.xTickCount
      BY <2>5 DEF SameClock
    <3>3. \A y \in In(r.delayed) : y.value = r.xTickCount + r.left[y.owner]
      BY <1>5, <2>4, <3>1, <3>2
    <3>4. \A y \in In(r.overflow) : y.value + W = r.xTickCount + r.left[y.owner]
      BY <1>1, <2>4, <3>2 DEF SleepOK
    <3>5. ASSUME NEW t \in Tasks \ Sleeping(r) PROVE r.left[t] = 0
      <4>1. t \notin Owners(f) /\ t \notin Owners(s.overflow)
        BY <2>4 DEF Sleeping
      <4>2. CASE t \in In(woken)
        BY <1>9, <1>13, <2>4, <4>2
      <4>3. CASE t \notin Sleeping(s)
        BY <1>1, <2>4, <4>3 DEF SleepOK
      <4> QED
        BY <2>7, <4>1, <4>2, <4>3 DEF Sleeping
    <3>6. /\ Sorted(r.delayed) /\ DistinctOwners(r.delayed)
          /\ Sorted(r.overflow) /\ DistinctOwners(r.overflow)
      BY <1>1, <2>2, <2>4 DEF SleepOK
    <3> QED
      BY <3>3, <3>4, <3>5, <3>6 DEF SleepOK
  <2>10. DueOK(r)
    BY <1>11, <2>4, <2>8 DEF DueOK, Sleeping
  <2>11. /\ Kernel(v) /\ SleepOK(v) /\ NextOK(v) /\ DueOK(v)
         /\ v.delayed = r.delayed /\ v.overflow = r.overflow /\ v.suspended = r.suspended
         /\ SameReady(r, v) /\ v.top = r.top
         /\ SameRun(r, v) /\ SameClock(r, v) /\ SameEvents(r, v)
    BY <2>1, <2>6, <2>9, <2>10, ResetIs
  <2>12. SameReady(s, v) /\ v.top = s.top /\ SameRun(s, v) /\ SameClock(s, v)
    BY <2>4, <2>5, <2>11 DEF SameReady, SameRun, SameClock
  <2>13. Ready(v) = Ready(s) /\ RingsOK(v) /\ TopOK(v)
    BY <1>1, <2>12, ReadyFrame
  <2>14. Lists(v)
    BY <2>11, <2>13 DEF Lists
  <2>15. \A t \in In(woken) : t \in Owners(d) /\ t \notin Ready(s) /\ t \notin Owners(s.overflow)
                              /\ t \notin s.suspended /\ t \in Tasks
    <3>1. In(woken) \subseteq Tasks
      BY <1>6, <1>7, <1>9
    <3> QED
      BY <1>1, <1>8, <3>1 DEF PlaceOK, Placed
  <2>16. In(woken) \cap Ready(v) = {}
    BY <2>13, <2>15
  <2>17. /\ Lists(u) /\ (DueOK(v) => DueOK(u))
         /\ Ready(u) = Ready(v) \cup In(woken)
         /\ u.suspended = v.suspended
         /\ SameSleep(v, u) /\ SameRun(v, u) /\ SameClock(v, u) /\ SameEvents(v, u)
    BY <1>8, <2>1, <2>14, <2>16, AddIs
  <2>18. /\ Owners(u.delayed) = Owners(s.delayed) \ In(woken)
         /\ Owners(u.overflow) = Owners(s.overflow)
         /\ u.suspended = s.suspended
         /\ Ready(u) = Ready(s) \cup In(woken)
    BY <2>4, <2>7, <2>11, <2>13, <2>17 DEF SameSleep
  <2>19. PlaceOK(u)
    BY <1>1, <2>15, <2>18 DEF PlaceOK, Placed
  <2>20. u.events = e /\ u.pending = <<>>
    BY <2>4, <2>11, <2>17 DEF SameEvents
  <2>21. EventOK(u)
    <3>1. In(u.pending) = {} /\ Distinct(u.pending)
      BY <2>20 DEF In, Distinct
    <3>2. DistinctOwners(u.events)
      BY <2>3, <2>20
    <3>3. \A t \in Owners(u.events) : t \notin Ready(u) /\ t \notin In(u.pending)
      BY <1>1, <2>3, <2>18, <2>20, <3>1 DEF EventOK
    <3> QED
      BY <3>1, <3>2, <3>3 DEF EventOK
  <2>22. SameRun(s, u) /\ SameClock(s, u)
    BY <2>12, <2>17 DEF SameRun, SameClock
  <2> QED
    BY <1>1, <1>8, <2>11, <2>17, <2>18, <2>19, <2>20, <2>21, <2>22 DEF Steady
<1> QED
  BY <1>14, <1>15

\* Unless b, no task of a higher priority than the current one has become ready.
Noted(s, u, b) ==
  \/ b
  \/ \A t \in Ready(u) \ Ready(s) : s.uxPriority[t] <= s.uxPriority[s.pxCurrentTCB]

\* The tick with the scheduler running.
LEMMA IncrementIs ==
  ASSUME NEW s, Steady(s), s.uxSchedulerSuspended = 0, s.pending = <<>>,
         NEW u, u = xTaskIncrementTick(s).state, NEW b, b = xTaskIncrementTick(s).switch
  PROVE  /\ Steady(u) /\ Ready(s) \subseteq Ready(u)
         /\ SameRun(s, u) /\ u.pending = <<>>
         /\ u.xTickCount = (s.xTickCount + 1) % W /\ u.xPendedTicks = s.xPendedTicks
         /\ Noted(s, u, b) /\ (s.xYieldPending => b)
<1> DEFINE clock == AdvanceTick(s)
           v == Unblock(clock)
           prio == s.uxPriority
           mine == s.uxPriority[s.pxCurrentTCB]
           above == \E i \in 1 .. Expired(clock) : s.uxPriority[clock.delayed[i].owner] > mine
<1>1. xTaskIncrementTick(s) =
        [state |-> v, switch |-> above \/ Len(v.ready[mine]) > 2 \/ s.xYieldPending]
  BY DEF xTaskIncrementTick
<1> HIDE DEF above
<1>2. u = v /\ b = (above \/ Len(v.ready[mine]) > 2 \/ s.xYieldPending)
  BY <1>1
<1>3. clock = AdvanceTick(s) /\ u = Unblock(clock)
  BY <1>2
<1> HIDE DEF clock, v
<1>4. /\ Ticking(clock) /\ Ready(clock) = Ready(s)
      /\ SameRun(s, clock) /\ SameEvents(s, clock)
      /\ clock.xTickCount = (s.xTickCount + 1) % W /\ clock.xPendedTicks = s.xPendedTicks
  BY <1>3, AdvanceIs
<1>5. clock.pending = <<>>
  BY <1>4 DEF SameEvents
<1>6. /\ Steady(u) /\ Ready(u) = Ready(clock) \cup Woken(clock)
      /\ SameRun(clock, u) /\ SameClock(clock, u) /\ u.pending = <<>>
  BY <1>3, <1>4, <1>5, UnblockIs
<1>7. SameRun(s, u) /\ u.xTickCount = (s.xTickCount + 1) % W /\ u.xPendedTicks = s.xPendedTicks
  BY <1>4, <1>6 DEF SameRun, SameClock
<1>8. Ready(u) = Ready(s) \cup Woken(clock)
  BY <1>4, <1>6
<1>9. Noted(s, u, b)
  <2> SUFFICES ASSUME ~b, NEW t \in Ready(u) \ Ready(s) PROVE prio[t] <= mine
    BY DEF Noted
  <2>1. t \in Woken(clock) /\ t \in Ready(u)
    BY <1>8
  <2>2. PICK i \in 1 .. Expired(clock) : t = clock.delayed[i].owner
    BY <2>1 DEF Woken
  <2>3. ~above
    BY <1>2
  <2>4. ~(prio[t] > mine)
    BY <2>2, <2>3 DEF above
  <2>5. Kernel(u) /\ RingsOK(u) /\ Kernel(s)
    BY <1>6 DEF Steady, Lists
  <2>6. t \in Tasks /\ prio \in [Tasks -> Levels] /\ Levels \subseteq Nat /\ s.pxCurrentTCB \in Tasks
    BY <2>1, <2>5, ReadyAt, PrioritiesAre, Constants DEF Kernel
  <2>7. prio[t] \in Nat /\ mine \in Nat
    BY <2>6
  <2> QED
    BY <2>4, <2>7
<1> QED
  BY <1>2, <1>6, <1>7, <1>8, <1>9

\* A kernel function that makes tasks ready, and notes that a switch is due when
\* one of them has a higher priority than the current task.
Grows(s, u) ==
  /\ u.uxPriority = s.uxPriority /\ u.pxCurrentTCB = s.pxCurrentTCB
  /\ Ready(s) \subseteq Ready(u)
  /\ s.xYieldPending => u.xYieldPending
  /\ Noted(s, u, u.xYieldPending)

LEMMA GrowsTransitive ==
  ASSUME NEW s, NEW u, NEW v, Grows(s, u), Grows(u, v)
  PROVE  Grows(s, v)
<1>1. Noted(s, v, v.xYieldPending)
  BY DEF Grows, Noted
<1> QED
  BY <1>1 DEF Grows

\* A pended tick, counted late.
LEMMA LateTickIs ==
  ASSUME NEW s, Steady(s), s.uxSchedulerSuspended = 0, s.pending = <<>>,
         NEW u, u = LateTick(s)
  PROVE  /\ Steady(u) /\ Grows(s, u) /\ u.uxSchedulerSuspended = 0 /\ u.pending = <<>>
         /\ u.xTickCount = (s.xTickCount + 1) % W /\ u.xPendedTicks = s.xPendedTicks
<1> DEFINE i == xTaskIncrementTick(s)
           v == i.state
           b == i.switch
<1>1. u = [v EXCEPT !.xYieldPending = v.xYieldPending \/ b]
  BY DEF LateTick
<1>2. v = xTaskIncrementTick(s).state /\ b = xTaskIncrementTick(s).switch
  OBVIOUS
<1> HIDE DEF v, b
<1>3. /\ Steady(v) /\ Ready(s) \subseteq Ready(v)
      /\ SameRun(s, v) /\ v.pending = <<>>
      /\ v.xTickCount = (s.xTickCount + 1) % W /\ v.xPendedTicks = s.xPendedTicks
      /\ Noted(s, v, b) /\ (s.xYieldPending => b)
  BY <1>2, IncrementIs
<1>4. Kernel(v) /\ DOMAIN v = FieldNames
  BY <1>3 DEF Steady, Lists, Kernel
<1>5. u.xYieldPending = (v.xYieldPending \/ b)
  BY <1>1, <1>4 DEF FieldNames
<1>6. /\ SameLists(v, u) /\ SameClock(v, u) /\ DOMAIN u = FieldNames
      /\ u.uxSchedulerSuspended = v.uxSchedulerSuspended /\ u.pxCurrentTCB = v.pxCurrentTCB
  BY <1>1, <1>4
    DEF FieldNames, SameLists, SameReady, SameSleep, SameEvents, SameClock
<1>7. Kernel(u)
  BY <1>4, <1>5, <1>6 DEF Kernel, SameLists, SameReady, SameSleep, SameEvents, SameClock
<1>8. Steady(u) /\ Ready(u) = Ready(v)
  BY <1>3, <1>6, <1>7, SteadyFrame
<1>9. /\ u.uxPriority = s.uxPriority /\ u.pxCurrentTCB = s.pxCurrentTCB
      /\ u.uxSchedulerSuspended = 0 /\ u.pending = <<>>
      /\ u.xTickCount = (s.xTickCount + 1) % W /\ u.xPendedTicks = s.xPendedTicks
  BY <1>3, <1>6 DEF SameRun, SameLists, SameReady, SameEvents, SameClock
<1>10. Noted(s, u, u.xYieldPending) /\ (s.xYieldPending => u.xYieldPending)
  BY <1>3, <1>5, <1>8 DEF Noted
<1>11. Grows(s, u)
  BY <1>3, <1>8, <1>9, <1>10 DEF Grows
<1> QED
  BY <1>8, <1>9, <1>11

\* r[n] is the state after the first n of m pended ticks.
Replays(r, s, m) == r = [n \in 0 .. m |-> IF n = 0 THEN s ELSE LateTick(r[n - 1])]

LEMMA ReplaysExist ==
  ASSUME NEW s, NEW N \in Nat
  PROVE  \E r : Replays(r, s, N)
<1> DEFINE Bad == {m \in Nat : ~ \E r : Replays(r, s, m)}
<1> SUFFICES ASSUME N \in Bad PROVE FALSE
  OBVIOUS
<1>1. PICK m \in Bad : \A y \in Bad : m <= y
  <2>1. Bad \in SUBSET Nat /\ Bad # {}
    OBVIOUS
  <2> HIDE DEF Bad
  <2> QED
    BY <2>1, NatMin
<1>2. CASE m = 0
  <2> DEFINE r == [n \in 0 .. 0 |-> s]
  <2>1. r = [n \in 0 .. m |-> IF n = 0 THEN s ELSE LateTick(r[n - 1])]
    BY <1>2
  <2> QED
    BY <1>1, <2>1 DEF Replays
<1>3. CASE m # 0
  <2>1. m - 1 \in Nat /\ m - 1 \notin Bad
    <3>1. m \in Nat
      OBVIOUS
    <3> HIDE DEF Bad
    <3> QED
      BY <1>1, <1>3, <3>1
  <2>2. PICK r : r = [n \in 0 .. m - 1 |-> IF n = 0 THEN s ELSE LateTick(r[n - 1])]
    BY <2>1 DEF Replays
  <2> DEFINE q == [n \in 0 .. m |-> IF n = m THEN LateTick(r[m - 1]) ELSE r[n]]
  <2>3. q = [n \in 0 .. m |-> IF n = 0 THEN s ELSE LateTick(q[n - 1])]
    <3> SUFFICES ASSUME NEW n \in 0 .. m
                 PROVE  q[n] = IF n = 0 THEN s ELSE LateTick(q[n - 1])
      OBVIOUS
    <3>1. CASE n = m
      BY <1>1, <1>3, <2>2, <3>1
    <3>2. CASE n # m
      BY <1>1, <1>3, <2>2, <3>2
    <3> QED
      BY <3>1, <3>2
  <2> QED
    BY <1>1, <2>3 DEF Replays
<1> QED
  BY <1>2, <1>3

\* u is s after n late ticks.
After(s, u, n) ==
  /\ Steady(u) /\ Grows(s, u) /\ u.uxSchedulerSuspended = 0 /\ u.pending = <<>>
  /\ u.xTickCount = (s.xTickCount + n) % W /\ u.xPendedTicks = s.xPendedTicks

LEMMA ReplaysAre ==
  ASSUME NEW s, Steady(s), s.uxSchedulerSuspended = 0, s.pending = <<>>,
         NEW N \in Nat, NEW r, Replays(r, s, N)
  PROVE  \A n \in 0 .. N : After(s, r[n], n)
<1> DEFINE Bad == {n \in 0 .. N : ~After(s, r[n], n)}
<1> SUFFICES ASSUME Bad # {} PROVE FALSE
  OBVIOUS
<1>0. Bad \in SUBSET Nat /\ Bad \subseteq 0 .. N
  OBVIOUS
<1>1. PICK n \in Bad : \A y \in Bad : n <= y
  <2> HIDE DEF Bad
  <2> QED
    BY <1>0, NatMin
<1>2. n \in 0 .. N /\ ~After(s, r[n], n)
  BY <1>1
<1>3. W \in Nat /\ W > 1 /\ W > 0 /\ s.xTickCount \in 0 .. W - 1 /\ s.xTickCount \in Nat
  BY Constants DEF Steady, Lists, Kernel
<1>4. CASE n = 0
  <2>1. r[n] = s
    BY <1>2, <1>4 DEF Replays
  <2>2. Grows(s, s)
    BY DEF Grows, Noted
  <2>3. s.xTickCount = (s.xTickCount + 0) % W
    BY <1>3
  <2>4. After(s, s, 0)
    BY <2>2, <2>3 DEF After
  <2> QED
    BY <1>2, <1>4, <2>1, <2>4
<1>5. CASE n # 0
  <2> DEFINE u == r[n - 1]
             v == r[n]
  <2>1. n - 1 \in 0 .. N /\ n - 1 \in Nat /\ ~(n <= n - 1)
    BY <1>2, <1>5
  <2>2. n - 1 \notin Bad
    <3> HIDE DEF Bad
    <3> QED
      BY <1>1, <2>1
  <2>3. After(s, u, n - 1)
    BY <2>1, <2>2
  <2>4. v = LateTick(u)
    BY <1>2, <1>5 DEF Replays
  <2> HIDE DEF u, v
  <2>5. /\ Steady(v) /\ Grows(u, v) /\ v.uxSchedulerSuspended = 0 /\ v.pending = <<>>
        /\ v.xTickCount = (u.xTickCount + 1) % W /\ v.xPendedTicks = u.xPendedTicks
    BY <2>3, <2>4, LateTickIs DEF After
  <2>6. Grows(s, v)
    BY <2>3, <2>5, GrowsTransitive DEF After
  <2>7. v.xTickCount = (s.xTickCount + n) % W
    <3> DEFINE a == s.xTickCount + (n - 1)
    <3>1. a \in Nat /\ a + 1 = s.xTickCount + n
      BY <1>3, <2>1
    <3>2. u.xTickCount = a % W
      BY <2>3 DEF After
    <3> HIDE DEF a
    <3>3. ((a % W) + 1) % W = (a + 1) % W
      BY <1>3, <3>1, ModAdd
    <3> QED
      BY <2>5, <3>1, <3>2, <3>3
  <2>8. v.xPendedTicks = s.xPendedTicks
    BY <2>3, <2>5 DEF After
  <2>9. After(s, v, n)
    BY <2>5, <2>6, <2>7, <2>8 DEF After
  <2> QED
    BY <1>2, <2>9 DEF v
<1> QED
  BY <1>4, <1>5

\* The replay counts every pended tick.
LEMMA ReplayIs ==
  ASSUME NEW s, Steady(s), s.uxSchedulerSuspended = 0, s.pending = <<>>,
         NEW u, u = Replay(s)
  PROVE  /\ Steady(u) /\ Grows(s, u) /\ u.uxSchedulerSuspended = 0 /\ u.pending = <<>>
         /\ u.xTickCount = (s.xTickCount + s.xPendedTicks) % W /\ u.xPendedTicks = 0
<1> DEFINE N == s.xPendedTicks
           r == CHOOSE q : q = [n \in 0 .. N |-> IF n = 0 THEN s ELSE LateTick(q[n - 1])]
           v == r[N]
<1>1. N \in Nat /\ MaxPended \in Nat
  BY Constants DEF Steady, Lists, Kernel
<1>2. u = [v EXCEPT !.xPendedTicks = 0]
  BY DEF Replay
<1>3. Replays(r, s, N)
  <2>1. \E q : Replays(q, s, N)
    <3> HIDE DEF N
    <3> QED
      BY <1>1, ReplaysExist
  <2>2. r = CHOOSE q : Replays(q, s, N)
    BY DEF Replays
  <2> HIDE DEF r
  <2> QED
    BY <2>1, <2>2
<1>4. After(s, v, N)
  <2> HIDE DEF r, N
  <2>1. \A n \in 0 .. N : After(s, r[n], n)
    BY <1>1, <1>3, ReplaysAre
  <2> QED
    BY <1>1, <2>1
<1> HIDE DEF v
<1>5. /\ Steady(v) /\ Grows(s, v) /\ v.uxSchedulerSuspended = 0 /\ v.pending = <<>>
      /\ v.xTickCount = (s.xTickCount + s.xPendedTicks) % W
  BY <1>4 DEF After
<1>6. Kernel(v) /\ DOMAIN v = FieldNames
  BY <1>5 DEF Steady, Lists, Kernel
<1>7. /\ SameLists(v, u) /\ SameRun(v, u) /\ DOMAIN u = FieldNames
      /\ u.xPendedTicks = 0 /\ u.xTickCount = v.xTickCount
  BY <1>2, <1>6 DEF FieldNames, SameLists, SameReady, SameSleep, SameEvents, SameRun
<1>8. Kernel(u)
  BY <1>1, <1>6, <1>7 DEF Kernel, SameLists, SameReady, SameSleep, SameEvents, SameRun
<1>9. Steady(u) /\ Ready(u) = Ready(v)
  BY <1>5, <1>7, <1>8, SteadyFrame
<1>10. Grows(s, u)
  BY <1>5, <1>7, <1>9 DEF Grows, Noted, SameRun
<1> QED
  BY <1>5, <1>7, <1>9, <1>10 DEF SameRun, SameLists, SameEvents

-----------------------------------------------------------------------------
(* Resuming the scheduler, and events. *)

\* The tasks in xPendingReadyList become ready.
LEMMA DrainIs ==
  ASSUME NEW s, Steady(s), NEW u, u = DrainPending(s)
  PROVE  /\ Steady(u) /\ Grows(s, u) /\ u.pending = <<>>
         /\ u.uxSchedulerSuspended = s.uxSchedulerSuspended /\ SameClock(s, u)
<1> DEFINE ts == s.pending
           X == In(ts)
           V == 0 .. W - 1
           prio == s.uxPriority
           above == \E t \in X : prio[t] > prio[s.pxCurrentTCB]
           left == [t \in Tasks |-> IF t \in X THEN 0 ELSE s.left[t]]
           m == [s EXCEPT
                  !.pending = <<>>,
                  !.delayed = Drop(s.delayed, X), !.overflow = Drop(s.overflow, X),
                  !.suspended = s.suspended \ X,
                  !.left = left,
                  !.xYieldPending = s.xYieldPending \/ above]
           v == AddToReadyLists(m, ts)
<1>1. /\ Kernel(s) /\ RingsOK(s) /\ TopOK(s) /\ SleepOK(s) /\ NextOK(s)
      /\ DueOK(s) /\ PlaceOK(s) /\ EventOK(s) /\ Idle \in Ready(s)
  BY DEF Steady, Lists
<1>2. CASE ts = <<>>
  <2>1. u = s
    BY <1>2 DEF DrainPending
  <2> QED
    BY <1>2, <2>1 DEF Grows, Noted, SameClock
<1>3. CASE ts # <<>>
  <2>1. u = prvResetNextTaskUnblockTime(v) /\ v = AddToReadyLists(m, ts)
    BY <1>3 DEF DrainPending
  <2>2. /\ W \in Nat /\ W > 1 /\ DOMAIN s = FieldNames
        /\ s.delayed \in Items(V) /\ s.overflow \in Items(V) /\ s.left \in [Tasks -> V]
        /\ ts \in Seq(Tasks) /\ Distinct(ts) /\ 0 \in V
        /\ DistinctOwners(s.delayed) /\ DistinctOwners(s.overflow)
        /\ Sorted(s.delayed) /\ Sorted(s.overflow)
    BY <1>1, Constants DEF Kernel, SleepOK, EventOK
  <2>3. X \subseteq Tasks /\ X \cap Ready(s) = {} /\ X \cap Owners(s.events) = {}
    BY <1>1, <2>2 DEF EventOK, In
  <2>4. left \in [Tasks -> V]
    BY <2>2
  <2> HIDE DEF V, left, above, X
  <2>5. /\ m.pending = <<>> /\ m.left = left /\ m.suspended = s.suspended \ X
        /\ m.delayed = Drop(s.delayed, X) /\ m.overflow = Drop(s.overflow, X)
        /\ m.xYieldPending = (s.xYieldPending \/ above)
    BY <2>2 DEF FieldNames
  <2>6. /\ m.top = s.top /\ m.events = s.events /\ DOMAIN m = FieldNames
        /\ m.xNextTaskUnblockTime = s.xNextTaskUnblockTime
        /\ m.uxSchedulerSuspended = s.uxSchedulerSuspended
        /\ m.pxCurrentTCB = s.pxCurrentTCB
    BY <2>2 DEF FieldNames
  <2>7. SameReady(s, m) /\ SameClock(s, m)
    BY <2>2 DEF FieldNames, SameReady, SameClock
  <2> HIDE DEF m, v
  <2>8. /\ m.delayed \in Items(V) /\ DistinctOwners(m.delayed) /\ Sorted(m.delayed)
        /\ Kept(m.delayed, s.delayed, X)
        /\ Owners(m.delayed) = Owners(s.delayed) \ X
    BY <2>2, <2>5, DropIs
  <2>9. /\ m.overflow \in Items(V) /\ DistinctOwners(m.overflow) /\ Sorted(m.overflow)
        /\ Kept(m.overflow, s.overflow, X)
        /\ Owners(m.overflow) = Owners(s.overflow) \ X
    BY <2>2, <2>5, DropIs
  <2>10. Kernel(m)
    <3>1. m.pending \in Seq(Tasks) /\ m.suspended \in SUBSET Tasks /\ m.xYieldPending \in BOOLEAN
      BY <1>1, <2>5 DEF Kernel
    <3>2. m.left \in [Tasks -> V]
      BY <2>4, <2>5
    <3> QED
      BY <1>1, <2>6, <2>7, <2>8, <2>9, <3>1, <3>2 DEF Kernel, V, SameReady, SameClock
  <2>11. Ready(m) = Ready(s) /\ RingsOK(m) /\ TopOK(m)
    BY <1>1, <2>6, <2>7, ReadyFrame
  <2>12. \A a \in Tasks : m.left[a] = IF a \in X THEN 0 ELSE s.left[a]
    BY <2>5 DEF left
  <2>13. SleepOK(m)
    <3>1. ASSUME NEW x \in In(m.delayed) PROVE x.value = m.xTickCount + m.left[x.owner]
      <4>1. x \in In(s.delayed) /\ x.owner \notin X
        BY <2>8 DEF Kept
      <4>2. x.owner \in Tasks
        BY <2>2, <4>1, ItemsAre
      <4> QED
        BY <1>1, <2>7, <2>12, <4>1, <4>2 DEF SleepOK, SameClock
    <3>2. ASSUME NEW x \in In(m.overflow) PROVE x.value + W = m.xTickCount + m.left[x.owner]
      <4>1. x \in In(s.overflow) /\ x.owner \notin X
        BY <2>9 DEF Kept
      <4>2. x.owner \in Tasks
        BY <2>2, <4>1, ItemsAre
      <4> QED
        BY <1>1, <2>7, <2>12, <4>1, <4>2 DEF SleepOK, SameClock
    <3>3. ASSUME NEW a \in Tasks \ Sleeping(m) PROVE m.left[a] = 0
      <4>1. a \in X \/ a \notin Sleeping(s)
        BY <2>8, <2>9 DEF Sleeping
      <4> QED
        BY <1>1, <2>12, <4>1 DEF SleepOK
    <3> QED
      BY <2>8, <2>9, <3>1, <3>2, <3>3 DEF SleepOK
  <2>14. DueOK(m)
    <3> SUFFICES ASSUME NEW a \in Sleeping(m) PROVE m.left[a] > 0
      BY DEF DueOK
    <3>1. a \in Sleeping(s) /\ a \notin X
      BY <2>8, <2>9 DEF Sleeping
    <3>2. a \in Tasks
      BY <2>2, <3>1, ItemsAre DEF Sleeping
    <3> QED
      BY <1>1, <2>12, <3>1, <3>2 DEF DueOK
  <2>15. NextOK(m)
    BY <1>1, <2>6, <2>8 DEF NextOK, Kept
  <2>16. Lists(m)
    BY <2>10, <2>11, <2>13, <2>15 DEF Lists
  <2>17. In(ts) \cap Ready(m) = {}
    BY <2>3, <2>11 DEF X
  <2> HIDE DEF ts
  <2>18. /\ Lists(v) /\ (DueOK(m) => DueOK(v))
         /\ Ready(v) = Ready(m) \cup In(ts)
         /\ v.suspended = m.suspended
         /\ SameSleep(m, v) /\ SameRun(m, v) /\ SameClock(m, v) /\ SameEvents(m, v)
    BY <2>1, <2>2, <2>16, <2>17, AddIs
  <2>19. Kernel(v) /\ SleepOK(v) /\ RingsOK(v) /\ TopOK(v) /\ DueOK(v)
    BY <2>14, <2>18 DEF Lists
  <2>20. /\ Kernel(u) /\ SleepOK(u) /\ NextOK(u) /\ DueOK(u)
         /\ u.delayed = v.delayed /\ u.overflow = v.overflow /\ u.suspended = v.suspended
         /\ SameReady(v, u) /\ u.top = v.top
         /\ SameRun(v, u) /\ SameClock(v, u) /\ SameEvents(v, u)
    BY <2>1, <2>19, ResetIs
  <2>21. Ready(u) = Ready(v) /\ RingsOK(u) /\ TopOK(u)
    BY <2>19, <2>20, ReadyFrame
  <2>22. Ready(u) = Ready(s) \cup X
    BY <2>11, <2>18, <2>21 DEF X
  <2>23. /\ Owners(u.delayed) = Owners(s.delayed) \ X
         /\ Owners(u.overflow) = Owners(s.overflow) \ X
         /\ u.suspended = s.suspended \ X
    BY <2>5, <2>8, <2>9, <2>18, <2>20 DEF SameSleep
  <2>24. PlaceOK(u)
    BY <1>1, <2>22, <2>23 DEF PlaceOK, Placed
  <2>25. u.events = s.events /\ u.pending = <<>> /\ SameClock(s, u)
    BY <2>5, <2>6, <2>7, <2>18, <2>20 DEF SameEvents, SameClock
  <2>26. EventOK(u)
    <3>1. In(u.pending) = {} /\ Distinct(u.pending)
      BY <2>25 DEF In, Distinct
    <3> QED
      BY <1>1, <2>3, <2>22, <2>25, <3>1 DEF EventOK
  <2>27. /\ u.uxPriority = s.uxPriority /\ u.pxCurrentTCB = s.pxCurrentTCB
         /\ u.uxSchedulerSuspended = s.uxSchedulerSuspended
         /\ u.xYieldPending = (s.xYieldPending \/ above)
    BY <2>5, <2>6, <2>7, <2>18, <2>20 DEF SameRun, SameReady
  <2>28. Steady(u)
    BY <1>1, <2>20, <2>21, <2>22, <2>24, <2>26 DEF Steady, Lists
  <2>29. Noted(s, u, u.xYieldPending)
    <3> SUFFICES ASSUME ~above, NEW t \in X PROVE prio[t] <= prio[s.pxCurrentTCB]
      BY <2>22, <2>27 DEF Noted
    <3>1. prio \in [Tasks -> Levels] /\ Levels \subseteq Nat /\ s.pxCurrentTCB \in Tasks /\ t \in Tasks
      BY <1>1, <2>3, PrioritiesAre, Constants DEF Kernel
    <3>2. prio[t] \in Nat /\ prio[s.pxCurrentTCB] \in Nat
      BY <3>1
    <3>3. ~(prio[t] > prio[s.pxCurrentTCB])
      BY DEF above
    <3> QED
      BY <3>2, <3>3
  <2>30. Grows(s, u)
    BY <2>22, <2>27, <2>29 DEF Grows
  <2> QED
    BY <2>25, <2>27, <2>28, <2>30
<1> QED
  BY <1>2, <1>3

\* The scheduler is resumed once more; the last time everything pending is done.
LEMMA ResumedIs ==
  ASSUME NEW s, Steady(s), PendOK(s), s.uxSchedulerSuspended # 0, NEW u, u = ResumedAll(s)
  PROVE  /\ Steady(u) /\ Grows(s, u) /\ PendOK(u)
         /\ u.uxSchedulerSuspended = s.uxSchedulerSuspended - 1
         /\ \/ SameClock(s, u)
            \/ /\ u.xTickCount = (s.xTickCount + s.xPendedTicks) % W
               /\ u.xPendedTicks = 0
<1> DEFINE v == [s EXCEPT !.uxSchedulerSuspended = s.uxSchedulerSuspended - 1]
           w == DrainPending(v)
<1>1. Kernel(s) /\ DOMAIN s = FieldNames /\ MaxNesting \in Nat
      /\ s.uxSchedulerSuspended \in 0 .. MaxNesting
  BY Constants DEF Steady, Lists, Kernel
<1>2. u = (IF v.uxSchedulerSuspended # 0 THEN v ELSE Replay(w)) /\ w = DrainPending(v)
  BY DEF ResumedAll
<1>3. /\ v.uxSchedulerSuspended = s.uxSchedulerSuspended - 1
      /\ v.uxPriority = s.uxPriority /\ v.pxCurrentTCB = s.pxCurrentTCB
      /\ v.xYieldPending = s.xYieldPending /\ DOMAIN v = FieldNames
  BY <1>1 DEF FieldNames
<1>4. SameLists(s, v) /\ SameClock(s, v)
  BY <1>1 DEF FieldNames, SameLists, SameReady, SameSleep, SameEvents, SameClock
<1> HIDE DEF v, w
<1>5. Kernel(v)
  BY <1>1, <1>3, <1>4 DEF Kernel, SameLists, SameReady, SameSleep, SameEvents, SameClock
<1>6. Steady(v) /\ Ready(v) = Ready(s)
  BY <1>4, <1>5, SteadyFrame
<1>7. Grows(s, v)
  BY <1>3, <1>6 DEF Grows, Noted
<1>8. CASE v.uxSchedulerSuspended # 0
  BY <1>2, <1>3, <1>4, <1>6, <1>7, <1>8 DEF PendOK
<1>9. CASE v.uxSchedulerSuspended = 0
  <2>1. /\ Steady(w) /\ Grows(v, w) /\ w.pending = <<>>
        /\ w.uxSchedulerSuspended = v.uxSchedulerSuspended /\ SameClock(v, w)
    BY <1>2, <1>6, DrainIs
  <2>2. u = Replay(w) /\ w.uxSchedulerSuspended = 0
    BY <1>2, <1>9, <2>1
  <2>3. /\ Steady(u) /\ Grows(w, u) /\ u.uxSchedulerSuspended = 0 /\ u.pending = <<>>
        /\ u.xTickCount = (w.xTickCount + w.xPendedTicks) % W /\ u.xPendedTicks = 0
    BY <2>1, <2>2, ReplayIs
  <2>4. Grows(s, u)
    <3>1. Grows(s, w)
      BY <1>7, <2>1, GrowsTransitive
    <3> QED
      BY <2>3, <3>1, GrowsTransitive
  <2>5. u.xTickCount = (s.xTickCount + s.xPendedTicks) % W
    BY <1>4, <2>1, <2>3 DEF SameClock
  <2>6. u.uxSchedulerSuspended = s.uxSchedulerSuspended - 1
    BY <1>3, <1>9, <2>3
  <2> QED
    BY <2>3, <2>4, <2>5, <2>6 DEF PendOK
<1> QED
  BY <1>8, <1>9

LEMMA TailIs ==
  ASSUME NEW V, NEW s \in Items(V), DistinctOwners(s), s # <<>>, NEW f, f = Tail(s)
  PROVE  /\ f \in Items(V) /\ DistinctOwners(f)
         /\ Head(s).owner \in Tasks /\ Head(s).owner \in Owners(s)
         /\ Owners(f) = Owners(s) \ {Head(s).owner}
<1> DEFINE R == [owner : Tasks, value : V]
           m == Len(s)
<1>1. s \in Seq(R)
  BY DEF Items
<1> HIDE DEF R
<1>2. m \in Nat /\ m > 0 /\ DOMAIN s = 1 .. m /\ Head(s) = s[1]
  BY <1>1
<1>3. f \in Seq(R) /\ Len(f) = m - 1 /\ \A i \in 1 .. m - 1 : f[i] = s[i + 1]
  BY <1>1, <1>2
<1> HIDE DEF m
<1>4. DOMAIN f = 1 .. m - 1
  BY <1>2, <1>3
<1>5. \A i \in 1 .. m - 1 : i \in DOMAIN f /\ i + 1 \in DOMAIN s /\ i + 1 # 1 /\ f[i] = s[i + 1]
  BY <1>2, <1>3, <1>4
<1>6. DistinctOwners(f)
  <2>1. ASSUME NEW i \in 1 .. m - 1, NEW j \in 1 .. m - 1, f[i].owner = f[j].owner PROVE i = j
    <3>1. i + 1 = j + 1
      BY <1>5, <2>1 DEF DistinctOwners
    <3> QED
      BY <3>1
  <2> QED
    BY <1>4, <2>1 DEF DistinctOwners
<1>7. s[1].owner \in Owners(s) /\ s[1].owner \in Tasks
  <2>1. s[1].owner \in Owners(s)
    BY <1>2 DEF Owners
  <2> QED
    BY <2>1, ItemsAre
<1>8. ASSUME NEW t \in Owners(f) PROVE t \in Owners(s) \ {s[1].owner}
  <2>1. PICK i \in 1 .. m - 1 : t = f[i].owner
    BY <1>4 DEF Owners
  <2>2. i + 1 \in DOMAIN s /\ 1 \in DOMAIN s /\ i + 1 # 1 /\ t = s[i + 1].owner
    BY <1>2, <1>5, <2>1
  <2> QED
    BY <2>2 DEF Owners, DistinctOwners
<1>9. ASSUME NEW t \in Owners(s) \ {s[1].owner} PROVE t \in Owners(f)
  <2>1. PICK i \in 1 .. m : t = s[i].owner
    BY <1>2 DEF Owners
  <2>2. i - 1 \in 1 .. m - 1 /\ (i - 1) + 1 = i
    BY <1>2, <2>1
  <2>3. t = f[i - 1].owner /\ i - 1 \in DOMAIN f
    BY <1>5, <2>1, <2>2
  <2> QED
    BY <2>3 DEF Owners
<1>10. Owners(f) = Owners(s) \ {s[1].owner}
  BY <1>8, <1>9
<1> QED
  BY <1>2, <1>3, <1>6, <1>7, <1>10 DEF Items, R

LEMMA AppendIs ==
  ASSUME NEW ts \in Seq(Tasks), Distinct(ts), NEW t \in Tasks, t \notin In(ts),
         NEW f, f = Append(ts, t)
  PROVE  f \in Seq(Tasks) /\ Distinct(f) /\ In(f) = In(ts) \cup {t} /\ f # <<>>
<1> DEFINE m == Len(ts)
<1>1. m \in Nat /\ DOMAIN ts = 1 .. m
  OBVIOUS
<1>2. f \in Seq(Tasks) /\ Len(f) = m + 1 /\ DOMAIN f = 1 .. m + 1
      /\ \A i \in 1 .. m + 1 : f[i] = IF i = m + 1 THEN t ELSE ts[i]
  BY <1>1
<1> HIDE DEF m
<1>3. \A i \in 1 .. m + 1 : i # m + 1 => i \in 1 .. m
  BY <1>1
<1>4. \A i \in 1 .. m : i \in 1 .. m + 1 /\ i # m + 1
  BY <1>1
<1>5. Distinct(f)
  BY <1>1, <1>2, <1>3 DEF Distinct, In
<1>6. In(f) = In(ts) \cup {t}
  <2>1. m + 1 \in DOMAIN f /\ f[m + 1] = t
    BY <1>1, <1>2
  <2>2. ASSUME NEW x \in In(f) PROVE x \in In(ts) \cup {t}
    BY <1>1, <1>2, <1>3 DEF In
  <2>3. ASSUME NEW x \in In(ts) PROVE x \in In(f)
    BY <1>1, <1>2, <1>4 DEF In
  <2>4. t \in In(f)
    BY <2>1 DEF In
  <2> QED
    BY <2>2, <2>3, <2>4
<1> QED
  BY <1>1, <1>2, <1>5, <1>6

\* The first waiting task is made ready, or left for xTaskResumeAll to make ready.
LEMMA EventIs ==
  ASSUME NEW s, Steady(s), PendOK(s), s.events # <<>>, NEW u, u = xTaskRemoveFromEventList(s)
  PROVE  /\ Steady(u) /\ Grows(s, u) /\ PendOK(u)
         /\ u.uxSchedulerSuspended = s.uxSchedulerSuspended /\ SameClock(s, u)
         /\ s.uxPriority[Head(s.events).owner] > s.uxPriority[s.pxCurrentTCB] =>
              u.xYieldPending
<1> DEFINE t == Head(s.events).owner
           prio == s.uxPriority
           mine == s.uxPriority[s.pxCurrentTCB]
           above == s.uxPriority[t] > s.uxPriority[s.pxCurrentTCB]
           a == [s EXCEPT !.events = Tail(s.events)]
           v == IF s.uxSchedulerSuspended = 0
                THEN AddToReadyLists(RemoveStateItem(a, t), <<t>>)
                ELSE [a EXCEPT !.pending = Append(a.pending, t)]
<1>1. /\ Kernel(s) /\ RingsOK(s) /\ TopOK(s) /\ SleepOK(s) /\ NextOK(s)
      /\ DueOK(s) /\ PlaceOK(s) /\ EventOK(s) /\ Idle \in Ready(s)
  BY DEF Steady, Lists
<1>2. /\ DOMAIN s = FieldNames /\ s.events \in Items(Int) /\ DistinctOwners(s.events)
      /\ s.pending \in Seq(Tasks) /\ Distinct(s.pending)
  BY <1>1 DEF Kernel, EventOK
<1>3. /\ Tail(s.events) \in Items(Int) /\ DistinctOwners(Tail(s.events))
      /\ t \in Tasks /\ t \in Owners(s.events)
      /\ Owners(Tail(s.events)) = Owners(s.events) \ {t}
  <2> DEFINE f == Tail(s.events)
  <2>1. f = Tail(s.events)
    OBVIOUS
  <2> HIDE DEF f
  <2>2. /\ f \in Items(Int) /\ DistinctOwners(f)
        /\ Head(s.events).owner \in Tasks /\ Head(s.events).owner \in Owners(s.events)
        /\ Owners(f) = Owners(s.events) \ {Head(s.events).owner}
    BY <1>2, <2>1, TailIs
  <2> QED
    BY <2>1, <2>2
<1>4. t \notin Ready(s) /\ t \notin In(s.pending)
  BY <1>1, <1>3 DEF EventOK
<1>5. u = [v EXCEPT !.xYieldPending = v.xYieldPending \/ above]
  BY DEF xTaskRemoveFromEventList
<1> HIDE DEF t, above
<1>6. /\ a.events = Tail(s.events) /\ a.pending = s.pending /\ DOMAIN a = FieldNames
      /\ SameReady(s, a) /\ a.top = s.top /\ SameSleep(s, a) /\ a.suspended = s.suspended
      /\ SameRun(s, a) /\ SameClock(s, a)
  BY <1>2 DEF FieldNames, SameReady, SameSleep, SameRun, SameClock
<1> HIDE DEF a
<1>7. Kernel(a)
  BY <1>1, <1>3, <1>6 DEF Kernel, SameReady, SameSleep, SameRun, SameClock
<1>8. Ready(a) = Ready(s) /\ RingsOK(a) /\ TopOK(a)
  BY <1>1, <1>6, ReadyFrame
<1>9. SleepOK(a) /\ NextOK(a) /\ DueOK(a)
  BY <1>1, <1>6, SleepFrame
<1>10. PlaceOK(a)
  BY <1>1, <1>6, <1>8 DEF PlaceOK, SameSleep
<1>11. Lists(a)
  BY <1>7, <1>8, <1>9 DEF Lists
<1>12. /\ Lists(v) /\ DueOK(v) /\ PlaceOK(v) /\ EventOK(v) /\ Idle \in Ready(v)
       /\ Ready(s) \subseteq Ready(v) /\ Ready(v) \subseteq Ready(s) \cup {t}
       /\ SameRun(s, v) /\ SameClock(s, v) /\ PendOK(v)
  <2>1. CASE s.uxSchedulerSuspended = 0
    <3>1. v = AddToReadyLists(RemoveStateItem(a, t), <<t>>)
      BY <2>1
    <3> HIDE DEF v
    <3>2. /\ Lists(v) /\ (DueOK(a) => DueOK(v)) /\ (PlaceOK(a) => PlaceOK(v))
          /\ Ready(v) = Ready(a) \cup {t}
          /\ SameRun(a, v) /\ SameClock(a, v) /\ SameEvents(a, v)
      BY <1>3, <1>11, <3>1, MakeReadyIs
    <3>3. v.events = Tail(s.events) /\ v.pending = s.pending
      BY <1>6, <3>2 DEF SameEvents
    <3>4. EventOK(v)
      BY <1>1, <1>3, <1>4, <1>8, <3>2, <3>3 DEF EventOK
    <3>5. SameRun(s, v) /\ SameClock(s, v) /\ PendOK(v)
      BY <1>6, <2>1, <3>2, <3>3 DEF SameRun, SameClock, PendOK
    <3> QED
      BY <1>1, <1>8, <1>9, <1>10, <3>2, <3>4, <3>5
  <2>2. CASE s.uxSchedulerSuspended # 0
    <3> DEFINE ts == Append(s.pending, t)
    <3>1. v = [a EXCEPT !.pending = Append(a.pending, t)]
      BY <2>2
    <3> HIDE DEF v
    <3>2. /\ v.pending = ts /\ v.events = a.events /\ DOMAIN v = FieldNames
          /\ SameReady(a, v) /\ v.top = a.top /\ SameSleep(a, v) /\ v.suspended = a.suspended
          /\ SameRun(a, v) /\ SameClock(a, v)
      BY <1>6, <3>1 DEF FieldNames, SameReady, SameSleep, SameRun, SameClock
    <3>3. ts = Append(s.pending, t)
      OBVIOUS
    <3> HIDE DEF ts
    <3>4. ts \in Seq(Tasks) /\ Distinct(ts) /\ In(ts) = In(s.pending) \cup {t} /\ ts # <<>>
      BY <1>2, <1>3, <1>4, <3>3, AppendIs
    <3>5. Kernel(v)
      BY <1>7, <3>2, <3>4 DEF Kernel, SameReady, SameSleep, SameRun, SameClock
    <3>6. Ready(v) = Ready(s) /\ RingsOK(v) /\ TopOK(v)
      BY <1>8, <3>2, ReadyFrame
    <3>7. SleepOK(v) /\ NextOK(v) /\ DueOK(v)
      BY <1>9, <3>2, SleepFrame
    <3>8. PlaceOK(v)
      BY <1>8, <1>10, <3>2, <3>6 DEF PlaceOK, SameSleep
    <3>9. EventOK(v)
      BY <1>1, <1>3, <1>4, <1>6, <3>2, <3>4, <3>6 DEF EventOK
    <3>10. SameRun(s, v) /\ SameClock(s, v) /\ PendOK(v)
      BY <1>6, <2>2, <3>2 DEF SameRun, SameClock, PendOK
    <3> QED
      BY <1>1, <3>5, <3>6, <3>7, <3>8, <3>9, <3>10 DEF Lists
  <2> QED
    BY <2>1, <2>2
<1> HIDE DEF v
<1>13. Steady(v) /\ Kernel(v) /\ DOMAIN v = FieldNames
  BY <1>12 DEF Steady, Lists, Kernel
<1>14. u.xYieldPending = (v.xYieldPending \/ above)
  BY <1>5, <1>13 DEF FieldNames
<1>15. /\ SameLists(v, u) /\ SameClock(v, u) /\ DOMAIN u = FieldNames
       /\ u.uxSchedulerSuspended = v.uxSchedulerSuspended /\ u.pxCurrentTCB = v.pxCurrentTCB
  BY <1>5, <1>13 DEF FieldNames, SameLists, SameReady, SameSleep, SameEvents, SameClock
<1>16. Kernel(u)
  BY <1>13, <1>14, <1>15 DEF Kernel, SameLists, SameReady, SameSleep, SameEvents, SameClock
<1>17. Steady(u) /\ Ready(u) = Ready(v)
  BY <1>13, <1>15, <1>16, SteadyFrame
<1>18. /\ u.uxPriority = s.uxPriority /\ u.pxCurrentTCB = s.pxCurrentTCB
       /\ u.uxSchedulerSuspended = s.uxSchedulerSuspended /\ SameClock(s, u) /\ PendOK(u)
  BY <1>12, <1>15 DEF SameRun, SameLists, SameReady, SameEvents, SameClock, PendOK
<1>19. Noted(s, u, u.xYieldPending)
  <2> SUFFICES ASSUME ~above, NEW x \in Ready(u) \ Ready(s) PROVE prio[x] <= mine
    BY <1>14 DEF Noted
  <2>1. x = t
    BY <1>12, <1>17
  <2>2. prio \in [Tasks -> Levels] /\ Levels \subseteq Nat /\ s.pxCurrentTCB \in Tasks
    BY <1>1, PrioritiesAre, Constants DEF Kernel
  <2>3. prio[t] \in Nat /\ mine \in Nat
    BY <1>3, <2>2
  <2>4. ~(prio[t] > mine)
    BY DEF above
  <2> QED
    BY <2>1, <2>3, <2>4
<1>20. Grows(s, u)
  BY <1>12, <1>14, <1>17, <1>18, <1>19 DEF Grows, SameRun
<1> QED
  BY <1>14, <1>17, <1>18, <1>20 DEF above, t

\* When a block time ends, as the counter will show it.
LEMMA WakeTime ==
  ASSUME NEW x \in 0 .. W - 1, NEW d \in 1 .. W - 1, NEW y, y = (x + d) % W
  PROVE  /\ y \in 0 .. W - 1
         /\ y < x => y + W = x + d
         /\ ~(y < x) => y = x + d
<1>1. W \in Nat /\ W > 1
  BY Constants
<1>2. y \in 0 .. W - 1
  BY <1>1
<1>3. CASE x + d < W
  <2>1. x + d \in 0 .. W - 1
    BY <1>1, <1>3
  <2>2. y = x + d
    BY <1>1, <2>1
  <2> QED
    BY <1>1, <1>2, <2>2
<1>4. CASE x + d >= W
  <2> DEFINE r == x + d - W
  <2>1. r \in 0 .. W - 1 /\ x + d = W * 1 + r /\ 1 \in Nat
    BY <1>1, <1>4
  <2>2. (W * 1 + r) % W = r
    <3> HIDE DEF r
    <3> QED
      BY <1>1, <2>1, ModOfParts
  <2>3. y = r
    BY <2>1, <2>2
  <2> QED
    BY <1>1, <1>2, <2>3
<1> QED
  BY <1>1, <1>3, <1>4

\* The current task goes to the delayed list its wake time belongs to, or to the
\* suspended list.
LEMMA AddCurrentIs ==
  ASSUME NEW s, Lists(s), DueOK(s), PlaceOK(s), s.pxCurrentTCB \in Ready(s),
         NEW ticks \in 1 .. W - 1, NEW b,
         NEW u, u = prvAddCurrentTaskToDelayedList(s, ticks, b)
  PROVE  /\ Lists(u) /\ DueOK(u) /\ PlaceOK(u)
         /\ Ready(u) = Ready(s) \ {s.pxCurrentTCB}
         /\ SameRun(s, u) /\ SameClock(s, u) /\ SameEvents(s, u)
<1> DEFINE t == s.pxCurrentTCB
           x == s.xTickCount
           V == 0 .. W - 1
           a == RemoveStateItem(s, t)
           wake == (x + ticks) % W
           item == Item(t, wake)
           c == [a EXCEPT !.left[t] = ticks]
<1>1. Kernel(s) /\ RingsOK(s) /\ TopOK(s) /\ SleepOK(s) /\ NextOK(s)
  BY DEF Lists
<1>2. /\ W \in Nat /\ W > 1 /\ x \in V /\ t \in Tasks /\ V \in SUBSET Int
  BY <1>1, Constants DEF Kernel
<1>3. wake \in V /\ (wake < x => wake + W = x + ticks) /\ (~(wake < x) => wake = x + ticks)
  <2>1. wake = (x + ticks) % W
    OBVIOUS
  <2> HIDE DEF wake
  <2> QED
    BY <1>2, <2>1, WakeTime
<1>4. a = RemoveStateItem(s, t)
  OBVIOUS
<1>5. u = IF ticks = portMAX_DELAY /\ b THEN [a EXCEPT !.suspended = a.suspended \cup {t}]
          ELSE IF wake < x THEN [c EXCEPT !.overflow = vListInsert(c.overflow, item)]
          ELSE [c EXCEPT !.delayed = vListInsert(c.delayed, item),
                         !.xNextTaskUnblockTime =
                            IF wake < c.xNextTaskUnblockTime THEN wake
                            ELSE c.xNextTaskUnblockTime]
  BY DEF prvAddCurrentTaskToDelayedList
<1> HIDE DEF a, wake, t
<1>6. /\ Lists(a) /\ DueOK(a)
      /\ Ready(a) = Ready(s) \ {t}
      /\ Owners(a.delayed) = Owners(s.delayed) \ {t}
      /\ Owners(a.overflow) = Owners(s.overflow) \ {t}
      /\ a.suspended = s.suspended \ {t}
      /\ Awaken(s, a, t)
      /\ SameRun(s, a) /\ SameClock(s, a) /\ SameEvents(s, a)
  BY <1>2, <1>4, RemoveIs
<1>7. /\ Kernel(a) /\ RingsOK(a) /\ TopOK(a) /\ SleepOK(a) /\ NextOK(a)
      /\ DOMAIN a = FieldNames /\ a.delayed \in Items(V) /\ a.overflow \in Items(V)
      /\ a.left \in [Tasks -> V] /\ a.xTickCount = x
      /\ DistinctOwners(a.delayed) /\ DistinctOwners(a.overflow)
      /\ Sorted(a.delayed) /\ Sorted(a.overflow)
  BY <1>6 DEF Lists, Kernel, SleepOK, SameClock
<1>8. t \notin Owners(a.delayed) /\ t \notin Owners(a.overflow) /\ t \notin Ready(a)
      /\ t \notin a.suspended
  BY <1>6
<1>9. CASE ticks = portMAX_DELAY /\ b
  <2>1. u = [a EXCEPT !.suspended = a.suspended \cup {t}]
    BY <1>5, <1>9
  <2>2. /\ u.suspended = a.suspended \cup {t} /\ DOMAIN u = FieldNames
        /\ SameReady(a, u) /\ u.top = a.top /\ SameSleep(a, u)
        /\ SameRun(a, u) /\ SameClock(a, u) /\ SameEvents(a, u)
    BY <1>7, <2>1 DEF FieldNames, SameReady, SameSleep, SameRun, SameClock, SameEvents
  <2>3. Kernel(u)
    <3>1. u.suspended \in SUBSET Tasks
      BY <1>2, <1>7, <2>2 DEF Kernel
    <3> QED
      BY <1>7, <2>2, <3>1 DEF Kernel, SameReady, SameSleep, SameRun, SameClock, SameEvents
  <2>4. Ready(u) = Ready(a) /\ RingsOK(u) /\ TopOK(u)
    BY <1>7, <2>2, ReadyFrame
  <2>5. SleepOK(u) /\ NextOK(u) /\ DueOK(u)
    BY <1>6, <1>7, <2>2, SleepFrame
  <2>6. /\ Owners(u.delayed) = Owners(s.delayed) \ {t}
        /\ Owners(u.overflow) = Owners(s.overflow) \ {t}
        /\ u.suspended = s.suspended \cup {t}
        /\ Ready(u) = Ready(s) \ {t}
    BY <1>6, <2>2, <2>4 DEF SameSleep
  <2>7. PlaceOK(u)
    BY <2>6 DEF PlaceOK, Placed
  <2>8. SameRun(s, u) /\ SameClock(s, u) /\ SameEvents(s, u)
    BY <1>6, <2>2 DEF SameRun, SameClock, SameEvents
  <2> QED
    BY <2>3, <2>4, <2>5, <2>6, <2>7, <2>8 DEF Lists, t
<1>10. CASE ~(ticks = portMAX_DELAY /\ b)
  <2> DEFINE left == [a.left EXCEPT ![t] = ticks]
  <2>1. /\ c.left = left /\ DOMAIN c = FieldNames
        /\ c.delayed = a.delayed /\ c.overflow = a.overflow
        /\ c.xNextTaskUnblockTime = a.xNextTaskUnblockTime /\ c.suspended = a.suspended
        /\ SameReady(a, c) /\ c.top = a.top
        /\ SameRun(a, c) /\ SameClock(a, c) /\ SameEvents(a, c)
    BY <1>7 DEF FieldNames, SameReady, SameRun, SameClock, SameEvents
  <2>2. /\ left \in [Tasks -> V] /\ left[t] = ticks
        /\ \A y \in Tasks : y # t => left[y] = a.left[y]
    BY <1>2, <1>7
  <2> HIDE DEF c, left
  <2>3. /\ item \in [owner : Tasks, value : V] /\ item.owner = t /\ item.value = wake
    BY <1>2, <1>3 DEF Item
  <2> HIDE DEF item
  <2>4. ticks \in Nat /\ ticks > 0
    BY <1>2
  <2>5. ASSUME NEW y \in In(a.delayed)
        PROVE  y.value = x + left[y.owner] /\ y.value \in V
    <3>1. y.owner \in Tasks /\ y.value \in V /\ y.owner \in Owners(a.delayed)
      <4> HIDE DEF V
      <4> QED
        BY <1>7, ItemsAre
    <3>2. y.owner # t
      BY <1>8, <3>1
    <3> QED
      BY <1>7, <2>2, <3>1, <3>2 DEF SleepOK
  <2>6. ASSUME NEW y \in In(a.overflow) PROVE y.value + W = x + left[y.owner]
    <3>1. y.owner \in Tasks /\ y.owner \in Owners(a.overflow)
      <4> HIDE DEF V
      <4> QED
        BY <1>7, ItemsAre
    <3>2. y.owner # t
      BY <1>8, <3>1
    <3> QED
      BY <1>7, <2>2, <3>1, <3>2 DEF SleepOK
  <2>7. ASSUME NEW y \in Tasks \ (Sleeping(a) \cup {t}) PROVE left[y] = 0
    BY <1>7, <2>2 DEF SleepOK
  <2>8. ASSUME NEW y \in Sleeping(a) \cup {t} PROVE left[y] > 0
    <3>1. Sleeping(a) \subseteq Tasks
      <4> HIDE DEF V
      <4> QED
        BY <1>7, ItemsAre DEF Sleeping
    <3> QED
      BY <1>6, <2>2, <2>4, <3>1 DEF DueOK
  <2>9. CASE wake < x
    <3> DEFINE f == vListInsert(a.overflow, item)
    <3>0. f = vListInsert(a.overflow, item)
      OBVIOUS
    <3>1. u = [c EXCEPT !.overflow = f]
      BY <1>5, <1>10, <2>1, <2>9
    <3> HIDE DEF f
    <3>2. /\ f \in Items(V) /\ DistinctOwners(f) /\ Sorted(f)
          /\ In(f) = In(a.overflow) \cup {item} /\ Owners(f) = Owners(a.overflow) \cup {t}
      <4> HIDE DEF V
      <4> QED
        BY <1>2, <1>7, <1>8, <2>3, <3>0, vListInsertIs
    <3>3. /\ u.overflow = f /\ u.delayed = a.delayed /\ u.left = left /\ DOMAIN u = FieldNames
          /\ u.xNextTaskUnblockTime = a.xNextTaskUnblockTime /\ u.suspended = a.suspended
      BY <2>1, <3>1 DEF FieldNames
    <3>4. /\ SameReady(a, u) /\ u.top = a.top
          /\ SameRun(a, u) /\ SameClock(a, u) /\ SameEvents(a, u)
      BY <2>1, <3>1 DEF FieldNames, SameReady, SameRun, SameClock, SameEvents
    <3>5. Kernel(u)
      BY <1>7, <2>2, <3>2, <3>3, <3>4 DEF Kernel, V, SameReady, SameRun, SameClock, SameEvents
    <3>6. Ready(u) = Ready(a) /\ RingsOK(u) /\ TopOK(u)
      BY <1>7, <3>4, ReadyFrame
    <3>7. Sleeping(u) = Sleeping(a) \cup {t} /\ u.xTickCount = x
      BY <1>7, <3>2, <3>3, <3>4 DEF Sleeping, SameClock
    <3>8. SleepOK(u)
      <4>1. \A y \in In(u.delayed) : y.value = u.xTickCount + u.left[y.owner]
        BY <2>5, <3>3, <3>7
      <4>2. ASSUME NEW y \in In(u.overflow) PROVE y.value + W = u.xTickCount + u.left[y.owner]
        <5>1. CASE y = item
          BY <1>3, <2>2, <2>3, <2>9, <3>3, <3>7, <5>1
        <5>2. CASE y \in In(a.overflow)
          BY <2>6, <3>3, <3>7, <5>2
        <5> QED
          BY <3>2, <3>3, <5>1, <5>2
      <4>3. \A y \in Tasks \ Sleeping(u) : u.left[y] = 0
        BY <2>7, <3>3, <3>7
      <4> QED
        BY <1>7, <3>2, <3>3, <4>1, <4>2, <4>3 DEF SleepOK
    <3>9. NextOK(u)
      BY <1>7, <3>3 DEF NextOK
    <3>10. DueOK(u)
      BY <2>8, <3>3, <3>7 DEF DueOK
    <3>11. /\ Owners(u.delayed) = Owners(s.delayed) \ {t}
           /\ Owners(u.overflow) = Owners(s.overflow) \cup {t}
           /\ u.suspended = s.suspended \ {t}
           /\ Ready(u) = Ready(s) \ {t}
      BY <1>6, <3>2, <3>3, <3>6
    <3>12. PlaceOK(u)
      BY <3>11 DEF PlaceOK, Placed
    <3>13. SameRun(s, u) /\ SameClock(s, u) /\ SameEvents(s, u)
      BY <1>6, <3>4 DEF SameRun, SameClock, SameEvents
    <3> QED
      BY <3>5, <3>6, <3>8, <3>9, <3>10, <3>11, <3>12, <3>13 DEF Lists, t
  <2>10. CASE ~(wake < x)
    <3> DEFINE f == vListInsert(a.delayed, item)
               next == IF wake < a.xNextTaskUnblockTime THEN wake ELSE a.xNextTaskUnblockTime
    <3>0. f = vListInsert(a.delayed, item)
      OBVIOUS
    <3>1. u = [c EXCEPT !.delayed = f, !.xNextTaskUnblockTime = next]
      BY <1>5, <1>10, <2>1, <2>10
    <3> HIDE DEF f
    <3>2. /\ f \in Items(V) /\ DistinctOwners(f) /\ Sorted(f)
          /\ In(f) = In(a.delayed) \cup {item} /\ Owners(f) = Owners(a.delayed) \cup {t}
      <4> HIDE DEF V
      <4> QED
        BY <1>2, <1>7, <1>8, <2>3, <3>0, vListInsertIs
    <3>14. /\ next \in V /\ next <= wake /\ next <= a.xNextTaskUnblockTime
          /\ a.xNextTaskUnblockTime \in V
      BY <1>2, <1>3, <1>7 DEF Kernel
    <3> HIDE DEF next
    <3>3. /\ u.overflow = a.overflow /\ u.delayed = f /\ u.left = left /\ DOMAIN u = FieldNames
          /\ u.xNextTaskUnblockTime = next /\ u.suspended = a.suspended
      BY <2>1, <3>1 DEF FieldNames
    <3>4. /\ SameReady(a, u) /\ u.top = a.top
          /\ SameRun(a, u) /\ SameClock(a, u) /\ SameEvents(a, u)
      BY <2>1, <3>1 DEF FieldNames, SameReady, SameRun, SameClock, SameEvents
    <3>5. Kernel(u)
      BY <1>7, <2>2, <3>2, <3>14, <3>3, <3>4
        DEF Kernel, V, SameReady, SameRun, SameClock, SameEvents
    <3>6. Ready(u) = Ready(a) /\ RingsOK(u) /\ TopOK(u)
      BY <1>7, <3>4, ReadyFrame
    <3>7. Sleeping(u) = Sleeping(a) \cup {t} /\ u.xTickCount = x
      BY <1>7, <3>2, <3>3, <3>4 DEF Sleeping, SameClock
    <3>8. SleepOK(u)
      <4>1. \A y \in In(u.overflow) : y.value + W = u.xTickCount + u.left[y.owner]
        BY <2>6, <3>3, <3>7
      <4>2. ASSUME NEW y \in In(u.delayed) PROVE y.value = u.xTickCount + u.left[y.owner]
        <5>1. CASE y = item
          BY <1>3, <2>2, <2>3, <2>10, <3>3, <3>7, <5>1
        <5>2. CASE y \in In(a.delayed)
          BY <2>5, <3>3, <3>7, <5>2
        <5> QED
          BY <3>2, <3>3, <5>1, <5>2
      <4>3. \A y \in Tasks \ Sleeping(u) : u.left[y] = 0
        BY <2>7, <3>3, <3>7
      <4> QED
        BY <1>7, <3>2, <3>3, <4>1, <4>2, <4>3 DEF SleepOK
    <3>9. NextOK(u)
      <4>1. ASSUME NEW y \in In(a.delayed) PROVE next <= y.value
        <5>1. a.xNextTaskUnblockTime <= y.value /\ y.value \in V
          BY <1>7, <2>5 DEF NextOK
        <5> QED
          BY <1>2, <3>14, <5>1
      <4> QED
        BY <2>3, <3>2, <3>14, <3>3, <4>1 DEF NextOK
    <3>10. DueOK(u)
      BY <2>8, <3>3, <3>7 DEF DueOK
    <3>11. /\ Owners(u.delayed) = Owners(s.delayed) \cup {t}
           /\ Owners(u.overflow) = Owners(s.overflow) \ {t}
           /\ u.suspended = s.suspended \ {t}
           /\ Ready(u) = Ready(s) \ {t}
      BY <1>6, <3>2, <3>3, <3>6
    <3>12. PlaceOK(u)
      BY <3>11 DEF PlaceOK, Placed
    <3>13. SameRun(s, u) /\ SameClock(s, u) /\ SameEvents(s, u)
      BY <1>6, <3>4 DEF SameRun, SameClock, SameEvents
    <3> QED
      BY <3>5, <3>6, <3>8, <3>9, <3>10, <3>11, <3>12, <3>13 DEF Lists, t
  <2> QED
    BY <2>9, <2>10
<1> QED
  BY <1>9, <1>10

-----------------------------------------------------------------------------
(* The inductive invariant. *)

\* The current task is ready; a ready task of a higher priority waits only if a
\* switch is pending.
High(s) ==
  /\ s.pxCurrentTCB \in Ready(s)
  /\ s.xYieldPending \/ AtTop(s)

\* ... at every point where the task is not about to stop.
HighOK == pc[k.pxCurrentTCB] \in {"run", "reset", "block"} => High(k)

\* Only the current task is between suspending and resuming the scheduler to
\* block, and no task yields with the scheduler suspended.
PcOK ==
  /\ \A t \in Tasks :
       pc[t] \in {"block", "blocked"} => t = k.pxCurrentTCB /\ k.uxSchedulerSuspended = 1
  /\ pc[k.pxCurrentTCB] \in {"yield", "resetSelf"} => k.uxSchedulerSuspended = 0
  /\ pc[Idle] # "block"

IInv ==
  /\ Steady(k) /\ PendOK(k)
  /\ pc \in [Tasks -> Points]
  /\ uptime \in 0 .. W - 1
  /\ HighOK /\ PcOK
  /\ NoTickLost

LEMMA GrowsHigh ==
  ASSUME NEW s, NEW u, High(s), Grows(s, u)
  PROVE  High(u)
<1>1. u.pxCurrentTCB \in Ready(u)
  BY DEF High, Grows
<1>2. ASSUME ~u.xYieldPending PROVE AtTop(u)
  <2>1. AtTop(s)
    BY <1>2 DEF High, Grows
  <2>2. \A t \in Ready(u) : t \in Ready(s) \/ t \in Ready(u) \ Ready(s)
    OBVIOUS
  <2>3. \A t \in Ready(u) : s.uxPriority[t] <= s.uxPriority[s.pxCurrentTCB]
    BY <1>2, <2>1, <2>2 DEF Grows, Noted, AtTop
  <2> QED
    BY <1>1, <2>3 DEF Grows, AtTop
<1> QED
  BY <1>1, <1>2 DEF High

\* A switch that b asks for is made, or left pending.
Turns(s, u, b) ==
  \/ u.uxSchedulerSuspended = 0 /\ High(u)
  \/ /\ u.pxCurrentTCB = s.pxCurrentTCB /\ Ready(u) = Ready(s)
     /\ u.uxPriority = s.uxPriority
     /\ s.xYieldPending => u.xYieldPending
     /\ b => u.xYieldPending

LEMMA SwitchContextIs ==
  ASSUME NEW s, Steady(s), PendOK(s), NEW u, u = vTaskSwitchContext(s)
  PROVE  /\ Steady(u) /\ PendOK(u) /\ SameClock(s, u)
         /\ u.uxSchedulerSuspended = s.uxSchedulerSuspended
         /\ Turns(s, u, TRUE)
<1>1. CASE s.uxSchedulerSuspended = 0
  <2>1. /\ Steady(u) /\ AtTop(u) /\ Ready(u) = Ready(s)
        /\ u.uxPriority = s.uxPriority /\ u.uxSchedulerSuspended = 0
        /\ ~u.xYieldPending
        /\ SameClock(s, u) /\ SameEvents(s, u)
    BY <1>1, SwitchIs
  <2>2. High(u)
    BY <2>1 DEF High, AtTop
  <2> QED
    BY <1>1, <2>1, <2>2 DEF Turns, PendOK, SameEvents
<1>2. CASE s.uxSchedulerSuspended # 0
  <2>1. /\ Steady(u) /\ Ready(u) = Ready(s) /\ u.xYieldPending
        /\ u.uxPriority = s.uxPriority /\ u.pxCurrentTCB = s.pxCurrentTCB
        /\ u.uxSchedulerSuspended = s.uxSchedulerSuspended
        /\ SameClock(s, u) /\ SameEvents(s, u)
    BY <1>2, SuspendedSwitchIs
  <2> QED
    BY <1>2, <2>1 DEF Turns, PendOK
<1> QED
  BY <1>1, <1>2

LEMMA SwitchIfIs ==
  ASSUME NEW s, Steady(s), PendOK(s), NEW b \in BOOLEAN, NEW u, u = SwitchIf(s, b)
  PROVE  /\ Steady(u) /\ PendOK(u) /\ SameClock(s, u)
         /\ u.uxSchedulerSuspended = s.uxSchedulerSuspended
         /\ Turns(s, u, b)
<1>1. CASE b
  <2>1. u = vTaskSwitchContext(s)
    BY <1>1 DEF SwitchIf
  <2>2. /\ Steady(u) /\ PendOK(u) /\ SameClock(s, u)
        /\ u.uxSchedulerSuspended = s.uxSchedulerSuspended
        /\ Turns(s, u, TRUE)
    BY <2>1, SwitchContextIs
  <2> QED
    BY <1>1, <2>2 DEF Turns
<1>2. CASE ~b
  <2>1. u = s
    BY <1>2 DEF SwitchIf
  <2> QED
    BY <1>2, <2>1 DEF Turns, SameClock
<1> QED
  BY <1>1, <1>2

\* A function that makes tasks ready, and the switch it asks for.
LEMMA GrowsTurns ==
  ASSUME NEW s, NEW u, NEW v, NEW b \in BOOLEAN, High(s),
         u.uxPriority = s.uxPriority, u.pxCurrentTCB = s.pxCurrentTCB,
         Ready(s) \subseteq Ready(u), s.xYieldPending => u.xYieldPending \/ b,
         Noted(s, u, u.xYieldPending \/ b), Turns(u, v, b)
  PROVE  High(v)
<1>1. CASE v.uxSchedulerSuspended = 0 /\ High(v)
  BY <1>1
<1>2. CASE /\ v.pxCurrentTCB = u.pxCurrentTCB /\ Ready(v) = Ready(u)
           /\ v.uxPriority = u.uxPriority
           /\ u.xYieldPending => v.xYieldPending
           /\ b => v.xYieldPending
  <2>1. Ready(s) \subseteq Ready(v) /\ (s.xYieldPending => v.xYieldPending)
        /\ v.uxPriority = s.uxPriority /\ v.pxCurrentTCB = s.pxCurrentTCB
    BY <1>2
  <2>2. Noted(s, v, v.xYieldPending)
    BY <1>2 DEF Noted
  <2>3. Grows(s, v)
    BY <2>1, <2>2 DEF Grows
  <2> QED
    BY <2>3, GrowsHigh
<1> QED
  BY <1>1, <1>2 DEF Turns

\* Every tick that was counted or pended still is.
Counts(s, u) ==
  \/ SameClock(s, u)
  \/ u.xTickCount = (s.xTickCount + s.xPendedTicks) % W /\ u.xPendedTicks = 0

LEMMA TicksKept ==
  ASSUME IInv, Kernel(k'), Counts(k, k'), UNCHANGED uptime
  PROVE  NoTickLost' /\ (uptime \in 0 .. W - 1)'
<1>1. /\ W \in Nat /\ W > 1 /\ k.xTickCount \in 0 .. W - 1 /\ k.xPendedTicks \in Nat
      /\ MaxPended \in Nat
  BY Constants DEF IInv, Steady, Lists, Kernel
<1>2. CASE SameClock(k, k')
  BY <1>2 DEF IInv, NoTickLost, SameClock
<1>3. CASE k'.xTickCount = (k.xTickCount + k.xPendedTicks) % W /\ k'.xPendedTicks = 0
  <2>1. k'.xTickCount = uptime /\ uptime \in 0 .. W - 1
    BY <1>3 DEF IInv, NoTickLost
  <2>2. (uptime + 0) % W = uptime
    BY <1>1, <2>1
  <2> QED
    BY <1>3, <2>1, <2>2 DEF NoTickLost
<1> QED
  BY <1>2, <1>3 DEF Counts, IInv

-----------------------------------------------------------------------------
(* The actions. *)

LEMMA GoesIs ==
  ASSUME IInv, NEW from, NEW to \in Points, Goes(from, to)
  PROVE  /\ k.pxCurrentTCB \in Tasks /\ pc[k.pxCurrentTCB] = from
         /\ pc' \in [Tasks -> Points] /\ pc'[k.pxCurrentTCB] = to
         /\ \A t \in Tasks \ {k.pxCurrentTCB} : pc'[t] = pc[t]
         /\ UNCHANGED uptime
<1>1. k.pxCurrentTCB \in Tasks /\ pc \in [Tasks -> Points]
  BY DEF IInv, Steady, Lists, Kernel
<1> QED
  BY <1>1 DEF Goes

\* A task in its own code calls the kernel and goes on when it runs again.
LEMMA RunStep ==
  ASSUME IInv, Goes("run", "run"), Steady(k'), PendOK(k'), High(k'), Counts(k, k'),
         k'.uxSchedulerSuspended = 0 \/ k'.pxCurrentTCB = k.pxCurrentTCB
  PROVE  IInv'
<1>1. /\ k.pxCurrentTCB \in Tasks /\ pc[k.pxCurrentTCB] = "run"
      /\ pc' \in [Tasks -> Points] /\ pc'[k.pxCurrentTCB] = "run"
      /\ \A t \in Tasks \ {k.pxCurrentTCB} : pc'[t] = pc[t]
      /\ UNCHANGED uptime
  <2>1. "run" \in Points
    BY DEF Points
  <2> QED
    BY <2>1, GoesIs
<1>2. Kernel(k')
  BY DEF Steady, Lists
<1>3. NoTickLost' /\ (uptime \in 0 .. W - 1)'
  BY <1>1, <1>2, TicksKept
<1>4. \A t \in Tasks : pc'[t] \notin {"block", "blocked"}
  <2>1. \A t \in Tasks : pc[t] \in {"block", "blocked"} => t = k.pxCurrentTCB
    BY DEF IInv, PcOK
  <2> QED
    BY <1>1, <2>1
<1>5. PcOK'
  <2>1. Idle \in Tasks
    BY Constants
  <2> QED
    BY <1>1, <1>4, <2>1 DEF PcOK
<1>6. HighOK'
  BY DEF HighOK
<1> QED
  BY <1>1, <1>3, <1>5, <1>6 DEF IInv

\* An interrupt leaves every task where it is, and switches only with the scheduler
\* running.
LEMMA InterruptStep ==
  ASSUME IInv, UNCHANGED pc, k'.uxSchedulerSuspended = k.uxSchedulerSuspended,
         \/ k'.uxSchedulerSuspended = 0 /\ High(k')
         \/ k'.pxCurrentTCB = k.pxCurrentTCB /\ (High(k) => High(k'))
  PROVE  pc' \in [Tasks -> Points] /\ HighOK' /\ PcOK'
<1>1. pc' \in [Tasks -> Points] /\ PcOK /\ HighOK
  BY DEF IInv
<1>2. CASE k'.uxSchedulerSuspended = 0 /\ High(k')
  <2>1. \A t \in Tasks : pc[t] \notin {"block", "blocked"}
    BY <1>1, <1>2 DEF PcOK
  <2> QED
    BY <1>1, <1>2, <2>1 DEF PcOK, HighOK
<1>3. CASE k'.pxCurrentTCB = k.pxCurrentTCB /\ (High(k) => High(k'))
  BY <1>1, <1>3 DEF PcOK, HighOK
<1> QED
  BY <1>1, <1>2, <1>3

\* What the invariant says in a task's own code.
LEMMA Inside ==
  ASSUME IInv, NEW from \in {"run", "reset", "block"}, NEW to \in Points, Goes(from, to)
  PROVE  High(k) /\ Steady(k) /\ PendOK(k) /\ Kernel(k)
<1>1. pc[k.pxCurrentTCB] = from
  BY GoesIs
<1> QED
  BY <1>1 DEF IInv, HighOK, Steady, Lists

\* A change of uxSchedulerSuspended alone.
LEMMA SuspendFrame ==
  ASSUME NEW s, Steady(s), High(s), NEW n \in 1 .. MaxNesting,
         NEW u, u = [s EXCEPT !.uxSchedulerSuspended = n]
  PROVE  /\ Steady(u) /\ High(u) /\ PendOK(u) /\ SameClock(s, u)
         /\ u.pxCurrentTCB = s.pxCurrentTCB /\ u.uxSchedulerSuspended = n
<1>1. Kernel(s) /\ DOMAIN s = FieldNames /\ MaxNesting \in Nat
  BY Constants DEF Steady, Lists, Kernel
<1>2. /\ SameLists(s, u) /\ SameClock(s, u) /\ DOMAIN u = FieldNames
      /\ u.pxCurrentTCB = s.pxCurrentTCB /\ u.uxSchedulerSuspended = n
      /\ u.xYieldPending = s.xYieldPending
  BY <1>1 DEF FieldNames, SameLists, SameReady, SameSleep, SameEvents, SameClock
<1>3. Kernel(u)
  BY <1>1, <1>2 DEF Kernel, SameLists, SameReady, SameSleep, SameEvents, SameClock
<1>4. Steady(u) /\ Ready(u) = Ready(s)
  BY <1>2, <1>3, SteadyFrame
<1>5. High(u)
  BY <1>2, <1>4 DEF High, AtTop, SameLists, SameReady
<1>6. n # 0
  BY <1>1
<1> QED
  BY <1>2, <1>4, <1>5, <1>6 DEF PendOK

LEMMA SuspendAllStep == IInv /\ vTaskSuspendAll => IInv'
<1> SUFFICES ASSUME IInv, vTaskSuspendAll PROVE IInv'
  OBVIOUS
<1> DEFINE n == k.uxSchedulerSuspended + 1
<1>1. /\ Goes("run", "run") /\ k.uxSchedulerSuspended < MaxNesting
      /\ k' = [k EXCEPT !.uxSchedulerSuspended = n]
  BY DEF vTaskSuspendAll
<1>2. "run" \in Points
  BY DEF Points
<1>3. High(k) /\ Steady(k) /\ Kernel(k)
  BY <1>1, <1>2, Inside
<1>4. n \in 1 .. MaxNesting
  <2>1. k.uxSchedulerSuspended \in 0 .. MaxNesting /\ MaxNesting \in Nat
    BY <1>3, Constants DEF Kernel
  <2>2. k.uxSchedulerSuspended < MaxNesting
    BY <1>1
  <2> QED
    BY <2>1, <2>2
<1> HIDE DEF n
<1>5. /\ Steady(k') /\ High(k') /\ PendOK(k') /\ SameClock(k, k')
      /\ k'.pxCurrentTCB = k.pxCurrentTCB
  BY <1>1, <1>3, <1>4, SuspendFrame
<1> QED
  BY <1>1, <1>5, RunStep DEF Counts

LEMMA ResumeAllStep == IInv /\ xTaskResumeAll => IInv'
<1> SUFFICES ASSUME IInv, xTaskResumeAll PROVE IInv'
  OBVIOUS
<1> DEFINE s == ResumedAll(k)
           b == s.uxSchedulerSuspended = 0 /\ s.xYieldPending
<1>1. Goes("run", "run") /\ k.uxSchedulerSuspended # 0 /\ k' = SwitchIf(s, b)
      /\ s = ResumedAll(k)
  BY DEF xTaskResumeAll, Running
<1>2. "run" \in Points
  BY DEF Points
<1>3. High(k) /\ Steady(k) /\ PendOK(k)
  BY <1>1, <1>2, Inside
<1> HIDE DEF s
<1>4. /\ Steady(s) /\ Grows(k, s) /\ PendOK(s)
      /\ s.uxSchedulerSuspended = k.uxSchedulerSuspended - 1
      /\ \/ SameClock(k, s)
         \/ s.xTickCount = (k.xTickCount + k.xPendedTicks) % W /\ s.xPendedTicks = 0
  BY <1>1, <1>3, ResumedIs
<1>5. b \in BOOLEAN /\ (b => s.uxSchedulerSuspended = 0)
  OBVIOUS
<1>6. High(s)
  BY <1>3, <1>4, GrowsHigh
<1>7. /\ Steady(k') /\ PendOK(k') /\ SameClock(s, k')
      /\ k'.uxSchedulerSuspended = s.uxSchedulerSuspended
      /\ Turns(s, k', b)
  <2> HIDE DEF b
  <2> QED
    BY <1>1, <1>4, <1>5, SwitchIfIs
<1>8. High(k') /\ (k'.uxSchedulerSuspended = 0 \/ k'.pxCurrentTCB = k.pxCurrentTCB)
  <2>1. CASE k'.uxSchedulerSuspended = 0 /\ High(k')
    BY <2>1
  <2>2. CASE /\ k'.pxCurrentTCB = s.pxCurrentTCB /\ Ready(k') = Ready(s)
             /\ k'.uxPriority = s.uxPriority
             /\ s.xYieldPending => k'.xYieldPending
    BY <1>4, <1>6, <2>2 DEF High, AtTop, Grows
  <2> QED
    BY <1>7, <2>1, <2>2 DEF Turns
<1>9. Counts(k, k')
  BY <1>4, <1>7 DEF Counts, SameClock
<1> QED
  BY <1>1, <1>7, <1>8, <1>9, RunStep

LEMMA BeginBlockStep == IInv /\ BeginBlock => IInv'
<1> SUFFICES ASSUME IInv, BeginBlock PROVE IInv'
  OBVIOUS
<1> DEFINE c == k.pxCurrentTCB
<1>1. /\ Goes("run", "block") /\ c # Idle /\ k' = [k EXCEPT !.uxSchedulerSuspended = 1]
  BY DEF BeginBlock
<1>2. "block" \in Points
  BY DEF Points
<1>3. High(k) /\ Steady(k) /\ Kernel(k)
  BY <1>1, <1>2, Inside
<1>4. 1 \in 1 .. MaxNesting
  BY Constants
<1>5. /\ Steady(k') /\ High(k') /\ PendOK(k') /\ SameClock(k, k')
      /\ k'.pxCurrentTCB = c /\ k'.uxSchedulerSuspended = 1
  BY <1>1, <1>3, <1>4, SuspendFrame
<1>6. /\ c \in Tasks /\ pc[c] = "run"
      /\ pc' \in [Tasks -> Points] /\ pc'[c] = "block"
      /\ \A t \in Tasks \ {c} : pc'[t] = pc[t]
      /\ UNCHANGED uptime
  BY <1>1, <1>2, GoesIs
<1>7. NoTickLost' /\ (uptime \in 0 .. W - 1)'
  BY <1>5, <1>6, TicksKept DEF Counts, Steady, Lists
<1>8. \A t \in Tasks \ {c} : pc'[t] \notin {"block", "blocked"}
  <2>1. \A t \in Tasks : pc[t] \in {"block", "blocked"} => t = c
    BY DEF IInv, PcOK
  <2> QED
    BY <1>6, <2>1
<1>9. PcOK'
  <2>1. Idle \in Tasks /\ Idle # c
    BY <1>1, Constants
  <2> QED
    BY <1>5, <1>6, <1>8, <2>1 DEF PcOK
<1>10. HighOK'
  BY <1>5 DEF HighOK
<1> QED
  BY <1>5, <1>6, <1>7, <1>9, <1>10 DEF IInv

\* The current task has left the ready lists with the scheduler suspended.
LEMMA BlockedStep ==
  ASSUME IInv, Goes("block", "blocked"), Steady(k'), SameRun(k, k'), SameClock(k, k')
  PROVE  IInv'
<1> DEFINE c == k.pxCurrentTCB
<1>1. "blocked" \in Points
  BY DEF Points
<1>2. /\ c \in Tasks /\ pc[c] = "block"
      /\ pc' \in [Tasks -> Points] /\ pc'[c] = "blocked"
      /\ \A t \in Tasks \ {c} : pc'[t] = pc[t]
      /\ UNCHANGED uptime
  BY <1>1, GoesIs
<1>3. k.uxSchedulerSuspended = 1 /\ \A t \in Tasks : pc[t] \in {"block", "blocked"} => t = c
  BY <1>2 DEF IInv, PcOK
<1>4. k'.pxCurrentTCB = c /\ k'.uxSchedulerSuspended = 1
  BY <1>3 DEF SameRun
<1>5. NoTickLost' /\ (uptime \in 0 .. W - 1)'
  BY <1>2, TicksKept DEF Counts, Steady, Lists
<1>6. PcOK'
  <2>1. Idle \in Tasks /\ pc[Idle] # "block"
    BY Constants DEF IInv, PcOK
  <2>2. \A t \in Tasks : pc'[t] \in {"block", "blocked"} => t = c
    BY <1>2, <1>3
  <2> QED
    BY <1>2, <1>4, <2>1, <2>2 DEF PcOK
<1>7. HighOK'
  BY <1>2, <1>4 DEF HighOK
<1>8. PendOK(k')
  BY <1>4 DEF PendOK
<1> QED
  BY <1>2, <1>5, <1>6, <1>7, <1>8 DEF IInv

LEMMA BlockerIsNotIdle ==
  ASSUME IInv, Goes("block", "blocked")
  PROVE  k.pxCurrentTCB # Idle
  BY DEF IInv, PcOK, Goes

LEMMA DelayStep == ASSUME NEW ticks \in Delays PROVE IInv /\ vTaskDelay(ticks) => IInv'
<1> SUFFICES ASSUME IInv, vTaskDelay(ticks) PROVE IInv'
  OBVIOUS
<1>1. Goes("block", "blocked") /\ k' = prvAddCurrentTaskToDelayedList(k, ticks, FALSE)
  BY DEF vTaskDelay
<1>2. ticks \in 1 .. W - 1 /\ "blocked" \in Points
  BY Constants DEF Points
<1>3. High(k) /\ Steady(k)
  BY <1>1, <1>2, Inside
<1>4. Lists(k) /\ DueOK(k) /\ PlaceOK(k) /\ EventOK(k) /\ k.pxCurrentTCB \in Ready(k)
      /\ Idle \in Ready(k)
  BY <1>3 DEF High, Steady
<1>5. /\ Lists(k') /\ DueOK(k') /\ PlaceOK(k')
      /\ Ready(k') = Ready(k) \ {k.pxCurrentTCB}
      /\ SameRun(k, k') /\ SameClock(k, k') /\ SameEvents(k, k')
  BY <1>1, <1>2, <1>4, AddCurrentIs
<1>6. EventOK(k')
  BY <1>4, <1>5 DEF EventOK, SameEvents
<1>7. Idle \in Ready(k')
  BY <1>1, <1>4, <1>5, BlockerIsNotIdle
<1> QED
  BY <1>1, <1>5, <1>6, <1>7, BlockedStep DEF Steady

LEMMA PlaceStep ==
  ASSUME NEW ticks \in Delays PROVE IInv /\ vTaskPlaceOnEventList(ticks) => IInv'
<1> SUFFICES ASSUME IInv, vTaskPlaceOnEventList(ticks) PROVE IInv'
  OBVIOUS
<1> DEFINE t == k.pxCurrentTCB
           item == Item(t, -k.uxPriority[t])
           f == vListInsert(k.events, item)
           s == [k EXCEPT !.events = f]
<1>1. Goes("block", "blocked") /\ k' = prvAddCurrentTaskToDelayedList(s, ticks, TRUE)
      /\ f = vListInsert(k.events, item)
  BY DEF vTaskPlaceOnEventList
<1>2. ticks \in 1 .. W - 1 /\ "blocked" \in Points
  BY Constants DEF Points
<1>3. High(k) /\ Steady(k)
  BY <1>1, <1>2, Inside
<1>4. /\ Lists(k) /\ DueOK(k) /\ PlaceOK(k) /\ EventOK(k) /\ t \in Ready(k)
      /\ Idle \in Ready(k)
      /\ Kernel(k) /\ RingsOK(k) /\ TopOK(k) /\ SleepOK(k) /\ NextOK(k)
  BY <1>3 DEF High, Steady, Lists
<1>5. t \in Tasks /\ DOMAIN k = FieldNames /\ k.events \in Items(Int)
      /\ DistinctOwners(k.events) /\ t \notin Owners(k.events) /\ t \notin In(k.pending)
  BY <1>4 DEF Kernel, EventOK
<1>6. item \in [owner : Tasks, value : Int] /\ item.owner = t
  <2>0. k.uxPriority \in [Tasks -> Levels] /\ Levels \subseteq Nat
    BY <1>4, PrioritiesAre, Constants
  <2>1. k.uxPriority[t] \in Int
    <3>1. t \in Tasks
      BY <1>5
    <3> HIDE DEF t
    <3>2. k.uxPriority[t] \in Levels
      BY <2>0, <3>1
    <3>3. \A x \in Levels : x \in Int
      BY Constants DEF Levels
    <3> QED
      BY ONLY <3>2, <3>3
  <2>2. -k.uxPriority[t] \in Int
    BY <2>1
  <2> QED
    BY <1>5, <2>2 DEF Item
<1> HIDE DEF item, f
<1>7. f \in Items(Int) /\ DistinctOwners(f) /\ Owners(f) = Owners(k.events) \cup {t}
  <2>1. Int \in SUBSET Int
    OBVIOUS
  <2> QED
    BY <1>1, <1>5, <1>6, <2>1, vListInsertIs
<1>8. /\ s.events = f /\ s.pending = k.pending /\ DOMAIN s = FieldNames
      /\ SameReady(k, s) /\ s.top = k.top /\ SameSleep(k, s) /\ s.suspended = k.suspended
      /\ SameRun(k, s) /\ SameClock(k, s)
  BY <1>5 DEF FieldNames, SameReady, SameSleep, SameRun, SameClock
<1> HIDE DEF s, t
<1>9. Kernel(s)
  BY <1>4, <1>7, <1>8 DEF Kernel, SameReady, SameSleep, SameRun, SameClock
<1>10. Ready(s) = Ready(k) /\ RingsOK(s) /\ TopOK(s)
  BY <1>4, <1>8, ReadyFrame
<1>11. SleepOK(s) /\ NextOK(s) /\ DueOK(s)
  BY <1>4, <1>8, SleepFrame
<1>12. PlaceOK(s)
  BY <1>4, <1>8, <1>10 DEF PlaceOK, SameSleep
<1>13. Lists(s) /\ s.pxCurrentTCB = t /\ t \in Ready(s)
  BY <1>4, <1>8, <1>9, <1>10, <1>11 DEF Lists, SameRun, t
<1>14. /\ Lists(k') /\ DueOK(k') /\ PlaceOK(k')
       /\ Ready(k') = Ready(s) \ {t}
       /\ SameRun(s, k') /\ SameClock(s, k') /\ SameEvents(s, k')
  <2>1. /\ Lists(k') /\ DueOK(k') /\ PlaceOK(k')
        /\ Ready(k') = Ready(s) \ {s.pxCurrentTCB}
        /\ SameRun(s, k') /\ SameClock(s, k') /\ SameEvents(s, k')
    BY <1>1, <1>2, <1>11, <1>12, <1>13, AddCurrentIs
  <2> QED
    BY <1>13, <2>1
<1>15. k'.events = f /\ k'.pending = k.pending /\ Ready(k') = Ready(k) \ {t}
  BY <1>8, <1>10, <1>14 DEF SameEvents
<1>16. EventOK(k')
  BY <1>4, <1>5, <1>7, <1>15 DEF EventOK
<1>17. Idle \in Ready(k')
  BY <1>1, <1>4, <1>15, BlockerIsNotIdle DEF t
<1>18. SameRun(k, k') /\ SameClock(k, k')
  BY <1>8, <1>14 DEF SameRun, SameClock
<1> QED
  BY <1>1, <1>14, <1>16, <1>17, <1>18, BlockedStep DEF Steady

LEMMA EndBlockStep == IInv /\ EndBlock => IInv'
<1> SUFFICES ASSUME IInv, EndBlock PROVE IInv'
  OBVIOUS
<1> DEFINE s == ResumedAll(k)
           b == s.xYieldPending
           c == k.pxCurrentTCB
           to == IF s.xYieldPending THEN "run" ELSE "yield"
<1>1. Goes("blocked", to) /\ k' = SwitchIf(s, b) /\ s = ResumedAll(k)
  BY DEF EndBlock
<1>2. to \in Points
  BY DEF Points
<1>3. /\ c \in Tasks /\ pc[c] = "blocked"
      /\ pc' \in [Tasks -> Points] /\ pc'[c] = to
      /\ \A t \in Tasks \ {c} : pc'[t] = pc[t]
      /\ UNCHANGED uptime
  <2> HIDE DEF to
  <2> QED
    BY <1>1, <1>2, GoesIs
<1>4. Steady(k) /\ PendOK(k) /\ k.uxSchedulerSuspended = 1
      /\ \A t \in Tasks : pc[t] \in {"block", "blocked"} => t = c
  BY <1>3 DEF IInv, PcOK
<1> HIDE DEF s
<1>5. /\ Steady(s) /\ Grows(k, s) /\ PendOK(s) /\ s.uxSchedulerSuspended = 0
      /\ \/ SameClock(k, s)
         \/ s.xTickCount = (k.xTickCount + k.xPendedTicks) % W /\ s.xPendedTicks = 0
  <2>1. /\ Steady(s) /\ Grows(k, s) /\ PendOK(s)
        /\ s.uxSchedulerSuspended = k.uxSchedulerSuspended - 1
        /\ \/ SameClock(k, s)
           \/ s.xTickCount = (k.xTickCount + k.xPendedTicks) % W /\ s.xPendedTicks = 0
    BY <1>1, <1>4, ResumedIs
  <2> QED
    BY <1>4, <2>1
<1>6. b \in BOOLEAN
  BY <1>5 DEF Steady, Lists, Kernel
<1>7. /\ Steady(k') /\ PendOK(k') /\ SameClock(s, k') /\ k'.uxSchedulerSuspended = 0
      /\ Turns(s, k', b)
  BY <1>1, <1>5, <1>6, SwitchIfIs
<1>8. NoTickLost' /\ (uptime \in 0 .. W - 1)'
  <2>1. Counts(k, k')
    BY <1>5, <1>7 DEF Counts, SameClock
  <2> QED
    BY <1>3, <1>7, <2>1, TicksKept DEF Steady, Lists
<1>9. PcOK'
  <2>1. Idle \in Tasks
    BY Constants
  <2>2. \A t \in Tasks : pc'[t] \notin {"block", "blocked"}
    BY <1>3, <1>4
  <2> QED
    BY <1>7, <2>1, <2>2 DEF PcOK
<1>10. HighOK'
  <2>1. CASE High(k')
    BY <2>1 DEF HighOK
  <2>2. CASE b
    <3>1. k' = vTaskSwitchContext(s)
      BY <1>1, <2>2 DEF SwitchIf
    <3>2. AtTop(k')
      BY <1>5, <3>1, SwitchIs
    <3> QED
      BY <3>2 DEF HighOK, High, AtTop
  <2>3. CASE ~b
    <3>1. k' = s
      BY <1>1, <2>3 DEF SwitchIf
    <3>2. k'.pxCurrentTCB = c /\ pc'[c] = "yield"
      BY <1>3, <1>5, <2>3, <3>1 DEF Grows
    <3> QED
      BY <3>2 DEF HighOK
  <2> QED
    BY <1>6, <2>2, <2>3
<1> QED
  BY <1>3, <1>7, <1>8, <1>9, <1>10 DEF IInv

LEMMA YieldStep == IInv /\ portYIELD => IInv'
<1> SUFFICES ASSUME IInv, portYIELD PROVE IInv'
  OBVIOUS
<1> DEFINE c == k.pxCurrentTCB
<1>1. k' = vTaskSwitchContext(k) /\ (Goes("yield", "run") \/ (Running /\ Goes("run", "run")))
  BY DEF portYIELD
<1>2. Steady(k) /\ PendOK(k)
  BY DEF IInv
<1>3. k.uxSchedulerSuspended = 0
  BY <1>1 DEF Running, Goes, IInv, PcOK
<1>4. /\ Steady(k') /\ AtTop(k') /\ k'.uxSchedulerSuspended = 0
      /\ ~k'.xYieldPending /\ SameClock(k, k') /\ SameEvents(k, k')
  BY <1>1, <1>2, <1>3, SwitchIs
<1>5. High(k') /\ PendOK(k') /\ Counts(k, k')
  BY <1>2, <1>3, <1>4 DEF High, AtTop, PendOK, SameEvents, Counts
<1>6. CASE Goes("run", "run")
  BY <1>4, <1>5, <1>6, RunStep
<1>7. CASE Goes("yield", "run")
  <2>1. "run" \in Points
    BY DEF Points
  <2>2. /\ c \in Tasks /\ pc' \in [Tasks -> Points] /\ pc'[c] = "run"
        /\ \A t \in Tasks \ {c} : pc'[t] = pc[t]
        /\ UNCHANGED uptime
    BY <1>7, <2>1, GoesIs
  <2>3. \A t \in Tasks : pc'[t] \notin {"block", "blocked"}
    <3>1. \A t \in Tasks : pc[t] \notin {"block", "blocked"}
      BY <1>3 DEF IInv, PcOK
    <3> QED
      BY <2>2, <3>1
  <2>4. PcOK'
    BY <1>4, <2>3, Constants DEF PcOK
  <2>5. NoTickLost' /\ (uptime \in 0 .. W - 1)'
    BY <1>4, <1>5, <2>2, TicksKept DEF Steady, Lists
  <2>6. HighOK'
    BY <1>5 DEF HighOK
  <2> QED
    BY <1>4, <1>5, <2>2, <2>4, <2>5, <2>6 DEF IInv
<1> QED
  BY <1>1, <1>6, <1>7

\* The first critical section of vTaskSuspend.
LEMMA SuspendIs ==
  ASSUME NEW s, Steady(s), PendOK(s), NEW t \in Tasks, t # Idle,
         NEW u, u = [RemoveEventItem(RemoveStateItem(s, t), t) EXCEPT !.suspended = @ \cup {t}]
  PROVE  /\ Steady(u) /\ PendOK(u) /\ Ready(u) = Ready(s) \ {t}
         /\ SameRun(s, u) /\ SameClock(s, u)
<1> DEFINE a == RemoveStateItem(s, t)
           d == RemoveEventItem(a, t)
<1>1. /\ Kernel(s) /\ EventOK(s) /\ PlaceOK(s) /\ DueOK(s) /\ Lists(s) /\ Idle \in Ready(s)
  BY DEF Steady, Lists
<1>2. a = RemoveStateItem(s, t) /\ d = RemoveEventItem(a, t)
      /\ u = [d EXCEPT !.suspended = d.suspended \cup {t}]
  OBVIOUS
<1> HIDE DEF a, d
<1>3. /\ Lists(a) /\ DueOK(a)
      /\ Ready(a) = Ready(s) \ {t}
      /\ Owners(a.delayed) = Owners(s.delayed) \ {t}
      /\ Owners(a.overflow) = Owners(s.overflow) \ {t}
      /\ a.suspended = s.suspended \ {t}
      /\ SameRun(s, a) /\ SameClock(s, a) /\ SameEvents(s, a)
  <2>1. a = RemoveStateItem(s, t) /\ Lists(s) /\ DueOK(s)
    BY <1>1, <1>2
  <2>2. /\ Lists(a) /\ (DueOK(s) => DueOK(a))
        /\ Ready(a) = Ready(s) \ {t}
        /\ Owners(a.delayed) = Owners(s.delayed) \ {t}
        /\ Owners(a.overflow) = Owners(s.overflow) \ {t}
        /\ a.suspended = s.suspended \ {t}
        /\ SameRun(s, a) /\ SameClock(s, a) /\ SameEvents(s, a)
    BY ONLY t \in Tasks, <2>1, RemoveIs
  <2> QED
    BY <2>1, <2>2
<1>4. /\ Kernel(a) /\ RingsOK(a) /\ TopOK(a) /\ SleepOK(a) /\ NextOK(a)
      /\ DOMAIN a = FieldNames
  BY <1>3 DEF Lists, Kernel
<1> DEFINE e == Drop(s.events, {t})
           w == Without(s.pending, t)
<1>5. a.events = s.events /\ a.pending = s.pending
  BY <1>3 DEF SameEvents
<1>6. /\ d.events = e /\ d.pending = w /\ d.suspended = a.suspended /\ DOMAIN d = FieldNames
      /\ SameReady(a, d) /\ d.top = a.top /\ SameSleep(a, d)
      /\ SameRun(a, d) /\ SameClock(a, d)
  BY <1>2, <1>4, <1>5
    DEF RemoveEventItem, FieldNames, SameReady, SameSleep, SameRun, SameClock
<1>7. e = Drop(s.events, {t}) /\ w = Without(s.pending, t)
  OBVIOUS
<1> HIDE DEF e, w
<1>8. /\ u.events = e /\ u.pending = w /\ u.suspended = a.suspended \cup {t}
      /\ DOMAIN u = FieldNames
      /\ SameReady(a, u) /\ u.top = a.top /\ SameSleep(a, u)
      /\ SameRun(a, u) /\ SameClock(a, u)
  BY <1>2, <1>6 DEF FieldNames, SameReady, SameSleep, SameRun, SameClock
<1>9. /\ s.events \in Items(Int) /\ DistinctOwners(s.events)
      /\ s.pending \in Seq(Tasks) /\ Distinct(s.pending)
  BY <1>1 DEF Kernel, EventOK
<1>10. e \in Items(Int) /\ DistinctOwners(e) /\ Owners(e) = Owners(s.events) \ {t}
  BY <1>7, <1>9, DropIs
<1>11. w \in Seq(Tasks) /\ Distinct(w) /\ In(w) = In(s.pending) \ {t}
  BY <1>7, <1>9, WithoutIs
<1>12. Kernel(u)
  <2>1. u.suspended \in SUBSET Tasks
    BY <1>4, <1>8 DEF Kernel
  <2> QED
    BY <1>4, <1>8, <1>10, <1>11, <2>1 DEF Kernel, SameReady, SameSleep, SameRun, SameClock
<1>13. Ready(u) = Ready(a) /\ RingsOK(u) /\ TopOK(u)
  BY <1>4, <1>8, ReadyFrame
<1>14. SleepOK(u) /\ NextOK(u) /\ DueOK(u)
  BY <1>3, <1>4, <1>8, SleepFrame
<1>15. /\ Owners(u.delayed) = Owners(s.delayed) \ {t}
       /\ Owners(u.overflow) = Owners(s.overflow) \ {t}
       /\ u.suspended = s.suspended \cup {t}
       /\ Ready(u) = Ready(s) \ {t}
  BY <1>3, <1>8, <1>13 DEF SameSleep
<1>16. PlaceOK(u)
  BY <1>1, <1>15 DEF PlaceOK, Placed
<1>17. EventOK(u)
  BY <1>1, <1>8, <1>10, <1>11, <1>15 DEF EventOK
<1>18. SameRun(s, u) /\ SameClock(s, u)
  BY <1>3, <1>8 DEF SameRun, SameClock
<1>19. PendOK(u)
  <2> SUFFICES ASSUME w # <<>> PROVE s.uxSchedulerSuspended # 0
    BY <1>8, <1>18 DEF PendOK, SameRun
  <2>1. 1 \in DOMAIN w
    BY <1>11
  <2>2. w[1] \in In(s.pending)
    BY <1>11, <2>1 DEF In
  <2>3. s.pending # <<>>
    BY <2>2 DEF In
  <2> QED
    BY <2>3 DEF PendOK
<1> QED
  BY <1>1, <1>12, <1>13, <1>14, <1>15, <1>16, <1>17, <1>18, <1>19 DEF Steady, Lists

LEMMA SuspendStep == ASSUME NEW t \in Tasks PROVE IInv /\ vTaskSuspend(t) => IInv'
<1> SUFFICES ASSUME IInv, vTaskSuspend(t) PROVE IInv'
  OBVIOUS
<1> DEFINE c == k.pxCurrentTCB
           to == IF t = c THEN "resetSelf" ELSE "reset"
<1>1. /\ Goes("run", to) /\ t # Idle /\ (t = c => k.uxSchedulerSuspended = 0)
      /\ k' = [RemoveEventItem(RemoveStateItem(k, t), t) EXCEPT !.suspended = @ \cup {t}]
  BY DEF vTaskSuspend, Running
<1>2. to \in Points
  BY DEF Points
<1>3. High(k) /\ Steady(k) /\ PendOK(k)
  <2> HIDE DEF to
  <2> QED
    BY <1>1, <1>2, Inside
<1>4. /\ c \in Tasks /\ pc[c] = "run"
      /\ pc' \in [Tasks -> Points] /\ pc'[c] = to
      /\ \A x \in Tasks \ {c} : pc'[x] = pc[x]
      /\ UNCHANGED uptime
  <2> HIDE DEF to
  <2> QED
    BY <1>1, <1>2, GoesIs
<1>5. /\ Steady(k') /\ PendOK(k') /\ Ready(k') = Ready(k) \ {t}
      /\ SameRun(k, k') /\ SameClock(k, k')
  BY <1>1, <1>3, SuspendIs
<1>6. NoTickLost' /\ (uptime \in 0 .. W - 1)'
  BY <1>4, <1>5, TicksKept DEF Counts, Steady, Lists
<1>7. k'.pxCurrentTCB = c /\ k'.uxSchedulerSuspended = k.uxSchedulerSuspended
      /\ k'.uxPriority = k.uxPriority /\ k'.xYieldPending = k.xYieldPending
  BY <1>5 DEF SameRun
<1>8. PcOK'
  <2>1. \A x \in Tasks : pc'[x] \notin {"block", "blocked"}
    <3>1. \A x \in Tasks : pc[x] \in {"block", "blocked"} => x = c
      BY DEF IInv, PcOK
    <3> QED
      BY <1>4, <3>1
  <2>2. Idle \in Tasks
    BY Constants
  <2> QED
    BY <1>1, <1>4, <1>7, <2>1, <2>2 DEF PcOK
<1>9. HighOK'
  <2>1. CASE t = c
    BY <1>4, <1>7, <2>1 DEF HighOK
  <2>2. CASE t # c
    <3>1. High(k')
      BY <1>3, <1>5, <1>7, <2>2 DEF High, AtTop
    <3> QED
      BY <3>1 DEF HighOK
  <2> QED
    BY <2>1, <2>2
<1> QED
  BY <1>4, <1>5, <1>6, <1>8, <1>9 DEF IInv

LEMMA SuspendResetStep == IInv /\ SuspendReset => IInv'
<1> SUFFICES ASSUME IInv, SuspendReset PROVE IInv'
  OBVIOUS
<1> DEFINE c == k.pxCurrentTCB
<1>1. k' = prvResetNextTaskUnblockTime(k) /\ (Goes("reset", "run") \/ Goes("resetSelf", "yield"))
  BY DEF SuspendReset
<1>2. /\ Steady(k) /\ PendOK(k) /\ Kernel(k) /\ RingsOK(k) /\ TopOK(k) /\ SleepOK(k)
      /\ DueOK(k) /\ PlaceOK(k) /\ EventOK(k) /\ Idle \in Ready(k)
  BY DEF IInv, Steady, Lists
<1>3. /\ Kernel(k') /\ SleepOK(k') /\ NextOK(k') /\ DueOK(k')
      /\ k'.delayed = k.delayed /\ k'.overflow = k.overflow /\ k'.suspended = k.suspended
      /\ SameReady(k, k') /\ k'.top = k.top
      /\ SameRun(k, k') /\ SameClock(k, k') /\ SameEvents(k, k')
  BY <1>1, <1>2, ResetIs
<1>4. Ready(k') = Ready(k) /\ RingsOK(k') /\ TopOK(k')
  BY <1>2, <1>3, ReadyFrame
<1>5. PlaceOK(k') /\ EventOK(k')
  BY <1>2, <1>3, <1>4 DEF PlaceOK, EventOK, SameEvents
<1>6. Steady(k')
  BY <1>2, <1>3, <1>4, <1>5 DEF Steady, Lists
<1>7. k'.pxCurrentTCB = c /\ k'.uxSchedulerSuspended = k.uxSchedulerSuspended
      /\ k'.uxPriority = k.uxPriority /\ k'.xYieldPending = k.xYieldPending
  BY <1>3 DEF SameRun
<1>8. PendOK(k')
  BY <1>2, <1>3, <1>7 DEF PendOK, SameEvents
<1>9. High(k) => High(k')
  BY <1>4, <1>7 DEF High, AtTop
<1>10. "run" \in Points /\ "yield" \in Points
  BY DEF Points
<1>11. Idle \in Tasks
  BY Constants
<1>12. ASSUME NEW from \in {"reset", "resetSelf"}, NEW to \in {"run", "yield"}, Goes(from, to),
              to = "yield" => k.uxSchedulerSuspended = 0,
              to = "run" => High(k')
       PROVE  IInv'
  <2>1. /\ c \in Tasks /\ pc[c] = from
        /\ pc' \in [Tasks -> Points] /\ pc'[c] = to
        /\ \A x \in Tasks \ {c} : pc'[x] = pc[x]
        /\ UNCHANGED uptime
    BY <1>10, <1>12, GoesIs
  <2>2. NoTickLost' /\ (uptime \in 0 .. W - 1)'
    BY <1>3, <2>1, TicksKept DEF Counts
  <2>3. \A x \in Tasks : pc'[x] \notin {"block", "blocked"}
    <3>1. \A x \in Tasks : pc[x] \in {"block", "blocked"} => x = c
      BY DEF IInv, PcOK
    <3> QED
      BY <2>1, <3>1
  <2>4. PcOK'
    BY <1>7, <1>11, <1>12, <2>1, <2>3 DEF PcOK
  <2>5. HighOK'
    BY <1>7, <1>12, <2>1 DEF HighOK
  <2> QED
    BY <1>6, <1>8, <2>1, <2>2, <2>4, <2>5 DEF IInv
<1>13. CASE Goes("reset", "run")
  <2>1. High(k)
    BY <1>13 DEF IInv, HighOK, Goes
  <2> QED
    BY <1>9, <1>12, <1>13, <2>1
<1>14. CASE Goes("resetSelf", "yield")
  <2>1. k.uxSchedulerSuspended = 0
    BY <1>14 DEF IInv, PcOK, Goes
  <2> QED
    BY <1>12, <1>14, <2>1
<1> QED
  BY <1>1, <1>13, <1>14

\* A suspended task that waits for nothing is made ready.
LEMMA ResumeTaskIs ==
  ASSUME NEW s, Steady(s), PendOK(s), NEW t \in Tasks, prvTaskIsTaskSuspended(s, t),
         NEW u, u = AddToReadyLists(RemoveStateItem(s, t), <<t>>)
  PROVE  /\ Steady(u) /\ PendOK(u) /\ Ready(u) = Ready(s) \cup {t}
         /\ SameRun(s, u) /\ SameClock(s, u)
<1>1. Lists(s) /\ DueOK(s) /\ PlaceOK(s) /\ EventOK(s) /\ Idle \in Ready(s)
  BY DEF Steady
<1>2. /\ Lists(u) /\ (DueOK(s) => DueOK(u)) /\ (PlaceOK(s) => PlaceOK(u))
      /\ Ready(u) = Ready(s) \cup {t}
      /\ SameRun(s, u) /\ SameClock(s, u) /\ SameEvents(s, u)
  BY <1>1, MakeReadyIs
<1>3. t \notin In(s.pending) /\ t \notin Owners(s.events)
  BY DEF prvTaskIsTaskSuspended
<1>4. EventOK(u)
  BY <1>1, <1>2, <1>3 DEF EventOK, SameEvents
<1>5. PendOK(u)
  BY <1>2 DEF PendOK, SameRun, SameEvents
<1> QED
  BY <1>1, <1>2, <1>4, <1>5 DEF Steady

\* The running task, or an interrupt, makes ready a task that was suspended.
LEMMA ResumedNoted ==
  ASSUME NEW s, Kernel(s), NEW t \in Tasks, NEW u, Ready(u) = Ready(s) \cup {t},
         NEW b, b = (s.uxPriority[s.pxCurrentTCB] < s.uxPriority[t])
  PROVE  b \in BOOLEAN /\ Noted(s, u, b)
<1>1. s.uxPriority \in [Tasks -> Levels] /\ s.pxCurrentTCB \in Tasks
  BY PrioritiesAre DEF Kernel
<1>2. \A x \in Levels : x \in Nat
  BY Constants
<1>3. s.uxPriority[t] \in Nat /\ s.uxPriority[s.pxCurrentTCB] \in Nat
  BY <1>1, <1>2
<1>4. ASSUME ~b, NEW x \in Ready(u) \ Ready(s)
      PROVE  s.uxPriority[x] <= s.uxPriority[s.pxCurrentTCB]
  <2>1. x = t
    BY <1>4
  <2>2. ~(s.uxPriority[s.pxCurrentTCB] < s.uxPriority[t])
    BY <1>4, Zenon
  <2>3. s.uxPriority[t] <= s.uxPriority[s.pxCurrentTCB]
    BY ONLY <1>3, <2>2
  <2> QED
    BY <2>1, <2>3
<1> QED
  BY <1>4 DEF Noted

LEMMA ResumeStep == ASSUME NEW t \in Tasks PROVE IInv /\ vTaskResume(t) => IInv'
<1> SUFFICES ASSUME IInv, vTaskResume(t) PROVE IInv'
  OBVIOUS
<1> DEFINE u == AddToReadyLists(RemoveStateItem(k, t), <<t>>)
           b == k.uxPriority[k.pxCurrentTCB] < k.uxPriority[t]
<1>1. /\ Goes("run", "run") /\ prvTaskIsTaskSuspended(k, t) /\ k' = SwitchIf(u, b)
      /\ u = AddToReadyLists(RemoveStateItem(k, t), <<t>>)
      /\ b = (k.uxPriority[k.pxCurrentTCB] < k.uxPriority[t])
  BY DEF vTaskResume
<1> HIDE DEF u, b
<1>2. "run" \in Points
  BY DEF Points
<1>3. High(k) /\ Steady(k) /\ PendOK(k) /\ Kernel(k)
  BY <1>1, <1>2, Inside
<1>4. /\ Steady(u) /\ PendOK(u) /\ Ready(u) = Ready(k) \cup {t}
      /\ SameRun(k, u) /\ SameClock(k, u)
  BY <1>1, <1>3, ResumeTaskIs
<1>5. b \in BOOLEAN /\ Noted(k, u, b)
  BY <1>1, <1>3, <1>4, ResumedNoted
<1>6. /\ Steady(k') /\ PendOK(k') /\ SameClock(u, k')
      /\ k'.uxSchedulerSuspended = u.uxSchedulerSuspended
      /\ Turns(u, k', b)
  BY <1>1, <1>4, <1>5, SwitchIfIs
<1>7. High(k')
  <2>1. /\ u.uxPriority = k.uxPriority /\ u.pxCurrentTCB = k.pxCurrentTCB
        /\ Ready(k) \subseteq Ready(u) /\ (k.xYieldPending => u.xYieldPending \/ b)
    BY <1>4 DEF SameRun
  <2>2. Noted(k, u, u.xYieldPending \/ b)
    BY <1>5 DEF Noted
  <2> QED
    BY <1>3, <1>5, <1>6, <2>1, <2>2, GrowsTurns
<1>8. k'.uxSchedulerSuspended = 0 \/ k'.pxCurrentTCB = k.pxCurrentTCB
  BY <1>4, <1>6 DEF Turns, SameRun
<1>9. Counts(k, k')
  BY <1>4, <1>6 DEF Counts, SameClock
<1> QED
  BY <1>1, <1>6, <1>7, <1>8, <1>9, RunStep

LEMMA SignalStep == IInv /\ Signal => IInv'
<1> SUFFICES ASSUME IInv, Signal PROVE IInv'
  OBVIOUS
<1> DEFINE u == xTaskRemoveFromEventList(k)
           b == k.uxPriority[Head(k.events).owner] > k.uxPriority[k.pxCurrentTCB]
<1>1. /\ Goes("run", "run") /\ k.events # <<>> /\ k' = SwitchIf(u, b)
      /\ u = xTaskRemoveFromEventList(k) /\ b \in BOOLEAN
  BY DEF Signal
<1> HIDE DEF u, b
<1>2. "run" \in Points
  BY DEF Points
<1>3. High(k) /\ Steady(k) /\ PendOK(k) /\ Kernel(k)
  BY <1>1, <1>2, Inside
<1>4. /\ Steady(u) /\ Grows(k, u) /\ PendOK(u)
      /\ u.uxSchedulerSuspended = k.uxSchedulerSuspended /\ SameClock(k, u)
  BY <1>1, <1>3, EventIs
<1>5. /\ Steady(k') /\ PendOK(k') /\ SameClock(u, k')
      /\ k'.uxSchedulerSuspended = u.uxSchedulerSuspended
      /\ Turns(u, k', b)
  BY <1>1, <1>4, SwitchIfIs
<1>6. High(u)
  BY <1>3, <1>4, GrowsHigh
<1>7. High(k') /\ (k'.uxSchedulerSuspended = 0 \/ k'.pxCurrentTCB = k.pxCurrentTCB)
  BY <1>4, <1>5, <1>6 DEF Turns, High, AtTop, Grows
<1>8. Counts(k, k')
  BY <1>4, <1>5 DEF Counts, SameClock
<1> QED
  BY <1>1, <1>5, <1>7, <1>8, RunStep

\* An interrupt that has kept the lists in order and the ticks counted.
LEMMA FromISRStep ==
  ASSUME IInv, UNCHANGED <<pc, uptime>>, Steady(k'), PendOK(k'), SameClock(k, k'),
         k'.uxSchedulerSuspended = k.uxSchedulerSuspended,
         \/ k'.uxSchedulerSuspended = 0 /\ High(k')
         \/ k'.pxCurrentTCB = k.pxCurrentTCB /\ (High(k) => High(k'))
  PROVE  IInv'
<1>1. pc' \in [Tasks -> Points] /\ HighOK' /\ PcOK'
  BY InterruptStep
<1>2. NoTickLost' /\ (uptime \in 0 .. W - 1)'
  BY TicksKept DEF Counts, Steady, Lists
<1> QED
  BY <1>1, <1>2 DEF IInv

\* The switch that an interrupt asks for, or does not.
LEMMA ISRSwitch ==
  ASSUME NEW s, NEW u, NEW v, Steady(u), Grows(s, u), PendOK(u), SameClock(s, u),
         u.uxSchedulerSuspended = s.uxSchedulerSuspended,
         v = u \/ v = vTaskSwitchContext(u)
  PROVE  /\ Steady(v) /\ PendOK(v) /\ SameClock(s, v)
         /\ v.uxSchedulerSuspended = s.uxSchedulerSuspended
         /\ \/ v.uxSchedulerSuspended = 0 /\ High(v)
            \/ v.pxCurrentTCB = s.pxCurrentTCB /\ (High(s) => High(v))
<1>1. High(s) => High(u)
  BY GrowsHigh
<1>2. CASE v = u
  BY <1>1, <1>2 DEF Grows
<1>3. CASE v = vTaskSwitchContext(u)
  <2>1. /\ Steady(v) /\ PendOK(v) /\ SameClock(u, v)
        /\ v.uxSchedulerSuspended = u.uxSchedulerSuspended
        /\ Turns(u, v, TRUE)
    BY <1>3, SwitchContextIs
  <2>2. CASE v.uxSchedulerSuspended = 0 /\ High(v)
    BY <2>1, <2>2 DEF SameClock
  <2>3. CASE /\ v.pxCurrentTCB = u.pxCurrentTCB /\ Ready(v) = Ready(u)
             /\ v.uxPriority = u.uxPriority /\ v.xYieldPending
    <3>1. v.pxCurrentTCB = s.pxCurrentTCB
      BY <2>3 DEF Grows
    <3>2. High(s) => High(v)
      BY <1>1, <2>3 DEF High
    <3> QED
      BY <2>1, <3>1, <3>2 DEF SameClock
  <2> QED
    BY <2>1, <2>2, <2>3 DEF Turns
<1> QED
  BY <1>2, <1>3

LEMMA SignalISRStep == IInv /\ SignalFromISR => IInv'
<1> SUFFICES ASSUME IInv, SignalFromISR PROVE IInv'
  OBVIOUS
<1> DEFINE u == xTaskRemoveFromEventList(k)
<1>1. /\ k.events # <<>> /\ (k' = u \/ k' = vTaskSwitchContext(u))
      /\ u = xTaskRemoveFromEventList(k) /\ UNCHANGED <<pc, uptime>>
  BY DEF SignalFromISR
<1> HIDE DEF u
<1>2. Steady(k) /\ PendOK(k)
  BY DEF IInv
<1>3. /\ Steady(u) /\ Grows(k, u) /\ PendOK(u)
      /\ u.uxSchedulerSuspended = k.uxSchedulerSuspended /\ SameClock(k, u)
  BY <1>1, <1>2, EventIs
<1>4. /\ Steady(k') /\ PendOK(k') /\ SameClock(k, k')
      /\ k'.uxSchedulerSuspended = k.uxSchedulerSuspended
      /\ \/ k'.uxSchedulerSuspended = 0 /\ High(k')
         \/ k'.pxCurrentTCB = k.pxCurrentTCB /\ (High(k) => High(k'))
  BY <1>1, <1>3, ISRSwitch
<1> QED
  BY <1>1, <1>4, FromISRStep

\* A change of xYieldPending alone.
Yields(v, b) == [v EXCEPT !.xYieldPending = v.xYieldPending \/ b]

Pends(v, u, b) == u.xYieldPending = (v.xYieldPending \/ b)

LEMMA NoteYield ==
  ASSUME NEW v, Steady(v), NEW b \in BOOLEAN, NEW u, u = Yields(v, b)
  PROVE  /\ Steady(u) /\ Ready(u) = Ready(v) /\ SameEvents(v, u) /\ SameClock(v, u)
         /\ Pends(v, u, b)
         /\ u.uxPriority = v.uxPriority /\ u.pxCurrentTCB = v.pxCurrentTCB
         /\ u.uxSchedulerSuspended = v.uxSchedulerSuspended
<1>1. Kernel(v) /\ DOMAIN v = FieldNames
  BY DEF Steady, Lists, Kernel
<1>2. u.xYieldPending = (v.xYieldPending \/ b)
  BY <1>1 DEF FieldNames, Yields
<1>3. /\ SameLists(v, u) /\ SameClock(v, u) /\ DOMAIN u = FieldNames
      /\ u.uxSchedulerSuspended = v.uxSchedulerSuspended /\ u.pxCurrentTCB = v.pxCurrentTCB
  BY <1>1 DEF Yields, FieldNames, SameLists, SameReady, SameSleep, SameEvents, SameClock
<1>4. Kernel(u)
  BY <1>1, <1>2, <1>3 DEF Kernel, SameLists, SameReady, SameSleep, SameEvents, SameClock
<1>5. Steady(u) /\ Ready(u) = Ready(v)
  BY <1>3, <1>4, SteadyFrame
<1> QED
  BY <1>2, <1>3, <1>5 DEF SameLists, SameReady, Pends

\* A suspended task that waits for nothing is put into xPendingReadyList.
LEMMA PendIs ==
  ASSUME NEW s, Steady(s), s.uxSchedulerSuspended # 0, NEW t \in Tasks,
         prvTaskIsTaskSuspended(s, t),
         NEW u, u = [s EXCEPT !.pending = Append(s.pending, t)]
  PROVE  /\ Steady(u) /\ PendOK(u) /\ Ready(u) = Ready(s)
         /\ SameRun(s, u) /\ SameClock(s, u)
<1> DEFINE ts == Append(s.pending, t)
<1>1. /\ Kernel(s) /\ RingsOK(s) /\ TopOK(s) /\ SleepOK(s) /\ NextOK(s)
      /\ DueOK(s) /\ PlaceOK(s) /\ EventOK(s) /\ Idle \in Ready(s)
  BY DEF Steady, Lists
<1>2. /\ DOMAIN s = FieldNames /\ s.pending \in Seq(Tasks) /\ Distinct(s.pending)
      /\ t \notin In(s.pending) /\ t \notin Owners(s.events) /\ t \in s.suspended
  BY <1>1 DEF Kernel, EventOK, prvTaskIsTaskSuspended
<1>3. t \notin Ready(s)
  BY <1>1, <1>2 DEF PlaceOK, Placed
<1>4. ts = Append(s.pending, t)
  OBVIOUS
<1> HIDE DEF ts
<1>5. ts \in Seq(Tasks) /\ Distinct(ts) /\ In(ts) = In(s.pending) \cup {t} /\ ts # <<>>
  BY <1>2, <1>4, AppendIs
<1>6. /\ u.pending = ts /\ u.events = s.events /\ DOMAIN u = FieldNames
      /\ SameReady(s, u) /\ u.top = s.top /\ SameSleep(s, u) /\ u.suspended = s.suspended
      /\ SameRun(s, u) /\ SameClock(s, u)
  BY <1>2, <1>4 DEF FieldNames, SameReady, SameSleep, SameRun, SameClock
<1>7. Kernel(u)
  BY <1>1, <1>5, <1>6 DEF Kernel, SameReady, SameSleep, SameRun, SameClock
<1>8. Ready(u) = Ready(s) /\ RingsOK(u) /\ TopOK(u)
  BY <1>1, <1>6, ReadyFrame
<1>9. SleepOK(u) /\ NextOK(u) /\ DueOK(u)
  BY <1>1, <1>6, SleepFrame
<1>10. PlaceOK(u)
  BY <1>1, <1>6, <1>8 DEF PlaceOK, SameSleep
<1>11. EventOK(u)
  BY <1>1, <1>2, <1>3, <1>5, <1>6, <1>8 DEF EventOK
<1>12. PendOK(u)
  BY <1>6 DEF PendOK, SameRun
<1> QED
  BY <1>1, <1>6, <1>7, <1>8, <1>9, <1>10, <1>11, <1>12 DEF Steady, Lists

LEMMA ResumeISRStep == ASSUME NEW t \in Tasks PROVE IInv /\ xTaskResumeFromISR(t) => IInv'
<1> SUFFICES ASSUME IInv, xTaskResumeFromISR(t) PROVE IInv'
  OBVIOUS
<1> DEFINE v == AddToReadyLists(RemoveStateItem(k, t), <<t>>)
           b == k.uxPriority[k.pxCurrentTCB] < k.uxPriority[t]
           u == Yields(v, b)
<1>1. Steady(k) /\ PendOK(k) /\ Kernel(k) /\ prvTaskIsTaskSuspended(k, t)
      /\ UNCHANGED <<pc, uptime>>
  BY DEF IInv, Steady, Lists, xTaskResumeFromISR
<1>2. CASE k.uxSchedulerSuspended = 0
  <2>1. k.uxPriority[t] \in Int /\ k.uxPriority[k.pxCurrentTCB] \in Int
    <3>1. k.uxPriority \in [Tasks -> Levels] /\ k.pxCurrentTCB \in Tasks
      BY <1>1, PrioritiesAre DEF Kernel
    <3>2. \A x \in Levels : x \in Int
      BY Constants
    <3> QED
      BY <3>1, <3>2
  <2>2. (k.uxPriority[t] > k.uxPriority[k.pxCurrentTCB]) = b
    BY ONLY <2>1
  <2>3. k' = u \/ k' = vTaskSwitchContext(u)
    <3>1. LET higher == k.uxPriority[t] > k.uxPriority[k.pxCurrentTCB]
              s == [v EXCEPT !.xYieldPending = v.xYieldPending \/ higher]
          IN  k' = s \/ k' = vTaskSwitchContext(s)
      BY <1>2 DEF xTaskResumeFromISR, Running
    <3> HIDE DEF b, v
    <3> QED
      BY <2>2, <3>1 DEF Yields
  <2>4. /\ v = AddToReadyLists(RemoveStateItem(k, t), <<t>>)
        /\ b = (k.uxPriority[k.pxCurrentTCB] < k.uxPriority[t])
        /\ u = Yields(v, b)
    OBVIOUS
  <2> HIDE DEF u, v, b
  <2>5. /\ Steady(v) /\ PendOK(v) /\ Ready(v) = Ready(k) \cup {t}
        /\ SameRun(k, v) /\ SameClock(k, v)
    BY <1>1, <2>4, ResumeTaskIs
  <2>6. b \in BOOLEAN /\ Noted(k, v, b)
    BY <1>1, <2>4, <2>5, ResumedNoted
  <2>7. /\ Steady(u) /\ Ready(u) = Ready(v) /\ SameEvents(v, u) /\ SameClock(v, u)
        /\ Pends(v, u, b)
        /\ u.uxPriority = v.uxPriority /\ u.pxCurrentTCB = v.pxCurrentTCB
        /\ u.uxSchedulerSuspended = v.uxSchedulerSuspended
    <3>1. Steady(v)
      BY <2>5
    <3>2. b \in BOOLEAN
      BY <2>6
    <3>3. u = Yields(v, b)
      BY <2>4
    <3> QED
      BY ONLY <3>1, <3>2, <3>3, NoteYield, Zenon
  <2>8. Noted(k, u, u.xYieldPending)
    BY <2>6, <2>7 DEF Noted, Pends
  <2>9. Grows(k, u)
    BY <2>5, <2>6, <2>7, <2>8 DEF Grows, SameRun, Pends
  <2>10. PendOK(u) /\ SameClock(k, u) /\ u.uxSchedulerSuspended = k.uxSchedulerSuspended
    BY <2>5, <2>7 DEF PendOK, SameClock, SameRun, SameEvents
  <2>11. /\ Steady(k') /\ PendOK(k') /\ SameClock(k, k')
         /\ k'.uxSchedulerSuspended = k.uxSchedulerSuspended
         /\ \/ k'.uxSchedulerSuspended = 0 /\ High(k')
            \/ k'.pxCurrentTCB = k.pxCurrentTCB /\ (High(k) => High(k'))
    BY <2>3, <2>7, <2>9, <2>10, ISRSwitch
  <2> QED
    BY <1>1, <2>11, FromISRStep
<1>3. CASE k.uxSchedulerSuspended # 0
  <2>1. k' = [k EXCEPT !.pending = Append(k.pending, t)]
    BY <1>3 DEF xTaskResumeFromISR, Running
  <2>2. /\ Steady(k') /\ PendOK(k') /\ Ready(k') = Ready(k)
        /\ SameRun(k, k') /\ SameClock(k, k')
    BY <1>1, <1>3, <2>1, PendIs
  <2>3. k'.pxCurrentTCB = k.pxCurrentTCB /\ k'.uxSchedulerSuspended = k.uxSchedulerSuspended
        /\ k'.uxPriority = k.uxPriority /\ k'.xYieldPending = k.xYieldPending
    BY <2>2 DEF SameRun
  <2>4. High(k) => High(k')
    BY <2>2, <2>3 DEF High, AtTop
  <2> QED
    BY <1>1, <2>2, <2>3, <2>4, FromISRStep
<1> QED
  BY <1>2, <1>3

\* The tick with the scheduler suspended is only counted.
LEMMA PendedTick ==
  ASSUME NEW s, Steady(s), s.xPendedTicks < MaxPended,
         NEW u, u = [s EXCEPT !.xPendedTicks = s.xPendedTicks + 1]
  PROVE  /\ Steady(u) /\ Ready(u) = Ready(s) /\ SameRun(s, u) /\ SameEvents(s, u)
         /\ u.xTickCount = s.xTickCount /\ u.xPendedTicks = s.xPendedTicks + 1
<1>1. Kernel(s) /\ DOMAIN s = FieldNames /\ MaxPended \in Nat
      /\ s.xPendedTicks \in 0 .. MaxPended
  BY Constants DEF Steady, Lists, Kernel
<1>2. /\ SameLists(s, u) /\ SameRun(s, u) /\ DOMAIN u = FieldNames
      /\ u.xTickCount = s.xTickCount /\ u.xPendedTicks = s.xPendedTicks + 1
  BY <1>1 DEF FieldNames, SameLists, SameReady, SameSleep, SameEvents, SameRun
<1>3. s.xPendedTicks + 1 \in 0 .. MaxPended
  BY <1>1
<1>4. Kernel(u)
  BY <1>1, <1>2, <1>3 DEF Kernel, SameLists, SameReady, SameSleep, SameEvents, SameRun
<1>5. Steady(u) /\ Ready(u) = Ready(s)
  BY <1>2, <1>4, SteadyFrame
<1> QED
  BY <1>2, <1>5 DEF SameLists

\* One more tick interrupt, counted now or pended.
LEMMA OneMore ==
  ASSUME IInv, uptime' = (uptime + 1) % W,
         \/ /\ k.xPendedTicks \in Nat /\ k'.xPendedTicks = k.xPendedTicks
            /\ k'.xTickCount = (k.xTickCount + 1) % W
         \/ k'.xTickCount = k.xTickCount /\ k'.xPendedTicks = k.xPendedTicks + 1
  PROVE  NoTickLost' /\ (uptime \in 0 .. W - 1)'
<1> DEFINE x == k.xTickCount
           p == k.xPendedTicks
<1>1. /\ W \in Nat /\ W > 0 /\ x \in Nat /\ p \in Nat /\ MaxPended \in Nat
      /\ uptime \in Nat
  BY Constants DEF IInv, Steady, Lists, Kernel
<1>2. (x + p) % W = uptime
  BY DEF IInv, NoTickLost
<1> HIDE DEF x, p
<1>3. (uptime + 1) % W \in 0 .. W - 1
  BY <1>1
<1>4. (((x + p) % W) + 1) % W = (x + p + 1) % W
  <2>1. x + p \in Nat /\ 1 \in Nat
    BY <1>1
  <2> QED
    BY <1>1, <2>1, ModAdd
<1>5. (((x + 1) % W) + p) % W = (x + 1 + p) % W
  <2>1. x + 1 \in Nat
    BY <1>1
  <2> QED
    BY <1>1, <2>1, ModAdd
<1>6. x + 1 + p = x + p + 1 /\ x + (p + 1) = x + p + 1
  BY <1>1
<1>7. (k'.xTickCount + k'.xPendedTicks) % W = (x + p + 1) % W
  BY <1>5, <1>6 DEF x, p
<1> QED
  BY <1>2, <1>3, <1>4, <1>7 DEF NoTickLost

LEMMA TickStep == IInv /\ TickInterrupt => IInv'
<1> SUFFICES ASSUME IInv, TickInterrupt PROVE IInv'
  OBVIOUS
<1> DEFINE i == xTaskIncrementTick(k)
           u == i.state
           b == i.switch
<1>1. /\ k.xPendedTicks < MaxPended /\ k' = SwitchIf(u, b)
      /\ uptime' = (uptime + 1) % W /\ UNCHANGED pc
      /\ u = xTaskIncrementTick(k).state /\ b = xTaskIncrementTick(k).switch
  BY DEF TickInterrupt
<1>2. Steady(k) /\ PendOK(k) /\ Kernel(k) /\ k.xPendedTicks \in Nat
  BY Constants DEF IInv, Steady, Lists, Kernel
<1>3. b \in BOOLEAN
  BY DEF xTaskIncrementTick
<1> HIDE DEF i, u, b
<1>4. CASE k.uxSchedulerSuspended = 0
  <2>1. k.pending = <<>>
    BY <1>2, <1>4 DEF PendOK
  <2>2. /\ Steady(u) /\ Ready(k) \subseteq Ready(u)
        /\ SameRun(k, u) /\ u.pending = <<>>
        /\ u.xTickCount = (k.xTickCount + 1) % W /\ u.xPendedTicks = k.xPendedTicks
        /\ Noted(k, u, b) /\ (k.xYieldPending => b)
    BY <1>1, <1>2, <1>4, <2>1, IncrementIs
  <2>3. PendOK(u)
    BY <2>2 DEF PendOK
  <2>4. /\ Steady(k') /\ PendOK(k') /\ SameClock(u, k')
        /\ k'.uxSchedulerSuspended = u.uxSchedulerSuspended
        /\ Turns(u, k', b)
    BY <1>1, <1>3, <2>2, <2>3, SwitchIfIs
  <2>5. High(k) => High(k')
    <3> SUFFICES ASSUME High(k) PROVE High(k')
      OBVIOUS
    <3>1. /\ u.uxPriority = k.uxPriority /\ u.pxCurrentTCB = k.pxCurrentTCB
          /\ (k.xYieldPending => u.xYieldPending \/ b)
      BY <2>2 DEF SameRun
    <3>2. Noted(k, u, u.xYieldPending \/ b)
      BY <2>2 DEF Noted
    <3> QED
      BY <1>3, <2>2, <2>4, <3>1, <3>2, GrowsTurns
  <2>6. /\ k'.uxSchedulerSuspended = k.uxSchedulerSuspended
        /\ \/ k'.uxSchedulerSuspended = 0 /\ High(k')
           \/ k'.pxCurrentTCB = k.pxCurrentTCB /\ (High(k) => High(k'))
    BY <2>2, <2>4, <2>5 DEF Turns, SameRun
  <2>7. pc' \in [Tasks -> Points] /\ HighOK' /\ PcOK'
    BY <1>1, <2>6, InterruptStep
  <2>8. NoTickLost' /\ (uptime \in 0 .. W - 1)'
    <3>1. k'.xPendedTicks = k.xPendedTicks /\ k'.xTickCount = (k.xTickCount + 1) % W
      BY <2>2, <2>4 DEF SameClock
    <3> QED
      BY <1>1, <1>2, <3>1, OneMore
  <2> QED
    BY <2>4, <2>7, <2>8 DEF IInv
<1>5. CASE k.uxSchedulerSuspended # 0
  <2>1. u = [k EXCEPT !.xPendedTicks = k.xPendedTicks + 1] /\ b = FALSE
    BY <1>1, <1>5 DEF xTaskIncrementTick
  <2>2. k' = u
    BY <1>1, <2>1 DEF SwitchIf
  <2>3. /\ Steady(k') /\ Ready(k') = Ready(k) /\ SameRun(k, k') /\ SameEvents(k, k')
        /\ k'.xTickCount = k.xTickCount /\ k'.xPendedTicks = k.xPendedTicks + 1
    BY <1>1, <1>2, <2>1, <2>2, PendedTick
  <2>4. k'.pxCurrentTCB = k.pxCurrentTCB /\ k'.uxSchedulerSuspended = k.uxSchedulerSuspended
        /\ k'.uxPriority = k.uxPriority /\ k'.xYieldPending = k.xYieldPending
    BY <2>3 DEF SameRun
  <2>5. High(k) => High(k')
    BY <2>3, <2>4 DEF High, AtTop
  <2>6. PendOK(k')
    BY <1>5, <2>4 DEF PendOK
  <2>7. pc' \in [Tasks -> Points] /\ HighOK' /\ PcOK'
    BY <1>1, <2>4, <2>5, InterruptStep
  <2>8. NoTickLost' /\ (uptime \in 0 .. W - 1)'
    BY <1>1, <2>3, OneMore
  <2> QED
    BY <2>3, <2>6, <2>7, <2>8 DEF IInv
<1> QED
  BY <1>4, <1>5

-----------------------------------------------------------------------------
(* The initial states. *)

\* The order of creation names every task once.
LEMMA CreatedIs ==
  ASSUME NEW created \in [1 .. Cardinality(Tasks) -> Tasks], In(created) = Tasks
  PROVE  created \in Seq(Tasks) /\ Distinct(created)
<1> DEFINE n == Cardinality(Tasks)
<1>1. n \in Nat
  BY Constants, FS_CardinalityType
<1>2. DOMAIN created = 1 .. n
  OBVIOUS
<1> HIDE DEF n
<1>3. IsFiniteSet(1 .. n) /\ Cardinality(1 .. n) = n
  <2>1. Cardinality(1 .. n) = IF 1 > n THEN 0 ELSE n - 1 + 1
    BY <1>1, FS_Interval
  <2>2. IsFiniteSet(1 .. n)
    BY <1>1, FS_Interval
  <2> QED
    BY <1>1, <2>1, <2>2
<1>4. created \in Surjection(1 .. n, Tasks)
  <2>1. \A t \in Tasks : \E i \in 1 .. n : created[i] = t
    BY <1>2 DEF In
  <2> QED
    BY <2>1 DEF Surjection, n
<1>5. created \in Injection(1 .. n, Tasks)
  <2>1. Cardinality(1 .. n) = Cardinality(Tasks)
    BY <1>3 DEF n
  <2> QED
    BY <1>3, <1>4, <2>1, FS_SurjSameCardinalityImpliesInj
<1>6. Distinct(created)
  BY <1>2, <1>5 DEF Injection, IsInjective, Distinct
<1>7. created \in Seq(Tasks)
  BY <1>1 DEF n
<1> QED
  BY <1>6, <1>7

LEMMA ConcatLast ==
  ASSUME NEW S, NEW s \in Seq(S), NEW u \in Seq(S), Len(u) > 0, NEW f, f = s \o u
  PROVE  f[Len(f)] = u[Len(u)]
<1>1. Len(s) \in Nat /\ Len(u) \in Nat
  OBVIOUS
<1>2. Len(f) = Len(s) + Len(u)
  OBVIOUS
<1> QED
  BY <1>1, <1>2

\* A ready list when the scheduler starts: the tasks of its priority, and if there
\* is one the last of them is at the end.
Filled(r, ts, prio, p) ==
  /\ In(r) = {t \in In(ts) : prio[t] = p} \cup {End}
  /\ (\E t \in In(ts) : prio[t] = p) => r[Len(r)] \in In(ts) /\ prio[r[Len(r)]] = p

LEMMA CreatedRings ==
  ASSUME NEW ts \in Seq(Tasks), Distinct(ts), NEW prio, NEW p,
         NEW r, r = <<End>> \o OfPriority(ts, prio, p)
  PROVE  Ring(r) /\ Filled(r, ts, prio, p)
<1> DEFINE a == OfPriority(ts, prio, p)
           e == <<End>>
           S == Tasks \cup {End}
<1>1. a \in Seq(Tasks) /\ Distinct(a) /\ In(a) = {t \in In(ts) : prio[t] = p}
  BY OfPriorityIs
<1>2. In(ts) \subseteq Tasks
  BY DEF In
<1>3. e \in Seq(S) /\ Distinct(e) /\ In(e) = {End} /\ Len(e) = 1
  BY DEF Distinct, In
<1>4. r = e \o a
  OBVIOUS
<1> HIDE DEF a, e
<1>5. a \in Seq(S)
  BY <1>1
<1>6. In(e) \cap In(a) = {}
  BY <1>1, <1>2, <1>3, Constants
<1>7. r \in Seq(S) /\ Distinct(r) /\ In(r) = In(e) \cup In(a)
  <2>1. e \o a \in Seq(S) /\ Distinct(e \o a) /\ In(e \o a) = In(e) \cup In(a)
    <3> HIDE DEF S
    <3> QED
      BY <1>1, <1>3, <1>5, <1>6, ConcatIs
  <2> QED
    BY <1>4, <2>1
<1>8. Ring(r) /\ In(r) = {t \in In(ts) : prio[t] = p} \cup {End}
  BY <1>1, <1>3, <1>7 DEF Ring
<1>9. ASSUME NEW t \in In(ts), prio[t] = p
      PROVE  r[Len(r)] \in In(ts) /\ prio[r[Len(r)]] = p
  <2>1. t \in In(a)
    BY <1>1, <1>9
  <2>2. Len(a) \in Nat /\ DOMAIN a = 1 .. Len(a)
    BY <1>1
  <2>3. Len(a) > 0
    <3>1. PICK i \in 1 .. Len(a) : a[i] = t
      BY <2>1, <2>2 DEF In
    <3> QED
      BY <2>2, <3>1
  <2>4. r[Len(r)] = a[Len(a)]
    <3> HIDE DEF S
    <3> QED
      BY <1>3, <1>4, <1>5, <2>3, ConcatLast
  <2>5. r[Len(r)] \in In(a)
    BY <2>2, <2>3, <2>4 DEF In
  <2> QED
    BY <1>1, <2>5
<1> QED
  BY <1>8, <1>9 DEF Filled

LEMMA InitInv == Init => IInv
<1> SUFFICES ASSUME Init PROVE IInv
  OBVIOUS
<1>1. PICK created \in [1 .. Cardinality(Tasks) -> Tasks], prio \in Priorities :
        LET highest == Highest({prio[t] : t \in Tasks})
            ready == [p \in Levels |-> <<End>> \o OfPriority(created, prio, p)]
            first == ready[highest]
        IN  /\ In(created) = Tasks
            /\ k = [uxPriority |-> prio, ready |-> ready, top |-> highest,
                    delayed |-> <<>>, overflow |-> <<>>, suspended |-> {},
                    events |-> <<>>, pending |-> <<>>,
                    left |-> [t \in Tasks |-> 0],
                    xTickCount |-> 0, xNextTaskUnblockTime |-> portMAX_DELAY,
                    xPendedTicks |-> 0, uxSchedulerSuspended |-> 0,
                    xYieldPending |-> FALSE, pxCurrentTCB |-> first[Len(first)]]
            /\ pc = [t \in Tasks |-> "run"]
            /\ uptime = 0
  BY DEF Init
<1> DEFINE H == {prio[t] : t \in Tasks}
           highest == Highest(H)
           ready == [p \in Levels |-> <<End>> \o OfPriority(created, prio, p)]
           c == ready[highest][Len(ready[highest])]
           left == [t \in Tasks |-> 0]
<1>2. /\ In(created) = Tasks
      /\ k = [uxPriority |-> prio, ready |-> ready, top |-> highest,
              delayed |-> <<>>, overflow |-> <<>>, suspended |-> {},
              events |-> <<>>, pending |-> <<>>,
              left |-> left,
              xTickCount |-> 0, xNextTaskUnblockTime |-> portMAX_DELAY,
              xPendedTicks |-> 0, uxSchedulerSuspended |-> 0,
              xYieldPending |-> FALSE, pxCurrentTCB |-> c]
      /\ pc = [t \in Tasks |-> "run"]
      /\ uptime = 0
  BY <1>1
<1>3. /\ Idle \in Tasks /\ End \notin Tasks /\ prio \in [Tasks -> Levels]
      /\ Levels \subseteq Nat /\ W \in Nat /\ W > 1 /\ MaxPended \in Nat /\ MaxNesting \in Nat
      /\ configMAX_PRIORITIES \in Nat
  BY Constants
<1>4. created \in Seq(Tasks) /\ Distinct(created)
  BY <1>2, CreatedIs
<1>5. ASSUME NEW p \in Levels
      PROVE  /\ Ring(ready[p]) /\ In(ready[p]) = {t \in Tasks : prio[t] = p} \cup {End}
             /\ (\E t \in Tasks : prio[t] = p) =>
                  /\ ready[p][Len(ready[p])] \in Tasks
                  /\ prio[ready[p][Len(ready[p])]] = p
  <2> DEFINE r == ready[p]
  <2>1. r = <<End>> \o OfPriority(created, prio, p)
    OBVIOUS
  <2> HIDE DEF r
  <2>2. Ring(r) /\ Filled(r, created, prio, p)
    BY <1>4, <2>1, CreatedRings
  <2>3. /\ Ring(r) /\ In(r) = {t \in Tasks : prio[t] = p} \cup {End}
        /\ (\E t \in Tasks : prio[t] = p) => r[Len(r)] \in Tasks /\ prio[r[Len(r)]] = p
    BY <1>2, <2>2 DEF Filled
  <2> HIDE DEF ready
  <2> QED
    BY <2>3 DEF r
<1>6. highest \in H /\ \A q \in H : q <= highest
  <2>1. H \in SUBSET Levels /\ H # {}
    BY <1>3
  <2>2. \A p \in Levels : p <= configMAX_PRIORITIES
    BY <1>3 DEF Levels
  <2> HIDE DEF H
  <2>3. H \in SUBSET Nat /\ \A p \in H : p <= configMAX_PRIORITIES
    BY <1>3, <2>1, <2>2
  <2> QED
    BY <1>3, <2>1, <2>3, HighestIs
<1> HIDE DEF highest
<1>7. highest \in Levels /\ \A t \in Tasks : prio[t] <= highest
  BY <1>3, <1>6
<1>8. c \in Tasks /\ prio[c] = highest
  <2>1. \E t \in Tasks : prio[t] = highest
    BY <1>6
  <2> QED
    BY <1>5, <1>7, <2>1
<1>9. ready \in [Levels -> Seq(Tasks \cup {End})]
  <2>1. \A p \in Levels : ready[p] \in Seq(Tasks \cup {End})
    BY <1>5 DEF Ring
  <2>2. ready = [p \in Levels |-> ready[p]]
    OBVIOUS
  <2> HIDE DEF ready
  <2> QED
    BY <2>1, <2>2
<1> HIDE DEF ready, c, H
<1>10. /\ DOMAIN k = FieldNames
       /\ k.uxPriority = prio /\ k.ready = ready /\ k.top = highest
       /\ k.delayed = <<>> /\ k.overflow = <<>> /\ k.suspended = {} /\ k.events = <<>>
       /\ k.pending = <<>> /\ k.left = left /\ k.xTickCount = 0
       /\ k.xNextTaskUnblockTime = portMAX_DELAY /\ k.xPendedTicks = 0
       /\ k.uxSchedulerSuspended = 0 /\ k.xYieldPending = FALSE /\ k.pxCurrentTCB = c
  <2> HIDE DEF left
  <2> QED
    BY <1>2 DEF FieldNames
<1>11. left \in [Tasks -> 0 .. W - 1] /\ portMAX_DELAY \in 0 .. W - 1
  BY <1>3 DEF portMAX_DELAY
<1>12. \A V : <<>> \in Items(V)
  BY DEF Items
<1>13. /\ In(<<>>) = {} /\ Owners(<<>>) = {} /\ Distinct(<<>>) /\ DistinctOwners(<<>>)
       /\ Sorted(<<>>)
  BY DEF In, Owners, Distinct, DistinctOwners, Sorted
<1>14. Kernel(k)
  <2>1. <<>> \in Seq(Tasks) /\ {} \in SUBSET Tasks /\ 0 \in 0 .. W - 1
        /\ 0 \in 0 .. MaxPended /\ 0 \in 0 .. MaxNesting
    BY <1>3
  <2> HIDE DEF left
  <2> QED
    BY <1>7, <1>8, <1>9, <1>10, <1>11, <1>12, <2>1 DEF Kernel
<1>15. RingsOK(k)
  <2>1. \A p \in Levels : /\ Ring(ready[p])
                          /\ \A t \in In(ready[p]) \ {End} : prio[t] = p
    BY <1>5
  <2> QED
    BY <1>10, <2>1 DEF RingsOK
<1>16. Ready(k) = Tasks
  <2>1. ASSUME NEW x \in Ready(k) PROVE x \in Tasks
    BY <1>5, <1>10 DEF Ready
  <2>2. ASSUME NEW x \in Tasks PROVE x \in Ready(k)
    <3>1. prio[x] \in Levels /\ x # End
      BY <1>3
    <3>2. x \in In(ready[prio[x]])
      BY <1>5, <3>1
    <3> QED
      BY <1>10, <3>1, <3>2 DEF Ready
  <2> QED
    BY <2>1, <2>2
<1>17. TopOK(k) /\ AtTop(k)
  BY <1>7, <1>8, <1>10, <1>16 DEF TopOK, AtTop
<1>18. SleepOK(k) /\ NextOK(k) /\ DueOK(k)
  <2>1. \A t \in Tasks : left[t] = 0
    OBVIOUS
  <2> HIDE DEF left
  <2> QED
    BY <1>10, <1>13, <2>1 DEF SleepOK, NextOK, DueOK, Sleeping
<1>19. PlaceOK(k) /\ EventOK(k)
  BY <1>10, <1>13, <1>16 DEF PlaceOK, Placed, EventOK
<1>20. Steady(k) /\ PendOK(k) /\ High(k)
  BY <1>3, <1>10, <1>14, <1>15, <1>16, <1>17, <1>18, <1>19
    DEF Steady, Lists, PendOK, High, AtTop
<1>21. pc \in [Tasks -> Points] /\ \A t \in Tasks : pc[t] = "run"
  BY <1>2 DEF Points
<1>22. HighOK /\ PcOK
  BY <1>3, <1>8, <1>10, <1>20, <1>21 DEF HighOK, PcOK
<1>23. NoTickLost /\ uptime \in 0 .. W - 1
  <2>1. (0 + 0) % W = 0
    BY <1>3
  <2> QED
    BY <1>2, <1>3, <1>10, <2>1 DEF NoTickLost
<1> QED
  BY <1>20, <1>21, <1>22, <1>23 DEF IInv

-----------------------------------------------------------------------------
(* The theorems. *)

LEMMA NextInv == IInv /\ [Next]_vars => IInv'
<1> SUFFICES ASSUME IInv, [Next]_vars PROVE IInv'
  OBVIOUS
<1>1. CASE vTaskSuspendAll
  BY <1>1, SuspendAllStep
<1>2. CASE xTaskResumeAll
  BY <1>2, ResumeAllStep
<1>3. CASE BeginBlock
  BY <1>3, BeginBlockStep
<1>4. ASSUME NEW ticks \in Delays, vTaskDelay(ticks) PROVE IInv'
  BY <1>4, DelayStep
<1>5. ASSUME NEW ticks \in Delays, vTaskPlaceOnEventList(ticks) PROVE IInv'
  BY <1>5, PlaceStep
<1>6. CASE EndBlock
  BY <1>6, EndBlockStep
<1>7. CASE portYIELD
  BY <1>7, YieldStep
<1>8. ASSUME NEW t \in Tasks, vTaskSuspend(t) PROVE IInv'
  BY <1>8, SuspendStep
<1>9. ASSUME NEW t \in Tasks, vTaskResume(t) PROVE IInv'
  BY <1>9, ResumeStep
<1>10. CASE SuspendReset
  BY <1>10, SuspendResetStep
<1>11. CASE Signal
  BY <1>11, SignalStep
<1>12. CASE TickInterrupt
  BY <1>12, TickStep
<1>13. CASE SignalFromISR
  BY <1>13, SignalISRStep
<1>14. ASSUME NEW t \in Tasks, xTaskResumeFromISR(t) PROVE IInv'
  BY <1>14, ResumeISRStep
<1>15. CASE UNCHANGED vars
  <2>1. k' = k /\ pc' = pc /\ uptime' = uptime
    BY <1>15 DEF vars
  <2>2. Steady(k') /\ PendOK(k') /\ pc' \in [Tasks -> Points] /\ uptime' \in 0 .. W - 1
    BY <2>1 DEF IInv
  <2>3. HighOK' /\ PcOK' /\ NoTickLost'
    BY <2>1 DEF IInv, HighOK, PcOK, NoTickLost
  <2> QED
    BY <2>2, <2>3 DEF IInv
<1> QED
  BY <1>1, <1>2, <1>3, <1>4, <1>5, <1>6, <1>7, <1>8, <1>9, <1>10, <1>11, <1>12, <1>13,
     <1>14, <1>15 DEF Next

\* The lists of tasks.c, the clock and the selection of the running task keep to
\* the inductive invariant, for every number of tasks, assignment of priorities,
\* width of TickType_t and bound on the nesting and on the pended ticks.
THEOREM Invariance == Spec => []IInv
  BY InitInv, NextInv, PTL DEF Spec

LEMMA InvType == IInv => TypeOK
<1> SUFFICES ASSUME IInv PROVE TypeOK
  OBVIOUS
<1>1. /\ Kernel(k) /\ RingsOK(k) /\ pc \in [Tasks -> Points] /\ uptime \in 0 .. W - 1
  BY DEF IInv, Steady, Lists
<1>2. \A p \in Levels : End \in In(k.ready[p])
  BY <1>1 DEF RingsOK, Ring
<1>3. /\ k.delayed \in Seq([owner : Tasks, value : 0 .. W - 1])
      /\ k.overflow \in Seq([owner : Tasks, value : 0 .. W - 1])
      /\ k.events \in Seq([owner : Tasks, value : Int])
      /\ k.suspended \subseteq Tasks
  BY <1>1 DEF Kernel, Items
<1> QED
  BY <1>1, <1>2, <1>3 DEF Kernel, TypeOK

\* The kernel's data keep their types, every ready list keeps its end marker, and
\* the counters of tasks.c stay within the bounds of their use.
THEOREM SchedulerTypes == Spec => []TypeOK
  BY Invariance, InvType, PTL

LEMMA InvSleeps == IInv => SleepsExactly
<1> SUFFICES ASSUME IInv, NEW t \in Tasks PROVE t \in Asleep <=> k.left[t] > 0
  BY DEF SleepsExactly
<1>1. SleepOK(k) /\ DueOK(k)
  BY DEF IInv, Steady, Lists
<1>2. Asleep = Sleeping(k)
  BY DEF Asleep, Sleeping
<1>3. t \in Sleeping(k) => k.left[t] > 0
  BY <1>1 DEF DueOK
<1>4. t \notin Sleeping(k) => k.left[t] = 0
  BY <1>1 DEF SleepOK
<1>5. ~(0 > 0)
  OBVIOUS
<1> QED
  BY <1>2, <1>3, <1>4, <1>5

\* A task is in one of the delayed lists exactly as long as ticks of its block time
\* are left, for every width of the tick counter: xTaskIncrementTick, the exchange
\* of the two lists and the cached xNextTaskUnblockTime wake it at the right tick.
THEOREM ExactSleep == Spec => []SleepsExactly
  BY Invariance, InvSleeps, PTL

LEMMA InvOneList == IInv => OneList
<1> SUFFICES ASSUME IInv, NEW t \in Tasks
             PROVE  /\ LET lists == <<ReadyTasks, Owners(k.delayed), Owners(k.overflow), k.suspended>>
                       IN  \E i \in 1 .. 4 : \A j \in 1 .. 4 : t \in lists[j] <=> j = i
                    /\ t \in In(k.pending) => t \notin ReadyTasks /\ ~Running
  BY DEF OneList
<1>1. PlaceOK(k) /\ EventOK(k) /\ PendOK(k)
  BY DEF IInv, Steady
<1>2. ReadyTasks = Ready(k)
  BY DEF ReadyTasks, Ready
<1> DEFINE R == ReadyTasks
           D == Owners(k.delayed)
           O == Owners(k.overflow)
           S == k.suspended
           lists == <<R, D, O, S>>
<1>3. Placed(t, R, D, O, S)
  BY <1>1, <1>2 DEF PlaceOK
<1>4. t \in In(k.pending) => t \notin ReadyTasks /\ ~Running
  <2> SUFFICES ASSUME t \in In(k.pending) PROVE t \notin ReadyTasks /\ ~Running
    OBVIOUS
  <2>1. k.pending # <<>>
    BY DEF In
  <2> QED
    BY <1>1, <1>2, <2>1 DEF EventOK, PendOK, Running
<1> HIDE DEF R, D, O, S
<1>5. lists[1] = R /\ lists[2] = D /\ lists[3] = O /\ lists[4] = S
  OBVIOUS
<1> HIDE DEF lists
<1>6. \A j \in 1 .. 4 : j = 1 \/ j = 2 \/ j = 3 \/ j = 4
  OBVIOUS
<1>7. \E i \in 1 .. 4 : \A j \in 1 .. 4 : t \in lists[j] <=> j = i
  <2>1. CASE t \in R /\ t \notin D /\ t \notin O /\ t \notin S
    <3>1. \A j \in 1 .. 4 : t \in lists[j] <=> j = 1
      BY <1>5, <1>6, <2>1
    <3> QED
      BY <3>1
  <2>2. CASE t \notin R /\ t \in D /\ t \notin O /\ t \notin S
    <3>1. \A j \in 1 .. 4 : t \in lists[j] <=> j = 2
      BY <1>5, <1>6, <2>2
    <3> QED
      BY <3>1
  <2>3. CASE t \notin R /\ t \notin D /\ t \in O /\ t \notin S
    <3>1. \A j \in 1 .. 4 : t \in lists[j] <=> j = 3
      BY <1>5, <1>6, <2>3
    <3> QED
      BY <3>1
  <2>4. CASE t \notin R /\ t \notin D /\ t \notin O /\ t \in S
    <3>1. \A j \in 1 .. 4 : t \in lists[j] <=> j = 4
      BY <1>5, <1>6, <2>4
    <3> QED
      BY <3>1
  <2> QED
    BY <1>3, <2>1, <2>2, <2>3, <2>4 DEF Placed
<1> QED
  BY <1>4, <1>7 DEF lists, R, D, O, S

\* The state item of every task is in exactly one of the ready, delayed, overflow
\* and suspended lists, and what is in xPendingReadyList is blocked and will be
\* moved by the xTaskResumeAll that is due.
THEOREM ListsDisjoint == Spec => []OneList
  BY Invariance, InvOneList, PTL

LEMMA InvHighest == IInv => HighestRuns
<1> SUFFICES ASSUME IInv, pc[k.pxCurrentTCB] = "run", ~k.xYieldPending
             PROVE  /\ k.pxCurrentTCB \in ReadyTasks
                    /\ \A t \in ReadyTasks : k.uxPriority[t] <= k.uxPriority[k.pxCurrentTCB]
  BY DEF HighestRuns
<1>1. ReadyTasks = Ready(k)
  BY DEF ReadyTasks, Ready
<1>2. AtTop(k)
  BY DEF IInv, HighOK, High
<1> QED
  BY <1>1, <1>2 DEF AtTop

\* Fixed-priority preemption: in its own code, with the scheduler running and no
\* yield pending, the current task is ready and of the highest ready priority,
\* whatever the tick, interrupts and other tasks' calls made ready before.
THEOREM PriorityRuns == Spec => []HighestRuns
  BY Invariance, InvHighest, PTL

LEMMA InvTicks == IInv => NoTickLost
  BY DEF IInv

\* Every tick interrupt is in xTickCount or still in xPendedTicks, modulo 2^w.
THEOREM TicksCounted == Spec => []NoTickLost
  BY Invariance, InvTicks, PTL
=============================================================================
