------------------------ MODULE InvestigationProofs ------------------------
(***************************************************************************)
(* What Investigation proves for any sources, requests, yields and limits. *)
(* A rerouted investigation, which makes two budget controllers, stays     *)
(* within one budget; the stages of a report tell what was processed; the  *)
(* records of all layers are within the limit and accounted for in the run *)
(* log; a search that is skipped leaves evidence in the report; an         *)
(* exploration reads the build of its own records; and a source is asked   *)
(* only while the gap is open on the evidence there is.                    *)
(*                                                                         *)
(* The layers are gathered with FoldLeft, which is a recursive function on *)
(* sets of indices: the first part shows, by induction over the naturals   *)
(* (NatSetInduction), that such a fold has one value after every element   *)
(* of its list, and that the list InOrder chooses exists.                  *)
(***************************************************************************)
EXTENDS Investigation, TLAPS, WellFoundedInduction, FiniteSetTheorems

-----------------------------------------------------------------------------
(* Induction, ordered lists and folds *)

\* Induction over the naturals, with a set in the place of a predicate: the least
\* number outside T has a predecessor outside T.
LEMMA NatSetInduction ==
  ASSUME NEW T, 0 \in T, \A n \in Nat : n \in T => n + 1 \in T
  PROVE  Nat \subseteq T
<1>1. SUFFICES ASSUME Nat \ T # {} PROVE FALSE
  OBVIOUS
<1>2. PICK x \in Nat \ T : \A y \in Nat \ T : ~ (<<y, x>> \in OpToRel(<, Nat))
  <2>1. Nat \ T \subseteq Nat
    OBVIOUS
  <2> QED
    BY <1>1, <2>1, WFMin, NatLessThanWellFounded
<1>3. x # 0 /\ x - 1 \in Nat
  OBVIOUS
<1>4. <<x - 1, x>> \in OpToRel(<, Nat)
  BY <1>3 DEF OpToRel
<1>5. x - 1 \in T
  BY <1>2, <1>3, <1>4
<1> QED
  BY <1>3, <1>5

\* A finite set of integers that is not empty has a largest element.
LEMMA Largest ==
  ASSUME NEW set \in SUBSET Int, IsFiniteSet(set), set # {}
  PROVE  \E m \in set : \A k \in set : k <= m
<1> DEFINE Has(s) == \E m \in s : \A k \in s : k <= m
           T == {n \in Nat : \A s \in SUBSET Int : IsFiniteSet(s) /\ Cardinality(s) = n + 1 => Has(s)}
<1>1. 0 \in T
  <2>1. SUFFICES ASSUME NEW s \in SUBSET Int, IsFiniteSet(s), Cardinality(s) = 1 PROVE Has(s)
    OBVIOUS
  <2>2. PICK x : s = {x}
    BY <2>1, FS_Singleton
  <2> QED
    BY <2>2
<1>2. ASSUME NEW n \in Nat, n \in T PROVE n + 1 \in T
  <2>1. SUFFICES ASSUME NEW s \in SUBSET Int, IsFiniteSet(s), Cardinality(s) = n + 2 PROVE Has(s)
    OBVIOUS
  <2>2. PICK x \in s : TRUE
    <3>1. Cardinality(s) # 0
      BY <2>1
    <3> QED
      BY <2>1, <3>1, FS_EmptySet
  <2>3. IsFiniteSet(s \ {x}) /\ Cardinality(s \ {x}) = n + 1
    <3>1. IsFiniteSet(s \ {x}) /\ Cardinality(s \ {x}) = Cardinality(s) - 1
      BY <2>1, FS_RemoveElement
    <3> QED
      BY <2>1, <3>1
  <2>4. Has(s \ {x})
    BY <1>2, <2>3
  <2>5. PICK m \in s \ {x} : \A k \in s \ {x} : k <= m
    BY <2>4
  <2>6. \/ \A k \in s : k <= m
        \/ \A k \in s : k <= x
    BY <2>5
  <2> QED
    BY <2>2, <2>5, <2>6
<1>3. Nat \subseteq T
  <2> HIDE DEF T
  <2> QED
    BY <1>1, <1>2, NatSetInduction
<1>4. Cardinality(set) \in Nat /\ Cardinality(set) # 0
  BY FS_CardinalityType, FS_EmptySet
<1>5. Cardinality(set) - 1 \in T
  BY <1>3, <1>4
<1> QED
  BY <1>4, <1>5

\* The sequence lists the set in increasing order.
Listed(seq, set) == /\ ToSet(seq) = set
                    /\ \A i, j \in DOMAIN seq : i < j => seq[i] < seq[j]

\* A finite set of integers can be listed in order, so that InOrder does.
LEMMA OrderedList ==
  ASSUME NEW set \in SUBSET Int, IsFiniteSet(set)
  PROVE  /\ InOrder(set) \in Seq(set) /\ Len(InOrder(set)) = Cardinality(set)
         /\ ToSet(InOrder(set)) = set
         /\ \A i, j \in DOMAIN InOrder(set) : i < j => InOrder(set)[i] < InOrder(set)[j]
<1> DEFINE T == {n \in Nat : \A s \in SUBSET Int : IsFiniteSet(s) /\ Cardinality(s) = n =>
                               \E seq \in [1..n -> s] : Listed(seq, s)}
<1>1. 0 \in T
  <2>1. SUFFICES ASSUME NEW s \in SUBSET Int, IsFiniteSet(s), Cardinality(s) = 0
                 PROVE  \E seq \in [1..0 -> s] : Listed(seq, s)
    OBVIOUS
  <2>2. s = {}
    BY <2>1, FS_EmptySet
  <2>3. [i \in 1..0 |-> 0] \in [1..0 -> s] /\ Listed([i \in 1..0 |-> 0], s)
    BY <2>2 DEF Listed, ToSet
  <2> QED
    BY <2>3
<1>2. ASSUME NEW n \in Nat, n \in T PROVE n + 1 \in T
  <2>1. SUFFICES ASSUME NEW s \in SUBSET Int, IsFiniteSet(s), Cardinality(s) = n + 1
                 PROVE  \E seq \in [1..(n + 1) -> s] : Listed(seq, s)
    OBVIOUS
  <2>2. PICK m \in s : \A k \in s : k <= m
    BY <2>1, Largest, FS_EmptySet
  <2>3. IsFiniteSet(s \ {m}) /\ Cardinality(s \ {m}) = n
    <3>1. IsFiniteSet(s \ {m}) /\ Cardinality(s \ {m}) = Cardinality(s) - 1
      BY <2>1, FS_RemoveElement
    <3> QED
      BY <2>1, <3>1
  <2>4. PICK seq \in [1..n -> s \ {m}] : Listed(seq, s \ {m})
    BY <1>2, <2>3
  <2> DEFINE longer == [i \in 1..(n + 1) |-> IF i = n + 1 THEN m ELSE seq[i]]
  <2>5. longer \in [1..(n + 1) -> s]
    OBVIOUS
  <2>6. ToSet(longer) = s
    <3>1. ToSet(longer) \subseteq s
      BY <2>5 DEF ToSet
    <3>2. ASSUME NEW x \in s PROVE x \in ToSet(longer)
      <4>1. CASE x = m
        BY <4>1 DEF ToSet
      <4>2. CASE x # m
        <5>1. PICK i \in 1..n : x = seq[i]
          BY <2>4, <4>2 DEF Listed, ToSet
        <5>2. i \in 1..(n + 1) /\ longer[i] = x
          BY <5>1
        <5> QED
          BY <5>2 DEF ToSet
      <4> QED
        BY <4>1, <4>2
    <3> QED
      BY <3>1, <3>2
  <2>7. ASSUME NEW i \in 1..(n + 1), NEW j \in 1..(n + 1), i < j PROVE longer[i] < longer[j]
    <3>1. i \in 1..n /\ longer[i] = seq[i] /\ seq[i] \in s \ {m}
      BY <2>7
    <3>2. CASE j = n + 1
      <4>1. longer[j] = m /\ m \in Int /\ seq[i] \in Int /\ seq[i] # m /\ seq[i] <= m
        BY <2>2, <3>1, <3>2
      <4> QED
        BY <3>1, <4>1
    <3>3. CASE j # n + 1
      BY <2>4, <2>7, <3>1, <3>3 DEF Listed
    <3> QED
      BY <3>2, <3>3
  <2>8. Listed(longer, s)
    BY <2>5, <2>6, <2>7 DEF Listed
  <2> QED
    BY <2>5, <2>8
<1>3. Nat \subseteq T
  <2> HIDE DEF T
  <2> QED
    BY <1>1, <1>2, NatSetInduction
<1>4. Cardinality(set) \in Nat
  BY FS_CardinalityType
<1>5. \E seq \in [1..Cardinality(set) -> set] : Listed(seq, set)
  BY <1>3, <1>4
<1>6. InOrder(set) \in [1..Cardinality(set) -> set] /\ Listed(InOrder(set), set)
  BY <1>5 DEF InOrder, Listed
<1>7. InOrder(set) \in Seq(set) /\ Len(InOrder(set)) = Cardinality(set)
  BY <1>4, <1>6
<1> QED
  BY <1>6, <1>7 DEF Listed

LEMMA LastIndex ==
  ASSUME NEW n \in Nat, NEW s \in SUBSET (1..n), s # {}
  PROVE  Max(s) \in s /\ \A k \in s : k <= Max(s)
<1>1. IsFiniteSet(s)
  <2>1. IsFiniteSet(1..n)
    BY FS_Interval
  <2> QED
    BY <2>1, FS_Subset
<1>2. \E m \in s : \A k \in s : m >= k
  <2>1. s \in SUBSET Int
    OBVIOUS
  <2>2. PICK m \in s : \A k \in s : k <= m
    BY <1>1, <2>1, Largest
  <2> QED
    BY <2>1, <2>2
<1> QED
  BY <1>2 DEF Max

\* The function it iterates the steps over the sets of the first n indices.
Iterates(it, n, base, step) ==
  \A s \in SUBSET (1..n) : it[s] = IF s = {} THEN base ELSE step[Max(s)][it[s \ {Max(s)}]]

Iterable(n, V, base, step) == \E it \in [SUBSET (1..n) -> V] : Iterates(it, n, base, step)

\* What FoldLeft iterates over the indices of a list exists: a function on the
\* sets of indices.
LEMMA Iteration ==
  ASSUME NEW n \in Nat, NEW V, NEW base \in V, NEW step \in [1..n -> [V -> V]]
  PROVE  Iterable(n, V, base, step)
<1> DEFINE T == {k \in Nat : k <= n => Iterable(k, V, base, step)}
<1>1. 0 \in T
  <2> DEFINE it == [s \in SUBSET (1..0) |-> base]
  <2>1. it \in [SUBSET (1..0) -> V] /\ Iterates(it, 0, base, step)
    BY DEF Iterates
  <2>2. Iterable(0, V, base, step)
    BY <2>1 DEF Iterable
  <2> QED
    BY <2>2
<1>2. ASSUME NEW k \in Nat, k \in T PROVE k + 1 \in T
  <2>1. SUFFICES ASSUME k + 1 <= n PROVE Iterable(k + 1, V, base, step)
    OBVIOUS
  <2>2. PICK it \in [SUBSET (1..k) -> V] : Iterates(it, k, base, step)
    <3>1. k <= n
      BY <2>1
    <3> QED
      BY <1>2, <3>1 DEF Iterable
  <2> DEFINE longer == [s \in SUBSET (1..(k + 1)) |->
                          IF k + 1 \in s THEN step[k + 1][it[s \ {k + 1}]] ELSE it[s]]
  <2>3. ASSUME NEW s \in SUBSET (1..(k + 1)), k + 1 \notin s PROVE s \in SUBSET (1..k)
    BY <2>3
  <2>4. ASSUME NEW s \in SUBSET (1..(k + 1)), k + 1 \in s
        PROVE  s # {} /\ Max(s) = k + 1 /\ s \ {k + 1} \in SUBSET (1..k)
    <3>1. k + 1 \in Nat /\ s # {}
      BY <2>4
    <3>2. Max(s) \in s /\ \A j \in s : j <= Max(s)
      BY <3>1, LastIndex
    <3>3. Max(s) \in 1..(k + 1) /\ k + 1 <= Max(s)
      BY <2>4, <3>2
    <3>4. Max(s) = k + 1
      BY <3>3
    <3>5. s \ {k + 1} \in SUBSET (1..k)
      BY <2>4
    <3> QED
      BY <3>1, <3>4, <3>5
  <2>5. longer \in [SUBSET (1..(k + 1)) -> V]
    <3>1. ASSUME NEW s \in SUBSET (1..(k + 1)) PROVE longer[s] \in V
      <4>1. CASE k + 1 \in s
        BY <2>1, <2>2, <2>4, <4>1
      <4>2. CASE k + 1 \notin s
        BY <2>2, <2>3, <4>2
      <4> QED
        BY <4>1, <4>2
    <3> QED
      BY <3>1
  <2>6. ASSUME NEW s \in SUBSET (1..(k + 1))
        PROVE  longer[s] = IF s = {} THEN base ELSE step[Max(s)][longer[s \ {Max(s)}]]
    <3>1. CASE k + 1 \in s
      <4>1. s # {} /\ Max(s) = k + 1 /\ s \ {k + 1} \in SUBSET (1..k)
        BY <2>4, <3>1
      <4>2. s \ {k + 1} \in SUBSET (1..(k + 1)) /\ longer[s \ {k + 1}] = it[s \ {k + 1}]
        BY <4>1
      <4> QED
        BY <3>1, <4>1, <4>2
    <3>2. CASE k + 1 \notin s
      <4>1. s \in SUBSET (1..k)
        BY <2>3, <3>2
      <4>2. longer[s] = IF s = {} THEN base ELSE step[Max(s)][it[s \ {Max(s)}]]
        BY <2>2, <3>2, <4>1 DEF Iterates
      <4>3. s \ {Max(s)} \in SUBSET (1..(k + 1)) /\ longer[s \ {Max(s)}] = it[s \ {Max(s)}]
        BY <3>2, <4>1
      <4> QED
        BY <4>2, <4>3
    <3> QED
      BY <3>1, <3>2
  <2>7. Iterates(longer, k + 1, base, step)
    <3> HIDE DEF longer
    <3> QED
      BY <2>6 DEF Iterates
  <2> HIDE DEF longer
  <2> QED
    BY <2>5, <2>7 DEF Iterable
<1>3. n \in T
  <2>1. Nat \subseteq T
    <3> HIDE DEF T
    <3> QED
      BY <1>1, <1>2, NatSetInduction
  <2> QED
    BY <2>1
<1> QED
  BY <1>3

\* What is known of an iteration whose values outside V do not matter; and its
\* values on the first indices, from the base to the last.
Iterating(iter, n, V, base, step) ==
  /\ iter[{}] = base
  /\ \A s \in SUBSET (1..n) : s # {} /\ iter[s \ {Max(s)}] \in V =>
        iter[s] = step[Max(s)][iter[s \ {Max(s)}]]
Reaches(last, n, V, base, step) ==
  \E f \in [0..n -> V] : /\ f[0] = base
                         /\ \A k \in 1..n : f[k] = step[k][f[k - 1]]
                         /\ last = f[n]

\* The values of an iteration on the first k indices, one step after another.
LEMMA IterationSteps ==
  ASSUME NEW n \in Nat, NEW V, NEW base \in V, NEW step \in [1..n -> [V -> V]], NEW iter,
         Iterating(iter, n, V, base, step)
  PROVE  Reaches(iter[1..n], n, V, base, step)
<1>1. ASSUME NEW k \in 1..n, iter[1..(k - 1)] \in V
      PROVE  iter[1..k] = step[k][iter[1..(k - 1)]] /\ iter[1..k] \in V
  <2>1. 1..k \in SUBSET (1..n) /\ 1..k # {} /\ k \in Nat
    <3>1. k \in Nat /\ k <= n /\ k \in 1..k
      OBVIOUS
    <3>2. 1..k \subseteq 1..n
      BY <3>1
    <3> QED
      BY <3>1, <3>2
  <2>2. Max(1..k) = k
    <3>1. 1..k \in SUBSET (1..k)
      OBVIOUS
    <3>2. Max(1..k) \in 1..k /\ \A j \in 1..k : j <= Max(1..k)
      BY <2>1, <3>1, LastIndex
    <3>3. k \in 1..k
      BY <2>1
    <3> HIDE DEF Max
    <3> QED
      BY <3>2, <3>3
  <2>3. (1..k) \ {k} = 1..(k - 1)
    OBVIOUS
  <2>4. iter[1..k] = step[k][iter[1..(k - 1)]]
    BY <1>1, <2>1, <2>2, <2>3 DEF Iterating
  <2> QED
    BY <1>1, <2>4
<1> DEFINE T == {k \in Nat : k <= n => iter[1..k] \in V}
<1>2. 0 \in T
  <2>1. 1..0 = {}
    OBVIOUS
  <2> QED
    BY <2>1 DEF Iterating
<1>3. ASSUME NEW k \in Nat, k \in T PROVE k + 1 \in T
  <2>1. SUFFICES ASSUME k + 1 <= n PROVE iter[1..(k + 1)] \in V
    OBVIOUS
  <2>2. k + 1 \in 1..n /\ (k + 1) - 1 = k /\ k <= n
    BY <2>1
  <2>3. iter[1..((k + 1) - 1)] \in V
    BY <1>3, <2>2
  <2> QED
    BY <1>1, <2>2, <2>3
<1>4. Nat \subseteq T
  <2> HIDE DEF T
  <2> QED
    BY <1>2, <1>3, NatSetInduction
<1> DEFINE f == [k \in 0..n |-> iter[1..k]]
<1>5. ASSUME NEW k \in 0..n PROVE iter[1..k] \in V
  BY <1>4
<1>6. f \in [0..n -> V] /\ f[n] = iter[1..n]
  BY <1>5
<1>7. f[0] = base
  <2>1. 1..0 = {}
    OBVIOUS
  <2> QED
    BY <2>1 DEF Iterating
<1>8. ASSUME NEW k \in 1..n PROVE f[k] = step[k][f[k - 1]]
  <2>1. k - 1 \in 0..n /\ k \in 0..n
    OBVIOUS
  <2>2. iter[1..(k - 1)] \in V
    BY <1>5, <2>1
  <2> QED
    BY <1>1, <2>1, <2>2
<1> HIDE DEF f
<1> QED
  BY <1>6, <1>7, <1>8 DEF Reaches

AcceptAll(acc, seq) == FoldLeft(Accept, acc, seq)

\* The steps of this fold: what it has after each element of the list.
LEMMA FoldsAccept ==
  ASSUME NEW V, NEW base \in V, NEW seq \in Seq(Sources),
         \A acc \in V, s \in ToSet(seq) : Accept(acc, s) \in V
  PROVE  \E f \in [0..Len(seq) -> V] :
            /\ f[0] = base
            /\ \A k \in 1..Len(seq) : f[k] = Accept(f[k - 1], seq[k])
            /\ AcceptAll(base, seq) = f[Len(seq)]
<1> DEFINE n == Len(seq)
           step == [i \in 1..n |-> [acc \in V |-> Accept(acc, seq[i])]]
           Iter(it) == [s \in SUBSET DOMAIN seq |->
                          IF s = {} THEN base ELSE Accept(it[s \ {Max(s)}], seq[Max(s)])]
           iter == CHOOSE it : it = Iter(it)
<1>1. n \in Nat /\ DOMAIN seq = 1..n
  OBVIOUS
<1>2. step \in [1..n -> [V -> V]]
  BY <1>1 DEF ToSet
<1>3. PICK it \in [SUBSET (1..n) -> V] : Iterates(it, n, base, step)
  <2> HIDE DEF n, step
  <2> QED
    BY <1>1, <1>2, Iteration DEF Iterable
<1>4. ASSUME NEW s \in SUBSET (1..n)
      PROVE  it[s] = IF s = {} THEN base ELSE Accept(it[s \ {Max(s)}], seq[Max(s)])
  <2>1. CASE s = {}
    BY <1>3, <2>1 DEF Iterates
  <2>2. CASE s # {}
    <3>1. Max(s) \in 1..n /\ s \ {Max(s)} \in SUBSET (1..n)
      BY <1>1, <2>2, LastIndex
    <3>2. it[s \ {Max(s)}] \in V
      BY <3>1
    <3> HIDE DEF n
    <3> QED
      BY <1>3, <2>2, <3>1, <3>2 DEF Iterates
  <2> QED
    BY <2>1, <2>2
<1>5. it = Iter(it)
  BY <1>1, <1>4
<1>6. iter = Iter(iter)
  BY <1>5
<1>7. AcceptAll(base, seq) = iter[DOMAIN seq]
  BY DEF AcceptAll, FoldLeft, MapThenFoldSet
<1> HIDE DEF iter
<1>8. iter[{}] = base
  BY <1>6
<1>9. ASSUME NEW s \in SUBSET (1..n), s # {}, iter[s \ {Max(s)}] \in V
      PROVE  iter[s] = step[Max(s)][iter[s \ {Max(s)}]]
  <2>1. Max(s) \in 1..n
    BY <1>1, <1>9, LastIndex
  <2>2. iter[s] = Accept(iter[s \ {Max(s)}], seq[Max(s)])
    BY <1>1, <1>6, <1>9
  <2> HIDE DEF n
  <2> QED
    BY <1>9, <2>1, <2>2
<1>10. Iterating(iter, n, V, base, step)
  <2> HIDE DEF n, step
  <2> QED
    BY <1>8, <1>9 DEF Iterating
<1>11. PICK f \in [0..n -> V] : /\ f[0] = base
                                /\ \A k \in 1..n : f[k] = step[k][f[k - 1]]
                                /\ iter[1..n] = f[n]
  <2> HIDE DEF n, step
  <2> QED
    <3>1. Reaches(iter[1..n], n, V, base, step)
      BY <1>1, <1>2, <1>10, IterationSteps
    <3> QED
      BY <3>1 DEF Reaches
<1>12. ASSUME NEW k \in 1..n PROVE f[k] = Accept(f[k - 1], seq[k])
  <2>1. f[k - 1] \in V
    BY <1>1, <1>11
  <2> HIDE DEF n
  <2> QED
    BY <1>11, <2>1
<1>13. AcceptAll(base, seq) = f[n]
  BY <1>1, <1>7, <1>11
<1> QED
  BY <1>11, <1>12, <1>13

Run == [src : Sources, fetched : Nat, status : Statuses]

\* The steps of the count of a log.
LEMMA FoldsLog ==
  ASSUME NEW log \in Seq(Run), NEW src
  PROVE  \E f \in [0..Len(log) -> Nat] :
            /\ f[0] = 0
            /\ \A k \in 1..Len(log) :
                  f[k] = IF log[k].src = src THEN f[k - 1] + log[k].fetched ELSE f[k - 1]
            /\ Logged(src, log) = f[Len(log)]
<1> DEFINE n == Len(log)
           Plus1(i, sum) == IF log[i].src = src THEN sum + log[i].fetched ELSE sum
           step == [i \in 1..n |-> [sum \in Nat |-> Plus1(i, sum)]]
           Iter(it) == [s \in SUBSET DOMAIN log |->
                          IF s = {} THEN 0 ELSE Plus1(Max(s), it[s \ {Max(s)}])]
           iter == CHOOSE it : it = Iter(it)
<1>1. n \in Nat /\ DOMAIN log = 1..n /\ 0 \in Nat
  OBVIOUS
<1>2. step \in [1..n -> [Nat -> Nat]]
  <2>1. ASSUME NEW i \in 1..n PROVE log[i] \in Run
    BY <1>1, <2>1
  <2>2. ASSUME NEW i \in 1..n, NEW sum \in Nat PROVE Plus1(i, sum) \in Nat
    BY <2>1, <2>2 DEF Run
  <2> HIDE DEF n, Plus1
  <2> QED
    BY <2>2
<1>3. PICK it \in [SUBSET (1..n) -> Nat] : Iterates(it, n, 0, step)
  <2> HIDE DEF n, step
  <2> QED
    BY <1>1, <1>2, Iteration DEF Iterable
<1>4. ASSUME NEW s \in SUBSET (1..n)
      PROVE  it[s] = IF s = {} THEN 0 ELSE Plus1(Max(s), it[s \ {Max(s)}])
  <2>1. CASE s = {}
    BY <1>3, <2>1 DEF Iterates
  <2>2. CASE s # {}
    <3>1. Max(s) \in 1..n /\ s \ {Max(s)} \in SUBSET (1..n)
      BY <1>1, <2>2, LastIndex
    <3>2. it[s \ {Max(s)}] \in Nat
      BY <3>1
    <3> HIDE DEF n, Plus1
    <3> QED
      BY <1>3, <2>2, <3>1, <3>2 DEF Iterates
  <2> QED
    BY <2>1, <2>2
<1>5. it = Iter(it)
  <2> HIDE DEF Plus1
  <2> QED
    BY <1>1, <1>4
<1>6. iter = Iter(iter)
  <2> HIDE DEF Plus1
  <2> QED
    BY <1>5
<1>7. Logged(src, log) = iter[DOMAIN log]
  BY DEF Logged, FoldLeft, MapThenFoldSet
<1> HIDE DEF iter
<1>8. iter[{}] = 0
  BY <1>6
<1>9. ASSUME NEW s \in SUBSET (1..n), s # {}, iter[s \ {Max(s)}] \in Nat
      PROVE  iter[s] = step[Max(s)][iter[s \ {Max(s)}]]
  <2>1. Max(s) \in 1..n
    BY <1>1, <1>9, LastIndex
  <2>2. iter[s] = Plus1(Max(s), iter[s \ {Max(s)}])
    BY <1>1, <1>6, <1>9
  <2> HIDE DEF n, Plus1
  <2> QED
    BY <1>9, <2>1, <2>2
<1>10. Iterating(iter, n, Nat, 0, step)
  <2> HIDE DEF n, step
  <2> QED
    BY <1>8, <1>9 DEF Iterating
<1>11. PICK f \in [0..n -> Nat] : /\ f[0] = 0
                                  /\ \A k \in 1..n : f[k] = step[k][f[k - 1]]
                                  /\ iter[1..n] = f[n]
  <2> HIDE DEF n, step
  <2>1. Reaches(iter[1..n], n, Nat, 0, step)
    BY <1>1, <1>2, <1>10, IterationSteps
  <2> QED
    BY <2>1 DEF Reaches
<1>12. ASSUME NEW k \in 1..n PROVE f[k] = Plus1(k, f[k - 1])
  <2> HIDE DEF n, Plus1, step
  <2>1. k - 1 \in 0..n
    BY <1>1
  <2>2. f[k - 1] \in Nat
    BY <1>11, <2>1
  <2> USE DEF step
  <2> QED
    BY <1>11, <2>2
<1>13. Logged(src, log) = f[n]
  BY <1>1, <1>7, <1>11
<1> QED
  BY <1>11, <1>12, <1>13

LEMMA LoggedEmpty == \A s : Logged(s, <<>>) = 0
<1>1. ASSUME NEW s, NEW log \in Seq(Run), Len(log) = 0 PROVE Logged(s, log) = 0
  <2>1. PICK f \in [0..Len(log) -> Nat] :
           /\ f[0] = 0
           /\ \A k \in 1..Len(log) :
                 f[k] = IF log[k].src = s THEN f[k - 1] + log[k].fetched ELSE f[k - 1]
           /\ Logged(s, log) = f[Len(log)]
    BY FoldsLog
  <2> QED
    BY <1>1, <2>1
<1>2. <<>> \in Seq(Run) /\ Len(<<>>) = 0
  OBVIOUS
<1> QED
  BY <1>1, <1>2

\* One run more counts for its source only.
LEMMA LoggedAppend ==
  ASSUME NEW log \in Seq(Run), NEW run \in Run, NEW s
  PROVE  Logged(s, Append(log, run)) =
           IF run.src = s THEN Logged(s, log) + run.fetched ELSE Logged(s, log)
<1> DEFINE n == Len(log)
           longer == Append(log, run)
<1>1. /\ n \in Nat /\ longer \in Seq(Run) /\ Len(longer) = n + 1
      /\ \A i \in 1..n : longer[i] = log[i]
      /\ longer[n + 1] = run
  OBVIOUS
<1>2. PICK f \in [0..n -> Nat] :
         /\ f[0] = 0
         /\ \A k \in 1..n : f[k] = IF log[k].src = s THEN f[k - 1] + log[k].fetched ELSE f[k - 1]
         /\ Logged(s, log) = f[n]
  BY FoldsLog
<1>3. PICK g \in [0..(n + 1) -> Nat] :
         /\ g[0] = 0
         /\ \A k \in 1..(n + 1) :
               g[k] = IF longer[k].src = s THEN g[k - 1] + longer[k].fetched ELSE g[k - 1]
         /\ Logged(s, longer) = g[n + 1]
  <2> HIDE DEF longer
  <2> QED
    BY <1>1, FoldsLog
<1> DEFINE T == {k \in Nat : k <= n => f[k] = g[k]}
<1> HIDE DEF longer, n
<1>4. 0 \in T
  BY <1>2, <1>3
<1>5. ASSUME NEW k \in Nat, k \in T PROVE k + 1 \in T
  <2>1. SUFFICES ASSUME k + 1 <= n PROVE f[k + 1] = g[k + 1]
    OBVIOUS
  <2>2. k + 1 \in 1..n /\ k + 1 \in 1..(n + 1) /\ (k + 1) - 1 = k /\ f[k] = g[k]
    BY <1>1, <1>5, <2>1
  <2>3. longer[k + 1] = log[k + 1]
    BY <1>1, <2>2
  <2> QED
    BY <1>2, <1>3, <2>2, <2>3
<1>6. Nat \subseteq T
  <2> HIDE DEF T
  <2> QED
    BY <1>4, <1>5, NatSetInduction
<1>7. f[n] = g[n]
  BY <1>1, <1>6
<1>8. n + 1 \in 1..(n + 1) /\ (n + 1) - 1 = n
  BY <1>1
<1>9. g[n + 1] = IF run.src = s THEN g[n] + run.fetched ELSE g[n]
  BY <1>1, <1>3, <1>8
<1> QED
  BY <1>2, <1>3, <1>7, <1>9 DEF longer

-----------------------------------------------------------------------------
USE BoundsAssumption DEF BoundsAssumption

Routing   == {"prepare", "retrieve", "semantic"}
Searching == {"decide", "live"}
Gathering == {"layer", "collect"}


-----------------------------------------------------------------------------
(* One budget *)

\* The controller in force has been charged for all the calls there were: the one
\* of the preflight, which a rerouting drops, was never charged.
BudgetInv ==
  /\ asked \in Nat /\ ledger \in Nat
  /\ asked <= ledger /\ ledger <= MaxCalls
  /\ pc = "prepare" \/ (pc \in Routing /\ planning = "preflight") => asked = 0

\* Asking the controller in force keeps its balance.
Asks == /\ asked' \in Nat /\ ledger' \in Nat
        /\ asked' <= ledger' /\ ledger' <= MaxCalls

LEMMA AskKeeps == ASSUME BudgetInv, NEW limit, Ask(limit) PROVE Asks
<1>1. PICK n \in 0..limit : /\ ledger + n <= MaxCalls
                            /\ ledger' = ledger + n
                            /\ asked' = asked + n
  BY DEF Ask
<1>2. n \in Nat
  OBVIOUS
<1> QED
  BY <1>1, <1>2 DEF BudgetInv, Asks

LEMMA BudgetStep == ASSUME BudgetInv, [Next]_vars PROVE BudgetInv'
<1> USE DEF BudgetInv, Routing
<1>1. CASE Begin
  BY <1>1 DEF Begin
<1>2. CASE Prepare
  <2>1. PICK n \in 0..PlanningCalls : n <= MaxCalls /\ ledger' = n /\ asked' = asked + n
    BY <1>2 DEF Prepare, AskAnew
  <2>2. n \in Nat /\ asked = 0 /\ pc' = "retrieve" /\ planning' = planning
    BY <1>2 DEF Prepare
  <2>3. planning = "preflight" => n = 0
    BY <2>1 DEF PlanningCalls, UsesPlanner
  <2> QED
    BY <2>1, <2>2, <2>3
<1>3. CASE Semantic
  BY <1>3 DEF Semantic
<1>4. CASE LiveStarts
  <2>1. Asks /\ pc' = "layer"
    BY <1>4, AskKeeps DEF LiveStarts
  <2> QED
    BY <2>1 DEF Asks
<1>5. CASE Report \/ ExplorationRefused
  <2>1. Asks /\ pc' = "idle"
    BY <1>5, AskKeeps DEF Report, ExplorationRefused
  <2> QED
    BY <2>1 DEF Asks
<1>6. CASE Retrieve
  BY <1>6 DEF Retrieve, planned
<1>7. CASE Decide \/ LiveUnneeded \/ LiveTooLate \/ LiveBlocked
  BY <1>7 DEF Decide, LiveUnneeded, LiveTooLate, LiveBlocked, planned
<1>8. CASE LayersEnd \/ LayerStarts \/ LayerReturns \/ Fresh
  BY <1>8 DEF LayersEnd, LayerStarts, LayerReturns, Fresh, planned
<1>9. CASE (\E s \in Sources : Call(s) \/ Return(s)) \/ Ingest \/ Tick
  BY <1>9 DEF Call, Return, Ingest, Tick, planned
<1>10. CASE UNCHANGED vars
  BY <1>10 DEF vars, planned
<1> QED
  BY <1>1, <1>2, <1>3, <1>4, <1>5, <1>6, <1>7, <1>8, <1>9, <1>10 DEF Next, Step

\* However an investigation is routed, it asks the model no more often than one
\* budget allows.
THEOREM OneBudgetHolds == Spec => []OneBudget
<1>1. Init => BudgetInv
  BY DEF Init, BudgetInv, Routing
<1>2. BudgetInv => OneBudget
  BY DEF BudgetInv, OneBudget
<1> QED
  BY <1>1, <1>2, BudgetStep, PTL DEF Spec

-----------------------------------------------------------------------------
(* The stages of the report *)

Routed == {"input_task", "route_and_guard", "asset_retrieval"}

\* What was processed agrees with the stage of the pipeline.
Processing ==
  /\ Routed \cup {"intelligence_pipeline"} \subseteq DOMAIN stages
  /\ stages["intelligence_pipeline"] = "skipped" <=> fresh.records = {}
  /\ Collected # {} => fresh.records = Collected

\* A full preparation without records of the caller follows a preflight, which has
\* recorded the input stage; sources are asked only for a request without records,
\* so that what they return is what is processed.
FlowInv ==
  /\ planning \in {"preflight", "full"}
  /\ pc \in Routing \cup Searching => fresh = NoFresh /\ live.records = <<>>
  /\ pc \in Routing /\ planning = "full" =>
       request.provided # {} \/ "input_task" \in DOMAIN stages
  /\ pc \in Searching \cup Gathering \cup {"fresh"} => Routed \subseteq DOMAIN stages
  /\ pc \in Searching /\ semantic.collect => request.provided = {}
  /\ pc \in Gathering => request.provided = {}
  /\ pc = "fresh" /\ Collected # {} => request.provided = {}
  /\ pc = "report" => Processing
  /\ pc = "idle" => ReportComplete

LEMMA EmptyToSet == ToSet(<<>>) = {}
BY DEF ToSet

\* What a step leaves of the report of an investigation that has ended, or of the
\* processing of one that is to be reported, when it changes none of this.
LEMMA ReportStays ==
  ASSUME UNCHANGED <<runs, stages, fresh, live>>
  PROVE  /\ ReportComplete /\ pc = "idle" /\ pc' = "idle" => ReportComplete'
         /\ Processing => Processing'
BY DEF ReportComplete, Processing, Collected

LEMMA FlowStep == ASSUME FlowInv, [Next]_vars PROVE FlowInv'
<1> USE DEF FlowInv, Routing, Searching, Gathering
<1>1. CASE Begin
  BY <1>1 DEF Begin, NoLive
<1>2. CASE Prepare \/ Retrieve
  BY <1>2 DEF Prepare, Retrieve, collected, planned
<1>3. CASE Semantic
  <2>1. /\ UNCHANGED <<request, fresh, live>> /\ pc = "semantic"
        /\ \/ pc' = "prepare" /\ planning = "preflight" /\ planning' = "full"
           \/ pc' = "decide" /\ planning' = planning
    BY <1>3 DEF Semantic, collected
  <2>2. RouteStages \subseteq DOMAIN stages' /\ DOMAIN stages \subseteq DOMAIN stages'
    BY <1>3 DEF Semantic, SetStages
  <2>3. Routed \subseteq DOMAIN stages'
    BY <2>1, <2>2 DEF RouteStages, Routed
  <2>4. semantic'.collect => request.provided = {}
    <3>1. semantic' = Decision({}, {}) \/ \E clues : semantic' = Decision(Hits, clues)
      BY <1>3 DEF Semantic
    <3>2. \A gap : ShouldCollect(gap) => request.provided = {}
      BY DEF ShouldCollect
    <3>3. \A records, clues : Decision(records, clues).collect => request.provided = {}
      BY <3>2 DEF Decision
    <3> QED
      BY <3>1, <3>3
  <2> QED
    BY <2>1, <2>3, <2>4 DEF Routed
<1>4. CASE Decide
  <2>1. CASE Satisfied(semantic)
    <3>1. /\ live'.records = <<>> /\ pc' = "report" /\ UNCHANGED <<planning, fresh>>
          /\ fresh = NoFresh /\ pc = "decide"
      BY <1>4, <2>1 DEF Decide, NoLive, planned
    <3>2. /\ DOMAIN stages \cup {"intelligence_pipeline"} = DOMAIN stages'
          /\ stages'["intelligence_pipeline"] = "skipped"
      BY <1>4, <2>1 DEF Decide, SetStages
    <3>3. Processing'
      BY <3>1, <3>2, EmptyToSet DEF Processing, Collected, NoFresh
    <3> QED
      BY <3>1, <3>3
  <2>2. CASE ~Satisfied(semantic)
    BY <1>4, <2>2 DEF Decide, planned
  <2> QED
    BY <2>1, <2>2
<1>5. CASE LiveUnneeded \/ LiveTooLate \/ LiveBlocked
  BY <1>5, EmptyToSet DEF LiveUnneeded, LiveTooLate, LiveBlocked, NoLive, Collected, planned
<1>6. CASE LiveStarts
  BY <1>6 DEF LiveStarts
<1>7. CASE LayersEnd \/ LayerStarts
  BY <1>7 DEF LayersEnd, LayerStarts, planned, collected
<1>8. CASE LayerReturns
  BY <1>8 DEF LayerReturns, planned
<1>9. CASE \E s \in Sources : Call(s) \/ Return(s)
  <2>1. PICK s \in Sources : Call(s) \/ Return(s)
    BY <1>9
  <2>2. UNCHANGED <<pc, runs, request, planning, semantic, live, fresh, stages>>
    BY <2>1 DEF Call, Return, planned
  <2> QED
    BY <2>2, ReportStays DEF Collected
<1>10. CASE Fresh
  <2>1. /\ UNCHANGED <<live, request, planning>> /\ pc = "fresh" /\ pc' = "report"
        /\ fresh'.records = Processed
    BY <1>10 DEF Fresh, collected, planned
  <2>2. /\ DOMAIN stages \cup {"intelligence_pipeline"} = DOMAIN stages'
        /\ stages'["intelligence_pipeline"] = IF Processed # {} THEN "completed" ELSE "skipped"
    BY <1>10 DEF Fresh, SetStages
  <2>3. Collected # {} => Processed = Collected
    BY <2>1 DEF Processed
  <2>4. Processing'
    BY <2>1, <2>2, <2>3 DEF Processing, Collected, Routed
  <2> QED
    BY <2>1, <2>4
<1>11. CASE Report \/ ExplorationRefused
  <2>1. Processing /\ pc' = "idle" /\ UNCHANGED <<runs, planning, fresh, live>>
    BY <1>11 DEF Report, ExplorationRefused, collected
  <2>2. CASE Report
    <3>1. /\ DOMAIN stages' = DOMAIN stages \cup {"clue_generation_report"}
          /\ stages'["intelligence_pipeline"] = stages["intelligence_pipeline"]
      BY <2>1, <2>2 DEF Report, SetStages, Processing
    <3>2. ReportComplete'
      BY <2>1, <3>1 DEF Processing, ReportComplete, Collected, StageNames, Routed
    <3> QED
      BY <2>1, <3>2
  <2>3. CASE ExplorationRefused
    <3>1. UNCHANGED stages /\ fresh.records # {}
      BY <2>3 DEF ExplorationRefused
    <3>2. ReportComplete'
      BY <2>1, <3>1 DEF Processing, ReportComplete, Collected, StageNames, Routed
    <3> QED
      BY <2>1, <3>2
  <2> QED
    BY <1>11, <2>2, <2>3
<1>12. CASE Ingest
  <2>1. UNCHANGED <<pc, runs, request, planning, semantic, live, fresh, stages>>
    BY <1>12 DEF Ingest, planned, collected
  <2> QED
    BY <2>1, ReportStays DEF Collected
<1>13. CASE Tick \/ UNCHANGED vars
  <2>1. UNCHANGED <<pc, runs, request, planning, semantic, live, fresh, stages>>
    BY <1>13 DEF Tick, vars, planned, collected
  <2> QED
    BY <2>1, ReportStays DEF Collected
<1> QED
  BY <1>1, <1>2, <1>3, <1>4, <1>5, <1>6, <1>7, <1>8, <1>9, <1>10, <1>11, <1>12, <1>13 DEF Next, Step

\* The report of an investigation names all five stages, but for one whose
\* exploration was refused, tells a pipeline that had nothing to process from one
\* that had, and nothing that was collected is left unprocessed.
THEOREM ReportsComplete == Spec => []ReportComplete
<1>1. Init => FlowInv
  BY DEF Init, FlowInv, Routing, Searching, Gathering, ReportComplete
<1>2. FlowInv => ReportComplete
  BY DEF FlowInv, ReportComplete
<1>3. FlowInv /\ [Next]_vars => FlowInv'
  BY FlowStep
<1> QED
  BY <1>1, <1>2, <1>3, PTL DEF Spec

-----------------------------------------------------------------------------
(* Types *)

LiveState == [records : Seq(Sources), runs : Seq(Run), gap : SUBSET Gaps, exempt : BOOLEAN]

LEMMA SourcesOrdered ==
  ASSUME NEW set \in SUBSET Sources
  PROVE  InOrder(set) \in Seq(Sources) /\ ToSet(InOrder(set)) = set
<1>1. set \in SUBSET Int /\ IsFiniteSet(set)
  BY SourcesAssumption, FS_Subset DEF SourcesAssumption
<1>2. InOrder(set) \in Seq(set) /\ ToSet(InOrder(set)) = set
  BY <1>1, OrderedList
<1> QED
  BY <1>2

\* Clues of the graph, whichever of them were promoted.
LEMMA GraphTyped ==
  ASSUME NEW known \in SUBSET Sources, NEW promoted
  PROVE  GraphClues(known, promoted) \subseteq Clue
<1>1. ASSUME NEW c \in GraphClues(known, promoted) PROVE c \in Clue
  <2>1. PICK k \in Keys : /\ Cardinality(Supporting(known, k)) > 1
                          /\ c = [key |-> k, srcs |-> Supporting(known, k), graph |-> TRUE,
                                  scored |-> k \in promoted]
    BY DEF GraphClues
  <2>2. Supporting(known, k) # {}
    <3>1. SUFFICES ASSUME Supporting(known, k) = {} PROVE FALSE
      OBVIOUS
    <3>2. Cardinality(Supporting(known, k)) = 0
      BY <3>1, FS_EmptySet
    <3> QED
      BY <2>1, <3>2
  <2>3. Supporting(known, k) \subseteq Sources
    BY DEF Supporting
  <2> QED
    BY <2>1, <2>2, <2>3 DEF Clue
<1> QED
  BY <1>1

LEMMA CluesTyped ==
  ASSUME TypeOK, NEW records \in SUBSET Sources, NEW clues \in Builds(records)
  PROVE  clues \subseteq Clue
<1>1. CluesOf(records) \subseteq Clue
  <2>1. ASSUME NEW c \in CluesOf(records) PROVE c \in Clue
    <3>1. PICK s \in records \cap DOMAIN KeyOf :
             c = [key |-> KeyOf[s], srcs |-> Supporting(records, KeyOf[s]), graph |-> FALSE, scored |-> TRUE]
      BY DEF CluesOf
    <3>2. KeyOf[s] \in Keys /\ Supporting(records, KeyOf[s]) \in (SUBSET Sources) \ {{}}
      <4>1. s \in Supporting(records, KeyOf[s])
        BY DEF Supporting
      <4>2. Supporting(records, KeyOf[s]) \subseteq Sources
        BY DEF Supporting
      <4>3. KeyOf[s] \in Keys
        BY DEF Keys
      <4> QED
        BY <4>1, <4>2, <4>3
    <3> QED
      BY <3>1, <3>2 DEF Clue
  <2> QED
    BY <2>1
<1>2. \A promoted : GraphClues(GraphOf(records), promoted) \subseteq Clue
  <2>1. GraphOf(records) \in SUBSET Sources
    BY DEF GraphOf, TypeOK
  <2> QED
    BY <2>1, GraphTyped
<1> QED
  BY <1>1, <1>2 DEF Builds

LEMMA MergedTyped ==
  ASSUME NEW clues \in SUBSET Clue
  PROVE  MergeByKey(clues) \subseteq Clue
<1> DEFINE Same(c) == {d \in clues : d.key = c.key /\ d.graph = c.graph}
           Merged(c) == [c EXCEPT !.srcs = UNION {d.srcs : d \in Same(c)},
                                  !.scored = \E d \in Same(c) : d.scored]
<1>1. ASSUME NEW c \in clues PROVE Merged(c) \in Clue
  <2>1. c \in Clue /\ c \in Same(c)
    OBVIOUS
  <2>2. \A d \in Same(c) : d.srcs \subseteq Sources
    BY DEF Clue
  <2> DEFINE all == UNION {d.srcs : d \in Same(c)}
             one == \E d \in Same(c) : d.scored
  <2>3. all \subseteq Sources
    BY <2>2
  <2>4. c.srcs \subseteq all
    BY <2>1
  <2>5. c.srcs # {}
    BY <2>1 DEF Clue
  <2>6. one \in BOOLEAN
    OBVIOUS
  <2>7. Merged(c) = [c EXCEPT !.srcs = all, !.scored = one]
    OBVIOUS
  <2> HIDE DEF Same, all, one, Merged
  <2>8. c.key \in Keys /\ c.graph \in BOOLEAN /\ all \in (SUBSET Sources) \ {{}}
    BY <2>1, <2>3, <2>4, <2>5 DEF Clue
  <2>9. [c EXCEPT !.srcs = all, !.scored = one] \in Clue
    BY <2>1, <2>6, <2>8 DEF Clue
  <2> QED
    BY <2>7, <2>9
<1>2. MergeByKey(clues) = {Merged(c) : c \in clues}
  BY DEF MergeByKey
<1> HIDE DEF Merged
<1> QED
  BY <1>1, <1>2

LEMMA BuildTyped ==
  ASSUME TypeOK, NEW records \in SUBSET Sources, NEW enrich \in BOOLEAN,
         NEW clues \in Builds(records), Build(records, enrich, clues)
  PROVE  /\ builder' \in [gateway : BOOLEAN, enrich : BOOLEAN, enriched : BOOLEAN, payload : SUBSET Sources]
         /\ builder'.payload = records
         /\ pool' \subseteq Clue
         /\ graph' \subseteq Sources
<1>1. /\ builder' \in [gateway : BOOLEAN, enrich : BOOLEAN, enriched : BOOLEAN, payload : SUBSET Sources]
      /\ builder'.payload = records
  BY DEF Build, BuildWith, SetControls, TypeOK
<1>2. pool' \subseteq Clue
  BY CluesTyped DEF Build, TypeOK
<1>3. graph' \subseteq Sources
  BY DEF Build, GraphOf, TypeOK
<1> QED
  BY <1>1, <1>2, <1>3

LEMMA DecisionTyped ==
  ASSUME NEW records \in SUBSET Sources, NEW clues \in SUBSET Clue
  PROVE  Decision(records, clues) \in
           [records : SUBSET Sources, clues : SUBSET Clue, collect : BOOLEAN, gap : SUBSET Gaps]
<1>1. \A summary : GapOf(summary) \in SUBSET Gaps
  BY DEF GapOf
<1> HIDE DEF GapOf
<1> QED
  BY <1>1 DEF Decision

\* What accepting the records of one source does: nothing when there is no room,
\* otherwise some of its records, no more than there is room for, and a run.
LEMMA Accepting ==
  ASSUME TypeOK, NEW acc \in LiveState, NEW s \in DOMAIN results
  PROVE  \/ Len(acc.records) >= MaxRaw /\ Accept(acc, s) = acc
         \/ \E taken \in 0..(MaxRaw - Len(acc.records)) :
               Accept(acc, s) = [acc EXCEPT !.records = @ \o [i \in 1..taken |-> s],
                                            !.runs = Append(@, [src |-> s, fetched |-> taken,
                                                                status |-> results[s].status])]
<1> DEFINE room  == MaxRaw - Len(acc.records)
           taken == IF results[s].count < room THEN results[s].count ELSE room
<1>1. room \in Int /\ results[s].count \in Nat
  BY DEF LiveState, TypeOK
<1>2. CASE room <= 0
  <2>1. Len(acc.records) >= MaxRaw
    BY <1>1, <1>2 DEF LiveState
  <2>2. Accept(acc, s) = acc
    BY <1>2 DEF Accept
  <2> QED
    BY <2>1, <2>2
<1>3. CASE room > 0
  <2>1. taken \in 0..room
    BY <1>1, <1>3
  <2>2. Accept(acc, s) = [acc EXCEPT !.records = @ \o [i \in 1..taken |-> s],
                                     !.runs = Append(@, [src |-> s, fetched |-> taken,
                                                         status |-> results[s].status])]
    BY <1>1, <1>3 DEF Accept
  <2> QED
    BY <2>1, <2>2
<1>4. room <= 0 \/ room > 0
  BY <1>1
<1> QED
  BY <1>2, <1>3, <1>4

LEMMA AcceptTyped ==
  ASSUME TypeOK, NEW acc \in LiveState, NEW s \in DOMAIN results
  PROVE  Accept(acc, s) \in LiveState
<1>1. CASE Accept(acc, s) = acc
  BY <1>1
<1>2. ASSUME NEW taken \in 0..(MaxRaw - Len(acc.records)),
             Accept(acc, s) = [acc EXCEPT !.records = @ \o [i \in 1..taken |-> s],
                                          !.runs = Append(@, [src |-> s, fetched |-> taken,
                                                              status |-> results[s].status])]
      PROVE  Accept(acc, s) \in LiveState
  <2>1. [src |-> s, fetched |-> taken, status |-> results[s].status] \in Run /\ s \in Sources
    BY DEF Run, TypeOK, LiveState
  <2>2. [i \in 1..taken |-> s] \in Seq(Sources)
    BY <2>1 DEF LiveState
  <2>3. /\ acc.records \o [i \in 1..taken |-> s] \in Seq(Sources)
        /\ Append(acc.runs, [src |-> s, fetched |-> taken, status |-> results[s].status]) \in Seq(Run)
    BY <2>1, <2>2 DEF LiveState
  <2> QED
    BY <1>2, <2>3 DEF LiveState
<1> QED
  BY <1>1, <1>2, Accepting

LEMMA GatheredTyped == ASSUME TypeOK PROVE Gathered \in LiveState
<1> DEFINE due == InOrder(Members \cap DOMAIN results)
<1>1. due \in Seq(Sources) /\ ToSet(due) \subseteq DOMAIN results
  <2>1. Members \cap DOMAIN results \in SUBSET Sources
    BY DEF TypeOK
  <2> QED
    BY <2>1, SourcesOrdered
<1>2. live \in LiveState
  BY DEF TypeOK, LiveState, Run
<1>3. \A acc \in LiveState, s \in ToSet(due) : Accept(acc, s) \in LiveState
  BY <1>1, AcceptTyped
<1> HIDE DEF due
<1>4. PICK f \in [0..Len(due) -> LiveState] : AcceptAll(live, due) = f[Len(due)]
  BY <1>1, <1>2, <1>3, FoldsAccept
<1>5. Len(due) \in 0..Len(due)
  BY <1>1
<1> QED
  <2>1. Gathered = AcceptAll(live, due)
    BY DEF Gathered, AcceptAll, due
  <2> QED
    BY <1>4, <1>5, <2>1

LEMMA BlockedTyped ==
  ASSUME TypeOK
  PROVE  BlockedRuns \in Seq(Run) /\ \A i \in DOMAIN BlockedRuns : BlockedRuns[i].fetched = 0
<1> DEFINE refused == InOrder(Capped \cap Blocked)
<1>1. refused \in Seq(Sources)
  <2>1. Capped \cap Blocked \in SUBSET Sources
    BY SourcesAssumption DEF SourcesAssumption
  <2> QED
    BY <2>1, SourcesOrdered
<1> HIDE DEF refused
<1>2. BlockedRuns = [i \in 1..Len(refused) |->
                       [src |-> refused[i], fetched |-> 0, status |-> "blocked_by_source_policy"]]
  BY <1>1 DEF BlockedRuns, refused
<1>3. ASSUME NEW i \in 1..Len(refused)
      PROVE  [src |-> refused[i], fetched |-> 0, status |-> "blocked_by_source_policy"] \in Run
  BY <1>1 DEF Run, Statuses
<1>4. Len(refused) \in Nat
  BY <1>1
<1>5. BlockedRuns \in Seq(Run)
  BY <1>2, <1>3, <1>4
<1> QED
  BY <1>2, <1>5

LEMMA NoLiveTyped == NoLive \in LiveState
<1>1. <<>> \in Seq(Sources) /\ <<>> \in Seq(Run)
  OBVIOUS
<1> QED
  BY <1>1 DEF NoLive, LiveState

LEMMA AskTyped ==
  ASSUME TypeOK, NEW limit, Ask(limit)
  PROVE  ledger' \in Nat /\ asked' \in Nat
BY DEF TypeOK, Ask

LEMMA TypeStep == ASSUME TypeOK, [Next]_vars PROVE TypeOK'
<1> USE DEF TypeOK
<1>1. CASE Begin
  <2>1. request' \in Request /\ planning' \in {"preflight", "full"}
    BY <1>1 DEF Begin
  <2>2. runs' \in 0..MaxRuns
    BY <1>1 DEF Begin
  <2>3. plan' = NoPlan /\ semantic' = NoSemantic /\ live' = NoLive /\ fresh' = NoFresh /\ report' = NoReport
    BY <1>1 DEF Begin
  <2>4. /\ plan' \in [mode : {"adaptive", "pool_only", "live_only"}, rewrite : BOOLEAN, selected : SUBSET Sources]
        /\ semantic' \in [records : SUBSET Sources, clues : SUBSET Clue, collect : BOOLEAN, gap : SUBSET Gaps]
        /\ live' \in [records : Seq(Sources), runs : Seq([src : Sources, fetched : Nat, status : Statuses]),
                      gap : SUBSET Gaps, exempt : BOOLEAN]
        /\ fresh' \in [records : SUBSET Sources, clues : SUBSET Clue]
        /\ report' \in [merged : SUBSET Clue, explored : SUBSET Sources, payload : SUBSET Sources]
    BY <2>3 DEF NoPlan, NoSemantic, NoLive, NoFresh, NoReport
  <2>5. DOMAIN results' = {} /\ DOMAIN stages' = {}
    BY <1>1 DEF Begin
  <2>6. /\ pc' = "prepare" /\ late' = FALSE /\ ledger' = 0 /\ asked' = 0 /\ found' = {}
        /\ pending' = {} /\ waiting' = {}
        /\ UNCHANGED <<builder, pool, graph, cache>>
    BY <1>1 DEF Begin, shared
  <2> QED
    BY <2>1, <2>2, <2>4, <2>5, <2>6
<1>2. CASE Prepare
  <2>1. ledger' \in Nat /\ asked' \in Nat
    BY <1>2 DEF Prepare, AskAnew
  <2>2. plan' \in [mode : {"adaptive", "pool_only", "live_only"}, rewrite : BOOLEAN, selected : SUBSET Sources]
    <3>1. Selections \subseteq SUBSET Sources
      BY DEF Selections, Request
    <3> HIDE DEF TypeOK
    <3> QED
      BY <1>2, <3>1 DEF Prepare
  <2>3. UNCHANGED <<runs, request, planning, found, semantic, collected, fresh, stages, report, shared>>
        /\ late' = FALSE /\ pc' = "retrieve"
    BY <1>2 DEF Prepare
  <2> QED
    BY <2>1, <2>2, <2>3 DEF collected, shared
<1>3. CASE Retrieve
  <2>1. found' \subseteq Clue
    <3>1. {c \in pool : c.key \in request.wanted} \cup GraphClues(graph, {}) \in SUBSET Clue
      BY GraphTyped
    <3> QED
      BY <1>3, <3>1, MergedTyped DEF Retrieve
  <2> QED
    BY <1>3, <2>1 DEF Retrieve, planned, collected, shared
<1>4. CASE Semantic
  <2>1. /\ semantic' \in [records : SUBSET Sources, clues : SUBSET Clue, collect : BOOLEAN, gap : SUBSET Gaps]
        /\ builder' \in [gateway : BOOLEAN, enrich : BOOLEAN, enriched : BOOLEAN, payload : SUBSET Sources]
        /\ pool' \subseteq Clue /\ graph' \subseteq Sources
    <3>1. CASE semantic' = Decision({}, {}) /\ UNCHANGED <<builder, pool, graph>>
      BY <3>1, DecisionTyped
    <3>2. ASSUME NEW clues \in Builds(Hits), semantic' = Decision(Hits, clues),
                 Build(Hits, request.profile = "balanced", clues)
          PROVE  <2>1
      <4>1. Hits \in SUBSET Sources /\ (request.profile = "balanced") \in BOOLEAN
        BY DEF Hits
      <4>2. clues \in SUBSET Clue
        BY <4>1, CluesTyped
      <4> HIDE DEF TypeOK
      <4>3. semantic' \in [records : SUBSET Sources, clues : SUBSET Clue, collect : BOOLEAN, gap : SUBSET Gaps]
        BY <3>2, <4>1, <4>2, DecisionTyped
      <4> QED
        BY <3>2, <4>1, <4>3, BuildTyped
    <3> HIDE DEF TypeOK
    <3> QED
      BY <1>4, <3>1, <3>2 DEF Semantic
  <2>2. DOMAIN stages' \subseteq StageNames
    BY <1>4 DEF Semantic, SetStages, RouteStages, StageNames
  <2>3. pc' \in {"prepare", "decide"} /\ planning' \in {"preflight", "full"}
    BY <1>4 DEF Semantic
  <2>4. UNCHANGED <<runs, request, plan, ledger, asked, late, found, live, pending, results, waiting,
                    fresh, report, cache>>
    BY <1>4 DEF Semantic, collected
  <2> QED
    BY <2>1, <2>2, <2>3, <2>4
<1>5. CASE Decide
  <2>1. live' \in LiveState
    <3>1. live' = [NoLive EXCEPT !.gap = semantic.gap] \/ live' = live
      BY <1>5 DEF Decide
    <3>2. live \in LiveState
      BY DEF LiveState, Run
    <3>3. [NoLive EXCEPT !.gap = semantic.gap] \in LiveState
      BY NoLiveTyped DEF LiveState
    <3> QED
      BY <3>1, <3>2, <3>3
  <2>2. DOMAIN stages' \subseteq StageNames
    BY <1>5 DEF Decide, SetStages, StageNames
  <2>3. pc' \in {"report", "live"}
    BY <1>5 DEF Decide
  <2>4. UNCHANGED <<runs, request, planning, plan, ledger, asked, late, found, semantic, pending, results,
                    waiting, fresh, report, builder, pool, graph, cache>>
    BY <1>5 DEF Decide, planned, shared
  <2> QED
    BY <2>1, <2>2, <2>3, <2>4 DEF LiveState, Run
<1>6. CASE LiveUnneeded \/ LiveTooLate \/ LiveBlocked
  <2>1. live' \in LiveState
    <3>1. \A log \in Seq(Run) : [NoLive EXCEPT !.gap = semantic.gap, !.runs = log] \in LiveState
      BY NoLiveTyped DEF LiveState
    <3>2. [NoLive EXCEPT !.gap = semantic.gap] \in LiveState
      BY NoLiveTyped DEF LiveState
    <3> HIDE DEF TypeOK
    <3> QED
      BY <1>6, <3>1, <3>2, BlockedTyped DEF LiveUnneeded, LiveTooLate, LiveBlocked
  <2>2. pc' = "fresh"
        /\ UNCHANGED <<runs, request, planning, plan, ledger, asked, late, found, semantic, pending, results,
                       waiting, fresh, stages, report, builder, pool, graph, cache>>
    BY <1>6 DEF LiveUnneeded, LiveTooLate, LiveBlocked, planned, shared
  <2> QED
    BY <2>1, <2>2 DEF LiveState, Run
<1>7. CASE LiveStarts
  <2>1. live' \in LiveState
    <3>1. live' = [NoLive EXCEPT !.gap = semantic.gap, !.exempt = late' /\ NothingElse]
      BY <1>7 DEF LiveStarts
    <3>2. (late' /\ NothingElse) \in BOOLEAN
      OBVIOUS
    <3> QED
      BY <3>1, <3>2, NoLiveTyped DEF LiveState
  <2>2. ledger' \in Nat /\ asked' \in Nat
    BY <1>7 DEF LiveStarts, Ask
  <2>3. pc' = "layer" /\ late' \in BOOLEAN /\ pending' \subseteq Sources
        /\ UNCHANGED <<runs, request, planning, plan, found, semantic, results,
                       waiting, fresh, stages, report, builder, pool, graph, cache>>
    BY <1>7 DEF LiveStarts, shared, Allowed, Capped, First
  <2> QED
    BY <2>1, <2>2, <2>3 DEF LiveState, Run
<1>8. CASE LayersEnd \/ LayerStarts
  <2>1. /\ pc' \in {"fresh", "collect"} /\ (results' = results \/ DOMAIN results' = {})
        /\ UNCHANGED <<runs, request, planning, plan, ledger, asked, late, found, semantic, live, pending,
                       waiting, fresh, stages, report, builder, pool, graph, cache>>
    BY <1>8 DEF LayersEnd, LayerStarts, planned, collected, shared
  <2> QED
    BY <2>1
<1>9. CASE LayerReturns
  <2>1. Gathered \in LiveState
    BY GatheredTyped
  <2> DEFINE kept == [live EXCEPT !.records = Gathered.records, !.runs = Gathered.runs]
             got == ToSet(Gathered.records)
  <2>2. kept \in LiveState /\ got \in SUBSET Sources
    <3>1. Gathered.records \in Seq(Sources) /\ Gathered.runs \in Seq(Run)
      BY <2>1 DEF LiveState
    <3>2. live \in LiveState
      BY DEF LiveState, Run
    <3>3. kept \in LiveState
      BY <3>1, <3>2 DEF LiveState
    <3>4. got \in SUBSET Sources
      BY <3>1 DEF ToSet
    <3> QED
      BY <3>3, <3>4
  <2>3. /\ live' \in LiveState
        /\ builder' \in [gateway : BOOLEAN, enrich : BOOLEAN, enriched : BOOLEAN, payload : SUBSET Sources]
        /\ pool' \subseteq Clue /\ graph' \subseteq Sources
    <3>1. CASE live' = kept /\ UNCHANGED <<builder, pool, graph>>
      BY <2>2, <3>1
    <3>2. ASSUME NEW clues \in Builds(got), Build(got, FALSE, clues), live' = [kept EXCEPT !.gap = GapAfter(clues)]
          PROVE  <2>3
      <4>1. GapAfter(clues) \in SUBSET Gaps
        BY DEF GapAfter, GapOf
      <4>2. live' \in LiveState
        BY <2>2, <3>2, <4>1 DEF LiveState
      <4> HIDE DEF TypeOK, got
      <4> QED
        BY <2>2, <3>2, <4>2, BuildTyped
    <3> QED
      BY <1>9, <3>1, <3>2 DEF LayerReturns
  <2>4. /\ pc' = "layer" /\ pending' \subseteq Sources
        /\ UNCHANGED <<runs, request, planning, plan, ledger, asked, late, found, semantic, results,
                       waiting, fresh, stages, report, cache>>
    <3>1. pending' = {} \/ pending' = pending \ Members
      BY <1>9 DEF LayerReturns
    <3> QED
      BY <1>9, <3>1 DEF LayerReturns, planned
  <2> QED
    BY <2>3, <2>4 DEF LiveState, Run
<1>10. CASE \E s \in Sources : Call(s) \/ Return(s)
  <2>1. PICK s \in Sources : Call(s) \/ Return(s)
    BY <1>10
  <2>2. waiting' \subseteq Sources
    BY <2>1 DEF Call, Return
  <2>3. DOMAIN results' \subseteq Sources /\ \A t \in DOMAIN results' : results'[t] \in [count : Nat, status : Statuses]
    <3>1. CASE UNCHANGED results
      BY <3>1
    <3>2. ASSUME NEW outcome \in [count : Nat, status : Statuses],
                 results' = [t \in DOMAIN results \cup {s} |-> IF t = s THEN outcome ELSE results[t]]
          PROVE  <2>3
      BY <3>2
    <3>3. {[count |-> n, status |-> "completed"] : n \in Yield} \cup {[count |-> 0, status |-> "error"]}
            \subseteq [count : Nat, status : Statuses]
      BY DEF Statuses
    <3> HIDE DEF TypeOK
    <3>4. UNCHANGED results \/ \E outcome \in [count : Nat, status : Statuses] :
             results' = [t \in DOMAIN results \cup {s} |-> IF t = s THEN outcome ELSE results[t]]
      BY <2>1, <3>3 DEF Call, Return
    <3> QED
      BY <3>1, <3>2, <3>4
  <2>4. UNCHANGED <<pc, runs, request, planning, plan, ledger, asked, late, found, semantic, live, pending,
                    fresh, stages, report, builder, pool, graph, cache>>
    BY <2>1 DEF Call, Return, planned, shared
  <2> QED
    BY <2>2, <2>3, <2>4
<1>11. CASE Fresh
  <2>1. Processed \in SUBSET Sources
    BY DEF Processed, Provided, First, Collected, Request, ToSet
  <2>2. /\ fresh' \in [records : SUBSET Sources, clues : SUBSET Clue]
        /\ builder' \in [gateway : BOOLEAN, enrich : BOOLEAN, enriched : BOOLEAN, payload : SUBSET Sources]
        /\ pool' \subseteq Clue /\ graph' \subseteq Sources
    <3>1. CASE fresh' = [records |-> Processed, clues |-> {}] /\ UNCHANGED <<builder, pool, graph>>
      BY <2>1, <3>1
    <3>2. ASSUME NEW clues \in Builds(Processed), fresh' = [records |-> Processed, clues |-> clues],
                 Build(Processed, request.profile = "balanced", clues)
          PROVE  <2>2
      <4>1. (request.profile = "balanced") \in BOOLEAN
        OBVIOUS
      <4> HIDE DEF TypeOK
      <4>2. clues \subseteq Clue
        BY <2>1, CluesTyped
      <4>3. fresh' \in [records : SUBSET Sources, clues : SUBSET Clue]
        BY <2>1, <3>2, <4>2
      <4> QED
        BY <2>1, <3>2, <4>1, <4>3, BuildTyped
    <3> QED
      BY <1>11, <3>1, <3>2 DEF Fresh
  <2>3. DOMAIN stages' \subseteq StageNames
    BY <1>11 DEF Fresh, SetStages, StageNames
  <2>4. pc' = "report"
        /\ UNCHANGED <<runs, request, planning, plan, ledger, asked, late, found, semantic, live, pending, results,
                       waiting, report, cache>>
    BY <1>11 DEF Fresh, planned, collected
  <2> QED
    BY <2>2, <2>3, <2>4
<1>12. CASE Report \/ ExplorationRefused
  <2> DEFINE merged == MergeByKey(PoolPart \cup semantic.clues \cup fresh.clues)
  <2>1. merged \subseteq Clue
    BY MergedTyped DEF PoolPart
  <2> HIDE DEF merged
  <2>2. ledger' \in Nat /\ asked' \in Nat /\ pool' \subseteq Clue
    <3>1. pool' = pool \cup merged
      BY <1>12 DEF Report, ExplorationRefused, merged
    <3>2. ledger' \in Nat /\ asked' \in Nat
      <4> HIDE DEF TypeOK
      <4> QED
        BY <1>12, AskTyped DEF Report, ExplorationRefused
    <3>3. pool \subseteq Clue
      OBVIOUS
    <3> QED
      BY <2>1, <3>1, <3>2, <3>3
  <2>3. report' \in [merged : SUBSET Clue, explored : SUBSET Sources, payload : SUBSET Sources]
    <3>1. CASE UNCHANGED report
      BY <3>1
    <3>2. CASE Report
      <4>1. PICK explores \in BOOLEAN :
               report' = [merged |-> merged, explored |-> IF explores THEN fresh.records ELSE {},
                          payload |-> IF explores THEN builder.payload ELSE {}]
        BY <3>2 DEF Report, merged
      <4> QED
        BY <2>1, <4>1
    <3> QED
      BY <1>12, <3>1, <3>2 DEF ExplorationRefused
  <2>4. DOMAIN stages' \subseteq StageNames
    BY <1>12 DEF Report, ExplorationRefused, SetStages, StageNames
  <2>5. pc' = "idle"
        /\ UNCHANGED <<runs, request, planning, plan, late, found, semantic, live, pending, results, waiting,
                       fresh, builder, graph, cache>>
    BY <1>12 DEF Report, ExplorationRefused, collected
  <2> QED
    BY <2>2, <2>3, <2>4, <2>5
<1>13. CASE Ingest
  <2>1. cache' \subseteq Sources
        /\ builder' \in [gateway : BOOLEAN, enrich : BOOLEAN, enriched : BOOLEAN, payload : SUBSET Sources]
    <3>1. PICK records \in Imports : /\ cache' = cache \cup records
                                     /\ builder' = [builder EXCEPT !.payload = records]
      BY <1>13 DEF Ingest
    <3>2. records \in SUBSET Sources
      OBVIOUS
    <3> QED
      BY <3>1, <3>2
  <2>2. UNCHANGED <<pc, runs, request, planning, plan, ledger, asked, late, found, semantic, live, pending, results,
                    waiting, fresh, stages, report, pool, graph>>
    BY <1>13 DEF Ingest, planned, collected
  <2> QED
    BY <2>1, <2>2
<1>14. CASE Tick \/ UNCHANGED vars
  <2>1. late' \in BOOLEAN
        /\ UNCHANGED <<pc, runs, request, planning, plan, ledger, asked, found, semantic, live, pending, results,
                       waiting, fresh, stages, report, builder, pool, graph, cache>>
    BY <1>14 DEF Tick, vars, planned, collected, shared
  <2> QED
    BY <2>1
<1> QED
  BY <1>1, <1>2, <1>3, <1>4, <1>5, <1>6, <1>7, <1>8, <1>9, <1>10, <1>11, <1>12, <1>13, <1>14 DEF Next, Step

LEMMA InitTyped == Init => TypeOK
<1>1. SUFFICES ASSUME Init PROVE TypeOK
  OBVIOUS
<1>2. NoRequest \in Request
  BY DEF NoRequest, Request
<1>3. /\ NoPlan \in [mode : {"adaptive", "pool_only", "live_only"}, rewrite : BOOLEAN, selected : SUBSET Sources]
      /\ NoSemantic \in [records : SUBSET Sources, clues : SUBSET Clue, collect : BOOLEAN, gap : SUBSET Gaps]
      /\ NoFresh \in [records : SUBSET Sources, clues : SUBSET Clue]
      /\ NoReport \in [merged : SUBSET Clue, explored : SUBSET Sources, payload : SUBSET Sources]
  BY DEF NoPlan, NoSemantic, NoFresh, NoReport
<1>4. NoLive \in [records : Seq(Sources), runs : Seq([src : Sources, fetched : Nat, status : Statuses]),
                  gap : SUBSET Gaps, exempt : BOOLEAN]
  BY NoLiveTyped DEF LiveState, Run
<1>5. /\ pc = "idle" /\ runs = 0 /\ request = NoRequest /\ planning = "preflight" /\ plan = NoPlan
      /\ late = FALSE /\ ledger = 0 /\ asked = 0
      /\ found = {} /\ semantic = NoSemantic /\ live = NoLive /\ fresh = NoFresh
      /\ pending = {} /\ results = <<>> /\ waiting = {} /\ stages = <<>> /\ report = NoReport
      /\ builder = [gateway |-> FALSE, enrich |-> FALSE, enriched |-> FALSE, payload |-> {}]
      /\ pool = {} /\ graph = {} /\ cache = {}
  BY <1>1 DEF Init
<1>6. DOMAIN <<>> = {} /\ 0 \in 0..MaxRuns
  OBVIOUS
<1> QED
  BY <1>2, <1>3, <1>4, <1>5, <1>6 DEF TypeOK

\* Every variable of the workflow keeps its type: clues name known entities and
\* carry evidence, gaps and stages come from the fixed lists, the payload and the
\* graph hold records of configured sources.
THEOREM InvestigationTypeCorrect == Spec => []TypeOK
BY InitTyped, TypeStep, PTL DEF Spec

-----------------------------------------------------------------------------
(* The accounts *)

Count(records, s) == Cardinality({i \in DOMAIN records : records[i] = s})

\* Records within the limit and from the sources of A, and the log that accounts
\* for them.
Balanced(records, log, A) ==
  /\ Len(records) <= MaxRaw
  /\ ToSet(records) \subseteq A
  /\ \A s \in Sources : Count(records, s) = Logged(s, log)

Accounts(A) == {acc \in LiveState : Balanced(acc.records, acc.runs, A)}

Copies(s, n) == [i \in 1..n |-> s]

\* More records of one source.
LEMMA CountMore ==
  ASSUME NEW records \in Seq(Sources), NEW s \in Sources, NEW taken \in Nat, NEW t
  PROVE  Count(records \o Copies(s, taken), t) =
           IF t = s THEN Count(records, t) + taken ELSE Count(records, t)
<1> DEFINE n == Len(records)
           longer == records \o Copies(s, taken)
           Old == {i \in 1..n : records[i] = t}
           New == {i \in (n + 1)..(n + taken) : t = s}
<1>1. n \in Nat /\ DOMAIN records = 1..n
  OBVIOUS
<1>2. /\ DOMAIN longer = 1..(n + taken)
      /\ \A i \in 1..n : longer[i] = records[i]
      /\ \A i \in (n + 1)..(n + taken) : longer[i] = s
  <2>1. [i \in 1..taken |-> s] \in Seq(Sources) /\ Len([i \in 1..taken |-> s]) = taken
    OBVIOUS
  <2> QED
    BY <2>1 DEF Copies
<1> HIDE DEF n, longer
<1>3. {i \in DOMAIN longer : longer[i] = t} = Old \cup New
  BY <1>1, <1>2
<1>4. Old \cap New = {}
  BY <1>1
<1>5. IsFiniteSet(Old) /\ Old = {i \in DOMAIN records : records[i] = t}
  <2>1. IsFiniteSet(1..n) /\ Old \in SUBSET (1..n)
    BY <1>1, FS_Interval
  <2> QED
    BY <1>1, <2>1, FS_Subset
<1>6. IsFiniteSet(New) /\ Cardinality(New) = IF t = s THEN taken ELSE 0
  <2>1. CASE t = s
    <3>1. New = (n + 1)..(n + taken)
      BY <2>1
    <3>2. IsFiniteSet((n + 1)..(n + taken)) /\ Cardinality((n + 1)..(n + taken)) = taken
      <4>1. n + 1 \in Int /\ n + taken \in Int
        BY <1>1
      <4>2. /\ IsFiniteSet((n + 1)..(n + taken))
            /\ Cardinality((n + 1)..(n + taken)) =
                 IF n + 1 > n + taken THEN 0 ELSE (n + taken) - (n + 1) + 1
        BY <4>1, FS_Interval
      <4> QED
        BY <1>1, <4>2
    <3> QED
      BY <2>1, <3>1, <3>2
  <2>2. CASE t # s
    BY <2>2, FS_EmptySet
  <2> QED
    BY <2>1, <2>2
<1>7. Cardinality(Old \cup New) = Cardinality(Old) + Cardinality(New)
  <2>1. Cardinality(Old \cup New) = Cardinality(Old) + Cardinality(New) - Cardinality(Old \cap New)
    BY <1>5, <1>6, FS_Union
  <2>2. Cardinality(Old \cap New) = 0
    BY <1>4, FS_EmptySet
  <2>3. Cardinality(Old) \in Nat /\ Cardinality(New) \in Nat
    BY <1>5, <1>6, FS_CardinalityType
  <2> QED
    BY <2>1, <2>2, <2>3
<1>8. Cardinality(Old) \in Nat
  BY <1>5, FS_CardinalityType
<1>9. Count(longer, t) = Cardinality(Old \cup New) /\ Count(records, t) = Cardinality(Old)
  BY <1>3, <1>5 DEF Count
<1> QED
  BY <1>6, <1>7, <1>8, <1>9 DEF longer

\* Accepting the records of a source keeps the accounts.
LEMMA AcceptBalanced ==
  ASSUME TypeOK, NEW A, NEW acc \in Accounts(A), NEW s \in DOMAIN results, s \in A
  PROVE  Accept(acc, s) \in Accounts(A)
<1>1. acc \in LiveState /\ Balanced(acc.records, acc.runs, A)
  BY DEF Accounts
<1>2. CASE Accept(acc, s) = acc
  BY <1>2
<1>3. ASSUME NEW taken \in 0..(MaxRaw - Len(acc.records)),
             Accept(acc, s) = [acc EXCEPT !.records = @ \o [i \in 1..taken |-> s],
                                          !.runs = Append(@, [src |-> s, fetched |-> taken,
                                                              status |-> results[s].status])]
      PROVE  Accept(acc, s) \in Accounts(A)
  <2> DEFINE new == Accept(acc, s)
             run == [src |-> s, fetched |-> taken, status |-> results[s].status]
  <2>1. /\ new \in LiveState
        /\ new.records = acc.records \o [i \in 1..taken |-> s]
        /\ new.runs = Append(acc.runs, run)
    BY <1>1, <1>3, AcceptTyped DEF LiveState
  <2>2. taken \in Nat /\ s \in Sources /\ run \in Run /\ acc.records \in Seq(Sources) /\ acc.runs \in Seq(Run)
    BY <1>1 DEF LiveState, Run, TypeOK
  <2> HIDE DEF new, run
  <2>3. Len([i \in 1..taken |-> s]) = taken /\ [i \in 1..taken |-> s] \in Seq(Sources)
    BY <2>2
  <2>4. Len(new.records) <= MaxRaw
    <3>1. Len(new.records) = Len(acc.records) + taken
      BY <2>1, <2>2, <2>3
    <3>2. Len(acc.records) \in Nat
      BY <2>2
    <3> QED
      BY <3>1, <3>2
  <2>5. ToSet(new.records) \subseteq A
    <3>1. ASSUME NEW j \in DOMAIN new.records PROVE new.records[j] \in A
      <4>1. DOMAIN new.records = 1..(Len(acc.records) + taken)
        BY <2>1, <2>2, <2>3
      <4>2. CASE j <= Len(acc.records)
        <5>1. j \in DOMAIN acc.records /\ new.records[j] = acc.records[j]
          BY <2>1, <2>2, <2>3, <4>1, <4>2
        <5> QED
          BY <1>1, <5>1 DEF Balanced, ToSet
      <4>3. CASE j > Len(acc.records)
        <5>1. new.records[j] = s
          <6>1. j - Len(acc.records) \in 1..taken
            BY SMTT(30), <2>2, <4>1, <4>3
          <6>2. new.records[j] = [i \in 1..taken |-> s][j - Len(acc.records)]
            BY <2>1, <2>2, <2>3, <4>1, <4>3
          <6> QED
            BY <6>1, <6>2
        <5> QED
          BY <5>1
      <4>4. j \in Int /\ Len(acc.records) \in Int
        BY <2>2, <4>1
      <4> QED
        BY <4>2, <4>3, <4>4
    <3> QED
      BY <3>1 DEF ToSet
  <2>6. ASSUME NEW t \in Sources PROVE Count(new.records, t) = Logged(t, new.runs)
    <3>1. Count(new.records, t) = IF t = s THEN Count(acc.records, t) + taken ELSE Count(acc.records, t)
      <4>1. Count(acc.records \o Copies(s, taken), t) =
              IF t = s THEN Count(acc.records, t) + taken ELSE Count(acc.records, t)
        BY <2>2, CountMore
      <4>2. new.records = acc.records \o Copies(s, taken)
        BY <2>1 DEF Copies
      <4> QED
        BY <4>1, <4>2
    <3>2. Logged(t, new.runs) = IF run.src = t THEN Logged(t, acc.runs) + run.fetched ELSE Logged(t, acc.runs)
      BY <2>1, <2>2, LoggedAppend
    <3>3. run.src = s /\ run.fetched = taken
      BY DEF run
    <3>4. Count(acc.records, t) = Logged(t, acc.runs)
      BY <1>1 DEF Balanced
    <3> QED
      BY <3>1, <3>2, <3>3, <3>4
  <2> QED
    BY <2>1, <2>4, <2>5, <2>6 DEF Accounts, Balanced, new
<1> QED
  BY <1>1, <1>2, <1>3, Accepting

\* So does gathering a layer.
LEMMA GatheredBalanced ==
  ASSUME TypeOK, NEW A, live \in Accounts(A), Members \subseteq A
  PROVE  Gathered \in Accounts(A)
<1> DEFINE due == InOrder(Members \cap DOMAIN results)
<1>1. due \in Seq(Sources) /\ ToSet(due) \subseteq DOMAIN results /\ ToSet(due) \subseteq A
  <2>1. Members \cap DOMAIN results \in SUBSET Sources
    BY DEF TypeOK
  <2> QED
    BY <2>1, SourcesOrdered
<1>2. \A acc \in Accounts(A), s \in ToSet(due) : Accept(acc, s) \in Accounts(A)
  BY <1>1, AcceptBalanced
<1> HIDE DEF due
<1>3. PICK f \in [0..Len(due) -> Accounts(A)] : AcceptAll(live, due) = f[Len(due)]
  BY <1>1, <1>2, FoldsAccept
<1>4. Len(due) \in 0..Len(due)
  BY <1>1
<1>5. Gathered = AcceptAll(live, due)
  BY DEF Gathered, AcceptAll, due
<1> QED
  BY <1>3, <1>4, <1>5

\* A log of runs that fetched nothing accounts for nothing.
LEMMA LoggedNothing ==
  ASSUME NEW log \in Seq(Run), \A i \in DOMAIN log : log[i].fetched = 0, NEW s
  PROVE  Logged(s, log) = 0
<1> DEFINE n == Len(log)
<1>1. PICK f \in [0..n -> Nat] :
         /\ f[0] = 0
         /\ \A k \in 1..n : f[k] = IF log[k].src = s THEN f[k - 1] + log[k].fetched ELSE f[k - 1]
         /\ Logged(s, log) = f[n]
  BY FoldsLog
<1>2. n \in Nat /\ \A k \in 1..n : log[k].fetched = 0
  OBVIOUS
<1> HIDE DEF n
<1> DEFINE T == {k \in Nat : k <= n => f[k] = 0}
<1>3. 0 \in T
  BY <1>1
<1>4. ASSUME NEW k \in Nat, k \in T PROVE k + 1 \in T
  <2>1. SUFFICES ASSUME k + 1 <= n PROVE f[k + 1] = 0
    OBVIOUS
  <2>2. k + 1 \in 1..n /\ (k + 1) - 1 = k /\ f[k] = 0
    BY <1>2, <1>4, <2>1
  <2>3. log[k + 1].fetched = 0
    BY <1>2, <2>2
  <2>4. f[k + 1] = IF log[k + 1].src = s THEN f[k] + log[k + 1].fetched ELSE f[k]
    BY <1>1, <2>2
  <2> QED
    BY <2>2, <2>3, <2>4
<1>5. Nat \subseteq T
  <2> HIDE DEF T
  <2> QED
    BY <1>3, <1>4, NatSetInduction
<1> QED
  BY <1>1, <1>2, <1>5

LEMMA NothingBalanced ==
  ASSUME NEW A, NEW log \in Seq(Run), \A i \in DOMAIN log : log[i].fetched = 0
  PROVE  Balanced(<<>>, log, A)
<1>1. Len(<<>>) <= MaxRaw
  OBVIOUS
<1>2. ToSet(<<>>) = {}
  BY DEF ToSet
<1>3. ASSUME NEW s \in Sources PROVE Count(<<>>, s) = Logged(s, log)
  <2>1. {i \in DOMAIN <<>> : <<>>[i] = s} = {}
    OBVIOUS
  <2>2. Count(<<>>, s) = 0
    BY <2>1, FS_EmptySet DEF Count
  <2> QED
    BY <2>2, LoggedNothing
<1> QED
  BY <1>1, <1>2, <1>3 DEF Balanced
\* The accounts hold throughout; what is still to be collected comes from sources
\* the plan selected and the policy allows.
AccountInv ==
  /\ Balanced(live.records, live.runs, plan.selected \ Blocked)
  /\ pc \in Gathering => pending \subseteq plan.selected \ Blocked

LEMMA AccountStep ==
  ASSUME TypeOK, FlowInv, AccountInv, [Next]_vars
  PROVE  AccountInv'
<1> DEFINE A == plan.selected \ Blocked
<1>1. live \in LiveState
  BY DEF TypeOK, LiveState, Run
<1>2. Allowed \subseteq A
  BY DEF Allowed, Capped, First
<1>3. \A log : log \in Seq(Run) /\ (\A i \in DOMAIN log : log[i].fetched = 0) =>
         Balanced(<<>>, log, A)
  BY NothingBalanced
<1>4. <<>> \in Seq(Run) /\ \A i \in DOMAIN <<>> : <<>>[i].fetched = 0
  OBVIOUS
<1>5. NoLive.records = <<>> /\ NoLive.runs = <<>>
  BY DEF NoLive
<1>6. CASE Begin
  <2>1. live' = NoLive /\ pc' = "prepare"
    BY <1>6 DEF Begin
  <2>2. Balanced(<<>>, <<>>, plan'.selected \ Blocked)
    BY <1>4, NothingBalanced
  <2> QED
    BY <1>5, <2>1, <2>2 DEF AccountInv, Gathering
<1>7. CASE Prepare
  <2>1. UNCHANGED live /\ pc' = "retrieve" /\ live.records = <<>>
    BY <1>7 DEF Prepare, collected, FlowInv, Routing
  <2>2. Balanced(live.records, live.runs, plan'.selected \ Blocked)
    <3>1. ToSet(<<>>) = {}
      BY DEF ToSet
    <3> QED
      BY <2>1, <3>1 DEF AccountInv, Balanced
  <2> QED
    BY <2>1, <2>2 DEF AccountInv, Gathering
<1>8. CASE Decide \/ LiveUnneeded \/ LiveTooLate
  <2>1. live' = live \/ (live'.records = <<>> /\ live'.runs = <<>>)
    BY <1>8 DEF Decide, LiveUnneeded, LiveTooLate, NoLive
  <2>2. UNCHANGED plan /\ pc' \notin Gathering
    BY <1>8 DEF Decide, LiveUnneeded, LiveTooLate, planned, Gathering
  <2> QED
    BY <1>3, <1>4, <2>1, <2>2 DEF AccountInv
<1>9. CASE LiveBlocked
  <2>1. live'.records = <<>> /\ live'.runs = BlockedRuns
    BY <1>9 DEF LiveBlocked, NoLive
  <2>2. UNCHANGED plan /\ pc' \notin Gathering
    BY <1>9 DEF LiveBlocked, planned, Gathering
  <2> QED
    BY <1>3, <2>1, <2>2, BlockedTyped DEF AccountInv
<1>10. CASE LiveStarts
  <2>1. live'.records = <<>> /\ live'.runs = <<>> /\ UNCHANGED plan /\ pending' = Allowed
    BY <1>10 DEF LiveStarts, NoLive
  <2> QED
    BY <1>2, <1>3, <1>4, <2>1 DEF AccountInv
<1>11. CASE LayerReturns
  <2>1. UNCHANGED plan /\ pending' \subseteq pending /\ pc \in Gathering
    BY <1>11 DEF LayerReturns, planned, Gathering
  <2>2. live'.records = Gathered.records /\ live'.runs = Gathered.runs
    BY <1>1, <1>11 DEF LayerReturns, LiveState
  <2>3. Members \subseteq A /\ live \in Accounts(A)
    BY <1>1, <2>1 DEF AccountInv, Members, Accounts
  <2>4. Gathered \in Accounts(A)
    BY <2>3, GatheredBalanced
  <2>5. Balanced(Gathered.records, Gathered.runs, A)
    BY <2>4 DEF Accounts
  <2> QED
    BY <2>1, <2>2, <2>5 DEF AccountInv
<1>12. CASE \/ Retrieve \/ Semantic \/ LayersEnd \/ LayerStarts \/ Fresh \/ Report \/ ExplorationRefused
            \/ Ingest \/ Tick \/ UNCHANGED vars \/ \E s \in Sources : Call(s) \/ Return(s)
  <2>1. UNCHANGED <<live, plan, pending>> /\ (pc' \in Gathering => pc \in Gathering)
    BY <1>12 DEF Retrieve, Semantic, LayersEnd, LayerStarts, Fresh, Report, ExplorationRefused,
                 Ingest, Tick, vars, Call, Return, planned, collected, Gathering
  <2> QED
    BY <2>1 DEF AccountInv
<1> QED
  BY <1>6, <1>7, <1>8, <1>9, <1>10, <1>11, <1>12 DEF Next, Step

\* The investigation keeps both facts along with its type: what AccountStep and
\* the later step lemmas need of it.
LEMMA Kept ==
  ASSUME TypeOK /\ FlowInv, [Next]_vars
  PROVE  (TypeOK /\ FlowInv)'
BY TypeStep, FlowStep

LEMMA KeptInit == Init => TypeOK /\ FlowInv
<1>1. Init => FlowInv
  BY DEF Init, FlowInv, Routing, Searching, Gathering, ReportComplete
<1> QED
  BY <1>1, InitTyped

\* What live collection keeps is within max_raw_records, comes from sources the
\* plan selected and the policy allows, and agrees with the run log source by
\* source, whatever the collectors return and in whatever order.
THEOREM RecordsAreAccounted == Spec => []RecordsAccounted
<1>1. Init => AccountInv
  <2>1. <<>> \in Seq(Run) /\ \A i \in DOMAIN <<>> : <<>>[i].fetched = 0
    OBVIOUS
  <2>2. Balanced(<<>>, <<>>, plan.selected \ Blocked)
    BY <2>1, NothingBalanced
  <2> QED
    BY <2>2 DEF Init, NoLive, AccountInv, Gathering
<1>2. AccountInv => RecordsAccounted
  BY DEF AccountInv, Balanced, Count, RecordsAccounted
<1>3. TypeOK /\ FlowInv /\ AccountInv /\ [Next]_vars => (TypeOK /\ FlowInv /\ AccountInv)'
  <2>1. FlowInv => (pc \in Routing => live.records = <<>>)
    BY DEF FlowInv
  <2> QED
    BY <2>1, Kept, AccountStep
<1> QED
  BY <1>1, <1>2, <1>3, KeptInit, PTL DEF Spec

-----------------------------------------------------------------------------
(* The evidence *)

\* Clues are finitely many, so that a summary can count them.
LEMMA CluesFinite == ASSUME NEW clues \in SUBSET Clue PROVE IsFiniteSet(clues)
<1> DEFINE Sets == (SUBSET Sources) \ {{}}
           Tuples == ((Keys \X Sets) \X BOOLEAN) \X BOOLEAN
           f == [t \in Tuples |-> [key |-> t[1][1][1], srcs |-> t[1][1][2],
                                   graph |-> t[1][2], scored |-> t[2]]]
<1>1. IsFiniteSet(Keys)
  <2>1. IsFiniteSet(DOMAIN KeyOf)
    BY SourcesAssumption, FS_Subset DEF SourcesAssumption
  <2> DEFINE g == [s \in DOMAIN KeyOf |-> KeyOf[s]]
  <2>2. g \in Surjection(DOMAIN KeyOf, Keys)
    BY DEF Surjection, Keys
  <2> QED
    BY <2>1, <2>2, FS_Surjection DEF ExistsSurjection
<1>2. IsFiniteSet(Sets)
  <2>1. IsFiniteSet(SUBSET Sources)
    BY SourcesAssumption, FS_SUBSET DEF SourcesAssumption
  <2> QED
    BY <2>1, FS_Subset
<1>3. IsFiniteSet(BOOLEAN)
  <2>1. IsFiniteSet({TRUE}) /\ IsFiniteSet({FALSE})
    BY FS_Singleton
  <2>2. IsFiniteSet({TRUE} \cup {FALSE})
    BY <2>1, FS_Union
  <2>3. BOOLEAN = {TRUE} \cup {FALSE}
    OBVIOUS
  <2> QED
    BY <2>2, <2>3
<1>4. IsFiniteSet(Tuples)
  <2> HIDE DEF Sets
  <2>1. IsFiniteSet(Keys \X Sets)
    BY <1>1, <1>2, FS_Product
  <2>2. IsFiniteSet((Keys \X Sets) \X BOOLEAN)
    BY <1>3, <2>1, FS_Product
  <2> QED
    BY <1>3, <2>2, FS_Product
<1>5. f \in Surjection(Tuples, Clue)
  <2>1. ASSUME NEW t \in Tuples PROVE f[t] \in Clue
    <3> HIDE DEF Sets
    <3>1. t[1][1][1] \in Keys /\ t[1][1][2] \in Sets /\ t[1][2] \in BOOLEAN /\ t[2] \in BOOLEAN
      OBVIOUS
    <3> QED
      BY <3>1 DEF Clue, Sets
  <2>2. ASSUME NEW c \in Clue PROVE \E t \in Tuples : f[t] = c
    <3> DEFINE t == <<<<<<c.key, c.srcs>>, c.graph>>, c.scored>>
    <3>1. c.key \in Keys /\ c.srcs \in Sets /\ c.graph \in BOOLEAN /\ c.scored \in BOOLEAN
      BY DEF Clue
    <3>2. t \in Tuples
      BY <3>1
    <3>3. c = [key |-> c.key, srcs |-> c.srcs, graph |-> c.graph, scored |-> c.scored]
      BY DEF Clue
    <3>4. f[t] = [key |-> c.key, srcs |-> c.srcs, graph |-> c.graph, scored |-> c.scored]
      BY <3>2
    <3> QED
      BY <3>2, <3>3, <3>4
  <2> HIDE DEF Tuples
  <2> QED
    BY <2>1, <2>2 DEF Surjection
<1>6. IsFiniteSet(Clue)
  <2> HIDE DEF Tuples, f
  <2> QED
    BY <1>4, <1>5, FS_Surjection DEF ExistsSurjection
<1> QED
  BY <1>6, FS_Subset

LEMMA SourcesFinite == \A set \in SUBSET Sources : IsFiniteSet(set) /\ Cardinality(set) \in Nat
BY SourcesAssumption, FS_Subset, FS_CardinalityType DEF SourcesAssumption

\* Maximum is the greatest element.
LEMMA MaximumOf ==
  ASSUME NEW set \in SUBSET Nat, IsFiniteSet(set), set # {}
  PROVE  Maximum(set) \in set /\ \A n \in set : n <= Maximum(set)
<1>1. set \in SUBSET Int
  OBVIOUS
<1>2. \E m \in set : \A n \in set : n <= m
  BY <1>1, Largest
<1> QED
  BY <1>2 DEF Maximum

\* The three numbers of a summary, and what can be told from them.
LEMMA Summarised ==
  ASSUME NEW clues \in SUBSET Clue
  PROVE  /\ Summary(clues) \in [total : Nat, high : Nat, cross : Nat]
         /\ Summary(clues).total = 0 <=> clues = {}
         /\ Summary(clues).high = 0 <=> \A c \in clues : ~High(c)
         /\ \A c \in clues : Cardinality(c.srcs) <= Summary(clues).cross
         /\ Summary(clues).cross = 0 \/ \E c \in clues : Cardinality(c.srcs) = Summary(clues).cross
<1> DEFINE highs == {c \in clues : High(c)}
           sizes == {0} \cup {Cardinality(c.srcs) : c \in clues}
<1>1. IsFiniteSet(clues) /\ IsFiniteSet(highs)
  BY CluesFinite
<1>2. Cardinality(clues) \in Nat /\ Cardinality(highs) \in Nat
  BY <1>1, FS_CardinalityType
<1>3. (Cardinality(clues) = 0 <=> clues = {}) /\ (Cardinality(highs) = 0 <=> highs = {})
  BY <1>1, FS_EmptySet
<1>4. ASSUME NEW c \in clues PROVE Cardinality(c.srcs) \in Nat /\ Cardinality(c.srcs) <= Cardinality(Sources)
  <2>1. c.srcs \in SUBSET Sources /\ IsFiniteSet(Sources)
    BY SourcesAssumption DEF Clue, SourcesAssumption
  <2> QED
    BY <2>1, FS_Subset, FS_CardinalityType
<1>5. Cardinality(Sources) \in Nat
  BY SourcesFinite
<1>6. sizes \in SUBSET Nat /\ IsFiniteSet(sizes) /\ sizes # {}
  <2>1. sizes \subseteq 0..Cardinality(Sources)
    BY <1>4, <1>5
  <2>2. IsFiniteSet(0..Cardinality(Sources))
    BY <1>5, FS_Interval
  <2> QED
    <3>1. IsFiniteSet(sizes)
      BY <2>1, <2>2, FS_Subset
    <3>2. sizes \in SUBSET Nat
      BY <1>4
    <3> QED
      BY <3>1, <3>2
<1>7. Maximum(sizes) \in sizes /\ \A n \in sizes : n <= Maximum(sizes)
  BY <1>6, MaximumOf
<1>8. Maximum(sizes) = 0 \/ \E c \in clues : Cardinality(c.srcs) = Maximum(sizes)
  BY <1>7
<1>9. Summary(clues) = [total |-> Cardinality(clues), high |-> Cardinality(highs), cross |-> Maximum(sizes)]
  BY DEF Summary
<1>10. \A c \in clues : Cardinality(c.srcs) \in sizes
  OBVIOUS
<1>11. highs = {} <=> \A c \in clues : ~High(c)
  OBVIOUS
<1>12. Maximum(sizes) \in Nat
  BY <1>6, <1>7
<1> HIDE DEF highs, sizes
<1> QED
  BY <1>2, <1>3, <1>7, <1>8, <1>9, <1>10, <1>11, <1>12

Numbers == [total : Nat, high : Nat, cross : Nat]

\* The sum of two summaries: its cross-source number is one of the two.
LEMMA Added ==
  ASSUME NEW a \in Numbers, NEW b \in Numbers
  PROVE  /\ Plus(a, b) \in Numbers
         /\ Plus(a, b).total = a.total + b.total /\ Plus(a, b).high = a.high + b.high
         /\ Plus(a, b).cross \in {a.cross, b.cross}
         /\ a.cross <= Plus(a, b).cross /\ b.cross <= Plus(a, b).cross
<1> DEFINE both == {a.cross, b.cross}
<1>1. a.total \in Nat /\ a.high \in Nat /\ a.cross \in Nat /\ b.total \in Nat /\ b.high \in Nat /\ b.cross \in Nat
  BY DEF Numbers
<1>2. both \in SUBSET Nat /\ IsFiniteSet(both) /\ both # {}
  <2>1. both = {a.cross} \cup {b.cross}
    OBVIOUS
  <2>2. IsFiniteSet({a.cross} \cup {b.cross})
    BY FS_Singleton, FS_Union
  <2> QED
    BY <1>1, <2>1, <2>2
<1>3. Maximum(both) \in both /\ \A n \in both : n <= Maximum(both)
  BY <1>2, MaximumOf
<1>4. Plus(a, b) = [total |-> a.total + b.total, high |-> a.high + b.high, cross |-> Maximum(both)]
  BY DEF Plus
<1>5. Maximum(both) \in Nat /\ Maximum(both) \in {a.cross, b.cross} /\ a.cross <= Maximum(both) /\ b.cross <= Maximum(both)
  BY <1>1, <1>3
<1> HIDE DEF both
<1> QED
  BY <1>1, <1>4, <1>5 DEF Numbers

\* Clues that are none add nothing.
LEMMA NothingAdded ==
  ASSUME NEW a \in Numbers
  PROVE  Plus(a, Summary({})) = a
<1> DEFINE none == Summary({})
<1>1. /\ none \in Numbers
      /\ none.total = 0 /\ none.high = 0 /\ none.cross = 0
  BY Summarised DEF Numbers
<1> HIDE DEF none
<1>2. /\ a.total \in Nat /\ a.high \in Nat /\ a.cross \in Nat
      /\ a = [total |-> a.total, high |-> a.high, cross |-> a.cross]
  BY DEF Numbers
<1>3. /\ Plus(a, none) \in Numbers
      /\ Plus(a, none).total = a.total /\ Plus(a, none).high = a.high
      /\ Plus(a, none).cross = a.cross
  BY <1>1, <1>2, Added
<1>4. Plus(a, none) = [total |-> a.total, high |-> a.high, cross |-> a.cross]
  BY <1>3 DEF Numbers
<1> QED
  BY <1>2, <1>4 DEF none

HIDE BoundsAssumption DEF BoundsAssumption

\* The gap as a function of the request, and builds as one of request and graph.
GapFor(req, summary) ==
  {g \in Gaps :
    \/ g = "no_candidate_clues_in_pool" /\ summary.total = 0
    \/ g = "insufficient_high_quality_pool_clues" /\ summary.high < (IF req.precise THEN 2 ELSE 1)
    \/ g = "insufficient_cross_source_support" /\ req.cross /\ summary.cross < 2
    \/ g = "evidence_chain_not_satisfied_by_pool" /\ summary.high < 1}
BuildsOf(req, known, records) ==
  IF req.profile = "fast" THEN {CluesOf(records)}
  ELSE {CluesOf(records) \cup GraphClues(known \cup (records \cap DOMAIN KeyOf), promoted) : promoted \in SUBSET Keys}
Before(fnd, sem) == Plus(Summary(fnd), Summary(sem))

\* The model's operators are these.
LEMMA Functional ==
  /\ \A summary : GapOf(summary) = GapFor(request, summary)
  /\ \A records : Builds(records) = BuildsOf(request, graph, records)
  /\ \A clues : GapAfter(clues) = GapFor(request, Plus(Before(found, semantic.clues), Summary(clues)))
<1>1. \A summary : GapOf(summary) = GapFor(request, summary)
  BY DEF GapOf, GapFor, MinHigh
<1>2. \A records : Builds(records) = BuildsOf(request, graph, records)
  BY DEF Builds, BuildsOf, GraphOf
<1>3. \A clues : GapAfter(clues) = GapFor(request, Plus(Before(found, semantic.clues), Summary(clues)))
  BY <1>1 DEF GapAfter, Before
<1> QED
  BY <1>1, <1>2, <1>3

LEMMA BeforeTyped ==
  ASSUME NEW fnd \in SUBSET Clue, NEW sem \in SUBSET Clue
  PROVE  Before(fnd, sem) \in Numbers
<1>1. Summary(fnd) \in Numbers /\ Summary(sem) \in Numbers
  BY Summarised DEF Numbers
<1> QED
  BY <1>1, Added DEF Before

\* Clues of high quality, and from two sources when the request asks for that.
Supported(req, clues) ==
  /\ \E c \in clues : High(c)
  /\ req.cross => \E c \in clues : Cardinality(c.srcs) > 1

\* A gap that is empty, or whose only reason is made up for by a semantic clue of
\* high quality, leaves the evidence there is.
LEMMA ClosedGap ==
  ASSUME NEW req \in Request, NEW fnd \in SUBSET Clue, NEW sem \in SUBSET Clue,
         NEW gap, gap = GapFor(req, Before(fnd, sem)),
         gap = {} \/ (gap \subseteq {"insufficient_high_quality_pool_clues"} /\ Summary(sem).high > 0)
  PROVE  Supported(req, fnd \cup sem)
<1> DEFINE a == Summary(fnd)
           b == Summary(sem)
           all == Before(fnd, sem)
<1>1. /\ a \in Numbers /\ b \in Numbers
      /\ a.high = 0 <=> \A c \in fnd : ~High(c)
      /\ b.high = 0 <=> \A c \in sem : ~High(c)
      /\ a.cross = 0 \/ \E c \in fnd : Cardinality(c.srcs) = a.cross
      /\ b.cross = 0 \/ \E c \in sem : Cardinality(c.srcs) = b.cross
  BY Summarised DEF Numbers
<1>2. all \in Numbers /\ all.high = a.high + b.high /\ all.cross \in {a.cross, b.cross}
  BY <1>1, Added DEF Before
<1>3. a.high \in Nat /\ b.high \in Nat /\ a.cross \in Nat /\ b.cross \in Nat /\ all.high \in Nat /\ all.cross \in Nat
  BY <1>1, <1>2 DEF Numbers
<1>4. gap = GapFor(req, all)
  OBVIOUS
<1> HIDE DEF a, b, all
<1>5. \E c \in fnd \cup sem : High(c)
  <2>1. CASE gap = {}
    <3>1. ~(all.high < 1)
      BY <1>4, <2>1 DEF GapFor, Gaps
    <3>2. a.high # 0 \/ b.high # 0
      BY <1>2, <1>3, <3>1
    <3> QED
      BY <1>1, <3>2
  <2>2. CASE Summary(sem).high > 0
    <3>1. b.high # 0
      BY <1>3, <2>2 DEF b
    <3> QED
      BY <1>1, <3>1
  <2> QED
    BY <2>1, <2>2
<1>6. ASSUME req.cross PROVE \E c \in fnd \cup sem : Cardinality(c.srcs) > 1
  <2>1. "insufficient_cross_source_support" \notin gap
    OBVIOUS
  <2>2. ~(all.cross < 2)
    BY <1>4, <1>6, <2>1 DEF GapFor, Gaps
  <2>3. a.cross > 1 \/ b.cross > 1
    BY <1>2, <1>3, <2>2
  <2> QED
    BY <1>1, <1>3, <2>3
<1> QED
  BY <1>5, <1>6 DEF Supported

\* What a decision on these clues says.
Decides(req, fnd, clues, sem) ==
  /\ sem.clues = clues
  /\ sem.collect => req.provided = {} /\ sem.gap = GapFor(req, Before(fnd, clues))
  /\ sem.gap = {} => Supported(req, fnd \cup clues)

LEMMA DecisionMeans ==
  ASSUME TypeOK, NEW records, NEW clues \in SUBSET Clue
  PROVE  Decides(request, found, clues, Decision(records, clues))
<1> DEFINE sem == Decision(records, clues)
<1> DEFINE gap == GapOf(Before(found, clues))
           should == ShouldCollect(gap)
           enough == /\ ShouldCollect(gap) /\ plan.mode # "live_only"
                     /\ Summary(clues).high > 0
                     /\ gap \subseteq {"insufficient_high_quality_pool_clues"}
<1>1. sem = [records |-> records, clues |-> clues,
             collect |-> should /\ ~enough,
             gap     |-> IF enough THEN {} ELSE gap]
  BY DEF Decision, Before, sem
<1>2. gap = GapFor(request, Before(found, clues))
  BY Functional
<1>3. should => request.provided = {}
  BY DEF ShouldCollect
<1>4. enough => gap \subseteq {"insufficient_high_quality_pool_clues"} /\ Summary(clues).high > 0
  OBVIOUS
<1> HIDE DEF gap, should, enough, sem
<1> DEFINE ask  == should /\ ~enough
           left == IF enough THEN {} ELSE gap
<1>5. /\ sem.records = records /\ sem.clues = clues
      /\ sem.collect => should /\ ~enough
      /\ sem.gap = IF enough THEN {} ELSE gap
  <2>1. sem = [records |-> records, clues |-> clues, collect |-> ask, gap |-> left]
    BY <1>1
  <2> HIDE DEF ask, left
  <2>2. sem.records = records /\ sem.clues = clues /\ sem.gap = left
    BY <2>1
  <2>3. sem.collect = ask
    BY <2>1
  <2>4. sem.collect => should /\ ~enough
    BY <2>3, Zenon DEF ask
  <2> QED
    BY <2>2, <2>4 DEF left
<1>6. sem.gap = {} => Supported(request, found \cup clues)
  <2>1. request \in Request /\ found \in SUBSET Clue
    BY DEF TypeOK
  <2>2. sem.gap = {} => gap = {} \/ (gap \subseteq {"insufficient_high_quality_pool_clues"} /\ Summary(clues).high > 0)
    BY <1>4, <1>5
  <2> QED
    BY <1>2, <2>1, <2>2, ClosedGap
<1> QED
  BY <1>2, <1>3, <1>5, <1>6 DEF Decides, sem

\* What the semantic phase leaves behind.
LEMMA SemanticMeans ==
  ASSUME TypeOK, Semantic
  PROVE  /\ semantic'.collect => /\ request.provided = {}
                                 /\ semantic'.gap = GapFor(request, Before(found, semantic'.clues))
         /\ semantic'.gap = {} => Supported(request, found \cup semantic'.clues)
<1>1. ASSUME NEW clues \in Builds(Hits), semantic' = Decision(Hits, clues)
      PROVE  clues \in SUBSET Clue
  <2>1. Hits \in SUBSET Sources
    BY DEF Hits, TypeOK
  <2> QED
    BY <2>1, CluesTyped
<1>2. semantic' = Decision({}, {}) \/ \E clues \in Builds(Hits) : semantic' = Decision(Hits, clues)
  BY DEF Semantic
<1>3. {} \in SUBSET Clue
  OBVIOUS
<1>4. PICK records, clues : clues \in SUBSET Clue /\ semantic' = Decision(records, clues)
  BY <1>1, <1>2, <1>3
<1>5. Decides(request, found, clues, semantic')
  BY <1>4, DecisionMeans
<1> QED
  BY <1>5 DEF Decides

\* Merging keeps what a clue had.
LEMMA MergedKeeps ==
  ASSUME NEW clues \in SUBSET Clue, NEW c \in clues
  PROVE  \E m \in MergeByKey(clues) : c.srcs \subseteq m.srcs /\ (c.scored => m.scored)
<1> DEFINE Same == {d \in clues : d.key = c.key /\ d.graph = c.graph}
           m == [c EXCEPT !.srcs = UNION {d.srcs : d \in Same}, !.scored = \E d \in Same : d.scored]
<1>1. m \in MergeByKey(clues)
  BY DEF MergeByKey
<1>2. c \in Same /\ c \in Clue
  OBVIOUS
<1>3. m.srcs = UNION {d.srcs : d \in Same} /\ (m.scored <=> \E d \in Same : d.scored)
  BY <1>2 DEF Clue
<1>4. c.srcs \subseteq m.srcs /\ (c.scored => m.scored)
  BY <1>2, <1>3
<1> QED
  BY <1>1, <1>4

LEMMA MergedSupported ==
  ASSUME NEW req \in Request, NEW clues \in SUBSET Clue, Supported(req, clues)
  PROVE  Supported(req, MergeByKey(clues))
<1>1. \E m \in MergeByKey(clues) : High(m)
  BY MergedKeeps DEF Supported, High
<1>2. ASSUME req.cross PROVE \E m \in MergeByKey(clues) : Cardinality(m.srcs) > 1
  <2>1. PICK c \in clues : Cardinality(c.srcs) > 1
    BY <1>2 DEF Supported
  <2>2. PICK m \in MergeByKey(clues) : c.srcs \subseteq m.srcs
    BY MergedKeeps
  <2>3. m.srcs \in SUBSET Sources /\ c.srcs \in SUBSET Sources
    BY MergedTyped DEF Clue
  <2>4. IsFiniteSet(m.srcs) /\ Cardinality(m.srcs) \in Nat /\ Cardinality(c.srcs) \in Nat
    BY <2>3, SourcesFinite
  <2>5. Cardinality(c.srcs) <= Cardinality(m.srcs)
    BY <2>2, <2>4, FS_Subset
  <2> QED
    BY <2>1, <2>4, <2>5
<1> QED
  BY <1>1, <1>2 DEF Supported
-----------------------------------------------------------------------------
(* The evidence of a report *)

Decided == {"decide", "live", "layer", "collect", "fresh", "report"}

EvidenceInv ==
  /\ pc \in Decided /\ semantic.gap = {} => Supported(request, found \cup semantic.clues)
  /\ pc = "idle" => SatisfiedMeansEvidence

LEMMA EvidenceStep ==
  ASSUME TypeOK, FlowInv, EvidenceInv, [Next]_vars
  PROVE  EvidenceInv'
<1>1. request \in Request /\ found \in SUBSET Clue /\ semantic.clues \in SUBSET Clue
  BY DEF TypeOK
<1>2. CASE Begin \/ Prepare \/ Retrieve
  <2>1. pc' \in Routing
    BY <1>2 DEF Begin, Prepare, Retrieve, Routing
  <2> QED
    BY <2>1 DEF EvidenceInv, Routing, Decided
<1>3. CASE Semantic
  <2>1. UNCHANGED <<request, found>> /\ pc' # "idle"
    BY <1>3 DEF Semantic
  <2>2. semantic'.gap = {} => Supported(request, found \cup semantic'.clues)
    BY <1>3, SemanticMeans
  <2> QED
    BY <2>1, <2>2 DEF EvidenceInv
<1>4. CASE Report
  <2> DEFINE merged == MergeByKey(PoolPart \cup semantic.clues \cup fresh.clues)
  <2>1. /\ report'.merged = merged /\ pc' = "idle" /\ pc = "report"
        /\ UNCHANGED <<request, found, semantic, fresh>>
        /\ stages'["intelligence_pipeline"] = stages["intelligence_pipeline"]
    BY <1>4 DEF Report, SetStages, FlowInv, Processing
  <2>2. ASSUME stages["intelligence_pipeline"] = "skipped", semantic.gap = {}
        PROVE  Supported(request, merged)
    <3>1. PoolPart = found
      BY <2>1, <2>2 DEF PoolPart, FlowInv, Processing
    <3>2. Supported(request, found \cup semantic.clues)
      BY <2>1, <2>2 DEF EvidenceInv, Decided
    <3>3. Supported(request, PoolPart \cup semantic.clues \cup fresh.clues)
      BY <3>1, <3>2 DEF Supported
    <3>4. PoolPart \cup semantic.clues \cup fresh.clues \in SUBSET Clue
      BY <1>1, <3>1 DEF TypeOK
    <3> QED
      BY <1>1, <3>3, <3>4, MergedSupported
  <2> HIDE DEF merged
  <2>3. SatisfiedMeansEvidence'
    BY <2>1, <2>2 DEF SatisfiedMeansEvidence, Supported, High
  <2> QED
    BY <2>1, <2>3 DEF EvidenceInv, Decided
<1>5. CASE ExplorationRefused
  <2>1. /\ pc' = "idle" /\ pc = "report" /\ fresh.records # {}
        /\ UNCHANGED stages
    BY <1>5 DEF ExplorationRefused
  <2>2. SatisfiedMeansEvidence'
    BY <2>1 DEF SatisfiedMeansEvidence, FlowInv, Processing
  <2> QED
    BY <2>1, <2>2 DEF EvidenceInv, Decided
<1>6. CASE Decide \/ LiveUnneeded \/ LiveTooLate \/ LiveBlocked \/ LiveStarts \/ LayersEnd \/ LayerStarts
           \/ LayerReturns \/ Fresh
  <2>1. pc \in Decided /\ pc' \in Decided /\ UNCHANGED <<request, found, semantic>>
    BY <1>6 DEF Decide, LiveUnneeded, LiveTooLate, LiveBlocked, LiveStarts, LayersEnd, LayerStarts,
                LayerReturns, Fresh, planned, Decided
  <2> QED
    BY <2>1 DEF EvidenceInv, Decided
<1>7. CASE (\E s \in Sources : Call(s) \/ Return(s)) \/ Ingest \/ Tick \/ UNCHANGED vars
  <2>1. UNCHANGED <<pc, runs, request, found, semantic, stages, report>>
    BY <1>7 DEF Call, Return, Ingest, Tick, vars, planned
  <2> QED
    BY <2>1 DEF EvidenceInv, SatisfiedMeansEvidence
<1> QED
  BY <1>2, <1>3, <1>4, <1>5, <1>6, <1>7 DEF Next, Step

\* An investigation that collects nothing because its assets suffice reports a
\* clue of high quality, and one supported by two sources when the caller asked
\* for cross-source evidence: the counts that decided it may count a clue twice,
\* but none of its numbers comes from nowhere.
THEOREM SatisfactionHasEvidence == Spec => []SatisfiedMeansEvidence
<1>1. Init => EvidenceInv
  BY DEF Init, EvidenceInv, Decided, SatisfiedMeansEvidence
<1>2. TypeOK /\ FlowInv /\ EvidenceInv /\ [Next]_vars => (TypeOK /\ FlowInv /\ EvidenceInv)'
  BY Kept, EvidenceStep
<1>3. EvidenceInv => SatisfiedMeansEvidence
  BY DEF EvidenceInv, SatisfiedMeansEvidence
<1> QED
  BY <1>1, <1>2, <1>3, KeptInit, PTL DEF Spec

-----------------------------------------------------------------------------
(* The build exploration reads *)

\* Collecting a layer only adds to what there was.
Extends(acc, base) ==
  /\ Len(acc.records) >= Len(base.records) /\ Len(acc.runs) >= Len(base.runs)
  /\ \A i \in DOMAIN base.records : acc.records[i] = base.records[i]
  /\ \A i \in DOMAIN base.runs : acc.runs[i] = base.runs[i]
  /\ Len(acc.runs) = Len(base.runs) => acc.records = base.records

Extensions(base) == {acc \in LiveState : Extends(acc, base)}

\* Accepting the records of one more source does.
LEMMA AcceptExtends ==
  ASSUME TypeOK, NEW base \in LiveState, NEW acc \in Extensions(base), NEW s \in DOMAIN results
  PROVE  Accept(acc, s) \in Extensions(base)
<1>1. acc \in LiveState /\ Extends(acc, base)
  BY DEF Extensions
<1>2. CASE Accept(acc, s) = acc
  BY <1>2
<1>3. ASSUME NEW taken \in 0..(MaxRaw - Len(acc.records)),
             Accept(acc, s) = [acc EXCEPT !.records = @ \o [i \in 1..taken |-> s],
                                          !.runs = Append(@, [src |-> s, fetched |-> taken,
                                                              status |-> results[s].status])]
      PROVE  Accept(acc, s) \in Extensions(base)
  <2> DEFINE new == Accept(acc, s)
             some == [i \in 1..taken |-> s]
             run == [src |-> s, fetched |-> taken, status |-> results[s].status]
  <2>1. /\ new \in LiveState
        /\ new.records = acc.records \o some
        /\ new.runs = Append(acc.runs, run)
    BY <1>1, <1>3, AcceptTyped DEF LiveState
  <2>2. /\ acc.records \in Seq(Sources) /\ acc.runs \in Seq(Run)
        /\ base.records \in Seq(Sources) /\ base.runs \in Seq(Run)
        /\ run \in Run /\ some \in Seq(Sources)
    <3>1. /\ acc.records \in Seq(Sources) /\ acc.runs \in Seq(Run)
          /\ base.records \in Seq(Sources) /\ base.runs \in Seq(Run)
      BY <1>1 DEF LiveState
    <3>2. s \in Sources /\ results[s].status \in Statuses
      BY DEF TypeOK
    <3>3. run \in Run
      BY <3>2 DEF Run
    <3>4. some \in Seq(Sources)
      BY <3>2
    <3> QED
      BY <3>1, <3>3, <3>4
  <2> HIDE DEF new, run, some
  <2>3. /\ Len(new.records) = Len(acc.records) + Len(some) /\ Len(some) \in Nat
        /\ \A i \in DOMAIN acc.records : new.records[i] = acc.records[i]
    BY <2>1, <2>2
  <2>4. /\ Len(new.runs) = Len(acc.runs) + 1
        /\ \A i \in DOMAIN acc.runs : new.runs[i] = acc.runs[i]
    BY <2>1, <2>2
  <2>5. /\ Len(acc.records) >= Len(base.records) /\ Len(acc.runs) >= Len(base.runs)
        /\ \A i \in DOMAIN base.records : acc.records[i] = base.records[i]
        /\ \A i \in DOMAIN base.runs : acc.runs[i] = base.runs[i]
    BY <1>1 DEF Extends
  <2>6. /\ DOMAIN base.records = 1..Len(base.records) /\ DOMAIN base.runs = 1..Len(base.runs)
        /\ DOMAIN acc.records = 1..Len(acc.records) /\ DOMAIN acc.runs = 1..Len(acc.runs)
        /\ Len(base.records) \in Nat /\ Len(base.runs) \in Nat /\ Len(acc.records) \in Nat /\ Len(acc.runs) \in Nat
    BY <2>2
  <2>7. /\ Len(new.records) >= Len(base.records) /\ Len(new.runs) > Len(base.runs)
        /\ \A i \in DOMAIN base.records : new.records[i] = base.records[i]
        /\ \A i \in DOMAIN base.runs : new.runs[i] = base.runs[i]
    BY <2>3, <2>4, <2>5, <2>6
  <2>8. Extends(new, base)
    BY <2>4, <2>6, <2>7 DEF Extends
  <2> QED
    BY <2>1, <2>8 DEF Extensions, new
<1> QED
  BY <1>1, <1>2, <1>3, Accepting

Ran(log, s) == \E i \in DOMAIN log : log[i].src = s

\* A layer is accepted up to the limit: every source that has returned is in the
\* log, unless there is no more room.
LEMMA GatheredGrows ==
  ASSUME TypeOK
  PROVE  /\ Extends(Gathered, live)
         /\ \/ Len(Gathered.records) >= MaxRaw
            \/ \A s \in Members \cap DOMAIN results : Ran(Gathered.runs, s)
<1> DEFINE due == InOrder(Members \cap DOMAIN results)
           V == Extensions(live)
<1>1. due \in Seq(Sources) /\ ToSet(due) = Members \cap DOMAIN results
  <2>1. Members \cap DOMAIN results \in SUBSET Sources
    BY DEF TypeOK
  <2> QED
    BY <2>1, SourcesOrdered
<1>2. live \in LiveState
  BY DEF TypeOK, LiveState, Run
<1>3. live \in V
  <2>1. live.records \in Seq(Sources) /\ live.runs \in Seq(Run)
    BY <1>2 DEF LiveState
  <2>2. Extends(live, live)
    BY <2>1 DEF Extends
  <2> QED
    BY <1>2, <2>2 DEF Extensions
<1>4. \A acc \in V, s \in ToSet(due) : Accept(acc, s) \in V
  BY <1>1, <1>2, AcceptExtends
<1>5. Gathered = AcceptAll(live, due)
  BY DEF Gathered, AcceptAll, due
<1> HIDE DEF due, V
<1>6. PICK f \in [0..Len(due) -> V] :
         /\ f[0] = live
         /\ \A k \in 1..Len(due) : f[k] = Accept(f[k - 1], due[k])
         /\ AcceptAll(live, due) = f[Len(due)]
  BY <1>1, <1>3, <1>4, FoldsAccept
<1> DEFINE n == Len(due)
           Through(k) == \/ Len(f[k].records) >= MaxRaw
                         \/ \A j \in 1..k : Ran(f[k].runs, due[j])
           T == {k \in Nat : k <= n => Through(k)}
<1>7. n \in Nat /\ \A k \in 1..n : due[k] \in DOMAIN results
  <2>1. \A k \in 1..n : due[k] \in ToSet(due)
    BY <1>1 DEF ToSet
  <2> QED
    BY <1>1, <2>1
<1> HIDE DEF n
<1>8. 0 \in T
  OBVIOUS
<1>9. ASSUME NEW k \in Nat, k \in T PROVE k + 1 \in T
  <2>1. SUFFICES ASSUME k + 1 <= n PROVE Through(k + 1)
    OBVIOUS
  <2>2. k + 1 \in 1..n /\ (k + 1) - 1 = k /\ k \in 0..n /\ k + 1 \in 0..n /\ Through(k)
    BY <1>7, <1>9, <2>1
  <2> DEFINE acc == f[k]
             s == due[k + 1]
  <2>3. acc \in LiveState /\ s \in DOMAIN results /\ f[k + 1] = Accept(acc, s)
    <3>1. f[k] \in V
      BY <1>6, <2>2 DEF n
    <3>2. f[k + 1] = Accept(f[k], due[k + 1])
      BY <1>6, <2>2 DEF n
    <3> QED
      BY <1>7, <2>2, <3>1, <3>2 DEF V, Extensions
  <2> HIDE DEF T, s
  <2>4. CASE Len(acc.records) >= MaxRaw /\ Accept(acc, s) = acc
    BY <2>3, <2>4
  <2>5. ASSUME NEW taken \in 0..(MaxRaw - Len(acc.records)),
               Accept(acc, s) = [acc EXCEPT !.records = @ \o [i \in 1..taken |-> s],
                                            !.runs = Append(@, [src |-> s, fetched |-> taken,
                                                                status |-> results[s].status])]
        PROVE  Through(k + 1)
    <3> DEFINE run == [src |-> s, fetched |-> taken, status |-> results[s].status]
               new == f[k + 1]
    <3>1. /\ acc.records \in Seq(Sources) /\ acc.runs \in Seq(Run) /\ s \in Sources
          /\ Len(acc.records) \in Nat
      BY <2>3 DEF LiveState, TypeOK
    <3>2. new.runs = Append(acc.runs, run) /\ new.records = acc.records \o [i \in 1..taken |-> s]
      BY <2>3, <2>5 DEF LiveState
    <3>3. run \in Run /\ run.src = s
      BY <2>3, <3>1, <2>5 DEF Run, TypeOK
    <3> HIDE DEF acc, run, new
    <3>4. /\ \A i \in DOMAIN acc.runs : i \in DOMAIN new.runs /\ new.runs[i] = acc.runs[i]
          /\ Len(acc.runs) + 1 \in DOMAIN new.runs /\ new.runs[Len(acc.runs) + 1] = run
      BY <3>1, <3>2, <3>3
    <3>5. Ran(new.runs, s) /\ \A t : Ran(acc.runs, t) => Ran(new.runs, t)
      BY <3>3, <3>4 DEF Ran
    <3>6. Len(new.records) >= Len(acc.records) /\ Len(new.records) \in Nat
      <4>1. [i \in 1..taken |-> s] \in Seq(Sources)
        BY <3>1, <2>5
      <4> QED
        BY <3>1, <3>2, <4>1
    <3>7. CASE Len(acc.records) >= MaxRaw
      <4>1. MaxRaw \in Nat
        BY BoundsAssumption DEF BoundsAssumption
      <4>2. Len(new.records) >= MaxRaw
        BY <3>1, <3>6, <3>7, <4>1
      <4> QED
        BY <4>2 DEF new
    <3>8. CASE \A j \in 1..k : Ran(acc.runs, due[j])
      <4>1. ASSUME NEW j \in 1..(k + 1) PROVE Ran(new.runs, due[j])
        <5>1. j \in 1..k \/ j = k + 1
          OBVIOUS
        <5> QED
          BY <3>5, <3>8, <5>1 DEF s
      <4> QED
        BY <4>1 DEF new
    <3> QED
      BY <2>2, <3>7, <3>8 DEF acc
  <2>6. \/ Len(acc.records) >= MaxRaw /\ Accept(acc, s) = acc
        \/ \E taken \in 0..(MaxRaw - Len(acc.records)) :
               Accept(acc, s) = [acc EXCEPT !.records = @ \o [i \in 1..taken |-> s],
                                            !.runs = Append(@, [src |-> s, fetched |-> taken,
                                                                status |-> results[s].status])]
    <3> HIDE DEF acc
    <3> QED
      BY <2>3, Accepting
  <2> QED
    BY <2>4, <2>5, <2>6
<1>10. Through(n)
  <2>1. Nat \subseteq T
    <3> HIDE DEF T
    <3> QED
      BY <1>8, <1>9, NatSetInduction
  <2> QED
    BY <1>7, <2>1
<1>11. Gathered = f[n] /\ f[n] \in V
  <2>1. n \in 0..n
    BY <1>7
  <2> QED
    BY <1>5, <1>6, <2>1 DEF n
<1>12. ASSUME NEW s \in Members \cap DOMAIN results PROVE \E j \in 1..n : due[j] = s
  BY <1>1 DEF ToSet, n
<1> QED
  BY <1>10, <1>11, <1>12 DEF V, Extensions

\* The last build of the shared builder is the one of the records that the
\* investigation holds: until there are collected records, of those the semantic
\* phase processed; at the report, of the fresh records.
OwnInv ==
  /\ report.payload = report.explored
  /\ pc \in {"decide", "live", "layer", "collect", "fresh"} /\ semantic.records # {}
       /\ Collected = {} /\ request.provided = {} => builder.payload = semantic.records
  /\ pc = "report" /\ fresh.records # {} => builder.payload = fresh.records

LEMMA BuiltPayload ==
  ASSUME TypeOK, NEW records, NEW enrich, NEW clues, Build(records, enrich, clues)
  PROVE  builder'.payload = records
BY DEF Build, BuildWith, SetControls, TypeOK

LEMMA OwnStep ==
  ASSUME TypeOK, FlowInv, OwnInv, [Next]_vars
  PROVE  OwnInv'
<1> USE DEF OwnInv
<1>1. CASE Begin \/ Prepare \/ Retrieve
  <2>1. /\ pc' \in Routing
        /\ report'.payload = report'.explored
    <3>1. report' = NoReport \/ UNCHANGED report
      BY <1>1 DEF Begin, Prepare, Retrieve
    <3>2. pc' \in Routing
      BY <1>1 DEF Begin, Prepare, Retrieve, Routing
    <3> QED
      BY <3>1, <3>2 DEF NoReport
  <2> QED
    BY <2>1 DEF Routing
<1>2. CASE Semantic
  <2>1. /\ UNCHANGED <<request, report>> /\ pc' \in {"prepare", "decide"}
    BY <1>2 DEF Semantic
  <2>2. \/ semantic'.records = {}
        \/ builder'.payload = semantic'.records
    <3>1. CASE semantic' = Decision({}, {})
      BY <3>1 DEF Decision
    <3>2. ASSUME NEW clues \in Builds(Hits), semantic' = Decision(Hits, clues),
                 Build(Hits, request.profile = "balanced", clues)
          PROVE  builder'.payload = semantic'.records
      <4>1. semantic'.records = Hits
        BY <3>2 DEF Decision
      <4> QED
        BY <3>2, <4>1, BuiltPayload
    <3> QED
      BY <1>2, <3>1, <3>2 DEF Semantic
  <2> QED
    BY <2>1, <2>2
<1>3. CASE Decide \/ LiveUnneeded \/ LiveTooLate \/ LiveBlocked \/ LiveStarts
  <2>1. /\ UNCHANGED <<request, semantic, fresh, report, builder>>
        /\ pc \in Searching /\ pc' \in {"live", "report", "fresh", "layer"}
    BY <1>3 DEF Decide, LiveUnneeded, LiveTooLate, LiveBlocked, LiveStarts, planned, shared, Searching
  <2>2. fresh.records = {} /\ Collected = {}
    BY <2>1, EmptyToSet DEF FlowInv, NoFresh, Collected
  <2> QED
    BY <2>1, <2>2 DEF Searching
<1>4. CASE LayersEnd \/ LayerStarts
  <2>1. /\ UNCHANGED <<request, semantic, live, fresh, report, builder>>
        /\ pc = "layer" /\ pc' \in {"fresh", "collect"}
    BY <1>4 DEF LayersEnd, LayerStarts, planned, collected, shared
  <2> QED
    BY <2>1 DEF Collected
<1>5. CASE LayerReturns
  <2>1. UNCHANGED <<request, semantic, fresh, report>> /\ pc = "collect" /\ pc' = "layer"
    BY <1>5 DEF LayerReturns, planned
  <2> DEFINE got == ToSet(Gathered.records)
  <2>2. live \in LiveState /\ Gathered \in LiveState
    BY GatheredTyped DEF TypeOK, LiveState, Run
  <2>3. live'.records = Gathered.records
    BY <1>5, <2>2 DEF LayerReturns, LiveState
  <2>4. CASE got # {}  /\ Len(Gathered.runs) > Len(live.runs)
    BY <2>1, <2>3, <2>4 DEF Collected
  <2>5. CASE ~(got # {}  /\ Len(Gathered.runs) > Len(live.runs))
    <3>1. UNCHANGED builder
      BY <1>5, <2>5 DEF LayerReturns
    <3>2. /\ live.records \in Seq(Sources) /\ Gathered.records \in Seq(Sources)
          /\ Len(live.runs) \in Nat /\ Len(Gathered.runs) \in Nat
      BY <2>2 DEF LiveState
    <3>3. CASE got = {}
      <4>1. Len(Gathered.records) = 0
        <5>1. Len(Gathered.records) # 0 => Gathered.records[1] \in got
          BY <3>2 DEF ToSet
        <5> QED
          BY <3>2, <3>3, <5>1
      <4>2. Len(live.records) = 0
        BY <3>2, <4>1, GatheredGrows DEF Extends
      <4>3. Collected = {}
        BY <3>2, <4>2 DEF Collected, ToSet
      <4> QED
        BY <2>1, <3>1, <4>3
    <3>4. CASE ~(Len(Gathered.runs) > Len(live.runs))
      <4>1. Gathered.records = live.records
        BY <3>2, <3>4, GatheredGrows DEF Extends
      <4> QED
        BY <2>1, <2>3, <3>1, <4>1 DEF Collected
    <3> QED
      BY <2>5, <3>3, <3>4
  <2> QED
    BY <2>4, <2>5
<1>6. CASE Fresh
  <2>1. UNCHANGED <<request, semantic, live, report>> /\ pc = "fresh" /\ pc' = "report"
        /\ fresh'.records = Processed
    BY <1>6 DEF Fresh, planned, collected
  <2>2. CASE Collected # {} \/ request.provided # {}
    <3>1. builder'.payload = Processed
      BY <1>6, <2>2, BuiltPayload DEF Fresh
    <3> QED
      BY <2>1, <3>1
  <2>3. CASE ~(Collected # {} \/ request.provided # {})
    <3>1. UNCHANGED builder /\ Processed = semantic.records
      BY <1>6, <2>3 DEF Fresh, Processed
    <3> QED
      BY <2>1, <2>3, <3>1
  <2> QED
    BY <2>2, <2>3
<1>7. CASE Report
  <2>1. pc = "report" /\ pc' = "idle"
    BY <1>7 DEF Report
  <2>2. PICK explores \in BOOLEAN :
           /\ explores => fresh.records # {}
           /\ report'.explored = IF explores THEN fresh.records ELSE {}
           /\ report'.payload = IF explores THEN builder.payload ELSE {}
    BY <1>7 DEF Report
  <2> QED
    BY <2>1, <2>2
<1>8. CASE ExplorationRefused \/ Ingest
  <2>1. UNCHANGED report /\ pc' = "idle"
    BY <1>8 DEF ExplorationRefused, Ingest
  <2> QED
    BY <2>1
<1>9. CASE (\E s \in Sources : Call(s) \/ Return(s)) \/ Tick \/ UNCHANGED vars
  <2>1. UNCHANGED <<pc, request, semantic, live, fresh, report, builder>>
    BY <1>9 DEF Call, Return, Tick, vars, planned, collected, shared
  <2> QED
    BY <2>1 DEF Collected
<1> QED
  BY <1>1, <1>2, <1>3, <1>4, <1>5, <1>6, <1>7, <1>8, <1>9 DEF Next, Step

\* The classifications and entities exploration reads are those of the records it
\* explores, whatever was built in between on the shared builder.
THEOREM ExplorationOfOwnBuild == Spec => []ExplorationReadsOwnBuild
<1>1. Init => OwnInv
  BY DEF Init, OwnInv, NoReport
<1>2. TypeOK /\ FlowInv /\ OwnInv /\ [Next]_vars => (TypeOK /\ FlowInv /\ OwnInv)'
  BY Kept, OwnStep
<1>3. OwnInv => ExplorationReadsOwnBuild
  BY DEF OwnInv, ExplorationReadsOwnBuild
<1> QED
  BY <1>1, <1>2, <1>3, KeptInit, PTL DEF Spec

-----------------------------------------------------------------------------
(* The discipline of collection *)

\* The gap is the one on what was found before, with the clues of some build of
\* the records collected so far.
OnEvidence(req, known, before, lv) ==
  \E clues \in IF lv.records = <<>> THEN {{}} ELSE BuildsOf(req, known, ToSet(lv.records)) :
    lv.gap = GapFor(req, Plus(before, Summary(clues)))

\* Collection starts from the gap that the semantic phase left open.
DecisionInv ==
  /\ pc \in Searching \cup Gathering /\ semantic.collect =>
       /\ request.provided = {}
       /\ semantic.gap = GapFor(request, Before(found, semantic.clues))
  /\ pc \in {"live"} \cup Gathering => ~Satisfied(semantic)
  /\ pc \in Gathering => semantic.collect

\* While layers are gathered the gap is the current one, open when a layer is
\* left, and no source of a layer that is done was skipped, unless collection is
\* about to end for lack of time or room.
CourseInv ==
  pc \in Gathering =>
    /\ live.exempt => NothingElse
    /\ OnEvidence(request, graph, Before(found, semantic.clues), live)
    /\ pending # {} => live.gap # {}
    /\ \/ pc = "layer" /\ (Expired \/ Full)
       \/ pending = {}
       \/ \A t \in Allowed : t \in pending \/ Ran(live.runs, t)

LEMMA DecisionStep ==
  ASSUME TypeOK, DecisionInv, [Next]_vars
  PROVE  DecisionInv'
<1> USE DEF DecisionInv, Searching, Gathering
<1>1. CASE Begin \/ Prepare \/ Retrieve
  <2>1. pc' \in Routing
    BY <1>1 DEF Begin, Prepare, Retrieve, Routing
  <2> QED
    BY <2>1 DEF Routing
<1>2. CASE Semantic
  <2>1. UNCHANGED <<request, found>> /\ pc' \in {"prepare", "decide"}
    BY <1>2 DEF Semantic
  <2> QED
    BY <1>2, <2>1, SemanticMeans
<1>3. CASE Decide
  <2>1. UNCHANGED <<request, found, semantic>> /\ pc = "decide"
        /\ (pc' = "report" \/ (pc' = "live" /\ ~Satisfied(semantic)))
    BY <1>3 DEF Decide, planned
  <2>2. (~Satisfied(semantic)) => (~Satisfied(semantic))'
    BY <2>1 DEF Satisfied
  <2> QED
    BY <2>1, <2>2
<1>4. CASE LiveUnneeded \/ LiveTooLate \/ LiveBlocked \/ LayersEnd \/ Fresh \/ Report \/ ExplorationRefused \/ Ingest
  <2>1. pc' \in {"fresh", "report", "idle"}
    BY <1>4 DEF LiveUnneeded, LiveTooLate, LiveBlocked, LayersEnd, Fresh, Report, ExplorationRefused, Ingest
  <2> QED
    BY <2>1
<1>5. CASE LiveStarts \/ LayerStarts \/ LayerReturns
  <2>1. UNCHANGED <<request, found, semantic>> /\ pc \in {"live"} \cup Gathering
        /\ (pc = "live" => semantic.collect)
    BY <1>5 DEF LiveStarts, LayerStarts, LayerReturns, planned
  <2> QED
    BY <2>1 DEF Satisfied
<1>6. CASE (\E s \in Sources : Call(s) \/ Return(s)) \/ Tick \/ UNCHANGED vars
  <2>1. UNCHANGED <<pc, request, found, semantic>>
    BY <1>6 DEF Call, Return, Tick, vars, planned
  <2> QED
    BY <2>1 DEF Satisfied
<1> QED
  BY <1>1, <1>2, <1>3, <1>4, <1>5, <1>6 DEF Next, Step

\* A gap that is not satisfied is open: when there is no clue at all, that is a
\* gap of its own.
LEMMA SemanticGapOpen ==
  ASSUME TypeOK, DecisionInv, pc \in {"live"} \cup Gathering, semantic.collect
  PROVE  /\ semantic.gap = GapFor(request, Before(found, semantic.clues))
         /\ semantic.gap # {}
<1>1. /\ request.provided = {}
      /\ semantic.gap = GapFor(request, Before(found, semantic.clues))
      /\ ~Satisfied(semantic)
  BY DEF DecisionInv, Searching
<1>2. found \in SUBSET Clue /\ semantic.clues \in SUBSET Clue
  BY DEF TypeOK
<1>3. ASSUME found \cup semantic.clues = {} PROVE semantic.gap # {}
  <2> DEFINE a == Summary(found)
             b == Summary(semantic.clues)
             all == Before(found, semantic.clues)
  <2>1. a \in Numbers /\ b \in Numbers /\ a.total = 0 /\ b.total = 0
    BY <1>2, <1>3, Summarised DEF Numbers
  <2>2. all = Plus(a, b)
    BY DEF Before
  <2> HIDE DEF a, b, all
  <2>3. all.total = 0
    BY <2>1, <2>2, Added
  <2>4. "no_candidate_clues_in_pool" \in GapFor(request, all)
    BY <2>3 DEF GapFor, Gaps
  <2> QED
    BY <1>1, <2>4 DEF all
<1> QED
  BY <1>1, <1>3 DEF Satisfied

\* A build leaves the graph such that building again gives the same clues.
LEMMA BuildsAgain ==
  ASSUME NEW req, NEW known, NEW records
  PROVE  BuildsOf(req, known \cup (records \cap DOMAIN KeyOf), records) = BuildsOf(req, known, records)
<1>1. (known \cup (records \cap DOMAIN KeyOf)) \cup (records \cap DOMAIN KeyOf)
        = known \cup (records \cap DOMAIN KeyOf)
  OBVIOUS
<1> QED
  BY <1>1 DEF BuildsOf

\* What a layer leaves: on the evidence of a build of all records, or as it was.
LEMMA LayerLeaves ==
  ASSUME TypeOK, LayerReturns
  PROVE  /\ live'.records = Gathered.records /\ live'.runs = Gathered.runs /\ live'.exempt = live.exempt
         /\ \/ /\ live'.records = live.records /\ live'.gap = live.gap
               /\ graph' = graph /\ pending' = pending \ Members
            \/ \E clues \in BuildsOf(request, graph, ToSet(Gathered.records)) :
                 /\ Gathered.records # <<>>
                 /\ graph' = graph \cup (ToSet(Gathered.records) \cap DOMAIN KeyOf)
                 /\ live'.gap = GapFor(request, Plus(Before(found, semantic.clues), Summary(clues)))
                 /\ clues \in SUBSET Clue
                 /\ \/ pending' = {}
                    \/ pending' = pending \ Members /\ (live'.gap # {} \/ clues = {})
<1> DEFINE got == ToSet(Gathered.records)
           kept == [live EXCEPT !.records = Gathered.records, !.runs = Gathered.runs]
<1>1. live \in LiveState /\ Gathered \in LiveState
  BY GatheredTyped DEF TypeOK, LiveState, Run
<1>2. /\ live'.records = Gathered.records /\ live'.runs = Gathered.runs /\ live'.exempt = live.exempt
  BY <1>1 DEF LayerReturns, LiveState
<1>3. CASE Len(Gathered.runs) > Len(live.runs) /\ got # {}
  <2>1. PICK clues \in Builds(got) :
           /\ Build(got, FALSE, clues)
           /\ live' = [kept EXCEPT !.gap = GapAfter(clues)]
           /\ pending' = IF Stops(GapAfter(clues), clues) THEN {} ELSE pending \ Members
    BY <1>3 DEF LayerReturns
  <2>2. clues \in BuildsOf(request, graph, got) /\ clues \in SUBSET Clue
    <3>1. got \in SUBSET Sources
      BY <1>1 DEF LiveState, ToSet
    <3> QED
      BY <3>1, CluesTyped, Functional
  <2>3. Gathered.records # <<>>
    BY <1>3, EmptyToSet
  <2>4. graph' = graph \cup (got \cap DOMAIN KeyOf)
    BY <2>1 DEF Build, GraphOf
  <2>5. live'.gap = GapAfter(clues)
    BY <1>1, <2>1 DEF LiveState
  <2>6. GapAfter(clues) = GapFor(request, Plus(Before(found, semantic.clues), Summary(clues)))
    BY Functional
  <2>7. \/ pending' = {}
        \/ pending' = pending \ Members /\ (live'.gap # {} \/ clues = {})
    BY <2>1, <2>5 DEF Stops
  <2> HIDE DEF kept
  <2> QED
    BY <1>2, <2>2, <2>3, <2>4, <2>5, <2>6, <2>7
<1>4. CASE ~(Len(Gathered.runs) > Len(live.runs) /\ got # {})
  <2>1. live' = kept /\ pending' = pending \ Members /\ graph' = graph
    BY <1>4 DEF LayerReturns
  <2>2. Gathered.records = live.records
    <3>1. /\ live.records \in Seq(Sources) /\ Gathered.records \in Seq(Sources)
          /\ Len(live.runs) \in Nat /\ Len(Gathered.runs) \in Nat
      BY <1>1 DEF LiveState
    <3>2. CASE got = {}
      <4>1. Len(Gathered.records) = 0
        <5>1. Len(Gathered.records) # 0 => Gathered.records[1] \in got
          BY <3>1 DEF ToSet
        <5> QED
          BY <3>1, <3>2, <5>1
      <4>2. Len(live.records) = 0
        BY <3>1, <4>1, GatheredGrows DEF Extends
      <4> QED
        BY <3>1, <4>1, <4>2
    <3>3. CASE ~(Len(Gathered.runs) > Len(live.runs))
      BY <3>1, <3>3, GatheredGrows DEF Extends
    <3> QED
      BY <1>4, <3>2, <3>3
  <2>3. live'.gap = live.gap
    BY <1>1, <2>1 DEF LiveState
  <2> QED
    BY <1>2, <2>1, <2>2, <2>3
<1> QED
  BY <1>3, <1>4

LEMMA CourseStep ==
  ASSUME TypeOK, DecisionInv, CourseInv, [Next]_vars
  PROVE  CourseInv'
<1> DEFINE before == Before(found, semantic.clues)
<1>1. found \in SUBSET Clue /\ semantic.clues \in SUBSET Clue
  BY DEF TypeOK
<1>2. before \in Numbers
  BY <1>1, BeforeTyped
<1>3. CASE LiveStarts
  <2>1. /\ pc = "live" /\ pc' = "layer" /\ semantic.collect
        /\ UNCHANGED <<request, plan, found, semantic, graph>>
        /\ live'.records = <<>> /\ live'.gap = semantic.gap
        /\ live'.exempt => NothingElse
        /\ pending' = Allowed
    BY <1>3 DEF LiveStarts, NoLive, shared
  <2>2. semantic.gap = GapFor(request, before) /\ semantic.gap # {}
    BY <2>1, SemanticGapOpen
  <2>3. GapFor(request, Plus(before, Summary({}))) = semantic.gap
    <3> HIDE DEF before
    <3> QED
      BY <1>2, <2>2, NothingAdded
  <2>4. OnEvidence(request, graph, before, live')
    BY <2>1, <2>3 DEF OnEvidence
  <2>5. Allowed' = Allowed /\ NothingElse' = NothingElse
    BY <2>1 DEF Allowed, Capped, NothingElse
  <2> QED
    BY <2>1, <2>2, <2>4, <2>5 DEF CourseInv
<1>4. CASE LayerStarts
  <2>1. /\ pc = "layer" /\ ~Expired /\ ~Full
        /\ UNCHANGED <<request, plan, found, semantic, graph, live, pending, late>>
    BY <1>4 DEF LayerStarts, shared, planned
  <2>2. Allowed' = Allowed /\ NothingElse' = NothingElse
    BY <2>1 DEF Allowed, Capped, NothingElse
  <2> QED
    BY <2>1, <2>2 DEF CourseInv, Gathering
<1>5. CASE LayerReturns
  <2>1. /\ pc = "collect" /\ pc' = "layer" /\ LayerDone
        /\ UNCHANGED <<request, plan, found, semantic, late>>
    BY <1>5 DEF LayerReturns, planned
  <2>2. Allowed' = Allowed /\ NothingElse' = NothingElse
    BY <2>1 DEF Allowed, Capped, NothingElse
  <2>3. /\ live.exempt => NothingElse
        /\ OnEvidence(request, graph, before, live)
        /\ pending # {} => live.gap # {}
        /\ pending = {} \/ \A t \in Allowed : t \in pending \/ Ran(live.runs, t)
    BY <2>1 DEF CourseInv, Gathering
  <2>4. /\ live'.records = Gathered.records /\ live'.runs = Gathered.runs /\ live'.exempt = live.exempt
        /\ pending' = {} \/ pending' = pending \ Members
    BY <1>5, LayerLeaves
  <2>5. OnEvidence(request, graph', before, live') /\ (pending' # {} => live'.gap # {})
    <3>1. CASE /\ live'.records = live.records /\ live'.gap = live.gap
               /\ graph' = graph /\ pending' = pending \ Members
      BY <2>3, <3>1 DEF OnEvidence
    <3>2. ASSUME NEW clues \in BuildsOf(request, graph, ToSet(Gathered.records)),
                 /\ Gathered.records # <<>>
                 /\ graph' = graph \cup (ToSet(Gathered.records) \cap DOMAIN KeyOf)
                 /\ live'.gap = GapFor(request, Plus(before, Summary(clues)))
                 /\ clues \in SUBSET Clue
                 /\ \/ pending' = {}
                    \/ pending' = pending \ Members /\ (live'.gap # {} \/ clues = {})
          PROVE  <2>5
      <4>1. clues \in BuildsOf(request, graph', ToSet(live'.records))
        BY <2>4, <3>2, BuildsAgain
      <4>2. OnEvidence(request, graph', before, live')
        BY <2>4, <3>2, <4>1 DEF OnEvidence
      <4>3. ASSUME clues = {} PROVE live'.gap # {}
        <5>1. semantic.gap = GapFor(request, before) /\ semantic.gap # {}
          BY <2>1, SemanticGapOpen DEF DecisionInv, Gathering
        <5> HIDE DEF before
        <5> QED
          BY <1>2, <3>2, <4>3, <5>1, NothingAdded
      <4> QED
        BY <3>2, <4>2, <4>3
    <3> QED
      BY <1>5, <3>1, <3>2, LayerLeaves
  <2>6. \/ Expired' \/ Full'
        \/ pending' = {}
        \/ \A t \in Allowed : t \in pending' \/ Ran(live'.runs, t)
    <3>1. CASE Uncalled # {}
      BY <2>1, <2>4, <3>1 DEF LayerDone, Expired
    <3>2. CASE Len(Gathered.records) >= MaxRaw
      BY <2>4, <3>2 DEF Full
    <3>3. CASE Uncalled = {} /\ \A s \in Members \cap DOMAIN results : Ran(Gathered.runs, s)
      <4>1. \A s \in Members : Ran(live'.runs, s)
        BY <2>1, <2>4, <3>3 DEF Uncalled, LayerDone
      <4>2. \A t : Ran(live.runs, t) => Ran(live'.runs, t)
        <5>1. live.runs \in Seq(Run) /\ Gathered.runs \in Seq(Run)
          BY GatheredTyped DEF TypeOK, LiveState, Run
        <5>2. \A i \in DOMAIN live.runs : i \in DOMAIN Gathered.runs /\ Gathered.runs[i] = live.runs[i]
          BY <5>1, GatheredGrows DEF Extends
        <5> QED
          BY <2>4, <5>2 DEF Ran
      <4>3. CASE pending = {}
        BY <2>4, <4>3
      <4>4. CASE \A t \in Allowed : t \in pending \/ Ran(live.runs, t)
        BY <2>4, <4>1, <4>2, <4>4
      <4> QED
        BY <2>3, <4>3, <4>4
    <3> QED
      BY <3>1, <3>2, <3>3, GatheredGrows
  <2>7. Before(found, semantic.clues)' = before
    BY <2>1
  <2> HIDE DEF before
  <2> QED
    BY <2>1, <2>2, <2>3, <2>4, <2>5, <2>6, <2>7 DEF CourseInv
<1>6. CASE (\E s \in Sources : Call(s) \/ Return(s)) \/ Tick \/ UNCHANGED vars
  <2>1. UNCHANGED <<pc, request, plan, found, semantic, graph, live, pending>> /\ (late => late')
    <3>1. ASSUME NEW s \in Sources, Call(s) \/ Return(s) PROVE <2>1
      BY <3>1 DEF Call, Return, planned, shared
    <3>2. CASE Tick
      BY <3>2 DEF Tick, planned, shared, collected
    <3>3. CASE UNCHANGED vars
      BY <3>3 DEF vars, planned, shared, collected
    <3> QED
      BY <1>6, <3>1, <3>2, <3>3
  <2>2. Allowed' = Allowed /\ NothingElse' = NothingElse /\ (Expired => Expired') /\ (Full => Full')
    BY <2>1 DEF Allowed, Capped, NothingElse, Expired, Full
  <2> QED
    BY <2>1, <2>2 DEF CourseInv, Gathering
<1>7. CASE \/ Begin \/ Prepare \/ Retrieve \/ Semantic \/ Decide \/ LiveUnneeded \/ LiveTooLate \/ LiveBlocked
           \/ LayersEnd \/ Fresh \/ Report \/ ExplorationRefused \/ Ingest
  <2>1. pc' \notin Gathering
    BY <1>7 DEF Begin, Prepare, Retrieve, Semantic, Decide, LiveUnneeded, LiveTooLate, LiveBlocked,
                LayersEnd, Fresh, Report, ExplorationRefused, Ingest, Gathering
  <2> QED
    BY <2>1 DEF CourseInv
<1> QED
  BY <1>3, <1>4, <1>5, <1>6, <1>7 DEF Next, Step

\* What CollectionDisciplined says of the source s.
Disciplined(s) ==
  /\ live.gap # {}
  /\ \E clues \in IF live.records = <<>> THEN {{}} ELSE Builds(ToSet(live.records)) :
       live.gap = GapAfter(clues)
  /\ \A t \in Allowed : Layer[t] < Layer[s] => \E i \in DOMAIN live.runs : live.runs[i].src = t
  /\ late /\ request.workers = 1 => NothingElse

LEMMA CallDisciplined ==
  ASSUME TypeOK, CourseInv, NEW s \in Sources, Call(s)
  PROVE  Disciplined(s)
<1>1. pc = "collect" /\ s \in Members /\ s \in pending /\ (Workers = 1 => ~Expired)
  BY DEF Call, Uncalled, Members
<1>2. /\ live.exempt => NothingElse
      /\ OnEvidence(request, graph, Before(found, semantic.clues), live)
      /\ live.gap # {}
      /\ \A t \in Allowed : t \in pending \/ Ran(live.runs, t)
  BY <1>1 DEF CourseInv, Gathering
<1>3. \E clues \in IF live.records = <<>> THEN {{}} ELSE Builds(ToSet(live.records)) :
        live.gap = GapAfter(clues)
  BY <1>2, Functional DEF OnEvidence
<1>4. ASSUME NEW t \in Allowed, Layer[t] < Layer[s] PROVE Ran(live.runs, t)
  <2>1. t \in Sources /\ Layer \in [Sources -> Int]
    BY SourcesAssumption DEF SourcesAssumption, Allowed, Capped, First, TypeOK
  <2>2. t \notin pending
    BY <1>1, <1>4, <2>1 DEF Members
  <2> QED
    BY <1>2, <2>2
<1>5. ASSUME late, request.workers = 1 PROVE NothingElse
  <2>1. Members \in SUBSET Sources
    BY DEF Members, TypeOK
  <2>2. IsFiniteSet(Members) /\ Cardinality(Members) \in Nat /\ Cardinality(Members) # 0
    BY <1>1, <2>1, SourcesFinite, FS_EmptySet
  <2>3. Workers = 1
    BY <1>5, <2>2 DEF Workers
  <2> QED
    BY <1>1, <1>2, <1>5, <2>3 DEF Expired
<1> QED
  BY <1>2, <1>3, <1>4, <1>5 DEF Disciplined, Ran

\* A source is called only while the gap is open on the evidence there is, after
\* every allowed source of a lower layer has been run, and late only beside
\* another thread or when there is nothing else to report.
THEOREM CollectionIsDisciplined == Spec => CollectionDisciplined
<1>1. Init => DecisionInv /\ CourseInv
  BY DEF Init, DecisionInv, CourseInv, Searching, Gathering
<1>2. TypeOK /\ DecisionInv /\ CourseInv /\ [Next]_vars => (TypeOK /\ DecisionInv /\ CourseInv)'
  BY TypeStep, DecisionStep, CourseStep
<1>3. TypeOK /\ CourseInv /\ [Next]_vars =>
        [\A s \in Sources : s \in waiting' /\ s \notin waiting => Disciplined(s)]_vars
  <2>1. SUFFICES ASSUME TypeOK, CourseInv, Next, NEW s \in Sources, s \in waiting', s \notin waiting
                 PROVE  Disciplined(s)
    OBVIOUS
  <2>2. ASSUME NEW t \in Sources, Call(t) \/ Return(t) PROVE Disciplined(s)
    <3>1. Call(s)
      BY <2>1, <2>2 DEF Call, Return
    <3> QED
      BY <2>1, <3>1, CallDisciplined
  <2>3. CASE Begin
    BY <2>1, <2>3 DEF Begin
  <2>4. CASE \/ Prepare \/ Retrieve \/ Semantic \/ Decide \/ LiveUnneeded \/ LiveTooLate \/ LiveBlocked
             \/ LiveStarts \/ LayersEnd \/ LayerStarts \/ LayerReturns \/ Fresh \/ Report
             \/ ExplorationRefused \/ Ingest \/ Tick
    <3>1. UNCHANGED waiting
      BY <2>4 DEF Prepare, Retrieve, Semantic, Decide, LiveUnneeded, LiveTooLate, LiveBlocked, LiveStarts,
                  LayersEnd, LayerStarts, LayerReturns, Fresh, Report, ExplorationRefused, Ingest, Tick,
                  collected
    <3> QED
      BY <2>1, <3>1
  <2> QED
    BY <2>1, <2>2, <2>3, <2>4 DEF Next, Step
<1> QED
  BY <1>1, <1>2, <1>3, InitTyped, PTL DEF Spec, CollectionDisciplined, Disciplined

=============================================================================
