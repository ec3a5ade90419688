-------------------------- MODULE MediaFetcherProofs --------------------------
(***************************************************************************)
(* Proofs about MediaFetcher, for any URLs, contents, sizes and budgets:   *)
(* what is given out under a digest has it, and what is held stays, as     *)
(* long as it fits into the cache.                                         *)
(*                                                                         *)
(* A digest that is remembered belongs to the file that is there           *)
(* (Digests).  The bytes of the cache are those of its files (Accounts),   *)
(* and the files that are held were used last (Kept): to evict all others  *)
(* makes room for the next one, and the code evicts no more than need be.  *)
(* The sums over sets that this takes come first, as facts about any set:  *)
(* an induction over its subsets is a smallest counterexample (NatMin).    *)
(***************************************************************************)
EXTENDS MediaFetcher, FiniteSetTheorems, SequenceTheorems, WellFoundedInduction, TLAPS

Given == [url : Urls, content : Contents, expected : Contents \cup {None}]

Types ==
    /\ remote \in [Urls -> Contents]
    /\ file \in [Urls -> Contents \cup {None}]
    /\ sha \in [Urls -> Contents \cup {None}]
    /\ held \in Seq(Given)

\* The digest that is remembered of a file is its own.
Digests == \A u \in Urls : sha[u] # None /\ file[u] # None => sha[u] = file[u]

IInv == Types /\ Digests /\ VerifiedIsExpected

LEMMA InitOK == Init => IInv
  BY DEF Init, IInv, Types, Digests, VerifiedIsExpected, Empty

LEMMA ClearedOK ==
    ASSUME IInv, Cleared, UNCHANGED <<remote, held>>
    PROVE  IInv'
  BY DEF IInv, Types, Digests, VerifiedIsExpected, Cleared, Empty

\* A digest is remembered, and vouched for, only if it is that of the file.
LEMMA GiveOK ==
    ASSUME IInv, NEW u \in Urls, NEW expected \in Contents \cup {None}, NEW content \in Contents,
           NEW digests \in [Urls -> Contents \cup {None}],
           Give(u, expected, content, digests),
           remote' = remote,
           file' \in [Urls -> Contents \cup {None}],
           file'[u] = content,
           digests[u] \in {None, content},
           \A v \in Urls \ {u} : digests[v] # None /\ file'[v] # None => digests[v] = file'[v]
    PROVE  IInv'
<1>. DEFINE digest == IF digests[u] # None THEN digests[u] ELSE content
            given == [url |-> u, content |-> content, expected |-> expected]
<1>1. /\ sha' = IF expected = None THEN digests ELSE [digests EXCEPT ![u] = digest]
      /\ held' = IF expected \in {None, digest} THEN Append(held, given) ELSE <<>>
      /\ digest = content
  BY DEF Give
<1>2. given \in Given
  BY DEF Given
<1>. HIDE DEF digest
<1>3. sha' \in [Urls -> Contents \cup {None}]
  BY <1>1
<1>4. held' \in Seq(Given)
  BY <1>1, <1>2 DEF IInv, Types
<1>5. Digests'
  BY <1>1 DEF Digests
<1>6. VerifiedIsExpected'
  <2>1. CASE expected \notin {None, digest}
    BY <1>1, <2>1 DEF VerifiedIsExpected
  <2>2. CASE expected \in {None, digest}
    <3>1. /\ held' = Append(held, given) /\ held \in Seq(Given)
          /\ given.expected \in {None, given.content}
      BY <1>1, <2>2 DEF IInv, Types
    <3>2. ASSUME NEW i \in DOMAIN held' PROVE held'[i].expected \in {None, held'[i].content}
      <4>1. CASE i \in DOMAIN held
        BY <3>1, <4>1 DEF IInv, VerifiedIsExpected
      <4>2. CASE i = Len(held) + 1
        <5>1. held'[i] = given
          BY <3>1, <1>2, <4>2
        <5>. QED
          BY <5>1, <3>1
      <4>. QED
        BY <3>1, <3>2, <1>2, <4>1, <4>2
    <3>. QED
      BY <3>2 DEF VerifiedIsExpected
  <2>. QED
    BY <2>1, <2>2
<1>. QED
  BY <1>3, <1>4, <1>5, <1>6 DEF IInv, Types

LEMMA DownloadOK ==
    ASSUME IInv, NEW u \in Urls, NEW expected \in Contents \cup {None}, Download(u, expected)
    PROVE  IInv'
<1>0. remote' = remote
  BY DEF Download
<1>1. CASE Hit(u, expected)
  <2>1. /\ Give(u, expected, file[u], sha) /\ file' = file
        /\ file[u] \in Contents /\ sha[u] \in {None, file[u]}
    BY <1>1 DEF Hit, IInv, Types, Digests
  <2>. QED
    BY <1>0, <2>1, GiveOK DEF IInv, Types, Digests
<1>2. CASE Fetch(u, expected)
  <2>. DEFINE others == Without(order, u)
  <2>1. PICK k \in 0..Len(others) :
          /\ file' = [v \in Urls |-> IF v = u THEN remote[u]
                                     ELSE IF v \in Oldest(others, k) THEN None ELSE file[v]]
          /\ Give(u, expected, remote[u], Forget(Oldest(others, k) \cup {u}))
    BY <1>2 DEF Fetch
  <2>. DEFINE evicted == Oldest(others, k)
              digests == Forget(evicted \cup {u})
  <2>. HIDE DEF evicted, others
  <2>2. /\ file' = [v \in Urls |-> IF v = u THEN remote[u]
                                   ELSE IF v \in evicted THEN None ELSE file[v]]
        /\ Give(u, expected, remote[u], digests)
    BY <2>1 DEF evicted, others
  <2>3. /\ digests \in [Urls -> Contents \cup {None}]
        /\ digests[u] = None
        /\ \A v \in Urls \ {u} : digests[v] = IF v \in evicted THEN None ELSE sha[v]
    BY DEF Forget, IInv, Types
  <2>4. remote[u] \in Contents /\ file' \in [Urls -> Contents \cup {None}] /\ file'[u] = remote[u]
    BY <2>2 DEF IInv, Types
  <2>5. \A v \in Urls \ {u} : digests[v] # None /\ file'[v] # None => digests[v] = file'[v]
    BY <2>2, <2>3 DEF IInv, Digests
  <2>. HIDE DEF digests
  <2>. QED
    BY <1>0, <2>2, <2>3, <2>4, <2>5, GiveOK
<1>3. CASE FetchFails(u)
  BY <1>0, <1>3 DEF FetchFails, Forget, IInv, Types, Digests, VerifiedIsExpected
<1>. QED
  BY <1>1, <1>2, <1>3 DEF Download

\* Every download, and whatever happens to the media, preserves the invariant.
LEMMA NextOK == IInv /\ [Next]_vars => IInv'
<1>. SUFFICES ASSUME IInv, [Next]_vars PROVE IInv'
  OBVIOUS
<1>1. CASE UNCHANGED vars
  BY <1>1 DEF vars, cache, IInv, Types, Digests, VerifiedIsExpected
<1>2. CASE Begin \/ End
  BY <1>2, ClearedOK DEF Begin, End
<1>3. CASE Return
  BY <1>3 DEF Return, cache, IInv, Types, Digests, VerifiedIsExpected
<1>4. ASSUME NEW u \in Urls, Change(u) PROVE IInv'
  BY <1>4 DEF Change, cache, IInv, Types, Digests, VerifiedIsExpected
<1>5. ASSUME NEW u \in Urls, Lose(u) PROVE IInv'
  BY <1>5 DEF Lose, IInv, Types, Digests, VerifiedIsExpected
<1>. QED
  BY <1>1, <1>2, <1>3, <1>4, <1>5, DownloadOK DEF Next

\* The inductive invariant of the cache.
THEOREM Invariant == Spec => []IInv
  BY InitOK, NextOK, PTL DEF Spec

\* A file that was given out under a digest has that digest, although the digest may have been
\* computed of an earlier download and the media may change (download_verified).
THEOREM Verified == Spec => []VerifiedIsExpected
<1>1. IInv => VerifiedIsExpected
  BY DEF IInv
<1>. QED
  BY Invariant, <1>1, PTL

-----------------------------------------------------------------------------
(* Sums *)

\* A set of naturals has a least element.
LEMMA NatMin ==
    ASSUME NEW T \in SUBSET Nat, T # {}
    PROVE  \E n \in T : \A m \in T : n <= m
<1>1. PICK n \in T : \A m \in T : ~ (<<m, n>> \in OpToRel(<, Nat))
  BY WFMin, NatLessThanWellFounded
<1>2. \A m \in T : ~ (m < n)
  BY <1>1 DEF OpToRel
<1>. QED
  BY <1>2

\* A property of the subsets of a finite set, here the set B of those that have it, holds of all
\* of them if it holds of each whenever it holds of the smaller ones.
LEMMA SubsetInduction ==
    ASSUME NEW S, IsFiniteSet(S), NEW B,
           ASSUME NEW s \in SUBSET S,
                  \A t \in SUBSET S : Cardinality(t) < Cardinality(s) => t \in B
           PROVE  s \in B
    PROVE  SUBSET S \subseteq B
<1>. SUFFICES ASSUME NEW r \in SUBSET S, r \notin B PROVE FALSE
  OBVIOUS
<1>. DEFINE sizes == {Cardinality(t) : t \in {t \in SUBSET S : t \notin B}}
<1>1. \A t \in SUBSET S : Cardinality(t) \in Nat
  BY FS_Subset, FS_CardinalityType
<1>2. sizes \in SUBSET Nat /\ sizes # {}
  BY <1>1
<1>. HIDE DEF sizes
<1>3. PICK n \in sizes : \A m \in sizes : n <= m
  BY <1>2, NatMin
<1>4. PICK s \in SUBSET S : s \notin B /\ n = Cardinality(s)
  BY DEF sizes
<1>5. ASSUME NEW t \in SUBSET S, Cardinality(t) < Cardinality(s) PROVE t \in B
  <2>1. t \notin B => Cardinality(t) \in sizes
    BY DEF sizes
  <2>. QED
    BY <1>1, <1>3, <1>4, <1>5, <2>1
<1>. QED
  BY <1>4, <1>5

\* The element that the community module's folds begin with.
Some(s) == CHOOSE x \in s : TRUE

\* The sums of w over the subsets of S, of which g has those of the smaller ones.
SumStep(g, w, S) ==
    [s \in SUBSET S |-> IF s = {} THEN 0 ELSE w[Some(s)] + g[s \ {Some(s)}]]

\* g sums w over the subsets of S.
IsSum(g, w, S) == g = SumStep(g, w, S)

\* An element is left out of a set, which gets smaller.
LEMMA SomeOK ==
    ASSUME NEW S, IsFiniteSet(S), NEW s \in SUBSET S, s # {}
    PROVE  /\ Some(s) \in s
           /\ s \ {Some(s)} \in SUBSET S
           /\ Cardinality(s \ {Some(s)}) = Cardinality(s) - 1
           /\ Cardinality(s) \in Nat
<1>1. Some(s) \in s
  BY DEF Some
<1>. QED
  BY <1>1, FS_Subset, FS_CardinalityType, FS_RemoveElement

\* There are such sums: those of the sets of at most n elements determine those of the next.
LEMMA SumExists ==
    ASSUME NEW S, IsFiniteSet(S), NEW w, \A x \in S : w[x] \in Nat
    PROVE  \E g : g = SumStep(g, w, S)
<1>. DEFINE next(g) == [s \in SUBSET S |->
                          IF s = {} THEN 0 ELSE w[Some(s)] + g[s \ {Some(s)}]]
            Upto(n) == \E g \in [SUBSET S -> Nat] :
                          \A s \in SUBSET S : Cardinality(s) <= n => g[s] = next(g)[s]
            N == {n \in Nat : ~Upto(n)}
<1>0. \A s \in SUBSET S : Cardinality(s) \in Nat
  BY FS_Subset, FS_CardinalityType
<1>1. ASSUME NEW g \in [SUBSET S -> Nat] PROVE next(g) \in [SUBSET S -> Nat]
  <2>1. ASSUME NEW s \in SUBSET S, s # {} PROVE w[Some(s)] + g[s \ {Some(s)}] \in Nat
    <3>1. w[Some(s)] \in Nat /\ g[s \ {Some(s)}] \in Nat
      BY <2>1, SomeOK
    <3>. QED
      BY <3>1
  <2>. QED
    BY <2>1
<1>2. Upto(0)
  <2>. DEFINE g == [s \in SUBSET S |-> 0]
  <2>1. ASSUME NEW s \in SUBSET S, Cardinality(s) <= 0 PROVE s = {}
    BY <1>0, <2>1, FS_EmptySet, FS_Subset
  <2>2. g \in [SUBSET S -> Nat]
    OBVIOUS
  <2>3. ASSUME NEW s \in SUBSET S, Cardinality(s) <= 0 PROVE g[s] = next(g)[s]
    BY <2>1, <2>3
  <2>. HIDE DEF g, next
  <2>. QED
    BY <2>2, <2>3
<1>3. ASSUME NEW n \in Nat, Upto(n) PROVE Upto(n + 1)
  <2>1. PICK g \in [SUBSET S -> Nat] :
          \A s \in SUBSET S : Cardinality(s) <= n => g[s] = next(g)[s]
    BY <1>3
  <2>2. ASSUME NEW s \in SUBSET S, Cardinality(s) <= n + 1
        PROVE  next(g)[s] = next(next(g))[s]
    <3>1. CASE s = {}
      BY <3>1
    <3>2. CASE s # {}
      <4>1. /\ s \ {Some(s)} \in SUBSET S
            /\ Cardinality(s \ {Some(s)}) <= n
        BY <2>2, <3>2, SomeOK
      <4>. QED
        BY <2>1, <3>2, <4>1
    <3>. QED
      BY <3>1, <3>2
  <2>3. next(g) \in [SUBSET S -> Nat]
    BY <1>1
  <2>. HIDE DEF next
  <2>. QED
    BY <2>2, <2>3
<1>4. \A n \in Nat : Upto(n)
  <2>. HIDE DEF Upto
  <2>. SUFFICES ASSUME N # {} PROVE FALSE
    OBVIOUS
  <2>1. PICK n \in N : \A m \in N : n <= m
    <3>1. N \in SUBSET Nat
      OBVIOUS
    <3>. HIDE DEF N
    <3>. QED
      BY <3>1, NatMin
  <2>2. n # 0 /\ n - 1 \in Nat /\ n - 1 \notin N /\ (n - 1) + 1 = n
    BY <2>1, <1>2
  <2>. QED
    BY <2>1, <2>2, <1>3
<1>5. PICK g \in [SUBSET S -> Nat] :
        \A s \in SUBSET S : Cardinality(s) <= Cardinality(S) => g[s] = next(g)[s]
  BY <1>0, <1>4
<1>6. \A s \in SUBSET S : g[s] = next(g)[s]
  BY <1>5, FS_Subset
<1>7. g = next(g)
  <2>. HIDE DEF next
  <2>1. next(g) \in [SUBSET S -> Nat]
    BY <1>1
  <2>. QED
    BY <1>6, <2>1
<1>8. next(g) = SumStep(g, w, S)
  BY DEF SumStep
<1>. HIDE DEF next
<1>. QED
  BY <1>7, <1>8

\* The sums over a set are determined by the numbers that are added.
LEMMA SumUnique ==
    ASSUME NEW S, IsFiniteSet(S), NEW g, NEW w, IsSum(g, w, S),
           NEW h, NEW v, NEW T, IsSum(h, v, T), S \subseteq T, \A x \in S : w[x] = v[x]
    PROVE  \A s \in SUBSET S : g[s] = h[s]
<1>. DEFINE B == {s \in SUBSET S : g[s] = h[s]}
<1>1. ASSUME NEW s \in SUBSET S,
             \A t \in SUBSET S : Cardinality(t) < Cardinality(s) => t \in B
      PROVE  s \in B
  <2>1. CASE s = {}
    BY <2>1 DEF IsSum, SumStep
  <2>2. CASE s # {}
    <3>1. g[s \ {Some(s)}] = h[s \ {Some(s)}]
      BY <1>1, <2>2, SomeOK
    <3>2. s \in SUBSET T /\ w[Some(s)] = v[Some(s)]
      BY <2>2, SomeOK
    <3>3. /\ g[s] = w[Some(s)] + g[s \ {Some(s)}]
          /\ h[s] = v[Some(s)] + h[s \ {Some(s)}]
      BY <2>2, <3>2 DEF IsSum, SumStep
    <3>. QED
      BY <3>1, <3>2, <3>3
  <2>. QED
    BY <2>1, <2>2
<1>2. SUBSET S \subseteq B
  <2>. HIDE DEF B
  <2>. QED
    BY <1>1, SubsetInduction
<1>. QED
  BY <1>2

\* Sums of naturals are naturals.
LEMMA SumIsNat ==
    ASSUME NEW S, IsFiniteSet(S), NEW g, NEW w, IsSum(g, w, S), \A x \in S : w[x] \in Nat
    PROVE  \A s \in SUBSET S : g[s] \in Nat
<1>. DEFINE B == {s \in SUBSET S : g[s] \in Nat}
<1>1. ASSUME NEW s \in SUBSET S,
             \A t \in SUBSET S : Cardinality(t) < Cardinality(s) => t \in B
      PROVE  s \in B
  <2>1. CASE s = {}
    <3>1. g[s] = 0
      BY <2>1 DEF IsSum, SumStep
    <3>. QED
      BY <3>1
  <2>2. CASE s # {}
    <3>1. g[s \ {Some(s)}] \in Nat /\ w[Some(s)] \in Nat
      BY <1>1, <2>2, SomeOK
    <3>2. g[s] = w[Some(s)] + g[s \ {Some(s)}]
      BY <2>2 DEF IsSum, SumStep
    <3>. QED
      BY <3>1, <3>2
  <2>. QED
    BY <2>1, <2>2
<1>2. SUBSET S \subseteq B
  <2>. HIDE DEF B
  <2>. QED
    BY <1>1, SubsetInduction
<1>. QED
  BY <1>2

\* Whichever element is added last, the sum is the same.
LEMMA SumOfAny ==
    ASSUME NEW S, IsFiniteSet(S), NEW g, NEW w, IsSum(g, w, S), \A x \in S : w[x] \in Nat
    PROVE  \A s \in SUBSET S : \A x \in s : g[s] = w[x] + g[s \ {x}]
<1>. DEFINE B == {s \in SUBSET S : \A x \in s : g[s] = w[x] + g[s \ {x}]}
<1>1. ASSUME NEW s \in SUBSET S,
             \A t \in SUBSET S : Cardinality(t) < Cardinality(s) => t \in B
      PROVE  s \in B
  <2>. SUFFICES ASSUME NEW x \in s PROVE g[s] = w[x] + g[s \ {x}]
    OBVIOUS
  <2>. DEFINE y == Some(s)
  <2>1. /\ y \in s /\ s \ {y} \in B /\ s \ {x} \in B
        /\ s \ {x} \in SUBSET S /\ s \ {y} \in SUBSET S
        /\ (s \ {x}) \ {y} \in SUBSET S
    <3>1. IsFiniteSet(s) /\ Cardinality(s) \in Nat
      BY FS_Subset, FS_CardinalityType
    <3>2. Cardinality(s \ {x}) = Cardinality(s) - 1
      BY <3>1, FS_RemoveElement
    <3>3. y \in s /\ s \ {y} \in SUBSET S /\ Cardinality(s \ {y}) = Cardinality(s) - 1
      BY SomeOK
    <3>. HIDE DEF y, B
    <3>. QED
      BY <1>1, <3>1, <3>2, <3>3
  <2>2. g[s] = w[y] + g[s \ {y}]
    BY DEF IsSum, SumStep
  <2>. HIDE DEF y
  <2>3. CASE x = y
    BY <2>2, <2>3
  <2>4. CASE x # y
    <3>1. /\ g[s \ {y}] = w[x] + g[(s \ {y}) \ {x}]
          /\ g[s \ {x}] = w[y] + g[(s \ {x}) \ {y}]
      BY <2>1, <2>4
    <3>2. (s \ {y}) \ {x} = (s \ {x}) \ {y}
      OBVIOUS
    <3>3. w[x] \in Nat /\ w[y] \in Nat /\ g[(s \ {x}) \ {y}] \in Nat
      BY <2>1, SumIsNat
    <3>. QED
      BY <2>2, <3>1, <3>2, <3>3
  <2>. QED
    BY <2>3, <2>4
<1>2. SUBSET S \subseteq B
  <2>. HIDE DEF B
  <2>. QED
    BY <1>1, SubsetInduction
<1>. QED
  BY <1>2

\* What w has for the elements of S, together.
Sum(w, S) == MapThenSumSet(LAMBDA x : w[x], S)

\* The community module's sum is the sum of the whole set.
LEMMA SumUnfold ==
    ASSUME NEW S, IsFiniteSet(S), NEW w, \A x \in S : w[x] \in Nat
    PROVE  \E g : IsSum(g, w, S) /\ Sum(w, S) = g[S]
<1>. DEFINE iter == CHOOSE g : g = SumStep(g, w, S)
<1>1. IsSum(iter, w, S)
  <2>1. \E g : g = SumStep(g, w, S)
    BY SumExists
  <2>. QED
    BY <2>1 DEF IsSum
<1>2. Sum(w, S) = iter[S]
  BY DEF SumStep, Sum, MapThenSumSet, MapThenFoldSet, Some
<1>. QED
  BY <1>1, <1>2

\* A sum is known by the sums of the sets that have an element less.
LEMMA SumOK ==
    ASSUME NEW S, IsFiniteSet(S), NEW w, \A x \in S : w[x] \in Nat
    PROVE  /\ Sum(w, S) \in Nat
           /\ S = {} => Sum(w, S) = 0
           /\ \A x \in S : Sum(w, S) = w[x] + Sum(w, S \ {x})
<1>1. PICK g : IsSum(g, w, S) /\ Sum(w, S) = g[S]
  BY SumUnfold
<1>2. g[S] \in Nat /\ (S = {} => g[S] = 0)
  BY <1>1, SumIsNat DEF IsSum, SumStep
<1>3. ASSUME NEW x \in S PROVE g[S \ {x}] = Sum(w, S \ {x})
  <2>1. IsFiniteSet(S \ {x})
    BY FS_Subset
  <2>2. PICK h : IsSum(h, w, S \ {x}) /\ Sum(w, S \ {x}) = h[S \ {x}]
    BY <2>1, SumUnfold
  <2>. DEFINE T == S \ {x}
  <2>3. T \subseteq S /\ T \in SUBSET T
    OBVIOUS
  <2>. HIDE DEF T
  <2>4. \A s \in SUBSET T : h[s] = g[s]
    BY <1>1, <2>1, <2>2, <2>3, SumUnique DEF T
  <2>. QED
    BY <2>2, <2>3, <2>4 DEF T
<1>4. \A x \in S : g[S] = w[x] + g[S \ {x}]
  BY <1>1, SumOfAny
<1>. QED
  BY <1>1, <1>2, <1>3, <1>4

\* Where two functions agree, so do their sums.
LEMMA SumSame ==
    ASSUME NEW S, IsFiniteSet(S), NEW w, NEW v, \A x \in S : w[x] \in Nat /\ w[x] = v[x]
    PROVE  Sum(w, S) = Sum(v, S)
<1>1. PICK g : IsSum(g, w, S) /\ Sum(w, S) = g[S]
  BY SumUnfold
<1>2. PICK h : IsSum(h, v, S) /\ Sum(v, S) = h[S]
  <2>1. \A x \in S : v[x] \in Nat
    OBVIOUS
  <2>. QED
    BY <2>1, SumUnfold
<1>. QED
  BY <1>1, <1>2, SumUnique

\* A set and what it leaves of a larger one add up to it.
LEMMA SumSplit ==
    ASSUME NEW S, IsFiniteSet(S), NEW w, \A x \in S : w[x] \in Nat, NEW T \in SUBSET S
    PROVE  /\ Sum(w, S) = Sum(w, T) + Sum(w, S \ T)
           /\ Sum(w, T) \in Nat /\ Sum(w, S \ T) \in Nat
<1>. DEFINE B == {t \in SUBSET S : Sum(w, S) = Sum(w, t) + Sum(w, S \ t)}
<1>0. ASSUME NEW t \in SUBSET S PROVE IsFiniteSet(t) /\ Sum(w, t) \in Nat
  BY FS_Subset, SumOK
<1>1. ASSUME NEW s \in SUBSET S,
             \A t \in SUBSET S : Cardinality(t) < Cardinality(s) => t \in B
      PROVE  s \in B
  <2>1. CASE s = {}
    <3>1. S \ s = S /\ Sum(w, s) = 0
      BY <2>1, <1>0, SumOK
    <3>. QED
      BY <3>1, <1>0
  <2>2. CASE s # {}
    <3>. DEFINE x == Some(s)
                t == s \ {x}
    <3>1. x \in s /\ t \in SUBSET S /\ t \in B
      <4>1. /\ x \in s /\ t \in SUBSET S
            /\ Cardinality(t) = Cardinality(s) - 1 /\ Cardinality(s) \in Nat
        BY <2>2, SomeOK
      <4>. HIDE DEF t, B
      <4>. QED
        BY <1>1, <4>1
    <3>. HIDE DEF x
    <3>2. Sum(w, s) = w[x] + Sum(w, t)
      BY <1>0, <3>1, SumOK
    <3>3. Sum(w, S \ t) = w[x] + Sum(w, S \ s)
      <4>1. x \in S \ t /\ (S \ t) \ {x} = S \ s /\ S \ t \in SUBSET S
        BY <3>1
      <4>. HIDE DEF t
      <4>2. IsFiniteSet(S \ t) /\ \A z \in S \ t : w[z] \in Nat
        BY <4>1, <1>0
      <4>3. Sum(w, S \ t) = w[x] + Sum(w, (S \ t) \ {x})
        BY <4>1, <4>2, SumOK
      <4>. QED
        BY <4>1, <4>3
    <3>4. Sum(w, S) = Sum(w, t) + Sum(w, S \ t)
      BY <3>1
    <3>5. w[x] \in Nat /\ Sum(w, t) \in Nat /\ Sum(w, S \ s) \in Nat
      BY <1>0, <3>1
    <3>. QED
      BY <3>2, <3>3, <3>4, <3>5
  <2>. QED
    BY <2>1, <2>2
<1>2. SUBSET S \subseteq B
  <2>. HIDE DEF B
  <2>. QED
    BY <1>1, SubsetInduction
<1>. QED
  BY <1>0, <1>2

-----------------------------------------------------------------------------
(* The order of the files *)

\* The URLs of H come last.
AtTheEnd(seq, H) == \A i, j \in DOMAIN seq : i < j /\ seq[i] \in H => seq[j] \in H

\* One URL is taken out, the others keep their order.
LEMMA WithoutOK ==
    ASSUME NEW seq \in Seq(Urls), IsInjective(seq), NEW u
    PROVE  /\ Without(seq, u) \in Seq(Urls)
           /\ IsInjective(Without(seq, u))
           /\ Range(Without(seq, u)) = Range(seq) \ {u}
           /\ \A H : AtTheEnd(seq, H) => AtTheEnd(Without(seq, u), H)
<1>. DEFINE new == Without(seq, u)
<1>1. CASE u \notin Range(seq)
  <2>1. new = seq
    BY <1>1 DEF Without, RemoveFirst, Range
  <2>. QED
    BY <1>1, <2>1
<1>2. CASE u \in Range(seq)
  <2>. DEFINE places == {i \in 1..Len(seq) : seq[i] = u}
  <2>1. places \in SUBSET Nat /\ places # {}
    BY <1>2 DEF Range
  <2>. HIDE DEF places
  <2>2. \E p \in places : \A q \in places : p <= q
    BY <2>1, NatMin
  <2>3. Min(places) \in places
    BY <2>2 DEF Min
  <2>4. PICK p \in 1..Len(seq) :
          seq[p] = u /\ new = SubSeq(seq, 1, p - 1) \o SubSeq(seq, p + 1, Len(seq))
    <3>1. new = RemoveAt(seq, Min(places))
      BY <2>1 DEF Without, RemoveFirst, SelectInSeq, places
    <3>. QED
      BY <2>3, <3>1 DEF RemoveAt, places
  <2>5. /\ new \in Seq(Urls)
        /\ Len(new) = Len(seq) - 1
        /\ \A i \in 1..(Len(seq) - 1) : new[i] = IF i < p THEN seq[i] ELSE seq[i + 1]
    <3>. DEFINE left == SubSeq(seq, 1, p - 1)
                right == SubSeq(seq, p + 1, Len(seq))
    <3>1. /\ left \in Seq(Urls) /\ Len(left) = p - 1
          /\ \A i \in 1..(p - 1) : left[i] = seq[i]
      BY SubSeqProperties
    <3>2. /\ right \in Seq(Urls) /\ Len(right) = Len(seq) - p
          /\ \A i \in 1..(Len(seq) - p) : right[i] = seq[p + i]
      BY SubSeqProperties
    <3>. HIDE DEF left, right
    <3>3. /\ left \o right \in Seq(Urls)
          /\ Len(left \o right) = Len(left) + Len(right)
          /\ \A i \in 1..(Len(left) + Len(right)) :
               (left \o right)[i] = IF i <= Len(left) THEN left[i] ELSE right[i - Len(left)]
      BY <3>1, <3>2, ConcatProperties
    <3>4. new = left \o right
      BY <2>4 DEF left, right
    <3>. HIDE DEF new
    <3>5. ASSUME NEW i \in 1..(Len(seq) - 1)
          PROVE  new[i] = IF i < p THEN seq[i] ELSE seq[i + 1]
      <4>1. CASE i < p
        BY <3>1, <3>2, <3>3, <3>4, <4>1
      <4>2. CASE i >= p
        <5>1. i - (p - 1) \in 1..(Len(seq) - p) /\ p + (i - (p - 1)) = i + 1
          BY <4>2
        <5>. QED
          BY <3>1, <3>2, <3>3, <3>4, <4>2, <5>1
      <4>. QED
        BY <4>1, <4>2
    <3>6. new \in Seq(Urls) /\ Len(new) = Len(seq) - 1
      <4>1. Len(left) + Len(right) = Len(seq) - 1
        BY <2>4, <3>1, <3>2
      <4>2. new \in Seq(Urls) /\ Len(new) = Len(left) + Len(right)
        BY <3>3, <3>4, Zenon
      <4>. QED
        BY <4>1, <4>2
    <3>. QED
      BY <3>5, <3>6
  <2>. HIDE DEF new
  <2>6. DOMAIN new = 1..(Len(seq) - 1) /\ DOMAIN seq = 1..Len(seq)
    BY <2>5
  <2>. DEFINE at(i) == IF i < p THEN i ELSE i + 1
  <2>a. \A i \in DOMAIN new : at(i) \in DOMAIN seq /\ at(i) # p /\ new[i] = seq[at(i)]
    BY <2>5, <2>6
  <2>b. \A i, j \in DOMAIN new : (at(i) = at(j) => i = j) /\ (i < j => at(i) < at(j))
    BY <2>6
  <2>. HIDE DEF at
  <2>7. IsInjective(new)
    <3>. SUFFICES ASSUME NEW i \in DOMAIN new, NEW j \in DOMAIN new, new[i] = new[j]
                  PROVE  i = j
      BY DEF IsInjective
    <3>1. at(i) = at(j)
      BY <2>a DEF IsInjective
    <3>. QED
      BY <2>b, <3>1
  <2>8. Range(new) = Range(seq) \ {u}
    <3>1. \A i \in DOMAIN new : new[i] \in Range(seq) \ {u}
      BY <2>4, <2>6, <2>a DEF IsInjective, Range
    <3>2. ASSUME NEW i \in DOMAIN seq, seq[i] # u PROVE seq[i] \in Range(new)
      <4>1. CASE i < p
        BY <2>5, <2>6, <4>1 DEF Range
      <4>2. CASE i > p
        <5>1. i - 1 \in DOMAIN new /\ new[i - 1] = seq[i]
          BY <2>5, <2>6, <4>2
        <5>. QED
          BY <5>1 DEF Range
      <4>. QED
        BY <2>4, <3>2, <4>1, <4>2
    <3>. QED
      BY <3>1, <3>2 DEF Range
  <2>9. ASSUME NEW H, AtTheEnd(seq, H) PROVE AtTheEnd(new, H)
    BY <2>a, <2>b, <2>9 DEF AtTheEnd
  <2>. QED
    BY <2>5, <2>7, <2>8, <2>9 DEF new
<1>. QED
  BY <1>1, <1>2

\* The files that are left when the k oldest are evicted, and the new one.
LEMMA RenewedOK ==
    ASSUME NEW seq \in Seq(Urls), IsInjective(seq), NEW u \in Urls, u \notin Range(seq),
           NEW k \in 0..Len(seq)
    PROVE  LET new == Append(SubSeq(seq, k + 1, Len(seq)), u)
           IN  /\ new \in Seq(Urls)
               /\ IsInjective(new)
               /\ Oldest(seq, k) \subseteq Range(seq)
               /\ Range(new) = (Range(seq) \ Oldest(seq, k)) \cup {u}
               /\ \A H : AtTheEnd(seq, H) => AtTheEnd(new, H \cup {u})
<1>. DEFINE rest == SubSeq(seq, k + 1, Len(seq))
            new == Append(rest, u)
<1>1. /\ rest \in Seq(Urls) /\ Len(rest) = Len(seq) - k
      /\ \A i \in 1..(Len(seq) - k) : rest[i] = seq[k + i]
  BY SubSeqProperties
<1>2. /\ new \in Seq(Urls) /\ DOMAIN new = 1..(Len(seq) - k + 1)
      /\ \A i \in 1..(Len(seq) - k) : new[i] = seq[k + i]
      /\ new[Len(seq) - k + 1] = u
  <2>. HIDE DEF rest
  <2>. QED
    BY <1>1, AppendProperties
<1>3. Oldest(seq, k) = {seq[i] : i \in 1..k}
  <2>1. /\ DOMAIN SubSeq(seq, 1, k) = 1..k
        /\ \A i \in 1..k : SubSeq(seq, 1, k)[i] = seq[i]
    BY SubSeqProperties
  <2>. QED
    BY <2>1 DEF Oldest, Range
<1>. HIDE DEF new
<1>4. DOMAIN seq = 1..Len(seq) /\ \A i \in DOMAIN seq : seq[i] # u
  BY DEF Range
<1>. DEFINE last == Len(seq) - k + 1
<1>a. ASSUME NEW i \in DOMAIN new, i # last
      PROVE  k + i \in DOMAIN seq /\ new[i] = seq[k + i] /\ new[i] # u /\ i < last
  BY <1>2, <1>4, <1>a
<1>b. last \in DOMAIN new /\ new[last] = u /\ \A i \in DOMAIN new : i \in Nat
  BY <1>2
<1>. HIDE DEF last
<1>5. IsInjective(new)
  BY <1>a, <1>b DEF IsInjective
<1>6. Oldest(seq, k) \subseteq Range(seq)
  BY <1>3, <1>4 DEF Range
<1>7. Range(new) = (Range(seq) \ Oldest(seq, k)) \cup {u}
  <2>1. \A i \in DOMAIN new : new[i] \in (Range(seq) \ Oldest(seq, k)) \cup {u}
    <3>. SUFFICES ASSUME NEW i \in DOMAIN new, i # last
                  PROVE  new[i] \in Range(seq) \ Oldest(seq, k)
      BY <1>b
    <3>1. k + i \in DOMAIN seq /\ new[i] = seq[k + i] /\ \A j \in 1..k : j # k + i /\ j \in DOMAIN seq
      BY <1>2, <1>4, <1>a
    <3>. QED
      BY <1>3, <3>1 DEF IsInjective, Range
  <2>2. u \in Range(new)
    BY <1>2 DEF Range
  <2>3. ASSUME NEW i \in DOMAIN seq, seq[i] \notin Oldest(seq, k) PROVE seq[i] \in Range(new)
    <3>1. i - k \in 1..(Len(seq) - k) /\ k + (i - k) = i
      BY <1>3, <1>4, <2>3
    <3>. QED
      BY <1>2, <3>1 DEF Range
  <2>. QED
    BY <2>1, <2>2, <2>3 DEF Range
<1>8. ASSUME NEW H, AtTheEnd(seq, H) PROVE AtTheEnd(new, H \cup {u})
  <2>. SUFFICES ASSUME NEW i \in DOMAIN new, NEW j \in DOMAIN new, i < j, new[i] \in H \cup {u}
                PROVE  new[j] \in H \cup {u}
    BY DEF AtTheEnd
  <2>1. CASE j = last
    BY <1>b, <2>1
  <2>2. CASE j # last
    <3>1. i # last /\ j < last
      BY <1>2, <1>a, <2>2 DEF last
    <3>2. k + i \in DOMAIN seq /\ k + j \in DOMAIN seq /\ k + i < k + j
      BY <1>2, <1>a, <2>2, <3>1
    <3>. QED
      BY <1>8, <1>a, <2>2, <3>1, <3>2 DEF AtTheEnd
  <2>. QED
    BY <2>1, <2>2
<1>. QED
  BY <1>2, <1>5, <1>6, <1>7, <1>8 DEF new

\* Files that come last stay when only others are evicted, and all others can be.
LEMMA OthersFirst ==
    ASSUME NEW seq \in Seq(Urls), IsInjective(seq), NEW H, AtTheEnd(seq, H)
    PROVE  \E k \in 0..Len(seq) :
              /\ Oldest(seq, k) = Range(seq) \ H
              /\ \A j \in 0..k : Oldest(seq, j) \cap H = {}
<1>. DEFINE places == {i \in 0..Len(seq) : \A j \in (i + 1)..Len(seq) : seq[j] \in H}
<1>1. places \in SUBSET Nat /\ Len(seq) \in places
  OBVIOUS
<1>2. PICK k \in places : \A i \in places : k <= i
  <2>. HIDE DEF places
  <2>. QED
    BY <1>1, NatMin
<1>3. k \in 0..Len(seq) /\ \A j \in (k + 1)..Len(seq) : seq[j] \in H
  OBVIOUS
<1>4. ASSUME NEW i \in 1..k PROVE seq[i] \notin H
  <2>1. SUFFICES ASSUME seq[i] \in H PROVE FALSE
    OBVIOUS
  <2>2. \A j \in (i + 1)..Len(seq) : seq[j] \in H
    BY <1>3, <1>4, <2>1 DEF AtTheEnd
  <2>3. i - 1 \in places
    BY <1>3, <1>4, <2>1, <2>2
  <2>. HIDE DEF places
  <2>4. k <= i - 1
    BY <1>2, <2>3
  <2>. QED
    BY <1>3, <1>4, <2>4
<1>5. ASSUME NEW j \in 0..Len(seq) PROVE Oldest(seq, j) = {seq[i] : i \in 1..j}
  <2>1. /\ DOMAIN SubSeq(seq, 1, j) = 1..j
        /\ \A i \in 1..j : SubSeq(seq, 1, j)[i] = seq[i]
    BY SubSeqProperties
  <2>. QED
    BY <2>1 DEF Oldest, Range
<1>. HIDE DEF places
<1>6. Oldest(seq, k) = Range(seq) \ H
  BY <1>3, <1>4, <1>5 DEF Range
<1>7. \A j \in 0..k : Oldest(seq, j) \cap H = {}
  BY <1>3, <1>4, <1>5
<1>. QED
  BY <1>3, <1>6, <1>7

-----------------------------------------------------------------------------
(* The files that are held *)

\* What a caller that holds h uses, and the bytes of it.
UrlsOf(h) == {h[i].url : i \in DOMAIN h}
FilesOf(h) == {<<h[i].url, h[i].content>> : i \in DOMAIN h}
FileBytes(h) == MapThenSumSet(LAMBDA f : Size[f[2]], FilesOf(h))
Weight == [f \in Urls \X Contents |-> Size[f[2]]]

\* A caller holds finitely many files.
LEMMA FilesFinite ==
    ASSUME NEW h \in Seq(Given)
    PROVE  /\ IsFiniteSet(UrlsOf(h)) /\ UrlsOf(h) \subseteq Urls
           /\ IsFiniteSet(FilesOf(h)) /\ FilesOf(h) \subseteq Urls \X Contents
<1>0. /\ IsFiniteSet(DOMAIN h)
      /\ \A i \in DOMAIN h : h[i] \in Given
  BY FS_Interval
<1>1. IsFiniteSet(UrlsOf(h))
  <2>. DEFINE f == [i \in DOMAIN h |-> h[i].url]
  <2>1. f \in Surjection(DOMAIN h, UrlsOf(h))
    BY DEF Surjection, UrlsOf
  <2>. QED
    BY <1>0, <2>1, FS_Surjection
<1>2. IsFiniteSet(FilesOf(h))
  <2>. DEFINE f == [i \in DOMAIN h |-> <<h[i].url, h[i].content>>]
  <2>1. f \in Surjection(DOMAIN h, FilesOf(h))
    BY DEF Surjection, FilesOf
  <2>. QED
    BY <1>0, <2>1, FS_Surjection
<1>. QED
  BY <1>0, <1>1, <1>2 DEF UrlsOf, FilesOf, Given

\* The bytes of the held files are a sum in the sense above.
LEMMA FileBytesOK ==
    ASSUME NEW h \in Seq(Given)
    PROVE  FileBytes(h) = Sum(Weight, FilesOf(h))
<1>. DEFINE F == FilesOf(h)
            Step(g) == [s \in SUBSET F |->
                          IF s = {} THEN 0 ELSE Size[Some(s)[2]] + g[s \ {Some(s)}]]
            iter == CHOOSE g : g = Step(g)
<1>0. IsFiniteSet(F) /\ \A x \in F : Weight[x] = Size[x[2]] /\ Weight[x] \in Nat
  BY FilesFinite, SizeAssumption DEF Weight
<1>1. FileBytes(h) = iter[F]
  BY DEF FileBytes, MapThenSumSet, MapThenFoldSet, Some
<1>. HIDE DEF F
<1>2. ASSUME NEW g PROVE Step(g) = SumStep(g, Weight, F)
  <2>1. ASSUME NEW s \in SUBSET F, s # {} PROVE Weight[Some(s)] = Size[Some(s)[2]]
    BY <1>0, <2>1, SomeOK
  <2>. QED
    BY <2>1 DEF SumStep
<1>. HIDE DEF Step
<1>3. \E g : g = Step(g)
  <2>1. PICK g : g = SumStep(g, Weight, F)
    BY <1>0, SumExists
  <2>. QED
    BY <1>2, <2>1
<1>4. IsSum(iter, Weight, F)
  BY <1>2, <1>3 DEF IsSum
<1>5. PICK g : IsSum(g, Weight, F) /\ Sum(Weight, F) = g[F]
  BY <1>0, SumUnfold
<1>. HIDE DEF iter
<1>6. iter[F] = g[F]
  BY <1>0, <1>4, <1>5, SumUnique
<1>. QED
  BY <1>1, <1>5, <1>6 DEF F

\* One file more counts once, however often it is held.
LEMMA FilesGrow ==
    ASSUME NEW h \in Seq(Given), NEW g \in Given
    PROVE  LET new == Append(h, g)
               f == <<g.url, g.content>>
           IN  /\ new \in Seq(Given)
               /\ UrlsOf(new) = UrlsOf(h) \cup {g.url}
               /\ FileBytes(h) \in Nat
               /\ FileBytes(new) = IF f \in FilesOf(h) THEN FileBytes(h)
                                   ELSE FileBytes(h) + Size[g.content]
<1>. DEFINE new == Append(h, g)
            f == <<g.url, g.content>>
<1>1. /\ new \in Seq(Given) /\ DOMAIN new = DOMAIN h \cup {Len(h) + 1}
      /\ \A i \in DOMAIN h : new[i] = h[i]
      /\ new[Len(h) + 1] = g
  BY AppendProperties
<1>. HIDE DEF new
<1>2. UrlsOf(new) = UrlsOf(h) \cup {g.url} /\ FilesOf(new) = FilesOf(h) \cup {f}
  BY <1>1 DEF UrlsOf, FilesOf
<1>. HIDE DEF f
<1>3. /\ f \in Urls \X Contents /\ Weight[f] = Size[g.content]
      /\ \A x \in Urls \X Contents : Weight[x] \in Nat
  BY SizeAssumption DEF f, Weight, Given
<1>4. Sum(Weight, FilesOf(h)) \in Nat
  BY <1>3, FilesFinite, SumOK
<1>5. CASE f \in FilesOf(h)
  <2>1. FilesOf(new) = FilesOf(h)
    BY <1>2, <1>5
  <2>. QED
    BY <1>1, <1>2, <1>4, <1>5, <2>1, FileBytesOK DEF new, f
<1>6. CASE f \notin FilesOf(h)
  <2>1. f \in FilesOf(new) /\ FilesOf(new) \ {f} = FilesOf(h)
    BY <1>2, <1>6
  <2>2. IsFiniteSet(FilesOf(new)) /\ \A x \in FilesOf(new) : Weight[x] \in Nat
    BY <1>1, <1>3, FilesFinite
  <2>3. Sum(Weight, FilesOf(new)) = Weight[f] + Sum(Weight, FilesOf(h))
    BY <2>1, <2>2, SumOK
  <2>4. Size[g.content] \in Nat
    BY SizeAssumption DEF Given
  <2>5. FileBytes(new) = FileBytes(h) + Size[g.content]
    BY <1>1, <1>3, <1>4, <2>3, <2>4, FileBytesOK
  <2>. QED
    BY <1>1, <1>2, <1>4, <1>6, <2>5, FileBytesOK DEF new, f
<1>. QED
  BY <1>5, <1>6

-----------------------------------------------------------------------------
(* What is held stays *)

\* The cache counts the bytes of its files.
Accounts ==
    /\ size \in [Urls -> Nat]
    /\ order \in Seq(Urls)
    /\ IsInjective(order)
    /\ bytes = Total(Range(order))
    /\ \A u \in Urls : /\ u \notin Range(order) => size[u] = 0
                       /\ file[u] # None => u \in Range(order) /\ size[u] = Size[file[u]]

\* The files that are held are there, were used last, and count what they have, as long as
\* they fit.
Kept ==
    /\ ~batch => held = <<>>
    /\ Room => /\ \A i \in DOMAIN held : file[held[i].url] = held[i].content
               /\ AtTheEnd(order, UrlsOf(held))
               /\ FileBytes(held) = Total(UrlsOf(held))

Space == Accounts /\ Kept

LEMMA TotalOK ==
    /\ \A urls : Total(urls) = Sum(size, urls)
    /\ \A urls : Total(urls)' = Sum(size', urls)
<1>1. ASSUME NEW urls PROVE Total(urls) = Sum(size, urls)
  BY DEF Total, Sum
<1>2. ASSUME NEW urls PROVE Total(urls)' = Sum(size', urls)
  BY DEF Total, Sum, MapThenSumSet, MapThenFoldSet
<1>. QED
  BY <1>1, <1>2

LEMMA RoomOK == Room <=> FileBytes(held) <= MaxCache
  BY DEF Room, FileBytes, FilesOf

LEMMA OrderFinite ==
    ASSUME NEW seq \in Seq(Urls)
    PROVE  IsFiniteSet(Range(seq)) /\ Range(seq) \subseteq Urls
<1>1. seq \in Surjection(DOMAIN seq, Range(seq))
  BY DEF Surjection, Range
<1>2. IsFiniteSet(DOMAIN seq)
  BY FS_Interval
<1>. QED
  BY <1>1, <1>2, FS_Surjection DEF Range

LEMMA NothingHeld ==
    ASSUME NEW s
    PROVE  UrlsOf(<<>>) = {} /\ FileBytes(<<>>) = 0 /\ Sum(s, {}) = 0 /\ AtTheEnd(<<>>, {})
<1>1. UrlsOf(<<>>) = {} /\ FilesOf(<<>>) = {} /\ <<>> \in Seq(Given)
  BY DEF UrlsOf, FilesOf
<1>2. Sum(s, {}) = 0 /\ Sum(Weight, {}) = 0
  BY FS_EmptySet, SumOK
<1>. QED
  BY <1>1, <1>2, FileBytesOK DEF AtTheEnd

LEMMA KeptEmpty ==
    ASSUME held' = <<>> PROVE Kept'
<1>1. UrlsOf(held)' = {} /\ FileBytes(held)' = 0
  BY NothingHeld
<1>2. Total({})' = 0
  BY TotalOK, NothingHeld
<1>. QED
  BY <1>1, <1>2 DEF Kept, AtTheEnd

\* Where the files fit with one more, they fit without it.
LEMMA RoomBefore ==
    ASSUME Types, NEW g \in Given, held' = Append(held, g), Room'
    PROVE  /\ Room
           /\ <<g.url, g.content>> \notin FilesOf(held) =>
                 FileBytes(held) + Size[g.content] <= MaxCache
<1>1. /\ FileBytes(held) \in Nat
      /\ FileBytes(held') = IF <<g.url, g.content>> \in FilesOf(held) THEN FileBytes(held)
                            ELSE FileBytes(held) + Size[g.content]
  BY FilesGrow DEF Types
<1>2. Size[g.content] \in Nat
  BY SizeAssumption DEF Given
<1>3. FileBytes(held') <= MaxCache
  <2>1. FileBytes(held)' = FileBytes(held')
    BY DEF FileBytes, MapThenSumSet, MapThenFoldSet, FilesOf
  <2>2. Room' <=> FileBytes(held)' <= MaxCache
    BY DEF Room, FileBytes, FilesOf, MapThenSumSet, MapThenFoldSet
  <2>. QED
    BY <2>1, <2>2
<1>. QED
  BY <1>1, <1>2, <1>3, RoomOK, BudgetAssumption

\* A file that is given out is held with the others, when what was held is still there.
LEMMA KeptAppend ==
    ASSUME Types, Kept, Accounts', batch', NEW g \in Given, held' = Append(held, g),
           file'[g.url] = g.content,
           Room' => /\ \A u \in UrlsOf(held) : file'[u] = file[u] /\ size'[u] = size[u]
                    /\ AtTheEnd(order', UrlsOf(held) \cup {g.url})
    PROVE  Kept'
<1>. SUFFICES ASSUME Room'
              PROVE  /\ \A i \in DOMAIN held' : file'[held'[i].url] = held'[i].content
                     /\ AtTheEnd(order', UrlsOf(held'))
                     /\ FileBytes(held') = Sum(size', UrlsOf(held'))
  <2>1. Total(UrlsOf(held))' = Sum(size', UrlsOf(held'))
    BY TotalOK
  <2>2. FileBytes(held)' = FileBytes(held')
    BY DEF FileBytes, MapThenSumSet, MapThenFoldSet, FilesOf
  <2>. QED
    BY <2>1, <2>2 DEF Kept, AtTheEnd, UrlsOf
<1>. DEFINE f == <<g.url, g.content>>
<1>1. /\ held \in Seq(Given) /\ held' \in Seq(Given)
      /\ UrlsOf(held') = UrlsOf(held) \cup {g.url}
      /\ FileBytes(held) \in Nat
      /\ FileBytes(held') = IF f \in FilesOf(held) THEN FileBytes(held)
                            ELSE FileBytes(held) + Size[g.content]
  BY FilesGrow DEF Types
<1>2. g.url \in Urls /\ g.content \in Contents /\ Size[g.content] \in Nat
  BY SizeAssumption DEF Given
<1>4. Room
  BY RoomBefore
<1>5. /\ \A i \in DOMAIN held : file[held[i].url] = held[i].content
      /\ FileBytes(held) = Sum(size, UrlsOf(held))
      /\ AtTheEnd(order', UrlsOf(held'))
      /\ \A u \in UrlsOf(held) : file'[u] = file[u] /\ size'[u] = size[u]
  BY <1>1, <1>4, TotalOK DEF Kept
<1>6. ASSUME NEW i \in DOMAIN held' PROVE file'[held'[i].url] = held'[i].content
  <2>1. /\ DOMAIN held' = DOMAIN held \cup {Len(held) + 1}
        /\ \A j \in DOMAIN held : held'[j] = held[j]
        /\ held'[Len(held) + 1] = g
    BY <1>1, AppendProperties
  <2>2. \A j \in DOMAIN held : held[j].url \in UrlsOf(held)
    BY DEF UrlsOf
  <2>. QED
    BY <1>5, <2>1, <2>2
<1>7. /\ size' \in [Urls -> Nat] /\ size'[g.url] = Size[g.content]
  BY <1>2, NoneAssumption DEF Accounts
<1>8. Sum(size', UrlsOf(held)) = FileBytes(held)
  <2>1. IsFiniteSet(UrlsOf(held)) /\ UrlsOf(held) \subseteq Urls
    BY <1>1, FilesFinite
  <2>2. \A u \in UrlsOf(held) : size'[u] \in Nat /\ size'[u] = size[u]
    BY <1>5, <1>7, <2>1
  <2>3. Sum(size', UrlsOf(held)) = Sum(size, UrlsOf(held))
    BY <2>1, <2>2, SumSame
  <2>. QED
    BY <1>5, <2>3
<1>9. FileBytes(held') = Sum(size', UrlsOf(held'))
  <2>1. CASE g.url \in UrlsOf(held)
    <3>1. UrlsOf(held') = UrlsOf(held)
      BY <1>1, <2>1
    <3>2. PICK i \in DOMAIN held : held[i].url = g.url
      BY <2>1 DEF UrlsOf
    <3>3. held[i].content = g.content
      BY <1>5, <2>1, <3>2
    <3>4. f \in FilesOf(held)
      BY <3>2, <3>3 DEF FilesOf
    <3>. QED
      BY <1>1, <1>8, <3>1, <3>4
  <2>2. CASE g.url \notin UrlsOf(held)
    <3>1. f \notin FilesOf(held)
      BY <2>2 DEF FilesOf, UrlsOf
    <3>2. /\ IsFiniteSet(UrlsOf(held')) /\ UrlsOf(held') \subseteq Urls
          /\ g.url \in UrlsOf(held') /\ UrlsOf(held') \ {g.url} = UrlsOf(held)
      BY <1>1, <2>2, FilesFinite
    <3>3. \A u \in UrlsOf(held') : size'[u] \in Nat
      BY <1>7, <3>2
    <3>4. Sum(size', UrlsOf(held')) = size'[g.url] + Sum(size', UrlsOf(held))
      <4>. DEFINE U == UrlsOf(held')
                  w == size'
      <4>1. IsFiniteSet(U) /\ g.url \in U /\ \A u \in U : w[u] \in Nat
        BY <3>2, <3>3
      <4>. HIDE DEF U, w
      <4>2. Sum(w, U) = w[g.url] + Sum(w, U \ {g.url})
        BY <4>1, SumOK
      <4>. QED
        BY <3>2, <4>2 DEF U, w
    <3>5. Sum(size', UrlsOf(held')) = Size[g.content] + FileBytes(held)
      BY <1>7, <1>8, <3>4
    <3>6. FileBytes(held') = FileBytes(held) + Size[g.content]
      BY <1>1, <3>1
    <3>. QED
      BY <1>1, <1>2, <3>5, <3>6
  <2>. QED
    BY <2>1, <2>2
<1>. QED
  BY <1>5, <1>6, <1>9

\* What is held stays, and grows by one file or is given up.
LEMMA GiveKeeps ==
    ASSUME Types, Types', Kept, Accounts', batch', NEW u \in Urls, NEW content \in Contents,
           NEW expected \in Contents \cup {None}, NEW digests,
           Give(u, expected, content, digests), file'[u] = content,
           \A g \in Given : held' = Append(held, g) /\ g.url = u /\ g.content = content /\ Room' =>
              /\ \A v \in UrlsOf(held) : file'[v] = file[v] /\ size'[v] = size[v]
              /\ AtTheEnd(order', UrlsOf(held) \cup {u})
    PROVE  Kept'
<1>. DEFINE g == [url |-> u, content |-> content, expected |-> expected]
<1>1. held' = Append(held, g) \/ held' = <<>>
  BY DEF Give
<1>2. g \in Given /\ g.url = u /\ g.content = content
  BY DEF Given
<1>. HIDE DEF g
<1>3. CASE held' = Append(held, g)
  BY <1>2, <1>3, KeptAppend
<1>. QED
  BY <1>1, <1>3, KeptEmpty

\* A cached file is used again, and becomes the newest.
LEMMA HitKeeps ==
    ASSUME IInv, IInv', Space, NEW u \in Urls, NEW expected \in Contents \cup {None},
           Download(u, expected), Hit(u, expected)
    PROVE  Space'
<1>. DEFINE others == Without(order, u)
<1>1. /\ file[u] \in Contents /\ file' = file /\ size' = size /\ bytes' = bytes
      /\ order' = Append(others, u)
      /\ batch /\ batch'
      /\ Give(u, expected, file[u], sha)
      /\ size \in [Urls -> Nat]
      /\ order \in Seq(Urls) /\ IsInjective(order) /\ u \in Range(order)
  BY DEF Download, Hit, IInv, Types, Space, Accounts
<1>2. /\ others \in Seq(Urls) /\ IsInjective(others)
      /\ Range(others) = Range(order) \ {u}
      /\ \A H : AtTheEnd(order, H) => AtTheEnd(others, H)
  BY <1>1, WithoutOK
<1>. HIDE DEF others
<1>3. /\ order' \in Seq(Urls) /\ IsInjective(order')
      /\ Range(order') = Range(order)
      /\ \A H : AtTheEnd(order, H) => AtTheEnd(order', H \cup {u})
  <2>. DEFINE new == Append(SubSeq(others, 0 + 1, Len(others)), u)
  <2>1. 0 \in 0..Len(others) /\ new = Append(others, u)
    BY <1>2, SubSeqFull
  <2>2. Oldest(others, 0) = {}
    <3>1. SubSeq(others, 1, 0) = <<>>
      BY <1>2, SubSeqEmpty
    <3>. QED
      BY <3>1 DEF Oldest, Range
  <2>3. u \notin Range(others)
    BY <1>2
  <2>4. /\ new \in Seq(Urls) /\ IsInjective(new)
        /\ Range(new) = (Range(others) \ Oldest(others, 0)) \cup {u}
        /\ \A H : AtTheEnd(others, H) => AtTheEnd(new, H \cup {u})
    BY <1>2, <2>1, <2>3, RenewedOK
  <2>. HIDE DEF new
  <2>. QED
    BY <1>1, <1>2, <2>1, <2>2, <2>4
<1>4. Accounts'
  <2>1. bytes' = Sum(size', Range(order'))
    BY <1>1, <1>3, TotalOK DEF Space, Accounts
  <2>2. Total(Range(order))' = Sum(size', Range(order'))
    BY TotalOK
  <2>3. \A v \in Urls : /\ v \notin Range(order') => size'[v] = 0
                        /\ file'[v] # None => v \in Range(order') /\ size'[v] = Size[file'[v]]
    BY <1>1, <1>3 DEF Space, Accounts
  <2>. QED
    BY <1>1, <1>3, <2>1, <2>2, <2>3 DEF Accounts
<1>5. ASSUME NEW g \in Given, held' = Append(held, g), g.url = u, g.content = file[u], Room'
      PROVE  AtTheEnd(order', UrlsOf(held) \cup {u})
  <2>1. Room
    BY <1>5, RoomBefore DEF IInv, Types
  <2>. QED
    BY <1>3, <2>1 DEF Space, Kept
<1>. QED
  BY <1>1, <1>4, <1>5, GiveKeeps DEF IInv, Space

\* To evict the files that are not held makes room for the new one: if it is to be held with
\* the others and all fit, no held file is evicted.
LEMMA FetchKeeps ==
    ASSUME IInv, IInv', Space, NEW u \in Urls, NEW expected \in Contents \cup {None},
           Download(u, expected), Fetch(u, expected)
    PROVE  Space'
<1>. DEFINE content == remote[u]
            others == Without(order, u)
            used == bytes - size[u]
<1>1. PICK k \in 0..Len(others) :
        /\ Evicts(others, used, k, Size[content])
        /\ order' = Append(SubSeq(others, k + 1, Len(others)), u)
        /\ file' = [v \in Urls |-> IF v = u THEN content
                                   ELSE IF v \in Oldest(others, k) THEN None ELSE file[v]]
        /\ size' = [v \in Urls |-> IF v = u THEN Size[content]
                                   ELSE IF v \in Oldest(others, k) THEN 0 ELSE size[v]]
        /\ bytes' = (used + Size[content]) - Total(Oldest(others, k))
        /\ Give(u, expected, content, Forget(Oldest(others, k) \cup {u}))
  BY DEF Fetch
<1>. DEFINE evicted == Oldest(others, k)
<1>2. /\ content \in Contents /\ Size[content] \in Nat /\ file[u] = None
      /\ batch /\ batch'
      /\ size \in [Urls -> Nat]
      /\ order \in Seq(Urls) /\ IsInjective(order)
      /\ bytes = Sum(size, Range(order))
      /\ \A v \in Urls : v \notin Range(order) => size[v] = 0
      /\ \A v \in Urls : file[v] # None => v \in Range(order) /\ size[v] = Size[file[v]]
  BY SizeAssumption, TotalOK DEF Download, Fetch, IInv, Types, Space, Accounts
<1>3. /\ others \in Seq(Urls) /\ IsInjective(others)
      /\ Range(others) = Range(order) \ {u}
      /\ \A H : AtTheEnd(order, H) => AtTheEnd(others, H)
  BY <1>2, WithoutOK
<1>4. /\ order' \in Seq(Urls) /\ IsInjective(order')
      /\ evicted \subseteq Range(others)
      /\ Range(order') = (Range(others) \ evicted) \cup {u}
      /\ \A H : AtTheEnd(others, H) => AtTheEnd(order', H \cup {u})
  BY <1>1, <1>3, RenewedOK
<1>. HIDE DEF others
<1>5. IsFiniteSet(Range(others)) /\ Range(others) \subseteq Urls /\ u \notin Range(others)
  BY <1>3, OrderFinite
<1>6. used = Sum(size, Range(others))
  <2>1. CASE u \in Range(order)
    <3>1. IsFiniteSet(Range(order)) /\ Range(order) \subseteq Urls
      BY <1>2, OrderFinite
    <3>2. /\ Sum(size, Range(order)) = size[u] + Sum(size, Range(order) \ {u})
          /\ Sum(size, Range(order)) \in Nat
      BY <1>2, <2>1, <3>1, SumOK
    <3>3. Sum(size, Range(others)) \in Nat
      BY <1>2, <1>5, SumOK
    <3>. QED
      BY <1>2, <1>3, <3>2, <3>3
  <2>2. CASE u \notin Range(order)
    <3>1. Range(others) = Range(order) /\ size[u] = 0
      BY <1>2, <1>3, <2>2
    <3>2. Sum(size, Range(others)) \in Nat
      BY <1>2, <1>5, SumOK
    <3>. QED
      BY <1>2, <3>1, <3>2
  <2>. QED
    BY <2>1, <2>2
<1>. HIDE DEF used
<1>7. /\ file' = [v \in Urls |-> IF v = u THEN content ELSE IF v \in evicted THEN None ELSE file[v]]
      /\ size' = [v \in Urls |-> IF v = u THEN Size[content] ELSE IF v \in evicted THEN 0 ELSE size[v]]
      /\ bytes' = (used + Size[content]) - Sum(size, evicted)
      /\ Give(u, expected, content, Forget(evicted \cup {u}))
  BY <1>1, TotalOK
<1>8. size' \in [Urls -> Nat]
  BY <1>2, <1>7
<1>9. bytes' = Sum(size', Range(order'))
  <2>. DEFINE left == Range(others) \ evicted
  <2>1. /\ Sum(size, Range(others)) = Sum(size, evicted) + Sum(size, left)
        /\ Sum(size, evicted) \in Nat /\ Sum(size, left) \in Nat
    BY <1>2, <1>4, <1>5, SumSplit
  <2>. HIDE DEF evicted
  <2>2. IsFiniteSet(left) /\ left \subseteq Urls /\ u \notin left
    BY <1>5, FS_Difference
  <2>3. \A v \in left : size[v] \in Nat /\ size[v] = size'[v]
    BY <1>2, <1>5, <1>7
  <2>. HIDE DEF left
  <2>4. Sum(size', left) = Sum(size, left)
    BY <2>2, <2>3, SumSame
  <2>5. Sum(size', left \cup {u}) = Size[content] + Sum(size', left)
    <3>. DEFINE S == left \cup {u}
                w == size'
    <3>1. /\ IsFiniteSet(S) /\ u \in S /\ S \ {u} = left
          /\ \A v \in S : w[v] \in Nat
      BY <1>8, <2>2, FS_AddElement
    <3>2. w[u] = Size[content]
      BY <1>7
    <3>. HIDE DEF S, w
    <3>3. Sum(w, S) = w[u] + Sum(w, S \ {u})
      BY <3>1, SumOK
    <3>. QED
      BY <3>1, <3>2, <3>3 DEF S, w
  <2>6. Range(order') = left \cup {u}
    BY <1>4 DEF left, evicted
  <2>. QED
    BY <1>2, <1>6, <1>7, <2>1, <2>4, <2>5, <2>6
<1>10. Accounts'
  <2>1. Total(Range(order))' = Sum(size', Range(order'))
    BY TotalOK
  <2>2. \A v \in Urls : /\ v \notin Range(order') => size'[v] = 0
                        /\ file'[v] # None => v \in Range(order') /\ size'[v] = Size[file'[v]]
    <3>. HIDE DEF evicted
    <3>. QED
      BY <1>2, <1>3, <1>4, <1>7
  <2>. QED
    BY <1>4, <1>8, <1>9, <2>1, <2>2 DEF Accounts
<1>11. ASSUME NEW g \in Given, held' = Append(held, g), g.url = u, g.content = content, Room'
       PROVE  /\ \A v \in UrlsOf(held) : file'[v] = file[v] /\ size'[v] = size[v]
              /\ AtTheEnd(order', UrlsOf(held) \cup {u})
  <2>. DEFINE H == UrlsOf(held)
  <2>1. /\ Room
        /\ <<u, content>> \notin FilesOf(held) =>
              FileBytes(held) + Size[content] <= MaxCache
    BY <1>11, RoomBefore DEF IInv, Types
  <2>2. /\ \A i \in DOMAIN held : file[held[i].url] = held[i].content
        /\ AtTheEnd(others, H)
        /\ FileBytes(held) = Sum(size, H)
    BY <1>3, <2>1, TotalOK DEF Space, Kept
  <2>3. H \subseteq Urls /\ IsFiniteSet(H) /\ \A v \in H : file[v] # None
    <3>1. H \subseteq Urls /\ IsFiniteSet(H)
      BY FilesFinite DEF IInv, Types
    <3>2. ASSUME NEW i \in DOMAIN held PROVE held[i].content \in Contents
      <4>1. held[i] \in Given
        BY DEF IInv, Types
      <4>. QED
        BY <4>1 DEF Given
    <3>. QED
      BY <2>2, <3>1, <3>2, NoneAssumption DEF UrlsOf
  <2>4. u \notin H /\ H \subseteq Range(others)
    BY <1>2, <1>3, <2>3
  <2>5. Sum(size, H) + Size[content] <= MaxCache
    <3>1. <<u, content>> \notin FilesOf(held)
      BY <2>4 DEF FilesOf, UrlsOf
    <3>. QED
      BY <2>1, <2>2, <3>1
  <2>. HIDE DEF H
  <2>6. PICK most \in 0..Len(others) :
          /\ Oldest(others, most) = Range(others) \ H
          /\ \A j \in 0..most : Oldest(others, j) \cap H = {}
    BY <1>3, <2>2, OthersFirst
  <2>7. (used + Size[content]) - Total(Oldest(others, most)) <= MaxCache
    <3>1. /\ Sum(size, Range(others)) = Sum(size, H) + Sum(size, Range(others) \ H)
          /\ Sum(size, H) \in Nat /\ Sum(size, Range(others) \ H) \in Nat
      BY <1>2, <1>5, <2>4, SumSplit
    <3>. QED
      BY <1>2, <1>6, <2>5, <2>6, <3>1, TotalOK
  <2>8. k <= most
    <3>1. \A j \in 0..(k - 1) : ~((used + Size[content]) - Total(Oldest(others, j)) <= MaxCache)
      BY <1>1 DEF Evicts
    <3>2. most \notin 0..(k - 1)
      BY <2>7, <3>1
    <3>. QED
      BY <1>1, <2>6, <3>2
  <2>9. evicted \cap H = {}
    BY <1>1, <2>6, <2>8
  <2>10. \A v \in H : file'[v] = file[v] /\ size'[v] = size[v]
    <3>. HIDE DEF evicted
    <3>. QED
      BY <1>7, <2>3, <2>4, <2>9
  <2>11. AtTheEnd(order', H \cup {u})
    BY <1>4, <2>2
  <2>. QED
    BY <2>10, <2>11 DEF H
<1>. HIDE DEF evicted
<1>12. file'[u] = content
  BY <1>7
<1>. QED
  BY <1>2, <1>7, <1>10, <1>11, <1>12, GiveKeeps DEF IInv, Space

\* A failed download forgets a file that is gone.
LEMMA FetchFailsKeeps ==
    ASSUME IInv, Space, NEW u \in Urls, NEW expected \in Contents \cup {None},
           Download(u, expected), FetchFails(u)
    PROVE  Space'
<1>1. /\ file[u] = None /\ file' = file /\ held' = held /\ batch /\ batch'
      /\ order' = Without(order, u)
      /\ size' = [size EXCEPT ![u] = 0]
      /\ bytes' = bytes - size[u]
      /\ size \in [Urls -> Nat] /\ size' \in [Urls -> Nat]
      /\ order \in Seq(Urls) /\ IsInjective(order)
      /\ bytes = Sum(size, Range(order))
  BY TotalOK DEF Download, FetchFails, Space, Accounts
<1>2. /\ order' \in Seq(Urls) /\ IsInjective(order')
      /\ Range(order') = Range(order) \ {u}
      /\ \A H : AtTheEnd(order, H) => AtTheEnd(order', H)
  BY <1>1, WithoutOK
<1>3. /\ IsFiniteSet(Range(order)) /\ Range(order) \subseteq Urls
      /\ IsFiniteSet(Range(order')) /\ Range(order') \subseteq Urls
  BY <1>1, <1>2, OrderFinite
<1>4. Sum(size', Range(order')) = Sum(size, Range(order'))
  <2>1. \A v \in Range(order') : size[v] \in Nat /\ size[v] = size'[v]
    BY <1>1, <1>2, <1>3
  <2>. QED
    BY <1>3, <2>1, SumSame
<1>5. bytes' = Sum(size', Range(order'))
  <2>1. Sum(size, Range(order')) \in Nat
    BY <1>1, <1>3, SumOK
  <2>2. CASE u \in Range(order)
    <3>1. Sum(size, Range(order)) = size[u] + Sum(size, Range(order) \ {u})
      BY <1>1, <1>3, <2>2, SumOK
    <3>. QED
      BY <1>1, <1>2, <1>4, <2>1, <3>1
  <2>3. CASE u \notin Range(order)
    <3>1. size[u] = 0 /\ Range(order') = Range(order)
      BY <1>2, <2>3 DEF Space, Accounts
    <3>. QED
      BY <1>1, <1>4, <2>1, <3>1
  <2>. QED
    BY <2>2, <2>3
<1>6. Accounts'
  <2>1. Total(Range(order))' = Sum(size', Range(order'))
    BY TotalOK
  <2>2. \A v \in Urls : /\ v \notin Range(order') => size'[v] = 0
                        /\ file'[v] # None => v \in Range(order') /\ size'[v] = Size[file'[v]]
    BY <1>1, <1>2 DEF Space, Accounts
  <2>. QED
    BY <1>1, <1>2, <1>5, <2>1, <2>2 DEF Accounts
<1>7. SUFFICES ASSUME Room'
               PROVE  /\ \A i \in DOMAIN held : file[held[i].url] = held[i].content
                      /\ AtTheEnd(order', UrlsOf(held))
                      /\ FileBytes(held) = Sum(size', UrlsOf(held))
  <2>1. Total(UrlsOf(held))' = Sum(size', UrlsOf(held))
    BY <1>1, TotalOK DEF UrlsOf
  <2>2. FileBytes(held)' = FileBytes(held)
    BY <1>1 DEF FileBytes, MapThenSumSet, MapThenFoldSet, FilesOf
  <2>. QED
    BY <1>1, <1>6, <2>1, <2>2 DEF Space, Kept, AtTheEnd, UrlsOf
<1>8. Room
  BY <1>1, <1>7 DEF Room, MapThenSumSet, MapThenFoldSet
<1>9. /\ \A i \in DOMAIN held : file[held[i].url] = held[i].content
      /\ AtTheEnd(order', UrlsOf(held))
      /\ FileBytes(held) = Sum(size, UrlsOf(held))
  BY <1>2, <1>8, TotalOK DEF Space, Kept
<1>10. IsFiniteSet(UrlsOf(held)) /\ UrlsOf(held) \subseteq Urls \ {u}
  <2>1. ASSUME NEW i \in DOMAIN held PROVE held[i].content # None
    <3>1. held[i] \in Given
      BY DEF IInv, Types
    <3>. QED
      BY <3>1, NoneAssumption DEF Given
  <2>2. u \notin UrlsOf(held)
    BY <1>1, <1>9, <2>1 DEF UrlsOf
  <2>. QED
    BY <2>2, FilesFinite DEF IInv, Types
<1>11. Sum(size', UrlsOf(held)) = Sum(size, UrlsOf(held))
  <2>1. \A v \in UrlsOf(held) : size[v] \in Nat /\ size[v] = size'[v]
    BY <1>1, <1>10
  <2>. QED
    BY <1>10, <2>1, SumSame
<1>. QED
  BY <1>9, <1>11

LEMMA ClearedSpace ==
    ASSUME Cleared, held = <<>>, held' = held PROVE Space'
<1>1. size' \in [Urls -> Nat] /\ order' = <<>> /\ order' \in Seq(Urls) /\ bytes' = 0
  BY DEF Cleared
<1>2. Range(order') = {} /\ IsInjective(order')
  BY <1>1 DEF Range, IsInjective
<1>3. Total(Range(order))' = 0
  <2>1. Total(Range(order))' = Sum(size', Range(order'))
    BY TotalOK
  <2>. QED
    BY <1>2, <2>1, NothingHeld
<1>4. Accounts'
  BY <1>1, <1>2, <1>3 DEF Accounts, Cleared, Empty
<1>. QED
  BY <1>4, KeptEmpty DEF Space

\* What the rest of the steps leave alone.
LEMMA SameSpace ==
    ASSUME Space, UNCHANGED <<batch, order, size, bytes, held>>,
           file' \in [Urls -> Contents \cup {None}],
           \A u \in Urls : file'[u] \in {file[u], None},
           \A i \in DOMAIN held : file'[held[i].url] = file[held[i].url]
    PROVE  Space'
<1>1. \A urls : Total(urls)' = Total(urls)
  BY TotalOK
<1>2. FileBytes(held)' = FileBytes(held)
  BY DEF FileBytes, MapThenSumSet, MapThenFoldSet, FilesOf
<1>3. Room' <=> Room
  BY DEF Room, MapThenSumSet, MapThenFoldSet
<1>4. Total(Range(order))' = Total(Range(order))
  <2>1. Total(Range(order))' = Sum(size', Range(order'))
    BY TotalOK
  <2>. QED
    BY <2>1, TotalOK
<1>5. Total(UrlsOf(held))' = Total(UrlsOf(held))
  <2>1. Total(UrlsOf(held))' = Sum(size', UrlsOf(held'))
    BY TotalOK
  <2>. QED
    BY <2>1, TotalOK
<1>6. Accounts'
  BY <1>4 DEF Space, Accounts
<1>7. Kept'
  BY <1>2, <1>3, <1>5 DEF Space, Kept, UrlsOf, AtTheEnd
<1>. QED
  BY <1>6, <1>7 DEF Space

LEMMA InitSpace == Init => Space
<1>. SUFFICES ASSUME Init PROVE Space
  OBVIOUS
<1>1. /\ size \in [Urls -> Nat] /\ order = <<>> /\ order \in Seq(Urls) /\ bytes = 0
      /\ held = <<>> /\ file = Empty
  BY DEF Init
<1>2. Range(order) = {} /\ IsInjective(order)
  BY <1>1 DEF Range, IsInjective
<1>3. Total(Range(order)) = 0 /\ Total(UrlsOf(held)) = 0 /\ FileBytes(held) = 0
  BY <1>1, <1>2, TotalOK, NothingHeld
<1>. QED
  BY <1>1, <1>2, <1>3 DEF Space, Accounts, Kept, Init, Empty, AtTheEnd

LEMMA NextSpace == IInv /\ IInv' /\ Space /\ [Next]_vars => Space'
<1>. SUFFICES ASSUME IInv, IInv', Space, [Next]_vars PROVE Space'
  OBVIOUS
<1>0. file \in [Urls -> Contents \cup {None}] /\ file' \in [Urls -> Contents \cup {None}]
  BY DEF IInv, Types
<1>1. CASE UNCHANGED vars
  BY <1>0, <1>1, SameSpace DEF vars, cache
<1>2. CASE Begin \/ End
  BY <1>2, ClearedSpace DEF Begin, End, Space, Kept
<1>3. CASE Return
  <2>1. held' = <<>> /\ UNCHANGED <<order, size, bytes, file>>
    BY <1>3 DEF Return, cache
  <2>2. Total(Range(order))' = Total(Range(order))
    <3>1. Total(Range(order))' = Sum(size', Range(order'))
      BY TotalOK
    <3>. QED
      BY <2>1, <3>1, TotalOK
  <2>3. Accounts'
    BY <2>1, <2>2 DEF Space, Accounts
  <2>. QED
    BY <2>1, <2>3, KeptEmpty DEF Space
<1>4. ASSUME NEW u \in Urls, NEW expected \in Contents \cup {None}, Download(u, expected)
      PROVE  Space'
  BY <1>4, HitKeeps, FetchKeeps, FetchFailsKeeps DEF Download
<1>5. ASSUME NEW u \in Urls, Change(u) PROVE Space'
  BY <1>0, <1>5, SameSpace DEF Change, cache
<1>6. ASSUME NEW u \in Urls, Lose(u) PROVE Space'
  <2>1. /\ UNCHANGED <<batch, order, size, bytes, held>>
        /\ \A v \in Urls : file'[v] \in {file[v], None}
        /\ \A v \in Urls \ {u} : file'[v] = file[v]
        /\ \A i \in DOMAIN held : held[i].url # u
    BY <1>0, <1>6 DEF Lose
  <2>2. ASSUME NEW i \in DOMAIN held PROVE held[i].url \in Urls
    <3>1. held[i] \in Given
      BY DEF IInv, Types
    <3>. QED
      BY <3>1 DEF Given
  <2>. QED
    BY <1>0, <2>1, <2>2, SameSpace
<1>. QED
  BY <1>1, <1>2, <1>3, <1>4, <1>5, <1>6 DEF Next

\* The bytes of the cache are those of its files, and what the caller holds was used last.
THEOREM SpaceInvariant == Spec => []Space
<1>1. IInv /\ Space /\ [Next]_vars => Space'
  BY NextOK, NextSpace
<1>. QED
  BY InitSpace, <1>1, Invariant, PTL DEF Spec

\* What the caller was given stays where it was given, with the digest it asked for, as long as
\* all it holds fits into the cache (media_fetcher.py: _evict_until_fits takes the files that
\* were used longest ago, and stops in time).
THEOREM HeldFilesStay == Spec => []HeldIsKept
<1>1. IInv /\ Space => HeldIsKept
  BY DEF IInv, Space, Kept, HeldIsKept
<1>. QED
  BY Invariant, SpaceInvariant, <1>1, PTL

=============================================================================
