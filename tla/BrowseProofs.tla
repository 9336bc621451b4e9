---------------------------- MODULE BrowseProofs ----------------------------
(* Theorems about the pages of ArcLoreWeb, for every history, every answer *)
(* of lore-server, every number of workers and every limit.                *)
EXTENDS Browse, FiniteSetTheorems, SequenceTheorems, TLAPS

-----------------------------------------------------------------------------
(* Sequences that keep some of the elements of another.                    *)

\* A set of naturals has a least element.
LEMMA LeastNatural ==
    ASSUME NEW T \in SUBSET Nat, T # {}
    PROVE  \E m \in T : \A k \in T : m <= k
<1>1. PICK m \in T : \A k \in T : ~(<<k, m>> \in OpToRel(<, Nat))
  BY NatLessThanWellFounded, WFMin
<1>2. \A k \in T : ~(k < m)
  BY <1>1 DEF OpToRel
<1> QED
  BY <1>2

\* How many elements of S are at most i.
Rank(S, i) == Cardinality({j \in S : j <= i})

\* S is a set of positions of a sequence of length n.
Positions(S, n) == \A j \in S : j \in Nat /\ 1 <= j /\ j <= n

LEMMA PositionsFinite ==
    ASSUME NEW n \in Nat, NEW S, S \subseteq 1..n
    PROVE  Positions(S, n) /\ IsFiniteSet(S) /\ Cardinality(S) \in Nat
<1>1. IsFiniteSet(1..n)
  BY FS_Interval
<1>2. IsFiniteSet(S)
  BY <1>1, FS_Subset
<1>3. Positions(S, n)
  BY DEF Positions
<1> QED
  BY <1>2, <1>3, FS_CardinalityType

\* Ranks follow the order of the positions.
LEMMA RankOrder ==
    ASSUME NEW S, IsFiniteSet(S), S \subseteq Nat
    PROVE  /\ \A i \in Nat : Rank(S, i) \in Nat /\ Rank(S, i) <= Cardinality(S)
           /\ \A i \in Nat, j \in S : i < j => Rank(S, i) < Rank(S, j)
<1>1. ASSUME NEW i \in Nat
      PROVE  /\ IsFiniteSet({j \in S : j <= i})
             /\ Rank(S, i) \in Nat /\ Rank(S, i) <= Cardinality(S)
  <2>1. {j \in S : j <= i} \in SUBSET S
    OBVIOUS
  <2>2. IsFiniteSet({j \in S : j <= i})
    BY <2>1, FS_Subset
  <2> QED
    BY <2>1, <2>2, FS_Subset, FS_CardinalityType DEF Rank
<1>2. ASSUME NEW i \in Nat, NEW j \in S, i < j PROVE Rank(S, i) < Rank(S, j)
  <2>0. j \in Nat
    OBVIOUS
  <2>1. {k \in S : k <= i} \in SUBSET {k \in S : k <= j}
    <3> SUFFICES ASSUME NEW k \in S, k <= i PROVE k <= j
      OBVIOUS
    <3>1. k \in Nat
      OBVIOUS
    <3> QED
      BY <1>2, <2>0, <3>1
  <2>2. {k \in S : k <= i} # {k \in S : k <= j}
    <3>1. j \in {k \in S : k <= j}
      BY <2>0
    <3>2. j \notin {k \in S : k <= i}
      BY <1>2, <2>0
    <3> QED
      BY <3>1, <3>2
  <2>3. IsFiniteSet({k \in S : k <= j})
    BY <1>1, <2>0
  <2>4. Rank(S, i) <= Rank(S, j) /\ Rank(S, j) # Rank(S, i)
    BY <2>1, <2>2, <2>3, FS_Subset DEF Rank
  <2>5. Rank(S, i) \in Nat /\ Rank(S, j) \in Nat
    BY <1>1, <2>0
  <2> QED
    BY <2>4, <2>5
<1> QED
  BY <1>1, <1>2

\* Every number from 1 to the cardinality is the rank of an element.
LEMMA RankExists ==
    ASSUME NEW n \in Nat, NEW S, IsFiniteSet(S), Positions(S, n),
           NEW k \in Nat, 1 <= k, k <= Cardinality(S)
    PROVE  \E i \in S : Rank(S, i) = k
<1> DEFINE T == {i \in Nat : Rank(S, i) >= k}
<1>0. S \subseteq Nat
  BY DEF Positions
<1>1. n \in T
  <2>1. {j \in S : j <= n} = S
    BY DEF Positions
  <2>2. Cardinality(S) \in Nat
    BY FS_CardinalityType
  <2>3. Rank(S, n) = Cardinality(S)
    BY <2>1 DEF Rank
  <2> QED
    BY <2>2, <2>3
<1>2. PICK m \in T : \A i \in T : m <= i
  <2>1. T \in SUBSET Nat
    OBVIOUS
  <2> HIDE DEF T
  <2> QED
    BY <1>1, <2>1, LeastNatural
<1>3. m \in Nat /\ Rank(S, m) >= k /\ Rank(S, m) \in Nat
  BY <1>0, <1>2, RankOrder
<1>4. m # 0
  <2>1. {j \in S : j <= 0} = {}
    BY DEF Positions
  <2>2. Rank(S, 0) = 0
    BY <2>1, FS_EmptySet DEF Rank
  <2> QED
    BY <1>3, <2>2
<1>5. m - 1 \in Nat /\ Rank(S, m - 1) \in Nat /\ Rank(S, m - 1) < k
  <2>1. m - 1 \in Nat
    BY <1>3, <1>4
  <2>2. m - 1 \notin T
    BY <1>2, <1>3, <2>1
  <2>3. Rank(S, m - 1) \in Nat
    BY <1>0, <2>1, RankOrder
  <2> QED
    BY <2>1, <2>2, <2>3
<1>6. CASE m \in S
  <2>1. {j \in S : j <= m} = {j \in S : j <= m - 1} \cup {m}
    <3>1. \A j \in S : j <= m <=> (j <= m - 1 \/ j = m)
      BY <1>0, <1>3
    <3> QED
      BY <1>6, <3>1
  <2>2. m \notin {j \in S : j <= m - 1}
    BY <1>3
  <2>3. IsFiniteSet({j \in S : j <= m - 1})
    <3>1. {j \in S : j <= m - 1} \in SUBSET S
      OBVIOUS
    <3> QED
      BY <3>1, FS_Subset
  <2>4. Rank(S, m) = Rank(S, m - 1) + 1
    BY <2>1, <2>2, <2>3, FS_AddElement DEF Rank
  <2> QED
    BY <1>3, <1>5, <1>6, <2>4
<1>7. CASE m \notin S
  <2>1. {j \in S : j <= m} = {j \in S : j <= m - 1}
    <3>1. \A j \in S : j <= m <=> (j <= m - 1 \/ j = m)
      BY <1>0, <1>3
    <3> QED
      BY <1>7, <3>1
  <2>2. Rank(S, m) = Rank(S, m - 1)
    BY <2>1 DEF Rank
  <2> QED
    BY <1>3, <1>5, <2>2
<1> QED
  BY <1>6, <1>7

\* Nth lists the positions in S, all of them, in order.
LEMMA NthProperties ==
    ASSUME NEW n \in Nat, NEW S, IsFiniteSet(S), Positions(S, n)
    PROVE  /\ \A k \in 1..Cardinality(S) : Nth(S, k) \in S
           /\ \A k, l \in 1..Cardinality(S) : k < l => Nth(S, k) < Nth(S, l)
           /\ \A i \in S : \E k \in 1..Cardinality(S) : Nth(S, k) = i
<1>0. S \subseteq Nat /\ Cardinality(S) \in Nat
  BY FS_CardinalityType DEF Positions
<1>1. ASSUME NEW k \in 1..Cardinality(S)
      PROVE  Nth(S, k) \in S /\ Nth(S, k) \in Nat /\ Rank(S, Nth(S, k)) = k
  <2>1. k \in Nat /\ 1 <= k /\ k <= Cardinality(S)
    BY <1>0
  <2>2. \E i \in S : Rank(S, i) = k
    BY <2>1, RankExists
  <2>3. Nth(S, k) \in S /\ Rank(S, Nth(S, k)) = k
    BY <2>2 DEF Nth, Rank
  <2> QED
    BY <1>0, <2>3
<1>2. ASSUME NEW k \in 1..Cardinality(S), NEW l \in 1..Cardinality(S), k < l
      PROVE  Nth(S, k) < Nth(S, l)
  <2>1. Nth(S, l) < Nth(S, k) => l < k
    BY <1>0, <1>1, RankOrder
  <2>2. k \in Nat /\ l \in Nat
    BY <1>0
  <2>3. Nth(S, l) # Nth(S, k)
    BY <1>1, <1>2, <2>2
  <2> QED
    BY <1>1, <1>2, <2>1, <2>2, <2>3
<1>3. ASSUME NEW i \in S PROVE \E k \in 1..Cardinality(S) : Nth(S, k) = i
  <2>0. i \in Nat /\ 0 < i
    BY DEF Positions
  <2>1. Rank(S, 0) \in Nat /\ Rank(S, 0) < Rank(S, i)
    BY <1>0, <2>0, RankOrder
  <2>2. Rank(S, i) \in Nat /\ Rank(S, i) <= Cardinality(S)
    BY <1>0, <2>0, RankOrder
  <2>3. Rank(S, i) \in 1..Cardinality(S)
    BY <1>0, <2>1, <2>2
  <2>4. PICK j : j = Nth(S, Rank(S, i))
    OBVIOUS
  <2>5. j \in S /\ j \in Nat /\ Rank(S, j) = Rank(S, i)
    BY <1>1, <2>3, <2>4
  <2>6. j < i => Rank(S, j) < Rank(S, i)
    BY <1>0, <2>5, RankOrder
  <2>7. i < j => Rank(S, i) < Rank(S, j)
    BY <1>0, <2>0, <2>5, RankOrder
  <2>8. i = j
    BY <2>0, <2>2, <2>5, <2>6, <2>7
  <2> QED
    BY <2>3, <2>4, <2>8
<1> QED
  BY <1>1, <1>2, <1>3

\* The elements at the positions in S form a subsequence, through the increasing
\* function at, that has all of them.
LEMMA KeptProperties ==
    ASSUME NEW X, NEW s \in Seq(X), NEW S, S \subseteq DOMAIN s
    PROVE  /\ Kept(s, S) \in Seq(X)
           /\ \E at \in [DOMAIN Kept(s, S) -> S] :
                 /\ \A k \in DOMAIN Kept(s, S) : Kept(s, S)[k] = s[at[k]]
                 /\ \A k, l \in DOMAIN Kept(s, S) : k < l => at[k] < at[l]
                 /\ \A i \in S : \E k \in DOMAIN Kept(s, S) : at[k] = i
<1>0. Len(s) \in Nat /\ DOMAIN s = 1..Len(s) /\ \A i \in DOMAIN s : s[i] \in X
  OBVIOUS
<1>1. Positions(S, Len(s)) /\ IsFiniteSet(S) /\ Cardinality(S) \in Nat
  BY <1>0, PositionsFinite
<1>2. PICK C \in Nat : C = Cardinality(S)
  BY <1>1
<1>3. /\ \A k \in 1..C : Nth(S, k) \in S
      /\ \A k, l \in 1..C : k < l => Nth(S, k) < Nth(S, l)
      /\ \A i \in S : \E k \in 1..C : Nth(S, k) = i
  BY <1>0, <1>1, <1>2, NthProperties
<1>4. PICK at : at = [k \in 1..C |-> Nth(S, k)]
  OBVIOUS
<1>5. /\ at \in [1..C -> S]
      /\ \A k, l \in 1..C : k < l => at[k] < at[l]
      /\ \A i \in S : \E k \in 1..C : at[k] = i
  BY <1>3, <1>4
<1>6. Kept(s, S) = [k \in 1..C |-> s[at[k]]]
  BY <1>2, <1>4 DEF Kept
<1>7. Kept(s, S) \in [1..C -> X]
  BY <1>0, <1>5, <1>6
<1>8. Kept(s, S) \in Seq(X) /\ DOMAIN Kept(s, S) = 1..C
  <2>1. [1..C -> X] \in {[1..n -> X] : n \in Nat}
    BY <1>2
  <2>2. Seq(X) = UNION {[1..n -> X] : n \in Nat}
    BY SeqDef, Zenon
  <2>3. Kept(s, S) \in UNION {[1..n -> X] : n \in Nat}
    BY <1>7, <2>1, Zenon
  <2> QED
    BY <1>7, <2>2, <2>3, Zenon
<1>9. \A k \in 1..C : Kept(s, S)[k] = s[at[k]]
  BY <1>6
<1>10. /\ at \in [DOMAIN Kept(s, S) -> S]
       /\ \A k \in DOMAIN Kept(s, S) : Kept(s, S)[k] = s[at[k]]
       /\ \A k, l \in DOMAIN Kept(s, S) : k < l => at[k] < at[l]
       /\ \A i \in S : \E k \in DOMAIN Kept(s, S) : at[k] = i
  BY <1>5, <1>8, <1>9, Zenon
<1> QED
  BY <1>8, <1>10, Zenon

\* The ceiling of rows cuts a prefix.
LEMMA CappedProperties ==
    ASSUME NEW X, NEW s \in Seq(X)
    PROVE  /\ Capped(s) \in Seq(X)
           /\ Len(Capped(s)) <= Len(s)
           /\ Len(Capped(s)) = Len(s) \/ Len(Capped(s)) = MaxRows
           /\ \A i \in 1..Len(Capped(s)) : Capped(s)[i] = s[i]
<1>1. PICK n \in Nat : n = Min({Len(s), MaxRows})
  BY BrowseConstants DEF Min
<1>2. n <= Len(s) /\ (n = Len(s) \/ n = MaxRows)
  BY <1>1, BrowseConstants DEF Min
<1>3. Capped(s) = SubSeq(s, 1, n)
  BY <1>1 DEF Capped
<1>4. \A i \in 1..n : s[i] \in X
  BY <1>2
<1>5. /\ SubSeq(s, 1, n) \in Seq(X)
      /\ Len(SubSeq(s, 1, n)) = IF 1 <= n THEN n - 1 + 1 ELSE 0
      /\ \A i \in 1..(n - 1 + 1) : SubSeq(s, 1, n)[i] = s[1 + i - 1]
  BY <1>4, SubSeqProperties
<1>6. Len(SubSeq(s, 1, n)) = n /\ \A i \in 1..n : SubSeq(s, 1, n)[i] = s[i]
  BY <1>5
<1> QED
  BY <1>2, <1>3, <1>5, <1>6

\* dedupBySignature keeps one item for each signature, in their order.
LEMMA DedupProperties ==
    ASSUME NEW X, NEW sigs \in Seq(X)
    PROVE  /\ dedupBySignature(sigs) \in Seq(X)
           /\ \A i, j \in DOMAIN dedupBySignature(sigs) :
                 dedupBySignature(sigs)[i] = dedupBySignature(sigs)[j] => i = j
           /\ \A p \in DOMAIN sigs : \E i \in DOMAIN dedupBySignature(sigs) :
                 dedupBySignature(sigs)[i] = sigs[p]
           /\ \E at \in [DOMAIN dedupBySignature(sigs) -> DOMAIN sigs] :
                 /\ \A i \in DOMAIN dedupBySignature(sigs) :
                       dedupBySignature(sigs)[i] = sigs[at[i]]
                 /\ \A i, j \in DOMAIN dedupBySignature(sigs) :
                       i < j => at[i] < at[j]
<1>0. Len(sigs) \in Nat /\ DOMAIN sigs = 1..Len(sigs)
  OBVIOUS
<1>1. PICK S : S = {i \in DOMAIN sigs : \A j \in 1..(i - 1) : sigs[j] # sigs[i]}
  OBVIOUS
<1>2. PICK d : d = dedupBySignature(sigs)
  OBVIOUS
<1>3. d = Kept(sigs, S) /\ S \subseteq DOMAIN sigs
  BY <1>1, <1>2 DEF dedupBySignature
<1>4. d \in Seq(X)
  BY <1>3, KeptProperties
<1>5. PICK at \in [DOMAIN d -> S] :
        /\ \A k \in DOMAIN d : d[k] = sigs[at[k]]
        /\ \A k, l \in DOMAIN d : k < l => at[k] < at[l]
        /\ \A i \in S : \E k \in DOMAIN d : at[k] = i
  BY <1>3, KeptProperties
<1>6. DOMAIN d \subseteq Nat /\ \A i \in DOMAIN d : at[i] \in S /\ at[i] \in Nat /\ at[i] >= 1
  BY <1>0, <1>3, <1>4, <1>5
<1>7. ASSUME NEW i \in DOMAIN d, NEW j \in DOMAIN d, d[i] = d[j], i < j PROVE FALSE
  <2>1. at[i] < at[j] /\ sigs[at[i]] = sigs[at[j]]
    BY <1>5, <1>7
  <2>2. at[i] \in 1..(at[j] - 1)
    BY <1>6, <2>1
  <2> QED
    BY <1>1, <1>6, <2>1, <2>2
<1>8. \A i, j \in DOMAIN d : d[i] = d[j] => i = j
  BY <1>6, <1>7
<1>9. ASSUME NEW p \in DOMAIN sigs PROVE \E i \in DOMAIN d : d[i] = sigs[p]
  <2>1. PICK T : T = {q \in DOMAIN sigs : sigs[q] = sigs[p]}
    OBVIOUS
  <2>2. T \in SUBSET Nat /\ T # {}
    BY <1>0, <2>1
  <2>3. PICK m \in T : \A k \in T : m <= k
    BY <2>2, LeastNatural
  <2>4. m \in DOMAIN sigs /\ sigs[m] = sigs[p] /\ m \in Nat
    BY <2>1, <2>2, <2>3
  <2>5. ASSUME NEW j \in 1..(m - 1) PROVE sigs[j] # sigs[m]
    <3>1. j \in DOMAIN sigs /\ ~(m <= j)
      BY <1>0, <2>4
    <3> QED
      BY <2>1, <2>3, <2>4, <3>1
  <2>6. m \in S
    BY <1>1, <2>4, <2>5
  <2> QED
    BY <1>5, <2>4, <2>6
<1>10. at \in [DOMAIN d -> DOMAIN sigs]
  BY <1>3, <1>5
<1> QED
  BY <1>2, <1>4, <1>5, <1>8, <1>9, <1>10

\* The entries that are shown, all of them, in their order.
LEMMA ChangesProperties ==
    ASSUME NEW entries \in Seq(Entry)
    PROVE  /\ Changes(entries) \in Seq(Entry)
           /\ \E at \in [DOMAIN Changes(entries) -> DOMAIN entries] :
                 /\ \A i \in DOMAIN Changes(entries) :
                       Changes(entries)[i] = entries[at[i]]
                 /\ \A i, j \in DOMAIN Changes(entries) : i < j => at[i] < at[j]
                 /\ \A p \in DOMAIN entries :
                       IsChange(entries[p])
                         <=> \E i \in DOMAIN Changes(entries) : at[i] = p
<1>1. PICK S : S = {i \in DOMAIN entries : IsChange(entries[i])}
  OBVIOUS
<1>2. PICK d : d = Changes(entries)
  OBVIOUS
<1>3. d = Kept(entries, S) /\ S \subseteq DOMAIN entries
  BY <1>1, <1>2 DEF Changes
<1>4. d \in Seq(Entry)
  BY <1>3, KeptProperties
<1>5. PICK at \in [DOMAIN d -> S] :
        /\ \A k \in DOMAIN d : d[k] = entries[at[k]]
        /\ \A k, l \in DOMAIN d : k < l => at[k] < at[l]
        /\ \A i \in S : \E k \in DOMAIN d : at[k] = i
  BY <1>3, KeptProperties
<1>6. at \in [DOMAIN d -> DOMAIN entries]
  BY <1>3, <1>5
<1>7. \A p \in DOMAIN entries : IsChange(entries[p]) <=> \E i \in DOMAIN d : at[i] = p
  BY <1>1, <1>5
<1> QED
  BY <1>2, <1>4, <1>5, <1>6, <1>7

-----------------------------------------------------------------------------
(* Control: the calls a handler can be at.                                 *)

Control ==
    /\ page \in Page
    /\ page = "list" => pc \in {"base", "list", "done"}
    /\ page = "repo" => pc \in {"base", "repo", "scope", "branch", "branches", "root",
                                "overlay", "readme", "done"}
    /\ page = "root" => pc \in {"base", "repo", "scope", "branch", "root", "overlay",
                                "done"}
    /\ page = "tree" => pc \in {"base", "repo", "scope", "branch", "path", "listing",
                                "content", "overlay", "read", "done"}
    /\ page = "raw" => pc \in {"base", "repo", "scope", "branch", "path", "content",
                               "done"}
    /\ page = "commits" => pc \in {"base", "repo", "scope", "branch", "revisions",
                                   "pool", "done"}
    /\ page = "commit" => pc \in {"base", "repo", "scope", "info", "diff", "pool",
                                  "done"}
    /\ page = "locks" => pc \in {"base", "repo", "scope", "branch", "locks", "done"}
    /\ page = "release" => pc \in {"base", "repo", "exchange", "unlock", "done"}

LEMMA Pages ==
    Page = {"list", "repo", "root", "tree", "raw", "commits", "commit", "locks",
            "release"}
BY DEF Page, Route

\* The order of the calls, read off the handlers.
LEMMA ThenIs ==
    /\ page = "list" => Then("base") = "list" /\ Then("list") = "done"
    /\ page = "repo" =>
          /\ Then("base") = "repo" /\ Then("repo") = "scope" /\ Then("scope") = "branch"
          /\ Then("branch") = "branches" /\ Then("branches") = "root"
          /\ Then("overlay") = "readme" /\ Then("readme") = "done"
    /\ page = "root" =>
          /\ Then("base") = "repo" /\ Then("repo") = "scope" /\ Then("scope") = "branch"
          /\ Then("branch") = "root" /\ Then("overlay") = "done"
    /\ page = "tree" =>
          /\ Then("base") = "repo" /\ Then("repo") = "scope" /\ Then("scope") = "branch"
          /\ Then("branch") = "path" /\ Then("overlay") = "done"
    /\ page = "raw" =>
          /\ Then("base") = "repo" /\ Then("repo") = "scope" /\ Then("scope") = "branch"
          /\ Then("branch") = "path"
    /\ page = "commits" =>
          /\ Then("base") = "repo" /\ Then("repo") = "scope" /\ Then("scope") = "branch"
          /\ Then("branch") = "revisions"
    /\ page = "commit" =>
          /\ Then("base") = "repo" /\ Then("repo") = "scope" /\ Then("scope") = "info"
          /\ Then("info") = "diff"
    /\ page = "locks" =>
          /\ Then("base") = "repo" /\ Then("repo") = "scope" /\ Then("scope") = "branch"
          /\ Then("branch") = "locks" /\ Then("locks") = "done"
    /\ page = "release" =>
          /\ Then("base") = "repo" /\ Then("repo") = "exchange"
          /\ Then("exchange") = "unlock" /\ Then("unlock") = "done"
<1>1. page = "list" => Then("base") = "list" /\ Then("list") = "done"
  BY DEF Then, Route
<1>2. page = "repo" =>
          /\ Then("base") = "repo" /\ Then("repo") = "scope" /\ Then("scope") = "branch"
          /\ Then("branch") = "branches" /\ Then("branches") = "root"
          /\ Then("overlay") = "readme" /\ Then("readme") = "done"
  BY DEF Then, Route, RepoHome
<1>3. page = "root" =>
          /\ Then("base") = "repo" /\ Then("repo") = "scope" /\ Then("scope") = "branch"
          /\ Then("branch") = "root" /\ Then("overlay") = "done"
  BY DEF Then, Route, TreeRoot
<1>4. page = "tree" =>
          /\ Then("base") = "repo" /\ Then("repo") = "scope" /\ Then("scope") = "branch"
          /\ Then("branch") = "path" /\ Then("overlay") = "done"
  BY DEF Then, Route, Tree
<1>5. page = "raw" =>
          /\ Then("base") = "repo" /\ Then("repo") = "scope" /\ Then("scope") = "branch"
          /\ Then("branch") = "path"
  BY DEF Then, Route, Raw
<1>6. page = "commits" =>
          /\ Then("base") = "repo" /\ Then("repo") = "scope" /\ Then("scope") = "branch"
          /\ Then("branch") = "revisions"
  BY DEF Then, Route, Commits
<1>7. page = "commit" =>
          /\ Then("base") = "repo" /\ Then("repo") = "scope" /\ Then("scope") = "info"
          /\ Then("info") = "diff"
  BY DEF Then, Route, Commit
<1>8. page = "locks" =>
          /\ Then("base") = "repo" /\ Then("repo") = "scope" /\ Then("scope") = "branch"
          /\ Then("branch") = "locks" /\ Then("locks") = "done"
  BY DEF Then, Route, Locks
<1>9. page = "release" =>
          /\ Then("base") = "repo" /\ Then("repo") = "exchange"
          /\ Then("exchange") = "unlock" /\ Then("unlock") = "done"
  BY DEF Then, Route, ReleaseLock
<1> QED
  BY <1>1, <1>2, <1>3, <1>4, <1>5, <1>6, <1>7, <1>8, <1>9

\* What going on with the next call does, and what ending does.
LEMMA GoToDoes ==
    ASSUME NEW step, NEW node, GoTo(step, node)
    PROVE  /\ pc' = step /\ found' = node
           /\ step # "done" => out' = out
           /\ step = "done" =>
                out' = [code |-> IF page = "release" THEN 303 ELSE 200, about |-> "page",
                        rev |-> node.rev, shows |-> node.kind]
           /\ UNCHANGED <<history, page, pool, since, fault>>
BY DEF GoTo, Respond

\* The actions of the fan-out.
PoolStep ==
    \/ Spawn \/ ListOnly
    \/ \E i \in DOMAIN items :
          \/ \E ok \in BOOLEAN : Enrich(i, ok)
          \/ \E ok \in [Calls -> BOOLEAN] : Diff(i, ok)
          \/ Release(i) \/ Done(i)

LEMMA PoolStepKeeps ==
    ASSUME PoolStep
    PROVE  UNCHANGED <<history, page, pc, found, out, since, fault, items, answer>>
BY DEF PoolStep, Spawn, ListOnly, Enrich, Diff, Write, Release, Done

\* The other steps of a handler, each with the call it is at.
HandlerStep ==
    \/ \E step \in Steps : CallReturns(step) \/ CallFails(step) \/ NotFound(step)
    \/ FindPath \/ ListDir \/ ListRoot \/ Overlay \/ FetchContent \/ ReadFile
    \/ \E sigs \in Listings : ListRevisions(sigs)
    \/ \E entries \in Diffs : RevisionDiff(entries)
    \/ NoRevisions \/ NoDiff \/ Wait

LEMMA NextIs ==
    Next <=> \/ \E p \in Page : Ask(p) \/ BadRequest(p)
             \/ \E kind \in Kind : Push(kind)
             \/ HandlerStep \/ PoolStep
BY DEF Next, Serve, HandlerStep, PoolStep

LEMMA ControlStep == Control /\ [Next]_vars => Control'
<1> SUFFICES ASSUME Control, [Next]_vars PROVE Control'
  OBVIOUS
<1> USE Pages
<1>1. CASE UNCHANGED <<page, pc>>
  BY <1>1 DEF Control
<1>2. CASE \E p \in Page : Ask(p) \/ BadRequest(p)
  BY <1>2 DEF Ask, BadRequest, Respond, Control
<1>3. ASSUME UNCHANGED page, pc' = "done" PROVE Control'
  BY <1>3 DEF Control
<1>4. ASSUME NEW step, CallReturns(step) PROVE Control'
  <2>1. pc = step /\ pc' = Then(step) /\ page' = page /\ step \in Plain \ {"overlay"}
    BY <1>4, GoToDoes DEF CallReturns, Advance
  <2> QED
    BY <2>1, ThenIs DEF Control, Plain, Optional
<1>5. ASSUME NEW step, CallFails(step) PROVE Control'
  BY <1>3, <1>5 DEF CallFails, Respond
<1>6. ASSUME NEW step, NotFound(step) PROVE Control'
  <2>1. CASE pc' = "done" /\ page' = page
    BY <1>3, <2>1
  <2>2. CASE pc = "branch" /\ page = "repo" /\ Advance("branch")
    <3>1. pc' = Then("branch") /\ page' = page
      BY <2>2, GoToDoes DEF Advance
    <3> QED
      BY <2>2, <3>1, ThenIs DEF Control
  <2> QED
    BY <1>6, <2>1, <2>2 DEF NotFound, Refuse, Respond
<1>7. CASE FindPath
  <2>1. /\ pc = "path" /\ page' = page
        /\ \/ pc' = "done"
           \/ pc' = "listing" /\ page # "raw"
           \/ pc' = "content"
    BY <1>7, GoToDoes DEF FindPath, Refuse, Respond
  <2> QED
    BY <2>1 DEF Control
<1>8. CASE ListDir \/ ListRoot
  <2>1. /\ pc \in {"listing", "root"} /\ page' = page
        /\ pc' = "done" \/ pc' = "overlay"
    BY <1>8, GoToDoes DEF ListDir, ListRoot, Refuse, Respond
  <2> QED
    BY <2>1 DEF Control
<1>9. CASE Overlay
  <2>1. /\ pc = "overlay" /\ page' = page
        /\ (page = "tree" /\ pc' = "read") \/ pc' = Then("overlay")
    BY <1>9, GoToDoes DEF Overlay, Advance
  <2> QED
    BY <2>1, ThenIs DEF Control
<1>10. CASE FetchContent \/ ReadFile \/ NoRevisions \/ NoDiff \/ Wait
  <2>1. /\ page' = page
        /\ pc' = "done" \/ (pc = "content" /\ page # "raw" /\ pc' = "overlay")
    BY <1>10, GoToDoes DEF FetchContent, ReadFile, NoRevisions, NoDiff, Wait, Refuse,
                           Respond
  <2> QED
    BY <2>1 DEF Control
<1>11. ASSUME (\E sigs : ListRevisions(sigs)) \/ \E entries : RevisionDiff(entries)
       PROVE  Control'
  BY <1>11 DEF ListRevisions, RevisionDiff, FanOut, Control
<1>12. CASE HandlerStep
  BY <1>4, <1>5, <1>6, <1>7, <1>8, <1>9, <1>10, <1>11, <1>12 DEF HandlerStep
<1>13. CASE PoolStep \/ (\E kind \in Kind : Push(kind)) \/ UNCHANGED vars
  <2>1. UNCHANGED <<page, pc>>
    BY <1>13, PoolStepKeeps DEF Push, vars
  <2> QED
    BY <1>1, <2>1
<1> QED
  BY <1>2, <1>12, <1>13, NextIs

-----------------------------------------------------------------------------
(* Reading: what the handlers of one path and of a directory go on with.   *)

\* What the observers and the answers are made of.
ReadTypes ==
    /\ history \in Seq(Kind) /\ tip <= MaxRev
    /\ found \in Node /\ found.rev <= tip
    /\ out \in Reply \cup {NoReply}
    /\ since \in 0..tip
    /\ fault \in BOOLEAN

\* A node that was at the tip while the request was served, and is what the path
\* was there.
Seen(node) == node.rev \in since..tip /\ node.kind = KindAt(node.rev)

Reading ==
    /\ (\/ page = "tree" /\ pc \in {"listing", "content", "overlay", "read"}
        \/ page = "raw" /\ pc = "content") => Seen(found)
    /\ pc = "listing" => found.kind = "dir"
    /\ pc \in {"content", "read"} => found.kind \in {"text", "opaque"}
    /\ page = "tree" /\ pc = "overlay" => found.kind # "none"
    /\ page \in {"repo", "root"} /\ pc \in {"overlay", "readme"}
          => found.rev \in since..tip

ReadInv == ReadTypes /\ Control /\ Reading /\ OneRevision /\ StablePathServed

\* The tip, and the path at it.
LEMMA TipTypes ==
    ASSUME ReadTypes
    PROVE  /\ tip \in Nat /\ tip <= MaxRev /\ MaxRev \in Nat /\ since \in Nat
           /\ since <= tip
           /\ \A r \in 0..tip : KindAt(r) \in Kind
           /\ NoNode \in Node
           /\ \A kind \in Kind : [rev |-> tip, kind |-> kind] \in Node
<1>1. tip \in Nat /\ MaxRev \in Nat /\ since \in Nat /\ since <= tip /\ tip <= MaxRev
  BY BrowseConstants DEF ReadTypes, tip
<1>2. \A r \in 0..tip : KindAt(r) \in Kind
  BY DEF ReadTypes, tip, KindAt, Kind
<1> QED
  BY <1>1, <1>2 DEF NoNode, Node, Kind

\* Others push: what the path was before stays what it was.
LEMMA PushKeeps ==
    ASSUME ReadTypes, NEW kind \in Kind, Push(kind)
    PROVE  /\ history' \in Seq(Kind)
           /\ tip' = tip + 1 /\ tip' <= MaxRev
           /\ \A r \in 0..tip : KindAt(r)' = KindAt(r)
           /\ UNCHANGED <<page, pc, found, pool, out, since, fault>>
BY BrowseConstants DEF ReadTypes, Push, tip, KindAt

LEMMA PushReads ==
    ASSUME ReadInv, NEW kind \in Kind, Push(kind)
    PROVE  ReadTypes' /\ Reading' /\ OneRevision' /\ StablePathServed'
<1>0. ReadTypes /\ Reading /\ OneRevision /\ StablePathServed
  BY DEF ReadInv
<1>1. /\ tip \in Nat /\ tip' = tip + 1 /\ tip' <= MaxRev /\ since \in Nat /\ since <= tip
      /\ \A r \in 0..tip : KindAt(r)' = KindAt(r)
      /\ history' \in Seq(Kind)
      /\ page' = page /\ pc' = pc /\ found' = found /\ out' = out /\ since' = since
      /\ fault' = fault
  BY <1>0, PushKeeps, TipTypes
<1>2. found \in Node /\ found.rev \in Nat /\ found.rev <= tip
  BY <1>0 DEF ReadTypes, Node
<1>3. ReadTypes'
  BY <1>0, <1>1, <1>2 DEF ReadTypes
<1>4. \A r \in since..tip : r \in 0..tip /\ r \in since..tip'
  BY <1>1
<1>5. Seen(found) => Seen(found)'
  BY <1>1, <1>4 DEF Seen
<1>6. Reading'
  BY <1>0, <1>1, <1>4, <1>5 DEF Reading
<1>7. OneRevision'
  BY <1>0, <1>1, <1>4 DEF OneRevision
<1>8. ASSUME \A r \in since..tip' : KindAt(r)' = KindAt(tip)'
      PROVE  KindAt(tip)' = KindAt(tip) /\ \A r \in since..tip : KindAt(r) = KindAt(tip)
  <2>1. tip \in since..tip' /\ tip \in 0..tip /\ tip' \in since..tip'
    BY <1>1
  <2>2. \A r \in since..tip : KindAt(r) = KindAt(tip)'
    BY <1>1, <1>4, <1>8
  <2> QED
    BY <2>1, <2>2, <1>1
<1>9. StablePathServed'
  BY <1>0, <1>1, <1>8 DEF StablePathServed
<1> QED
  BY <1>3, <1>6, <1>7, <1>9

\* The kinds a page of a path answers not found for.
Ends == IF page = "raw" THEN {"none", "dir"} ELSE {"none"}

Stable == \A r \in since..tip : KindAt(r) = KindAt(tip)

\* A refusal is right about a path that stayed what it is.
LEMMA Refused ==
    ASSUME ReadInv, NEW code \in {400, 404, 502}, NEW about \in About,
           Refuse(code, about),
           page \in {"tree", "raw"} /\ Stable =>
              \/ about \in {"request", "repo", "branch"}
              \/ code = 404 /\ KindAt(tip) \in Ends
    PROVE  ReadTypes' /\ Reading' /\ OneRevision' /\ StablePathServed'
<1>0. ReadTypes
  BY DEF ReadInv
<1>1. /\ pc' = "done" /\ UNCHANGED <<history, page, found, since, fault>>
      /\ out' = [code |-> IF page = "release" THEN 303 ELSE code, about |-> about,
                 rev |-> 0, shows |-> "none"]
  BY DEF Refuse, Respond, NoNode
<1>2. out' \in Reply /\ out'.code # 200 /\ out'.about = about
      /\ (page # "release" => out'.code = code)
  BY <1>0, <1>1, TipTypes DEF Reply, Kind
<1>3. tip' = tip /\ \A r : KindAt(r)' = KindAt(r)
  BY <1>1 DEF tip, KindAt
<1>4. ReadTypes'
  BY <1>0, <1>1, <1>2, <1>3 DEF ReadTypes
<1>5. Reading' /\ OneRevision'
  BY <1>1, <1>2 DEF Reading, OneRevision
<1>6. StablePathServed'
  BY <1>1, <1>2, <1>3 DEF StablePathServed, Stable, Ends
<1> QED
  BY <1>4, <1>5, <1>6

\* Going on, or serving the page, with a node that was seen.
LEMMA Gone ==
    ASSUME ReadInv, NEW step, NEW node \in Node, GoTo(step, node), node.rev <= tip,
           page \in {"tree", "raw"}
              /\ step \in {"listing", "content", "overlay", "read", "done"}
              => Seen(node),
           step = "listing" => node.kind = "dir",
           step \in {"content", "read"} => node.kind \in {"text", "opaque"},
           page = "tree" /\ step = "overlay" => node.kind # "none",
           page \in {"repo", "root"} /\ step \in {"overlay", "readme", "done"}
              => node.rev \in since..tip,
           page \in {"tree", "raw"} /\ step = "done" => node.kind \notin Ends
    PROVE  ReadTypes' /\ Reading' /\ OneRevision' /\ StablePathServed'
<1>0. ReadTypes /\ OneRevision /\ StablePathServed
  BY DEF ReadInv
<1>1. /\ pc' = step /\ found' = node /\ UNCHANGED <<history, page, since, fault>>
      /\ step # "done" => out' = out
      /\ step = "done" =>
            out' = [code |-> IF page = "release" THEN 303 ELSE 200, about |-> "page",
                    rev |-> node.rev, shows |-> node.kind]
  BY GoToDoes
<1>2. tip' = tip /\ \A r : KindAt(r)' = KindAt(r)
  BY <1>1 DEF tip, KindAt
<1>3. ReadTypes'
  <2>1. out' \in Reply \cup {NoReply}
    BY <1>0, <1>1 DEF ReadTypes, Reply, Node, About
  <2> QED
    BY <1>0, <1>1, <1>2, <2>1 DEF ReadTypes
<1>4. Reading'
  <2>1. Seen(node) => Seen(found)'
    BY <1>1, <1>2 DEF Seen
  <2> QED
    BY <1>1, <1>2, <2>1 DEF Reading
<1>5. CASE step # "done"
  <2>1. OneRevision'
    BY <1>0, <1>1, <1>2, <1>5 DEF OneRevision
  <2>2. StablePathServed'
    BY <1>0, <1>1, <1>2, <1>5 DEF StablePathServed
  <2> QED
    BY <1>3, <1>4, <2>1, <2>2
<1>6. CASE step = "done"
  <2>1. /\ out'.rev = node.rev /\ out'.shows = node.kind /\ out'.about = "page"
        /\ page # "release" => out'.code = 200
    BY <1>1, <1>6
  <2>2. OneRevision'
    BY <1>1, <1>2, <1>6, <2>1 DEF OneRevision, Seen
  <2>3. page \in {"tree", "raw"} /\ Stable
          => KindAt(tip) = node.kind /\ KindAt(tip) \notin Ends
    BY <1>6 DEF Seen, Stable
  <2>4. StablePathServed'
    BY <1>1, <1>2, <2>1, <2>3 DEF StablePathServed, Stable, Ends
  <2> QED
    BY <1>3, <1>4, <2>2, <2>4
<1> QED
  BY <1>5, <1>6

\* A step that only the fan-out, or the observers of the next request, can tell.
LEMMA NotRead ==
    ASSUME ReadInv, UNCHANGED <<history, page, found, out, since, fault>>,
           pc' = pc \/ pc' = "pool"
    PROVE  ReadTypes' /\ Reading' /\ OneRevision' /\ StablePathServed'
<1>0. ReadTypes /\ Reading /\ OneRevision /\ StablePathServed
  BY DEF ReadInv
<1>1. tip' = tip /\ \A r : KindAt(r)' = KindAt(r)
  BY DEF tip, KindAt
<1>2. ReadTypes'
  BY <1>0, <1>1 DEF ReadTypes
<1>3. Reading'
  BY <1>0, <1>1 DEF Reading, Seen
<1>4. OneRevision' /\ StablePathServed'
  BY <1>0, <1>1 DEF OneRevision, StablePathServed
<1> QED
  BY <1>2, <1>3, <1>4

\* The next request starts with nothing found.
LEMMA AskReads ==
    ASSUME ReadInv, NEW p \in Page, Ask(p) \/ BadRequest(p)
    PROVE  ReadTypes' /\ Reading' /\ OneRevision' /\ StablePathServed'
<1>0. ReadTypes
  BY DEF ReadInv
<1>1. /\ UNCHANGED history /\ found' = NoNode /\ since' = tip /\ fault' = FALSE
      /\ \/ pc' = "base" /\ out' = NoReply
         \/ /\ pc' = "done"
            /\ out' = [code |-> IF p = "release" THEN 303 ELSE 400, about |-> "request",
                       rev |-> 0, shows |-> "none"]
  BY DEF Ask, BadRequest, Respond, NoNode
<1>2. tip' = tip /\ tip \in Nat /\ MaxRev \in Nat
  BY <1>0, <1>1, TipTypes DEF tip
<1>3. ReadTypes'
  <2>1. out' \in Reply \cup {NoReply}
    BY <1>1, <1>2 DEF Reply, Kind, About
  <2>2. NoNode \in Node /\ NoNode.rev <= tip
    BY <1>2 DEF NoNode, Node, Kind
  <2>3. history' \in Seq(Kind) /\ tip' <= MaxRev /\ since' \in 0..tip'
    BY <1>0, <1>1, <1>2 DEF ReadTypes
  <2>5. fault' \in BOOLEAN
    BY <1>1, Zenon
  <2>4. found' \in Node /\ found'.rev <= tip'
    BY <1>1, <1>2, <2>2
  <2> QED
    BY <2>1, <2>3, <2>4, <2>5 DEF ReadTypes
<1>4. out' = NoReply \/ (out'.about = "request" /\ out'.code # 200)
  BY <1>1
<1>5. pc' \in {"base", "done"}
  BY <1>1
<1>6. Reading'
  BY <1>5 DEF Reading
<1>7. OneRevision' /\ StablePathServed'
  BY <1>4 DEF OneRevision, StablePathServed
<1> QED
  BY <1>3, <1>6, <1>7

\* The steps of the handlers.
LEMMA HandlerReads ==
    ASSUME ReadInv, HandlerStep
    PROVE  ReadTypes' /\ Reading' /\ OneRevision' /\ StablePathServed'
<1> DEFINE Goal == ReadTypes' /\ Reading' /\ OneRevision' /\ StablePathServed'
<1>0. ReadTypes /\ Control /\ Reading
  BY DEF ReadInv
<1>a. /\ found \in Node /\ found.rev <= tip /\ NoNode \in Node
      /\ found.rev \in Nat /\ tip \in Nat /\ since \in Nat /\ since <= tip
      /\ tip \in since..tip /\ KindAt(tip) \in Kind
      /\ \A kind \in Kind : [rev |-> tip, kind |-> kind] \in Node
  BY <1>0, TipTypes DEF ReadTypes, Node
<1>b. /\ "dir" \in Kind /\ About = {"page", "request", "repo", "branch", "path",
                                   "commit", "call"}
      /\ Ends \subseteq {"none", "dir"} /\ "none" \in Ends
      /\ page = "tree" => Ends = {"none"}
  BY DEF Kind, About, Ends
<1> HIDE DEF Goal
<1>1. ASSUME NEW step, CallReturns(step) PROVE Goal
  <2>1. pc = step /\ GoTo(Then(step), found) /\ step \in Plain \ {"overlay"}
    BY <1>1 DEF CallReturns, Advance
  <2>2. /\ Then(step) \notin {"listing", "content", "read", "overlay"}
        /\ page \in {"tree", "raw"} => Then(step) # "done"
        /\ page \in {"repo", "root"} /\ Then(step) \in {"readme", "done"}
              => found.rev \in since..tip
    BY <1>0, <2>1, ThenIs, Pages DEF Control, Plain, Optional, Reading
  <2> QED
    BY <1>a, <2>1, <2>2, Gone DEF Goal
<1>2. ASSUME NEW step, CallFails(step) PROVE Goal
  <2>1. /\ pc' = "done" /\ fault' = TRUE /\ UNCHANGED <<history, page, found, since>>
        /\ \E code \in {303, 403, 502} :
             out' = [code |-> code, about |-> "call", rev |-> 0, shows |-> "none"]
    BY <1>2 DEF CallFails, Respond, NoNode
  <2>2. out' \in Reply /\ out'.code # 200
    BY <1>0, <2>1, TipTypes DEF Reply, Kind, About
  <2>3. tip' = tip
    BY <2>1 DEF tip
  <2>4. ReadTypes'
    BY <1>0, <2>1, <2>2, <2>3 DEF ReadTypes
  <2> QED
    BY <2>1, <2>2, <2>4 DEF Goal, Reading, OneRevision, StablePathServed
<1>3. ASSUME NEW step, NotFound(step) PROVE Goal
  <2>1. CASE Refuse(404, "repo") \/ Refuse(404, "branch")
    BY <1>b, <2>1, Refused DEF Goal
  <2>2. CASE pc = "branch" /\ page = "repo" /\ Advance("branch")
    <3>1. GoTo("branches", found)
      BY <2>2, ThenIs DEF Advance
    <3> QED
      BY <1>a, <2>2, <3>1, Gone DEF Goal
  <2>3. CASE pc = "info" /\ Refuse(404, "commit")
    <3>1. page \notin {"tree", "raw"}
      BY <1>0, <2>3, Pages DEF Control
    <3> QED
      BY <1>b, <2>3, <3>1, Refused DEF Goal
  <2> QED
    BY <1>3, <2>1, <2>2, <2>3 DEF NotFound
<1>4. CASE FindPath
  <2>1. pc = "path" /\ page \in {"tree", "raw"}
    BY <1>0, <1>4, Pages DEF FindPath, Control
  <2>2. CASE (~ParentListed \/ KindAt(tip) \in Ends) /\ Refuse(404, "path")
    <3>1. KindAt(tip) \in Ends
      BY <1>a, <1>b, <2>2 DEF ParentListed, KindAt
    <3> QED
      BY <1>b, <2>2, <3>1, Refused DEF Goal
  <2>3. CASE /\ KindAt(tip) \notin Ends
             /\ GoTo(IF KindAt(tip) = "dir" THEN "listing" ELSE "content",
                     [rev |-> tip, kind |-> KindAt(tip)])
    <3>1. PICK node : node = [rev |-> tip, kind |-> KindAt(tip)]
      OBVIOUS
    <3>2. PICK to : to = IF KindAt(tip) = "dir" THEN "listing" ELSE "content"
      OBVIOUS
    <3>3. /\ node \in Node /\ node.rev = tip /\ node.kind = KindAt(tip)
          /\ to = "listing" => node.kind = "dir"
          /\ to = "content" => node.kind \in {"text", "opaque"}
          /\ to \in {"listing", "content"}
          /\ GoTo(to, node)
      BY <1>a, <1>b, <2>3, <3>1, <3>2 DEF Kind
    <3>4. Seen(node) /\ node.rev <= tip
      BY <1>a, <3>3 DEF Seen
    <3> QED
      BY <2>1, <3>3, <3>4, Gone DEF Goal
  <2> QED
    BY <1>4, <2>2, <2>3 DEF FindPath, Ends
<1>5. CASE ListDir
  <2>1. pc = "listing" /\ page = "tree" /\ found.kind = "dir" /\ Seen(found)
    BY <1>0, <1>5, Pages DEF ListDir, Control, Reading
  <2>2. Stable => KindAt(tip) = "dir"
    BY <2>1 DEF Stable, Seen
  <2>3. CASE ListPath = "ok" /\ GoTo("overlay", [rev |-> tip, kind |-> "dir"])
    <3>1. PICK node : node = [rev |-> tip, kind |-> "dir"]
      OBVIOUS
    <3>2. KindAt(tip) = "dir"
      BY <2>3 DEF ListPath
    <3>3. node \in Node /\ node.rev = tip /\ node.kind = "dir"
      BY <1>a, <1>b, <3>1
    <3>4. Seen(node) /\ node.rev <= tip
      BY <1>a, <3>2, <3>3 DEF Seen
    <3> QED
      BY <2>1, <2>3, <3>1, <3>3, <3>4, Gone DEF Goal
  <2>4. CASE ListPath # "ok" /\ (Refuse(404, "path") \/ Refuse(502, "call"))
    <3>1. ~Stable
      BY <2>2, <2>4 DEF ListPath
    <3> QED
      BY <1>b, <2>4, <3>1, Refused DEF Goal
  <2> QED
    BY <1>5, <2>3, <2>4 DEF ListDir
<1>6. CASE ListRoot
  <2>1. pc = "root" /\ page \in {"repo", "root"}
    BY <1>0, <1>6, Pages DEF ListRoot, Control
  <2>2. CASE GoTo("overlay", [rev |-> tip, kind |-> "dir"])
    <3>1. PICK node : node = [rev |-> tip, kind |-> "dir"]
      OBVIOUS
    <3>2. node \in Node /\ node.rev = tip /\ node.rev <= tip
      BY <1>a, <1>b, <3>1
    <3> QED
      BY <1>a, <2>1, <2>2, <3>1, <3>2, Gone DEF Goal
  <2>3. CASE tip = 0 /\ (GoTo("done", NoNode) \/ GoTo("overlay", NoNode))
    <3>1. NoNode.rev = 0 /\ 0 \in since..tip /\ NoNode.rev <= tip
      BY <1>a, <2>3 DEF NoNode
    <3> QED
      BY <1>a, <2>1, <2>3, <3>1, Gone DEF Goal
  <2>4. CASE Refuse(404, "path")
    BY <1>b, <2>1, <2>4, Refused DEF Goal
  <2> QED
    BY <1>6, <2>2, <2>3, <2>4 DEF ListRoot
<1>7. CASE Overlay
  <2>1. pc = "overlay" /\ page \in {"repo", "root", "tree"}
    BY <1>0, <1>7, Pages DEF Overlay, Control
  <2>2. /\ page = "tree" => Seen(found)
        /\ page \in {"repo", "root"} => found.rev \in since..tip
    BY <1>0, <2>1 DEF Reading
  <2>3. CASE page = "tree" /\ found.kind # "dir" /\ GoTo("read", found)
    <3>1. found.kind \in {"text", "opaque"}
      <4>1. found.kind # "none"
        BY <1>0, <2>1, <2>3 DEF Reading
      <4> QED
        BY <1>a, <2>3, <4>1 DEF Node, Kind
    <3> QED
      BY <1>a, <2>2, <2>3, <3>1, Gone DEF Goal
  <2>4. CASE ~(page = "tree" /\ found.kind # "dir") /\ GoTo(Then("overlay"), found)
    <3>1. Then("overlay") \in {"readme", "done"}
      BY <2>1, ThenIs
    <3>2. page = "tree" => found.kind \notin Ends
      BY <1>b, <2>4
    <3> QED
      BY <1>a, <2>1, <2>2, <2>4, <3>1, <3>2, Gone DEF Goal
  <2> QED
    BY <1>7, <2>3, <2>4 DEF Overlay, Advance
<1>8. CASE FetchContent
  <2>1. pc = "content" /\ page \in {"tree", "raw"}
    BY <1>0, <1>8, Pages DEF FetchContent, Control
  <2>2. Seen(found) /\ found.kind \in {"text", "opaque"}
    BY <1>0, <2>1 DEF Reading
  <2>3. Fetched(found) = found
    BY <1>a, <2>2 DEF Fetched, Seen, Node
  <2>4. found.kind \notin Ends
    BY <1>b, <2>2
  <2>5. PICK to : to = IF page = "raw" THEN "done" ELSE "overlay"
    OBVIOUS
  <2>6. GoTo(to, found) /\ to \in {"done", "overlay"}
    BY <1>8, <2>3, <2>5 DEF FetchContent
  <2> QED
    BY <1>a, <2>1, <2>2, <2>4, <2>6, Gone DEF Goal
<1>9. CASE ReadFile
  <2>1. pc = "read" /\ page = "tree" /\ GoTo("done", found)
    BY <1>0, <1>9, Pages DEF ReadFile, Control
  <2>2. Seen(found) /\ found.kind \in {"text", "opaque"}
    BY <1>0, <2>1 DEF Reading
  <2>3. found.kind \notin Ends
    BY <1>b, <2>2
  <2> QED
    BY <1>a, <2>1, <2>2, <2>3, Gone DEF Goal
<1>10. CASE NoRevisions \/ NoDiff \/ Wait
  <2>1. page \in {"commits", "commit"}
    BY <1>0, <1>10, Pages DEF NoRevisions, NoDiff, Wait, Control
  <2>2. GoTo("done", found) \/ Refuse(400, "request")
    BY <1>10 DEF NoRevisions, NoDiff, Wait
  <2>3. CASE GoTo("done", found)
    BY <1>a, <2>1, <2>3, Gone DEF Goal
  <2>4. CASE Refuse(400, "request")
    BY <1>b, <2>1, <2>4, Refused DEF Goal
  <2> QED
    BY <2>2, <2>3, <2>4
<1>11. ASSUME (\E sigs : ListRevisions(sigs)) \/ \E entries : RevisionDiff(entries)
       PROVE  Goal
  <2>1. UNCHANGED <<history, page, found, out, since, fault>> /\ pc' = "pool"
    BY <1>11 DEF ListRevisions, RevisionDiff, FanOut
  <2> QED
    BY <2>1, NotRead DEF Goal
<1> QED
  BY <1>1, <1>2, <1>3, <1>4, <1>5, <1>6, <1>7, <1>8, <1>9, <1>10, <1>11
     DEF HandlerStep, Goal

LEMMA ReadStep == ReadInv /\ [Next]_vars => ReadInv'
<1> SUFFICES ASSUME ReadInv, [Next]_vars
             PROVE  ReadTypes' /\ Reading' /\ OneRevision' /\ StablePathServed'
  BY ControlStep DEF ReadInv
<1>1. CASE \E p \in Page : Ask(p) \/ BadRequest(p)
  BY <1>1, AskReads
<1>2. CASE \E kind \in Kind : Push(kind)
  BY <1>2, PushReads
<1>3. CASE HandlerStep
  BY <1>3, HandlerReads
<1>4. CASE PoolStep \/ UNCHANGED vars
  <2>1. UNCHANGED <<history, page, pc, found, out, since, fault>>
    BY <1>4, PoolStepKeeps DEF vars
  <2> QED
    BY <2>1, NotRead
<1> QED
  BY <1>1, <1>2, <1>3, <1>4, NextIs

LEMMA ReadInit == Init => ReadInv
<1> SUFFICES ASSUME Init PROVE ReadInv
  OBVIOUS
<1>1. /\ history = <<>> /\ page = "list" /\ pc = "done" /\ found = NoNode
      /\ out = NoReply /\ since = 0 /\ fault = FALSE
  BY DEF Init
<1>2. tip = 0 /\ history \in Seq(Kind) /\ MaxRev \in Nat
  BY <1>1, BrowseConstants DEF tip
<1>3. NoNode \in Node /\ NoNode.rev = 0
  BY <1>2 DEF NoNode, Node, Kind
<1>4. ReadTypes
  <2>1. fault \in BOOLEAN /\ out \in Reply \cup {NoReply} /\ found \in Node
    BY <1>1, <1>3, Zenon
  <2> QED
    BY <1>1, <1>2, <1>3, <2>1 DEF ReadTypes
<1>5. Control
  BY <1>1, Pages DEF Control
<1> QED
  BY <1>1, <1>4, <1>5 DEF ReadInv, Reading, OneRevision, StablePathServed

LEMMA ReadInvariant == Spec => []ReadInv
BY ReadInit, ReadStep, PTL DEF Spec

\* Whatever is pushed between two calls of a handler, a page that is served shows
\* one revision that was the tip while it was served, and what the path was there
\* (tree.go, repo.go).
THEOREM OneRevisionCorrect == Spec => []OneRevision
<1>1. ReadInv => OneRevision
  BY DEF ReadInv
<1> QED
  BY <1>1, ReadInvariant, PTL

\* A path that stays what it is while it is asked for is shown, or said not to be
\* found, unless a call fails (tree.go: the parent is listed, then the path).
THEOREM StablePathCorrect == Spec => []StablePathServed
<1>1. ReadInv => StablePathServed
  BY DEF ReadInv
<1> QED
  BY <1>1, ReadInvariant, PTL

-----------------------------------------------------------------------------
(* The fan-out: what the workers have written, and what they still owe.    *)

PoolShape ==
    /\ items \in Seq(Signature \cup Entry)
    /\ page = "commit" => \A i \in DOMAIN items : items[i] \in Entry /\ IsChange(items[i])
    /\ next \in Nat /\ 1 <= next /\ next <= Len(items) + 1
    /\ slots \subseteq open
    /\ \A i \in open : i \in Nat /\ 1 <= i /\ i < next
    /\ IsFiniteSet(slots) /\ Cardinality(slots) <= Workers
    /\ DOMAIN rows = DOMAIN items
    /\ lost \subseteq DOMAIN items
    /\ pc # "pool" => open = {} /\ next = Len(items) + 1

\* A row of the loop's past that is not written has a worker that holds a slot.
PoolRows ==
    /\ \A i \in DOMAIN items : i < next /\ rows[i] = NoRow => i \in slots
    /\ \A i \in DOMAIN items : rows[i] # NoRow => HonestRow(i)
    /\ \A i \in lost : rows[i] # NoRow

PoolInv == PoolShape /\ PoolRows /\ Complete

\* The row of a changed file: true when every call succeeded, and otherwise with
\* nothing on a side but its own contents.
LEMMA DiffRow ==
    ASSUME NEW e \in Entry, IsChange(e), NEW ok \in [Calls -> BOOLEAN]
    PROVE  /\ resolveFileDiff(e, ok).item = e
           /\ resolveFileDiff(e, ok) # NoRow
           /\ (\A c \in Calls : ok[c]) => resolveFileDiff(e, ok) = TrueRow(e)
           /\ resolveFileDiff(e, ok).from \in {"none", e.from}
           /\ resolveFileDiff(e, ok).to \in {"none", e.to}
<1>1. ParentTree(e)[FromPath(e)] = e.from
  BY DEF ParentTree, FromPath
<1>2. PICK to : to = FetchContentBytes(recoverAddress(e, e.to, ok["toTree"]), ok["toBlob"])
  OBVIOUS
<1>3. PICK from : from = FetchContentBytes(recoverAddress(e, e.from, ok["fromTree"]),
                                           ok["fromBlob"])
  OBVIOUS
<1>4. to \in {"none", e.to} /\ from \in {"none", e.from}
  BY <1>2, <1>3 DEF FetchContentBytes, recoverAddress
<1>5. resolveFileDiff(e, ok) =
         IF "binary" \in {to, from} THEN Row(e, "binary", "none", "none")
         ELSE IF "large" \in {to, from} \/ to = from \/ ~ ok["parse"]
              THEN Row(e, "listed", "none", "none")
              ELSE Row(e, "hunks", from, to)
  BY <1>1, <1>2, <1>3 DEF resolveFileDiff
<1>6. PICK r : r = resolveFileDiff(e, ok)
  OBVIOUS
<1>7. \/ r = Row(e, "binary", "none", "none")
      \/ r = Row(e, "listed", "none", "none")
      \/ r = Row(e, "hunks", from, to)
  BY <1>5, <1>6
<1>8. r.item = e /\ r.from \in {"none", e.from} /\ r.to \in {"none", e.to}
  BY <1>4, <1>7 DEF Row
<1>9. r.kind # NoRow.kind
  BY <1>7 DEF Row, NoRow
<1>10. ASSUME \A c \in Calls : ok[c] PROVE r = TrueRow(e)
  <2>1. ok["toTree"] /\ ok["fromTree"] /\ ok["toBlob"] /\ ok["fromBlob"] /\ ok["parse"]
    BY <1>10 DEF Calls
  <2>2. CASE e.node = "file"
    <3>1. to = e.to /\ from = e.from
      BY <1>2, <1>3, <2>1, <2>2 DEF FetchContentBytes, recoverAddress
    <3> QED
      BY <1>5, <1>6, <2>1, <2>2, <3>1 DEF TrueRow
  <2>3. CASE e.node = "link"
    <3>1. to = "none" /\ from = "none"
      BY <1>2, <1>3, <2>3 DEF FetchContentBytes, recoverAddress
    <3> QED
      BY <1>5, <1>6, <2>3, <3>1 DEF TrueRow
  <2> QED
    BY <2>2, <2>3 DEF IsChange
<1> QED
  BY <1>6, <1>8, <1>9, <1>10

\* A request starts with an empty fan-out, and a fan-out with no rows.
LEMMA StartEmpty ==
    ASSUME StartPool(<<>>, <<>>) PROVE PoolInv'
<1>1. /\ items' = <<>> /\ answer' = <<>> /\ next' = 1 /\ slots' = {} /\ open' = {}
      /\ lost' = {} /\ DOMAIN rows' = DOMAIN items' /\ DOMAIN items' = {}
      /\ DOMAIN answer' = {}
  BY DEF StartPool
<1>2. IsFiniteSet({}) /\ Cardinality({}) = 0 /\ Workers \in Nat
  BY FS_EmptySet, BrowseConstants
<1>3. items' \in Seq(Signature \cup Entry) /\ Len(items') = 0
  BY <1>1
<1>4. PoolShape'
  BY <1>1, <1>2, <1>3 DEF PoolShape
<1>5. PoolRows'
  BY <1>1 DEF PoolRows
<1>6. Complete'
  <2>1. [i \in {} |-> 0] \in [DOMAIN items' -> DOMAIN answer']
    BY <1>1
  <2>2. ToSet(items') = ToSet(answer')
    BY <1>1 DEF ToSet
  <2> QED
    BY <1>1, <2>1, <2>2 DEF Complete, Subsequence
<1> QED
  BY <1>4, <1>5, <1>6 DEF PoolInv

LEMMA StartShape ==
    ASSUME NEW seq \in Seq(Signature \cup Entry), NEW raw, FanOut(seq, raw),
           page = "commit" => \A i \in DOMAIN seq : seq[i] \in Entry /\ IsChange(seq[i])
    PROVE  /\ PoolShape' /\ PoolRows'
           /\ items' = seq /\ answer' = raw /\ page' = page
<1>1. /\ items' = seq /\ answer' = raw /\ page' = page /\ pc' = "pool"
      /\ next' = 1 /\ slots' = {} /\ open' = {} /\ lost' = {}
      /\ rows' = [i \in DOMAIN seq |-> NoRow]
  BY DEF FanOut, StartPool
<1>2. IsFiniteSet({}) /\ Cardinality({}) = 0 /\ Workers \in Nat
  BY FS_EmptySet, BrowseConstants
<1>3. Len(seq) \in Nat /\ DOMAIN seq = 1..Len(seq)
  OBVIOUS
<1>4. PoolShape'
  BY <1>1, <1>2, <1>3 DEF PoolShape
<1>5. PoolRows'
  BY <1>1, <1>3 DEF PoolRows
<1> QED
  BY <1>1, <1>4, <1>5

\* What is listed: each signature of the page of history once, up to the ceiling.
LEMMA RevisionsPool ==
    ASSUME Control, NEW sigs \in Listings, ListRevisions(sigs) PROVE PoolInv'
<1>1. page = "commits"
  BY Pages DEF Control, ListRevisions
<1>2. sigs \in Seq(Signature) /\ MaxRows \in Nat
  BY BrowseConstants
<1>3. PICK d : d = dedupBySignature(sigs)
  OBVIOUS
<1>4. /\ d \in Seq(Signature)
      /\ \A i, j \in DOMAIN d : d[i] = d[j] => i = j
      /\ \A p \in DOMAIN sigs : \E i \in DOMAIN d : d[i] = sigs[p]
  BY <1>2, <1>3, DedupProperties
<1>5. PICK at \in [DOMAIN d -> DOMAIN sigs] :
         /\ \A i \in DOMAIN d : d[i] = sigs[at[i]]
         /\ \A i, j \in DOMAIN d : i < j => at[i] < at[j]
  BY <1>2, <1>3, DedupProperties
<1>6. PICK c : c = Capped(d)
  OBVIOUS
<1>7. /\ c \in Seq(Signature) /\ Len(c) <= Len(d)
      /\ Len(c) = Len(d) \/ Len(c) = MaxRows
      /\ \A i \in 1..Len(c) : c[i] = d[i]
  BY <1>4, <1>6, CappedProperties
<1>8. DOMAIN c \subseteq DOMAIN d /\ \A i \in DOMAIN c : c[i] = d[i]
  <2>1. /\ DOMAIN c = 1..Len(c) /\ Len(c) \in Nat
        /\ DOMAIN d = 1..Len(d) /\ Len(d) \in Nat
    BY <1>4, <1>7
  <2>2. \A i \in 1..Len(c) : i \in 1..Len(d)
    <3>1. Len(c) <= Len(d)
      BY <1>7
    <3>2. \A m, n \in Nat : m <= n => \A i \in 1..m : i \in 1..n
      OBVIOUS
    <3> QED
      BY <2>1, <3>1, <3>2
  <2> QED
    BY <1>7, <2>1, <2>2
<1>9. FanOut(c, sigs)
  BY <1>3, <1>6 DEF ListRevisions
<1>10. c \in Seq(Signature \cup Entry)
  BY <1>7
<1>11. PoolShape' /\ PoolRows' /\ items' = c /\ answer' = sigs /\ page' = "commits"
  BY <1>1, <1>9, <1>10, StartShape
<1>12. PICK cut : cut = [i \in DOMAIN c |-> at[i]]
  OBVIOUS
<1>13. /\ cut \in [DOMAIN c -> DOMAIN sigs]
       /\ \A i \in DOMAIN c : c[i] = sigs[cut[i]]
       /\ \A i, j \in DOMAIN c : i < j => cut[i] < cut[j]
  BY <1>5, <1>8, <1>12
<1>14. \A i, j \in DOMAIN c : c[i] = c[j] => i = j
  BY <1>4, <1>8
<1>15. ToSet(c) = ToSet(sigs) \/ Len(c) = MaxRows
  <2>1. CASE Len(c) = Len(d)
    <3>1. DOMAIN c = DOMAIN d
      BY <1>4, <1>7, <2>1
    <3>2. \A p \in DOMAIN sigs : \E i \in DOMAIN c : c[i] = sigs[p]
      BY <1>4, <1>8, <3>1
    <3> QED
      BY <1>13, <3>2 DEF ToSet
  <2> QED
    BY <1>7, <2>1
<1>16. Complete'
  BY <1>11, <1>13, <1>14, <1>15 DEF Complete, Subsequence
<1> QED
  BY <1>11, <1>16 DEF PoolInv

\* What is diffed: exactly the changed paths.
LEMMA DiffPool ==
    ASSUME Control, NEW entries \in Diffs, RevisionDiff(entries) PROVE PoolInv'
<1>1. page = "commit"
  BY Pages DEF Control, RevisionDiff
<1>2. entries \in Seq(Entry)
  BY BrowseConstants
<1>3. PICK d : d = Changes(entries)
  OBVIOUS
<1>4. PICK at \in [DOMAIN d -> DOMAIN entries] :
         /\ \A i \in DOMAIN d : d[i] = entries[at[i]]
         /\ \A i, j \in DOMAIN d : i < j => at[i] < at[j]
         /\ \A p \in DOMAIN entries :
               IsChange(entries[p]) <=> \E i \in DOMAIN d : at[i] = p
  BY <1>2, <1>3, ChangesProperties
<1>5. d \in Seq(Entry)
  BY <1>2, <1>3, ChangesProperties
<1>6. \A i \in DOMAIN d : d[i] \in Entry /\ IsChange(d[i])
  <2>1. \A i \in DOMAIN d : IsChange(entries[at[i]])
    BY <1>4
  <2> QED
    BY <1>4, <1>5, <2>1
<1>7. d \in Seq(Signature \cup Entry)
  BY <1>5
<1>8. FanOut(d, entries)
  BY <1>3 DEF RevisionDiff
<1>9. PoolShape' /\ PoolRows' /\ items' = d /\ answer' = entries /\ page' = "commit"
  BY <1>1, <1>6, <1>7, <1>8, StartShape
<1>10. \A p \in DOMAIN entries : IsChange(entries[p]) <=> PathChanged(entries[p])
  <2>1. \A e \in Entry : e.action \in {"keep", "add", "delete", "move", "copy"}
    BY DEF Entry
  <2>2. \A e \in Entry : IsChange(e) <=> PathChanged(e)
    BY <2>1 DEF IsChange, PathChanged
  <2>3. \A p \in DOMAIN entries : entries[p] \in Entry
    BY <1>2
  <2> QED
    BY <2>2, <2>3
<1>11. \A p \in DOMAIN entries : PathChanged(entries[p]) <=> \E i \in DOMAIN d : at[i] = p
  BY <1>4, <1>10
<1>12. Complete'
  BY <1>4, <1>9, <1>11 DEF Complete, Subsequence
<1> QED
  BY <1>9, <1>12 DEF PoolInv

\* The steps outside the fan-out leave it alone, and only Wait leaves it.
LEMMA OutsidePool ==
    ASSUME PoolInv, UNCHANGED pool, UNCHANGED page,
           pc' = pc \/ pc # "pool" \/ (open = {} /\ next = Len(items) + 1)
    PROVE  PoolInv'
<1>1. /\ UNCHANGED <<items, next, slots, open, rows, answer, lost>>
  BY DEF pool
<1>2. PoolShape'
  BY <1>1 DEF PoolInv, PoolShape
<1>3. \A i : HonestRow(i)' <=> HonestRow(i)
  BY <1>1 DEF HonestRow
<1>4. PoolRows'
  BY <1>1, <1>3 DEF PoolInv, PoolRows
<1>5. Complete'
  BY <1>1 DEF PoolInv, Complete, Subsequence
<1> QED
  BY <1>2, <1>4, <1>5 DEF PoolInv

LEMMA HandlerPool ==
    ASSUME PoolInv, Control, HandlerStep PROVE PoolInv'
<1>1. ASSUME NEW step, CallReturns(step) \/ CallFails(step) \/ NotFound(step)
      PROVE  UNCHANGED pool /\ UNCHANGED page /\ pc # "pool"
  <2>1. CASE CallReturns(step)
    BY <2>1, GoToDoes DEF CallReturns, Advance, Plain, Optional
  <2>2. CASE CallFails(step)
    BY <2>2 DEF CallFails
  <2>3. CASE NotFound(step)
    BY <2>3, GoToDoes DEF NotFound, Refuse, Advance
  <2> QED
    BY <1>1, <2>1, <2>2, <2>3
<1>2. ASSUME FindPath \/ ListDir \/ ListRoot \/ Overlay \/ FetchContent \/ ReadFile
               \/ NoRevisions \/ NoDiff
      PROVE  UNCHANGED pool /\ UNCHANGED page /\ pc # "pool"
  BY <1>2, GoToDoes DEF FindPath, ListDir, ListRoot, Overlay, FetchContent, ReadFile,
                        NoRevisions, NoDiff, Refuse, Advance
<1>3. ASSUME Wait
      PROVE  UNCHANGED pool /\ UNCHANGED page /\ open = {} /\ next = Len(items) + 1
  <2>1. UNCHANGED pool /\ UNCHANGED page /\ open = {} /\ next > Len(items)
    BY <1>3, GoToDoes DEF Wait
  <2>2. next \in Nat /\ Len(items) \in Nat /\ next <= Len(items) + 1
    BY DEF PoolInv, PoolShape
  <2> QED
    BY <2>1, <2>2
<1> QED
  BY <1>1, <1>2, <1>3, OutsidePool, RevisionsPool, DiffPool DEF HandlerStep

\* The steps of the fan-out.  HonestRow(i) survives a step that leaves the row i
\* and its calls alone.
LEMMA HonestKept ==
    ASSUME NEW i, HonestRow(i), UNCHANGED <<items, page>>, rows'[i] = rows[i],
           i \in lost' <=> i \in lost
    PROVE  HonestRow(i)'
BY DEF HonestRow

LEMMA SpawnPool ==
    ASSUME PoolInv, Spawn PROVE PoolInv'
<1>1. /\ pc = "pool" /\ next <= Len(items) /\ Cardinality(slots) < Workers
      /\ slots' = slots \cup {next} /\ open' = open \cup {next} /\ next' = next + 1
      /\ UNCHANGED <<page, pc, items, rows, answer, lost>>
  BY DEF Spawn, Filling, SlotFree
<1>2. PoolShape /\ PoolRows /\ Complete
  BY DEF PoolInv
<1>3. /\ next \in Nat /\ 1 <= next /\ Len(items) \in Nat
      /\ DOMAIN items = 1..Len(items) /\ Workers \in Nat
  BY <1>2, BrowseConstants DEF PoolShape
<1>4. /\ IsFiniteSet(slots') /\ Cardinality(slots') <= Workers
  <2>1. IsFiniteSet(slots) /\ Cardinality(slots) \in Nat /\ next \notin slots
    BY <1>2, <1>3, FS_CardinalityType DEF PoolShape
  <2>2. IsFiniteSet(slots') /\ Cardinality(slots') = Cardinality(slots) + 1
    BY <1>1, <2>1, FS_AddElement
  <2> QED
    BY <1>1, <1>3, <2>1, <2>2
<1>5. PoolShape'
  <2>1. \A i \in open' : i \in Nat /\ 1 <= i /\ i < next'
    BY <1>1, <1>2, <1>3 DEF PoolShape
  <2>2. next' \in Nat /\ 1 <= next' /\ next' <= Len(items) + 1
    BY <1>1, <1>3
  <2> QED
    BY <1>1, <1>2, <1>4, <2>1, <2>2 DEF PoolShape
<1>6. PoolRows'
  <2>1. \A i \in DOMAIN items : i < next' => i < next \/ i = next
    BY <1>1, <1>3
  <2>2. \A i : HonestRow(i) => HonestRow(i)'
    BY <1>1, HonestKept
  <2> QED
    BY <1>1, <1>2, <2>1, <2>2 DEF PoolRows
<1>7. Complete'
  BY <1>1, <1>2 DEF Complete, Subsequence
<1> QED
  BY <1>5, <1>6, <1>7 DEF PoolInv

LEMMA ListOnlyPool ==
    ASSUME PoolInv, ListOnly PROVE PoolInv'
<1>1. /\ pc = "pool" /\ next <= Len(items) /\ page = "commit" /\ next > MaxInline
      /\ rows' = [rows EXCEPT ![next] = Row(items[next], "listed", "none", "none")]
      /\ next' = next + 1
      /\ UNCHANGED <<page, pc, items, slots, open, answer, lost>>
  BY DEF ListOnly, Filling, PastCap
<1>2. PoolShape /\ PoolRows /\ Complete
  BY DEF PoolInv
<1>3. /\ next \in Nat /\ 1 <= next /\ Len(items) \in Nat
      /\ DOMAIN items = 1..Len(items) /\ next \in DOMAIN items
      /\ DOMAIN rows = DOMAIN items
  BY <1>1, <1>2 DEF PoolShape
<1>4. PoolShape'
  <2>1. \A i \in open' : i \in Nat /\ 1 <= i /\ i < next'
    BY <1>1, <1>2, <1>3 DEF PoolShape
  <2>2. next' \in Nat /\ 1 <= next' /\ next' <= Len(items) + 1 /\ DOMAIN rows' = DOMAIN rows
    BY <1>1, <1>3
  <2> QED
    BY <1>1, <1>2, <2>1, <2>2 DEF PoolShape
<1>a. PICK n : n = next
  OBVIOUS
<1>5. rows'[n].item = items[n] /\ rows'[n].kind = "listed"
  BY <1>1, <1>3, <1>a DEF Row
<1>6. HonestRow(n)' /\ rows'[n] # NoRow
  <2>1. rows'[n].kind # NoRow.kind
    BY <1>5 DEF NoRow
  <2>2. n > MaxInline /\ page' = "commit" /\ items' = items
    BY <1>1, <1>a
  <2>3. HonestRow(n)'
    BY <1>5, <2>2 DEF HonestRow
  <2> QED
    BY <2>1, <2>3
<1>7. \A i \in DOMAIN items : i # n => rows'[i] = rows[i]
  BY <1>1, <1>3, <1>a
<1>8. \A i \in DOMAIN items : i # n /\ HonestRow(i) => HonestRow(i)'
  BY <1>1, <1>7, HonestKept
<1>9. PoolRows'
  <2>1. \A i \in DOMAIN items : i < next' => i < next \/ i = n
    BY <1>1, <1>3, <1>a
  <2>2. lost \subseteq DOMAIN items
    BY <1>2 DEF PoolShape
  <2> QED
    BY <1>1, <1>2, <1>6, <1>7, <1>8, <2>1, <2>2 DEF PoolRows
<1>10. Complete'
  BY <1>1, <1>2 DEF Complete, Subsequence
<1> QED
  BY <1>4, <1>9, <1>10 DEF PoolInv

\* A worker that writes an honest row.
LEMMA WritePool ==
    ASSUME PoolInv, NEW i \in slots, NEW row, NEW ok \in BOOLEAN, Write(i, row, ok),
           rows[i] = NoRow, row # NoRow,
           rows'[i] = row /\ (i \in lost' <=> ~ok) => HonestRow(i)'
    PROVE  PoolInv'
<1>1. /\ rows' = [rows EXCEPT ![i] = row]
      /\ lost' = IF ok THEN lost ELSE lost \cup {i}
      /\ UNCHANGED <<page, pc, items, next, slots, open, answer>>
  BY DEF Write
<1>2. PoolShape /\ PoolRows /\ Complete
  BY DEF PoolInv
<1>3. i \in DOMAIN items /\ DOMAIN rows = DOMAIN items /\ i \notin lost
  <2>1. i \in Nat /\ 1 <= i /\ i < next /\ next <= Len(items) + 1 /\ next \in Nat
        /\ Len(items) \in Nat /\ DOMAIN items = 1..Len(items)
    BY <1>2 DEF PoolShape
  <2> QED
    BY <1>2, <2>1 DEF PoolShape, PoolRows
<1>4. rows'[i] = row /\ (i \in lost' <=> ~ok) /\ DOMAIN rows' = DOMAIN items
  BY <1>1, <1>3
<1>5. HonestRow(i)'
  BY <1>4
<1>6. \A j \in DOMAIN items : j # i => rows'[j] = rows[j] /\ (j \in lost' <=> j \in lost)
  BY <1>1, <1>3
<1>7. PoolShape'
  <2>1. lost' \subseteq DOMAIN items
    BY <1>1, <1>2, <1>3 DEF PoolShape
  <2> QED
    BY <1>1, <1>2, <1>4, <2>1 DEF PoolShape
<1>8. PoolRows'
  <2>1. \A j \in DOMAIN items : j # i /\ HonestRow(j) => HonestRow(j)'
    BY <1>1, <1>6, HonestKept
  <2>2. \A j \in lost' : j = i \/ j \in lost
    BY <1>1
  <2>3. lost \subseteq DOMAIN items
    BY <1>2 DEF PoolShape
  <2> QED
    BY <1>1, <1>2, <1>4, <1>5, <1>6, <2>1, <2>2, <2>3 DEF PoolRows
<1>9. Complete'
  BY <1>1, <1>2 DEF Complete, Subsequence
<1> QED
  BY <1>7, <1>8, <1>9 DEF PoolInv

LEMMA WorkerPool ==
    ASSUME PoolInv, NEW i \in DOMAIN items,
           \/ \E ok \in BOOLEAN : Enrich(i, ok)
           \/ \E ok \in [Calls -> BOOLEAN] : Diff(i, ok)
    PROVE  PoolInv'
<1>1. ASSUME NEW ok \in BOOLEAN, Enrich(i, ok) PROVE PoolInv'
  <2>1. PICK row : row = Row(items[i], IF ok THEN "info" ELSE "bare", "none", "none")
    OBVIOUS
  <2>2. /\ page = "commits" /\ i \in slots /\ rows[i] = NoRow /\ Write(i, row, ok)
        /\ page' = page /\ items' = items
    BY <1>1, <2>1 DEF Enrich, Write
  <2>3. row.item = items[i] /\ row.kind = IF ok THEN "info" ELSE "bare"
    BY <2>1 DEF Row
  <2>4. row # NoRow
    BY <2>3 DEF NoRow
  <2>5. rows'[i] = row /\ (i \in lost' <=> ~ok) => HonestRow(i)'
    BY <2>2, <2>3 DEF HonestRow
  <2> QED
    BY <2>2, <2>4, <2>5, WritePool
<1>2. ASSUME NEW ok \in [Calls -> BOOLEAN], Diff(i, ok) PROVE PoolInv'
  <2>1. PICK row : row = resolveFileDiff(items[i], ok)
    OBVIOUS
  <2>2. PICK all \in BOOLEAN : all <=> \A c \in Calls : ok[c]
    OBVIOUS
  <2>3. /\ page = "commit" /\ i \in slots /\ rows[i] = NoRow
        /\ Write(i, row, \A c \in Calls : ok[c])
        /\ page' = page /\ items' = items
    BY <1>2, <2>1 DEF Diff, Write
  <2>4. Write(i, row, all)
    BY <2>2, <2>3 DEF Write
  <2>5. items[i] \in Entry /\ IsChange(items[i])
    BY <2>3 DEF PoolInv, PoolShape
  <2>6. /\ row.item = items[i] /\ row # NoRow
        /\ all => row = TrueRow(items[i])
        /\ row.from \in {"none", items[i].from} /\ row.to \in {"none", items[i].to}
    BY <2>1, <2>2, <2>5, DiffRow
  <2>7. rows'[i] = row /\ (i \in lost' <=> ~all) => HonestRow(i)'
    <3> SUFFICES ASSUME rows'[i] = row, i \in lost' <=> ~all PROVE HonestRow(i)'
      OBVIOUS
    <3>1. CASE all
      BY <2>3, <2>6, <3>1 DEF HonestRow
    <3>2. CASE ~all
      BY <2>3, <2>6, <3>2 DEF HonestRow
    <3> QED
      BY <3>1, <3>2
  <2> QED
    <3>1. row # NoRow /\ i \in slots /\ rows[i] = NoRow
      BY <2>3, <2>6
    <3> QED
      BY <2>4, <2>7, <3>1, WritePool
<1> QED
  BY <1>1, <1>2

\* A slot is given back only once the row is written.
LEMMA ReleasePool ==
    ASSUME PoolInv, NEW i, Release(i) \/ Done(i) PROVE PoolInv'
<1>1. /\ UNCHANGED <<page, pc, items, next, rows, answer, lost>>
      /\ slots' \subseteq slots /\ open' \subseteq open /\ slots' \subseteq open'
      /\ \A j \in slots : j \in slots' \/ rows[j] # NoRow
  BY DEF PoolInv, PoolShape, Release, Done
<1>2. PoolShape /\ PoolRows /\ Complete
  BY DEF PoolInv
<1>3. IsFiniteSet(slots') /\ Cardinality(slots') <= Workers
  <2>1. IsFiniteSet(slots) /\ Cardinality(slots) \in Nat /\ Workers \in Nat
        /\ Cardinality(slots) <= Workers
    BY <1>2, FS_CardinalityType, BrowseConstants DEF PoolShape
  <2>2. /\ IsFiniteSet(slots') /\ Cardinality(slots') <= Cardinality(slots)
        /\ Cardinality(slots') \in Nat
    BY <1>1, <2>1, FS_Subset, FS_CardinalityType
  <2> QED
    BY <2>1, <2>2
<1>4. PoolShape'
  BY <1>1, <1>2, <1>3 DEF PoolShape
<1>5. PoolRows'
  <2>1. \A j : HonestRow(j) => HonestRow(j)'
    BY <1>1, HonestKept
  <2> QED
    BY <1>1, <1>2, <2>1 DEF PoolRows
<1>6. Complete'
  BY <1>1, <1>2 DEF Complete, Subsequence
<1> QED
  BY <1>4, <1>5, <1>6 DEF PoolInv

BrowseInv == ReadInv /\ PoolInv /\ (out # NoReply => pc = "done")

LEMMA BrowseStep == BrowseInv /\ [Next]_vars => BrowseInv'
<1> SUFFICES ASSUME BrowseInv, [Next]_vars PROVE BrowseInv'
  OBVIOUS
<1>0. ReadInv /\ PoolInv /\ Control /\ (out # NoReply => pc = "done")
  BY DEF BrowseInv, ReadInv
<1>1. ReadInv'
  BY <1>0, ReadStep
<1>2. PoolInv'
  <2>1. CASE \E p \in Page : Ask(p) \/ BadRequest(p)
    BY <2>1, StartEmpty DEF Ask, BadRequest
  <2>2. CASE HandlerStep
    BY <1>0, <2>2, HandlerPool
  <2>3. CASE PoolStep
    BY <1>0, <2>3, SpawnPool, ListOnlyPool, WorkerPool, ReleasePool DEF PoolStep
  <2>4. CASE (\E kind \in Kind : Push(kind)) \/ UNCHANGED vars
    BY <1>0, <2>4, OutsidePool DEF Push, vars
  <2> QED
    BY <2>1, <2>2, <2>3, <2>4, NextIs
<1>3. out' # NoReply => pc' = "done"
  <2>1. CASE \E p \in Page : Ask(p) \/ BadRequest(p)
    BY <2>1 DEF Ask, BadRequest, Respond
  <2>2. CASE HandlerStep
    <3>1. pc # "done"
      BY <1>0, <2>2 DEF HandlerStep, CallReturns, CallFails, NotFound, FindPath, ListDir,
         ListRoot, Overlay, FetchContent, ReadFile, ListRevisions, RevisionDiff,
         NoRevisions, NoDiff, Wait, Plain, Optional
    <3>2. \A step, node : GoTo(step, node) => pc' = "done" \/ out' = out
      BY GoToDoes
    <3>3. pc' = "done" \/ out' = out
      BY <2>2, <3>2 DEF HandlerStep, CallReturns, CallFails, NotFound, FindPath, ListDir,
         ListRoot, Overlay, FetchContent, ReadFile, ListRevisions, RevisionDiff, FanOut,
         NoRevisions, NoDiff, Wait, Advance, Refuse, Respond
    <3> QED
      BY <1>0, <3>1, <3>3
  <2>3. CASE PoolStep \/ (\E kind \in Kind : Push(kind)) \/ UNCHANGED vars
    BY <1>0, <2>3, PoolStepKeeps DEF Push, vars
  <2> QED
    BY <2>1, <2>2, <2>3, NextIs
<1> QED
  BY <1>1, <1>2, <1>3 DEF BrowseInv

LEMMA BrowseInit == Init => BrowseInv
<1> SUFFICES ASSUME Init PROVE BrowseInv
  OBVIOUS
<1>1. /\ items = <<>> /\ answer = <<>> /\ next = 1 /\ slots = {} /\ open = {}
      /\ lost = {} /\ DOMAIN rows = DOMAIN items /\ DOMAIN items = {}
      /\ DOMAIN answer = {}
  BY DEF Init
<1>2. IsFiniteSet({}) /\ Cardinality({}) = 0 /\ Workers \in Nat
  BY FS_EmptySet, BrowseConstants
<1>3. items \in Seq(Signature \cup Entry) /\ Len(items) = 0
  BY <1>1
<1>4. PoolShape
  BY <1>1, <1>2, <1>3 DEF PoolShape
<1>5. PoolRows
  BY <1>1 DEF PoolRows
<1>6. Complete
  <2>1. [i \in {} |-> 0] \in [DOMAIN items -> DOMAIN answer]
    BY <1>1
  <2>2. ToSet(items) = ToSet(answer)
    BY <1>1 DEF ToSet
  <2> QED
    BY <1>1, <2>1, <2>2 DEF Complete, Subsequence
<1>7. out = NoReply
  BY DEF Init
<1> QED
  BY <1>4, <1>5, <1>6, <1>7, ReadInit DEF BrowseInv, PoolInv

LEMMA BrowseInvariant == Spec => []BrowseInv
BY BrowseInit, BrowseStep, PTL DEF Spec

\* When a commit page is answered every row of it has been written, and each is
\* honest, complete and in order, in whatever order the workers ended and whichever
\* of their calls failed (enrichRevisions, buildCommitDiff).
THEOREM RowsHonestCorrect == Spec => []RowsHonest
<1>1. BrowseInv => RowsHonest
  <2> SUFFICES ASSUME PoolShape, PoolRows, Complete, pc = "done"
               PROVE  \A i \in DOMAIN items : rows[i] # NoRow /\ HonestRow(i)
    BY DEF BrowseInv, PoolInv, RowsHonest
  <2>1. slots = {} /\ \A i \in DOMAIN items : i < next
    BY DEF PoolShape
  <2> QED
    BY <2>1 DEF PoolRows
<1> QED
  BY <1>1, BrowseInvariant, PTL

\* The calls a handler can be at are the calls of some handler.
LEMMA StepsAre ==
    {"base", "list", "repo", "scope", "branch", "branches", "root", "overlay", "readme",
     "path", "listing", "content", "revisions", "pool", "info", "diff", "locks",
     "exchange", "unlock", "read", "done"} \subseteq Steps
<1>1. \A p \in Page : ToSet(Route[p]) \subseteq Steps
  BY DEF Steps
<1>2. \A p \in Page : \A i \in DOMAIN Route[p] : Route[p][i] \in Steps
  BY <1>1 DEF ToSet
<1>3. \A i \in 1..2 : <<"base", "list">>[i] \in Steps
  BY <1>2, Pages DEF Route
<1>4. \A i \in DOMAIN RepoHome : RepoHome[i] \in Steps
  BY <1>2, Pages DEF Route
<1>5. \A i \in DOMAIN Tree : Tree[i] \in Steps
  BY <1>2, Pages DEF Route
<1>6. \A i \in DOMAIN Raw : Raw[i] \in Steps
  BY <1>2, Pages DEF Route
<1>7. \A i \in DOMAIN Commits : Commits[i] \in Steps
  BY <1>2, Pages DEF Route
<1>8. \A i \in DOMAIN Commit : Commit[i] \in Steps
  BY <1>2, Pages DEF Route
<1>9. \A i \in DOMAIN Locks : Locks[i] \in Steps
  BY <1>2, Pages DEF Route
<1>10. \A i \in DOMAIN ReleaseLock : ReleaseLock[i] \in Steps
  BY <1>2, Pages DEF Route
<1>11. /\ RepoHome[1] \in Steps /\ RepoHome[2] \in Steps /\ RepoHome[3] \in Steps
       /\ RepoHome[4] \in Steps /\ RepoHome[5] \in Steps /\ RepoHome[6] \in Steps
       /\ RepoHome[7] \in Steps /\ RepoHome[8] \in Steps
  BY <1>4 DEF RepoHome
<1>12. Tree[5] \in Steps /\ Tree[6] \in Steps /\ Raw[6] \in Steps
  BY <1>5, <1>6 DEF Tree, Raw
<1>13. Commits[5] \in Steps /\ Commits[6] \in Steps
  BY <1>7 DEF Commits
<1>14. Commit[4] \in Steps /\ Commit[5] \in Steps
  BY <1>8 DEF Commit
<1>15. Locks[5] \in Steps
  BY <1>9 DEF Locks
<1>16. ReleaseLock[3] \in Steps /\ ReleaseLock[4] \in Steps
  BY <1>10 DEF ReleaseLock
<1>17. "list" \in Steps
  BY <1>3
<1>18. "read" \in Steps /\ "done" \in Steps
  BY Zenon DEF Steps
<1>19. /\ "base" \in Steps /\ "repo" \in Steps /\ "scope" \in Steps /\ "branch" \in Steps
       /\ "branches" \in Steps /\ "root" \in Steps /\ "overlay" \in Steps
       /\ "readme" \in Steps
  BY <1>11 DEF RepoHome
<1>20. "path" \in Steps /\ "listing" \in Steps /\ "content" \in Steps
  BY <1>12 DEF Tree, Raw
<1>21. /\ "revisions" \in Steps /\ "pool" \in Steps /\ "info" \in Steps
       /\ "diff" \in Steps
  BY <1>13, <1>14 DEF Commits, Commit
<1>22. "locks" \in Steps /\ "exchange" \in Steps /\ "unlock" \in Steps
  BY <1>15, <1>16 DEF Locks, ReleaseLock
<1> QED
  BY <1>17, <1>18, <1>19, <1>20, <1>21, <1>22

\* Every variable has its type, and no more than Workers items are worked on at
\* once (sem of enrichRevisions and buildCommitDiff).
THEOREM BrowseTypeCorrect == Spec => []TypeOK
<1>1. Control => page \in Page /\ pc \in Steps
  BY StepsAre, Pages DEF Control
<1>2. PoolShape => /\ next \in 1..(Len(items) + 1) /\ slots \subseteq open
                   /\ open \subseteq 1..(next - 1) /\ Cardinality(slots) <= Workers
                   /\ DOMAIN rows = DOMAIN items /\ lost \subseteq DOMAIN items
  BY DEF PoolShape
<1>3. BrowseInv => TypeOK
  BY <1>1, <1>2 DEF BrowseInv, ReadInv, ReadTypes, PoolInv, TypeOK
<1> QED
  BY <1>3, BrowseInvariant, PTL

-----------------------------------------------------------------------------
(* Why a request ends: some step of it is always possible, and each brings *)
(* it closer to its end.  (What follows from this under fairness, Served,  *)
(* is left to TLC.)                                                        *)

\* The guards of Wait, of the loop, of a worker and of its deferred calls.
CanGoOn ==
    \/ next > Len(items) /\ open = {}
    \/ Filling /\ (PastCap(next) \/ SlotFree)
    \/ \E i \in slots : rows[i] # NoRow \/ page \in {"commits", "commit"}
    \/ open \ slots # {}

\* The steps that are left: at most four for an item the loop has not reached, then
\* writing the row, giving the slot back and Done.
Unwritten == {i \in slots : rows[i] = NoRow}
Owed == 4 * (Len(items) + 1 - next)
          + Cardinality(open) + Cardinality(slots) + Cardinality(Unwritten)

\* The loop and the workers of a commit page never all wait for each other: there
\* is an item to start and a slot for it, or a worker that can go on, or nothing
\* left to wait for, whatever failed before (enrichRevisions, buildCommitDiff).
THEOREM FanOutNeverStuck == Spec => [](pc = "pool" => CanGoOn)
<1>1. BrowseInv /\ pc = "pool" => CanGoOn
  <2> SUFFICES ASSUME BrowseInv, pc = "pool", slots = {}, open = {}, next <= Len(items)
               PROVE  CanGoOn
    <3>1. ASSUME BrowseInv, pc = "pool"
          PROVE  /\ page \in {"commits", "commit"}
                 /\ next > Len(items) \/ next <= Len(items)
      BY <3>1, Pages DEF BrowseInv, ReadInv, Control, PoolInv, PoolShape
    <3> QED
      BY <3>1 DEF CanGoOn
  <2>1. Cardinality(slots) = 0 /\ Workers \in Nat \ {0}
    BY FS_EmptySet, BrowseConstants
  <2>2. SlotFree /\ Filling
    BY <2>1 DEF SlotFree, Filling
  <2> QED
    BY <2>2 DEF CanGoOn
<1> QED
  BY <1>1, BrowseInvariant, PTL

\* The sets a fan-out counts are finite.
LEMMA OpenFinite ==
    ASSUME PoolShape
    PROVE  /\ IsFiniteSet(open) /\ Cardinality(open) \in Nat
           /\ IsFiniteSet(slots) /\ Cardinality(slots) \in Nat
           /\ IsFiniteSet(Unwritten) /\ Cardinality(Unwritten) \in Nat
           /\ Cardinality(Unwritten) <= Cardinality(slots)
<1>1. /\ next - 1 \in Nat /\ open \subseteq 1..(next - 1)
      /\ IsFiniteSet(slots) /\ Unwritten \subseteq slots
  BY DEF PoolShape, Unwritten
<1>2. IsFiniteSet(1..(next - 1))
  BY <1>1, FS_Interval
<1>3. IsFiniteSet(open) /\ IsFiniteSet(Unwritten)
  BY <1>1, <1>2, FS_Subset
<1> QED
  BY <1>1, <1>3, FS_Subset, FS_CardinalityType

\* One element more, one less.
LEMMA OneMore ==
    ASSUME NEW S, NEW T, NEW x, IsFiniteSet(S), x \notin S, T = S \cup {x}
    PROVE  Cardinality(T) = Cardinality(S) + 1
BY FS_AddElement

LEMMA OneLess ==
    ASSUME NEW S, NEW T, NEW x, IsFiniteSet(S), x \in S, T = S \ {x}
    PROVE  Cardinality(T) = Cardinality(S) - 1
BY FS_RemoveElement

LEMMA PoolStepShrinks ==
    ASSUME PoolInv, PoolStep PROVE Owed' < Owed
<1>0. PoolShape
  BY DEF PoolInv
<1>1. /\ IsFiniteSet(open) /\ Cardinality(open) \in Nat
      /\ IsFiniteSet(slots) /\ Cardinality(slots) \in Nat
      /\ IsFiniteSet(Unwritten) /\ Cardinality(Unwritten) \in Nat
  BY <1>0, OpenFinite
<1>2. /\ next \in Nat /\ Len(items) \in Nat /\ slots \subseteq open
      /\ \A i \in open : i < next
      /\ next \notin open
      /\ DOMAIN rows = DOMAIN items /\ DOMAIN items = 1..Len(items)
      /\ 1 <= next /\ \A i \in open : i \in DOMAIN rows
  BY <1>0 DEF PoolShape
<1>3. CASE Spawn
  <2>1. /\ slots' = slots \cup {next} /\ open' = open \cup {next} /\ next' = next + 1
        /\ items' = items /\ rows' = rows /\ next <= Len(items)
    BY <1>3 DEF Spawn, Filling
  <2>2. Cardinality(open') = Cardinality(open) + 1
    BY <1>1, <1>2, <2>1, OneMore
  <2>3. Cardinality(slots') = Cardinality(slots) + 1
    BY <1>1, <1>2, <2>1, OneMore
  <2>4. Cardinality(Unwritten') <= Cardinality(Unwritten) + 1
        /\ Cardinality(Unwritten') \in Nat
    <3>1. CASE rows[next] = NoRow
      <4>1. Unwritten' = Unwritten \cup {next} /\ next \notin Unwritten
        BY <1>2, <2>1, <3>1 DEF Unwritten
      <4>2. Cardinality(Unwritten') = Cardinality(Unwritten) + 1
        BY <1>1, <4>1, OneMore
      <4> QED
        BY <1>1, <4>2
    <3>2. CASE rows[next] # NoRow
      <4>1. Unwritten' = Unwritten
        BY <2>1, <3>2 DEF Unwritten
      <4> QED
        BY <1>1, <4>1
    <3> QED
      BY <3>1, <3>2
  <2> QED
    BY <1>1, <1>2, <2>1, <2>2, <2>3, <2>4 DEF Owed
<1>4. CASE ListOnly
  <2>1. /\ slots' = slots /\ open' = open /\ next' = next + 1 /\ items' = items
        /\ \E row : rows' = [rows EXCEPT ![next] = row]
    BY <1>4 DEF ListOnly
  <2>2. \A i \in slots : rows'[i] = rows[i]
    BY <1>2, <2>1
  <2>3. Unwritten' = Unwritten
    BY <2>1, <2>2 DEF Unwritten
  <2> QED
    BY <1>1, <1>2, <2>1, <2>3 DEF Owed
<1>5. ASSUME NEW i \in slots, rows[i] = NoRow, NEW row, row # NoRow, NEW ok,
             Write(i, row, ok)
      PROVE  Owed' < Owed
  <2>1. /\ slots' = slots /\ open' = open /\ next' = next /\ items' = items
        /\ rows' = [rows EXCEPT ![i] = row]
    BY <1>5 DEF Write
  <2>2. \A j \in slots : rows'[j] = IF j = i THEN row ELSE rows[j]
    BY <1>2, <2>1
  <2>3. Unwritten' = Unwritten \ {i} /\ i \in Unwritten
    BY <1>5, <2>1, <2>2 DEF Unwritten
  <2>4. Cardinality(Unwritten') = Cardinality(Unwritten) - 1
    BY <1>1, <2>3, OneLess
  <2> QED
    BY <1>1, <1>2, <2>1, <2>4 DEF Owed
<1>6. ASSUME NEW i \in DOMAIN items, NEW ok \in BOOLEAN, Enrich(i, ok) PROVE Owed' < Owed
  <2>1. PICK row : row = Row(items[i], IF ok THEN "info" ELSE "bare", "none", "none")
    OBVIOUS
  <2>2. row.kind # NoRow.kind
    BY <2>1 DEF Row, NoRow
  <2>3. i \in slots /\ rows[i] = NoRow /\ Write(i, row, ok) /\ row # NoRow
    BY <1>6, <2>1, <2>2 DEF Enrich
  <2> QED
    BY <1>5, <2>3
<1>7. ASSUME NEW i \in DOMAIN items, NEW ok \in [Calls -> BOOLEAN], Diff(i, ok)
      PROVE  Owed' < Owed
  <2>1. /\ page = "commit" /\ i \in slots /\ rows[i] = NoRow
        /\ \E all : Write(i, resolveFileDiff(items[i], ok), all)
    BY <1>7 DEF Diff
  <2>2. PICK row : row = resolveFileDiff(items[i], ok)
    OBVIOUS
  <2>3. row # NoRow
    BY <1>0, <2>1, <2>2, DiffRow DEF PoolShape
  <2>4. PICK all : Write(i, row, all)
    BY <2>1, <2>2
  <2> QED
    BY <1>5, <2>1, <2>3, <2>4
<1>8. ASSUME NEW i, Release(i) PROVE Owed' < Owed
  <2>1. /\ i \in slots /\ rows[i] # NoRow /\ slots' = slots \ {i}
        /\ open' = open /\ next' = next /\ items' = items /\ rows' = rows
    BY <1>8 DEF Release
  <2>2. Cardinality(slots') = Cardinality(slots) - 1
    BY <1>1, <2>1, OneLess
  <2>3. Unwritten' = Unwritten
    BY <2>1 DEF Unwritten
  <2>4. PICK rest \in Int : rest = 4 * (Len(items) + 1 - next) + Cardinality(open)
                                   + Cardinality(Unwritten)
    BY <1>1, <1>2
  <2>5. Owed = rest + Cardinality(slots) /\ Owed' = rest + Cardinality(slots')
    BY <1>1, <1>2, <2>1, <2>2, <2>3, <2>4 DEF Owed
  <2> QED
    BY <1>1, <2>2, <2>4, <2>5
<1>9. ASSUME NEW i, Done(i) PROVE Owed' < Owed
  <2>1. /\ i \in open /\ open' = open \ {i}
        /\ slots' = slots /\ next' = next /\ items' = items /\ rows' = rows
    BY <1>9 DEF Done
  <2>2. Cardinality(open') = Cardinality(open) - 1
    BY <1>1, <2>1, OneLess
  <2>3. Unwritten' = Unwritten
    BY <2>1 DEF Unwritten
  <2>4. PICK rest \in Int : rest = 4 * (Len(items) + 1 - next) + Cardinality(slots)
                                   + Cardinality(Unwritten)
    BY <1>1, <1>2
  <2>5. Owed = rest + Cardinality(open) /\ Owed' = rest + Cardinality(open')
    BY <1>1, <1>2, <2>1, <2>2, <2>3, <2>4 DEF Owed
  <2> QED
    BY <1>1, <2>2, <2>4, <2>5
<1> QED
  BY <1>3, <1>4, <1>6, <1>7, <1>8, <1>9 DEF PoolStep

\* How far a call is from the end of the longest handler that makes it.
Left == [base |-> 9, list |-> 1, repo |-> 8, scope |-> 7, branch |-> 6, branches |-> 5,
         root |-> 4, overlay |-> 3, readme |-> 2, path |-> 5, listing |-> 4,
         content |-> 4, read |-> 2, revisions |-> 2, pool |-> 1, info |-> 6,
         diff |-> 2, locks |-> 1, exchange |-> 2, unlock |-> 1, done |-> 0]

\* A handler goes on to a later call, or ends.
LEMMA HandlerAdvances ==
    ASSUME Control, HandlerStep PROVE Left[pc'] < Left[pc]
<1> USE Pages
<1>1. pc # "done" => pc \in DOMAIN Left /\ Left[pc] > 0
  BY DEF Control, Left
<1>2. pc # "done"
  BY DEF HandlerStep, CallReturns, CallFails, NotFound, FindPath, ListDir, ListRoot,
         Overlay, FetchContent, ReadFile, ListRevisions, RevisionDiff, NoRevisions,
         NoDiff, Wait, Plain, Optional
<1>3. ASSUME pc' = "done" PROVE Left[pc'] < Left[pc]
  <2>1. Left["done"] = 0
    BY DEF Left
  <2>2. Left[pc] > 0
    BY <1>1, <1>2
  <2> QED
    BY <1>3, <2>1, <2>2
<1>4. ASSUME NEW step, CallReturns(step) PROVE Left[pc'] < Left[pc]
  <2>1. pc = step /\ pc' = Then(step) /\ step \in Plain \ {"overlay"}
    BY <1>4, GoToDoes DEF CallReturns, Advance
  <2> QED
    BY <2>1, ThenIs DEF Control, Plain, Optional, Left
<1>5. ASSUME NEW step, CallFails(step) PROVE Left[pc'] < Left[pc]
  BY <1>3, <1>5 DEF CallFails, Respond
<1>6. ASSUME NEW step, NotFound(step) PROVE Left[pc'] < Left[pc]
  <2>1. pc' = "done" \/ (pc = "branch" /\ page = "repo" /\ pc' = Then("branch"))
    BY <1>6, GoToDoes DEF NotFound, Refuse, Respond, Advance
  <2> QED
    BY <1>3, <2>1, ThenIs DEF Left
<1>7. CASE FindPath
  <2>1. pc = "path" /\ pc' \in {"done", "listing", "content"}
    BY <1>7, GoToDoes DEF FindPath, Refuse, Respond
  <2> QED
    BY <2>1 DEF Left
<1>8. CASE ListDir \/ ListRoot
  <2>1. pc \in {"listing", "root"} /\ pc' \in {"done", "overlay"}
    BY <1>8, GoToDoes DEF ListDir, ListRoot, Refuse, Respond
  <2> QED
    BY <2>1 DEF Left
<1>9. CASE Overlay
  <2>1. pc = "overlay" /\ pc' \in {"read", Then("overlay")}
    BY <1>9, GoToDoes DEF Overlay, Advance
  <2>2. Then("overlay") \in {"readme", "done"}
    BY <1>9, ThenIs DEF Overlay, Control
  <2> QED
    BY <2>1, <2>2 DEF Left
<1>10. CASE FetchContent \/ ReadFile \/ NoRevisions \/ NoDiff \/ Wait
  <2>1. pc' = "done" \/ (pc = "content" /\ pc' = "overlay")
    BY <1>10, GoToDoes DEF FetchContent, ReadFile, NoRevisions, NoDiff, Wait, Refuse,
                           Respond
  <2> QED
    BY <1>3, <2>1 DEF Left
<1>11. ASSUME (\E sigs : ListRevisions(sigs)) \/ \E entries : RevisionDiff(entries)
       PROVE  Left[pc'] < Left[pc]
  <2>1. pc \in {"revisions", "diff"} /\ pc' = "pool"
    BY <1>11 DEF ListRevisions, RevisionDiff, FanOut
  <2> QED
    BY <2>1 DEF Left
<1> QED
  BY <1>4, <1>5, <1>6, <1>7, <1>8, <1>9, <1>10, <1>11 DEF HandlerStep

\* A request counts down: every step of it goes on to a later call, or is a step of
\* the fan-out that leaves fewer.  No handler returns to a call it has made, and no
\* fan-out goes on for ever.  Pushes leave the count alone.
RequestShrinks ==
    [][pc # "done" => \/ UNCHANGED <<page, pc, pool>>
                      \/ Left[pc'] < Left[pc]
                      \/ pc' = pc /\ Owed \in Nat /\ Owed' < Owed]_vars

\* No handler and no fan-out of a page can go round: the pair of Left and Owed gets
\* smaller with every step of the request, whatever is pushed and whatever fails
\* (all handlers of the browse pages).
THEOREM RequestEnds == Spec => RequestShrinks
<1>1. ASSUME BrowseInv, [Next]_vars
      PROVE  [pc # "done" => \/ UNCHANGED <<page, pc, pool>>
                             \/ Left[pc'] < Left[pc]
                             \/ pc' = pc /\ Owed \in Nat /\ Owed' < Owed]_vars
  <2> SUFFICES ASSUME Next, pc # "done"
               PROVE  \/ UNCHANGED <<page, pc, pool>>
                      \/ Left[pc'] < Left[pc]
                      \/ pc' = pc /\ Owed \in Nat /\ Owed' < Owed
    BY <1>1
  <2>0. PoolInv /\ Control
    BY <1>1 DEF BrowseInv, ReadInv
  <2>1. CASE \E p \in Page : Ask(p) \/ BadRequest(p)
    BY <2>1 DEF Ask, BadRequest
  <2>2. CASE \E kind \in Kind : Push(kind)
    BY <2>2 DEF Push
  <2>3. CASE HandlerStep
    BY <2>0, <2>3, HandlerAdvances
  <2>4. CASE PoolStep
    <3>1. /\ Len(items) + 1 - next \in Nat
          /\ Cardinality(open) \in Nat /\ Cardinality(slots) \in Nat
          /\ Cardinality(Unwritten) \in Nat
      BY <2>0, OpenFinite DEF PoolInv, PoolShape
    <3>2. Owed \in Nat
      BY <3>1 DEF Owed
    <3> QED
      BY <2>0, <2>4, <3>2, PoolStepShrinks, PoolStepKeeps
  <2> QED
    BY <2>1, <2>2, <2>3, <2>4, NextIs
<1> QED
  BY <1>1, BrowseInvariant, PTL DEF Spec, RequestShrinks

=============================================================================
