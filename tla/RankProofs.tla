----------------------------- MODULE RankProofs -----------------------------
(***************************************************************************)
(* Proofs about the ranks of the referral tree and the monthly rewards     *)
(* they earn: RankSystem, for any set of users, any tree, any requirements *)
(* that RankAssumption allows; GrowthRewards, for any users, runs that     *)
(* overlap, amounts and caps.                                              *)
(***************************************************************************)
EXTENDS RankSystem, GrowthRewards, FiniteSetTheorems, TLAPS

(***************************************************************************)
(* Induction.  The library states it for an operator, which the provers    *)
(* cannot instantiate; that a set of numbers has a least element is the    *)
(* same principle about sets.                                              *)
(***************************************************************************)

\* A set of natural numbers that is not empty has a least element.
LEMMA LeastNumber ==
    ASSUME NEW N \in SUBSET Nat, N # {}
    PROVE  \E n \in N : \A m \in N : n <= m
<1> DEFINE Segments == {1..n : n \in N}
<1>1. Segments \subseteq FiniteSubsetsOf(Nat)
  <2> SUFFICES ASSUME NEW n \in N PROVE 1..n \in SUBSET Nat /\ IsFiniteSet(1..n)
    BY DEF FiniteSubsetsOf
  <2> QED
    BY FS_Interval
<1>2. Segments # {}
  <2>1. PICK k \in N : TRUE
    OBVIOUS
  <2>2. 1..k \in Segments
    OBVIOUS
  <2> QED
    BY <2>2
<1>3. IsWellFoundedOn(StrictSubsetOrdering(Nat), FiniteSubsetsOf(Nat))
  BY FS_StrictSubsetOrderingWellFounded
<1> HIDE DEF Segments
<1>4. PICK s \in Segments : \A t \in Segments : <<t, s>> \notin StrictSubsetOrdering(Nat)
  BY <1>1, <1>2, <1>3, WFMin
<1>5. PICK n \in N : s = 1..n
  BY DEF Segments
<1>6. ASSUME NEW m \in N, m < n PROVE FALSE
  <2>1. 1..m \in Segments /\ 1..m \in SUBSET Nat /\ 1..n \in SUBSET Nat
    BY DEF Segments
  <2>2. 1..m \subseteq 1..n /\ n \in 1..n /\ n \notin 1..m
    BY <1>6
  <2>3. <<1..m, 1..n>> \in StrictSubsetOrdering(Nat)
    BY <2>1, <2>2 DEF StrictSubsetOrdering
  <2> QED
    BY <1>4, <1>5, <2>1, <2>3
<1> QED
  BY <1>6

-----------------------------------------------------------------------------
(***************************************************************************)
(* The computation of the ranks.                                           *)
(***************************************************************************)
USE RankAssumption

-----------------------------------------------------------------------------
(* The recursive query.                                                    *)

\* d is n referrals below u.
Chain(u, n, d) ==
    \E p \in [0..n -> Users] :
        /\ p[0] = u /\ p[n] = d
        /\ \A i \in 1..n : parent[p[i]] = p[i - 1]

LEMMA ChainStart ==
    ASSUME NEW u \in Users, NEW d \in Users
    PROVE  Chain(u, 0, d) <=> d = u
<1>1. ASSUME d = u PROVE Chain(u, 0, d)
  <2> DEFINE p == [i \in 0..0 |-> u]
  <2>1. p \in [0..0 -> Users] /\ p[0] = u /\ p[0] = d
    BY <1>1
  <2>2. \A i \in 1..0 : parent[p[i]] = p[i - 1]
    OBVIOUS
  <2> HIDE DEF p
  <2> QED
    BY <2>1, <2>2 DEF Chain
<1> QED
  BY <1>1 DEF Chain

LEMMA ChainStep ==
    ASSUME NEW u \in Users, NEW n \in Nat, NEW d \in Users
    PROVE  Chain(u, n + 1, d) <=> \E a \in Users : Chain(u, n, a) /\ parent[d] = a
<1>1. ASSUME Chain(u, n + 1, d)
      PROVE  \E a \in Users : Chain(u, n, a) /\ parent[d] = a
  <2>1. PICK p \in [0..(n + 1) -> Users] :
            /\ p[0] = u /\ p[n + 1] = d
            /\ \A i \in 1..(n + 1) : parent[p[i]] = p[i - 1]
    BY <1>1 DEF Chain
  <2> DEFINE q == [i \in 0..n |-> p[i]]
  <2>2. q \in [0..n -> Users] /\ q[0] = u /\ q[n] = p[n]
    BY <2>1
  <2>3. \A i \in 1..n : parent[q[i]] = q[i - 1]
    <3> SUFFICES ASSUME NEW i \in 1..n PROVE parent[q[i]] = q[i - 1]
      OBVIOUS
    <3>1. i \in 1..(n + 1) /\ i \in 0..n /\ i - 1 \in 0..n
      OBVIOUS
    <3> QED
      BY <2>1, <3>1
  <2> HIDE DEF q
  <2>4. Chain(u, n, p[n])
    BY <2>2, <2>3 DEF Chain
  <2>5. parent[d] = p[n] /\ p[n] \in Users
    BY <2>1
  <2> QED
    BY <2>4, <2>5
<1>2. ASSUME NEW a \in Users, Chain(u, n, a), parent[d] = a
      PROVE  Chain(u, n + 1, d)
  <2>1. PICK p \in [0..n -> Users] :
            p[0] = u /\ p[n] = a /\ \A i \in 1..n : parent[p[i]] = p[i - 1]
    BY <1>2 DEF Chain
  <2> DEFINE q == [i \in 0..(n + 1) |-> IF i = n + 1 THEN d ELSE p[i]]
  <2>2. q \in [0..(n + 1) -> Users] /\ q[0] = u /\ q[n + 1] = d
    BY <2>1
  <2>3. \A i \in 1..(n + 1) : parent[q[i]] = q[i - 1]
    <3> SUFFICES ASSUME NEW i \in 1..(n + 1) PROVE parent[q[i]] = q[i - 1]
      OBVIOUS
    <3>1. CASE i = n + 1
      BY <1>2, <2>1, <3>1
    <3>2. CASE i # n + 1
      <4>1. i \in 1..n /\ i - 1 \in 0..n /\ i - 1 # n + 1
        BY <3>2
      <4> QED
        BY <2>1, <3>2, <4>1
    <3> QED
      BY <3>1, <3>2
  <2> HIDE DEF q
  <2> QED
    BY <2>2, <2>3 DEF Chain
<1> QED
  BY <1>1, <1>2

\* The recursion of the query is well defined: level n holds who is n referrals
\* below u.
LEMMA GenerationIsChain ==
    ASSUME NEW u \in Users
    PROVE  \A n \in 0..MaxDepth : Generations(u)[n] = {d \in Users : Chain(u, n, d)}
<1> DEFINE Children(s) == UNION {{d \in Users : parent[d] = a} : a \in s}
           Step(g) == [n \in 0..MaxDepth |-> IF n = 0 THEN {u} ELSE Children(g[n - 1])]
           Chains == [n \in 0..MaxDepth |-> {d \in Users : Chain(u, n, d)}]
<1>1. Generations(u) = CHOOSE g : g = Step(g)
  BY DEF Generations
<1>2. Chains = Step(Chains)
  <2> SUFFICES ASSUME NEW n \in 0..MaxDepth
               PROVE  {d \in Users : Chain(u, n, d)}
                        = IF n = 0 THEN {u} ELSE Children(Chains[n - 1])
    BY Zenon
  <2>1. CASE n = 0
    BY <2>1, ChainStart
  <2>2. CASE n # 0
    <3>1. PICK k \in Nat : n = k + 1 /\ k = n - 1 /\ k \in 0..MaxDepth
      BY <2>2
    <3>2. Chains[n - 1] = {a \in Users : Chain(u, k, a)}
      BY <3>1
    <3>3. \A d \in Users : Chain(u, n, d) <=> \E a \in Users : Chain(u, k, a) /\ parent[d] = a
      BY <3>1, ChainStep
    <3> HIDE DEF Chains
    <3>4. Children(Chains[n - 1]) = {d \in Users : Chain(u, n, d)}
      BY <3>2, <3>3
    <3> QED
      BY <2>2, <3>4
  <2> QED
    BY <2>1, <2>2
<1> DEFINE level == Generations(u)
<1> HIDE DEF Chains
<1>3. level = Step(level)
  BY <1>1, <1>2
<1> DEFINE Wrong == {n \in 0..MaxDepth : level[n] # Chains[n]}
<1>4. SUFFICES ASSUME Wrong # {} PROVE FALSE
  BY DEF Chains
<1>5. PICK n \in Wrong : \A m \in Wrong : n <= m
  <2>1. Wrong \in SUBSET Nat
    OBVIOUS
  <2> HIDE DEF Wrong
  <2> QED
    BY <1>4, <2>1, LeastNumber
<1>6. CASE n = 0
  BY <1>2, <1>3, <1>5, <1>6
<1>7. CASE n # 0
  <2>1. n \in 0..MaxDepth /\ n - 1 \in 0..MaxDepth /\ n - 1 \notin Wrong
    BY <1>5, <1>7
  <2>2. level[n - 1] = Chains[n - 1]
    BY <2>1
  <2>3. level[n] = Children(level[n - 1]) /\ Chains[n] = Children(Chains[n - 1])
    BY <1>2, <1>3, <1>7, <2>1
  <2> QED
    BY <1>5, <2>2, <2>3
<1> QED
  BY <1>6, <1>7

\* A team is everybody who can be reached by one to MaxDepth referrals.
LEMMA DownlineIsChains ==
    ASSUME NEW u \in Users
    PROVE  Downline(u) = {d \in Users : \E n \in 1..MaxDepth : Chain(u, n, d)}
<1>1. \A n \in 1..MaxDepth : Generations(u)[n] = {d \in Users : Chain(u, n, d)}
  BY GenerationIsChain
<1> QED
  BY <1>1 DEF Downline

\* A chain can be cut after its first referral as well as before its last.
LEMMA ChainFirst ==
    ASSUME NEW u \in Users, NEW n \in Nat, NEW d \in Users
    PROVE  Chain(u, n + 1, d) <=> \E c \in Users : parent[c] = u /\ Chain(c, n, d)
<1>1. ASSUME Chain(u, n + 1, d)
      PROVE  \E c \in Users : parent[c] = u /\ Chain(c, n, d)
  <2>1. PICK p \in [0..(n + 1) -> Users] :
            /\ p[0] = u /\ p[n + 1] = d
            /\ \A i \in 1..(n + 1) : parent[p[i]] = p[i - 1]
    BY <1>1 DEF Chain
  <2> DEFINE q == [i \in 0..n |-> p[i + 1]]
  <2>2. q \in [0..n -> Users] /\ q[0] = p[1] /\ q[n] = d
    BY <2>1
  <2>3. \A i \in 1..n : parent[q[i]] = q[i - 1]
    <3> SUFFICES ASSUME NEW i \in 1..n PROVE parent[q[i]] = q[i - 1]
      OBVIOUS
    <3>1. i + 1 \in 1..(n + 1) /\ i \in 0..n /\ i - 1 \in 0..n /\ (i - 1) + 1 = i
      OBVIOUS
    <3> QED
      BY <2>1, <3>1
  <2> HIDE DEF q
  <2>4. Chain(p[1], n, d)
    BY <2>2, <2>3 DEF Chain
  <2>5. p[1] \in Users /\ parent[p[1]] = u
    BY <2>1
  <2> QED
    BY <2>4, <2>5
<1>2. ASSUME NEW c \in Users, parent[c] = u, Chain(c, n, d)
      PROVE  Chain(u, n + 1, d)
  <2>1. PICK p \in [0..n -> Users] :
            p[0] = c /\ p[n] = d /\ \A i \in 1..n : parent[p[i]] = p[i - 1]
    BY <1>2 DEF Chain
  <2> DEFINE q == [i \in 0..(n + 1) |-> IF i = 0 THEN u ELSE p[i - 1]]
  <2>2. q \in [0..(n + 1) -> Users] /\ q[0] = u /\ q[n + 1] = d
    BY <2>1
  <2>3. \A i \in 1..(n + 1) : parent[q[i]] = q[i - 1]
    <3> SUFFICES ASSUME NEW i \in 1..(n + 1) PROVE parent[q[i]] = q[i - 1]
      OBVIOUS
    <3>1. CASE i = 1
      BY <1>2, <2>1, <3>1
    <3>2. CASE i # 1
      <4>1. i - 1 \in 1..n /\ i \in 0..(n + 1) /\ i - 1 \in 0..(n + 1) /\ i # 0 /\ i - 1 # 0
        BY <3>2
      <4> QED
        BY <2>1, <4>1
    <3> QED
      BY <3>1, <3>2
  <2> HIDE DEF q
  <2> QED
    BY <2>2, <2>3 DEF Chain
<1> QED
  BY <1>1, <1>2

\* No chain of referrals is longer than the depth at which the query stops.
Shallow == \A u, d \in Users : ~Chain(u, MaxDepth + 1, d)

LEMMA DownlineUnfolds ==
    ASSUME Shallow, NEW u \in Users
    PROVE  Downline(u) = UNION {{c} \cup Downline(c) : c \in {d \in Users : parent[d] = u}}
<1>1. ASSUME NEW d \in Downline(u)
      PROVE  \E c \in Users : parent[c] = u /\ (d = c \/ d \in Downline(c))
  <2>1. d \in Users /\ \E n \in 1..MaxDepth : Chain(u, n, d)
    BY DownlineIsChains
  <2>2. PICK k \in Nat : k + 1 \in 1..MaxDepth /\ Chain(u, k + 1, d)
    <3>1. PICK n \in 1..MaxDepth : Chain(u, n, d)
      BY <2>1
    <3>2. n - 1 \in Nat /\ (n - 1) + 1 = n
      OBVIOUS
    <3> QED
      BY <3>1, <3>2
  <2>3. PICK c \in Users : parent[c] = u /\ Chain(c, k, d)
    BY <2>1, <2>2, ChainFirst
  <2>4. CASE k = 0
    BY <2>1, <2>3, <2>4, ChainStart
  <2>5. CASE k # 0
    <3>1. k \in 1..MaxDepth
      BY <2>2, <2>5
    <3>2. d \in Downline(c)
      BY <2>1, <2>3, <3>1, DownlineIsChains
    <3> QED
      BY <2>3, <3>2
  <2> QED
    BY <2>4, <2>5
<1>2. ASSUME NEW c \in Users, parent[c] = u
      PROVE  c \in Downline(u)
  <2>1. Chain(u, 0 + 1, c)
    BY <1>2, ChainStart, ChainFirst
  <2>2. MaxDepth >= 1
    BY <2>1 DEF Shallow
  <2>3. 1 \in 1..MaxDepth /\ Chain(u, 1, c)
    BY <2>1, <2>2
  <2> QED
    BY <2>3, DownlineIsChains
<1>3. ASSUME NEW c \in Users, parent[c] = u, NEW d \in Downline(c)
      PROVE  d \in Downline(u)
  <2>1. d \in Users /\ \E n \in 1..MaxDepth : Chain(c, n, d)
    BY DownlineIsChains
  <2>2. PICK n \in 1..MaxDepth : Chain(c, n, d)
    BY <2>1
  <2>3. n \in Nat
    OBVIOUS
  <2>4. Chain(u, n + 1, d)
    BY <1>3, <2>1, <2>2, <2>3, ChainFirst
  <2>5. n + 1 # MaxDepth + 1
    BY <2>1, <2>4 DEF Shallow
  <2>6. n + 1 \in 1..MaxDepth
    BY <2>5
  <2> QED
    BY <2>1, <2>4, <2>6, DownlineIsChains
<1> QED
  BY <1>1, <1>2, <1>3
(* The order of the ranks.                                                 *)

\* rank_index is the position of a rank in RANK_ORDER.
LEMMA RankIndexValues ==
    /\ RankIndex("unranked") = 1 /\ RankIndex("member") = 2 /\ RankIndex("guide") = 3
    /\ RankIndex("leader") = 4 /\ RankIndex("ranger") = 5
  BY DEF RankIndex, RankOrder

LEMMA RankIndexType == \A r \in Ranks : RankIndex(r) \in 1..5
  BY RankIndexValues DEF Ranks

\* The ranks are a chain: nobody is between two of them.
LEMMA AtLeastValues ==
    /\ AtLeast("unranked") = Ranks
    /\ AtLeast("member") = {"member", "guide", "leader", "ranger"}
    /\ AtLeast("guide") = {"guide", "leader", "ranger"}
    /\ AtLeast("leader") = {"leader", "ranger"}
    /\ AtLeast("ranger") = {"ranger"}
  BY RankIndexValues DEF AtLeast, Ranks

\* Who reaches the same tiers has the same rank.
LEMMA TiersTellRanks ==
    ASSUME NEW r \in Ranks, NEW s \in Ranks,
           \A t \in QualifyingRanks : r \in AtLeast(t) <=> s \in AtLeast(t)
    PROVE  r = s
  BY AtLeastValues DEF Ranks, QualifyingRanks

-----------------------------------------------------------------------------
LEMMA CountType ==
    ASSUME NEW S \in SUBSET Users
    PROVE  Cardinality(S) \in Nat
  BY FS_Subset, FS_CardinalityType

LEMMA CountMonotone ==
    ASSUME NEW S \in SUBSET Users, NEW T \in SUBSET Users, S \subseteq T
    PROVE  Cardinality(S) <= Cardinality(T)
  BY FS_Subset, FS_CardinalityType

LEMMA MetricType ==
    ASSUME RankTypeOK, NEW u \in Users, NEW m \in Metrics
    PROVE  Metric(u, m) \in Nat
<1>1. \A r : TeamCount(u, r) \in Nat
  BY CountType DEF TeamCount, RankTypeOK
<1>2. Cardinality(Direct(u)) \in Nat
  BY CountType DEF Direct
<1>3. Cardinality({d \in Direct(u) : account[d] = "subscribed"}) \in Nat
  BY CountType DEF Direct
<1> QED
  BY <1>1, <1>2, <1>3 DEF Metric, Metrics

\* A rank asks for at least what a lower one asks for, so who qualifies for it
\* qualifies for the lower one.
LEMMA QualifiesDown ==
    ASSUME RankTypeOK, NEW u \in Users, NEW r \in Ranks, NEW s \in Ranks,
           Qualifies(u, s), s \in AtLeast(r)
    PROVE  Qualifies(u, r)
<1>1. CASE r = "unranked"
  BY <1>1 DEF Qualifies
<1>2. CASE r # "unranked"
  <2>1. r \in QualifyingRanks /\ s \in QualifyingRanks /\ RankIndex(r) <= RankIndex(s)
    BY <1>2, AtLeastValues, RankIndexValues DEF Ranks, QualifyingRanks
  <2>2. \A m \in Metrics : Need[r][m] <= Need[s][m] /\ Need[r][m] \in Nat /\ Need[s][m] \in Nat
    BY <2>1
  <2>3. \A m \in Metrics : Metric(u, m) >= Need[s][m] /\ Metric(u, m) \in Nat
    BY <2>1, MetricType DEF Qualifies, QualifyingRanks
  <2> QED
    BY <2>2, <2>3 DEF Qualifies
<1> QED
  BY <1>1, <1>2

\* highest_qualifying_rank finds the highest rank whose requirements are met.
LEMMA NextRankIsHighest ==
    ASSUME RankTypeOK, NEW u \in Users, Valid(u)
    PROVE  /\ NextRank(u) \in Ranks
           /\ Qualifies(u, NextRank(u))
           /\ \A s \in Ranks : Qualifies(u, s) => NextRank(u) \in AtLeast(s)
<1> DEFINE Highest(r) == Qualifies(u, r) /\ \A s \in Ranks : Qualifies(u, s) => r \in AtLeast(s)
<1>1. \E r \in Ranks : Highest(r)
  <2>1. Qualifies(u, "unranked")
    BY DEF Qualifies
  <2>2. CASE Qualifies(u, "ranger")
    BY <2>2, AtLeastValues DEF Ranks
  <2>3. CASE ~Qualifies(u, "ranger") /\ Qualifies(u, "leader")
    BY <2>3, AtLeastValues DEF Ranks
  <2>4. CASE ~Qualifies(u, "ranger") /\ ~Qualifies(u, "leader") /\ Qualifies(u, "guide")
    BY <2>4, AtLeastValues DEF Ranks
  <2>5. CASE /\ ~Qualifies(u, "ranger") /\ ~Qualifies(u, "leader") /\ ~Qualifies(u, "guide")
             /\ Qualifies(u, "member")
    BY <2>5, AtLeastValues DEF Ranks
  <2>6. CASE /\ ~Qualifies(u, "ranger") /\ ~Qualifies(u, "leader") /\ ~Qualifies(u, "guide")
             /\ ~Qualifies(u, "member")
    BY <2>1, <2>6, AtLeastValues DEF Ranks
  <2> QED
    BY <2>2, <2>3, <2>4, <2>5, <2>6
<1>2. NextRank(u) = CHOOSE r \in Ranks : Highest(r)
  BY DEF NextRank
<1> HIDE DEF Highest
<1>3. NextRank(u) \in Ranks /\ Highest(NextRank(u))
  BY <1>1, <1>2
<1> QED
  BY <1>3 DEF Highest

LEMMA NextRankType ==
    ASSUME RankTypeOK, NEW u \in Users
    PROVE  NextRank(u) \in Ranks
<1>1. CASE Valid(u)
  BY <1>1, NextRankIsHighest
<1>2. CASE ~Valid(u)
  BY <1>2 DEF NextRank, Ranks
<1> QED
  BY <1>1, <1>2

\* A pass gives a user a tier or a higher one exactly when the user meets the
\* requirements of that tier.
LEMMA NextRankReaches ==
    ASSUME RankTypeOK, NEW u \in Users, NEW r \in QualifyingRanks
    PROVE  NextRank(u) \in AtLeast(r) <=>
              Valid(u) /\ \A m \in Metrics : Metric(u, m) >= Need[r][m]
<1>1. r \in Ranks /\ r # "unranked" /\ "unranked" \notin AtLeast(r)
  BY AtLeastValues DEF QualifyingRanks, Ranks
<1>2. Qualifies(u, r) <=> \A m \in Metrics : Metric(u, m) >= Need[r][m]
  BY <1>1 DEF Qualifies
<1>3. CASE Valid(u)
  BY <1>1, <1>2, <1>3, NextRankIsHighest, QualifiesDown
<1>4. CASE ~Valid(u)
  BY <1>1, <1>4 DEF NextRank
<1> QED
  BY <1>3, <1>4

-----------------------------------------------------------------------------
(* The tiers.                                                              *)

\* The users who hold a rank or a higher one in the pass just made.
Holding(r) == {u \in Users : rankOf[u] \in AtLeast(r)}

\* Nobody without a valid account is given a rank.
HoldersValid == pc = "iterating" => \A u \in Users : rankOf[u] # "unranked" => Valid(u)

\* Teams are as the query found them: nobody's referrer changes.
TeamIsRead == pc = "iterating" => \A u \in Users : team[u] = Downline(u)

\* Each pass settles one more tier.
TiersSettled ==
    pc = "iterating" =>
        /\ passes >= 1 => Holding("member") = Members
        /\ passes >= 2 => Holding("guide") = Guides
        /\ passes >= 3 => Holding("leader") = Leaders
        /\ passes >= 4 => Holding("ranger") = Rangers

\* The next pass takes nothing from anybody.
Rising ==
    pc = "iterating" => \A u \in Users : RankIndex(NextRank(u)) >= RankIndex(rankOf[u])

RankInv ==
    /\ RankTypeOK
    /\ TeamIsRead
    /\ HoldersValid
    /\ TiersSettled
    /\ Rising
    /\ OnePassPerTier
    /\ RankHasBadge

\* What is computed from the tree, the accounts and the teams alone.
LEMMA TiersStand ==
    ASSUME UNCHANGED <<parent, account, team>>
    PROVE  /\ \A u : Valid(u)' <=> Valid(u)
           /\ \A u : Direct(u)' = Direct(u)
           /\ \A u : Downline(u)' = Downline(u)
           /\ Members' = Members /\ Guides' = Guides
           /\ Leaders' = Leaders /\ Rangers' = Rangers
<1>1. \A u : Valid(u)' <=> Valid(u)
  BY DEF Valid
<1>2. \A u : Direct(u)' = Direct(u)
  BY <1>1 DEF Direct
<1>3. \A u : \A m \in {"verified_users", "active_subscribers"} : Metric(u, m)' = Metric(u, m)
  BY <1>2 DEF Metric
<1>4. \A r : Own(r)' = Own(r)
  BY <1>1, <1>3 DEF Own
<1>5. \A u, T : Below(u, T)' = Below(u, T)
  BY DEF Below
<1>6. Members' = Members
  BY <1>4 DEF Members
<1>7. Guides' = Guides
  BY <1>4, <1>5, <1>6 DEF Guides
<1>8. Leaders' = Leaders
  BY <1>4, <1>5, <1>6, <1>7 DEF Leaders
<1>9. Rangers' = Rangers
  BY <1>4, <1>5, <1>6, <1>7, <1>8 DEF Rangers
<1>10. \A u : Downline(u)' = Downline(u)
  BY DEF Downline, Generations
<1> QED
  BY <1>1, <1>2, <1>6, <1>7, <1>8, <1>9, <1>10

\* Once nobody invalid holds a rank, a tier is counted over those who hold it.
LEMMA CountsHolders ==
    ASSUME RankTypeOK, NEW u \in Users, NEW r \in QualifyingRanks,
           \A d \in Users : rankOf[d] # "unranked" => Valid(d)
    PROVE  TeamCount(u, r) = Below(u, Holding(r))
<1>1. {d \in team[u] : Valid(d) /\ rankOf[d] \in AtLeast(r)} = team[u] \cap Holding(r)
  BY AtLeastValues DEF Holding, RankTypeOK, QualifyingRanks, Ranks
<1> QED
  BY <1>1 DEF TeamCount, Below

\* The tier that the next pass gives, for each tier from those below it.
LEMMA NextMembers ==
    ASSUME RankTypeOK
    PROVE  {u \in Users : NextRank(u) \in AtLeast("member")} = Members
<1>1. ASSUME NEW u \in Users
      PROVE  /\ Metric(u, "qualified_members") >= Need["member"]["qualified_members"]
             /\ Metric(u, "qualified_guides") >= Need["member"]["qualified_guides"]
             /\ Metric(u, "qualified_leaders") >= Need["member"]["qualified_leaders"]
  BY MetricType DEF Metrics
<1>2. "member" \in QualifyingRanks
  BY DEF QualifyingRanks, Ranks
<1> QED
  BY <1>1, <1>2, NextRankReaches DEF Members, Own, Metrics

LEMMA NextGuides ==
    ASSUME RankTypeOK,
           \A d \in Users : rankOf[d] # "unranked" => Valid(d),
           Holding("member") = Members
    PROVE  {u \in Users : NextRank(u) \in AtLeast("guide")} = Guides
<1>1. ASSUME NEW u \in Users
      PROVE  /\ Metric(u, "qualified_members") = Below(u, Members)
             /\ Metric(u, "qualified_guides") >= Need["guide"]["qualified_guides"]
             /\ Metric(u, "qualified_leaders") >= Need["guide"]["qualified_leaders"]
  <2>1. Metric(u, "qualified_members") = Below(u, Members)
    BY CountsHolders DEF Metric, QualifyingRanks, Ranks
  <2> QED
    BY <2>1, MetricType DEF Metrics
<1>2. "guide" \in QualifyingRanks
  BY DEF QualifyingRanks, Ranks
<1> QED
  BY <1>1, <1>2, NextRankReaches DEF Guides, Own, Metrics

LEMMA NextLeaders ==
    ASSUME RankTypeOK,
           \A d \in Users : rankOf[d] # "unranked" => Valid(d),
           Holding("member") = Members, Holding("guide") = Guides
    PROVE  {u \in Users : NextRank(u) \in AtLeast("leader")} = Leaders
<1>1. ASSUME NEW u \in Users
      PROVE  /\ Metric(u, "qualified_members") = Below(u, Members)
             /\ Metric(u, "qualified_guides") = Below(u, Guides)
             /\ Metric(u, "qualified_leaders") >= Need["leader"]["qualified_leaders"]
  <2>1. /\ Metric(u, "qualified_members") = Below(u, Members)
        /\ Metric(u, "qualified_guides") = Below(u, Guides)
    BY CountsHolders DEF Metric, QualifyingRanks, Ranks
  <2> QED
    BY <2>1, MetricType DEF Metrics
<1>2. "leader" \in QualifyingRanks
  BY DEF QualifyingRanks, Ranks
<1> QED
  BY <1>1, <1>2, NextRankReaches DEF Leaders, Own, Metrics

LEMMA NextRangers ==
    ASSUME RankTypeOK,
           \A d \in Users : rankOf[d] # "unranked" => Valid(d),
           Holding("member") = Members, Holding("guide") = Guides,
           Holding("leader") = Leaders
    PROVE  {u \in Users : NextRank(u) \in AtLeast("ranger")} = Rangers
<1>1. ASSUME NEW u \in Users
      PROVE  /\ Metric(u, "qualified_members") = Below(u, Members)
             /\ Metric(u, "qualified_guides") = Below(u, Guides)
             /\ Metric(u, "qualified_leaders") = Below(u, Leaders)
  BY CountsHolders DEF Metric, QualifyingRanks, Ranks
<1>2. "ranger" \in QualifyingRanks
  BY DEF QualifyingRanks, Ranks
<1> QED
  BY <1>1, <1>2, NextRankReaches DEF Rangers, Own, Metrics

\* A higher tier is part of the lower ones.
LEMMA TiersNest ==
    ASSUME RankTypeOK
    PROVE  Rangers \subseteq Leaders /\ Leaders \subseteq Guides /\ Guides \subseteq Members
<1>1. ASSUME NEW r \in QualifyingRanks, NEW s \in QualifyingRanks,
             RankIndex(r) <= RankIndex(s)
      PROVE  Own(s) \subseteq Own(r)
  BY <1>1, MetricType DEF Own, Metrics
<1>2. \A u \in Users : \A T \in SUBSET Users : Below(u, T) \in Nat
  BY CountType DEF Below, RankTypeOK
<1>3. Members \in SUBSET Users /\ Guides \in SUBSET Users /\ Leaders \in SUBSET Users
  BY DEF Members, Guides, Leaders, Own
<1>4. Guides \subseteq Members
  BY <1>1, RankIndexValues DEF Guides, Members, QualifyingRanks, Ranks
<1>5. /\ Need["leader"]["qualified_members"] >= Need["guide"]["qualified_members"]
      /\ Need["leader"]["qualified_members"] \in Nat /\ Need["guide"]["qualified_members"] \in Nat
      /\ Need["ranger"]["qualified_members"] >= Need["leader"]["qualified_members"]
      /\ Need["ranger"]["qualified_members"] \in Nat
      /\ Need["ranger"]["qualified_guides"] >= Need["leader"]["qualified_guides"]
      /\ Need["ranger"]["qualified_guides"] \in Nat /\ Need["leader"]["qualified_guides"] \in Nat
  BY RankIndexValues DEF QualifyingRanks, Ranks, Metrics
<1>6. Own("leader") \subseteq Own("guide") /\ Own("ranger") \subseteq Own("leader")
  BY <1>1, RankIndexValues DEF QualifyingRanks, Ranks
<1>7. Leaders \subseteq Guides
  <2> SUFFICES ASSUME NEW u \in Leaders PROVE u \in Guides
    OBVIOUS
  <2>1. u \in Users /\ u \in Own("guide") /\ Below(u, Members) >= Need["leader"]["qualified_members"]
    BY <1>6 DEF Leaders, Own
  <2> QED
    BY <2>1, <1>2, <1>3, <1>5 DEF Guides
<1>8. Rangers \subseteq Leaders
  <2> SUFFICES ASSUME NEW u \in Rangers PROVE u \in Leaders
    OBVIOUS
  <2>1. /\ u \in Users /\ u \in Own("leader")
        /\ Below(u, Members) >= Need["ranger"]["qualified_members"]
        /\ Below(u, Guides) >= Need["ranger"]["qualified_guides"]
    BY <1>6 DEF Rangers, Own
  <2> QED
    BY <2>1, <1>2, <1>3, <1>5 DEF Leaders
<1> QED
  BY <1>4, <1>7, <1>8

-----------------------------------------------------------------------------
(* The invariant.                                                          *)

\* What a pass computes: counts, and the highest rank they qualify for.
PassComputes ==
    \A u \in Users :
        /\ \A m \in Metrics : Metric(u, m) \in Nat
        /\ NextRank(u) \in Ranks
        /\ Valid(u) => /\ Qualifies(u, NextRank(u))
                       /\ \A s \in Ranks : Qualifies(u, s) => NextRank(u) \in AtLeast(s)

\* The lemmas above as one state predicate, to be used before and after a step.
LEMMA TypedPassComputes == RankTypeOK => PassComputes
  BY MetricType, NextRankType, NextRankIsHighest DEF PassComputes

LEMMA RankInitInv == Init => RankInv
<1> SUFFICES ASSUME Init PROVE RankInv
  OBVIOUS
<1>1. RankTypeOK
  BY DEF Init, RankTypeOK, Ranks
<1> QED
  BY <1>1 DEF Init, RankInv, TeamIsRead, HoldersValid, TiersSettled, Rising, OnePassPerTier, RankHasBadge

LEMMA BeginInv == ASSUME RankInv, Begin PROVE RankInv'
<1> USE DEF RankInv, Begin
<1>1. RankTypeOK'
  <2>1. \A u \in Users : Downline(u) \subseteq Users
    BY DownlineIsChains
  <2> QED
    BY <2>1 DEF RankTypeOK, Ranks
<1>2. HoldersValid'
  BY DEF HoldersValid
<1>3. TiersSettled'
  BY DEF TiersSettled
<1>4. Rising'
  <2>1. \A u \in Users : NextRank(u)' \in Ranks /\ rankOf'[u] = "unranked"
    <3>1. (RankTypeOK => PassComputes)'
      BY TypedPassComputes, PTL
    <3> QED
      BY <1>1, <3>1 DEF PassComputes
  <2> QED
    BY <2>1, RankIndexValues, RankIndexType DEF Rising
<1>5. OnePassPerTier'
  BY DEF OnePassPerTier
<1>6. RankHasBadge'
  BY DEF RankHasBadge
<1>7. TeamIsRead'
  <2>1. \A u \in Users : Downline(u)' = Downline(u)
    BY DEF Downline, Generations
  <2> QED
    BY <2>1 DEF TeamIsRead
<1> QED
  BY <1>1, <1>2, <1>3, <1>4, <1>5, <1>6, <1>7

\* Counts over a team grow with the ranks in it.
LEMMA MetricRises ==
    ASSUME RankTypeOK, RankTypeOK', UNCHANGED <<parent, account, team>>,
           \A d \in Users : RankIndex(rankOf'[d]) >= RankIndex(rankOf[d]),
           NEW u \in Users, NEW m \in Metrics
    PROVE  Metric(u, m)' >= Metric(u, m)
<1>1. ASSUME NEW r \in QualifyingRanks
      PROVE  TeamCount(u, r)' >= TeamCount(u, r)
  <2> DEFINE Now == {d \in team[u] : Valid(d) /\ rankOf[d] \in AtLeast(r)}
             Then == {d \in team[u] : Valid(d) /\ rankOf'[d] \in AtLeast(r)}
  <2>1. Now \subseteq Then
    <3> SUFFICES ASSUME NEW d \in Now PROVE rankOf'[d] \in AtLeast(r)
      OBVIOUS
    <3>1. /\ d \in Users /\ rankOf[d] \in Ranks /\ rankOf'[d] \in Ranks /\ r \in Ranks
          /\ RankIndex(rankOf[d]) >= RankIndex(r)
          /\ RankIndex(rankOf'[d]) >= RankIndex(rankOf[d])
      BY DEF RankTypeOK, AtLeast, QualifyingRanks
    <3> QED
      BY <3>1, RankIndexType DEF AtLeast
  <2>2. Now \in SUBSET Users /\ Then \in SUBSET Users
    BY DEF RankTypeOK
  <2>3. TeamCount(u, r) = Cardinality(Now) /\ TeamCount(u, r)' = Cardinality(Then)
    BY DEF TeamCount, Valid
  <2> HIDE DEF Now, Then
  <2> QED
    BY <2>1, <2>2, <2>3, CountMonotone, CountType
<1>2. CASE m \in {"verified_users", "active_subscribers"}
  <2>1. Metric(u, m)' = Metric(u, m)
    BY <1>2 DEF Metric, Direct, Valid
  <2> QED
    BY <2>1, MetricType
<1>3. CASE m \in {"qualified_members", "qualified_guides", "qualified_leaders"}
  BY <1>1, <1>3 DEF Metric, QualifyingRanks, Ranks
<1> QED
  BY <1>2, <1>3 DEF Metrics

\* Once every tier is settled a pass changes nothing.
LEMMA AllSettled ==
    ASSUME RankInv, pc = "iterating", passes = 4
    PROVE  NextRanks = rankOf
<1>1. /\ Holding("member") = Members /\ Holding("guide") = Guides
      /\ Holding("leader") = Leaders /\ Holding("ranger") = Rangers
  BY DEF RankInv, TiersSettled
<1>2. \A d \in Users : rankOf[d] # "unranked" => Valid(d)
  BY DEF RankInv, HoldersValid
<1>3. \A r \in QualifyingRanks : {u \in Users : NextRank(u) \in AtLeast(r)} = Holding(r)
  BY <1>1, <1>2, NextMembers, NextGuides, NextLeaders, NextRangers
     DEF RankInv, QualifyingRanks, Ranks
<1>4. \A u \in Users : NextRank(u) \in Ranks /\ rankOf[u] \in Ranks
  BY NextRankType DEF RankInv, RankTypeOK
<1>5. \A u \in Users : NextRank(u) = rankOf[u]
  <2> TAKE u \in Users
  <2>1. \A r \in QualifyingRanks : NextRank(u) \in AtLeast(r) <=> rankOf[u] \in AtLeast(r)
    BY <1>3 DEF Holding
  <2> QED
    BY <2>1, <1>4, TiersTellRanks
<1> QED
  BY <1>5 DEF NextRanks, RankInv, RankTypeOK

\* A pass can be made at most once for each tier.
LEMMA PassesLeft == ASSUME RankInv, Pass PROVE passes \in 0..3
<1>1. passes \in 0..4
  BY DEF RankInv, RankTypeOK, OnePassPerTier
<1>2. passes # 4
  BY AllSettled DEF Pass
<1> QED
  BY <1>1, <1>2

LEMMA PassInv == ASSUME RankInv, Pass PROVE RankInv'
<1>1. RankTypeOK'
  BY NextRankType DEF RankInv, Pass, RankTypeOK, NextRanks
<1>2. \A u \in Users : rankOf'[u] = NextRank(u)
  BY DEF Pass, NextRanks
<1>3. /\ \A u : Valid(u)' <=> Valid(u)
      /\ \A u : Downline(u)' = Downline(u)
      /\ Members' = Members /\ Guides' = Guides /\ Leaders' = Leaders /\ Rangers' = Rangers
  BY TiersStand DEF Pass
<1>4. HoldersValid'
  BY <1>2, <1>3 DEF HoldersValid, NextRank
<1>5. TiersSettled'
  <2>1. passes \in 0..3 /\ passes' = passes + 1
    BY PassesLeft DEF Pass
  <2>2. \A r \in Ranks : Holding(r)' = {u \in Users : NextRank(u) \in AtLeast(r)}
    BY <1>2 DEF Holding
  <2>3. \A d \in Users : rankOf[d] # "unranked" => Valid(d)
    BY DEF RankInv, HoldersValid, Pass
  <2>4. Holding("member")' = Members
    BY <2>2, NextMembers DEF RankInv, Ranks
  <2>5. /\ passes >= 1 => Holding("member") = Members
        /\ passes >= 2 => Holding("member") = Members /\ Holding("guide") = Guides
        /\ passes >= 3 => /\ Holding("member") = Members /\ Holding("guide") = Guides
                          /\ Holding("leader") = Leaders
    BY <2>1 DEF RankInv, TiersSettled, Pass
  <2>6. passes >= 1 => Holding("guide")' = Guides
    BY <2>2, <2>3, <2>5, NextGuides DEF RankInv, Ranks
  <2>7. passes >= 2 => Holding("leader")' = Leaders
    BY <2>2, <2>3, <2>5, NextLeaders DEF RankInv, Ranks
  <2>8. passes >= 3 => Holding("ranger")' = Rangers
    BY <2>2, <2>3, <2>5, NextRangers DEF RankInv, Ranks
  <2> QED
    BY <1>3, <2>1, <2>4, <2>6, <2>7, <2>8 DEF TiersSettled
<1>6. Rising'
  <2> SUFFICES ASSUME NEW u \in Users
               PROVE  RankIndex(NextRank(u)') >= RankIndex(NextRank(u))
    BY <1>2 DEF Rising
  <2>1. \A m \in Metrics : Metric(u, m)' >= Metric(u, m)
    <3>1. \A d \in Users : RankIndex(rankOf'[d]) >= RankIndex(rankOf[d])
      BY <1>2 DEF RankInv, Rising, Pass
    <3> QED
      BY <1>1, <3>1, MetricRises DEF RankInv, Pass
  <2>2. PassComputes /\ PassComputes'
    <3>1. (RankTypeOK => PassComputes)'
      BY TypedPassComputes, PTL
    <3> QED
      BY <1>1, <3>1, TypedPassComputes DEF RankInv
  <2>3. CASE NextRank(u) = "unranked"
    BY <2>2, <2>3, RankIndexValues, RankIndexType DEF PassComputes
  <2>4. CASE NextRank(u) # "unranked"
    <3>1. Valid(u) /\ Valid(u)'
      BY <2>4, <1>3 DEF NextRank
    <3>2. \A m \in Metrics : Metric(u, m) >= Need[NextRank(u)][m]
      BY <2>2, <2>4, <3>1 DEF Qualifies, PassComputes
    <3>3. NextRank(u) \in QualifyingRanks
      BY <2>2, <2>4 DEF QualifyingRanks, PassComputes
    <3>4. \A m \in Metrics : Metric(u, m) \in Nat /\ Metric(u, m)' \in Nat
      BY <2>2 DEF PassComputes
    <3>5. \A m \in Metrics : Metric(u, m)' >= Need[NextRank(u)][m]
      BY <2>1, <3>2, <3>3, <3>4
    <3>6. \A r \in Ranks : (\A m \in Metrics : Metric(u, m)' >= Need[r][m]) => Qualifies(u, r)'
      BY DEF Qualifies
    <3>7. NextRank(u)' \in AtLeast(NextRank(u))
      BY <2>2, <3>1, <3>5, <3>6 DEF PassComputes
    <3> QED
      BY <3>7 DEF AtLeast
  <2> QED
    BY <2>3, <2>4
<1>7. OnePassPerTier'
  BY PassesLeft DEF Pass, OnePassPerTier
<1>8. RankHasBadge'
  BY DEF RankInv, Pass, RankHasBadge
<1>9. TeamIsRead'
  BY <1>3 DEF RankInv, Pass, TeamIsRead
<1> QED
  BY <1>1, <1>4, <1>5, <1>6, <1>7, <1>8, <1>9 DEF RankInv

LEMMA SaveInv == ASSUME RankInv, Save PROVE RankInv'
<1>1. RankTypeOK'
  BY DEF RankInv, Save, RankTypeOK
<1>2. HoldersValid' /\ TiersSettled' /\ Rising' /\ TeamIsRead' /\ OnePassPerTier'
  BY DEF RankInv, Save, HoldersValid, TiersSettled, Rising, TeamIsRead, OnePassPerTier
<1>3. RankHasBadge'
  <2> SUFFICES ASSUME NEW u \in Users, stats'[u] # "unranked"
               PROVE  \E r \in AtLeast(stats'[u]) : <<u, r>> \in badges'
    BY DEF RankHasBadge
  <2>1. stats'[u] = rankOf[u] /\ rankOf[u] \in Ranks /\ stats[u] \in Ranks
    BY DEF Save, RankInv, RankTypeOK
  <2>2. CASE Promoted(u)
    <3>1. <<u, rankOf[u]>> \in badges'
      BY <2>2 DEF Save
    <3>2. rankOf[u] \in AtLeast(rankOf[u])
      BY <2>1, RankIndexType DEF AtLeast
    <3> QED
      BY <2>1, <3>1, <3>2
  <2>3. CASE ~Promoted(u)
    <3>1. RankIndex(rankOf[u]) <= RankIndex(stats[u])
      BY <2>1, <2>3, RankIndexType DEF Promoted
    <3>2. stats[u] # "unranked"
      BY <2>1, <3>1, RankIndexValues DEF Ranks
    <3>3. PICK r \in AtLeast(stats[u]) : <<u, r>> \in badges
      BY <3>2 DEF RankInv, RankHasBadge
    <3>4. r \in AtLeast(rankOf[u])
      BY <2>1, <3>1, RankIndexType DEF AtLeast
    <3> QED
      BY <2>1, <3>3, <3>4 DEF Save
  <2> QED
    BY <2>2, <2>3
<1> QED
  BY <1>1, <1>2, <1>3 DEF RankInv

LEMMA IdleKeepsInv ==
    ASSUME RankInv, RankTypeOK', pc' = "idle", UNCHANGED <<passes, stats, badges>>
    PROVE  RankInv'
  BY DEF RankInv, HoldersValid, TiersSettled, Rising, TeamIsRead, OnePassPerTier, RankHasBadge

LEMMA StutterInv == ASSUME RankInv, UNCHANGED vars PROVE RankInv'
<1> USE DEF vars
<1>1. RankTypeOK' /\ OnePassPerTier' /\ RankHasBadge'
  BY DEF RankInv, RankTypeOK, OnePassPerTier, RankHasBadge
<1>2. /\ \A u : Valid(u)' <=> Valid(u)
      /\ \A u : Direct(u)' = Direct(u)
      /\ \A u : Downline(u)' = Downline(u)
      /\ Members' = Members /\ Guides' = Guides /\ Leaders' = Leaders /\ Rangers' = Rangers
  BY TiersStand
<1>3. HoldersValid' /\ TeamIsRead'
  BY <1>2 DEF RankInv, HoldersValid, TeamIsRead
<1>4. TiersSettled'
  BY <1>2 DEF RankInv, TiersSettled, Holding
<1>5. Rising'
  <2>1. \A u : NextRank(u)' = NextRank(u)
    BY DEF NextRank, Qualifies, Metric, TeamCount, Valid, Direct
  <2> QED
    BY <2>1 DEF RankInv, Rising
<1> QED
  BY <1>1, <1>3, <1>4, <1>5 DEF RankInv

LEMMA RankNextInv == RankInv /\ [Next]_vars => RankInv'
<1> SUFFICES ASSUME RankInv, [Next]_vars PROVE RankInv'
  OBVIOUS
<1>1. CASE Begin
  BY <1>1, BeginInv
<1>2. CASE Pass
  BY <1>2, PassInv
<1>3. CASE Save
  BY <1>3, SaveInv
<1>4. CASE Fail
  BY <1>4, IdleKeepsInv DEF Fail, RankInv, RankTypeOK
<1>5. CASE AccountsChange
  BY <1>5, IdleKeepsInv DEF AccountsChange, RankInv, RankTypeOK
<1>6. CASE UNCHANGED vars
  BY <1>6, StutterInv
<1> QED
  BY <1>1, <1>2, <1>3, <1>4, <1>5, <1>6 DEF Next

\* Every reachable state of a recomputation satisfies the invariant.
THEOREM RankInvariance == Spec => []RankInv
  BY RankInitInv, RankNextInv, PTL DEF Spec

\* Ranks, badges and teams have their types.
THEOREM RankTypeCorrect == Spec => []RankTypeOK
<1>1. RankInv => RankTypeOK
  BY DEF RankInv
<1> QED
  BY <1>1, RankInvariance, PTL

\* The iteration needs at most one pass for each tier, whatever the tree.
THEOREM OnePassPerTierAlways == Spec => []OnePassPerTier
<1>1. RankInv => OnePassPerTier
  BY DEF RankInv
<1> QED
  BY <1>1, RankInvariance, PTL

\* Nobody is shown a rank without a badge for it or for a higher one.
THEOREM RankHasBadgeAlways == Spec => []RankHasBadge
<1>1. RankInv => RankHasBadge
  BY DEF RankInv
<1> QED
  BY <1>1, RankInvariance, PTL

\* Within a recomputation nobody loses a rank from one pass to the next.
THEOREM RanksOnlyRiseAlways == Spec => RanksOnlyRise
<1>1. ASSUME RankInv, [Next]_vars, pc = "iterating", NEW u \in Users
      PROVE  RankIndex(rankOf'[u]) >= RankIndex(rankOf[u])
  <2>1. CASE Pass
    BY <1>1, <2>1 DEF Pass, NextRanks, RankInv, Rising
  <2>2. CASE UNCHANGED rankOf
    <3>1. rankOf[u] \in Ranks /\ rankOf'[u] = rankOf[u]
      BY <1>1, <2>2 DEF RankInv, RankTypeOK
    <3>2. RankIndex(rankOf[u]) \in Int
      BY <3>1, RankIndexType
    <3> QED
      BY <3>1, <3>2
  <2>3. Pass \/ UNCHANGED rankOf
    BY <1>1 DEF Next, vars, Begin, Save, Fail, AccountsChange
  <2> QED
    BY <2>1, <2>2, <2>3
<1>2. RankInv /\ [Next]_vars =>
        [pc = "iterating" =>
            \A u \in Users : RankIndex(rankOf'[u]) >= RankIndex(rankOf[u])]_vars
  BY <1>1
<1> QED
  BY <1>2, RankInvariance, PTL DEF Spec, RanksOnlyRise

\* Ranks that a pass does not change are those of the tier-by-tier definition.
LEMMA SettledIsTiered ==
    ASSUME RankTypeOK, NextRanks = rankOf, NEW u \in Users
    PROVE  rankOf[u] = Tiered(u)
<1>1. \A d \in Users : NextRank(d) = rankOf[d]
  BY DEF NextRanks
<1>2. \A d \in Users : rankOf[d] # "unranked" => Valid(d)
  BY <1>1 DEF NextRank
<1>3. \A r : Holding(r) = {d \in Users : NextRank(d) \in AtLeast(r)}
  BY <1>1 DEF Holding
<1>4. Holding("member") = Members
  BY <1>3, NextMembers
<1>5. Holding("guide") = Guides
  BY <1>2, <1>3, <1>4, NextGuides
<1>6. Holding("leader") = Leaders
  BY <1>2, <1>3, <1>4, <1>5, NextLeaders
<1>7. Holding("ranger") = Rangers
  BY <1>2, <1>3, <1>4, <1>5, <1>6, NextRangers
<1>8. /\ rankOf[u] \in Ranks
      /\ rankOf[u] \in {"member", "guide", "leader", "ranger"} <=> u \in Members
      /\ rankOf[u] \in {"guide", "leader", "ranger"} <=> u \in Guides
      /\ rankOf[u] \in {"leader", "ranger"} <=> u \in Leaders
      /\ rankOf[u] \in {"ranger"} <=> u \in Rangers
  BY <1>4, <1>5, <1>6, <1>7, AtLeastValues DEF Holding, RankTypeOK
<1> QED
  BY <1>8 DEF Tiered, Ranks

\* A recomputation stores the tier-by-tier ranks, for every tree, every mix of
\* accounts and every requirements: no cap on the passes ends it before.
THEOREM RanksAreTieredAlways == Spec => RanksAreTiered
<1>1. ASSUME RankInv, Save, NEW u \in Users
      PROVE  stats'[u] = Tiered(u)
  <2>1. passes \in 0..4 /\ MaxDepth \in Nat /\ MaxDepth >= 4
    BY <1>1 DEF RankInv, RankTypeOK, OnePassPerTier
  <2>2. NextRanks = rankOf
    BY <1>1, <2>1, AllSettled DEF Save
  <2> QED
    BY <1>1, <2>2, SettledIsTiered DEF RankInv, Save
<1>2. RankInv /\ [Next]_vars => [Save => \A u \in Users : stats'[u] = Tiered(u)]_vars
  BY <1>1
<1> QED
  BY <1>2, RankInvariance, PTL DEF Spec, RanksAreTiered

\* A team that a recomputation has read is everybody who can be reached by one
\* to MaxDepth referrals, over which the recursive query runs.
THEOREM TeamIsReachable ==
    Spec => [](pc = "iterating" =>
        \A u \in Users :
            team[u] = {d \in Users : \E n \in 1..MaxDepth : Chain(u, n, d)})
<1>1. RankInv => (pc = "iterating" =>
        \A u \in Users :
            team[u] = {d \in Users : \E n \in 1..MaxDepth : Chain(u, n, d)})
  BY DownlineIsChains DEF RankInv, TeamIsRead
<1> QED
  BY <1>1, RankInvariance, PTL

\* In a tree no deeper than the query goes, a team is the users that its head
\* has referred together with their teams.
THEOREM TeamIsWholeAlways == Spec => [](Shallow => TeamIsWhole)
<1>1. RankInv => (Shallow => TeamIsWhole)
  <2> SUFFICES ASSUME RankInv, Shallow, pc = "iterating", NEW u \in Users
               PROVE  team[u] = UNION {{c} \cup team[c] : c \in {d \in Users : parent[d] = u}}
    BY DEF TeamIsWhole
  <2>1. \A v \in Users : team[v] = Downline(v)
    BY DEF RankInv, TeamIsRead
  <2>2. Downline(u) = UNION {{c} \cup Downline(c) : c \in {d \in Users : parent[d] = u}}
    BY DownlineUnfolds
  <2> QED
    BY <2>1, <2>2
<1> QED
  BY <1>1, RankInvariance, PTL

-----------------------------------------------------------------------------
(***************************************************************************)
(* The monthly rewards.                                                    *)
(***************************************************************************)
HIDE RankAssumption
USE RewardAssumption

\* The sum of a function that is c on T and 0 elsewhere.
LEMMA FlatSum ==
    ASSUME NEW S, IsFiniteSet(S), NEW T \in SUBSET S, NEW c \in Nat, NEW f,
           \A x \in S : f[x] = IF x \in T THEN c ELSE 0
    PROVE  SumFunctionOnSet(f, S) = c * Cardinality(T)
<1> DEFINE first(s) == CHOOSE x \in s : TRUE
           sum == CHOOSE g : g = [s \in SUBSET S |->
                      IF s = {} THEN 0 ELSE f[first(s)] + g[s \ {first(s)}]]
           flat == [s \in SUBSET S |-> c * Cardinality(s \cap T)]
<1>1. SumFunctionOnSet(f, S) = sum[S]
  BY DEF SumFunctionOnSet, FoldFunctionOnSet, MapThenFoldSet
<1>2. ASSUME NEW s \in SUBSET S
      PROVE  /\ s = {} => flat[s] = 0
             /\ s # {} => flat[s] = f[first(s)] + flat[s \ {first(s)}]
  <2>1. IsFiniteSet(s \cap T) /\ Cardinality(s \cap T) \in Nat
    BY FS_Subset, FS_CardinalityType
  <2>2. CASE s = {}
    <3>1. s \cap T = {} /\ Cardinality({}) = 0
      BY <2>2, FS_EmptySet
    <3> QED
      BY <2>2, <3>1
  <2>3. CASE s # {}
    <3> DEFINE x == first(s)
    <3>1. x \in s /\ x \in S /\ s \ {x} \in SUBSET S
      BY <2>3
    <3> HIDE DEF x
    <3>2. CASE x \in T
      <4>1. (s \ {x}) \cap T = (s \cap T) \ {x} /\ x \in s \cap T
        BY <3>1, <3>2
      <4>2. Cardinality((s \ {x}) \cap T) = Cardinality(s \cap T) - 1
        <5> HIDE DEF first, flat, sum
        <5>1. Cardinality((s \cap T) \ {x}) = Cardinality(s \cap T) - 1
          BY <2>1, <4>1, FS_RemoveElement
        <5> QED
          BY <4>1, <5>1
      <4>3. c * Cardinality(s \cap T) = c + c * (Cardinality(s \cap T) - 1)
        BY <2>1
      <4>4. f[x] = c
        BY <3>1, <3>2
      <4>5. flat[s] = f[x] + flat[s \ {x}]
        BY <3>1, <4>2, <4>3, <4>4
      <4> QED
        BY <2>3, <4>5 DEF x
    <3>3. CASE x \notin T
      <4>1. (s \ {x}) \cap T = s \cap T
        BY <3>3
      <4>2. f[x] = 0 /\ c * Cardinality(s \cap T) \in Nat
        BY <2>1, <3>1, <3>3
      <4>3. flat[s] = c * Cardinality(s \cap T) /\ flat[s \ {x}] = c * Cardinality(s \cap T)
        BY <3>1, <4>1
      <4>4. flat[s] = f[x] + flat[s \ {x}]
        <5> HIDE DEF flat
        <5> QED
          BY <4>2, <4>3
      <4> QED
        BY <2>3, <4>4 DEF x
    <3> QED
      BY <3>2, <3>3
  <2> QED
    BY <2>2, <2>3
<1>3. flat = [s \in SUBSET S |->
                  IF s = {} THEN 0 ELSE f[first(s)] + flat[s \ {first(s)}]]
  <2> HIDE DEF first
  <2>1. \A s \in SUBSET S :
            flat[s] = IF s = {} THEN 0 ELSE f[first(s)] + flat[s \ {first(s)}]
    BY <1>2
  <2>2. flat = [s \in SUBSET S |-> flat[s]]
    OBVIOUS
  <2> HIDE DEF flat
  <2> QED
    BY <2>1, <2>2
<1>4. sum = [s \in SUBSET S |->
                 IF s = {} THEN 0 ELSE f[first(s)] + sum[s \ {first(s)}]]
  <2> HIDE DEF flat, first
  <2> QED
    BY <1>3
<1> HIDE DEF flat, sum
<1>5. \A s \in SUBSET S : sum[s] = flat[s]
  <2> DEFINE Wrong == {s \in SUBSET S : sum[s] # flat[s]}
  <2>1. Wrong \subseteq FiniteSubsetsOf(S)
    BY FS_Subset DEF FiniteSubsetsOf
  <2>2. IsWellFoundedOn(StrictSubsetOrdering(S), FiniteSubsetsOf(S))
    BY FS_StrictSubsetOrderingWellFounded
  <2>3. ASSUME Wrong # {} PROVE FALSE
    <3> HIDE DEF Wrong
    <3>1. PICK s \in Wrong : \A t \in Wrong : <<t, s>> \notin StrictSubsetOrdering(S)
      BY <2>1, <2>2, <2>3, WFMin
    <3> USE DEF Wrong
    <3>2. s \in SUBSET S /\ sum[s] # flat[s]
      BY <3>1
    <3>3. s # {}
      BY <1>2, <1>4, <3>2
    <3> DEFINE x == first(s)
    <3>4. x \in s
      BY <3>3
    <3> HIDE DEF x, Wrong
    <3>5. s \ {x} \in SUBSET S /\ <<s \ {x}, s>> \in StrictSubsetOrdering(S)
      BY <3>2, <3>4 DEF StrictSubsetOrdering
    <3>6. sum[s \ {x}] = flat[s \ {x}]
      BY <3>1, <3>5 DEF Wrong
    <3>7. sum[s] = f[x] + sum[s \ {x}] /\ flat[s] = f[x] + flat[s \ {x}]
      BY <1>2, <1>4, <3>2, <3>3 DEF x
    <3> QED
      BY <3>2, <3>6, <3>7
  <2> QED
    BY <2>3
<1>6. S \in SUBSET S /\ S \cap T = T
  OBVIOUS
<1>7. flat[S] = c * Cardinality(T)
  BY <1>6 DEF flat
<1> QED
  BY <1>1, <1>5, <1>6, <1>7

(***************************************************************************)
(* The invariant of the monthly rewards.                                   *)
(***************************************************************************)

\* The local states of a run.
Runs == [pool : Pools \cup {"idle", "commit"}, listed : SUBSET Users,
         rangers : SUBSET Users, amount : Nat, allocated : Nat, rows : SUBSET Rows]

\* The pools in which a run that is at a pool can have inserted rows.
Visited(pool) ==
    CASE pool = "idle"   -> {}
      [] pool = "leader" -> {"leader"}
      [] pool = "ranger" -> {"leader", "ranger"}
      [] pool = "member" -> {"leader", "ranger", "member"}
      [] pool = "guide"  -> Pools
      [] pool = "commit" -> Pools

\* One run: no list without a pool, no row for a user it still has to handle,
\* and a flat amount for leaders.
RunOK(r) ==
    /\ r.pool = "idle" => r = IdleEval
    /\ r.pool \notin Pools => r.listed = {}
    /\ r.pool = "leader" => r.amount = LeaderReward
    /\ \A row \in r.rows :
          /\ row.pool \in Visited(r.pool)
          /\ row.pool = r.pool => row.user \notin r.listed
          /\ row.pool = "leader" => row.amount = LeaderReward

RunsOK == \A e \in Evals : RunOK(eval[e])

LeadersAreFlat ==
    \A u \in Users : reward[<<"leader", u>>].amount =
        IF reward[<<"leader", u>>].status = "none" THEN 0 ELSE LeaderReward

RunsAlone ==
    ~overlapped => \A e, f \in Evals :
        (eval[e].pool # "idle" /\ eval[f].pool # "idle") => e = f

Rewarded == {u \in Users : reward[<<"leader", u>>].status # "none"}
Inserted(r) == {u \in Users : \E row \in r.rows : row.pool = "leader" /\ row.user = u}

\* A run that is alone counts every leader reward there is or that it inserts.
CapIsCounted ==
    (LeaderCap > 0 /\ ~overlapped) =>
        /\ LeaderReward * Cardinality(Rewarded) <= LeaderCap
        /\ \A e \in Evals : eval[e].pool # "idle" =>
              /\ eval[e].allocated =
                     LeaderReward * Cardinality(Rewarded \cup Inserted(eval[e]))
              /\ eval[e].allocated <= LeaderCap

RewardInv ==
    /\ RewardTypeOK /\ RunsOK /\ RowsAreNew
    /\ LeadersAreFlat /\ RunsAlone /\ CapIsCounted

LEMMA RunsType == RewardTypeOK => eval \in [Evals -> Runs]
  BY DEF RewardTypeOK, Runs

LEMMA AllocatedIsFlat ==
    ASSUME RewardTypeOK, LeadersAreFlat
    PROVE  Allocated("leader") = LeaderReward * Cardinality(Rewarded)
<1> DEFINE f == [u \in Users |-> reward[<<"leader", u>>].amount]
<1>1. Rewarded \in SUBSET Users /\ IsFiniteSet(Users) /\ LeaderReward \in Nat
  BY DEF Rewarded, RewardAssumption
<1>2. \A u \in Users : f[u] = IF u \in Rewarded THEN LeaderReward ELSE 0
  BY DEF LeadersAreFlat, Rewarded
<1> HIDE DEF f
<1>3. SumFunctionOnSet(f, Users) = LeaderReward * Cardinality(Rewarded)
  BY <1>1, <1>2, FlatSum
<1> QED
  BY <1>3 DEF Allocated, f

\* Sets of users are finite.
LEMMA UsersAreFinite ==
    ASSUME NEW S \in SUBSET Users
    PROVE  IsFiniteSet(S) /\ Cardinality(S) \in Nat
  BY FS_Subset, FS_CardinalityType DEF RewardAssumption

LEMMA ShareType ==
    ASSUME RewardTypeOK, NEW n \in Nat \ {0}
    PROVE  Share(n) \in Nat
<1>1. revenue \in Nat /\ Percentage \in Nat /\ UserCap \in Nat
  BY DEF RewardTypeOK, RewardAssumption
<1> DEFINE a == 2 * revenue * Percentage + 100 * n
           b == 200 * n
<1>2. a \in Nat
  <2>1. 2 * revenue \in Nat /\ 100 * n \in Nat
    BY <1>1
  <2>2. (2 * revenue) * Percentage \in Nat
    BY <1>1, <2>1
  <2> QED
    BY <2>1, <2>2
<1>3. b \in Nat /\ b > 0
  OBVIOUS
<1> HIDE DEF a, b
<1>4. a \div b \in Nat
  BY <1>2, <1>3
<1> QED
  BY <1>1, <1>4 DEF Share, a, b

LEMMA IdleRun ==
    /\ IdleEval \in Runs /\ RunOK(IdleEval) /\ Inserted(IdleEval) = {}
    /\ IdleEval.pool = "idle" /\ IdleEval.rows = {}
<1>1. IdleEval \in Runs
  BY DEF IdleEval, Runs
<1>2. RunOK(IdleEval) /\ Inserted(IdleEval) = {}
  BY DEF IdleEval, RunOK, Inserted, Pools, QualifyingRanks, Ranks
<1> QED
  BY <1>1, <1>2 DEF IdleEval

LEMMA RewardInitInv == RewardInit => RewardInv
<1> SUFFICES ASSUME RewardInit PROVE RewardInv
  OBVIOUS
<1> USE DEF RewardInit
<1>1. RewardTypeOK
  <2>1. reward \in [Pools \X Users -> [status : RewardStatuses, amount : Nat]]
    BY DEF RewardStatuses, NoReward
  <2>2. eval \in [Evals -> Runs]
    BY IdleRun
  <2>3. revenue \in 0..MaxRevenue
    BY DEF RewardAssumption
  <2> QED
    BY <2>1, <2>2, <2>3 DEF RewardTypeOK, Runs
<1>2. RunsOK /\ RowsAreNew /\ RunsAlone
  BY IdleRun DEF RunsOK, RowsAreNew, RunsAlone
<1>3. LeadersAreFlat
  BY DEF LeadersAreFlat, NoReward, Pools, QualifyingRanks, Ranks
<1>4. CapIsCounted
  <2>1. Rewarded = {}
    BY DEF Rewarded, NoReward, Pools, QualifyingRanks, Ranks
  <2>2. LeaderReward * Cardinality(Rewarded) = 0
    BY <2>1, FS_EmptySet DEF RewardAssumption
  <2>3. \A e \in Evals : eval[e].pool = "idle"
    BY IdleRun
  <2> QED
    BY <2>2, <2>3 DEF CapIsCounted, RewardAssumption
<1> QED
  BY <1>1, <1>2, <1>3, <1>4 DEF RewardInv

\* A step of one run that writes no reward keeps the invariant when it leaves
\* the run in order, a row that it adds is new, and it counts that row.
LEMMA RunMoves ==
    ASSUME RewardInv, NEW e \in Evals, NEW r \in Runs, RunOK(r),
           UNCHANGED <<rank, banned, revenue, reward>>,
           eval' = [eval EXCEPT ![e] = r],
           overlapped' \in BOOLEAN, ~overlapped' => ~overlapped, RunsAlone',
           \A row \in r.rows : row \in eval[e].rows \/
               /\ reward[<<row.pool, row.user>>].status = "none"
               /\ \A f \in Evals : \A other \in eval[f].rows :
                     ~(other.pool = row.pool /\ other.user = row.user),
           \A row, other \in r.rows :
               (other.pool = row.pool /\ other.user = row.user) => other = row,
           (LeaderCap > 0 /\ ~overlapped' /\ r.pool # "idle") =>
               /\ r.allocated = LeaderReward * Cardinality(Rewarded \cup Inserted(r))
               /\ r.allocated <= LeaderCap
    PROVE  RewardInv'
<1>1. eval \in [Evals -> Runs]
  BY RunsType DEF RewardInv
<1>2. eval' \in [Evals -> Runs] /\ eval'[e] = r /\ \A f \in Evals \ {e} : eval'[f] = eval[f]
  BY <1>1
<1>3. RewardTypeOK'
  BY <1>2 DEF RewardInv, RewardTypeOK, Runs
<1>4. RunsOK'
  <2>1. \A f \in Evals : RunOK(eval'[f])
    BY <1>2 DEF RewardInv, RunsOK
  <2> QED
    BY <2>1 DEF RunsOK, RunOK
<1>5. RowsAreNew'
  <2> SUFFICES ASSUME NEW d \in Evals, NEW row \in eval'[d].rows
               PROVE  /\ reward'[<<row.pool, row.user>>].status = "none"
                      /\ \A f \in Evals : \A other \in eval'[f].rows :
                            (other.pool = row.pool /\ other.user = row.user)
                                => (d = f /\ other = row)
    BY DEF RowsAreNew
  <2>1. \A f \in Evals \ {e} : eval'[f].rows = eval[f].rows
    BY <1>2
  <2>2. eval'[e].rows = r.rows /\ reward' = reward
    BY <1>2
  <2>3. CASE d = e /\ row \notin eval[e].rows
    BY <2>1, <2>2, <2>3
  <2>4. CASE row \in eval[d].rows
    BY <2>1, <2>2, <2>4 DEF RewardInv, RowsAreNew
  <2> QED
    BY <2>1, <2>2, <2>3, <2>4
<1>6. LeadersAreFlat'
  BY DEF RewardInv, LeadersAreFlat
<1>7. CapIsCounted'
  <2> SUFFICES ASSUME LeaderCap > 0, ~overlapped', NEW f \in Evals
               PROVE  /\ LeaderReward * Cardinality(Rewarded)' <= LeaderCap
                      /\ eval'[f].pool # "idle" =>
                            /\ eval'[f].allocated = LeaderReward *
                                   Cardinality(Rewarded' \cup Inserted(eval'[f]))
                            /\ eval'[f].allocated <= LeaderCap
    BY DEF CapIsCounted, Inserted
  <2>1. Rewarded' = Rewarded
    BY DEF Rewarded
  <2> HIDE DEF Rewarded, Inserted
  <2>2. CASE f = e
    BY <1>2, <2>1, <2>2 DEF RewardInv, CapIsCounted
  <2>3. CASE f # e
    BY <1>2, <2>1, <2>3 DEF RewardInv, CapIsCounted
  <2> QED
    BY <2>2, <2>3
<1> QED
  BY <1>3, <1>4, <1>5, <1>6, <1>7 DEF RewardInv

LEMMA StartInv == ASSUME RewardInv, NEW e \in Evals, Start(e) PROVE RewardInv'
<1> DEFINE r == [pool |-> "leader",
                 listed |-> IF LeaderReward > 0 THEN {u \in Users : rank[u] = "leader"} ELSE {},
                 rangers |-> {u \in Users : rank[u] = "ranger"},
                 amount |-> LeaderReward, allocated |-> ReadAllocated, rows |-> {}]
<1>1. RewardTypeOK /\ LeadersAreFlat /\ eval \in [Evals -> Runs] /\ LeaderReward \in Nat
  BY RunsType DEF RewardInv, RewardAssumption
<1>2. Rewarded \in SUBSET Users /\ LeaderReward * Cardinality(Rewarded) \in Nat
  <2>1. Rewarded \in SUBSET Users
    BY DEF Rewarded
  <2>2. Cardinality(Rewarded) \in Nat
    BY <2>1, UsersAreFinite
  <2> QED
    BY <1>1, <2>1, <2>2
<1>3. ReadAllocated = IF LeaderCap > 0 THEN LeaderReward * Cardinality(Rewarded) ELSE 0
  BY <1>1, AllocatedIsFlat DEF ReadAllocated
<1>4. r \in Runs
  BY <1>1, <1>2, <1>3 DEF Runs, Pools, QualifyingRanks, Ranks
<1>5. RunOK(r) /\ r.rows = {} /\ Inserted(r) = {} /\ r.pool # "idle"
  <2>1. r.pool = "leader" /\ r.amount = LeaderReward /\ r.rows = {}
    OBVIOUS
  <2> HIDE DEF r
  <2> QED
    BY <2>1 DEF RunOK, Inserted, Pools, QualifyingRanks, Ranks
<1>6. UNCHANGED <<rank, banned, revenue, reward>> /\ eval' = [eval EXCEPT ![e] = r]
  BY DEF Start
<1>7. ~overlapped' => ~overlapped /\ \A f \in Evals : eval[f].pool = "idle"
  BY DEF Start
<1>8. overlapped' \in BOOLEAN
  BY <1>1 DEF Start, RewardTypeOK
<1>9. r.allocated = ReadAllocated
  OBVIOUS
<1> HIDE DEF r
<1>10. RunsAlone'
  <2>1. \A f \in Evals \ {e} : eval'[f] = eval[f]
    BY <1>1, <1>6
  <2> QED
    BY <1>7, <2>1 DEF RunsAlone
<1>11. (LeaderCap > 0 /\ ~overlapped' /\ r.pool # "idle") =>
           /\ r.allocated = LeaderReward * Cardinality(Rewarded \cup Inserted(r))
           /\ r.allocated <= LeaderCap
  <2>1. Rewarded \cup Inserted(r) = Rewarded
    BY <1>5
  <2> QED
    BY <1>3, <1>7, <1>9, <2>1 DEF RewardInv, CapIsCounted
<1> QED
  BY <1>4, <1>5, <1>6, <1>7, <1>8, <1>10, <1>11, RunMoves

\* A step of a run that has started leaves it alone.
LEMMA StaysAlone ==
    ASSUME RewardInv, NEW e \in Evals, NEW r \in Runs,
           eval[e].pool # "idle", eval' = [eval EXCEPT ![e] = r], overlapped' = overlapped
    PROVE  RunsAlone'
<1>1. eval \in [Evals -> Runs]
  BY RunsType DEF RewardInv
<1>2. \A f \in Evals : eval'[f].pool # "idle" => eval[f].pool # "idle"
  BY <1>1
<1> QED
  BY <1>2 DEF RewardInv, RunsAlone

LEMMA AbortInv == ASSUME RewardInv, NEW e \in Evals, Abort(e) PROVE RewardInv'
<1>1. UNCHANGED <<rank, banned, revenue, reward, overlapped>> /\ eval[e].pool # "idle"
  BY DEF Abort
<1>2. eval' = [eval EXCEPT ![e] = IdleEval] /\ overlapped \in BOOLEAN
  BY DEF Abort, RewardInv, RewardTypeOK
<1>3. RunsAlone'
  BY <1>1, <1>2, IdleRun, StaysAlone
<1> QED
  BY <1>1, <1>2, <1>3, IdleRun, RunMoves

LEMMA NextPoolInv == ASSUME RewardInv, NEW e \in Evals, NextPool(e) PROVE RewardInv'
<1> DEFINE pool == Following(eval[e].pool)
           users == IF pool = "commit" THEN {} ELSE Eligible(e, pool)
           share == IF users = {} \/ Percentage = 0 THEN 0 ELSE Share(Cardinality(users))
           r == [eval[e] EXCEPT !.pool = pool,
                     !.listed = IF share > 0 THEN users ELSE {}, !.amount = share]
<1>1. /\ UNCHANGED <<rank, banned, revenue, reward, overlapped>>
      /\ eval' = [eval EXCEPT ![e] = r]
      /\ eval[e].pool \in Pools /\ eval[e].listed = {}
  BY DEF NextPool
<1>2. /\ eval \in [Evals -> Runs] /\ eval[e] \in Runs /\ RunOK(eval[e])
      /\ RewardTypeOK /\ overlapped \in BOOLEAN
  BY RunsType DEF RewardInv, RunsOK, RewardTypeOK
<1>3. /\ pool \in {"ranger", "member", "guide", "commit"} /\ pool # eval[e].pool
      /\ pool \in Pools \cup {"commit"} /\ eval[e].pool # "idle"
      /\ Visited(eval[e].pool) \subseteq Visited(pool) /\ pool \notin Visited(eval[e].pool)
  BY <1>1 DEF Following, Visited, Pools, QualifyingRanks, Ranks
<1>4. users \in SUBSET Users
  BY <1>2 DEF Eligible, Runs
<1> HIDE DEF users, pool
<1>5. share \in Nat
  <2>1. CASE users # {}
    <3>1. IsFiniteSet(users) /\ Cardinality(users) \in Nat
      BY <1>4, UsersAreFinite
    <3>2. Cardinality(users) # 0
      BY <2>1, <3>1, FS_EmptySet
    <3> QED
      BY <1>2, <3>1, <3>2, ShareType
  <2> QED
    BY <2>1
<1>6. pool = "commit" => users = {}
  BY DEF users
<1> HIDE DEF share
<1>7. /\ r \in Runs /\ r.pool = pool /\ r.rows = eval[e].rows
      /\ r.allocated = eval[e].allocated /\ r.listed \in SUBSET users
  BY <1>2, <1>3, <1>4, <1>5 DEF Runs
<1> HIDE DEF r
<1>8. Inserted(r) = Inserted(eval[e])
  BY <1>7 DEF Inserted
<1>9. RunOK(r)
  <2>1. \A row \in r.rows : row.pool # pool
    BY <1>2, <1>3, <1>7 DEF RunOK
  <2> QED
    BY <1>2, <1>3, <1>6, <1>7, <2>1 DEF RunOK
<1>10. RunsAlone'
  BY <1>1, <1>3, <1>7, StaysAlone
<1>11. \A row, other \in r.rows :
           (other.pool = row.pool /\ other.user = row.user) => other = row
  <2>1. RowsAreNew
    BY DEF RewardInv
  <2>2. \A row, other \in eval[e].rows :
            (other.pool = row.pool /\ other.user = row.user) => other = row
    BY <2>1 DEF RowsAreNew
  <2> QED
    BY <1>7, <2>2
<1>12. (LeaderCap > 0 /\ ~overlapped' /\ r.pool # "idle") =>
           /\ r.allocated = LeaderReward * Cardinality(Rewarded \cup Inserted(r))
           /\ r.allocated <= LeaderCap
  BY <1>1, <1>3, <1>7, <1>8 DEF RewardInv, CapIsCounted
<1> QED
  BY <1>1, <1>2, <1>7, <1>9, <1>10, <1>11, <1>12, RunMoves

LEMMA SkipInv ==
    ASSUME RewardInv, NEW e \in Evals, NEW u \in Users, u \in eval[e].listed, Skip(e, u),
           UNCHANGED <<rank, banned, revenue, reward, overlapped>>
    PROVE  RewardInv'
<1> DEFINE r == [eval[e] EXCEPT !.listed = @ \ {u}]
<1>1. /\ eval \in [Evals -> Runs] /\ eval[e] \in Runs /\ RunOK(eval[e])
      /\ overlapped \in BOOLEAN /\ eval' = [eval EXCEPT ![e] = r]
  <2>1. eval' = [eval EXCEPT ![e] = r]
    BY DEF Skip
  <2> HIDE DEF r
  <2> QED
    BY <2>1, RunsType DEF RewardInv, RunsOK, RewardTypeOK
<1>2. /\ r \in Runs /\ r.pool = eval[e].pool /\ r.rows = eval[e].rows
      /\ r.allocated = eval[e].allocated /\ r.amount = eval[e].amount
      /\ r.listed = eval[e].listed \ {u}
  BY <1>1 DEF Runs
<1>3. eval[e].pool \in Pools /\ eval[e].pool # "idle"
  BY <1>1 DEF RunOK, Pools, QualifyingRanks, Ranks
<1> HIDE DEF r
<1>4. RunOK(r) /\ Inserted(r) = Inserted(eval[e])
  BY <1>1, <1>2, <1>3 DEF RunOK, Inserted
<1>5. RunsAlone'
  BY <1>1, <1>2, <1>3, StaysAlone
<1>6. \A row, other \in r.rows :
          (other.pool = row.pool /\ other.user = row.user) => other = row
  <2>1. RowsAreNew
    BY DEF RewardInv
  <2>2. \A row, other \in eval[e].rows :
            (other.pool = row.pool /\ other.user = row.user) => other = row
    BY <2>1 DEF RowsAreNew
  <2> QED
    BY <1>2, <2>2
<1>7. (LeaderCap > 0 /\ ~overlapped' /\ r.pool # "idle") =>
          /\ r.allocated = LeaderReward * Cardinality(Rewarded \cup Inserted(r))
          /\ r.allocated <= LeaderCap
  BY <1>2, <1>3, <1>4 DEF RewardInv, CapIsCounted
<1> QED
  BY <1>1, <1>2, <1>4, <1>5, <1>6, <1>7, RunMoves

\* An insertion: the leader it adds is counted once, and the cap has room.
LEMMA InsertInv ==
    ASSUME RewardInv, NEW e \in Evals, NEW u \in Users, u \in eval[e].listed,
           ~Exhausted(e), ~Inserting(e, u),
           reward[<<eval[e].pool, u>>].status = "none", Insert(e, u),
           UNCHANGED <<rank, banned, revenue, reward, overlapped>>
    PROVE  RewardInv'
<1> DEFINE new == [pool |-> eval[e].pool, user |-> u, amount |-> eval[e].amount]
           r == [eval[e] EXCEPT
                    !.listed = @ \ {u}, !.rows = @ \cup {new},
                    !.allocated = IF eval[e].pool = "leader" THEN @ + LeaderReward ELSE @]
<1>1. /\ eval \in [Evals -> Runs] /\ eval[e] \in Runs /\ RunOK(eval[e])
      /\ overlapped \in BOOLEAN /\ eval' = [eval EXCEPT ![e] = r]
      /\ LeaderReward \in Nat
  <2>1. eval' = [eval EXCEPT ![e] = r]
    BY DEF Insert
  <2> HIDE DEF r
  <2> QED
    BY <2>1, RunsType DEF RewardInv, RunsOK, RewardTypeOK, RewardAssumption
<1>2. eval[e].pool \in Pools /\ eval[e].pool # "idle"
  BY <1>1 DEF RunOK, Pools, QualifyingRanks, Ranks
<1>3. /\ new \in Rows /\ new.pool = eval[e].pool /\ new.user = u
      /\ new.amount = eval[e].amount
  BY <1>1, <1>2 DEF Rows, Runs
<1> HIDE DEF new
<1>4. /\ r \in Runs /\ r.pool = eval[e].pool /\ r.rows = eval[e].rows \cup {new}
      /\ r.amount = eval[e].amount /\ r.listed = eval[e].listed \ {u}
      /\ r.allocated = IF eval[e].pool = "leader" THEN eval[e].allocated + LeaderReward
                                                  ELSE eval[e].allocated
  <2> DEFINE counted == IF eval[e].pool = "leader" THEN eval[e].allocated + LeaderReward
                                                  ELSE eval[e].allocated
  <2>1. /\ eval[e].rows \cup {new} \in SUBSET Rows /\ eval[e].listed \ {u} \in SUBSET Users
        /\ counted \in Nat
    BY <1>1, <1>3 DEF Runs
  <2>2. r = [eval[e] EXCEPT !.listed = eval[e].listed \ {u},
                            !.rows = eval[e].rows \cup {new}, !.allocated = counted]
    OBVIOUS
  <2> HIDE DEF r, counted
  <2>3. /\ r \in Runs /\ r.pool = eval[e].pool /\ r.rows = eval[e].rows \cup {new}
        /\ r.amount = eval[e].amount /\ r.listed = eval[e].listed \ {u}
        /\ r.allocated = counted
    BY <1>1, <2>1, <2>2 DEF Runs
  <2> QED
    BY <2>3 DEF counted
<1> HIDE DEF r
<1>5. RunOK(r)
  <2>1. eval[e].pool \in Visited(eval[e].pool)
    BY <1>2 DEF Visited, Pools, QualifyingRanks, Ranks
  <2> QED
    BY <1>1, <1>2, <1>3, <1>4, <2>1 DEF RunOK
<1>6. RunsAlone'
  BY <1>1, <1>2, <1>4, StaysAlone
<1>7. \A row \in eval[e].rows : ~(row.pool = new.pool /\ row.user = new.user)
  BY <1>1, <1>3 DEF RunOK
<1>8. \A f \in Evals : \A other \in eval[f].rows :
          ~(other.pool = new.pool /\ other.user = new.user)
  BY <1>3, <1>7 DEF Inserting
<1>9. \A row, other \in r.rows :
          (other.pool = row.pool /\ other.user = row.user) => other = row
  <2>1. RowsAreNew
    BY DEF RewardInv
  <2>2. \A row, other \in eval[e].rows :
            (other.pool = row.pool /\ other.user = row.user) => other = row
    BY <2>1 DEF RowsAreNew
  <2> QED
    BY <1>4, <1>7, <2>2
<1>10. ASSUME LeaderCap > 0, ~overlapped'
       PROVE  /\ r.allocated = LeaderReward * Cardinality(Rewarded \cup Inserted(r))
              /\ r.allocated <= LeaderCap
  <2> DEFINE Before == Rewarded \cup Inserted(eval[e])
  <2>1. /\ eval[e].allocated = LeaderReward * Cardinality(Before)
        /\ eval[e].allocated <= LeaderCap
    BY <1>2, <1>10 DEF RewardInv, CapIsCounted
  <2>2. CASE eval[e].pool = "leader"
    <3>1. Inserted(r) = Inserted(eval[e]) \cup {u}
      BY <1>3, <1>4, <2>2 DEF Inserted
    <3>2. u \notin Before
      BY <1>3, <1>7, <2>2 DEF Rewarded, Inserted
    <3>3. Before \in SUBSET Users
      BY DEF Rewarded, Inserted
    <3> HIDE DEF Before
    <3>4. Cardinality(Before \cup {u}) = Cardinality(Before) + 1 /\ Cardinality(Before) \in Nat
      BY <3>2, <3>3, UsersAreFinite, FS_AddElement
    <3>5. Rewarded \cup Inserted(r) = Before \cup {u}
      BY <3>1 DEF Before
    <3>6. LeaderReward * (Cardinality(Before) + 1)
              = LeaderReward * Cardinality(Before) + LeaderReward
      BY <1>1, <3>4
    <3>7. r.allocated = LeaderReward * Cardinality(Rewarded \cup Inserted(r))
      BY <1>4, <2>1, <2>2, <3>4, <3>5, <3>6
    <3>8. eval[e].allocated + LeaderReward <= LeaderCap
      <4>1. eval[e].allocated \in Nat /\ LeaderCap \in Nat
        BY <1>1 DEF Runs, RewardAssumption
      <4>2. ~(eval[e].allocated + LeaderReward > LeaderCap)
        BY <1>10, <2>2 DEF Exhausted
      <4> QED
        BY <1>1, <4>1, <4>2
    <3> QED
      BY <1>4, <2>2, <3>7, <3>8
  <2>3. CASE eval[e].pool # "leader"
    <3>1. Inserted(r) = Inserted(eval[e])
      BY <1>3, <1>4, <2>3 DEF Inserted
    <3> QED
      BY <1>4, <2>1, <2>3, <3>1
  <2> QED
    BY <2>2, <2>3
<1>11. \A row \in r.rows : row \in eval[e].rows \/
           /\ reward[<<row.pool, row.user>>].status = "none"
           /\ \A f \in Evals : \A other \in eval[f].rows :
                 ~(other.pool = row.pool /\ other.user = row.user)
  BY <1>3, <1>4, <1>8
<1> QED
  BY <1>1, <1>4, <1>5, <1>6, <1>9, <1>10, <1>11, RunMoves

LEMMA HandleUserInv ==
    ASSUME RewardInv, NEW e \in Evals, NEW u \in Users, HandleUser(e, u)
    PROVE  RewardInv'
<1>1. u \in eval[e].listed /\ UNCHANGED <<rank, banned, revenue, reward, overlapped>>
  BY DEF HandleUser
<1>2. CASE Skip(e, u)
  BY <1>1, <1>2, SkipInv
<1>3. CASE ~Skip(e, u)
  <2>1. /\ ~Exhausted(e) /\ ~Inserting(e, u) /\ Insert(e, u)
        /\ reward[<<eval[e].pool, u>>].status = "none"
    BY <1>3 DEF HandleUser
  <2> QED
    BY <1>1, <2>1, InsertInv
<1> QED
  BY <1>2, <1>3

\* What a COMMIT makes of the reward of u in a pool.
LEMMA Committed ==
    ASSUME RewardInv, NEW e \in Evals, Commit(e), NEW p \in Pools, NEW u \in Users
    PROVE  /\ (\E row \in eval[e].rows : row.pool = p /\ row.user = u) =>
                  \E row \in eval[e].rows :
                      /\ row.pool = p /\ row.user = u
                      /\ reward'[<<p, u>>] = [status |-> "pending", amount |-> row.amount]
           /\ ~(\E row \in eval[e].rows : row.pool = p /\ row.user = u) =>
                  reward'[<<p, u>>] = reward[<<p, u>>]
<1> DEFINE Of(r) == {row \in eval[e].rows : row.pool = r[1] /\ row.user = r[2]}
           picked(r) == CHOOSE row \in eval[e].rows : row.pool = r[1] /\ row.user = r[2]
<1>1. <<p, u>> \in Pools \X Users /\ <<p, u>>[1] = p /\ <<p, u>>[2] = u
  OBVIOUS
<1>2. reward'[<<p, u>>] =
          IF \E row \in eval[e].rows : row.pool = p /\ row.user = u
          THEN [status |-> "pending", amount |-> picked(<<p, u>>).amount]
          ELSE reward[<<p, u>>]
  BY <1>1 DEF Commit
<1>3. (\E row \in eval[e].rows : row.pool = p /\ row.user = u) =>
          /\ picked(<<p, u>>) \in eval[e].rows
          /\ picked(<<p, u>>).pool = p /\ picked(<<p, u>>).user = u
  BY <1>1
<1> QED
  BY <1>2, <1>3

LEMMA CommitInv == ASSUME RewardInv, NEW e \in Evals, Commit(e) PROVE RewardInv'
<1> DEFINE Writes(p, u) == \E row \in eval[e].rows : row.pool = p /\ row.user = u
<1>1. /\ eval[e].pool = "commit" /\ eval' = [eval EXCEPT ![e] = IdleEval]
      /\ UNCHANGED <<rank, banned, revenue, overlapped>>
  BY DEF Commit
<1>2. /\ eval \in [Evals -> Runs] /\ eval[e].rows \in SUBSET Rows
      /\ RewardTypeOK /\ RunsOK /\ RowsAreNew
  BY RunsType DEF RewardInv, Runs
<1>3. /\ eval' \in [Evals -> Runs] /\ eval'[e] = IdleEval
      /\ \A f \in Evals \ {e} : eval'[f] = eval[f]
  BY <1>1, <1>2, IdleRun
<1>4. RewardTypeOK'
  <2>1. reward' = [r \in Pools \X Users |-> reward'[r]]
    BY DEF Commit
  <2>2. ASSUME NEW p \in Pools, NEW u \in Users
        PROVE  reward'[<<p, u>>] \in [status : RewardStatuses, amount : Nat]
    <3>1. <<p, u>> \in Pools \X Users
      OBVIOUS
    <3>2. CASE Writes(p, u)
      <4>1. PICK row \in eval[e].rows :
                reward'[<<p, u>>] = [status |-> "pending", amount |-> row.amount]
        BY <3>2, Committed
      <4> QED
        BY <1>2, <4>1 DEF Rows, RewardStatuses
    <3>3. CASE ~Writes(p, u)
      <4>1. reward'[<<p, u>>] = reward[<<p, u>>]
        BY <3>3, Committed
      <4> QED
        BY <1>2, <3>1, <4>1 DEF RewardTypeOK
    <3> QED
      BY <3>2, <3>3
  <2>3. reward' \in [Pools \X Users -> [status : RewardStatuses, amount : Nat]]
    <3>1. \A r \in Pools \X Users :
              reward'[r] \in [status : RewardStatuses, amount : Nat]
      BY <2>2
    <3> QED
      BY <2>1, <3>1
  <2> QED
    BY <1>1, <1>2, <1>3, <2>3 DEF RewardTypeOK, Runs
<1>5. RunsOK'
  <2>1. \A f \in Evals : RunOK(eval'[f])
    BY <1>2, <1>3, IdleRun DEF RunsOK
  <2> QED
    BY <2>1 DEF RunsOK, RunOK
<1>6. RowsAreNew'
  <2> SUFFICES ASSUME NEW d \in Evals, NEW row \in eval'[d].rows
               PROVE  /\ reward'[<<row.pool, row.user>>].status = "none"
                      /\ \A f \in Evals : \A other \in eval'[f].rows :
                            (other.pool = row.pool /\ other.user = row.user)
                                => (d = f /\ other = row)
    BY DEF RowsAreNew
  <2>1. d # e /\ row \in eval[d].rows /\ \A f \in Evals : eval'[f].rows \subseteq eval[f].rows
    BY <1>3, IdleRun
  <2>2. ~Writes(row.pool, row.user)
    BY <1>2, <2>1 DEF RowsAreNew
  <2>3. row.pool \in Pools /\ row.user \in Users
    BY <1>2, <2>1 DEF Runs, Rows
  <2>4. reward'[<<row.pool, row.user>>] = reward[<<row.pool, row.user>>]
    BY <2>2, <2>3, Committed
  <2>5. /\ reward[<<row.pool, row.user>>].status = "none"
        /\ \A f \in Evals : \A other \in eval[f].rows :
              (other.pool = row.pool /\ other.user = row.user) => (d = f /\ other = row)
    BY <1>2, <2>1 DEF RowsAreNew
  <2> QED
    BY <2>1, <2>4, <2>5
<1>7. "leader" \in Pools
  BY DEF Pools, QualifyingRanks, Ranks
<1>8. LeadersAreFlat'
  <2> SUFFICES ASSUME NEW u \in Users
               PROVE  reward'[<<"leader", u>>].amount =
                          IF reward'[<<"leader", u>>].status = "none" THEN 0 ELSE LeaderReward
    BY DEF LeadersAreFlat
  <2>1. CASE Writes("leader", u)
    <3>1. PICK row \in eval[e].rows :
              /\ row.pool = "leader"
              /\ reward'[<<"leader", u>>] = [status |-> "pending", amount |-> row.amount]
      BY <1>7, <2>1, Committed
    <3>2. row.amount = LeaderReward
      BY <1>2, <3>1 DEF RunsOK, RunOK
    <3> QED
      BY <3>1, <3>2
  <2>2. CASE ~Writes("leader", u)
    <3>1. reward'[<<"leader", u>>] = reward[<<"leader", u>>]
      BY <1>7, <2>2, Committed
    <3> QED
      BY <3>1 DEF RewardInv, LeadersAreFlat
  <2> QED
    BY <2>1, <2>2
<1>9. RunsAlone'
  <2>1. \A f \in Evals : eval'[f].pool # "idle" => eval[f].pool # "idle"
    BY <1>3, IdleRun
  <2> QED
    BY <1>1, <2>1 DEF RewardInv, RunsAlone
<1>10. CapIsCounted'
  <2> SUFFICES ASSUME LeaderCap > 0, ~overlapped
               PROVE  /\ LeaderReward * Cardinality(Rewarded') <= LeaderCap
                      /\ \A f \in Evals : eval'[f].pool = "idle"
    BY <1>1 DEF CapIsCounted
  <2>1. Rewarded' = Rewarded \cup Inserted(eval[e])
    <3>1. ASSUME NEW u \in Users
          PROVE  reward'[<<"leader", u>>].status # "none" <=>
                     (reward[<<"leader", u>>].status # "none" \/ Writes("leader", u))
      <4>1. CASE Writes("leader", u)
        <5>1. PICK row \in eval[e].rows :
                  reward'[<<"leader", u>>] = [status |-> "pending", amount |-> row.amount]
          BY <1>7, <4>1, Committed
        <5> QED
          BY <4>1, <5>1
      <4>2. CASE ~Writes("leader", u)
        <5>1. reward'[<<"leader", u>>] = reward[<<"leader", u>>]
          BY <1>7, <4>2, Committed
        <5> QED
          BY <4>2, <5>1
      <4> QED
        BY <4>1, <4>2
    <3>2. Rewarded' = {u \in Users : reward'[<<"leader", u>>].status # "none"}
      BY DEF Rewarded
    <3>3. Inserted(eval[e]) = {u \in Users : Writes("leader", u)}
      BY DEF Inserted
    <3> HIDE DEF Writes
    <3> QED
      BY <3>1, <3>2, <3>3 DEF Rewarded
  <2>2. /\ eval[e].allocated = LeaderReward * Cardinality(Rewarded \cup Inserted(eval[e]))
        /\ eval[e].allocated <= LeaderCap
    BY <1>1 DEF RewardInv, CapIsCounted
  <2>3. \A f \in Evals : eval'[f].pool = "idle"
    BY <1>1, <1>3, IdleRun DEF RewardInv, RunsAlone
  <2> QED
    BY <2>1, <2>2, <2>3
<1> QED
  BY <1>4, <1>5, <1>6, <1>8, <1>9, <1>10 DEF RewardInv

\* The guarded UPDATE of an admin changes the status of a reward there is.
LEMMA DecideInv ==
    ASSUME RewardInv, NEW r \in Pools \X Users,
           NEW to \in {"approved", "rejected", "paid"}, Decide(r, to)
    PROVE  RewardInv'
<1>1. /\ reward' = [reward EXCEPT ![r] = [@ EXCEPT !.status = to]]
      /\ reward[r].status # "none" /\ to # "none"
      /\ UNCHANGED <<rank, banned, revenue, eval, overlapped>>
  BY DEF Decide
<1>2. reward \in [Pools \X Users -> [status : RewardStatuses, amount : Nat]]
  BY DEF RewardInv, RewardTypeOK
<1>3. reward' \in [Pools \X Users -> [status : RewardStatuses, amount : Nat]]
  BY <1>1, <1>2 DEF RewardStatuses
<1>4. \A x \in Pools \X Users :
          /\ reward'[x].amount = reward[x].amount
          /\ reward'[x].status = "none" <=> reward[x].status = "none"
  BY <1>1, <1>2
<1>5. RewardTypeOK'
  BY <1>1, <1>3 DEF RewardInv, RewardTypeOK
<1>6. RunsOK' /\ RunsAlone'
  BY <1>1 DEF RewardInv, RunsOK, RunOK, RunsAlone
<1>7. RowsAreNew'
  <2>1. \A e \in Evals : \A row \in eval[e].rows : <<row.pool, row.user>> \in Pools \X Users
    BY RunsType DEF RewardInv, Runs, Rows
  <2> QED
    BY <1>1, <1>4, <2>1 DEF RewardInv, RowsAreNew
<1>8. \A u \in Users : <<"leader", u>> \in Pools \X Users
  BY DEF Pools, QualifyingRanks, Ranks
<1>9. LeadersAreFlat'
  BY <1>4, <1>8 DEF RewardInv, LeadersAreFlat
<1>10. Rewarded' = Rewarded
  BY <1>4, <1>8 DEF Rewarded
<1>11. CapIsCounted'
  BY <1>1, <1>10 DEF RewardInv, CapIsCounted, Inserted
<1> QED
  BY <1>5, <1>6, <1>7, <1>9, <1>11 DEF RewardInv

\* What else changes leaves the rewards and the runs alone.
LEMMA RewardFrame ==
    ASSUME RewardInv, UNCHANGED <<reward, eval, overlapped>>, RewardTypeOK'
    PROVE  RewardInv'
<1>1. RunsOK' /\ RunsAlone' /\ RowsAreNew' /\ LeadersAreFlat'
  BY DEF RewardInv, RunsOK, RunOK, RunsAlone, RowsAreNew, LeadersAreFlat
<1>2. CapIsCounted'
  BY DEF RewardInv, CapIsCounted, Inserted, Rewarded
<1> QED
  BY <1>1, <1>2 DEF RewardInv

LEMMA RewardNextInv == RewardInv /\ [RewardNext]_rewardVars => RewardInv'
<1> SUFFICES ASSUME RewardInv, [RewardNext]_rewardVars PROVE RewardInv'
  OBVIOUS
<1>1. ASSUME NEW e \in Evals, EvalStep(e) PROVE RewardInv'
  <2>1. CASE \E u \in Users : HandleUser(e, u)
    BY <2>1, HandleUserInv
  <2> QED
    BY <1>1, <2>1, StartInv, NextPoolInv, CommitInv, AbortInv DEF EvalStep
<1>2. ASSUME NEW r \in Decided \X Users, NEW to \in {"approved", "rejected", "paid"},
             Decide(r, to)
      PROVE  RewardInv'
  <2>1. r \in Pools \X Users
    BY DEF RewardAssumption
  <2> QED
    BY <1>2, <2>1, DecideInv
<1>3. CASE Recompute
  BY <1>3, RewardFrame DEF Recompute, RewardInv, RewardTypeOK
<1>4. ASSUME NEW u \in Users, Ban(u) PROVE RewardInv'
  BY <1>4, RewardFrame DEF Ban, RewardInv, RewardTypeOK
<1>5. ASSUME NEW amount \in Payments, Earn(amount) PROVE RewardInv'
  <2>1. revenue' \in 0..MaxRevenue
    BY <1>5 DEF Earn, RewardInv, RewardTypeOK, RewardAssumption
  <2> QED
    BY <1>5, <2>1, RewardFrame DEF Earn, RewardInv, RewardTypeOK
<1>6. CASE UNCHANGED rewardVars
  BY <1>6, RewardFrame DEF rewardVars, RewardInv, RewardTypeOK
<1> QED
  BY <1>1, <1>2, <1>3, <1>4, <1>5, <1>6 DEF RewardNext

\* Whatever runs, decisions and changes of rank overlap, a run that has not
\* committed holds only rows that are new, and has counted what it gave out
\* (evaluate_monthly_rewards).
THEOREM RewardInvariance == RewardSpec => []RewardInv
  BY RewardInitInv, RewardNextInv, PTL DEF RewardSpec

\* The rewards, and the local state of every run, keep their shape.
THEOREM RewardTypeCorrect == RewardSpec => []RewardTypeOK
<1>1. RewardInv => RewardTypeOK
  BY DEF RewardInv
<1> QED
  BY <1>1, RewardInvariance, PTL

\* Two runs never insert the reward of one user in one pool twice, for any
\* number of users and of runs that overlap.
THEOREM RowsAreNewAlways == RewardSpec => []RowsAreNew
<1>1. RewardInv => RowsAreNew
  BY DEF RewardInv
<1> QED
  BY <1>1, RewardInvariance, PTL

\* The leader rewards of a period respect the cap, whatever the runs before
\* gave and whoever was promoted or demoted since, unless two runs overlapped.
THEOREM LeaderPoolCappedAlways == RewardSpec => []LeaderPoolCapped
<1>1. RewardInv => LeaderPoolCapped
  BY AllocatedIsFlat DEF RewardInv, CapIsCounted, LeaderPoolCapped
<1> QED
  BY <1>1, RewardInvariance, PTL

\* A later run leaves the amount of a reward alone, and no paid or rejected
\* reward is reopened.
THEOREM RewardsAreKeptAlways == RewardSpec => RewardsAreKept
<1> DEFINE Keeps == \A r \in Pools \X Users : reward[r].status # "none" =>
          /\ reward'[r].amount = reward[r].amount
          /\ reward'[r].status # reward[r].status =>
                <<reward[r].status, reward'[r].status>> \in
                    {<<"pending", "approved">>, <<"pending", "rejected">>,
                     <<"approved", "rejected">>, <<"approved", "paid">>}
<1>1. RewardInv /\ [RewardNext]_rewardVars => [Keeps]_rewardVars
  <2> SUFFICES ASSUME RewardInv, RewardNext PROVE Keeps
    OBVIOUS
  <2>1. CASE reward' = reward
    BY <2>1
  <2>2. ASSUME NEW e \in Evals, Commit(e) PROVE Keeps
    <3> SUFFICES ASSUME NEW p \in Pools, NEW u \in Users, reward[<<p, u>>].status # "none"
                 PROVE  reward'[<<p, u>>] = reward[<<p, u>>]
      OBVIOUS
    <3>1. ~\E row \in eval[e].rows : row.pool = p /\ row.user = u
      BY DEF RewardInv, RowsAreNew
    <3> QED
      BY <2>2, <3>1, Committed
  <2>3. ASSUME NEW r \in Decided \X Users, NEW to \in {"approved", "rejected", "paid"},
               Decide(r, to)
        PROVE  Keeps
    <3>1. reward \in [Pools \X Users -> [status : RewardStatuses, amount : Nat]]
      BY DEF RewardInv, RewardTypeOK
    <3> QED
      BY <2>3, <3>1 DEF Decide
  <2>4. RewardNext => \/ reward' = reward
                      \/ \E e \in Evals : Commit(e)
                      \/ \E r \in Decided \X Users, to \in {"approved", "rejected", "paid"} :
                             Decide(r, to)
    BY DEF RewardNext, EvalStep, Start, NextPool, HandleUser, Abort, Recompute, Ban, Earn
  <2> HIDE DEF Keeps
  <2> QED
    BY <2>1, <2>2, <2>3, <2>4
<1> QED
  BY <1>1, RewardInvariance, PTL DEF RewardSpec, RewardsAreKept
=============================================================================
