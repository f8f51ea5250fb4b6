------------------------------- MODULE Trees -------------------------------
(* A function defined by recursion towards the root of a forest of finite   *)
(* depth exists.  The library has this for recursion along any well-founded *)
(* relation, with the step as an operator; here the step is a function,     *)
(* which the provers can instantiate.                                       *)
EXTENDS Integers, WellFoundedInduction, TLAPS

(* A set of naturals that is not empty has a least element. *)
LEMMA Least ==
  ASSUME NEW T \in SUBSET Nat, T # {}
  PROVE  \E n \in T : \A m \in T : n <= m
  <1> DEFINE R == {ss \in Nat \X Nat : ss[1] < ss[2]}
  <1>1. IsWellFoundedOn(R, Nat)
    BY NatLessThanWellFounded DEF OpToRel
  <1>2. \A n, m \in Nat : m < n => <<m, n>> \in R
    OBVIOUS
  <1> HIDE DEF R
  <1>3. PICK n \in T : \A m \in T : <<m, n>> \notin R
    BY <1>1, WFMin
  <1>4. ASSUME NEW m \in T PROVE n <= m
    <2>1. m \in Nat /\ n \in Nat /\ ~(m < n)
      BY <1>2, <1>3
    <2> QED
      BY <2>1
  <1> QED
    BY <1>4

(* Induction, on a set of naturals. *)
LEMMA AllNaturals ==
  ASSUME NEW T, 0 \in T, \A n \in Nat : n \in T => n + 1 \in T
  PROVE  Nat \subseteq T
  <1> SUFFICES ASSUME Nat \ T # {} PROVE FALSE
    OBVIOUS
  <1>1. PICK n \in Nat \ T : \A m \in Nat \ T : n <= m
    BY Least
  <1>2. n # 0 /\ n - 1 \in Nat /\ ~(n <= n - 1) /\ (n - 1) + 1 = n
    BY <1>1
  <1>3. n - 1 \in T
    BY <1>1, <1>2
  <1> QED
    BY <1>1, <1>2, <1>3

(* S: the nodes; P: those that have one above them, up[p]; rank: their      *)
(* distance from the root, or anything else that decreases upwards.         *)
IsForest(S, P, up, n, rank) ==
  /\ P \subseteq S /\ up \in [P -> S] /\ n \in Nat /\ rank \in [P -> Nat]
  /\ \A p \in P : rank[p] < n /\ (up[p] \in P => rank[up[p]] < rank[p])

(* Induction from the roots downwards, on a set of nodes. *)
LEMMA AllNodes ==
  ASSUME NEW S, NEW P, NEW up, NEW n, NEW rank, IsForest(S, P, up, n, rank),
         NEW G, \A s \in S : (s \in P => up[s] \in G) => s \in G
  PROVE  S \subseteq G
  <1> SUFFICES ASSUME S \ G # {} PROVE FALSE
    OBVIOUS
  <1> DEFINE T == {rank[s] : s \in S \ G}
  <1>1. S \ G \subseteq P
    OBVIOUS
  <1>2. T \in SUBSET Nat /\ T # {}
    BY <1>1 DEF IsForest
  <1>3. PICK m \in T : \A k \in T : m <= k
    BY <1>2, Least
  <1>4. PICK s \in S \ G : rank[s] = m
    BY <1>3
  <1>5. up[s] \in S \ G /\ s \in P
    BY <1>1, <1>4 DEF IsForest
  <1>6. up[s] \in P /\ rank[up[s]] \in Nat /\ rank[s] \in Nat /\ rank[up[s]] < rank[s]
    BY <1>1, <1>5 DEF IsForest
  <1>7. m <= rank[up[s]]
    BY <1>3, <1>5
  <1> QED
    BY <1>4, <1>6, <1>7

(* F: the value at a node, of that above it; base: that at a root. *)
IsStep(S, P, V, base, F) == base \in [S -> V] /\ F \in [P \X V -> V]

(* A recursion towards the root has a solution with values in V: such are   *)
(* the sum of popup_offset and what is stacked at a place.                  *)
LEMMA TreeFunction ==
  ASSUME NEW S, NEW P, NEW up, NEW n, NEW rank, IsForest(S, P, up, n, rank),
         NEW V, NEW base, NEW F, IsStep(S, P, V, base, F)
  PROVE  \E g \in [S -> V] :
           \A s \in S : g[s] = IF s \in P THEN F[<<s, g[up[s]]>>] ELSE base[s]
  <1> DEFINE Eq(g, s) == g[s] = IF s \in P THEN F[<<s, g[up[s]]>>] ELSE base[s]
             UpTo(g, k) == \A s \in S : (s \in P => rank[s] < k) => Eq(g, s)
             T == {k \in Nat : \E g \in [S -> V] : UpTo(g, k)}
  <1> USE DEF IsStep
  <1>1. 0 \in T
    <2>1. UpTo(base, 0)
      BY DEF IsForest
    <2> QED
      BY <2>1
  <1>2. ASSUME NEW k \in Nat, k \in T PROVE k + 1 \in T
    <2>1. PICK g \in [S -> V] : UpTo(g, k)
      BY <1>2
    <2> DEFINE h == [s \in S |-> IF s \in P /\ rank[s] = k THEN F[<<s, g[up[s]]>>] ELSE g[s]]
    <2>2. h \in [S -> V]
      BY DEF IsForest
    <2>3. ASSUME NEW s \in S, s \in P => rank[s] < k + 1 PROVE Eq(h, s)
      <3>1. CASE s \notin P
        BY <2>1, <3>1
      <3>2. CASE s \in P
        <4>1. /\ up[s] \in S /\ rank[s] \in Nat /\ rank[s] <= k
              /\ up[s] \in P => rank[up[s]] \in Nat /\ rank[up[s]] < rank[s]
          BY <2>3, <3>2 DEF IsForest
        <4>2. up[s] \in P => rank[up[s]] # k
          BY <4>1
        <4>3. h[up[s]] = g[up[s]]
          BY <4>1, <4>2
        <4>4. h[s] = F[<<s, g[up[s]]>>]
          <5>1. CASE rank[s] = k
            BY <3>2, <5>1
          <5>2. CASE rank[s] < k
            BY <2>1, <3>2, <4>1, <5>2
          <5> QED
            BY <4>1, <5>1, <5>2
        <4> QED
          BY <3>2, <4>3, <4>4
      <3> QED
        BY <3>1, <3>2
    <2>4. UpTo(h, k + 1)
      BY <2>3
    <2> HIDE DEF UpTo, h
    <2> QED
      BY <2>2, <2>4
  <1> HIDE DEF T
  <1>3. n \in T
    BY <1>1, <1>2, AllNaturals DEF IsForest
  <1> USE DEF T
  <1>4. PICK g \in [S -> V] : UpTo(g, n)
    BY <1>3
  <1>5. \A s \in S : Eq(g, s)
    BY <1>4 DEF IsForest
  <1> QED
    BY <1>5

=============================================================================
