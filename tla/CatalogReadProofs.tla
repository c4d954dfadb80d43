-------------------------- MODULE CatalogReadProofs --------------------------
(***************************************************************************)
(* Proofs about which trees are loaded, and that the walk for cycles is right *)
(* (CatalogRules, for any trees); about which evidence lets a rule into the   *)
(* catalog (EvidenceGraph, for any graphs and days); about the windows its    *)
(* allowances are counted in (AllowancePeriods, for any years); about what a  *)
(* route of its rules is worth (RouteValue, for any components and minor      *)
(* unit); and about what its readers are given while it changes               *)
(* (CatalogIndex, for any number of edits, DiscoveryCursors, for any          *)
(* catalogs, browsers, threads, limits).                                     *)
(***************************************************************************)
EXTENDS CatalogRules, CatalogIndex, DiscoveryCursors, EvidenceGraph,
        AllowancePeriods, RouteValue, SequenceTheorems, FiniteSetTheorems,
        NaturalsInduction, WellFoundedInduction, TLAPS

-----------------------------------------------------------------------------
(* Loading a catalog: the walk that looks for cycles *)

\* The entry of the stack at which its gray node was visited: the last of its
\* entries, since only white nodes are pushed.
Visited(p) ==
  /\ p \in DOMAIN stack /\ color[stack[p]] = "gray"
  /\ \A q \in p + 1 .. Len(stack) : stack[q] # stack[p]

\* What the walk has of colors and stack.
WalkTypes ==
  /\ color \in [DOMAIN color -> {"white", "gray", "black"}]
  /\ stack \in Seq(DOMAIN color)
  /\ loading \in {"rules", "offerings"} =>
       \A e \in Edges : e.from \in DOMAIN color /\ e.to \in DOMAIN color

\* Gray nodes are on the stack.
GrayInv == \A n \in DOMAIN color : color[n] = "gray" => \E p \in DOMAIN stack : Visited(p) /\ stack[p] = n

\* What is on the stack was pushed by the gray node visited last before it.
PushedInv ==
  \A i \in DOMAIN stack : i # 1 =>
    \E p \in 1 .. i - 1 :
      /\ Visited(p)
      /\ \E e \in Edges : e.from = stack[p] /\ e.to = stack[i]
      /\ \A q \in p + 1 .. i - 1 : ~ Visited(q)

\* What a gray node leads to has been left or is still to be met above it.
AheadInv ==
  \A p \in DOMAIN stack : Visited(p) =>
    \A e \in Edges : e.from = stack[p] =>
      \/ color[e.to] = "black"
      \/ \E j \in p + 1 .. Len(stack) : stack[j] = e.to

\* No set of nodes left has all its members pointed to from within.
Unwound(S) == S = {} \/ \E n \in S : \A e \in Edges : e.to = n => e.from \notin S
Black == {n \in DOMAIN color : color[n] = "black"}

\* Nodes left lead to nodes left, and not in a circle.
BlackInv ==
  /\ \A e \in Edges : e.from \in Black => e.to \in Black
  /\ \A S \in SUBSET Black : Unwound(S)

WalkInv ==
  /\ WalkTypes
  /\ loading \in {"rules", "offerings"} => GrayInv /\ PushedInv /\ AheadInv /\ BlackInv
  /\ loading \notin {"rules", "offerings"} => stack = <<>>

\* What is known of the tree at each place of the load.
LoadingInv ==
  /\ tree \in RawCatalogs
  /\ loading \in {"parse", "check", "rules", "offerings", "loaded", "refused", "cycle"}
  /\ loading \notin {"parse", "refused"} => \A i \in DOMAIN tree.rules : RuleAllowed(tree.rules[i])
  /\ loading \in {"rules", "offerings", "loaded"} => CrossChecked(tree)
  /\ loading \in {"offerings", "loaded"} => ~ Cyclic(RuleEdges(tree))
  /\ CyclesRefused

RulesInv == LoadingInv /\ WalkInv

-----------------------------------------------------------------------------
(* The walk goes on *)

\* The stack has a top while the walk has something to do.
LEMMA StackTop ==
  ASSUME WalkInv, stack # <<>>
  PROVE  /\ loading \in {"rules", "offerings"}
         /\ GrayInv /\ PushedInv /\ AheadInv /\ BlackInv
         /\ Len(stack) \in Nat \ {0} /\ DOMAIN stack = 1 .. Len(stack)
         /\ Len(stack) \in DOMAIN stack
         /\ Last(stack) = stack[Len(stack)]
         /\ \A i \in DOMAIN stack : stack[i] \in DOMAIN color
<1>1. stack \in Seq(DOMAIN color)
  BY DEF WalkInv, WalkTypes
<1>2. /\ Len(stack) \in Nat \ {0} /\ DOMAIN stack = 1 .. Len(stack)
      /\ \A i \in DOMAIN stack : stack[i] \in DOMAIN color
  BY <1>1
<1>3. Last(stack) = stack[Len(stack)]
  BY DEF Last
<1>4. QED
  BY <1>2, <1>3 DEF WalkInv

\* Leaving the top takes the last entry away and blackens its node.
LEMMA LeaveWalk ==
  ASSUME WalkInv, Leave
  PROVE  WalkInv'
<1> DEFINE L == Len(stack)
           n == stack[L]
<1>1. /\ loading \in {"rules", "offerings"}
      /\ GrayInv /\ PushedInv /\ AheadInv /\ BlackInv
      /\ L \in Nat \ {0} /\ DOMAIN stack = 1 .. L /\ L \in DOMAIN stack
      /\ \A i \in DOMAIN stack : stack[i] \in DOMAIN color
      /\ color[n] # "white"
      /\ color' = [color EXCEPT ![n] = "black"]
      /\ stack' = Front(stack) /\ UNCHANGED <<tree, loading>>
  BY StackTop DEF Leave
<1>2. /\ stack' \in Seq(DOMAIN color) /\ Len(stack') = L - 1
      /\ DOMAIN stack' = 1 .. L - 1
      /\ \A i \in 1 .. L - 1 : stack'[i] = stack[i]
  <2>1. stack \in Seq(DOMAIN color)
    BY DEF WalkInv, WalkTypes
  <2>2. stack' = SubSeq(stack, 1, L - 1)
    BY <1>1 DEF Front
  <2>3. QED
    BY <1>1, <2>1, <2>2
<1>3. /\ DOMAIN color' = DOMAIN color
      /\ \A m \in DOMAIN color : color'[m] = IF m = n THEN "black" ELSE color[m]
      /\ color' \in [DOMAIN color' -> {"white", "gray", "black"}]
  BY <1>1 DEF WalkInv, WalkTypes
<1>4. Edges' = Edges
  BY <1>1 DEF Edges
<1>5. \A e \in Edges : e.from \in DOMAIN color /\ e.to \in DOMAIN color
  BY <1>1 DEF WalkInv, WalkTypes
<1> HIDE DEF L, n
<1>6. ASSUME NEW p
      PROVE  Visited(p)' <=> Visited(p) /\ p \in 1 .. L - 1
  BY <1>1, <1>2, <1>3 DEF Visited, L, n
<1>7. GrayInv'
  BY <1>1, <1>2, <1>3, <1>6 DEF GrayInv, Visited, L, n
<1>8. PushedInv'
  <2> SUFFICES ASSUME NEW i \in 1 .. L - 1, i # 1
               PROVE  \E p \in 1 .. i - 1 :
                        /\ Visited(p)'
                        /\ \E e \in Edges : e.from = stack'[p] /\ e.to = stack'[i]
                        /\ \A q \in p + 1 .. i - 1 : ~ Visited(q)'
    BY <1>2, <1>4 DEF PushedInv
  <2>1. PICK p \in 1 .. i - 1 :
          /\ Visited(p)
          /\ \E e \in Edges : e.from = stack[p] /\ e.to = stack[i]
          /\ \A q \in p + 1 .. i - 1 : ~ Visited(q)
    <3>1. i \in DOMAIN stack /\ i # 1
      BY <1>1
    <3>2. QED
      BY <1>1, <3>1 DEF PushedInv
  <2>2. p \in 1 .. L - 1
    BY <1>1
  <2>3. QED
    BY <1>2, <1>6, <2>1, <2>2
<1>9. AheadInv'
  <2> SUFFICES ASSUME NEW p \in 1 .. L - 1, Visited(p)', NEW e \in Edges, e.from = stack'[p]
               PROVE  \/ color'[e.to] = "black"
                      \/ \E j \in p + 1 .. L - 1 : stack'[j] = e.to
    BY <1>2, <1>4 DEF AheadInv
  <2>1. \/ color[e.to] = "black"
        \/ \E j \in p + 1 .. L : stack[j] = e.to
    BY <1>1, <1>2, <1>6 DEF AheadInv, L
  <2>2. CASE color[e.to] = "black"
    BY <1>3, <1>5, <2>2
  <2>3. ASSUME NEW j \in p + 1 .. L, stack[j] = e.to
        PROVE  color'[e.to] = "black" \/ \E i \in p + 1 .. L - 1 : stack'[i] = e.to
    <3>1. CASE j = L
      BY <1>3, <1>5, <2>3, <3>1 DEF n
    <3>2. CASE j # L
      <4>1. j \in p + 1 .. L - 1 /\ stack'[j] = e.to
        BY <1>1, <1>2, <2>3, <3>2
      <4>2. QED
        BY <4>1
    <3>3. QED
      BY <3>1, <3>2
  <2>4. QED
    BY <2>1, <2>2, <2>3
<1>10. Black' = Black \cup {n}
  BY <1>1, <1>3 DEF Black, L, n
<1>11. \A e \in Edges : e.from = n => e.to \in Black
  <2> SUFFICES ASSUME NEW e \in Edges, e.from = n PROVE e.to \in Black
    OBVIOUS
  <2>1. CASE color[n] = "black"
    BY <1>1, <2>1 DEF BlackInv, Black, L, n
  <2>2. CASE color[n] = "gray"
    <3>1. Visited(L)
      BY <1>1, <2>2 DEF Visited, L, n
    <3>2. ~ \E j \in L + 1 .. L : stack[j] = e.to
      BY <1>1
    <3>3. color[e.to] = "black"
      BY <1>1, <3>1, <3>2 DEF AheadInv, L, n
    <3>4. QED
      BY <1>5, <3>3 DEF Black
  <2>3. QED
    BY <1>1, <2>1, <2>2 DEF WalkInv, WalkTypes, L, n
<1>12. BlackInv'
  <2>1. \A e \in Edges : e.from \in Black' => e.to \in Black'
    BY <1>1, <1>10, <1>11 DEF BlackInv
  <2>2. ASSUME NEW S \in SUBSET (Black \cup {n})
        PROVE  Unwound(S)
    <3>1. CASE n \notin Black /\ n \in S
      <4>1. ASSUME NEW e \in Edges, e.to = n PROVE e.from \notin S
        BY <1>1, <1>11, <2>2, <3>1, <4>1 DEF BlackInv
      <4>2. QED
        BY <3>1, <4>1 DEF Unwound
    <3>2. CASE n \in Black \/ n \notin S
      BY <1>1, <3>2 DEF BlackInv
    <3>3. QED
      BY <3>1, <3>2
  <2>3. \A S \in SUBSET Black' : Unwound(S)'
    BY <1>4, <1>10, <2>2 DEF Unwound
  <2>4. QED
    BY <1>4, <2>1, <2>3 DEF BlackInv
<1>13. QED
  BY <1>1, <1>2, <1>3, <1>4, <1>5, <1>7, <1>8, <1>9, <1>12 DEF WalkInv, WalkTypes

\* What a visited node pushes.
LEMMA Pushes ==
  ASSUME tree \in RawCatalogs, loading \in {"rules", "offerings"}, NEW n, Push(n), stack \in Seq(DOMAIN color),
         \A e \in Edges : e.from \in DOMAIN color /\ e.to \in DOMAIN color
  PROVE  \E K \in Nat :
           /\ stack' \in Seq(DOMAIN color) /\ Len(stack') = Len(stack) + K
           /\ \A i \in 1 .. Len(stack) : stack'[i] = stack[i]
           /\ \A i \in Len(stack) + 1 .. Len(stack) + K :
                \E e \in Edges : e.from = n /\ e.to = stack'[i] /\ e.to # n /\ color[e.to] = "white"
           /\ \A e \in Edges : e.from = n /\ e.to # n /\ color[e.to] = "white" =>
                \E i \in Len(stack) + 1 .. Len(stack) + K : stack'[i] = e.to
<1> DEFINE white == {e \in Edges : e.from = n /\ e.to # n /\ color[e.to] = "white"}
           K == Cardinality(white)
           L == Len(stack)
<1>1. IsFiniteSet(Edges)
  <2>1. IsFiniteSet(RuleEdges(tree))
    <3> DEFINE D == {i \in DOMAIN tree.rules : tree.rules[i].supersedes # NoValue}
               f == [i \in D |-> [file |-> i, from |-> i, to |-> tree.rules[i].supersedes]]
    <3>1. IsFiniteSet(D)
      BY TreesAreRead, FS_Subset
    <3>2. f \in Surjection(D, RuleEdges(tree))
      BY DEF Surjection, RuleEdges
    <3>3. QED
      BY <3>1, <3>2, FS_Surjection
  <2>2. IsFiniteSet(OfferingEdges(tree))
    <3> DEFINE D == {k \in DOMAIN tree.relations : tree.relations[k].kind \in {"renamed", "legacy"}}
               f == [k \in D |-> [file |-> k, from |-> tree.relations[k].from, to |-> tree.relations[k].to]]
    <3>1. IsFiniteSet(D)
      BY TreesAreRead, FS_Subset
    <3>2. f \in Surjection(D, OfferingEdges(tree))
      BY DEF Surjection, OfferingEdges
    <3>3. QED
      BY <3>1, <3>2, FS_Surjection
  <2>3. QED
    BY <2>1, <2>2 DEF Edges
<1>2. IsFiniteSet(white) /\ white \subseteq Edges
  BY <1>1, FS_Subset
<1>3. K \in Nat
  BY <1>2, FS_CardinalityType
<1>4. PICK list \in Surjection(1 .. K, white) : stack' = stack \o [i \in DOMAIN list |-> list[i].to]
  BY DEF Push
<1> DEFINE push == [i \in DOMAIN list |-> list[i].to]
<1>5. list \in [1 .. K -> white] /\ \A e \in white : \E i \in 1 .. K : list[i] = e
  BY <1>4 DEF Surjection
<1>6. \A i \in 1 .. K : list[i] \in Edges /\ list[i].from = n /\ list[i].to # n /\ color[list[i].to] = "white"
  BY <1>5
<1>7. DOMAIN push = 1 .. K /\ \A i \in 1 .. K : push[i] = list[i].to /\ push[i] \in DOMAIN color
  BY <1>5, <1>6
<1> HIDE DEF K, white, push
<1>8. push \in Seq(DOMAIN color) /\ Len(push) = K
  <2>1. push \in [1 .. K -> DOMAIN color]
    BY <1>5, <1>7 DEF push
  <2>2. QED
    BY <1>3, <2>1
<1>9. /\ stack' \in Seq(DOMAIN color) /\ Len(stack') = L + K
      /\ \A i \in 1 .. L + K : stack'[i] = IF i <= L THEN stack[i] ELSE push[i - L]
  <2>1. stack' = stack \o push
    BY <1>4 DEF push
  <2>2. QED
    BY <1>8, <2>1, ConcatProperties
<1>10. L \in Nat
  OBVIOUS
<1>11. \A i \in 1 .. L : stack'[i] = stack[i]
  BY <1>3, <1>9, <1>10
<1>12. ASSUME NEW i \in L + 1 .. L + K
       PROVE  \E e \in Edges : e.from = n /\ e.to = stack'[i] /\ e.to # n /\ color[e.to] = "white"
  <2>1. i - L \in 1 .. K /\ stack'[i] = push[i - L]
    BY <1>3, <1>9, <1>10
  <2>2. QED
    BY <1>6, <1>7, <2>1
<1>13. ASSUME NEW e \in Edges, e.from = n /\ e.to # n /\ color[e.to] = "white"
       PROVE  \E i \in L + 1 .. L + K : stack'[i] = e.to
  <2>1. PICK j \in 1 .. K : list[j] = e
    BY <1>5, <1>13 DEF white
  <2>2. L + j \in L + 1 .. L + K /\ L + j \in 1 .. L + K /\ (L + j) - L = j /\ ~ (L + j <= L)
    BY <1>3, <1>10
  <2>3. stack'[L + j] = e.to
    BY <1>7, <1>9, <2>1, <2>2
  <2>4. QED
    BY <2>2, <2>3
<1>14. QED
  BY <1>3, <1>9, <1>11, <1>12, <1>13

\* A white node met turns gray and is visited at the top; its white neighbours
\* come above it.
LEMMA PushWalk ==
  ASSUME WalkInv, tree \in RawCatalogs, stack # <<>>, color[Last(stack)] = "white",
         Push(Last(stack)), tree' = tree,
         ~ \E e \in Edges : e.from = Last(stack) /\ (e.to = Last(stack) \/ color[e.to] = "gray")
  PROVE  WalkInv'
<1> DEFINE L == Len(stack)
           n == stack[L]
<1>1. /\ loading \in {"rules", "offerings"}
      /\ GrayInv /\ PushedInv /\ AheadInv /\ BlackInv
      /\ L \in Nat \ {0} /\ DOMAIN stack = 1 .. L /\ L \in DOMAIN stack
      /\ \A i \in DOMAIN stack : stack[i] \in DOMAIN color
      /\ color[n] = "white" /\ Last(stack) = n
      /\ color' = [color EXCEPT ![n] = "gray"]
      /\ UNCHANGED <<tree, loading>>
  BY StackTop DEF Push
<1>2. /\ \A e \in Edges : e.from \in DOMAIN color /\ e.to \in DOMAIN color
      /\ stack \in Seq(DOMAIN color) /\ Push(n)
      /\ \A e \in Edges : e.from = n => e.to # n /\ color[e.to] # "gray"
  BY <1>1 DEF WalkInv, WalkTypes
<1>3. PICK K \in Nat :
        /\ stack' \in Seq(DOMAIN color) /\ Len(stack') = L + K
        /\ \A i \in 1 .. L : stack'[i] = stack[i]
        /\ \A i \in L + 1 .. L + K :
             \E e \in Edges : e.from = n /\ e.to = stack'[i] /\ e.to # n /\ color[e.to] = "white"
        /\ \A e \in Edges : e.from = n /\ e.to # n /\ color[e.to] = "white" =>
             \E i \in L + 1 .. L + K : stack'[i] = e.to
  BY <1>1, <1>2, Pushes
<1>4. /\ DOMAIN color' = DOMAIN color
      /\ \A m \in DOMAIN color : color'[m] = IF m = n THEN "gray" ELSE color[m]
      /\ color' \in [DOMAIN color' -> {"white", "gray", "black"}]
  BY <1>1 DEF WalkInv, WalkTypes
<1>5. Edges' = Edges
  BY <1>1 DEF Edges
<1>6. DOMAIN stack' = 1 .. L + K
  BY <1>3
<1>7. \A i \in L + 1 .. L + K : stack'[i] # n /\ stack'[i] \in DOMAIN color /\ color[stack'[i]] = "white"
  BY <1>2, <1>3
<1> HIDE DEF L, n
<1>8. ASSUME NEW p
      PROVE  Visited(p)' <=> p = L \/ (Visited(p) /\ p \in 1 .. L - 1)
  <2>1. CASE p \in 1 .. L - 1
    <3>1. p \in 1 .. L /\ p \in 1 .. L + K /\ p \in DOMAIN stack /\ stack'[p] = stack[p] /\ stack[p] \in DOMAIN color
      BY <1>1, <1>3, <2>1
    <3>2. L \in p + 1 .. L /\ L \in p + 1 .. L + K /\ L \in 1 .. L
      BY <1>1, <1>3, <2>1
    <3>3. stack'[L] = n
      BY <1>3, <3>2 DEF n
    <3>4. ASSUME Visited(p) PROVE Visited(p)'
      <4>1. color[stack[p]] = "gray" /\ stack[p] # n
        BY <1>1, <3>4 DEF Visited
      <4>2. ASSUME NEW q \in p + 1 .. L + K PROVE stack'[q] # stack[p]
        <5>1. CASE q \in p + 1 .. L
          BY <1>1, <1>3, <2>1, <3>4, <5>1 DEF Visited, L
        <5>2. CASE q \in L + 1 .. L + K
          BY <1>7, <4>1, <5>2
        <5>3. q \in p + 1 .. L \/ q \in L + 1 .. L + K
          BY <1>1, <1>3, <2>1
        <5>4. QED
          BY <5>1, <5>2, <5>3
      <4>3. color'[stack'[p]] = "gray"
        BY <1>4, <3>1, <4>1
      <4>4. QED
        BY <1>3, <1>6, <3>1, <4>2, <4>3 DEF Visited
    <3>5. ASSUME Visited(p)' PROVE Visited(p)
      <4>1. stack[p] # n
        BY <1>3, <3>1, <3>2, <3>3, <3>5 DEF Visited
      <4>2. color[stack[p]] = "gray"
        BY <1>4, <3>1, <3>5, <4>1 DEF Visited
      <4>3. ASSUME NEW q \in p + 1 .. L PROVE stack[q] # stack[p]
        <5>1. q \in p + 1 .. L + K /\ q \in 1 .. L
          BY <1>1, <1>3, <2>1
        <5>2. QED
          BY <1>3, <3>1, <3>5, <5>1 DEF Visited
      <4>4. QED
        BY <3>1, <4>2, <4>3 DEF Visited, L
    <3>6. p # L
      BY <1>1, <2>1
    <3>7. QED
      BY <2>1, <3>4, <3>5, <3>6
  <2>2. CASE p = L
    <3>1. p \in 1 .. L /\ p \in 1 .. L + K
      BY <1>1, <1>3, <2>2
    <3>2. stack'[p] = n /\ n \in DOMAIN color
      BY <1>1, <1>3, <2>2, <3>1 DEF n
    <3>3. \A q \in p + 1 .. Len(stack') : stack'[q] # stack'[p]
      BY <1>3, <1>7, <2>2, <3>2
    <3>4. color'[stack'[p]] = "gray"
      BY <1>4, <3>2
    <3>5. Visited(p)'
      BY <1>6, <3>1, <3>3, <3>4 DEF Visited
    <3>6. QED
      BY <2>2, <3>5
  <2>3. CASE p \notin 1 .. L
    <3>1. CASE p \in L + 1 .. L + K
      <4>1. color'[stack'[p]] = "white"
        BY <1>4, <1>7, <3>1
      <4>2. QED
        BY <1>1, <2>3, <4>1 DEF Visited
    <3>2. CASE p \notin L + 1 .. L + K
      BY <1>1, <1>3, <1>6, <2>3, <3>2 DEF Visited
    <3>3. QED
      BY <3>1, <3>2
  <2>4. QED
    BY <1>1, <2>1, <2>2, <2>3
<1>9. \A p : Visited(p) => p \in 1 .. L - 1
  BY <1>1 DEF Visited, n
<1>10. GrayInv'
  <2> SUFFICES ASSUME NEW m \in DOMAIN color, color'[m] = "gray"
               PROVE  \E p \in DOMAIN stack' : Visited(p)' /\ stack'[p] = m
    BY <1>4 DEF GrayInv
  <2>1. CASE m = n
    <3>1. L \in 1 .. L /\ L \in 1 .. L + K
      BY <1>1, <1>3
    <3>2. QED
      BY <1>3, <1>6, <1>8, <2>1, <3>1 DEF n
  <2>2. CASE m # n
    <3>1. PICK p \in DOMAIN stack : Visited(p) /\ stack[p] = m
      BY <1>1, <1>4, <2>2 DEF GrayInv
    <3>2. p \in 1 .. L - 1 /\ p \in 1 .. L /\ p \in 1 .. L + K
      BY <1>1, <1>3, <1>9, <3>1
    <3>3. QED
      BY <1>3, <1>6, <1>8, <3>1, <3>2
  <2>3. QED
    BY <2>1, <2>2
<1>11. PushedInv'
  <2> SUFFICES ASSUME NEW i \in 1 .. L + K, i # 1
               PROVE  \E p \in 1 .. i - 1 :
                        /\ Visited(p)'
                        /\ \E e \in Edges : e.from = stack'[p] /\ e.to = stack'[i]
                        /\ \A q \in p + 1 .. i - 1 : ~ Visited(q)'
    BY <1>5, <1>6 DEF PushedInv
  <2>1. CASE i \in 1 .. L
    <3>1. PICK p \in 1 .. i - 1 :
            /\ Visited(p)
            /\ \E e \in Edges : e.from = stack[p] /\ e.to = stack[i]
            /\ \A q \in p + 1 .. i - 1 : ~ Visited(q)
      BY <1>1, <2>1 DEF PushedInv
    <3>2. p \in 1 .. L - 1 /\ p \in 1 .. L /\ \A q \in p + 1 .. i - 1 : q # L
      BY <1>1, <2>1
    <3>3. QED
      BY <1>3, <1>8, <2>1, <3>1, <3>2
  <2>2. CASE i \in L + 1 .. L + K
    <3>1. L \in 1 .. i - 1 /\ L \in 1 .. L /\ stack'[L] = n
      BY <1>1, <1>3, <2>2 DEF n
    <3>2. \A q \in L + 1 .. i - 1 : ~ Visited(q)'
      BY <1>1, <1>8, <2>2
    <3>3. \E e \in Edges : e.from = n /\ e.to = stack'[i]
      BY <1>3, <2>2
    <3>4. QED
      BY <1>8, <3>1, <3>2, <3>3
  <2>3. QED
    BY <1>1, <1>3, <2>1, <2>2
<1>12. AheadInv'
  <2> SUFFICES ASSUME NEW p \in 1 .. L + K, Visited(p)', NEW e \in Edges, e.from = stack'[p]
               PROVE  \/ color'[e.to] = "black"
                      \/ \E j \in p + 1 .. L + K : stack'[j] = e.to
    BY <1>3, <1>5, <1>6 DEF AheadInv
  <2>1. CASE p = L
    <3>1. e.from = n
      BY <1>1, <1>3, <2>1 DEF n
    <3>2. e.to # n /\ color[e.to] # "gray" /\ e.to \in DOMAIN color
      BY <1>2, <3>1
    <3>3. CASE color[e.to] = "black"
      BY <1>4, <3>2, <3>3
    <3>4. CASE color[e.to] = "white"
      BY <1>3, <2>1, <3>1, <3>2, <3>4
    <3>5. QED
      BY <3>2, <3>3, <3>4 DEF WalkInv, WalkTypes
  <2>2. CASE p # L
    <3>1. Visited(p) /\ p \in 1 .. L - 1 /\ p \in 1 .. L /\ stack'[p] = stack[p] /\ p \in DOMAIN stack
      BY <1>1, <1>3, <1>8, <2>2
    <3>2. color[e.to] = "black" \/ \E j \in p + 1 .. L : stack[j] = e.to
      BY <1>1, <3>1 DEF AheadInv, L
    <3>3. CASE color[e.to] = "black"
      BY <1>1, <1>2, <1>4, <3>3
    <3>4. ASSUME NEW j \in p + 1 .. L, stack[j] = e.to
          PROVE  \E k \in p + 1 .. L + K : stack'[k] = e.to
      <4>1. j \in 1 .. L /\ j \in p + 1 .. L + K
        BY <1>1, <1>3, <3>1
      <4>2. QED
        BY <1>3, <3>4, <4>1
    <3>5. QED
      BY <3>2, <3>3, <3>4
  <2>3. QED
    BY <2>1, <2>2
<1>13. BlackInv'
  <2>1. Black' = Black
    BY <1>1, <1>4 DEF Black, L, n
  <2>2. QED
    BY <1>1, <1>5, <2>1 DEF BlackInv, Unwound
<1>14. QED
  BY <1>1, <1>2, <1>3, <1>4, <1>5, <1>10, <1>11, <1>12, <1>13 DEF WalkInv, WalkTypes

\* A gray node met again lies on a cycle: of the nodes visited since.
LEMMA GrayIsCycle ==
  ASSUME WalkInv, stack # <<>>, color[Last(stack)] = "white",
         NEW e \in Edges, e.from = Last(stack), e.to = Last(stack) \/ color[e.to] = "gray"
  PROVE  Cyclic(Edges)
<1> DEFINE L == Len(stack)
           n == stack[L]
<1>1. /\ GrayInv /\ PushedInv
      /\ L \in Nat \ {0} /\ DOMAIN stack = 1 .. L /\ L \in DOMAIN stack
      /\ color[n] = "white" /\ Last(stack) = n
      /\ loading \in {"rules", "offerings"}
  BY StackTop
<1>2. e.to \in DOMAIN color
  BY <1>1 DEF WalkInv, WalkTypes
<1> HIDE DEF L, n
<1>3. CASE e.to = n
  <2>1. {n} \in SUBSET {x.to : x \in Edges}
    BY <1>3
  <2>2. \A m \in {n} : \E x \in Edges : x.to = m /\ x.from \in {n}
    BY <1>1, <1>3
  <2>3. QED
    BY <2>1, <2>2 DEF Cyclic
<1>4. CASE color[e.to] = "gray"
  <2>1. PICK t \in 1 .. L : Visited(t) /\ stack[t] = e.to
    BY <1>1, <1>2, <1>4 DEF GrayInv
  <2>2. t # L
    BY <1>1, <1>4, <2>1 DEF n
  <2> DEFINE Q == {q \in t .. L : Visited(q) \/ q = L}
             S == {stack[q] : q \in Q}
  <2>3. ASSUME NEW q \in Q PROVE \E x \in Edges : x.to = stack[q] /\ x.from \in S
    <3>1. CASE q = t
      <4>1. L \in Q /\ stack[L] \in S
        BY <1>1, <2>1
      <4>2. QED
        BY <1>1, <2>1, <3>1, <4>1 DEF n
    <3>2. CASE q # t
      <4>1. q \in DOMAIN stack /\ q # 1
        BY <1>1, <2>1, <3>2
      <4>2. PICK p \in 1 .. q - 1 :
              /\ Visited(p)
              /\ \E x \in Edges : x.from = stack[p] /\ x.to = stack[q]
              /\ \A r \in p + 1 .. q - 1 : ~ Visited(r)
        BY <1>1, <4>1 DEF PushedInv
      <4>3. ~ (t \in p + 1 .. q - 1)
        BY <2>1, <4>2
      <4>4. p \in t .. L
        BY <1>1, <2>1, <2>3, <3>2, <4>3
      <4>5. p \in Q
        BY <4>2, <4>4
      <4>6. stack[p] \in S
        BY <4>5
      <4>7. QED
        BY <4>2, <4>6
    <3>3. QED
      BY <3>1, <3>2
  <2>4. S \in SUBSET {x.to : x \in Edges}
    <3>1. \A m \in S : \E x \in Edges : x.to = m
      BY <2>3
    <3>2. QED
      BY <3>1
  <2>5. S # {}
    <3>1. L \in Q
      BY <1>1
    <3>2. QED
      BY <3>1
  <2>6. \A m \in S : \E x \in Edges : x.to = m /\ x.from \in S
    BY <2>3
  <2> HIDE DEF S
  <2>7. QED
    BY <2>4, <2>5, <2>6 DEF Cyclic
<1>5. QED
  BY <1>1, <1>3, <1>4

\* When every node has been left there is no cycle.
LEMMA WalkedIsAcyclic ==
  ASSUME WalkInv, loading \in {"rules", "offerings"}, AllWalked
  PROVE  ~ Cyclic(Edges)
<1>1. DOMAIN color \subseteq Black
  <2> SUFFICES ASSUME NEW n \in DOMAIN color PROVE color[n] = "black"
    BY DEF Black
  <2>1. color[n] # "white" /\ stack = <<>>
    BY DEF AllWalked
  <2>2. ~ \E p \in DOMAIN stack : Visited(p) /\ stack[p] = n
    BY <2>1
  <2>3. color[n] # "gray"
    BY <2>2 DEF WalkInv, GrayInv
  <2>4. QED
    BY <2>1, <2>3 DEF WalkInv, WalkTypes
<1>2. SUFFICES ASSUME NEW S \in SUBSET {e.to : e \in Edges}, S # {},
                      \A n \in S : \E e \in Edges : e.to = n /\ e.from \in S
               PROVE  FALSE
  BY DEF Cyclic
<1>3. S \in SUBSET Black
  BY <1>1 DEF WalkInv, WalkTypes
<1>4. Unwound(S)
  BY <1>3 DEF WalkInv, BlackInv
<1>5. QED
  BY <1>2, <1>4 DEF Unwound

\* Before a walk every node of it is white.
LEMMA WalkStarts ==
  ASSUME NEW edges, color' = WalkNodes(edges), stack' = <<>>, Edges' = edges
  PROVE  WalkInv'
<1>1. color' = [n \in UNION {{e.from, e.to} : e \in edges} |-> "white"]
  BY DEF WalkNodes
<1>2. \A n \in DOMAIN color' : color'[n] = "white"
  BY <1>1
<1>3. \A e \in edges : e.from \in DOMAIN color' /\ e.to \in DOMAIN color'
  BY <1>1
<1>4. color' \in [DOMAIN color' -> {"white", "gray", "black"}]
  BY <1>1
<1>5. WalkTypes'
  BY <1>3, <1>4 DEF WalkTypes
<1>6. GrayInv' /\ PushedInv' /\ AheadInv'
  BY <1>2 DEF GrayInv, PushedInv, AheadInv
<1>7. Black' = {}
  BY <1>2 DEF Black
<1>8. BlackInv'
  BY <1>3, <1>7 DEF BlackInv, Unwound
<1>9. QED
  BY <1>5, <1>6, <1>8 DEF WalkInv

\* A walk goes on at any white node when the stack is empty.
LEMMA StartWalk ==
  ASSUME WalkInv, NEW n \in DOMAIN color, StartNode(n)
  PROVE  WalkInv'
<1>1. /\ loading \in {"rules", "offerings"} /\ stack = <<>> /\ color[n] = "white"
      /\ stack' = <<n>> /\ UNCHANGED <<tree, loading, color>>
      /\ WalkTypes /\ GrayInv /\ BlackInv
  BY DEF StartNode, WalkInv
<1>2. stack' \in Seq(DOMAIN color) /\ DOMAIN stack' = {1} /\ Len(stack') = 1 /\ stack'[1] = n
  BY <1>1
<1>3. Edges' = Edges
  BY <1>1 DEF Edges
<1>4. WalkTypes'
  BY <1>1, <1>2, <1>3 DEF WalkTypes
<1>5. \A p : ~ Visited(p)'
  BY <1>1, <1>2 DEF Visited
<1>6. \A m \in DOMAIN color : color[m] # "gray"
  BY <1>1 DEF GrayInv
<1>7. GrayInv' /\ PushedInv' /\ AheadInv'
  BY <1>1, <1>2, <1>5, <1>6 DEF GrayInv, PushedInv, AheadInv
<1>8. BlackInv'
  <2>1. Black' = Black
    BY <1>1 DEF Black
  <2>2. QED
    BY <1>1, <1>3, <2>1 DEF BlackInv, Unwound
<1>9. QED
  BY <1>1, <1>4, <1>7, <1>8 DEF WalkInv

\* Outside a walk the stack is empty.
LEMMA NoWalk ==
  ASSUME WalkInv, UNCHANGED color, stack' = <<>>, loading' \notin {"rules", "offerings"}
  PROVE  WalkInv'
BY DEF WalkInv, WalkTypes

\* What the load knows of the tree, and how far a walk has come, is inductive;
\* and so a load refuses exactly the trees with a cycle for a cycle.
THEOREM RulesInductive == RulesSpec => []RulesInv
<1>1. RulesInit => RulesInv
  <2> SUFFICES ASSUME RulesInit PROVE RulesInv
    OBVIOUS
  <2>1. color = [n \in {} |-> "white"] /\ stack = <<>> /\ loading = "parse" /\ tree \in RawCatalogs
    BY DEF RulesInit
  <2>2. color \in [DOMAIN color -> {"white", "gray", "black"}]
    BY <2>1
  <2>3. WalkInv
    BY <2>1, <2>2 DEF WalkInv, WalkTypes
  <2>4. LoadingInv
    BY <2>1 DEF LoadingInv, CyclesRefused
  <2>5. QED
    BY <2>3, <2>4 DEF RulesInv
<1>2. RulesInv /\ [RulesNext]_rulesVars => RulesInv'
  <2> SUFFICES ASSUME LoadingInv, WalkInv, [RulesNext]_rulesVars PROVE LoadingInv' /\ WalkInv'
    BY DEF RulesInv
  <2>1. CASE Parse
    <3>1. /\ loading = "parse" /\ loading' \in {"check", "refused"}
          /\ loading' = "check" => \A i \in DOMAIN tree.rules : RuleAllowed(tree.rules[i])
          /\ UNCHANGED <<tree, color, stack>>
      BY <2>1 DEF Parse
    <3>2. WalkInv'
      BY <3>1, NoWalk DEF WalkInv
    <3>3. QED
      BY <3>1, <3>2 DEF LoadingInv, CyclesRefused
  <2>2. CASE CheckFails
    <3>1. loading = "check" /\ loading' = "refused" /\ UNCHANGED <<tree, color, stack>>
      BY <2>2 DEF CheckFails
    <3>2. WalkInv'
      BY <3>1, NoWalk DEF WalkInv
    <3>3. QED
      BY <3>1, <3>2 DEF LoadingInv, CyclesRefused
  <2>3. CASE BeginRules
    <3>1. /\ loading = "check" /\ loading' = "rules" /\ CrossChecked(tree)
          /\ color' = WalkNodes(RuleEdges(tree)) /\ UNCHANGED <<tree, stack>> /\ stack = <<>>
      BY <2>3 DEF BeginRules, WalkInv
    <3>2. Edges' = RuleEdges(tree)
      BY <3>1 DEF Edges
    <3>3. WalkInv'
      BY <3>1, <3>2, WalkStarts
    <3>4. QED
      BY <3>1, <3>3 DEF LoadingInv, CyclesRefused
  <2>4. CASE BeginOfferings
    <3>1. /\ loading = "rules" /\ loading' = "offerings" /\ AllWalked
          /\ color' = WalkNodes(OfferingEdges(tree)) /\ UNCHANGED <<tree, stack>> /\ stack = <<>>
      BY <2>4 DEF BeginOfferings, AllWalked
    <3>2. Edges' = OfferingEdges(tree) /\ Edges = RuleEdges(tree)
      BY <3>1 DEF Edges
    <3>3. WalkInv'
      BY <3>1, <3>2, WalkStarts
    <3>4. ~ Cyclic(RuleEdges(tree))
      BY <3>1, <3>2, WalkedIsAcyclic
    <3>5. QED
      BY <3>1, <3>3, <3>4 DEF LoadingInv, CyclesRefused
  <2>5. ASSUME NEW n \in DOMAIN color, StartNode(n)
        PROVE  LoadingInv' /\ WalkInv'
    BY <2>5, StartWalk DEF StartNode, LoadingInv, CyclesRefused, HasCycle
  <2>6. CASE Visit
    <3>1. stack # <<>> /\ color[Last(stack)] = "white" /\ tree' = tree
      BY <2>6 DEF Visit
    <3>2. loading \in {"rules", "offerings"}
      BY <3>1, StackTop
    <3>3. CASE \E e \in Edges : e.from = Last(stack) /\ (e.to = Last(stack) \/ color[e.to] = "gray")
      <4>1. loading' = "cycle" /\ stack' = <<>> /\ UNCHANGED color
        BY <2>6, <3>3 DEF Visit, MeetCycle
      <4>2. Cyclic(Edges)
        BY <3>1, <3>3, GrayIsCycle
      <4>3. HasCycle'
        BY <3>1, <4>2 DEF HasCycle, Edges
      <4>4. QED
        BY <3>1, <3>2, <4>1, <4>3, NoWalk DEF LoadingInv, CyclesRefused
    <3>4. CASE ~ \E e \in Edges : e.from = Last(stack) /\ (e.to = Last(stack) \/ color[e.to] = "gray")
      <4>1. Push(Last(stack))
        BY <2>6, <3>4 DEF Visit
      <4>2. loading' = loading
        BY <4>1 DEF Push
      <4>3. WalkInv'
        BY <3>1, <3>4, <4>1, PushWalk DEF LoadingInv
      <4>4. QED
        BY <3>1, <3>2, <4>2, <4>3 DEF LoadingInv, CyclesRefused
    <3>5. QED
      BY <3>3, <3>4
  <2>7. CASE Leave
    <3>1. loading \in {"rules", "offerings"} /\ UNCHANGED <<tree, loading>>
      BY <2>7, StackTop DEF Leave
    <3>2. QED
      BY <2>7, <3>1, LeaveWalk DEF LoadingInv, CyclesRefused
  <2>8. CASE Load
    <3>1. /\ loading = "offerings" /\ loading' = "loaded" /\ AllWalked /\ stack = <<>>
          /\ UNCHANGED <<tree, color, stack>>
      BY <2>8 DEF Load, AllWalked
    <3>2. WalkInv'
      BY <3>1, NoWalk
    <3>3. ~ Cyclic(OfferingEdges(tree))
      <4>1. Edges = OfferingEdges(tree)
        BY <3>1 DEF Edges
      <4>2. QED
        BY <3>1, <4>1, WalkedIsAcyclic
    <3>4. QED
      BY <3>1, <3>2, <3>3 DEF LoadingInv, CyclesRefused, HasCycle
  <2>9. CASE UNCHANGED rulesVars
    <3>1. UNCHANGED <<tree, loading, color, stack>>
      BY <2>9 DEF rulesVars
    <3>2. LoadingInv'
      BY <3>1 DEF LoadingInv, CyclesRefused, HasCycle
    <3>3. WalkInv'
      <4>1. Edges' = Edges /\ Black' = Black /\ \A p : Visited(p)' <=> Visited(p)
        BY <3>1 DEF Edges, Black, Visited
      <4>2. WalkTypes' <=> WalkTypes
        BY <3>1, <4>1 DEF WalkTypes
      <4>3. GrayInv' <=> GrayInv
        BY <3>1, <4>1 DEF GrayInv
      <4>4. PushedInv' <=> PushedInv
        BY <3>1, <4>1 DEF PushedInv
      <4>5. AheadInv' <=> AheadInv
        BY <3>1, <4>1 DEF AheadInv
      <4>6. BlackInv' <=> BlackInv
        BY <3>1, <4>1 DEF BlackInv, Unwound
      <4>7. QED
        BY <3>1, <4>2, <4>3, <4>4, <4>5, <4>6 DEF WalkInv
    <3>4. QED
      BY <3>2, <3>3
  <2>10. QED
    BY <2>1, <2>2, <2>3, <2>4, <2>5, <2>6, <2>7, <2>8, <2>9 DEF RulesNext
<1>3. QED
  BY <1>1, <1>2, PTL DEF RulesSpec

\* Two rules that name each other are in conflict on both cards or on neither.
LEMMA MutualWhenChecked ==
  ASSUME CrossChecked(tree), NEW day, NEW i \in DOMAIN tree.rules, NEW j \in DOMAIN tree.rules,
         {i, j} \in ConflictsFor(tree, tree.rules[i].offering, day)
  PROVE  {i, j} \in ConflictsFor(tree, tree.rules[j].offering, day)
<1>1. PICK a \in {i, j}, b \in {i, j} : Declares(tree, tree.rules[i].offering, a, b, day)
  BY DEF ConflictsFor
<1>2. /\ b \in tree.rules[a].conflicts /\ tree.rules[a].offering = tree.rules[i].offering
      /\ day \in tree.offerings[tree.rules[i].offering].window
      /\ InForce(tree.rules[a], day) /\ Resolved(tree, a, b, day)
  BY <1>1 DEF Declares
<1>3. a # b /\ a \in tree.rules[b].conflicts
  BY <1>2 DEF CrossChecked, ConflictsAgree
<1>4. Resolved(tree, b, a, day) /\ InForce(tree.rules[b], day)
  BY <1>2 DEF Resolved
<1>5. CASE a = i
  <2>1. Declares(tree, tree.rules[j].offering, b, a, day)
    BY <1>2, <1>3, <1>4, <1>5 DEF Declares, Resolved
  <2>2. QED
    BY <2>1 DEF ConflictsFor
<1>6. CASE a = j
  BY <1>1, <1>2, <1>6 DEF ConflictsFor
<1>7. QED
  BY <1>5, <1>6

\* Only nodes of the graph under way are on the stack, and each has a color.
THEOREM RulesTyped == RulesSpec => []RulesTypeOK
<1>1. RulesInv => RulesTypeOK
  <2> SUFFICES ASSUME RulesInv PROVE RulesTypeOK
    OBVIOUS
  <2>1. LoadingInv /\ WalkTypes
    BY DEF RulesInv, WalkInv
  <2>2. \A n \in DOMAIN color : color[n] \in {"white", "gray", "black"}
    BY <2>1 DEF WalkTypes
  <2>3. \A i \in DOMAIN stack : stack[i] \in DOMAIN color
    BY <2>1, ElementOfSeq DEF WalkTypes
  <2>4. SeqRange(stack) \subseteq DOMAIN color
    BY <2>3 DEF SeqRange
  <2>5. QED
    BY <2>1, <2>2, <2>4 DEF RulesTypeOK, LoadingInv
<1>2. QED
  BY <1>1, RulesInductive, PTL

\* A loaded catalog has no cycle of renames or supersessions and is refused for
\* a cycle only with one; a conflict is shown on both its cards or on neither;
\* a benefit in force was approved by a person before the release on evidence
\* that may be approved; and what a benefit in force replaced is history.
THEOREM CatalogIsSound == RulesSpec => []CatalogSound
<1>1. RulesInv => CatalogSound
  <2> SUFFICES ASSUME RulesInv PROVE CatalogSound
    OBVIOUS
  <2>1. CyclesRefused
    BY DEF RulesInv, LoadingInv
  <2>2. ConflictsMutual
    <3> SUFFICES ASSUME loading = "loaded", NEW day \in CatalogDays,
                        NEW i \in DOMAIN tree.rules, NEW j \in DOMAIN tree.rules
                 PROVE  ({i, j} \in ConflictsFor(tree, tree.rules[i].offering, day))
                          <=> ({i, j} \in ConflictsFor(tree, tree.rules[j].offering, day))
      BY DEF ConflictsMutual
    <3>1. CrossChecked(tree)
      BY DEF RulesInv, LoadingInv
    <3>2. {i, j} = {j, i}
      OBVIOUS
    <3>3. QED
      BY <3>1, <3>2, MutualWhenChecked
  <2>3. ActiveIsReviewed
    <3> SUFFICES ASSUME loading = "loaded", NEW day \in CatalogDays, NEW o \in DOMAIN tree.offerings,
                        NEW i \in BenefitsFor(tree, o, day)
                 PROVE  /\ i \in ConsumerVisible(tree, o, day)
                        /\ \E e \in tree.rules[i].evidence :
                             /\ e.review = "approved" /\ e.confident /\ ~e.discovery /\ ~e.personalized
                             /\ e.decisions = {"approved"}
                             /\ e.retrieved <= e.reviewed /\ e.reviewed <= tree.released
      BY DEF ActiveIsReviewed
    <3>1. /\ i \in DOMAIN tree.rules /\ tree.rules[i].offering = o
          /\ tree.rules[i].status = "active" /\ Applies(tree.rules[i], day)
      BY DEF BenefitsFor
    <3>2. RuleAllowed(tree.rules[i]) /\ CrossChecked(tree)
      BY <3>1 DEF RulesInv, LoadingInv
    <3>3. EvidenceInTime(tree, tree.rules[i])
      BY <3>1, <3>2 DEF CrossChecked
    <3>4. ReviewGate(tree.rules[i].evidence) /\ \A e \in tree.rules[i].evidence : AssertionAllowed(e)
      BY <3>1, <3>2 DEF RuleAllowed, RescuedAllowed, ProvenanceAllowed, RetainedAllowed, LegacyAllowed
    <3>5. PICK e \in tree.rules[i].evidence :
            e.review = "approved" /\ e.confident /\ "approved" \in e.decisions
      BY <3>4 DEF ReviewGate
    <3>6. /\ e.decisions # {} /\ e.reviewed >= e.retrieved /\ ~e.discovery /\ ~e.personalized
          /\ e.decisions = {"approved"}
      BY <3>4, <3>5 DEF AssertionAllowed
    <3>7. e.reviewed <= tree.released /\ e.retrieved <= tree.released
      BY <3>3, <3>6 DEF EvidenceInTime
    <3>8. i \in ConsumerVisible(tree, o, day)
      BY <3>1 DEF ConsumerVisible
    <3>9. e.retrieved <= e.reviewed
      BY <3>6
    <3>10. QED
      BY <3>5, <3>6, <3>7, <3>8, <3>9
  <2>4. SupersededIsHistory
    <3> SUFFICES ASSUME loading = "loaded", NEW day \in CatalogDays, NEW o \in DOMAIN tree.offerings,
                        NEW i \in BenefitsFor(tree, o, day), tree.rules[i].supersedes # NoValue
                 PROVE  LET old == tree.rules[i].supersedes
                        IN  /\ \A any \in DOMAIN tree.offerings : old \notin BenefitsFor(tree, any, day)
                            /\ StillInherited(tree.rules[old], day) =>
                                 old \in VisibleWithHistory(tree, day) \cap HistoricalFor(tree, o, day)
      BY DEF SupersededIsHistory
    <3> DEFINE old == tree.rules[i].supersedes
    <3>1. i \in DOMAIN tree.rules /\ tree.rules[i].offering = o
      BY DEF BenefitsFor
    <3>2. SupersedesOlder(tree, i)
      BY <3>1 DEF RulesInv, LoadingInv, CrossChecked
    <3>3. /\ old \in DOMAIN tree.rules /\ tree.rules[old].offering = o
          /\ tree.rules[old].status \in {"superseded", "historical"}
      BY <3>1, <3>2 DEF SupersedesOlder
    <3> HIDE DEF old
    <3>4. \A any : old \notin BenefitsFor(tree, any, day)
      BY <3>3 DEF BenefitsFor
    <3>5. StillInherited(tree.rules[old], day) =>
            old \in VisibleWithHistory(tree, day) \cap HistoricalFor(tree, o, day)
      BY <3>3 DEF VisibleWithHistory, HistoricalFor
    <3>6. QED
      BY <3>4, <3>5 DEF old
  <2>5. QED
    BY <2>1, <2>2, <2>3, <2>4 DEF CatalogSound
<1>2. QED
  BY <1>1, RulesInductive, PTL

-----------------------------------------------------------------------------
(* The evidence graph *)

\* A revalidation collects the candidates it has found, never another number,
\* and so is never done.
LEMMA NeverDone ==
  ASSUME NEW c, NEW d, NEW v, Revalidate(c, d, v)
  PROVE  graph' = graph /\ today' = today /\ asked'.done = FALSE
<1>1. DOMAIN Collected(graph, c, d, v) = DOMAIN graph.candidates
  BY DEF Collected
<1>2. QED
  BY <1>1 DEF Revalidate

\* The candidate's evidence is all there is about its rule.
LEMMA AllEvidence ==
  ASSUME ValidGraph(graph), NEW c \in DOMAIN graph.candidates,
         AssertionsAbout(graph, graph.candidates[c].rule) \subseteq graph.candidates[c].assertions
  PROVE  AssertionsOf(graph, graph.candidates[c].assertions)
           = AssertionsAbout(graph, graph.candidates[c].rule)
<1>1. \A a \in AssertionsOf(graph, graph.candidates[c].assertions) :
        graph.assertions[a].rule = graph.candidates[c].rule
  BY DEF ValidGraph, CandidatesBound
<1>2. QED
  BY <1>1 DEF AssertionsOf, AssertionsAbout

\* What a human may promote could be exported that day.
LEMMA PromotedExports ==
  ASSUME ValidGraph(graph)
  PROVE  PromotableIsExportable
<1> SUFFICES ASSUME NEW c \in DOMAIN graph.candidates,
                    AssertionsAbout(graph, graph.candidates[c].rule)
                      \subseteq graph.candidates[c].assertions,
                    Promotable(graph, c, today)
             PROVE  Exportable(graph, graph.candidates[c].rule, graph.candidates[c].payload,
                               graph.rules[graph.candidates[c].rule].version, today)
  BY DEF PromotableIsExportable
<1> DEFINE candidate == graph.candidates[c]
           r == candidate.rule
           A == AssertionsAbout(graph, r)
<1>1. AssertionsOf(graph, candidate.assertions) = A
  BY AllEvidence
<1>2. /\ Revalidated(graph, c, today)
      /\ AdmissionOf(graph, candidate.document).state = "approved"
      /\ SourceActive(graph, candidate.document, today)
      /\ PayloadBound(graph, r, candidate.payload, A)
      /\ EvidenceApproved(graph, A)
      /\ today \in graph.rules[r].window
      /\ HasActiveState(graph, r, today)
  BY <1>1 DEF Promotable
<1>3. r \in DOMAIN graph.rules
  BY DEF ValidGraph, CandidatesBound
<1>4. ASSUME NEW a \in A
      PROVE  Backs(graph, a, today)
  <2>1. /\ graph.assertions[a].review = "approved"
        /\ graph.observations[graph.assertions[a].observation].result = "matched"
    BY <1>2 DEF EvidenceApproved
  <2>2. a \in DOMAIN graph.assertions
    BY DEF AssertionsAbout
  <2>3. /\ graph.assertions[a].document \in DOMAIN graph.documents
        /\ graph.documents[graph.assertions[a].document].edition[1]
             = graph.assertions[a].version
        /\ graph.documents[graph.assertions[a].document].tier < 6
    BY <2>2 DEF ValidGraph, AssertionsExact
  <2>4. <<graph.assertions[a].document, graph.assertions[a].version>>
          = <<candidate.document, candidate.version>>
    BY <1>1, <1>2 DEF Revalidated, ValidGraph, CandidatesBound
  <2>5. graph.assertions[a].document = candidate.document
    BY <2>4
  <2>6. QED
    BY <1>2, <2>1, <2>3, <2>5 DEF Backs
<1>5. graph.rules[r].content = candidate.payload
  BY <1>2 DEF PayloadBound
<1>6. A # {}
  BY <1>2 DEF EvidenceApproved
<1>7. QED
  BY <1>2, <1>3, <1>4, <1>5, <1>6 DEF Exportable

\* An exported rule cites what official documents say that day.
LEMMA ExportsEvidenced ==
  ASSUME ValidGraph(graph)
  PROVE  ExportIsEvidenced
<1> SUFFICES ASSUME NEW r \in DOMAIN graph.rules,
                    Exportable(graph, r, graph.rules[r].content,
                               graph.rules[r].version, today),
                    NEW f \in DOMAIN graph.rules[r].cites,
                    NEW s \in graph.rules[r].cites[f]
             PROVE  /\ graph.spans[s].edition
                         = graph.documents[graph.spans[s].document].edition
                    /\ graph.documents[graph.spans[s].document].tier < 6
                    /\ SourceActive(graph, graph.spans[s].document, today)
  BY DEF ExportIsEvidenced
<1> DEFINE A == AssertionsAbout(graph, r)
<1>1. /\ PayloadBound(graph, r, graph.rules[r].content, A)
      /\ \A a \in A : Backs(graph, a, today)
  BY DEF Exportable
<1>2. /\ graph.rules[r].cites[f] = UNION {graph.assertions[a].cites[f] : a \in A}
      /\ \A a \in A : DOMAIN graph.assertions[a].cites = DOMAIN graph.rules[r].cites
  BY <1>1 DEF PayloadBound
<1>3. PICK a \in A : s \in graph.assertions[a].cites[f]
  BY <1>2
<1>4. a \in DOMAIN graph.assertions /\ f \in DOMAIN graph.assertions[a].cites
  BY <1>2, <1>3 DEF AssertionsAbout
<1>5. SpanExact(graph, a, s)
  BY <1>3, <1>4 DEF ValidGraph, AssertionsExact
<1>6. QED
  BY <1>1, <1>5 DEF SpanExact, Backs

(* The graph held stays one the constructor accepts: the calls of           *)
(* evidence_graph.py that return a graph return it or a valid one.          *)
THEOREM EvidenceInductive == EvidenceSpec => []EvidenceTypeOK
<1>1. EvidenceInit => EvidenceTypeOK
  BY DaysExist DEF EvidenceInit, EvidenceTypeOK
<1>2. EvidenceTypeOK /\ [EvidenceNext]_evidenceVars => EvidenceTypeOK'
  <2> SUFFICES ASSUME EvidenceTypeOK, [EvidenceNext]_evidenceVars PROVE EvidenceTypeOK'
    OBVIOUS
  <2>1. CASE DayPasses
    BY <2>1, DaysExist DEF DayPasses, EvidenceTypeOK
  <2>2. ASSUME NEW c, NEW d, NEW v, Revalidate(c, d, v)
        PROVE  EvidenceTypeOK'
    BY <2>2, NeverDone DEF EvidenceTypeOK
  <2>3. CASE UNCHANGED evidenceVars
    BY <2>3 DEF evidenceVars, EvidenceTypeOK
  <2>4. QED
    BY <2>1, <2>2, <2>3 DEF EvidenceNext
<1>3. QED
  BY <1>1, <1>2, PTL DEF EvidenceSpec

\* "Mark a candidate promotable only when all citations bind exact evidence.", says
\* revalidate_candidate (evidence_graph.py:666); it marks none, whatever it cites,
\* because the number it compares is the same before and after.
THEOREM NothingRevalidated == EvidenceSpec => [](asked # NoDocument => asked.done = FALSE)
<1>1. EvidenceInit => (asked # NoDocument => asked.done = FALSE)
  BY DEF EvidenceInit
<1>2. /\ asked # NoDocument => asked.done = FALSE
      /\ [EvidenceNext]_evidenceVars
      => (asked # NoDocument => asked.done = FALSE)'
  BY NeverDone DEF EvidenceNext, DayPasses, evidenceVars
<1>3. QED
  BY <1>1, <1>2, PTL DEF EvidenceSpec

(* eligible_for_human_promotion and eligible_for_catalog_export decide       *)
(* alike, and what is exported rests on the editions the documents now have. *)
THEOREM EvidenceIsSound == EvidenceSpec => []EvidenceSound
<1>1. EvidenceTypeOK => EvidenceSound
  BY PromotedExports, ExportsEvidenced DEF EvidenceTypeOK, EvidenceSound
<1>2. QED
  BY <1>1, EvidenceInductive, PTL

-----------------------------------------------------------------------------
(* Allowance periods *)

\* Days of the calendar, of any year.
Dates == {d \in Int \X Int \X Int : d[2] \in 1 .. 12 /\ d[3] \in 1 .. MonthLength(d[1], d[2])}

\* Every month has its 28th day, the last of a year its 31st.
LEMMA MonthLengths ==
  ASSUME NEW y \in Int, NEW m \in 1 .. 12
  PROVE  /\ MonthLength(y, m) \in 28 .. 31
         /\ m \in {1, 12} => MonthLength(y, m) = 31
BY DEF MonthLength

\* A day is its year, month and day of the month.
LEMMA DateParts ==
  ASSUME NEW d \in Dates
  PROVE  /\ d = <<d[1], d[2], d[3]>>
         /\ d[1] \in Int /\ d[2] \in 1 .. 12 /\ d[3] \in 1 .. 31
         /\ d[3] <= MonthLength(d[1], d[2])
BY MonthLengths DEF Dates

\* What is a day.
LEMMA IsDate ==
  ASSUME NEW y \in Int, NEW m \in 1 .. 12, NEW n \in 1 .. MonthLength(y, m)
  PROVE  <<y, m, n>> \in Dates
BY MonthLengths DEF Dates

\* A clamped day is a day of that month.
LEMMA ClampedDate ==
  ASSUME NEW y \in Int, NEW m \in 1 .. 12, NEW n \in 1 .. 31
  PROVE  /\ Clamped(y, m, n) \in Dates
         /\ Clamped(y, m, n)[1] = y /\ Clamped(y, m, n)[2] = m
<1> DEFINE l == MonthLength(y, m)
           k == IF n <= l THEN n ELSE l
<1>1. l \in 28 .. 31
  BY MonthLengths
<1>2. k \in 1 .. l
  BY <1>1
<1>3. <<y, m, k>> \in Dates
  BY <1>2, IsDate
<1>4. QED
  BY <1>3 DEF Clamped

\* The day before a day is a day, and the last one earlier than it.
LEMMA DayBeforeDate ==
  ASSUME NEW d \in Dates
  PROVE  /\ DayBefore(d) \in Dates
         /\ DayAfter(DayBefore(d)) = d
         /\ ~ NotAfter(d, DayBefore(d))
         /\ \A e \in Dates : ~ NotAfter(d, e) => NotAfter(e, DayBefore(d))
<1> DEFINE y == d[1]
           m == d[2]
           n == d[3]
<1>1. /\ d = <<y, m, n>> /\ y \in Int /\ m \in 1 .. 12 /\ n \in 1 .. 31
      /\ n <= MonthLength(y, m)
  BY DateParts
<1>2. ASSUME NEW e \in Dates
      PROVE  /\ e[1] \in Int /\ e[2] \in 1 .. 12 /\ e[3] \in 1 .. 31
             /\ e[3] <= MonthLength(e[1], e[2])
  BY DateParts
<1>3. CASE n > 1
  <2>1. DayBefore(d) = <<y, m, n - 1>>
    BY <1>3 DEF DayBefore
  <2>2. <<y, m, n - 1>> \in Dates
    <3>1. n - 1 \in 1 .. MonthLength(y, m)
      BY <1>1, <1>3, MonthLengths
    <3>2. QED
      BY <1>1, <3>1, IsDate
  <2>3. DayAfter(<<y, m, n - 1>>) = d
    BY <1>1, <1>3, MonthLengths DEF DayAfter
  <2>4. QED
    BY <1>1, <1>2, <1>3, <2>1, <2>2, <2>3 DEF NotAfter
<1>4. CASE n = 1 /\ m > 1
  <2> DEFINE l == MonthLength(y, m - 1)
  <2>1. DayBefore(d) = <<y, m - 1, l>>
    BY <1>4 DEF DayBefore
  <2>2. m - 1 \in 1 .. 12 /\ l \in 28 .. 31
    BY <1>1, <1>4, MonthLengths
  <2>3. <<y, m - 1, l>> \in Dates
    <3>1. l \in 1 .. MonthLength(y, m - 1)
      BY <2>2
    <3>2. QED
      BY <1>1, <2>2, <3>1, IsDate
  <2>4. DayAfter(<<y, m - 1, l>>) = d
    BY <1>1, <1>4, <2>2 DEF DayAfter
  <2>5. ASSUME NEW e \in Dates, ~ NotAfter(d, e)
        PROVE  NotAfter(e, <<y, m - 1, l>>)
    BY <1>1, <1>2, <1>4, <2>2, <2>5 DEF NotAfter
  <2>6. QED
    BY <1>1, <1>4, <2>1, <2>2, <2>3, <2>4, <2>5 DEF NotAfter
<1>5. CASE n = 1 /\ m = 1
  <2>1. DayBefore(d) = <<y - 1, 12, 31>>
    BY <1>5 DEF DayBefore
  <2>2. y - 1 \in Int /\ MonthLength(y - 1, 12) = 31
    BY <1>1, MonthLengths
  <2>3. <<y - 1, 12, 31>> \in Dates
    <3>1. 12 \in 1 .. 12 /\ 31 \in 1 .. MonthLength(y - 1, 12)
      BY <2>2
    <3>2. QED
      BY <2>2, <3>1, IsDate
  <2>4. DayAfter(<<y - 1, 12, 31>>) = d
    BY <1>1, <1>5, <2>2 DEF DayAfter
  <2>5. ASSUME NEW e \in Dates, ~ NotAfter(d, e)
        PROVE  NotAfter(e, <<y - 1, 12, 31>>)
    BY <1>1, <1>2, <1>5, <2>5 DEF NotAfter
  <2>6. QED
    BY <1>1, <1>5, <2>1, <2>3, <2>4, <2>5 DEF NotAfter
<1>6. QED
  BY <1>1, <1>3, <1>4, <1>5

-----------------------------------------------------------------------------

\* What PeriodsTile says of the window of day d.
Tiles(p, a, d) ==
  LET here == PeriodBounds(p, a, d)
  IN /\ NotAfter(here.start, d) /\ NotAfter(d, here.end)
     /\ DayAfter(here.end) = here.resets
     /\ PeriodBounds(p, a, here.start) = here
     /\ PeriodBounds(p, a, here.end) = here
     /\ PeriodBounds(p, a, here.resets).start = here.resets

\* A window of whole months starts with the first, ends with the last day of
\* the last, and resets on the first of the next.
LEMMA MonthsWindow ==
  ASSUME NEW y \in Int, NEW first \in 1 .. 12, NEW last \in first .. 12
  PROVE  LET w == MonthsFrom(y, first, last)
         IN /\ w.start = <<y, first, 1>>
            /\ w.end = <<y, last, MonthLength(y, last)>>
            /\ w.resets = IF last < 12 THEN <<y, last + 1, 1>> ELSE <<y + 1, 1, 1>>
            /\ DayAfter(w.end) = w.resets
            /\ \A d \in Dates : d[1] = y /\ d[2] \in first .. last =>
                 NotAfter(w.start, d) /\ NotAfter(d, w.end)
<1> DEFINE l == MonthLength(y, last)
<1>1. l \in 28 .. 31
  BY MonthLengths
<1>2. DayAfter(<<y, last, l>>) = IF last < 12 THEN <<y, last + 1, 1>> ELSE <<y + 1, 1, 1>>
  BY <1>1 DEF DayAfter
<1>3. ASSUME NEW d \in Dates, d[1] = y, d[2] \in first .. last
      PROVE  NotAfter(<<y, first, 1>>, d) /\ NotAfter(d, <<y, last, l>>)
  BY <1>1, <1>3, DateParts DEF NotAfter
<1>4. QED
  BY <1>2, <1>3 DEF MonthsFrom

\* The first month of a quarter.
QuarterOf(m) == 3 * ((m - 1) \div 3) + 1

\* Quarters begin in January, April, July and October and last three months.
LEMMA Quarters ==
  ASSUME NEW m \in 1 .. 12
  PROVE  /\ QuarterOf(m) \in {1, 4, 7, 10}
         /\ m \in QuarterOf(m) .. QuarterOf(m) + 2
         /\ \A n \in QuarterOf(m) .. QuarterOf(m) + 2 : QuarterOf(n) = QuarterOf(m)
         /\ QuarterOf(m) < 10 => QuarterOf(QuarterOf(m) + 3) = QuarterOf(m) + 3
         /\ QuarterOf(1) = 1
<1>1. QuarterOf(1) = 1 /\ QuarterOf(2) = 1 /\ QuarterOf(3) = 1
  BY DEF QuarterOf
<1>2. QuarterOf(4) = 4 /\ QuarterOf(5) = 4 /\ QuarterOf(6) = 4
  BY DEF QuarterOf
<1>3. QuarterOf(7) = 7 /\ QuarterOf(8) = 7 /\ QuarterOf(9) = 7
  BY DEF QuarterOf
<1>4. QuarterOf(10) = 10 /\ QuarterOf(11) = 10 /\ QuarterOf(12) = 10
  BY DEF QuarterOf
<1>5. QED
  BY <1>1, <1>2, <1>3, <1>4

\* Months, quarters and calendar years tile the days.
LEMMA MonthsTile ==
  ASSUME NEW p \in {"monthly", "quarterly", "calendar_year"}, NEW a, NEW d \in Dates
  PROVE  Tiles(p, a, d)
<1> DEFINE first(m) == IF p = "monthly" THEN m ELSE IF p = "quarterly" THEN QuarterOf(m) ELSE 1
           last(m) == IF p = "monthly" THEN m ELSE IF p = "quarterly" THEN QuarterOf(m) + 2 ELSE 12
           y == d[1]
           m == d[2]
           f == first(m)
           g == last(m)
           w == MonthsFrom(y, f, g)
<1>1. ASSUME NEW e PROVE PeriodBounds(p, a, e) = MonthsFrom(e[1], first(e[2]), last(e[2]))
  BY DEF PeriodBounds, QuarterOf
<1>2. /\ y \in Int /\ m \in 1 .. 12
  BY DateParts
<1>3. /\ f \in 1 .. 12 /\ g \in f .. 12 /\ m \in f .. g
      /\ first(f) = f /\ last(f) = g /\ first(g) = f /\ last(g) = g
      /\ g < 12 => first(g + 1) = g + 1 /\ last(g + 1) \in g + 1 .. 12
      /\ first(1) = 1 /\ last(1) \in 1 .. 12
  <2>1. CASE p = "monthly"
    BY <1>2, <2>1
  <2>2. CASE p = "quarterly"
    BY <1>2, <2>2, Quarters
  <2>3. CASE p = "calendar_year"
    BY <1>2, <2>3
  <2>4. QED
    BY <2>1, <2>2, <2>3
<1> HIDE DEF first, last, f, g
<1>4. PeriodBounds(p, a, d) = w
  BY <1>1 DEF f, g
<1>5. /\ w.start = <<y, f, 1>> /\ w.end = <<y, g, MonthLength(y, g)>>
      /\ w.resets = IF g < 12 THEN <<y, g + 1, 1>> ELSE <<y + 1, 1, 1>>
      /\ DayAfter(w.end) = w.resets /\ NotAfter(w.start, d) /\ NotAfter(d, w.end)
  BY <1>2, <1>3, MonthsWindow
<1>6. PeriodBounds(p, a, w.start) = w /\ PeriodBounds(p, a, w.end) = w
  BY <1>1, <1>3, <1>5
<1>7. PeriodBounds(p, a, w.resets).start = w.resets
  <2>1. CASE g < 12
    <3>1. PeriodBounds(p, a, w.resets) = MonthsFrom(y, g + 1, last(g + 1))
      BY <1>1, <1>3, <1>5, <2>1
    <3>2. QED
      BY <1>5, <2>1, <3>1 DEF MonthsFrom
  <2>2. CASE ~ (g < 12)
    <3>1. PeriodBounds(p, a, w.resets) = MonthsFrom(y + 1, 1, last(1))
      BY <1>1, <1>3, <1>5, <2>2
    <3>2. QED
      BY <1>5, <2>2, <3>1 DEF MonthsFrom
  <2>3. QED
    BY <2>1, <2>2
<1> HIDE DEF w
<1>8. QED
  BY <1>4, <1>5, <1>6, <1>7 DEF Tiles

\* The window from the anniversary of one year to that of the next.
YearFrom(y, a) ==
  LET next == Clamped(y + 1, a[1], a[2])
  IN [start |-> Clamped(y, a[1], a[2]), end |-> DayBefore(next), resets |-> next]

\* A day is in the window that begins not after it and resets after it.
LEMMA InYear ==
  ASSUME NEW a \in (1 .. 12) \X (1 .. 31), NEW d \in Dates, NEW y \in Int,
         NotAfter(Clamped(y, a[1], a[2]), d), ~ NotAfter(Clamped(y + 1, a[1], a[2]), d)
  PROVE  AnniversaryYear(d, a) = YearFrom(y, a)
<1>1. d[1] \in Int /\ d[2] \in Int /\ d[3] \in Int
  BY DateParts
<1>2. Clamped(y, a[1], a[2])[1] = y /\ Clamped(y + 1, a[1], a[2])[1] = y + 1
  BY DEF Clamped
<1>3. d[1] \in {y, y + 1}
  BY <1>1, <1>2 DEF NotAfter
<1>4. CASE d[1] = y
  BY <1>4 DEF AnniversaryYear, YearFrom
<1>5. CASE d[1] = y + 1
  <2>1. d[1] - 1 = y
    BY <1>5
  <2>2. QED
    BY <1>5, <2>1 DEF AnniversaryYear, YearFrom
<1>6. QED
  BY <1>3, <1>4, <1>5

\* Anniversaries tile the days, whatever the day of the month they fall on.
LEMMA AnniversariesTile ==
  ASSUME NEW a \in (1 .. 12) \X (1 .. 31), NEW d \in Dates
  PROVE  Tiles("anniversary", a, d)
<1> DEFINE C(y) == Clamped(y, a[1], a[2])
           W(y) == YearFrom(y, a)
<1>1. \A e : PeriodBounds("anniversary", a, e) = AnniversaryYear(e, a)
  BY DEF PeriodBounds
<1>2. ASSUME NEW y \in Int
      PROVE  /\ C(y) \in Dates /\ C(y)[1] = y
             /\ W(y) = [start |-> C(y), end |-> DayBefore(C(y + 1)), resets |-> C(y + 1)]
  <2>1. a[1] \in 1 .. 12 /\ a[2] \in 1 .. 31
    OBVIOUS
  <2>2. C(y) \in Dates /\ C(y)[1] = y
    BY <2>1, ClampedDate
  <2>3. QED
    BY <2>2 DEF YearFrom
<1> HIDE DEF C, W
<1>3. ASSUME NEW y \in Int, NEW e \in Dates, NotAfter(C(y), e), ~ NotAfter(C(y + 1), e)
      PROVE  AnniversaryYear(e, a) = W(y)
  BY <1>3, InYear DEF C, W
<1>4. ASSUME NEW y \in Int
      PROVE  ~ NotAfter(C(y + 1), C(y)) /\ NotAfter(C(y), C(y))
  <2>1. C(y)[1] = y /\ C(y + 1)[1] = y + 1 /\ C(y) \in Dates
    BY <1>2
  <2>2. C(y)[2] \in Int /\ C(y)[3] \in Int
    BY <2>1, DateParts
  <2>3. QED
    BY <2>1, <2>2 DEF NotAfter
<1>5. PICK y \in Int : NotAfter(C(y), d) /\ ~ NotAfter(C(y + 1), d)
  <2>1. d[1] \in Int /\ d[1] - 1 \in Int /\ d[1] + 1 \in Int
        /\ (d[1] - 1) + 1 = d[1]
    BY DateParts
  <2>2. C(d[1] + 1)[1] = d[1] + 1 /\ C(d[1] - 1)[1] = d[1] - 1
    BY <1>2, <2>1
  <2>3. CASE NotAfter(C(d[1]), d)
    <3>1. ~ NotAfter(C(d[1] + 1), d)
      BY <2>1, <2>2 DEF NotAfter
    <3>2. QED
      BY <2>1, <2>3, <3>1
  <2>4. CASE ~ NotAfter(C(d[1]), d)
    <3>1. NotAfter(C(d[1] - 1), d)
      BY <2>1, <2>2 DEF NotAfter
    <3>2. QED
      BY <2>1, <2>4, <3>1
  <2>5. QED
    BY <2>3, <2>4
<1> DEFINE end == DayBefore(C(y + 1))
<1>6. y + 1 \in Int /\ C(y) \in Dates /\ C(y + 1) \in Dates
  BY <1>2
<1>7. /\ end \in Dates /\ DayAfter(end) = C(y + 1) /\ ~ NotAfter(C(y + 1), end)
      /\ NotAfter(d, end) /\ NotAfter(C(y), end)
  BY <1>4, <1>5, <1>6, DayBeforeDate
<1>8. /\ AnniversaryYear(d, a) = W(y)
      /\ AnniversaryYear(C(y), a) = W(y)
      /\ AnniversaryYear(end, a) = W(y)
  BY <1>3, <1>4, <1>5, <1>6, <1>7
<1>9. AnniversaryYear(C(y + 1), a) = W(y + 1)
  BY <1>3, <1>4, <1>6
<1>10. /\ W(y).start = C(y) /\ W(y).end = end /\ W(y).resets = C(y + 1)
       /\ W(y + 1).start = C(y + 1)
  BY <1>2, <1>6
<1> HIDE DEF end
<1>11. QED
  BY <1>1, <1>5, <1>7, <1>8, <1>9, <1>10 DEF Tiles

\* Where the model's clock is: a day between its bounds.
PeriodInv ==
  /\ period \in {"monthly", "quarterly", "calendar_year", "anniversary"}
  /\ PeriodTypeOK /\ date \in Dates

(* The day that passes is always a day of the calendar, leap years included.*)
THEOREM PeriodInductive == PeriodSpec => []PeriodInv
<1>1. PeriodInit => PeriodInv
  <2> SUFFICES ASSUME PeriodInit PROVE PeriodInv
    OBVIOUS
  <2>1. FirstYear \in Int /\ MonthLength(FirstYear, 1) = 31
    BY YearsAreYears, MonthLengths
  <2>2. <<FirstYear, 1, 1>> \in Dates
    BY <2>1, IsDate
  <2>3. QED
    BY <2>1, <2>2, YearsAreYears DEF PeriodInit, PeriodInv, PeriodTypeOK
<1>2. PeriodInv /\ [PeriodNext]_periodVars => PeriodInv'
  <2> SUFFICES ASSUME PeriodInv, [PeriodNext]_periodVars PROVE PeriodInv'
    OBVIOUS
  <2>1. CASE PeriodNext
    <3> DEFINE y == date[1]
               m == date[2]
               n == date[3]
    <3>1. /\ date = <<y, m, n>> /\ y \in FirstYear .. LastYear
          /\ m \in 1 .. 12 /\ n \in 1 .. 31 /\ n <= MonthLength(y, m)
      BY DateParts DEF PeriodInv, PeriodTypeOK
    <3>2. y \in Int /\ MonthLength(y, m) \in 28 .. 31 /\ (m = 12 => MonthLength(y, m) = 31)
      BY <3>1, YearsAreYears, MonthLengths
    <3>3. date' = DayAfter(date) /\ date # <<LastYear, 12, 31>>
          /\ UNCHANGED <<period, anniversary>>
      BY <2>1 DEF PeriodNext
    <3>4. CASE n < MonthLength(y, m)
      <4>1. date' = <<y, m, n + 1>> /\ n + 1 \in 1 .. MonthLength(y, m)
        BY <3>1, <3>2, <3>3, <3>4 DEF DayAfter
      <4>2. QED
        BY <3>1, <3>2, <3>3, <4>1, IsDate DEF PeriodInv, PeriodTypeOK
    <3>5. CASE ~ (n < MonthLength(y, m)) /\ m < 12
      <4>1. date' = <<y, m + 1, 1>> /\ m + 1 \in 1 .. 12
        BY <3>1, <3>2, <3>3, <3>5 DEF DayAfter
      <4>2. 1 \in 1 .. MonthLength(y, m + 1)
        BY <3>2, <4>1, MonthLengths
      <4>3. QED
        BY <3>1, <3>2, <3>3, <4>1, <4>2, IsDate DEF PeriodInv, PeriodTypeOK
    <3>6. CASE ~ (n < MonthLength(y, m)) /\ ~ (m < 12)
      <4>1. date' = <<y + 1, 1, 1>> /\ m = 12 /\ n = 31
        BY <3>1, <3>2, <3>3, <3>6 DEF DayAfter
      <4>2. y + 1 \in FirstYear .. LastYear /\ y + 1 \in Int
        BY <3>1, <3>2, <3>3, <4>1, YearsAreYears
      <4>3. 1 \in 1 .. MonthLength(y + 1, 1)
        BY <4>2, MonthLengths
      <4>4. QED
        BY <3>3, <4>1, <4>2, <4>3, IsDate DEF PeriodInv, PeriodTypeOK
    <3>7. QED
      BY <3>4, <3>5, <3>6
  <2>2. CASE UNCHANGED periodVars
    BY <2>2 DEF periodVars, PeriodInv, PeriodTypeOK
  <2>3. QED
    BY <2>1, <2>2
<1>3. QED
  BY <1>1, <1>2, PTL DEF PeriodSpec

\* The date is always one of the calendar.
THEOREM PeriodTyped == PeriodSpec => []PeriodTypeOK
<1>1. PeriodInv => PeriodTypeOK
  BY DEF PeriodInv
<1>2. QED
  BY <1>1, PeriodInductive, PTL

(* The windows of allowance_period.py leave no day out and count none twice, *)
(* in every year and for every anniversary, 29 February included.           *)
THEOREM EveryDayOnce == PeriodSpec => []PeriodsTile
<1>1. PeriodInv => PeriodsTile
  <2> SUFFICES ASSUME PeriodInv PROVE PeriodsTile
    OBVIOUS
  <2>1. Tiles(period, anniversary, date)
    <3>1. CASE period = "anniversary"
      BY <3>1, AnniversariesTile, AnniversariesAreDays DEF PeriodInv, PeriodTypeOK
    <3>2. CASE period # "anniversary"
      BY <3>2, MonthsTile DEF PeriodInv
    <3>3. QED
      BY <3>1, <3>2
  <2>2. QED
    BY <2>1 DEF Tiles, PeriodsTile
<1>2. QED
  BY <1>1, PeriodInductive, PTL

-----------------------------------------------------------------------------
(* The value of a route *)

Whole(v) == \E n \in Int : v = Minor * n
Left(g) == IF g \in DOMAIN leftGroup THEN leftGroup[g] ELSE CapOf(g)

RouteTypes ==
  /\ route \in Seq(Components) /\ Accepted(route) /\ amount \in Amounts
  /\ valued \in Seq([min : Nat, max : Nat]) /\ Len(valued) <= Len(route)
  /\ leftClass \in [Classes -> Nat]
  /\ DOMAIN leftGroup \subseteq CapGroups

\* What a class and a group have left is what their components did not count.
LeftInv ==
  /\ \A c \in Classes : Whole(leftClass[c]) /\ Total(c) + leftClass[c] = Quantize(amount)
  /\ \A g \in GroupsOf(route) :
       /\ Left(g) \in Int /\ Counted(g) \in Int /\ Counted(g) + Left(g) = CapOf(g)
       /\ 2 * Left(g) + Minor >= 0

\* No component counts more than its own caps, but for the rounding.
OwnInv ==
  \A i \in DOMAIN valued :
    /\ valued[i].min <= valued[i].max
    /\ 2 * valued[i].max <= 2 * Least({route[i].max, route[i].cap, route[i].allowance}) + Minor

\* In whole units nothing is rounded: a class has counted what its components
\* are worth, or all of the purchase; until then so has each of its groups.
ExactInv ==
  WholeUnits /\ GroupsWithinClasses =>
    /\ \A c \in Classes : Total(c) = ClassWorth(c, Len(valued))
    /\ \A i \in DOMAIN route : route[i].group # Uncapped =>
         LET g == route[i].group IN
         /\ Left(g) >= 0 /\ Whole(Left(g))
         /\ leftClass[route[i].class] > 0 =>
              Counted(g) = Min({CapOf(g), GroupWorth(g, Len(valued))})

RouteInv == RouteTypes /\ LeftInv /\ OwnInv /\ ExactInv

\* Induction up to N: a set with 0 in it, and with every number the next one.
LEMMA UpTo ==
  ASSUME NEW N \in Nat, NEW T, 0 \in T, \A n \in 0 .. N - 1 : n \in T => n + 1 \in T
  PROVE  \A n \in 0 .. N : n \in T
<1> DEFINE Less == {p \in Nat \X Nat : p[1] < p[2]}
           U == {n \in 0 .. N : n \notin T}
<1>1. SUFFICES ASSUME U # {} PROVE FALSE
  OBVIOUS
<1>2. IsWellFoundedOn(Less, Nat)
  <2>1. Less = OpToRel(<, Nat)
    BY DEF OpToRel
  <2>2. QED
    BY <2>1, NatLessThanWellFounded
<1>3. U \subseteq Nat
  OBVIOUS
<1>4. PICK x \in U : \A y \in U : <<y, x>> \notin Less
  <2> HIDE DEF U, Less
  <2>1. QED
    BY <1>1, <1>2, <1>3, WFMin
<1>5. x \in Nat /\ x <= N /\ x \notin T /\ x # 0
  BY <1>4
<1>6. x - 1 \in 0 .. N - 1 /\ (x - 1) + 1 = x
  BY <1>5
<1>7. x - 1 \in T
  <2>1. <<x - 1, x>> \in Less
    BY <1>5, <1>6
  <2>2. x - 1 \notin U
    BY <1>4, <2>1
  <2>3. QED
    BY <1>6, <2>2
<1>8. QED
  BY <1>5, <1>6, <1>7

\* What SumTo adds up on the way.
Adding(s, f, n) == s = [i \in 0 .. n |-> IF i = 0 THEN 0 ELSE s[i - 1] + f[i]]

\* Such a function begins with nothing and adds one amount at each step.
LEMMA AddingStep ==
  ASSUME NEW n \in Nat, NEW s, NEW f, Adding(s, f, n)
  PROVE  s[0] = 0 /\ \A i \in 1 .. n : s[i] = s[i - 1] + f[i]
<1>1. ASSUME NEW i \in 0 .. n PROVE s[i] = IF i = 0 THEN 0 ELSE s[i - 1] + f[i]
  BY Zenon DEF Adding
<1>2. 0 \in 0 .. n /\ \A i \in 1 .. n : i \in 0 .. n /\ i # 0
  OBVIOUS
<1>3. QED
  BY <1>1, <1>2

\* A function that adds up step by step exists.
LEMMA AddingExists ==
  ASSUME NEW f, NEW N \in Nat
  PROVE  \E s : Adding(s, f, N)
<1> DEFINE T == {n \in 0 .. N : \E s : Adding(s, f, n)}
<1>1. 0 \in T
  <2>1. Adding([i \in 0 .. 0 |-> 0], f, 0)
    BY DEF Adding
  <2>2. QED
    BY <2>1
<1>2. ASSUME NEW n \in 0 .. N - 1, n \in T
      PROVE  n + 1 \in T
  <2>1. PICK s : Adding(s, f, n)
    BY <1>2
  <2> DEFINE t == [i \in 0 .. n + 1 |-> IF i <= n THEN s[i] ELSE s[i - 1] + f[i]]
  <2>2. n \in Nat /\ n + 1 \in 0 .. N /\ \A i \in 0 .. n : t[i] = s[i]
    OBVIOUS
  <2>3. ASSUME NEW i \in 0 .. n + 1
        PROVE  t[i] = IF i = 0 THEN 0 ELSE t[i - 1] + f[i]
    <3>1. i = 0 \/ i - 1 \in 0 .. n
      BY <2>2
    <3>2. CASE i <= n
      <4>1. i = 0 \/ i \in 1 .. n
        BY <2>2, <3>2
      <4>2. s[i] = IF i = 0 THEN 0 ELSE s[i - 1] + f[i]
        BY <2>1, <2>2, <4>1, AddingStep
      <4>3. QED
        BY <2>2, <3>1, <3>2, <4>2
    <3>3. CASE ~(i <= n)
      BY <2>2, <3>1, <3>3
    <3>4. QED
      BY <3>2, <3>3
  <2>4. Adding(t, f, n + 1)
    BY <2>3 DEF Adding
  <2>5. \E r : Adding(r, f, n + 1)
    <3> HIDE DEF t
    <3>1. QED
      BY <2>4
  <2>6. QED
    BY <2>2, <2>5
<1>3. N \in T
  <2> HIDE DEF T
  <2>1. N \in 0 .. N
    OBVIOUS
  <2>2. QED
    BY <1>1, <1>2, <2>1, UpTo
<1>4. QED
  BY <1>3

\* SumTo is where such a function ends.
LEMMA SumIs ==
  ASSUME NEW f, NEW n \in Nat
  PROVE  \E s : Adding(s, f, n) /\ SumTo(f, n) = s[n]
<1>1. SumTo(f, n) = (CHOOSE s : Adding(s, f, n))[n]
  BY DEF SumTo, Adding
<1>2. Adding(CHOOSE s : Adding(s, f, n), f, n)
  BY AddingExists
<1>3. QED
  BY <1>1, <1>2

\* Sums of the same amounts are the same.
LEMMA AddingSame ==
  ASSUME NEW n \in Nat, NEW k \in Nat, n <= k, NEW f, NEW g, NEW s, NEW t,
         Adding(s, f, n), Adding(t, g, k), \A i \in 1 .. n : f[i] = g[i]
  PROVE  s[n] = t[n]
<1> DEFINE T == {i \in 0 .. n : s[i] = t[i]}
<1>1. 0 \in T
  BY AddingStep
<1>2. ASSUME NEW i \in 0 .. n - 1, i \in T
      PROVE  i + 1 \in T
  <2>1. i + 1 \in 1 .. n /\ i + 1 \in 1 .. k /\ (i + 1) - 1 = i /\ i + 1 \in 0 .. n
    OBVIOUS
  <2>2. s[i + 1] = s[i] + f[i + 1] /\ t[i + 1] = t[i] + g[i + 1]
    BY <2>1, AddingStep
  <2>3. QED
    BY <1>2, <2>1, <2>2
<1>3. n \in T
  <2> HIDE DEF T
  <2>1. n \in 0 .. n
    OBVIOUS
  <2>2. QED
    BY <1>1, <1>2, <2>1, UpTo
<1>4. QED
  BY <1>3

\* A sum begins at nothing ...
LEMMA SumNone ==
  ASSUME NEW f
  PROVE  SumTo(f, 0) = 0
BY SumIs, AddingStep

\* ... and one more amount is added to it.
LEMMA SumNext ==
  ASSUME NEW n \in Nat, NEW f, NEW g, \A i \in 1 .. n : f[i] = g[i]
  PROVE  SumTo(g, n + 1) = SumTo(f, n) + g[n + 1]
<1>1. PICK s : Adding(s, f, n) /\ SumTo(f, n) = s[n]
  BY SumIs
<1>2. PICK t : Adding(t, g, n + 1) /\ SumTo(g, n + 1) = t[n + 1]
  BY SumIs
<1>3. n + 1 \in Nat /\ n + 1 \in 1 .. n + 1 /\ (n + 1) - 1 = n /\ n <= n + 1
  OBVIOUS
<1>4. t[n + 1] = t[n] + g[n + 1]
  BY <1>2, <1>3, AddingStep
<1>5. s[n] = t[n]
  BY <1>1, <1>2, <1>3, AddingSame
<1>6. QED
  BY <1>1, <1>2, <1>4, <1>5

\* What a sum is after each of its amounts.
LEMMA SumStep ==
  ASSUME NEW f, NEW n \in Nat
  PROVE  SumTo(f, n + 1) = SumTo(f, n) + f[n + 1]
BY SumNext

\* Sums of numbers are numbers.
LEMMA SumInt ==
  ASSUME NEW f, NEW N \in Nat, \A i \in 1 .. N : f[i] \in Int
  PROVE  SumTo(f, N) \in Int
<1> DEFINE T == {n \in 0 .. N : SumTo(f, n) \in Int}
<1>1. 0 \in T
  BY SumNone
<1>2. ASSUME NEW n \in 0 .. N - 1, n \in T
      PROVE  n + 1 \in T
  <2>1. n \in Nat /\ n + 1 \in 1 .. N /\ n + 1 \in 0 .. N
    OBVIOUS
  <2>2. QED
    BY <1>2, <2>1, SumStep
<1>3. N \in T
  <2> HIDE DEF T
  <2>1. N \in 0 .. N
    OBVIOUS
  <2>2. QED
    BY <1>1, <1>2, <2>1, UpTo
<1>4. QED
  BY <1>3

\* Changing one amount changes the sum by as much.
LEMMA SumPoint ==
  ASSUME NEW N \in Nat, NEW p \in 1 .. N, NEW f, NEW g,
         \A i \in 1 .. N : f[i] \in Int /\ g[i] \in Int /\ (i # p => g[i] = f[i])
  PROVE  SumTo(g, N) = SumTo(f, N) + (g[p] - f[p])
<1> DEFINE d == g[p] - f[p]
           T == {n \in 0 .. N :
                   SumTo(f, n) \in Int /\ SumTo(g, n) = SumTo(f, n) + (IF n < p THEN 0 ELSE d)}
<1>1. 0 \in T
  <2>1. SumTo(f, 0) = 0 /\ SumTo(g, 0) = 0
    BY SumNone
  <2>2. QED
    BY <2>1
<1>2. ASSUME NEW n \in 0 .. N - 1, n \in T
      PROVE  n + 1 \in T
  <2>1. n \in Nat /\ n + 1 \in 1 .. N /\ n + 1 \in 0 .. N
    OBVIOUS
  <2>2. SumTo(f, n + 1) = SumTo(f, n) + f[n + 1] /\ SumTo(g, n + 1) = SumTo(g, n) + g[n + 1]
    BY <2>1, SumStep
  <2>3. f[n + 1] \in Int /\ g[n + 1] = IF n + 1 = p THEN f[n + 1] + d ELSE f[n + 1]
    BY <2>1
  <2>4. QED
    BY <1>2, <2>1, <2>2, <2>3
<1>3. N \in T
  <2> HIDE DEF T
  <2>1. N \in 0 .. N
    OBVIOUS
  <2>2. QED
    BY <1>1, <1>2, <2>1, UpTo
<1>4. QED
  BY <1>3

\* A finite set of numbers has a least one.
LEMMA MinIs ==
  ASSUME NEW S \in SUBSET Int, IsFiniteSet(S), S # {}
  PROVE  Min(S) \in S /\ \A y \in S : Min(S) <= y
<1> DEFINE Bounded(Q) == \E x \in Q : \A y \in Q : x <= y
           N == Cardinality(S)
           T == {n \in 0 .. N : \A Q \in SUBSET S : Q # {} /\ Cardinality(Q) = n => Bounded(Q)}
<1>1. N \in Nat
  BY FS_CardinalityType
<1>2. \A Q \in SUBSET S : IsFiniteSet(Q)
  BY FS_Subset
<1>3. 0 \in T
  BY <1>1, <1>2, FS_EmptySet
<1>4. ASSUME NEW n \in 0 .. N - 1, n \in T
      PROVE  n + 1 \in T
  <2>1. n \in Nat /\ n + 1 \in 0 .. N
    BY <1>1
  <2>2. ASSUME NEW Q \in SUBSET S, Q # {}, Cardinality(Q) = n + 1 PROVE Bounded(Q)
    <3>1. PICK x \in Q : TRUE
      BY <2>2
    <3>2. Cardinality(Q \ {x}) = n
      <4>1. IsFiniteSet(Q)
        BY <1>2
      <4>2. Cardinality(Q \ {x}) = Cardinality(Q) - 1
        BY <4>1, FS_RemoveElement
      <4>3. QED
        BY <2>1, <2>2, <4>2
    <3>3. CASE Q \ {x} = {}
      <4>1. Q = {x} /\ x \in Int
        BY <3>1, <3>3
      <4>2. QED
        BY <4>1
    <3>4. CASE Q \ {x} # {}
      <4>1. PICK z \in Q \ {x} : \A y \in Q \ {x} : z <= y
        BY <1>4, <3>2, <3>4
      <4>2. x \in Int /\ z \in Int /\ \A y \in Q : y \in Int
        OBVIOUS
      <4>3. CASE x <= z
        <5>1. \A y \in Q : x <= y
          BY <4>1, <4>2, <4>3
        <5>2. QED
          BY <5>1
      <4>4. CASE ~(x <= z)
        <5>1. \A y \in Q : z <= y
          BY <4>1, <4>2, <4>4
        <5>2. QED
          BY <5>1
      <4>5. QED
        BY <4>3, <4>4
    <3>5. QED
      BY <3>3, <3>4
  <2>3. QED
    BY <2>1, <2>2
<1>5. N \in T
  <2> HIDE DEF T, N
  <2>1. N \in 0 .. N
    BY <1>1
  <2>2. QED
    BY <1>1, <1>3, <1>4, <2>1, UpTo
<1>6. Bounded(S)
  BY <1>5
<1>7. QED
  BY <1>6 DEF Min

\* The lesser of two numbers.
LEMMA MinOfTwo ==
  ASSUME NEW a \in Int, NEW b \in Int
  PROVE  Min({a, b}) = IF a <= b THEN a ELSE b
<1>1. IsFiniteSet({a, b})
  <2>1. IsFiniteSet({} \cup {a})
    BY FS_EmptySet, FS_AddElement
  <2>2. IsFiniteSet(({} \cup {a}) \cup {b})
    BY <2>1, FS_AddElement
  <2>3. {a, b} = ({} \cup {a}) \cup {b}
    OBVIOUS
  <2>4. QED
    BY <2>2, <2>3
<1>2. Min({a, b}) \in {a, b} /\ \A y \in {a, b} : Min({a, b}) <= y
  BY <1>1, MinIs
<1>3. QED
  BY <1>2

\* Least finds the least of what is a number.
LEMMA LeastIs ==
  ASSUME NEW a \in Int, NEW b \in Int \cup {Uncapped}, NEW c \in Int \cup {Uncapped},
         NEW d \in Int \cup {Uncapped}, NEW e \in Int \cup {Uncapped}
  PROVE  LET m == Least({a, b, c, d, e}) IN
         /\ m \in Int /\ m \in {a, b, c, d, e} /\ m <= a
         /\ \A y \in {b, c, d, e} : y # Uncapped => m <= y
<1> DEFINE S == {a, b, c, d, e} \ {Uncapped}
<1>1. IsFiniteSet({a, b, c, d, e})
  <2>1. IsFiniteSet({} \cup {a})
    BY FS_EmptySet, FS_AddElement
  <2>2. IsFiniteSet(({} \cup {a}) \cup {b})
    BY <2>1, FS_AddElement
  <2>3. IsFiniteSet((({} \cup {a}) \cup {b}) \cup {c})
    BY <2>2, FS_AddElement
  <2>4. IsFiniteSet(((({} \cup {a}) \cup {b}) \cup {c}) \cup {d})
    BY <2>3, FS_AddElement
  <2>5. IsFiniteSet((((({} \cup {a}) \cup {b}) \cup {c}) \cup {d}) \cup {e})
    BY <2>4, FS_AddElement
  <2>6. {a, b, c, d, e} = (((({} \cup {a}) \cup {b}) \cup {c}) \cup {d}) \cup {e}
    OBVIOUS
  <2>7. QED
    BY <2>5, <2>6
<1>2. IsFiniteSet(S)
  BY <1>1, FS_Subset
<1>3. S \in SUBSET Int /\ a \in S
  BY UncappedIsNone
<1>4. Min(S) \in S /\ \A y \in S : Min(S) <= y
  <2> HIDE DEF S
  <2>1. QED
    BY <1>2, <1>3, MinIs
<1>5. QED
  BY <1>3, <1>4 DEF Least

-----------------------------------------------------------------------------
(* Rounding to the minor unit *)

\* A number by its quotient and rest.
LEMMA DivideBy ==
  ASSUME NEW M \in Nat \ {0}, NEW v \in Int
  PROVE  v = M * (v \div M) + (v % M)
OBVIOUS

\* The rest by two is none or one.
LEMMA Parity ==
  ASSUME NEW v \in Int
  PROVE  v % 2 \in 0 .. 1
OBVIOUS

\* Minus one is odd, for rounding half to even below zero.
LEMMA OddMinusOne ==
  ASSUME NEW v \in Int, v = -1
  PROVE  v % 2 = 1
<1>1. v = 2 * (v \div 2) + (v % 2)
  BY DivideBy
<1>2. v % 2 \in 0 .. 1
  BY Parity
<1>3. v \div 2 \in Int
  OBVIOUS
<1>4. QED
  BY <1>1, <1>2, <1>3

\* A number by the whole minor units in it.
LEMMA Divide ==
  ASSUME NEW v \in Int
  PROVE  /\ v \div Minor \in Int /\ v % Minor \in 0 .. Minor - 1
         /\ v = Minor * (v \div Minor) + (v % Minor)
<1>1. Minor \in Nat \ {0}
  BY MinorUnit
<1>2. v \div Minor \in Int
  BY <1>1
<1>3. v % Minor \in 0 .. Minor - 1
  BY <1>1
<1>4. v = Minor * (v \div Minor) + (v % Minor)
  BY <1>1, DivideBy
<1>5. QED
  BY <1>2, <1>3, <1>4

\* What fits before it is rounded overdraws by half a minor unit at most.
LEMMA RoundingLeaves ==
  ASSUME NEW left \in Int, NEW most \in Int, NEW x \in Int,
         x <= left, 2 * most <= 2 * x + Minor
  PROVE  2 * (left - most) + Minor >= 0
BY MinorUnit

\* The next whole amount below or above.
LEMMA QuantizeIs ==
  ASSUME NEW v \in Int
  PROVE  \E k \in Int :
           /\ Quantize(v) = Minor * k /\ Quantize(v) \in Int
           /\ 2 * Quantize(v) <= 2 * v + Minor /\ 2 * v <= 2 * Quantize(v) + Minor
           /\ k = v \div Minor \/ k = v \div Minor + 1
           /\ k = v \div Minor + 1 <=>
                2 * (v % Minor) > Minor \/ (2 * (v % Minor) = Minor /\ (v \div Minor) % 2 = 1)
<1> DEFINE q == v \div Minor
           r == v % Minor
           k == IF 2 * r > Minor \/ (2 * r = Minor /\ q % 2 = 1) THEN q + 1 ELSE q
           P == Minor * q
<1>1. q \in Int /\ r \in 0 .. Minor - 1 /\ v = P + r /\ Minor \in Nat \ {0}
  BY Divide, MinorUnit
<1>2. Quantize(v) = Minor * k
  BY DEF Quantize
<1>3. k \in Int /\ (k = q \/ k = q + 1) /\ P \in Int
  BY <1>1
<1>4. Minor * (q + 1) = P + Minor
  BY <1>1
<1>5. Quantize(v) = IF k = q THEN P ELSE P + Minor
  BY <1>1, <1>2, <1>3, <1>4
<1>6. k = q + 1 <=> 2 * r > Minor \/ (2 * r = Minor /\ q % 2 = 1)
  BY <1>1
<1> HIDE DEF q, r, k, P
<1>7. 2 * Quantize(v) <= 2 * v + Minor /\ 2 * v <= 2 * Quantize(v) + Minor /\ Quantize(v) \in Int
  <2>1. CASE k = q
    BY <1>1, <1>3, <1>5, <1>6, <2>1
  <2>2. CASE k = q + 1
    BY <1>1, <1>3, <1>5, <1>6, <2>2
  <2>3. QED
    BY <1>3, <2>1, <2>2
<1>8. QED
  BY <1>2, <1>3, <1>6, <1>7 DEF q, r

\* A larger amount is not rounded to a smaller one.
LEMMA QuantizeMonotone ==
  ASSUME NEW u \in Int, NEW v \in Int, u <= v
  PROVE  Quantize(u) <= Quantize(v)
<1> DEFINE p == u \div Minor
           q == v \div Minor
           r == u % Minor
           s == v % Minor
<1>1. /\ p \in Int /\ r \in 0 .. Minor - 1 /\ u = Minor * p + r
      /\ q \in Int /\ s \in 0 .. Minor - 1 /\ v = Minor * q + s
      /\ Minor \in Nat \ {0}
  BY Divide, MinorUnit
<1>2. PICK j \in Int : /\ Quantize(u) = Minor * j /\ (j = p \/ j = p + 1)
                       /\ j = p + 1 <=> 2 * r > Minor \/ (2 * r = Minor /\ p % 2 = 1)
  BY QuantizeIs
<1>3. PICK k \in Int : /\ Quantize(v) = Minor * k /\ (k = q \/ k = q + 1)
                       /\ k = q + 1 <=> 2 * s > Minor \/ (2 * s = Minor /\ q % 2 = 1)
  BY QuantizeIs
<1> HIDE DEF p, q, r, s
<1>4. p <= q
  <2>1. SUFFICES ASSUME q + 1 <= p PROVE FALSE
    BY <1>1
  <2>2. Minor * (q + 1) <= Minor * p
    BY <1>1, <2>1
  <2>3. Minor * (q + 1) = Minor * q + Minor
    BY <1>1
  <2>4. QED
    BY <1>1, <2>2, <2>3
<1>5. j <= k
  <2>1. CASE p = q
    <3>1. r <= s
      BY <1>1, <2>1
    <3>2. QED
      BY <1>1, <1>2, <1>3, <2>1, <3>1
  <2>2. CASE p # q
    BY <1>1, <1>2, <1>3, <1>4, <2>2
  <2>3. QED
    BY <2>1, <2>2
<1>6. QED
  BY <1>1, <1>2, <1>3, <1>5

\* Whole amounts are left as they are; and they are what rounding gives.
LEMMA QuantizeWhole ==
  ASSUME NEW v \in Int, Whole(v)
  PROVE  Quantize(v) = v
<1>1. PICK n \in Int : v = Minor * n
  BY DEF Whole
<1>2. /\ v \div Minor \in Int /\ v % Minor \in 0 .. Minor - 1 /\ Minor \in Nat \ {0}
      /\ v = Minor * (v \div Minor) + (v % Minor)
  BY Divide, MinorUnit
<1>3. v \div Minor = n
  <2>1. CASE v \div Minor >= n + 1
    <3>1. Minor * (v \div Minor) >= Minor * (n + 1) /\ Minor * (n + 1) = Minor * n + Minor
      BY <1>2, <2>1
    <3>2. QED
      BY <1>1, <1>2, <3>1
  <2>2. CASE v \div Minor + 1 <= n
    <3>1. Minor * (v \div Minor + 1) <= Minor * n /\ Minor * (v \div Minor + 1) = Minor * (v \div Minor) + Minor
      BY <1>2, <2>2
    <3>2. QED
      BY <1>1, <1>2, <3>1
  <2>3. QED
    BY <1>2, <2>1, <2>2
<1>4. v % Minor = 0
  BY <1>1, <1>2, <1>3
<1>5. PICK k \in Int : /\ Quantize(v) = Minor * k
                       /\ k = v \div Minor \/ k = v \div Minor + 1
                       /\ k = v \div Minor + 1 <=>
                            2 * (v % Minor) > Minor \/ (2 * (v % Minor) = Minor /\ (v \div Minor) % 2 = 1)
  BY QuantizeIs
<1>6. k = n
  BY <1>2, <1>3, <1>4, <1>5
<1>7. Quantize(v) = Minor * n
  BY <1>5, <1>6
<1>8. QED
  BY <1>1, <1>7

\* Rounding gives a whole amount.
LEMMA QuantizeIsWhole ==
  ASSUME NEW v \in Int
  PROVE  Quantize(v) \in Int /\ Whole(Quantize(v))
BY QuantizeIs DEF Whole

\* What is overdrawn by half a unit at most is rounded to nothing or more.
LEMMA QuantizeNat ==
  ASSUME NEW v \in Int, 2 * v + Minor >= 0
  PROVE  Quantize(v) \in Nat
<1>1. PICK k \in Int : /\ Quantize(v) = Minor * k /\ Quantize(v) \in Int
                       /\ k = v \div Minor \/ k = v \div Minor + 1
                       /\ k = v \div Minor + 1 <=>
                            2 * (v % Minor) > Minor \/ (2 * (v % Minor) = Minor /\ (v \div Minor) % 2 = 1)
  BY QuantizeIs
<1>2. /\ v \div Minor \in Int /\ v % Minor \in 0 .. Minor - 1 /\ Minor \in Nat \ {0}
      /\ v = Minor * (v \div Minor) + (v % Minor)
  BY Divide, MinorUnit
<1>3. CASE v \div Minor >= 0
  BY <1>1, <1>2, <1>3
<1>4. CASE v \div Minor = -1
  <2>1. v = (v % Minor) - Minor
    BY <1>2, <1>4
  <2>2. 2 * (v % Minor) >= Minor
    BY <1>2, <2>1
  <2>3. (v \div Minor) % 2 = 1
    BY <1>2, <1>4, OddMinusOne
  <2>4. k = 0
    BY <1>1, <1>2, <1>4, <2>2, <2>3
  <2>5. QED
    BY <1>1, <1>2, <2>4
<1>5. CASE v \div Minor <= -2
  <2>1. Minor * (v \div Minor) <= Minor * (-2) /\ Minor * (-2) = -(2 * Minor)
    BY <1>2, <1>5
  <2>2. QED
    BY <1>2, <2>1
<1>6. QED
  BY <1>2, <1>3, <1>4, <1>5

\* The difference of whole amounts is whole.
LEMMA WholeMinus ==
  ASSUME NEW u \in Int, NEW v \in Int, Whole(u), Whole(v)
  PROVE  Whole(u - v)
<1>1. PICK m \in Int : u = Minor * m
  BY DEF Whole
<1>2. PICK n \in Int : v = Minor * n
  BY DEF Whole
<1>3. Minor * (m - n) = Minor * m - Minor * n /\ m - n \in Int
  BY MinorUnit
<1>4. QED
  BY <1>1, <1>2, <1>3 DEF Whole

\* Sums of nothing.
LEMMA SumZero ==
  ASSUME NEW f, NEW N \in Nat, \A i \in 1 .. N : f[i] = 0
  PROVE  SumTo(f, N) = 0
<1> DEFINE T == {n \in 0 .. N : SumTo(f, n) = 0}
<1>1. 0 \in T
  BY SumNone
<1>2. ASSUME NEW n \in 0 .. N - 1, n \in T
      PROVE  n + 1 \in T
  <2>1. n \in Nat /\ n + 1 \in 1 .. N /\ n + 1 \in 0 .. N
    OBVIOUS
  <2>2. QED
    BY <1>2, <2>1, SumStep
<1>3. N \in T
  <2> HIDE DEF T
  <2>1. N \in 0 .. N
    OBVIOUS
  <2>2. QED
    BY <1>1, <1>2, <2>1, UpTo
<1>4. QED
  BY <1>3

-----------------------------------------------------------------------------
(* What there is to value *)

\* The components of an accepted route, and the caps of their groups.
LEMMA RouteParts ==
  ASSUME RouteTypes
  PROVE  /\ Len(route) \in Nat /\ DOMAIN route = 1 .. Len(route) /\ amount \in Nat \ {0}
         /\ \A i \in 1 .. Len(route) :
              /\ WellFormed(route[i])
              /\ route[i].group # Uncapped =>
                   /\ route[i].cap \in Nat /\ route[i].group \in GroupsOf(route)
                   /\ CapOf(route[i].group) = route[i].cap
         /\ \A g \in GroupsOf(route) : CapOf(g) \in Nat
<1>1. /\ Len(route) \in Nat /\ DOMAIN route = 1 .. Len(route)
      /\ \A i \in 1 .. Len(route) : route[i] \in Components
      /\ amount \in Nat \ {0}
  BY MoneyOfRoutes DEF RouteTypes
<1>2. \A i \in 1 .. Len(route) : WellFormed(route[i])
  BY <1>1, MoneyOfRoutes
<1>3. \A i, j \in 1 .. Len(route) :
        /\ route[i].group # Uncapped => route[i].cap # Uncapped
        /\ i # j /\ route[i].group # Uncapped /\ route[i].group = route[j].group =>
             route[i].cap = route[j].cap
  BY <1>1 DEF RouteTypes, Accepted
<1>4. ASSUME NEW i \in 1 .. Len(route), route[i].group # Uncapped
      PROVE  /\ route[i].cap \in Nat /\ route[i].group \in GroupsOf(route)
             /\ CapOf(route[i].group) = route[i].cap
  <2>1. route[i].cap \in Nat
    BY <1>2, <1>3, <1>4 DEF WellFormed
  <2>2. route[i].group \in GroupsOf(route)
    BY <1>1, <1>4 DEF GroupsOf
  <2> DEFINE g == route[i].group
             j == CHOOSE j \in OfGroup(g) : TRUE
  <2>3. i \in OfGroup(g)
    BY <1>1 DEF OfGroup
  <2>4. j \in OfGroup(g)
    BY <2>3
  <2>5. j \in 1 .. Len(route) /\ route[j].group = g
    BY <1>1, <2>4 DEF OfGroup
  <2>6. route[j].cap = route[i].cap
    BY <1>3, <1>4, <2>5
  <2>7. QED
    BY <2>1, <2>2, <2>6 DEF CapOf
<1>5. ASSUME NEW g \in GroupsOf(route) PROVE CapOf(g) \in Nat
  <2>1. PICK i \in 1 .. Len(route) : route[i].group = g /\ g # Uncapped
    BY <1>1 DEF GroupsOf
  <2>2. QED
    BY <1>4, <2>1
<1>6. QED
  BY <1>1, <1>2, <1>4, <1>5

\* What a component may count at most: the least of what limits it.
LEMMA LimitIs ==
  ASSUME RouteTypes, LeftInv, Len(valued) < Len(route)
  PROVE  LET c == route[Len(valued) + 1]
             L == LimitOf(c)
         IN  /\ L \in Int /\ L <= amount /\ L <= leftClass[c.class] /\ 2 * L + Minor >= 0
             /\ c.cap # Uncapped => L <= c.cap
             /\ c.allowance # Uncapped => L <= c.allowance
             /\ c.group # Uncapped => L <= Left(c.group)
             /\ \/ L \in {amount, c.cap, c.allowance, leftClass[c.class]}
                \/ c.group # Uncapped /\ L = Left(c.group)
<1> DEFINE n == Len(valued) + 1
           c == route[n]
           L == LimitOf(c)
           G == IF c.group = Uncapped THEN Uncapped ELSE GroupLeft(c)
<1>1. n \in 1 .. Len(route)
  BY DEF RouteTypes
<1>2. /\ WellFormed(c) /\ amount \in Nat \ {0}
      /\ c.group # Uncapped => c.cap \in Nat /\ c.group \in GroupsOf(route) /\ CapOf(c.group) = c.cap
  BY <1>1, RouteParts
<1>3. leftClass[c.class] \in Nat
  BY <1>2 DEF RouteTypes, WellFormed
<1>4. c.group # Uncapped => G = Left(c.group) /\ G \in Int /\ 2 * G + Minor >= 0
  BY <1>2 DEF GroupLeft, Left, LeftInv
<1>5. /\ G \in Int \cup {Uncapped} /\ c.cap \in Int \cup {Uncapped} /\ c.allowance \in Int \cup {Uncapped}
      /\ amount \in Int /\ leftClass[c.class] \in Int
  BY <1>2, <1>3, <1>4 DEF WellFormed
<1> HIDE DEF n, c, G
<1>6. /\ L \in Int /\ L \in {amount, c.cap, c.allowance, leftClass[c.class], G} /\ L <= amount
      /\ \A y \in {c.cap, c.allowance, leftClass[c.class], G} : y # Uncapped => L <= y
  <2>1. L = Least({amount, c.cap, c.allowance, leftClass[c.class], G})
    BY DEF LimitOf, G
  <2> DEFINE l == leftClass[c.class]
             a == c.cap
             b == c.allowance
  <2>2. /\ a \in Int \cup {Uncapped} /\ b \in Int \cup {Uncapped} /\ l \in Int \cup {Uncapped}
        /\ G \in Int \cup {Uncapped} /\ amount \in Int
    BY <1>5
  <2>3. L = Least({amount, a, b, l, G})
    BY <2>1
  <2> HIDE DEF l, a, b, L
  <2>4. /\ L \in Int /\ L \in {amount, a, b, l, G} /\ L <= amount
        /\ \A y \in {a, b, l, G} : y # Uncapped => L <= y
    <3>1. LET m == Least({amount, a, b, l, G}) IN
            /\ m \in Int /\ m \in {amount, a, b, l, G} /\ m <= amount
            /\ \A y \in {a, b, l, G} : y # Uncapped => m <= y
      BY <2>2, LeastIs, Zenon
    <3>2. QED
      BY <2>3, <3>1
  <2>5. QED
    BY <2>4 DEF l, a, b, L
<1>7. leftClass[c.class] # Uncapped /\ L # Uncapped
  BY <1>5, <1>6, UncappedIsNone
<1>8. c.group = Uncapped => G = Uncapped
  BY DEF G
<1>9. c.group # Uncapped => G # Uncapped
  BY <1>4, UncappedIsNone
<1>10. 2 * L + Minor >= 0
  <2>1. CASE L = G
    BY <1>4, <1>6, <1>7, <1>8, <2>1
  <2>2. CASE L \in {amount, c.cap, c.allowance, leftClass[c.class]}
    <3>1. L \in Nat
      BY <1>2, <1>3, <1>7, <2>2 DEF WellFormed
    <3>2. QED
      BY <3>1, MinorUnit
  <2>3. QED
    BY <1>6, <2>1, <2>2
<1>11. c.group # Uncapped => L <= Left(c.group)
  BY <1>4, <1>6, <1>9
<1>12. \/ L \in {amount, c.cap, c.allowance, leftClass[c.class]}
       \/ c.group # Uncapped /\ L = Left(c.group)
  BY <1>4, <1>6, <1>7, <1>8
<1>13. QED
  BY <1>6, <1>7, <1>10, <1>11, <1>12 DEF n, c

\* A component counts its value as far as the limit, rounded.
LEMMA CountsIs ==
  ASSUME RouteTypes, LeftInv, ValueNext
  PROVE  LET n == Len(valued) + 1
             c == route[n]
         IN  \E x \in Int : \E low \in Nat :
               /\ x <= c.max /\ x <= LimitOf(c) /\ x \in {c.max, LimitOf(c)}
               /\ Quantize(x) \in Nat /\ low <= Quantize(x)
               /\ n \in 1 .. Len(route)
               /\ valued' = Append(valued, [min |-> low, max |-> Quantize(x)])
               /\ leftClass' = [leftClass EXCEPT ![c.class] = @ - Quantize(x)]
               /\ leftGroup' = IF c.group = Uncapped THEN leftGroup
                               ELSE [g \in DOMAIN leftGroup \cup {c.group} |->
                                       IF g = c.group THEN GroupLeft(c) - Quantize(x) ELSE leftGroup[g]]
               /\ UNCHANGED <<route, amount>>
<1> DEFINE n == Len(valued) + 1
           c == route[n]
           L == LimitOf(c)
           x == Min({c.max, L})
           y == Min({c.min, L})
<1>1. Len(valued) < Len(route) /\ n \in 1 .. Len(route)
  BY DEF ValueNext, RouteTypes
<1>2. L \in Int /\ 2 * L + Minor >= 0
  BY <1>1, LimitIs
<1>3. c.max \in Nat /\ c.min \in Nat /\ c.min <= c.max
  BY <1>1, RouteParts DEF WellFormed
<1> HIDE DEF n, c, L
<1>4. x = (IF c.max <= L THEN c.max ELSE L) /\ y = IF c.min <= L THEN c.min ELSE L
  BY <1>2, <1>3, MinOfTwo
<1>5. /\ x \in Int /\ y \in Int /\ y <= x /\ x <= c.max /\ x <= L /\ x \in {c.max, L}
      /\ 2 * x + Minor >= 0 /\ 2 * y + Minor >= 0
  BY <1>2, <1>3, <1>4, MinorUnit
<1> HIDE DEF x, y
<1>6. Quantize(x) \in Nat /\ Quantize(y) \in Nat /\ Quantize(y) <= Quantize(x)
  BY <1>5, QuantizeNat, QuantizeMonotone
<1>7. /\ valued' = Append(valued, [min |-> Quantize(y), max |-> Quantize(x)])
      /\ leftClass' = [leftClass EXCEPT ![c.class] = @ - Quantize(x)]
      /\ leftGroup' = IF c.group = Uncapped THEN leftGroup
                      ELSE [g \in DOMAIN leftGroup \cup {c.group} |->
                              IF g = c.group THEN GroupLeft(c) - Quantize(x) ELSE leftGroup[g]]
      /\ UNCHANGED <<route, amount>>
  BY DEF ValueNext, n, c, L, x, y
<1>8. QED
  BY <1>1, <1>5, <1>6, <1>7 DEF n, c, L

\* The totals are numbers.
LEMMA TotalsInt ==
  ASSUME RouteTypes
  PROVE  (\A c : Total(c) \in Int) /\ \A g : Counted(g) \in Int
<1> DEFINE S == [min : Nat, max : Nat]
<1>1. valued \in Seq(S) /\ Len(valued) \in Nat /\ DOMAIN valued = 1 .. Len(valued)
  BY DEF RouteTypes
<1>2. \A i \in 1 .. Len(valued) : valued[i] \in S
  <2> HIDE DEF S
  <2>1. QED
    BY <1>1, ElementOfSeq
<1>3. \A i \in 1 .. Len(valued) : valued[i].max \in Nat
  BY <1>2
<1>4. ASSUME NEW c PROVE Total(c) \in Int
  <2> DEFINE f == [i \in DOMAIN valued |-> IF route[i].class = c THEN valued[i].max ELSE 0]
  <2>1. \A i \in 1 .. Len(valued) : f[i] \in Int
    BY <1>1, <1>3
  <2>2. Total(c) = SumTo(f, Len(valued))
    BY DEF Total
  <2> HIDE DEF f
  <2>3. QED
    BY <1>1, <2>1, <2>2, SumInt
<1>5. ASSUME NEW g PROVE Counted(g) \in Int
  <2> DEFINE f == [i \in DOMAIN valued |-> IF route[i].group = g THEN valued[i].max ELSE 0]
  <2>1. \A i \in 1 .. Len(valued) : f[i] \in Int
    BY <1>1, <1>3
  <2>2. Counted(g) = SumTo(f, Len(valued))
    BY DEF Counted
  <2> HIDE DEF f
  <2>3. QED
    BY <1>1, <2>1, <2>2, SumInt
<1>6. QED
  BY <1>4, <1>5

\* What one more component adds to the totals.
LEMMA TotalsStep ==
  ASSUME RouteTypes, NEW v \in [min : Nat, max : Nat], valued' = Append(valued, v), UNCHANGED route
  PROVE  LET c == route[Len(valued) + 1]
         IN  /\ valued' \in Seq([min : Nat, max : Nat]) /\ Len(valued') = Len(valued) + 1
             /\ valued'[Len(valued) + 1] = v
             /\ \A i \in 1 .. Len(valued) : valued'[i] = valued[i]
             /\ \A k : Total(k)' = Total(k) + (IF c.class = k THEN v.max ELSE 0)
             /\ \A g : Counted(g)' = Counted(g) + (IF c.group = g THEN v.max ELSE 0)
             /\ \A k : Total(k) \in Int
             /\ \A g : Counted(g) \in Int
<1> DEFINE N == Len(valued)
<1>1. /\ N \in Nat /\ DOMAIN valued = 1 .. N
      /\ valued' \in Seq([min : Nat, max : Nat]) /\ Len(valued') = N + 1
      /\ DOMAIN valued' = 1 .. N + 1 /\ N + 1 \in 1 .. N + 1
      /\ valued'[N + 1] = v /\ \A i \in 1 .. N : valued'[i] = valued[i] /\ i \in 1 .. N + 1
  BY DEF RouteTypes
<1>2. \A i \in 1 .. N : valued[i].max \in Nat
  <2>1. valued \in Seq([min : Nat, max : Nat])
    BY DEF RouteTypes
  <2>2. \A i \in 1 .. Len(valued) : valued[i] \in [min : Nat, max : Nat]
    <3> DEFINE S == [min : Nat, max : Nat]
    <3>1. valued \in Seq(S)
      BY <2>1
    <3> HIDE DEF S
    <3>2. \A i \in 1 .. Len(valued) : valued[i] \in S
      BY <3>1, ElementOfSeq
    <3>3. QED
      BY <3>2 DEF S
  <2>3. QED
    BY <2>2
<1>3. ASSUME NEW k
      PROVE  /\ Total(k)' = Total(k) + (IF route[N + 1].class = k THEN v.max ELSE 0)
             /\ Total(k) \in Int
  <2> DEFINE f == [i \in 1 .. N |-> IF route[i].class = k THEN valued[i].max ELSE 0]
             g == [i \in 1 .. N + 1 |-> IF route[i].class = k THEN valued'[i].max ELSE 0]
  <2>1. Total(k) = SumTo(f, N) /\ Total(k)' = SumTo(g, N + 1)
    BY <1>1 DEF Total
  <2>2. \A i \in 1 .. N : f[i] = g[i] /\ f[i] \in Int
    BY <1>1, <1>2
  <2>3. g[N + 1] = IF route[N + 1].class = k THEN v.max ELSE 0
    BY <1>1
  <2> HIDE DEF f, g
  <2>4. SumTo(g, N + 1) = SumTo(f, N) + g[N + 1]
    BY <1>1, <2>2, SumNext
  <2>5. SumTo(f, N) \in Int
    BY <1>1, <2>2, SumInt
  <2>6. QED
    BY <2>1, <2>3, <2>4, <2>5
<1>4. ASSUME NEW k
      PROVE  /\ Counted(k)' = Counted(k) + (IF route[N + 1].group = k THEN v.max ELSE 0)
             /\ Counted(k) \in Int
  <2> DEFINE f == [i \in 1 .. N |-> IF route[i].group = k THEN valued[i].max ELSE 0]
             g == [i \in 1 .. N + 1 |-> IF route[i].group = k THEN valued'[i].max ELSE 0]
  <2>1. Counted(k) = SumTo(f, N) /\ Counted(k)' = SumTo(g, N + 1)
    BY <1>1 DEF Counted
  <2>2. \A i \in 1 .. N : f[i] = g[i] /\ f[i] \in Int
    BY <1>1, <1>2
  <2>3. g[N + 1] = IF route[N + 1].group = k THEN v.max ELSE 0
    BY <1>1
  <2> HIDE DEF f, g
  <2>4. SumTo(g, N + 1) = SumTo(f, N) + g[N + 1]
    BY <1>1, <2>2, SumNext
  <2>5. SumTo(f, N) \in Int
    BY <1>1, <2>2, SumInt
  <2>6. QED
    BY <2>1, <2>3, <2>4, <2>5
<1>5. QED
  BY <1>1, <1>3, <1>4

\* No component goes beyond what its class and its group have left.
LEMMA LimitsStep ==
  ASSUME RouteTypes, LeftInv, OwnInv, ValueNext
  PROVE  RouteTypes' /\ LeftInv' /\ OwnInv'
<1> DEFINE n == Len(valued) + 1
           c == route[n]
           L == LimitOf(c)
<1>1. PICK x \in Int, low \in Nat :
        /\ x <= c.max /\ x <= L
        /\ Quantize(x) \in Nat /\ low <= Quantize(x)
        /\ n \in 1 .. Len(route)
        /\ valued' = Append(valued, [min |-> low, max |-> Quantize(x)])
        /\ leftClass' = [leftClass EXCEPT ![c.class] = @ - Quantize(x)]
        /\ leftGroup' = IF c.group = Uncapped THEN leftGroup
                        ELSE [g \in DOMAIN leftGroup \cup {c.group} |->
                                IF g = c.group THEN GroupLeft(c) - Quantize(x) ELSE leftGroup[g]]
        /\ UNCHANGED <<route, amount>>
  BY CountsIs
<1> DEFINE most == Quantize(x)
           v == [min |-> low, max |-> most]
<1>2. /\ WellFormed(c) /\ c.class \in Classes
      /\ c.group # Uncapped => c.cap \in Nat /\ c.group \in GroupsOf(route) /\ CapOf(c.group) = c.cap
  BY <1>1, RouteParts DEF WellFormed
<1>3. Len(valued) < Len(route) /\ Len(valued) \in Nat /\ Len(route) \in Nat
  BY <1>1 DEF ValueNext, RouteTypes
<1>4. /\ L \in Int /\ L <= leftClass[c.class]
      /\ c.cap # Uncapped => L <= c.cap
      /\ c.allowance # Uncapped => L <= c.allowance
      /\ c.group # Uncapped => L <= Left(c.group)
  BY <1>3, LimitIs
<1>5. v \in [min : Nat, max : Nat]
  BY <1>1
<1>6. /\ valued' \in Seq([min : Nat, max : Nat]) /\ Len(valued') = n
      /\ valued'[n] = v
      /\ \A i \in 1 .. Len(valued) : valued'[i] = valued[i]
      /\ \A k : Total(k)' = Total(k) + (IF c.class = k THEN v.max ELSE 0)
      /\ \A g : Counted(g)' = Counted(g) + (IF c.group = g THEN v.max ELSE 0)
      /\ \A k : Total(k) \in Int
      /\ \A g : Counted(g) \in Int
  BY <1>1, <1>5, TotalsStep
<1>7. leftClass[c.class] \in Nat /\ Whole(leftClass[c.class])
  BY <1>2 DEF RouteTypes, LeftInv
<1>8. most <= leftClass[c.class] /\ Whole(most) /\ most \in Nat
  BY <1>1, <1>4, <1>7, QuantizeMonotone, QuantizeWhole, QuantizeIsWhole
<1>9. 2 * most <= 2 * x + Minor
  BY <1>1, QuantizeIs
<1>10. v.max = most /\ v.min = low
  OBVIOUS
<1> HIDE DEF n, c, L, most, v
<1>11. /\ leftClass' \in [Classes -> Nat]
       /\ \A k \in Classes : leftClass'[k] = IF k = c.class THEN leftClass[k] - most ELSE leftClass[k]
  BY <1>1, <1>2, <1>7, <1>8 DEF RouteTypes, most
<1>12. RouteTypes'
  <2>1. DOMAIN leftGroup' \subseteq CapGroups
    BY <1>1, <1>2 DEF RouteTypes, WellFormed
  <2>2. Len(valued') <= Len(route')
    BY <1>1, <1>3, <1>6 DEF n
  <2>3. QED
    BY <1>1, <1>6, <1>11, <2>1, <2>2 DEF RouteTypes
<1>13. ASSUME NEW k \in Classes
       PROVE  Whole(leftClass'[k]) /\ Total(k)' + leftClass'[k] = Quantize(amount')
  <2>1. Total(k) + leftClass[k] = Quantize(amount) /\ Whole(leftClass[k]) /\ leftClass[k] \in Nat
    BY DEF LeftInv, RouteTypes
  <2>2. CASE k = c.class
    BY <1>1, <1>6, <1>7, <1>8, <1>10, <1>11, <2>1, <2>2, WholeMinus
  <2>3. CASE k # c.class
    BY <1>1, <1>6, <1>11, <2>1, <2>3
  <2>4. QED
    BY <2>2, <2>3
<1>14. ASSUME NEW g \in GroupsOf(route)
       PROVE  /\ Left(g)' = IF g = c.group THEN Left(g) - most ELSE Left(g)
              /\ Left(g)' \in Int /\ Counted(g)' \in Int /\ Counted(g)' + Left(g)' = CapOf(g)'
              /\ 2 * Left(g)' + Minor >= 0
  <2>1. Left(g) \in Int /\ Counted(g) \in Int /\ Counted(g) + Left(g) = CapOf(g) /\ 2 * Left(g) + Minor >= 0
    BY DEF LeftInv
  <2>2. CapOf(g)' = CapOf(g)
    BY <1>1 DEF CapOf, OfGroup
  <2>3. CASE g = c.group
    <3>1. c.group # Uncapped /\ GroupLeft(c) = Left(g)
      BY <1>2, <2>3 DEF GroupsOf, GroupLeft, Left
    <3>2. Left(g)' = Left(g) - most
      BY <1>1, <2>3, <3>1 DEF Left, most
    <3>3. Counted(g)' = Counted(g) + most
      BY <1>6, <1>10, <2>3
    <3>4. x <= Left(g)
      BY <1>1, <1>4, <2>1, <2>3, <3>1
    <3>5. 2 * (Left(g) - most) + Minor >= 0
      <4>1. Left(g) \in Int /\ most \in Int /\ x \in Int
        BY <1>1, <1>8, <2>1
      <4>2. QED
        BY <4>1, <1>9, <3>4, RoundingLeaves
    <3>6. QED
      BY <1>8, <2>1, <2>2, <2>3, <3>2, <3>3, <3>5
  <2>4. CASE g # c.group
    <3>1. Left(g)' = Left(g)
      BY <1>1, <2>2, <2>4 DEF Left
    <3>2. Counted(g)' = Counted(g)
      BY <1>6, <2>1, <2>4
    <3>3. QED
      BY <2>1, <2>2, <2>4, <3>1, <3>2
  <2>5. QED
    BY <2>3, <2>4
<1>15. GroupsOf(route') = GroupsOf(route)
  BY <1>1
<1>16. LeftInv'
  BY <1>13, <1>14, <1>15 DEF LeftInv
<1>17. ASSUME NEW i \in 1 .. n
       PROVE  /\ valued'[i].min <= valued'[i].max
              /\ 2 * valued'[i].max <= 2 * Least({route[i].max, route[i].cap, route[i].allowance}) + Minor
  <2>1. CASE i \in 1 .. Len(valued)
    <3>1. i \in DOMAIN valued /\ valued'[i] = valued[i]
      BY <1>6, <2>1 DEF RouteTypes
    <3>2. QED
      BY <3>1 DEF OwnInv
  <2>2. CASE i = n
    <3> DEFINE m == Least({c.max, c.cap, c.allowance})
    <3>1. /\ c.max \in Int /\ c.cap \in Int \cup {Uncapped} /\ c.allowance \in Int \cup {Uncapped}
      BY <1>2 DEF WellFormed
    <3>2. {c.max, c.cap, c.allowance, c.allowance, c.allowance} = {c.max, c.cap, c.allowance}
      OBVIOUS
    <3>3. m \in Int /\ m \in {c.max, c.cap, c.allowance}
      <4> DEFINE a == c.max
                 b == c.cap
                 d == c.allowance
      <4>1. a \in Int /\ b \in Int \cup {Uncapped} /\ d \in Int \cup {Uncapped}
        BY <3>1
      <4>2. m = Least({a, b, d, d, d})
        BY <3>2
      <4> HIDE DEF a, b, d, m
      <4>3. LET z == Least({a, b, d, d, d}) IN z \in Int /\ z \in {a, b, d, d, d}
        BY <4>1, LeastIs, Zenon
      <4>4. QED
        BY <4>2, <4>3 DEF a, b, d
    <3>4. m # Uncapped
      BY <3>3, UncappedIsNone
    <3> HIDE DEF m
    <3>5. x <= m
      BY <1>1, <1>4, <3>1, <3>3, <3>4, UncappedIsNone
    <3>6. 2 * most <= 2 * m + Minor
      BY <1>1, <1>8, <1>9, <3>3, <3>5, MinorUnit
    <3>7. valued'[i].max = most /\ valued'[i].min = low /\ low <= most
      BY <1>1, <1>6, <1>10, <2>2 DEF most
    <3>8. QED
      BY <2>2, <3>6, <3>7 DEF m, c
  <2>3. QED
    BY <1>3, <2>1, <2>2 DEF n
<1>18. OwnInv'
  <2>1. DOMAIN valued' = 1 .. n
    BY <1>6
  <2>2. QED
    BY <1>1, <1>17, <2>1 DEF OwnInv
<1>19. QED
  BY <1>12, <1>16, <1>18

-----------------------------------------------------------------------------
(* In whole units *)

\* Sums of the same amounts are the same, written with SumTo.
LEMMA SumSame ==
  ASSUME NEW n \in Nat, NEW f, NEW g, \A i \in 1 .. n : f[i] = g[i]
  PROVE  SumTo(f, n) = SumTo(g, n)
<1>1. PICK s : Adding(s, f, n) /\ SumTo(f, n) = s[n]
  BY SumIs
<1>2. PICK t : Adding(t, g, n) /\ SumTo(g, n) = t[n]
  BY SumIs
<1>3. n <= n
  OBVIOUS
<1>4. QED
  BY <1>1, <1>2, <1>3, AddingSame

\* What a component is worth exceeds none of its limits, and is one of them.
LEMMA WorthIs ==
  ASSUME RouteTypes, NEW i \in 1 .. Len(route)
  PROVE  /\ Worth(i) \in Nat /\ Worth(i) <= amount /\ Worth(i) <= route[i].max
         /\ route[i].cap # Uncapped => Worth(i) <= route[i].cap
         /\ route[i].allowance # Uncapped => Worth(i) <= route[i].allowance
         /\ Worth(i) \in {amount, route[i].max, route[i].cap, route[i].allowance}
<1> DEFINE m == route[i].max
           a == route[i].cap
           b == route[i].allowance
           W == Worth(i)
<1>1. amount \in Nat /\ m \in Nat /\ a \in Nat \cup {Uncapped} /\ b \in Nat \cup {Uncapped}
  BY RouteParts DEF WellFormed
<1>2. m \in Int \cup {Uncapped} /\ a \in Int \cup {Uncapped} /\ b \in Int \cup {Uncapped} /\ amount \in Int
  BY <1>1
<1>3. W = Least({amount, m, a, b, b})
  <2>1. {amount, m, a, b, b} = {amount, m, a, b}
    OBVIOUS
  <2>2. QED
    BY <2>1 DEF Worth
<1> HIDE DEF m, a, b, W
<1>4. LET z == Least({amount, m, a, b, b}) IN
      /\ z \in Int /\ z \in {amount, m, a, b, b} /\ z <= amount
      /\ \A y \in {m, a, b, b} : y # Uncapped => z <= y
  BY <1>2, LeastIs, Zenon
<1>5. /\ W \in Int /\ W \in {amount, m, a, b} /\ W <= amount
      /\ \A y \in {m, a, b} : y # Uncapped => W <= y
  BY <1>3, <1>4
<1>6. W \in Nat /\ m # Uncapped
  BY <1>1, <1>5, UncappedIsNone
<1>7. QED
  BY <1>5, <1>6 DEF m, a, b, W

\* What one more member adds to a group.
LEMMA GroupStep ==
  ASSUME RouteTypes, NEW n \in Nat, n + 1 <= Len(route), NEW g
  PROVE  /\ GroupWorth(g, n) \in Int
         /\ GroupWorth(g, n + 1) = GroupWorth(g, n) + (IF route[n + 1].group = g THEN Worth(n + 1) ELSE 0)
<1> DEFINE f == [i \in 1 .. n |-> IF route[i].group = g THEN Worth(i) ELSE 0]
           h == [i \in 1 .. n + 1 |-> IF route[i].group = g THEN Worth(i) ELSE 0]
<1>1. Len(route) \in Nat
  BY DEF RouteTypes
<1>2. \A i \in 1 .. n : i \in 1 .. Len(route) /\ i \in 1 .. n + 1
  BY <1>1
<1>3. \A i \in 1 .. n : f[i] \in Int /\ f[i] = h[i]
  BY <1>2, WorthIs
<1>4. h[n + 1] = IF route[n + 1].group = g THEN Worth(n + 1) ELSE 0
  OBVIOUS
<1>5. GroupWorth(g, n) = SumTo(f, n) /\ GroupWorth(g, n + 1) = SumTo(h, n + 1)
  BY DEF GroupWorth
<1> HIDE DEF f, h
<1>6. SumTo(h, n + 1) = SumTo(f, n) + h[n + 1] /\ SumTo(f, n) \in Int
  BY <1>3, SumNext, SumInt
<1>7. QED
  BY <1>4, <1>5, <1>6

\* A group without members is worth nothing.
LEMMA GroupNone ==
  ASSUME NEW n \in Nat, NEW g, \A i \in 1 .. n : route[i].group # g
  PROVE  GroupWorth(g, n) = 0
<1> DEFINE f == [i \in 1 .. n |-> IF route[i].group = g THEN Worth(i) ELSE 0]
<1>1. \A i \in 1 .. n : f[i] = 0
  OBVIOUS
<1>2. GroupWorth(g, n) = SumTo(f, n)
  BY DEF GroupWorth
<1> HIDE DEF f
<1>3. QED
  BY <1>1, <1>2, SumZero

\* What the next component adds to its class: its worth, as far as its group's
\* cap leaves it.
Adds(c, n) ==
  IF route[n].class # c THEN 0
  ELSE IF route[n].group = Uncapped THEN Worth(n)
  ELSE Min({route[n].cap, GroupWorth(route[n].group, n)})
         - Min({route[n].cap, GroupWorth(route[n].group, n - 1)})
Shares(c, n) == SumTo([i \in 1 .. n |-> Share(c, i, n)], n)

\* One more component adds to the shares of a class what Adds says.
LEMMA SharesStep ==
  ASSUME RouteTypes, GroupsWithinClasses, NEW n \in Nat, n + 1 <= Len(route), NEW c
  PROVE  Shares(c, n) \in Int /\ Shares(c, n + 1) = Shares(c, n) + Adds(c, n + 1)
<1> DEFINE k == route[n + 1]
           g == k.group
           W == Worth(n + 1)
           f == [i \in 1 .. n |-> Share(c, i, n)]
           h == [i \in 1 .. n |-> Share(c, i, n + 1)]
           e == [i \in 1 .. n + 1 |-> Share(c, i, n + 1)]
<1>1. /\ Len(route) \in Nat /\ n + 1 \in 1 .. Len(route) /\ (n + 1) - 1 = n
      /\ \A i \in 1 .. n : i \in 1 .. Len(route) /\ i \in 1 .. n + 1 /\ i # n + 1
  BY DEF RouteTypes
<1>2. /\ \A i \in 1 .. n + 1 : i \in 1 .. Len(route)
      /\ \A i \in 1 .. n + 1 : route[i].group # Uncapped => route[i].cap \in Nat
      /\ \A i, j \in 1 .. n + 1 : route[i].group # Uncapped /\ route[i].group = route[j].group =>
           route[i].class = route[j].class /\ route[i].cap = route[j].cap
  <2>1. \A i \in 1 .. n + 1 : i \in 1 .. Len(route)
    BY <1>1
  <2>2. QED
    BY <2>1, RouteParts DEF GroupsWithinClasses
<1>3. \A i \in 1 .. n + 1 : Worth(i) \in Nat
  BY <1>2, WorthIs
<1>4. \A q : /\ GroupWorth(q, n) \in Int
             /\ GroupWorth(q, n + 1) = GroupWorth(q, n) + (IF g = q THEN W ELSE 0)
  BY GroupStep
<1>5. \A q : GroupWorth(q, n + 1) \in Int
  BY <1>1, <1>3, <1>4
<1>6. \A i \in 1 .. n : f[i] \in Int
  <2> SUFFICES ASSUME NEW i \in 1 .. n PROVE Share(c, i, n) \in Int
    OBVIOUS
  <2>1. CASE route[i].group = Uncapped
    BY <1>1, <1>3, <2>1 DEF Share
  <2>2. CASE route[i].group # Uncapped
    <3>1. route[i].cap \in Int /\ GroupWorth(route[i].group, n) \in Int
      BY <1>1, <1>2, <1>4, <2>2
    <3>2. Min({route[i].cap, GroupWorth(route[i].group, n)}) \in Int
      BY <3>1, MinOfTwo
    <3>3. QED
      BY <2>2, <3>2 DEF Share
  <2>3. QED
    BY <2>1, <2>2
<1>7. Shares(c, n) = SumTo(f, n) /\ Shares(c, n + 1) = SumTo(e, n + 1)
  BY DEF Shares
<1>8. \A i \in 1 .. n : h[i] = e[i]
  BY <1>1
<1>9. e[n + 1] = Share(c, n + 1, n + 1)
  BY <1>1
<1>10. \A i \in 1 .. n : f[i] = Share(c, i, n) /\ h[i] = Share(c, i, n + 1)
  OBVIOUS
<1> HIDE DEF f, h, e
<1>11. Shares(c, n + 1) = SumTo(h, n) + Share(c, n + 1, n + 1)
  BY <1>7, <1>8, <1>9, SumNext
<1>12. Shares(c, n) \in Int
  BY <1>6, <1>7, SumInt
<1>13. \A i \in 1 .. n : route[i].group # g \/ g = Uncapped => h[i] = f[i]
  <2> SUFFICES ASSUME NEW i \in 1 .. n, route[i].group # g \/ g = Uncapped
               PROVE  Share(c, i, n + 1) = Share(c, i, n)
    BY <1>10
  <2>1. CASE route[i].group = Uncapped
    BY <2>1 DEF Share
  <2>2. CASE route[i].group # Uncapped
    <3>1. route[i].group # g
      BY <2>2
    <3>2. GroupWorth(route[i].group, n + 1) = GroupWorth(route[i].group, n)
      BY <1>4, <3>1
    <3>3. QED
      BY <2>2, <3>2 DEF Share
  <2>3. QED
    BY <2>1, <2>2
<1>14. CASE k.class # c
  <2>1. \A i \in 1 .. n : h[i] = f[i]
    <3> SUFFICES ASSUME NEW i \in 1 .. n PROVE h[i] = f[i]
      OBVIOUS
    <3>1. CASE route[i].group = g /\ g # Uncapped
      <4>1. route[i].class # c
        BY <1>1, <1>2, <1>14, <3>1
      <4>2. QED
        BY <1>10, <4>1 DEF Share
    <3>2. QED
      BY <1>13, <3>1
  <2>2. SumTo(h, n) = SumTo(f, n)
    BY <2>1, SumSame
  <2>3. Share(c, n + 1, n + 1) = 0 /\ Adds(c, n + 1) = 0
    BY <1>14 DEF Share, Adds
  <2>4. QED
    BY <1>7, <1>11, <1>12, <2>2, <2>3
<1>15. CASE k.class = c /\ g = Uncapped
  <2>1. SumTo(h, n) = SumTo(f, n)
    BY <1>13, <1>15, SumSame
  <2>2. Share(c, n + 1, n + 1) = W /\ Adds(c, n + 1) = W
    BY <1>15 DEF Share, Adds
  <2>3. QED
    BY <1>7, <1>11, <1>12, <2>1, <2>2
<1>16. CASE k.class = c /\ g # Uncapped
  <2> DEFINE old == Min({k.cap, GroupWorth(g, n)})
             new == Min({k.cap, GroupWorth(g, n + 1)})
  <2>1. k.cap \in Nat
    BY <1>1, <1>2, <1>16
  <2>2. old \in Int /\ new \in Int
    BY <1>4, <1>5, <2>1, MinOfTwo
  <2>3. Adds(c, n + 1) = new - old
    BY <1>1, <1>16 DEF Adds
  <2> HIDE DEF old, new
  <2>4. CASE \A j \in 1 .. n : route[j].group # g
    <3>1. SumTo(h, n) = SumTo(f, n)
      BY <1>13, <2>4, SumSame
    <3>2. Share(c, n + 1, n + 1) = new
      BY <1>1, <1>16, <2>4 DEF Share, new
    <3>3. GroupWorth(g, n) = 0
      BY <2>4, GroupNone
    <3>4. old = 0
      BY <2>1, <3>3, MinOfTwo DEF old
    <3>5. QED
      BY <1>7, <1>11, <1>12, <2>2, <2>3, <3>1, <3>2, <3>4
  <2>5. CASE \E j \in 1 .. n : route[j].group = g
    <3> DEFINE J == {j \in 1 .. n : route[j].group = g}
    <3>1. IsFiniteSet(J) /\ J \in SUBSET Int /\ J # {}
      <4>1. IsFiniteSet(1 .. n)
        BY FS_Interval
      <4>2. QED
        BY <2>5, <4>1, FS_Subset
    <3>2. PICK p \in 1 .. n : route[p].group = g /\ \A j \in 1 .. n : route[j].group = g => p <= j
      <4>1. Min(J) \in J /\ \A y \in J : Min(J) <= y
        <5> HIDE DEF J
        <5>1. QED
          BY <3>1, MinIs
      <4>2. QED
        BY <4>1
    <3>3. route[p].class = c /\ route[p].cap = k.cap
      BY <1>1, <1>2, <1>16, <3>2
    <3>4. ~ \E j \in 1 .. p - 1 : route[j].group = g
      BY <3>2
    <3>5. f[p] = old /\ h[p] = new
      BY <1>10, <1>16, <3>2, <3>3, <3>4 DEF Share, old, new
    <3>6. \A i \in 1 .. n : i # p /\ route[i].group = g => h[i] = 0 /\ f[i] = 0
      <4> SUFFICES ASSUME NEW i \in 1 .. n, i # p, route[i].group = g PROVE h[i] = 0 /\ f[i] = 0
        OBVIOUS
      <4>1. p \in 1 .. i - 1
        BY <3>2
      <4>2. \E j \in 1 .. i - 1 : route[i].group # Uncapped /\ route[j].group = route[i].group
        BY <1>16, <3>2, <4>1
      <4>3. QED
        BY <1>10, <4>2 DEF Share
    <3>7. \A i \in 1 .. n : f[i] \in Int /\ h[i] \in Int /\ (i # p => h[i] = f[i])
      BY <1>6, <1>13, <2>2, <3>5, <3>6
    <3>8. SumTo(h, n) = SumTo(f, n) + (new - old)
      <4>1. SumTo(h, n) = SumTo(f, n) + (h[p] - f[p])
        BY <3>7, SumPoint
      <4>2. QED
        BY <3>5, <4>1
    <3>9. Share(c, n + 1, n + 1) = 0
      BY <1>1, <1>16, <2>5 DEF Share
    <3>10. QED
      BY <1>7, <1>11, <1>12, <2>2, <2>3, <3>8, <3>9
  <2>6. QED
    BY <2>4, <2>5
<1>17. QED
  BY <1>14, <1>15, <1>16

\* What the components are worth is settled with the route.
LEMMA SameWorths ==
  ASSUME UNCHANGED <<route, amount>>, NEW n \in Nat, NEW c
  PROVE  GroupWorth(c, n)' = GroupWorth(c, n) /\ ClassWorth(c, n)' = ClassWorth(c, n)
<1>1. \A i : Worth(i)' = Worth(i)
  BY DEF Worth
<1>2. ASSUME NEW g PROVE GroupWorth(g, n)' = GroupWorth(g, n)
  <2> DEFINE f == [i \in 1 .. n |-> IF route[i].group = g THEN Worth(i) ELSE 0]
             h == [i \in 1 .. n |-> IF route'[i].group = g THEN Worth(i)' ELSE 0]
  <2>1. \A i \in 1 .. n : h[i] = f[i]
    BY <1>1
  <2>2. GroupWorth(g, n) = SumTo(f, n) /\ GroupWorth(g, n)' = SumTo(h, n)
    BY DEF GroupWorth
  <2> HIDE DEF f, h
  <2>3. QED
    BY <2>1, <2>2, SumSame
<1>3. ASSUME NEW i PROVE Share(c, i, n)' = Share(c, i, n)
  BY <1>1, <1>2 DEF Share
<1>4. ClassWorth(c, n)' = ClassWorth(c, n)
  <2> DEFINE f == [i \in 1 .. n |-> Share(c, i, n)]
             h == [i \in 1 .. n |-> Share(c, i, n)']
  <2>1. \A i \in 1 .. n : h[i] = f[i]
    BY <1>3
  <2>2. ClassWorth(c, n) = Min({amount, SumTo(f, n)}) /\ ClassWorth(c, n)' = Min({amount', SumTo(h, n)})
    BY DEF ClassWorth
  <2> HIDE DEF f, h
  <2>3. SumTo(f, n) = SumTo(h, n)
    BY <2>1, SumSame
  <2>4. QED
    BY <2>2, <2>3
<1>5. QED
  BY <1>2, <1>4

\* In whole units every amount is whole, and so is what it is cut to.
LEMMA WholeAmount ==
  ASSUME NEW v \in Int, v % Minor = 0
  PROVE  Whole(v)
<1>1. v \div Minor \in Int /\ v = Minor * (v \div Minor) + (v % Minor)
  BY Divide
<1>2. v = Minor * (v \div Minor)
  <2>1. Minor * (v \div Minor) \in Int
    BY <1>1, MinorUnit
  <2>2. QED
    BY <1>1, <2>1
<1>3. QED
  BY <1>1, <1>2 DEF Whole

\* So the amount, a component's worth and its cap are whole.
LEMMA WholeIs ==
  ASSUME RouteTypes, WholeUnits, NEW i \in 1 .. Len(route)
  PROVE  /\ Whole(amount) /\ Whole(Worth(i))
         /\ route[i].cap # Uncapped => Whole(route[i].cap)
<1>1. /\ i \in DOMAIN route /\ amount \in Nat /\ route[i].max \in Nat
      /\ route[i].cap \in Nat \cup {Uncapped}
  BY RouteParts DEF WellFormed
<1> DEFINE S == {route[i].max, route[i].cap, route[i].allowance, amount} \ {Uncapped}
<1>2. \A v \in S : v % Minor = 0
  BY <1>1 DEF WholeUnits
<1>3. amount \in S /\ amount \in Int
  BY <1>1, UncappedIsNone
<1>4. Worth(i) \in S /\ Worth(i) \in Int
  BY WorthIs, UncappedIsNone
<1>5. route[i].cap # Uncapped => route[i].cap \in S /\ route[i].cap \in Int
  BY <1>1
<1> HIDE DEF S
<1>6. QED
  BY <1>2, <1>3, <1>4, <1>5, WholeAmount

\* A component then counts its worth, as far as its class and its group allow.
LEMMA CountsExactly ==
  ASSUME RouteTypes, LeftInv, ExactInv, WholeUnits, GroupsWithinClasses, ValueNext
  PROVE  LET n == Len(valued) + 1
             c == route[n]
         IN  \E x \in Nat : \E low \in Nat :
               /\ valued' = Append(valued, [min |-> low, max |-> x])
               /\ n \in 1 .. Len(route) /\ UNCHANGED <<route, amount>>
               /\ Whole(x) /\ x <= Worth(n) /\ x <= leftClass[c.class]
               /\ c.group # Uncapped => x <= Left(c.group)
               /\ \/ x \in {Worth(n), leftClass[c.class]}
                  \/ c.group # Uncapped /\ x = Left(c.group)
<1> DEFINE n == Len(valued) + 1
           c == route[n]
           L == LimitOf(c)
           W == Worth(n)
           l == leftClass[c.class]
           G == Left(c.group)
<1>1. PICK x \in Int, low \in Nat :
        /\ x <= c.max /\ x <= L /\ x \in {c.max, L}
        /\ Quantize(x) \in Nat /\ low <= Quantize(x)
        /\ n \in 1 .. Len(route)
        /\ valued' = Append(valued, [min |-> low, max |-> Quantize(x)])
        /\ UNCHANGED <<route, amount>>
  BY CountsIs
<1>2. Len(valued) < Len(route)
  BY DEF ValueNext
<1>3. /\ L \in Int /\ L <= amount /\ L <= l
      /\ c.cap # Uncapped => L <= c.cap
      /\ c.allowance # Uncapped => L <= c.allowance
      /\ c.group # Uncapped => L <= G
      /\ \/ L \in {amount, c.cap, c.allowance, l}
         \/ c.group # Uncapped /\ L = G
  BY <1>2, LimitIs
<1>4. /\ WellFormed(c) /\ c.class \in Classes /\ amount \in Nat
      /\ c.group # Uncapped => c.cap \in Nat /\ c.group \in GroupsOf(route)
  BY <1>1, RouteParts DEF WellFormed
<1>5. /\ W \in Nat /\ W <= amount /\ W <= c.max
      /\ c.cap # Uncapped => W <= c.cap
      /\ c.allowance # Uncapped => W <= c.allowance
      /\ W \in {amount, c.max, c.cap, c.allowance}
  BY <1>1, WorthIs
<1>6. Whole(W)
  BY <1>1, WholeIs
<1>7. l \in Nat /\ Whole(l)
  BY <1>4 DEF RouteTypes, LeftInv
<1>8. n \in DOMAIN route
  BY <1>1, RouteParts
<1>9. c.group # Uncapped => G \in Int /\ G >= 0 /\ Whole(G)
  BY <1>4, <1>8 DEF LeftInv, ExactInv
<1>10. c.cap \in Nat \cup {Uncapped} /\ c.allowance \in Nat \cup {Uncapped} /\ c.max \in Nat
  BY <1>4 DEF WellFormed
<1>11. Uncapped \notin Int
  BY UncappedIsNone
<1> DEFINE m == c.max
           a == c.cap
           b == c.allowance
           q == c.group
<1> HIDE DEF n, L, W, l, G
<1>12. x <= W
  <2>1. x <= m /\ x <= amount /\ (a # Uncapped => x <= a) /\ (b # Uncapped => x <= b)
    BY <1>1, <1>3, <1>4, <1>10
  <2>2. W # Uncapped
    BY <1>5, <1>11
  <2>3. QED
    BY <1>5, <2>1, <2>2
<1>13. x \in {W, l} \/ (q # Uncapped /\ x = G)
  <2>1. CASE x = m
    BY <1>1, <1>5, <1>10, <1>12, <2>1
  <2>2. CASE x = L
    <3>1. CASE L \in {amount, a, b}
      <4>1. L # Uncapped
        BY <1>3, <1>11
      <4>2. W <= L
        BY <1>5, <3>1, <4>1
      <4>3. QED
        BY <1>1, <1>5, <1>12, <2>2, <4>2
    <3>2. CASE L = l \/ (q # Uncapped /\ L = G)
      BY <2>2, <3>2
    <3>3. QED
      BY <1>3, <3>1, <3>2
  <2>3. QED
    BY <1>1, <2>1, <2>2
<1>14. Whole(x)
  BY <1>6, <1>7, <1>9, <1>13
<1>15. Quantize(x) = x
  BY <1>14, QuantizeWhole
<1>16. x \in Nat
  BY <1>1, <1>15
<1>17. x <= l /\ (q # Uncapped => x <= G)
  BY <1>1, <1>3, <1>7, <1>9
<1>18. valued' = Append(valued, [min |-> low, max |-> x])
  BY <1>1, <1>15
<1>19. QED
  BY <1>1, <1>12, <1>13, <1>14, <1>16, <1>17, <1>18 DEF n, W, l, G

\* What one more component adds: its worth, as far as its group's cap is not
\* used up.
LEMMA AddsIs ==
  ASSUME RouteTypes, NEW n \in Nat, n + 1 <= Len(route), NEW c
  PROVE  LET k == route[n + 1]
             W == Worth(n + 1)
             rest == k.cap - Min({k.cap, GroupWorth(k.group, n)})
         IN  /\ Adds(c, n + 1) \in Nat
             /\ k.class # c => Adds(c, n + 1) = 0
             /\ k.class = c /\ k.group = Uncapped => Adds(c, n + 1) = W
             /\ k.class = c /\ k.group # Uncapped =>
                  /\ Adds(c, n + 1) = IF W <= rest THEN W ELSE rest
                  /\ Min({k.cap, GroupWorth(k.group, n + 1)}) =
                       Min({k.cap, GroupWorth(k.group, n)}) + Adds(c, n + 1)
<1> DEFINE k == route[n + 1]
           g == k.group
           W == Worth(n + 1)
           old == Min({k.cap, GroupWorth(g, n)})
           new == Min({k.cap, GroupWorth(g, n + 1)})
           A == Adds(c, n + 1)
<1>1. n + 1 \in 1 .. Len(route) /\ (n + 1) - 1 = n
  BY DEF RouteTypes
<1>2. W \in Nat
  BY <1>1, WorthIs
<1>3. GroupWorth(g, n) \in Int /\ GroupWorth(g, n + 1) = GroupWorth(g, n) + W
  BY GroupStep
<1>4. CASE k.class # c
  BY <1>4 DEF Adds
<1>5. CASE k.class = c /\ g = Uncapped
  BY <1>2, <1>5 DEF Adds
<1>6. CASE k.class = c /\ g # Uncapped
  <2>1. k.cap \in Nat
    BY <1>1, <1>6, RouteParts
  <2>2. A = new - old
    BY <1>1, <1>6 DEF Adds
  <2>3. GroupWorth(g, n + 1) \in Int
    BY <1>2, <1>3
  <2>4. old = IF k.cap <= GroupWorth(g, n) THEN k.cap ELSE GroupWorth(g, n)
    BY <1>3, <2>1, MinOfTwo
  <2>5. new = IF k.cap <= GroupWorth(g, n + 1) THEN k.cap ELSE GroupWorth(g, n + 1)
    BY <2>1, <2>3, MinOfTwo
  <2> DEFINE p == k.cap
             u == GroupWorth(g, n)
             v == GroupWorth(g, n + 1)
  <2>6. /\ p \in Nat /\ u \in Int /\ v = u + W /\ A = new - old
        /\ old = (IF p <= u THEN p ELSE u) /\ new = (IF p <= v THEN p ELSE v)
    BY <1>3, <2>1, <2>2, <2>4, <2>5
  <2> HIDE DEF p, u, v, W, old, new, A
  <2>7. A \in Nat /\ A = (IF W <= p - old THEN W ELSE p - old) /\ new = old + A
    BY <1>2, <2>6
  <2>8. QED
    BY <1>6, <2>7 DEF p, W, old, new, A
<1>7. QED
  BY <1>4, <1>5, <1>6

\* One more component keeps the totals what the caps leave of the route.
LEMMA ExactStep ==
  ASSUME RouteTypes, LeftInv, ExactInv, ValueNext, RouteTypes', LeftInv'
  PROVE  ExactInv'
<1>1. UNCHANGED <<route, amount>>
  BY DEF ValueNext
<1>2. /\ WholeUnits' <=> WholeUnits
      /\ GroupsWithinClasses' <=> GroupsWithinClasses
  BY <1>1 DEF WholeUnits, GroupsWithinClasses
<1>3. SUFFICES ASSUME WholeUnits, GroupsWithinClasses
               PROVE  /\ \A c \in Classes : Total(c)' = ClassWorth(c, Len(valued))'
                      /\ \A i \in DOMAIN route : \A q, c :
                           q = route[i].group /\ q # Uncapped /\ c = route[i].class =>
                           /\ Left(q)' >= 0 /\ Whole(Left(q)')
                           /\ leftClass'[c] > 0 =>
                                Counted(q)' = Min({CapOf(q)', GroupWorth(q, Len(valued))'})
  BY <1>1, <1>2 DEF ExactInv
<1>4. PICK N \in Nat : N = Len(valued)
  BY DEF RouteTypes
<1> DEFINE k == route[N + 1]
           g == k.group
           W == Worth(N + 1)
           l == leftClass[k.class]
           A == Adds(k.class, N + 1)
<1>5. PICK x \in Nat, low \in Nat :
        /\ valued' = Append(valued, [min |-> low, max |-> x])
        /\ N + 1 \in 1 .. Len(route)
        /\ Whole(x) /\ x <= W /\ x <= l
        /\ g # Uncapped => x <= Left(g)
        /\ x \in {W, l} \/ (g # Uncapped /\ x = Left(g))
  BY <1>3, <1>4, CountsExactly
<1> DEFINE v == [min |-> low, max |-> x]
<1>6. v \in [min : Nat, max : Nat] /\ v.max = x
  BY <1>5
<1>7. /\ Len(valued') = N + 1
      /\ \A c : Total(c)' = Total(c) + (IF k.class = c THEN x ELSE 0)
      /\ \A q : Counted(q)' = Counted(q) + (IF g = q THEN x ELSE 0)
      /\ \A c : Total(c) \in Int
      /\ \A q : Counted(q) \in Int
  BY <1>1, <1>4, <1>5, <1>6, TotalsStep
<1>8. /\ N + 1 \in Nat /\ N + 1 <= Len(route) /\ Len(route) \in Nat /\ DOMAIN route = 1 .. Len(route)
      /\ amount \in Nat /\ WellFormed(k) /\ k.class \in Classes
  BY <1>5, RouteParts DEF WellFormed
<1>9. /\ \A c : ClassWorth(c, Len(valued))' = ClassWorth(c, N + 1)
      /\ \A q : GroupWorth(q, Len(valued))' = GroupWorth(q, N + 1)
  BY <1>1, <1>7, <1>8, SameWorths
<1>10. \A c \in Classes : /\ Total(c) + leftClass[c] = amount /\ leftClass[c] \in Nat
                          /\ Total(c)' + leftClass'[c] = amount
                          /\ Total(c) = ClassWorth(c, N)
  <2>1. Quantize(amount) = amount
    BY <1>3, <1>5, <1>8, WholeIs, QuantizeWhole
  <2>2. QED
    BY <1>1, <1>3, <1>4, <2>1 DEF LeftInv, ExactInv, RouteTypes
<1>11. \A c \in Classes : leftClass'[c] \in Nat
  BY DEF RouteTypes
<1>12. \A c : /\ ClassWorth(c, N) = Min({amount, Shares(c, N)})
              /\ ClassWorth(c, N + 1) = Min({amount, Shares(c, N + 1)})
  BY DEF ClassWorth, Shares
<1>13. \A c : Shares(c, N) \in Int /\ Shares(c, N + 1) = Shares(c, N) + Adds(c, N + 1)
  BY <1>3, <1>8, SharesStep
<1>14. /\ W \in Nat /\ A \in Nat
       /\ g = Uncapped => A = W
       /\ g # Uncapped =>
            LET rest == k.cap - Min({k.cap, GroupWorth(g, N)})
            IN  /\ A = IF W <= rest THEN W ELSE rest
                /\ Min({k.cap, GroupWorth(g, N + 1)}) = Min({k.cap, GroupWorth(g, N)}) + A
  <2>1. W \in Nat
    BY <1>5, WorthIs
  <2>2. QED
    BY <1>8, <2>1, AddsIs
<1>15. ASSUME NEW q \in GroupsOf(route)
       PROVE  /\ Left(q) \in Int /\ Counted(q) \in Int /\ Counted(q) + Left(q) = CapOf(q)
              /\ Left(q)' = Left(q) - (IF q = g THEN x ELSE 0)
              /\ CapOf(q)' = CapOf(q)
  <2>1. CapOf(q)' = CapOf(q) /\ q \in GroupsOf(route')
    BY <1>1 DEF CapOf, OfGroup
  <2>2. Left(q)' \in Int /\ Counted(q)' + Left(q)' = CapOf(q)'
    BY <2>1 DEF LeftInv
  <2>3. Left(q) \in Int /\ Counted(q) \in Int /\ Counted(q) + Left(q) = CapOf(q)
    BY DEF LeftInv
  <2>4. QED
    BY <1>7, <2>1, <2>2, <2>3
<1>16. g # Uncapped => /\ g \in GroupsOf(route) /\ CapOf(g) = k.cap /\ k.cap \in Nat
                       /\ Left(g) >= 0 /\ Whole(Left(g))
                       /\ l > 0 => Counted(g) = Min({k.cap, GroupWorth(g, N)})
  <2>1. g # Uncapped => g \in GroupsOf(route) /\ CapOf(g) = k.cap /\ k.cap \in Nat
    BY <1>5, RouteParts
  <2>2. N + 1 \in DOMAIN route
    BY <1>5, <1>8
  <2>3. QED
    BY <1>3, <1>4, <2>1, <2>2 DEF ExactInv
<1>17. l \in Nat
  BY <1>8, <1>10
\* It counts what it adds, until its class is full.
<1>18. l > 0 => x = IF A <= l THEN A ELSE l
  <2>1. CASE g = Uncapped
    BY <1>5, <1>14, <1>17, <2>1
  <2>2. CASE g # Uncapped /\ l > 0
    <3> DEFINE G == Left(g)
    <3>1. G = k.cap - Min({k.cap, GroupWorth(g, N)}) /\ G \in Int
      BY <1>15, <1>16, <2>2
    <3>2. A = IF W <= G THEN W ELSE G
      BY <1>14, <2>2, <3>1
    <3> HIDE DEF G, A, W, l
    <3>3. QED
      BY <1>5, <1>14, <1>17, <2>2, <3>1, <3>2 DEF G
  <2>3. QED
    BY <2>1, <2>2
<1>19. l = 0 => x = 0
  BY <1>5, <1>17
<1> HIDE DEF k, g, W, l, A, v
<1>20. ASSUME NEW c \in Classes PROVE Total(c)' = ClassWorth(c, Len(valued))'
  <2>1. CASE c = k.class
    <3>1. Total(c) + x = Min({amount, Shares(c, N) + A})
      <4>1. Total(c) \in Int /\ Total(c) + l = amount /\ Total(c) = Min({amount, Shares(c, N)})
        BY <1>7, <1>10, <1>12, <2>1 DEF l
      <4>2. Shares(c, N) \in Int /\ amount \in Int /\ A \in Nat /\ x \in Nat
        BY <1>8, <1>13, <1>14
      <4> DEFINE S == Shares(c, N)
                 T == Total(c)
      <4>3. S \in Int /\ T \in Int /\ T + l = amount /\ T = Min({amount, S})
        BY <4>1, <4>2
      <4> HIDE DEF S, T
      <4>4. T = IF amount <= S THEN amount ELSE S
        BY <4>2, <4>3, MinOfTwo
      <4>5. Min({amount, S + A}) = IF amount <= S + A THEN amount ELSE S + A
        <5>1. S + A \in Int
          BY <4>2, <4>3
        <5>2. QED
          BY <4>2, <5>1, MinOfTwo
      <4>6. T + x = IF amount <= S + A THEN amount ELSE S + A
        BY <1>17, <1>18, <1>19, <4>2, <4>3, <4>4
      <4>7. QED
        BY <4>5, <4>6 DEF S, T
    <3>2. Shares(c, N + 1) = Shares(c, N) + A
      BY <1>13, <2>1 DEF A
    <3>3. QED
      BY <1>7, <1>9, <1>12, <2>1, <3>1, <3>2
  <2>2. CASE c # k.class
    <3>1. Adds(c, N + 1) = 0
      BY <2>2 DEF Adds, k
    <3>2. Shares(c, N + 1) = Shares(c, N)
      BY <1>13, <3>1
    <3>3. ClassWorth(c, N + 1) = ClassWorth(c, N)
      BY <1>12, <3>2
    <3>4. Total(c)' = Total(c)
      BY <1>7, <2>2
    <3>5. QED
      BY <1>9, <1>10, <3>3, <3>4
  <2>3. QED
    BY <2>1, <2>2
<1>21. ASSUME NEW i \in DOMAIN route, NEW q, NEW c,
              q = route[i].group, q # Uncapped, c = route[i].class
       PROVE  /\ Left(q)' >= 0 /\ Whole(Left(q)')
              /\ leftClass'[c] > 0 =>
                   Counted(q)' = Min({CapOf(q)', GroupWorth(q, Len(valued))'})
  <2>1. q \in GroupsOf(route) /\ i \in 1 .. Len(route) /\ WellFormed(route[i]) /\ c \in Classes
    BY <1>8, <1>21, RouteParts DEF WellFormed
  <2>2. /\ Left(q) \in Int /\ Counted(q) \in Int /\ Counted(q) + Left(q) = CapOf(q)
        /\ Left(q)' = Left(q) - (IF q = g THEN x ELSE 0)
        /\ CapOf(q)' = CapOf(q)
    BY <1>15, <2>1
  <2>3. /\ Left(q) >= 0 /\ Whole(Left(q))
        /\ leftClass[c] > 0 => Counted(q) = Min({CapOf(q), GroupWorth(q, N)})
    BY <1>3, <1>4, <1>21 DEF ExactInv
  <2>4. CASE q = g
    <3>1. c = k.class
      BY <1>3, <1>5, <1>8, <1>21, <2>4 DEF GroupsWithinClasses, k, g
    <3>2. g # Uncapped /\ x <= Left(g) /\ CapOf(g) = k.cap
      BY <1>5, <1>16, <1>21, <2>4
    <3>3. Left(q)' >= 0 /\ Whole(Left(q)')
      <4>1. Left(q)' = Left(q) - x /\ Left(q) - x >= 0
        BY <2>2, <2>4, <3>2
      <4>2. x \in Int /\ Left(q) \in Int
        BY <2>2
      <4>3. Whole(Left(q) - x)
        BY <1>5, <2>3, <4>2, WholeMinus, Zenon
      <4>4. QED
        BY <4>1, <4>3
    <3>4. ASSUME leftClass'[c] > 0 PROVE Counted(q)' = Min({CapOf(q)', GroupWorth(q, Len(valued))'})
      <4>1. leftClass'[c] = l - x
        <5>1. Total(c)' = Total(c) + x /\ Total(c) \in Int
          BY <1>7, <3>1
        <5>2. Total(c) + l = amount /\ Total(c)' + leftClass'[c] = amount /\ leftClass'[c] \in Nat
          BY <1>10, <1>11, <2>1, <3>1 DEF l
        <5>3. QED
          BY <1>17, <5>1, <5>2
      <4>2. l > 0 /\ x = A
        BY <1>14, <1>17, <1>18, <3>4, <4>1
      <4>3. Counted(q)' = Counted(q) + A /\ Counted(q) = Min({k.cap, GroupWorth(g, N)})
        BY <1>7, <1>16, <2>4, <3>2, <4>2
      <4>4. Min({k.cap, GroupWorth(g, N + 1)}) = Min({k.cap, GroupWorth(g, N)}) + A
        BY <1>14, <3>2
      <4>5. GroupWorth(q, Len(valued))' = GroupWorth(g, N + 1) /\ CapOf(q)' = k.cap
        BY <1>9, <2>2, <2>4, <3>2
      <4>6. QED
        BY <2>4, <4>3, <4>4, <4>5
    <3>5. QED
      BY <3>3, <3>4
  <2>5. CASE q # g
    <3>1. Left(q)' = Left(q) /\ Counted(q)' = Counted(q)
      BY <1>7, <2>2, <2>5
    <3>2. GroupWorth(q, Len(valued))' = GroupWorth(q, N)
      <4>1. GroupWorth(q, N + 1) = GroupWorth(q, N)
        <5>1. GroupWorth(q, N) \in Int /\ GroupWorth(q, N + 1) = GroupWorth(q, N) + (IF k.group = q THEN Worth(N + 1) ELSE 0)
          BY <1>8, GroupStep DEF k
        <5>2. k.group # q
          BY <2>5 DEF g
        <5>3. QED
          BY <5>1, <5>2
      <4>2. QED
        BY <1>9, <4>1
    <3>3. leftClass'[c] > 0 => leftClass[c] > 0
      <4>1. Total(c)' >= Total(c) /\ Total(c) \in Int
        BY <1>7
      <4>2. QED
        BY <1>7, <1>10, <1>11, <2>1, <4>1
    <3>4. QED
      BY <2>2, <2>3, <3>1, <3>2, <3>3
  <2>6. QED
    BY <2>4, <2>5
<1>22. QED
  BY <1>20, <1>21

\* A route of which no component is valued yet: nothing counted, all left.
LEMMA RouteStart ==
  ASSUME RouteInit
  PROVE  RouteInv
<1>1. /\ route \in Seq(Components) /\ Accepted(route) /\ amount \in Amounts
      /\ valued = <<>> /\ Len(valued) = 0 /\ DOMAIN valued = {}
      /\ leftClass = [c \in Classes |-> Quantize(amount)] /\ leftGroup = [g \in {} |-> 0]
  <2>1. route \in Seq(Components)
    <3>1. route \in BoundedSeq(Components, MaxComponents)
      BY DEF RouteInit
    <3>2. PICK m \in 0 .. MaxComponents : route \in [1 .. m -> Components]
      BY <3>1 DEF BoundedSeq, SeqOf
    <3>3. m \in Nat
      BY <3>2
    <3>4. QED
      BY <3>2, <3>3
  <2>2. QED
    BY <2>1 DEF RouteInit
<1>2. amount \in Nat /\ Quantize(amount) \in Nat /\ Whole(Quantize(amount))
  <2>1. amount \in Nat \ {0}
    BY <1>1, MoneyOfRoutes
  <2>2. 2 * amount + Minor >= 0
    BY <2>1, MinorUnit
  <2>3. QED
    BY <2>1, <2>2, QuantizeNat, QuantizeIsWhole
<1>3. RouteTypes
  <2>1. leftClass \in [Classes -> Nat] /\ DOMAIN leftGroup \subseteq CapGroups
    BY <1>1, <1>2
  <2>2. valued \in Seq([min : Nat, max : Nat]) /\ Len(valued) <= Len(route)
    <3>1. Len(route) \in Nat
      BY <1>1
    <3>2. QED
      BY <1>1, <3>1
  <2>3. QED
    BY <1>1, <2>1, <2>2 DEF RouteTypes
<1>4. (\A c : Total(c) = 0) /\ \A g : Counted(g) = 0
  BY <1>1, SumNone DEF Total, Counted
<1>5. \A g : Left(g) = CapOf(g)
  BY <1>1 DEF Left
<1>6. LeftInv
  <2>1. \A g \in GroupsOf(route) : CapOf(g) \in Nat
    BY <1>3, RouteParts
  <2>2. \A c \in Classes : leftClass[c] = Quantize(amount)
    BY <1>1
  <2>3. QED
    BY <1>2, <1>4, <1>5, <2>1, <2>2, MinorUnit DEF LeftInv
<1>7. OwnInv
  BY <1>1 DEF OwnInv
<1>8. ASSUME WholeUnits, GroupsWithinClasses PROVE \A c \in Classes : Total(c) = ClassWorth(c, Len(valued))
  <2>1. \A c : ClassWorth(c, 0) = 0
    <3> SUFFICES ASSUME NEW c PROVE ClassWorth(c, 0) = 0
      OBVIOUS
    <3>1. ClassWorth(c, 0) = Min({amount, 0})
      BY SumNone DEF ClassWorth
    <3>2. QED
      BY <1>2, <3>1, MinOfTwo
  <2>2. QED
    BY <1>1, <1>4, <2>1
<1>9. ASSUME WholeUnits, GroupsWithinClasses, NEW i \in DOMAIN route, NEW q, q = route[i].group, q # Uncapped
      PROVE  /\ Left(q) >= 0 /\ Whole(Left(q))
             /\ Counted(q) = Min({CapOf(q), GroupWorth(q, Len(valued))})
  <2>1. i \in 1 .. Len(route) /\ CapOf(q) = route[i].cap /\ route[i].cap \in Nat
    BY <1>3, <1>9, RouteParts
  <2>2. Whole(route[i].cap)
    BY <1>3, <1>9, <2>1, UncappedIsNone, WholeIs
  <2>3. GroupWorth(q, 0) = 0
    BY SumNone DEF GroupWorth
  <2>4. Min({CapOf(q), 0}) = 0
    BY <2>1, MinOfTwo
  <2>5. Left(q) = route[i].cap /\ Counted(q) = 0
    BY <1>4, <1>5, <2>1
  <2>6. GroupWorth(q, Len(valued)) = 0
    BY <1>1, <2>3
  <2>7. Left(q) >= 0 /\ Whole(Left(q))
    BY <2>1, <2>2, <2>5
  <2>8. QED
    BY <2>4, <2>5, <2>6, <2>7
<1>10. ExactInv
  BY <1>8, <1>9 DEF ExactInv
<1>11. QED
  BY <1>3, <1>6, <1>7, <1>10 DEF RouteInv

\* The invariant of valuing a route is inductive for any route that is
\* accepted: what a class and a group have left is what their components have
\* not counted, a group is overdrawn by half a minor unit at most, and in whole
\* units the classes count what the caps leave of the route.
THEOREM RouteInductive ==
  /\ RouteInit => RouteInv
  /\ RouteInv /\ [RouteNext]_routeVars => RouteInv'
<1>1. RouteInit => RouteInv
  BY RouteStart
<1>2. ASSUME RouteInv, ValueNext PROVE RouteInv'
  <2>1. RouteTypes' /\ LeftInv' /\ OwnInv'
    BY <1>2, LimitsStep DEF RouteInv
  <2>2. ExactInv'
    BY <1>2, <2>1, ExactStep DEF RouteInv
  <2>3. QED
    BY <2>1, <2>2 DEF RouteInv
<1>3. ASSUME RouteInv, UNCHANGED routeVars PROVE RouteInv'
  <2>1. UNCHANGED <<route, amount, valued, leftClass, leftGroup>>
    BY <1>3 DEF routeVars
  <2>2. RouteTypes'
    BY <1>3, <2>1 DEF RouteInv, RouteTypes
  <2>3. /\ \A c : Total(c)' = Total(c)
        /\ \A g : Counted(g)' = Counted(g)
        /\ \A g : CapOf(g)' = CapOf(g)
    BY <2>1 DEF Total, Counted, CapOf, OfGroup
  <2>4. \A g : Left(g)' = Left(g)
    BY <2>1, <2>3 DEF Left
  <2>5. GroupsOf(route') = GroupsOf(route)
    BY <2>1
  <2>6. LeftInv'
    BY <1>3, <2>1, <2>3, <2>4, <2>5 DEF RouteInv, LeftInv
  <2>7. OwnInv'
    BY <1>3, <2>1 DEF RouteInv, OwnInv
  <2>8. ExactInv'
    <3>1. PICK n \in Nat : n = Len(valued)
      BY <1>3 DEF RouteInv, RouteTypes
    <3>2. \A c : /\ ClassWorth(c, Len(valued))' = ClassWorth(c, n)
                 /\ GroupWorth(c, Len(valued))' = GroupWorth(c, n)
      BY <2>1, <3>1, SameWorths
    <3>3. WholeUnits' <=> WholeUnits
      BY <2>1 DEF WholeUnits
    <3>4. GroupsWithinClasses' <=> GroupsWithinClasses
      BY <2>1 DEF GroupsWithinClasses
    <3>5. SUFFICES ASSUME WholeUnits, GroupsWithinClasses
                   PROVE  /\ \A c \in Classes : Total(c)' = ClassWorth(c, Len(valued))'
                          /\ \A i \in DOMAIN route : \A q, c :
                               q = route[i].group /\ q # Uncapped /\ c = route[i].class =>
                               /\ Left(q)' >= 0 /\ Whole(Left(q)')
                               /\ leftClass'[c] > 0 =>
                                    Counted(q)' = Min({CapOf(q)', GroupWorth(q, Len(valued))'})
      BY <2>1, <3>3, <3>4 DEF ExactInv
    <3>6. ExactInv
      BY <1>3 DEF RouteInv
    <3>7. \A c \in Classes : Total(c)' = ClassWorth(c, Len(valued))'
      BY <2>3, <3>1, <3>2, <3>5, <3>6 DEF ExactInv
    <3>8. ASSUME NEW i \in DOMAIN route, NEW q, NEW c,
                 q = route[i].group, q # Uncapped, c = route[i].class
          PROVE  /\ Left(q)' >= 0 /\ Whole(Left(q)')
                 /\ leftClass'[c] > 0 =>
                      Counted(q)' = Min({CapOf(q)', GroupWorth(q, Len(valued))'})
      <4>1. /\ Left(q) >= 0 /\ Whole(Left(q))
            /\ leftClass[c] > 0 => Counted(q) = Min({CapOf(q), GroupWorth(q, n)})
        BY <3>1, <3>5, <3>6, <3>8 DEF ExactInv
      <4>2. QED
        BY <2>1, <2>3, <2>4, <3>2, <4>1
    <3>9. QED
      BY <3>7, <3>8
  <2>9. QED
    BY <2>2, <2>6, <2>7, <2>8 DEF RouteInv
<1>4. QED
  BY <1>1, <1>2, <1>3 DEF RouteNext

\* A group that has something left is a group of the route.
GroupsOpened == DOMAIN leftGroup \subseteq GroupsOf(route)

\* A class never has less than nothing left; a group has a number left, which
\* may be less.
THEOREM RouteTyped == RouteSpec => []RouteTypeOK
<1>1. RouteInit => GroupsOpened
  BY DEF RouteInit, GroupsOpened
<1>2. RouteInv /\ GroupsOpened /\ [RouteNext]_routeVars => GroupsOpened'
  <2> SUFFICES ASSUME RouteInv, GroupsOpened, [RouteNext]_routeVars
               PROVE  GroupsOpened'
    OBVIOUS
  <2>1. CASE UNCHANGED routeVars
    BY <2>1 DEF routeVars, GroupsOpened, GroupsOf
  <2>2. CASE ValueNext
    <3> DEFINE n == Len(valued) + 1
               group == route[n].group
    <3>1. n \in DOMAIN route /\ route' = route
      BY <2>2 DEF ValueNext, RouteInv, RouteTypes
    <3>2. DOMAIN leftGroup' \subseteq DOMAIN leftGroup \cup ({group} \ {Uncapped})
      BY <2>2 DEF ValueNext
    <3>3. group \in {route[i].group : i \in DOMAIN route}
      BY <3>1
    <3>4. QED
      BY <3>1, <3>2, <3>3 DEF GroupsOpened, GroupsOf
  <2>3. QED
    BY <2>1, <2>2 DEF RouteNext
<1>3. RouteInv /\ GroupsOpened => RouteTypeOK
  <2> SUFFICES ASSUME RouteInv, GroupsOpened PROVE RouteTypeOK
    OBVIOUS
  <2>1. RouteTypes /\ LeftInv
    BY DEF RouteInv
  <2>2. \A g \in DOMAIN leftGroup : leftGroup[g] \in Int
    BY <2>1 DEF LeftInv, Left, GroupsOpened
  <2>3. \A i \in DOMAIN valued : valued[i].min \in Nat /\ valued[i].max \in Nat
    <3> DEFINE V == [min : Nat, max : Nat]
    <3>1. valued \in Seq(V)
      BY <2>1 DEF RouteTypes
    <3>2. \A v \in V : v.min \in Nat /\ v.max \in Nat
      OBVIOUS
    <3> HIDE DEF V
    <3>3. \A i \in DOMAIN valued : valued[i] \in V
      BY <3>1
    <3>4. QED
      BY <3>2, <3>3
  <2>4. QED
    BY <2>1, <2>2, <2>3 DEF RouteTypes, RouteTypeOK
<1>4. QED
  BY <1>1, <1>2, <1>3, RouteInductive, PTL DEF RouteSpec

\* Nothing of a route is counted twice, and no order of its components gains or
\* loses value: for any accepted route, after every component.
THEOREM RoutesAreSound == RouteSpec => []RouteValueSound
<1>1. RouteInv => RouteValueSound
  <2> SUFFICES ASSUME RouteInv PROVE LimitsKept /\ TotalsExact
    BY DEF RouteValueSound
  <2>1. ASSUME NEW c \in Classes PROVE Total(c) <= Quantize(amount)
    <3>1. Total(c) + leftClass[c] = Quantize(amount) /\ leftClass[c] \in Nat
      BY DEF RouteInv, LeftInv, RouteTypes
    <3>2. valued \in Seq([min : Nat, max : Nat])
      BY DEF RouteInv, RouteTypes
    <3>3. Total(c) \in Int
      BY TotalsInt DEF RouteInv
    <3>4. QED
      BY <3>1, <3>3
  <2>2. ASSUME NEW g \in GroupsOf(route) PROVE 2 * Counted(g) <= 2 * CapOf(g) + Minor
    <3>1. /\ Left(g) \in Int /\ Counted(g) \in Int /\ Counted(g) + Left(g) = CapOf(g)
          /\ 2 * Left(g) + Minor >= 0
      BY DEF RouteInv, LeftInv
    <3>2. QED
      BY <3>1, MinorUnit
  <2>3. LimitsKept
    BY <2>1, <2>2 DEF LimitsKept, RouteInv, OwnInv
  <2>4. TotalsExact
    BY DEF TotalsExact, RouteInv, ExactInv
  <2>5. QED
    BY <2>3, <2>4
<1>2. QED
  BY <1>1, RouteInductive, PTL DEF RouteSpec

-----------------------------------------------------------------------------
(* The index *)

\* One source is the other or an earlier state of it: edits only move on.
AtMost(s, t) == s.catalog <= t.catalog /\ s.rewards <= t.rewards

\* Where a query is under way, x was the source during it, or was already
\* passed when it began.
KnownOrPassed(x) == x \in current \/ \A s \in current : AtMost(x, s)

\* What the build under way will say its fingerprint is, and whether it is
\* known by now that the build will be refused: its second fingerprint differs
\* in one part, or will because the source already does.
Witnessed == [catalog |-> builder[5], rewards |-> builder[2]]
Doomed ==
  \/ builder[1] # builder[5]
  \/ Len(builder) = 5 /\ builder[2] < source.rewards
  \/ Len(builder) = 6 /\ builder[2] < builder[6]

\* The index is of one moment: its rows are those of its fingerprint.
IndexInv ==
  index # NoIndex =>
    /\ index.data = index.manifest
    /\ AtMost(index.manifest, source)
    /\ reader.at # "idle" => KnownOrPassed(index.manifest)

\* The reads of a build follow the source, from the index that is there on.
BuilderInv ==
  builder # NoIndex =>
    /\ builder \in Seq(0 .. MaxEdits) /\ Len(builder) \in 0 .. 6
    /\ \A i \in {1, 3, 5} : i <= Len(builder) =>
         /\ builder[i] <= source.catalog
         /\ index # NoIndex => index.manifest.catalog <= builder[i]
    /\ \A i \in {2, 4, 6} : i <= Len(builder) =>
         /\ builder[i] <= source.rewards
         /\ index # NoIndex => index.manifest.rewards <= builder[i]
    /\ \A i \in 1 .. 4 : i + 2 <= Len(builder) => builder[i] <= builder[i + 2]
    /\ reader.at # "idle" /\ Len(builder) >= 5 => Doomed \/ KnownOrPassed(Witnessed)

\* A query has seen the source of now and none of later.
CurrentInv ==
  reader.at # "idle" =>
    /\ index # NoIndex
    /\ source \in current
    /\ \A s \in current : AtMost(s, source)

\* What the checks of a query establish, step by step.
ReaderInv ==
  /\ reader.at = "checking" =>
       /\ reader.manifest \in Source
       /\ AtMost(reader.manifest, index.manifest)
       /\ reader.walked # <<>> /\ reader.walked[1] = reader.manifest.catalog =>
            reader.manifest \in current \/ reader.manifest.rewards < source.rewards
  /\ reader.at = "query" => index.manifest \in current
  /\ reader.at \in {"rechecking", "answered"} => reader.rows \in current

QueryInv == IndexTypeOK /\ IndexInv /\ BuilderInv /\ CurrentInv /\ ReaderInv

-----------------------------------------------------------------------------
USE EditBound, NoIndexIsNone DEF indexVars, Source, ReaderPlaces, IdleReader, AtMost

\* The first, third and fifth reads of a walk are of the catalog proper, the
\* others of the rewards.
LEMMA PartsInTurn ==
  /\ \A i \in {1, 3, 5} : PartOf(i) = "catalog"
  /\ \A i \in {2, 4, 6} : PartOf(i) = "rewards"
<1>1. \A i \in {1, 3, 5} : (i - 1) % 2 = 0
  OBVIOUS
<1>2. \A i \in {2, 4, 6} : (i - 1) % 2 = 1
  OBVIOUS
<1>3. QED
  BY <1>1, <1>2 DEF PartOf, Parts

\* Sources that are each at most the other are one.
LEMMA SameSource ==
  ASSUME NEW s \in Source, NEW t \in Source, AtMost(s, t), AtMost(t, s)
  PROVE  s = t
<1>1. s.catalog = t.catalog /\ s.rewards = t.rewards
  OBVIOUS
<1>2. s = [catalog |-> s.catalog, rewards |-> s.rewards]
  OBVIOUS
<1>3. t = [catalog |-> t.catalog, rewards |-> t.rewards]
  OBVIOUS
<1>4. QED
  BY <1>1, <1>2, <1>3

\* What a read adds to the build under way.
LEMMA ReadOfBuild ==
  ASSUME IndexTypeOK, BuilderInv, BuildReads
  PROVE  \E n \in 0 .. 5 :
           /\ builder # NoIndex /\ Len(builder) = n
           /\ builder' \in Seq(0 .. MaxEdits) /\ Len(builder') = n + 1
           /\ \A i \in 1 .. n : builder'[i] = builder[i]
           /\ n + 1 \in {1, 3, 5} => builder'[n + 1] = source.catalog
           /\ n + 1 \in {2, 4, 6} => builder'[n + 1] = source.rewards
<1>1. builder # NoIndex /\ builder \in Seq(0 .. MaxEdits) /\ Len(builder) \in 0 .. 5
  BY DEF BuildReads, BuilderInv
<1>2. PICK n \in 0 .. 5 : Len(builder) = n
  BY <1>1
<1>3. CASE n + 1 \in {1, 3, 5}
  <2>1. source[PartOf(n + 1)] = source.catalog
    BY <1>3, PartsInTurn
  <2>2. builder' = Append(builder, source.catalog) /\ source.catalog \in 0 .. MaxEdits
    BY <1>2, <2>1 DEF BuildReads, IndexTypeOK
  <2>3. QED
    BY <1>1, <1>2, <1>3, <2>2
<1>4. CASE n + 1 \in {2, 4, 6}
  <2>1. source[PartOf(n + 1)] = source.rewards
    BY <1>4, PartsInTurn
  <2>2. builder' = Append(builder, source.rewards) /\ source.rewards \in 0 .. MaxEdits
    BY <1>2, <2>1 DEF BuildReads, IndexTypeOK
  <2>3. QED
    BY <1>1, <1>2, <1>4, <2>2
<1>5. n + 1 \in {1, 3, 5} \/ n + 1 \in {2, 4, 6}
  OBVIOUS
<1>6. QED
  BY <1>3, <1>4, <1>5

\* A build that is let through is of one moment, and not of one before the
\* index it replaces.
LEMMA BuildOfOneMoment ==
  ASSUME IndexTypeOK, BuilderInv, ReplaceIndex
  PROVE  /\ index'.manifest = Witnessed /\ index'.data = Witnessed
         /\ Witnessed \in Source /\ AtMost(Witnessed, source)
         /\ index # NoIndex => AtMost(index.manifest, Witnessed)
         /\ reader.at # "idle" => KnownOrPassed(Witnessed)
<1>1. /\ builder \in Seq(0 .. MaxEdits) /\ Len(builder) = 6
      /\ builder[1] = builder[5] /\ builder[2] = builder[6]
  BY DEF ReplaceIndex, BuilderInv, UnchangedDuringBuild, WalkAt
<1>2. \A i \in 1 .. 6 : builder[i] \in 0 .. MaxEdits
  BY <1>1 DEF ReplaceIndex, IndexTypeOK
<1>3. \A i \in 1 .. 4 : builder[i] <= builder[i + 2]
  BY <1>1 DEF ReplaceIndex, BuilderInv
<1>4. builder[3] = builder[1] /\ builder[4] = builder[2]
  <2>1. builder[1] <= builder[3] /\ builder[3] <= builder[5]
    BY <1>3
  <2>2. builder[2] <= builder[4] /\ builder[4] <= builder[6]
    BY <1>3
  <2>3. QED
    BY <2>1, <2>2, <1>1, <1>2
<1>5. index'.manifest = Witnessed /\ index'.data = Witnessed
  BY <1>1, <1>4 DEF ReplaceIndex, WalkAt, Witnessed
<1>6. Witnessed \in Source
  BY <1>2 DEF Witnessed
<1>7. /\ builder[5] <= source.catalog /\ builder[2] <= source.rewards
      /\ index # NoIndex => index.manifest.catalog <= builder[5]
                            /\ index.manifest.rewards <= builder[2]
  BY <1>1 DEF ReplaceIndex, BuilderInv
<1>8. reader.at # "idle" => KnownOrPassed(Witnessed)
  BY <1>1, <1>2 DEF ReplaceIndex, BuilderInv, Doomed
<1>9. QED
  BY <1>5, <1>6, <1>7, <1>8 DEF Witnessed

\* Every step keeps the types.
LEMMA IndexTypeOKStep ==
  ASSUME IndexTypeOK, IndexInv, BuilderInv, CurrentInv, ReaderInv,
         IndexNext
  PROVE  IndexTypeOK'
<1>1. ASSUME NEW part \in {"catalog", "rewards"}, EditSource(part)
      PROVE  IndexTypeOK'
  BY <1>1 DEF EditSource, IndexTypeOK
<1>2. CASE BeginBuild
  BY <1>2 DEF BeginBuild, IndexTypeOK
<1>3. CASE BuildReads
  <2>1. PICK n \in 0 .. 5 :
          /\ builder # NoIndex /\ Len(builder) = n
          /\ builder' \in Seq(0 .. MaxEdits) /\ Len(builder') = n + 1
          /\ \A i \in 1 .. n : builder'[i] = builder[i]
          /\ n + 1 \in {1, 3, 5} => builder'[n + 1] = source.catalog
          /\ n + 1 \in {2, 4, 6} => builder'[n + 1] = source.rewards
    BY <1>3, ReadOfBuild
  <2>2. n + 1 <= 6 /\ \A i \in 1 .. n + 1 : builder'[i] \in 0 .. MaxEdits
    BY <2>1
  <2>3. QED
    BY <1>3, <2>1, <2>2 DEF BuildReads, IndexTypeOK
<1>4. CASE ReplaceIndex
  <2>1. index' \in [data : Source, manifest : Source]
    BY <1>4, BuildOfOneMoment DEF ReplaceIndex, IndexTypeOK
  <2>2. QED
    BY <1>4, <2>1 DEF ReplaceIndex, IndexTypeOK
<1>5. CASE BuildEnds
  BY <1>5 DEF BuildEnds, IndexTypeOK
<1>6. CASE BeginQuery
  BY <1>6 DEF BeginQuery, IndexTypeOK
<1>7. CASE WalkSource
  <2>1. reader'.walked \in {<<>>} \cup {<<n>> : n \in 0 .. MaxEdits}
    BY <1>7 DEF WalkSource, IndexTypeOK
  <2>2. reader'.at \in ReaderPlaces /\ reader'.manifest \in Source \cup {NoIndex}
    BY <1>7 DEF WalkSource, IndexTypeOK
  <2>3. QED
    BY <1>7, <2>1, <2>2 DEF WalkSource, IndexTypeOK
<1>8. CASE ReadRows
  BY <1>8 DEF ReadRows, IndexTypeOK, CurrentInv
<1>9. CASE RereadFingerprint
  BY <1>9 DEF RereadFingerprint, IndexTypeOK, CurrentInv
<1>10. CASE EndQuery
  BY <1>10 DEF EndQuery, IndexTypeOK
<1>11. QED
  BY <1>1, <1>2, <1>3, <1>4, <1>5, <1>6, <1>7, <1>8, <1>9, <1>10 DEF IndexNext

\* The index stays of one moment, and known to a query or passed by it.
LEMMA IndexInvStep ==
  ASSUME IndexTypeOK, IndexInv, BuilderInv, CurrentInv, ReaderInv,
         IndexNext
  PROVE  IndexInv'
<1>1. ASSUME NEW part \in {"catalog", "rewards"}, EditSource(part)
      PROVE  IndexInv'
  BY <1>1 DEF EditSource, IndexTypeOK, IndexInv, CurrentInv, KnownOrPassed
<1>2. CASE BeginBuild
  BY <1>2 DEF BeginBuild, IndexTypeOK, IndexInv, CurrentInv, KnownOrPassed
<1>3. CASE BuildReads
  BY <1>3 DEF BuildReads, IndexTypeOK, IndexInv, CurrentInv, KnownOrPassed
<1>4. CASE ReplaceIndex
  <2>1. UNCHANGED <<source, reader, current>>
    BY <1>4 DEF ReplaceIndex, IndexTypeOK, IndexInv, CurrentInv, KnownOrPassed
  <2>2. KnownOrPassed(index'.manifest) <=> KnownOrPassed(Witnessed)
    BY <1>4, BuildOfOneMoment DEF IndexTypeOK, IndexInv, CurrentInv, KnownOrPassed
  <2>3. QED
    BY <1>4, <2>1, <2>2, BuildOfOneMoment DEF IndexTypeOK, IndexInv, CurrentInv, KnownOrPassed
<1>5. CASE BuildEnds
  BY <1>5 DEF BuildEnds, IndexTypeOK, IndexInv, CurrentInv, KnownOrPassed
<1>6. CASE BeginQuery
  BY <1>6 DEF BeginQuery, IndexTypeOK, IndexInv, CurrentInv, KnownOrPassed
<1>7. CASE WalkSource
  BY <1>7 DEF WalkSource, IndexTypeOK, IndexInv, CurrentInv, KnownOrPassed
<1>8. CASE ReadRows
  BY <1>8 DEF ReadRows, IndexTypeOK, IndexInv, CurrentInv, KnownOrPassed
<1>9. CASE RereadFingerprint
  BY <1>9 DEF RereadFingerprint, IndexTypeOK, IndexInv, CurrentInv, KnownOrPassed
<1>10. CASE EndQuery
  BY <1>10 DEF EndQuery, IndexTypeOK, IndexInv, CurrentInv, KnownOrPassed
<1>11. QED
  BY <1>1, <1>2, <1>3, <1>4, <1>5, <1>6, <1>7, <1>8, <1>9, <1>10 DEF IndexNext

\* A build reads on from the index, and what it will say of itself is known to a
\* query or passed by it, unless the build will be refused.
LEMMA BuilderInvStep ==
  ASSUME IndexTypeOK, IndexInv, BuilderInv, CurrentInv, ReaderInv,
         IndexNext
  PROVE  BuilderInv'
<1>1. ASSUME NEW part \in {"catalog", "rewards"}, EditSource(part)
      PROVE  BuilderInv'
  <2>1. UNCHANGED <<index, builder, reader>>
    BY <1>1 DEF EditSource, IndexTypeOK, IndexInv, BuilderInv, CurrentInv, KnownOrPassed, Witnessed, Doomed
  <2>2. source'.catalog \in Nat /\ source'.rewards \in Nat /\ AtMost(source, source')
    BY <1>1 DEF EditSource, IndexTypeOK, IndexInv, BuilderInv, CurrentInv, KnownOrPassed, Witnessed, Doomed
  <2>3. CASE builder # NoIndex
    <3>1. /\ \A i \in {1, 3, 5} : i <= Len(builder) => builder[i] <= source'.catalog
          /\ \A i \in {2, 4, 6} : i <= Len(builder) => builder[i] <= source'.rewards
      <4>1. PICK n \in 0 .. 6 : Len(builder) = n
        BY <2>3 DEF BuilderInv
      <4>2. \A i \in 1 .. n : builder[i] \in 0 .. MaxEdits
        BY <2>3, <4>1 DEF IndexTypeOK
      <4>3. /\ \A i \in {1, 3, 5} : i <= n => builder[i] <= source.catalog
            /\ \A i \in {2, 4, 6} : i <= n => builder[i] <= source.rewards
        BY <2>3, <4>1 DEF BuilderInv
      <4>4. source.catalog \in Nat /\ source.rewards \in Nat
        BY DEF IndexTypeOK
      <4>5. QED
        BY <2>2, <4>1, <4>2, <4>3, <4>4
    <3>2. ASSUME reader.at # "idle", Len(builder) >= 5, ~Doomed'
          PROVE  KnownOrPassed(Witnessed)'
      <4>1. ~Doomed
        BY <2>1, <2>2, <2>3, <3>2 DEF IndexTypeOK, IndexInv, BuilderInv, CurrentInv, KnownOrPassed, Witnessed, Doomed
      <4>2. KnownOrPassed(Witnessed)
        BY <2>3, <3>2, <4>1 DEF IndexTypeOK, IndexInv, BuilderInv, CurrentInv, KnownOrPassed, Witnessed, Doomed
      <4>3. AtMost(Witnessed, source')
        BY <2>3, <3>1, <3>2 DEF IndexTypeOK, IndexInv, BuilderInv, CurrentInv, KnownOrPassed, Witnessed, Doomed
      <4>4. current' = current \cup {source'}
        BY <1>1, <3>2 DEF EditSource, IndexTypeOK, IndexInv, BuilderInv, CurrentInv, KnownOrPassed, Witnessed, Doomed
      <4>5. QED
        BY <2>1, <4>2, <4>3, <4>4 DEF IndexTypeOK, IndexInv, BuilderInv, CurrentInv, KnownOrPassed, Witnessed, Doomed
    <3>3. QED
      BY <2>1, <2>3, <3>1, <3>2 DEF IndexTypeOK, IndexInv, BuilderInv, CurrentInv, KnownOrPassed, Witnessed, Doomed
  <2>4. QED
    BY <2>1, <2>3 DEF IndexTypeOK, IndexInv, BuilderInv, CurrentInv, KnownOrPassed, Witnessed, Doomed
<1>2. CASE BeginBuild
  BY <1>2 DEF BeginBuild, IndexTypeOK, IndexInv, BuilderInv, CurrentInv, KnownOrPassed, Witnessed, Doomed
<1>3. CASE BuildReads
  <2>1. UNCHANGED <<source, index, reader, current>>
    BY <1>3 DEF BuildReads, IndexTypeOK, IndexInv, BuilderInv, CurrentInv, KnownOrPassed, Witnessed, Doomed
  <2>2. PICK n \in 0 .. 5 :
          /\ builder # NoIndex /\ Len(builder) = n
          /\ builder' \in Seq(0 .. MaxEdits) /\ Len(builder') = n + 1
          /\ \A i \in 1 .. n : builder'[i] = builder[i]
          /\ n + 1 \in {1, 3, 5} => builder'[n + 1] = source.catalog
          /\ n + 1 \in {2, 4, 6} => builder'[n + 1] = source.rewards
    BY <1>3, ReadOfBuild
  <2>3. /\ \A i \in {1, 3, 5} : i <= n + 1 =>
             /\ builder'[i] <= source.catalog
             /\ index # NoIndex => index.manifest.catalog <= builder'[i]
        /\ \A i \in {2, 4, 6} : i <= n + 1 =>
             /\ builder'[i] <= source.rewards
             /\ index # NoIndex => index.manifest.rewards <= builder'[i]
    <3>1. index # NoIndex => /\ index.manifest.catalog <= source.catalog
                             /\ index.manifest.rewards <= source.rewards
      BY DEF IndexInv
    <3>2. ASSUME NEW i \in {1, 3, 5}, i <= n + 1
          PROVE  /\ builder'[i] <= source.catalog
                 /\ index # NoIndex => index.manifest.catalog <= builder'[i]
      <4>1. CASE i <= n
        <5>1. builder'[i] = builder[i]
          BY <2>2, <4>1
        <5>2. QED
          BY <2>2, <4>1, <5>1 DEF BuilderInv
      <4>2. CASE i = n + 1
        BY <2>2, <3>1, <4>2 DEF IndexTypeOK
      <4>3. QED
        BY <3>2, <4>1, <4>2
    <3>3. ASSUME NEW i \in {2, 4, 6}, i <= n + 1
          PROVE  /\ builder'[i] <= source.rewards
                 /\ index # NoIndex => index.manifest.rewards <= builder'[i]
      <4>1. CASE i <= n
        <5>1. builder'[i] = builder[i]
          BY <2>2, <4>1
        <5>2. QED
          BY <2>2, <4>1, <5>1 DEF BuilderInv
      <4>2. CASE i = n + 1
        BY <2>2, <3>1, <4>2 DEF IndexTypeOK
      <4>3. QED
        BY <3>3, <4>1, <4>2
    <3>4. QED
      BY <3>2, <3>3
  <2>4. \A i \in 1 .. 4 : i + 2 <= n + 1 => builder'[i] <= builder'[i + 2]
    <3>1. ASSUME NEW i \in 1 .. 4, i + 2 <= n
          PROVE  builder'[i] <= builder'[i + 2]
      <4>1. builder'[i] = builder[i] /\ builder'[i + 2] = builder[i + 2]
        BY <2>2, <3>1
      <4>2. QED
        BY <2>2, <3>1, <4>1 DEF BuilderInv
    <3>2. ASSUME NEW i \in 1 .. 4, i + 2 = n + 1
          PROVE  builder'[i] <= builder'[i + 2]
      <4>1. builder'[i] = builder[i]
        BY <2>2, <3>2
      <4>2. CASE i \in {1, 3}
        BY <2>2, <3>2, <4>1, <4>2 DEF BuilderInv
      <4>3. CASE i \in {2, 4}
        BY <2>2, <3>2, <4>1, <4>3 DEF BuilderInv
      <4>4. QED
        BY <4>2, <4>3
    <3>3. QED
      BY <3>1, <3>2
  <2>5. ASSUME reader.at # "idle", n + 1 >= 5
        PROVE  Doomed' \/ KnownOrPassed(Witnessed)'
    <3>1. CASE n = 4
      <4>1. builder'[5] = source.catalog /\ builder'[2] = builder[2] /\ builder[2] <= source.rewards
        BY <2>2, <3>1 DEF BuilderInv
      <4>2. CASE builder[2] = source.rewards
        <5>1. Witnessed' = source
          BY <4>1, <4>2 DEF IndexTypeOK, Witnessed
        <5>2. QED
          BY <2>1, <2>5, <5>1 DEF CurrentInv, KnownOrPassed
      <4>3. CASE builder[2] < source.rewards
        BY <2>1, <2>2, <3>1, <4>1, <4>3 DEF Doomed
      <4>4. builder[2] \in 0 .. MaxEdits
        BY <2>2, <3>1 DEF IndexTypeOK
      <4>5. QED
        BY <4>1, <4>2, <4>3, <4>4 DEF IndexTypeOK
    <3>2. CASE n = 5
      <4>1. /\ builder'[6] = source.rewards
            /\ builder'[1] = builder[1] /\ builder'[2] = builder[2] /\ builder'[5] = builder[5]
        BY <2>2, <3>2
      <4>2. Doomed \/ KnownOrPassed(Witnessed)
        BY <2>2, <2>5, <3>2 DEF BuilderInv
      <4>3. CASE Doomed
        BY <2>2, <3>2, <4>1, <4>3 DEF Doomed
      <4>4. CASE KnownOrPassed(Witnessed)
        BY <2>1, <4>1, <4>4 DEF KnownOrPassed, Witnessed
      <4>5. QED
        BY <4>2, <4>3, <4>4
    <3>3. QED
      BY <2>5, <3>1, <3>2
  <2>6. n + 1 \in 0 .. 6
    OBVIOUS
  <2>7. QED
    BY <2>1, <2>2, <2>3, <2>4, <2>5, <2>6 DEF BuilderInv
<1>4. CASE ReplaceIndex
  BY <1>4 DEF ReplaceIndex, IndexTypeOK, IndexInv, BuilderInv, CurrentInv, KnownOrPassed, Witnessed, Doomed
<1>5. CASE BuildEnds
  BY <1>5 DEF BuildEnds, IndexTypeOK, IndexInv, BuilderInv, CurrentInv, KnownOrPassed, Witnessed, Doomed
<1>6. CASE BeginQuery
  <2>1. UNCHANGED <<source, index, builder>> /\ current' = {source}
    BY <1>6 DEF BeginQuery, IndexTypeOK, IndexInv, BuilderInv, CurrentInv, KnownOrPassed, Witnessed, Doomed
  <2>2. builder # NoIndex /\ Len(builder) >= 5 => AtMost(Witnessed, source)
    BY DEF IndexTypeOK, IndexInv, BuilderInv, CurrentInv, KnownOrPassed, Witnessed, Doomed
  <2>3. builder # NoIndex /\ Len(builder) >= 5 => KnownOrPassed(Witnessed)'
    BY <2>1, <2>2 DEF IndexTypeOK, IndexInv, BuilderInv, CurrentInv, KnownOrPassed, Witnessed, Doomed
  <2>4. QED
    BY <2>1, <2>3 DEF IndexTypeOK, IndexInv, BuilderInv, CurrentInv, KnownOrPassed, Witnessed, Doomed
<1>7. CASE WalkSource
  BY <1>7 DEF WalkSource, IndexTypeOK, IndexInv, BuilderInv, CurrentInv, KnownOrPassed, Witnessed, Doomed
<1>8. CASE ReadRows
  BY <1>8 DEF ReadRows, IndexTypeOK, IndexInv, BuilderInv, CurrentInv, KnownOrPassed, Witnessed, Doomed
<1>9. CASE RereadFingerprint
  BY <1>9 DEF RereadFingerprint, IndexTypeOK, IndexInv, BuilderInv, CurrentInv, KnownOrPassed, Witnessed, Doomed
<1>10. CASE EndQuery
  BY <1>10 DEF EndQuery, IndexTypeOK, IndexInv, BuilderInv, CurrentInv, KnownOrPassed, Witnessed, Doomed
<1>11. QED
  BY <1>1, <1>2, <1>3, <1>4, <1>5, <1>6, <1>7, <1>8, <1>9, <1>10 DEF IndexNext

\* A query sees every state of the source while it runs.
LEMMA CurrentInvStep ==
  ASSUME IndexTypeOK, IndexInv, BuilderInv, CurrentInv, ReaderInv,
         IndexNext
  PROVE  CurrentInv'
<1>1. ASSUME NEW part \in {"catalog", "rewards"}, EditSource(part)
      PROVE  CurrentInv'
  BY <1>1 DEF EditSource, IndexTypeOK, CurrentInv
<1>2. CASE BeginBuild
  BY <1>2 DEF BeginBuild, IndexTypeOK, CurrentInv
<1>3. CASE BuildReads
  BY <1>3 DEF BuildReads, IndexTypeOK, CurrentInv
<1>4. CASE ReplaceIndex
  <2>1. index' \in [data : Source, manifest : Source]
    BY <1>4, BuildOfOneMoment DEF ReplaceIndex
  <2>2. Source \subseteq [catalog : Nat, rewards : Nat]
    OBVIOUS
  <2>3. index' # NoIndex
    BY <2>1, <2>2
  <2>4. QED
    BY <1>4, <2>3 DEF ReplaceIndex, CurrentInv
<1>5. CASE BuildEnds
  BY <1>5 DEF BuildEnds, IndexTypeOK, CurrentInv
<1>6. CASE BeginQuery
  BY <1>6 DEF BeginQuery, IndexTypeOK, CurrentInv
<1>7. CASE WalkSource
  BY <1>7 DEF WalkSource, IndexTypeOK, CurrentInv
<1>8. CASE ReadRows
  BY <1>8 DEF ReadRows, IndexTypeOK, CurrentInv
<1>9. CASE RereadFingerprint
  BY <1>9 DEF RereadFingerprint, IndexTypeOK, CurrentInv
<1>10. CASE EndQuery
  BY <1>10 DEF EndQuery, IndexTypeOK, CurrentInv
<1>11. QED
  BY <1>1, <1>2, <1>3, <1>4, <1>5, <1>6, <1>7, <1>8, <1>9, <1>10 DEF IndexNext

\* The first check of a query leaves it with an index it has seen the source of,
\* and so do the builds that end before it reads its rows.
LEMMA ReaderInvStep ==
  ASSUME IndexTypeOK, IndexInv, BuilderInv, CurrentInv, ReaderInv,
         IndexNext
  PROVE  ReaderInv'
<1>1. ASSUME NEW part \in {"catalog", "rewards"}, EditSource(part)
      PROVE  ReaderInv'
  BY <1>1 DEF EditSource, IndexTypeOK, IndexInv, CurrentInv, ReaderInv, KnownOrPassed
<1>2. CASE BeginBuild
  BY <1>2 DEF BeginBuild, IndexTypeOK, IndexInv, CurrentInv, ReaderInv, KnownOrPassed
<1>3. CASE BuildReads
  BY <1>3 DEF BuildReads, IndexTypeOK, IndexInv, CurrentInv, ReaderInv, KnownOrPassed
<1>4. CASE ReplaceIndex
  <2>1. UNCHANGED <<source, reader, current>>
    BY <1>4 DEF ReplaceIndex, IndexTypeOK, IndexInv, CurrentInv, ReaderInv, KnownOrPassed
  <2>2. reader.at = "checking" => AtMost(reader.manifest, index'.manifest)
    BY <1>4, BuildOfOneMoment DEF IndexTypeOK, IndexInv, CurrentInv, ReaderInv, KnownOrPassed
  <2>3. ASSUME reader.at = "query"
        PROVE  index'.manifest \in current
    <3>1. index # NoIndex /\ index.manifest \in Source /\ index.manifest \in current
      BY <2>3 DEF IndexTypeOK, IndexInv, CurrentInv, ReaderInv, KnownOrPassed
    <3>2. CASE Witnessed \in current
      BY <1>4, <3>2, BuildOfOneMoment DEF IndexTypeOK, IndexInv, CurrentInv, ReaderInv, KnownOrPassed
    <3>3. CASE \A s \in current : AtMost(Witnessed, s)
      <4>1. Witnessed = index.manifest
        BY <1>4, <3>1, <3>3, SameSource, BuildOfOneMoment DEF IndexTypeOK, IndexInv, CurrentInv, ReaderInv, KnownOrPassed
      <4>2. QED
        BY <1>4, <3>1, <4>1, BuildOfOneMoment DEF IndexTypeOK, IndexInv, CurrentInv, ReaderInv, KnownOrPassed
    <3>4. QED
      BY <1>4, <2>3, <3>2, <3>3, BuildOfOneMoment DEF IndexTypeOK, IndexInv, CurrentInv, ReaderInv, KnownOrPassed
  <2>4. QED
    BY <2>1, <2>2, <2>3 DEF IndexTypeOK, IndexInv, CurrentInv, ReaderInv, KnownOrPassed
<1>5. CASE BuildEnds
  BY <1>5 DEF BuildEnds, IndexTypeOK, IndexInv, CurrentInv, ReaderInv, KnownOrPassed
<1>6. CASE BeginQuery
  BY <1>6 DEF BeginQuery, IndexTypeOK, IndexInv, CurrentInv, ReaderInv, KnownOrPassed
<1>7. CASE WalkSource
  <2>1. UNCHANGED <<source, index, builder, current>>
    BY <1>7 DEF WalkSource, IndexTypeOK, IndexInv, CurrentInv, ReaderInv, KnownOrPassed
  <2>2. CASE reader.at = "rechecking"
    BY <1>7, <2>1, <2>2 DEF WalkSource, IndexTypeOK, IndexInv, CurrentInv, ReaderInv, KnownOrPassed
  <2>3. CASE reader.at = "checking" /\ reader.walked = <<>>
    <3>1. reader'.walked = <<source.catalog>> /\ reader'.at = "checking"
          /\ reader'.manifest = reader.manifest
      BY <1>7, <2>3 DEF WalkSource, IndexTypeOK, IndexInv, CurrentInv, ReaderInv, KnownOrPassed
    <3>2. reader.manifest \in Source /\ AtMost(reader.manifest, source)
      BY <2>3 DEF IndexTypeOK, IndexInv, CurrentInv, ReaderInv, KnownOrPassed
    <3>3. ASSUME reader.manifest.catalog = source.catalog,
                 ~(reader.manifest.rewards < source.rewards)
          PROVE  reader.manifest \in current
      <4>1. reader.manifest = source
        BY <3>2, <3>3, SameSource DEF IndexTypeOK, IndexInv, CurrentInv, ReaderInv, KnownOrPassed
      <4>2. QED
        BY <2>3, <4>1 DEF IndexTypeOK, IndexInv, CurrentInv, ReaderInv, KnownOrPassed
    <3>4. QED
      BY <2>1, <2>3, <3>1, <3>2, <3>3 DEF IndexTypeOK, IndexInv, CurrentInv, ReaderInv, KnownOrPassed
  <2>4. CASE reader.at = "checking" /\ reader.walked # <<>>
    <3>1. reader'.at = "query"
      BY <1>7, <2>4 DEF WalkSource, IndexTypeOK, IndexInv, CurrentInv, ReaderInv, KnownOrPassed
    <3>2. reader.manifest = [catalog |-> reader.walked[1], rewards |-> source.rewards]
      <4>1. PICK c \in 0 .. MaxEdits : reader.walked = <<c>>
        BY <2>4 DEF IndexTypeOK
      <4>2. WalkAt(Append(<<c>>, source.rewards), 1) = [catalog |-> c, rewards |-> source.rewards]
        BY DEF WalkAt
      <4>3. QED
        BY <1>7, <2>4, <4>1, <4>2 DEF WalkSource
    <3>3. reader.manifest \in current /\ reader.manifest \in Source
      BY <2>4, <3>2 DEF IndexTypeOK, IndexInv, CurrentInv, ReaderInv, KnownOrPassed
    <3>4. index # NoIndex /\ index.manifest \in Source /\ KnownOrPassed(index.manifest)
          /\ AtMost(reader.manifest, index.manifest)
      BY <2>4 DEF IndexTypeOK, IndexInv, CurrentInv, ReaderInv, KnownOrPassed
    <3>5. index.manifest \in current
      BY <3>3, <3>4, SameSource DEF IndexTypeOK, IndexInv, CurrentInv, ReaderInv, KnownOrPassed
    <3>6. QED
      BY <2>1, <3>1, <3>5 DEF IndexTypeOK, IndexInv, CurrentInv, ReaderInv, KnownOrPassed
  <2>5. QED
    BY <1>7, <2>2, <2>3, <2>4 DEF WalkSource, IndexTypeOK, IndexInv, CurrentInv, ReaderInv, KnownOrPassed
<1>8. CASE ReadRows
  BY <1>8 DEF ReadRows, IndexTypeOK, IndexInv, CurrentInv, ReaderInv, KnownOrPassed
<1>9. CASE RereadFingerprint
  BY <1>9 DEF RereadFingerprint, IndexTypeOK, IndexInv, CurrentInv, ReaderInv, KnownOrPassed
<1>10. CASE EndQuery
  BY <1>10 DEF EndQuery, IndexTypeOK, IndexInv, CurrentInv, ReaderInv, KnownOrPassed
<1>11. QED
  BY <1>1, <1>2, <1>3, <1>4, <1>5, <1>6, <1>7, <1>8, <1>9, <1>10 DEF IndexNext

\* The invariant of a query holds of every behaviour of the index.
THEOREM QueryInductive == IndexSpec => []QueryInv
<1>1. IndexInit => QueryInv
  BY DEF IndexInit, QueryInv, IndexTypeOK, IndexInv, BuilderInv, CurrentInv, ReaderInv
<1>2. QueryInv /\ [IndexNext]_indexVars => QueryInv'
  <2>1. ASSUME QueryInv, IndexNext
        PROVE  QueryInv'
    BY <2>1, IndexTypeOKStep, IndexInvStep, BuilderInvStep, CurrentInvStep, ReaderInvStep
       DEF QueryInv
  <2>2. ASSUME QueryInv, UNCHANGED indexVars
        PROVE  QueryInv'
    BY <2>2 DEF QueryInv, IndexTypeOK, IndexInv, BuilderInv, CurrentInv, ReaderInv,
       KnownOrPassed, Witnessed, Doomed
  <2>3. QED
    BY <2>1, <2>2
<1>3. QED
  BY <1>1, <1>2, PTL DEF IndexSpec

\* Source, index, the build under way and the reader keep their types.
THEOREM IndexTyped == IndexSpec => []IndexTypeOK
<1>1. QueryInv => IndexTypeOK
  BY DEF QueryInv
<1>2. QED
  BY <1>1, QueryInductive, PTL

\* An answer is the catalog as it was, whole, at some moment of the query, for
\* any number of edits and builds between its reads.
THEOREM QueriesCurrent == IndexSpec => []QueryCurrent
<1>1. QueryInv => QueryCurrent
  BY DEF QueryInv, ReaderInv, QueryCurrent
<1>2. QED
  BY <1>1, QueryInductive, PTL

-----------------------------------------------------------------------------
(* Paged discovery *)

\* The request is past the cursor, its search goes on in it.
Answering(t) == request[t] # NoRequest /\ request[t].at = "answering"

\* What the histories and the requests hold.
Served == [search : 1 .. MaxSearches, ids : Lists, from : Nat,
           to : Nat \cup {Len(list) : list \in Lists}]
DiscoveryTypes ==
  /\ cursors \in Seq(Cursor) /\ pages \in Seq(Served)
  /\ request \in [Threads -> Work \cup {NoRequest}]
  /\ catalog \in [rev : 0 .. MaxReleases, rules : Catalogs]
  /\ owned \in [rev : 0 .. MaxReleases, rules : Holdings]
  /\ tokens \in 0 .. MaxTokens /\ searches \in 0 .. MaxSearches
  /\ \A t \in Threads : Answering(t) => request[t].search \in 1 .. searches
  /\ \A i \in DOMAIN cursors : cursors[i].search \in 1 .. searches
  /\ \A i \in DOMAIN pages : pages[i].search \in 1 .. searches

\* A search goes on in one place: a cursor, or a request that answers.
OnePlace ==
  /\ \A i, j \in DOMAIN cursors : i # j => cursors[i].search # cursors[j].search
  /\ \A t, u \in Threads : t # u /\ Answering(t) /\ Answering(u) =>
       request[t].search # request[u].search
  /\ \A t \in Threads, i \in DOMAIN cursors : Answering(t) => request[t].search # cursors[i].search

\* It goes on with the list of the pages served, after them.
GoesOn(offset, ids, page) == page.ids = ids /\ page.to \in Nat /\ page.to <= offset
PlaceFits ==
  /\ \A i \in DOMAIN cursors, k \in DOMAIN pages :
       cursors[i].search = pages[k].search => GoesOn(cursors[i].offset, cursors[i].ids, pages[k])
  /\ \A t \in Threads, k \in DOMAIN pages :
       Answering(t) /\ request[t].search = pages[k].search =>
         GoesOn(request[t].offset, request[t].ids, pages[k])

DiscoveryInv == DiscoveryTypes /\ OnePlace /\ PlaceFits /\ PagesContinue

USE DiscoveryLimits

\* The sequence without its i-th element.
LEMMA Removed ==
  ASSUME NEW S, NEW s \in Seq(S), NEW i \in DOMAIN s
  PROVE  /\ RemoveAt(s, i) \in Seq(S) /\ Len(RemoveAt(s, i)) = Len(s) - 1
         /\ \A j \in DOMAIN RemoveAt(s, i) : RemoveAt(s, i)[j] = s[IF j < i THEN j ELSE j + 1]
<1>1. i \in 1 .. Len(s)
  OBVIOUS
<1>2. SubSeq(s, 1, i - 1) \in Seq(S) /\ Len(SubSeq(s, 1, i - 1)) = i - 1
      /\ \A j \in 1 .. i - 1 : SubSeq(s, 1, i - 1)[j] = s[j]
  BY <1>1
<1>3. SubSeq(s, i + 1, Len(s)) \in Seq(S) /\ Len(SubSeq(s, i + 1, Len(s))) = Len(s) - i
      /\ \A j \in 1 .. Len(s) - i : SubSeq(s, i + 1, Len(s))[j] = s[i + j]
  BY <1>1
<1>4. QED
  <2> DEFINE a == SubSeq(s, 1, i - 1)
             b == SubSeq(s, i + 1, Len(s))
  <2>1. RemoveAt(s, i) = a \o b
    BY DEF RemoveAt
  <2>2. /\ a \in Seq(S) /\ Len(a) = i - 1 /\ \A j \in 1 .. i - 1 : a[j] = s[j]
        /\ b \in Seq(S) /\ Len(b) = Len(s) - i /\ \A j \in 1 .. Len(s) - i : b[j] = s[i + j]
    BY <1>2, <1>3
  <2> HIDE DEF a, b
  <2>3. /\ a \o b \in Seq(S) /\ Len(a \o b) = Len(s) - 1
        /\ \A j \in 1 .. Len(s) - 1 : (a \o b)[j] = IF j <= i - 1 THEN a[j] ELSE b[j - (i - 1)]
    <3>1. /\ a \o b \in Seq(S) /\ Len(a \o b) = Len(a) + Len(b)
          /\ \A j \in 1 .. Len(a) + Len(b) :
               (a \o b)[j] = IF j <= Len(a) THEN a[j] ELSE b[j - Len(a)]
      <4>1. a \in Seq(S) /\ b \in Seq(S)
        BY <2>2
      <4>2. QED
        BY ONLY <4>1, ConcatProperties
    <3>2. Len(a) + Len(b) = Len(s) - 1
      BY <1>1, <2>2
    <3>3. QED
      BY <2>2, <3>1, <3>2
  <2>4. \A j \in 1 .. Len(s) - 1 : (a \o b)[j] = s[IF j < i THEN j ELSE j + 1]
    <3> TAKE j \in 1 .. Len(s) - 1
    <3>1. CASE j < i
      BY <3>1, <1>1, <2>2, <2>3
    <3>2. CASE ~(j < i)
      <4>1. j - (i - 1) \in 1 .. Len(s) - i /\ i + (j - (i - 1)) = j + 1 /\ ~(j <= i - 1)
        BY <1>1, <3>2
      <4>2. QED
        BY <4>1, <3>2, <2>2, <2>3
    <3>3. QED
      BY <3>1, <3>2
  <2>5. QED
    <3>1. DOMAIN (a \o b) = 1 .. Len(s) - 1
      BY <2>3
    <3>2. QED
      BY <2>1, <2>3, <2>4, <3>1
\* Cursors that are left of those there were: each was one of them, and no two
\* were the same.
LeftOf(left) ==
  /\ left \in Seq(Cursor)
  /\ \E was \in [DOMAIN left -> DOMAIN cursors] :
       /\ \A i \in DOMAIN left : left[i] = cursors[was[i]]
       /\ \A i, j \in DOMAIN left : i # j => was[i] # was[j]

\* What holds of all cursors holds of those left.
LEMMA LeftKnown ==
  ASSUME DiscoveryInv, NEW left, LeftOf(left)
  PROVE  /\ left \in Seq(Cursor)
         /\ \A i \in DOMAIN left : left[i] \in Cursor /\ left[i].search \in 1 .. searches
         /\ \A i, j \in DOMAIN left : i # j => left[i].search # left[j].search
         /\ \A t \in Threads, i \in DOMAIN left : Answering(t) => request[t].search # left[i].search
         /\ \A i \in DOMAIN left, k \in DOMAIN pages :
              left[i].search = pages[k].search => GoesOn(left[i].offset, left[i].ids, pages[k])
<1>1. PICK was \in [DOMAIN left -> DOMAIN cursors] :
        /\ \A i \in DOMAIN left : left[i] = cursors[was[i]]
        /\ \A i, j \in DOMAIN left : i # j => was[i] # was[j]
  BY DEF LeftOf
<1>2. left \in Seq(Cursor) /\ \A i \in DOMAIN left : left[i] \in Cursor
  BY DEF LeftOf
<1>3. QED
  BY <1>1, <1>2 DEF DiscoveryInv, DiscoveryTypes, OnePlace, PlaceFits

\* Using a cursor up, and the oldest expiring, leave the others.
LEMMA CursorsLeave ==
  ASSUME DiscoveryInv
  PROVE  /\ LeftOf(cursors)
         /\ \A i \in DOMAIN cursors :
              /\ LeftOf(RemoveAt(cursors, i))
              /\ \A k \in DOMAIN RemoveAt(cursors, i) :
                   RemoveAt(cursors, i)[k].search # cursors[i].search
         /\ cursors # <<>> => LeftOf(Tail(cursors))
         /\ \A n \in 0 .. Len(cursors) : LeftOf(SubSeq(cursors, n + 1, Len(cursors)))
<1>1. cursors \in Seq(Cursor)
  BY DEF DiscoveryInv, DiscoveryTypes
<1>2. LeftOf(cursors)
  <2> DEFINE was == [i \in DOMAIN cursors |-> i]
  <2>1. was \in [DOMAIN cursors -> DOMAIN cursors]
    OBVIOUS
  <2>2. QED
    BY <1>1, <2>1 DEF LeftOf
<1>3. ASSUME NEW i \in DOMAIN cursors
      PROVE  /\ LeftOf(RemoveAt(cursors, i))
             /\ \A k \in DOMAIN RemoveAt(cursors, i) :
                  RemoveAt(cursors, i)[k].search # cursors[i].search
  <2> DEFINE left == RemoveAt(cursors, i)
             was == [k \in DOMAIN left |-> IF k < i THEN k ELSE k + 1]
  <2>1. /\ left \in Seq(Cursor) /\ Len(left) = Len(cursors) - 1
        /\ \A k \in DOMAIN left : left[k] = cursors[IF k < i THEN k ELSE k + 1]
    BY <1>1, Removed
  <2>2. i \in 1 .. Len(cursors) /\ DOMAIN left = 1 .. Len(cursors) - 1
    BY <1>1, <2>1
  <2> HIDE DEF left
  <2>3. was \in [DOMAIN left -> DOMAIN cursors]
    BY <1>1, <2>2
  <2>4. /\ \A k \in DOMAIN left : left[k] = cursors[was[k]] /\ was[k] # i
        /\ \A k, m \in DOMAIN left : k # m => was[k] # was[m]
    BY <2>1, <2>2
  <2> HIDE DEF was
  <2>5. LeftOf(left)
    BY <2>1, <2>3, <2>4 DEF LeftOf
  <2>6. \A k \in DOMAIN left : left[k].search # cursors[i].search
    BY <2>3, <2>4 DEF DiscoveryInv, OnePlace
  <2>7. QED
    BY <2>5, <2>6 DEF left
<1>4. ASSUME NEW n \in 0 .. Len(cursors)
      PROVE  LeftOf(SubSeq(cursors, n + 1, Len(cursors)))
  <2> DEFINE left == SubSeq(cursors, n + 1, Len(cursors))
             was == [k \in DOMAIN left |-> n + k]
  <2>1. /\ left \in Seq(Cursor) /\ Len(left) = Len(cursors) - n
        /\ \A k \in 1 .. Len(cursors) - n : left[k] = cursors[n + k]
    BY <1>1
  <2>2. DOMAIN left = 1 .. Len(cursors) - n
    BY <2>1
  <2> HIDE DEF left
  <2>3. was \in [DOMAIN left -> DOMAIN cursors]
    BY <1>1, <2>2
  <2>4. /\ \A k \in DOMAIN left : left[k] = cursors[was[k]]
        /\ \A k, m \in DOMAIN left : k # m => was[k] # was[m]
    BY <2>1, <2>2
  <2> HIDE DEF was
  <2>5. QED
    BY <2>1, <2>3, <2>4 DEF LeftOf, left
<1>5. ASSUME cursors # <<>>
      PROVE  LeftOf(Tail(cursors))
  <2>1. Tail(cursors) = SubSeq(cursors, 1 + 1, Len(cursors)) /\ 1 \in 0 .. Len(cursors)
    BY <1>1, <1>5, TailIsSubSeq
  <2>2. QED
    BY <1>4, <2>1
<1>6. QED
  BY <1>2, <1>3, <1>4, <1>5

\* A cursor that is issued comes after the others, as many as there is room for.
LEMMA IssuedLast ==
  ASSUME DiscoveryInv, NEW c \in Cursor
  PROVE  \E left : LeftOf(left) /\ Issued(c) = Append(left, c)
<1>1. cursors \in Seq(Cursor)
  BY DEF DiscoveryInv, DiscoveryTypes
<1>2. CASE Len(cursors) < CursorLimit
  BY <1>2, CursorsLeave DEF Issued
<1>3. CASE ~(Len(cursors) < CursorLimit)
  <2> DEFINE n == Len(cursors) - CursorLimit + 1
  <2>1. n \in 0 .. Len(cursors) /\ n + 1 = Len(cursors) - CursorLimit + 2
    BY <1>1, <1>3
  <2>2. Issued(c) = Append(SubSeq(cursors, n + 1, Len(cursors)), c)
    BY <1>3, <2>1 DEF Issued
  <2> HIDE DEF n
  <2>3. QED
    BY <2>1, <2>2, CursorsLeave
<1>4. QED
  BY <1>2, <1>3

\* Serving a page: the list goes on behind it, in a cursor, or is over.
LEMMA ServePageStep ==
  ASSUME DiscoveryInv, NEW t \in Threads, ServePage(t)
  PROVE  DiscoveryInv'
<1> DEFINE w == request[t]
           pageEnd == IF w.offset + PageSize < Len(w.ids) THEN w.offset + PageSize ELSE Len(w.ids)
           page == [search |-> w.search, ids |-> w.ids, from |-> w.offset, to |-> pageEnd]
           more == [token |-> tokens', scope |-> w.scope, offset |-> pageEnd,
                    ids |-> w.ids, search |-> w.search]
<1>1. /\ Answering(t)
      /\ IF w.offset + PageSize < Len(w.ids)
         THEN tokens < MaxTokens /\ tokens' = tokens + 1 /\ cursors' = Issued(more)
         ELSE UNCHANGED <<tokens, cursors>>
      /\ pages' = IF w.offset < pageEnd THEN Append(pages, page) ELSE pages
      /\ request' = [request EXCEPT ![t] = NoRequest]
      /\ UNCHANGED <<catalog, owned, searches>>
  BY DEF ServePage, Answering
<1>2. DiscoveryTypes /\ OnePlace /\ PlaceFits /\ PagesContinue
  BY DEF DiscoveryInv
<1>3. w \in Work /\ w.search \in 1 .. searches /\ w.offset \in Nat /\ w.ids \in Lists
  BY <1>1, <1>2 DEF DiscoveryTypes, Answering, Work
<1>4. page \in Served
  BY <1>2, <1>3 DEF Served, DiscoveryTypes
<1>5. page.search = w.search /\ page.ids = w.ids /\ page.from = w.offset /\ page.to = pageEnd
  OBVIOUS
\* The cursors: those there were, and one for this search if there is more.
<1>6. PICK left : /\ LeftOf(left)
                  /\ \/ cursors' = left
                     \/ /\ cursors' = Append(left, more)
                        /\ more \in Cursor /\ pageEnd \in Nat /\ w.offset <= pageEnd
  <2>1. CASE w.offset + PageSize < Len(w.ids)
    <3>1. pageEnd \in Nat /\ w.offset <= pageEnd
      BY <1>3, <2>1
    <3>2. tokens' \in 1 .. MaxTokens /\ w.search \in 1 .. MaxSearches /\ w.scope \in Scope
      BY <1>1, <1>2, <1>3, <2>1 DEF DiscoveryTypes, Work
    <3> HIDE DEF pageEnd, w
    <3>3. more \in Cursor
      BY <1>3, <3>1, <3>2 DEF Cursor
    <3> HIDE DEF more
    <3>4. PICK left : LeftOf(left) /\ Issued(more) = Append(left, more)
      BY <3>3, IssuedLast
    <3>5. cursors' = Append(left, more)
      BY <1>1, <2>1, <3>4 DEF w
    <3>6. QED
      BY <3>1, <3>3, <3>4, <3>5
  <2>2. CASE ~(w.offset + PageSize < Len(w.ids))
    BY <1>1, <2>2, CursorsLeave
  <2>3. QED
    BY <2>1, <2>2
<1>7. more.search = w.search /\ more.offset = pageEnd /\ more.ids = w.ids
  OBVIOUS
<1>8. /\ left \in Seq(Cursor)
      /\ \A i \in DOMAIN left : left[i] \in Cursor /\ left[i].search \in 1 .. searches
      /\ \A i, j \in DOMAIN left : i # j => left[i].search # left[j].search
      /\ \A u \in Threads, i \in DOMAIN left : Answering(u) => request[u].search # left[i].search
      /\ \A i \in DOMAIN left, k \in DOMAIN pages :
           left[i].search = pages[k].search => GoesOn(left[i].offset, left[i].ids, pages[k])
  BY <1>6, LeftKnown
<1>9. /\ request' \in [Threads -> Work \cup {NoRequest}]
      /\ \A u \in Threads : Answering(u)' => u # t /\ Answering(u) /\ request'[u] = request[u]
  BY <1>1, <1>2 DEF DiscoveryTypes, Answering
\* The pages: those there were, and this one if it is not empty.
<1>10. /\ pages' \in Seq(Served)
       /\ \A k \in DOMAIN pages' :
            \/ k \in DOMAIN pages /\ pages'[k] = pages[k]
            \/ k = Len(pages) + 1 /\ pages'[k] = page
       /\ DOMAIN pages = 1 .. Len(pages)
  <2> HIDE DEF page
  <2>1. pages \in Seq(Served)
    BY <1>2 DEF DiscoveryTypes
  <2>2. QED
    BY <1>1, <1>4, <2>1
<1>11. /\ cursors' \in Seq(Cursor)
       /\ \A i \in DOMAIN cursors' :
            \/ i \in DOMAIN left /\ cursors'[i] = left[i]
            \/ /\ i = Len(left) + 1 /\ cursors'[i] = more
               /\ pageEnd \in Nat /\ w.offset <= pageEnd
       /\ DOMAIN left = 1 .. Len(left)
  <2> HIDE DEF more, pageEnd, w
  <2>1. QED
    BY <1>6, <1>8
<1> HIDE DEF page, more, pageEnd
<1>12. \A k \in DOMAIN pages : pages[k].search = w.search => GoesOn(w.offset, w.ids, pages[k])
  BY <1>1, <1>2 DEF PlaceFits
<1> HIDE DEF w
<1>13. DiscoveryTypes'
  <2>1. tokens' \in 0 .. MaxTokens
    BY <1>1, <1>2 DEF DiscoveryTypes
  <2>2. \A i \in DOMAIN cursors' : cursors'[i].search \in 1 .. searches'
    BY <1>1, <1>3, <1>7, <1>8, <1>11
  <2>3. \A k \in DOMAIN pages' : pages'[k].search \in 1 .. searches'
    BY <1>1, <1>2, <1>3, <1>5, <1>10 DEF DiscoveryTypes
  <2>4. \A u \in Threads : Answering(u)' => request'[u].search \in 1 .. searches'
    BY <1>1, <1>2, <1>9 DEF DiscoveryTypes
  <2>5. QED
    BY <1>1, <1>2, <1>9, <1>10, <1>11, <2>1, <2>2, <2>3, <2>4 DEF DiscoveryTypes
<1>14. OnePlace'
  <2>1. \A u \in Threads \ {t} : Answering(u) => request[u].search # w.search
    BY <1>1, <1>2 DEF OnePlace, w
  <2>2. \A i \in DOMAIN left : left[i].search # w.search
    BY <1>1, <1>8 DEF w
  <2>3. \A i, j \in DOMAIN cursors' : i # j => cursors'[i].search # cursors'[j].search
    BY <1>7, <1>8, <1>11, <2>2
  <2>4. \A u \in Threads, i \in DOMAIN cursors' :
          Answering(u)' => request'[u].search # cursors'[i].search
    BY <1>7, <1>8, <1>9, <1>11, <2>1
  <2>5. \A u, v \in Threads : u # v /\ Answering(u)' /\ Answering(v)' =>
          request'[u].search # request'[v].search
    BY <1>2, <1>9 DEF OnePlace
  <2>6. QED
    BY <2>3, <2>4, <2>5 DEF OnePlace
<1>15. PlaceFits'
  <2>1. ASSUME NEW i \in DOMAIN cursors', NEW k \in DOMAIN pages',
               cursors'[i].search = pages'[k].search
        PROVE  GoesOn(cursors'[i].offset, cursors'[i].ids, pages'[k])
    <3>1. CASE i \in DOMAIN left /\ cursors'[i] = left[i]
      <4>1. left[i].search # w.search
        BY <1>1, <1>8, <3>1 DEF w
      <4>2. k \in DOMAIN pages /\ pages'[k] = pages[k]
        BY <1>5, <1>10, <2>1, <3>1, <4>1
      <4>3. QED
        BY <1>8, <2>1, <3>1, <4>2
    <3>2. CASE cursors'[i] = more /\ pageEnd \in Nat /\ w.offset <= pageEnd
      <4>1. CASE k \in DOMAIN pages /\ pages'[k] = pages[k]
        BY <1>3, <1>7, <1>12, <2>1, <3>2, <4>1 DEF GoesOn
      <4>2. CASE pages'[k] = page
        BY <1>5, <1>7, <3>2, <4>2 DEF GoesOn
      <4>3. QED
        BY <1>10, <4>1, <4>2
    <3>3. QED
      BY <1>11, <3>1, <3>2
  <2>2. ASSUME NEW u \in Threads, NEW k \in DOMAIN pages', Answering(u)',
               request'[u].search = pages'[k].search
        PROVE  GoesOn(request'[u].offset, request'[u].ids, pages'[k])
    <3>1. u # t /\ Answering(u) /\ request'[u] = request[u]
      BY <1>9, <2>2
    <3>2. request[u].search # w.search
      BY <1>1, <1>2, <3>1 DEF OnePlace, w
    <3>3. k \in DOMAIN pages /\ pages'[k] = pages[k]
      BY <1>5, <1>10, <2>2, <3>1, <3>2
    <3>4. QED
      BY <1>2, <2>2, <3>1, <3>3 DEF PlaceFits
  <2>3. QED
    BY <2>1, <2>2 DEF PlaceFits, Answering
<1>16. PagesContinue'
  <2> SUFFICES ASSUME NEW i \in DOMAIN pages', NEW j \in DOMAIN pages', i < j,
                      pages'[i].search = pages'[j].search
               PROVE  pages'[j].ids = pages'[i].ids /\ pages'[i].to <= pages'[j].from
    BY DEF PagesContinue
  <2>1. i \in DOMAIN pages /\ pages'[i] = pages[i]
    <3>1. i # Len(pages) + 1
      BY <1>10
    <3>2. QED
      BY <1>10, <3>1
  <2>2. CASE j \in DOMAIN pages /\ pages'[j] = pages[j]
    BY <1>2, <2>1, <2>2 DEF PagesContinue
  <2>3. CASE pages'[j] = page
    BY <1>5, <1>12, <2>1, <2>3 DEF GoesOn
  <2>4. QED
    BY <1>10, <2>2, <2>3
<1>17. QED
  BY <1>13, <1>14, <1>15, <1>16 DEF DiscoveryInv

\* Nothing that a search goes by changes.
LEMMA SearchesUntouched ==
  ASSUME DiscoveryInv, UNCHANGED <<pages, searches, tokens>>, LeftOf(cursors'),
         request' \in [Threads -> Work \cup {NoRequest}],
         \A t \in Threads : Answering(t)' => Answering(t) /\ request'[t] = request[t],
         catalog' \in [rev : 0 .. MaxReleases, rules : Catalogs],
         owned' \in [rev : 0 .. MaxReleases, rules : Holdings]
  PROVE  DiscoveryInv'
<1> DEFINE left == cursors'
<1>1. /\ left \in Seq(Cursor)
      /\ \A i \in DOMAIN left : left[i] \in Cursor /\ left[i].search \in 1 .. searches
      /\ \A i, j \in DOMAIN left : i # j => left[i].search # left[j].search
      /\ \A t \in Threads, i \in DOMAIN left : Answering(t) => request[t].search # left[i].search
      /\ \A i \in DOMAIN left, k \in DOMAIN pages :
           left[i].search = pages[k].search => GoesOn(left[i].offset, left[i].ids, pages[k])
  <2> HIDE DEF left
  <2>1. LeftOf(left)
    BY DEF left
  <2>2. QED
    BY <2>1, LeftKnown
<1>2. DiscoveryTypes /\ OnePlace /\ PlaceFits /\ PagesContinue
  BY DEF DiscoveryInv
<1>3. DiscoveryTypes'
  BY <1>1, <1>2 DEF DiscoveryTypes
<1>4. OnePlace'
  BY <1>1, <1>2 DEF OnePlace
<1>5. PlaceFits'
  <2>1. ASSUME NEW t \in Threads, NEW k \in DOMAIN pages', Answering(t)',
               request'[t].search = pages'[k].search
        PROVE  GoesOn(request'[t].offset, request'[t].ids, pages'[k])
    BY <1>2, <2>1 DEF PlaceFits
  <2>2. QED
    BY <1>1, <2>1 DEF PlaceFits, Answering
<1>6. PagesContinue'
  BY <1>2 DEF PagesContinue
<1>7. QED
  BY <1>3, <1>4, <1>5, <1>6 DEF DiscoveryInv

\* A search begins with a number of its own.
LEMMA BeginSearchStep ==
  ASSUME DiscoveryInv, NEW t \in Threads, BeginSearch(t)
  PROVE  DiscoveryInv'
<1>1. /\ request[t] # NoRequest /\ request[t].at = "loaded"
      /\ searches < MaxSearches /\ searches' = searches + 1
      /\ request' = [request EXCEPT ![t].at = "answering", ![t].search = searches']
      /\ UNCHANGED <<catalog, owned, cursors, tokens, pages>>
  BY DEF BeginSearch
<1>2. DiscoveryTypes /\ OnePlace /\ PlaceFits /\ PagesContinue
  BY DEF DiscoveryInv
<1>3. /\ request[t] \in Work /\ ~Answering(t)
      /\ request'[t] = [request[t] EXCEPT !.at = "answering", !.search = searches']
      /\ \A u \in Threads \ {t} : request'[u] = request[u]
  BY <1>1, <1>2 DEF DiscoveryTypes, Answering
<1>4. searches' \in 1 .. MaxSearches /\ searches \in 0 .. MaxSearches
  BY <1>1, <1>2 DEF DiscoveryTypes
<1>5. request'[t] \in Work /\ request'[t].search = searches'
  <2>1. searches' \in 0 .. MaxSearches
    BY <1>4
  <2>2. [request[t] EXCEPT !.at = "answering", !.search = searches'] \in Work
    BY <1>3, <2>1 DEF Work
  <2>3. QED
    BY <1>3, <2>2 DEF Work
<1>6. request' \in [Threads -> Work \cup {NoRequest}]
  <2> DEFINE x == request'[t]
  <2>1. request' = [request EXCEPT ![t] = x]
    BY <1>1, <1>2 DEF DiscoveryTypes
  <2> HIDE DEF x
  <2>2. QED
    BY <1>2, <1>5, <2>1 DEF DiscoveryTypes, x
<1>7. \A n \in 1 .. searches : n \in 1 .. searches' /\ n # searches'
  BY <1>1, <1>4
<1>8. \A u \in Threads : Answering(u)' =>
        \/ u = t
        \/ Answering(u) /\ request'[u] = request[u]
  <2> TAKE u \in Threads
  <2>1. CASE u # t
    BY <1>3, <2>1 DEF Answering
  <2>2. QED
    BY <2>1
<1>9. DiscoveryTypes'
  BY <1>1, <1>2, <1>4, <1>5, <1>6, <1>7, <1>8 DEF DiscoveryTypes
<1>10. OnePlace'
  <2>1. \A u \in Threads : Answering(u) => request[u].search # searches'
    BY <1>2, <1>7 DEF DiscoveryTypes
  <2>2. \A i \in DOMAIN cursors : cursors[i].search # searches'
    BY <1>2, <1>7 DEF DiscoveryTypes
  <2>3. \A i, j \in DOMAIN cursors' : i # j => cursors'[i].search # cursors'[j].search
    BY <1>1, <1>2 DEF OnePlace
  <2>4. \A u \in Threads, i \in DOMAIN cursors' :
          Answering(u)' => request'[u].search # cursors'[i].search
    <3> TAKE u \in Threads, i \in DOMAIN cursors'
    <3>1. CASE u = t
      BY <1>1, <1>5, <2>2, <3>1
    <3>2. CASE u # t
      <4>1. i \in DOMAIN cursors /\ cursors'[i] = cursors[i]
        BY <1>1
      <4>2. Answering(u)' => Answering(u) /\ request'[u] = request[u]
        BY <1>8, <3>2
      <4>3. Answering(u) => request[u].search # cursors[i].search
        BY <1>2, <4>1 DEF OnePlace
      <4>4. QED
        BY <4>1, <4>2, <4>3
    <3>3. QED
      BY <3>1, <3>2
  <2>5. ASSUME NEW u \in Threads, NEW v \in Threads, u # v, Answering(u)', Answering(v)'
        PROVE  request'[u].search # request'[v].search
    <3>1. CASE u # t /\ v # t
      BY <1>2, <1>8, <2>5, <3>1 DEF OnePlace
    <3>2. CASE u = t \/ v = t
      BY <1>5, <1>8, <2>1, <2>5, <3>2
    <3>3. QED
      BY <3>1, <3>2
  <2>6. QED
    BY <2>3, <2>4, <2>5 DEF OnePlace
<1>11. PlaceFits'
  <2>1. ASSUME NEW u \in Threads, NEW k \in DOMAIN pages', Answering(u)',
               request'[u].search = pages'[k].search
        PROVE  GoesOn(request'[u].offset, request'[u].ids, pages'[k])
    <3>1. pages'[k] = pages[k] /\ pages[k].search # searches' /\ k \in DOMAIN pages
      BY <1>1, <1>2, <1>7 DEF DiscoveryTypes
    <3>2. u # t
      BY <1>5, <2>1, <3>1
    <3>3. QED
      BY <1>2, <1>8, <2>1, <3>1, <3>2 DEF PlaceFits
  <2>2. QED
    BY <1>1, <1>2, <2>1 DEF PlaceFits, Answering
<1>12. PagesContinue'
  BY <1>1, <1>2 DEF PagesContinue
<1>13. QED
  BY <1>9, <1>10, <1>11, <1>12 DEF DiscoveryInv

\* A cursor that fits hands its search over to the request; one that does not
\* ends the request.
LEMMA ConsumeCursorStep ==
  ASSUME DiscoveryInv, NEW t \in Threads, NEW i \in DOMAIN cursors, ConsumeCursor(t, i)
  PROVE  DiscoveryInv'
<1> DEFINE c == cursors[i]
           left == RemoveAt(cursors, i)
           x == [request[t] EXCEPT !.at = "answering", !.offset = c.offset, !.search = c.search]
<1>1. /\ request[t] # NoRequest /\ request[t].at = "loaded" /\ cursors' = left
      /\ request' = [request EXCEPT ![t] = IF SameList(t, c) THEN x ELSE NoRequest]
      /\ UNCHANGED <<catalog, owned, tokens, searches, pages>>
  BY DEF ConsumeCursor, Consumed, DiscoveryInv, DiscoveryTypes
<1>2. DiscoveryTypes /\ OnePlace /\ PlaceFits /\ PagesContinue
  BY DEF DiscoveryInv
<1>3. LeftOf(left) /\ \A k \in DOMAIN left : left[k].search # c.search
  BY CursorsLeave
<1>4. /\ catalog' \in [rev : 0 .. MaxReleases, rules : Catalogs]
      /\ owned' \in [rev : 0 .. MaxReleases, rules : Holdings]
  BY <1>1, <1>2 DEF DiscoveryTypes
<1>5. CASE ~SameList(t, c)
  <2>1. /\ request' \in [Threads -> Work \cup {NoRequest}]
        /\ \A u \in Threads : Answering(u)' => Answering(u) /\ request'[u] = request[u]
    BY <1>1, <1>2, <1>5 DEF DiscoveryTypes, Answering
  <2>2. QED
    BY <1>1, <1>3, <1>4, <2>1, SearchesUntouched
<1>6. CASE SameList(t, c)
  <2>1. c \in Cursor /\ c.search \in 1 .. searches /\ request[t] \in Work
    BY <1>1, <1>2 DEF DiscoveryTypes
  <2>2. /\ x \in Work /\ x.search = c.search /\ x.offset = c.offset /\ x.ids = c.ids
    <3>1. c.offset \in Nat /\ c.search \in 1 .. MaxSearches
      BY <2>1 DEF Cursor
    <3>2. c.ids = request[t].ids
      BY <1>6 DEF SameList
    <3> HIDE DEF c
    <3>3. c.search \in 0 .. MaxSearches
      BY <3>1
    <3>4. QED
      BY <2>1, <3>1, <3>2, <3>3 DEF Work
  <2>3. /\ left \in Seq(Cursor)
        /\ \A k \in DOMAIN left : left[k] \in Cursor /\ left[k].search \in 1 .. searches
        /\ \A k, j \in DOMAIN left : k # j => left[k].search # left[j].search
        /\ \A u \in Threads, k \in DOMAIN left : Answering(u) => request[u].search # left[k].search
        /\ \A k \in DOMAIN left, m \in DOMAIN pages :
             left[k].search = pages[m].search => GoesOn(left[k].offset, left[k].ids, pages[m])
    BY <1>3, LeftKnown
  <2>4. \A u \in Threads : Answering(u) => request[u].search # c.search
    BY <1>2 DEF OnePlace
  <2>5. \A m \in DOMAIN pages : c.search = pages[m].search => GoesOn(c.offset, c.ids, pages[m])
    BY <1>2 DEF PlaceFits
  <2> HIDE DEF c, left, x
  <2>6. /\ request' \in [Threads -> Work \cup {NoRequest}]
        /\ \A u \in Threads : Answering(u)' =>
             \/ u = t /\ request'[u] = x
             \/ u # t /\ Answering(u) /\ request'[u] = request[u]
    BY <1>1, <1>2, <1>6, <2>2 DEF DiscoveryTypes, Answering
  <2>7. DiscoveryTypes'
    BY <1>1, <1>2, <1>4, <2>1, <2>2, <2>3, <2>6 DEF DiscoveryTypes
  <2>8. OnePlace'
    BY <1>1, <1>2, <1>3, <2>2, <2>3, <2>4, <2>6 DEF OnePlace
  <2>9. PlaceFits'
    <3>1. ASSUME NEW u \in Threads, NEW k \in DOMAIN pages', Answering(u)',
                 request'[u].search = pages'[k].search
          PROVE  GoesOn(request'[u].offset, request'[u].ids, pages'[k])
      <4>1. k \in DOMAIN pages /\ pages'[k] = pages[k]
        BY <1>1
      <4>2. CASE u = t /\ request'[u] = x
        BY <2>2, <2>5, <3>1, <4>1, <4>2
      <4>3. CASE Answering(u) /\ request'[u] = request[u]
        BY <1>2, <3>1, <4>1, <4>3 DEF PlaceFits
      <4>4. QED
        BY <2>6, <3>1, <4>2, <4>3
    <3>2. QED
      BY <1>1, <2>3, <3>1 DEF PlaceFits, Answering
  <2>10. PagesContinue'
    BY <1>1, <1>2 DEF PagesContinue
  <2>11. QED
    BY <2>7, <2>8, <2>9, <2>10 DEF DiscoveryInv
<1>7. QED
  BY <1>5, <1>6

\* What is known of searches holds at the start and is kept.
THEOREM DiscoveryInductive == DiscoverySpec => []DiscoveryInv
<1>1. DiscoveryInit => DiscoveryInv
  <2> SUFFICES ASSUME DiscoveryInit
               PROVE  DiscoveryInv
    OBVIOUS
  <2>1. 0 \in 0 .. MaxReleases /\ 0 \in 0 .. MaxTokens /\ 0 \in 0 .. MaxSearches
    OBVIOUS
  <2>2. cursors = <<>> /\ pages = <<>> /\ \A t \in Threads : ~Answering(t)
    BY DEF DiscoveryInit, Answering
  <2>3. request \in [Threads -> Work \cup {NoRequest}] /\ tokens = 0 /\ searches = 0
    BY DEF DiscoveryInit
  <2>4. /\ catalog \in [rev : 0 .. MaxReleases, rules : Catalogs]
        /\ owned \in [rev : 0 .. MaxReleases, rules : Holdings]
    BY <2>1 DEF DiscoveryInit
  <2>5. DiscoveryTypes
    BY <2>1, <2>2, <2>3, <2>4 DEF DiscoveryTypes
  <2>6. QED
    BY <2>2, <2>5 DEF DiscoveryInv, OnePlace, PlaceFits, PagesContinue
<1>2. DiscoveryInv /\ [DiscoveryNext]_discoveryVars => DiscoveryInv'
  <2> SUFFICES ASSUME DiscoveryInv, [DiscoveryNext]_discoveryVars
               PROVE  DiscoveryInv'
    OBVIOUS
  <2>1. DiscoveryTypes
    BY DEF DiscoveryInv
  <2>2. CASE Release \/ EditInPlace \/ CardsChange
    <3>1. /\ catalog' \in [rev : 0 .. MaxReleases, rules : Catalogs]
          /\ owned' \in [rev : 0 .. MaxReleases, rules : Holdings]
      BY <2>1, <2>2 DEF Release, EditInPlace, CardsChange, DiscoveryTypes
    <3>2. UNCHANGED <<cursors, request, pages, searches, tokens>>
      BY <2>2 DEF Release, EditInPlace, CardsChange
    <3>3. QED
      BY <2>1, <3>1, <3>2, CursorsLeave, SearchesUntouched DEF DiscoveryTypes, Answering
  <2>3. CASE CursorExpires
    BY <2>1, <2>3, CursorsLeave, SearchesUntouched DEF CursorExpires, DiscoveryTypes, Answering
  <2>4. ASSUME NEW t \in Threads, NEW b \in Browsers, NEW f \in Filters, NEW token \in 0 .. tokens,
               LoadRequest(t, b, f, token)
        PROVE  DiscoveryInv'
    <3> DEFINE x == [browser |-> b, filter |-> f, token |-> token, at |-> "loaded",
                     scope |-> [filter |-> f, catalog |-> catalog.rev, owned |-> owned.rev,
                                browser |-> b],
                     ids |-> Results(f, catalog.rules, owned.rules), offset |-> 0, search |-> 0]
    <3>1. request' = [request EXCEPT ![t] = x]
          /\ UNCHANGED <<catalog, owned, cursors, tokens, searches, pages>>
      BY <2>4 DEF LoadRequest
    <3>2. /\ catalog.rev \in 0 .. MaxReleases /\ catalog.rules \in Catalogs
          /\ owned.rev \in 0 .. MaxReleases /\ owned.rules \in Holdings
          /\ token \in 0 .. MaxTokens
      BY <2>1 DEF DiscoveryTypes
    <3>3. Results(f, catalog.rules, owned.rules) \in Lists
      BY <3>2 DEF Lists
    <3>4. x \in Work /\ x.at = "loaded"
      BY <3>2, <3>3 DEF Work, Scope
    <3> HIDE DEF x
    <3>5. /\ request' \in [Threads -> Work \cup {NoRequest}]
          /\ \A u \in Threads : Answering(u)' => Answering(u) /\ request'[u] = request[u]
      BY <2>1, <3>1, <3>4 DEF DiscoveryTypes, Answering
    <3>6. QED
      BY <2>1, <3>1, <3>5, CursorsLeave, SearchesUntouched DEF DiscoveryTypes
  <2>5. ASSUME NEW t \in Threads, RestartRequired(t)
        PROVE  DiscoveryInv'
    <3>1. /\ request' \in [Threads -> Work \cup {NoRequest}]
          /\ \A u \in Threads : Answering(u)' => Answering(u) /\ request'[u] = request[u]
          /\ UNCHANGED <<catalog, owned, cursors, tokens, searches, pages>>
      BY <2>1, <2>5 DEF RestartRequired, DiscoveryTypes, Answering
    <3>2. QED
      BY <2>1, <3>1, CursorsLeave, SearchesUntouched DEF DiscoveryTypes
  <2>6. CASE UNCHANGED discoveryVars
    BY <2>1, <2>6, CursorsLeave, SearchesUntouched DEF discoveryVars, DiscoveryTypes, Answering
  <2>7. QED
    BY <2>2, <2>3, <2>4, <2>5, <2>6, BeginSearchStep, ConsumeCursorStep, ServePageStep
       DEF DiscoveryNext, ConsumeCursor
<1>3. QED
  BY <1>1, <1>2, PTL DEF DiscoverySpec

\* The cursors keep within their limit, and no page is empty.
CursorsBounded ==
  Len(cursors) <= CursorLimit /\ \A i \in DOMAIN pages : pages[i].from < pages[i].to

\* However many searches are begun and left, the store never holds more cursors
\* than its limit; no page is served empty.
THEOREM DiscoveryTyped == DiscoverySpec => []DiscoveryTypeOK
<1>1. DiscoveryInit => CursorsBounded
  BY DiscoveryLimits DEF DiscoveryInit, CursorsBounded
<1>2. DiscoveryInv /\ CursorsBounded /\ [DiscoveryNext]_discoveryVars => CursorsBounded'
  <2> SUFFICES ASSUME DiscoveryInv, CursorsBounded, [DiscoveryNext]_discoveryVars
               PROVE  CursorsBounded'
    OBVIOUS
  <2>1. /\ cursors \in Seq(Cursor) /\ pages \in Seq(Served)
        /\ request \in [Threads -> Work \cup {NoRequest}] /\ Len(cursors) \in Nat
    BY DEF DiscoveryInv, DiscoveryTypes
  <2>2. CASE UNCHANGED <<cursors, pages>>
    BY <2>2 DEF CursorsBounded
  <2>3. CASE CursorExpires
    <3>1. Len(Tail(cursors)) = Len(cursors) - 1
      BY <2>1, <2>3 DEF CursorExpires
    <3>2. QED
      BY <2>1, <2>3, <3>1, DiscoveryLimits DEF CursorExpires, CursorsBounded
  <2>4. ASSUME NEW t \in Threads, NEW i \in DOMAIN cursors, ConsumeCursor(t, i)
        PROVE  CursorsBounded'
    <3>1. Len(RemoveAt(cursors, i)) = Len(cursors) - 1
      BY <2>1, Removed
    <3>2. QED
      BY <2>1, <2>4, <3>1, DiscoveryLimits DEF ConsumeCursor, Consumed, CursorsBounded
  <2>5. ASSUME NEW t \in Threads, ServePage(t)
        PROVE  CursorsBounded'
    <3>1. ASSUME NEW c PROVE Len(Issued(c)) <= CursorLimit
      <4>1. CASE Len(cursors) < CursorLimit
        <5>1. Len(Append(cursors, c)) = Len(cursors) + 1
          BY <2>1
        <5>2. QED
          BY <2>1, <4>1, <5>1, DiscoveryLimits DEF Issued
      <4>2. CASE Len(cursors) >= CursorLimit
        <5> DEFINE kept == SubSeq(cursors, Len(cursors) - CursorLimit + 2, Len(cursors))
        <5>1. kept \in Seq(Cursor) /\ Len(kept) = CursorLimit - 1
          BY <2>1, <4>2, DiscoveryLimits
        <5>2. Issued(c) = Append(kept, c)
          BY <2>1, <4>2, DiscoveryLimits DEF Issued
        <5> HIDE DEF kept
        <5>3. QED
          BY <5>1, <5>2, DiscoveryLimits
      <4>3. QED
        BY <2>1, <4>1, <4>2, DiscoveryLimits
    <3>2. Len(cursors') <= CursorLimit
      BY <2>5, <3>1 DEF ServePage, CursorsBounded
    <3>3. PICK page : /\ pages' = pages \/ pages' = Append(pages, page)
                      /\ page.from < page.to
      <4> DEFINE w == request[t]
                 last == IF w.offset + PageSize < Len(w.ids) THEN w.offset + PageSize ELSE Len(w.ids)
                 x == [search |-> w.search, ids |-> w.ids, from |-> w.offset, to |-> last]
      <4>1. pages' = IF w.offset < last THEN Append(pages, x) ELSE pages
        BY <2>5 DEF ServePage
      <4>2. x.from = w.offset /\ x.to = last
        OBVIOUS
      <4> HIDE DEF w, last, x
      <4>3. CASE w.offset < last
        BY <4>1, <4>2, <4>3
      <4>4. CASE ~(w.offset < last)
        <5>1. pages' = pages /\ [from |-> 0, to |-> 1].from < [from |-> 0, to |-> 1].to
          BY <4>1, <4>4
        <5>2. QED
          BY <5>1
      <4>5. QED
        BY <4>3, <4>4
    <3>4. \A i \in DOMAIN pages' : pages'[i].from < pages'[i].to
      BY <2>1, <3>3 DEF CursorsBounded
    <3>5. QED
      BY <3>2, <3>4 DEF CursorsBounded
  <2>6. QED
    BY <2>2, <2>3, <2>4, <2>5 DEF DiscoveryNext, discoveryVars, Release, EditInPlace, CardsChange,
       BeginSearch, RestartRequired, LoadRequest, ConsumeCursor
<1>3. DiscoveryInv /\ CursorsBounded => DiscoveryTypeOK
  BY DEF DiscoveryInv, DiscoveryTypes, CursorsBounded, DiscoveryTypeOK
<1>4. QED
  BY <1>1, <1>2, <1>3, DiscoveryInductive, PTL DEF DiscoverySpec

\* However requests repeat and interleave with releases, edits and expiry, the
\* pages of a search are consecutive slices of one list.
THEOREM PagesAreSlices == DiscoverySpec => []PagesContinue
<1>1. DiscoveryInv => PagesContinue
  BY DEF DiscoveryInv
<1>2. QED
  BY <1>1, DiscoveryInductive, PTL

=============================================================================
