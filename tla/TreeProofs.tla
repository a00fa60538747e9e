----------------------------- MODULE TreeProofs -----------------------------
(***************************************************************************)
(* What the recursive definitions of ForkChoice compute, on every tree:    *)
(* heights, branches, the headers a walk meets, and sums of work. A        *)
(* recursive function is the one CHOSEN among those that satisfy its       *)
(* equation, so each is shown to have one; inductions go by the least      *)
(* block, or number, that would be an exception.                           *)
(***************************************************************************)
EXTENDS ForkChoice, FiniteSetTheorems, SequenceTheorems, WellFoundedInduction, TLAPS

(* A nonempty set of numbers has a least one. *)
LEMMA LeastOf ==
  ASSUME NEW S \in SUBSET Nat, S # {}
  PROVE  \E x \in S : \A y \in S : x =< y
<1>1. PICK x \in S : \A y \in S : ~(<<y, x>> \in OpToRel(<, Nat))
  BY NatLessThanWellFounded, WFMin
<1>2. ASSUME NEW y \in S  PROVE x =< y
  <2>1. <<y, x>> \in Nat \X Nat
    OBVIOUS
  <2>2. ~(<<y, x>>[1] < <<y, x>>[2])
    BY <1>1, <2>1 DEF OpToRel
  <2>. QED  BY <2>2
<1>. QED  BY <1>2

-----------------------------------------------------------------------------
(* Blocks are numbers, from the genesis block up. *)
LEMMA BlockFacts ==
  /\ Blocks = 1..MaxBlock /\ MaxBlock \in Nat \ {0}
  /\ Genesis \in Blocks /\ MaxBlock \in Blocks /\ Blocks \subseteq Nat
  /\ \A b \in Blocks : b # Genesis => b - 1 \in Blocks /\ b - 1 < b /\ b > 1
BY ForkAssumption DEF Blocks, Genesis

(* A set that has every block whose predecessors in number it has, has all *)
(* blocks.                                                                 *)
LEMMA BlockInduction ==
  ASSUME NEW STATE G, \A b \in Blocks : (\A c \in Blocks : c < b => c \in G) => b \in G
  PROVE  Blocks \subseteq G
<1> DEFINE Bad == Blocks \ G
<1>1. Bad \in SUBSET Nat
  BY ForkAssumption DEF Blocks
<1>2. SUFFICES ASSUME Bad # {}  PROVE FALSE
  OBVIOUS
<1>3. \E b \in Bad : \A c \in Bad : b =< c
  <2> HIDE DEF Bad
  <2>. QED  BY <1>1, <1>2, LeastOf
<1>4. PICK b \in Bad : \A c \in Bad : b =< c
  BY <1>3
<1>5. ASSUME NEW c \in Blocks, c < b  PROVE c \in G
  BY <1>1, <1>4, <1>5
<1>. QED  BY <1>4, <1>5

(* Parent functions in which parents come before their children. *)
Parents == {p \in [Blocks \ {Genesis} -> Blocks] : \A b \in Blocks \ {Genesis} : p[b] < b}

Rules(V) == [Blocks \X V -> V]

(* The value of every block, from that of the genesis block and a rule.    *)
Computes(f, parent, first, rule) ==
  \A b \in Blocks : f[b] = IF b = Genesis THEN first ELSE rule[<<b, f[parent[b]]>>]

(* A rule that computes the value of a block from the value of its parent  *)
(* computes one for every block.                                           *)
LEMMA RecursionOnParents ==
  ASSUME NEW STATE parent, parent \in Parents, NEW V,
         NEW STATE first, first \in V, NEW STATE rule, rule \in Rules(V)
  PROVE  \E f \in [Blocks -> V] : Computes(f, parent, first, rule)
<1>. USE DEF Parents, Rules
<1> DEFINE Upto(n) == {b \in Blocks : b =< n}
           Follows(f, n) ==
             \A b \in Upto(n) : f[b] = IF b = Genesis THEN first ELSE rule[<<b, f[parent[b]]>>]
           Good == {n \in Blocks : \E f \in [Upto(n) -> V] : Follows(f, n)}
<1>1. ASSUME NEW n \in Blocks, \A m \in Blocks : m < n => m \in Good
      PROVE  n \in Good
  <2>1. PICK f \in [Upto(n - 1) -> V] : Follows(f, n - 1)
    <3>1. CASE n = Genesis
      <4>1. Upto(n - 1) = {}
        BY <3>1, BlockFacts DEF Genesis
      <4>2. [b \in {} |-> first] \in [Upto(n - 1) -> V] /\ Follows([b \in {} |-> first], n - 1)
        BY <4>1
      <4>. QED  BY <4>2
    <3>2. CASE n # Genesis
      <4>1. n - 1 \in Blocks /\ n - 1 < n
        BY <3>2, BlockFacts DEF Genesis
      <4>. QED  BY <4>1, <1>1
    <3>. QED  BY <3>1, <3>2
  <2> DEFINE new == IF n = Genesis THEN first ELSE rule[<<n, f[parent[n]]>>]
             g == [b \in Upto(n) |-> IF b = n THEN new ELSE f[b]]
  <2>2. \A b \in Blocks : b \in Nat
    BY BlockFacts
  <2>3. \A b \in Upto(n) : b # n => b \in Upto(n - 1)
    BY <2>2
  <2>4. \A b \in Upto(n) : b # Genesis => parent[b] \in Upto(n - 1)
    BY <2>2
  <2>5. new \in V
    <3>1. CASE n = Genesis
      BY <3>1
    <3>2. CASE n # Genesis
      <4>1. f[parent[n]] \in V
        BY <2>2, <2>4, <3>2
      <4>2. <<n, f[parent[n]]>> \in Blocks \X V
        BY <4>1
      <4>. QED  BY <4>2, <3>2
    <3>. QED  BY <3>1, <3>2
  <2>6. g \in [Upto(n) -> V]
    BY <2>3, <2>5
  <2>7. ASSUME NEW b \in Upto(n)
        PROVE  g[b] = IF b = Genesis THEN first ELSE rule[<<b, g[parent[b]]>>]
    <3>1. b # Genesis => parent[b] \in Upto(n) /\ g[parent[b]] = f[parent[b]]
      BY <2>2, <2>4
    <3>2. CASE b = n
      BY <3>1, <3>2
    <3>3. CASE b # n
      BY <3>1, <3>3, <2>1, <2>3
    <3>. QED  BY <3>2, <3>3
  <2>. QED  BY <2>6, <2>7
<1>2. Blocks \subseteq Good
  <2> HIDE DEF Good
  <2>. QED  BY <1>1, BlockInduction
<1>3. PICK f \in [Upto(MaxBlock) -> V] : Follows(f, MaxBlock)
  BY <1>2, BlockFacts
<1>4. Upto(MaxBlock) = Blocks
  BY BlockFacts
<1>. QED  BY <1>3, <1>4 DEF Computes

(* Heights count the steps down to the genesis block. *)
LEMMA HeightUnfolds ==
  ASSUME NEW parent, parent \in Parents
  PROVE  /\ Height(parent) \in [Blocks -> Nat]
         /\ \A b \in Blocks : Height(parent)[b] = IF b = Genesis THEN 0
                                                  ELSE Height(parent)[parent[b]] + 1
<1> DEFINE Rule(h) == [b \in Blocks |-> IF b = Genesis THEN 0 ELSE h[parent[b]] + 1]
           rule == [x \in Blocks \X Nat |-> x[2] + 1]
<1>1. rule \in Rules(Nat) /\ 0 \in Nat
  BY DEF Rules
<1>2. \A b \in Blocks, n \in Nat : rule[<<b, n>>] = n + 1
  OBVIOUS
<1> HIDE DEF rule
<1>3. PICK f \in [Blocks -> Nat] : Computes(f, parent, 0, rule)
  BY <1>1, RecursionOnParents, Zenon
<1>4. f = Rule(f)
  BY <1>2, <1>3 DEF Computes, Parents
<1>5. Height(parent) = CHOOSE h : h = Rule(h)
  BY DEF Height
<1> HIDE DEF Rule
<1>6. Height(parent) = Rule(Height(parent))
  BY <1>4, <1>5
<1> DEFINE H == Height(parent)
<1>7. /\ DOMAIN H = Blocks
      /\ \A b \in Blocks : H[b] = IF b = Genesis THEN 0 ELSE H[parent[b]] + 1
  BY <1>6 DEF Rule
<1> HIDE DEF H
<1>8. \A b \in Blocks : H[b] \in Nat
  <2> DEFINE G == {b \in Blocks : H[b] \in Nat}
  <2>1. ASSUME NEW b \in Blocks, \A c \in Blocks : c < b => c \in G  PROVE b \in G
    <3>1. CASE b = Genesis
      <4>1. H[b] = 0
        BY <3>1, <1>7
      <4>. QED  BY <4>1
    <3>2. CASE b # Genesis
      <4>1. parent[b] \in Blocks /\ H[parent[b]] \in Nat
        BY <2>1, <3>2 DEF Parents
      <4>. QED  BY <4>1, <3>2, <1>7
    <3>. QED  BY <3>1, <3>2
  <2>2. Blocks \subseteq G
    <3> HIDE DEF G
    <3>. QED  BY <2>1, BlockInduction
  <2>. QED  BY <2>2
<1>9. H = [b \in Blocks |-> H[b]]
  BY <1>6 DEF H, Rule
<1>. QED  BY <1>7, <1>8, <1>9 DEF H
-----------------------------------------------------------------------------
(* What IsTree says of a tree.                                             *)
LEMMA TreeFacts ==
  ASSUME IsTree(tree)
  PROVE  /\ tree.parent \in Parents
         /\ tree.parent \in [Blocks \ {Genesis} -> Blocks]
         /\ tree.height \in [Blocks -> Nat] /\ tree.height[Genesis] = 0
         /\ tree.work \in [Blocks \ {Genesis} -> Works]
         /\ \A b \in Blocks : b # Genesis => /\ tree.parent[b] \in Blocks /\ tree.parent[b] < b
                                           /\ tree.height[b] = tree.height[tree.parent[b]] + 1
BY DEF IsTree, Tree, Parents

(* A branch is a block and the branch of its parent.                       *)
LEMMA BranchUnfolds ==
  ASSUME IsTree(tree)
  PROVE  /\ Branch \in [Blocks -> SUBSET Blocks]
         /\ Branch[Genesis] = {Genesis}
         /\ \A b \in Blocks : b # Genesis => Branch[b] = {b} \cup Branch[tree.parent[b]]
<1> DEFINE V == SUBSET Blocks
           Rule(f) == [b \in Blocks |-> IF b = Genesis THEN {b} ELSE {b} \cup f[tree.parent[b]]]
           rule == [x \in Blocks \X V |-> {x[1]} \cup x[2]]
<1>1. rule \in Rules(V) /\ {Genesis} \in V
  BY BlockFacts DEF Rules
<1>2. \A b \in Blocks, s \in V : rule[<<b, s>>] = {b} \cup s
  OBVIOUS
<1> HIDE DEF rule
<1>3. PICK f \in [Blocks -> V] : Computes(f, tree.parent, {Genesis}, rule)
  <2> HIDE DEF V
  <2>. QED  BY <1>1, RecursionOnParents, TreeFacts, Zenon
<1>4. \A b \in Blocks : f[b] = IF b = Genesis THEN {b} ELSE {b} \cup f[tree.parent[b]]
  <2>1. ASSUME NEW b \in Blocks, b # Genesis  PROVE f[b] = {b} \cup f[tree.parent[b]]
    <3>1. f[tree.parent[b]] \in V
      BY <2>1, TreeFacts
    <3> HIDE DEF V
    <3>2. f[b] = rule[<<b, f[tree.parent[b]]>>]
      BY <2>1, <1>3 DEF Computes
    <3>. QED  BY <1>2, <3>1, <3>2
  <2>2. f[Genesis] = {Genesis}
    BY <1>3, BlockFacts DEF Computes
  <2>. QED  BY <2>1, <2>2
<1>5. f = Rule(f)
  BY <1>4
<1>6. Branch = CHOOSE h : h = Rule(h)
  BY DEF Branch
<1> HIDE DEF Rule
<1>7. Branch = Rule(Branch)
  BY <1>5, <1>6
<1> DEFINE B == Branch
<1>8. /\ B = [b \in Blocks |-> B[b]]
      /\ \A b \in Blocks : B[b] = IF b = Genesis THEN {b} ELSE {b} \cup B[tree.parent[b]]
  BY <1>7 DEF Rule
<1> HIDE DEF B
<1>9. \A b \in Blocks : B[b] \in SUBSET Blocks
  <2> DEFINE G == {b \in Blocks : B[b] \in SUBSET Blocks}
  <2>1. ASSUME NEW b \in Blocks, \A c \in Blocks : c < b => c \in G  PROVE b \in G
    BY <2>1, <1>8, TreeFacts
  <2>2. Blocks \subseteq G
    <3> HIDE DEF G
    <3>. QED  BY <2>1, BlockInduction
  <2>. QED  BY <2>2
<1>. QED  BY <1>8, <1>9, BlockFacts DEF B

(* The headers from a block down, as long as they can be had and read.     *)
LEMMA AncestorsUnfold ==
  ASSUME IsTree(tree), NEW lost
  PROVE  /\ Ancestors(lost) \in [Blocks -> Seq(Blocks)]
         /\ \A b \in Blocks :
              Ancestors(lost)[b] = IF b \in lost \/ ~HasHeader(b) THEN <<>>
                                   ELSE IF b = Genesis THEN <<b>>
                                   ELSE <<b>> \o Ancestors(lost)[tree.parent[b]]
<1> DEFINE V == Seq(Blocks)
           Gone(b) == b \in lost \/ ~HasHeader(b)
           first == IF Gone(Genesis) THEN <<>> ELSE <<Genesis>>
           Rule(f) == [b \in Blocks |-> IF Gone(b) THEN <<>>
                                        ELSE IF b = Genesis THEN <<b>>
                                        ELSE <<b>> \o f[tree.parent[b]]]
           rule == [x \in Blocks \X V |-> IF Gone(x[1]) THEN <<>> ELSE <<x[1]>> \o x[2]]
<1> HIDE DEF Gone
<1>0. <<>> \in V /\ \A b \in Blocks : <<b>> \in V /\ \A s \in V : <<b>> \o s \in V
  OBVIOUS
<1>1. rule \in Rules(V) /\ first \in V
  <2> HIDE DEF V
  <2>. QED  BY <1>0, BlockFacts DEF Rules
<1>2. \A b \in Blocks, s \in V : rule[<<b, s>>] = IF Gone(b) THEN <<>> ELSE <<b>> \o s
  OBVIOUS
<1> HIDE DEF rule
<1>3. PICK f \in [Blocks -> V] : Computes(f, tree.parent, first, rule)
  <2> HIDE DEF V, first
  <2>. QED  BY <1>1, RecursionOnParents, TreeFacts, Zenon
<1>4. \A b \in Blocks : f[b] = IF Gone(b) THEN <<>>
                               ELSE IF b = Genesis THEN <<b>>
                               ELSE <<b>> \o f[tree.parent[b]]
  <2>1. ASSUME NEW b \in Blocks, b # Genesis
        PROVE  f[b] = IF Gone(b) THEN <<>> ELSE <<b>> \o f[tree.parent[b]]
    <3>1. f[tree.parent[b]] \in V
      BY <2>1, TreeFacts
    <3> HIDE DEF V
    <3>2. f[b] = rule[<<b, f[tree.parent[b]]>>]
      BY <2>1, <1>3 DEF Computes
    <3>. QED  BY <1>2, <3>1, <3>2
  <2>2. f[Genesis] = first
    BY <1>3, BlockFacts DEF Computes
  <2>. QED  BY <2>1, <2>2
<1>5. f = Rule(f)
  BY <1>4
<1>6. Ancestors(lost) = CHOOSE h : h = Rule(h)
  BY DEF Ancestors, Gone
<1> HIDE DEF Rule
<1>7. Ancestors(lost) = Rule(Ancestors(lost))
  BY <1>5, <1>6
<1> DEFINE A == Ancestors(lost)
<1>8. /\ A = [b \in Blocks |-> A[b]]
      /\ \A b \in Blocks : A[b] = IF Gone(b) THEN <<>>
                                   ELSE IF b = Genesis THEN <<b>>
                                   ELSE <<b>> \o A[tree.parent[b]]
  BY <1>7 DEF Rule
<1> HIDE DEF A
<1>9. \A b \in Blocks : A[b] \in Seq(Blocks)
  <2> DEFINE G == {b \in Blocks : A[b] \in Seq(Blocks)}
  <2>1. ASSUME NEW b \in Blocks, \A c \in Blocks : c < b => c \in G  PROVE b \in G
    <3>1. b # Genesis => A[tree.parent[b]] \in V
      BY <2>1, TreeFacts
    <3>2. A[b] \in V
      <4> HIDE DEF V
      <4>. QED  BY <3>1, <1>0, <1>8
    <3>. QED  BY <3>2
  <2>2. Blocks \subseteq G
    <3> HIDE DEF G
    <3>. QED  BY <2>1, BlockInduction
  <2>. QED  BY <2>2
<1>. QED  BY <1>8, <1>9 DEF A, Gone

-----------------------------------------------------------------------------
(* A branch whose blocks are all genesis or PoW.                           *)
Readable(b) == \A x \in Branch[b] : HasHeader(x)

(* Branches go down to the genesis block, by one height at a time.         *)
LEMMA BranchFacts ==
  ASSUME IsTree(tree), NEW STATE b, b \in Blocks
  PROVE  /\ b \in Branch[b] /\ Genesis \in Branch[b] /\ Branch[b] \subseteq Blocks
         /\ tree.height[b] < b
         /\ tree.height[b] = 0 => b = Genesis
         /\ \A x \in Branch[b] : /\ Branch[x] \subseteq Branch[b]
                                 /\ tree.height[x] =< tree.height[b]
                                 /\ x # b => tree.height[x] < tree.height[b]
                                 /\ x # Genesis => tree.parent[x] \in Branch[b]
<1> DEFINE P(c) == /\ c \in Branch[c] /\ Genesis \in Branch[c]
                   /\ tree.height[c] < c
                   /\ tree.height[c] = 0 => c = Genesis
                   /\ \A x \in Branch[c] : /\ Branch[x] \subseteq Branch[c]
                                           /\ tree.height[x] =< tree.height[c]
                                           /\ x # c => tree.height[x] < tree.height[c]
                                           /\ x # Genesis => tree.parent[x] \in Branch[c]
           G == {c \in Blocks : P(c)}
<1>1. ASSUME NEW c \in Blocks, \A d \in Blocks : d < c => d \in G  PROVE c \in G
  <2>1. CASE c = Genesis
    BY <2>1, BranchUnfolds, TreeFacts, BlockFacts DEF Genesis
  <2>2. CASE c # Genesis
    <3> DEFINE p == tree.parent[c]
    <3>1. p \in Blocks /\ p < c /\ tree.height[c] = tree.height[p] + 1 /\ tree.height[p] \in Nat
      BY <2>2, TreeFacts
    <3>2. Branch[c] = {c} \cup Branch[p]
      BY <2>2, BranchUnfolds
    <3>3. P(p)
      BY <1>1, <3>1
    <3>4. p \in Nat /\ c \in Nat
      BY <3>1, BlockFacts
    <3>5. Branch[c] \subseteq Blocks /\ \A x \in Blocks : tree.height[x] \in Nat
      BY BranchUnfolds, TreeFacts
    <3> HIDE DEF p
    <3>6. c \in Branch[c] /\ Genesis \in Branch[c] /\ tree.height[c] < c /\ tree.height[c] # 0
      BY <3>1, <3>2, <3>3, <3>4
    <3>7. ASSUME NEW x \in Branch[c]
          PROVE  /\ Branch[x] \subseteq Branch[c]
                 /\ tree.height[x] =< tree.height[c]
                 /\ x # c => tree.height[x] < tree.height[c]
                 /\ x # Genesis => tree.parent[x] \in Branch[c]
      <4>1. CASE x = c
        BY <4>1, <3>1, <3>2, <3>3, <3>5 DEF p
      <4>2. CASE x # c
        BY <4>2, <3>1, <3>2, <3>3, <3>5
      <4>. QED  BY <4>1, <4>2
    <3>. QED  BY <3>6, <3>7
  <2>. QED  BY <2>1, <2>2
<1>2. Blocks \subseteq G
  <2> HIDE DEF G
  <2>. QED  BY <1>1, BlockInduction
<1>. QED  BY <1>2, BranchUnfolds

(* The headers below the head of a readable branch are the branch, in the  *)
(* order of falling heights; below a block of it, they are those of the    *)
(* block.                                                                  *)
LEMMA AncestorsOfReadable ==
  ASSUME IsTree(tree), NEW STATE b, b \in Blocks, Readable(b)
  PROVE  LET walk == Ancestors({}) IN
         /\ Len(walk[b]) = tree.height[b] + 1
         /\ \A i \in 1..Len(walk[b]) : /\ walk[b][i] \in Branch[b]
                                       /\ tree.height[walk[b][i]] = tree.height[b] - i + 1
         /\ \A x \in Branch[b] : \A m \in 1..(tree.height[x] + 1) :
              walk[b][tree.height[b] - tree.height[x] + m] = walk[x][m]
         /\ walk[b][1] = b
<1> DEFINE w == Ancestors({})
           h == tree.height
           P(c) == /\ Len(w[c]) = h[c] + 1
                   /\ \A i \in 1..Len(w[c]) : w[c][i] \in Branch[c] /\ h[w[c][i]] = h[c] - i + 1
                   /\ \A x \in Branch[c] : \A m \in 1..(h[x] + 1) : w[c][h[c] - h[x] + m] = w[x][m]
                   /\ w[c][1] = c
           G == {c \in Blocks : Readable(c) => P(c)}
<1> HIDE DEF w, h
<1>h. /\ h \in [Blocks -> Nat] /\ h[Genesis] = 0
      /\ \A c \in Blocks : c # Genesis => tree.parent[c] \in Blocks /\ tree.parent[c] < c
                                           /\ h[c] = h[tree.parent[c]] + 1
  BY TreeFacts DEF h
<1>1. ASSUME NEW c \in Blocks, \A d \in Blocks : d < c => d \in G, Readable(c)  PROVE P(c)
  <2>1. c \in Branch[c] /\ HasHeader(c) /\ Branch[c] \subseteq Blocks
    BY <1>1, BranchFacts DEF Readable
  <2>2. CASE c = Genesis
    <3>1. w[c] = <<c>>
      BY <2>1, <2>2, AncestorsUnfold DEF w
    <3>2. Branch[c] = {c} /\ h[c] = 0
      BY <2>2, <1>h, BranchUnfolds
    <3>. QED  BY <3>1, <3>2
  <2>3. CASE c # Genesis
    <3> DEFINE p == tree.parent[c]
    <3>1. w[c] = <<c>> \o w[p] /\ w[p] \in Seq(Blocks)
      <4>1. p \in Blocks
        BY <2>3, <1>h
      <4> HIDE DEF p
      <4>2. w[p] \in Seq(Blocks)
        BY <4>1, AncestorsUnfold DEF w
      <4>3. w[c] = <<c>> \o w[p]
        BY <2>1, <2>3, AncestorsUnfold DEF w, p
      <4>. QED  BY <4>2, <4>3
    <3>2. Branch[c] = {c} \cup Branch[p]
      BY <2>3, BranchUnfolds
    <3>3. p \in Blocks /\ p < c /\ h[c] = h[p] + 1 /\ h[p] \in Nat
      BY <2>3, <1>h
    <3>4. P(p)
      BY <1>1, <3>2, <3>3 DEF Readable
    <3> HIDE DEF p
    <3>5. /\ Len(w[c]) = h[c] + 1 /\ w[c][1] = c
          /\ \A i \in 1..(h[p] + 1) : w[c][i + 1] = w[p][i]
      BY <3>1, <3>3, <3>4
    <3>6. ASSUME NEW i \in 1..Len(w[c])
          PROVE  w[c][i] \in Branch[c] /\ h[w[c][i]] = h[c] - i + 1
      <4>1. CASE i = 1
        BY <4>1, <3>5, <2>1, <1>h
      <4>2. CASE i # 1
        <5>1. i - 1 \in 1..(h[p] + 1) /\ i - 1 + 1 = i
          BY <4>2, <3>3, <3>5
        <5>2. w[c][i] = w[p][i - 1]
          BY <5>1, <3>5
        <5>3. w[p][i - 1] \in Branch[p] /\ h[w[p][i - 1]] = h[p] - (i - 1) + 1
          BY <5>1, <3>4
        <5>. QED  BY <5>2, <5>3, <3>2, <3>3
      <4>. QED  BY <4>1, <4>2
    <3>7. ASSUME NEW x \in Branch[c], NEW m \in 1..(h[x] + 1)
          PROVE  w[c][h[c] - h[x] + m] = w[x][m]
      <4>1. CASE x = c
        BY <4>1, <1>h
      <4>2. CASE x # c
        <5>1. x \in Branch[p] /\ h[x] \in Nat /\ h[x] =< h[p]
          <6>1. x \in Branch[p] /\ h[x] \in Nat
            BY <4>2, <2>1, <3>2, <1>h
          <6>2. h[x] =< h[p]
            BY <6>1, <3>3, BranchFacts DEF h
          <6>. QED  BY <6>1, <6>2
        <5>2. w[p][h[p] - h[x] + m] = w[x][m]
          BY <5>1, <3>4
        <5>3. h[p] - h[x] + m \in 1..(h[p] + 1) /\ h[p] - h[x] + m + 1 = h[c] - h[x] + m
          BY <5>1, <3>3
        <5>. QED  BY <5>2, <5>3, <3>5
      <4>. QED  BY <4>1, <4>2
    <3>. QED  BY <3>5, <3>6, <3>7
  <2>. QED  BY <2>2, <2>3
<1>2. Blocks \subseteq G
  <2>1. \A c \in Blocks : (\A d \in Blocks : d < c => d \in G) => c \in G
    BY <1>1
  <2> HIDE DEF G
  <2>. QED  BY <2>1, BlockInduction
<1>3. P(b)
  BY <1>2
<1>. QED  BY <1>3 DEF w, h

-----------------------------------------------------------------------------
(* A set that has every number whose predecessors it has, has all numbers. *)
LEMMA NumberInduction ==
  ASSUME NEW STATE G, \A n \in Nat : (\A m \in Nat : m < n => m \in G) => n \in G
  PROVE  Nat \subseteq G
<1> DEFINE Bad == Nat \ G
<1>1. SUFFICES ASSUME Bad # {}  PROVE FALSE
  OBVIOUS
<1>2. \E n \in Bad : \A m \in Bad : n =< m
  <2>1. Bad \in SUBSET Nat
    OBVIOUS
  <2> HIDE DEF Bad
  <2>. QED  BY <1>1, <2>1, LeastOf
<1>3. PICK n \in Bad : \A m \in Bad : n =< m
  BY <1>2
<1>4. ASSUME NEW m \in Nat, m < n  PROVE m \in G
  BY <1>3, <1>4
<1>. QED  BY <1>3, <1>4

(* The block a sum adds first. *)
First(S) == CHOOSE x \in S : TRUE

(* Sets of blocks other than the genesis block are finite, and one smaller *)
(* without the block a sum adds first.                                     *)
LEMMA SetsOfBlocks ==
  ASSUME NEW S, S \subseteq Blocks \ {Genesis}
  PROVE  /\ IsFiniteSet(S) /\ Cardinality(S) \in Nat
         /\ S # {} => /\ First(S) \in S
                      /\ Cardinality(S \ {First(S)}) \in Nat
                      /\ Cardinality(S \ {First(S)}) < Cardinality(S)
<1>1. IsFiniteSet(Blocks)
  BY BlockFacts, FS_Interval
<1>2. IsFiniteSet(S) /\ Cardinality(S) \in Nat
  BY <1>1, FS_Subset, FS_CardinalityType
<1>3. ASSUME S # {}
      PROVE  /\ First(S) \in S
             /\ Cardinality(S \ {First(S)}) \in Nat
             /\ Cardinality(S \ {First(S)}) < Cardinality(S)
  <2>1. First(S) \in S
    BY <1>3 DEF First
  <2>2. Cardinality(S \ {First(S)}) = Cardinality(S) - 1 /\ IsFiniteSet(S \ {First(S)})
    BY <1>2, <2>1, FS_RemoveElement
  <2>3. Cardinality(S \ {First(S)}) \in Nat
    BY <2>2, FS_CardinalityType
  <2>. QED  BY <1>2, <2>1, <2>2, <2>3
<1>. QED  BY <1>2, <1>3

(* The function from sets to sums, up to a size.                           *)
Sums(f, W, work) ==
  \A T \in W : f[T] = IF T = {} THEN 0 ELSE work[First(T)] + f[T \ {First(T)}]

(* There is one for the subsets of every set of blocks.                    *)
LEMMA SumsExist ==
  ASSUME NEW work, work \in [Blocks \ {Genesis} -> Nat], NEW S, S \subseteq Blocks \ {Genesis}
  PROVE  \E f \in [SUBSET S -> Nat] : Sums(f, SUBSET S, work)
<1> DEFINE Size(n) == {T \in SUBSET S : Cardinality(T) =< n}
           G == {n \in Nat : \E f \in [Size(n) -> Nat] : Sums(f, Size(n), work)}
<1>0. \A T \in SUBSET S : /\ Cardinality(T) \in Nat
                          /\ T # {} => /\ First(T) \in S /\ T \ {First(T)} \in SUBSET S
                                       /\ Cardinality(T \ {First(T)}) \in Nat
                                       /\ Cardinality(T \ {First(T)}) < Cardinality(T)
  BY SetsOfBlocks
<1>1. ASSUME NEW n \in Nat, \A m \in Nat : m < n => m \in G  PROVE n \in G
  <2>1. PICK f \in [Size(n - 1) -> Nat] : Sums(f, Size(n - 1), work)
    <3>1. CASE n = 0
      <4>1. ASSUME NEW T \in Size(n - 1)  PROVE FALSE
        <5>1. Cardinality(T) \in Nat /\ Cardinality(T) =< 0 - 1
          BY <3>1, <1>0
        <5>. QED  BY <5>1
      <4>2. [T \in {} |-> 0] \in [Size(n - 1) -> Nat] /\ Sums([T \in {} |-> 0], Size(n - 1), work)
        BY <4>1 DEF Sums
      <4>. QED  BY <4>2
    <3>2. CASE n # 0
      <4>1. n - 1 \in Nat /\ n - 1 < n
        BY <3>2
      <4>. QED  BY <4>1, <1>1
    <3>. QED  BY <3>1, <3>2
  <2> DEFINE g == [T \in Size(n) |-> IF T = {} THEN 0 ELSE work[First(T)] + f[T \ {First(T)}]]
  <2>2. \A T \in Size(n) : T # {} => T \ {First(T)} \in Size(n - 1)
    BY <1>0
  <2>3. \A T \in Size(n) : T # {} => work[First(T)] \in Nat
    BY <1>0
  <2>4. g \in [Size(n) -> Nat]
    BY <2>2, <2>3
  <2>5. ASSUME NEW T \in Size(n - 1)  PROVE T \in Size(n)
    <3>1. Cardinality(T) \in Nat /\ Cardinality(T) =< n - 1
      BY <1>0
    <3>. QED  BY <3>1
  <2>6. ASSUME NEW T \in Size(n - 1)  PROVE g[T] = f[T]
    BY <2>1, <2>5 DEF Sums
  <2>7. Sums(g, Size(n), work)
    BY <2>2, <2>5, <2>6 DEF Sums
  <2>. QED  BY <2>4, <2>7
<1>2. Nat \subseteq G
  <2> HIDE DEF G
  <2>. QED  BY <1>1, NumberInduction
<1>3. Cardinality(S) \in Nat /\ Size(Cardinality(S)) = SUBSET S
  <2>1. IsFiniteSet(S)
    BY SetsOfBlocks
  <2>2. \A T \in SUBSET S : Cardinality(T) =< Cardinality(S)
    BY <2>1, FS_Subset
  <2>. QED  BY <1>0, <2>2
<1>4. \E f \in [Size(Cardinality(S)) -> Nat] : Sums(f, Size(Cardinality(S)), work)
  BY <1>2, <1>3
<1> HIDE DEF Size, G
<1>. QED  BY <1>3, <1>4

(* The work of no block is 0, that of any others is more.                  *)
LEMMA WorkFacts ==
  ASSUME IsTree(tree), NEW STATE S, S \subseteq Blocks \ {Genesis}
  PROVE  /\ WorkOf(S) \in Nat
         /\ S = {} <=> WorkOf(S) = 0
<1> DEFINE Rule(f) == [T \in SUBSET S |->
                         IF T = {} THEN 0 ELSE tree.work[First(T)] + f[T \ {First(T)}]]
           w == CHOOSE f : f = Rule(f)
<1>1. \A b \in Blocks \ {Genesis} : tree.work[b] \in Nat \ {0}
  BY TreeFacts, ForkAssumption
<1>2. \E f : f = Rule(f)
  <2>1. tree.work \in [Blocks \ {Genesis} -> Nat]
    BY TreeFacts, <1>1
  <2>2. PICK f \in [SUBSET S -> Nat] : Sums(f, SUBSET S, tree.work)
    BY <2>1, SumsExist
  <2>3. f = Rule(f)
    BY <2>2 DEF Sums
  <2>. QED  BY <2>3
<1>3. WorkOf(S) = w[S]
  BY DEF WorkOf, MapThenSumSet, MapThenFoldSet, First
<1>4. w = Rule(w)
  <2> HIDE DEF Rule
  <2>. QED  BY <1>2
<1>5. \A T \in SUBSET S : w[T] = IF T = {} THEN 0 ELSE tree.work[First(T)] + w[T \ {First(T)}]
  <2> HIDE DEF w
  <2>. QED  BY <1>4
<1> HIDE DEF w, Rule
<1> DEFINE G == {n \in Nat : \A T \in SUBSET S : Cardinality(T) = n => w[T] \in Nat}
<1>0. \A T \in SUBSET S : /\ Cardinality(T) \in Nat
                          /\ T # {} => /\ First(T) \in S /\ T \ {First(T)} \in SUBSET S
                                       /\ Cardinality(T \ {First(T)}) \in Nat
                                       /\ Cardinality(T \ {First(T)}) < Cardinality(T)
  BY SetsOfBlocks
<1>6. ASSUME NEW n \in Nat, \A m \in Nat : m < n => m \in G  PROVE n \in G
  <2>1. SUFFICES ASSUME NEW T \in SUBSET S, Cardinality(T) = n  PROVE w[T] \in Nat
    OBVIOUS
  <2>2. CASE T = {}
    <3>1. w[T] = 0
      BY <2>2, <1>5
    <3>. QED  BY <3>1
  <2>3. CASE T # {}
    <3>1. w[T \ {First(T)}] \in Nat
      BY <2>1, <2>3, <1>0, <1>6
    <3>2. tree.work[First(T)] \in Nat
      BY <2>3, <1>0, <1>1
    <3>. QED  BY <3>1, <3>2, <2>3, <1>5
  <2>. QED  BY <2>2, <2>3
<1>7. Nat \subseteq G
  <2> HIDE DEF G
  <2>. QED  BY <1>6, NumberInduction
<1>8. \A T \in SUBSET S : w[T] \in Nat
  BY <1>0, <1>7
<1>9. S # {} => w[S] # 0
  <2>1. S # {} => tree.work[First(S)] \in Nat \ {0} /\ w[S \ {First(S)}] \in Nat
    BY <1>0, <1>1, <1>8
  <2>. QED  BY <2>1, <1>5
<1>10. S = {} => w[S] = 0
  BY <1>5
<1>. QED  BY <1>3, <1>8, <1>9, <1>10
=============================================================================
