-------------------------- MODULE ForkChoiceProofs --------------------------
(***************************************************************************)
(* The choice of heads, for every number of blocks, tree and work.         *)
(*                                                                         *)
(* What resolve_fork compares is put in closed form first: the orphans of  *)
(* a head are the blocks between it and the height of the other, and two   *)
(* walks from the same height go through what each branch has alone. The   *)
(* state then only has to guarantee that whatever is in validation can be  *)
(* read down to the genesis block.                                         *)
(***************************************************************************)
EXTENDS TreeProofs

(* No two blocks of a branch are equally high.                             *)
LEMMA OneBlockPerHeight ==
  ASSUME IsTree(tree), NEW STATE b, b \in Blocks, Readable(b),
         NEW x \in Branch[b], NEW y \in Branch[b], tree.height[x] = tree.height[y]
  PROVE  x = y
<1> DEFINE w == Ancestors({})
           h == tree.height
<1>1. h[b] \in Nat /\ h[x] \in Nat /\ h[x] =< h[b] /\ x \in Blocks /\ y \in Blocks
  BY BranchFacts, TreeFacts
<1>2. Readable(x) /\ Readable(y)
  BY BranchFacts DEF Readable
<1>3. w[x][1] = x /\ w[y][1] = y
  BY <1>1, <1>2, AncestorsOfReadable
<1>4. w[b][h[b] - h[x] + 1] = w[x][1] /\ w[b][h[b] - h[y] + 1] = w[y][1]
  BY <1>1, AncestorsOfReadable
<1>. QED  BY <1>3, <1>4

(* The orphans of a head are the blocks between it and the height of the   *)
(* other head, that height included.                                       *)
LEMMA OrphansAreBetween ==
  ASSUME IsTree(tree), NEW STATE b, b \in Blocks \ {Genesis}, Readable(b),
         NEW STATE other, other \in Blocks
  PROVE  Orphans(b, other, {}) =
           {x \in Branch[b] \ {b, Genesis} : tree.height[x] >= tree.height[other]}
<1> DEFINE h == tree.height
           p == tree.parent[b]
           above == Ancestors({})[p]
           count == IF h[b] > h[other] THEN h[b] - h[other] ELSE 0
           Between == {x \in Branch[b] \ {b, Genesis} : h[x] >= h[other]}
<1>1. /\ p \in Blocks /\ Branch[b] = {b} \cup Branch[p] /\ h[b] = h[p] + 1
      /\ h[p] \in Nat /\ h[other] \in Nat
  BY TreeFacts, BranchUnfolds
<1>2. Readable(p)
  BY <1>1 DEF Readable
<1>3. /\ Len(above) = h[p] + 1
      /\ \A i \in 1..Len(above) : above[i] \in Branch[p] /\ h[above[i]] = h[p] - i + 1
      /\ \A x \in Branch[p] : above[h[p] - h[x] + 1] = Ancestors({})[x][1]
  <2> HIDE DEF p
  <2>1. /\ Len(above) = h[p] + 1
        /\ \A i \in 1..Len(above) : above[i] \in Branch[p] /\ h[above[i]] = h[p] - i + 1
    BY <1>1, <1>2, AncestorsOfReadable
  <2>2. ASSUME NEW x \in Branch[p]  PROVE above[h[p] - h[x] + 1] = Ancestors({})[x][1]
    <3>1. 1 \in 1..(h[x] + 1)
      BY <1>1, BranchFacts, TreeFacts
    <3>. QED  BY <1>1, <1>2, <3>1, AncestorsOfReadable
  <2>. QED  BY <2>1, <2>2
<1>4. \A x \in Branch[p] : /\ x \in Blocks /\ Ancestors({})[x][1] = x
                           /\ h[x] \in Nat /\ h[x] =< h[p] /\ x # b
  <2>1. ASSUME NEW x \in Branch[p]  PROVE Readable(x) /\ x \in Blocks
    BY <1>1, <1>2, BranchFacts DEF Readable
  <2>2. \A x \in Branch[p] : h[x] \in Nat /\ h[x] =< h[p]
    BY <1>1, <2>1, BranchFacts, TreeFacts
  <2>. QED  BY <1>1, <2>1, <2>2, AncestorsOfReadable
<1>5. Orphans(b, other, {}) = {above[i] : i \in {j \in 1..Len(above) : j =< count /\ IsPow(above[j])}}
  BY DEF Orphans
<1> HIDE DEF h, p, above, count
<1>6. ASSUME NEW i \in 1..Len(above), i =< count, IsPow(above[i])
      PROVE  above[i] \in Between
  <2>1. above[i] \in Branch[p] /\ h[above[i]] = h[p] - i + 1 /\ above[i] # Genesis
    BY <1>3, <1>6 DEF IsPow
  <2>2. h[above[i]] >= h[other]
    BY <2>1, <1>1, <1>6 DEF count
  <2>. QED  BY <2>1, <2>2, <1>1, <1>4
<1>7. ASSUME NEW x \in Between
      PROVE  \E i \in 1..Len(above) : i =< count /\ IsPow(above[i]) /\ above[i] = x
  <2>1. x \in Branch[p] /\ x # Genesis /\ h[x] \in Nat /\ h[x] =< h[p] /\ h[x] >= h[other]
    BY <1>1, <1>4
  <2> DEFINE i == h[p] - h[x] + 1
  <2>2. i \in 1..Len(above) /\ i =< count
    BY <2>1, <1>1, <1>3 DEF count
  <2>3. above[i] = x
    BY <2>1, <1>3, <1>4
  <2>4. IsPow(x)
    BY <2>1, <1>2, <1>1 DEF Readable, HasHeader
  <2>. QED  BY <2>2, <2>3, <2>4
<1> HIDE DEF Between
<1>8. Orphans(b, other, {}) = Between
  BY <1>5, <1>6, <1>7
<1>. QED  BY <1>8 DEF Between, h

(* What is left of the branch above another head of the branch.            *)
LEMMA OrphansAboveAncestor ==
  ASSUME IsTree(tree), NEW STATE b, b \in Blocks, Readable(b),
         NEW STATE a, a \in Branch[b] \ {b, Genesis}
  PROVE  /\ a \in Orphans(b, a, {}) /\ Orphans(b, a, {}) \subseteq Blocks \ {Genesis}
         /\ Orphans(a, b, {}) = {}
         /\ ForkHead(b, a, {}) = a /\ ForkHead(a, b, {}) = a
<1> DEFINE h == tree.height
           S == Orphans(b, a, {})
<1>1. /\ a \in Blocks \ {Genesis} /\ Readable(a) /\ b \in Blocks \ {Genesis}
      /\ h[a] \in Nat /\ h[b] \in Nat /\ h[a] < h[b]
      /\ \A x \in Blocks : h[x] \in Nat
  BY BranchFacts, TreeFacts, BranchUnfolds DEF Readable
<1>2. S = {x \in Branch[b] \ {b, Genesis} : h[x] >= h[a]}
  BY <1>1, OrphansAreBetween
<1>3. Orphans(a, b, {}) = {x \in Branch[a] \ {a, Genesis} : h[x] >= h[b]}
  BY <1>1, OrphansAreBetween
<1>4. a \in S /\ S \subseteq Blocks \ {Genesis} /\ S \subseteq Branch[b]
  BY <1>1, <1>2, BranchFacts
<1>5. Orphans(a, b, {}) = {}
  <2>1. ASSUME NEW x \in Branch[a]  PROVE h[x] =< h[a] /\ h[x] \in Nat
    BY <1>1, BranchFacts
  <2>. QED  BY <1>1, <1>3, <2>1
<1> HIDE DEF h, S
<1>6. ForkHead(a, b, {}) = a
  BY <1>5 DEF ForkHead, Lowest
<1>7. ForkHead(b, a, {}) = a
  <2> DEFINE IsLowest(x) == \A c \in S : h[x] =< h[c]
  <2>1. ForkHead(b, a, {}) = CHOOSE x \in S : IsLowest(x)
    BY <1>4 DEF ForkHead, Lowest, S, h
  <2>2. IsLowest(a)
    BY <1>1, <1>2, <1>4
  <2>3. ASSUME NEW x \in S, IsLowest(x)  PROVE x = a
    <3>1. h[x] = h[a] /\ x \in Branch[b] /\ a \in Branch[b]
      BY <2>3, <1>1, <1>2, <1>4
    <3>. QED  BY <3>1, OneBlockPerHeight DEF h
  <2> HIDE DEF IsLowest
  <2>. QED  BY <2>1, <2>2, <2>3, <1>4
<1>. QED  BY <1>4, <1>5, <1>6, <1>7 DEF S

(* A walk paired with itself ends at once.                                 *)
LEMMA NoPairs ==
  ASSUME NEW STATE a, NEW lost
  PROVE  PairedWalk(a, a, lost) = [as |-> {}, bs |-> {}]
<1>1. \A n \in Blocks : 1 \in 1..n
  BY BlockFacts
<1>. QED  BY <1>1 DEF PairedWalk

(* So a head and its ancestor are compared by the blocks between them.     *)
LEMMA AncestorIsWorthLess ==
  ASSUME IsTree(tree), NEW STATE b, b \in Blocks, Readable(b),
         NEW STATE a, a \in Branch[b] \ {b, Genesis}
  PROVE  /\ ResolveFork(a, b, {}) = "commit"
         /\ ResolveFork(b, a, {}) = "ignore"
<1> DEFINE W == WorkOf(Orphans(b, a, {}))
<1>1. W \in Nat /\ W # 0
  <2>1. Orphans(b, a, {}) \subseteq Blocks \ {Genesis} /\ Orphans(b, a, {}) # {}
    BY OrphansAboveAncestor
  <2>. QED  BY <2>1, WorkFacts
<1>2. WorkOf({}) = 0
  BY WorkFacts
<1>3. ComparedWork(a, b, {}) = [cur |-> 0, new |-> W] /\ ComparedWork(b, a, {}) = [cur |-> W, new |-> 0]
  <2>1. /\ Orphans(a, b, {}) = {}
        /\ PairedWalk(ForkHead(b, a, {}), ForkHead(a, b, {}), {}) = [as |-> {}, bs |-> {}]
        /\ PairedWalk(ForkHead(a, b, {}), ForkHead(b, a, {}), {}) = [as |-> {}, bs |-> {}]
    BY OrphansAboveAncestor, NoPairs
  <2> HIDE DEF W
  <2>2. W + 0 = W /\ 0 + 0 = 0
    BY <1>1
  <2>. QED  BY <2>1, <2>2, <1>2 DEF ComparedWork, W
<1>. QED  BY <1>1, <1>3 DEF ResolveFork

(* Between two equally high heads, the paired walk goes through what each  *)
(* branch has for itself.                                                  *)
LEMMA OwnSide ==
  ASSUME IsTree(tree), NEW STATE a, a \in Blocks \ {Genesis}, Readable(a),
         NEW STATE b, b \in Blocks \ {Genesis}, Readable(b), tree.height[a] = tree.height[b]
  PROVE  PairedWalk(a, b, {}).as = Branch[a] \ Branch[b]
<1> DEFINE h == tree.height
           as == Ancestors({})[a]
           bs == Ancestors({})[b]
           goesOn(n) == /\ n =< Len(as) /\ n =< Len(bs)
                        /\ as[n] # bs[n]
                        /\ IsPow(as[n]) /\ IsPow(bs[n])
           steps == {n \in Blocks : \A m \in 1..n : goesOn(m)}
<1>1. PairedWalk(a, b, {}).as = {as[n] : n \in steps}
  BY DEF PairedWalk
<1>2. /\ Len(as) = h[a] + 1 /\ Len(bs) = h[a] + 1
      /\ \A i \in 1..Len(as) : as[i] \in Branch[a] /\ h[as[i]] = h[a] - i + 1
      /\ \A i \in 1..Len(bs) : bs[i] \in Branch[b] /\ h[bs[i]] = h[a] - i + 1
      /\ \A x \in Branch[a] : \A m \in 1..(h[x] + 1) : as[h[a] - h[x] + m] = Ancestors({})[x][m]
      /\ \A x \in Branch[b] : \A m \in 1..(h[x] + 1) : bs[h[a] - h[x] + m] = Ancestors({})[x][m]
  BY AncestorsOfReadable
<1>3. /\ h[a] \in Nat /\ a \in Nat /\ h[a] < a /\ a =< MaxBlock
      /\ \A x \in Branch[a] \cup Branch[b] : /\ h[x] \in Nat /\ h[x] =< h[a]
                                             /\ Ancestors({})[x][1] = x
      /\ \A x \in Branch[a] \cup Branch[b] : IsPow(x) <=> x # Genesis
      /\ Genesis \in Branch[a] /\ Genesis \in Branch[b]
  <2>1. ASSUME NEW x \in Branch[a] \cup Branch[b]
        PROVE  /\ h[x] \in Nat /\ h[x] =< h[a]
               /\ Ancestors({})[x][1] = x
               /\ IsPow(x) <=> x # Genesis
    <3>1. x \in Blocks /\ Readable(x)
      BY BranchFacts DEF Readable
    <3>2. Ancestors({})[x][1] = x
      BY <3>1, AncestorsOfReadable
    <3>3. h[x] \in Nat /\ h[x] =< h[a]
      BY <3>1, TreeFacts, BranchFacts
    <3>4. IsPow(x) <=> x # Genesis
      BY DEF Readable, HasHeader, IsPow
    <3>. QED  BY <3>2, <3>3, <3>4
  <2>2. h[a] \in Nat /\ a \in Nat /\ h[a] < a /\ a =< MaxBlock
    <3>1. h[a] \in Nat /\ h[a] < a
      BY TreeFacts, BranchFacts
    <3>2. a \in Nat /\ a =< MaxBlock
      BY BlockFacts DEF Blocks
    <3>. QED  BY <3>1, <3>2
  <2>. QED  BY <2>1, <2>2, BranchFacts
<1> HIDE DEF h, as, bs
<1>4. ASSUME NEW n \in steps  PROVE as[n] \in Branch[a] \ Branch[b]
  <2>0. n \in 1..n /\ n \in Nat
    BY BlockFacts
  <2>1. n \in 1..Len(as) /\ goesOn(n) /\ as[n] \in Branch[a] /\ h[as[n]] = h[a] - n + 1
    <3>1. goesOn(n)
      BY <2>0
    <3>2. n \in 1..Len(as)
      BY <2>0, <3>1, <1>2, <1>3
    <3>. QED  BY <3>1, <3>2, <1>2
  <2>2. SUFFICES ASSUME as[n] \in Branch[b]  PROVE FALSE
    BY <2>1
  <2>3. bs[h[a] - h[as[n]] + 1] = Ancestors({})[as[n]][1]
    <3>1. h[as[n]] \in Nat
      BY <2>1, <1>3
    <3>2. 1 \in 1..(h[as[n]] + 1)
      <4>1. \A k \in Nat : 1 \in 1..(k + 1)
        OBVIOUS
      <4>. QED  BY <3>1, <4>1
    <3>. QED  BY <2>2, <3>2, <1>2
  <2>4. h[a] - h[as[n]] + 1 = n
    BY <2>1, <1>3
  <2>5. bs[n] = as[n]
    BY <2>2, <2>3, <2>4, <1>3
  <2>. QED  BY <2>1, <2>5
<1>5. ASSUME NEW x \in Branch[a] \ Branch[b]  PROVE \E n \in steps : as[n] = x
  <2> DEFINE n == h[a] - h[x] + 1
  <2>1. h[x] \in Nat /\ h[x] =< h[a] /\ x # Genesis
    BY <1>3
  <2>2. h[x] # 0
    <3>1. x \in Blocks
      BY BranchFacts
    <3>. QED  BY <2>1, <3>1, BranchFacts DEF h
  <2>3. n \in 1..Len(as) /\ n \in Blocks
    BY <2>1, <2>2, <1>2, <1>3, BlockFacts
  <2>4. as[n] = x
    <3>1. 1 \in 1..(h[x] + 1)
      BY <2>1
    <3>2. as[n] = Ancestors({})[x][1]
      BY <3>1, <1>2
    <3>. QED  BY <3>2, <1>3
  <2>n. n \in Nat /\ n =< Len(as) /\ n =< Len(bs) /\ h[x] = h[a] - n + 1
    BY <2>1, <2>3, <1>2, <1>3
  <2> HIDE DEF n
  <2>5. ASSUME NEW m \in 1..n  PROVE goesOn(m)
    <3>1. /\ m \in 1..Len(as) /\ m \in 1..Len(bs)
          /\ as[m] \in Branch[a] /\ h[as[m]] = h[a] - m + 1
          /\ bs[m] \in Branch[b] /\ h[bs[m]] = h[a] - m + 1
      <4>1. m \in 1..Len(as) /\ m \in 1..Len(bs)
        BY <2>n, <1>2, <1>3
      <4>. QED  BY <4>1, <1>2
    <3>2. h[as[m]] >= h[x] /\ h[as[m]] # 0 /\ h[bs[m]] # 0
      BY <2>1, <2>2, <2>n, <3>1, <1>3
    <3>3. IsPow(as[m]) /\ IsPow(bs[m])
      BY <3>1, <3>2, <1>3, TreeFacts DEF h
    <3>4. as[m] # bs[m]
      <4>1. SUFFICES ASSUME as[m] = bs[m]  PROVE FALSE
        OBVIOUS
      <4> DEFINE y == as[m]
                 k == n - m + 1
      <4>2. y \in Branch[a] /\ y \in Branch[b] /\ h[y] \in Nat /\ h[y] = h[a] - m + 1
        BY <4>1, <3>1, <1>3
      <4> HIDE DEF y
      <4>3. k \in 1..(h[y] + 1) /\ h[a] - h[y] + k = n
        <5>1. m \in Int /\ 1 =< m /\ m =< n
          BY <2>n
        <5>2. h[y] + 1 = h[a] - m + 2 /\ k =< h[a] - m + 2
          BY <5>1, <4>2, <2>n, <1>3, <2>1
        <5>3. k \in Int /\ 1 =< k /\ k =< h[y] + 1
          BY <5>1, <5>2, <4>2, <2>n, <1>3
        <5>4. h[a] - h[y] = m - 1
          BY <5>1, <4>2, <1>3
        <5>5. m - 1 + k = n
          BY <5>1, <2>n
        <5>. QED  BY <5>3, <5>4, <5>5, <4>2
      <4> HIDE DEF k
      <4>4. as[n] = Ancestors({})[y][k] /\ bs[n] = Ancestors({})[y][k]
        <5>1. as[h[a] - h[y] + k] = Ancestors({})[y][k] /\ bs[h[a] - h[y] + k] = Ancestors({})[y][k]
          BY <4>2, <4>3, <1>2
        <5>. QED  BY <4>3, <5>1
      <4>5. bs[n] \in Branch[b]
        BY <2>3, <1>2
      <4>. QED  BY <4>4, <4>5, <2>4
    <3>5. m =< Len(as) /\ m =< Len(bs)
      BY <2>n, <1>2, <1>3
    <3>. QED  BY <3>3, <3>4, <3>5
  <2>. QED  BY <2>3, <2>4, <2>5
<1> HIDE DEF steps
<1>6. {as[n] : n \in steps} = Branch[a] \ Branch[b]
  BY <1>4, <1>5
<1>. QED  BY <1>1, <1>6

(* Nothing depends on which of two heads is called the current one.        *)
LEMMA WalkIsSymmetric ==
  ASSUME NEW STATE a, NEW STATE b, NEW lost
  PROVE  PairedWalk(a, b, lost).as = PairedWalk(b, a, lost).bs
BY DEF PairedWalk

(* Nor which of two heads is.                                              *)
LEMMA ComparisonIsSymmetric ==
  ASSUME NEW STATE a, NEW STATE b, NEW lost
  PROVE  /\ ComparedWork(a, b, lost).cur = ComparedWork(b, a, lost).new
         /\ ComparedWork(a, b, lost).new = ComparedWork(b, a, lost).cur
<1>1. PairedWalk(ForkHead(a, b, lost), ForkHead(b, a, lost), lost).as
        = PairedWalk(ForkHead(b, a, lost), ForkHead(a, b, lost), lost).bs
  BY WalkIsSymmetric
<1>2. PairedWalk(ForkHead(b, a, lost), ForkHead(a, b, lost), lost).as
        = PairedWalk(ForkHead(a, b, lost), ForkHead(b, a, lost), lost).bs
  BY WalkIsSymmetric
<1>. QED  BY <1>1, <1>2 DEF ComparedWork

(* There is a lowest among any blocks.                                     *)
LEMMA LowestOf ==
  ASSUME IsTree(tree), NEW STATE S, S \subseteq Blocks, S # {}, NEW STATE default
  PROVE  Lowest(S, default) \in S
<1> DEFINE Heights == {tree.height[c] : c \in S}
<1>1. \E m \in Heights : \A k \in Heights : m =< k
  <2>1. Heights \in SUBSET Nat /\ Heights # {}
    BY TreeFacts
  <2> HIDE DEF Heights
  <2>. QED  BY <2>1, LeastOf
<1>2. PICK c \in S : \A d \in S : tree.height[c] =< tree.height[d]
  BY <1>1
<1>3. Lowest(S, default) = CHOOSE d \in S : \A e \in S : tree.height[d] =< tree.height[e]
  BY DEF Lowest
<1>. QED  BY <1>2, <1>3

(* The paired walk goes through ancestors, and not to the genesis block.   *)
LEMMA WalkedBlocks ==
  ASSUME IsTree(tree), NEW STATE x, x \in Blocks, NEW STATE y, y \in Blocks, NEW lost
  PROVE  /\ \A b \in PairedWalk(x, y, lost).as :
              b # Genesis /\ \E n \in 1..Len(Ancestors(lost)[x]) : b = Ancestors(lost)[x][n]
         /\ \A b \in PairedWalk(x, y, lost).bs :
              b # Genesis /\ \E n \in 1..Len(Ancestors(lost)[y]) : b = Ancestors(lost)[y][n]
<1> DEFINE as == Ancestors(lost)[x]
           bs == Ancestors(lost)[y]
           goesOn(n) == /\ n =< Len(as) /\ n =< Len(bs)
                        /\ as[n] # bs[n]
                        /\ IsPow(as[n]) /\ IsPow(bs[n])
           steps == {n \in Blocks : \A m \in 1..n : goesOn(m)}
<1>1. as \in Seq(Blocks) /\ bs \in Seq(Blocks)
  BY AncestorsUnfold
<1>2. PairedWalk(x, y, lost) = [as |-> {as[n] : n \in steps}, bs |-> {bs[n] : n \in steps}]
  BY DEF PairedWalk
<1>3. ASSUME NEW n \in steps
      PROVE  /\ n \in 1..Len(as) /\ n \in 1..Len(bs)
             /\ as[n] # Genesis /\ bs[n] # Genesis
  <2>1. n \in 1..n
    BY BlockFacts
  <2>2. goesOn(n)
    BY <2>1
  <2> HIDE DEF as, bs
  <2>3. n \in 1..Len(as) /\ n \in 1..Len(bs)
    <3>1. n \in Nat /\ n =< Len(as) /\ n =< Len(bs)
      BY <2>2, BlockFacts
    <3>2. Len(as) \in Nat /\ Len(bs) \in Nat
      BY <1>1, LenProperties
    <3>3. \A i, k \in Nat : i \in 1..i /\ i =< k => i \in 1..k
      OBVIOUS
    <3>. QED  BY <2>1, <3>1, <3>2, <3>3
  <2>. QED  BY <2>2, <2>3 DEF IsPow
<1> HIDE DEF steps, as, bs
<1>4. PairedWalk(x, y, lost).as = {as[n] : n \in steps}
  BY <1>2
<1>5. PairedWalk(x, y, lost).bs = {bs[n] : n \in steps}
  BY <1>2
<1>6. \A b \in PairedWalk(x, y, lost).as : b # Genesis /\ \E n \in 1..Len(as) : b = as[n]
  BY <1>3, <1>4
<1>7. \A b \in PairedWalk(x, y, lost).bs : b # Genesis /\ \E n \in 1..Len(bs) : b = bs[n]
  BY <1>3, <1>5
<1>. QED  BY <1>6, <1>7 DEF as, bs

(* Works of heads are numbers.                                             *)
LEMMA ComparedAreNumbers ==
  ASSUME IsTree(tree), NEW STATE a, a \in Blocks \ {Genesis},
         NEW STATE b, b \in Blocks \ {Genesis}, NEW lost
  PROVE  ComparedWork(a, b, lost) \in [cur : Nat, new : Nat]
<1>1. ASSUME NEW STATE x, x \in Blocks \ {Genesis}, NEW STATE y
      PROVE  Orphans(x, y, lost) \subseteq Blocks \ {Genesis}
  <2> DEFINE above == Ancestors(lost)[tree.parent[x]]
  <2>1. above \in Seq(Blocks)
    BY <1>1, AncestorsUnfold, TreeFacts
  <2>. QED  BY <2>1 DEF Orphans, IsPow
<1>2. ASSUME NEW STATE x, x \in Blocks, NEW STATE y, y \in Blocks
      PROVE  /\ PairedWalk(x, y, lost).as \subseteq Blocks \ {Genesis}
             /\ PairedWalk(x, y, lost).bs \subseteq Blocks \ {Genesis}
  <2>1. Ancestors(lost)[x] \in Seq(Blocks) /\ Ancestors(lost)[y] \in Seq(Blocks)
    BY <1>2, AncestorsUnfold
  <2>2. /\ \A n \in 1..Len(Ancestors(lost)[x]) : Ancestors(lost)[x][n] \in Blocks
        /\ \A n \in 1..Len(Ancestors(lost)[y]) : Ancestors(lost)[y][n] \in Blocks
    BY <2>1, ElementOfSeq
  <2>. QED  BY <1>2, <2>2, WalkedBlocks
<1>3. ASSUME NEW STATE x, x \in Blocks \ {Genesis}, NEW STATE y
      PROVE  ForkHead(x, y, lost) \in Blocks
  <2>1. CASE Orphans(x, y, lost) = {}
    BY <2>1, <1>3 DEF ForkHead, Lowest
  <2>2. CASE Orphans(x, y, lost) # {}
    BY <2>2, <1>1, <1>3, LowestOf DEF ForkHead
  <2>. QED  BY <2>1, <2>2
<1>4. ForkHead(a, b, lost) \in Blocks /\ ForkHead(b, a, lost) \in Blocks
  BY <1>3
<1> DEFINE p == PairedWalk(ForkHead(a, b, lost), ForkHead(b, a, lost), lost)
<1>5. p.as \subseteq Blocks \ {Genesis} /\ p.bs \subseteq Blocks \ {Genesis}
  BY <1>2, <1>4
<1>6. /\ Orphans(a, b, lost) \subseteq Blocks \ {Genesis}
      /\ Orphans(b, a, lost) \subseteq Blocks \ {Genesis}
  BY <1>1
<1>7. ComparedWork(a, b, lost) = [cur |-> WorkOf(Orphans(a, b, lost)) + WorkOf(p.as),
                                  new |-> WorkOf(Orphans(b, a, lost)) + WorkOf(p.bs)]
  BY DEF ComparedWork
<1> HIDE DEF p
<1>8. /\ WorkOf(Orphans(a, b, lost)) \in Nat /\ WorkOf(p.as) \in Nat
      /\ WorkOf(Orphans(b, a, lost)) \in Nat /\ WorkOf(p.bs) \in Nat
  BY <1>5, <1>6, WorkFacts
<1>. QED  BY <1>7, <1>8

(* A readable block above a genesis head descends from it.                 *)
LEMMA SwitchCommits ==
  ASSUME IsTree(tree), NEW STATE b, b \in Blocks \ {Genesis}, Readable(b)
  PROVE  SwitchConsensus(Genesis, b, {}) = "commit"
<1> DEFINE V == {"commit", "ignore", "error"}
           Rule(f) == [c \in Blocks |->
                         IF c = Genesis THEN "ignore"
                         ELSE IF tree.parent[c] = Genesis THEN "commit"
                         ELSE IF ~IsPow(c) THEN "ignore"
                         ELSE IF tree.parent[c] \in {} THEN "error"
                         ELSE f[tree.parent[c]]]
           walk == CHOOSE f : f = Rule(f)
           rule == [x \in Blocks \X V |->
                      IF tree.parent[x[1]] = Genesis THEN "commit"
                      ELSE IF ~IsPow(x[1]) THEN "ignore"
                      ELSE x[2]]
<1>1. rule \in Rules(V) /\ "ignore" \in V
  BY DEF Rules
<1>2. \A c \in Blocks, v \in V : rule[<<c, v>>] = IF tree.parent[c] = Genesis THEN "commit"
                                                 ELSE IF ~IsPow(c) THEN "ignore"
                                                 ELSE v
  OBVIOUS
<1> HIDE DEF rule
<1>3. PICK f \in [Blocks -> V] : Computes(f, tree.parent, "ignore", rule)
  <2> HIDE DEF V
  <2>. QED  BY <1>1, RecursionOnParents, TreeFacts, Zenon
<1>4. f = Rule(f)
  <2>1. ASSUME NEW c \in Blocks, c # Genesis
        PROVE  f[c] = IF tree.parent[c] = Genesis THEN "commit"
                      ELSE IF ~IsPow(c) THEN "ignore"
                      ELSE f[tree.parent[c]]
    <3>1. f[tree.parent[c]] \in V
      BY <2>1, TreeFacts
    <3> HIDE DEF V
    <3>2. f[c] = rule[<<c, f[tree.parent[c]]>>]
      BY <2>1, <1>3 DEF Computes
    <3>. QED  BY <1>2, <3>1, <3>2
  <2>2. f[Genesis] = "ignore"
    BY <1>3, BlockFacts DEF Computes
  <2>. QED  BY <2>1, <2>2
<1>5. walk = Rule(walk)
  <2> HIDE DEF Rule
  <2>. QED  BY <1>4
<1>6. SwitchConsensus(Genesis, b, {}) = walk[b]
  BY DEF SwitchConsensus
<1> HIDE DEF walk
<1>7. \A c \in Blocks : walk[c] = IF c = Genesis THEN "ignore"
                                 ELSE IF tree.parent[c] = Genesis THEN "commit"
                                 ELSE IF ~IsPow(c) THEN "ignore"
                                 ELSE walk[tree.parent[c]]
  BY <1>5
<1> DEFINE G == {c \in Blocks : Readable(c) /\ c # Genesis => walk[c] = "commit"}
<1>8. ASSUME NEW c \in Blocks, \A d \in Blocks : d < c => d \in G, Readable(c), c # Genesis
      PROVE  walk[c] = "commit"
  <2>1. IsPow(c)
    BY <1>8, BranchFacts DEF Readable, HasHeader
  <2>2. CASE tree.parent[c] = Genesis
    BY <2>2, <1>7, <1>8
  <2>3. CASE tree.parent[c] # Genesis
    <3>1. tree.parent[c] \in Blocks /\ tree.parent[c] < c /\ Readable(tree.parent[c])
      BY <1>8, TreeFacts, BranchUnfolds DEF Readable
    <3>2. walk[tree.parent[c]] = "commit"
      BY <3>1, <2>3, <1>8
    <3>. QED  BY <3>2, <2>1, <2>3, <1>7, <1>8
  <2>. QED  BY <2>2, <2>3
<1>9. Blocks \subseteq G
  <2>1. \A c \in Blocks : (\A d \in Blocks : d < c => d \in G) => c \in G
    BY <1>8
  <2> HIDE DEF G
  <2>. QED  BY <2>1, BlockInduction
<1>. QED  BY <1>6, <1>9

-----------------------------------------------------------------------------
(* A tree that grows. The choice between two blocks depends on what is     *)
(* below them only, so it stays what it was.                               *)

(* The recursive definitions, step by step, and in closed form.            *)
BranchesFollow ==
  /\ Branch \in [Blocks -> SUBSET Blocks]
  /\ Branch[Genesis] = {Genesis}
  /\ \A b \in Blocks \ {Genesis} : Branch[b] = {b} \cup Branch[tree.parent[b]]

AncestorsFollow ==
  /\ Ancestors({}) \in [Blocks -> Seq(Blocks)]
  /\ \A b \in Blocks : Ancestors({})[b] = IF b = Genesis THEN <<b>>
                                          ELSE <<b>> \o Ancestors({})[tree.parent[b]]

Above(b, other) == {x \in Branch[b] \ {b, Genesis} : tree.height[x] >= tree.height[other]}

OrphansFollow ==
  \A b \in Blocks \ {Genesis} : \A other \in Blocks : Orphans(b, other, {}) = Above(b, other)

SwitchesFollow ==
  \A b \in Blocks \ {Genesis} : SwitchConsensus(Genesis, b, {}) = "commit"

(* Every block but the genesis block carries a PoW consensus.              *)
IsPlain == IsTree(tree) /\ tree.alien = {}

(* Then all can be read.                                                   *)
LEMMA AllReadable ==
  ASSUME IsPlain
  PROVE  /\ \A b \in Blocks : HasHeader(b) /\ (IsPow(b) <=> b # Genesis)
         /\ \A b \in Blocks : Readable(b)
<1>1. \A b \in Blocks : HasHeader(b) /\ (IsPow(b) <=> b # Genesis)
  BY DEF IsPlain, HasHeader, IsPow
<1>2. \A b \in Blocks : Branch[b] \subseteq Blocks
  BY BranchUnfolds DEF IsPlain
<1>. QED  BY <1>1, <1>2 DEF Readable

(* In such a tree the definitions all unfold,                              *)
LEMMA FollowNow == IsPlain => BranchesFollow /\ AncestorsFollow /\ OrphansFollow /\ SwitchesFollow
<1>. SUFFICES ASSUME IsPlain
              PROVE  BranchesFollow /\ AncestorsFollow /\ OrphansFollow /\ SwitchesFollow
  OBVIOUS
<1>1. IsTree(tree)
  BY DEF IsPlain
<1>2. BranchesFollow
  BY <1>1, BranchUnfolds DEF BranchesFollow
<1>3. AncestorsFollow
  BY <1>1, AncestorsUnfold, AllReadable DEF AncestorsFollow
<1>4. OrphansFollow
  BY <1>1, OrphansAreBetween, AllReadable DEF OrphansFollow, Above
<1>5. SwitchesFollow
  BY <1>1, SwitchCommits, AllReadable DEF SwitchesFollow
<1>. QED  BY <1>2, <1>3, <1>4, <1>5

(* whatever it grows to.                                                   *)
LEMMA FollowNext ==
  IsPlain' => BranchesFollow' /\ AncestorsFollow' /\ OrphansFollow' /\ SwitchesFollow'
BY FollowNow, PTL

(* The blocks S of the tree are those it had, with all below them.         *)
Keeps(S) ==
  /\ S \subseteq Blocks
  /\ \A b \in S : tree'.height[b] = tree.height[b]
  /\ \A b \in S \ {Genesis} : /\ tree.parent[b] \in S /\ tree'.parent[b] = tree.parent[b]
                              /\ tree'.work[b] = tree.work[b]

(* Neither what is below a block nor the walk down changes.                *)
LEMMA BranchesStay ==
  ASSUME IsPlain, IsPlain', NEW S, Keeps(S)
  PROVE  /\ \A b \in S : Branch'[b] = Branch[b] /\ Branch[b] \subseteq S
         /\ \A b \in S : Ancestors({})'[b] = Ancestors({})[b]
<1>. DEFINE G == {b \in Blocks : b \in S => /\ Branch'[b] = Branch[b] /\ Branch[b] \subseteq S
                                            /\ Ancestors({})'[b] = Ancestors({})[b]}
<1>1. BranchesFollow /\ AncestorsFollow /\ BranchesFollow' /\ AncestorsFollow'
  BY FollowNow, FollowNext
<1>2. ASSUME NEW b \in Blocks, \A c \in Blocks : c < b => c \in G  PROVE b \in G
  <2>1. SUFFICES ASSUME b \in S
                 PROVE  /\ Branch'[b] = Branch[b] /\ Branch[b] \subseteq S
                        /\ Ancestors({})'[b] = Ancestors({})[b]
    OBVIOUS
  <2>2. CASE b = Genesis
    BY <1>1, <2>1, <2>2 DEF BranchesFollow, AncestorsFollow
  <2>3. CASE b # Genesis
    <3>1. tree.parent[b] \in S /\ tree'.parent[b] = tree.parent[b]
      BY <2>1, <2>3 DEF Keeps
    <3>2. tree.parent[b] \in Blocks /\ tree.parent[b] < b
      BY <2>3, TreeFacts DEF IsPlain
    <3>3. /\ Branch'[tree.parent[b]] = Branch[tree.parent[b]] /\ Branch[tree.parent[b]] \subseteq S
          /\ Ancestors({})'[tree.parent[b]] = Ancestors({})[tree.parent[b]]
      BY <1>2, <3>1, <3>2
    <3>4. Branch'[b] = {b} \cup Branch'[tree'.parent[b]] /\ Branch[b] = {b} \cup Branch[tree.parent[b]]
      BY <1>1, <2>3 DEF BranchesFollow
    <3>5. /\ Ancestors({})'[b] = <<b>> \o Ancestors({})'[tree'.parent[b]]
          /\ Ancestors({})[b] = <<b>> \o Ancestors({})[tree.parent[b]]
      BY <1>1, <2>3 DEF AncestorsFollow
    <3>6. Branch'[b] = Branch[b] /\ Branch[b] \subseteq S
      BY <2>1, <3>1, <3>3, <3>4
    <3>7. Ancestors({})'[b] = Ancestors({})[b]
      BY <3>1, <3>3, <3>5
    <3>. QED  BY <3>6, <3>7
  <2>. QED  BY <2>2, <2>3
<1>3. Blocks \subseteq G
  <2> HIDE DEF G
  <2>. QED  BY <1>2, BlockInduction
<1>. QED  BY <1>3 DEF Keeps

(* Nor a sum of work.                                                      *)
LEMMA SumsStay ==
  ASSUME IsPlain, IsPlain', NEW S, Keeps(S), NEW X, X \subseteq S \ {Genesis}
  PROVE  WorkOf(X)' = WorkOf(X)
<1> DEFINE Rule(f) == [T \in SUBSET X |->
                         IF T = {} THEN 0 ELSE tree.work[First(T)] + f[T \ {First(T)}]]
           Grown(f) == [T \in SUBSET X |->
                         IF T = {} THEN 0 ELSE tree'.work[First(T)] + f[T \ {First(T)}]]
           w == CHOOSE f : f = Rule(f)
           v == CHOOSE f : f = Grown(f)
<1>1. WorkOf(X) = w[X]
  BY DEF WorkOf, MapThenSumSet, MapThenFoldSet, First
<1>2. WorkOf(X)' = v[X]
  BY DEF WorkOf, MapThenSumSet, MapThenFoldSet, First
<1>3. \A T \in SUBSET X : T # {} => tree'.work[First(T)] = tree.work[First(T)]
  BY SetsOfBlocks DEF Keeps
<1>4. ASSUME NEW f  PROVE Rule(f) = Grown(f)
  BY <1>3
<1>5. \A f : f = Rule(f) <=> f = Grown(f)
  <2> HIDE DEF Rule, Grown
  <2>. QED  BY <1>4
<1>6. w = v
  <2> HIDE DEF Rule, Grown
  <2>. QED  BY <1>5, Zenon
<1>. QED  BY <1>1, <1>2, <1>6

(* Nor the orphans of a head, and where its walk starts.                   *)
LEMMA OrphansStay ==
  ASSUME IsPlain, IsPlain', NEW S, Keeps(S), NEW b \in S \ {Genesis}, NEW other \in S
  PROVE  /\ Orphans(b, other, {})' = Orphans(b, other, {})
         /\ Orphans(b, other, {}) \subseteq S \ {Genesis}
         /\ ForkHead(b, other, {})' = ForkHead(b, other, {})
         /\ ForkHead(b, other, {}) \in S
<1>1. /\ Orphans(b, other, {}) = Above(b, other)
      /\ Orphans(b, other, {})' = Above(b, other)'
  BY FollowNow, FollowNext DEF OrphansFollow, Keeps
<1>2. Above(b, other)' = Above(b, other) /\ Above(b, other) \subseteq S \ {Genesis}
  BY BranchesStay DEF Above, Keeps
<1>. DEFINE X == Orphans(b, other, {})
            Y == Orphans(b, other, {})'
<1>3. /\ ForkHead(b, other, {}) =
           IF X = {} THEN b ELSE CHOOSE x \in X : \A y \in X : tree.height[x] =< tree.height[y]
      /\ ForkHead(b, other, {})' =
           IF Y = {} THEN b ELSE CHOOSE x \in Y : \A y \in Y : tree'.height[x] =< tree'.height[y]
  BY DEF ForkHead, Lowest
<1>4. X = Y /\ X \subseteq S /\ \A x \in X : tree'.height[x] = tree.height[x]
  BY <1>1, <1>2 DEF Keeps
<1>. HIDE DEF X, Y
<1>5. \A x : (x \in X /\ \A y \in X : tree.height[x] =< tree.height[y])
                <=> (x \in Y /\ \A y \in Y : tree'.height[x] =< tree'.height[y])
  BY <1>4
<1>6. (CHOOSE x \in X : \A y \in X : tree.height[x] =< tree.height[y])
        = CHOOSE x \in Y : \A y \in Y : tree'.height[x] =< tree'.height[y]
  BY <1>5, Zenon
<1>7. ForkHead(b, other, {})' = ForkHead(b, other, {})
  BY <1>3, <1>4, <1>6
<1>8. ForkHead(b, other, {}) \in S
  <2>1. CASE X = {}
    BY <1>3, <2>1
  <2>2. CASE X # {}
    <3>1. X \subseteq Blocks /\ X # {} /\ IsTree(tree)
      BY <1>4, <2>2 DEF Keeps, IsPlain
    <3>2. Lowest(X, b) \in X
      BY <3>1, LowestOf
    <3>. QED  BY <1>4, <3>2 DEF ForkHead, X
  <2>. QED  BY <2>1, <2>2
<1>. QED  BY <1>1, <1>2, <1>7, <1>8

(* Nor the paired walk.                                                    *)
LEMMA WalkStays ==
  ASSUME IsPlain, IsPlain', NEW S, Keeps(S), NEW a \in S, NEW b \in S
  PROVE  /\ PairedWalk(a, b, {})' = PairedWalk(a, b, {})
         /\ PairedWalk(a, b, {}).as \subseteq S \ {Genesis}
         /\ PairedWalk(a, b, {}).bs \subseteq S \ {Genesis}
<1>1. /\ Ancestors({})'[a] = Ancestors({})[a] /\ Ancestors({})'[b] = Ancestors({})[b]
      /\ Branch[a] \subseteq S /\ Branch[b] \subseteq S
      /\ a \in Blocks /\ b \in Blocks
  BY BranchesStay DEF Keeps
<1>2. \A x : IsPow(x)' <=> IsPow(x)
  BY DEF IsPlain, IsPow
<1>3. PairedWalk(a, b, {})' = PairedWalk(a, b, {})
  BY <1>1, <1>2 DEF PairedWalk
<1>4. /\ \A n \in 1..Len(Ancestors({})[a]) : Ancestors({})[a][n] \in S
      /\ \A n \in 1..Len(Ancestors({})[b]) : Ancestors({})[b][n] \in S
  BY <1>1, AllReadable, AncestorsOfReadable DEF IsPlain
<1>. QED  BY <1>1, <1>3, <1>4, WalkedBlocks DEF IsPlain

(* So resolve_fork decides as before,                                      *)
LEMMA ComparisonStays ==
  ASSUME IsPlain, IsPlain', NEW S, Keeps(S), NEW a \in S \ {Genesis}, NEW b \in S \ {Genesis}
  PROVE  ResolveFork(a, b, {})' = ResolveFork(a, b, {})
<1>. DEFINE x == ForkHead(a, b, {})
            y == ForkHead(b, a, {})
            p == PairedWalk(x, y, {})
<1>1. /\ Orphans(a, b, {})' = Orphans(a, b, {}) /\ Orphans(a, b, {}) \subseteq S \ {Genesis}
      /\ Orphans(b, a, {})' = Orphans(b, a, {}) /\ Orphans(b, a, {}) \subseteq S \ {Genesis}
      /\ x' = x /\ x \in S /\ y' = y /\ y \in S
  BY OrphansStay
<1>2. p' = p /\ p.as \subseteq S \ {Genesis} /\ p.bs \subseteq S \ {Genesis}
  BY <1>1, WalkStays
<1>3. /\ WorkOf(Orphans(a, b, {}))' = WorkOf(Orphans(a, b, {}))
      /\ WorkOf(Orphans(b, a, {}))' = WorkOf(Orphans(b, a, {}))
      /\ WorkOf(p.as)' = WorkOf(p.as) /\ WorkOf(p.bs)' = WorkOf(p.bs)
  BY <1>1, <1>2, SumsStay
<1>. QED  BY <1>3 DEF ResolveFork, ComparedWork

(* The blocks that are preferred to others, given everything below them.   *)
Preferences == {p \in Blocks \X Blocks : Verdict(p[1], p[2], {}) = "commit"}

(* and so does the handler of BlockValid.                                  *)
LEMMA VerdictsStay ==
  ASSUME IsPlain, IsPlain', NEW S, Keeps(S)
  PROVE  \A p \in S \X S : p \in Preferences' <=> p \in Preferences
<1>1. ASSUME NEW a \in S, NEW b \in S  PROVE Verdict(a, b, {})' = Verdict(a, b, {})
  <2>1. /\ \A x : IsPow(x)' <=> IsPow(x)
        /\ \A x : IsPow(x) <=> x # Genesis
    BY DEF IsPlain, IsPow
  <2>2. /\ Verdict(a, b, {}) = CompareForks(a, b, {})
        /\ Verdict(a, b, {})' = CompareForks(a, b, {})'
    BY DEF Verdict
  <2>3. CASE b = Genesis
    BY <2>1, <2>2, <2>3 DEF CompareForks
  <2>4. CASE b # Genesis /\ a = Genesis
    <3>1. SwitchConsensus(Genesis, b, {})' = SwitchConsensus(Genesis, b, {})
      BY <2>4, FollowNow, FollowNext DEF SwitchesFollow, Keeps
    <3>. QED  BY <2>1, <2>2, <2>4, <3>1 DEF CompareForks
  <2>5. CASE b # Genesis /\ a # Genesis
    <3>1. ResolveFork(a, b, {})' = ResolveFork(a, b, {})
      BY <2>5, ComparisonStays
    <3>2. tree'.parent[b] = tree.parent[b]
      BY <2>5 DEF Keeps
    <3>. QED  BY <2>1, <2>2, <2>5, <3>1, <3>2 DEF CompareForks
  <2>. QED  BY <2>3, <2>4, <2>5
<1>2. ASSUME NEW p \in S \X S  PROVE p \in Preferences' <=> p \in Preferences
  <2>1. p[1] \in S /\ p[2] \in S /\ p \in Blocks \X Blocks
    BY DEF Keeps
  <2>2. Verdict(p[1], p[2], {})' = Verdict(p[1], p[2], {})
    BY <1>1, <2>1
  <2>. QED  BY <2>1, <2>2 DEF Preferences
<1>. QED  BY <1>2
-----------------------------------------------------------------------------
(* TypeOK says too little of the blocks in validation: each carries a PoW  *)
(* consensus, and so does all that is below it.                            *)
ForkInv ==
  /\ TypeOK
  /\ checked \cap tree.alien = {}
  /\ \A b \in checked : tree.parent[b] \in checked \cup {Genesis}

(* Whatever is chosen, the first state has a tree.                         *)
LEMMA InitTree ==
  ASSUME Init
  PROVE  IsTree(tree)
<1>1. PICK parent \in [Blocks \ {Genesis} -> Blocks], odd \in Odds : \E weak \in SUBSET odd :
        /\ Levelled(parent) /\ \A b \in weak : parent[b] # Genesis
        /\ \E work \in [Blocks \ {Genesis} -> Works] :
             tree = [parent |-> parent, height |-> Height(parent), work |-> work,
                     weak |-> weak, alien |-> odd \ weak]
  BY DEF Init
<1>2. PICK weak \in SUBSET odd, work \in [Blocks \ {Genesis} -> Works] :
        tree = [parent |-> parent, height |-> Height(parent), work |-> work,
                weak |-> weak, alien |-> odd \ weak]
  BY <1>1
<1>3. parent \in Parents
  BY <1>1 DEF Parents, Levelled
<1>4. /\ Height(parent) \in [Blocks -> Nat]
      /\ \A b \in Blocks : Height(parent)[b] = IF b = Genesis THEN 0
                                               ELSE Height(parent)[parent[b]] + 1
  BY <1>3, HeightUnfolds
<1>5. tree \in Tree
  BY <1>2, <1>4 DEF Tree, Odds
<1>6. tree.parent = parent /\ tree.height = Height(parent)
  BY <1>2
<1>7. \A b \in Blocks \ {Genesis} : parent[b] < b
  BY <1>3 DEF Parents
<1>8. Height(parent)[Genesis] = 0
  BY <1>4, BlockFacts
<1>. QED  BY <1>4, <1>5, <1>6, <1>7, <1>8 DEF IsTree

(* The blocks below the first head were judged before.                     *)
LEMMA InitForkInv == Init => ForkInv
<1> SUFFICES ASSUME Init  PROVE ForkInv
  OBVIOUS
<1>1. IsTree(tree)
  BY InitTree
<1>2. /\ chain_head \in Blocks /\ Branch[chain_head] \cap (tree.weak \cup tree.alien) = {}
      /\ received = Branch[chain_head] \ {Genesis} /\ checked = received /\ failed = {}
  BY DEF Init
<1>3. /\ chain_head \in Branch[chain_head] /\ Branch[chain_head] \subseteq Blocks
      /\ \A x \in Branch[chain_head] : x # Genesis => tree.parent[x] \in Branch[chain_head]
  BY <1>1, <1>2, BranchFacts
<1>4. TypeOK
  BY <1>1, <1>2, <1>3 DEF TypeOK
<1>5. checked \cap tree.alien = {}
  BY <1>2
<1>6. \A b \in checked : tree.parent[b] \in checked \cup {Genesis}
  BY <1>2, <1>3
<1>. QED  BY <1>4, <1>5, <1>6 DEF ForkInv

(* A block is sent to validation after its predecessor.                    *)
LEMMA NextForkInv == ForkInv /\ [Next]_vars => ForkInv'
<1> SUFFICES ASSUME ForkInv, [Next]_vars  PROVE ForkInv'
  OBVIOUS
<1>1. CASE BlockNew
  <2>1. PICK b \in Blocks, lost \in Losses : MayReceive(b) /\ OnBlockNew(b, lost)
    BY <1>1 DEF BlockNew
  <2>2. UNCHANGED <<tree, chain_head>> /\ b # Genesis /\ tree.parent[b] \in Blocks
    BY <1>1, <2>1, TreeFacts DEF BlockNew, MayReceive, ForkInv, TypeOK
  <2>3. /\ received' = received \cup {b}
        /\ tree.parent[b] \in checked \cup {Genesis}
        /\ \/ /\ IsPow(b) /\ checked' = checked \cup {b} /\ failed' = failed
           \/ checked' = checked /\ failed' \subseteq failed \cup {b, tree.parent[b]}
    BY <2>1 DEF MayReceive, OnBlockNew, PassesConsensus, FailedBlock
  <2>4. TypeOK'
    BY <2>2, <2>3 DEF ForkInv, TypeOK, IsTree
  <2>5. (checked \cap tree.alien = {})'
    BY <2>2, <2>3 DEF ForkInv, IsPow
  <2>6. (\A c \in checked : tree.parent[c] \in checked \cup {Genesis})'
    BY <2>2, <2>3 DEF ForkInv
  <2>. QED  BY <2>4, <2>5, <2>6 DEF ForkInv
<1>2. CASE BlockValid
  BY <1>2 DEF BlockValid, ChainHeadAfter, ForkInv, TypeOK, IsTree
<1>3. CASE UNCHANGED vars
  BY <1>3 DEF vars, ForkInv, TypeOK, IsTree
<1>. QED  BY <1>1, <1>2, <1>3 DEF Next

(* All below a block in validation can be read.                            *)
LEMMA CheckedIsReadable ==
  ASSUME ForkInv, NEW STATE b, b \in checked \cup {Genesis}
  PROVE  b \in Blocks /\ Readable(b)
<1> DEFINE G == {c \in Blocks : c \in checked \cup {Genesis} => Readable(c)}
<1>1. IsTree(tree)
  BY DEF ForkInv, TypeOK
<1>2. ASSUME NEW c \in Blocks, \A d \in Blocks : d < c => d \in G, c \in checked \cup {Genesis}
      PROVE  Readable(c)
  <2>1. CASE c = Genesis
    BY <1>1, <2>1, BranchUnfolds DEF Readable, HasHeader
  <2>2. CASE c # Genesis
    <3>1. HasHeader(c)
      BY <1>2, <2>2 DEF HasHeader, IsPow, ForkInv
    <3>2. Branch[c] = {c} \cup Branch[tree.parent[c]]
      BY <1>1, <2>2, BranchUnfolds
    <3>3. Readable(tree.parent[c])
      BY <1>1, <1>2, <2>2, TreeFacts DEF ForkInv
    <3>. QED  BY <3>1, <3>2, <3>3 DEF Readable
  <2>. QED  BY <2>1, <2>2
<1>3. Blocks \subseteq G
  <2>1. \A c \in Blocks : (\A d \in Blocks : d < c => d \in G) => c \in G
    BY <1>2
  <2> HIDE DEF G
  <2>. QED  BY <2>1, BlockInduction
<1>. QED  BY <1>3, BlockFacts DEF ForkInv, TypeOK

(* The verdict on a block in validation, when every block can be had.      *)
LEMMA VerdictOnChecked ==
  ASSUME ForkInv, NEW STATE b, b \in checked
  PROVE  /\ IsPow(b) /\ b \in Blocks \ {Genesis}
         /\ chain_head = Genesis => Verdict(chain_head, b, {}) = "commit"
         /\ chain_head # Genesis =>
              /\ IsPow(chain_head) /\ chain_head \in Blocks \ {Genesis}
              /\ Verdict(chain_head, b, {}) = IF tree.parent[b] = chain_head THEN "commit"
                                              ELSE ResolveFork(chain_head, b, {})
<1>1. IsPow(b) /\ b \in Blocks \ {Genesis} /\ Readable(b) /\ IsTree(tree)
  BY CheckedIsReadable DEF ForkInv, TypeOK, IsPow
<1>2. chain_head = Genesis => Verdict(chain_head, b, {}) = "commit"
  <2>1. SwitchConsensus(Genesis, b, {}) = "commit"
    BY <1>1, SwitchCommits
  <2>. QED  BY <1>1, <2>1 DEF Verdict, CompareForks, IsPow
<1>3. chain_head # Genesis => IsPow(chain_head) /\ chain_head \in Blocks \ {Genesis}
  BY DEF ForkInv, TypeOK, IsPow
<1>. QED  BY <1>1, <1>2, <1>3 DEF Verdict, CompareForks

(* A block that descends from the head becomes the head.                   *)
LEMMA InvDescendants == ForkInv => DescendantsAreCommitted
<1> SUFFICES ASSUME ForkInv, NEW b \in checked, chain_head \in Branch[b] \ {b}
             PROVE  Verdict(chain_head, b, {}) = "commit"
  BY DEF DescendantsAreCommitted
<1>1. CASE chain_head = Genesis
  BY <1>1, VerdictOnChecked
<1>2. CASE chain_head # Genesis
  <2>1. IsTree(tree) /\ b \in Blocks /\ Readable(b)
    BY CheckedIsReadable DEF ForkInv, TypeOK
  <2>2. ResolveFork(chain_head, b, {}) = "commit"
    BY <1>2, <2>1, AncestorIsWorthLess
  <2>. QED  BY <1>2, <2>2, VerdictOnChecked
<1>. QED  BY <1>1, <1>2

(* At equal heights, what is compared is what each branch has alone.       *)
LEMMA EqualHeightsCompared ==
  ASSUME IsTree(tree), NEW STATE a, a \in Blocks \ {Genesis}, Readable(a),
         NEW STATE b, b \in Blocks \ {Genesis}, Readable(b), tree.height[a] = tree.height[b]
  PROVE  ComparedWork(a, b, {}) = [cur |-> OwnWork(a, b), new |-> OwnWork(b, a)]
<1> DEFINE h == tree.height
<1>1. Orphans(a, b, {}) = {}
  <2>1. Orphans(a, b, {}) = {x \in Branch[a] \ {a, Genesis} : h[x] >= h[b]}
    BY OrphansAreBetween
  <2>2. \A x \in Branch[a] \ {a} : h[x] \in Nat /\ h[b] \in Nat /\ h[x] < h[b]
    BY BranchFacts, TreeFacts
  <2>. QED  BY <2>1, <2>2
<1>2. Orphans(b, a, {}) = {}
  <2>1. Orphans(b, a, {}) = {x \in Branch[b] \ {b, Genesis} : h[x] >= h[a]}
    BY OrphansAreBetween
  <2>2. \A x \in Branch[b] \ {b} : h[x] \in Nat /\ h[a] \in Nat /\ h[x] < h[a]
    BY BranchFacts, TreeFacts
  <2>. QED  BY <2>1, <2>2
<1>3. ForkHead(a, b, {}) = a /\ ForkHead(b, a, {}) = b
  BY <1>1, <1>2 DEF ForkHead, Lowest
<1>4. PairedWalk(a, b, {}).as = Branch[a] \ Branch[b]
  BY OwnSide
<1>5. PairedWalk(a, b, {}).bs = Branch[b] \ Branch[a]
  <2>1. PairedWalk(b, a, {}).as = Branch[b] \ Branch[a]
    BY OwnSide
  <2>. QED  BY <2>1, WalkIsSymmetric
<1>6. WorkOf({}) = 0 /\ OwnWork(a, b) \in Nat /\ OwnWork(b, a) \in Nat
  <2>1. /\ Branch[a] \ Branch[b] \subseteq Blocks \ {Genesis}
        /\ Branch[b] \ Branch[a] \subseteq Blocks \ {Genesis}
    BY BranchFacts
  <2>. QED  BY <2>1, WorkFacts DEF OwnWork
<1>7. ComparedWork(a, b, {}) = [cur |-> WorkOf({}) + OwnWork(a, b), new |-> WorkOf({}) + OwnWork(b, a)]
  BY <1>1, <1>2, <1>3, <1>4, <1>5 DEF ComparedWork, OwnWork
<1>. QED  BY <1>6, <1>7

(* Between equally high heads the greater own work decides.                *)
LEMMA InvEqualHeights == ForkInv => EqualHeightsByWork
<1> SUFFICES ASSUME ForkInv, NEW b \in checked, tree.height[b] = tree.height[chain_head]
             PROVE  Verdict(chain_head, b, {}) = "commit"
                      <=> OwnWork(b, chain_head) > OwnWork(chain_head, b)
  BY DEF EqualHeightsByWork
<1>1. IsTree(tree) /\ b \in Blocks \ {Genesis} /\ Readable(b)
  BY CheckedIsReadable, VerdictOnChecked DEF ForkInv, TypeOK
<1>2. chain_head \in Blocks /\ Readable(chain_head)
  BY CheckedIsReadable DEF ForkInv, TypeOK
<1>3. chain_head # Genesis
  BY <1>1, TreeFacts, BranchFacts
<1>4. tree.parent[b] # chain_head
  BY <1>1, TreeFacts
<1>5. ComparedWork(chain_head, b, {}) = [cur |-> OwnWork(chain_head, b), new |-> OwnWork(b, chain_head)]
  BY <1>1, <1>2, <1>3, EqualHeightsCompared
<1>. QED  BY <1>3, <1>4, <1>5, VerdictOnChecked DEF ResolveFork

(* No two heads are each preferred to the other.                           *)
LEMMA InvNoFlipFlop == ForkInv => NoFlipFlop
<1> SUFFICES ASSUME ForkInv, NEW b \in checked,
                    Verdict(chain_head, b, {}) = "commit", Verdict(b, chain_head, {}) = "commit"
             PROVE  FALSE
  BY DEF NoFlipFlop
<1> DEFINE a == chain_head
<1>1. IsTree(tree) /\ b \in Blocks \ {Genesis} /\ Readable(b) /\ IsPow(b)
  BY CheckedIsReadable, VerdictOnChecked DEF ForkInv, TypeOK
<1>2. a \in Blocks /\ Readable(a)
  BY CheckedIsReadable DEF ForkInv, TypeOK
<1>3. a # Genesis /\ IsPow(a)
  BY <1>2 DEF Verdict, CompareForks, IsPow, Readable, HasHeader, ForkInv, TypeOK
<1>4. tree.parent[b] = a \/ ResolveFork(a, b, {}) = "commit"
  BY <1>3, VerdictOnChecked
<1>5. tree.parent[a] = b \/ ResolveFork(b, a, {}) = "commit"
  BY <1>1, <1>3 DEF Verdict, CompareForks
<1>6. ASSUME NEW STATE x, x \in Blocks \ {Genesis}, Readable(x),
             NEW STATE y, y \in Blocks \ {Genesis}, Readable(y), tree.parent[y] = x
      PROVE  ResolveFork(y, x, {}) = "ignore" /\ tree.parent[x] # y
  <2>1. x \in Branch[y] \ {y, Genesis} /\ tree.parent[x] # y
    BY <1>1, <1>6, BranchFacts, TreeFacts, BlockFacts
  <2>. QED  BY <1>1, <1>6, <2>1, AncestorIsWorthLess
<1>7. CASE tree.parent[b] = a
  <2>1. ResolveFork(b, a, {}) = "ignore" /\ tree.parent[a] # b
    BY <1>1, <1>2, <1>3, <1>6, <1>7
  <2>. QED  BY <2>1, <1>5
<1>8. CASE tree.parent[a] = b
  <2>1. ResolveFork(a, b, {}) = "ignore" /\ tree.parent[b] # a
    BY <1>1, <1>2, <1>3, <1>6, <1>8
  <2>. QED  BY <2>1, <1>4
<1>9. CASE ResolveFork(a, b, {}) = "commit" /\ ResolveFork(b, a, {}) = "commit"
  <2>1. ComparedWork(a, b, {}) \in [cur : Nat, new : Nat]
    BY <1>1, <1>2, <1>3, ComparedAreNumbers
  <2>2. ComparedWork(a, b, {}).new > ComparedWork(a, b, {}).cur
    BY <1>9 DEF ResolveFork
  <2>3. ComparedWork(b, a, {}).new > ComparedWork(b, a, {}).cur
    BY <1>9 DEF ResolveFork
  <2>4. /\ ComparedWork(b, a, {}).new = ComparedWork(a, b, {}).cur
        /\ ComparedWork(b, a, {}).cur = ComparedWork(a, b, {}).new
    BY ComparisonIsSymmetric
  <2>. QED  BY <2>1, <2>2, <2>3, <2>4
<1>. QED  BY <1>4, <1>5, <1>7, <1>8, <1>9

(* The inductive invariant holds in every state.                           *)
LEMMA SpecForkInv == Spec => []ForkInv
BY InitForkInv, NextForkInv, PTL DEF Spec

(* Every head, block announced, sent to validation or failed is a block of *)
(* the tree, which stays as it is: the head was sent to validation, and    *)
(* what was sent was announced, whatever calls of get_block fail.          *)
THEOREM Typing == Spec => []TypeOK
<1>1. ForkInv => TypeOK
  BY DEF ForkInv
<1>. QED  BY <1>1, SpecForkInv, PTL

(* A valid block that extends the head becomes the head, for every tree,   *)
(* work and order of the reports (node.rs:240 to 339).                     *)
THEOREM GrowthIsCommitted == Spec => []DescendantsAreCommitted
BY InvDescendants, SpecForkInv, PTL

(* For every tree: between heads of equal height the work the branches do  *)
(* not share decides, and a tie keeps the head (node.rs:252 to 339).       *)
THEOREM WorkDecidesAtEqualHeight == Spec => []EqualHeightsByWork
BY InvEqualHeights, SpecForkInv, PTL

(* For every tree: no two blocks make the head flip back and forth.        *)
THEOREM HeadsDoNotFlip == Spec => []NoFlipFlop
BY InvNoFlipFlop, SpecForkInv, PTL

-----------------------------------------------------------------------------
(* When no get_block fails, a handler has every block.                     *)
LEMMA NothingLost ==
  ASSUME MaxLost = 0
  PROVE  Losses = {{}}
<1>1. IsFiniteSet(Blocks)
  BY BlockFacts, FS_Interval
<1>2. ASSUME NEW S \in SUBSET Blocks  PROVE Cardinality(S) =< 0 <=> S = {}
  <2>1. IsFiniteSet(S) /\ Cardinality(S) \in Nat
    BY <1>1, FS_Subset, FS_CardinalityType
  <2>. QED  BY <2>1, FS_EmptySet
<1>. QED  BY <1>2 DEF Losses

(* When every block can be had, a block announced is sent to validation or *)
(* failed, never both, and no other block is failed (node.rs:80).          *)
THEOREM AnnouncedJudged ==
  ASSUME MaxLost = 0
  PROVE  Spec => []AnnouncedIsJudged
<1>1. Init => AnnouncedIsJudged
  BY DEF Init, AnnouncedIsJudged
<1>2. ForkInv /\ AnnouncedIsJudged /\ [Next]_vars => AnnouncedIsJudged'
  <2> SUFFICES ASSUME ForkInv, AnnouncedIsJudged, [Next]_vars  PROVE AnnouncedIsJudged'
    OBVIOUS
  <2>1. CASE BlockNew
    <3>1. PICK b \in Blocks : MayReceive(b) /\ OnBlockNew(b, {})
      BY <2>1, NothingLost DEF BlockNew
    <3>2. HasHeader(tree.parent[b])
      BY <3>1 DEF MayReceive, HasHeader, IsPow, ForkInv, TypeOK
    <3>3. /\ b \notin received /\ received' = received \cup {b}
          /\ \/ checked' = checked \cup {b} /\ failed' = failed
             \/ checked' = checked /\ failed' = failed \cup {b}
      BY <3>1, <3>2 DEF MayReceive, OnBlockNew, FailedBlock, PredecessorUsable
    <3>. QED  BY <3>3 DEF AnnouncedIsJudged
  <2>2. CASE BlockValid
    BY <2>2 DEF BlockValid, AnnouncedIsJudged
  <2>3. CASE UNCHANGED vars
    BY <2>3 DEF vars, AnnouncedIsJudged
  <2>. QED  BY <2>1, <2>2, <2>3 DEF Next
<1>. QED  BY <1>1, <1>2, SpecForkInv, PTL DEF Spec

(* When every block can be had, the head never goes back to a block below  *)
(* it, whatever is reported valid and when (node.rs:318).                  *)
THEOREM NoRewind ==
  ASSUME MaxLost = 0
  PROVE  Spec => HeadNeverRewinds
<1>1. ForkInv /\ [Next]_vars
        => [chain_head' # chain_head => chain_head' \notin Branch[chain_head]]_vars
  <2> SUFFICES ASSUME ForkInv, [Next]_vars, chain_head' # chain_head,
                      chain_head' \in Branch[chain_head]
               PROVE  FALSE
    BY DEF vars
  <2>1. PICK b \in checked : chain_head' = ChainHeadAfter(Verdict(chain_head, b, {}), b)
    BY NothingLost DEF Next, BlockNew, BlockValid, vars
  <2>2. chain_head' = b /\ Verdict(chain_head, b, {}) = "commit"
    BY <2>1 DEF ChainHeadAfter
  <2>3. IsTree(tree) /\ chain_head \in Blocks /\ Readable(chain_head)
    BY CheckedIsReadable DEF ForkInv, TypeOK
  <2>4. b # Genesis /\ b \in Branch[chain_head] \ {chain_head, Genesis}
    BY <2>2, VerdictOnChecked
  <2>5. chain_head # Genesis
    BY <2>3, <2>4, BranchUnfolds
  <2>6. tree.parent[b] # chain_head
    <3>1. tree.height[b] < tree.height[chain_head] /\ tree.height[chain_head] \in Nat
      BY <2>3, <2>4, BranchFacts, TreeFacts
    <3>2. tree.height[b] = tree.height[tree.parent[b]] + 1
      BY <2>3, <2>4, VerdictOnChecked, TreeFacts
    <3>. QED  BY <3>1, <3>2
  <2>7. ResolveFork(chain_head, b, {}) = "ignore"
    BY <2>3, <2>4, AncestorIsWorthLess
  <2>. QED  BY <2>2, <2>5, <2>6, <2>7, VerdictOnChecked
<1>. QED  BY <1>1, SpecForkInv, PTL DEF Spec, HeadNeverRewinds
=============================================================================
