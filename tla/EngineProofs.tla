---------------------------- MODULE EngineProofs -----------------------------
(***************************************************************************)
(* Node and validator together, for every number of blocks, every work and *)
(* whichever service calls are refused or fail.                            *)
(*                                                                         *)
(* The invariant's first parts hold whatever fails: the tree that grows,   *)
(* who was told of which block, the channel, the way a block goes from     *)
(* valid to committed, and the node. HeadsInv and OwnInv hold while no     *)
(* call has failed.                                                        *)
(***************************************************************************)
EXTENDS Engine, SequenceTheorems, TLAPS

(* The constants are as both halves of the node assume theirs to be, and   *)
(* both speak of the same blocks.                                          *)
LEMMA PartsAssumptions ==
  /\ Nd!NodeAssumption
  /\ Fc!ForkAssumption
  /\ Fc!Blocks = Blocks /\ Fc!Genesis = Genesis
  /\ Blocks = 1..MaxBlock /\ Genesis \in Blocks /\ MaxBlock \in Nat \ {0}
BY EngineAssumption DEF Nd!NodeAssumption, Fc!ForkAssumption, Fc!Blocks, Blocks,
   Fc!Genesis, Genesis

(* Updates differ by kind or block.                                        *)
LEMMA UpdateFacts ==
  ASSUME NEW b \in Blocks
  PROVE  /\ \A k \in {"BlockNew", "BlockValid", "BlockInvalid", "BlockCommit"} :
              /\ BlockUpdate(k, b) \in Update
              /\ BlockUpdate(k, b).kind = k /\ BlockUpdate(k, b).block = b
         /\ New(b) \in Update /\ New(b).kind = "BlockNew" /\ New(b).block = b
         /\ Valid(b) \in Update /\ Valid(b).kind = "BlockValid" /\ Valid(b).block = b
         /\ Committed(b) \in Update /\ Committed(b).kind = "BlockCommit" /\ Committed(b).block = b
BY DEF BlockUpdate, Update, New, Valid, Committed

LEMMA UpdateKinds ==
  \A u \in Update : /\ u.block \in Blocks
                    /\ u = BlockUpdate(u.kind, u.block)
                    /\ u.kind = "BlockNew" => u = New(u.block)
                    /\ u.kind = "BlockValid" => u = Valid(u.block)
                    /\ u.kind = "BlockCommit" => u = Committed(u.block)
BY DEF BlockUpdate, Update, New, Valid, Committed
-----------------------------------------------------------------------------
(* A queue without repetitions, one element longer or shorter.             *)
LEMMA QueueGrows ==
  ASSUME NEW S, NEW q \in Seq(S), NEW m \in S
  PROVE  /\ Append(q, m) \in Seq(S)
         /\ Append(q, m) # <<>>
         /\ Len(Append(q, m)) = Len(q) + 1
         /\ Append(q, m)[Len(q) + 1] = m
         /\ \A i \in 1..Len(q) : Append(q, m)[i] = q[i]
         /\ Range(Append(q, m)) = Range(q) \cup {m}
         /\ IsInjective(q) /\ m \notin Range(q) => IsInjective(Append(q, m))
<1>. DEFINE p == Append(q, m)
<1>1. /\ p \in Seq(S) /\ p # <<>> /\ Len(p) = Len(q) + 1 /\ Len(q) \in Nat
      /\ \A i \in 1..Len(q) : p[i] = q[i]
      /\ p[Len(q) + 1] = m
  BY AppendProperties, LenProperties
<1>2. DOMAIN p = 1..Len(p) /\ DOMAIN q = 1..Len(q)
  BY <1>1, LenProperties
<1>. HIDE DEF p
<1>3. \A i \in 1..Len(p) : i \in 1..Len(q) \/ i = Len(q) + 1
  BY <1>1
<1>4. Len(q) + 1 \in 1..Len(p) /\ 1..Len(q) \subseteq 1..Len(p)
  BY <1>1
<1>5. Range(p) = Range(q) \cup {m}
  <2>1. ASSUME NEW x \in Range(p)  PROVE x \in Range(q) \cup {m}
    BY <1>1, <1>2, <1>3 DEF Range
  <2>2. ASSUME NEW x \in Range(q)  PROVE x \in Range(p)
    BY <1>1, <1>2, <1>4 DEF Range
  <2>3. m \in Range(p)
    BY <1>1, <1>2, <1>4 DEF Range
  <2>. QED  BY <2>1, <2>2, <2>3
<1>6. ASSUME IsInjective(q), m \notin Range(q)  PROVE IsInjective(p)
  <2>1. \A i \in 1..Len(q) : q[i] # m
    BY <1>2, <1>6 DEF Range
  <2>2. ASSUME NEW i \in 1..Len(p), NEW j \in 1..Len(p), p[i] = p[j]  PROVE i = j
    <3>1. CASE i \in 1..Len(q) /\ j \in 1..Len(q)
      BY <1>1, <1>2, <1>6, <2>2, <3>1 DEF IsInjective
    <3>2. CASE i = Len(q) + 1 \/ j = Len(q) + 1
      BY <1>1, <1>3, <2>1, <2>2, <3>2
    <3>. QED  BY <1>3, <3>1, <3>2
  <2>. QED  BY <1>2, <2>2 DEF IsInjective
<1>. QED  BY <1>1, <1>5, <1>6 DEF p

LEMMA QueueShrinks ==
  ASSUME NEW S, NEW q \in Seq(S), q # <<>>, IsInjective(q)
  PROVE  /\ Tail(q) \in Seq(S)
         /\ Head(q) \in S /\ Head(q) = q[1] /\ Head(q) \in Range(q)
         /\ Len(Tail(q)) = Len(q) - 1
         /\ \A i \in 1..Len(Tail(q)) : i + 1 \in 1..Len(q) /\ Tail(q)[i] = q[i + 1]
         /\ Range(Tail(q)) = Range(q) \ {Head(q)}
         /\ IsInjective(Tail(q))
<1>. DEFINE p == Tail(q)
<1>1. /\ p \in Seq(S) /\ Len(q) \in Nat /\ Len(q) > 0 /\ Len(p) = Len(q) - 1
      /\ \A i \in 1..Len(p) : i + 1 \in 1..Len(q) /\ p[i] = q[i + 1]
      /\ Head(q) = q[1] /\ 1 \in 1..Len(q) /\ q[1] \in S
  OBVIOUS
<1>2. DOMAIN p = 1..Len(p) /\ DOMAIN q = 1..Len(q)
  BY <1>1, LenProperties
<1>. HIDE DEF p
<1>3. \A i \in 1..Len(q) : i # 1 => i - 1 \in 1..Len(p) /\ (i - 1) + 1 = i
  BY <1>1
<1>4. \A i \in 1..Len(p) : i + 1 # 1
  OBVIOUS
<1>5. \A i \in 1..Len(q) : q[i] = q[1] => i = 1
  BY <1>1, <1>2 DEF IsInjective
<1>6. Range(p) = Range(q) \ {Head(q)}
  <2>1. ASSUME NEW x \in Range(p)  PROVE x \in Range(q) \ {Head(q)}
    <3>1. PICK i \in 1..Len(p) : x = p[i]
      BY <1>2 DEF Range
    <3>. QED  BY <1>1, <1>2, <1>4, <1>5, <3>1 DEF Range
  <2>2. ASSUME NEW x \in Range(q) \ {Head(q)}  PROVE x \in Range(p)
    <3>1. PICK i \in 1..Len(q) : x = q[i]
      BY <1>2 DEF Range
    <3>2. i - 1 \in 1..Len(p) /\ p[i - 1] = x
      BY <1>1, <1>3, <2>2, <3>1
    <3>. QED  BY <1>2, <3>2 DEF Range
  <2>. QED  BY <2>1, <2>2
<1>7. IsInjective(p)
  <2>1. ASSUME NEW i \in 1..Len(p), NEW j \in 1..Len(p), p[i] = p[j]  PROVE i = j
    <3>1. i + 1 = j + 1
      BY <1>1, <1>2, <2>1 DEF IsInjective
    <3>. QED  BY <3>1
  <2>. QED  BY <1>2, <2>1 DEF IsInjective
<1>8. Head(q) \in Range(q)
  BY <1>1, <1>2 DEF Range
<1>. QED  BY <1>1, <1>6, <1>7, <1>8 DEF p

LEMMA EmptyQueue ==
  Range(<<>>) = {} /\ IsInjective(<<>>) /\ \A S : <<>> \in Seq(S)
BY DEF Range, IsInjective
-----------------------------------------------------------------------------
(* The channel, for blocks up to k, those invalid and those valid.         *)
QueueOK(q, k, inv, val) ==
  /\ q \in Seq(Update) /\ IsInjective(q)
  /\ \A u \in Range(q) : /\ u.block \in 2..k
                         /\ u.kind = "BlockInvalid" => u.block \in inv
                         /\ u.kind \in {"BlockValid", "BlockCommit"} => u.block \in val

LEMMA QueueTail ==
  ASSUME NEW q, NEW k, NEW inv, NEW val, QueueOK(q, k, inv, val), q # <<>>
  PROVE  /\ QueueOK(Tail(q), k, inv, val)
         /\ Range(Tail(q)) = Range(q) \ {Head(q)}
         /\ Head(q) \in Range(q) /\ Head(q) \in Update
<1>1. /\ Tail(q) \in Seq(Update) /\ IsInjective(Tail(q))
      /\ Range(Tail(q)) = Range(q) \ {Head(q)}
      /\ Head(q) \in Range(q) /\ Head(q) \in Update
  BY QueueShrinks DEF QueueOK
<1>. QED  BY <1>1 DEF QueueOK

LEMMA QueueAppend ==
  ASSUME NEW q, NEW k, NEW inv, NEW val, QueueOK(q, k, inv, val),
         NEW u \in Update, u \notin Range(q), u.block \in 2..k,
         u.kind = "BlockInvalid" => u.block \in inv,
         u.kind \in {"BlockValid", "BlockCommit"} => u.block \in val
  PROVE  /\ QueueOK(Append(q, u), k, inv, val)
         /\ Range(Append(q, u)) = Range(q) \cup {u}
<1>1. /\ Append(q, u) \in Seq(Update) /\ IsInjective(Append(q, u))
      /\ Range(Append(q, u)) = Range(q) \cup {u}
  BY QueueGrows DEF QueueOK
<1>. QED  BY <1>1 DEF QueueOK

LEMMA QueueLater ==
  ASSUME NEW q, NEW k \in Nat, NEW inv, NEW val, QueueOK(q, k, inv, val),
         NEW l \in Nat, k =< l, NEW inv2, inv \subseteq inv2, NEW val2, val \subseteq val2
  PROVE  QueueOK(q, l, inv2, val2)
<1>1. 2..k \subseteq 2..l
  OBVIOUS
<1>. QED  BY <1>1 DEF QueueOK

LEMMA UpdatesAreQueue == UpdatesInv <=> QueueOK(updates, born, invalid, valid)
BY DEF UpdatesInv, QueueOK, Waiting
-----------------------------------------------------------------------------
(* Blocks of a tree.                                                       *)
LEMMA TreeFacts ==
  ASSUME TreeInv
  PROVE  /\ born \in Nat /\ born >= 1 /\ born =< MaxBlock
         /\ 1..born \subseteq Blocks /\ 2..born \subseteq Blocks \ {Genesis}
         /\ \A b \in Blocks \ {Genesis} : tree.parent[b] \in Blocks /\ tree.parent[b] < b
<1>1. born \in 1..MaxBlock
  BY PartsAssumptions DEF TreeInv
<1>2. /\ born \in Nat /\ born >= 1 /\ born =< MaxBlock
      /\ 1..born \subseteq Blocks /\ 2..born \subseteq Blocks \ {Genesis}
  BY <1>1, PartsAssumptions DEF Genesis
<1>3. tree.parent \in [Blocks \ {Genesis} -> Blocks]
  BY PartsAssumptions DEF TreeInv, Fc!IsTree, Fc!Tree
<1>4. \A b \in Blocks \ {Genesis} : tree.parent[b] < b
  BY PartsAssumptions DEF TreeInv, Fc!IsTree
<1>. QED  BY <1>2, <1>3, <1>4

(* A birth extends the tree: no block changes its parent.                  *)
LEMMA Birth ==
  ASSUME TreeInv, NEW p \in 1..born, NEW work \in Works, NEW weak \in BOOLEAN,
         Bear(p, work, weak)
  PROVE  /\ TreeInv'
         /\ born' = born + 1 /\ born' \in Blocks \ {Genesis} /\ born < MaxBlock
         /\ \A b \in 2..born : tree'.parent[b] = tree.parent[b]
         /\ tree'.parent[born'] = p
         /\ Fc!Keeps(1..born)
<1>1. /\ born' = born + 1 /\ born < MaxBlock
      /\ tree' = [tree EXCEPT !.parent[born'] = p,
                              !.height[born'] = tree.height[p] + 1,
                              !.work[born'] = work,
                              !.weak = IF weak THEN @ \cup {born'} ELSE @]
  BY DEF Bear
<1>2. /\ born \in Nat /\ born >= 1 /\ born' \in Blocks \ {Genesis} /\ p \in Blocks /\ p < born'
      /\ p # born'
  BY <1>1, TreeFacts, PartsAssumptions DEF Blocks, Genesis
<1>3. /\ tree.parent \in [Blocks \ {Genesis} -> Blocks] /\ tree.height \in [Blocks -> Nat]
      /\ tree.work \in [Blocks \ {Genesis} -> Works]
      /\ tree.weak \in SUBSET Blocks /\ tree.alien = {}
      /\ DOMAIN tree = {"parent", "height", "work", "weak", "alien"}
  BY PartsAssumptions DEF TreeInv, Fc!IsTree, Fc!Tree
<1>4. /\ tree'.parent = [tree.parent EXCEPT ![born'] = p]
      /\ tree'.height = [tree.height EXCEPT ![born'] = tree.height[p] + 1]
      /\ tree'.work = [tree.work EXCEPT ![born'] = work]
      /\ tree'.weak = IF weak THEN tree.weak \cup {born'} ELSE tree.weak
      /\ tree'.alien = {}
  BY <1>1, <1>3
<1>5. /\ tree'.parent \in [Blocks \ {Genesis} -> Blocks] /\ tree'.height \in [Blocks -> Nat]
      /\ tree'.work \in [Blocks \ {Genesis} -> Works] /\ tree'.weak \in SUBSET Blocks
  BY <1>2, <1>3, <1>4
<1>6. tree' \in Fc!Tree
  <2>1. tree \in Fc!Tree
    BY DEF TreeInv, Fc!IsTree
  <2>2. tree' = [parent |-> tree'.parent, height |-> tree'.height, work |-> tree'.work,
                 weak |-> tree'.weak, alien |-> tree'.alien]
    BY <1>1, <2>1 DEF Fc!Tree
  <2>. QED  BY <1>4, <1>5, <2>2, PartsAssumptions DEF Fc!Tree
<1>7. /\ tree'.parent[born'] = p /\ tree'.height[born'] = tree.height[p] + 1
      /\ \A b \in Blocks \ {Genesis} : b # born' => tree'.parent[b] = tree.parent[b]
      /\ \A b \in Blocks : b # born' => tree'.height[b] = tree.height[b]
  BY <1>2, <1>3, <1>4
<1>8. \A b \in (born + 1)..MaxBlock : tree.parent[b] = Genesis
  BY DEF TreeInv
<1>9. \A b \in Blocks \ {Genesis} : b # born' => tree.parent[b] # born'
  <2>1. ASSUME NEW b \in Blocks \ {Genesis}, b # born'  PROVE tree.parent[b] # born'
    <3>1. CASE b =< born
      <4>1. tree.parent[b] \in Nat /\ tree.parent[b] < b /\ b \in Nat
        BY TreeFacts, PartsAssumptions
      <4>. QED  BY <1>1, <1>2, <3>1, <4>1
    <3>2. CASE ~(b =< born)
      <4>1. b \in (born + 1)..MaxBlock
        BY <1>2, <3>2, PartsAssumptions
      <4>. QED  BY <1>2, <1>8, <4>1
    <3>. QED  BY <3>1, <3>2
  <2>. QED  BY <2>1
<1>10. Fc!IsTree(tree')
  <2>1. tree.height[Genesis] = 0 /\ Genesis # born'
    BY <1>2, PartsAssumptions DEF TreeInv, Fc!IsTree
  <2>2. ASSUME NEW b \in Blocks \ {Genesis}
        PROVE  tree'.parent[b] < b /\ tree'.height[b] = tree'.height[tree'.parent[b]] + 1
    <3>1. CASE b = born'
      BY <1>2, <1>7, <3>1
    <3>2. CASE b # born'
      <4>1. /\ tree.parent[b] < b /\ tree.parent[b] \in Blocks
            /\ tree.height[b] = tree.height[tree.parent[b]] + 1
        BY PartsAssumptions, TreeFacts DEF TreeInv, Fc!IsTree
      <4>. QED  BY <1>7, <1>9, <3>2, <4>1
    <3>. QED  BY <3>1, <3>2
  <2>. QED  BY <1>6, <1>7, <2>1, <2>2, PartsAssumptions DEF Fc!IsTree
<1>11. \A b \in (born' + 1)..MaxBlock : tree'.parent[b] = Genesis
  <2>1. ASSUME NEW b \in (born' + 1)..MaxBlock  PROVE tree'.parent[b] = Genesis
    <3>1. b \in (born + 1)..MaxBlock /\ b # born' /\ b \in Blocks \ {Genesis}
      BY <1>1, <1>2, PartsAssumptions DEF Blocks, Genesis
    <3>. QED  BY <1>7, <1>8, <3>1
  <2>. QED  BY <2>1
<1>12. \A b \in 2..born : tree'.parent[b] = tree.parent[b]
  <2>1. \A b \in 2..born : b # born' /\ b \in Blocks \ {Genesis}
    BY <1>1, <1>2, PartsAssumptions DEF Blocks, Genesis
  <2>. QED  BY <1>7, <2>1
<1>13. Fc!Keeps(1..born)
  <2>1. \A b \in 1..born : b \in Blocks /\ b # born' /\ tree'.height[b] = tree.height[b]
    BY <1>1, <1>2, <1>7, TreeFacts
  <2>2. ASSUME NEW b \in (1..born) \ {Genesis}
        PROVE  /\ tree.parent[b] \in 1..born /\ tree'.parent[b] = tree.parent[b]
               /\ tree'.work[b] = tree.work[b]
    <3>1. b \in Blocks \ {Genesis} /\ b # born'
      BY <2>1
    <3>2. tree.parent[b] \in 1..born
      BY <1>2, <3>1, TreeFacts, PartsAssumptions
    <3>. QED  BY <1>2, <1>3, <1>4, <1>7, <3>1, <3>2
  <2>. QED  BY <1>2, <2>1, <2>2, PartsAssumptions DEF Fc!Keeps
<1>. QED  BY <1>1, <1>2, <1>4, <1>7, <1>10, <1>11, <1>12, <1>13 DEF TreeInv

(* Which blocks are preferred to which does not change as the tree grows.  *)
LEMMA PreferencesStay ==
  ASSUME TreeInv, TreeInv', Fc!Keeps(1..born)
  PROVE  \A p \in (1..born) \X (1..born) : p \in Fc!Preferences' <=> p \in Fc!Preferences
<1>1. Fc!IsPlain /\ Fc!IsPlain'
  BY DEF TreeInv, Fc!IsPlain
<1>. QED  BY <1>1, PartsAssumptions, Fc!VerdictsStay

LEMMA TreeStays ==
  ASSUME TreeInv, tree' = tree
  PROVE  Fc!Keeps(1..born)
<1>1. \A b \in (1..born) \ {Genesis} : tree.parent[b] \in 1..born
  BY TreeFacts, PartsAssumptions
<1>. QED  BY <1>1, TreeFacts, PartsAssumptions DEF Fc!Keeps
-----------------------------------------------------------------------------
(* What may be a head exists.                                              *)
LEMMA BlockFacts ==
  ASSUME TreeInv, BlocksInv
  PROVE  /\ Heads \subseteq 1..born /\ Genesis \in Heads
         /\ {chain_head, vhead, head, mined, config_at} \subseteq Heads
         /\ valid \subseteq 2..born /\ invalid \subseteq 2..born
         /\ Heads \subseteq Blocks /\ Genesis \notin valid
<1>1. valid \subseteq 2..born /\ invalid \subseteq 2..born
  BY DEF BlocksInv
<1>2. 2..born \subseteq 1..born /\ Genesis \in 1..born /\ Genesis \notin 2..born
  BY TreeFacts DEF Genesis
<1>. QED  BY <1>1, <1>2, TreeFacts DEF Heads, BlocksInv

(* A block published extends the head the node was building on. It is      *)
(* born, and announced behind all that waits.                              *)
LEMMA PublishesEffect ==
  ASSUME TreeInv, BlocksInv, NodeInv, NEW n, NEW c, Nd!PublishesOnly(n, node, c),
         NEW q, QueueOK(q, born, invalid, valid), Publishes(n, q)
  PROVE  /\ TreeInv'
         /\ born =< born' /\ own \subseteq own' /\ own' \subseteq 2..born'
         /\ \A b \in 2..born : tree'.parent[b] = tree.parent[b]
         /\ Fc!Keeps(1..born)
         /\ QueueOK(updates', born', invalid, valid)
         /\ Range(q) \subseteq Range(updates')
         /\ \A u \in Range(updates') \ Range(q) : u.kind = "BlockNew" /\ u.block \notin 2..born
         /\ \/ updates' = q
            \/ \E b \in Blocks : updates' = Append(q, New(b))
         /\ n.published = node.published \/
              \E b \in own' : tree'.parent[b] = node.candidate.parent /\ New(b) \in Range(updates')
<1>1. CASE n.published = node.published
  <2>1. updates' = q /\ UNCHANGED <<tree, born, own>>
    BY <1>1 DEF Publishes
  <2>2. Fc!Keeps(1..born)
    BY <2>1, TreeStays
  <2>. QED  BY <1>1, <2>1, <2>2, TreeFacts DEF TreeInv, BlocksInv
<1>2. CASE n.published # node.published
  <2>1. PICK b \in n.published \ node.published, work \in Works, weak \in BOOLEAN :
          /\ Bear(b.parent, work, weak)
          /\ own' = own \cup {born'}
          /\ updates' = Append(q, New(born'))
    BY <1>2 DEF Publishes, New
  <2>2. Nd!Building(node) /\ b.parent = node.candidate.parent
    BY <2>1 DEF Nd!PublishesOnly
  <2>3. b.parent \in 1..born
    BY <2>2, BlockFacts DEF NodeInv
  <2>4. /\ TreeInv' /\ born' = born + 1 /\ born' \in Blocks \ {Genesis}
        /\ \A d \in 2..born : tree'.parent[d] = tree.parent[d]
        /\ tree'.parent[born'] = b.parent
        /\ Fc!Keeps(1..born)
    BY <2>1, <2>3, Birth
  <2>5. born \in Nat /\ born' \in 2..born' /\ born' \notin 2..born /\ born =< born'
        /\ 2..born \subseteq 2..born'
    BY <2>4, TreeFacts
  <2>6. own' \subseteq 2..born'
    BY <2>1, <2>5 DEF BlocksInv
  <2>7. QueueOK(q, born', invalid, valid)
    BY <2>4, <2>5, QueueLater
  <2>8. New(born') \in Update /\ New(born').kind = "BlockNew" /\ New(born').block = born'
    BY <2>4, UpdateFacts
  <2>9. New(born') \notin Range(q)
    BY <2>5, <2>8 DEF QueueOK
  <2>10. /\ QueueOK(updates', born', invalid, valid)
         /\ Range(updates') = Range(q) \cup {New(born')}
    BY <2>1, <2>5, <2>7, <2>8, <2>9, QueueAppend
  <2>. QED  BY <2>1, <2>2, <2>4, <2>5, <2>6, <2>8, <2>10
<1>. QED  BY <1>1, <1>2
-----------------------------------------------------------------------------
(* A head that is fresh stays so through an attempt to publish.            *)
LEMMA FreshStays ==
  ASSUME NEW n, NEW m, NEW c, NEW k, Nd!PublishesOnly(m, n, c), Nd!KeepsCandidate(m, n),
         Nd!IsFresh(n, k)
  PROVE  Nd!IsFresh(m, k)
BY DEF Nd!PublishesOnly, Nd!KeepsCandidate, Nd!IsFresh

(* The path of the blocks is not touched by a step that moves none on it.  *)
LEMMA PathStays ==
  ASSUME PathInv, UNCHANGED <<commits, head>>, valid \subseteq valid',
         \A b \in Blocks : New(b) \in Waiting' => b \notin checked',
         \A b \in Blocks : Valid(b) \in Waiting' => Valid(b) \in Waiting,
         \A b \in Blocks : Committed(b) \in Waiting' => Committed(b) \in Waiting,
         \A b \in Blocks : Nd!IsFresh(node, b) => Nd!IsFresh(node', b)
  PROVE  PathInv'
<1>1. Asked' = Asked
  BY DEF Asked
<1>2. \A b \in Blocks : OnTheWay(b)' => OnTheWay(b)
  BY <1>1 DEF OnTheWay
<1>3. \A b \in Blocks : OnTheWay(b)' => b # head' /\ Nd!IsFresh(node', b)
  BY <1>2 DEF PathInv
<1>4. \A b \in Blocks : Valid(b) \in Waiting' => b \notin Asked'
  BY <1>1 DEF PathInv
<1>5. \A b \in Blocks : Committed(b) \in Waiting' => b \notin Asked' /\ Valid(b) \notin Waiting'
  BY <1>1 DEF PathInv
<1>. QED  BY <1>1, <1>3, <1>4, <1>5 DEF PathInv

(* Updates taken or of other kinds than the path's leave it alone.         *)
LEMMA PathUpdates ==
  ASSUME NEW W, \A u \in W \ Waiting : u.kind \in {"BlockNew", "BlockInvalid"}
  PROVE  /\ \A b \in Blocks : Valid(b) \in W => Valid(b) \in Waiting
         /\ \A b \in Blocks : Committed(b) \in W => Committed(b) \in Waiting
BY UpdateFacts
-----------------------------------------------------------------------------
(* Which commit was reported last, as the channel grows and shrinks.       *)
LEMMA LastReported ==
  ASSUME NEW q \in Seq(Update), NEW b \in Blocks
  PROVE  /\ ReportedLast(Append(q, Committed(b)), b)
         /\ \A u \in Update : /\ u.kind # "BlockCommit" /\ ReportedLast(q, b)
                              => ReportedLast(Append(q, u), b)
<1>1. Committed(b) \in Update /\ Len(q) \in Nat
  BY UpdateFacts, LenProperties
<1>2. ASSUME NEW u \in Update
      PROVE  /\ Len(Append(q, u)) = Len(q) + 1 /\ Append(q, u)[Len(q) + 1] = u
             /\ \A i \in 1..Len(q) : Append(q, u)[i] = q[i]
  BY AppendProperties
<1>3. ReportedLast(Append(q, Committed(b)), b)
  <2>. DEFINE p == Append(q, Committed(b))
  <2>1. Len(p) = Len(q) + 1 /\ p[Len(q) + 1] = Committed(b)
    BY <1>1, <1>2
  <2>. HIDE DEF p
  <2>2. Len(p) \in 1..Len(p) /\ (Len(p) + 1)..Len(p) = {}
    BY <1>1, <2>1
  <2>3. ReportedLast(p, b)
    BY <2>1, <2>2 DEF ReportedLast
  <2>. QED  BY <2>3 DEF p
<1>4. ASSUME NEW u \in Update, u.kind # "BlockCommit", ReportedLast(q, b)
      PROVE  ReportedLast(Append(q, u), b)
  <2>. DEFINE p == Append(q, u)
  <2>1. PICK i \in 1..Len(q) : /\ q[i] = Committed(b)
                               /\ \A j \in (i + 1)..Len(q) : q[j].kind # "BlockCommit"
    BY <1>4 DEF ReportedLast
  <2>2. /\ Len(p) = Len(q) + 1 /\ p[Len(q) + 1] = u
        /\ \A j \in 1..Len(q) : p[j] = q[j]
    BY <1>2
  <2>. HIDE DEF p
  <2>3. i \in 1..Len(p)
    BY <1>1, <2>2
  <2>4. ASSUME NEW j \in (i + 1)..Len(p)  PROVE p[j].kind # "BlockCommit"
    <3>1. j = Len(q) + 1 \/ (j \in (i + 1)..Len(q) /\ j \in 1..Len(q))
      BY <1>1, <2>2
    <3>. QED  BY <1>4, <2>1, <2>2, <3>1
  <2>5. ReportedLast(p, b)
    BY <2>1, <2>2, <2>3, <2>4 DEF ReportedLast
  <2>. QED  BY <2>5 DEF p
<1>. QED  BY <1>3, <1>4

LEMMA LastTaken ==
  ASSUME NEW q \in Seq(Update), q # <<>>, IsInjective(q), NEW b \in Blocks, ReportedLast(q, b)
  PROVE  \/ ReportedLast(Tail(q), b)
         \/ Head(q) = Committed(b) /\ \A u \in Range(Tail(q)) : u.kind # "BlockCommit"
<1>. DEFINE p == Tail(q)
<1>1. /\ p \in Seq(Update) /\ Head(q) = q[1] /\ Len(p) = Len(q) - 1
      /\ \A i \in 1..Len(p) : i + 1 \in 1..Len(q) /\ p[i] = q[i + 1]
  BY QueueShrinks
<1>2. Len(q) \in Nat /\ DOMAIN p = 1..Len(p)
  BY <1>1, LenProperties
<1>3. PICK i \in 1..Len(q) : /\ q[i] = Committed(b)
                             /\ \A j \in (i + 1)..Len(q) : q[j].kind # "BlockCommit"
  BY DEF ReportedLast
<1>. HIDE DEF p
<1>4. CASE i = 1
  <2>1. ASSUME NEW u \in Range(p)  PROVE u.kind # "BlockCommit"
    <3>1. PICK j \in 1..Len(p) : u = p[j]
      BY <1>2 DEF Range
    <3>2. j + 1 \in (i + 1)..Len(q)
      BY <1>1, <1>2, <1>4
    <3>. QED  BY <1>1, <1>3, <3>1, <3>2
  <2>. QED  BY <1>1, <1>3, <1>4, <2>1 DEF p
<1>5. CASE i # 1
  <2>1. i - 1 \in 1..Len(p) /\ (i - 1) + 1 = i
    BY <1>1, <1>2, <1>5
  <2>2. p[i - 1] = Committed(b)
    BY <1>1, <1>3, <2>1
  <2>3. ASSUME NEW j \in ((i - 1) + 1)..Len(p)  PROVE p[j].kind # "BlockCommit"
    <3>1. j \in 1..Len(p) /\ j + 1 \in (i + 1)..Len(q)
      BY <1>1, <1>2, <2>1
    <3>. QED  BY <1>1, <1>3, <3>1
  <2>4. ReportedLast(p, b)
    BY <2>1, <2>2, <2>3 DEF ReportedLast
  <2>. QED  BY <2>4 DEF p
<1>. QED  BY <1>4, <1>5

(* Heads stay where they are when no report of a commit comes or goes.     *)
LEMMA HeadsStay ==
  ASSUME UpdatesInv, vhead \in Blocks, HeadsInv,
         UNCHANGED <<mined, head, chain_head, vhead, commits, config_at>>,
         \/ updates' = updates
         \/ \E u \in Update : updates' = Append(updates, u) /\ u.kind # "BlockCommit"
         \/ updates # <<>> /\ updates' = Tail(updates) /\ Head(updates).kind # "BlockCommit"
  PROVE  HeadsInv'
<1>1. updates \in Seq(Update) /\ IsInjective(updates)
  BY DEF UpdatesInv
<1>2. /\ \A b \in Blocks : Committed(b) \in Waiting' <=> Committed(b) \in Waiting
      /\ ReportedLast(updates, vhead) => ReportedLast(updates', vhead)
  <2>1. CASE updates' = updates
    BY <2>1 DEF Waiting
  <2>2. CASE \E u \in Update : updates' = Append(updates, u) /\ u.kind # "BlockCommit"
    <3>1. PICK u \in Update : updates' = Append(updates, u) /\ u.kind # "BlockCommit"
      BY <2>2
    <3>2. Range(updates') = Range(updates) \cup {u}
      BY <1>1, <3>1, QueueGrows
    <3>3. \A b \in Blocks : Committed(b) # u
      BY <3>1, UpdateFacts
    <3>. QED  BY <1>1, <3>1, <3>2, <3>3, LastReported DEF Waiting
  <2>3. CASE updates # <<>> /\ updates' = Tail(updates) /\ Head(updates).kind # "BlockCommit"
    <3>1. Range(updates') = Range(updates) \ {Head(updates)}
      BY <1>1, <2>3, QueueShrinks
    <3>2. \A b \in Blocks : Committed(b) # Head(updates)
      BY <2>3, UpdateFacts
    <3>3. ReportedLast(updates, vhead) => ReportedLast(updates', vhead)
      BY <1>1, <2>3, <3>2, LastTaken
    <3>. QED  BY <3>1, <3>2, <3>3 DEF Waiting
  <2>. QED  BY <2>1, <2>2, <2>3
<1>3. LastReport'
  BY <1>2 DEF HeadsInv, LastReport
<1>. QED  BY <1>2, <1>3 DEF HeadsInv
-----------------------------------------------------------------------------
(* What the validator is asked to commit stays preferred while it waits.   *)
LEMMA CommitsExist ==
  ASSUME TreeInv, BlocksInv, PathInv
  PROVE  /\ vhead \in 1..born /\ Len(commits) \in Nat
         /\ \A i \in 1..Len(commits) : /\ commits[i] \in 1..born
                                       /\ i # 1 => i - 1 \in 1..Len(commits)
<1>1. commits \in Seq(Blocks) /\ Len(commits) \in Nat /\ DOMAIN commits = 1..Len(commits)
  BY LenProperties DEF PathInv
<1>2. \A i \in 1..Len(commits) : commits[i] \in Asked
  BY <1>1 DEF Asked, Range
<1>3. Asked \subseteq 1..born /\ vhead \in 1..born
  <2>1. valid \subseteq Heads /\ Heads \subseteq 1..born /\ vhead \in Heads
    BY BlockFacts DEF Heads
  <2>. QED  BY <2>1 DEF PathInv
<1>4. \A i \in 1..Len(commits) : i # 1 => i - 1 \in 1..Len(commits)
  BY <1>1
<1>5. \A i \in 1..Len(commits) : commits[i] \in 1..born
  BY <1>2, <1>3
<1>. QED  BY <1>1, <1>3, <1>4, <1>5

LEMMA StillPreferred ==
  ASSUME EngineInv, TreeInv', Fc!Keeps(1..born), UNCHANGED <<commits, vhead>>,
         ~trouble' => ~trouble
  PROVE  ~trouble' => PreferredInv'
<1>. SUFFICES ASSUME ~trouble' PROVE PreferredInv'
  OBVIOUS
<1>1. TreeInv /\ BlocksInv /\ PathInv /\ PreferredInv
  BY DEF EngineInv
<1>2. ASSUME NEW i \in 1..Len(commits)
      PROVE  <<IF i = 1 THEN vhead ELSE commits[i - 1], commits[i]>> \in Fc!Preferences'
  <2>. DEFINE p == <<IF i = 1 THEN vhead ELSE commits[i - 1], commits[i]>>
  <2>1. p \in (1..born) \X (1..born)
    BY <1>1, CommitsExist
  <2>2. p \in Fc!Preferences
    BY <1>1 DEF PreferredInv
  <2>. HIDE DEF p
  <2>3. p \in Fc!Preferences'
    BY <1>1, <2>1, <2>2, PreferencesStay
  <2>. QED  BY <2>3 DEF p
<1>. QED  BY <1>2 DEF PreferredInv
-----------------------------------------------------------------------------
(* The invariant, step by step. First the steps that move no block on its  *)
(* path and no head.                                                       *)
LEMMA Acknowledging == EngineInv /\ Acknowledge => EngineInv'
<1>. SUFFICES ASSUME EngineInv, Acknowledge PROVE EngineInv'
  OBVIOUS
<1>1. TreeInv /\ TreeInv' /\ BlocksInv' /\ UpdatesInv' /\ PathInv' /\ NodeInv'
  BY DEF Acknowledge, EngineInv, TreeInv, BlocksInv, UpdatesInv, PathInv, NodeInv,
     chainPart, validator, Heads, Waiting, Asked, OnTheWay, MinesForTheCandidate
<1>2. ~trouble' => HeadsInv' /\ OwnInv'
  BY DEF Acknowledge, EngineInv, HeadsInv, OwnInv, chainPart, validator, Waiting, LastReport,
     OwnIsJudged
<1>3. ~trouble' => PreferredInv'
  <2>1. UNCHANGED <<tree, commits, vhead, trouble>>
    BY DEF Acknowledge, chainPart, validator
  <2>. QED  BY <1>1, <2>1, TreeStays, StillPreferred
<1>. QED  BY <1>1, <1>2, <1>3 DEF EngineInv, Acknowledge

(* A peer's block arrives: one more block that is new.                     *)
LEMMA Arriving == EngineInv /\ Arrive => EngineInv'
<1>. SUFFICES ASSUME EngineInv, Arrive PROVE EngineInv'
  OBVIOUS
<1>1. TreeInv /\ BlocksInv /\ UpdatesInv /\ PathInv /\ NodeInv
  BY DEF EngineInv
<1>2. /\ UNCHANGED <<publishing, chain_head, received, checked, failed, own, validator, trouble>>
      /\ updates' = Append(updates, New(born'))
  BY DEF Arrive, New
<1>3. PICK p \in {Genesis} \cup checked, work \in Works : Bear(p, work, FALSE)
  BY DEF Arrive
<1>4. p \in 1..born
  BY <1>1, BlockFacts, TreeFacts DEF BlocksInv
<1>5. /\ TreeInv' /\ born' = born + 1 /\ born' \in Blocks \ {Genesis}
      /\ \A d \in 2..born : tree'.parent[d] = tree.parent[d]
  BY <1>1, <1>3, <1>4, Birth
<1>6. born \in Nat /\ born' \in 2..born' /\ born' \notin 2..born /\ born =< born'
      /\ 2..born \subseteq 2..born' /\ born' \in Nat
  BY <1>1, <1>5, TreeFacts
<1>7. BlocksInv'
  BY <1>1, <1>2, <1>6 DEF BlocksInv, Heads, publishing, validator
<1>8. New(born') \in Update /\ New(born').kind = "BlockNew" /\ New(born').block = born'
  BY <1>5, UpdateFacts
<1>9. QueueOK(updates, born', invalid, valid)
  BY <1>1, <1>6, QueueLater, UpdatesAreQueue
<1>10. New(born') \notin Range(updates)
  BY <1>1, <1>6, <1>8 DEF UpdatesInv, Waiting
<1>11. /\ QueueOK(updates', born', invalid, valid)
       /\ Waiting' = Waiting \cup {New(born')}
  BY <1>2, <1>6, <1>8, <1>9, <1>10, QueueAppend DEF Waiting
<1>12. UpdatesInv'
  BY <1>2, <1>11 DEF UpdatesInv, QueueOK, Waiting, validator
<1>13. PathInv'
  <2>1. \A u \in Waiting' \ Waiting : u.kind \in {"BlockNew", "BlockInvalid"}
    BY <1>8, <1>11
  <2>2. /\ \A b \in Blocks : Valid(b) \in Waiting' => Valid(b) \in Waiting
        /\ \A b \in Blocks : Committed(b) \in Waiting' => Committed(b) \in Waiting
    BY <2>1, PathUpdates
  <2>3. ASSUME NEW b \in Blocks, New(b) \in Waiting'  PROVE b \notin checked'
    <3>1. CASE b = born'
      BY <1>1, <1>2, <1>6, <3>1 DEF BlocksInv
    <3>2. CASE b # born'
      <4>1. New(b) # New(born')
        BY <1>8, <3>2, UpdateFacts
      <4>. QED  BY <1>1, <1>2, <1>11, <2>3, <4>1 DEF PathInv
    <3>. QED  BY <3>1, <3>2
  <2>. QED  BY <1>1, <1>2, <2>2, <2>3, PathStays DEF publishing, validator
<1>14. NodeInv'
  BY <1>1, <1>2 DEF NodeInv, Heads, MinesForTheCandidate, publishing, validator
<1>15. ASSUME ~trouble'  PROVE HeadsInv' /\ OwnInv'
  <2>1. HeadsInv /\ OwnInv
    BY <1>2, <1>15 DEF EngineInv
  <2>2. vhead \in Blocks
    BY <1>1, BlockFacts
  <2>3. HeadsInv'
    BY <1>1, <1>2, <1>8, <2>1, <2>2, HeadsStay DEF publishing, validator
  <2>4. own \subseteq 2..born
    BY <1>1 DEF BlocksInv
  <2>5. OwnInv'
    BY <1>2, <1>5, <1>11, <2>1, <2>4 DEF OwnInv, OwnIsJudged, publishing, validator
  <2>. QED  BY <2>3, <2>5
<1>16. acked' \in BOOLEAN /\ trouble' \in BOOLEAN
  BY <1>2 DEF EngineInv, publishing
<1>17. ~trouble' => PreferredInv'
  <2>1. Fc!Keeps(1..born)
    BY <1>1, <1>3, <1>4, Birth
  <2>. QED  BY <1>2, <1>5, <2>1, StillPreferred DEF validator
<1>. QED  BY <1>5, <1>7, <1>12, <1>13, <1>14, <1>15, <1>16, <1>17 DEF EngineInv

(* An attempt to publish: a block of the node's own is born, on the head   *)
(* whose challenge was posted last, or nothing happens to the blocks.      *)
LEMMA Publishing == EngineInv /\ TryPublish => EngineInv'
<1>. SUFFICES ASSUME EngineInv, TryPublish PROVE EngineInv'
  OBVIOUS
<1>1. TreeInv /\ BlocksInv /\ UpdatesInv /\ PathInv /\ NodeInv
  BY DEF EngineInv
<1>2. UNCHANGED <<head, mined, acked, config_at, chain_head, received, checked, failed, validator>>
  BY DEF TryPublish
<1>3. PICK c \in Offers : \E o \in Nd!TryPublish(node, c) :
        /\ node' = o.node
        /\ Publishes(o.node, updates)
        /\ running' = (o.result # "Error")
        /\ trouble' = (trouble \/ o.result = "Error")
  BY DEF TryPublish
<1>4. PICK o \in Nd!TryPublish(node, c) : /\ node' = o.node
                                          /\ Publishes(o.node, updates)
                                          /\ running' = (o.result # "Error")
                                          /\ trouble' = (trouble \/ o.result = "Error")
  BY <1>3
<1>5. /\ c \in {"fresh", "stale"} \cup {"none"} /\ MaxBlock \in Nat
      /\ Nd!NodeOK(node, MaxBlock) /\ node \in Nd!Node
  BY <1>1, PartsAssumptions DEF Offers, NodeInv, Nd!NodeOK
<1>6. Nd!NodeOK(node', MaxBlock)
  BY <1>4, <1>5, PartsAssumptions, Nd!TryPublishOK
<1>7. /\ Nd!KeepsCandidate(node', node) /\ Nd!PublishesOnly(node', node, c)
      /\ Nd!GivesUpToPublish(node', node)
  BY <1>4, <1>5, PartsAssumptions, Nd!AttemptEffect
<1>8. QueueOK(updates, born, invalid, valid)
  BY <1>1, UpdatesAreQueue
<1>9. /\ TreeInv'
      /\ born =< born' /\ own \subseteq own' /\ own' \subseteq 2..born'
      /\ \A b \in 2..born : tree'.parent[b] = tree.parent[b]
      /\ Fc!Keeps(1..born)
      /\ QueueOK(updates', born', invalid, valid)
      /\ Waiting \subseteq Waiting'
      /\ \A u \in Waiting' \ Waiting : u.kind = "BlockNew" /\ u.block \notin 2..born
      /\ \/ updates' = updates
         \/ \E b \in Blocks : updates' = Append(updates, New(b))
      /\ \/ node'.published = node.published
         \/ \E b \in own' : tree'.parent[b] = node.candidate.parent /\ New(b) \in Waiting'
  BY <1>1, <1>4, <1>7, <1>8, PublishesEffect DEF Waiting
<1>10. born \in Nat /\ born' \in Nat /\ 2..born \subseteq 2..born'
  <2>1. born \in Nat /\ born' \in Nat
    BY <1>1, <1>9, PartsAssumptions DEF TreeInv
  <2>. QED  BY <1>9, <2>1
<1>11. BlocksInv'
  BY <1>1, <1>2, <1>9, <1>10 DEF BlocksInv, Heads, validator
<1>12. UpdatesInv'
  BY <1>2, <1>9 DEF UpdatesInv, QueueOK, Waiting, validator
<1>13. PathInv'
  <2>1. /\ \A b \in Blocks : Valid(b) \in Waiting' => Valid(b) \in Waiting
        /\ \A b \in Blocks : Committed(b) \in Waiting' => Committed(b) \in Waiting
    BY <1>9, PathUpdates
  <2>2. ASSUME NEW b \in Blocks, New(b) \in Waiting'  PROVE b \notin checked'
    BY <1>1, <1>2, <1>9, <2>2, UpdateFacts DEF PathInv, BlocksInv
  <2>3. \A b \in Blocks : Nd!IsFresh(node, b) => Nd!IsFresh(node', b)
    BY <1>7, FreshStays
  <2>. QED  BY <1>1, <1>2, <2>1, <2>2, <2>3, PathStays DEF validator
<1>14. NodeInv'
  <2>1. Nd!Building(node') => node'.candidate.parent \in Heads'
    BY <1>1, <1>2, <1>7 DEF NodeInv, Heads, validator, Nd!KeepsCandidate
  <2>2. \A b \in node'.published : b.parent \in Heads'
    BY <1>1, <1>2, <1>7 DEF NodeInv, Heads, validator, Nd!PublishesOnly
  <2>3. MinesForTheCandidate'
    BY <1>1, <1>2, <1>7 DEF NodeInv, MinesForTheCandidate, Nd!KeepsCandidate
  <2>. QED  BY <1>4, <1>6, <2>1, <2>2, <2>3 DEF NodeInv
<1>15. ASSUME ~trouble'  PROVE HeadsInv' /\ OwnInv'
  <2>1. HeadsInv /\ OwnInv
    BY <1>4, <1>15 DEF EngineInv
  <2>2. vhead \in Blocks /\ own \subseteq 2..born
    BY <1>1, BlockFacts DEF BlocksInv
  <2>3. \/ updates' = updates
        \/ \E u \in Update : updates' = Append(updates, u) /\ u.kind # "BlockCommit"
    BY <1>9, UpdateFacts
  <2>4. HeadsInv'
    BY <1>1, <1>2, <2>1, <2>2, <2>3, HeadsStay DEF validator
  <2>5. OwnInv'
    <3>1. CASE Nd!Building(node')
      BY <3>1 DEF OwnInv, OwnIsJudged
    <3>2. CASE ~Nd!Building(node') /\ Nd!Building(node)
      <4>1. PICK b \in node'.published : b.parent = node.candidate.parent
        BY <1>7, <3>2 DEF Nd!GivesUpToPublish
      <4>2. b \notin node.published
        BY <1>5, <3>2, <4>1 DEF Nd!NodeOK
      <4>3. node.candidate.parent = head'
        BY <1>1, <1>2, <2>1, <3>2 DEF NodeInv, MinesForTheCandidate, HeadsInv
      <4>4. node'.published # node.published
        BY <4>1, <4>2
      <4>5. PICK d \in own' : tree'.parent[d] = head' /\ New(d) \in Waiting'
        BY <1>9, <4>3, <4>4
      <4>. QED  BY <4>5 DEF OwnInv, OwnIsJudged
    <3>3. CASE ~Nd!Building(node)
      <4>1. CASE chain_head # head
        BY <1>2, <4>1 DEF OwnInv, OwnIsJudged
      <4>2. CASE chain_head = head
        <5>1. PICK b \in own : tree.parent[b] = head /\ OwnIsJudged(b)
          BY <2>1, <3>3, <4>2 DEF OwnInv
        <5>. QED  BY <1>2, <1>9, <2>2, <5>1 DEF OwnInv, OwnIsJudged, validator
      <4>. QED  BY <4>1, <4>2
    <3>. QED  BY <3>1, <3>2, <3>3
  <2>. QED  BY <2>4, <2>5
<1>16. acked' \in BOOLEAN /\ trouble' \in BOOLEAN
  BY <1>2, <1>4 DEF EngineInv
<1>17. ~trouble' => PreferredInv'
  BY <1>2, <1>4, <1>9, StillPreferred DEF validator
<1>. QED  BY <1>9, <1>11, <1>12, <1>13, <1>14, <1>15, <1>16, <1>17 DEF EngineInv

(* An update is taken from the channel.                                    *)
LEMMA Receiving ==
  ASSUME UpdatesInv, NEW b \in Blocks,
         NEW kind \in {"BlockNew", "BlockValid", "BlockInvalid", "BlockCommit"},
         Receives(kind, b)
  PROVE  /\ updates # <<>> /\ Head(updates).kind = kind
         /\ BlockUpdate(kind, b) \in Waiting /\ b \in 2..born
         /\ QueueOK(Tail(updates), born, invalid, valid)
         /\ Range(Tail(updates)) = Waiting \ {BlockUpdate(kind, b)}
         /\ kind \in {"BlockValid", "BlockCommit"} => b \in valid
         /\ kind = "BlockInvalid" => b \in invalid
<1>1. updates # <<>> /\ Head(updates) = BlockUpdate(kind, b)
  BY DEF Receives
<1>2. QueueOK(updates, born, invalid, valid)
  BY UpdatesAreQueue
<1>3. /\ QueueOK(Tail(updates), born, invalid, valid)
      /\ Range(Tail(updates)) = Waiting \ {BlockUpdate(kind, b)}
      /\ BlockUpdate(kind, b) \in Waiting
  BY <1>1, <1>2, QueueTail DEF Waiting
<1>4. BlockUpdate(kind, b).kind = kind /\ BlockUpdate(kind, b).block = b
  BY UpdateFacts
<1>. QED  BY <1>1, <1>3, <1>4 DEF UpdatesInv

(* A new block is sent to validation or failed, and no other is: what      *)
(* there is carries a PoW consensus.                                       *)
LEMMA Judging ==
  ASSUME TreeInv, NEW b \in Blocks \ {Genesis}, Fc!OnBlockNew(b, {})
  PROVE  /\ received' = received \cup {b}
         /\ \/ checked' = checked \cup {b} /\ failed' = failed
            \/ failed' = failed \cup {b} /\ checked' = checked
<1>1. tree.alien = {} /\ Fc!Genesis = Genesis
  BY PartsAssumptions DEF TreeInv
<1>2. Fc!PredecessorUsable(b, {})
  BY <1>1 DEF Fc!PredecessorUsable, Fc!HasHeader, Fc!IsPow
<1>3. Fc!FailedBlock(b, {}) = b
  BY <1>2 DEF Fc!FailedBlock
<1>. QED  BY <1>3 DEF Fc!OnBlockNew

(* The handler of BlockNew: an own block it takes is judged.               *)
LEMMA TakingNew ==
  ASSUME EngineInv, NEW b \in Blocks, OnBlockNew(b)
  PROVE  EngineInv'
<1>1. TreeInv /\ BlocksInv /\ UpdatesInv /\ PathInv /\ NodeInv
  BY DEF EngineInv
<1>2. /\ UNCHANGED <<publishing, tree, chain_head, born, own, validator, trouble>>
      /\ updates' = Tail(updates) /\ Receives("BlockNew", b) /\ Fc!OnBlockNew(b, {})
  BY DEF OnBlockNew
<1>3. /\ updates # <<>> /\ Head(updates).kind = "BlockNew" /\ New(b) \in Waiting /\ b \in 2..born
      /\ QueueOK(updates', born, invalid, valid)
      /\ Waiting' = Waiting \ {New(b)}
  BY <1>1, <1>2, Receiving DEF New, Waiting
<1>4. b \in Blocks \ {Genesis}
  BY <1>1, <1>3, TreeFacts
<1>5. /\ received' = received \cup {b}
      /\ \/ checked' = checked \cup {b} /\ failed' = failed
         \/ failed' = failed \cup {b} /\ checked' = checked
  BY <1>1, <1>2, <1>4, Judging
<1>6. b \notin checked /\ b \notin valid
  BY <1>1, <1>3 DEF PathInv, BlocksInv
<1>7. BlocksInv'
  BY <1>1, <1>2, <1>3, <1>5 DEF BlocksInv, Heads, publishing, validator
<1>8. UpdatesInv'
  BY <1>2, <1>3 DEF UpdatesInv, QueueOK, Waiting, validator
<1>9. PathInv'
  <2>1. ASSUME NEW d \in Blocks, New(d) \in Waiting'  PROVE d \notin checked'
    <3>1. d # b /\ d \notin checked
      BY <1>1, <1>3, <2>1 DEF PathInv
    <3>. QED  BY <1>5, <3>1
  <2>. QED  BY <1>1, <1>2, <1>3, <2>1, PathStays DEF publishing, validator
<1>10. NodeInv'
  BY <1>1, <1>2 DEF NodeInv, Heads, MinesForTheCandidate, publishing, validator
<1>11. ASSUME ~trouble'  PROVE HeadsInv' /\ OwnInv'
  <2>1. HeadsInv /\ OwnInv
    BY <1>2, <1>11 DEF EngineInv
  <2>2. vhead \in Blocks
    BY <1>1, BlockFacts
  <2>3. HeadsInv'
    BY <1>1, <1>2, <1>3, <2>1, <2>2, HeadsStay DEF publishing, validator
  <2>4. ASSUME NEW d \in Blocks, OwnIsJudged(d)  PROVE OwnIsJudged(d)'
    <3>1. CASE d = b
      BY <1>2, <1>5, <1>6, <3>1 DEF OwnIsJudged, validator
    <3>2. CASE d # b
      <4>1. New(d) # New(b) /\ Valid(d) # New(b)
        BY <3>2, UpdateFacts
      <4>. QED  BY <1>2, <1>3, <1>5, <2>4, <4>1 DEF OwnIsJudged, validator
    <3>. QED  BY <3>1, <3>2
  <2>5. own \subseteq Blocks
    BY <1>1, TreeFacts DEF BlocksInv
  <2>6. OwnInv'
    BY <1>2, <2>1, <2>4, <2>5 DEF OwnInv, publishing, validator
  <2>. QED  BY <2>3, <2>6
<1>12. TreeInv' /\ acked' \in BOOLEAN /\ trouble' \in BOOLEAN
  BY <1>1, <1>2 DEF EngineInv, TreeInv, publishing
<1>13. ~trouble' => PreferredInv'
  BY <1>1, <1>2, <1>12, TreeStays, StillPreferred DEF validator
<1>. QED  BY <1>7, <1>8, <1>9, <1>10, <1>11, <1>12, <1>13 DEF EngineInv

(* The handler of BlockInvalid does nothing.                               *)
LEMMA TakingInvalid ==
  ASSUME EngineInv, NEW b \in Blocks, OnBlockInvalid(b)
  PROVE  EngineInv'
<1>1. TreeInv /\ BlocksInv /\ UpdatesInv /\ PathInv /\ NodeInv
  BY DEF EngineInv
<1>2. /\ UNCHANGED <<publishing, chainPart, born, own, validator, trouble>>
      /\ updates' = Tail(updates) /\ Receives("BlockInvalid", b)
  BY DEF OnBlockInvalid
<1>. DEFINE u == BlockUpdate("BlockInvalid", b)
<1>3. /\ updates # <<>> /\ Head(updates).kind = "BlockInvalid"
      /\ QueueOK(updates', born, invalid, valid)
      /\ Waiting' = Waiting \ {u}
  BY <1>1, <1>2, Receiving DEF Waiting
<1>4. /\ \A d \in Blocks : New(d) # u /\ Valid(d) # u /\ Committed(d) # u
  BY UpdateFacts
<1>. HIDE DEF u
<1>5. TreeInv' /\ BlocksInv' /\ acked' \in BOOLEAN /\ trouble' \in BOOLEAN
  BY <1>1, <1>2 DEF EngineInv, TreeInv, BlocksInv, Heads, publishing, chainPart, validator
<1>6. UpdatesInv'
  BY <1>2, <1>3 DEF UpdatesInv, QueueOK, Waiting, validator
<1>7. PathInv'
  <2>1. \A d \in Blocks : New(d) \in Waiting' => d \notin checked'
    BY <1>1, <1>2, <1>3 DEF PathInv, chainPart
  <2>. QED  BY <1>1, <1>2, <1>3, <2>1, PathStays DEF publishing, validator
<1>8. NodeInv'
  BY <1>1, <1>2 DEF NodeInv, Heads, MinesForTheCandidate, publishing, validator
<1>9. ASSUME ~trouble'  PROVE HeadsInv' /\ OwnInv'
  <2>1. HeadsInv /\ OwnInv
    BY <1>2, <1>9 DEF EngineInv
  <2>2. vhead \in Blocks /\ own \subseteq Blocks
    BY <1>1, BlockFacts, TreeFacts DEF BlocksInv
  <2>3. HeadsInv'
    BY <1>1, <1>2, <1>3, <2>1, <2>2, HeadsStay DEF publishing, chainPart, validator
  <2>4. \A d \in Blocks : OwnIsJudged(d) => OwnIsJudged(d)'
    BY <1>2, <1>3, <1>4 DEF OwnIsJudged, chainPart, validator
  <2>5. OwnInv'
    BY <1>2, <2>1, <2>2, <2>4 DEF OwnInv, publishing, chainPart, validator
  <2>. QED  BY <2>3, <2>5
<1>10. ~trouble' => PreferredInv'
  BY <1>1, <1>2, <1>5, TreeStays, StillPreferred DEF validator, chainPart
<1>. QED  BY <1>5, <1>6, <1>7, <1>8, <1>9, <1>10 DEF EngineInv
-----------------------------------------------------------------------------
(* What may be a head is no block that was not valid so far.               *)
LEMMA NotBuiltOn ==
  ASSUME TreeInv, BlocksInv, NodeInv, NEW b \in 2..born, b \notin valid
  PROVE  b \in Blocks /\ b # head /\ Nd!IsFresh(node, b)
<1>1. b \in Blocks /\ b \notin Heads
  BY TreeFacts DEF Heads
<1>. QED  BY <1>1, BlockFacts DEF NodeInv, Nd!IsFresh

(* The validator answers a check: a valid block sets out on its path.      *)
LEMMA Validating == EngineInv /\ Validate => EngineInv'
<1>. SUFFICES ASSUME EngineInv, Validate PROVE EngineInv'
  OBVIOUS
<1>1. TreeInv /\ BlocksInv /\ UpdatesInv /\ PathInv /\ NodeInv
  BY DEF EngineInv
<1>2. UNCHANGED <<publishing, chainPart, born, own, commits, vhead, trouble>>
  BY DEF Validate
<1>3. PICK b \in checked \ (valid \cup invalid) :
        \/ /\ valid' = valid \cup {b} /\ invalid' = invalid
           /\ updates' = Append(updates, Valid(b))
        \/ /\ invalid' = invalid \cup {b} /\ valid' = valid
           /\ updates' = Append(updates, BlockUpdate("BlockInvalid", b))
  BY DEF Validate, Valid
<1>4. PICK k \in {"BlockValid", "BlockInvalid"} :
        /\ updates' = Append(updates, BlockUpdate(k, b))
        /\ k = "BlockValid" => valid' = valid \cup {b} /\ invalid' = invalid
        /\ k = "BlockInvalid" => invalid' = invalid \cup {b} /\ valid' = valid
  <2>1. CASE /\ valid' = valid \cup {b} /\ invalid' = invalid
             /\ updates' = Append(updates, Valid(b))
    BY <2>1 DEF Valid
  <2>2. CASE /\ invalid' = invalid \cup {b} /\ valid' = valid
             /\ updates' = Append(updates, BlockUpdate("BlockInvalid", b))
    BY <2>2
  <2>. QED  BY <1>3, <2>1, <2>2
<1>5. b \in 2..born /\ b \in Blocks /\ b # head /\ Nd!IsFresh(node, b) /\ born \in Nat
  BY <1>1, NotBuiltOn, TreeFacts DEF BlocksInv
<1>. DEFINE u == BlockUpdate(k, b)
<1>6. u \in Update /\ u.kind = k /\ u.block = b
  BY <1>5, UpdateFacts
<1>. HIDE DEF u
<1>7. u \notin Range(updates)
  BY <1>1, <1>3, <1>6 DEF UpdatesInv, Waiting
<1>8. QueueOK(updates, born, invalid', valid')
  <2>1. QueueOK(updates, born, invalid, valid)
    BY <1>1, UpdatesAreQueue
  <2>. QED  BY <1>4, <1>5, <2>1, QueueLater
<1>9. /\ QueueOK(updates', born, invalid', valid')
      /\ Waiting' = Waiting \cup {u}
  <2>1. updates' = Append(updates, u)
    BY <1>4 DEF u
  <2>. QED  BY <1>4, <1>5, <1>6, <1>7, <1>8, <2>1, QueueAppend DEF Waiting
<1>10. TreeInv' /\ acked' \in BOOLEAN /\ trouble' \in BOOLEAN
  BY <1>1, <1>2 DEF EngineInv, TreeInv, publishing, chainPart
<1>11. BlocksInv'
  BY <1>1, <1>2, <1>3, <1>4 DEF BlocksInv, Heads, publishing, chainPart
<1>12. UpdatesInv'
  BY <1>2, <1>9 DEF UpdatesInv, QueueOK, Waiting
<1>13. \A d \in Blocks : /\ New(d) \in Waiting' => New(d) \in Waiting
                         /\ Committed(d) \in Waiting' => Committed(d) \in Waiting
                         /\ Valid(d) \in Waiting' => Valid(d) \in Waiting \/ d = b
  BY <1>6, <1>9, UpdateFacts
<1>14. b \notin Asked /\ Committed(b) \notin Waiting
  BY <1>1, <1>3, <1>5, UpdateFacts DEF PathInv, UpdatesInv
<1>15. PathInv'
  <2>1. Asked' = Asked /\ valid \subseteq valid' /\ checked' = checked /\ head' = head /\ node' = node
    BY <1>2, <1>4 DEF Asked, chainPart, publishing
  <2>2. \A d \in Blocks : OnTheWay(d)' => OnTheWay(d) \/ d = b
    BY <1>13, <2>1 DEF OnTheWay
  <2>3. \A d \in Blocks : OnTheWay(d)' => d # head' /\ Nd!IsFresh(node', d)
    BY <1>1, <1>5, <2>1, <2>2 DEF PathInv
  <2>4. \A d \in Blocks : Valid(d) \in Waiting' => d \notin Asked'
    BY <1>1, <1>13, <1>14, <2>1 DEF PathInv
  <2>5. ASSUME NEW d \in Blocks, Committed(d) \in Waiting'
        PROVE  d \notin Asked' /\ Valid(d) \notin Waiting'
    BY <1>1, <1>13, <1>14, <2>1, <2>5 DEF PathInv
  <2>6. \A d \in Blocks : New(d) \in Waiting' => d \notin checked'
    BY <1>1, <1>13, <2>1 DEF PathInv
  <2>7. commits' \in Seq(Blocks) /\ IsInjective(commits') /\ Asked' \subseteq valid'
    BY <1>1, <1>2, <2>1 DEF PathInv
  <2>. QED  BY <2>3, <2>4, <2>5, <2>6, <2>7 DEF PathInv
<1>16. NodeInv'
  BY <1>1, <1>2, <1>4 DEF NodeInv, Heads, MinesForTheCandidate, publishing
<1>17. ASSUME ~trouble'  PROVE HeadsInv' /\ OwnInv'
  <2>1. HeadsInv /\ OwnInv
    BY <1>2, <1>17 DEF EngineInv
  <2>2. vhead \in Blocks /\ own \subseteq Blocks
    BY <1>1, BlockFacts, TreeFacts DEF BlocksInv
  <2>3. HeadsInv'
    <3>1. updates' = Append(updates, u) /\ u \in Update /\ u.kind # "BlockCommit"
      BY <1>4, <1>6 DEF u
    <3>. QED  BY <1>1, <1>2, <2>1, <2>2, <3>1, HeadsStay DEF publishing, chainPart
  <2>4. ASSUME NEW d \in Blocks, OwnIsJudged(d)  PROVE OwnIsJudged(d)'
    <3>1. CASE d = b /\ k = "BlockValid"
      <4>1. Valid(d) \in Waiting'
        BY <1>9, <3>1 DEF u, Valid
      <4>. QED  BY <4>1 DEF OwnIsJudged
    <3>2. CASE ~(d = b /\ k = "BlockValid")
      BY <1>2, <1>4, <1>9, <2>4, <3>2 DEF OwnIsJudged, chainPart
    <3>. QED  BY <3>1, <3>2
  <2>5. OwnInv'
    BY <1>2, <2>1, <2>2, <2>4 DEF OwnInv, publishing, chainPart
  <2>. QED  BY <2>3, <2>5
<1>18. ~trouble' => PreferredInv'
  BY <1>1, <1>2, <1>10, TreeStays, StillPreferred DEF chainPart
<1>. QED  BY <1>10, <1>11, <1>12, <1>15, <1>16, <1>17, <1>18 DEF EngineInv

(* The validator executes a commit and reports it.                         *)
LEMMA Executing == EngineInv /\ Execute => EngineInv'
<1>. SUFFICES ASSUME EngineInv, Execute PROVE EngineInv'
  OBVIOUS
<1>1. TreeInv /\ BlocksInv /\ UpdatesInv /\ PathInv /\ NodeInv
  BY DEF EngineInv
<1>. DEFINE b == Head(commits)
<1>2. /\ UNCHANGED <<publishing, chainPart, born, own, valid, invalid, trouble>>
      /\ commits # <<>> /\ commits' = Tail(commits) /\ vhead' = b
      /\ updates' = Append(updates, Committed(b))
  BY DEF Execute, Committed
<1>3. /\ commits' \in Seq(Blocks) /\ IsInjective(commits')
      /\ b \in Blocks /\ b = commits[1] /\ b \in Asked
      /\ Len(commits') = Len(commits) - 1
      /\ \A i \in 1..Len(commits') : i + 1 \in 1..Len(commits) /\ commits'[i] = commits[i + 1]
      /\ Asked' = Asked \ {b}
  BY <1>1, <1>2, QueueShrinks DEF PathInv, Asked
<1>. HIDE DEF b
<1>4. b \in valid /\ Valid(b) \notin Waiting /\ Committed(b) \notin Waiting /\ b \in 2..born
  BY <1>1, <1>3, BlockFacts DEF PathInv
<1>5. Committed(b) \in Update /\ Committed(b).kind = "BlockCommit" /\ Committed(b).block = b
  BY <1>3, UpdateFacts
<1>6. /\ QueueOK(updates', born, invalid, valid)
      /\ Waiting' = Waiting \cup {Committed(b)}
  <2>1. QueueOK(updates, born, invalid, valid)
    BY <1>1, UpdatesAreQueue
  <2>. QED  BY <1>2, <1>4, <1>5, <2>1, QueueAppend DEF Waiting
<1>7. TreeInv' /\ acked' \in BOOLEAN /\ trouble' \in BOOLEAN
  BY <1>1, <1>2 DEF EngineInv, TreeInv, publishing, chainPart
<1>8. BlocksInv'
  BY <1>1, <1>2, <1>4 DEF BlocksInv, Heads, publishing, chainPart
<1>9. UpdatesInv'
  BY <1>2, <1>6 DEF UpdatesInv, QueueOK, Waiting
<1>10. \A d \in Blocks : /\ New(d) \in Waiting' => New(d) \in Waiting
                         /\ Valid(d) \in Waiting' => Valid(d) \in Waiting
                         /\ Committed(d) \in Waiting' => Committed(d) \in Waiting \/ d = b
  BY <1>3, <1>5, <1>6, UpdateFacts
<1>11. PathInv'
  <2>1. valid' = valid /\ checked' = checked /\ head' = head /\ node' = node
    BY <1>2 DEF chainPart, publishing
  <2>2. \A d \in Blocks : OnTheWay(d)' => OnTheWay(d)
    BY <1>3, <1>10 DEF OnTheWay
  <2>3. \A d \in Blocks : OnTheWay(d)' => d # head' /\ Nd!IsFresh(node', d)
    BY <1>1, <2>1, <2>2 DEF PathInv
  <2>4. \A d \in Blocks : Valid(d) \in Waiting' => d \notin Asked'
    BY <1>1, <1>3, <1>10 DEF PathInv
  <2>5. ASSUME NEW d \in Blocks, Committed(d) \in Waiting'
        PROVE  d \notin Asked' /\ Valid(d) \notin Waiting'
    BY <1>1, <1>3, <1>4, <1>10, <2>5 DEF PathInv
  <2>6. \A d \in Blocks : New(d) \in Waiting' => d \notin checked'
    BY <1>1, <1>10, <2>1 DEF PathInv
  <2>7. Asked' \subseteq valid'
    BY <1>1, <1>3, <2>1 DEF PathInv
  <2>. QED  BY <1>3, <2>3, <2>4, <2>5, <2>6, <2>7 DEF PathInv
<1>12. NodeInv'
  BY <1>1, <1>2 DEF NodeInv, Heads, MinesForTheCandidate, publishing
<1>13. ASSUME ~trouble'  PROVE HeadsInv' /\ OwnInv'
  <2>1. HeadsInv /\ OwnInv
    BY <1>2, <1>13 DEF EngineInv
  <2>2. LastReport'
    <3>1. updates \in Seq(Update)
      BY <1>1 DEF UpdatesInv
    <3>2. ReportedLast(Append(updates, Committed(b)), b)
      BY <1>3, <3>1, LastReported
    <3>. QED  BY <1>2, <3>2 DEF LastReport
  <2>3. chain_head = IF commits' = <<>> THEN b ELSE commits'[Len(commits')]
    <3>1. Len(commits) \in Nat /\ chain_head = commits[Len(commits)]
      BY <1>1, <1>2, <2>1, LenProperties DEF PathInv, HeadsInv
    <3>2. CASE commits' = <<>>
      <4>1. Len(commits) = 1
        BY <1>3, <3>1, <3>2
      <4>. QED  BY <1>3, <3>1, <3>2, <4>1
    <3>3. CASE commits' # <<>>
      <4>1. Len(commits') \in Nat /\ Len(commits') # 0
        BY <1>3, <3>3, EmptySeq, LenProperties
      <4>2. Len(commits') \in 1..Len(commits')
        BY <4>1
      <4>3. commits'[Len(commits')] = commits[Len(commits') + 1] /\ Len(commits') + 1 = Len(commits)
        BY <1>3, <3>1, <4>2
      <4>. QED  BY <3>1, <3>3, <4>3
    <3>. QED  BY <3>2, <3>3
  <2>4. HeadsInv'
    BY <1>2, <1>3, <1>6, <2>1, <2>2, <2>3 DEF HeadsInv, publishing, chainPart
  <2>5. own \subseteq Blocks
    BY <1>1, TreeFacts DEF BlocksInv
  <2>6. \A d \in Blocks : OwnIsJudged(d) => OwnIsJudged(d)'
    BY <1>2, <1>6 DEF OwnIsJudged, chainPart
  <2>7. OwnInv'
    BY <1>2, <2>1, <2>5, <2>6 DEF OwnInv, publishing, chainPart
  <2>. QED  BY <2>4, <2>7
<1>14. ASSUME ~trouble'  PROVE PreferredInv'
  <2>1. PreferredInv
    BY <1>2, <1>14 DEF EngineInv
  <2>2. \A p \in (1..born) \X (1..born) : p \in Fc!Preferences' <=> p \in Fc!Preferences
    BY <1>1, <1>2, <1>7, TreeStays, PreferencesStay DEF chainPart
  <2>3. ASSUME NEW i \in 1..Len(commits')
        PROVE  <<IF i = 1 THEN vhead' ELSE commits'[i - 1], commits'[i]>> \in Fc!Preferences'
    <3>. DEFINE p == <<commits[i], commits[i + 1]>>
    <3>1. i + 1 \in 1..Len(commits) /\ commits'[i] = commits[i + 1] /\ Len(commits') \in Nat
      BY <1>3, LenProperties
    <3>2. i + 1 # 1 /\ (i + 1) - 1 = i /\ i \in 1..Len(commits)
      BY <1>1, <3>1, CommitsExist
    <3>3. p \in Fc!Preferences
      BY <2>1, <3>1, <3>2 DEF PreferredInv
    <3>4. p \in (1..born) \X (1..born)
      BY <1>1, <3>1, <3>2, CommitsExist
    <3>5. commits[i] = IF i = 1 THEN vhead' ELSE commits'[i - 1]
      <4>1. CASE i = 1
        BY <1>2, <1>3, <4>1
      <4>2. CASE i # 1
        <5>1. i - 1 \in 1..Len(commits') /\ (i - 1) + 1 = i
          BY <3>1, <4>2
        <5>. QED  BY <1>3, <4>2, <5>1
      <4>. QED  BY <4>1, <4>2
    <3>6. p = <<IF i = 1 THEN vhead' ELSE commits'[i - 1], commits'[i]>>
      BY <3>1, <3>5
    <3>. HIDE DEF p
    <3>7. p \in Fc!Preferences'
      BY <2>2, <3>3, <3>4
    <3>. QED  BY <3>6, <3>7
  <2>. QED  BY <2>3 DEF PreferredInv
<1>. QED  BY <1>7, <1>8, <1>9, <1>11, <1>12, <1>13, <1>14 DEF EngineInv

(* A block on the chain head is always preferred to it.                    *)
LEMMA ChildIsPreferred ==
  ASSUME TreeInv, NEW STATE b, b \in Blocks \ {Genesis}, tree.parent[b] = chain_head
  PROVE  Fc!Verdict(chain_head, b, {}) = "commit"
<1>1. Fc!IsTree(tree) /\ tree.alien = {} /\ b \in Fc!Blocks \ {Fc!Genesis}
  BY PartsAssumptions DEF TreeInv
<1>2. Fc!IsPow(b)
  BY <1>1 DEF Fc!IsPow
<1>3. Fc!Verdict(chain_head, b, {}) = Fc!CompareForks(chain_head, b, {})
  BY DEF Fc!Verdict
<1>4. CASE chain_head = Genesis
  <2>1. Fc!Branch[b] \subseteq Fc!Blocks
    BY <1>1, PartsAssumptions, Fc!BranchFacts
  <2>2. Fc!Readable(b)
    BY <1>1, <2>1 DEF Fc!Readable, Fc!HasHeader, Fc!IsPow
  <2>3. Fc!SwitchConsensus(Fc!Genesis, b, {}) = "commit"
    BY <1>1, <2>2, PartsAssumptions, Fc!SwitchCommits
  <2>4. ~Fc!IsPow(chain_head) /\ chain_head = Fc!Genesis
    BY <1>4, PartsAssumptions DEF Fc!IsPow
  <2>. QED  BY <1>2, <1>3, <2>3, <2>4 DEF Fc!CompareForks
<1>5. CASE chain_head # Genesis
  <2>1. Fc!IsPow(chain_head)
    BY <1>1, <1>5, PartsAssumptions DEF Fc!IsPow
  <2>. QED  BY <1>2, <1>3, <2>1 DEF Fc!CompareForks
<1>. QED  BY <1>4, <1>5

(* The handler of BlockValid: a block it prefers is asked to be committed. *)
LEMMA TakingValid ==
  ASSUME EngineInv, NEW CONSTANT b \in Blocks, OnBlockValid(b)
  PROVE  EngineInv'
<1>1. TreeInv /\ BlocksInv /\ UpdatesInv /\ PathInv /\ NodeInv
  BY DEF EngineInv
<1>. DEFINE preferred == Fc!Verdict(chain_head, b, {}) = "commit"
<1>2. /\ UNCHANGED <<publishing, tree, received, checked, failed, born, own, valid, invalid, vhead>>
      /\ updates' = Tail(updates) /\ Receives("BlockValid", b)
      /\ chain_head' = IF preferred THEN b ELSE chain_head
      /\ \/ commits' = (IF preferred THEN Append(commits, b) ELSE commits) /\ trouble' = trouble
         \/ trouble' = TRUE /\ commits' = commits
  BY DEF OnBlockValid, Fc!ChainHeadAfter
<1>3. tree.parent[b] = chain_head /\ b \in Blocks \ {Genesis} => preferred
  BY <1>1, ChildIsPreferred
<1>17. preferred => <<chain_head, b>> \in Fc!Preferences
  BY <1>1, BlockFacts, PartsAssumptions DEF Fc!Preferences
<1>. HIDE DEF preferred
<1>4. /\ updates # <<>> /\ Head(updates).kind = "BlockValid" /\ Valid(b) \in Waiting
      /\ QueueOK(updates', born, invalid, valid)
      /\ Waiting' = Waiting \ {Valid(b)}
      /\ b \in valid /\ b \in 2..born
  BY <1>1, <1>2, Receiving DEF Valid, Waiting
<1>5. b \notin Asked /\ Committed(b) \notin Waiting /\ b # head /\ b \in Blocks \ {Genesis}
  BY <1>1, <1>4, TreeFacts DEF PathInv, OnTheWay
<1>6. /\ commits' \in Seq(Blocks) /\ IsInjective(commits')
      /\ Asked' = Asked \/ Asked' = Asked \cup {b}
  <2>1. commits \in Seq(Blocks) /\ IsInjective(commits)
    BY <1>1 DEF PathInv
  <2>2. CASE commits' = commits
    BY <2>1, <2>2 DEF Asked
  <2>3. CASE commits' = Append(commits, b)
    BY <1>5, <2>1, <2>3, QueueGrows DEF Asked
  <2>. QED  BY <1>2, <2>2, <2>3
<1>7. TreeInv' /\ acked' \in BOOLEAN /\ trouble' \in BOOLEAN
  BY <1>1, <1>2 DEF EngineInv, TreeInv, publishing
<1>8. BlocksInv'
  BY <1>1, <1>2, <1>4 DEF BlocksInv, Heads, publishing
<1>9. UpdatesInv'
  BY <1>2, <1>4 DEF UpdatesInv, QueueOK, Waiting
<1>10. \A d \in Blocks : /\ New(d) \in Waiting' <=> New(d) \in Waiting
                         /\ Valid(d) \in Waiting' => Valid(d) \in Waiting /\ d # b
                         /\ Committed(d) \in Waiting' => Committed(d) \in Waiting
                         /\ d # b => (Valid(d) \in Waiting' <=> Valid(d) \in Waiting)
  BY <1>4, UpdateFacts
<1>11. PathInv'
  <2>1. valid' = valid /\ checked' = checked /\ head' = head /\ node' = node
    BY <1>2 DEF publishing
  <2>2. \A d \in Blocks : OnTheWay(d)' => OnTheWay(d)
    BY <1>4, <1>6, <1>10 DEF OnTheWay
  <2>3. \A d \in Blocks : OnTheWay(d)' => d # head' /\ Nd!IsFresh(node', d)
    BY <1>1, <2>1, <2>2 DEF PathInv
  <2>4. \A d \in Blocks : Valid(d) \in Waiting' => d \notin Asked'
    BY <1>1, <1>6, <1>10 DEF PathInv
  <2>5. ASSUME NEW d \in Blocks, Committed(d) \in Waiting'
        PROVE  d \notin Asked' /\ Valid(d) \notin Waiting'
    BY <1>1, <1>5, <1>6, <1>10, <2>5 DEF PathInv
  <2>6. \A d \in Blocks : New(d) \in Waiting' => d \notin checked'
    BY <1>1, <1>10, <2>1 DEF PathInv
  <2>7. Asked' \subseteq valid'
    BY <1>1, <1>4, <1>6, <2>1 DEF PathInv
  <2>. QED  BY <1>6, <2>3, <2>4, <2>5, <2>6, <2>7 DEF PathInv
<1>12. NodeInv'
  BY <1>1, <1>2 DEF NodeInv, Heads, MinesForTheCandidate, publishing
<1>13. ASSUME ~trouble'  PROVE HeadsInv' /\ OwnInv'
  <2>1. HeadsInv /\ OwnInv /\ commits' = IF preferred THEN Append(commits, b) ELSE commits
    BY <1>2, <1>13 DEF EngineInv
  <2>2. LastReport'
    <3>1. vhead \in Blocks /\ updates \in Seq(Update) /\ IsInjective(updates)
      BY <1>1, BlockFacts DEF UpdatesInv
    <3>2. Head(updates) # Committed(vhead)
      BY <1>4, <3>1, UpdateFacts
    <3>3. ReportedLast(updates, vhead) => ReportedLast(updates', vhead)
      BY <1>2, <1>4, <3>1, <3>2, LastTaken
    <3>. QED  BY <1>2, <1>10, <2>1, <3>3 DEF HeadsInv, LastReport, publishing
  <2>3. HeadsInv'
    <3>1. CASE preferred
      <4>1. commits' # <<>> /\ commits'[Len(commits')] = b
        BY <1>1, <1>5, <2>1, <3>1, QueueGrows DEF PathInv
      <4>. QED  BY <1>2, <2>1, <2>2, <3>1, <4>1 DEF HeadsInv, publishing
    <3>2. CASE ~preferred
      <4>1. \A d \in Blocks : Committed(d) \in Waiting => Committed(d) \in Waiting'
        BY <1>4, UpdateFacts
      <4>. QED  BY <1>2, <2>1, <2>2, <3>2, <4>1 DEF HeadsInv, publishing
    <3>. QED  BY <3>1, <3>2
  <2>4. OwnInv'
    <3>1. CASE Nd!Building(node)
      BY <1>2, <3>1 DEF OwnInv, OwnIsJudged, publishing
    <3>2. CASE chain_head' # head
      BY <1>2, <3>2 DEF OwnInv, OwnIsJudged, publishing
    <3>3. CASE ~Nd!Building(node) /\ chain_head' = head
      <4>1. ~preferred /\ chain_head = head
        BY <1>2, <1>5, <3>3
      <4>2. PICK d \in own : tree.parent[d] = head /\ OwnIsJudged(d)
        BY <2>1, <3>3, <4>1 DEF OwnInv
      <4>3. d # b /\ d \in Blocks
        BY <1>1, <1>3, <1>5, <4>1, <4>2, TreeFacts DEF BlocksInv
      <4>4. OwnIsJudged(d)'
        BY <1>2, <1>10, <4>2, <4>3 DEF OwnIsJudged
      <4>. QED  BY <1>2, <4>2, <4>4 DEF OwnInv, publishing
    <3>. QED  BY <3>1, <3>2, <3>3
  <2>. QED  BY <2>3, <2>4
<1>14. ASSUME ~trouble'  PROVE PreferredInv'
  <2>1. HeadsInv /\ PreferredInv /\ commits' = IF preferred THEN Append(commits, b) ELSE commits
    BY <1>2, <1>14 DEF EngineInv
  <2>2. \A p \in (1..born) \X (1..born) : p \in Fc!Preferences' <=> p \in Fc!Preferences
    BY <1>1, <1>2, <1>7, TreeStays, PreferencesStay
  <2>3. CASE ~preferred
    BY <1>1, <1>2, <1>7, <1>14, <2>1, <2>3, TreeStays, StillPreferred
  <2>4. CASE preferred
    <3>1. commits \in Seq(Blocks) /\ Len(commits) \in Nat
      BY <1>1, LenProperties DEF PathInv
    <3>2. /\ Len(commits') = Len(commits) + 1 /\ commits'[Len(commits) + 1] = b
          /\ \A i \in 1..Len(commits) : commits'[i] = commits[i]
      BY <2>1, <2>4, <3>1, QueueGrows
    <3>3. ASSUME NEW i \in 1..Len(commits')
          PROVE  <<IF i = 1 THEN vhead' ELSE commits'[i - 1], commits'[i]>> \in Fc!Preferences'
      <4>1. CASE i = Len(commits) + 1
        <5>1. chain_head = IF i = 1 THEN vhead' ELSE commits'[i - 1]
          <6>1. CASE commits = <<>>
            <7>1. i = 1 /\ chain_head = vhead
              BY <2>1, <4>1, <6>1 DEF HeadsInv
            <7>. QED  BY <1>2, <7>1
          <6>2. CASE commits # <<>>
            <7>1. Len(commits) # 0
              BY <3>1, <6>2, EmptySeq
            <7>2. i # 1 /\ i - 1 = Len(commits) /\ Len(commits) \in 1..Len(commits)
              BY <3>1, <4>1, <7>1
            <7>3. chain_head = commits[Len(commits)]
              BY <2>1, <6>2 DEF HeadsInv
            <7>. QED  BY <3>2, <7>2, <7>3
          <6>. QED  BY <6>1, <6>2
        <5>2. <<chain_head, b>> \in (1..born) \X (1..born)
          BY <1>1, <1>4, BlockFacts
        <5>3. <<chain_head, b>> \in Fc!Preferences'
          BY <1>17, <2>2, <2>4, <5>2
        <5>. QED  BY <3>2, <4>1, <5>1, <5>3
      <4>2. CASE i # Len(commits) + 1
        <5>. DEFINE p == <<IF i = 1 THEN vhead ELSE commits[i - 1], commits[i]>>
        <5>1. i \in 1..Len(commits)
          BY <3>1, <3>2, <4>2
        <5>2. i # 1 => i - 1 \in 1..Len(commits)
          BY <3>1, <5>1
        <5>3. p \in Fc!Preferences /\ p \in (1..born) \X (1..born)
          BY <1>1, <2>1, <5>1, <5>2, CommitsExist DEF PreferredInv
        <5>4. p = <<IF i = 1 THEN vhead' ELSE commits'[i - 1], commits'[i]>>
          BY <1>2, <3>2, <5>1, <5>2
        <5>. HIDE DEF p
        <5>5. p \in Fc!Preferences'
          BY <2>2, <5>3
        <5>. QED  BY <5>4, <5>5
      <4>. QED  BY <4>1, <4>2
    <3>. QED  BY <3>3 DEF PreferredInv
  <2>. QED  BY <2>3, <2>4
<1>. QED  BY <1>7, <1>8, <1>9, <1>11, <1>12, <1>13, <1>14 DEF EngineInv

(* The handler of BlockCommit: the node moves on to the new head. A block  *)
(* on its way was never that head, so the new one is built on nothing that *)
(* is published or still to be committed.                                  *)
LEMMA TakingCommit ==
  ASSUME EngineInv, NEW CONSTANT b \in Blocks, OnBlockCommit(b)
  PROVE  EngineInv'
<1>1. TreeInv /\ BlocksInv /\ UpdatesInv /\ PathInv /\ NodeInv
  BY DEF EngineInv
<1>2. /\ UNCHANGED <<running, chain_head, received, checked, failed, validator>>
      /\ head' = b /\ Receives("BlockCommit", b)
  BY DEF OnBlockCommit
<1>3. PICK c \in Offers : \E o \in Nd!OnBlockCommit(node, c, b) :
        /\ node' = o.node
        /\ Publishes(o.node, Tail(updates))
        /\ mined' = IF o.mined THEN b ELSE mined
        /\ acked' = (acked /\ ~o.mined)
        /\ config_at' \in IF o.mined THEN {chain_head} ELSE {config_at, chain_head}
        /\ trouble' = (trouble \/ o.result = "Error")
  BY DEF OnBlockCommit
<1>4. PICK o \in Nd!OnBlockCommit(node, c, b) :
        /\ node' = o.node
        /\ Publishes(o.node, Tail(updates))
        /\ mined' = IF o.mined THEN b ELSE mined
        /\ acked' = (acked /\ ~o.mined)
        /\ config_at' \in IF o.mined THEN {chain_head} ELSE {config_at, chain_head}
        /\ trouble' = (trouble \/ o.result = "Error")
  BY <1>3
<1>5. /\ updates # <<>> /\ Head(updates).kind = "BlockCommit" /\ Committed(b) \in Waiting
      /\ QueueOK(Tail(updates), born, invalid, valid)
      /\ Range(Tail(updates)) = Waiting \ {Committed(b)}
      /\ b \in valid /\ b \in 2..born
  BY <1>1, <1>2, Receiving DEF Committed
<1>6. /\ c \in {"fresh", "stale"} \cup {"none"} /\ MaxBlock \in Nat /\ b \in 1..MaxBlock
      /\ b =< MaxBlock /\ MaxBlock =< MaxBlock
      /\ Nd!NodeOK(node, MaxBlock)
  BY <1>1, PartsAssumptions DEF Offers, NodeInv
<1>7. Nd!IsFresh(node, b) /\ b \notin Asked /\ Valid(b) \notin Waiting
  BY <1>1, <1>5 DEF PathInv, OnTheWay
<1>8. Nd!NodeOK(node', MaxBlock)
  BY <1>4, <1>6, <1>7, PartsAssumptions, Nd!OnBlockCommitOK
<1>9. /\ Nd!PublishesOnly(node', node, c)
      /\ o.mined \in BOOLEAN
      /\ o.mined /\ Nd!Building(node') => node'.candidate.parent = b
      /\ ~o.mined => Nd!KeepsCandidate(node', node)
      /\ o.result # "Error" => o.mined /\ Nd!Building(node')
  BY <1>4, <1>6, PartsAssumptions, Nd!CommitEffect
<1>10. /\ TreeInv' /\ Fc!Keeps(1..born)
       /\ born =< born' /\ own \subseteq own' /\ own' \subseteq 2..born'
       /\ QueueOK(updates', born', invalid, valid)
       /\ Range(Tail(updates)) \subseteq Waiting'
       /\ \A u \in Waiting' \ Range(Tail(updates)) : u.kind = "BlockNew" /\ u.block \notin 2..born
       /\ \/ updates' = Tail(updates)
          \/ \E d \in Blocks : updates' = Append(Tail(updates), New(d))
  BY <1>1, <1>4, <1>5, <1>9, PublishesEffect DEF Waiting
<1>11. born \in Nat /\ born' \in Nat /\ 2..born \subseteq 2..born'
  <2>1. born \in Nat /\ born' \in Nat
    BY <1>1, <1>10, PartsAssumptions DEF TreeInv
  <2>. QED  BY <1>10, <2>1
<1>12. /\ valid' = valid /\ invalid' = invalid /\ commits' = commits /\ vhead' = vhead
       /\ checked' = checked /\ Heads' = Heads /\ Asked' = Asked
  BY <1>2 DEF validator, Heads, Asked
<1>13. BlocksInv'
  <2>1. {mined', config_at'} \subseteq Heads /\ b \in Heads
    BY <1>1, <1>4, <1>5 DEF BlocksInv, Heads
  <2>. QED  BY <1>1, <1>2, <1>10, <1>11, <1>12, <2>1 DEF BlocksInv
<1>14. UpdatesInv'
  BY <1>10, <1>12 DEF UpdatesInv, QueueOK, Waiting
<1>15. \A d \in Blocks : /\ New(d) \in Waiting' => New(d) \in Waiting \/ d \notin 2..born
                         /\ Valid(d) \in Waiting' => Valid(d) \in Waiting
                         /\ Committed(d) \in Waiting' => Committed(d) \in Waiting /\ d # b
  BY <1>5, <1>10, UpdateFacts
<1>16. PathInv'
  <2>1. \A d \in Blocks : OnTheWay(d)' => OnTheWay(d) /\ d # b
    BY <1>7, <1>12, <1>15 DEF OnTheWay
  <2>2. ASSUME NEW d \in Blocks, OnTheWay(d)'  PROVE d # head' /\ Nd!IsFresh(node', d)
    <3>1. d # b /\ Nd!IsFresh(node, d)
      BY <1>1, <2>1, <2>2 DEF PathInv
    <3>2. \A p \in node'.published : p.parent # d
      BY <1>9, <3>1 DEF Nd!PublishesOnly, Nd!IsFresh
    <3>3. Nd!Building(node') => node'.candidate.parent # d
      BY <1>9, <3>1 DEF Nd!KeepsCandidate, Nd!IsFresh
    <3>. QED  BY <1>2, <3>1, <3>2, <3>3 DEF Nd!IsFresh
  <2>3. \A d \in Blocks : Valid(d) \in Waiting' => d \notin Asked'
    BY <1>1, <1>12, <1>15 DEF PathInv
  <2>4. ASSUME NEW d \in Blocks, Committed(d) \in Waiting'
        PROVE  d \notin Asked' /\ Valid(d) \notin Waiting'
    BY <1>1, <1>12, <1>15, <2>4 DEF PathInv
  <2>5. \A d \in Blocks : New(d) \in Waiting' => d \notin checked'
    BY <1>1, <1>12, <1>15 DEF PathInv, BlocksInv
  <2>6. commits' \in Seq(Blocks) /\ IsInjective(commits') /\ Asked' \subseteq valid'
    BY <1>1, <1>12 DEF PathInv
  <2>. QED  BY <2>2, <2>3, <2>4, <2>5, <2>6 DEF PathInv
<1>17. NodeInv'
  <2>1. b \in Heads
    BY <1>5 DEF Heads
  <2>2. Nd!Building(node') => node'.candidate.parent \in Heads'
    BY <1>1, <1>9, <1>12, <2>1 DEF NodeInv, Nd!KeepsCandidate
  <2>3. \A p \in node'.published : p.parent \in Heads'
    BY <1>1, <1>9, <1>12 DEF NodeInv, Nd!PublishesOnly
  <2>4. MinesForTheCandidate'
    BY <1>1, <1>4, <1>9 DEF NodeInv, MinesForTheCandidate, Nd!KeepsCandidate
  <2>5. running' \in BOOLEAN
    BY <1>1, <1>2 DEF NodeInv
  <2>. QED  BY <1>8, <2>2, <2>3, <2>4, <2>5 DEF NodeInv
<1>18. acked' \in BOOLEAN /\ trouble' \in BOOLEAN
  BY <1>4, <1>9 DEF EngineInv
<1>19. ASSUME ~trouble'  PROVE HeadsInv' /\ OwnInv'
  <2>1. HeadsInv /\ o.mined /\ Nd!Building(node')
    BY <1>4, <1>9, <1>19 DEF EngineInv
  <2>2. OwnInv'
    BY <2>1 DEF OwnInv, OwnIsJudged
  <2>3. LastReport'
    <3>1. vhead \in Blocks /\ updates \in Seq(Update) /\ IsInjective(updates)
      BY <1>1, BlockFacts DEF UpdatesInv
    <3>2. Tail(updates) \in Seq(Update)
      BY <1>5 DEF QueueOK
    <3>3. ReportedLast(updates, vhead)
      BY <1>5, <2>1 DEF HeadsInv, LastReport
    <3>4. CASE ReportedLast(Tail(updates), vhead)
      <4>1. ReportedLast(updates', vhead)
        <5>1. CASE updates' = Tail(updates)
          BY <3>4, <5>1
        <5>2. ASSUME NEW d \in Blocks, updates' = Append(Tail(updates), New(d))
              PROVE  ReportedLast(updates', vhead)
          <6>1. New(d) \in Update /\ New(d).kind # "BlockCommit"
            BY UpdateFacts
          <6>2. ReportedLast(Append(Tail(updates), New(d)), vhead)
            BY <3>1, <3>2, <3>4, <6>1, LastReported
          <6>. QED  BY <5>2, <6>2
        <5>. QED  BY <1>10, <5>1, <5>2
      <4>. QED  BY <1>12, <4>1 DEF LastReport
    <3>5. CASE /\ Head(updates) = Committed(vhead)
               /\ \A u \in Range(Tail(updates)) : u.kind # "BlockCommit"
      <4>1. vhead = b
        BY <1>2, <3>1, <3>5, UpdateFacts DEF Receives, Committed
      <4>2. \A u \in Waiting' : u.kind # "BlockCommit"
        BY <1>10, <3>5
      <4>3. \A d \in Blocks : Committed(d) \notin Waiting'
        BY <4>2, UpdateFacts
      <4>. QED  BY <1>2, <1>12, <4>1, <4>3 DEF LastReport
    <3>. QED  BY <1>5, <3>1, <3>3, <3>4, <3>5, LastTaken
  <2>4. mined' = head' /\ config_at' = chain_head' /\ chain_head' = chain_head
    BY <1>2, <1>4, <2>1
  <2>5. HeadsInv'
    BY <1>12, <2>1, <2>3, <2>4 DEF HeadsInv
  <2>. QED  BY <2>2, <2>5
<1>20. ~trouble' => PreferredInv'
  BY <1>4, <1>10, <1>12, StillPreferred
<1>. QED  BY <1>10, <1>13, <1>14, <1>16, <1>17, <1>18, <1>19, <1>20 DEF EngineInv
-----------------------------------------------------------------------------
(* The engine is started on genesis, with one block being built on it.     *)
LEMMA EngineInit == Init => EngineInv
<1>. SUFFICES ASSUME Init PROVE EngineInv
  OBVIOUS
<1>1. /\ chain_head = Genesis /\ vhead = Genesis /\ mined = Genesis /\ config_at = Genesis
      /\ head = Genesis /\ received = {} /\ checked = {} /\ failed = {}
      /\ own = {} /\ valid = {} /\ invalid = {} /\ updates = <<>> /\ commits = <<>>
      /\ acked = TRUE /\ trouble = FALSE /\ born = 1 /\ running = TRUE
      /\ node = Nd!Initialized
  BY DEF Init
<1>2. TreeInv
  <2>. DEFINE work == CHOOSE w \in Works : TRUE
  <2>1. work \in Works
    BY EngineAssumption
  <2>. HIDE DEF work
  <2>2. tree = [parent |-> [b \in Blocks \ {Genesis} |-> Genesis],
                height |-> [b \in Blocks |-> IF b = Genesis THEN 0 ELSE 1],
                work |-> [b \in Blocks \ {Genesis} |-> work],
                weak |-> {}, alien |-> {}]
    BY DEF Init, work
  <2>3. /\ tree.parent = [b \in Blocks \ {Genesis} |-> Genesis]
        /\ tree.height = [b \in Blocks |-> IF b = Genesis THEN 0 ELSE 1]
        /\ tree.work = [b \in Blocks \ {Genesis} |-> work]
        /\ tree.weak = {} /\ tree.alien = {}
    BY <2>2
  <2>4. tree.parent \in [Blocks \ {Genesis} -> Blocks] /\ tree.height \in [Blocks -> Nat]
    BY <2>3, PartsAssumptions
  <2>5. tree.work \in [Blocks \ {Genesis} -> Works]
    BY <2>1, <2>3
  <2>6. tree \in Fc!Tree
    <3>1. tree = [parent |-> tree.parent, height |-> tree.height, work |-> tree.work,
                  weak |-> tree.weak, alien |-> tree.alien]
      BY <2>2
    <3>. QED  BY <2>3, <2>4, <2>5, <3>1, PartsAssumptions DEF Fc!Tree
  <2>7. \A b \in Blocks \ {Genesis} : tree.parent[b] = Genesis /\ Genesis < b
    BY <2>3, PartsAssumptions DEF Genesis
  <2>8. tree.height[Genesis] = 0 /\ \A b \in Blocks \ {Genesis} : tree.height[b] = 1
    BY <2>3, PartsAssumptions
  <2>9. Fc!IsTree(tree)
    BY <2>6, <2>7, <2>8, PartsAssumptions DEF Fc!IsTree
  <2>10. \A b \in (born + 1)..MaxBlock : b \in Blocks \ {Genesis}
    BY <1>1, PartsAssumptions DEF Genesis
  <2>11. born \in Blocks
    BY <1>1, PartsAssumptions DEF Genesis
  <2>. QED  BY <2>3, <2>7, <2>9, <2>10, <2>11 DEF TreeInv
<1>3. Waiting = {} /\ Asked = {} /\ Heads = {Genesis}
  BY <1>1, EmptyQueue DEF Waiting, Asked, Heads
<1>4. BlocksInv /\ UpdatesInv
  BY <1>1, <1>3, EmptyQueue DEF BlocksInv, UpdatesInv
<1>5. PathInv
  BY <1>1, <1>3, EmptyQueue DEF PathInv, OnTheWay
<1>6. NodeInv /\ Nd!Building(node)
  <2>1. Genesis = 1 /\ 1 \in 1..MaxBlock /\ MaxBlock \in Nat /\ 1 =< MaxBlock
    BY PartsAssumptions DEF Genesis
  <2>2. /\ Nd!CandidateOn(1) \in Nd!Candidate /\ Nd!CandidateOn(1) # Nd!NoCandidate
        /\ Nd!CandidateOn(1).parent = 1
    BY <2>1, PartsAssumptions, Nd!CandidateTypes
  <2>3. /\ node \in Nd!Node /\ node.guards = {} /\ node.published = {}
        /\ node.candidate = Nd!CandidateOn(1)
    BY <1>1, <2>2 DEF Nd!Initialized, Nd!Node
  <2>4. Nd!NodeOK(node, MaxBlock) /\ Nd!Building(node)
    BY <2>1, <2>2, <2>3 DEF Nd!NodeOK, Nd!HasGuard, Nd!Building
  <2>. QED  BY <1>1, <1>3, <2>1, <2>2, <2>3, <2>4 DEF NodeInv, MinesForTheCandidate
<1>7. HeadsInv /\ OwnInv /\ PreferredInv
  <2>1. Len(commits) = 0 /\ 1..0 = {}
    BY <1>1
  <2>. QED  BY <1>1, <1>3, <1>6, <2>1 DEF HeadsInv, LastReport, OwnInv, PreferredInv
<1>. QED  BY <1>1, <1>2, <1>4, <1>5, <1>6, <1>7 DEF EngineInv

(* Every step of the node, its miner and the validator keeps it.           *)
LEMMA EngineStep == EngineInv /\ [Next]_vars => EngineInv'
<1>. SUFFICES ASSUME EngineInv, [Next]_vars PROVE EngineInv'
  OBVIOUS
<1>1. CASE Handle
  <2>1. PICK b \in Blocks : OnBlockNew(b) \/ OnBlockValid(b) \/ OnBlockInvalid(b) \/ OnBlockCommit(b)
    BY <1>1 DEF Handle
  <2>. QED  BY <2>1, TakingNew, TakingValid, TakingInvalid, TakingCommit
<1>2. CASE UNCHANGED vars
  <2>1. TreeInv /\ TreeInv' /\ BlocksInv' /\ UpdatesInv' /\ PathInv' /\ NodeInv'
    BY <1>2 DEF vars, EngineInv, TreeInv, BlocksInv, UpdatesInv, PathInv, NodeInv,
       publishing, chainPart, validator, Heads, Waiting, Asked, OnTheWay, MinesForTheCandidate
  <2>2. ~trouble' => HeadsInv' /\ OwnInv'
    BY <1>2 DEF vars, EngineInv, HeadsInv, OwnInv, publishing, chainPart, validator, Waiting,
       LastReport, OwnIsJudged
  <2>3. ~trouble' => PreferredInv'
    <3>1. UNCHANGED <<tree, commits, vhead, trouble>>
      BY <1>2 DEF vars, chainPart, validator
    <3>. QED  BY <2>1, <3>1, TreeStays, StillPreferred
  <2>. QED  BY <1>2, <2>1, <2>2, <2>3 DEF EngineInv, vars, publishing
<1>. QED
  BY <1>1, <1>2, Publishing, Acknowledging, Arriving, Validating, Executing DEF Next

LEMMA EngineInvHolds == Spec => []EngineInv
BY EngineInit, EngineStep, PTL DEF Spec

(* Node, tree, channel and validator keep their types: no block is judged, *)
(* validated or committed that was not born.                               *)
THEOREM Typing == Spec => []TypeOK
<1>1. EngineInv => TypeOK
  <2>. SUFFICES ASSUME EngineInv PROVE TypeOK
    OBVIOUS
  <2>1. TreeInv /\ BlocksInv /\ UpdatesInv /\ PathInv /\ NodeInv
    BY DEF EngineInv
  <2>2. Nd!NodeTypeOK
    BY <2>1, BlockFacts, PartsAssumptions DEF NodeInv, Nd!NodeOK, Nd!NodeTypeOK
  <2>3. {chain_head, vhead, mined, config_at, born} \subseteq Blocks
    BY <2>1, BlockFacts DEF TreeInv
  <2>4. \A S \in {received, checked, failed, own, valid, invalid} : S \subseteq 2..born
    BY <2>1, BlockFacts DEF BlocksInv
  <2>. QED  BY <2>1, <2>2, <2>3, <2>4 DEF EngineInv, TreeInv, UpdatesInv, PathInv, TypeOK
<1>. QED  BY <1>1, EngineInvHolds, PTL

(* The miner never works for another block than the one the validator is   *)
(* building, through every fork, every switch of heads and every failure   *)
(* of a call (node.rs:199 to 210).                                         *)
THEOREM MinerAndValidatorAgree == Spec => []MinesForTheCandidate
<1>1. EngineInv => MinesForTheCandidate
  BY DEF EngineInv, NodeInv
<1>. QED  BY <1>1, EngineInvHolds, PTL

(* The node publishes at most one block on a block, whichever heads the    *)
(* validator moves through (node.rs:343 to 348).                           *)
THEOREM OneBlockOnABlock == Spec => []OneBlockPerHead
<1>1. EngineInv => OneBlockPerHead
  BY DEF EngineInv, NodeInv, Nd!NodeOK, OneBlockPerHead, Nd!OneBlockPerHead
<1>. QED  BY <1>1, EngineInvHolds, PTL

(* When nothing is outstanding and no call has failed, the five views of   *)
(* the chain head are one and the same (node.rs:169 to 213, 404 to 407).   *)
THEOREM HeadsAgree == Spec => []HeadsAgreeWhenQuiet
<1>1. EngineInv => HeadsAgreeWhenQuiet
  <2>. SUFFICES ASSUME EngineInv, Quiet, ~trouble
                PROVE  /\ {chain_head, head, mined, config_at} = {vhead}
                       /\ Nd!Building(node) => node.candidate.parent = vhead
    BY DEF HeadsAgreeWhenQuiet
  <2>1. Waiting = {} /\ updates = <<>> /\ commits = <<>>
    BY EmptyQueue DEF Quiet, Waiting
  <2>2. HeadsInv /\ MinesForTheCandidate
    BY DEF EngineInv, NodeInv
  <2>3. ~ReportedLast(updates, vhead)
    BY <2>1, EmptyQueue DEF ReportedLast
  <2>. QED  BY <2>1, <2>2, <2>3 DEF HeadsInv, LastReport, MinesForTheCandidate
<1>. QED  BY <1>1, EngineInvHolds, PTL

(* When nothing is outstanding, no call has failed and no own block was    *)
(* rejected, the node is building a block that it may publish: an own      *)
(* block that was committed, or lost to another, has cleared Finalized.    *)
THEOREM PublishingGoesOn == Spec => []PublishesWhenQuiet
<1>1. EngineInv => PublishesWhenQuiet
  <2>. SUFFICES ASSUME EngineInv, Quiet, checked = valid \cup invalid, ~trouble, Rejected = {}
                PROVE  Nd!Building(node) /\ ~Nd!HasGuard(node, "Finalized")
    BY DEF PublishesWhenQuiet
  <2>1. Waiting = {} /\ updates = <<>> /\ commits = <<>>
    BY EmptyQueue DEF Quiet, Waiting
  <2>2. HeadsInv /\ OwnInv /\ NodeInv /\ BlocksInv
    BY DEF EngineInv
  <2>3. chain_head = head
    BY <2>1, <2>2, EmptyQueue DEF HeadsInv, LastReport, ReportedLast
  <2>4. \A b \in own : ~OwnIsJudged(b)
    BY <2>1, <2>2 DEF OwnIsJudged, Rejected, BlocksInv
  <2>5. Nd!Building(node)
    BY <2>2, <2>3, <2>4 DEF OwnInv
  <2>. QED  BY <2>2, <2>5 DEF NodeInv, Nd!NodeOK
<1>. QED  BY <1>1, EngineInvHolds, PTL

(* The validator moves to no head but one the node's rule prefers to the   *)
(* one it leaves, as long as no call has failed: chain_head is the last of *)
(* the commits asked for (node.rs:404 to 407), and what is preferred stays *)
(* so as the tree grows.                                                   *)
THEOREM CommitsImprove == Spec => CommitsArePreferred
<1>1. ASSUME EngineInv, [Next]_vars
      PROVE  [vhead' # vhead /\ ~trouble => Fc!Verdict(vhead, vhead', {}) = "commit"]_vars
  <2>. SUFFICES ASSUME Next, vhead' # vhead, ~trouble
                PROVE  Fc!Verdict(vhead, vhead', {}) = "commit"
    BY <1>1
  <2>1. Execute
    BY DEF Next, TryPublish, Handle, OnBlockNew, OnBlockValid, OnBlockInvalid, OnBlockCommit,
       Acknowledge, Arrive, Validate, validator
  <2>2. commits # <<>> /\ vhead' = Head(commits)
    BY <2>1 DEF Execute
  <2>3. commits \in Seq(Blocks) /\ PreferredInv
    BY <1>1 DEF EngineInv, PathInv
  <2>4. 1 \in 1..Len(commits) /\ Head(commits) = commits[1]
    BY <2>2, <2>3
  <2>5. <<vhead, vhead'>> \in Fc!Preferences
    BY <2>2, <2>3, <2>4 DEF PreferredInv
  <2>. QED  BY <2>5 DEF Fc!Preferences
<1>. QED  BY <1>1, EngineInvHolds, PTL DEF Spec, CommitsArePreferred
=============================================================================
