---------------------------- MODULE ChainProofs -----------------------------
(***************************************************************************)
(* Difficulties and configuration on every tree of blocks that nodes with  *)
(* this code mine, for every configuration, pace, change of settings, loss *)
(* and stale answer, and however commits and failed calls follow.          *)
(***************************************************************************)
EXTENDS Chain, SequenceTheorems, WellFoundedInduction, TLAPS

(* What is written into a payload is what is read from it. *)
LEMMA PayloadReadsBack ==
  ASSUME NEW d, NEW t, NEW n
  PROVE  /\ IsReadable(Serialize(d, t, n))
         /\ Deserialize(Serialize(d, t, n)).expected_difficulty = d
         /\ Deserialize(Serialize(d, t, n)).timestamp = t
BY DEF IsReadable, Serialize, Deserialize, Field

(* What an initial difficulty may be is in range if it is set at all.      *)
LEMMA InitialInRange ==
  /\ InitialDifficulties \subseteq Int
  /\ \A i \in InitialDifficulties \ {Unset} : InRange(i)
<1>1. ASSUME NEW i \in InitialDifficulties  PROVE i \in Nat \cup {Unset}
  <2>1. CASE i = Default.initial_difficulty
    BY <2>1, ChainAssumption DEF Key, Legal
  <2>2. CASE \E c \in Changes : "initial_difficulty" \in DOMAIN c /\ i = c.initial_difficulty
    BY <2>2, ChainAssumption DEF Legal
  <2>. QED  BY <2>1, <2>2 DEF InitialDifficulties
<1>. QED  BY <1>1 DEF InRange, Unset

(* A retarget keeps to the range, whatever it compares. *)
LEMMA RetargetInRange ==
  ASSUME NEW d, InRange(d), NEW taken, NEW fast, NEW slow
  PROVE  InRange(Retarget(d, taken, fast, slow))
BY DifficultyAssumption, InitialInRange DEF Retarget, InRange

(* A later block is never retargeted to a higher difficulty. *)
LEMMA RetargetFallsWithTime ==
  ASSUME NEW d \in Nat, NEW fast \in Int, NEW slow \in Int, fast =< slow,
         NEW early \in Int, NEW late \in Int, early =< late
  PROVE  Retarget(d, early, fast, slow) >= Retarget(d, late, fast, slow)
BY DifficultyAssumption DEF Retarget

(* The difficulty after a chain is the initial one or a retarget of the    *)
(* difficulty its highest block announces.                                 *)
LEMMA DifficultyInRange ==
  ASSUME NEW chain, NEW h, NEW now, NEW lost, NEW c, InRange(c.initial_difficulty),
         h # 0 => InRange(ConsensusAt(chain, h).expected_difficulty)
  PROVE  InRange(GetDifficulty(chain, h, now, lost, c))
<1>1. CASE h = 0
  BY <1>1 DEF GetDifficulty
<1>2. CASE h # 0
  <2>1. InRange(TuningDifficulty(chain, h, now, c))
    BY <1>2, RetargetInRange DEF TuningDifficulty
  <2>2. InRange(AdjustmentDifficulty(chain, h, now, c))
    BY <1>2, RetargetInRange DEF AdjustmentDifficulty
  <2>. QED  BY <1>2, <2>1, <2>2 DEF GetDifficulty, Calculate
<1>. QED  BY <1>1, <1>2

-----------------------------------------------------------------------------
(* Settings that are unset or legal, and blocks as Publish makes them.     *)
Settings == {s \in [Key -> Int] : /\ \A k \in Key : s[k] = Unset \/ Legal(k, s[k])
                                  /\ s.initial_difficulty \in InitialDifficulties \cup {Unset}}

LegalConfig == {c \in [Key -> Nat] : /\ \A k \in Key : Legal(k, c[k])
                                     /\ c.initial_difficulty \in InitialDifficulties}

MinedPayload == {Serialize(d, t, AnyNonce) : d \in {x \in Nat : InRange(x)}, t \in Int}

MinedBlock == [payload : MinedPayload, settings : Settings]

(* TypeOK says too little of the blocks' times and of their settings to be *)
(* inductive.                                                              *)
ChainInv ==
  /\ blocks \subseteq Seq(MinedBlock)
  /\ {Genesis, chain_head, committed, head} \subseteq blocks
  /\ waiting \in Seq(blocks)
  /\ config \in LegalConfig
  /\ posted \subseteq blocks \X LegalConfig
  /\ <<head, config>> \in posted \/ trouble
  /\ diverged \in BOOLEAN /\ trouble \in BOOLEAN

(* So is what Mined writes. *)
LEMMA MinedPayloadReads ==
  ASSUME NEW p \in MinedPayload
  PROVE  /\ IsReadable(p)
         /\ InRange(Deserialize(p).expected_difficulty)
         /\ Deserialize(p).timestamp \in Int
<1>1. PICK d \in {x \in Nat : InRange(x)}, t \in Int : p = Serialize(d, t, AnyNonce)
  BY DEF MinedPayload
<1>. QED  BY <1>1, PayloadReadsBack

(* Loading legal settings over a legal configuration gives a legal one.    *)
LEMMA LoadIsLegal ==
  ASSUME NEW c, \A k \in Key : Legal(k, c[k]), c.initial_difficulty \in InitialDifficulties,
         NEW s \in Settings
  PROVE  Load(c, s) \in LegalConfig
<1>1. \A k \in Key : Load(c, s)[k] = IF s[k] = Unset THEN c[k] ELSE s[k]
  BY DEF Load
<1>2. \A k \in Key : Legal(k, Load(c, s)[k])
  BY <1>1 DEF Settings
<1>3. Load(c, s) \in [Key -> Nat]
  BY <1>2 DEF Load, Legal
<1>4. Load(c, s).initial_difficulty \in InitialDifficulties
  BY <1>1 DEF Settings, Key
<1>. QED  BY <1>2, <1>3, <1>4 DEF LegalConfig

(* Changed settings are still unset or legal. *)
LEMMA OverrideIsLegal ==
  ASSUME NEW s \in Settings, NEW change \in Changes \cup {<<>>}
  PROVE  Override(s, change) \in Settings
<1>. DEFINE o == Override(s, change)
<1>1. \A k \in DOMAIN change : change[k] = Unset \/ Legal(k, change[k])
  BY ChainAssumption
<1>2. \A k \in Key : o[k] = IF k \in DOMAIN change THEN change[k] ELSE s[k]
  BY DEF Override
<1>3. \A k \in Key : o[k] = Unset \/ Legal(k, o[k])
  BY <1>1, <1>2 DEF Settings
<1>4. o \in [Key -> Int]
  BY <1>3 DEF Override, Unset, Legal
<1>5. o.initial_difficulty \in InitialDifficulties \cup {Unset}
  <2>1. CASE "initial_difficulty" \in DOMAIN change
    <3>1. change \in Changes
      BY <2>1
    <3>. QED  BY <1>2, <2>1, <3>1 DEF InitialDifficulties, Key
  <2>2. CASE "initial_difficulty" \notin DOMAIN change
    BY <1>2, <2>2 DEF Settings, Key
  <2>. QED  BY <2>1, <2>2
<1>. QED  BY <1>3, <1>4, <1>5 DEF Settings

(* What a chain of such blocks says at each height, and its settings.      *)
LEMMA BlockAtHeight ==
  ASSUME NEW b \in Seq(MinedBlock)
  PROVE  /\ Len(b) \in Nat /\ (b # Genesis <=> Len(b) # 0)
         /\ SettingsOf(b) \in Settings
         /\ \A h \in 0..Len(b) : TimeAt(b, h) \in Int
         /\ \A h \in 1..Len(b) :
              /\ ConsensusAt(Payloads(b), h) = Deserialize(b[h].payload)
              /\ InRange(ConsensusAt(Payloads(b), h).expected_difficulty)
              /\ ConsensusAt(Payloads(b), h).timestamp = TimeAt(b, h)
              /\ IsPowAt(Payloads(b), h)
              /\ b[h] \in MinedBlock
<1>1. Len(b) \in Nat /\ (b # Genesis <=> Len(b) # 0)
  BY DEF Genesis
<1>2. ASSUME NEW h \in 1..Len(b)
      PROVE  /\ ConsensusAt(Payloads(b), h) = Deserialize(b[h].payload)
             /\ InRange(ConsensusAt(Payloads(b), h).expected_difficulty)
             /\ ConsensusAt(Payloads(b), h).timestamp \in Int
             /\ ConsensusAt(Payloads(b), h).timestamp = TimeAt(b, h)
             /\ IsPowAt(Payloads(b), h)
             /\ b[h] \in MinedBlock
  <2>1. b[h] \in MinedBlock
    OBVIOUS
  <2>2. Payloads(b)[h] = b[h].payload /\ Len(Payloads(b)) = Len(b)
    BY <1>1 DEF Payloads
  <2>3. b[h].payload \in MinedPayload
    BY <2>1 DEF MinedBlock
  <2>4. h # 0
    OBVIOUS
  <2>. QED  BY <2>1, <2>2, <2>3, <2>4, MinedPayloadReads DEF ConsensusAt, IsPowAt, TimeAt
<1>3. SettingsOf(b) \in Settings
  <2>1. CASE b = Genesis
    BY <2>1 DEF SettingsOf, Settings, Unset, Key
  <2>2. CASE b # Genesis
    <3>1. Len(b) \in 1..Len(b)
      BY <1>1, <2>2
    <3>2. b[Len(b)] \in MinedBlock
      BY <1>2, <3>1
    <3>. QED  BY <2>2, <3>2 DEF SettingsOf, MinedBlock
  <2>. QED  BY <2>1, <2>2
<1>4. \A h \in 0..Len(b) : TimeAt(b, h) \in Int
  <2>. TAKE h \in 0..Len(b)
  <2>1. CASE h = 0
    BY <2>1 DEF TimeAt
  <2>2. CASE h # 0
    BY <1>1, <1>2, <2>2
  <2>. QED  BY <2>1, <2>2
<1>. QED  BY <1>1, <1>2, <1>3, <1>4

(* A node may be started on any block. *)
LEMMA FreshConfigIsLegal ==
  ASSUME NEW b \in Seq(MinedBlock)
  PROVE  FreshConfig(b) \in LegalConfig
<1>1. \A k \in Key : Legal(k, Default[k])
  BY ChainAssumption
<1>2. Default.initial_difficulty \in InitialDifficulties
  BY DEF InitialDifficulties
<1>3. SettingsOf(b) \in Settings
  BY BlockAtHeight
<1>. QED  BY <1>1, <1>2, <1>3, LoadIsLegal DEF FreshConfig

(* What Mined writes is well formed. *)
LEMMA MinedIsMined ==
  ASSUME NEW b \in Seq(MinedBlock), NEW c \in LegalConfig, NEW now \in Int, NEW lost
  PROVE  Mined(b, now, lost, c) \in MinedPayload
<1>1. InRange(c.initial_difficulty)
  <2>1. c.initial_difficulty \in Nat
    BY DEF LegalConfig, Key
  <2>. QED  BY <2>1, InitialInRange DEF LegalConfig, Unset
<1>2. Len(b) # 0 => InRange(ConsensusAt(Payloads(b), Len(b)).expected_difficulty)
  BY BlockAtHeight
<1>3. InRange(GetDifficulty(Payloads(b), Len(b), now, lost, c))
  BY <1>1, <1>2, DifficultyInRange
<1>. QED  BY <1>3 DEF Mined, MinedPayload, InRange

(* So is the block that is made of it.                                     *)
LEMMA BlockIsMined ==
  ASSUME NEW p \in Seq(MinedBlock), NEW on \in Seq(MinedBlock), NEW c \in LegalConfig,
         NEW gap \in Int, NEW change \in Changes \cup {<<>>}, NEW lost
  PROVE  /\ Block(p, on, c, gap, change, lost) \in MinedBlock
         /\ Append(p, Block(p, on, c, gap, change, lost)) \in Seq(MinedBlock)
<1>1. TimeAt(on, Len(on)) + gap \in Int
  BY BlockAtHeight
<1>2. Mined(on, TimeAt(on, Len(on)) + gap, lost, c) \in MinedPayload
  BY <1>1, MinedIsMined
<1>3. Override(SettingsOf(p), change) \in Settings
  BY BlockAtHeight, OverrideIsLegal
<1>4. Block(p, on, c, gap, change, lost) \in MinedBlock
  BY <1>2, <1>3 DEF Block, MinedBlock
<1>. QED  BY <1>4, AppendProperties

(* A block that is published and judged keeps everything well formed. *)
LEMMA PublishKeepsInv ==
  ASSUME ChainInv, NEW STATE p, p \in blocks, NEW STATE on, on \in blocks,
         NEW STATE c, c \in LegalConfig, Publish(p, on, c)
  PROVE  ChainInv'
<1>1. PICK gap \in Gaps, change \in ChangesLeft, lost \in {{}, 0..Len(on)} :
        LET b == Append(p, Block(p, on, c, gap, change, lost))
        IN  blocks' = blocks \cup {b} /\ Judge(b)
  BY DEF Publish
<1>. DEFINE b == Append(p, Block(p, on, c, gap, change, lost))
<1>2. UNCHANGED <<committed, head, config, posted>>
  BY DEF Publish
<1>3. p \in Seq(MinedBlock) /\ on \in Seq(MinedBlock)
  BY DEF ChainInv
<1>4. gap \in Int /\ change \in Changes \cup {<<>>}
  BY ChainAssumption DEF ChangesLeft
<1>5. b \in Seq(MinedBlock)
  BY <1>3, <1>4, BlockIsMined
<1>. HIDE DEF b
<1>6. blocks' = blocks \cup {b} /\ Judge(b)
  BY <1>1 DEF b
<1>7. blocks' \subseteq Seq(MinedBlock) /\ blocks \subseteq blocks'
  BY <1>5, <1>6 DEF ChainInv
<1>8. chain_head' \in blocks' /\ diverged' \in BOOLEAN /\ trouble' \in BOOLEAN
      /\ (trouble => trouble')
  BY <1>6 DEF Judge, ChainInv
<1>9. waiting' \in Seq(blocks')
  <2>1. waiting \in Seq(blocks')
    BY <1>7 DEF ChainInv
  <2>2. waiting' = waiting \/ waiting' = Append(waiting, b)
    BY <1>6 DEF Judge
  <2>. QED  BY <1>6, <2>1, <2>2, AppendProperties
<1>. QED  BY <1>2, <1>7, <1>8, <1>9 DEF ChainInv

(* So does a commit, whether or not its handler fails. *)
LEMMA CommitKeepsInv == ASSUME ChainInv, OnBlockCommit PROVE ChainInv'
<1>1. /\ waiting # <<>> /\ waiting \in Seq(blocks) /\ blocks' = blocks /\ chain_head' = chain_head
      /\ waiting' = Tail(waiting) /\ committed' = Head(waiting) /\ diverged' = diverged
  BY DEF OnBlockCommit, ChainInv
<1>2. Head(waiting) \in blocks /\ Tail(waiting) \in Seq(blocks)
  BY <1>1, HeadTailProperties
<1>3. Reload \in LegalConfig
  <2>1. SettingsOf(chain_head) \in Settings
    BY BlockAtHeight DEF ChainInv
  <2>. QED  BY <2>1, LoadIsLegal DEF Reload, ChainInv, LegalConfig
<1>4. CASE /\ config' = Reload
           /\ head' = Head(waiting) /\ posted' = posted \cup {<<head', config'>>}
           /\ trouble' = (trouble /\ waiting # <<chain_head>>)
  <2>1. head' \in blocks /\ config' \in LegalConfig /\ <<head', config'>> \in posted'
    BY <1>2, <1>3, <1>4
  <2>2. posted' \subseteq blocks \X LegalConfig
    BY <1>4, <2>1 DEF ChainInv
  <2>3. trouble' \in BOOLEAN
    BY <1>4 DEF ChainInv
  <2>. QED  BY <1>1, <1>2, <2>1, <2>2, <2>3 DEF ChainInv
<1>5. CASE config' \in {config, Reload} /\ trouble' = TRUE /\ UNCHANGED <<head, posted>>
  <2>1. config' \in LegalConfig
    BY <1>3, <1>5 DEF ChainInv
  <2>. QED  BY <1>1, <1>2, <1>5, <2>1 DEF ChainInv
<1>. QED  BY <1>4, <1>5 DEF OnBlockCommit

(* And so does a start among commits. *)
LEMMA RestartKeepsInv == ASSUME ChainInv, Restart PROVE ChainInv'
<1>1. PICK n \in 0..Len(waiting) :
        LET b == IF n = 0 THEN committed ELSE waiting[n]
        IN  /\ chain_head' = b /\ committed' = b /\ head' = b
            /\ config' = FreshConfig(b) /\ posted' = {<<b, config'>>}
            /\ waiting' = SubSeq(waiting, n + 1, Len(waiting))
            /\ trouble' = (n < Len(waiting))
  BY DEF Restart
<1>. DEFINE b == IF n = 0 THEN committed ELSE waiting[n]
<1>2. waiting \in Seq(blocks) /\ Len(waiting) \in Nat
  BY DEF ChainInv
<1>3. b \in blocks
  BY <1>2 DEF ChainInv
<1>4. SubSeq(waiting, n + 1, Len(waiting)) \in Seq(blocks)
  <2>1. \A i \in (n + 1)..Len(waiting) : waiting[i] \in blocks
    BY <1>2
  <2>2. n + 1 \in Int /\ Len(waiting) \in Int
    BY <1>2
  <2>3. n + 1 \in 1..Len(waiting) + 1
    BY <1>2
  <2>. QED  BY <1>2, <2>1, <2>2, <2>3, SubSeqProperties
<1>5. FreshConfig(b) \in LegalConfig
  BY <1>3, FreshConfigIsLegal DEF ChainInv
<1>. HIDE DEF b
<1>6. /\ chain_head' = b /\ committed' = b /\ head' = b
      /\ config' = FreshConfig(b) /\ posted' = {<<b, config'>>}
      /\ waiting' = SubSeq(waiting, n + 1, Len(waiting))
      /\ trouble' = (n < Len(waiting))
  BY <1>1 DEF b
<1>7. diverged' = FALSE /\ blocks' = blocks
  BY DEF Restart
<1>8. blocks' \subseteq Seq(MinedBlock) /\ Genesis \in blocks'
  BY <1>7 DEF ChainInv
<1>9. {Genesis, chain_head', committed', head'} \subseteq blocks' /\ waiting' \in Seq(blocks')
  BY <1>3, <1>4, <1>6, <1>7, <1>8
<1>10. config' \in LegalConfig /\ posted' \subseteq blocks' \X LegalConfig /\ <<head', config'>> \in posted'
  BY <1>3, <1>5, <1>6, <1>7
<1>11. diverged' \in BOOLEAN /\ trouble' \in BOOLEAN
  <2>1. (n < Len(waiting)) \in BOOLEAN
    OBVIOUS
  <2>. QED  BY <1>6, <1>7, <2>1, Zenon
<1>. QED  BY <1>8, <1>9, <1>10, <1>11 DEF ChainInv

(* Every step keeps everything well formed. *)
LEMMA NextKeepsInv == ChainInv /\ [Next]_vars => ChainInv'
<1>. SUFFICES ASSUME ChainInv, [Next]_vars PROVE ChainInv'
  OBVIOUS
<1>1. CASE Own
  <2>1. PICK challenge \in posted : Publish(head, challenge[1], challenge[2])
    BY <1>1 DEF Own
  <2>2. challenge[1] \in blocks /\ challenge[2] \in LegalConfig /\ head \in blocks
    BY DEF ChainInv
  <2>. QED  BY <2>1, <2>2, PublishKeepsInv
<1>2. CASE Peers
  <2>1. PICK p \in blocks, on \in blocks, at \in blocks : Publish(p, on, FreshConfig(at))
    BY <1>2 DEF Peers
  <2>2. FreshConfig(at) \in LegalConfig
    BY FreshConfigIsLegal DEF ChainInv
  <2>. QED  BY <2>1, <2>2, PublishKeepsInv
<1>3. CASE OnBlockCommit
  BY <1>3, CommitKeepsInv
<1>4. CASE Restart
  BY <1>4, RestartKeepsInv
<1>5. CASE UNCHANGED vars
  BY <1>5 DEF vars, ChainInv
<1>. QED  BY <1>1, <1>2, <1>3, <1>4, <1>5 DEF Next

(* Genesis alone is well formed. *)
LEMMA InitIsInv == Init => ChainInv
<1>. SUFFICES ASSUME Init PROVE ChainInv
  OBVIOUS
<1>1. Genesis \in Seq(MinedBlock)
  BY DEF Genesis
<1>2. FreshConfig(Genesis) \in LegalConfig
  BY <1>1, FreshConfigIsLegal
<1>3. blocks \subseteq Seq(MinedBlock) /\ {Genesis, chain_head, committed, head} \subseteq blocks
  BY <1>1 DEF Init
<1>4. waiting \in Seq(blocks)
  BY DEF Init
<1>5. config \in LegalConfig /\ posted \subseteq blocks \X LegalConfig /\ <<head, config>> \in posted
  BY <1>2, <1>3 DEF Init
<1>6. diverged \in BOOLEAN /\ trouble \in BOOLEAN
  BY DEF Init
<1>. QED  BY <1>3, <1>4, <1>5, <1>6 DEF ChainInv

(* Whatever is reached is well formed. *)
LEMMA InvAlways == Spec => []ChainInv
BY InitIsInv, NextKeepsInv, PTL DEF Spec

(* No difficulty ever leaves the range, so that the unsigned number        *)
(* neither wraps below 0 nor rises past the maximum by retargeting         *)
(* (work.rs:89 and 92).                                                    *)
THEOREM ChainTypeCorrect == Spec => []TypeOK
<1>1. ChainInv => TypeOK
  <2>. SUFFICES ASSUME ChainInv PROVE TypeOK
    OBVIOUS
  <2>1. ASSUME NEW b \in blocks, NEW h \in 1..Len(b)
        PROVE  /\ IsPowAt(Payloads(b), h)
               /\ InRange(ConsensusAt(Payloads(b), h).expected_difficulty)
               /\ DOMAIN b[h].settings = Key
    <3>1. b \in Seq(MinedBlock)
      BY DEF ChainInv
    <3>2. b[h] \in MinedBlock
      BY <3>1, BlockAtHeight
    <3>. QED  BY <3>1, <3>2, BlockAtHeight DEF MinedBlock, Settings
  <2>2. Range(waiting) \subseteq blocks
    <3>1. waiting \in Seq(blocks)
      BY DEF ChainInv
    <3>. QED  BY <3>1 DEF Range
  <2>3. posted \subseteq blocks \X [Key -> Nat]
    BY DEF ChainInv, LegalConfig
  <2>4. DOMAIN config = Key /\ \A k \in Key : Legal(k, config[k])
    BY DEF ChainInv, LegalConfig
  <2>. QED  BY <2>1, <2>2, <2>3, <2>4 DEF ChainInv, TypeOK
<1>. QED  BY <1>1, InvAlways, PTL
-----------------------------------------------------------------------------
(* Loading on top of what was loaded before makes no difference while no   *)
(* setting is withdrawn.                                                   *)
LEMMA LoadFollows ==
  ASSUME NEW before, NEW after, ~Withdraws(before, after)
  PROVE  Load(FreshConfig(before), SettingsOf(after)) = FreshConfig(after)
<1>1. ASSUME NEW k \in Key
      PROVE  Load(FreshConfig(before), SettingsOf(after))[k] = FreshConfig(after)[k]
  <2>1. CASE SettingsOf(after)[k] # Unset
    BY <2>1 DEF Load, FreshConfig
  <2>2. CASE SettingsOf(after)[k] = Unset
    <3>1. SettingsOf(before)[k] = Unset
      BY <2>2 DEF Withdraws
    <3>. QED  BY <2>2, <3>1 DEF Load, FreshConfig
  <2>. QED  BY <2>1, <2>2
<1>. QED  BY <1>1 DEF Load, FreshConfig

(* The last block asked for, or the head if all are committed. *)
Latest(blocksWaiting, h) == IF blocksWaiting = <<>> THEN h ELSE blocksWaiting[Len(blocksWaiting)]

(* FreshNodeAgrees does not say that what is read next is at hand: until a *)
(* call fails the chain head is the last block asked for. Nor does it say  *)
(* of a node in trouble that nothing it has read is missing at the chain   *)
(* head, which makes the reload for that block right again.                *)
AgreeInv ==
  ~diverged => \E c \in blocks : /\ config = FreshConfig(c)
                                 /\ ~Withdraws(c, chain_head)
                                 /\ ~trouble => /\ c \in {head} \cup Range(waiting)
                                                /\ chain_head = Latest(waiting, head)

(* A new chain head has what was read, or the node has diverged. *)
LEMMA PublishKeepsAgreement ==
  ASSUME ChainInv, AgreeInv, NEW STATE p, NEW STATE on, NEW STATE c, Publish(p, on, c)
  PROVE  AgreeInv'
<1>1. PICK b : blocks' = blocks \cup {b} /\ Judge(b)
  BY DEF Publish
<1>2. UNCHANGED <<head, config>>
  BY DEF Publish
<1>. SUFFICES ASSUME ~diverged'
              PROVE  \E r \in blocks' : /\ config' = FreshConfig(r)
                                        /\ ~Withdraws(r, chain_head')
                                        /\ ~trouble' => /\ r \in {head'} \cup Range(waiting')
                                                        /\ chain_head' = Latest(waiting', head')
  BY DEF AgreeInv
<1>3. ~diverged /\ (trouble => trouble')
  <2>1. diverged' = diverged \/ diverged' = (diverged \/ Withdraws(chain_head, b))
    BY <1>1 DEF Judge
  <2>2. trouble' = trouble \/ trouble' = TRUE
    BY <1>1 DEF Judge
  <2>3. diverged \in BOOLEAN /\ trouble \in BOOLEAN
    BY DEF ChainInv
  <2>4. ~diverged
    BY <2>1, <2>3, Zenon
  <2>5. trouble => trouble'
    BY <2>2, Zenon
  <2>. QED  BY <2>4, <2>5
<1>4. PICK r \in blocks : /\ config = FreshConfig(r)
                          /\ ~Withdraws(r, chain_head)
                          /\ ~trouble => /\ r \in {head} \cup Range(waiting)
                                         /\ chain_head = Latest(waiting, head)
  BY <1>3 DEF AgreeInv
<1>5. CASE UNCHANGED <<chain_head, waiting>>
  BY <1>1, <1>2, <1>3, <1>4, <1>5
<1>6. CASE chain_head' = b /\ diverged' = (diverged \/ Withdraws(chain_head, b))
  <2>1. ~Withdraws(r, b)
    BY <1>4, <1>6 DEF Withdraws
  <2>2. ASSUME ~trouble'
        PROVE  /\ r \in {head'} \cup Range(waiting')
               /\ chain_head' = Latest(waiting', head')
    <3>1. CASE UNCHANGED <<chain_head, waiting>>
      BY <1>2, <1>3, <1>4, <2>2, <3>1
    <3>2. CASE waiting' = Append(waiting, b)
      <4>1. waiting \in Seq(blocks) /\ Len(waiting) \in Nat
        BY DEF ChainInv
      <4>2. /\ Len(waiting') = Len(waiting) + 1 /\ waiting' # <<>> /\ waiting'[Len(waiting')] = b
            /\ \A i \in 1..Len(waiting) : waiting'[i] = waiting[i] /\ i \in 1..Len(waiting')
            /\ DOMAIN waiting = 1..Len(waiting) /\ DOMAIN waiting' = 1..Len(waiting')
        BY <3>2, <4>1
      <4>3. Range(waiting) \subseteq Range(waiting')
        BY <4>2 DEF Range
      <4>. QED  BY <1>2, <1>3, <1>4, <1>6, <2>2, <4>2, <4>3 DEF Latest
    <3>. QED  BY <1>1, <2>2, <3>1, <3>2 DEF Judge
  <2>. QED  BY <1>1, <1>2, <1>4, <1>6, <2>1, <2>2
<1>. QED  BY <1>1, <1>5, <1>6 DEF Judge

(* Whatever was read before, the reload makes the configuration that of a  *)
(* node started on the chain head, which is then still to be committed or  *)
(* has just been.                                                          *)
LEMMA CommitKeepsAgreement == ASSUME ChainInv, AgreeInv, OnBlockCommit PROVE AgreeInv'
<1>1. /\ waiting # <<>> /\ waiting \in Seq(blocks) /\ UNCHANGED <<blocks, chain_head, diverged>>
      /\ waiting' = Tail(waiting) /\ chain_head \in blocks
  BY DEF OnBlockCommit, ChainInv
<1>. SUFFICES ASSUME ~diverged
              PROVE  \E r \in blocks : /\ config' = FreshConfig(r)
                                       /\ ~Withdraws(r, chain_head)
                                       /\ ~trouble' => /\ r \in {head'} \cup Range(waiting')
                                                       /\ chain_head = Latest(waiting', head')
  BY <1>1 DEF AgreeInv
<1>2. PICK r \in blocks : /\ config = FreshConfig(r)
                          /\ ~Withdraws(r, chain_head)
                          /\ ~trouble => chain_head = Latest(waiting, head)
  BY DEF AgreeInv
<1>3. Reload = FreshConfig(chain_head) /\ ~Withdraws(chain_head, chain_head)
  BY <1>2, LoadFollows DEF Reload, Withdraws
<1>4. CASE /\ config' = Reload
           /\ head' = Head(waiting)
           /\ trouble' = (trouble /\ waiting # <<chain_head>>)
  <2>1. ASSUME ~trouble'
        PROVE  chain_head = Latest(waiting', head') /\ chain_head \in {head'} \cup Range(waiting')
    <3>1. chain_head = waiting[Len(waiting)]
      <4>1. CASE trouble
        <5>1. waiting = <<chain_head>>
          BY <1>4, <2>1, <4>1
        <5>. QED  BY <5>1
      <4>2. CASE ~trouble
        BY <1>1, <1>2, <4>2 DEF Latest
      <4>. QED  BY <4>1, <4>2
    <3>2. /\ Len(waiting) \in Nat \ {0} /\ Head(waiting) = waiting[1]
          /\ Tail(waiting) \in Seq(blocks) /\ Len(Tail(waiting)) = Len(waiting) - 1
          /\ \A i \in 1..Len(Tail(waiting)) : Tail(waiting)[i] = waiting[i + 1]
      BY <1>1, HeadTailProperties
    <3>3. CASE Len(waiting) = 1
      <4>1. waiting' = <<>>
        BY <1>1, <3>2, <3>3
      <4>. QED  BY <1>4, <3>1, <3>2, <3>3, <4>1 DEF Latest
    <3>4. CASE Len(waiting) # 1
      <4>1. /\ Len(waiting') \in 1..Len(waiting') /\ waiting' # <<>> /\ DOMAIN waiting' = 1..Len(waiting')
            /\ waiting'[Len(waiting')] = waiting[Len(waiting)]
        BY <1>1, <3>2, <3>4
      <4>2. waiting'[Len(waiting')] \in Range(waiting')
        BY <4>1 DEF Range
      <4>. QED  BY <3>1, <4>1, <4>2 DEF Latest
    <3>. QED  BY <3>3, <3>4
  <2>. QED  BY <1>1, <1>3, <1>4, <2>1
<1>5. CASE config' \in {config, Reload} /\ trouble' = TRUE
  <2>1. CASE config' = config
    BY <1>2, <1>5, <2>1
  <2>2. CASE config' = Reload
    BY <1>1, <1>3, <1>5, <2>2
  <2>. QED  BY <1>5, <2>1, <2>2
<1>. QED  BY <1>4, <1>5 DEF OnBlockCommit

(* A node that starts is one that was started. *)
LEMMA RestartAgrees == ASSUME ChainInv, ChainInv', Restart PROVE AgreeInv'
<1>. DEFINE b == chain_head'
<1>1. PICK n \in 0..Len(waiting) :
        /\ head' = b /\ config' = FreshConfig(b)
        /\ waiting' = SubSeq(waiting, n + 1, Len(waiting))
        /\ trouble' = (n < Len(waiting))
  BY DEF Restart
<1>2. b \in blocks'
  BY <1>1 DEF ChainInv
<1>3. ~Withdraws(b, b)
  BY DEF Withdraws
<1>4. ~trouble' => chain_head' = Latest(waiting', head')
  <2>1. waiting \in Seq(blocks) /\ Len(waiting) \in Nat
    BY DEF ChainInv
  <2>2. ASSUME ~(n < Len(waiting))  PROVE SubSeq(waiting, n + 1, Len(waiting)) = <<>>
    BY <2>1, <2>2
  <2>. QED  BY <1>1, <2>2 DEF Latest
<1>. QED  BY <1>1, <1>2, <1>3, <1>4 DEF AgreeInv

(* With no commit outstanding a node that has followed the chain since it  *)
(* started has the configuration of one that starts on its head, whatever  *)
(* its defaults and whatever settings came and changed: the two compute    *)
(* the same difficulties. While commits are outstanding it has that of one *)
(* of them, or of its head (node.rs:457 to 464).                           *)
THEOREM FollowersAgree == Spec => []FreshNodeAgrees
<1>1. Init => AgreeInv
  <2>. SUFFICES ASSUME Init PROVE AgreeInv
    OBVIOUS
  <2>1. ~Withdraws(Genesis, Genesis)
    BY DEF Withdraws
  <2>. QED  BY <2>1 DEF Init, AgreeInv, Latest
<1>2. ChainInv /\ ChainInv' /\ AgreeInv /\ [Next]_vars => AgreeInv'
  <2>. SUFFICES ASSUME ChainInv, ChainInv', AgreeInv, [Next]_vars PROVE AgreeInv'
    OBVIOUS
  <2>1. CASE Own
    BY <2>1, PublishKeepsAgreement DEF Own
  <2>2. CASE Peers
    BY <2>2, PublishKeepsAgreement DEF Peers
  <2>3. CASE OnBlockCommit
    BY <2>3, CommitKeepsAgreement
  <2>4. CASE Restart
    BY <2>4, RestartAgrees
  <2>5. CASE UNCHANGED vars
    BY <2>5 DEF vars, AgreeInv
  <2>. QED  BY <2>1, <2>2, <2>3, <2>4, <2>5 DEF Next
<1>3. AgreeInv => FreshNodeAgrees
  BY DEF AgreeInv, FreshNodeAgrees
<1>. QED  BY <1>1, <1>2, <1>3, InvAlways, PTL DEF Spec
-----------------------------------------------------------------------------
(* A set of heights has a least one. *)
LEMMA LeastHeight ==
  ASSUME NEW S, S \subseteq Nat, S # {}
  PROVE  Min(S) \in S /\ \A y \in S : Min(S) =< y
<1>1. PICK x \in S : \A y \in S : ~(<<y, x>> \in OpToRel(<, Nat))
  BY NatLessThanWellFounded, WFMin
<1>2. ASSUME NEW y \in S
      PROVE  x =< y
  <2>1. <<y, x>> \in Nat \X Nat /\ ~(<<y, x>> \in OpToRel(<, Nat))
    BY <1>1
  <2>2. ~(<<y, x>>[1] < <<y, x>>[2])
    BY <2>1 DEF OpToRel
  <2>. QED  BY <2>2
<1>. QED  BY <1>2 DEF Min

(* The walk of elapsed_time stops at a block of the chain. *)
LEMMA OldestIsOnChain ==
  ASSUME NEW chain, NEW h \in Nat \ {0}, NEW total \in Nat
  PROVE  OldestRead(chain, h, total) \in 1..h
<1>. DEFINE S == {i \in 1..h : h - i =< Wanted(total) /\ \A j \in i..(h - 1) : IsPowAt(chain, j)}
<1>1. h \in S
  BY DEF Wanted
<1>2. Min(S) \in S
  <2>1. S \subseteq Nat
    OBVIOUS
  <2>. QED  BY <1>1, <2>1, LeastHeight
<1>. QED  BY <1>2 DEF OldestRead

(* The intervals counted are one at least, and the expected time is a      *)
(* natural number, so that its half is no more than its double.            *)
LEMMA ExpectedTimeIsNat ==
  ASSUME NEW chain, NEW h \in Nat \ {0}, NEW total \in Nat, NEW c, c.seconds_between_blocks \in Nat
  PROVE  /\ Count(chain, h, total) \in Nat \ {0}
         /\ TimeExpected(chain, h, total, c) \in Nat
<1>1. Count(chain, h, total) \in Nat \ {0}
  BY OldestIsOnChain DEF Count
<1>2. \A m, n \in Nat : m * n \in Nat
  OBVIOUS
<1>. QED  BY <1>1, <1>2 DEF TimeExpected

(* What the node computes with is well formed. *)
LEMMA HeadFacts ==
  ASSUME ChainInv
  PROVE  /\ head \in Seq(MinedBlock)
         /\ Len(head) \in Nat /\ (head # Genesis <=> Len(head) # 0)
         /\ \A h \in 0..Len(head) : TimeAt(head, h) \in Int
         /\ \A h \in 1..Len(head) : ConsensusAt(Payloads(head), h).timestamp = TimeAt(head, h)
         /\ Len(head) # 0 => Expected(head) \in Nat
         /\ config.initial_difficulty \in Nat /\ config.seconds_between_blocks \in Nat
         /\ config.difficulty_tuning_block_count \in Nat
         /\ config.difficulty_adjustment_block_count \in Nat
<1>1. head \in Seq(MinedBlock)
  BY DEF ChainInv
<1>2. Len(head) # 0 => Expected(head) \in Nat
  <2>. SUFFICES ASSUME Len(head) # 0 PROVE Expected(head) \in Nat
    OBVIOUS
  <2>1. Len(head) \in 1..Len(head)
    BY <1>1
  <2>. QED  BY <1>1, <2>1, BlockAtHeight DEF Expected, InRange
<1>3. config \in [Key -> Nat]
  BY DEF ChainInv, LegalConfig
<1>. QED  BY <1>1, <1>2, <1>3, BlockAtHeight DEF Key

(* Of two blocks on one head, the later one is expected to be no harder,   *)
(* whichever retargeting applies and with whatever counts and interval     *)
(* (work.rs:73 to 121).                                                    *)
THEOREM LaterIsNotHarder == Spec => []SlowerIsNeverHarder
<1>1. ChainInv => SlowerIsNeverHarder
  <2>. SUFFICES ASSUME ChainInv, NEW early \in Spans, NEW late \in Spans, early =< late
                PROVE  NextDifficulty(early, {}) >= NextDifficulty(late, {})
    BY DEF SlowerIsNeverHarder
  <2>. DEFINE chain == Payloads(head)
              h == Len(head)
              now(gap) == TimeAt(head, h) + gap
              d == ConsensusAt(chain, h).expected_difficulty
  <2>1. h \in Nat /\ TimeAt(head, h) \in Int /\ (h # 0 => d \in Nat)
    BY HeadFacts DEF Expected
  <2>2. early \in Int /\ late \in Int /\ now(early) \in Int /\ now(late) \in Int /\ now(early) =< now(late)
    BY <2>1, ChainAssumption
  <2>3. /\ config.initial_difficulty \in Nat /\ config.seconds_between_blocks \in Nat
        /\ config.difficulty_tuning_block_count \in Nat
        /\ config.difficulty_adjustment_block_count \in Nat
    BY HeadFacts
  <2>4. ~FetchError(chain, h, {}, config)
    BY DEF FetchError
  <2>5. CASE h = 0
    BY <2>3, <2>5 DEF NextDifficulty, GetDifficulty
  <2>6. CASE h # 0
    <3>1. ASSUME NEW total \in Nat
          PROVE  /\ TimeExpected(chain, h, total, config) \in Nat
                 /\ TimeTaken(chain, h, now(early), total) \in Int
                 /\ TimeTaken(chain, h, now(late), total) \in Int
                 /\ TimeTaken(chain, h, now(early), total)
                      =< TimeTaken(chain, h, now(late), total)
      <4>1. OldestRead(chain, h, total) \in 1..h
        BY <2>1, <2>6, OldestIsOnChain
      <4>2. ConsensusAt(chain, OldestRead(chain, h, total)).timestamp \in Int
        BY <2>1, <4>1, HeadFacts
      <4>3. TimeExpected(chain, h, total, config) \in Nat
        BY <2>1, <2>3, <2>6, ExpectedTimeIsNat
      <4>. QED  BY <2>2, <4>2, <4>3 DEF TimeTaken
    <3>2. TuningDifficulty(chain, h, now(early), config)
           >= TuningDifficulty(chain, h, now(late), config)
      <4>. DEFINE total == config.difficulty_tuning_block_count
                  expected == TimeExpected(chain, h, total, config)
                  e == TimeTaken(chain, h, now(early), total)
                  l == TimeTaken(chain, h, now(late), total)
      <4>1. expected \in Nat /\ e \in Int /\ l \in Int /\ e =< l
        <5>1. total \in Nat
          BY <2>3
        <5>. HIDE DEF total
        <5>. QED  BY <3>1, <5>1
      <4>2. Retarget(d, e, expected, expected) >= Retarget(d, l, expected, expected)
        <5>. HIDE DEF d, e, l, expected
        <5>. QED  BY <2>1, <2>6, <4>1, RetargetFallsWithTime
      <4>. QED  BY <4>2 DEF TuningDifficulty
    <3>3. AdjustmentDifficulty(chain, h, now(early), config)
           >= AdjustmentDifficulty(chain, h, now(late), config)
      <4>. DEFINE total == config.difficulty_adjustment_block_count
                  expected == TimeExpected(chain, h, total, config)
                  slow == 4 * expected
                  e == TimeTaken(chain, h, now(early), total)
                  l == TimeTaken(chain, h, now(late), total)
                  e2 == 2 * e
                  l2 == 2 * l
      <4>1. expected \in Nat /\ e \in Int /\ l \in Int /\ e =< l
        <5>1. total \in Nat
          BY <2>3
        <5>. HIDE DEF total
        <5>. QED  BY <3>1, <5>1
      <4>2. /\ expected \in Int /\ slow \in Int /\ expected =< slow
            /\ e2 \in Int /\ l2 \in Int /\ e2 =< l2
        <5>. HIDE DEF e, l, expected
        <5>. QED  BY <4>1
      <4>3. Retarget(d, e2, expected, slow) >= Retarget(d, l2, expected, slow)
        <5>. HIDE DEF d, e2, l2, expected, slow
        <5>. QED  BY <2>1, <2>6, <4>2, RetargetFallsWithTime
      <4>. QED  BY <4>3 DEF AdjustmentDifficulty
    <3>4. d >= d
      BY <2>1, <2>6
    <3>5. Calculate(chain, h, now(early), config) >= Calculate(chain, h, now(late), config)
      BY <3>2, <3>3, <3>4 DEF Calculate
    <3>. QED  BY <2>4, <2>6, <3>5 DEF NextDifficulty, GetDifficulty
  <2>. QED  BY <2>5, <2>6
<1>. QED  BY <1>1, InvAlways, PTL

(* A block that cannot be fetched resets the difficulty or does not        *)
(* matter, and it does not matter below the configured counts of blocks,   *)
(* two at least (work.rs:55 and 142 to 161).                               *)
THEOREM LossesResetOrDoNotMatter == Spec => []LostBlocksReset
<1>1. ChainInv => LostBlocksReset
  <2>. SUFFICES ASSUME ChainInv, NEW gap \in Spans, NEW lost \in SUBSET (0..(Len(head) - 1))
                PROVE  /\ NextDifficulty(gap, lost)
                            \in {NextDifficulty(gap, {}), config.initial_difficulty}
                       /\ (\A i \in lost, total \in {2, config.difficulty_adjustment_block_count,
                                                       config.difficulty_tuning_block_count} :
                              Len(head) - i >= total)
                            => NextDifficulty(gap, lost) = NextDifficulty(gap, {})
    BY DEF LostBlocksReset
  <2>. DEFINE chain == Payloads(head)
              height == Len(head)
  <2>1. ~FetchError(chain, height, {}, config)
    BY DEF FetchError
  <2>2. NextDifficulty(gap, lost) \in {NextDifficulty(gap, {}), config.initial_difficulty}
    BY <2>1 DEF NextDifficulty, GetDifficulty
  <2>3. ASSUME \A i \in lost, total \in {2, config.difficulty_adjustment_block_count,
                                         config.difficulty_tuning_block_count} :
                 height - i >= total
        PROVE  NextDifficulty(gap, lost) = NextDifficulty(gap, {})
    <3>1. /\ height \in Nat
          /\ config.difficulty_tuning_block_count \in Nat
          /\ config.difficulty_adjustment_block_count \in Nat
      BY HeadFacts
    <3>2. ASSUME NEW total \in {config.difficulty_adjustment_block_count,
                                config.difficulty_tuning_block_count},
                 NEW i \in Fetched(chain, height, total) \cap lost
          PROVE  FALSE
      <4>1. i \in 0..(height - 1) /\ height - i =< Wanted(total)
        BY DEF Fetched
      <4>2. height - i >= total /\ height - i >= 2
        BY <2>3
      <4>. QED  BY <3>1, <4>1, <4>2 DEF Wanted
    <3>3. ~FetchError(chain, height, lost, config)
      BY <3>2 DEF FetchError
    <3>. QED  BY <2>1, <3>3 DEF NextDifficulty, GetDifficulty
  <2>. QED  BY <2>2, <2>3
<1>. QED  BY <1>1, InvAlways, PTL
-----------------------------------------------------------------------------
(* A set of numbers with the first one, and with every next one, has all   *)
(* of them.                                                                *)
LEMMA Climb ==
  ASSUME NEW a \in Nat, NEW n \in Nat, NEW STATE G, a \in G,
         \A i \in a..n : i \in G /\ i + 1 =< n => i + 1 \in G
  PROVE  a..n \subseteq G
<1>. DEFINE Bad == (a..n) \ G
<1>. SUFFICES ASSUME Bad # {} PROVE FALSE
  OBVIOUS
<1>1. Bad \subseteq Nat
  OBVIOUS
<1>2. Min(Bad) \in Bad /\ \A y \in Bad : Min(Bad) =< y
  <2>. HIDE DEF Bad
  <2>. QED  BY <1>1, LeastHeight
<1>3. PICK i \in Bad : \A y \in Bad : i =< y
  BY <1>2
<1>4. i # a /\ i - 1 \in a..n /\ (i - 1) + 1 = i /\ i =< n
  BY <1>3
<1>5. i - 1 \notin Bad
  BY <1>3, <1>4
<1>. QED  BY <1>3, <1>4, <1>5

(* A chain at a steady pace spans as many gaps as it has blocks above the  *)
(* first of them.                                                          *)
LEMMA SteadySpan ==
  ASSUME ChainInv, NEW STATE s, s \in Int, NEW STATE o, o \in 1..Len(head),
         \A h \in 2..Len(head) : TimeAt(head, h) - TimeAt(head, h - 1) = s
  PROVE  TimeAt(head, Len(head)) - TimeAt(head, o) = (Len(head) - o) * s
<1>. DEFINE T(h) == TimeAt(head, h)
            top == Len(head)
            G == {h \in Nat : T(h) - T(o) = (h - o) * s}
<1>1. top \in Nat /\ o \in Nat /\ \A h \in 0..top : T(h) \in Int
  BY HeadFacts
<1>2. o \in G
  BY <1>1
<1>3. ASSUME NEW h \in o..top, h \in G, h + 1 =< top  PROVE h + 1 \in G
  <2>1. h + 1 \in 2..top /\ (h + 1) - 1 = h /\ h \in 0..top /\ h + 1 \in 0..top
    BY <1>1, <1>3
  <2>2. T(h + 1) - T(h) = s /\ T(h) \in Int /\ T(h + 1) \in Int /\ T(o) \in Int
    BY <1>1, <2>1
  <2>3. T(h) - T(o) = (h - o) * s
    BY <1>3
  <2>4. ((h + 1) - o) * s = (h - o) * s + s
    BY <1>1, <2>1
  <2>5. (h - o) * s \in Int
    BY <1>1, <2>1
  <2>. HIDE DEF T
  <2>6. T(h + 1) - T(o) = ((h + 1) - o) * s
    BY <2>2, <2>3, <2>4, <2>5
  <2>. QED  BY <2>1, <2>6
<1>4. o..top \subseteq G
  <2>. HIDE DEF G
  <2>. QED  BY <1>1, <1>2, <1>3, Climb
<1>5. top \in G
  <2>. HIDE DEF G
  <2>1. top \in o..top
    BY <1>1
  <2>. QED  BY <1>4, <2>1
<1>. QED  BY <1>5

(* Two paces compare as the times that equally many blocks take at them.   *)
LEMMA PacesCompare ==
  ASSUME NEW n \in Nat \ {0}, NEW x \in Int, NEW y \in Int
  PROVE  n * x \in Int /\ n * y \in Int /\ (n * x < n * y <=> x < y)
<1>1. n * x \in Int /\ n * y \in Int
  OBVIOUS
<1>2. ASSUME NEW u \in Int, NEW v \in Int, u < v  PROVE n * u < n * v
  <2>1. PICK k \in Nat \ {0} : v = u + k
    <3>1. v - u \in Nat \ {0} /\ v = u + (v - u)
      BY <1>2
    <3>. QED  BY <3>1
  <2>2. n * (u + k) = n * u + n * k /\ n * u \in Int
    OBVIOUS
  <2>3. n * k \in Nat /\ n * k > 0
    OBVIOUS
  <2>. QED  BY <2>1, <2>2, <2>3
<1>3. CASE x < y
  BY <1>2, <1>3
<1>4. CASE x = y
  BY <1>1, <1>4
<1>5. CASE y < x
  BY <1>1, <1>2, <1>5
<1>. QED  BY <1>1, <1>3, <1>4, <1>5

(* When a retarget moves. *)
LEMMA RetargetMoves ==
  ASSUME NEW d \in Nat, NEW taken \in Int, NEW fast \in Int, NEW slow \in Int, fast =< slow
  PROVE  /\ Retarget(d, taken, fast, slow) > d <=> d < MaxDifficulty /\ taken < fast
         /\ Retarget(d, taken, fast, slow) < d <=> d > 0 /\ taken > slow
BY DifficultyAssumption DEF Retarget

(* A chain whose blocks are equally far apart is retargeted by how this    *)
(* compares with the interval configured, each kind of retargeting by its  *)
(* own band, whatever the counts and however short the chain (work.rs:89   *)
(* to 95, 114 to 120 and 138).                                             *)
THEOREM SteadyPaceRetargets == Spec => []SteadyPaceDecides
<1>1. ChainInv => SteadyPaceDecides
  <2>. DEFINE interval == config.seconds_between_blocks
              h == Len(head)
              chain == Payloads(head)
              tuning == IsTuningBlock(h, config)
              adjusting == ~tuning /\ IsAdjustmentBlock(h, config)
              d == ConsensusAt(chain, h).expected_difficulty
  <2>. SUFFICES ASSUME ChainInv, NEW gap \in Spans, head # Genesis,
                       \A i \in 2..h : TimeAt(head, i) - TimeAt(head, i - 1) = gap
                PROVE  /\ NextDifficulty(gap, {}) > d <=>
                            /\ d < MaxDifficulty
                            /\ \/ tuning /\ gap < interval
                               \/ adjusting /\ 2 * gap < interval
                       /\ NextDifficulty(gap, {}) < d <=>
                            /\ d > 0
                            /\ \/ tuning /\ gap > interval
                               \/ adjusting /\ gap > 2 * interval
    BY DEF SteadyPaceDecides, Expected
  <2>. DEFINE now == TimeAt(head, h) + gap
  <2>1. /\ interval \in Nat /\ h \in Nat \ {0} /\ d \in Nat /\ gap \in Int
        /\ \A i \in 0..h : TimeAt(head, i) \in Int
        /\ config.difficulty_tuning_block_count \in Nat
        /\ config.difficulty_adjustment_block_count \in Nat
    BY HeadFacts, ChainAssumption DEF Expected
  <2>2. ASSUME NEW total \in Nat
        PROVE  \E n \in Nat \ {0} : /\ TimeTaken(chain, h, now, total) = n * gap
                                    /\ TimeExpected(chain, h, total, config) = n * interval
    <3>. DEFINE o == OldestRead(chain, h, total)
                n == Count(chain, h, total)
    <3>1. o \in 1..h /\ n \in Nat \ {0} /\ n = (h - o) + 1
      BY <2>1, OldestIsOnChain, ExpectedTimeIsNat DEF Count
    <3>2. TimeTaken(chain, h, now, total) = now - TimeAt(head, o)
      BY <3>1, HeadFacts DEF TimeTaken
    <3>. HIDE DEF o, n
    <3>3. TimeAt(head, h) - TimeAt(head, o) = (h - o) * gap
      BY <2>1, <3>1, SteadySpan
    <3>4. TimeAt(head, h) \in Int /\ TimeAt(head, o) \in Int /\ h - o \in Nat
      BY <2>1, <3>1
    <3>5. n * gap = (h - o) * gap + gap /\ (h - o) * gap \in Int
      BY <2>1, <3>1, <3>4
    <3>6. TimeTaken(chain, h, now, total) = n * gap
      BY <2>1, <3>2, <3>3, <3>4, <3>5
    <3>. QED  BY <3>1, <3>6 DEF TimeExpected, n
  <2>. HIDE DEF now
  <2>3. ~FetchError(chain, h, {}, config)
    BY DEF FetchError
  <2>4. NextDifficulty(gap, {}) = Calculate(chain, h, now, config)
    BY <2>1, <2>3 DEF NextDifficulty, GetDifficulty, now
  <2>. HIDE DEF d, h, chain, interval
  <2>5. CASE tuning
    <3>. DEFINE total == config.difficulty_tuning_block_count
                taken == TimeTaken(chain, h, now, total)
                expected == TimeExpected(chain, h, total, config)
    <3>1. PICK n \in Nat \ {0} : taken = n * gap /\ expected = n * interval
      BY <2>1, <2>2
    <3>2. /\ taken \in Int /\ expected \in Int
          /\ (taken < expected <=> gap < interval)
          /\ (taken > expected <=> gap > interval)
      BY <2>1, <3>1, PacesCompare
    <3>3. Calculate(chain, h, now, config) = Retarget(d, taken, expected, expected)
      BY <2>5 DEF Calculate, TuningDifficulty, d
    <3>. HIDE DEF taken, expected
    <3>4. /\ Retarget(d, taken, expected, expected) > d <=> d < MaxDifficulty /\ taken < expected
          /\ Retarget(d, taken, expected, expected) < d <=> d > 0 /\ taken > expected
      <4>1. d \in Nat /\ taken \in Int /\ expected \in Int /\ expected =< expected
        BY <2>1, <3>2
      <4>. QED  BY <4>1, RetargetMoves
    <3>. QED  BY <2>4, <2>5, <3>2, <3>3, <3>4
  <2>6. CASE adjusting
    <3>. DEFINE total == config.difficulty_adjustment_block_count
                taken == TimeTaken(chain, h, now, total)
                expected == TimeExpected(chain, h, total, config)
    <3>1. PICK n \in Nat \ {0} : taken = n * gap /\ expected = n * interval
      BY <2>1, <2>2
    <3>2. /\ 2 * taken = n * (2 * gap) /\ 4 * expected = n * (4 * interval)
          /\ 2 * gap \in Int /\ 4 * interval \in Int
      BY <2>1, <3>1
    <3>3. /\ 2 * taken \in Int /\ expected \in Int /\ 4 * expected \in Int
          /\ (2 * taken < expected <=> 2 * gap < interval)
          /\ (2 * taken > 4 * expected <=> 2 * gap > 4 * interval)
      BY <2>1, <3>1, <3>2, PacesCompare
    <3>4. (2 * gap > 4 * interval <=> gap > 2 * interval) /\ expected =< 4 * expected
      <4>1. expected \in Nat
        BY <2>1, <3>1
      <4>. QED  BY <2>1, <4>1
    <3>5. Calculate(chain, h, now, config) = Retarget(d, 2 * taken, expected, 4 * expected)
      BY <2>6 DEF Calculate, AdjustmentDifficulty, d
    <3>. DEFINE twice == 2 * taken  slow == 4 * expected
    <3>. HIDE DEF taken, expected, twice, slow
    <3>6. /\ Retarget(d, twice, expected, slow) > d <=> d < MaxDifficulty /\ twice < expected
          /\ Retarget(d, twice, expected, slow) < d <=> d > 0 /\ twice > slow
      <4>1. /\ d \in Nat /\ twice \in Int /\ expected \in Int /\ slow \in Int
            /\ expected =< slow
        BY <2>1, <3>3, <3>4 DEF twice, slow
      <4>. QED  BY <4>1, RetargetMoves
    <3>. QED  BY <2>4, <2>6, <3>3, <3>4, <3>5, <3>6 DEF twice, slow
  <2>7. CASE ~tuning /\ ~IsAdjustmentBlock(h, config)
    <3>1. Calculate(chain, h, now, config) = d
      BY <2>7 DEF Calculate, d
    <3>. QED  BY <2>1, <2>4, <2>7, <3>1
  <2>. QED  BY <2>5, <2>6, <2>7
<1>. QED  BY <1>1, InvAlways, PTL
-----------------------------------------------------------------------------
(* digest_score is a number: its scan ends at the last byte at the latest. *)
LEMMA ScoreIsNat == ASSUME NEW d \in Digest PROVE Score(d) \in Nat
<1>. DEFINE n == DigestBytes
            Rule(f) == [i \in 1..(n + 1) |->
                          IF i > n THEN 0
                          ELSE IF d[i] \in {0, ByteBits} THEN d[i] + f[i + 1] ELSE d[i]]
            Above(k) == (n + 1 - k)..(n + 1)
            Follows(f, k) == \A i \in Above(k) :
                               f[i] = IF i > n THEN 0
                                      ELSE IF d[i] \in {0, ByteBits} THEN d[i] + f[i + 1] ELSE d[i]
            G == {k \in Nat : \E f \in [Above(k) -> Nat] : Follows(f, k)}
<1>1. /\ n \in Nat \ {0} /\ d \in Seq(0..ByteBits) /\ Len(d) = n
      /\ \A i \in 1..n : d[i] \in Nat
  BY ChainAssumption, DifficultyAssumption DEF Digest
<1>. HIDE DEF n
<1>2. 0 \in G
  <2>1. Above(0) = {n + 1} /\ n + 1 > n
    BY <1>1
  <2>2. [i \in Above(0) |-> 0] \in [Above(0) -> Nat] /\ Follows([i \in Above(0) |-> 0], 0)
    BY <2>1
  <2>. QED  BY <2>2
<1>3. ASSUME NEW k \in 0..n, k \in G, k + 1 =< n  PROVE k + 1 \in G
  <2>1. PICK f \in [Above(k) -> Nat] : Follows(f, k)
    BY <1>3
  <2>. DEFINE m == n - k
              g == [i \in Above(k + 1) |->
                      IF i = m THEN IF d[m] \in {0, ByteBits} THEN d[m] + f[m + 1] ELSE d[m]
                      ELSE f[i]]
  <2>2. /\ m \in 1..n /\ m + 1 \in Above(k) /\ m \in Above(k + 1) /\ m \notin Above(k)
        /\ m + 1 # m /\ m + 1 \in Above(k + 1) /\ ~(m > n)
        /\ \A i \in Above(k + 1) : i # m => i \in Above(k)
        /\ \A i \in Above(k) : i # m /\ i \in Above(k + 1)
        /\ \A i \in Above(k) : i > n \/ i + 1 \in Above(k)
    BY <1>1, <1>3
  <2>. HIDE DEF m
  <2>3. d[m] \in Nat /\ f[m + 1] \in Nat
    BY <1>1, <2>1, <2>2
  <2>. HIDE DEF Above
  <2>4. g \in [Above(k + 1) -> Nat]
    <3>1. \A i \in Above(k + 1) : i # m => f[i] \in Nat
      BY <2>1, <2>2
    <3>2. d[m] + f[m + 1] \in Nat
      BY <2>3
    <3>. QED  BY <2>3, <3>1, <3>2
  <2>5. \A i \in Above(k) : g[i] = f[i]
    BY <2>2
  <2>6. g[m] = IF d[m] \in {0, ByteBits} THEN d[m] + f[m + 1] ELSE d[m]
    BY <2>2
  <2>. HIDE DEF g
  <2>7. Follows(g, k + 1)
    <3>1. ASSUME NEW i \in Above(k + 1)
          PROVE  g[i] = IF i > n THEN 0
                        ELSE IF d[i] \in {0, ByteBits} THEN d[i] + g[i + 1] ELSE d[i]
      <4>1. CASE i = m
        BY <2>2, <2>5, <2>6, <4>1
      <4>2. CASE i # m
        <5>1. i \in Above(k) /\ (i > n \/ i + 1 \in Above(k))
          BY <2>2, <4>2
        <5>. QED  BY <2>1, <2>5, <5>1
      <4>. QED  BY <4>1, <4>2
    <3>. QED  BY <3>1
  <2>8. \E h \in [Above(k + 1) -> Nat] : Follows(h, k + 1)
    <3>. HIDE DEF Follows
    <3>. QED  BY <2>4, <2>7
  <2>. QED  BY <1>3, <2>8
<1>4. n \in G
  <2>1. 0..n \subseteq G
    <3>. HIDE DEF G
    <3>. QED  BY <1>1, <1>2, <1>3, Climb
  <2>2. n \in 0..n
    BY <1>1
  <2>. QED  BY <2>1, <2>2
<1>5. Above(n) = 1..(n + 1)
  BY <1>1
<1>6. PICK f \in [1..(n + 1) -> Nat] :
        \A i \in 1..(n + 1) : f[i] = IF i > n THEN 0
                                     ELSE IF d[i] \in {0, ByteBits} THEN d[i] + f[i + 1] ELSE d[i]
  BY <1>4, <1>5
<1>7. f = Rule(f)
  BY <1>6
<1>. DEFINE r == CHOOSE h : h = Rule(h)
<1>8. Score(d) = r[1]
  BY <1>1 DEF Score
<1>. HIDE DEF Rule
<1>9. r = Rule(r)
  BY <1>7
<1>. HIDE DEF r
<1>10. /\ r = [i \in 1..(n + 1) |-> r[i]]
       /\ \A i \in 1..(n + 1) : r[i] = IF i > n THEN 0
                                       ELSE IF d[i] \in {0, ByteBits} THEN d[i] + r[i + 1] ELSE d[i]
  BY <1>9 DEF Rule
<1>11. r[n + 1] = 0 /\ \A i \in 1..n :
                          r[i] = IF d[i] \in {0, ByteBits} THEN d[i] + r[i + 1] ELSE d[i]
  <2>1. n + 1 \in 1..(n + 1) /\ n + 1 > n /\ \A i \in 1..n : i \in 1..(n + 1) /\ ~(i > n)
    BY <1>1
  <2>. QED  BY <1>10, <2>1
<1>. DEFINE H == {k \in Nat : r[n + 1 - k] \in Nat}
<1>12. 0 \in H
  BY <1>1, <1>11
<1>13. ASSUME NEW k \in 0..n, k \in H, k + 1 =< n  PROVE k + 1 \in H
  <2>. DEFINE m == n - k
  <2>1. m \in 1..n /\ m + 1 = n + 1 - k /\ m = n + 1 - (k + 1) /\ k + 1 \in Nat
    BY <1>1, <1>13
  <2>. HIDE DEF m
  <2>2. d[m] \in Nat /\ r[m + 1] \in Nat
    BY <1>1, <1>13, <2>1
  <2>3. r[m] = IF d[m] \in {0, ByteBits} THEN d[m] + r[m + 1] ELSE d[m]
    BY <1>11, <2>1
  <2>4. r[m] \in Nat
    BY <2>2, <2>3
  <2>. QED  BY <2>1, <2>4
<1>14. 0..n \subseteq H
  <2>. HIDE DEF H
  <2>. QED  BY <1>1, <1>12, <1>13, Climb
<1>15. n \in 0..n /\ n + 1 - n = 1
  BY <1>1
<1>16. r[1] \in Nat
  BY <1>14, <1>15
<1>. QED  BY <1>8, <1>16

(* An answer that was searched for the head it is published on passes      *)
(* every peer's check, also when fetches failed and on genesis, where the  *)
(* check asks for nothing (miner.rs:49 to 57 against node.rs:104 to 136).  *)
THEOREM FreshAnswersAlwaysPass == Spec => []FreshAnswersPass
<1>1. ChainInv => FreshAnswersPass
  <2>. SUFFICES ASSUME ChainInv, NEW d \in Digests(head, head, config),
                       NEW gap \in Gaps, NEW lost
                PROVE  Passes(Append(head, Block(head, head, config, gap, <<>>, lost)), d)
    BY DEF FreshAnswersPass
  <2>. DEFINE x == Block(head, head, config, gap, <<>>, lost)
              b == Append(head, x)
  <2>1. head \in Seq(MinedBlock) /\ Len(head) \in Nat /\ (head # Genesis <=> Len(head) # 0)
    BY HeadFacts
  <2>2. x \in MinedBlock /\ b \in Seq(MinedBlock)
    BY <2>1, ChainAssumption, BlockIsMined DEF ChainInv
  <2>. HIDE DEF x
  <2>3. Len(b) = Len(head) + 1 /\ \A h \in 1..Len(head) : b[h] = head[h]
    BY <2>1, <2>2
  <2>4. d \in Digest /\ Score(d) \in Nat /\ Score(d) >= ChallengeDifficulty(head, config)
    BY ScoreIsNat DEF Digests, IsValidProofOfWork
  <2>5. CASE head = Genesis
    <3>1. MinimumDifficulty(b) = 0
      BY <2>1, <2>3, <2>5 DEF MinimumDifficulty
    <3>. QED  BY <2>4, <3>1 DEF Passes, IsValidProofOfWork, x
  <2>6. CASE head # Genesis
    <3>1. Len(head) \in 1..Len(head) /\ Len(head) \in 1..Len(b) /\ Len(b) # 1
          /\ Len(b) - 1 = Len(head)
      BY <2>1, <2>3, <2>6
    <3>2. ConsensusAt(Payloads(b), Len(head)) = ConsensusAt(Payloads(head), Len(head))
      <4>1. ConsensusAt(Payloads(b), Len(head)) = Deserialize(b[Len(head)].payload)
        BY <2>2, <3>1, BlockAtHeight
      <4>2. ConsensusAt(Payloads(head), Len(head)) = Deserialize(head[Len(head)].payload)
        BY <2>1, <3>1, BlockAtHeight
      <4>. QED  BY <2>3, <3>1, <4>1, <4>2
    <3>3. MinimumDifficulty(b) = ChallengeDifficulty(head, config)
      BY <2>6, <3>1, <3>2 DEF MinimumDifficulty, ChallengeDifficulty, Expected
    <3>. QED  BY <2>4, <3>3 DEF Passes, IsValidProofOfWork, x
  <2>. QED  BY <2>5, <2>6
<1>. QED  BY <1>1, InvAlways, PTL
=============================================================================
