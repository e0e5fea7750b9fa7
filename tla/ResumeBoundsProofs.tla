-------------------------- MODULE ResumeBoundsProofs --------------------------
(***************************************************************************)
(* Proofs about Resume that count blocks and indices: its types, and that  *)
(* a validator that has signed its last block keeps the blocks it needs.   *)
(***************************************************************************)
EXTENDS ResumeProofs

(* What the property SignersRetainBlocks asks of the pruning interval.     *)
RetainsThreeMilestones == maxRetainBlocks = 0 \/ maxRetainBlocks >= 3 * MaxBlocks - 3

(* The most blocks after the reset of a state, and how many indices it can *)
(* be ahead of the node of a validator that has executed its block.        *)
BlocksSinceReset(s) == IF s.Milestone = Nil THEN MaxBlocks - 2 ELSE MaxBlocks - 1
IndicesAhead(s) == IF s.Milestone = Nil THEN 2 ELSE 1

(* A milestone takes at most MaxBlocks blocks, and a state names the one   *)
(* before it.                                                              *)
StateBounded(s, height) ==
    /\ s.MilestoneIndex >= 1
    /\ height <= s.MilestoneHeight + BlocksSinceReset(s)
    /\ s.Milestone # Nil => /\ s.MilestoneIndex <= MaxIndex
                            /\ s.Milestone.MilestoneHeight = s.MilestoneHeight
    /\ s.MilestoneIndex > 1 =>
          /\ s.LastMilestone \in Issued
          /\ s.LastMilestone.Index = s.MilestoneIndex - 1
          /\ s.MilestoneHeight <= s.LastMilestone.MilestoneHeight + MaxBlocks

ChainBounded ==
    /\ \A h \in 1 .. Height : chain[h].block \in {"empty", "parents", "signatures"}
    /\ \A h \in 0 .. Height : StateBounded(StateAt(h), h)

(* The states up to a milestone are those of the first blocks.             *)
IssuedEarly ==
    \A ms \in Issued : \A h \in 0 .. Height :
        StateAt(h).MilestoneIndex <= ms.Index => h < ms.MilestoneHeight + MaxBlocks

(* A node has seen the milestones it has confirmed.                        *)
NodeInv(v) ==
    /\ cmi[v] \in 0 .. lmi[v]
    /\ lmi[v] \in 0 .. MaxIndex
    /\ \A i \in 1 .. cmi[v] : \E ms \in tangle : ms.Index = i

(* The node of the validator has confirmed enough milestones for this      *)
(* state: the essence of the next one is only computed then.               *)
Confirmed(v, s) == s.MilestoneIndex <= cmi[v] + IndicesAhead(s)

(* Blocks are pruned because of a block the validator has executed.        *)
PrunedAt(v, h) ==
    /\ Confirmed(v, StateAt(h))
    /\ base[v] = 1 \/ (maxRetainBlocks > 0 /\ base[v] <= h - maxRetainBlocks)

BlocksInv(v) ==
    /\ base[v] \in 1 .. Height + 1
    /\ whiteFlag[v] \in NotRead .. cmi[v]
    /\ running[v] => Confirmed(v, state[v])
    /\ \E h \in 0 .. store[v] : PrunedAt(v, h)
    /\ signed[v] = Height + 1 => Latest.MilestoneIndex <= MaxIndex

OtherDomains == DOMAIN base = Validators /\ DOMAIN cmi = Validators /\ DOMAIN lmi = Validators

BoundsInv ==
    /\ ResumeInv
    /\ OtherDomains
    /\ ChainBounded
    /\ IssuedEarly
    /\ \A v \in Validators : NodeInv(v) /\ BlocksInv(v)
    /\ partial \in [Validators -> 0 .. MaxIndex]
    /\ failures \in 0 .. MaxFailures

-----------------------------------------------------------------------------
(* The chain.                                                              *)

(* What a block does to the state, field by field.                         *)
LEMMA ExecutedCases ==
  ASSUME NEW s, NEW h, StateKnown(s, h), NEW block, NEW height
  PROVE  LET t == Executed(s, block, height)
         IN  \/ /\ CreatesEssence(s, block)
                /\ t.MilestoneHeight = s.MilestoneHeight
                /\ t.MilestoneIndex = s.MilestoneIndex
                /\ t.LastMilestone = s.LastMilestone
                /\ t.Milestone = Essence(s, height)
             \/ /\ ~ CreatesEssence(s, block)
                /\ IssuesMilestone(s, block)
                /\ t = ResetTo(height, s.MilestoneIndex + 1, s.Milestone)
             \/ /\ ~ CreatesEssence(s, block)
                /\ ~ IssuesMilestone(s, block)
                /\ t = s
<1> DEFINE t == Executed(s, block, height)
<1>1. CASE CreatesEssence(s, block)
  <2>1. t = [s EXCEPT !.Milestone = Essence(s, height)]
    BY <1>1 DEF Executed
  <2>2. s = [ MilestoneHeight |-> s.MilestoneHeight, MilestoneIndex |-> s.MilestoneIndex,
              LastMilestone |-> s.LastMilestone, Since |-> s.MilestoneHeight,
              Milestone |-> s.Milestone ]
    BY DEF StateKnown
  <2>3. /\ t.MilestoneHeight = s.MilestoneHeight
        /\ t.MilestoneIndex = s.MilestoneIndex
        /\ t.LastMilestone = s.LastMilestone
        /\ t.Milestone = Essence(s, height)
    BY <2>1, <2>2
  <2> QED
    BY <1>1, <2>3
<1>2. CASE ~ CreatesEssence(s, block)
  BY <1>2 DEF Executed
<1> QED
  BY <1>1, <1>2

(* A milestone that a block issues is one of those issued.                 *)
LEMMA NewlyIssued ==
  ASSUME ChainSeq, NEW b, NEW s, chain' = Append(chain, [block |-> b, state |-> s]),
         IssuesMilestone(Latest, b)
  PROVE  Latest.Milestone \in Issued'
<1> DEFINE element == [block |-> b, state |-> s]
<1>1. chain' = Append(chain, element) /\ element.block = b
  OBVIOUS
<1> HIDE DEF element
<1>2. Height \in Nat /\ Height' = Height + 1 /\ chain'[Height + 1] = element
  BY <1>1, HeightNat, Appended
<1>3. \A h \in 0 .. Height : StateAt(h)' = StateAt(h)
  BY <1>1, StatesKept
<1>4. PICK k \in 1 .. Height' : k = Height + 1
  BY <1>2
<1>5. StateAt(k - 1)' = Latest
  BY <1>2, <1>3, <1>4 DEF Latest
<1>6. chain'[k].block = b
  BY <1>1, <1>2, <1>4
<1> QED
  BY <1>4, <1>5, <1>6, IssuesMilestone(Latest, b) DEF Issued

(* No milestone gets more blocks than Tendermint takes for it.             *)
LEMMA ExecutedBounded ==
  ASSUME ResumeInv, ChainBounded, NEW block, Decidable(block), Latest.MilestoneIndex <= MaxIndex,
         NEW s, s = Executed(Latest, block, Height + 1),
         chain' = Append(chain, [block |-> block, state |-> s])
  PROVE  StateBounded(s, Height)'
<1>1. Height \in Nat /\ ChainInv /\ ChainSeq
  BY HeightInv DEF ResumeInv, ChainInv
<1>2. StateKnown(Latest, Height) /\ StateBounded(Latest, Height)
  BY <1>1 DEF ChainInv, ChainKnown, ChainBounded, Latest
<1>3. Issued \subseteq Issued'
  BY <1>1, IssuedGrows
<1>4. Height' = Height + 1
  BY <1>1, Appended
<1>5. MaxBlocks \in Nat /\ MaxBlocks >= 2
  BY ResumeAssumption
<1>6. Latest.MilestoneIndex \in Nat /\ Latest.MilestoneHeight \in 0 .. Height
  BY <1>2 DEF StateKnown
<1>7. CASE CreatesEssence(Latest, block)
  <2>1. /\ s.MilestoneHeight = Latest.MilestoneHeight
        /\ s.MilestoneIndex = Latest.MilestoneIndex
        /\ s.LastMilestone = Latest.LastMilestone
        /\ s.Milestone = Essence(Latest, Height + 1)
    BY <1>2, <1>7, ExecutedCases
  <2>2. s.Milestone.Index = Latest.MilestoneIndex /\ s.Milestone.MilestoneHeight = s.MilestoneHeight
    BY <2>1 DEF Essence
  <2>3. s.Milestone # Nil
    BY <1>2, <1>6, <2>2 DEF StateBounded, Nil
  <2>4. Height + 1 <= s.MilestoneHeight + BlocksSinceReset(s)
    <3>1. Height + 1 - Latest.MilestoneHeight + 1 <= MaxBlocks
      BY <1>7 DEF Decidable, CreatesEssence
    <3> QED
      BY <1>1, <1>5, <1>6, <2>1, <2>3, <3>1 DEF BlocksSinceReset
  <2> QED
    BY <1>2, <1>3, <1>4, <2>1, <2>2, <2>3, <2>4 DEF StateBounded
<1>8. CASE ~ CreatesEssence(Latest, block) /\ IssuesMilestone(Latest, block)
  <2>1. s = ResetTo(Height + 1, Latest.MilestoneIndex + 1, Latest.Milestone)
    BY <1>2, <1>8, ExecutedCases
  <2>2. Latest.Milestone \in Issued'
    BY <1>1, <1>8, NewlyIssued
  <2>3. Latest.Milestone # Nil
    BY <1>8 DEF IssuesMilestone
  <2>4. /\ Latest.Milestone.Index = Latest.MilestoneIndex
        /\ Latest.Milestone.MilestoneHeight = Latest.MilestoneHeight
        /\ Height <= Latest.MilestoneHeight + MaxBlocks - 1
    BY <1>2, <1>5, <1>6, <2>3 DEF StateKnown, StateBounded, BlocksSinceReset
  <2>5. /\ s.MilestoneHeight = Height + 1
        /\ s.MilestoneIndex = Latest.MilestoneIndex + 1
        /\ s.LastMilestone = Latest.Milestone
        /\ s.Milestone = Nil
    BY <2>1 DEF ResetTo
  <2>6. Height + 1 <= s.MilestoneHeight + BlocksSinceReset(s)
    BY <1>1, <1>5, <2>5 DEF BlocksSinceReset
  <2>7. s.MilestoneHeight <= s.LastMilestone.MilestoneHeight + MaxBlocks
    BY <1>1, <1>5, <1>6, <2>4, <2>5
  <2>8. s.MilestoneIndex >= 1 /\ s.LastMilestone.Index = s.MilestoneIndex - 1
    BY <1>6, <2>4, <2>5
  <2> QED
    BY <1>4, <2>2, <2>5, <2>6, <2>7, <2>8 DEF StateBounded
<1>9. CASE ~ CreatesEssence(Latest, block) /\ ~ IssuesMilestone(Latest, block)
  <2>1. s = Latest
    BY <1>2, <1>9, ExecutedCases
  <2>2. Height + 1 - Latest.MilestoneHeight + (IF Latest.Milestone = Nil THEN 2 ELSE 1) <= MaxBlocks
    BY <1>9 DEF Decidable, CreatesEssence, IssuesMilestone
  <2>3. Height + 1 <= s.MilestoneHeight + BlocksSinceReset(s)
    BY <1>1, <1>5, <1>6, <2>1, <2>2 DEF BlocksSinceReset
  <2> QED
    BY <1>2, <1>3, <1>4, <2>1, <2>3 DEF StateBounded
<1> QED
  BY <1>7, <1>8, <1>9

LEMMA BoundsGrow ==
  ASSUME ResumeInv, ChainBounded, IssuedEarly, Latest.MilestoneIndex <= MaxIndex,
         NEW block \in {"empty", "parents", "signatures"}, Decidable(block),
         NEW s, s = Executed(Latest, block, Height + 1),
         chain' = Append(chain, [block |-> block, state |-> s])
  PROVE  ChainBounded' /\ IssuedEarly'
<1>1. Height \in Nat /\ Height' = Height + 1 /\ ChainInv /\ ChainSeq
  BY HeightInv, Appended DEF ResumeInv, ChainInv
<1>2. /\ \A h \in 0 .. Height : StateAt(h)' = StateAt(h)
      /\ Latest' = s
  BY <1>1, StatesKept
<1>3. \A h : h = Height + 1 => StateAt(h)' = s
  BY <1>1, <1>2 DEF Latest, StateAt
<1>4. Issued \subseteq Issued'
  BY <1>1, IssuedGrows
<1>5. ChainBounded'
  <2> DEFINE element == [block |-> block, state |-> s]
  <2>1. chain' = Append(chain, element) /\ element.block = block
    OBVIOUS
  <2> HIDE DEF element
  <2>2. (\A h \in 1 .. Height : chain'[h] = chain[h]) /\ chain'[Height + 1] = element
    BY <1>1, <2>1, Appended
  <2>3. ASSUME NEW h \in 1 .. Height + 1
        PROVE  chain'[h].block \in {"empty", "parents", "signatures"}
    <3>1. CASE h \in 1 .. Height
      BY <2>2, <3>1 DEF ChainBounded
    <3>2. CASE h = Height + 1
      BY <2>1, <2>2, <3>2
    <3>3. h \in 1 .. Height \/ h = Height + 1
      BY <1>1
    <3> QED
      BY <3>1, <3>2, <3>3
  <2>4. ASSUME NEW h \in 0 .. Height + 1
        PROVE  StateBounded(StateAt(h), h)'
    <3>1. CASE h \in 0 .. Height
      BY <1>2, <1>4, <3>1 DEF ChainBounded, StateBounded
    <3>2. CASE h = Height'
      <4>1. StateBounded(s, Height)'
        BY ExecutedBounded
      <4> QED
        BY <1>1, <1>3, <3>2, <4>1 DEF StateBounded
    <3>3. h \in 0 .. Height \/ h = Height'
      BY <1>1
    <3> QED
      BY <3>1, <3>2, <3>3
  <2> QED
    BY <1>1, <2>3, <2>4 DEF ChainBounded
<1>6. IssuedEarly'
  <2>1. SUFFICES ASSUME NEW ms \in Issued', NEW h \in 0 .. Height + 1,
                        StateAt(h)'.MilestoneIndex <= ms.Index
                 PROVE  h < ms.MilestoneHeight + MaxBlocks
    BY <1>1 DEF IssuedEarly
  <2>2. ms \in Issued \/ (IssuesMilestone(Latest, block) /\ ms = Latest.Milestone)
    BY <1>1, IssuedGrows
  <2>3. StateKnown(Latest, Height) /\ StateBounded(Latest, Height)
    BY <1>1 DEF ChainInv, ChainKnown, ChainBounded, Latest
  <2>4. Latest.MilestoneIndex \in Nat /\ Latest.MilestoneHeight \in 0 .. Height
    BY <2>3 DEF StateKnown
  <2>5. MaxBlocks \in Nat /\ MaxBlocks >= 2
    BY ResumeAssumption
  <2>6. ms.Index \in Nat /\ ms.Index < s.MilestoneIndex
    <3>1. CASE IssuesMilestone(Latest, block)
      <4>1. s.MilestoneIndex = Latest.MilestoneIndex + 1
        BY <2>3, <3>1, ExecutedCases DEF ResetTo, CreatesEssence, IssuesMilestone
      <4>2. Latest.Milestone.Index = Latest.MilestoneIndex
        BY <2>3, <3>1 DEF StateKnown, IssuesMilestone
      <4> QED
        BY <1>1, <2>2, <2>4, <4>1, <4>2 DEF ChainInv, IssuedOnce
    <3>2. CASE ~ IssuesMilestone(Latest, block)
      <4>1. s.MilestoneIndex = Latest.MilestoneIndex
        BY <2>3, <3>2, ExecutedCases
      <4> QED
        BY <1>1, <2>2, <3>2, <4>1 DEF ChainInv, IssuedOnce
    <3> QED
      BY <3>1, <3>2
  <2>7. h \in 0 .. Height
    <3>1. h # Height + 1
      <4> SUFFICES ASSUME h = Height + 1
                   PROVE  FALSE
        OBVIOUS
      <4>1. s.MilestoneIndex <= ms.Index
        BY <1>3, <2>1
      <4>2. s.MilestoneIndex \in Nat
        BY <2>3, <2>4, ExecutedCases DEF ResetTo
      <4> QED
        BY <2>6, <4>1, <4>2
    <3> QED
      BY <1>1, <3>1
  <2>8. StateAt(h).MilestoneIndex <= ms.Index
    BY <1>2, <2>1, <2>7
  <2>9. CASE ms \in Issued
    BY <2>7, <2>8, <2>9 DEF IssuedEarly
  <2>10. CASE IssuesMilestone(Latest, block) /\ ms = Latest.Milestone
    <3>1. /\ ms.MilestoneHeight = Latest.MilestoneHeight
          /\ Height <= Latest.MilestoneHeight + MaxBlocks - 1
      BY <2>3, <2>4, <2>5, <2>10 DEF StateBounded, BlocksSinceReset, IssuesMilestone
    <3> QED
      BY <1>1, <2>4, <2>5, <2>7, <3>1
  <2> QED
    BY <2>2, <2>9, <2>10
<1> QED
  BY <1>5, <1>6

-----------------------------------------------------------------------------
(* The steps.                                                              *)

(* The step leaves the validator and its node alone.                       *)
SameNode(u) == Same(u) /\ base'[u] = base[u] /\ cmi'[u] = cmi[u] /\ lmi'[u] = lmi[u]

LEMMA BoundsUnchanged ==
  ASSUME BoundsInv, chain' = chain
  PROVE  /\ Height \in Nat /\ Height' = Height /\ Latest' = Latest /\ Issued' = Issued
         /\ \A h : StateAt(h)' = StateAt(h)
         /\ ChainBounded' /\ IssuedEarly'
<1>1. Height \in Nat /\ Height' = Height /\ Issued' = Issued
  BY HeightInv, ChainUnchanged DEF BoundsInv, ResumeInv
<1>2. Latest' = Latest /\ \A h : StateAt(h)' = StateAt(h)
  BY DEF Height, Latest, StateAt
<1>3. ChainBounded'
  BY <1>1, <1>2 DEF BoundsInv, ChainBounded, StateBounded
<1>4. IssuedEarly'
  BY <1>1, <1>2 DEF BoundsInv, IssuedEarly
<1> QED
  BY <1>1, <1>2, <1>3, <1>4

(* A step of one validator or its node that leaves the chain as it is.     *)
LEMMA OneNode ==
  ASSUME BoundsInv, ResumeInv', NEW v \in Validators, chain' = chain, tangle \subseteq tangle',
         OtherDomains', \A u \in Validators \ {v} : SameNode(u), NodeInv(v)', BlocksInv(v)',
         partial' \in [Validators -> 0 .. MaxIndex], failures' \in 0 .. MaxFailures
  PROVE  BoundsInv'
<1>1. /\ Height' = Height /\ Latest' = Latest
      /\ \A h : StateAt(h)' = StateAt(h)
      /\ ChainBounded' /\ IssuedEarly'
  BY BoundsUnchanged
<1>2. ASSUME NEW u \in Validators \ {v}
      PROVE  NodeInv(u)' /\ BlocksInv(u)'
  <2>1. NodeInv(u) /\ BlocksInv(u) /\ SameNode(u)
    BY DEF BoundsInv
  <2>2. NodeInv(u)'
    BY <2>1 DEF NodeInv, SameNode
  <2>3. \A h : PrunedAt(u, h) => PrunedAt(u, h)'
    BY <1>1, <2>1 DEF PrunedAt, Confirmed, SameNode
  <2>4. BlocksInv(u)'
    BY <1>1, <2>1, <2>3 DEF BlocksInv, Confirmed, SameNode, Same
  <2> QED
    BY <2>2, <2>4
<1> QED
  BY <1>1, <1>2 DEF BoundsInv

(* What has been pruned has been pruned for the same reason.               *)
LEMMA PruningKept ==
  ASSUME BoundsInv, NEW v \in Validators, chain' = chain, base'[v] = base[v],
         store'[v] \in Nat, store'[v] >= store[v], cmi'[v] \in Nat, cmi'[v] >= cmi[v]
  PROVE  /\ base'[v] \in 1 .. Height' + 1
         /\ \A s : s.MilestoneIndex \in Nat => (Confirmed(v, s) => Confirmed(v, s)')
         /\ \E h \in 0 .. store'[v] : PrunedAt(v, h)'
<1>1. Height \in Nat /\ Height' = Height /\ \A h : StateAt(h)' = StateAt(h)
  BY BoundsUnchanged
<1>2. NodeInv(v) /\ BlocksInv(v) /\ ValidatorInv(v)
  BY DEF BoundsInv, ResumeInv
<1>3. \A s : s.MilestoneIndex \in Nat => (Confirmed(v, s) => Confirmed(v, s)')
  BY <1>2 DEF NodeInv, Confirmed, IndicesAhead
<1>4. PICK h \in 0 .. store[v] : PrunedAt(v, h)
  BY <1>2 DEF BlocksInv
<1>5. h \in 0 .. Height /\ h \in 0 .. store'[v]
  BY <1>1, <1>2, <1>4 DEF ValidatorInv
<1>6. StateAt(h).MilestoneIndex \in Nat
  BY <1>5 DEF BoundsInv, ResumeInv, ChainInv, ChainKnown, StateKnown
<1>7. PrunedAt(v, h)'
  BY <1>1, <1>3, <1>4, <1>6 DEF PrunedAt
<1>8. base'[v] \in 1 .. Height' + 1
  BY <1>1, <1>2 DEF BlocksInv
<1> QED
  BY <1>3, <1>5, <1>7, <1>8

(* A running validator has a state of the chain.                           *)
LEMMA RunningState ==
  ASSUME ResumeInv, NEW v \in Validators, running[v]
  PROVE  /\ cms[v] \in 0 .. Height
         /\ state[v] = StateAt(cms[v])
         /\ StateKnown(state[v], cms[v])
  BY HeightInv DEF ResumeInv, ValidatorInv, ChainInv, ChainKnown

(* A step that changes neither what is pruned nor what has been confirmed  *)
(* nor what is executed.                                                   *)
LEMMA QuietStep ==
  ASSUME BoundsInv, ResumeInv', NEW v \in Validators, chain' = chain,
         base' = base, cmi' = cmi, lmi' = lmi, tangle \subseteq tangle',
         \A u \in Validators \ {v} : Same(u), store'[v] >= store[v],
         running'[v] => running[v] /\ state'[v] = state[v],
         whiteFlag'[v] \in {NotRead, whiteFlag[v], cmi[v]},
         signed'[v] = signed[v] \/ Latest.MilestoneIndex <= MaxIndex,
         partial' \in [Validators -> 0 .. MaxIndex], failures' \in 0 .. MaxFailures
  PROVE  BoundsInv'
<1>1. Height \in Nat /\ Height' = Height /\ Latest' = Latest
  BY BoundsUnchanged
<1>2. NodeInv(v) /\ BlocksInv(v)
  BY DEF BoundsInv
<1>3. NodeInv(v)'
  BY <1>2 DEF NodeInv
<1>4. store'[v] \in Nat /\ cmi'[v] \in Nat
  BY <1>1, <1>2 DEF ResumeInv, ValidatorInv, NodeInv
<1>5. /\ base'[v] \in 1 .. Height' + 1
      /\ \E h \in 0 .. store'[v] : PrunedAt(v, h)'
  BY <1>2, <1>4, PruningKept DEF NodeInv
<1>6. running'[v] => Confirmed(v, state[v])'
  BY <1>2 DEF BlocksInv, Confirmed
<1>7. whiteFlag'[v] \in NotRead .. cmi'[v]
  BY <1>2 DEF BlocksInv, NodeInv, NotRead
<1>8. BlocksInv(v)'
  BY <1>1, <1>2, <1>5, <1>6, <1>7 DEF BlocksInv
<1>9. OtherDomains' /\ \A u \in Validators \ {v} : SameNode(u)
  BY DEF BoundsInv, OtherDomains, SameNode
<1> QED
  BY <1>3, <1>8, <1>9, OneNode

LEMMA SignBounds ==
  ASSUME BoundsInv, ResumeInv', NEW v \in Validators, Sign(v)
  PROVE  BoundsInv'
<1>1. \A u \in Validators \ {v} : Same(u)
  BY DEF Sign, memoryVars, Same, BoundsInv, ResumeInv, Domains
<1>2. store[v] \in Nat /\ store'[v] = store[v]
  BY HeightInv DEF Sign, BoundsInv, ResumeInv, ValidatorInv
<1> QED
  BY <1>1, <1>2, QuietStep DEF Sign, nodeVars, memoryVars, BoundsInv

LEMMA StoppedBounds ==
  ASSUME BoundsInv, ResumeInv', NEW v \in Validators, Stopped(v),
         failures' \in 0 .. MaxFailures
  PROVE  BoundsInv'
<1>1. \A u \in Validators \ {v} : Same(u)
  BY DEF Stopped, diskVars, Same, BoundsInv, ResumeInv, Domains
<1>2. store[v] \in Nat /\ store'[v] = store[v]
  BY HeightInv DEF Stopped, diskVars, BoundsInv, ResumeInv, ValidatorInv
<1>3. ~ running'[v] /\ whiteFlag'[v] = NotRead
  BY DEF Stopped, BoundsInv, ResumeInv, Domains
<1> QED
  BY <1>1, <1>2, <1>3, QuietStep DEF Stopped, nodeVars, diskVars, BoundsInv

LEMMA FetchBlockBounds ==
  ASSUME BoundsInv, ResumeInv', NEW v \in Validators, FetchBlock(v)
  PROVE  BoundsInv'
<1>1. \A u \in Validators \ {v} : Same(u)
  BY DEF FetchBlock, memoryVars, Same, BoundsInv, ResumeInv, Domains
<1>2. store'[v] >= store[v]
  BY HeightInv DEF FetchBlock, BoundsInv, ResumeInv, Domains, ValidatorInv
<1> QED
  BY <1>1, <1>2, QuietStep DEF FetchBlock, nodeVars, memoryVars, BoundsInv

LEMMA ReadConfirmedIndexBounds ==
  ASSUME BoundsInv, ResumeInv', NEW v \in Validators, ReadConfirmedIndex(v)
  PROVE  BoundsInv'
<1>1. \A u \in Validators \ {v} : Same(u)
  BY DEF ReadConfirmedIndex, diskVars, Same, BoundsInv, ResumeInv, Domains
<1>2. store[v] \in Nat /\ store'[v] = store[v]
  BY HeightInv DEF ReadConfirmedIndex, diskVars, BoundsInv, ResumeInv, ValidatorInv
<1>3. whiteFlag'[v] = cmi[v]
  BY DEF ReadConfirmedIndex, BoundsInv, ResumeInv, Domains
<1> QED
  BY <1>1, <1>2, <1>3, QuietStep DEF ReadConfirmedIndex, nodeVars, diskVars, BoundsInv

LEMMA BroadcastPartialBounds ==
  ASSUME BoundsInv, ResumeInv', NEW v \in Validators, BroadcastPartial(v)
  PROVE  BoundsInv'
<1>1. \A u \in Validators \ {v} : Same(u)
  BY DEF BroadcastPartial, diskVars, memoryVars, Same
<1>2. store[v] \in Nat /\ store'[v] = store[v]
  BY HeightInv DEF BroadcastPartial, diskVars, BoundsInv, ResumeInv, ValidatorInv
<1>3. index(v) \in 0 .. MaxIndex
  <2>1. PICK h \in 0 .. Height : state[v] = StateAt(h) /\ StateKnown(state[v], h)
    BY RunningState DEF BroadcastPartial, CaughtUp, BoundsInv
  <2>2. StateBounded(state[v], h)
    BY <2>1 DEF BoundsInv, ChainBounded
  <2> QED
    BY <2>1, <2>2, ResumeAssumption
       DEF StateBounded, StateKnown, BroadcastPartial, index
<1>4. partial' \in [Validators -> 0 .. MaxIndex]
  BY <1>3 DEF BroadcastPartial, BoundsInv
<1> QED
  BY <1>1, <1>2, <1>4, QuietStep DEF BroadcastPartial, nodeVars, diskVars, memoryVars, BoundsInv

LEMMA SubmitBounds ==
  ASSUME BoundsInv, ResumeInv', NEW v \in Validators, NEW ms, Submitted(v, ms),
         tangle \subseteq tangle', failures' \in 0 .. MaxFailures
  PROVE  BoundsInv'
<1>1. \A u \in Validators \ {v} : Same(u)
  BY DEF Submitted, diskVars, Same, BoundsInv, ResumeInv, Domains
<1>2. store[v] \in Nat /\ store'[v] = store[v]
  BY HeightInv DEF Submitted, diskVars, BoundsInv, ResumeInv, ValidatorInv
<1> QED
  BY <1>1, <1>2, QuietStep DEF Submitted, diskVars, BoundsInv

(* The index of a milestone that has been issued is in bounds.             *)
LEMMA IssuedIndex ==
  ASSUME ResumeInv, ChainBounded
  PROVE  \A ms \in Issued : ms.Index \in 1 .. MaxIndex
<1>1. Height \in Nat
  BY HeightInv
<1>2. SUFFICES ASSUME NEW h \in 1 .. Height, IssuesMilestone(StateAt(h - 1), chain[h].block)
               PROVE  StateAt(h - 1).Milestone.Index \in 1 .. MaxIndex
  BY IssuedAt
<1>3. h - 1 \in 0 .. Height
  BY <1>1
<1>4. StateKnown(StateAt(h - 1), h - 1) /\ StateBounded(StateAt(h - 1), h - 1)
  BY <1>3 DEF ResumeInv, ChainInv, ChainKnown, ChainBounded
<1> QED
  BY <1>2, <1>4, ResumeAssumption DEF StateKnown, StateBounded, IssuesMilestone

LEMMA NodeBounds ==
  ASSUME BoundsInv, ResumeInv', NEW v \in Validators, NEW ms,
         NodeReceives(v, ms) \/ NodeConfirms(v)
  PROVE  BoundsInv'
<1>1. /\ chain' = chain /\ tangle' = tangle /\ failures' = failures /\ partial' = partial
      /\ diskVars' = diskVars /\ memoryVars' = memoryVars
  BY DEF NodeReceives, NodeConfirms
<1>2. NodeInv(v) /\ BlocksInv(v)
  BY DEF BoundsInv
<1>3. OtherDomains' /\ \A u \in Validators \ {v} : SameNode(u)
  BY <1>1 DEF NodeReceives, NodeConfirms, BoundsInv, OtherDomains, SameNode, Same, diskVars,
              memoryVars
<1>4. NodeInv(v)'
  <2>1. CASE NodeReceives(v, ms)
    <3>1. ms.Index \in 1 .. MaxIndex
      BY <2>1, IssuedIndex DEF NodeReceives, BoundsInv, ResumeInv
    <3>2. lmi'[v] = ms.Index /\ ms.Index > lmi[v] /\ cmi' = cmi
      BY <2>1 DEF NodeReceives, BoundsInv, OtherDomains
    <3> QED
      BY <1>1, <1>2, <3>1, <3>2 DEF NodeInv
  <2>2. CASE NodeConfirms(v)
    <3>1. /\ cmi'[v] = cmi[v] + 1 /\ lmi' = lmi /\ cmi[v] < lmi[v]
          /\ \E m \in tangle : m.Index = cmi[v] + 1
      BY <2>2 DEF NodeConfirms, BoundsInv, OtherDomains
    <3>2. ASSUME NEW i \in 1 .. cmi'[v]
          PROVE  \E m \in tangle : m.Index = i
      <4>1. i \in 1 .. cmi[v] \/ i = cmi[v] + 1
        BY <1>2, <3>1 DEF NodeInv
      <4> QED
        BY <1>2, <3>1, <4>1 DEF NodeInv
    <3>3. cmi'[v] \in 0 .. lmi'[v] /\ lmi'[v] \in 0 .. MaxIndex
      BY <1>2, <3>1 DEF NodeInv
    <3> QED
      BY <1>1, <3>2, <3>3 DEF NodeInv
  <2> QED
    BY <2>1, <2>2
<1>5. cmi'[v] \in Nat /\ cmi'[v] >= cmi[v]
  BY <1>2, <1>4 DEF NodeInv, NodeReceives, NodeConfirms, BoundsInv, OtherDomains
<1>6. Height \in Nat /\ Height' = Height /\ Latest' = Latest
  BY <1>1, BoundsUnchanged
<1>7. store[v] \in Nat
  BY HeightInv DEF BoundsInv, ResumeInv, ValidatorInv
<1>8. /\ base'[v] \in 1 .. Height' + 1
      /\ \A s : s.MilestoneIndex \in Nat => (Confirmed(v, s) => Confirmed(v, s)')
      /\ \E h \in 0 .. store'[v] : PrunedAt(v, h)'
  <2>1. base' = base /\ store' = store
    BY <1>1 DEF diskVars
  <2>2. store'[v] \in Nat /\ store'[v] >= store[v]
    BY <1>7, <2>1
  <2> QED
    BY <1>1, <1>5, <2>1, <2>2, PruningKept
<1>9. running'[v] => Confirmed(v, state[v])'
  <2>1. running' = running /\ state' = state
    BY <1>1 DEF memoryVars
  <2>2. running[v] => state[v].MilestoneIndex \in Nat
    BY RunningState DEF BoundsInv, StateKnown
  <2> QED
    BY <1>2, <1>8, <2>1, <2>2 DEF BlocksInv, Confirmed
<1>10. whiteFlag'[v] \in NotRead .. cmi'[v]
  BY <1>1, <1>2, <1>5 DEF BlocksInv, NodeInv, NotRead, memoryVars
<1>11. BlocksInv(v)'
  BY <1>1, <1>2, <1>6, <1>8, <1>9, <1>10 DEF BlocksInv, diskVars
<1>12. partial' \in [Validators -> 0 .. MaxIndex] /\ failures' \in 0 .. MaxFailures
  BY <1>1 DEF BoundsInv
<1> QED
  BY <1>1, <1>3, <1>4, <1>11, <1>12, OneNode

(* The state after a block is confirmed, if its essence was only computed  *)
(* when the milestone before it was confirmed.                             *)
LEMMA ExecutedConfirmed ==
  ASSUME NEW v, NEW s, NEW h, StateKnown(s, h), Confirmed(v, s), cmi[v] \in Nat,
         NEW block, NEW height, CreatesEssence(s, block) => s.MilestoneIndex <= cmi[v] + 1
  PROVE  Confirmed(v, Executed(s, block, height))
<1>0. PICK t : t = Executed(s, block, height)
  OBVIOUS
<1>1. s.MilestoneIndex \in Nat
  BY DEF StateKnown
<1>2. CASE CreatesEssence(s, block)
  <2>1. t.MilestoneIndex = s.MilestoneIndex
    BY <1>0, <1>2, ExecutedCases
  <2> QED
    BY <1>0, <1>1, <1>2, <2>1 DEF Confirmed, IndicesAhead
<1>3. CASE ~ CreatesEssence(s, block) /\ IssuesMilestone(s, block)
  <2>1. t.MilestoneIndex = s.MilestoneIndex + 1 /\ t.Milestone = Nil
    BY <1>0, <1>3, ExecutedCases DEF ResetTo
  <2>2. s.MilestoneIndex <= cmi[v] + 1
    BY <1>3 DEF Confirmed, IndicesAhead, IssuesMilestone
  <2> QED
    BY <1>0, <1>1, <2>1, <2>2 DEF Confirmed, IndicesAhead
<1>4. CASE ~ CreatesEssence(s, block) /\ ~ IssuesMilestone(s, block)
  BY <1>4, ExecutedCases
<1> QED
  BY <1>2, <1>3, <1>4

LEMMA CommitBounds ==
  ASSUME BoundsInv, ResumeInv', NEW v \in Validators, running[v], cms[v] < store[v], Commit(v),
         CreatesEssence(state[v], NextBlock(v)) => index(v) <= cmi[v] + 1
  PROVE  BoundsInv'
<1>1. /\ chain' = chain /\ tangle' = tangle /\ cmi' = cmi /\ lmi' = lmi
      /\ failures' = failures /\ partial' = partial /\ store' = store /\ signed' = signed
      /\ running' = running
  BY DEF Commit, nodeVars
<1>2. /\ Height \in Nat /\ Height' = Height /\ Latest' = Latest
      /\ \A h : StateAt(h)' = StateAt(h)
  BY <1>1, BoundsUnchanged
<1>3. NodeInv(v) /\ BlocksInv(v) /\ ValidatorInv(v)
  BY DEF BoundsInv, ResumeInv
<1>4. OtherDomains' /\ \A u \in Validators \ {v} : SameNode(u)
  BY <1>1 DEF Commit, BoundsInv, ResumeInv, Domains, OtherDomains, SameNode, Same
<1>5. NodeInv(v)'
  BY <1>1, <1>3 DEF NodeInv
<1>6. PICK height \in 1 .. store[v] : height = cms[v] + 1
  BY <1>2, <1>3 DEF ValidatorInv
<1>7. /\ state'[v] = Executed(state[v], NextBlock(v), height)
      /\ base'[v] = Larger(base[v], retainHeight(height))
      /\ whiteFlag'[v] = NotRead
      /\ cms'[v] = height
  BY <1>6 DEF Commit, BoundsInv, ResumeInv, Domains, OtherDomains
<1>8. Confirmed(v, state'[v])
  <2>1. StateKnown(state[v], cms[v])
    BY RunningState DEF BoundsInv
  <2> QED
    BY <1>3, <1>7, <2>1, ExecutedConfirmed DEF BlocksInv, NodeInv, index
<1>9. running'[v] => Confirmed(v, state[v])'
  BY <1>1, <1>8 DEF Confirmed
<1>10. /\ base'[v] \in 1 .. Height' + 1
       /\ \E h \in 0 .. store'[v] : PrunedAt(v, h)'
  <2>1. CASE base'[v] = base[v]
    <3>1. store'[v] \in Nat /\ store'[v] >= store[v] /\ cmi'[v] \in Nat /\ cmi'[v] >= cmi[v]
      BY <1>1, <1>2, <1>3 DEF ValidatorInv, NodeInv
    <3> QED
      BY <1>1, <2>1, <3>1, PruningKept
  <2>2. CASE base'[v] # base[v]
    <3>1. base[v] \in Nat /\ base[v] >= 1 /\ maxRetainBlocks \in Nat
      BY <1>2, <1>3, ResumeAssumption DEF BlocksInv
    <3>2. /\ maxRetainBlocks > 0
          /\ base'[v] = height - maxRetainBlocks
          /\ base'[v] >= 1
      BY <1>6, <1>7, <2>2, <3>1 DEF Larger, retainHeight
    <3>3. running'[v] /\ state'[v] = StateAt(height)'
      <4>1. running'[v] => state'[v] = StateAt(cms[v])'
        BY DEF ResumeInv, ValidatorInv
      <4>2. StateAt(cms[v])' = StateAt(height)'
        BY <1>7 DEF StateAt
      <4> QED
        BY <1>1, <4>1, <4>2
    <3>4. PrunedAt(v, height)'
      <4>1. Confirmed(v, StateAt(height))'
        BY <1>1, <1>8, <3>3 DEF Confirmed
      <4>2. base'[v] <= height - maxRetainBlocks
        BY <1>6, <3>1, <3>2
      <4> QED
        BY <3>2, <4>1, <4>2 DEF PrunedAt
    <3>5. height \in 0 .. store'[v] /\ base'[v] \in 1 .. Height' + 1
      BY <1>1, <1>2, <1>3, <1>6, <3>1, <3>2 DEF ValidatorInv
    <3> QED
      BY <3>4, <3>5
  <2> QED
    BY <2>1, <2>2
<1>11. whiteFlag'[v] \in NotRead .. cmi'[v]
  BY <1>1, <1>3, <1>7 DEF NodeInv, NotRead
<1>12. BlocksInv(v)'
  BY <1>1, <1>2, <1>3, <1>9, <1>10, <1>11 DEF BlocksInv
<1>13. partial' \in [Validators -> 0 .. MaxIndex] /\ failures' \in 0 .. MaxFailures
  BY <1>1 DEF BoundsInv
<1> QED
  BY <1>1, <1>4, <1>5, <1>12, <1>13, OneNode

LEMMA RestartedBounds ==
  ASSUME BoundsInv, ResumeInv', NEW v \in Validators, NEW s, Restarted(v, s), Confirmed(v, s)
  PROVE  BoundsInv'
<1>1. /\ chain' = chain /\ tangle' = tangle /\ cmi' = cmi /\ lmi' = lmi /\ base' = base
      /\ failures' = failures /\ partial' = partial /\ store' = store /\ signed' = signed
      /\ whiteFlag' = whiteFlag
  BY DEF Restarted, nodeVars, diskVars
<1>2. Height \in Nat /\ Height' = Height /\ Latest' = Latest
  BY <1>1, BoundsUnchanged
<1>3. NodeInv(v) /\ BlocksInv(v) /\ ValidatorInv(v)
  BY DEF BoundsInv, ResumeInv
<1>4. OtherDomains' /\ \A u \in Validators \ {v} : SameNode(u)
  BY <1>1 DEF Restarted, BoundsInv, ResumeInv, Domains, OtherDomains, SameNode, Same
<1>5. NodeInv(v)'
  BY <1>1, <1>3 DEF NodeInv
<1>6. /\ base'[v] \in 1 .. Height' + 1
      /\ \E h \in 0 .. store'[v] : PrunedAt(v, h)'
  <2>1. store'[v] \in Nat /\ store'[v] >= store[v] /\ cmi'[v] \in Nat /\ cmi'[v] >= cmi[v]
    BY <1>1, <1>2, <1>3 DEF ValidatorInv, NodeInv
  <2> QED
    BY <1>1, <2>1, PruningKept
<1>7. Confirmed(v, state[v])'
  <2>1. state'[v] = s
    BY DEF Restarted, BoundsInv, ResumeInv, Domains
  <2> QED
    BY <1>1, <2>1 DEF Confirmed
<1>8. BlocksInv(v)'
  BY <1>1, <1>2, <1>3, <1>6, <1>7 DEF BlocksInv
<1>9. partial' \in [Validators -> 0 .. MaxIndex] /\ failures' \in 0 .. MaxFailures
  BY <1>1 DEF BoundsInv
<1> QED
  BY <1>1, <1>4, <1>5, <1>8, <1>9, OneNode

LEMMA BootstrapBounds ==
  ASSUME BoundsInv, ResumeInv', NEW v \in Validators, Bootstrap(v)
  PROVE  BoundsInv'
<1>1. cmi[v] \in Nat
  BY DEF BoundsInv, NodeInv
<1>2. Confirmed(v, InitialState)
  BY <1>1 DEF Confirmed, IndicesAhead, InitialState, ResetTo
<1> QED
  BY <1>2, RestartedBounds DEF Bootstrap

LEMMA ResumeBounds ==
  ASSUME BoundsInv, ResumeInv', NEW v \in Validators, Resume(v)
  PROVE  BoundsInv'
<1>1. PICK ms \in ResumeMilestones(v) : Restarted(v, NewStateFromMilestone(ms))
  BY DEF Resume
<1>2. ms.Index \in 1 .. MaxIndex /\ ms.Index <= cmi[v] /\ cmi[v] \in Nat
  BY <1>1, IssuedIndex DEF ResumeMilestones, Compatible, BoundsInv, ResumeInv, NodeInv
<1>3. Confirmed(v, NewStateFromMilestone(ms))
  BY <1>2 DEF Confirmed, IndicesAhead, NewStateFromMilestone, ResetTo
<1> QED
  BY <1>1, <1>3, RestartedBounds

(* A block is only decided by validators that have signed it, which they   *)
(* do up to the last milestone.                                            *)
LEMMA DecideBounds ==
  ASSUME BoundsInv, ResumeInv', NEW v \in Validators,
         NEW block \in {"empty", "parents", "signatures"}, Decide(v, block)
  PROVE  BoundsInv'
<1>1. PICK s : s = Executed(Latest, block, Height + 1)
  OBVIOUS
<1>2. chain' = Append(chain, [block |-> block, state |-> s])
  BY <1>1 DEF Decide
<1>3. /\ tangle' = tangle /\ cmi' = cmi /\ lmi' = lmi /\ base' = base /\ failures' = failures
      /\ partial' = partial /\ signed' = signed /\ running' = running /\ state' = state
      /\ whiteFlag' = whiteFlag
  BY DEF Decide, nodeVars, memoryVars
<1>4. /\ Height \in Nat /\ Height' = Height + 1
      /\ \A h \in 0 .. Height : StateAt(h)' = StateAt(h)
  BY <1>2, HeightInv, Appended, StatesKept DEF BoundsInv, ResumeInv, ChainInv
<1>5. Latest.MilestoneIndex <= MaxIndex
  BY DEF Decide, BoundsInv, BlocksInv
<1>6. ChainBounded' /\ IssuedEarly'
  BY <1>1, <1>2, <1>5, BoundsGrow DEF Decide, BoundsInv
<1>7. ASSUME NEW u \in Validators
      PROVE  NodeInv(u)' /\ BlocksInv(u)'
  <2>1. NodeInv(u) /\ BlocksInv(u) /\ ValidatorInv(u)
    BY DEF BoundsInv, ResumeInv
  <2>2. NodeInv(u)'
    BY <1>3, <2>1 DEF NodeInv
  <2>3. store[u] <= store'[u] /\ store'[u] \in Nat
    BY <1>4, <2>1 DEF Decide, ValidatorInv, BoundsInv, ResumeInv, Domains
  <2>4. PICK h \in 0 .. store[u] : PrunedAt(u, h)
    BY <2>1 DEF BlocksInv
  <2>5. h \in 0 .. Height /\ h \in 0 .. store'[u]
    BY <1>4, <2>1, <2>3, <2>4 DEF ValidatorInv
  <2>6. PrunedAt(u, h)'
    BY <1>3, <1>4, <2>4, <2>5 DEF PrunedAt, Confirmed
  <2>7. signed'[u] # Height' + 1
    BY <1>3, <1>4, <2>1 DEF ValidatorInv
  <2>8. base'[u] \in 1 .. Height' + 1
    BY <1>3, <1>4, <2>1 DEF BlocksInv
  <2>9. BlocksInv(u)'
    BY <1>3, <2>1, <2>5, <2>6, <2>7, <2>8 DEF BlocksInv, Confirmed
  <2> QED
    BY <2>2, <2>9
<1> QED
  BY <1>3, <1>6, <1>7 DEF BoundsInv, OtherDomains

-----------------------------------------------------------------------------
LEMMA InitBounds == Init => BoundsInv
<1> SUFFICES ASSUME Init
             PROVE  BoundsInv
  OBVIOUS
<1>1. Height = 0 /\ Latest = InitialState /\ StateAt(0) = InitialState
  BY DEF Init, Height, StateAt, Latest
<1>2. Issued = {}
  BY <1>1 DEF Issued
<1>3. ChainBounded /\ IssuedEarly
  <2>1. StateBounded(InitialState, 0)
    BY ResumeAssumption DEF StateBounded, BlocksSinceReset, InitialState, ResetTo
  <2> QED
    BY <1>1, <1>2, <2>1 DEF ChainBounded, IssuedEarly
<1>4. OtherDomains
  BY DEF Init, OtherDomains
<1>5. ASSUME NEW v \in Validators
      PROVE  NodeInv(v) /\ BlocksInv(v)
  <2>1. NodeInv(v)
    BY ResumeAssumption DEF Init, NodeInv
  <2>2. Confirmed(v, InitialState)
    BY DEF Init, Confirmed, IndicesAhead, InitialState, ResetTo
  <2>3. PrunedAt(v, 0)
    BY <1>1, <2>2 DEF Init, PrunedAt
  <2>4. BlocksInv(v)
    BY <1>1, <2>2, <2>3 DEF Init, BlocksInv, NotRead
  <2> QED
    BY <2>1, <2>4
<1>6. partial \in [Validators -> 0 .. MaxIndex] /\ failures \in 0 .. MaxFailures
  BY ResumeAssumption DEF Init
<1> QED
  BY <1>3, <1>4, <1>5, <1>6, InitInv DEF BoundsInv

LEMMA NextBounds == BoundsInv /\ [Next]_vars => BoundsInv'
<1> SUFFICES ASSUME BoundsInv, [Next]_vars
             PROVE  BoundsInv'
  OBVIOUS
<1>0. ResumeInv'
  BY NextInv DEF BoundsInv
<1>1. ASSUME failures < MaxFailures, failures' = failures + 1
      PROVE  failures' \in 0 .. MaxFailures
  BY <1>1, ResumeAssumption DEF BoundsInv
<1>2. ASSUME NEW v \in Validators, Sign(v)
      PROVE  BoundsInv'
  BY <1>0, <1>2, SignBounds
<1>3. ASSUME NEW v \in Validators, NEW block \in {"empty", "parents", "signatures"},
             Decide(v, block)
      PROVE  BoundsInv'
  BY <1>0, <1>3, DecideBounds
<1>4. ASSUME NEW v \in Validators, FetchBlock(v)
      PROVE  BoundsInv'
  BY <1>0, <1>4, FetchBlockBounds
<1>5. ASSUME NEW v \in Validators, ExecuteBlock(v)
      PROVE  BoundsInv'
  BY <1>0, <1>5, CommitBounds DEF ExecuteBlock
<1>6. ASSUME NEW v \in Validators, ReadConfirmedIndex(v)
      PROVE  BoundsInv'
  BY <1>0, <1>6, ReadConfirmedIndexBounds
<1>7. ASSUME NEW v \in Validators, ComputeWhiteFlag(v)
      PROVE  BoundsInv'
  <2>1. running[v] /\ cms[v] < store[v] /\ Commit(v)
    BY <1>7 DEF ComputeWhiteFlag, BoundsInv, ResumeInv, ValidatorInv
  <2>2. index(v) <= cmi[v] + 1
    <3>1. index(v) \in Nat
      BY <2>1, RunningState DEF BoundsInv, StateKnown, index
    <3>2. index(v) <= whiteFlag[v] + 1
      BY <1>7 DEF ComputeWhiteFlag, WhiteFlagSucceeds
    <3>3. whiteFlag[v] \in NotRead .. cmi[v] /\ cmi[v] \in Nat
      BY DEF BoundsInv, BlocksInv, NodeInv
    <3> QED
      BY <3>1, <3>2, <3>3 DEF NotRead
  <2> QED
    BY <1>0, <2>1, <2>2, CommitBounds
<1>8. ASSUME NEW v \in Validators, WhiteFlagFails(v)
      PROVE  BoundsInv'
  BY <1>0, <1>8, StoppedBounds DEF WhiteFlagFails, BoundsInv
<1>9. ASSUME NEW v \in Validators, WhiteFlagTimeout(v) \/ Crash(v)
      PROVE  BoundsInv'
  BY <1>0, <1>1, <1>9, StoppedBounds DEF WhiteFlagTimeout, Crash
<1>10. ASSUME NEW v \in Validators, BroadcastPartial(v)
       PROVE  BoundsInv'
  BY <1>0, <1>10, BroadcastPartialBounds
<1>11. ASSUME NEW v \in Validators, NEW ms \in submitting[v], submitMilestoneBlock(v, ms)
       PROVE  BoundsInv'
  BY <1>0, <1>11, SubmitBounds DEF submitMilestoneBlock, BoundsInv
<1>12. ASSUME NEW v \in Validators, NEW ms \in submitting[v], SubmitAlreadyPresent(v, ms)
       PROVE  BoundsInv'
  BY <1>0, <1>1, <1>12, SubmitBounds DEF SubmitAlreadyPresent
<1>13. ASSUME NEW v \in Validators, NEW ms \in submitting[v], SubmitFails(v, ms)
       PROVE  BoundsInv'
  BY <1>0, <1>1, <1>13, StoppedBounds DEF SubmitFails
<1>14. ASSUME NEW v \in Validators, NEW ms \in tangle, NodeReceives(v, ms)
       PROVE  BoundsInv'
  BY <1>0, <1>14, NodeBounds
<1>15. ASSUME NEW v \in Validators, NodeConfirms(v)
       PROVE  BoundsInv'
  BY <1>0, <1>15, NodeBounds
<1>16. ASSUME NEW v \in Validators, Bootstrap(v)
       PROVE  BoundsInv'
  BY <1>0, <1>16, BootstrapBounds
<1>17. ASSUME NEW v \in Validators, Resume(v)
       PROVE  BoundsInv'
  BY <1>0, <1>17, ResumeBounds
<1>18. CASE UNCHANGED vars
  <2>1. /\ OtherDomains' /\ chain' = chain /\ tangle' = tangle /\ partial' = partial
        /\ failures' = failures
        /\ \A u \in Validators : SameNode(u)
    BY <1>18 DEF vars, nodeVars, diskVars, memoryVars, BoundsInv, OtherDomains, SameNode, Same
  <2>2. /\ Height' = Height /\ Latest' = Latest
        /\ \A h : StateAt(h)' = StateAt(h)
        /\ ChainBounded' /\ IssuedEarly'
    BY <2>1, BoundsUnchanged
  <2>3. ASSUME NEW u \in Validators
        PROVE  NodeInv(u)' /\ BlocksInv(u)'
    <3>1. NodeInv(u) /\ BlocksInv(u) /\ SameNode(u)
      BY <2>1 DEF BoundsInv
    <3>2. NodeInv(u)'
      BY <2>1, <3>1 DEF NodeInv, SameNode
    <3>3. \A h : PrunedAt(u, h) => PrunedAt(u, h)'
      BY <2>2, <3>1 DEF PrunedAt, Confirmed, SameNode
    <3>4. BlocksInv(u)'
      BY <2>2, <3>1, <3>3 DEF BlocksInv, Confirmed, SameNode, Same
    <3> QED
      BY <3>2, <3>4
  <2> QED
    BY <1>0, <2>1, <2>2, <2>3 DEF BoundsInv
<1> QED
  BY <1>2, <1>3, <1>4, <1>5, <1>6, <1>7, <1>8, <1>9, <1>10, <1>11, <1>12, <1>13, <1>14,
     <1>15, <1>16, <1>17, <1>18 DEF Next

LEMMA AlwaysBoundsInv == Spec => []BoundsInv
  BY InitBounds, NextBounds, PTL DEF Spec

(* Heights and indices stay in range: a block store never loses its end, a *)
(* node confirms no milestone it has not seen, and the white flag is       *)
(* computed for an index the node has confirmed (app.go 243, inx.go).      *)
THEOREM ResumeTypeCorrect == Spec => []TypeOK
<1>1. ASSUME BoundsInv
      PROVE  TypeOK
  <2>1. ASSUME NEW v \in Validators
        PROVE  /\ cmi[v] \in 0 .. lmi[v] /\ lmi[v] \in 0 .. MaxIndex
               /\ store[v] \in 0 .. Height /\ signed[v] \in 0 .. Height + 1
               /\ cms[v] \in 0 .. store[v]
               /\ base[v] \in 1 .. Height + 1
               /\ whiteFlag[v] \in NotRead .. cmi[v]
    <3>1. NodeInv(v) /\ BlocksInv(v) /\ ValidatorInv(v) /\ Height \in Nat
      BY <1>1, HeightInv DEF BoundsInv, ResumeInv
    <3>2. store[v] \in 0 .. Height /\ signed[v] \in 0 .. Height + 1 /\ cms[v] \in 0 .. store[v]
      BY <3>1 DEF ValidatorInv
    <3> QED
      BY <3>1, <3>2 DEF NodeInv, BlocksInv
  <2> QED
    BY <1>1, <2>1 DEF TypeOK, BoundsInv, ChainBounded
<1> QED
  BY <1>1, AlwaysBoundsInv, PTL

-----------------------------------------------------------------------------
(* A milestone names the one before it, from which it is at most one       *)
(* milestone's worth of blocks away.                                       *)
LEMMA NextMilestone ==
  ASSUME BoundsInv, NEW ms \in Issued, NEW next \in Issued, next.Index = ms.Index + 1
  PROVE  next.MilestoneHeight <= ms.MilestoneHeight + MaxBlocks
<1>1. ms.Index \in 1 .. MaxIndex
  BY IssuedIndex DEF BoundsInv
<1>2. Known(next)
  BY IssuedKnown DEF BoundsInv, ResumeInv
<1> DEFINE s == StateAt(next.MilestoneHeight)
<1>3. /\ s.MilestoneHeight = next.MilestoneHeight
      /\ s.MilestoneIndex = next.Index
      /\ s.LastMilestone = next.PreviousMilestoneID
  BY <1>2 DEF Known, NewStateFromMilestone, ResetTo
<1>4. StateBounded(s, next.MilestoneHeight)
  BY <1>2 DEF Known, BoundsInv, ChainBounded
<1> HIDE DEF s
<1>5. /\ next.PreviousMilestoneID \in Issued
      /\ next.PreviousMilestoneID.Index = ms.Index
      /\ next.MilestoneHeight <= next.PreviousMilestoneID.MilestoneHeight + MaxBlocks
  BY <1>1, <1>3, <1>4 DEF StateBounded
<1>6. next.PreviousMilestoneID = ms
  BY <1>5 DEF BoundsInv, ResumeInv, ChainInv, IssuedOnce
<1> QED
  BY <1>5, <1>6

(* A validator whose node has confirmed a milestone has not executed more  *)
(* blocks than the next three milestones have: the essence of the third is *)
(* not computed before.                                                    *)
LEMMA ThreeMilestones ==
  ASSUME BoundsInv, NEW v \in Validators, NEW ms \in Issued, ms.Index = cmi[v],
         NEW h \in 0 .. Height, Confirmed(v, StateAt(h))
  PROVE  h <= ms.MilestoneHeight + 3 * MaxBlocks - 2
<1>1. Height \in Nat /\ MaxBlocks \in Nat /\ MaxBlocks >= 2
  BY HeightInv, ResumeAssumption DEF BoundsInv
<1>2. ms.Index \in 1 .. MaxIndex /\ ms.MilestoneHeight \in 0 .. Height
  BY IssuedIndex, IssuedKnown DEF BoundsInv, ResumeInv, Known
<1>3. PICK s : s = StateAt(h)
  OBVIOUS
<1>4. StateKnown(s, h) /\ StateBounded(s, h) /\ Confirmed(v, s)
  BY <1>3 DEF BoundsInv, ResumeInv, ChainInv, ChainKnown, ChainBounded
<1>5. s.MilestoneIndex \in Nat /\ s.MilestoneHeight \in Nat
  BY <1>1, <1>4 DEF StateKnown
<1>6. CASE s.MilestoneIndex <= ms.Index
  <2>1. h < ms.MilestoneHeight + MaxBlocks
    BY <1>3, <1>6 DEF BoundsInv, IssuedEarly
  <2> QED
    BY <1>1, <1>2, <2>1
<1>7. CASE s.MilestoneIndex = ms.Index + 1
  <2>1. /\ s.LastMilestone \in Issued
        /\ s.LastMilestone.Index = ms.Index
        /\ s.MilestoneHeight <= s.LastMilestone.MilestoneHeight + MaxBlocks
    BY <1>2, <1>4, <1>7 DEF StateBounded
  <2>2. s.LastMilestone = ms
    BY <2>1 DEF BoundsInv, ResumeInv, ChainInv, IssuedOnce
  <2>3. h <= s.MilestoneHeight + MaxBlocks - 1
    BY <1>1, <1>4, <1>5 DEF StateBounded, BlocksSinceReset
  <2> QED
    BY <1>1, <1>2, <1>5, <2>1, <2>2, <2>3
<1>8. CASE s.MilestoneIndex = ms.Index + 2
  <2>1. PICK last \in Issued : /\ last.Index = ms.Index + 1
                               /\ s.MilestoneHeight <= last.MilestoneHeight + MaxBlocks
    BY <1>2, <1>4, <1>8 DEF StateBounded
  <2>2. last.MilestoneHeight <= ms.MilestoneHeight + MaxBlocks /\ last.MilestoneHeight \in Nat
    BY <1>1, <2>1, NextMilestone, IssuedKnown DEF BoundsInv, ResumeInv, Known
  <2>3. s.Milestone = Nil
    BY <1>2, <1>4, <1>8 DEF Confirmed, IndicesAhead
  <2>4. h <= s.MilestoneHeight + MaxBlocks - 2
    BY <1>1, <1>4, <1>5, <2>3 DEF StateBounded, BlocksSinceReset
  <2> QED
    BY <1>1, <1>2, <1>5, <2>1, <2>2, <2>4
<1>9. s.MilestoneIndex <= ms.Index + 2
  BY <1>2, <1>4, <1>5 DEF Confirmed, IndicesAhead
<1> QED
  BY <1>2, <1>5, <1>6, <1>7, <1>8, <1>9

(* A validator that has signed the last block of its store still has the   *)
(* blocks it needs to resume, wherever it stops, if the pruning interval   *)
(* is three milestones' worth of blocks, less three: it has executed no    *)
(* more than that since the newest milestone its node has confirmed, or,   *)
(* if the next one started above the signed height, since one milestone    *)
(* (components/decoo/coordinator.go 36, app.go 243).                       *)
THEOREM SignersRetainCorrect ==
  ASSUME RetainsThreeMilestones
  PROVE  Spec => []SignersRetainBlocks
<1>1. ASSUME BoundsInv
      PROVE  SignersRetainBlocks
  <2>1. SUFFICES ASSUME NEW v \in Validators, signed[v] >= store[v],
                        NEW height \in ResumeHeights(v)
                 PROVE  base[v] <= height + 1
    BY DEF SignersRetainBlocks, Retained
  <2>2. PICK ms \in ResumeMilestones(v) : height = ms.MilestoneHeight
    BY DEF ResumeHeights
  <2>3. /\ ms \in tangle /\ ms \in Issued
        /\ ms.Index <= cmi[v]
        /\ \A other \in Compatible(v) : other.Index <= ms.Index
    BY <1>1, <2>2 DEF ResumeMilestones, Compatible, BoundsInv, ResumeInv
  <2>4. NodeInv(v) /\ BlocksInv(v) /\ ValidatorInv(v) /\ Height \in Nat
    BY <1>1, HeightInv DEF BoundsInv, ResumeInv
  <2>5. ms.Index \in 1 .. MaxIndex /\ height \in 0 .. Height
    BY <1>1, <2>2, <2>3, IssuedIndex, IssuedKnown DEF BoundsInv, ResumeInv, Known
  <2>6. MaxBlocks \in Nat /\ MaxBlocks >= 2 /\ maxRetainBlocks \in Nat
    BY ResumeAssumption
  <2>7. PICK h \in 0 .. store[v] : PrunedAt(v, h)
    BY <2>4 DEF BlocksInv
  <2>8. h \in 0 .. Height /\ base[v] \in Nat
    BY <2>4, <2>7 DEF ValidatorInv, BlocksInv
  <2>9. h <= height + 3 * MaxBlocks - 2
    <3>1. CASE ms.Index = cmi[v]
      BY <1>1, <2>2, <2>3, <2>7, <2>8, <3>1, ThreeMilestones DEF PrunedAt
    <3>2. CASE ms.Index < cmi[v]
      <4>1. cmi[v] \in Nat
        BY <2>4 DEF NodeInv
      <4>2. PICK next \in tangle : next.Index = ms.Index + 1
        BY <2>4, <2>5, <3>2, <4>1 DEF NodeInv
      <4>3. next \in Issued
        BY <1>1, <4>2 DEF BoundsInv, ResumeInv
      <4>4. next.MilestoneHeight \in Nat /\ next.MilestoneHeight <= height + MaxBlocks
        BY <1>1, <2>2, <2>3, <2>4, <4>2, <4>3, NextMilestone, IssuedKnown
           DEF BoundsInv, ResumeInv, Known
      <4>5. next \notin Compatible(v)
        BY <2>3, <2>5, <4>2
      <4>6. next.Index <= cmi[v]
        BY <2>5, <3>2, <4>1, <4>2
      <4>7. ~ (next.MilestoneHeight <= signed[v] - 1)
        BY <4>2, <4>5, <4>6 DEF Compatible, tendermintHeight
      <4>8. signed[v] \in Nat /\ store[v] \in Nat
        BY <2>4 DEF ValidatorInv
      <4> QED
        BY <2>1, <2>5, <2>6, <2>7, <4>4, <4>7, <4>8
    <3> QED
      BY <2>3, <2>4, <2>5, <3>1, <3>2 DEF NodeInv
  <2> QED
    BY <2>5, <2>6, <2>7, <2>8, <2>9 DEF PrunedAt, RetainsThreeMilestones
<1> QED
  BY <1>1, AlwaysBoundsInv, PTL
=============================================================================
