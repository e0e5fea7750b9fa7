----------------------------- MODULE ResumeProofs -----------------------------
(***************************************************************************)
(* Proofs about Resume, for every set of validators, every quorum system,  *)
(* threshold, pruning interval and bound.                                  *)
(***************************************************************************)
EXTENDS Resume, SequenceTheorems, TLAPS

(* The chain is a sequence.                                                *)
ChainSeq == \E S : chain \in Seq(S)

(* The milestone can be resumed from: the state taken back from it is the  *)
(* one of the chain at its height.                                         *)
Known(ms) ==
    /\ ms.MilestoneHeight \in 0 .. Height
    /\ StateAt(ms.MilestoneHeight) = NewStateFromMilestone(ms)

(* A state, and the essence in it, know where the state was reset.         *)
StateKnown(s, height) ==
    /\ s = [ MilestoneHeight |-> s.MilestoneHeight, MilestoneIndex |-> s.MilestoneIndex,
             LastMilestone |-> s.LastMilestone, Since |-> s.MilestoneHeight,
             Milestone |-> s.Milestone ]
    /\ s.MilestoneIndex \in Nat
    /\ s.MilestoneHeight \in 0 .. height
    /\ StateAt(s.MilestoneHeight) =
          ResetTo(s.MilestoneHeight, s.MilestoneIndex, s.LastMilestone)
    /\ s.Milestone # Nil => Known(s.Milestone) /\ s.Milestone.Index = s.MilestoneIndex

(* Each block leads from one state of the chain to the next.               *)
ChainSteps ==
    \A h \in 1 .. Height : chain[h].state = Executed(StateAt(h - 1), chain[h].block, h)

ChainKnown == \A h \in 0 .. Height : StateKnown(StateAt(h), h)

(* The issued milestones are older than the current one, and there is one  *)
(* for each index.                                                         *)
IssuedOnce ==
    /\ \A ms \in Issued : ms.Index \in Nat /\ ms.Index < Latest.MilestoneIndex
    /\ \A m1, m2 \in Issued : m1.Index = m2.Index => m1 = m2

ChainInv == ChainSeq /\ ChainSteps /\ ChainKnown /\ IssuedOnce

(* What a validator has stored and executed is part of the chain, and it   *)
(* submits only what the chain has issued.                                 *)
ValidatorInv(v) ==
    /\ store[v] \in 0 .. Height
    /\ signed[v] \in 0 .. store[v] + 1
    /\ cms[v] \in 0 .. store[v]
    /\ whiteFlag[v] # NotRead => running[v] /\ cms[v] < store[v]
    /\ submitting[v] \subseteq Issued
    /\ running[v] => state[v] = StateAt(cms[v])

Domains ==
    /\ DOMAIN signed = Validators
    /\ DOMAIN store = Validators
    /\ DOMAIN running = Validators
    /\ DOMAIN cms = Validators
    /\ DOMAIN state = Validators
    /\ DOMAIN whiteFlag = Validators
    /\ DOMAIN submitting = Validators

ResumeInv ==
    /\ Domains
    /\ ChainInv
    /\ \A v \in Validators : ValidatorInv(v)
    /\ tangle \subseteq Issued

(* The step leaves the validator alone.                                    *)
Same(u) ==
    /\ signed'[u] = signed[u]
    /\ store'[u] = store[u]
    /\ running'[u] = running[u]
    /\ cms'[u] = cms[u]
    /\ state'[u] = state[u]
    /\ whiteFlag'[u] = whiteFlag[u]
    /\ submitting'[u] = submitting[u]

-----------------------------------------------------------------------------
(* The chain.                                                              *)

LEMMA HeightNat == ChainSeq => Height \in Nat
  BY LenProperties DEF ChainSeq, Height

(* A new block leaves the others and their states as they are.             *)
LEMMA Appended ==
  ASSUME ChainSeq, NEW element, chain' = Append(chain, element)
  PROVE  /\ ChainSeq'
         /\ Height' = Height + 1
         /\ \A h \in 1 .. Height : chain'[h] = chain[h]
         /\ chain'[Height + 1] = element
<1>1. PICK S : chain \in Seq(S)
  BY DEF ChainSeq
<1>2. chain \in Seq(S \cup {element})
  BY <1>1, SeqMonotonic
<1>3. /\ chain' \in Seq(S \cup {element})
      /\ Len(chain') = Len(chain) + 1
      /\ \A h \in 1 .. Len(chain) : chain'[h] = chain[h]
      /\ chain'[Len(chain) + 1] = element
  BY <1>2, AppendProperties
<1> QED
  BY <1>3 DEF ChainSeq, Height

LEMMA StatesKept ==
  ASSUME ChainSeq, NEW b, chain' = Append(chain, b)
  PROVE  /\ \A h \in 0 .. Height : StateAt(h)' = StateAt(h)
         /\ Latest' = b.state
<1>1. Height \in Nat
  BY HeightNat
<1>2. /\ Height' = Height + 1
      /\ \A h \in 1 .. Height : chain'[h] = chain[h]
      /\ chain'[Height + 1] = b
  BY Appended
<1>3. ASSUME NEW h \in 0 .. Height
      PROVE  StateAt(h)' = StateAt(h)
  <2>1. CASE h = 0
    BY <2>1 DEF StateAt
  <2>2. CASE h # 0
    <3>1. h \in 1 .. Height
      BY <1>1, <2>2
    <3> QED
      BY <1>2, <2>2, <3>1 DEF StateAt
  <2> QED
    BY <2>1, <2>2
<1>4. Latest' = b.state
  BY <1>1, <1>2 DEF StateAt, Latest
<1> QED
  BY <1>3, <1>4

(* What is known of a state or a milestone stays known.                    *)
LEMMA KnownKept ==
  ASSUME ChainSeq, NEW b, chain' = Append(chain, b)
  PROVE  /\ \A ms : Known(ms) => Known(ms)'
         /\ \A h \in 0 .. Height : StateKnown(StateAt(h), h) => StateKnown(StateAt(h), h)'
<1>1. Height \in Nat /\ Height' = Height + 1
  BY HeightNat, Appended
<1>2. \A ms : Known(ms) => Known(ms)'
  BY <1>1, StatesKept DEF Known
<1> QED
  BY <1>1, <1>2, StatesKept DEF StateKnown

(* The state that a block leads to is known.                               *)
LEMMA ExecutedKnown ==
  ASSUME ChainInv, NEW b, NEW s, s = Executed(Latest, b, Height + 1),
         chain' = Append(chain, [block |-> b, state |-> s])
  PROVE  StateKnown(s, Height)'
<1>1. Height \in Nat /\ Height' = Height + 1 /\ ChainSeq
  BY HeightNat, Appended DEF ChainInv
<1>2. StateKnown(Latest, Height)
  BY <1>1 DEF ChainInv, ChainKnown, Latest
<1>3. \A h \in 0 .. Height : StateAt(h)' = StateAt(h)
  BY <1>1, StatesKept
<1>4. Latest' = s
  BY <1>1, StatesKept
<1>5. \A ms : Known(ms) => Known(ms)'
  BY <1>1, KnownKept
<1>6. CASE CreatesEssence(Latest, b)
  <2> DEFINE ms == Essence(Latest, Height + 1)
  <2>1. s = [Latest EXCEPT !.Milestone = ms]
    BY <1>6 DEF Executed
  <2>2. Known(ms)
    BY <1>2 DEF Known, Essence, StateKnown, NewStateFromMilestone
  <2> QED
    <3>1. /\ s.MilestoneHeight = Latest.MilestoneHeight
          /\ s.MilestoneIndex = Latest.MilestoneIndex
          /\ s.LastMilestone = Latest.LastMilestone
          /\ s.Since = Latest.MilestoneHeight
          /\ s.Milestone = ms
          /\ s = [ MilestoneHeight |-> s.MilestoneHeight, MilestoneIndex |-> s.MilestoneIndex,
                   LastMilestone |-> s.LastMilestone, Since |-> s.MilestoneHeight,
                   Milestone |-> s.Milestone ]
      BY <1>2, <2>1 DEF StateKnown
    <3>2. ms.Index = Latest.MilestoneIndex
      BY DEF Essence
    <3> HIDE DEF ms
    <3> QED
      BY <1>1, <1>2, <1>3, <1>5, <2>2, <3>1, <3>2 DEF StateKnown
<1>7. CASE ~ CreatesEssence(Latest, b) /\ IssuesMilestone(Latest, b)
  <2>1. s = ResetTo(Height + 1, Latest.MilestoneIndex + 1, Latest.Milestone)
    BY <1>7 DEF Executed
  <2> QED
    <3>1. s.MilestoneHeight = Height'
      BY <1>1, <2>1 DEF ResetTo
    <3>2. StateAt(s.MilestoneHeight)' = s
      BY <1>4, <3>1 DEF Latest, StateAt
    <3> QED
      BY <1>1, <1>2, <2>1, <3>1, <3>2 DEF StateKnown, ResetTo
<1>8. CASE ~ CreatesEssence(Latest, b) /\ ~ IssuesMilestone(Latest, b)
  <2>1. s = Latest
    BY <1>8 DEF Executed
  <2> QED
    BY <1>1, <1>2, <1>3, <1>5, <2>1 DEF StateKnown
<1> QED
  BY <1>6, <1>7, <1>8

(* The milestones issued, without the set constructors.                    *)
LEMMA IssuedAt ==
  \A ms : ms \in Issued <=>
      \E h \in 1 .. Height : /\ IssuesMilestone(StateAt(h - 1), chain[h].block)
                            /\ ms = StateAt(h - 1).Milestone
  BY DEF Issued

LEMMA IssuedKnown ==
  ASSUME ChainInv
  PROVE  \A ms \in Issued : Known(ms)
<1>1. Height \in Nat
  BY HeightNat DEF ChainInv
<1>2. SUFFICES ASSUME NEW h \in 1 .. Height, IssuesMilestone(StateAt(h - 1), chain[h].block)
               PROVE  Known(StateAt(h - 1).Milestone)
  BY IssuedAt
<1>3. h - 1 \in 0 .. Height
  BY <1>1
<1> QED
  BY <1>2, <1>3 DEF ChainInv, ChainKnown, StateKnown, IssuesMilestone

(* A new block adds at most the milestone it issues.                       *)
LEMMA IssuedGrows ==
  ASSUME ChainInv, NEW b, NEW s, chain' = Append(chain, [block |-> b, state |-> s])
  PROVE  /\ Issued \subseteq Issued'
         /\ \A ms \in Issued' :
               ms \in Issued \/ (IssuesMilestone(Latest, b) /\ ms = Latest.Milestone)
<1>1. Height \in Nat /\ Height' = Height + 1 /\ ChainSeq
  BY HeightNat, Appended DEF ChainInv
<1>2. /\ \A h \in 1 .. Height : chain'[h] = chain[h]
      /\ chain'[Height + 1].block = b
  <2> DEFINE element == [block |-> b, state |-> s]
  <2>1. chain' = Append(chain, element) /\ element.block = b
    OBVIOUS
  <2> HIDE DEF element
  <2>2. \A h \in 1 .. Height : chain'[h] = chain[h]
    BY <1>1, <2>1, Appended
  <2>3. chain'[Height + 1] = element
    BY <1>1, <2>1, Appended
  <2> QED
    BY <2>1, <2>2, <2>3
<1>3. \A h \in 0 .. Height : StateAt(h)' = StateAt(h)
  BY <1>1, StatesKept
<1>4. \A ms : ms \in Issued' <=>
        \E h \in 1 .. Height + 1 : /\ IssuesMilestone(StateAt(h - 1)', chain'[h].block)
                                  /\ ms = StateAt(h - 1)'.Milestone
  BY <1>1 DEF Issued
<1>5. \A h \in 1 .. Height + 1 : StateAt(h - 1)' = StateAt(h - 1)
  BY <1>1, <1>3
<1>6. \A ms : ms \in Issued' <=>
        \E h \in 1 .. Height + 1 : /\ IssuesMilestone(StateAt(h - 1), chain'[h].block)
                                  /\ ms = StateAt(h - 1).Milestone
  BY <1>4, <1>5
<1>7. ASSUME NEW ms \in Issued
      PROVE  ms \in Issued'
  <2>1. PICK h \in 1 .. Height : /\ IssuesMilestone(StateAt(h - 1), chain[h].block)
                                 /\ ms = StateAt(h - 1).Milestone
    BY IssuedAt
  <2>2. h \in 1 .. Height + 1
    BY <1>1, <2>1
  <2>4. chain'[h] = chain[h]
    BY <1>2, <2>1
  <2>3. IssuesMilestone(StateAt(h - 1), chain'[h].block)
    BY <2>1, <2>4
  <2> QED
    BY <1>6, <2>1, <2>2, <2>3
<1>8. ASSUME NEW ms \in Issued', ms \notin Issued
      PROVE  IssuesMilestone(Latest, b) /\ ms = Latest.Milestone
  <2>1. PICK h \in 1 .. Height + 1 : /\ IssuesMilestone(StateAt(h - 1), chain'[h].block)
                                     /\ ms = StateAt(h - 1).Milestone
    BY <1>6
  <2>2. ASSUME h \in 1 .. Height
        PROVE  FALSE
    <3>1. chain'[h] = chain[h]
      BY <1>2, <2>2
    <3> QED
      BY <1>8, <2>1, <2>2, <3>1, IssuedAt
  <2>3. h = Height + 1
    BY <1>1, <2>2
  <2>4. StateAt(h - 1) = Latest
    BY <1>1, <2>3 DEF Latest
  <2> QED
    BY <1>2, <2>1, <2>3, <2>4
<1> QED
  BY <1>7, <1>8

(* Deciding a block keeps what is known of the chain.                      *)
LEMMA ChainGrows ==
  ASSUME ChainInv, NEW b, NEW s, s = Executed(Latest, b, Height + 1),
         chain' = Append(chain, [block |-> b, state |-> s])
  PROVE  ChainInv'
<1>1. Height \in Nat /\ Height' = Height + 1 /\ ChainSeq /\ ChainSeq'
  BY HeightNat, Appended DEF ChainInv
<1>2. \A h \in 0 .. Height : StateAt(h)' = StateAt(h)
  BY <1>1, StatesKept
<1>3. StateKnown(Latest, Height) /\ StateKnown(s, Height)'
  <2>1. StateKnown(Latest, Height)
    BY <1>1 DEF ChainInv, ChainKnown, Latest
  <2> QED
    BY <2>1, ExecutedKnown
<1>4. Latest' = s
  BY <1>1, StatesKept
<1>5. ChainSteps'
  <2> DEFINE element == [block |-> b, state |-> s]
  <2>1. chain' = Append(chain, element) /\ element.block = b /\ element.state = s
    OBVIOUS
  <2> HIDE DEF element
  <2>2. \A h \in 1 .. Height : chain'[h] = chain[h]
    BY <1>1, <2>1, Appended
  <2>3. chain'[Height + 1] = element
    BY <1>1, <2>1, Appended
  <2>4. SUFFICES ASSUME NEW h \in 1 .. Height + 1
                 PROVE  chain'[h].state = Executed(StateAt(h - 1)', chain'[h].block, h)
    BY <1>1 DEF ChainSteps
  <2>5. StateAt(h - 1)' = StateAt(h - 1)
    BY <1>1, <1>2
  <2>6. CASE h \in 1 .. Height
    BY <2>2, <2>5, <2>6 DEF ChainInv, ChainSteps
  <2>7. CASE h = Height + 1
    <3>1. StateAt(h - 1) = Latest
      BY <1>1, <2>7 DEF Latest
    <3> QED
      BY <2>1, <2>3, <2>5, <2>7, <3>1
  <2>8. h \in 1 .. Height \/ h = Height + 1
    BY <1>1
  <2> QED
    BY <2>6, <2>7, <2>8
<1>6. ChainKnown'
  <2>1. SUFFICES ASSUME NEW h \in 0 .. Height + 1
                 PROVE  StateKnown(StateAt(h), h)'
    BY <1>1 DEF ChainKnown
  <2>2. CASE h \in 0 .. Height
    BY <1>1, <2>2, KnownKept DEF ChainInv, ChainKnown
  <2>3. CASE h = Height'
    <3>1. StateAt(h)' = s
      BY <1>4, <2>3 DEF Latest, StateAt
    <3> QED
      BY <1>3, <2>3, <3>1 DEF StateKnown
  <2> QED
    BY <1>1, <2>2, <2>3
<1>7. IssuedOnce'
  <2>1. \A ms \in Issued' : ms \in Issued \/ (IssuesMilestone(Latest, b) /\ ms = Latest.Milestone)
    BY IssuedGrows
  <2>2. CASE IssuesMilestone(Latest, b)
    <3>1. s.MilestoneIndex = Latest.MilestoneIndex + 1
      BY <2>2 DEF Executed, CreatesEssence, IssuesMilestone, ResetTo
    <3>2. Latest.MilestoneIndex \in Nat /\ Latest.Milestone.Index = Latest.MilestoneIndex
      BY <1>3, <2>2 DEF StateKnown, IssuesMilestone
    <3> QED
      BY <1>4, <2>1, <3>1, <3>2 DEF ChainInv, IssuedOnce
  <2>3. CASE ~ IssuesMilestone(Latest, b)
    <3>1. s.MilestoneIndex = Latest.MilestoneIndex
      BY <1>3, <2>3 DEF Executed, StateKnown
    <3> QED
      BY <1>4, <2>1, <2>3, <3>1 DEF ChainInv, IssuedOnce
  <2> QED
    BY <2>2, <2>3
<1> QED
  BY <1>1, <1>5, <1>6, <1>7 DEF ChainInv

(* Whoever has no part in a decision does not change the chain.            *)
LEMMA ChainUnchanged ==
  ASSUME ChainInv, chain' = chain
  PROVE  ChainInv' /\ Issued' = Issued /\ Height' = Height
<1>1. Height' = Height /\ Latest' = Latest
  BY DEF Height, Latest, StateAt
<1>2. \A h : StateAt(h)' = StateAt(h)
  BY DEF StateAt
<1>3. Issued' = Issued
  BY <1>1, <1>2 DEF Issued
<1>4. ChainSeq' /\ ChainSteps'
  BY <1>1, <1>2 DEF ChainInv, ChainSeq, ChainSteps
<1>5. ChainKnown'
  BY <1>1, <1>2 DEF ChainInv, ChainKnown, StateKnown, Known
<1>6. IssuedOnce'
  BY <1>1, <1>3 DEF ChainInv, IssuedOnce
<1> QED
  BY <1>1, <1>3, <1>4, <1>5, <1>6 DEF ChainInv

-----------------------------------------------------------------------------
(* The steps.                                                              *)

(* A step of one validator that leaves the chain as it is.                 *)
LEMMA OneValidator ==
  ASSUME ResumeInv, NEW v \in Validators, chain' = chain, Domains', tangle' \subseteq Issued,
         \A u \in Validators \ {v} : Same(u), ValidatorInv(v)'
  PROVE  ResumeInv'
<1>1. ChainInv' /\ Issued' = Issued /\ Height' = Height
  BY ChainUnchanged DEF ResumeInv
<1>2. ASSUME NEW u \in Validators \ {v}
      PROVE  ValidatorInv(u)'
  BY <1>1, <1>2 DEF ResumeInv, ValidatorInv, Same, StateAt
<1> QED
  BY <1>1, <1>2 DEF ResumeInv

LEMMA HeightInv == ResumeInv => Height \in Nat
  BY HeightNat DEF ResumeInv, ChainInv

LEMMA SignStep ==
  ASSUME ResumeInv, NEW v \in Validators, Sign(v)
  PROVE  ResumeInv'
<1>1. chain' = chain /\ tangle' \subseteq Issued
  BY DEF Sign, nodeVars, ResumeInv
<1>2. Domains' /\ \A u \in Validators \ {v} : Same(u)
  BY DEF Sign, memoryVars, Same, ResumeInv, Domains
<1>3. ValidatorInv(v)'
  <2>1. Issued' = Issued /\ Height' = Height
    BY <1>1, ChainUnchanged DEF ResumeInv
  <2> QED
    BY <1>1, <2>1, HeightInv
       DEF Sign, CaughtUp, memoryVars, ResumeInv, Domains, ValidatorInv, StateAt
<1> QED
  BY <1>1, <1>2, <1>3, OneValidator

(* Stopping forgets everything but what is on disk.                        *)
LEMMA StoppedStep ==
  ASSUME ResumeInv, NEW v \in Validators, Stopped(v)
  PROVE  ResumeInv'
<1>1. chain' = chain /\ tangle' \subseteq Issued
  BY DEF Stopped, nodeVars, ResumeInv
<1>2. Domains' /\ \A u \in Validators \ {v} : Same(u)
  BY DEF Stopped, diskVars, Same, ResumeInv, Domains
<1>3. ValidatorInv(v)'
  <2>1. Issued' = Issued /\ Height' = Height
    BY <1>1, ChainUnchanged DEF ResumeInv
  <2> QED
    BY <2>1, HeightInv DEF Stopped, diskVars, ResumeInv, Domains, ValidatorInv
<1> QED
  BY <1>1, <1>2, <1>3, OneValidator

LEMMA FetchBlockStep ==
  ASSUME ResumeInv, NEW v \in Validators, FetchBlock(v)
  PROVE  ResumeInv'
<1>1. chain' = chain /\ tangle' \subseteq Issued
  BY DEF FetchBlock, Available, nodeVars, ResumeInv
<1>2. Domains' /\ \A u \in Validators \ {v} : Same(u)
  BY DEF FetchBlock, Available, diskVars, memoryVars, Same, ResumeInv, Domains
<1>3. ValidatorInv(v)'
  <2>1. Issued' = Issued /\ Height' = Height
    BY <1>1, ChainUnchanged DEF ResumeInv
  <2> QED
    BY <1>1, <2>1, HeightInv
       DEF FetchBlock, Available, diskVars, memoryVars, ResumeInv, Domains, ValidatorInv, StateAt
<1> QED
  BY <1>1, <1>2, <1>3, OneValidator

LEMMA ReadConfirmedIndexStep ==
  ASSUME ResumeInv, NEW v \in Validators, ReadConfirmedIndex(v)
  PROVE  ResumeInv'
<1>1. chain' = chain /\ tangle' \subseteq Issued
  BY DEF ReadConfirmedIndex, NotRead, nodeVars, ResumeInv
<1>2. Domains' /\ \A u \in Validators \ {v} : Same(u)
  BY DEF ReadConfirmedIndex, NotRead, diskVars, memoryVars, Same, ResumeInv, Domains
<1>3. ValidatorInv(v)'
  <2>1. Issued' = Issued /\ Height' = Height
    BY <1>1, ChainUnchanged DEF ResumeInv
  <2> QED
    BY <1>1, <2>1, HeightInv
       DEF ReadConfirmedIndex, NotRead, diskVars, memoryVars, ResumeInv, Domains, ValidatorInv, StateAt
<1> QED
  BY <1>1, <1>2, <1>3, OneValidator

LEMMA BroadcastPartialStep ==
  ASSUME ResumeInv, NEW v \in Validators, BroadcastPartial(v)
  PROVE  ResumeInv'
<1>1. chain' = chain /\ tangle' \subseteq Issued
  BY DEF BroadcastPartial, nodeVars, ResumeInv
<1>2. Domains' /\ \A u \in Validators \ {v} : Same(u)
  BY DEF BroadcastPartial, diskVars, memoryVars, Same, ResumeInv, Domains
<1>3. ValidatorInv(v)'
  <2>1. Issued' = Issued /\ Height' = Height
    BY <1>1, ChainUnchanged DEF ResumeInv
  <2> QED
    BY <1>1, <2>1, HeightInv
       DEF BroadcastPartial, diskVars, memoryVars, ResumeInv, Domains, ValidatorInv, StateAt
<1> QED
  BY <1>1, <1>2, <1>3, OneValidator

LEMMA SubmitStep ==
  ASSUME ResumeInv, NEW v \in Validators, NEW ms, ms \in submitting[v], Submitted(v, ms),
         tangle' \subseteq tangle \cup {ms}
  PROVE  ResumeInv'
<1>1. chain' = chain /\ tangle' \subseteq Issued
  BY DEF Submitted, ResumeInv, ValidatorInv
<1>2. Domains' /\ \A u \in Validators \ {v} : Same(u)
  BY DEF Submitted, diskVars, memoryVars, Same, ResumeInv, Domains
<1>3. ValidatorInv(v)'
  <2>1. Issued' = Issued /\ Height' = Height
    BY <1>1, ChainUnchanged DEF ResumeInv
  <2> QED
    BY <1>1, <2>1, HeightInv
       DEF Submitted, diskVars, memoryVars, ResumeInv, Domains, ValidatorInv, StateAt
<1> QED
  BY <1>1, <1>2, <1>3, OneValidator

LEMMA NodeStep ==
  ASSUME ResumeInv, NEW v \in Validators, NEW ms, NodeReceives(v, ms) \/ NodeConfirms(v)
  PROVE  ResumeInv'
<1>1. chain' = chain /\ tangle' \subseteq Issued
  BY DEF NodeReceives, NodeConfirms, nodeVars, ResumeInv
<1>2. Domains' /\ \A u \in Validators \ {v} : Same(u)
  BY DEF NodeReceives, NodeConfirms, diskVars, memoryVars, Same, ResumeInv, Domains
<1>3. ValidatorInv(v)'
  <2>1. Issued' = Issued /\ Height' = Height
    BY <1>1, ChainUnchanged DEF ResumeInv
  <2> QED
    BY <1>1, <2>1, HeightInv
       DEF NodeReceives, NodeConfirms, diskVars, memoryVars, ResumeInv, Domains, ValidatorInv, StateAt
<1> QED
  BY <1>1, <1>2, <1>3, OneValidator

(* A replayed block leads to the state of the chain, and only a block that *)
(* issues a milestone in the chain submits one.                            *)
LEMMA CommitStep ==
  ASSUME ResumeInv, NEW v \in Validators, running[v], cms[v] < store[v], Commit(v)
  PROVE  ResumeInv'
<1>1. chain' = chain /\ tangle' \subseteq Issued
  BY DEF Commit, nodeVars, ResumeInv
<1>2. Domains' /\ \A u \in Validators \ {v} : Same(u)
  BY DEF Commit, Same, ResumeInv, Domains
<1>3. Issued' = Issued /\ Height' = Height
  BY <1>1, ChainUnchanged DEF ResumeInv
<1>4. PICK h \in 1 .. Height : h = cms[v] + 1
  BY HeightInv DEF ResumeInv, ValidatorInv
<1>5. StateAt(h - 1) = state[v] /\ NextBlock(v) = chain[h].block
  BY <1>4, HeightInv DEF ResumeInv, ValidatorInv, NextBlock
<1>6. cms'[v] = h /\ state'[v] = Executed(state[v], chain[h].block, h)
  BY <1>4, <1>5 DEF Commit, ResumeInv, Domains
<1>7. state'[v] = StateAt(cms[v])'
  <2>1. state'[v] = chain[h].state
    BY <1>4, <1>5, <1>6 DEF ResumeInv, ChainInv, ChainSteps
  <2> QED
    BY <1>1, <1>4, <1>6, <2>1, HeightInv DEF StateAt
<1>8. submitting'[v] \subseteq Issued
  <2>1. CASE IssuesMilestone(state[v], NextBlock(v))
    <3>1. state[v].Milestone \in Issued
      BY <1>4, <1>5, <2>1, IssuedAt
    <3> QED
      BY <2>1, <3>1 DEF Commit, ResumeInv, Domains, ValidatorInv
  <2>2. CASE ~ IssuesMilestone(state[v], NextBlock(v))
    BY <2>2 DEF Commit, ResumeInv, ValidatorInv
  <2> QED
    BY <2>1, <2>2
<1>9. ValidatorInv(v)'
  BY <1>1, <1>3, <1>4, <1>6, <1>7, <1>8, HeightInv
     DEF Commit, ResumeInv, Domains, ValidatorInv
<1> QED
  BY <1>1, <1>2, <1>9, OneValidator

(* A validator that starts from a state of the chain.                      *)
LEMMA RestartedStep ==
  ASSUME ResumeInv, NEW v \in Validators, NEW s, Restarted(v, s),
         s.MilestoneHeight \in 0 .. Height, StateAt(s.MilestoneHeight) = s
  PROVE  ResumeInv'
<1>1. chain' = chain /\ tangle' \subseteq Issued
  BY DEF Restarted, nodeVars, ResumeInv
<1>2. Domains' /\ \A u \in Validators \ {v} : Same(u)
  BY DEF Restarted, diskVars, Same, ResumeInv, Domains
<1>3. ValidatorInv(v)'
  <2>1. Issued' = Issued /\ Height' = Height
    BY <1>1, ChainUnchanged DEF ResumeInv
  <2>2. cms'[v] = s.MilestoneHeight /\ state'[v] = s /\ s.MilestoneHeight <= store[v]
    BY DEF Restarted, Replayable, ResumeInv, Domains
  <2>3. state'[v] = StateAt(cms[v])'
    BY <1>1, <2>2 DEF StateAt
  <2>4. whiteFlag'[v] = NotRead
    BY DEF Restarted, ResumeInv, ValidatorInv
  <2> QED
    BY <2>1, <2>2, <2>3, <2>4, HeightInv DEF Restarted, diskVars, ResumeInv, ValidatorInv
<1> QED
  BY <1>1, <1>2, <1>3, OneValidator

LEMMA BootstrapStep ==
  ASSUME ResumeInv, NEW v \in Validators, Bootstrap(v)
  PROVE  ResumeInv'
<1>1. InitialState.MilestoneHeight = 0 /\ StateAt(0) = InitialState
  BY DEF InitialState, ResetTo, StateAt
<1> QED
  BY <1>1, HeightInv, RestartedStep DEF Bootstrap

(* The milestones in the Tangle are known to the chain.                    *)
LEMMA ResumeStep ==
  ASSUME ResumeInv, NEW v \in Validators, Resume(v)
  PROVE  ResumeInv'
<1>1. PICK ms \in ResumeMilestones(v) : Restarted(v, NewStateFromMilestone(ms))
  BY DEF Resume
<1>2. Known(ms)
  BY <1>1, IssuedKnown DEF ResumeInv, ResumeMilestones, Compatible
<1>3. NewStateFromMilestone(ms).MilestoneHeight = ms.MilestoneHeight
  BY DEF NewStateFromMilestone, ResetTo
<1> QED
  BY <1>1, <1>2, <1>3, RestartedStep DEF Known

LEMMA DecideStep ==
  ASSUME ResumeInv, NEW v \in Validators, NEW block, Decide(v, block)
  PROVE  ResumeInv'
<1>1. PICK s : s = Executed(Latest, block, Height + 1)
  OBVIOUS
<1>2. chain' = Append(chain, [block |-> block, state |-> s])
  BY <1>1 DEF Decide
<1>3. ChainInv' /\ Issued \subseteq Issued'
  BY <1>1, <1>2, ChainGrows, IssuedGrows DEF ResumeInv
<1>4. Height \in Nat /\ Height' = Height + 1
  BY <1>2, HeightInv, Appended DEF ResumeInv, ChainInv
<1>5. \A h \in 0 .. Height : StateAt(h)' = StateAt(h)
  BY <1>2, StatesKept DEF ResumeInv, ChainInv
<1>6. Domains' /\ tangle' = tangle
  BY DEF Decide, nodeVars, memoryVars, ResumeInv, Domains
<1>7. ASSUME NEW u \in Validators
      PROVE  ValidatorInv(u)'
  <2>1. store'[u] \in store[u] .. Height + 1
    BY <1>4 DEF Decide, ResumeInv, Domains, ValidatorInv
  <2>2. PICK h \in 0 .. Height : h = cms[u]
    BY <1>4 DEF ResumeInv, ValidatorInv
  <2>3. StateAt(cms[u])' = StateAt(cms[u])
    <3>1. StateAt(h)' = StateAt(h)
      BY <1>5
    <3>2. cms' = cms
      BY DEF Decide, memoryVars
    <3> QED
      BY <2>2, <3>1, <3>2 DEF StateAt
  <2> QED
    BY <1>3, <1>4, <2>1, <2>3 DEF Decide, memoryVars, ResumeInv, ValidatorInv
<1> QED
  BY <1>3, <1>6, <1>7 DEF ResumeInv

-----------------------------------------------------------------------------
LEMMA InitInv == Init => ResumeInv
<1> SUFFICES ASSUME Init
             PROVE  ResumeInv
  OBVIOUS
<1>1. chain \in Seq({}) /\ Height = 0
  BY DEF Init, Height
<1>2. StateAt(0) = InitialState /\ Latest = InitialState
  BY <1>1 DEF StateAt, Latest
<1>3. Issued = {}
  BY <1>1 DEF Issued
<1>4. ChainInv
  <2>1. ChainKnown
    BY <1>1, <1>2 DEF ChainKnown, StateKnown, InitialState, ResetTo
  <2> QED
    BY <1>1, <1>3, <2>1 DEF ChainInv, ChainSeq, ChainSteps, IssuedOnce
<1>5. Domains /\ tangle = {}
  BY DEF Init, Domains
<1>6. \A v \in Validators : ValidatorInv(v)
  BY <1>1, <1>2 DEF Init, ValidatorInv
<1> QED
  BY <1>4, <1>5, <1>6 DEF ResumeInv

LEMMA NextInv == ResumeInv /\ [Next]_vars => ResumeInv'
<1> SUFFICES ASSUME ResumeInv, [Next]_vars
             PROVE  ResumeInv'
  OBVIOUS
<1>1. ASSUME NEW v \in Validators, Sign(v)
      PROVE  ResumeInv'
  BY <1>1, SignStep
<1>2. ASSUME NEW v \in Validators, NEW block \in {"empty", "parents", "signatures"},
             Decide(v, block)
      PROVE  ResumeInv'
  BY <1>2, DecideStep
<1>3. ASSUME NEW v \in Validators, FetchBlock(v)
      PROVE  ResumeInv'
  BY <1>3, FetchBlockStep
<1>4. ASSUME NEW v \in Validators, ExecuteBlock(v)
      PROVE  ResumeInv'
  BY <1>4, CommitStep DEF ExecuteBlock
<1>5. ASSUME NEW v \in Validators, ReadConfirmedIndex(v)
      PROVE  ResumeInv'
  BY <1>5, ReadConfirmedIndexStep
<1>6. ASSUME NEW v \in Validators, ComputeWhiteFlag(v)
      PROVE  ResumeInv'
  BY <1>6, CommitStep DEF ComputeWhiteFlag, ResumeInv, ValidatorInv
<1>7. ASSUME NEW v \in Validators, WhiteFlagFails(v) \/ WhiteFlagTimeout(v) \/ Crash(v)
      PROVE  ResumeInv'
  BY <1>7, StoppedStep DEF WhiteFlagFails, WhiteFlagTimeout, Crash
<1>8. ASSUME NEW v \in Validators, BroadcastPartial(v)
      PROVE  ResumeInv'
  BY <1>8, BroadcastPartialStep
<1>9. ASSUME NEW v \in Validators, NEW ms \in submitting[v],
             submitMilestoneBlock(v, ms) \/ SubmitAlreadyPresent(v, ms)
      PROVE  ResumeInv'
  BY <1>9, SubmitStep DEF submitMilestoneBlock, SubmitAlreadyPresent
<1>10. ASSUME NEW v \in Validators, NEW ms \in submitting[v], SubmitFails(v, ms)
       PROVE  ResumeInv'
  BY <1>10, StoppedStep DEF SubmitFails
<1>11. ASSUME NEW v \in Validators, NEW ms \in tangle, NodeReceives(v, ms)
       PROVE  ResumeInv'
  BY <1>11, NodeStep
<1>12. ASSUME NEW v \in Validators, NodeConfirms(v)
       PROVE  ResumeInv'
  BY <1>12, NodeStep
<1>13. ASSUME NEW v \in Validators, Bootstrap(v)
       PROVE  ResumeInv'
  BY <1>13, BootstrapStep
<1>14. ASSUME NEW v \in Validators, Resume(v)
       PROVE  ResumeInv'
  BY <1>14, ResumeStep
<1>15. CASE UNCHANGED vars
  <2>1. chain' = chain /\ Domains' /\ tangle' \subseteq Issued /\ \A u \in Validators : Same(u)
    BY <1>15 DEF vars, nodeVars, diskVars, memoryVars, ResumeInv, Domains, Same
  <2>2. ChainInv' /\ Issued' = Issued /\ Height' = Height
    BY <2>1, ChainUnchanged DEF ResumeInv
  <2>3. \A u \in Validators : ValidatorInv(u)'
    BY <2>1, <2>2 DEF ResumeInv, ValidatorInv, Same, StateAt
  <2> QED
    BY <2>1, <2>2, <2>3 DEF ResumeInv
<1> QED
  BY <1>1, <1>2, <1>3, <1>4, <1>5, <1>6, <1>7, <1>8, <1>9, <1>10, <1>11, <1>12, <1>13,
     <1>14, <1>15 DEF Next

LEMMA AlwaysResumeInv == Spec => []ResumeInv
  BY InitInv, NextInv, PTL DEF Spec

(* A validator that has resumed from a milestone and replayed the blocks   *)
(* after it is in the state of those that never stopped, whatever crashed, *)
(* failed or was pruned: Tendermint finds the hashes it expects            *)
(* (coordinator.go InitState, state.go NewStateFromMilestone, app.go       *)
(* Commit).                                                                *)
THEOREM ReplayCorrect == Spec => []ReplayMatches
<1>1. ResumeInv => ReplayMatches
  BY DEF ResumeInv, ValidatorInv, ReplayMatches
<1> QED
  BY <1>1, AlwaysResumeInv, PTL

(* All validators submit the same milestones, those the chain has issued,  *)
(* also when they submit them again during a replay (app.go                *)
(* submitMilestoneBlock).                                                  *)
THEOREM TangleCorrect == Spec => []TangleMatches
<1>1. ResumeInv => TangleMatches
  BY DEF ResumeInv, ChainInv, IssuedOnce, TangleMatches
<1> QED
  BY <1>1, AlwaysResumeInv, PTL

(* A validator never resumes from a height its Tendermint has no block     *)
(* for: one less than the height it signed last is stored                  *)
(* (components/decoo/coordinator.go tendermintHeight).                     *)
THEOREM NeverAheadCorrect == Spec => []NeverAhead
<1>1. ASSUME ResumeInv
      PROVE  NeverAhead
  <2>1. SUFFICES ASSUME NEW v \in Validators, NEW height \in ResumeHeights(v)
                 PROVE  height <= store[v]
    BY DEF NeverAhead
  <2>2. PICK ms \in ResumeMilestones(v) : height = ms.MilestoneHeight
    BY DEF ResumeHeights
  <2>3. ms \in tangle /\ height <= signed[v] - 1
    BY <2>2 DEF ResumeMilestones, Compatible, tendermintHeight
  <2>4. height \in 0 .. Height
    BY <1>1, <2>2, <2>3, IssuedKnown DEF ResumeInv, Known
  <2> QED
    BY <1>1, <2>3, <2>4, HeightInv DEF ResumeInv, ValidatorInv
<1> QED
  BY <1>1, AlwaysResumeInv, PTL
-----------------------------------------------------------------------------
(* The refinement of MilestoneChain.                                       *)

LEMMA ChainInitRefines == Init => Promise!Init
<1> SUFFICES ASSUME Init
             PROVE  Promise!Init
  OBVIOUS
<1>1. Height = 0
  BY DEF Init, Height
<1>2. Latest = InitialState /\ Issued = {}
  BY <1>1 DEF Latest, StateAt, Issued
<1> QED
  BY <1>2 DEF Init, InitialState, ResetTo, Promise!Init

(* A block that issues the milestone adds it to those issued.              *)
LEMMA IssuedAdds ==
  ASSUME ChainInv, NEW b, NEW s, chain' = Append(chain, [block |-> b, state |-> s]),
         IssuesMilestone(Latest, b)
  PROVE  Latest.Milestone \in Issued'
<1>1. Height \in Nat /\ Height' = Height + 1 /\ ChainSeq
  BY HeightNat, Appended DEF ChainInv
<1>2. PICK h : h = Height + 1
  OBVIOUS
<1>3. PICK k : k = Height
  OBVIOUS
<1>4. chain'[h].block = b
  <2>1. PICK element : element = [block |-> b, state |-> s]
    OBVIOUS
  <2>2. element.block = b
    BY <2>1
  <2>3. chain' = Append(chain, element)
    BY <2>1
  <2>4. chain'[h] = element
    BY <1>1, <1>2, <2>3, Appended
  <2> QED
    BY <2>2, <2>4
<1>5. StateAt(k)' = Latest
  <2>1. k \in 0 .. Height
    BY <1>1, <1>3
  <2>2. StateAt(k)' = StateAt(k)
    BY <1>1, <2>1, StatesKept
  <2> QED
    BY <1>3, <2>2 DEF Latest
<1>6. h \in 1 .. Height' /\ h - 1 = k
  BY <1>1, <1>2, <1>3
<1>7. StateAt(h - 1)' = Latest
  BY <1>5, <1>6
<1>8. IssuesMilestone(StateAt(h - 1)', chain'[h].block)
  BY <1>4, <1>7
<1>9. StateAt(h - 1)'.Milestone \in Issued'
  BY <1>6, <1>8 DEF Issued, IssuesMilestone
<1> QED
  BY <1>7, <1>9

(* Tendermint decides a block: of it, MilestoneChain sees the essence and  *)
(* the milestone.                                                          *)
LEMMA DecideRefines ==
  ASSUME ResumeInv, NEW v \in Validators, NEW block, Decide(v, block)
  PROVE  Promise!Agree \/ Promise!Issue \/ UNCHANGED Promise!vars
<1>1. PICK s : s = Executed(Latest, block, Height + 1)
  OBVIOUS
<1>2. chain' = Append(chain, [block |-> block, state |-> s]) /\ tangle' = tangle
  BY <1>1 DEF Decide, nodeVars
<1>3. ChainInv /\ ChainSeq /\ Height \in Nat
  BY HeightInv DEF ResumeInv, ChainInv
<1>4. Latest' = s
  BY <1>2, <1>3, StatesKept
<1>5. StateKnown(Latest, Height)
  BY <1>3 DEF ChainInv, ChainKnown, Latest
<1>6. /\ Issued \subseteq Issued'
      /\ \A ms \in Issued' :
            ms \in Issued \/ (IssuesMilestone(Latest, block) /\ ms = Latest.Milestone)
  BY <1>2, <1>3, IssuedGrows
<1>7. CASE CreatesEssence(Latest, block)
  <2>1. PICK ms : ms = Essence(Latest, Height + 1)
    OBVIOUS
  <2>2. /\ ms # Nil
        /\ ms.Index = Latest.MilestoneIndex
        /\ ms.PreviousMilestoneID = Latest.LastMilestone
    BY <2>1 DEF Essence, Nil
  <2>3. /\ s.MilestoneIndex = Latest.MilestoneIndex
        /\ s.LastMilestone = Latest.LastMilestone
        /\ s.Milestone = ms
    BY <1>1, <1>5, <1>7, <2>1 DEF Executed, StateKnown
  <2>4. Issued' = Issued /\ Latest.Milestone = Nil
    BY <1>6, <1>7 DEF CreatesEssence, IssuesMilestone
  <2> QED
    BY <1>2, <1>4, <2>2, <2>3, <2>4 DEF Promise!Agree
<1>8. CASE ~ CreatesEssence(Latest, block) /\ IssuesMilestone(Latest, block)
  <2>1. /\ s.MilestoneIndex = Latest.MilestoneIndex + 1
        /\ s.LastMilestone = Latest.Milestone
        /\ s.Milestone = Nil
    BY <1>1, <1>8 DEF Executed, ResetTo
  <2>2. Latest.Milestone \in Issued'
    BY <1>2, <1>3, <1>8, IssuedAdds
  <2>3. Issued' = Issued \cup {Latest.Milestone}
    BY <1>6, <2>2
  <2>4. Latest.Milestone # Nil
    BY <1>8 DEF IssuesMilestone
  <2> QED
    BY <1>2, <1>4, <2>1, <2>3, <2>4 DEF Promise!Issue
<1>9. CASE ~ CreatesEssence(Latest, block) /\ ~ IssuesMilestone(Latest, block)
  <2>1. s = Latest
    BY <1>1, <1>9 DEF Executed
  <2>2. Issued' = Issued
    BY <1>6, <1>9
  <2> QED
    BY <1>2, <1>4, <2>1, <2>2 DEF Promise!vars
<1> QED
  BY <1>7, <1>8, <1>9

(* The submission of a milestone, again perhaps.                           *)
LEMMA SubmitRefines ==
  ASSUME ResumeInv, NEW v \in Validators, NEW ms, submitMilestoneBlock(v, ms)
  PROVE  Promise!Publish \/ UNCHANGED Promise!vars
<1>1. chain' = chain /\ ms \in Issued
  BY DEF submitMilestoneBlock, Submitted, ResumeInv, ValidatorInv
<1>2. Latest' = Latest /\ Issued' = Issued
  BY <1>1, ChainUnchanged DEF ResumeInv, Latest, StateAt, Height
<1>3. tangle' = tangle \/ tangle' = tangle \cup {ms}
  BY DEF submitMilestoneBlock
<1> QED
  BY <1>1, <1>2, <1>3 DEF Promise!Publish, Promise!vars

(* Every other step changes neither the chain nor the Tangle.              *)
LEMMA ChainAndTangleKept ==
  ASSUME ResumeInv, chain' = chain, tangle' = tangle
  PROVE  UNCHANGED Promise!vars
<1>1. Latest' = Latest /\ Issued' = Issued
  BY ChainUnchanged DEF ResumeInv, Latest, StateAt, Height
<1> QED
  BY <1>1 DEF Promise!vars

LEMMA ChainStepRefines == ResumeInv /\ [Next]_vars => [Promise!Next]_(Promise!vars)
<1> SUFFICES ASSUME ResumeInv, [Next]_vars
             PROVE  Promise!Next \/ UNCHANGED Promise!vars
  OBVIOUS
<1>1. ASSUME NEW v \in Validators, NEW block, Decide(v, block)
      PROVE  Promise!Next \/ UNCHANGED Promise!vars
  BY <1>1, DecideRefines DEF Promise!Next
<1>2. ASSUME NEW v \in Validators, NEW ms \in submitting[v], submitMilestoneBlock(v, ms)
      PROVE  Promise!Next \/ UNCHANGED Promise!vars
  BY <1>2, SubmitRefines DEF Promise!Next
<1>3. CASE chain' = chain /\ tangle' = tangle
  BY <1>3, ChainAndTangleKept
<1>4. ASSUME NEW v \in Validators,
             \/ Sign(v) \/ FetchBlock(v) \/ ExecuteBlock(v) \/ ReadConfirmedIndex(v)
             \/ ComputeWhiteFlag(v) \/ WhiteFlagFails(v) \/ WhiteFlagTimeout(v)
             \/ BroadcastPartial(v) \/ NodeConfirms(v) \/ Crash(v) \/ Bootstrap(v) \/ Resume(v)
      PROVE  chain' = chain /\ tangle' = tangle
  BY <1>4 DEF Sign, FetchBlock, ExecuteBlock, ReadConfirmedIndex, ComputeWhiteFlag,
              WhiteFlagFails, WhiteFlagTimeout, BroadcastPartial, NodeConfirms, Crash,
              Bootstrap, Resume, Commit, Stopped, Restarted, nodeVars
<1>5. ASSUME NEW v \in Validators, NEW ms,
             SubmitAlreadyPresent(v, ms) \/ SubmitFails(v, ms) \/ NodeReceives(v, ms)
      PROVE  chain' = chain /\ tangle' = tangle
  BY <1>5 DEF SubmitAlreadyPresent, SubmitFails, NodeReceives, Submitted, Stopped, nodeVars
<1> QED
  BY <1>1, <1>2, <1>3, <1>4, <1>5 DEF Next, vars, nodeVars

(* Whoever crashes, resumes from an older milestone, replays blocks and    *)
(* submits again: what reaches the Tangle is the one chain of milestones   *)
(* that the committee agreed on (README.md 18, app.go 204-224).            *)
THEOREM ResumedChainRefined == Spec => RefinesMilestoneChain
  BY AlwaysResumeInv, ChainInitRefines, ChainStepRefines, PTL
     DEF Spec, RefinesMilestoneChain, Promise!Spec
=============================================================================
