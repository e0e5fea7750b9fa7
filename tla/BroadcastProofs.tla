---------------------------- MODULE BroadcastProofs ----------------------------
(***************************************************************************)
(* Proofs about Broadcast, for any committee, blocks and bounds: a partial *)
(* signature never meets a CheckTx that cannot accept it, and the mempool, *)
(* its cache and the checkState stay consistent with each other.           *)
(***************************************************************************)
EXTENDS Broadcast, Ranking, TLAPS

EssenceOfIndex == Index \in Nat /\ (Milestone # Nil => Milestone.Index = Index)

(* A signature that is not older than the state is over the essence in it, *)
(* and the checkState has this essence or is about to get it.              *)
SignatureKnown(tx) ==
    tx.type = "PartialSignature" =>
        /\ tx.signature.Index \in Nat
        /\ tx.signature.Index >= Index =>
              /\ Milestone # Nil
              /\ tx.signature = Milestone
              /\ phase = "copy" \/ cMilestone = Milestone

ExecutingShape ==
    executing # Nil =>
        executing = [ key |-> executing.key, value |-> executing.value,
                      canceled |-> executing.canceled ]

BroadcastInv ==
    /\ EssenceOfIndex
    /\ ExecutingShape
    /\ DOMAIN pending = Keys
    /\ \A k \in Keys : pending[k] # Nil => SignatureKnown(pending[k])
    /\ executing # Nil => SignatureKnown(executing.value)

-----------------------------------------------------------------------------
(* What is submitted takes its place in the queue and leaves the rest.     *)
LEMMA Submitted ==
  ASSUME ExecutingShape, DOMAIN pending = Keys, NEW key, NEW tx, Submit(key, tx)
  PROVE  /\ DOMAIN pending' = Keys
         /\ \A k \in Keys : pending'[k] \in {tx, pending[k]}
         /\ (executing' # Nil) => (executing # Nil /\ executing'.value = executing.value)
         /\ ExecutingShape'
<1>1. DOMAIN pending' = Keys /\ \A k \in Keys : pending'[k] \in {tx, pending[k]}
  BY DEF Submit
<1>2. CASE executing # Nil /\ executing.key = key
  <2>1. executing' = [executing EXCEPT !.canceled = TRUE]
    BY <1>2 DEF Submit
  <2>2. executing' = [key |-> executing.key, value |-> executing.value, canceled |-> TRUE]
    BY <1>2, <2>1 DEF ExecutingShape
  <2> QED
    BY <1>1, <1>2, <2>2 DEF ExecutingShape
<1>3. CASE ~ (executing # Nil /\ executing.key = key)
  <2>1. executing' = executing
    BY <1>3 DEF Submit
  <2> QED
    BY <1>1, <2>1 DEF ExecutingShape
<1> QED
  BY <1>2, <1>3

(* Only Copy writes the essence of the checkState.                         *)
LEMMA CheckTxKeeps ==
  ASSUME NEW tx, CheckTxPasses(tx) \/ CheckTxRefuses(tx) \/ InCache(tx)
  PROVE  cMilestone' = cMilestone
<1>1. CASE CheckTxPasses(tx)
  BY <1>1 DEF CheckTxPasses, check!ApplyTx, check!ParentApply, check!ProofApply,
              check!PartialSignatureApply
<1>2. CASE CheckTxRefuses(tx) \/ InCache(tx)
  BY <1>2 DEF CheckTxRefuses, InCache, checkVars
<1> QED
  BY <1>1, <1>2

(* A step that changes neither the essences nor leaves the phase in which  *)
(* they are copied keeps what is known of a signature.                     *)
LEMMA KnownKept ==
  ASSUME State' = State, Milestone' = Milestone, cMilestone' = cMilestone,
         phase = "copy" => phase' = "copy"
  PROVE  \A tx : SignatureKnown(tx) => SignatureKnown(tx)'
  BY DEF SignatureKnown, Index

(* A step of the rest of the system that leaves the queue as it is.        *)
LEMMA QueueUnchanged ==
  ASSUME BroadcastInv, queueVars' = queueVars, EssenceOfIndex',
         \A tx : SignatureKnown(tx) => SignatureKnown(tx)'
  PROVE  BroadcastInv'
<1>1. pending' = pending /\ executing' = executing
  BY DEF queueVars
<1> QED
  BY <1>1 DEF BroadcastInv, ExecutingShape

LEMMA EssenceKept ==
  ASSUME BroadcastInv, State' = State, Milestone' = Milestone
  PROVE  EssenceOfIndex'
  BY DEF BroadcastInv, EssenceOfIndex, Index

(* A step that submits a transaction to the queue.                         *)
LEMMA SubmitKeeps ==
  ASSUME BroadcastInv, NEW key, NEW tx, Submit(key, tx), SignatureKnown(tx)', EssenceOfIndex',
         \A t : SignatureKnown(t) => SignatureKnown(t)'
  PROVE  BroadcastInv'
<1>1. /\ DOMAIN pending' = Keys
      /\ \A k \in Keys : pending'[k] \in {tx, pending[k]}
      /\ (executing' # Nil) => (executing # Nil /\ executing'.value = executing.value)
      /\ ExecutingShape'
  BY Submitted DEF BroadcastInv
<1>2. ASSUME NEW k \in Keys, pending'[k] # Nil
      PROVE  SignatureKnown(pending[k])'
  <2>1. CASE pending'[k] = tx
    BY <2>1 DEF SignatureKnown
  <2>2. CASE pending'[k] = pending[k]
    <3>1. SignatureKnown(pending[k])
      BY <1>2, <2>2 DEF BroadcastInv
    <3>2. PICK t : t = pending[k]
      OBVIOUS
    <3>3. SignatureKnown(t)'
      BY <3>1, <3>2
    <3> QED
      BY <2>2, <3>2, <3>3 DEF SignatureKnown
  <2> QED
    BY <1>1, <2>1, <2>2
<1>3. ASSUME executing' # Nil
      PROVE  SignatureKnown(executing.value)'
  <2>1. SignatureKnown(executing.value)
    BY <1>1, <1>3 DEF BroadcastInv
  <2>2. PICK t : t = executing.value
    OBVIOUS
  <2>3. SignatureKnown(t)'
    BY <2>1, <2>2
  <2> QED
    BY <1>1, <1>3, <2>2, <2>3 DEF SignatureKnown
<1> QED
  BY <1>1, <1>2, <1>3 DEF BroadcastInv

-----------------------------------------------------------------------------
(* The steps.                                                              *)

LEMMA StartStep ==
  ASSUME BroadcastInv, NEW k \in Keys, Start(k)
  PROVE  BroadcastInv'
<1>1. /\ State' = State /\ Milestone' = Milestone /\ cMilestone' = cMilestone
      /\ phase' = phase /\ pending' = pending
      /\ pending[k] # Nil
      /\ executing' = [key |-> k, value |-> pending[k], canceled |-> FALSE]
  BY DEF Start, appVars, checkVars, blockVars
<1>2. \A tx : SignatureKnown(tx) => SignatureKnown(tx)'
  BY <1>1, KnownKept
<1>3. SignatureKnown(pending[k])
  BY <1>1 DEF BroadcastInv
<1>4. SignatureKnown(executing.value)'
  BY <1>1, <1>2, <1>3 DEF SignatureKnown
<1>5. \A j \in Keys : pending'[j] # Nil => SignatureKnown(pending[j])'
  BY <1>1, <1>2 DEF BroadcastInv
<1>6. ExecutingShape'
  BY <1>1 DEF ExecutingShape
<1> QED
  BY <1>1, <1>4, <1>5, <1>6, EssenceKept DEF BroadcastInv

LEMMA broadcastTxStep ==
  ASSUME BroadcastInv, broadcastTx
  PROVE  BroadcastInv'
<1>1. State' = State /\ Milestone' = Milestone /\ phase' = phase
  BY DEF broadcastTx, appVars, blockVars
<1>2. cMilestone' = cMilestone
  BY CheckTxKeeps DEF broadcastTx
<1>3. \A tx : SignatureKnown(tx) => SignatureKnown(tx)'
  BY <1>1, <1>2, KnownKept
<1>4. Done \/ Failed
  BY DEF broadcastTx
<1>5. executing' = Nil
  BY <1>4 DEF Done, Failed
<1>6. DOMAIN pending' = Keys /\ \A k \in Keys : pending'[k] \in {Nil, pending[k]}
  BY <1>4 DEF Done, Failed, BroadcastInv
<1>7. ASSUME NEW k \in Keys, pending'[k] # Nil
      PROVE  SignatureKnown(pending[k])'
  BY <1>3, <1>6, <1>7 DEF BroadcastInv
<1> QED
  BY <1>1, <1>5, <1>6, <1>7, EssenceKept DEF BroadcastInv, ExecutingShape

LEMMA processParentStep ==
  ASSUME BroadcastInv, NEW call, processParent(call)
  PROVE  BroadcastInv'
<1>1. State' = State /\ Milestone' = Milestone /\ cMilestone' = cMilestone /\ phase' = phase
  BY DEF processParent, appVars, checkVars, blockVars
<1>2. \A tx : SignatureKnown(tx) => SignatureKnown(tx)'
  BY <1>1, KnownKept
<1>3. CASE call.meta = "valid"
  <2>1. SignatureKnown(ProofTx(self, call.index, call.blockID))'
    BY DEF SignatureKnown, ProofTx
  <2> QED
    BY <1>1, <1>2, <1>3, <2>1, SubmitKeeps, EssenceKept DEF processParent
<1>4. CASE call.meta # "valid"
  BY <1>1, <1>2, <1>4, QueueUnchanged, EssenceKept DEF processParent
<1> QED
  BY <1>3, <1>4

LEMMA DeliverTxStep ==
  ASSUME BroadcastInv, NEW tx, DeliverTx(tx)
  PROVE  BroadcastInv'
<1>1. State' = State /\ Milestone' = Milestone
  BY DEF DeliverTx, ApplyTx, ParentApply, ProofApply, PartialSignatureApply, appVars
<1>2. cMilestone' = cMilestone /\ phase' = phase /\ queueVars' = queueVars
  BY DEF DeliverTx, checkVars
<1> QED
  BY <1>1, <1>2, KnownKept, QueueUnchanged, EssenceKept

(* A new essence is one that no signature in the queue is about.           *)
LEMMA EndBlockStep ==
  ASSUME BroadcastInv, EndBlock
  PROVE  BroadcastInv'
<1>1. /\ State' = State /\ cMilestone' = cMilestone /\ queueVars' = queueVars
      /\ phase = "deliver" /\ phase' = "commit"
  BY DEF EndBlock, checkVars
<1>2. CASE CreateEssence
  <2>1. Milestone = Nil /\ Milestone'.Index = Index
    BY <1>2 DEF CreateEssence, createMilestoneEssence, Index
  <2>2. EssenceOfIndex'
    BY <1>1, <2>1 DEF BroadcastInv, EssenceOfIndex, Index
  <2>3. \A tx : SignatureKnown(tx) => SignatureKnown(tx)'
    BY <1>1, <2>1 DEF SignatureKnown, Index
  <2> QED
    BY <1>1, <2>2, <2>3, QueueUnchanged
<1>3. CASE Milestone' = Milestone
  BY <1>1, <1>3, KnownKept, QueueUnchanged, EssenceKept
<1> QED
  BY <1>2, <1>3 DEF EndBlock, AwaitParents

(* The signature that Commit submits is over the essence that Copy is      *)
(* about to copy, or belongs to the milestone that ends here.              *)
LEMMA CommitStep ==
  ASSUME BroadcastInv, Commit
  PROVE  BroadcastInv'
<1>1. phase = "commit" /\ phase' = "copy" /\ cMilestone' = cMilestone
  BY DEF Commit, checkVars
<1>2. Index \in Nat /\ (Milestone # Nil => Milestone.Index = Index)
  BY DEF BroadcastInv, EssenceOfIndex
<1>3. EssenceOfIndex' /\ \A tx : SignatureKnown(tx) => SignatureKnown(tx)'
  <2>1. CASE MilestoneDone
    <3>1. Index' = Index + 1 /\ Milestone' = Nil
      BY <2>1 DEF Commit, Reset, NextState, Index
    <3>2. EssenceOfIndex'
      BY <1>2, <3>1 DEF EssenceOfIndex
    <3>3. ASSUME NEW tx, SignatureKnown(tx)
          PROVE  SignatureKnown(tx)'
      <4>1. tx.type = "PartialSignature" =>
              tx.signature.Index \in Nat /\ ~ (tx.signature.Index >= Index + 1)
        BY <1>2, <3>3 DEF SignatureKnown
      <4> QED
        BY <3>1, <4>1 DEF SignatureKnown
    <3> QED
      BY <3>2, <3>3
  <2>2. CASE ~ MilestoneDone
    <3>1. State' = State /\ Milestone' = Milestone
      BY <2>2 DEF Commit, appVars
    <3> QED
      BY <1>1, <3>1, EssenceKept, KnownKept
  <2> QED
    BY <2>1, <2>2
<1>4. CASE Signs
  <2> DEFINE tx == PartialSignatureTx(self, Milestone)
  <2>1. Submit("partial", tx) /\ Milestone # Nil
    BY <1>4 DEF Commit, broadcastPartial, Signs
  <2>2. PICK t : t = tx
    OBVIOUS
  <2>3. t.type = "PartialSignature" /\ t.signature = Milestone
    BY <2>2 DEF PartialSignatureTx
  <2>4. SignatureKnown(t)'
    <3>1. CASE MilestoneDone
      <4>1. Index' = Index + 1
        BY <3>1 DEF Commit, Reset, NextState, Index
      <4> QED
        BY <1>2, <2>1, <2>3, <4>1 DEF SignatureKnown
    <3>2. CASE ~ MilestoneDone
      <4>1. Milestone' = Milestone
        BY <3>2 DEF Commit, appVars
      <4> QED
        BY <1>1, <1>2, <2>1, <2>3, <4>1 DEF SignatureKnown
    <3> QED
      BY <3>1, <3>2
  <2> QED
    BY <1>3, <2>1, <2>2, <2>4, SubmitKeeps
<1>5. CASE ~ Signs
  BY <1>3, <1>5, QueueUnchanged DEF Commit, broadcastPartial
<1> QED
  BY <1>4, <1>5

LEMMA CopyStep ==
  ASSUME BroadcastInv, Copy
  PROVE  BroadcastInv'
<1>1. /\ State' = State /\ Milestone' = Milestone /\ cMilestone' = Milestone
      /\ queueVars' = queueVars
  BY DEF Copy, CopyState, appVars
<1>2. \A tx : SignatureKnown(tx) => SignatureKnown(tx)'
  BY <1>1 DEF SignatureKnown, Index
<1> QED
  BY <1>1, <1>2, QueueUnchanged, EssenceKept

LEMMA RecheckTxStep ==
  ASSUME BroadcastInv, RecheckTx
  PROVE  BroadcastInv'
<1>1. /\ State' = State /\ Milestone' = Milestone /\ queueVars' = queueVars
      /\ phase = "recheck"
  BY DEF RecheckTx, appVars
<1>2. cMilestone' = cMilestone
  BY DEF RecheckTx, check!ApplyTx, check!ParentApply, check!ProofApply,
         check!PartialSignatureApply, checkVars
<1> QED
  BY <1>1, <1>2, KnownKept, QueueUnchanged, EssenceKept

LEMMA QuietStep ==
  ASSUME BroadcastInv, State' = State, Milestone' = Milestone, cMilestone' = cMilestone,
         phase = "copy" => phase' = "copy", queueVars' = queueVars
  PROVE  BroadcastInv'
  BY KnownKept, QueueUnchanged, EssenceKept

-----------------------------------------------------------------------------
LEMMA InitInv == Init => BroadcastInv
<1> SUFFICES ASSUME Init
             PROVE  BroadcastInv
  OBVIOUS
<1>1. pending = [k \in Keys |-> Nil] /\ executing = Nil
  BY DEF Init
<1>2. EssenceOfIndex
  BY CommitteeAssumption DEF Init, InitAppState, InitialState, EssenceOfIndex, Index
<1> QED
  BY <1>1, <1>2 DEF BroadcastInv, ExecutingShape

LEMMA NextInv == BroadcastInv /\ [Next]_vars => BroadcastInv'
<1> SUFFICES ASSUME BroadcastInv, [Next]_vars
             PROVE  BroadcastInv'
  OBVIOUS
<1>1. ASSUME NEW tx \in OthersTxs, Gossip(tx)
      PROVE  BroadcastInv'
  <2>1. cMilestone' = cMilestone
    BY <1>1, CheckTxKeeps DEF Gossip
  <2> QED
    BY <1>1, <2>1, QuietStep DEF Gossip, appVars, blockVars
<1>2. ASSUME NEW k \in Keys, Start(k)
      PROVE  BroadcastInv'
  BY <1>2, StartStep
<1>3. CASE broadcastTx
  BY <1>3, broadcastTxStep
<1>4. ASSUME NEW b \in DOMAIN callbacks, BlockSolid(b)
      PROVE  BroadcastInv'
  BY <1>4, QuietStep DEF BlockSolid, appVars, checkVars, blockVars
<1>5. ASSUME NEW call \in running, processParent(call)
      PROVE  BroadcastInv'
  BY <1>5, processParentStep
<1>6. ASSUME NEW b \in Blocks, TangleMoves(b)
      PROVE  BroadcastInv'
  BY <1>6, QuietStep DEF TangleMoves, appVars, checkVars, blockVars
<1>7. CASE BeginBlock
  BY <1>7, QuietStep DEF BeginBlock, appVars, checkVars
<1>8. ASSUME NEW tx \in Deliverable, DeliverTx(tx)
      PROVE  BroadcastInv'
  BY <1>8, DeliverTxStep
<1>9. CASE EndBlock
  BY <1>9, EndBlockStep
<1>10. CASE Commit
  BY <1>10, CommitStep
<1>11. CASE Copy
  BY <1>11, CopyStep
<1>12. CASE RecheckTx
  BY <1>12, RecheckTxStep
<1>13. CASE UNCHANGED vars
  BY <1>13, QuietStep DEF vars, appVars, checkVars, blockVars
<1> QED
  BY <1>1, <1>2, <1>3, <1>4, <1>5, <1>6, <1>7, <1>8, <1>9, <1>10, <1>11, <1>12, <1>13
     DEF Next

LEMMA AlwaysBroadcastInv == Spec => []BroadcastInv
  BY InitInv, NextInv, PTL DEF Spec

(* A partial signature is submitted to the queue before the checkState     *)
(* knows the essence it signs, but CheckTx only sees it afterwards: the    *)
(* mempool is locked from Commit until the state has been copied (app.go   *)
(* 194, 233).  A refusal would be final.                                   *)
THEOREM PartialPassesCorrect == Spec => []PartialPasses
<1>1. ASSUME BroadcastInv
      PROVE  PartialPasses
  <2>1. SUFFICES ASSUME Milestone # Nil, executing # Nil, ~ mempoolLocked,
                        executing.value = PartialSignatureTx(self, Milestone)
                 PROVE  cMilestone = Milestone
    BY DEF PartialPasses
  <2>2. executing.value.type = "PartialSignature" /\ executing.value.signature = Milestone
    BY <2>1 DEF PartialSignatureTx
  <2>3. SignatureKnown(executing.value) /\ Milestone.Index = Index /\ Index \in Nat
    BY <1>1, <2>1 DEF BroadcastInv, EssenceOfIndex
  <2> QED
    BY <2>1, <2>2, <2>3 DEF SignatureKnown, mempoolLocked
<1> QED
  BY <1>1, AlwaysBroadcastInv, PTL

-----------------------------------------------------------------------------
(* The mempool and what remains to be checked again hold every transaction *)
(* at most once.                                                           *)
Distinct(s) == \A i, j \in DOMAIN s : s[i] = s[j] => i = j

IsSeq(s) == s \in Seq(Range(s))

InMempool == Range(mempool) \cup Range(unchecked)

SequencesDistinct ==
    /\ IsSeq(mempool) /\ Distinct(mempool)
    /\ IsSeq(unchecked) /\ Distinct(unchecked)
    /\ Range(mempool) \cap Range(unchecked) = {}

OwnCached == OfQueue(InMempool) \subseteq cache

(* The queue only sends what concerns this validator, and no proposals.    *)
QueueTx(tx) == tx.issuer = self /\ tx.type # "Parent"

QueueSendsOwn ==
    /\ \A k \in Keys : pending[k] # Nil => QueueTx(pending[k])
    /\ executing # Nil => QueueTx(executing.value)

(* The proposals of the mempool are in the checkState that accepted them.  *)
ProposalsRegistered ==
    /\ \A tx \in InMempool : tx.type = "Parent" => tx.block \in Blocks
    /\ \A tx \in Range(mempool) :
          tx.type = "Parent" /\ tx.index = cState.MilestoneIndex =>
              tx.issuer \in DOMAIN cParentByIssuer

ProposedAreBlocks ==
    /\ \A i \in DOMAIN ParentByIssuer : ParentByIssuer[i] \in Blocks
    /\ DOMAIN callbacks \subseteq Blocks

(* The checkState is behind only until the state is copied.                *)
CheckStateBehind ==
    /\ Index \in Nat
    /\ cState.MilestoneIndex \in IF phase = "copy" THEN {Index, Index - 1} ELSE {Index}

PhaseInv ==
    /\ phase \in {"idle", "deliver", "commit", "copy", "recheck"}
    /\ (phase = "recheck") = (unchecked # << >>)

MempoolInv ==
    /\ SequencesDistinct
    /\ OwnCached
    /\ ProposalsRegistered
    /\ CheckStateBehind
    /\ PhaseInv

NodeInv ==
    /\ QueueSendsOwn
    /\ ProposedAreBlocks

LEMMA AppendOnce ==
  ASSUME NEW s, IsSeq(s), Distinct(s), NEW x, x \notin Range(s)
  PROVE  /\ IsSeq(Append(s, x))
         /\ Distinct(Append(s, x))
         /\ Range(Append(s, x)) = Range(s) \cup {x}
<1> DEFINE t == Append(s, x)
<1>1. s \in Seq(Range(s) \cup {x})
  BY DEF IsSeq
<1>2. /\ DOMAIN s = 1 .. Len(s) /\ Len(s) \in Nat
      /\ DOMAIN t = 1 .. Len(s) + 1
      /\ \A i \in 1 .. Len(s) : t[i] = s[i]
      /\ t[Len(s) + 1] = x
      /\ t \in Seq(Range(s) \cup {x})
  BY <1>1
<1> HIDE DEF t
<1>3. Range(t) = Range(s) \cup {x}
  <2>1. ASSUME NEW i \in DOMAIN t
        PROVE  t[i] \in Range(s) \cup {x}
    BY <1>2 DEF Range
  <2>2. ASSUME NEW i \in DOMAIN s
        PROVE  s[i] \in Range(t)
    BY <1>2 DEF Range
  <2>3. x \in Range(t)
    BY <1>2 DEF Range
  <2> QED
    BY <2>1, <2>2, <2>3 DEF Range
<1>4. Distinct(t)
  <2> SUFFICES ASSUME NEW i \in DOMAIN t, NEW j \in DOMAIN t, t[i] = t[j]
               PROVE  i = j
    BY DEF Distinct
  <2>1. ASSUME NEW k \in DOMAIN s PROVE s[k] # x
    BY <2>1 DEF Range
  <2> QED
    BY <1>2, <2>1 DEF Distinct
<1> QED
  BY <1>2, <1>3, <1>4 DEF IsSeq, t

LEMMA TailOnce ==
  ASSUME NEW s, IsSeq(s), Distinct(s), s # << >>
  PROVE  /\ IsSeq(Tail(s))
         /\ Distinct(Tail(s))
         /\ Head(s) \in Range(s)
         /\ Range(Tail(s)) = Range(s) \ {Head(s)}
         /\ (Tail(s) # << >>) = (Len(s) # 1)
<1> DEFINE t == Tail(s)
<1>1. s \in Seq(Range(s))
  BY DEF IsSeq
<1>2. /\ DOMAIN s = 1 .. Len(s) /\ Len(s) \in Nat \ {0}
      /\ DOMAIN t = 1 .. Len(s) - 1 /\ Len(t) = Len(s) - 1
      /\ \A i \in 1 .. Len(s) - 1 : t[i] = s[i + 1]
      /\ Head(s) = s[1]
      /\ t \in Seq(Range(s))
  BY <1>1
<1>3. (t # << >>) = (Len(s) # 1)
  BY <1>2
<1> HIDE DEF t
<1>4. Head(s) \in Range(s)
  BY <1>2 DEF Range
<1>5. Range(t) = Range(s) \ {Head(s)}
  <2>1. ASSUME NEW i \in DOMAIN t
        PROVE  t[i] \in Range(s) /\ t[i] # Head(s)
    <3>1. i + 1 \in DOMAIN s /\ 1 \in DOMAIN s /\ i + 1 # 1
      BY <1>2
    <3>2. t[i] = s[i + 1]
      BY <1>2
    <3>3. s[i + 1] # s[1]
      BY <3>1 DEF Distinct
    <3> QED
      BY <1>2, <3>1, <3>2, <3>3 DEF Range
  <2>2. ASSUME NEW i \in DOMAIN s, s[i] # Head(s)
        PROVE  s[i] \in Range(t)
    <3>1. i - 1 \in DOMAIN t /\ t[i - 1] = s[i]
      BY <1>2, <2>2
    <3> QED
      BY <3>1 DEF Range
  <2> QED
    BY <2>1, <2>2 DEF Range
<1>6. Distinct(t)
  BY <1>2 DEF Distinct
<1>7. t \in Seq(Range(t))
  <2>1. \A i \in 1 .. Len(t) : t[i] \in Range(t)
    BY <1>2 DEF Range
  <2> QED
    BY <1>2, <2>1
<1> QED
  BY <1>3, <1>4, <1>5, <1>6, <1>7 DEF IsSeq, t

(* What is left keeps its place in the order of the indices.               *)
LEMMA WithoutOnce ==
  ASSUME NEW s, IsSeq(s), Distinct(s), NEW removed
  PROVE  /\ IsSeq(Without(s, removed))
         /\ Distinct(Without(s, removed))
         /\ Range(Without(s, removed)) = Range(s) \ removed
<1> DEFINE kept == { i \in DOMAIN s : s[i] \notin removed }
           R == { p \in kept \X kept : p[1] < p[2] }
           n == Cardinality(kept)
           at == [ m \in 1 .. n |->
                     CHOOSE i \in kept : Cardinality({ j \in kept : j < i }) = m - 1 ]
           t == Without(s, removed)
<1>1. DOMAIN s = 1 .. Len(s) /\ Len(s) \in Nat
  BY DEF IsSeq
<1>2. kept \subseteq Int /\ IsFiniteSet(kept) /\ n \in Nat
  <2>1. IsFiniteSet(1 .. Len(s))
    BY <1>1, FS_Interval
  <2>2. kept \subseteq 1 .. Len(s)
    BY <1>1
  <2> QED
    BY <1>1, <2>1, <2>2, FS_Subset, FS_CardinalityType
<1>3. TotalOrderOn(R, kept)
  <2> HIDE DEF kept
  <2> QED
    BY <1>2 DEF TotalOrderOn
<1>4. \A i \in kept : Rank(R, kept)[i] = Cardinality({ j \in kept : j < i })
  <2> SUFFICES ASSUME NEW i \in kept
               PROVE  Predecessors(R, kept, i) = { j \in kept : j < i }
    BY DEF Rank
  <2> HIDE DEF kept
  <2> QED
    BY DEF Predecessors
<1>5. t = [m \in 1 .. n |-> s[at[m]]]
  BY DEF Without
<1> HIDE DEF kept, R, n, at, t
<1>6. /\ Rank(R, kept) \in [kept -> 0 .. n - 1]
      /\ \A i, j \in kept : Rank(R, kept)[i] = Rank(R, kept)[j] => i = j
      /\ \A m \in 0 .. n - 1 : \E i \in kept : Rank(R, kept)[i] = m
  <2>1. Rank(R, kept) \in [kept -> 0 .. Cardinality(kept) - 1]
    BY <1>2, <1>3, RankType
  <2>2. IsFiniteSet(kept)
    BY <1>2
  <2>3. /\ \A x, y \in kept : Rank(R, kept)[x] = Rank(R, kept)[y] => x = y
        /\ \A m \in 0 .. Cardinality(kept) - 1 : \E x \in kept : Rank(R, kept)[x] = m
    BY <1>3, <2>2, RankBijective
  <2> QED
    BY <2>1, <2>3 DEF n
<1>7. ASSUME NEW m \in 1 .. n
      PROVE  at[m] \in kept /\ Rank(R, kept)[at[m]] = m - 1
  <2>1. m - 1 \in 0 .. n - 1
    BY <1>2
  <2>2. \E i \in kept : Cardinality({ j \in kept : j < i }) = m - 1
    BY <1>4, <1>6, <2>1
  <2> QED
    BY <1>4, <2>2 DEF at
<1>8. ASSUME NEW i \in kept
      PROVE  \E m \in 1 .. n : at[m] = i
  <2>1. Rank(R, kept)[i] + 1 \in 1 .. n
    BY <1>2, <1>6
  <2>2. Rank(R, kept)[at[Rank(R, kept)[i] + 1]] = Rank(R, kept)[i]
    BY <1>6, <1>7, <2>1
  <2>3. at[Rank(R, kept)[i] + 1] = i
    BY <1>6, <1>7, <2>1, <2>2
  <2> QED
    BY <2>1, <2>3
<1>9. DOMAIN t = 1 .. n /\ \A m \in 1 .. n : t[m] = s[at[m]]
  BY <1>5
<1>10. Range(t) = Range(s) \ removed
  <2>1. ASSUME NEW m \in 1 .. n
        PROVE  t[m] \in Range(s) \ removed
    BY <1>7, <1>9 DEF Range, kept
  <2>2. ASSUME NEW i \in DOMAIN s, s[i] \notin removed
        PROVE  s[i] \in Range(t)
    <3>1. PICK m \in 1 .. n : at[m] = i
      BY <1>8, <2>2 DEF kept
    <3> QED
      BY <1>9, <3>1 DEF Range
  <2> QED
    BY <1>9, <2>1, <2>2 DEF Range
<1>11. Distinct(t)
  <2> SUFFICES ASSUME NEW k \in 1 .. n, NEW m \in 1 .. n, t[k] = t[m]
               PROVE  k = m
    BY <1>9 DEF Distinct
  <2>1. at[k] = at[m]
    <3>1. at[k] \in DOMAIN s /\ at[m] \in DOMAIN s
      BY <1>7 DEF kept
    <3>2. s[at[k]] = s[at[m]]
      BY <1>9
    <3> QED
      BY <3>1, <3>2 DEF Distinct
  <2>2. k - 1 = m - 1
    BY <1>7, <2>1
  <2> QED
    BY <1>2, <2>2
<1>12. t \in Seq(Range(t))
  <2>1. \A m \in 1 .. n : t[m] \in Range(t)
    BY <1>9 DEF Range
  <2>2. t = [m \in 1 .. n |-> t[m]]
    BY <1>5
  <2> QED
    BY <1>2, <2>1, <2>2
<1> QED
  BY <1>10, <1>11, <1>12 DEF IsSeq, t
-----------------------------------------------------------------------------
(* What CheckTx does to the checkState.                                    *)
LEMMA CheckTxApplied ==
  ASSUME NEW tx, check!ApplyTx(tx)
  PROVE  /\ cState' = cState
         /\ DOMAIN cParentByIssuer \subseteq DOMAIN cParentByIssuer'
         /\ tx.type = "Parent" => /\ tx.index = cState.MilestoneIndex
                                  /\ tx.issuer \notin DOMAIN cParentByIssuer
                                  /\ tx.issuer \in DOMAIN cParentByIssuer'
<1>1. CASE tx.type = "Parent" /\ check!ParentApply(tx.issuer, tx.index, tx.block)
  BY <1>1 DEF check!ParentApply, check!Put
<1>2. CASE tx.type = "Proof" /\ check!ProofApply(tx.issuer, tx.index, tx.block)
  BY <1>2 DEF check!ProofApply
<1>3. CASE /\ tx.type = "PartialSignature"
           /\ check!PartialSignatureApply(tx.issuer, tx.signature)
  BY <1>3 DEF check!PartialSignatureApply
<1> QED
  BY <1>1, <1>2, <1>3 DEF check!ApplyTx

(* A transaction that passes CheckTx is not in the mempool: the cache      *)
(* refuses one of the queue, the checkState a second proposal.             *)
LEMMA PassesOnce ==
  ASSUME MempoolInv, NEW tx, CheckTxPasses(tx), QueueTx(tx) \/ tx.type = "Parent"
  PROVE  tx \notin Range(mempool)
<1>1. tx \notin cache /\ check!ApplyTx(tx)
  BY DEF CheckTxPasses
<1>2. CASE QueueTx(tx)
  BY <1>1, <1>2 DEF MempoolInv, OwnCached, OfQueue, InMempool, QueueTx
<1>3. CASE tx.type = "Parent"
  BY <1>1, <1>3, CheckTxApplied DEF MempoolInv, ProposalsRegistered
<1> QED
  BY <1>2, <1>3

LEMMA PassesKeeps ==
  ASSUME MempoolInv, NEW tx, CheckTxPasses(tx), QueueTx(tx) \/ tx.type = "Parent",
         tx.type = "Parent" => tx.block \in Blocks,
         unchecked' = unchecked, phase' = phase, State' = State
  PROVE  MempoolInv'
<1>1. tx \notin Range(mempool) /\ unchecked = << >>
  BY PassesOnce DEF CheckTxPasses, mempoolLocked, MempoolInv, PhaseInv
<1>2. /\ mempool' = Append(mempool, tx)
      /\ cache' = cache \cup OfQueue({tx})
      /\ check!ApplyTx(tx)
  BY DEF CheckTxPasses
<1>3. IsSeq(mempool') /\ Distinct(mempool') /\ Range(mempool') = Range(mempool) \cup {tx}
  BY <1>1, <1>2, AppendOnce DEF MempoolInv, SequencesDistinct
<1>4. Range(unchecked) = {} /\ Range(unchecked') = {}
  BY <1>1 DEF Range
<1>5. SequencesDistinct'
  BY <1>3, <1>4 DEF MempoolInv, SequencesDistinct, IsSeq, Distinct
<1>6. OwnCached'
  BY <1>2, <1>3, <1>4 DEF MempoolInv, OwnCached, OfQueue, InMempool
<1>7. ProposalsRegistered'
  BY <1>2, <1>3, <1>4, CheckTxApplied DEF MempoolInv, ProposalsRegistered, InMempool
<1>8. CheckStateBehind' /\ PhaseInv'
  BY <1>2, CheckTxApplied DEF MempoolInv, CheckStateBehind, PhaseInv, Index
<1> QED
  BY <1>5, <1>6, <1>7, <1>8 DEF MempoolInv

(* A step that touches neither mempool nor checkState.                     *)
LEMMA MempoolQuiet ==
  ASSUME MempoolInv, UNCHANGED mempoolVars, cState' = cState,
         cParentByIssuer' = cParentByIssuer, State' = State,
         phase' = phase \/ {phase, phase'} \subseteq {"idle", "deliver", "commit"}
  PROVE  MempoolInv'
<1>1. mempool' = mempool /\ unchecked' = unchecked /\ cache' = cache
  BY DEF mempoolVars
<1>2. SequencesDistinct' /\ OwnCached' /\ ProposalsRegistered'
  BY <1>1 DEF MempoolInv, SequencesDistinct, IsSeq, Distinct, OwnCached, OfQueue,
              ProposalsRegistered, InMempool
<1>3. CheckStateBehind' /\ PhaseInv'
  BY <1>1 DEF MempoolInv, CheckStateBehind, PhaseInv, Index
<1> QED
  BY <1>2, <1>3 DEF MempoolInv

LEMMA MempoolCommit ==
  ASSUME MempoolInv, Commit
  PROVE  MempoolInv'
<1>1. /\ phase = "commit" /\ phase' = "copy" /\ cState' = cState
      /\ cParentByIssuer' = cParentByIssuer
      /\ mempool' = mempool /\ unchecked' = unchecked /\ cache' = cache
  BY DEF Commit, checkVars, mempoolVars
<1>2. SequencesDistinct' /\ OwnCached' /\ ProposalsRegistered'
  BY <1>1 DEF MempoolInv, SequencesDistinct, IsSeq, Distinct, OwnCached, OfQueue,
              ProposalsRegistered, InMempool
<1>3. Index' \in {Index, Index + 1}
  BY DEF Commit, Reset, NextState, Index, appVars
<1>4. CheckStateBehind' /\ PhaseInv'
  <2>1. cState.MilestoneIndex = Index /\ Index \in Nat
    BY <1>1 DEF MempoolInv, CheckStateBehind
  <2>2. cState'.MilestoneIndex = Index
    BY <1>1, <2>1
  <2>3. Index' \in Nat /\ cState'.MilestoneIndex \in {Index', Index' - 1}
    <3>1. CASE Index' = Index
      BY <2>1, <2>2, <3>1
    <3>2. CASE Index' = Index + 1
      BY <2>1, <2>2, <3>2
    <3> QED
      BY <1>3, <3>1, <3>2
  <2>4. CheckStateBehind'
    BY <1>1, <2>3 DEF CheckStateBehind
  <2> QED
    BY <1>1, <2>4 DEF MempoolInv, PhaseInv
<1> QED
  BY <1>2, <1>4 DEF MempoolInv

LEMMA MempoolCopy ==
  ASSUME MempoolInv, Copy
  PROVE  MempoolInv'
<1> DEFINE left == Without(mempool, DOMAIN block)
<1>1. /\ phase = "copy" /\ cState' = State /\ State' = State
      /\ mempool' = << >> /\ unchecked' = left
      /\ phase' = IF left = << >> THEN "idle" ELSE "recheck"
      /\ cache' = (cache \cup OfQueue({ tx \in DOMAIN block : block[tx] }))
                     \ { tx \in DOMAIN block : ~ block[tx] }
  BY DEF Copy, CopyState, appVars
<1>2. IsSeq(left) /\ Distinct(left) /\ Range(left) = Range(mempool) \ DOMAIN block
  BY WithoutOnce DEF MempoolInv, SequencesDistinct
<1> HIDE DEF left
<1>3. IsSeq(mempool') /\ Distinct(mempool') /\ Range(mempool') = {}
  <2>1. << >> \in Seq({}) /\ Range(<< >>) = {}
    BY DEF Range
  <2> QED
    BY <1>1, <2>1 DEF IsSeq, Distinct
<1>4. SequencesDistinct'
  BY <1>1, <1>2, <1>3 DEF SequencesDistinct, IsSeq, Distinct
<1>5. OwnCached'
  <2>1. InMempool' = Range(mempool) \ DOMAIN block
    BY <1>1, <1>2, <1>3 DEF InMempool
  <2>2. OfQueue(Range(mempool)) \subseteq cache
    BY DEF MempoolInv, OwnCached, OfQueue, InMempool
  <2>3. \A tx \in cache : tx \notin DOMAIN block => tx \in cache'
    BY <1>1
  <2> QED
    BY <2>1, <2>2, <2>3 DEF OwnCached, OfQueue
<1>6. ProposalsRegistered'
  BY <1>1, <1>2, <1>3 DEF MempoolInv, ProposalsRegistered, InMempool
<1>7. CheckStateBehind' /\ PhaseInv'
  BY <1>1 DEF MempoolInv, CheckStateBehind, PhaseInv, Index
<1> QED
  BY <1>4, <1>5, <1>6, <1>7 DEF MempoolInv

LEMMA MempoolRecheck ==
  ASSUME MempoolInv, RecheckTx
  PROVE  MempoolInv'
<1> DEFINE tx == Head(unchecked)
<1>1. /\ phase = "recheck" /\ State' = State
      /\ unchecked' = Tail(unchecked)
      /\ phase' = IF Len(unchecked) = 1 THEN "idle" ELSE "recheck"
  BY DEF RecheckTx, appVars
<1>2. unchecked # << >>
  BY <1>1 DEF MempoolInv, PhaseInv
<1>3. /\ IsSeq(unchecked') /\ Distinct(unchecked')
      /\ tx \in Range(unchecked)
      /\ Range(unchecked') = Range(unchecked) \ {tx}
      /\ (unchecked' # << >>) = (Len(unchecked) # 1)
  <2>1. IsSeq(unchecked) /\ Distinct(unchecked)
    BY DEF MempoolInv, SequencesDistinct
  <2>2. /\ IsSeq(Tail(unchecked)) /\ Distinct(Tail(unchecked))
        /\ Head(unchecked) \in Range(unchecked)
        /\ Range(Tail(unchecked)) = Range(unchecked) \ {Head(unchecked)}
        /\ (Tail(unchecked) # << >>) = (Len(unchecked) # 1)
    BY <1>2, <2>1, TailOnce
  <2> QED
    BY <1>1, <2>2 DEF IsSeq, Distinct
<1>4. tx \notin Range(mempool)
  BY <1>3 DEF MempoolInv, SequencesDistinct
<1>5. PhaseInv'
  BY <1>1, <1>3 DEF PhaseInv
<1>6. CASE check!ApplyTx(tx) /\ mempool' = Append(mempool, tx) /\ cache' = cache
  <2>1. /\ IsSeq(mempool') /\ Distinct(mempool')
        /\ Range(mempool') = Range(mempool) \cup {tx}
    BY <1>4, <1>6, AppendOnce DEF MempoolInv, SequencesDistinct
  <2>2. SequencesDistinct'
    BY <1>3, <2>1 DEF MempoolInv, SequencesDistinct
  <2>3. InMempool' = InMempool
    BY <1>3, <2>1 DEF InMempool
  <2>4. OwnCached'
    BY <1>6, <2>3 DEF MempoolInv, OwnCached, OfQueue
  <2>5. ProposalsRegistered'
    BY <1>6, <2>1, <2>3, CheckTxApplied DEF MempoolInv, ProposalsRegistered
  <2>6. CheckStateBehind'
    BY <1>1, <1>6, CheckTxApplied DEF MempoolInv, CheckStateBehind, Index
  <2> QED
    BY <1>5, <2>2, <2>4, <2>5, <2>6 DEF MempoolInv
<1>7. CASE cache' = cache \ {tx} /\ UNCHANGED << checkVars, mempool >>
  <2>1. mempool' = mempool /\ cState' = cState /\ cParentByIssuer' = cParentByIssuer
    BY <1>7 DEF checkVars
  <2>2. SequencesDistinct'
    BY <1>3, <2>1 DEF MempoolInv, SequencesDistinct, IsSeq, Distinct
  <2>3. InMempool' = InMempool \ {tx}
    BY <1>3, <1>4, <2>1 DEF InMempool
  <2>4. OwnCached'
    BY <1>7, <2>3 DEF MempoolInv, OwnCached, OfQueue
  <2>5. ProposalsRegistered'
    BY <2>1, <2>3 DEF MempoolInv, ProposalsRegistered
  <2>6. CheckStateBehind'
    BY <1>1, <2>1 DEF MempoolInv, CheckStateBehind, Index
  <2> QED
    BY <1>5, <2>2, <2>4, <2>5, <2>6 DEF MempoolInv
<1> QED
  BY <1>6, <1>7 DEF RecheckTx
-----------------------------------------------------------------------------
(* The queue, the proposals in the state, and the callbacks.               *)
LEMMA OwnQuiet ==
  ASSUME QueueSendsOwn, UNCHANGED queueVars
  PROVE  QueueSendsOwn'
  BY DEF QueueSendsOwn, queueVars, QueueTx

LEMMA OwnSubmit ==
  ASSUME BroadcastInv, QueueSendsOwn, NEW key, NEW tx, QueueTx(tx), Submit(key, tx)
  PROVE  QueueSendsOwn'
<1>1. /\ \A k \in Keys : pending'[k] \in {tx, pending[k]}
      /\ (executing' # Nil) => (executing # Nil /\ executing'.value = executing.value)
  BY Submitted DEF BroadcastInv
<1>2. ASSUME NEW k \in Keys, pending'[k] # Nil
      PROVE  QueueTx(pending'[k])
  BY <1>1, <1>2 DEF QueueSendsOwn
<1>3. (executing' # Nil) => QueueTx(executing'.value)
  BY <1>1 DEF QueueSendsOwn
<1> QED
  BY <1>2, <1>3 DEF QueueSendsOwn, QueueTx

LEMMA OwnStart ==
  ASSUME QueueSendsOwn, NEW k \in Keys, Start(k)
  PROVE  QueueSendsOwn'
<1>1. /\ pending' = pending /\ pending[k] # Nil
      /\ executing' = [key |-> k, value |-> pending[k], canceled |-> FALSE]
  BY DEF Start
<1> QED
  BY <1>1 DEF QueueSendsOwn, QueueTx

LEMMA OwnbroadcastTx ==
  ASSUME BroadcastInv, QueueSendsOwn, broadcastTx
  PROVE  QueueSendsOwn'
<1>1. Done \/ Failed
  BY DEF broadcastTx
<1>2. executing' = Nil /\ \A k \in Keys : pending'[k] \in {Nil, pending[k]}
  BY <1>1 DEF Done, Failed, BroadcastInv
<1> QED
  BY <1>2 DEF QueueSendsOwn, QueueTx

LEMMA OwnprocessParent ==
  ASSUME BroadcastInv, QueueSendsOwn, NEW call, processParent(call)
  PROVE  QueueSendsOwn'
<1>1. QueueTx(ProofTx(self, call.index, call.blockID))
  BY DEF QueueTx, ProofTx
<1> QED
  BY <1>1, OwnSubmit, OwnQuiet DEF processParent

LEMMA OwnCommit ==
  ASSUME BroadcastInv, QueueSendsOwn, Commit
  PROVE  QueueSendsOwn'
<1>1. QueueTx(PartialSignatureTx(self, Milestone))
  BY DEF QueueTx, PartialSignatureTx
<1> QED
  BY <1>1, OwnSubmit, OwnQuiet DEF Commit, broadcastPartial

LEMMA ProposedQuiet ==
  ASSUME ProposedAreBlocks, ParentByIssuer' = ParentByIssuer,
         DOMAIN callbacks' \subseteq DOMAIN callbacks
  PROVE  ProposedAreBlocks'
  BY DEF ProposedAreBlocks

(* Only a proposal that was gossiped, of a block, reaches the state.       *)
LEMMA ProposedDeliverTx ==
  ASSUME MempoolInv, ProposedAreBlocks, NEW tx \in Deliverable, DeliverTx(tx)
  PROVE  ProposedAreBlocks'
<1>1. callbacks' = callbacks
  BY DEF DeliverTx, solidVars
<1>2. tx.type = "Parent" => tx.block \in Blocks
  <2>1. CASE tx \in Range(mempool)
    BY <2>1 DEF MempoolInv, ProposalsRegistered, InMempool
  <2>2. CASE tx \in OthersTxs
    BY <2>2 DEF OthersTxs, OthersParents, ParentTx, ProofTx, PartialSignatureTx
  <2> QED
    BY <2>1, <2>2 DEF Deliverable
<1>3. CASE tx.type = "Parent" /\ ParentApply(tx.issuer, tx.index, tx.block)
  BY <1>1, <1>2, <1>3 DEF ParentApply, Put, ProposedAreBlocks
<1>4. CASE ParentByIssuer' = ParentByIssuer
  BY <1>1, <1>4, ProposedQuiet
<1> QED
  BY <1>3, <1>4 DEF DeliverTx, ApplyTx, ProofApply, PartialSignatureApply, appVars

LEMMA ProposedEndBlock ==
  ASSUME ProposedAreBlocks, EndBlock
  PROVE  ProposedAreBlocks'
<1>1. ParentByIssuer' = ParentByIssuer
  BY DEF EndBlock
<1>2. CASE CreateEssence
  BY <1>1, <1>2, ProposedQuiet DEF CreateEssence, EmptyMap
<1>3. CASE AwaitParents
  <2>1. DOMAIN callbacks' = Awaited \cup DOMAIN callbacks
    BY <1>3 DEF AwaitParents
  <2>2. Awaited \subseteq Blocks
    BY DEF Awaited, ProposedAreBlocks
  <2> QED
    BY <1>1, <2>1, <2>2 DEF ProposedAreBlocks
<1>4. CASE callbacks' = callbacks
  BY <1>1, <1>4, ProposedQuiet
<1> QED
  BY <1>2, <1>3, <1>4 DEF EndBlock

LEMMA ProposedCommit ==
  ASSUME ProposedAreBlocks, Commit
  PROVE  ProposedAreBlocks'
<1>1. callbacks' = callbacks
  BY DEF Commit, solidVars
<1>2. CASE MilestoneDone
  BY <1>1, <1>2 DEF Commit, Reset, EmptyMap, ProposedAreBlocks
<1>3. CASE ~ MilestoneDone
  BY <1>1, <1>3, ProposedQuiet DEF Commit, appVars
<1> QED
  BY <1>2, <1>3

-----------------------------------------------------------------------------
TypeInv == BroadcastInv /\ MempoolInv /\ NodeInv

LEMMA InitTypeInv == Init => TypeInv
<1> SUFFICES ASSUME Init
             PROVE  TypeInv
  OBVIOUS
<1>1. /\ mempool = << >> /\ unchecked = << >> /\ callbacks = EmptyMap
      /\ phase = "idle" /\ ParentByIssuer = EmptyMap /\ executing = Nil
      /\ pending = [k \in Keys |-> Nil]
  BY DEF Init, InitAppState
<1>2. Range(<< >>) = {} /\ << >> \in Seq({})
  BY DEF Range
<1>3. SequencesDistinct /\ OwnCached /\ ProposalsRegistered /\ PhaseInv
  BY <1>1, <1>2 DEF SequencesDistinct, IsSeq, Distinct, OwnCached, OfQueue, InMempool,
                    ProposalsRegistered, PhaseInv
<1>4. CheckStateBehind
  BY <1>1, CommitteeAssumption
     DEF Init, InitAppState, InitialState, check!InitAppState, check!InitialState,
         CheckStateBehind, Index
<1>5. NodeInv
  BY <1>1 DEF NodeInv, QueueSendsOwn, ProposedAreBlocks, EmptyMap
<1> QED
  BY <1>3, <1>4, <1>5, InitInv DEF TypeInv, MempoolInv

LEMMA NextTypeInv == TypeInv /\ [Next]_vars => TypeInv'
<1> SUFFICES ASSUME TypeInv, [Next]_vars
             PROVE  MempoolInv' /\ NodeInv'
  BY NextInv DEF TypeInv
<1>0. /\ BroadcastInv /\ MempoolInv
      /\ QueueSendsOwn /\ ProposedAreBlocks
  BY DEF TypeInv, NodeInv
<1>1. ASSUME NEW tx \in OthersTxs, Gossip(tx)
      PROVE  MempoolInv' /\ NodeInv'
  <2>1. tx.type = "Parent" /\ tx.block \in Blocks
    BY <1>1 DEF Gossip, OthersParents, ParentTx
  <2>2. MempoolInv'
    BY <1>0, <1>1, <2>1, PassesKeeps DEF Gossip, blockVars, appVars
  <2> QED
    BY <1>0, <1>1, <2>2, OwnQuiet, ProposedQuiet DEF Gossip, NodeInv, appVars, solidVars
<1>2. ASSUME NEW k \in Keys, Start(k)
      PROVE  MempoolInv' /\ NodeInv'
  BY <1>0, <1>2, MempoolQuiet, OwnStart, ProposedQuiet
     DEF Start, NodeInv, appVars, checkVars, blockVars, solidVars
<1>3. CASE broadcastTx
  <2>1. QueueTx(executing.value)
    BY <1>0, <1>3 DEF broadcastTx, QueueSendsOwn
  <2>2. PICK tx : tx = executing.value
    OBVIOUS
  <2>3. State' = State /\ phase' = phase /\ unchecked' = unchecked
    BY <1>3 DEF broadcastTx, appVars, blockVars
  <2>4. ASSUME CheckTxPasses(tx)
        PROVE  MempoolInv'
    <3>1. QueueTx(tx) /\ tx.type # "Parent"
      BY <2>1, <2>2 DEF QueueTx
    <3> QED
      BY <1>0, <2>3, <2>4, <3>1, PassesKeeps
  <2>5. ASSUME UNCHANGED << checkVars, mempool, cache >>
        PROVE  MempoolInv'
    <3>1. UNCHANGED mempoolVars /\ cState' = cState /\ cParentByIssuer' = cParentByIssuer
      BY <2>3, <2>5 DEF checkVars, mempoolVars
    <3> QED
      BY <1>0, <2>3, <3>1, MempoolQuiet
  <2>6. MempoolInv'
    BY <1>3, <2>2, <2>4, <2>5 DEF broadcastTx, CheckTxRefuses, InCache
  <2> QED
    BY <1>0, <1>3, <2>6, OwnbroadcastTx, ProposedQuiet
       DEF broadcastTx, NodeInv, appVars, solidVars
<1>4. ASSUME NEW b \in DOMAIN callbacks, BlockSolid(b)
      PROVE  MempoolInv' /\ NodeInv'
  BY <1>0, <1>4, MempoolQuiet, OwnQuiet, ProposedQuiet
     DEF BlockSolid, NodeInv, appVars, checkVars, blockVars
<1>5. ASSUME NEW call \in running, processParent(call)
      PROVE  MempoolInv' /\ NodeInv'
  BY <1>0, <1>5, MempoolQuiet, OwnprocessParent, ProposedQuiet
     DEF processParent, NodeInv, appVars, checkVars, blockVars
<1>6. ASSUME NEW b \in Blocks, TangleMoves(b)
      PROVE  MempoolInv' /\ NodeInv'
  BY <1>0, <1>6, MempoolQuiet, OwnQuiet, ProposedQuiet
     DEF TangleMoves, NodeInv, appVars, checkVars, blockVars, solidVars
<1>7. CASE BeginBlock
  BY <1>0, <1>7, MempoolQuiet, OwnQuiet, ProposedQuiet
     DEF BeginBlock, NodeInv, appVars, checkVars, solidVars
<1>8. ASSUME NEW tx \in Deliverable, DeliverTx(tx)
      PROVE  MempoolInv' /\ NodeInv'
  <2>1. State' = State
    BY <1>8 DEF DeliverTx, ApplyTx, ParentApply, ProofApply, PartialSignatureApply, appVars
  <2>2. MempoolInv'
    BY <1>0, <1>8, <2>1, MempoolQuiet DEF DeliverTx, checkVars
  <2> QED
    BY <1>0, <1>8, <2>2, OwnQuiet, ProposedDeliverTx DEF DeliverTx, NodeInv
<1>9. CASE EndBlock
  <2>1. MempoolInv'
    BY <1>0, <1>9, MempoolQuiet DEF EndBlock, checkVars
  <2> QED
    BY <1>0, <1>9, <2>1, OwnQuiet, ProposedEndBlock DEF EndBlock, NodeInv
<1>10. CASE Commit
  BY <1>0, <1>10, MempoolCommit, OwnCommit, ProposedCommit DEF NodeInv
<1>11. CASE Copy
  BY <1>0, <1>11, MempoolCopy, OwnQuiet, ProposedQuiet DEF Copy, NodeInv, appVars, solidVars
<1>12. CASE RecheckTx
  BY <1>0, <1>12, MempoolRecheck, OwnQuiet, ProposedQuiet
     DEF RecheckTx, NodeInv, appVars, solidVars
<1>13. CASE UNCHANGED vars
  BY <1>0, <1>13, MempoolQuiet, OwnQuiet, ProposedQuiet
     DEF vars, NodeInv, appVars, checkVars, blockVars, solidVars
<1> QED
  BY <1>1, <1>2, <1>3, <1>4, <1>5, <1>6, <1>7, <1>8, <1>9, <1>10, <1>11, <1>12, <1>13
     DEF Next

LEMMA AlwaysTypeInv == Spec => []TypeInv
  BY InitTypeInv, NextTypeInv, PTL DEF Spec

(* The mempool holds a transaction once, although it is checked against a  *)
(* state that is copied while transactions wait and is checked again after *)
(* the copy; the cache knows all that the queue has got in; the checkState *)
(* is one milestone behind only while Commit has not copied it (app.go 56, *)
(* 204, 233).                                                              *)
THEOREM BroadcastTypeCorrect == Spec => []TypeOK
<1>1. ASSUME TypeInv
      PROVE  TypeOK
  <2>1. cState.MilestoneIndex \in {Index, Index - 1}
    BY <1>1 DEF TypeInv, MempoolInv, CheckStateBehind
  <2> QED
    BY <1>1, <2>1
       DEF TypeOK, TypeInv, MempoolInv, NodeInv, SequencesDistinct, Distinct, OwnCached,
           OfQueue, InMempool, PhaseInv, ProposedAreBlocks
<1> QED
  BY <1>1, AlwaysTypeInv, PTL
=============================================================================
