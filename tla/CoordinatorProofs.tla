-------------------------- MODULE CoordinatorProofs --------------------------
(***************************************************************************)
(* Proofs about Coordinator, for every committee, fault set, set of blocks *)
(* and bound.                                                              *)
(***************************************************************************)
EXTENDS Coordinator, Ranking, FiniteSetTheorems, TLAPS

(* The number of faulty members is a natural number.                       *)
LEMMA FaultyType == F \in Nat
  BY CommitteeAssumption DEF F, maxFaulty

(* The members of a committee are finitely many validators.                *)
LEMMA MembersFinite ==
  ASSUME NEW i
  PROVE  Members(i) \subseteq Validators /\ IsFiniteSet(Members(i))
<1>1. Members(i) \subseteq Validators
  BY CommitteeAssumption DEF Members
<1> QED
  BY <1>1, FS_Subset, CommitteeAssumption

(* A transaction that is delivered changes the application state by one of *)
(* the three Apply functions; its issuer is a member of the committee, and *)
(* a correct issuer has sent it.                                           *)
LEMMA DeliverCases ==
  ASSUME TypeInv, NEW tx \in sent \cup ByzantineTxs, DeliverTx(tx)
  PROVE  /\ tx.issuer \in Members(State.MilestoneIndex)
         /\ \/ /\ ParentApply(tx.issuer, State.MilestoneIndex, tx.block)
               /\ tx.block \in Candidates
               /\ tx.issuer \in Honest =>
                    ParentTx(tx.issuer, State.MilestoneIndex, tx.block) \in sent
            \/ /\ ProofApply(tx.issuer, State.MilestoneIndex, tx.block)
               /\ tx.block \in Candidates
               /\ tx.issuer \in Honest =>
                    ProofTx(tx.issuer, State.MilestoneIndex, tx.block) \in sent
            \/ /\ PartialSignatureApply(tx.issuer, tx.signature)
               /\ tx.issuer \in Honest =>
                    PartialSignatureTx(tx.issuer, tx.signature) \in sent
<1>1. tx.issuer \in Members(State.MilestoneIndex)
  BY DEF DeliverTx, ApplyTx, VerifySingle
<1>2. CASE tx \in sent
  <2>1. CASE tx.type = "Parent" /\ ParentApply(tx.issuer, tx.index, tx.block)
    BY <1>1, <1>2, <2>1 DEF TypeInv, SentCurrent, ParentApply
  <2>2. CASE tx.type = "Proof" /\ ProofApply(tx.issuer, tx.index, tx.block)
    <3>1. tx = ProofTx(tx.issuer, tx.index, tx.block) /\ tx.index = State.MilestoneIndex
      BY <1>2, <2>2 DEF TypeInv, SentCurrent, ProofApply
    <3>2. tx.block \in Candidates
      BY <1>2, <2>2, <3>1 DEF TypeInv, SentCurrent
    <3> QED
      BY <1>1, <1>2, <2>2, <3>1, <3>2 DEF ProofApply
  <2>3. CASE tx.type = "PartialSignature" /\ PartialSignatureApply(tx.issuer, tx.signature)
    BY <1>1, <1>2, <2>3 DEF TypeInv, SentCurrent, PartialSignatureApply
  <2> QED
    BY <2>1, <2>2, <2>3 DEF DeliverTx, ApplyTx
<1>3. CASE tx \in ByzantineTxs
  <2>1. tx.issuer \notin Honest
    BY <1>3 DEF ByzantineTxs, Honest, ParentTx, ProofTx, PartialSignatureTx
  <2>2. tx.type \in {"Parent", "Proof"} => tx.block \in Candidates
    BY <1>3 DEF ByzantineTxs, ParentTx, ProofTx, PartialSignatureTx
  <2> QED
    BY <1>1, <2>1, <2>2 DEF DeliverTx, ApplyTx, ParentApply, ProofApply
<1> QED
  BY <1>2, <1>3

-----------------------------------------------------------------------------
(* Type correctness: the state after Bootstrap is well typed.              *)
LEMMA TypeInit == Init => TypeInv
  BY CommitteeAssumption, BlockTimeAssumption
  DEF Init, InitAppState, InitialState, EmptyMap, TypeInv, TypeOK, Candidates,
      SentCurrent, CallbacksOfCandidates, CallbacksCurrent, BlockStatus, Honest

(* Every handler keeps the state well typed.  A callback keeps its index   *)
(* because EndBlock clears the callbacks before the index can change.      *)
LEMMA TypeStep == TypeInv /\ [Next]_vars => TypeInv'
<1> SUFFICES ASSUME TypeInv, [Next]_vars PROVE TypeInv'
  OBVIOUS
<1> USE CommitteeAssumption, BlockTimeAssumption
<1>1. ASSUME NEW v \in Honest, NEW b \in Candidates, ProposeParent(v, b)
      PROVE  TypeInv'
  BY <1>1 DEF ProposeParent, TypeInv, TypeOK, SentCurrent, CallbacksOfCandidates,
              CallbacksCurrent, Candidates, appVars, ParentTx, ProofTx, PartialSignatureTx
<1>2. ASSUME NEW v \in Honest, NEW b \in DOMAIN callbacks[v], processParent(v, b)
      PROVE  TypeInv'
  <2>1. callbacks[v][b] = State.MilestoneIndex /\ b \in Candidates
    BY DEF TypeInv, CallbacksCurrent, CallbacksOfCandidates
  <2>2. SentCurrent'
    BY <1>2, <2>1 DEF processParent, TypeInv, TypeOK, SentCurrent, Candidates, appVars,
                 ParentTx, ProofTx, PartialSignatureTx
  <2>3. /\ DOMAIN callbacks' = Honest
        /\ \A w \in Honest : /\ DOMAIN callbacks'[w] \subseteq DOMAIN callbacks[w]
                            /\ \A x \in DOMAIN callbacks'[w] : callbacks'[w][x] = callbacks[w][x]
                            /\ callbacks'[w] \in [DOMAIN callbacks'[w] -> Nat]
    BY <1>2 DEF processParent, TypeInv, TypeOK
  <2> QED
    BY <1>2, <2>2, <2>3 DEF processParent, TypeInv, TypeOK, CallbacksOfCandidates,
              CallbacksCurrent, Candidates, appVars
<1>3. ASSUME NEW dt \in TimeSteps, BeginBlock(dt)
      PROVE  TypeInv'
  BY <1>3 DEF BeginBlock, TypeInv, TypeOK, SentCurrent, CallbacksOfCandidates,
              CallbacksCurrent, Candidates, appVars
<1>4. ASSUME NEW tx \in sent \cup ByzantineTxs, DeliverTx(tx)
      PROVE  TypeInv'
  <2>1. UNCHANGED << envVars, State >> /\ tx.issuer \in Members(State.MilestoneIndex)
    BY <1>4, DeliverCases
    DEF DeliverTx, ApplyTx, ParentApply, ProofApply, PartialSignatureApply
  <2>2. CASE ParentApply(tx.issuer, State.MilestoneIndex, tx.block) /\ tx.block \in Candidates
    BY <2>1, <2>2
    DEF ParentApply, Put, IssuerCount, envVars, TypeInv, TypeOK, SentCurrent,
        CallbacksOfCandidates, CallbacksCurrent, Candidates
  <2>3. CASE ProofApply(tx.issuer, State.MilestoneIndex, tx.block) /\ tx.block \in Candidates
    BY <2>1, <2>3
    DEF ProofApply, Put, IssuerCount, ProofIssuers, envVars, TypeInv, TypeOK, SentCurrent,
        CallbacksOfCandidates, CallbacksCurrent, Candidates
  <2>4. CASE PartialSignatureApply(tx.issuer, tx.signature)
    BY <2>1, <2>4
    DEF PartialSignatureApply, Put, envVars, TypeInv, TypeOK, SentCurrent,
        CallbacksOfCandidates, CallbacksCurrent, Candidates
  <2> QED
    BY <1>4, <2>2, <2>3, <2>4, DeliverCases
<1>5. CASE EndBlock
  <2>1. CASE CreateEssence
    BY <1>5, <2>1 DEF EndBlock, CreateEssence, EmptyMap, TypeInv, TypeOK, SentCurrent,
              CallbacksOfCandidates, CallbacksCurrent, Candidates
  <2>2. CASE AwaitParents
    BY <1>5, <2>2 DEF EndBlock, AwaitParents, registerProcessParentOnSolid, Awaited, TypeInv,
              TypeOK, SentCurrent, CallbacksOfCandidates, CallbacksCurrent, Candidates
  <2>3. CASE Milestone # Nil /\ UNCHANGED << callbacks, Milestone >>
    BY <1>5, <2>3 DEF EndBlock, TypeInv, TypeOK, SentCurrent, CallbacksOfCandidates,
              CallbacksCurrent, Candidates
  <2> QED
    BY <1>5, <2>1, <2>2, <2>3 DEF EndBlock
<1>6. CASE Commit
  <2>1. \A tx \in sent' \ sent : \E v \in Honest : tx = PartialSignatureTx(v, Milestone)
    BY <1>6 DEF Commit, broadcastPartial
  <2>2. CASE MilestoneDone /\ Reset(NextState(header.Height))
    BY <1>6, <2>1, <2>2 DEF Commit, MilestoneDone, Reset, NextState, EmptyMap, TypeInv, TypeOK,
              SentCurrent, CallbacksOfCandidates, CallbacksCurrent, Candidates,
              ParentTx, ProofTx, PartialSignatureTx
  <2>3. CASE UNCHANGED appVars
    BY <1>6, <2>1, <2>3 DEF Commit, appVars, TypeInv, TypeOK, SentCurrent,
              CallbacksOfCandidates, CallbacksCurrent, Candidates,
              ParentTx, ProofTx, PartialSignatureTx
  <2> QED
    BY <1>6, <2>2, <2>3 DEF Commit
<1>7. ASSUME NEW b \in Blocks, BlockSolid(b) \/ BlockOutdated(b)
      PROVE  TypeInv'
  BY <1>7 DEF BlockSolid, BlockOutdated, BlockStatus, TypeInv, TypeOK, SentCurrent,
              CallbacksOfCandidates, CallbacksCurrent, Candidates, appVars
<1>8. CASE UNCHANGED vars
  BY <1>8 DEF vars, appVars, envVars, TypeInv, TypeOK, SentCurrent,
              CallbacksOfCandidates, CallbacksCurrent, Candidates
<1> QED
  BY <1>1, <1>2, <1>3, <1>4, <1>5, <1>6, <1>7, <1>8 DEF Next

(* Every reachable state is well typed, and every registered callback      *)
(* belongs to the current milestone.                                       *)
THEOREM TypeCorrect == Spec => [](TypeOK /\ CallbacksCurrent)
<1>1. TypeInv => TypeOK /\ CallbacksCurrent
  BY DEF TypeInv
<1> QED
  BY TypeInit, TypeStep, <1>1, PTL DEF Spec

-----------------------------------------------------------------------------
(* A parent nobody proposed counts 0.                                      *)
LEMMA IssuerCountType ==
  ASSUME TypeOK, NEW b
  PROVE  IssuerCount(b) \in Nat
  BY DEF TypeOK, IssuerCount

(* Proposers are members, so there are finitely many.                      *)
LEMMA ProposersFinite ==
  ASSUME TypeOK, NEW S \in SUBSET DOMAIN ParentByIssuer
  PROVE  IsFiniteSet(S)
<1>1. S \in SUBSET Members(State.MilestoneIndex)
  BY DEF TypeOK
<1> QED
  BY <1>1, MembersFinite, FS_Subset

(* Members that are not honest are at most F.                              *)
LEMMA FewByzantine ==
  ASSUME TypeOK, State.MilestoneIndex <= MaxIndex,
         NEW S \in SUBSET Members(State.MilestoneIndex), S \cap Honest = {}
  PROVE  IsFiniteSet(S) /\ Cardinality(S) <= F
<1> DEFINE B == Byzantine \cap Members(State.MilestoneIndex)
<1>1. Members(State.MilestoneIndex) \subseteq Validators
      /\ IsFiniteSet(Members(State.MilestoneIndex))
  BY MembersFinite
<1>2. S \in SUBSET B
  BY <1>1 DEF TypeOK, Honest
<1>3. IsFiniteSet(B)
  BY <1>1, FS_Intersection
<1>4. Cardinality(B) <= F
  BY FaultAssumption, CommitteeAssumption DEF TypeOK
<1>5. IsFiniteSet(S) /\ Cardinality(S) <= Cardinality(B)
  BY <1>2, <1>3, FS_Subset
<1>6. Cardinality(S) \in Nat /\ Cardinality(B) \in Nat /\ F \in Nat
  BY <1>3, <1>5, FS_CardinalityType, FaultyType
<1> QED
  BY <1>4, <1>5, <1>6

(* The weight EndBlock computes from the issuer counts is the number of    *)
(* proposers of valid parents: the pairs of a valid parent b and a number  *)
(* up to its count are mapped one to one to the proposers of b.            *)
LEMMA WeightCounts ==
  ASSUME TypeOK, CountsMatch
  PROVE  ParentWeight \in Nat /\ WeightIsProposers
<1> DEFINE I == ProposersOfValidParents
           Pairs == UNION { {b} \X (1 .. IssuerCount(b)) : b \in ValidParents }
           Numbering(b) == CHOOSE f : f \in Bijection(1 .. IssuerCount(b), Proposers(b))
           g == [p \in Pairs |-> Numbering(p[1])[p[2]]]
<1>1. IsFiniteSet(I)
  BY ProposersFinite DEF ProposersOfValidParents
<1>2. ASSUME NEW b \in ValidParents
      PROVE  Numbering(b) \in Bijection(1 .. IssuerCount(b), Proposers(b))
  <2>1. IsFiniteSet(Proposers(b))
    BY ProposersFinite DEF Proposers
  <2>2. IssuerCount(b) = Cardinality(Proposers(b))
    BY <1>2 DEF ValidParents, IssuerCount, CountsMatch, TypeOK
  <2>3. \E f : f \in Bijection(1 .. IssuerCount(b), Proposers(b))
    BY <2>1, <2>2, FS_CardinalityType DEF ExistsBijection
  <2> QED
    BY <2>3
<1>3. ASSUME NEW p \in Pairs
      PROVE  /\ p[1] \in ValidParents
             /\ p[2] \in 1 .. IssuerCount(p[1])
             /\ p = << p[1], p[2] >>
  BY <1>3
<1>4. ASSUME NEW p \in Pairs
      PROVE  g[p] \in I /\ ParentByIssuer[g[p]] = p[1]
  BY <1>2, <1>3, <1>4 DEF Bijection, Injection, Proposers, ProposersOfValidParents
<1>5. \A p \in Pairs : g[p] = Numbering(p[1])[p[2]]
  OBVIOUS
<1>6. g \in [Pairs -> I]
  BY <1>4
<1>7. ASSUME NEW v \in I
      PROVE  \E p \in Pairs : g[p] = v
  <2> DEFINE b == ParentByIssuer[v]
  <2>1. b \in ValidParents /\ v \in Proposers(b)
    BY DEF Proposers, ProposersOfValidParents
  <2>2. PICK i \in 1 .. IssuerCount(b) : Numbering(b)[i] = v
    <3>1. Numbering(b) \in Surjection(1 .. IssuerCount(b), Proposers(b))
      BY <1>2, <2>1 DEF Bijection
    <3> HIDE DEF Numbering, b
    <3> QED
      BY <2>1, <3>1 DEF Surjection
  <2>3. << b, i >> \in Pairs
    BY <2>1, <2>2
  <2>4. g[<< b, i >>] = v
    BY <1>5, <2>2, <2>3
  <2> QED
    BY <2>3, <2>4
<1> HIDE DEF I, Pairs, Numbering, g
<1>8. ASSUME NEW p \in Pairs, NEW q \in Pairs, g[p] = g[q]
      PROVE  p = q
  <2>1. p[1] = q[1]
    BY <1>4, <1>8
  <2>2. Numbering(p[1])[p[2]] = Numbering(p[1])[q[2]]
    BY <1>5, <1>8, <2>1
  <2>3. p[2] \in 1 .. IssuerCount(p[1]) /\ q[2] \in 1 .. IssuerCount(p[1])
    BY <1>3, <2>1
  <2>4. Numbering(p[1]) \in Injection(1 .. IssuerCount(p[1]), Proposers(p[1]))
    BY <1>2, <1>3 DEF Bijection
  <2>5. p[2] = q[2]
    BY <2>2, <2>3, <2>4 DEF Injection, IsInjective
  <2> QED
    BY <1>3, <2>1, <2>5
<1>9. g \in Injection(Pairs, I) /\ g \in Surjection(Pairs, I)
  BY <1>6, <1>7, <1>8 DEF Injection, IsInjective, Surjection
<1>10. IsFiniteSet(Pairs) /\ Cardinality(Pairs) = Cardinality(I)
  BY <1>1, <1>9, FS_Injection
<1>11. Cardinality(Pairs) \in Nat
  BY <1>10, FS_CardinalityType
<1> QED
  BY <1>10, <1>11 DEF ParentWeight, WeightIsProposers, Pairs, I

(* The order of createMilestoneEssence is strict.                          *)
LEMMA SortsBeforeIrreflexive ==
  ASSUME TypeOK, NEW a \in Blocks
  PROVE  ~ SortsBefore(a, a)
  BY IssuerCountType, BlockIDOrderAssumption DEF SortsBefore

(* The order of createMilestoneEssence is transitive.                      *)
LEMMA SortsBeforeTransitive ==
  ASSUME TypeOK, NEW a \in Blocks, NEW b \in Blocks, NEW c \in Blocks,
         SortsBefore(a, b), SortsBefore(b, c)
  PROVE  SortsBefore(a, c)
<1>1. IssuerCount(a) \in Nat /\ IssuerCount(b) \in Nat /\ IssuerCount(c) \in Nat
  BY IssuerCountType
<1> QED
  BY <1>1, BlockIDOrderAssumption DEF SortsBefore

(* A set of natural numbers has a smallest element.                        *)
LEMMA SmallestOf ==
  ASSUME NEW S \in SUBSET Nat, S # {}
  PROVE  \E m \in S : \A k \in S : m <= k
<1> DEFINE Less == { p \in Nat \X Nat : p[1] < p[2] }
<1>1. IsWellFoundedOn(Less, Nat)
  BY NatLessThanWellFounded, Zenon DEF OpToRel
<1>2. \E m \in S : \A k \in S : ~ (<< k, m >> \in Less)
  <2> HIDE DEF Less
  <2> QED
    BY <1>1, WFMin
<1>3. PICK m \in S : \A k \in S : ~ (<< k, m >> \in Less)
  BY <1>2
<1>4. ASSUME NEW k \in S PROVE m <= k
  <2>1. m \in Nat /\ k \in Nat
    OBVIOUS
  <2>2. k < m => << k, m >> \in Less
    BY <2>1
  <2> QED
    BY <1>3, <2>1, <2>2
<1> QED
  BY <1>4

(* Every valid parent has a proposer.                                      *)
LEMMA ValidParentsProposed ==
  ASSUME TypeOK, CountsMatch, NEW b \in ValidParents
  PROVE  Proposers(b) # {}
<1>1. IsFiniteSet(Proposers(b))
  BY ProposersFinite DEF Proposers
<1>2. Cardinality(Proposers(b)) > 0
  BY DEF ValidParents, IssuerCount, CountsMatch, TypeOK
<1> QED
  BY <1>1, <1>2, FS_EmptySet

(* The valid parents besides the last milestone block are finitely many    *)
(* ordinary blocks.                                                        *)
LEMMA ValidParentsFinite ==
  ASSUME TypeOK, CountsMatch
  PROVE  LET P == ValidParents \ {State.LastMilestoneBlockID}
         IN  P \subseteq Blocks /\ IsFiniteSet(P)
<1>1. ValidParents \in SUBSET DOMAIN IssuerCountByParent
  BY DEF ValidParents, TypeOK
<1>2. IsFiniteSet(ValidParents \ {State.LastMilestoneBlockID})
  BY <1>1, FS_Subset DEF CountsMatch
<1> QED
  BY <1>1, <1>2 DEF TypeOK, Candidates

(* Cutting the parents off keeps a parent of an honest member.  Take the   *)
(* first parent in the order that has an honest proposer: all parents      *)
(* before it have Byzantine proposers only, different ones, so there are   *)
(* at most F < BlockMaxParents-1 of them.                                  *)
LEMMA TruncateKeepsHonest ==
  ASSUME TypeOK, CountsMatch, State.MilestoneIndex <= MaxIndex,
         NEW P \in SUBSET ValidParents, P \subseteq Blocks, IsFiniteSet(P),
         NEW v \in Honest \cap DOMAIN ParentByIssuer, ParentByIssuer[v] \in P
  PROVE  \E w \in Honest \cap DOMAIN ParentByIssuer : ParentByIssuer[w] \in Truncate(P)
<1> DEFINE Before(b) == { a \in P : SortsBefore(a, b) }
           H == { b \in P : Proposers(b) \cap Honest # {} }
           Ranks == { Cardinality(Before(b)) : b \in H }
<1>1. ASSUME NEW b
      PROVE  IsFiniteSet(Before(b)) /\ Cardinality(Before(b)) \in Nat
  <2>1. Before(b) \in SUBSET P
    OBVIOUS
  <2> QED
    BY <2>1, FS_Subset, FS_CardinalityType
<1>2. ParentByIssuer[v] \in H
  BY DEF Proposers
<1>3. Ranks \in SUBSET Nat /\ Ranks # {}
  BY <1>1, <1>2
<1>4. PICK first \in H : \A b \in H : Cardinality(Before(first)) <= Cardinality(Before(b))
  <2> HIDE DEF Before, H
  <2>1. PICK m \in Ranks : \A k \in Ranks : m <= k
    BY <1>3, SmallestOf
  <2> QED
    BY <2>1
<1>5. ASSUME NEW a \in Before(first), a \in H
      PROVE  FALSE
  <2>1. a \in Blocks /\ first \in Blocks /\ SortsBefore(a, first)
    BY <1>5
  <2>2. Before(a) \in SUBSET Before(first)
    BY <2>1, SortsBeforeTransitive
  <2>3. a \notin Before(a)
    BY <2>1, SortsBeforeIrreflexive
  <2>4. Cardinality(Before(a)) <= Cardinality(Before(first))
        /\ Cardinality(Before(a)) # Cardinality(Before(first))
    BY <1>1, <1>5, <2>2, <2>3, FS_Subset
  <2> HIDE DEF Before, H
  <2>5. Cardinality(Before(a)) \in Nat /\ Cardinality(Before(first)) \in Nat
    BY <1>1
  <2> QED
    BY <1>4, <1>5, <2>4, <2>5
<1>6. Cardinality(Before(first)) <= F
  <2> DEFINE S == { w \in DOMAIN ParentByIssuer : ParentByIssuer[w] \in Before(first) }
             g == [a \in Before(first) |-> CHOOSE w : w \in Proposers(a)]
  <2>1. S \cap Honest = {}
    BY <1>5 DEF Proposers
  <2>2. IsFiniteSet(S) /\ Cardinality(S) <= F
    BY <2>1, FewByzantine DEF TypeOK
  <2>3. ASSUME NEW a \in Before(first)
        PROVE  g[a] \in S /\ ParentByIssuer[g[a]] = a
    <3>1. Proposers(a) # {}
      BY <2>3, ValidParentsProposed
    <3>2. g[a] \in Proposers(a)
      BY <3>1
    <3> QED
      BY <3>2 DEF Proposers
  <2>4. g \in [Before(first) -> S]
    BY <2>3
  <2> HIDE DEF Before, S, g
  <2>5. g \in Injection(Before(first), S)
    BY <2>3, <2>4 DEF Injection, IsInjective
  <2>6. Cardinality(Before(first)) <= Cardinality(S)
    BY <2>2, <2>5, FS_Injection
  <2>7. Cardinality(Before(first)) \in Nat /\ Cardinality(S) \in Nat /\ F \in Nat
    BY <1>1, <2>2, FS_CardinalityType, FaultyType
  <2> QED
    BY <2>2, <2>6, <2>7
<1>7. Cardinality(Before(first)) < BlockMaxParents - 1
  BY <1>1, <1>6, FaultyType, ParentsAssumption
<1>8. first \in Truncate(P)
  BY <1>7 DEF Truncate
<1>9. PICK w \in Proposers(first) : w \in Honest
  OBVIOUS
<1> QED
  BY <1>8, <1>9 DEF Proposers

(* Enough weight means an honest parent among those of the milestone.      *)
LEMMA HonestParentSelected ==
  ASSUME TypeOK, CountsMatch, State.MilestoneIndex <= MaxIndex, ParentWeight > F
  PROVE  \E v \in Honest \cap DOMAIN ParentByIssuer : ParentByIssuer[v] \in MilestoneParents
<1> DEFINE I == ProposersOfValidParents
           P == ValidParents \ {State.LastMilestoneBlockID}
<1>1. I \cap Honest # {}
  <2>1. ParentWeight \in Nat /\ ParentWeight = Cardinality(I)
    BY WeightCounts DEF WeightIsProposers
  <2>2. I \in SUBSET DOMAIN ParentByIssuer /\ IsFiniteSet(I)
    BY ProposersFinite DEF ProposersOfValidParents
  <2>3. Cardinality(I) \in Nat /\ F \in Nat
    BY <2>2, FS_CardinalityType, FaultyType
  <2> HIDE DEF I
  <2>4. ~ (Cardinality(I) <= F)
    BY <2>1, <2>3
  <2> QED
    BY <2>2, <2>4, FewByzantine DEF TypeOK
<1>2. PICK v \in Honest \cap DOMAIN ParentByIssuer : ParentByIssuer[v] \in ValidParents
  BY <1>1 DEF ProposersOfValidParents
<1>3. CASE ParentByIssuer[v] = State.LastMilestoneBlockID
  BY <1>3 DEF MilestoneParents
<1>4. CASE ParentByIssuer[v] \in P
  <2>1. P \in SUBSET ValidParents /\ P \subseteq Blocks /\ IsFiniteSet(P)
    BY ValidParentsFinite
  <2>2. \E w \in Honest \cap DOMAIN ParentByIssuer : ParentByIssuer[w] \in Truncate(P)
    <3> HIDE DEF P
    <3> QED
      BY <1>4, <2>1, TruncateKeepsHonest
  <2> QED
    BY <2>2 DEF MilestoneParents
<1> QED
  BY <1>2, <1>3, <1>4

(* A step that only adds to what was sent keeps the milestones honest.     *)
LEMMA HonestParentMonotone ==
  ASSUME HonestParent, sent \subseteq sent', Essences' \subseteq Essences
  PROVE  HonestParent'
  BY DEF HonestParent, HasHonestParent

(* After Bootstrap nothing is proposed, sent or issued.                    *)
LEMMA HonestParentInit == Init => HonestParentInv
<1> SUFFICES ASSUME Init PROVE HonestParentInv
  OBVIOUS
<1>1. TypeInv
  BY TypeInit
<1>2. CountsMatch /\ ProposalsSent
  BY FS_EmptySet DEF Init, InitAppState, EmptyMap, CountsMatch, ProposalsSent
<1>3. EssenceCurrent /\ HonestParent
  BY DEF Init, InitAppState, EssenceCurrent, HonestParent, Essences
<1> QED
  BY <1>1, <1>2, <1>3 DEF HonestParentInv

(* One more proposal keeps the counts right.                               *)
LEMMA ParentApplyCounts ==
  ASSUME TypeOK, CountsMatch, NEW v, NEW b,
         ParentApply(v, State.MilestoneIndex, b)
  PROVE  CountsMatch'
<1>1. /\ v \notin DOMAIN ParentByIssuer
      /\ DOMAIN ParentByIssuer' = DOMAIN ParentByIssuer \cup {v}
      /\ ParentByIssuer'[v] = b
      /\ \A w \in DOMAIN ParentByIssuer : ParentByIssuer'[w] = ParentByIssuer[w]
  BY DEF ParentApply, Put
<1>2. /\ DOMAIN IssuerCountByParent' = DOMAIN IssuerCountByParent \cup {b}
      /\ IssuerCountByParent'[b] = IssuerCount(b) + 1
      /\ \A x \in DOMAIN IssuerCountByParent \ {b} :
            IssuerCountByParent'[x] = IssuerCountByParent[x]
  BY DEF ParentApply, Put
<1>3. IsFiniteSet(DOMAIN IssuerCountByParent')
  BY <1>2, FS_AddElement DEF CountsMatch
<1>4. \A w \in DOMAIN ParentByIssuer' : ParentByIssuer'[w] \in DOMAIN IssuerCountByParent'
  BY <1>1, <1>2 DEF CountsMatch
<1>5. Proposers(b)' = Proposers(b) \cup {v} /\ v \notin Proposers(b)
  BY <1>1 DEF Proposers
<1>6. ASSUME NEW x, x # b PROVE Proposers(x)' = Proposers(x)
  BY <1>1, <1>6 DEF Proposers
<1>7. IsFiniteSet(Proposers(b)) /\ Cardinality(Proposers(b)) = IssuerCount(b)
  <2>1. IsFiniteSet(Proposers(b))
    BY ProposersFinite DEF Proposers
  <2>2. b \notin DOMAIN IssuerCountByParent => Proposers(b) = {}
    BY DEF CountsMatch, Proposers
  <2> QED
    BY <2>1, <2>2, FS_EmptySet DEF IssuerCount, CountsMatch
<1>8. Cardinality(Proposers(b)') = IssuerCount(b) + 1
  BY <1>5, <1>7, FS_AddElement
<1>9. \A x \in DOMAIN IssuerCountByParent' : IssuerCountByParent'[x] = Cardinality(Proposers(x)')
  BY <1>2, <1>6, <1>8 DEF CountsMatch
<1> QED
  BY <1>3, <1>4, <1>9 DEF CountsMatch

(* Every handler preserves the invariant.  EndBlock is the step that needs *)
(* it: the counts are those of proposers, at most F of whom are Byzantine, *)
(* and what an honest one proposed it has sent.                            *)
LEMMA HonestParentStep == HonestParentInv /\ [Next]_vars => HonestParentInv'
<1> SUFFICES ASSUME HonestParentInv, [Next]_vars PROVE HonestParentInv'
  OBVIOUS
<1>0. TypeInv /\ TypeInv' /\ TypeOK
  BY TypeStep DEF HonestParentInv, TypeInv
<1>1. ASSUME UNCHANGED << appVars, milestones >>, sent \subseteq sent'
      PROVE  HonestParentInv'
  <2>1. Essences' = Essences
    BY <1>1 DEF Essences, appVars
  <2>2. HonestParent'
    BY <1>1, <2>1, HonestParentMonotone DEF HonestParentInv
  <2>3. CountsMatch' /\ ProposalsSent' /\ EssenceCurrent'
    BY <1>1 DEF HonestParentInv, appVars, CountsMatch, Proposers, ProposalsSent, EssenceCurrent
  <2> QED
    BY <1>0, <2>2, <2>3 DEF HonestParentInv
<1>2. ASSUME NEW tx \in sent \cup ByzantineTxs, DeliverTx(tx)
      PROVE  HonestParentInv'
  <2>1. UNCHANGED << State, Milestone, milestones, sent >>
    BY <1>2 DEF DeliverTx, ApplyTx, ParentApply, ProofApply, PartialSignatureApply, envVars
  <2>2. HonestParent' /\ EssenceCurrent'
    BY <2>1, HonestParentMonotone DEF HonestParentInv, EssenceCurrent, Essences
  <2>3. CASE /\ ParentApply(tx.issuer, State.MilestoneIndex, tx.block)
             /\ tx.issuer \in Honest =>
                  ParentTx(tx.issuer, State.MilestoneIndex, tx.block) \in sent
    <3>1. CountsMatch'
      BY <1>0, <2>3, ParentApplyCounts DEF HonestParentInv
    <3>2. ProposalsSent'
      BY <2>1, <2>3 DEF ParentApply, Put, HonestParentInv, ProposalsSent
    <3> QED
      BY <1>0, <2>2, <3>1, <3>2 DEF HonestParentInv
  <2>4. CASE UNCHANGED << ParentByIssuer, IssuerCountByParent >>
    BY <1>0, <2>1, <2>2, <2>4 DEF HonestParentInv, CountsMatch, Proposers, ProposalsSent
  <2> QED
    BY <1>0, <1>2, <2>3, <2>4, DeliverCases DEF ProofApply, PartialSignatureApply
<1>3. CASE EndBlock
  <2>1. /\ UNCHANGED << State, ParentByIssuer, IssuerCountByParent, sent, milestones >>
        /\ phase = "deliver"
    BY <1>3 DEF EndBlock
  <2>2. CountsMatch' /\ ProposalsSent'
    BY <2>1 DEF HonestParentInv, CountsMatch, Proposers, ProposalsSent
  <2>3. CASE CreateEssence
    <3>1. PICK v \in Honest \cap DOMAIN ParentByIssuer : ParentByIssuer[v] \in MilestoneParents
      BY <1>0, <2>1, <2>3, HonestParentSelected DEF CreateEssence, HonestParentInv, TypeOK
    <3>2. Milestone'.Index = State.MilestoneIndex /\ Milestone'.Parents = MilestoneParents
      BY <2>3 DEF CreateEssence, createMilestoneEssence
    <3>3. HasHonestParent(Milestone)'
      BY <2>1, <3>1, <3>2 DEF HasHonestParent, HonestParentInv, ProposalsSent
    <3>4. HonestParent'
      BY <2>1, <3>3 DEF HonestParent, HasHonestParent, Essences, HonestParentInv
    <3> QED
      BY <1>0, <2>1, <2>2, <3>2, <3>4 DEF HonestParentInv, EssenceCurrent
  <2>4. CASE UNCHANGED Milestone
    <3>1. HonestParent' /\ EssenceCurrent'
      BY <2>1, <2>4, HonestParentMonotone DEF HonestParentInv, EssenceCurrent, Essences
    <3> QED
      BY <1>0, <2>2, <3>1 DEF HonestParentInv
  <2> QED
    BY <1>3, <2>3, <2>4 DEF EndBlock, AwaitParents
<1>4. CASE Commit /\ MilestoneDone /\ Reset(NextState(header.Height))
      /\ milestones' = milestones \cup {MilestoneBlockID(Milestone, SignaturesByIssuer)}
  <2>1. Essences' \subseteq Essences
    <3> DEFINE issued == MilestoneBlockID(Milestone, SignaturesByIssuer)
    <3>1. issued.payload = Milestone
      BY DEF MilestoneBlockID
    <3>2. Milestone # Nil /\ Milestone' = Nil /\ milestones' = milestones \cup {issued}
      BY <1>4 DEF MilestoneDone, Reset
    <3> HIDE DEF issued
    <3> QED
      BY <3>1, <3>2 DEF Essences
  <2>2. HonestParent'
    BY <1>4, <2>1, HonestParentMonotone DEF HonestParentInv, Commit, broadcastPartial
  <2>3. CountsMatch' /\ ProposalsSent' /\ EssenceCurrent'
    BY <1>4, FS_EmptySet DEF Reset, EmptyMap, CountsMatch, ProposalsSent, EssenceCurrent
  <2> QED
    BY <1>0, <2>2, <2>3 DEF HonestParentInv
<1>5. CASE Commit
  BY <1>1, <1>4, <1>5 DEF Commit, broadcastPartial
<1>6. ASSUME NEW v \in Honest, NEW b \in Candidates, ProposeParent(v, b)
      PROVE  HonestParentInv'
  BY <1>1, <1>6 DEF ProposeParent
<1>7. ASSUME NEW v \in Honest, NEW b \in DOMAIN callbacks[v], processParent(v, b)
      PROVE  HonestParentInv'
  BY <1>1, <1>7 DEF processParent
<1>8. ASSUME NEW dt \in TimeSteps, BeginBlock(dt)
      PROVE  HonestParentInv'
  BY <1>1, <1>8 DEF BeginBlock
<1>9. ASSUME NEW b \in Blocks, BlockSolid(b) \/ BlockOutdated(b)
      PROVE  HonestParentInv'
  BY <1>1, <1>9 DEF BlockSolid, BlockOutdated
<1>10. CASE UNCHANGED vars
  BY <1>1, <1>10 DEF vars, envVars
<1> QED
  BY <1>2, <1>3, <1>5, <1>6, <1>7, <1>8, <1>9, <1>10 DEF Next

(* Every milestone has a parent that an honest member proposed for it, as  *)
(* long as at most F members of each committee are Byzantine.              *)
THEOREM HonestParentCorrect == Spec => []HonestParent
<1>1. HonestParentInv => HonestParent
  BY DEF HonestParentInv
<1> QED
  BY HonestParentInit, HonestParentStep, <1>1, PTL DEF Spec

(* The weight that decides whether there are enough parents is the number  *)
(* of members that proposed a valid one (app.go 126).                      *)
THEOREM WeightCorrect == Spec => []WeightIsProposers
<1>1. HonestParentInv => WeightIsProposers
  BY WeightCounts DEF HonestParentInv, TypeInv
<1> QED
  BY HonestParentInit, HonestParentStep, <1>1, PTL DEF Spec

-----------------------------------------------------------------------------
(* A step that changes neither the state nor the milestones, and that      *)
(* sends no partial signature, keeps everything about signatures.          *)
LEMMA SignatureMonotone ==
  ASSUME SignatureInv, TypeInv', UNCHANGED << State, Milestone, SignaturesByIssuer, milestones >>,
         sent \subseteq sent', \A tx \in sent' \ sent : tx.type # "PartialSignature"
  PROVE  SignatureInv'
<1>1. EssenceCurrent' /\ SignaturesCurrent' /\ SignaturesVerify'
  BY DEF SignatureInv, EssenceCurrent, SignaturesCurrent, SignaturesVerify
<1>2. SignedCurrent'
  BY DEF SignatureInv, SignedCurrent
<1>3. SignedOnce'
  BY DEF SignatureInv, SignedOnce
<1> QED
  BY <1>1, <1>2, <1>3 DEF SignatureInv

(* After Bootstrap nothing is signed.                                      *)
LEMMA SignatureInit == Init => SignatureInv
  BY TypeInit
  DEF Init, InitAppState, EmptyMap, SignatureInv, EssenceCurrent, SignaturesCurrent,
      SignedCurrent, SignedOnce, SignaturesVerify

(* Commit signs the essence.  Whoever has signed this index before has     *)
(* signed the same essence.                                                *)
LEMMA CommitSigns ==
  ASSUME SignatureInv, Commit
  PROVE  /\ sent \subseteq sent'
         /\ \A tx \in sent' :
              tx.type = "PartialSignature" =>
                 /\ tx.signature.Index \in 0 .. State.MilestoneIndex
                 /\ tx.signature.Index = State.MilestoneIndex => tx.signature = Milestone
         /\ SignedOnce'
<1>1. State.MilestoneIndex \in Nat
  BY CommitteeAssumption DEF SignatureInv, TypeInv, TypeOK
<1>2. \A tx \in sent' \ sent :
         /\ tx.signature = Milestone
         /\ Milestone.Index = State.MilestoneIndex
  BY DEF Commit, broadcastPartial, PartialSignatureTx, SignatureInv, EssenceCurrent
<1>3. sent \subseteq sent'
  BY DEF Commit, broadcastPartial
<1>4. \A tx \in sent' :
        tx.type = "PartialSignature" =>
           /\ tx.signature.Index \in 0 .. State.MilestoneIndex
           /\ tx.signature.Index = State.MilestoneIndex => tx.signature = Milestone
  BY <1>1, <1>2 DEF SignatureInv, SignedCurrent
<1>5. SignedOnce'
  <2> SUFFICES ASSUME NEW p \in sent', NEW q \in sent', p.type = "PartialSignature",
                      q.type = "PartialSignature", p.signature.Index = q.signature.Index
               PROVE  p.signature = q.signature
    BY DEF SignedOnce
  <2>1. CASE p \in sent /\ q \in sent
    BY <2>1 DEF SignatureInv, SignedOnce
  <2>2. CASE p \notin sent \/ q \notin sent
    BY <1>2, <1>4, <2>2
  <2> QED
    BY <2>1, <2>2
<1> QED
  BY <1>3, <1>4, <1>5

(* Every handler preserves the invariant.                                  *)
LEMMA SignatureStep == SignatureInv /\ [Next]_vars => SignatureInv'
<1> SUFFICES ASSUME SignatureInv, [Next]_vars PROVE SignatureInv'
  OBVIOUS
<1>0. TypeInv /\ TypeInv' /\ TypeOK
  BY TypeStep DEF SignatureInv, TypeInv
<1>1. ASSUME NEW v \in Honest, NEW b \in Candidates, ProposeParent(v, b)
      PROVE  SignatureInv'
  BY <1>0, <1>1, SignatureMonotone DEF ProposeParent, appVars, ParentTx
<1>2. ASSUME NEW v \in Honest, NEW b \in DOMAIN callbacks[v], processParent(v, b)
      PROVE  SignatureInv'
  BY <1>0, <1>2, SignatureMonotone DEF processParent, appVars, ProofTx
<1>3. ASSUME NEW dt \in TimeSteps, BeginBlock(dt)
      PROVE  SignatureInv'
  BY <1>0, <1>3, SignatureMonotone DEF BeginBlock, appVars
<1>4. ASSUME NEW tx \in sent \cup ByzantineTxs, DeliverTx(tx)
      PROVE  SignatureInv'
  <2>1. UNCHANGED << State, Milestone, milestones, sent >>
    BY <1>4 DEF DeliverTx, ApplyTx, ParentApply, ProofApply, PartialSignatureApply, envVars
  <2>2. CASE /\ PartialSignatureApply(tx.issuer, tx.signature)
             /\ tx.issuer \in Honest => PartialSignatureTx(tx.issuer, tx.signature) \in sent
    <3>1. SignaturesCurrent'
      BY <2>1, <2>2 DEF PartialSignatureApply, Put, SignatureInv, SignaturesCurrent
    <3>2. EssenceCurrent' /\ SignedCurrent' /\ SignedOnce' /\ SignaturesVerify'
      BY <2>1 DEF SignatureInv, EssenceCurrent, SignedCurrent, SignedOnce, SignaturesVerify
    <3> QED
      BY <1>0, <3>1, <3>2 DEF SignatureInv
  <2>3. CASE UNCHANGED SignaturesByIssuer
    BY <1>0, <2>1, <2>3, SignatureMonotone
  <2> QED
    BY <1>0, <1>4, <2>2, <2>3, DeliverCases DEF ParentApply, ProofApply
<1>5. CASE EndBlock
  <2>1. UNCHANGED << State, SignaturesByIssuer, sent, milestones >>
    BY <1>5 DEF EndBlock
  <2>2. CASE CreateEssence
    <3>1. Milestone = Nil /\ Milestone'.Index = State.MilestoneIndex
      BY <2>2 DEF CreateEssence, createMilestoneEssence
    <3>2. State.MilestoneIndex \in Nat \ {0}
      BY <1>0, CommitteeAssumption DEF TypeOK
    <3>3. SignaturesCurrent' /\ EssenceCurrent'
      BY <2>1, <3>1 DEF SignatureInv, SignaturesCurrent, EssenceCurrent
    <3>4. SignedCurrent'
      BY <2>1, <3>1, <3>2 DEF SignatureInv, SignedCurrent, Nil
    <3>5. SignedOnce' /\ SignaturesVerify'
      BY <2>1 DEF SignatureInv, SignedOnce, SignaturesVerify
    <3> QED
      BY <1>0, <3>3, <3>4, <3>5 DEF SignatureInv
  <2>3. CASE UNCHANGED Milestone
    BY <1>0, <2>1, <2>3, SignatureMonotone
  <2> QED
    BY <1>5, <2>2, <2>3 DEF EndBlock, AwaitParents
<1>6. CASE Commit
  <2>1. CASE /\ MilestoneDone
             /\ milestones' = milestones \cup {MilestoneBlockID(Milestone, SignaturesByIssuer)}
             /\ Reset(NextState(header.Height))
    <3>1. /\ State'.MilestoneIndex = State.MilestoneIndex + 1
          /\ State.MilestoneIndex \in Nat
          /\ Milestone' = Nil
          /\ DOMAIN SignaturesByIssuer' = {}
      BY <1>0, <2>1, CommitteeAssumption DEF Reset, NextState, EmptyMap, TypeOK
    <3>2. SignaturesCurrent' /\ EssenceCurrent'
      BY <3>1 DEF SignaturesCurrent, EssenceCurrent
    <3>3. SignedCurrent' /\ SignedOnce'
      BY <1>6, <3>1, CommitSigns DEF SignedCurrent
    <3>4. SignaturesVerify'
      <4> DEFINE issued == MilestoneBlockID(Milestone, SignaturesByIssuer)
      <4>1. issued.payload = Milestone /\ issued.signatures = SignaturesByIssuer
        BY DEF MilestoneBlockID
      <4>2. /\ Cardinality(DOMAIN SignaturesByIssuer) >= T
            /\ DOMAIN SignaturesByIssuer \subseteq Members(Milestone.Index)
            /\ \A v \in DOMAIN SignaturesByIssuer :
                 /\ SignaturesByIssuer[v] = Milestone
                 /\ v \in Honest => PartialSignatureTx(v, Milestone) \in sent
        BY <1>0, <2>1 DEF MilestoneDone, TypeOK, SignatureInv, EssenceCurrent, SignaturesCurrent
      <4>3. milestones' = milestones \cup {issued} /\ sent \subseteq sent'
        BY <1>6, <2>1, CommitSigns
      <4> HIDE DEF issued
      <4> QED
        BY <4>1, <4>2, <4>3 DEF SignaturesVerify, SignatureInv
    <3> QED
      BY <1>0, <3>2, <3>3, <3>4 DEF SignatureInv
  <2>2. CASE UNCHANGED << appVars, milestones >>
    <3>1. sent \subseteq sent' /\ SignedOnce' /\ SignedCurrent'
      BY <1>6, <2>2, CommitSigns DEF appVars, SignedCurrent
    <3>2. SignaturesCurrent' /\ EssenceCurrent' /\ SignaturesVerify'
      BY <2>2, <3>1 DEF appVars, SignatureInv, SignaturesCurrent, EssenceCurrent, SignaturesVerify
    <3> QED
      BY <1>0, <3>1, <3>2 DEF SignatureInv
  <2> QED
    BY <1>6, <2>1, <2>2 DEF Commit
<1>7. ASSUME NEW b \in Blocks, BlockSolid(b) \/ BlockOutdated(b)
      PROVE  SignatureInv'
  BY <1>0, <1>7, SignatureMonotone DEF BlockSolid, BlockOutdated, appVars
<1>8. CASE UNCHANGED vars
  BY <1>0, <1>8, SignatureMonotone DEF vars, appVars, envVars
<1> QED
  BY <1>1, <1>2, <1>3, <1>4, <1>5, <1>6, <1>7, <1>8 DEF Next

(* Every milestone that is issued passes VerifySignatures.                 *)
THEOREM SignaturesCorrect == Spec => []SignaturesVerify
<1>1. SignatureInv => SignaturesVerify
  BY DEF SignatureInv
<1> QED
  BY SignatureInit, SignatureStep, <1>1, PTL DEF Spec

(* No honest member ever signs two milestones of one index.                *)
THEOREM SignedOnceCorrect == Spec => []SignedOnce
<1>1. SignatureInv => SignedOnce
  BY DEF SignatureInv
<1> QED
  BY SignatureInit, SignatureStep, <1>1, PTL DEF Spec

-----------------------------------------------------------------------------
(* A valid parent has more proofs than there are Byzantine members.        *)
LEMMA ValidParentsProved ==
  ASSUME TypeOK, ProofsSent, State.MilestoneIndex <= MaxIndex, NEW b \in ValidParents
  PROVE  \E v \in Honest : ProofTx(v, State.MilestoneIndex, b) \in sent
<1> DEFINE S == ProofIssuersByBlockID[b]
<1>1. b \in DOMAIN ProofIssuersByBlockID /\ S \in SUBSET Members(State.MilestoneIndex)
  BY DEF ValidParents, TypeOK
<1>2. ~ (Cardinality(S) <= F)
  <2>1. IsFiniteSet(S)
    BY <1>1, MembersFinite, FS_Subset
  <2>2. Cardinality(S) \in Nat /\ F \in Nat
    BY <2>1, FS_CardinalityType, FaultyType
  <2> QED
    BY <2>2 DEF ValidParents
<1> HIDE DEF S
<1>3. S \cap Honest # {}
  BY <1>1, <1>2, FewByzantine
<1> QED
  BY <1>1, <1>3 DEF ProofsSent, S

(* What has been proved stays proved and solid.                            *)
LEMMA ParentsMonotone ==
  ASSUME ParentsSolid, sent \subseteq sent', Essences' \subseteq Essences,
         \A b : Solid(b) => Solid(b)'
  PROVE  ParentsSolid'
  BY DEF ParentsSolid, ParentsProved

(* A step that does not concern the tangle leaves solid what is solid.     *)
LEMMA SolidUnchanged ==
  ASSUME UNCHANGED tangle
  PROVE  \A b : Solid(b) => Solid(b)'
  BY DEF Solid

(* After Bootstrap nothing is proved.                                      *)
LEMMA ParentsInit == Init => ParentsInv
  BY TypeInit
  DEF Init, InitAppState, EmptyMap, ParentsInv, ProofsSent, ProvedSolid, ParentsSolid, Essences

(* Every handler preserves the invariant.  EndBlock is the step that needs *)
(* it: each parent it takes has a proof of an honest member, which sends   *)
(* one only for a solid block.                                             *)
LEMMA ParentsStep == ParentsInv /\ [Next]_vars => ParentsInv'
<1> SUFFICES ASSUME ParentsInv, [Next]_vars PROVE ParentsInv'
  OBVIOUS
<1>0. TypeInv /\ TypeInv' /\ TypeOK
  BY TypeStep DEF ParentsInv, TypeInv
<1>1. ASSUME UNCHANGED << State, ProofIssuersByBlockID, Milestone, milestones >>,
             sent \subseteq sent', \A b : Solid(b) => Solid(b)',
             \A tx \in sent' \ sent : tx.type = "Proof" => Solid(tx.block)
      PROVE  ParentsInv'
  <2>1. Essences' = Essences
    BY <1>1 DEF Essences
  <2>2. ParentsSolid'
    BY <1>1, <2>1, ParentsMonotone DEF ParentsInv
  <2>3. ProvedSolid'
    BY <1>1 DEF ParentsInv, ProvedSolid
  <2>4. ProofsSent'
    BY <1>1 DEF ParentsInv, ProofsSent
  <2> QED
    BY <1>0, <2>2, <2>3, <2>4 DEF ParentsInv
<1>2. ASSUME NEW v \in Honest, NEW b \in Candidates, ProposeParent(v, b)
      PROVE  ParentsInv'
  BY <1>1, <1>2, SolidUnchanged DEF ProposeParent, appVars, ParentTx
<1>3. ASSUME NEW v \in Honest, NEW b \in DOMAIN callbacks[v], processParent(v, b)
      PROVE  ParentsInv'
  BY <1>1, <1>3, SolidUnchanged DEF processParent, appVars, ProofTx
<1>4. ASSUME NEW dt \in TimeSteps, BeginBlock(dt)
      PROVE  ParentsInv'
  BY <1>1, <1>4, SolidUnchanged DEF BeginBlock, appVars
<1>5. ASSUME NEW tx \in sent \cup ByzantineTxs, DeliverTx(tx)
      PROVE  ParentsInv'
  <2>1. UNCHANGED << State, Milestone, milestones, sent, tangle >>
    BY <1>5 DEF DeliverTx, ApplyTx, ParentApply, ProofApply, PartialSignatureApply, envVars
  <2>2. CASE /\ ProofApply(tx.issuer, State.MilestoneIndex, tx.block)
             /\ tx.issuer \in Honest =>
                  ProofTx(tx.issuer, State.MilestoneIndex, tx.block) \in sent
    <3>1. ProofsSent'
      BY <2>1, <2>2 DEF ProofApply, ProofIssuers, Put, ParentsInv, ProofsSent
    <3>2. ProvedSolid' /\ ParentsSolid'
      BY <2>1, SolidUnchanged, ParentsMonotone DEF ParentsInv, ProvedSolid, Essences
    <3> QED
      BY <1>0, <3>1, <3>2 DEF ParentsInv
  <2>3. CASE UNCHANGED ProofIssuersByBlockID
    BY <1>1, <2>1, <2>3, SolidUnchanged
  <2> QED
    BY <1>0, <1>5, <2>2, <2>3, DeliverCases DEF ParentApply, PartialSignatureApply
<1>6. CASE EndBlock
  <2>1. /\ UNCHANGED << State, ProofIssuersByBlockID, sent, milestones, tangle >>
        /\ phase = "deliver"
    BY <1>6 DEF EndBlock
  <2>2. CASE CreateEssence
    <3>1. /\ Milestone'.Index = State.MilestoneIndex
          /\ Milestone'.Parents = MilestoneParents
          /\ Milestone'.Metadata.LastMilestoneBlockID = State.LastMilestoneBlockID
      BY <2>2 DEF CreateEssence, createMilestoneEssence, Metadata
    <3>2. MilestoneParents \ {State.LastMilestoneBlockID} \subseteq ValidParents
      BY DEF MilestoneParents, Truncate
    <3>3. ASSUME NEW b \in MilestoneParents \ {State.LastMilestoneBlockID}
          PROVE  /\ \E v \in Honest : ProofTx(v, State.MilestoneIndex, b) \in sent
                 /\ Solid(b)'
      <4>1. PICK v \in Honest : ProofTx(v, State.MilestoneIndex, b) \in sent
        BY <1>0, <2>1, <3>2, ValidParentsProved DEF ParentsInv, TypeOK
      <4>2. Solid(b)
        BY <4>1 DEF ParentsInv, ProvedSolid, ProofTx
      <4> QED
        BY <2>1, <4>1, <4>2, SolidUnchanged
    <3>4. ParentsProved(Milestone)'
      BY <2>1, <3>1, <3>3 DEF ParentsProved
    <3>5. ASSUME NEW e \in { ms.payload : ms \in milestones }
          PROVE  ParentsProved(e)'
      BY <2>1, SolidUnchanged DEF ParentsInv, ParentsSolid, Essences, ParentsProved
    <3>6. ParentsSolid'
      BY <2>1, <3>4, <3>5 DEF ParentsSolid, Essences, ParentsProved
    <3>7. ProofsSent' /\ ProvedSolid'
      BY <2>1, SolidUnchanged DEF ParentsInv, ProofsSent, ProvedSolid
    <3> QED
      BY <1>0, <3>6, <3>7 DEF ParentsInv
  <2>3. CASE UNCHANGED Milestone
    BY <1>1, <2>1, <2>3, SolidUnchanged
  <2> QED
    BY <1>6, <2>2, <2>3 DEF EndBlock, AwaitParents
<1>7. CASE Commit
  <2>1. /\ sent \subseteq sent' /\ UNCHANGED tangle
        /\ \A tx \in sent' \ sent : tx.type = "PartialSignature"
    BY <1>7 DEF Commit, broadcastPartial, PartialSignatureTx
  <2>2. CASE /\ MilestoneDone
             /\ milestones' = milestones \cup {MilestoneBlockID(Milestone, SignaturesByIssuer)}
             /\ Reset(NextState(header.Height))
    <3>1. Essences' \subseteq Essences
      <4> DEFINE issued == MilestoneBlockID(Milestone, SignaturesByIssuer)
      <4>1. issued.payload = Milestone
        BY DEF MilestoneBlockID
      <4>2. Milestone # Nil /\ Milestone' = Nil /\ milestones' = milestones \cup {issued}
        BY <2>2 DEF MilestoneDone, Reset
      <4> HIDE DEF issued
      <4> QED
        BY <4>1, <4>2 DEF Essences
    <3>2. ParentsSolid'
      BY <2>1, <3>1, SolidUnchanged, ParentsMonotone DEF ParentsInv
    <3>3. ProvedSolid'
      BY <2>1, SolidUnchanged DEF ParentsInv, ProvedSolid
    <3>4. ProofsSent'
      BY <2>2 DEF Reset, EmptyMap, ProofsSent
    <3> QED
      BY <1>0, <3>2, <3>3, <3>4 DEF ParentsInv
  <2>3. CASE UNCHANGED << appVars, milestones >>
    BY <1>1, <2>1, <2>3, SolidUnchanged DEF appVars
  <2> QED
    BY <1>7, <2>2, <2>3 DEF Commit
<1>8. ASSUME NEW b \in Blocks, BlockSolid(b) \/ BlockOutdated(b)
      PROVE  ParentsInv'
  <2>1. \A x : Solid(x) => Solid(x)'
    BY <1>0, <1>8 DEF BlockSolid, BlockOutdated, Solid, TypeOK
  <2> QED
    BY <1>1, <1>8, <2>1 DEF BlockSolid, BlockOutdated, appVars
<1>9. CASE UNCHANGED vars
  BY <1>1, <1>9, SolidUnchanged DEF vars, appVars, envVars
<1> QED
  BY <1>2, <1>3, <1>4, <1>5, <1>6, <1>7, <1>8, <1>9 DEF Next

(* Every parent of a milestone besides the last milestone was proved by an *)
(* honest member for this milestone, and is solid.                         *)
THEOREM ParentsSolidCorrect == Spec => []ParentsSolid
<1>1. ParentsInv => ParentsSolid
  BY DEF ParentsInv
<1> QED
  BY ParentsInit, ParentsStep, <1>1, PTL DEF Spec

-----------------------------------------------------------------------------
(* The essence to sign never changes until the commit that issues it: no   *)
(* handler besides EndBlock and Commit assigns it, and EndBlock only when  *)
(* there is none.                                                          *)
THEOREM EssenceFinalCorrect == Spec => EssenceFinal
<1> DEFINE Final ==
      Milestone # Nil /\ Milestone' # Milestone =>
        /\ Milestone' = Nil
        /\ milestones' = milestones \cup {MilestoneBlockID(Milestone, SignaturesByIssuer)}
        /\ State'.MilestoneIndex = State.MilestoneIndex + 1
<1>1. ASSUME Next PROVE Final
  <2>1. ASSUME NEW tx \in sent \cup ByzantineTxs, DeliverTx(tx)
        PROVE  Final
    BY <2>1 DEF DeliverTx, ApplyTx, ParentApply, ProofApply, PartialSignatureApply
  <2>2. CASE EndBlock
    BY <2>2 DEF EndBlock, CreateEssence, AwaitParents
  <2>3. CASE Commit
    BY <2>3 DEF Commit, Reset, NextState, appVars
  <2>4. CASE UNCHANGED appVars
    BY <2>4 DEF appVars
  <2> QED
    BY <1>1, <2>1, <2>2, <2>3, <2>4
    DEF Next, ProposeParent, processParent, BeginBlock, BlockSolid, BlockOutdated
<1>2. [Next]_vars => [Final]_vars
  BY <1>1
<1> QED
  BY <1>2, PTL DEF Spec, EssenceFinal

-----------------------------------------------------------------------------
(* The solid callbacks that are registered belong to the current milestone *)
(* as long as it has no essence.                                           *)
THEOREM CallbacksCurrentCorrect == Spec => []CallbacksCurrent
<1>1. TypeInv => CallbacksCurrent
  BY DEF TypeInv
<1> QED
  BY TypeInit, TypeStep, <1>1, PTL DEF Spec

-----------------------------------------------------------------------------
(* The chain of milestones.  The state is read back from the essence that  *)
(* is made from it, and it names the milestone before.                     *)
LEMMA ChainFacts ==
  ASSUME ChainInv
  PROVE  /\ State.MilestoneIndex \in Nat \ {0}
         /\ State.MilestoneHeight \in Nat
         /\ header.Height \in Nat
         /\ header.Time \in Nat
         /\ Milestone # Nil =>
               /\ Milestone.Index = State.MilestoneIndex
               /\ Milestone.Metadata.MilestoneHeight = State.MilestoneHeight
               /\ Milestone.PreviousMilestoneID = State.LastMilestoneID
               /\ Milestone.Metadata.LastMilestoneBlockID = State.LastMilestoneBlockID
<1>1. /\ State.MilestoneIndex \in Nat \ {0}
      /\ header.Height \in Nat
      /\ header.Time \in Nat
      /\ State.MilestoneHeight \in Nat
  BY CommitteeAssumption, BlockTimeAssumption DEF ChainInv, TypeInv, TypeOK
<1>2. Milestone # Nil => NewStateFromMilestone(Milestone) = State
  BY DEF ChainInv, EssenceOfState
<1> QED
  BY <1>1, <1>2 DEF NewStateFromMilestone

(* The essence to sign follows the milestone the state names.              *)
LEMMA EssenceFollows ==
  ASSUME ChainInv, Milestone # Nil, State.MilestoneIndex > StartIndex
  PROVE  \E ms \in milestones : Follows(Milestone, ms)
<1>1. PICK ms \in milestones :
        /\ State.MilestoneIndex = ms.payload.Index + 1
        /\ State.LastMilestoneID = ms.payload
        /\ State.LastMilestoneBlockID = ms
        /\ State.MilestoneHeight > ms.payload.Metadata.MilestoneHeight
  BY DEF ChainInv, StateFollows
<1>2. NewStateFromMilestone(Milestone) = State /\ ms \in Milestone.Parents
  BY <1>1 DEF ChainInv, EssenceOfState
<1>3. Follows(Milestone, ms)
  BY <1>1, <1>2 DEF Follows
<1> QED
  BY <1>3

LEMMA ChainInit == Init => ChainInv
  BY TypeInit, CommitteeAssumption
  DEF Init, InitAppState, InitialState, ChainInv, EssenceOfState, StateFollows, IssuedOnce,
      IssuedFollow, HeightGrows

(* A step that leaves the state, the essence and the milestones alone      *)
(* leaves the chain alone.                                                 *)
LEMMA ChainUnchanged ==
  ASSUME ChainInv, TypeInv', HeightGrows', UNCHANGED << State, Milestone, milestones >>
  PROVE  ChainInv'
  BY DEF ChainInv, EssenceOfState, StateFollows, IssuedOnce, IssuedFollow, Follows,
         NewStateFromMilestone

(* Commit appends the essence to the chain.                                *)
LEMMA CommitChains ==
  ASSUME ChainInv, TypeInv', Commit, MilestoneDone,
         milestones' = milestones \cup {MilestoneBlockID(Milestone, SignaturesByIssuer)},
         Reset(NextState(header.Height))
  PROVE  ChainInv'
<1> DEFINE issued == MilestoneBlockID(Milestone, SignaturesByIssuer)
<1>1. /\ Milestone # Nil
      /\ issued.payload = Milestone
      /\ issued \in milestones'
      /\ \A ms \in milestones' : ms \in milestones \/ ms = issued
      /\ milestones \subseteq milestones'
  BY DEF MilestoneDone, MilestoneBlockID
<1>2. /\ State' = [ MilestoneHeight      |-> header.Height,
                    MilestoneIndex       |-> State.MilestoneIndex + 1,
                    LastMilestoneID      |-> Milestone,
                    LastMilestoneBlockID |-> issued ]
      /\ Milestone' = Nil
      /\ phase' = "idle"
      /\ State.MilestoneHeight < header.Height
  BY DEF Reset, NextState, Commit, ChainInv, HeightGrows
<1>3. /\ State.MilestoneIndex \in Nat \ {0}
      /\ Milestone.Index = State.MilestoneIndex
      /\ Milestone.Metadata.MilestoneHeight = State.MilestoneHeight
  BY <1>1, ChainFacts
<1>4. EssenceOfState' /\ HeightGrows'
  BY <1>2 DEF EssenceOfState, HeightGrows
<1>5. StateFollows'
  <2>1. /\ State'.MilestoneIndex = issued.payload.Index + 1
        /\ State'.LastMilestoneID = issued.payload
        /\ State'.LastMilestoneBlockID = issued
    BY <1>1, <1>2, <1>3
  <2>2. State'.MilestoneHeight > issued.payload.Metadata.MilestoneHeight
    BY <1>1, <1>2, <1>3, ChainFacts
  <2> QED
    BY <1>1, <2>1, <2>2 DEF StateFollows
<1>6. IssuedOnce'
  <2>1. \A ms \in milestones : ms.payload.Index \in 1 .. State.MilestoneIndex - 1
    BY DEF ChainInv, IssuedOnce
  <2>2. \A ms \in milestones' : ms.payload.Index \in 1 .. State.MilestoneIndex
    BY <1>1, <1>3, <2>1
  <2>3. ASSUME NEW a \in milestones', NEW b \in milestones', a.payload.Index = b.payload.Index
        PROVE  a.payload = b.payload
    <3>1. CASE a \in milestones /\ b \in milestones
      BY <2>3, <3>1 DEF ChainInv, IssuedOnce
    <3>2. CASE a \notin milestones \/ b \notin milestones
      BY <1>1, <1>3, <2>1, <2>3, <3>2
    <3> QED
      BY <3>1, <3>2
  <2> QED
    BY <1>2, <1>3, <2>2, <2>3 DEF IssuedOnce
<1>7. IssuedFollow'
  <2> SUFFICES ASSUME NEW ms \in milestones', ms.payload.Index > StartIndex
               PROVE  \E previous \in milestones : Follows(ms.payload, previous)
    BY <1>1 DEF IssuedFollow, Follows, NewStateFromMilestone
  <2>1. CASE ms \in milestones
    BY <2>1 DEF ChainInv, IssuedFollow
  <2>2. CASE ms = issued
    BY <1>1, <1>3, <2>2, EssenceFollows
  <2> QED
    BY <1>1, <2>1, <2>2
<1> QED
  BY <1>4, <1>5, <1>6, <1>7 DEF ChainInv

(* Every handler preserves the chain.                                      *)
LEMMA ChainStep == ChainInv /\ [Next]_vars => ChainInv'
<1> SUFFICES ASSUME ChainInv, [Next]_vars PROVE ChainInv'
  OBVIOUS
<1>0. TypeInv /\ TypeInv'
  BY TypeStep DEF ChainInv
<1>1. ASSUME UNCHANGED << State, Milestone, milestones, phase, header >>
      PROVE  ChainInv'
  <2>1. HeightGrows'
    BY <1>1 DEF ChainInv, HeightGrows
  <2> QED
    BY <1>0, <1>1, <2>1, ChainUnchanged
<1>2. ASSUME NEW v \in Honest, NEW b \in Candidates, ProposeParent(v, b)
      PROVE  ChainInv'
  BY <1>1, <1>2 DEF ProposeParent, appVars
<1>3. ASSUME NEW v \in Honest, NEW b \in DOMAIN callbacks[v], processParent(v, b)
      PROVE  ChainInv'
  BY <1>1, <1>3 DEF processParent, appVars
<1>4. ASSUME NEW dt \in TimeSteps, BeginBlock(dt)
      PROVE  ChainInv'
  <2>1. UNCHANGED << State, Milestone, milestones >> /\ header'.Height = header.Height + 1
    BY <1>4 DEF BeginBlock, appVars
  <2>2. State.MilestoneHeight <= header.Height
    BY <1>0, BlockTimeAssumption DEF TypeInv, TypeOK
  <2>3. HeightGrows'
    BY <2>1, <2>2, ChainFacts DEF HeightGrows
  <2> QED
    BY <1>0, <2>1, <2>3, ChainUnchanged
<1>5. ASSUME NEW tx \in sent \cup ByzantineTxs, DeliverTx(tx)
      PROVE  ChainInv'
  BY <1>1, <1>5 DEF DeliverTx, ApplyTx, ParentApply, ProofApply, PartialSignatureApply, envVars
<1>6. CASE EndBlock
  <2>1. UNCHANGED << State, milestones, header >> /\ phase = "deliver"
    BY <1>6 DEF EndBlock
  <2>2. HeightGrows'
    BY <2>1 DEF ChainInv, HeightGrows
  <2>3. CASE CreateEssence
    <3>1. /\ State = [ MilestoneHeight      |-> State.MilestoneHeight,
                       MilestoneIndex       |-> State.MilestoneIndex,
                       LastMilestoneID      |-> State.LastMilestoneID,
                       LastMilestoneBlockID |-> State.LastMilestoneBlockID ]
      BY DEF ChainInv, EssenceOfState
    <3>2. /\ NewStateFromMilestone(Milestone') = State
          /\ State.LastMilestoneBlockID \in Milestone'.Parents
      BY <2>3, <3>1
      DEF CreateEssence, createMilestoneEssence, NewStateFromMilestone, Metadata, MilestoneParents
    <3>3. EssenceOfState'
      BY <2>1, <3>1, <3>2 DEF EssenceOfState, NewStateFromMilestone
    <3>4. StateFollows' /\ IssuedOnce' /\ IssuedFollow'
      BY <2>1 DEF ChainInv, StateFollows, IssuedOnce, IssuedFollow, Follows, NewStateFromMilestone
    <3> QED
      BY <1>0, <2>2, <3>3, <3>4 DEF ChainInv
  <2>4. CASE UNCHANGED Milestone
    BY <1>0, <2>1, <2>2, <2>4, ChainUnchanged
  <2> QED
    BY <1>6, <2>3, <2>4 DEF EndBlock, AwaitParents
<1>7. CASE Commit
  <2>1. CASE UNCHANGED << appVars, milestones >>
    <3>1. HeightGrows'
      BY <1>7 DEF Commit, HeightGrows
    <3> QED
      BY <1>0, <2>1, <3>1, ChainUnchanged DEF appVars
  <2>2. CASE /\ MilestoneDone
             /\ milestones' = milestones \cup {MilestoneBlockID(Milestone, SignaturesByIssuer)}
             /\ Reset(NextState(header.Height))
    BY <1>0, <1>7, <2>2, CommitChains
  <2> QED
    BY <1>7, <2>1, <2>2 DEF Commit
<1>8. ASSUME NEW b \in Blocks, BlockSolid(b) \/ BlockOutdated(b)
      PROVE  ChainInv'
  BY <1>1, <1>8 DEF BlockSolid, BlockOutdated, appVars
<1>9. CASE UNCHANGED vars
  BY <1>1, <1>9 DEF vars, appVars, envVars
<1> QED
  BY <1>2, <1>3, <1>4, <1>5, <1>6, <1>7, <1>8, <1>9 DEF Next

(* There is one milestone per index, and the state read back from each     *)
(* names the one before it.                                                *)
THEOREM MilestonesChainedCorrect == Spec => []MilestonesChained
<1>1. ASSUME ChainInv PROVE MilestonesChained
  <2>1. ASSUME NEW e1 \in Essences, NEW e2 \in Essences, e1.Index = e2.Index
        PROVE  e1 = e2
    <3>1. \A ms \in milestones : ms.payload.Index \in 1 .. State.MilestoneIndex - 1
      BY <1>1 DEF ChainInv, IssuedOnce
    <3>2. \A e \in Essences :
             \/ \E ms \in milestones : e = ms.payload
             \/ Milestone # Nil /\ e = Milestone
      BY DEF Essences
    <3>3. CASE /\ \E ms \in milestones : e1 = ms.payload
               /\ \E ms \in milestones : e2 = ms.payload
      BY <1>1, <2>1, <3>3 DEF ChainInv, IssuedOnce
    <3>4. State.MilestoneIndex \in Nat /\ (Milestone # Nil => Milestone.Index = State.MilestoneIndex)
      BY <1>1, ChainFacts
    <3> QED
      BY <2>1, <3>1, <3>2, <3>3, <3>4
  <2>2. ASSUME NEW essence \in Essences, essence.Index > StartIndex
        PROVE  \E ms \in milestones : Follows(essence, ms)
    <3>1. CASE \E ms \in milestones : essence = ms.payload
      BY <1>1, <2>2, <3>1 DEF ChainInv, IssuedFollow
    <3>2. CASE Milestone # Nil /\ essence = Milestone
      BY <1>1, <2>2, <3>2, ChainFacts, EssenceFollows
    <3> QED
      BY <3>1, <3>2 DEF Essences
  <2>3. Milestone # Nil => NewStateFromMilestone(Milestone) = State
    BY <1>1 DEF ChainInv, EssenceOfState
  <2> QED
    BY <2>1, <2>2, <2>3 DEF MilestonesChained
<1> QED
  BY ChainInit, ChainStep, <1>1, PTL DEF Spec

-----------------------------------------------------------------------------
(* Timestamps.  Blocks are half a second apart.  An essence is signed one  *)
(* block after its creation at the earliest, and the next one is created   *)
(* one block after the commit at the earliest.                             *)
LEMMA HalfSeconds ==
  ASSUME NEW t \in Nat
  PROVE  /\ t \div 2 \in Nat
         /\ 2 * (t \div 2) <= t
         /\ \A s \in Nat : 2 * s + 2 <= t => s < t \div 2
  OBVIOUS

(* Without signatures there is no milestone to issue.                      *)
LEMMA DoneSigned == MilestoneDone => DOMAIN SignaturesByIssuer # {}
  BY FS_EmptySet, CommitteeAssumption DEF MilestoneDone

LEMMA TimeInit == Init => TimeInv
  BY ChainInit
  DEF Init, InitAppState, EmptyMap, TimeInv, EssenceTime, IssuedTime

(* The times of the blocks only grow, so an essence that is in time stays  *)
(* in time.                                                                *)
LEMMA TimeUnchanged ==
  ASSUME TimeInv, ChainInv', UNCHANGED << Milestone, SignaturesByIssuer, milestones >>,
         \/ UNCHANGED << phase, header >>
         \/ phase' = "deliver" /\ header'.Time >= header.Time + 1
         \/ phase' # "deliver" /\ (phase' # "idle" => phase # "idle") /\ UNCHANGED header
  PROVE  TimeInv'
<1>1. header.Time \in Nat /\ header'.Time \in Nat /\ header'.Time >= header.Time
  BY BlockTimeAssumption DEF TimeInv, ChainInv, TypeInv, TypeOK
<1>2. EssenceTime'
  BY <1>1 DEF TimeInv, EssenceTime
<1>3. IssuedTime'
  BY <1>1 DEF TimeInv, IssuedTime
<1> QED
  BY <1>2, <1>3 DEF TimeInv

(* Every handler preserves the order of the timestamps.                    *)
LEMMA TimeStep == TimeInv /\ [Next]_vars => TimeInv'
<1> SUFFICES ASSUME TimeInv, [Next]_vars PROVE TimeInv'
  OBVIOUS
<1>0. ChainInv /\ ChainInv' /\ header.Time \in Nat
  BY ChainStep, ChainFacts DEF TimeInv
<1>1. ASSUME UNCHANGED << Milestone, SignaturesByIssuer, milestones, phase, header >>
      PROVE  TimeInv'
  BY <1>0, <1>1, TimeUnchanged
<1>2. ASSUME NEW v \in Honest, NEW b \in Candidates, ProposeParent(v, b)
      PROVE  TimeInv'
  BY <1>1, <1>2 DEF ProposeParent, appVars
<1>3. ASSUME NEW v \in Honest, NEW b \in DOMAIN callbacks[v], processParent(v, b)
      PROVE  TimeInv'
  BY <1>1, <1>3 DEF processParent, appVars
<1>4. ASSUME NEW dt \in TimeSteps, BeginBlock(dt)
      PROVE  TimeInv'
  <2>1. /\ UNCHANGED << Milestone, SignaturesByIssuer, milestones >>
        /\ phase' = "deliver"
        /\ header'.Time = header.Time + dt
    BY <1>4 DEF BeginBlock, appVars
  <2>2. dt \in Nat /\ dt >= 1
    BY BlockTimeAssumption
  <2>3. header'.Time >= header.Time + 1
    BY <1>0, <2>1, <2>2
  <2> QED
    BY <1>0, <2>1, <2>3, TimeUnchanged
<1>5. ASSUME NEW tx \in sent \cup ByzantineTxs, DeliverTx(tx)
      PROVE  TimeInv'
  <2>1. UNCHANGED << Milestone, milestones, phase, header >> /\ phase = "deliver"
    BY <1>5 DEF DeliverTx, ApplyTx, ParentApply, ProofApply, PartialSignatureApply, envVars
  <2>2. Milestone # Nil \/ UNCHANGED SignaturesByIssuer
    BY <1>5 DEF DeliverTx, ApplyTx, ParentApply, ProofApply, PartialSignatureApply
  <2>3. EssenceTime'
    BY <2>1 DEF TimeInv, EssenceTime
  <2>4. IssuedTime'
    BY <2>1 DEF TimeInv, IssuedTime
  <2> QED
    BY <1>0, <2>1, <2>2, <2>3, <2>4 DEF TimeInv
<1>6. CASE EndBlock
  <2>1. /\ UNCHANGED << SignaturesByIssuer, milestones, header >>
        /\ phase = "deliver" /\ phase' = "commit"
    BY <1>6 DEF EndBlock
  <2>2. CASE CreateEssence
    <3>1. /\ Milestone = Nil
          /\ Milestone'.Timestamp = header.Time \div 2
      BY <2>2 DEF CreateEssence, createMilestoneEssence
    <3>2. DOMAIN SignaturesByIssuer = {}
      BY <3>1 DEF TimeInv
    <3>3. EssenceTime'
      BY <1>0, <2>1, <3>1, <3>2, HalfSeconds DEF EssenceTime
    <3>4. \A ms \in milestones :
            /\ ms.payload.Timestamp \in Nat
            /\ 2 * ms.payload.Timestamp + 2 <= header.Time
      BY <2>1 DEF TimeInv, IssuedTime
    <3>5. \A ms \in milestones : ms.payload.Timestamp < Milestone'.Timestamp
      BY <1>0, <3>1, <3>4, HalfSeconds
    <3>6. IssuedTime'
      BY <2>1, <3>5 DEF TimeInv, IssuedTime
    <3> QED
      BY <1>0, <2>1, <3>2, <3>3, <3>6 DEF TimeInv
  <2>3. CASE UNCHANGED Milestone
    BY <1>0, <2>1, <2>3, TimeUnchanged
  <2> QED
    BY <1>6, <2>2, <2>3 DEF EndBlock, AwaitParents
<1>7. CASE Commit
  <2>1. phase' = "idle" /\ UNCHANGED header
    BY <1>7 DEF Commit
  <2>2. CASE UNCHANGED << appVars, milestones >>
    BY <1>0, <2>1, <2>2, TimeUnchanged DEF appVars
  <2>3. CASE /\ MilestoneDone
             /\ milestones' = milestones \cup {MilestoneBlockID(Milestone, SignaturesByIssuer)}
             /\ Reset(NextState(header.Height))
    <3> DEFINE issued == MilestoneBlockID(Milestone, SignaturesByIssuer)
    <3>1. /\ Milestone # Nil
          /\ issued.payload = Milestone
          /\ \A ms \in milestones' : ms \in milestones \/ ms = issued
          /\ Milestone' = Nil
          /\ DOMAIN SignaturesByIssuer' = {}
      BY <2>3 DEF MilestoneDone, MilestoneBlockID, Reset, EmptyMap
    <3>2. /\ Milestone.Timestamp \in Nat
          /\ 2 * Milestone.Timestamp + 1 <= header.Time
      BY <2>3, <3>1, DoneSigned DEF TimeInv, EssenceTime
    <3>3. IssuedTime'
      BY <2>1, <3>1, <3>2 DEF TimeInv, IssuedTime
    <3>4. ASSUME NEW a \in milestones', NEW b \in milestones',
                 a.payload.Index < b.payload.Index
          PROVE  a.payload.Timestamp < b.payload.Timestamp
      <4>1. /\ \A ms \in milestones : ms.payload.Index \in 1 .. State.MilestoneIndex - 1
            /\ State.MilestoneIndex \in Nat
            /\ Milestone.Index = State.MilestoneIndex
        BY <1>0, <3>1, ChainFacts DEF ChainInv, IssuedOnce
      <4>2. a \in milestones
        BY <3>1, <3>4, <4>1
      <4>3. CASE b \in milestones
        BY <3>4, <4>2, <4>3 DEF TimeInv
      <4>4. CASE b = issued
        BY <3>1, <4>2, <4>4 DEF TimeInv, IssuedTime
      <4> QED
        BY <3>1, <4>3, <4>4
    <3> QED
      BY <1>0, <3>1, <3>3, <3>4 DEF TimeInv, EssenceTime
  <2> QED
    BY <1>7, <2>2, <2>3 DEF Commit
<1>8. ASSUME NEW b \in Blocks, BlockSolid(b) \/ BlockOutdated(b)
      PROVE  TimeInv'
  BY <1>1, <1>8 DEF BlockSolid, BlockOutdated, appVars
<1>9. CASE UNCHANGED vars
  BY <1>1, <1>9 DEF vars, appVars, envVars
<1> QED
  BY <1>2, <1>3, <1>4, <1>5, <1>6, <1>7, <1>8, <1>9 DEF Next

(* A later milestone has a later timestamp, although a timestamp counts    *)
(* seconds and the blocks are only half a second apart.                    *)
THEOREM TimestampsIncreaseCorrect == Spec => []TimestampsIncrease
<1>1. ASSUME TimeInv PROVE TimestampsIncrease
  <2> SUFFICES ASSUME NEW e1 \in Essences, NEW e2 \in Essences, e1.Index < e2.Index
               PROVE  e1.Timestamp < e2.Timestamp
    BY DEF TimestampsIncrease
  <2>1. /\ \A ms \in milestones : ms.payload.Index \in 1 .. State.MilestoneIndex - 1
        /\ State.MilestoneIndex \in Nat
        /\ Milestone # Nil => Milestone.Index = State.MilestoneIndex
    BY <1>1, ChainFacts DEF TimeInv, ChainInv, IssuedOnce
  <2>2. \A e \in Essences :
           \/ \E ms \in milestones : e = ms.payload
           \/ Milestone # Nil /\ e = Milestone
    BY DEF Essences
  <2>3. PICK ms \in milestones : e1 = ms.payload
    BY <2>1, <2>2
  <2>4. CASE Milestone # Nil /\ e2 = Milestone
    BY <1>1, <2>3, <2>4 DEF TimeInv, IssuedTime
  <2>5. CASE \E other \in milestones : e2 = other.payload
    BY <1>1, <2>3, <2>5 DEF TimeInv
  <2> QED
    BY <2>2, <2>4, <2>5
<1> QED
  BY TimeInit, TimeStep, <1>1, PTL DEF Spec

-----------------------------------------------------------------------------
(* The order of createMilestoneEssence, as a set of pairs, is total.       *)
SortOrder(S) == { p \in S \X S : SortsBefore(p[1], p[2]) }

LEMMA SortOrderPairs ==
  ASSUME NEW S, NEW a \in S, NEW b \in S
  PROVE  << a, b >> \in SortOrder(S) <=> SortsBefore(a, b)
  BY DEF SortOrder

LEMMA SortOrderTotal ==
  ASSUME TypeOK, NEW S \in SUBSET Blocks
  PROVE  TotalOrderOn(SortOrder(S), S)
<1>1. \A a \in S : << a, a >> \notin SortOrder(S)
  BY SortOrderPairs, SortsBeforeIrreflexive
<1>2. ASSUME NEW a \in S, NEW b \in S, NEW c \in S,
             << a, b >> \in SortOrder(S), << b, c >> \in SortOrder(S)
      PROVE  << a, c >> \in SortOrder(S)
  <2>1. SortsBefore(a, b) /\ SortsBefore(b, c)
    BY <1>2, SortOrderPairs
  <2>2. SortsBefore(a, c)
    BY <2>1, SortsBeforeTransitive
  <2> QED
    BY <2>2, SortOrderPairs
<1>3. ASSUME NEW a \in S, NEW b \in S, a # b
      PROVE  << a, b >> \in SortOrder(S) \/ << b, a >> \in SortOrder(S)
  <2>1. IssuerCount(a) \in Nat /\ IssuerCount(b) \in Nat
    BY IssuerCountType
  <2>2. BlockIDLess(a, b) \/ BlockIDLess(b, a)
    BY <1>3, BlockIDOrderAssumption
  <2>3. SortsBefore(a, b) \/ SortsBefore(b, a)
    BY <2>1, <2>2 DEF SortsBefore
  <2> QED
    BY <2>3, SortOrderPairs
<1>4. \A a, b, c \in S : << a, b >> \in SortOrder(S) /\ << b, c >> \in SortOrder(S)
        => << a, c >> \in SortOrder(S)
  BY <1>2
<1> QED
  BY <1>1, <1>3, <1>4 DEF TotalOrderOn

(* What Truncate keeps: a prefix of the list in which the sort puts the    *)
(* parents, of the length that fits next to the last milestone.            *)
LEMMA TruncateIsPrefix ==
  ASSUME TypeOK, NEW S \in SUBSET Blocks, IsFiniteSet(S)
  PROVE  LET kept == IF Cardinality(S) > BlockMaxParents - 1
                     THEN BlockMaxParents - 1 ELSE Cardinality(S)
         IN  /\ \E list \in SortedLists(S) : Truncate(S) = { list[i] : i \in 1 .. kept }
             /\ IsFiniteSet(Truncate(S)) /\ Cardinality(Truncate(S)) <= BlockMaxParents - 1
<1> DEFINE n == Cardinality(S)
           R == SortOrder(S)
           kept == IF n > BlockMaxParents - 1 THEN BlockMaxParents - 1 ELSE n
<1>1. n \in Nat /\ BlockMaxParents - 1 \in Nat /\ kept \in 0 .. n
  BY FS_CardinalityType, FaultyType, ParentsAssumption
<1>2. TotalOrderOn(R, S)
  BY SortOrderTotal
<1>3. PICK list \in [1 .. n -> S] :
        /\ \A i, j \in 1 .. n : i < j => << list[i], list[j] >> \in R
        /\ \A k \in 0 .. n : { list[i] : i \in 1 .. k } = { x \in S : Rank(R, S)[x] < k }
  <2> HIDE DEF R
  <2> QED
    BY <1>2, Listing
<1>4. ASSUME NEW b \in S
      PROVE  Rank(R, S)[b] = Cardinality({ a \in S : SortsBefore(a, b) })
  <2>1. Predecessors(R, S, b) = { a \in S : SortsBefore(a, b) }
    BY SortOrderPairs DEF Predecessors
  <2> QED
    BY <2>1 DEF Rank
<1>5. Truncate(S) = { x \in S : Rank(R, S)[x] < kept }
  <2>1. CASE n > BlockMaxParents - 1
    BY <1>4, <2>1 DEF Truncate
  <2>2. CASE ~ (n > BlockMaxParents - 1)
    <3>1. Rank(R, S) \in [S -> 0 .. n - 1]
      BY <1>2, RankType
    <3>2. \A x \in S : Rank(R, S)[x] < kept
      BY <1>1, <2>2, <3>1
    <3> QED
      BY <2>2, <3>2 DEF Truncate
  <2> QED
    BY <2>1, <2>2
<1>6. list \in SortedLists(S)
  <2>1. ASSUME NEW i \in 1 .. n, NEW j \in 1 .. n, i < j
        PROVE  SortsBefore(list[i], list[j])
    BY <1>3, <2>1, SortOrderPairs
  <2> QED
    BY <2>1 DEF SortedLists
<1>7. Truncate(S) = { list[i] : i \in 1 .. kept }
  BY <1>1, <1>3, <1>5
<1>8. IsFiniteSet(Truncate(S)) /\ Cardinality(Truncate(S)) <= kept
  <2> DEFINE f == [i \in 1 .. kept |-> list[i]]
  <2>1. f \in Surjection(1 .. kept, Truncate(S))
    BY <1>7 DEF Surjection
  <2>2. IsFiniteSet(1 .. kept) /\ Cardinality(1 .. kept) = kept
    <3>1. kept \in Nat
      BY <1>1
    <3> HIDE DEF kept
    <3> QED
      BY <3>1, FS_Interval
  <2> QED
    BY <2>1, <2>2, FS_Surjection
<1>9. Cardinality(Truncate(S)) <= BlockMaxParents - 1
  <2>1. Cardinality(Truncate(S)) \in Nat
    BY <1>8, FS_CardinalityType
  <2> QED
    BY <1>1, <1>8, <2>1
<1> QED
  BY <1>6, <1>7, <1>8, <1>9

LEMMA SelectedInit == Init => SelectedInv
  BY HonestParentInit DEF Init, InitAppState, EssenceSelected, SelectedInv

(* Nothing that the selection depends on changes once there is an essence. *)
LEMMA SelectedStep == SelectedInv /\ [Next]_vars => SelectedInv'
<1> SUFFICES ASSUME SelectedInv, [Next]_vars
             PROVE  EssenceSelected'
  BY HonestParentStep DEF SelectedInv
<1>1. ASSUME UNCHANGED << State, Milestone >>,
             Milestone # Nil => UNCHANGED << IssuerCountByParent, ProofIssuersByBlockID >>
      PROVE  EssenceSelected'
  <2>1. SUFFICES ASSUME Milestone # Nil
                 PROVE  Milestone.Parents = MilestoneParents'
    BY <1>1 DEF EssenceSelected
  <2>2. MilestoneParents' = MilestoneParents
    BY <1>1, <2>1 DEF MilestoneParents, Truncate, ValidParents, SortsBefore, IssuerCount
  <2> QED
    BY <2>1, <2>2 DEF SelectedInv, EssenceSelected
<1>2. ASSUME NEW tx, DeliverTx(tx)
      PROVE  EssenceSelected'
  BY <1>1, <1>2 DEF DeliverTx, ApplyTx, ParentApply, ProofApply, PartialSignatureApply
<1>3. CASE EndBlock
  <2>1. UNCHANGED << State, IssuerCountByParent, ProofIssuersByBlockID >>
    BY <1>3 DEF EndBlock
  <2>2. CASE CreateEssence
    <3>1. Milestone'.Parents = MilestoneParents
      BY <2>2 DEF CreateEssence, createMilestoneEssence
    <3>2. MilestoneParents' = MilestoneParents
      BY <2>1 DEF MilestoneParents, Truncate, ValidParents, SortsBefore, IssuerCount
    <3> QED
      BY <3>1, <3>2 DEF EssenceSelected
  <2>3. CASE UNCHANGED Milestone
    BY <1>1, <2>1, <2>3
  <2> QED
    BY <1>3, <2>2, <2>3 DEF EndBlock, AwaitParents
<1>4. CASE Commit
  <2>1. CASE Reset(NextState(header.Height))
    BY <2>1 DEF Reset, EssenceSelected
  <2>2. CASE UNCHANGED appVars
    BY <1>1, <2>2 DEF appVars
  <2> QED
    BY <1>4, <2>1, <2>2 DEF Commit
<1>5. CASE UNCHANGED appVars
  BY <1>1, <1>5 DEF appVars
<1> QED
  BY <1>2, <1>3, <1>4, <1>5
     DEF Next, ProposeParent, processParent, BeginBlock, BlockSolid, BlockOutdated, vars

(* The parents of a milestone are the first ones in the order of the sort, *)
(* as many as fit into a block, for any number of proposals (app.go 330).  *)
THEOREM ParentsSortedCorrect == Spec => []ParentsAreSortedPrefix
<1>1. ASSUME SelectedInv
      PROVE  ParentsAreSortedPrefix
  <2> DEFINE last == State.LastMilestoneBlockID
             parents == ValidParents \ {last}
             kept == IF Cardinality(parents) > BlockMaxParents - 1
                     THEN BlockMaxParents - 1 ELSE Cardinality(parents)
  <2>1. SUFFICES ASSUME Milestone # Nil
                 PROVE  /\ \E list \in SortedLists(parents) :
                              Milestone.Parents = { list[i] : i \in 1 .. kept } \cup {last}
                        /\ Cardinality(Milestone.Parents) <= BlockMaxParents
    BY DEF ParentsAreSortedPrefix
  <2>2. TypeOK /\ CountsMatch
    BY <1>1 DEF SelectedInv, HonestParentInv, TypeInv
  <2>3. parents \in SUBSET Blocks /\ IsFiniteSet(parents)
    BY <2>2, ValidParentsFinite
  <2>4. Milestone.Parents = Truncate(parents) \cup {last}
    BY <1>1, <2>1 DEF SelectedInv, EssenceSelected, MilestoneParents
  <2> HIDE DEF parents, last
  <2>5. /\ \E list \in SortedLists(parents) : Truncate(parents) = { list[i] : i \in 1 .. kept }
        /\ IsFiniteSet(Truncate(parents))
        /\ Cardinality(Truncate(parents)) <= BlockMaxParents - 1
    BY <2>2, <2>3, TruncateIsPrefix
  <2>6. Cardinality(Milestone.Parents) <= Cardinality(Truncate(parents)) + 1
    <3>1. Cardinality(Truncate(parents)) \in Nat
      BY <2>5, FS_CardinalityType
    <3>2. PICK cut : cut = Truncate(parents)
      OBVIOUS
    <3>3. \/ Cardinality(cut \cup {last}) = Cardinality(cut)
          \/ Cardinality(cut \cup {last}) = Cardinality(cut) + 1
      BY <2>5, <3>2, FS_AddElement
    <3> QED
      BY <2>4, <3>1, <3>2, <3>3
  <2>7. Cardinality(Milestone.Parents) \in Nat /\ Cardinality(Truncate(parents)) \in Nat
    BY <2>4, <2>5, FS_AddElement, FS_CardinalityType
  <2> QED
    BY <2>4, <2>5, <2>6, <2>7, ParentsAssumption
<1> QED
  BY SelectedInit, SelectedStep, <1>1, PTL DEF Spec
-----------------------------------------------------------------------------
(* The refinement of MilestoneChain.                                       *)

LEMMA ChainInitRefines == Init => Promise!Init
  BY DEF Init, InitAppState, InitialState, Payloads, Promise!Init

LEMMA PromiseUnchanged ==
  ASSUME State' = State, Milestone' = Milestone, milestones' = milestones
  PROVE  UNCHANGED Promise!vars
<1>1. Payloads' = Payloads
  BY DEF Payloads
<1> QED
  BY <1>1 DEF Promise!vars

(* EndBlock agrees on an essence that names the milestone issued last.     *)
LEMMA CreateEssenceRefines ==
  ASSUME TypeInv, EndBlock, CreateEssence
  PROVE  Promise!Agree
<1>1. UNCHANGED << State, milestones >>
  BY DEF EndBlock
<1>2. State.MilestoneIndex \in Nat \ {0}
  BY CommitteeAssumption DEF TypeInv, TypeOK
<1>3. /\ Milestone = Nil
      /\ Milestone'.Index = State.MilestoneIndex
      /\ Milestone'.PreviousMilestoneID = State.LastMilestoneID
  BY DEF CreateEssence, createMilestoneEssence
<1>4. Milestone' # Nil
  BY <1>2, <1>3 DEF Nil
<1>5. Payloads' = Payloads
  BY <1>1 DEF Payloads
<1> QED
  BY <1>1, <1>3, <1>4, <1>5 DEF Promise!Agree

(* Commit issues it, once it has enough signatures.                        *)
LEMMA CommitRefines ==
  ASSUME Commit
  PROVE  Promise!Issue \/ UNCHANGED Promise!vars
<1>1. CASE /\ MilestoneDone
           /\ milestones' = milestones \cup {MilestoneBlockID(Milestone, SignaturesByIssuer)}
           /\ Reset(NextState(header.Height))
  <2>1. Milestone # Nil
    BY <1>1 DEF MilestoneDone
  <2>2. /\ State'.MilestoneIndex = State.MilestoneIndex + 1
        /\ State'.LastMilestoneID = Milestone
        /\ Milestone' = Nil
    BY <1>1 DEF Reset, NextState
  <2>3. MilestoneBlockID(Milestone, SignaturesByIssuer).payload = Milestone
    BY DEF MilestoneBlockID
  <2>4. Payloads' = Payloads \cup {Milestone}
    BY <1>1, <2>3 DEF Payloads
  <2> QED
    BY <2>1, <2>2, <2>4 DEF Promise!Issue
<1>2. CASE UNCHANGED << appVars, milestones >>
  BY <1>2, PromiseUnchanged DEF appVars
<1> QED
  BY <1>1, <1>2 DEF Commit

LEMMA ChainStepRefines == TypeInv /\ [Next]_vars => [Promise!Next]_(Promise!vars)
<1> SUFFICES ASSUME TypeInv, [Next]_vars
             PROVE  Promise!Next \/ UNCHANGED Promise!vars
  OBVIOUS
<1>1. ASSUME NEW tx \in sent \cup ByzantineTxs, DeliverTx(tx)
      PROVE  UNCHANGED Promise!vars
  <2>1. State' = State /\ Milestone' = Milestone /\ milestones' = milestones
    BY <1>1 DEF DeliverTx, ApplyTx, ParentApply, ProofApply, PartialSignatureApply, envVars
  <2> QED
    BY <2>1, PromiseUnchanged
<1>2. CASE EndBlock
  <2>1. CASE CreateEssence
    BY <1>2, <2>1, CreateEssenceRefines DEF Promise!Next
  <2>2. CASE UNCHANGED Milestone
    BY <1>2, <2>2, PromiseUnchanged DEF EndBlock
  <2> QED
    BY <1>2, <2>1, <2>2 DEF EndBlock, AwaitParents
<1>3. CASE Commit
  BY <1>3, CommitRefines DEF Promise!Next
<1>4. CASE UNCHANGED << appVars, milestones >>
  BY <1>4, PromiseUnchanged DEF appVars
<1> QED
  BY <1>1, <1>2, <1>3, <1>4
     DEF Next, ProposeParent, processParent, BeginBlock, BlockSolid, BlockOutdated, vars, envVars

(* The committee issues one chain of milestones: what was agreed on is     *)
(* issued unchanged and only then, each milestone names the one before it, *)
(* and no index is left out or issued twice (app.go 143, 199-224).         *)
THEOREM ChainRefined == Spec => RefinesMilestoneChain
  BY TypeInit, TypeStep, ChainInitRefines, ChainStepRefines, PTL
     DEF Spec, RefinesMilestoneChain, Promise!Spec
=============================================================================
