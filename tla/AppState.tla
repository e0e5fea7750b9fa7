------------------------------- MODULE AppState -------------------------------
(***************************************************************************)
(* The replicated application state of the coordinator                     *)
(* (pkg/decoo/appstate.go, state.go) and what a Tendermint transaction     *)
(* does to it (txs.go).  The fields of the Go struct are the variables; a  *)
(* Go map is a function whose domain is the set of keys present.           *)
(*                                                                         *)
(* Hashes are taken to be collision free: a milestone ID is the essence    *)
(* it is the hash of, a milestone block ID is that essence together with   *)
(* its signatures.  The Merkle roots and the protocol version of a         *)
(* milestone are left out of its essence.                                  *)
(***************************************************************************)
EXTENDS Committee

CONSTANTS
    BlockMaxParents,      \* iotago.BlockMaxParents
    BlockIDLess(_, _),    \* bytes.Compare(a, b) < 0 on block IDs
    Blocks,               \* the ordinary (not milestone) blocks of the Tangle
    GenesisMilestoneID,   \* the milestone and milestone block the network is
    GenesisBlockID        \*   bootstrapped with

VARIABLES
    State,                  \* [MilestoneHeight, MilestoneIndex,
                            \*  LastMilestoneID, LastMilestoneBlockID]
    ParentByIssuer,         \* issuer -> the block it proposed
    IssuerCountByParent,    \* block -> number of its proposers
    ProofIssuersByBlockID,  \* block -> set of the issuers of its proofs
    Milestone,              \* the essence to sign, or Nil
    SignaturesByIssuer      \* issuer -> its signature of the essence

appVars == << State, ParentByIssuer, IssuerCountByParent, ProofIssuersByBlockID,
              Milestone, SignaturesByIssuer >>

(* There is room for one honest parent in each milestone: New refuses to   *)
(* create a coordinator otherwise.                                         *)
ASSUME ParentsAssumption ==
    /\ BlockMaxParents \in Nat
    /\ F + 1 <= BlockMaxParents - 1

(* bytes.Compare is a total order.                                         *)
ASSUME BlockIDOrderAssumption ==
    /\ \A a \in Blocks : ~ BlockIDLess(a, a)
    /\ \A a, b, c \in Blocks :
          BlockIDLess(a, b) /\ BlockIDLess(b, c) => BlockIDLess(a, c)
    /\ \A a, b \in Blocks : a = b \/ BlockIDLess(a, b) \/ BlockIDLess(b, a)

(* The absent milestone.  No milestone has index 0.                        *)
Nil == [Index |-> 0]

Put(m, k, v) == [x \in DOMAIN m \cup {k} |-> IF x = k THEN v ELSE m[x]]

EmptyMap == [x \in {} |-> x]

-----------------------------------------------------------------------------
(* Transactions.  The issuer is the public key whose signature UnmarshalTx *)
(* has verified.                                                           *)
ParentTx(issuer, index, block) ==
    [type |-> "Parent", issuer |-> issuer, index |-> index, block |-> block]

ProofTx(issuer, index, block) ==
    [type |-> "Proof", issuer |-> issuer, index |-> index, block |-> block]

(* A partial signature is identified with the essence it signs; it carries *)
(* no milestone index.                                                     *)
PartialSignatureTx(issuer, essence) ==
    [type |-> "PartialSignature", issuer |-> issuer, signature |-> essence]

(* Mutant: the committee is not consulted.                                 *)
VerifyNothing(issuer) == issuer \in Validators

(* Only members of the committee of the current milestone are heard.       *)
VerifySingle(issuer) == issuer \in Members(State.MilestoneIndex)

(* A missing key of a Go map of ints reads as 0, of sets as nil.           *)
IssuerCount(b) ==
    IF b \in DOMAIN IssuerCountByParent THEN IssuerCountByParent[b] ELSE 0

ProofIssuers(b) ==
    IF b \in DOMAIN ProofIssuersByBlockID THEN ProofIssuersByBlockID[b] ELSE {}

(* Mutant: a member may propose several parents.                           *)
ParentApplyAgain(issuer, index, block) ==
    /\ index = State.MilestoneIndex
    /\ Milestone = Nil
    /\ ParentByIssuer' = Put(ParentByIssuer, issuer, block)
    /\ IssuerCountByParent' = Put(IssuerCountByParent, block, IssuerCount(block) + 1)
    /\ UNCHANGED << State, ProofIssuersByBlockID, Milestone, SignaturesByIssuer >>

ParentApply(issuer, index, block) ==
    /\ index = State.MilestoneIndex
    /\ Milestone = Nil
    /\ issuer \notin DOMAIN ParentByIssuer
    /\ ParentByIssuer' = Put(ParentByIssuer, issuer, block)
    /\ IssuerCountByParent' = Put(IssuerCountByParent, block, IssuerCount(block) + 1)
    /\ UNCHANGED << State, ProofIssuersByBlockID, Milestone, SignaturesByIssuer >>

(* Mutant: a block that nobody proposed is proved.                         *)
ProofApplyToAny(issuer, index, block) ==
    /\ index = State.MilestoneIndex
    /\ Milestone = Nil
    /\ issuer \notin ProofIssuers(block)
    /\ ProofIssuersByBlockID' =
          Put(ProofIssuersByBlockID, block, ProofIssuers(block) \cup {issuer})
    /\ UNCHANGED << State, ParentByIssuer, IssuerCountByParent, Milestone,
                    SignaturesByIssuer >>

ProofApply(issuer, index, block) ==
    /\ index = State.MilestoneIndex
    /\ Milestone = Nil
    /\ IssuerCount(block) >= 1
    /\ issuer \notin ProofIssuers(block)
    /\ ProofIssuersByBlockID' =
          Put(ProofIssuersByBlockID, block, ProofIssuers(block) \cup {issuer})
    /\ UNCHANGED << State, ParentByIssuer, IssuerCountByParent, Milestone,
                    SignaturesByIssuer >>

(* Mutant: the signature is not verified.                                  *)
PartialSignatureApplyAny(issuer, signature) ==
    /\ Milestone # Nil
    /\ issuer \notin DOMAIN SignaturesByIssuer
    /\ SignaturesByIssuer' = Put(SignaturesByIssuer, issuer, signature)
    /\ UNCHANGED << State, ParentByIssuer, IssuerCountByParent,
                    ProofIssuersByBlockID, Milestone >>

PartialSignatureApply(issuer, signature) ==
    /\ Milestone # Nil
    /\ issuer \notin DOMAIN SignaturesByIssuer
    /\ signature = Milestone
    /\ SignaturesByIssuer' = Put(SignaturesByIssuer, issuer, signature)
    /\ UNCHANGED << State, ParentByIssuer, IssuerCountByParent,
                    ProofIssuersByBlockID, Milestone >>

(* UnmarshalTx followed by Apply, for a transaction that is accepted.  One *)
(* that is rejected leaves the state as it is: a stuttering step.          *)
ApplyTx(tx) ==
    /\ VerifySingle(tx.issuer)
    /\ \/ tx.type = "Parent" /\ ParentApply(tx.issuer, tx.index, tx.block)
       \/ tx.type = "Proof" /\ ProofApply(tx.issuer, tx.index, tx.block)
       \/ tx.type = "PartialSignature" /\ PartialSignatureApply(tx.issuer, tx.signature)

-----------------------------------------------------------------------------
(* What EndBlock makes of the proposals and proofs.                        *)

(* Mutant: F proofs are enough.                                            *)
ValidParentsF ==
    { b \in DOMAIN ProofIssuersByBlockID :
        IssuerCount(b) > 0 /\ Cardinality(ProofIssuersByBlockID[b]) >= F }

(* A proposed block is a valid parent if more than F members proved it.    *)
ValidParents ==
    { b \in DOMAIN ProofIssuersByBlockID :
        IssuerCount(b) > 0 /\ Cardinality(ProofIssuersByBlockID[b]) > F }

(* The sum of the issuer counts of the valid parents.                      *)
ParentWeight ==
    Cardinality(UNION { {b} \X (1 .. IssuerCount(b)) : b \in ValidParents })

(* The order of the sort in createMilestoneEssence: more issuers first,    *)
(* then the smaller block ID.                                              *)
SortsBefore(a, b) ==
    \/ IssuerCount(a) > IssuerCount(b)
    \/ IssuerCount(a) = IssuerCount(b) /\ BlockIDLess(a, b)

(* Mutant: no room is left for an honest parent.                           *)
TruncateShort(parents) ==
    { b \in parents :
        Cardinality({ a \in parents : SortsBefore(a, b) }) < BlockMaxParents - 2 }

(* Mutant: no room is left for the last milestone.                         *)
TruncateLong(parents) ==
    { b \in parents :
        Cardinality({ a \in parents : SortsBefore(a, b) }) < BlockMaxParents }

(* parents[:BlockMaxParents-1] of the sorted parents: those with fewer     *)
(* than BlockMaxParents-1 parents before them.                             *)
Truncate(parents) ==
    IF Cardinality(parents) > BlockMaxParents - 1
    THEN { b \in parents :
             Cardinality({ a \in parents : SortsBefore(a, b) }) < BlockMaxParents - 1 }
    ELSE parents

MilestoneParents ==
    Truncate(ValidParents \ {State.LastMilestoneBlockID}) \cup {State.LastMilestoneBlockID}

Metadata == [ MilestoneHeight      |-> State.MilestoneHeight,
              LastMilestoneBlockID |-> State.LastMilestoneBlockID ]

(* Time is counted in half seconds, a milestone's timestamp in seconds.    *)
createMilestoneEssence(time) ==
    Milestone' = [ Index               |-> State.MilestoneIndex,
                   Timestamp           |-> time \div 2,
                   PreviousMilestoneID |-> State.LastMilestoneID,
                   Parents             |-> MilestoneParents,
                   Metadata            |-> Metadata ]

-----------------------------------------------------------------------------
MilestoneBlockID(essence, signatures) == [payload |-> essence, signatures |-> signatures]

InitialState == [ MilestoneHeight      |-> 0,
                  MilestoneIndex       |-> StartIndex,
                  LastMilestoneID      |-> GenesisMilestoneID,
                  LastMilestoneBlockID |-> GenesisBlockID ]

(* Bootstrap.                                                              *)
InitAppState ==
    /\ State = InitialState
    /\ ParentByIssuer = EmptyMap
    /\ IssuerCountByParent = EmptyMap
    /\ ProofIssuersByBlockID = EmptyMap
    /\ Milestone = Nil
    /\ SignaturesByIssuer = EmptyMap

(* Mutant: the counts of the last milestone stay.                          *)
ResetKeepingCounts(state) ==
    /\ State' = state
    /\ ParentByIssuer' = EmptyMap
    /\ ProofIssuersByBlockID' = EmptyMap
    /\ Milestone' = Nil
    /\ SignaturesByIssuer' = EmptyMap
    /\ UNCHANGED IssuerCountByParent

Reset(state) ==
    /\ State' = state
    /\ ParentByIssuer' = EmptyMap
    /\ IssuerCountByParent' = EmptyMap
    /\ ProofIssuersByBlockID' = EmptyMap
    /\ Milestone' = Nil
    /\ SignaturesByIssuer' = EmptyMap

(* Mutant: the index is not advanced.                                      *)
NextStateSameIndex(height) ==
    [ MilestoneHeight      |-> height,
      MilestoneIndex       |-> State.MilestoneIndex,
      LastMilestoneID      |-> Milestone,
      LastMilestoneBlockID |-> MilestoneBlockID(Milestone, SignaturesByIssuer) ]

(* Mutant: the block ID is computed before the signatures are added.       *)
NextStateUnsigned(height) ==
    [ MilestoneHeight      |-> height,
      MilestoneIndex       |-> State.MilestoneIndex + 1,
      LastMilestoneID      |-> Milestone,
      LastMilestoneBlockID |-> MilestoneBlockID(Milestone, EmptyMap) ]

(* The state Commit resets to once the milestone has enough signatures.    *)
NextState(height) ==
    [ MilestoneHeight      |-> height,
      MilestoneIndex       |-> State.MilestoneIndex + 1,
      LastMilestoneID      |-> Milestone,
      LastMilestoneBlockID |-> MilestoneBlockID(Milestone, SignaturesByIssuer) ]
=============================================================================
