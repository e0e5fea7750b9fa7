---------------------------- MODULE MCCoordinator ----------------------------
(* Instances of Coordinator for TLC.                                       *)
EXTENDS Coordinator, SequencesExt

CONSTANTS a, b, c, d, x, y, z

(* One committee for every milestone.                                      *)
FixedCommittee == { [key |-> v, start |-> 0, end |-> 0] : v \in Validators }

(* From milestone 2 on, b takes the place of a.                            *)
CommitteeChange == { [key |-> a, start |-> 0, end |-> 1],
                     [key |-> b, start |-> 2, end |-> 2] }

BlockOrder == << x, y, z >>
ByOrder(p, q) ==
    \E i, j \in DOMAIN BlockOrder : BlockOrder[i] = p /\ BlockOrder[j] = q /\ i < j

HonestSymmetry == Permutations(Honest)

-----------------------------------------------------------------------------
(* Blocks of the first milestone that EndBlock can meet: any members       *)
(* have proposed any candidates, and proposed blocks have no proofs,       *)
(* just as many as the Byzantine members can give it, or one more.         *)
Proposals ==
    UNION { [issuers -> Candidates] : issuers \in SUBSET Validators }

ProofsFor(blocks) ==
    UNION { [proved -> {{d}, {a, d}}] : proved \in SUBSET blocks }

InitDelivered ==
    /\ State = InitialState
    /\ ParentByIssuer \in Proposals
    /\ IssuerCountByParent =
          [ p \in Range(ParentByIssuer) |->
              Cardinality({ v \in DOMAIN ParentByIssuer : ParentByIssuer[v] = p }) ]
    /\ ProofIssuersByBlockID \in ProofsFor(Range(ParentByIssuer))
    /\ Milestone = Nil
    /\ SignaturesByIssuer = EmptyMap
    /\ phase = "deliver"
    /\ header = [Height |-> 1, Time |-> 1]
    /\ callbacks = [v \in Honest |-> EmptyMap]
    /\ sent = { ParentTx(v, StartIndex, ParentByIssuer[v]) :
                  v \in Honest \cap DOMAIN ParentByIssuer }
    /\ tangle = [p \in Blocks |-> "valid"]
    /\ milestones = {}

SpecDelivered == InitDelivered /\ [][EndBlock]_vars
=============================================================================
