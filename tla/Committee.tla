------------------------------ MODULE Committee ------------------------------
(***************************************************************************)
(* The committee of validators that issues milestones                      *)
(* (pkg/decoo/committee.go).  Public keys are abstract values; a           *)
(* transaction or signature of a key that is not Byzantine can only come   *)
(* from its owner (ed25519 is taken to be unforgeable).  Which keys may    *)
(* issue milestone i is decided by the key ranges of the node's            *)
(* configuration, so the committee can change from one milestone to the    *)
(* next while N and T are fixed when the coordinator is started.           *)
(***************************************************************************)
EXTENDS Integers, FiniteSets

CONSTANTS
    Validators,   \* every public key that occurs in a key range
    Byzantine,    \* the keys whose owners may send anything
    KeyRanges,    \* set of records [key, start, end]
    N,            \* the configured number of committee members
    T,            \* the signature threshold of a milestone
    StartIndex,   \* the milestone index the network is bootstrapped with
    MaxIndex      \* bound: the last milestone index that is issued

Honest == Validators \ Byzantine

(* (n - 1) / 3, an integer division *)
maxFaulty(n) == (n - 1) \div 3

F == maxFaulty(N)

(* A range whose start and end coincide has no end.                        *)
Members(index) ==
    { r.key : r \in { k \in KeyRanges :
                        k.start <= index /\ (index <= k.end \/ k.start = k.end) } }

ASSUME CommitteeAssumption ==
    /\ IsFiniteSet(Validators)
    /\ Byzantine \subseteq Validators
    /\ \A r \in KeyRanges : r.key \in Validators
    /\ N \in Nat \ {0}
    /\ T \in Nat \ {0}
    /\ StartIndex \in Nat \ {0}
    /\ MaxIndex \in Nat /\ StartIndex <= MaxIndex

(* The fault model: at most F of the keys of any milestone are Byzantine.  *)
ASSUME FaultAssumption ==
    \A i \in StartIndex .. MaxIndex : Cardinality(Byzantine \cap Members(i)) <= F
=============================================================================
