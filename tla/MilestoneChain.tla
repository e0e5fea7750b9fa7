---------------------------- MODULE MilestoneChain ----------------------------
(***************************************************************************)
(* What the committee promises to the Tangle (README.md of the repository: *)
(* the milestones are agreed on by consensus and can be recreated), without *)
(* blocks, votes, signatures, replays and nodes:                           *)
(*   - there is one milestone after the other, without gaps, each naming   *)
(*     the one that was issued before it;                                  *)
(*   - an essence that was agreed on is issued unchanged, and no other is  *)
(*     agreed on before;                                                   *)
(*   - only issued milestones are published, in any order and perhaps      *)
(*     late, and none is withdrawn.                                        *)
(* Coordinator implements it for one run of the committee, Resume for      *)
(* validators that stop, resume from a milestone and replay blocks.        *)
(***************************************************************************)
EXTENDS Integers

CONSTANTS
    Nil,         \* no essence
    FirstIndex,
    Genesis      \* what the first milestone names as its predecessor

VARIABLES
    nextIndex,   \* of the milestone to agree on
    last,        \* the milestone issued last
    essence,     \* agreed on and not issued yet, or Nil
    issued,      \* the milestones so far
    published    \* those that have been submitted to the Tangle

vars == << nextIndex, last, essence, issued, published >>

Init ==
    /\ nextIndex = FirstIndex
    /\ last = Genesis
    /\ essence = Nil
    /\ issued = {}
    /\ published = {}

Agree ==
    /\ essence = Nil
    /\ essence' # Nil
    /\ essence'.Index = nextIndex
    /\ essence'.PreviousMilestoneID = last
    /\ UNCHANGED << nextIndex, last, issued, published >>

(* It may be published at once.                                            *)
Issue ==
    /\ essence # Nil
    /\ nextIndex' = nextIndex + 1
    /\ last' = essence
    /\ essence' = Nil
    /\ issued' = issued \cup {essence}
    /\ published' \in { published, published \cup {essence} }

Publish ==
    /\ \E milestone \in issued : published' = published \cup {milestone}
    /\ UNCHANGED << nextIndex, last, essence, issued >>

Next == Agree \/ Issue \/ Publish

Spec == Init /\ [][Next]_vars
=============================================================================
