------------------------------- MODULE Heaviest -------------------------------
(***************************************************************************)
(* The tip selector of one validator (pkg/selector/heaviest.go).           *)
(*                                                                         *)
(* Two goroutines use it: the event handlers, which add solid blocks and   *)
(* reset the selector under its mutex, and the proposer, which selects     *)
(* tips.  SelectTips takes the mutex only to copy the list of tips; after  *)
(* that it reads and clears bits of the tracked blocks without it.  One    *)
(* iteration of the selection and one tip in referenceTip are a step each. *)
(*                                                                         *)
(* A block becomes solid once, so that a block and its trackedBlock are    *)
(* one.  A bit set is the set of its bits.                                 *)
(***************************************************************************)
EXTENDS Naturals, FiniteSets, Sequences, Functions

CONSTANTS
    Blocks,
    maxTips,               \* Parameters.TipSel.MaxTips
    LimitNum, LimitDen,    \* reducedConfirmationLimit, a fraction
    MaxParents,            \* bound: solid parents of a block
    MaxCalls,              \* bound: calls of SelectTips
    MaxResets              \* bound: calls of Reset

ASSUME HeaviestAssumption ==
    /\ IsFiniteSet(Blocks)
    /\ maxTips \in Nat \ {0}
    /\ LimitNum \in Nat
    /\ LimitDen \in Nat \ {0}

VARIABLES
    solid,           \* the blocks that have become solid so far
    trackedBlocks,   \* the keys of the map
    tips,            \* the elements of the list
    refs,            \* block -> trackedBlock.refs
    list,            \* trackedBlocksList.blocks of the running SelectTips
    todo,            \* the tips of list that referenceTip has not reached
    selected,        \* the tips selected so far, or by the last call
    bestReferenced,
    pc,              \* of SelectTips: "idle", "iterate" or "select"
    outcome,         \* of the last SelectTips: "none" yet, "tips" or "error"
    calls, resets,   \* counted for the bounds
    trackedParents,  \* history: block -> its parents that were tracked
    index,           \* history: block -> its bit
    earlier          \* history: the tips of earlier selections

blockVars == << solid, trackedBlocks, tips, trackedParents, index >>
callVars == << list, todo, selected, bestReferenced, pc, outcome, calls, earlier >>
vars == << blockVars, refs, callVars, resets >>

minRequiredTips == 1

Init ==
    /\ solid = {}
    /\ trackedBlocks = {}
    /\ tips = {}
    /\ refs = [b \in Blocks |-> {}]
    /\ list = {}
    /\ todo = {}
    /\ selected = << >>
    /\ bestReferenced = 0
    /\ pc = "idle"
    /\ outcome = "none"
    /\ calls = 0
    /\ resets = 0
    /\ trackedParents = [b \in Blocks |-> {}]
    /\ index = [b \in Blocks |-> 0]
    /\ earlier = {}

lastTip == selected[Len(selected)]

-----------------------------------------------------------------------------
(* The event handlers.                                                     *)

(* The bits of p that are read as set or as cleared: referenceTip clears   *)
(* them, word by word and without the mutex, while they are read.          *)
RacingBits(p) == IF p \in todo THEN refs[p] \cap refs[lastTip] ELSE {}

(* What the union of the bits of the blocks in P may be.                   *)
UnionsOfRefs(P) ==
    { UNION { refs[p] \ cleared[p] : p \in P } :
        cleared \in { f \in [P -> SUBSET UNION { RacingBits(p) : p \in P }] :
                        \A p \in P : f[p] \subseteq RacingBits(p) } }

(* A new solid block gets the next bit and the bits of the tracked parents *)
(* among its parents P, which are tips no longer.  Its other parents have  *)
(* never been tracked, or not since the last Reset.                        *)
AddBlock(b, P, idx, removed) ==
    /\ b \notin solid
    /\ solid' = solid \cup {b}
    /\ trackedBlocks' = trackedBlocks \cup {b}
    /\ trackedParents' = [trackedParents EXCEPT ![b] = P]
    /\ index' = [index EXCEPT ![b] = idx]
    /\ \E bits \in UnionsOfRefs(P) : refs' = [refs EXCEPT ![b] = {idx} \cup bits]
    /\ tips' = (tips \ removed) \cup {b}
    /\ UNCHANGED << callVars, resets >>

(* Mutant: the bit of a block is counted from the tips.                    *)
OnNewSolidBlockByTips(b, parents) ==
    LET P == parents \cap trackedBlocks
    IN  AddBlock(b, P, Cardinality(tips), P)

(* Mutant: a tip stays one although a new block references it.             *)
OnNewSolidBlockKeepingTips(b, parents) ==
    AddBlock(b, parents \cap trackedBlocks, Cardinality(trackedBlocks), {})

(* A block that is tracked already is ignored, which is a stuttering step. *)
OnNewSolidBlock(b, parents) ==
    LET P == parents \cap trackedBlocks
    IN  AddBlock(b, P, Cardinality(trackedBlocks), P)

Reset ==
    /\ resets < MaxResets
    /\ resets' = resets + 1
    /\ trackedBlocks' = {}
    /\ tips' = {}
    /\ UNCHANGED << solid, trackedParents, index, refs, callVars >>

-----------------------------------------------------------------------------
(* The proposer, which runs one SelectTips at a time.                      *)
SelectTips ==
    /\ pc = "idle"
    /\ calls < MaxCalls
    /\ calls' = calls + 1
    /\ list' = tips
    /\ todo' = {}
    /\ selected' = << >>
    /\ bestReferenced' = 0
    /\ pc' = "iterate"
    /\ outcome' = "none"
    /\ earlier' = earlier \cup Range(selected)
    /\ UNCHANGED << blockVars, refs, resets >>

Return(o) ==
    /\ pc' = "idle"
    /\ outcome' = o
    /\ UNCHANGED << blockVars, refs, list, todo, selected, bestReferenced, calls,
                    earlier, resets >>

(* Without enough tips the reason to stop is an error.                     *)
ReturnEnough == Return(IF Len(selected) >= minRequiredTips THEN "tips" ELSE "error")

(* The timeout or the cancellation of the context, seen when an iteration  *)
(* begins.                                                                 *)
Canceled == pc = "iterate" /\ Len(selected) < maxTips /\ ReturnEnough

BeginIteration(removed) ==
    /\ pc = "iterate"
    /\ pc' = "select"
    /\ list' = list \ removed
    /\ todo' = IF selected = << >> THEN {} ELSE list'
    /\ UNCHANGED << blockVars, refs, selected, bestReferenced, outcome, calls, earlier,
                    resets >>

(* Mutant: one iteration too many.                                         *)
IterateOnceMore == Len(selected) <= maxTips /\ BeginIteration(Range(selected))

(* Mutant: the last tip stays in the list.                                 *)
IterateKeepingTip == Len(selected) < maxTips /\ BeginIteration({})

(* An iteration begins: the last tip is removed from the list, and         *)
(* referenceTip is to clear its bits in those that remain.                 *)
Iterate == Len(selected) < maxTips /\ BeginIteration(Range(selected))

ClearBits(other, bits) ==
    /\ pc = "select"
    /\ other \in todo
    /\ refs' = [refs EXCEPT ![other] = @ \ bits]
    /\ todo' = todo \ {other}
    /\ UNCHANGED << blockVars, list, selected, bestReferenced, pc, outcome, calls, earlier,
                    resets >>

(* Mutant: only the bit of the tip itself is cleared.                      *)
referenceTipOnly(other) == ClearBits(other, {index[lastTip]})

referenceTip(other) == ClearBits(other, refs[lastTip])

Count(b) == Cardinality(refs[b])

Selectable(tip) ==
    /\ pc = "select"
    /\ todo = {}
    /\ tip \in list
    /\ \A other \in list : Count(other) <= Count(tip)

(* The fraction of the tip compared to the first one is below the limit.   *)
TooLight(tip) ==
    /\ Len(selected) >= minRequiredTips
    /\ Count(tip) * LimitDen < LimitNum * bestReferenced

(* One of the heaviest tips is taken at random.                            *)
selectTip(tip) ==
    /\ Selectable(tip)
    /\ ~ TooLight(tip)
    /\ selected' = Append(selected, tip)
    /\ bestReferenced' = IF selected = << >> THEN Count(tip) ELSE bestReferenced
    /\ pc' = "iterate"
    /\ UNCHANGED << blockVars, refs, list, todo, outcome, calls, earlier, resets >>

StopTooLight(tip) == Selectable(tip) /\ TooLight(tip) /\ Return("tips")

(* ErrNoTipsAvailable.                                                     *)
NoTips == pc = "select" /\ list = {} /\ ReturnEnough

(* The loop ends after maxTips tips.                                       *)
Enough == pc = "iterate" /\ Len(selected) >= maxTips /\ Return("tips")

Next ==
    \/ \E b \in Blocks, P \in SUBSET solid :
          Cardinality(P) <= MaxParents /\ OnNewSolidBlock(b, P)
    \/ Reset
    \/ SelectTips
    \/ Canceled
    \/ Iterate
    \/ \E b \in todo : referenceTip(b)
    \/ \E b \in list : selectTip(b) \/ StopTooLight(b)
    \/ NoTips
    \/ Enough

Spec == Init /\ [][Next]_vars

-----------------------------------------------------------------------------
TypeOK ==
    /\ trackedBlocks \subseteq solid
    /\ solid \subseteq Blocks
    /\ refs \in [Blocks -> SUBSET (0 .. Cardinality(Blocks) - 1)]
    /\ list \subseteq solid
    /\ todo \subseteq list
    /\ selected \in UNION { [1 .. n -> solid] : n \in 0 .. maxTips }
    /\ bestReferenced \in 0 .. Cardinality(Blocks)
    /\ pc \in {"idle", "iterate", "select"}
    /\ outcome \in {"none", "tips", "error"}

(* The tips are the tracked blocks that no tracked block references, in    *)
(* spite of solid blocks that arrive during a selection (heaviest.go 144). *)
TipsAreChildless ==
    tips = { b \in trackedBlocks : \A c \in trackedBlocks : b \notin trackedParents[c] }

(* The blocks a block references among those tracked with it, R_b of       *)
(* README.md 64, which no selection changes.                               *)
coneOf[b \in solid] == {b} \cup UNION { coneOf[p] : p \in trackedParents[b] }

Cones == [b \in solid |-> coneOf[b]]

UnionOver(cone, B) == UNION { cone[b] : b \in B }

(* However selections, solid blocks and resets interleave, a bit set only  *)
(* holds bits of blocks the block references, itself included if it is a   *)
(* tip, and what it lacks is referenced by a tip that was selected since   *)
(* the last Reset (heaviest.go 63, 140).                                   *)
MissingIsSelected ==
    LET cone == Cones
        covered == UnionOver(cone, earlier \cup Range(selected))
    IN  \A b \in trackedBlocks :
            /\ refs[b] \subseteq { index[c] : c \in cone[b] }
            /\ b \in tips => index[b] \in refs[b]
            /\ \A c \in cone[b] : index[c] \in refs[b] \/ c \in covered

(* A selection that returns without an error returns a tip (loop.go 143    *)
(* picks a random element), and the first tip has a positive count, by     *)
(* which the others are divided (heaviest.go 223).                         *)
ResultUsable ==
    /\ outcome = "tips" => selected # << >>
    /\ selected # << >> => bestReferenced > 0

(* Every tip selected was the one that adds the most blocks to those the   *)
(* tips before it reference, among the tips when the selection began.      *)
Greedy(cone) ==
    \A i \in 1 .. Len(selected) :
        LET before == UnionOver(cone, { selected[j] : j \in 1 .. i - 1 })
        IN  \A b \in list \ { selected[j] : j \in 1 .. i } :
                Cardinality(cone[b] \ before) <= Cardinality(cone[selected[i]] \ before)

(* A selection is greedy if no earlier one since the last Reset touched    *)
(* what its tips reference, although blocks that become solid during it    *)
(* build on bit sets that it is changing (heaviest.go 205).                *)
FirstSelectionGreedy ==
    LET cone == Cones
    IN  UnionOver(cone, earlier) \cap UnionOver(cone, list \cup Range(selected)) = {}
            => Greedy(cone)

(* "in each state the heaviest branch, i.e. the tip referencing the most   *)
(* blocks, is selected" (heaviest.go 155).                                 *)
EverySelectionGreedy == Greedy(Cones)
-----------------------------------------------------------------------------
(* What the proofs need besides: the parts of the inductive invariant.     *)

ListedBlocks == list \cup Range(selected)

(* Parents were solid and tracked before their children, and each tracked  *)
(* block has a bit of its own.                                             *)
ParentsBefore ==
    /\ trackedParents \in [Blocks -> SUBSET solid]
    /\ \A b \in trackedBlocks : trackedParents[b] \subseteq trackedBlocks

OwnBits ==
    /\ index \in [Blocks -> Nat]
    /\ \A b \in trackedBlocks : index[b] < Cardinality(trackedBlocks)
    /\ \A b, c \in trackedBlocks : index[b] = index[c] => b = c

(* What a block references is solid, and if the block is tracked, it is    *)
(* tracked and has a child unless it is the block itself.                  *)
ConesTracked ==
    /\ \A b \in solid : Cones[b] \subseteq solid
    /\ \A b \in trackedBlocks :
          /\ Cones[b] \subseteq trackedBlocks
          /\ \A c \in Cones[b] \ {b} : \E d \in trackedBlocks : c \in trackedParents[d]

(* The tips that SelectTips works on come from one list: either all of     *)
(* them are tracked, or Reset was called since.                            *)
OneGeneration ==
    /\ earlier \subseteq solid
    /\ ListedBlocks \subseteq trackedBlocks \/ ListedBlocks \cap trackedBlocks = {}
    /\ \A b, c \in UnionOver(Cones, ListedBlocks) : index[b] = index[c] => b = c

(* referenceTip works on the tips besides those selected.  The first tip   *)
(* counts itself at least.                                                 *)
Selecting ==
    /\ pc = "select" => list \cap Range(selected) = {} /\ Len(selected) < maxTips
    /\ todo # {} => pc = "select" /\ selected # << >>

FirstTipCounts == pc # "idle" /\ selected = << >> => \A b \in list : index[b] \in refs[b]

(* The bits of a tip that referenceTip has reached are those of the blocks *)
(* no tip selected so far references.                                      *)
Before(i) == UnionOver(Cones, { selected[j] : j \in 1 .. i - 1 })

HasBitsOutside(b, referenced) == refs[b] = { index[c] : c \in Cones[b] \ referenced }

Untouched == UnionOver(Cones, earlier) \cap UnionOver(Cones, ListedBlocks) = {}

BitsLeft ==
    Untouched /\ pc # "idle" =>
        LET n == Len(selected)
            reached == IF pc = "select" THEN list \ todo ELSE {}
        IN  /\ selected # << >> => HasBitsOutside(lastTip, Before(n))
            /\ \A b \in (list \ Range(selected)) \ reached : HasBitsOutside(b, Before(n))
            /\ \A b \in reached : HasBitsOutside(b, Before(n + 1))

SelectorInv ==
    /\ TypeOK
    /\ ParentsBefore
    /\ OwnBits
    /\ TipsAreChildless
    /\ ConesTracked
    /\ OneGeneration
    /\ MissingIsSelected
    /\ Selecting
    /\ FirstTipCounts
    /\ ResultUsable
    /\ BitsLeft
    /\ FirstSelectionGreedy
=============================================================================
