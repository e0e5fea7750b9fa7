---------------------------- MODULE HeaviestProofs ----------------------------
(***************************************************************************)
(* Proofs about Heaviest, for every finite set of blocks and every bound.  *)
(***************************************************************************)
EXTENDS Heaviest, FiniteSetTheorems, SequenceTheorems, TLAPS

(* The cones are defined by recursion over the parents.  That exactly one  *)
(* function satisfies this definition is an invariant: blocks only become  *)
(* solid after their parents.                                              *)
IsCones(f) == f = [b \in solid |-> {b} \cup UNION { f[p] : p \in trackedParents[b] }]

ConesExist == \E f : IsCones(f) /\ \A g : IsCones(g) => g = f

ConesExact == IsCones(Cones) /\ \A g : IsCones(g) => g = Cones

LEMMA ConesKnown == ConesExist => ConesExact
<1> SUFFICES ASSUME ConesExist PROVE ConesExact
  OBVIOUS
<1>1. PICK f : IsCones(f) /\ \A g : IsCones(g) => g = f
  BY DEF ConesExist
<1>2. IsCones(coneOf)
  BY <1>1 DEF coneOf, IsCones
<1>3. coneOf = f
  BY <1>1, <1>2
<1>4. Cones = f
  BY <1>1, <1>3 DEF Cones, IsCones
<1> QED
  BY <1>1, <1>4 DEF ConesExact

LEMMA ConeEquation ==
  ConesExist =>
    /\ DOMAIN Cones = solid
    /\ \A b \in solid : Cones[b] = {b} \cup UNION { Cones[p] : p \in trackedParents[b] }
  BY ConesKnown DEF ConesExact, IsCones

LEMMA ConesUnchanged ==
  ASSUME UNCHANGED << solid, trackedParents >>
  PROVE  /\ Cones' = Cones
         /\ ConesExist => ConesExist'
<1>1. \A f : IsCones(f)' <=> IsCones(f)
  BY DEF IsCones
<1>2. Cones' = Cones
  BY DEF Cones, coneOf
<1> QED
  BY <1>1, <1>2 DEF ConesExist

(* A new block has the cones of its parents and itself, the cones of the   *)
(* other blocks stay.                                                      *)
LEMMA ConesGrow ==
  ASSUME ConesExist, ParentsBefore, solid \subseteq Blocks,
         NEW b \in Blocks, b \notin solid, NEW P \in SUBSET solid,
         solid' = solid \cup {b},
         trackedParents' = [trackedParents EXCEPT ![b] = P]
  PROVE  /\ ConesExist'
         /\ DOMAIN Cones' = solid'
         /\ \A x \in solid : Cones'[x] = Cones[x]
         /\ Cones'[b] = {b} \cup UNION { Cones[p] : p \in P }
<1>0. PICK g :
        g = [ x \in solid \cup {b} |->
                IF x = b THEN {b} \cup UNION { Cones[p] : p \in P } ELSE Cones[x] ]
  OBVIOUS
<1>1. /\ \A x \in solid : /\ x # b
                          /\ trackedParents'[x] = trackedParents[x]
                          /\ trackedParents[x] \subseteq solid
      /\ trackedParents'[b] = P
      /\ \A p \in P : p # b /\ p \in solid
  BY DEF ParentsBefore
<1>2. \A x \in solid : Cones[x] = {x} \cup UNION { Cones[p] : p \in trackedParents[x] }
  BY ConeEquation
<1>3. IsCones(g)'
  <2>1. \A x \in solid : g[x] = Cones[x]
    BY <1>0, <1>1
  <2>2. g[b] = {b} \cup UNION { Cones[p] : p \in P }
    BY <1>0
  <2>3. {b} \cup UNION { g[p] : p \in trackedParents'[b] } = g[b]
    BY <1>1, <2>1, <2>2
  <2>4. ASSUME NEW x \in solid
        PROVE  {x} \cup UNION { g[p] : p \in trackedParents'[x] } = g[x]
    <3>1. \A p \in trackedParents'[x] : g[p] = Cones[p]
      BY <1>1, <2>1
    <3> QED
      BY <1>1, <1>2, <2>1, <3>1
  <2>5. g = [x \in solid \cup {b} |-> g[x]]
    BY <1>0
  <2>6. \A x \in solid \cup {b} : {x} \cup UNION { g[p] : p \in trackedParents'[x] } = g[x]
    BY <2>3, <2>4
  <2>7. [ x \in solid \cup {b} |-> {x} \cup UNION { g[p] : p \in trackedParents'[x] } ]
          = [ x \in solid \cup {b} |-> g[x] ]
    BY <2>6, Zenon
  <2> QED
    BY <2>5, <2>7, Zenon DEF IsCones
<1>4. ASSUME NEW f, IsCones(f)'
      PROVE  f = g
  <2> DEFINE r == [x \in solid |-> f[x]]
  <2>1. /\ f = [x \in solid \cup {b} |-> f[x]]
        /\ \A x \in solid \cup {b} : f[x] = {x} \cup UNION { f[p] : p \in trackedParents'[x] }
    BY <1>4 DEF IsCones
  <2>2. IsCones(r)
    <3>1. \A x \in solid : r[x] = f[x]
      OBVIOUS
    <3> HIDE DEF r
    <3>2. ASSUME NEW x \in solid
          PROVE  r[x] = {x} \cup UNION { r[p] : p \in trackedParents[x] }
      <4>1. { r[p] : p \in trackedParents[x] } = { f[p] : p \in trackedParents'[x] }
        BY <1>1, <3>1
      <4> QED
        BY <2>1, <3>1, <4>1
    <3>3. r = [x \in solid |-> r[x]]
      BY DEF r
    <3> QED
      BY <3>2, <3>3 DEF IsCones
  <2>3. r = Cones
    BY <2>2, ConesKnown DEF ConesExact
  <2>4. \A x \in solid : f[x] = Cones[x]
    BY <2>3
  <2>5. { f[p] : p \in trackedParents'[b] } = { Cones[p] : p \in P }
    BY <1>1, <2>4
  <2>6. f[b] = {b} \cup UNION { Cones[p] : p \in P }
    BY <2>1, <2>5
  <2> QED
    BY <1>0, <1>1, <2>1, <2>4, <2>6
<1>5. ConesExist'
  BY <1>3, <1>4 DEF ConesExist
<1>6. Cones' = g
  <2>1. ConesExist' => ConesExact'
    BY ConesKnown, PTL
  <2>2. IsCones(Cones)'
    BY <1>5, <2>1 DEF ConesExact
  <2> QED
    BY <1>4, <2>2
<1> QED
  BY <1>0, <1>1, <1>5, <1>6

-----------------------------------------------------------------------------
(* The blocks: what the event handlers do.                                 *)
BlocksInv ==
    /\ trackedBlocks \subseteq solid
    /\ solid \subseteq Blocks
    /\ ConesExist
    /\ ParentsBefore
    /\ OwnBits
    /\ TipsAreChildless
    /\ ConesTracked

LEMMA TrackedFinite ==
  ASSUME BlocksInv
  PROVE  /\ IsFiniteSet(trackedBlocks)
         /\ Cardinality(trackedBlocks) \in Nat
<1>1. trackedBlocks \in SUBSET Blocks
  BY DEF BlocksInv
<1> QED
  BY <1>1, HeaviestAssumption, FS_Subset, FS_CardinalityType

LEMMA BlocksInit == Init => BlocksInv
<1> SUFFICES ASSUME Init PROVE BlocksInv
  OBVIOUS
<1>1. ConesExist
  <2>1. PICK f : f = [b \in {} |-> {}]
    OBVIOUS
  <2>2. IsCones(f)
    BY <2>1 DEF Init, IsCones
  <2>3. ASSUME NEW g, IsCones(g)
        PROVE  g = f
    BY <2>1, <2>3 DEF Init, IsCones
  <2> QED
    BY <2>2, <2>3 DEF ConesExist
<1> QED
  BY <1>1 DEF Init, BlocksInv, ParentsBefore, OwnBits, TipsAreChildless, ConesTracked

LEMMA BlocksAdd ==
  ASSUME BlocksInv, NEW b \in Blocks, NEW parents \in SUBSET solid,
         OnNewSolidBlock(b, parents)
  PROVE  BlocksInv'
<1> DEFINE P == parents \cap trackedBlocks
           n == Cardinality(trackedBlocks)
<1>1. /\ b \notin solid
      /\ solid' = solid \cup {b}
      /\ trackedBlocks' = trackedBlocks \cup {b}
      /\ trackedParents' = [trackedParents EXCEPT ![b] = P]
      /\ index' = [index EXCEPT ![b] = n]
      /\ tips' = (tips \ P) \cup {b}
  BY DEF OnNewSolidBlock, AddBlock
<1>2. /\ trackedBlocks \subseteq solid
      /\ solid \subseteq Blocks
      /\ ConesExist
      /\ ParentsBefore
      /\ trackedParents \in [Blocks -> SUBSET solid]
      /\ \A x \in trackedBlocks : trackedParents[x] \subseteq trackedBlocks
      /\ P \in SUBSET solid /\ P \subseteq trackedBlocks
  BY DEF BlocksInv, ParentsBefore
<1> HIDE DEF P
<1>3. /\ trackedParents'[b] = P
      /\ \A x \in trackedBlocks : x # b /\ trackedParents'[x] = trackedParents[x]
  BY <1>1, <1>2
<1>4. /\ ConesExist'
      /\ DOMAIN Cones' = solid'
      /\ \A x \in solid : Cones'[x] = Cones[x]
      /\ Cones'[b] = {b} \cup UNION { Cones[p] : p \in P }
  BY <1>1, <1>2, ConesGrow
<1>5. ParentsBefore'
  <2>1. trackedParents' \in [Blocks -> SUBSET solid']
    BY <1>1, <1>2
  <2>2. \A x \in trackedBlocks' : trackedParents'[x] \subseteq trackedBlocks'
    BY <1>1, <1>2, <1>3
  <2> QED
    BY <2>1, <2>2 DEF ParentsBefore
<1>6. OwnBits'
  <2>1. /\ Cardinality(trackedBlocks') = n + 1
        /\ n \in Nat
    BY <1>1, <1>2, TrackedFinite, FS_AddElement
  <2>2. /\ index \in [Blocks -> Nat]
        /\ \A x \in trackedBlocks : index[x] < n
        /\ \A x, y \in trackedBlocks : index[x] = index[y] => x = y
    BY DEF BlocksInv, OwnBits
  <2>3. /\ index'[b] = n
        /\ \A x \in trackedBlocks : x # b /\ index'[x] = index[x] /\ index[x] \in Nat
    BY <1>1, <1>2, <2>2
  <2> HIDE DEF n
  <2>4. index' \in [Blocks -> Nat]
    BY <1>1, <2>1, <2>2
  <2>5. \A x \in trackedBlocks' : index'[x] < Cardinality(trackedBlocks')
    BY <1>1, <2>1, <2>2, <2>3
  <2>6. \A x, y \in trackedBlocks' : index'[x] = index'[y] => x = y
    BY <1>1, <2>1, <2>2, <2>3
  <2> QED
    BY <2>4, <2>5, <2>6 DEF OwnBits
<1>7. TipsAreChildless'
  <2>1. \A x : x \in tips <=> x \in trackedBlocks /\ \A c \in trackedBlocks : x \notin trackedParents[c]
    BY DEF BlocksInv, TipsAreChildless
  <2>2. \A x : x \in tips' <=>
                 x \in trackedBlocks' /\ \A c \in trackedBlocks' : x \notin trackedParents'[c]
    BY <1>1, <1>2, <1>3, <2>1
  <2> QED
    BY <2>2 DEF TipsAreChildless
<1>8. ConesTracked'
  <2>1. /\ \A x \in trackedBlocks : Cones[x] \subseteq trackedBlocks
        /\ \A x \in trackedBlocks : \A c \in Cones[x] \ {x} :
              \E d \in trackedBlocks : c \in trackedParents[d]
    BY DEF BlocksInv, ConesTracked
  <2>2. \A x \in trackedBlocks : Cones'[x] = Cones[x]
    BY <1>2, <1>4
  <2>3. ASSUME NEW x \in trackedBlocks'
        PROVE  Cones'[x] \subseteq trackedBlocks'
    BY <1>1, <1>2, <1>4, <2>1, <2>2
  <2>4. ASSUME NEW x \in solid'
        PROVE  Cones'[x] \subseteq solid'
    <3>1. \A y \in solid : Cones[y] \subseteq solid
      BY DEF BlocksInv, ConesTracked
    <3>2. CASE x \in solid
      BY <1>1, <1>4, <3>1, <3>2
    <3>3. CASE x = b
      <4>1. \A p \in P : Cones[p] \subseteq solid
        BY <1>2, <3>1
      <4> QED
        BY <1>1, <1>4, <3>3, <4>1
    <3> QED
      BY <1>1, <3>2, <3>3
  <2>5. ASSUME NEW x \in trackedBlocks', NEW c \in Cones'[x] \ {x}
        PROVE  \E d \in trackedBlocks' : c \in trackedParents'[d]
    <3>1. CASE x \in trackedBlocks
      BY <1>1, <1>3, <2>1, <2>2, <3>1
    <3>2. CASE x = b
      <4>1. PICK p \in P : c \in Cones[p]
        BY <1>4, <3>2
      <4>2. CASE c = p
        BY <1>1, <1>3, <4>2
      <4>3. CASE c # p
        BY <1>1, <1>2, <1>3, <2>1, <4>1, <4>3
      <4> QED
        BY <4>2, <4>3
    <3> QED
      BY <1>1, <3>1, <3>2
  <2> QED
    BY <2>3, <2>4, <2>5 DEF ConesTracked
<1> QED
  BY <1>1, <1>2, <1>4, <1>5, <1>6, <1>7, <1>8 DEF BlocksInv

LEMMA BlocksReset == BlocksInv /\ Reset => BlocksInv'
<1> SUFFICES ASSUME BlocksInv, Reset PROVE BlocksInv'
  OBVIOUS
<1>1. UNCHANGED << solid, trackedParents, index >> /\ trackedBlocks' = {} /\ tips' = {}
  BY DEF Reset
<1>2. ConesExist' /\ Cones' = Cones
  BY <1>1, ConesUnchanged DEF BlocksInv
<1> QED
  BY <1>1, <1>2
  DEF BlocksInv, ParentsBefore, OwnBits, TipsAreChildless, ConesTracked

LEMMA BlocksUnchanged == BlocksInv /\ UNCHANGED blockVars => BlocksInv' /\ Cones' = Cones
<1> SUFFICES ASSUME BlocksInv, UNCHANGED blockVars PROVE BlocksInv' /\ Cones' = Cones
  OBVIOUS
<1>1. UNCHANGED << solid, trackedBlocks, tips, trackedParents, index >>
  BY DEF blockVars
<1>2. Cones' = Cones /\ ConesExist'
  BY <1>1, ConesUnchanged DEF BlocksInv
<1> QED
  BY <1>1, <1>2
  DEF BlocksInv, ParentsBefore, OwnBits, TipsAreChildless, ConesTracked

(* The steps of the proposer leave the blocks alone.                       *)
LEMMA ProposerSteps ==
  ASSUME Next
  PROVE  \/ \E b \in Blocks, parents \in SUBSET solid : OnNewSolidBlock(b, parents)
         \/ Reset
         \/ UNCHANGED blockVars
  BY DEF Next, SelectTips, Canceled, ReturnEnough, Return, Iterate, BeginIteration,
         referenceTip, ClearBits, selectTip, StopTooLight, NoTips, Enough

LEMMA BlocksStep == BlocksInv /\ [Next]_vars => BlocksInv'
<1> SUFFICES ASSUME BlocksInv, [Next]_vars PROVE BlocksInv'
  OBVIOUS
<1>1. CASE UNCHANGED vars
  BY <1>1, BlocksUnchanged DEF vars
<1>2. CASE Next
  BY <1>2, ProposerSteps, BlocksAdd, BlocksReset, BlocksUnchanged
<1> QED
  BY <1>1, <1>2

(* The tips of the list are the tracked blocks without a tracked child.    *)
THEOREM TipsAreChildlessCorrect == Spec => []TipsAreChildless
<1>1. BlocksInv => TipsAreChildless
  BY DEF BlocksInv
<1> QED
  BY BlocksInit, BlocksStep, <1>1, PTL DEF Spec

-----------------------------------------------------------------------------
(* The types of the proposer's variables.                                  *)
CallsInv ==
    /\ BlocksInv
    /\ TypeOK
    /\ Selecting

LEMMA SelectedFacts ==
  ASSUME TypeOK
  PROVE  /\ selected \in Seq(solid)
         /\ Len(selected) \in 0 .. maxTips
         /\ Range(selected) = { selected[i] : i \in 1 .. Len(selected) }
         /\ Range(selected) \subseteq solid
         /\ selected = << >> => Len(selected) = 0 /\ Range(selected) = {}
         /\ selected # << >> => Len(selected) >= 1 /\ lastTip \in Range(selected)
<1>1. PICK n \in 0 .. maxTips : selected \in [1 .. n -> solid]
  BY DEF TypeOK
<1>2. n \in Nat
  BY <1>1, HeaviestAssumption
<1>3. selected \in Seq(solid)
  BY <1>1, <1>2, SeqDef
<1>4. /\ DOMAIN selected = 1 .. n
      /\ DOMAIN selected = 1 .. Len(selected)
      /\ Len(selected) \in Nat
  BY <1>1, <1>3, LenProperties
<1>5. Len(selected) = n
  BY <1>2, <1>3, <1>1, <1>4
<1>6. Range(selected) = { selected[i] : i \in 1 .. Len(selected) }
  BY <1>4 DEF Range
<1>7. selected = << >> => Len(selected) = 0
  BY EmptySeq
<1>8. selected # << >> => Len(selected) >= 1
  BY <1>3, EmptySeq
<1> QED
  BY <1>1, <1>2, <1>3, <1>5, <1>6, <1>7, <1>8 DEF lastTip

LEMMA CountType ==
  ASSUME TypeOK, NEW b \in Blocks
  PROVE  /\ IsFiniteSet(refs[b])
         /\ Count(b) \in 0 .. Cardinality(Blocks)
         /\ refs[b] # {} => Count(b) > 0
<1>1. Cardinality(Blocks) \in Nat
  BY HeaviestAssumption, FS_CardinalityType
<1>2. /\ IsFiniteSet(0 .. Cardinality(Blocks) - 1)
      /\ Cardinality(0 .. Cardinality(Blocks) - 1) = Cardinality(Blocks)
  BY <1>1, FS_Interval
<1>3. refs[b] \in SUBSET (0 .. Cardinality(Blocks) - 1)
  BY DEF TypeOK
<1>4. IsFiniteSet(refs[b]) /\ Cardinality(refs[b]) <= Cardinality(Blocks)
  BY <1>2, <1>3, FS_Subset
<1>5. Cardinality(refs[b]) \in Nat /\ (refs[b] # {} => Cardinality(refs[b]) # 0)
  BY <1>4, FS_CardinalityType, FS_EmptySet
<1> QED
  BY <1>4, <1>5 DEF Count

(* A racing referenceTip can only hide bits of the parents.                *)
LEMMA BitsOfParents ==
  ASSUME NEW P, NEW bits \in UnionsOfRefs(P)
  PROVE  /\ bits \subseteq UNION { refs[p] : p \in P }
         /\ \A p \in P : refs[p] \ RacingBits(p) \subseteq bits
<1>1. PICK cleared : /\ \A p \in P : cleared[p] \subseteq RacingBits(p)
                     /\ bits = UNION { refs[p] \ cleared[p] : p \in P }
  BY DEF UnionsOfRefs
<1> QED
  BY <1>1

LEMMA CallsInit == Init => CallsInv
<1> SUFFICES ASSUME Init PROVE CallsInv
  OBVIOUS
<1>1. selected \in UNION { [1 .. n -> solid] : n \in 0 .. maxTips }
  <2>1. << >> \in [1 .. 0 -> {}]
    OBVIOUS
  <2> QED
    BY <2>1, HeaviestAssumption DEF Init
<1>2. Cardinality(Blocks) \in Nat
  BY HeaviestAssumption, FS_CardinalityType
<1> QED
  BY <1>1, <1>2, BlocksInit DEF Init, CallsInv, TypeOK, Selecting

LEMMA CallsAdd ==
  ASSUME CallsInv, NEW b \in Blocks, NEW parents \in SUBSET solid,
         OnNewSolidBlock(b, parents)
  PROVE  CallsInv'
<1> DEFINE P == parents \cap trackedBlocks
<1>1. /\ b \notin solid
      /\ solid' = solid \cup {b}
      /\ trackedBlocks' = trackedBlocks \cup {b}
      /\ UNCHANGED callVars
  BY DEF OnNewSolidBlock, AddBlock
<1>2. PICK bits \in UnionsOfRefs(P) :
        refs' = [refs EXCEPT ![b] = {Cardinality(trackedBlocks)} \cup bits]
  BY DEF OnNewSolidBlock, AddBlock
<1>3. BlocksInv /\ BlocksInv' /\ TypeOK /\ trackedBlocks \in SUBSET Blocks /\ P \subseteq Blocks
  BY BlocksAdd DEF CallsInv, BlocksInv
<1>4. Cardinality(trackedBlocks) \in 0 .. Cardinality(Blocks) - 1
  <2>1. b \notin trackedBlocks
    BY <1>1, <1>3 DEF TypeOK
  <2>2. /\ Cardinality(trackedBlocks) <= Cardinality(Blocks)
        /\ Cardinality(trackedBlocks) # Cardinality(Blocks)
    BY <1>3, <2>1, HeaviestAssumption, FS_Subset
  <2>3. Cardinality(trackedBlocks) \in Nat /\ Cardinality(Blocks) \in Nat
    BY <1>3, TrackedFinite, HeaviestAssumption, FS_CardinalityType
  <2> QED
    BY <2>2, <2>3
<1>5. bits \subseteq 0 .. Cardinality(Blocks) - 1
  <2>1. \A p \in P : refs[p] \subseteq 0 .. Cardinality(Blocks) - 1
    BY <1>3 DEF TypeOK
  <2> QED
    BY <2>1, BitsOfParents
<1>6. refs' \in [Blocks -> SUBSET (0 .. Cardinality(Blocks) - 1)]
  BY <1>2, <1>3, <1>4, <1>5 DEF TypeOK
<1>7. selected' \in UNION { [1 .. n -> solid'] : n \in 0 .. maxTips }
  <2>1. PICK n \in 0 .. maxTips : selected \in [1 .. n -> solid]
    BY <1>3 DEF TypeOK
  <2>2. selected \in [1 .. n -> solid']
    BY <1>1, <2>1
  <2> QED
    BY <1>1, <2>2 DEF callVars
<1>8. TypeOK'
  BY <1>1, <1>3, <1>6, <1>7 DEF TypeOK, callVars
<1> QED
  BY <1>1, <1>3, <1>8 DEF CallsInv, Selecting, callVars

LEMMA CallsReset == CallsInv /\ Reset => CallsInv'
  BY BlocksReset DEF CallsInv, Reset, TypeOK, Selecting, callVars

LEMMA CallsSelectTips == CallsInv /\ SelectTips => CallsInv'
<1> SUFFICES ASSUME CallsInv, SelectTips PROVE CallsInv'
  OBVIOUS
<1>1. BlocksInv' /\ BlocksInv /\ TypeOK
  BY BlocksUnchanged DEF SelectTips, CallsInv
<1>2. tips \subseteq solid
  BY <1>1 DEF BlocksInv, TipsAreChildless
<1>3. << >> \in UNION { [1 .. n -> solid] : n \in 0 .. maxTips }
  <2>1. << >> \in [1 .. 0 -> solid]
    OBVIOUS
  <2> QED
    BY <2>1, HeaviestAssumption
<1>4. 0 \in 0 .. Cardinality(Blocks)
  BY HeaviestAssumption, FS_CardinalityType
<1> QED
  BY <1>1, <1>2, <1>3, <1>4 DEF SelectTips, CallsInv, TypeOK, Selecting, blockVars

LEMMA CallsReturn ==
  ASSUME CallsInv, NEW o \in {"tips", "error"}, Return(o), pc = "iterate" \/ todo = {}
  PROVE  CallsInv'
<1>1. BlocksInv'
  BY BlocksUnchanged DEF Return, CallsInv
<1>2. todo = {}
  BY DEF CallsInv, Selecting
<1> QED
  BY <1>1, <1>2 DEF Return, CallsInv, TypeOK, Selecting, blockVars

LEMMA CallsIterate == CallsInv /\ Iterate => CallsInv'
<1> SUFFICES ASSUME CallsInv, Iterate PROVE CallsInv'
  OBVIOUS
<1>1. BlocksInv'
  BY BlocksUnchanged DEF Iterate, BeginIteration, CallsInv
<1> QED
  BY <1>1 DEF Iterate, BeginIteration, CallsInv, TypeOK, Selecting, blockVars

LEMMA CallsReference ==
  ASSUME CallsInv, NEW other \in todo, referenceTip(other)
  PROVE  CallsInv'
<1>1. BlocksInv'
  BY BlocksUnchanged DEF referenceTip, ClearBits, CallsInv
<1>2. refs' \in [Blocks -> SUBSET (0 .. Cardinality(Blocks) - 1)]
  BY DEF referenceTip, ClearBits, CallsInv, TypeOK
<1> QED
  BY <1>1, <1>2 DEF referenceTip, ClearBits, CallsInv, TypeOK, Selecting, blockVars

(* What selectTip appends.                                                 *)
LEMMA SelectedGrows ==
  ASSUME CallsInv, NEW tip \in list, selectTip(tip)
  PROVE  /\ selected' \in Seq(solid)
         /\ selected' # << >>
         /\ Len(selected') = Len(selected) + 1
         /\ \A i \in 1 .. Len(selected) : selected'[i] = selected[i]
         /\ selected'[Len(selected) + 1] = tip
         /\ Range(selected') = Range(selected) \cup {tip}
<1>1. selected \in Seq(solid) /\ Len(selected) \in Nat /\ tip \in solid
  BY SelectedFacts DEF CallsInv, TypeOK
<1>2. selected' = Append(selected, tip)
  BY DEF selectTip
<1>3. /\ selected' \in Seq(solid)
      /\ selected' # << >>
      /\ Len(selected') = Len(selected) + 1
      /\ \A i \in 1 .. Len(selected) : selected'[i] = selected[i]
      /\ selected'[Len(selected) + 1] = tip
  BY <1>1, <1>2, AppendProperties
<1>4. /\ Range(selected) = { selected[i] : i \in 1 .. Len(selected) }
      /\ Range(selected') = { selected'[i] : i \in 1 .. Len(selected') }
  BY <1>1, <1>3, RangeEquality
<1>5. \A i \in 1 .. Len(selected') : i \in 1 .. Len(selected) \/ i = Len(selected) + 1
  BY <1>1, <1>3
<1>6. Range(selected') = Range(selected) \cup {tip}
  <2>1. Range(selected') \subseteq Range(selected) \cup {tip}
    BY <1>3, <1>4, <1>5
  <2>2. Range(selected) \subseteq Range(selected')
    BY <1>1, <1>3, <1>4
  <2>3. tip \in Range(selected')
    BY <1>1, <1>3, <1>4
  <2> QED
    BY <2>1, <2>2, <2>3
<1> QED
  BY <1>3, <1>6

LEMMA CallsSelect ==
  ASSUME CallsInv, NEW tip \in list, selectTip(tip)
  PROVE  CallsInv'
<1>1. BlocksInv'
  BY BlocksUnchanged DEF selectTip, CallsInv
<1>2. /\ pc = "select" /\ todo = {} /\ pc' = "iterate"
      /\ UNCHANGED << blockVars, refs, todo, list, outcome >>
      /\ bestReferenced' = IF selected = << >> THEN Count(tip) ELSE bestReferenced
  BY DEF selectTip, Selectable
<1>3. selected' \in UNION { [1 .. n -> solid'] : n \in 0 .. maxTips }
  <2>1. selected' \in [1 .. Len(selected') -> solid]
    BY SelectedGrows, LenProperties
  <2>2. Len(selected') \in 0 .. maxTips
    BY <1>2, SelectedGrows, SelectedFacts, HeaviestAssumption DEF CallsInv, Selecting
  <2> QED
    BY <1>2, <2>1, <2>2 DEF blockVars
<1>4. tip \in Blocks
  BY DEF CallsInv, TypeOK
<1>5. bestReferenced' \in 0 .. Cardinality(Blocks)
  BY <1>2, <1>4, CountType DEF CallsInv, TypeOK
<1> QED
  BY <1>1, <1>2, <1>3, <1>5 DEF CallsInv, TypeOK, Selecting, blockVars

(* The steps that end a call: SelectTips returns tips only if it has one.  *)
LEMMA ReturnSteps ==
  ASSUME CallsInv,
         Canceled \/ (\E tip \in list : StopTooLight(tip)) \/ NoTips \/ Enough
  PROVE  \E o \in {"tips", "error"} :
            Return(o) /\ todo = {} /\ (o = "tips" => selected # << >>)
<1>1. (Len(selected) >= 1 => selected # << >>) /\ Len(selected) \in Nat
  BY SelectedFacts, HeaviestAssumption DEF CallsInv
<1>2. pc = "iterate" => todo = {}
  BY DEF CallsInv, Selecting
<1>3. CASE Canceled
  BY <1>1, <1>2, <1>3 DEF Canceled, ReturnEnough, minRequiredTips
<1>4. ASSUME NEW tip \in list, StopTooLight(tip)
      PROVE  Return("tips") /\ todo = {} /\ selected # << >>
  BY <1>1, <1>4 DEF StopTooLight, Selectable, TooLight, minRequiredTips
<1>5. CASE NoTips
  <2>1. todo = {}
    BY <1>5 DEF NoTips, CallsInv, TypeOK
  <2> QED
    BY <1>1, <1>5, <2>1 DEF NoTips, ReturnEnough, minRequiredTips
<1>6. CASE Enough
  BY <1>1, <1>2, <1>6, HeaviestAssumption DEF Enough
<1> QED
  BY <1>3, <1>4, <1>5, <1>6

(* A step is one of these.                                                 *)
LEMMA StepCases ==
  ASSUME CallsInv, Next
  PROVE  \/ \E b \in Blocks, parents \in SUBSET solid : OnNewSolidBlock(b, parents)
         \/ Reset
         \/ SelectTips
         \/ \E o \in {"tips", "error"} :
               Return(o) /\ todo = {} /\ (o = "tips" => selected # << >>)
         \/ Iterate
         \/ \E b \in todo : referenceTip(b)
         \/ \E b \in list : selectTip(b)
  BY ReturnSteps DEF Next

LEMMA CallsStep == CallsInv /\ [Next]_vars => CallsInv'
<1> SUFFICES ASSUME CallsInv, [Next]_vars PROVE CallsInv'
  OBVIOUS
<1>1. CASE UNCHANGED vars
  BY <1>1, BlocksUnchanged DEF vars, blockVars, callVars, CallsInv, TypeOK, Selecting
<1>2. CASE Next
  BY <1>2, StepCases, CallsAdd, CallsReset, CallsSelectTips, CallsReturn, CallsIterate,
     CallsReference, CallsSelect
<1> QED
  BY <1>1, <1>2

(* The types of the selector, at most maxTips selected tips among them.    *)
THEOREM SelectorTypeCorrect == Spec => []TypeOK
<1>1. CallsInv => TypeOK
  BY DEF CallsInv
<1> QED
  BY CallsInit, CallsStep, <1>1, PTL DEF Spec

-----------------------------------------------------------------------------
(* The bit sets.                                                           *)
Covered == UnionOver(Cones, earlier \cup Range(selected))

BitsFollow ==
    \A b \in trackedBlocks :
        /\ refs[b] \subseteq { index[c] : c \in Cones[b] }
        /\ b \in tips => index[b] \in refs[b]
        /\ \A c \in Cones[b] : index[c] \in refs[b] \/ c \in Covered

LEMMA MissingFacts == MissingIsSelected <=> BitsFollow
  BY DEF MissingIsSelected, BitsFollow, Covered

BitsInv ==
    /\ CallsInv
    /\ OneGeneration
    /\ BitsFollow
    /\ FirstTipCounts
    /\ ResultUsable

LEMMA ConeFacts ==
  ASSUME BlocksInv
  PROVE  /\ \A b \in solid : b \in Cones[b] /\ Cones[b] \subseteq solid
         /\ trackedBlocks \subseteq solid
         /\ \A b \in trackedBlocks : Cones[b] \subseteq trackedBlocks
         /\ \A b, c \in trackedBlocks : index[b] = index[c] => b = c
         /\ tips \subseteq trackedBlocks
         /\ \A b \in tips, d \in trackedBlocks : b \notin trackedParents[d]
  BY ConeEquation DEF BlocksInv, ConesTracked, OwnBits, TipsAreChildless

LEMMA ListedSolid ==
  ASSUME CallsInv, OneGeneration
  PROVE  /\ ListedBlocks \subseteq solid
         /\ earlier \cup Range(selected) \subseteq solid
  BY SelectedFacts DEF CallsInv, TypeOK, OneGeneration, ListedBlocks

(* What referenceTip clears in a tracked block, or hides from its readers, *)
(* are bits of blocks that the selected tip references.                    *)
LEMMA ClearedIsCovered ==
  ASSUME BitsInv, NEW p \in todo, p \in trackedBlocks
  PROVE  /\ lastTip \in trackedBlocks
         /\ p # lastTip
         /\ \A c \in trackedBlocks : index[c] \in refs[lastTip] => c \in Cones[lastTip]
         /\ Cones[lastTip] \subseteq Covered
<1>1. /\ pc = "select" /\ selected # << >>
      /\ p \in list /\ list \cap Range(selected) = {}
      /\ lastTip \in Range(selected)
  BY SelectedFacts DEF BitsInv, CallsInv, Selecting, TypeOK
<1>2. lastTip \in trackedBlocks
  BY <1>1 DEF BitsInv, OneGeneration, ListedBlocks
<1>3. /\ refs[lastTip] \subseteq { index[c] : c \in Cones[lastTip] }
      /\ Cones[lastTip] \subseteq trackedBlocks
      /\ \A b, c \in trackedBlocks : index[b] = index[c] => b = c
  BY <1>2, ConeFacts DEF BitsInv, BitsFollow, CallsInv
<1>4. Cones[lastTip] \subseteq Covered
  BY <1>1 DEF Covered, UnionOver
<1> QED
  BY <1>1, <1>2, <1>3, <1>4

LEMMA BitsInit == Init => BitsInv
<1> SUFFICES ASSUME Init PROVE BitsInv
  OBVIOUS
<1>1. CallsInv
  BY CallsInit
<1>2. Range(selected) = {}
  BY <1>1, SelectedFacts DEF Init, CallsInv
<1> QED
  BY <1>1, <1>2
  DEF Init, BitsInv, OneGeneration, ListedBlocks, UnionOver, BitsFollow, FirstTipCounts,
      ResultUsable

LEMMA BitsAdd ==
  ASSUME BitsInv, NEW b \in Blocks, NEW parents \in SUBSET solid,
         OnNewSolidBlock(b, parents)
  PROVE  BitsInv'
<1>0. CallsInv /\ BlocksInv /\ TypeOK /\ OneGeneration /\ CallsInv'
  BY CallsAdd DEF BitsInv, CallsInv
<1> DEFINE P == parents \cap trackedBlocks
           n == Cardinality(trackedBlocks)
<1>1. /\ b \notin solid
      /\ solid' = solid \cup {b}
      /\ trackedBlocks' = trackedBlocks \cup {b}
      /\ trackedParents' = [trackedParents EXCEPT ![b] = P]
      /\ index' = [index EXCEPT ![b] = n]
      /\ tips' = (tips \ P) \cup {b}
      /\ UNCHANGED callVars
  BY DEF OnNewSolidBlock, AddBlock
<1>2. PICK bits \in UnionsOfRefs(P) : refs' = [refs EXCEPT ![b] = {n} \cup bits]
  BY DEF OnNewSolidBlock, AddBlock
<1>3. UNCHANGED << list, todo, selected, bestReferenced, pc, outcome, earlier, ListedBlocks >>
  BY <1>1 DEF callVars, ListedBlocks
<1>4. P \subseteq trackedBlocks /\ P \in SUBSET solid
  BY ConeFacts, <1>0
<1> HIDE DEF P, n
<1>5. /\ \A x \in solid : Cones'[x] = Cones[x]
      /\ Cones'[b] = {b} \cup UNION { Cones[p] : p \in P }
  BY <1>0, <1>1, <1>4, ConesGrow DEF BlocksInv
<1>6. /\ solid \subseteq Blocks
      /\ \A x \in solid : x # b
      /\ \A x \in solid : index'[x] = index[x]
      /\ index'[b] = n
      /\ \A x \in solid : refs'[x] = refs[x]
      /\ refs'[b] = {n} \cup bits
  BY <1>0, <1>1, <1>2 DEF BlocksInv, OwnBits, TypeOK
<1>7. /\ ListedBlocks \subseteq solid
      /\ earlier \cup Range(selected) \subseteq solid
  BY <1>0, ListedSolid
<1>8. OneGeneration'
  <2>1. UNION { Cones'[x] : x \in ListedBlocks' } = UNION { Cones[x] : x \in ListedBlocks }
    BY <1>3, <1>5, <1>7
  <2>2. UNION { Cones[x] : x \in ListedBlocks } \subseteq solid
    BY <1>0, <1>7, ConeFacts
  <2>3. \A x, y \in UNION { Cones'[z] : z \in ListedBlocks' } : index'[x] = index'[y] => x = y
    BY <1>0, <1>6, <2>1, <2>2 DEF OneGeneration, UnionOver
  <2>4. ListedBlocks' \subseteq trackedBlocks' \/ ListedBlocks' \cap trackedBlocks' = {}
    BY <1>0, <1>1, <1>3, <1>7 DEF OneGeneration
  <2>5. earlier' \subseteq solid'
    BY <1>0, <1>1, <1>3 DEF OneGeneration
  <2> QED
    BY <2>3, <2>4, <2>5 DEF OneGeneration, UnionOver
<1>9. Covered' = Covered
  <2>1. UNION { Cones'[x] : x \in earlier \cup Range(selected) }
          = UNION { Cones[x] : x \in earlier \cup Range(selected) }
    BY <1>5, <1>7
  <2> QED
    BY <1>3, <2>1 DEF Covered, UnionOver
<1>10. BitsFollow'
  <2> SUFFICES ASSUME NEW x \in trackedBlocks'
               PROVE  /\ refs'[x] \subseteq { index'[c] : c \in Cones'[x] }
                      /\ x \in tips' => index'[x] \in refs'[x]
                      /\ \A c \in Cones'[x] : index'[c] \in refs'[x] \/ c \in Covered
    BY <1>9 DEF BitsFollow
  <2>1. \A y \in trackedBlocks :
          /\ y \in solid /\ y # b
          /\ Cones[y] \subseteq trackedBlocks
          /\ refs[y] \subseteq { index[c] : c \in Cones[y] }
          /\ y \in tips => index[y] \in refs[y]
          /\ \A c \in Cones[y] : index[c] \in refs[y] \/ c \in Covered
    BY <1>0, <1>6, ConeFacts DEF BitsInv, BitsFollow
  <2>2. \A c \in trackedBlocks : index'[c] = index[c]
    BY <1>6, <2>1
  <2>3. CASE x \in trackedBlocks
    <3>1. Cones'[x] = Cones[x] /\ refs'[x] = refs[x] /\ (x \in tips' => x \in tips)
      BY <1>1, <1>5, <1>6, <2>1, <2>3
    <3>2. \A c \in Cones[x] : index'[c] = index[c]
      BY <2>1, <2>2, <2>3
    <3>3. x \in Cones[x] /\ index'[x] = index[x]
      BY <1>0, <2>1, <2>2, <2>3, ConeFacts
    <3>4. { index'[c] : c \in Cones[x] } = { index[c] : c \in Cones[x] }
      BY <3>2
    <3> QED
      BY <2>1, <2>3, <3>1, <3>2, <3>3, <3>4
  <2>4. CASE x = b
    <3>1. ASSUME NEW p \in P, NEW c \in Cones[p]
          PROVE  index'[c] \in refs'[b] \/ c \in Covered
      <4>1. c \in trackedBlocks /\ p \in trackedBlocks /\ index'[c] = index[c]
        BY <1>4, <2>1, <2>2
      <4>2. CASE index[c] \in refs[p] \ RacingBits(p)
        BY <1>2, <1>6, <4>1, <4>2, BitsOfParents
      <4>3. CASE index[c] \in RacingBits(p)
        <5>1. p \in todo /\ index[c] \in refs[lastTip]
          BY <4>3 DEF RacingBits
        <5> QED
          BY <4>1, <5>1, ClearedIsCovered
      <4> QED
        BY <1>4, <2>1, <4>2, <4>3
    <3>2. ASSUME NEW r \in bits
          PROVE  r \in { index'[c] : c \in Cones'[b] }
      <4>1. PICK p \in P : r \in refs[p]
        BY <1>2, BitsOfParents
      <4>2. PICK c \in Cones[p] : r = index[c]
        BY <1>4, <2>1, <4>1
      <4> QED
        BY <1>4, <1>5, <2>1, <2>2, <4>2
    <3>3. index'[b] = n /\ n \in refs'[b] /\ b \in Cones'[b]
      BY <1>5, <1>6
    <3>4. refs'[b] \subseteq { index'[c] : c \in Cones'[b] }
      BY <1>6, <3>2, <3>3
    <3>5. \A c \in Cones'[b] : index'[c] \in refs'[b] \/ c \in Covered
      BY <1>5, <3>1, <3>3
    <3> QED
      BY <2>4, <3>3, <3>4, <3>5
  <2> QED
    BY <1>1, <2>3, <2>4
<1>11. FirstTipCounts'
  BY <1>3, <1>6, <1>7 DEF BitsInv, FirstTipCounts, ListedBlocks
<1>12. ResultUsable'
  BY <1>3 DEF BitsInv, ResultUsable
<1> QED
  BY <1>0, <1>8, <1>10, <1>11, <1>12 DEF BitsInv

(* Steps that leave the bits and the tips alone, or forget the blocks.     *)
LEMMA BitsUnchanged ==
  ASSUME BitsInv, CallsInv', Cones' = Cones,
         UNCHANGED << solid, index, refs, earlier, selected, ListedBlocks >>,
         UNCHANGED << trackedBlocks, tips >> \/ trackedBlocks' = {},
         FirstTipCounts', ResultUsable'
  PROVE  BitsInv'
<1>1. OneGeneration'
  BY DEF BitsInv, OneGeneration, UnionOver
<1>2. BitsFollow'
  BY DEF BitsInv, BitsFollow, Covered, UnionOver
<1> QED
  BY <1>1, <1>2 DEF BitsInv

LEMMA BitsReset == BitsInv /\ Reset => BitsInv'
<1> SUFFICES ASSUME BitsInv, Reset PROVE BitsInv'
  OBVIOUS
<1>1. /\ UNCHANGED << solid, index, trackedParents, refs, callVars >>
      /\ trackedBlocks' = {}
  BY DEF Reset
<1>2. Cones' = Cones
  BY <1>1, ConesUnchanged
<1>3. CallsInv'
  BY CallsReset DEF BitsInv
<1> QED
  BY <1>1, <1>2, <1>3, BitsUnchanged
  DEF BitsInv, FirstTipCounts, ResultUsable, ListedBlocks, callVars

LEMMA BitsSelectTips == BitsInv /\ SelectTips => BitsInv'
<1> SUFFICES ASSUME BitsInv, SelectTips PROVE BitsInv'
  OBVIOUS
<1>0. CallsInv /\ BlocksInv /\ CallsInv' /\ Cones' = Cones
  BY CallsSelectTips, BlocksUnchanged DEF BitsInv, CallsInv, SelectTips
<1>1. /\ UNCHANGED << solid, trackedBlocks, tips, trackedParents, index, refs >>
      /\ list' = tips
      /\ selected' = << >>
      /\ earlier' = earlier \cup Range(selected)
      /\ outcome' = "none"
  BY DEF SelectTips, blockVars
<1>2. ListedBlocks' = tips
  BY <1>1 DEF ListedBlocks, Range
<1>3. OneGeneration'
  <2>1. UNION { Cones[b] : b \in tips } \subseteq trackedBlocks
    BY <1>0, ConeFacts
  <2>2. \A b, c \in UNION { Cones[x] : x \in tips } : index[b] = index[c] => b = c
    BY <1>0, <2>1, ConeFacts
  <2>3. earlier' \subseteq solid /\ tips \subseteq trackedBlocks
    BY <1>0, <1>1, ListedSolid, ConeFacts DEF BitsInv
  <2> QED
    BY <1>0, <1>1, <1>2, <2>2, <2>3 DEF OneGeneration, UnionOver
<1>4. Covered' = Covered
  BY <1>0, <1>1 DEF Covered, UnionOver, Range
<1>5. BitsFollow'
  BY <1>0, <1>1, <1>4 DEF BitsInv, BitsFollow
<1>6. FirstTipCounts'
  BY <1>0, <1>1, ConeFacts DEF BitsInv, BitsFollow, FirstTipCounts
<1> QED
  BY <1>0, <1>1, <1>3, <1>5, <1>6 DEF BitsInv, ResultUsable

LEMMA BitsReturn ==
  ASSUME BitsInv, NEW o \in {"tips", "error"}, Return(o), todo = {},
         o = "tips" => selected # << >>
  PROVE  BitsInv'
<1>1. CallsInv' /\ Cones' = Cones
  BY CallsReturn, BlocksUnchanged DEF BitsInv, CallsInv, Return
<1> QED
  BY <1>1, BitsUnchanged
  DEF Return, BitsInv, FirstTipCounts, ResultUsable, ListedBlocks, blockVars

LEMMA BitsIterate == BitsInv /\ Iterate => BitsInv'
<1> SUFFICES ASSUME BitsInv, Iterate PROVE BitsInv'
  OBVIOUS
<1>1. CallsInv' /\ Cones' = Cones
  BY CallsIterate, BlocksUnchanged DEF BitsInv, CallsInv, Iterate, BeginIteration
<1>2. ListedBlocks' = ListedBlocks
  BY DEF Iterate, BeginIteration, ListedBlocks
<1> QED
  BY <1>1, <1>2, BitsUnchanged
  DEF Iterate, BeginIteration, BitsInv, FirstTipCounts, ResultUsable, blockVars

(* A tip keeps its own bit, because the selected tip does not reference it. *)
LEMMA BitsReference ==
  ASSUME BitsInv, NEW other \in todo, referenceTip(other)
  PROVE  BitsInv'
<1>0. CallsInv /\ BlocksInv /\ TypeOK /\ CallsInv' /\ Cones' = Cones
  BY CallsReference, BlocksUnchanged DEF BitsInv, CallsInv, referenceTip, ClearBits
<1>1. /\ UNCHANGED << blockVars, list, selected, bestReferenced, pc, outcome, earlier >>
      /\ refs' = [refs EXCEPT ![other] = @ \ refs[lastTip]]
      /\ selected # << >>
  BY DEF referenceTip, ClearBits, BitsInv, CallsInv, Selecting
<1>2. /\ \A b \in Blocks : b # other => refs'[b] = refs[b]
      /\ other \in Blocks => refs'[other] = refs[other] \ refs[lastTip]
      /\ trackedBlocks \subseteq Blocks
  BY <1>0, <1>1 DEF TypeOK
<1>3. OneGeneration' /\ Covered' = Covered
  BY <1>0, <1>1 DEF BitsInv, OneGeneration, ListedBlocks, UnionOver, Covered, blockVars
<1>4. BitsFollow'
  <2> SUFFICES ASSUME NEW b \in trackedBlocks
               PROVE  /\ refs'[b] \subseteq { index[c] : c \in Cones[b] }
                      /\ b \in tips => index[b] \in refs'[b]
                      /\ \A c \in Cones[b] : index[c] \in refs'[b] \/ c \in Covered
    BY <1>0, <1>1, <1>3 DEF BitsFollow, blockVars
  <2>1. /\ refs[b] \subseteq { index[c] : c \in Cones[b] }
        /\ b \in tips => index[b] \in refs[b]
        /\ \A c \in Cones[b] : index[c] \in refs[b] \/ c \in Covered
    BY DEF BitsInv, BitsFollow
  <2>2. CASE b # other
    BY <1>2, <2>1, <2>2
  <2>3. CASE b = other
    <3>1. /\ lastTip \in trackedBlocks
          /\ b # lastTip
          /\ \A c \in trackedBlocks : index[c] \in refs[lastTip] => c \in Cones[lastTip]
          /\ Cones[lastTip] \subseteq Covered
      BY <2>3, ClearedIsCovered
    <3>2. Cones[b] \subseteq trackedBlocks
      BY <1>0, ConeFacts
    <3>3. b \in tips => index[b] \notin refs[lastTip]
      <4> SUFFICES ASSUME b \in tips, index[b] \in refs[lastTip]
                   PROVE  FALSE
        OBVIOUS
      <4>1. b \in Cones[lastTip] \ {lastTip}
        BY <3>1
      <4>2. \E d \in trackedBlocks : b \in trackedParents[d]
        BY <1>0, <3>1, <4>1 DEF BlocksInv, ConesTracked
      <4> QED
        BY <1>0, <4>2, ConeFacts
    <3>4. refs'[b] = refs[b] \ refs[lastTip]
      BY <1>2, <2>3
    <3> QED
      BY <2>1, <3>1, <3>2, <3>3, <3>4
  <2> QED
    BY <2>2, <2>3
<1> QED
  BY <1>0, <1>1, <1>3, <1>4 DEF BitsInv, FirstTipCounts, ResultUsable

LEMMA BitsSelect ==
  ASSUME BitsInv, NEW tip \in list, selectTip(tip)
  PROVE  BitsInv'
<1>0. CallsInv /\ BlocksInv /\ TypeOK /\ CallsInv' /\ Cones' = Cones
  BY CallsSelect, BlocksUnchanged DEF BitsInv, CallsInv, selectTip
<1>1. /\ UNCHANGED << solid, trackedBlocks, tips, trackedParents, index >>
      /\ UNCHANGED << refs, list, outcome, earlier >>
      /\ pc = "select"
      /\ bestReferenced' = IF selected = << >> THEN Count(tip) ELSE bestReferenced
  BY DEF selectTip, Selectable, blockVars
<1>2. selected' # << >> /\ Range(selected') = Range(selected) \cup {tip}
  BY <1>0, SelectedGrows
<1>3. ListedBlocks' = ListedBlocks
  BY <1>1, <1>2 DEF ListedBlocks
<1>4. OneGeneration'
  BY <1>0, <1>1, <1>3 DEF BitsInv, OneGeneration, UnionOver
<1>5. Covered \subseteq Covered'
  BY <1>0, <1>1, <1>2 DEF Covered, UnionOver
<1>6. BitsFollow'
  BY <1>0, <1>1, <1>5 DEF BitsInv, BitsFollow
<1>7. bestReferenced' > 0
  <2>1. CASE selected = << >>
    <3>1. index[tip] \in refs[tip] /\ tip \in Blocks
      BY <1>0, <1>1, <2>1 DEF BitsInv, FirstTipCounts, TypeOK
    <3> QED
      BY <1>0, <1>1, <2>1, <3>1, CountType
  <2>2. CASE selected # << >>
    BY <1>1, <2>2 DEF BitsInv, ResultUsable
  <2> QED
    BY <2>1, <2>2
<1>8. FirstTipCounts' /\ ResultUsable'
  BY <1>2, <1>7 DEF FirstTipCounts, ResultUsable
<1> QED
  BY <1>0, <1>4, <1>6, <1>8 DEF BitsInv

LEMMA BitsStep == BitsInv /\ [Next]_vars => BitsInv'
<1> SUFFICES ASSUME BitsInv, [Next]_vars PROVE BitsInv'
  OBVIOUS
<1>1. CASE UNCHANGED vars
  <2>1. CallsInv' /\ Cones' = Cones
    BY <1>1, CallsStep, BlocksUnchanged DEF BitsInv, CallsInv, vars
  <2> QED
    BY <1>1, <2>1, BitsUnchanged
    DEF vars, blockVars, callVars, BitsInv, FirstTipCounts, ResultUsable, ListedBlocks
<1>2. CASE Next
  BY <1>2, StepCases, BitsAdd, BitsReset, BitsSelectTips, BitsReturn, BitsIterate,
     BitsReference, BitsSelect DEF BitsInv
<1> QED
  BY <1>1, <1>2

(* However the two goroutines interleave, what a bit set lacks of what its *)
(* block references is referenced by a selected tip.                       *)
THEOREM MissingIsSelectedCorrect == Spec => []MissingIsSelected
<1>1. BitsInv => MissingIsSelected
  BY MissingFacts DEF BitsInv
<1> QED
  BY BitsInit, BitsStep, <1>1, PTL DEF Spec

(* A selection that succeeds has a tip, and the first one has a positive   *)
(* count.                                                                  *)
THEOREM ResultUsableCorrect == Spec => []ResultUsable
<1>1. BitsInv => ResultUsable
  BY DEF BitsInv
<1> QED
  BY BitsInit, BitsStep, <1>1, PTL DEF Spec

-----------------------------------------------------------------------------
(* Greedy selections: as long as earlier selections have not touched what  *)
(* the listed tips reference, counting bits is counting blocks.            *)
GreedyInv ==
    /\ BitsInv
    /\ BitsLeft
    /\ FirstSelectionGreedy

GreedySelection ==
    \A i \in 1 .. Len(selected) : \A b \in list \ { selected[j] : j \in 1 .. i } :
        Cardinality(Cones[b] \ Before(i)) <= Cardinality(Cones[selected[i]] \ Before(i))

LEMMA GreedyFacts == FirstSelectionGreedy <=> (Untouched => GreedySelection)
  BY DEF GreedySelection, FirstSelectionGreedy, Untouched, ListedBlocks, Greedy, Before

(* A bijection between blocks and bits keeps the number.                   *)
LEMMA CountIsCardinality ==
  ASSUME BitsInv, NEW b \in list, NEW S, HasBitsOutside(b, S)
  PROVE  Count(b) = Cardinality(Cones[b] \ S)
<1> DEFINE B == Cones[b] \ S
           f == [c \in B |-> index[c]]
<1>1. /\ \A x, y \in UnionOver(Cones, ListedBlocks) : index[x] = index[y] => x = y
      /\ b \in ListedBlocks
      /\ b \in solid
  BY DEF BitsInv, OneGeneration, CallsInv, TypeOK, ListedBlocks
<1>2. B \subseteq UnionOver(Cones, ListedBlocks)
  BY <1>1 DEF UnionOver
<1>3. B \in SUBSET Blocks
  BY <1>1, ConeFacts DEF BitsInv, CallsInv, BlocksInv
<1>4. IsFiniteSet(B)
  BY <1>3, HeaviestAssumption, FS_Subset
<1>5. refs[b] = { index[c] : c \in B }
  BY DEF HasBitsOutside
<1> HIDE DEF B
<1>6. f \in Bijection(B, refs[b])
  <2>1. f \in [B -> refs[b]]
    BY <1>5
  <2>2. \A x, y \in B : f[x] = f[y] => x = y
    BY <1>1, <1>2
  <2>3. \A r \in refs[b] : \E x \in B : f[x] = r
    BY <1>5
  <2> QED
    BY <2>1, <2>2, <2>3 DEF Bijection, Injection, Surjection, IsInjective
<1> HIDE DEF f
<1>7. Cardinality(refs[b]) = Cardinality(B)
  BY <1>4, <1>6, FS_Bijection DEF ExistsBijection
<1> QED
  BY <1>7 DEF Count, B

LEMMA GreedyInit == Init => GreedyInv
<1> SUFFICES ASSUME Init PROVE GreedyInv
  OBVIOUS
<1>1. Len(selected) = 0
  BY DEF Init
<1> QED
  BY <1>1, BitsInit, GreedyFacts DEF GreedyInv, GreedySelection, BitsLeft, Init

(* Steps that leave alone what concerns the listed tips.                   *)
LEMMA GreedyUnchanged ==
  ASSUME GreedyInv, BitsInv', UNCHANGED << list, todo, selected, earlier >>,
         pc' = pc \/ pc' = "idle",
         \A x \in solid : Cones'[x] = Cones[x] /\ index'[x] = index[x] /\ refs'[x] = refs[x]
  PROVE  GreedyInv'
<1>1. /\ Len(selected) \in Nat
      /\ Range(selected) = { selected[i] : i \in 1 .. Len(selected) }
      /\ Range(selected) \subseteq solid
      /\ selected # << >> => lastTip \in solid
      /\ list \subseteq solid
      /\ earlier \subseteq solid
      /\ ListedBlocks \subseteq solid
      /\ \A x \in solid : Cones[x] \subseteq solid
  BY SelectedFacts, ConeFacts, HeaviestAssumption
  DEF GreedyInv, BitsInv, CallsInv, TypeOK, OneGeneration, ListedBlocks
<1>2. ASSUME NEW i \in 0 .. Len(selected) + 1
      PROVE  Before(i)' = Before(i)
  <2> DEFINE prior == { selected[j] : j \in 1 .. i - 1 }
  <2>1. prior \subseteq solid /\ prior' = prior
    BY <1>1
  <2>2. Before(i) = UNION { Cones[x] : x \in prior }
    BY DEF Before, UnionOver
  <2>3. Before(i)' = UNION { Cones'[x] : x \in prior' }
    BY DEF Before, UnionOver
  <2> HIDE DEF prior
  <2> QED
    BY <2>1, <2>2, <2>3
<1>3. Untouched' = Untouched
  <2>1. /\ UNION { Cones'[x] : x \in earlier } = UNION { Cones[x] : x \in earlier }
        /\ UNION { Cones'[x] : x \in ListedBlocks } = UNION { Cones[x] : x \in ListedBlocks }
    BY <1>1
  <2>2. ListedBlocks' = ListedBlocks
    BY DEF ListedBlocks
  <2> QED
    BY <2>1, <2>2 DEF Untouched, UnionOver
<1>4. \A b \in solid : \A S : HasBitsOutside(b, S) =>
         refs'[b] = { index'[c] : c \in Cones'[b] \ S }
  BY <1>1 DEF HasBitsOutside
<1>5. BitsLeft'
  <2> SUFFICES ASSUME Untouched, pc # "idle", pc' = pc
               PROVE  BitsLeft'
    BY <1>3 DEF BitsLeft
  <2> DEFINE n == Len(selected)
             reached == IF pc = "select" THEN list \ todo ELSE {}
  <2>1. /\ selected # << >> => HasBitsOutside(lastTip, Before(n))
        /\ \A b \in (list \ Range(selected)) \ reached : HasBitsOutside(b, Before(n))
        /\ \A b \in reached : HasBitsOutside(b, Before(n + 1))
    BY DEF GreedyInv, BitsLeft
  <2>2. Before(n)' = Before(n) /\ Before(n + 1)' = Before(n + 1)
    BY <1>1, <1>2
  <2>3. lastTip' = lastTip /\ reached' = reached /\ n' = n /\ reached \subseteq list
    BY DEF lastTip
  <2>4. selected # << >> => HasBitsOutside(lastTip, Before(n))'
    BY <1>1, <1>4, <2>1, <2>2, <2>3 DEF HasBitsOutside
  <2>5. \A b \in (list \ Range(selected)) \ reached : HasBitsOutside(b, Before(n))'
    BY <1>1, <1>4, <2>1, <2>2, <2>3 DEF HasBitsOutside
  <2>6. \A b \in reached : HasBitsOutside(b, Before(n + 1))'
    BY <1>1, <1>4, <2>1, <2>2, <2>3 DEF HasBitsOutside
  <2> QED
    BY <2>4, <2>5, <2>6 DEF BitsLeft
<1>6. FirstSelectionGreedy'
  <2>1. FirstSelectionGreedy' <=> (Untouched' => GreedySelection')
    BY GreedyFacts, PTL
  <2> SUFFICES ASSUME GreedySelection PROVE GreedySelection'
    BY <1>3, <2>1, GreedyFacts DEF GreedyInv
  <2> SUFFICES ASSUME NEW i \in 1 .. Len(selected),
                      NEW b \in list \ { selected[j] : j \in 1 .. i }
               PROVE  Cardinality(Cones'[b] \ Before(i)')
                        <= Cardinality(Cones'[selected[i]] \ Before(i)')
    BY DEF GreedySelection
  <2>2. Before(i)' = Before(i)
    BY <1>1, <1>2
  <2>3. Cones'[b] = Cones[b] /\ Cones'[selected[i]] = Cones[selected[i]]
    BY <1>1
  <2> QED
    BY <2>2, <2>3 DEF GreedySelection
<1> QED
  BY <1>5, <1>6 DEF GreedyInv

(* In the other steps the cones and the bits of the blocks stay.           *)
LEMMA GreedySelectTips == GreedyInv /\ SelectTips => GreedyInv'
<1> SUFFICES ASSUME GreedyInv, SelectTips PROVE GreedyInv'
  OBVIOUS
<1>0. BitsInv /\ BlocksInv /\ BitsInv' /\ Cones' = Cones
  BY BitsSelectTips, BlocksUnchanged DEF GreedyInv, BitsInv, CallsInv, SelectTips
<1>1. /\ UNCHANGED << solid, trackedBlocks, tips, index, refs >>
      /\ list' = tips /\ todo' = {}
      /\ selected' = << >>
      /\ earlier' = earlier \cup Range(selected)
      /\ pc' = "iterate"
  BY DEF SelectTips, blockVars
<1>2. Len(selected') = 0
  BY <1>1
<1>3. BitsLeft'
  <2> SUFFICES ASSUME Untouched', NEW b \in tips
               PROVE  HasBitsOutside(b, Before(0))'
    BY <1>1, <1>2 DEF BitsLeft
  <2>1. Before(0)' = {}
    BY DEF Before, UnionOver
  <2>2. b \in trackedBlocks
    BY <1>0, ConeFacts
  <2>3. /\ refs[b] \subseteq { index[c] : c \in Cones[b] }
        /\ \A c \in Cones[b] : index[c] \in refs[b] \/ c \in Covered
    BY <1>0, <2>2 DEF BitsInv, BitsFollow
  <2>4. \A c \in Cones[b] : c \notin Covered
    BY <1>0, <1>1 DEF Untouched, ListedBlocks, UnionOver, Covered
  <2> QED
    BY <1>0, <1>1, <2>1, <2>3, <2>4 DEF HasBitsOutside
<1>4. FirstSelectionGreedy'
  <2>1. FirstSelectionGreedy' <=> (Untouched' => GreedySelection')
    BY GreedyFacts, PTL
  <2> QED
    BY <1>2, <2>1 DEF GreedySelection
<1> QED
  BY <1>0, <1>3, <1>4 DEF GreedyInv

LEMMA GreedyIterate == GreedyInv /\ Iterate => GreedyInv'
<1> SUFFICES ASSUME GreedyInv, Iterate PROVE GreedyInv'
  OBVIOUS
<1>0. BitsInv /\ BlocksInv /\ BitsInv' /\ Cones' = Cones
  BY BitsIterate, BlocksUnchanged DEF GreedyInv, BitsInv, CallsInv, Iterate, BeginIteration
<1>1. /\ UNCHANGED << index, refs, selected, earlier >>
      /\ pc = "iterate" /\ pc' = "select"
      /\ list' = list \ Range(selected)
      /\ todo' = IF selected = << >> THEN {} ELSE list'
  BY DEF Iterate, BeginIteration, blockVars
<1>2. /\ ListedBlocks' = ListedBlocks
      /\ Untouched' = Untouched
      /\ \A j : Before(j)' = Before(j)
      /\ lastTip' = lastTip
  BY <1>0, <1>1 DEF ListedBlocks, Untouched, UnionOver, Before, lastTip
<1>3. BitsLeft'
  <2> SUFFICES ASSUME Untouched PROVE BitsLeft'
    BY <1>2 DEF BitsLeft
  <2> DEFINE n == Len(selected)
  <2>1. /\ selected # << >> => HasBitsOutside(lastTip, Before(n))
        /\ \A b \in list \ Range(selected) : HasBitsOutside(b, Before(n))
    BY <1>1 DEF GreedyInv, BitsLeft
  <2>2. CASE selected = << >>
    <3>1. n = 0 /\ Range(selected) = {}
      BY <2>2 DEF Range
    <3>2. Before(0) = {} /\ Before(1) = {}
      BY DEF Before, UnionOver
    <3>3. \A b \in list' : HasBitsOutside(b, Before(1))
      BY <1>1, <2>1, <3>1, <3>2
    <3>4. \A b \in list' : HasBitsOutside(b, Before(1))'
      BY <1>0, <1>1, <1>2, <3>3 DEF HasBitsOutside
    <3> QED
      BY <1>1, <2>2, <3>1, <3>4 DEF BitsLeft
  <2>3. CASE selected # << >>
    <3>1. HasBitsOutside(lastTip, Before(n))'
      BY <1>0, <1>1, <1>2, <2>1, <2>3 DEF HasBitsOutside
    <3>2. \A b \in list' : HasBitsOutside(b, Before(n))'
      BY <1>0, <1>1, <1>2, <2>1 DEF HasBitsOutside
    <3> QED
      BY <1>1, <2>3, <3>1, <3>2 DEF BitsLeft
  <2> QED
    BY <2>2, <2>3
<1>4. FirstSelectionGreedy'
  <2>1. FirstSelectionGreedy' <=> (Untouched' => GreedySelection')
    BY GreedyFacts, PTL
  <2>2. GreedySelection => GreedySelection'
    BY <1>0, <1>1, <1>2 DEF GreedySelection
  <2> QED
    BY <1>2, <2>1, <2>2, GreedyFacts DEF GreedyInv
<1> QED
  BY <1>0, <1>3, <1>4 DEF GreedyInv

(* referenceTip leaves the bits of the blocks that the last tip does not   *)
(* reference either.                                                       *)
LEMMA GreedyReference ==
  ASSUME GreedyInv, NEW other \in todo, referenceTip(other)
  PROVE  GreedyInv'
<1>0. BitsInv /\ BlocksInv /\ TypeOK /\ BitsInv' /\ Cones' = Cones
  BY BitsReference, BlocksUnchanged
  DEF GreedyInv, BitsInv, CallsInv, referenceTip, ClearBits
<1>1. /\ UNCHANGED << index, list, selected, earlier, pc >>
      /\ refs' = [refs EXCEPT ![other] = @ \ refs[lastTip]]
      /\ todo' = todo \ {other}
      /\ pc = "select"
      /\ selected # << >>
      /\ other \in list
      /\ list \cap Range(selected) = {}
  BY <1>0 DEF referenceTip, ClearBits, BitsInv, CallsInv, Selecting, TypeOK, blockVars
<1>2. /\ ListedBlocks' = ListedBlocks
      /\ Untouched' = Untouched
      /\ \A j : Before(j)' = Before(j)
      /\ lastTip' = lastTip
  BY <1>0, <1>1 DEF ListedBlocks, Untouched, UnionOver, Before, lastTip
<1>3. /\ \A b \in solid : b # other => refs'[b] = refs[b]
      /\ refs'[other] = refs[other] \ refs[lastTip]
      /\ list \subseteq solid
      /\ lastTip \in Range(selected) /\ lastTip \in solid
      /\ Len(selected) >= 1 /\ Len(selected) \in Nat
  BY <1>0, <1>1, SelectedFacts, HeaviestAssumption DEF TypeOK
<1>4. BitsLeft'
  <2> SUFFICES ASSUME Untouched PROVE BitsLeft'
    BY <1>2 DEF BitsLeft
  <2> DEFINE n == Len(selected)
  <2>1. /\ HasBitsOutside(lastTip, Before(n))
        /\ \A b \in todo : HasBitsOutside(b, Before(n))
        /\ \A b \in list \ todo : HasBitsOutside(b, Before(n + 1))
    BY <1>0, <1>1 DEF GreedyInv, BitsLeft, TypeOK
  <2>2. Before(n + 1) = Before(n) \cup Cones[lastTip]
    <3>1. \A j \in 1 .. n : j \in 1 .. n - 1 \/ j = n
      BY <1>3
    <3>2. { selected[j] : j \in 1 .. (n + 1) - 1 }
            = { selected[j] : j \in 1 .. n - 1 } \cup {selected[n]}
      BY <1>3, <3>1
    <3> QED
      BY <3>2 DEF Before, UnionOver, lastTip
  <2>3. HasBitsOutside(other, Before(n + 1))'
    <3>1. /\ refs[other] = { index[c] : c \in Cones[other] \ Before(n) }
          /\ refs[lastTip] = { index[c] : c \in Cones[lastTip] \ Before(n) }
      BY <2>1 DEF HasBitsOutside
    <3>2. \A x \in Cones[other], y \in Cones[lastTip] : index[x] = index[y] => x = y
      BY <1>0, <1>1, <1>3 DEF BitsInv, OneGeneration, ListedBlocks, UnionOver
    <3>3. refs[other] \ refs[lastTip] = { index[c] : c \in Cones[other] \ Before(n + 1) }
      BY <2>2, <3>1, <3>2
    <3> QED
      BY <1>0, <1>1, <1>2, <1>3, <3>3 DEF HasBitsOutside
  <2>4. \A b \in todo' : HasBitsOutside(b, Before(n))'
    BY <1>0, <1>1, <1>2, <1>3, <2>1 DEF HasBitsOutside, TypeOK
  <2>5. \A b \in list' \ todo' : HasBitsOutside(b, Before(n + 1))'
    BY <1>0, <1>1, <1>2, <1>3, <2>1, <2>3 DEF HasBitsOutside
  <2>6. HasBitsOutside(lastTip, Before(n))'
    BY <1>0, <1>1, <1>2, <1>3, <2>1 DEF HasBitsOutside
  <2> QED
    BY <1>1, <2>4, <2>5, <2>6 DEF BitsLeft
<1>5. FirstSelectionGreedy'
  <2>1. FirstSelectionGreedy' <=> (Untouched' => GreedySelection')
    BY GreedyFacts, PTL
  <2>2. GreedySelection => GreedySelection'
    BY <1>0, <1>1, <1>2 DEF GreedySelection
  <2> QED
    BY <1>2, <2>1, <2>2, GreedyFacts DEF GreedyInv
<1> QED
  BY <1>0, <1>4, <1>5 DEF GreedyInv

(* The tip with the most bits is the one that adds the most blocks.        *)
LEMMA GreedySelect ==
  ASSUME GreedyInv, NEW tip \in list, selectTip(tip)
  PROVE  GreedyInv'
<1>0. BitsInv /\ CallsInv /\ BlocksInv /\ TypeOK /\ BitsInv' /\ Cones' = Cones
  BY BitsSelect, BlocksUnchanged DEF GreedyInv, BitsInv, CallsInv, selectTip
<1> DEFINE n == Len(selected)
<1>1. /\ UNCHANGED << index, refs, list, todo, earlier >>
      /\ pc = "select" /\ pc' = "iterate" /\ todo = {}
      /\ \A b \in list : Count(b) <= Count(tip)
  BY DEF selectTip, Selectable, blockVars
<1>2. /\ n \in Nat
      /\ selected' # << >>
      /\ Len(selected') = n + 1
      /\ \A j \in 1 .. n : selected'[j] = selected[j]
      /\ selected'[n + 1] = tip
      /\ Range(selected') = Range(selected) \cup {tip}
      /\ lastTip' = tip
  BY <1>0, SelectedFacts, SelectedGrows, HeaviestAssumption DEF lastTip
<1>3. ListedBlocks' = ListedBlocks /\ Untouched' = Untouched
  BY <1>0, <1>1, <1>2 DEF ListedBlocks, Untouched, UnionOver
<1>4. ASSUME NEW i \in 1 .. n + 1
      PROVE  Before(i)' = Before(i)
  <2>1. \A j \in 1 .. i - 1 : selected'[j] = selected[j]
    BY <1>2
  <2>2. { selected'[j] : j \in 1 .. i - 1 } = { selected[j] : j \in 1 .. i - 1 }
    BY <2>1
  <2> QED
    BY <1>0, <2>2 DEF Before, UnionOver
<1>5. Untouched => \A b \in list : HasBitsOutside(b, Before(n + 1))
  BY <1>1 DEF GreedyInv, BitsLeft
<1>6. PICK m : m = n + 1 /\ Before(m)' = Before(m)
  BY <1>2, <1>4
<1>7. BitsLeft'
  <2> SUFFICES ASSUME Untouched PROVE BitsLeft'
    BY <1>3 DEF BitsLeft
  <2>1. \A b \in list : HasBitsOutside(b, Before(m))'
    BY <1>0, <1>1, <1>5, <1>6 DEF HasBitsOutside
  <2>2. refs'[tip] = { index'[c] : c \in Cones'[tip] \ Before(m)' }
    BY <2>1 DEF HasBitsOutside
  <2>3. Before(Len(selected))' = Before(m)'
    BY <1>2, <1>6 DEF Before
  <2> QED
    BY <1>1, <1>2, <2>1, <2>2, <2>3 DEF BitsLeft, HasBitsOutside
<1>8. FirstSelectionGreedy'
  <2>1. FirstSelectionGreedy' <=> (Untouched' => GreedySelection')
    BY GreedyFacts, PTL
  <2> SUFFICES ASSUME Untouched, GreedySelection PROVE GreedySelection'
    BY <1>3, <2>1, GreedyFacts DEF GreedyInv
  <2> SUFFICES ASSUME NEW i \in 1 .. n + 1,
                      NEW b \in list \ { selected'[j] : j \in 1 .. i }
               PROVE  Cardinality(Cones[b] \ Before(i))
                        <= Cardinality(Cones[selected'[i]] \ Before(i))
    BY <1>0, <1>1, <1>2, <1>4 DEF GreedySelection
  <2>2. CASE i \in 1 .. n
    <3>1. \A j \in 1 .. i : selected'[j] = selected[j]
      BY <1>2, <2>2
    <3>2. b \in list \ { selected[j] : j \in 1 .. i }
      BY <3>1
    <3> QED
      BY <2>2, <3>1, <3>2 DEF GreedySelection
  <2>3. CASE i = n + 1
    <3>1. Count(b) = Cardinality(Cones[b] \ Before(n + 1))
      BY <1>0, <1>5, CountIsCardinality
    <3>2. Count(tip) = Cardinality(Cones[tip] \ Before(n + 1))
      BY <1>0, <1>5, CountIsCardinality
    <3> QED
      BY <1>1, <1>2, <2>3, <3>1, <3>2
  <2> QED
    BY <1>2, <2>2, <2>3
<1> QED
  BY <1>0, <1>7, <1>8 DEF GreedyInv

LEMMA GreedyStep == GreedyInv /\ [Next]_vars => GreedyInv'
<1> SUFFICES ASSUME GreedyInv, [Next]_vars PROVE GreedyInv'
  OBVIOUS
<1>0. BitsInv /\ CallsInv /\ BlocksInv /\ TypeOK /\ BitsInv' /\ solid \subseteq Blocks
  BY BitsStep DEF GreedyInv, BitsInv, CallsInv, BlocksInv
<1>1. ASSUME NEW b \in Blocks, NEW parents \in SUBSET solid, OnNewSolidBlock(b, parents)
      PROVE  GreedyInv'
  <2> DEFINE P == parents \cap trackedBlocks
  <2>1. /\ b \notin solid
        /\ solid' = solid \cup {b}
        /\ trackedParents' = [trackedParents EXCEPT ![b] = P]
        /\ index' = [index EXCEPT ![b] = Cardinality(trackedBlocks)]
        /\ \E bits : refs' = [refs EXCEPT ![b] = bits]
        /\ UNCHANGED << list, todo, selected, earlier, pc >>
    BY <1>1 DEF OnNewSolidBlock, AddBlock, callVars
  <2>2. P \in SUBSET solid
    OBVIOUS
  <2> HIDE DEF P
  <2>3. \A x \in solid : Cones'[x] = Cones[x]
    BY <1>0, <2>1, <2>2, ConesGrow DEF BlocksInv
  <2>4. \A x \in solid : index'[x] = index[x] /\ refs'[x] = refs[x]
    BY <1>0, <2>1 DEF BlocksInv, OwnBits, TypeOK
  <2> QED
    BY <1>0, <2>1, <2>3, <2>4, GreedyUnchanged
<1>2. CASE Reset
  <2>1. UNCHANGED << solid, trackedParents, index, refs, callVars >>
    BY <1>2 DEF Reset
  <2>2. Cones' = Cones
    BY <2>1, ConesUnchanged
  <2> QED
    BY <1>0, <2>1, <2>2, GreedyUnchanged DEF callVars
<1>3. ASSUME NEW o \in {"tips", "error"}, Return(o)
      PROVE  GreedyInv'
  <2>1. Cones' = Cones
    BY <1>0, <1>3, BlocksUnchanged DEF Return
  <2> QED
    BY <1>0, <1>3, <2>1, GreedyUnchanged DEF Return, blockVars
<1>4. CASE UNCHANGED vars
  <2>1. Cones' = Cones
    BY <1>0, <1>4, BlocksUnchanged DEF vars
  <2> QED
    BY <1>0, <1>4, <2>1, GreedyUnchanged DEF vars, blockVars, callVars
<1> QED
  BY <1>0, <1>1, <1>2, <1>3, <1>4, StepCases, GreedySelectTips, GreedyIterate, GreedyReference,
     GreedySelect

(* A selection takes the heaviest tips one after the other if no earlier   *)
(* one touched what they reference, although new blocks read the bits that *)
(* it is clearing.                                                         *)
THEOREM FirstSelectionGreedyCorrect == Spec => []FirstSelectionGreedy
<1>1. GreedyInv => FirstSelectionGreedy
  BY DEF GreedyInv
<1> QED
  BY GreedyInit, GreedyStep, <1>1, PTL DEF Spec
=============================================================================
