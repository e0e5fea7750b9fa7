--------------------------- MODULE KeyedQueueProofs ---------------------------
(***************************************************************************)
(* Proofs about KeyedQueue, for all keys, values and numbers of submits.   *)
(***************************************************************************)
EXTENDS KeyedQueue, SequenceTheorems, TLAPS

Pairs == [key : Keys, value : Values]

(* No two elements of a sequence have the same key.                        *)
KeysDiffer(s) == \A i, j \in DOMAIN s : s[i].key = s[j].key => i = j

-----------------------------------------------------------------------------
(* The element at a position is left out of a sequence.                    *)
LEMMA RemoveAtProperties ==
  ASSUME NEW S, NEW s \in Seq(S), NEW i \in 1 .. Len(s)
  PROVE  /\ RemoveAt(s, i) \in Seq(S)
         /\ Len(RemoveAt(s, i)) = Len(s) - 1
         /\ \A j \in 1 .. Len(s) - 1 :
              RemoveAt(s, i)[j] = IF j < i THEN s[j] ELSE s[j + 1]
<1> DEFINE front == SubSeq(s, 1, i - 1)
           back  == SubSeq(s, i + 1, Len(s))
<1>1. Len(s) \in Nat /\ \A j \in 1 .. Len(s) : s[j] \in S
  BY LenProperties, ElementOfSeq
<1>2. /\ front \in Seq(S)
      /\ Len(front) = i - 1
      /\ \A j \in 1 .. i - 1 : front[j] = s[j]
  <2>1. \A j \in 1 .. i - 1 : s[j] \in S
    BY <1>1
  <2>2. /\ front \in Seq(S)
        /\ Len(front) = IF 1 <= i - 1 THEN (i - 1) - 1 + 1 ELSE 0
        /\ \A j \in 1 .. (i - 1) - 1 + 1 : front[j] = s[1 + j - 1]
    BY <1>1, <2>1, SubSeqProperties
  <2> HIDE DEF front
  <2>3. ASSUME NEW j \in 1 .. i - 1
        PROVE  front[j] = s[j]
    <3>1. j \in 1 .. (i - 1) - 1 + 1 /\ 1 + j - 1 = j
      BY <1>1
    <3> QED
      BY <2>2, <3>1
  <2> QED
    BY <1>1, <2>2, <2>3
<1>3. /\ back \in Seq(S)
      /\ Len(back) = Len(s) - i
      /\ \A j \in 1 .. Len(s) - i : back[j] = s[i + j]
  <2>1. \A j \in i + 1 .. Len(s) : s[j] \in S
    BY <1>1
  <2>2. /\ back \in Seq(S)
        /\ Len(back) = IF i + 1 <= Len(s) THEN Len(s) - (i + 1) + 1 ELSE 0
        /\ \A j \in 1 .. Len(s) - (i + 1) + 1 : back[j] = s[i + 1 + j - 1]
    BY <1>1, <2>1, SubSeqProperties
  <2> HIDE DEF back
  <2>3. ASSUME NEW j \in 1 .. Len(s) - i
        PROVE  back[j] = s[i + j]
    <3>1. j \in 1 .. Len(s) - (i + 1) + 1 /\ i + 1 + j - 1 = i + j
      BY <1>1
    <3> QED
      BY <2>2, <3>1
  <2> QED
    BY <1>1, <2>2, <2>3
<1> HIDE DEF front, back
<1>4. /\ front \o back \in Seq(S)
      /\ Len(front \o back) = Len(front) + Len(back)
      /\ \A j \in 1 .. Len(front) + Len(back) :
           (front \o back)[j] = IF j <= Len(front) THEN front[j] ELSE back[j - Len(front)]
  BY <1>2, <1>3, ConcatProperties
<1>5. RemoveAt(s, i) = front \o back
  BY DEF RemoveAt, front, back
<1>6. \A j \in 1 .. Len(s) - 1 : (front \o back)[j] = IF j < i THEN s[j] ELSE s[j + 1]
  <2> TAKE j \in 1 .. Len(s) - 1
  <2>1. CASE j < i
    BY <1>1, <1>2, <1>3, <1>4, <2>1
  <2>2. CASE ~ (j < i)
    <3>1. j - Len(front) \in 1 .. Len(s) - i /\ i + (j - Len(front)) = j + 1
      BY <1>1, <1>2, <2>2
    <3>2. (front \o back)[j] = back[j - Len(front)]
      BY <1>1, <1>2, <1>3, <1>4, <2>2
    <3> QED
      BY <1>3, <2>2, <3>1, <3>2
  <2> QED
    BY <2>1, <2>2
<1>7. Len(front) + Len(back) = Len(s) - 1
  BY <1>1, <1>2, <1>3
<1> QED
  BY <1>4, <1>5, <1>6, <1>7, Zenon

(* A pair with a new key is added to a list without repeated keys.         *)
LEMMA AppendPair ==
  ASSUME NEW s \in Seq(Pairs), KeysDiffer(s), NEW e \in Pairs,
         \A f \in Range(s) : f.key # e.key
  PROVE  /\ Append(s, e) \in Seq(Pairs)
         /\ Len(Append(s, e)) = Len(s) + 1
         /\ KeysDiffer(Append(s, e))
         /\ Range(Append(s, e)) = Range(s) \cup {e}
         /\ Append(s, e) # << >>
<1> DEFINE t == Append(s, e)
<1>1. /\ Len(s) \in Nat
      /\ DOMAIN s = 1 .. Len(s)
  BY LenProperties
<1>2. /\ t \in Seq(Pairs)
      /\ t # << >>
      /\ Len(t) = Len(s) + 1
      /\ \A i \in 1 .. Len(s) : t[i] = s[i]
      /\ t[Len(s) + 1] = e
  BY AppendProperties
<1>3. DOMAIN t = 1 .. Len(s) + 1
  BY <1>2, LenProperties
<1> HIDE DEF t
<1>4. Range(t) = Range(s) \cup {e}
  BY <1>1, <1>2, <1>3 DEF Range
<1>5. \A i \in 1 .. Len(s) : t[i].key # e.key
  BY <1>1, <1>2 DEF Range
<1>6. KeysDiffer(t)
  BY <1>1, <1>2, <1>3, <1>5 DEF KeysDiffer
<1> QED
  BY <1>2, <1>4, <1>6 DEF t

(* The first element is taken off a list without repeated keys.            *)
LEMMA TailPairs ==
  ASSUME NEW s \in Seq(Pairs), KeysDiffer(s), s # << >>
  PROVE  /\ Head(s) \in Range(s)
         /\ Tail(s) \in Seq(Pairs)
         /\ Len(Tail(s)) = Len(s) - 1
         /\ KeysDiffer(Tail(s))
         /\ Range(Tail(s)) = { e \in Range(s) : e.key # Head(s).key }
<1> DEFINE t == Tail(s)
<1>1. /\ Len(s) \in Nat \ {0}
      /\ DOMAIN s = 1 .. Len(s)
      /\ Head(s) = s[1]
  BY LenProperties, EmptySeq
<1>2. /\ t \in Seq(Pairs)
      /\ Len(t) = Len(s) - 1
      /\ \A i \in 1 .. Len(t) : t[i] = s[i + 1]
  BY HeadTailProperties
<1>3. DOMAIN t = 1 .. Len(s) - 1
  BY <1>2, LenProperties
<1> HIDE DEF t
<1>4. Range(t) = { e \in Range(s) : e.key # Head(s).key }
  <2>1. ASSUME NEW i \in DOMAIN t
        PROVE  t[i] \in Range(s) /\ t[i].key # Head(s).key
    BY <1>1, <1>2, <1>3 DEF Range, KeysDiffer
  <2>2. ASSUME NEW i \in DOMAIN s, s[i].key # Head(s).key
        PROVE  s[i] \in Range(t)
    <3>1. i - 1 \in DOMAIN t /\ (i - 1) + 1 = i
      BY <1>1, <1>3, <2>2
    <3> QED
      BY <1>2, <1>3, <3>1 DEF Range
  <2> QED
    BY <2>1, <2>2 DEF Range
<1>5. KeysDiffer(t)
  <2> SUFFICES ASSUME NEW i \in 1 .. Len(s) - 1, NEW j \in 1 .. Len(s) - 1,
                      t[i].key = t[j].key
               PROVE  i = j
    BY <1>3 DEF KeysDiffer
  <2>1. i + 1 \in DOMAIN s /\ j + 1 \in DOMAIN s
    BY <1>1
  <2>2. t[i] = s[i + 1] /\ t[j] = s[j + 1]
    BY <1>2
  <2>3. i + 1 = j + 1
    BY <2>1, <2>2 DEF KeysDiffer
  <2> QED
    BY <1>1, <2>3
<1> QED
  BY <1>1, <1>2, <1>4, <1>5 DEF t, Range

(* Submit removes the element of a key from the list, and nothing else.    *)
LEMMA UnlinkedPairs ==
  ASSUME TypeOK, ListConsistent, NEW k \in Keys
  PROVE  /\ Unlinked(k) \in Seq(Pairs)
         /\ Len(Unlinked(k)) = IF k \in byKey THEN Len(queue) - 1 ELSE Len(queue)
         /\ KeysDiffer(Unlinked(k))
         /\ Range(Unlinked(k)) = { e \in Range(queue) : e.key # k }
<1>1. /\ queue \in Seq(Pairs)
      /\ Len(queue) \in Nat
      /\ DOMAIN queue = 1 .. Len(queue)
  BY LenProperties DEF TypeOK, Pairs
<1>2. KeysDiffer(queue) /\ byKey = QueuedKeys
  BY DEF ListConsistent, KeysDiffer
<1>3. CASE k \notin byKey
  <2>1. \A e \in Range(queue) : e.key # k
    BY <1>2, <1>3 DEF QueuedKeys, Range
  <2> QED
    BY <1>1, <1>2, <1>3, <2>1 DEF Unlinked
<1>4. CASE k \in byKey
  <2> DEFINE n == CHOOSE i \in DOMAIN queue : queue[i].key = k
             t == RemoveAt(queue, n)
  <2>1. n \in 1 .. Len(queue) /\ queue[n].key = k
    BY <1>1, <1>2, <1>4 DEF QueuedKeys
  <2>2. Unlinked(k) = t
    BY <1>4 DEF Unlinked
  <2> HIDE DEF n
  <2>3. /\ t \in Seq(Pairs)
        /\ Len(t) = Len(queue) - 1
        /\ \A j \in 1 .. Len(queue) - 1 : t[j] = IF j < n THEN queue[j] ELSE queue[j + 1]
    BY <1>1, <2>1, RemoveAtProperties
  <2>4. DOMAIN t = 1 .. Len(queue) - 1
    BY <2>3, LenProperties
  <2> HIDE DEF t
  <2>5. KeysDiffer(t)
    <3> DEFINE at(j) == IF j < n THEN j ELSE j + 1
    <3>1. \A j \in 1 .. Len(queue) - 1 : at(j) \in DOMAIN queue /\ t[j] = queue[at(j)]
      BY <1>1, <2>1, <2>3
    <3>2. \A i, j \in 1 .. Len(queue) - 1 : at(i) = at(j) => i = j
      BY <1>1, <2>1
    <3> HIDE DEF at
    <3> QED
      BY <1>2, <2>4, <3>1, <3>2 DEF KeysDiffer
  <2>6. ASSUME NEW j \in DOMAIN t
        PROVE  t[j] \in Range(queue) /\ t[j].key # k
    <3> DEFINE i == IF j < n THEN j ELSE j + 1
    <3>1. i \in DOMAIN queue /\ i # n /\ t[j] = queue[i]
      BY <1>1, <2>1, <2>3, <2>4
    <3> QED
      BY <1>1, <1>2, <2>1, <3>1 DEF Range, KeysDiffer
  <2>7. ASSUME NEW i \in DOMAIN queue, queue[i].key # k
        PROVE  queue[i] \in Range(t)
    <3> DEFINE j == IF i < n THEN i ELSE i - 1
    <3>1. j \in DOMAIN t /\ t[j] = queue[i]
      BY <1>1, <2>1, <2>3, <2>4, <2>7
    <3> QED
      BY <3>1 DEF Range
  <2>8. Range(t) = { e \in Range(queue) : e.key # k }
    BY <2>6, <2>7 DEF Range
  <2> QED
    BY <1>4, <2>2, <2>3, <2>5, <2>8
<1> QED
  BY <1>3, <1>4

-----------------------------------------------------------------------------
(* ListConsistent in the terms of the lemmas.                              *)
LEMMA ListFacts ==
  ASSUME QueueInv
  PROVE  /\ queue \in Seq(Pairs)
         /\ Len(queue) \in Nat
         /\ queue # << >> <=> Len(queue) > 0
         /\ KeysDiffer(queue)
         /\ byKey = { e.key : e \in Range(queue) }
BY LenProperties, EmptySeq
   DEF QueueInv, TypeOK, ListConsistent, QueuedKeys, KeysDiffer, Range, Pairs

(* Enough to show of a step that gives the list.                           *)
LEMMA ListSuffices ==
  ASSUME KeysDiffer(queue'), byKey' = { e.key : e \in Range(queue)' }
  PROVE  /\ \A i, j \in DOMAIN queue' : queue'[i].key = queue'[j].key => i = j
         /\ byKey' = QueuedKeys'
BY DEF KeysDiffer, QueuedKeys, Range

Busy == loop \in {"check", "pop", "execute", "finish"}

(* OneTrigger as a statement about three Booleans.                         *)
OnlyOne(l, a, b, c) ==
  IF l = 0 THEN ~ a /\ ~ b /\ ~ c
  ELSE (a /\ ~ b /\ ~ c) \/ (~ a /\ b /\ ~ c) \/ (~ a /\ ~ b /\ c)

LEMMA OneOfThree ==
  ASSUME NEW T, T \subseteq {"armed", "fired", "busy"}
  PROVE  /\ T = {} <=> "armed" \notin T /\ "fired" \notin T /\ "busy" \notin T
         /\ (\E t \in T : T = {t}) <=>
              \/ "armed" \in T /\ "fired" \notin T /\ "busy" \notin T
              \/ "armed" \notin T /\ "fired" \in T /\ "busy" \notin T
              \/ "armed" \notin T /\ "fired" \notin T /\ "busy" \in T
<1>1. (\E t \in T : T = {t}) <=> T = {"armed"} \/ T = {"fired"} \/ T = {"busy"}
  OBVIOUS
<1>2. T = {"armed"} <=> "armed" \in T /\ "fired" \notin T /\ "busy" \notin T
  OBVIOUS
<1>3. T = {"fired"} <=> "armed" \notin T /\ "fired" \in T /\ "busy" \notin T
  OBVIOUS
<1>4. T = {"busy"} <=> "armed" \notin T /\ "fired" \notin T /\ "busy" \in T
  OBVIOUS
<1> QED
  BY <1>1, <1>2, <1>3, <1>4

LEMMA OneTriggerCases == OneTrigger <=> (~ shutdown => OnlyOne(len, armed, timerC, Busy))
<1>1. /\ Triggers \subseteq {"armed", "fired", "busy"}
      /\ "armed" \in Triggers <=> armed
      /\ "fired" \in Triggers <=> timerC
      /\ "busy" \in Triggers <=> Busy
  BY DEF Triggers, Busy
<1> QED
  BY <1>1, OneOfThree DEF OneTrigger, OnlyOne

LEMMA OneTriggerCasesNext ==
  OneTrigger' <=> (~ shutdown' => OnlyOne(len', armed', timerC', Busy'))
<1>1. /\ Triggers' \subseteq {"armed", "fired", "busy"}
      /\ "armed" \in Triggers' <=> armed'
      /\ "fired" \in Triggers' <=> timerC'
      /\ "busy" \in Triggers' <=> Busy'
  BY DEF Triggers, Busy
<1> QED
  BY <1>1, OneOfThree DEF OneTrigger, OnlyOne

LEMMA InitQueueInv == Init => QueueInv
<1> SUFFICES ASSUME Init PROVE QueueInv
  OBVIOUS
<1>1. queue = << >> /\ Len(queue) = 0 /\ DOMAIN queue = {}
  BY DEF Init
<1>2. TypeOK
  <2>1. queue \in Seq([key : Keys, value : Values])
    BY EmptySeq DEF Init
  <2>2. submits \in 0 .. MaxSubmits /\ len \in Nat
    BY QueueAssumption DEF Init
  <2>3. armed \in BOOLEAN /\ timerC \in BOOLEAN /\ shutdown \in BOOLEAN
    BY DEF Init
  <2> QED
    BY <2>1, <2>2, <2>3 DEF Init, TypeOK
<1>3. ListConsistent
  BY <1>1 DEF Init, ListConsistent, QueuedKeys
<1>4. OneTrigger
  BY <1>2, OneTriggerCases DEF Init, OnlyOne, Busy
<1>5. PopsElement /\ NewerCancels /\ ResultKnown
  BY DEF Init, PopsElement, NewerCancels, ResultKnown
<1> QED
  BY <1>2, <1>3, <1>4, <1>5 DEF QueueInv

(* What a value becomes that is canceled.                                  *)
LEMMA Canceled ==
  ASSUME QueueInv, running # None
  PROVE  /\ [running EXCEPT !.canceled = TRUE] \in [key : Keys, value : Values, canceled : BOOLEAN]
         /\ [running EXCEPT !.canceled = TRUE] # None
         /\ [running EXCEPT !.canceled = TRUE].key = running.key
         /\ [running EXCEPT !.canceled = TRUE].value = running.value
         /\ [running EXCEPT !.canceled = TRUE].canceled
<1>1. running \in [key : Keys, value : Values, canceled : BOOLEAN]
  BY DEF QueueInv, TypeOK
<1>2. [running EXCEPT !.canceled = TRUE] \in [key : Keys, value : Values, canceled : BOOLEAN]
  BY <1>1
<1> QED
  BY <1>1, <1>2, QueueAssumption

LEMMA SubmitKeepsInv ==
  ASSUME QueueInv, NEW k \in Keys, NEW v \in Values, Submit(k, v)
  PROVE  QueueInv' /\ Range(queue)' = { e \in Range(queue) : e.key # k } \cup { Pair(k, v) }
<1>1. /\ Unlinked(k) \in Seq(Pairs)
      /\ Len(Unlinked(k)) = IF k \in byKey THEN Len(queue) - 1 ELSE Len(queue)
      /\ KeysDiffer(Unlinked(k))
      /\ Range(Unlinked(k)) = { e \in Range(queue) : e.key # k }
  BY UnlinkedPairs DEF QueueInv
<1>2. Pair(k, v) \in Pairs /\ Pair(k, v).key = k
  BY DEF Pair, Pairs
<1>3. /\ queue' \in Seq(Pairs)
      /\ Len(queue') = Len(Unlinked(k)) + 1
      /\ KeysDiffer(queue')
      /\ Range(queue)' = Range(Unlinked(k)) \cup { Pair(k, v) }
      /\ queue' # << >>
  BY <1>1, <1>2, AppendPair DEF Submit
<1>4. byKey' = { e.key : e \in Range(queue)' }
  BY <1>1, <1>2, <1>3, ListFacts DEF Submit
<1>5. /\ Len(queue) \in Nat
      /\ Len(queue') = IF k \in byKey THEN Len(queue) ELSE Len(queue) + 1
  BY <1>1, <1>3, ListFacts
<1>6. /\ running' \in [key : Keys, value : Values, canceled : BOOLEAN] \cup {None}
      /\ running' # None <=> running # None
      /\ running' # None => running'.key = running.key
      /\ running' # None /\ (running.key = k \/ running.canceled) => running'.canceled
  <2>1. CASE running # None /\ running.key = k
    BY <2>1, Canceled DEF Submit
  <2>2. CASE ~ (running # None /\ running.key = k)
    BY <2>2 DEF Submit, QueueInv, TypeOK
  <2> QED
    BY <2>1, <2>2
<1>7. TypeOK'
  <2>1. submits' \in 0 .. MaxSubmits /\ len' \in Nat /\ byKey' \subseteq Keys
    BY QueueAssumption DEF QueueInv, TypeOK, Submit
  <2>2. armed' \in BOOLEAN
    BY DEF QueueInv, TypeOK, Submit
  <2> QED
    BY <1>3, <1>6, <2>1, <2>2 DEF QueueInv, TypeOK, Submit, Pairs
<1>8. len' = Len(queue') + (IF loop' \in {"execute", "finish"} THEN 1 ELSE 0)
  <2>1. len = Len(queue) + (IF loop \in {"execute", "finish"} THEN 1 ELSE 0)
    BY DEF QueueInv, ListConsistent
  <2>2. loop' = loop /\ len' = IF k \in byKey THEN len ELSE len + 1
    BY DEF Submit
  <2>3. CASE k \in byKey
    BY <1>5, <2>1, <2>2, <2>3
  <2>4. CASE k \notin byKey
    BY <1>5, <2>1, <2>2, <2>4
  <2> QED
    BY <2>3, <2>4
<1>9. ListConsistent'
  <2>1. (running' # None) = (loop' \in {"execute", "finish"})
    BY <1>6 DEF QueueInv, ListConsistent, Submit
  <2> QED
    BY <1>3, <1>4, <1>8, <2>1, ListSuffices DEF ListConsistent
<1>10. OneTrigger'
  <2>1. len = 0 => k \notin byKey
    <3>1. len = 0 => queue = << >>
      BY <1>5, ListFacts DEF QueueInv, ListConsistent
    <3> QED
      BY <3>1 DEF QueueInv, ListConsistent, QueuedKeys
  <2>2. len' # 0
    BY <2>1 DEF QueueInv, TypeOK, Submit
  <2>3. armed' <=> armed \/ len = 0
    BY DEF Submit
  <2>4. timerC' = timerC /\ Busy' = Busy /\ shutdown' = shutdown
    BY DEF Submit, Busy
  <2> QED
    BY <2>2, <2>3, <2>4, OneTriggerCases, OneTriggerCasesNext DEF QueueInv, OnlyOne
<1>11. PopsElement' /\ NewerCancels' /\ ResultKnown'
  BY <1>3, <1>6 DEF QueueInv, PopsElement, NewerCancels, ResultKnown, Submit
<1> QED
  BY <1>1, <1>3, <1>7, <1>9, <1>10, <1>11 DEF QueueInv

LEMMA PopKeepsInv ==
  ASSUME QueueInv, popFront
  PROVE  /\ QueueInv'
         /\ Head(queue) \in Range(queue)
         /\ Head(queue) \in Pairs
         /\ running' # None
         /\ Range(queue)' = { e \in Range(queue) : e.key # Head(queue).key }
<1>1. /\ Head(queue) \in Range(queue)
      /\ queue' \in Seq(Pairs)
      /\ Len(queue') = Len(queue) - 1
      /\ KeysDiffer(queue')
      /\ Range(queue)' = { e \in Range(queue) : e.key # Head(queue).key }
  BY TailPairs, ListFacts DEF QueueInv, popFront, PopsElement
<1>2. Head(queue) \in Pairs
  BY <1>1, ListFacts, RangeOfSeq
<1>3. byKey' = { e.key : e \in Range(queue)' }
  BY <1>1, ListFacts DEF popFront
<1>4. running' \in [key : Keys, value : Values, canceled : BOOLEAN]
  BY <1>2 DEF popFront, Pairs
<1>5. TypeOK'
  BY <1>1, <1>4 DEF QueueInv, TypeOK, popFront, Pairs
<1>6. ListConsistent'
  <2>1. len' = Len(queue') + (IF loop' \in {"execute", "finish"} THEN 1 ELSE 0)
    BY <1>1, ListFacts DEF QueueInv, ListConsistent, popFront
  <2>2. running' # None
    BY <1>4, QueueAssumption
  <2> QED
    BY <1>1, <1>3, <2>1, <2>2, ListSuffices DEF ListConsistent, popFront
<1>7. OneTrigger'
  <2>1. Busy /\ Busy'
    BY DEF popFront, Busy
  <2> QED
    BY <2>1, OneTriggerCases, OneTriggerCasesNext DEF QueueInv, OnlyOne, popFront
<1>8. PopsElement' /\ NewerCancels' /\ ResultKnown'
  BY <1>1, <1>3 DEF QueueInv, PopsElement, NewerCancels, ResultKnown, popFront
<1> QED
  BY <1>1, <1>2, <1>4, <1>5, <1>6, <1>7, <1>8, QueueAssumption DEF QueueInv

LEMMA RetryKeepsInv ==
  ASSUME QueueInv, Finish, Retry, ~ running.canceled
  PROVE  /\ QueueInv'
         /\ Range(queue)' = Range(queue) \cup { Pair(running.key, running.value) }
<1>1. /\ running # None
      /\ running \in [key : Keys, value : Values, canceled : BOOLEAN]
      /\ len = Len(queue) + 1
      /\ running' = None /\ loop' = "select"
  BY DEF QueueInv, TypeOK, ListConsistent, Finish
<1>2. running.key \notin byKey
  BY <1>1 DEF QueueInv, NewerCancels
<1>3. /\ queue' = Append(queue, Pair(running.key, running.value))
      /\ byKey' = byKey \cup {running.key}
      /\ len' = len
      /\ armed'
  BY <1>2 DEF Retry
<1>4. /\ Pair(running.key, running.value) \in Pairs
      /\ Pair(running.key, running.value).key = running.key
  BY <1>1 DEF Pair, Pairs
<1>5. \A f \in Range(queue) : f.key # running.key
  BY <1>2, ListFacts
<1>6. /\ queue' \in Seq(Pairs)
      /\ Len(queue') = Len(queue) + 1
      /\ KeysDiffer(queue')
      /\ Range(queue)' = Range(queue) \cup { Pair(running.key, running.value) }
      /\ queue' # << >>
  BY <1>3, <1>4, <1>5, AppendPair, ListFacts
<1>7. byKey' = { e.key : e \in Range(queue)' }
  BY <1>3, <1>4, <1>6, ListFacts
<1>8. TypeOK'
  <2>1. queue' \in Seq([key : Keys, value : Values]) /\ byKey' \subseteq Keys
    BY <1>1, <1>3, <1>6 DEF Pairs, QueueInv, TypeOK
  <2> QED
    BY <1>1, <1>3, <2>1 DEF QueueInv, TypeOK, Finish, Retry
<1>9. ListConsistent'
  <2>1. len' = Len(queue') + (IF loop' \in {"execute", "finish"} THEN 1 ELSE 0)
    BY <1>1, <1>3, <1>6, ListFacts
  <2> QED
    BY <1>1, <1>6, <1>7, <2>1, ListSuffices DEF ListConsistent
<1>10. OneTrigger'
  <2>1. Busy /\ ~ Busy' /\ timerC' = timerC /\ shutdown' = shutdown
    BY <1>1 DEF Busy, Finish
  <2>2. len # 0
    BY <1>1, ListFacts
  <2> QED
    BY <1>3, <2>1, <2>2, OneTriggerCases, OneTriggerCasesNext DEF QueueInv, OnlyOne
<1>11. PopsElement' /\ NewerCancels' /\ ResultKnown'
  BY <1>1 DEF QueueInv, PopsElement, NewerCancels, ResultKnown, Finish
<1> QED
  BY <1>6, <1>8, <1>9, <1>10, <1>11 DEF QueueInv

(* A failed value is never dropped for a newer one here: Submit has        *)
(* canceled it, and canceled values end in Done.                           *)
LEMMA DoneKeepsInv ==
  ASSUME QueueInv, Finish, Done
  PROVE  QueueInv' /\ queue' = queue
<1>1. /\ running # None
      /\ len = Len(queue) + 1
      /\ Len(queue) \in Nat
      /\ running' = None /\ loop' = "select"
  BY ListFacts DEF QueueInv, TypeOK, ListConsistent, Finish
<1>2. /\ UNCHANGED << queue, byKey, err, timerC, shutdown, stop, submits >>
      /\ len' = Len(queue)
      /\ armed' = (armed \/ len - 1 > 0)
  BY <1>1 DEF Done, Finish
<1>3. TypeOK'
  BY <1>1, <1>2 DEF QueueInv, TypeOK
<1>4. ListConsistent'
  BY <1>1, <1>2 DEF QueueInv, ListConsistent, QueuedKeys
<1>5. OneTrigger'
  <2>1. Busy /\ ~ Busy'
    BY <1>1 DEF Busy, Finish
  <2>2. len - 1 = len' /\ len' \in Nat /\ len # 0
    BY <1>1, <1>2
  <2>3. len - 1 > 0 <=> len' # 0
    BY <2>2
  <2>4. armed' <=> armed \/ len' # 0
    BY <1>2, <2>3, Zenon
  <2> QED
    BY <1>2, <2>1, <2>2, <2>4, OneTriggerCases, OneTriggerCasesNext DEF QueueInv, OnlyOne
<1>6. PopsElement' /\ NewerCancels' /\ ResultKnown'
  BY <1>1, <1>2 DEF QueueInv, PopsElement, NewerCancels, ResultKnown
<1> QED
  BY <1>2, <1>3, <1>4, <1>5, <1>6 DEF QueueInv

(* The steps that leave the list alone.                                    *)
LEMMA OtherKeepsInv ==
  ASSUME QueueInv,
         \/ TimerFires \/ SelectTimer \/ SelectShutdown \/ CheckShutdown
         \/ \E e \in {"nil", "error"} : Return(e)
         \/ StopClose \/ StopCancel \/ StopWait \/ UNCHANGED vars
  PROVE  QueueInv'
<1> DEFINE Goal == TypeOK' /\ ListConsistent' /\ OneTrigger' /\ PopsElement'
                     /\ NewerCancels' /\ ResultKnown'
<1> USE DEF QueueInv, TypeOK, ListConsistent, QueuedKeys, PopsElement, NewerCancels,
            ResultKnown, OnlyOne, Busy
<1> SUFFICES Goal
  OBVIOUS
<1>0. (~ shutdown => OnlyOne(len, armed, timerC, Busy)) /\
        (OneTrigger' <=> (~ shutdown' => OnlyOne(len', armed', timerC', Busy')))
  BY OneTriggerCases, OneTriggerCasesNext
<1>1. CASE TimerFires
  BY <1>0, <1>1 DEF TimerFires
<1>2. CASE SelectTimer
  <2>1. OneTrigger'
    BY <1>0, <1>2 DEF SelectTimer
  <2>2. TypeOK'
    BY <1>2 DEF SelectTimer
  <2>3. ListConsistent' /\ PopsElement'
    BY <1>2 DEF SelectTimer
  <2>4. NewerCancels' /\ ResultKnown'
    BY <1>2 DEF SelectTimer
  <2> QED
    BY <2>1, <2>2, <2>3, <2>4, Zenon
<1>3. CASE SelectShutdown
  BY <1>0, <1>3 DEF SelectShutdown
<1>4. CASE CheckShutdown
  BY <1>0, <1>4, EmptySeq DEF CheckShutdown
<1>5. CASE \E e \in {"nil", "error"} : Return(e)
  BY <1>0, <1>5 DEF Return
<1>6. CASE StopClose
  BY <1>0, <1>6 DEF StopClose
<1>7. CASE StopCancel
  BY <1>0, <1>7, Canceled DEF StopCancel
<1>8. CASE StopWait
  BY <1>0, <1>8 DEF StopWait
<1>9. CASE UNCHANGED vars
  BY <1>0, <1>9 DEF vars
<1> QED
  BY <1>1, <1>2, <1>3, <1>4, <1>5, <1>6, <1>7, <1>8, <1>9

LEMMA QueueInvInductive == QueueInv /\ [Next]_vars => QueueInv'
<1> SUFFICES ASSUME QueueInv, [Next]_vars PROVE QueueInv'
  OBVIOUS
<1>1. ASSUME NEW k \in Keys, NEW v \in Values, Submit(k, v) PROVE QueueInv'
  BY <1>1, SubmitKeepsInv
<1>2. CASE popFront
  BY <1>2, PopKeepsInv
<1>3. CASE Finish
  <2>1. CASE ~ running.canceled /\ Retry
    BY <1>3, <2>1, RetryKeepsInv
  <2>2. CASE Done
    BY <1>3, <2>2, DoneKeepsInv
  <2> QED
    BY <1>3, <2>1, <2>2 DEF Finish
<1> QED
  BY <1>1, <1>2, <1>3, OtherKeepsInv DEF Next

LEMMA QueueInvCorrect == Spec => []QueueInv
BY InitQueueInv, QueueInvInductive, PTL DEF Spec

(* The list, the index by key, the length, the value being executed with   *)
(* its error, the timer and the loop only take values of their types; the  *)
(* length, which Done decrements, never becomes negative (queue.go 15, 40, *)
(* 150).                                                                   *)
THEOREM QueueTypeCorrect == Spec => []TypeOK
<1>1. QueueInv => TypeOK
  BY DEF QueueInv
<1> QED
  BY <1>1, QueueInvCorrect, PTL

(* The list and the references by key stay consistent, whatever submits,   *)
(* retries and Stop do (queue.go 93, 146).                                 *)
THEOREM ListCorrect == Spec => []ListConsistent
<1>1. QueueInv => ListConsistent
  BY DEF QueueInv
<1> QED
  BY <1>1, QueueInvCorrect, PTL

(* Until Stop, exactly one of timer, channel and loop is due to look at a  *)
(* list that is not empty: no value waits for ever (queue.go 99, 161).     *)
THEOREM OneTriggerCorrect == Spec => []OneTrigger
<1>1. QueueInv => OneTrigger
  BY DEF QueueInv
<1> QED
  BY <1>1, QueueInvCorrect, PTL

(* popFront never panics (queue.go 180).                                   *)
THEOREM PopsElementCorrect == Spec => []PopsElement
<1>1. QueueInv => PopsElement
  BY DEF QueueInv
<1> QED
  BY <1>1, QueueInvCorrect, PTL

-----------------------------------------------------------------------------
(* The refinement of Mailbox.  What is pending: the value that waits, else *)
(* the one executed, unless it was canceled.                               *)
Executing(k) == running # None /\ running.key = k /\ ~ running.canceled

PendingFacts ==
  /\ Pending = [k \in Keys |-> Pending[k]]
  /\ \A e \in Range(queue) : e.key \in Keys /\ Pending[e.key] = e.value
  /\ \A k \in Keys \ byKey : Pending[k] = IF Executing(k) THEN running.value ELSE None

LEMMA PendingCases == QueueInv => PendingFacts
<1> SUFFICES ASSUME QueueInv PROVE PendingFacts
  OBVIOUS
<1>1. Pending = [k \in Keys |-> Pending[k]]
  BY DEF Pending
<1>2. ASSUME NEW e \in Range(queue)
      PROVE  e.key \in Keys /\ Pending[e.key] = e.value
  <2>1. PICK i \in DOMAIN queue : queue[i] = e
    BY DEF Range
  <2>2. e.key \in Keys /\ e.key \in QueuedKeys
    <3>1. e \in Pairs
      BY ListFacts, RangeOfSeq
    <3> QED
      BY <2>1, <3>1 DEF QueuedKeys, Pairs
  <2>3. (CHOOSE j \in DOMAIN queue : queue[j].key = e.key) = i
    BY <2>1, ListFacts DEF KeysDiffer
  <2> QED
    BY <2>1, <2>2, <2>3 DEF Pending
<1>3. ASSUME NEW k \in Keys \ byKey
      PROVE  Pending[k] = IF Executing(k) THEN running.value ELSE None
  BY DEF QueueInv, ListConsistent, Pending, Executing
<1> QED
  BY <1>1, <1>2, <1>3 DEF PendingFacts

LEMMA PendingCasesNext == QueueInv' => PendingFacts'
BY PendingCases, PTL

(* Two functions with domain Keys that agree are equal.                    *)
LEMMA SamePending ==
  ASSUME NEW f, NEW g, f = [k \in Keys |-> f[k]], g = [k \in Keys |-> g[k]],
         \A k \in Keys : f[k] = g[k]
  PROVE  f = g
BY [k \in Keys |-> f[k]] = [k \in Keys |-> g[k]]

LEMMA SubmitRefines ==
  ASSUME QueueInv, QueueInv', NEW k \in Keys, NEW v \in Values, Submit(k, v)
  PROVE  Promise!Submit(k, v)
<1> DEFINE after == [Pending EXCEPT ![k] = v]
<1>1. PendingFacts /\ PendingFacts'
  BY PendingCases, PendingCasesNext
<1>2. Range(queue)' = { e \in Range(queue) : e.key # k } \cup { Pair(k, v) }
  BY SubmitKeepsInv
<1>3. ASSUME NEW l \in Keys
      PROVE  Pending'[l] = after[l]
  <2>1. CASE l = k
    <3>1. Pair(k, v) \in Range(queue)' /\ Pair(k, v).key = k /\ Pair(k, v).value = v
      BY <1>2 DEF Pair
    <3> QED
      BY <1>1, <2>1, <3>1 DEF PendingFacts
  <2>2. CASE l # k /\ l \in byKey
    <3>1. PICK e \in Range(queue) : e.key = l
      BY <2>2, ListFacts
    <3>2. e \in Range(queue)'
      BY <1>2, <2>2, <3>1
    <3> QED
      BY <1>1, <2>2, <3>1, <3>2 DEF PendingFacts
  <2>3. CASE l # k /\ l \notin byKey
    <3>1. l \notin byKey'
      BY <2>3 DEF Submit
    <3>2. Executing(l)' = Executing(l) /\ (Executing(l) => running'.value = running.value)
      BY <2>3, Canceled DEF Submit, Executing
    <3> QED
      BY <1>1, <2>3, <3>1, <3>2 DEF PendingFacts
  <2> QED
    BY <2>1, <2>2, <2>3
<1>4. Pending' = after
  <2>1. after = [l \in Keys |-> after[l]]
    BY <1>1 DEF PendingFacts
  <2> QED
    BY <1>1, <1>3, <2>1, SamePending DEF PendingFacts
<1> QED
  BY <1>4 DEF Promise!Submit, Submit

LEMMA PopRefines ==
  ASSUME QueueInv, QueueInv', popFront
  PROVE  \E k \in Keys : Promise!Start(k)
<1> DEFINE h == Head(queue)
<1>1. PendingFacts /\ PendingFacts'
  BY PendingCases, PendingCasesNext
<1>2. /\ h \in Range(queue)
      /\ h.key \in Keys
      /\ h.value \in Values
      /\ Range(queue)' = { e \in Range(queue) : e.key # h.key }
      /\ running' # None
  BY PopKeepsInv DEF Pairs
<1>3. /\ running = None
      /\ running' = [key |-> h.key, value |-> h.value, canceled |-> FALSE]
      /\ byKey' = byKey \ {h.key}
  BY DEF popFront, QueueInv, ListConsistent
<1>4. Pending[h.key] = h.value /\ h.value # None
  BY <1>1, <1>2, QueueAssumption DEF PendingFacts
<1> HIDE DEF h
<1>5. ASSUME NEW l \in Keys
      PROVE  Pending'[l] = Pending[l]
  <2>1. CASE l = h.key
    BY <1>1, <1>2, <1>3, <1>4, <2>1 DEF PendingFacts, Executing
  <2>2. CASE l # h.key /\ l \in byKey
    <3>1. PICK e \in Range(queue) : e.key = l
      BY <2>2, ListFacts
    <3> QED
      BY <1>1, <1>2, <2>2, <3>1 DEF PendingFacts
  <2>3. CASE l # h.key /\ l \notin byKey
    BY <1>1, <1>3, <2>3 DEF PendingFacts, Executing
  <2> QED
    BY <2>1, <2>2, <2>3
<1>6. Pending' = Pending
  BY <1>1, <1>5, SamePending DEF PendingFacts
<1>7. Promise!Start(h.key)
  BY <1>3, <1>4, <1>6 DEF Promise!Start, popFront
<1> QED
  BY <1>2, <1>7

(* A list that does not change keeps what is pending, but for the value    *)
(* executed.                                                               *)
LEMMA SameList ==
  ASSUME QueueInv, QueueInv', queue' = queue, NEW l \in Keys,
         Executing(l)' <=> Executing(l), Executing(l) => running'.value = running.value
  PROVE  Pending'[l] = Pending[l]
<1>1. PendingFacts /\ PendingFacts'
  BY PendingCases, PendingCasesNext
<1>2. Range(queue)' = Range(queue) /\ byKey' = byKey
  BY DEF QueueInv, ListConsistent, QueuedKeys, Range
<1>3. CASE l \in byKey
  <2>1. PICK e \in Range(queue) : e.key = l
    BY <1>3, ListFacts
  <2> QED
    BY <1>1, <1>2, <2>1 DEF PendingFacts
<1>4. CASE l \notin byKey
  BY <1>1, <1>2, <1>4 DEF PendingFacts
<1> QED
  BY <1>3, <1>4

LEMMA RetryRefines ==
  ASSUME QueueInv, QueueInv', Finish, Retry, err = "error", ~ running.canceled
  PROVE  Promise!Fail
<1>1. PendingFacts /\ PendingFacts'
  BY PendingCases, PendingCasesNext
<1>2. /\ running # None
      /\ running.key \in Keys \ byKey
      /\ running' = None
  BY DEF QueueInv, NewerCancels, TypeOK, ListConsistent, Finish
<1>3. /\ Range(queue)' = Range(queue) \cup { Pair(running.key, running.value) }
      /\ byKey' = byKey \cup {running.key}
  BY <1>2, RetryKeepsInv DEF Retry
<1>4. ASSUME NEW l \in Keys
      PROVE  Pending'[l] = Pending[l]
  <2>1. CASE l = running.key
    <3>1. Pair(running.key, running.value) \in Range(queue)'
      BY <1>3
    <3>2. Pending'[l] = running.value
      BY <1>1, <2>1, <3>1 DEF PendingFacts, Pair
    <3>3. Pending[l] = running.value
      BY <1>1, <1>2, <2>1 DEF PendingFacts, Executing
    <3> QED
      BY <3>2, <3>3
  <2>2. CASE l # running.key /\ l \in byKey
    <3>1. PICK e \in Range(queue) : e.key = l
      BY <2>2, ListFacts
    <3> QED
      BY <1>1, <1>3, <3>1 DEF PendingFacts
  <2>3. CASE l # running.key /\ l \notin byKey
    BY <1>1, <1>2, <1>3, <2>3 DEF PendingFacts, Executing
  <2> QED
    BY <2>1, <2>2, <2>3
<1>5. Pending' = Pending
  BY <1>1, <1>4, SamePending DEF PendingFacts
<1> QED
  BY <1>2, <1>5 DEF Promise!Fail, Finish

LEMMA DoneRefines ==
  ASSUME QueueInv, QueueInv', Finish, Done, err = "nil" \/ running.canceled
  PROVE  Promise!Succeed \/ Promise!Fail
<1>1. PendingFacts /\ PendingFacts'
  BY PendingCases, PendingCasesNext
<1>2. /\ running # None
      /\ running.key \in Keys
      /\ running' = None
      /\ queue' = queue /\ byKey' = byKey
      /\ err \in {"nil", "error"}
  BY DEF QueueInv, TypeOK, ListConsistent, ResultKnown, Finish, Done
<1>3. CASE running.canceled
  <2>1. \A l \in Keys : ~ Executing(l) /\ ~ Executing(l)'
    BY <1>2, <1>3 DEF Executing
  <2>2. Pending' = Pending
    <3>1. \A l \in Keys : Pending'[l] = Pending[l]
      BY <1>2, <2>1, SameList
    <3> QED
      BY <1>1, <3>1, SamePending DEF PendingFacts
  <2> QED
    BY <1>2, <1>3, <2>2 DEF Promise!Succeed, Promise!Fail, Finish
<1>4. CASE ~ running.canceled
  <2> DEFINE after == [Pending EXCEPT ![running.key] = None]
  <2>1. running.key \notin byKey
    BY <1>2, <1>4 DEF QueueInv, NewerCancels
  <2>2. ASSUME NEW l \in Keys
        PROVE  Pending'[l] = after[l]
    <3>1. CASE l = running.key
      BY <1>1, <1>2, <2>1, <3>1 DEF PendingFacts, Executing
    <3>2. CASE l # running.key
      <4>1. ~ Executing(l) /\ ~ Executing(l)'
        BY <1>2, <3>2 DEF Executing
      <4>2. Pending'[l] = Pending[l]
        BY <1>2, <4>1, SameList
      <4> QED
        BY <1>1, <3>2, <4>2 DEF PendingFacts
    <3> QED
      BY <3>1, <3>2
  <2>3. Pending' = after
    <3>1. after = [l \in Keys |-> after[l]]
      BY <1>1 DEF PendingFacts
    <3> QED
      BY <1>1, <2>2, <3>1, SamePending DEF PendingFacts
  <2> QED
    BY <1>2, <1>4, <2>3 DEF Promise!Succeed, Finish
<1> QED
  BY <1>3, <1>4

(* Stop abandons a value that is executed, unless it was canceled before.  *)
LEMMA CancelRefines ==
  ASSUME QueueInv, QueueInv', StopCancel
  PROVE  Promise!Abandon \/ UNCHANGED Promise!vars
<1>1. PendingFacts /\ PendingFacts'
  BY PendingCases, PendingCasesNext
<1>2. /\ queue' = queue /\ byKey' = byKey
      /\ shutdown /\ shutdown' = shutdown /\ err' = err
  BY DEF StopCancel, QueueInv, ResultKnown
<1>3. CASE running = None \/ running.canceled
  <2>1. running' = running
    <3>1. ASSUME running # None, running.canceled
          PROVE  [running EXCEPT !.canceled = TRUE] = running
      <4>1. running \in [key : Keys, value : Values, canceled : BOOLEAN]
        BY <3>1 DEF QueueInv, TypeOK
      <4> QED
        BY <3>1, <4>1
    <3> QED
      BY <1>3, <3>1 DEF StopCancel
  <2>2. \A l \in Keys : Pending'[l] = Pending[l]
    BY <1>2, <2>1, SameList DEF Executing
  <2> QED
    BY <1>1, <1>2, <2>1, <2>2, SamePending DEF PendingFacts, Promise!vars
<1>4. CASE running # None /\ ~ running.canceled
  <2> DEFINE after == [Pending EXCEPT ![running.key] = None]
  <2>1. /\ running' = [running EXCEPT !.canceled = TRUE]
        /\ running'.canceled
        /\ running.key \in Keys \ byKey
    BY <1>4, Canceled DEF StopCancel, QueueInv, TypeOK, NewerCancels
  <2>2. ASSUME NEW l \in Keys
        PROVE  Pending'[l] = after[l]
    <3>1. CASE l = running.key
      BY <1>1, <1>2, <2>1, <3>1 DEF PendingFacts, Executing
    <3>2. CASE l # running.key
      <4>1. ~ Executing(l) /\ ~ Executing(l)'
        BY <1>4, <2>1, <3>2 DEF Executing
      <4>2. Pending'[l] = Pending[l]
        BY <1>2, <4>1, SameList
      <4> QED
        BY <1>1, <3>2, <4>2 DEF PendingFacts
    <3> QED
      BY <3>1, <3>2
  <2>3. Pending' = after
    <3>1. after = [l \in Keys |-> after[l]]
      BY <1>1 DEF PendingFacts
    <3> QED
      BY <1>1, <2>2, <3>1, SamePending DEF PendingFacts
  <2> QED
    BY <1>2, <1>4, <2>1, <2>3 DEF Promise!Abandon
<1> QED
  BY <1>3, <1>4

(* The timer, the select statements and the rest of Stop change nothing    *)
(* that was promised.                                                      *)
LEMMA OtherRefines ==
  ASSUME QueueInv, QueueInv',
         TimerFires \/ SelectTimer \/ SelectShutdown \/ CheckShutdown \/ StopWait \/ UNCHANGED vars
  PROVE  UNCHANGED Promise!vars
<1>1. UNCHANGED << queue, running, err, shutdown >>
  BY DEF TimerFires, SelectTimer, SelectShutdown, CheckShutdown, StopWait, vars
<1>2. Pending' = Pending
  BY <1>1 DEF Pending, QueuedKeys
<1> QED
  BY <1>1, <1>2 DEF Promise!vars

LEMMA StepRefines == QueueInv /\ QueueInv' /\ [Next]_vars => [Promise!Next]_(Promise!vars)
<1> SUFFICES ASSUME QueueInv, QueueInv', [Next]_vars
             PROVE  Promise!Next \/ UNCHANGED Promise!vars
  OBVIOUS
<1>1. ASSUME NEW k \in Keys, NEW v \in Values, Submit(k, v)
      PROVE  Promise!Next
  BY <1>1, SubmitRefines DEF Promise!Next
<1>2. CASE popFront
  BY <1>2, PopRefines DEF Promise!Next
<1>3. ASSUME NEW e \in {"nil", "error"}, Return(e)
      PROVE  Promise!Next
  <2>1. UNCHANGED << queue, running, shutdown >> /\ err' = e
    BY <1>3 DEF Return
  <2>2. Pending' = Pending
    BY <2>1 DEF Pending, QueuedKeys
  <2>3. running # None /\ err = "none"
    BY <1>3 DEF Return, QueueInv, ListConsistent, ResultKnown
  <2>4. Promise!Return(e)
    BY <2>1, <2>2, <2>3 DEF Promise!Return
  <2> QED
    BY <2>4 DEF Promise!Next
<1>4. CASE Finish
  <2>1. CASE err = "error" /\ ~ running.canceled /\ Retry
    BY <1>4, <2>1, RetryRefines DEF Promise!Next
  <2>2. CASE (err = "nil" \/ running.canceled) /\ Done
    BY <1>4, <2>2, DoneRefines DEF Promise!Next
  <2> QED
    BY <1>4, <2>1, <2>2 DEF Finish
<1>5. CASE StopClose
  <2>1. UNCHANGED << queue, running, err >> /\ shutdown'
    BY <1>5 DEF StopClose
  <2>2. Pending' = Pending
    BY <2>1 DEF Pending, QueuedKeys
  <2>3. Promise!Stop
    BY <1>5, <2>1, <2>2 DEF Promise!Stop, StopClose
  <2> QED
    BY <2>3 DEF Promise!Next
<1>6. CASE StopCancel
  BY <1>6, CancelRefines DEF Promise!Next
<1> QED
  BY <1>1, <1>2, <1>3, <1>4, <1>5, <1>6, OtherRefines DEF Next

LEMMA InitRefines == Init => Promise!Init
<1> SUFFICES ASSUME Init PROVE Promise!Init
  OBVIOUS
<1>1. PendingFacts /\ byKey = {} /\ running = None
  BY InitQueueInv, PendingCases DEF Init
<1>2. Pending = [k \in Keys |-> None]
  BY <1>1 DEF PendingFacts, Executing
<1> QED
  BY <1>2 DEF Init, Promise!Init

(* The queue keeps the promise of Mailbox, on which CoordinatorLoop and    *)
(* Broadcast build: the last value submitted for a key is pending until    *)
(* its execution succeeds (queue.go 13).                                   *)
THEOREM MailboxRefined == Spec => RefinesMailbox
BY QueueInvCorrect, InitRefines, StepRefines, PTL DEF Spec, RefinesMailbox, Promise!Spec
=============================================================================
