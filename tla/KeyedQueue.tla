------------------------------ MODULE KeyedQueue ------------------------------
(***************************************************************************)
(* The queue through which a validator broadcasts its transactions and     *)
(* proposes its parents (pkg/decoo/queue/queue.go).  One goroutine, the    *)
(* loop, takes the values off the queue and executes them; anybody may     *)
(* submit at any time; one goroutine calls Stop.                           *)
(*                                                                         *)
(* Everything done while the mutex is held is one action.  The loop is     *)
(* interrupted between two of them at                                      *)
(*     select   waiting for the timer or the shutdown channel              *)
(*     check    in process, before it looks at the shutdown channel        *)
(*     pop      before popFront takes the mutex                            *)
(*     execute  in the callback f                                          *)
(*     finish   before process takes the mutex again                       *)
(* and ends at return.  Time is not modelled: an armed timer may fire.     *)
(* A timer is armed, or has fired into its channel, which holds one value  *)
(* that Reset does not remove.                                             *)
(***************************************************************************)
EXTENDS Naturals, Sequences, SequencesExt

CONSTANTS
    Keys, Values, None,
    MaxSubmits     \* bound: the number of values submitted

VARIABLES
    queue,      \* the list: sequence of [key, value]
    byKey,      \* the keys that reference an element of the list
    len,        \* the field len
    running,    \* the value executed, [key, value, canceled], or None
    armed,      \* the timer is running
    err,        \* what the last callback returned: "none", "nil" or "error"
    timerC,     \* the timer's channel holds a value
    shutdown,   \* the shutdown channel is closed
    loop,       \* where the loop is
    stop,       \* where the goroutine that calls Stop is
    submits     \* number of values submitted so far

vars == << queue, byKey, len, running, err, armed, timerC, shutdown, loop, stop, submits >>

ASSUME QueueAssumption ==
    /\ None \notin Keys \cup Values
    /\ None \notin [key : Keys, value : Values, canceled : BOOLEAN]
    /\ MaxSubmits \in Nat

Pair(k, v) == [key |-> k, value |-> v]

QueuedKeys == { queue[i].key : i \in DOMAIN queue }

-----------------------------------------------------------------------------
(* New: the timer is stopped and the loop is started.                      *)
Init ==
    /\ queue = << >>
    /\ byKey = {}
    /\ len = 0
    /\ running = None
    /\ err = "none"
    /\ armed = FALSE
    /\ timerC = FALSE
    /\ shutdown = FALSE
    /\ loop = "select"
    /\ stop = "none"
    /\ submits = 0

(* The list without the element of a key, if the key references one.       *)
Unlinked(k) ==
    IF k \in byKey
    THEN RemoveAt(queue, CHOOSE i \in DOMAIN queue : queue[i].key = k)
    ELSE queue

(* Mutant: the timer is reset for every value.                             *)
SubmitRearming(k, v) ==
    /\ submits < MaxSubmits
    /\ submits' = submits + 1
    /\ armed' = TRUE
    /\ running' = IF running # None /\ running.key = k
                  THEN [running EXCEPT !.canceled = TRUE]
                  ELSE running
    /\ queue' = Append(Unlinked(k), Pair(k, v))
    /\ len' = IF k \in byKey THEN len ELSE len + 1
    /\ byKey' = byKey \cup {k}
    /\ UNCHANGED << err, timerC, shutdown, loop, stop >>

Submit(k, v) ==
    /\ submits < MaxSubmits
    /\ submits' = submits + 1
    /\ armed' = (armed \/ len = 0)
    /\ running' = IF running # None /\ running.key = k
                  THEN [running EXCEPT !.canceled = TRUE]
                  ELSE running
    /\ queue' = Append(Unlinked(k), Pair(k, v))
    /\ len' = IF k \in byKey THEN len ELSE len + 1
    /\ byKey' = byKey \cup {k}
    /\ UNCHANGED << err, timerC, shutdown, loop, stop >>

(* The runtime delivers the timer.                                         *)
TimerFires ==
    /\ armed
    /\ armed' = FALSE
    /\ timerC' = TRUE
    /\ UNCHANGED << queue, byKey, len, running, err, shutdown, loop, stop, submits >>

(* The select statement of loop: any case that is ready may be taken.      *)
SelectTimer ==
    /\ loop = "select"
    /\ timerC
    /\ timerC' = FALSE
    /\ loop' = "check"
    /\ UNCHANGED << queue, byKey, len, running, err, armed, shutdown, stop, submits >>

SelectShutdown ==
    /\ loop = "select"
    /\ shutdown
    /\ loop' = "return"
    /\ UNCHANGED << queue, byKey, len, running, err, armed, timerC, shutdown, stop, submits >>

(* The first statement of process.                                         *)
CheckShutdown ==
    /\ loop = "check"
    /\ loop' = IF shutdown THEN "select" ELSE "pop"
    /\ UNCHANGED << queue, byKey, len, running, err, armed, timerC, shutdown, stop, submits >>

(* Mutant: the key keeps its reference.                                    *)
popFrontKeepingKey ==
    /\ loop = "pop"
    /\ loop' = "execute"
    /\ queue' = Tail(queue)
    /\ running' = [key |-> Head(queue).key, value |-> Head(queue).value, canceled |-> FALSE]
    /\ err' = "none"
    /\ UNCHANGED << byKey, len, armed, timerC, shutdown, stop, submits >>

popFront ==
    /\ loop = "pop"
    /\ loop' = "execute"
    /\ queue' = Tail(queue)
    /\ byKey' = byKey \ {Head(queue).key}
    /\ running' = [key |-> Head(queue).key, value |-> Head(queue).value, canceled |-> FALSE]
    /\ err' = "none"
    /\ UNCHANGED << len, armed, timerC, shutdown, stop, submits >>

(* Mutant: a value that is added back is not counted.                      *)
RetryUncounted ==
    /\ armed' = TRUE
    /\ len' = len - 1
    /\ queue' = Append(queue, Pair(running.key, running.value))
    /\ byKey' = byKey \cup {running.key}

(* Mutant: a value that failed is given up.                                *)
RetryGivingUp ==
    /\ armed' = (armed \/ len - 1 > 0)
    /\ len' = len - 1
    /\ UNCHANGED << queue, byKey >>

(* A failed value that was not canceled goes to the back, unless there is  *)
(* a newer one.                                                            *)
Retry ==
    /\ armed' = TRUE
    /\ IF running.key \in byKey
       THEN /\ len' = len - 1
            /\ UNCHANGED << queue, byKey >>
       ELSE /\ queue' = Append(queue, Pair(running.key, running.value))
            /\ byKey' = byKey \cup {running.key}
            /\ UNCHANGED len

(* Mutant: the timer is not restarted for the next value.                  *)
DoneIdle ==
    /\ len' = len - 1
    /\ UNCHANGED << armed, queue, byKey >>

Done ==
    /\ len' = len - 1
    /\ armed' = (armed \/ len - 1 > 0)
    /\ UNCHANGED << queue, byKey >>

(* The callback returns, with an error or without.                         *)
Return(e) ==
    /\ loop = "execute"
    /\ loop' = "finish"
    /\ err' = e
    /\ UNCHANGED << queue, byKey, len, running, armed, timerC, shutdown, stop, submits >>

(* The rest of process.                                                    *)
Finish ==
    /\ loop = "finish"
    /\ \/ err = "error" /\ ~ running.canceled /\ Retry
       \/ (err = "nil" \/ running.canceled) /\ Done
    /\ running' = None
    /\ loop' = "select"
    /\ UNCHANGED << err, timerC, shutdown, stop, submits >>

(* Stop: close the channel, cancel under the mutex, wait for the loop and  *)
(* stop the timer.                                                         *)

(* Mutant: the shutdown channel is not closed.                             *)
StopOpen ==
    /\ stop = "none"
    /\ stop' = "closed"
    /\ UNCHANGED << queue, byKey, len, running, err, armed, timerC, shutdown, loop, submits >>

StopClose ==
    /\ stop = "none"
    /\ stop' = "closed"
    /\ shutdown' = TRUE
    /\ UNCHANGED << queue, byKey, len, running, err, armed, timerC, loop, submits >>

StopCancel ==
    /\ stop = "closed"
    /\ stop' = "wait"
    /\ running' = IF running = None THEN None ELSE [running EXCEPT !.canceled = TRUE]
    /\ UNCHANGED << queue, byKey, len, err, armed, timerC, shutdown, loop, submits >>

StopWait ==
    /\ stop = "wait"
    /\ loop = "return"
    /\ stop' = "stopped"
    /\ armed' = FALSE
    /\ UNCHANGED << queue, byKey, len, running, err, timerC, shutdown, loop, submits >>

Next ==
    \/ \E k \in Keys, v \in Values : Submit(k, v)
    \/ TimerFires
    \/ SelectTimer
    \/ SelectShutdown
    \/ CheckShutdown
    \/ popFront
    \/ \E e \in {"nil", "error"} : Return(e)
    \/ Finish
    \/ StopClose
    \/ StopCancel
    \/ StopWait

Spec == Init /\ [][Next]_vars

(* The loop, the timer and the goroutine in Stop make progress, and a      *)
(* callback returns at some point, with or without an error.  Nobody has   *)
(* to submit or to stop, and nothing has to succeed.                       *)
Fairness ==
    /\ WF_vars(TimerFires)
    /\ WF_vars(SelectTimer \/ SelectShutdown \/ CheckShutdown \/ popFront \/ Finish)
    /\ WF_vars(\E e \in {"nil", "error"} : Return(e))
    /\ WF_vars(StopCancel \/ StopWait)

FairSpec == Spec /\ Fairness

-----------------------------------------------------------------------------
(* Types.                                                                  *)
TypeOK ==
    /\ queue \in Seq([key : Keys, value : Values])
    /\ byKey \subseteq Keys
    /\ len \in Nat
    /\ running \in [key : Keys, value : Values, canceled : BOOLEAN] \cup {None}
    /\ err \in {"none", "nil", "error"}
    /\ armed \in BOOLEAN
    /\ timerC \in BOOLEAN
    /\ shutdown \in BOOLEAN
    /\ loop \in {"select", "check", "pop", "execute", "finish", "return"}
    /\ stop \in {"none", "closed", "wait", "stopped"}
    /\ submits \in 0 .. MaxSubmits

(* The list holds at most one element per key, byKey references exactly    *)
(* the elements of the list, and len counts them and the value executed.   *)
ListConsistent ==
    /\ \A i, j \in DOMAIN queue : queue[i].key = queue[j].key => i = j
    /\ byKey = QueuedKeys
    /\ len = Len(queue) + (IF loop \in {"execute", "finish"} THEN 1 ELSE 0)
    /\ (running # None) = (loop \in {"execute", "finish"})

(* What will make the loop look at the queue again.                        *)
Triggers ==
    { t \in {"armed", "fired", "busy"} :
        \/ t = "armed" /\ armed
        \/ t = "fired" /\ timerC
        \/ t = "busy" /\ loop \in {"check", "pop", "execute", "finish"} }

(* Until the queue is stopped there is exactly one trigger while something *)
(* is to be done, and none otherwise: no value waits for ever, and the     *)
(* loop is never triggered twice for one value (queue.go 99, 161, 167).    *)
OneTrigger ==
    ~ shutdown => IF len = 0 THEN Triggers = {} ELSE \E t \in Triggers : Triggers = {t}

(* popFront never meets an empty list, on which it would panic, not even   *)
(* while the queue is being stopped (queue.go 180).                        *)
PopsElement == loop = "pop" => queue # << >>

(* A value that is executed although a newer one of its key waits has been *)
(* canceled: Submit replaces both.                                         *)
NewerCancels == running # None /\ running.key \in byKey => running.canceled

(* What the program counters say about the result and the channel.         *)
ResultKnown ==
    /\ loop = "execute" => err = "none"
    /\ loop = "finish" => err # "none"
    /\ stop # "none" => shutdown

(* Inductive.                                                              *)
QueueInv ==
    /\ TypeOK
    /\ ListConsistent
    /\ OneTrigger
    /\ PopsElement
    /\ NewerCancels
    /\ ResultKnown

(* The queue keeps the promise of Mailbox: whatever the interleaving of    *)
(* submits, executions, retries, cancellations and Stop, the last value    *)
(* submitted for a key is executed until it succeeds.                      *)
Pending ==
    [ k \in Keys |->
        IF k \in QueuedKeys
        THEN queue[CHOOSE i \in DOMAIN queue : queue[i].key = k].value
        ELSE IF running # None /\ running.key = k /\ ~ running.canceled
             THEN running.value
             ELSE None ]

Promise == INSTANCE Mailbox
             WITH pending <- Pending, executing <- running, result <- err,
                  stopped <- shutdown

RefinesMailbox == Promise!Spec

(* A value that waits is executed, whatever else fails and is retried, if  *)
(* submits of the same key do not go on for ever.                          *)
QueuedIsExecuted ==
    \A k \in Keys : k \in byKey ~> (running # None /\ running.key = k) \/ shutdown

(* Stop returns if callbacks do.                                           *)
StopReturns == stop # "none" ~> stop = "stopped"
=============================================================================
