------------------------------- MODULE Mailbox -------------------------------
(***************************************************************************)
(* What a KeyedQueue promises to those who submit values to it (the type   *)
(* comment in pkg/decoo/queue/queue.go), without the queue, the timer and  *)
(* the goroutines:                                                         *)
(*   - at most one value per key is pending, the last one submitted;       *)
(*   - values are executed one at a time;                                  *)
(*   - a pending value stays pending until its execution succeeds or it is *)
(*     replaced, which cancels an execution of the old value;              *)
(*   - only stopping may abandon a value that is being executed.           *)
(***************************************************************************)
CONSTANTS Keys, Values, None

VARIABLES
    pending,     \* key -> value that has not succeeded yet, or None
    executing,   \* None or [key, value, canceled]
    result,      \* of the last execution: "none" yet, "nil" or "error"
    stopped

vars == << pending, executing, result, stopped >>

Init ==
    /\ pending = [k \in Keys |-> None]
    /\ executing = None
    /\ result = "none"
    /\ stopped = FALSE

Submit(k, v) ==
    /\ pending' = [pending EXCEPT ![k] = v]
    /\ executing' = IF executing # None /\ executing.key = k
                    THEN [executing EXCEPT !.canceled = TRUE]
                    ELSE executing
    /\ UNCHANGED << result, stopped >>

Start(k) ==
    /\ executing = None
    /\ pending[k] # None
    /\ executing' = [key |-> k, value |-> pending[k], canceled |-> FALSE]
    /\ result' = "none"
    /\ UNCHANGED << pending, stopped >>

Return(r) ==
    /\ executing # None
    /\ result = "none"
    /\ result' = r
    /\ UNCHANGED << pending, executing, stopped >>

(* A value is given up only after an execution without an error.           *)
Succeed ==
    /\ executing # None
    /\ result = "nil"
    /\ pending' = IF executing.canceled
                  THEN pending ELSE [pending EXCEPT ![executing.key] = None]
    /\ executing' = None
    /\ UNCHANGED << result, stopped >>

Fail ==
    /\ executing # None
    /\ result = "error"
    /\ executing' = None
    /\ UNCHANGED << pending, result, stopped >>

Stop ==
    /\ stopped' = TRUE
    /\ UNCHANGED << pending, executing, result >>

Abandon ==
    /\ stopped
    /\ executing # None
    /\ ~ executing.canceled
    /\ executing' = [executing EXCEPT !.canceled = TRUE]
    /\ pending' = [pending EXCEPT ![executing.key] = None]
    /\ UNCHANGED << result, stopped >>

Next ==
    \/ \E k \in Keys, v \in Values : Submit(k, v)
    \/ \E k \in Keys : Start(k)
    \/ \E r \in {"nil", "error"} : Return(r)
    \/ Succeed
    \/ Fail
    \/ Stop
    \/ Abandon

Spec == Init /\ [][Next]_vars
=============================================================================
