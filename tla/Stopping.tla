------------------------------ MODULE Stopping ------------------------------
(***************************************************************************)
(* How the coordinator stops: Stop, Wait and stopOnPanic                   *)
(* (pkg/decoo/coordinator.go, app.go), and the worker that starts it and   *)
(* waits for it (components/decoo/component.go).                           *)
(*                                                                         *)
(* Tendermint runs in the same process and calls the application through   *)
(* its local client, which has one mutex for the consensus and the mempool *)
(* connection.  The callers, the broadcast queue and the proposer, wait    *)
(* for that mutex in BroadcastTxSync.  A goroutine is where it is in its   *)
(* code; what it computes is left to the other modules.                    *)
(***************************************************************************)
EXTENDS Naturals

CONSTANT Nobody

VARIABLES
    mutex,      \* of the local client: "consensus" or Nobody
    consensus,  \* "idle", "executing" a block, "stopping" after a panic, "ended"
    caller,     \* queue -> "idle", "calling" BroadcastTxSync or "ended"
    shutdown,   \* the queues that have been told to stop
    stopOnce,   \* who executes Stop; Nobody before, "done" after
    canceled,   \* the context of the coordinator
    waiter,     \* "waiting" for it, "stopping", "node" stop, "ended"
    worker,     \* coordinator "loop", "proposer", "node", "stopping", "ended"
    panicked    \* the waiter has ended the process by a panic

coordinatorVars == << stopOnce, canceled, shutdown >>
vars == << mutex, consensus, caller, coordinatorVars, waiter, worker, panicked >>

Queues == {"broadcastQueue", "proposer"}

Init ==
    /\ mutex = Nobody
    /\ consensus = "idle"
    /\ caller = [q \in Queues |-> "idle"]
    /\ shutdown = {}
    /\ stopOnce = Nobody
    /\ canceled = FALSE
    /\ waiter = "waiting"
    /\ worker = "loop"
    /\ panicked = FALSE

-----------------------------------------------------------------------------
(* The queues.  The local client does not look at the context of a call.   *)
Call(q) ==
    /\ caller[q] = "idle"
    /\ q \notin shutdown
    /\ ~ canceled
    /\ caller' = [caller EXCEPT ![q] = "calling"]
    /\ UNCHANGED << mutex, consensus, coordinatorVars, waiter, worker, panicked >>

CheckTx(q) ==
    /\ caller[q] = "calling"
    /\ mutex = Nobody
    /\ caller' = [caller EXCEPT ![q] = "idle"]
    /\ UNCHANGED << mutex, consensus, coordinatorVars, waiter, worker, panicked >>

QueueEnds(q) ==
    /\ caller[q] = "idle"
    /\ q \in shutdown
    /\ caller' = [caller EXCEPT ![q] = "ended"]
    /\ UNCHANGED << mutex, consensus, coordinatorVars, waiter, worker, panicked >>

-----------------------------------------------------------------------------
(* Stop: the first call cancels and waits for the broadcast queue, every   *)
(* other one waits for the first.                                          *)
StopBegins(goroutine) ==
    /\ stopOnce = Nobody
    /\ stopOnce' = goroutine
    /\ canceled' = TRUE
    /\ shutdown' = shutdown \cup {"broadcastQueue"}
    /\ UNCHANGED << mutex, consensus, caller, waiter, worker, panicked >>

StopReturns ==
    /\ stopOnce \notin {Nobody, "done"}
    /\ caller["broadcastQueue"] = "ended"
    /\ stopOnce' = "done"
    /\ UNCHANGED << mutex, consensus, caller, canceled, shutdown, waiter, worker, panicked >>

(* A block is executed in a call of the local client.  What panics in it   *)
(* goes through stopOnPanic before the call gives the mutex back.          *)
ExecuteBlock ==
    /\ consensus = "idle"
    /\ mutex = Nobody
    /\ consensus' = "executing"
    /\ mutex' = "consensus"
    /\ UNCHANGED << caller, coordinatorVars, waiter, worker, panicked >>

BlockExecuted ==
    /\ consensus = "executing"
    /\ consensus' = "idle"
    /\ mutex' = Nobody
    /\ UNCHANGED << caller, coordinatorVars, waiter, worker, panicked >>

EndBlockPanics ==
    /\ consensus = "executing"
    /\ consensus' = "stopping"
    /\ UNCHANGED << mutex, caller, coordinatorVars, waiter, worker, panicked >>

PanicRaisedAgain ==
    /\ consensus = "stopping"
    /\ stopOnce = "done"
    /\ consensus' = "ended"
    /\ mutex' = Nobody
    /\ UNCHANGED << caller, coordinatorVars, waiter, worker, panicked >>

(* The end of the Tendermint node waits for the end of its consensus.      *)
NodeStop ==
    /\ consensus \in {"idle", "ended"}
    /\ consensus' = "ended"

-----------------------------------------------------------------------------
(* The goroutine that waits for the coordinator: it ends the process,      *)
(* unless the daemon has been stopped.                                     *)
Wait ==
    /\ waiter = "waiting"
    /\ canceled
    /\ waiter' = "stopping"
    /\ UNCHANGED << mutex, consensus, caller, coordinatorVars, worker, panicked >>

WaitReturns ==
    /\ waiter = "stopping"
    /\ stopOnce = "done"
    /\ waiter' = IF worker = "loop" THEN "node" ELSE "ended"
    /\ UNCHANGED << mutex, consensus, caller, coordinatorVars, worker, panicked >>

StoppedUnexpectedly ==
    /\ waiter = "node"
    /\ NodeStop
    /\ waiter' = "ended"
    /\ panicked' = TRUE
    /\ UNCHANGED << mutex, caller, coordinatorVars, worker >>

(* The daemon stops the worker.  The loop waits for the proposer to end.   *)
LoopEnds ==
    /\ worker = "loop"
    /\ worker' = "proposer"
    /\ shutdown' = shutdown \cup {"proposer"}
    /\ UNCHANGED << mutex, consensus, caller, stopOnce, canceled, waiter, panicked >>

WorkerStopsNode ==
    /\ worker = "proposer"
    /\ caller["proposer"] = "ended"
    /\ worker' = "node"
    /\ UNCHANGED << mutex, consensus, caller, coordinatorVars, waiter, panicked >>

WorkerStopsCoordinator ==
    /\ worker = "node"
    /\ NodeStop
    /\ worker' = "stopping"
    /\ UNCHANGED << mutex, caller, coordinatorVars, waiter, panicked >>

WorkerEnds ==
    /\ worker = "stopping"
    /\ stopOnce = "done"
    /\ worker' = "ended"
    /\ UNCHANGED << mutex, consensus, caller, coordinatorVars, waiter, panicked >>

Stop ==
    \/ consensus = "stopping" /\ StopBegins("consensus")
    \/ worker = "stopping" /\ StopBegins("worker")
    \/ StopReturns

Progress ==
    \/ \E q \in Queues : CheckTx(q) \/ QueueEnds(q)
    \/ BlockExecuted
    \/ Stop
    \/ PanicRaisedAgain
    \/ Wait
    \/ WaitReturns
    \/ StoppedUnexpectedly
    \/ WorkerStopsNode
    \/ WorkerStopsCoordinator
    \/ WorkerEnds

Next ==
    \/ \E q \in Queues : Call(q)
    \/ ExecuteBlock
    \/ EndBlockPanics
    \/ LoopEnds
    \/ Progress

Spec == Init /\ [][Next]_vars

(* Every goroutine runs on as long as it can; a call that waits for the    *)
(* mutex gets it.  Nobody has to call, make a block, panic or shut down.   *)
Fairness ==
    /\ \A q \in Queues : SF_vars(CheckTx(q)) /\ WF_vars(QueueEnds(q))
    /\ WF_vars(BlockExecuted)
    /\ WF_vars(Stop)
    /\ WF_vars(PanicRaisedAgain)
    /\ WF_vars(Wait \/ WaitReturns)
    /\ SF_vars(StoppedUnexpectedly)
    /\ WF_vars(WorkerStopsNode)
    /\ SF_vars(WorkerStopsCoordinator)
    /\ WF_vars(WorkerEnds)

FairSpec == Spec /\ Fairness
-----------------------------------------------------------------------------
(* "stopOnPanic assures that the coordinator is stopped when a panic       *)
(* occurred" (app.go 257): Stop returns.                                   *)
StopsOnPanic == consensus = "stopping" ~> stopOnce = "done"

(* Without a panic a shutdown comes to its end (component.go 301-313),     *)
(* although calls that are waiting for the mutex cannot be canceled.       *)
ShutdownEnds == worker = "proposer" ~> worker = "ended" \/ consensus = "stopping"
=============================================================================
