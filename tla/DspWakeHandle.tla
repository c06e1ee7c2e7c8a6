--------------------------- MODULE DspWakeHandle ---------------------------
(***************************************************************************)
(* The parking handshake of womanizer-core/src/wake.rs, one step per       *)
(* atomic access.  wake() is a store to pending followed by unpark(); the  *)
(* two are separate steps, so several wakers and the worker interleave     *)
(* between them.  wait() swaps pending and parks while it was false.  The  *)
(* std park/unpark token is persistent and holds one permit, and park may  *)
(* return without one (a spurious wakeup).                                 *)
(***************************************************************************)

CONSTANT Wakers     \* the threads holding a clone of the handle

VARIABLES
  pending,          \* DspWakeHandle::pending
  token,            \* the unpark permit of the worker thread
  waiter,           \* where the worker is: outside wait(), at the swap, or
                    \* at park() after a swap that found false
  waker             \* per waker: idle, or between the store and the unpark

vars == <<pending, token, waiter, waker>>

TypeOK ==
  /\ pending \in BOOLEAN
  /\ token \in BOOLEAN
  /\ waiter \in {"out", "swap", "parked"}
  /\ waker \in [Wakers -> {"idle", "stored"}]

Init ==
  /\ pending = FALSE
  /\ token = FALSE
  /\ waiter = "out"
  /\ waker = [k \in Wakers |-> "idle"]

-----------------------------------------------------------------------------
(* wake(), first half: pending.store(true, Release). *)
Store(k) ==
  /\ waker[k] = "idle"
  /\ pending' = TRUE
  /\ waker' = [waker EXCEPT ![k] = "stored"]
  /\ UNCHANGED <<token, waiter>>

(* Mutant: wake() is the store alone; the worker would have to poll.       *)
UnparkForgotten(k) ==
  /\ waker[k] = "stored"
  /\ waker' = [waker EXCEPT ![k] = "idle"]
  /\ UNCHANGED <<pending, token, waiter>>

(* wake(), second half: worker.unpark() leaves the one permit available. *)
Unpark(k) ==
  /\ waker[k] = "stored"
  /\ token' = TRUE
  /\ waker' = [waker EXCEPT ![k] = "idle"]
  /\ UNCHANGED <<pending, waiter>>

(* The worker calls wait(). *)
BeginWait ==
  /\ waiter = "out"
  /\ waiter' = "swap"
  /\ UNCHANGED <<pending, token, waker>>

(* pending.swap(false, Acquire) found true: wait() returns. *)
SwapTaken ==
  /\ waiter = "swap"
  /\ pending
  /\ pending' = FALSE
  /\ waiter' = "out"
  /\ UNCHANGED <<token, waker>>

(* The swap found false: the next thing the worker does is park(). *)
SwapEmpty ==
  /\ waiter = "swap"
  /\ ~pending
  /\ waiter' = "parked"
  /\ UNCHANGED <<pending, token, waker>>

(* Mutant: wait() trusts park() and does not look at pending again. *)
ReturnFromPark ==
  /\ waiter = "parked"
  /\ token
  /\ token' = FALSE
  /\ waiter' = "out"
  /\ UNCHANGED <<pending, waker>>

(* park() consumes the permit and the while condition is evaluated again. *)
ParkReturns ==
  /\ waiter = "parked"
  /\ token
  /\ token' = FALSE
  /\ waiter' = "swap"
  /\ UNCHANGED <<pending, waker>>

(* park() may return without a permit. *)
SpuriousWakeup ==
  /\ waiter = "parked"
  /\ waiter' = "swap"
  /\ UNCHANGED <<pending, token, waker>>

(* DspWakeHandle::new for a freshly spawned worker thread: a new flag, and *)
(* a thread that has no permit yet.                                        *)
Rebind ==
  /\ waiter = "out"
  /\ \A k \in Wakers : waker[k] = "idle"
  /\ pending' = FALSE
  /\ token' = FALSE
  /\ UNCHANGED <<waiter, waker>>

WaiterStep == SwapTaken \/ SwapEmpty \/ ParkReturns

Next ==
  \/ \E k \in Wakers : Store(k) \/ Unpark(k)
  \/ BeginWait
  \/ WaiterStep
  \/ SpuriousWakeup
  \/ Rebind

(* A runnable thread runs: the worker while wait() is not blocked in park, *)
(* a waker that stored the flag goes on to unpark.  Nobody has to wake.    *)
Fairness ==
  /\ WF_vars(WaiterStep)
  /\ \A k \in Wakers : WF_vars(Unpark(k))

Spec == Init /\ [][Next]_vars /\ Fairness

-----------------------------------------------------------------------------
(* A worker in park() with a wake pending is about to be woken: its permit *)
(* is there, or some waker is between its store and its unpark.  This is   *)
(* the lost-wakeup race wake() and wait() must exclude (the check of the   *)
(* flag and the park are two steps).                                       *)
NoLostWakeup ==
  waiter = "parked" /\ pending => token \/ \E k \in Wakers : waker[k] = "stored"

(* The handle implements the latched signal: wait() returns only when a    *)
(* wake is pending, consumes it, and returns eventually if one is.         *)
Latch == INSTANCE WakeLatch WITH signal <- pending, waiting <- (waiter # "out")
LatchSpec == Latch!Spec

=============================================================================
