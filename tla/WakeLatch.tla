----------------------------- MODULE WakeLatch -----------------------------
(***************************************************************************)
(* What DspWakeHandle (womanizer-core/src/wake.rs) promises its users: a   *)
(* latched, coalescing signal.  Any number of wakes before the worker      *)
(* waits collapse into one; a wait returns exactly when a signal is        *)
(* latched, and consumes it; a latched signal is never ignored for ever.   *)
(* How park, unpark and the flag achieve this is DspWakeHandle's business. *)
(***************************************************************************)

VARIABLES
  signal,    \* a wake has been requested and not consumed
  waiting    \* the worker is inside wait()

vars == <<signal, waiting>>

TypeOK == signal \in BOOLEAN /\ waiting \in BOOLEAN

Init == signal = FALSE /\ waiting = FALSE

Wake == signal' = TRUE /\ UNCHANGED waiting

BeginWait == ~waiting /\ waiting' = TRUE /\ UNCHANGED signal

Return == waiting /\ signal /\ waiting' = FALSE /\ signal' = FALSE

(* A new handle for a new worker thread. *)
Rebind == ~waiting /\ signal' = FALSE /\ UNCHANGED waiting

Next == Wake \/ BeginWait \/ Return \/ Rebind

Spec == Init /\ [][Next]_vars /\ WF_vars(Return)

=============================================================================
