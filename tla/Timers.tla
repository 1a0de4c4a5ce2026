------------------------------- MODULE Timers -------------------------------
(***************************************************************************)
(* What the timer heap of oslib/src/timer.c promises, without the heap:    *)
(* every armed entry has a time, a poll starts the callback of an entry    *)
(* that is due and of none that is due later than another one, and an      *)
(* entry that was cancelled or has fired does not fire until it is armed   *)
(* again.                                                                  *)
(***************************************************************************)
EXTENDS Naturals

CONSTANTS Threads, Entries, None

VARIABLES
    due,      \* due[e]: when e is to fire, None while it is not armed
    now,
    running   \* running[t]: the entry whose callback thread t is in

Init ==
    /\ due = [e \in Entries |-> None]
    /\ now = 0
    /\ running = [t \in Threads |-> None]

Armed == {e \in Entries : due[e] # None}

Arm(e) ==
    /\ e \notin Armed
    /\ due'[e] \in Nat
    /\ due' = [due EXCEPT ![e] = due'[e]]
    /\ UNCHANGED <<now, running>>

Disarm(e) ==
    /\ e \in Armed
    /\ due' = [due EXCEPT ![e] = None]
    /\ UNCHANGED <<now, running>>

Fire(t, e) ==
    /\ e \in Armed /\ due[e] <= now
    /\ \A f \in Armed : due[e] <= due[f]
    /\ due' = [due EXCEPT ![e] = None]
    /\ running' = [running EXCEPT ![t] = e]
    /\ UNCHANGED now

Return(t) ==
    /\ running' = [running EXCEPT ![t] = None]
    /\ UNCHANGED <<due, now>>

Tick == now' = now + 1 /\ UNCHANGED <<due, running>>

Next == \/ \E e \in Entries : Arm(e) \/ Disarm(e)
        \/ \E t \in Threads, e \in Entries : Fire(t, e)
        \/ \E t \in Threads : Return(t)
        \/ Tick

Spec == Init /\ [][Next]_<<due, now, running>>
============================================================================
