------------------------------- MODULE Pools -------------------------------
(***************************************************************************)
(* What a set of buffer pools promises, whatever lists it keeps: a buffer  *)
(* is handed out only while nobody has it, and the memory of a pool goes   *)
(* away only when none of its buffers is out.                              *)
(***************************************************************************)
CONSTANT Bufs

VARIABLES
    live,   \* the buffers that exist
    out     \* the buffers that are with the application

vars == <<live, out>>

Init == live \subseteq Bufs /\ out = {}

Get(b)     == b \in live \ out /\ out' = out \cup {b} /\ UNCHANGED live
Put(b)     == b \in out /\ out' = out \ {b} /\ UNCHANGED live
Create(B)  == B # {} /\ B \cap live = {} /\ live' = live \cup B /\ UNCHANGED out
Destroy(B) == B \cap out = {} /\ live' = live \ B /\ UNCHANGED out

Next == \/ \E b \in live : Get(b) \/ Put(b)
        \/ Create(live' \ live)
        \/ Destroy(live \ live')

Spec == Init /\ [][Next]_vars
============================================================================
