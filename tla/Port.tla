-------------------------------- MODULE Port --------------------------------
(***************************************************************************)
(* The ports of port/src/port.c: each has slots for the ports below it,    *)
(* and PORT_Dispatch hands a call to a port and then to those below it, in *)
(* the order of the slots, until one of them fails.  PORT_Dispatch calls   *)
(* itself: here it is one step per port, over a stack of ports to come.  A *)
(* handler may destroy ports while the dispatch goes on; that ports cannot *)
(* be added then is said beside T_PortHandle (port.h).                     *)
(***************************************************************************)
EXTENDS Integers, Sequences, SequencesExt

CONSTANTS
    Ports,
    SlotMax,    \* PORT_ARRAY_MAX
    None        \* NULL

PortConstants == SlotMax \in Nat \ {0} /\ None \notin Ports

VARIABLES
    list,      \* in_apPortList of every port
    master,    \* in_pMaster
    slot,      \* m_u32Slot
    todo,      \* the ports a dispatch has still to call, the next one first
    called,    \* the ports it has called, in order
    failed,    \* a handler returned an error
    own        \* history: the ports whose PORT_Connect succeeded, until they are destroyed or
               \* the PORT_Destroy of a port that is not one of them takes their slot

vars == <<list, master, slot, todo, called, failed, own>>

Init ==
    /\ list = [p \in Ports |-> [i \in 1..SlotMax |-> None]]
    /\ master = [p \in Ports |-> None] /\ slot = [p \in Ports |-> 1]
    /\ todo = <<>> /\ called = <<>> /\ failed = FALSE /\ own = {}

Idle == todo = <<>>
ToCome(v) == {i \in 1..Len(todo) : todo[i] = v}
Free(m) == {i \in 1..SlotMax : list[m][i] = None}
First(S) == CHOOSE i \in S : \A j \in S : i <= j

\* p is q or below it: every set with q and all that is connected to its
\* members has p.
Below(p, q) ==
    \A D \in SUBSET Ports :
        q \in D /\ (\A x \in Ports : master[x] \in D => x \in D) => p \in D

\* PORT_Connect sets the master before it looks for a slot, and keeps it when
\* there is none.  A port that stands in a slot is not connected, and none below
\* itself, as the masters are remembered.
Connect(m, p) ==
    /\ Idle /\ (\A q \in Ports, i \in 1..SlotMax : list[q][i] # p) /\ ~Below(m, p)
    /\ master' = [master EXCEPT ![p] = m]
    /\ IF Free(m) = {} THEN own' = own \ {p} /\ UNCHANGED <<list, slot>>
       ELSE /\ list' = [list EXCEPT ![m][First(Free(m))] = p]
            /\ slot' = [slot EXCEPT ![p] = First(Free(m))]
            /\ own' = own \cup {p}
    /\ called' = <<>> /\ failed' = FALSE /\ UNCHANGED todo

\* PORT_Destroy clears the slot the port remembers, whoever stands in it now;
\* in_pMaster stays.  A dispatch that runs has not read the slots of the ports that
\* are still to come, so it no longer meets the one that stood there.
Destroy(p) ==
    /\ master[p] # None /\ (todo # <<>> => called # <<>>)
    /\ LET v == list[master[p]][slot[p]]
       IN  /\ todo' = IF ToCome(v) = {} THEN todo ELSE RemoveAt(todo, First(ToCome(v)))
           /\ own' = own \ {IF p \in own THEN p ELSE v}
    /\ list' = [list EXCEPT ![master[p]][slot[p]] = None]
    /\ UNCHANGED <<master, slot, called, failed>>

\* The loop over the slots: the ports in the first n of them, in order.
SubsUpTo(p) ==
    LET loop[n \in 0..SlotMax] ==
            IF n = 0 THEN <<>>
            ELSE IF list[p][n] = None THEN loop[n - 1]
            ELSE Append(loop[n - 1], list[p][n])
    IN  loop
Subs(p) == SubsUpTo(p)[SlotMax]
Dispatch(p) ==
    /\ Idle
    /\ todo' = <<p>> /\ called' = <<>> /\ failed' = FALSE
    /\ UNCHANGED <<list, master, slot, own>>
\* One handler, and with it the loop over the port's slots.
HandleLate(ok) ==                                                \* mutant
    /\ todo # <<>>
    /\ called' = Append(called, Head(todo))
    /\ todo' = IF ok THEN Tail(todo) \o Subs(Head(todo)) ELSE <<>>
    /\ failed' = ~ok
    /\ UNCHANGED <<list, master, slot, own>>
Handle(ok) ==
    /\ todo # <<>>
    /\ called' = Append(called, Head(todo))
    /\ todo' = IF ok THEN Subs(Head(todo)) \o Tail(todo) ELSE <<>>
    /\ failed' = ~ok
    /\ UNCHANGED <<list, master, slot, own>>

Next ==
    \/ \E p \in Ports : Destroy(p) \/ Dispatch(p) \/ \E m \in Ports : Connect(m, p)
    \/ \E ok \in BOOLEAN : Handle(ok)

Spec == Init /\ [][Next]_vars

----------------------------------------------------------------------------
Listed(p) == master[p] # None /\ \E i \in 1..SlotMax : list[master[p]][i] = p

\* A port stands in the one slot it remembers, of the master it remembers.
SlotsAgree ==
    \A m, p \in Ports, i \in 1..SlotMax :
        list[m][i] = p => master[p] = m /\ slot[p] = i

\* A port whose connection succeeded stands in its slot until it is destroyed:
\* nobody's place is given away.  Only the PORT_Destroy of a port that is not
\* connected (refused for want of a slot, or destroyed before) takes another's.
OwnSlots == \A p \in own : master[p] # None /\ list[master[p]][slot[p]] = p

\* A dispatch calls no port twice, a port only after its master and before
\* anything in a later slot, and, unless a handler fails, all of them that are
\* not destroyed before it comes to them.
DispatchInOrder ==
    /\ IsInjective(called \o todo)
    /\ \A i \in 2..Len(called) :
          /\ \E j \in 1..i-1 : called[j] = master[called[i]]
          /\ \A j \in 2..i-1 : master[called[j]] = master[called[i]] => slot[called[j]] < slot[called[i]]
          /\ master[called[i]] # called[i-1] => ~\E k \in i+1..Len(called) : master[called[k]] = called[i-1]
    /\ called # <<>> /\ todo = <<>> /\ ~failed =>
          \A p \in Ports : Listed(p) /\ Contains(called, master[p]) => Contains(called, p)
============================================================================
