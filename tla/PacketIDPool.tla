---------------------------- MODULE PacketIDPool ----------------------------
(***************************************************************************)
(* What the packet identifier generator promises its users (abstract).     *)
(* An identifier is handed to a packet only while no other packet has it,  *)
(* it is never 0, and it becomes available again when it is freed.         *)
(***************************************************************************)
CONSTANTS IDs,      \* the uint16 values, 0 included
          Callers,  \* the packets that ask for an identifier
          NoExtra   \* "no packet": the identifier is not in use

VARIABLE usedIDs    \* usedIDs[i] is the packet that holds identifier i

Init == usedIDs = [i \in IDs |-> NoExtra]

Acquire(c, i) ==
    /\ i # 0
    /\ usedIDs[i] = NoExtra
    /\ usedIDs' = [usedIDs EXCEPT ![i] = c]

Release(i) ==
    /\ usedIDs[i] # NoExtra
    /\ usedIDs' = [usedIDs EXCEPT ![i] = NoExtra]

Next == \E i \in IDs : Release(i) \/ \E c \in Callers : Acquire(c, i)

Spec == Init /\ [][Next]_usedIDs
=============================================================================
