---------------------------- MODULE PacketStore -----------------------------
(***************************************************************************)
(* What PersistMethod (persist.go) promises its callers (abstract): a map  *)
(* from keys to packets in which a packet is put, removed, or all are      *)
(* destroyed.  A packet that is there is replaced only if the strategy     *)
(* says so, and there are never more packets than fit.                     *)
(***************************************************************************)
CONSTANTS Keys, Packets, NoPacket,
          Fits(_)    \* there is room for the packets of these keys

VARIABLES held,      \* held[k] is the packet of key k, NoPacket if there is none
          replace    \* PersistStrategy.DuplicateReplace

Init == held = [k \in Keys |-> NoPacket] /\ replace \in BOOLEAN

Put(k, p) ==
    /\ held[k] = NoPacket \/ replace
    /\ held' = [held EXCEPT ![k] = p]
    /\ Fits({j \in Keys : held'[j] # NoPacket})

Remove(k) == held' = [held EXCEPT ![k] = NoPacket]

Clear == held' = [k \in Keys |-> NoPacket]

Next ==
    /\ \/ \E k \in Keys : Remove(k) \/ \E p \in Packets : Put(k, p)
       \/ Clear
    /\ UNCHANGED replace

Spec == Init /\ [][Next]_<<held, replace>>
=============================================================================
