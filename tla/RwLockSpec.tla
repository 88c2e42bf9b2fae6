----------------------------- MODULE RwLockSpec -----------------------------
(***************************************************************************)
(* What spin::RwLock promises to the holders of its guards: many readers   *)
(* or one writer, and at most one upgradable guard, which keeps new        *)
(* readers out.  `held[c]` is the guard that client c holds.               *)
(***************************************************************************)

CONSTANT Clients

VARIABLE held

Guards == {"none", "read", "upgradable", "write"}

Holds(S, g) == \E c \in S : held[c] = g

Others(c) == Clients \ {c}

Become(c, g) == held' = [held EXCEPT ![c] = g]

Init == held = [c \in Clients |-> "none"]

Read(c) ==
    /\ held[c] = "none"
    /\ ~Holds(Clients, "write")
    /\ ~Holds(Clients, "upgradable")
    /\ Become(c, "read")

UpgradeableRead(c) ==
    /\ held[c] = "none"
    /\ ~Holds(Clients, "write")
    /\ ~Holds(Clients, "upgradable")
    /\ Become(c, "upgradable")

Write(c) ==
    /\ \A d \in Clients : held[d] = "none"
    /\ Become(c, "write")

Upgrade(c) ==
    /\ held[c] = "upgradable"
    /\ \A d \in Others(c) : held[d] = "none"
    /\ Become(c, "write")

Downgrade(c) ==
    /\ held[c] \in {"upgradable", "write"}
    /\ Become(c, "read")

Release(c) ==
    /\ held[c] # "none"
    /\ Become(c, "none")

Next ==
    \E c \in Clients :
        \/ Read(c)
        \/ UpgradeableRead(c)
        \/ Write(c)
        \/ Upgrade(c)
        \/ Downgrade(c)
        \/ Release(c)

Spec == Init /\ [][Next]_held
=============================================================================
