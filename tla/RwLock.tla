------------------------------- MODULE RwLock -------------------------------
(***************************************************************************)
(* spin::RwLock (lib/spin/src/rw_lock.rs): one word, `lock`, that holds a  *)
(* count of readers in its upper bits, an UPGRADED bit and a WRITER bit.   *)
(* Every atomic operation on the word is one action.  A client stands for  *)
(* one use of the lock, from the call that asks for a guard to the drop of *)
(* that guard; code that holds several read guards is several clients.     *)
(*                                                                         *)
(* A failed compare_exchange changes nothing and is left out: the loops of *)
(* `read`, `write`, `upgradeable_read` and `upgrade` are repetitions of    *)
(* the try_ operation.                                                     *)
(***************************************************************************)
EXTENDS Integers, FiniteSets

CONSTANTS
    Clients,
    Word        \* the number of values of a usize

ASSUME ClientsAssumption == IsFiniteSet(Clients)

\* Every client can be counted in the word at the same time.
ASSUME WordAssumption ==
    /\ Word \in Nat
    /\ Word > 4 * Cardinality(Clients) + 3
    /\ Word % 4 = 0

VARIABLES
    lock,       \* RwLock::lock
    held,       \* the guard each client holds
    step        \* what the client does next, between two atomic operations

vars == <<lock, held, step>>

READER   == 4
UPGRADED == 2
WRITER   == 1

MAX_READERS == ((Word - 1) \div READER) \div 2

Steps == {"rest", "undo", "overflow", "downgrade", "unwind"}

\* The bits of a lock word.
HasWriter(v)   == v % 2 = 1
HasUpgraded(v) == v % 4 >= UPGRADED
Taken(v)       == v % READER # 0

\* fetch_add, fetch_sub, fetch_or(UPGRADED), fetch_and(!(WRITER | UPGRADED)).
Add(v, n)    == (v + n) % Word
Sub(v, n)    == (v - n) % Word
OrUpgraded(v) == IF HasUpgraded(v) THEN v ELSE v + UPGRADED
ClearLow(v)  == v - (v % READER)

\* Mutant: the drop of a write guard leaves the UPGRADED bit that a failed
\* try_upgradeable_read set under it.
DroppedWriterOnly(g, v) ==
    CASE g = "read"       -> Sub(v, READER)
      [] g = "upgradable" -> Sub(v, UPGRADED)
      [] g = "write"      -> Sub(v, WRITER)
      [] OTHER            -> v

\* What dropping a guard does to the word.
Dropped(g, v) ==
    CASE g = "read"       -> Sub(v, READER)
      [] g = "upgradable" -> Sub(v, UPGRADED)
      [] g = "write"      -> ClearLow(v)
      [] OTHER            -> v

Init ==
    /\ lock = 0
    /\ held = [c \in Clients |-> "none"]
    /\ step = [c \in Clients |-> "rest"]

Idle(c) == held[c] = "none" /\ step[c] = "rest"

\* acquire_reader: the reader is counted first; the old value then says
\* whether there are too many.
acquire_reader(c, next) ==
    /\ lock' = Add(lock, READER)
    /\ step' = [step EXCEPT ![c] =
                  IF lock > MAX_READERS * READER THEN "overflow" ELSE next]

\* Mutant: an upgradable guard does not keep new readers out.
try_read_beside_upgradable(c) ==
    /\ Idle(c)
    /\ acquire_reader(c, IF HasWriter(lock) THEN "undo" ELSE "rest")
    /\ held' = [held EXCEPT ![c] =
                  IF lock > MAX_READERS * READER \/ HasWriter(lock)
                  THEN "none" ELSE "read"]

try_read(c) ==
    /\ Idle(c)
    /\ acquire_reader(c, IF Taken(lock) THEN "undo" ELSE "rest")
    /\ held' = [held EXCEPT ![c] =
                  IF lock > MAX_READERS * READER \/ Taken(lock)
                  THEN "none" ELSE "read"]

\* The lock was taken: the reader is no longer counted.
UndoRead(c) ==
    /\ step[c] = "undo"
    /\ lock' = Sub(lock, READER)
    /\ step' = [step EXCEPT ![c] = "rest"]
    /\ UNCHANGED held

\* acquire_reader gives up and panics; a guard the client holds is dropped by
\* the unwinding.
Overflow(c) ==
    /\ step[c] = "overflow"
    /\ lock' = Sub(lock, READER)
    /\ step' = [step EXCEPT ![c] = IF held[c] = "none" THEN "rest" ELSE "unwind"]
    /\ UNCHANGED held

Unwind(c) ==
    /\ step[c] = "unwind"
    /\ lock' = Dropped(held[c], lock)
    /\ held' = [held EXCEPT ![c] = "none"]
    /\ step' = [step EXCEPT ![c] = "rest"]

try_write_internal(c) ==
    /\ Idle(c)
    /\ lock = 0
    /\ lock' = WRITER
    /\ held' = [held EXCEPT ![c] = "write"]
    /\ UNCHANGED step

\* Mutant: only an upgradable guard is taken to be in the way.
try_upgradeable_read_beside_writer(c) ==
    /\ Idle(c)
    /\ lock' = OrUpgraded(lock)
    /\ held' = [held EXCEPT ![c] =
                  IF HasUpgraded(lock) THEN "none" ELSE "upgradable"]
    /\ UNCHANGED step

\* The bit stays set when the attempt fails: the holder clears it.
try_upgradeable_read(c) ==
    /\ Idle(c)
    /\ lock' = OrUpgraded(lock)
    /\ held' = [held EXCEPT ![c] = IF Taken(lock) THEN "none" ELSE "upgradable"]
    /\ UNCHANGED step

try_upgrade_internal(c) ==
    /\ held[c] = "upgradable"
    /\ step[c] = "rest"
    /\ lock = UPGRADED
    /\ lock' = WRITER
    /\ held' = [held EXCEPT ![c] = "write"]
    /\ UNCHANGED step

\* downgrade of an upgradable or a write guard: count the reader, then drop
\* the old guard.
downgrade(c) ==
    /\ held[c] \in {"upgradable", "write"}
    /\ step[c] = "rest"
    /\ acquire_reader(c, "downgrade")
    /\ UNCHANGED held

FinishDowngrade(c) ==
    /\ step[c] = "downgrade"
    /\ lock' = Dropped(held[c], lock)
    /\ held' = [held EXCEPT ![c] = "read"]
    /\ step' = [step EXCEPT ![c] = "rest"]

drop(c) ==
    /\ held[c] # "none"
    /\ step[c] = "rest"
    /\ lock' = Dropped(held[c], lock)
    /\ held' = [held EXCEPT ![c] = "none"]
    /\ UNCHANGED step

\* RwLockWriteGuard::downgrade_to_upgradeable overwrites the word.
downgrade_to_upgradeable(c) ==
    /\ held[c] = "write"
    /\ step[c] = "rest"
    /\ lock' = UPGRADED
    /\ held' = [held EXCEPT ![c] = "upgradable"]
    /\ UNCHANGED step

ClientStep(c) ==
    \/ try_read(c)
    \/ UndoRead(c)
    \/ Overflow(c)
    \/ Unwind(c)
    \/ try_write_internal(c)
    \/ try_upgradeable_read(c)
    \/ try_upgrade_internal(c)
    \/ downgrade(c)
    \/ FinishDowngrade(c)
    \/ drop(c)

\* The lock as the kernel uses it: without downgrade_to_upgradeable, a public
\* operation that only the lock's own tests call (here and in irq_rw_lock.rs), one
\* thread at a time, and that breaks Exclusion when it races with try_read ...
Next == \E c \in Clients : ClientStep(c)

Spec == Init /\ [][Next]_vars

\* ... and all of its operations.
NextAll == Next \/ \E c \in Clients : downgrade_to_upgradeable(c)

SpecAll == Init /\ [][NextAll]_vars
-----------------------------------------------------------------------------
TypeOK ==
    /\ lock \in 0 .. Word - 1
    /\ held \in [Clients -> {"none", "read", "upgradable", "write"}]
    /\ step \in [Clients -> Steps]

\* The clients the word counts as readers: the holders of read guards and
\* those between a fetch_add and what follows it.
Counted ==
    {c \in Clients : held[c] = "read" \/ step[c] \in {"undo", "overflow", "downgrade"}}

Holder(g) == \E c \in Clients : held[c] = g

\* The word of RwLock always tells who holds it: the count is exact, WRITER is
\* set while a write guard lives, UPGRADED is set while an upgradable guard
\* lives, and a bit left by a failed try_upgradeable_read is only ever left
\* under a holder that will clear it.  (acquire_reader, the drops,
\* try_upgradeable_read.)
WordTellsHolders ==
    /\ lock \div READER = Cardinality(Counted)
    /\ HasWriter(lock) <=> Holder("write")
    /\ Holder("upgradable") => HasUpgraded(lock)
    /\ HasUpgraded(lock) => Holder("upgradable") \/ Holder("write")

\* A write guard excludes every other guard, and two upgradable guards never
\* live together (the documentation of RwLock and RwLockUpgradableGuard).
Exclusion ==
    \A c, d \in Clients :
        /\ c # d /\ held[c] = "write" => held[d] = "none"
        /\ c # d /\ held[c] = "upgradable" => held[d] \in {"none", "read"}

Abstract == INSTANCE RwLockSpec

\* The lock implements RwLockSpec: among other things, while an upgradable
\* guard lives nobody but its holder becomes a reader (try_read tests UPGRADED).
ImplementsRwLockSpec == Abstract!Spec
=============================================================================
