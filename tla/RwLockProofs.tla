---------------------------- MODULE RwLockProofs ----------------------------
(***************************************************************************)
(* For every finite set of clients and every word wide enough to count     *)
(* them, spin::RwLock excludes what it says it excludes and implements     *)
(* RwLockSpec.  The argument: the word counts exactly the clients that     *)
(* hold a read guard or are between a fetch_add and what follows it, so a  *)
(* word of 0 or UPGRADED means what the compare_exchange takes it to mean. *)
(***************************************************************************)
EXTENDS RwLock, FiniteSetTheorems, TLAPS

\* Which guards go with a step that is not finished.
StepShape ==
    \A c \in Clients :
        /\ step[c] = "undo" => held[c] = "none"
        /\ step[c] = "overflow" => held[c] # "read"
        /\ step[c] \in {"downgrade", "unwind"} => held[c] \in {"upgradable", "write"}

IInv == TypeOK /\ StepShape /\ WordTellsHolders /\ Exclusion

-----------------------------------------------------------------------------
\* A word is four times its count plus its low bits.
LEMMA WordSplit ==
    ASSUME NEW v \in Nat
    PROVE  /\ v % 4 \in 0 .. 3
           /\ v \div 4 \in Nat
           /\ v = 4 * (v \div 4) + (v % 4)
           /\ v % 2 = (v % 4) % 2
  BY Z3

LEMMA WordBuild ==
    ASSUME NEW n \in Nat, NEW r \in 0 .. 3
    PROVE  /\ 4 * n + r \in Nat
           /\ (4 * n + r) % 4 = r
           /\ (4 * n + r) \div 4 = n
  BY Z3

\* Below the width of the word nothing wraps.
LEMMA NoWrap ==
    ASSUME NEW v \in Int, v >= 0, v < Word
    PROVE  v % Word = v
  BY WordAssumption, Z3

LEMMA CountedFinite ==
    ASSUME TypeOK
    PROVE  /\ IsFiniteSet(Counted)
           /\ Cardinality(Counted) \in Nat
           /\ Cardinality(Clients) \in Nat
           /\ Cardinality(Counted) <= Cardinality(Clients)
  <1>1. Counted \subseteq Clients  BY DEF Counted
  <1> QED  BY <1>1, ClientsAssumption, FS_Subset, FS_CardinalityType

\* A word that is given the count m and the low bits r.
LEMMA WordSet ==
    ASSUME NEW v \in Nat, NEW m \in Nat, NEW r \in 0 .. 3, NEW k \in Nat,
           m <= k, Word > 4 * k + 3, v = 4 * m + r
    PROVE  /\ v % Word = v
           /\ v \in 0 .. Word - 1
           /\ v % 4 = r
           /\ v % 2 = r % 2
           /\ v \div 4 = m
  <1>1. v % 4 = r /\ v \div 4 = m  BY WordBuild
  <1>2. v < Word  BY WordAssumption
  <1>3. v % 2 = r % 2  BY <1>1, WordSplit
  <1>4. v % Word = v  BY <1>2, NoWrap
  <1>5. v \in 0 .. Word - 1  BY <1>2, WordAssumption
  <1> QED  BY <1>1, <1>3, <1>4, <1>5

\* A word l whose count becomes m, one more or one less.
LEMMA WordShift ==
    ASSUME NEW l \in Nat, NEW m \in Nat, NEW k \in Nat, NEW d \in {1, -1},
           m = (l \div 4) + d, m <= k, Word > 4 * k + 3
    PROVE  \E w \in 0 .. Word - 1 :
              /\ w = l + 4 * d
              /\ w % Word = w
              /\ w % 4 = l % 4
              /\ w % 2 = l % 2
              /\ w \div 4 = m
  <1>1. PICK r \in 0 .. 3 : r = l % 4  BY WordSplit
  <1>2. l = 4 * (l \div 4) + r /\ l % 2 = r % 2 /\ l \div 4 \in Nat  BY <1>1, WordSplit
  <1>3. PICK w \in Nat : w = 4 * m + r  BY <1>1
  <1>4. l + 4 * d = w  BY <1>2, <1>3
  <1>5. /\ w % Word = w
        /\ w \in 0 .. Word - 1
        /\ w % 4 = r
        /\ w % 2 = r % 2
        /\ w \div 4 = m
    BY <1>3, WordSet
  <1> QED  BY <1>1, <1>2, <1>4, <1>5

\* A word l whose low bits become r.
LEMMA WordLow ==
    ASSUME NEW l \in Nat, NEW r \in 0 .. 3, NEW k \in Nat,
           l \div 4 <= k, Word > 4 * k + 3, NEW v, v = (l - (l % 4)) + r
    PROVE  /\ v \in 0 .. Word - 1
           /\ v % Word = v
           /\ v % 4 = r
           /\ v % 2 = r % 2
           /\ v \div 4 = l \div 4
  <1>1. PICK q \in 0 .. 3 : q = l % 4  BY WordSplit
  <1>2. PICK m \in Nat : m = l \div 4  BY WordSplit
  <1>3. l = 4 * m + q  BY <1>1, <1>2, WordSplit
  <1>4. v \in Nat /\ v = 4 * m + r  BY <1>1, <1>3
  <1> QED  BY <1>2, <1>4, WordSet

LEMMA Bounds ==
    ASSUME TypeOK
    PROVE  /\ lock \in Nat
           /\ Cardinality(Clients) \in Nat
           /\ Word > 4 * Cardinality(Clients) + 3
  BY WordAssumption, CountedFinite DEF TypeOK

\* fetch_add of a reader: the count grows by one and the low bits stay.
LEMMA CountIn ==
    ASSUME TypeOK, WordTellsHolders, NEW c \in Clients, c \notin Counted,
           lock' = Add(lock, READER), Counted' = Counted \cup {c}
    PROVE  /\ lock' \in 0 .. Word - 1
           /\ lock' % 4 = lock % 4
           /\ lock' % 2 = lock % 2
           /\ lock' \div 4 = Cardinality(Counted')
  <1>1. Cardinality(Counted') = Cardinality(Counted) + 1
    BY CountedFinite, FS_AddElement
  <1>2. Counted' \subseteq Clients  BY DEF Counted
  <1>3. Cardinality(Counted') <= Cardinality(Clients)
    BY <1>2, ClientsAssumption, FS_Subset
  <1>4. Cardinality(Counted') \in Nat
    BY <1>1, CountedFinite
  <1>5. Cardinality(Counted') = (lock \div 4) + 1
    BY <1>1 DEF WordTellsHolders, READER
  <1>6. \E w \in 0 .. Word - 1 :
           /\ w = lock + 4 * 1
           /\ w % Word = w
           /\ w % 4 = lock % 4
           /\ w % 2 = lock % 2
           /\ w \div 4 = Cardinality(Counted')
    BY <1>3, <1>4, <1>5, Bounds, WordShift
  <1>7. lock' = (lock + 4 * 1) % Word  BY DEF Add, READER
  <1> QED  BY <1>6, <1>7, Zenon

\* fetch_sub of a reader that is counted.
LEMMA CountOut ==
    ASSUME TypeOK, WordTellsHolders, NEW c \in Clients, c \in Counted,
           lock' = Sub(lock, READER), Counted' = Counted \ {c}
    PROVE  /\ lock' \in 0 .. Word - 1
           /\ lock' % 4 = lock % 4
           /\ lock' % 2 = lock % 2
           /\ lock' \div 4 = Cardinality(Counted')
  <1>1. Cardinality(Counted') = Cardinality(Counted) - 1
    BY CountedFinite, FS_RemoveElement
  <1>2. IsFiniteSet(Counted') /\ Cardinality(Counted') \in Nat
    BY CountedFinite, FS_RemoveElement, FS_CardinalityType
  <1>3. Cardinality(Counted') <= Cardinality(Clients)
    BY <1>1, CountedFinite
  <1>4. Cardinality(Counted') = (lock \div 4) + (-1)
    BY <1>1, CountedFinite DEF WordTellsHolders, READER
  <1>5. \E w \in 0 .. Word - 1 :
           /\ w = lock + 4 * (-1)
           /\ w % Word = w
           /\ w % 4 = lock % 4
           /\ w % 2 = lock % 2
           /\ w \div 4 = Cardinality(Counted')
    BY <1>2, <1>3, <1>4, Bounds, WordShift
  <1>6. lock' = (lock + 4 * (-1)) % Word
    <2>1. lock - 4 = lock + 4 * (-1)  BY Bounds
    <2> QED  BY <2>1 DEF Sub, READER
  <1> QED  BY <1>5, <1>6, Zenon

\* An operation that only touches the two low bits.
LEMMA CountKept ==
    ASSUME TypeOK, WordTellsHolders, NEW r \in 0 .. 3,
           lock' = (lock - (lock % 4)) + r, Counted' = Counted
    PROVE  /\ lock' \in 0 .. Word - 1
           /\ lock' % 4 = r
           /\ lock' % 2 = r % 2
           /\ lock' \div 4 = Cardinality(Counted')
  <1>1. lock \div 4 <= Cardinality(Clients) /\ lock \div 4 = Cardinality(Counted')
    BY CountedFinite DEF WordTellsHolders, READER
  <1> QED  BY <1>1, Bounds, WordLow

-----------------------------------------------------------------------------
\* Dropping an upgradable or a write guard clears the two low bits.
LEMMA DroppedLow ==
    ASSUME IInv, NEW c \in Clients, held[c] \in {"upgradable", "write"}
    PROVE  Dropped(held[c], lock) = (lock - (lock % 4)) + 0
  <1>1. lock \in Nat /\ lock % 4 \in 0 .. 3 /\ lock % 2 = (lock % 4) % 2
    BY Bounds, WordSplit DEF IInv
  <1>2. CASE held[c] = "write"
    <2>1. Dropped(held[c], lock) = lock - (lock % 4)
      BY <1>2 DEF Dropped, ClearLow, READER
    <2> QED  BY <2>1, <1>1
  <1>3. CASE held[c] = "upgradable"
    <2>1. ~ Holder("write")
      BY <1>3 DEF IInv, Exclusion, Holder
    <2>2. lock % 2 # 1 /\ lock % 4 >= 2
      BY <1>3, <2>1 DEF IInv, WordTellsHolders, HasWriter, HasUpgraded, Holder, UPGRADED
    <2>3. lock % 4 = 2
      <3>1. PICK r \in 0 .. 3 : r = lock % 4  BY <1>1
      <3>2. r % 2 # 1 /\ r >= 2  BY <3>1, <2>2, <1>1
      <3>3. r = 2  BY <3>2
      <3> QED  BY <3>1, <3>3
    <2>4. lock - 2 >= 0 /\ lock - 2 < Word /\ lock - 2 \in Int
      <3>1. PICK q \in Nat : q = lock \div 4  BY <1>1, WordSplit
      <3>2. lock = 4 * q + 2  BY <3>1, <2>3, <1>1, WordSplit
      <3>3. lock < Word  BY WordAssumption DEF IInv, TypeOK
      <3> QED  BY <3>2, <3>3, WordAssumption
    <2>5. (lock - 2) % Word = lock - 2
      BY <2>4, NoWrap
    <2>6. Dropped(held[c], lock) = lock - 2
      BY <1>3, <2>5 DEF Dropped, Sub, UPGRADED
    <2> QED  BY <2>6, <2>3, <1>1
  <1> QED  BY <1>2, <1>3

\* A word with no count is the word of a lock that no reader holds.
LEMMA NoneCounted ==
    ASSUME IInv, lock \div 4 = 0
    PROVE  Counted = {}
  <1>1. Cardinality(Counted) = 0
    BY DEF IInv, WordTellsHolders, READER
  <1> QED  BY <1>1, CountedFinite, FS_EmptySet DEF IInv

\* A lock word of 0: nobody holds a guard.
LEMMA WordFree ==
    ASSUME IInv, lock = 0
    PROVE  \A d \in Clients : held[d] = "none"
  <1>1. lock \div 4 = 0 /\ lock % 2 = 0 /\ lock % 4 = 0  BY Z3
  <1>2. Counted = {}  BY <1>1, NoneCounted
  <1>3. ~ Holder("write") /\ ~ Holder("upgradable")
    BY <1>1 DEF IInv, WordTellsHolders, HasWriter, HasUpgraded, UPGRADED
  <1> QED  BY <1>2, <1>3 DEF IInv, TypeOK, Counted, Holder

\* An upgrade finds nobody but the holder of the upgradable guard.
LEMMA WordUpgradable ==
    ASSUME IInv, NEW c \in Clients, held[c] = "upgradable", lock = 2
    PROVE  \A d \in Clients : d # c => held[d] = "none"
  <1>1. lock \div 4 = 0  BY Z3
  <1>2. Counted = {}  BY <1>1, NoneCounted
  <1> QED  BY <1>2 DEF IInv, TypeOK, Counted, Exclusion

\* A word whose low bits are 0: only readers hold the lock.
LEMMA WordUntaken ==
    ASSUME IInv, lock % 4 = 0
    PROVE  \A d \in Clients : held[d] \in {"none", "read"}
  <1>1. lock \in Nat  BY Bounds DEF IInv
  <1>2. lock % 2 = 0 % 2  BY <1>1, WordSplit
  <1>3. 0 % 2 = 0  BY Z3
  <1>4. ~ Holder("write") /\ ~ Holder("upgradable")
    BY <1>2, <1>3 DEF IInv, WordTellsHolders, HasWriter, HasUpgraded, UPGRADED
  <1> QED  BY <1>4 DEF IInv, TypeOK, Holder

\* The bits stay and so do the guards they stand for.
LEMMA SameLow ==
    ASSUME WordTellsHolders,
           lock' % 4 = lock % 4, lock' % 2 = lock % 2,
           lock' \div 4 = Cardinality(Counted'),
           \A d \in Clients :
              /\ held'[d] = "write" <=> held[d] = "write"
              /\ held'[d] = "upgradable" <=> held[d] = "upgradable"
    PROVE  WordTellsHolders'
  <1>1. (Holder("write"))' <=> Holder("write")  BY DEF Holder
  <1>2. (Holder("upgradable"))' <=> Holder("upgradable")  BY DEF Holder
  <1> QED  BY <1>1, <1>2 DEF WordTellsHolders, HasWriter, HasUpgraded, READER

\* The bits are given new values that match the guards.
LEMMA NewLow ==
    ASSUME NEW r \in 0 .. 3, lock' % 4 = r, lock' % 2 = r % 2,
           lock' \div 4 = Cardinality(Counted'),
           r % 2 = 1 <=> (Holder("write"))',
           (Holder("upgradable"))' => r >= 2,
           r >= 2 => (Holder("upgradable"))' \/ (Holder("write"))'
    PROVE  WordTellsHolders'
  BY DEF WordTellsHolders, HasWriter, HasUpgraded, READER, UPGRADED

\* acquire_reader, whatever the guard its caller holds or gets.
LEMMA AcquireReader ==
    ASSUME IInv, NEW c \in Clients, NEW next \in Steps, c \notin Counted,
           acquire_reader(c, next),
           Counted' = Counted \cup {c},
           \A d \in Clients :
              /\ held'[d] = "write" <=> held[d] = "write"
              /\ held'[d] = "upgradable" <=> held[d] = "upgradable"
    PROVE  /\ lock' \in 0 .. Word - 1
           /\ step' \in [Clients -> Steps]
           /\ WordTellsHolders'
  <1>1. lock' = Add(lock, READER)  BY DEF acquire_reader
  <1>2. /\ lock' \in 0 .. Word - 1
        /\ lock' % 4 = lock % 4
        /\ lock' % 2 = lock % 2
        /\ lock' \div 4 = Cardinality(Counted')
    BY <1>1, CountIn DEF IInv
  <1>3. step' \in [Clients -> Steps]
    BY DEF acquire_reader, IInv, TypeOK, Steps
  <1> QED  BY <1>2, <1>3, SameLow DEF IInv

LEMMA TryRead ==
    ASSUME IInv, NEW c \in Clients, try_read(c)
    PROVE  IInv'
  <1>1. held[c] = "none" /\ step[c] = "rest" /\ c \notin Counted
    BY DEF try_read, Idle, Counted
  <1> DEFINE next == IF Taken(lock) THEN "undo" ELSE "rest"
  <1>2. acquire_reader(c, next) /\ next \in Steps
    BY DEF try_read, Steps
  <1>3. held' \in [Clients -> {"none", "read", "upgradable", "write"}]
    BY DEF try_read, IInv, TypeOK
  <1>4. \A d \in Clients :
           /\ d # c => held'[d] = held[d] /\ step'[d] = step[d]
           /\ d = c => \/ held'[d] = "none" /\ step'[d] \in {"undo", "overflow"}
                       \/ held'[d] = "read" /\ step'[d] = "rest" /\ ~ Taken(lock)
    BY DEF try_read, acquire_reader, IInv, TypeOK
  <1>5. Counted' = Counted \cup {c}
    BY <1>4 DEF Counted
  <1>6. \A d \in Clients :
           /\ held'[d] = "write" <=> held[d] = "write"
           /\ held'[d] = "upgradable" <=> held[d] = "upgradable"
    BY <1>1, <1>4
  <1>7. /\ lock' \in 0 .. Word - 1
        /\ step' \in [Clients -> Steps]
        /\ WordTellsHolders'
    BY <1>1, <1>2, <1>5, <1>6, AcquireReader
  <1>8. StepShape'
    BY <1>4 DEF IInv, StepShape
  <1>9. Exclusion'
    <2>1. CASE held'[c] = "none"
      BY <1>1, <1>4, <2>1 DEF IInv, Exclusion
    <2>2. CASE held'[c] = "read"
      <3>1. lock % 4 = 0  BY <1>4, <2>2 DEF Taken, READER
      <3>2. \A d \in Clients : held[d] \in {"none", "read"}
        BY <3>1, WordUntaken
      <3> QED  BY <1>4, <2>2, <3>2 DEF Exclusion
    <2> QED  BY <1>4, <2>1, <2>2
  <1> QED  BY <1>3, <1>7, <1>8, <1>9 DEF IInv, TypeOK

LEMMA Downgrade ==
    ASSUME IInv, NEW c \in Clients, downgrade(c)
    PROVE  IInv'
  <1>1. held[c] \in {"upgradable", "write"} /\ step[c] = "rest" /\ c \notin Counted
    BY DEF downgrade, Counted
  <1>2. acquire_reader(c, "downgrade") /\ held' = held
    BY DEF downgrade
  <1>3. \A d \in Clients :
           /\ d # c => step'[d] = step[d]
           /\ d = c => step'[d] \in {"overflow", "downgrade"}
    BY <1>2 DEF acquire_reader, IInv, TypeOK
  <1>4. Counted' = Counted \cup {c}
    BY <1>2, <1>3 DEF Counted
  <1>5. /\ lock' \in 0 .. Word - 1
        /\ step' \in [Clients -> Steps]
        /\ WordTellsHolders'
    BY <1>1, <1>2, <1>4, AcquireReader DEF Steps
  <1>6. StepShape'
    BY <1>1, <1>2, <1>3 DEF IInv, StepShape
  <1>7. Exclusion'
    BY <1>2 DEF IInv, Exclusion
  <1> QED  BY <1>2, <1>5, <1>6, <1>7 DEF IInv, TypeOK

\* A reader that was counted in vain is no longer counted.
LEMMA Undo ==
    ASSUME IInv, NEW c \in Clients, UndoRead(c) \/ Overflow(c)
    PROVE  IInv'
  <1>1. step[c] \in {"undo", "overflow"} /\ held' = held /\ held[c] # "read"
    BY DEF UndoRead, Overflow, IInv, StepShape
  <1>2. c \in Counted /\ lock' = Sub(lock, READER)
    BY <1>1 DEF UndoRead, Overflow, Counted
  <1>3. step' \in [Clients -> Steps]
    BY DEF UndoRead, Overflow, IInv, TypeOK, Steps
  <1>4. \A d \in Clients :
           /\ d # c => step'[d] = step[d]
           /\ d = c => \/ step'[d] = "rest"
                       \/ step'[d] = "unwind" /\ held[d] # "none"
    BY DEF UndoRead, Overflow, IInv, TypeOK
  <1>5. Counted' = Counted \ {c}
    BY <1>1, <1>4 DEF Counted
  <1>6. /\ lock' \in 0 .. Word - 1
        /\ lock' % 4 = lock % 4
        /\ lock' % 2 = lock % 2
        /\ lock' \div 4 = Cardinality(Counted')
    BY <1>2, <1>5, CountOut DEF IInv
  <1>7. WordTellsHolders'
    BY <1>1, <1>6, SameLow DEF IInv
  <1>8. StepShape'
    BY <1>1, <1>4 DEF IInv, StepShape, TypeOK
  <1>9. Exclusion'
    BY <1>1 DEF IInv, Exclusion
  <1> QED  BY <1>1, <1>3, <1>6, <1>7, <1>8, <1>9 DEF IInv, TypeOK

\* The drop of an upgradable or a write guard.
LEMMA LowDrop ==
    ASSUME IInv, NEW c \in Clients, held[c] \in {"upgradable", "write"},
           lock' = Dropped(held[c], lock), Counted' = Counted,
           NEW g \in {"none", "read"}, held' = [held EXCEPT ![c] = g]
    PROVE  /\ lock' \in 0 .. Word - 1
           /\ held' \in [Clients -> {"none", "read", "upgradable", "write"}]
           /\ WordTellsHolders'
           /\ Exclusion'
  <1>1. lock' = (lock - (lock % 4)) + 0  BY DroppedLow
  <1>2. /\ lock' \in 0 .. Word - 1
        /\ lock' % 4 = 0
        /\ lock' % 2 = 0 % 2
        /\ lock' \div 4 = Cardinality(Counted')
    BY <1>1, CountKept DEF IInv
  <1>3. \A d \in Clients : held'[d] \in {"none", "read"}
    BY DEF IInv, TypeOK, Exclusion
  <1>4. ~ (Holder("write"))' /\ ~ (Holder("upgradable"))'
    BY <1>3 DEF Holder
  <1>5. 0 % 2 = 0  BY Z3
  <1>6. WordTellsHolders'
    BY <1>2, <1>4, <1>5, NewLow
  <1>7. Exclusion'
    BY <1>3 DEF Exclusion
  <1>8. held' \in [Clients -> {"none", "read", "upgradable", "write"}]
    BY DEF IInv, TypeOK
  <1> QED  BY <1>2, <1>6, <1>7, <1>8

LEMMA UnwindOrFinish ==
    ASSUME IInv, NEW c \in Clients, Unwind(c) \/ FinishDowngrade(c)
    PROVE  IInv'
  <1>1. held[c] \in {"upgradable", "write"} /\ lock' = Dropped(held[c], lock)
    BY DEF Unwind, FinishDowngrade, IInv, StepShape
  <1>2. PICK g \in {"none", "read"} :
           /\ held' = [held EXCEPT ![c] = g]
           /\ g = "read" <=> step[c] = "downgrade"
           /\ g = "none" <=> step[c] = "unwind"
    BY DEF Unwind, FinishDowngrade
  <1>3. step' = [step EXCEPT ![c] = "rest"]
    BY DEF Unwind, FinishDowngrade
  <1>4. Counted' = Counted
    BY <1>1, <1>2, <1>3 DEF Counted, IInv, TypeOK
  <1>5. /\ lock' \in 0 .. Word - 1
        /\ held' \in [Clients -> {"none", "read", "upgradable", "write"}]
        /\ WordTellsHolders'
        /\ Exclusion'
    BY <1>1, <1>2, <1>4, LowDrop
  <1>6. StepShape'
    BY <1>2, <1>3 DEF IInv, StepShape, TypeOK
  <1>7. step' \in [Clients -> Steps]
    BY <1>3 DEF IInv, TypeOK, Steps
  <1> QED  BY <1>5, <1>6, <1>7 DEF IInv, TypeOK

LEMMA Drop ==
    ASSUME IInv, NEW c \in Clients, drop(c)
    PROVE  IInv'
  <1>1. /\ held[c] # "none" /\ step[c] = "rest" /\ step' = step
        /\ lock' = Dropped(held[c], lock)
        /\ held' = [held EXCEPT ![c] = "none"]
    BY DEF drop
  <1>2. StepShape'
    BY <1>1 DEF IInv, StepShape, TypeOK
  <1>3. CASE held[c] = "read"
    <2>1. c \in Counted /\ Counted' = Counted \ {c}
      BY <1>1, <1>3 DEF Counted, IInv, TypeOK
    <2>2. lock' = Sub(lock, READER)
      BY <1>1, <1>3 DEF Dropped
    <2>3. /\ lock' \in 0 .. Word - 1
          /\ lock' % 4 = lock % 4
          /\ lock' % 2 = lock % 2
          /\ lock' \div 4 = Cardinality(Counted')
      BY <2>1, <2>2, CountOut DEF IInv
    <2>4. \A d \in Clients :
             /\ held'[d] = "write" <=> held[d] = "write"
             /\ held'[d] = "upgradable" <=> held[d] = "upgradable"
      BY <1>1, <1>3 DEF IInv, TypeOK
    <2>5. WordTellsHolders'
      BY <2>3, <2>4, SameLow DEF IInv
    <2>6. Exclusion'
      BY <1>1, <1>3 DEF IInv, Exclusion, TypeOK
    <2>7. held' \in [Clients -> {"none", "read", "upgradable", "write"}]
      BY <1>1 DEF IInv, TypeOK
    <2> QED  BY <1>1, <1>2, <2>3, <2>5, <2>6, <2>7 DEF IInv, TypeOK
  <1>4. CASE held[c] \in {"upgradable", "write"}
    <2>1. Counted' = Counted
      BY <1>1, <1>4 DEF Counted, IInv, TypeOK
    <2>2. /\ lock' \in 0 .. Word - 1
          /\ held' \in [Clients -> {"none", "read", "upgradable", "write"}]
          /\ WordTellsHolders'
          /\ Exclusion'
      BY <1>1, <1>4, <2>1, LowDrop
    <2> QED  BY <1>1, <1>2, <2>2 DEF IInv, TypeOK
  <1> QED  BY <1>1, <1>3, <1>4 DEF IInv, TypeOK

\* A client that holds nothing gets a write or an upgradable guard, or its
\* upgradable guard becomes a write guard: the low bits become r.
LEMMA Acquire ==
    ASSUME IInv, NEW c \in Clients, step[c] = "rest", held[c] # "read", step' = step,
           NEW g \in {"none", "upgradable", "write"}, held' = [held EXCEPT ![c] = g],
           NEW r \in 0 .. 3, lock' = (lock - (lock % 4)) + r,
           r % 2 = 1 <=> (Holder("write"))',
           (Holder("upgradable"))' => r >= 2,
           r >= 2 => (Holder("upgradable"))' \/ (Holder("write"))',
           Exclusion'
    PROVE  IInv'
  <1>1. Counted' = Counted
    BY DEF Counted, IInv, TypeOK
  <1>2. /\ lock' \in 0 .. Word - 1
        /\ lock' % 4 = r
        /\ lock' % 2 = r % 2
        /\ lock' \div 4 = Cardinality(Counted')
    BY <1>1, CountKept DEF IInv
  <1>3. WordTellsHolders'
    BY <1>2, NewLow
  <1>4. StepShape'
    BY DEF IInv, StepShape, TypeOK
  <1>5. held' \in [Clients -> {"none", "read", "upgradable", "write"}]
    BY DEF IInv, TypeOK
  <1> QED  BY <1>2, <1>3, <1>4, <1>5 DEF IInv, TypeOK

LEMMA TryWrite ==
    ASSUME IInv, NEW c \in Clients,
           try_write_internal(c) \/ try_upgrade_internal(c)
    PROVE  IInv'
  <1>1. /\ step[c] = "rest" /\ held[c] \in {"none", "upgradable"} /\ step' = step
        /\ held' = [held EXCEPT ![c] = "write"]
        /\ lock' = 1
    BY DEF try_write_internal, try_upgrade_internal, Idle, WRITER
  <1>2. lock = 0 \/ (lock = 2 /\ held[c] = "upgradable")
    BY DEF try_write_internal, try_upgrade_internal, UPGRADED
  <1>3. \A d \in Clients : d # c => held[d] = "none"
    BY <1>2, WordFree, WordUpgradable
  <1>4. \A d \in Clients : held'[d] = IF d = c THEN "write" ELSE "none"
    BY <1>1, <1>3 DEF IInv, TypeOK
  <1>5. (Holder("write"))' /\ ~ (Holder("upgradable"))'
    BY <1>4 DEF Holder
  <1>6. Exclusion'
    BY <1>4 DEF Exclusion
  <1>7. lock' = (lock - (lock % 4)) + 1
    <2>1. 0 % 4 = 0 /\ 2 % 4 = 2  BY Z3
    <2>2. lock - (lock % 4) = 0  BY <1>2, <2>1
    <2> QED  BY <1>1, <2>2
  <1>8. PICK r \in 0 .. 3 : r = 1 /\ r % 2 = 1 /\ ~ (r >= 2)  BY Z3
  <1>9. lock' = (lock - (lock % 4)) + r  BY <1>7, <1>8, Zenon
  <1>10. held[c] # "read"  BY <1>1
  <1> QED  BY <1>1, <1>5, <1>6, <1>8, <1>9, <1>10, Acquire, Zenon

LEMMA TryUpgradeable ==
    ASSUME IInv, NEW c \in Clients, try_upgradeable_read(c)
    PROVE  IInv'
  <1>1. /\ step[c] = "rest" /\ held[c] = "none" /\ step' = step
        /\ lock' = OrUpgraded(lock)
    BY DEF try_upgradeable_read, Idle
  <1>2. lock \in Nat /\ lock % 4 \in 0 .. 3 /\ lock % 2 = (lock % 4) % 2
    BY Bounds, WordSplit DEF IInv
  <1>3. PICK q \in 0 .. 3 : q = lock % 4  BY <1>2
  <1>4. PICK r \in 0 .. 3 : r = IF q >= 2 THEN q ELSE q + 2  BY <1>3
  <1>5. r >= 2 /\ r % 2 = q % 2  BY <1>4
  <1>6. lock' = (lock - (lock % 4)) + r
    BY <1>1, <1>2, <1>3, <1>4 DEF OrUpgraded, HasUpgraded, UPGRADED
  <1>7. CASE q = 0
    <2>1. held' = [held EXCEPT ![c] = "upgradable"]
      BY <1>3, <1>7 DEF try_upgradeable_read, Taken, READER
    <2>2. \A d \in Clients : held[d] \in {"none", "read"}
      BY <1>3, <1>7, WordUntaken
    <2>3. (Holder("upgradable"))' /\ ~ (Holder("write"))'
      BY <2>1, <2>2 DEF Holder, IInv, TypeOK
    <2>4. Exclusion'
      BY <2>1, <2>2 DEF Exclusion, IInv, TypeOK
    <2>5. r % 2 # 1  BY <1>5, <1>7
    <2> QED  BY <1>1, <1>5, <1>6, <2>1, <2>3, <2>4, <2>5, Acquire
  <1>8. CASE q # 0
    <2>1. held' = [held EXCEPT ![c] = "none"]
      BY <1>3, <1>8 DEF try_upgradeable_read, Taken, READER
    <2>2. held' = held
      BY <1>1, <2>1 DEF IInv, TypeOK
    <2>3. /\ (Holder("write"))' <=> Holder("write")
          /\ (Holder("upgradable"))' <=> Holder("upgradable")
      BY <2>2 DEF Holder
    <2>4. Exclusion'
      BY <2>2 DEF IInv, Exclusion
    <2>5. lock % 2 = 1 <=> Holder("write")
      BY DEF IInv, WordTellsHolders, HasWriter
    <2>6. r % 2 = 1 <=> (Holder("write"))'
      BY <1>2, <1>3, <1>5, <2>3, <2>5
    <2>7. q >= 2 => Holder("upgradable") \/ Holder("write")
      BY <1>3 DEF IInv, WordTellsHolders, HasUpgraded, UPGRADED
    <2>8. q % 2 = 1 \/ q >= 2  BY <1>8
    <2>9. (Holder("upgradable"))' \/ (Holder("write"))'
      BY <1>2, <1>3, <2>3, <2>5, <2>7, <2>8
    <2> QED  BY <1>1, <1>5, <1>6, <2>1, <2>4, <2>6, <2>9, Acquire
  <1> QED  BY <1>7, <1>8

-----------------------------------------------------------------------------
LEMMA InitIInv == Init => IInv
  <1> SUFFICES ASSUME Init PROVE IInv  OBVIOUS
  <1>1. Counted = {}  BY DEF Init, Counted
  <1>2. Cardinality(Counted) = 0  BY <1>1, FS_EmptySet
  <1>3. 0 \div 4 = 0 /\ 0 % 2 = 0 /\ 0 % 4 = 0  BY Z3
  <1>4. ~ Holder("write") /\ ~ Holder("upgradable")  BY DEF Init, Holder
  <1>5. WordTellsHolders
    BY <1>2, <1>3, <1>4 DEF Init, WordTellsHolders, HasWriter, HasUpgraded, READER, UPGRADED
  <1>6. TypeOK
    <2>1. 0 \in 0 .. Word - 1
      BY WordAssumption, FS_CardinalityType, ClientsAssumption
    <2> QED  BY <2>1 DEF Init, TypeOK, Steps
  <1>7. StepShape /\ Exclusion  BY DEF Init, StepShape, Exclusion
  <1> QED  BY <1>5, <1>6, <1>7 DEF IInv

LEMMA NextIInv == IInv /\ [Next]_vars => IInv'
  <1> SUFFICES ASSUME IInv, [Next]_vars PROVE IInv'  OBVIOUS
  <1>1. ASSUME NEW c \in Clients, ClientStep(c) PROVE IInv'
    BY <1>1, TryRead, Undo, UnwindOrFinish, TryWrite, TryUpgradeable, Downgrade, Drop
       DEF ClientStep
  <1>2. CASE UNCHANGED vars
    <2>1. lock' = lock /\ held' = held /\ step' = step  BY <1>2 DEF vars
    <2>2. Counted' = Counted  BY <2>1 DEF Counted
    <2>3. lock' \div 4 = Cardinality(Counted')
      BY <2>1, <2>2 DEF IInv, WordTellsHolders, READER
    <2>4. WordTellsHolders'  BY <2>1, <2>3, SameLow DEF IInv
    <2> QED  BY <2>1, <2>4 DEF IInv, TypeOK, StepShape, Exclusion
  <1> QED  BY <1>1, <1>2 DEF Next

\* The invariant that carries the proofs of RwLock holds of every behaviour:
\* the word, the guards and the unfinished operations always agree.
THEOREM Invariance == Spec => []IInv
  BY InitIInv, NextIInv, PTL DEF Spec

\* RwLock's word always tells who holds it: the count is the number of readers
\* (with the ones between a fetch_add and its undo), WRITER and UPGRADED stand
\* for a live guard.
THEOREM WordAlwaysTells == Spec => []WordTellsHolders
  BY Invariance, PTL DEF IInv

\* A write guard excludes all other guards and an upgradable guard all but
\* read guards, for any number of clients that the word can count.
THEOREM MutualExclusion == Spec => []Exclusion
  BY Invariance, PTL DEF IInv

-----------------------------------------------------------------------------
\* Every step of RwLock is a step of RwLockSpec or leaves the guards alone.
LEMMA StepImplements ==
    ASSUME IInv, [Next]_vars
    PROVE  [Abstract!Next]_held
  <1>1. ASSUME NEW c \in Clients, try_read(c)
        PROVE  Abstract!Read(c) \/ UNCHANGED held
    <2>1. held[c] = "none"  BY <1>1 DEF try_read, Idle
    <2>2. CASE lock % 4 = 0 /\ ~ lock > MAX_READERS * READER
      <3>1. \A d \in Clients : held[d] \in {"none", "read"}  BY <2>2, WordUntaken
      <3>2. held' = [held EXCEPT ![c] = "read"]
        BY <1>1, <2>2 DEF try_read, Taken, READER
      <3> QED  BY <2>1, <3>1, <3>2 DEF Abstract!Read, Abstract!Holds, Abstract!Become
    <2>3. CASE ~ (lock % 4 = 0 /\ ~ lock > MAX_READERS * READER)
      <3>1. held' = [held EXCEPT ![c] = "none"]
        BY <1>1, <2>3 DEF try_read, Taken, READER
      <3> QED  BY <2>1, <3>1 DEF IInv, TypeOK
    <2> QED  BY <2>2, <2>3
  <1>2. ASSUME NEW c \in Clients, try_upgradeable_read(c)
        PROVE  Abstract!UpgradeableRead(c) \/ UNCHANGED held
    <2>1. held[c] = "none"  BY <1>2 DEF try_upgradeable_read, Idle
    <2>2. CASE lock % 4 = 0
      <3>1. \A d \in Clients : held[d] \in {"none", "read"}  BY <2>2, WordUntaken
      <3>2. held' = [held EXCEPT ![c] = "upgradable"]
        BY <1>2, <2>2 DEF try_upgradeable_read, Taken, READER
      <3> QED  BY <2>1, <3>1, <3>2
               DEF Abstract!UpgradeableRead, Abstract!Holds, Abstract!Become
    <2>3. CASE lock % 4 # 0
      <3>1. held' = [held EXCEPT ![c] = "none"]
        BY <1>2, <2>3 DEF try_upgradeable_read, Taken, READER
      <3> QED  BY <2>1, <3>1 DEF IInv, TypeOK
    <2> QED  BY <2>2, <2>3
  <1>3. ASSUME NEW c \in Clients, try_write_internal(c)
        PROVE  Abstract!Write(c)
    BY <1>3, WordFree DEF try_write_internal, Abstract!Write, Abstract!Become
  <1>4. ASSUME NEW c \in Clients, try_upgrade_internal(c)
        PROVE  Abstract!Upgrade(c)
    BY <1>4, WordUpgradable
       DEF try_upgrade_internal, UPGRADED, Abstract!Upgrade, Abstract!Others, Abstract!Become
  <1>5. ASSUME NEW c \in Clients, FinishDowngrade(c)
        PROVE  Abstract!Downgrade(c)
    BY <1>5 DEF FinishDowngrade, IInv, StepShape, Abstract!Downgrade, Abstract!Become
  <1>6. ASSUME NEW c \in Clients, drop(c) \/ Unwind(c)
        PROVE  Abstract!Release(c)
    BY <1>6 DEF drop, Unwind, IInv, StepShape, Abstract!Release, Abstract!Become
  <1>7. ASSUME NEW c \in Clients, UndoRead(c) \/ Overflow(c) \/ downgrade(c)
        PROVE  UNCHANGED held
    BY <1>7 DEF UndoRead, Overflow, downgrade
  <1>8. CASE UNCHANGED vars
    BY <1>8 DEF vars
  <1> QED
    BY <1>1, <1>2, <1>3, <1>4, <1>5, <1>6, <1>7, <1>8
       DEF Next, ClientStep, Abstract!Next

\* RwLock implements RwLockSpec for any number of clients: the word and the
\* order of its atomic operations are invisible to the holders of guards.
THEOREM Implementation == Spec => ImplementsRwLockSpec
  <1>1. Init => Abstract!Init  BY DEF Init, Abstract!Init
  <1>2. IInv /\ [Next]_vars => [Abstract!Next]_held  BY StepImplements
  <1> QED  BY <1>1, <1>2, Invariance, PTL DEF Spec, Abstract!Spec, ImplementsRwLockSpec
=============================================================================
