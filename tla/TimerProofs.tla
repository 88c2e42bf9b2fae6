----------------------------- MODULE TimerProofs -----------------------------
(***************************************************************************)
(* The theorems about module Timer, for any number of CPUs and of Sleeps,  *)
(* any number of wheels and any clock.                                     *)
(*                                                                         *)
(* Placed is the heart of the invariant. An entry is put into a wheel that *)
(* is chosen from Core::now as it is then, Core::cancel computes the wheel *)
(* from Core::now as it is later, and in between entries are neither moved *)
(* nor looked at. NextDeadline shows why the two agree: a turn stops at    *)
(* every next deadline, and until then no linked entry changes its wheel.  *)
(***************************************************************************)
EXTENDS Timer, WellFoundedInduction, TLAPS

-----------------------------------------------------------------------------
(* Numbers to the base SLOTS. *)

\* How many slots of wheel l have gone by at time x.
Passed(l, x) == x \div SLOTS ^ l

\* Division with a remainder.
LEMMA Quotient ==
  ASSUME NEW a \in Nat, NEW p \in Nat \ {0}
  PROVE  /\ a \div p \in Nat /\ (a % p) \in 0 .. p - 1
         /\ a = p * (a \div p) + (a % p)
  OBVIOUS

\* There is one quotient.
LEMMA QuotientUnique ==
  ASSUME NEW a \in Nat, NEW p \in Nat \ {0}, NEW q \in Nat, NEW r \in 0 .. p - 1, a = p * q + r
  PROVE  a \div p = q
  OBVIOUS

\* The quotient grows with the dividend.
LEMMA QuotientGrows ==
  ASSUME NEW a \in Nat, NEW b \in Nat, NEW p \in Nat \ {0}, a <= b
  PROVE  a \div p <= b \div p
  OBVIOUS

\* Dividing by a product is dividing twice.
LEMMA QuotientTwice ==
  ASSUME NEW a \in Nat, NEW p \in Nat \ {0}, NEW q \in Nat \ {0}
  PROVE  a \div (p * q) = (a \div p) \div q
  OBVIOUS

\* What is used of the powers of SLOTS.
LEMMA Powers ==
  ASSUME NEW l \in 0 .. Bits
  PROVE  /\ l \in Nat /\ SLOTS \in Nat \ {0} /\ SLOTS ^ l \in Nat \ {0} /\ SLOTS ^ 0 = 1
         /\ l < Bits <=> l \in Levels
         /\ l \in Levels => l + 1 \in 0 .. Bits /\ SLOTS ^ (l + 1) = SLOTS ^ l * SLOTS
  <1>0. Bits \in Nat /\ l \in Nat /\ 1 \in 0 .. Bits  BY TimerBounds
  <1>1. SLOTS \in Nat \ {0} /\ SLOTS ^ l \in Nat \ {0} /\ SLOTS ^ 0 = 1  BY PowerLaws, Zenon
  <1>2. l < Bits <=> l \in Levels  BY <1>0 DEF Levels
  <1>3. l \in Levels => l + 1 \in 0 .. Bits  BY <1>0 DEF Levels
  <1>4. SLOTS ^ (l + 1) = SLOTS ^ l * SLOTS
    <2>1. SLOTS ^ (l + 1) = SLOTS ^ l * SLOTS ^ 1  BY <1>0, PowerLaws, Zenon
    <2> QED  BY <2>1, PowerLaws, Zenon
  <1> QED  BY <1>0, <1>1, <1>2, <1>3, <1>4, Zenon

\* A count of slots is a number; wheel 0 counts ticks.
LEMMA PassedType ==
  ASSUME NEW l \in 0 .. Bits, NEW x \in Nat
  PROVE  Passed(l, x) \in Nat /\ Passed(0, x) = x
  <1>1. Passed(l, x) \in Nat  BY Powers, Quotient, Zenon DEF Passed
  <1>2. x \div 1 = x  OBVIOUS
  <1> QED  BY <1>1, <1>2, Powers, Zenon DEF Passed

\* Time goes forward in every wheel.
LEMMA PassedGrows ==
  ASSUME NEW l \in 0 .. Bits, NEW x \in Nat, NEW y \in Nat, x <= y
  PROVE  Passed(l, x) <= Passed(l, y)
  BY Powers, QuotientGrows, Zenon DEF Passed

\* What is not later in one wheel is not later in the wheels above.
LEMMA PassedAbove ==
  ASSUME NEW l \in 0 .. Bits, NEW m \in 0 .. Bits, l <= m, NEW x \in Nat, NEW y \in Nat,
         Passed(l, x) <= Passed(l, y)
  PROVE  Passed(m, x) <= Passed(m, y)
  <1>1. m - l \in 0 .. Bits /\ l + (m - l) = m  BY TimerBounds
  <1>2. SLOTS ^ m = SLOTS ^ l * SLOTS ^ (m - l)  BY <1>1, PowerLaws
  <1>3. SLOTS ^ l \in Nat \ {0} /\ SLOTS ^ (m - l) \in Nat \ {0}  BY <1>1, Powers, Zenon
  <1>4. /\ Passed(m, x) = Passed(l, x) \div SLOTS ^ (m - l)
        /\ Passed(m, y) = Passed(l, y) \div SLOTS ^ (m - l)
    <2>1. ASSUME NEW z \in Nat  PROVE Passed(m, z) = Passed(l, z) \div SLOTS ^ (m - l)
      <3>1. z \div (SLOTS ^ l * SLOTS ^ (m - l)) = (z \div SLOTS ^ l) \div SLOTS ^ (m - l)
        BY <1>3, QuotientTwice, Zenon
      <3> QED  BY <1>2, <3>1, Zenon DEF Passed
    <2> QED  BY <2>1, Zenon
  <1>5. Passed(l, x) \in Nat /\ Passed(l, y) \in Nat  BY PassedType, Zenon
  <1>6. Passed(l, x) \div SLOTS ^ (m - l) <= Passed(l, y) \div SLOTS ^ (m - l)
    BY <1>3, <1>5, QuotientGrows, Zenon
  <1> QED  BY <1>4, <1>6, Zenon

\* The slot of a time is its digit for that wheel.
LEMMA Digit ==
  ASSUME NEW l \in Levels, NEW x \in Nat
  PROVE  /\ slot_index(l, x) \in Slots /\ l \in 0 .. Bits /\ l + 1 \in 0 .. Bits
         /\ Passed(l, x) = SLOTS * Passed(l + 1, x) + slot_index(l, x)
  <1>0. l \in 0 .. Bits  BY TimerBounds DEF Levels
  <1>1. l + 1 \in 0 .. Bits /\ SLOTS ^ (l + 1) = SLOTS ^ l * SLOTS /\ SLOTS \in Nat \ {0}
    BY <1>0, Powers, Zenon
  <1>2. Passed(l + 1, x) = Passed(l, x) \div SLOTS
    <2>1. x \div (SLOTS ^ l * SLOTS) = (x \div SLOTS ^ l) \div SLOTS
      BY <1>0, <1>1, Powers, QuotientTwice, Zenon
    <2> QED  BY <1>1, <2>1, Zenon DEF Passed
  <1>3. slot_index(l, x) = Passed(l, x) % SLOTS  BY DEF slot_index, Passed
  <1>4. Passed(l, x) \in Nat  BY <1>0, PassedType, Zenon
  <1>5. /\ (Passed(l, x) % SLOTS) \in 0 .. SLOTS - 1
        /\ Passed(l, x) = SLOTS * (Passed(l, x) \div SLOTS) + (Passed(l, x) % SLOTS)
    BY <1>1, <1>4, Quotient, Zenon
  <1> QED  BY <1>0, <1>1, <1>2, <1>3, <1>5, Zenon DEF Slots

\* The time at which a slot of a wheel begins.
LEMMA SlotStart ==
  ASSUME NEW l \in 0 .. Bits, NEW n \in Nat
  PROVE  /\ n * SLOTS ^ l \in Nat /\ Passed(l, n * SLOTS ^ l) = n
         /\ \A x \in Nat : n * SLOTS ^ l <= x <=> n <= Passed(l, x)
  <1> DEFINE p == SLOTS ^ l
  <1>0. p \in Nat \ {0}  BY Powers, Zenon
  <1> HIDE DEF p
  <1>1. n * p \in Nat /\ n * p = p * n + 0 /\ 0 \in 0 .. p - 1  BY <1>0
  <1>2. (n * p) \div p = n  BY <1>0, <1>1, QuotientUnique, Zenon
  <1>3. ASSUME NEW x \in Nat  PROVE n * p <= x <=> n <= x \div p
    <2>1. PICK q \in Nat, r \in 0 .. p - 1 : q = x \div p /\ x = p * q + r  BY <1>0, Quotient, Zenon
    <2>2. CASE n <= q  
      <3>1. PICK e \in Nat : q = n + e  BY <2>2
      <3>2. p * e \in Nat /\ p * (n + e) = n * p + p * e  BY <1>0
      <3> QED  BY <1>0, <2>1, <2>2, <3>1, <3>2
    <2>3. CASE ~ (n <= q)
      <3>1. PICK e \in Nat : n = q + 1 + e  BY <2>3
      <3>2. p * e \in Nat /\ (q + 1 + e) * p = p * q + p + p * e  BY <1>0
      <3> QED  BY <1>0, <2>1, <2>3, <3>1, <3>2
    <2> QED  BY <2>2, <2>3
  <1> QED  BY <1>1, <1>2, <1>3, Zenon DEF Passed, p

-----------------------------------------------------------------------------
(* The first and the last member of a set of numbers. *)

\* Min is the least member of a set of numbers.
LEMMA Least ==
  ASSUME NEW T, T \subseteq Nat, T # {}
  PROVE  Min(T) \in T /\ \A y \in T : Min(T) <= y
  <1>1. IsWellFoundedOn(OpToRel(<, Nat), Nat)  BY NatLessThanWellFounded, Zenon
  <1>2. PICK x \in T : \A y \in T : ~ (<<y, x>> \in OpToRel(<, Nat))
    BY <1>1, WFMin, Zenon
  <1>3. \A y \in T : ~ (y < x)  BY <1>2 DEF OpToRel
  <1>4. \A y \in T : x <= y  BY <1>3
  <1> QED  BY <1>4, Zenon DEF Min

\* Max is the greatest member of a bounded one.
LEMMA Greatest ==
  ASSUME NEW n \in Nat, NEW T, T \subseteq 0 .. n, T # {}
  PROVE  Max(T) \in T /\ \A y \in T : Max(T) >= y
  <1> DEFINE U == {n - y : y \in T}
  <1>1. U \subseteq Nat /\ U # {}
    <2>1. \A y \in T : n - y \in Nat  OBVIOUS
    <2>2. PICK y \in T : TRUE  OBVIOUS
    <2>3. n - y \in U  OBVIOUS
    <2> QED  BY <2>1, <2>3, Zenon
  <1>2. PICK u \in U : \A v \in U : u <= v  BY <1>1, Least
  <1>3. PICK x \in T : u = n - x  BY <1>2
  <1>4. \A y \in T : x >= y
    <2>1. ASSUME NEW y \in T  PROVE x >= y
      <3>1. n - x <= n - y  BY <1>2, <1>3
      <3> QED  BY <3>1
    <2> QED  BY <2>1
  <1> QED  BY <1>4, Zenon DEF Max

-----------------------------------------------------------------------------
(* The wheel of a deadline, and the next deadline. *)

\* At time n the deadline t belongs into wheel l.
Belongs(n, t, l) ==
  /\ Passed(l, n) < Passed(l, t)
  /\ l + 1 \in Levels => Passed(l + 1, t) = Passed(l + 1, n)

\* What is linked is in the slot that Core::cancel looks at, and not due yet; the
\* bitmaps show which slots have entries.
Placed ==
  /\ \A l \in Levels, k \in Slots : \A s \in slots[l][k] :
       deadline[s] > now /\ Belongs(now, deadline[s], l) /\ k = slot_index(l, deadline[s])
  /\ \A l \in Levels, k \in Slots : k \in occupied[l] <=> slots[l][k] # {}

\* Two times that agree in a wheel agree in the wheels above.
LEMMA SameAbove ==
  ASSUME NEW l \in 0 .. Bits, NEW m \in 0 .. Bits, l <= m, NEW x \in Nat, NEW y \in Nat,
         Passed(l, x) = Passed(l, y)
  PROVE  Passed(m, x) = Passed(m, y)
  <1>1. /\ Passed(l, x) \in Nat /\ Passed(l, y) \in Nat /\ Passed(m, x) \in Nat /\ Passed(m, y) \in Nat
    BY PassedType, Zenon
  <1>2. Passed(l, x) <= Passed(l, y) /\ Passed(l, y) <= Passed(l, x)  BY <1>1
  <1>3. Passed(m, x) <= Passed(m, y) /\ Passed(m, y) <= Passed(m, x)  BY <1>2, PassedAbove, Zenon
  <1> QED  BY <1>1, <1>3

\* A deadline belongs into one wheel, the one that wheel_index finds.
LEMMA WheelIndex ==
  ASSUME NEW n \in Nat, NEW t \in Nat, n < t
  PROVE  /\ wheel_index(n, t) \in Levels /\ Belongs(n, t, wheel_index(n, t))
         /\ \A l \in Levels : Belongs(n, t, l) => l = wheel_index(n, t)
  <1> DEFINE D == {l \in Levels : n \div SLOTS ^ l # t \div SLOTS ^ l}
             w == Max(D)
  <1>0. Bits \in Nat /\ 0 \in 0 .. Bits /\ 0 \in Levels /\ Levels \subseteq 0 .. Bits
    BY TimerBounds DEF Levels
  <1>1. D = {l \in Levels : Passed(l, n) # Passed(l, t)}  BY Zenon DEF Passed
  <1>2. 0 \in D
    <2>1. Passed(0, n) = n /\ Passed(0, t) = t /\ n # t  BY <1>0, PassedType
    <2> QED  BY <1>0, <1>1, <2>1, Zenon
  <1>3. wheel_index(n, t) = w
    <2>1. D # {}  BY <1>2, Zenon
    <2> QED  BY <2>1, Zenon DEF wheel_index
  <1> HIDE DEF D
  <1>4. w \in D /\ \A y \in D : w >= y
    <2>1. D \subseteq 0 .. Bits /\ D # {}  BY <1>0, <1>1, <1>2, Zenon
    <2> QED  BY <1>0, <2>1, Greatest, Zenon
  <1> HIDE DEF w
  <1>5. w \in Levels /\ w \in 0 .. Bits /\ Passed(w, n) # Passed(w, t)  BY <1>0, <1>1, <1>4, Zenon
  <1>6. Passed(w, n) < Passed(w, t)
    <2>1. Passed(w, n) <= Passed(w, t) /\ Passed(w, n) \in Nat /\ Passed(w, t) \in Nat
      BY <1>5, PassedGrows, PassedType
    <2> QED  BY <1>5, <2>1
  <1>7. w + 1 \in Levels => Passed(w + 1, t) = Passed(w + 1, n)
    <2>1. ~ (w >= w + 1)  BY <1>5, <1>0
    <2> QED  BY <1>1, <1>4, <2>1, Zenon
  <1>8. ASSUME NEW l \in Levels, NEW m \in Levels, Belongs(n, t, l), Belongs(n, t, m), l < m
        PROVE  FALSE
    <2>1. l + 1 \in Levels /\ l + 1 \in 0 .. Bits /\ l + 1 <= m /\ m \in 0 .. Bits
      BY <1>8, TimerBounds DEF Levels
    <2>2. Passed(l + 1, t) = Passed(l + 1, n)  BY <1>8, <2>1, Zenon DEF Belongs
    <2>3. Passed(m, t) = Passed(m, n)  BY <2>1, <2>2, SameAbove, Zenon
    <2>4. Passed(m, n) < Passed(m, t) /\ Passed(m, n) \in Nat  BY <1>8, <2>1, PassedType, Zenon DEF Belongs
    <2> QED  BY <2>3, <2>4
  <1>9. Belongs(n, t, w)  BY <1>6, <1>7, Zenon DEF Belongs
  <1>10. ASSUME NEW l \in Levels, Belongs(n, t, l)  PROVE l = w
    <2>1. l < w \/ w < l \/ l = w  BY <1>0, <1>5
    <2> QED  BY <1>5, <1>8, <1>9, <1>10, <2>1, Zenon
  <1> QED  BY <1>3, <1>5, <1>9, <1>10, Zenon

\* The slot that next_slot finds: the first one from the slot of time n on, or the
\* first one if there is none.
LEMMA NextSlot ==
  ASSUME NEW l \in Levels, NEW n \in Nat, occupied[l] \subseteq Slots, occupied[l] # {}
  PROVE  /\ next_slot(l, n) \in occupied[l]
         /\ \A k \in occupied[l] :
              IF k >= slot_index(l, n) THEN slot_index(l, n) <= next_slot(l, n) /\ next_slot(l, n) <= k
                                       ELSE slot_index(l, n) <= next_slot(l, n) \/ next_slot(l, n) <= k
  <1> DEFINE g == slot_index(l, n)
             later == {k \in occupied[l] : k >= g}
             K == next_slot(l, n)
  <1>0. Slots \subseteq Nat  BY DEF Slots
  <1>1. CASE later # {}
    <2>1. K = Min(later)  BY <1>1, Zenon DEF next_slot
    <2>2. later \subseteq Nat  BY <1>0, Zenon
    <2>3. K \in later /\ \A y \in later : K <= y  BY <1>1, <2>1, <2>2, Least, Zenon
    <2>4. K \in occupied[l] /\ K >= g  BY <2>3, Zenon
    <2>5. g \in Nat  BY Digit, <1>0, Zenon
    <2>6. K \in Nat  BY <2>4, <1>0, Zenon
    <2>7. g <= K  BY <2>4, <2>5, <2>6
    <2> QED  BY <2>3, <2>4, <2>7, Zenon
  <1>2. CASE later = {}
    <2>1. K = Min(occupied[l])  BY <1>2, Zenon DEF next_slot
    <2>2. occupied[l] \subseteq Nat  BY <1>0, Zenon
    <2>3. K \in occupied[l] /\ \A y \in occupied[l] : K <= y  BY <2>1, <2>2, Least, Zenon
    <2>4. \A k \in occupied[l] : ~ (k >= g)  BY <1>2, Zenon
    <2> QED  BY <2>3, <2>4, Zenon
  <1> QED  BY <1>1, <1>2, Zenon

\* The time at which slot k of wheel l begins in the rotation of time n.
SlotTime(l, k, n) == (n \div SLOTS ^ (l + 1)) * SLOTS ^ (l + 1) + k * SLOTS ^ l

\* The slot that begins at SlotTime is slot k of the rotation of time n.
LEMMA Rotation ==
  ASSUME NEW l \in Levels, NEW k \in Slots, NEW n \in Nat
  PROVE  /\ SlotTime(l, k, n) \in Nat
         /\ Passed(l, SlotTime(l, k, n)) = SLOTS * Passed(l + 1, n) + k
         /\ Passed(l + 1, SlotTime(l, k, n)) = Passed(l + 1, n)
         /\ \A x \in Nat : SlotTime(l, k, n) <= x <=> SLOTS * Passed(l + 1, n) + k <= Passed(l, x)
  <1> DEFINE r == Passed(l + 1, n)
             b == SLOTS * r + k
             t == SlotTime(l, k, n)
  <1>0. /\ l \in 0 .. Bits /\ l + 1 \in 0 .. Bits /\ SLOTS \in Nat \ {0} /\ SLOTS ^ l \in Nat \ {0}
        /\ SLOTS ^ (l + 1) = SLOTS ^ l * SLOTS
    BY Digit, Powers, Zenon
  <1>1. r \in Nat  BY <1>0, PassedType, Zenon
  <1> HIDE DEF r
  <1>2. k \in Nat /\ k \in 0 .. SLOTS - 1  BY <1>0 DEF Slots
  <1>3. b \in Nat  BY <1>0, <1>1, <1>2
  <1>4. t = b * SLOTS ^ l
    <2>1. t = r * (SLOTS ^ l * SLOTS) + k * SLOTS ^ l  BY <1>0, Zenon DEF SlotTime, r, Passed
    <2>2. ASSUME NEW p \in Nat, NEW q \in Nat  PROVE r * (p * q) + k * p = (q * r + k) * p
      BY <1>1, <1>2
    <2>3. r * (SLOTS ^ l * SLOTS) + k * SLOTS ^ l = (SLOTS * r + k) * SLOTS ^ l  BY <1>0, <2>2, Zenon
    <2> QED  BY <2>1, <2>3, Zenon
  <1>5. b \div SLOTS = r  BY <1>0, <1>1, <1>2, <1>3, QuotientUnique, Zenon
  <1> HIDE DEF b, t
  <1>6. t \in Nat /\ Passed(l, t) = b /\ \A x \in Nat : t <= x <=> b <= Passed(l, x)
    BY <1>0, <1>3, <1>4, SlotStart, Zenon
  <1>7. Passed(l + 1, t) = r
    <2>1. /\ Passed(l, t) = SLOTS * Passed(l + 1, t) + slot_index(l, t)
          /\ slot_index(l, t) \in 0 .. SLOTS - 1 /\ Passed(l + 1, t) \in Nat
      BY <1>0, <1>6, Digit, PassedType, Zenon DEF Slots
    <2>2. b \div SLOTS = Passed(l + 1, t)  BY <1>0, <1>3, <1>6, <2>1, QuotientUnique, Zenon
    <2> QED  BY <1>5, <2>2, Zenon
  <1> QED  BY <1>6, <1>7, Zenon DEF r, b, t

\* Nothing is linked when there is no next deadline.
LEMMA NoDeadline ==
  ASSUME Placed, occupied \in [Levels -> SUBSET Slots], next_deadline = {}
  PROVE  \A l \in Levels, k \in Slots : slots[l][k] = {}
  <1>1. \A l \in Levels : occupied[l] = {}  BY Zenon DEF next_deadline
  <1> QED  BY <1>1, Zenon DEF Placed

\* Arithmetic.
LEMMA Between ==
  ASSUME NEW x \in Nat, NEW y \in Nat, x <= y, y <= x  PROVE x = y
  OBVIOUS

\* The entries of a wheel lie beyond the slot found by next_slot, unless they are in it:
\* they have the current rotation and a later slot, or a later rotation.
LEMMA BeyondSlot ==
  ASSUME NEW S \in Nat \ {0}, NEW r \in Nat, NEW e \in Nat, NEW g \in 0 .. S - 1, NEW k \in 0 .. S - 1,
         NEW K \in 0 .. S - 1, r <= e, S * r + g < S * e + k,
         IF k >= g THEN g <= K /\ K <= k ELSE g <= K \/ K <= k
  PROVE  S * r + K <= S * e + k /\ (k = K \/ S * r + K < S * e + k)
  <1>1. CASE e = r
    <2>1. PICK u \in Nat : u = S * r  OBVIOUS
    <2>2. u + g < u + k  BY <1>1, <2>1
    <2> QED  BY <1>1, <2>1, <2>2
  <1>2. CASE e # r
    <2>1. PICK f \in Nat : e = r + 1 + f  BY <1>2
    <2>2. PICK u \in Nat : u = S * r  OBVIOUS
    <2>3. PICK v \in Nat : v = S * f  OBVIOUS
    <2>4. S * e = u + S + v  BY <2>1, <2>2, <2>3
    <2> QED  BY <2>2, <2>4
  <1> QED  BY <1>1, <1>2

\* The next deadline that Core finds: no entry is due before it; every entry but those
\* of its slot belongs into the same wheel from then on; and until then all do.
LEMMA NextDeadline ==
  ASSUME Placed, occupied \in [Levels -> SUBSET Slots], now \in Nat, deadline \in [Sleeps -> Nat],
         slots \in [Levels -> [Slots -> SUBSET Sleeps]], NEW d \in next_deadline
  PROVE  /\ next_deadline = {d} /\ d.wheel \in Levels /\ d.slot \in Slots /\ d.ticks \in Nat
         /\ \A m \in Levels, k \in Slots : \A s \in slots[m][k] :
              /\ d.ticks <= deadline[s]
              /\ (m = d.wheel /\ k = d.slot) \/ (d.ticks < deadline[s] /\ Belongs(d.ticks, deadline[s], m))
              /\ \A n \in Nat : now <= n /\ n < d.ticks => Belongs(n, deadline[s], m)
  <1> DEFINE used == {w \in Levels : occupied[w] # {}}
             l == Min(used)
             K == next_slot(l, now)
             g == slot_index(l, now)
             r == Passed(l + 1, now)
             T == SlotTime(l, K, now)
             b == SLOTS * r + K
  <1>0. Levels \subseteq Nat /\ Slots \subseteq Nat /\ SLOTS \in Nat \ {0} /\ Bits \in Nat
    BY TimerBounds, PowerLaws DEF Levels, Slots
  <1>1. used # {} /\ next_deadline = {wheel_deadline(l, now)}  BY Zenon DEF next_deadline
  <1>2. l \in used /\ \A m \in used : l <= m
    <2>1. used \subseteq Nat  BY <1>0, Zenon
    <2> QED  BY <1>1, <2>1, Least, Zenon
  <1>3. d.wheel = l /\ d.slot = K /\ d.ticks = T
    BY <1>1 DEF wheel_deadline, SlotTime
  <1>4. l \in Levels /\ occupied[l] # {} /\ occupied[l] \subseteq Slots  BY <1>2, Zenon
  <1> HIDE DEF l
  <1>5. /\ K \in occupied[l]
        /\ \A k \in occupied[l] : IF k >= g THEN g <= K /\ K <= k ELSE g <= K \/ K <= k
    BY <1>4, NextSlot, Zenon
  <1>6. K \in Slots  BY <1>4, <1>5, Zenon
  <1> HIDE DEF K
  <1>7. /\ T \in Nat /\ Passed(l, T) = b /\ Passed(l + 1, T) = Passed(l + 1, now)
        /\ \A x \in Nat : T <= x <=> b <= Passed(l, x)
    BY <1>4, <1>6, Rotation, Zenon
  <1>8. /\ l \in 0 .. Bits /\ l + 1 \in 0 .. Bits /\ g \in Slots /\ r \in Nat
        /\ Passed(l, now) = SLOTS * r + g
    BY <1>4, Digit, PassedType, Zenon
  <1> HIDE DEF T, g
  <1>9. ASSUME NEW m \in 0 .. Bits, l + 1 <= m  PROVE Passed(m, T) = Passed(m, now)
    <2>1. T \in Nat /\ l + 1 \in 0 .. Bits /\ Passed(l + 1, T) = Passed(l + 1, now)  BY <1>7, <1>8, Zenon
    <2> QED  BY <1>9, <2>1, SameAbove, Zenon
  <1>10. ASSUME NEW m \in 0 .. Bits, l + 1 <= m, NEW n \in Nat, now <= n, n <= T
         PROVE  Passed(m, n) = Passed(m, now)
    <2>1. T \in Nat /\ Passed(m, T) = Passed(m, now)  BY <1>7, <1>9, <1>10, Zenon
    <2>2. Passed(m, now) <= Passed(m, n) /\ Passed(m, n) <= Passed(m, T)
      BY <1>10, <2>1, PassedGrows, Zenon
    <2>3. Passed(m, n) \in Nat /\ Passed(m, now) \in Nat  BY <1>10, PassedType, Zenon
    <2> QED  BY <2>1, <2>2, <2>3, Between, Zenon
  <1> HIDE DEF r
  <1>11. ASSUME NEW m \in Levels, NEW k \in Slots, NEW s \in slots[m][k]
         PROVE  /\ T <= deadline[s]
                /\ (m = l /\ k = K) \/ (T < deadline[s] /\ Belongs(T, deadline[s], m))
                /\ \A n \in Nat : now <= n /\ n < T => Belongs(n, deadline[s], m)
    <2> DEFINE D == deadline[s]
               e == Passed(l + 1, D)
    <2>0. s \in Sleeps /\ D \in Nat /\ m \in 0 .. Bits  BY <1>11, Digit, Zenon
    <2>1. now < D /\ Belongs(now, D, m) /\ k = slot_index(m, D) /\ k \in occupied[m]
      <3>1. D > now /\ Belongs(now, D, m) /\ k = slot_index(m, D) /\ k \in occupied[m]
        BY <1>11, Zenon DEF Placed
      <3> QED  BY <2>0, <3>1
    <2> HIDE DEF D
    <2>2. l <= m  BY <1>2, <1>11, <2>1, Zenon
    <2>3. CASE l < m
      <3>1. l + 1 <= m /\ (m + 1 \in Levels => m + 1 \in 0 .. Bits /\ l + 1 <= m + 1)
        BY <1>0, <1>4, <2>3, <2>0 DEF Levels
      <3>2. ASSUME NEW n \in Nat, Passed(m, n) = Passed(m, now),
                   m + 1 \in Levels => Passed(m + 1, n) = Passed(m + 1, now)
            PROVE  Belongs(n, D, m)
        BY <2>1, <3>2, Zenon DEF Belongs
      <3>3. Belongs(T, D, m)  BY <1>7, <1>9, <2>0, <3>1, <3>2, Zenon
      <3>4. T < D
        <4>1. SUFFICES ASSUME D <= T  PROVE FALSE  BY <1>7, <2>0
        <4>2. Passed(m, T) < Passed(m, D) /\ Passed(m, D) <= Passed(m, T)
          BY <1>7, <2>0, <3>3, <4>1, PassedGrows, Zenon DEF Belongs
        <4>3. Passed(m, T) \in Nat /\ Passed(m, D) \in Nat  BY <1>7, <2>0, PassedType, Zenon
        <4> QED  BY <4>2, <4>3
      <3>5. \A n \in Nat : n < T => n <= T  BY <1>7
      <3>6. T <= D  BY <1>7, <2>0, <3>4
      <3>7. ASSUME NEW n \in Nat, now <= n, n < T  PROVE Belongs(n, D, m)
        BY <1>10, <2>0, <3>1, <3>2, <3>5, <3>7, Zenon
      <3> QED  BY <3>3, <3>4, <3>6, <3>7, Zenon DEF D
    <2>4. CASE l = m
      <3>1. /\ e \in Nat /\ Passed(l, D) = SLOTS * e + k /\ r <= e /\ Passed(l, now) < Passed(l, D)
            /\ k \in occupied[l] /\ (l + 1 \in Levels => e = r)
        <4>1. now <= D  BY <2>0, <2>1
        <4> QED  BY <1>4, <1>8, <2>0, <2>1, <2>4, <4>1, Digit, PassedType, PassedGrows, Zenon DEF r, Belongs
      <3>2. b <= Passed(l, D) /\ (k = K \/ b < Passed(l, D))
        <4>1. /\ g \in 0 .. SLOTS - 1 /\ k \in 0 .. SLOTS - 1 /\ K \in 0 .. SLOTS - 1
              /\ IF k >= g THEN g <= K /\ K <= k ELSE g <= K \/ K <= k
          BY <1>5, <1>6, <1>8, <1>11, <3>1, Zenon DEF Slots
        <4>2. SLOTS * r + g < SLOTS * e + k  BY <1>8, <3>1, Zenon
        <4>3. e \in Nat /\ r \in Nat /\ r <= e /\ SLOTS \in Nat \ {0}  BY <1>0, <1>8, <3>1, Zenon
        <4> HIDE DEF e
        <4>4. SLOTS * r + K <= SLOTS * e + k /\ (k = K \/ SLOTS * r + K < SLOTS * e + k)
          BY <4>1, <4>2, <4>3, BeyondSlot, Zenon
        <4> QED  BY <3>1, <4>4, Zenon
      <3>3. T <= D  BY <1>7, <2>0, <3>2, Zenon
      <3>4. ASSUME k # K  PROVE T < D /\ Belongs(T, D, l)
        <4>1. Passed(l, T) < Passed(l, D)  BY <1>7, <3>2, <3>4, Zenon
        <4>2. T # D
          <5>1. SUFFICES ASSUME T = D  PROVE FALSE  OBVIOUS
          <5>2. Passed(l, T) \in Nat  BY <1>7, <1>8, PassedType, Zenon
          <5> QED  BY <4>1, <5>1, <5>2
        <4>3. T < D  BY <1>7, <2>0, <3>3, <4>2
        <4>4. Belongs(T, D, l)  BY <1>7, <3>1, <4>1, Zenon DEF Belongs, r
        <4> QED  BY <4>3, <4>4, Zenon
      <3>5. ASSUME NEW n \in Nat, now <= n, n < T  PROVE Belongs(n, D, l)
        <4>1. Passed(l, n) < b
          <5>1. ~ (T <= n)  BY <1>7, <3>5
          <5>2. ~ (b <= Passed(l, n)) /\ Passed(l, n) \in Nat /\ Passed(l, T) \in Nat
            BY <1>7, <1>8, <5>1, PassedType, Zenon
          <5>3. b \in Nat  BY <1>7, <5>2, Zenon
          <5> HIDE DEF b
          <5> QED  BY <5>2, <5>3
        <4>2. Passed(l, n) < Passed(l, D)
          <5>1. Passed(l, n) \in Nat /\ Passed(l, D) \in Nat /\ Passed(l, T) \in Nat
            BY <1>7, <1>8, <2>0, PassedType, Zenon
          <5>2. b \in Nat  BY <1>7, <5>1, Zenon
          <5> HIDE DEF b
          <5> QED  BY <3>2, <4>1, <5>1, <5>2
        <4>3. l + 1 <= l + 1 /\ n <= T  BY <1>7, <1>8, <3>5
        <4>4. Passed(l + 1, n) = Passed(l + 1, now)  BY <1>8, <1>10, <3>5, <4>3, Zenon
        <4> QED  BY <3>1, <4>2, <4>4, Zenon DEF Belongs, r
      <3> QED  BY <2>4, <3>3, <3>4, <3>5, Zenon DEF D
    <2>5. l < m \/ l = m  BY <2>2, <1>0, <1>4
    <2> QED  BY <2>3, <2>4, <2>5, Zenon
  <1> QED  BY <1>1, <1>3, <1>4, <1>6, <1>7, <1>11, Zenon

-----------------------------------------------------------------------------
(* The inductive invariant. *)

\* The handler turns the wheels; the thread is in the critical section of register or
\* cancel.
Polling(c) == handler[c] \in {"poll", "again"}
Critical(c) == pc[c].at \in {"arm", "unlock"}

\* Who holds the lock; the handler does not run in a critical section of its CPU but
\* to find the lock taken.
Locking ==
  /\ \A c \in Cpus : lock = c <=> Critical(c) \/ Polling(c)
  /\ \A c \in Cpus : Critical(c) => handler[c] = "idle"

\* One thread has a Sleep in its hands, and its state fits the place of that thread.
Owning ==
  /\ \A c \in Cpus : pc[c].sleep = "none" <=> pc[c].at = "idle"
  /\ \A c, d \in Cpus : pc[c].sleep = pc[d].sleep /\ pc[c].sleep # "none" => c = d
  /\ \A c \in Cpus :
       /\ Critical(c) => fut[pc[c].sleep] \in {"Unregistered", "dropping"}
       /\ pc[c].at = "poll_wait" => fut[pc[c].sleep] = "Registered"
       /\ pc[c].at = "cancel" => fut[pc[c].sleep] = "dropping"

\* The locals of turn_locked and Core::poll.
Turning ==
  /\ (\A c \in Cpus : ~Polling(c)) => turn.pending = {} /\ turn.firing = {}
  /\ \A c \in Cpus : handler[c] = "again" => turn.pending = {} /\ turn.firing = {}
  /\ turn.now <= clock
  /\ \A c \in Cpus : Polling(c) => now <= turn.now
  /\ \A s \in turn.pending : deadline[s] > turn.now
  /\ \A s \in turn.firing : deadline[s] <= turn.now

\* Who is between Core::register or Core::cancel and the end of the lock, with s.
Registering(s) == \E c \in Cpus : Critical(c) /\ pc[c].sleep = s

\* An entry whose flag is set is linked, or a turn has it; the flag, the WaitCell and
\* the state of the Sleep fit together; what is closed or complete was due.
Entry(s) ==
  /\ Linked(s) \/ s \in turn.pending => registered[s]
  /\ registered[s] => Linked(s) \/ s \in turn.pending \/ s \in turn.firing
  /\ Linked(s) => s \notin turn.pending /\ s \notin turn.firing
  /\ s \in turn.pending => s \notin turn.firing
  /\ registered[s] => fut[s] \in {"Registered", "dropping", "Unregistered"} /\ waker[s] # "closed"
  /\ fut[s] = "none" => ~registered[s] /\ waker[s] = "empty" /\ s \notin turn.firing
  /\ fut[s] = "Unregistered" => s \notin turn.firing
  /\ fut[s] = "Unregistered" /\ (registered[s] \/ waker[s] = "closed") => Registering(s)
  /\ fut[s] = "dropping" /\ Registering(s) => ~registered[s]
  /\ fut[s] = "Unregistered" /\ Registering(s) => registered[s] \/ waker[s] = "closed"
  /\ waker[s] = "closed" => deadline[s] <= clock
  /\ fut[s] = "Completed" => deadline[s] <= clock
  /\ fut[s] = "Registered" /\ ~registered[s] => deadline[s] <= clock

Entries == \A s \in Sleeps : Entry(s)

\* An alarm or a returned deadline that is not after the deadline of s; somebody who has
\* one, or who will yet ask for the next deadline.
Covers(S, s) == \E t \in S : t <= deadline[s]

Awaited(s) ==
  \/ \E c \in Cpus : handler[c] = "idle" /\ Covers(alarm[c], s)
  \/ \E c \in Cpus : pc[c].at = "arm" \/ Polling(c)
  \/ \E c \in Cpus : handler[c] = "arm" /\ Covers(returned[c], s)

\* As long as no interrupt hits a thread between schedule_wakeup and the end of its
\* lock, every linked entry is awaited, and such a thread has set its alarm for all.
Alarms ==
  \/ nested
  \/ /\ \A s \in Sleeps : Linked(s) => Awaited(s)
     /\ \A c \in Cpus : pc[c].at = "unlock" => \A s \in Sleeps : Linked(s) => Covers(alarm[c], s)

\* The handler keeps one deadline, or none.
Returns == \A c \in Cpus : \A t, u \in returned[c] : t = u

\* The inductive invariant.
IInv ==
  TypeOK /\ Returns /\ Locking /\ Owning /\ Placed /\ Turning /\ Entries /\ Alarms

-----------------------------------------------------------------------------
(* What each step does. *)

\* The places of the threads, and the states of the Sleeps.
PcTypes == [Cpus -> [at : {"idle", "arm", "unlock", "poll_wait", "cancel"}, sleep : Sleeps \cup {"none"}]]
FutTypes == [Sleeps -> {"none", "Unregistered", "Registered", "Completed", "dropping", "gone"}]

\* A function changed at one argument.
Changed(new, old, S, x, v) == new[x] = v /\ \A y \in S \ {x} : new[y] = old[y]

\* The thread of c goes on to a place with a Sleep in its hands.
Goes(c, at, s) == pc'[c].at = at /\ pc'[c].sleep = s /\ \A d \in Cpus \ {c} : pc'[d] = pc[d]

\* The entries e are inserted at time n.
Lands(s, n, l, k) == wheel_index(n, deadline[s]) = l /\ slot_index(l, deadline[s]) = k

Inserts(e, n) ==
  /\ \A l \in Levels, k \in Slots : slots'[l][k] = slots[l][k] \cup {s \in e : Lands(s, n, l, k)}
  /\ \A l \in Levels, k \in Slots :
       k \in occupied'[l] <=> k \in occupied[l] \/ \E s \in e : Lands(s, n, l, k)

\* The slot k0 of wheel l0 is left with the entries `rest'.
Leaves(l0, k0, rest) ==
  /\ \A l \in Levels, k \in Slots :
       slots'[l][k] = IF l = l0 /\ k = k0 THEN rest ELSE slots[l][k]
  /\ \A l \in Levels, k \in Slots :
       k \in occupied'[l] <=> k \in occupied[l] /\ ~ (l = l0 /\ k = k0 /\ rest = {})

\* The fields of the state.
LEMMA TypeFields ==
  ASSUME TypeOK
  PROVE  /\ clock \in Nat /\ now \in Nat /\ now <= clock /\ start \in Nat
         /\ slots \in [Levels -> [Slots -> SUBSET Sleeps]] /\ occupied \in [Levels -> SUBSET Slots]
         /\ lock \in Cpus \cup {NoCpu} /\ alarm \in [Cpus -> SUBSET Nat] /\ returned \in [Cpus -> SUBSET Nat]
         /\ fut \in [Sleeps -> {"none", "Unregistered", "Registered", "Completed", "dropping", "gone"}]
         /\ deadline \in [Sleeps -> Nat] /\ registered \in [Sleeps -> BOOLEAN]
         /\ waker \in [Sleeps -> {"empty", "waiting", "closed"}]
         /\ pc \in [Cpus -> [at : {"idle", "arm", "unlock", "poll_wait", "cancel"},
                             sleep : Sleeps \cup {"none"}]]
         /\ \A c \in Cpus : pc[c].sleep \in Sleeps \cup {"none"}
         /\ handler \in [Cpus -> {"idle", "poll", "again", "arm"}]
         /\ turn \in [now : Nat, pending : SUBSET Sleeps, firing : SUBSET Sleeps]
         /\ turn.now \in Nat /\ turn.pending \subseteq Sleeps /\ turn.firing \subseteq Sleeps
  <1>1. start \in Nat  BY TimerBounds DEF TypeOK
  <1>2. clock \in Nat /\ now \in Nat /\ now <= clock  BY <1>1, TimerBounds DEF TypeOK
  <1>3. \A c \in Cpus : pc[c].sleep \in Sleeps \cup {"none"}  BY DEF TypeOK
  <1>4. turn.now \in Nat /\ turn.pending \subseteq Sleeps /\ turn.firing \subseteq Sleeps  BY DEF TypeOK
  <1> QED  BY <1>1, <1>2, <1>3, <1>4, Zenon DEF TypeOK

\* Goto, place by place.
LEMMA GotoDoes ==
  ASSUME TypeOK, NEW c \in Cpus, NEW at, NEW s, Goto(c, at, s)
  PROVE  Goes(c, at, s)
  <1>1. pc'[c] = [at |-> at, sleep |-> s] /\ \A d \in Cpus \ {c} : pc'[d] = pc[d]
    BY TypeFields, Zenon DEF Goto
  <1> QED  BY <1>1 DEF Goes

\* The thread is done with its Sleep.
LEMMA IdleDoes ==
  ASSUME TypeOK, NEW c \in Cpus, pc' = [pc EXCEPT ![c] = Idle]
  PROVE  Goes(c, "idle", "none")
  <1>1. pc'[c] = Idle /\ \A d \in Cpus \ {c} : pc'[d] = pc[d]  BY TypeFields, Zenon
  <1> QED  BY <1>1 DEF Goes, Idle

\* Core::insert_at, slot by slot.
LEMMA InsertDoes ==
  ASSUME TypeOK, NEW e, NEW n, insert_at(e, n)
  PROVE  Inserts(e, n)
  <1>1. \A l \in Levels, k \in Slots : slots'[l][k] = slots[l][k] \cup {s \in e : Lands(s, n, l, k)}
    BY Zenon DEF insert_at, Lands
  <1>2. \A l \in Levels, k \in Slots :
          k \in occupied'[l] <=> k \in occupied[l] \/ \E s \in e : Lands(s, n, l, k)
    BY Zenon DEF insert_at, Lands
  <1> QED  BY <1>1, <1>2, Zenon DEF Inserts

\* wheel_index finds a wheel, also for a time that has passed.
LEMMA WheelType ==
  ASSUME NEW n \in Nat, NEW t \in Nat
  PROVE  wheel_index(n, t) \in Levels
  <1> DEFINE D == {l \in Levels : n \div SLOTS ^ l # t \div SLOTS ^ l}
  <1>0. Bits \in Nat /\ 0 \in Levels /\ D \subseteq 0 .. Bits  BY TimerBounds DEF Levels
  <1>1. CASE D = {}  BY <1>0, <1>1, Zenon DEF wheel_index
  <1>2. CASE D # {}
    <2>1. Max(D) \in D  BY <1>0, <1>2, Greatest, Zenon
    <2>2. wheel_index(n, t) = Max(D)  BY <1>2, Zenon DEF wheel_index
    <2> QED  BY <2>1, <2>2, Zenon
  <1> QED  BY <1>1, <1>2, Zenon

\* Taking entries out of one slot.
LEMMA LeaveDoes ==
  ASSUME TypeOK, NEW l0 \in Levels, NEW k0 \in Slots, NEW rest,
         slots' = [slots EXCEPT ![l0][k0] = rest],
         occupied' = [occupied EXCEPT ![l0] = IF rest = {} THEN @ \ {k0} ELSE @]
  PROVE  Leaves(l0, k0, rest)
  <1>1. ASSUME NEW l \in Levels, NEW k \in Slots
        PROVE  slots'[l][k] = IF l = l0 /\ k = k0 THEN rest ELSE slots[l][k]
    <2>1. slots'[l0] = [slots[l0] EXCEPT ![k0] = rest] /\ (l # l0 => slots'[l] = slots[l])
      BY <1>1, TypeFields, Zenon
    <2>2. slots[l0] \in [Slots -> SUBSET Sleeps]  BY TypeFields, Zenon
    <2>3. slots'[l0][k] = IF k = k0 THEN rest ELSE slots[l0][k]  BY <1>1, <2>1, <2>2, Zenon
    <2> QED  BY <2>1, <2>3
  <1>2. ASSUME NEW l \in Levels, NEW k \in Slots
        PROVE  k \in occupied'[l] <=> k \in occupied[l] /\ ~ (l = l0 /\ k = k0 /\ rest = {})
    <2>1. /\ occupied'[l0] = IF rest = {} THEN occupied[l0] \ {k0} ELSE occupied[l0]
          /\ l # l0 => occupied'[l] = occupied[l]
      BY <1>2, TypeFields, Zenon
    <2> QED  BY <2>1
  <1> QED  BY <1>1, <1>2, Zenon DEF Leaves

\* An update of one component.
LEMMA Updated ==
  ASSUME NEW S, NEW V, NEW f \in [S -> V], NEW x \in S, NEW v, NEW g, g = [f EXCEPT ![x] = v]
  PROVE  Changed(g, f, S, x, v)
  BY Zenon DEF Changed

\* The thread has a Sleep in its hands outside "idle".
LEMMA InHand ==
  ASSUME TypeOK, Owning, NEW c \in Cpus, pc[c].at # "idle"
  PROVE  pc[c].sleep \in Sleeps
  BY TypeFields, Zenon DEF Owning

\* schedule_wakeup at the end of register and cancel.
LEMMA ArmDoes ==
  ASSUME TypeOK, NEW c \in Cpus, Arm(c)
  PROVE  /\ handler[c] = "idle" /\ pc[c].at = "arm"
         /\ Changed(alarm', alarm, Cpus, c, next_ticks) /\ Goes(c, "unlock", pc[c].sleep)
         /\ UNCHANGED <<start, clock, now, slots, occupied, lock, fut, deadline, registered,
                        waker, handler, turn, returned, nested>>
  <1>1. /\ handler[c] = "idle" /\ pc[c].at = "arm"
        /\ alarm' = [alarm EXCEPT ![c] = next_ticks] /\ Goto(c, "unlock", pc[c].sleep)
        /\ UNCHANGED <<start, clock, now, slots, occupied, lock, fut, deadline, registered,
                       waker, handler, turn, returned, nested>>
    BY Zenon DEF Arm, At
  <1>2. Changed(alarm', alarm, Cpus, c, next_ticks)  BY <1>1, TypeFields, Updated, Zenon
  <1> QED  BY <1>1, <1>2, GotoDoes, Zenon

\* The guard is dropped.
LEMMA UnlockDoes ==
  ASSUME TypeOK, Owning, NEW c \in Cpus, Unlock(c)
  PROVE  /\ pc[c].sleep \in Sleeps /\ handler[c] = "idle" /\ pc[c].at = "unlock" /\ lock' = NoCpu
         /\ \/ /\ fut[pc[c].sleep] = "Unregistered" /\ waker[pc[c].sleep] # "closed"
               /\ Changed(fut', fut, Sleeps, pc[c].sleep, "Registered")
               /\ Goes(c, "poll_wait", pc[c].sleep)
            \/ /\ fut[pc[c].sleep] = "Unregistered" /\ waker[pc[c].sleep] = "closed"
               /\ Changed(fut', fut, Sleeps, pc[c].sleep, "Completed")
               /\ Goes(c, "idle", "none")
            \/ /\ fut[pc[c].sleep] = "dropping"
               /\ Changed(fut', fut, Sleeps, pc[c].sleep, "gone")
               /\ Goes(c, "idle", "none")
         /\ UNCHANGED <<start, clock, now, slots, occupied, alarm, deadline, registered,
                        waker, handler, turn, returned, nested>>
  <1>s. pc[c].sleep \in Sleeps
    <2>1. pc[c].at = "unlock"  BY Zenon DEF Unlock, At
    <2> QED  BY <2>1, InHand
  <1>0. /\ handler[c] = "idle" /\ pc[c].at = "unlock" /\ lock' = NoCpu
        /\ UNCHANGED <<start, clock, now, slots, occupied, alarm, deadline, registered,
                       waker, handler, turn, returned, nested>>
    BY Zenon DEF Unlock, At
  <1>1. \A v : fut' = [fut EXCEPT ![pc[c].sleep] = v] => Changed(fut', fut, Sleeps, pc[c].sleep, v)
    BY <1>s, TypeFields, Updated, Zenon
  <1> QED  BY <1>s, <1>0, <1>1, GotoDoes, IdleDoes, Zenon DEF Unlock

\* WaitCell::poll_wait.
LEMMA PollWaitDoes ==
  ASSUME TypeOK, Owning, NEW c \in Cpus, PollWait(c)
  PROVE  /\ pc[c].sleep \in Sleeps /\ handler[c] = "idle" /\ pc[c].at = "poll_wait" /\ Goes(c, "idle", "none")
         /\ \/ /\ waker[pc[c].sleep] = "closed"
               /\ Changed(fut', fut, Sleeps, pc[c].sleep, "Completed") /\ waker' = waker
            \/ /\ waker[pc[c].sleep] # "closed"
               /\ Changed(waker', waker, Sleeps, pc[c].sleep, "waiting") /\ fut' = fut
         /\ UNCHANGED <<start, clock, now, slots, occupied, lock, alarm, deadline,
                        registered, handler, turn, returned, nested>>
  <1>s. pc[c].sleep \in Sleeps
    <2>1. pc[c].at = "poll_wait"  BY Zenon DEF PollWait, At
    <2> QED  BY <2>1, InHand
  <1>0. /\ handler[c] = "idle" /\ pc[c].at = "poll_wait" /\ pc' = [pc EXCEPT ![c] = Idle]
        /\ UNCHANGED <<start, clock, now, slots, occupied, lock, alarm, deadline,
                       registered, handler, turn, returned, nested>>
    BY Zenon DEF PollWait, At
  <1>1. \A v : fut' = [fut EXCEPT ![pc[c].sleep] = v] => Changed(fut', fut, Sleeps, pc[c].sleep, v)
    BY <1>s, TypeFields, Updated, Zenon
  <1>2. \A v : waker' = [waker EXCEPT ![pc[c].sleep] = v] => Changed(waker', waker, Sleeps, pc[c].sleep, v)
    BY <1>s, TypeFields, Updated, Zenon
  <1> QED  BY <1>s, <1>0, <1>1, <1>2, IdleDoes, Zenon DEF PollWait

\* Core::cancel.
LEMMA CancelDoes ==
  ASSUME TypeOK, Owning, NEW c \in Cpus, Cancel(c)
  PROVE  LET s == pc[c].sleep
             l == wheel_index(now, deadline[s])
             k == slot_index(l, deadline[s])
         IN  /\ s \in Sleeps /\ handler[c] = "idle" /\ pc[c].at = "cancel" /\ lock = NoCpu /\ lock' = c
             /\ Goes(c, "arm", s) /\ l \in Levels /\ k \in Slots
             /\ Leaves(l, k, slots[l][k] \ {s})
             /\ Changed(registered', registered, Sleeps, s, registered[s] /\ s \notin slots[l][k])
             /\ UNCHANGED <<start, clock, now, alarm, fut, deadline, waker, handler, turn, returned,
                            nested>>
  <1>s. pc[c].sleep \in Sleeps
    <2>1. pc[c].at = "cancel"  BY Zenon DEF Cancel, At
    <2> QED  BY <2>1, InHand
  <1> DEFINE s == pc[c].sleep
             l == wheel_index(now, deadline[s])
             k == slot_index(l, deadline[s])
             rest == slots[l][k] \ {s}
  <1>0. /\ handler[c] = "idle" /\ pc[c].at = "cancel" /\ lock = NoCpu /\ lock' = c
        /\ slots' = [slots EXCEPT ![l][k] = rest]
        /\ registered' = [registered EXCEPT ![s] = @ /\ s \notin slots[l][k]]
        /\ occupied' = [occupied EXCEPT ![l] = IF rest = {} THEN @ \ {k} ELSE @]
        /\ Goto(c, "arm", s)
        /\ UNCHANGED <<start, clock, now, alarm, fut, deadline, waker, handler, turn, returned, nested>>
    BY Zenon DEF Cancel, At
  <1>1. deadline[s] \in Nat /\ now \in Nat  BY <1>s, TypeFields, Zenon
  <1>2. l \in Levels /\ k \in Slots  BY <1>1, WheelType, Digit, Zenon
  <1> HIDE DEF l, k
  <1>3. Changed(registered', registered, Sleeps, s, registered[s] /\ s \notin slots[l][k])
    BY <1>s, <1>0, TypeFields, Updated, Zenon
  <1>4. Leaves(l, k, rest)  BY <1>0, <1>2, LeaveDoes, Zenon
  <1> QED  BY <1>s, <1>0, <1>2, <1>3, <1>4, GotoDoes, Zenon DEF l, k

\* Core::register.
LEMMA RegisterDoes ==
  ASSUME TypeOK, NEW c \in Cpus, NEW s \in Sleeps, Register(c, s)
  PROVE  /\ handler[c] = "idle" /\ pc[c] = Idle /\ \A d \in Cpus : pc[d].sleep # s
         /\ fut[s] = "Unregistered" /\ lock = NoCpu /\ lock' = c /\ Goes(c, "arm", s)
         /\ \/ /\ deadline[s] <= now /\ Changed(waker', waker, Sleeps, s, "closed")
               /\ UNCHANGED <<slots, occupied, registered>>
            \/ /\ deadline[s] > now /\ Changed(registered', registered, Sleeps, s, TRUE)
               /\ Inserts({s}, now) /\ waker' = waker
         /\ UNCHANGED <<start, clock, now, alarm, fut, deadline, handler, turn, returned, nested>>
  <1>0. /\ handler[c] = "idle" /\ pc[c] = Idle /\ \A d \in Cpus : pc[d].sleep # s
        /\ fut[s] = "Unregistered" /\ lock = NoCpu /\ lock' = c
        /\ \/ /\ deadline[s] <= now /\ waker' = [waker EXCEPT ![s] = "closed"]
              /\ UNCHANGED <<slots, occupied, registered>>
           \/ /\ deadline[s] > now /\ registered' = [registered EXCEPT ![s] = TRUE]
              /\ insert_at({s}, now) /\ waker' = waker
        /\ Goto(c, "arm", s)
        /\ UNCHANGED <<start, clock, now, alarm, fut, deadline, handler, turn, returned, nested>>
    BY Zenon DEF Register, MayUse
  <1>1. \A v : waker' = [waker EXCEPT ![s] = v] => Changed(waker', waker, Sleeps, s, v)
    BY TypeFields, Updated, Zenon
  <1>2. \A v : registered' = [registered EXCEPT ![s] = v] => Changed(registered', registered, Sleeps, s, v)
    BY TypeFields, Updated, Zenon
  <1> QED  BY <1>0, <1>1, <1>2, GotoDoes, InsertDoes, Zenon
\* A later poll of a Sleep.
LEMMA PollAgainDoes ==
  ASSUME TypeOK, NEW c \in Cpus, NEW s \in Sleeps, PollAgain(c, s)
  PROVE  /\ handler[c] = "idle" /\ pc[c] = Idle /\ \A d \in Cpus : pc[d].sleep # s
         /\ fut[s] = "Registered"
         /\ \/ registered[s] /\ Goes(c, "poll_wait", s) /\ fut' = fut
            \/ ~registered[s] /\ Changed(fut', fut, Sleeps, s, "Completed") /\ pc' = pc
         /\ UNCHANGED <<start, clock, now, slots, occupied, lock, alarm, deadline,
                        registered, waker, handler, turn, returned, nested>>
  <1>1. fut' = [fut EXCEPT ![s] = "Completed"] => Changed(fut', fut, Sleeps, s, "Completed")
    BY TypeFields, Updated, Zenon
  <1> QED  BY <1>1, GotoDoes, Zenon DEF PollAgain, MayUse

\* Drop for Sleep.
LEMMA DropDoes ==
  ASSUME TypeOK, NEW c \in Cpus, NEW s \in Sleeps, DropSleep(c, s)
  PROVE  /\ handler[c] = "idle" /\ pc[c] = Idle /\ \A d \in Cpus : pc[d].sleep # s
         /\ fut[s] \in {"Unregistered", "Registered", "Completed"}
         /\ \/ registered[s] /\ Goes(c, "cancel", s) /\ Changed(fut', fut, Sleeps, s, "dropping")
            \/ ~registered[s] /\ Changed(fut', fut, Sleeps, s, "gone") /\ pc' = pc
         /\ UNCHANGED <<start, clock, now, slots, occupied, lock, alarm, deadline,
                        registered, waker, handler, turn, returned, nested>>
  <1>1. \A v : fut' = [fut EXCEPT ![s] = v] => Changed(fut', fut, Sleeps, s, v)
    BY TypeFields, Updated, Zenon
  <1> QED  BY <1>1, GotoDoes, Zenon DEF DropSleep, MayUse

\* sleep().
LEMMA SleepDoes ==
  ASSUME TypeOK, NEW c \in Cpus, NEW s \in Sleeps, NEW d \in Durations, Sleep(c, s, d)
  PROVE  /\ \A e \in Cpus : pc[e].sleep # s
         /\ fut[s] = "none" /\ Changed(fut', fut, Sleeps, s, "Unregistered")
         /\ Changed(deadline', deadline, Sleeps, s, clock + d)
         /\ UNCHANGED <<start, clock, now, slots, occupied, lock, alarm, registered, waker,
                        pc, handler, turn, returned, nested>>
  <1>1. fut' = [fut EXCEPT ![s] = "Unregistered"] => Changed(fut', fut, Sleeps, s, "Unregistered")
    BY TypeFields, Updated, Zenon
  <1>2. deadline' = [deadline EXCEPT ![s] = clock + d] => Changed(deadline', deadline, Sleeps, s, clock + d)
    BY TypeFields, Updated, Zenon
  <1> QED  BY <1>1, <1>2, Zenon DEF Sleep, MayUse

\* An interrupt finds the lock taken.
LEMMA TurnBusyDoes ==
  ASSUME TypeOK, NEW c \in Cpus, TurnBusy(c)
  PROVE  /\ handler[c] = "idle" /\ lock # NoCpu /\ Changed(alarm', alarm, Cpus, c, {})
         /\ nested' = (nested \/ pc[c].at = "unlock")
         /\ UNCHANGED <<start, clock, now, slots, occupied, lock, fut, deadline, registered,
                        waker, pc, handler, turn, returned>>
  <1>1. alarm' = [alarm EXCEPT ![c] = {}] => Changed(alarm', alarm, Cpus, c, {})
    BY TypeFields, Updated, Zenon
  <1> QED  BY <1>1, Zenon DEF TurnBusy, AlarmDue

\* turn_locked begins; Core::now is never ahead of the clock.
LEMMA TurnStartDoes ==
  ASSUME TypeOK, NEW c \in Cpus, TurnStart(c)
  PROVE  /\ handler[c] = "idle" /\ lock = NoCpu /\ lock' = c
         /\ Changed(handler', handler, Cpus, c, "poll")
         /\ turn'.now = clock /\ turn'.pending = {} /\ turn'.firing = {}
         /\ UNCHANGED <<start, clock, now, slots, occupied, alarm, fut, deadline, registered,
                        waker, pc, returned, nested>>
  <1>1. handler' = [handler EXCEPT ![c] = "poll"] => Changed(handler', handler, Cpus, c, "poll")
    BY TypeFields, Updated, Zenon
  <1>2. turn' = [NoTurn EXCEPT !.now = IF clock < now THEN now ELSE clock]  BY Zenon DEF TurnStart
  <1>3. ~(clock < now)  BY TypeFields
  <1>4. turn'.now = clock /\ turn'.pending = {} /\ turn'.firing = {}  BY <1>2, <1>3 DEF NoTurn
  <1> QED  BY <1>1, <1>4, Zenon DEF TurnStart, AlarmDue

\* An iteration of Core::poll empties the slot of the next deadline.
LEMMA PollSlotDoes ==
  ASSUME TypeOK, Placed, NEW c \in Cpus, PollSlot(c)
  PROVE  /\ handler[c] = "poll" /\ turn.firing = {} /\ turn'.now = turn.now
         /\ \E d \in next_deadline :
              /\ d.wheel \in Levels /\ d.slot \in Slots /\ d.ticks <= turn.now /\ now' = d.ticks
              /\ Leaves(d.wheel, d.slot, {})
              /\ turn'.firing = {s \in slots[d.wheel][d.slot] : deadline[s] <= turn.now}
              /\ turn'.pending =
                   turn.pending \cup {s \in slots[d.wheel][d.slot] : ~(deadline[s] <= turn.now)}
         /\ UNCHANGED <<start, clock, lock, alarm, fut, deadline, registered, waker, pc,
                        handler, returned, nested>>
  <1>1. /\ handler[c] = "poll" /\ turn.firing = {}
        /\ UNCHANGED <<start, clock, lock, alarm, fut, deadline, registered, waker, pc,
                       handler, returned, nested>>
    BY Zenon DEF PollSlot
  <1>2. PICK d \in DueSlots :
          LET entries == slots[d.wheel][d.slot]
          IN  /\ slots' = [slots EXCEPT ![d.wheel][d.slot] = {}]
              /\ occupied' = [occupied EXCEPT ![d.wheel] = @ \ {d.slot}]
              /\ turn' = [turn EXCEPT !.firing = Expired(entries),
                                      !.pending = @ \cup (entries \ Expired(entries))]
              /\ now' = d.ticks
    BY Zenon DEF PollSlot
  <1>3. d \in next_deadline /\ d.ticks <= turn.now  BY Zenon DEF DueSlots
  <1>4. d.wheel \in Levels /\ d.slot \in Slots  BY <1>3, TypeFields, NextDeadline, Zenon
  <1> DEFINE E == slots[d.wheel][d.slot]
  <1>5. /\ turn'.now = turn.now /\ turn'.firing = Expired(E)
        /\ turn'.pending = turn.pending \cup (E \ Expired(E))
    <2>1. turn \in [now : Nat, pending : SUBSET Sleeps, firing : SUBSET Sleeps]  BY TypeFields, Zenon
    <2> HIDE DEF E
    <2>2. turn' = [turn EXCEPT !.firing = Expired(E), !.pending = @ \cup (E \ Expired(E))]
      BY <1>2, Zenon DEF E
    <2> QED  BY <2>1, <2>2
  <1>6. E \ Expired(E) = {s \in E : ~(deadline[s] <= turn.now)}  BY Zenon DEF Expired
  <1>7. Leaves(d.wheel, d.slot, {})
    <2>1. occupied' = [occupied EXCEPT ![d.wheel] = IF {} = {} THEN @ \ {d.slot} ELSE @]  BY <1>2
    <2> QED  BY <1>2, <1>4, <2>1, LeaveDoes, Zenon
  <1>8. turn'.firing = {s \in E : deadline[s] <= turn.now}  BY <1>5, Zenon DEF Expired
  <1> QED  BY <1>1, <1>2, <1>3, <1>4, <1>5, <1>6, <1>7, <1>8, Zenon

\* The end of Core::poll.
LEMMA PollEndDoes ==
  ASSUME TypeOK, NEW c \in Cpus, PollEnd(c)
  PROVE  /\ handler[c] = "poll" /\ turn.firing = {} /\ DueSlots = {} /\ now' = turn.now
         /\ Inserts(turn.pending, turn.now)
         /\ turn'.now = turn.now /\ turn'.pending = {} /\ turn'.firing = {}
         /\ Changed(handler', handler, Cpus, c, "again")
         /\ UNCHANGED <<start, clock, lock, alarm, fut, deadline, registered, waker, pc, returned,
                        nested>>
  <1>1. handler' = [handler EXCEPT ![c] = "again"] => Changed(handler', handler, Cpus, c, "again")
    BY TypeFields, Updated, Zenon
  <1>2. turn' = [turn EXCEPT !.pending = {}] /\ turn.firing = {}  BY Zenon DEF PollEnd
  <1>3. turn'.now = turn.now /\ turn'.pending = {} /\ turn'.firing = {}  BY <1>2, TypeFields
  <1> QED  BY <1>1, <1>3, InsertDoes, Zenon DEF PollEnd

\* turn_locked polls again.
LEMMA TurnAgainDoes ==
  ASSUME TypeOK, NEW c \in Cpus, TurnAgain(c)
  PROVE  /\ handler[c] = "again" /\ Changed(handler', handler, Cpus, c, "poll")
         /\ turn'.now = clock /\ turn'.pending = turn.pending /\ turn'.firing = turn.firing
         /\ UNCHANGED <<start, clock, now, slots, occupied, lock, alarm, fut, deadline,
                        registered, waker, pc, returned, nested>>
  <1>1. handler' = [handler EXCEPT ![c] = "poll"] => Changed(handler', handler, Cpus, c, "poll")
    BY TypeFields, Updated, Zenon
  <1>2. turn' = [turn EXCEPT !.now = clock]  BY Zenon DEF TurnAgain
  <1>3. turn'.now = clock /\ turn'.pending = turn.pending /\ turn'.firing = turn.firing
    BY <1>2, TypeFields
  <1> QED  BY <1>1, <1>3, Zenon DEF TurnAgain

\* turn_locked returns the next deadline.
LEMMA TurnEndDoes ==
  ASSUME TypeOK, NEW c \in Cpus, TurnEnd(c)
  PROVE  /\ handler[c] = "again" /\ Changed(handler', handler, Cpus, c, "arm")
         /\ turn'.now = 0 /\ turn'.pending = {} /\ turn'.firing = {}
         /\ Changed(returned', returned, Cpus, c, next_ticks) /\ lock' = NoCpu
         /\ UNCHANGED <<start, clock, now, slots, occupied, alarm, fut, deadline, registered,
                        waker, pc, nested>>
  <1>1. handler' = [handler EXCEPT ![c] = "arm"] => Changed(handler', handler, Cpus, c, "arm")
    BY TypeFields, Updated, Zenon
  <1>2. turn' = NoTurn  BY Zenon DEF TurnEnd
  <1>3. turn'.now = 0 /\ turn'.pending = {} /\ turn'.firing = {}  BY <1>2 DEF NoTurn
  <1>4. returned' = [returned EXCEPT ![c] = next_ticks] => Changed(returned', returned, Cpus, c, next_ticks)
    BY TypeFields, Updated, Zenon
  <1> QED  BY <1>1, <1>3, <1>4, Zenon DEF TurnEnd

\* The handler sets the alarm.
LEMMA ArmNextDoes ==
  ASSUME TypeOK, NEW c \in Cpus, ArmNext(c)
  PROVE  /\ handler[c] = "arm" /\ Changed(handler', handler, Cpus, c, "idle")
         /\ Changed(alarm', alarm, Cpus, c, returned[c]) /\ Changed(returned', returned, Cpus, c, {})
         /\ UNCHANGED <<start, clock, now, slots, occupied, lock, fut, deadline, registered,
                        waker, pc, turn, nested>>
  <1>1. handler' = [handler EXCEPT ![c] = "idle"] => Changed(handler', handler, Cpus, c, "idle")
    BY TypeFields, Updated, Zenon
  <1>2. alarm' = [alarm EXCEPT ![c] = returned[c]] => Changed(alarm', alarm, Cpus, c, returned[c])
    BY TypeFields, Updated, Zenon
  <1>3. returned' = [returned EXCEPT ![c] = {}] => Changed(returned', returned, Cpus, c, {})
    BY TypeFields, Updated, Zenon
  <1> QED  BY <1>1, <1>2, <1>3, Zenon DEF ArmNext

\* Entry::fire clears the flag.
LEMMA UnregisterDoes ==
  ASSUME TypeOK, NEW c \in Cpus, NEW s \in Sleeps, FireUnregister(c, s)
  PROVE  /\ handler[c] = "poll" /\ s \in turn.firing /\ registered[s]
         /\ Changed(registered', registered, Sleeps, s, FALSE)
         /\ UNCHANGED <<start, clock, now, slots, occupied, lock, alarm, fut, deadline, waker,
                        pc, handler, turn, returned, nested>>
  <1>1. registered' = [registered EXCEPT ![s] = FALSE] => Changed(registered', registered, Sleeps, s, FALSE)
    BY TypeFields, Updated, Zenon
  <1> QED  BY <1>1, Zenon DEF FireUnregister

\* Entry::fire closes the WaitCell.
LEMMA CloseDoes ==
  ASSUME TypeOK, NEW c \in Cpus, NEW s \in Sleeps, FireClose(c, s)
  PROVE  /\ handler[c] = "poll" /\ s \in turn.firing /\ ~registered[s]
         /\ Changed(waker', waker, Sleeps, s, "closed")
         /\ turn'.now = turn.now /\ turn'.pending = turn.pending /\ turn'.firing = turn.firing \ {s}
         /\ UNCHANGED <<start, clock, now, slots, occupied, lock, alarm, fut, deadline,
                        registered, pc, handler, returned, nested>>
  <1>1. waker' = [waker EXCEPT ![s] = "closed"] => Changed(waker', waker, Sleeps, s, "closed")
    BY TypeFields, Updated, Zenon
  <1>2. turn' = [turn EXCEPT !.firing = @ \ {s}]  BY Zenon DEF FireClose
  <1>3. turn'.now = turn.now /\ turn'.pending = turn.pending /\ turn'.firing = turn.firing \ {s}
    BY <1>2, TypeFields
  <1> QED  BY <1>1, <1>3, Zenon DEF FireClose

-----------------------------------------------------------------------------
(* The lock, the threads and the turn. *)

\* The lock is held by the thread or handler that is where it is needed.
LEMMA LockingStep ==
  ASSUME TypeOK, Owning, Locking, Next
  PROVE  Locking'
  <1> USE DEF Locking, Critical, Polling, Changed, Goes
  <1>0. NoCpu \notin Cpus /\ lock \in Cpus \cup {NoCpu}  BY TimerBounds, TypeFields, Zenon
  <1>1. CASE Tick  BY <1>1, Zenon DEF Tick
  <1>2. ASSUME NEW c \in Cpus, Arm(c)  PROVE Locking'  BY <1>2, ArmDoes
  <1>3. ASSUME NEW c \in Cpus, Unlock(c)  PROVE Locking'
    <2>3. /\ pc[c].at = "unlock" /\ lock' = NoCpu /\ handler' = handler /\ handler[c] = "idle"
          /\ pc'[c].at \notin {"arm", "unlock"} /\ \A d \in Cpus \ {c} : pc'[d] = pc[d]
      BY <1>3, UnlockDoes
    <2> QED  BY <1>0, <2>3
  <1>4. ASSUME NEW c \in Cpus, PollWait(c)  PROVE Locking'  BY <1>4, PollWaitDoes
  <1>5. ASSUME NEW c \in Cpus, Cancel(c)  PROVE Locking'
    <2>3. /\ lock = NoCpu /\ lock' = c /\ handler' = handler /\ handler[c] = "idle"
          /\ pc'[c].at = "arm" /\ \A d \in Cpus \ {c} : pc'[d] = pc[d]
      BY <1>5, CancelDoes
    <2> QED  BY <1>0, <2>3
  <1>6. ASSUME NEW c \in Cpus, NEW s \in Sleeps, Register(c, s)  PROVE Locking'
    <2>3. /\ lock = NoCpu /\ lock' = c /\ handler' = handler /\ handler[c] = "idle"
          /\ pc'[c].at = "arm" /\ \A d \in Cpus \ {c} : pc'[d] = pc[d]
      BY <1>6, RegisterDoes
    <2> QED  BY <1>0, <2>3
  <1>7. ASSUME NEW c \in Cpus, NEW s \in Sleeps, PollAgain(c, s)  PROVE Locking'
    BY <1>7, PollAgainDoes DEF Idle
  <1>8. ASSUME NEW c \in Cpus, NEW s \in Sleeps, DropSleep(c, s)  PROVE Locking'
    BY <1>8, DropDoes DEF Idle
  <1>9. ASSUME NEW c \in Cpus, NEW s \in Sleeps, NEW d \in Durations, Sleep(c, s, d)  PROVE Locking'
    BY <1>9, Zenon DEF Sleep
  <1>10. ASSUME NEW c \in Cpus, TurnBusy(c)  PROVE Locking'  BY <1>10, Zenon DEF TurnBusy
  <1>11. ASSUME NEW c \in Cpus, TurnStart(c)  PROVE Locking'  BY <1>0, <1>11, TurnStartDoes
  <1>12. ASSUME NEW c \in Cpus, PollSlot(c)  PROVE Locking'  BY <1>12, Zenon DEF PollSlot
  <1>13. ASSUME NEW c \in Cpus, PollEnd(c)  PROVE Locking'  BY <1>13, PollEndDoes
  <1>14. ASSUME NEW c \in Cpus, TurnAgain(c)  PROVE Locking'  BY <1>14, TurnAgainDoes
  <1>15. ASSUME NEW c \in Cpus, TurnEnd(c)  PROVE Locking'  BY <1>0, <1>15, TurnEndDoes
  <1>16. ASSUME NEW c \in Cpus, ArmNext(c)  PROVE Locking'  BY <1>16, ArmNextDoes
  <1>17. ASSUME NEW c \in Cpus, NEW s \in Sleeps, FireUnregister(c, s)  PROVE Locking'
    BY <1>17, Zenon DEF FireUnregister
  <1>18. ASSUME NEW c \in Cpus, NEW s \in Sleeps, FireClose(c, s)  PROVE Locking'
    BY <1>18, Zenon DEF FireClose
  <1> QED
    BY <1>1, <1>2, <1>3, <1>4, <1>5, <1>6, <1>7, <1>8, <1>9, <1>10, <1>11, <1>12, <1>13, <1>14, <1>15,
       <1>16, <1>17, <1>18, Zenon DEF Next, ThreadProgress, ThreadChoice, HandlerProgress

\* No two threads get hold of one Sleep.
LEMMA OwningStep ==
  ASSUME TypeOK, Owning, Next
  PROVE  Owning'
  <1> USE DEF Owning, Critical, Changed, Goes
  <1>0. "none" \notin Sleeps /\ \A c \in Cpus : pc[c].sleep \in Sleeps \cup {"none"}
    BY TimerBounds, TypeFields, Zenon
  <1>1. CASE Tick  BY <1>1, Zenon DEF Tick
  <1>2. ASSUME NEW c \in Cpus, Arm(c)  PROVE Owning'  BY <1>2, ArmDoes
  <1>3. ASSUME NEW c \in Cpus, Unlock(c)  PROVE Owning'
    <2> DEFINE s == pc[c].sleep
    <2>1. /\ s \in Sleeps /\ pc[c].at = "unlock"
          /\ \A x \in Sleeps \ {s} : fut'[x] = fut[x]
          /\ \A d \in Cpus \ {c} : pc'[d] = pc[d]
          /\ \/ fut'[s] = "Registered" /\ pc'[c].at = "poll_wait" /\ pc'[c].sleep = s
             \/ pc'[c].at = "idle" /\ pc'[c].sleep = "none"
      BY <1>3, UnlockDoes
    <2>2. \A d \in Cpus \ {c} : pc[d].sleep # s  BY <1>0, <2>1
    <2> HIDE DEF s
    <2> QED  BY <1>0, <2>1, <2>2
  <1>4. ASSUME NEW c \in Cpus, PollWait(c)  PROVE Owning'
    <2> DEFINE s == pc[c].sleep
    <2>1. /\ s \in Sleeps
          /\ \A x \in Sleeps \ {s} : fut'[x] = fut[x]
          /\ \A d \in Cpus \ {c} : pc'[d] = pc[d]
          /\ pc'[c].at = "idle" /\ pc'[c].sleep = "none"
      BY <1>4, PollWaitDoes
    <2>2. \A d \in Cpus \ {c} : pc[d].sleep # s  BY <1>0, <2>1
    <2> HIDE DEF s
    <2> QED  BY <1>0, <2>1, <2>2
  <1>5. ASSUME NEW c \in Cpus, Cancel(c)  PROVE Owning'
    <2>1. /\ pc[c].at = "cancel" /\ Goes(c, "arm", pc[c].sleep) /\ fut' = fut  BY <1>5, CancelDoes, Zenon
    <2> QED  BY <2>1
  <1>6. ASSUME NEW c \in Cpus, NEW s \in Sleeps, Register(c, s)  PROVE Owning'
    <2>1. /\ fut[s] = "Unregistered" /\ Goes(c, "arm", s) /\ fut' = fut
          /\ \A d \in Cpus : pc[d].sleep # s
      <3> HIDE DEF Goes, Changed
      <3> QED  BY <1>6, RegisterDoes, Zenon
    <2> QED  BY <1>0, <2>1
  <1>7. ASSUME NEW c \in Cpus, NEW s \in Sleeps, PollAgain(c, s)  PROVE Owning'
    BY <1>0, <1>7, PollAgainDoes
  <1>8. ASSUME NEW c \in Cpus, NEW s \in Sleeps, DropSleep(c, s)  PROVE Owning'
    BY <1>0, <1>8, DropDoes
  <1>9. ASSUME NEW c \in Cpus, NEW s \in Sleeps, NEW d \in Durations, Sleep(c, s, d)  PROVE Owning'
    BY <1>0, <1>9, SleepDoes
  <1>10. ASSUME NEW c \in Cpus, TurnBusy(c)  PROVE Owning'  BY <1>10, Zenon DEF TurnBusy
  <1>11. ASSUME NEW c \in Cpus, TurnStart(c)  PROVE Owning'  BY <1>11, Zenon DEF TurnStart
  <1>12. ASSUME NEW c \in Cpus, PollSlot(c)  PROVE Owning'  BY <1>12, Zenon DEF PollSlot
  <1>13. ASSUME NEW c \in Cpus, PollEnd(c)  PROVE Owning'  BY <1>13, Zenon DEF PollEnd
  <1>14. ASSUME NEW c \in Cpus, TurnAgain(c)  PROVE Owning'  BY <1>14, Zenon DEF TurnAgain
  <1>15. ASSUME NEW c \in Cpus, TurnEnd(c)  PROVE Owning'  BY <1>15, Zenon DEF TurnEnd
  <1>16. ASSUME NEW c \in Cpus, ArmNext(c)  PROVE Owning'  BY <1>16, Zenon DEF ArmNext
  <1>17. ASSUME NEW c \in Cpus, NEW s \in Sleeps, FireUnregister(c, s)  PROVE Owning'
    BY <1>17, Zenon DEF FireUnregister
  <1>18. ASSUME NEW c \in Cpus, NEW s \in Sleeps, FireClose(c, s)  PROVE Owning'
    BY <1>18, Zenon DEF FireClose
  <1> QED
    BY <1>1, <1>2, <1>3, <1>4, <1>5, <1>6, <1>7, <1>8, <1>9, <1>10, <1>11, <1>12, <1>13, <1>14, <1>15,
       <1>16, <1>17, <1>18, Zenon DEF Next, ThreadProgress, ThreadChoice, HandlerProgress

\* A turn keeps what is due apart from what is not.
LEMMA TurningStep ==
  ASSUME TypeOK, Locking, Owning, Placed, Turning, Entries, Next
  PROVE  Turning'
  <1> USE DEF Turning, Polling, Changed
  <1>0. /\ clock \in Nat /\ now \in Nat /\ now <= clock /\ turn.now \in Nat /\ deadline \in [Sleeps -> Nat]
        /\ turn.pending \subseteq Sleeps /\ turn.firing \subseteq Sleeps /\ lock \in Cpus \cup {NoCpu}
        /\ NoCpu \notin Cpus
    BY TypeFields, TimerBounds, Zenon
  <1>1. CASE Tick  BY <1>0, <1>1 DEF Tick
  <1>2. ASSUME NEW c \in Cpus, Arm(c)  PROVE Turning'  BY <1>2, Zenon DEF Arm
  <1>3. ASSUME NEW c \in Cpus, Unlock(c)  PROVE Turning'  BY <1>3, Zenon DEF Unlock
  <1>4. ASSUME NEW c \in Cpus, PollWait(c)  PROVE Turning'  BY <1>4, Zenon DEF PollWait
  <1>5. ASSUME NEW c \in Cpus, Cancel(c)  PROVE Turning'  BY <1>5, Zenon DEF Cancel
  <1>6. ASSUME NEW c \in Cpus, NEW s \in Sleeps, Register(c, s)  PROVE Turning'
    BY <1>6, Zenon DEF Register
  <1>7. ASSUME NEW c \in Cpus, NEW s \in Sleeps, PollAgain(c, s)  PROVE Turning'
    BY <1>7, Zenon DEF PollAgain
  <1>8. ASSUME NEW c \in Cpus, NEW s \in Sleeps, DropSleep(c, s)  PROVE Turning'
    BY <1>8, Zenon DEF DropSleep
  <1>9. ASSUME NEW c \in Cpus, NEW s \in Sleeps, NEW d \in Durations, Sleep(c, s, d)  PROVE Turning'
    <2>1. /\ fut[s] = "none" /\ UNCHANGED <<clock, now, handler, turn>>
          /\ \A x \in Sleeps \ {s} : deadline'[x] = deadline[x]
      BY <1>9, SleepDoes, Zenon
    <2>2. s \notin turn.pending /\ s \notin turn.firing  BY <2>1, Zenon DEF Entries, Entry
    <2>3. \A x \in turn.pending \cup turn.firing : deadline'[x] = deadline[x]  BY <1>0, <2>1, <2>2, Zenon
    <2> QED  BY <2>1, <2>3
  <1>10. ASSUME NEW c \in Cpus, TurnBusy(c)  PROVE Turning'  BY <1>10, Zenon DEF TurnBusy
  <1>11. ASSUME NEW c \in Cpus, TurnStart(c)  PROVE Turning'
    <2>1. /\ turn'.now = clock /\ turn'.pending = {} /\ turn'.firing = {} /\ UNCHANGED <<clock, now>>
          /\ handler'[c] = "poll" /\ \A d \in Cpus \ {c} : handler'[d] = handler[d]
      BY <1>11, TurnStartDoes, Zenon
    <2> QED  BY <1>0, <2>1
  <1>12. ASSUME NEW c \in Cpus, PollSlot(c)  PROVE Turning'
    <2>1. /\ handler[c] = "poll" /\ turn.firing = {} /\ turn'.now = turn.now
          /\ UNCHANGED <<clock, lock, deadline, pc, handler>>
      BY <1>12, PollSlotDoes, Zenon
    <2>2. PICK d \in next_deadline :
              /\ d.wheel \in Levels /\ d.slot \in Slots /\ d.ticks <= turn.now /\ now' = d.ticks
              /\ turn'.firing = {s \in slots[d.wheel][d.slot] : deadline[s] <= turn.now}
              /\ turn'.pending =
                   turn.pending \cup {s \in slots[d.wheel][d.slot] : ~(deadline[s] <= turn.now)}
      BY <1>12, PollSlotDoes, Zenon
    <2>3. \A x \in Cpus : handler[x] = "again" => FALSE  BY <2>1 DEF Locking
    <2>4. slots[d.wheel][d.slot] \subseteq Sleeps  BY <2>2, TypeFields
    <2>5. \A s \in turn'.pending : deadline[s] > turn.now  BY <1>0, <2>2, <2>4
    <2>6. \A s \in turn'.firing : deadline[s] <= turn.now  BY <2>2, Zenon
    <2>7. \A x \in Cpus : handler'[x] # "again"  BY <2>1, <2>3, Zenon
    <2> QED  BY <2>1, <2>2, <2>5, <2>6, <2>7
  <1>13. ASSUME NEW c \in Cpus, PollEnd(c)  PROVE Turning'
    <2>1. /\ now' = turn.now /\ turn'.now = turn.now /\ turn'.pending = {} /\ turn'.firing = {}
          /\ clock' = clock
      BY <1>13, PollEndDoes, Zenon
    <2> QED  BY <1>0, <2>1
  <1>14. ASSUME NEW c \in Cpus, TurnAgain(c)  PROVE Turning'
    <2>1. /\ turn.pending = {} /\ turn.firing = {}  BY <1>14, Zenon DEF TurnAgain
    <2>2. /\ turn'.now = clock /\ turn'.pending = {} /\ turn'.firing = {} /\ UNCHANGED <<clock, now>>
      BY <1>14, <2>1, TurnAgainDoes, Zenon
    <2> QED  BY <1>0, <2>2
  <1>15. ASSUME NEW c \in Cpus, TurnEnd(c)  PROVE Turning'
    <2>1. /\ handler[c] = "again" /\ handler'[c] = "arm" /\ \A d \in Cpus \ {c} : handler'[d] = handler[d]
          /\ turn'.now = 0 /\ turn'.pending = {} /\ turn'.firing = {} /\ UNCHANGED <<clock, now, pc>>
      BY <1>15, TurnEndDoes, Zenon
    <2>2. \A d \in Cpus : handler'[d] \notin {"poll", "again"}  BY <2>1 DEF Locking
    <2> QED  BY <1>0, <2>1, <2>2
  <1>16. ASSUME NEW c \in Cpus, ArmNext(c)  PROVE Turning'
    <2>1. /\ handler[c] = "arm" /\ handler'[c] = "idle" /\ \A d \in Cpus \ {c} : handler'[d] = handler[d]
          /\ UNCHANGED <<clock, now, turn, deadline>>
      BY <1>16, ArmNextDoes, Zenon
    <2>2. \A d \in Cpus : (Polling(d) <=> Polling(d)') /\ (handler[d] = "again" <=> handler'[d] = "again")
      BY <2>1
    <2> QED  BY <2>1, <2>2, Zenon
  <1>17. ASSUME NEW c \in Cpus, NEW s \in Sleeps, FireUnregister(c, s)  PROVE Turning'
    BY <1>17, Zenon DEF FireUnregister
  <1>18. ASSUME NEW c \in Cpus, NEW s \in Sleeps, FireClose(c, s)  PROVE Turning'
    <2>1. /\ turn'.now = turn.now /\ turn'.pending = turn.pending /\ turn'.firing = turn.firing \ {s}
          /\ UNCHANGED <<clock, now, handler, deadline>>
      BY <1>18, CloseDoes, Zenon
    <2> QED  BY <2>1, Zenon
  <1> QED
    BY <1>1, <1>2, <1>3, <1>4, <1>5, <1>6, <1>7, <1>8, <1>9, <1>10, <1>11, <1>12, <1>13, <1>14, <1>15,
       <1>16, <1>17, <1>18, Zenon DEF Next, ThreadProgress, ThreadChoice, HandlerProgress

-----------------------------------------------------------------------------
(* The wheels. *)

\* The entries of the wheels stay in place when entries leave a slot and the time moves
\* on, as long as the others belong where they are.
LEMMA PlacedLeaves ==
  ASSUME Placed, NEW l0 \in Levels, NEW k0 \in Slots, NEW rest, rest \subseteq slots[l0][k0],
         Leaves(l0, k0, rest), deadline' = deadline,
         \A l \in Levels, k \in Slots : \A s \in slots'[l][k] :
           deadline[s] > now' /\ Belongs(now', deadline[s], l)
  PROVE  Placed'
  <1>1. \A l \in Levels, k \in Slots : slots'[l][k] \subseteq slots[l][k]
    BY DEF Leaves
  <1>2. \A l \in Levels, k \in Slots : k \in occupied'[l] <=> slots'[l][k] # {}
    BY DEF Leaves, Placed
  <1>3. \A l \in Levels, k \in Slots : \A s \in slots'[l][k] : k = slot_index(l, deadline[s])
    BY <1>1, Zenon DEF Placed
  <1> QED  BY <1>2, <1>3, Zenon DEF Placed

\* They stay in place when the time moves on to n and the entries e are inserted.
LEMMA PlacedInserts ==
  ASSUME Placed, NEW n \in Nat, NEW e \in SUBSET Sleeps, Inserts(e, n), deadline' = deadline, now' = n,
         deadline \in [Sleeps -> Nat], \A s \in e : deadline[s] > n,
         \A l \in Levels, k \in Slots : \A s \in slots[l][k] :
           deadline[s] > n /\ Belongs(n, deadline[s], l)
  PROVE  Placed'
  <1>1. ASSUME NEW l \in Levels, NEW k \in Slots, NEW s \in slots'[l][k]
        PROVE  deadline[s] > n /\ Belongs(n, deadline[s], l) /\ k = slot_index(l, deadline[s])
    <2>0. slots'[l][k] = slots[l][k] \cup {x \in e : Lands(x, n, l, k)}  BY <1>1, Zenon DEF Inserts
    <2>1. s \in slots[l][k] \/ (s \in e /\ Lands(s, n, l, k))  BY <1>1, <2>0, Zenon
    <2>2. CASE s \in slots[l][k]  BY <2>2, Zenon DEF Placed
    <2>3. CASE s \in e /\ Lands(s, n, l, k)
      <3>1. deadline[s] \in Nat /\ deadline[s] > n  BY <2>3, Zenon
      <3>2. n < deadline[s]  BY <3>1
      <3>3. Belongs(n, deadline[s], wheel_index(n, deadline[s]))  BY <3>1, <3>2, WheelIndex, Zenon
      <3> QED  BY <2>3, <3>1, <3>3, Zenon DEF Lands
    <2> QED  BY <2>1, <2>2, <2>3, Zenon
  <1>2. ASSUME NEW l \in Levels, NEW k \in Slots  PROVE k \in occupied'[l] <=> slots'[l][k] # {}
    <2>1. slots'[l][k] = slots[l][k] \cup {x \in e : Lands(x, n, l, k)}  BY <1>2, Zenon DEF Inserts
    <2>2. k \in occupied'[l] <=> k \in occupied[l] \/ \E x \in e : Lands(x, n, l, k)
      BY <1>2, Zenon DEF Inserts
    <2>3. k \in occupied[l] <=> slots[l][k] # {}  BY <1>2, Zenon DEF Placed
    <2> QED  BY <2>1, <2>2, <2>3, Zenon
  <1> QED  BY <1>1, <1>2, Zenon DEF Placed

\* Where neither the wheels nor the time nor a deadline changes.
LEMMA PlacedFrame ==
  ASSUME Placed, UNCHANGED <<slots, occupied, now, deadline>>
  PROVE  Placed'
  BY Zenon DEF Placed

\* Every linked entry stays in the slot that Core::cancel looks at.
LEMMA PlacedStep ==
  ASSUME TypeOK, Locking, Owning, Placed, Turning, Entries, Next
  PROVE  Placed'
  <1>0. /\ now \in Nat /\ turn.now \in Nat /\ deadline \in [Sleeps -> Nat]
        /\ slots \in [Levels -> [Slots -> SUBSET Sleeps]] /\ occupied \in [Levels -> SUBSET Slots]
    BY TypeFields, Zenon
  <1>00. \A l \in Levels, k \in Slots : \A s \in slots[l][k] :
           s \in Sleeps /\ deadline[s] > now /\ Belongs(now, deadline[s], l)
    <2>1. \A l \in Levels, k \in Slots : slots[l][k] \subseteq Sleeps  BY <1>0
    <2> QED  BY <2>1, Zenon DEF Placed
  <1>5. ASSUME NEW c \in Cpus, Cancel(c)  PROVE Placed'
    <2> DEFINE s == pc[c].sleep
               l == wheel_index(now, deadline[s])
               k == slot_index(l, deadline[s])
    <2>1. /\ l \in Levels /\ k \in Slots /\ Leaves(l, k, slots[l][k] \ {s})
          /\ UNCHANGED <<now, deadline>>
      BY <1>5, CancelDoes, Zenon
    <2> HIDE DEF l, k, s
    <2>2. \A m \in Levels, j \in Slots : slots'[m][j] \subseteq slots[m][j]  BY <2>1 DEF Leaves
    <2>3. \A m \in Levels, j \in Slots : \A x \in slots'[m][j] :
            deadline[x] > now' /\ Belongs(now', deadline[x], m)
      BY <1>00, <2>1, <2>2, Zenon
    <2>4. slots[l][k] \ {s} \subseteq slots[l][k]  BY Zenon
    <2> QED  BY <2>1, <2>3, <2>4, PlacedLeaves, Zenon
  <1>6. ASSUME NEW c \in Cpus, NEW s \in Sleeps, Register(c, s)  PROVE Placed'
    <2>1. /\ UNCHANGED <<now, deadline>>
          /\ \/ UNCHANGED <<slots, occupied>>
             \/ deadline[s] > now /\ Inserts({s}, now)
      BY <1>6, RegisterDoes, Zenon
    <2>2. ASSUME deadline[s] > now, Inserts({s}, now)  PROVE Placed'
      <3>1. {s} \in SUBSET Sleeps /\ \A x \in {s} : deadline[x] > now  BY <2>2, Zenon
      <3> QED  BY <1>0, <1>00, <2>1, <2>2, <3>1, PlacedInserts, Zenon
    <2> QED  BY <2>1, <2>2, PlacedFrame, Zenon
  <1>9. ASSUME NEW c \in Cpus, NEW s \in Sleeps, NEW d \in Durations, Sleep(c, s, d)  PROVE Placed'
    <2>1. /\ fut[s] = "none" /\ UNCHANGED <<slots, occupied, now>>
          /\ \A x \in Sleeps \ {s} : deadline'[x] = deadline[x]
      BY <1>9, SleepDoes, Zenon DEF Changed
    <2>2. ~Linked(s)  BY <2>1, Zenon DEF Entries, Entry
    <2>3. \A l \in Levels, k \in Slots : \A x \in slots[l][k] : deadline'[x] = deadline[x]
      BY <1>00, <2>1, <2>2, Zenon DEF Linked
    <2>4. slots' = slots /\ occupied' = occupied /\ now' = now  BY <2>1, Zenon
    <2>5. \A l \in Levels, k \in Slots : \A x \in slots'[l][k] :
            /\ deadline'[x] > now' /\ Belongs(now', deadline'[x], l)
            /\ k = slot_index(l, deadline'[x])
      BY <1>00, <2>3, <2>4 DEF Placed
    <2>6. \A l \in Levels, k \in Slots : k \in occupied'[l] <=> slots'[l][k] # {}
      BY <2>4, Zenon DEF Placed
    <2> QED  BY <2>5, <2>6, Zenon DEF Placed
  <1>12. ASSUME NEW c \in Cpus, PollSlot(c)  PROVE Placed'
    <2>1. deadline' = deadline  BY <1>12, PollSlotDoes, Zenon
    <2>2. PICK d \in next_deadline :
              d.wheel \in Levels /\ d.slot \in Slots /\ now' = d.ticks /\ Leaves(d.wheel, d.slot, {})
      BY <1>12, PollSlotDoes, Zenon
    <2>3. \A m \in Levels, k \in Slots : \A s \in slots[m][k] :
            \/ m = d.wheel /\ k = d.slot
            \/ d.ticks < deadline[s] /\ Belongs(d.ticks, deadline[s], m)
      BY <1>0, NextDeadline, Zenon
    <2>4. \A m \in Levels, k \in Slots : \A s \in slots'[m][k] :
            s \in slots[m][k] /\ ~(m = d.wheel /\ k = d.slot)
      BY <2>2 DEF Leaves
    <2>5. d.ticks \in Nat  BY <1>0, NextDeadline, Zenon
    <2>6. \A x \in Nat : d.ticks < x => x > d.ticks  BY <2>5
    <2>7. \A m \in Levels, k \in Slots : \A s \in slots'[m][k] :
            deadline[s] > now' /\ Belongs(now', deadline[s], m)
      BY <1>0, <1>00, <2>2, <2>3, <2>4, <2>6, Zenon
    <2> QED  BY <2>1, <2>2, <2>7, PlacedLeaves, Zenon
  <1>13. ASSUME NEW c \in Cpus, PollEnd(c)  PROVE Placed'
    <2>1. /\ handler[c] = "poll" /\ now' = turn.now /\ Inserts(turn.pending, turn.now) /\ deadline' = deadline
          /\ DueSlots = {}
      BY <1>13, PollEndDoes, Zenon
    <2>2. turn.pending \in SUBSET Sleeps /\ \A s \in turn.pending : deadline[s] > turn.now
      BY TypeFields, Zenon DEF Turning
    <2>3. now <= turn.now  BY <2>1 DEF Turning, Polling
    <2>4. ASSUME NEW m \in Levels, NEW k \in Slots, NEW s \in slots[m][k]
          PROVE  deadline[s] > turn.now /\ Belongs(turn.now, deadline[s], m)
      <3>1. next_deadline # {}  BY <1>0, <2>4, NoDeadline, Zenon
      <3>2. PICK d \in next_deadline : TRUE  BY <3>1, Zenon
      <3>3. /\ d.ticks \in Nat /\ d.ticks <= deadline[s]
            /\ \A n \in Nat : now <= n /\ n < d.ticks => Belongs(n, deadline[s], m)
        BY <1>0, <2>4, NextDeadline, Zenon
      <3>4. ~(d.ticks <= turn.now)  BY <2>1, <3>2, Zenon DEF DueSlots
      <3>5. turn.now < d.ticks  BY <1>0, <3>3, <3>4
      <3>6. deadline[s] \in Nat  BY <1>0, <1>00, <2>4, Zenon
      <3>7. deadline[s] > turn.now  BY <1>0, <3>3, <3>5, <3>6
      <3> QED  BY <1>0, <2>3, <3>3, <3>5, <3>7, Zenon
    <2> QED  BY <1>0, <2>1, <2>2, <2>4, PlacedInserts, Zenon
  <1>19. ASSUME NEW c \in Cpus, ThreadProgress(c), ~Cancel(c)  PROVE UNCHANGED <<slots, occupied, now, deadline>>
    BY <1>19, Zenon DEF ThreadProgress, Arm, Unlock, PollWait
  <1>20. ASSUME NEW c \in Cpus, ThreadChoice(c)
         PROVE  \/ UNCHANGED <<slots, occupied, now, deadline>>
                \/ \E s \in Sleeps : Register(c, s) \/ \E d \in Durations : Sleep(c, s, d)
    BY <1>20, Zenon DEF ThreadChoice, PollAgain, DropSleep
  <1>21. ASSUME NEW c \in Cpus, HandlerProgress(c), ~PollSlot(c), ~PollEnd(c)
         PROVE  UNCHANGED <<slots, occupied, now, deadline>>
    BY <1>21, Zenon DEF HandlerProgress, TurnBusy, TurnStart, TurnAgain, TurnEnd, ArmNext, FireUnregister,
                        FireClose
  <1>22. CASE Tick  BY <1>22, PlacedFrame, Zenon DEF Tick
  <1> QED
    BY <1>5, <1>6, <1>9, <1>12, <1>13, <1>19, <1>20, <1>21, <1>22, PlacedFrame, Zenon DEF Next

-----------------------------------------------------------------------------
(* Types. *)

\* What schedule_wakeup is told: one time, before which nothing is due, or none when
\* nothing is linked.
LEMMA NextTicks ==
  ASSUME TypeOK, Placed
  PROVE  /\ next_ticks \in SUBSET Nat /\ \A t, u \in next_ticks : t = u
         /\ \A s \in Sleeps : Linked(s) => \E t \in next_ticks : t <= deadline[s]
  <1>0. /\ now \in Nat /\ deadline \in [Sleeps -> Nat]
        /\ slots \in [Levels -> [Slots -> SUBSET Sleeps]] /\ occupied \in [Levels -> SUBSET Slots]
    BY TypeFields, Zenon
  <1>1. \A d \in next_deadline : next_deadline = {d} /\ d.ticks \in Nat
    BY <1>0, NextDeadline, Zenon
  <1>2. ASSUME NEW s \in Sleeps, Linked(s)  PROVE \E t \in next_ticks : t <= deadline[s]
    <2>1. PICK l \in Levels, k \in Slots : s \in slots[l][k]  BY <1>2, Zenon DEF Linked
    <2>2. next_deadline # {}  BY <1>0, <2>1, NoDeadline, Zenon
    <2>3. PICK d \in next_deadline : TRUE  BY <2>2, Zenon
    <2>4. d.ticks <= deadline[s]  BY <1>0, <2>1, <2>3, NextDeadline, Zenon
    <2> QED  BY <2>3, <2>4, Zenon DEF next_ticks
  <1>3. next_ticks \in SUBSET Nat  BY <1>1, Zenon DEF next_ticks
  <1>4. \A t, u \in next_ticks : t = u  BY <1>1, Zenon DEF next_ticks
  <1> QED  BY <1>2, <1>3, <1>4, Zenon

\* What an insertion makes of the wheels.
LEMMA InsertType ==
  ASSUME TypeOK, NEW e \in SUBSET Sleeps, NEW n, insert_at(e, n)
  PROVE  slots' \in [Levels -> [Slots -> SUBSET Sleeps]] /\ occupied' \in [Levels -> SUBSET Slots]
  <1>1. \A l \in Levels, k \in Slots : slots[l][k] \in SUBSET Sleeps  BY TypeFields
  <1>2. \A l \in Levels : occupied[l] \in SUBSET Slots  BY TypeFields, Zenon
  <1>3. slots' \in [Levels -> [Slots -> SUBSET Sleeps]]  BY <1>1, Zenon DEF insert_at
  <1>4. occupied' \in [Levels -> SUBSET Slots]  BY <1>2, Zenon DEF insert_at
  <1> QED  BY <1>3, <1>4

\* A thread goes to one of its places.
LEMMA GoesType ==
  ASSUME pc \in PcTypes, NEW c \in Cpus, NEW at \in {"idle", "arm", "unlock", "poll_wait", "cancel"},
         NEW s \in Sleeps \cup {"none"}, Goto(c, at, s) \/ pc' = [pc EXCEPT ![c] = Idle]
  PROVE  pc' \in PcTypes
  BY DEF PcTypes, Goto, Idle

\* A slot loses entries.
LEMMA LeaveType ==
  ASSUME TypeOK, NEW l \in Levels, NEW k \in Slots, NEW rest \in SUBSET Sleeps,
         slots' = [slots EXCEPT ![l][k] = rest]
  PROVE  slots' \in [Levels -> [Slots -> SUBSET Sleeps]]
  <1>1. slots \in [Levels -> [Slots -> SUBSET Sleeps]]  BY TypeFields, Zenon
  <1> QED  BY <1>1

\* Every step keeps the types.
LEMMA TypeStep ==
  ASSUME TypeOK, Locking, Owning, Placed, Turning, Returns, Next
  PROVE  TypeOK'
  <1> USE DEF TypeOK, At, Goto, Idle, MayUse, AlarmDue
  <1>p. pc \in PcTypes /\ fut \in FutTypes /\ waker \in [Sleeps -> {"empty", "waiting", "closed"}]
    BY Zenon DEF PcTypes, FutTypes
  <1>1. CASE Tick  BY <1>1, TimerBounds, TypeFields DEF Tick
  <1>2. ASSUME NEW c \in Cpus, Arm(c)  PROVE TypeOK'  BY <1>2, NextTicks DEF Arm
  <1>3. ASSUME NEW c \in Cpus, Unlock(c)  PROVE TypeOK'
    <2>1. pc[c].sleep \in Sleeps  BY <1>3, UnlockDoes, Zenon
    <2>2. pc' \in PcTypes
      <3>1. Goto(c, "poll_wait", pc[c].sleep) \/ pc' = [pc EXCEPT ![c] = Idle]  BY <1>3, Zenon DEF Unlock
      <3> HIDE DEF Goto
      <3> QED  BY <2>1, <3>1, <1>p, GoesType
    <2>3. fut' \in FutTypes  BY <1>3, <2>1, <1>p DEF Unlock, FutTypes
    <2>4. /\ lock' = NoCpu
          /\ UNCHANGED <<start, clock, now, slots, occupied, alarm, deadline, registered,
                         waker, handler, turn, returned, nested>>
      BY <1>3, Zenon DEF Unlock
    <2> QED  BY <2>2, <2>3, <2>4 DEF PcTypes, FutTypes
  <1>4. ASSUME NEW c \in Cpus, PollWait(c)  PROVE TypeOK'
    <2>1. pc[c].sleep \in Sleeps  BY <1>4, PollWaitDoes, Zenon
    <2>2. pc' \in PcTypes  BY <1>4, <2>1, <1>p, GoesType DEF PollWait
    <2>3. fut' \in FutTypes /\ waker' \in [Sleeps -> {"empty", "waiting", "closed"}]
      BY <1>4, <2>1, <1>p DEF PollWait, FutTypes
    <2>4. UNCHANGED <<start, clock, now, slots, occupied, lock, alarm, deadline,
                      registered, handler, turn, returned, nested>>
      BY <1>4, Zenon DEF PollWait
    <2> QED  BY <2>2, <2>3, <2>4 DEF PcTypes, FutTypes
  <1>5. ASSUME NEW c \in Cpus, Cancel(c)  PROVE TypeOK'
    <2> DEFINE s == pc[c].sleep
               l == wheel_index(now, deadline[s])
               k == slot_index(l, deadline[s])
               rest == slots[l][k] \ {s}
    <2>1. s \in Sleeps /\ l \in Levels /\ k \in Slots  BY <1>5, CancelDoes, Zenon
    <2>2. /\ lock' = c /\ slots' = [slots EXCEPT ![l][k] = rest]
          /\ registered' = [registered EXCEPT ![s] = @ /\ s \notin slots[l][k]]
          /\ occupied' = [occupied EXCEPT ![l] = IF rest = {} THEN @ \ {k} ELSE @]
          /\ UNCHANGED <<start, clock, now, alarm, fut, deadline, waker, handler, turn, returned, nested>>
      BY <1>5, Zenon DEF Cancel
    <2>3. Goto(c, "arm", s)  BY <1>5, Zenon DEF Cancel
    <2>4. pc' \in PcTypes
      <3> HIDE DEF Goto
      <3> QED  BY <2>1, <2>3, <1>p, GoesType
    <2> HIDE DEF l, k, s
    <2>5. rest \in SUBSET Sleeps  BY <2>1, TypeFields
    <2>6. slots' \in [Levels -> [Slots -> SUBSET Sleeps]]  BY <2>1, <2>2, <2>5, LeaveType, Zenon
    <2> HIDE DEF rest
    <2>7. registered' \in [Sleeps -> BOOLEAN] /\ occupied' \in [Levels -> SUBSET Slots]
      BY <2>1, <2>2, TypeFields
    <2> QED  BY <2>2, <2>4, <2>6, <2>7 DEF PcTypes
  <1>6. ASSUME NEW c \in Cpus, NEW s \in Sleeps, Register(c, s)  PROVE TypeOK'
    <2>1. Goto(c, "arm", s) /\ lock' = c  BY <1>6, Zenon DEF Register
    <2>2. pc' \in PcTypes
      <3> HIDE DEF Goto
      <3> QED  BY <2>1, <1>p, GoesType
    <2>3. /\ slots' \in [Levels -> [Slots -> SUBSET Sleeps]] /\ occupied' \in [Levels -> SUBSET Slots]
          /\ registered' \in [Sleeps -> BOOLEAN] /\ waker' \in [Sleeps -> {"empty", "waiting", "closed"}]
      <3>1. \/ /\ waker' = [waker EXCEPT ![s] = "closed"]
               /\ UNCHANGED <<slots, occupied, registered>>
            \/ /\ registered' = [registered EXCEPT ![s] = TRUE]
               /\ insert_at({s}, now) /\ waker' = waker
        BY <1>6, Zenon DEF Register
      <3>2. {s} \in SUBSET Sleeps  BY Zenon
      <3>3. insert_at({s}, now) => /\ slots' \in [Levels -> [Slots -> SUBSET Sleeps]]
                                   /\ occupied' \in [Levels -> SUBSET Slots]
        BY <3>2, InsertType, Zenon
      <3> QED  BY <3>1, <3>3
    <2>4. UNCHANGED <<start, clock, now, alarm, fut, deadline, handler, turn, returned, nested>>
      BY <1>6, Zenon DEF Register
    <2> QED  BY <2>1, <2>2, <2>3, <2>4 DEF PcTypes
  <1>7. ASSUME NEW c \in Cpus, NEW s \in Sleeps, PollAgain(c, s)  PROVE TypeOK'  BY <1>7 DEF PollAgain
  <1>8. ASSUME NEW c \in Cpus, NEW s \in Sleeps, DropSleep(c, s)  PROVE TypeOK'
    <2>1. Goto(c, "cancel", s) \/ pc' = pc  BY <1>8, Zenon DEF DropSleep
    <2>2. pc' \in PcTypes
      <3> HIDE DEF Goto
      <3> QED  BY <2>1, <1>p, GoesType
    <2>3. fut' \in FutTypes  BY <1>8, <1>p DEF DropSleep, FutTypes
    <2>4. UNCHANGED <<start, clock, now, slots, occupied, lock, alarm, deadline,
                      registered, waker, handler, turn, returned, nested>>
      BY <1>8, Zenon DEF DropSleep
    <2> QED  BY <2>2, <2>3, <2>4 DEF PcTypes, FutTypes
  <1>9. ASSUME NEW c \in Cpus, NEW s \in Sleeps, NEW d \in Durations, Sleep(c, s, d)  PROVE TypeOK'
    BY <1>9, TimerBounds, TypeFields DEF Sleep
  <1>10. ASSUME NEW c \in Cpus, TurnBusy(c)  PROVE TypeOK'  BY <1>10 DEF TurnBusy
  <1>11. ASSUME NEW c \in Cpus, TurnStart(c)  PROVE TypeOK'  BY <1>11, TypeFields DEF TurnStart, NoTurn
  <1>12. ASSUME NEW c \in Cpus, PollSlot(c)  PROVE TypeOK'
    <2>1. PICK d \in DueSlots :
            /\ slots' = [slots EXCEPT ![d.wheel][d.slot] = {}]
            /\ occupied' = [occupied EXCEPT ![d.wheel] = @ \ {d.slot}]
            /\ turn' = [turn EXCEPT !.firing = Expired(slots[d.wheel][d.slot]),
                           !.pending = @ \cup (slots[d.wheel][d.slot] \ Expired(slots[d.wheel][d.slot]))]
            /\ now' = d.ticks
      BY <1>12, Zenon DEF PollSlot
    <2>2. d \in next_deadline /\ d.ticks <= turn.now  BY <2>1, Zenon DEF DueSlots
    <2>3. d.wheel \in Levels /\ d.slot \in Slots /\ d.ticks \in Nat  BY <2>2, TypeFields, NextDeadline, Zenon
    <2>4. turn.now <= clock  BY Zenon DEF Turning
    <2>5. now' \in 0 .. clock  BY <2>1, <2>2, <2>3, <2>4, TypeFields
    <2> DEFINE E == slots[d.wheel][d.slot]
    <2>6. E \in SUBSET Sleeps /\ Expired(E) \in SUBSET Sleeps  BY <2>3, TypeFields DEF Expired
    <2>7. slots' \in [Levels -> [Slots -> SUBSET Sleeps]]  BY <2>1, <2>3, LeaveType, Zenon
    <2>8. occupied' \in [Levels -> SUBSET Slots]  BY <2>1, <2>3, TypeFields
    <2>9. turn' \in [now : Nat, pending : SUBSET Sleeps, firing : SUBSET Sleeps]
      <3>1. turn' = [turn EXCEPT !.firing = Expired(E), !.pending = @ \cup (E \ Expired(E))]  BY <2>1, Zenon
      <3> HIDE DEF E
      <3> QED  BY <2>6, <3>1, TypeFields
    <2>10. UNCHANGED <<start, clock, lock, alarm, fut, deadline, registered, waker, pc,
                       handler, returned, nested>>
      BY <1>12, Zenon DEF PollSlot
    <2> QED  BY <2>5, <2>7, <2>8, <2>9, <2>10
  <1>13. ASSUME NEW c \in Cpus, PollEnd(c)  PROVE TypeOK'
    <2>1. /\ slots' \in [Levels -> [Slots -> SUBSET Sleeps]] /\ occupied' \in [Levels -> SUBSET Slots]
      <3>1. insert_at(turn.pending, turn.now) /\ turn.pending \in SUBSET Sleeps
        BY <1>13, TypeFields, Zenon DEF PollEnd
      <3> QED  BY <3>1, InsertType, Zenon
    <2>2. now' \in 0 .. clock
      <3>1. now' = turn.now /\ turn.now <= clock  BY <1>13, Zenon DEF PollEnd, Turning
      <3> QED  BY <3>1, TypeFields
    <2>3. /\ turn' = [turn EXCEPT !.pending = {}] /\ handler' = [handler EXCEPT ![c] = "again"]
          /\ UNCHANGED <<start, clock, lock, alarm, fut, deadline, registered, waker, pc, returned, nested>>
      BY <1>13, Zenon DEF PollEnd
    <2> QED  BY <2>1, <2>2, <2>3
  <1>14. ASSUME NEW c \in Cpus, TurnAgain(c)  PROVE TypeOK'  BY <1>14, TypeFields DEF TurnAgain
  <1>15. ASSUME NEW c \in Cpus, TurnEnd(c)  PROVE TypeOK'  BY <1>15, NextTicks DEF TurnEnd, NoTurn
  <1>16. ASSUME NEW c \in Cpus, ArmNext(c)  PROVE TypeOK'  BY <1>16 DEF ArmNext, Returns
  <1>17. ASSUME NEW c \in Cpus, NEW s \in Sleeps, FireUnregister(c, s)  PROVE TypeOK'
    BY <1>17 DEF FireUnregister
  <1>18. ASSUME NEW c \in Cpus, NEW s \in Sleeps, FireClose(c, s)  PROVE TypeOK'
    BY <1>18 DEF FireClose
  <1> QED
    BY <1>1, <1>2, <1>3, <1>4, <1>5, <1>6, <1>7, <1>8, <1>9, <1>10, <1>11, <1>12, <1>13, <1>14, <1>15,
       <1>16, <1>17, <1>18, Zenon DEF Next, ThreadProgress, ThreadChoice, HandlerProgress

\* The handler keeps one deadline, or none.
LEMMA ReturnsStep ==
  ASSUME TypeOK, Placed, Returns, Next
  PROVE  Returns'
  <1>1. ASSUME NEW c \in Cpus, TurnEnd(c)  PROVE Returns'
    <2>1. Changed(returned', returned, Cpus, c, next_ticks)  BY <1>1, TurnEndDoes, Zenon
    <2>2. \A t, u \in next_ticks : t = u  BY NextTicks, Zenon
    <2> QED  BY <2>1, <2>2, Zenon DEF Returns, Changed
  <1>2. ASSUME NEW c \in Cpus, ArmNext(c)  PROVE Returns'
    BY <1>2, ArmNextDoes, Zenon DEF Returns, Changed
  <1>3. returned' = returned \/ \E c \in Cpus : TurnEnd(c) \/ ArmNext(c)
    <2>1. Tick => returned' = returned  BY DEF Tick
    <2>2. ASSUME NEW c \in Cpus  PROVE ThreadProgress(c) => returned' = returned
      <3>1. Arm(c) => returned' = returned  BY DEF Arm
      <3>2. Unlock(c) => returned' = returned  BY DEF Unlock
      <3>3. PollWait(c) => returned' = returned  BY DEF PollWait
      <3>4. Cancel(c) => returned' = returned  BY DEF Cancel
      <3> QED  BY <3>1, <3>2, <3>3, <3>4, Zenon DEF ThreadProgress
    <2>3. ASSUME NEW c \in Cpus  PROVE ThreadChoice(c) => returned' = returned
      <3>1. \A s \in Sleeps : Register(c, s) => returned' = returned  BY DEF Register
      <3>2. \A s \in Sleeps : PollAgain(c, s) => returned' = returned  BY DEF PollAgain
      <3>3. \A s \in Sleeps : DropSleep(c, s) => returned' = returned  BY DEF DropSleep
      <3>4. \A s \in Sleeps, d \in Durations : Sleep(c, s, d) => returned' = returned  BY DEF Sleep
      <3> QED  BY <3>1, <3>2, <3>3, <3>4, Zenon DEF ThreadChoice
    <2>4. ASSUME NEW c \in Cpus
          PROVE  HandlerProgress(c) => returned' = returned \/ TurnEnd(c) \/ ArmNext(c)
      <3>1. TurnBusy(c) => returned' = returned  BY DEF TurnBusy
      <3>2. TurnStart(c) => returned' = returned  BY DEF TurnStart
      <3>3. PollSlot(c) => returned' = returned  BY DEF PollSlot
      <3>4. PollEnd(c) => returned' = returned  BY DEF PollEnd
      <3>5. TurnAgain(c) => returned' = returned  BY DEF TurnAgain
      <3>6. \A s \in Sleeps : FireUnregister(c, s) => returned' = returned  BY DEF FireUnregister
      <3>7. \A s \in Sleeps : FireClose(c, s) => returned' = returned  BY DEF FireClose
      <3> QED  BY <3>1, <3>2, <3>3, <3>4, <3>5, <3>6, <3>7, Zenon DEF HandlerProgress
    <2> QED  BY <2>1, <2>2, <2>3, <2>4, Zenon DEF Next
  <1> QED  BY <1>1, <1>2, <1>3, Zenon DEF Returns

-----------------------------------------------------------------------------
(* The entries. *)

\* An entry is linked into one slot, the one that Core::cancel looks at.
LEMMA OneSlot ==
  ASSUME TypeOK, Placed, NEW x \in Sleeps, NEW l \in Levels, NEW k \in Slots, x \in slots[l][k]
  PROVE  l = wheel_index(now, deadline[x]) /\ k = slot_index(l, deadline[x])
  <1>1. now \in Nat /\ deadline[x] \in Nat  BY TypeFields, Zenon
  <1>2. deadline[x] > now /\ Belongs(now, deadline[x], l) /\ k = slot_index(l, deadline[x])
    BY Zenon DEF Placed
  <1>3. now < deadline[x]  BY <1>1, <1>2
  <1> QED  BY <1>1, <1>2, <1>3, WheelIndex, Zenon

\* What is linked after entries have left a slot, or have been inserted.
LEMMA LeaveLinks ==
  ASSUME TypeOK, Placed, NEW l0 \in Levels, NEW k0 \in Slots, NEW rest, rest \subseteq slots[l0][k0],
         Leaves(l0, k0, rest), NEW x \in Sleeps
  PROVE  Linked(x)' <=> Linked(x) /\ (x \in slots[l0][k0] => x \in rest)
  <1>1. \A l \in Levels, k \in Slots : slots'[l][k] = IF l = l0 /\ k = k0 THEN rest ELSE slots[l][k]
    BY Zenon DEF Leaves
  <1>2. ASSUME NEW l \in Levels, NEW k \in Slots, x \in slots[l][k], x \in slots[l0][k0]
        PROVE  l = l0 /\ k = k0
    BY <1>2, OneSlot, Zenon
  <1>3. ASSUME Linked(x)'  PROVE Linked(x) /\ (x \in slots[l0][k0] => x \in rest)
    <2>1. PICK l \in Levels, k \in Slots : x \in slots'[l][k]  BY <1>3, Zenon DEF Linked
    <2>2. \/ l = l0 /\ k = k0 /\ x \in rest
          \/ ~(l = l0 /\ k = k0) /\ x \in slots[l][k]
      BY <1>1, <2>1
    <2>3. x \in slots[l][k]  BY <2>2, Zenon
    <2>4. x \in slots[l0][k0] => x \in rest  BY <1>2, <2>2, <2>3, Zenon
    <2> QED  BY <2>3, <2>4, Zenon DEF Linked
  <1>4. ASSUME Linked(x), x \in slots[l0][k0] => x \in rest  PROVE Linked(x)'
    <2>1. PICK l \in Levels, k \in Slots : x \in slots[l][k]  BY <1>4, Zenon DEF Linked
    <2>2. x \in slots'[l][k]  BY <1>1, <1>4, <2>1
    <2> QED  BY <2>2, Zenon DEF Linked
  <1> QED  BY <1>3, <1>4, Zenon

\* What is linked after an insertion.
LEMMA InsertLinks ==
  ASSUME TypeOK, NEW e \in SUBSET Sleeps, NEW n \in Nat, Inserts(e, n), NEW x \in Sleeps
  PROVE  Linked(x)' <=> Linked(x) \/ x \in e
  <1>1. \A l \in Levels, k \in Slots : slots'[l][k] = slots[l][k] \cup {s \in e : Lands(s, n, l, k)}
    BY Zenon DEF Inserts
  <1>2. ASSUME Linked(x)'  PROVE Linked(x) \/ x \in e
    <2>1. PICK l \in Levels, k \in Slots : x \in slots'[l][k]  BY <1>2, Zenon DEF Linked
    <2>2. x \in slots[l][k] \/ x \in e  BY <1>1, <2>1, Zenon
    <2> QED  BY <2>2, Zenon DEF Linked
  <1>3. ASSUME Linked(x)  PROVE Linked(x)'
    <2>1. PICK l \in Levels, k \in Slots : x \in slots[l][k]  BY <1>3, Zenon DEF Linked
    <2>2. x \in slots'[l][k]  BY <1>1, <2>1, Zenon
    <2> QED  BY <2>2, Zenon DEF Linked
  <1>4. ASSUME x \in e  PROVE Linked(x)'
    <2> DEFINE l == wheel_index(n, deadline[x])
               k == slot_index(l, deadline[x])
    <2>1. deadline[x] \in Nat  BY TypeFields, Zenon
    <2>2. l \in Levels /\ k \in Slots  BY <2>1, WheelType, Digit, Zenon
    <2>3. Lands(x, n, l, k)  BY Zenon DEF Lands
    <2> HIDE DEF l, k
    <2>4. x \in slots'[l][k]  BY <1>1, <1>4, <2>2, <2>3, Zenon
    <2> QED  BY <2>2, <2>4, Zenon DEF Linked
  <1> QED  BY <1>2, <1>3, <1>4, Zenon

\* The steps that leave it open who is in a critical section with x.
LEMMA RegisteringFrame ==
  ASSUME NEW c \in Cpus, NEW at, NEW s, Goes(c, at, s), NEW x,
         (Critical(c) /\ pc[c].sleep = x) <=> (at \in {"arm", "unlock"} /\ s = x)
  PROVE  Registering(x)' <=> Registering(x)
  <1>1. (Critical(c) /\ pc[c].sleep = x)' <=> (Critical(c) /\ pc[c].sleep = x)  BY DEF Goes, Critical
  <1>2. \A d \in Cpus \ {c} : (Critical(d) /\ pc[d].sleep = x)' <=> (Critical(d) /\ pc[d].sleep = x)
    BY Zenon DEF Goes, Critical
  <1> QED  BY <1>1, <1>2, Zenon DEF Registering

\* An entry of which nothing changes but the time.
LEMMA EntryFrame ==
  ASSUME NEW x \in Sleeps, Entry(x), Linked(x)' <=> Linked(x),
         x \in turn'.pending <=> x \in turn.pending, x \in turn'.firing <=> x \in turn.firing,
         registered'[x] = registered[x], fut'[x] = fut[x], waker'[x] = waker[x],
         deadline'[x] = deadline[x], Registering(x)' <=> Registering(x),
         deadline[x] \in Nat, clock \in Nat, clock' \in Nat, clock <= clock'
  PROVE  Entry(x)'
  <1>1. deadline[x] <= clock => deadline'[x] <= clock'  OBVIOUS
  <1> QED  BY <1>1, Zenon DEF Entry

\* With the lock free there is no turn, and nobody is in a critical section.
LEMMA LockFree ==
  ASSUME TypeOK, Locking, Turning, lock = NoCpu
  PROVE  /\ turn.pending = {} /\ turn.firing = {} /\ \A x : ~Registering(x)
         /\ \A c \in Cpus : ~Critical(c) /\ ~Polling(c)
  <1>1. NoCpu \notin Cpus  BY TimerBounds, Zenon
  <1>2. \A c \in Cpus : ~Critical(c) /\ ~Polling(c)  BY <1>1, Zenon DEF Locking
  <1> QED  BY <1>2, Zenon DEF Turning, Registering

\* The steps of a thread with its Sleep under the lock.
LEMMA EntriesUnlock ==
  ASSUME TypeOK, Owning, Entries, NEW c \in Cpus, Unlock(c)
  PROVE  Entries'
  <1>0. PICK s \in Sleeps : s = pc[c].sleep  BY UnlockDoes, Zenon
  <1>1. /\ pc[c].at = "unlock"
        /\ \/ /\ fut[s] = "Unregistered" /\ waker[s] # "closed"
              /\ Changed(fut', fut, Sleeps, s, "Registered") /\ Goes(c, "poll_wait", s)
           \/ /\ fut[s] = "Unregistered" /\ waker[s] = "closed"
              /\ Changed(fut', fut, Sleeps, s, "Completed") /\ Goes(c, "idle", "none")
           \/ /\ fut[s] = "dropping"
              /\ Changed(fut', fut, Sleeps, s, "gone") /\ Goes(c, "idle", "none")
        /\ UNCHANGED <<slots, clock, deadline, registered, waker, turn>>
    BY <1>0, UnlockDoes, Zenon
  <1>2. \A x \in Sleeps : Linked(x)' <=> Linked(x)  BY <1>1, Zenon DEF Linked
  <1>3. Registering(s)  BY <1>0, <1>1, Zenon DEF Registering, Critical
  <1>4. /\ clock \in Nat /\ clock <= clock /\ deadline \in [Sleeps -> Nat]  BY TypeFields
  <1>5. ASSUME NEW x \in Sleeps, x # s  PROVE Entry(x)'
    <2>1. fut'[x] = fut[x]  BY <1>1, <1>5, Zenon DEF Changed
    <2>2. \E at, z : Goes(c, at, z) /\ at \notin {"arm", "unlock"}
      BY <1>1
    <2>3. Registering(x)' <=> Registering(x)  BY <1>0, <1>5, <2>2, RegisteringFrame, Zenon
    <2> QED  BY <1>1, <1>2, <1>4, <2>1, <2>3, EntryFrame, Zenon DEF Entries
  <1>6. Entry(s)'
    <2>1. Entry(s)  BY <1>1, Zenon DEF Entries
    <2>2. deadline'[s] = deadline[s] /\ clock' = clock /\ registered'[s] = registered[s] /\ waker'[s] = waker[s]
          /\ turn' = turn /\ (Linked(s)' <=> Linked(s))
      BY <1>1, <1>2, Zenon
    <2>3. CASE fut[s] = "Unregistered" /\ waker[s] # "closed" /\ fut'[s] = "Registered"
      <3>1. registered[s]  BY <1>3, <2>1, <2>3, Zenon DEF Entry
      <3> QED  BY <2>1, <2>2, <2>3, <3>1 DEF Entry
    <2>4. CASE fut[s] = "Unregistered" /\ waker[s] = "closed" /\ fut'[s] = "Completed"
      BY <2>1, <2>2, <2>4 DEF Entry
    <2>5. CASE fut[s] = "dropping" /\ fut'[s] = "gone"
      BY <1>3, <2>1, <2>2, <2>5 DEF Entry
    <2> QED  BY <1>1, <2>3, <2>4, <2>5, Zenon DEF Changed
  <1> QED  BY <1>5, <1>6, Zenon DEF Entries

\* Core::cancel finds the entry if its flag is still set, and clears the flag.
LEMMA EntriesCancel ==
  ASSUME TypeOK, Locking, Owning, Placed, Turning, Entries, NEW c \in Cpus, Cancel(c)
  PROVE  Entries'
  <1>0. PICK s \in Sleeps : s = pc[c].sleep  BY CancelDoes, Zenon
  <1> DEFINE l == wheel_index(now, deadline[s])
             k == slot_index(l, deadline[s])
  <1>1. /\ pc[c].at = "cancel" /\ lock = NoCpu
        /\ Goes(c, "arm", s) /\ l \in Levels /\ k \in Slots
        /\ Leaves(l, k, slots[l][k] \ {s})
        /\ Changed(registered', registered, Sleeps, s, registered[s] /\ s \notin slots[l][k])
        /\ UNCHANGED <<clock, fut, deadline, waker, turn>>
    BY <1>0, CancelDoes, Zenon
  <1>2. fut[s] = "dropping"  BY <1>0, <1>1 DEF Owning
  <1>3. turn.pending = {} /\ turn.firing = {} /\ \A x : ~Registering(x)  BY <1>1, LockFree, Zenon
  <1>4. Linked(s) => s \in slots[l][k]
    BY <1>1, OneSlot, Zenon DEF Linked
  <1> HIDE DEF l, k
  <1>5. slots[l][k] \ {s} \subseteq slots[l][k]  BY Zenon
  <1>6. \A x \in Sleeps : Linked(x)' <=> Linked(x) /\ (x \in slots[l][k] => x \in slots[l][k] \ {s})
    BY <1>1, <1>5, LeaveLinks, Zenon
  <1>7. ~Linked(s)'  BY <1>1, <1>4, <1>6, Zenon
  <1>8. Entry(s)  BY <1>1, Zenon DEF Entries
  <1>9. ~registered'[s]
    <2>1. registered'[s] = (registered[s] /\ s \notin slots[l][k])  BY <1>1, Zenon DEF Changed
    <2>2. registered[s] => Linked(s)  BY <1>3, <1>8, Zenon DEF Entry
    <2> QED  BY <1>4, <2>1, <2>2, Zenon
  <1>10. /\ clock \in Nat /\ clock <= clock /\ deadline \in [Sleeps -> Nat]  BY TypeFields
  <1>11. ASSUME NEW x \in Sleeps, x # s  PROVE Entry(x)'
    <2>1. registered'[x] = registered[x]  BY <1>1, <1>11, Zenon DEF Changed
    <2>2. Linked(x)' <=> Linked(x)  BY <1>6, <1>11, Zenon
    <2>3. ~Critical(c)  BY <1>1 DEF Critical
    <2>4. Registering(x)' <=> Registering(x)  BY <1>1, <1>11, <2>3, RegisteringFrame, Zenon
    <2> QED  BY <1>1, <1>10, <2>1, <2>2, <2>4, EntryFrame, Zenon DEF Entries
  <1>12. Entry(s)'
    <2>1. deadline'[s] = deadline[s] /\ clock' = clock /\ fut'[s] = fut[s] /\ waker'[s] = waker[s] /\ turn' = turn
      BY <1>1, Zenon
    <2> QED  BY <1>2, <1>3, <1>7, <1>8, <1>9, <2>1 DEF Entry
  <1> QED  BY <1>11, <1>12, Zenon DEF Entries

\* Core::register links the entry or closes its WaitCell.
LEMMA EntriesRegister ==
  ASSUME TypeOK, Locking, Owning, Placed, Turning, Entries, NEW c \in Cpus, NEW s \in Sleeps, Register(c, s)
  PROVE  Entries'
  <1>1. /\ pc[c] = Idle /\ fut[s] = "Unregistered" /\ lock = NoCpu /\ Goes(c, "arm", s)
        /\ \/ /\ deadline[s] <= now /\ Changed(waker', waker, Sleeps, s, "closed")
              /\ UNCHANGED <<slots, registered>>
           \/ /\ deadline[s] > now /\ Changed(registered', registered, Sleeps, s, TRUE)
              /\ Inserts({s}, now) /\ waker' = waker
        /\ UNCHANGED <<clock, fut, deadline, turn>>
    BY RegisterDoes, Zenon
  <1>2. turn.pending = {} /\ turn.firing = {} /\ \A x : ~Registering(x)  BY <1>1, LockFree, Zenon
  <1>3. Entry(s)  BY Zenon DEF Entries
  <1>4. ~registered[s] /\ waker[s] # "closed" /\ ~Linked(s)  BY <1>1, <1>2, <1>3, Zenon DEF Entry
  <1>5. /\ clock \in Nat /\ clock <= clock /\ deadline \in [Sleeps -> Nat] /\ now \in Nat /\ now <= clock
    BY TypeFields
  <1>6. {s} \in SUBSET Sleeps  BY Zenon
  <1>7. Inserts({s}, now) => \A x \in Sleeps : Linked(x)' <=> Linked(x) \/ x \in {s}
    BY <1>5, <1>6, InsertLinks, Zenon
  <1>8. slots' = slots => \A x \in Sleeps : Linked(x)' <=> Linked(x)  BY Zenon DEF Linked
  <1>9. Registering(s)'  BY <1>1 DEF Registering, Critical, Goes
  <1>10. ASSUME NEW x \in Sleeps, x # s  PROVE Entry(x)'
    <2>1. registered'[x] = registered[x] /\ waker'[x] = waker[x]  BY <1>1, <1>10, Zenon DEF Changed
    <2>2. Linked(x)' <=> Linked(x)  BY <1>1, <1>7, <1>8, <1>10, Zenon
    <2>3. ~Critical(c)  BY <1>1 DEF Critical, Idle
    <2>4. Registering(x)' <=> Registering(x)  BY <1>1, <1>10, <2>3, RegisteringFrame, Zenon
    <2> QED  BY <1>1, <1>5, <2>1, <2>2, <2>4, EntryFrame, Zenon DEF Entries
  <1>11. Entry(s)'
    <2>1. deadline'[s] = deadline[s] /\ clock' = clock /\ fut'[s] = fut[s] /\ turn' = turn
      BY <1>1, Zenon
    <2>2. CASE deadline[s] <= now /\ Changed(waker', waker, Sleeps, s, "closed") /\ UNCHANGED <<slots, registered>>
      <3>1. waker'[s] = "closed" /\ ~registered'[s] /\ ~Linked(s)'  BY <1>4, <1>8, <2>2, Zenon DEF Changed
      <3>2. deadline[s] <= clock  BY <1>5, <2>2
      <3> QED  BY <1>1, <1>2, <1>9, <2>1, <3>1, <3>2 DEF Entry
    <2>3. CASE Changed(registered', registered, Sleeps, s, TRUE) /\ Inserts({s}, now) /\ waker' = waker
      <3>1. waker'[s] # "closed" /\ registered'[s] /\ Linked(s)'  BY <1>4, <1>7, <2>3, Zenon DEF Changed
      <3> QED  BY <1>1, <1>2, <1>9, <2>1, <3>1 DEF Entry
    <2> QED  BY <1>1, <2>2, <2>3, Zenon
  <1> QED  BY <1>10, <1>11, Zenon DEF Entries

\* The steps of a thread without the lock.
LEMMA EntriesPoll ==
  ASSUME TypeOK, Owning, Entries, NEW c \in Cpus, PollWait(c) \/ \E s \in Sleeps : PollAgain(c, s)
  PROVE  Entries'
  <1>1. /\ ~Critical(c) /\ UNCHANGED <<slots, clock, deadline, registered, turn>>
        /\ pc' = pc \/ \E at, z : Goes(c, at, z) /\ at \notin {"arm", "unlock"}
    <2>1. ASSUME PollWait(c)
          PROVE  /\ pc[c].at = "poll_wait" /\ Goes(c, "idle", "none")
                 /\ UNCHANGED <<slots, clock, deadline, registered, turn>>
      BY <2>1, PollWaitDoes, Zenon
    <2>2. ASSUME NEW s \in Sleeps, PollAgain(c, s)
          PROVE  /\ pc[c] = Idle /\ (Goes(c, "poll_wait", s) \/ pc' = pc)
                 /\ UNCHANGED <<slots, clock, deadline, registered, turn>>
      BY <2>2, PollAgainDoes, Zenon
    <2>3. /\ "idle" \notin {"arm", "unlock"} /\ "poll_wait" \notin {"arm", "unlock"}
          /\ (pc[c].at = "poll_wait" \/ pc[c] = Idle => ~Critical(c))
      BY DEF Critical, Idle
    <2> QED  BY <2>1, <2>2, <2>3, Zenon
  <1>2. PICK s \in Sleeps :
          /\ \A x \in Sleeps \ {s} : fut'[x] = fut[x] /\ waker'[x] = waker[x]
          /\ fut[s] = "Registered"
          /\ \/ fut'[s] = "Completed" /\ waker'[s] = waker[s] /\ (waker[s] = "closed" \/ ~registered[s])
             \/ fut'[s] = fut[s] /\ waker[s] # "closed" /\ waker'[s] = "waiting"
             \/ fut'[s] = fut[s] /\ waker'[s] = waker[s]
    <2>1. CASE PollWait(c)
      <3>1. PICK s \in Sleeps : s = pc[c].sleep  BY <2>1, PollWaitDoes, Zenon
      <3>2. fut[s] = "Registered"  BY <2>1, <3>1, PollWaitDoes, Zenon DEF Owning
      <3> QED  BY <2>1, <3>1, <3>2, PollWaitDoes, Zenon DEF Changed
    <2>2. ASSUME NEW s \in Sleeps, PollAgain(c, s)
          PROVE  /\ \A x \in Sleeps \ {s} : fut'[x] = fut[x] /\ waker'[x] = waker[x]
                 /\ fut[s] = "Registered"
                 /\ \/ fut'[s] = "Completed" /\ waker'[s] = waker[s] /\ ~registered[s]
                    \/ fut'[s] = fut[s] /\ waker'[s] = waker[s]
      <3>1. /\ fut[s] = "Registered" /\ waker' = waker
            /\ fut' = fut \/ (~registered[s] /\ Changed(fut', fut, Sleeps, s, "Completed"))
        BY <2>2, PollAgainDoes, Zenon
      <3> QED  BY <3>1, Zenon DEF Changed
    <2> QED  BY <2>1, <2>2, Zenon
  <1>3. \A x \in Sleeps : Linked(x)' <=> Linked(x)  BY <1>1, Zenon DEF Linked
  <1>4. \A x : Registering(x)' <=> Registering(x)
    <2>1. ASSUME pc' = pc  PROVE \A x : Registering(x)' <=> Registering(x)
      BY <2>1, Zenon DEF Registering, Critical
    <2>2. ASSUME NEW at, NEW z, Goes(c, at, z), at \notin {"arm", "unlock"}
          PROVE  \A x : Registering(x)' <=> Registering(x)
      BY <1>1, <2>2, RegisteringFrame, Zenon
    <2> QED  BY <1>1, <2>1, <2>2, Zenon
  <1>5. /\ clock \in Nat /\ clock <= clock /\ deadline \in [Sleeps -> Nat]  BY TypeFields
  <1>6. ASSUME NEW x \in Sleeps, x # s  PROVE Entry(x)'
    BY <1>1, <1>2, <1>3, <1>4, <1>5, <1>6, EntryFrame, Zenon DEF Entries
  <1>7. Entry(s)'
    <2>1. Entry(s)  BY Zenon DEF Entries
    <2>2. /\ deadline'[s] = deadline[s] /\ clock' = clock /\ registered'[s] = registered[s] /\ turn' = turn
          /\ (Linked(s)' <=> Linked(s)) /\ (Registering(s)' <=> Registering(s))
      BY <1>1, <1>3, <1>4, Zenon
    <2> QED  BY <1>2, <2>1, <2>2 DEF Entry
  <1> QED  BY <1>6, <1>7, Zenon DEF Entries

\* A Sleep is dropped: its flag decides whether it goes through Core::cancel.
LEMMA EntriesDrop ==
  ASSUME TypeOK, Owning, Entries, NEW c \in Cpus, NEW s \in Sleeps, DropSleep(c, s)
  PROVE  Entries'
  <1>1. /\ pc[c] = Idle /\ \A d \in Cpus : pc[d].sleep # s
        /\ \/ registered[s] /\ Goes(c, "cancel", s) /\ Changed(fut', fut, Sleeps, s, "dropping")
           \/ ~registered[s] /\ Changed(fut', fut, Sleeps, s, "gone") /\ pc' = pc
        /\ UNCHANGED <<slots, clock, deadline, registered, waker, turn>>
    BY DropDoes, Zenon
  <1>2. \A x \in Sleeps : Linked(x)' <=> Linked(x)  BY <1>1, Zenon DEF Linked
  <1>3. ~Registering(s)  BY <1>1, Zenon DEF Registering
  <1>4. ~Critical(c)  BY <1>1 DEF Critical, Idle
  <1>5. \A x : Registering(x)' <=> Registering(x)
    <2>1. ASSUME pc' = pc  PROVE \A x : Registering(x)' <=> Registering(x)
      BY <2>1, Zenon DEF Registering, Critical
    <2>2. "cancel" \notin {"arm", "unlock"}  OBVIOUS
    <2>3. ASSUME Goes(c, "cancel", s)  PROVE \A x : Registering(x)' <=> Registering(x)
      BY <1>4, <2>2, <2>3, RegisteringFrame, Zenon
    <2> QED  BY <1>1, <2>1, <2>3, Zenon
  <1>6. /\ clock \in Nat /\ clock <= clock /\ deadline \in [Sleeps -> Nat]  BY TypeFields
  <1>7. ASSUME NEW x \in Sleeps, x # s  PROVE Entry(x)'
    <2>1. fut'[x] = fut[x]  BY <1>1, <1>7, Zenon DEF Changed
    <2> QED  BY <1>1, <1>2, <1>5, <1>6, <2>1, EntryFrame, Zenon DEF Entries
  <1>8. Entry(s)'
    <2>1. Entry(s)  BY Zenon DEF Entries
    <2>2. /\ deadline'[s] = deadline[s] /\ clock' = clock /\ registered'[s] = registered[s] /\ turn' = turn
          /\ waker'[s] = waker[s] /\ (Linked(s)' <=> Linked(s)) /\ ~Registering(s)'
          /\ (registered[s] /\ fut'[s] = "dropping") \/ (~registered[s] /\ fut'[s] = "gone")
      BY <1>1, <1>2, <1>3, <1>5, Zenon DEF Changed
    <2> QED  BY <2>1, <2>2 DEF Entry
  <1> QED  BY <1>7, <1>8, Zenon DEF Entries

\* A Sleep is created.
LEMMA EntriesSleep ==
  ASSUME TypeOK, Owning, Entries, NEW c \in Cpus, NEW s \in Sleeps, NEW d \in Durations, Sleep(c, s, d)
  PROVE  Entries'
  <1>1. /\ \A e \in Cpus : pc[e].sleep # s
        /\ fut[s] = "none" /\ Changed(fut', fut, Sleeps, s, "Unregistered")
        /\ Changed(deadline', deadline, Sleeps, s, clock + d)
        /\ UNCHANGED <<slots, clock, registered, waker, pc, turn>>
    BY SleepDoes, Zenon
  <1>2. \A x \in Sleeps : Linked(x)' <=> Linked(x)  BY <1>1, Zenon DEF Linked
  <1>3. \A x : Registering(x)' <=> Registering(x)  BY <1>1, Zenon DEF Registering, Critical
  <1>4. ~Registering(s)  BY <1>1, Zenon DEF Registering
  <1>5. /\ clock \in Nat /\ clock <= clock /\ deadline \in [Sleeps -> Nat]  BY TypeFields
  <1>6. ASSUME NEW x \in Sleeps, x # s  PROVE Entry(x)'
    <2>1. fut'[x] = fut[x] /\ deadline'[x] = deadline[x]  BY <1>1, <1>6, Zenon DEF Changed
    <2> QED  BY <1>1, <1>2, <1>3, <1>5, <2>1, EntryFrame, Zenon DEF Entries
  <1>7. Entry(s)'
    <2>1. Entry(s)  BY Zenon DEF Entries
    <2>2. ~registered[s] /\ waker[s] = "empty" /\ s \notin turn.firing /\ s \notin turn.pending /\ ~Linked(s)
      BY <1>1, <2>1, Zenon DEF Entry
    <2>3. ~registered'[s] /\ waker'[s] = "empty" /\ turn' = turn /\ ~Linked(s)' /\ ~Registering(s)'
          /\ fut'[s] = "Unregistered"
      BY <1>1, <1>2, <1>3, <1>4, <2>2, Zenon DEF Changed
    <2> QED  BY <2>2, <2>3 DEF Entry
  <1> QED  BY <1>6, <1>7, Zenon DEF Entries

\* The steps of the handler.
LEMMA EntriesSlot ==
  ASSUME TypeOK, Locking, Placed, Turning, Entries, NEW c \in Cpus, PollSlot(c)
  PROVE  Entries'
  <1>1. /\ handler[c] = "poll" /\ turn.firing = {}
        /\ UNCHANGED <<clock, fut, deadline, registered, waker, pc>>
    BY PollSlotDoes, Zenon
  <1>2. PICK d \in next_deadline :
          /\ d.wheel \in Levels /\ d.slot \in Slots /\ Leaves(d.wheel, d.slot, {})
          /\ turn'.firing = {s \in slots[d.wheel][d.slot] : deadline[s] <= turn.now}
          /\ turn'.pending =
               turn.pending \cup {s \in slots[d.wheel][d.slot] : ~(deadline[s] <= turn.now)}
    BY PollSlotDoes, Zenon
  <1> DEFINE E == slots[d.wheel][d.slot]
  <1>3. \A x \in Sleeps : Linked(x)' <=> Linked(x) /\ x \notin E
    <2> DEFINE none == {}
    <2>1. none \subseteq E /\ \A x : x \notin none  BY Zenon
    <2>2. d.wheel \in Levels /\ d.slot \in Slots /\ Leaves(d.wheel, d.slot, none)  BY <1>2, Zenon
    <2> HIDE DEF none
    <2>3. \A x \in Sleeps : Linked(x)' <=> Linked(x) /\ (x \in E => x \in none)
      BY <2>1, <2>2, LeaveLinks, Zenon
    <2> QED  BY <2>1, <2>3, Zenon
  <1>4. \A x : Registering(x)' <=> Registering(x)  BY <1>1, Zenon DEF Registering, Critical
  <1>5. /\ clock \in Nat /\ clock <= clock /\ deadline \in [Sleeps -> Nat]  BY TypeFields
  <1>6. \A x : ~Registering(x)
    <2>1. lock = c  BY <1>1 DEF Locking, Polling
    <2>2. \A e \in Cpus : ~Critical(e)  BY <1>1, <2>1 DEF Locking
    <2> QED  BY <2>2, Zenon DEF Registering
  <1>7. \A x \in E : Linked(x)  BY <1>2, Zenon DEF Linked
  <1> HIDE DEF E
  <1>8. /\ \A x \in E : x \in turn'.pending \/ x \in turn'.firing
        /\ \A x : x \notin E => x \notin turn'.firing /\ (x \in turn'.pending <=> x \in turn.pending)
        /\ \A x \in E : x \notin turn.pending => ~(x \in turn'.pending /\ x \in turn'.firing)
    BY <1>2, Zenon DEF E
  <1>9. ASSUME NEW x \in Sleeps, x \notin E  PROVE Entry(x)'
    <2>1. /\ x \in turn'.pending <=> x \in turn.pending
          /\ x \in turn'.firing <=> x \in turn.firing
          /\ Linked(x)' <=> Linked(x)
      BY <1>1, <1>3, <1>8, <1>9, Zenon
    <2> QED  BY <1>1, <1>4, <1>5, <2>1, EntryFrame, Zenon DEF Entries
  <1>10. ASSUME NEW x \in Sleeps, x \in E  PROVE Entry(x)'
    <2>1. Entry(x) /\ Linked(x)  BY <1>7, <1>10, Zenon DEF Entries
    <2>2. /\ registered[x] /\ x \notin turn.pending /\ waker[x] # "closed" /\ fut[x] # "none"
          /\ fut[x] # "Unregistered" /\ fut[x] \in {"Registered", "dropping", "Unregistered"}
      BY <1>6, <2>1, Zenon DEF Entry
    <2>3. /\ x \in turn'.pending \/ x \in turn'.firing
          /\ x \in turn'.pending => x \notin turn'.firing
          /\ ~Linked(x)'
      BY <1>3, <1>8, <1>10, <2>2, Zenon
    <2>4. fut'[x] = fut[x] /\ waker'[x] = waker[x] /\ registered'[x] = registered[x] /\ ~Registering(x)'
      BY <1>1, <1>4, <1>6, Zenon
    <2>5. fut[x] \in {"Registered", "dropping"}  BY <2>2, Zenon
    <2> QED  BY <2>2, <2>3, <2>4, <2>5 DEF Entry
  <1> QED  BY <1>9, <1>10, Zenon DEF Entries

\* The end of Core::poll: what was pending is linked again.
LEMMA EntriesPollEnd ==
  ASSUME TypeOK, Turning, Entries, NEW c \in Cpus, PollEnd(c)
  PROVE  Entries'
  <1>1. /\ turn.firing = {} /\ Inserts(turn.pending, turn.now) /\ turn'.pending = {} /\ turn'.firing = {}
        /\ UNCHANGED <<clock, fut, deadline, registered, waker, pc>>
    BY PollEndDoes, Zenon
  <1>2. turn.pending \in SUBSET Sleeps /\ turn.now \in Nat  BY TypeFields, Zenon
  <1>3. \A x \in Sleeps : Linked(x)' <=> Linked(x) \/ x \in turn.pending  BY <1>1, <1>2, InsertLinks, Zenon
  <1>4. \A x : Registering(x)' <=> Registering(x)  BY <1>1, Zenon DEF Registering, Critical
  <1>5. ASSUME NEW x \in Sleeps  PROVE Entry(x)'
    <2>1. Entry(x)  BY Zenon DEF Entries
    <2>2. /\ x \notin turn.firing /\ x \notin turn'.firing /\ x \notin turn'.pending
          /\ fut'[x] = fut[x] /\ waker'[x] = waker[x] /\ registered'[x] = registered[x]
          /\ deadline'[x] = deadline[x] /\ clock' = clock /\ (Registering(x)' <=> Registering(x))
          /\ (Linked(x)' <=> Linked(x) \/ x \in turn.pending)
      BY <1>1, <1>3, <1>4, Zenon
    <2> QED  BY <2>1, <2>2, Zenon DEF Entry
  <1> QED  BY <1>5, Zenon DEF Entries

\* The two halves of Entry::fire.
LEMMA EntriesFire ==
  ASSUME TypeOK, Turning, Entries, NEW c \in Cpus, NEW s \in Sleeps,
         FireUnregister(c, s) \/ FireClose(c, s)
  PROVE  Entries'
  <1>1. /\ s \in turn.firing /\ UNCHANGED <<slots, clock, fut, deadline, pc>>
        /\ turn'.pending = turn.pending
        /\ \/ /\ Changed(registered', registered, Sleeps, s, FALSE) /\ waker' = waker
              /\ turn'.firing = turn.firing
           \/ /\ ~registered[s] /\ registered' = registered /\ Changed(waker', waker, Sleeps, s, "closed")
              /\ turn'.firing = turn.firing \ {s}
    BY UnregisterDoes, CloseDoes, Zenon
  <1>2. \A x \in Sleeps : Linked(x)' <=> Linked(x)  BY <1>1, Zenon DEF Linked
  <1>3. \A x : Registering(x)' <=> Registering(x)  BY <1>1, Zenon DEF Registering, Critical
  <1>4. /\ clock \in Nat /\ clock <= clock /\ deadline \in [Sleeps -> Nat] /\ turn.now \in Nat  BY TypeFields
  <1>5. deadline[s] <= turn.now /\ turn.now <= clock  BY <1>1, Zenon DEF Turning
  <1>6. deadline[s] <= clock  BY <1>4, <1>5
  <1>7. ASSUME NEW x \in Sleeps, x # s  PROVE Entry(x)'
    <2>1. /\ registered'[x] = registered[x] /\ waker'[x] = waker[x]
          /\ x \in turn'.firing <=> x \in turn.firing
      BY <1>1, <1>7, Zenon DEF Changed
    <2> QED  BY <1>1, <1>2, <1>3, <1>4, <2>1, EntryFrame, Zenon DEF Entries
  <1>8. Entry(s)'
    <2>1. Entry(s)  BY Zenon DEF Entries
    <2>2. ~Linked(s) /\ s \notin turn.pending /\ fut[s] # "none" /\ fut[s] # "Unregistered"
      BY <1>1, <2>1, Zenon DEF Entry
    <2>3. /\ ~Linked(s)' /\ s \notin turn'.pending /\ fut'[s] = fut[s] /\ deadline'[s] <= clock'
          /\ ~registered'[s]
      BY <1>1, <1>2, <1>6, <2>2, Zenon DEF Changed
    <2> QED  BY <2>2, <2>3 DEF Entry
  <1> QED  BY <1>7, <1>8, Zenon DEF Entries

\* The steps that change no entry, but for the time.
LEMMA EntriesFrame ==
  ASSUME TypeOK, Entries, UNCHANGED <<slots, fut, deadline, registered, waker>>,
         turn'.pending = turn.pending, turn'.firing = turn.firing,
         \A x : Registering(x)' <=> Registering(x), clock' \in Nat, clock <= clock'
  PROVE  Entries'
  <1>1. \A x \in Sleeps : Linked(x)' <=> Linked(x)  BY Zenon DEF Linked
  <1>2. clock \in Nat /\ deadline \in [Sleeps -> Nat]  BY TypeFields, Zenon
  <1> QED  BY <1>1, <1>2, EntryFrame, Zenon DEF Entries

\* Flag, WaitCell, Sleep and wheels fit together after every step.
LEMMA EntriesStep ==
  ASSUME TypeOK, Locking, Owning, Placed, Turning, Entries, Next
  PROVE  Entries'
  <1>0. clock \in Nat /\ clock <= clock /\ clock + 1 \in Nat /\ clock <= clock + 1  BY TypeFields
  <1>00. ASSUME pc' = pc  PROVE \A x : Registering(x)' <=> Registering(x)
    BY <1>00, Zenon DEF Registering, Critical
  <1>1. CASE Tick
    <2>1. clock' = clock + 1 /\ UNCHANGED <<slots, fut, deadline, registered, waker, pc, turn>>
      BY <1>1, Zenon DEF Tick
    <2> QED  BY <1>0, <1>00, <2>1, EntriesFrame, Zenon
  <1>2. ASSUME NEW c \in Cpus, Arm(c)  PROVE Entries'
    <2>1. /\ pc[c].at = "arm" /\ Goes(c, "unlock", pc[c].sleep)
          /\ UNCHANGED <<slots, fut, deadline, registered, waker, clock, turn>>
      BY <1>2, ArmDoes, Zenon
    <2>2. Critical(c) /\ "unlock" \in {"arm", "unlock"}  BY <2>1 DEF Critical
    <2>3. \A x : Registering(x)' <=> Registering(x)  BY <2>1, <2>2, RegisteringFrame, Zenon
    <2> QED  BY <1>0, <2>1, <2>3, EntriesFrame, Zenon
  <1>10. ASSUME NEW c \in Cpus, TurnBusy(c) \/ ArmNext(c)  PROVE Entries'
    <2>1. UNCHANGED <<slots, fut, deadline, registered, waker, pc, clock, turn>>
      BY <1>10, Zenon DEF TurnBusy, ArmNext
    <2> QED  BY <1>0, <1>00, <2>1, EntriesFrame, Zenon
  <1>11. ASSUME NEW c \in Cpus, TurnStart(c)  PROVE Entries'
    <2>1. /\ lock = NoCpu /\ turn'.pending = {} /\ turn'.firing = {}
          /\ UNCHANGED <<slots, fut, deadline, registered, waker, pc, clock>>
      BY <1>11, TurnStartDoes, Zenon
    <2>2. turn.pending = {} /\ turn.firing = {}  BY <2>1, LockFree, Zenon
    <2> QED  BY <1>0, <1>00, <2>1, <2>2, EntriesFrame, Zenon
  <1>14. ASSUME NEW c \in Cpus, TurnAgain(c) \/ TurnEnd(c)  PROVE Entries'
    <2>1. handler[c] = "again"  BY <1>14, Zenon DEF TurnAgain, TurnEnd
    <2>2. turn.pending = {} /\ turn.firing = {}  BY <2>1, Zenon DEF Turning
    <2>3. /\ turn'.pending = {} /\ turn'.firing = {}
          /\ UNCHANGED <<slots, fut, deadline, registered, waker, pc, clock>>
      BY <1>14, <2>2, TurnAgainDoes, TurnEndDoes, Zenon
    <2> QED  BY <1>0, <1>00, <2>2, <2>3, EntriesFrame, Zenon
  <1> QED
    BY <1>1, <1>2, <1>10, <1>11, <1>14, EntriesUnlock, EntriesCancel, EntriesRegister, EntriesPoll,
       EntriesDrop, EntriesSleep, EntriesSlot, EntriesPollEnd, EntriesFire, Zenon
       DEF Next, ThreadProgress, ThreadChoice, HandlerProgress

-----------------------------------------------------------------------------
(* The alarms. *)

\* One CPU holds the lock.
LEMMA OneHolder ==
  ASSUME Locking, NEW c \in Cpus, NEW d \in Cpus, Critical(c) \/ Polling(c), Critical(d) \/ Polling(d)
  PROVE  c = d
  BY Zenon DEF Locking

\* Where nothing that the alarms are about changes.
LEMMA AlarmsFrame ==
  ASSUME Alarms, UNCHANGED <<slots, deadline, alarm, handler, returned, nested>>,
         \A c \in Cpus : pc'[c].at = pc[c].at
  PROVE  Alarms'
  <1>1. \A s \in Sleeps : Linked(s)' <=> Linked(s)  BY Zenon DEF Linked
  <1>2. \A c \in Cpus, s \in Sleeps : (Covers(alarm[c], s)' <=> Covers(alarm[c], s))
                                      /\ (Covers(returned[c], s)' <=> Covers(returned[c], s))
    BY Zenon DEF Covers
  <1>3. \A s \in Sleeps : Awaited(s)' <=> Awaited(s)  BY <1>2, Zenon DEF Awaited, Polling
  <1> QED  BY <1>1, <1>2, <1>3, Zenon DEF Alarms

\* While somebody will ask for the next deadline, and nobody has just done so.
LEMMA AlarmsOpen ==
  ASSUME NEW c \in Cpus, pc'[c].at = "arm" \/ Polling(c)', \A d \in Cpus : pc'[d].at # "unlock"
  PROVE  Alarms'
  <1>1. \A s \in Sleeps : Awaited(s)'  BY Zenon DEF Awaited
  <1> QED  BY <1>1, Zenon DEF Alarms

\* The steps of a thread.
LEMMA AlarmsThread ==
  ASSUME TypeOK, Locking, Owning, Placed, Turning, Entries, Alarms, NEW c \in Cpus,
         ThreadProgress(c) \/ ThreadChoice(c)
  PROVE  Alarms'
  <1>1. ASSUME Arm(c)  PROVE Alarms'
    <2>1. /\ handler[c] = "idle" /\ pc[c].at = "arm"
          /\ Changed(alarm', alarm, Cpus, c, next_ticks) /\ Goes(c, "unlock", pc[c].sleep)
          /\ UNCHANGED <<slots, deadline, handler>>
      BY <1>1, ArmDoes, Zenon
    <2>2. \A s \in Sleeps : Linked(s)' <=> Linked(s)  BY <2>1, Zenon DEF Linked
    <2>3. \A s \in Sleeps : Linked(s) => Covers(alarm[c], s)'
      BY <2>1, NextTicks, Zenon DEF Covers, Changed
    <2>4. \A d \in Cpus : pc'[d].at = "unlock" => d = c
      <3>1. Critical(c) /\ \A d \in Cpus : pc[d].at = "unlock" => Critical(d)  BY <2>1 DEF Critical
      <3> QED  BY <2>1, <3>1, OneHolder, Zenon DEF Goes
    <2>5. handler'[c] = "idle"  BY <2>1, Zenon
    <2>6. \A s \in Sleeps : Linked(s)' => Awaited(s)'  BY <2>2, <2>3, <2>5, Zenon DEF Awaited
    <2> QED  BY <2>2, <2>3, <2>4, <2>6, Zenon DEF Alarms
  <1>2. ASSUME Unlock(c)  PROVE Alarms'
    <2>1. /\ handler[c] = "idle" /\ pc[c].at = "unlock" /\ UNCHANGED <<slots, deadline, alarm, handler, nested>>
          /\ Goes(c, "poll_wait", pc[c].sleep) \/ Goes(c, "idle", "none")
      BY <1>2, UnlockDoes, Zenon
    <2>2. \A s \in Sleeps : Linked(s)' <=> Linked(s)  BY <2>1, Zenon DEF Linked
    <2>3. \A s \in Sleeps : Covers(alarm[c], s)' <=> Covers(alarm[c], s)  BY <2>1, Zenon DEF Covers
    <2>4. \A d \in Cpus : pc'[d].at # "unlock"
      <3>1. Critical(c) /\ \A d \in Cpus : pc[d].at = "unlock" => Critical(d)  BY <2>1 DEF Critical
      <3>2. \A d \in Cpus \ {c} : pc[d].at # "unlock"  BY <3>1, OneHolder, Zenon
      <3>3. pc'[c].at # "unlock" /\ \A d \in Cpus \ {c} : pc'[d] = pc[d]  BY <2>1 DEF Goes
      <3> QED  BY <3>2, <3>3, Zenon
    <2>5. handler'[c] = "idle"  BY <2>1, Zenon
    <2>6. nested' \/ \A s \in Sleeps : Linked(s)' => Awaited(s)'
      BY <2>1, <2>2, <2>3, <2>5, Zenon DEF Awaited, Alarms
    <2> QED  BY <2>4, <2>6, Zenon DEF Alarms
  <1>3. ASSUME ~Critical(c), UNCHANGED <<slots, deadline, alarm, handler, returned, nested>>,
               pc' = pc \/ \E at, s : Goes(c, at, s) /\ at \notin {"arm", "unlock"}
        PROVE  Alarms'
    <2>1. \A s \in Sleeps : Linked(s)' <=> Linked(s)  BY <1>3, Zenon DEF Linked
    <2>2. \A d \in Cpus, s \in Sleeps : (Covers(alarm[d], s)' <=> Covers(alarm[d], s))
                                        /\ (Covers(returned[d], s)' <=> Covers(returned[d], s))
      BY <1>3, Zenon DEF Covers
    <2>3. \A d \in Cpus : (pc'[d].at = "arm" <=> pc[d].at = "arm") /\ (pc'[d].at = "unlock" <=> pc[d].at = "unlock")
      BY <1>3 DEF Goes, Critical
    <2>4. \A s \in Sleeps : Awaited(s)' <=> Awaited(s)  BY <1>3, <2>2, <2>3, Zenon DEF Awaited, Polling
    <2> QED  BY <1>3, <2>1, <2>2, <2>3, <2>4, Zenon DEF Alarms
  <1>4. ASSUME PollWait(c)  PROVE Alarms'
    <2>1. /\ pc[c].at = "poll_wait" /\ UNCHANGED <<slots, deadline, alarm, handler, returned, nested>>
          /\ Goes(c, "idle", "none")
      BY <1>4, PollWaitDoes, Zenon
    <2>2. ~Critical(c) /\ "idle" \notin {"arm", "unlock"}  BY <2>1 DEF Critical
    <2> QED  BY <1>3, <2>1, <2>2, Zenon
  <1>5. ASSUME NEW s \in Sleeps, PollAgain(c, s) \/ DropSleep(c, s)  PROVE Alarms'
    <2>1. /\ pc[c] = Idle /\ UNCHANGED <<slots, deadline, alarm, handler, returned, nested>>
          /\ Goes(c, "poll_wait", s) \/ Goes(c, "cancel", s) \/ pc' = pc
      BY <1>5, PollAgainDoes, DropDoes, Zenon
    <2>2. ~Critical(c) /\ "poll_wait" \notin {"arm", "unlock"} /\ "cancel" \notin {"arm", "unlock"}
      BY <2>1 DEF Critical, Idle
    <2> QED  BY <1>3, <2>1, <2>2, Zenon
  <1>6. ASSUME Cancel(c) \/ \E s \in Sleeps : Register(c, s)  PROVE Alarms'
    <2>1. lock = NoCpu /\ \E s : Goes(c, "arm", s)  BY <1>6, CancelDoes, RegisterDoes, Zenon
    <2>2. \A d \in Cpus : ~Critical(d)  BY <2>1, LockFree, Zenon
    <2>3. pc'[c].at = "arm" /\ \A d \in Cpus : pc'[d].at # "unlock"  BY <2>1, <2>2 DEF Goes, Critical
    <2> QED  BY <2>3, AlarmsOpen, Zenon
  <1>7. ASSUME NEW s \in Sleeps, NEW d \in Durations, Sleep(c, s, d)  PROVE Alarms'
    <2>1. /\ fut[s] = "none" /\ UNCHANGED <<slots, alarm, handler, returned, nested, pc>>
          /\ \A x \in Sleeps \ {s} : deadline'[x] = deadline[x]
      BY <1>7, SleepDoes, Zenon DEF Changed
    <2>2. ~Linked(s)  BY <2>1, Zenon DEF Entries, Entry
    <2>3. \A x \in Sleeps : Linked(x)' <=> Linked(x)  BY <2>1, Zenon DEF Linked
    <2>4. \A e \in Cpus, x \in Sleeps \ {s} : (Covers(alarm[e], x)' <=> Covers(alarm[e], x))
                                              /\ (Covers(returned[e], x)' <=> Covers(returned[e], x))
      BY <2>1, Zenon DEF Covers
    <2>5. \A x \in Sleeps \ {s} : Awaited(x)' <=> Awaited(x)  BY <2>1, <2>4, Zenon DEF Awaited, Polling
    <2> QED  BY <2>1, <2>2, <2>3, <2>4, <2>5, Zenon DEF Alarms
  <1> QED
    BY <1>1, <1>2, <1>4, <1>5, <1>6, <1>7, Zenon DEF ThreadProgress, ThreadChoice

\* The steps of the handler.
LEMMA AlarmsHandler ==
  ASSUME TypeOK, Locking, Placed, Turning, Alarms, NEW c \in Cpus, HandlerProgress(c)
  PROVE  Alarms'
  <1>0. \A d \in Cpus : pc[d].at = "unlock" => Critical(d)  BY DEF Critical
  <1>1. ASSUME Polling(c)  PROVE \A d \in Cpus : pc[d].at # "unlock"
    <2>1. handler[c] # "idle"  BY <1>1 DEF Polling
    <2>2. ~Critical(c)  BY <2>1, Zenon DEF Locking
    <2> QED  BY <1>0, <1>1, <2>2, OneHolder, Zenon
  <1>2. ASSUME TurnBusy(c)  PROVE Alarms'
    <2>1. /\ lock # NoCpu /\ Changed(alarm', alarm, Cpus, c, {}) /\ nested' = (nested \/ pc[c].at = "unlock")
          /\ UNCHANGED <<slots, deadline, pc, handler, returned>>
      BY <1>2, TurnBusyDoes, Zenon
    <2>2. lock \in Cpus  BY <2>1, TypeFields, Zenon
    <2>3. PICK e \in Cpus : Critical(e) \/ Polling(e)  BY <2>2, Zenon DEF Locking
    <2>4. \A s \in Sleeps : Linked(s)' <=> Linked(s)  BY <2>1, Zenon DEF Linked
    <2>5. \A d \in Cpus \ {c}, s \in Sleeps : Covers(alarm[d], s)' <=> Covers(alarm[d], s)
      BY <2>1, Zenon DEF Covers, Changed
    <2>6. ASSUME ~nested'  PROVE Alarms'
      <3>1. ~nested /\ pc[c].at # "unlock"  BY <2>1, <2>6, Zenon
      <3>2. \A d \in Cpus : pc'[d].at = "unlock" => pc[d].at = "unlock" /\ d \in Cpus \ {c}
        BY <2>1, <3>1, Zenon
      <3>3. \A d \in Cpus : pc'[d].at = "unlock" => \A s \in Sleeps : Linked(s)' => Covers(alarm[d], s)'
        BY <2>4, <2>5, <3>1, <3>2, Zenon DEF Alarms
      <3>4. CASE pc[e].at = "unlock"
        <4>1. e \in Cpus \ {c} /\ handler[e] = "idle"  BY <3>1, <3>4, <1>0, Zenon DEF Locking
        <4>2. \A s \in Sleeps : Linked(s) => Covers(alarm[e], s)  BY <3>1, <3>4, Zenon DEF Alarms
        <4>3. \A s \in Sleeps : Linked(s)' => Covers(alarm[e], s)'  BY <2>4, <2>5, <4>1, <4>2, Zenon
        <4>4. handler'[e] = "idle"  BY <2>1, <4>1, Zenon
        <4>5. \A s \in Sleeps : Linked(s)' => Awaited(s)'  BY <4>3, <4>4, Zenon DEF Awaited
        <4> QED  BY <3>3, <4>5, Zenon DEF Alarms
      <3>5. CASE pc[e].at # "unlock"
        <4>1. pc[e].at = "arm" \/ Polling(e)  BY <2>3, <3>5 DEF Critical
        <4>2. pc'[e].at = "arm" \/ Polling(e)'  BY <2>1, <4>1, Zenon DEF Polling
        <4>3. \A s \in Sleeps : Awaited(s)'  BY <4>2, Zenon DEF Awaited
        <4> QED  BY <3>3, <4>3, Zenon DEF Alarms
      <3> QED  BY <3>4, <3>5, Zenon
    <2> QED  BY <2>6, Zenon DEF Alarms
  <1>3. ASSUME TurnStart(c)  PROVE Alarms'
    <2>1. lock = NoCpu /\ handler'[c] = "poll" /\ pc' = pc  BY <1>3, TurnStartDoes, Zenon DEF Changed
    <2>2. \A d \in Cpus : pc'[d].at # "unlock"  BY <1>0, <2>1, LockFree, Zenon
    <2>3. Polling(c)'  BY <2>1 DEF Polling
    <2> QED  BY <2>2, <2>3, AlarmsOpen, Zenon
  <1>4. ASSUME PollSlot(c) \/ PollEnd(c) \/ TurnAgain(c)  PROVE Alarms'
    <2>1. ASSUME PollSlot(c)  PROVE handler[c] = "poll" /\ handler'[c] = "poll" /\ pc' = pc
      BY <2>1, PollSlotDoes, Zenon
    <2>2. ASSUME PollEnd(c)  PROVE handler[c] = "poll" /\ handler'[c] = "again" /\ pc' = pc
      BY <2>2, PollEndDoes, Zenon DEF Changed
    <2>3. ASSUME TurnAgain(c)  PROVE handler[c] = "again" /\ handler'[c] = "poll" /\ pc' = pc
      BY <2>3, TurnAgainDoes, Zenon DEF Changed
    <2>4. Polling(c) /\ Polling(c)' /\ pc' = pc  BY <1>4, <2>1, <2>2, <2>3, Zenon DEF Polling
    <2> QED  BY <1>1, <2>4, AlarmsOpen, Zenon
  <1>5. ASSUME TurnEnd(c)  PROVE Alarms'
    <2>1. /\ handler[c] = "again" /\ handler'[c] = "arm" /\ returned'[c] = next_ticks
          /\ UNCHANGED <<slots, deadline, pc>>
      BY <1>5, TurnEndDoes, Zenon DEF Changed
    <2>2. \A d \in Cpus : pc'[d].at # "unlock"  BY <1>1, <2>1, Zenon DEF Polling
    <2>3. \A s \in Sleeps : Linked(s)' => Covers(returned[c], s)'
      BY <2>1, NextTicks, Zenon DEF Covers, Linked
    <2>4. \A s \in Sleeps : Linked(s)' => Awaited(s)'  BY <2>1, <2>3, Zenon DEF Awaited
    <2> QED  BY <2>2, <2>4, Zenon DEF Alarms
  <1>6. ASSUME ArmNext(c)  PROVE Alarms'
    <2>1. /\ handler[c] = "arm" /\ Changed(handler', handler, Cpus, c, "idle")
          /\ Changed(alarm', alarm, Cpus, c, returned[c]) /\ Changed(returned', returned, Cpus, c, {})
          /\ UNCHANGED <<slots, deadline, pc, nested>>
      BY <1>6, ArmNextDoes, Zenon
    <2>2. \A s \in Sleeps : Linked(s)' <=> Linked(s)  BY <2>1, Zenon DEF Linked
    <2>3. ~Critical(c) /\ ~Polling(c) /\ handler[c] # "idle"  BY <2>1 DEF Locking, Polling
    <2>4. \A s \in Sleeps : Covers(alarm[c], s)' <=> Covers(returned[c], s)
      BY <2>1, Zenon DEF Covers, Changed
    <2>5. \A d \in Cpus \ {c}, s \in Sleeps :
            /\ Covers(alarm[d], s)' <=> Covers(alarm[d], s)
            /\ Covers(returned[d], s)' <=> Covers(returned[d], s)
      BY <2>1, Zenon DEF Covers, Changed
    <2>6. /\ handler'[c] = "idle" /\ pc' = pc
          /\ \A d \in Cpus \ {c} : handler'[d] = handler[d] /\ (Polling(d)' <=> Polling(d))
      BY <2>1, Zenon DEF Changed, Polling
    <2>7. ASSUME NEW s \in Sleeps, Awaited(s)  PROVE Awaited(s)'
      <3>1. ASSUME NEW d \in Cpus, handler[d] = "idle" /\ Covers(alarm[d], s)  PROVE Awaited(s)'
        <4>1. d \in Cpus \ {c}  BY <2>3, <3>1, Zenon
        <4>2. handler'[d] = "idle" /\ Covers(alarm[d], s)'  BY <2>5, <2>6, <3>1, <4>1, Zenon
        <4> QED  BY <4>2, Zenon DEF Awaited
      <3>2. ASSUME NEW d \in Cpus, pc[d].at = "arm"  PROVE Awaited(s)'
        <4>1. pc'[d].at = "arm"  BY <2>6, <3>2, Zenon
        <4> QED  BY <4>1, Zenon DEF Awaited
      <3>3. ASSUME NEW d \in Cpus, Polling(d)  PROVE Awaited(s)'
        <4>1. d \in Cpus \ {c}  BY <2>3, <3>3, Zenon
        <4>2. Polling(d)'  BY <2>6, <3>3, <4>1, Zenon
        <4> QED  BY <4>2, Zenon DEF Awaited
      <3>4. ASSUME NEW d \in Cpus, handler[d] = "arm" /\ Covers(returned[d], s)  PROVE Awaited(s)'
        <4>1. CASE d = c
          <5>1. handler'[c] = "idle" /\ Covers(alarm[c], s)'  BY <2>4, <2>6, <3>4, <4>1, Zenon
          <5> QED  BY <5>1, Zenon DEF Awaited
        <4>2. CASE d # c
          <5>1. handler'[d] = "arm" /\ Covers(returned[d], s)'  BY <2>5, <2>6, <3>4, <4>2, Zenon
          <5> QED  BY <5>1, Zenon DEF Awaited
        <4> QED  BY <4>1, <4>2, Zenon
      <3> QED  BY <2>7, <3>1, <3>2, <3>3, <3>4, Zenon DEF Awaited
    <2>8. \A d \in Cpus : pc'[d].at = "unlock" => pc[d].at = "unlock" /\ d \in Cpus \ {c}
      BY <1>0, <2>3, <2>6, Zenon
    <2> QED  BY <2>1, <2>2, <2>5, <2>7, <2>8, Zenon DEF Alarms
  <1>7. ASSUME NEW s \in Sleeps, FireUnregister(c, s) \/ FireClose(c, s)  PROVE Alarms'
    BY <1>7, AlarmsFrame, Zenon DEF FireUnregister, FireClose
  <1> QED
    BY <1>2, <1>3, <1>4, <1>5, <1>6, <1>7, Zenon DEF HandlerProgress

\* Every linked entry is still awaited after every step.
LEMMA AlarmsStep ==
  ASSUME TypeOK, Locking, Owning, Placed, Turning, Entries, Alarms, Next
  PROVE  Alarms'
  <1>1. CASE Tick  BY <1>1, AlarmsFrame, Zenon DEF Tick
  <1> QED  BY <1>1, AlarmsThread, AlarmsHandler, Zenon DEF Next

-----------------------------------------------------------------------------
(* The theorems. *)

\* Nothing is linked and nobody holds the lock when the Timer is created.
LEMMA InitInvariant ==
  ASSUME Init
  PROVE  IInv
  <1>0. Starts \subseteq Nat /\ MaxTicks \in Nat /\ NoCpu \notin Cpus  BY TimerBounds, Zenon
  <1>1. TypeOK
    <2>1. /\ slots \in [Levels -> [Slots -> SUBSET Sleeps]] /\ occupied \in [Levels -> SUBSET Slots]
          /\ lock \in Cpus \cup {NoCpu} /\ alarm \in [Cpus -> SUBSET Nat] /\ returned \in [Cpus -> SUBSET Nat]
          /\ \A c \in Cpus : \A t, u \in alarm[c] : t = u
      BY Zenon DEF Init
    <2>2. start \in Starts /\ clock \in start .. start + MaxTicks /\ now \in 0 .. clock  BY <1>0 DEF Init
    <2>3. /\ pc \in PcTypes /\ fut \in FutTypes /\ deadline \in [Sleeps -> Nat]
          /\ turn \in [now : Nat, pending : SUBSET Sleeps, firing : SUBSET Sleeps]
      BY DEF Init, PcTypes, FutTypes, Idle, NoTurn
    <2>4. /\ registered \in [Sleeps -> BOOLEAN] /\ waker \in [Sleeps -> {"empty", "waiting", "closed"}]
          /\ handler \in [Cpus -> {"idle", "poll", "again", "arm"}] /\ nested \in BOOLEAN
      BY DEF Init
    <2> QED  BY <2>1, <2>2, <2>3, <2>4, Zenon DEF TypeOK, PcTypes, FutTypes
  <1>2. \A s : ~Linked(s)  BY DEF Init, Linked
  <1>3. Returns  BY Zenon DEF Init, Returns
  <1>4. Locking /\ Owning  BY <1>0 DEF Init, Locking, Owning, Critical, Polling, Idle
  <1>5. Placed  BY DEF Init, Placed
  <1>6. Turning  BY <1>0 DEF Init, Turning, Polling, NoTurn
  <1>7. Entries  BY <1>2 DEF Init, Entries, Entry, NoTurn
  <1>8. Alarms  BY <1>2 DEF Init, Alarms, Idle
  <1> QED  BY <1>1, <1>3, <1>4, <1>5, <1>6, <1>7, <1>8 DEF IInv

\* Every step keeps the invariant.
THEOREM TimerInvariant == Spec => []IInv
  <1>1. IInv /\ [Next]_vars => IInv'
    <2>1. ASSUME IInv, Next  PROVE IInv'
      BY <2>1, TypeStep, ReturnsStep, LockingStep, OwningStep, PlacedStep, TurningStep, EntriesStep,
         AlarmsStep, Zenon DEF IInv
    <2>2. ASSUME IInv, UNCHANGED vars  PROVE IInv'
      <3>1. TypeOK'  BY <2>2 DEF vars, IInv, TypeOK
      <3>2. Returns'  BY <2>2 DEF vars, IInv, Returns
      <3>3. Locking'  BY <2>2 DEF vars, IInv, Locking, Critical, Polling
      <3>4. Owning'  BY <2>2 DEF vars, IInv, Owning, Critical
      <3>5. Placed'  BY <2>2 DEF vars, IInv, Placed, Belongs, Passed, slot_index
      <3>6. Turning'  BY <2>2 DEF vars, IInv, Turning, Polling
      <3>7. Entries'
        <4>1. ASSUME NEW s \in Sleeps  PROVE Entry(s)'
          <5>1. Entry(s)  BY <2>2, Zenon DEF IInv, Entries
          <5>2. Linked(s)' <=> Linked(s)  BY <2>2 DEF vars, Linked
          <5>3. Registering(s)' <=> Registering(s)  BY <2>2 DEF vars, Registering, Critical
          <5> QED  BY <2>2, <5>1, <5>2, <5>3 DEF vars, Entry
        <4> QED  BY <4>1, Zenon DEF Entries
      <3>8. Alarms'  BY <2>2 DEF vars, IInv, Alarms, Linked, Awaited, Covers, Polling
      <3> QED  BY <3>1, <3>2, <3>3, <3>4, <3>5, <3>6, <3>7, <3>8, Zenon DEF IInv
    <2> QED  BY <2>1, <2>2, Zenon
  <1> QED  BY <1>1, InitInvariant, PTL DEF Spec

\* The state is of its type, and no alarm is set twice.
THEOREM TypesHold == Spec => []TypeOK
  <1>1. IInv => TypeOK  BY Zenon DEF IInv
  <1> QED  BY <1>1, TimerInvariant, PTL

\* With the lock free, Core::cancel finds every registered entry in the slot that it
\* computes, though the entry was inserted at an earlier time, and the wheels hold no
\* other entry.
THEOREM CancelFinds == Spec => []CancelFindsEntry
  <1>1. ASSUME IInv, lock = NoCpu
        PROVE  /\ \A l \in Levels, k \in Slots : slots[l][k] =
                    {s \in Sleeps : /\ registered[s]
                                   /\ l = wheel_index(now, deadline[s])
                                   /\ k = slot_index(l, deadline[s])}
               /\ \A l \in Levels : occupied[l] = {k \in Slots : slots[l][k] # {}}
               /\ \A s \in Sleeps : registered[s] => fut[s] \in {"Registered", "dropping"}
    <2>1. turn.pending = {} /\ turn.firing = {} /\ \A x : ~Registering(x)  BY <1>1, LockFree, Zenon DEF IInv
    <2>2. \A s \in Sleeps : registered[s] <=> Linked(s)  BY <1>1, <2>1, Zenon DEF IInv, Entries, Entry
    <2>3. \A s \in Sleeps : registered[s] => fut[s] \in {"Registered", "dropping"}
      BY <1>1, <2>1, Zenon DEF IInv, Entries, Entry
    <2>4. \A l \in Levels, k \in Slots, s \in Sleeps :
            s \in slots[l][k] => l = wheel_index(now, deadline[s]) /\ k = slot_index(l, deadline[s])
      BY <1>1, OneSlot, Zenon DEF IInv
    <2>5. ASSUME NEW l \in Levels, NEW k \in Slots
          PROVE  slots[l][k] = {s \in Sleeps : /\ registered[s]
                                             /\ l = wheel_index(now, deadline[s])
                                             /\ k = slot_index(l, deadline[s])}
      <3>1. slots[l][k] \subseteq Sleeps  BY <1>1, TypeFields DEF IInv
      <3>2. ASSUME NEW s \in Sleeps, registered[s], l = wheel_index(now, deadline[s]),
                   k = slot_index(l, deadline[s])
            PROVE  s \in slots[l][k]
        <4>1. PICK m \in Levels, j \in Slots : s \in slots[m][j]  BY <2>2, <3>2, Zenon DEF Linked
        <4>2. m = l /\ j = k  BY <2>4, <3>2, <4>1, Zenon
        <4> QED  BY <4>1, <4>2, Zenon
      <3>3. \A s \in slots[l][k] : registered[s]  BY <2>2, <3>1, Zenon DEF Linked
      <3> QED  BY <2>4, <3>1, <3>2, <3>3, Zenon
    <2>6. \A l \in Levels : occupied[l] = {k \in Slots : slots[l][k] # {}}
      <3>1. \A l \in Levels : occupied[l] \subseteq Slots  BY <1>1, TypeFields, Zenon DEF IInv
      <3>2. \A l \in Levels, k \in Slots : k \in occupied[l] <=> slots[l][k] # {}  BY <1>1, Zenon DEF IInv, Placed
      <3> QED  BY <3>1, <3>2, Zenon
    <2> QED  BY <2>3, <2>5, <2>6, Zenon
  <1>2. IInv => CancelFindsEntry  BY <1>1, Zenon DEF CancelFindsEntry
  <1> QED  BY <1>2, TimerInvariant, PTL

\* A Sleep is never Ready before its deadline.
THEOREM NeverEarly == Spec => []NotEarly
  <1>1. IInv => NotEarly  BY Zenon DEF IInv, Entries, Entry, NotEarly
  <1> QED  BY <1>1, TimerInvariant, PTL

\* Core::now never passes the deadline of an entry that stays in the wheels.
THEOREM NeverOverdue == Spec => []NotOverdue
  <1>1. IInv => NotOverdue  BY Zenon DEF IInv, Placed, Linked, NotOverdue
  <1> QED  BY <1>1, TimerInvariant, PTL

\* Some alarm is set for the first deadline, unless an interrupt hit the critical section
\* of its own CPU.
THEOREM AlarmSet == Spec => []ArmedUnlessNested
  <1>1. ASSUME IInv, ~nested, lock = NoCpu, \A c \in Cpus : handler[c] = "idle", NEW s \in Sleeps, Linked(s)
        PROVE  \E c \in Cpus : \E t \in alarm[c] : t <= deadline[s]
    <2>1. \A c \in Cpus : ~Critical(c) /\ ~Polling(c)  BY <1>1, LockFree, Zenon DEF IInv
    <2>2. \A c \in Cpus : pc[c].at # "arm"  BY <2>1 DEF Critical
    <2>3. \A c \in Cpus : handler[c] # "arm"  BY <1>1
    <2>4. Awaited(s)  BY <1>1, Zenon DEF IInv, Alarms
    <2> QED  BY <2>1, <2>2, <2>3, <2>4, Zenon DEF Awaited, Covers
  <1>2. IInv => ArmedUnlessNested  BY <1>1, Zenon DEF ArmedUnlessNested, Armed
  <1> QED  BY <1>2, TimerInvariant, PTL
=============================================================================
