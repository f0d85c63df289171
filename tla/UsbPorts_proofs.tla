--------------------------- MODULE UsbPorts_proofs ---------------------------
(***************************************************************************)
(* Proofs about how USBD brings up the devices on the root hub, for any    *)
(* number of ports and endpoints, any delays, and devices that come and go *)
(* at any time.                                                            *)
(***************************************************************************)
EXTENDS UsbPorts, FiniteSetTheorems, SequenceTheorems, WellFoundedInduction, TLAPS

-----------------------------------------------------------------------------
(* Timers                                                                  *)

\* What holds of 0 and goes on holds of all numbers.
LEMMA Induction ==
  ASSUME NEW S \in SUBSET Nat, 0 \in S, \A n \in Nat : n \in S => n + 1 \in S
  PROVE  S = Nat
<1>. DEFINE T == Nat \ S
            R == {ss \in Nat \X Nat : ss[1] < ss[2]}
<1>1. IsWellFoundedOn(R, Nat)
  BY NatLessThanWellFounded DEF OpToRel
<1>2. SUFFICES ASSUME T # {} PROVE FALSE
  OBVIOUS
<1>. HIDE DEF R
<1>3. PICK x \in T : \A y \in T : ~(<<y, x>> \in R)
  BY <1>1, <1>2, WFMin
<1>4. x # 0 /\ x - 1 \in Nat /\ x - 1 \notin S
  BY <1>3
<1>5. <<x - 1, x>> \in R
  BY <1>4, <1>3 DEF R
<1>. QED
  BY <1>3, <1>4, <1>5

\* A set of numbers that is not empty has a least one.
LEMMA LeastOf ==
  ASSUME NEW S \in SUBSET Nat, S # {}
  PROVE  \E i \in S : \A j \in S : i <= j
<1>. DEFINE R == {ss \in Nat \X Nat : ss[1] < ss[2]}
<1>1. IsWellFoundedOn(R, Nat)
  BY NatLessThanWellFounded DEF OpToRel
<1>2. PICK x \in S : \A y \in S : ~(<<y, x>> \in R)
  <2>. HIDE DEF R
  <2>. QED
    BY <1>1, WFMin
<1>3. ASSUME NEW j \in S PROVE x <= j
  <2>1. x \in Nat /\ j \in Nat /\ ~(<<j, x>> \in R)
    BY <1>2
  <2>2. j < x => <<j, x>> \in R
    BY <2>1
  <2>. QED
    BY <2>1, <2>2
<1>. QED
  BY <1>3

\* What a timer is.
LEMMA TimerIs ==
  ASSUME NEW t \in Timer
  PROVE  /\ t.cb \in {"reset", "address", "peek", "kill"} /\ t.left \in Nat
         /\ IF t.cb = "kill" THEN t.of \in Ep ELSE t.of \in Port
         /\ t = [cb |-> t.cb, of |-> t.of, left |-> t.left]
         /\ \A n \in Nat : [t EXCEPT !.left = n] \in Timer /\ [t EXCEPT !.left = n].cb = t.cb
                           /\ [t EXCEPT !.left = n].of = t.of
BY DEF Timer

\* A timer of a device or an endpoint.
MayTime(cb, of) == (cb = "kill" /\ of \in Ep) \/ (cb \in {"reset", "address", "peek"} /\ of \in Port)
LEMMA NewTimer ==
  ASSUME NEW cb, NEW of, MayTime(cb, of), NEW n \in Nat
  PROVE  [cb |-> cb, of |-> of, left |-> n] \in Timer
BY DEF Timer, MayTime

\* A list of timers has its sums.
LEMMA Sums ==
  ASSUME NEW T \in Seq(Timer)
  PROVE  /\ Before(T, 0) = 0
         /\ \A i \in 0..Len(T) : Before(T, i) \in Nat
         /\ \A i \in 1..Len(T) : Before(T, i) = Before(T, i - 1) + T[i].left
<1>. DEFINE S == {k \in Nat : \E g : g = [j \in 0..k |-> IF j = 0 THEN 0 ELSE g[j - 1] + T[j].left]}
<1>1. 0 \in S
  <2>. DEFINE g == [j \in 0..0 |-> 0]
  <2>1. g = [j \in 0..0 |-> IF j = 0 THEN 0 ELSE g[j - 1] + T[j].left]
    OBVIOUS
  <2>. QED
    BY <2>1
<1>2. ASSUME NEW k \in Nat, k \in S PROVE k + 1 \in S
  <2>1. PICK g : g = [j \in 0..k |-> IF j = 0 THEN 0 ELSE g[j - 1] + T[j].left]
    BY <1>2
  <2>. DEFINE h == [j \in 0..(k + 1) |-> IF j = k + 1 THEN g[k] + T[k + 1].left ELSE g[j]]
  <2>2. ASSUME NEW j \in 0..(k + 1)
        PROVE  h[j] = IF j = 0 THEN 0 ELSE h[j - 1] + T[j].left
    <3>1. CASE j = k + 1
      <4>1. j # 0 /\ j - 1 = k /\ k \in 0..(k + 1) /\ k # k + 1
        BY <3>1
      <4>2. h[k] = g[k] /\ h[j] = g[k] + T[k + 1].left
        BY <3>1, <4>1
      <4>. QED
        BY <3>1, <4>1, <4>2
    <3>2. CASE j # k + 1
      <4>1. j \in 0..k /\ h[j] = g[j]
        BY <3>2
      <4>2. g[j] = IF j = 0 THEN 0 ELSE g[j - 1] + T[j].left
        BY <4>1, <2>1
      <4>3. j # 0 => h[j - 1] = g[j - 1]
        BY <4>1
      <4>. QED
        BY <4>1, <4>2, <4>3
    <3>. QED
      BY <3>1, <3>2
  <2>3. h = [j \in 0..(k + 1) |-> h[j]]
    OBVIOUS
  <2>. HIDE DEF h
  <2>4. h = [j \in 0..(k + 1) |-> IF j = 0 THEN 0 ELSE h[j - 1] + T[j].left]
    BY <2>2, <2>3
  <2>5. k + 1 \in Nat
    OBVIOUS
  <2>. QED
    BY <2>4, <2>5
<1>3. Len(T) \in S
  <2>. HIDE DEF S
  <2>1. S \in SUBSET Nat
    BY DEF S
  <2>. QED
    BY <1>1, <1>2, <2>1, Induction
<1>. DEFINE n == Len(T)
<1>4. PICK g : g = CHOOSE h : h = [j \in 0..n |-> IF j = 0 THEN 0 ELSE h[j - 1] + T[j].left]
  OBVIOUS
<1>5. g = [j \in 0..n |-> IF j = 0 THEN 0 ELSE g[j - 1] + T[j].left]
  BY <1>3, <1>4
<1>6. \A i : Before(T, i) = g[i]
  BY <1>4 DEF Before
<1>7. n \in Nat /\ g[0] = 0 /\ \A i \in 1..n : g[i] = g[i - 1] + T[i].left
  <2>1. n \in Nat
    OBVIOUS
  <2>2. ASSUME NEW i \in 1..n PROVE g[i] = g[i - 1] + T[i].left
    <3>1. i \in 0..n /\ i # 0
      OBVIOUS
    <3>. QED
      BY <1>5, <3>1
  <2>. QED
    BY <1>5, <2>1, <2>2
<1>8. \A i \in 1..n : T[i].left \in Nat
  BY TimerIs
<1>. HIDE DEF n
<1>. DEFINE N == {i \in Nat : i <= n => g[i] \in Nat}
<1>9. 0 \in N
  BY <1>7
<1>10. ASSUME NEW i \in Nat, i \in N PROVE i + 1 \in N
  <2>1. CASE i + 1 <= n
    <3>1. i + 1 \in 1..n /\ i <= n /\ (i + 1) - 1 = i
      BY <1>7, <2>1
    <3>2. g[i + 1] = g[i] + T[i + 1].left /\ T[i + 1].left \in Nat /\ g[i] \in Nat
      BY <1>7, <1>8, <1>10, <3>1
    <3>. QED
      BY <3>2
  <2>. QED
    BY <2>1
<1>11. N = Nat
  <2>. HIDE DEF N
  <2>1. N \in SUBSET Nat
    BY DEF N
  <2>. QED
    BY <1>9, <1>10, <2>1, Induction
<1>12. \A i \in 0..n : g[i] \in Nat
  BY <1>7, <1>11
<1>. QED
  BY <1>6, <1>7, <1>12 DEF n

\* Where a timer goes: behind the ones that are earlier.
LEMMA PositionIs ==
  ASSUME NEW T \in Seq(Timer), NEW delay \in Nat
  PROVE  /\ Position(T, delay) \in 0..Len(T)
         /\ \A j \in 1..Position(T, delay) : delay > Before(T, j)
         /\ Position(T, delay) = Len(T) \/ delay <= Before(T, Position(T, delay) + 1)
<1>. DEFINE S == {i \in 0..Len(T) : i = Len(T) \/ delay <= Before(T, i + 1)}
<1>1. PICK i \in S : \A j \in S : i <= j
  <2>1. Len(T) \in S /\ S \in SUBSET Nat
    OBVIOUS
  <2>. HIDE DEF S
  <2>. QED
    BY <2>1, LeastOf
<1>2. ASSUME NEW j \in 1..i PROVE delay > Before(T, j)
  <2>1. Len(T) \in Nat /\ i \in 0..Len(T)
    OBVIOUS
  <2>2. j - 1 \in 0..Len(T) /\ (j - 1) + 1 = j /\ j \in 0..Len(T) /\ ~(i <= j - 1)
    BY <2>1
  <2>3. j - 1 \notin S
    BY <1>1, <2>2
  <2>4. j - 1 # Len(T) /\ ~(delay <= Before(T, j))
    BY <2>2, <2>3
  <2>5. Before(T, j) \in Nat
    BY <2>2, Sums
  <2>. QED
    BY <2>4, <2>5
<1>3. i \in 0..Len(T) /\ (i = Len(T) \/ delay <= Before(T, i + 1))
  OBVIOUS
<1>. QED
  BY <1>2, <1>3 DEF Position

\* A list of timers has one for a device or an endpoint.
Has(T, c, x) == \E i \in DOMAIN T : T[i].cb = c /\ T[i].of = x
Unique(T) ==
  \A i, j \in DOMAIN T : T[i].of = T[j].of /\ (T[i].cb = "kill" <=> T[j].cb = "kill") => i = j
Times(T, p) == \E c \in {"reset", "address", "peek"} : Has(T, c, p)

\* When addTimerCallback leaves the list alone.
LEMMA ActiveIs ==
  ASSUME NEW s, s.timers \in Seq(Timer), NEW cb, NEW x
  PROVE  Active(s, cb, x) <=> IF cb = "kill" THEN Has(s.timers, "kill", x) ELSE Times(s.timers, x)
<1>1. \A i \in DOMAIN s.timers : s.timers[i].cb \in {"reset", "address", "peek", "kill"}
  BY TimerIs
<1>2. CASE cb = "kill"
  BY <1>2 DEF Active, Has
<1>3. CASE cb # "kill"
  <2>1. Active(s, cb, x) <=> \E i \in DOMAIN s.timers : DeviceTimer(s.timers[i], x)
    BY <1>3 DEF Active
  <2>. QED
    BY <1>1, <1>3, <2>1 DEF Times, Has, DeviceTimer
<1>. QED
  BY <1>2, <1>3

\* A timer more, in its place.
SameTimer(t, u) == t \in Timer /\ t.cb = u.cb /\ t.of = u.of
Grown(n, T, at, new, U) ==
  /\ n \in Nat /\ DOMAIN T = 1..n /\ at \in 0..n /\ new \in Timer
  /\ U = [i \in 1..(n + 1) |-> U[i]] /\ U[at + 1] = new
  /\ \A i \in 1..at : SameTimer(U[i], T[i])
  /\ \A i \in (at + 2)..(n + 1) : SameTimer(U[i], T[i - 1])
LEMMA Inserted ==
  ASSUME NEW T \in Seq(Timer), Unique(T), NEW n, NEW at, NEW new, NEW U, Grown(n, T, at, new, U),
         \A i \in DOMAIN T : ~(T[i].of = new.of /\ (T[i].cb = "kill" <=> new.cb = "kill"))
  PROVE  U \in Seq(Timer) /\ Unique(U)
         /\ \A c, x : Has(U, c, x) <=> Has(T, c, x) \/ (c = new.cb /\ x = new.of)
<1>. USE DEF Grown
<1>. DEFINE Old(i) == IF i <= at THEN i ELSE i - 1
<1>1. \A i \in 1..(n + 1) : i # at + 1 => Old(i) \in 1..n /\ SameTimer(U[i], T[Old(i)])
  <2>1. SUFFICES ASSUME NEW i \in 1..(n + 1), i # at + 1 PROVE Old(i) \in 1..n /\ SameTimer(U[i], T[Old(i)])
    OBVIOUS
  <2>2. CASE i <= at
    <3>1. i \in 1..at /\ Old(i) = i /\ i \in 1..n
      BY <2>2
    <3>. HIDE DEF Old
    <3>. QED
      BY <3>1
  <2>3. CASE i > at
    <3>1. i \in (at + 2)..(n + 1) /\ Old(i) = i - 1 /\ i - 1 \in 1..n
      BY <2>1, <2>3
    <3>. HIDE DEF Old
    <3>. QED
      BY <3>1
  <2>. QED
    BY <2>2, <2>3
<1>2. \A i, j \in 1..(n + 1) : i # at + 1 /\ j # at + 1 /\ Old(i) = Old(j) => i = j
  OBVIOUS
<1>3. \A j \in 1..n : \E i \in 1..(n + 1) : i # at + 1 /\ Old(i) = j
  <2>1. SUFFICES ASSUME NEW j \in 1..n PROVE \E i \in 1..(n + 1) : i # at + 1 /\ Old(i) = j
    OBVIOUS
  <2>2. CASE j <= at
    BY <2>2
  <2>3. CASE j > at
    <3>1. j + 1 \in 1..(n + 1) /\ j + 1 # at + 1 /\ Old(j + 1) = j
      BY <2>3
    <3>. QED
      BY <3>1
  <2>. QED
    BY <2>2, <2>3
<1>. HIDE DEF Old
<1>4. DOMAIN U = 1..(n + 1) /\ n + 1 \in Nat /\ at + 1 \in 1..(n + 1)
  OBVIOUS
<1>5. U \in Seq(Timer)
  <2>1. \A i \in 1..(n + 1) : U[i] \in Timer
    BY <1>1 DEF SameTimer
  <2>. QED
    BY <1>4, <2>1
<1>6. Unique(U)
  <2>1. SUFFICES ASSUME NEW i \in 1..(n + 1), NEW j \in 1..(n + 1), U[i].of = U[j].of,
                        U[i].cb = "kill" <=> U[j].cb = "kill"
                 PROVE  i = j
    BY <1>4 DEF Unique
  <2>2. CASE i = at + 1 /\ j # at + 1
    BY <1>1, <2>1, <2>2 DEF SameTimer
  <2>3. CASE j = at + 1 /\ i # at + 1
    BY <1>1, <2>1, <2>3 DEF SameTimer
  <2>4. CASE i # at + 1 /\ j # at + 1
    <3>1. Old(i) = Old(j)
      <4>1. Old(i) \in 1..n /\ Old(j) \in 1..n
        BY <1>1, <2>4
      <4>2. /\ U[i].cb = T[Old(i)].cb /\ U[i].of = T[Old(i)].of
            /\ U[j].cb = T[Old(j)].cb /\ U[j].of = T[Old(j)].of
        BY <1>1, <2>4 DEF SameTimer
      <4>. QED
        BY <2>1, <4>1, <4>2, Zenon DEF Unique
    <3>. QED
      BY <1>2, <2>4, <3>1
  <2>. QED
    BY <2>2, <2>3, <2>4
<1>7. ASSUME NEW c, NEW x PROVE Has(U, c, x) <=> Has(T, c, x) \/ (c = new.cb /\ x = new.of)
  <2>1. ASSUME Has(U, c, x) PROVE Has(T, c, x) \/ (c = new.cb /\ x = new.of)
    <3>1. PICK i \in 1..(n + 1) : U[i].cb = c /\ U[i].of = x
      BY <1>4, <2>1 DEF Has
    <3>2. CASE i = at + 1
      BY <3>1, <3>2
    <3>3. CASE i # at + 1
      BY <1>1, <3>1, <3>3 DEF Has, SameTimer
    <3>. QED
      BY <3>2, <3>3
  <2>2. ASSUME Has(T, c, x) PROVE Has(U, c, x)
    <3>1. PICK j \in 1..n : T[j].cb = c /\ T[j].of = x
      BY <2>2 DEF Has
    <3>2. PICK i \in 1..(n + 1) : i # at + 1 /\ Old(i) = j
      BY <1>3
    <3>. QED
      BY <1>1, <1>4, <3>1, <3>2 DEF Has, SameTimer
  <2>3. Has(U, new.cb, new.of)
    BY <1>4 DEF Has
  <2>. QED
    BY <2>1, <2>2, <2>3
<1>. QED
  BY <1>5, <1>6, <1>7

\* addTimerCallback puts it there.
Places(T, cb, of, delay, at, new, U) ==
  /\ at = Position(T, delay)
  /\ new = [cb |-> cb, of |-> of, left |-> delay - Before(T, at)]
  /\ U = [i \in 1 .. (Len(T) + 1) |->
            CASE i <= at -> T[i]
              [] i = at + 1 -> new
              [] i = at + 2 -> [T[at + 1] EXCEPT !.left = @ - new.left]
              [] i > at + 2 -> T[i - 1]]
LEMMA Placed ==
  ASSUME NEW T \in Seq(Timer), NEW cb, NEW of, MayTime(cb, of), NEW delay \in Nat,
         NEW at, NEW new, NEW U, Places(T, cb, of, delay, at, new, U)
  PROVE  new.cb = cb /\ new.of = of /\ \E n : Grown(n, T, at, new, U)
<1>. USE DEF Places
<1>1. PICK n \in Nat : n = Len(T) /\ DOMAIN T = 1..n
  OBVIOUS
<1>2. at \in 0..n /\ (\A j \in 1..at : delay > Before(T, j)) /\ (at = n \/ delay <= Before(T, at + 1))
  BY <1>1, PositionIs
<1>3. Before(T, at) \in Nat /\ Before(T, at) <= delay
  <2>1. Before(T, at) \in Nat
    BY <1>1, <1>2, Sums
  <2>2. CASE at = 0
    BY <2>1, <2>2, Sums
  <2>3. CASE at # 0
    BY <1>2, <2>1, <2>3
  <2>. QED
    BY <2>2, <2>3, <2>1
<1>4. new \in Timer /\ new.cb = cb /\ new.of = of /\ new.left = delay - Before(T, at)
  <2>1. delay - Before(T, at) \in Nat
    BY <1>3
  <2>. QED
    BY <2>1, NewTimer
<1>5. ASSUME at < n PROVE T[at + 1].left - new.left \in Nat /\ T[at + 1] \in Timer
  <2>2. at + 1 \in 1..n /\ (at + 1) - 1 = at /\ at + 1 \in 0..n
    BY <1>1, <1>2, <1>5
  <2>3. Before(T, at + 1) = Before(T, at) + T[at + 1].left /\ delay <= Before(T, at + 1)
    BY <1>1, <1>2, <1>5, <2>2, Sums
  <2>4. T[at + 1] \in Timer /\ T[at + 1].left \in Nat
    BY <1>1, <2>2, TimerIs
  <2>. QED
    BY <1>3, <1>4, <2>3, <2>4
<1>6. ASSUME NEW i \in 1..at PROVE SameTimer(U[i], T[i])
  <2>1. U[i] = T[i] /\ i \in 1..n
    BY <1>1, <1>2
  <2>2. T[i] \in Timer
    BY <1>1, <2>1
  <2>. QED
    BY <2>1, <2>2, Zenon DEF SameTimer
<1>7. ASSUME NEW i \in (at + 2)..(n + 1) PROVE SameTimer(U[i], T[i - 1])
  <2>1. CASE i = at + 2
    <3>1. at < n /\ i - 1 = at + 1 /\ U[i] = [T[at + 1] EXCEPT !.left = T[at + 1].left - new.left]
      BY <1>1, <1>2, <2>1
    <3>2. PICK m \in Nat, t \in Timer : m = T[at + 1].left - new.left /\ t = T[at + 1]
      BY <1>5, <3>1
    <3>3. [t EXCEPT !.left = m] \in Timer /\ [t EXCEPT !.left = m].cb = t.cb /\ [t EXCEPT !.left = m].of = t.of
      BY TimerIs
    <3>. QED
      BY <3>1, <3>2, <3>3 DEF SameTimer
  <2>2. CASE i # at + 2
    <3>1. U[i] = T[i - 1] /\ i - 1 \in 1..n
      BY <1>1, <1>2, <2>2
    <3>2. T[i - 1] \in Timer
      BY <1>1, <3>1
    <3>. QED
      BY <3>1, <3>2, Zenon DEF SameTimer
  <2>. QED
    BY <2>1, <2>2
<1>8. U = [i \in 1..(n + 1) |-> U[i]] /\ U[at + 1] = new
  BY <1>1, <1>2
<1>9. Grown(n, T, at, new, U)
  BY <1>1, <1>2, <1>4, <1>6, <1>7, <1>8, Zenon DEF Grown
<1>. QED
  BY <1>4, <1>9

\* A timer less.
LEMMA Removed ==
  ASSUME NEW T \in Seq(Timer), Unique(T), NEW k \in DOMAIN T,
         NEW U, U = [i \in 1 .. (Len(T) - 1) |-> IF i < k THEN T[i] ELSE T[i + 1]]
  PROVE  /\ U \in Seq(Timer) /\ Unique(U)
         /\ \A c, x : Has(U, c, x) <=> Has(T, c, x)
              /\ ~(x = T[k].of /\ (c = "kill" <=> T[k].cb = "kill"))
<1>1. PICK n \in Nat \ {0} : n = Len(T) /\ DOMAIN T = 1..n
  OBVIOUS
<1>. DEFINE Old(i) == IF i < k THEN i ELSE i + 1
<1>2. \A i \in 1..(n - 1) : Old(i) \in 1..n /\ Old(i) # k /\ U[i] = T[Old(i)]
  BY <1>1
<1>3. \A i, j \in 1..(n - 1) : Old(i) = Old(j) => i = j
  BY <1>1
<1>4. \A j \in 1..n : j # k => \E i \in 1..(n - 1) : Old(i) = j
  <2>1. SUFFICES ASSUME NEW j \in 1..n, j # k PROVE \E i \in 1..(n - 1) : Old(i) = j
    OBVIOUS
  <2>2. CASE j < k
    BY <1>1, <2>2
  <2>3. CASE j > k
    <3>1. j - 1 \in 1..(n - 1) /\ Old(j - 1) = j
      BY <1>1, <2>3
    <3>. QED
      BY <3>1
  <2>. QED
    BY <1>1, <2>1, <2>2, <2>3
<1>5. DOMAIN U = 1..(n - 1) /\ U = [i \in 1..(n - 1) |-> U[i]] /\ n - 1 \in Nat
  BY <1>1
<1>. HIDE DEF Old
<1>6. U \in Seq(Timer)
  <2>1. \A i \in 1..(n - 1) : U[i] \in Timer
    BY <1>1, <1>2
  <2>. QED
    BY <1>5, <2>1
<1>7. Unique(U)
  BY <1>1, <1>2, <1>3, <1>5 DEF Unique
<1>8. ASSUME NEW c, NEW x
      PROVE  Has(U, c, x) <=> Has(T, c, x) /\ ~(x = T[k].of /\ (c = "kill" <=> T[k].cb = "kill"))
  <2>1. ASSUME Has(U, c, x)
        PROVE  Has(T, c, x) /\ ~(x = T[k].of /\ (c = "kill" <=> T[k].cb = "kill"))
    <3>1. PICK i \in 1..(n - 1) : U[i].cb = c /\ U[i].of = x
      BY <1>5, <2>1 DEF Has
    <3>2. Old(i) \in 1..n /\ Old(i) # k /\ T[Old(i)].cb = c /\ T[Old(i)].of = x
      BY <1>2, <3>1
    <3>. QED
      BY <1>1, <3>2 DEF Has, Unique
  <2>2. ASSUME Has(T, c, x), ~(x = T[k].of /\ (c = "kill" <=> T[k].cb = "kill"))
        PROVE  Has(U, c, x)
    <3>1. PICK j \in 1..n : T[j].cb = c /\ T[j].of = x
      BY <1>1, <2>2 DEF Has
    <3>2. j # k
      BY <2>2, <3>1
    <3>3. PICK i \in 1..(n - 1) : Old(i) = j
      BY <1>4, <3>2
    <3>. QED
      BY <1>2, <1>5, <3>1, <3>3 DEF Has
  <2>. QED
    BY <2>1, <2>2
<1>. QED
  BY <1>6, <1>7, <1>8

-----------------------------------------------------------------------------
(* The invariant, of the devices                                           *)

UsbType ==
  [status : [Port -> Status], resetFlag : [Port -> BOOLEAN], delayResets : BOOLEAN,
   resetting : SUBSET Port, timers : Seq(Timer), eps : [Port -> Seq(Ep)], freeEps : SUBSET Ep,
   request : [Port -> {"none", "address", "device", "config"}], tries : [Port -> 0 .. MaxTries],
   first : {0} \cup Port, last : {0} \cup Port,
   next : [Port -> {0} \cup Port], prev : [Port -> {0} \cup Port],
   driver : [Port -> Driver \cup {None}]]

\* A timer or a request of a device is for what comes next, one at a time.
Stage(s, p) ==
  /\ Times(s.timers, p) => s.request[p] = "none"
  /\ Has(s.timers, "reset", p) => s.status[p] = "connected"
  /\ Has(s.timers, "address", p) => s.status[p] = "complete"
  /\ Has(s.timers, "peek", p) => s.status[p] = "ready"
  /\ s.request[p] = "address" => s.status[p] = "complete"
  /\ s.request[p] \in {"device", "config"} => s.status[p] = "ready"

\* A device that is on the list, or (unless threads are mixed) has a driver, is ready
\* and waits for nothing.
OnList(s, p) == s.first = p \/ s.last = p \/ s.next[p] # 0 \/ s.prev[p] # 0
Held(s, p, pure) == OnList(s, p) \/ (pure /\ s.driver[p] # None)
Quiet(s, p) == s.status[p] = "ready" /\ s.request[p] = "none" /\ ~Times(s.timers, p)

\* Every endpoint is in one place.
Owned(s, p, e) == \E i \in DOMAIN s.eps[p] : s.eps[p][i] = e
Dying(s, e) == Has(s.timers, "kill", e)
Whose(s) ==
  /\ \A e \in s.freeEps : ~Dying(s, e) /\ \A p \in Port : ~Owned(s, p, e)
  /\ \A e \in Ep : Dying(s, e) => \A p \in Port : ~Owned(s, p, e)
  /\ \A p, q \in Port, e \in Ep : Owned(s, p, e) /\ Owned(s, q, e) => p = q
  /\ \A e \in Ep : e \in s.freeEps \/ Dying(s, e) \/ \E p \in Port : Owned(s, p, e)

\* The links of the list agree, and do not lead back; there may be more than one chain of them.
Ascends(s, rank) ==
  rank \in [Port -> Nat] /\ \A p \in Port : s.next[p] # 0 => rank[p] < rank[s.next[p]]
Chain(s) ==
  /\ \A p \in Port : s.next[p] # 0 => s.prev[s.next[p]] = p
  /\ \A p \in Port : s.prev[p] # 0 => s.next[s.prev[p]] = p
  /\ s.first # 0 => s.prev[s.first] = 0
  /\ s.last # 0 => s.next[s.last] = 0
  /\ \E rank : Ascends(s, rank)

\* All of this, except that devices in X are being removed.
Devices(s, X, pure) ==
  \A p \in Port : p \notin X => Stage(s, p) /\ (Held(s, p, pure) => Quiet(s, p))
Core(s, X, pure) ==
  s \in UsbType /\ Unique(s.timers) /\ Whose(s) /\ Chain(s) /\ Devices(s, X, pure)

\* While no device was removed that was not on the list, there is one chain.
Whole(s) ==
  /\ \A p \in Port : OnList(s, p) /\ s.prev[p] = 0 => s.first = p
  /\ \A p \in Port : OnList(s, p) /\ s.next[p] = 0 => s.last = p
  /\ s.first = 0 <=> s.last = 0

\* While no device failed that had given its turn back, one has it, except that a device
\* in X is about to be reset.
Turn(s, X) ==
  /\ \A p \in Port : p \notin X /\ (s.status[p] \in {"pending", "complete"} \/ Has(s.timers, "peek", p))
       => s.resetFlag[p] = TRUE
  /\ s.delayResets = TRUE => \E p \in Port : s.resetFlag[p] = TRUE /\ \A q \in Port : s.resetFlag[q] = TRUE => q = p
  /\ s.delayResets = FALSE => \A p \in Port : s.resetFlag[p] = FALSE /\ s.status[p] # "delayed"

-----------------------------------------------------------------------------
(* What the operations leave alone                                         *)

\* The same record, by its fields.
SameLinks(s, t) == t.first = s.first /\ t.last = s.last /\ t.next = s.next /\ t.prev = s.prev
SameEps(s, t) == t.eps = s.eps /\ t.freeEps = s.freeEps
SameTurn(s, t) == t.resetFlag = s.resetFlag /\ t.delayResets = s.delayResets

\* The fields have their types.
LEMMA Fields ==
  ASSUME NEW s \in UsbType
  PROVE  /\ s.status \in [Port -> Status] /\ s.resetFlag \in [Port -> BOOLEAN] /\ s.delayResets \in BOOLEAN
         /\ s.resetting \in SUBSET Port /\ s.timers \in Seq(Timer)
         /\ s.eps \in [Port -> Seq(Ep)] /\ s.freeEps \in SUBSET Ep
         /\ s.request \in [Port -> {"none", "address", "device", "config"}]
         /\ s.tries \in [Port -> 0 .. MaxTries]
         /\ s.first \in {0} \cup Port /\ s.last \in {0} \cup Port
         /\ s.next \in [Port -> {0} \cup Port] /\ s.prev \in [Port -> {0} \cup Port]
         /\ s.driver \in [Port -> Driver \cup {None}]
BY DEF UsbType

\* Ports count from 1.
LEMMA PortIs == \A p \in Port : p \in Nat /\ p >= 1 /\ p <= NumPorts
BY PortsAssumption DEF Port

\* Other timers, and nothing else.
Retimed(s, U) == [s EXCEPT !.timers = U]
LEMMA RetimedIs ==
  ASSUME NEW s \in UsbType, NEW U \in Seq(Timer)
  PROVE  /\ Retimed(s, U) \in UsbType /\ Retimed(s, U).timers = U
         /\ SameLinks(s, Retimed(s, U)) /\ SameEps(s, Retimed(s, U)) /\ SameTurn(s, Retimed(s, U))
         /\ Retimed(s, U).status = s.status /\ Retimed(s, U).request = s.request
         /\ Retimed(s, U).driver = s.driver /\ Retimed(s, U).resetting = s.resetting
         /\ Retimed(s, U).tries = s.tries
         /\ Retimed(s, s.timers) = s
         /\ \A V \in Seq(Timer) : Retimed(Retimed(s, U), V) = Retimed(s, V)
BY DEF UsbType, Retimed, SameLinks, SameEps, SameTurn

\* addTimerCallback.
Adds(s, cb, of, delay, U) ==
  /\ AddTimer(s, cb, of, delay) = Retimed(s, U) /\ Unique(U)
  /\ \A c, x : Has(U, c, x) <=> Has(s.timers, c, x) \/ (c = cb /\ x = of /\ ~Active(s, cb, of))
LEMMA TimerAdded ==
  ASSUME NEW s \in UsbType, Unique(s.timers), NEW cb, NEW of, MayTime(cb, of), NEW delay \in Nat
  PROVE  \E U \in Seq(Timer) : Adds(s, cb, of, delay, U)
<1>. USE DEF Adds
<1>1. s.timers \in Seq(Timer)
  BY Fields
<1>2. CASE Active(s, cb, of)
  <2>1. AddTimer(s, cb, of, delay) = s
    BY <1>2 DEF AddTimer
  <2>. QED
    BY <1>1, <1>2, <2>1, RetimedIs
<1>3. CASE ~Active(s, cb, of)
  <2>. DEFINE T == s.timers
              at == Position(T, delay)
              new == [cb |-> cb, of |-> of, left |-> delay - Before(T, at)]
              U == [i \in 1 .. (Len(T) + 1) |->
                CASE i <= at -> T[i]
                  [] i = at + 1 -> new
                  [] i = at + 2 -> [T[at + 1] EXCEPT !.left = @ - new.left]
                  [] i > at + 2 -> T[i - 1]]
  <2>1. AddTimer(s, cb, of, delay) = Retimed(s, U)
    BY <1>3 DEF AddTimer, Retimed
  <2>6. Places(T, cb, of, delay, at, new, U)
    BY Zenon DEF Places
  <2>. HIDE DEF U, new, at
  <2>2. new.cb = cb /\ new.of = of /\ \E n : Grown(n, T, at, new, U)
    BY <1>1, <2>6, Placed
  <2>7. PICK n : Grown(n, T, at, new, U)
    BY <2>2
  <2>3. \A i \in DOMAIN T : ~(T[i].of = new.of /\ (T[i].cb = "kill" <=> new.cb = "kill"))
    <3>1. \A i \in DOMAIN T : T[i].cb \in {"reset", "address", "peek", "kill"}
      BY <1>1, TimerIs
    <3>. QED
      BY <1>1, <1>3, <2>2, <3>1, ActiveIs DEF Times, Has
  <2>4. Unique(T)
    OBVIOUS
  <2>5. U \in Seq(Timer) /\ Unique(U) /\ \A c, x : Has(U, c, x) <=> Has(T, c, x) \/ (c = cb /\ x = of)
    BY <1>1, <2>2, <2>3, <2>4, <2>7, Inserted
  <2>. QED
    BY <1>3, <2>1, <2>5
<1>. QED
  BY <1>2, <1>3

\* cancelTimerCallback.
Cancels(s, p, U) ==
  /\ CancelTimer(s, p) = Retimed(s, U) /\ Unique(U)
  /\ \A c, x : Has(U, c, x) <=> Has(s.timers, c, x) /\ ~(c # "kill" /\ x = p)
LEMMA TimerCancelled ==
  ASSUME NEW s \in UsbType, Unique(s.timers), NEW p
  PROVE  \E U \in Seq(Timer) : Cancels(s, p, U)
<1>. USE DEF Cancels
<1>. DEFINE T == s.timers
            own == {i \in DOMAIN T : DeviceTimer(T[i], p)}
<1>1. s.timers \in Seq(Timer)
  BY Fields
<1>2. CASE own = {}
  <2>1. CancelTimer(s, p) = s
    BY <1>2 DEF CancelTimer
  <2>2. \A c, x : Has(T, c, x) => ~(c # "kill" /\ x = p)
    BY <1>2 DEF Has, DeviceTimer
  <2>. QED
    BY <1>1, <2>1, <2>2, RetimedIs
<1>3. CASE own # {}
  <2>1. PICK k \in own : k = CHOOSE i \in own : TRUE
    BY <1>3
  <2>. DEFINE U == [i \in 1 .. (Len(T) - 1) |-> IF i < k THEN T[i] ELSE T[i + 1]]
  <2>2. CancelTimer(s, p) = Retimed(s, U)
    BY <1>3, <2>1 DEF CancelTimer, Retimed
  <2>3. k \in DOMAIN T /\ T[k].of = p /\ T[k].cb # "kill"
    BY DEF DeviceTimer
  <2>4. /\ U \in Seq(Timer) /\ Unique(U)
        /\ \A c, x : Has(U, c, x) <=> Has(T, c, x) /\ ~(x = T[k].of /\ (c = "kill" <=> T[k].cb = "kill"))
    BY <1>1, <2>3, Removed
  <2>. HIDE DEF U
  <2>. QED
    BY <2>2, <2>3, <2>4
<1>. QED
  BY <1>2, <1>3

-----------------------------------------------------------------------------
(* removeEndpointFromDevice, for each endpoint                             *)

\* A timer for each, one after the other: the recursive function exists.
Stripped(s, p) == [s EXCEPT !.eps[p] = <<>>, !.request[p] = "none"]
KillsInOrder(s, p, n, f) ==
  /\ f[0] = s
  /\ \A j \in 1 .. n : f[j] = AddTimer(f[j - 1], "kill", s.eps[p][j], KillDelay)
  /\ RemoveEndpoints(s, p) = Stripped(f[n], p)
LEMMA KilledInOrder ==
  ASSUME NEW s, NEW p, NEW n \in Nat, n = Len(s.eps[p])
  PROVE  \E f : KillsInOrder(s, p, n, f)
<1>. DEFINE S == {k \in Nat : \E g : g = [j \in 0 .. k |-> IF j = 0 THEN s ELSE AddTimer(g[j - 1], "kill", s.eps[p][j], KillDelay)]}
<1>1. 0 \in S
  <2>. DEFINE g == [j \in 0 .. 0 |-> s]
  <2>1. g = [j \in 0 .. 0 |-> IF j = 0 THEN s ELSE AddTimer(g[j - 1], "kill", s.eps[p][j], KillDelay)]
    OBVIOUS
  <2>. QED
    BY <2>1
<1>2. ASSUME NEW k \in Nat, k \in S PROVE k + 1 \in S
  <2>1. PICK g : g = [j \in 0 .. k |-> IF j = 0 THEN s ELSE AddTimer(g[j - 1], "kill", s.eps[p][j], KillDelay)]
    BY <1>2
  <2>. DEFINE h == [j \in 0 .. (k + 1) |-> IF j = k + 1 THEN AddTimer(g[k], "kill", s.eps[p][(k + 1)], KillDelay) ELSE g[j]]
  <2>2. ASSUME NEW j \in 0 .. (k + 1)
        PROVE  h[j] = IF j = 0 THEN s ELSE AddTimer(h[j - 1], "kill", s.eps[p][j], KillDelay)
    <3>1. CASE j = k + 1
      <4>1. j # 0 /\ j - 1 = k /\ k \in 0 .. (k + 1) /\ k # k + 1
        BY <3>1
      <4>2. h[k] = g[k] /\ h[j] = AddTimer(g[k], "kill", s.eps[p][(k + 1)], KillDelay)
        BY <3>1, <4>1
      <4>. QED
        BY <3>1, <4>1, <4>2
    <3>2. CASE j # k + 1
      <4>1. j \in 0 .. k /\ h[j] = g[j]
        BY <3>2
      <4>2. g[j] = IF j = 0 THEN s ELSE AddTimer(g[j - 1], "kill", s.eps[p][j], KillDelay)
        BY <4>1, <2>1
      <4>3. j # 0 => h[j - 1] = g[j - 1]
        BY <4>1
      <4>. QED
        BY <4>1, <4>2, <4>3
    <3>. QED
      BY <3>1, <3>2
  <2>3. h = [j \in 0 .. (k + 1) |-> h[j]]
    OBVIOUS
  <2>. HIDE DEF h
  <2>4. h = [j \in 0 .. (k + 1) |-> IF j = 0 THEN s ELSE AddTimer(h[j - 1], "kill", s.eps[p][j], KillDelay)]
    BY <2>2, <2>3
  <2>5. k + 1 \in Nat
    OBVIOUS
  <2>. QED
    BY <2>4, <2>5
<1>3. n \in S
  <2>. HIDE DEF S
  <2>1. S \in SUBSET Nat
    BY DEF S
  <2>. QED
    BY <1>1, <1>2, <2>1, Induction
<1>4. PICK g : g = CHOOSE h : h = [j \in 0 .. n |-> IF j = 0 THEN s ELSE AddTimer(h[j - 1], "kill", s.eps[p][j], KillDelay)]
  OBVIOUS
<1>5. g = [j \in 0 .. n |-> IF j = 0 THEN s ELSE AddTimer(g[j - 1], "kill", s.eps[p][j], KillDelay)]
  BY <1>3, <1>4
<1>6. RemoveEndpoints(s, p) = Stripped(g[n], p)
  BY <1>4 DEF RemoveEndpoints, Stripped
<1>7. g[0] = s
  BY <1>5
<1>8. ASSUME NEW j \in 1 .. n PROVE g[j] = AddTimer(g[j - 1], "kill", s.eps[p][j], KillDelay)
  <2>1. j \in 0 .. n /\ j # 0
    OBVIOUS
  <2>. QED
    BY <1>5, <2>1
<1>9. KillsInOrder(s, p, n, g)
  BY <1>6, <1>7, <1>8, Zenon DEF KillsInOrder
<1>. QED
  BY <1>9

\* Every endpoint of the device waits to be freed.
Strips(s, p, U) ==
  /\ RemoveEndpoints(s, p) = Stripped(Retimed(s, U), p) /\ Unique(U)
  /\ \A c, x : Has(U, c, x) <=> Has(s.timers, c, x) \/ (c = "kill" /\ Owned(s, p, x))
LEMMA EndpointsRemoved ==
  ASSUME NEW s \in UsbType, Unique(s.timers), NEW p \in Port
  PROVE  \E U \in Seq(Timer) : Strips(s, p, U)
<1>. USE DEF Strips
<1>1. PICK n \in Nat : n = Len(s.eps[p]) /\ DOMAIN s.eps[p] = 1 .. n /\ \A i \in 1 .. n : s.eps[p][i] \in Ep
  <2>1. s.eps[p] \in Seq(Ep)
    BY Fields
  <2>. QED
    BY <2>1
<1>0. PICK f : KillsInOrder(s, p, n, f)
  BY <1>1, KilledInOrder, Zenon
<1>2. /\ f[0] = s
      /\ \A j \in 1 .. n : f[j] = AddTimer(f[j - 1], "kill", s.eps[p][j], KillDelay)
      /\ RemoveEndpoints(s, p) = Stripped(f[n], p)
  BY <1>0, Zenon DEF KillsInOrder
<1>. DEFINE Reached(k, U) == /\ U \in Seq(Timer) /\ f[k] = Retimed(s, U) /\ Unique(U)
                         /\ \A c, x : Has(U, c, x) <=> Has(s.timers, c, x)
                              \/ (c = "kill" /\ \E i \in 1 .. k : s.eps[p][i] = x)
            S == {k \in Nat : k <= n => \E U : Reached(k, U)}
<1>3. 0 \in S
  <2>1. s.timers \in Seq(Timer)
    BY Fields
  <2>2. f[0] = Retimed(s, s.timers)
    BY <1>2, <2>1, RetimedIs
  <2>3. Reached(0, s.timers)
    BY <2>1, <2>2
  <2>. HIDE DEF Reached
  <2>. QED
    BY <2>3
<1>4. ASSUME NEW k \in Nat, k \in S PROVE k + 1 \in S
  <2>1. SUFFICES ASSUME k + 1 <= n PROVE \E U : Reached(k + 1, U)
    OBVIOUS
  <2>2. PICK U : Reached(k, U)
    <3>. HIDE DEF Reached
    <3>. QED
      BY <1>4, <2>1
  <2>3. k + 1 \in 1 .. n /\ (k + 1) - 1 = k
    BY <2>1
  <2>4. PICK e \in Ep : e = s.eps[p][k + 1]
    BY <1>1, <2>3
  <2>5. f[k + 1] = AddTimer(Retimed(s, U), "kill", e, KillDelay)
    BY <1>2, <2>2, <2>3, <2>4
  <2>6. PICK r \in UsbType : r = Retimed(s, U) /\ r.timers = U /\ Unique(r.timers)
    BY <2>2, RetimedIs
  <2>7. MayTime("kill", e) /\ KillDelay \in Nat
    BY PortsAssumption DEF MayTime
  <2>13. PICK V \in Seq(Timer) : Adds(r, "kill", e, KillDelay, V)
    BY <2>6, <2>7, TimerAdded, Zenon
  <2>8. /\ AddTimer(r, "kill", e, KillDelay) = Retimed(r, V) /\ Unique(V)
        /\ \A c, x : Has(V, c, x) <=> Has(r.timers, c, x) \/ (c = "kill" /\ x = e /\ ~Active(r, "kill", e))
    BY <2>13, Zenon DEF Adds
  <2>9. f[k + 1] = Retimed(s, V)
    BY <2>2, <2>5, <2>6, <2>8, RetimedIs
  <2>10. Active(r, "kill", e) <=> Has(U, "kill", e)
    BY <2>2, <2>6, ActiveIs
  <2>11. ASSUME NEW c, NEW x
         PROVE  Has(V, c, x) <=> Has(s.timers, c, x) \/ (c = "kill" /\ \E i \in 1 .. (k + 1) : s.eps[p][i] = x)
    <3>1. Has(V, c, x) <=> Has(U, c, x) \/ (c = "kill" /\ x = e)
      BY <2>6, <2>8, <2>10
    <3>2. Has(U, c, x) <=> Has(s.timers, c, x) \/ (c = "kill" /\ \E i \in 1 .. k : s.eps[p][i] = x)
      BY <2>2
    <3>3. (\E i \in 1 .. (k + 1) : s.eps[p][i] = x) <=> x = e \/ \E i \in 1 .. k : s.eps[p][i] = x
      <4>1. \A i : i \in 1 .. (k + 1) <=> i \in 1 .. k \/ i = k + 1
        OBVIOUS
      <4>. QED
        BY <2>4, <4>1
    <3>. QED
      BY <3>1, <3>2, <3>3
  <2>12. Reached(k + 1, V)
    BY <2>8, <2>9, <2>11
  <2>. HIDE DEF Reached
  <2>. QED
    BY <2>12
<1>5. S = Nat
  <2>. HIDE DEF S
  <2>1. S \in SUBSET Nat
    BY DEF S
  <2>. QED
    BY <1>3, <1>4, <2>1, Induction
<1>6. PICK U : Reached(n, U)
  <2>1. n \in S
    BY <1>5
  <2>. HIDE DEF Reached
  <2>. QED
    BY <2>1
<1>7. f[n] = Retimed(s, U) /\ U \in Seq(Timer) /\ Unique(U)
  BY <1>6
<1>8. ASSUME NEW c, NEW x PROVE Has(U, c, x) <=> Has(s.timers, c, x) \/ (c = "kill" /\ Owned(s, p, x))
  <2>1. Owned(s, p, x) <=> \E i \in 1 .. n : s.eps[p][i] = x
    BY <1>1 DEF Owned
  <2>. QED
    BY <1>6, <2>1
<1>. QED
  BY <1>2, <1>7, <1>8

-----------------------------------------------------------------------------
(* The turns of the ports                                                  *)

\* The same, but for whose turn it is.
Aside(s, t) ==
  /\ t \in UsbType /\ SameLinks(s, t) /\ SameEps(s, t)
  /\ t.timers = s.timers /\ t.request = s.request /\ t.driver = s.driver

\* hubResetDevice.
Resets(s, p, t) ==
  /\ Aside(s, t)
  /\ IF s.delayResets THEN t.status = [s.status EXCEPT ![p] = "delayed"] /\ SameTurn(s, t)
     ELSE /\ t.status = [s.status EXCEPT ![p] = "pending"]
          /\ t.delayResets = TRUE /\ t.resetFlag = [s.resetFlag EXCEPT ![p] = TRUE]
LEMMA ResetIs ==
  ASSUME NEW s \in UsbType, NEW p \in Port
  PROVE  Resets(s, p, ResetDevice(s, p))
<1>. DEFINE t == ResetDevice(s, p)
<1>1. CASE s.delayResets
  <2>0. PICK f \in [Port -> Status] : f = [s.status EXCEPT ![p] = "delayed"]
    BY Fields DEF Status
  <2>1. t = [s EXCEPT !.status = f]
    BY <1>1, <2>0 DEF ResetDevice
  <2>2. t \in UsbType
    BY <2>1 DEF UsbType
  <2>3. Aside(s, t) /\ t.status = [s.status EXCEPT ![p] = "delayed"] /\ SameTurn(s, t)
    BY <2>0, <2>1, <2>2 DEF UsbType, Aside, SameLinks, SameEps, SameTurn
  <2>. QED
    BY <1>1, <2>3 DEF Resets
<1>2. CASE ~s.delayResets
  <2>0. PICK f \in [Port -> Status], g \in [Port -> BOOLEAN], r \in SUBSET Port :
          f = [s.status EXCEPT ![p] = "pending"] /\ g = [s.resetFlag EXCEPT ![p] = TRUE] /\ r = s.resetting \cup {p}
    BY Fields DEF Status
  <2>1. t = [s EXCEPT !.delayResets = TRUE, !.status = f, !.resetFlag = g, !.resetting = r]
    BY <1>2, <2>0 DEF ResetDevice
  <2>2. t \in UsbType
    BY <2>1 DEF UsbType
  <2>3. /\ Aside(s, t) /\ t.status = [s.status EXCEPT ![p] = "pending"]
        /\ t.delayResets = TRUE /\ t.resetFlag = [s.resetFlag EXCEPT ![p] = TRUE]
    BY <2>0, <2>1, <2>2 DEF UsbType, Aside, SameLinks, SameEps, SameTurn
  <2>. QED
    BY <1>2, <2>3 DEF Resets
<1>. QED
  BY <1>1, <1>2

\* checkDelayedResets.
Checks(s, p, t) ==
  /\ Aside(s, t)
  /\ \/ /\ \A q \in Port : s.status[q] # "delayed"
        /\ t.status = s.status /\ t.delayResets = FALSE /\ t.resetFlag = [s.resetFlag EXCEPT ![p] = FALSE]
     \/ \E q \in Port :
          /\ s.status[q] = "delayed" /\ t.status = [s.status EXCEPT ![q] = "pending"]
          /\ t.delayResets = TRUE /\ t.resetFlag = [[s.resetFlag EXCEPT ![p] = FALSE] EXCEPT ![q] = TRUE]
LEMMA CheckIs ==
  ASSUME NEW s \in UsbType, NEW p \in Port
  PROVE  Checks(s, p, CheckDelayedResets(s, p))
<1>. DEFINE free == [s EXCEPT !.delayResets = FALSE, !.resetFlag[p] = FALSE]
            waiting == {q \in Port : s.status[q] = "delayed"}
            t == CheckDelayedResets(s, p)
<1>1. free \in UsbType
  BY DEF UsbType
<1>2. /\ Aside(s, free) /\ free.status = s.status
      /\ free.delayResets = FALSE /\ free.resetFlag = [s.resetFlag EXCEPT ![p] = FALSE]
  BY <1>1 DEF UsbType, Aside, SameLinks, SameEps
<1>3. CASE waiting = {}
  <2>1. t = free
    BY <1>3 DEF CheckDelayedResets
  <2>2. \A q \in Port : s.status[q] # "delayed"
    BY <1>3
  <2>. HIDE DEF free
  <2>. QED
    BY <1>2, <2>1, <2>2 DEF Checks
<1>4. CASE waiting # {}
  <2>1. PICK q \in waiting : q = CHOOSE x \in waiting : \A r \in waiting : x <= r
    <3>1. waiting \in SUBSET Nat
      BY PortIs
    <3>2. \E x \in waiting : \A r \in waiting : x <= r
      <4>. HIDE DEF waiting
      <4>. QED
        BY <1>4, <3>1, LeastOf
    <3>. QED
      BY <3>2
  <2>2. t = ResetDevice(free, q)
    BY <1>4, <2>1 DEF CheckDelayedResets
  <2>3. q \in Port /\ s.status[q] = "delayed"
    OBVIOUS
  <2>. HIDE DEF free, waiting
  <2>4. Resets(free, q, t)
    BY <1>1, <2>2, <2>3, ResetIs
  <2>5. /\ Aside(free, t) /\ t.status = [s.status EXCEPT ![q] = "pending"]
        /\ t.delayResets = TRUE /\ t.resetFlag = [[s.resetFlag EXCEPT ![p] = FALSE] EXCEPT ![q] = TRUE]
    BY <1>2, <2>4 DEF Resets
  <2>6. Aside(s, t)
    BY <1>2, <2>5 DEF Aside, SameLinks, SameEps
  <2>. QED
    BY <2>3, <2>5, <2>6 DEF Checks
<1>. QED
  BY <1>3, <1>4

\* What has the same links and endpoints keeps what is said of them.
LEMMA AsideKeeps ==
  ASSUME NEW s, NEW t, Aside(s, t)
  PROVE  /\ Chain(s) => Chain(t)
         /\ Whose(s) => Whose(t)
         /\ \A p, pure : OnList(t, p) <=> OnList(s, p)
         /\ \A p, pure : Held(t, p, pure) <=> Held(s, p, pure)
BY DEF Aside, SameLinks, SameEps, Chain, Ascends, Whose, Owned, Dying, OnList, Held

\* A device with no timer, no request and, as far as the list and the drivers go, not in use.
Bare(s, p, pure) == ~Times(s.timers, p) /\ s.request[p] = "none" /\ ~Held(s, p, pure)

\* It keeps all that is said of the devices whose status is the same.
LEMMA AsideCore ==
  ASSUME NEW s, NEW t, NEW X, NEW Y, NEW pure, Core(s, X, pure), Aside(s, t),
         \A q \in Port : q \notin Y => (q \notin X /\ t.status[q] = s.status[q]) \/ Bare(s, q, pure)
  PROVE  Core(t, Y, pure)
<1>1. t \in UsbType /\ Unique(t.timers) /\ Whose(t) /\ Chain(t)
  BY AsideKeeps DEF Core, Aside
<1>2. t.timers = s.timers /\ t.request = s.request
  BY DEF Aside
<1>3. ASSUME NEW q \in Port, q \notin Y
      PROVE  Stage(t, q) /\ (Held(t, q, pure) => Quiet(t, q))
  <2>1. Held(t, q, pure) <=> Held(s, q, pure)
    BY AsideKeeps
  <2>2. CASE q \notin X /\ t.status[q] = s.status[q]
    <3>1. Stage(s, q) /\ (Held(s, q, pure) => Quiet(s, q))
      BY <2>2 DEF Core, Devices
    <3>. QED
      BY <1>2, <2>1, <2>2, <3>1 DEF Stage, Quiet
  <2>3. CASE Bare(s, q, pure)
    <3>1. ~Has(s.timers, "reset", q) /\ ~Has(s.timers, "address", q) /\ ~Has(s.timers, "peek", q)
      BY <2>3 DEF Times, Bare
    <3>. QED
      BY <1>2, <2>1, <2>3, <3>1 DEF Stage, Bare
  <2>. QED
    BY <1>3, <2>2, <2>3
<1>. QED
  BY <1>1, <1>3 DEF Core, Devices

\* A device that waits for a reset has no timer, no request and no driver.
LEMMA DelayedIs ==
  ASSUME NEW s, NEW X, NEW pure, Core(s, X, pure), NEW q \in Port, q \notin X,
         s.status[q] \in {"delayed", "pending", "notconnected"}
  PROVE  Bare(s, q, pure)
<1>1. Stage(s, q) /\ (Held(s, q, pure) => Quiet(s, q))
  BY DEF Core, Devices
<1>2. s.request[q] \in {"none", "address", "device", "config"}
  BY Fields DEF Core
<1>. QED
  BY <1>1, <1>2 DEF Stage, Quiet, Times, Bare

\* checkDelayedResets keeps what is said of the devices.
LEMMA CheckKeeps ==
  ASSUME NEW s, NEW X, NEW pure, Core(s, X, pure), NEW p \in Port
  PROVE  /\ Core(CheckDelayedResets(s, p), X, pure) /\ Aside(s, CheckDelayedResets(s, p))
         /\ s.status[p] # "delayed" => CheckDelayedResets(s, p).status[p] = s.status[p]
<1>1. PICK t : t = CheckDelayedResets(s, p)
  OBVIOUS
<1>2. s \in UsbType /\ s.status \in [Port -> Status]
  BY Fields DEF Core
<1>3. Checks(s, p, t)
  BY <1>1, <1>2, CheckIs
<1>4. \A q \in Port : t.status[q] = s.status[q] \/ s.status[q] = "delayed"
  BY <1>2, <1>3 DEF Checks
<1>5. Aside(s, t)
  BY <1>3 DEF Checks
<1>6. \A q \in Port : q \notin X => (q \notin X /\ t.status[q] = s.status[q]) \/ Bare(s, q, pure)
  BY <1>4, DelayedIs
<1>7. Core(t, X, pure)
  BY <1>5, <1>6, AsideCore
<1>. QED
  BY <1>1, <1>4, <1>5, <1>7

\* One port has its turn: the one that gives it back, then the one that waits.
LEMMA CheckTurn ==
  ASSUME NEW s \in UsbType, NEW p \in Port, Turn(s, {p}), s.resetFlag[p] \/ ~s.delayResets,
         ~Has(s.timers, "peek", p)
  PROVE  /\ Turn(CheckDelayedResets(s, p), {p})
         /\ s.status[p] \notin {"pending", "complete", "delayed"} => Turn(CheckDelayedResets(s, p), {})
<1>1. PICK t : t = CheckDelayedResets(s, p)
  OBVIOUS
<1>2. Checks(s, p, t)
  BY <1>1, CheckIs
<1>3. t.timers = s.timers
  BY <1>2 DEF Checks, Aside
<1>4. \A q \in Port : q # p => ~(s.status[q] \in {"pending", "complete"} \/ Has(s.timers, "peek", q))
                               /\ s.resetFlag[q] = FALSE
  BY Fields DEF Turn
<1>5. s.status \in [Port -> Status] /\ s.resetFlag \in [Port -> BOOLEAN]
  BY Fields
<1>6. ASSUME NEW X, X = {p} \/ s.status[p] \notin {"pending", "complete", "delayed"} PROVE Turn(t, X)
  <2>1. CASE /\ \A q \in Port : s.status[q] # "delayed"
             /\ t.status = s.status /\ t.delayResets = FALSE /\ t.resetFlag = [s.resetFlag EXCEPT ![p] = FALSE]
    <3>1. \A q \in Port : t.resetFlag[q] = FALSE
      BY <1>4, <1>5, <2>1
    <3>2. \A q \in Port : q \notin X => ~(t.status[q] \in {"pending", "complete"} \/ Has(t.timers, "peek", q))
      BY <1>3, <1>4, <1>6, <2>1
    <3>. QED
      BY <2>1, <3>1, <3>2 DEF Turn
  <2>2. ASSUME NEW q \in Port, s.status[q] = "delayed", t.status = [s.status EXCEPT ![q] = "pending"],
               t.delayResets = TRUE, t.resetFlag = [[s.resetFlag EXCEPT ![p] = FALSE] EXCEPT ![q] = TRUE]
        PROVE  Turn(t, X)
    <3>1. \A r \in Port : t.resetFlag[r] = TRUE <=> r = q
      BY <1>4, <1>5, <2>2
    <3>2. \A r \in Port : (r \notin X /\ (t.status[r] \in {"pending", "complete"} \/ Has(t.timers, "peek", r))) => r = q
      BY <1>3, <1>4, <1>5, <1>6, <2>2
    <3>. QED
      BY <2>2, <3>1, <3>2 DEF Turn
  <2>. QED
    BY <1>2, <2>1, <2>2 DEF Checks
<1>. QED
  BY <1>1, <1>6

\* hubResetDevice, for a device that has no timer, no request and no driver.
LEMMA ResetKeeps ==
  ASSUME NEW s, NEW p \in Port, NEW X \in SUBSET {p}, NEW pure, Core(s, X, pure), Bare(s, p, pure)
  PROVE  /\ Core(ResetDevice(s, p), {}, pure) /\ Aside(s, ResetDevice(s, p))
         /\ Turn(s, {p}) => Turn(ResetDevice(s, p), {})
<1>1. PICK t : t = ResetDevice(s, p)
  OBVIOUS
<1>2. s \in UsbType /\ s.status \in [Port -> Status] /\ s.resetFlag \in [Port -> BOOLEAN] /\ s.delayResets \in BOOLEAN
  BY Fields DEF Core
<1>3. Resets(s, p, t)
  BY <1>1, <1>2, ResetIs
<1>4. Aside(s, t) /\ t.timers = s.timers
  BY <1>3 DEF Resets, Aside
<1>5. \A q \in Port : q # p => t.status[q] = s.status[q]
  BY <1>2, <1>3 DEF Resets
<1>6. Core(t, {}, pure)
  <2>0. \A q \in Port : q # p => q \notin X
    OBVIOUS
  <2>1. \A q \in Port : q \notin {} => (q \notin X /\ t.status[q] = s.status[q]) \/ Bare(s, q, pure)
    BY <1>5, <2>0
  <2>. QED
    BY <1>4, <2>1, AsideCore
<1>7. ASSUME Turn(s, {p}) PROVE Turn(t, {})
  <2>0. ~Has(s.timers, "peek", p)
    BY DEF Times, Bare
  <2>1. CASE s.delayResets
    <3>1. t.status = [s.status EXCEPT ![p] = "delayed"] /\ t.resetFlag = s.resetFlag /\ t.delayResets = s.delayResets
      BY <1>3, <2>1 DEF Resets, SameTurn
    <3>. QED
      BY <1>2, <1>4, <1>7, <2>0, <2>1, <3>1 DEF Turn
  <2>2. CASE ~s.delayResets
    <3>1. /\ t.status = [s.status EXCEPT ![p] = "pending"]
          /\ t.delayResets = TRUE /\ t.resetFlag = [s.resetFlag EXCEPT ![p] = TRUE]
      BY <1>3, <2>2 DEF Resets
    <3>2. \A q \in Port : s.resetFlag[q] = FALSE
      BY <1>2, <1>7, <2>2 DEF Turn
    <3>3. \A q \in Port : q # p => ~(s.status[q] \in {"pending", "complete"} \/ Has(s.timers, "peek", q))
      BY <1>7, <3>2 DEF Turn
    <3>4. \A q \in Port : t.resetFlag[q] = TRUE <=> q = p
      BY <1>2, <3>1, <3>2
    <3>5. \A q \in Port : (t.status[q] \in {"pending", "complete"} \/ Has(t.timers, "peek", q)) => q = p
      BY <1>2, <1>4, <3>1, <3>3
    <3>. QED
      BY <3>1, <3>4, <3>5 DEF Turn
  <2>. QED
    BY <2>1, <2>2
<1>. QED
  BY <1>1, <1>4, <1>6, <1>7

-----------------------------------------------------------------------------
(* One device                                                              *)

\* The device as it was, as far as its stage goes.
Alike(s, t, q, pure) ==
  /\ t.status[q] = s.status[q] /\ t.request[q] = s.request[q]
  /\ \A c : c # "kill" => (Has(t.timers, c, q) <=> Has(s.timers, c, q))
  /\ Held(t, q, pure) => Held(s, q, pure)
LEMMA AlikeKept ==
  ASSUME NEW s, NEW t, NEW q, NEW pure, Alike(s, t, q, pure)
  PROVE  /\ Stage(s, q) /\ (Held(s, q, pure) => Quiet(s, q)) => Stage(t, q) /\ (Held(t, q, pure) => Quiet(t, q))
         /\ Bare(s, q, pure) => Bare(t, q, pure)
<1>1. /\ Has(t.timers, "reset", q) <=> Has(s.timers, "reset", q)
      /\ Has(t.timers, "address", q) <=> Has(s.timers, "address", q)
      /\ Has(t.timers, "peek", q) <=> Has(s.timers, "peek", q)
  BY DEF Alike
<1>2. Times(t.timers, q) <=> Times(s.timers, q)
  BY <1>1 DEF Times
<1>3. t.status[q] = s.status[q] /\ t.request[q] = s.request[q] /\ (Held(t, q, pure) => Held(s, q, pure))
  BY DEF Alike
<1>. QED
  BY <1>1, <1>2, <1>3 DEF Stage, Quiet, Bare

\* The devices that are alike stay in their stages.
LEMMA DevicesKept ==
  ASSUME NEW s, NEW t, NEW X, NEW Y, NEW pure, Devices(s, X, pure),
         \A q \in Port : q \notin Y => q \notin X /\ Alike(s, t, q, pure)
  PROVE  Devices(t, Y, pure)
BY AlikeKept DEF Devices

\* A device that was left out is in a stage again.
LEMMA CoreWhole ==
  ASSUME NEW s, NEW p, NEW pure, Core(s, {p}, pure), Stage(s, p), Held(s, p, pure) => Quiet(s, p)
  PROVE  Core(s, {}, pure)
<1>1. Devices(s, {}, pure)
  BY DEF Core, Devices
<1>. QED
  BY <1>1 DEF Core

\* Less is said of the devices when more of them are left out, or threads are mixed.
LEMMA CoreLess ==
  ASSUME NEW s, NEW X, NEW Y, NEW a, NEW b, Core(s, X, a), X \subseteq Y, b => a
  PROVE  Core(s, Y, b)
<1>1. \A q : Held(s, q, b) => Held(s, q, a)
  BY DEF Held
<1>2. Devices(s, Y, b)
  BY <1>1 DEF Core, Devices
<1>. QED
  BY <1>2 DEF Core

\* Only a device's status, request and tries are others.
Elsewhere(s, t, p) ==
  /\ t \in UsbType /\ SameLinks(s, t) /\ SameEps(s, t) /\ SameTurn(s, t)
  /\ t.timers = s.timers /\ t.driver = s.driver
  /\ \A q \in Port : q # p => t.status[q] = s.status[q] /\ t.request[q] = s.request[q]
LEMMA ElsewhereKeeps ==
  ASSUME NEW s, NEW t, NEW p, NEW X, NEW pure, Core(s, X, pure), Elsewhere(s, t, p)
  PROVE  Core(t, X \cup {p}, pure) /\ \A q : Held(t, q, pure) <=> Held(s, q, pure)
<1>1. \A q : Held(t, q, pure) <=> Held(s, q, pure)
  BY DEF Elsewhere, Held, OnList, SameLinks
<1>2. t \in UsbType /\ Unique(t.timers) /\ Whose(t) /\ Chain(t)
  BY DEF Core, Elsewhere, Whose, Owned, Dying, SameEps, SameLinks, Chain, Ascends
<1>3. \A q \in Port : q \notin X \cup {p} => q \notin X /\ Alike(s, t, q, pure)
  BY <1>1 DEF Alike, Elsewhere
<1>4. Devices(t, X \cup {p}, pure)
  BY <1>3, DevicesKept DEF Core
<1>. QED
  BY <1>1, <1>2, <1>4 DEF Core

\* Only the timers are others.
Timed(s, t) ==
  /\ t \in UsbType /\ SameLinks(s, t) /\ SameEps(s, t) /\ SameTurn(s, t) /\ t.status = s.status
  /\ t.request = s.request /\ t.driver = s.driver
LEMMA TimeKeeps ==
  ASSUME NEW s, NEW p \in Port, NEW X, p \in X, NEW pure, Core(s, X, pure), ~Times(s.timers, p),
         NEW cb \in {"reset", "address", "peek"}, NEW delay \in Nat
  PROVE  /\ Core(AddTimer(s, cb, p, delay), X, pure) /\ Timed(s, AddTimer(s, cb, p, delay))
         /\ \A c, x : Has(AddTimer(s, cb, p, delay).timers, c, x) <=> Has(s.timers, c, x) \/ (c = cb /\ x = p)
<1>1. PICK t : t = AddTimer(s, cb, p, delay)
  OBVIOUS
<1>2. s \in UsbType /\ Unique(s.timers) /\ s.timers \in Seq(Timer)
  BY Fields DEF Core
<1>3. MayTime(cb, p) /\ cb # "kill"
  BY DEF MayTime
<1>4. PICK U \in Seq(Timer) : Adds(s, cb, p, delay, U)
  BY <1>2, <1>3, TimerAdded, Zenon
<1>5. t = Retimed(s, U) /\ Unique(U)
      /\ \A c, x : Has(U, c, x) <=> Has(s.timers, c, x) \/ (c = cb /\ x = p /\ ~Active(s, cb, p))
  BY <1>1, <1>4, Zenon DEF Adds
<1>6. ~Active(s, cb, p)
  BY <1>2, <1>3, ActiveIs
<1>7. Timed(s, t) /\ t.timers = U
  BY <1>2, <1>5, RetimedIs DEF Timed
<1>8. \A c, x : Has(t.timers, c, x) <=> Has(s.timers, c, x) \/ (c = cb /\ x = p)
  BY <1>5, <1>6, <1>7
<1>9. Core(t, X, pure)
  <2>1. \A q : Held(t, q, pure) <=> Held(s, q, pure)
    BY <1>7 DEF Timed, SameLinks, Held, OnList
  <2>2. \A e : Dying(t, e) <=> Dying(s, e)
    BY <1>3, <1>8 DEF Dying
  <2>3. Whose(t) /\ Chain(t)
    BY <1>7, <2>2 DEF Core, Timed, Whose, Owned, SameEps, SameLinks, Chain, Ascends
  <2>4. \A q \in Port : q \notin X => q \notin X /\ Alike(s, t, q, pure)
    BY <1>7, <1>8, <2>1 DEF Alike, Timed
  <2>5. Devices(t, X, pure)
    BY <2>4, DevicesKept DEF Core
  <2>. QED
    BY <1>5, <1>7, <2>3, <2>5 DEF Core, Timed
<1>. QED
  BY <1>1, <1>7, <1>8, <1>9

\* removeEndpointFromDevice, for each endpoint.
Stripping(s, p, t) ==
  /\ t \in UsbType /\ SameLinks(s, t) /\ SameTurn(s, t) /\ t.status = s.status /\ t.driver = s.driver
  /\ t.request = [s.request EXCEPT ![p] = "none"]
  /\ \A c, x : c # "kill" => (Has(t.timers, c, x) <=> Has(s.timers, c, x))
LEMMA StripKeeps ==
  ASSUME NEW s, NEW p \in Port, NEW X, p \in X, NEW pure, Core(s, X, pure)
  PROVE  Core(RemoveEndpoints(s, p), X, pure) /\ Stripping(s, p, RemoveEndpoints(s, p))
<1>1. PICK t : t = RemoveEndpoints(s, p)
  OBVIOUS
<1>2. s \in UsbType /\ Unique(s.timers)
  BY DEF Core
<1>3. PICK U \in Seq(Timer) : Strips(s, p, U)
  BY <1>2, EndpointsRemoved, Zenon
<1>4. /\ t = Stripped(Retimed(s, U), p) /\ Unique(U)
      /\ \A c, x : Has(U, c, x) <=> Has(s.timers, c, x) \/ (c = "kill" /\ Owned(s, p, x))
  BY <1>1, <1>3, Zenon DEF Strips
<1>5. /\ t \in UsbType /\ SameLinks(s, t) /\ SameTurn(s, t) /\ t.status = s.status /\ t.driver = s.driver
      /\ t.request = [s.request EXCEPT ![p] = "none"]
      /\ t.timers = U /\ t.freeEps = s.freeEps /\ t.eps = [s.eps EXCEPT ![p] = <<>>]
  <2>1. PICK r \in UsbType :
          /\ r = Retimed(s, U) /\ r.timers = U /\ SameLinks(s, r) /\ SameEps(s, r) /\ SameTurn(s, r)
          /\ r.status = s.status /\ r.request = s.request /\ r.driver = s.driver
    BY <1>2, RetimedIs
  <2>2. PICK f \in [Port -> Seq(Ep)], g \in [Port -> {"none", "address", "device", "config"}] :
          f = [r.eps EXCEPT ![p] = <<>>] /\ g = [r.request EXCEPT ![p] = "none"]
    <3>1. r.eps \in [Port -> Seq(Ep)] /\ r.request \in [Port -> {"none", "address", "device", "config"}]
      BY Fields
    <3>2. [r.eps EXCEPT ![p] = <<>>] \in [Port -> Seq(Ep)]
      BY <3>1
    <3>3. [r.request EXCEPT ![p] = "none"] \in [Port -> {"none", "address", "device", "config"}]
      BY <3>1
    <3>. QED
      BY <3>2, <3>3, Zenon
  <2>3. t = [r EXCEPT !.eps = f, !.request = g]
    BY <1>4, <2>1, <2>2 DEF Stripped
  <2>4. t \in UsbType
    BY <2>3 DEF UsbType
  <2>5. /\ SameLinks(r, t) /\ SameTurn(r, t) /\ t.status = r.status /\ t.driver = r.driver
        /\ t.request = g /\ t.timers = r.timers /\ t.freeEps = r.freeEps /\ t.eps = f
    BY <2>3 DEF UsbType, SameLinks, SameTurn
  <2>. QED
    BY <2>1, <2>2, <2>4, <2>5 DEF SameLinks, SameTurn, SameEps
<1>6. Stripping(s, p, t)
  BY <1>4, <1>5 DEF Stripping
<1>7. Core(t, X, pure)
  <2>1. \A q : Held(t, q, pure) <=> Held(s, q, pure)
    BY <1>5 DEF SameLinks, Held, OnList
  <2>2. \A e : Dying(t, e) <=> Dying(s, e) \/ Owned(s, p, e)
    BY <1>4, <1>5 DEF Dying
  <2>3. \A q \in Port, e \in Ep : Owned(t, q, e) <=> q # p /\ Owned(s, q, e)
    <3>1. s.eps \in [Port -> Seq(Ep)]
      BY <1>2, Fields
    <3>2. t.eps[p] = <<>> /\ \A q \in Port : q # p => t.eps[q] = s.eps[q]
      BY <1>5, <3>1
    <3>. QED
      BY <3>2 DEF Owned
  <2>4. Whose(t)
    <3>1. Whose(s) /\ s.freeEps \in SUBSET Ep
      BY <1>2, Fields DEF Core
    <3>. QED
      BY <1>5, <2>2, <2>3, <3>1 DEF Whose
  <2>5. Chain(t)
    BY <1>5 DEF Core, SameLinks, Chain, Ascends
  <2>6. \A q \in Port : q \notin X => q \notin X /\ Alike(s, t, q, pure)
    <3>1. s.request \in [Port -> {"none", "address", "device", "config"}]
      BY <1>2, Fields
    <3>2. \A q \in Port : q \notin X => t.request[q] = s.request[q]
      BY <1>5, <3>1
    <3>. QED
      BY <1>5, <1>6, <2>1, <3>2 DEF Alike, Stripping
  <2>7. Devices(t, X, pure)
    BY <2>6, DevicesKept DEF Core
  <2>. QED
    BY <1>4, <1>5, <2>4, <2>5, <2>7 DEF Core
<1>. QED
  BY <1>1, <1>6, <1>7

\* killDevice, for a device that is not in use.
LEMMA KillKeeps ==
  ASSUME NEW s, NEW p \in Port, NEW pure, Core(s, {p}, pure), Bare(s, p, pure)
  PROVE  /\ Core(KillDevice(s, p), {}, pure)
         /\ SameLinks(s, KillDevice(s, p)) /\ KillDevice(s, p).driver = s.driver
         /\ Turn(s, {p}) /\ (s.resetFlag[p] \/ ~s.delayResets) => Turn(KillDevice(s, p), {})
<1>1. PICK a, b, t : a = RemoveEndpoints(s, p) /\ b = CheckDelayedResets(a, p) /\ t = ResetDevice(b, p)
  OBVIOUS
<1>2. t = KillDevice(s, p)
  BY <1>1 DEF KillDevice
<1>3. Core(a, {p}, pure) /\ Stripping(s, p, a)
  BY <1>1, StripKeeps
<1>4. Core(b, {p}, pure) /\ Aside(a, b)
  BY <1>1, <1>3, CheckKeeps
<1>5. Bare(b, p, pure)
  <2>1. Alike(s, a, p, pure)
    BY <1>3, Fields DEF Stripping, Alike, Bare, Held, OnList, SameLinks, Core
  <2>2. Alike(a, b, p, pure) \/ b.status[p] # a.status[p]
    BY <1>4 DEF Aside, Alike, Held, OnList, SameLinks
  <2>3. Bare(a, p, pure)
    BY <2>1, AlikeKept
  <2>. QED
    BY <1>4, <2>3 DEF Aside, Bare, Held, OnList, SameLinks
<1>6. Core(t, {}, pure) /\ Aside(b, t) /\ (Turn(b, {p}) => Turn(t, {}))
  <2>1. {p} \in SUBSET {p}
    OBVIOUS
  <2>. QED
    BY <1>1, <1>4, <1>5, <2>1, ResetKeeps
<1>7. SameLinks(s, t) /\ t.driver = s.driver
  BY <1>3, <1>4, <1>6 DEF Stripping, Aside, SameLinks
<1>8. ASSUME Turn(s, {p}), s.resetFlag[p] \/ ~s.delayResets PROVE Turn(t, {})
  <2>1. /\ a.status = s.status /\ a.resetFlag = s.resetFlag /\ a.delayResets = s.delayResets
        /\ \A q : Has(a.timers, "peek", q) <=> Has(s.timers, "peek", q)
    BY <1>3 DEF Stripping, SameTurn
  <2>2. Turn(a, {p})
    BY <1>8, <2>1 DEF Turn
  <2>3. ~Has(a.timers, "peek", p)
    BY <2>1 DEF Bare, Times
  <2>4. Turn(b, {p})
    BY <1>1, <1>3, <1>8, <2>1, <2>2, <2>3, CheckTurn DEF Core
  <2>. QED
    BY <1>6, <2>4
<1>. QED
  BY <1>2, <1>6, <1>7, <1>8

-----------------------------------------------------------------------------
(* The list of the connected devices                                       *)

\* Only the links are others.
Relinked(s, t) ==
  /\ t \in UsbType /\ SameEps(s, t) /\ SameTurn(s, t)
  /\ t.timers = s.timers /\ t.request = s.request /\ t.status = s.status /\ t.driver = s.driver

\* flushPort takes a device off the list.
Unlinks(s, p, t) ==
  /\ Relinked(s, t)
  /\ t.first = IF s.prev[p] = 0 THEN s.next[p] ELSE s.first
  /\ t.last = IF s.next[p] = 0 THEN s.prev[p] ELSE s.last
  /\ \A q \in Port : t.next[q] = IF q = p THEN 0 ELSE IF q = s.prev[p] THEN s.next[p] ELSE s.next[q]
  /\ \A q \in Port : t.prev[q] = IF q = p THEN 0 ELSE IF q = s.next[p] THEN s.prev[p] ELSE s.prev[q]
LEMMA UnlinkIs ==
  ASSUME NEW s \in UsbType, NEW p \in Port
  PROVE  Unlinks(s, p, Unlink(s, p))
<1>1. PICK n \in {0} \cup Port, v \in {0} \cup Port : n = s.next[p] /\ v = s.prev[p]
  BY Fields
<1>2. PICK a : a = IF n # 0 THEN [s EXCEPT !.prev[n] = v] ELSE [s EXCEPT !.last = v]
  OBVIOUS
<1>3. PICK b : b = IF v # 0 THEN [a EXCEPT !.next[v] = n] ELSE [a EXCEPT !.first = n]
  OBVIOUS
<1>4. PICK t : t = [b EXCEPT !.next[p] = 0, !.prev[p] = 0]
  OBVIOUS
<1>5. t = Unlink(s, p)
  BY <1>1, <1>2, <1>3, <1>4 DEF Unlink
<1>6. 0 \notin Port
  BY PortIs
<1>7. /\ Relinked(s, a) /\ a.first = s.first /\ a.next = s.next
      /\ a.last = IF n = 0 THEN v ELSE s.last
      /\ \A q \in Port : a.prev[q] = IF q = n THEN v ELSE s.prev[q]
  <2>1. CASE n # 0
    <3>1. PICK f \in [Port -> {0} \cup Port] : f = [s.prev EXCEPT ![n] = v]
      BY Fields
    <3>2. a = [s EXCEPT !.prev = f]
      BY <1>2, <2>1, <3>1
    <3>3. a \in UsbType
      BY <3>2 DEF UsbType
    <3>4. Relinked(s, a) /\ a.first = s.first /\ a.next = s.next /\ a.last = s.last /\ a.prev = f
      BY <3>2, <3>3 DEF UsbType, Relinked, SameEps, SameTurn
    <3>5. s.prev \in [Port -> {0} \cup Port]
      BY Fields
    <3>. QED
      BY <2>1, <3>1, <3>4, <3>5
  <2>2. CASE n = 0
    <3>1. a = [s EXCEPT !.last = v]
      BY <1>2, <2>2
    <3>2. a \in UsbType
      BY <3>1 DEF UsbType
    <3>3. Relinked(s, a) /\ a.first = s.first /\ a.next = s.next /\ a.last = v /\ a.prev = s.prev
      BY <3>1, <3>2 DEF UsbType, Relinked, SameEps, SameTurn
    <3>. QED
      BY <1>6, <2>2, <3>3
  <2>. QED
    BY <2>1, <2>2
<1>8. /\ Relinked(a, b) /\ b.last = a.last /\ b.prev = a.prev
      /\ b.first = IF v = 0 THEN n ELSE a.first
      /\ \A q \in Port : b.next[q] = IF q = v THEN n ELSE a.next[q]
  <2>0. a \in UsbType
    BY <1>7 DEF Relinked
  <2>1. CASE v # 0
    <3>1. PICK f \in [Port -> {0} \cup Port] : f = [a.next EXCEPT ![v] = n]
      BY <2>0, Fields
    <3>2. b = [a EXCEPT !.next = f]
      BY <1>3, <2>1, <3>1
    <3>3. b \in UsbType
      BY <2>0, <3>2 DEF UsbType
    <3>4. Relinked(a, b) /\ b.first = a.first /\ b.prev = a.prev /\ b.last = a.last /\ b.next = f
      BY <2>0, <3>2, <3>3 DEF UsbType, Relinked, SameEps, SameTurn
    <3>5. a.next \in [Port -> {0} \cup Port]
      BY <2>0, Fields
    <3>. QED
      BY <2>1, <3>1, <3>4, <3>5
  <2>2. CASE v = 0
    <3>1. b = [a EXCEPT !.first = n]
      BY <1>3, <2>2
    <3>2. b \in UsbType
      BY <2>0, <3>1 DEF UsbType
    <3>3. Relinked(a, b) /\ b.last = a.last /\ b.prev = a.prev /\ b.first = n /\ b.next = a.next
      BY <2>0, <3>1, <3>2 DEF UsbType, Relinked, SameEps, SameTurn
    <3>. QED
      BY <1>6, <2>2, <3>3
  <2>. QED
    BY <2>1, <2>2
<1>9. /\ Relinked(b, t) /\ t.first = b.first /\ t.last = b.last
      /\ \A q \in Port : t.next[q] = IF q = p THEN 0 ELSE b.next[q]
      /\ \A q \in Port : t.prev[q] = IF q = p THEN 0 ELSE b.prev[q]
  <2>0. b \in UsbType
    BY <1>8 DEF Relinked
  <2>1. b.next \in [Port -> {0} \cup Port] /\ b.prev \in [Port -> {0} \cup Port]
    BY <2>0, Fields
  <2>2. PICK f \in [Port -> {0} \cup Port], g \in [Port -> {0} \cup Port] :
          f = [b.next EXCEPT ![p] = 0] /\ g = [b.prev EXCEPT ![p] = 0]
    BY <2>1
  <2>3. t = [b EXCEPT !.next = f, !.prev = g]
    BY <1>4, <2>2
  <2>4. t \in UsbType
    BY <2>0, <2>3 DEF UsbType
  <2>5. Relinked(b, t) /\ t.first = b.first /\ t.last = b.last /\ t.next = f /\ t.prev = g
    BY <2>0, <2>3, <2>4 DEF UsbType, Relinked, SameEps, SameTurn
  <2>. QED
    BY <2>1, <2>2, <2>5
<1>10. Relinked(s, t)
  BY <1>7, <1>8, <1>9 DEF Relinked, SameEps, SameTurn
<1>11. Unlinks(s, p, t)
  BY <1>1, <1>7, <1>8, <1>9, <1>10 DEF Unlinks
<1>. QED
  BY <1>5, <1>11

\* The links of the others still agree.
LEMMA UnlinkChain ==
  ASSUME NEW s \in UsbType, Chain(s), NEW p \in Port, NEW t, Unlinks(s, p, t)
  PROVE  /\ Chain(t) /\ ~OnList(t, p)
         /\ \A q \in Port : OnList(t, q) => OnList(s, q)
         /\ Whole(s) /\ OnList(s, p) => Whole(t) /\ \A q \in Port : q # p /\ OnList(s, q) => OnList(t, q)
<1>1. PICK n \in {0} \cup Port, v \in {0} \cup Port : n = s.next[p] /\ v = s.prev[p]
  BY Fields
<1>2. /\ t.first = IF v = 0 THEN n ELSE s.first
      /\ t.last = IF n = 0 THEN v ELSE s.last
      /\ \A q \in Port : t.next[q] = IF q = p THEN 0 ELSE IF q = v THEN n ELSE s.next[q]
      /\ \A q \in Port : t.prev[q] = IF q = p THEN 0 ELSE IF q = n THEN v ELSE s.prev[q]
  BY <1>1 DEF Unlinks
<1>3. 0 \notin Port /\ s.first \in {0} \cup Port /\ s.last \in {0} \cup Port
      /\ \A q \in Port : s.next[q] \in {0} \cup Port /\ s.prev[q] \in {0} \cup Port
  BY PortIs, Fields
<1>4. PICK rank : Ascends(s, rank)
  BY DEF Chain
<1>5. /\ \A q \in Port : s.next[q] # 0 => s.prev[s.next[q]] = q /\ rank[q] < rank[s.next[q]]
      /\ \A q \in Port : s.prev[q] # 0 => s.next[s.prev[q]] = q
      /\ s.first # 0 => s.prev[s.first] = 0
      /\ s.last # 0 => s.next[s.last] = 0
      /\ \A q \in Port : rank[q] \in Nat
  BY <1>4 DEF Chain, Ascends
<1>6. /\ n # p /\ v # p /\ (n # 0 => n # v /\ s.prev[n] = p /\ rank[p] < rank[n])
      /\ (v # 0 => s.next[v] = p /\ rank[v] < rank[p])
  BY <1>1, <1>3, <1>5
<1>7. \A q \in Port : t.next[q] # 0 => t.prev[t.next[q]] = q /\ rank[q] < rank[t.next[q]]
  BY <1>1, <1>2, <1>3, <1>5, <1>6
<1>8. \A q \in Port : t.prev[q] # 0 => t.next[t.prev[q]] = q
  BY <1>1, <1>2, <1>3, <1>5, <1>6
<1>9. (t.first # 0 => t.prev[t.first] = 0) /\ (t.last # 0 => t.next[t.last] = 0)
  BY <1>1, <1>2, <1>3, <1>5, <1>6
<1>10. Chain(t)
  <2>1. Ascends(t, rank)
    BY <1>4, <1>7 DEF Ascends
  <2>. QED
    BY <1>7, <1>8, <1>9, <2>1 DEF Chain
<1>11. ~OnList(t, p)
  BY <1>1, <1>2, <1>3, <1>5, <1>6 DEF OnList
<1>12. \A q \in Port : OnList(t, q) => OnList(s, q)
  BY <1>1, <1>2, <1>3, <1>5, <1>6 DEF OnList
<1>13. ASSUME Whole(s), OnList(s, p)
       PROVE  Whole(t) /\ \A q \in Port : q # p /\ OnList(s, q) => OnList(t, q)
  <2>1. (v = 0 => s.first = p) /\ (n = 0 => s.last = p)
    BY <1>1, <1>13 DEF Whole
  <2>2. \A q \in Port : q # p /\ OnList(s, q) => OnList(t, q)
    BY <1>1, <1>2, <1>3, <1>5, <1>6, <2>1 DEF OnList
  <2>3. \A q \in Port : OnList(t, q) /\ t.prev[q] = 0 => t.first = q
    BY <1>1, <1>2, <1>3, <1>5, <1>6, <1>11, <1>12, <1>13, <2>1 DEF Whole
  <2>4. \A q \in Port : OnList(t, q) /\ t.next[q] = 0 => t.last = q
    BY <1>1, <1>2, <1>3, <1>5, <1>6, <1>11, <1>12, <1>13, <2>1 DEF Whole
  <2>5. t.first = 0 <=> t.last = 0
    BY <1>1, <1>2, <1>3, <1>5, <1>6, <1>13, <2>1 DEF Whole
  <2>. QED
    BY <2>2, <2>3, <2>4, <2>5 DEF Whole
<1>. QED
  BY <1>10, <1>11, <1>12, <1>13

\* Other links keep what is said of the devices that are not on the list now or were before.
LEMMA RelinkedKeeps ==
  ASSUME NEW s, NEW t, NEW X, NEW Y, NEW pure, Core(s, X, pure), Relinked(s, t), Chain(t), X \subseteq Y,
         \A q \in Port : q \notin Y /\ OnList(t, q) => OnList(s, q)
  PROVE  Core(t, Y, pure)
<1>1. t \in UsbType /\ Unique(t.timers) /\ Whose(t)
  BY DEF Core, Relinked, Whose, Owned, Dying, SameEps
<1>2. \A q \in Port : q \notin Y => q \notin X /\ Alike(s, t, q, pure)
  BY DEF Relinked, Alike, Held
<1>3. Devices(t, Y, pure)
  BY <1>2, DevicesKept DEF Core
<1>. QED
  BY <1>1, <1>3 DEF Core

\* A set of ports that has the first one and goes on to the next has all on the list.
LEMMA FromFirst ==
  ASSUME NEW s \in UsbType, Chain(s), Whole(s), NEW D, s.first # 0 => s.first \in D,
         \A q \in Port : q \in D /\ s.next[q] # 0 => s.next[q] \in D
  PROVE  \A p \in Port : OnList(s, p) => p \in D
<1>. DEFINE B == {q \in Port : OnList(s, q) /\ q \notin D}
<1>1. SUFFICES ASSUME B # {} PROVE FALSE
  OBVIOUS
<1>2. PICK rank : Ascends(s, rank)
  BY DEF Chain
<1>3. PICK q \in B : \A r \in B : rank[q] <= rank[r]
  <2>. DEFINE R == {rank[r] : r \in B}
  <2>1. R \in SUBSET Nat /\ R # {}
    BY <1>1, <1>2 DEF Ascends
  <2>2. PICK m \in R : \A j \in R : m <= j
    <3>. HIDE DEF R
    <3>. QED
      BY <2>1, LeastOf
  <2>. QED
    BY <2>2
<1>4. q \in Port /\ OnList(s, q) /\ q \notin D
  OBVIOUS
<1>5. PICK v \in {0} \cup Port : v = s.prev[q]
  BY Fields
<1>6. v # 0
  BY <1>4, <1>5, PortIs DEF Whole
<1>7. v \in Port /\ s.next[v] = q /\ q # 0
  BY <1>4, <1>5, <1>6, PortIs DEF Chain
<1>8. OnList(s, v) /\ v \notin D
  BY <1>4, <1>7 DEF OnList
<1>9. rank[v] < rank[q] /\ rank[v] \in Nat /\ rank[q] \in Nat
  BY <1>2, <1>7 DEF Ascends
<1>. QED
  BY <1>3, <1>7, <1>8, <1>9

\* fetchConfigDescriptors puts a device at the end of the list.
Links(s, p, t) ==
  /\ Relinked(s, t) /\ t.last = p
  /\ t.first = IF s.last = 0 THEN p ELSE s.first
  /\ \A q \in Port : t.next[q] = IF q = s.last THEN p ELSE IF q = p THEN 0 ELSE s.next[q]
  /\ \A q \in Port : t.prev[q] = IF q = p THEN s.last ELSE s.prev[q]
LEMMA LinkIs ==
  ASSUME NEW s \in UsbType, NEW p \in Port
  PROVE  Links(s, p, Link(s, p))
<1>1. PICK l \in {0} \cup Port : l = s.last
  BY Fields
<1>2. PICK a : a = [s EXCEPT !.prev[p] = l, !.next[p] = 0, !.last = p]
  OBVIOUS
<1>3. PICK t : t = IF l # 0 THEN [a EXCEPT !.next[l] = p] ELSE [a EXCEPT !.first = p]
  OBVIOUS
<1>4. t = Link(s, p)
  BY <1>1, <1>2, <1>3 DEF Link
<1>5. 0 \notin Port
  BY PortIs
<1>6. /\ Relinked(s, a) /\ a.last = p /\ a.first = s.first
      /\ \A q \in Port : a.next[q] = IF q = p THEN 0 ELSE s.next[q]
      /\ \A q \in Port : a.prev[q] = IF q = p THEN l ELSE s.prev[q]
  <2>1. s.next \in [Port -> {0} \cup Port] /\ s.prev \in [Port -> {0} \cup Port]
    BY Fields
  <2>2. PICK f \in [Port -> {0} \cup Port], g \in [Port -> {0} \cup Port] :
          f = [s.next EXCEPT ![p] = 0] /\ g = [s.prev EXCEPT ![p] = l]
    BY <2>1
  <2>3. a = [s EXCEPT !.prev = g, !.next = f, !.last = p]
    BY <1>2, <2>2
  <2>4. a \in UsbType
    BY <2>3 DEF UsbType
  <2>5. Relinked(s, a) /\ a.first = s.first /\ a.last = p /\ a.next = f /\ a.prev = g
    BY <2>3, <2>4 DEF UsbType, Relinked, SameEps, SameTurn
  <2>. QED
    BY <2>1, <2>2, <2>5
<1>7. /\ Relinked(a, t) /\ t.last = a.last /\ t.prev = a.prev
      /\ t.first = IF l = 0 THEN p ELSE a.first
      /\ \A q \in Port : t.next[q] = IF q = l THEN p ELSE a.next[q]
  <2>0. a \in UsbType
    BY <1>6 DEF Relinked
  <2>1. CASE l # 0
    <3>1. PICK f \in [Port -> {0} \cup Port] : f = [a.next EXCEPT ![l] = p]
      BY <2>0, Fields
    <3>2. t = [a EXCEPT !.next = f]
      BY <1>3, <2>1, <3>1
    <3>3. t \in UsbType
      BY <2>0, <3>2 DEF UsbType
    <3>4. Relinked(a, t) /\ t.first = a.first /\ t.prev = a.prev /\ t.last = a.last /\ t.next = f
      BY <2>0, <3>2, <3>3 DEF UsbType, Relinked, SameEps, SameTurn
    <3>5. a.next \in [Port -> {0} \cup Port]
      BY <2>0, Fields
    <3>. QED
      BY <2>1, <3>1, <3>4, <3>5
  <2>2. CASE l = 0
    <3>1. t = [a EXCEPT !.first = p]
      BY <1>3, <2>2
    <3>2. t \in UsbType
      BY <2>0, <3>1 DEF UsbType
    <3>3. Relinked(a, t) /\ t.last = a.last /\ t.prev = a.prev /\ t.first = p /\ t.next = a.next
      BY <2>0, <3>1, <3>2 DEF UsbType, Relinked, SameEps, SameTurn
    <3>. QED
      BY <1>5, <2>2, <3>3
  <2>. QED
    BY <2>1, <2>2
<1>8. Relinked(s, t)
  BY <1>6, <1>7 DEF Relinked, SameEps, SameTurn
<1>9. Links(s, p, t)
  BY <1>1, <1>6, <1>7, <1>8 DEF Links
<1>. QED
  BY <1>4, <1>9

\* The links of the list still agree.
LEMMA LinkChain ==
  ASSUME NEW s \in UsbType, Chain(s), NEW p \in Port, ~OnList(s, p), NEW t, Links(s, p, t)
  PROVE  /\ Chain(t) /\ OnList(t, p)
         /\ \A q \in Port : q # p /\ OnList(t, q) => OnList(s, q)
         /\ Whole(s) => Whole(t) /\ \A q \in Port : OnList(s, q) => OnList(t, q)
<1>1. PICK l \in {0} \cup Port : l = s.last
  BY Fields
<1>2. /\ t.last = p /\ t.first = IF l = 0 THEN p ELSE s.first
      /\ \A q \in Port : t.next[q] = IF q = l THEN p ELSE IF q = p THEN 0 ELSE s.next[q]
      /\ \A q \in Port : t.prev[q] = IF q = p THEN l ELSE s.prev[q]
  BY <1>1 DEF Links
<1>3. 0 \notin Port /\ s.first \in {0} \cup Port
      /\ \A q \in Port : s.next[q] \in {0} \cup Port /\ s.prev[q] \in {0} \cup Port
  BY PortIs, Fields
<1>4. PICK rank : Ascends(s, rank)
  BY DEF Chain
<1>5. /\ \A q \in Port : s.next[q] # 0 => s.prev[s.next[q]] = q /\ rank[q] < rank[s.next[q]]
      /\ \A q \in Port : s.prev[q] # 0 => s.next[s.prev[q]] = q
      /\ s.first # 0 => s.prev[s.first] = 0
      /\ l # 0 => s.next[l] = 0
      /\ \A q \in Port : rank[q] \in Nat
  BY <1>1, <1>4 DEF Chain, Ascends
<1>6. s.first # p /\ l # p /\ s.next[p] = 0 /\ s.prev[p] = 0
  BY <1>1 DEF OnList
<1>7. \A q \in Port : s.next[q] # p /\ s.prev[q] # p
  BY <1>3, <1>5, <1>6
<1>8. \A q \in Port : t.next[q] # 0 => t.prev[t.next[q]] = q
  BY <1>1, <1>2, <1>3, <1>5, <1>6, <1>7
<1>9. \A q \in Port : t.prev[q] # 0 => t.next[t.prev[q]] = q
  BY <1>1, <1>2, <1>3, <1>5, <1>6, <1>7
<1>10. (t.first # 0 => t.prev[t.first] = 0) /\ (t.last # 0 => t.next[t.last] = 0)
  BY <1>1, <1>2, <1>3, <1>5, <1>6, <1>7
<1>11. \E r : Ascends(t, r)
  <2>1. PICK m \in Nat : l # 0 => rank[l] < m
    <3>1. CASE l = 0
      BY <3>1
    <3>2. CASE l # 0
      <4>1. rank[l] + 1 \in Nat /\ rank[l] < rank[l] + 1
        BY <1>5, <3>2
      <4>. QED
        BY <4>1
    <3>. QED
      BY <3>1, <3>2
  <2>2. rank \in [Port -> Nat]
    BY <1>4 DEF Ascends
  <2>3. PICK r \in [Port -> Nat] : r[p] = m /\ \A q \in Port : q # p => r[q] = rank[q]
    <3>1. [rank EXCEPT ![p] = m] \in [Port -> Nat]
      BY <2>2
    <3>. QED
      BY <2>2, <3>1
  <2>4. \A q \in Port : t.next[q] # 0 => r[q] < r[t.next[q]]
    BY <1>1, <1>2, <1>3, <1>5, <1>6, <1>7, <2>1, <2>3
  <2>. QED
    BY <2>3, <2>4 DEF Ascends
<1>12. Chain(t)
  BY <1>8, <1>9, <1>10, <1>11 DEF Chain
<1>13. OnList(t, p)
  BY <1>2 DEF OnList
<1>14. \A q \in Port : q # p /\ OnList(t, q) => OnList(s, q)
  BY <1>1, <1>2, <1>3, <1>6 DEF OnList
<1>15. ASSUME Whole(s) PROVE Whole(t) /\ \A q \in Port : OnList(s, q) => OnList(t, q)
  <2>1. CASE l = 0
    <3>1. s.first = 0
      BY <1>1, <1>15, <2>1 DEF Whole
    <3>2. \A q \in Port : OnList(s, q) => q \in {}
      <4>. DEFINE D == {}
      <4>1. (s.first # 0 => s.first \in D) /\ \A q \in Port : q \in D /\ s.next[q] # 0 => s.next[q] \in D
        BY <3>1
      <4>. HIDE DEF D
      <4>2. \A q \in Port : OnList(s, q) => q \in D
        BY <1>15, <4>1, FromFirst
      <4>. QED
        BY <4>2 DEF D
    <3>3. \A q \in Port : OnList(t, q) => q = p
      BY <1>14, <3>2
    <3>. QED
      BY <1>2, <1>3, <2>1, <3>2, <3>3 DEF Whole
  <2>2. CASE l # 0
    <3>1. \A q \in Port : OnList(s, q) => OnList(t, q)
      BY <1>1, <1>2, <1>3, <1>5, <1>6, <2>2 DEF OnList
    <3>2. \A q \in Port : OnList(t, q) /\ t.prev[q] = 0 => t.first = q
      BY <1>2, <1>14, <1>15, <2>2 DEF Whole
    <3>3. \A q \in Port : OnList(t, q) /\ t.next[q] = 0 => t.last = q
      BY <1>1, <1>2, <1>3, <1>14, <1>15, <2>2 DEF Whole
    <3>4. t.first # 0 /\ t.last # 0
      BY <1>1, <1>2, <1>3, <1>15, <2>2 DEF Whole
    <3>. QED
      BY <3>1, <3>2, <3>3, <3>4 DEF Whole
  <2>. QED
    BY <2>1, <2>2
<1>. QED
  BY <1>12, <1>13, <1>14, <1>15

-----------------------------------------------------------------------------
(* A device leaves, or arrives                                             *)

\* cancelTimerCallback, for a device.
LEMMA CancelKeeps ==
  ASSUME NEW s, NEW p, NEW X, p \in X, NEW pure, Core(s, X, pure)
  PROVE  /\ Core(CancelTimer(s, p), X, pure) /\ Timed(s, CancelTimer(s, p))
         /\ \A c, x : Has(CancelTimer(s, p).timers, c, x) <=> Has(s.timers, c, x) /\ ~(c # "kill" /\ x = p)
<1>1. PICK t : t = CancelTimer(s, p)
  OBVIOUS
<1>2. s \in UsbType /\ Unique(s.timers)
  BY DEF Core
<1>3. PICK U \in Seq(Timer) : Cancels(s, p, U)
  BY <1>2, TimerCancelled, Zenon
<1>4. t = Retimed(s, U) /\ Unique(U)
      /\ \A c, x : Has(U, c, x) <=> Has(s.timers, c, x) /\ ~(c # "kill" /\ x = p)
  BY <1>1, <1>3, Zenon DEF Cancels
<1>5. Timed(s, t) /\ t.timers = U
  BY <1>2, <1>4, RetimedIs DEF Timed
<1>6. Core(t, X, pure)
  <2>1. \A q : Held(t, q, pure) <=> Held(s, q, pure)
    BY <1>5 DEF Timed, SameLinks, Held, OnList
  <2>2. \A e : Dying(t, e) <=> Dying(s, e)
    BY <1>4, <1>5 DEF Dying
  <2>3. Whose(t) /\ Chain(t)
    BY <1>5, <2>2 DEF Core, Timed, Whose, Owned, SameEps, SameLinks, Chain, Ascends
  <2>4. \A q \in Port : q \notin X => q \notin X /\ Alike(s, t, q, pure)
    BY <1>4, <1>5, <2>1 DEF Alike, Timed
  <2>5. Devices(t, X, pure)
    BY <2>4, DevicesKept DEF Core
  <2>. QED
    BY <1>4, <1>5, <2>3, <2>5 DEF Core, Timed
<1>. QED
  BY <1>1, <1>4, <1>5, <1>6

\* flushPort takes a device off the list.
LEMMA UnlinkKeeps ==
  ASSUME NEW s, NEW p \in Port, NEW X, p \in X, NEW pure, Core(s, X, pure)
  PROVE  /\ Core(Unlink(s, p), X, pure) /\ Relinked(s, Unlink(s, p)) /\ ~OnList(Unlink(s, p), p)
         /\ \A q \in Port : OnList(Unlink(s, p), q) => OnList(s, q)
         /\ Whole(s) /\ OnList(s, p) =>
              Whole(Unlink(s, p)) /\ \A q \in Port : q # p /\ OnList(s, q) => OnList(Unlink(s, p), q)
<1>1. PICK t : t = Unlink(s, p)
  OBVIOUS
<1>2. s \in UsbType /\ Chain(s)
  BY DEF Core
<1>3. Unlinks(s, p, t)
  BY <1>1, <1>2, UnlinkIs
<1>4. /\ Chain(t) /\ ~OnList(t, p)
      /\ \A q \in Port : OnList(t, q) => OnList(s, q)
      /\ Whole(s) /\ OnList(s, p) => Whole(t) /\ \A q \in Port : q # p /\ OnList(s, q) => OnList(t, q)
  BY <1>2, <1>3, UnlinkChain
<1>5. Relinked(s, t)
  BY <1>3 DEF Unlinks
<1>6. Core(t, X, pure)
  BY <1>4, <1>5, RelinkedKeeps
<1>. QED
  BY <1>1, <1>4, <1>5, <1>6

\* flushPort from the disconnect callback on.
Flushes(s, p, pure, t) ==
  /\ Core(t, {}, pure) /\ t.driver = [s.driver EXCEPT ![p] = None]
  /\ ~OnList(t, p) /\ \A q \in Port : OnList(t, q) => OnList(s, q)
  /\ Whole(s) /\ OnList(s, p) => Whole(t) /\ \A q \in Port : q # p /\ OnList(s, q) => OnList(t, q)
  /\ Turn(s, {}) => Turn(t, {})
LEMMA FlushKeeps ==
  ASSUME NEW s, NEW p \in Port, NEW pure, Core(s, {p}, pure), s.status[p] = "notconnected"
  PROVE  Flushes(s, p, pure, FlushEnd(s, p))
<1>1. PICK d, c, r, u, t :
        /\ d = [s EXCEPT !.driver[p] = None] /\ c = CancelTimer(d, p) /\ r = RemoveEndpoints(c, p)
        /\ u = Unlink(r, p) /\ t = IF u.resetFlag[p] THEN CheckDelayedResets(u, p) ELSE u
  OBVIOUS
<1>2. t = FlushEnd(s, p)
  BY <1>1 DEF FlushEnd
<1>3. s \in UsbType /\ Unique(s.timers) /\ Whose(s) /\ Chain(s) /\ Devices(s, {p}, pure)
  BY DEF Core
<1>4. /\ d \in UsbType /\ SameLinks(s, d) /\ SameEps(s, d) /\ SameTurn(s, d) /\ d.timers = s.timers
      /\ d.status = s.status /\ d.request = s.request /\ d.driver = [s.driver EXCEPT ![p] = None]
  <2>1. s.driver \in [Port -> Driver \cup {None}]
    BY <1>3, Fields
  <2>2. PICK f \in [Port -> Driver \cup {None}] : f = [s.driver EXCEPT ![p] = None]
    BY <2>1
  <2>3. d = [s EXCEPT !.driver = f]
    BY <1>1, <2>2
  <2>4. d \in UsbType
    BY <1>3, <2>3 DEF UsbType
  <2>5. /\ SameLinks(s, d) /\ SameEps(s, d) /\ SameTurn(s, d) /\ d.timers = s.timers
        /\ d.status = s.status /\ d.request = s.request /\ d.driver = f
    BY <1>3, <2>3 DEF UsbType, SameLinks, SameEps, SameTurn
  <2>. QED
    BY <2>2, <2>4, <2>5
<1>5. Core(d, {p}, pure)
  <2>1. Whose(d) /\ Chain(d)
    BY <1>3, <1>4 DEF Whose, Owned, Dying, SameEps, SameLinks, Chain, Ascends
  <2>2. s.driver \in [Port -> Driver \cup {None}]
    BY <1>3, Fields
  <2>3. \A q \in Port : q \notin {p} => q \notin {p} /\ Alike(s, d, q, pure)
    BY <1>4, <2>2 DEF Alike, Held, OnList, SameLinks
  <2>4. Devices(d, {p}, pure)
    BY <1>3, <2>3, DevicesKept
  <2>. QED
    BY <1>3, <1>4, <2>1, <2>4 DEF Core
<1>6. /\ Core(c, {p}, pure) /\ Timed(d, c)
      /\ \A b, x : Has(c.timers, b, x) <=> Has(d.timers, b, x) /\ ~(b # "kill" /\ x = p)
  BY <1>1, <1>5, CancelKeeps
<1>7. Core(r, {p}, pure) /\ Stripping(c, p, r)
  BY <1>1, <1>6, StripKeeps
<1>8. /\ Core(u, {p}, pure) /\ Relinked(r, u) /\ ~OnList(u, p)
      /\ \A q \in Port : OnList(u, q) => OnList(r, q)
      /\ Whole(r) /\ OnList(r, p) => Whole(u) /\ \A q \in Port : q # p /\ OnList(r, q) => OnList(u, q)
  BY <1>1, <1>7, UnlinkKeeps
<1>9. SameLinks(s, r)
  BY <1>4, <1>6, <1>7 DEF Timed, Stripping, SameLinks
<1>10. (Whole(r) <=> Whole(s)) /\ \A q : OnList(r, q) <=> OnList(s, q)
  BY <1>9 DEF SameLinks, Whole, OnList
<1>11. /\ u.status = s.status /\ u.resetFlag = s.resetFlag /\ u.delayResets = s.delayResets
       /\ u.driver = [s.driver EXCEPT ![p] = None]
  BY <1>4, <1>6, <1>7, <1>8 DEF Timed, Stripping, Relinked, SameTurn
<1>12. \A b, x : b # "kill" => (Has(u.timers, b, x) <=> Has(s.timers, b, x) /\ x # p)
  BY <1>4, <1>6, <1>7, <1>8 DEF Stripping, Relinked
<1>13. u.request[p] = "none"
  <2>1. c.request \in [Port -> {"none", "address", "device", "config"}]
    BY <1>6, Fields DEF Core
  <2>. QED
    BY <1>7, <1>8, <2>1 DEF Stripping, Relinked
<1>14. ~Has(u.timers, "reset", p) /\ ~Has(u.timers, "address", p) /\ ~Has(u.timers, "peek", p)
  BY <1>12
<1>15. ~Held(u, p, pure)
  <2>1. u.driver[p] = None
    BY <1>3, <1>11, Fields
  <2>. QED
    BY <1>8, <2>1 DEF Held
<1>16. Turn(s, {}) => Turn(u, {})
  <2>1. \A q \in Port : Has(u.timers, "peek", q) => Has(s.timers, "peek", q)
    BY <1>12
  <2>. QED
    BY <1>11, <2>1 DEF Turn
<1>17. Core(u, {}, pure)
  <2>1. Stage(u, p) /\ (Held(u, p, pure) => Quiet(u, p))
    BY <1>13, <1>14, <1>15 DEF Stage
  <2>. QED
    BY <1>8, <2>1, CoreWhole
<1>18. CASE ~u.resetFlag[p]
  <2>1. t = u
    BY <1>1, <1>18
  <2>. QED
    BY <1>2, <1>8, <1>10, <1>11, <1>16, <1>17, <2>1 DEF Flushes
<1>19. CASE u.resetFlag[p]
  <2>1. t = CheckDelayedResets(u, p)
    BY <1>1, <1>19
  <2>2. Core(t, {}, pure) /\ Aside(u, t)
    BY <1>17, <2>1, CheckKeeps
  <2>3. t.driver = u.driver /\ SameLinks(u, t)
    BY <2>2 DEF Aside
  <2>4. (Whole(t) <=> Whole(u)) /\ \A q : OnList(t, q) <=> OnList(u, q)
    BY <2>3 DEF SameLinks, Whole, OnList
  <2>5. ASSUME Turn(s, {}) PROVE Turn(t, {})
    <3>1. Turn(u, {p})
      BY <1>16, <2>5 DEF Turn
    <3>2. u \in UsbType
      BY <1>17 DEF Core
    <3>. QED
      BY <1>11, <1>14, <1>19, <2>1, <3>1, <3>2, CheckTurn
  <2>. QED
    BY <1>2, <1>8, <1>10, <1>11, <2>2, <2>3, <2>4, <2>5 DEF Flushes
<1>. QED
  BY <1>18, <1>19

\* openDeviceEndpoint takes an endpoint that is free.
LEMMA OpenKeeps ==
  ASSUME NEW s, NEW p \in Port, NEW X, NEW pure, Core(s, X, pure), s.freeEps # {}
  PROVE  /\ Core(OpenEndpoint(s, p), X, pure)
         /\ SameLinks(s, OpenEndpoint(s, p)) /\ SameTurn(s, OpenEndpoint(s, p))
         /\ OpenEndpoint(s, p).timers = s.timers /\ OpenEndpoint(s, p).status = s.status
         /\ OpenEndpoint(s, p).request = s.request /\ OpenEndpoint(s, p).driver = s.driver
<1>1. s \in UsbType /\ Unique(s.timers) /\ Whose(s) /\ Chain(s) /\ Devices(s, X, pure)
  BY DEF Core
<1>2. s.eps \in [Port -> Seq(Ep)] /\ s.freeEps \in SUBSET Ep
  BY <1>1, Fields
<1>3. PICK e \in s.freeEps : e = CHOOSE x \in s.freeEps : TRUE
  OBVIOUS
<1>4. e \in Ep
  BY <1>2
<1>5. PICK q \in Seq(Ep) : q = Append(s.eps[p], e)
  <2>1. PICK l \in Seq(Ep), x \in Ep : l = s.eps[p] /\ x = e
    BY <1>2, <1>4
  <2>2. Append(l, x) \in Seq(Ep)
    OBVIOUS
  <2>. QED
    BY <2>1, <2>2
<1>6. PICK f \in [Port -> Seq(Ep)], g \in SUBSET Ep : f = [s.eps EXCEPT ![p] = q] /\ g = s.freeEps \ {e}
  BY <1>2
<1>7. PICK t : t = OpenEndpoint(s, p)
  OBVIOUS
<1>8. t = [s EXCEPT !.freeEps = g, !.eps = f]
  BY <1>3, <1>5, <1>6, <1>7 DEF OpenEndpoint
<1>9. t \in UsbType
  BY <1>1, <1>8 DEF UsbType
<1>10. /\ SameLinks(s, t) /\ SameTurn(s, t) /\ t.timers = s.timers /\ t.status = s.status
       /\ t.request = s.request /\ t.driver = s.driver /\ t.eps = f /\ t.freeEps = g
  BY <1>1, <1>8 DEF UsbType, SameLinks, SameTurn
<1>11. \A r \in Port : \A x : Owned(t, r, x) <=> Owned(s, r, x) \/ (r = p /\ x = e)
  <2>1. ASSUME NEW r \in Port, r # p PROVE t.eps[r] = s.eps[r]
    BY <1>2, <1>6, <1>10, <2>1
  <2>2. t.eps[p] = q
    BY <1>2, <1>6, <1>10
  <2>3. \A x : (\E i \in DOMAIN q : q[i] = x) <=> (\E i \in DOMAIN s.eps[p] : s.eps[p][i] = x) \/ x = e
    <3>1. PICK l \in Seq(Ep) : l = s.eps[p]
      BY <1>2
    <3>2. PICK n \in Nat : n = Len(l) /\ DOMAIN l = 1 .. n
      OBVIOUS
    <3>3. DOMAIN q = 1 .. (n + 1) /\ q[n + 1] = e /\ \A i \in 1 .. n : q[i] = l[i]
      BY <1>4, <1>5, <3>1, <3>2
    <3>4. \A i : i \in 1 .. (n + 1) <=> i \in 1 .. n \/ i = n + 1
      BY <3>2
    <3>. QED
      BY <3>1, <3>2, <3>3, <3>4
  <2>4. \A x : Owned(t, p, x) <=> Owned(s, p, x) \/ x = e
    BY <2>2, <2>3 DEF Owned
  <2>5. \A r \in Port : r # p => \A x : Owned(t, r, x) <=> Owned(s, r, x)
    BY <2>1 DEF Owned
  <2>. QED
    BY <2>4, <2>5
<1>12. Whose(t)
  <2>1. \A x : Dying(t, x) <=> Dying(s, x)
    BY <1>10 DEF Dying
  <2>2. \A x : x \in t.freeEps <=> x \in s.freeEps /\ x # e
    BY <1>6, <1>10
  <2>3. ~Dying(s, e) /\ \A r \in Port : ~Owned(s, r, e)
    BY <1>1 DEF Whose
  <2>. QED
    BY <1>1, <1>11, <2>1, <2>2, <2>3 DEF Whose
<1>13. Chain(t)
  BY <1>1, <1>10 DEF SameLinks, Chain, Ascends
<1>14. Devices(t, X, pure)
  <2>1. \A r \in Port : r \notin X => r \notin X /\ Alike(s, t, r, pure)
    BY <1>10 DEF Alike, Held, OnList, SameLinks
  <2>. QED
    BY <1>1, <2>1, DevicesKept
<1>15. Core(t, X, pure)
  BY <1>1, <1>9, <1>10, <1>12, <1>13, <1>14 DEF Core
<1>. QED
  BY <1>7, <1>10, <1>15

-----------------------------------------------------------------------------
(* A device is brought up                                                  *)

\* One field of one device.
WithStatus(s, p, x) == [s EXCEPT !.status[p] = x]
WithRequest(s, p, x) == [s EXCEPT !.request[p] = x]
WithTries(s, p, x) == [s EXCEPT !.tries[p] = x]
LEMMA StatusSet ==
  ASSUME NEW s \in UsbType, NEW p \in Port, NEW x \in Status,
         NEW t, t = WithStatus(s, p, x)
  PROVE  Elsewhere(s, t, p) /\ t.status[p] = x /\ t.request = s.request
<1>1. s.status \in [Port -> Status]
  BY Fields
<1>2. PICK f \in [Port -> Status] : f = [s.status EXCEPT ![p] = x]
  BY <1>1
<1>4. t = [s EXCEPT !.status = f]
  BY <1>2 DEF WithStatus
<1>5. t \in UsbType
  BY <1>4 DEF UsbType
<1>6. /\ SameLinks(s, t) /\ SameEps(s, t) /\ SameTurn(s, t)
      /\ t.timers = s.timers /\ t.driver = s.driver /\ t.request = s.request /\ t.status = f
  BY <1>4 DEF UsbType, SameLinks, SameEps, SameTurn
<1>. QED
  BY <1>1, <1>2, <1>5, <1>6 DEF Elsewhere

\* The same, for its request.
LEMMA RequestSet ==
  ASSUME NEW s \in UsbType, NEW p \in Port, NEW x \in {"none", "address", "device", "config"},
         NEW t, t = WithRequest(s, p, x)
  PROVE  Elsewhere(s, t, p) /\ t.request[p] = x /\ t.status = s.status
<1>1. s.request \in [Port -> {"none", "address", "device", "config"}]
  BY Fields
<1>2. PICK f \in [Port -> {"none", "address", "device", "config"}] : f = [s.request EXCEPT ![p] = x]
  BY <1>1
<1>4. t = [s EXCEPT !.request = f]
  BY <1>2 DEF WithRequest
<1>5. t \in UsbType
  BY <1>4 DEF UsbType
<1>6. /\ SameLinks(s, t) /\ SameEps(s, t) /\ SameTurn(s, t)
      /\ t.timers = s.timers /\ t.driver = s.driver /\ t.status = s.status /\ t.request = f
  BY <1>4 DEF UsbType, SameLinks, SameEps, SameTurn
<1>. QED
  BY <1>1, <1>2, <1>5, <1>6 DEF Elsewhere

\* The same, for its tries.
LEMMA TriesSet ==
  ASSUME NEW s \in UsbType, NEW p \in Port, NEW x \in 0 .. MaxTries,
         NEW t, t = WithTries(s, p, x)
  PROVE  Elsewhere(s, t, p) /\ t.status = s.status /\ t.request = s.request
<1>1. s.tries \in [Port -> 0 .. MaxTries]
  BY Fields
<1>2. PICK f \in [Port -> 0 .. MaxTries] : f = [s.tries EXCEPT ![p] = x]
  BY <1>1
<1>4. t = [s EXCEPT !.tries = f]
  BY <1>2 DEF WithTries
<1>5. t \in UsbType
  BY <1>4 DEF UsbType
<1>6. /\ SameLinks(s, t) /\ SameEps(s, t) /\ SameTurn(s, t)
      /\ t.timers = s.timers /\ t.driver = s.driver /\ t.request = s.request /\ t.status = s.status
  BY <1>4 DEF UsbType, SameLinks, SameEps, SameTurn
<1>. QED
  BY <1>5, <1>6 DEF Elsewhere

\* The turns are right when a device's new status does not ask for one it has not.
LEMMA ElsewhereTurn ==
  ASSUME NEW s, NEW t, NEW p, Elsewhere(s, t, p), Turn(s, {}), t.status[p] # "delayed",
         t.status[p] \in {"pending", "complete"} => s.resetFlag[p] = TRUE
  PROVE  Turn(t, {})
BY DEF Elsewhere, Turn, SameTurn

\* addTimerCallback, for a device that waits for nothing else.
StatusFor(cb) == CASE cb = "reset" -> "connected" [] cb = "address" -> "complete" [] cb = "peek" -> "ready"
LEMMA TimerGoes ==
  ASSUME NEW s, NEW p \in Port, NEW pure, Core(s, {p}, pure), Bare(s, p, pure),
         NEW cb \in {"reset", "address", "peek"}, NEW delay \in Nat, s.status[p] = StatusFor(cb)
  PROVE  /\ Core(AddTimer(s, cb, p, delay), {}, pure) /\ Timed(s, AddTimer(s, cb, p, delay))
         /\ Turn(s, {}) /\ (cb = "peek" => s.resetFlag[p] = TRUE) => Turn(AddTimer(s, cb, p, delay), {})
<1>1. PICK t : t = AddTimer(s, cb, p, delay)
  OBVIOUS
<1>2. /\ Core(t, {p}, pure) /\ Timed(s, t)
      /\ \A c, x : Has(t.timers, c, x) <=> Has(s.timers, c, x) \/ (c = cb /\ x = p)
  <2>1. ~Times(s.timers, p) /\ p \in {p}
    BY DEF Bare
  <2>. QED
    BY <1>1, <2>1, TimeKeeps
<1>3. ~Held(t, p, pure) /\ t.request[p] = "none" /\ t.status[p] = StatusFor(cb)
  BY <1>2 DEF Timed, Bare, Held, OnList, SameLinks
<1>4. /\ Has(t.timers, "reset", p) <=> cb = "reset"
      /\ Has(t.timers, "address", p) <=> cb = "address"
      /\ Has(t.timers, "peek", p) <=> cb = "peek"
  BY <1>2 DEF Bare, Times
<1>5. Core(t, {}, pure)
  <2>1. Stage(t, p)
    BY <1>3, <1>4 DEF Stage, StatusFor
  <2>. QED
    BY <1>2, <1>3, <2>1, CoreWhole
<1>6. ASSUME Turn(s, {}), cb = "peek" => s.resetFlag[p] = TRUE PROVE Turn(t, {})
  <2>1. t.status = s.status /\ t.resetFlag = s.resetFlag /\ t.delayResets = s.delayResets
    BY <1>2 DEF Timed, SameTurn
  <2>2. \A q \in Port : Has(t.timers, "peek", q) => Has(s.timers, "peek", q) \/ s.resetFlag[q] = TRUE
    BY <1>2, <1>6
  <2>. QED
    BY <1>6, <2>1, <2>2 DEF Turn
<1>. QED
  BY <1>1, <1>2, <1>5, <1>6

\* What most steps do: the devices stay in order, the list and the drivers the same.
Goes(s, t, pure) ==
  /\ Core(t, {}, pure) /\ SameLinks(s, t) /\ t.driver = s.driver /\ (Turn(s, {}) => Turn(t, {}))

\* handleRhsc, once a device that left is gone.
LEMMA ArrivedGoes ==
  ASSUME NEW s, NEW p \in Port, NEW pure, Core(s, {}, pure), NEW seen
  PROVE  Goes(s, Arrived(s, p, seen), pure)
<1>1. PICK t : t = Arrived(s, p, seen)
  OBVIOUS
<1>2. s \in UsbType
  BY DEF Core
<1>3. {ResetDelay, AddressDelay} \subseteq Nat /\ MaxTries \in Nat
  BY PortsAssumption
<1>4. CASE t = s
  BY <1>1, <1>4 DEF Goes, SameLinks
<1>5. CASE "plugged" \in seen /\ s.status[p] = "notconnected"
  <2>1. PICK c : c = WithStatus(s, p, "connected")
    OBVIOUS
  <2>2. t = AddTimer(c, "reset", p, ResetDelay)
    BY <1>1, <1>5, <2>1 DEF Arrived, WithStatus
  <2>3. Elsewhere(s, c, p) /\ c.status[p] = "connected" /\ c.request = s.request
    <3>1. "connected" \in Status
      BY DEF Status
    <3>. QED
      BY <1>2, <2>1, <3>1, StatusSet
  <2>4. Core(c, {} \cup {p}, pure) /\ \A q : Held(c, q, pure) <=> Held(s, q, pure)
    BY <2>3, ElsewhereKeeps
  <2>5. Bare(s, p, pure)
    BY <1>5, DelayedIs
  <2>6. Bare(c, p, pure)
    BY <2>3, <2>4, <2>5 DEF Bare, Elsewhere
  <2>7. Core(c, {p}, pure) /\ c.status[p] = StatusFor("reset")
    BY <2>3, <2>4 DEF StatusFor
  <2>8. /\ Core(t, {}, pure) /\ Timed(c, t)
        /\ Turn(c, {}) => Turn(t, {})
    BY <1>3, <2>2, <2>6, <2>7, TimerGoes
  <2>9. Turn(s, {}) => Turn(c, {})
    BY <2>3, ElsewhereTurn
  <2>. QED
    BY <1>1, <2>3, <2>8, <2>9 DEF Goes, Elsewhere, Timed, SameLinks
<1>6. CASE "plugged" \in seen /\ s.status[p] = "pending" /\ p \notin s.resetting
  <2>1. PICK c : c = WithStatus(s, p, "complete")
    OBVIOUS
  <2>3. Elsewhere(s, c, p) /\ c.status[p] = "complete" /\ c.request = s.request
    <3>1. "complete" \in Status
      BY DEF Status
    <3>. QED
      BY <1>2, <2>1, <3>1, StatusSet
  <2>4. Core(c, {} \cup {p}, pure) /\ \A q : Held(c, q, pure) <=> Held(s, q, pure)
    BY <2>3, ElsewhereKeeps
  <2>5. Bare(s, p, pure)
    BY <1>6, DelayedIs
  <2>6. Bare(c, p, pure)
    BY <2>3, <2>4, <2>5 DEF Bare, Elsewhere
  <2>7. Turn(s, {}) => Turn(c, {})
    <3>1. Turn(s, {}) => s.resetFlag[p] = TRUE
      BY <1>6 DEF Turn
    <3>. QED
      BY <2>3, <3>1, ElsewhereTurn
  <2>8. c \in UsbType /\ Core(c, {p}, pure)
    BY <2>4 DEF Core
  <2>9. CASE s.freeEps = {}
    <3>1. t = c
      BY <1>1, <1>6, <2>1, <2>9 DEF Arrived, WithStatus
    <3>2. Stage(c, p) /\ ~Held(c, p, pure)
      BY <2>6 DEF Stage, Bare, Times
    <3>3. Core(c, {}, pure)
      BY <2>8, <3>2, CoreWhole
    <3>. QED
      BY <1>1, <2>3, <2>7, <3>1, <3>3 DEF Goes, Elsewhere
  <2>10. CASE s.freeEps # {}
    <3>1. PICK o, r : o = OpenEndpoint(c, p) /\ r = WithTries(o, p, 0)
      OBVIOUS
    <3>2. t = AddTimer(r, "address", p, AddressDelay)
      BY <1>1, <1>6, <2>1, <2>10, <3>1 DEF Arrived, WithStatus, WithTries
    <3>3. c.freeEps # {}
      BY <2>3, <2>10 DEF Elsewhere, SameEps
    <3>4. /\ Core(o, {p}, pure) /\ SameLinks(c, o) /\ SameTurn(c, o) /\ o.timers = c.timers
          /\ o.status = c.status /\ o.request = c.request /\ o.driver = c.driver
      BY <2>8, <3>1, <3>3, OpenKeeps
    <3>5. Elsewhere(o, r, p) /\ r.status = o.status /\ r.request = o.request
      <4>1. o \in UsbType /\ 0 \in 0 .. MaxTries
        BY <1>3, <3>4 DEF Core
      <4>. QED
        BY <3>1, <4>1, TriesSet
    <3>6. Core(r, {p} \cup {p}, pure) /\ \A q : Held(r, q, pure) <=> Held(o, q, pure)
      BY <3>4, <3>5, ElsewhereKeeps
    <3>7. Core(r, {p}, pure) /\ r.status[p] = StatusFor("address")
      <4>1. {p} \cup {p} = {p}
        OBVIOUS
      <4>2. r.status[p] = StatusFor("address")
        BY <2>3, <3>4, <3>5 DEF StatusFor
      <4>. QED
        BY <3>6, <4>1, <4>2
    <3>8. Bare(r, p, pure)
      BY <2>6, <3>4, <3>5, <3>6 DEF Bare, Elsewhere, Held, OnList, SameLinks
    <3>9. Core(t, {}, pure) /\ Timed(r, t) /\ (Turn(r, {}) => Turn(t, {}))
      BY <1>3, <3>2, <3>7, <3>8, TimerGoes
    <3>10. Turn(c, {}) => Turn(r, {})
      BY <3>4, <3>5 DEF Turn, SameTurn, Elsewhere
    <3>. QED
      BY <1>1, <2>3, <2>7, <3>4, <3>5, <3>9, <3>10 DEF Goes, Elsewhere, Timed, SameLinks
  <2>. QED
    BY <2>9, <2>10
<1>. QED
  BY <1>1, <1>4, <1>5, <1>6 DEF Arrived

-----------------------------------------------------------------------------
(* A frame                                                                 *)

\* The first timer is taken off the list.
LEMMA PopIs ==
  ASSUME NEW T \in Seq(Timer), Unique(T), T # <<>>
  PROVE  /\ Tail(T) \in Seq(Timer) /\ Unique(Tail(T)) /\ Head(T) \in Timer /\ Has(T, Head(T).cb, Head(T).of)
         /\ \A c, x : Has(Tail(T), c, x) <=>
              Has(T, c, x) /\ ~(x = Head(T).of /\ (c = "kill" <=> Head(T).cb = "kill"))
<1>0. PICK n \in Nat \ {0} : n = Len(T) /\ DOMAIN T = 1 .. n
  OBVIOUS
<1>1. 1 \in DOMAIN T /\ Head(T) = T[1] /\ T[1] \in Timer
  BY <1>0
<1>3. PICK U : U = Tail(T)
  OBVIOUS
<1>2. U = [i \in 1 .. (Len(T) - 1) |-> IF i < 1 THEN T[i] ELSE T[i + 1]]
  <2>1. U \in Seq(Timer) /\ Len(U) = n - 1
    BY <1>0, <1>3
  <2>2. DOMAIN U = 1 .. (n - 1) /\ U = [i \in 1 .. (n - 1) |-> U[i]]
    BY <2>1
  <2>3. \A i \in 1 .. (n - 1) : U[i] = T[i + 1] /\ ~(i < 1)
    BY <1>0, <1>3, <2>1
  <2>4. U = [i \in 1 .. (n - 1) |-> IF i < 1 THEN T[i] ELSE T[i + 1]]
    BY <2>2, <2>3
  <2>. QED
    BY <1>0, <2>4
<1>4. /\ U \in Seq(Timer) /\ Unique(U)
      /\ \A c, x : Has(U, c, x) <=> Has(T, c, x) /\ ~(x = T[1].of /\ (c = "kill" <=> T[1].cb = "kill"))
  BY <1>1, <1>2, Removed
<1>5. Has(T, T[1].cb, T[1].of)
  BY <1>1 DEF Has
<1>. QED
  BY <1>1, <1>3, <1>4, <1>5

\* handleTimerList calls the function of the first timer.
LEMMA FireGoes ==
  ASSUME NEW s, NEW pure, Core(s, {}, pure), s.timers # <<>>
  PROVE  Goes(s, FireFirst(s), pure)
<1>1. s \in UsbType /\ Unique(s.timers) /\ Whose(s) /\ Chain(s) /\ Devices(s, {}, pure)
  BY DEF Core
<1>2. PICK T \in Seq(Timer), h \in Timer, U \in Seq(Timer) : T = s.timers /\ h = Head(T) /\ U = Tail(T)
  BY <1>1, PopIs, Fields
<1>3. /\ Unique(U) /\ Has(T, h.cb, h.of)
      /\ \A c, x : Has(U, c, x) <=> Has(T, c, x) /\ ~(x = h.of /\ (c = "kill" <=> h.cb = "kill"))
  BY <1>1, <1>2, PopIs
<1>4. PICK r \in UsbType : r = Retimed(s, U)
  BY <1>1, RetimedIs
<1>5. PICK t : t = FireFirst(s)
  OBVIOUS
<1>6. t = Fired(r, h)
  BY <1>2, <1>4, <1>5 DEF FireFirst, Retimed
<1>7. /\ SameLinks(s, r) /\ SameEps(s, r) /\ SameTurn(s, r) /\ r.timers = U
      /\ r.status = s.status /\ r.request = s.request /\ r.driver = s.driver
  BY <1>1, <1>4, RetimedIs
<1>8. Chain(r) /\ \A q : Held(r, q, pure) <=> Held(s, q, pure)
  BY <1>1, <1>7 DEF SameLinks, Chain, Ascends, Held, OnList
<1>9. CASE h.cb = "kill"
  <2>1. PICK e \in Ep : e = h.of
    BY <1>9, TimerIs
  <2>2. PICK g \in SUBSET Ep : g = r.freeEps \cup {e}
    BY Fields
  <2>3. t = [r EXCEPT !.freeEps = g]
    BY <1>6, <1>9, <2>1, <2>2 DEF Fired
  <2>4. t \in UsbType
    BY <2>3 DEF UsbType
  <2>5. /\ SameLinks(r, t) /\ SameTurn(r, t) /\ t.eps = r.eps /\ t.freeEps = g /\ t.timers = U
        /\ t.status = r.status /\ t.request = r.request /\ t.driver = r.driver
    BY <1>7, <2>3 DEF UsbType, SameLinks, SameTurn
  <2>6. \A x : Dying(t, x) <=> Dying(s, x) /\ x # e
    BY <1>2, <1>3, <1>9, <2>1, <2>5 DEF Dying
  <2>7. Dying(s, e)
    BY <1>2, <1>3, <1>9, <2>1 DEF Dying
  <2>8. \A q, x : Owned(t, q, x) <=> Owned(s, q, x)
    BY <1>7, <2>5 DEF Owned, SameEps
  <2>9. Whose(t)
    <3>1. \A x : x \in t.freeEps <=> x \in s.freeEps \/ x = e
      BY <1>7, <2>2, <2>5 DEF SameEps
    <3>. QED
      BY <1>1, <2>6, <2>7, <2>8, <3>1 DEF Whose
  <2>10. \A c, x : c # "kill" => (Has(t.timers, c, x) <=> Has(s.timers, c, x))
    BY <1>2, <1>3, <1>9, <2>5
  <2>11. Chain(t) /\ \A q : Held(t, q, pure) <=> Held(s, q, pure)
    BY <1>1, <1>7, <2>5 DEF SameLinks, Chain, Ascends, Held, OnList
  <2>12. Devices(t, {}, pure)
    <3>1. \A q \in Port : q \notin {} => q \notin {} /\ Alike(s, t, q, pure)
      BY <1>7, <2>5, <2>10, <2>11 DEF Alike
    <3>. QED
      BY <1>1, <3>1, DevicesKept
  <2>13. Core(t, {}, pure)
    BY <1>3, <2>4, <2>5, <2>9, <2>11, <2>12 DEF Core
  <2>14. Turn(s, {}) => Turn(t, {})
    BY <1>7, <2>5, <2>10 DEF Turn, SameTurn
  <2>. QED
    BY <1>5, <1>7, <2>5, <2>13, <2>14 DEF Goes, SameLinks
<1>10. CASE h.cb # "kill"
  <2>1. PICK p \in Port : p = h.of
    BY <1>10, TimerIs
  <2>2. h.cb \in {"reset", "address", "peek"}
    BY <1>10, TimerIs
  <2>3. \A c, x : Has(U, c, x) <=> Has(T, c, x) /\ ~(x = p /\ c # "kill")
    BY <1>3, <1>10, <2>1
  <2>4. Times(s.timers, p)
    BY <1>2, <1>3, <2>1, <2>2 DEF Times
  <2>5. Stage(s, p) /\ (Held(s, p, pure) => Quiet(s, p))
    BY <1>1 DEF Devices
  <2>6. s.request[p] = "none" /\ ~Held(s, p, pure)
    BY <2>4, <2>5 DEF Stage, Quiet
  <2>7. Bare(r, p, pure)
    <3>1. ~Times(U, p)
      BY <2>3 DEF Times
    <3>. QED
      BY <1>7, <1>8, <2>6, <3>1 DEF Bare
  <2>8. Core(r, {p}, pure)
    <3>1. \A x : Dying(r, x) <=> Dying(s, x)
      BY <1>2, <1>7, <2>3 DEF Dying
    <3>2. Whose(r)
      BY <1>1, <1>7, <3>1 DEF Whose, Owned, SameEps
    <3>3. \A q \in Port : q \notin {p} => q \notin {} /\ Alike(s, r, q, pure)
      BY <1>2, <1>7, <1>8, <2>3 DEF Alike
    <3>4. Devices(r, {p}, pure)
      BY <1>1, <3>3, DevicesKept
    <3>. QED
      BY <1>3, <1>7, <1>8, <3>2, <3>4 DEF Core
  <2>9. Turn(s, {}) => Turn(r, {})
    <3>1. \A q : Has(r.timers, "peek", q) => Has(s.timers, "peek", q)
      BY <1>2, <1>7, <2>3
    <3>. QED
      BY <1>7, <3>1 DEF Turn, SameTurn
  <2>10. CASE h.cb = "reset"
    <3>1. t = ResetDevice(r, p)
      BY <1>6, <2>1, <2>10 DEF Fired
    <3>2. Core(t, {}, pure) /\ Aside(r, t) /\ (Turn(r, {p}) => Turn(t, {}))
      <4>1. {p} \in SUBSET {p}
        OBVIOUS
      <4>. QED
        BY <2>7, <2>8, <3>1, <4>1, ResetKeeps
    <3>3. Turn(r, {}) => Turn(r, {p})
      BY DEF Turn
    <3>. QED
      BY <1>5, <1>7, <2>9, <3>2, <3>3 DEF Goes, Aside, SameLinks
  <2>11. CASE h.cb = "address"
    <3>1. t = WithRequest(r, p, "address")
      BY <1>6, <2>1, <2>11 DEF Fired, WithRequest
    <3>2. Elsewhere(r, t, p) /\ t.request[p] = "address" /\ t.status = r.status
      BY <3>1, RequestSet
    <3>3. Core(t, {p} \cup {p}, pure) /\ \A q : Held(t, q, pure) <=> Held(r, q, pure)
      BY <2>8, <3>2, ElsewhereKeeps
    <3>4. t.status[p] = "complete" /\ t.timers = r.timers
      BY <1>2, <1>3, <1>7, <2>1, <2>5, <2>11, <3>2 DEF Stage, Elsewhere
    <3>5. Stage(t, p) /\ ~Held(t, p, pure)
      BY <2>7, <3>2, <3>3, <3>4 DEF Stage, Bare, Times
    <3>6. Core(t, {}, pure)
      <4>1. {p} \cup {p} = {p}
        OBVIOUS
      <4>. QED
        BY <3>3, <3>5, <4>1, CoreWhole
    <3>7. Turn(r, {}) => Turn(t, {})
      BY <3>2 DEF Turn, Elsewhere, SameTurn
    <3>. QED
      BY <1>5, <1>7, <2>9, <3>2, <3>6, <3>7 DEF Goes, Elsewhere, SameLinks
  <2>12. CASE h.cb = "peek"
    <3>0. PICK c : c = WithRequest(r, p, "device")
      OBVIOUS
    <3>1. t = CheckDelayedResets(c, p)
      BY <1>6, <2>1, <2>12, <3>0 DEF Fired, WithRequest
    <3>2. Elsewhere(r, c, p) /\ c.request[p] = "device" /\ c.status = r.status
      BY <3>0, RequestSet
    <3>3. Core(c, {p} \cup {p}, pure) /\ \A q : Held(c, q, pure) <=> Held(r, q, pure)
      BY <2>8, <3>2, ElsewhereKeeps
    <3>4. c.status[p] = "ready" /\ c.timers = r.timers
      BY <1>2, <1>3, <1>7, <2>1, <2>5, <2>12, <3>2 DEF Stage, Elsewhere
    <3>5. Stage(c, p) /\ ~Held(c, p, pure)
      BY <2>7, <3>2, <3>3, <3>4 DEF Stage, Bare, Times
    <3>6. Core(c, {}, pure)
      <4>1. {p} \cup {p} = {p}
        OBVIOUS
      <4>. QED
        BY <3>3, <3>5, <4>1, CoreWhole
    <3>7. Core(t, {}, pure) /\ Aside(c, t)
      BY <3>1, <3>6, CheckKeeps
    <3>8. ASSUME Turn(s, {}) PROVE Turn(t, {})
      <4>1. c.resetFlag[p] = TRUE
        BY <1>2, <1>3, <1>7, <2>1, <2>12, <3>2, <3>8 DEF Turn, SameTurn, Elsewhere
      <4>2. Turn(c, {p})
        BY <2>9, <3>2, <3>8 DEF Turn, Elsewhere, SameTurn
      <4>3. ~Has(c.timers, "peek", p)
        BY <2>7, <3>4 DEF Bare, Times
      <4>4. c \in UsbType
        BY <3>6 DEF Core
      <4>. QED
        BY <3>1, <3>4, <4>1, <4>2, <4>3, <4>4, CheckTurn
    <3>. QED
      BY <1>5, <1>7, <3>2, <3>7, <3>8 DEF Goes, Elsewhere, Aside, SameLinks
  <2>. QED
    BY <2>2, <2>10, <2>11, <2>12
<1>. QED
  BY <1>9, <1>10

\* One timer after the other, as long as one is due: the recursive function exists.
FiresInOrder(s, n, f) ==
  /\ f[0] = s
  /\ \A k \in 1 .. n : f[k] = IF Due(f[k - 1]) THEN FireFirst(f[k - 1]) ELSE f[k - 1]
  /\ FireAll(s) = f[n]
LEMMA FiredInOrder ==
  ASSUME NEW s, NEW n \in Nat, n = Len(s.timers)
  PROVE  \E f : FiresInOrder(s, n, f)
<1>. DEFINE S == {k \in Nat : \E g : g = [j \in 0 .. k |-> IF j = 0 THEN s ELSE IF Due(g[j - 1]) THEN FireFirst(g[j - 1]) ELSE g[j - 1]]}
<1>1. 0 \in S
  <2>. DEFINE g == [j \in 0 .. 0 |-> s]
  <2>1. g = [j \in 0 .. 0 |-> IF j = 0 THEN s ELSE IF Due(g[j - 1]) THEN FireFirst(g[j - 1]) ELSE g[j - 1]]
    OBVIOUS
  <2>. QED
    BY <2>1
<1>2. ASSUME NEW k \in Nat, k \in S PROVE k + 1 \in S
  <2>1. PICK g : g = [j \in 0 .. k |-> IF j = 0 THEN s ELSE IF Due(g[j - 1]) THEN FireFirst(g[j - 1]) ELSE g[j - 1]]
    BY <1>2
  <2>. DEFINE h == [j \in 0 .. (k + 1) |-> IF j = k + 1 THEN (IF Due(g[k]) THEN FireFirst(g[k]) ELSE g[k]) ELSE g[j]]
  <2>2. ASSUME NEW j \in 0 .. (k + 1)
        PROVE  h[j] = IF j = 0 THEN s ELSE IF Due(h[j - 1]) THEN FireFirst(h[j - 1]) ELSE h[j - 1]
    <3>1. CASE j = k + 1
      <4>1. j # 0 /\ j - 1 = k /\ k \in 0 .. (k + 1) /\ k # k + 1
        BY <3>1
      <4>2. h[k] = g[k] /\ h[j] = (IF Due(g[k]) THEN FireFirst(g[k]) ELSE g[k])
        BY <3>1, <4>1
      <4>. QED
        BY <3>1, <4>1, <4>2
    <3>2. CASE j # k + 1
      <4>1. j \in 0 .. k /\ h[j] = g[j]
        BY <3>2
      <4>2. g[j] = IF j = 0 THEN s ELSE IF Due(g[j - 1]) THEN FireFirst(g[j - 1]) ELSE g[j - 1]
        BY <4>1, <2>1
      <4>3. j # 0 => h[j - 1] = g[j - 1]
        BY <4>1
      <4>. QED
        BY <4>1, <4>2, <4>3
    <3>. QED
      BY <3>1, <3>2
  <2>3. h = [j \in 0 .. (k + 1) |-> h[j]]
    OBVIOUS
  <2>. HIDE DEF h
  <2>4. h = [j \in 0 .. (k + 1) |-> IF j = 0 THEN s ELSE IF Due(h[j - 1]) THEN FireFirst(h[j - 1]) ELSE h[j - 1]]
    BY <2>2, <2>3
  <2>5. k + 1 \in Nat
    OBVIOUS
  <2>. QED
    BY <2>4, <2>5
<1>3. n \in S
  <2>. HIDE DEF S
  <2>1. S \in SUBSET Nat
    BY DEF S
  <2>. QED
    BY <1>1, <1>2, <2>1, Induction
<1>4. PICK g : g = CHOOSE h : h = [j \in 0 .. n |-> IF j = 0 THEN s ELSE IF Due(h[j - 1]) THEN FireFirst(h[j - 1]) ELSE h[j - 1]]
  OBVIOUS
<1>5. g = [j \in 0 .. n |-> IF j = 0 THEN s ELSE IF Due(g[j - 1]) THEN FireFirst(g[j - 1]) ELSE g[j - 1]]
  BY <1>3, <1>4
<1>6. FireAll(s) = g[n]
  BY <1>4 DEF FireAll
<1>7. g[0] = s
  BY <1>5
<1>8. ASSUME NEW j \in 1 .. n PROVE g[j] = IF Due(g[j - 1]) THEN FireFirst(g[j - 1]) ELSE g[j - 1]
  <2>1. j \in 0 .. n /\ j # 0
    OBVIOUS
  <2>. QED
    BY <1>5, <2>1
<1>9. FiresInOrder(s, n, g)
  BY <1>6, <1>7, <1>8, Zenon DEF FiresInOrder
<1>. QED
  BY <1>9

\* handleTimerList.
LEMMA FireAllGoes ==
  ASSUME NEW s, NEW pure, Core(s, {}, pure)
  PROVE  Goes(s, FireAll(s), pure)
<1>1. PICK n \in Nat : n = Len(s.timers)
  BY Fields DEF Core
<1>0. PICK f : FiresInOrder(s, n, f)
  BY <1>1, FiredInOrder, Zenon
<1>2. /\ f[0] = s
      /\ \A k \in 1 .. n : f[k] = IF Due(f[k - 1]) THEN FireFirst(f[k - 1]) ELSE f[k - 1]
      /\ FireAll(s) = f[n]
  BY <1>0, Zenon DEF FiresInOrder
<1>. DEFINE S == {k \in Nat : k <= n => Goes(s, f[k], pure)}
<1>3. 0 \in S
  BY <1>2 DEF Goes, SameLinks
<1>4. ASSUME NEW k \in Nat, k \in S PROVE k + 1 \in S
  <2>1. SUFFICES ASSUME k + 1 <= n PROVE Goes(s, f[k + 1], pure)
    OBVIOUS
  <2>2. PICK r : r = f[k]
    OBVIOUS
  <2>3. Goes(s, r, pure)
    BY <1>4, <2>1, <2>2
  <2>4. f[k + 1] = IF Due(r) THEN FireFirst(r) ELSE r
    <3>1. k + 1 \in 1 .. n /\ (k + 1) - 1 = k
      BY <2>1
    <3>. QED
      BY <1>2, <2>2, <3>1
  <2>5. CASE ~Due(r)
    BY <2>3, <2>4, <2>5
  <2>6. CASE Due(r)
    <3>1. r.timers # <<>> /\ Core(r, {}, pure)
      BY <2>3, <2>6 DEF Due, Goes
    <3>2. Goes(r, FireFirst(r), pure)
      BY <3>1, FireGoes
    <3>3. Goes(s, FireFirst(r), pure)
      BY <2>3, <3>2 DEF Goes, SameLinks
    <3>. QED
      BY <2>4, <2>6, <3>3
  <2>. QED
    BY <2>5, <2>6
<1>5. S = Nat
  <2>. HIDE DEF S
  <2>1. S \in SUBSET Nat
    BY DEF S
  <2>. QED
    BY <1>3, <1>4, <2>1, Induction
<1>6. Goes(s, f[n], pure)
  BY <1>5
<1>. QED
  BY <1>2, <1>6

\* A new frame: the first timer counts down, then handleTimerList.
LEMMA FrameGoes ==
  ASSUME NEW s, NEW pure, Core(s, {}, pure), s.timers # <<>>
  PROVE  Goes(s, FireAll(IF s.timers[1].left > 0 THEN [s EXCEPT !.timers[1].left = @ - 1] ELSE s), pure)
<1>1. CASE ~(s.timers[1].left > 0)
  BY <1>1, FireAllGoes
<1>2. CASE s.timers[1].left > 0
  <2>1. s \in UsbType /\ Unique(s.timers) /\ Whose(s) /\ Chain(s) /\ Devices(s, {}, pure)
    BY DEF Core
  <2>2. PICK T \in Seq(Timer) : T = s.timers /\ T # <<>> /\ T[1].left > 0
    BY <1>2, <2>1, Fields
  <2>3. 1 \in DOMAIN T /\ T[1] \in Timer
    BY <2>2
  <2>4. PICK m \in Nat : m = T[1].left - 1
    <3>1. T[1].left \in Nat
      BY <2>3, TimerIs
    <3>. QED
      BY <2>2, <3>1
  <2>5. PICK u \in Timer : u = [T[1] EXCEPT !.left = m] /\ u.cb = T[1].cb /\ u.of = T[1].of
    BY <2>3, TimerIs
  <2>6. PICK U \in Seq(Timer) : U = [T EXCEPT ![1] = u]
    <3>1. PICK n \in Nat : DOMAIN T = 1 .. n /\ \A i \in 1 .. n : T[i] \in Timer
      OBVIOUS
    <3>2. PICK U : U = [T EXCEPT ![1] = u]
      OBVIOUS
    <3>3. DOMAIN U = 1 .. n /\ U = [i \in 1 .. n |-> U[i]] /\ \A i \in 1 .. n : U[i] = IF i = 1 THEN u ELSE T[i]
      BY <3>1, <3>2
    <3>4. \A i \in 1 .. n : U[i] \in Timer
      BY <3>1, <3>3
    <3>5. U \in Seq(Timer)
      BY <3>3, <3>4
    <3>. QED
      BY <3>2, <3>5
  <2>7. PICK d : d = [s EXCEPT !.timers[1].left = @ - 1]
    OBVIOUS
  <2>8. d = Retimed(s, U)
    BY <2>2, <2>4, <2>5, <2>6, <2>7 DEF Retimed
  <2>9. /\ d \in UsbType /\ d.timers = U /\ SameLinks(s, d) /\ SameEps(s, d) /\ SameTurn(s, d)
        /\ d.status = s.status /\ d.request = s.request /\ d.driver = s.driver
    BY <2>1, <2>8, RetimedIs
  <2>10. DOMAIN U = DOMAIN T /\ \A i \in DOMAIN T : U[i].cb = T[i].cb /\ U[i].of = T[i].of
    BY <2>3, <2>5, <2>6
  <2>11. Unique(U) /\ \A c, x : Has(U, c, x) <=> Has(T, c, x)
    BY <2>1, <2>2, <2>10 DEF Unique, Has
  <2>12. Core(d, {}, pure)
    <3>1. Chain(d) /\ \A q : Held(d, q, pure) <=> Held(s, q, pure)
      BY <2>1, <2>9 DEF SameLinks, Chain, Ascends, Held, OnList
    <3>2. Whose(d)
      BY <2>1, <2>2, <2>9, <2>11 DEF Whose, Dying, Owned, SameEps
    <3>3. \A q \in Port : q \notin {} => q \notin {} /\ Alike(s, d, q, pure)
      BY <2>2, <2>9, <2>11, <3>1 DEF Alike
    <3>4. Devices(d, {}, pure)
      BY <2>1, <3>3, DevicesKept
    <3>. QED
      BY <2>9, <2>11, <3>1, <3>2, <3>4 DEF Core
  <2>13. Turn(s, {}) => Turn(d, {})
    BY <2>2, <2>9, <2>11 DEF Turn, SameTurn
  <2>14. Goes(d, FireAll(d), pure)
    BY <2>12, FireAllGoes
  <2>15. Goes(s, FireAll(d), pure)
    BY <2>9, <2>13, <2>14 DEF Goes, SameLinks
  <2>. QED
    BY <1>2, <2>7, <2>15
<1>. QED
  BY <1>1, <1>2

-----------------------------------------------------------------------------
(* The invariant                                                           *)

\* What is outside, and what was counted.
Outside ==
  /\ plug \in [Port -> Kind \cup {None}] /\ plugs \in 0 .. MaxPlugs
  /\ change \in [Port -> SUBSET {"connection", "reset"}]
  /\ lock \in {None, "irq", "reg"} /\ calls \in [Port -> Nat] /\ slips \subseteq {"mixed", "torn", "stolen"}

\* Where the threads are, and who holds the semaphore.
Threads ==
  /\ irq \in [pc : {"idle", "rhsc", "disconnect", "after", "offer", "probe", "connect"},
              port : 0 .. NumPorts, drv : 0 .. 2, seen : SUBSET {"plugged", "connection", "reset"}]
  /\ reg \in [pc : {"start", "list", "probe", "connect", "done"}, cur : {0} \cup Port]
  /\ irq.pc # "idle" => irq.port \in Port
  /\ lock = "irq" <=> irq.pc \in {"rhsc", "offer"}
  /\ lock = "reg" <=> reg.pc = "list"
  /\ reg.pc \in {"probe", "connect"} => reg.cur \in Port
  /\ drivers = IF reg.pc = "start" THEN <<Hub>> ELSE <<Hub, Late>>
  /\ irq.pc = "offer" => irq.drv # 0
  /\ irq.pc = "probe" => irq.drv = 1 \/ (irq.drv = 2 /\ reg.pc # "start")

\* The device whose disconnect callback runs.
Window == IF irq.pc = "disconnect" THEN {irq.port} ELSE {}
Pure == "mixed" \notin slips

\* Until threads are mixed: neither offers a device that is not on the list or has a driver.
Apart ==
  /\ irq.pc \in {"offer", "probe", "connect", "disconnect"} => reg.pc \in {"start", "done"}
  /\ irq.pc \in {"offer", "probe"} => usb.driver[irq.port] = None /\ OnList(usb, irq.port)
  /\ reg.pc \in {"list", "probe"} /\ reg.cur # 0 => OnList(usb, reg.cur)
  /\ reg.pc = "connect" => OnList(usb, reg.cur)
  /\ reg.pc = "probe" => usb.driver[reg.cur] = None
  /\ \A p \in Port : calls[p] = IF usb.driver[p] = None \/ p \in Window THEN 0 ELSE 1
  /\ "torn" \notin slips => \A p \in Port : usb.driver[p] # None => OnList(usb, p)

\* The devices, the list and the turns, as far as nothing happened that the code does not allow for.
Ports ==
  /\ Core(usb, Window, Pure)
  /\ \A p \in Window : usb.status[p] = "notconnected"
  /\ "torn" \notin slips => Whole(usb) /\ \A p \in Window : OnList(usb, p)
  /\ "stolen" \notin slips => Turn(usb, {})

IInv == Outside /\ Threads /\ Ports /\ (Pure => Apart)

\* A step of the devices only, while no thread is with a device.
LEMMA GoesHolds ==
  ASSUME IInv, irq.pc \in {"idle", "rhsc"}, irq'.pc \in {"idle", "rhsc"}, slips \subseteq slips',
         Core(usb', {}, Pure), SameLinks(usb, usb'), usb'.driver = usb.driver, reg' = reg,
         Pure => \A q \in Port : calls'[q] = calls[q],
         "stolen" \notin slips' /\ Turn(usb, {}) => Turn(usb', {})
  PROVE  Ports' /\ (Pure => Apart)'
<1>1. Window = {} /\ Window' = {}
  BY DEF Window
<1>2. Pure' => Pure
  BY DEF Pure
<1>3. Core(usb', {}, Pure')
  <2>1. {} \subseteq {}
    OBVIOUS
  <2>. QED
    BY <1>2, <2>1, CoreLess
<1>4. \A q : OnList(usb', q) <=> OnList(usb, q)
  BY DEF SameLinks, OnList
<1>5. "torn" \notin slips' => Whole(usb')
  BY <1>4 DEF IInv, Ports, Whole, SameLinks
<1>6. "stolen" \notin slips' => Turn(usb', {})
  BY DEF IInv, Ports
<1>7. Ports'
  BY <1>1, <1>3, <1>5, <1>6 DEF Ports
<1>8. ASSUME Pure' PROVE Apart'
  <2>1. Apart /\ \A q \in Port : calls'[q] = calls[q]
    BY <1>2, <1>8 DEF IInv
  <2>. QED
    BY <1>1, <1>4, <2>1 DEF Apart
<1>. QED
  BY <1>7, <1>8

\* The devices stay as they are while a thread moves on.
LEMMA StaysHolds ==
  ASSUME IInv, usb' = usb, Window' = Window, slips \subseteq slips'
  PROVE  Ports'
<1>1. Pure' => Pure
  BY DEF Pure
<1>2. Core(usb, Window, Pure')
  <2>1. Window \subseteq Window
    OBVIOUS
  <2>. QED
    BY <1>1, <2>1, CoreLess DEF IInv, Ports
<1>. QED
  BY <1>2 DEF IInv, Ports

\* Slip only adds.
LEMMA SlipAdds ==
  ASSUME NEW m, NEW t, NEW s, Slip(m, t, s), slips \subseteq {"mixed", "torn", "stolen"}
  PROVE  /\ slips \subseteq slips' /\ slips' \subseteq {"mixed", "torn", "stolen"}
         /\ "mixed" \in slips' <=> "mixed" \in slips \/ m
         /\ "torn" \in slips' <=> "torn" \in slips \/ t
         /\ "stolen" \in slips' <=> "stolen" \in slips \/ s
BY DEF Slip

\* At the start nothing is there.
LEMMA InitHolds == Init => IInv
<1>. SUFFICES ASSUME Init PROVE IInv
  OBVIOUS
<1>. USE DEF Init
<1>1. NumPorts \in Nat /\ MaxPlugs \in Nat /\ MaxTries \in Nat
  BY PortsAssumption
<1>2. Outside
  BY <1>1 DEF Outside
<1>3. Threads
  <2>1. None # "irq" /\ None # "reg"
    BY PortsAssumption
  <2>. QED
    BY <1>1, <2>1 DEF Threads, Idle
<1>4. usb \in UsbType
  <2>1. <<>> \in Seq(Ep) /\ <<>> \in Seq(Timer) /\ 0 \in 0 .. MaxTries /\ "notconnected" \in Status
    BY <1>1 DEF Status
  <2>2. [p \in Port |-> <<>>] \in [Port -> Seq(Ep)]
    BY <2>1
  <2>3. PICK f \in [Port -> Seq(Ep)], T \in Seq(Timer) : f = [p \in Port |-> <<>>] /\ T = <<>>
    BY <2>1, <2>2
  <2>4. usb = [status |-> [p \in Port |-> "notconnected"], resetFlag |-> [p \in Port |-> FALSE],
            delayResets |-> FALSE, resetting |-> {}, timers |-> T,
            eps |-> f, freeEps |-> Ep,
            request |-> [p \in Port |-> "none"], tries |-> [p \in Port |-> 0],
            first |-> 0, last |-> 0, next |-> [p \in Port |-> 0], prev |-> [p \in Port |-> 0],
            driver |-> [p \in Port |-> None]]
    BY <2>3
  <2>. QED
    BY <2>1, <2>4 DEF UsbType
<1>5. /\ usb.timers = <<>> /\ usb.freeEps = Ep /\ usb.delayResets = FALSE /\ usb.first = 0 /\ usb.last = 0
      /\ \A p \in Port : /\ usb.status[p] = "notconnected" /\ usb.resetFlag[p] = FALSE /\ usb.eps[p] = <<>>
                         /\ usb.request[p] = "none" /\ usb.next[p] = 0 /\ usb.prev[p] = 0 /\ usb.driver[p] = None
  OBVIOUS
<1>6. 0 \notin Port
  BY PortIs
<1>. HIDE DEF Init
<1>7. \A c, x : ~Has(usb.timers, c, x)
  BY <1>5 DEF Has
<1>8. \A p \in Port : ~OnList(usb, p)
  BY <1>5, <1>6 DEF OnList
<1>9. Core(usb, {}, Pure)
  <2>1. Unique(usb.timers)
    BY <1>5 DEF Unique
  <2>2. Whose(usb)
    <3>1. \A p \in Port : \A e : ~Owned(usb, p, e)
      BY <1>5 DEF Owned
    <3>. QED
      BY <1>5, <1>7, <3>1 DEF Whose, Dying
  <2>3. Chain(usb)
    <3>1. Ascends(usb, [p \in Port |-> 0])
      BY <1>5 DEF Ascends
    <3>. QED
      BY <1>5, <3>1 DEF Chain
  <2>4. Devices(usb, {}, Pure)
    <3>1. \A p \in Port : Stage(usb, p) /\ ~Held(usb, p, Pure)
      BY <1>5, <1>7, <1>8 DEF Stage, Held, Times
    <3>. QED
      BY <3>1 DEF Devices
  <2>. QED
    BY <1>4, <2>1, <2>2, <2>3, <2>4 DEF Core
<1>10. Window = {}
  BY DEF Window, Init, Idle
<1>11. Ports
  <2>1. Whole(usb)
    BY <1>5, <1>8 DEF Whole
  <2>2. Turn(usb, {})
    BY <1>5, <1>7 DEF Turn
  <2>. QED
    BY <1>9, <1>10, <2>1, <2>2 DEF Ports
<1>12. Apart
  <2>1. irq.pc = "idle" /\ reg.pc = "start" /\ \A p \in Port : calls[p] = 0
    BY DEF Init, Idle
  <2>. QED
    BY <1>5, <2>1 DEF Apart
<1>. QED
  BY <1>2, <1>3, <1>11, <1>12 DEF IInv

-----------------------------------------------------------------------------
(* What is outside                                                         *)

\* Nothing of the driver changes.
LEMMA OutsideHolds ==
  ASSUME IInv, Outside', UNCHANGED <<usb, irq, reg, drivers, lock, calls, slips>>
  PROVE  IInv'
<1>1. Window' = Window /\ slips \subseteq slips' /\ usb' = usb
  BY DEF Window
<1>2. Ports'
  BY <1>1, StaysHolds
<1>3. Threads'
  BY DEF IInv, Threads
<1>4. Pure' => Apart'
  BY <1>1 DEF IInv, Apart, Pure
<1>. QED
  BY <1>2, <1>3, <1>4 DEF IInv

\* A device comes or goes.
LEMMA PlugHolds ==
  ASSUME IInv, NEW p \in Port, (\E k \in Kind : Plug(p, k)) \/ Unplug(p)
  PROVE  IInv'
<1>1. UNCHANGED <<usb, irq, reg, drivers, lock, calls, slips>>
  BY DEF Plug, Unplug
<1>2. plugs' \in 0 .. MaxPlugs
  BY PortsAssumption DEF Plug, Unplug, IInv, Outside
<1>3. PICK k \in Kind \cup {None} : plug' = [plug EXCEPT ![p] = k]
  BY DEF Plug, Unplug
<1>4. change' = [change EXCEPT ![p] = @ \cup {"connection"}]
  BY DEF Plug, Unplug
<1>5. plug' \in [Port -> Kind \cup {None}] /\ change' \in [Port -> SUBSET {"connection", "reset"}]
  BY <1>3, <1>4 DEF IInv, Outside
<1>6. Outside'
  BY <1>1, <1>2, <1>5 DEF IInv, Outside
<1>. QED
  BY <1>1, <1>6, OutsideHolds

\* The reset of a port ends.
LEMMA ResetDoneHolds ==
  ASSUME IInv, NEW p \in Port, ResetDone(p)
  PROVE  IInv'
<1>1. usb \in UsbType
  BY DEF IInv, Ports, Core
<1>2. PICK r \in SUBSET Port : r = usb.resetting \ {p}
  BY <1>1, Fields
<1>3. usb' = [usb EXCEPT !.resetting = r]
  BY <1>2 DEF ResetDone
<1>4. usb' \in UsbType
  BY <1>1, <1>3 DEF UsbType
<1>5. /\ SameLinks(usb, usb') /\ SameEps(usb, usb') /\ SameTurn(usb, usb') /\ usb'.timers = usb.timers
      /\ usb'.status = usb.status /\ usb'.request = usb.request /\ usb'.driver = usb.driver
  BY <1>1, <1>3 DEF UsbType, SameLinks, SameEps, SameTurn
<1>6. Window' = Window /\ slips' = slips
  BY DEF ResetDone, Window
<1>7. \A q : OnList(usb', q) <=> OnList(usb, q)
  BY <1>5 DEF SameLinks, OnList
<1>8. Core(usb', Window, Pure)
  <2>1. Whose(usb') /\ Chain(usb')
    BY <1>5 DEF IInv, Ports, Core, Whose, Owned, Dying, SameEps, SameLinks, Chain, Ascends
  <2>2. \A q \in Port : q \notin Window => q \notin Window /\ Alike(usb, usb', q, Pure)
    BY <1>5, <1>7 DEF Alike, Held
  <2>3. Devices(usb', Window, Pure)
    BY <2>2, DevicesKept DEF IInv, Ports, Core
  <2>. QED
    BY <1>4, <1>5, <2>1, <2>3 DEF IInv, Ports, Core
<1>9. Ports'
  <2>1. Whole(usb') <=> Whole(usb)
    BY <1>5, <1>7 DEF Whole, SameLinks
  <2>2. Turn(usb', {}) <=> Turn(usb, {})
    BY <1>5 DEF Turn, SameTurn
  <2>3. Pure' = Pure
    BY <1>6 DEF Pure
  <2>. QED
    BY <1>5, <1>6, <1>7, <1>8, <2>1, <2>2, <2>3 DEF IInv, Ports
<1>10. Threads'
  BY DEF IInv, Threads, ResetDone
<1>11. Outside'
  <2>1. change' \in [Port -> SUBSET {"connection", "reset"}]
    BY DEF IInv, Outside, ResetDone
  <2>. QED
    BY <2>1 DEF IInv, Outside, ResetDone
<1>12. Pure' => Apart'
  <2>1. Pure' => Pure /\ Apart
    BY <1>6 DEF Pure, IInv
  <2>2. irq' = irq /\ reg' = reg /\ calls' = calls
    BY DEF ResetDone
  <2>. QED
    BY <1>5, <1>6, <1>7, <2>1, <2>2 DEF Apart
<1>. QED
  BY <1>9, <1>10, <1>11, <1>12 DEF IInv

-----------------------------------------------------------------------------
(* Frames and answers                                                      *)

\* Between two steps of the interrupt's thread, no thread has the semaphore.
LEMMA FreeIs ==
  ASSUME IInv, Free
  PROVE  irq.pc = "idle" /\ lock = None /\ reg.pc # "list" /\ Window = {} /\ usb \in UsbType
         /\ Core(usb, {}, Pure)
BY PortsAssumption DEF IInv, Free, Threads, Ports, Window, Core

\* The threads stay where they are.
LEMMA ThreadsStay ==
  ASSUME IInv, Free, irq' = irq \/ irq' = Idle, lock' = lock, reg' = reg, drivers' = drivers
  PROVE  Threads' /\ irq'.pc = "idle"
<1>1. irq'.pc = "idle" /\ irq' \in [pc : {"idle", "rhsc", "disconnect", "after", "offer", "probe", "connect"},
              port : 0 .. NumPorts, drv : 0 .. 2, seen : SUBSET {"plugged", "connection", "reset"}]
  BY PortsAssumption DEF Free, Idle, IInv, Threads
<1>2. lock = None /\ None # "irq" /\ None # "reg"
  BY PortsAssumption DEF Free
<1>. QED
  BY <1>1, <1>2 DEF IInv, Threads

\* A new frame.
LEMMA FrameHolds ==
  ASSUME IInv, Frame
  PROVE  IInv'
<1>1. Free /\ usb.timers # <<>> /\ UNCHANGED <<plug, plugs, change, irq, reg, drivers, lock, calls, slips>>
  BY DEF Frame
<1>2. Core(usb, {}, Pure) /\ irq.pc = "idle"
  BY <1>1, FreeIs
<1>3. PICK t : t = FireAll(IF usb.timers[1].left > 0 THEN [usb EXCEPT !.timers[1].left = @ - 1] ELSE usb)
  OBVIOUS
<1>4. usb' = t
  BY <1>3 DEF Frame
<1>5. Goes(usb, t, Pure)
  BY <1>1, <1>2, <1>3, FrameGoes
<1>6. Ports' /\ (Pure => Apart)'
  BY <1>1, <1>2, <1>4, <1>5, GoesHolds DEF Goes
<1>7. Threads'
  BY <1>1, ThreadsStay
<1>8. Outside'
  BY <1>1 DEF IInv, Outside
<1>. QED
  BY <1>6, <1>7, <1>8 DEF IInv

\* A request has an answer, or none comes.
LEMMA RequestEnds ==
  ASSUME NEW s, NEW pure, Core(s, {}, pure), NEW p \in Port, s.request[p] # "none",
         NEW t, t = WithRequest(s, p, "none")
  PROVE  /\ Core(t, {p}, pure) /\ Bare(t, p, pure) /\ Elsewhere(s, t, p) /\ t.status = s.status
         /\ s.status[p] = IF s.request[p] = "address" THEN "complete" ELSE "ready"
         /\ Turn(s, {}) => Turn(t, {}) /\ Turn(t, {p})
<1>1. s \in UsbType /\ Stage(s, p) /\ (Held(s, p, pure) => Quiet(s, p))
  BY DEF Core, Devices
<1>2. s.request[p] \in {"none", "address", "device", "config"}
  BY <1>1, Fields
<1>3. Elsewhere(s, t, p) /\ t.request[p] = "none" /\ t.status = s.status
  BY <1>1, RequestSet
<1>4. Core(t, {} \cup {p}, pure) /\ \A q : Held(t, q, pure) <=> Held(s, q, pure)
  BY <1>3, ElsewhereKeeps
<1>5. Core(t, {p}, pure)
  <2>1. {} \cup {p} = {p}
    OBVIOUS
  <2>. QED
    BY <1>4, <2>1
<1>6. s.status[p] = IF s.request[p] = "address" THEN "complete" ELSE "ready"
  BY <1>1, <1>2 DEF Stage
<1>7. Bare(t, p, pure)
  BY <1>1, <1>3, <1>4 DEF Bare, Stage, Quiet, Elsewhere
<1>8. Turn(s, {}) => Turn(t, {}) /\ Turn(t, {p})
  BY <1>3 DEF Turn, Elsewhere, SameTurn
<1>. QED
  BY <1>3, <1>5, <1>6, <1>7, <1>8

\* hubSetFuncAddressCB.
LEMMA AddressedHolds ==
  ASSUME IInv, NEW p \in Port, Addressed(p)
  PROVE  IInv'
<1>1. Free /\ usb.request[p] = "address" /\ UNCHANGED <<plug, plugs, change, irq, reg, drivers, lock, calls, slips>>
  BY DEF Addressed
<1>2. Core(usb, {}, Pure) /\ irq.pc = "idle" /\ usb \in UsbType
  BY <1>1, FreeIs
<1>3. PICK s : s = WithRequest(usb, p, "none")
  OBVIOUS
<1>4. /\ Core(s, {p}, Pure) /\ Bare(s, p, Pure) /\ Elsewhere(usb, s, p) /\ s.status = usb.status
      /\ usb.status[p] = "complete" /\ (Turn(usb, {}) => Turn(s, {}) /\ Turn(s, {p}))
  BY <1>1, <1>2, <1>3, RequestEnds
<1>5. s \in UsbType
  BY <1>4 DEF Core
<1>6. {AddressDelay, PeekDelay} \subseteq Nat /\ MaxTries \in Nat
  BY PortsAssumption
<1>7. Turn(usb, {}) => s.resetFlag[p] = TRUE
  BY <1>4 DEF Turn, Elsewhere, SameTurn
<1>8. Core(usb', {}, Pure) /\ SameLinks(usb, usb') /\ usb'.driver = usb.driver /\ (Turn(usb, {}) => Turn(usb', {}))
  <2>1. CASE Answers(p)
    <3>1. PICK c : c = WithStatus(s, p, "ready")
      OBVIOUS
    <3>2. usb' = AddTimer(c, "peek", p, PeekDelay)
      BY <1>3, <2>1, <3>1 DEF Addressed, WithStatus, WithRequest
    <3>3. Elsewhere(s, c, p) /\ c.status[p] = "ready" /\ c.request = s.request
      <4>1. "ready" \in Status
        BY DEF Status
      <4>. QED
        BY <1>5, <3>1, <4>1, StatusSet
    <3>4. Core(c, {p} \cup {p}, Pure) /\ \A q : Held(c, q, Pure) <=> Held(s, q, Pure)
      BY <1>4, <3>3, ElsewhereKeeps
    <3>5. Core(c, {p}, Pure) /\ Bare(c, p, Pure) /\ c.status[p] = StatusFor("peek")
      <4>1. {p} \cup {p} = {p}
        OBVIOUS
      <4>2. c.status[p] = StatusFor("peek")
        BY <3>3 DEF StatusFor
      <4>3. Bare(c, p, Pure)
        BY <1>4, <3>3, <3>4 DEF Bare, Elsewhere
      <4>. QED
        BY <3>4, <4>1, <4>2, <4>3
    <3>6. /\ Core(usb', {}, Pure) /\ Timed(c, usb')
          /\ Turn(c, {}) /\ c.resetFlag[p] = TRUE => Turn(usb', {})
      BY <1>6, <3>2, <3>5, TimerGoes
    <3>7. Turn(s, {}) => Turn(c, {})
      BY <3>3, ElsewhereTurn
    <3>8. c.resetFlag = s.resetFlag
      BY <3>3 DEF Elsewhere, SameTurn
    <3>. QED
      BY <1>4, <1>7, <3>3, <3>6, <3>7, <3>8 DEF Elsewhere, Timed, SameLinks
  <2>2. CASE ~Answers(p) /\ usb.tries[p] < MaxTries
    <3>0. s.tries[p] = usb.tries[p]
      BY <1>2, <1>3 DEF WithRequest, UsbType
    <3>1. PICK c : c = WithTries(s, p, s.tries[p] + 1)
      OBVIOUS
    <3>2. usb' = AddTimer(c, "address", p, AddressDelay)
      BY <1>3, <2>2, <3>1 DEF Addressed, WithTries, WithRequest
    <3>3. Elsewhere(s, c, p) /\ c.status = s.status /\ c.request = s.request
      <4>1. s.tries[p] \in 0 .. MaxTries
        BY <1>5, Fields
      <4>2. s.tries[p] + 1 \in 0 .. MaxTries
        BY <1>6, <2>2, <3>0, <4>1
      <4>. QED
        BY <1>5, <3>1, <4>2, TriesSet
    <3>4. Core(c, {p} \cup {p}, Pure) /\ \A q : Held(c, q, Pure) <=> Held(s, q, Pure)
      BY <1>4, <3>3, ElsewhereKeeps
    <3>5. Core(c, {p}, Pure) /\ Bare(c, p, Pure) /\ c.status[p] = StatusFor("address")
      <4>1. {p} \cup {p} = {p}
        OBVIOUS
      <4>2. c.status[p] = StatusFor("address")
        BY <1>4, <3>3 DEF StatusFor
      <4>3. Bare(c, p, Pure)
        BY <1>4, <3>3, <3>4 DEF Bare, Elsewhere
      <4>. QED
        BY <3>4, <4>1, <4>2, <4>3
    <3>6. /\ Core(usb', {}, Pure) /\ Timed(c, usb')
          /\ Turn(c, {}) => Turn(usb', {})
      BY <1>6, <3>2, <3>5, TimerGoes
    <3>7. Turn(s, {}) => Turn(c, {})
      BY <3>3 DEF Turn, Elsewhere, SameTurn
    <3>. QED
      BY <1>4, <3>3, <3>6, <3>7 DEF Elsewhere, Timed, SameLinks
  <2>3. CASE ~Answers(p) /\ ~(usb.tries[p] < MaxTries)
    <3>1. usb' = KillDevice(s, p)
      BY <1>3, <2>3 DEF Addressed, WithRequest
    <3>2. /\ Core(usb', {}, Pure) /\ SameLinks(s, usb') /\ usb'.driver = s.driver
          /\ Turn(s, {p}) /\ (s.resetFlag[p] \/ ~s.delayResets) => Turn(usb', {})
      BY <1>4, <3>1, KillKeeps
    <3>. QED
      BY <1>4, <1>7, <3>2 DEF Elsewhere, SameLinks
  <2>. QED
    BY <2>1, <2>2, <2>3
<1>9. Ports' /\ (Pure => Apart)'
  BY <1>1, <1>2, <1>8, GoesHolds
<1>10. Threads'
  BY <1>1, ThreadsStay
<1>11. Outside'
  BY <1>1 DEF IInv, Outside
<1>. QED
  BY <1>9, <1>10, <1>11 DEF IInv

\* A device that does not answer when its descriptors are read has its turn again, if it is
\* not another's.
LEMMA KillGoes ==
  ASSUME IInv, Free, NEW p \in Port, usb.request[p] # "none", NEW s, s = WithRequest(usb, p, "none"),
         usb' = KillDevice(s, p)
  PROVE  /\ Core(usb', {}, Pure) /\ SameLinks(usb, usb') /\ usb'.driver = usb.driver
         /\ ~Others(p) /\ Turn(usb, {}) => Turn(usb', {})
<1>1. Core(usb, {}, Pure)
  BY FreeIs
<1>2. /\ Core(s, {p}, Pure) /\ Bare(s, p, Pure) /\ Elsewhere(usb, s, p)
      /\ Turn(usb, {}) => Turn(s, {p})
  BY <1>1, RequestEnds
<1>3. /\ SameLinks(s, usb') /\ usb'.driver = s.driver /\ Core(usb', {}, Pure)
      /\ Turn(s, {p}) /\ (s.resetFlag[p] \/ ~s.delayResets) => Turn(usb', {})
  BY <1>2, KillKeeps
<1>4. ~Others(p) => (s.resetFlag[p] \/ ~s.delayResets)
  BY <1>2 DEF Others, Elsewhere, SameTurn
<1>. QED
  BY <1>2, <1>3, <1>4 DEF Elsewhere, SameLinks

\* requestDevDescrptCb.
LEMMA DescribedHolds ==
  ASSUME IInv, NEW p \in Port, Described(p)
  PROVE  IInv'
<1>1. Free /\ usb.request[p] = "device" /\ UNCHANGED <<plug, plugs, change, irq, reg, drivers, lock, calls>>
      /\ Slip(FALSE, FALSE, ~Answers(p) /\ Others(p))
  BY DEF Described
<1>2. Core(usb, {}, Pure) /\ irq.pc = "idle" /\ usb \in UsbType
  BY <1>1, FreeIs
<1>3. /\ slips \subseteq slips' /\ slips' \subseteq {"mixed", "torn", "stolen"}
      /\ "stolen" \in slips' <=> "stolen" \in slips \/ (~Answers(p) /\ Others(p))
  BY <1>1, SlipAdds DEF IInv, Outside
<1>4. PICK s : s = WithRequest(usb, p, "none")
  OBVIOUS
<1>5. /\ Core(usb', {}, Pure) /\ SameLinks(usb, usb') /\ usb'.driver = usb.driver
      /\ "stolen" \notin slips' /\ Turn(usb, {}) => Turn(usb', {})
  <2>1. CASE Answers(p)
    <3>1. usb' = WithRequest(s, p, "config")
      BY <1>4, <2>1 DEF Described, WithRequest
    <3>2. /\ Core(s, {p}, Pure) /\ Bare(s, p, Pure) /\ Elsewhere(usb, s, p) /\ s.status = usb.status
          /\ usb.status[p] = "ready" /\ (Turn(usb, {}) => Turn(s, {}))
      BY <1>1, <1>2, <1>4, RequestEnds
    <3>3. Elsewhere(s, usb', p) /\ usb'.request[p] = "config" /\ usb'.status = s.status
      BY <3>1, <3>2, RequestSet DEF Core
    <3>4. Core(usb', {p} \cup {p}, Pure) /\ \A q : Held(usb', q, Pure) <=> Held(s, q, Pure)
      BY <3>2, <3>3, ElsewhereKeeps
    <3>5. Stage(usb', p) /\ ~Held(usb', p, Pure)
      BY <3>2, <3>3, <3>4 DEF Stage, Bare, Times, Elsewhere
    <3>6. Core(usb', {}, Pure)
      <4>1. {p} \cup {p} = {p}
        OBVIOUS
      <4>. QED
        BY <3>4, <3>5, <4>1, CoreWhole
    <3>7. Turn(s, {}) => Turn(usb', {})
      BY <3>3 DEF Turn, Elsewhere, SameTurn
    <3>. QED
      BY <3>2, <3>3, <3>6, <3>7 DEF Elsewhere, SameLinks
  <2>2. CASE ~Answers(p)
    <3>1. usb' = KillDevice(s, p)
      BY <1>4, <2>2 DEF Described, WithRequest
    <3>. QED
      BY <1>1, <1>3, <1>4, <2>2, <3>1, KillGoes
  <2>. QED
    BY <2>1, <2>2
<1>6. Ports' /\ (Pure => Apart)'
  BY <1>1, <1>2, <1>3, <1>5, GoesHolds
<1>7. Threads'
  BY <1>1, ThreadsStay
<1>8. Outside'
  BY <1>1, <1>3 DEF IInv, Outside
<1>. QED
  BY <1>6, <1>7, <1>8 DEF IInv

\* fetchConfigDescriptors.
LEMMA ConfiguredHolds ==
  ASSUME IInv, NEW p \in Port, Configured(p)
  PROVE  IInv'
<1>. DEFINE fits == Answers(p) /\ plug[p] # "large"
<1>1. Free /\ usb.request[p] = "config" /\ UNCHANGED <<plug, plugs, change, reg, drivers, calls>>
      /\ GoOn(IF fits THEN [Idle EXCEPT !.pc = "offer", !.port = p, !.drv = 1] ELSE Idle)
      /\ Slip(fits /\ RegAway, FALSE, ~Answers(p) /\ Others(p))
  BY DEF Configured
<1>2. Core(usb, {}, Pure) /\ irq.pc = "idle" /\ usb \in UsbType /\ lock = None /\ reg.pc # "list"
  BY <1>1, FreeIs
<1>3. /\ slips \subseteq slips' /\ slips' \subseteq {"mixed", "torn", "stolen"}
      /\ "stolen" \in slips' <=> "stolen" \in slips \/ (~Answers(p) /\ Others(p))
      /\ "mixed" \in slips' <=> "mixed" \in slips \/ (fits /\ RegAway)
      /\ "torn" \in slips' <=> "torn" \in slips
  BY <1>1, SlipAdds DEF IInv, Outside
<1>4. PICK s : s = WithRequest(usb, p, "none")
  OBVIOUS
<1>5. /\ Core(s, {p}, Pure) /\ Bare(s, p, Pure) /\ Elsewhere(usb, s, p) /\ s.status = usb.status
      /\ usb.status[p] = "ready" /\ (Turn(usb, {}) => Turn(s, {}))
  BY <1>1, <1>2, <1>4, RequestEnds
<1>6. CASE ~fits
  <2>1. irq' = Idle /\ lock' = lock
    BY <1>1, <1>2, <1>6 DEF GoOn, Holder, Idle
  <2>2. /\ Core(usb', {}, Pure) /\ SameLinks(usb, usb') /\ usb'.driver = usb.driver
        /\ "stolen" \notin slips' /\ Turn(usb, {}) => Turn(usb', {})
    <3>1. CASE Answers(p)
      <4>1. usb' = s
        BY <1>4, <1>6, <3>1 DEF Configured, WithRequest
      <4>2. Stage(s, p) /\ ~Held(s, p, Pure)
        BY <1>5 DEF Stage, Bare, Times
      <4>3. Core(s, {}, Pure)
        BY <1>5, <4>2, CoreWhole
      <4>. QED
        BY <1>5, <4>1, <4>3 DEF Elsewhere
    <3>2. CASE ~Answers(p)
      <4>1. usb' = KillDevice(s, p)
        BY <1>4, <1>6, <3>2 DEF Configured, WithRequest
      <4>. QED
        BY <1>1, <1>3, <1>4, <3>2, <4>1, KillGoes
    <3>. QED
      BY <3>1, <3>2
  <2>3. Threads' /\ irq'.pc = "idle"
    BY <1>1, <2>1, ThreadsStay
  <2>4. Ports' /\ (Pure => Apart)'
    BY <1>1, <1>2, <1>3, <2>2, <2>3, GoesHolds
  <2>5. Outside'
    BY <1>1, <1>3, <2>1 DEF IInv, Outside
  <2>. QED
    BY <2>3, <2>4, <2>5 DEF IInv
<1>7. CASE fits
  <2>1. irq' = [Idle EXCEPT !.pc = "offer", !.port = p, !.drv = 1] /\ lock' = "irq"
    BY <1>1, <1>7 DEF GoOn, Holder, Idle
  <2>2. irq'.pc = "offer" /\ irq'.port = p /\ irq'.drv = 1
        /\ irq' \in [pc : {"idle", "rhsc", "disconnect", "after", "offer", "probe", "connect"},
              port : 0 .. NumPorts, drv : 0 .. 2, seen : SUBSET {"plugged", "connection", "reset"}]
    <3>1. irq' = [pc |-> "offer", port |-> p, drv |-> 1, seen |-> {}]
      BY <2>1 DEF Idle
    <3>2. p \in 0 .. NumPorts /\ 1 \in 0 .. 2
      BY PortIs, PortsAssumption
    <3>. QED
      BY <3>1, <3>2
  <2>3. PICK t : t = Link(s, p)
    OBVIOUS
  <2>4. usb' = t
    BY <1>4, <1>7, <2>3 DEF Configured, WithRequest
  <2>5. s \in UsbType /\ Chain(s) /\ ~OnList(s, p)
    BY <1>5 DEF Core, Bare, Held
  <2>6. Links(s, p, t)
    BY <2>3, <2>5, LinkIs
  <2>7. /\ Chain(t) /\ OnList(t, p) /\ Relinked(s, t)
        /\ \A q \in Port : q # p /\ OnList(t, q) => OnList(s, q)
        /\ Whole(s) => Whole(t) /\ \A q \in Port : OnList(s, q) => OnList(t, q)
    BY <2>5, <2>6, LinkChain DEF Links
  <2>8. Core(t, {p}, Pure)
    <3>1. \A q \in Port : q \notin {p} /\ OnList(t, q) => OnList(s, q)
      BY <2>7
    <3>2. {p} \subseteq {p}
      OBVIOUS
    <3>. QED
      BY <1>5, <2>7, <3>1, <3>2, RelinkedKeeps
  <2>9. Core(t, {}, Pure)
    <3>1. t.status[p] = "ready" /\ t.request[p] = "none" /\ ~Times(t.timers, p)
      BY <1>5, <2>7 DEF Relinked, Bare
    <3>2. Stage(t, p) /\ Quiet(t, p)
      BY <3>1 DEF Stage, Quiet, Times
    <3>. QED
      BY <2>8, <3>2, CoreWhole
  <2>10. Window' = {} /\ (Pure' => Pure)
    BY <1>3, <2>2 DEF Window, Pure
  <2>11. /\ \A q : OnList(s, q) <=> OnList(usb, q)
         /\ Whole(s) <=> Whole(usb)
         /\ s.driver = usb.driver /\ t.driver = usb.driver
    BY <1>5, <2>7 DEF Elsewhere, SameLinks, OnList, Whole, Relinked
  <2>12. Turn(s, {}) => Turn(t, {})
    BY <2>7 DEF Relinked, Turn, SameTurn
  <2>13. Core(t, {}, Pure')
    <3>1. {} \subseteq {}
      OBVIOUS
    <3>. QED
      BY <2>9, <2>10, <3>1, CoreLess
  <2>14. Ports'
    BY <1>3, <1>5, <2>4, <2>7, <2>10, <2>11, <2>12, <2>13 DEF IInv, Ports
  <2>15. Threads'
    <3>1. None # "irq" /\ None # "reg" /\ reg' = reg /\ drivers' = drivers
      BY <1>1, PortsAssumption
    <3>. QED
      BY <1>2, <2>1, <2>2, <3>1 DEF IInv, Threads
  <2>16. Outside'
    BY <1>1, <1>3, <2>1 DEF IInv, Outside
  <2>17. ASSUME Pure' PROVE Apart'
    <3>1. Pure /\ Apart /\ ~RegAway
      BY <1>3, <1>7, <2>10, <2>17 DEF Pure, IInv
    <3>2. reg.pc \in {"start", "done"} /\ reg' = reg /\ calls' = calls
      BY <1>1, <1>2, <3>1 DEF RegAway, IInv, Threads
    <3>3. usb.driver[p] = None
      BY <1>5, <2>11, <3>1 DEF Bare, Held
    <3>4. Window = {}
      BY <1>2 DEF Window
    <3>5. "torn" \notin slips' => \A q \in Port : usb'.driver[q] # None => OnList(usb', q)
      <4>1. "torn" \notin slips' => Whole(usb)
        BY <1>3 DEF IInv, Ports
      <4>. QED
        BY <1>3, <2>4, <2>7, <2>11, <3>1, <4>1 DEF Apart
    <3>. QED
      BY <2>2, <2>4, <2>7, <2>10, <2>11, <3>1, <3>2, <3>3, <3>4, <3>5 DEF Apart
  <2>. QED
    BY <2>14, <2>15, <2>16, <2>17 DEF IInv
<1>. QED
  BY <1>6, <1>7

-----------------------------------------------------------------------------
(* The ports, one after the other                                          *)

\* The list is followed link by link.
Walks(s, f) ==
  /\ f[0] = s.first
  /\ \A k \in 1 .. NumPorts : f[k] = IF f[k - 1] = 0 THEN 0 ELSE s.next[f[k - 1]]
  /\ DOMAIN f = 0 .. NumPorts
LEMMA WalkInOrder ==
  ASSUME NEW s
  PROVE  Walks(s, Walk(s))
<1>. DEFINE n == NumPorts
<1>0. n \in Nat
  BY PortsAssumption
<1>. DEFINE S == {k \in Nat : \E g : g = [j \in 0 .. k |-> IF j = 0 THEN s.first ELSE IF g[j - 1] = 0 THEN 0 ELSE s.next[g[j - 1]]]}
<1>1. 0 \in S
  <2>. DEFINE g == [j \in 0 .. 0 |-> s.first]
  <2>1. g = [j \in 0 .. 0 |-> IF j = 0 THEN s.first ELSE IF g[j - 1] = 0 THEN 0 ELSE s.next[g[j - 1]]]
    OBVIOUS
  <2>. QED
    BY <2>1
<1>2. ASSUME NEW k \in Nat, k \in S PROVE k + 1 \in S
  <2>1. PICK g : g = [j \in 0 .. k |-> IF j = 0 THEN s.first ELSE IF g[j - 1] = 0 THEN 0 ELSE s.next[g[j - 1]]]
    BY <1>2
  <2>. DEFINE h == [j \in 0 .. (k + 1) |-> IF j = k + 1 THEN (IF g[k] = 0 THEN 0 ELSE s.next[g[k]]) ELSE g[j]]
  <2>2. ASSUME NEW j \in 0 .. (k + 1)
        PROVE  h[j] = IF j = 0 THEN s.first ELSE IF h[j - 1] = 0 THEN 0 ELSE s.next[h[j - 1]]
    <3>1. CASE j = k + 1
      <4>1. j # 0 /\ j - 1 = k /\ k \in 0 .. (k + 1) /\ k # k + 1
        BY <3>1
      <4>2. h[k] = g[k] /\ h[j] = (IF g[k] = 0 THEN 0 ELSE s.next[g[k]])
        BY <3>1, <4>1
      <4>. QED
        BY <3>1, <4>1, <4>2
    <3>2. CASE j # k + 1
      <4>1. j \in 0 .. k /\ h[j] = g[j]
        BY <3>2
      <4>2. g[j] = IF j = 0 THEN s.first ELSE IF g[j - 1] = 0 THEN 0 ELSE s.next[g[j - 1]]
        BY <4>1, <2>1
      <4>3. j # 0 => h[j - 1] = g[j - 1]
        BY <4>1
      <4>. QED
        BY <4>1, <4>2, <4>3
    <3>. QED
      BY <3>1, <3>2
  <2>3. h = [j \in 0 .. (k + 1) |-> h[j]]
    OBVIOUS
  <2>. HIDE DEF h
  <2>4. h = [j \in 0 .. (k + 1) |-> IF j = 0 THEN s.first ELSE IF h[j - 1] = 0 THEN 0 ELSE s.next[h[j - 1]]]
    BY <2>2, <2>3
  <2>5. k + 1 \in Nat
    OBVIOUS
  <2>. QED
    BY <2>4, <2>5
<1>3. n \in S
  <2>. HIDE DEF S
  <2>1. S \in SUBSET Nat
    BY DEF S
  <2>. QED
    BY <1>0, <1>1, <1>2, <2>1, Induction
<1>4. PICK g : g = CHOOSE h : h = [j \in 0 .. n |-> IF j = 0 THEN s.first ELSE IF h[j - 1] = 0 THEN 0 ELSE s.next[h[j - 1]]]
  OBVIOUS
<1>5. g = [j \in 0 .. n |-> IF j = 0 THEN s.first ELSE IF g[j - 1] = 0 THEN 0 ELSE s.next[g[j - 1]]]
  BY <1>3, <1>4
<1>6. Walk(s) = g
  BY <1>4 DEF Walk
<1>7. g[0] = s.first /\ DOMAIN g = 0 .. n
  <2>1. 0 \in 0 .. n
    BY <1>0
  <2>. QED
    BY <1>5, <2>1
<1>8. ASSUME NEW j \in 1 .. n PROVE g[j] = IF g[j - 1] = 0 THEN 0 ELSE s.next[g[j - 1]]
  <2>1. j \in 0 .. n /\ j # 0
    BY <1>0
  <2>. QED
    BY <1>5, <2>1
<1>. QED
  BY <1>6, <1>7, <1>8, Zenon DEF Walks

\* All that is found is on the list.
LEMMA WalkOn ==
  ASSUME NEW s \in UsbType, Chain(s)
  PROVE  \A k \in 0 .. NumPorts : Walk(s)[k] # 0 => Walk(s)[k] \in Port /\ OnList(s, Walk(s)[k])
<1>1. PICK f : f = Walk(s) /\ Walks(s, f)
  BY WalkInOrder
<1>2. NumPorts \in Nat
  BY PortsAssumption
<1>3. s.first \in {0} \cup Port /\ \A q \in Port : s.next[q] \in {0} \cup Port
  BY Fields
<1>. DEFINE S == {k \in Nat : k <= NumPorts => (f[k] # 0 => f[k] \in Port /\ OnList(s, f[k]))}
<1>4. 0 \in S
  BY <1>1, <1>3 DEF Walks, OnList
<1>5. ASSUME NEW k \in Nat, k \in S PROVE k + 1 \in S
  <2>1. SUFFICES ASSUME k + 1 <= NumPorts, f[k + 1] # 0 PROVE f[k + 1] \in Port /\ OnList(s, f[k + 1])
    OBVIOUS
  <2>2. k + 1 \in 1 .. NumPorts /\ (k + 1) - 1 = k /\ k <= NumPorts
    BY <1>2, <2>1
  <2>3. f[k + 1] = IF f[k] = 0 THEN 0 ELSE s.next[f[k]]
    BY <1>1, <2>2 DEF Walks
  <2>4. f[k] # 0 /\ f[k] \in Port
    BY <1>5, <2>1, <2>2, <2>3
  <2>5. f[k + 1] = s.next[f[k]] /\ f[k + 1] \in Port
    BY <1>3, <2>1, <2>3, <2>4
  <2>6. s.prev[f[k + 1]] = f[k]
    BY <2>1, <2>4, <2>5 DEF Chain
  <2>. QED
    BY <2>4, <2>5, <2>6 DEF OnList
<1>6. S = Nat
  <2>. HIDE DEF S
  <2>1. S \in SUBSET Nat
    BY DEF S
  <2>. QED
    BY <1>4, <1>5, <2>1, Induction
<1>7. \A k \in 0 .. NumPorts : f[k] # 0 => f[k] \in Port /\ OnList(s, f[k])
  BY <1>2, <1>6
<1>. QED
  BY <1>1, <1>7

\* The same, of the set.
LEMMA ListedOn ==
  ASSUME NEW s \in UsbType, Chain(s)
  PROVE  \A p \in Listed(s) : p \in Port /\ OnList(s, p)
BY WalkOn DEF Listed

\* The interrupt's thread goes on with the next port.
LEMMA NextPort ==
  ASSUME NEW p \in Port
  PROVE  /\ AtPort(p + 1) \in [pc : {"idle", "rhsc"}, port : 0 .. NumPorts, drv : {0}, seen : {{}}]
         /\ AtPort(p + 1).pc # "idle" => AtPort(p + 1).port \in Port
         /\ Holder(AtPort(p + 1)) = IF AtPort(p + 1).pc = "rhsc" THEN "irq" ELSE None
<1>1. NumPorts \in Nat /\ p \in Nat
  BY PortsAssumption, PortIs
<1>2. CASE p + 1 > NumPorts
  <2>1. AtPort(p + 1) = [pc |-> "idle", port |-> 0, drv |-> 0, seen |-> {}]
    BY <1>2 DEF AtPort, Idle
  <2>. QED
    BY <1>1, <2>1 DEF Holder
<1>3. CASE ~(p + 1 > NumPorts)
  <2>1. AtPort(p + 1) = [pc |-> "rhsc", port |-> p + 1, drv |-> 0, seen |-> {}]
    BY <1>3 DEF AtPort, Idle
  <2>2. p + 1 \in 1 .. NumPorts
    BY <1>1, <1>3
  <2>. QED
    BY <1>1, <2>1, <2>2 DEF Holder, Port
<1>. QED
  BY <1>2, <1>3

\* A device leaves, and the port may have another.
LEMMA LeavesThenGoes ==
  ASSUME NEW s, NEW p \in Port, NEW pure, NEW u, Flushes(s, p, pure, u), NEW t, Goes(u, t, pure)
  PROVE  Flushes(s, p, pure, t)
<1>1. (Whole(t) <=> Whole(u)) /\ \A q : OnList(t, q) <=> OnList(u, q)
  BY DEF Goes, SameLinks, Whole, OnList
<1>. QED
  BY <1>1 DEF Flushes, Goes

\* What holds once a device has left.
LEMMA LeftHolds ==
  ASSUME IInv, NEW p \in Port, NEW s, s \in UsbType, SameLinks(usb, s), s.driver = usb.driver, Turn(usb, {}) => Turn(s, {}),
         Flushes(s, p, Pure, usb'), slips \subseteq slips', irq'.pc \in {"idle", "rhsc"},
         Window \subseteq {p}, "torn" \notin slips' => OnList(usb, p), Pure' => ~RegAway, reg' = reg, reg.pc # "list",
         \A q \in Port : calls'[q] = IF q = p THEN 0 ELSE calls[q]
  PROVE  Ports' /\ (Pure => Apart)'
<1>1. Window' = {} /\ (Pure' => Pure)
  BY DEF Window, Pure
<1>2. (Whole(s) <=> Whole(usb)) /\ \A q : OnList(s, q) <=> OnList(usb, q)
  BY DEF SameLinks, Whole, OnList
<1>3. Core(usb', {}, Pure')
  <2>1. {} \subseteq {}
    OBVIOUS
  <2>. QED
    BY <1>1, <2>1, CoreLess DEF Flushes
<1>4. "torn" \notin slips' => Whole(usb') /\ \A q \in Port : q # p /\ OnList(usb, q) => OnList(usb', q)
  BY <1>2 DEF IInv, Ports, Flushes
<1>5. Ports'
  BY <1>1, <1>3, <1>4 DEF IInv, Ports, Flushes
<1>6. ASSUME Pure' PROVE Apart'
  <2>1. Apart /\ reg.pc \in {"start", "done"}
    BY <1>1, <1>6 DEF IInv, Threads, RegAway
  <2>2. usb.driver \in [Port -> Driver \cup {None}]
    BY Fields
  <2>3. usb'.driver[p] = None /\ \A q \in Port : q # p => usb'.driver[q] = usb.driver[q]
    BY <2>2 DEF Flushes
  <2>4. \A q \in Port : calls'[q] = IF usb'.driver[q] = None \/ q \in {} THEN 0 ELSE 1
    BY <2>1, <2>3 DEF Apart
  <2>5. "torn" \notin slips' => \A q \in Port : usb'.driver[q] # None => OnList(usb', q)
    BY <1>4, <2>1, <2>3 DEF Apart
  <2>. QED
    BY <1>1, <2>1, <2>4, <2>5 DEF Apart
<1>. QED
  BY <1>5, <1>6

\* callUsbDriverFunc returns from disconnect.
LEMMA DisconnectedHolds ==
  ASSUME IInv, Disconnected
  PROVE  IInv'
<1>1. PICK p \in Port : p = irq.port
  BY DEF Disconnected, IInv, Threads
<1>2. irq.pc = "disconnect" /\ lock = None /\ Slip(RegAway, p \notin Listed(usb), FALSE)
      /\ irq' = AtPort(p + 1) /\ lock' = Holder(AtPort(p + 1))
      /\ UNCHANGED <<plug, plugs, change, reg, drivers, calls>>
  BY <1>1 DEF Disconnected, GoOn
<1>3. Window = {p}
  BY <1>1, <1>2 DEF Window
<1>4. Core(usb, {p}, Pure) /\ usb.status[p] = "notconnected" /\ usb \in UsbType
  BY <1>3 DEF IInv, Ports, Core
<1>5. /\ slips \subseteq slips' /\ slips' \subseteq {"mixed", "torn", "stolen"}
      /\ "mixed" \in slips' <=> "mixed" \in slips \/ RegAway
      /\ "torn" \in slips' <=> "torn" \in slips \/ p \notin Listed(usb)
  <2>1. slips \subseteq {"mixed", "torn", "stolen"}
    BY DEF IInv, Outside
  <2>2. PICK torn : torn = (p \notin Listed(usb))
    OBVIOUS
  <2>3. PICK away : away = RegAway
    OBVIOUS
  <2>4. Slip(away, torn, FALSE)
    BY <1>2, <2>2, <2>3
  <2>5. /\ slips \subseteq slips' /\ slips' \subseteq {"mixed", "torn", "stolen"}
        /\ "mixed" \in slips' <=> "mixed" \in slips \/ away
        /\ "torn" \in slips' <=> "torn" \in slips \/ torn
        /\ "stolen" \in slips' <=> "stolen" \in slips \/ FALSE
    BY <2>1, <2>4, SlipAdds, Zenon
  <2>. QED
    BY <2>2, <2>3, <2>5
<1>6. PICK u : u = FlushEnd(usb, p)
  OBVIOUS
<1>7. Flushes(usb, p, Pure, u)
  BY <1>4, <1>6, FlushKeeps
<1>8. Goes(u, usb', Pure)
  <2>1. usb' = Arrived(u, p, irq.seen)
    BY <1>1, <1>6 DEF Disconnected
  <2>. QED
    BY <1>7, <2>1, ArrivedGoes DEF Flushes
<1>9. Flushes(usb, p, Pure, usb')
  BY <1>7, <1>8, LeavesThenGoes
<1>10. PICK j : j = AtPort(p + 1)
  OBVIOUS
<1>11. j \in [pc : {"idle", "rhsc"}, port : 0 .. NumPorts, drv : {0}, seen : {{}}]
       /\ (j.pc # "idle" => j.port \in Port) /\ lock' = IF j.pc = "rhsc" THEN "irq" ELSE None
  BY <1>2, <1>10, NextPort
<1>12. Threads' /\ reg.pc # "list" /\ irq'.pc \in {"idle", "rhsc"}
  <2>1. None # "irq" /\ None # "reg"
    BY PortsAssumption
  <2>. QED
    BY <1>2, <1>10, <1>11, <2>1 DEF IInv, Threads
<1>13. Ports' /\ (Pure => Apart)'
  <2>1. "torn" \notin slips' => OnList(usb, p)
    BY <1>4, <1>5, ListedOn DEF Core
  <2>2. Pure' => ~RegAway
    BY <1>5 DEF Pure
  <2>3. ASSUME Pure PROVE calls[p] = 0
    BY <1>3, <2>3 DEF IInv, Apart
  <2>4. CASE Pure
    <3>1. \A q \in Port : calls'[q] = IF q = p THEN 0 ELSE calls[q]
      BY <1>2, <2>3, <2>4
    <3>2. SameLinks(usb, usb) /\ usb.driver = usb.driver /\ Window \subseteq {p} /\ reg' = reg
      BY <1>2, <1>3 DEF SameLinks
    <3>. QED
      BY <1>4, <1>5, <1>9, <1>12, <2>1, <2>2, <3>1, <3>2, LeftHolds
  <2>5. CASE ~Pure
    <3>1. ~Pure' /\ Window' = {}
      BY <1>5, <1>12, <2>5 DEF Pure, Window
    <3>2. Core(usb', {}, Pure')
      <4>1. {} \subseteq {} /\ (Pure' => Pure)
        BY <3>1
      <4>. QED
        BY <1>9, <4>1, CoreLess DEF Flushes
    <3>3. Ports'
      BY <1>5, <1>9, <2>1, <3>1, <3>2 DEF IInv, Ports, Flushes
    <3>. QED
      BY <3>1, <3>3
  <2>. QED
    BY <2>4, <2>5
<1>14. Outside'
  BY <1>2, <1>5, <1>11 DEF IInv, Outside
<1>. QED
  BY <1>12, <1>13, <1>14 DEF IInv

\* One operation after the other.
LEMMA GoesOn ==
  ASSUME NEW s, NEW pure, NEW t, Goes(s, t, pure), NEW u, Goes(t, u, pure)
  PROVE  Goes(s, u, pure)
BY DEF Goes, SameLinks

\* handleRhsc flushes a port with no device: the port that has its turn gives it back.
LEMMA FlushNoneGoes ==
  ASSUME NEW s, NEW p \in Port, NEW pure, Core(s, {}, pure), s.status[p] = "notconnected",
         NEW t, t = IF s.resetFlag[p] THEN CheckDelayedResets(s, p) ELSE s
  PROVE  Goes(s, t, pure)
<1>1. s \in UsbType /\ s.resetFlag[p] \in BOOLEAN /\ Stage(s, p)
  <2>1. s \in UsbType
    BY DEF Core
  <2>. QED
    BY <2>1, Fields DEF Core, Devices
<1>2. CASE ~s.resetFlag[p]
  BY <1>2 DEF Goes, SameLinks
<1>3. CASE s.resetFlag[p]
  <2>1. t = CheckDelayedResets(s, p)
    BY <1>3
  <2>2. Core(t, {}, pure) /\ Aside(s, t)
    BY <2>1, CheckKeeps
  <2>3. Turn(s, {}) => Turn(s, {p})
    BY DEF Turn
  <2>4. ~Has(s.timers, "peek", p)
    BY <1>1 DEF Stage
  <2>5. Turn(s, {}) => Turn(t, {})
    BY <1>1, <1>3, <2>1, <2>3, <2>4, CheckTurn
  <2>. QED
    BY <2>2, <2>5 DEF Goes, Aside
<1>. QED
  BY <1>2, <1>3

\* handleRhsc for a port.
LEMMA HandlePortHolds ==
  ASSUME IInv, HandlePort
  PROVE  IInv'
<1>1. irq.pc = "rhsc"
  BY DEF HandlePort
<1>2. PICK p \in Port : p = irq.port
  BY <1>1 DEF IInv, Threads
<1>3. PICK seen : seen = change[p] \cup (IF plug[p] = None THEN {} ELSE {"plugged"})
  OBVIOUS
<1>4. PICK gone : gone = WithStatus(usb, p, "notconnected")
  OBVIOUS
<1>. DEFINE flush == "plugged" \notin seen \/ (usb.status[p] # "notconnected" /\ "connection" \in seen)
            away == flush /\ usb.status[p] # "notconnected" /\ usb.driver[p] # None
            flushed == IF usb.status[p] = "notconnected"
                       THEN IF usb.resetFlag[p] THEN CheckDelayedResets(usb, p) ELSE usb
                       ELSE FlushEnd(gone, p)
            torn == flush /\ usb.status[p] # "notconnected" /\ p \notin Listed(usb)
            mixed == flush /\ RegAway
<1>5. /\ change' = [change EXCEPT ![p] = {}]
      /\ IF away THEN usb' = gone /\ irq' = [irq EXCEPT !.pc = "disconnect", !.seen = seen] /\ lock' = None
         ELSE usb' = Arrived(IF flush THEN flushed ELSE usb, p, seen) /\ GoOn(AtPort(p + 1))
      /\ calls' = IF flush THEN [calls EXCEPT ![p] = 0] ELSE calls
      /\ Slip(mixed, torn, FALSE)
      /\ UNCHANGED <<plug, plugs, reg, drivers>>
  BY <1>2, <1>3, <1>4 DEF HandlePort, WithStatus
<1>. HIDE DEF away, flushed, torn, mixed
<1>6. seen \in SUBSET {"plugged", "connection", "reset"}
  <2>1. change[p] \in SUBSET {"connection", "reset"}
    BY DEF IInv, Outside
  <2>. QED
    BY <1>3, <2>1
<1>7. Window = {} /\ lock = "irq" /\ reg.pc # "list"
  <2>1. lock = "irq"
    BY <1>1 DEF IInv, Threads
  <2>. QED
    BY <1>1, <2>1 DEF Window, IInv, Threads
<1>8. Core(usb, {}, Pure) /\ usb \in UsbType
  BY <1>7 DEF IInv, Ports, Core
<1>9. /\ slips \subseteq slips' /\ slips' \subseteq {"mixed", "torn", "stolen"}
      /\ "mixed" \in slips' <=> "mixed" \in slips \/ mixed
      /\ "torn" \in slips' <=> "torn" \in slips \/ torn
      /\ "stolen" \in slips' <=> "stolen" \in slips
  <2>1. slips \subseteq {"mixed", "torn", "stolen"}
    BY DEF IInv, Outside
  <2>2. PICK m, t : m = mixed /\ t = torn
    OBVIOUS
  <2>3. Slip(m, t, FALSE)
    BY <1>5, <2>2
  <2>4. /\ slips \subseteq slips' /\ slips' \subseteq {"mixed", "torn", "stolen"}
        /\ "mixed" \in slips' <=> "mixed" \in slips \/ m
        /\ "torn" \in slips' <=> "torn" \in slips \/ t
        /\ "stolen" \in slips' <=> "stolen" \in slips \/ FALSE
    BY <2>1, <2>3, SlipAdds, Zenon
  <2>. QED
    BY <2>2, <2>4
<1>10. Outside'
  <2>1. calls' \in [Port -> Nat] /\ change' \in [Port -> SUBSET {"connection", "reset"}]
    BY <1>5 DEF IInv, Outside
  <2>2. lock' \in {None, "irq", "reg"}
    BY <1>5 DEF GoOn, Holder
  <2>. QED
    BY <1>5, <1>9, <2>1, <2>2 DEF IInv, Outside
<1>11. \A q \in Port : calls'[q] = IF flush /\ q = p THEN 0 ELSE calls[q]
  BY <1>5 DEF IInv, Outside
<1>12. "torn" \notin slips' /\ flush /\ usb.status[p] # "notconnected" => OnList(usb, p)
  <2>1. Chain(usb)
    BY <1>8 DEF Core
  <2>. QED
    BY <1>8, <1>9, <2>1, ListedOn DEF torn
<1>13. Pure' => Pure /\ (flush => ~RegAway)
  BY <1>9 DEF Pure, mixed
<1>14. Elsewhere(usb, gone, p) /\ gone.status[p] = "notconnected" /\ gone.request = usb.request
  <2>1. "notconnected" \in Status
    BY DEF Status
  <2>. QED
    BY <1>4, <1>8, <2>1, StatusSet
<1>15. Core(gone, {p}, Pure)
  <2>1. {} \cup {p} = {p}
    OBVIOUS
  <2>2. Core(gone, {} \cup {p}, Pure)
    BY <1>8, <1>14, ElsewhereKeeps
  <2>. QED
    BY <2>1, <2>2
<1>16. Turn(usb, {}) => Turn(gone, {})
  BY <1>14, ElsewhereTurn
<1>17. /\ gone.driver = usb.driver /\ SameLinks(usb, gone) /\ gone \in UsbType
       /\ (Whole(gone) <=> Whole(usb)) /\ \A q : OnList(gone, q) <=> OnList(usb, q)
  BY <1>14 DEF Elsewhere, SameLinks, OnList, Whole
<1>18. None # "irq" /\ None # "reg"
  BY PortsAssumption
<1>19. CASE away
  <2>1. usb' = gone /\ irq' = [irq EXCEPT !.pc = "disconnect", !.seen = seen] /\ lock' = None
    BY <1>5, <1>19
  <2>2. irq'.pc = "disconnect" /\ irq'.port = p
        /\ irq' \in [pc : {"idle", "rhsc", "disconnect", "after", "offer", "probe", "connect"},
              port : 0 .. NumPorts, drv : 0 .. 2, seen : SUBSET {"plugged", "connection", "reset"}]
    BY <1>2, <1>6, <2>1 DEF IInv, Threads
  <2>3. Window' = {p}
    BY <2>2 DEF Window
  <2>4. flush /\ usb.status[p] # "notconnected"
    BY <1>19 DEF away
  <2>5. Core(gone, {p}, Pure')
    <3>1. {p} \subseteq {p}
      OBVIOUS
    <3>. QED
      BY <1>13, <1>15, <3>1, CoreLess
  <2>6. Ports'
    <3>1. "torn" \notin slips' => Whole(usb) /\ OnList(usb, p)
      BY <1>9, <1>12, <2>4 DEF IInv, Ports
    <3>2. "stolen" \notin slips' => Turn(gone, {})
      BY <1>9, <1>16 DEF IInv, Ports
    <3>. QED
      BY <1>14, <1>17, <2>1, <2>3, <2>5, <3>1, <3>2 DEF Ports
  <2>7. Threads'
    BY <1>2, <1>5, <1>7, <1>18, <2>1, <2>2 DEF IInv, Threads
  <2>8. ASSUME Pure' PROVE Apart'
    <3>1. Apart /\ reg.pc \in {"start", "done"} /\ reg' = reg
      BY <1>5, <1>7, <1>13, <2>4, <2>8 DEF IInv, Threads, RegAway
    <3>2. \A q \in Port : calls'[q] = IF gone.driver[q] = None \/ q \in {p} THEN 0 ELSE 1
      BY <1>7, <1>11, <1>17, <2>4, <3>1 DEF Apart
    <3>3. "torn" \notin slips' => \A q \in Port : gone.driver[q] # None => OnList(gone, q)
      BY <1>9, <1>17, <3>1 DEF Apart
    <3>. QED
      BY <2>1, <2>2, <2>3, <3>1, <3>2, <3>3 DEF Apart
  <2>. QED
    BY <1>10, <2>6, <2>7, <2>8 DEF IInv
<1>20. CASE ~away
  <2>1. usb' = Arrived(IF flush THEN flushed ELSE usb, p, seen) /\ irq' = AtPort(p + 1) /\ lock' = Holder(AtPort(p + 1))
    BY <1>5, <1>20 DEF GoOn
  <2>2. PICK j : j = AtPort(p + 1)
    OBVIOUS
  <2>3. j \in [pc : {"idle", "rhsc"}, port : 0 .. NumPorts, drv : {0}, seen : {{}}]
        /\ (j.pc # "idle" => j.port \in Port) /\ lock' = IF j.pc = "rhsc" THEN "irq" ELSE None
    BY <2>1, <2>2, NextPort
  <2>4. Threads' /\ irq'.pc \in {"idle", "rhsc"}
    BY <1>5, <1>7, <1>18, <2>1, <2>2, <2>3 DEF IInv, Threads
  <2>5. Ports' /\ (Pure => Apart)'
    <3>1. CASE flush /\ usb.status[p] # "notconnected"
      <4>1. PICK u : u = FlushEnd(gone, p)
        OBVIOUS
      <4>2. Flushes(gone, p, Pure, u)
        BY <1>14, <1>15, <4>1, FlushKeeps
      <4>3. usb' = Arrived(u, p, seen)
        BY <2>1, <3>1, <4>1 DEF flushed
      <4>4. Goes(u, usb', Pure)
        BY <4>2, <4>3, ArrivedGoes DEF Flushes
      <4>5. Flushes(gone, p, Pure, usb')
        BY <4>2, <4>4, LeavesThenGoes
      <4>6. reg' = reg /\ Window \subseteq {p}
        BY <1>5, <1>7
      <4>7. \A q \in Port : calls'[q] = IF q = p THEN 0 ELSE calls[q]
        BY <1>11, <3>1
      <4>8. ("torn" \notin slips' => OnList(usb, p)) /\ (Pure' => ~RegAway)
        BY <1>12, <1>13, <3>1
      <4>. QED
        BY <1>7, <1>9, <1>16, <1>17, <2>4, <4>5, <4>6, <4>7, <4>8, LeftHolds
    <3>2. CASE ~(flush /\ usb.status[p] # "notconnected")
      <4>1. PICK u : u = IF flush THEN flushed ELSE usb
        OBVIOUS
      <4>2. Goes(usb, u, Pure)
        <5>1. CASE flush
          <6>1. usb.status[p] = "notconnected" /\ u = IF usb.resetFlag[p] THEN CheckDelayedResets(usb, p) ELSE usb
            BY <3>2, <4>1, <5>1 DEF flushed
          <6>. QED
            BY <1>8, <6>1, FlushNoneGoes
        <5>2. CASE ~flush
          BY <1>8, <4>1, <5>2 DEF Goes, SameLinks
        <5>. QED
          BY <5>1, <5>2
      <4>3. Goes(usb, usb', Pure)
        <5>1. Goes(u, usb', Pure)
          BY <2>1, <4>1, <4>2, ArrivedGoes DEF Goes
        <5>. QED
          BY <4>2, <5>1, GoesOn
      <4>4. ASSUME Pure PROVE \A q \in Port : calls'[q] = calls[q]
        <5>1. CASE flush
          <6>1. usb.status[p] = "notconnected"
            BY <3>2, <5>1
          <6>2. Bare(usb, p, Pure)
            BY <1>8, <6>1, DelayedIs
          <6>3. usb.driver[p] = None
            BY <4>4, <6>2 DEF Bare, Held
          <6>4. calls[p] = 0
            BY <4>4, <6>3 DEF IInv, Apart
          <6>. QED
            BY <1>11, <6>4
        <5>2. CASE ~flush
          BY <1>11, <5>2
        <5>. QED
          BY <5>1, <5>2
      <4>5. "stolen" \notin slips' /\ Turn(usb, {}) => Turn(usb', {})
        BY <4>3 DEF Goes
      <4>6. Core(usb', {}, Pure) /\ SameLinks(usb, usb') /\ usb'.driver = usb.driver /\ reg' = reg
        BY <1>5, <4>3 DEF Goes
      <4>. QED
        BY <1>1, <1>9, <2>4, <4>4, <4>5, <4>6, GoesHolds
    <3>. QED
      BY <3>1, <3>2
  <2>. QED
    BY <1>10, <2>4, <2>5 DEF IInv
<1>. QED
  BY <1>19, <1>20

-----------------------------------------------------------------------------
(* The threads                                                             *)

\* A thread moves on and the devices stay as they are.
LEMMA MovesHolds ==
  ASSUME IInv, usb' = usb, Window' = Window, slips \subseteq slips', slips' \subseteq {"mixed", "torn", "stolen"},
         lock' \in {None, "irq", "reg"}, UNCHANGED <<plug, plugs, change, calls>>, Threads', Pure' => Apart'
  PROVE  IInv'
<1>1. Ports'
  BY StaysHolds
<1>2. Outside'
  BY DEF IInv, Outside
<1>. QED
  BY <1>1, <1>2 DEF IInv

\* None is not a thread.
LEMMA NoneIs == None # "irq" /\ None # "reg" /\ None # Hub /\ None # Late /\ Hub # Late
BY PortsAssumption

\* The drivers by their places.
LEMMA DriversAre ==
  /\ Len(<<Hub>>) = 1 /\ <<Hub>>[1] = Hub /\ Append(<<Hub>>, Late) = <<Hub, Late>>
  /\ Len(<<Hub, Late>>) = 2 /\ <<Hub, Late>>[1] = Hub /\ <<Hub, Late>>[2] = Late
<1>1. Len(<<Hub>>) = 1 /\ <<Hub>>[1] = Hub
  OBVIOUS
<1>2. Len(<<Hub, Late>>) = 2 /\ <<Hub, Late>>[1] = Hub /\ <<Hub, Late>>[2] = Late
  OBVIOUS
<1>3. Append(<<Hub>>, Late) = <<Hub, Late>>
  <2>1. <<Hub>> \in Seq(Driver) /\ <<Hub, Late>> \in Seq(Driver) /\ Late \in Driver
    BY DEF Driver
  <2>2. PICK r \in Seq(Driver) : r = <<Hub>> /\ Len(r) = 1 /\ r[1] = Hub
    BY <1>1, <2>1
  <2>3. PICK t \in Seq(Driver) : t = Append(r, Late) /\ Len(t) = 2 /\ t[1] = Hub /\ t[2] = Late
    <3>1. Append(r, Late) \in Seq(Driver) /\ Len(Append(r, Late)) = 2
          /\ Append(r, Late)[1] = Hub /\ Append(r, Late)[2] = Late
      BY <2>1, <2>2
    <3>. QED
      BY <3>1
  <2>4. PICK u \in Seq(Driver) : u = <<Hub, Late>> /\ Len(u) = 2 /\ u[1] = Hub /\ u[2] = Late
    BY <1>2, <2>1
  <2>5. \A i \in 1 .. Len(t) : t[i] = u[i]
    BY <2>3, <2>4
  <2>6. t = u
    BY <2>3, <2>4, <2>5, SeqEqual
  <2>. QED
    BY <2>2, <2>3, <2>4, <2>6
<1>. QED
  BY <1>1, <1>2, <1>3

\* The host controller's interrupt.
LEMMA InterruptHolds ==
  ASSUME IInv, Interrupt
  PROVE  IInv'
<1>1. irq.pc = "idle" /\ lock = None /\ reg.pc # "list" /\ Window = {}
  BY FreeIs DEF Interrupt
<1>2. NumPorts \in Nat /\ NumPorts # 0
  BY PortsAssumption
<1>3. UNCHANGED <<plug, plugs, change, usb, reg, drivers, calls>> /\ slips' = slips
  BY DEF Interrupt
<1>4. irq' = [pc |-> "rhsc", port |-> 1, drv |-> 0, seen |-> {}] /\ lock' = "irq"
  <2>1. AtPort(1) = [pc |-> "rhsc", port |-> 1, drv |-> 0, seen |-> {}]
    <3>1. ~(1 > NumPorts)
      BY <1>2
    <3>. QED
      BY <3>1 DEF AtPort, Idle
  <2>2. Holder(AtPort(1)) = "irq"
    BY <2>1 DEF Holder
  <2>. QED
    BY <2>1, <2>2 DEF Interrupt, GoOn
<1>5. Window' = {}
  BY <1>4 DEF Window
<1>6. Threads'
  <2>1. 1 \in Port /\ 1 \in 0 .. NumPorts
    BY <1>2 DEF Port
  <2>. QED
    BY <1>1, <1>3, <1>4, <2>1, NoneIs DEF IInv, Threads
<1>7. Pure' => Apart'
  BY <1>1, <1>3, <1>4, <1>5 DEF IInv, Apart, Pure
<1>. QED
  BY <1>1, <1>3, <1>4, <1>5, <1>6, <1>7, MovesHolds DEF IInv, Outside

\* connectNewDevice, for the next driver.
LEMMA OfferHolds ==
  ASSUME IInv, Offer
  PROVE  IInv'
<1>1. irq.pc = "offer" /\ UNCHANGED <<plug, plugs, change, usb, reg, drivers, calls, slips>>
  BY DEF Offer
<1>2. lock = "irq" /\ reg.pc # "list" /\ Window = {} /\ irq.port \in Port /\ irq.drv \in 1 .. 2
  <2>1. lock = "irq"
    BY <1>1 DEF IInv, Threads
  <2>. QED
    BY <1>1, <2>1 DEF IInv, Threads, Window
<1>3. CASE irq.drv > Len(drivers)
  <2>1. irq' = [pc |-> "idle", port |-> 0, drv |-> 0, seen |-> {}] /\ lock' = None
    BY <1>3 DEF Offer, GoOn, Holder, Idle
  <2>2. Threads'
    <3>1. 0 \in 0 .. NumPorts
      BY PortsAssumption
    <3>. QED
      BY <1>1, <1>2, <2>1, <3>1, NoneIs DEF IInv, Threads
  <2>3. Window' = Window
    BY <1>2, <2>1 DEF Window
  <2>4. Pure' => Apart'
    BY <1>1, <2>1, <2>3 DEF IInv, Apart, Pure
  <2>. QED
    BY <1>1, <2>1, <2>2, <2>3, <2>4, MovesHolds DEF IInv, Outside
<1>4. CASE ~(irq.drv > Len(drivers))
  <2>1. irq' = [irq EXCEPT !.pc = "probe"] /\ lock' = None
    BY <1>4 DEF Offer
  <2>2. irq'.pc = "probe" /\ irq'.port = irq.port /\ irq'.drv = irq.drv
        /\ irq' \in [pc : {"idle", "rhsc", "disconnect", "after", "offer", "probe", "connect"},
              port : 0 .. NumPorts, drv : 0 .. 2, seen : SUBSET {"plugged", "connection", "reset"}]
    BY <2>1 DEF IInv, Threads
  <2>3. irq.drv = 1 \/ (irq.drv = 2 /\ reg.pc # "start")
    <3>1. reg.pc = "start" => Len(drivers) = 1
      BY DriversAre DEF IInv, Threads
    <3>2. CASE reg.pc = "start"
      <4>1. PICK n : n = Len(drivers) /\ n = 1
        BY <3>1, <3>2
      <4>2. ~(irq.drv > n)
        BY <1>4, <4>1
      <4>. QED
        BY <1>2, <4>1, <4>2
    <3>3. CASE reg.pc # "start"
      BY <1>2, <3>3
    <3>. QED
      BY <3>2, <3>3
  <2>4. Threads'
    BY <1>1, <1>2, <2>1, <2>2, <2>3, NoneIs DEF IInv, Threads
  <2>5. Window' = Window
    BY <1>2, <2>2 DEF Window
  <2>6. Pure' => Apart'
    BY <1>1, <2>2, <2>5 DEF IInv, Apart, Pure
  <2>. QED
    BY <1>1, <2>1, <2>4, <2>5, <2>6, MovesHolds DEF IInv, Outside
<1>. QED
  BY <1>3, <1>4

\* callUsbDriverFunc returns from connect.
LEMMA ConnectReturnsHolds ==
  ASSUME IInv, ConnectReturns
  PROVE  IInv'
<1>1. irq.pc = "connect" /\ lock = None /\ UNCHANGED <<plug, plugs, change, usb, reg, drivers, lock, calls, slips>>
      /\ irq' = [pc |-> "idle", port |-> 0, drv |-> 0, seen |-> {}]
  BY DEF ConnectReturns, Idle
<1>2. Threads'
  <2>1. 0 \in 0 .. NumPorts
    BY PortsAssumption
  <2>. QED
    BY <1>1, <2>1, NoneIs DEF IInv, Threads
<1>3. Window' = Window
  BY <1>1 DEF Window
<1>4. Pure' => Apart'
  BY <1>1, <1>3 DEF IInv, Apart, Pure
<1>. QED
  BY <1>1, <1>2, <1>3, <1>4, MovesHolds DEF IInv, Outside

\* A device has another driver.
WithDriver(s, p, d) == [s EXCEPT !.driver[p] = d]
LEMMA DriverSet ==
  ASSUME NEW s, NEW X, NEW pure, Core(s, X, pure), NEW p \in Port, pure => OnList(s, p),
         NEW d \in Driver, NEW t, t = WithDriver(s, p, d)
  PROVE  /\ Core(t, X, pure) /\ t.status = s.status /\ t.driver = [s.driver EXCEPT ![p] = d]
         /\ \A q : OnList(t, q) <=> OnList(s, q)
         /\ (Whole(t) <=> Whole(s)) /\ (Turn(t, {}) <=> Turn(s, {}))
<1>1. s \in UsbType
  BY DEF Core
<1>2. s.driver \in [Port -> Driver \cup {None}]
  BY <1>1, Fields
<1>3. PICK f : f = [s.driver EXCEPT ![p] = d]
  OBVIOUS
<1>4. f \in [Port -> Driver \cup {None}] /\ \A q \in Port : q # p => f[q] = s.driver[q]
  BY <1>2, <1>3
<1>5. t = [s EXCEPT !.driver = f]
  BY <1>3 DEF WithDriver
<1>6. /\ t \in UsbType /\ SameLinks(s, t) /\ SameEps(s, t) /\ SameTurn(s, t) /\ t.timers = s.timers
      /\ t.status = s.status /\ t.request = s.request /\ t.driver = f
  BY <1>1, <1>4, <1>5 DEF UsbType, SameLinks, SameEps, SameTurn
<1>7. \A q : OnList(t, q) <=> OnList(s, q)
  BY <1>6 DEF SameLinks, OnList
<1>8. Whose(t) /\ Chain(t)
  BY <1>6 DEF Core, Whose, Owned, Dying, SameEps, SameLinks, Chain, Ascends
<1>9. \A q \in Port : q \notin X => q \notin X /\ Alike(s, t, q, pure)
  BY <1>4, <1>6, <1>7 DEF Alike, Held
<1>10. Devices(t, X, pure)
  BY <1>9, DevicesKept DEF Core
<1>11. Core(t, X, pure)
  BY <1>6, <1>8, <1>10 DEF Core
<1>12. (Whole(t) <=> Whole(s)) /\ (Turn(t, {}) <=> Turn(s, {}))
  BY <1>6, <1>7 DEF Whole, SameLinks, Turn, SameTurn
<1>. QED
  BY <1>3, <1>6, <1>7, <1>11, <1>12

\* callUsbDriverFunc returns from probe.
LEMMA ProbeReturnsHolds ==
  ASSUME IInv, ProbeReturns
  PROVE  IInv'
<1>1. irq.pc = "probe" /\ lock = None /\ UNCHANGED <<plug, plugs, change, reg, drivers, slips>>
  BY DEF ProbeReturns
<1>2. PICK p \in Port : p = irq.port
  BY <1>1 DEF IInv, Threads
<1>3. Window = {} /\ reg.pc # "list" /\ (irq.drv = 1 \/ (irq.drv = 2 /\ reg.pc # "start"))
  BY <1>1, NoneIs DEF IInv, Threads, Window
<1>4. CASE drivers[irq.drv] = Late
  <2>1. PICK t : t = WithDriver(usb, p, Late)
    OBVIOUS
  <2>2. usb' = t /\ calls' = [calls EXCEPT ![p] = @ + 1] /\ irq' = [irq EXCEPT !.pc = "connect"] /\ lock' = lock
    BY <1>2, <1>4, <2>1 DEF ProbeReturns, Wants, WithDriver
  <2>3. irq'.pc = "connect" /\ irq'.port = irq.port
        /\ irq' \in [pc : {"idle", "rhsc", "disconnect", "after", "offer", "probe", "connect"},
              port : 0 .. NumPorts, drv : 0 .. 2, seen : SUBSET {"plugged", "connection", "reset"}]
    BY <2>2 DEF IInv, Threads
  <2>4. Window' = {}
    BY <2>3 DEF Window
  <2>5. Pure => Apart /\ OnList(usb, p) /\ usb.driver[p] = None
    BY <1>1, <1>2 DEF IInv, Apart
  <2>6. /\ Core(t, {}, Pure) /\ t.status = usb.status /\ t.driver = [usb.driver EXCEPT ![p] = Late]
        /\ \A q : OnList(t, q) <=> OnList(usb, q)
        /\ (Whole(t) <=> Whole(usb)) /\ (Turn(t, {}) <=> Turn(usb, {}))
    <3>1. Core(usb, {}, Pure) /\ Late \in Driver
      BY <1>3 DEF IInv, Ports, Driver
    <3>. QED
      BY <2>1, <2>5, <3>1, DriverSet
  <2>7. Pure' = Pure
    BY <1>1 DEF Pure
  <2>8. Ports'
    BY <1>1, <2>2, <2>4, <2>6, <2>7 DEF IInv, Ports
  <2>9. Threads'
    BY <1>1, <1>2, <1>3, <2>2, <2>3, NoneIs DEF IInv, Threads
  <2>10. Outside'
    <3>1. calls' \in [Port -> Nat]
      BY <2>2 DEF IInv, Outside
    <3>. QED
      BY <1>1, <2>2, <3>1 DEF IInv, Outside
  <2>11. ASSUME Pure' PROVE Apart'
    <3>1. Apart /\ OnList(usb, p) /\ usb.driver[p] = None /\ reg.pc \in {"start", "done"}
      BY <1>1, <2>5, <2>7, <2>11 DEF Apart
    <3>2. calls \in [Port -> Nat] /\ usb.driver \in [Port -> Driver \cup {None}]
      BY Fields DEF IInv, Outside, Ports, Core
    <3>3. calls[p] = 0
      BY <1>3, <3>1 DEF Apart
    <3>4. \A q \in Port : calls'[q] = IF t.driver[q] = None \/ q \in {} THEN 0 ELSE 1
      BY <1>3, <2>2, <2>6, <3>1, <3>2, <3>3, NoneIs DEF Apart
    <3>5. "torn" \notin slips' => \A q \in Port : t.driver[q] # None => OnList(t, q)
      BY <1>1, <2>6, <3>1, <3>2 DEF Apart
    <3>. QED
      BY <1>1, <2>2, <2>3, <2>4, <3>1, <3>4, <3>5 DEF Apart
  <2>. QED
    BY <2>8, <2>9, <2>10, <2>11 DEF IInv
<1>5. CASE drivers[irq.drv] # Late
  <2>1. irq.drv = 1
    BY <1>3, <1>5, DriversAre DEF IInv, Threads
  <2>2. irq' = [irq EXCEPT !.pc = "offer", !.drv = @ + 1] /\ lock' = "irq" /\ usb' = usb /\ calls' = calls
    BY <1>5 DEF ProbeReturns, Wants
  <2>3. irq'.pc = "offer" /\ irq'.port = irq.port /\ irq'.drv = 2
        /\ irq' \in [pc : {"idle", "rhsc", "disconnect", "after", "offer", "probe", "connect"},
              port : 0 .. NumPorts, drv : 0 .. 2, seen : SUBSET {"plugged", "connection", "reset"}]
    <3>1. irq.drv + 1 = 2 /\ 2 \in 0 .. 2
      BY <2>1
    <3>2. irq' = [irq EXCEPT !.pc = "offer", !.drv = 2]
      BY <2>2, <3>1
    <3>. QED
      BY <3>1, <3>2 DEF IInv, Threads
  <2>4. Window' = Window
    BY <1>3, <2>3 DEF Window
  <2>5. Threads'
    BY <1>1, <1>2, <1>3, <2>2, <2>3, NoneIs DEF IInv, Threads
  <2>6. Pure' => Apart'
    BY <1>1, <2>2, <2>3, <2>4 DEF IInv, Apart, Pure
  <2>. QED
    BY <1>1, <2>2, <2>4, <2>5, <2>6, MovesHolds DEF IInv, Outside
<1>. QED
  BY <1>4, <1>5

\* doRegisterDriver.
LEMMA RegisterHolds ==
  ASSUME IInv, Register
  PROVE  IInv'
<1>1. reg.pc = "start" /\ lock = None /\ lock' = "reg" /\ UNCHANGED <<plug, plugs, change, usb, irq, calls>>
      /\ reg' = [pc |-> "list", cur |-> usb.first]
  BY DEF Register
<1>2. usb \in UsbType /\ irq.pc \notin {"rhsc", "offer"}
  BY <1>1, NoneIs DEF IInv, Ports, Core, Threads
<1>3. usb.first \in {0} \cup Port
  BY <1>2, Fields
<1>4. drivers' = <<Hub, Late>>
  BY <1>1, DriversAre DEF Register, IInv, Threads
<1>5. /\ slips \subseteq slips' /\ slips' \subseteq {"mixed", "torn", "stolen"}
      /\ "mixed" \in slips' <=> "mixed" \in slips \/ IrqAway
      /\ "torn" \in slips' <=> "torn" \in slips
  <2>1. slips \subseteq {"mixed", "torn", "stolen"}
    BY DEF IInv, Outside
  <2>2. PICK away : away = IrqAway
    OBVIOUS
  <2>3. Slip(away, FALSE, FALSE)
    BY <2>2 DEF Register
  <2>4. /\ slips \subseteq slips' /\ slips' \subseteq {"mixed", "torn", "stolen"}
        /\ "mixed" \in slips' <=> "mixed" \in slips \/ away
        /\ "torn" \in slips' <=> "torn" \in slips \/ FALSE
        /\ "stolen" \in slips' <=> "stolen" \in slips \/ FALSE
    BY <2>1, <2>3, SlipAdds, Zenon
  <2>. QED
    BY <2>2, <2>4
<1>6. Threads'
  <2>1. reg' \in [pc : {"start", "list", "probe", "connect", "done"}, cur : {0} \cup Port] /\ reg'.pc = "list"
    BY <1>1, <1>3
  <2>. QED
    BY <1>1, <1>2, <1>4, <2>1, NoneIs DEF IInv, Threads
<1>7. Window' = Window
  BY <1>1 DEF Window
<1>8. ASSUME Pure' PROVE Apart'
  <2>1. Apart /\ irq.pc \notin {"offer", "probe", "connect", "disconnect"}
    BY <1>2, <1>5, <1>8 DEF Pure, IInv, IrqAway
  <2>2. reg'.pc = "list" /\ reg'.cur = usb.first
    BY <1>1
  <2>3. reg'.cur # 0 => OnList(usb, reg'.cur)
    BY <2>2 DEF OnList
  <2>. QED
    BY <1>1, <1>5, <1>7, <2>1, <2>2, <2>3 DEF Apart
<1>. QED
  BY <1>1, <1>5, <1>6, <1>7, <1>8, MovesHolds

\* The next device of the list is on it.
LEMMA NextOn ==
  ASSUME NEW s, s \in UsbType, Chain(s), NEW p \in Port
  PROVE  s.next[p] \in {0} \cup Port /\ (s.next[p] # 0 => OnList(s, s.next[p]))
<1>1. s.next[p] \in {0} \cup Port /\ 0 \notin Port
  BY Fields, PortIs
<1>. QED
  BY <1>1 DEF Chain, OnList

\* probeDeviceConnectList, for the next device.
LEMMA LookHolds ==
  ASSUME IInv, Look
  PROVE  IInv'
<1>1. reg.pc = "list" /\ lock = "reg" /\ UNCHANGED <<plug, plugs, change, usb, irq, drivers, calls, slips>>
  BY DEF Look
<1>2. usb \in UsbType /\ Chain(usb) /\ irq.pc \notin {"rhsc", "offer"} /\ Window' = Window
  BY <1>1 DEF IInv, Ports, Core, Threads, Window
<1>3. reg.cur # 0 => reg.cur \in Port
  BY DEF IInv, Threads
<1>4. Pure' => Pure /\ Apart /\ irq.pc \notin {"offer", "probe", "connect", "disconnect"}
  BY <1>1 DEF Pure, IInv, Apart
<1>5. Threads' /\ (Pure' => Apart') /\ lock' \in {None, "irq", "reg"}
  <2>1. CASE reg.cur = 0
    <3>1. reg' = [reg EXCEPT !.pc = "done"] /\ lock' = None
      BY <2>1 DEF Look
    <3>2. reg' \in [pc : {"start", "list", "probe", "connect", "done"}, cur : {0} \cup Port] /\ reg'.pc = "done"
      BY <3>1 DEF IInv, Threads
    <3>3. Threads'
      BY <1>1, <1>2, <3>1, <3>2, NoneIs DEF IInv, Threads
    <3>. QED
      BY <1>1, <1>2, <1>4, <3>1, <3>2, <3>3 DEF Apart
  <2>2. CASE reg.cur # 0 /\ usb.status[reg.cur] = "ready" /\ usb.driver[reg.cur] = None
    <3>1. reg' = [reg EXCEPT !.pc = "probe"] /\ lock' = None
      BY <2>2 DEF Look
    <3>2. reg' \in [pc : {"start", "list", "probe", "connect", "done"}, cur : {0} \cup Port]
          /\ reg'.pc = "probe" /\ reg'.cur = reg.cur
      BY <3>1 DEF IInv, Threads
    <3>3. Threads'
      BY <1>1, <1>2, <1>3, <2>2, <3>1, <3>2, NoneIs DEF IInv, Threads
    <3>. QED
      BY <1>1, <1>2, <1>4, <2>2, <3>1, <3>2, <3>3 DEF Apart
  <2>3. CASE reg.cur # 0 /\ ~(usb.status[reg.cur] = "ready" /\ usb.driver[reg.cur] = None)
    <3>1. reg' = [reg EXCEPT !.cur = usb.next[@]] /\ lock' = lock
      BY <2>3 DEF Look
    <3>2. PICK n \in {0} \cup Port : n = usb.next[reg.cur] /\ (n # 0 => OnList(usb, n))
      BY <1>2, <1>3, <2>3, NextOn
    <3>3. reg' \in [pc : {"start", "list", "probe", "connect", "done"}, cur : {0} \cup Port]
          /\ reg'.pc = "list" /\ reg'.cur = n
      BY <1>1, <3>1, <3>2 DEF IInv, Threads
    <3>4. Threads'
      BY <1>1, <1>2, <3>1, <3>3, NoneIs DEF IInv, Threads
    <3>. QED
      BY <1>1, <1>2, <1>4, <3>1, <3>2, <3>3, <3>4 DEF Apart
  <2>. QED
    BY <2>1, <2>2, <2>3
<1>6. slips \subseteq slips' /\ slips' \subseteq {"mixed", "torn", "stolen"}
  BY <1>1 DEF IInv, Outside
<1>. QED
  BY <1>1, <1>2, <1>5, <1>6, MovesHolds

\* callUsbDriverFunc returns from connect, for the driver that registers.
LEMMA RegConnectReturnsHolds ==
  ASSUME IInv, RegConnectReturns
  PROVE  IInv'
<1>1. reg.pc = "connect" /\ lock = None /\ lock' = "reg" /\ reg' = [pc |-> "list", cur |-> usb.next[reg.cur]]
      /\ UNCHANGED <<plug, plugs, change, usb, irq, drivers, calls, slips>>
  BY DEF RegConnectReturns
<1>2. usb \in UsbType /\ Chain(usb) /\ irq.pc \notin {"rhsc", "offer"} /\ Window' = Window /\ reg.cur \in Port
  BY <1>1, NoneIs DEF IInv, Ports, Core, Threads, Window
<1>3. PICK n \in {0} \cup Port : n = usb.next[reg.cur] /\ (n # 0 => OnList(usb, n))
  BY <1>2, NextOn
<1>4. reg' \in [pc : {"start", "list", "probe", "connect", "done"}, cur : {0} \cup Port]
      /\ reg'.pc = "list" /\ reg'.cur = n
  BY <1>1, <1>3
<1>5. Threads'
  BY <1>1, <1>2, <1>4, NoneIs DEF IInv, Threads
<1>6. Pure' => Apart'
  <2>1. Pure' => Pure /\ Apart /\ irq.pc \notin {"offer", "probe", "connect", "disconnect"}
    BY <1>1 DEF Pure, IInv, Apart
  <2>. QED
    BY <1>1, <1>2, <1>3, <1>4, <2>1 DEF Apart
<1>7. slips \subseteq slips' /\ slips' \subseteq {"mixed", "torn", "stolen"}
  BY <1>1 DEF IInv, Outside
<1>. QED
  BY <1>1, <1>2, <1>5, <1>6, <1>7, MovesHolds

\* callUsbDriverFunc returns from probe, for the driver that registers.
LEMMA RegProbeReturnsHolds ==
  ASSUME IInv, RegProbeReturns
  PROVE  IInv'
<1>1. reg.pc = "probe" /\ lock = None /\ UNCHANGED <<plug, plugs, change, irq, drivers, lock, slips>>
      /\ reg' = [reg EXCEPT !.pc = "connect"]
  BY DEF RegProbeReturns
<1>2. PICK p \in Port : p = reg.cur
  BY <1>1 DEF IInv, Threads
<1>3. PICK t : t = WithDriver(usb, p, Late)
  OBVIOUS
<1>4. usb' = t /\ calls' = [calls EXCEPT ![p] = @ + 1]
  BY <1>2, <1>3 DEF RegProbeReturns, WithDriver
<1>5. Window' = Window /\ Pure' = Pure
  BY <1>1 DEF Window, Pure
<1>6. Pure => Apart /\ OnList(usb, p) /\ usb.driver[p] = None
              /\ irq.pc \notin {"offer", "probe", "connect", "disconnect"} /\ Window = {}
  <2>1. 0 \notin Port
    BY PortIs
  <2>. QED
    BY <1>1, <1>2, <2>1 DEF IInv, Apart, Window
<1>7. /\ Core(t, Window, Pure) /\ t.status = usb.status /\ t.driver = [usb.driver EXCEPT ![p] = Late]
      /\ \A q : OnList(t, q) <=> OnList(usb, q)
      /\ (Whole(t) <=> Whole(usb)) /\ (Turn(t, {}) <=> Turn(usb, {}))
  <2>1. Core(usb, Window, Pure) /\ Late \in Driver
    BY DEF IInv, Ports, Driver
  <2>. QED
    BY <1>3, <1>6, <2>1, DriverSet
<1>8. Ports'
  BY <1>1, <1>4, <1>5, <1>7 DEF IInv, Ports
<1>9. reg' \in [pc : {"start", "list", "probe", "connect", "done"}, cur : {0} \cup Port]
      /\ reg'.pc = "connect" /\ reg'.cur = p
  BY <1>1, <1>2 DEF IInv, Threads
<1>10. Threads'
  BY <1>1, <1>9, NoneIs DEF IInv, Threads
<1>11. Outside'
  <2>1. calls' \in [Port -> Nat]
    BY <1>4 DEF IInv, Outside
  <2>. QED
    BY <1>1, <2>1 DEF IInv, Outside
<1>12. ASSUME Pure' PROVE Apart'
  <2>1. Apart /\ OnList(usb, p) /\ usb.driver[p] = None
        /\ irq.pc \notin {"offer", "probe", "connect", "disconnect"} /\ Window = {}
    BY <1>5, <1>6, <1>12
  <2>2. calls \in [Port -> Nat] /\ usb.driver \in [Port -> Driver \cup {None}]
    BY Fields DEF IInv, Outside, Ports, Core
  <2>3. calls[p] = 0
    BY <2>1 DEF Apart
  <2>4. \A q \in Port : calls'[q] = IF t.driver[q] = None \/ q \in {} THEN 0 ELSE 1
    BY <1>4, <1>7, <2>1, <2>2, <2>3, NoneIs DEF Apart
  <2>5. "torn" \notin slips' => \A q \in Port : t.driver[q] # None => OnList(t, q)
    BY <1>1, <1>7, <2>1, <2>2 DEF Apart
  <2>. QED
    BY <1>1, <1>4, <1>5, <1>7, <1>9, <2>1, <2>4, <2>5 DEF Apart
<1>. QED
  BY <1>8, <1>10, <1>11, <1>12 DEF IInv

\* Every step keeps the invariant.
LEMMA NextHolds == IInv /\ [Next]_vars => IInv'
<1>. SUFFICES ASSUME IInv, [Next]_vars PROVE IInv'
  OBVIOUS
<1>1. CASE IrqStep
  BY <1>1, InterruptHolds, OfferHolds, ProbeReturnsHolds, ConnectReturnsHolds, DisconnectedHolds, HandlePortHolds,
     FrameHolds DEF IrqStep
<1>2. CASE RegStep
  BY <1>2, RegisterHolds, LookHolds, RegProbeReturnsHolds, RegConnectReturnsHolds DEF RegStep
<1>3. ASSUME NEW p \in Port, Answered(p) PROVE IInv'
  BY <1>3, AddressedHolds, DescribedHolds, ConfiguredHolds DEF Answered
<1>4. ASSUME NEW p \in Port, (\E k \in Kind : Plug(p, k)) \/ Unplug(p) PROVE IInv'
  BY <1>4, PlugHolds
<1>5. ASSUME NEW p \in Port, ResetDone(p) PROVE IInv'
  BY <1>5, ResetDoneHolds
<1>6. CASE UNCHANGED vars
  <2>1. UNCHANGED <<usb, irq, reg, drivers, lock, calls, slips>> /\ Outside'
    BY <1>6 DEF vars, IInv, Outside
  <2>. QED
    BY <2>1, OutsideHolds
<1>. QED
  BY <1>1, <1>2, <1>3, <1>4, <1>5, <1>6 DEF Next

\* So it always holds.
LEMMA Invariant == Spec => []IInv
BY InitHolds, NextHolds, PTL DEF Spec

-----------------------------------------------------------------------------
(* What is shown                                                           *)

\* The variables have their types.
THEOREM TypesRight == Spec => []TypeOK
<1>1. IInv => TypeOK
  <2>. SUFFICES ASSUME IInv PROVE TypeOK
    OBVIOUS
  <2>1. usb \in UsbType
    BY DEF IInv, Ports, Core
  <2>2. drivers \in Seq(Driver)
    <3>1. <<Hub>> \in Seq(Driver) /\ <<Hub, Late>> \in Seq(Driver)
      BY DEF Driver
    <3>. QED
      BY <3>1 DEF IInv, Threads
  <2>3. /\ usb.status \in [Port -> Status] /\ usb.resetFlag \in [Port -> BOOLEAN] /\ usb.delayResets \in BOOLEAN
        /\ usb.resetting \subseteq Port /\ usb.timers \in Seq(Timer)
        /\ usb.eps \in [Port -> Seq(Ep)] /\ usb.freeEps \subseteq Ep
        /\ usb.request \in [Port -> {"none", "address", "device", "config"}]
        /\ usb.tries \in [Port -> 0 .. MaxTries]
        /\ usb.first \in {0} \cup Port /\ usb.last \in {0} \cup Port
        /\ usb.next \in [Port -> {0} \cup Port] /\ usb.prev \in [Port -> {0} \cup Port]
        /\ usb.driver \in [Port -> Driver \cup {None}]
    BY <2>1, Fields
  <2>4. /\ irq.pc \in {"idle", "rhsc", "disconnect", "after", "offer", "probe", "connect"}
        /\ irq.port \in 0 .. NumPorts /\ irq.drv \in 0 .. 2
        /\ irq.seen \in SUBSET {"plugged", "connection", "reset"}
        /\ reg.pc \in {"start", "list", "probe", "connect", "done"} /\ reg.cur \in {0} \cup Port
    BY DEF IInv, Threads
  <2>. QED
    BY <2>2, <2>3, <2>4 DEF TypeOK, IInv, Outside
<1>. QED
  BY <1>1, Invariant, PTL

\* A set of ports is finite, and has at most one member when all its members are the same.
LEMMA AtMostOne ==
  ASSUME NEW S, NEW p, S \subseteq {p}
  PROVE  Cardinality(S) <= 1 /\ Cardinality(S) \in {0, 1}
<1>1. S = {} \/ S = {p}
  OBVIOUS
<1>2. Cardinality({}) = 0 /\ Cardinality({p}) = 1
  BY FS_EmptySet, FS_Singleton
<1>. QED
  BY <1>1, <1>2

\* At most one port is between the start of its reset and the address of its device, and
\* while resets are delayed one device has the turn; unless one has failed that had given it
\* back (hubResetDevice, checkDelayedResets, flushPort).
THEOREM ResetsInTurn == Spec => []OneReset
<1>1. IInv => OneReset
  <2>. SUFFICES ASSUME IInv, "stolen" \notin slips
                PROVE  /\ Cardinality(InReset) <= 1
                       /\ IF usb.delayResets THEN Cardinality({p \in Port : usb.resetFlag[p]}) = 1
                          ELSE \A p \in Port : ~usb.resetFlag[p] /\ usb.status[p] # "delayed"
    BY Zenon DEF OneReset
  <2>1. Turn(usb, {}) /\ usb \in UsbType
    BY DEF IInv, Ports, Core
  <2>2. usb.delayResets \in BOOLEAN /\ usb.resetFlag \in [Port -> BOOLEAN]
    BY <2>1, Fields
  <2>3. \A p \in Port : p \in InReset => usb.resetFlag[p] = TRUE
    BY <2>1 DEF Turn, InReset
  <2>4. CASE usb.delayResets = TRUE
    <3>1. PICK p \in Port : usb.resetFlag[p] = TRUE /\ \A q \in Port : usb.resetFlag[q] = TRUE => q = p
      BY <2>1, <2>4 DEF Turn
    <3>2. InReset \subseteq {p}
      BY <2>3, <3>1 DEF InReset
    <3>3. {q \in Port : usb.resetFlag[q]} = {p}
      BY <2>2, <3>1
    <3>4. Cardinality({p}) = 1
      BY FS_Singleton
    <3>. QED
      BY <2>4, <3>2, <3>3, <3>4, AtMostOne
  <2>5. CASE usb.delayResets = FALSE
    <3>1. \A p \in Port : usb.resetFlag[p] = FALSE /\ usb.status[p] # "delayed"
      BY <2>1, <2>5 DEF Turn
    <3>2. InReset \subseteq {0}
      BY <2>3, <3>1 DEF InReset
    <3>3. Cardinality(InReset) <= 1
      BY <3>2, AtMostOne
    <3>. QED
      BY <2>5, <3>1, <3>3
  <2>. QED
    BY <2>2, <2>4, <2>5
<1>. QED
  BY <1>1, Invariant, PTL

\* A part of one thing is all of it or nothing.
LEMMA PartOfOne ==
  ASSUME NEW x, NEW P
  PROVE  Cardinality({y \in {x} : P}) = IF P THEN 1 ELSE 0
<1>1. {y \in {x} : P} = IF P THEN {x} ELSE {}
  OBVIOUS
<1>. QED
  BY <1>1, FS_EmptySet, FS_Singleton

\* An endpoint is free, or belongs to one device, or waits to be freed, whatever becomes of
\* the device while it is addressed (removeEndpointFromDevice, killEndpoint).
THEOREM EndpointsKept == Spec => []NoEndpointLost
<1>1. IInv => NoEndpointLost
  <2>. SUFFICES ASSUME IInv PROVE NoEndpointLost
    OBVIOUS
  <2>1. usb \in UsbType /\ Whose(usb)
    BY DEF IInv, Ports, Core
  <2>2. usb.timers \in Seq(Timer) /\ usb.eps \in [Port -> Seq(Ep)] /\ usb.freeEps \in SUBSET Ep
    BY <2>1, Fields
  <2>3. ASSUME NEW e \in Ep
        PROVE  Cardinality({p \in Port : e \in ToSet(usb.eps[p])})
                 + Cardinality({x \in {"dying"} : e \in {f \in Ep : Active(usb, "kill", f)}})
                 + Cardinality({x \in {"free"} : e \in usb.freeEps}) = 1
    <3>1. Active(usb, "kill", e) <=> Dying(usb, e)
      BY <2>2, ActiveIs DEF Dying
    <3>2. \A p \in Port : e \in ToSet(usb.eps[p]) <=> Owned(usb, p, e)
      BY DEF ToSet, Owned
    <3>3. PICK O : O = {p \in Port : e \in ToSet(usb.eps[p])}
      OBVIOUS
    <3>4. PICK d \in BOOLEAN : d <=> Dying(usb, e)
      <4>1. CASE Dying(usb, e)
        BY <4>1
      <4>2. CASE ~Dying(usb, e)
        BY <4>2
      <4>. QED
        BY <4>1, <4>2
    <3>5. PICK f \in BOOLEAN : f <=> e \in usb.freeEps
      OBVIOUS
    <3>6. /\ Cardinality({x \in {"dying"} : e \in {g \in Ep : Active(usb, "kill", g)}}) = IF d THEN 1 ELSE 0
          /\ Cardinality({x \in {"free"} : e \in usb.freeEps}) = IF f THEN 1 ELSE 0
      <4>1. /\ {x \in {"dying"} : e \in {g \in Ep : Active(usb, "kill", g)}} = {x \in {"dying"} : d}
            /\ {x \in {"free"} : e \in usb.freeEps} = {x \in {"free"} : f}
        BY <3>1, <3>4, <3>5
      <4>. QED
        BY <4>1, PartOfOne
    <3>7. Cardinality(O) = IF d \/ f THEN 0 ELSE 1
      <4>1. CASE d \/ f
        <5>1. O = {}
          BY <2>1, <3>2, <3>3, <3>4, <3>5, <4>1 DEF Whose
        <5>. QED
          BY <4>1, <5>1, FS_EmptySet
      <4>2. CASE ~(d \/ f)
        <5>1. PICK p \in Port : Owned(usb, p, e)
          BY <2>1, <3>4, <3>5, <4>2 DEF Whose
        <5>2. O = {p}
          BY <2>1, <3>2, <3>3, <5>1 DEF Whose
        <5>. QED
          BY <4>2, <5>2, FS_Singleton
      <4>. QED
        BY <4>1, <4>2
    <3>8. ~(d /\ f)
      BY <2>1, <3>4, <3>5 DEF Whose
    <3>. QED
      BY <3>3, <3>6, <3>7, <3>8
  <2>. QED
    BY <2>3, Zenon DEF NoEndpointLost
<1>. QED
  BY <1>1, Invariant, PTL

\* The list ends: its ports have higher and higher ranks, so no more than all of them are on it.
LEMMA WalkEnds ==
  ASSUME NEW s \in UsbType, Chain(s)
  PROVE  Walk(s)[NumPorts] = 0
<1>1. PICK f : f = Walk(s) /\ Walks(s, f)
  BY WalkInOrder
<1>2. NumPorts \in Nat
  BY PortsAssumption
<1>3. PICK rank : Ascends(s, rank)
  BY DEF Chain
<1>4. \A k \in 0 .. NumPorts : f[k] # 0 => f[k] \in Port
  BY <1>1, WalkOn
<1>. SUFFICES ASSUME f[NumPorts] # 0 PROVE FALSE
  BY <1>1
<1>5. \A k \in 0 .. NumPorts : f[k] # 0
  <2>. DEFINE S == {i \in Nat : i <= NumPorts => f[NumPorts - i] # 0}
  <2>1. 0 \in S
    BY <1>2
  <2>2. ASSUME NEW i \in Nat, i \in S PROVE i + 1 \in S
    <3>1. SUFFICES ASSUME i + 1 <= NumPorts PROVE f[NumPorts - (i + 1)] # 0
      OBVIOUS
    <3>2. PICK k \in 1 .. NumPorts : k = NumPorts - i
      BY <1>2, <3>1
    <3>3. f[k] # 0 /\ k - 1 = NumPorts - (i + 1)
      BY <1>2, <2>2, <3>1, <3>2
    <3>4. f[k - 1] # 0
      BY <1>1, <3>3 DEF Walks
    <3>. QED
      BY <3>3, <3>4
  <2>3. S = Nat
    <3>. HIDE DEF S
    <3>1. S \in SUBSET Nat
      BY DEF S
    <3>. QED
      BY <2>1, <2>2, <3>1, Induction
  <2>4. ASSUME NEW k \in 0 .. NumPorts PROVE f[k] # 0
    <3>1. NumPorts - k \in Nat /\ NumPorts - k <= NumPorts /\ NumPorts - (NumPorts - k) = k
      BY <1>2
    <3>2. NumPorts - k \in S
      BY <2>3, <3>1
    <3>. QED
      BY <3>1, <3>2
  <2>. QED
    BY <2>4
<1>6. ASSUME NEW k \in 1 .. NumPorts PROVE rank[f[k - 1]] < rank[f[k]]
  <2>1. k - 1 \in 0 .. NumPorts /\ k \in 0 .. NumPorts
    BY <1>2
  <2>2. f[k - 1] \in Port /\ f[k] # 0 /\ f[k - 1] # 0
    BY <1>4, <1>5, <2>1
  <2>3. f[k] = s.next[f[k - 1]]
    BY <1>1, <2>2 DEF Walks
  <2>. QED
    BY <1>3, <2>2, <2>3 DEF Ascends
<1>7. \A k \in 0 .. NumPorts : f[k] \in Port /\ rank[f[k]] \in Nat
  BY <1>3, <1>4, <1>5 DEF Ascends
<1>8. \A i \in 0 .. NumPorts, j \in 0 .. NumPorts : i < j => rank[f[i]] < rank[f[j]]
  <2>. DEFINE S == {n \in Nat : \A i \in 0 .. NumPorts, j \in 0 .. NumPorts : i < j /\ j <= n => rank[f[i]] < rank[f[j]]}
  <2>1. 0 \in S
    OBVIOUS
  <2>2. ASSUME NEW n \in Nat, n \in S PROVE n + 1 \in S
    <3>1. SUFFICES ASSUME NEW i \in 0 .. NumPorts, NEW j \in 0 .. NumPorts, i < j, j <= n + 1
                   PROVE  rank[f[i]] < rank[f[j]]
      OBVIOUS
    <3>2. CASE j <= n
      BY <2>2, <3>1, <3>2
    <3>3. CASE j = n + 1
      <4>1. j \in 1 .. NumPorts /\ j - 1 \in 0 .. NumPorts /\ j - 1 = n
        BY <1>2, <3>1, <3>3
      <4>2. rank[f[j - 1]] < rank[f[j]]
        BY <1>6, <4>1
      <4>3. i = j - 1 \/ (i < j - 1 /\ j - 1 <= n)
        BY <3>1, <4>1
      <4>4. i < j - 1 => rank[f[i]] < rank[f[j - 1]]
        BY <2>2, <3>1, <4>1
      <4>. QED
        BY <1>7, <4>1, <4>2, <4>3, <4>4
    <3>. QED
      BY <3>1, <3>2, <3>3
  <2>3. S = Nat
    <3>. HIDE DEF S
    <3>1. S \in SUBSET Nat
      BY DEF S
    <3>. QED
      BY <2>1, <2>2, <3>1, Induction
  <2>4. NumPorts \in S
    BY <1>2, <2>3
  <2>. QED
    BY <2>4
<1>9. \A i \in 0 .. NumPorts, j \in 0 .. NumPorts : i # j => f[i] # f[j]
  <2>1. SUFFICES ASSUME NEW i \in 0 .. NumPorts, NEW j \in 0 .. NumPorts, i # j PROVE f[i] # f[j]
    OBVIOUS
  <2>2. i < j \/ j < i
    BY <2>1
  <2>. QED
    BY <1>7, <1>8, <2>2
<1>10. /\ IsFiniteSet(0 .. NumPorts) /\ Cardinality(0 .. NumPorts) = NumPorts + 1
       /\ IsFiniteSet(Port) /\ Cardinality(Port) = NumPorts
  <2>1. 0 \in Int /\ 1 \in Int /\ NumPorts \in Int /\ ~(0 > NumPorts)
    BY <1>2
  <2>2. IsFiniteSet(0 .. NumPorts) /\ Cardinality(0 .. NumPorts) = NumPorts - 0 + 1
    BY <2>1, FS_Interval
  <2>3. IsFiniteSet(1 .. NumPorts) /\ Cardinality(1 .. NumPorts) = IF 1 > NumPorts THEN 0 ELSE NumPorts - 1 + 1
    BY <2>1, FS_Interval
  <2>. QED
    BY <1>2, <2>2, <2>3 DEF Port
<1>11. PICK g \in [0 .. NumPorts -> Port] : \A k \in 0 .. NumPorts : g[k] = f[k]
  <2>1. [k \in 0 .. NumPorts |-> f[k]] \in [0 .. NumPorts -> Port]
    BY <1>7
  <2>. QED
    BY <2>1
<1>12. \E i, j \in 0 .. NumPorts : i # j /\ g[i] = g[j]
  BY <1>2, <1>10, FS_PigeonHole
<1>. QED
  BY <1>9, <1>11, <1>12

\* While there is one chain, all on it are found from its first one.
LEMMA AllFound ==
  ASSUME NEW s \in UsbType, Chain(s), Whole(s)
  PROVE  \A p \in Port : OnList(s, p) => p \in Listed(s)
<1>1. PICK f : f = Walk(s) /\ Walks(s, f)
  BY WalkInOrder
<1>2. NumPorts \in Nat
  BY PortsAssumption
<1>3. PICK D : D = {f[k] : k \in 0 .. NumPorts} \ {0}
  OBVIOUS
<1>4. s.first # 0 => s.first \in D
  <2>1. 0 \in 0 .. NumPorts
    BY <1>2
  <2>. QED
    BY <1>1, <1>3, <2>1 DEF Walks
<1>5. ASSUME NEW q \in Port, q \in D, s.next[q] # 0 PROVE s.next[q] \in D
  <2>1. PICK k \in 0 .. NumPorts : f[k] = q
    BY <1>3, <1>5
  <2>2. q # 0
    BY <1>3, <1>5
  <2>3. k # NumPorts
    BY <1>1, <2>1, <2>2, WalkEnds
  <2>4. k + 1 \in 1 .. NumPorts /\ (k + 1) - 1 = k /\ k + 1 \in 0 .. NumPorts
    BY <1>2, <2>3
  <2>5. f[k + 1] = s.next[q]
    BY <1>1, <2>1, <2>2, <2>4 DEF Walks
  <2>. QED
    BY <1>3, <1>5, <2>4, <2>5
<1>6. \A p \in Port : OnList(s, p) => p \in D
  BY <1>4, <1>5, FromFirst
<1>. QED
  BY <1>1, <1>3, <1>6 DEF Listed

\* The list of the connected devices, followed from its first one, ends, and all on it are
\* there with their descriptors; unless a device has left that was not on it, every device
\* that has a driver is on it; and a device is given to a driver once, unless one thread has
\* changed devices or drivers while the other was going through them (flushPort,
\* fetchConfigDescriptors, connectNewDevice, doRegisterDriver).
THEOREM ListsSound == Spec => []ListSound
<1>1. IInv => ListSound
  <2>. SUFFICES ASSUME IInv PROVE ListSound
    OBVIOUS
  <2>1. usb \in UsbType /\ Chain(usb) /\ Devices(usb, Window, Pure)
    BY DEF IInv, Ports, Core
  <2>2. Walk(usb)[NumPorts] = 0
    BY <2>1, WalkEnds
  <2>3. \A p \in Listed(usb) : usb.status[p] = "ready" \/ (irq.pc = "disconnect" /\ irq.port = p)
    <3>1. SUFFICES ASSUME NEW p \in Listed(usb) PROVE p \in Window \/ usb.status[p] = "ready"
      BY DEF Window
    <3>2. p \in Port /\ OnList(usb, p)
      BY <2>1, ListedOn
    <3>. QED
      BY <2>1, <3>2 DEF Devices, Held, Quiet
  <2>4. ASSUME slips \cap {"torn", "mixed"} = {} PROVE \A p \in Port : usb.driver[p] # None => p \in Listed(usb)
    <3>1. "torn" \notin slips /\ Pure
      BY <2>4 DEF Pure
    <3>2. Whole(usb) /\ \A p \in Port : usb.driver[p] # None => OnList(usb, p)
      BY <3>1 DEF IInv, Ports, Apart
    <3>. QED
      BY <2>1, <3>2, AllFound
  <2>5. ASSUME "mixed" \notin slips PROVE \A p \in Port : calls[p] <= 1
    BY <2>5 DEF IInv, Apart, Pure
  <2>. QED
    BY <2>2, <2>3, <2>4, <2>5 DEF ListSound
<1>. QED
  BY <1>1, Invariant, PTL
==============================================================================
