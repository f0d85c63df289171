--------------------------- MODULE IopReset_proofs ---------------------------
(***************************************************************************)
(* Proofs about the reset of the IOP: what relocation does to a module,    *)
(* what UDNL makes of the images and of IOPBTCONF, and that a game under   *)
(* the core's hooks is served by the core's modules.                       *)
(***************************************************************************)
EXTENDS IopReset, SequenceTheorems, WellFoundedInduction, TLAPS

\* Division leaves a rest.
LEMMA Division ==
  ASSUME NEW n \in Nat, NEW d \in Nat \ {0}
  PROVE  \E q \in Nat, r \in 0..(d - 1) : q = n \div d /\ r = n % d /\ n = q * d + r
<1>1. PICK q \in Int : q = n \div d
  OBVIOUS
<1>2. PICK r \in 0..(d - 1) : r = n % d
  OBVIOUS
<1>3. n = d * q + r
  BY <1>1, <1>2
<1>4. d * q = q * d
  OBVIOUS
<1>5. q >= 0
  <2>1. q <= -1 => q * d <= -1 * d
    OBVIOUS
  <2>. QED
    BY <1>2, <1>3, <1>4, <2>1
<1>6. q \in Nat /\ n = q * d + r
  BY <1>3, <1>4, <1>5
<1>. QED
  BY <1>1, <1>2, <1>6

\* It is the only one.
Divides(n, d, q, r) == d \in Nat \ {0} /\ q \in Int /\ r \in 0..(d - 1) /\ n = q * d + r
LEMMA Rest ==
  ASSUME NEW n, NEW d, NEW q, NEW r, Divides(n, d, q, r)
  PROVE  n % d = r /\ n \div d = q
BY DEF Divides

\* The sizes of halves and words.
LEMMA Sizes ==
  \E h \in Nat \ {0} : /\ Half = 4 * h /\ Half \div 2 = 2 * h
                       /\ Word \in Nat \ {0} /\ Word = Half * Half
                       /\ Field = h * h /\ Field \in Nat \ {0}
                       /\ Segment = 4 * Field /\ Word = 16 * Field
<1>1. PICK h \in Nat \ {0} : Half = 4 * h
  <2>1. PICK n \in Nat : n = Half
    BY IrxLoadAssumption
  <2>2. 4 \in Nat \ {0}
    OBVIOUS
  <2>3. PICK k \in Nat, r \in 0..(4 - 1) : k = n \div 4 /\ r = n % 4 /\ n = k * 4 + r
    BY <2>2, Division
  <2>5. n % 4 = 0 /\ n # 0
    BY <2>1, IrxLoadAssumption
  <2>4. n = 4 * k /\ k # 0
    BY <2>3, <2>5
  <2>. QED
    BY <2>1, <2>4
<1>2. Half \div 2 = 2 * h
  BY <1>1
<1>3. PICK f \in Nat \ {0} : f = h * h
  OBVIOUS
<1>4. Word = 16 * f
  BY <1>1, <1>3 DEF Word
<1>5. Segment = 4 * f
  BY <1>4 DEF Segment
<1>6. Field = f
  BY <1>5 DEF Field
<1>. QED
  BY <1>1, <1>2, <1>3, <1>4, <1>5, <1>6 DEF Word

\* Putting a lower half into a word leaves the upper one.
LEMMA Halves ==
  ASSUME NEW w \in 0..(Word - 1), NEW x \in 0..(Half - 1)
  PROVE  /\ Low(w) \in 0..(Half - 1)
         /\ WithLow(w, x) \in 0..(Word - 1) /\ Low(WithLow(w, x)) = x
         /\ WithLow(w, x) - x = w - Low(w)
<1>1. Half \in Nat \ {0} /\ Word = Half * Half /\ Word \in Nat \ {0}
  BY Sizes, IrxLoadAssumption
<1>0. PICK q \in Nat, r \in 0..(Half - 1) : q = w \div Half /\ r = w % Half /\ w = q * Half + r
  BY <1>1, Division
<1>2. w = q * Half + r
  BY <1>0
<1>20. r = w % Half
  BY <1>0
<1>3. q < Half
  <2>1. q >= Half => q * Half >= Half * Half
    BY <1>1, <1>2
  <2>. QED
    BY <1>1, <1>2, <2>1
<1>4. q * Half <= (Half - 1) * Half
  BY <1>1, <1>2, <1>3
<1>. QED
  <2>1. Low(w) = r
    BY <1>20 DEF Low
  <2>2. WithLow(w, x) = q * Half + x
    BY <1>1, <1>2, <2>1 DEF WithLow
  <2>3. WithLow(w, x) % Half = x
    <3>1. Divides(WithLow(w, x), Half, q, x)
      BY <1>1, <1>2, <2>2 DEF Divides
    <3>. QED
      BY <3>1, Rest
  <2>. QED
    BY <1>1, <1>2, <1>4, <2>1, <2>2, <2>3 DEF Low

\* The halves that LoadIRXModule makes of an address are loaded as this address.
LEMMA Carries ==
  ASSUME NEW a \in 0..(Word - 1)
  PROVE  /\ Rounded(a) \in 0..(Half - 1) /\ Low(a) \in 0..(Half - 1)
         /\ (Rounded(a) * Half + Signed(Low(a))) % Word = a
<1>1. PICK h \in Nat \ {0} : /\ Half = 4 * h /\ Half \div 2 = 2 * h
                             /\ Word = Half * Half /\ Word \in Nat \ {0}
  BY Sizes
<1>0. PICK q \in Nat, r \in 0..(Half - 1) : q = a \div Half /\ r = a % Half /\ a = q * Half + r
  BY <1>1, Division
<1>2. a = q * Half + r
  BY <1>0
<1>20. r = a % Half
  BY <1>0
<1>3. Low(a) = r
  BY <1>20 DEF Low
<1>4. q < Half
  <2>1. q >= Half => q * Half >= Half * Half
    BY <1>1, <1>2
  <2>. QED
    BY <1>1, <1>2, <2>1
<1>5. CASE r < 2 * h
  <2>1. a = (2 * q) * (2 * h) + r
    BY <1>1, <1>2
  <2>2. a \div (2 * h) = 2 * q
    <3>1. Divides(a, 2 * h, 2 * q, r)
      BY <1>2, <1>5, <2>1 DEF Divides
    <3>. QED
      BY <3>1, Rest
  <2>3. (2 * q + 1) \div 2 = q /\ q % Half = q
    BY <1>1, <1>2, <1>4
  <2>4. Rounded(a) = q
    BY <1>1, <2>2, <2>3 DEF Rounded
  <2>5. Signed(r) = r
    BY <1>1, <1>2, <1>5 DEF Signed
  <2>6. a % Word = a
    BY <1>1
  <2>7. (Rounded(a) * Half + Signed(r)) % Word = a
    BY <1>2, <2>4, <2>5, <2>6
  <2>8. Rounded(a) \in 0..(Half - 1)
    BY <1>1, <1>2, <1>4, <2>4
  <2>. QED
    BY <1>2, <1>3, <2>7, <2>8
<1>6. CASE r >= 2 * h
  <2>1. a = (2 * q + 1) * (2 * h) + (r - 2 * h)
    BY <1>1, <1>2
  <2>2. a \div (2 * h) = 2 * q + 1
    <3>1. Divides(a, 2 * h, 2 * q + 1, r - 2 * h)
      BY <1>1, <1>2, <1>6, <2>1 DEF Divides
    <3>. QED
      BY <3>1, Rest
  <2>3. ((2 * q + 1) + 1) \div 2 = q + 1
    BY <1>2
  <2>4. Rounded(a) = (q + 1) % Half
    BY <1>1, <2>2, <2>3 DEF Rounded
  <2>5. Signed(r) = r - Half
    BY <1>1, <1>2, <1>6 DEF Signed
  <2>6. CASE q + 1 < Half
    <3>1. Rounded(a) = q + 1
      BY <1>1, <1>2, <2>4, <2>6
    <3>2. (q + 1) * Half + (r - Half) = a /\ a % Word = a
      BY <1>1, <1>2
    <3>. QED
      BY <1>1, <1>2, <1>3, <2>5, <2>6, <3>1, <3>2
  <2>7. CASE q + 1 = Half
    <3>1. Rounded(a) = 0
      BY <1>1, <2>4, <2>7
    <3>2. r - Half = (0 - 1) * Word + a
      BY <1>1, <1>2, <2>7
    <3>3. (r - Half) % Word = a
      <4>1. Divides(r - Half, Word, 0 - 1, a)
        BY <1>1, <3>2 DEF Divides
      <4>. QED
        BY <4>1, Rest
    <3>4. 0 * Half + (r - Half) = r - Half
      BY <1>1, <1>2
    <3>. QED
      BY <1>1, <1>2, <1>3, <2>5, <3>1, <3>3, <3>4
  <2>. QED
    BY <1>1, <1>2, <1>4, <2>6, <2>7
<1>. QED
  BY <1>1, <1>2, <1>5, <1>6

\* A half on its own.
LEMMA Sixteen ==
  ASSUME NEW l \in 0..(Half - 1), NEW base \in Nat
  PROVE  /\ (base + Signed(l)) % Half \in 0..(Half - 1)
         /\ (base + Signed(l)) % Half = (l + base) % Half
<1>1. PICK h \in Nat \ {0} : Half = 4 * h /\ Half \div 2 = 2 * h
  BY Sizes
<1>2. Half \in Nat \ {0} /\ l + base \in Nat
  BY <1>1
<1>6. PICK q \in Nat, r \in 0..(Half - 1) :
        q = (l + base) \div Half /\ r = (l + base) % Half /\ l + base = q * Half + r
  BY <1>2, Division
<1>3. base + (l - Half) = (q - 1) * Half + r
  BY <1>2, <1>6
<1>4. (base + (l - Half)) % Half = r
  <2>1. Divides(base + (l - Half), Half, q - 1, r)
    BY <1>2, <1>3, <1>6 DEF Divides
  <2>. QED
    BY <2>1, Rest
<1>5. (base + l) % Half = r /\ (l + base) % Half = r
  BY <1>2, <1>6
<1>. QED
  BY <1>2, <1>4, <1>5, <1>6 DEF Signed

\* The target of a jump.
LEMMA Jumps ==
  ASSUME NEW w \in 0..(Word - 1), NEW base \in Nat, base % 4 = 0,
         NEW v, v = (w - (w % Field)) + ((base + (w % Field) * 4) % Segment) \div 4
  PROVE  /\ v \in 0..(Word - 1)
         /\ (v % Field) * 4 = ((w % Field) * 4 + base) % Segment
<1>1. Field \in Nat \ {0} /\ Segment = 4 * Field /\ Word = 16 * Field
  BY Sizes
<1>2. PICK b \in Nat : base = 4 * b
  <2>1. 4 \in Nat \ {0}
    OBVIOUS
  <2>2. PICK q \in Nat, r \in 0..(4 - 1) : q = base \div 4 /\ r = base % 4 /\ base = q * 4 + r
    BY <2>1, Division
  <2>. QED
    BY <2>2
<1>0. PICK q \in Nat, r \in 0..(Field - 1) : q = w \div Field /\ r = w % Field /\ w = q * Field + r
  BY <1>1, Division
<1>3. w = q * Field + r
  BY <1>0
<1>20. r = w % Field
  BY <1>0
<1>4. q <= 15
  <2>1. q >= 16 => q * Field >= 16 * Field
    BY <1>1, <1>3
  <2>2. PICK x, y \in Nat : x = 16 * Field /\ y = q * Field
    BY <1>1, <1>3
  <2>3. w = y + r /\ w < x /\ r \in Nat
    BY <1>1, <1>3, <2>2
  <2>4. q >= 16 => y >= x
    BY <2>1, <2>2
  <2>. QED
    BY <1>3, <2>2, <2>3, <2>4
<1>5. PICK s \in Nat, m \in 0..(Field - 1) : s = (b + r) \div Field /\ m = (b + r) % Field /\ b + r = s * Field + m
  <2>1. b + r \in Nat
    BY <1>3
  <2>. QED
    BY <1>1, <2>1, Division
<1>6. base + r * 4 = s * Segment + 4 * m /\ r * 4 + base = base + r * 4
  <2>1. b + r = s * Field + m
    BY <1>5
  <2>. QED
    BY <1>1, <1>2, <2>1
<1>7. (base + r * 4) % Segment = 4 * m
  <2>1. Divides(base + r * 4, Segment, s, 4 * m)
    BY <1>1, <1>5, <1>6 DEF Divides
  <2>. QED
    BY <2>1, Rest
<1>8. v = q * Field + m
  <2>1. w % Field = r
    BY <1>20
  <2>2. (4 * m) \div 4 = m
    BY <1>5
  <2>3. v = (w - r) + ((base + r * 4) % Segment) \div 4
    BY <2>1
  <2>4. v = (w - r) + m
    BY <1>7, <2>2, <2>3
  <2>. QED
    BY <1>1, <1>3, <1>5, <2>4
<1>9. v % Field = m
  <2>1. Divides(v, Field, q, m)
    BY <1>1, <1>3, <1>5, <1>8 DEF Divides
  <2>. QED
    BY <2>1, Rest
<1>10. v \in 0..(Word - 1)
  <2>1. q * Field <= 15 * Field
    BY <1>1, <1>3, <1>4
  <2>. QED
    BY <1>1, <1>3, <1>5, <1>8, <2>1
<1>. QED
  BY <1>5, <1>6, <1>7, <1>9, <1>10, <1>20
\* Induction over the natural numbers, as they are well-founded.
LEMMA Induction ==
  ASSUME NEW S \in SUBSET Nat, 0 \in S, \A n \in Nat : n \in S => n + 1 \in S
  PROVE  S = Nat
<1>. DEFINE T == Nat \ S
            R == {ss \in Nat \X Nat : ss[1] < ss[2]}
<1>1. IsWellFoundedOn(R, Nat)
  BY NatLessThanWellFounded DEF OpToRel
<1>2. SUFFICES ASSUME T # {} PROVE FALSE
  OBVIOUS
<1>. HIDE DEF R
<1>3. PICK x \in T : \A y \in T : ~(<<y, x>> \in R)
  BY <1>1, <1>2, WFMin
<1>4. x # 0 /\ x - 1 \in Nat /\ x - 1 \notin S
  BY <1>3
<1>5. <<x - 1, x>> \in R
  BY <1>4, <1>3 DEF R
<1>. QED
  BY <1>3, <1>4, <1>5


\* Relocated goes through the entries in their order: its recursive function exists.
LEMMA InOrder ==
  ASSUME NEW text, NEW rels, NEW base, NEW n \in Nat, n = Len(rels)
  PROVE  \E f : /\ f[0] = [text |-> text, skip |-> FALSE]
                /\ \A i \in 1..n : f[i] = Relocate(f[i - 1], rels, i, base)
                /\ Relocated(text, rels, base) = f[n].text
<1>. DEFINE S == {k \in Nat : \E g : g = [i \in 0..k |->
                    IF i = 0 THEN [text |-> text, skip |-> FALSE] ELSE Relocate(g[i - 1], rels, i, base)]}
<1>1. 0 \in S
  <2>. DEFINE g == [i \in 0..0 |-> [text |-> text, skip |-> FALSE]]
  <2>1. g = [i \in 0..0 |->
                    IF i = 0 THEN [text |-> text, skip |-> FALSE] ELSE Relocate(g[i - 1], rels, i, base)]
    OBVIOUS
  <2>. QED
    BY <2>1
<1>2. ASSUME NEW k \in Nat, k \in S PROVE k + 1 \in S
  <2>1. PICK g : g = [i \in 0..k |->
                    IF i = 0 THEN [text |-> text, skip |-> FALSE] ELSE Relocate(g[i - 1], rels, i, base)]
    BY <1>2
  <2>. DEFINE h == [i \in 0..(k + 1) |-> IF i = k + 1 THEN Relocate(g[k], rels, k + 1, base) ELSE g[i]]
  <2>2. ASSUME NEW i \in 0..(k + 1)
        PROVE  h[i] = IF i = 0 THEN [text |-> text, skip |-> FALSE] ELSE Relocate(h[i - 1], rels, i, base)
    <3>1. CASE i = k + 1
      <4>1. i # 0 /\ i - 1 = k /\ k \in 0..(k + 1) /\ k # k + 1
        BY <3>1
      <4>2. h[k] = g[k] /\ h[i] = Relocate(g[k], rels, k + 1, base)
        BY <3>1, <4>1
      <4>. QED
        BY <3>1, <4>1, <4>2
    <3>2. CASE i # k + 1
      <4>1. i \in 0..k /\ h[i] = g[i]
        BY <3>2
      <4>2. g[i] = IF i = 0 THEN [text |-> text, skip |-> FALSE] ELSE Relocate(g[i - 1], rels, i, base)
        BY <4>1, <2>1
      <4>3. i # 0 => h[i - 1] = g[i - 1]
        BY <4>1
      <4>. QED
        BY <4>1, <4>2, <4>3
    <3>. QED
      BY <3>1, <3>2
  <2>3. h = [i \in 0..(k + 1) |-> h[i]]
    OBVIOUS
  <2>. HIDE DEF h
  <2>4. h = [i \in 0..(k + 1) |->
                    IF i = 0 THEN [text |-> text, skip |-> FALSE] ELSE Relocate(h[i - 1], rels, i, base)]
    BY <2>2, <2>3
  <2>5. k + 1 \in Nat
    OBVIOUS
  <2>. QED
    BY <2>4, <2>5
<1>3. n \in S
  <2>. HIDE DEF S
  <2>1. S \in SUBSET Nat
    BY DEF S
  <2>. QED
    BY <1>1, <1>2, <2>1, Induction
<1>4. PICK g : g = CHOOSE h : h = [i \in 0..n |->
                    IF i = 0 THEN [text |-> text, skip |-> FALSE] ELSE Relocate(h[i - 1], rels, i, base)]
  OBVIOUS
<1>5. g = [i \in 0..n |->
                    IF i = 0 THEN [text |-> text, skip |-> FALSE] ELSE Relocate(g[i - 1], rels, i, base)]
  BY <1>3, <1>4
<1>6. Relocated(text, rels, base) = g[n].text
  BY <1>4 DEF Relocated
<1>7. g[0] = [text |-> text, skip |-> FALSE]
  BY <1>5
<1>8. ASSUME NEW i \in 1..n PROVE g[i] = Relocate(g[i - 1], rels, i, base)
  <2>1. i \in 0..n /\ i # 0
    OBVIOUS
  <2>. QED
    BY <1>5, <2>1
<1>. QED
  BY <1>6, <1>7, <1>8

\* What the entry at j is for has been done.
Right(before, after, rels, base, j) ==
  LET p == rels[j].at IN
  /\ rels[j].type = "hi" =>
       Loaded(after, p, rels[j + 1].at) = (Loaded(before, p, rels[j + 1].at) + base) % Word
  /\ rels[j].type = "32" => after[p] = (before[p] + base) % Word
  /\ rels[j].type = "16" => Low(after[p]) = (Low(before[p]) + base) % Half
  /\ rels[j].type = "26" => (after[p] % Field) * 4 = ((before[p] % Field) * 4 + base) % Segment
UpperKept(before, after, p) == after[p] - Low(after[p]) = before[p] - Low(before[p])

\* The first i entries are done, and of a pair both.
Done(s, before, rels, base, i) ==
  /\ s = [text |-> s.text, skip |-> s.skip]
  /\ s.text \in [DOMAIN before -> 0..(Word - 1)]
  /\ s.skip \in BOOLEAN /\ (s.skip <=> (i >= 1 /\ rels[i].type = "hi"))
  /\ \A p \in DOMAIN before :
       (\A j \in DOMAIN rels : j <= i \/ (s.skip /\ j = i + 1) => rels[j].at # p) => s.text[p] = before[p]
  /\ \A j \in DOMAIN rels : j <= i => Right(before, s.text, rels, base, j)
  /\ \A j \in DOMAIN rels :
       (j <= i \/ (s.skip /\ j = i + 1)) /\ rels[j].type \in {"hi", "lo", "16"} =>
         UpperKept(before, s.text, rels[j].at)

\* What is done stays, where nothing is written to.
LEMMA StaysRight ==
  ASSUME NEW before, NEW t, NEW u, NEW rels, NEW base, NEW j,
         u[rels[j].at] = t[rels[j].at], rels[j].type = "hi" => u[rels[j + 1].at] = t[rels[j + 1].at],
         Right(before, t, rels, base, j)
  PROVE  Right(before, u, rels, base, j)
BY DEF Right, Loaded

\* Entries as a compiler makes them, and the base of a module.
Wanted(before, rels, base) ==
  EntriesApart(before, rels) /\ Paired(rels) /\ base \in Nat /\ base % 4 = 0

\* The entries are a sequence, each of a word of its own.
LEMMA EntriesKnown ==
  ASSUME NEW before, NEW rels, NEW base, Wanted(before, rels, base)
  PROVE  /\ DOMAIN rels = 1..Len(rels) /\ Len(rels) \in Nat
         /\ \A j \in DOMAIN rels : j \in Nat /\ j >= 1 /\ rels[j].at \in DOMAIN before
         /\ \A j, k \in DOMAIN rels : rels[j].at = rels[k].at => j = k
<1>. DEFINE R == [type : STRING, at : DOMAIN before]
<1>1. rels \in Seq(R) /\ \A j, k \in DOMAIN rels : rels[j].at = rels[k].at => j = k
  BY DEF Wanted, EntriesApart
<1>2. \A x \in R : x.at \in DOMAIN before
  OBVIOUS
<1>. HIDE DEF R
<1>3. DOMAIN rels = 1..Len(rels) /\ Len(rels) \in Nat
  BY <1>1
<1>4. \A j \in DOMAIN rels : rels[j] \in R
  BY <1>1
<1>. QED
  BY <1>1, <1>2, <1>3, <1>4

\* The next entry writes v to one word, and this is what it is for.
Writes(s, before, rels, base, i, v, t) ==
  LET p == rels[i + 1].at IN
  /\ rels[i + 1].type \notin {"hi", "lo"} /\ v \in 0..(Word - 1)
  /\ t = [text |-> t.text, skip |-> FALSE] /\ t.text = [s.text EXCEPT ![p] = v]
  /\ before[p] = s.text[p] => Right(before, t.text, rels, base, i + 1)
  /\ rels[i + 1].type = "16" => v - Low(v) = s.text[p] - Low(s.text[p])

\* One entry of one word.
LEMMA OneWord ==
  ASSUME NEW before, NEW rels, NEW base, Wanted(before, rels, base),
         NEW i \in Nat, i + 1 <= Len(rels), NEW s, Done(s, before, rels, base, i), ~s.skip,
         NEW v, NEW t, Writes(s, before, rels, base, i, v, t)
  PROVE  Done(t, before, rels, base, i + 1)
<1>. DEFINE p == rels[i + 1].at
            u == t.text
<1>0. /\ rels[i + 1].type \notin {"hi", "lo"} /\ v \in 0..(Word - 1) /\ u = [s.text EXCEPT ![p] = v]
      /\ before[p] = s.text[p] => Right(before, u, rels, base, i + 1)
      /\ rels[i + 1].type = "16" => v - Low(v) = s.text[p] - Low(s.text[p])
      /\ t = [text |-> t.text, skip |-> t.skip] /\ t.skip = FALSE
  BY DEF Writes
<1>1. /\ DOMAIN rels = 1..Len(rels) /\ Len(rels) \in Nat /\ i + 1 \in DOMAIN rels
      /\ \A j \in DOMAIN rels : j \in Nat /\ j >= 1 /\ rels[j].at \in DOMAIN before
      /\ \A j, k \in DOMAIN rels : rels[j].at = rels[k].at => j = k
  BY EntriesKnown
<1>2. /\ s.text \in [DOMAIN before -> 0..(Word - 1)] /\ p \in DOMAIN before
      /\ u \in [DOMAIN before -> 0..(Word - 1)] /\ u[p] = v
      /\ \A q \in DOMAIN before : q # p => u[q] = s.text[q]
  BY <1>0, <1>1 DEF Done
<1>3. \A j \in DOMAIN rels : j <= i => rels[j].at # p
  BY <1>1
<1>4. s.text[p] = before[p]
  BY <1>1, <1>2, <1>3 DEF Done
<1>5. ASSUME NEW q \in DOMAIN before, \A j \in DOMAIN rels : j <= i + 1 => rels[j].at # q
      PROVE  u[q] = before[q]
  <2>1. q # p
    BY <1>1, <1>5
  <2>2. \A j \in DOMAIN rels : j <= i => rels[j].at # q
    BY <1>1, <1>5
  <2>. QED
    BY <1>2, <2>1, <2>2 DEF Done
<1>6. ASSUME NEW j \in DOMAIN rels, j <= i + 1 PROVE Right(before, u, rels, base, j)
  <2>1. CASE j = i + 1
    BY <1>0, <1>4, <2>1
  <2>2. CASE j <= i
    <3>1. Right(before, s.text, rels, base, j)
      BY <2>2 DEF Done
    <3>2. u[rels[j].at] = s.text[rels[j].at]
      BY <1>1, <1>2, <1>3, <2>2
    <3>3. rels[j].type = "hi" => u[rels[j + 1].at] = s.text[rels[j + 1].at]
      <4>1. SUFFICES ASSUME rels[j].type = "hi" PROVE u[rels[j + 1].at] = s.text[rels[j + 1].at]
        OBVIOUS
      <4>2. j # i
        BY <1>1, <4>1 DEF Done
      <4>3. j + 1 \in DOMAIN rels /\ j + 1 <= i
        BY <1>1, <2>2, <4>2
      <4>. QED
        BY <1>1, <1>2, <1>3, <4>3
    <3>. QED
      BY <3>1, <3>2, <3>3, StaysRight
  <2>. QED
    BY <1>1, <1>6, <2>1, <2>2
<1>7. ASSUME NEW j \in DOMAIN rels, j <= i + 1, rels[j].type \in {"hi", "lo", "16"}
      PROVE  UpperKept(before, u, rels[j].at)
  <2>1. CASE j = i + 1
    BY <1>0, <1>2, <1>4, <1>7, <2>1 DEF UpperKept
  <2>2. CASE j <= i
    BY <1>1, <1>2, <1>3, <1>7, <2>2 DEF Done, UpperKept
  <2>. QED
    BY <1>1, <1>7, <2>1, <2>2
<1>8. t.skip \in BOOLEAN /\ (t.skip <=> (i + 1 >= 1 /\ rels[i + 1].type = "hi"))
  BY <1>0
<1>9. \A q \in DOMAIN before :
        (\A j \in DOMAIN rels : j <= i + 1 \/ (t.skip /\ j = i + 1 + 1) => rels[j].at # q) => t.text[q] = before[q]
  BY <1>0, <1>5
<1>10. \A j \in DOMAIN rels : j <= i + 1 => Right(before, t.text, rels, base, j)
  BY <1>6
<1>11. \A j \in DOMAIN rels :
        (j <= i + 1 \/ (t.skip /\ j = i + 1 + 1)) /\ rels[j].type \in {"hi", "lo", "16"} =>
          UpperKept(before, t.text, rels[j].at)
  BY <1>0, <1>7
<1>. QED
  BY <1>0, <1>2, <1>8, <1>9, <1>10, <1>11 DEF Done

\* What two halves load is a word.
LEMMA LoadedWord ==
  ASSUME NEW text, NEW p, NEW l, text[p] \in 0..(Word - 1), text[l] \in 0..(Word - 1)
  PROVE  Loaded(text, p, l) \in 0..(Word - 1)
<1>1. PICK h \in Nat \ {0} : Half = 4 * h /\ Word \in Nat \ {0}
  BY Sizes
<1>2. 0 \in 0..(Half - 1)
  BY <1>1
<1>3. PICK x, y \in 0..(Half - 1) : x = Low(text[p]) /\ y = Low(text[l])
  BY <1>2, Halves
<1>4. PICK z \in Int : z = x * Half + Signed(y)
  BY <1>1 DEF Signed
<1>5. z % Word \in 0..(Word - 1)
  BY <1>1
<1>. QED
  BY <1>3, <1>4, <1>5 DEF Loaded

\* A pair: the word of the upper half and that of the lower.
LEMMA TwoWords ==
  ASSUME NEW before, NEW rels, NEW base, Wanted(before, rels, base),
         NEW i \in Nat, i + 1 <= Len(rels), NEW s, Done(s, before, rels, base, i), ~s.skip,
         rels[i + 1].type = "hi",
         NEW t, t = Relocate(s, rels, i + 1, base)
  PROVE  Done(t, before, rels, base, i + 1)
<1>1. /\ DOMAIN rels = 1..Len(rels) /\ Len(rels) \in Nat /\ i + 1 \in DOMAIN rels
      /\ \A j \in DOMAIN rels : j \in Nat /\ j >= 1 /\ rels[j].at \in DOMAIN before
      /\ \A j, k \in DOMAIN rels : rels[j].at = rels[k].at => j = k
  BY EntriesKnown
<1>2. i + 2 \in DOMAIN rels /\ rels[i + 2].type = "lo" /\ i + 1 + 1 = i + 2
  <2>1. i + 1 < Len(rels) /\ rels[i + 1 + 1].type = "lo"
    BY <1>1 DEF Wanted, Paired
  <2>. QED
    BY <1>1, <2>1
<1>. DEFINE p == rels[i + 1].at
            l == rels[i + 2].at
            a == (Loaded(s.text, p, l) + base) % Word
            v == WithLow(s.text[p], Rounded(a))
            w == WithLow(s.text[l], Low(a))
            u == [s.text EXCEPT ![p] = v, ![l] = w]
<1>3. p # l /\ p \in DOMAIN before /\ l \in DOMAIN before
  BY <1>1, <1>2
<1>4. s.text \in [DOMAIN before -> 0..(Word - 1)]
  BY DEF Done
<1>5. t = [text |-> u, skip |-> TRUE]
  BY <1>2 DEF Relocate
<1>6. s.text[p] = before[p] /\ s.text[l] = before[l]
  <2>1. \A j \in DOMAIN rels : j <= i => rels[j].at # p /\ rels[j].at # l
    BY <1>1, <1>2
  <2>. QED
    BY <1>3, <2>1 DEF Done
<1>7. a \in 0..(Word - 1)
  <2>1. s.text[p] \in 0..(Word - 1) /\ s.text[l] \in 0..(Word - 1)
    BY <1>3, <1>4
  <2>2. PICK c \in 0..(Word - 1) : c = Loaded(s.text, p, l)
    BY <2>1, LoadedWord
  <2>. HIDE DEF p, l
  <2>3. base \in Nat /\ Word \in Nat \ {0}
    BY Sizes DEF Wanted
  <2>4. (c + base) % Word \in 0..(Word - 1)
    BY <2>3
  <2>. QED
    BY <2>2, <2>4
<1>8. /\ v \in 0..(Word - 1) /\ Low(v) = Rounded(a) /\ v - Low(v) = before[p] - Low(before[p])
      /\ w \in 0..(Word - 1) /\ Low(w) = Low(a) /\ w - Low(w) = before[l] - Low(before[l])
  <2>1. Rounded(a) \in 0..(Half - 1)
    BY <1>7, Carries
  <2>2. 0 \in 0..(Half - 1)
    BY Sizes
  <2>3. Low(a) \in 0..(Half - 1)
    BY <1>7, <2>2, Halves
  <2>4. before[p] \in 0..(Word - 1) /\ before[l] \in 0..(Word - 1)
    BY <1>3, <1>4, <1>6
  <2>. HIDE DEF p, l, a
  <2>5. ASSUME NEW x \in 0..(Word - 1), NEW y \in 0..(Half - 1)
        PROVE  /\ WithLow(x, y) \in 0..(Word - 1) /\ Low(WithLow(x, y)) = y
               /\ WithLow(x, y) - Low(WithLow(x, y)) = x - Low(x)
    BY Halves
  <2>. QED
    BY <1>6, <2>1, <2>3, <2>4, <2>5
<1>9. /\ u \in [DOMAIN before -> 0..(Word - 1)] /\ u[p] = v /\ u[l] = w
      /\ \A q \in DOMAIN before : q # p /\ q # l => u[q] = s.text[q]
  BY <1>3, <1>4, <1>8
<1>. HIDE DEF u, v, w
<1>10. Loaded(u, p, l) = a
  BY <1>7, <1>8, <1>9, Carries DEF Loaded
<1>11. a = (Loaded(before, p, l) + base) % Word
  BY <1>6 DEF Loaded
<1>. HIDE DEF a
<1>12. ASSUME NEW q \in DOMAIN before, \A j \in DOMAIN rels : j <= i + 2 => rels[j].at # q
       PROVE  u[q] = before[q]
  <2>1. q # p /\ q # l
    BY <1>1, <1>2, <1>12
  <2>2. \A j \in DOMAIN rels : j <= i => rels[j].at # q
    BY <1>1, <1>12
  <2>. QED
    BY <1>9, <2>1, <2>2 DEF Done
<1>13. ASSUME NEW j \in DOMAIN rels, j <= i + 1 PROVE Right(before, u, rels, base, j)
  <2>1. CASE j = i + 1
    <3>1. rels[j].at = p /\ rels[j + 1].at = l /\ rels[j].type = "hi"
      BY <1>2, <2>1
    <3>. HIDE DEF p, l
    <3>. QED
      BY <1>10, <1>11, <3>1 DEF Right
  <2>2. CASE j <= i
    <3>1. Right(before, s.text, rels, base, j)
      BY <2>2 DEF Done
    <3>2. u[rels[j].at] = s.text[rels[j].at]
      BY <1>1, <1>2, <1>9, <2>2
    <3>3. rels[j].type = "hi" => u[rels[j + 1].at] = s.text[rels[j + 1].at]
      <4>1. SUFFICES ASSUME rels[j].type = "hi" PROVE u[rels[j + 1].at] = s.text[rels[j + 1].at]
        OBVIOUS
      <4>2. j # i
        BY <1>1, <4>1 DEF Done
      <4>3. j + 1 \in DOMAIN rels /\ j + 1 <= i
        BY <1>1, <2>2, <4>2
      <4>4. rels[j + 1].at \in DOMAIN before /\ rels[j + 1].at # p /\ rels[j + 1].at # l
        BY <1>1, <1>2, <4>3
      <4>. QED
        BY <1>9, <4>4
    <3>. QED
      BY <3>1, <3>2, <3>3, StaysRight
  <2>. QED
    BY <1>1, <1>13, <2>1, <2>2
<1>14. ASSUME NEW j \in DOMAIN rels, j <= i + 2, rels[j].type \in {"hi", "lo", "16"}
       PROVE  UpperKept(before, u, rels[j].at)
  <2>1. CASE j = i + 1 \/ j = i + 2
    BY <1>8, <1>9, <2>1 DEF UpperKept
  <2>2. CASE j <= i
    <3>1. UpperKept(before, s.text, rels[j].at)
      BY <1>14, <2>2 DEF Done
    <3>2. u[rels[j].at] = s.text[rels[j].at]
      BY <1>1, <1>2, <1>9, <2>2
    <3>. QED
      BY <3>1, <3>2 DEF UpperKept
  <2>. QED
    BY <1>1, <1>14, <2>1, <2>2
<1>15. t.text = u /\ t.skip = TRUE /\ t = [text |-> t.text, skip |-> t.skip]
  BY <1>5
<1>16. t.skip \in BOOLEAN /\ (t.skip <=> (i + 1 >= 1 /\ rels[i + 1].type = "hi"))
  <2>1. i + 1 >= 1
    OBVIOUS
  <2>. QED
    BY <1>15, <2>1, Zenon
<1>17. \A q \in DOMAIN before :
        (\A j \in DOMAIN rels : j <= i + 1 \/ (t.skip /\ j = i + 1 + 1) => rels[j].at # q) => t.text[q] = before[q]
  BY <1>1, <1>12, <1>15
<1>18. \A j \in DOMAIN rels : j <= i + 1 => Right(before, t.text, rels, base, j)
  BY <1>13, <1>15
<1>19. \A j \in DOMAIN rels :
        (j <= i + 1 \/ (t.skip /\ j = i + 1 + 1)) /\ rels[j].type \in {"hi", "lo", "16"} =>
          UpperKept(before, t.text, rels[j].at)
  BY <1>1, <1>14, <1>15
<1>. QED
  BY <1>9, <1>15, <1>16, <1>17, <1>18, <1>19 DEF Done

\* Each entry does what it is for.
LEMMA EntryDone ==
  ASSUME NEW before, NEW rels, NEW base, Wanted(before, rels, base),
         NEW i \in Nat, i + 1 <= Len(rels), NEW s, Done(s, before, rels, base, i),
         NEW t, t = Relocate(s, rels, i + 1, base)
  PROVE  Done(t, before, rels, base, i + 1)
<1>1. /\ DOMAIN rels = 1..Len(rels) /\ Len(rels) \in Nat /\ i + 1 \in DOMAIN rels
      /\ \A j \in DOMAIN rels : j \in Nat /\ j >= 1 /\ rels[j].at \in DOMAIN before
      /\ \A j, k \in DOMAIN rels : rels[j].at = rels[k].at => j = k
  BY EntriesKnown
<1>. DEFINE p == rels[i + 1].at
            w == s.text[p]
            T == rels[i + 1].type
<1>2. w \in 0..(Word - 1) /\ p \in DOMAIN before /\ base \in Nat
  BY <1>1 DEF Done, Wanted
<1>3. PICK h \in Nat \ {0} : Half = 4 * h /\ Half \in Nat \ {0} /\ Word \in Nat \ {0}
  BY Sizes
<1>4. ~s.skip => T # "lo"
  <2>1. SUFFICES ASSUME T = "lo" PROVE s.skip
    OBVIOUS
  <2>2. i + 1 > 1 /\ rels[(i + 1) - 1].type = "hi"
    BY <1>1, <2>1 DEF Wanted, Paired
  <2>3. i >= 1 /\ rels[i].type = "hi"
    BY <2>2
  <2>. QED
    BY <2>3 DEF Done
<1>5. CASE s.skip
  <2>1. i >= 1 /\ rels[i].type = "hi" /\ i \in DOMAIN rels
    BY <1>1, <1>5 DEF Done
  <2>2. T = "lo"
    BY <2>1 DEF Wanted, Paired
  <2>3. t.text = s.text /\ t.skip = FALSE /\ t = [text |-> t.text, skip |-> t.skip]
    BY <1>5 DEF Relocate, Done
  <2>4. t.skip \in BOOLEAN /\ (t.skip <=> (i + 1 >= 1 /\ rels[i + 1].type = "hi"))
    BY <2>2, <2>3
  <2>5. \A q \in DOMAIN before :
          (\A j \in DOMAIN rels : j <= i + 1 \/ (t.skip /\ j = i + 1 + 1) => rels[j].at # q) => t.text[q] = before[q]
    BY <1>1, <1>5, <2>3 DEF Done
  <2>6. \A j \in DOMAIN rels : j <= i + 1 => Right(before, t.text, rels, base, j)
    <3>1. ASSUME NEW j \in DOMAIN rels, j <= i PROVE Right(before, t.text, rels, base, j)
      BY <2>3, <3>1 DEF Done
    <3>2. Right(before, t.text, rels, base, i + 1)
      BY <2>2 DEF Right
    <3>. QED
      BY <1>1, <3>1, <3>2
  <2>7. \A j \in DOMAIN rels :
          (j <= i + 1 \/ (t.skip /\ j = i + 1 + 1)) /\ rels[j].type \in {"hi", "lo", "16"} =>
            UpperKept(before, t.text, rels[j].at)
    BY <1>1, <1>5, <2>3 DEF Done
  <2>. QED
    BY <2>3, <2>4, <2>5, <2>6, <2>7 DEF Done
<1>6. CASE ~s.skip /\ T = "16"
  <2>1. Low(w) \in 0..(Half - 1)
    <3>1. 0 \in 0..(Half - 1)
      BY <1>3
    <3>. QED
      BY <1>2, <3>1, Halves
  <2>. DEFINE x == (base + Signed(Low(w))) % Half
              v == WithLow(w, x)
  <2>2. x \in 0..(Half - 1) /\ x = (Low(w) + base) % Half
    BY <1>2, <2>1, Sixteen
  <2>. HIDE DEF x
  <2>3. v \in 0..(Word - 1) /\ Low(v) = x /\ v - Low(v) = w - Low(w)
    BY <1>2, <2>2, Halves
  <2>4. t.text = [s.text EXCEPT ![p] = v] /\ t = [text |-> t.text, skip |-> FALSE]
    BY <1>6 DEF Relocate, x
  <2>. HIDE DEF v
  <2>5. before[p] = w => Right(before, t.text, rels, base, i + 1)
    BY <1>6, <2>2, <2>3, <2>4, <1>2 DEF Right, Done
  <2>6. Writes(s, before, rels, base, i, v, t)
    BY <1>6, <2>3, <2>4, <2>5 DEF Writes
  <2>. QED
    BY <1>6, <2>6, OneWord
<1>7. CASE ~s.skip /\ T = "32"
  <2>. DEFINE v == (w + base) % Word
  <2>1. v \in 0..(Word - 1)
    BY <1>2, <1>3
  <2>2. t.text = [s.text EXCEPT ![p] = v] /\ t = [text |-> t.text, skip |-> FALSE]
    BY <1>7 DEF Relocate
  <2>3. before[p] = w => v = (before[p] + base) % Word
    OBVIOUS
  <2>. HIDE DEF v
  <2>4. before[p] = w => Right(before, t.text, rels, base, i + 1)
    BY <1>7, <2>2, <2>3, <1>2 DEF Right, Done
  <2>5. Writes(s, before, rels, base, i, v, t)
    BY <1>7, <2>1, <2>2, <2>4 DEF Writes
  <2>. QED
    BY <1>7, <2>5, OneWord
<1>8. CASE ~s.skip /\ T = "26"
  <2>. DEFINE v == (w - (w % Field)) + ((base + (w % Field) * 4) % Segment) \div 4
  <2>1. v \in 0..(Word - 1) /\ (v % Field) * 4 = ((w % Field) * 4 + base) % Segment
    BY <1>2, Jumps DEF Wanted
  <2>2. t.text = [s.text EXCEPT ![p] = v] /\ t = [text |-> t.text, skip |-> FALSE]
    BY <1>8 DEF Relocate
  <2>. HIDE DEF v
  <2>4. before[p] = w => Right(before, t.text, rels, base, i + 1)
    BY <1>8, <2>1, <2>2, <1>2 DEF Right, Done
  <2>5. Writes(s, before, rels, base, i, v, t)
    BY <1>8, <2>1, <2>2, <2>4 DEF Writes
  <2>. QED
    BY <1>8, <2>5, OneWord
<1>9. CASE ~s.skip /\ T = "hi"
  BY <1>9, TwoWords
<1>10. CASE ~s.skip /\ T \notin {"16", "32", "26", "hi"}
  <2>1. t.text = s.text /\ t.skip = FALSE /\ t = [text |-> t.text, skip |-> t.skip]
    BY <1>10 DEF Relocate, Done
  <2>2. t.skip \in BOOLEAN /\ (t.skip <=> (i + 1 >= 1 /\ rels[i + 1].type = "hi"))
    BY <1>10, <2>1
  <2>3. \A q \in DOMAIN before :
          (\A j \in DOMAIN rels : j <= i + 1 \/ (t.skip /\ j = i + 1 + 1) => rels[j].at # q) => t.text[q] = before[q]
    BY <1>1, <1>10, <2>1 DEF Done
  <2>4. \A j \in DOMAIN rels : j <= i + 1 => Right(before, t.text, rels, base, j)
    BY <1>1, <1>10, <2>1 DEF Done, Right
  <2>5. \A j \in DOMAIN rels :
          (j <= i + 1 \/ (t.skip /\ j = i + 1 + 1)) /\ rels[j].type \in {"hi", "lo", "16"} =>
            UpperKept(before, t.text, rels[j].at)
    BY <1>1, <1>4, <1>10, <2>1 DEF Done
  <2>. QED
    BY <2>1, <2>2, <2>3, <2>4, <2>5 DEF Done
<1>. QED
  BY <1>5, <1>6, <1>7, <1>8, <1>9, <1>10

\* All entries of a module.
LEMMA AllMoved ==
  ASSUME NEW before, NEW rels, NEW base, Wanted(before, rels, base)
  PROVE  Moved(before, Relocated(before, rels, base), rels, base)
<1>0. PICK n \in Nat : n = Len(rels)
  BY EntriesKnown
<1>1. n = Len(rels) /\ DOMAIN rels = 1..n
  BY <1>0, EntriesKnown
<1>2. PICK f : /\ f[0] = [text |-> before, skip |-> FALSE]
               /\ \A i \in 1..n : f[i] = Relocate(f[i - 1], rels, i, base)
               /\ Relocated(before, rels, base) = f[n].text
  BY <1>0, InOrder
<1>. DEFINE S == {k \in Nat : k <= n => Done(f[k], before, rels, base, k)}
<1>3. 0 \in S
  <2>1. before \in [DOMAIN before -> 0..(Word - 1)]
    BY DEF Wanted, EntriesApart
  <2>2. f[0].text = before /\ f[0].skip = FALSE /\ f[0] = [text |-> f[0].text, skip |-> f[0].skip]
    BY <1>2
  <2>3. \A j \in DOMAIN rels : ~(j <= 0)
    BY <1>1
  <2>4. f[0].skip \in BOOLEAN /\ (f[0].skip <=> (0 >= 1 /\ rels[0].type = "hi"))
    <3>1. ~(0 >= 1)
      OBVIOUS
    <3>. QED
      BY <2>2, <3>1, Zenon
  <2>5. Done(f[0], before, rels, base, 0)
    BY <2>1, <2>2, <2>3, <2>4 DEF Done
  <2>. QED
    BY <2>5
<1>4. ASSUME NEW k \in Nat, k \in S PROVE k + 1 \in S
  <2>1. SUFFICES ASSUME k + 1 <= n PROVE Done(f[k + 1], before, rels, base, k + 1)
    OBVIOUS
  <2>2. Done(f[k], before, rels, base, k)
    BY <1>4, <2>1
  <2>3. k + 1 \in 1..n /\ (k + 1) - 1 = k /\ k + 1 <= Len(rels)
    BY <1>1, <2>1
  <2>4. f[k + 1] = Relocate(f[k], rels, k + 1, base)
    BY <1>2, <2>3
  <2>. QED
    BY <2>2, <2>3, <2>4, EntryDone
<1>5. Done(f[n], before, rels, base, n)
  <2>. HIDE DEF S
  <2>1. S \in SUBSET Nat
    BY DEF S
  <2>2. n \in S
    BY <1>3, <1>4, <2>1, Induction
  <2>. QED
    BY <2>2 DEF S
<1>. DEFINE after == f[n].text
<1>6. ~f[n].skip
  <2>1. n >= 1 => ~(rels[n].type = "hi")
    BY <1>1 DEF Wanted, Paired
  <2>. QED
    BY <1>5, <2>1 DEF Done
<1>7. \A i \in DOMAIN rels : Right(before, after, rels, base, i)
  BY <1>1, <1>5 DEF Done
<1>8. \A p \in DOMAIN before : p \notin {rels[i].at : i \in DOMAIN rels} => after[p] = before[p]
  BY <1>1, <1>5 DEF Done
<1>9. \A i \in DOMAIN rels : rels[i].type \in {"hi", "lo", "16"} => UpperKept(before, after, rels[i].at)
  BY <1>1, <1>5 DEF Done
<1>. HIDE DEF after
<1>10. Moved(before, after, rels, base)
  <2>1. ASSUME NEW i \in DOMAIN rels
        PROVE  LET p == rels[i].at IN
               /\ rels[i].type = "hi" =>
                    Loaded(after, p, rels[i + 1].at) = (Loaded(before, p, rels[i + 1].at) + base) % Word
               /\ rels[i].type = "32" => after[p] = (before[p] + base) % Word
               /\ rels[i].type = "16" => Low(after[p]) = (Low(before[p]) + base) % Half
               /\ rels[i].type = "26" =>
                    (after[p] % Field) * 4 = ((before[p] % Field) * 4 + base) % Segment
    BY <1>7 DEF Right
  <2>2. ASSUME NEW p \in DOMAIN before, NEW i \in DOMAIN rels, rels[i].at = p, rels[i].type \in {"hi", "lo", "16"}
        PROVE  after[p] - Low(after[p]) = before[p] - Low(before[p])
    BY <1>9, <2>2 DEF UpperKept
  <2>. QED
    BY <1>8, <2>1, <2>2 DEF Moved
<1>. QED
  BY <1>2, <1>10 DEF after
-----------------------------------------------------------------------------
(* The steps.                                                              *)

\* A step of the EE or of the IOP leaves UDNL alone, starts it, or ends it;
\* the others are UDNL's own.
LEMMA StepKinds ==
  ASSUME Next
  PROVE  \/ UdnlNext /\ UNCHANGED evars
         \/ \E args : Start(args)
         \/ loaded' = NotLoaded /\ UNCHANGED <<disc, argv, arg, upc, images, total, next, buf, mem, stack, list, num, start>>
         \/ UNCHANGED uvars
<1>1. CASE UdnlNext /\ UNCHANGED evars
  BY <1>1
<1>2. CASE SifSetReg
  BY <1>2 DEF SifSetReg
<1>3. CASE PlainReset
  BY <1>3 DEF PlainReset
<1>4. CASE FirstUdnl
  BY <1>4 DEF FirstUdnl, StartUdnl
<1>5. CASE SecondUdnl
  BY <1>5 DEF SecondUdnl, StartUdnl
<1>6. CASE EndReset
  BY <1>6 DEF EndReset
<1>7. CASE Main
  BY <1>7 DEF Main
<1>8. CASE LoadElf
  BY <1>8 DEF LoadElf
<1>9. CASE LoadExecPS2
  BY <1>9 DEF LoadExecPS2
<1>10. CASE ResetDone
  BY <1>10 DEF ResetDone
<1>11. ASSUME NEW h \in Headers, NEW a \in GameArgs, SifSetDma(h, a) PROVE UNCHANGED uvars
  BY <1>11 DEF SifSetDma
<1>12. CASE IopUp
  BY <1>12 DEF IopUp
<1>. QED
  BY <1>1, <1>2, <1>3, <1>4, <1>5, <1>6, <1>7, <1>8, <1>9, <1>10, <1>11, <1>12 DEF Next

-----------------------------------------------------------------------------
(* What was loaded.                                                        *)

Loads(m, base) ==
  [kind |-> m.kind, rels |-> m.rels, base |-> base, before |-> m.text,
   after |-> IF m.kind = "irx" THEN Relocated(m.text, m.rels, base) ELSE m.text]
LoadedSound == loaded = NotLoaded \/ \E m \in Modules, base \in Bases : loaded = Loads(m, base)

\* Only Load puts a module there.
LEMMA LoadedStep ==
  ASSUME LoadedSound, [Next]_vars
  PROVE  LoadedSound'
<1>1. CASE UNCHANGED vars
  BY <1>1 DEF vars, uvars, LoadedSound
<1>2. CASE UdnlNext
  <2>1. CASE Load
    <3>1. PICK m \in Modules, base \in Bases : LoadModule(m, base)
      BY <2>1 DEF Load
    <3>2. loaded' = Loads(m, base)
      BY <3>1 DEF LoadModule, Loads
    <3>. QED
      BY <3>2 DEF LoadedSound
  <2>2. CASE ~Load
    <3>1. UNCHANGED loaded
      BY <1>2, <2>2 DEF UdnlNext, OpenFile, AllocMemory, CopyOwn, ReadFile, FindConf, ParseStart,
                        ParseAddr, ParseComment, ParseModule, ParseInclude, ParseEnd, ReadDamaged
    <3>. QED
      BY <3>1 DEF LoadedSound
  <2>. QED
    BY <2>1, <2>2
<1>3. ASSUME NEW args, Start(args) PROVE LoadedSound'
  BY <1>3 DEF Start, LoadedSound
<1>4. CASE loaded' = NotLoaded
  BY <1>4 DEF LoadedSound
<1>5. CASE UNCHANGED uvars
  BY <1>5 DEF uvars, LoadedSound
<1>. QED
  BY <1>1, <1>2, <1>3, <1>4, <1>5, StepKinds

\* Every module that UDNL loads runs where it was loaded: whatever its
\* entries, if they come in pairs, and for halves of any size (LoadIRXModule).
THEOREM ModulesMoved == Spec => []RelocationsRight
<1>1. Init => LoadedSound
  BY DEF Init, UdnlInit, LoadedSound
<1>2. LoadedSound => RelocationsRight
  <2>1. SUFFICES ASSUME LoadedSound, loaded.kind = "irx", Paired(loaded.rels)
                 PROVE  Moved(loaded.before, loaded.after, loaded.rels, loaded.base)
    BY DEF RelocationsRight
  <2>2. CASE loaded = NotLoaded
    <3>1. loaded.before = <<>> /\ loaded.rels = <<>>
      BY <2>2 DEF NotLoaded
    <3>2. DOMAIN loaded.before = {} /\ DOMAIN loaded.rels = {}
      BY <3>1
    <3>. QED
      BY <3>2 DEF Moved
  <2>6. CASE loaded # NotLoaded
    <3>3. PICK m \in Modules, base \in Bases : loaded = Loads(m, base)
      BY <2>1, <2>6 DEF LoadedSound
    <3>4. m.kind = "irx" /\ loaded.rels = m.rels /\ loaded.base = base /\ loaded.before = m.text
          /\ loaded.after = Relocated(m.text, m.rels, base)
      BY <2>1, <3>3 DEF Loads
    <3>5. Wanted(m.text, m.rels, base)
      BY <2>1, <3>4, ModulesAssumption DEF Wanted
    <3>. QED
      BY <3>4, <3>5, AllMoved
  <2>. QED
    BY <2>2, <2>6
<1>. QED
  BY <1>1, <1>2, LoadedStep, PTL DEF Spec
-----------------------------------------------------------------------------
(* The locks, the flags and the IOP.                                       *)

\* Who runs, and what the locks are: the core's own calls are neither
\* intercepted nor kept back, the game's SifSetReg are kept back as often as
\* it still calls it.
Locks ==
  /\ core \in {"idle", "plain", "sync", "first", "second"}
  /\ hooked \in BOOLEAN /\ booting \in BOOLEAN
  /\ dmaLock = IF core = "idle" THEN 1 ELSE 0
  /\ regLock \in Nat
  /\ core # "idle" => /\ regLock = 0
                      /\ \/ game = "main" /\ caller = "main" /\ ioprp = <<>>
                         \/ game = "reset" /\ caller = "game" /\ hooked
  /\ core = "idle" => game \in {"main", "elf", "run", "dead", "regs"}
  /\ core = "idle" /\ game # "regs" => todo = <<>> /\ regLock = 0
  /\ core = "plain" => todo = <<>>
  /\ core # "idle" /\ todo # <<>> => booting

\* What the flags say of the IOP: BOOTEND comes last.
Flags ==
  /\ smflag \subseteq Up /\ todo \in Seq(SUBSET Up)
  /\ booting /\ todo # UdnlRegs => "bootend" \notin smflag
  /\ ~booting /\ todo = <<>> /\ "bootend" \in smflag => smflag = Up

\* The game waits for an IOP that it reset itself, or for its own calls after
\* the core did.
Waits ==
  game = "regs" =>
    \/ booting /\ iop = "game" /\ regLock = 0 /\ ~hooked
    \/ ~booting /\ smflag = Up /\ regLock = Len(todo) /\ (todo # <<>> => hooked)

\* What the IOP was last reset to.
Loadeds ==
  /\ core = "first" => iop = "core" /\ argv = <<>>
  /\ core = "second" => iop = "core" /\ argv = ioprp
  /\ hooked /\ game \in {"elf", "run", "regs"} => iop = "core" /\ ~booting /\ argv = ioprp

Control == Locks /\ Flags /\ Waits /\ Loadeds

\* UDNL leaves its arguments alone.
LEMMA ArgumentsStay ==
  ASSUME UdnlNext
  PROVE  UNCHANGED <<disc, argv>>
BY DEF UdnlNext, OpenFile, AllocMemory, CopyOwn, ReadFile, FindConf, ParseStart,
       ParseAddr, ParseComment, ParseModule, ParseInclude, ParseEnd, Load, ReadDamaged

\* The flags and the registers still to be written.
LEMMA RegsTyped ==
  /\ ResetRegs \in Seq(SUBSET Up) /\ Len(ResetRegs) = 4 /\ ResetRegs # <<>>
  /\ UdnlRegs \in Seq(SUBSET Up) /\ Len(UdnlRegs) = 3 /\ UdnlRegs # <<>> /\ Head(UdnlRegs) = Up
  /\ Up \subseteq Up /\ "bootend" \in Up
BY DEF ResetRegs, UdnlRegs, Up

\* At first.
LEMMA ControlBegins ==
  ASSUME Init
  PROVE  Control
<1>1. Locks
  BY DEF Init, Locks
<1>2. Flags
  BY RegsTyped DEF Init, Flags
<1>3. Waits
  BY DEF Init, Waits
<1>4. Loadeds
  BY DEF Init, Loadeds
<1>. QED
  BY <1>1, <1>2, <1>3, <1>4 DEF Control

\* A call of SifSetReg.
LEMMA SifSetRegControlled ==
  ASSUME Control, SifSetReg
  PROVE  Control'
<1>1. /\ todo # <<>> /\ todo' = Tail(todo) /\ todo \in Seq(SUBSET Up) /\ smflag \subseteq Up
      /\ todo' \in Seq(SUBSET Up) /\ Len(todo') = Len(todo) - 1 /\ Len(todo') \in Nat /\ Head(todo) \in SUBSET Up
      /\ UNCHANGED <<game, core, dmaLock, caller, ioprp, iop, booting, argv>>
  BY DEF SifSetReg, uvars, Control, Flags
<1>2. core = "idle" => game = "regs"
  BY <1>1 DEF Control, Locks
<1>4. CASE hooked /\ regLock > 0
  <2>0. regLock' = regLock - 1 /\ smflag' = smflag /\ hooked' = ~(regLock = 1 /\ mode3) /\ regLock \in Nat
    BY <1>4 DEF SifSetReg, Control, Locks
  <2>8. regLock = 1 => regLock' = 0
    BY <2>0
  <2>9. hooked' \in BOOLEAN /\ (hooked' => hooked) /\ (hooked' \/ regLock = 1)
    BY <1>4, <2>0
  <2>1. /\ regLock' = regLock - 1 /\ hooked' \in BOOLEAN /\ (hooked' => hooked) /\ smflag' = smflag
        /\ (hooked' \/ regLock' = 0)
    BY <2>0, <2>8, <2>9
  <2>2. core = "idle" /\ game = "regs" /\ regLock \in Nat
    BY <1>2, <1>4 DEF Control, Locks
  <2>3. ~booting /\ smflag = Up /\ regLock = Len(todo)
    BY <1>4, <2>2 DEF Control, Waits
  <2>4. Locks'
    BY <1>1, <2>1, <2>2, <1>4 DEF Control, Locks
  <2>5. Flags'
    BY <1>1, <2>1, <2>3 DEF Flags
  <2>6. Waits'
    BY <1>1, <2>1, <2>2, <2>3 DEF Waits
  <2>7. Loadeds'
    BY <1>1, <2>1 DEF Control, Loadeds
  <2>. QED
    BY <2>4, <2>5, <2>6, <2>7 DEF Control
<1>5. CASE ~(hooked /\ regLock > 0)
  <2>1. smflag' = smflag \ Head(todo) /\ UNCHANGED <<regLock, hooked>>
    BY <1>5 DEF SifSetReg
  <2>2. booting
    <3>1. CASE core = "idle"
      <4>1. booting \/ (regLock = Len(todo) /\ hooked)
        BY <1>1, <1>2, <3>1 DEF Control, Waits
      <4>2. Len(todo) > 0
        BY <1>1
      <4>. QED
        BY <1>5, <4>1, <4>2
    <3>2. CASE core # "idle"
      BY <1>1, <3>2 DEF Control, Locks
    <3>. QED
      BY <3>1, <3>2
  <2>3. "bootend" \notin smflag'
    <3>1. CASE todo = UdnlRegs
      BY <2>1, <3>1, RegsTyped
    <3>2. CASE todo # UdnlRegs
      BY <2>1, <2>2, <3>2 DEF Control, Flags
    <3>. QED
      BY <3>1, <3>2
  <2>4. Locks'
    BY <1>1, <1>2, <2>1, <2>2 DEF Control, Locks
  <2>5. Flags'
    BY <1>1, <2>1, <2>2, <2>3 DEF Flags
  <2>6. Waits'
    BY <1>1, <2>1, <2>2 DEF Control, Waits
  <2>7. Loadeds'
    BY <1>1, <2>1 DEF Control, Loadeds
  <2>. QED
    BY <2>4, <2>5, <2>6, <2>7 DEF Control
<1>. QED
  BY <1>4, <1>5

\* The steps of New_SifIopReset.
LEMMA ResetControlled ==
  ASSUME Control, PlainReset \/ FirstUdnl \/ SecondUdnl \/ EndReset
  PROVE  Control'
<1>1. CASE PlainReset
  <2>1. core = "plain" /\ todo = <<>> /\ ~Intercepts(ResetHeader)
    BY <1>1 DEF PlainReset, Control, Locks, Intercepts
  <2>2. /\ core' = "sync" /\ iop' = "rom" /\ booting' = TRUE /\ todo' = ResetRegs
        /\ smflag' = smflag \ {"bootend"}
        /\ UNCHANGED <<game, dmaLock, regLock, hooked, caller, ioprp, argv>>
    BY <1>1, <2>1 DEF PlainReset, Packet, locks, uvars
  <2>3. Locks'
    BY <2>1, <2>2, RegsTyped DEF Control, Locks
  <2>4. Flags'
    BY <2>2, RegsTyped DEF Control, Flags
  <2>5. Waits' /\ Loadeds'
    BY <2>1, <2>2 DEF Control, Locks, Waits, Loadeds
  <2>. QED
    BY <2>3, <2>4, <2>5 DEF Control
<1>2. ASSUME NEW args, NEW c \in {"first", "second"}, core \in {"sync", "first"}, core' = c, StartUdnl(args),
             c = "first" => args = <<>>, c = "second" => args = ioprp
      PROVE  Control'
  <2>1. /\ argv' = args /\ iop' = "core" /\ booting' = TRUE /\ todo' = UdnlRegs
        /\ UNCHANGED <<game, dmaLock, regLock, hooked, caller, ioprp, smflag>>
    BY <1>2 DEF StartUdnl, Start, locks
  <2>2. Locks'
    BY <1>2, <2>1, RegsTyped DEF Control, Locks
  <2>3. Flags'
    BY <2>1, RegsTyped DEF Control, Flags
  <2>4. Waits' /\ Loadeds'
    BY <1>2, <2>1 DEF Control, Locks, Waits, Loadeds
  <2>. QED
    BY <2>2, <2>3, <2>4 DEF Control
<1>3. CASE FirstUdnl
  BY <1>2, <1>3 DEF FirstUdnl
<1>4. CASE SecondUdnl
  BY <1>2, <1>4 DEF SecondUdnl
<1>5. CASE EndReset
  <2>1. /\ core \in {"first", "second"} /\ todo = <<>> /\ "bootend" \in smflag /\ (core = "first" => ioprp = <<>>)
        /\ core' = "idle" /\ dmaLock' = 1
        /\ UNCHANGED <<hooked, caller, ioprp, smflag, iop, booting, argv>>
    BY <1>5 DEF EndReset, Synced, uvars
  <2>2. ~booting /\ smflag = Up
    BY <2>1, RegsTyped DEF Control, Flags
  <2>3. iop = "core" /\ argv = ioprp
    BY <2>1 DEF Control, Loadeds
  <2>4. regLock = 0 /\ ((game = "main" /\ caller = "main") \/ (game = "reset" /\ caller = "game" /\ hooked))
    BY <2>1 DEF Control, Locks
  <2>5. hooked \in BOOLEAN /\ booting \in BOOLEAN
    BY DEF Control, Locks
  <2>6. \/ /\ caller = "game" /\ game' = "regs" /\ todo' = ResetRegs /\ regLock' = 4
        \/ /\ game' = "elf" /\ todo' = <<>> /\ regLock' = 0
    BY <1>5, <2>1, <2>4 DEF EndReset, Skipped
  <2>7. caller = "game" => hooked
    BY <2>4
  <2>8. Locks'
    BY <2>1, <2>2, <2>4, <2>5, <2>6 DEF Locks
  <2>9. Flags'
    <3>1. <<>> \in Seq(SUBSET Up) /\ todo' \in {<<>>, ResetRegs}
      BY <2>6
    <3>2. todo' \in Seq(SUBSET Up)
      BY <3>1, RegsTyped
    <3>. QED
      BY <2>1, <2>2, <3>2 DEF Flags
  <2>10. Waits'
    BY <2>1, <2>2, <2>6, <2>7, RegsTyped DEF Waits
  <2>11. Loadeds'
    BY <2>1, <2>2, <2>3 DEF Loadeds
  <2>. QED
    BY <2>8, <2>9, <2>10, <2>11 DEF Control
<1>. QED
  BY <1>1, <1>3, <1>4, <1>5

\* The EE: main, and the game.
LEMMA GameControlled ==
  ASSUME Control, Main \/ LoadElf \/ LoadExecPS2 \/ ResetDone
  PROVE  Control'
<1>1. CASE Main
  <2>1. /\ game = "main" /\ core = "idle" /\ core' = "plain" /\ caller' = "main" /\ ioprp' = <<>>
        /\ regLock' = 0 /\ dmaLock' = 0 /\ (hooked' = hooked \/ hooked' = TRUE)
        /\ UNCHANGED <<game, todo, smflag, iop, booting, argv>>
    BY <1>1 DEF Main, Begin, Unlocked, uvars
  <2>2. Locks'
    BY <2>1 DEF Control, Locks
  <2>3. Flags'
    BY <2>1 DEF Control, Flags
  <2>4. Waits' /\ Loadeds'
    BY <2>1 DEF Waits, Loadeds
  <2>. QED
    BY <2>2, <2>3, <2>4 DEF Control
<1>2. CASE LoadElf \/ LoadExecPS2
  <2>1. /\ (game = "elf" /\ game' \in {"run", "dead"}) \/ (game = "run" /\ game' = "main")
        /\ UNCHANGED <<core, todo, dmaLock, regLock, hooked, caller, ioprp, smflag, iop, booting, argv>>
    BY <1>2 DEF LoadElf, LoadExecPS2, locks, uvars
  <2>2. core = "idle" /\ todo = <<>> /\ regLock = 0
    BY <2>1 DEF Control, Locks
  <2>3. Locks'
    BY <2>1, <2>2 DEF Control, Locks
  <2>4. Flags'
    BY <2>1 DEF Control, Flags
  <2>5. Waits' /\ Loadeds'
    BY <2>1, <2>2 DEF Control, Waits, Loadeds
  <2>. QED
    BY <2>3, <2>4, <2>5 DEF Control
<1>3. CASE ResetDone
  <2>1. /\ game = "regs" /\ todo = <<>> /\ smflag = Up /\ "bootend" \in smflag /\ game' = "run"
        /\ UNCHANGED <<core, todo, dmaLock, regLock, hooked, caller, ioprp, smflag, iop, booting, argv>>
    BY <1>3 DEF ResetDone, Synced, locks, uvars
  <2>2. ~booting /\ regLock = 0 /\ core = "idle"
    BY <2>1, RegsTyped DEF Control, Locks, Flags, Waits
  <2>3. Locks'
    BY <2>1, <2>2 DEF Control, Locks
  <2>4. Flags'
    BY <2>1 DEF Control, Flags
  <2>5. Waits' /\ Loadeds'
    BY <2>1, <2>2 DEF Control, Waits, Loadeds
  <2>. QED
    BY <2>3, <2>4, <2>5 DEF Control
<1>. QED
  BY <1>1, <1>2, <1>3

\* The game's transfers, of which some are resets.
LEMMA DmaControlled ==
  ASSUME Control, NEW h, NEW a, SifSetDma(h, a)
  PROVE  Control'
<1>1. game = "run" /\ core = "idle" /\ todo = <<>> /\ regLock = 0
  BY DEF SifSetDma, Control, Locks
<1>2. CASE Intercepts(h)
  <2>1. /\ core' = "plain" /\ caller' = "game" /\ ioprp' = a /\ regLock' = 0 /\ dmaLock' = 0 /\ game' = "reset"
        /\ smflag' \subseteq smflag /\ "bootend" \notin smflag'
        /\ UNCHANGED <<todo, hooked, iop, booting, argv>>
    BY <1>2 DEF SifSetDma, Intercepts, Begin, Unlocked, uvars
  <2>5. hooked /\ hooked \in BOOLEAN /\ booting \in BOOLEAN
    BY <1>2 DEF Intercepts, Control, Locks
  <2>2. Locks'
    BY <1>1, <2>1, <2>5 DEF Locks
  <2>3. Flags'
    BY <2>1 DEF Control, Flags
  <2>4. Waits' /\ Loadeds'
    BY <2>1 DEF Waits, Loadeds
  <2>. QED
    BY <2>2, <2>3, <2>4 DEF Control
<1>3. CASE ~Intercepts(h) /\ IsReset(h)
  <2>1. /\ game' = "regs" /\ ioprp' = a /\ iop' = "game" /\ booting' = TRUE /\ todo' = ResetRegs
        /\ smflag' = smflag \ {"bootend"}
        /\ UNCHANGED <<core, caller, dmaLock, regLock, hooked, argv>>
    BY <1>3 DEF SifSetDma, Packet, locks, uvars
  <2>2. ~hooked
    BY <1>1, <1>3 DEF Intercepts, Control, Locks
  <2>3. Locks'
    BY <1>1, <2>1 DEF Control, Locks
  <2>4. Flags'
    BY <2>1, RegsTyped DEF Control, Flags
  <2>5. Waits' /\ Loadeds'
    BY <1>1, <2>1, <2>2 DEF Waits, Loadeds
  <2>. QED
    BY <2>3, <2>4, <2>5 DEF Control
<1>4. CASE ~Intercepts(h) /\ ~IsReset(h)
  BY <1>4 DEF SifSetDma, locks, uvars, Control, Locks, Flags, Waits, Loadeds
<1>. QED
  BY <1>2, <1>3, <1>4

\* The IOP has started.
LEMMA IopControlled ==
  ASSUME Control, IopUp
  PROVE  Control'
<1>1. /\ booting /\ todo = <<>> /\ booting' = FALSE
      /\ UNCHANGED <<game, core, todo, dmaLock, regLock, hooked, caller, ioprp, iop, argv>>
  BY DEF IopUp, locks
<1>2. smflag' = Up \/ (iop = "core" /\ smflag' = smflag \cup (Up \ {"bootend"}))
  BY DEF IopUp, Control, Flags
<1>3. "bootend" \notin smflag /\ smflag \subseteq Up
  BY <1>1, RegsTyped DEF Control, Flags
<1>4. Locks'
  BY <1>1 DEF Control, Locks
<1>5. Flags'
  BY <1>1, <1>2, <1>3 DEF Control, Flags
<1>6. Waits'
  <2>1. game = "regs" => iop = "game" /\ regLock = 0
    BY <1>1 DEF Control, Waits
  <2>. QED
    BY <1>1, <1>2, <2>1 DEF Waits
<1>7. Loadeds'
  BY <1>1 DEF Control, Loadeds
<1>. QED
  BY <1>4, <1>5, <1>6, <1>7 DEF Control

\* One step.
LEMMA ControlStep ==
  ASSUME Control, [Next]_vars
  PROVE  Control'
<1>1. CASE UNCHANGED vars
  BY <1>1 DEF vars, uvars, evars, Control, Locks, Flags, Waits, Loadeds
<1>2. CASE UdnlNext /\ UNCHANGED evars
  BY <1>2, ArgumentsStay DEF evars, Control, Locks, Flags, Waits, Loadeds
<1>. QED
  BY <1>1, <1>2, SifSetRegControlled, ResetControlled, GameControlled, DmaControlled, IopControlled DEF Next
-----------------------------------------------------------------------------
(* Files, images and the block.                                            *)

Names == {"rom", "own"} \cup DOMAIN Discs[disc]
Units == [file : Names \cup {None}, unit : Nat]
ImageType == [file : Names, name : Names \cup {None}, at : Nat, dir : Names \cup {None}]

Typed ==
  /\ disc \in DOMAIN Discs
  /\ images \in Seq(ImageType)
  /\ total \in Nat /\ next \in Nat /\ next >= 3 /\ buf \in Nat /\ num \in Nat
  /\ mem \in [DOMAIN mem -> Units]

\* The ROM's image and UDNL's own come first, and that is found where it was
\* put; before the list is made there is none.
Standing ==
  /\ upc \in {"off", "args", "own", "read", "parse", "sysmem", "loadcore", "booted", "lost", "stopped"}
  /\ upc # "off" => /\ Len(images) >= 2 /\ images[1] = Image("rom", 0, "rom") /\ images[2].file = "own"
                    /\ total >= Own.size
  /\ upc \notin {"off", "args", "stopped"} => DOMAIN mem = 0..(total - 1)
  /\ upc \notin {"off", "args", "own", "stopped"} => images[2] = Image("own", 0, "own")
  /\ upc \in {"off", "args", "own", "read"} => num = 0

\* The files.
LEMMA FilesTyped ==
  ASSUME disc \in DOMAIN Discs, NEW f \in Names
  PROVE  /\ IsFile(FileOf(f)) /\ FileOf(f).size \in Nat
         /\ f \in DOMAIN Discs[disc] => FileOf(f) = Discs[disc][f]
         /\ FileOf("own") = Own /\ FileOf("rom") = Rom
<1>1. f \in DOMAIN Discs[disc] => f \notin {"rom", "own"}
  BY UdnlAssumption
<1>2. IsFile(FileOf(f))
  BY <1>1, UdnlAssumption DEF Names, FileOf
<1>. QED
  BY <1>1, <1>2 DEF FileOf, IsFile

\* No file is called None.
LEMMA NamesKnown ==
  ASSUME disc \in DOMAIN Discs
  PROVE  None \notin Names
BY UdnlAssumption DEF Names

\* Sizes are rounded up to multiples of Align.
LEMMA Rounding ==
  ASSUME NEW n \in Nat
  PROVE  \E k \in Nat : RoundUp(n) = k * Align /\ RoundUp(n) \in Nat /\ RoundUp(n) >= n
<1>1. PICK a \in Nat \ {0} : a = Align
  BY UdnlAssumption
<1>2. n + a - 1 \in Nat
  OBVIOUS
<1>3. PICK m \in Nat : m = n + a - 1
  BY <1>2
<1>4. PICK q \in Nat, r \in 0..(a - 1) : q = m \div a /\ r = m % a /\ m = q * a + r
  BY Division
<1>5. RoundUp(n) = q * a
  BY <1>1, <1>3, <1>4 DEF RoundUp
<1>6. m = q * a + r /\ q * a \in Nat
  BY <1>4
<1>7. q * a >= n
  BY <1>3, <1>6
<1>. QED
  BY <1>1, <1>5, <1>6, <1>7

\* A set of numbers has a least one.
LEMMA Least ==
  ASSUME NEW S \in SUBSET Nat, S # {}
  PROVE  Min(S) \in S /\ \A y \in S : Min(S) <= y
<1>. DEFINE R == {ss \in Nat \X Nat : ss[1] < ss[2]}
<1>1. IsWellFoundedOn(R, Nat)
  BY NatLessThanWellFounded DEF OpToRel
<1>. HIDE DEF R
<1>2. PICK x \in S : \A y \in S : ~(<<y, x>> \in R)
  BY <1>1, WFMin
<1>3. ASSUME NEW y \in S PROVE x <= y
  <2>1. x \in Nat /\ y \in Nat
    BY <1>2
  <2>2. y < x => <<y, x>> \in R
    BY <2>1 DEF R
  <2>. QED
    BY <1>2, <2>1, <2>2
<1>4. \E z \in S : \A y \in S : z <= y
  BY <1>2, <1>3
<1>. QED
  BY <1>4 DEF Min

\* What is read goes into the block.
LEMMA FilledTyped ==
  ASSUME disc \in DOMAIN Discs, mem \in [DOMAIN mem -> Units], NEW f \in Names, NEW a \in Nat, NEW n \in Nat
  PROVE  Filled(f, a, n) \in [DOMAIN mem -> Units]
<1>1. ASSUME NEW b \in DOMAIN mem, b \in a..(a + n - 1) PROVE [file |-> f, unit |-> b - a] \in Units
  <2>1. b - a \in Nat
    BY <1>1
  <2>. QED
    BY <2>1 DEF Units
<1>. QED
  BY <1>1 DEF Filled

\* A directory that is found is one of a file.
LEMMA FoundTyped ==
  ASSUME NEW M, M \in [DOMAIN M -> Units], NEW a \in Nat, NEW n \in Nat
  PROVE  DirFound(M, a, n) \in Names \cup {None}
<1>. DEFINE hits == {d \in 0..(n - 1) : /\ a + d \in DOMAIN M /\ M[a + d] # Blank
                                        /\ M[a + d].unit = d /\ FileOf(M[a + d].file).dir = d}
<1>1. CASE hits # {}
  <2>1. hits \in SUBSET Nat
    OBVIOUS
  <2>2. Min(hits) \in hits
    BY <1>1, <2>1, Least
  <2>3. a + Min(hits) \in DOMAIN M
    BY <2>2
  <2>4. M[a + Min(hits)].file \in Names \cup {None}
    BY <2>3 DEF Units
  <2>. QED
    BY <1>1, <2>4 DEF DirFound
<1>2. CASE hits = {}
  BY <1>2 DEF DirFound
<1>. QED
  BY <1>1, <1>2

\* UDNL's own image is found.
LEMMA OwnFound ==
  ASSUME disc \in DOMAIN Discs, 0..(Own.size - 1) \subseteq DOMAIN mem
  PROVE  DirFound(Filled("own", 0, Own.size), 0, Own.size) = "own"
<1>. DEFINE M == Filled("own", 0, Own.size)
            hits == {d \in 0..(Own.size - 1) : /\ 0 + d \in DOMAIN M /\ M[0 + d] # Blank
                                               /\ M[0 + d].unit = d /\ FileOf(M[0 + d].file).dir = d}
<1>1. Own.size \in Nat /\ Own.dir \in 0..(Own.size - 1)
  BY UdnlAssumption, OwnAssumption DEF IsFile
<1>2. ASSUME NEW d \in 0..(Own.size - 1)
      PROVE  0 + d = d /\ d \in DOMAIN M /\ M[d] = [file |-> "own", unit |-> d]
  <2>1. d \in DOMAIN mem /\ d - 0 = d /\ d \in 0..(0 + Own.size - 1)
    BY <1>1
  <2>. QED
    BY <2>1 DEF Filled
<1>3. "own" # None /\ FileOf("own") = Own
  BY UdnlAssumption DEF FileOf
<1>4. hits = {Own.dir}
  <2>. HIDE DEF M
  <2>1. ASSUME NEW d \in 0..(Own.size - 1)
        PROVE  0 + d \in DOMAIN M /\ M[0 + d] # Blank /\ M[0 + d].unit = d /\ FileOf(M[0 + d].file) = Own
    <3>1. M[0 + d] = [file |-> "own", unit |-> d] /\ 0 + d \in DOMAIN M
      BY <1>2
    <3>2. M[0 + d].file = "own" /\ M[0 + d].unit = d
      BY <3>1
    <3>3. Blank.file = None
      BY DEF Blank
    <3>. QED
      BY <1>3, <3>1, <3>2, <3>3
  <2>. QED
    BY <1>1, <2>1
<1>5. Min(hits) = Own.dir
  <2>1. hits \in SUBSET Nat /\ hits # {}
    BY <1>1, <1>4
  <2>2. Min(hits) \in hits
    BY <2>1, Least
  <2>. QED
    BY <1>4, <2>2
<1>8. 0 + Own.dir = Own.dir
  BY <1>1
<1>. HIDE DEF M, hits
<1>6. M[0 + Min(hits)].file = "own"
  <2>1. 0 + Min(hits) = Own.dir
    BY <1>5, <1>8
  <2>2. M[Own.dir] = [file |-> "own", unit |-> Own.dir]
    BY <1>1, <1>2
  <2>. QED
    BY <2>1, <2>2
<1>7. hits # {}
  BY <1>4
<1>. QED
  BY <1>6, <1>7 DEF DirFound, M, hits

Basics == Typed /\ Standing
ivars == <<disc, argv, arg, upc, images, total, next, buf, mem, stack, list, num, start>>

\* UDNL is not yet started.
LEMMA BasicsBegin ==
  ASSUME Init
  PROVE  Basics
<1>1. Typed
  <2>1. <<>> \in Seq(ImageType) /\ DOMAIN <<>> = {}
    OBVIOUS
  <2>2. <<>> \in [DOMAIN <<>> -> Units]
    BY <2>1
  <2>. QED
    BY <2>1, <2>2 DEF Init, UdnlInit, Typed
<1>2. Standing
  BY DEF Init, UdnlInit, Standing
<1>. QED
  BY <1>1, <1>2 DEF Basics

\* It is started.
LEMMA BasicsStart ==
  ASSUME Basics, NEW args, Start(args)
  PROVE  Basics'
<1>1. disc' = disc /\ disc \in DOMAIN Discs /\ Names' = Names /\ Units' = Units /\ ImageType' = ImageType
  BY DEF Basics, Typed, Start, Names, Units, ImageType
<1>2. Own.size \in Nat
  BY UdnlAssumption DEF IsFile
<1>3. RoundUp(Own.size) \in Nat /\ RoundUp(Own.size) >= Own.size
  BY <1>2, Rounding
<1>4. Typed'
  <2>1. Image("rom", 0, "rom") \in ImageType /\ [file |-> "own", name |-> None, at |-> 0, dir |-> None] \in ImageType
    BY DEF Image, ImageType, Names
  <2>2. images' \in Seq(ImageType)
    BY <2>1 DEF Start
  <2>3. mem' \in [DOMAIN mem' -> Units]
    <3>1. DOMAIN <<>> = {} /\ mem' = <<>>
      BY DEF Start
    <3>. QED
      BY <3>1
  <2>. QED
    BY <1>1, <1>3, <2>2, <2>3 DEF Start, Typed
<1>5. Standing'
  <2>1. Len(images') = 2 /\ images'[1] = Image("rom", 0, "rom") /\ images'[2].file = "own"
    BY DEF Start
  <2>. QED
    BY <1>3, <2>1 DEF Start, Standing
<1>. QED
  BY <1>4, <1>5 DEF Basics

\* It opens the files, and allocates the block.
LEMMA BasicsOpen ==
  ASSUME Basics, OpenFile \/ AllocMemory
  PROVE  Basics'
<1>1. /\ disc' = disc /\ disc \in DOMAIN Discs /\ Names' = Names /\ Units' = Units /\ ImageType' = ImageType
      /\ UNCHANGED <<next, buf, num>> /\ upc = "args"
  BY DEF Basics, Typed, OpenFile, AllocMemory, Names, Units, ImageType
<1>2. images \in Seq(ImageType) /\ total \in Nat /\ mem \in [DOMAIN mem -> Units]
      /\ next \in Nat /\ next >= 3 /\ buf \in Nat /\ num \in Nat
  BY DEF Basics, Typed
<1>3. /\ Len(images) >= 2 /\ images[1] = Image("rom", 0, "rom") /\ images[2].file = "own" /\ total >= Own.size
      /\ num = 0
  BY <1>1 DEF Basics, Standing
<1>8. Own.size \in Nat
  BY UdnlAssumption DEF IsFile
<1>4. CASE OpenFile
  <2>1. upc' \in {"args", "stopped"} /\ mem' = mem
    BY <1>1, <1>4 DEF OpenFile
  <2>3. \/ images' = images /\ total' = total
        \/ \E f \in DOMAIN Discs[disc] : /\ images' = Append(images, [Image(f, 0, None) EXCEPT !.name = f])
                                         /\ total' = total + RoundUp(Discs[disc][f].size)
    BY <1>4 DEF OpenFile
  <2>4. CASE images' = images /\ total' = total
    BY <1>1, <1>2, <1>3, <2>1, <2>4 DEF Basics, Typed, Standing
  <2>5. ASSUME NEW f \in DOMAIN Discs[disc], images' = Append(images, [Image(f, 0, None) EXCEPT !.name = f]),
               total' = total + RoundUp(Discs[disc][f].size)
        PROVE  Basics'
    <3>1. f \in Names
      BY DEF Names
    <3>2. Discs[disc][f].size \in Nat
      BY <1>1, UdnlAssumption DEF IsFile
    <3>3. RoundUp(Discs[disc][f].size) \in Nat
      BY <3>2, Rounding
    <3>4. [Image(f, 0, None) EXCEPT !.name = f] \in ImageType
      BY <3>1 DEF Image, ImageType
    <3>5. /\ images' \in Seq(ImageType) /\ Len(images') = Len(images) + 1
          /\ \A i \in 1..Len(images) : images'[i] = images[i]
      BY <1>2, <2>5, <3>4
    <3>6. Len(images') >= 2 /\ images'[1] = images[1] /\ images'[2] = images[2]
      BY <1>2, <1>3, <3>5
    <3>7. total' \in Nat /\ total' >= Own.size
      BY <1>2, <1>3, <1>8, <2>5, <3>3
    <3>8. Typed'
      BY <1>1, <1>2, <2>1, <3>5, <3>7 DEF Typed
    <3>9. Standing'
      BY <1>1, <1>3, <2>1, <3>6, <3>7 DEF Standing
    <3>. QED
      BY <3>8, <3>9 DEF Basics
  <2>. QED
    BY <2>3, <2>4, <2>5
<1>5. CASE AllocMemory
  <2>1. UNCHANGED <<arg, images, total>>
    BY <1>5 DEF AllocMemory
  <2>2. \/ upc' = "own" /\ mem' = [a \in 0..(total - 1) |-> Blank]
        \/ upc' = "stopped" /\ mem' = mem
    BY <1>5 DEF AllocMemory
  <2>3. mem' \in [DOMAIN mem' -> Units]
    BY <1>2, <2>2 DEF Blank, Units
  <2>4. upc' = "own" => DOMAIN mem' = 0..(total - 1)
    BY <2>2
  <2>5. Typed'
    BY <1>1, <1>2, <2>1, <2>3 DEF Typed
  <2>6. Standing'
    BY <1>1, <1>3, <2>1, <2>2, <2>4 DEF Standing
  <2>. QED
    BY <2>5, <2>6 DEF Basics
<1>. QED
  BY <1>4, <1>5

\* It reads the images.
LEMMA BasicsRead ==
  ASSUME Basics, CopyOwn \/ ReadFile
  PROVE  Basics'
<1>1. /\ disc' = disc /\ disc \in DOMAIN Discs /\ Names' = Names /\ Units' = Units /\ ImageType' = ImageType
      /\ UNCHANGED <<arg, total, num>> /\ upc \in {"own", "read"} /\ upc' = "read"
  BY DEF Basics, Typed, CopyOwn, ReadFile, Names, Units, ImageType
<1>2. images \in Seq(ImageType) /\ total \in Nat /\ mem \in [DOMAIN mem -> Units]
      /\ next \in Nat /\ next >= 3 /\ buf \in Nat /\ num \in Nat
  BY DEF Basics, Typed
<1>3. /\ Len(images) >= 2 /\ images[1] = Image("rom", 0, "rom") /\ images[2].file = "own" /\ total >= Own.size
      /\ num = 0 /\ DOMAIN mem = 0..(total - 1)
  BY <1>1 DEF Basics, Standing
<1>8. Own.size \in Nat /\ "own" \in Names
  BY UdnlAssumption DEF IsFile, Names
<1>4. CASE CopyOwn
  <2>1. mem' = Filled("own", 0, Own.size) /\ UNCHANGED next
    BY <1>4 DEF CopyOwn
  <2>2. 0..(Own.size - 1) \subseteq DOMAIN mem
    BY <1>2, <1>3, <1>8
  <2>3. DirFound(mem', 0, Own.size) = "own"
    BY <1>1, <2>1, <2>2, OwnFound
  <2>4. "own" # None
    BY UdnlAssumption
  <2>5. images' = [images EXCEPT ![2] = Image("own", 0, "own")] /\ buf' = RoundUp(Own.size)
    BY <1>4, <2>3, <2>4 DEF CopyOwn, AfterOwn
  <2>6. Image("own", 0, "own") \in ImageType /\ Image("own", 0, "own").file = "own"
    BY <1>8 DEF Image, ImageType
  <2>7. /\ images' \in Seq(ImageType) /\ Len(images') = Len(images)
        /\ images'[1] = images[1] /\ images'[2] = Image("own", 0, "own")
    BY <1>2, <1>3, <2>5, <2>6
  <2>8. mem' \in [DOMAIN mem -> Units] /\ DOMAIN mem' = DOMAIN mem
    <3>1. 0 \in Nat /\ Own.size \in Nat
      BY <1>8
    <3>2. Filled("own", 0, Own.size) \in [DOMAIN mem -> Units]
      BY <1>1, <1>2, <1>8, <3>1, FilledTyped
    <3>. QED
      BY <2>1, <3>2
  <2>9. buf' \in Nat
    BY <1>8, <2>5, Rounding
  <2>10. Typed'
    BY <1>1, <1>2, <2>1, <2>7, <2>8, <2>9 DEF Typed
  <2>11. Standing'
    BY <1>1, <1>3, <2>6, <2>7, <2>8 DEF Standing
  <2>. QED
    BY <2>10, <2>11 DEF Basics
<1>5. CASE ReadFile
  <2>0. images[2] = Image("own", 0, "own") /\ next <= Len(images) /\ next' = next + 1 /\ upc = "read"
    BY <1>5 DEF ReadFile, Basics, Standing
  <2>. DEFINE f == images[next].file
  <2>12. PICK n \in 0..FileOf(f).size :
          LET found == IF n = FileOf(f).size THEN DirFound(mem', buf, ScanRange) ELSE None IN
          /\ mem' = Filled(f, buf, n)
          /\ images' = IF found = None THEN images ELSE [images EXCEPT ![next] = Image(f, buf, found)]
          /\ buf' = IF found = None THEN buf ELSE buf + RoundUp(FileOf(f).size)
    BY <1>5 DEF ReadFile
  <2>. DEFINE found == IF n = FileOf(f).size THEN DirFound(mem', buf, ScanRange) ELSE None
  <2>1. /\ mem' = Filled(f, buf, n)
        /\ images' = IF found = None THEN images ELSE [images EXCEPT ![next] = Image(f, buf, found)]
        /\ buf' = IF found = None THEN buf ELSE buf + RoundUp(FileOf(f).size)
    BY <2>12
  <2>2. f \in Names
    <3>1. next \in 1..Len(images)
      BY <1>2, <2>0
    <3>2. images[next] \in ImageType
      BY <1>2, <3>1
    <3>. QED
      BY <3>2 DEF ImageType
  <2>3. mem' \in [DOMAIN mem -> Units] /\ DOMAIN mem' = DOMAIN mem
    <3>1. n \in Nat
      BY <1>1, <2>1, <2>2, FilesTyped
    <3>. QED
      BY <1>1, <1>2, <2>1, <2>2, <3>1, FilledTyped DEF Filled
  <2>4. found \in Names \cup {None}
    BY <1>2, <2>3, FoundTyped, UdnlAssumption
  <2>. HIDE DEF found, f
  <2>5. buf' \in Nat
    <3>1. FileOf(f).size \in Nat
      BY <1>1, <2>2, FilesTyped
    <3>2. RoundUp(FileOf(f).size) \in Nat
      BY <3>1, Rounding
    <3>. QED
      BY <1>2, <2>1, <3>2
  <2>6. Image(f, buf, found) \in ImageType
    BY <1>2, <2>2, <2>4 DEF Image, ImageType
  <2>7. images' = images \/ images' = [images EXCEPT ![next] = Image(f, buf, found)]
    BY <2>1
  <2>8. /\ images' \in Seq(ImageType) /\ Len(images') = Len(images)
        /\ images'[1] = images[1] /\ images'[2] = images[2]
    BY <1>2, <1>3, <2>6, <2>7
  <2>10. Typed'
    BY <1>1, <1>2, <2>0, <2>3, <2>5, <2>8 DEF Typed
  <2>11. Standing'
    BY <1>1, <1>3, <2>0, <2>3, <2>8 DEF Standing
  <2>. QED
    BY <2>10, <2>11 DEF Basics
<1>. QED
  BY <1>4, <1>5

\* It makes the list, and loads the modules.
LEMMA BasicsList ==
  ASSUME Basics,
         \/ FindConf \/ ParseStart \/ ParseAddr \/ ParseComment \/ ParseModule \/ ParseInclude \/ ParseEnd
         \/ Load \/ ReadDamaged
  PROVE  Basics'
<1>1. /\ disc' = disc /\ disc \in DOMAIN Discs /\ Names' = Names /\ Units' = Units /\ ImageType' = ImageType
      /\ UNCHANGED <<arg, images, total, next, buf>>
      /\ upc \in {"read", "parse", "sysmem", "loadcore"}
      /\ upc' \in {"parse", "sysmem", "loadcore", "booted", "lost", "stopped"}
  BY DEF Basics, Typed, FindConf, ParseStart, ParseAddr, ParseComment, ParseModule, ParseInclude, ParseEnd, Load,
         ReadDamaged, Read, AtLine, Names, Units, ImageType
<1>2. images \in Seq(ImageType) /\ total \in Nat /\ mem \in [DOMAIN mem -> Units]
      /\ next \in Nat /\ next >= 3 /\ buf \in Nat /\ num \in Nat
  BY DEF Basics, Typed
<1>3. /\ Len(images) >= 2 /\ images[1] = Image("rom", 0, "rom") /\ images[2].file = "own" /\ total >= Own.size
      /\ DOMAIN mem = 0..(total - 1) /\ images[2] = Image("own", 0, "own")
  BY <1>1 DEF Basics, Standing
<1>4. (mem' = mem /\ num' = num) \/ \E e : AddEntry(e)
  BY DEF FindConf, ParseStart, ParseAddr, ParseComment, ParseModule, ParseInclude, ParseEnd, Load, ReadDamaged
<1>5. mem' \in [DOMAIN mem -> Units] /\ DOMAIN mem' = DOMAIN mem /\ num' \in Nat
  <2>1. Blank \in Units
    BY DEF Blank, Units
  <2>2. ASSUME NEW e, AddEntry(e) PROVE mem' \in [DOMAIN mem -> Units] /\ DOMAIN mem' = DOMAIN mem /\ num' \in Nat
    <3>1. num' = num + 1
      BY <2>2 DEF AddEntry
    <3>2. PICK at : mem' = [a \in DOMAIN mem |-> IF ListSize + a \in {at, at + 1} THEN Blank ELSE mem[a]]
      BY <2>2 DEF AddEntry
    <3>3. mem' \in [DOMAIN mem -> Units] /\ DOMAIN mem' = DOMAIN mem
      BY <1>2, <2>1, <3>2
    <3>. QED
      BY <1>2, <3>1, <3>3
  <2>. QED
    BY <1>2, <1>4, <2>2
<1>6. Typed'
  BY <1>1, <1>2, <1>5 DEF Typed
<1>7. Standing'
  BY <1>1, <1>3, <1>5 DEF Standing
<1>. QED
  BY <1>6, <1>7 DEF Basics

\* One step.
LEMMA BasicsStep ==
  ASSUME Basics, [Next]_vars
  PROVE  Basics'
<1>1. CASE UNCHANGED ivars
  BY <1>1 DEF ivars, Basics, Typed, Standing, Names, Units, ImageType
<1>2. CASE UNCHANGED vars
  BY <1>1, <1>2 DEF vars, uvars, ivars
<1>3. CASE UdnlNext
  BY <1>3, BasicsOpen, BasicsRead, BasicsList DEF UdnlNext
<1>4. CASE UNCHANGED uvars
  BY <1>1, <1>4 DEF uvars, ivars
<1>. QED
  BY <1>1, <1>2, <1>3, <1>4, StepKinds, BasicsStart DEF ivars
-----------------------------------------------------------------------------
(* Looking files up.                                                       *)

\* A file that an image has, has a version and lines.
LEMMA FileKnown ==
  ASSUME Basics, NEW k \in 1..Len(images), NEW name, HasFile(k, name)
  PROVE  /\ images[k].dir \in Names /\ IsFile(FileOf(images[k].dir))
         /\ Min(Entries(k, name)) \in Entries(k, name) /\ Version(k, name) \in Nat
<1>. DEFINE ents == FileOf(images[k].dir).ents
<1>1. images[k] \in ImageType /\ disc \in DOMAIN Discs
  BY DEF Basics, Typed
<1>2. images[k].dir # None /\ Entries(k, name) # {}
  BY DEF HasFile, Entries
<1>3. images[k].dir \in Names
  BY <1>1, <1>2 DEF ImageType
<1>4. IsFile(FileOf(images[k].dir))
  BY <1>1, <1>3, FilesTyped
<1>5. ents \in Seq([name : STRING, ver : Nat, ext : BOOLEAN])
  BY <1>4 DEF IsFile
<1>6. Entries(k, name) \in SUBSET DOMAIN ents
  BY DEF Entries
<1>. HIDE DEF ents
<1>7. DOMAIN ents \in SUBSET Nat
  BY <1>5
<1>8. Min(Entries(k, name)) \in Entries(k, name)
  BY <1>2, <1>6, <1>7, Least
<1>9. ents[Min(Entries(k, name))].ver \in Nat
  <2>1. PICK m \in DOMAIN ents : m = Min(Entries(k, name))
    BY <1>6, <1>8
  <2>2. ents[m] \in [name : STRING, ver : Nat, ext : BOOLEAN]
    <3>1. m \in 1..Len(ents)
      BY <1>5
    <3>. QED
      BY <1>5, <3>1, ElementOfSeq
  <2>. QED
    BY <2>1, <2>2
<1>. QED
  BY <1>3, <1>4, <1>8, <1>9 DEF Version, ents

\* k is the last of the first n images that has the file.
LastOf(n, name, k) == k \in 1..n /\ HasFile(k, name) /\ \A j \in 1..n : HasFile(j, name) => j <= k

\* ScanImages finds it.
LEMMA Scanned ==
  ASSUME NEW n \in Nat, NEW name
  PROVE  \/ ScanImages(n, name) = 0 /\ \A j \in 1..n : ~HasFile(j, name)
         \/ LastOf(n, name, ScanImages(n, name))
<1>. DEFINE S == {m \in Nat : \E g : g = [k \in 0..m |-> IF k = 0 \/ HasFile(k, name) THEN k ELSE g[k - 1]]}
<1>1. 0 \in S
  <2>. DEFINE g == [k \in 0..0 |-> k]
  <2>1. g = [k \in 0..0 |-> IF k = 0 \/ HasFile(k, name) THEN k ELSE g[k - 1]]
    OBVIOUS
  <2>. QED
    BY <2>1
<1>2. ASSUME NEW m \in Nat, m \in S PROVE m + 1 \in S
  <2>1. PICK g : g = [k \in 0..m |-> IF k = 0 \/ HasFile(k, name) THEN k ELSE g[k - 1]]
    BY <1>2
  <2>. DEFINE h == [k \in 0..(m + 1) |-> IF k = m + 1 THEN IF HasFile(k, name) THEN k ELSE g[m] ELSE g[k]]
  <2>2. ASSUME NEW k \in 0..(m + 1) PROVE h[k] = IF k = 0 \/ HasFile(k, name) THEN k ELSE h[k - 1]
    <3>1. CASE k = m + 1
      <4>1. k # 0 /\ k - 1 = m /\ m \in 0..(m + 1) /\ m # m + 1
        BY <3>1
      <4>2. h[m] = g[m] /\ h[k] = IF HasFile(k, name) THEN k ELSE g[m]
        BY <3>1, <4>1
      <4>. QED
        BY <4>1, <4>2
    <3>2. CASE k # m + 1
      <4>1. k \in 0..m /\ h[k] = g[k]
        BY <3>2
      <4>2. g[k] = IF k = 0 \/ HasFile(k, name) THEN k ELSE g[k - 1]
        BY <4>1, <2>1
      <4>3. k # 0 => h[k - 1] = g[k - 1]
        BY <4>1
      <4>. QED
        BY <4>1, <4>2, <4>3
    <3>. QED
      BY <3>1, <3>2
  <2>3. h = [k \in 0..(m + 1) |-> h[k]]
    OBVIOUS
  <2>. HIDE DEF h
  <2>4. h = [k \in 0..(m + 1) |-> IF k = 0 \/ HasFile(k, name) THEN k ELSE h[k - 1]]
    BY <2>2, <2>3
  <2>5. \E c : c = [k \in 0..(m + 1) |-> IF k = 0 \/ HasFile(k, name) THEN k ELSE c[k - 1]]
    BY <2>4
  <2>6. m + 1 \in Nat
    OBVIOUS
  <2>. QED
    BY <2>5, <2>6
<1>3. n \in S
  <2>. HIDE DEF S
  <2>1. S \in SUBSET Nat
    BY DEF S
  <2>. QED
    BY <1>1, <1>2, <2>1, Induction
<1>4. PICK g : g = CHOOSE h : h = [k \in 0..n |-> IF k = 0 \/ HasFile(k, name) THEN k ELSE h[k - 1]]
  OBVIOUS
<1>5. g = [k \in 0..n |-> IF k = 0 \/ HasFile(k, name) THEN k ELSE g[k - 1]]
  BY <1>3, <1>4
<1>6. ScanImages(n, name) = g[n]
  BY <1>4 DEF ScanImages
<1>. DEFINE T == {m \in Nat : m <= n => \/ g[m] = 0 /\ \A j \in 1..m : ~HasFile(j, name)
                                        \/ LastOf(m, name, g[m])}
<1>7. 0 \in T
  <2>1. g[0] = 0
    BY <1>5
  <2>. QED
    BY <2>1
<1>8. ASSUME NEW m \in Nat, m \in T PROVE m + 1 \in T
  <2>1. SUFFICES ASSUME m + 1 <= n
                 PROVE  \/ g[m + 1] = 0 /\ \A j \in 1..(m + 1) : ~HasFile(j, name)
                        \/ LastOf(m + 1, name, g[m + 1])
    OBVIOUS
  <2>2. m + 1 \in 0..n /\ m + 1 # 0 /\ (m + 1) - 1 = m /\ m <= n
    BY <2>1
  <2>3. g[m + 1] = IF HasFile(m + 1, name) THEN m + 1 ELSE g[m]
    BY <1>5, <2>2
  <2>4. \A j \in 1..(m + 1) : j \in 1..m \/ j = m + 1
    OBVIOUS
  <2>5. CASE HasFile(m + 1, name)
    BY <2>3, <2>5 DEF LastOf
  <2>6. CASE ~HasFile(m + 1, name)
    <3>1. g[m + 1] = g[m]
      BY <2>3, <2>6
    <3>2. CASE g[m] = 0 /\ \A j \in 1..m : ~HasFile(j, name)
      BY <2>4, <2>6, <3>1, <3>2
    <3>3. CASE LastOf(m, name, g[m])
      BY <2>4, <2>6, <3>1, <3>3 DEF LastOf
    <3>. QED
      BY <1>8, <2>2, <3>2, <3>3
  <2>. QED
    BY <2>5, <2>6
<1>9. n \in T
  <2>. HIDE DEF T
  <2>1. T \in SUBSET Nat
    BY DEF T
  <2>. QED
    BY <1>7, <1>8, <2>1, Induction
<1>. QED
  BY <1>6, <1>9

\* Of the images from the i-th last of n on, k has the highest version, and is
\* the last with that.
NewestFrom(n, i, name, k) ==
  /\ k \in (n + 1 - i)..n /\ HasFile(k, name)
  /\ \A j \in (n + 1 - i)..n : HasFile(j, name) =>
       Version(j, name) <= Version(k, name) /\ (j > k => Version(j, name) < Version(k, name))

\* What SelectModule does with one image.
Better(n, name, b, i) ==
  LET k == n + 1 - i
  IN IF HasFile(k, name) /\ (b = 0 \/ Version(b, name) < Version(k, name)) THEN k ELSE b

\* SelectModule finds the newest of the first n images.
LEMMA Selected ==
  ASSUME Basics, NEW n \in 0..Len(images), NEW name
  PROVE  \/ SelectModule(n, name) = 0 /\ \A j \in 1..n : ~HasFile(j, name)
         \/ NewestFrom(n, n, name, SelectModule(n, name))
<1>0. Len(images) \in Nat /\ n \in Nat
  BY DEF Basics, Typed
<1>. DEFINE S == {m \in Nat : \E g : g = [i \in 0..m |-> IF i = 0 THEN 0 ELSE Better(n, name, g[i - 1], i)]}
<1>1. 0 \in S
  <2>. DEFINE g == [i \in 0..0 |-> 0]
  <2>1. g = [i \in 0..0 |-> IF i = 0 THEN 0 ELSE Better(n, name, g[i - 1], i)]
    OBVIOUS
  <2>. QED
    BY <2>1
<1>2. ASSUME NEW m \in Nat, m \in S PROVE m + 1 \in S
  <2>1. PICK g : g = [i \in 0..m |-> IF i = 0 THEN 0 ELSE Better(n, name, g[i - 1], i)]
    BY <1>2
  <2>. DEFINE h == [i \in 0..(m + 1) |-> IF i = m + 1 THEN Better(n, name, g[m], m + 1) ELSE g[i]]
  <2>2. ASSUME NEW i \in 0..(m + 1) PROVE h[i] = IF i = 0 THEN 0 ELSE Better(n, name, h[i - 1], i)
    <3>1. CASE i = m + 1
      <4>1. i # 0 /\ i - 1 = m /\ m \in 0..(m + 1) /\ m # m + 1
        BY <3>1
      <4>2. h[m] = g[m] /\ h[i] = Better(n, name, g[m], m + 1)
        BY <3>1, <4>1
      <4>. QED
        BY <3>1, <4>1, <4>2
    <3>2. CASE i # m + 1
      <4>1. i \in 0..m /\ h[i] = g[i]
        BY <3>2
      <4>2. g[i] = IF i = 0 THEN 0 ELSE Better(n, name, g[i - 1], i)
        BY <4>1, <2>1
      <4>3. i # 0 => h[i - 1] = g[i - 1]
        BY <4>1
      <4>. QED
        BY <4>1, <4>2, <4>3
    <3>. QED
      BY <3>1, <3>2
  <2>3. h = [i \in 0..(m + 1) |-> h[i]]
    OBVIOUS
  <2>. HIDE DEF h
  <2>4. h = [i \in 0..(m + 1) |-> IF i = 0 THEN 0 ELSE Better(n, name, h[i - 1], i)]
    BY <2>2, <2>3
  <2>5. \E c : c = [i \in 0..(m + 1) |-> IF i = 0 THEN 0 ELSE Better(n, name, c[i - 1], i)]
    BY <2>4
  <2>6. m + 1 \in Nat
    OBVIOUS
  <2>. QED
    BY <2>5, <2>6
<1>3. n \in S
  <2>. HIDE DEF S
  <2>1. S \in SUBSET Nat
    BY DEF S
  <2>. QED
    BY <1>0, <1>1, <1>2, <2>1, Induction
<1>4. PICK g : g = CHOOSE h : h = [i \in 0..n |-> IF i = 0 THEN 0 ELSE Better(n, name, h[i - 1], i)]
  OBVIOUS
<1>5. g = [i \in 0..n |-> IF i = 0 THEN 0 ELSE Better(n, name, g[i - 1], i)]
  BY <1>3, <1>4
<1>6. SelectModule(n, name) = g[n]
  BY <1>4 DEF SelectModule, Better
<1>. DEFINE None0(i) == g[i] = 0 /\ \A j \in (n + 1 - i)..n : ~HasFile(j, name)
            T == {m \in Nat : m <= n => None0(m) \/ NewestFrom(n, m, name, g[m])}
<1>7. 0 \in T
  <2>1. g[0] = 0 /\ \A j \in (n + 1 - 0)..n : FALSE
    BY <1>0, <1>5
  <2>. QED
    BY <2>1
<1>8. ASSUME NEW m \in Nat, m \in T PROVE m + 1 \in T
  <2>1. SUFFICES ASSUME m + 1 <= n PROVE None0(m + 1) \/ NewestFrom(n, m + 1, name, g[m + 1])
    OBVIOUS
  <2>2. PICK k \in 1..n : k = n + 1 - (m + 1)
    BY <1>0, <2>1
  <2>3. /\ m + 1 \in 0..n /\ m + 1 # 0 /\ (m + 1) - 1 = m /\ m <= n /\ n + 1 - m = k + 1
        /\ \A j \in k..n : j \in (k + 1)..n \/ j = k
    BY <1>0, <2>1, <2>2
  <2>4. g[m + 1] = Better(n, name, g[m], m + 1)
    BY <1>5, <2>3
  <2>5. g[m + 1] = IF HasFile(k, name) /\ (g[m] = 0 \/ Version(g[m], name) < Version(k, name)) THEN k ELSE g[m]
    BY <2>2, <2>4 DEF Better
  <2>6. \A j \in k..n : HasFile(j, name) => Version(j, name) \in Nat
    BY <1>0, <2>2, FileKnown
  <2>7. \/ g[m] = 0 /\ \A j \in (k + 1)..n : ~HasFile(j, name)
        \/ /\ g[m] \in (k + 1)..n /\ HasFile(g[m], name)
           /\ \A j \in (k + 1)..n : HasFile(j, name) =>
                Version(j, name) <= Version(g[m], name) /\ (j > g[m] => Version(j, name) < Version(g[m], name))
    BY <1>8, <2>3 DEF NewestFrom
  <2>8. \/ g[m + 1] = 0 /\ \A j \in k..n : ~HasFile(j, name)
        \/ /\ g[m + 1] \in k..n /\ HasFile(g[m + 1], name)
           /\ \A j \in k..n : HasFile(j, name) =>
                /\ Version(j, name) <= Version(g[m + 1], name)
                /\ j > g[m + 1] => Version(j, name) < Version(g[m + 1], name)
    <3>1. CASE g[m] = 0 /\ \A j \in (k + 1)..n : ~HasFile(j, name)
      <4>1. CASE HasFile(k, name)
        <5>1. g[m + 1] = k /\ k \in k..n /\ Version(k, name) \in Nat
          BY <1>0, <2>2, <2>5, <2>6, <3>1, <4>1
        <5>2. \A j \in k..n : HasFile(j, name) => j = k
          BY <2>3, <3>1
        <5>3. \A j \in k..n : HasFile(j, name) =>
                /\ Version(j, name) <= Version(k, name)
                /\ j > k => Version(j, name) < Version(k, name)
          BY <5>1, <5>2
        <5>. QED
          BY <4>1, <5>1, <5>3
      <4>2. CASE ~HasFile(k, name)
        BY <2>3, <2>5, <3>1, <4>2
      <4>. QED
        BY <4>1, <4>2
    <3>2. CASE /\ g[m] \in (k + 1)..n /\ HasFile(g[m], name)
               /\ \A j \in (k + 1)..n : HasFile(j, name) =>
                    Version(j, name) <= Version(g[m], name) /\ (j > g[m] => Version(j, name) < Version(g[m], name))
      <4>0. PICK b \in (k + 1)..n : b = g[m]
        BY <3>2
      <4>1. b # 0 /\ b > k /\ b \in k..n /\ HasFile(b, name) /\ Version(b, name) \in Nat
        BY <1>0, <2>2, <2>6, <3>2, <4>0
      <4>2. \A j \in (k + 1)..n : HasFile(j, name) =>
              Version(j, name) <= Version(b, name) /\ (j > b => Version(j, name) < Version(b, name))
        BY <3>2, <4>0
      <4>3. CASE HasFile(k, name) /\ Version(b, name) < Version(k, name)
        <5>1. g[m + 1] = k /\ k \in k..n /\ Version(k, name) \in Nat
          BY <1>0, <2>2, <2>5, <2>6, <4>0, <4>3
        <5>2. ASSUME NEW j \in k..n, HasFile(j, name)
              PROVE  /\ Version(j, name) <= Version(k, name)
                     /\ j > k => Version(j, name) < Version(k, name)
          <6>1. Version(j, name) \in Nat
            BY <2>6, <5>2
          <6>2. CASE j \in (k + 1)..n
            <7>1. Version(j, name) <= Version(b, name)
              BY <4>2, <5>2, <6>2
            <7>. QED
              BY <4>1, <4>3, <5>1, <6>1, <7>1
          <6>3. CASE j = k
            BY <5>1, <6>3
          <6>. QED
            BY <2>3, <6>2, <6>3
        <5>. QED
          BY <4>3, <5>1, <5>2
      <4>4. CASE ~(HasFile(k, name) /\ Version(b, name) < Version(k, name))
        <5>1. g[m + 1] = b
          BY <2>5, <4>0, <4>1, <4>4
        <5>2. ASSUME NEW j \in k..n, HasFile(j, name)
              PROVE  /\ Version(j, name) <= Version(b, name)
                     /\ j > b => Version(j, name) < Version(b, name)
          <6>1. Version(j, name) \in Nat
            BY <2>6, <5>2
          <6>2. CASE j \in (k + 1)..n
            BY <4>2, <5>2, <6>2
          <6>3. CASE j = k
            <7>1. ~(Version(b, name) < Version(j, name)) /\ ~(j > b)
              BY <2>2, <4>1, <4>4, <5>2, <6>3
            <7>. QED
              BY <4>1, <6>1, <7>1
          <6>. QED
            BY <2>3, <6>2, <6>3
        <5>. QED
          BY <4>1, <5>1, <5>2
      <4>. QED
        BY <4>3, <4>4
    <3>. QED
      BY <2>7, <3>1, <3>2
  <2>. QED
    BY <2>2, <2>8 DEF NewestFrom
<1>9. n \in T
  <2>. HIDE DEF T
  <2>1. T \in SUBSET Nat
    BY DEF T
  <2>. QED
    BY <1>0, <1>7, <1>8, <2>1, Induction
<1>10. n + 1 - n = 1 /\ n <= n
  BY <1>0
<1>. QED
  BY <1>0, <1>6, <1>9, <1>10
-----------------------------------------------------------------------------
(* The files that are parsed.                                              *)

FrameType == [image : Nat, name : ConfFile, files : Nat, line : Nat, base : Nat, count : Nat]
LineType == [op : {"start", "addr", "comment", "module", "include"}, name : STRING \cup {None}, at : Nat]

\* A call parses the file of the last image that has it, of those that it looks at.
Parses(f) == f.files \in 2..Len(images) /\ LastOf(f.files, f.name, f.image) /\ f.line >= 1

\* It is one for the line that its caller is at.
IncludedBy(f, g) ==
  LET lines == Lines(g.image, g.name) IN
  /\ f.files = g.files - 1
  /\ g.line <= Len(lines) /\ lines[g.line].op = "include" /\ lines[g.line].name = f.name

\* The calls, from the first for IOPBTCONF of all images.
Chained(s) ==
  /\ s \in Seq(FrameType) /\ s # <<>>
  /\ \A i \in 1..Len(s) : Parses(s[i]) /\ (i < Len(s) => IncludedBy(s[i], s[i + 1]))
  /\ s[Len(s)].files = Len(images) /\ s[Len(s)].name = "IOPBTCONF"

\* What UDNL looks up, while it reads no more images.
LEMMA LookupsStay ==
  ASSUME UNCHANGED <<disc, images>>
  PROVE  \A k, name : /\ HasFile(k, name)' = HasFile(k, name) /\ Version(k, name)' = Version(k, name)
                      /\ Lines(k, name)' = Lines(k, name)
<1>. TAKE k, name
<1>1. Entries(k, name)' = Entries(k, name)
  BY DEF Entries, FileOf
<1>. QED
  BY <1>1 DEF HasFile, Version, Lines, FileOf

\* So do the calls.
LEMMA ChainedStays ==
  ASSUME UNCHANGED <<disc, images>>, Chained(stack')
  PROVE  Chained(stack)'
BY LookupsStay DEF Chained, Parses, IncludedBy, LastOf

\* A call at its next line.
LEMMA NextFrame ==
  ASSUME NEW g \in FrameType, g.line >= 1
  PROVE  LET f == NextLine(g) IN
         /\ f \in FrameType /\ f.image = g.image /\ f.name = g.name /\ f.files = g.files
         /\ f.line = g.line + 1 /\ f.line >= 1 /\ f.base = g.base /\ f.count = g.count
<1>1. g.line \in Nat
  BY DEF FrameType
<1>2. PICK l \in Nat : l = g.line + 1 /\ l >= 1
  BY <1>1
<1>3. NextLine(g) = [g EXCEPT !.line = l]
  BY <1>2 DEF NextLine
<1>. QED
  BY <1>2, <1>3 DEF FrameType

\* The innermost call goes on to another line.
LEMMA ChainTop ==
  ASSUME NEW s, Chained(s), NEW f \in FrameType, f.image = s[1].image, f.name = s[1].name, f.files = s[1].files,
         f.line >= 1
  PROVE  LET t == <<f>> \o Tail(s) IN Chained(t) /\ t[1] = f /\ Len(t) = Len(s) /\ \A i \in 2..Len(s) : t[i] = s[i]
<1>. DEFINE t == <<f>> \o Tail(s)
<1>0. PICK n \in Nat : n = Len(s)
  BY DEF Chained
<1>1. s \in Seq(FrameType) /\ n >= 1 /\ Len(s) = n
  BY <1>0 DEF Chained
<1>2. t \in Seq(FrameType) /\ Len(t) = n /\ t[1] = f /\ \A i \in 2..n : t[i] = s[i]
  BY <1>1
<1>. HIDE DEF t
<1>3. ASSUME NEW i \in 1..n PROVE Parses(t[i]) /\ (i < n => IncludedBy(t[i], t[i + 1]))
  <2>1. Parses(s[i]) /\ (i < n => IncludedBy(s[i], s[i + 1]))
    BY <1>0 DEF Chained
  <2>2. i < n => t[i + 1] = s[i + 1]
    BY <1>1, <1>2
  <2>3. CASE i = 1
    <3>1. Parses(t[1])
      BY <1>2, <2>1, <2>3 DEF Parses
    <3>2. 1 < n => IncludedBy(t[1], s[2])
      BY <1>2, <2>1, <2>3 DEF IncludedBy
    <3>. QED
      BY <2>2, <2>3, <3>1, <3>2
  <2>4. CASE i # 1
    <3>1. t[i] = s[i]
      BY <1>1, <1>2, <2>4
    <3>. QED
      BY <2>1, <2>2, <3>1
  <2>. QED
    BY <2>3, <2>4
<1>4. t[n].files = Len(images) /\ t[n].name = "IOPBTCONF"
  <2>1. s[n].files = Len(images) /\ s[n].name = "IOPBTCONF"
    BY <1>0 DEF Chained
  <2>2. n = 1 \/ t[n] = s[n]
    BY <1>1, <1>2
  <2>. QED
    BY <1>2, <2>1, <2>2
<1>5. t # <<>>
  BY <1>1, <1>2
<1>6. Chained(t)
  BY <1>2, <1>3, <1>4, <1>5 DEF Chained
<1>. QED
  BY <1>0, <1>2, <1>6 DEF t

\* It makes another.
LEMMA ChainPush ==
  ASSUME NEW s, Chained(s), NEW f \in FrameType, Parses(f), IncludedBy(f, s[1])
  PROVE  LET t == <<f>> \o s IN Chained(t) /\ t[1] = f /\ Len(t) = Len(s) + 1 /\ \A i \in 1..Len(s) : t[i + 1] = s[i]
<1>. DEFINE t == <<f>> \o s
<1>0. PICK n \in Nat : n = Len(s)
  BY DEF Chained
<1>1. s \in Seq(FrameType) /\ n >= 1 /\ Len(s) = n
  BY <1>0 DEF Chained
<1>2. t \in Seq(FrameType) /\ Len(t) = n + 1 /\ t[1] = f /\ \A i \in 1..n : t[i + 1] = s[i]
  BY <1>1
<1>. HIDE DEF t
<1>3. ASSUME NEW i \in 1..(n + 1) PROVE Parses(t[i]) /\ (i < n + 1 => IncludedBy(t[i], t[i + 1]))
  <2>1. CASE i = 1
    <3>1. t[2] = s[1]
      BY <1>1, <1>2
    <3>. QED
      BY <1>2, <2>1, <3>1
  <2>2. CASE i # 1
    <3>1. PICK j \in 1..n : i = j + 1
      BY <2>2
    <3>2. t[i] = s[j] /\ (j < n => t[i + 1] = s[j + 1])
      BY <1>2, <3>1
    <3>3. Parses(s[j]) /\ (j < n => IncludedBy(s[j], s[j + 1]))
      BY <1>0 DEF Chained
    <3>. QED
      BY <3>1, <3>2, <3>3
  <2>. QED
    BY <2>1, <2>2
<1>4. t[n + 1] = s[n]
  BY <1>1, <1>2
<1>5. t # <<>>
  BY <1>1, <1>2
<1>6. s[n].files = Len(images) /\ s[n].name = "IOPBTCONF"
  BY <1>0 DEF Chained
<1>7. Chained(t)
  BY <1>2, <1>3, <1>4, <1>5, <1>6 DEF Chained
<1>. QED
  BY <1>0, <1>2, <1>7 DEF t

\* It returns.
LEMMA ChainPop ==
  ASSUME NEW s, Chained(s), Len(s) # 1
  PROVE  Chained(Tail(s)) /\ Tail(s)[1] = s[2] /\ Len(Tail(s)) = Len(s) - 1 /\ Len(s) >= 2
         /\ \A i \in 1..(Len(s) - 1) : Tail(s)[i] = s[i + 1]
<1>0. PICK n \in Nat : n = Len(s)
  BY DEF Chained
<1>1. s \in Seq(FrameType) /\ n >= 2 /\ Len(s) = n
  BY <1>0 DEF Chained
<1>. DEFINE t == Tail(s)
<1>2. t \in Seq(FrameType) /\ Len(t) = n - 1 /\ \A i \in 1..(n - 1) : t[i] = s[i + 1]
  BY <1>1
<1>. HIDE DEF t
<1>3. ASSUME NEW i \in 1..(n - 1) PROVE Parses(t[i]) /\ (i < n - 1 => IncludedBy(t[i], t[i + 1]))
  <2>1. i + 1 \in 1..n /\ t[i] = s[i + 1] /\ (i < n - 1 => t[i + 1] = s[(i + 1) + 1])
    BY <1>1, <1>2
  <2>2. Parses(s[i + 1]) /\ (i + 1 < n => IncludedBy(s[i + 1], s[(i + 1) + 1]))
    BY <1>0, <2>1 DEF Chained
  <2>. QED
    BY <1>1, <2>1, <2>2
<1>4. t[n - 1] = s[n] /\ t # <<>> /\ t[1] = s[2]
  BY <1>1, <1>2
<1>5. s[n].files = Len(images) /\ s[n].name = "IOPBTCONF"
  BY <1>0 DEF Chained
<1>6. Chained(t)
  BY <1>2, <1>3, <1>4, <1>5 DEF Chained
<1>. QED
  BY <1>0, <1>1, <1>2, <1>4, <1>6 DEF t

\* The lines of a file: only the files of images that were read include others.
LEMMA LinesKnown ==
  ASSUME Basics, NEW k \in 1..Len(images), NEW name \in ConfFile, HasFile(k, name)
  PROVE  /\ Lines(k, name) \in Seq(LineType)
         /\ \A i \in DOMAIN Lines(k, name) : Lines(k, name)[i].op = "include" =>
              Lines(k, name)[i].name \in ConfFile /\ images[k].dir \notin {"rom", "own"}
<1>1. PICK f : f = FileOf(images[k].dir)
  OBVIOUS
<1>2. IsFile(f) /\ (images[k].dir = "rom" => f = Rom) /\ (images[k].dir = "own" => f = Own) /\ Lines(k, name) = f.conf[name]
  BY <1>1, FileKnown DEF FileOf, Lines
<1>3. f.conf[name] \in Seq(LineType) /\ \A i \in DOMAIN f.conf[name] : f.conf[name][i].op = "include" => f.conf[name][i].name \in ConfFile
  BY <1>2 DEF IsFile, LineType
<1>4. f \in {Rom, Own} => \A i \in DOMAIN f.conf[name] : f.conf[name][i].op # "include"
  BY OwnAssumption
<1>. QED
  BY <1>2, <1>3, <1>4
-----------------------------------------------------------------------------
(* The list has the core's modules.                                        *)

Newer(e) ==
  \A j \in DOMAIN Own.ents : Own.ents[j].name = e.name =>
    e.image = 2 \/ Version(e.image, e.name) >= Own.ents[j].ver

\* The innermost call adds to the end of the list.
Parsing ==
  upc = "parse" =>
    Chained(stack) /\ Top.base + Top.count = num /\ \A i \in 0..(num - 1) : i \in DOMAIN list

Served == Basics /\ Parsing /\ CoreServes

\* What SelectModule finds is not older than what the core brings.
LEMMA ModuleNewer ==
  ASSUME Basics, images[2] = Image("own", 0, "own"), NEW n \in 2..Len(images), NEW name, SelectModule(n, name) # 0
  PROVE  Newer([name |-> name, image |-> SelectModule(n, name)])
<1>0. Len(images) \in Nat /\ disc \in DOMAIN Discs
  BY DEF Basics, Typed
<1>1. PICK k : k = SelectModule(n, name)
  OBVIOUS
<1>2. k \in 1..n /\ HasFile(k, name) /\ \A j \in 1..n : HasFile(j, name) => Version(j, name) <= Version(k, name)
  <2>1. NewestFrom(n, n, name, k)
    BY <1>0, <1>1, Selected
  <2>2. n + 1 - n = 1
    BY <1>0
  <2>. QED
    BY <2>1, <2>2 DEF NewestFrom
<1>3. ASSUME NEW j \in DOMAIN Own.ents, Own.ents[j].name = name
      PROVE  Version(k, name) >= Own.ents[j].ver
  <2>1. images[2].name = "own" /\ images[2].dir = "own" /\ "own" # None /\ FileOf("own") = Own
    BY UdnlAssumption DEF Image, FileOf
  <2>2. Entries(2, name) = {i \in DOMAIN Own.ents : Own.ents[i].name = name /\ Own.ents[i].ext}
    BY <2>1 DEF Entries
  <2>3. j \in Entries(2, name)
    BY <1>3, <2>2, OwnAssumption
  <2>4. HasFile(2, name) /\ 2 \in 1..n /\ 2 \in 1..Len(images)
    BY <1>0, <2>3 DEF HasFile
  <2>5. Min(Entries(2, name)) \in Entries(2, name) /\ Version(2, name) \in Nat
    BY <2>4, FileKnown
  <2>6. Min(Entries(2, name)) = j
    BY <1>3, <2>2, <2>5, OwnAssumption
  <2>7. Version(2, name) = Own.ents[j].ver
    BY <2>1, <2>6 DEF Version
  <2>8. Version(2, name) <= Version(k, name)
    BY <1>2, <2>4
  <2>9. Version(k, name) \in Nat
    <3>1. k \in 1..Len(images)
      BY <1>0, <1>2
    <3>. QED
      BY <1>2, <3>1, FileKnown
  <2>. QED
    BY <2>5, <2>7, <2>8, <2>9
<1>. QED
  BY <1>1, <1>3 DEF Newer

\* The line that is parsed.
LEMMA LineKnown ==
  ASSUME Basics, Parsing, upc = "parse"
  PROVE  /\ Top = stack[1] /\ stack \in Seq(FrameType) /\ Top \in FrameType /\ Parses(Top)
         /\ Len(images) \in Nat /\ Top.files \in 2..Len(images)
         /\ Lines(Top.image, Top.name) \in Seq(LineType)
         /\ images[2] = Image("own", 0, "own")
         /\ Top.line <= Len(Lines(Top.image, Top.name)) =>
              Line \in LineType /\ (Line.op = "include" => Line.name \in ConfFile /\ Top.files >= 3)
<1>1. stack \in Seq(FrameType) /\ stack # <<>> /\ Top = stack[1] /\ Top \in FrameType /\ Parses(Top)
  BY DEF Parsing, Chained, Top
<1>2. Top.files \in 2..Len(images) /\ Top.image \in 1..Top.files /\ HasFile(Top.image, Top.name) /\ Top.line >= 1
  BY <1>1 DEF Parses, LastOf
<1>3. Len(images) \in Nat
  BY DEF Basics, Typed
<1>4. Top.image \in 1..Len(images) /\ Top.name \in ConfFile /\ Top.line \in Nat
  BY <1>1, <1>2, <1>3 DEF FrameType
<1>5. PICK lines : lines = Lines(Top.image, Top.name)
  OBVIOUS
<1>6. lines \in Seq(LineType)
  BY <1>2, <1>4, <1>5, LinesKnown
<1>7. images[1] = Image("rom", 0, "rom") /\ images[2] = Image("own", 0, "own")
  BY DEF Basics, Standing
<1>8. ASSUME Top.line <= Len(lines)
      PROVE  Line \in LineType /\ (Line.op = "include" => Line.name \in ConfFile /\ Top.files >= 3)
  <2>1. Top.line \in 1..Len(lines) /\ DOMAIN lines = 1..Len(lines)
    BY <1>2, <1>4, <1>6, <1>8
  <2>2. Line = lines[Top.line]
    BY <1>5 DEF Line
  <2>3. Line \in LineType
    BY <1>6, <2>1, <2>2, ElementOfSeq
  <2>4. Line.op = "include" => Line.name \in ConfFile /\ images[Top.image].dir \notin {"rom", "own"}
    BY <1>2, <1>4, <1>5, <2>1, <2>2, LinesKnown
  <2>5. images[Top.image].dir \notin {"rom", "own"} => Top.image \notin {1, 2}
    BY <1>7 DEF Image
  <2>6. Top.image \notin {1, 2} => Top.files >= 3
    BY <1>2, <1>3
  <2>. QED
    BY <2>3, <2>4, <2>5, <2>6
<1>. QED
  BY <1>1, <1>2, <1>3, <1>5, <1>6, <1>7, <1>8

\* What is in the list stays, while it grows.
LEMMA ServesStay ==
  ASSUME UNCHANGED <<disc, images>>, \A i \in 0..(num' - 1) : Newer(list'[i])
  PROVE  CoreServes'
BY LookupsStay DEF CoreServes, Newer

\* A line that is skipped, and the end of a file that was included.
LEMMA ServedLine ==
  ASSUME Served, ParseStart \/ ParseComment \/ ParseEnd
  PROVE  Parsing' /\ CoreServes'
<1>1. UNCHANGED <<disc, images, list, num>> /\ upc = "parse" /\ Basics
  BY DEF ParseStart, ParseComment, ParseEnd, AtLine, Served
<1>2. Chained(stack) /\ Top.base + Top.count = num /\ (\A i \in 0..(num - 1) : i \in DOMAIN list) /\ num \in Nat
  BY <1>1 DEF Served, Parsing, Basics, Typed
<1>3. CoreServes'
  BY <1>1, ServesStay DEF Served, CoreServes, Newer
<1>4. CASE ParseStart \/ ParseComment
  <2>1. stack' = <<NextLine(Top)>> \o Tail(stack)
    BY <1>4 DEF ParseStart, ParseComment
  <2>2. Top \in FrameType /\ Top = stack[1] /\ Top.line >= 1
    BY <1>1, LineKnown DEF Served, Parses
  <2>3. PICK f : f = NextLine(Top)
    OBVIOUS
  <2>4. f \in FrameType /\ f.image = Top.image /\ f.name = Top.name /\ f.files = Top.files /\ f.line >= 1
        /\ f.base = Top.base /\ f.count = Top.count
    BY <2>2, <2>3 DEF NextLine, FrameType
  <2>5. Chained(stack') /\ stack'[1] = f
    BY <1>2, <2>1, <2>2, <2>3, <2>4, ChainTop
  <2>6. Top' = f
    BY <2>5 DEF Top, Chained
  <2>. QED
    BY <1>1, <1>2, <1>3, <2>4, <2>5, <2>6, ChainedStays DEF Parsing
<1>5. CASE ParseEnd
  <2>1. CASE Len(stack) = 1
    <3>1. upc' = "sysmem"
      BY <1>5, <2>1 DEF ParseEnd
    <3>. QED
      BY <1>3, <3>1 DEF Parsing
  <2>2. CASE Len(stack) # 1
    <3>0. PICK r : r = Tail(stack)
      OBVIOUS
    <3>1. Chained(r) /\ r[1] = stack[2] /\ Len(r) = Len(stack) - 1 /\ Len(stack) >= 2
          /\ stack \in Seq(FrameType)
      BY <1>2, <2>2, <3>0, ChainPop DEF Chained
    <3>2. SubSeq(stack, 3, Len(stack)) = Tail(r)
      BY <3>0, <3>1
    <3>3. PICK f : f = Rebased(stack[2])
      OBVIOUS
    <3>4. r[1] \in FrameType /\ r[1].line >= 1
      BY <3>1 DEF Chained, Parses
    <3>5. f \in FrameType /\ f.image = r[1].image /\ f.name = r[1].name /\ f.files = r[1].files /\ f.line >= 1
          /\ f.base = num /\ f.count = 0
      <4>1. PICK g : g = NextLine(r[1])
        OBVIOUS
      <4>2. g \in FrameType /\ g.image = r[1].image /\ g.name = r[1].name /\ g.files = r[1].files /\ g.line >= 1
        BY <3>4, <4>1, NextFrame
      <4>3. f = [g EXCEPT !.base = num, !.count = 0]
        BY <3>1, <3>3, <4>1 DEF Rebased
      <4>. QED
        BY <1>2, <4>2, <4>3 DEF FrameType
    <3>6. stack' = <<f>> \o Tail(r)
      BY <1>5, <2>2, <3>2, <3>3 DEF ParseEnd
    <3>7. Chained(stack') /\ stack'[1] = f
      BY <3>1, <3>5, <3>6, ChainTop
    <3>8. Top' = f
      BY <3>7 DEF Top, Chained
    <3>9. f.base + f.count = num
      BY <1>2, <3>5
    <3>. QED
      BY <1>1, <1>2, <1>3, <3>7, <3>8, <3>9, ChainedStays DEF Parsing
  <2>. QED
    BY <2>1, <2>2
<1>. QED
  BY <1>4, <1>5

\* A file is parsed from its first line on.
LEMMA ServedCall ==
  ASSUME Served, FindConf \/ ParseInclude
  PROVE  Parsing' /\ CoreServes'
<1>1. UNCHANGED <<disc, images, list, num>> /\ Basics /\ num \in Nat /\ Len(images) \in Nat
  BY DEF FindConf, ParseInclude, Served, Basics, Typed
<1>2. CoreServes'
  BY <1>1, ServesStay DEF Served, CoreServes, Newer
<1>3. CASE FindConf
  <2>1. PICK k : k = ScanImages(Len(images), "IOPBTCONF")
    OBVIOUS
  <2>2. CASE k = 0
    <3>1. upc' = "stopped"
      BY <1>3, <2>1, <2>2 DEF FindConf
    <3>. QED
      BY <1>2, <3>1 DEF Parsing
  <2>3. CASE k # 0
    <3>1. stack' = <<Frame(k, "IOPBTCONF", Len(images))>> /\ upc' = "parse"
      BY <1>3, <2>1, <2>3 DEF FindConf
    <3>2. LastOf(Len(images), "IOPBTCONF", k)
      BY <1>1, <2>1, <2>3, Scanned
    <3>3. PICK f : f = Frame(k, "IOPBTCONF", Len(images))
      OBVIOUS
    <3>4. num = 0 /\ Len(images) >= 2
      BY <1>1, <1>3 DEF FindConf, Read, Basics, Standing
    <3>5. k \in Nat /\ "IOPBTCONF" \in ConfFile
      BY <1>1, <3>2, UdnlAssumption DEF LastOf
    <3>6. /\ f \in FrameType /\ f.image = k /\ f.name = "IOPBTCONF" /\ f.files = Len(images) /\ f.line = 1
          /\ f.base = 0 /\ f.count = 0
      BY <1>1, <3>3, <3>4, <3>5 DEF Frame, FrameType
    <3>7. Parses(f)
      BY <1>1, <3>2, <3>4, <3>6 DEF Parses
    <3>8. stack' \in Seq(FrameType) /\ Len(stack') = 1 /\ stack'[1] = f /\ stack' # <<>>
      BY <3>1, <3>3, <3>6
    <3>9. Chained(stack')
      BY <3>6, <3>7, <3>8 DEF Chained
    <3>10. Top' = f
      BY <3>8 DEF Top
    <3>. QED
      BY <1>1, <1>2, <3>4, <3>6, <3>9, <3>10, ChainedStays DEF Parsing
  <2>. QED
    BY <2>2, <2>3
<1>4. CASE ParseInclude
  <2>1. PICK k : k = ScanImages(Top.files - 1, Line.name)
    OBVIOUS
  <2>2. CASE k = 0
    <3>1. upc' = "stopped"
      BY <1>4, <2>1, <2>2 DEF ParseInclude
    <3>. QED
      BY <1>2, <3>1 DEF Parsing
  <2>3. CASE k # 0
    <3>1. stack' = <<Frame(k, Line.name, Top.files - 1)>> \o stack /\ upc' = upc /\ upc = "parse"
          /\ Top.line <= Len(Lines(Top.image, Top.name)) /\ Line.op = "include"
      BY <1>4, <2>1, <2>3 DEF ParseInclude, AtLine
    <3>2. /\ Top = stack[1] /\ Top \in FrameType /\ Top.files \in 3..Len(images) /\ Line.name \in ConfFile
          /\ Line = Lines(Top.image, Top.name)[Top.line]
      BY <1>1, <3>1, LineKnown DEF Served, Line
    <3>3. PICK n \in 2..Len(images) : n = Top.files - 1
      BY <1>1, <3>2
    <3>4. LastOf(n, Line.name, k)
      BY <1>1, <2>1, <2>3, <3>3, Scanned
    <3>5. PICK f : f = Frame(k, Line.name, n)
      OBVIOUS
    <3>6. /\ f \in FrameType /\ f.image = k /\ f.name = Line.name /\ f.files = n /\ f.line = 1
          /\ f.base = num /\ f.count = 0
      BY <1>1, <3>2, <3>3, <3>4, <3>5 DEF Frame, FrameType, LastOf
    <3>7. Parses(f)
      BY <1>1, <3>3, <3>4, <3>6 DEF Parses
    <3>8. IncludedBy(f, stack[1])
      BY <3>1, <3>2, <3>3, <3>6 DEF IncludedBy
    <3>9. Chained(stack') /\ stack'[1] = f
      <4>1. Chained(stack)
        BY <3>1 DEF Served, Parsing
      <4>. QED
        BY <3>1, <3>3, <3>5, <3>6, <3>7, <3>8, <4>1, ChainPush
    <3>10. Top' = f
      BY <3>9 DEF Top, Chained
    <3>11. f.base + f.count = num
      BY <1>1, <3>6
    <3>12. \A i \in 0..(num - 1) : i \in DOMAIN list
      BY <3>1 DEF Served, Parsing
    <3>. QED
      BY <1>1, <1>2, <3>9, <3>10, <3>11, <3>12, ChainedStays DEF Parsing
  <2>. QED
    BY <2>2, <2>3
<1>. QED
  BY <1>3, <1>4

\* A line that adds to the list.
LEMMA ServedEntry ==
  ASSUME Served, ParseAddr \/ ParseModule
  PROVE  Parsing' /\ CoreServes'
<1>1. UNCHANGED <<disc, images>> /\ Basics /\ num \in Nat /\ Len(images) \in Nat /\ upc = "parse"
      /\ Top.line <= Len(Lines(Top.image, Top.name))
  BY DEF ParseAddr, ParseModule, AtLine, Served, Basics, Typed
<1>2. Chained(stack) /\ Top.base + Top.count = num /\ \A i \in 0..(num - 1) : i \in DOMAIN list
  BY <1>1 DEF Served, Parsing
<1>3. /\ Top \in FrameType /\ Top = stack[1] /\ Top.line >= 1 /\ Top.files \in 2..Len(images)
      /\ images[2] = Image("own", 0, "own")
  BY <1>1, LineKnown DEF Served, Parses
<1>4. ASSUME NEW e, AddEntry(e), upc' = upc, Newer(e)
      PROVE  Parsing' /\ CoreServes'
  <2>1. PICK f : f = [NextLine(Top) EXCEPT !.count = @ + 1]
    OBVIOUS
  <2>2. stack' = <<f>> \o Tail(stack) /\ num' = num + 1
    BY <1>4, <2>1 DEF AddEntry
  <2>3. /\ f \in FrameType /\ f.image = Top.image /\ f.name = Top.name /\ f.files = Top.files /\ f.line >= 1
        /\ f.base = Top.base /\ f.count = Top.count + 1
    <3>1. PICK g : g = NextLine(Top)
      OBVIOUS
    <3>2. g \in FrameType /\ g.image = Top.image /\ g.name = Top.name /\ g.files = Top.files /\ g.line >= 1
          /\ g.base = Top.base /\ g.count = Top.count
      BY <1>3, <3>1, NextFrame
    <3>3. PICK n \in Nat : n = Top.count + 1
      BY <1>3 DEF FrameType
    <3>4. f = [g EXCEPT !.count = n]
      BY <2>1, <3>1, <3>2, <3>3
    <3>. QED
      BY <3>2, <3>3, <3>4 DEF FrameType
  <2>4. Chained(stack') /\ stack'[1] = f
    BY <1>2, <1>3, <2>2, <2>3, ChainTop
  <2>5. Top' = f
    BY <2>4 DEF Top, Chained
  <2>6. f.base + f.count = num'
    <3>1. Top.base \in Nat /\ Top.count \in Nat
      BY <1>3 DEF FrameType
    <3>. QED
      BY <1>2, <2>2, <2>3, <3>1
  <2>7. list' = [i \in DOMAIN list \cup {num, num + 1} |->
                   IF i = num THEN e ELSE IF i = num + 1 THEN None ELSE list[i]]
    BY <1>2, <1>4 DEF AddEntry
  <2>8. list'[num] = e /\ \A i \in 0..(num - 1) : i \in DOMAIN list' /\ list'[i] = list[i]
    BY <1>1, <1>2, <2>7
  <2>9. \A i \in 0..(num' - 1) : i \in 0..(num - 1) \/ i = num
    BY <1>1, <2>2
  <2>10. num \in DOMAIN list'
    BY <2>7
  <2>11. \A i \in 0..(num' - 1) : i \in DOMAIN list' /\ Newer(list'[i])
    <3>1. \A i \in 0..(num - 1) : Newer(list[i])
      BY DEF Served, CoreServes, Newer
    <3>. QED
      BY <1>4, <2>8, <2>9, <2>10, <3>1
  <2>12. CoreServes'
    BY <1>1, <2>11, ServesStay
  <2>. QED
    BY <1>1, <1>4, <2>4, <2>5, <2>6, <2>11, <2>12, ChainedStays DEF Parsing
<1>5. CASE ParseAddr
  <2>1. PICK e : e = [name |-> None, image |-> Line.at]
    OBVIOUS
  <2>2. AddEntry(e) /\ upc' = upc
    BY <1>5, <2>1 DEF ParseAddr
  <2>3. e.name = None /\ \A j \in DOMAIN Own.ents : Own.ents[j].name \in STRING
    <3>1. Own.ents \in Seq([name : STRING, ver : Nat, ext : BOOLEAN])
      BY UdnlAssumption DEF IsFile
    <3>2. ASSUME NEW j \in DOMAIN Own.ents PROVE Own.ents[j].name \in STRING
      <4>1. j \in 1..Len(Own.ents)
        BY <3>1
      <4>2. Own.ents[j] \in [name : STRING, ver : Nat, ext : BOOLEAN]
        BY <3>1, <4>1, ElementOfSeq
      <4>. QED
        BY <4>2
    <3>. QED
      BY <2>1, <3>2
  <2>4. Newer(e)
    BY <2>3, UdnlAssumption DEF Newer
  <2>. QED
    BY <1>4, <2>2, <2>4
<1>6. CASE ParseModule
  <2>1. PICK k : k = SelectModule(Top.files, Line.name)
    OBVIOUS
  <2>2. CASE k = 0
    <3>1. upc' = "stopped" /\ UNCHANGED <<num, list>>
      BY <1>6, <2>1, <2>2 DEF ParseModule
    <3>2. CoreServes'
      BY <1>1, <3>1, ServesStay DEF Served, CoreServes, Newer
    <3>. QED
      BY <3>1, <3>2 DEF Parsing
  <2>3. CASE k # 0
    <3>1. PICK e : e = [name |-> Line.name, image |-> k]
      OBVIOUS
    <3>2. AddEntry(e) /\ upc' = upc
      BY <1>6, <2>1, <2>3, <3>1 DEF ParseModule
    <3>3. Newer(e)
      BY <1>1, <1>3, <2>1, <2>3, <3>1, ModuleNewer
    <3>. QED
      BY <1>4, <3>2, <3>3
  <2>. QED
    BY <2>2, <2>3
<1>. QED
  BY <1>5, <1>6

\* One step.
LEMMA ServedStep ==
  ASSUME Served, [Next]_vars
  PROVE  Served'
<1>1. Basics'
  BY BasicsStep DEF Served
<1>2. CASE UNCHANGED ivars
  <2>1. UNCHANGED <<disc, images, upc, stack, num, list>>
    BY <1>2 DEF ivars
  <2>2. CoreServes'
    BY <2>1, ServesStay DEF Served, CoreServes, Newer
  <2>3. upc = "parse" => Chained(stack')
    BY <2>1 DEF Served, Parsing
  <2>4. Parsing'
    BY <2>1, <2>3, ChainedStays DEF Served, Parsing, Top
  <2>. QED
    BY <1>1, <2>2, <2>4 DEF Served
<1>3. ASSUME NEW args, Start(args) PROVE Served'
  <2>1. upc' # "parse" /\ num' = 0
    BY <1>3 DEF Start
  <2>. QED
    BY <1>1, <2>1 DEF Served, Parsing, CoreServes
<1>4. CASE OpenFile \/ AllocMemory \/ CopyOwn \/ ReadFile
  <2>1. upc' # "parse" /\ num' = 0
    BY <1>4 DEF OpenFile, AllocMemory, CopyOwn, ReadFile, Served, Basics, Standing
  <2>. QED
    BY <1>1, <2>1 DEF Served, Parsing, CoreServes
<1>5. CASE Load \/ ReadDamaged
  <2>1. upc' # "parse" /\ UNCHANGED <<disc, images, num, list>>
    BY <1>5 DEF Load, ReadDamaged
  <2>2. CoreServes'
    BY <2>1, ServesStay DEF Served, CoreServes, Newer
  <2>. QED
    BY <1>1, <2>1, <2>2 DEF Served, Parsing
<1>6. CASE UdnlNext
  BY <1>1, <1>4, <1>5, <1>6, ServedLine, ServedCall, ServedEntry DEF UdnlNext, Served
<1>7. CASE UNCHANGED uvars
  BY <1>2, <1>7 DEF uvars, ivars
<1>8. CASE UNCHANGED vars
  BY <1>7, <1>8 DEF vars, uvars
<1>. QED
  BY <1>2, <1>3, <1>6, <1>7, <1>8, StepKinds DEF ivars

\* A game that runs under the core's hooks has an IOP that the core reset, with
\* what the game asked for and with modules not older than the core's; and
\* what the core calls for that is neither intercepted nor kept back
\* (New_SifIopReset, the hooks of SifSetDma and SifSetReg, udnl.c).
THEOREM CoreKept == Spec => []ResetKeepsCore
<1>1. Init => Control /\ Served
  <2>1. Init => num = 0 /\ upc = "off"
    BY DEF Init, UdnlInit
  <2>2. Init => Parsing /\ CoreServes
    BY <2>1 DEF Parsing, CoreServes
  <2>. QED
    BY <2>2, ControlBegins, BasicsBegin DEF Served
<1>2. Control /\ Served => ResetKeepsCore
  <2>1. SUFFICES ASSUME Control, Served PROVE ResetKeepsCore
    OBVIOUS
  <2>2. game = "run" /\ hooked => /\ iop = "core" /\ ~booting /\ argv = ioprp /\ CoreServes
                                  /\ dmaLock = 1 /\ regLock = 0
    BY <2>1 DEF Control, Locks, Loadeds, Served
  <2>3. game = "regs" /\ todo = <<>> /\ ~booting => smflag = Up
    BY <2>1 DEF Control, Waits
  <2>4. core # "idle" => ~Intercepts(ResetHeader) /\ regLock = 0
    BY <2>1 DEF Control, Locks, Intercepts
  <2>. QED
    BY <2>2, <2>3, <2>4 DEF ResetKeepsCore
<1>. QED
  BY <1>1, <1>2, ControlStep, ServedStep, PTL DEF Spec
-----------------------------------------------------------------------------
(* The images lie beside each other, as they were on the disc.             *)

Size(k) == FileOf(images[k].file).size
Aligned(a) == \E q \in Nat : a = q * Align

\* What the images from k on take.
RoomFor(r) ==
  /\ r \in [3..(Len(images) + 1) -> Nat] /\ r[Len(images) + 1] = 0
  /\ \A k \in 3..Len(images) : r[k] = r[k + 1] + RoundUp(Size(k))

\* An image whose directory was found is in the block, before what is read next.
Kept(k) ==
  images[k].dir # None =>
    /\ Aligned(images[k].at) /\ images[k].at + RoundUp(Size(k)) <= buf
    /\ num < ListSize =>
         \A u \in 0..(Size(k) - 1) : mem[images[k].at + u] = [file |-> images[k].file, unit |-> u]

\* There is room for those that are to be read.
Laid ==
  /\ upc \in {"args", "own"} =>
       /\ next = 3 /\ \A k \in 2..Len(images) : images[k].dir = None
       /\ \E r : RoomFor(r) /\ total = RoundUp(Own.size) + r[3]
  /\ upc = "read" =>
       /\ next <= Len(images) + 1 /\ \A k \in next..Len(images) : images[k].dir = None
       /\ \E r : RoomFor(r) /\ buf + r[next] <= total
  /\ upc \in {"parse", "sysmem"} => buf <= total
  /\ upc \in {"read", "parse", "sysmem"} => Aligned(buf) /\ \A k \in 2..Len(images) : Kept(k)

\* Sizes and the places of images.
LEMMA SizesKnown ==
  ASSUME Basics, NEW k \in 1..Len(images)
  PROVE  /\ images[k] \in ImageType /\ images[k].file \in Names /\ images[k].at \in Nat
         /\ Size(k) \in Nat /\ RoundUp(Size(k)) \in Nat /\ RoundUp(Size(k)) >= Size(k) /\ Aligned(RoundUp(Size(k)))
<1>1. images \in Seq(ImageType) /\ disc \in DOMAIN Discs
  BY DEF Basics, Typed
<1>2. images[k] \in ImageType
  BY <1>1, ElementOfSeq
<1>3. images[k].file \in Names /\ images[k].at \in Nat
  BY <1>2 DEF ImageType
<1>4. Size(k) \in Nat
  BY <1>1, <1>3, FilesTyped DEF Size
<1>5. RoundUp(Size(k)) \in Nat /\ RoundUp(Size(k)) >= Size(k) /\ Aligned(RoundUp(Size(k)))
  BY <1>4, Rounding DEF Aligned
<1>. QED
  BY <1>2, <1>3, <1>4, <1>5

\* Multiples of Align add up to one.
LEMMA AlignedSum ==
  ASSUME NEW a, NEW b, Aligned(a), Aligned(b)
  PROVE  Aligned(a + b)
<1>1. PICK m \in Nat : m = Align
  BY UdnlAssumption
<1>2. PICK q \in Nat : a = q * m
  BY <1>1 DEF Aligned
<1>3. PICK p \in Nat : b = p * m
  BY <1>1 DEF Aligned
<1>4. a + b = (q + p) * m
  BY <1>2, <1>3
<1>5. q + p \in Nat
  OBVIOUS
<1>. QED
  BY <1>1, <1>4, <1>5 DEF Aligned

\* UDNL starts: there is room for its own image.
LEMMA LaidStart ==
  ASSUME NEW args, Start(args)
  PROVE  Laid'
<1>1. Len(images') = 2 /\ images'[2].dir = None /\ upc' = "args" /\ next' = 3 /\ total' = RoundUp(Own.size)
  BY DEF Start
<1>2. PICK r : r = [k \in 3..3 |-> 0]
  OBVIOUS
<1>3. r \in [3..3 -> Nat] /\ r[3] = 0
  BY <1>2
<1>4. RoomFor(r)'
  <2>1. 2 + 1 = 3 /\ 3..2 = {}
    OBVIOUS
  <2>. QED
    BY <1>1, <1>3, <2>1 DEF RoomFor
<1>5. Own.size \in Nat
  BY UdnlAssumption DEF IsFile
<1>6. RoundUp(Own.size) + r[3] = RoundUp(Own.size)
  BY <1>3, <1>5, Rounding
<1>7. \A k \in 2..2 : k = 2
  OBVIOUS
<1>. QED
  BY <1>1, <1>4, <1>6, <1>7 DEF Laid

\* A file is opened, for which there will be room; the block is allocated.
LEMMA LaidOpen ==
  ASSUME Basics, Laid, OpenFile \/ AllocMemory
  PROVE  Laid'
<1>0. upc = "args" /\ UNCHANGED <<disc, next>> /\ upc' \in {"args", "own", "stopped"}
  BY DEF OpenFile, AllocMemory
<1>1. /\ Len(images) \in Nat /\ Len(images) >= 2 /\ images \in Seq(ImageType) /\ total \in Nat
      /\ disc \in DOMAIN Discs
  BY <1>0 DEF Basics, Typed, Standing
<1>2. next = 3 /\ \A k \in 2..Len(images) : images[k].dir = None
  BY <1>0 DEF Laid
<1>3. PICK r : RoomFor(r) /\ total = RoundUp(Own.size) + r[3]
  BY <1>0 DEF Laid
<1>4. CASE images' = images /\ total' = total
  <2>1. RoomFor(r)'
    BY <1>0, <1>3, <1>4 DEF RoomFor, Size, FileOf
  <2>. QED
    BY <1>0, <1>2, <1>3, <1>4, <2>1 DEF Laid
<1>5. ASSUME NEW f \in DOMAIN Discs[disc], images' = Append(images, [Image(f, 0, None) EXCEPT !.name = f]),
             total' = total + RoundUp(Discs[disc][f].size)
      PROVE  Laid'
  <2>0. PICK n \in Nat : n = Len(images) /\ n >= 2
    BY <1>1
  <2>1. PICK im : im = [Image(f, 0, None) EXCEPT !.name = f]
    OBVIOUS
  <2>2. im.file = f /\ im.dir = None
    BY <2>1 DEF Image
  <2>3. images' = Append(images, im)
    BY <1>5, <2>1
  <2>4. Len(images') = n + 1 /\ images'[n + 1] = im /\ \A k \in 1..n : images'[k] = images[k]
    BY <1>1, <2>0, <2>3
  <2>5. PICK s \in Nat : s = RoundUp(Discs[disc][f].size)
    <3>1. Discs[disc][f].size \in Nat
      BY <1>1, UdnlAssumption DEF IsFile
    <3>. QED
      BY <3>1, Rounding
  <2>6. f \in Names /\ FileOf(f) = Discs[disc][f]
    BY <1>1, FilesTyped DEF Names
  <2>7. r \in [3..(n + 1) -> Nat] /\ r[n + 1] = 0 /\ \A k \in 3..n : r[k] = r[k + 1] + RoundUp(Size(k))
    BY <1>3, <2>0 DEF RoomFor
  <2>8. PICK t : t = [k \in 3..(n + 2) |-> IF k = n + 2 THEN 0 ELSE r[k] + s]
    OBVIOUS
  <2>9. /\ t \in [3..((n + 1) + 1) -> Nat] /\ t[(n + 1) + 1] = 0
        /\ \A k \in 3..(n + 1) : t[k] = r[k] + s
    <3>1. (n + 1) + 1 = n + 2 /\ n + 2 \in 3..(n + 2)
      BY <2>0
    <3>2. ASSUME NEW k \in 3..(n + 1) PROVE k \in 3..(n + 2) /\ k # n + 2 /\ r[k] + s \in Nat /\ t[k] = r[k] + s
      <4>1. k \in 3..(n + 2) /\ k # n + 2
        BY <2>0
      <4>2. r[k] \in Nat
        BY <2>7
      <4>. QED
        BY <2>8, <4>1, <4>2
    <3>3. \A k \in 3..(n + 2) : k = n + 2 \/ k \in 3..(n + 1)
      BY <2>0
    <3>4. t[n + 2] = 0
      BY <2>8, <3>1
    <3>5. \A k \in 3..(n + 2) : t[k] \in Nat
      BY <3>2, <3>3, <3>4
    <3>6. t \in [3..(n + 2) -> Nat]
      BY <2>8, <3>5
    <3>. QED
      BY <3>1, <3>2, <3>4, <3>6
  <2>10. ASSUME NEW k \in 3..(n + 1) PROVE t[k] = t[k + 1] + RoundUp(Size(k))'
    <3>1. CASE k = n + 1
      <4>1. Size(k)' = Discs[disc][f].size
        BY <1>0, <2>2, <2>4, <2>6, <3>1 DEF Size, FileOf
      <4>2. RoundUp(Size(k))' = s
        BY <2>5, <4>1 DEF RoundUp
      <4>3. t[k] = 0 + s /\ t[k + 1] = 0
        BY <2>7, <2>9, <3>1
      <4>. QED
        BY <2>5, <4>2, <4>3
    <3>2. CASE k # n + 1
      <4>1. k \in 3..n /\ k + 1 \in 3..(n + 1) /\ k \in 1..n
        BY <2>0, <3>2
      <4>2. Size(k)' = Size(k)
        BY <1>0, <2>4, <4>1 DEF Size, FileOf
      <4>3. RoundUp(Size(k))' = RoundUp(Size(k))
        BY <4>2 DEF RoundUp
      <4>4. RoundUp(Size(k)) \in Nat
        <5>1. k \in 1..Len(images)
          BY <2>0, <4>1
        <5>. QED
          BY <5>1, SizesKnown
      <4>5. r[k] = r[k + 1] + RoundUp(Size(k)) /\ r[k] \in Nat /\ r[k + 1] \in Nat
        BY <2>7, <4>1
      <4>6. t[k] = r[k] + s /\ t[k + 1] = r[k + 1] + s
        BY <2>9, <4>1
      <4>. QED
        BY <2>5, <4>3, <4>4, <4>5, <4>6
    <3>. QED
      BY <3>1, <3>2
  <2>11. RoomFor(t)'
    BY <2>4, <2>9, <2>10 DEF RoomFor
  <2>12. total' = RoundUp(Own.size) + t[3]
    <3>1. Own.size \in Nat
      BY UdnlAssumption DEF IsFile
    <3>2. PICK o \in Nat : o = RoundUp(Own.size)
      BY <3>1, Rounding
    <3>3. r[3] \in Nat /\ t[3] = r[3] + s
      BY <2>0, <2>7, <2>9
    <3>. QED
      BY <1>3, <1>5, <2>5, <3>2, <3>3
  <2>13. \A k \in 2..Len(images') : images'[k].dir = None
    <3>1. \A k \in 2..(n + 1) : k = n + 1 \/ (k \in 2..n /\ k \in 1..n)
      BY <2>0
    <3>. QED
      BY <1>2, <2>0, <2>2, <2>4, <3>1
  <2>. QED
    BY <1>0, <1>2, <2>11, <2>12, <2>13 DEF Laid
<1>. QED
  BY <1>4, <1>5 DEF OpenFile, AllocMemory

\* UDNL's own image is put in front.
LEMMA LaidOwn ==
  ASSUME Basics, Laid, CopyOwn
  PROVE  Laid'
<1>0. upc = "own" /\ upc' = "read" /\ UNCHANGED <<disc, next, total, num>> /\ mem' = Filled("own", 0, Own.size)
  BY DEF CopyOwn
<1>1. /\ Len(images) \in Nat /\ Len(images) >= 2 /\ images \in Seq(ImageType) /\ total \in Nat
      /\ disc \in DOMAIN Discs /\ DOMAIN mem = 0..(total - 1) /\ total >= Own.size /\ images[2].file = "own"
  BY <1>0 DEF Basics, Typed, Standing
<1>2. next = 3 /\ \A k \in 2..Len(images) : images[k].dir = None
  BY <1>0 DEF Laid
<1>3. PICK r : RoomFor(r) /\ total = RoundUp(Own.size) + r[3]
  BY <1>0 DEF Laid
<1>4. Own.size \in Nat /\ "own" # None /\ FileOf("own") = Own
  BY UdnlAssumption DEF IsFile, FileOf
<1>5. 0..(Own.size - 1) \subseteq DOMAIN mem
  BY <1>1, <1>4
<1>6. DirFound(mem', 0, Own.size) = "own"
  BY <1>0, <1>1, <1>5, OwnFound
<1>7. images' = [images EXCEPT ![2] = Image("own", 0, "own")] /\ buf' = RoundUp(Own.size)
  BY <1>4, <1>6 DEF CopyOwn, AfterOwn
<1>8. /\ Len(images') = Len(images) /\ images'[2] = Image("own", 0, "own")
      /\ \A k \in 3..Len(images) : images'[k] = images[k]
  BY <1>1, <1>7
<1>9. RoundUp(Own.size) \in Nat /\ Aligned(RoundUp(Own.size))
  BY <1>4, Rounding DEF Aligned
<1>10. RoomFor(r)' /\ buf' + r[3] <= total'
  <2>1. \A k \in 3..Len(images) : Size(k)' = Size(k)
    BY <1>0, <1>8 DEF Size, FileOf
  <2>2. \A k \in 3..Len(images) : RoundUp(Size(k))' = RoundUp(Size(k))
    BY <2>1 DEF RoundUp
  <2>3. RoomFor(r)'
    BY <1>3, <1>8, <2>2 DEF RoomFor
  <2>. QED
    BY <1>0, <1>1, <1>3, <1>7, <2>3
<1>11. ASSUME NEW k \in 2..Len(images') PROVE Kept(k)'
  <2>1. CASE k = 2
    <3>1. images'[2].at = 0 /\ images'[2].file = "own"
      BY <1>8 DEF Image
    <3>2. Size(2)' = Own.size
      BY <1>4, <3>1 DEF Size, FileOf
    <3>3. RoundUp(Size(2))' = RoundUp(Own.size)
      BY <3>2 DEF RoundUp
    <3>4. ASSUME NEW u \in 0..(Own.size - 1) PROVE mem'[0 + u] = [file |-> "own", unit |-> u]
      <4>1. 0 + u = u /\ u - 0 = u /\ u \in DOMAIN mem /\ u \in 0..(0 + Own.size - 1)
        BY <1>4, <1>5
      <4>. QED
        BY <1>0, <4>1 DEF Filled
    <3>5. Aligned(0)
      <4>1. 0 = 0 * Align
        BY UdnlAssumption
      <4>. QED
        BY <4>1 DEF Aligned
    <3>6. 0 + RoundUp(Own.size) <= RoundUp(Own.size)
      BY <1>9
    <3>. QED
      BY <1>7, <2>1, <3>1, <3>2, <3>3, <3>4, <3>5, <3>6 DEF Kept, Aligned
  <2>2. CASE k # 2
    <3>1. k \in 3..Len(images) /\ k \in 2..Len(images)
      BY <1>1, <1>8, <2>2
    <3>2. images'[k].dir = None
      BY <1>2, <1>8, <3>1
    <3>. QED
      BY <3>2 DEF Kept
  <2>. QED
    BY <2>1, <2>2
<1>12. \A k \in 3..Len(images') : images'[k].dir = None
  <2>1. \A k \in 3..Len(images) : k \in 2..Len(images)
    BY <1>1
  <2>. QED
    BY <1>2, <1>8, <2>1
<1>13. Aligned(buf)'
  BY <1>7, <1>9 DEF Aligned
<1>14. next' = 3 /\ next' <= Len(images') + 1
  BY <1>0, <1>1, <1>2, <1>8
<1>. QED
  BY <1>0, <1>10, <1>11, <1>12, <1>13, <1>14 DEF Laid

\* An image is read: where it goes there is nothing yet that is needed.
LEMMA LaidRead ==
  ASSUME Basics, Laid, ReadFile
  PROVE  Laid'
<1>0. upc = "read" /\ upc' = "read" /\ next <= Len(images) /\ next' = next + 1 /\ UNCHANGED <<disc, total, num>>
  BY DEF ReadFile
<1>1. /\ Len(images) \in Nat /\ images \in Seq(ImageType) /\ total \in Nat /\ buf \in Nat
      /\ next \in Nat /\ next >= 3 /\ disc \in DOMAIN Discs /\ DOMAIN mem = 0..(total - 1)
  BY <1>0 DEF Basics, Typed, Standing
<1>2. \A k \in next..Len(images) : images[k].dir = None
  BY <1>0 DEF Laid
<1>3. PICK r : RoomFor(r) /\ buf + r[next] <= total
  BY <1>0 DEF Laid
<1>4. Aligned(buf) /\ \A k \in 2..Len(images) : Kept(k)
  BY <1>0 DEF Laid
<1>. DEFINE f == images[next].file
<1>5. PICK n \in 0..FileOf(f).size :
        LET found == IF n = FileOf(f).size THEN DirFound(mem', buf, ScanRange) ELSE None IN
        /\ mem' = Filled(f, buf, n)
        /\ images' = IF found = None THEN images ELSE [images EXCEPT ![next] = Image(f, buf, found)]
        /\ buf' = IF found = None THEN buf ELSE buf + RoundUp(FileOf(f).size)
  BY DEF ReadFile
<1>6. PICK found : found = IF n = FileOf(f).size THEN DirFound(mem', buf, ScanRange) ELSE None
  OBVIOUS
<1>7. /\ mem' = Filled(f, buf, n) /\ (found # None => n = FileOf(f).size)
      /\ images' = IF found = None THEN images ELSE [images EXCEPT ![next] = Image(f, buf, found)]
      /\ buf' = IF found = None THEN buf ELSE buf + RoundUp(FileOf(f).size)
  BY <1>5, <1>6
<1>8. next \in 1..Len(images) /\ next \in 3..Len(images)
  BY <1>0, <1>1
<1>9. PICK s \in Nat : s = RoundUp(Size(next)) /\ s >= Size(next) /\ Aligned(s)
  BY <1>8, SizesKnown
<1>10. FileOf(f).size = Size(next) /\ Size(next) \in Nat /\ n \in Nat /\ n <= Size(next)
  <2>1. Size(next) \in Nat
    BY <1>8, SizesKnown
  <2>2. FileOf(f).size = Size(next)
    BY DEF Size
  <2>. QED
    BY <1>5, <2>1, <2>2
<1>. HIDE DEF f
<1>11. PICK x \in Nat, y \in Nat : x = r[next] /\ y = r[next + 1] /\ x = y + s
  <2>1. next \in 3..(Len(images) + 1) /\ next + 1 \in 3..(Len(images) + 1)
    BY <1>1, <1>8
  <2>2. r[next] \in Nat /\ r[next + 1] \in Nat
    BY <1>3, <2>1 DEF RoomFor
  <2>3. r[next] = r[next + 1] + RoundUp(Size(next))
    BY <1>3, <1>8 DEF RoomFor
  <2>. QED
    BY <1>9, <2>2, <2>3
<1>12. Len(images') = Len(images) /\ \A k \in 1..Len(images) : k # next => images'[k] = images[k]
  BY <1>1, <1>7
<1>13. found # None => images'[next] = Image(f, buf, found)
  BY <1>1, <1>7, <1>8
<1>14. \A k \in 1..Len(images) : images'[k].file = images[k].file
  BY <1>1, <1>7, <1>8, <1>12, <1>13 DEF Image, f
<1>15. \A k \in 1..Len(images) : Size(k)' = Size(k) /\ RoundUp(Size(k))' = RoundUp(Size(k))
  <2>1. \A k \in 1..Len(images) : Size(k)' = Size(k)
    BY <1>0, <1>14 DEF Size, FileOf
  <2>. QED
    BY <2>1 DEF RoundUp
<1>16. buf' \in Nat /\ buf' >= buf /\ (found # None => buf' = buf + s) /\ Aligned(buf')
  <2>1. CASE found = None
    BY <1>1, <1>4, <1>7, <2>1
  <2>2. CASE found # None
    <3>1. buf' = buf + s
      BY <1>7, <1>9, <1>10, <2>2
    <3>. QED
      BY <1>1, <1>4, <1>9, <2>2, <3>1, AlignedSum
  <2>. QED
    BY <2>1, <2>2
<1>17. RoomFor(r)' /\ buf' + r[next'] <= total'
  <2>1. \A k \in 3..Len(images) : k \in 1..Len(images)
    BY <1>1
  <2>2. RoomFor(r)'
    BY <1>3, <1>12, <1>15, <2>1 DEF RoomFor
  <2>3. buf + x <= total
    BY <1>3, <1>11
  <2>4. buf' + y <= total
    <3>1. buf' = buf \/ buf' = buf + s
      BY <1>7, <1>9, <1>10
    <3>2. PICK b \in Nat, t \in Nat : b = buf /\ t = total
      BY <1>1
    <3>3. x = y + s /\ b + x <= t
      BY <1>11, <2>3, <3>2
    <3>4. b + y <= t /\ b + s + y <= t
      BY <3>3
    <3>. QED
      BY <3>1, <3>2, <3>4
  <2>. QED
    BY <1>0, <1>11, <2>2, <2>4
<1>18. \A k \in next'..Len(images') : images'[k].dir = None
  <2>1. \A k \in (next + 1)..Len(images) : k \in next..Len(images) /\ k \in 1..Len(images) /\ k # next
    BY <1>1
  <2>. QED
    BY <1>0, <1>2, <1>12, <2>1
<1>19. ASSUME NEW k \in 2..Len(images') PROVE Kept(k)'
  <2>0. k \in 2..Len(images) /\ k \in 1..Len(images)
    BY <1>1, <1>12, <1>19
  <2>1. CASE k # next
    <3>1. images'[k] = images[k]
      BY <1>12, <2>0, <2>1
    <3>2. SUFFICES ASSUME images[k].dir # None PROVE Kept(k)'
      BY <3>1 DEF Kept
    <3>3. Aligned(images[k].at) /\ images[k].at + RoundUp(Size(k)) <= buf
      BY <1>4, <2>0, <3>2 DEF Kept
    <3>4. images[k].at \in Nat /\ Size(k) \in Nat /\ RoundUp(Size(k)) \in Nat /\ RoundUp(Size(k)) >= Size(k)
      BY <2>0, SizesKnown
    <3>5. images[k].at + RoundUp(Size(k)) <= buf'
      BY <1>1, <1>16, <3>3, <3>4
    <3>6. ASSUME num < ListSize, NEW u \in 0..(Size(k) - 1)
          PROVE  mem'[images[k].at + u] = [file |-> images[k].file, unit |-> u]
      <4>1. mem[images[k].at + u] = [file |-> images[k].file, unit |-> u]
        BY <1>4, <2>0, <3>2, <3>6 DEF Kept
      <4>2. PICK b \in Nat : b = images[k].at + u /\ b < buf
        BY <1>1, <3>3, <3>4
      <4>3. b \in DOMAIN mem
        <5>1. PICK c \in Nat, t \in Nat : c = buf /\ t = total
          BY <1>1
        <5>2. c + x <= t
          BY <1>3, <1>11, <5>1
        <5>3. c <= t
          BY <5>2
        <5>. QED
          BY <1>1, <4>2, <5>1, <5>3
      <4>4. b \notin buf..(buf + n - 1)
        BY <1>1, <4>2
      <4>5. mem'[b] = mem[b]
        BY <1>7, <4>3, <4>4 DEF Filled
      <4>. QED
        BY <4>1, <4>2, <4>5
    <3>. QED
      BY <1>0, <1>15, <2>0, <3>1, <3>3, <3>5, <3>6 DEF Kept, Aligned
  <2>2. CASE k = next
    <3>1. CASE found = None
      <4>1. images'[k].dir = None
        <5>1. next \in next..Len(images)
          BY <1>1, <1>8
        <5>. QED
          BY <1>2, <1>7, <2>2, <3>1, <5>1
      <4>. QED
        BY <4>1 DEF Kept
    <3>2. CASE found # None
      <4>1. images'[k].at = buf /\ images'[k].file = f
        BY <1>13, <2>2, <3>2 DEF Image
      <4>2. RoundUp(Size(k))' = s /\ Size(k)' = Size(k)
        BY <1>9, <1>15, <2>0, <2>2
      <4>3. buf + s <= buf'
        BY <1>1, <1>9, <1>16, <3>2
      <4>4. ASSUME NEW u \in 0..(Size(k) - 1) PROVE mem'[buf + u] = [file |-> f, unit |-> u]
        <5>1. PICK b \in Nat : b = buf + u /\ b - buf = u /\ b \in buf..(buf + n - 1)
          BY <1>1, <1>7, <1>10, <2>2, <3>2
        <5>2. b < total
          <6>1. PICK c \in Nat, t \in Nat, m \in Nat : c = buf /\ t = total /\ m = Size(k) /\ u < m
            <7>1. Size(k) \in Nat /\ u \in 0..(Size(k) - 1)
              BY <1>10, <2>2
            <7>2. u < Size(k)
              BY <7>1
            <7>. QED
              BY <1>1, <7>1, <7>2
          <6>2. x = y + s /\ c + x <= t /\ s >= m
            BY <1>3, <1>9, <1>11, <2>2, <6>1
          <6>3. c + u < t
            BY <6>1, <6>2
          <6>. QED
            BY <5>1, <6>1, <6>3
        <5>3. b \in DOMAIN mem
          BY <1>1, <5>1, <5>2
        <5>. QED
          BY <1>7, <5>1, <5>3 DEF Filled
      <4>. QED
        BY <1>4, <4>1, <4>2, <4>3, <4>4 DEF Kept, Aligned
    <3>. QED
      BY <3>1, <3>2
  <2>. QED
    BY <2>1, <2>2
<1>20. next' <= Len(images') + 1
  BY <1>0, <1>1, <1>12
<1>21. Aligned(buf)'
  BY <1>16 DEF Aligned
<1>. QED
  BY <1>0, <1>17, <1>18, <1>19, <1>20, <1>21 DEF Laid

\* The list is made: while it fits, nothing of it is in the block.
LEMMA LaidList ==
  ASSUME Served, Laid,
         \/ FindConf \/ ParseStart \/ ParseAddr \/ ParseComment \/ ParseModule \/ ParseInclude \/ ParseEnd
         \/ Load \/ ReadDamaged
  PROVE  Laid'
<1>1. UNCHANGED <<disc, images, total, next, buf>> /\ upc' \notin {"args", "own", "read"}
  BY DEF FindConf, ParseStart, ParseAddr, ParseComment, ParseModule, ParseInclude, ParseEnd, Load, ReadDamaged,
         Read, AtLine
<1>2. upc' \in {"parse", "sysmem"} => upc \in {"read", "parse"}
  BY DEF FindConf, ParseStart, ParseAddr, ParseComment, ParseModule, ParseInclude, ParseEnd, Load, ReadDamaged,
         Read, AtLine
<1>3. SUFFICES ASSUME upc' \in {"parse", "sysmem"}
               PROVE  buf <= total /\ Aligned(buf) /\ \A k \in 2..Len(images) : Kept(k)'
  BY <1>1, <1>2 DEF Laid, Aligned
<1>4. Len(images) \in Nat /\ total \in Nat /\ buf \in Nat /\ num \in Nat /\ Basics /\ DOMAIN mem = 0..(total - 1)
  BY <1>2, <1>3 DEF Served, Basics, Typed, Standing
<1>5. buf <= total
  <2>1. CASE upc = "read"
    <3>1. next > Len(images) /\ next <= Len(images) + 1
      BY <2>1, <1>3 DEF FindConf, ParseStart, ParseAddr, ParseComment, ParseModule, ParseInclude, ParseEnd, Load,
                        ReadDamaged, Read, AtLine, Laid
    <3>2. next = Len(images) + 1
      BY <1>4, <3>1 DEF Basics, Typed
    <3>3. PICK r : RoomFor(r) /\ buf + r[next] <= total
      BY <2>1 DEF Laid
    <3>. QED
      BY <1>4, <3>2, <3>3 DEF RoomFor
  <2>2. CASE upc = "parse"
    BY <2>2 DEF Laid
  <2>. QED
    BY <1>2, <1>3, <2>1, <2>2
<1>6. Aligned(buf) /\ \A k \in 2..Len(images) : Kept(k)
  BY <1>2, <1>3 DEF Laid
<1>7. num' \in Nat /\ (num' < ListSize => num < ListSize /\ mem' = mem)
  <2>1. CASE UNCHANGED <<mem, num>>
    BY <1>4, <2>1
  <2>2. ASSUME NEW e, AddEntry(e), upc = "parse" PROVE num' \in Nat /\ (num' < ListSize => num < ListSize /\ mem' = mem)
    <3>1. num' = num + 1
      BY <2>2 DEF AddEntry
    <3>2. Top.base + Top.count = num
      BY <2>2 DEF Served, Parsing
    <3>3. mem' = [a \in DOMAIN mem |-> IF ListSize + a \in {num, num + 1} THEN Blank ELSE mem[a]]
      BY <2>2, <3>2 DEF AddEntry
    <3>4. ListSize \in Nat
      BY UdnlAssumption
    <3>5. num' < ListSize => \A a \in DOMAIN mem : ListSize + a \notin {num, num + 1}
      BY <1>4, <3>1, <3>4
    <3>6. mem = [a \in DOMAIN mem |-> mem[a]]
      BY <1>4 DEF Basics, Typed
    <3>7. num' < ListSize => mem' = mem
      BY <3>3, <3>5, <3>6
    <3>. QED
      BY <1>4, <3>1, <3>4, <3>7
  <2>. QED
    BY <2>1, <2>2 DEF FindConf, ParseStart, ParseAddr, ParseComment, ParseModule, ParseInclude, ParseEnd, Load, ReadDamaged,
         Read, AtLine
<1>8. ASSUME NEW k \in 2..Len(images) PROVE Kept(k)'
  <2>1. Size(k)' = Size(k)
    BY <1>1 DEF Size, FileOf
  <2>2. RoundUp(Size(k))' = RoundUp(Size(k))
    BY <2>1 DEF RoundUp
  <2>. QED
    BY <1>1, <1>6, <1>7, <2>1, <2>2 DEF Kept, Aligned
<1>. QED
  BY <1>5, <1>6, <1>8

\* One step.
LEMMA LaidStep ==
  ASSUME Served, Laid, [Next]_vars
  PROVE  Laid'
<1>1. CASE UNCHANGED ivars
  BY <1>1 DEF ivars, Laid, RoomFor, Kept, Size, Aligned, FileOf, RoundUp
<1>2. CASE UNCHANGED vars
  BY <1>1, <1>2 DEF vars, uvars, ivars
<1>3. CASE UdnlNext
  BY <1>3, LaidOpen, LaidOwn, LaidRead, LaidList DEF UdnlNext, Served
<1>4. CASE UNCHANGED uvars
  BY <1>1, <1>4 DEF uvars, ivars
<1>. QED
  BY <1>1, <1>2, <1>3, <1>4, StepKinds, LaidStart DEF ivars

\* The images from which modules are taken are in the block as they were on
\* the disc, unless the list or a short read is known to have spoilt one
\* (_start, AllocMemory, GetIOPRPStat).
THEOREM ImagesKept == Spec => []ImagesIntact
<1>1. Init => Served /\ Laid
  <2>1. Init => num = 0 /\ upc = "off"
    BY DEF Init, UdnlInit
  <2>2. Init => Parsing /\ CoreServes /\ Laid
    BY <2>1 DEF Parsing, CoreServes, Laid
  <2>. QED
    BY <2>2, BasicsBegin DEF Served
<1>2. Served /\ Laid => ImagesIntact
  <2>1. SUFFICES ASSUME Served, Laid, Read \/ upc \in {"parse", "sysmem"}, ~ListOverflows, ~StaleDirectory,
                        NEW k \in 2..Len(images), images[k].dir # None
                 PROVE  LET f == images[k].dir IN
                        /\ images[k].at % Align = 0 /\ images[k].at + FileOf(f).size <= total
                        /\ \A u \in 0..(FileOf(f).size - 1) : mem[images[k].at + u] = [file |-> f, unit |-> u]
    BY DEF ImagesIntact
  <2>2. Basics /\ total \in Nat /\ buf \in Nat /\ num \in Nat /\ ListSize \in Nat /\ Len(images) \in Nat
        /\ images \in Seq(ImageType)
    BY <2>1, UdnlAssumption DEF Served, Basics, Typed
  <2>3. num < ListSize
    BY <2>1, <2>2 DEF ListOverflows
  <2>4. images[k].dir = images[k].file
    <3>1. k \in DOMAIN images
      BY <2>2
    <3>. QED
      BY <2>1, <3>1 DEF StaleDirectory
  <2>5. Kept(k) /\ buf <= total
    <3>1. Kept(k)
      BY <2>1 DEF Laid, Read
    <3>2. CASE Read
      <4>1. next = Len(images) + 1 /\ \E r : RoomFor(r) /\ buf + r[next] <= total
        <5>1. next > Len(images) /\ next <= Len(images) + 1 /\ \E r : RoomFor(r) /\ buf + r[next] <= total
          BY <2>1, <3>2 DEF Laid, Read
        <5>2. next \in Nat
          BY <2>2 DEF Basics, Typed
        <5>. QED
          BY <2>2, <5>1, <5>2
      <4>2. PICK r : RoomFor(r) /\ buf + r[Len(images) + 1] <= total
        BY <4>1
      <4>3. r[Len(images) + 1] = 0
        BY <4>2 DEF RoomFor
      <4>. QED
        BY <2>2, <3>1, <4>2, <4>3
    <3>3. CASE upc \in {"parse", "sysmem"}
      <4>1. buf <= total
        BY <2>1, <3>3 DEF Laid
      <4>. QED
        BY <3>1, <4>1
    <3>. QED
      BY <2>1, <3>2, <3>3
  <2>6. FileOf(images[k].dir).size = Size(k)
    BY <2>4 DEF Size
  <2>7. k \in 1..Len(images)
    BY <2>2
  <2>8. PICK q \in Nat : images[k].at = q * Align
    BY <2>1, <2>5 DEF Kept, Aligned
  <2>9. images[k].at % Align = 0
    <3>1. Divides(images[k].at, Align, q, 0)
      BY <2>8, UdnlAssumption DEF Divides
    <3>. QED
      BY <3>1, Rest
  <2>10. images[k].at + Size(k) <= total
    <3>1. images[k].at + RoundUp(Size(k)) <= buf
      BY <2>1, <2>5 DEF Kept
    <3>2. images[k].at \in Nat /\ Size(k) \in Nat /\ RoundUp(Size(k)) \in Nat /\ RoundUp(Size(k)) >= Size(k)
      BY <2>2, <2>7, SizesKnown
    <3>. QED
      BY <2>2, <2>5, <3>1, <3>2
  <2>11. \A u \in 0..(Size(k) - 1) : mem[images[k].at + u] = [file |-> images[k].dir, unit |-> u]
    BY <2>1, <2>3, <2>4, <2>5 DEF Kept
  <2>. QED
    BY <2>6, <2>9, <2>10, <2>11
<1>. QED
  BY <1>1, <1>2, LaidStep, ServedStep, PTL DEF Spec
-----------------------------------------------------------------------------
(* Sequences of sequences.                                                 *)

\* FlattenSeq puts one sequence after the other: its recursive function exists.
LEMMA Flattened ==
  ASSUME NEW s, NEW n \in Nat, Len(s) = n, n # 0
  PROVE  \E f : /\ f[1] = s[1]
                /\ \A i \in 1..(n - 1) : f[i + 1] = f[i] \o s[i + 1]
                /\ FlattenSeq(s) = f[n]
<1>. DEFINE S == {k \in Nat : \E g : g = [i \in 1..k |-> IF i = 1 THEN s[i] ELSE g[i - 1] \o s[i]]}
<1>1. 0 \in S
  <2>. DEFINE g == [i \in 1..0 |-> 0]
  <2>1. g = [i \in 1..0 |-> IF i = 1 THEN s[i] ELSE g[i - 1] \o s[i]]
    OBVIOUS
  <2>. QED
    BY <2>1
<1>2. ASSUME NEW k \in Nat, k \in S PROVE k + 1 \in S
  <2>1. PICK g : g = [i \in 1..k |-> IF i = 1 THEN s[i] ELSE g[i - 1] \o s[i]]
    BY <1>2
  <2>. DEFINE h == [i \in 1..(k + 1) |-> IF i = k + 1 THEN IF i = 1 THEN s[i] ELSE g[k] \o s[k + 1]
                                         ELSE g[i]]
  <2>2. ASSUME NEW i \in 1..(k + 1) PROVE h[i] = IF i = 1 THEN s[i] ELSE h[i - 1] \o s[i]
    <3>1. CASE i = k + 1
      BY <3>1
    <3>2. CASE i # k + 1
      <4>1. i \in 1..k /\ h[i] = g[i]
        BY <3>2
      <4>2. g[i] = IF i = 1 THEN s[i] ELSE g[i - 1] \o s[i]
        BY <4>1, <2>1
      <4>3. i # 1 => h[i - 1] = g[i - 1]
        BY <4>1
      <4>. QED
        BY <4>1, <4>2, <4>3
    <3>. QED
      BY <3>1, <3>2
  <2>3. h = [i \in 1..(k + 1) |-> h[i]]
    OBVIOUS
  <2>. HIDE DEF h
  <2>4. h = [i \in 1..(k + 1) |-> IF i = 1 THEN s[i] ELSE h[i - 1] \o s[i]]
    BY <2>2, <2>3
  <2>5. \E c : c = [i \in 1..(k + 1) |-> IF i = 1 THEN s[i] ELSE c[i - 1] \o s[i]]
    BY <2>4
  <2>6. k + 1 \in Nat
    OBVIOUS
  <2>. QED
    BY <2>5, <2>6
<1>3. n \in S
  <2>. HIDE DEF S
  <2>1. S \in SUBSET Nat
    BY DEF S
  <2>. QED
    BY <1>1, <1>2, <2>1, Induction
<1>4. PICK g : g = CHOOSE h : h = [i \in 1..n |-> IF i = 1 THEN s[i] ELSE h[i - 1] \o s[i]]
  OBVIOUS
<1>5. g = [i \in 1..n |-> IF i = 1 THEN s[i] ELSE g[i - 1] \o s[i]]
  BY <1>3, <1>4
<1>6. FlattenSeq(s) = g[n]
  BY <1>4 DEF FlattenSeq
<1>7. g[1] = s[1]
  BY <1>5
<1>8. ASSUME NEW i \in 1..(n - 1) PROVE g[i + 1] = g[i] \o s[i + 1]
  <2>1. i + 1 \in 1..n /\ i + 1 # 1 /\ (i + 1) - 1 = i
    OBVIOUS
  <2>2. g[i + 1] = IF i + 1 = 1 THEN s[i + 1] ELSE g[(i + 1) - 1] \o s[i + 1]
    BY <1>5, <2>1
  <2>. QED
    BY <2>1, <2>2
<1>. QED
  BY <1>6, <1>7, <1>8

\* Of nothing it makes nothing.
LEMMA FlattenNone == FlattenSeq(<<>>) = <<>>
BY DEF FlattenSeq

\* The elements of the sequence that results are those of the sequences.
LEMMA FlattenTyped ==
  ASSUME NEW S, NEW s \in Seq(Seq(S))
  PROVE  FlattenSeq(s) \in Seq(S)
<1>0. PICK n \in Nat : n = Len(s) /\ DOMAIN s = 1..n
  OBVIOUS
<1>1. CASE n = 0
  <2>1. s = <<>>
    BY <1>0, <1>1
  <2>2. FlattenSeq(s) = <<>>
    BY <2>1, FlattenNone
  <2>. QED
    BY <2>2
<1>2. CASE n # 0
  <2>1. PICK f : /\ f[1] = s[1]
                 /\ \A i \in 1..(n - 1) : f[i + 1] = f[i] \o s[i + 1]
                 /\ FlattenSeq(s) = f[n]
    <3>1. Len(s) = n
      BY <1>0
    <3>. QED
      BY <1>2, <3>1, Flattened, Zenon
  <2>. DEFINE T == {k \in Nat : k \in 1..n => f[k] \in Seq(S)}
  <2>2. 0 \in T
    OBVIOUS
  <2>3. ASSUME NEW k \in Nat, k \in T PROVE k + 1 \in T
    <3>1. SUFFICES ASSUME k + 1 \in 1..n PROVE f[k + 1] \in Seq(S)
      OBVIOUS
    <3>2. s[k + 1] \in Seq(S)
      BY <1>0, <3>1
    <3>3. CASE k = 0
      BY <2>1, <3>2, <3>3
    <3>4. CASE k # 0
      <4>1. k \in 1..n /\ k \in 1..(n - 1)
        BY <3>1, <3>4
      <4>2. f[k] \in Seq(S)
        BY <2>3, <4>1
      <4>3. f[k + 1] = f[k] \o s[k + 1]
        BY <2>1, <4>1
      <4>. QED
        BY <3>2, <4>2, <4>3
    <3>. QED
      BY <3>3, <3>4
  <2>. HIDE DEF T
  <2>4. T \in SUBSET Nat
    BY DEF T
  <2>5. n \in T
    BY <2>2, <2>3, <2>4, Induction
  <2>. QED
    BY <1>2, <2>1, <2>5 DEF T
<1>. QED
  BY <1>1, <1>2

\* The first i elements.
First(s, i) == [j \in 1..i |-> s[j]]

\* With one more sequence.
LEMMA FlattenStep ==
  ASSUME NEW S, NEW s \in Seq(Seq(S)), NEW n \in Nat, n < Len(s)
  PROVE  FlattenSeq(First(s, n + 1)) = FlattenSeq(First(s, n)) \o s[n + 1]
<1>0. n + 1 \in 1..Len(s) /\ Len(s) \in Nat /\ DOMAIN s = 1..Len(s)
  OBVIOUS
<1>1. PICK p, q : p = First(s, n + 1) /\ q = First(s, n)
  OBVIOUS
<1>2. /\ p \in Seq(Seq(S)) /\ Len(p) = n + 1 /\ q \in Seq(Seq(S)) /\ Len(q) = n
      /\ \A i \in 1..(n + 1) : p[i] = s[i]
      /\ \A i \in 1..n : q[i] = s[i]
  <2>1. \A i \in 1..(n + 1) : s[i] \in Seq(S)
    BY <1>0
  <2>2. \A i \in 1..n : i \in 1..(n + 1)
    OBVIOUS
  <2>. QED
    BY <1>1, <2>1, <2>2 DEF First
<1>3. s[n + 1] \in Seq(S)
  BY <1>0
<1>4. PICK f : /\ f[1] = p[1]
               /\ \A i \in 1..((n + 1) - 1) : f[i + 1] = f[i] \o p[i + 1]
               /\ FlattenSeq(p) = f[n + 1]
  <2>1. PICK m \in Nat : m = n + 1 /\ m # 0
    OBVIOUS
  <2>2. Len(p) = m
    BY <1>2, <2>1
  <2>3. \E f : /\ f[1] = p[1]
               /\ \A i \in 1..(m - 1) : f[i + 1] = f[i] \o p[i + 1]
               /\ FlattenSeq(p) = f[m]
    BY <2>1, <2>2, Flattened, Zenon
  <2>. QED
    BY <2>1, <2>3
<1>5. CASE n = 0
  <2>1. q = <<>>
    BY <1>2, <1>5
  <2>2. FlattenSeq(q) = <<>>
    BY <2>1, FlattenNone
  <2>3. FlattenSeq(p) = s[n + 1]
    BY <1>2, <1>4, <1>5
  <2>. QED
    BY <1>1, <1>3, <2>2, <2>3
<1>6. CASE n # 0
  <2>1. PICK g : /\ g[1] = q[1]
                 /\ \A i \in 1..(n - 1) : g[i + 1] = g[i] \o q[i + 1]
                 /\ FlattenSeq(q) = g[n]
    <3>1. Len(q) = n
      BY <1>2
    <3>. QED
      BY <1>6, <3>1, Flattened, Zenon
  <2>. DEFINE T == {k \in Nat : k \in 1..n => f[k] = g[k]}
  <2>2. 0 \in T
    OBVIOUS
  <2>3. ASSUME NEW k \in Nat, k \in T PROVE k + 1 \in T
    <3>1. SUFFICES ASSUME k + 1 \in 1..n PROVE f[k + 1] = g[k + 1]
      OBVIOUS
    <3>2. CASE k = 0
      <4>1. 1 \in 1..n /\ 1 \in 1..(n + 1) /\ k + 1 = 1
        BY <3>1, <3>2
      <4>2. p[1] = s[1] /\ q[1] = s[1]
        BY <1>2, <4>1
      <4>3. f[1] = g[1]
        BY <1>4, <2>1, <4>2
      <4>. QED
        BY <4>1, <4>3
    <3>3. CASE k # 0
      <4>1. k \in 1..n /\ k \in 1..(n - 1) /\ k \in 1..((n + 1) - 1) /\ k + 1 \in 1..(n + 1)
        BY <3>1, <3>3
      <4>2. f[k] = g[k]
        BY <2>3, <4>1
      <4>. HIDE DEF T
      <4>3. f[k + 1] = f[k] \o p[k + 1] /\ g[k + 1] = g[k] \o q[k + 1]
        BY <1>4, <2>1, <4>1
      <4>4. p[k + 1] = s[k + 1] /\ q[k + 1] = s[k + 1]
        BY <1>2, <3>1, <4>1
      <4>. QED
        BY <4>2, <4>3, <4>4
    <3>. QED
      BY <3>2, <3>3
  <2>. HIDE DEF T
  <2>4. T \in SUBSET Nat
    BY DEF T
  <2>5. n \in T
    BY <2>2, <2>3, <2>4, Induction
  <2>6. f[n] = g[n]
    BY <1>6, <2>5 DEF T
  <2>7. f[n + 1] = f[n] \o p[n + 1]
    <3>1. n \in 1..((n + 1) - 1)
      BY <1>6
    <3>. QED
      BY <1>4, <3>1
  <2>8. p[n + 1] = s[n + 1]
    <3>1. n + 1 \in 1..(n + 1)
      OBVIOUS
    <3>. QED
      BY <1>2, <3>1
  <2>. QED
    BY <1>1, <1>4, <2>1, <2>6, <2>7, <2>8
<1>. QED
  BY <1>5, <1>6
-----------------------------------------------------------------------------
(* What the code takes from the images.                                    *)

\* The list that is made for file f, when its lines are looked up in the
\* first n images, and y are those that are made in the first n - 1.
TakenOf(y, n, f) ==
  LET has == {k \in 1..n : HasFile(k, f)}
  IN IF has = {} THEN <<>>
     ELSE FlattenSeq([i \in DOMAIN Lines(Max(has), f) |-> ItemOf(y, n, Lines(Max(has), f)[i])])

\* The lists of all files.
Meaning(x) == x = [n \in 0..Len(images) |-> [f \in ConfFile |-> TakenOf(x[n - 1], n, f)]]
Meanings == CHOOSE x : Meaning(x)
Taken == Meanings[Len(images)]["IOPBTCONF"]

Entry == [name : STRING \cup {None}, image : Nat]

\* The lists exist: those of n images are made of those of the images before.
LEMMA Meant ==
  ASSUME Basics
  PROVE  Meaning(Meanings)
<1>0. PICK N \in Nat : N = Len(images)
  BY DEF Basics, Typed
<1>. DEFINE S == {m \in Nat : \E g : g = [n \in 0..m |-> [f \in ConfFile |-> TakenOf(g[n - 1], n, f)]]}
<1>1. 0 \in S
  <2>1. \A y, z : [f \in ConfFile |-> TakenOf(y, 0, f)] = [f \in ConfFile |-> TakenOf(z, 0, f)]
    <3>1. ASSUME NEW y, NEW f PROVE TakenOf(y, 0, f) = <<>>
      BY DEF TakenOf
    <3>. QED
      BY <3>1
  <2>. DEFINE g == [n \in 0..0 |-> [f \in ConfFile |-> TakenOf(0, 0, f)]]
  <2>2. ASSUME NEW n \in 0..0 PROVE g[n] = [f \in ConfFile |-> TakenOf(g[n - 1], n, f)]
    <3>1. n = 0 /\ g[n] = [f \in ConfFile |-> TakenOf(0, 0, f)]
      OBVIOUS
    <3>. HIDE DEF g
    <3>2. [f \in ConfFile |-> TakenOf(0, 0, f)] = [f \in ConfFile |-> TakenOf(g[n - 1], 0, f)]
      BY <2>1
    <3>. QED
      BY <3>1, <3>2
  <2>3. g = [n \in 0..0 |-> g[n]]
    OBVIOUS
  <2>. HIDE DEF g
  <2>4. g = [n \in 0..0 |-> [f \in ConfFile |-> TakenOf(g[n - 1], n, f)]]
    BY <2>2, <2>3
  <2>5. \E c : c = [n \in 0..0 |-> [f \in ConfFile |-> TakenOf(c[n - 1], n, f)]]
    BY <2>4
  <2>. QED
    BY <2>5
<1>2. ASSUME NEW m \in Nat, m \in S PROVE m + 1 \in S
  <2>1. PICK g : g = [n \in 0..m |-> [f \in ConfFile |-> TakenOf(g[n - 1], n, f)]]
    BY <1>2
  <2>. DEFINE h == [n \in 0..(m + 1) |-> IF n = m + 1 THEN [f \in ConfFile |-> TakenOf(g[m], n, f)] ELSE g[n]]
  <2>2. ASSUME NEW n \in 0..(m + 1) PROVE h[n] = [f \in ConfFile |-> TakenOf(h[n - 1], n, f)]
    <3>1. CASE n = m + 1
      <4>1. n # 0 /\ n - 1 = m /\ m \in 0..(m + 1) /\ m # m + 1
        BY <3>1
      <4>2. h[m] = g[m] /\ h[n] = [f \in ConfFile |-> TakenOf(g[m], n, f)]
        BY <3>1, <4>1
      <4>3. h[n - 1] = g[m]
        BY <4>1, <4>2
      <4>. QED
        BY <4>2, <4>3
    <3>2. CASE n # m + 1
      <4>1. n \in 0..m /\ h[n] = g[n]
        BY <3>2
      <4>2. g[n] = [f \in ConfFile |-> TakenOf(g[n - 1], n, f)]
        BY <4>1, <2>1
      <4>3. CASE n # 0
        <5>1. h[n - 1] = g[n - 1]
          BY <4>1, <4>3
        <5>. QED
          BY <4>1, <4>2, <5>1
      <4>4. CASE n = 0
        <5>1. ASSUME NEW y, NEW f PROVE TakenOf(y, 0, f) = <<>>
          BY DEF TakenOf
        <5>2. \A y, z : [f \in ConfFile |-> TakenOf(y, 0, f)] = [f \in ConfFile |-> TakenOf(z, 0, f)]
          BY <5>1
        <5>3. h[0] = [f \in ConfFile |-> TakenOf(g[0 - 1], 0, f)]
          BY <4>1, <4>2, <4>4
        <5>. HIDE DEF h
        <5>4. h[0] = [f \in ConfFile |-> TakenOf(h[0 - 1], 0, f)]
          BY <5>2, <5>3
        <5>. QED
          BY <4>4, <5>4
      <4>. QED
        BY <4>3, <4>4
    <3>. QED
      BY <3>1, <3>2
  <2>3. h = [n \in 0..(m + 1) |-> h[n]]
    OBVIOUS
  <2>. HIDE DEF h
  <2>4. h = [n \in 0..(m + 1) |-> [f \in ConfFile |-> TakenOf(h[n - 1], n, f)]]
    BY <2>2, <2>3
  <2>5. \E c : c = [n \in 0..(m + 1) |-> [f \in ConfFile |-> TakenOf(c[n - 1], n, f)]]
    BY <2>4
  <2>6. m + 1 \in Nat
    OBVIOUS
  <2>. QED
    BY <2>5, <2>6
<1>3. N \in S
  <2>. HIDE DEF S
  <2>1. S \in SUBSET Nat
    BY DEF S
  <2>. QED
    BY <1>1, <1>2, <2>1, Induction
<1>4. \E x : Meaning(x)
  BY <1>0, <1>3 DEF Meaning
<1>. QED
  BY <1>4 DEF Meanings

\* The greatest number is the one that is not less than another.
LEMMA Greatest ==
  ASSUME NEW S \in SUBSET Nat, NEW k \in S, \A j \in S : j <= k
  PROVE  Max(S) = k
<1>1. \E z \in S : \A y \in S : z >= y
  OBVIOUS
<1>2. Max(S) \in S /\ \A y \in S : Max(S) >= y
  <2>. DEFINE P(z) == \A y \in S : z >= y
  <2>1. Max(S) = CHOOSE z \in S : P(z)
    BY DEF Max
  <2>2. \E z \in S : P(z)
    BY <1>1
  <2>. HIDE DEF P
  <2>3. Max(S) \in S /\ P(Max(S))
    BY <2>1, <2>2
  <2>. QED
    BY <2>3 DEF P
<1>3. PICK m \in Nat : m = Max(S)
  BY <1>2
<1>4. m >= k /\ m <= k /\ k \in Nat
  BY <1>2, <1>3
<1>. QED
  BY <1>3, <1>4

\* The file that is meant is the one that is parsed.
LEMMA ConfOf ==
  ASSUME NEW y, NEW n \in Nat, NEW f, NEW k, LastOf(n, f, k)
  PROVE  TakenOf(y, n, f) = FlattenSeq([i \in DOMAIN Lines(k, f) |-> ItemOf(y, n, Lines(k, f)[i])])
<1>. DEFINE has == {j \in 1..n : HasFile(j, f)}
<1>1. has \in SUBSET Nat /\ k \in has /\ \A j \in has : j <= k
  BY DEF LastOf
<1>2. Max(has) = k /\ has # {}
  BY <1>1, Greatest
<1>. HIDE DEF has
<1>3. TakenOf(y, n, f) = IF has = {} THEN <<>>
                      ELSE FlattenSeq([i \in DOMAIN Lines(Max(has), f) |-> ItemOf(y, n, Lines(Max(has), f)[i])])
  BY DEF TakenOf, has
<1>. QED
  BY <1>2, <1>3

\* The module that is selected is the newest.
LEMMA SelectedNewest ==
  ASSUME Basics, NEW n \in 0..Len(images), NEW name
  PROVE  Newest(n, name) = SelectModule(n, name) /\ SelectModule(n, name) \in Nat
<1>0. Len(images) \in Nat /\ n \in Nat /\ n + 1 - n = 1
  BY DEF Basics, Typed
<1>1. PICK k : k = SelectModule(n, name)
  OBVIOUS
<1>. DEFINE has == {j \in 1..n : HasFile(j, name)}
            best == {j \in has : \A i \in has : Version(i, name) <= Version(j, name)}
<1>2. Newest(n, name) = IF has = {} THEN 0 ELSE Max(best)
  BY DEF Newest
<1>3. CASE k = 0 /\ \A j \in 1..n : ~HasFile(j, name)
  <2>1. has = {}
    BY <1>3
  <2>. HIDE DEF has, best
  <2>. QED
    BY <1>1, <1>2, <1>3, <2>1
<1>4. CASE NewestFrom(n, n, name, k)
  <2>1. k \in 1..n /\ HasFile(k, name)
        /\ \A j \in 1..n : HasFile(j, name) =>
             Version(j, name) <= Version(k, name) /\ (j > k => Version(j, name) < Version(k, name))
    BY <1>0, <1>4 DEF NewestFrom
  <2>2. best \in SUBSET Nat
    OBVIOUS
  <2>3. k \in best
    BY <2>1
  <2>4. ASSUME NEW j \in best PROVE j <= k
    <3>1. j \in 1..n /\ HasFile(j, name) /\ Version(k, name) <= Version(j, name)
      BY <2>1
    <3>2. Version(j, name) \in Nat /\ Version(k, name) \in Nat
      <4>1. j \in 1..Len(images) /\ k \in 1..Len(images)
        BY <1>0, <2>1, <3>1
      <4>. QED
        BY <2>1, <3>1, <4>1, FileKnown
    <3>3. j > k => Version(j, name) < Version(k, name)
      BY <2>1, <3>1
    <3>4. ~(j > k)
      BY <3>1, <3>2, <3>3
    <3>. QED
      BY <2>1, <3>1, <3>4
  <2>5. has # {}
    BY <2>1
  <2>6. Max(best) = k
    <3>. HIDE DEF best
    <3>. QED
      BY <2>2, <2>3, <2>4, Greatest
  <2>. HIDE DEF has, best
  <2>. QED
    BY <1>1, <1>2, <2>1, <2>5, <2>6
<1>. QED
  BY <1>1, <1>3, <1>4, Selected
\* What the lines of file f of image k add, one by one.
Items(y, n, k, f) == [i \in DOMAIN Lines(k, f) |-> ItemOf(y, n, Lines(k, f)[i])]

\* What a call has added, from the lines before the one it is at.
CallLines(f) == Lines(f.image, f.name)
CallItems(f) == Items(Meanings[f.files - 1], f.files, f.image, f.name)
Added(f) == FlattenSeq(First(CallItems(f), f.line - 1))

\* All this stays, while UDNL reads no more images.
LEMMA MeaningsStay ==
  ASSUME UNCHANGED <<disc, images>>
  PROVE  /\ Meanings' = Meanings /\ Taken' = Taken
         /\ \A f : Added(f)' = Added(f) /\ CallLines(f)' = CallLines(f)
<1>1. ASSUME NEW n, NEW name PROVE Newest(n, name)' = Newest(n, name)
  <2>1. {k \in 1..n : HasFile(k, name)}' = {k \in 1..n : HasFile(k, name)}
    BY LookupsStay
  <2>. QED
    BY <2>1, LookupsStay DEF Newest
<1>2. ASSUME NEW y, NEW n, NEW line PROVE ItemOf(y, n, line)' = ItemOf(y, n, line)
  BY <1>1 DEF ItemOf
<1>3. ASSUME NEW y, NEW n, NEW f PROVE TakenOf(y, n, f)' = TakenOf(y, n, f)
  BY <1>2, LookupsStay DEF TakenOf
<1>4. ASSUME NEW x PROVE Meaning(x)' = Meaning(x)
  BY <1>3 DEF Meaning
<1>5. Meanings' = Meanings
  BY <1>4 DEF Meanings
<1>6. Taken' = Taken
  BY <1>5 DEF Taken
<1>7. ASSUME NEW f PROVE Added(f)' = Added(f) /\ CallLines(f)' = CallLines(f)
  BY <1>2, <1>5, LookupsStay DEF Added, CallItems, CallLines, Items
<1>. QED
  BY <1>5, <1>6, <1>7

\* What a line adds is a list of entries.
LEMMA ItemTyped ==
  ASSUME Basics, NEW y \in [ConfFile -> Seq(Entry)], NEW n \in 0..Len(images), NEW line \in LineType,
         line.op = "include" => line.name \in ConfFile
  PROVE  ItemOf(y, n, line) \in Seq(Entry)
<1>1. line.name \in STRING \cup {None} /\ line.at \in Nat
  BY DEF LineType
<1>2. CASE line.op = "module"
  <2>1. Newest(n, line.name) \in Nat
    BY SelectedNewest
  <2>3. [name |-> line.name, image |-> Newest(n, line.name)] \in Entry
    BY <1>1, <2>1 DEF Entry
  <2>2. ItemOf(y, n, line) = <<[name |-> line.name, image |-> Newest(n, line.name)]>>
    BY <1>2 DEF ItemOf
  <2>. QED
    BY <2>2, <2>3
<1>3. CASE line.op = "addr"
  <2>1. [name |-> None, image |-> line.at] \in Entry
    BY <1>1 DEF Entry
  <2>2. ItemOf(y, n, line) = <<[name |-> None, image |-> line.at]>>
    BY <1>3 DEF ItemOf
  <2>. QED
    BY <2>1, <2>2
<1>4. CASE line.op = "include"
  BY <1>4 DEF ItemOf
<1>5. CASE line.op \notin {"module", "addr", "include"}
  <2>1. ItemOf(y, n, line) = <<>>
    BY <1>5 DEF ItemOf
  <2>. QED
    BY <2>1
<1>. QED
  BY <1>2, <1>3, <1>4, <1>5

\* So are those of the lines of a file.
LEMMA ItemsTyped ==
  ASSUME Basics, NEW y \in [ConfFile -> Seq(Entry)], NEW n \in 0..Len(images), NEW k \in 1..Len(images), NEW f \in ConfFile,
         HasFile(k, f)
  PROVE  /\ Lines(k, f) \in Seq(LineType)
         /\ Items(y, n, k, f) \in Seq(Seq(Entry)) /\ Len(Items(y, n, k, f)) = Len(Lines(k, f))
         /\ \A i \in 1..Len(Lines(k, f)) : Items(y, n, k, f)[i] = ItemOf(y, n, Lines(k, f)[i])
<1>1. PICK lines : lines = Lines(k, f)
  OBVIOUS
<1>2. lines \in Seq(LineType) /\ \A i \in DOMAIN lines : lines[i].op = "include" => lines[i].name \in ConfFile
  BY <1>1, LinesKnown
<1>3. PICK m \in Nat : m = Len(lines) /\ DOMAIN lines = 1..m
  BY <1>2
<1>4. ASSUME NEW i \in 1..m PROVE ItemOf(y, n, lines[i]) \in Seq(Entry)
  <2>1. lines[i] \in LineType
    BY <1>2, <1>3, ElementOfSeq
  <2>. QED
    BY <1>2, <1>3, <2>1, ItemTyped
<1>5. PICK s : s = [i \in 1..m |-> ItemOf(y, n, lines[i])]
  OBVIOUS
<1>6. s \in Seq(Seq(Entry)) /\ Len(s) = m
  BY <1>4, <1>5
<1>7. Items(y, n, k, f) = s
  BY <1>1, <1>3, <1>5 DEF Items
<1>. QED
  BY <1>1, <1>2, <1>3, <1>5, <1>6, <1>7

\* And what the files mean.
LEMMA MeaningsTyped ==
  ASSUME Basics
  PROVE  /\ \A n \in 0..Len(images) : Meanings[n] \in [ConfFile -> Seq(Entry)]
         /\ \A n \in 1..Len(images), f \in ConfFile : \A k : LastOf(n, f, k) =>
              Meanings[n][f] = FlattenSeq(Items(Meanings[n - 1], n, k, f))
<1>1. PICK N \in Nat : N = Len(images)
  BY DEF Basics, Typed
<1>2. PICK x : x = Meanings /\ \A n \in 0..N : x[n] = [f \in ConfFile |-> TakenOf(x[n - 1], n, f)]
  BY <1>1, Meant DEF Meaning
<1>. DEFINE T == {n \in Nat : n \in 0..N => x[n] \in [ConfFile -> Seq(Entry)]}
<1>3. 0 \in T
  <2>1. \A y, f : TakenOf(y, 0, f) = <<>>
    BY DEF TakenOf
  <2>2. x[0] = [f \in ConfFile |-> TakenOf(x[0 - 1], 0, f)]
    BY <1>2
  <2>3. <<>> \in Seq(Entry)
    OBVIOUS
  <2>4. x[0] \in [ConfFile -> Seq(Entry)]
    BY <2>1, <2>2, <2>3
  <2>. QED
    BY <2>4
<1>4. ASSUME NEW m \in Nat, m \in T PROVE m + 1 \in T
  <2>1. SUFFICES ASSUME m + 1 \in 0..N PROVE x[m + 1] \in [ConfFile -> Seq(Entry)]
    OBVIOUS
  <2>2. m + 1 \in Nat /\ (m + 1) - 1 = m /\ m \in 0..N
    BY <2>1
  <2>3. x[m] \in [ConfFile -> Seq(Entry)]
    BY <1>4, <2>2
  <2>. HIDE DEF T
  <2>4. x[m + 1] = [f \in ConfFile |-> TakenOf(x[m], m + 1, f)]
    BY <1>2, <2>1, <2>2
  <2>5. ASSUME NEW f \in ConfFile PROVE TakenOf(x[m], m + 1, f) \in Seq(Entry)
    <3>1. CASE \A j \in 1..(m + 1) : ~HasFile(j, f)
      <4>1. TakenOf(x[m], m + 1, f) = <<>>
        BY <3>1 DEF TakenOf
      <4>2. <<>> \in Seq(Entry)
        OBVIOUS
      <4>. QED
        BY <4>1, <4>2
    <3>2. ASSUME NEW k, LastOf(m + 1, f, k) PROVE TakenOf(x[m], m + 1, f) \in Seq(Entry)
      <4>1. k \in 1..Len(images) /\ HasFile(k, f)
        BY <1>1, <2>1, <3>2 DEF LastOf
      <4>2. Items(x[m], m + 1, k, f) \in Seq(Seq(Entry))
        BY <1>1, <2>1, <2>3, <4>1, ItemsTyped
      <4>3. TakenOf(x[m], m + 1, f) = FlattenSeq(Items(x[m], m + 1, k, f))
        BY <2>2, <3>2, ConfOf DEF Items
      <4>. QED
        BY <4>2, <4>3, FlattenTyped
    <3>. QED
      BY <2>2, <3>1, <3>2, Scanned
  <2>. QED
    BY <2>4, <2>5
<1>5. T = Nat
  <2>. HIDE DEF T
  <2>1. T \in SUBSET Nat
    BY DEF T
  <2>. QED
    BY <1>3, <1>4, <2>1, Induction
<1>6. ASSUME NEW n \in 0..Len(images) PROVE Meanings[n] \in [ConfFile -> Seq(Entry)]
  <2>1. n \in T /\ n \in 0..N
    BY <1>1, <1>5
  <2>. QED
    BY <1>2, <2>1
<1>7. ASSUME NEW n \in 1..Len(images), NEW f \in ConfFile, NEW k, LastOf(n, f, k)
      PROVE  Meanings[n][f] = FlattenSeq(Items(Meanings[n - 1], n, k, f))
  <2>1. n \in 0..N /\ n \in Nat
    BY <1>1
  <2>2. Meanings[n][f] = TakenOf(Meanings[n - 1], n, f)
    BY <1>2, <2>1
  <2>. QED
    BY <1>7, <2>1, <2>2, ConfOf DEF Items
<1>. QED
  BY <1>6, <1>7

\* A call: at its first line it has added nothing, each line adds its own, and
\* at the end it is what its file means.
LEMMA CallDone ==
  ASSUME Basics, NEW f \in FrameType, Parses(f), f.line <= Len(CallLines(f)) + 1
  PROVE  /\ CallLines(f) \in Seq(LineType) /\ Added(f) \in Seq(Entry)
         /\ f.line = 1 => Added(f) = <<>>
         /\ f.line = Len(CallLines(f)) + 1 => Added(f) = Meanings[f.files][f.name]
         /\ f.line <= Len(CallLines(f)) =>
              \A g : g.image = f.image /\ g.name = f.name /\ g.files = f.files /\ g.line = f.line + 1 =>
                Added(g) = Added(f) \o ItemOf(Meanings[f.files - 1], f.files, CallLines(f)[f.line])
<1>1. /\ f.files \in 1..Len(images) /\ f.files - 1 \in 0..Len(images) /\ f.files \in 0..Len(images)
      /\ LastOf(f.files, f.name, f.image) /\ f.line >= 1 /\ f.name \in ConfFile
      /\ f.image \in 1..Len(images) /\ HasFile(f.image, f.name) /\ f.line \in Nat
  <2>1. Len(images) \in Nat
    BY DEF Basics, Typed
  <2>. QED
    BY <2>1 DEF Parses, LastOf, FrameType
<1>2. PICK y : y = Meanings[f.files - 1] /\ y \in [ConfFile -> Seq(Entry)]
  BY <1>1, MeaningsTyped
<1>3. PICK s : s = CallItems(f)
  OBVIOUS
<1>4. PICK N \in Nat : N = Len(CallLines(f)) /\ CallLines(f) \in Seq(LineType) /\ f.line <= N + 1
  <2>1. CallLines(f) \in Seq(LineType)
    BY <1>1, <1>2, ItemsTyped DEF CallLines
  <2>. QED
    BY <2>1
<1>5. s = Items(y, f.files, f.image, f.name)
  BY <1>2, <1>3 DEF CallItems
<1>6. s \in Seq(Seq(Entry)) /\ Len(s) = N /\ \A i \in 1..N : s[i] = ItemOf(y, f.files, CallLines(f)[i])
  BY <1>1, <1>2, <1>4, <1>5, ItemsTyped DEF CallLines
<1>7. PICK p \in Nat : p = f.line - 1 /\ p <= N /\ f.line = p + 1
  BY <1>1, <1>4
<1>8. Added(f) = FlattenSeq(First(s, p))
  BY <1>3, <1>7 DEF Added
<1>9. First(s, p) \in Seq(Seq(Entry)) /\ (p = N => First(s, p) = s) /\ (p = 0 => First(s, p) = <<>>)
  <2>1. \A i \in 1..p : s[i] \in Seq(Entry)
    BY <1>6, <1>7
  <2>2. First(s, p) \in Seq(Seq(Entry))
    BY <2>1 DEF First
  <2>3. p = N => First(s, p) = s
    BY <1>6 DEF First
  <2>4. p = 0 => First(s, p) = <<>>
    BY DEF First
  <2>. QED
    BY <2>2, <2>3, <2>4
<1>10. Added(f) \in Seq(Entry)
  BY <1>8, <1>9, FlattenTyped
<1>11. f.line = 1 => Added(f) = <<>>
  BY <1>7, <1>8, <1>9, FlattenNone
<1>12. ASSUME f.line = N + 1 PROVE Added(f) = Meanings[f.files][f.name]
  <2>1. Added(f) = FlattenSeq(s)
    BY <1>7, <1>8, <1>9, <1>12
  <2>2. Meanings[f.files][f.name] = FlattenSeq(Items(Meanings[f.files - 1], f.files, f.image, f.name))
    BY <1>1, MeaningsTyped
  <2>. QED
    BY <1>2, <1>5, <2>1, <2>2
<1>13. ASSUME f.line <= N,
              NEW g, g.image = f.image, g.name = f.name, g.files = f.files, g.line = f.line + 1
       PROVE  Added(g) = Added(f) \o ItemOf(y, f.files, CallLines(f)[f.line])
  <2>1. CallItems(g) = s
    BY <1>3, <1>13 DEF CallItems
  <2>2. g.line - 1 = p + 1 /\ p < N /\ p + 1 \in 1..N
    BY <1>7, <1>13
  <2>3. Added(g) = FlattenSeq(First(s, p + 1))
    BY <2>1, <2>2 DEF Added
  <2>4. FlattenSeq(First(s, p + 1)) = FlattenSeq(First(s, p)) \o s[p + 1]
    <3>1. p < Len(s)
      BY <1>6, <2>2
    <3>. QED
      BY <1>6, <3>1, FlattenStep
  <2>5. s[p + 1] = ItemOf(y, f.files, CallLines(f)[f.line])
    BY <1>6, <1>7, <2>2
  <2>. QED
    BY <1>8, <2>3, <2>4, <2>5
<1>. QED
  BY <1>2, <1>4, <1>10, <1>11, <1>12, <1>13
\* The calls around the innermost: g[i] is what was in the list when call i
\* began, that of its caller and what the caller had added.
Outer(s, g) ==
  /\ g \in [1..Len(s) -> Seq(Entry)] /\ g[Len(s)] = <<>>
  /\ \A i \in 1..(Len(s) - 1) : g[i] = g[i + 1] \o Added(s[i + 1])
  /\ \A i \in 1..Len(s) : s[i].line <= Len(CallLines(s[i])) + 1

\* The first n modules of the list are w.
Holds(l, n, w) == w \in Seq(Entry) /\ Len(w) = n /\ \A i \in 1..n : l[i - 1] = w[i]

\* They are what the calls have added.
Filed(s, l, n) == \E g : Outer(s, g) /\ Holds(l, n, g[1] \o Added(s[1]))

\* This stays, while UDNL reads no more images.
LEMMA FiledStays ==
  ASSUME UNCHANGED <<disc, images>>, Filed(stack', list', num')
  PROVE  Filed(stack, list, num)'
<1>1. PICK g : Outer(stack', g) /\ Holds(list', num', g[1] \o Added(stack'[1]))
  BY DEF Filed
<1>2. Outer(stack, g)'
  BY <1>1, MeaningsStay DEF Outer
<1>3. Added(stack[1])' = Added(stack'[1])
  BY MeaningsStay
<1>4. Holds(list, num, g[1] \o Added(stack[1]))'
  BY <1>1, <1>3, MeaningsStay DEF Holds
<1>. QED
  BY <1>2, <1>4 DEF Filed

\* Sequences that are put together.
LEMMA Joined ==
  ASSUME NEW S, NEW a \in Seq(S), NEW b \in Seq(S)
  PROVE  a \o <<>> = a /\ <<>> \o a = a /\ a \o b \in Seq(S)
BY ConcatEmptySeq

\* Lists of entries can be put together in any order.
LEMMA JoinedThree == \A a, b, c \in Seq(Entry) : (a \o b) \o c = a \o (b \o c)
BY ConcatAssociative

\* A list k of m modules is the list l of n, with w behind it.
More(l, n, w, k, m) ==
  /\ n \in Nat /\ w \in Seq(Entry) /\ m \in Nat /\ m = n + Len(w)
  /\ \A i \in 1..n : k[i - 1] = l[i - 1]
  /\ \A i \in 1..Len(w) : k[n + i - 1] = w[i]

\* More is added to the list.
LEMMA HoldsMore ==
  ASSUME NEW l, NEW n, NEW v, Holds(l, n, v), NEW w, NEW k, NEW m, More(l, n, w, k, m)
  PROVE  Holds(k, m, v \o w)
<1>0. /\ n \in Nat /\ w \in Seq(Entry) /\ m \in Nat /\ m = n + Len(w)
      /\ \A i \in 1..n : k[i - 1] = l[i - 1]
      /\ \A i \in 1..Len(w) : k[n + i - 1] = w[i]
  BY DEF More
<1>1. v \in Seq(Entry) /\ Len(v) = n /\ \A i \in 1..n : l[i - 1] = v[i]
  BY DEF Holds
<1>2. PICK o \in Nat : o = Len(w)
  BY <1>0
<1>3. PICK z : z = v \o w
  OBVIOUS
<1>4. z \in Seq(Entry) /\ Len(z) = m /\ m = n + o
  BY <1>0, <1>1, <1>2, <1>3
<1>5. ASSUME NEW i \in 1..m PROVE k[i - 1] = z[i]
  <2>1. CASE i <= n
    <3>1. z[i] = v[i]
      BY <1>0, <1>1, <1>2, <1>3, <1>4, <2>1
    <3>. QED
      BY <1>0, <1>1, <2>1, <3>1
  <2>2. CASE i > n
    <3>1. PICK j \in 1..o : j = i - n
      BY <1>0, <1>4, <2>2
    <3>2. z[i] = w[j]
      BY <1>0, <1>1, <1>2, <1>3, <1>4, <2>2, <3>1
    <3>3. k[n + j - 1] = w[j] /\ n + j - 1 = i - 1
      BY <1>0, <1>2, <3>1
    <3>. QED
      BY <3>2, <3>3
  <2>. QED
    BY <1>0, <1>4, <2>1, <2>2
<1>. QED
  BY <1>3, <1>4, <1>5 DEF Holds

\* The innermost of the calls s goes on from its line, of which the list l of
\* n modules gets w, to f; then the calls are t, and the list is k, of m.
Goes(s, l, n, w, f, t, k, m) ==
  /\ Chained(s) /\ n \in Nat /\ Filed(s, l, n) /\ s[1].line <= Len(CallLines(s[1]))
  /\ f.image = s[1].image /\ f.name = s[1].name /\ f.files = s[1].files /\ f.line = s[1].line + 1
  /\ w = ItemOf(Meanings[s[1].files - 1], s[1].files, CallLines(s[1])[s[1].line])
  /\ More(l, n, w, k, m)
  /\ Len(t) = Len(s) /\ t[1] = f /\ \A i \in 2..Len(s) : t[i] = s[i]

\* That was filed, too.
LEMMA FiledLine ==
  ASSUME Basics, NEW s, NEW l, NEW n, NEW w, NEW f, NEW t, NEW k, NEW m, Goes(s, l, n, w, f, t, k, m)
  PROVE  Filed(t, k, m)
<1>1. /\ Chained(s) /\ n \in Nat /\ Filed(s, l, n) /\ s[1].line <= Len(CallLines(s[1]))
      /\ f.image = s[1].image /\ f.name = s[1].name /\ f.files = s[1].files /\ f.line = s[1].line + 1
      /\ w = ItemOf(Meanings[s[1].files - 1], s[1].files, CallLines(s[1])[s[1].line])
      /\ Len(t) = Len(s) /\ t[1] = f /\ \A i \in 2..Len(s) : t[i] = s[i]
  BY DEF Goes
<1>2. w \in Seq(Entry) /\ More(l, n, w, k, m)
  BY DEF Goes, More
<1>3. PICK g : Outer(s, g) /\ Holds(l, n, g[1] \o Added(s[1]))
  BY <1>1 DEF Filed
<1>4. PICK d \in Nat : d = Len(s) /\ d >= 1
  BY <1>1 DEF Chained
<1>5. s[1] \in FrameType /\ Parses(s[1])
  BY <1>1, <1>4 DEF Chained
<1>6. g[1] \in Seq(Entry)
  BY <1>3, <1>4 DEF Outer
<1>7. s[1].line <= Len(CallLines(s[1])) + 1
  BY <1>3, <1>4 DEF Outer
<1>8. CallLines(s[1]) \in Seq(LineType)
  BY <1>5, <1>7, CallDone
<1>9. Added(s[1]) \in Seq(Entry)
  BY <1>5, <1>7, CallDone
<1>10. Added(f) = Added(s[1]) \o w
  BY <1>1, <1>5, <1>7, CallDone
<1>11. CallLines(f) = CallLines(s[1])
  BY <1>1 DEF CallLines
<1>12. Outer(t, g)
  <2>1. g \in [1..d -> Seq(Entry)] /\ g[d] = <<>>
    BY <1>3, <1>4 DEF Outer
  <2>2. ASSUME NEW i \in 1..(d - 1) PROVE g[i] = g[i + 1] \o Added(t[i + 1])
    <3>1. t[i + 1] = s[i + 1]
      BY <1>1, <1>4
    <3>2. g[i] = g[i + 1] \o Added(s[i + 1])
      BY <1>3, <1>4 DEF Outer
    <3>. QED
      BY <3>1, <3>2
  <2>3. ASSUME NEW i \in 1..d PROVE t[i].line <= Len(CallLines(t[i])) + 1
    <3>1. CASE i = 1
      <4>1. PICK a \in Nat, b \in Nat : a = s[1].line /\ b = Len(CallLines(s[1])) /\ a <= b
        BY <1>1, <1>5, <1>8 DEF FrameType
      <4>2. a + 1 <= b + 1
        BY <4>1
      <4>. QED
        BY <1>1, <1>11, <3>1, <4>1, <4>2
    <3>2. CASE i # 1
      <4>1. t[i] = s[i]
        BY <1>1, <1>4, <3>2
      <4>2. s[i].line <= Len(CallLines(s[i])) + 1
        BY <1>3, <1>4 DEF Outer
      <4>. QED
        BY <4>1, <4>2
    <3>. QED
      BY <3>1, <3>2
  <2>4. Len(t) = d
    BY <1>1, <1>4
  <2>. QED
    BY <2>1, <2>2, <2>3, <2>4 DEF Outer
<1>13. Holds(k, m, g[1] \o Added(t[1]))
  <2>1. (g[1] \o Added(s[1])) \o w = g[1] \o (Added(s[1]) \o w)
    <3>1. PICK a \in Seq(Entry), b \in Seq(Entry) : a = g[1] /\ b = Added(s[1])
      BY <1>6, <1>9
    <3>2. (a \o b) \o w = a \o (b \o w)
      BY <1>2, JoinedThree
    <3>. QED
      BY <3>1, <3>2
  <2>2. PICK v : v = g[1] \o Added(s[1])
    OBVIOUS
  <2>3. Holds(l, n, v)
    BY <1>3, <2>2
  <2>4. Holds(k, m, v \o w)
    BY <1>2, <2>3, HoldsMore
  <2>5. v \o w = g[1] \o Added(t[1])
    BY <1>1, <1>10, <2>1, <2>2, Zenon
  <2>. QED
    BY <2>4, <2>5
<1>. QED
  BY <1>12, <1>13 DEF Filed

\* It makes another.
LEMMA FiledCall ==
  ASSUME Basics, NEW s, Chained(s), NEW l, NEW n \in Nat, Filed(s, l, n),
         NEW f \in FrameType, Parses(f), f.line = 1,
         NEW t, Len(t) = Len(s) + 1, t[1] = f, \A i \in 1..Len(s) : t[i + 1] = s[i]
  PROVE  Filed(t, l, n)
<1>1. PICK g : Outer(s, g) /\ Holds(l, n, g[1] \o Added(s[1]))
  BY DEF Filed
<1>2. PICK d \in Nat : d = Len(s) /\ d >= 1
  BY DEF Chained
<1>3. s[1] \in FrameType /\ Parses(s[1])
  BY <1>2 DEF Chained
<1>4. g \in [1..d -> Seq(Entry)] /\ g[d] = <<>>
  BY <1>1, <1>2 DEF Outer
<1>5. g[1] \in Seq(Entry)
  BY <1>2, <1>4
<1>6. Added(s[1]) \in Seq(Entry)
  <2>1. s[1].line <= Len(CallLines(s[1])) + 1
    BY <1>1, <1>2 DEF Outer
  <2>. QED
    BY <1>3, <2>1, CallDone
<1>7. CallLines(f) \in Seq(LineType) /\ f.line <= Len(CallLines(f)) + 1 /\ Added(f) = <<>>
  <2>1. CallLines(f) \in Seq(LineType)
    <3>1. f.image \in 1..Len(images) /\ HasFile(f.image, f.name) /\ f.name \in ConfFile
      <4>1. Len(images) \in Nat
        BY DEF Basics, Typed
      <4>. QED
        BY <4>1 DEF Parses, LastOf, FrameType
    <3>. QED
      BY <3>1, LinesKnown DEF CallLines
  <2>2. f.line <= Len(CallLines(f)) + 1
    BY <2>1
  <2>. QED
    BY <2>1, <2>2, CallDone
<1>8. PICK u \in Seq(Entry) : u = g[1] \o Added(s[1])
  <2>1. g[1] \o Added(s[1]) \in Seq(Entry)
    BY <1>6, <1>5, Joined, Zenon
  <2>. QED
    BY <2>1, Zenon
<1>9. PICK h : h = [i \in 1..(d + 1) |-> IF i = 1 THEN u ELSE g[i - 1]]
  OBVIOUS
<1>10. Outer(t, h)
  <2>1. h \in [1..(d + 1) -> Seq(Entry)]
    <3>1. \A i \in 1..(d + 1) : i # 1 => i - 1 \in 1..d
      OBVIOUS
    <3>. QED
      BY <1>4, <1>8, <1>9, <3>1
  <2>2. h[d + 1] = <<>>
    <3>1. d + 1 \in 1..(d + 1) /\ d + 1 # 1 /\ (d + 1) - 1 = d
      BY <1>2
    <3>. QED
      BY <1>4, <1>9, <3>1
  <2>3. ASSUME NEW i \in 1..d PROVE h[i] = h[i + 1] \o Added(t[i + 1])
    <3>1. t[i + 1] = s[i]
      BY <1>2
    <3>2. i + 1 \in 1..(d + 1) /\ i + 1 # 1 /\ (i + 1) - 1 = i /\ h[i + 1] = g[i]
      BY <1>9
    <3>3. CASE i = 1
      <4>1. h[i] = u
        BY <1>9, <3>3
      <4>. QED
        BY <1>8, <3>1, <3>2, <3>3, <4>1
    <3>4. CASE i # 1
      <4>0. PICK j \in 1..(d - 1) : i = j + 1 /\ j = i - 1 /\ i \in 1..(d + 1)
        BY <3>4
      <4>1. i = j + 1 /\ h[i] = g[j]
        BY <1>9, <3>4, <4>0
      <4>2. g[j] = g[j + 1] \o Added(s[j + 1])
        BY <1>1, <1>2 DEF Outer
      <4>. QED
        BY <3>1, <3>2, <4>1, <4>2
    <3>. QED
      BY <3>3, <3>4
  <2>4. ASSUME NEW i \in 1..(d + 1) PROVE t[i].line <= Len(CallLines(t[i])) + 1
    <3>1. CASE i = 1
      BY <1>7, <3>1
    <3>2. CASE i # 1
      <4>1. PICK j \in 1..d : i = j + 1
        BY <3>2
      <4>2. t[i] = s[j] /\ s[j].line <= Len(CallLines(s[j])) + 1
        BY <1>1, <1>2, <4>1 DEF Outer
      <4>. QED
        BY <4>2
    <3>. QED
      BY <3>1, <3>2
  <2>5. Len(t) = d + 1 /\ (d + 1) - 1 = d
    BY <1>2
  <2>. QED
    BY <2>1, <2>2, <2>3, <2>4, <2>5 DEF Outer
<1>11. h[1] \o Added(t[1]) = g[1] \o Added(s[1])
  <2>1. h[1] = u
    BY <1>2, <1>9
  <2>2. Added(t[1]) = <<>>
    BY <1>7
  <2>3. u \o <<>> = u
    BY <1>8, Joined, Zenon
  <2>. QED
    BY <1>8, <2>1, <2>2, <2>3, Zenon
<1>. QED
  BY <1>1, <1>10, <1>11 DEF Filed

\* It returns, and what it has added is what the caller's line adds.
LEMMA FiledReturn ==
  ASSUME Basics, NEW s, Chained(s), NEW l, NEW n \in Nat, Filed(s, l, n), s[1].line > Len(CallLines(s[1])), Len(s) # 1,
         NEW f, f.image = s[2].image, f.name = s[2].name, f.files = s[2].files, f.line = s[2].line + 1,
         NEW t, Len(t) = Len(s) - 1, t[1] = f, \A i \in 2..(Len(s) - 1) : t[i] = s[i + 1]
  PROVE  Filed(t, l, n)
<1>1. PICK g : Outer(s, g) /\ Holds(l, n, g[1] \o Added(s[1]))
  BY DEF Filed
<1>2. PICK d \in Nat : d = Len(s) - 1 /\ d >= 1 /\ Len(s) = d + 1
  BY DEF Chained
<1>3. s[1] \in FrameType /\ Parses(s[1]) /\ s[2] \in FrameType /\ Parses(s[2]) /\ IncludedBy(s[1], s[2])
  BY <1>2 DEF Chained
<1>4. g \in [1..(d + 1) -> Seq(Entry)] /\ g[d + 1] = <<>>
  BY <1>1, <1>2 DEF Outer
<1>5. g[1] = g[2] \o Added(s[2])
  <2>1. \A i \in 1..d : g[i] = g[i + 1] \o Added(s[i + 1])
    BY <1>1, <1>2 DEF Outer
  <2>2. 1 \in 1..d /\ 1 + 1 = 2
    BY <1>2
  <2>. QED
    BY <2>1, <2>2
<1>6. s[1].line <= Len(CallLines(s[1])) + 1 /\ s[2].line <= Len(CallLines(s[2])) + 1
  BY <1>1, <1>2 DEF Outer
<1>7. Added(s[1]) \in Seq(Entry) /\ Added(s[2]) \in Seq(Entry)
  BY <1>3, <1>6, CallDone
<1>8. CallLines(s[1]) \in Seq(LineType) /\ CallLines(s[2]) \in Seq(LineType)
  BY <1>3, <1>6, CallDone
<1>9. s[1].line = Len(CallLines(s[1])) + 1
  <2>1. PICK a \in Nat, b \in Nat : a = s[1].line /\ b = Len(CallLines(s[1])) /\ a > b /\ a <= b + 1
    BY <1>3, <1>6, <1>8 DEF FrameType
  <2>2. a = b + 1
    BY <2>1
  <2>. QED
    BY <2>1, <2>2
<1>10. Added(s[1]) = Meanings[s[1].files][s[1].name]
  BY <1>3, <1>6, <1>9, CallDone
<1>11. PICK w : w = ItemOf(Meanings[s[2].files - 1], s[2].files, CallLines(s[2])[s[2].line])
  OBVIOUS
<1>12. w = Added(s[1])
  BY <1>3, <1>10, <1>11 DEF IncludedBy, ItemOf, CallLines
<1>13. s[2].line <= Len(CallLines(s[2]))
  BY <1>3 DEF IncludedBy, CallLines
<1>14. Added(f) = Added(s[2]) \o w
  BY <1>3, <1>6, <1>11, <1>13, CallDone
<1>15. CallLines(f) = CallLines(s[2])
  BY DEF CallLines
<1>16. PICK h : h = [i \in 1..d |-> g[i + 1]]
  OBVIOUS
<1>17. Outer(t, h)
  <2>1. h \in [1..d -> Seq(Entry)]
    <3>1. \A i \in 1..d : i + 1 \in 1..(d + 1)
      OBVIOUS
    <3>. QED
      BY <1>4, <1>16, <3>1
  <2>2. h[d] = <<>>
    BY <1>2, <1>4, <1>16
  <2>3. ASSUME NEW i \in 1..(d - 1) PROVE h[i] = h[i + 1] \o Added(t[i + 1])
    <3>1. i + 1 \in 2..d /\ i + 1 \in 1..d /\ i \in 1..d
      OBVIOUS
    <3>2. t[i + 1] = s[(i + 1) + 1] /\ h[i] = g[i + 1] /\ h[i + 1] = g[(i + 1) + 1]
      BY <1>2, <1>16, <3>1
    <3>3. g[i + 1] = g[(i + 1) + 1] \o Added(s[(i + 1) + 1])
      BY <1>1, <1>2, <3>1 DEF Outer
    <3>. QED
      BY <3>2, <3>3
  <2>4. ASSUME NEW i \in 1..d PROVE t[i].line <= Len(CallLines(t[i])) + 1
    <3>1. CASE i = 1
      <4>1. PICK a \in Nat, b \in Nat : a = s[2].line /\ b = Len(CallLines(s[2])) /\ a <= b
        BY <1>3, <1>13, <1>8 DEF FrameType
      <4>2. a + 1 <= b + 1
        BY <4>1
      <4>. QED
        BY <1>15, <3>1, <4>1, <4>2
    <3>2. CASE i # 1
      <4>1. t[i] = s[i + 1] /\ i + 1 \in 1..(d + 1)
        BY <1>2, <3>2
      <4>2. s[i + 1].line <= Len(CallLines(s[i + 1])) + 1
        BY <1>1, <1>2, <4>1 DEF Outer
      <4>. QED
        BY <4>1, <4>2
    <3>. QED
      BY <3>1, <3>2
  <2>5. Len(t) = d
    BY <1>2
  <2>. QED
    BY <2>1, <2>2, <2>3, <2>4, <2>5 DEF Outer
<1>18. h[1] \o Added(t[1]) = g[1] \o Added(s[1])
  <2>1. g[2] \in Seq(Entry)
    <3>1. 2 \in 1..(d + 1)
      BY <1>2
    <3>. QED
      BY <1>4, <3>1
  <2>2. h[1] = g[2]
    <3>1. 1 \in 1..d /\ 1 + 1 = 2
      BY <1>2
    <3>. QED
      BY <1>16, <3>1
  <2>3. (g[2] \o Added(s[2])) \o Added(s[1]) = g[2] \o (Added(s[2]) \o Added(s[1]))
    <3>1. PICK a \in Seq(Entry), b \in Seq(Entry), c \in Seq(Entry) : a = g[2] /\ b = Added(s[2]) /\ c = Added(s[1])
      BY <1>7, <2>1
    <3>2. (a \o b) \o c = a \o (b \o c)
      BY JoinedThree
    <3>. QED
      BY <3>1, <3>2
  <2>. QED
    BY <1>12, <1>14, <1>5, <2>2, <2>3, Zenon
<1>. QED
  BY <1>1, <1>17, <1>18 DEF Filed

\* The list while it is made, and when it is.
Expanded ==
  /\ upc = "parse" => Filed(stack, list, num)
  /\ upc \in {"parse", "sysmem"} /\ num > 0 => list[num] = None
  /\ upc = "sysmem" => Holds(list, num, Taken)

\* The first call.
LEMMA ExpandedBegins ==
  ASSUME Basics, FindConf
  PROVE  Expanded'
<1>1. UNCHANGED <<disc, images, list, num>> /\ num = 0 /\ Len(images) \in Nat /\ Len(images) >= 2
  BY DEF FindConf, Read, Basics, Typed, Standing
<1>2. PICK k : k = ScanImages(Len(images), "IOPBTCONF")
  OBVIOUS
<1>3. CASE k = 0
  <2>1. upc' = "stopped"
    BY <1>2, <1>3 DEF FindConf
  <2>. QED
    BY <2>1 DEF Expanded
<1>4. CASE k # 0
  <2>1. PICK f : f = Frame(k, "IOPBTCONF", Len(images))
    OBVIOUS
  <2>2. stack' = <<f>> /\ upc' = "parse"
    BY <1>2, <1>4, <2>1 DEF FindConf
  <2>3. LastOf(Len(images), "IOPBTCONF", k)
    BY <1>1, <1>2, <1>4, Scanned
  <2>4. f \in FrameType /\ f.image = k /\ f.name = "IOPBTCONF" /\ f.files = Len(images) /\ f.line = 1
    BY <1>1, <2>1, <2>3, UdnlAssumption DEF Frame, FrameType, LastOf
  <2>5. Parses(f)
    BY <1>1, <2>3, <2>4 DEF Parses
  <2>6. CallLines(f) \in Seq(LineType) /\ f.line <= Len(CallLines(f)) + 1
    <3>1. f.image \in 1..Len(images) /\ HasFile(f.image, f.name) /\ f.name \in ConfFile
      BY <2>3, <2>4 DEF LastOf, FrameType
    <3>2. CallLines(f) \in Seq(LineType)
      BY <3>1, LinesKnown DEF CallLines
    <3>. QED
      BY <2>4, <3>2
  <2>7. Added(f) = <<>>
    BY <2>4, <2>5, <2>6, CallDone
  <2>8. PICK g : g = [i \in 1..1 |-> <<>>]
    OBVIOUS
  <2>9. PICK t : t = stack' /\ t = <<f>> /\ Len(t) = 1 /\ t[1] = f
    BY <2>2
  <2>10. Outer(t, g)
    <3>1. <<>> \in Seq(Entry)
      BY EmptySeq
    <3>2. g \in [1..1 -> Seq(Entry)] /\ g[1] = <<>>
      BY <2>8, <3>1
    <3>3. \A i \in 1..(1 - 1) : g[i] = g[i + 1] \o Added(t[i + 1])
      OBVIOUS
    <3>4. \A i \in 1..1 : t[i].line <= Len(CallLines(t[i])) + 1
      BY <2>6, <2>9
    <3>. QED
      BY <2>9, <3>2, <3>3, <3>4 DEF Outer
  <2>11. Holds(list', num', g[1] \o Added(t[1]))
    <3>1. PICK v : v = <<>> /\ v \in Seq(Entry) /\ Len(v) = 0
      BY EmptySeq
    <3>2. Holds(list', 0, v)
      BY <3>1 DEF Holds
    <3>3. g[1] = <<>> /\ Added(t[1]) = <<>>
      BY <2>7, <2>8, <2>9
    <3>4. v \o v = v
      BY <3>1
    <3>. QED
      BY <1>1, <3>1, <3>2, <3>3, <3>4
  <2>12. Filed(stack', list', num')
    BY <2>9, <2>10, <2>11 DEF Filed
  <2>. QED
    BY <1>1, <2>2, <2>12, FiledStays DEF Expanded
<1>. QED
  BY <1>3, <1>4

\* The calls, and the one that is at a line.
LEMMA CallAt ==
  ASSUME Served, Expanded, upc = "parse"
  PROVE  /\ Basics /\ Chained(stack) /\ Filed(stack, list, num) /\ num \in Nat /\ stack[1] = Top
         /\ Top \in FrameType /\ Parses(Top) /\ Len(images) \in Nat
         /\ CallLines(Top) \in Seq(LineType) /\ CallLines(stack[1]) = CallLines(Top)
         /\ Meanings[Top.files - 1] \in [ConfFile -> Seq(Entry)] /\ Top.files \in 0..Len(images)
<1>1. Basics /\ Parsing /\ Chained(stack) /\ Filed(stack, list, num) /\ num \in Nat
  BY DEF Served, Expanded, Parsing, Basics, Typed
<1>2. Top = stack[1] /\ Top \in FrameType /\ Parses(Top) /\ Len(images) \in Nat /\ Top.files \in 2..Len(images)
      /\ Lines(Top.image, Top.name) \in Seq(LineType)
  BY <1>1, LineKnown
<1>3. Top.files - 1 \in 0..Len(images) /\ Top.files \in 0..Len(images)
  BY <1>2
<1>. QED
  BY <1>1, <1>2, <1>3, MeaningsTyped DEF CallLines

\* A line that adds nothing.
LEMMA ExpandedSkip ==
  ASSUME Served, Expanded, ParseStart \/ ParseComment
  PROVE  Expanded'
<1>1. UNCHANGED <<disc, images, upc, list, num>> /\ upc = "parse" /\ Top.line <= Len(Lines(Top.image, Top.name))
      /\ Line.op \in {"start", "comment"} /\ stack' = <<NextLine(Top)>> \o Tail(stack)
  BY DEF ParseStart, ParseComment, AtLine
<1>2. /\ Basics /\ Chained(stack) /\ Filed(stack, list, num) /\ num \in Nat /\ stack[1] = Top
      /\ Top \in FrameType /\ Parses(Top)
  BY <1>1, CallAt
<1>3. PICK f : f = NextLine(Top)
  OBVIOUS
<1>4. f \in FrameType /\ f.image = Top.image /\ f.name = Top.name /\ f.files = Top.files /\ f.line = Top.line + 1
      /\ f.line >= 1
  BY <1>2, <1>3, NextFrame DEF Parses
<1>5. PICK t : t = stack' /\ t = <<f>> \o Tail(stack)
  BY <1>1, <1>3
<1>6. t[1] = f /\ Len(t) = Len(stack) /\ \A i \in 2..Len(stack) : t[i] = stack[i]
  BY <1>2, <1>4, <1>5, ChainTop
<1>7. PICK w : w = ItemOf(Meanings[Top.files - 1], Top.files, CallLines(Top)[Top.line])
  OBVIOUS
<1>8. w = <<>>
  BY <1>1, <1>7 DEF ItemOf, CallLines, Line
<1>9. w \in Seq(Entry) /\ num = num + Len(w) /\ \A i \in 1..Len(w) : list[num + i - 1] = w[i]
  BY <1>2, <1>8
<1>10. Filed(t, list, num)
  <2>1. More(list, num, w, list, num)
    BY <1>2, <1>9 DEF More
  <2>2. Goes(stack, list, num, w, f, t, list, num)
    BY <1>1, <1>2, <1>4, <1>6, <1>7, <2>1 DEF Goes, CallLines
  <2>. QED
    BY <1>2, <2>2, FiledLine
<1>11. Filed(stack, list, num)'
  BY <1>1, <1>5, <1>10, FiledStays
<1>. QED
  BY <1>1, <1>11 DEF Expanded

\* A line that adds an entry.
LEMMA ExpandedEntry ==
  ASSUME Served, Expanded, NEW e, AddEntry(e), UNCHANGED <<disc, images, upc>>, upc = "parse",
         Top.line <= Len(Lines(Top.image, Top.name)), e \in Entry,
         <<e>> = ItemOf(Meanings[Top.files - 1], Top.files, CallLines(Top)[Top.line])
  PROVE  Expanded'
<1>2. /\ Basics /\ Chained(stack) /\ Filed(stack, list, num) /\ num \in Nat /\ stack[1] = Top
      /\ Top \in FrameType /\ Parses(Top)
  BY CallAt
<1>3. PICK f : f = [NextLine(Top) EXCEPT !.count = @ + 1]
  OBVIOUS
<1>4. /\ f \in FrameType /\ f.image = Top.image /\ f.name = Top.name /\ f.files = Top.files /\ f.line = Top.line + 1
      /\ f.line >= 1
  <2>1. PICK g : g = NextLine(Top)
    OBVIOUS
  <2>2. g \in FrameType /\ g.image = Top.image /\ g.name = Top.name /\ g.files = Top.files /\ g.line = Top.line + 1
        /\ g.line >= 1 /\ g.count = Top.count
    BY <1>2, <2>1, NextFrame DEF Parses
  <2>3. PICK n \in Nat : n = Top.count + 1
    BY <1>2 DEF FrameType
  <2>4. f = [g EXCEPT !.count = n]
    BY <1>3, <2>1, <2>2, <2>3
  <2>. QED
    BY <2>2, <2>3, <2>4 DEF FrameType
<1>5. PICK t : t = stack' /\ t = <<f>> \o Tail(stack)
  BY <1>3 DEF AddEntry
<1>6. t[1] = f /\ Len(t) = Len(stack) /\ \A i \in 2..Len(stack) : t[i] = stack[i]
  BY <1>2, <1>4, <1>5, ChainTop
<1>7. Top.base + Top.count = num /\ \A i \in 0..(num - 1) : i \in DOMAIN list
  BY DEF Served, Parsing
<1>8. num' = num + 1 /\ list' = [i \in DOMAIN list \cup {num, num + 1} |->
                                   IF i = num THEN e ELSE IF i = num + 1 THEN None ELSE list[i]]
  BY <1>7 DEF AddEntry
<1>9. list'[num] = e /\ list'[num + 1] = None /\ \A i \in 1..num : list'[i - 1] = list[i - 1]
  <2>1. num \in DOMAIN list' /\ num + 1 \in DOMAIN list' /\ num # num + 1
    BY <1>2, <1>8
  <2>2. ASSUME NEW i \in 1..num PROVE list'[i - 1] = list[i - 1]
    <3>1. PICK j \in 0..(num - 1) : j = i - 1
      BY <1>2
    <3>2. j \in DOMAIN list /\ j # num /\ j # num + 1
      BY <1>2, <1>7
    <3>. QED
      BY <1>8, <3>1, <3>2
  <2>. QED
    BY <1>8, <2>1, <2>2
<1>10. PICK w : w = <<e>>
  OBVIOUS
<1>11. w \in Seq(Entry) /\ Len(w) = 1 /\ w[1] = e
  BY <1>10
<1>12. num' \in Nat /\ num' = num + Len(w) /\ \A i \in 1..Len(w) : list'[num + i - 1] = w[i]
  <2>1. \A i \in 1..1 : i = 1 /\ num + i - 1 = num
    BY <1>2
  <2>. QED
    BY <1>2, <1>8, <1>9, <1>11, <2>1
<1>13. PICK l, m : l = list' /\ m = num'
  OBVIOUS
<1>14. Filed(t, l, m)
  <2>1. m \in Nat /\ m = num + Len(w) /\ \A i \in 1..Len(w) : l[num + i - 1] = w[i]
    BY <1>12, <1>13
  <2>2. \A i \in 1..num : l[i - 1] = list[i - 1]
    BY <1>9, <1>13
  <2>3. w = ItemOf(Meanings[stack[1].files - 1], stack[1].files, CallLines(stack[1])[stack[1].line])
    BY <1>2, <1>10
  <2>4. stack[1].line <= Len(CallLines(stack[1]))
    BY <1>2 DEF CallLines
  <2>5. More(list, num, w, l, m)
    BY <1>2, <1>11, <2>1, <2>2 DEF More
  <2>6. Goes(stack, list, num, w, f, t, l, m)
    BY <1>2, <1>4, <1>6, <2>3, <2>4, <2>5 DEF Goes
  <2>. QED
    BY <1>2, <2>6, FiledLine
<1>15. Filed(stack, list, num)'
  BY <1>5, <1>13, <1>14, FiledStays
<1>16. list'[num'] = None
  BY <1>8, <1>9
<1>. QED
  BY <1>15, <1>16 DEF Expanded

\* The lines that add an entry.
LEMMA ExpandedLine ==
  ASSUME Served, Expanded, ParseAddr \/ ParseModule
  PROVE  Expanded'
<1>1. UNCHANGED <<disc, images>> /\ upc = "parse" /\ Top.line <= Len(Lines(Top.image, Top.name))
  BY DEF ParseAddr, ParseModule, AtLine
<1>2. Basics /\ Parsing /\ Len(images) \in Nat /\ Top.files \in 0..Len(images)
  BY <1>1, CallAt DEF Served
<1>3. Line \in LineType /\ Line = CallLines(Top)[Top.line]
  BY <1>1, <1>2, LineKnown DEF CallLines, Line
<1>4. Line.name \in STRING \cup {None} /\ Line.at \in Nat
  BY <1>3 DEF LineType
<1>5. CASE ParseAddr
  <2>1. PICK e : e = [name |-> None, image |-> Line.at]
    OBVIOUS
  <2>2. AddEntry(e) /\ upc' = upc /\ Line.op = "addr"
    BY <1>5, <2>1 DEF ParseAddr, AtLine
  <2>3. e \in Entry
    BY <1>4, <2>1 DEF Entry
  <2>4. <<e>> = ItemOf(Meanings[Top.files - 1], Top.files, CallLines(Top)[Top.line])
    BY <1>3, <2>1, <2>2 DEF ItemOf
  <2>. QED
    BY <1>1, <2>2, <2>3, <2>4, ExpandedEntry
<1>6. CASE ParseModule
  <2>1. PICK k : k = SelectModule(Top.files, Line.name)
    OBVIOUS
  <2>2. CASE k = 0
    <3>1. upc' = "stopped"
      BY <1>6, <2>1, <2>2 DEF ParseModule
    <3>. QED
      BY <3>1 DEF Expanded
  <2>3. CASE k # 0
    <3>1. PICK e : e = [name |-> Line.name, image |-> k]
      OBVIOUS
    <3>2. AddEntry(e) /\ upc' = upc /\ Line.op = "module"
      BY <1>6, <2>1, <2>3, <3>1 DEF ParseModule, AtLine
    <3>3. k = Newest(Top.files, Line.name) /\ k \in Nat
      BY <1>2, <2>1, SelectedNewest
    <3>4. e \in Entry
      BY <1>4, <3>1, <3>3 DEF Entry
    <3>5. <<e>> = ItemOf(Meanings[Top.files - 1], Top.files, CallLines(Top)[Top.line])
      BY <1>3, <3>1, <3>2, <3>3 DEF ItemOf
    <3>. QED
      BY <1>1, <3>2, <3>4, <3>5, ExpandedEntry
  <2>. QED
    BY <2>2, <2>3
<1>. QED
  BY <1>5, <1>6

\* An include.
LEMMA ExpandedInclude ==
  ASSUME Served, Expanded, ParseInclude
  PROVE  Expanded'
<1>1. UNCHANGED <<disc, images, list, num>> /\ upc = "parse" /\ Top.line <= Len(Lines(Top.image, Top.name))
      /\ Line.op = "include"
  BY DEF ParseInclude, AtLine
<1>2. /\ Basics /\ Parsing /\ Chained(stack) /\ Filed(stack, list, num) /\ num \in Nat /\ stack[1] = Top
      /\ Top \in FrameType /\ Len(images) \in Nat
  BY <1>1, CallAt DEF Served
<1>3. /\ Top.files \in 3..Len(images) /\ Line.name \in ConfFile
      /\ Line = Lines(Top.image, Top.name)[Top.line]
  BY <1>1, <1>2, LineKnown DEF Line
<1>4. PICK k : k = ScanImages(Top.files - 1, Line.name)
  OBVIOUS
<1>5. CASE k = 0
  <2>1. upc' = "stopped"
    BY <1>4, <1>5 DEF ParseInclude
  <2>. QED
    BY <2>1 DEF Expanded
<1>6. CASE k # 0
  <2>1. PICK n \in 2..Len(images) : n = Top.files - 1
    BY <1>2, <1>3
  <2>2. LastOf(n, Line.name, k)
    BY <1>2, <1>4, <1>6, <2>1, Scanned
  <2>3. PICK f : f = Frame(k, Line.name, n)
    OBVIOUS
  <2>4. f \in FrameType /\ f.image = k /\ f.name = Line.name /\ f.files = n /\ f.line = 1
    BY <1>2, <1>3, <2>1, <2>2, <2>3 DEF Frame, FrameType, LastOf
  <2>5. Parses(f)
    BY <1>2, <2>1, <2>2, <2>4 DEF Parses
  <2>6. IncludedBy(f, stack[1])
    BY <1>1, <1>2, <1>3, <2>1, <2>4 DEF IncludedBy
  <2>7. PICK t : t = stack' /\ t = <<f>> \o stack
    BY <1>4, <1>6, <2>1, <2>3 DEF ParseInclude
  <2>8. t[1] = f /\ Len(t) = Len(stack) + 1 /\ \A i \in 1..Len(stack) : t[i + 1] = stack[i]
    BY <1>2, <2>4, <2>5, <2>6, <2>7, ChainPush
  <2>9. Filed(t, list, num)
    BY <1>2, <2>4, <2>5, <2>8, FiledCall
  <2>10. Filed(stack, list, num)'
    BY <1>1, <2>7, <2>9, FiledStays
  <2>11. upc' = "parse"
    BY <1>1, <1>4, <1>6 DEF ParseInclude
  <2>. QED
    BY <1>1, <2>10, <2>11 DEF Expanded
<1>. QED
  BY <1>5, <1>6

\* The end of a file.
LEMMA ExpandedEnd ==
  ASSUME Served, Expanded, ParseEnd
  PROVE  Expanded'
<1>1. UNCHANGED <<disc, images, list, num>> /\ upc = "parse" /\ Top.line > Len(Lines(Top.image, Top.name))
  BY DEF ParseEnd
<1>2. /\ Basics /\ Chained(stack) /\ Filed(stack, list, num) /\ num \in Nat /\ stack[1] = Top
      /\ Top \in FrameType /\ Parses(Top) /\ CallLines(Top) \in Seq(LineType)
  BY <1>1, CallAt
<1>3. num > 0 => list[num] = None
  BY <1>1 DEF Expanded
<1>4. CASE Len(stack) = 1
  <2>1. upc' = "sysmem"
    BY <1>4 DEF ParseEnd
  <2>2. PICK g : Outer(stack, g) /\ Holds(list, num, g[1] \o Added(stack[1]))
    BY <1>2 DEF Filed
  <2>3. g[1] = <<>> /\ Top.line <= Len(CallLines(Top)) + 1
    <3>1. 1 \in 1..Len(stack)
      BY <1>4
    <3>. QED
      BY <1>2, <1>4, <2>2, <3>1 DEF Outer
  <2>4. Top.line = Len(CallLines(Top)) + 1
    <3>1. PICK a \in Nat, b \in Nat : a = Top.line /\ b = Len(CallLines(Top)) /\ a > b /\ a <= b + 1
      BY <1>1, <1>2, <2>3 DEF FrameType, CallLines
    <3>2. a = b + 1
      BY <3>1
    <3>. QED
      BY <3>1, <3>2
  <2>5. Added(Top) = Meanings[Top.files][Top.name]
    BY <1>2, <2>3, <2>4, CallDone
  <2>6. Top.files = Len(images) /\ Top.name = "IOPBTCONF"
    BY <1>2, <1>4 DEF Chained
  <2>7. Added(Top) = Taken
    BY <2>5, <2>6 DEF Taken
  <2>8. Added(Top) \in Seq(Entry)
    BY <1>2, <2>3, CallDone
  <2>9. g[1] \o Added(stack[1]) = Added(Top)
    BY <1>2, <2>3, <2>8, Joined
  <2>10. Holds(list, num, Taken)
    BY <2>2, <2>7, <2>9
  <2>11. Holds(list, num, Taken)'
    BY <1>1, <2>10, MeaningsStay DEF Holds
  <2>. QED
    BY <1>1, <1>3, <2>1, <2>11 DEF Expanded
<1>5. CASE Len(stack) # 1
  <2>1. PICK r : r = Tail(stack)
    OBVIOUS
  <2>2. /\ Chained(r) /\ r[1] = stack[2] /\ Len(r) = Len(stack) - 1 /\ Len(stack) >= 2
        /\ \A i \in 1..(Len(stack) - 1) : r[i] = stack[i + 1]
        /\ stack \in Seq(FrameType)
    BY <1>2, <1>5, <2>1, ChainPop DEF Chained
  <2>3. SubSeq(stack, 3, Len(stack)) = Tail(r)
    BY <2>1, <2>2
  <2>4. PICK f : f = Rebased(stack[2])
    OBVIOUS
  <2>5. r[1] \in FrameType /\ r[1].line >= 1
    BY <2>2 DEF Chained, Parses
  <2>6. f \in FrameType /\ f.image = r[1].image /\ f.name = r[1].name /\ f.files = r[1].files /\ f.line >= 1
        /\ f.line = r[1].line + 1
    <3>1. PICK g : g = NextLine(r[1])
      OBVIOUS
    <3>2. g \in FrameType /\ g.image = r[1].image /\ g.name = r[1].name /\ g.files = r[1].files /\ g.line >= 1
          /\ g.line = r[1].line + 1
      BY <2>5, <3>1, NextFrame
    <3>3. f = [g EXCEPT !.base = num, !.count = 0]
      BY <2>2, <2>4, <3>1 DEF Rebased
    <3>. QED
      BY <1>2, <3>2, <3>3 DEF FrameType
  <2>7. PICK t : t = stack' /\ t = <<f>> \o Tail(r)
    BY <1>5, <2>3, <2>4 DEF ParseEnd
  <2>8. t[1] = f /\ Len(t) = Len(r) /\ \A i \in 2..Len(r) : t[i] = r[i]
    BY <2>2, <2>6, <2>7, ChainTop
  <2>9. \A i \in 2..(Len(stack) - 1) : t[i] = stack[i + 1]
    <3>1. \A i \in 2..(Len(stack) - 1) : i \in 1..(Len(stack) - 1)
      OBVIOUS
    <3>. QED
      BY <2>2, <2>8, <3>1
  <2>10. Filed(t, list, num)
    <3>1. stack[1].line > Len(CallLines(stack[1])) /\ Len(t) = Len(stack) - 1
      BY <1>1, <1>2, <2>2, <2>8 DEF CallLines
    <3>2. f.image = stack[2].image /\ f.name = stack[2].name /\ f.files = stack[2].files /\ f.line = stack[2].line + 1
      BY <2>2, <2>6
    <3>. QED
      BY <1>2, <1>5, <2>8, <2>9, <3>1, <3>2, FiledReturn
  <2>11. Filed(stack, list, num)'
    BY <1>1, <2>7, <2>10, FiledStays
  <2>12. upc' = "parse"
    BY <1>1, <1>5 DEF ParseEnd
  <2>. QED
    BY <1>1, <1>3, <2>11, <2>12 DEF Expanded
<1>. QED
  BY <1>4, <1>5

\* One step.
LEMMA ExpandedStep ==
  ASSUME Served, Expanded, [Next]_vars
  PROVE  Expanded'
<1>1. CASE UNCHANGED ivars
  <2>1. UNCHANGED <<disc, images, upc, stack, num, list>>
    BY <1>1 DEF ivars
  <2>2. upc = "parse" => Filed(stack, list, num)'
    <3>1. upc = "parse" => Filed(stack', list', num')
      BY <2>1 DEF Expanded
    <3>. QED
      BY <2>1, <3>1, FiledStays
  <2>3. upc = "sysmem" => Holds(list, num, Taken)'
    <3>1. upc = "sysmem" => Holds(list, num, Taken)
      BY DEF Expanded
    <3>. QED
      BY <2>1, <3>1, MeaningsStay DEF Holds
  <2>. QED
    BY <2>1, <2>2, <2>3 DEF Expanded
<1>2. ASSUME upc' \notin {"parse", "sysmem"} PROVE Expanded'
  BY <1>2 DEF Expanded
<1>3. ASSUME NEW args, Start(args) PROVE Expanded'
  BY <1>2, <1>3 DEF Start
<1>4. CASE OpenFile \/ AllocMemory \/ CopyOwn \/ ReadFile \/ Load \/ ReadDamaged
  <2>1. upc' \notin {"parse", "sysmem"}
    BY <1>4 DEF OpenFile, AllocMemory, CopyOwn, ReadFile, Load, ReadDamaged
  <2>. QED
    BY <1>2, <2>1
<1>5. CASE UdnlNext
  BY <1>4, <1>5, ExpandedBegins, ExpandedSkip, ExpandedLine, ExpandedInclude, ExpandedEnd DEF UdnlNext, Served
<1>6. CASE UNCHANGED uvars
  BY <1>1, <1>6 DEF uvars, ivars
<1>7. CASE UNCHANGED vars
  BY <1>6, <1>7 DEF vars, uvars
<1>. QED
  BY <1>1, <1>3, <1>5, <1>6, <1>7, StepKinds DEF ivars
-----------------------------------------------------------------------------
(* What IOPBTCONF means.                                                   *)

\* The lists of the files, each by those of fewer images.
Row(x, n) == [f \in ConfFile |-> ListOf(x, n, f)]
Lists(x, m) == x = [n \in 0..m |-> Row(x, n)]
Listing == CHOOSE x : Lists(x, Len(images))

\* The files that are behind others, each by those of one image fewer.
Behinds(b, m) == b = [n \in 0..m |-> BehindOf(b[n - 1], n)]
Hidden == CHOOSE b : Behinds(b, Len(images))

\* The list of a file is that of the image that has it last.
LEMMA ListIs ==
  ASSUME NEW n \in Nat, NEW f, NEW k, LastOf(n, f, k), NEW x
  PROVE  /\ Reach(n, k) \in 1..n
         /\ ListOf(x, n, f) = FlattenSeq(Items(x[Reach(n, k) - 1], Reach(n, k), k, f))
<1>. DEFINE has == {j \in 1..n : HasFile(j, f)}
<1>1. has \in SUBSET Nat /\ k \in has /\ \A j \in has : j <= k
  BY DEF LastOf
<1>2. Max(has) = k /\ has # {}
  BY <1>1, Greatest
<1>3. Reach(n, k) \in 1..n
  BY DEF LastOf, Reach
<1>. HIDE DEF has
<1>4. ListOf(x, n, f) =
        IF has = {} THEN <<>>
        ELSE FlattenSeq([i \in DOMAIN Lines(Max(has), f) |->
               ItemOf(x[Reach(n, Max(has)) - 1], Reach(n, Max(has)), Lines(Max(has), f)[i])])
  BY DEF ListOf, has
<1>. QED
  BY <1>2, <1>3, <1>4 DEF Items

\* A file that no image has adds nothing.
LEMMA ListNone ==
  ASSUME NEW n \in Nat, NEW f, \A j \in 1..n : ~HasFile(j, f), NEW x
  PROVE  ListOf(x, n, f) = <<>> /\ TakenOf(x, n, f) = <<>>
BY DEF ListOf, TakenOf

\* A row is made of the rows before.
LEMMA RowOf ==
  ASSUME NEW n \in Nat, NEW x, NEW y, \A i \in 0..(n - 1) : x[i] = y[i]
  PROVE  Row(x, n) = Row(y, n)
<1>1. ASSUME NEW f PROVE ListOf(x, n, f) = ListOf(y, n, f)
  <2>1. CASE \A j \in 1..n : ~HasFile(j, f)
    BY <2>1, ListNone
  <2>2. ASSUME NEW k, LastOf(n, f, k) PROVE ListOf(x, n, f) = ListOf(y, n, f)
    <3>1. PICK m \in 1..n : m = Reach(n, k)
      BY <2>2, ListIs
    <3>2. x[m - 1] = y[m - 1]
      BY <3>1
    <3>3. ListOf(x, n, f) = FlattenSeq(Items(x[m - 1], m, k, f))
      BY <2>2, <3>1, ListIs
    <3>4. ListOf(y, n, f) = FlattenSeq(Items(y[m - 1], m, k, f))
      BY <2>2, <3>1, ListIs
    <3>. QED
      BY <3>2, <3>3, <3>4
  <2>. QED
    BY <2>1, <2>2, Scanned
<1>. QED
  BY <1>1 DEF Row

\* Another row can be added.
LEMMA ListsGrow ==
  ASSUME NEW m \in Nat, NEW x, \A n \in 0..(m - 1) : x[n] = Row(x, n)
  PROVE  \E h : Lists(h, m)
<1>1. PICK h : h = [n \in 0..m |-> IF n = m THEN Row(x, m) ELSE x[n]]
  OBVIOUS
<1>2. ASSUME NEW n \in 0..m PROVE h[n] = Row(h, n)
  <2>1. \A i \in 0..(n - 1) : h[i] = x[i]
    BY <1>1
  <2>2. n \in Nat
    OBVIOUS
  <2>3. Row(h, n) = Row(x, n)
    BY <2>1, <2>2, RowOf
  <2>4. h[n] = Row(x, n)
    <3>1. CASE n = m
      BY <1>1, <3>1
    <3>2. CASE n # m
      <4>1. n \in 0..(m - 1)
        BY <3>2
      <4>. QED
        BY <1>1, <3>2, <4>1
    <3>. QED
      BY <3>1, <3>2
  <2>. QED
    BY <2>3, <2>4
<1>3. h = [n \in 0..m |-> Row(h, n)]
  BY <1>1, <1>2
<1>. QED
  BY <1>3 DEF Lists

\* So there are such lists.
LEMMA ListingIs ==
  ASSUME Basics
  PROVE  Lists(Listing, Len(images)) /\ Expansion = Listing[Len(images)]["IOPBTCONF"]
<1>1. PICK N \in Nat : N = Len(images)
  BY DEF Basics, Typed
<1>. DEFINE S == {m \in Nat : \E x : Lists(x, m)}
<1>2. 0 \in S
  <2>1. \A n \in 0..(0 - 1) : 0[n] = Row(0, n)
    OBVIOUS
  <2>. QED
    BY <2>1, ListsGrow
<1>3. ASSUME NEW m \in Nat, m \in S PROVE m + 1 \in S
  <2>1. PICK x : Lists(x, m)
    BY <1>3
  <2>2. ASSUME NEW n \in 0..((m + 1) - 1) PROVE x[n] = Row(x, n)
    <3>1. n \in 0..m
      OBVIOUS
    <3>. QED
      BY <2>1, <3>1 DEF Lists
  <2>3. m + 1 \in Nat
    OBVIOUS
  <2>. QED
    BY <2>2, <2>3, ListsGrow
<1>4. N \in S
  <2>. HIDE DEF S
  <2>1. S \in SUBSET Nat
    BY DEF S
  <2>. QED
    BY <1>2, <1>3, <2>1, Induction
<1>5. \E x : Lists(x, Len(images))
  BY <1>1, <1>4
<1>6. Expansion = Listing[Len(images)]["IOPBTCONF"]
  BY DEF Expansion, Listing, Lists, Row
<1>. QED
  BY <1>5, <1>6 DEF Listing

\* No file is in one of no images.
LEMMA BehindNone == \A b : BehindOf(b, 0) = {}
BY DEF BehindOf

\* Another image can be added.
LEMMA BehindsGrow ==
  ASSUME NEW m \in Nat, NEW x, \A n \in 0..(m - 1) : x[n] = BehindOf(x[n - 1], n)
  PROVE  \E h : Behinds(h, m)
<1>1. PICK h : h = [n \in 0..m |-> IF n = m THEN BehindOf(x[m - 1], m) ELSE x[n]]
  OBVIOUS
<1>2. ASSUME NEW n \in 0..m PROVE h[n] = BehindOf(h[n - 1], n)
  <2>1. h[n] = BehindOf(x[n - 1], n)
    <3>1. CASE n = m
      BY <1>1, <3>1
    <3>2. CASE n # m
      <4>1. n \in 0..(m - 1)
        BY <3>2
      <4>. QED
        BY <1>1, <3>2, <4>1
    <3>. QED
      BY <3>1, <3>2
  <2>2. CASE n = 0
    BY <2>1, <2>2, BehindNone
  <2>3. CASE n # 0
    <3>1. n - 1 \in 0..m /\ n - 1 # m
      BY <2>3
    <3>2. h[n - 1] = x[n - 1]
      BY <1>1, <3>1
    <3>. QED
      BY <2>1, <3>2
  <2>. QED
    BY <2>2, <2>3
<1>3. h = [n \in 0..m |-> BehindOf(h[n - 1], n)]
  BY <1>1, <1>2
<1>. QED
  BY <1>3 DEF Behinds

\* So there are such sets.
LEMMA BehindIs ==
  ASSUME Basics
  PROVE  Behinds(Hidden, Len(images)) /\ (Behind <=> "IOPBTCONF" \in Hidden[Len(images)])
<1>1. PICK N \in Nat : N = Len(images)
  BY DEF Basics, Typed
<1>. DEFINE S == {m \in Nat : \E x : Behinds(x, m)}
<1>2. 0 \in S
  <2>1. \A n \in 0..(0 - 1) : 0[n] = BehindOf(0[n - 1], n)
    OBVIOUS
  <2>. QED
    BY <2>1, BehindsGrow
<1>3. ASSUME NEW m \in Nat, m \in S PROVE m + 1 \in S
  <2>1. PICK x : Behinds(x, m)
    BY <1>3
  <2>2. ASSUME NEW n \in 0..((m + 1) - 1) PROVE x[n] = BehindOf(x[n - 1], n)
    <3>1. n \in 0..m
      OBVIOUS
    <3>. QED
      BY <2>1, <3>1 DEF Behinds
  <2>3. m + 1 \in Nat
    OBVIOUS
  <2>. QED
    BY <2>2, <2>3, BehindsGrow
<1>4. N \in S
  <2>. HIDE DEF S
  <2>1. S \in SUBSET Nat
    BY DEF S
  <2>. QED
    BY <1>2, <1>3, <2>1, Induction
<1>5. \E x : Behinds(x, Len(images))
  BY <1>1, <1>4
<1>6. Behind <=> "IOPBTCONF" \in Hidden[Len(images)]
  BY DEF Behind, Hidden, Behinds
<1>. QED
  BY <1>5, <1>6 DEF Hidden

\* Of a file that is not behind, everything is looked up as it should be, and
\* what it includes is not behind either.
LEMMA NotBehind ==
  ASSUME NEW n \in Nat, NEW f \in ConfFile, NEW k, LastOf(n, f, k), NEW b, f \notin BehindOf(b, n)
  PROVE  /\ Reach(n, k) = n
         /\ \A i \in DOMAIN Lines(k, f) : Lines(k, f)[i].op = "include" => Lines(k, f)[i].name \notin b
<1>. DEFINE has == {j \in 1..n : HasFile(j, f)}
<1>1. has \in SUBSET Nat /\ k \in has /\ \A j \in has : j <= k
  BY DEF LastOf
<1>2. Max(has) = k /\ has # {}
  BY <1>1, Greatest
<1>. HIDE DEF has
<1>3. ~ /\ has # {}
        /\ \/ Reach(n, Max(has)) # n
           \/ \E i \in DOMAIN Lines(Max(has), f) :
                Lines(Max(has), f)[i].op = "include" /\ Lines(Max(has), f)[i].name \in b
  BY DEF BehindOf, has
<1>. QED
  BY <1>2, <1>3

\* The list that is made for it is the one that is meant, if those of the files
\* it includes are.
LEMMA ListTaken ==
  ASSUME Basics, NEW n \in 0..Len(images), NEW f \in ConfFile, f \notin Hidden[n],
         n > 0 => \A g \in ConfFile : g \notin Hidden[n - 1] => Listing[n - 1][g] = Meanings[n - 1][g]
  PROVE  Listing[n][f] = Meanings[n][f]
<1>1. n \in Nat /\ Len(images) \in Nat
  BY DEF Basics, Typed
<1>2. PICK x : x = Listing /\ x[n][f] = ListOf(x, n, f)
  BY ListingIs DEF Lists, Row
<1>3. PICK y : y = Meanings /\ y[n][f] = TakenOf(y[n - 1], n, f)
  BY Meant DEF Meaning
<1>4. PICK b : b = Hidden /\ b[n] = BehindOf(b[n - 1], n)
  BY BehindIs DEF Behinds
<1>5. CASE \A j \in 1..n : ~HasFile(j, f)
  BY <1>1, <1>2, <1>3, <1>5, ListNone
<1>6. ASSUME NEW k, LastOf(n, f, k) PROVE x[n][f] = y[n][f]
  <2>1. k \in 1..Len(images) /\ HasFile(k, f) /\ n > 0
    BY <1>1, <1>6 DEF LastOf
  <2>2. PICK lines : lines = Lines(k, f)
    OBVIOUS
  <2>3. Reach(n, k) = n /\ \A i \in DOMAIN lines : lines[i].op = "include" => lines[i].name \notin b[n - 1]
    BY <1>1, <1>4, <1>6, <2>2, NotBehind
  <2>4. \A i \in DOMAIN lines : lines[i].op = "include" => lines[i].name \in ConfFile
    BY <2>1, <2>2, LinesKnown
  <2>5. ASSUME NEW i \in DOMAIN lines PROVE ItemOf(x[n - 1], n, lines[i]) = ItemOf(y[n - 1], n, lines[i])
    <3>1. CASE lines[i].op = "include"
      <4>1. x[n - 1][lines[i].name] = y[n - 1][lines[i].name]
        BY <1>2, <1>3, <1>4, <2>1, <2>3, <2>4, <3>1
      <4>. QED
        BY <3>1, <4>1 DEF ItemOf
    <3>2. CASE lines[i].op # "include"
      BY <3>2 DEF ItemOf
    <3>. QED
      BY <3>1, <3>2
  <2>6. Items(x[n - 1], n, k, f) = Items(y[n - 1], n, k, f)
    BY <2>2, <2>5 DEF Items
  <2>7. ListOf(x, n, f) = FlattenSeq(Items(x[n - 1], n, k, f))
    BY <1>1, <1>6, <2>3, ListIs
  <2>8. TakenOf(y[n - 1], n, f) = FlattenSeq(Items(y[n - 1], n, k, f))
    BY <1>1, <1>6, ConfOf DEF Items
  <2>. QED
    BY <1>2, <1>3, <2>6, <2>7, <2>8
<1>. QED
  BY <1>1, <1>2, <1>3, <1>5, <1>6, Scanned

\* What the code takes is what IOPBTCONF means.
LEMMA TakenMeant ==
  ASSUME Basics, ~Behind
  PROVE  Taken = Expansion
<1>1. PICK N \in Nat : N = Len(images)
  BY DEF Basics, Typed
<1>. DEFINE Agree(n) == \A f \in ConfFile : f \notin Hidden[n] => Listing[n][f] = Meanings[n][f]
            S == {n \in Nat : n \in 0..N => Agree(n)}
<1>2. ASSUME NEW n \in 0..Len(images), n > 0 => Agree(n - 1) PROVE Agree(n)
  BY <1>2, ListTaken
<1>. HIDE DEF Agree
<1>3. 0 \in S
  BY <1>1, <1>2
<1>4. ASSUME NEW m \in Nat, m \in S PROVE m + 1 \in S
  <2>1. SUFFICES ASSUME m + 1 \in 0..N PROVE Agree(m + 1)
    OBVIOUS
  <2>2. m \in 0..N /\ (m + 1) - 1 = m
    BY <2>1
  <2>3. Agree(m)
    BY <1>4, <2>2
  <2>. QED
    BY <1>1, <1>2, <2>1, <2>2, <2>3
<1>5. N \in S
  <2>. HIDE DEF S
  <2>1. S \in SUBSET Nat
    BY DEF S
  <2>. QED
    BY <1>3, <1>4, <2>1, Induction
<1>6. Agree(N)
  BY <1>1, <1>5
<1>7. "IOPBTCONF" \in ConfFile /\ "IOPBTCONF" \notin Hidden[N]
  BY <1>1, BehindIs, UdnlAssumption
<1>. QED
  BY <1>1, <1>6, <1>7, ListingIs DEF Agree, Taken

\* The list of modules is what the lines of IOPBTCONF and of the files it
\* includes say, in their order, whatever is included where, each module in
\* its newest version, with NULL at its end (ParseIOPBTCONF and
\* SelectModuleFromImages of udnl.c), unless one of those files is in an image
\* behind which there are others.
THEOREM ListExpanded == Spec => []ListIsExpansion
<1>1. Init => Served /\ Expanded
  <2>1. Init => num = 0 /\ upc = "off"
    BY DEF Init, UdnlInit
  <2>2. Init => Parsing /\ CoreServes /\ Expanded
    BY <2>1 DEF Parsing, CoreServes, Expanded
  <2>. QED
    BY <2>2, BasicsBegin DEF Served
<1>2. Served /\ Expanded => ListIsExpansion
  <2>1. SUFFICES ASSUME Served, Expanded, upc = "sysmem", ~Behind
                 PROVE  /\ num = Len(Expansion) /\ (num > 0 => list[num] = None)
                        /\ \A i \in 1..num : list[i - 1] = Expansion[i]
    BY DEF ListIsExpansion
  <2>2. Holds(list, num, Taken) /\ (num > 0 => list[num] = None)
    BY <2>1 DEF Expanded
  <2>3. Taken = Expansion
    BY <2>1, TakenMeant DEF Served
  <2>. QED
    BY <2>2, <2>3 DEF Holds
<1>. QED
  BY <1>1, <1>2, ServedStep, ExpandedStep, PTL DEF Spec
=============================================================================
