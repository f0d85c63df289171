------------------------- MODULE UsbTransfer_proofs -------------------------
(***************************************************************************)
(* Proofs about UsbTransfer: TDs, requests and callbacks have one owner,   *)
(* and the users of an endpoint are called back in the order of their      *)
(* transfers, for any pools, endpoints and users, on a bus where the       *)
(* driver hears of retired TDs before a closed endpoint is killed          *)
(* (~QuietBus).                                                            *)
(***************************************************************************)
EXTENDS UsbTransfer, SequenceTheorems, TLAPS

(* Sequences                                                               *)

\* No member twice.
Once(s) == \A i, j \in DOMAIN s : s[i] = s[j] => i = j

\* A function on 1..n is a sequence of length n.
LEMMA FunIsSeq ==
  ASSUME NEW S, NEW n \in Nat, NEW f \in [1..n -> S]
  PROVE  f \in Seq(S) /\ Len(f) = n
<1>1. f \in Seq(S)
  BY SeqDef
<1>2. DOMAIN f = 1..n /\ DOMAIN f = 1..Len(f) /\ Len(f) \in Nat
  BY <1>1, LenProperties
<1>. QED
  BY <1>1, <1>2

\* What Append adds.
LEMMA OnAppend ==
  ASSUME NEW S, NEW s \in Seq(S), NEW x \in S
  PROVE  /\ ToSet(Append(s, x)) = ToSet(s) \cup {x}
         /\ Once(s) /\ x \notin ToSet(s) => Once(Append(s, x))
<1>1. /\ Append(s, x) \in Seq(S) /\ Len(Append(s, x)) = Len(s) + 1
      /\ \A i \in 1..Len(s) : Append(s, x)[i] = s[i]
      /\ Append(s, x)[Len(s) + 1] = x
  BY AppendProperties
<1>2. DOMAIN s = 1..Len(s) /\ Len(s) \in Nat /\ DOMAIN Append(s, x) = 1..(Len(s) + 1)
  BY <1>1, LenProperties
<1>3. ToSet(Append(s, x)) = ToSet(s) \cup {x}
  BY <1>1, <1>2 DEF ToSet
<1>4. ASSUME Once(s), x \notin ToSet(s)
      PROVE  Once(Append(s, x))
  BY <1>1, <1>2, <1>4 DEF Once, ToSet
<1>. QED
  BY <1>3, <1>4

\* What Tail leaves.
LEMMA OnTail ==
  ASSUME NEW S, NEW s \in Seq(S), s # <<>>
  PROVE  /\ ToSet(s) = ToSet(Tail(s)) \cup {Head(s)}
         /\ Once(s) => Once(Tail(s)) /\ Head(s) \notin ToSet(Tail(s))
<1>1. /\ Tail(s) \in Seq(S) /\ Len(Tail(s)) = Len(s) - 1
      /\ \A i \in 1..Len(Tail(s)) : Tail(s)[i] = s[i + 1]
  BY HeadTailProperties
<1>2. DOMAIN s = 1..Len(s) /\ Len(s) \in Nat \ {0} /\ DOMAIN Tail(s) = 1..(Len(s) - 1) /\ Head(s) = s[1]
  BY <1>1, LenProperties, EmptySeq
<1>3. ToSet(Tail(s)) \cup {Head(s)} \subseteq ToSet(s)
  BY <1>1, <1>2 DEF ToSet
<1>4. ASSUME NEW i \in DOMAIN s
      PROVE  s[i] \in ToSet(Tail(s)) \cup {Head(s)}
  <2>1. CASE i = 1
    BY <2>1, <1>2
  <2>2. CASE i # 1
    <3>1. i - 1 \in 1..(Len(s) - 1) /\ Tail(s)[i - 1] = s[i]
      BY <2>2, <1>1, <1>2
    <3>. QED
      BY <3>1, <1>2 DEF ToSet
  <2>. QED
    BY <2>1, <2>2
<1>5. ASSUME Once(s)
      PROVE  Once(Tail(s)) /\ Head(s) \notin ToSet(Tail(s))
  BY <1>1, <1>2, <1>5 DEF Once, ToSet
<1>. QED
  BY <1>3, <1>4, <1>5 DEF ToSet

\* u is s, of length k, and then t, of length n.
Joined(S, s, t, k, n, u) ==
  /\ u \in Seq(S) /\ Len(u) = k + n /\ DOMAIN u = 1..(k + n)
  /\ \A i \in 1..(k + n) : u[i] = IF i <= k THEN s[i] ELSE t[i - k]

\* Where the members of two sequences are when they are joined.
LEMMA JoinedAt ==
  ASSUME NEW S, NEW s \in Seq(S), NEW t \in Seq(S)
  PROVE  Joined(S, s, t, Len(s), Len(t), s \o t)
<1>1. /\ s \o t \in Seq(S) /\ Len(s \o t) = Len(s) + Len(t)
      /\ \A i \in 1..(Len(s) + Len(t)) :
           (s \o t)[i] = IF i <= Len(s) THEN s[i] ELSE t[i - Len(s)]
  BY ConcatProperties
<1>2. DOMAIN (s \o t) = 1..(Len(s) + Len(t))
  BY <1>1, LenProperties
<1>. QED
  BY <1>1, <1>2 DEF Joined

\* What \o joins.
LEMMA OnConcat ==
  ASSUME NEW S, NEW s \in Seq(S), NEW t \in Seq(S)
  PROVE  /\ ToSet(s \o t) = ToSet(s) \cup ToSet(t)
         /\ Once(s) /\ Once(t) /\ ToSet(s) \cap ToSet(t) = {} => Once(s \o t)
<1>1. /\ s \o t \in Seq(S) /\ Len(s \o t) = Len(s) + Len(t)
      /\ \A i \in 1..(Len(s) + Len(t)) :
           (s \o t)[i] = IF i <= Len(s) THEN s[i] ELSE t[i - Len(s)]
  BY ConcatProperties
<1>2. /\ DOMAIN s = 1..Len(s) /\ Len(s) \in Nat /\ DOMAIN t = 1..Len(t) /\ Len(t) \in Nat
      /\ DOMAIN (s \o t) = 1..(Len(s) + Len(t))
  BY <1>1, LenProperties
<1>3. ToSet(s \o t) \subseteq ToSet(s) \cup ToSet(t)
  BY <1>1, <1>2 DEF ToSet
<1>4. ToSet(s) \subseteq ToSet(s \o t)
  BY <1>1, <1>2 DEF ToSet
<1>5. ASSUME NEW i \in DOMAIN t
      PROVE  t[i] \in ToSet(s \o t)
  <2>1. Len(s) + i \in DOMAIN (s \o t) /\ (s \o t)[Len(s) + i] = t[i]
    BY <1>1, <1>2
  <2>. QED
    BY <2>1 DEF ToSet
<1>6. ASSUME NEW i \in 1..(Len(s) + Len(t))
      PROVE  IF i <= Len(s) THEN i \in DOMAIN s /\ (s \o t)[i] = s[i] /\ s[i] \in ToSet(s)
             ELSE i - Len(s) \in DOMAIN t /\ (s \o t)[i] = t[i - Len(s)] /\ t[i - Len(s)] \in ToSet(t)
  <2>1. CASE i <= Len(s)
    BY <2>1, <1>1, <1>2 DEF ToSet
  <2>2. CASE ~(i <= Len(s))
    <3>1. i - Len(s) \in DOMAIN t /\ (s \o t)[i] = t[i - Len(s)]
      BY <2>2, <1>1, <1>2
    <3>. QED
      BY <2>2, <3>1 DEF ToSet
  <2>. QED
    BY <2>1, <2>2
<1>7. ASSUME Once(s), Once(t), ToSet(s) \cap ToSet(t) = {},
             NEW i \in 1..(Len(s) + Len(t)), NEW j \in 1..(Len(s) + Len(t)), (s \o t)[i] = (s \o t)[j]
      PROVE  i = j
  <2>1. CASE i <= Len(s) /\ j <= Len(s)
    BY <2>1, <1>6, <1>7 DEF Once
  <2>2. CASE ~(i <= Len(s)) /\ ~(j <= Len(s))
    <3>1. i - Len(s) \in DOMAIN t /\ j - Len(s) \in DOMAIN t /\ t[i - Len(s)] = t[j - Len(s)]
      BY <2>2, <1>6, <1>7
    <3>2. i - Len(s) = j - Len(s)
      BY <3>1, <1>7 DEF Once
    <3>. QED
      BY <3>2, <1>2
  <2>3. CASE i <= Len(s) /\ ~(j <= Len(s))
    <3>1. s[i] \in ToSet(s) /\ t[j - Len(s)] \in ToSet(t) /\ s[i] = t[j - Len(s)]
      BY <2>3, <1>6, <1>7
    <3>. QED
      BY <3>1, <1>7
  <2>4. CASE ~(i <= Len(s)) /\ j <= Len(s)
    <3>1. s[j] \in ToSet(s) /\ t[i - Len(s)] \in ToSet(t) /\ s[j] = t[i - Len(s)]
      BY <2>4, <1>6, <1>7
    <3>. QED
      BY <3>1, <1>7
  <2>. QED
    BY <2>1, <2>2, <2>3, <2>4
<1>8. ASSUME Once(s), Once(t), ToSet(s) \cap ToSet(t) = {}
      PROVE  Once(s \o t)
  BY <1>2, <1>7, <1>8 DEF Once
<1>. QED
  BY <1>3, <1>4, <1>5, <1>8 DEF ToSet
-----------------------------------------------------------------------------
(* The invariant.  It is said of values, so that it can be said of those   *)
(* between the steps of a handler: F the free TDs, C the chains, U the     *)
(* request of each TD, Q the quiet TDs, B the TDs on their way back, fe    *)
(* the free endpoints, ty their types, re the endpoint of each request, H  *)
(* the halted endpoints, fr the free requests, L the lists, cl the         *)
(* requests to call back, cr the one in the callback thread.               *)

\* TDs on their way back, the TDs of e with a request, requests with TDs, requests in lists.
TdsOf(B) == {B[i].td : i \in DOMAIN B}
Busy(C, e) == {C[e][i] : i \in 1..(Len(C[e]) - 1)}
Flown(U) == {U[t] : t \in Td} \ {None}
Listed(L) == UNION {ToSet(L[e]) : e \in Ep}

TdTypes(F, C, U, Q, B) ==
  /\ F \subseteq Td /\ C \in [Ep -> Seq(Td)] /\ U \in [Td -> Req \cup {None}]
  /\ Q \subseteq Td /\ B \in Seq(DoneRec)

EpTypes(fe, ty, re, H) ==
  fe \subseteq Ep /\ ty \in [Ep -> AllTypes] /\ re \in [Req -> Ep] /\ H \subseteq Ep

\* A TD is in one place.
Apart(F, C, B) ==
  /\ \A t \in Td : t \in F \/ t \in TdsOf(B) \/ \E e \in Ep : t \in ToSet(C[e])
  /\ F \cap TdsOf(B) = {}
  /\ \A i, j \in DOMAIN B : B[i].td = B[j].td => i = j
  /\ \A e \in Ep : ToSet(C[e]) \cap (F \cup TdsOf(B)) = {} /\ Once(C[e])
  /\ \A e, f \in Ep : e # f => ToSet(C[e]) \cap ToSet(C[f]) = {}

\* A TD that was given to the controller has a request of the endpoint it is
\* at; a free one and the tail have none.
Labelled(F, C, U, B, fe, re) ==
  /\ \A t \in F : U[t] = None
  /\ \A e \in Ep : C[e] = <<>> <=> e \in fe
  /\ \A e \in Ep \ fe : U[C[e][Len(C[e])]] = None
  /\ \A e \in Ep : \A t \in Busy(C, e) : U[t] # None /\ re[U[t]] = e
  /\ \A t \in TdsOf(B) : U[t] # None /\ re[U[t]] \notin fe

\* The TDs of a request are quiet but for the last, which is not.
LastAsks(C, U, Q, B, ty, re) ==
  /\ \A t \in Q : U[t] # None /\ ty[re[U[t]]] = "control"
  /\ \A t \in Td : U[t] # None => \E u \in Td \ Q : U[u] = U[t]
  /\ \A i, j \in DOMAIN B : i < j /\ U[B[i].td] = U[B[j].td] => B[i].td \in Q
  /\ \A e \in Ep : \A i, j \in 1..(Len(C[e]) - 1) : i < j /\ U[C[e][i]] = U[C[e][j]] => C[e][i] \in Q
  /\ \A e \in Ep : \A t \in TdsOf(B), u \in Busy(C, e) : U[t] = U[u] => t \in Q

\* A TD that failed is the last of its endpoint to be retired, unless that is isochronous.
HaltsAt(U, B, fe, ty, re, H) ==
  /\ \A e \in H : ty[e] # "iso" /\ e \notin fe
  /\ \A i \in DOMAIN B : B[i].failed /\ ty[re[U[B[i].td]]] # "iso" =>
       /\ re[U[B[i].td]] \in H
       /\ \A j \in DOMAIN B : re[U[B[j].td]] = re[U[B[i].td]] => j <= i

TdsSound(F, C, U, Q, B, fe, ty, re, H) ==
  /\ TdTypes(F, C, U, Q, B) /\ EpTypes(fe, ty, re, H)
  /\ Apart(F, C, B) /\ Labelled(F, C, U, B, fe, re)
  /\ LastAsks(C, U, Q, B, ty, re) /\ HaltsAt(U, B, fe, ty, re, H)

\* A request is in one place.
ReqsSound(fr, L, U, cl, cr, re) ==
  /\ fr \subseteq Req /\ L \in [Ep -> Seq(Req)] /\ cl \in Seq(Req) /\ cr \in Req \cup {None}
  /\ U \in [Td -> Req \cup {None}] /\ re \in [Req -> Ep]
  /\ Req = fr \cup Listed(L) \cup Flown(U) \cup ToSet(cl) \cup ({cr} \ {None})
  /\ fr \cap (Listed(L) \cup Flown(U) \cup ToSet(cl) \cup {cr}) = {}
  /\ Listed(L) \cap (Flown(U) \cup ToSet(cl) \cup {cr}) = {}
  /\ Flown(U) \cap (ToSet(cl) \cup {cr}) = {} /\ cr \notin ToSet(cl)
  /\ Once(cl) /\ \A e \in Ep : Once(L[e]) /\ \A r \in ToSet(L[e]) : re[r] = e

\* A request that is not free belongs to one transfer, which was accepted.
Owned(fr, ow, pc, cr, cx, S) ==
  /\ ow \in [Req -> Xfer \cup {None}] /\ cx \in Xfer \cup {None}
  /\ \A r \in Req : ow[r] = None <=> r \in fr
  /\ \A r, s \in Req : ow[r] # None /\ ow[r] = ow[s] => r = s
  /\ S = ({ow[r] : r \in Req} \cup (IF pc = "call" THEN {cx} ELSE {})) \ {None}
  /\ pc = "call" => cx # None /\ \A r \in Req : ow[r] # cx
  /\ IF pc = "free" THEN cr \in Req \ fr /\ cx = ow[cr] ELSE cr = None

\* The rest of the types.
RestTypes ==
  /\ open \subseteq Ep \ freeEp /\ waiting \in [Queues -> Seq(Ep)]
  /\ retired \in Seq(DoneRec) /\ written \in Seq(DoneRec) /\ done \in Seq(DoneRec)
  /\ data \subseteq Req /\ cbEvent \in BOOLEAN /\ cbPc \in {"wait", "loop", "free", "call"}
  /\ sent \in [Ep -> SUBSET Xfer] /\ earlier \in [Xfer -> SUBSET Xfer]

Inv ==
  /\ RestTypes
  /\ TdsSound(freeTd, chain, lut, quiet, Back, freeEp, type, reqEp, halted)
  /\ ReqsSound(freeReq, list, lut, cbList, cbReq, reqEp)
  /\ Owned(freeReq, owner, cbPc, cbReq, cbXfer, Sent)
-----------------------------------------------------------------------------
(* The controller retires a TD.                                            *)

\* The first TD of e moves to the end of B; e is halted when it failed.
LEMMA RetireSound ==
  ASSUME NEW F, NEW C, NEW U, NEW Q, NEW B, NEW fe, NEW ty, NEW re, NEW H,
         TdsSound(F, C, U, Q, B, fe, ty, re, H),
         NEW e \in Ep, Len(C[e]) > 1, e \notin H, NEW fl \in BOOLEAN,
         NEW d, d = [td |-> Head(C[e]), failed |-> fl],
         NEW H2, H2 = IF fl /\ ty[e] # "iso" THEN H \cup {e} ELSE H
  PROVE  TdsSound(F, [C EXCEPT ![e] = Tail(C[e])], U, Q, Append(B, d), fe, ty, re, H2)
<1> DEFINE C2 == [C EXCEPT ![e] = Tail(C[e])]
           B2 == Append(B, d)
           h == C[e][1]
<1>1. TdTypes(F, C, U, Q, B) /\ EpTypes(fe, ty, re, H)
  BY DEF TdsSound
<1>2. C[e] \in Seq(Td) /\ C[e] # <<>> /\ Len(C[e]) \in Nat /\ DOMAIN C[e] = 1..Len(C[e]) /\ Head(C[e]) = h
  BY <1>1, LenProperties, EmptySeq DEF TdTypes
<1>3. /\ Tail(C[e]) \in Seq(Td) /\ Len(Tail(C[e])) = Len(C[e]) - 1
      /\ DOMAIN Tail(C[e]) = 1..(Len(C[e]) - 1)
      /\ \A i \in 1..(Len(C[e]) - 1) : Tail(C[e])[i] = C[e][i + 1]
      /\ h \in Td
  BY <1>2, HeadTailProperties, LenProperties
<1>4. /\ C2 \in [Ep -> Seq(Td)] /\ C2[e] = Tail(C[e])
      /\ \A f \in Ep \ {e} : C2[f] = C[f]
  BY <1>1, <1>3 DEF TdTypes
<1>5. d \in DoneRec /\ d.td = h /\ d.failed = fl
  BY <1>2, <1>3 DEF DoneRec
<1>6. B \in Seq(DoneRec) /\ Len(B) \in Nat /\ DOMAIN B = 1..Len(B) /\ \A i \in DOMAIN B : B[i] \in DoneRec
  BY <1>1, LenProperties, ElementOfSeq DEF TdTypes
<1>7. /\ B2 \in Seq(DoneRec) /\ DOMAIN B2 = 1..(Len(B) + 1)
      /\ \A i \in 1..Len(B) : B2[i] = B[i]
      /\ B2[Len(B) + 1] = d
  BY <1>5, <1>6, AppendProperties, LenProperties
<1>8. TdsOf(B2) = TdsOf(B) \cup {h}
  <2>1. TdsOf(B2) \subseteq TdsOf(B) \cup {h}
    BY <1>5, <1>6, <1>7 DEF TdsOf
  <2>2. TdsOf(B) \subseteq TdsOf(B2)
    BY <1>6, <1>7 DEF TdsOf
  <2>3. h \in TdsOf(B2)
    <3>1. Len(B) + 1 \in DOMAIN B2 /\ B2[Len(B) + 1].td = h
      BY <1>5, <1>6, <1>7
    <3>. QED
      BY <3>1 DEF TdsOf
  <2>. QED
    BY <2>1, <2>2, <2>3
<1>9. Apart(F, C, B) /\ Labelled(F, C, U, B, fe, re) /\ LastAsks(C, U, Q, B, ty, re) /\ HaltsAt(U, B, fe, ty, re, H)
  BY DEF TdsSound
<1>10. Once(C[e]) /\ \A f \in Ep : ToSet(C[f]) \cap (F \cup TdsOf(B)) = {}
  BY <1>9 DEF Apart
<1>11. ToSet(C[e]) = ToSet(C2[e]) \cup {h} /\ h \notin ToSet(C2[e]) /\ Once(C2[e])
  BY <1>2, <1>4, <1>10, OnTail
<1>12. h \in Busy(C, e) /\ U[h] # None /\ U[h] \in Req /\ re[U[h]] = e /\ e \notin fe
  <2>1. h \in Busy(C, e)
    BY <1>2 DEF Busy
  <2>2. U[h] # None /\ re[U[h]] = e /\ e \notin fe
    BY <1>2, <1>9, <2>1 DEF Labelled
  <2>3. U[h] \in Req \cup {None}
    BY <1>1, <1>3 DEF TdTypes
  <2>. QED
    BY <2>1, <2>2, <2>3
<1>13. \A f \in Ep : Busy(C2, f) \subseteq Busy(C, f)
  <2>1. Busy(C2, e) \subseteq Busy(C, e)
    <3>1. SUFFICES ASSUME NEW i \in 1..(Len(C[e]) - 2) PROVE C2[e][i] \in Busy(C, e)
      BY <1>2, <1>3, <1>4 DEF Busy
    <3>2. i + 1 \in 1..(Len(C[e]) - 1) /\ C2[e][i] = C[e][i + 1]
      BY <1>2, <1>3, <1>4
    <3>. QED
      BY <3>2 DEF Busy
  <2>. QED
    BY <2>1, <1>4 DEF Busy
<1> HIDE DEF C2, B2, h
<1>14. TdTypes(F, C2, U, Q, B2) /\ EpTypes(fe, ty, re, H2)
  BY <1>1, <1>4, <1>7 DEF TdTypes, EpTypes
<1>15. Apart(F, C2, B2)
  <2>1. ASSUME NEW t \in Td PROVE t \in F \/ t \in TdsOf(B2) \/ \E f \in Ep : t \in ToSet(C2[f])
    <3>1. t \in F \/ t \in TdsOf(B) \/ \E f \in Ep : t \in ToSet(C[f])
      BY <1>9 DEF Apart
    <3>2. ASSUME NEW f \in Ep, t \in ToSet(C[f]) PROVE t = h \/ t \in ToSet(C2[f])
      <4>1. CASE f = e
        BY <3>2, <4>1, <1>11
      <4>2. CASE f # e
        BY <3>2, <4>2, <1>4
      <4>. QED
        BY <4>1, <4>2
    <3>. QED
      BY <3>1, <3>2, <1>8
  <2>2. F \cap TdsOf(B2) = {}
    BY <1>8, <1>9, <1>10, <1>11 DEF Apart
  <2>3. \A i, j \in DOMAIN B2 : B2[i].td = B2[j].td => i = j
    <3>1. \A i \in DOMAIN B : B[i].td # h
      BY <1>10, <1>11, SMTT(30) DEF TdsOf
    <3>. QED
      BY <3>1, <1>5, <1>6, <1>7, <1>9 DEF Apart
  <2>4. ASSUME NEW f \in Ep PROVE ToSet(C2[f]) \cap (F \cup TdsOf(B2)) = {} /\ Once(C2[f])
    <3>1. ToSet(C[f]) \cap (F \cup TdsOf(B)) = {} /\ Once(C[f])
      BY <1>9 DEF Apart
    <3>2. CASE f = e
      BY <3>1, <3>2, <1>8, <1>11
    <3>3. CASE f # e
      <4>1. C2[f] = C[f] /\ h \notin ToSet(C[f])
        BY <3>3, <1>4, <1>9, <1>11 DEF Apart
      <4>. QED
        BY <3>1, <4>1, <1>8
    <3>. QED
      BY <3>2, <3>3
  <2>5. \A f, g \in Ep : f # g => ToSet(C2[f]) \cap ToSet(C2[g]) = {}
    BY <1>4, <1>9, <1>11, ZenonT(30) DEF Apart
  <2>. QED
    BY <2>1, <2>2, <2>3, <2>4, <2>5 DEF Apart
<1>16. Labelled(F, C2, U, B2, fe, re)
  <2>1. \A f \in Ep : C2[f] = <<>> <=> f \in fe
    <3>1. C2[e] # <<>>
      BY <1>2, <1>3, <1>4, EmptySeq
    <3>2. \A f \in Ep : C[f] = <<>> <=> f \in fe
      BY <1>9 DEF Labelled
    <3>3. ASSUME NEW f \in Ep PROVE C2[f] = <<>> <=> f \in fe
      <4>1. CASE f = e
        BY <3>1, <4>1, <1>12
      <4>2. CASE f # e
        BY <3>2, <4>2, <1>4
      <4>. QED
        BY <4>1, <4>2
    <3>. QED
      BY <3>3
  <2>2. ASSUME NEW f \in Ep \ fe PROVE U[C2[f][Len(C2[f])]] = None
    <3>1. C2[e][Len(C2[e])] = C[e][Len(C[e])]
      BY <1>2, <1>3, <1>4
    <3>2. U[C[f][Len(C[f])]] = None
      BY <1>9 DEF Labelled
    <3>3. CASE f = e
      BY <3>1, <3>2, <3>3
    <3>4. CASE f # e
      BY <3>2, <3>4, <1>4
    <3>. QED
      BY <3>3, <3>4
  <2>3. \A f \in Ep : \A t \in Busy(C2, f) : U[t] # None /\ re[U[t]] = f
    BY <1>9, <1>13 DEF Labelled
  <2>4. \A t \in TdsOf(B2) : U[t] # None /\ re[U[t]] \notin fe
    BY <1>8, <1>9, <1>12 DEF Labelled
  <2>. QED
    BY <2>1, <2>2, <2>3, <2>4, <1>9 DEF Labelled
<1>17. LastAsks(C2, U, Q, B2, ty, re)
  <2>1. ASSUME NEW i \in DOMAIN B2, NEW j \in DOMAIN B2, i < j, U[B2[i].td] = U[B2[j].td]
        PROVE  B2[i].td \in Q
    <3>1. i \in 1..Len(B) /\ B2[i] = B[i]
      BY <2>1, <1>6, <1>7
    <3>2. CASE j \in 1..Len(B)
      BY <2>1, <3>1, <3>2, <1>6, <1>7, <1>9 DEF LastAsks
    <3>3. CASE j = Len(B) + 1
      <4>1. B[i].td \in TdsOf(B) /\ U[B[i].td] = U[h]
        BY <2>1, <3>1, <3>3, <1>5, <1>6, <1>7 DEF TdsOf
      <4>. QED
        BY <4>1, <3>1, <1>9, <1>12 DEF LastAsks
    <3>. QED
      BY <3>2, <3>3, <1>6, <1>7
  <2>2. ASSUME NEW f \in Ep, NEW i \in 1..(Len(C2[f]) - 1), NEW j \in 1..(Len(C2[f]) - 1), i < j, U[C2[f][i]] = U[C2[f][j]]
        PROVE  C2[f][i] \in Q
    <3>1. CASE f = e
      <4>1. /\ i + 1 \in 1..(Len(C[e]) - 1) /\ j + 1 \in 1..(Len(C[e]) - 1) /\ i + 1 < j + 1
            /\ C2[e][i] = C[e][i + 1] /\ C2[e][j] = C[e][j + 1]
        BY <2>2, <3>1, <1>2, <1>3, <1>4, SMTT(30)
      <4>. QED
        BY <2>2, <3>1, <4>1, <1>9, ZenonT(30) DEF LastAsks
    <3>2. CASE f # e
      BY <2>2, <3>2, <1>4, <1>9 DEF LastAsks
    <3>. QED
      BY <3>1, <3>2
  <2>3. ASSUME NEW f \in Ep, NEW t \in TdsOf(B2), NEW u \in Busy(C2, f), U[t] = U[u]
        PROVE  t \in Q
    <3>1. CASE t \in TdsOf(B)
      BY <2>3, <3>1, <1>9, <1>13 DEF LastAsks
    <3>2. CASE t = h
      <4>1. f = e
        BY <2>3, <3>2, <1>9, <1>12, <1>13 DEF Labelled
      <4>0. PICK i \in 1..(Len(C2[e]) - 1) : u = C2[e][i]
        BY <4>1, <2>3 DEF Busy
      <4>2. i \in 1..(Len(C[e]) - 2) /\ u = C[e][i + 1]
        BY <4>0, <1>2, <1>3, <1>4
      <4>3. 1 \in 1..(Len(C[e]) - 1) /\ i + 1 \in 1..(Len(C[e]) - 1) /\ 1 < i + 1 /\ h = C[e][1]
        BY <1>2, <4>2 DEF h
      <4>. QED
        BY <2>3, <3>2, <4>2, <4>3, <1>9 DEF LastAsks
    <3>. QED
      BY <3>1, <3>2, <1>8
  <2>. QED
    BY <2>1, <2>2, <2>3, <1>9 DEF LastAsks
<1>18. HaltsAt(U, B2, fe, ty, re, H2)
  <2>1. \A f \in H2 : ty[f] # "iso" /\ f \notin fe
    BY <1>9, <1>12 DEF HaltsAt
  <2>2. ASSUME NEW i \in DOMAIN B2, B2[i].failed, ty[re[U[B2[i].td]]] # "iso"
        PROVE  /\ re[U[B2[i].td]] \in H2
               /\ \A j \in DOMAIN B2 : re[U[B2[j].td]] = re[U[B2[i].td]] => j <= i
    <3>1. CASE i = Len(B) + 1
      BY <2>2, <3>1, <1>5, <1>6, <1>7, <1>12
    <3>2. CASE i \in 1..Len(B)
      <4>1. /\ B2[i] = B[i] /\ re[U[B[i].td]] \in H
            /\ \A j \in DOMAIN B : re[U[B[j].td]] = re[U[B[i].td]] => j <= i
        BY <2>2, <3>2, <1>6, <1>7, <1>9 DEF HaltsAt
      <4>2. re[U[B2[Len(B) + 1].td]] # re[U[B[i].td]]
        BY <4>1, <1>5, <1>7, <1>12
      <4>3. re[U[B2[i].td]] \in H2
        BY <4>1
      <4>4. ASSUME NEW j \in DOMAIN B2, re[U[B2[j].td]] = re[U[B2[i].td]]
            PROVE  j <= i
        <5>1. j # Len(B) + 1
          BY <4>1, <4>2, <4>4
        <5>2. j \in DOMAIN B /\ B2[j] = B[j]
          BY <5>1, <1>6, <1>7
        <5>. QED
          BY <4>1, <4>4, <5>2
      <4>. QED
        BY <4>3, <4>4
    <3>. QED
      BY <3>1, <3>2, <1>6, <1>7
  <2>. QED
    BY <2>1, <2>2 DEF HaltsAt
<1>. QED
  BY <1>14, <1>15, <1>16, <1>17, <1>18 DEF TdsSound, C2, B2
-----------------------------------------------------------------------------
(* The driver is told of a TD.                                             *)

\* The tail alone.
LEMMA NoneBusy ==
  ASSUME NEW C, NEW e, Len(C[e]) = 1
  PROVE  Busy(C, e) = {}
<1>1. ASSUME NEW x \in Busy(C, e) PROVE FALSE
  <2>1. PICK i \in 1..(Len(C[e]) - 1) : x = C[e][i]
    BY DEF Busy
  <2>2. i \in Int /\ 1 <= i /\ i <= 1 - 1
    BY <2>1
  <2>. QED
    BY <2>2
<1>. QED
  BY <1>1

\* Whether the TDs of the endpoint are taken back, those TDs, and the requests that end.
Aborts(B, H, U, re) == Head(B).failed /\ re[U[Head(B).td]] \in H
TakenBack(B, H, C, U, re) ==
  (IF Aborts(B, H, U, re) THEN Busy(C, re[U[Head(B).td]]) ELSE {}) \cup {Head(B).td}
EndedBy(B, H, C, U, Q, re) ==
  (IF Head(B).failed \/ Head(B).td \notin Q THEN {U[Head(B).td]} ELSE {})
  \cup (IF Aborts(B, H, U, re) THEN {U[t] : t \in Busy(C, re[U[Head(B).td]])} ELSE {})

\* The TDs and the requests of TDs that are at an endpoint.
LEMMA WhereTdsAre ==
  ASSUME NEW F, NEW C, NEW U, NEW Q, NEW B, NEW fe, NEW ty, NEW re, NEW H,
         TdsSound(F, C, U, Q, B, fe, ty, re, H)
  PROVE  /\ \A e \in Ep \ fe :
              /\ C[e] \in Seq(Td) /\ Len(C[e]) \in Nat \ {0} /\ DOMAIN C[e] = 1..Len(C[e])
              /\ C[e][Len(C[e])] \in ToSet(C[e])
              /\ ToSet(C[e]) = Busy(C, e) \cup {C[e][Len(C[e])]}
              /\ C[e][Len(C[e])] \notin Busy(C, e)
         /\ \A e \in Ep : Busy(C, e) \subseteq ToSet(C[e]) /\ ToSet(C[e]) \subseteq Td
         /\ \A e \in fe : ToSet(C[e]) = {} /\ Busy(C, e) = {}
         /\ TdsOf(B) \subseteq Td
         /\ \A t \in Td : U[t] # None =>
              /\ U[t] \in Req /\ t \notin F
              /\ t \in TdsOf(B) \/ t \in Busy(C, re[U[t]])
<1>1. /\ TdTypes(F, C, U, Q, B) /\ EpTypes(fe, ty, re, H) /\ Apart(F, C, B) /\ Labelled(F, C, U, B, fe, re)
  BY DEF TdsSound
<1>2. ASSUME NEW e \in Ep
      PROVE  C[e] \in Seq(Td) /\ Len(C[e]) \in Nat /\ DOMAIN C[e] = 1..Len(C[e]) /\ \A i \in 1..Len(C[e]) : C[e][i] \in Td
  BY <1>1, LenProperties, ElementOfSeq DEF TdTypes
<1>3. ASSUME NEW e \in Ep
      PROVE  Busy(C, e) \subseteq ToSet(C[e]) /\ ToSet(C[e]) \subseteq Td
  BY <1>2 DEF Busy, ToSet
<1>4. ASSUME NEW e \in Ep \ fe
      PROVE  /\ Len(C[e]) # 0 /\ C[e][Len(C[e])] \in ToSet(C[e])
             /\ ToSet(C[e]) = Busy(C, e) \cup {C[e][Len(C[e])]}
             /\ C[e][Len(C[e])] \notin Busy(C, e)
  <2>1. C[e] # <<>> /\ Len(C[e]) # 0
    BY <1>1, <1>2, EmptySeq DEF Labelled
  <2>2. Len(C[e]) \in DOMAIN C[e]
    BY <1>2, <2>1
  <2>3. ToSet(C[e]) \subseteq Busy(C, e) \cup {C[e][Len(C[e])]}
    BY <1>2 DEF Busy, ToSet
  <2>4. Once(C[e])
    BY <1>1 DEF Apart
  <2>5. C[e][Len(C[e])] \notin Busy(C, e)
    BY <1>2, <2>2, <2>4 DEF Busy, Once
  <2>. QED
    BY <1>3, <2>1, <2>2, <2>3, <2>5 DEF ToSet
<1>5. ASSUME NEW e \in fe PROVE ToSet(C[e]) = {} /\ Busy(C, e) = {}
  <2>1. e \in Ep /\ C[e] = <<>>
    BY <1>1 DEF Labelled, EpTypes
  <2>2. Len(C[e]) = 0
    BY <2>1, EmptySeq
  <2>. QED
    BY <1>2, <1>3, <2>1, <2>2 DEF ToSet
<1>6. TdsOf(B) \subseteq Td
  <2>1. B \in Seq(DoneRec) /\ DOMAIN B = 1..Len(B)
    BY <1>1, LenProperties DEF TdTypes
  <2>2. \A i \in DOMAIN B : B[i] \in DoneRec
    BY <2>1, ElementOfSeq
  <2>. QED
    BY <2>2 DEF TdsOf, DoneRec
<1>7. ASSUME NEW t \in Td, U[t] # None
      PROVE  /\ U[t] \in Req /\ t \notin F
             /\ t \in TdsOf(B) \/ t \in Busy(C, re[U[t]])
  <2>1. U[t] \in Req /\ t \notin F
    BY <1>1, <1>7 DEF TdTypes, Labelled
  <2>2. t \in TdsOf(B) \/ \E e \in Ep : t \in ToSet(C[e])
    BY <2>1, <1>1 DEF Apart
  <2>3. ASSUME NEW e \in Ep, t \in ToSet(C[e]) PROVE t \in Busy(C, re[U[t]])
    <3>1. e \notin fe
      BY <2>3, <1>5
    <3>2. t \in Busy(C, e)
      BY <2>3, <3>1, <1>1, <1>4, <1>7 DEF Labelled
    <3>. QED
      BY <3>2, <1>1 DEF Labelled
  <2>. QED
    BY <2>1, <2>2, <2>3
<1>. QED
  BY <1>2, <1>3, <1>4, <1>5, <1>6, <1>7

\* A request ends with its last TD, or with all it has when it fails.
LEMMA EndedSound ==
  ASSUME NEW F, NEW C, NEW U, NEW Q, NEW B, NEW fe, NEW ty, NEW re, NEW H,
         TdsSound(F, C, U, Q, B, fe, ty, re, H), B # <<>>
  PROVE  /\ TdsOf(B) = TdsOf(Tail(B)) \cup {Head(B).td} /\ Head(B).td \notin TdsOf(Tail(B))
         /\ Aborts(B, H, U, re) => \A t \in TdsOf(Tail(B)) : re[U[t]] # re[U[Head(B).td]]
         /\ TakenBack(B, H, C, U, re) \subseteq Td
         /\ TakenBack(B, H, C, U, re) \cap TdsOf(Tail(B)) = {}
         /\ EndedBy(B, H, C, U, Q, re) \subseteq Req
         /\ \A t \in TakenBack(B, H, C, U, re) :
              U[t] # None /\ re[U[t]] = re[U[Head(B).td]]
         /\ \A t \in Td : U[t] \in EndedBy(B, H, C, U, Q, re) => t \in TakenBack(B, H, C, U, re)
         /\ \A t \in TakenBack(B, H, C, U, re) :
              U[t] \in EndedBy(B, H, C, U, Q, re) \/ (t \in Q /\ t = Head(B).td)
         /\ EndedBy(B, H, C, U, Q, re) \subseteq {U[t] : t \in TakenBack(B, H, C, U, re)}
<1> DEFINE d == Head(B)
           b == d.td
           e == re[U[b]]
           B1 == Tail(B)
           back == TakenBack(B, H, C, U, re)
           ends == EndedBy(B, H, C, U, Q, re)
           abort == Aborts(B, H, U, re)
<1>1. /\ TdTypes(F, C, U, Q, B) /\ EpTypes(fe, ty, re, H) /\ Apart(F, C, B) /\ Labelled(F, C, U, B, fe, re)
      /\ LastAsks(C, U, Q, B, ty, re) /\ HaltsAt(U, B, fe, ty, re, H)
  BY DEF TdsSound
<1>2. B \in Seq(DoneRec) /\ DOMAIN B = 1..Len(B) /\ Len(B) \in Nat \ {0} /\ d = B[1]
  BY <1>1, LenProperties, EmptySeq DEF TdTypes
<1>3. /\ B1 \in Seq(DoneRec) /\ DOMAIN B1 = 1..(Len(B) - 1)
      /\ \A i \in 1..(Len(B) - 1) : B1[i] = B[i + 1]
  BY <1>2, HeadTailProperties, LenProperties
<1>4. b \in TdsOf(B) /\ b \in Td /\ U[b] # None /\ U[b] \in Req /\ e \in Ep \ fe
  <2>1. 1 \in DOMAIN B /\ B[1].td = b
    BY <1>2
  <2>2. b \in TdsOf(B)
    BY <2>1 DEF TdsOf
  <2>3. b \in Td
    BY <2>2, WhereTdsAre
  <2>. QED
    BY <2>2, <2>3, <1>1 DEF Labelled, TdTypes, EpTypes
<1>5. TdsOf(B) = TdsOf(B1) \cup {b} /\ b \notin TdsOf(B1)
  <2>1. ASSUME NEW i \in DOMAIN B PROVE B[i].td \in TdsOf(B1) \cup {b}
    <3>1. CASE i = 1
      BY <3>1, <1>2
    <3>2. CASE i # 1
      <4>1. i - 1 \in DOMAIN B1 /\ B1[i - 1] = B[i]
        BY <3>2, <1>2, <1>3
      <4>. QED
        BY <4>1 DEF TdsOf
    <3>. QED
      BY <3>1, <3>2
  <2>2. ASSUME NEW i \in DOMAIN B1 PROVE B1[i].td \in TdsOf(B) /\ B1[i].td # b
    <3>1. i + 1 \in DOMAIN B /\ 1 \in DOMAIN B /\ B1[i] = B[i + 1] /\ i + 1 # 1
      BY <1>2, <1>3
    <3>2. B[i + 1].td # B[1].td
      BY <3>1, <1>1 DEF Apart
    <3>. QED
      BY <3>1, <3>2, <1>2 DEF TdsOf
  <2>. QED
    BY <2>1, <2>2, <1>4 DEF TdsOf
<1>6. ASSUME NEW t \in TdsOf(B1)
      PROVE  t \in TdsOf(B) /\ (U[t] = U[b] => b \in Q) /\ (d.failed /\ ty[e] # "iso" => re[U[t]] # e)
  <2>1. PICK i \in DOMAIN B1 : t = B1[i].td
    BY DEF TdsOf
  <2>2. i + 1 \in DOMAIN B /\ 1 \in DOMAIN B /\ 1 < i + 1 /\ ~(i + 1 <= 1) /\ t = B[i + 1].td
    BY <2>1, <1>2, <1>3
  <2>3. U[t] = U[b] => b \in Q
    BY <2>2, <1>1, <1>2 DEF LastAsks
  <2>4. d.failed /\ ty[e] # "iso" => re[U[t]] # e
    BY <2>2, <1>1, <1>2 DEF HaltsAt
  <2>. QED
    BY <2>3, <2>4, <1>5
<1>7. d.failed /\ ty[e] # "iso" => e \in H
  <2>1. 1 \in DOMAIN B
    BY <1>2
  <2>. QED
    BY <2>1, <1>1, <1>2 DEF HaltsAt
<1>8. /\ abort <=> d.failed /\ e \in H
      /\ back = (IF abort THEN Busy(C, e) ELSE {}) \cup {b}
      /\ ends = (IF d.failed \/ b \notin Q THEN {U[b]} ELSE {}) \cup (IF abort THEN {U[t] : t \in Busy(C, e)} ELSE {})
      /\ abort => \A t \in Busy(C, e) : U[t] \in ends
  BY DEF Aborts, TakenBack, EndedBy
<1>9. Busy(C, e) \subseteq Td /\ Busy(C, e) \cap TdsOf(B) = {}
  <2>1. Busy(C, e) \subseteq ToSet(C[e]) /\ ToSet(C[e]) \subseteq Td
    BY <1>4, WhereTdsAre
  <2>. QED
    BY <2>1, <1>1, <1>4 DEF Apart
<1>10. abort => ty[e] # "iso"
  BY <1>1, <1>8 DEF HaltsAt
<1>11. \A t \in Busy(C, e) : U[t] # None /\ U[t] \in Req /\ re[U[t]] = e
  BY <1>1, <1>4, <1>9 DEF Labelled, TdTypes
<1>12. ASSUME NEW t \in Td, U[t] # None
       PROVE  U[t] \in Req /\ (t \in TdsOf(B1) \/ t = b \/ t \in Busy(C, re[U[t]]))
  BY <1>5, <1>12, WhereTdsAre
<1>13. d.failed /\ b \in Q => abort
  BY <1>1, <1>7, <1>8 DEF LastAsks
<1> HIDE DEF d, b, e, B1, back, ends, abort
<1>14. ASSUME NEW t \in Td, U[t] \in ends PROVE t \in back
  <2>1. U[t] # None /\ re[U[t]] = e
    BY <1>4, <1>8, <1>11, <1>14 DEF e
  <2>2. t \in TdsOf(B1) \/ t = b \/ t \in Busy(C, e)
    BY <2>1, <1>12
  <2>3. CASE abort
    BY <2>1, <2>2, <2>3, <1>6, <1>8, <1>10
  <2>4. CASE ~abort
    <3>1. U[t] = U[b] /\ (d.failed \/ b \notin Q)
      BY <2>4, <1>8, <1>14
    <3>2. b \notin Q
      BY <3>1, <2>4, <1>13
    <3>3. t \notin TdsOf(B1)
      BY <3>1, <3>2, <1>6
    <3>4. t \notin Busy(C, e)
      BY <3>1, <3>2, <1>1, <1>4 DEF LastAsks
    <3>. QED
      BY <2>2, <3>3, <3>4, <1>8
  <2>. QED
    BY <2>3, <2>4
<1>15. abort => \A t \in TdsOf(B1) : re[U[t]] # e
  BY <1>6, <1>8, <1>10
<1>16. back \subseteq Td /\ back \cap TdsOf(B1) = {}
  BY <1>4, <1>5, <1>8, <1>9
<1>17. ends \subseteq Req /\ ends \subseteq {U[t] : t \in back}
  BY <1>4, <1>8, <1>11
<1>18. \A t \in back : U[t] # None /\ re[U[t]] = e
  BY <1>4, <1>8, <1>11 DEF e
<1>19. ASSUME NEW t \in back PROVE U[t] \in ends \/ (t \in Q /\ t = b)
  <2>1. CASE t = b
    BY <2>1, <1>8
  <2>2. CASE abort /\ t \in Busy(C, e)
    BY <2>2, <1>8
  <2>. QED
    BY <2>1, <2>2, <1>8
<1>. QED
  BY <1>5, <1>14, <1>15, <1>16, <1>17, <1>18, <1>19 DEF d, b, e, B1, back, ends, abort

\* The requests X have no TDs any more.
LosesTds(U, U2, X) ==
  X \subseteq Flown(U) /\ U2 \in [Td -> Req \cup {None}] /\ Flown(U2) = Flown(U) \ X

\* The interrupt thread takes back those TDs, and those requests end.
CanProcess(F, C, U, Q, B, fe, ty, re, H, back, ends, C1, U1, H1) ==
  LET e == re[U[Head(B).td]]
      abort == Aborts(B, H, U, re)
  IN /\ TdsSound(F, C, U, Q, B, fe, ty, re, H) /\ B # <<>>
     /\ back = TakenBack(B, H, C, U, re) /\ ends = EndedBy(B, H, C, U, Q, re)
     /\ C1 = IF abort THEN [C EXCEPT ![e] = <<C[e][Len(C[e])]>>] ELSE C
     /\ H1 = IF abort THEN H \ {e} ELSE H
     /\ U1 = [t \in Td |-> IF t \in back THEN None ELSE U[t]]

\* What it takes back becomes free.
LEMMA ProcessSound ==
  ASSUME NEW F, NEW C, NEW U, NEW Q, NEW B, NEW fe, NEW ty, NEW re, NEW H,
         NEW back, NEW ends, NEW C1, NEW U1, NEW H1,
         CanProcess(F, C, U, Q, B, fe, ty, re, H, back, ends, C1, U1, H1)
  PROVE  /\ TdsSound(F \cup back, C1, U1, Q \ back, Tail(B), fe, ty, re, H1)
         /\ LosesTds(U, U1, ends)
<1> DEFINE d == Head(B)
           b == d.td
           e == re[U[b]]
           B1 == Tail(B)
           abort == Aborts(B, H, U, re)
           F1 == F \cup back
           Q1 == Q \ back
<1>0. /\ TdsSound(F, C, U, Q, B, fe, ty, re, H) /\ B # <<>>
      /\ back = TakenBack(B, H, C, U, re) /\ ends = EndedBy(B, H, C, U, Q, re)
      /\ C1 = IF abort THEN [C EXCEPT ![e] = <<C[e][Len(C[e])]>>] ELSE C
      /\ H1 = IF abort THEN H \ {e} ELSE H
      /\ U1 = [t \in Td |-> IF t \in back THEN None ELSE U[t]]
  BY DEF CanProcess
<1>1. /\ TdTypes(F, C, U, Q, B) /\ EpTypes(fe, ty, re, H) /\ Apart(F, C, B) /\ Labelled(F, C, U, B, fe, re)
      /\ LastAsks(C, U, Q, B, ty, re) /\ HaltsAt(U, B, fe, ty, re, H)
  BY <1>0 DEF TdsSound
<1>2. B \in Seq(DoneRec) /\ DOMAIN B = 1..Len(B) /\ Len(B) \in Nat \ {0} /\ d = B[1]
  <2>1. B # <<>> /\ B \in Seq(DoneRec)
    BY <1>0, <1>1 DEF TdTypes
  <2>. QED
    BY <2>1, LenProperties, EmptySeq
<1>3. /\ B1 \in Seq(DoneRec) /\ DOMAIN B1 = 1..(Len(B) - 1)
      /\ \A i \in 1..(Len(B) - 1) : B1[i] = B[i + 1]
  BY <1>0, <1>2, HeadTailProperties, LenProperties
<1>4. /\ TdsOf(B) = TdsOf(B1) \cup {b} /\ b \notin TdsOf(B1)
      /\ abort => \A t \in TdsOf(B1) : re[U[t]] # e
      /\ back \subseteq Td /\ back \cap TdsOf(B1) = {}
      /\ ends \subseteq Req
      /\ \A t \in back : U[t] # None /\ re[U[t]] = e
      /\ \A t \in Td : U[t] \in ends => t \in back
      /\ \A t \in back : U[t] \in ends \/ (t \in Q /\ t = b)
      /\ ends \subseteq {U[t] : t \in back}
  <2>1. TdsSound(F, C, U, Q, B, fe, ty, re, H) /\ B # <<>>
    BY <1>0
  <2>2. back = TakenBack(B, H, C, U, re) /\ ends = EndedBy(B, H, C, U, Q, re)
    BY <1>0
  <2>. QED
    BY <2>1, <2>2, EndedSound
<1>5. /\ back = (IF abort THEN Busy(C, e) ELSE {}) \cup {b}
      /\ abort => e \in H
      /\ d.failed \/ b \notin Q => U[b] \in ends
      /\ d.failed => U[b] \in ends
  BY <1>0 DEF Aborts, TakenBack, EndedBy
<1>6. /\ C1 = IF abort THEN [C EXCEPT ![e] = <<C[e][Len(C[e])]>>] ELSE C
      /\ H1 = IF abort THEN H \ {e} ELSE H
      /\ U1 = [t \in Td |-> IF t \in back THEN None ELSE U[t]]
  BY <1>0
<1>7. /\ \A f \in Ep \ fe :
           /\ C[f] \in Seq(Td) /\ Len(C[f]) \in Nat \ {0}
           /\ C[f][Len(C[f])] \in ToSet(C[f])
           /\ ToSet(C[f]) = Busy(C, f) \cup {C[f][Len(C[f])]}
           /\ C[f][Len(C[f])] \notin Busy(C, f)
      /\ \A f \in Ep : Busy(C, f) \subseteq ToSet(C[f]) /\ ToSet(C[f]) \subseteq Td
      /\ TdsOf(B) \subseteq Td
  <2>1. TdsSound(F, C, U, Q, B, fe, ty, re, H)
    BY <1>0
  <2>. QED
    BY <2>1, WhereTdsAre
<1>8. b \in TdsOf(B) /\ b \in Td /\ e \in Ep \ fe /\ U[b] \in Req
  BY <1>1, <1>4, <1>7 DEF Labelled, EpTypes, TdTypes
<1> HIDE DEF d, b, e, B1, abort
<1>9. ASSUME abort
      PROVE  /\ C1 \in [Ep -> Seq(Td)] /\ C1[e] = <<C[e][Len(C[e])]>> /\ Len(C1[e]) = 1
             /\ ToSet(C1[e]) = {C[e][Len(C[e])]} /\ Busy(C1, e) = {} /\ Once(C1[e])
             /\ C1[e][1] = C[e][Len(C[e])] /\ C1[e] # <<>>
             /\ \A f \in Ep \ {e} : C1[f] = C[f]
  <2> DEFINE z == C[e][Len(C[e])]
  <2>1. z \in Td
    BY <1>7, <1>8
  <2> HIDE DEF z
  <2>2. <<z>> \in Seq(Td) /\ Len(<<z>>) = 1 /\ <<z>>[1] = z /\ DOMAIN <<z>> = 1..1 /\ <<z>> # <<>>
    BY <2>1
  <2>3. C1[e] = <<z>> /\ C1 \in [Ep -> Seq(Td)] /\ \A f \in Ep \ {e} : C1[f] = C[f]
    BY <1>1, <1>6, <1>8, <1>9, <2>2 DEF TdTypes, z
  <2>4. ToSet(<<z>>) = {z} /\ Once(<<z>>)
    BY <2>2 DEF ToSet, Once
  <2>5. Busy(C1, e) = {}
    <3>. Len(C1[e]) = 1
      BY <2>2, <2>3
    <3>. QED
      BY NoneBusy
  <2>. QED
    BY <2>2, <2>3, <2>4, <2>5 DEF z
<1>10. ASSUME NEW f \in Ep
       PROVE  /\ ToSet(C1[f]) \subseteq ToSet(C[f]) /\ Once(C1[f])
              /\ ToSet(C[f]) \subseteq ToSet(C1[f]) \cup back
              /\ ToSet(C1[f]) \cap back = {}
              /\ Busy(C1, f) \subseteq Busy(C, f)
              /\ C1[f] = <<>> <=> C[f] = <<>>
              /\ f \notin fe => C1[f][Len(C1[f])] = C[f][Len(C[f])]
              /\ C1[f] = C[f] \/ (Busy(C1, f) = {} /\ Len(C1[f]) = 1)
  <2>1. Once(C[f]) /\ ToSet(C[f]) \cap TdsOf(B) = {}
    BY <1>1 DEF Apart
  <2>2. CASE abort /\ f = e
    <3> DEFINE z == C[e][Len(C[e])]
    <3>1. /\ ToSet(C1[e]) = {z} /\ Once(C1[e]) /\ Busy(C1, e) = {} /\ Len(C1[e]) = 1
          /\ C1[e] # <<>> /\ C1[e][Len(C1[e])] = z
      BY <2>2, <1>9
    <3>2. ToSet(C[e]) = Busy(C, e) \cup {z} /\ z \in ToSet(C[e]) /\ z \notin Busy(C, e)
      BY <1>7, <1>8
    <3>3. z # b
      BY <2>1, <2>2, <3>2, <1>8
    <3>4. C[e] # <<>>
      BY <1>1, <1>8 DEF Labelled
    <3>5. back = Busy(C, e) \cup {b}
      BY <2>2, <1>5
    <3> HIDE DEF z
    <3>6. ToSet(C[e]) \subseteq ToSet(C1[e]) \cup back /\ ToSet(C1[e]) \subseteq ToSet(C[e]) /\ ToSet(C1[e]) \cap back = {}
      BY <3>1, <3>2, <3>3, <3>5
    <3>. QED
      BY <2>2, <3>1, <3>4, <3>6 DEF z
  <2>3. CASE ~(abort /\ f = e)
    <3>1. C1[f] = C[f]
      BY <2>3, <1>6, <1>9
    <3>2. Busy(C1, f) = Busy(C, f)
      BY <3>1 DEF Busy
    <3>3. b \notin ToSet(C[f])
      BY <2>1, <1>8
    <3>4. abort => ToSet(C[f]) \cap Busy(C, e) = {}
      BY <2>3, <1>1, <1>7, <1>8 DEF Apart
    <3>5. ToSet(C1[f]) \cap back = {}
      BY <3>1, <3>3, <3>4, <1>5
    <3>. QED
      BY <2>1, <3>1, <3>2, <3>5
  <2>. QED
    BY <2>2, <2>3
<1>11. U1 \in [Td -> Req \cup {None}] /\ \A t \in Td : U1[t] = IF t \in back THEN None ELSE U[t]
  BY <1>1, <1>6 DEF TdTypes
<1>12. C1 \in [Ep -> Seq(Td)]
  BY <1>1, <1>6, <1>9 DEF TdTypes
<1>13. TdTypes(F1, C1, U1, Q1, B1) /\ EpTypes(fe, ty, re, H1)
  BY <1>1, <1>3, <1>4, <1>6, <1>11, <1>12 DEF TdTypes, EpTypes
<1>14. Apart(F1, C1, B1)
  <2>1. ASSUME NEW t \in Td PROVE t \in F1 \/ t \in TdsOf(B1) \/ \E f \in Ep : t \in ToSet(C1[f])
    <3>1. t \in F \/ t \in TdsOf(B) \/ \E f \in Ep : t \in ToSet(C[f])
      BY <1>1 DEF Apart
    <3>2. b \in back
      BY <1>5
    <3>3. ASSUME NEW f \in Ep, t \in ToSet(C[f]) PROVE t \in back \/ t \in ToSet(C1[f])
      BY <3>3, <1>10
    <3>. QED
      BY <3>1, <3>2, <3>3, <1>4
  <2>2. F1 \cap TdsOf(B1) = {}
    BY <1>1, <1>4 DEF Apart
  <2>3. \A i, j \in DOMAIN B1 : B1[i].td = B1[j].td => i = j
    <3>1. SUFFICES ASSUME NEW i \in DOMAIN B1, NEW j \in DOMAIN B1, B1[i].td = B1[j].td PROVE i = j
      OBVIOUS
    <3>2. i + 1 \in DOMAIN B /\ j + 1 \in DOMAIN B /\ B[i + 1].td = B[j + 1].td
      BY <3>1, <1>2, <1>3
    <3>3. i + 1 = j + 1
      BY <3>2, <1>1 DEF Apart
    <3>. QED
      BY <3>3, <1>2, <1>3
  <2>4. ASSUME NEW f \in Ep PROVE ToSet(C1[f]) \cap (F1 \cup TdsOf(B1)) = {} /\ Once(C1[f])
    <3>1. ToSet(C[f]) \cap (F \cup TdsOf(B)) = {}
      BY <1>1 DEF Apart
    <3>. QED
      BY <3>1, <1>4, <1>10
  <2>5. ASSUME NEW f \in Ep, NEW g \in Ep, f # g PROVE ToSet(C1[f]) \cap ToSet(C1[g]) = {}
    <3>1. ToSet(C[f]) \cap ToSet(C[g]) = {}
      BY <2>5, <1>1 DEF Apart
    <3>2. ToSet(C1[f]) \subseteq ToSet(C[f]) /\ ToSet(C1[g]) \subseteq ToSet(C[g])
      BY <1>10
    <3>. QED
      BY <3>1, <3>2
  <2>. QED
    BY <2>1, <2>2, <2>3, <2>4, <2>5 DEF Apart
<1>15. ASSUME NEW f \in Ep, NEW t \in Busy(C1, f) PROVE t \in Busy(C, f) /\ t \in Td /\ U1[t] = U[t]
  <2>1. t \in Busy(C, f) /\ t \in Td
    BY <1>7, <1>10
  <2>2. t \notin back
    <3>1. CASE C1[f] = C[f]
      BY <3>1, <1>7, <1>10, <2>1
    <3>2. CASE Busy(C1, f) = {}
      BY <3>2
    <3>. QED
      BY <3>1, <3>2, <1>10
  <2>. QED
    BY <2>1, <2>2, <1>11
<1>16. ASSUME NEW t \in TdsOf(B1) PROVE t \in TdsOf(B) /\ t \in Td /\ U1[t] = U[t]
  BY <1>4, <1>7, <1>11
<1>17. Labelled(F1, C1, U1, B1, fe, re)
  <2>1. \A t \in F1 : U1[t] = None
    BY <1>1, <1>11, <1>4 DEF Labelled, TdTypes
  <2>2. \A f \in Ep : C1[f] = <<>> <=> f \in fe
    BY <1>1, <1>10 DEF Labelled
  <2>3. ASSUME NEW f \in Ep \ fe PROVE U1[C1[f][Len(C1[f])]] = None
    <3>1. C[f][Len(C[f])] \in Td /\ U[C[f][Len(C[f])]] = None
      BY <1>1, <1>7 DEF Labelled
    <3>. QED
      BY <3>1, <1>10, <1>11
  <2>4. \A f \in Ep : \A t \in Busy(C1, f) : U1[t] # None /\ re[U1[t]] = f
    BY <1>1, <1>15 DEF Labelled
  <2>5. \A t \in TdsOf(B1) : U1[t] # None /\ re[U1[t]] \notin fe
    BY <1>1, <1>16 DEF Labelled
  <2>. QED
    BY <2>1, <2>2, <2>3, <2>4, <2>5 DEF Labelled
<1>18. ASSUME NEW t \in Td, U1[t] # None
       PROVE  t \notin back /\ U1[t] = U[t] /\ U[t] \notin ends /\ \E u \in Td \ Q1 : U1[u] = U[t] /\ u \notin back
  <2>1. t \notin back /\ U1[t] = U[t] /\ U[t] \notin ends
    BY <1>4, <1>11, <1>18
  <2>2. PICK u \in Td \ Q : U[u] = U[t]
    BY <1>1, <1>18, <2>1 DEF LastAsks
  <2>3. u \notin back
    BY <1>4, <2>1, <2>2
  <2>. QED
    BY <2>1, <2>2, <2>3, <1>11
<1>19. LastAsks(C1, U1, Q1, B1, ty, re)
  <2>1. \A t \in Q1 : U1[t] # None /\ ty[re[U1[t]]] = "control"
    BY <1>1, <1>11 DEF LastAsks, TdTypes
  <2>2. \A t \in Td : U1[t] # None => \E u \in Td \ Q1 : U1[u] = U1[t]
    BY <1>18
  <2>3. ASSUME NEW i \in DOMAIN B1, NEW j \in DOMAIN B1, i < j, U1[B1[i].td] = U1[B1[j].td]
        PROVE  B1[i].td \in Q1
    <3>1. i + 1 \in DOMAIN B /\ j + 1 \in DOMAIN B /\ i + 1 < j + 1 /\ B1[i] = B[i + 1] /\ B1[j] = B[j + 1]
      BY <2>3, <1>2, <1>3
    <3>2. B1[i].td \in TdsOf(B1) /\ B1[j].td \in TdsOf(B1)
      BY DEF TdsOf
    <3>3. U[B[i + 1].td] = U[B[j + 1].td]
      BY <2>3, <3>1, <3>2, <1>16
    <3>4. B1[i].td \in Q
      BY <3>1, <3>3, <1>1 DEF LastAsks
    <3>. QED
      BY <3>2, <3>4, <1>4
  <2>4. ASSUME NEW f \in Ep, NEW i \in 1..(Len(C1[f]) - 1), NEW j \in 1..(Len(C1[f]) - 1), i < j, U1[C1[f][i]] = U1[C1[f][j]]
        PROVE  C1[f][i] \in Q1
    <3>1. C1[f][i] \in Busy(C1, f) /\ C1[f][j] \in Busy(C1, f)
      BY DEF Busy
    <3>2. C1[f] = C[f]
      BY <3>1, <1>10
    <3>3. C1[f][i] \in Q
      <4>1. U[C[f][i]] = U[C[f][j]]
        BY <2>4, <3>1, <3>2, <1>15
      <4>. QED
        BY <2>4, <3>2, <4>1, <1>1 DEF LastAsks
    <3>4. C1[f][i] \notin back
      BY <3>1, <3>2, <1>7, <1>10
    <3>. QED
      BY <3>3, <3>4
  <2>5. ASSUME NEW f \in Ep, NEW t \in TdsOf(B1), NEW u \in Busy(C1, f), U1[t] = U1[u]
        PROVE  t \in Q1
    <3>1. t \in Q
      BY <2>5, <1>1, <1>15, <1>16 DEF LastAsks
    <3>. QED
      BY <3>1, <1>4
  <2>. QED
    BY <2>1, <2>2, <2>3, <2>4, <2>5 DEF LastAsks
<1>20. HaltsAt(U1, B1, fe, ty, re, H1)
  <2>1. \A f \in H1 : ty[f] # "iso" /\ f \notin fe
    BY <1>1, <1>6 DEF HaltsAt
  <2>2. ASSUME NEW i \in DOMAIN B1, B1[i].failed, ty[re[U1[B1[i].td]]] # "iso"
        PROVE  /\ re[U1[B1[i].td]] \in H1
               /\ \A j \in DOMAIN B1 : re[U1[B1[j].td]] = re[U1[B1[i].td]] => j <= i
    <3>1. \A j \in DOMAIN B1 : j + 1 \in DOMAIN B /\ B1[j] = B[j + 1] /\ U1[B1[j].td] = U[B[j + 1].td]
      <4>1. \A j \in DOMAIN B1 : B1[j].td \in TdsOf(B1)
        BY DEF TdsOf
      <4>2. \A j \in DOMAIN B1 : j + 1 \in DOMAIN B /\ B1[j] = B[j + 1]
        BY <1>2, <1>3
      <4>. QED
        BY <4>1, <4>2, <1>16
    <3>2. /\ re[U[B[i + 1].td]] \in H
          /\ \A j \in DOMAIN B : re[U[B[j].td]] = re[U[B[i + 1].td]] => j <= i + 1
      BY <2>2, <3>1, <1>1 DEF HaltsAt
    <3>3. re[U[B[i + 1].td]] \in H1
      <4>1. B1[i].td \in TdsOf(B1)
        BY DEF TdsOf
      <4>2. abort => re[U[B[i + 1].td]] # e
        BY <3>1, <4>1, <1>4, <1>16
      <4>. QED
        BY <3>2, <4>2, <1>6
    <3>4. \A j \in DOMAIN B1 : re[U1[B1[j].td]] = re[U1[B1[i].td]] => j <= i
      <4>1. SUFFICES ASSUME NEW j \in DOMAIN B1, re[U1[B1[j].td]] = re[U1[B1[i].td]] PROVE j <= i
        OBVIOUS
      <4>2. j + 1 <= i + 1
        BY <3>1, <3>2, <4>1
      <4>. QED
        BY <4>2, <1>2, <1>3
    <3>. QED
      BY <3>1, <3>3, <3>4
  <2>. QED
    BY <2>1, <2>2 DEF HaltsAt
<1>21. Flown(U1) = Flown(U) \ ends
  <2>1. ASSUME NEW t \in Td, U1[t] # None PROVE U1[t] \in Flown(U) \ ends
    BY <2>1, <1>18 DEF Flown
  <2>2. ASSUME NEW t \in Td, U[t] # None, U[t] \notin ends PROVE U[t] \in Flown(U1)
    <3>1. CASE t \in back
      <4>1. t = b /\ b \in Q
        BY <2>2, <3>1, <1>4
      <4>2. PICK u \in Td \ Q : U[u] = U[b]
        BY <4>1, <1>1, <2>2 DEF LastAsks
      <4>3. u \notin back
        BY <4>1, <4>2, <2>2, <1>4
      <4>. QED
        BY <4>1, <4>2, <4>3, <2>2, <1>11 DEF Flown
    <3>2. CASE t \notin back
      BY <2>2, <3>2, <1>11 DEF Flown
    <3>. QED
      BY <3>1, <3>2
  <2>. QED
    BY <2>1, <2>2 DEF Flown
<1>22. LosesTds(U, U1, ends)
  <2>1. ends \subseteq Flown(U)
    BY <1>4, UsbTransferAssumption DEF Flown
  <2>. QED
    BY <2>1, <1>13, <1>21 DEF LosesTds, TdTypes
<1>. QED
  BY <1>13, <1>14, <1>17, <1>19, <1>20, <1>22 DEF TdsSound, B1
-----------------------------------------------------------------------------
(* Endpoints are opened and killed.                                        *)

\* The TDs of e with a request are gone, and none of them is on its way back.
CanKill(F, C, U, Q, B, fe, ty, re, H, e, gone, X, U2) ==
  /\ TdsSound(F, C, U, Q, B, fe, ty, re, H) /\ e \in Ep \ fe
  /\ gone = {t \in Td : U[t] # None /\ re[U[t]] = e} /\ gone \cap TdsOf(B) = {}
  /\ X = {U[t] : t \in gone}
  /\ U2 = [t \in Td |-> IF t \in gone THEN None ELSE U[t]]

\* A killed endpoint gives back its TDs.
LEMMA KillSound ==
  ASSUME NEW F, NEW C, NEW U, NEW Q, NEW B, NEW fe, NEW ty, NEW re, NEW H, NEW e, NEW gone, NEW X, NEW U2,
         CanKill(F, C, U, Q, B, fe, ty, re, H, e, gone, X, U2)
  PROVE  /\ TdsSound(F \cup gone \cup {Last(C[e])}, [C EXCEPT ![e] = <<>>], U2, Q \ gone, B,
                     fe \cup {e}, ty, re, H \ {e})
         /\ LosesTds(U, U2, X)
<1>0. /\ TdsSound(F, C, U, Q, B, fe, ty, re, H) /\ e \in Ep \ fe
      /\ gone = {t \in Td : U[t] # None /\ re[U[t]] = e} /\ gone \cap TdsOf(B) = {}
      /\ X = {U[t] : t \in gone}
      /\ U2 = [t \in Td |-> IF t \in gone THEN None ELSE U[t]]
  BY DEF CanKill
<1> DEFINE z == C[e][Len(C[e])]
           F2 == F \cup gone \cup {z}
           C2 == [C EXCEPT ![e] = <<>>]
           fe2 == fe \cup {e}
           H2 == H \ {e}
           Q2 == Q \ gone
<1>1. /\ TdTypes(F, C, U, Q, B) /\ EpTypes(fe, ty, re, H) /\ Apart(F, C, B) /\ Labelled(F, C, U, B, fe, re)
      /\ LastAsks(C, U, Q, B, ty, re) /\ HaltsAt(U, B, fe, ty, re, H)
  BY <1>0 DEF TdsSound
<1>2. e \in Ep /\ e \notin fe
  BY <1>0
<1>3. /\ z \in ToSet(C[e]) /\ ToSet(C[e]) = Busy(C, e) \cup {z} /\ z \notin Busy(C, e)
      /\ \A f \in Ep : Busy(C, f) \subseteq ToSet(C[f]) /\ ToSet(C[f]) \subseteq Td
      /\ TdsOf(B) \subseteq Td
      /\ \A t \in Td : U[t] # None => U[t] \in Req /\ (t \in TdsOf(B) \/ t \in Busy(C, re[U[t]]))
  BY <1>0, <1>2, WhereTdsAre
<1>4. Last(C[e]) = z
  BY DEF Last
<1>5. /\ C2 \in [Ep -> Seq(Td)] /\ C2[e] = <<>> /\ \A f \in Ep \ {e} : C2[f] = C[f]
  BY <1>1, <1>2, EmptySeq DEF TdTypes
<1>6. ToSet(C2[e]) = {} /\ Once(C2[e]) /\ Busy(C2, e) = {}
  <2>1. DOMAIN C2[e] = {} /\ Len(C2[e]) = 0
    BY <1>5, EmptySeq
  <2>2. ASSUME NEW x \in Busy(C2, e) PROVE FALSE
    <3>1. PICK i \in 1..(Len(C2[e]) - 1) : x = C2[e][i]
      BY DEF Busy
    <3>2. i \in Int /\ 1 <= i /\ i <= 0 - 1
      BY <2>1, <3>1
    <3>. QED
      BY <3>2
  <2>. QED
    BY <2>1, <2>2 DEF ToSet, Once
<1>7. gone = Busy(C, e)
  BY <1>0, <1>1, <1>2, <1>3 DEF Labelled
<1>8. U2 \in [Td -> Req \cup {None}] /\ \A t \in Td : U2[t] = IF t \in gone THEN None ELSE U[t]
  BY <1>0, <1>1 DEF TdTypes
<1>9. \A t \in Td : U[t] # None /\ re[U[t]] = e <=> t \in gone
  BY <1>0
<1>10. gone \cap TdsOf(B) = {}
  BY <1>0
<1> HIDE DEF z, F2, C2, fe2, H2, Q2
<1>11. TdTypes(F2, C2, U2, Q2, B) /\ EpTypes(fe2, ty, re, H2)
  BY <1>1, <1>2, <1>3, <1>5, <1>7, <1>8 DEF TdTypes, EpTypes, F2, Q2, fe2, H2
<1>12. Apart(F2, C2, B)
  <2>1. ASSUME NEW t \in Td PROVE t \in F2 \/ t \in TdsOf(B) \/ \E f \in Ep : t \in ToSet(C2[f])
    <3>1. t \in F \/ t \in TdsOf(B) \/ \E f \in Ep : t \in ToSet(C[f])
      BY <1>1 DEF Apart
    <3>2. ASSUME NEW f \in Ep, t \in ToSet(C[f]) PROVE t \in F2 \/ t \in ToSet(C2[f])
      <4>1. CASE f = e
        BY <3>2, <4>1, <1>3, <1>7 DEF F2
      <4>2. CASE f # e
        BY <3>2, <4>2, <1>5
      <4>. QED
        BY <4>1, <4>2
    <3>. QED
      BY <3>1, <3>2 DEF F2
  <2>2. ToSet(C[e]) \cap (F \cup TdsOf(B)) = {} /\ F2 = F \cup ToSet(C[e])
    BY <1>1, <1>2, <1>3, <1>7 DEF Apart, F2
  <2>3. F2 \cap TdsOf(B) = {}
    BY <1>1, <2>2 DEF Apart
  <2>4. ASSUME NEW f \in Ep PROVE ToSet(C2[f]) \cap (F2 \cup TdsOf(B)) = {} /\ Once(C2[f])
    <3>1. CASE f = e
      BY <3>1, <1>6
    <3>2. CASE f # e
      <4>1. ToSet(C[f]) \cap (F \cup TdsOf(B)) = {} /\ Once(C[f]) /\ ToSet(C[f]) \cap ToSet(C[e]) = {}
        BY <1>1, <1>2, <3>2 DEF Apart
      <4>. QED
        BY <3>2, <4>1, <1>5, <2>2
    <3>. QED
      BY <3>1, <3>2
  <2>5. ASSUME NEW f \in Ep, NEW g \in Ep, f # g PROVE ToSet(C2[f]) \cap ToSet(C2[g]) = {}
    <3>1. CASE f = e \/ g = e
      BY <3>1, <1>6
    <3>2. CASE ~(f = e \/ g = e)
      BY <3>2, <2>5, <1>1, <1>5 DEF Apart
    <3>. QED
      BY <3>1, <3>2
  <2>. QED
    BY <1>1, <2>1, <2>3, <2>4, <2>5 DEF Apart
<1>13. ASSUME NEW f \in Ep, NEW t \in Busy(C2, f)
       PROVE  f # e /\ t \in Busy(C, f) /\ t \in Td /\ U2[t] = U[t]
  <2>1. f # e /\ t \in Busy(C, f) /\ t \in Td
    BY <1>0, <1>2, <1>3, <1>5, <1>6 DEF Busy
  <2>2. re[U[t]] = f
    BY <1>1, <2>1 DEF Labelled
  <2>. QED
    BY <1>8, <1>9, <2>1, <2>2
<1>14. ASSUME NEW t \in TdsOf(B)
       PROVE  t \in Td /\ U2[t] = U[t] /\ re[U[t]] # e
  BY <1>1, <1>3, <1>8, <1>9, <1>10 DEF Labelled
<1>15. Labelled(F2, C2, U2, B, fe2, re)
  <2>1. \A t \in F2 : U2[t] = None
    <3>1. z \in Td /\ U[z] = None
      BY <1>1, <1>2, <1>3 DEF Labelled, z
    <3>. QED
      BY <3>1, <1>0, <1>1, <1>8 DEF Labelled, TdTypes, F2
  <2>2. ASSUME NEW f \in Ep PROVE C2[f] = <<>> <=> f \in fe2
    <3>1. C[f] = <<>> <=> f \in fe
      BY <1>1 DEF Labelled
    <3>2. CASE f = e
      BY <3>2, <1>5 DEF fe2
    <3>3. CASE f # e
      BY <3>1, <3>3, <1>5 DEF fe2
    <3>. QED
      BY <3>2, <3>3
  <2>3. ASSUME NEW f \in Ep \ fe2 PROVE U2[C2[f][Len(C2[f])]] = None
    <3>1. f # e /\ f \in Ep \ fe /\ C2[f] = C[f]
      BY <1>5 DEF fe2
    <3>2. U[C[f][Len(C[f])]] = None
      BY <1>1, <3>1 DEF Labelled
    <3>3. C[f][Len(C[f])] \in ToSet(C[f])
      BY <1>0, <3>1, WhereTdsAre
    <3>. QED
      BY <3>1, <3>2, <3>3, <1>3, <1>8
  <2>4. \A f \in Ep : \A t \in Busy(C2, f) : U2[t] # None /\ re[U2[t]] = f
    BY <1>1, <1>13 DEF Labelled
  <2>5. \A t \in TdsOf(B) : U2[t] # None /\ re[U2[t]] \notin fe2
    BY <1>1, <1>14 DEF Labelled, fe2
  <2>. QED
    BY <2>1, <2>2, <2>3, <2>4, <2>5 DEF Labelled
<1>16. LastAsks(C2, U2, Q2, B, ty, re)
  <2>1. \A t \in Q2 : U2[t] # None /\ ty[re[U2[t]]] = "control"
    BY <1>1, <1>8 DEF LastAsks, TdTypes, Q2
  <2>2. ASSUME NEW t \in Td, U2[t] # None PROVE \E u \in Td \ Q2 : U2[u] = U2[t]
    <3>1. U2[t] = U[t] /\ t \notin gone /\ U[t] # None
      BY <2>2, <1>8
    <3>2. PICK u \in Td \ Q : U[u] = U[t]
      BY <1>1, <3>1 DEF LastAsks
    <3>3. u \notin gone
      BY <1>9, <3>1, <3>2
    <3>. QED
      BY <3>1, <3>2, <3>3, <1>8 DEF Q2
  <2>3. ASSUME NEW i \in DOMAIN B, NEW j \in DOMAIN B, i < j, U2[B[i].td] = U2[B[j].td]
        PROVE  B[i].td \in Q2
    <3>1. B[i].td \in TdsOf(B) /\ B[j].td \in TdsOf(B)
      BY DEF TdsOf
    <3>2. U[B[i].td] = U[B[j].td]
      BY <2>3, <3>1, <1>14
    <3>3. B[i].td \in Q
      BY <2>3, <3>2, <1>1 DEF LastAsks
    <3>. QED
      BY <3>1, <3>3, <1>10 DEF Q2
  <2>4. ASSUME NEW f \in Ep, NEW i \in 1..(Len(C2[f]) - 1), NEW j \in 1..(Len(C2[f]) - 1), i < j, U2[C2[f][i]] = U2[C2[f][j]]
        PROVE  C2[f][i] \in Q2
    <3>1. C2[f][i] \in Busy(C2, f) /\ C2[f][j] \in Busy(C2, f)
      BY DEF Busy
    <3>2. C2[f] = C[f] /\ f # e
      BY <3>1, <1>5, <1>13
    <3>3. U[C[f][i]] = U[C[f][j]]
      BY <2>4, <3>1, <3>2, <1>13
    <3>4. C[f][i] \in Q
      BY <2>4, <3>2, <3>3, <1>1 DEF LastAsks
    <3>5. re[U[C[f][i]]] = f
      BY <3>1, <3>2, <1>1, <1>13 DEF Labelled
    <3>. QED
      BY <3>1, <3>2, <3>4, <3>5, <1>9, <1>13 DEF Q2
  <2>5. ASSUME NEW f \in Ep, NEW t \in TdsOf(B), NEW u \in Busy(C2, f), U2[t] = U2[u]
        PROVE  t \in Q2
    <3>1. t \in Q
      BY <2>5, <1>1, <1>13, <1>14 DEF LastAsks
    <3>. QED
      BY <3>1, <1>10 DEF Q2
  <2>. QED
    BY <2>1, <2>2, <2>3, <2>4, <2>5 DEF LastAsks
<1>17. HaltsAt(U2, B, fe2, ty, re, H2)
  <2>1. \A f \in H2 : ty[f] # "iso" /\ f \notin fe2
    BY <1>1 DEF HaltsAt, H2, fe2
  <2>2. \A i \in DOMAIN B : U2[B[i].td] = U[B[i].td] /\ re[U[B[i].td]] # e
    <3>1. \A i \in DOMAIN B : B[i].td \in TdsOf(B)
      BY DEF TdsOf
    <3>. QED
      BY <3>1, <1>14
  <2>3. ASSUME NEW i \in DOMAIN B, B[i].failed, ty[re[U2[B[i].td]]] # "iso"
        PROVE  /\ re[U2[B[i].td]] \in H2
               /\ \A j \in DOMAIN B : re[U2[B[j].td]] = re[U2[B[i].td]] => j <= i
    BY <2>2, <2>3, <1>1 DEF HaltsAt, H2
  <2>. QED
    BY <2>1, <2>3 DEF HaltsAt
<1>18. \A t \in Td : U[t] \in {U[u] : u \in gone} => t \in gone
  BY <1>0, <1>3, <1>7, <1>9
<1>19. Flown(U2) = Flown(U) \ {U[t] : t \in gone}
  <2>1. ASSUME NEW t \in Td, U2[t] # None PROVE U2[t] \in Flown(U) /\ U2[t] \notin {U[u] : u \in gone}
    <3>1. U2[t] = U[t] /\ t \notin gone
      BY <2>1, <1>8
    <3>. QED
      BY <3>1, <2>1, <1>18 DEF Flown
  <2>2. ASSUME NEW t \in Td, U[t] # None, U[t] \notin {U[u] : u \in gone} PROVE U[t] \in Flown(U2)
    <3>1. U2[t] = U[t]
      BY <2>2, <1>8
    <3>. QED
      BY <3>1, <2>2 DEF Flown
  <2>. QED
    BY <2>1, <2>2 DEF Flown
<1>20. X \subseteq Flown(U)
  BY <1>0 DEF Flown
<1>21. LosesTds(U, U2, X)
  BY <1>0, <1>8, <1>19, <1>20 DEF LosesTds
<1>. QED
  BY <1>4, <1>11, <1>12, <1>15, <1>16, <1>17, <1>21 DEF TdsSound, F2, C2, Q2, fe2, H2

\* A new endpoint has one TD.
LEMMA OpenSound ==
  ASSUME NEW F, NEW C, NEW U, NEW Q, NEW B, NEW fe, NEW ty, NEW re, NEW H,
         TdsSound(F, C, U, Q, B, fe, ty, re, H),
         NEW e \in fe, NEW z \in F, NEW x \in AllTypes
  PROVE  TdsSound(F \ {z}, [C EXCEPT ![e] = <<z>>], U, Q, B, fe \ {e}, [ty EXCEPT ![e] = x], re, H)
<1> DEFINE F2 == F \ {z}
           C2 == [C EXCEPT ![e] = <<z>>]
           fe2 == fe \ {e}
           ty2 == [ty EXCEPT ![e] = x]
<1>1. /\ TdTypes(F, C, U, Q, B) /\ EpTypes(fe, ty, re, H) /\ Apart(F, C, B) /\ Labelled(F, C, U, B, fe, re)
      /\ LastAsks(C, U, Q, B, ty, re) /\ HaltsAt(U, B, fe, ty, re, H)
  BY DEF TdsSound
<1>2. e \in Ep /\ e \in fe /\ z \in F /\ z \in Td
  BY <1>1 DEF EpTypes, TdTypes
<1>3. /\ \A f \in Ep : Busy(C, f) \subseteq ToSet(C[f]) /\ ToSet(C[f]) \subseteq Td
      /\ ToSet(C[e]) = {} /\ Busy(C, e) = {}
      /\ \A f \in fe : Busy(C, f) = {}
      /\ \A t \in Td : U[t] # None => U[t] \in Req /\ (t \in TdsOf(B) \/ t \in Busy(C, re[U[t]]))
  BY <1>2, WhereTdsAre
<1>4. <<z>> \in Seq(Td) /\ Len(<<z>>) = 1 /\ <<z>>[1] = z /\ DOMAIN <<z>> = 1..1 /\ <<z>> # <<>>
  BY <1>2
<1>5. C2 \in [Ep -> Seq(Td)] /\ C2[e] = <<z>> /\ \A f \in Ep \ {e} : C2[f] = C[f]
  BY <1>1, <1>2, <1>4 DEF TdTypes
<1>6. ToSet(<<z>>) = {z} /\ Once(<<z>>)
  BY <1>4 DEF ToSet, Once
<1>7. Busy(C2, e) = {} /\ Len(C2[e]) = 1
  BY <1>4, <1>5, NoneBusy
<1>8. ASSUME NEW f \in Ep \ {e} PROVE Busy(C2, f) = Busy(C, f)
  BY <1>5 DEF Busy
<1>9. ty2 \in [Ep -> AllTypes] /\ \A f \in Ep \ {e} : ty2[f] = ty[f]
  BY <1>1, <1>2 DEF EpTypes
<1>10. ASSUME NEW t \in Td, U[t] # None PROVE re[U[t]] \in Ep \ {e}
  <2>1. U[t] \in Req /\ re[U[t]] \in Ep
    BY <1>1, <1>3, <1>10 DEF EpTypes
  <2>. QED
    BY <2>1, <1>1, <1>3, <1>10, <1>2 DEF Labelled
<1> HIDE DEF F2, C2, fe2, ty2
<1>11. TdTypes(F2, C2, U, Q, B) /\ EpTypes(fe2, ty2, re, H)
  BY <1>1, <1>5, <1>9 DEF TdTypes, EpTypes, F2, fe2
<1>12. Apart(F2, C2, B)
  <2>1. ASSUME NEW t \in Td PROVE t \in F2 \/ t \in TdsOf(B) \/ \E f \in Ep : t \in ToSet(C2[f])
    <3>1. t \in F \/ t \in TdsOf(B) \/ \E f \in Ep : t \in ToSet(C[f])
      BY <1>1 DEF Apart
    <3>2. ASSUME NEW f \in Ep, t \in ToSet(C[f]) PROVE t \in ToSet(C2[f])
      BY <3>2, <1>3, <1>5
    <3>3. z \in ToSet(C2[e])
      BY <1>5, <1>6
    <3>. QED
      BY <3>1, <3>2, <3>3, <1>2 DEF F2
  <2>2. F2 \cap TdsOf(B) = {} /\ z \notin TdsOf(B)
    BY <1>1, <1>2 DEF Apart, F2
  <2>3. ASSUME NEW f \in Ep PROVE ToSet(C2[f]) \cap (F2 \cup TdsOf(B)) = {} /\ Once(C2[f])
    <3>1. CASE f = e
      BY <3>1, <2>2, <1>5, <1>6 DEF F2
    <3>2. CASE f # e
      BY <3>2, <1>1, <1>5 DEF Apart, F2
    <3>. QED
      BY <3>1, <3>2
  <2>4. ASSUME NEW f \in Ep \ {e} PROVE z \notin ToSet(C2[f])
    BY <1>1, <1>2, <1>5 DEF Apart
  <2>5. ASSUME NEW f \in Ep, NEW g \in Ep, f # g PROVE ToSet(C2[f]) \cap ToSet(C2[g]) = {}
    <3>1. CASE f = e
      BY <3>1, <2>4, <2>5, <1>5, <1>6
    <3>2. CASE g = e
      BY <3>2, <2>4, <2>5, <1>5, <1>6
    <3>3. CASE f # e /\ g # e
      BY <3>3, <2>5, <1>1, <1>5 DEF Apart
    <3>. QED
      BY <3>1, <3>2, <3>3
  <2>. QED
    BY <1>1, <2>1, <2>2, <2>3, <2>5 DEF Apart
<1>13. Labelled(F2, C2, U, B, fe2, re)
  <2>1. \A t \in F2 : U[t] = None
    BY <1>1 DEF Labelled, F2
  <2>2. ASSUME NEW f \in Ep PROVE C2[f] = <<>> <=> f \in fe2
    <3>1. C[f] = <<>> <=> f \in fe
      BY <1>1 DEF Labelled
    <3>2. CASE f = e
      BY <3>2, <1>4, <1>5 DEF fe2
    <3>3. CASE f # e
      BY <3>1, <3>3, <1>5 DEF fe2
    <3>. QED
      BY <3>2, <3>3
  <2>3. ASSUME NEW f \in Ep \ fe2 PROVE U[C2[f][Len(C2[f])]] = None
    <3>1. CASE f = e
      <4>1. C2[f][Len(C2[f])] = z
        BY <3>1, <1>4, <1>5, <1>7
      <4>. QED
        BY <4>1, <1>1, <1>2 DEF Labelled
    <3>2. CASE f # e
      BY <3>2, <1>1, <1>5 DEF Labelled, fe2
    <3>. QED
      BY <3>1, <3>2
  <2>4. ASSUME NEW f \in Ep, NEW t \in Busy(C2, f) PROVE U[t] # None /\ re[U[t]] = f
    BY <1>1, <1>7, <1>8 DEF Labelled
  <2>5. \A t \in TdsOf(B) : U[t] # None /\ re[U[t]] \notin fe2
    BY <1>1 DEF Labelled, fe2
  <2>. QED
    BY <2>1, <2>2, <2>3, <2>4, <2>5 DEF Labelled
<1>14. LastAsks(C2, U, Q, B, ty2, re)
  <2>1. \A t \in Q : U[t] # None /\ ty2[re[U[t]]] = "control"
    BY <1>1, <1>9, <1>10 DEF LastAsks, TdTypes
  <2>2. ASSUME NEW f \in Ep, NEW i \in 1..(Len(C2[f]) - 1), NEW j \in 1..(Len(C2[f]) - 1), i < j, U[C2[f][i]] = U[C2[f][j]]
        PROVE  C2[f][i] \in Q
    <3>1. C2[f][i] \in Busy(C2, f)
      BY DEF Busy
    <3>2. C2[f] = C[f]
      BY <3>1, <1>5, <1>7
    <3>. QED
      BY <2>2, <3>2, <1>1 DEF LastAsks
  <2>3. ASSUME NEW f \in Ep, NEW t \in TdsOf(B), NEW u \in Busy(C2, f), U[t] = U[u]
        PROVE  t \in Q
    BY <2>3, <1>1, <1>7, <1>8 DEF LastAsks
  <2>. QED
    BY <1>1, <2>1, <2>2, <2>3 DEF LastAsks
<1>15. HaltsAt(U, B, fe2, ty2, re, H)
  <2>1. \A f \in H : ty2[f] # "iso" /\ f \notin fe2
    BY <1>1, <1>2, <1>9 DEF HaltsAt, fe2, EpTypes
  <2>2. \A t \in TdsOf(B) : t \in Td /\ U[t] # None
    BY <1>1, WhereTdsAre DEF Labelled
  <2>3. \A i \in DOMAIN B : ty2[re[U[B[i].td]]] = ty[re[U[B[i].td]]]
    <3>1. \A i \in DOMAIN B : B[i].td \in TdsOf(B)
      BY DEF TdsOf
    <3>. QED
      BY <3>1, <2>2, <1>9, <1>10
  <2>. QED
    BY <1>1, <2>1, <2>3 DEF HaltsAt
<1>. QED
  BY <1>11, <1>12, <1>13, <1>14, <1>15 DEF TdsSound, F2, C2, fe2, ty2
-----------------------------------------------------------------------------
(* TDs are set up for a request.                                           *)

\* The TDs of a request, the requests of TDs then, and the quiet TDs.
Staged(C, e, new, n) == {(C[e] \o new)[i] : i \in Len(C[e])..(Len(C[e]) + n - 1)}
Relabel(U, S, r) == [t \in Td |-> IF t \in S THEN r ELSE U[t]]
Quieted(C, Q, e, new, n, x) ==
  IF x = "control" THEN Q \cup (Staged(C, e, new, n) \ {(C[e] \o new)[Len(C[e]) + n - 1]}) ELSE Q

\* The requests with TDs are those of U, and r.
GetsTds(U, U2, r) == Flown(U2) = Flown(U) \cup {r}

\* Request r of endpoint e can get the TDs new.
CanSetUp(F, C, U, Q, B, fe, ty, re, H, e, r, n, new) ==
  /\ TdsSound(F, C, U, Q, B, fe, ty, re, H)
  /\ e \in Ep \ fe /\ e \notin H /\ r \in Req /\ re[r] = e /\ r \notin Flown(U)
  /\ n \in {1, 2, 3} /\ (ty[e] # "control" => n = 1) /\ new \in Picks(F, n)

\* The tail of e and the new TDs but the last get the request; the last is the new tail.
LEMMA SetUpSound ==
  ASSUME NEW F, NEW C, NEW U, NEW Q, NEW B, NEW fe, NEW ty, NEW re, NEW H,
         NEW e, NEW r, NEW n, NEW new,
         CanSetUp(F, C, U, Q, B, fe, ty, re, H, e, r, n, new)
  PROVE  /\ TdsSound(F \ ToSet(new), [C EXCEPT ![e] = C[e] \o new], Relabel(U, Staged(C, e, new, n), r),
                     Quieted(C, Q, e, new, n, ty[e]), B, fe, ty, re, H)
         /\ GetsTds(U, Relabel(U, Staged(C, e, new, n), r), r)
<1> DEFINE z == C[e][Len(C[e])]
           k == Len(C[e])
           all == C[e] \o new
           F2 == F \ ToSet(new)
           C2 == [C EXCEPT ![e] = all]
           mine == Staged(C, e, new, n)
           U2 == Relabel(U, mine, r)
           Q2 == Quieted(C, Q, e, new, n, ty[e])
<1>0. /\ TdsSound(F, C, U, Q, B, fe, ty, re, H)
      /\ e \in Ep \ fe /\ e \notin H /\ r \in Req /\ re[r] = e /\ r \notin Flown(U)
      /\ n \in {1, 2, 3} /\ (ty[e] # "control" => n = 1) /\ new \in Picks(F, n)
  BY DEF CanSetUp
<1> HIDE DEF mine, U2, Q2
<1>1. /\ TdTypes(F, C, U, Q, B) /\ EpTypes(fe, ty, re, H) /\ Apart(F, C, B) /\ Labelled(F, C, U, B, fe, re)
      /\ LastAsks(C, U, Q, B, ty, re) /\ HaltsAt(U, B, fe, ty, re, H)
  BY <1>0 DEF TdsSound
<1>2. e \in Ep /\ e \notin fe /\ n \in Nat /\ 1 <= n /\ F \subseteq Td
  BY <1>0, <1>1 DEF TdTypes
<1>3. /\ C[e] \in Seq(Td) /\ k \in Nat \ {0} /\ DOMAIN C[e] = 1..k
      /\ z \in ToSet(C[e]) /\ ToSet(C[e]) = Busy(C, e) \cup {z} /\ z \notin Busy(C, e)
      /\ \A f \in Ep : Busy(C, f) \subseteq ToSet(C[f]) /\ ToSet(C[f]) \subseteq Td
      /\ TdsOf(B) \subseteq Td
      /\ \A t \in Td : U[t] # None => U[t] \in Req /\ t \notin F /\ (t \in TdsOf(B) \/ t \in Busy(C, re[U[t]]))
  BY <1>0, <1>2, WhereTdsAre
<1>4. /\ new \in Seq(F) /\ new \in Seq(Td) /\ Len(new) = n /\ DOMAIN new = 1..n
      /\ Once(new) /\ ToSet(new) \subseteq F
  <2>0. new \in [1..n -> F] /\ \A i, j \in 1..n : new[i] = new[j] => i = j
    BY <1>0 DEF Picks
  <2>1. new \in Seq(F) /\ Len(new) = n
    BY <1>2, <2>0, FunIsSeq
  <2>2. new \in Seq(Td)
    BY <1>2, <2>0, FunIsSeq
  <2>. QED
    BY <2>0, <2>1, <2>2 DEF Once, ToSet
<1>5. /\ all \in Seq(Td) /\ Len(all) = k + n /\ DOMAIN all = 1..(k + n)
      /\ \A i \in 1..(k + n) : all[i] = IF i <= k THEN C[e][i] ELSE new[i - k]
  <2>1. C[e] \in Seq(Td) /\ new \in Seq(Td) /\ Len(C[e]) = k /\ Len(new) = n /\ all = C[e] \o new
    BY <1>3, <1>4
  <2> HIDE DEF z, k, all, F2, C2
  <2>2. Joined(Td, C[e], new, k, n, all)
    BY <2>1, JoinedAt
  <2>. QED
    BY <2>2 DEF Joined
<1>6. Once(C[e]) /\ ToSet(C[e]) \cap F = {} /\ \A f \in Ep : ToSet(C[f]) \cap F = {}
  BY <1>1, <1>2 DEF Apart
<1>7. ToSet(all) = ToSet(C[e]) \cup ToSet(new) /\ Once(all)
  <2>1. ToSet(C[e]) \cap ToSet(new) = {}
    BY <1>4, <1>6
  <2>. QED
    BY <2>1, <1>3, <1>4, <1>6, OnConcat
<1>8. mine = {all[i] : i \in k..(k + n - 1)}
  BY DEF Staged, mine
<1>9. /\ U2 = [t \in Td |-> IF t \in mine THEN r ELSE U[t]]
      /\ Q2 = IF ty[e] = "control" THEN Q \cup (mine \ {all[k + n - 1]}) ELSE Q
  BY DEF Relabel, Quieted, U2, Q2, mine
<1>10. C2 \in [Ep -> Seq(Td)] /\ C2[e] = all /\ \A f \in Ep \ {e} : C2[f] = C[f]
  BY <1>1, <1>2, <1>5 DEF TdTypes
<1> HIDE DEF z, k, all, F2, C2
<1>11. /\ mine \subseteq Td /\ mine \subseteq ToSet(new) \cup {z} /\ z \in mine
       /\ mine \cap Busy(C, e) = {} /\ mine \cap TdsOf(B) = {}
       /\ all[k + n - 1] \in mine
  <2>1. ASSUME NEW i \in k..(k + n - 1)
        PROVE  all[i] \in ToSet(new) \cup {z}
    <3>1. CASE i = k
      BY <3>1, <1>2, <1>3, <1>5 DEF z, k
    <3>2. CASE i # k
      <4>1. i - k \in 1..n /\ all[i] = new[i - k]
        BY <3>2, <1>2, <1>3, <1>5
      <4>. QED
        BY <4>1, <1>4 DEF ToSet
    <3>. QED
      BY <3>1, <3>2
  <2>2. mine \subseteq ToSet(new) \cup {z}
    BY <2>1, <1>8
  <2>3. k \in k..(k + n - 1) /\ k + n - 1 \in k..(k + n - 1) /\ all[k] = z
    BY <1>2, <1>3, <1>5 DEF z, k
  <2>4. z \in mine /\ all[k + n - 1] \in mine
    BY <2>3, <1>8
  <2>5. (ToSet(new) \cup {z}) \cap Busy(C, e) = {} /\ (ToSet(new) \cup {z}) \cap TdsOf(B) = {}
    BY <1>1, <1>2, <1>3, <1>4, <1>6 DEF Apart
  <2>6. ToSet(new) \cup {z} \subseteq Td
    BY <1>2, <1>3, <1>4
  <2>. QED
    BY <2>2, <2>4, <2>5, <2>6
<1>12. U2 \in [Td -> Req \cup {None}] /\ \A t \in Td : U2[t] = IF t \in mine THEN r ELSE U[t]
  BY <1>0, <1>1, <1>9 DEF TdTypes
<1>13. \A t \in Td : U[t] # r
  BY <1>0, UsbTransferAssumption DEF Flown
<1>14. \A t \in mine : U[t] = None
  <2>1. U[z] = None
    BY <1>1, <1>2 DEF Labelled, z
  <2>. QED
    BY <2>1, <1>1, <1>4, <1>11 DEF Labelled
<1>15. Q \subseteq Q2 /\ Q2 \subseteq Td /\ Q2 \subseteq Q \cup mine /\ Q \cap mine = {}
       /\ all[k + n - 1] \notin Q2
  <2>1. Q \subseteq Td /\ Q \cap mine = {}
    BY <1>1, <1>14 DEF LastAsks, TdTypes
  <2>. QED
    BY <2>1, <1>9, <1>11
<1>16. \A i \in k..(k + n - 1) : all[i] \in mine /\ (i < k + n - 1 => all[i] \in Q2)
  <2>1. ASSUME NEW i \in k..(k + n - 1) PROVE all[i] \in mine
    BY <1>8
  <2>2. ASSUME NEW i \in k..(k + n - 1), i < k + n - 1 PROVE all[i] \in Q2
    <3>1. n # 1
      BY <2>2, <1>2, <1>3
    <3>2. ty[e] = "control"
      BY <3>1, <1>0
    <3>3. i \in DOMAIN all /\ k + n - 1 \in DOMAIN all /\ i # k + n - 1
      BY <2>2, <1>2, <1>3, <1>5
    <3>4. all[i] # all[k + n - 1]
      BY <3>3, <1>7 DEF Once
    <3>. QED
      BY <2>1, <3>2, <3>4, <1>9
  <2>. QED
    BY <2>1, <2>2
<1>17. /\ all[k + n] \in ToSet(new) /\ all[k + n] \notin mine /\ all[k + n] \in Td
       /\ U2[all[k + n]] = None
  <2>1. n \in DOMAIN new /\ all[k + n] = new[n]
    BY <1>2, <1>3, <1>4, <1>5
  <2>2. all[k + n] \in ToSet(new)
    BY <2>1 DEF ToSet
  <2>3. ASSUME NEW i \in k..(k + n - 1) PROVE all[i] # all[k + n]
    <3>1. i \in DOMAIN all /\ k + n \in DOMAIN all /\ i # k + n
      BY <1>2, <1>3, <1>5
    <3>. QED
      BY <3>1, <1>7 DEF Once
  <2>4. all[k + n] \notin mine
    BY <2>3, <1>8
  <2>. QED
    BY <2>2, <2>4, <1>1, <1>2, <1>4, <1>12 DEF Labelled
<1>18. /\ Busy(C2, e) = Busy(C, e) \cup mine
       /\ \A i \in 1..(k - 1) : all[i] \in Busy(C, e)
       /\ \A f \in Ep \ {e} : Busy(C2, f) = Busy(C, f)
  <2>1. \A i \in 1..(k - 1) : i \in 1..(k + n) /\ i \in 1..(k + n - 1) /\ all[i] = C[e][i]
    BY <1>2, <1>3, <1>5
  <2>2. \A i \in 1..(k - 1) : all[i] \in Busy(C, e)
    BY <2>1 DEF Busy, k
  <2>3. Busy(C2, e) = {all[i] : i \in 1..(k + n - 1)}
    <3>1. C2[e] = all /\ Len(all) = k + n
      BY <1>5, <1>10
    <3>2. Busy(C2, e) = {all[i] : i \in 1..(Len(all) - 1)}
      BY <3>1, Zenon DEF Busy
    <3>3. \A i : i \in 1..(Len(all) - 1) <=> i \in 1..(k + n - 1)
      BY <3>1, <1>2, <1>3
    <3>. QED
      BY <3>2, <3>3, Zenon
  <2>4. ASSUME NEW i \in 1..(k + n - 1) PROVE all[i] \in Busy(C, e) \cup mine
    <3>1. CASE i < k
      <4>1. i \in 1..(k - 1)
        BY <3>1, <1>2, <1>3
      <4>. QED
        BY <4>1, <2>2
    <3>2. CASE ~(i < k)
      <4>1. i \in k..(k + n - 1)
        BY <3>2, <1>2, <1>3
      <4>. QED
        BY <4>1, <1>16
    <3>. QED
      BY <3>1, <3>2
  <2>5. Busy(C, e) \subseteq {all[i] : i \in 1..(k + n - 1)}
    <3>1. SUFFICES ASSUME NEW i \in 1..(k - 1) PROVE C[e][i] \in {all[j] : j \in 1..(k + n - 1)}
      BY DEF Busy, k
    <3>. QED
      BY <2>1
  <2>6. mine \subseteq {all[i] : i \in 1..(k + n - 1)}
    <3>1. \A i \in k..(k + n - 1) : i \in 1..(k + n - 1)
      BY <1>2, <1>3
    <3>. QED
      BY <3>1, <1>8
  <2>7. \A f \in Ep \ {e} : Busy(C2, f) = Busy(C, f)
    BY <1>10 DEF Busy
  <2>. QED
    BY <2>2, <2>3, <2>4, <2>5, <2>6, <2>7
<1>19. TdTypes(F2, C2, U2, Q2, B) /\ EpTypes(fe, ty, re, H)
  BY <1>1, <1>10, <1>12, <1>15 DEF TdTypes, F2
<1>20. Apart(F2, C2, B)
  <2>1. ASSUME NEW t \in Td PROVE t \in F2 \/ t \in TdsOf(B) \/ \E f \in Ep : t \in ToSet(C2[f])
    <3>1. t \in F \/ t \in TdsOf(B) \/ \E f \in Ep : t \in ToSet(C[f])
      BY <1>1 DEF Apart
    <3>2. ASSUME NEW f \in Ep, t \in ToSet(C[f]) PROVE t \in ToSet(C2[f])
      <4>1. CASE f = e
        BY <3>2, <4>1, <1>7, <1>10
      <4>2. CASE f # e
        BY <3>2, <4>2, <1>10
      <4>. QED
        BY <4>1, <4>2
    <3>3. t \in F => t \in F2 \/ t \in ToSet(C2[e])
      BY <1>7, <1>10 DEF F2
    <3>. QED
      BY <3>1, <3>2, <3>3, <1>2
  <2>2. F2 \cap TdsOf(B) = {}
    BY <1>1 DEF Apart, F2
  <2>3. ASSUME NEW f \in Ep PROVE ToSet(C2[f]) \cap (F2 \cup TdsOf(B)) = {} /\ Once(C2[f])
    <3>1. ToSet(C[f]) \cap (F \cup TdsOf(B)) = {} /\ Once(C[f]) /\ F \cap TdsOf(B) = {}
      BY <1>1 DEF Apart
    <3>2. CASE f = e
      BY <3>1, <3>2, <1>4, <1>7, <1>10 DEF F2
    <3>3. CASE f # e
      BY <3>1, <3>3, <1>10 DEF F2
    <3>. QED
      BY <3>2, <3>3
  <2>4. ASSUME NEW f \in Ep \ {e} PROVE ToSet(C2[f]) \cap ToSet(all) = {}
    <3>1. ToSet(C[f]) \cap ToSet(C[e]) = {} /\ ToSet(C[f]) \cap F = {}
      BY <1>1, <1>2, <1>6 DEF Apart
    <3>. QED
      BY <3>1, <1>4, <1>7, <1>10
  <2>5. ASSUME NEW f \in Ep, NEW g \in Ep, f # g PROVE ToSet(C2[f]) \cap ToSet(C2[g]) = {}
    <3>1. CASE f = e
      BY <3>1, <2>4, <2>5, <1>10
    <3>2. CASE g = e
      BY <3>2, <2>4, <2>5, <1>10
    <3>3. CASE f # e /\ g # e
      BY <3>3, <2>5, <1>1, <1>10 DEF Apart
    <3>. QED
      BY <3>1, <3>2, <3>3
  <2>. QED
    BY <1>1, <2>1, <2>2, <2>3, <2>5 DEF Apart
<1>21. ASSUME NEW t \in Td, t \notin mine PROVE U2[t] = U[t]
  BY <1>12, <1>21
<1>22. ASSUME NEW f \in Ep, NEW t \in Busy(C, f) PROVE t \in Td /\ t \notin mine
  <2>1. t \in Td /\ U[t] # None
    BY <1>1, <1>3 DEF Labelled
  <2>. QED
    BY <2>1, <1>14
<1>23. Labelled(F2, C2, U2, B, fe, re)
  <2>1. ASSUME NEW t \in F2 PROVE U2[t] = None
    <3>1. t \in Td /\ U[t] = None /\ t \notin ToSet(new) /\ t # z
      BY <1>1, <1>2, <1>3, <1>6 DEF Labelled, F2
    <3>. QED
      BY <3>1, <1>11, <1>12
  <2>2. ASSUME NEW f \in Ep PROVE C2[f] = <<>> <=> f \in fe
    <3>1. C[f] = <<>> <=> f \in fe
      BY <1>1 DEF Labelled
    <3>2. all # <<>>
      BY <1>2, <1>3, <1>5, EmptySeq
    <3>3. CASE f = e
      BY <3>2, <3>3, <1>2, <1>10
    <3>4. CASE f # e
      BY <3>1, <3>4, <1>10
    <3>. QED
      BY <3>3, <3>4
  <2>3. ASSUME NEW f \in Ep \ fe PROVE U2[C2[f][Len(C2[f])]] = None
    <3>1. CASE f = e
      BY <3>1, <1>5, <1>10, <1>17
    <3>2. CASE f # e
      <4>1. U[C[f][Len(C[f])]] = None
        BY <1>1 DEF Labelled
      <4>2. C[f][Len(C[f])] \in ToSet(C[f])
        BY <1>0, WhereTdsAre
      <4>3. ToSet(C[f]) \cap ToSet(C[e]) = {} /\ ToSet(C[f]) \cap F = {}
        BY <3>2, <1>1, <1>2, <1>6 DEF Apart
      <4>4. C[f][Len(C[f])] \notin mine /\ C[f][Len(C[f])] \in Td
        BY <4>2, <4>3, <1>3, <1>4, <1>11
      <4>. QED
        BY <3>2, <4>1, <4>4, <1>10, <1>12
    <3>. QED
      BY <3>1, <3>2
  <2>4. ASSUME NEW f \in Ep, NEW t \in Busy(C2, f) PROVE U2[t] # None /\ re[U2[t]] = f
    <3>1. CASE t \in mine
      <4>1. f = e
        BY <3>1, <1>18, <1>22
      <4>. QED
        BY <3>1, <4>1, <1>0, <1>11, <1>12, UsbTransferAssumption
    <3>2. CASE t \notin mine
      <4>1. t \in Busy(C, f)
        BY <3>2, <1>18
      <4>. QED
        BY <4>1, <1>1, <1>12, <1>22 DEF Labelled
    <3>. QED
      BY <3>1, <3>2
  <2>5. ASSUME NEW t \in TdsOf(B) PROVE U2[t] # None /\ re[U2[t]] \notin fe
    <3>1. t \in Td /\ t \notin mine
      BY <1>3, <1>11
    <3>. QED
      BY <3>1, <1>1, <1>12 DEF Labelled
  <2>. QED
    BY <2>1, <2>2, <2>3, <2>4, <2>5 DEF Labelled
<1>24. ASSUME NEW t \in TdsOf(B) PROVE t \in Td /\ U2[t] = U[t]
  BY <1>3, <1>11, <1>12
<1>25. LastAsks(C2, U2, Q2, B, ty, re)
  <2>1. ASSUME NEW t \in Q2 PROVE U2[t] # None /\ ty[re[U2[t]]] = "control"
    <3>1. CASE t \in Q
      <4>1. t \in Td /\ U[t] # None /\ ty[re[U[t]]] = "control" /\ t \notin mine
        BY <3>1, <1>1, <1>15 DEF LastAsks, TdTypes
      <4>. QED
        BY <4>1, <1>12
    <3>2. CASE t \notin Q
      <4>1. t \in mine /\ ty[e] = "control"
        BY <3>2, <1>9
      <4>. QED
        BY <4>1, <1>0, <1>11, <1>12, UsbTransferAssumption
    <3>. QED
      BY <3>1, <3>2
  <2>2. ASSUME NEW t \in Td, U2[t] # None PROVE \E u \in Td \ Q2 : U2[u] = U2[t]
    <3>1. CASE t \in mine
      BY <3>1, <1>11, <1>12, <1>15
    <3>2. CASE t \notin mine
      <4>1. U2[t] = U[t] /\ U[t] # None
        BY <2>2, <3>2, <1>12
      <4>2. PICK u \in Td \ Q : U[u] = U[t]
        BY <4>1, <1>1 DEF LastAsks
      <4>3. u \notin mine
        BY <4>1, <4>2, <1>14
      <4>. QED
        BY <4>1, <4>2, <4>3, <1>12, <1>15
    <3>. QED
      BY <3>1, <3>2
  <2>3. ASSUME NEW i \in DOMAIN B, NEW j \in DOMAIN B, i < j, U2[B[i].td] = U2[B[j].td]
        PROVE  B[i].td \in Q2
    <3>1. B[i].td \in TdsOf(B) /\ B[j].td \in TdsOf(B)
      BY DEF TdsOf
    <3>2. U[B[i].td] = U[B[j].td]
      BY <2>3, <3>1, <1>24
    <3>. QED
      BY <2>3, <3>2, <1>1, <1>15 DEF LastAsks
  <2>4. ASSUME NEW f \in Ep, NEW i \in 1..(Len(C2[f]) - 1), NEW j \in 1..(Len(C2[f]) - 1), i < j, U2[C2[f][i]] = U2[C2[f][j]]
        PROVE  C2[f][i] \in Q2
    <3>1. CASE f # e
      <4>1. C2[f] = C[f] /\ C[f][i] \in Busy(C, f) /\ C[f][j] \in Busy(C, f)
        BY <3>1, <1>10 DEF Busy
      <4>2. U[C[f][i]] = U[C[f][j]]
        BY <2>4, <4>1, <1>12, <1>22
      <4>. QED
        BY <2>4, <4>1, <4>2, <1>1, <1>15 DEF LastAsks
    <3>2. CASE f = e /\ j < k
      <4>1. i \in 1..(k - 1) /\ j \in 1..(k - 1) /\ C2[f][i] = C[e][i] /\ C2[f][j] = C[e][j]
        BY <2>4, <3>2, <1>2, <1>3, <1>5, <1>10
      <4>2. C[e][i] \in Busy(C, e) /\ C[e][j] \in Busy(C, e)
        BY <4>1 DEF Busy, k
      <4>3. U[C[e][i]] = U[C[e][j]]
        BY <2>4, <4>1, <4>2, <1>2, <1>12, <1>22
      <4>. QED
        BY <2>4, <4>1, <4>3, <1>1, <1>2, <1>15 DEF LastAsks, k
    <3>3. CASE f = e /\ ~(j < k)
      <4>1. i \in 1..(k + n - 1) /\ j \in k..(k + n - 1) /\ i < k + n - 1 /\ C2[f] = all
        BY <2>4, <3>3, <1>2, <1>3, <1>5, <1>10
      <4>2. U2[all[j]] = r
        BY <4>1, <1>11, <1>12, <1>16
      <4>3. ~(i < k)
        <5>1. ASSUME i < k PROVE FALSE
          <6>1. i \in 1..(k - 1)
            BY <4>1, <5>1, <1>3
          <6>2. all[i] \in Td /\ U2[all[i]] = U[all[i]]
            BY <6>1, <1>2, <1>12, <1>18, <1>22
          <6>. QED
            BY <2>4, <4>1, <4>2, <6>2, <1>13
        <5>. QED
          BY <5>1
      <4>4. i \in k..(k + n - 1)
        BY <4>1, <4>3, <1>2, <1>3
      <4>. QED
        BY <4>1, <4>4, <1>16
    <3>. QED
      BY <3>1, <3>2, <3>3
  <2>5. ASSUME NEW f \in Ep, NEW t \in TdsOf(B), NEW u \in Busy(C2, f), U2[t] = U2[u]
        PROVE  t \in Q2
    <3>1. u \notin mine
      BY <2>5, <1>11, <1>12, <1>13, <1>24
    <3>2. u \in Busy(C, f) /\ u \in Td
      BY <3>1, <1>18, <1>22
    <3>3. U[t] = U[u]
      BY <2>5, <3>1, <3>2, <1>12, <1>24
    <3>. QED
      BY <3>2, <3>3, <1>1, <1>15 DEF LastAsks
  <2>. QED
    BY <2>1, <2>2, <2>3, <2>4, <2>5 DEF LastAsks
<1>26. HaltsAt(U2, B, fe, ty, re, H)
  <2>1. \A i \in DOMAIN B : U2[B[i].td] = U[B[i].td]
    <3>1. \A i \in DOMAIN B : B[i].td \in TdsOf(B)
      BY DEF TdsOf
    <3>. QED
      BY <3>1, <1>24
  <2>. QED
    BY <2>1, <1>1 DEF HaltsAt
<1>27. Flown(U2) = Flown(U) \cup {r}
  <2>1. r \in Flown(U2)
    BY <1>0, <1>11, <1>12, UsbTransferAssumption DEF Flown
  <2>2. ASSUME NEW t \in Td, U2[t] # None PROVE U2[t] \in Flown(U) \cup {r}
    BY <2>2, <1>12 DEF Flown
  <2>3. ASSUME NEW t \in Td, U[t] # None PROVE U[t] \in Flown(U2)
    <3>1. U2[t] = U[t]
      BY <2>3, <1>12, <1>14
    <3>. QED
      BY <3>1, <2>3 DEF Flown
  <2>. QED
    BY <2>1, <2>2, <2>3 DEF Flown
<1>. QED
  BY <1>19, <1>20, <1>23, <1>25, <1>26, <1>27 DEF TdsSound, GetsTds, F2, C2, all, U2, Q2, mine

\* A request without TDs can go to another endpoint.
LEMMA MovedSound ==
  ASSUME NEW F, NEW C, NEW U, NEW Q, NEW B, NEW fe, NEW ty, NEW re, NEW H,
         TdsSound(F, C, U, Q, B, fe, ty, re, H),
         NEW re2 \in [Req -> Ep], \A s \in Flown(U) : re2[s] = re[s]
  PROVE  TdsSound(F, C, U, Q, B, fe, ty, re2, H)
<1>1. /\ TdTypes(F, C, U, Q, B) /\ EpTypes(fe, ty, re, H) /\ Apart(F, C, B) /\ Labelled(F, C, U, B, fe, re)
      /\ LastAsks(C, U, Q, B, ty, re) /\ HaltsAt(U, B, fe, ty, re, H)
  BY DEF TdsSound
<1>2. \A t \in Td : U[t] # None => re2[U[t]] = re[U[t]]
  BY DEF Flown
<1>3. TdsOf(B) \subseteq Td /\ \A e \in Ep : Busy(C, e) \subseteq Td
  BY WhereTdsAre
<1>4. EpTypes(fe, ty, re2, H)
  BY <1>1 DEF EpTypes
<1>5. Labelled(F, C, U, B, fe, re2)
  <2>1. \A e \in Ep : \A t \in Busy(C, e) : U[t] # None /\ re2[U[t]] = e
    BY <1>1, <1>2, <1>3 DEF Labelled
  <2>2. \A t \in TdsOf(B) : U[t] # None /\ re2[U[t]] \notin fe
    BY <1>1, <1>2, <1>3 DEF Labelled
  <2>. QED
    BY <1>1, <2>1, <2>2 DEF Labelled
<1>6. LastAsks(C, U, Q, B, ty, re2)
  <2>1. \A t \in Q : U[t] # None /\ ty[re2[U[t]]] = "control"
    BY <1>1, <1>2 DEF LastAsks, TdTypes
  <2>. QED
    BY <1>1, <2>1 DEF LastAsks
<1>7. HaltsAt(U, B, fe, ty, re2, H)
  <2>1. \A i \in DOMAIN B : B[i].td \in TdsOf(B)
    BY DEF TdsOf
  <2>2. \A i \in DOMAIN B : re2[U[B[i].td]] = re[U[B[i].td]]
    BY <2>1, <1>1, <1>2, <1>3 DEF Labelled
  <2>. QED
    BY <1>1, <2>2 DEF HaltsAt
<1>. QED
  BY <1>1, <1>4, <1>5, <1>6, <1>7 DEF TdsSound
-----------------------------------------------------------------------------
(* Requests go from one place to another.                                  *)

\* The listed requests, when one list is replaced.
LEMMA ListedExcept ==
  ASSUME NEW L \in [Ep -> Seq(Req)],
         \A f, g \in Ep : f # g => ToSet(L[f]) \cap ToSet(L[g]) = {},
         NEW e \in Ep, NEW s \in Seq(Req)
  PROVE  /\ [L EXCEPT ![e] = s] \in [Ep -> Seq(Req)]
         /\ Listed([L EXCEPT ![e] = s]) = (Listed(L) \ ToSet(L[e])) \cup ToSet(s)
         /\ ToSet(L[e]) \subseteq Listed(L)
<1> DEFINE L2 == [L EXCEPT ![e] = s]
<1>1. L2 \in [Ep -> Seq(Req)] /\ L2[e] = s /\ \A f \in Ep \ {e} : L2[f] = L[f]
  OBVIOUS
<1> HIDE DEF L2
<1>2. ASSUME NEW r \in Listed(L2) PROVE r \in (Listed(L) \ ToSet(L[e])) \cup ToSet(s)
  <2>1. PICK f \in Ep : r \in ToSet(L2[f])
    BY DEF Listed
  <2>2. CASE f = e
    BY <2>1, <2>2, <1>1
  <2>3. CASE f # e
    <3>1. r \in ToSet(L[f]) /\ r \notin ToSet(L[e])
      BY <2>1, <2>3, <1>1
    <3>. QED
      BY <3>1 DEF Listed
  <2>. QED
    BY <2>2, <2>3
<1>3. ASSUME NEW r \in Listed(L) \ ToSet(L[e]) PROVE r \in Listed(L2)
  <2>1. PICK f \in Ep : r \in ToSet(L[f])
    BY DEF Listed
  <2>2. f # e
    BY <2>1, <1>3
  <2>. QED
    BY <2>1, <2>2, <1>1 DEF Listed
<1>4. ToSet(s) \subseteq Listed(L2) /\ ToSet(L[e]) \subseteq Listed(L)
  BY <1>1 DEF Listed
<1>. QED
  BY <1>1, <1>2, <1>3, <1>4 DEF L2

\* A free request is attached to an endpoint.
LEMMA AttachSound ==
  ASSUME NEW fr, NEW L, NEW U, NEW cl, NEW cr, NEW re, ReqsSound(fr, L, U, cl, cr, re),
         NEW e \in Ep, NEW r \in fr
  PROVE  ReqsSound(fr \ {r}, [L EXCEPT ![e] = Append(L[e], r)], U, cl, cr, [re EXCEPT ![r] = e])
<1> DEFINE s == Append(L[e], r)
           L2 == [L EXCEPT ![e] = s]
           re2 == [re EXCEPT ![r] = e]
<1>1. /\ fr \subseteq Req /\ L \in [Ep -> Seq(Req)] /\ re \in [Req -> Ep] /\ r \in Req /\ r # None
      /\ \A f \in Ep : Once(L[f]) /\ \A q \in ToSet(L[f]) : re[q] = f
      /\ L[e] \in Seq(Req)
      /\ r \notin Listed(L)
      /\ \A f, g \in Ep : f # g => ToSet(L[f]) \cap ToSet(L[g]) = {}
  BY UsbTransferAssumption DEF ReqsSound
<1>2. s \in Seq(Req)
  BY <1>1, AppendProperties
<1>3. /\ L2 \in [Ep -> Seq(Req)] /\ ToSet(L[e]) \subseteq Listed(L)
      /\ Listed(L2) = (Listed(L) \ ToSet(L[e])) \cup ToSet(s)
  BY <1>1, <1>2, ListedExcept
<1>4. ToSet(s) = ToSet(L[e]) \cup {r} /\ Once(s)
  BY <1>1, <1>3, OnAppend
<1>5. Listed(L2) = Listed(L) \cup {r}
  BY <1>3, <1>4
<1>6. re2 \in [Req -> Ep] /\ re2[r] = e /\ \A q \in Req \ {r} : re2[q] = re[q]
  BY <1>1
<1>7. ASSUME NEW f \in Ep PROVE Once(L2[f]) /\ \A q \in ToSet(L2[f]) : re2[q] = f
  <2>1. \A q \in ToSet(L[f]) : q \in Listed(L) /\ q \in Req /\ q # r /\ re[q] = f
    BY <1>1 DEF Listed, ReqsSound
  <2>2. CASE f = e
    <3>1. L2[f] = s
      BY <1>1, <2>2
    <3> HIDE DEF s, L2, re2
    <3>. QED
      BY <2>1, <2>2, <3>1, <1>4, <1>6
  <2>3. CASE f # e
    <3>1. L2[f] = L[f]
      BY <1>1, <2>3
    <3> HIDE DEF s, L2, re2
    <3>. QED
      BY <2>1, <3>1, <1>1, <1>6
  <2>. QED
    BY <2>2, <2>3
<1> HIDE DEF s, L2, re2
<1>8. ReqsSound(fr \ {r}, L2, U, cl, cr, re2)
  BY <1>1, <1>3, <1>5, <1>6, <1>7 DEF ReqsSound
<1>. QED
  BY <1>8 DEF s, L2, re2

\* The first request of a list leaves it.
LEMMA ListedTail ==
  ASSUME NEW L \in [Ep -> Seq(Req)],
         \A f, g \in Ep : f # g => ToSet(L[f]) \cap ToSet(L[g]) = {},
         NEW e \in Ep, L[e] # <<>>, Once(L[e])
  PROVE  /\ [L EXCEPT ![e] = Tail(L[e])] \in [Ep -> Seq(Req)]
         /\ Listed(L) = Listed([L EXCEPT ![e] = Tail(L[e])]) \cup {Head(L[e])}
         /\ Head(L[e]) \notin Listed([L EXCEPT ![e] = Tail(L[e])])
         /\ ToSet(L[e]) = ToSet(Tail(L[e])) \cup {Head(L[e])} /\ Once(Tail(L[e]))
         /\ Head(L[e]) \in Req
<1> DEFINE s == Tail(L[e])
           r == Head(L[e])
           L2 == [L EXCEPT ![e] = s]
<1>1. s \in Seq(Req) /\ r \in Req
  BY HeadTailProperties
<1>2. /\ L2 \in [Ep -> Seq(Req)] /\ ToSet(L[e]) \subseteq Listed(L)
      /\ Listed(L2) = (Listed(L) \ ToSet(L[e])) \cup ToSet(s)
  BY <1>1, ListedExcept
<1>3. ToSet(L[e]) = ToSet(s) \cup {r} /\ Once(s) /\ r \notin ToSet(s)
  BY OnTail
<1>4. Listed(L) = Listed(L2) \cup {r} /\ r \notin Listed(L2)
  BY <1>2, <1>3
<1>. QED
  BY <1>1, <1>2, <1>3, <1>4

\* It gets TDs.
LEMMA StartSound ==
  ASSUME NEW fr, NEW L, NEW U, NEW cl, NEW cr, NEW re, ReqsSound(fr, L, U, cl, cr, re),
         NEW e \in Ep, L[e] # <<>>,
         NEW U2 \in [Td -> Req \cup {None}], Flown(U2) = Flown(U) \cup {Head(L[e])}
  PROVE  ReqsSound(fr, [L EXCEPT ![e] = Tail(L[e])], U2, cl, cr, re)
<1> DEFINE L2 == [L EXCEPT ![e] = Tail(L[e])]
           r == Head(L[e])
<1>1. /\ L \in [Ep -> Seq(Req)] /\ \A f \in Ep : Once(L[f]) /\ \A q \in ToSet(L[f]) : re[q] = f
      /\ \A f, g \in Ep : f # g => ToSet(L[f]) \cap ToSet(L[g]) = {}
  BY DEF ReqsSound
<1>2. /\ L2 \in [Ep -> Seq(Req)] /\ Listed(L) = Listed(L2) \cup {r} /\ r \notin Listed(L2)
      /\ ToSet(L[e]) = ToSet(Tail(L[e])) \cup {r} /\ Once(Tail(L[e])) /\ r \in Req
  BY <1>1, ListedTail
<1>3. ASSUME NEW f \in Ep PROVE Once(L2[f]) /\ \A q \in ToSet(L2[f]) : re[q] = f
  <2>1. CASE f = e
    <3>1. L2[f] = Tail(L[e])
      BY <1>1, <2>1
    <3> HIDE DEF L2
    <3>. QED
      BY <2>1, <3>1, <1>1, <1>2
  <2>2. CASE f # e
    BY <1>1, <2>2
  <2>. QED
    BY <2>1, <2>2
<1>4. Flown(U2) = Flown(U) \cup {r}
  OBVIOUS
<1> HIDE DEF L2, r
<1>5. ReqsSound(fr, L2, U2, cl, cr, re)
  BY <1>1, <1>2, <1>3, <1>4 DEF ReqsSound
<1>. QED
  BY <1>5 DEF L2

\* It had none before.
LEMMA HeadOfList ==
  ASSUME NEW fr, NEW L, NEW U, NEW cl, NEW cr, NEW re, ReqsSound(fr, L, U, cl, cr, re),
         NEW e \in Ep, L[e] # <<>>
  PROVE  Head(L[e]) \in Req /\ re[Head(L[e])] = e /\ Head(L[e]) \notin Flown(U)
<1>1. L[e] \in Seq(Req) /\ \A q \in ToSet(L[e]) : re[q] = e
  BY DEF ReqsSound
<1>2. Head(L[e]) \in Req /\ Head(L[e]) \in ToSet(L[e])
  BY <1>1, HeadTailProperties, OnTail
<1>3. Head(L[e]) \in Listed(L)
  BY <1>2 DEF Listed
<1>. QED
  BY <1>1, <1>2, <1>3 DEF ReqsSound

\* Requests with TDs end, and are to be called back.
LEMMA CallBackSound ==
  ASSUME NEW fr, NEW L, NEW U, NEW cl, NEW cr, NEW re, ReqsSound(fr, L, U, cl, cr, re),
         NEW U2, NEW ends \in Seq(Req), Once(ends), LosesTds(U, U2, ToSet(ends))
  PROVE  ReqsSound(fr, L, U2, cl \o ends, cr, re)
<1>1. cl \in Seq(Req) /\ Once(cl) /\ ToSet(cl) \cap ToSet(ends) = {}
  BY DEF ReqsSound, LosesTds
<1>2. cl \o ends \in Seq(Req) /\ ToSet(cl \o ends) = ToSet(cl) \cup ToSet(ends) /\ Once(cl \o ends)
  BY <1>1, OnConcat, ConcatProperties
<1>. QED
  BY <1>2 DEF ReqsSound, LosesTds

\* Requests with TDs end at a closed endpoint, and are free.
LEMMA FreeSound ==
  ASSUME NEW fr, NEW L, NEW U, NEW cl, NEW cr, NEW re, ReqsSound(fr, L, U, cl, cr, re),
         NEW U2, NEW X, LosesTds(U, U2, X)
  PROVE  /\ ReqsSound(fr \cup X, L, U2, cl, cr, re)
         /\ X \subseteq Req \ (fr \cup {cr})
BY DEF ReqsSound, LosesTds

\* All requests of a killed endpoint are free.
LEMMA DropSound ==
  ASSUME NEW fr, NEW L, NEW U, NEW cl, NEW cr, NEW re, ReqsSound(fr, L, U, cl, cr, re),
         NEW U2, NEW X, LosesTds(U, U2, X), NEW e \in Ep
  PROVE  /\ ReqsSound(fr \cup (X \cup ToSet(L[e])), [L EXCEPT ![e] = <<>>], U2, cl, cr, re)
         /\ X \cup ToSet(L[e]) \subseteq Req \ (fr \cup {cr})
<1> DEFINE L2 == [L EXCEPT ![e] = <<>>]
<1>1. /\ L \in [Ep -> Seq(Req)] /\ re \in [Req -> Ep]
      /\ \A f \in Ep : Once(L[f]) /\ \A q \in ToSet(L[f]) : re[q] = f
      /\ \A f, g \in Ep : f # g => ToSet(L[f]) \cap ToSet(L[g]) = {}
  BY DEF ReqsSound, LosesTds
<1>2. <<>> \in Seq(Req) /\ ToSet(<<>>) = {} /\ Once(<<>>)
  BY EmptySeq DEF ToSet, Once
<1>3. /\ L2 \in [Ep -> Seq(Req)] /\ ToSet(L[e]) \subseteq Listed(L)
      /\ Listed(L2) = (Listed(L) \ ToSet(L[e])) \cup ToSet(<<>>)
  <2> DEFINE s == <<>>
  <2>1. s \in Seq(Req)
    BY <1>2
  <2> HIDE DEF s
  <2>2. /\ [L EXCEPT ![e] = s] \in [Ep -> Seq(Req)] /\ ToSet(L[e]) \subseteq Listed(L)
        /\ Listed([L EXCEPT ![e] = s]) = (Listed(L) \ ToSet(L[e])) \cup ToSet(s)
    BY <1>1, <2>1, ListedExcept, ZenonT(30)
  <2>. QED
    BY <2>2 DEF s
<1>4. Listed(L2) = Listed(L) \ ToSet(L[e])
  BY <1>2, <1>3
<1>5. ASSUME NEW f \in Ep PROVE Once(L2[f]) /\ \A q \in ToSet(L2[f]) : re[q] = f
  BY <1>1, <1>2
<1> HIDE DEF L2
<1>6. ReqsSound(fr \cup (X \cup ToSet(L[e])), L2, U2, cl, cr, re)
  BY <1>3, <1>4, <1>5 DEF ReqsSound, LosesTds
<1>7. X \cup ToSet(L[e]) \subseteq Req \ (fr \cup {cr})
  BY <1>3 DEF ReqsSound, LosesTds
<1>. QED
  BY <1>6, <1>7 DEF L2

\* The callback thread takes a request, and frees it.
LEMMA ThreadSound ==
  ASSUME NEW fr, NEW L, NEW U, NEW cl, NEW cr, NEW re, ReqsSound(fr, L, U, cl, cr, re)
  PROVE  /\ cl # <<>> /\ cr = None =>
              /\ ReqsSound(fr, L, U, Tail(cl), Head(cl), re)
              /\ Head(cl) \in Req \ fr
         /\ ReqsSound(fr \cup ({cr} \ {None}), L, U, cl, None, re)
<1>1. ASSUME cl # <<>>, cr = None
      PROVE  ReqsSound(fr, L, U, Tail(cl), Head(cl), re) /\ Head(cl) \in Req \ fr
  <2>1. cl \in Seq(Req) /\ Once(cl)
    BY DEF ReqsSound
  <2>2. Tail(cl) \in Seq(Req) /\ Head(cl) \in Req
    BY <1>1, <2>1, HeadTailProperties
  <2>3. ToSet(cl) = ToSet(Tail(cl)) \cup {Head(cl)} /\ Once(Tail(cl)) /\ Head(cl) \notin ToSet(Tail(cl))
    BY <1>1, <2>1, OnTail
  <2>. QED
    BY <1>1, <2>2, <2>3, UsbTransferAssumption DEF ReqsSound
<1>2. ReqsSound(fr \cup ({cr} \ {None}), L, U, cl, None, re)
  <2>1. \A S : None \notin Req
    BY UsbTransferAssumption
  <2>2. /\ None \notin fr /\ None \notin Listed(L) /\ None \notin Flown(U) /\ None \notin ToSet(cl)
    <3>1. /\ fr \cup Listed(L) \cup Flown(U) \cup ToSet(cl) \subseteq Req
      BY DEF ReqsSound
    <3>. QED
      BY <3>1, <2>1
  <2>. QED
    BY <2>1, <2>2 DEF ReqsSound
<1>. QED
  BY <1>1, <1>2
-----------------------------------------------------------------------------
(* Transfers and their requests.                                           *)

\* Sent without transfers that ended.
LEMMA SentEnded ==
  ASSUME NEW S, Ended(S)
  PROVE  Sent' = Sent \ S
<1>1. \A e \in Ep : sent'[e] = sent[e] \ S
  BY DEF Ended
<1>. QED
  BY <1>1 DEF Sent

\* The types of the log, when transfers end.
LEMMA EndedTypes ==
  ASSUME NEW S, Ended(S), sent \in [Ep -> SUBSET Xfer], earlier \in [Xfer -> SUBSET Xfer]
  PROVE  sent' \in [Ep -> SUBSET Xfer] /\ earlier' \in [Xfer -> SUBSET Xfer]
<1>1. \A e \in Ep : sent[e] \ S \in SUBSET Xfer
  OBVIOUS
<1>2. \A x \in Xfer : (IF x \in S THEN {} ELSE earlier[x] \ S) \in SUBSET Xfer
  OBVIOUS
<1>. QED
  BY <1>1, <1>2 DEF Ended

\* A free request becomes that of a new transfer.
LEMMA AcceptOwned ==
  ASSUME NEW fr, NEW ow, NEW pc, NEW cr, NEW cx, NEW S, Owned(fr, ow, pc, cr, cx, S),
         NEW r \in fr, fr \subseteq Req, NEW x \in Xfer, x \notin S
  PROVE  Owned(fr \ {r}, [ow EXCEPT ![r] = x], pc, cr, cx, S \cup {x})
<1> DEFINE ow2 == [ow EXCEPT ![r] = x]
<1>1. /\ ow \in [Req -> Xfer \cup {None}] /\ cx \in Xfer \cup {None}
      /\ \A q \in Req : ow[q] = None <=> q \in fr
      /\ \A q, s \in Req : ow[q] # None /\ ow[q] = ow[s] => q = s
      /\ S = ({ow[q] : q \in Req} \cup (IF pc = "call" THEN {cx} ELSE {})) \ {None}
      /\ pc = "call" => cx # None /\ \A q \in Req : ow[q] # cx
      /\ IF pc = "free" THEN cr \in Req \ fr /\ cx = ow[cr] ELSE cr = None
  BY DEF Owned
<1>2. r \in Req /\ x # None /\ x \in Xfer
  BY UsbTransferAssumption
<1>3. ow2 \in [Req -> Xfer \cup {None}] /\ ow2[r] = x /\ \A q \in Req \ {r} : ow2[q] = ow[q]
  BY <1>1, <1>2
<1>4. \A q \in Req : ow[q] # x
  BY <1>1, <1>2
<1> HIDE DEF ow2
<1>5. \A q \in Req : ow2[q] = None <=> q \in fr \ {r}
  BY <1>1, <1>2, <1>3
<1>6. \A q, s \in Req : ow2[q] # None /\ ow2[q] = ow2[s] => q = s
  BY <1>1, <1>2, <1>3, <1>4
<1>7. S \cup {x} = ({ow2[q] : q \in Req} \cup (IF pc = "call" THEN {cx} ELSE {})) \ {None}
  <2>1. {ow2[q] : q \in Req} \ {None} = ({ow[q] : q \in Req} \ {None}) \cup {x}
    <3>1. ASSUME NEW q \in Req PROVE ow2[q] \in {ow[s] : s \in Req} \cup {x}
      BY <1>3
    <3>2. ASSUME NEW q \in Req, ow[q] # None PROVE ow[q] \in {ow2[s] : s \in Req}
      <4>1. q # r
        BY <3>2, <1>1, <1>2
      <4>. QED
        BY <4>1, <1>3
    <3>3. x \in {ow2[s] : s \in Req}
      BY <1>2, <1>3
    <3>. QED
      BY <3>1, <3>2, <3>3, <1>2
  <2>. QED
    BY <2>1, <1>1, <1>2
<1>8. pc = "call" => cx # None /\ \A q \in Req : ow2[q] # cx
  BY <1>1, <1>2, <1>3
<1>9. IF pc = "free" THEN cr \in Req \ (fr \ {r}) /\ cx = ow2[cr] ELSE cr = None
  <2>1. ASSUME pc = "free" PROVE cr \in Req \ (fr \ {r}) /\ cx = ow2[cr]
    BY <2>1, <1>1, <1>3
  <2>. QED
    BY <2>1, <1>1
<1>10. Owned(fr \ {r}, ow2, pc, cr, cx, S \cup {x})
  BY <1>1, <1>3, <1>5, <1>6, <1>7, <1>8, <1>9 DEF Owned
<1>. QED
  BY <1>10 DEF ow2

\* Requests that end without a callback take their transfers with them.
LEMMA ForgetOwned ==
  ASSUME NEW fr, NEW ow, NEW pc, NEW cr, NEW cx, NEW S, Owned(fr, ow, pc, cr, cx, S),
         NEW X \in SUBSET (Req \ fr), cr \notin X
  PROVE  Owned(fr \cup X, [q \in Req |-> IF q \in X THEN None ELSE ow[q]], pc, cr, cx, S \ {ow[q] : q \in X})
<1> DEFINE ow2 == [q \in Req |-> IF q \in X THEN None ELSE ow[q]]
<1>1. /\ ow \in [Req -> Xfer \cup {None}] /\ cx \in Xfer \cup {None}
      /\ \A q \in Req : ow[q] = None <=> q \in fr
      /\ \A q, s \in Req : ow[q] # None /\ ow[q] = ow[s] => q = s
      /\ S = ({ow[q] : q \in Req} \cup (IF pc = "call" THEN {cx} ELSE {})) \ {None}
      /\ pc = "call" => cx # None /\ \A q \in Req : ow[q] # cx
      /\ IF pc = "free" THEN cr \in Req \ fr /\ cx = ow[cr] ELSE cr = None
  BY DEF Owned
<1>2. ow2 \in [Req -> Xfer \cup {None}] /\ \A q \in Req : ow2[q] = IF q \in X THEN None ELSE ow[q]
  BY <1>1
<1> HIDE DEF ow2
<1>3. \A q \in Req : ow2[q] = None <=> q \in fr \cup X
  BY <1>1, <1>2
<1>4. \A q, s \in Req : ow2[q] # None /\ ow2[q] = ow2[s] => q = s
  BY <1>1, <1>2
<1>5. \A q \in X : ow[q] # None /\ q \in Req
  BY <1>1
<1>6. {ow2[q] : q \in Req} \ {None} = ({ow[q] : q \in Req} \ {None}) \ {ow[q] : q \in X}
  <2>1. ASSUME NEW q \in Req, ow2[q] # None
        PROVE  ow2[q] \in {ow[s] : s \in Req} /\ ow2[q] \notin {ow[s] : s \in X}
    <3>1. q \notin X /\ ow2[q] = ow[q] /\ ow[q] # None
      BY <2>1, <1>2
    <3>2. \A s \in X : ow[s] # ow[q]
      BY <3>1, <1>1, <1>5
    <3>. QED
      BY <3>1, <3>2
  <2>2. ASSUME NEW q \in Req, ow[q] # None, ow[q] \notin {ow[s] : s \in X}
        PROVE  ow[q] \in {ow2[s] : s \in Req}
    <3>1. q \notin X
      BY <2>2
    <3>2. ow2[q] = ow[q]
      BY <3>1, <1>2
    <3>. QED
      BY <3>2
  <2>. QED
    BY <2>1, <2>2
<1>7. S \ {ow[q] : q \in X} = ({ow2[q] : q \in Req} \cup (IF pc = "call" THEN {cx} ELSE {})) \ {None}
  <2>1. CASE pc = "call"
    <3>1. cx \notin {ow[q] : q \in X} /\ cx # None
      BY <2>1, <1>1, <1>5
    <3>2. S = ({ow[q] : q \in Req} \ {None}) \cup {cx}
      BY <2>1, <3>1, <1>1
    <3>. QED
      BY <2>1, <3>1, <3>2, <1>6
  <2>2. CASE pc # "call"
    <3>1. S = {ow[q] : q \in Req} \ {None}
      BY <2>2, <1>1
    <3>. QED
      BY <2>2, <3>1, <1>6
  <2>. QED
    BY <2>1, <2>2
<1>8. ASSUME pc = "call" PROVE cx # None /\ \A q \in Req : ow2[q] # cx
  BY <1>1, <1>2, <1>8
<1>9. IF pc = "free" THEN cr \in Req \ (fr \cup X) /\ cx = ow2[cr] ELSE cr = None
  <2>1. ASSUME pc = "free" PROVE cr \in Req \ (fr \cup X) /\ cx = ow2[cr]
    BY <2>1, <1>1, <1>2
  <2>. QED
    BY <2>1, <1>1
<1>10. Owned(fr \cup X, ow2, pc, cr, cx, S \ {ow[q] : q \in X})
  BY <1>1, <1>2, <1>3, <1>4, <1>7, <1>8, <1>9 DEF Owned
<1>. QED
  BY <1>10 DEF ow2

\* The callback thread takes a request, frees it, and calls its user.
LEMMA ThreadOwned ==
  ASSUME NEW fr, NEW ow, NEW pc, NEW cr, NEW cx, NEW S, Owned(fr, ow, pc, cr, cx, S)
  PROVE  /\ pc = "loop" => \A r \in Req \ fr : Owned(fr, ow, "free", r, ow[r], S)
         /\ pc = "loop" => Owned(fr, ow, "wait", cr, cx, S)
         /\ pc = "wait" => Owned(fr, ow, "loop", cr, cx, S)
         /\ pc = "free" => Owned(fr \cup {cr}, [ow EXCEPT ![cr] = None], "call", None, cx, S)
         /\ pc = "call" => Owned(fr, ow, "loop", cr, None, S \ {cx})
<1>1. /\ ow \in [Req -> Xfer \cup {None}] /\ cx \in Xfer \cup {None}
      /\ \A q \in Req : ow[q] = None <=> q \in fr
      /\ \A q, s \in Req : ow[q] # None /\ ow[q] = ow[s] => q = s
      /\ S = ({ow[q] : q \in Req} \cup (IF pc = "call" THEN {cx} ELSE {})) \ {None}
      /\ pc = "call" => cx # None /\ \A q \in Req : ow[q] # cx
      /\ IF pc = "free" THEN cr \in Req \ fr /\ cx = ow[cr] ELSE cr = None
  BY DEF Owned
<1>2. ASSUME pc = "loop", NEW r \in Req \ fr PROVE Owned(fr, ow, "free", r, ow[r], S)
  <2>1. S = {ow[q] : q \in Req} \ {None} /\ ow[r] \in Xfer \cup {None}
    BY <1>1, <1>2
  <2>2. "free" # "call"
    OBVIOUS
  <2>. QED
    BY <1>1, <2>1, <2>2 DEF Owned
<1>3. ASSUME pc = "loop" PROVE Owned(fr, ow, "wait", cr, cx, S)
  BY <1>1, <1>3 DEF Owned
<1>4. ASSUME pc = "wait" PROVE Owned(fr, ow, "loop", cr, cx, S)
  BY <1>1, <1>4 DEF Owned
<1>5. ASSUME pc = "free" PROVE Owned(fr \cup {cr}, [ow EXCEPT ![cr] = None], "call", None, cx, S)
  <2> DEFINE ow2 == [ow EXCEPT ![cr] = None]
  <2>1. cr \in Req \ fr /\ cx = ow[cr] /\ cx # None /\ S = {ow[q] : q \in Req} \ {None}
    BY <1>1, <1>5
  <2>2. ow2 \in [Req -> Xfer \cup {None}] /\ ow2[cr] = None /\ \A q \in Req \ {cr} : ow2[q] = ow[q]
    BY <1>1, <2>1
  <2> HIDE DEF ow2
  <2>3. \A q \in Req : ow2[q] = None <=> q \in fr \cup {cr}
    BY <1>1, <2>1, <2>2
  <2>4. \A q, s \in Req : ow2[q] # None /\ ow2[q] = ow2[s] => q = s
    BY <1>1, <2>1, <2>2
  <2>5. \A q \in Req : ow2[q] # cx
    BY <1>1, <2>1, <2>2
  <2>6. S = ({ow2[q] : q \in Req} \cup {cx}) \ {None}
    <3>1. ASSUME NEW q \in Req, ow[q] # None PROVE ow[q] \in {ow2[s] : s \in Req} \cup {cx}
      BY <2>1, <2>2
    <3>2. ASSUME NEW q \in Req, ow2[q] # None PROVE ow2[q] \in {ow[s] : s \in Req}
      BY <3>2, <2>1, <2>2
    <3>. QED
      BY <3>1, <3>2, <2>1
  <2>7. Owned(fr \cup {cr}, ow2, "call", None, cx, S)
    BY <1>1, <2>1, <2>2, <2>3, <2>4, <2>5, <2>6 DEF Owned
  <2>. QED
    BY <2>7 DEF ow2
<1>6. ASSUME pc = "call" PROVE Owned(fr, ow, "loop", cr, None, S \ {cx})
  <2>1. S \ {cx} = {ow[q] : q \in Req} \ {None}
    BY <1>1, <1>6
  <2>. QED
    BY <1>1, <1>6, <2>1 DEF Owned
<1>. QED
  BY <1>2, <1>3, <1>4, <1>5, <1>6
-----------------------------------------------------------------------------
(* The helpers of the handlers.                                            *)

\* Queues stay queues of endpoints.
LEMMA QueueTypes ==
  ASSUME waiting \in [Queues -> Seq(Ep)], NEW e \in Ep
  PROVE  Enqueued(e) \in [Queues -> Seq(Ep)] /\ Dequeued(e) \in [Queues -> Seq(Ep)]
<1> DEFINE w == waiting[QueueOf(e)]
<1>1. QueueOf(e) \in Queues
  BY DEF QueueOf, Queues
<1>2. w \in Seq(Ep)
  BY <1>1
<1>3. Append(w, e) \in Seq(Ep)
  BY <1>2, AppendProperties
<1>4. Enqueued(e) \in [Queues -> Seq(Ep)]
  BY <1>1, <1>3 DEF Enqueued
<1> HIDE DEF w
<1>5. ASSUME e \in ToSet(w) PROVE RemoveAt(w, CHOOSE i \in DOMAIN w : w[i] = e) \in Seq(Ep)
  <2> DEFINE i == CHOOSE j \in DOMAIN w : w[j] = e
  <2>1. i \in DOMAIN w
    BY <1>5 DEF ToSet
  <2> HIDE DEF i
  <2>2. DOMAIN w = 1..Len(w) /\ Len(w) \in Nat /\ i \in Nat \ {0}
    BY <1>2, <2>1, LenProperties
  <2>3. \A j \in 1..(i - 1) : w[j] \in Ep
    BY <1>2, <2>1, <2>2, ElementOfSeq
  <2>4. \A j \in (i + 1)..Len(w) : w[j] \in Ep
    BY <1>2, <2>1, <2>2, ElementOfSeq
  <2>5. SubSeq(w, 1, i - 1) \in Seq(Ep)
    BY <2>2, <2>3, SubSeqProperties
  <2>6. SubSeq(w, i + 1, Len(w)) \in Seq(Ep)
    BY <2>2, <2>4, SubSeqProperties
  <2>7. RemoveAt(w, i) \in Seq(Ep)
    BY <2>5, <2>6, ConcatProperties DEF RemoveAt
  <2>. QED
    BY <2>7 DEF i
<1>6. Dequeued(e) \in [Queues -> Seq(Ep)]
  BY <1>1, <1>5, Zenon DEF Dequeued, w
<1>. QED
  BY <1>4, <1>6

\* handleIoReqList keeps TDs and requests in their places.
LEMMA HandleSound ==
  ASSUME waiting \in [Queues -> Seq(Ep)], open \subseteq Ep \ freeEp,
         NEW F, NEW L, NEW C, NEW H, NEW U, NEW Q, NEW D, NEW B, NEW fr, NEW cl, NEW cr, NEW re,
         TdsSound(F, C, U, Q, B, freeEp, type, re, H), ReqsSound(fr, L, U, cl, cr, re), D \subseteq Req,
         NEW e \in Ep, HandleIoReqList(e, F, L, C, H, U, Q, D)
  PROVE  /\ TdsSound(freeTd', chain', lut', quiet', B, freeEp, type, re, H)
         /\ ReqsSound(fr, list', lut', cl, cr, re)
         /\ data' \subseteq Req /\ waiting' \in [Queues -> Seq(Ep)]
<1> DEFINE ready == L[e] # <<>> /\ e \in open /\ e \notin H
           r == Head(L[e])
           n == Needed(e, r, D)
           pool == F \cap TdsFor(type[e])
           short == ~ready \/ Cardinality(pool) < n
<1>1. CASE short
  <2>1. /\ freeTd' = F /\ list' = L /\ chain' = C /\ lut' = U /\ quiet' = Q /\ data' = D
        /\ waiting' = IF ready THEN Enqueued(e) ELSE Dequeued(e)
    BY <1>1 DEF HandleIoReqList
  <2>. QED
    BY <2>1, QueueTypes
<1>2. CASE ~short
  <2>1. PICK new \in Picks(pool, n) :
          LET all == C[e] \o new
              tail == Len(C[e])
              mine == {all[i] : i \in tail..(tail + n - 1)}
          IN /\ freeTd' = F \ ToSet(new)
             /\ chain' = [C EXCEPT ![e] = all]
             /\ lut' = [t \in Td |-> IF t \in mine THEN r ELSE U[t]]
             /\ quiet' = IF type[e] = "control"
                         THEN Q \cup (mine \ {all[tail + n - 1]}) ELSE Q
             /\ list' = [L EXCEPT ![e] = Tail(L[e])]
             /\ data' = D \ {r}
             /\ waiting' = IF Len(L[e]) = 1 THEN Dequeued(e) ELSE waiting
    BY <1>2 DEF HandleIoReqList
  <2> DEFINE mine == Staged(C, e, new, n)
  <2>2. /\ freeTd' = F \ ToSet(new)
        /\ chain' = [C EXCEPT ![e] = C[e] \o new]
        /\ lut' = Relabel(U, mine, r)
        /\ quiet' = Quieted(C, Q, e, new, n, type[e])
        /\ list' = [L EXCEPT ![e] = Tail(L[e])]
        /\ data' = D \ {r}
        /\ waiting' = IF Len(L[e]) = 1 THEN Dequeued(e) ELSE waiting
    BY <2>1, Zenon DEF Staged, Relabel, Quieted
  <2>3. L[e] # <<>> /\ e \in Ep \ freeEp /\ e \notin H
    BY <1>2
  <2>4. r \in Req /\ re[r] = e /\ r \notin Flown(U)
    BY <2>3, HeadOfList
  <2>5. n \in {1, 2, 3} /\ (type[e] # "control" => n = 1)
    BY DEF Needed
  <2>6. new \in Picks(F, n)
    BY DEF Picks
  <2> HIDE DEF n, mine, r, ready, pool, short
  <2>7. /\ TdsSound(F \ ToSet(new), [C EXCEPT ![e] = C[e] \o new], Relabel(U, mine, r),
                    Quieted(C, Q, e, new, n, type[e]), B, freeEp, type, re, H)
        /\ Flown(Relabel(U, mine, r)) = Flown(U) \cup {r}
    <3>1. CanSetUp(F, C, U, Q, B, freeEp, type, re, H, e, r, n, new)
      BY <2>3, <2>4, <2>5, <2>6 DEF CanSetUp
    <3>2. GetsTds(U, Relabel(U, mine, r), r)
      BY <3>1, SetUpSound DEF mine
    <3>3. TdsSound(F \ ToSet(new), [C EXCEPT ![e] = C[e] \o new], Relabel(U, mine, r),
                   Quieted(C, Q, e, new, n, type[e]), B, freeEp, type, re, H)
      BY <3>1, SetUpSound DEF mine
    <3>. QED
      BY <3>2, <3>3 DEF GetsTds
  <2>8. TdsSound(freeTd', chain', lut', quiet', B, freeEp, type, re, H) /\ Flown(lut') = Flown(U) \cup {r}
    BY <2>2, <2>7
  <2>9. lut' \in [Td -> Req \cup {None}]
    BY <2>8 DEF TdsSound, TdTypes
  <2>10. ReqsSound(fr, [L EXCEPT ![e] = Tail(L[e])], lut', cl, cr, re)
    BY <2>3, <2>8, <2>9, StartSound DEF r
  <2>11. waiting' \in [Queues -> Seq(Ep)]
    BY <2>2, QueueTypes
  <2>. QED
    BY <2>2, <2>8, <2>10, <2>11
<1>. QED
  BY <1>1, <1>2

\* So does checkTdQueue.
LEMMA CheckSound ==
  ASSUME waiting \in [Queues -> Seq(Ep)], open \subseteq Ep \ freeEp,
         NEW F, NEW L, NEW C, NEW H, NEW U, NEW Q, NEW D, NEW B, NEW fr, NEW cl, NEW cr, NEW re,
         TdsSound(F, C, U, Q, B, freeEp, type, re, H), ReqsSound(fr, L, U, cl, cr, re), D \subseteq Req,
         NEW q \in Queues, CheckTdQueue(q, F, L, C, H, U, Q, D)
  PROVE  /\ TdsSound(freeTd', chain', lut', quiet', B, freeEp, type, re, H)
         /\ ReqsSound(fr, list', lut', cl, cr, re)
         /\ data' \subseteq Req /\ waiting' \in [Queues -> Seq(Ep)]
<1>1. CASE waiting[q] # <<>> /\ F \cap TdsFor(q) # {}
  <2>1. Head(waiting[q]) \in Ep
    BY <1>1, HeadTailProperties
  <2>2. HandleIoReqList(Head(waiting[q]), F, L, C, H, U, Q, D)
    BY <1>1 DEF CheckTdQueue
  <2>. QED
    BY <2>1, <2>2, HandleSound
<1>2. CASE ~(waiting[q] # <<>> /\ F \cap TdsFor(q) # {})
  <2>1. /\ freeTd' = F /\ list' = L /\ chain' = C /\ lut' = U /\ quiet' = Q /\ data' = D
        /\ waiting' = waiting
    BY <1>2 DEF CheckTdQueue
  <2>. QED
    BY <2>1
<1>. QED
  BY <1>1, <1>2
-----------------------------------------------------------------------------
(* The TDs on their way back                                               *)

\* The first of two joined sequences gives its head.
LEMMA TailOfJoined ==
  ASSUME NEW S, NEW s \in Seq(S), s # <<>>, NEW t \in Seq(S)
  PROVE  s \o t # <<>> /\ Head(s \o t) = Head(s) /\ Tail(s \o t) = Tail(s) \o t
<1>1. Joined(S, s, t, Len(s), Len(t), s \o t) /\ Len(s) \in Nat \ {0} /\ Len(t) \in Nat /\ s \o t \in Seq(S)
  BY JoinedAt, LenProperties, EmptySeq, ConcatProperties
<1>2. s \o t # <<>> /\ Head(s \o t) = Head(s)
  BY <1>1, EmptySeq DEF Joined
<1>3. /\ Tail(s) \in Seq(S) /\ Len(Tail(s)) = Len(s) - 1
      /\ \A i \in 1..(Len(s) - 1) : Tail(s)[i] = s[i + 1]
  BY HeadTailProperties
<1>4. /\ Tail(s \o t) \in Seq(S) /\ Len(Tail(s \o t)) = Len(s) + Len(t) - 1
      /\ \A i \in 1..(Len(s) + Len(t) - 1) : Tail(s \o t)[i] = (s \o t)[i + 1]
  BY <1>1, <1>2, HeadTailProperties DEF Joined
<1>5. Joined(S, Tail(s), t, Len(s) - 1, Len(t), Tail(s) \o t)
  BY <1>3, JoinedAt
<1>6. Tail(s \o t) = Tail(s) \o t
  <2>1. Tail(s) \o t \in Seq(S) /\ Len(Tail(s) \o t) = Len(s) + Len(t) - 1
    BY <1>1, <1>5 DEF Joined
  <2>2. ASSUME NEW i \in 1..(Len(s) + Len(t) - 1) PROVE Tail(s \o t)[i] = (Tail(s) \o t)[i]
    <3>1. CASE i <= Len(s) - 1
      BY <3>1, <2>2, <1>1, <1>3, <1>4, <1>5 DEF Joined
    <3>2. CASE ~(i <= Len(s) - 1)
      BY <3>2, <2>2, <1>1, <1>4, <1>5 DEF Joined
    <3>. QED
      BY <3>1, <3>2
  <2>. QED
    BY <1>4, <2>1, <2>2, SeqEqual
<1>. QED
  BY <1>2, <1>6

\* The controller adds a TD at the end, and the thread takes the first; handing over changes nothing.
LEMMA BackMoves ==
  ASSUME NEW d \in Seq(DoneRec), NEW w \in Seq(DoneRec), NEW r \in Seq(DoneRec)
  PROVE  /\ \A x \in DoneRec : d \o w \o Append(r, x) = Append(d \o w \o r, x)
         /\ w = <<>> => d \o r \o <<>> = d \o w \o r
         /\ d = <<>> => w \o <<>> \o r = d \o w \o r
         /\ d # <<>> => /\ d \o w \o r # <<>> /\ Head(d \o w \o r) = Head(d)
                        /\ Tail(d) \o w \o r = Tail(d \o w \o r)
<1>1. d \o w \in Seq(DoneRec) /\ d \o r \in Seq(DoneRec)
  BY ConcatProperties
<1>2. ASSUME NEW x \in DoneRec PROVE d \o w \o Append(r, x) = Append(d \o w \o r, x)
  <2>1. <<x>> \in Seq(DoneRec) /\ (d \o w) \o r \in Seq(DoneRec)
    BY <1>1, ConcatProperties
  <2>2. Append(r, x) = r \o <<x>> /\ Append((d \o w) \o r, x) = ((d \o w) \o r) \o <<x>>
    BY <2>1, AppendIsConcat
  <2>3. ((d \o w) \o r) \o <<x>> = (d \o w) \o (r \o <<x>>)
    BY <1>1, <2>1, ConcatAssociative
  <2>. QED
    BY <2>2, <2>3
<1>3. w = <<>> => d \o r \o <<>> = d \o w \o r
  BY <1>1, ConcatEmptySeq
<1>4. d = <<>> => w \o <<>> \o r = d \o w \o r
  BY ConcatEmptySeq
<1>5. ASSUME d # <<>>
      PROVE  /\ d \o w \o r # <<>> /\ Head(d \o w \o r) = Head(d)
             /\ Tail(d) \o w \o r = Tail(d \o w \o r)
  <2>1. d \o w # <<>> /\ Head(d \o w) = Head(d) /\ Tail(d \o w) = Tail(d) \o w
    BY <1>5, TailOfJoined
  <2>2. (d \o w) \o r # <<>> /\ Head((d \o w) \o r) = Head(d \o w) /\ Tail((d \o w) \o r) = Tail(d \o w) \o r
    BY <1>1, <2>1, TailOfJoined
  <2>. QED
    BY <2>1, <2>2
<1>. QED
  BY <1>2, <1>3, <1>4, <1>5
-----------------------------------------------------------------------------
(* The invariant holds at first                                            *)

\* Nothing is at the controller, and all is free.
LEMMA InitInv == Init => Inv
<1> SUFFICES ASSUME Init PROVE Inv
  OBVIOUS
<1>1. Back = <<>> /\ DOMAIN Back = {} /\ Back \in Seq(DoneRec) /\ TdsOf(Back) = {}
  <2>1. <<>> \in Seq(DoneRec)
    OBVIOUS
  <2>2. Back = <<>>
    BY <2>1, ConcatEmptySeq DEF Init, Back
  <2>. QED
    BY <2>1, <2>2 DEF TdsOf
<1>2. \A e \in Ep : chain[e] = <<>> /\ ToSet(chain[e]) = {} /\ Busy(chain, e) = {} /\ Once(chain[e])
  BY DEF Init, ToSet, Busy, Once
<1>3. \A e \in Ep : list[e] = <<>> /\ ToSet(list[e]) = {} /\ Once(list[e])
  BY DEF Init, ToSet, Once
<1>4. Listed(list) = {} /\ Flown(lut) = {} /\ ToSet(cbList) = {} /\ Once(cbList)
  BY <1>3 DEF Init, Listed, Flown, ToSet, Once
<1>5. RestTypes
  <2>1. waiting \in [Queues -> Seq(Ep)] /\ <<>> \in Seq(DoneRec)
    BY DEF Init
  <2>2. sent \in [Ep -> SUBSET Xfer] /\ earlier \in [Xfer -> SUBSET Xfer]
    BY DEF Init
  <2>3. cbEvent \in BOOLEAN /\ cbPc \in {"wait", "loop", "free", "call"}
    BY DEF Init
  <2>. QED
    BY <2>1, <2>2, <2>3 DEF Init, RestTypes
<1>6. TdsSound(freeTd, chain, lut, quiet, Back, freeEp, type, reqEp, halted)
  <2>1. TdTypes(freeTd, chain, lut, quiet, Back)
    BY <1>1 DEF Init, TdTypes
  <2>2. EpTypes(freeEp, type, reqEp, halted)
    BY DEF Init, EpTypes, AllTypes
  <2>3. Apart(freeTd, chain, Back)
    BY <1>1, <1>2 DEF Init, Apart
  <2>4. Labelled(freeTd, chain, lut, Back, freeEp, reqEp)
    BY <1>1, <1>2 DEF Init, Labelled
  <2>5. LastAsks(chain, lut, quiet, Back, type, reqEp)
    <3>1. \A t \in Td : lut[t] = None
      BY DEF Init
    <3>2. \A e \in Ep : \A i, j \in 1..(Len(chain[e]) - 1) : FALSE
      BY <1>2
    <3>. QED
      BY <1>1, <1>2, <3>1, <3>2 DEF Init, LastAsks
  <2>6. HaltsAt(lut, Back, freeEp, type, reqEp, halted)
    BY <1>1 DEF Init, HaltsAt
  <2>. QED
    BY <2>1, <2>2, <2>3, <2>4, <2>5, <2>6 DEF TdsSound
<1>7. ReqsSound(freeReq, list, lut, cbList, cbReq, reqEp)
  BY <1>3, <1>4, UsbTransferAssumption DEF Init, ReqsSound
<1>8. Owned(freeReq, owner, cbPc, cbReq, cbXfer, Sent)
  <2>1. Sent = {}
    BY DEF Init, Sent
  <2>. QED
    BY <2>1 DEF Init, Owned
<1>. QED
  BY <1>5, <1>6, <1>7, <1>8 DEF Inv
-----------------------------------------------------------------------------
(* Every action keeps it                                                   *)

\* What Inv says of the types.
LEMMA InvTypes ==
  ASSUME Inv
  PROVE  /\ freeTd \subseteq Td /\ freeReq \subseteq Req /\ freeEp \subseteq Ep
         /\ open \subseteq Ep \ freeEp /\ type \in [Ep -> AllTypes]
         /\ list \in [Ep -> Seq(Req)] /\ chain \in [Ep -> Seq(Td)] /\ halted \subseteq Ep
         /\ lut \in [Td -> Req \cup {None}] /\ quiet \subseteq Td
         /\ retired \in Seq(DoneRec) /\ written \in Seq(DoneRec) /\ done \in Seq(DoneRec)
         /\ reqEp \in [Req -> Ep] /\ cbList \in Seq(Req) /\ cbReq \in Req \cup {None}
         /\ waiting \in [Queues -> Seq(Ep)]
  BY DEF Inv, RestTypes, TdsSound, TdTypes, EpTypes, ReqsSound

\* What is not touched stays sound.
LEMMA InvStutter ==
  ASSUME Inv, UNCHANGED vars
  PROVE  Inv'
<1>1. Back' = Back /\ Sent' = Sent
  BY DEF vars, log, hc, tds, Back, Sent
<1>. QED
  BY <1>1 DEF Inv, RestTypes, vars, pools, eps, hc, tds, reqs, cb, log

\* A new endpoint.
LEMMA OpenInv ==
  ASSUME Inv, NEW e \in Ep, NEW ty \in Types, OpenEndpoint(e, ty)
  PROVE  Inv'
<1>1. PICK t \in freeTd : freeTd' = freeTd \ {t} /\ chain' = [chain EXCEPT ![e] = <<t>>]
  BY DEF OpenEndpoint
<1>2. /\ e \in freeEp /\ freeEp' = freeEp \ {e} /\ open' = open \cup {e} /\ type' = [type EXCEPT ![e] = ty]
      /\ UNCHANGED <<freeReq, list, waiting, halted, retired, written, tds, reqs, cb, log>>
  BY DEF OpenEndpoint
<1>3. ty \in AllTypes
  BY UsbTransferAssumption DEF AllTypes
<1>4. Back' = Back /\ Sent' = Sent
  BY <1>2 DEF Back, Sent, tds, log
<1>5. TdsSound(freeTd', chain', lut, quiet, Back, freeEp', type', reqEp, halted)
  BY <1>1, <1>2, <1>3, OpenSound DEF Inv
<1>6. RestTypes'
  BY <1>2 DEF Inv, RestTypes, tds, reqs, cb, log
<1>. QED
  BY <1>2, <1>4, <1>5, <1>6 DEF Inv, tds, reqs, cb, log

\* A closed one.
LEMMA RemoveInv ==
  ASSUME Inv, NEW e \in Ep, RemoveEndpoint(e)
  PROVE  Inv'
<1>1. /\ open' \subseteq open
      /\ UNCHANGED <<pools, type, list, waiting, hc, tds, reqs, cb, log>>
  BY DEF RemoveEndpoint
<1>2. Back' = Back /\ Sent' = Sent
  BY <1>1 DEF Back, Sent, hc, tds, log
<1>3. RestTypes'
  BY <1>1 DEF Inv, RestTypes, pools, hc, tds, reqs, cb, log
<1>. QED
  BY <1>1, <1>2, <1>3 DEF Inv, pools, hc, tds, reqs, cb, log

\* The controller retires a TD.
LEMMA HcRetireInv ==
  ASSUME Inv, NEW e \in Ep, NEW failed \in BOOLEAN, HcRetire(e, failed)
  PROVE  Inv'
<1> DEFINE d == [td |-> Head(chain[e]), failed |-> failed]
<1>1. /\ Len(chain[e]) > 1 /\ e \notin halted
      /\ retired' = Append(retired, d)
      /\ chain' = [chain EXCEPT ![e] = Tail(chain[e])]
      /\ halted' = IF failed /\ type[e] # "iso" THEN halted \cup {e} ELSE halted
      /\ UNCHANGED <<pools, eps, written, tds, reqs, cb, log>>
  BY DEF HcRetire
<1>2. chain[e] \in Seq(Td) /\ chain[e] # <<>>
  BY <1>1, InvTypes
<1>3. d \in DoneRec
  BY <1>2, HeadTailProperties DEF DoneRec
<1> HIDE DEF d
<1>4. Back' = Append(Back, d) /\ retired' \in Seq(DoneRec) /\ Sent' = Sent
  <2>1. done \o written \o Append(retired, d) = Append(done \o written \o retired, d)
    <3>1. done \in Seq(DoneRec) /\ written \in Seq(DoneRec) /\ retired \in Seq(DoneRec)
      BY InvTypes
    <3>. QED
      BY <1>3, <3>1, BackMoves, SMTT(30)
  <2>2. Append(retired, d) \in Seq(DoneRec)
    BY <1>3, InvTypes, AppendProperties
  <2>. QED
    BY <1>1, <2>1, <2>2 DEF Back, Sent, tds, log
<1>5. TdsSound(freeTd, chain', lut, quiet, Append(Back, d), freeEp, type, reqEp, halted')
  <2>1. TdsSound(freeTd, chain, lut, quiet, Back, freeEp, type, reqEp, halted)
    BY DEF Inv
  <2>2. d = [td |-> Head(chain[e]), failed |-> failed]
    BY DEF d
  <2> DEFINE H2 == IF failed /\ type[e] # "iso" THEN halted \cup {e} ELSE halted
  <2>3. H2 = IF failed /\ type[e] # "iso" THEN halted \cup {e} ELSE halted
    OBVIOUS
  <2> HIDE DEF H2
  <2>4. TdsSound(freeTd, [chain EXCEPT ![e] = Tail(chain[e])], lut, quiet, Append(Back, d), freeEp, type, reqEp, H2)
    BY <1>1, <2>1, <2>2, <2>3, RetireSound
  <2>. QED
    BY <1>1, <2>4 DEF H2
<1>6. RestTypes'
  BY <1>1, <1>4 DEF Inv, RestTypes, pools, eps, tds, reqs, cb, log
<1>. QED
  BY <1>1, <1>4, <1>5, <1>6 DEF Inv, pools, eps, tds, reqs, cb, log

\* It hands over what it retired.
LEMMA HcWriteDoneInv ==
  ASSUME Inv, HcWriteDone
  PROVE  Inv'
<1>1. /\ written = <<>> /\ written' = retired /\ retired' = <<>>
      /\ UNCHANGED <<pools, eps, chain, halted, tds, reqs, cb, log>>
  BY DEF HcWriteDone
<1>2. Back' = Back /\ Sent' = Sent
  <2>1. done \o retired \o <<>> = done \o written \o retired
    BY <1>1, InvTypes, BackMoves
  <2>. QED
    BY <1>1, <2>1 DEF Back, Sent, tds, log
<1>3. RestTypes'
  BY <1>1 DEF Inv, RestTypes, pools, eps, tds, reqs, cb, log
<1>. QED
  BY <1>1, <1>2, <1>3 DEF Inv, pools, eps, tds, reqs, cb, log

\* The interrupt thread takes it.
LEMMA TakeDoneInv ==
  ASSUME Inv, TakeDone
  PROVE  Inv'
<1>1. /\ done = <<>> /\ done' = written /\ written' = <<>>
      /\ UNCHANGED <<pools, eps, chain, halted, retired, lut, quiet, reqs, cb, log>>
  BY DEF TakeDone, Unlocked
<1>2. Back' = Back /\ Sent' = Sent
  <2>1. written \o <<>> \o retired = done \o written \o retired
    BY <1>1, InvTypes, BackMoves
  <2>. QED
    BY <1>1, <2>1 DEF Back, Sent, log
<1>3. RestTypes'
  BY <1>1 DEF Inv, RestTypes, pools, eps, reqs, cb, log
<1>. QED
  BY <1>1, <1>2, <1>3 DEF Inv, pools, eps, reqs, cb, log

\* The callback thread.
LEMMA CallbackThreadInv ==
  ASSUME Inv, CbWake \/ CbTake \/ CbFree \/ CbCall
  PROVE  Inv'
<1>1. /\ ReqsSound(freeReq, list, lut, cbList, cbReq, reqEp)
      /\ Owned(freeReq, owner, cbPc, cbReq, cbXfer, Sent)
  BY DEF Inv
<1>2. CASE CbWake
  <2>1. /\ cbPc = "wait" /\ cbEvent' = FALSE /\ cbPc' = "loop"
        /\ UNCHANGED <<pools, eps, hc, tds, reqs, cbList, cbReq, cbXfer, log>>
    BY <1>2 DEF CbWake
  <2>2. Back' = Back /\ Sent' = Sent
    BY <2>1 DEF Back, Sent, hc, tds, log
  <2>3. Owned(freeReq, owner, "loop", cbReq, cbXfer, Sent)
    BY <1>1, <2>1, ThreadOwned
  <2>4. RestTypes'
    BY <2>1 DEF Inv, RestTypes, pools, eps, hc, tds, reqs, log
  <2>. QED
    BY <2>1, <2>2, <2>3, <2>4 DEF Inv, pools, eps, hc, tds, reqs, log
<1>3. CASE CbTake /\ cbList = <<>>
  <2>1. /\ cbPc = "loop" /\ cbPc' = "wait"
        /\ UNCHANGED <<pools, eps, hc, tds, reqs, cbList, cbReq, cbXfer, cbEvent, log>>
    BY <1>3 DEF CbTake
  <2>2. Back' = Back /\ Sent' = Sent
    BY <2>1 DEF Back, Sent, hc, tds, log
  <2>3. Owned(freeReq, owner, "wait", cbReq, cbXfer, Sent)
    BY <1>1, <2>1, ThreadOwned
  <2>4. RestTypes'
    BY <2>1 DEF Inv, RestTypes, pools, eps, hc, tds, reqs, log
  <2>. QED
    BY <2>1, <2>2, <2>3, <2>4 DEF Inv, pools, eps, hc, tds, reqs, log
<1>4. CASE CbTake /\ cbList # <<>>
  <2>1. /\ cbPc = "loop" /\ cbPc' = "free"
        /\ cbReq' = Head(cbList) /\ cbXfer' = owner[Head(cbList)] /\ cbList' = Tail(cbList)
        /\ UNCHANGED <<pools, eps, hc, tds, reqs, cbEvent, log>>
    BY <1>4 DEF CbTake
  <2>2. Back' = Back /\ Sent' = Sent
    BY <2>1 DEF Back, Sent, hc, tds, log
  <2>3. cbReq = None
    BY <1>1, <2>1 DEF Owned
  <2>4. ReqsSound(freeReq, list, lut, Tail(cbList), Head(cbList), reqEp) /\ Head(cbList) \in Req \ freeReq
    BY <1>1, <1>4, <2>3, ThreadSound
  <2>5. Owned(freeReq, owner, "free", Head(cbList), owner[Head(cbList)], Sent)
    BY <1>1, <2>1, <2>4, ThreadOwned
  <2>6. RestTypes'
    BY <2>1 DEF Inv, RestTypes, pools, eps, hc, tds, reqs, log
  <2>. QED
    BY <2>1, <2>2, <2>4, <2>5, <2>6 DEF Inv, pools, eps, hc, tds, reqs, log
<1>5. CASE CbFree
  <2>1. /\ cbPc = "free" /\ cbPc' = "call" /\ cbReq' = None
        /\ freeReq' = freeReq \cup {cbReq} /\ owner' = [owner EXCEPT ![cbReq] = None]
        /\ UNCHANGED <<freeTd, freeEp, eps, hc, tds, reqEp, data, cbList, cbEvent, cbXfer, log>>
    BY <1>5 DEF CbFree
  <2>2. Back' = Back /\ Sent' = Sent
    BY <2>1 DEF Back, Sent, hc, tds, log
  <2>3. {cbReq} \ {None} = {cbReq}
    BY <1>1, <2>1, UsbTransferAssumption DEF Owned
  <2>4. ReqsSound(freeReq \cup {cbReq}, list, lut, cbList, None, reqEp)
    BY <1>1, <2>3, ThreadSound
  <2>5. Owned(freeReq \cup {cbReq}, [owner EXCEPT ![cbReq] = None], "call", None, cbXfer, Sent)
    BY <1>1, <2>1, ThreadOwned
  <2>6. RestTypes'
    BY <2>1 DEF Inv, RestTypes, eps, hc, tds, log
  <2>. QED
    BY <2>1, <2>2, <2>4, <2>5, <2>6 DEF Inv, eps, hc, tds, log
<1>6. CASE CbCall
  <2>1. /\ cbPc = "call" /\ cbPc' = "loop" /\ cbXfer' = None /\ Ended({cbXfer})
        /\ UNCHANGED <<pools, eps, hc, tds, reqs, cbList, cbEvent, cbReq>>
    BY <1>6 DEF CbCall
  <2>2. Back' = Back
    BY <2>1 DEF Back, hc, tds
  <2>3. Sent' = Sent \ {cbXfer}
    BY <2>1, SentEnded
  <2>4. Owned(freeReq, owner, "loop", cbReq, None, Sent \ {cbXfer})
    BY <1>1, <2>1, ThreadOwned
  <2>5. sent' \in [Ep -> SUBSET Xfer] /\ earlier' \in [Xfer -> SUBSET Xfer]
    BY <2>1, EndedTypes DEF Inv, RestTypes
  <2>6. RestTypes'
    BY <2>1, <2>5 DEF Inv, RestTypes, pools, eps, hc, tds, reqs
  <2>. QED
    BY <2>1, <2>2, <2>3, <2>4, <2>6 DEF Inv, pools, eps, hc, tds, reqs
<1>. QED
  BY <1>2, <1>3, <1>4, <1>5, <1>6

\* A closed endpoint is killed, when none of its TDs is on its way back.
LEMMA KillInv ==
  ASSUME ~QuietBus, Inv, NEW e \in Ep, KillEndpoint(e)
  PROVE  Inv'
<1> DEFINE gone == InFlight(e)
           X == Flying(e)
           dropped == X \cup ToSet(list[e])
<1>1. /\ done = <<>> /\ e \notin open /\ e \notin freeEp /\ gone \cap Unseen = {}
      /\ freeReq' = freeReq \cup dropped
      /\ freeTd' = freeTd \cup gone \cup {Last(chain[e])}
      /\ lut' = [t \in Td |-> IF t \in gone THEN None ELSE lut[t]]
      /\ quiet' = quiet \ gone
      /\ chain' = [chain EXCEPT ![e] = <<>>] /\ halted' = halted \ {e}
      /\ list' = [list EXCEPT ![e] = <<>>]
      /\ waiting' = Dequeued(e)
      /\ freeEp' = freeEp \cup {e}
      /\ data' = data \ dropped
      /\ owner' = [r \in Req |-> IF r \in dropped THEN None ELSE owner[r]]
      /\ Ended({owner[r] : r \in dropped})
      /\ UNCHANGED <<open, type, retired, written, done, reqEp, cb>>
  BY DEF KillEndpoint, Unlocked
<1>2. gone = {t \in Td : lut[t] # None /\ reqEp[lut[t]] = e} /\ X = {lut[t] : t \in gone}
  BY DEF InFlight, Flying
<1> HIDE DEF gone, X
<1>3. gone \cap TdsOf(Back) = {}
  <2>1. Back = written \o retired /\ written \in Seq(DoneRec) /\ retired \in Seq(DoneRec)
    BY <1>1, InvTypes, ConcatEmptySeq DEF Back
  <2>2. ToSet(Back) = ToSet(written) \cup ToSet(retired)
    BY <2>1, OnConcat
  <2>3. TdsOf(Back) \subseteq Unseen
    BY <2>2 DEF TdsOf, Unseen, ToSet
  <2>. QED
    BY <1>1, <2>3
<1>4. /\ TdsSound(freeTd', chain', lut', quiet', Back, freeEp', type, reqEp, halted')
      /\ LosesTds(lut, lut', X)
  <2>1. CanKill(freeTd, chain, lut, quiet, Back, freeEp, type, reqEp, halted, e, gone, X, lut')
    BY <1>1, <1>2, <1>3 DEF Inv, CanKill
  <2>2. /\ TdsSound(freeTd \cup gone \cup {Last(chain[e])}, [chain EXCEPT ![e] = <<>>], lut', quiet \ gone, Back,
                    freeEp \cup {e}, type, reqEp, halted \ {e})
        /\ LosesTds(lut, lut', X)
    BY <2>1, KillSound
  <2>. QED
    BY <1>1, <2>2
<1>6. /\ ReqsSound(freeReq', list', lut', cbList, cbReq, reqEp)
      /\ dropped \subseteq Req \ (freeReq \cup {cbReq})
  <2>1. ReqsSound(freeReq, list, lut, cbList, cbReq, reqEp)
    BY DEF Inv
  <2>2. /\ ReqsSound(freeReq \cup (X \cup ToSet(list[e])), [list EXCEPT ![e] = <<>>], lut', cbList, cbReq, reqEp)
        /\ X \cup ToSet(list[e]) \subseteq Req \ (freeReq \cup {cbReq})
    BY <1>4, <2>1, DropSound, ZenonT(30)
  <2>. QED
    BY <1>1, <2>2
<1>7. Sent' = Sent \ {owner[r] : r \in dropped}
  BY <1>1, SentEnded
<1> HIDE DEF dropped
<1>8. Owned(freeReq', owner', cbPc, cbReq, cbXfer, Sent')
  <2>1. Owned(freeReq, owner, cbPc, cbReq, cbXfer, Sent) /\ dropped \in SUBSET (Req \ freeReq) /\ cbReq \notin dropped
    BY <1>6 DEF Inv
  <2>2. Owned(freeReq \cup dropped, [q \in Req |-> IF q \in dropped THEN None ELSE owner[q]], cbPc, cbReq, cbXfer,
              Sent \ {owner[q] : q \in dropped})
    BY <2>1, ForgetOwned
  <2>. QED
    BY <1>1, <1>7, <2>2
<1>9. RestTypes'
  <2>1. sent' \in [Ep -> SUBSET Xfer] /\ earlier' \in [Xfer -> SUBSET Xfer]
    BY <1>1, EndedTypes DEF Inv, RestTypes
  <2>2. waiting' \in [Queues -> Seq(Ep)]
    BY <1>1, QueueTypes DEF Inv, RestTypes
  <2>. QED
    BY <1>1, <2>1, <2>2 DEF Inv, RestTypes, cb
<1>10. Back' = Back
  BY <1>1 DEF Back
<1>. QED
  BY <1>1, <1>4, <1>6, <1>8, <1>9, <1>10 DEF Inv, cb

\* A transfer is accepted.
LEMMA UsbTransferInv ==
  ASSUME Inv, NEW e \in Ep, NEW x \in Xfer, NEW hasData \in BOOLEAN, UsbTransfer(e, x, hasData)
  PROVE  Inv'
<1>1. PICK r \in freeReq :
        /\ freeReq' = freeReq \ {r}
        /\ reqEp' = [reqEp EXCEPT ![r] = e]
        /\ owner' = [owner EXCEPT ![r] = x]
        /\ HandleIoReqList(e, freeTd, Attached(e, r), chain, halted,
                           lut, quiet, IF hasData THEN data \cup {r} ELSE data)
  BY DEF UsbTransfer
<1>2. /\ x \notin Sent
      /\ sent' = [sent EXCEPT ![e] = sent[e] \cup {x}] /\ earlier' = [earlier EXCEPT ![x] = sent[e]]
      /\ UNCHANGED <<freeEp, open, type, halted, retired, written, done, cb>>
  BY DEF UsbTransfer
<1>3. r \in Req /\ r \notin Flown(lut)
  BY DEF Inv, ReqsSound
<1>4. ReqsSound(freeReq', Attached(e, r), lut, cbList, cbReq, reqEp')
  <2>1. ReqsSound(freeReq, list, lut, cbList, cbReq, reqEp)
    BY DEF Inv
  <2>. QED
    BY <1>1, <2>1, AttachSound DEF Attached
<1>5. TdsSound(freeTd, chain, lut, quiet, Back, freeEp, type, reqEp', halted)
  <2>1. TdsSound(freeTd, chain, lut, quiet, Back, freeEp, type, reqEp, halted)
    BY DEF Inv
  <2>2. reqEp' \in [Req -> Ep] /\ \A s \in Flown(lut) : reqEp'[s] = reqEp[s]
    <3>1. \A s \in Flown(lut) : s \in Req
      BY InvTypes DEF Flown
    <3>. QED
      BY <1>1, <1>3, <3>1, InvTypes
  <2>. QED
    BY <2>1, <2>2, MovedSound
<1>6. /\ TdsSound(freeTd', chain', lut', quiet', Back, freeEp, type, reqEp', halted)
      /\ ReqsSound(freeReq', list', lut', cbList, cbReq, reqEp')
      /\ data' \subseteq Req /\ waiting' \in [Queues -> Seq(Ep)]
  <2>1. (IF hasData THEN data \cup {r} ELSE data) \subseteq Req
    BY <1>3 DEF Inv, RestTypes
  <2>2. waiting \in [Queues -> Seq(Ep)] /\ open \subseteq Ep \ freeEp
    BY InvTypes
  <2>. QED
    BY <1>1, <1>4, <1>5, <2>1, <2>2, HandleSound
<1>7. Sent' = Sent \cup {x}
  <2>1. sent \in [Ep -> SUBSET Xfer]
    BY DEF Inv, RestTypes
  <2>2. \A f \in Ep : sent'[f] = IF f = e THEN sent[e] \cup {x} ELSE sent[f]
    BY <1>2, <2>1
  <2>. QED
    BY <2>2 DEF Sent
<1>8. Owned(freeReq', owner', cbPc, cbReq, cbXfer, Sent')
  <2>1. Owned(freeReq, owner, cbPc, cbReq, cbXfer, Sent) /\ freeReq \subseteq Req
    BY InvTypes DEF Inv
  <2>. QED
    BY <1>1, <1>2, <1>7, <2>1, AcceptOwned
<1>9. RestTypes'
  <2>1. sent' \in [Ep -> SUBSET Xfer] /\ earlier' \in [Xfer -> SUBSET Xfer]
    BY <1>2 DEF Inv, RestTypes
  <2>. QED
    BY <1>2, <1>6, <2>1 DEF Inv, RestTypes, cb
<1>10. Back' = Back
  BY <1>2 DEF Back
<1>. QED
  BY <1>2, <1>6, <1>8, <1>9, <1>10 DEF Inv, cb

\* The different requests of a sequence.
LEMMA UniquesAre ==
  ASSUME NEW S, NEW s \in Seq(S), NEW l \in Uniques(s)
  PROVE  l \in Seq(S) /\ Once(l) /\ ToSet(l) = ToSet(s)
<1>1. Len(s) \in Nat /\ DOMAIN s = 1..Len(s) /\ ToSet(s) \subseteq S
  BY LenProperties, ElementOfSeq DEF ToSet
<1>2. PICK n \in 0..Len(s) : l \in [1..n -> ToSet(s)]
  BY DEF Uniques
<1>3. /\ ToSet(l) = ToSet(s)
      /\ \A i, j \in DOMAIN l : i < j => \E h \in DOMAIN s : s[h] = l[i] /\ \A k \in 1..h : s[k] # l[j]
  BY DEF Uniques
<1>4. n \in Nat /\ DOMAIN l = 1..n /\ l \in [1..n -> S]
  BY <1>1, <1>2
<1>5. l \in Seq(S)
  BY <1>4, FunIsSeq
<1>6. ASSUME NEW i \in DOMAIN l, NEW j \in DOMAIN l, i < j PROVE l[i] # l[j]
  <2>1. PICK h \in DOMAIN s : s[h] = l[i] /\ \A k \in 1..h : s[k] # l[j]
    BY <1>3, <1>6
  <2>2. h \in 1..h
    BY <1>1
  <2>. QED
    BY <2>1, <2>2
<1>7. ASSUME NEW i \in DOMAIN l, NEW j \in DOMAIN l, l[i] = l[j] PROVE i = j
  <2>1. i \in Int /\ j \in Int
    BY <1>4
  <2>. QED
    BY <2>1, <1>6, <1>7
<1>. QED
  BY <1>3, <1>5, <1>7 DEF Once

\* The interrupt thread works through a descriptor.
LEMMA ProcessDoneInv ==
  ASSUME Inv, ProcessDone
  PROVE  Inv'
<1> DEFINE d == Head(done)
           r == lut[d.td]
           e == reqEp[r]
           abort == d.failed /\ e \in halted
           last == Len(chain[e])
           undone == IF abort THEN {chain[e][i] : i \in 1..(last - 1)} ELSE {}
           first == IF d.failed \/ d.td \notin quiet THEN <<r>> ELSE <<>>
           aborted == IF abort THEN [i \in 1..(last - 1) |-> lut[chain[e][i]]] ELSE <<>>
           back == undone \cup {d.td}
           C1 == IF abort THEN [chain EXCEPT ![e] = <<chain[e][last]>>] ELSE chain
           H1 == IF abort THEN halted \ {e} ELSE halted
           U1 == [t \in Td |-> IF t \in back THEN None ELSE lut[t]]
           ended == EndedBy(Back, halted, chain, lut, quiet, reqEp)
<1>1. /\ done # <<>> /\ done' = Tail(done)
      /\ UNCHANGED <<freeEp, open, type, retired, written, reqEp, cbPc, cbReq, cbXfer>>
  BY DEF ProcessDone
<1>2. Back # <<>> /\ Head(Back) = d /\ Tail(Back) = Back' /\ done' \in Seq(DoneRec)
  <2>1. done \in Seq(DoneRec) /\ written \in Seq(DoneRec) /\ retired \in Seq(DoneRec)
    BY InvTypes
  <2>2. /\ done \o written \o retired # <<>> /\ Head(done \o written \o retired) = Head(done)
        /\ Tail(done) \o written \o retired = Tail(done \o written \o retired)
    BY <1>1, <2>1, BackMoves
  <2>3. Tail(done) \in Seq(DoneRec)
    BY <1>1, <2>1, HeadTailProperties
  <2>. QED
    BY <1>1, <2>2, <2>3 DEF Back
<1>3. d.td \in Td /\ r # None /\ r \in Req /\ e \in Ep \ freeEp
  <2>1. TdsSound(freeTd, chain, lut, quiet, Back, freeEp, type, reqEp, halted)
    BY DEF Inv
  <2>2. d.td \in TdsOf(Back) /\ TdsOf(Back) \subseteq Td
    BY <1>2, <2>1, EndedSound, WhereTdsAre
  <2>3. r # None /\ e \notin freeEp
    BY <2>1, <2>2 DEF TdsSound, Labelled
  <2>4. r \in Req /\ e \in Ep
    BY <2>2, <2>3, InvTypes
  <2>. QED
    BY <2>2, <2>3, <2>4
<1>4. /\ halted' = H1
      /\ CheckTdQueue(QueueOf(e), freeTd \cup back, list, C1, halted', U1, quiet \ back, data)
      /\ \E ends \in Uniques(first \o aborted) :
           IF e \in open
           THEN Signal(ends) /\ UNCHANGED <<freeReq, owner, log>>
           ELSE /\ freeReq' = freeReq \cup ToSet(ends)
                /\ owner' = [s \in Req |-> IF s \in ToSet(ends) THEN None ELSE owner[s]]
                /\ Ended({owner[s] : s \in ToSet(ends)})
                /\ UNCHANGED <<cbList, cbEvent>>
  BY <1>3, Zenon DEF ProcessDone
<1>5. back = TakenBack(Back, halted, chain, lut, reqEp)
  BY <1>2 DEF TakenBack, Aborts, Busy
<1>6. first \o aborted \in Seq(Req) /\ ToSet(first \o aborted) = ended
  <2>1. first \in Seq(Req) /\ ToSet(first) = IF d.failed \/ d.td \notin quiet THEN {r} ELSE {}
    BY <1>3 DEF ToSet
  <2>2. aborted \in Seq(Req) /\ ToSet(aborted) = IF abort THEN {lut[t] : t \in Busy(chain, e)} ELSE {}
    <3>1. CASE ~abort
      <4>0. aborted = <<>>
        BY <3>1, Zenon
      <4>. HIDE DEF aborted
      <4>1. aborted = <<>> /\ <<>> \in Seq(Req) /\ DOMAIN <<>> = {}
        BY <4>0
      <4>2. ToSet(<<>>) = {}
        BY DEF ToSet
      <4> HIDE DEF aborted
      <4>. QED
        BY <3>1, <4>1, <4>2
    <3>2. CASE abort
      <4> DEFINE n == last - 1
                 f == [i \in 1..n |-> lut[chain[e][i]]]
      <4>1. n \in Nat
        BY <1>3, WhereTdsAre DEF Inv
      <4>2. \A t \in Busy(chain, e) : lut[t] \in Req
        <5>1. \A t \in Busy(chain, e) : t \in Td /\ lut[t] # None
          BY <1>3, WhereTdsAre DEF Inv, TdsSound, Labelled
        <5>. QED
          BY <5>1, InvTypes
      <4>3. f \in [1..n -> Req]
        BY <4>2 DEF Busy
      <4>4. DOMAIN f = 1..n /\ \A i \in 1..n : f[i] = lut[chain[e][i]]
        OBVIOUS
      <4>5. ToSet(f) = {lut[t] : t \in Busy(chain, e)}
        <5>1. Busy(chain, e) = {chain[e][i] : i \in 1..n}
          BY DEF Busy
        <5> HIDE DEF f, n
        <5>2. ToSet(f) = {lut[chain[e][i]] : i \in 1..n}
          BY <4>4 DEF ToSet
        <5>. QED
          BY <5>1, <5>2
      <4>6. f \in Seq(Req)
        <5> HIDE DEF f, n
        <5>. QED
          BY <4>1, <4>3, FunIsSeq
      <4>. QED
        BY <3>2, <4>5, <4>6
    <3>. QED
      BY <3>1, <3>2
  <2> HIDE DEF first, aborted
  <2>3. ToSet(first \o aborted) = ToSet(first) \cup ToSet(aborted) /\ first \o aborted \in Seq(Req)
    BY <2>1, <2>2, OnConcat, ConcatProperties
  <2>. QED
    BY <1>2, <2>1, <2>2, <2>3 DEF EndedBy, Aborts
<1>7. PICK ends \in Uniques(first \o aborted) :
        IF e \in open
        THEN Signal(ends) /\ UNCHANGED <<freeReq, owner, log>>
        ELSE /\ freeReq' = freeReq \cup ToSet(ends)
             /\ owner' = [s \in Req |-> IF s \in ToSet(ends) THEN None ELSE owner[s]]
             /\ Ended({owner[s] : s \in ToSet(ends)})
             /\ UNCHANGED <<cbList, cbEvent>>
  BY <1>4
<1>8. ends \in Seq(Req) /\ Once(ends) /\ ToSet(ends) = ended
  <2> DEFINE s == first \o aborted
  <2>1. s \in Seq(Req) /\ ends \in Uniques(s) /\ ToSet(s) = ended
    BY <1>6, <1>7
  <2> HIDE DEF s, ended
  <2>. QED
    BY <2>1, UniquesAre
<1>9. QueueOf(e) \in Queues
  BY DEF QueueOf, Queues
<1>10. CanProcess(freeTd, chain, lut, quiet, Back, freeEp, type, reqEp, halted, back, ended, C1, U1, H1)
  <2>1. TdsSound(freeTd, chain, lut, quiet, Back, freeEp, type, reqEp, halted)
    BY DEF Inv
  <2>2. Aborts(Back, halted, lut, reqEp) <=> abort
    BY <1>2 DEF Aborts
  <2>. QED
    BY <1>2, <1>5, <2>1, <2>2, Zenon DEF CanProcess
<1> HIDE DEF back, C1, U1, H1, ended, e, r, d
<1>11. TdsSound(freeTd \cup back, C1, U1, quiet \ back, Back', freeEp, type, reqEp, H1) /\ LosesTds(lut, U1, ended)
  BY <1>2, <1>10, ProcessSound
<1>12. ReqsSound(freeReq, list, lut, cbList, cbReq, reqEp) /\ Owned(freeReq, owner, cbPc, cbReq, cbXfer, Sent)
  BY DEF Inv
<1>13. /\ ReqsSound(freeReq', list, U1, cbList', cbReq, reqEp)
       /\ Owned(freeReq', owner', cbPc, cbReq, cbXfer, Sent')
       /\ cbEvent' \in BOOLEAN /\ sent' \in [Ep -> SUBSET Xfer] /\ earlier' \in [Xfer -> SUBSET Xfer]
  <2>1. CASE e \in open
    <3>1. cbList' = cbList \o ends /\ cbEvent' \in BOOLEAN /\ UNCHANGED <<freeReq, owner, log>>
      BY <1>7, <2>1, Zenon DEF Signal
    <3>2. ReqsSound(freeReq, list, U1, cbList \o ends, cbReq, reqEp)
      BY <1>8, <1>11, <1>12, CallBackSound
    <3>3. Sent' = Sent
      BY <3>1 DEF Sent, log
    <3>. QED
      BY <1>12, <3>1, <3>2, <3>3 DEF log, Inv, RestTypes
  <2>2. CASE e \notin open
    <3>1. /\ freeReq' = freeReq \cup ended
          /\ owner' = [s \in Req |-> IF s \in ended THEN None ELSE owner[s]]
          /\ Ended({owner[s] : s \in ended})
          /\ UNCHANGED <<cbList, cbEvent>>
      BY <1>7, <1>8, <2>2
    <3>2. ReqsSound(freeReq \cup ended, list, U1, cbList, cbReq, reqEp) /\ ended \subseteq Req \ (freeReq \cup {cbReq})
      BY <1>11, <1>12, FreeSound
    <3>3. Owned(freeReq \cup ended, [s \in Req |-> IF s \in ended THEN None ELSE owner[s]], cbPc, cbReq, cbXfer,
                Sent \ {owner[s] : s \in ended})
      <4>1. ended \in SUBSET (Req \ freeReq) /\ cbReq \notin ended
        BY <3>2
      <4>. QED
        BY <1>12, <4>1, ForgetOwned
    <3>4. Sent' = Sent \ {owner[s] : s \in ended}
      BY <3>1, SentEnded
    <3>5. sent' \in [Ep -> SUBSET Xfer] /\ earlier' \in [Xfer -> SUBSET Xfer]
      BY <3>1, EndedTypes DEF Inv, RestTypes
    <3>. QED
      BY <3>1, <3>2, <3>3, <3>4, <3>5 DEF Inv, RestTypes
  <2>. QED
    BY <2>1, <2>2
<1>14. /\ TdsSound(freeTd', chain', lut', quiet', Back', freeEp, type, reqEp, halted')
       /\ ReqsSound(freeReq', list', lut', cbList', cbReq, reqEp)
       /\ data' \subseteq Req /\ waiting' \in [Queues -> Seq(Ep)]
  <2>1. data \subseteq Req /\ waiting \in [Queues -> Seq(Ep)] /\ open \subseteq Ep \ freeEp
    BY DEF Inv, RestTypes
  <2>2. CheckTdQueue(QueueOf(e), freeTd \cup back, list, C1, halted', U1, quiet \ back, data)
    BY <1>4
  <2>3. TdsSound(freeTd \cup back, C1, U1, quiet \ back, Back', freeEp, type, reqEp, halted')
    BY <1>4, <1>11
  <2>. QED
    BY <1>9, <1>13, <2>1, <2>2, <2>3, CheckSound
<1>15. RestTypes'
  BY <1>1, <1>2, <1>13, <1>14 DEF Inv, RestTypes
<1>. QED
  BY <1>1, <1>13, <1>14, <1>15 DEF Inv

\* Inv is inductive on such a bus.
LEMMA InvStep ==
  ASSUME ~QuietBus, Inv, [Next]_vars
  PROVE  Inv'
<1>1. ASSUME NEW e \in Ep, NEW ty \in Types, OpenEndpoint(e, ty) PROVE Inv'
  BY <1>1, OpenInv
<1>2. ASSUME NEW e \in Ep, RemoveEndpoint(e) PROVE Inv'
  BY <1>2, RemoveInv
<1>3. ASSUME NEW e \in Ep, KillEndpoint(e) PROVE Inv'
  BY <1>3, KillInv
<1>4. ASSUME NEW e \in Ep, NEW x \in Xfer, NEW hasData \in BOOLEAN, UsbTransfer(e, x, hasData) PROVE Inv'
  BY <1>4, UsbTransferInv
<1>5. ASSUME NEW e \in Ep, NEW failed \in BOOLEAN, HcRetire(e, failed) PROVE Inv'
  BY <1>5, HcRetireInv
<1>6. CASE HcWriteDone
  BY <1>6, HcWriteDoneInv
<1>7. CASE TakeDone
  BY <1>7, TakeDoneInv
<1>8. CASE ProcessDone
  BY <1>8, ProcessDoneInv
<1>9. CASE CbWake \/ CbTake \/ CbFree \/ CbCall
  BY <1>9, CallbackThreadInv
<1>10. CASE UNCHANGED vars
  BY <1>10, InvStutter
<1>. QED
  BY <1>1, <1>2, <1>3, <1>4, <1>5, <1>6, <1>7, <1>8, <1>9, <1>10 DEF Next
-----------------------------------------------------------------------------
(* What follows from it                                                    *)

\* A TD is in one place.
LEMMA TdsOneOwner == Inv => TdOneOwner
<1> SUFFICES ASSUME Inv PROVE TdOneOwner
  OBVIOUS
<1>1. TdTypes(freeTd, chain, lut, quiet, Back) /\ Apart(freeTd, chain, Back)
  BY DEF Inv, TdsSound
<1>2. BackTds = TdsOf(Back)
  BY DEF BackTds, TdsOf
<1>3. BackTds \subseteq Td /\ \A e \in Ep : ToSet(chain[e]) \subseteq Td
  BY <1>2, WhereTdsAre DEF Inv
<1>4. Td = freeTd \cup BackTds \cup UNION {ToSet(chain[e]) : e \in Ep}
  BY <1>1, <1>2, <1>3 DEF Apart, TdTypes
<1>. QED
  BY <1>1, <1>2, <1>4 DEF TdOneOwner, Apart, Once

\* A request is in one place.
LEMMA ReqsOneOwner == Inv => ReqOneOwner
<1> SUFFICES ASSUME Inv PROVE ReqOneOwner
  OBVIOUS
<1>1. ReqsSound(freeReq, list, lut, cbList, cbReq, reqEp)
  BY DEF Inv
<1>2. /\ DOMAIN Places = {"free", "listed", "flying", "back", "thread"}
      /\ Places["free"] = freeReq /\ Places["listed"] = Listed(list) /\ Places["flying"] = Flown(lut)
      /\ Places["back"] = ToSet(cbList) /\ Places["thread"] = {cbReq} \ {None}
  BY DEF Places, Listed, Flown
<1>3. ASSUME NEW r \in Req
      PROVE  \E p \in DOMAIN Places : r \in Places[p] /\ \A q \in DOMAIN Places \ {p} : r \notin Places[q]
  <2>1. r \in freeReq \/ r \in Listed(list) \/ r \in Flown(lut) \/ r \in ToSet(cbList) \/ r \in {cbReq} \ {None}
    BY <1>1 DEF ReqsSound
  <2>2. CASE r \in freeReq
    <3>1. r \notin Listed(list) /\ r \notin Flown(lut) /\ r \notin ToSet(cbList) /\ r \notin {cbReq} \ {None}
      BY <2>2, <1>1 DEF ReqsSound
    <3>. QED
      BY <2>2, <3>1, <1>2
  <2>3. CASE r \in Listed(list)
    <3>1. r \notin freeReq /\ r \notin Flown(lut) /\ r \notin ToSet(cbList) /\ r \notin {cbReq} \ {None}
      BY <2>3, <1>1 DEF ReqsSound
    <3>. QED
      BY <2>3, <3>1, <1>2
  <2>4. CASE r \in Flown(lut)
    <3>1. r \notin freeReq /\ r \notin Listed(list) /\ r \notin ToSet(cbList) /\ r \notin {cbReq} \ {None}
      BY <2>4, <1>1 DEF ReqsSound
    <3>. QED
      BY <2>4, <3>1, <1>2
  <2>5. CASE r \in ToSet(cbList)
    <3>1. r \notin freeReq /\ r \notin Listed(list) /\ r \notin Flown(lut) /\ r \notin {cbReq} \ {None}
      BY <2>5, <1>1 DEF ReqsSound
    <3>. QED
      BY <2>5, <3>1, <1>2
  <2>6. CASE r \in {cbReq} \ {None}
    <3>1. r \notin freeReq /\ r \notin Listed(list) /\ r \notin Flown(lut) /\ r \notin ToSet(cbList)
      BY <2>6, <1>1 DEF ReqsSound
    <3>. QED
      BY <2>6, <3>1, <1>2
  <2>. QED
    BY <2>1, <2>2, <2>3, <2>4, <2>5, <2>6
<1>4. \A i, j \in DOMAIN cbList : cbList[i] = cbList[j] => i = j
  BY <1>1 DEF ReqsSound, Once
<1>5. \A e \in Ep :
        /\ \A i, j \in DOMAIN list[e] : list[e][i] = list[e][j] => i = j
        /\ \A i \in DOMAIN list[e] : reqEp[list[e][i]] = e
  BY <1>1 DEF ReqsSound, Once, ToSet
<1>. QED
  BY <1>3, <1>4, <1>5 DEF ReqOneOwner

\* A transfer has one request, or its callback is being made.
LEMMA NoneLost == Inv => NoLostCallback
<1> SUFFICES ASSUME Inv PROVE NoLostCallback
  OBVIOUS
<1>1. /\ Owned(freeReq, owner, cbPc, cbReq, cbXfer, Sent) /\ owner \in [Req -> Xfer \cup {None}]
      /\ None \notin Xfer
  BY UsbTransferAssumption DEF Inv, Owned
<1>2. ASSUME NEW x \in Xfer
      PROVE  x \in Sent <=> (cbPc = "call" /\ cbXfer = x) \/ \E r \in Req : owner[r] = x
  BY <1>1 DEF Owned
<1>3. ASSUME NEW r \in Req, owner[r] # None
      PROVE  /\ r \notin freeReq /\ ~(cbPc = "call" /\ cbXfer = owner[r])
             /\ \A s \in Req \ {r} : owner[s] # owner[r]
  BY <1>1, <1>3 DEF Owned
<1>. QED
  BY <1>2, <1>3 DEF NoLostCallback

\* The domains of the variables.
LEMMA InvTyped == Inv => TypeOK
  BY DEF Inv, RestTypes, TdsSound, TdTypes, EpTypes, ReqsSound, Owned, TypeOK

\* No TD is lost or used twice, no request is, and none of the users is
\* forgotten or called for another, whatever is opened, closed, halted,
\* retired and called back in which order, for any number of endpoints, TDs,
\* requests and users, where the driver hears of every retired TD within the
\* 200 frames that an endpoint waits to be killed (usbd.c, hub.c, mem.c).
THEOREM TransfersOneOwner ==
  ASSUME ~QuietBus
  PROVE  Spec => []OneOwner
<1>1. Inv => OneOwner
  BY TdsOneOwner, ReqsOneOwner, NoneLost DEF OneOwner
<1>. QED
  BY <1>1, InitInv, InvStep, PTL DEF Spec

\* On such a bus the variables keep their domains.
THEOREM TransfersTyped ==
  ASSUME ~QuietBus
  PROVE  Spec => []TypeOK
  BY InvTyped, InitInv, InvStep, PTL DEF Spec
-----------------------------------------------------------------------------
(***************************************************************************)
(* The order of the callbacks.                                             *)
(*                                                                         *)
(* On the way of a request, from the list of its endpoint to the callback  *)
(* thread, nothing is ever put ahead of what it has to wait for.           *)
(***************************************************************************)

\* <<r, s>>: the user of r may be called back while s is under way.
May(ow, ea) ==
  {p \in Req \X Req : ow[p[1]] # None /\ ow[p[2]] # None => ow[p[2]] \notin ea[ow[p[1]]]}

\* X may go ahead of Y; each member of q may go ahead of those behind it.
Ahead(X, Y, K) == \A r \in X, s \in Y : <<r, s>> \in K
Lined(q, K) == \A i, j \in DOMAIN q : i < j => <<q[i], q[j]>> \in K

\* The TDs: those on their way back, oldest first, then those of the endpoints.
TdsInOrder(C, U, B, K) ==
  /\ \A i, j \in DOMAIN B : i < j => <<U[B[i].td], U[B[j].td]>> \in K
  /\ \A e \in Ep : \A t \in TdsOf(B), u \in Busy(C, e) : <<U[t], U[u]>> \in K
  /\ \A e \in Ep : \A i, j \in 1..(Len(C[e]) - 1) : i < j => <<U[C[e][i]], U[C[e][j]]>> \in K

\* The requests: the one in the callback thread, those it will take, those
\* with TDs, those in the lists.
ReqsInOrder(L, U, cl, cr, K) ==
  /\ \A e \in Ep : Lined(L[e], K)
  /\ Lined(cl, K)
  /\ Ahead(Flown(U), Listed(L), K)
  /\ Ahead(ToSet(cl), Flown(U) \cup Listed(L), K)
  /\ Ahead({cr} \ {None}, ToSet(cl) \cup Flown(U) \cup Listed(L), K)

\* A transfer waits for those of its own endpoint, and no transfer that is
\* being called back waits for one that has a request.
Logged(ow, re, pc, cx, se, ea) ==
  /\ \A e, f \in Ep : e # f => se[e] \cap se[f] = {}
  /\ \A r \in Req : ow[r] # None => ow[r] \in se[re[r]]
  /\ \A e \in Ep : \A x \in se[e] : ea[x] \subseteq se[e] \ {x}
  /\ pc = "call" => \A r \in Req : ow[r] # None => ow[r] \notin ea[cx]

\* What K allows whatever was sent: requests of two endpoints do not wait for each other.
Fair(K, re) == \A r, s \in Req : r = s \/ re[r] # re[s] => <<r, s>> \in K

Ordered ==
  /\ Logged(owner, reqEp, cbPc, cbXfer, sent, earlier)
  /\ TdsInOrder(chain, lut, Back, May(owner, earlier))
  /\ ReqsInOrder(list, lut, cbList, cbReq, May(owner, earlier))

OrderInv == Inv /\ Ordered
-----------------------------------------------------------------------------
(* The relation                                                            *)

\* Who waits for whom.
LEMMA MayIs ==
  ASSUME NEW ow, NEW ea, NEW r \in Req, NEW s \in Req
  PROVE  <<r, s>> \in May(ow, ea) <=> (ow[r] # None /\ ow[s] # None => ow[s] \notin ea[ow[r]])
BY DEF May

\* No request waits for itself, or for one of another endpoint.
LEMMA LoggedFair ==
  ASSUME NEW ow, NEW re \in [Req -> Ep], NEW pc, NEW cx, NEW se, NEW ea, Logged(ow, re, pc, cx, se, ea)
  PROVE  Fair(May(ow, ea), re)
<1> SUFFICES ASSUME NEW r \in Req, NEW s \in Req, r = s \/ re[r] # re[s], ow[r] # None, ow[s] # None
             PROVE  ow[s] \notin ea[ow[r]]
  BY MayIs DEF Fair
<1>1. /\ ow[r] \in se[re[r]] /\ ow[s] \in se[re[s]] /\ re[r] \in Ep /\ re[s] \in Ep
      /\ ea[ow[r]] \subseteq se[re[r]] \ {ow[r]}
  BY DEF Logged
<1>2. CASE r = s
  BY <1>1, <1>2
<1>3. CASE re[r] # re[s]
  <2>1. se[re[r]] \cap se[re[s]] = {}
    BY <1>1, <1>3 DEF Logged
  <2>. QED
    BY <1>1, <2>1
<1>. QED
  BY <1>2, <1>3
-----------------------------------------------------------------------------
(* What leaves does not disturb what stays                                 *)

\* Chains lose all but a tail, the oldest TD is taken, and more is allowed.
LEMMA FewerTds ==
  ASSUME NEW C, NEW U, NEW B, NEW K, TdsInOrder(C, U, B, K),
         NEW C2, NEW U2, NEW B2, NEW K2, K \subseteq K2,
         B \in Seq(DoneRec), B2 = B \/ (B # <<>> /\ B2 = Tail(B)),
         \A e \in Ep : C2[e] = C[e] \/ Busy(C2, e) = {},
         \A t \in TdsOf(B2) : U2[t] = U[t],
         \A e \in Ep : \A t \in Busy(C2, e) : U2[t] = U[t]
  PROVE  TdsInOrder(C2, U2, B2, K2)
<1>1. /\ \A i \in DOMAIN B2 : B2[i].td \in TdsOf(B2)
      /\ \A i, j \in DOMAIN B2 : i < j => <<U[B2[i].td], U[B2[j].td]>> \in K
      /\ TdsOf(B2) \subseteq TdsOf(B)
  <2>1. CASE B2 = B
    BY <2>1 DEF TdsInOrder, TdsOf
  <2>2. CASE B # <<>> /\ B2 = Tail(B)
    <3>1. /\ B2 \in Seq(DoneRec) /\ Len(B2) = Len(B) - 1
          /\ \A i \in 1..Len(B2) : B2[i] = B[i + 1]
      BY <2>2, HeadTailProperties
    <3>2. DOMAIN B = 1..Len(B) /\ Len(B) \in Nat \ {0} /\ DOMAIN B2 = 1..(Len(B) - 1)
      BY <2>2, <3>1, LenProperties, EmptySeq
    <3>3. \A i \in DOMAIN B2 : i \in Int /\ i + 1 \in DOMAIN B /\ B2[i] = B[i + 1]
      BY <3>1, <3>2
    <3>4. \A i, j \in DOMAIN B2 : i < j => i + 1 < j + 1
      BY <3>3
    <3>. QED
      BY <3>3, <3>4, ZenonT(30) DEF TdsInOrder, TdsOf
  <2>. QED
    BY <2>1, <2>2
<1>2. \A i, j \in DOMAIN B2 : i < j => <<U2[B2[i].td], U2[B2[j].td]>> \in K2
  BY <1>1
<1>3. ASSUME NEW e \in Ep, NEW t \in TdsOf(B2), NEW u \in Busy(C2, e) PROVE <<U2[t], U2[u]>> \in K2
  <2>1. C2[e] = C[e]
    BY <1>3
  <2>2. u \in Busy(C, e)
    BY <2>1 DEF Busy
  <2>. QED
    BY <1>1, <2>2 DEF TdsInOrder
<1>4. ASSUME NEW e \in Ep, NEW i \in 1..(Len(C2[e]) - 1), NEW j \in 1..(Len(C2[e]) - 1), i < j
      PROVE  <<U2[C2[e][i]], U2[C2[e][j]]>> \in K2
  <2>1. C2[e][i] \in Busy(C2, e) /\ C2[e][j] \in Busy(C2, e)
    BY DEF Busy
  <2>2. C2[e] = C[e]
    BY <2>1
  <2>3. <<U[C2[e][i]], U[C2[e][j]]>> \in K
    BY <1>4, <2>2 DEF TdsInOrder
  <2>. QED
    BY <2>1, <2>3
<1>. QED
  BY <1>2, <1>3, <1>4 DEF TdsInOrder

\* Requests lose their TDs, lists are emptied, and more is allowed.
LEMMA FewerReqs ==
  ASSUME NEW L, NEW U, NEW cl, NEW cr, NEW K, ReqsInOrder(L, U, cl, cr, K),
         NEW L2, NEW U2, NEW K2, K \subseteq K2,
         \A e \in Ep : L2[e] = L[e] \/ L2[e] = <<>>,
         Flown(U2) \subseteq Flown(U)
  PROVE  ReqsInOrder(L2, U2, cl, cr, K2)
<1>1. Lined(<<>>, K2) /\ ToSet(<<>>) = {}
  BY DEF Lined, ToSet
<1>2. ASSUME NEW e \in Ep PROVE Lined(L2[e], K2) /\ ToSet(L2[e]) \subseteq ToSet(L[e])
  <2>1. CASE L2[e] = L[e]
    BY <2>1 DEF ReqsInOrder, Lined
  <2>2. CASE L2[e] = <<>>
    BY <2>2, <1>1
  <2>. QED
    BY <2>1, <2>2
<1>3. Listed(L2) \subseteq Listed(L)
  BY <1>2 DEF Listed
<1>. QED
  BY <1>2, <1>3 DEF ReqsInOrder, Ahead, Lined

\* What transfers that end, without a request then, leave of a log.
Without(se, X) == [e \in Ep |-> se[e] \ X]
Dropped(ea, X) == [x \in Xfer |-> IF x \in X THEN {} ELSE ea[x] \ X]

\* No more has to wait then.
LEMMA MayGrows ==
  ASSUME NEW ow \in [Req -> Xfer \cup {None}], NEW ea, NEW X, NEW ow2,
         \A r \in Req : ow2[r] # None => ow2[r] = ow[r]
  PROVE  May(ow, ea) \subseteq May(ow2, Dropped(ea, X))
<1> SUFFICES ASSUME NEW r \in Req, NEW s \in Req, <<r, s>> \in May(ow, ea), ow2[r] # None, ow2[s] # None
             PROVE  ow2[s] \notin Dropped(ea, X)[ow2[r]]
  BY MayIs DEF May
<1>1. ow[r] # None /\ ow[s] # None /\ ow2[r] = ow[r] /\ ow2[s] = ow[s]
  OBVIOUS
<1>2. ow[s] \notin ea[ow[r]] /\ ow[r] \in Xfer
  BY <1>1, MayIs
<1>. QED
  BY <1>1, <1>2 DEF Dropped

\* The log stays what it has to be.
LEMMA LoggedLess ==
  ASSUME NEW ow, NEW re \in [Req -> Ep], NEW pc, NEW cx, NEW se \in [Ep -> SUBSET Xfer], NEW ea,
         Logged(ow, re, pc, cx, se, ea), NEW X, NEW ow2,
         \A r \in Req : ow2[r] # None => ow2[r] = ow[r] /\ ow[r] \notin X,
         NEW pc2, pc2 = "call" => pc = "call" /\ cx \in Xfer
  PROVE  Logged(ow2, re, pc2, cx, Without(se, X), Dropped(ea, X))
<1>1. \A e \in Ep : Without(se, X)[e] = se[e] \ X
  BY DEF Without
<1>2. \A x \in Xfer : Dropped(ea, X)[x] = IF x \in X THEN {} ELSE ea[x] \ X
  BY DEF Dropped
<1>3. \A e, f \in Ep : e # f => Without(se, X)[e] \cap Without(se, X)[f] = {}
  BY <1>1 DEF Logged
<1>4. \A r \in Req : ow2[r] # None => ow2[r] \in Without(se, X)[re[r]]
  BY <1>1 DEF Logged
<1>5. ASSUME NEW e \in Ep, NEW x \in Without(se, X)[e]
      PROVE  Dropped(ea, X)[x] \subseteq Without(se, X)[e] \ {x}
  <2>1. x \in se[e] /\ x \in Xfer /\ x \notin X
    BY <1>1
  <2>2. ea[x] \subseteq se[e] \ {x}
    BY <2>1 DEF Logged
  <2>. QED
    BY <1>1, <1>2, <2>1, <2>2
<1>6. ASSUME pc2 = "call", NEW r \in Req, ow2[r] # None PROVE ow2[r] \notin Dropped(ea, X)[cx]
  <2>1. cx \in Xfer /\ Dropped(ea, X)[cx] \subseteq ea[cx]
    BY <1>2, <1>6
  <2>2. ow2[r] = ow[r] /\ ow[r] # None /\ ow[r] \notin ea[cx]
    BY <1>6 DEF Logged
  <2>. QED
    BY <2>1, <2>2
<1>. QED
  BY <1>3, <1>4, <1>5, <1>6 DEF Logged
-----------------------------------------------------------------------------
(* TDs move                                                                *)

\* The controller retires the first TD of e.
LEMMA RetireInOrder ==
  ASSUME NEW F, NEW C, NEW U, NEW Q, NEW B, NEW fe, NEW ty, NEW re, NEW H, NEW K,
         TdsSound(F, C, U, Q, B, fe, ty, re, H), TdsInOrder(C, U, B, K), Fair(K, re),
         NEW e \in Ep, Len(C[e]) > 1, NEW d \in DoneRec, d.td = Head(C[e])
  PROVE  TdsInOrder([C EXCEPT ![e] = Tail(C[e])], U, Append(B, d), K)
<1> DEFINE C2 == [C EXCEPT ![e] = Tail(C[e])]
           B2 == Append(B, d)
           h == d.td
<1>1. /\ C \in [Ep -> Seq(Td)] /\ B \in Seq(DoneRec) /\ U \in [Td -> Req \cup {None}]
      /\ \A f \in Ep : \A t \in Busy(C, f) : U[t] # None /\ re[U[t]] = f
  BY DEF TdsSound, TdTypes, Labelled
<1>2. C[e] \in Seq(Td) /\ C[e] # <<>> /\ Len(C[e]) \in Nat /\ h = C[e][1]
  BY <1>1, LenProperties, EmptySeq
<1>3. /\ Tail(C[e]) \in Seq(Td) /\ Len(Tail(C[e])) = Len(C[e]) - 1
      /\ \A i \in 1..(Len(C[e]) - 1) : Tail(C[e])[i] = C[e][i + 1]
  BY <1>2, HeadTailProperties
<1>4. C2[e] = Tail(C[e]) /\ \A f \in Ep \ {e} : C2[f] = C[f]
  BY <1>1
<1>5. /\ Len(B) \in Nat /\ DOMAIN B = 1..Len(B) /\ DOMAIN B2 = 1..(Len(B) + 1)
      /\ \A i \in 1..Len(B) : B2[i] = B[i]
      /\ B2[Len(B) + 1] = d
  BY <1>1, AppendProperties, LenProperties
<1> HIDE DEF C2, B2, h
<1>6. /\ \A i, j \in 1..Len(B) : i < j => <<U[B[i].td], U[B[j].td]>> \in K
      /\ \A f \in Ep : \A t \in TdsOf(B), u \in Busy(C, f) : <<U[t], U[u]>> \in K
      /\ \A f \in Ep : \A i, j \in 1..(Len(C[f]) - 1) : i < j => <<U[C[f][i]], U[C[f][j]]>> \in K
  BY <1>5 DEF TdsInOrder
<1>7. h \in Busy(C, e) /\ h \in Td
  <2>1. 1 \in 1..(Len(C[e]) - 1)
    BY <1>2
  <2>2. h \in Busy(C, e)
    BY <1>2, <2>1 DEF Busy
  <2>. QED
    BY <2>2, WhereTdsAre
<1>8. ASSUME NEW i \in 1..(Len(C[e]) - 1 - 1)
      PROVE  /\ i + 1 \in 1..(Len(C[e]) - 1) /\ C2[e][i] = C[e][i + 1]
             /\ <<U[h], U[C2[e][i]]>> \in K /\ C2[e][i] \in Busy(C, e)
  <2>1. i + 1 \in 1..(Len(C[e]) - 1) /\ 1 \in 1..(Len(C[e]) - 1) /\ 1 < i + 1 /\ i \in 1..(Len(C[e]) - 1)
    BY <1>2
  <2>2. <<U[C[e][1]], U[C[e][i + 1]]>> \in K
    BY <1>6, <2>1
  <2>. QED
    BY <1>2, <1>3, <1>4, <2>1, <2>2 DEF Busy
<1>9. ASSUME NEW i \in DOMAIN B2, NEW j \in DOMAIN B2, i < j PROVE <<U[B2[i].td], U[B2[j].td]>> \in K
  <2>1. i \in 1..Len(B) /\ (j \in 1..Len(B) \/ j = Len(B) + 1)
    BY <1>5, <1>9
  <2>2. CASE j \in 1..Len(B)
    BY <1>5, <1>6, <1>9, <2>1, <2>2
  <2>3. CASE j = Len(B) + 1
    <3>1. B2[j].td = h /\ B2[i] = B[i] /\ B[i].td \in TdsOf(B)
      BY <1>5, <2>1, <2>3 DEF h, TdsOf
    <3>. QED
      BY <3>1, <1>6, <1>7
  <2>. QED
    BY <2>1, <2>2, <2>3
<1>10. TdsOf(B2) \subseteq TdsOf(B) \cup {h}
  <2>1. ASSUME NEW i \in DOMAIN B2 PROVE B2[i].td \in TdsOf(B) \cup {h}
    <3>1. i \in 1..Len(B) \/ i = Len(B) + 1
      BY <1>5
    <3>. QED
      BY <3>1, <1>5 DEF TdsOf, h
  <2>. QED
    BY <2>1 DEF TdsOf
<1>11. ASSUME NEW f \in Ep, NEW u \in Busy(C2, f)
       PROVE  u \in Busy(C, f) /\ <<U[h], U[u]>> \in K
  <2>1. CASE f = e
    <3>1. PICK i \in 1..(Len(C[e]) - 1 - 1) : u = C2[e][i]
      BY <2>1, <1>3, <1>4, <1>11 DEF Busy
    <3>. QED
      BY <2>1, <3>1, <1>8
  <2>2. CASE f # e
    <3>0. C2[f] = C[f]
      BY <2>2, <1>4
    <3>1. u \in Busy(C, f) /\ u \in Td
      <4>1. u \in Busy(C, f)
        BY <3>0, <1>11 DEF Busy
      <4>. QED
        BY <4>1, WhereTdsAre
    <3>2. U[u] \in Req /\ U[h] \in Req /\ re[U[u]] = f /\ re[U[h]] = e
      BY <3>1, <1>1, <1>7
    <3>. QED
      BY <2>2, <3>1, <3>2 DEF Fair
  <2>. QED
    BY <2>1, <2>2
<1>12. ASSUME NEW f \in Ep, NEW t \in TdsOf(B2), NEW u \in Busy(C2, f) PROVE <<U[t], U[u]>> \in K
  BY <1>6, <1>10, <1>11
<1>13. ASSUME NEW f \in Ep, NEW i \in 1..(Len(C2[f]) - 1), NEW j \in 1..(Len(C2[f]) - 1), i < j
       PROVE  <<U[C2[f][i]], U[C2[f][j]]>> \in K
  <2>1. CASE f = e
    <3>1. i \in 1..(Len(C[e]) - 1 - 1) /\ j \in 1..(Len(C[e]) - 1 - 1) /\ i + 1 < j + 1
      BY <2>1, <1>2, <1>3, <1>4, <1>13
    <3>. QED
      <4>1. <<U[C[e][i + 1]], U[C[e][j + 1]]>> \in K
        BY <3>1, <1>6, <1>8
      <4>2. C2[f][i] = C[e][i + 1] /\ C2[f][j] = C[e][j + 1]
        BY <2>1, <3>1, <1>8
      <4>. QED
        BY <4>1, <4>2
  <2>2. CASE f # e
    BY <2>2, <1>4, <1>6, <1>13
  <2>. QED
    BY <2>1, <2>2
<1>14. TdsInOrder(C2, U, B2, K)
  BY <1>9, <1>12, <1>13 DEF TdsInOrder
<1>. QED
  BY <1>14 DEF C2, B2

\* TDs are set up for a request that all of the others with TDs may precede.
LEMMA SetUpInOrder ==
  ASSUME NEW F, NEW C, NEW U, NEW Q, NEW B, NEW fe, NEW ty, NEW re, NEW H, NEW e, NEW r, NEW n, NEW new, NEW K,
         CanSetUp(F, C, U, Q, B, fe, ty, re, H, e, r, n, new), TdsInOrder(C, U, B, K), Fair(K, re),
         \A s \in Flown(U) : <<s, r>> \in K
  PROVE  TdsInOrder([C EXCEPT ![e] = C[e] \o new], Relabel(U, Staged(C, e, new, n), r), B, K)
<1> DEFINE k == Len(C[e])
           all == C[e] \o new
           C2 == [C EXCEPT ![e] = all]
           mine == Staged(C, e, new, n)
           U2 == Relabel(U, mine, r)
<1>0. /\ TdsSound(F, C, U, Q, B, fe, ty, re, H)
      /\ e \in Ep \ fe /\ r \in Req /\ re[r] = e /\ r \notin Flown(U)
      /\ n \in Nat \ {0} /\ new \in Picks(F, n)
  BY DEF CanSetUp
<1>1. /\ TdTypes(F, C, U, Q, B) /\ EpTypes(fe, ty, re, H) /\ Apart(F, C, B) /\ Labelled(F, C, U, B, fe, re)
  BY <1>0 DEF TdsSound
<1>2. /\ C[e] \in Seq(Td) /\ k \in Nat \ {0} /\ DOMAIN C[e] = 1..k
      /\ C[e][k] \in ToSet(C[e]) /\ C[e][k] \notin Busy(C, e)
      /\ \A f \in Ep : Busy(C, f) \subseteq ToSet(C[f]) /\ ToSet(C[f]) \subseteq Td
      /\ TdsOf(B) \subseteq Td
  BY <1>0, WhereTdsAre
<1>3. new \in Seq(F) /\ new \in Seq(Td) /\ Len(new) = n /\ DOMAIN new = 1..n /\ \A i \in 1..n : new[i] \in F
  <2>1. new \in [1..n -> F] /\ F \subseteq Td
    BY <1>0, <1>1 DEF Picks, TdTypes
  <2>2. new \in Seq(F) /\ Len(new) = n /\ new \in Seq(Td)
    BY <1>0, <2>1, FunIsSeq
  <2>. QED
    BY <2>1, <2>2
<1>4. /\ Len(all) = k + n
      /\ \A i \in 1..(k + n) : all[i] = IF i <= k THEN C[e][i] ELSE new[i - k]
  <2>1. C[e] \in Seq(Td) /\ new \in Seq(Td) /\ Len(C[e]) = k /\ Len(new) = n /\ all = C[e] \o new
    BY <1>2, <1>3
  <2> HIDE DEF k, all, C2
  <2>2. Joined(Td, C[e], new, k, n, all)
    BY <2>1, JoinedAt
  <2>. QED
    BY <2>2 DEF Joined
<1>5. mine = {all[i] : i \in k..(k + n - 1)} /\ U2 = [t \in Td |-> IF t \in mine THEN r ELSE U[t]]
  BY DEF Staged, Relabel
<1>6. C2[e] = all /\ \A f \in Ep \ {e} : C2[f] = C[f]
  BY <1>0, <1>1 DEF TdTypes
<1> HIDE DEF k, all, C2, mine, U2
<1>7. \A t \in mine : t \in F \cup {C[e][k]}
  <2>1. ASSUME NEW i \in k..(k + n - 1) PROVE all[i] \in F \cup {C[e][k]}
    <3>1. i \in 1..(k + n) /\ (i = k \/ i - k \in 1..n)
      BY <1>0, <1>2
    <3>2. CASE i = k
      BY <3>1, <3>2, <1>2, <1>4
    <3>3. CASE i # k
      <4>1. i - k \in 1..n /\ ~(i <= k)
        BY <3>1, <3>3, <1>2
      <4>. QED
        BY <3>1, <4>1, <1>3, <1>4
    <3>. QED
      BY <3>2, <3>3
  <2>. QED
    BY <2>1, <1>5
<1>8. /\ \A t \in TdsOf(B) : t \in Td /\ t \notin mine
      /\ \A f \in Ep : \A t \in Busy(C, f) : t \in Td /\ t \notin mine
  <2>1. F \cap TdsOf(B) = {} /\ C[e][k] \notin TdsOf(B)
    BY <1>0, <1>1, <1>2 DEF Apart
  <2>2. ASSUME NEW f \in Ep, NEW t \in Busy(C, f) PROVE t \in Td /\ t \notin F /\ t # C[e][k]
    <3>1. t \in ToSet(C[f]) /\ t \in Td /\ t \notin F
      BY <1>1, <1>2 DEF Apart
    <3>2. CASE f = e
      BY <3>1, <3>2, <1>2
    <3>3. CASE f # e
      <4>1. ToSet(C[f]) \cap ToSet(C[e]) = {}
        BY <3>3, <1>0, <1>1 DEF Apart
      <4>. QED
        BY <3>1, <4>1, <1>2
    <3>. QED
      BY <3>2, <3>3
  <2>. QED
    BY <2>1, <2>2, <1>2, <1>7
<1>9. /\ \A t \in TdsOf(B) : U2[t] = U[t] /\ U[t] \in Flown(U)
      /\ \A f \in Ep : \A t \in Busy(C, f) : U2[t] = U[t] /\ U[t] \in Flown(U)
      /\ \A t \in mine : U2[t] = r
  <2>1. \A t \in TdsOf(B) : U2[t] = U[t] /\ U[t] \in Flown(U)
    BY <1>1, <1>5, <1>8 DEF Labelled, Flown
  <2>2. \A f \in Ep : \A t \in Busy(C, f) : U2[t] = U[t] /\ U[t] \in Flown(U)
    BY <1>1, <1>5, <1>8 DEF Labelled, Flown
  <2>3. mine \subseteq Td
    BY <1>1, <1>2, <1>0, <1>7 DEF TdTypes
  <2>. QED
    BY <2>1, <2>2, <2>3, <1>5
<1>10. <<r, r>> \in K /\ Flown(U) \subseteq Req
  BY <1>0, <1>1 DEF Fair, Flown, TdTypes
<1>11. ASSUME NEW i \in 1..(k + n - 1)
       PROVE  /\ i < k => all[i] = C[e][i] /\ all[i] \in Busy(C, e)
              /\ ~(i < k) => all[i] \in mine
  <2>1. ASSUME i < k PROVE all[i] = C[e][i] /\ all[i] \in Busy(C, e)
    <3>1. i \in 1..(k + n) /\ i <= k /\ i \in 1..(k - 1)
      BY <2>1, <1>0, <1>2
    <3>2. all[i] = C[e][i]
      BY <3>1, <1>4
    <3>. QED
      BY <3>1, <3>2 DEF Busy, k
  <2>2. ASSUME ~(i < k) PROVE all[i] \in mine
    <3>1. i \in k..(k + n - 1)
      BY <2>2, <1>0, <1>2
    <3>. QED
      BY <3>1, <1>5
  <2>. QED
    BY <2>1, <2>2
<1>12. ASSUME NEW i \in DOMAIN B, NEW j \in DOMAIN B, i < j PROVE <<U2[B[i].td], U2[B[j].td]>> \in K
  <2>1. B[i].td \in TdsOf(B) /\ B[j].td \in TdsOf(B)
    BY DEF TdsOf
  <2>2. <<U[B[i].td], U[B[j].td]>> \in K
    BY <1>12 DEF TdsInOrder
  <2>. QED
    BY <2>1, <2>2, <1>9
<1>13. ASSUME NEW f \in Ep, NEW u \in Busy(C2, f) PROVE u \in Busy(C, f) \/ u \in mine
  <2>1. CASE f = e
    <3>0. C2[f] = all /\ Len(C2[f]) - 1 = k + n - 1
      BY <2>1, <1>0, <1>2, <1>4, <1>6
    <3>1. PICK i \in 1..(k + n - 1) : u = all[i]
      <4>1. PICK i \in 1..(Len(C2[f]) - 1) : u = C2[f][i]
        BY <1>13 DEF Busy
      <4>. QED
        BY <3>0, <4>1
    <3>. QED
      BY <2>1, <3>1, <1>11
  <2>2. CASE f # e
    BY <2>2, <1>6, <1>13 DEF Busy
  <2>. QED
    BY <2>1, <2>2
<1>14. ASSUME NEW f \in Ep, NEW t \in TdsOf(B), NEW u \in Busy(C2, f) PROVE <<U2[t], U2[u]>> \in K
  <2>1. CASE u \in Busy(C, f)
    <3>1. <<U[t], U[u]>> \in K
      BY <2>1 DEF TdsInOrder
    <3>. QED
      BY <2>1, <3>1, <1>9
  <2>2. CASE u \in mine
    BY <2>2, <1>9
  <2>. QED
    BY <2>1, <2>2, <1>13
<1>15. ASSUME NEW f \in Ep, NEW i \in 1..(Len(C2[f]) - 1), NEW j \in 1..(Len(C2[f]) - 1), i < j
       PROVE  <<U2[C2[f][i]], U2[C2[f][j]]>> \in K
  <2>1. CASE f # e
    <3>1. C2[f] = C[f] /\ C[f][i] \in Busy(C, f) /\ C[f][j] \in Busy(C, f)
      BY <2>1, <1>6 DEF Busy
    <3>2. <<U[C[f][i]], U[C[f][j]]>> \in K
      BY <1>15, <3>1 DEF TdsInOrder
    <3>. QED
      BY <3>1, <3>2, <1>9
  <2>2. CASE f = e
    <3>0. C2[f] = all /\ Len(C2[f]) - 1 = k + n - 1
      <4>1. C2[f] = all
        BY <2>2, <1>6
      <4>2. k \in Nat /\ n \in Nat /\ Len(all) = k + n
        BY <1>0, <1>2, <1>4
      <4>. QED
        BY <4>1, <4>2
    <3>1. C2[f] = all /\ i \in 1..(k + n - 1) /\ j \in 1..(k + n - 1)
      BY <3>0
    <3>2. CASE j < k
      <4>1. i < k /\ i \in 1..(k - 1) /\ j \in 1..(k - 1)
        BY <3>1, <3>2, <1>0, <1>2, <1>15
      <4>2. <<U[C[e][i]], U[C[e][j]]>> \in K
        BY <1>0, <1>15, <4>1 DEF TdsInOrder, k
      <4>. QED
        BY <3>1, <3>2, <4>1, <4>2, <1>0, <1>9, <1>11
    <3>3. CASE ~(j < k) /\ i < k
      BY <3>1, <3>3, <1>0, <1>9, <1>11
    <3>4. CASE ~(j < k) /\ ~(i < k)
      BY <3>1, <3>4, <1>9, <1>10, <1>11
    <3>. QED
      BY <3>2, <3>3, <3>4
  <2>. QED
    BY <2>1, <2>2
<1>16. TdsInOrder(C2, U2, B, K)
  BY <1>12, <1>14, <1>15 DEF TdsInOrder
<1>. QED
  BY <1>16 DEF C2, U2, mine, all
-----------------------------------------------------------------------------
(* A request is started                                                    *)

\* What Tail leaves is in order, and behind the head.
LEMMA LinedTail ==
  ASSUME NEW q \in Seq(Req), q # <<>>, NEW K, Lined(q, K)
  PROVE  Lined(Tail(q), K) /\ Ahead({Head(q)}, ToSet(Tail(q)), K)
<1> DEFINE t == Tail(q)
<1>1. /\ DOMAIN q = 1..Len(q) /\ Len(q) \in Nat \ {0} /\ Head(q) = q[1]
  BY LenProperties, EmptySeq
<1>2. /\ t \in Seq(Req) /\ Len(t) = Len(q) - 1 /\ \A i \in 1..Len(t) : t[i] = q[i + 1]
  BY HeadTailProperties
<1>3. DOMAIN t = 1..(Len(q) - 1)
  BY <1>2, LenProperties
<1> HIDE DEF t
<1>4. \A i \in DOMAIN t : i \in Int /\ i + 1 \in DOMAIN q /\ t[i] = q[i + 1] /\ 1 < i + 1 /\ 1 \in DOMAIN q
  BY <1>1, <1>2, <1>3
<1>5. \A i, j \in DOMAIN t : i < j => i + 1 < j + 1
  BY <1>4
<1>6. Lined(t, K)
  BY <1>4, <1>5 DEF Lined
<1>7. \A i \in DOMAIN t : <<Head(q), t[i]>> \in K
  BY <1>1, <1>4 DEF Lined
<1>8. Ahead({Head(q)}, ToSet(t), K)
  BY <1>7 DEF Ahead, ToSet
<1>. QED
  BY <1>6, <1>8 DEF t

\* The first request of a list gets TDs.
LEMMA StartInOrder ==
  ASSUME NEW fr, NEW L, NEW U, NEW cl, NEW cr, NEW re, ReqsSound(fr, L, U, cl, cr, re),
         NEW K, ReqsInOrder(L, U, cl, cr, K), Fair(K, re),
         NEW e \in Ep, L[e] # <<>>, NEW U2, Flown(U2) = Flown(U) \cup {Head(L[e])}
  PROVE  ReqsInOrder([L EXCEPT ![e] = Tail(L[e])], U2, cl, cr, K)
<1> DEFINE L2 == [L EXCEPT ![e] = Tail(L[e])]
           r == Head(L[e])
<1>1. /\ L \in [Ep -> Seq(Req)] /\ \A f \in Ep : Once(L[f]) /\ \A q \in ToSet(L[f]) : re[q] = f
      /\ \A f, g \in Ep : f # g => ToSet(L[f]) \cap ToSet(L[g]) = {}
      /\ Listed(L) \subseteq Req
  BY DEF ReqsSound
<1>2. Listed(L) = Listed(L2) \cup {r}
  BY <1>1, ListedTail
<1>3. Lined(Tail(L[e]), K) /\ Ahead({r}, ToSet(Tail(L[e])), K)
  BY <1>1, LinedTail DEF ReqsInOrder
<1>4. re[r] = e
  BY HeadOfList
<1>5. Flown(U2) = Flown(U) \cup {r}
  OBVIOUS
<1>6. L2[e] = Tail(L[e]) /\ \A f \in Ep \ {e} : L2[f] = L[f]
  BY <1>1
<1> HIDE DEF L2, r
<1>7. ASSUME NEW f \in Ep PROVE Lined(L2[f], K) /\ Ahead({r}, ToSet(L2[f]), K)
  <2>1. CASE f = e
    BY <2>1, <1>3, <1>6
  <2>2. CASE f # e
    <3>1. L2[f] = L[f] /\ \A s \in ToSet(L[f]) : s \in Req /\ re[s] = f
      BY <2>2, <1>1, <1>6 DEF Listed
    <3>2. r \in Req
      BY <1>1, <1>2
    <3>. QED
      BY <2>2, <3>1, <3>2, <1>4 DEF Fair, Ahead, ReqsInOrder
  <2>. QED
    BY <2>1, <2>2
<1>8. Ahead({r}, Listed(L2), K)
  BY <1>7 DEF Ahead, Listed
<1>9. Ahead(Flown(U2), Listed(L2), K)
  BY <1>2, <1>5, <1>8 DEF Ahead, ReqsInOrder
<1>10. Flown(U2) \cup Listed(L2) = Flown(U) \cup Listed(L)
  BY <1>2, <1>5
<1>11. Ahead(ToSet(cl), Flown(U2) \cup Listed(L2), K)
  BY <1>10 DEF ReqsInOrder
<1>12. Ahead({cr} \ {None}, ToSet(cl) \cup Flown(U2) \cup Listed(L2), K)
  BY <1>10 DEF ReqsInOrder, Ahead
<1>13. ReqsInOrder(L2, U2, cl, cr, K)
  BY <1>7, <1>9, <1>11, <1>12 DEF ReqsInOrder
<1>. QED
  BY <1>13 DEF L2

\* handleIoReqList keeps TDs and requests in order.
LEMMA HandleInOrder ==
  ASSUME waiting \in [Queues -> Seq(Ep)], open \subseteq Ep \ freeEp,
         NEW F, NEW L, NEW C, NEW H, NEW U, NEW Q, NEW D, NEW B, NEW fr, NEW cl, NEW cr, NEW re,
         TdsSound(F, C, U, Q, B, freeEp, type, re, H), ReqsSound(fr, L, U, cl, cr, re),
         NEW K, TdsInOrder(C, U, B, K), ReqsInOrder(L, U, cl, cr, K), Fair(K, re),
         NEW e \in Ep, HandleIoReqList(e, F, L, C, H, U, Q, D)
  PROVE  TdsInOrder(chain', lut', B, K) /\ ReqsInOrder(list', lut', cl, cr, K)
<1> DEFINE ready == L[e] # <<>> /\ e \in open /\ e \notin H
           r == Head(L[e])
           n == Needed(e, r, D)
           pool == F \cap TdsFor(type[e])
           short == ~ready \/ Cardinality(pool) < n
<1>1. CASE short
  <2>1. list' = L /\ chain' = C /\ lut' = U
    BY <1>1 DEF HandleIoReqList
  <2>. QED
    BY <2>1
<1>2. CASE ~short
  <2>1. PICK new \in Picks(pool, n) :
          LET all == C[e] \o new
              tail == Len(C[e])
              mine == {all[i] : i \in tail..(tail + n - 1)}
          IN /\ freeTd' = F \ ToSet(new)
             /\ chain' = [C EXCEPT ![e] = all]
             /\ lut' = [t \in Td |-> IF t \in mine THEN r ELSE U[t]]
             /\ quiet' = IF type[e] = "control"
                         THEN Q \cup (mine \ {all[tail + n - 1]}) ELSE Q
             /\ list' = [L EXCEPT ![e] = Tail(L[e])]
             /\ data' = D \ {r}
             /\ waiting' = IF Len(L[e]) = 1 THEN Dequeued(e) ELSE waiting
    BY <1>2 DEF HandleIoReqList
  <2> DEFINE mine == Staged(C, e, new, n)
  <2>2. /\ chain' = [C EXCEPT ![e] = C[e] \o new]
        /\ lut' = Relabel(U, mine, r)
        /\ list' = [L EXCEPT ![e] = Tail(L[e])]
    BY <2>1, Zenon DEF Staged, Relabel
  <2>3. L[e] # <<>> /\ e \in Ep \ freeEp /\ e \notin H
    BY <1>2
  <2>4. r \in Req /\ re[r] = e /\ r \notin Flown(U)
    BY <2>3, HeadOfList
  <2>5. n \in {1, 2, 3} /\ (type[e] # "control" => n = 1)
    BY DEF Needed
  <2>6. new \in Picks(F, n)
    BY DEF Picks
  <2>7. r \in Listed(L)
    <3>1. L[e] \in Seq(Req)
      BY DEF ReqsSound
    <3>2. r \in ToSet(L[e])
      BY <2>3, <3>1, OnTail
    <3>. QED
      BY <3>2 DEF Listed
  <2> HIDE DEF n, mine, r, ready, pool, short
  <2>8. CanSetUp(F, C, U, Q, B, freeEp, type, re, H, e, r, n, new)
    BY <2>3, <2>4, <2>5, <2>6 DEF CanSetUp
  <2>9. GetsTds(U, Relabel(U, mine, r), r)
    BY <2>8, SetUpSound DEF mine
  <2>10. \A s \in Flown(U) : <<s, r>> \in K
    BY <2>7 DEF ReqsInOrder, Ahead
  <2>11. TdsInOrder([C EXCEPT ![e] = C[e] \o new], Relabel(U, mine, r), B, K)
    BY <2>8, <2>10, SetUpInOrder DEF mine
  <2>12. Flown(lut') = Flown(U) \cup {r}
    BY <2>2, <2>9 DEF GetsTds
  <2>13. ReqsInOrder([L EXCEPT ![e] = Tail(L[e])], lut', cl, cr, K)
    BY <2>3, <2>12, StartInOrder DEF r
  <2>. QED
    BY <2>2, <2>11, <2>13
<1>. QED
  BY <1>1, <1>2

\* So does checkTdQueue.
LEMMA CheckInOrder ==
  ASSUME waiting \in [Queues -> Seq(Ep)], open \subseteq Ep \ freeEp,
         NEW F, NEW L, NEW C, NEW H, NEW U, NEW Q, NEW D, NEW B, NEW fr, NEW cl, NEW cr, NEW re,
         TdsSound(F, C, U, Q, B, freeEp, type, re, H), ReqsSound(fr, L, U, cl, cr, re),
         NEW K, TdsInOrder(C, U, B, K), ReqsInOrder(L, U, cl, cr, K), Fair(K, re),
         NEW q \in Queues, CheckTdQueue(q, F, L, C, H, U, Q, D)
  PROVE  TdsInOrder(chain', lut', B, K) /\ ReqsInOrder(list', lut', cl, cr, K)
<1>1. CASE waiting[q] # <<>> /\ F \cap TdsFor(q) # {}
  <2>1. Head(waiting[q]) \in Ep
    BY <1>1, HeadTailProperties
  <2>2. HandleIoReqList(Head(waiting[q]), F, L, C, H, U, Q, D)
    BY <1>1 DEF CheckTdQueue
  <2>. QED
    BY <2>1, <2>2, HandleInOrder
<1>2. CASE ~(waiting[q] # <<>> /\ F \cap TdsFor(q) # {})
  <2>1. list' = L /\ chain' = C /\ lut' = U
    BY <1>2 DEF CheckTdQueue
  <2>. QED
    BY <2>1
<1>. QED
  BY <1>1, <1>2
-----------------------------------------------------------------------------
(* Requests end                                                            *)

\* Two sequences in order, one of which may go ahead of the other.
LEMMA LinedJoin ==
  ASSUME NEW a \in Seq(Req), NEW b \in Seq(Req), NEW K,
         Lined(a, K), Lined(b, K), Ahead(ToSet(a), ToSet(b), K)
  PROVE  Lined(a \o b, K)
<1> DEFINE k == Len(a)
           n == Len(b)
           u == a \o b
<1>1. Joined(Req, a, b, k, n, u)
  BY JoinedAt
<1>2. k \in Nat /\ n \in Nat /\ DOMAIN a = 1..k /\ DOMAIN b = 1..n
  BY LenProperties
<1> HIDE DEF k, n, u
<1>3. DOMAIN u = 1..(k + n) /\ \A i \in 1..(k + n) : u[i] = IF i <= k THEN a[i] ELSE b[i - k]
  BY <1>1 DEF Joined
<1>4. ASSUME NEW i \in DOMAIN u, NEW j \in DOMAIN u, i < j PROVE <<u[i], u[j]>> \in K
  <2>1. CASE j <= k
    <3>1. i \in 1..k /\ j \in 1..k /\ u[i] = a[i] /\ u[j] = a[j]
      BY <1>2, <1>3, <1>4, <2>1
    <3>. QED
      BY <1>2, <1>4, <3>1 DEF Lined
  <2>2. CASE i <= k /\ ~(j <= k)
    <3>1. i \in 1..k /\ j - k \in 1..n /\ u[i] = a[i] /\ u[j] = b[j - k]
      BY <1>2, <1>3, <1>4, <2>2
    <3>2. u[i] \in ToSet(a) /\ u[j] \in ToSet(b)
      BY <1>2, <3>1 DEF ToSet
    <3>. QED
      BY <3>2 DEF Ahead
  <2>3. CASE ~(i <= k) /\ ~(j <= k)
    <3>1. i - k \in 1..n /\ j - k \in 1..n /\ i - k < j - k /\ u[i] = b[i - k] /\ u[j] = b[j - k]
      BY <1>2, <1>3, <1>4, <2>3
    <3>. QED
      BY <1>2, <3>1 DEF Lined
  <2>. QED
    BY <1>2, <1>3, <1>4, <2>1, <2>2, <2>3
<1>. QED
  BY <1>4 DEF Lined, u

\* The different requests of a sequence in order are in order.
LEMMA UniquesInOrder ==
  ASSUME NEW s \in Seq(Req), NEW K, Lined(s, K), NEW l \in Uniques(s)
  PROVE  Lined(l, K)
<1>1. DOMAIN s = 1..Len(s) /\ Len(s) \in Nat
  BY LenProperties
<1>2. ToSet(l) = ToSet(s)
  BY UniquesAre
<1>3. ASSUME NEW i \in DOMAIN l, NEW j \in DOMAIN l, i < j PROVE <<l[i], l[j]>> \in K
  <2>1. PICK h \in DOMAIN s : s[h] = l[i] /\ \A k \in 1..h : s[k] # l[j]
    BY <1>3 DEF Uniques
  <2>2. PICK k \in DOMAIN s : s[k] = l[j]
    <3>1. l[j] \in ToSet(s)
      BY <1>2 DEF ToSet
    <3>. QED
      BY <3>1 DEF ToSet
  <2>3. h < k
    BY <1>1, <2>1, <2>2
  <2>. QED
    BY <2>1, <2>2, <2>3 DEF Lined
<1>. QED
  BY <1>3 DEF Lined

\* Requests that may go ahead of all that have TDs then are to be called back.
LEMMA SignalInOrder ==
  ASSUME NEW L, NEW U, NEW cl \in Seq(Req), NEW cr, NEW K, ReqsInOrder(L, U, cl, cr, K),
         NEW U2, NEW ends \in Seq(Req), Lined(ends, K), LosesTds(U, U2, ToSet(ends)),
         Ahead(ToSet(ends), Flown(U2), K)
  PROVE  ReqsInOrder(L, U2, cl \o ends, cr, K)
<1>1. ToSet(cl \o ends) = ToSet(cl) \cup ToSet(ends)
  BY OnConcat
<1>2. ToSet(ends) \subseteq Flown(U) /\ Flown(U2) = Flown(U) \ ToSet(ends)
  BY DEF LosesTds
<1>3. Lined(cl \o ends, K)
  BY <1>2, LinedJoin DEF ReqsInOrder, Ahead
<1>4. Ahead(Flown(U2), Listed(L), K)
  BY <1>2 DEF ReqsInOrder, Ahead
<1>5. Ahead(ToSet(cl \o ends), Flown(U2) \cup Listed(L), K)
  BY <1>1, <1>2 DEF ReqsInOrder, Ahead
<1>6. Ahead({cr} \ {None}, ToSet(cl \o ends) \cup Flown(U2) \cup Listed(L), K)
  BY <1>1, <1>2 DEF ReqsInOrder, Ahead
<1>. QED
  BY <1>3, <1>4, <1>5, <1>6 DEF ReqsInOrder

\* What the interrupt thread leaves of the TDs, and what ends may go ahead of it.
LEMMA ProcessInOrder ==
  ASSUME NEW F, NEW C, NEW U, NEW Q, NEW B, NEW fe, NEW ty, NEW re, NEW H,
         NEW back, NEW ends, NEW C1, NEW U1, NEW H1,
         CanProcess(F, C, U, Q, B, fe, ty, re, H, back, ends, C1, U1, H1),
         NEW K, TdsInOrder(C, U, B, K), Fair(K, re)
  PROVE  TdsInOrder(C1, U1, Tail(B), K) /\ Ahead(ends, Flown(U1), K)
<1> DEFINE b == Head(B).td
           e == re[U[b]]
           B1 == Tail(B)
<1>1. /\ TdsSound(F, C, U, Q, B, fe, ty, re, H) /\ B # <<>>
      /\ back = TakenBack(B, H, C, U, re) /\ ends = EndedBy(B, H, C, U, Q, re)
      /\ C1 = IF Aborts(B, H, U, re) THEN [C EXCEPT ![e] = <<C[e][Len(C[e])]>>] ELSE C
      /\ U1 = [t \in Td |-> IF t \in back THEN None ELSE U[t]]
  BY DEF CanProcess
<1>2. TdsSound(F \cup back, C1, U1, Q \ back, B1, fe, ty, re, H1)
  BY ProcessSound
<1>3. /\ C \in [Ep -> Seq(Td)] /\ B \in Seq(DoneRec) /\ U \in [Td -> Req \cup {None}]
      /\ Labelled(F, C, U, B, fe, re)
  BY <1>1 DEF TdsSound, TdTypes
<1>4. /\ TdsOf(B) = TdsOf(B1) \cup {b}
      /\ Aborts(B, H, U, re) => \A t \in TdsOf(B1) : re[U[t]] # e
      /\ ends \subseteq Req
      /\ \A t \in back : U[t] # None /\ re[U[t]] = e
      /\ ends \subseteq {U[t] : t \in back}
  <2>1. TdsSound(F, C, U, Q, B, fe, ty, re, H) /\ B # <<>>
    BY <1>1
  <2>2. /\ TdsOf(B) = TdsOf(B1) \cup {b}
        /\ Aborts(B, H, U, re) => \A t \in TdsOf(B1) : re[U[t]] # e
        /\ EndedBy(B, H, C, U, Q, re) \subseteq Req
        /\ \A t \in TakenBack(B, H, C, U, re) : U[t] # None /\ re[U[t]] = e
        /\ EndedBy(B, H, C, U, Q, re) \subseteq {U[t] : t \in TakenBack(B, H, C, U, re)}
    BY <2>1, EndedSound
  <2>. QED
    BY <1>1, <2>2
<1>5. /\ (F \cup back) \cap TdsOf(B1) = {} /\ TdsOf(B1) \subseteq Td
      /\ \A f \in Ep : ToSet(C1[f]) \cap (F \cup back) = {}
      /\ \A f \in Ep : Busy(C1, f) \subseteq ToSet(C1[f]) /\ ToSet(C1[f]) \subseteq Td
  <2>1. Apart(F \cup back, C1, B1)
    BY <1>2 DEF TdsSound
  <2>2. /\ (F \cup back) \cap TdsOf(B1) = {}
        /\ \A f \in Ep : ToSet(C1[f]) \cap (F \cup back) = {}
    BY <2>1 DEF Apart
  <2>3. /\ TdsOf(B1) \subseteq Td
        /\ \A f \in Ep : Busy(C1, f) \subseteq ToSet(C1[f]) /\ ToSet(C1[f]) \subseteq Td
    BY <1>2, WhereTdsAre
  <2>. QED
    BY <2>2, <2>3
<1>6. back = (IF Aborts(B, H, U, re) THEN Busy(C, e) ELSE {}) \cup {b}
  BY <1>1 DEF TakenBack
<1> HIDE DEF b, e, B1
<1>7. TdsInOrder(C1, U1, B1, K)
  <2>1. ASSUME NEW f \in Ep PROVE C1[f] = C[f] \/ Busy(C1, f) = {}
    <3>1. CASE Aborts(B, H, U, re) /\ f = e
      <4>1. C1[f] = <<C[e][Len(C[e])]>>
        BY <1>1, <1>3, <3>1 DEF e, b
      <4>2. Len(C1[f]) = 1
        BY <4>1
      <4>. QED
        BY <4>2, NoneBusy
    <3>2. CASE Aborts(B, H, U, re) /\ f # e
      BY <1>1, <1>3, <3>2 DEF e, b
    <3>3. CASE ~Aborts(B, H, U, re)
      BY <1>1, <3>3
    <3>. QED
      BY <3>1, <3>2, <3>3
  <2>2. \A t \in TdsOf(B1) : U1[t] = U[t]
    BY <1>1, <1>5
  <2>3. \A f \in Ep : \A t \in Busy(C1, f) : U1[t] = U[t]
    BY <1>1, <1>5
  <2>4. K \subseteq K /\ B \in Seq(DoneRec) /\ (B1 = B \/ (B # <<>> /\ B1 = Tail(B)))
    BY <1>1, <1>3 DEF B1
  <2>. QED
    BY <2>1, <2>2, <2>3, <2>4, FewerTds
<1>8. ASSUME NEW r \in ends, NEW s \in Flown(U1) PROVE <<r, s>> \in K
  <2>1. PICK u \in Td : s = U1[u] /\ s # None
    BY DEF Flown
  <2>2. u \notin back /\ U[u] = s
    BY <1>1, <2>1
  <2>3. s \in Req /\ (u \in TdsOf(B) \/ u \in Busy(C, re[s]))
    BY <1>1, <2>1, <2>2, WhereTdsAre
  <2>4. PICK t \in back : r = U[t]
    BY <1>4
  <2>5. r \in Req /\ re[r] = e
    BY <1>4, <2>4
  <2>6. CASE re[s] # e
    BY <2>3, <2>5, <2>6 DEF Fair
  <2>7. CASE re[s] = e
    <3>1. u # b /\ (u \in TdsOf(B1) \/ u \in Busy(C, e))
      BY <1>4, <1>6, <2>2, <2>3, <2>7
    <3>2. ~Aborts(B, H, U, re)
      BY <1>4, <1>6, <2>2, <2>7, <3>1
    <3>3. t = b
      BY <1>6, <3>2
    <3>4. CASE u \in Busy(C, e)
      <4>1. e \in Ep /\ b \in TdsOf(B)
        <5>1. re \in [Req -> Ep]
          BY <1>1 DEF TdsSound, EpTypes
        <5>. QED
          BY <1>4, <2>5, <5>1
      <4>2. <<U[b], U[u]>> \in K
        BY <3>4, <4>1 DEF TdsInOrder
      <4>. QED
        BY <2>2, <2>4, <3>3, <4>2
    <3>5. CASE u \in TdsOf(B1)
      <4>1. PICK i \in DOMAIN B1 : u = B1[i].td
        BY <3>5 DEF TdsOf
      <4>2. /\ DOMAIN B = 1..Len(B) /\ Len(B) \in Nat \ {0} /\ Head(B) = B[1]
            /\ B1 \in Seq(DoneRec) /\ Len(B1) = Len(B) - 1 /\ \A k \in 1..Len(B1) : B1[k] = B[k + 1]
        BY <1>1, <1>3, HeadTailProperties, LenProperties, EmptySeq DEF B1
      <4>3. DOMAIN B1 = 1..(Len(B) - 1)
        BY <4>2, LenProperties
      <4>4. 1 \in DOMAIN B /\ i + 1 \in DOMAIN B /\ 1 < i + 1 /\ u = B[i + 1].td /\ b = B[1].td
        BY <4>1, <4>2, <4>3 DEF b
      <4>5. <<U[B[1].td], U[B[i + 1].td]>> \in K
        BY <4>4 DEF TdsInOrder
      <4>. QED
        BY <2>2, <2>4, <3>3, <4>4, <4>5
    <3>. QED
      BY <3>1, <3>4, <3>5
  <2>. QED
    BY <2>6, <2>7
<1>9. Ahead(ends, Flown(U1), K)
  BY <1>8 DEF Ahead
<1>. QED
  BY <1>7, <1>9 DEF B1
-----------------------------------------------------------------------------
(* A transfer is accepted                                                  *)

\* Transfer x of endpoint e, which was not sent, gets the request r, which was nobody's.
CanAccept(ow, re, pc, cx, se, ea, r, e, x) ==
  /\ ow \in [Req -> Xfer \cup {None}] /\ re \in [Req -> Ep]
  /\ se \in [Ep -> SUBSET Xfer] /\ ea \in [Xfer -> SUBSET Xfer]
  /\ Logged(ow, re, pc, cx, se, ea)
  /\ pc = "call" => cx \in UNION {se[f] : f \in Ep}
  /\ r \in Req /\ ow[r] = None /\ e \in Ep /\ x \in Xfer /\ x \notin UNION {se[f] : f \in Ep}

\* All others may go ahead of its request, and what could go ahead of others still can.
LEMMA AcceptMay ==
  ASSUME NEW ow, NEW re, NEW pc, NEW cx, NEW se, NEW ea, NEW r, NEW e, NEW x,
         CanAccept(ow, re, pc, cx, se, ea, r, e, x)
  PROVE  LET K2 == May([ow EXCEPT ![r] = x], [ea EXCEPT ![x] = se[e]])
         IN /\ \A p \in Req \ {r} : <<p, r>> \in K2
            /\ \A p, q \in Req \ {r} : <<p, q>> \in May(ow, ea) => <<p, q>> \in K2
<1> DEFINE ow2 == [ow EXCEPT ![r] = x]
           ea2 == [ea EXCEPT ![x] = se[e]]
<1>1. /\ r \in Req /\ x \in Xfer /\ ow2[r] = x /\ \A p \in Req \ {r} : ow2[p] = ow[p]
      /\ \A y \in Xfer \ {x} : ea2[y] = ea[y]
  BY DEF CanAccept
<1>2. ASSUME NEW p \in Req, ow[p] # None
      PROVE  ow[p] \in Xfer /\ ow[p] # x /\ x \notin ea[ow[p]]
  <2>1. re[p] \in Ep /\ ow[p] \in se[re[p]] /\ ow[p] \in Xfer /\ x \notin se[re[p]]
    BY <1>2 DEF CanAccept, Logged
  <2>2. ea[ow[p]] \subseteq se[re[p]]
    BY <2>1 DEF CanAccept, Logged
  <2>. QED
    BY <2>1, <2>2
<1> HIDE DEF ow2, ea2
<1>3. ASSUME NEW p \in Req \ {r} PROVE <<p, r>> \in May(ow2, ea2)
  <2>1. SUFFICES ASSUME ow2[p] # None PROVE ow2[r] \notin ea2[ow2[p]]
    BY <1>1, MayIs
  <2>. QED
    BY <1>1, <1>2, <2>1
<1>4. ASSUME NEW p \in Req \ {r}, NEW q \in Req \ {r}, <<p, q>> \in May(ow, ea)
      PROVE  <<p, q>> \in May(ow2, ea2)
  <2>1. SUFFICES ASSUME ow2[p] # None, ow2[q] # None PROVE ow2[q] \notin ea2[ow2[p]]
    BY MayIs
  <2>2. ow[q] \notin ea[ow[p]]
    BY <1>1, <1>4, <2>1, MayIs
  <2>. QED
    BY <1>1, <1>2, <2>1, <2>2
<1>. QED
  BY <1>3, <1>4 DEF ow2, ea2

\* It waits for the transfers of e that are under way.
LEMMA AcceptLogged ==
  ASSUME NEW ow, NEW re, NEW pc, NEW cx, NEW se, NEW ea, NEW r, NEW e, NEW x,
         CanAccept(ow, re, pc, cx, se, ea, r, e, x)
  PROVE  Logged([ow EXCEPT ![r] = x], [re EXCEPT ![r] = e], pc, cx,
                [se EXCEPT ![e] = se[e] \cup {x}], [ea EXCEPT ![x] = se[e]])
<1> DEFINE ow2 == [ow EXCEPT ![r] = x]
           re2 == [re EXCEPT ![r] = e]
           se2 == [se EXCEPT ![e] = se[e] \cup {x}]
           ea2 == [ea EXCEPT ![x] = se[e]]
<1>1. /\ e \in Ep /\ r \in Req /\ x \in Xfer /\ \A f \in Ep : x \notin se[f] /\ se[f] \subseteq Xfer
      /\ ow2[r] = x /\ \A p \in Req \ {r} : ow2[p] = ow[p]
      /\ re2[r] = e /\ \A p \in Req \ {r} : re2[p] = re[p] /\ re[p] \in Ep
      /\ se2[e] = se[e] \cup {x} /\ \A f \in Ep \ {e} : se2[f] = se[f]
      /\ ea2[x] = se[e] /\ \A y \in Xfer \ {x} : ea2[y] = ea[y]
  BY DEF CanAccept
<1>2. /\ \A f, g \in Ep : f # g => se[f] \cap se[g] = {}
      /\ \A p \in Req : ow[p] # None => ow[p] \in se[re[p]]
      /\ \A f \in Ep : \A y \in se[f] : ea[y] \subseteq se[f] \ {y}
      /\ pc = "call" => \A p \in Req : ow[p] # None => ow[p] \notin ea[cx]
  BY DEF CanAccept, Logged
<1>3. pc = "call" => \E f \in Ep : cx \in se[f]
  BY DEF CanAccept
<1> HIDE DEF ow2, re2, se2, ea2
<1>4. \A f, g \in Ep : f # g => se2[f] \cap se2[g] = {}
  BY <1>1, <1>2
<1>5. ASSUME NEW p \in Req, ow2[p] # None PROVE ow2[p] \in se2[re2[p]]
  <2>1. CASE p = r
    BY <1>1, <2>1
  <2>2. CASE p # r
    BY <1>1, <1>2, <1>5, <2>2
  <2>. QED
    BY <2>1, <2>2
<1>6. ASSUME NEW f \in Ep, NEW y \in se2[f] PROVE ea2[y] \subseteq se2[f] \ {y}
  <2>1. CASE y = x
    <3>1. f = e
      BY <1>1, <1>6, <2>1
    <3>. QED
      BY <1>1, <2>1, <3>1
  <2>2. CASE y # x
    <3>1. y \in se[f] /\ y \in Xfer /\ se[f] \subseteq se2[f]
      BY <1>1, <1>6, <2>2
    <3>. QED
      BY <1>1, <1>2, <2>2, <3>1
  <2>. QED
    BY <2>1, <2>2
<1>7. ASSUME pc = "call", NEW p \in Req, ow2[p] # None PROVE ow2[p] \notin ea2[cx]
  <2>1. PICK f \in Ep : cx \in se[f]
    BY <1>3, <1>7
  <2>2. cx \in Xfer /\ cx # x /\ x \notin ea[cx] /\ ea2[cx] = ea[cx]
    BY <1>1, <1>2, <2>1
  <2>. QED
    BY <1>1, <1>2, <1>7, <2>2
<1>8. Logged(ow2, re2, pc, cx, se2, ea2)
  BY <1>4, <1>5, <1>6, <1>7 DEF Logged
<1>. QED
  BY <1>8 DEF ow2, re2, se2, ea2

\* A free request is put at the end of a list.
LEMMA AttachInOrder ==
  ASSUME NEW fr, NEW L, NEW U, NEW cl, NEW cr, NEW re, ReqsSound(fr, L, U, cl, cr, re),
         NEW K, ReqsInOrder(L, U, cl, cr, K), NEW e \in Ep, NEW r \in fr,
         NEW K2, \A p \in Req \ {r} : <<p, r>> \in K2,
         \A p, q \in Req \ {r} : <<p, q>> \in K => <<p, q>> \in K2
  PROVE  ReqsInOrder([L EXCEPT ![e] = Append(L[e], r)], U, cl, cr, K2)
<1> DEFINE a == Append(L[e], r)
           L2 == [L EXCEPT ![e] = a]
<1>1. /\ fr \subseteq Req /\ L \in [Ep -> Seq(Req)] /\ r \in Req
      /\ \A f, g \in Ep : f # g => ToSet(L[f]) \cap ToSet(L[g]) = {}
      /\ Listed(L) \cup Flown(U) \cup ToSet(cl) \cup ({cr} \ {None}) \subseteq Req \ {r}
  BY DEF ReqsSound
<1>2. L[e] \in Seq(Req) /\ a \in Seq(Req)
  BY <1>1, AppendProperties
<1>3. /\ ToSet(a) = ToSet(L[e]) \cup {r} /\ ToSet(L[e]) \subseteq Listed(L)
      /\ Listed(L2) = (Listed(L) \ ToSet(L[e])) \cup ToSet(a)
  <2>1. ToSet(a) = ToSet(L[e]) \cup {r}
    BY <1>1, <1>2, OnAppend
  <2> HIDE DEF a
  <2>2. ToSet(L[e]) \subseteq Listed(L) /\ Listed([L EXCEPT ![e] = a]) = (Listed(L) \ ToSet(L[e])) \cup ToSet(a)
    <3>1. L \in [Ep -> Seq(Req)] /\ \A f, g \in Ep : f # g => ToSet(L[f]) \cap ToSet(L[g]) = {}
      BY <1>1
    <3>. QED
      BY <1>2, <3>1, ListedExcept
  <2>. QED
    BY <2>1, <2>2
<1>4. Listed(L2) = Listed(L) \cup {r}
  BY <1>3
<1>5. L2[e] = a /\ \A f \in Ep \ {e} : L2[f] = L[f]
  BY <1>1
<1>6. /\ DOMAIN L[e] = 1..Len(L[e]) /\ Len(L[e]) \in Nat /\ DOMAIN a = 1..(Len(L[e]) + 1)
      /\ \A i \in 1..Len(L[e]) : a[i] = L[e][i]
      /\ a[Len(L[e]) + 1] = r
  BY <1>2, AppendProperties, LenProperties
<1> HIDE DEF a, L2
<1>7. ASSUME NEW f \in Ep, NEW i \in DOMAIN L[f], NEW j \in DOMAIN L[f], i < j
      PROVE  <<L[f][i], L[f][j]>> \in K2 /\ L[f][i] \in Req \ {r}
  <2>1. L[f][i] \in ToSet(L[f]) /\ L[f][j] \in ToSet(L[f])
    BY DEF ToSet
  <2>2. L[f][i] \in Req \ {r} /\ L[f][j] \in Req \ {r}
    BY <1>1, <2>1 DEF Listed
  <2>3. <<L[f][i], L[f][j]>> \in K
    BY <1>7 DEF ReqsInOrder, Lined
  <2>. QED
    BY <2>2, <2>3
<1>8. Lined(a, K2)
  <2>1. ASSUME NEW i \in DOMAIN a, NEW j \in DOMAIN a, i < j PROVE <<a[i], a[j]>> \in K2
    <3>1. i \in 1..Len(L[e]) /\ a[i] = L[e][i] /\ a[i] \in ToSet(L[e])
      BY <1>6, <2>1 DEF ToSet
    <3>2. CASE j \in 1..Len(L[e])
      BY <1>6, <1>7, <2>1, <3>1, <3>2
    <3>3. CASE j = Len(L[e]) + 1
      <4>1. a[i] \in Req \ {r}
        BY <1>1, <1>3, <3>1
      <4>. QED
        BY <1>6, <3>3, <4>1
    <3>. QED
      BY <1>6, <3>2, <3>3
  <2>. QED
    BY <2>1 DEF Lined
<1>9. ASSUME NEW f \in Ep PROVE Lined(L2[f], K2)
  <2>1. CASE f = e
    BY <1>5, <1>8, <2>1
  <2>2. CASE f # e
    BY <1>5, <1>7, <2>2 DEF Lined
  <2>. QED
    BY <2>1, <2>2
<1>10. Lined(cl, K2)
  <2>1. \A i \in DOMAIN cl : cl[i] \in Req \ {r}
    BY <1>1 DEF ToSet
  <2>. QED
    BY <2>1 DEF ReqsInOrder, Lined
<1>11. Ahead(Flown(U), Listed(L2), K2)
  BY <1>1, <1>4 DEF ReqsInOrder, Ahead
<1>12. Ahead(ToSet(cl), Flown(U) \cup Listed(L2), K2)
  BY <1>1, <1>4 DEF ReqsInOrder, Ahead
<1>13. Ahead({cr} \ {None}, ToSet(cl) \cup Flown(U) \cup Listed(L2), K2)
  BY <1>1, <1>4 DEF ReqsInOrder, Ahead
<1>14. ReqsInOrder(L2, U, cl, cr, K2)
  BY <1>9, <1>10, <1>11, <1>12, <1>13 DEF ReqsInOrder
<1>. QED
  BY <1>14 DEF L2, a

\* The TDs have requests other than r.
LEMMA OtherTds ==
  ASSUME NEW F, NEW C, NEW U, NEW Q, NEW B, NEW fe, NEW ty, NEW re, NEW H,
         TdsSound(F, C, U, Q, B, fe, ty, re, H), NEW K, TdsInOrder(C, U, B, K),
         NEW r, r \notin Flown(U),
         NEW K2, \A p, q \in Req \ {r} : <<p, q>> \in K => <<p, q>> \in K2
  PROVE  TdsInOrder(C, U, B, K2)
<1>1. U \in [Td -> Req \cup {None}] /\ Labelled(F, C, U, B, fe, re)
  BY DEF TdsSound, TdTypes
<1>2. \A t \in Td : U[t] # None => U[t] \in Req \ {r}
  BY <1>1 DEF Flown
<1>3. \A t \in TdsOf(B) : U[t] \in Req \ {r}
  <2>1. TdsOf(B) \subseteq Td
    BY WhereTdsAre
  <2>. QED
    BY <1>1, <1>2, <2>1 DEF Labelled
<1>4. \A f \in Ep : \A t \in Busy(C, f) : U[t] \in Req \ {r}
  <2>1. \A f \in Ep : Busy(C, f) \subseteq Td
    BY WhereTdsAre
  <2>. QED
    BY <1>1, <1>2, <2>1 DEF Labelled
<1>5. \A i \in DOMAIN B : U[B[i].td] \in Req \ {r}
  BY <1>3 DEF TdsOf
<1>6. \A f \in Ep : \A i \in 1..(Len(C[f]) - 1) : U[C[f][i]] \in Req \ {r}
  BY <1>4 DEF Busy
<1>7. \A i, j \in DOMAIN B : i < j => <<U[B[i].td], U[B[j].td]>> \in K2
  BY <1>5 DEF TdsInOrder
<1>8. \A f \in Ep : \A t \in TdsOf(B), u \in Busy(C, f) : <<U[t], U[u]>> \in K2
  BY <1>3, <1>4 DEF TdsInOrder
<1>9. \A f \in Ep : \A i, j \in 1..(Len(C[f]) - 1) : i < j => <<U[C[f][i]], U[C[f][j]]>> \in K2
  BY <1>6 DEF TdsInOrder
<1>. QED
  BY <1>7, <1>8, <1>9 DEF TdsInOrder
-----------------------------------------------------------------------------
(* The actions                                                             *)

\* What the proofs about the actions use of the invariant.
LEMMA InvParts ==
  ASSUME Inv
  PROVE  /\ TdsSound(freeTd, chain, lut, quiet, Back, freeEp, type, reqEp, halted)
         /\ ReqsSound(freeReq, list, lut, cbList, cbReq, reqEp)
         /\ Owned(freeReq, owner, cbPc, cbReq, cbXfer, Sent)
         /\ owner \in [Req -> Xfer \cup {None}] /\ reqEp \in [Req -> Ep]
         /\ sent \in [Ep -> SUBSET Xfer] /\ earlier \in [Xfer -> SUBSET Xfer]
         /\ chain \in [Ep -> Seq(Td)] /\ list \in [Ep -> Seq(Req)]
         /\ Back \in Seq(DoneRec) /\ cbList \in Seq(Req)
<1>1. /\ TdsSound(freeTd, chain, lut, quiet, Back, freeEp, type, reqEp, halted)
      /\ ReqsSound(freeReq, list, lut, cbList, cbReq, reqEp)
      /\ Owned(freeReq, owner, cbPc, cbReq, cbXfer, Sent)
      /\ RestTypes
  BY DEF Inv
<1>. QED
  BY <1>1 DEF TdsSound, TdTypes, ReqsSound, Owned, RestTypes

\* In the beginning nothing is under way.
LEMMA InitOrdered == Init => Ordered
<1> SUFFICES ASSUME Init PROVE Ordered
  OBVIOUS
<1>1. /\ list = [e \in Ep |-> <<>>] /\ chain = [e \in Ep |-> <<>>] /\ lut = [t \in Td |-> None]
      /\ retired = <<>> /\ written = <<>> /\ done = <<>> /\ owner = [r \in Req |-> None]
      /\ cbList = <<>> /\ cbPc = "wait" /\ cbReq = None /\ sent = [e \in Ep |-> {}]
  BY DEF Init
<1>2. Back = <<>> /\ DOMAIN Back = {} /\ TdsOf(Back) = {}
  <2>1. <<>> \o <<>> \o <<>> = <<>>
    OBVIOUS
  <2>2. Back = <<>>
    BY <1>1, <2>1 DEF Back
  <2>3. DOMAIN Back = {}
    BY <2>2
  <2>. QED
    BY <2>2, <2>3 DEF TdsOf
<1>3. \A e \in Ep : Len(chain[e]) = 0 /\ Busy(chain, e) = {}
  BY <1>1 DEF Busy
<1>4. ToSet(<<>>) = {} /\ Lined(<<>>, May(owner, earlier))
  BY DEF ToSet, Lined
<1>5. Listed(list) = {} /\ Flown(lut) = {}
  BY <1>1, <1>4 DEF Listed, Flown
<1>6. TdsInOrder(chain, lut, Back, May(owner, earlier))
  BY <1>2, <1>3 DEF TdsInOrder
<1>7. ReqsInOrder(list, lut, cbList, cbReq, May(owner, earlier))
  BY <1>1, <1>4, <1>5 DEF ReqsInOrder, Ahead
<1>8. Logged(owner, reqEp, cbPc, cbXfer, sent, earlier)
  BY <1>1 DEF Logged
<1>. QED
  BY <1>6, <1>7, <1>8 DEF Ordered

\* Nothing of it changes.
LEMMA OrderedSame ==
  ASSUME Ordered, Back' = Back, UNCHANGED <<owner, reqEp, sent, earlier, chain, lut, list, cbList, cbReq>>,
         cbPc' = "call" => cbPc = "call" /\ cbXfer' = cbXfer
  PROVE  Ordered'
<1>1. Logged(owner, reqEp, cbPc', cbXfer', sent, earlier)
  BY DEF Ordered, Logged
<1>. QED
  BY <1>1 DEF Ordered

\* An endpoint is opened: its only TD is the tail.
LEMMA OpenOrdered ==
  ASSUME Inv, Ordered, NEW e \in Ep, NEW ty \in Types, OpenEndpoint(e, ty)
  PROVE  Ordered'
<1>1. PICK t \in freeTd : chain' = [chain EXCEPT ![e] = <<t>>]
  BY DEF OpenEndpoint
<1>2. UNCHANGED <<list, retired, written, done, lut, reqEp, owner, cbList, cbPc, cbReq, cbXfer, sent, earlier>>
  BY DEF OpenEndpoint, tds, reqs, cb, log
<1>3. Back' = Back /\ Back \in Seq(DoneRec)
  BY <1>2, InvParts DEF Back
<1>4. ASSUME NEW f \in Ep PROVE chain'[f] = chain[f] \/ Busy(chain', f) = {}
  <2>1. CASE f = e
    <3>1. chain'[f] = <<t>>
      BY <1>1, <2>1, InvParts
    <3>2. Len(chain'[f]) = 1
      BY <3>1
    <3>. QED
      BY <3>2, NoneBusy
  <2>2. CASE f # e
    BY <1>1, <2>2, InvParts
  <2>. QED
    BY <2>1, <2>2
<1>5. TdsInOrder(chain', lut, Back, May(owner, earlier))
  <2> DEFINE K == May(owner, earlier)
             C2 == chain'
  <2>1. TdsInOrder(chain, lut, Back, K) /\ \A f \in Ep : C2[f] = chain[f] \/ Busy(C2, f) = {}
    BY <1>4 DEF Ordered
  <2> HIDE DEF K, C2
  <2>2. TdsInOrder(C2, lut, Back, K)
    BY <1>3, <2>1, FewerTds
  <2>. QED
    BY <2>2 DEF K, C2
<1>. QED
  BY <1>2, <1>3, <1>5 DEF Ordered

\* An endpoint is removed, the done queue is handed over, the callback thread wakes.
LEMMA IdleOrdered ==
  ASSUME Inv, Ordered,
         (\E e \in Ep : RemoveEndpoint(e)) \/ HcWriteDone \/ TakeDone \/ CbWake \/ UNCHANGED vars
  PROVE  Ordered'
<1>1. done \in Seq(DoneRec) /\ written \in Seq(DoneRec) /\ retired \in Seq(DoneRec)
  BY InvTypes
<1>2. CASE \E e \in Ep : RemoveEndpoint(e)
  <2>1. UNCHANGED <<list, hc, tds, reqs, cb, log>>
    BY <1>2 DEF RemoveEndpoint
  <2>2. Back' = Back
    BY <2>1 DEF Back, hc, tds
  <2>. QED
    BY <2>1, <2>2, OrderedSame DEF hc, tds, reqs, cb, log
<1>3. CASE HcWriteDone
  <2>1. /\ written = <<>> /\ written' = retired /\ retired' = <<>>
        /\ UNCHANGED <<eps, chain, tds, reqs, cb, log>>
    BY <1>3 DEF HcWriteDone
  <2>2. done \o retired \o <<>> = done \o written \o retired
    BY <1>1, <2>1, BackMoves
  <2>3. Back' = Back
    BY <2>1, <2>2 DEF Back, tds
  <2>. QED
    BY <2>1, <2>3, OrderedSame DEF eps, tds, reqs, cb, log
<1>4. CASE TakeDone
  <2>1. /\ done = <<>> /\ done' = written /\ written' = <<>>
        /\ UNCHANGED <<eps, chain, retired, lut, reqs, cb, log>>
    BY <1>4 DEF TakeDone, Unlocked
  <2>2. written \o <<>> \o retired = done \o written \o retired
    BY <1>1, <2>1, BackMoves
  <2>3. Back' = Back
    BY <2>1, <2>2 DEF Back
  <2>. QED
    BY <2>1, <2>3, OrderedSame DEF eps, reqs, cb, log
<1>5. CASE CbWake
  <2>1. /\ cbPc' = "loop"
        /\ UNCHANGED <<eps, hc, tds, reqs, cbList, cbReq, cbXfer, log>>
    BY <1>5 DEF CbWake
  <2>2. Back' = Back
    BY <2>1 DEF Back, hc, tds
  <2>. QED
    BY <2>1, <2>2, OrderedSame DEF eps, hc, tds, reqs, log
<1>6. CASE UNCHANGED vars
  <2>1. Back' = Back
    BY <1>6 DEF Back, vars, hc, tds
  <2>. QED
    BY <1>6, <2>1, OrderedSame DEF vars, eps, hc, tds, reqs, cb, log
<1>. QED
  BY <1>2, <1>3, <1>4, <1>5, <1>6

\* The controller retires a TD.
LEMMA RetireOrdered ==
  ASSUME Inv, Ordered, NEW e \in Ep, NEW failed \in BOOLEAN, HcRetire(e, failed)
  PROVE  Ordered'
<1> DEFINE d == [td |-> Head(chain[e]), failed |-> failed]
           K == May(owner, earlier)
<1>1. /\ Len(chain[e]) > 1
      /\ retired' = Append(retired, d)
      /\ chain' = [chain EXCEPT ![e] = Tail(chain[e])]
      /\ UNCHANGED <<list, written, done, lut, reqEp, owner, cbList, cbPc, cbReq, cbXfer, sent, earlier>>
  BY DEF HcRetire, eps, tds, reqs, cb, log
<1>2. d \in DoneRec /\ d.td = Head(chain[e])
  <2>1. chain[e] \in Seq(Td) /\ chain[e] # <<>>
    BY <1>1, InvParts, EmptySeq
  <2>2. Head(chain[e]) \in Td
    BY <2>1, HeadTailProperties
  <2>. QED
    BY <2>2 DEF DoneRec
<1> HIDE DEF d, K
<1>3. Back' = Append(Back, d)
  <2>1. done \o written \o Append(retired, d) = Append(done \o written \o retired, d)
    <3>1. done \in Seq(DoneRec) /\ written \in Seq(DoneRec) /\ retired \in Seq(DoneRec)
      BY InvTypes
    <3>. QED
      BY <1>2, <3>1, BackMoves, SMTT(30)
  <2>. QED
    BY <1>1, <2>1 DEF Back
<1>4. Fair(K, reqEp)
  BY InvParts, LoggedFair DEF Ordered, K
<1>5. TdsInOrder([chain EXCEPT ![e] = Tail(chain[e])], lut, Append(Back, d), K)
  <2>1. TdsInOrder(chain, lut, Back, K)
    BY DEF Ordered, K
  <2>. QED
    BY <1>1, <1>2, <1>4, <2>1, InvParts, RetireInOrder
<1>. QED
  BY <1>1, <1>3, <1>5 DEF Ordered, K

\* What transfers that end, with or without their requests, leave of the log.
LEMMA LessOrdered ==
  ASSUME Inv, Ordered, NEW X, Ended(X),
         \A r \in Req : owner'[r] # None => owner'[r] = owner[r] /\ owner[r] \notin X,
         reqEp' = reqEp, cbPc' = "call" => cbPc = "call" /\ cbXfer' = cbXfer
  PROVE  /\ May(owner, earlier) \subseteq May(owner', earlier')
         /\ Logged(owner', reqEp', cbPc', cbXfer', sent', earlier')
<1>1. sent' = Without(sent, X) /\ earlier' = Dropped(earlier, X)
  BY DEF Ended, Without, Dropped
<1>2. May(owner, earlier) \subseteq May(owner', Dropped(earlier, X))
  <2> DEFINE ow2 == owner'
  <2>1. owner \in [Req -> Xfer \cup {None}] /\ \A r \in Req : ow2[r] # None => ow2[r] = owner[r]
    BY InvParts
  <2> HIDE DEF ow2
  <2>2. May(owner, earlier) \subseteq May(ow2, Dropped(earlier, X))
    BY <2>1, MayGrows
  <2>. QED
    BY <2>2 DEF ow2
<1>3. Logged(owner', reqEp, cbPc', cbXfer, Without(sent, X), Dropped(earlier, X))
  <2> DEFINE ow2 == owner'
             pc2 == cbPc'
  <2>1. cbPc = "call" => cbXfer \in Xfer
    BY InvParts DEF Owned
  <2>2. /\ \A r \in Req : ow2[r] # None => ow2[r] = owner[r] /\ owner[r] \notin X
        /\ pc2 = "call" => cbPc = "call" /\ cbXfer \in Xfer
    BY <2>1
  <2>3. /\ Logged(owner, reqEp, cbPc, cbXfer, sent, earlier)
        /\ reqEp \in [Req -> Ep] /\ sent \in [Ep -> SUBSET Xfer]
    BY InvParts DEF Ordered
  <2> HIDE DEF ow2, pc2
  <2>4. Logged(ow2, reqEp, pc2, cbXfer, Without(sent, X), Dropped(earlier, X))
    BY <2>2, <2>3, LoggedLess
  <2>. QED
    BY <2>4 DEF ow2, pc2
<1>4. Logged(owner', reqEp, cbPc', cbXfer', Without(sent, X), Dropped(earlier, X))
  BY <1>3 DEF Logged
<1>. QED
  BY <1>1, <1>2, <1>4

\* A closed endpoint is killed: its requests are dropped.
LEMMA KillOrdered ==
  ASSUME ~QuietBus, Inv, Ordered, NEW e \in Ep, KillEndpoint(e)
  PROVE  Ordered'
<1> DEFINE gone == InFlight(e)
           dropped == Flying(e) \cup ToSet(list[e])
           X == {owner[r] : r \in dropped}
           K == May(owner, earlier)
           K2 == May(owner', earlier')
<1>1. /\ done = <<>> /\ gone \cap Unseen = {}
      /\ lut' = [t \in Td |-> IF t \in gone THEN None ELSE lut[t]]
      /\ chain' = [chain EXCEPT ![e] = <<>>]
      /\ list' = [list EXCEPT ![e] = <<>>]
      /\ owner' = [r \in Req |-> IF r \in dropped THEN None ELSE owner[r]]
      /\ Ended(X)
      /\ UNCHANGED <<retired, written, done, reqEp, cb>>
  BY DEF KillEndpoint, Unlocked
<1>2. gone = {t \in Td : lut[t] # None /\ reqEp[lut[t]] = e}
  BY DEF InFlight
<1>3. dropped \subseteq Req
  <2>1. list[e] \in Seq(Req) /\ ToSet(list[e]) \subseteq Req
    BY InvTypes, ElementOfSeq DEF ToSet
  <2>2. Flying(e) \subseteq Req
    BY <1>2, InvTypes DEF Flying
  <2>. QED
    BY <2>1, <2>2
<1>4. gone \cap TdsOf(Back) = {} /\ Back' = Back
  <2>1. Back = written \o retired /\ written \in Seq(DoneRec) /\ retired \in Seq(DoneRec)
    BY <1>1, InvTypes, ConcatEmptySeq DEF Back
  <2>2. ToSet(Back) = ToSet(written) \cup ToSet(retired)
    BY <2>1, OnConcat
  <2>3. TdsOf(Back) \subseteq Unseen
    BY <2>2 DEF TdsOf, Unseen, ToSet
  <2>. QED
    BY <1>1, <2>3 DEF Back
<1> HIDE DEF gone, dropped, X
<1>5. \A r \in Req : owner'[r] # None => owner'[r] = owner[r] /\ owner[r] \notin X
  <2>1. ASSUME NEW r \in Req, owner'[r] # None PROVE owner'[r] = owner[r] /\ owner[r] \notin X
    <3>1. r \notin dropped /\ owner'[r] = owner[r] /\ owner[r] # None
      BY <1>1, <2>1
    <3>2. \A s \in dropped : owner[s] # owner[r]
      BY <1>3, <3>1, InvParts DEF Owned
    <3>. QED
      BY <3>1, <3>2 DEF X
  <2>. QED
    BY <2>1
<1>6. K \subseteq K2 /\ Logged(owner', reqEp', cbPc', cbXfer', sent', earlier')
  BY <1>1, <1>5, LessOrdered DEF cb
<1>7. TdsInOrder(chain', lut', Back, K2)
  <2> DEFINE C2 == chain'
             U2 == lut'
  <2>1. ASSUME NEW f \in Ep
        PROVE  /\ C2[f] = chain[f] \/ Busy(C2, f) = {}
               /\ \A t \in Busy(C2, f) : U2[t] = lut[t]
    <3>1. CASE f = e
      <4>1. C2[f] = <<>>
        BY <1>1, <3>1, InvParts
      <4>2. Len(C2[f]) = 0
        BY <4>1
      <4>3. Busy(C2, f) = {}
        BY <4>2 DEF Busy
      <4>. QED
        BY <4>3
    <3>2. CASE f # e
      <4>1. C2[f] = chain[f]
        BY <1>1, <3>2, InvParts
      <4>2. \A t \in Busy(chain, f) : t \in Td /\ reqEp[lut[t]] = f
        <5>1. TdsSound(freeTd, chain, lut, quiet, Back, freeEp, type, reqEp, halted)
          BY InvParts
        <5>2. Busy(chain, f) \subseteq Td
          BY <5>1, WhereTdsAre
        <5>. QED
          BY <5>1, <5>2 DEF TdsSound, Labelled
      <4>3. \A t \in Busy(chain, f) : U2[t] = lut[t]
        BY <1>1, <1>2, <3>2, <4>2
      <4>4. Busy(C2, f) = Busy(chain, f)
        BY <4>1 DEF Busy
      <4>. QED
        BY <4>1, <4>3, <4>4
    <3>. QED
      BY <3>1, <3>2
  <2>2. \A t \in TdsOf(Back) : U2[t] = lut[t]
    <3>1. TdsOf(Back) \subseteq Td
      BY InvParts, WhereTdsAre
    <3>. QED
      BY <1>1, <1>4, <3>1
  <2>3. TdsInOrder(chain, lut, Back, K) /\ Back \in Seq(DoneRec)
    BY InvParts DEF Ordered
  <2> HIDE DEF C2, U2, K, K2
  <2>4. TdsInOrder(C2, U2, Back, K2)
    BY <1>6, <2>1, <2>2, <2>3, FewerTds
  <2>. QED
    BY <2>4 DEF C2, U2
<1>8. ReqsInOrder(list', lut', cbList, cbReq, K2)
  <2> DEFINE L2 == list'
             U2 == lut'
  <2>1. \A f \in Ep : L2[f] = list[f] \/ L2[f] = <<>>
    BY <1>1, InvParts
  <2>2. Flown(U2) \subseteq Flown(lut)
    BY <1>1 DEF Flown
  <2>3. ReqsInOrder(list, lut, cbList, cbReq, K)
    BY DEF Ordered
  <2> HIDE DEF L2, U2, K, K2
  <2>4. ReqsInOrder(L2, U2, cbList, cbReq, K2)
    BY <1>6, <2>1, <2>2, <2>3, FewerReqs
  <2>. QED
    BY <2>4 DEF L2, U2
<1>. QED
  BY <1>1, <1>4, <1>6, <1>7, <1>8 DEF Ordered, cb

\* A transfer is accepted.
LEMMA TransferOrdered ==
  ASSUME Inv, Ordered, NEW e \in Ep, NEW x \in Xfer, NEW hasData \in BOOLEAN, UsbTransfer(e, x, hasData)
  PROVE  Ordered'
<1> DEFINE K == May(owner, earlier)
           K2 == May(owner', earlier')
<1>1. PICK r \in freeReq :
        /\ reqEp' = [reqEp EXCEPT ![r] = e]
        /\ owner' = [owner EXCEPT ![r] = x]
        /\ HandleIoReqList(e, freeTd, Attached(e, r), chain, halted,
                           lut, quiet, IF hasData THEN data \cup {r} ELSE data)
  BY DEF UsbTransfer
<1>2. /\ x \notin Sent
      /\ sent' = [sent EXCEPT ![e] = sent[e] \cup {x}] /\ earlier' = [earlier EXCEPT ![x] = sent[e]]
      /\ UNCHANGED <<retired, written, done, cb>>
  BY DEF UsbTransfer
<1>3. r \in Req /\ r \notin Flown(lut) /\ owner[r] = None
  BY InvParts DEF ReqsSound, Owned
<1>4. CanAccept(owner, reqEp, cbPc, cbXfer, sent, earlier, r, e, x)
  <2>1. cbPc = "call" => cbXfer \in Sent
    BY InvParts DEF Owned
  <2>. QED
    BY <1>2, <1>3, <2>1, InvParts DEF CanAccept, Ordered, Sent
<1>5. /\ \A p \in Req \ {r} : <<p, r>> \in K2
      /\ \A p, q \in Req \ {r} : <<p, q>> \in K => <<p, q>> \in K2
  BY <1>1, <1>2, <1>4, AcceptMay
<1>6. Logged(owner', reqEp', cbPc, cbXfer, sent', earlier')
  BY <1>1, <1>2, <1>4, AcceptLogged
<1>7. ReqsSound(freeReq \ {r}, Attached(e, r), lut, cbList, cbReq, reqEp')
  BY <1>1, InvParts, AttachSound DEF Attached
<1>8. TdsSound(freeTd, chain, lut, quiet, Back, freeEp, type, reqEp', halted)
  <2>1. reqEp' \in [Req -> Ep] /\ \A s \in Flown(lut) : reqEp'[s] = reqEp[s]
    <3>1. \A s \in Flown(lut) : s \in Req
      BY InvTypes DEF Flown
    <3>. QED
      BY <1>1, <1>3, <3>1, InvTypes
  <2>. QED
    BY <2>1, InvParts, MovedSound
<1>9. Fair(K2, reqEp')
  <2> DEFINE ow2 == owner'
             re2 == reqEp'
             se2 == sent'
             ea2 == earlier'
  <2>1. Logged(ow2, re2, cbPc, cbXfer, se2, ea2) /\ re2 \in [Req -> Ep]
    BY <1>1, <1>6, InvParts
  <2> HIDE DEF ow2, re2, se2, ea2
  <2>2. Fair(May(ow2, ea2), re2)
    BY <2>1, LoggedFair
  <2>. QED
    BY <2>2 DEF ow2, re2, ea2
<1> HIDE DEF K, K2
<1>10. TdsInOrder(chain, lut, Back, K2)
  <2>1. TdsInOrder(chain, lut, Back, K)
    BY DEF Ordered, K
  <2>. QED
    BY <1>3, <1>5, <2>1, InvParts, OtherTds
<1>11. ReqsInOrder(Attached(e, r), lut, cbList, cbReq, K2)
  <2>1. ReqsInOrder(list, lut, cbList, cbReq, K)
    BY DEF Ordered, K
  <2>. QED
    BY <1>5, <2>1, InvParts, AttachInOrder DEF Attached
<1>12. TdsInOrder(chain', lut', Back, K2) /\ ReqsInOrder(list', lut', cbList, cbReq, K2)
  <2>1. waiting \in [Queues -> Seq(Ep)] /\ open \subseteq Ep \ freeEp
    BY InvTypes
  <2>. QED
    BY <1>1, <1>7, <1>8, <1>9, <1>10, <1>11, <2>1, HandleInOrder
<1>13. Back' = Back
  BY <1>2 DEF Back
<1>. QED
  BY <1>2, <1>6, <1>12, <1>13 DEF Ordered, cb, K2

\* What the interrupt thread calls back: the request of b, and those of the first m TDs of c.
Calls(U, b, c, m, one, all) ==
  (IF one THEN <<U[b]>> ELSE <<>>) \o (IF all THEN [i \in 1..m |-> U[c[i]]] ELSE <<>>)

\* The TDs have requests, and may be called back in that order.
CanCall(U, b, c, m, K) ==
  /\ m \in Nat /\ U[b] \in Req
  /\ \A i \in 1..m : U[c[i]] \in Req /\ <<U[b], U[c[i]]>> \in K
  /\ \A i, j \in 1..m : i < j => <<U[c[i]], U[c[j]]>> \in K

\* It is in order, and those are its members.
LEMMA CallsInOrder ==
  ASSUME NEW U, NEW b, NEW c, NEW m, NEW one, NEW all, NEW K, CanCall(U, b, c, m, K)
  PROVE  /\ Calls(U, b, c, m, one, all) \in Seq(Req) /\ Lined(Calls(U, b, c, m, one, all), K)
         /\ ToSet(Calls(U, b, c, m, one, all)) =
              (IF one THEN {U[b]} ELSE {}) \cup (IF all THEN {U[c[i]] : i \in 1..m} ELSE {})
<1> DEFINE s == IF one THEN <<U[b]>> ELSE <<>>
           f == [i \in 1..m |-> U[c[i]]]
           t == IF all THEN f ELSE <<>>
<1>0. /\ m \in Nat /\ U[b] \in Req
      /\ \A i \in 1..m : U[c[i]] \in Req /\ <<U[b], U[c[i]]>> \in K
      /\ \A i, j \in 1..m : i < j => <<U[c[i]], U[c[j]]>> \in K
  BY DEF CanCall
<1>1. <<>> \in Seq(Req) /\ Lined(<<>>, K) /\ ToSet(<<>>) = {}
  BY DEF Lined, ToSet
<1>2. s \in Seq(Req) /\ Lined(s, K) /\ ToSet(s) = IF one THEN {U[b]} ELSE {}
  <2>1. CASE one
    BY <1>0, <2>1 DEF Lined, ToSet
  <2>2. CASE ~one
    <3>1. s = <<>>
      BY <2>2
    <3> HIDE DEF s
    <3>. QED
      BY <1>1, <2>2, <3>1
  <2>. QED
    BY <2>1, <2>2
<1>3. /\ f \in Seq(Req) /\ Lined(f, K) /\ Ahead({U[b]}, ToSet(f), K)
      /\ ToSet(f) = {U[c[i]] : i \in 1..m}
  <2>1. f \in [1..m -> Req] /\ DOMAIN f = 1..m /\ \A i \in 1..m : f[i] = U[c[i]]
    BY <1>0
  <2> HIDE DEF f
  <2>2. f \in Seq(Req)
    BY <1>0, <2>1, FunIsSeq
  <2>3. Lined(f, K)
    BY <1>0, <2>1 DEF Lined
  <2>4. \A i \in DOMAIN f : <<U[b], f[i]>> \in K
    BY <1>0, <2>1
  <2>5. ToSet(f) = {U[c[i]] : i \in 1..m}
    BY <2>1 DEF ToSet
  <2>6. Ahead({U[b]}, ToSet(f), K)
    BY <2>4 DEF Ahead, ToSet
  <2>. QED
    BY <2>2, <2>3, <2>5, <2>6
<1>4. /\ t \in Seq(Req) /\ Lined(t, K) /\ Ahead({U[b]}, ToSet(t), K)
      /\ ToSet(t) = IF all THEN {U[c[i]] : i \in 1..m} ELSE {}
  <2>1. CASE all
    <3>1. t = f
      BY <2>1
    <3> HIDE DEF f, t
    <3>. QED
      BY <1>3, <2>1, <3>1
  <2>2. CASE ~all
    <3>1. t = <<>>
      BY <2>2
    <3> HIDE DEF f, t
    <3>. QED
      BY <1>1, <2>2, <3>1 DEF Ahead
  <2>. QED
    BY <2>1, <2>2
<1> HIDE DEF s, f, t
<1>5. Ahead(ToSet(s), ToSet(t), K)
  BY <1>2, <1>4 DEF Ahead
<1>6. s \o t \in Seq(Req) /\ Lined(s \o t, K) /\ ToSet(s \o t) = ToSet(s) \cup ToSet(t)
  <2>1. Lined(s \o t, K)
    BY <1>2, <1>4, <1>5, LinedJoin
  <2>. QED
    <3>1. s \in Seq(Req) /\ t \in Seq(Req)
      BY <1>2, <1>4
    <3>2. ToSet(s \o t) = ToSet(s) \cup ToSet(t)
      BY <3>1, OnConcat
    <3>3. s \o t \in Seq(Req)
      BY <3>1, ConcatProperties
    <3>. QED
      BY <2>1, <3>2, <3>3
<1>7. Calls(U, b, c, m, one, all) = s \o t
  BY DEF Calls, s, t, f
<1>. QED
  BY <1>2, <1>4, <1>6, <1>7

\* The interrupt thread works through a descriptor.
LEMMA ProcessOrdered ==
  ASSUME Inv, Ordered, ProcessDone
  PROVE  Ordered'
<1> DEFINE d == Head(done)
           r == lut[d.td]
           e == reqEp[r]
           abort == d.failed /\ e \in halted
           last == Len(chain[e])
           undone == IF abort THEN {chain[e][i] : i \in 1..(last - 1)} ELSE {}
           first == IF d.failed \/ d.td \notin quiet THEN <<r>> ELSE <<>>
           aborted == IF abort THEN [i \in 1..(last - 1) |-> lut[chain[e][i]]] ELSE <<>>
           back == undone \cup {d.td}
           C1 == IF abort THEN [chain EXCEPT ![e] = <<chain[e][last]>>] ELSE chain
           H1 == IF abort THEN halted \ {e} ELSE halted
           U1 == [t \in Td |-> IF t \in back THEN None ELSE lut[t]]
           ended == EndedBy(Back, halted, chain, lut, quiet, reqEp)
           asks == d.failed \/ d.td \notin quiet
           calls == Calls(lut, d.td, chain[e], last - 1, asks, abort)
           K == May(owner, earlier)
           K2 == May(owner', earlier')
<1>1. /\ done # <<>> /\ done' = Tail(done)
      /\ UNCHANGED <<freeEp, open, type, retired, written, reqEp, cbPc, cbReq, cbXfer>>
  BY DEF ProcessDone
<1>2. Back # <<>> /\ Head(Back) = d /\ Tail(Back) = Back'
  <2>1. done \in Seq(DoneRec) /\ written \in Seq(DoneRec) /\ retired \in Seq(DoneRec)
    BY InvTypes
  <2>2. /\ done \o written \o retired # <<>> /\ Head(done \o written \o retired) = Head(done)
        /\ Tail(done) \o written \o retired = Tail(done \o written \o retired)
    BY <1>1, <2>1, BackMoves
  <2>. QED
    BY <1>1, <2>2 DEF Back
<1>3. d.td \in TdsOf(Back) /\ d.td \in Td /\ r # None /\ r \in Req /\ e \in Ep \ freeEp
  <2>1. TdsSound(freeTd, chain, lut, quiet, Back, freeEp, type, reqEp, halted)
    BY DEF Inv
  <2>2. d.td \in TdsOf(Back) /\ TdsOf(Back) \subseteq Td
    BY <1>2, <2>1, EndedSound, WhereTdsAre
  <2>3. r # None /\ e \notin freeEp
    BY <2>1, <2>2 DEF TdsSound, Labelled
  <2>4. r \in Req /\ e \in Ep
    BY <2>2, <2>3, InvTypes
  <2>. QED
    BY <2>2, <2>3, <2>4
<1>4. /\ halted' = H1
      /\ CheckTdQueue(QueueOf(e), freeTd \cup back, list, C1, halted', U1, quiet \ back, data)
      /\ \E ends \in Uniques(first \o aborted) :
           IF e \in open
           THEN Signal(ends) /\ UNCHANGED <<freeReq, owner, log>>
           ELSE /\ freeReq' = freeReq \cup ToSet(ends)
                /\ owner' = [s \in Req |-> IF s \in ToSet(ends) THEN None ELSE owner[s]]
                /\ Ended({owner[s] : s \in ToSet(ends)})
                /\ UNCHANGED <<cbList, cbEvent>>
  BY <1>3, Zenon DEF ProcessDone
<1>5. CanProcess(freeTd, chain, lut, quiet, Back, freeEp, type, reqEp, halted, back, ended, C1, U1, H1)
  <2>1. TdsSound(freeTd, chain, lut, quiet, Back, freeEp, type, reqEp, halted)
    BY DEF Inv
  <2>2. Aborts(Back, halted, lut, reqEp) <=> abort
    BY <1>2 DEF Aborts
  <2>3. back = TakenBack(Back, halted, chain, lut, reqEp)
    BY <1>2 DEF TakenBack, Aborts, Busy
  <2>. QED
    BY <1>2, <2>1, <2>2, <2>3, Zenon DEF CanProcess
<1>6. first \o aborted = calls
  BY DEF Calls
<1>7. PICK ends \in Uniques(calls) :
        IF e \in open
        THEN Signal(ends) /\ UNCHANGED <<freeReq, owner, log>>
        ELSE /\ freeReq' = freeReq \cup ToSet(ends)
             /\ owner' = [s \in Req |-> IF s \in ToSet(ends) THEN None ELSE owner[s]]
             /\ Ended({owner[s] : s \in ToSet(ends)})
             /\ UNCHANGED <<cbList, cbEvent>>
  BY <1>4, <1>6
<1>8. Fair(K, reqEp) /\ TdsInOrder(chain, lut, Back, K)
  <2>1. Logged(owner, reqEp, cbPc, cbXfer, sent, earlier) /\ reqEp \in [Req -> Ep]
    BY InvParts DEF Ordered
  <2>2. Fair(May(owner, earlier), reqEp)
    BY <2>1, LoggedFair
  <2>. QED
    BY <2>2 DEF Ordered
<1>9. last - 1 \in Nat /\ \A i \in 1..(last - 1) : chain[e][i] \in Busy(chain, e) /\ lut[chain[e][i]] \in Req
  <2>1. last - 1 \in Nat
    BY <1>3, InvParts, WhereTdsAre
  <2>2. \A t \in Busy(chain, e) : lut[t] \in Req
    <3>1. \A t \in Busy(chain, e) : t \in Td /\ lut[t] # None
      <4>1. TdsSound(freeTd, chain, lut, quiet, Back, freeEp, type, reqEp, halted)
        BY InvParts
      <4>2. Busy(chain, e) \subseteq Td
        BY <1>3, <4>1, WhereTdsAre
      <4>. QED
        BY <1>3, <4>1, <4>2 DEF TdsSound, Labelled
    <3>. QED
      BY <3>1, InvTypes
  <2>. QED
    BY <2>1, <2>2 DEF Busy
<1> HIDE DEF K, K2, back, C1, U1, H1, ended, calls
<1>10. calls \in Seq(Req) /\ Lined(calls, K) /\ ToSet(calls) = ended
  <2>2. \A i \in 1..(last - 1) : lut[chain[e][i]] \in Req /\ <<lut[d.td], lut[chain[e][i]]>> \in K
    BY <1>3, <1>8, <1>9 DEF TdsInOrder
  <2>3. \A i, j \in 1..(last - 1) : i < j => <<lut[chain[e][i]], lut[chain[e][j]]>> \in K
    BY <1>3, <1>8 DEF TdsInOrder
  <2> DEFINE m == last - 1
             c == chain[e]
             b == d.td
  <2>5. ended = (IF asks THEN {lut[b]} ELSE {}) \cup (IF abort THEN {lut[c[i]] : i \in 1..m} ELSE {})
    <3>1. {lut[t] : t \in Busy(chain, e)} = {lut[c[i]] : i \in 1..m}
      BY DEF Busy
    <3>. QED
      BY <1>2, <3>1 DEF ended, EndedBy, Aborts
  <2>6. CanCall(lut, b, c, m, K) /\ calls = Calls(lut, b, c, m, asks, abort)
    BY <1>3, <1>9, <2>2, <2>3 DEF calls, CanCall
  <2> HIDE DEF m, c, b, asks, abort
  <2>. QED
    BY <2>5, <2>6, CallsInOrder
<1> HIDE DEF d, r, e, abort, last, first, aborted, asks, undone
<1>11. ends \in Seq(Req) /\ Lined(ends, K) /\ Once(ends) /\ ToSet(ends) = ended
  BY <1>10, UniquesAre, UniquesInOrder
<1>12. /\ TdsSound(freeTd \cup back, C1, U1, quiet \ back, Back', freeEp, type, reqEp, H1)
       /\ LosesTds(lut, U1, ended)
       /\ TdsInOrder(C1, U1, Back', K) /\ Ahead(ended, Flown(U1), K)
  BY <1>2, <1>5, <1>8, ProcessSound, ProcessInOrder
<1>13. /\ ReqsSound(freeReq', list, U1, cbList', cbReq, reqEp)
       /\ ReqsInOrder(list, U1, cbList', cbReq, K2)
       /\ K \subseteq K2
       /\ Logged(owner', reqEp', cbPc', cbXfer', sent', earlier')
  <2>1. CASE e \in open
    <3>1. cbList' = cbList \o ends /\ UNCHANGED <<freeReq, owner, log>>
      BY <1>7, <2>1, Zenon DEF Signal
    <3>2. ReqsSound(freeReq, list, U1, cbList \o ends, cbReq, reqEp)
      BY <1>11, <1>12, InvParts, CallBackSound
    <3>3. ReqsInOrder(list, U1, cbList \o ends, cbReq, K)
      <4>1. ReqsInOrder(list, lut, cbList, cbReq, K)
        BY DEF Ordered, K
      <4>. QED
        BY <1>11, <1>12, <4>1, InvParts, SignalInOrder
    <3>4. K2 = K
      BY <3>1 DEF K, K2, log
    <3>5. Logged(owner', reqEp', cbPc', cbXfer', sent', earlier')
      BY <1>1, <3>1 DEF log, Ordered
    <3>. QED
      BY <3>1, <3>2, <3>3, <3>4, <3>5
  <2>2. CASE e \notin open
    <3> DEFINE X == {owner[s] : s \in ended}
    <3>1. /\ freeReq' = freeReq \cup ended
          /\ owner' = [s \in Req |-> IF s \in ended THEN None ELSE owner[s]]
          /\ Ended(X)
          /\ cbList' = cbList
      BY <1>7, <1>11, <2>2
    <3>2. ReqsSound(freeReq \cup ended, list, U1, cbList, cbReq, reqEp) /\ ended \subseteq Req
      BY <1>12, InvParts, FreeSound
    <3> HIDE DEF X
    <3>3. ASSUME NEW s \in Req, owner'[s] # None PROVE owner'[s] = owner[s] /\ owner[s] \notin X
      <4>1. s \notin ended /\ owner'[s] = owner[s] /\ owner[s] # None
        BY <3>1, <3>3
      <4>2. \A q \in ended : owner[q] # owner[s]
        BY <3>2, <4>1, InvParts DEF Owned
      <4>. QED
        BY <4>1, <4>2 DEF X
    <3>4. K \subseteq K2 /\ Logged(owner', reqEp', cbPc', cbXfer', sent', earlier')
      BY <1>1, <3>1, <3>3, LessOrdered DEF K, K2
    <3>5. ReqsInOrder(list, U1, cbList, cbReq, K2)
      <4>1. Flown(U1) \subseteq Flown(lut)
        BY <1>12 DEF LosesTds
      <4>2. ReqsInOrder(list, lut, cbList, cbReq, K)
        BY DEF Ordered, K
      <4>. QED
        BY <3>4, <4>1, <4>2, FewerReqs
    <3>. QED
      BY <3>1, <3>2, <3>4, <3>5
  <2>. QED
    BY <2>1, <2>2
<1>14. TdsInOrder(C1, U1, Back', K2)
  <2> DEFINE B2 == Back'
  <2>1. TdsInOrder(C1, U1, B2, K) /\ K \subseteq K2 /\ B2 \in Seq(DoneRec)
    <3>1. Tail(Back) \in Seq(DoneRec)
      BY <1>2, InvParts, HeadTailProperties
    <3>. QED
      BY <1>2, <1>12, <1>13, <3>1
  <2> HIDE DEF B2
  <2>2. TdsInOrder(C1, U1, B2, K2)
    BY <2>1, FewerTds
  <2>. QED
    BY <2>2 DEF B2
<1>15. Fair(K2, reqEp)
  <2> DEFINE ow2 == owner'
             pc2 == cbPc'
             cx2 == cbXfer'
             se2 == sent'
             ea2 == earlier'
  <2>1. Logged(ow2, reqEp, pc2, cx2, se2, ea2) /\ reqEp \in [Req -> Ep]
    BY <1>1, <1>13, InvParts
  <2> HIDE DEF ow2, pc2, cx2, se2, ea2
  <2>2. Fair(May(ow2, ea2), reqEp)
    BY <2>1, LoggedFair
  <2>. QED
    BY <2>2 DEF ow2, ea2, K2
<1>16. TdsInOrder(chain', lut', Back', K2) /\ ReqsInOrder(list', lut', cbList', cbReq, K2)
  <2>1. waiting \in [Queues -> Seq(Ep)] /\ open \subseteq Ep \ freeEp
    BY InvTypes
  <2>2. QueueOf(e) \in Queues
    BY DEF QueueOf, Queues
  <2>3. CheckTdQueue(QueueOf(e), freeTd \cup back, list, C1, H1, U1, quiet \ back, data)
    BY <1>4
  <2>. QED
    BY <1>12, <1>13, <1>14, <1>15, <2>1, <2>2, <2>3, CheckInOrder
<1>. QED
  BY <1>1, <1>13, <1>16 DEF Ordered, K2

\* What still waits may go ahead of what the thread takes next.
LEMMA TakeInOrder ==
  ASSUME NEW L, NEW U, NEW cl \in Seq(Req), cl # <<>>, NEW cr, NEW K, ReqsInOrder(L, U, cl, cr, K)
  PROVE  ReqsInOrder(L, U, Tail(cl), Head(cl), K)
<1>1. ToSet(cl) = ToSet(Tail(cl)) \cup {Head(cl)}
  BY OnTail
<1>2. Lined(Tail(cl), K) /\ Ahead({Head(cl)}, ToSet(Tail(cl)), K)
  BY LinedTail DEF ReqsInOrder
<1>3. Ahead(ToSet(Tail(cl)), Flown(U) \cup Listed(L), K)
  BY <1>1 DEF ReqsInOrder, Ahead
<1>4. Ahead({Head(cl)} \ {None}, ToSet(Tail(cl)) \cup Flown(U) \cup Listed(L), K)
  BY <1>1, <1>2 DEF ReqsInOrder, Ahead
<1>. QED
  BY <1>2, <1>3, <1>4 DEF ReqsInOrder

\* The callback thread takes a request, frees it, and calls the user.
LEMMA ThreadOrdered ==
  ASSUME Inv, Ordered, CbTake \/ CbFree \/ CbCall
  PROVE  Ordered'
<1> DEFINE K == May(owner, earlier)
           K2 == May(owner', earlier')
<1>1. /\ Logged(owner, reqEp, cbPc, cbXfer, sent, earlier)
      /\ TdsInOrder(chain, lut, Back, K) /\ ReqsInOrder(list, lut, cbList, cbReq, K)
  BY DEF Ordered
<1>2. CASE CbTake /\ cbList = <<>>
  <2>1. /\ cbPc' = "wait"
        /\ UNCHANGED <<eps, hc, tds, reqs, cbList, cbReq, cbXfer, log>>
    BY <1>2 DEF CbTake
  <2>2. Back' = Back
    BY <2>1 DEF Back, hc, tds
  <2>. QED
    BY <2>1, <2>2, OrderedSame DEF eps, hc, tds, reqs, log
<1>3. CASE CbTake /\ cbList # <<>>
  <2>1. /\ cbPc' = "free" /\ cbReq' = Head(cbList) /\ cbList' = Tail(cbList)
        /\ UNCHANGED <<eps, hc, tds, reqs, log>>
    BY <1>3 DEF CbTake
  <2>2. Back' = Back
    BY <2>1 DEF Back, hc, tds
  <2>3. ReqsInOrder(list, lut, Tail(cbList), Head(cbList), K)
    BY <1>1, <1>3, InvParts, TakeInOrder
  <2>4. Logged(owner, reqEp, cbPc', cbXfer', sent, earlier)
    BY <1>1, <2>1 DEF Logged
  <2>. QED
    BY <1>1, <2>1, <2>2, <2>3, <2>4 DEF Ordered, eps, hc, tds, reqs, log
<1>4. CASE CbFree
  <2>1. /\ cbPc = "free" /\ cbPc' = "call" /\ cbReq' = None
        /\ owner' = [owner EXCEPT ![cbReq] = None]
        /\ UNCHANGED <<eps, hc, tds, reqEp, cbList, cbXfer, log>>
    BY <1>4 DEF CbFree
  <2>2. Back' = Back
    BY <2>1 DEF Back, hc, tds
  <2>3. /\ cbReq \in Req \ freeReq /\ cbXfer = owner[cbReq] /\ cbXfer # None
        /\ \A r \in Req : owner'[r] # None => r # cbReq /\ owner'[r] = owner[r]
    BY <2>1, InvParts DEF Owned
  <2>4. K \subseteq K2
    <3>1. SUFFICES ASSUME NEW r \in Req, NEW s \in Req, <<r, s>> \in K, owner'[r] # None, owner'[s] # None
                   PROVE  owner'[s] \notin earlier'[owner'[r]]
      BY MayIs DEF May
    <3>2. earlier' = earlier /\ owner'[r] = owner[r] /\ owner'[s] = owner[s]
      BY <2>1, <2>3, <3>1 DEF log
    <3>. QED
      BY <3>1, <3>2, MayIs
  <2>5. ASSUME NEW r \in Req, owner'[r] # None PROVE owner'[r] \in sent[reqEp[r]] /\ owner'[r] \notin earlier[cbXfer]
    <3>1. r # cbReq /\ owner'[r] = owner[r] /\ owner[r] # None
      BY <2>3, <2>5
    <3>2. r \in Listed(list) \cup Flown(lut) \cup ToSet(cbList)
      <4>1. r \notin freeReq
        BY <3>1, InvParts DEF Owned
      <4>. QED
        BY <3>1, <4>1, InvParts DEF ReqsSound
    <3>3. <<cbReq, r>> \in K
      <4>1. cbReq \in {cbReq} \ {None}
        BY <2>3, UsbTransferAssumption
      <4>. QED
        BY <1>1, <3>2, <4>1 DEF ReqsInOrder, Ahead
    <3>4. owner[r] \notin earlier[owner[cbReq]]
      BY <2>3, <3>1, <3>3, MayIs
    <3>. QED
      BY <1>1, <2>3, <3>1, <3>4 DEF Logged
  <2>6. Logged(owner', reqEp', cbPc', cbXfer', sent', earlier')
    <3>1. UNCHANGED <<reqEp, cbXfer, sent, earlier>>
      BY <2>1 DEF log
    <3>. QED
      BY <1>1, <2>5, <3>1 DEF Logged
  <2>7. TdsInOrder(chain', lut', Back', K2)
    <3>1. Back \in Seq(DoneRec)
      BY InvParts
    <3> HIDE DEF K, K2
    <3>2. TdsInOrder(chain, lut, Back, K2)
      BY <1>1, <2>4, <3>1, FewerTds
    <3>. QED
      BY <2>1, <2>2, <3>2 DEF hc, tds
  <2>8. ReqsInOrder(list', lut', cbList', cbReq', K2)
    <3> HIDE DEF K, K2
    <3>1. ReqsInOrder(list, lut, cbList, cbReq, K2)
      BY <1>1, <2>4, FewerReqs
    <3>2. ReqsInOrder(list, lut, cbList, None, K2)
      BY <3>1 DEF ReqsInOrder, Ahead
    <3>. QED
      BY <2>1, <3>2 DEF eps, tds
  <2>. QED
    BY <2>6, <2>7, <2>8 DEF Ordered
<1>5. CASE CbCall
  <2>1. /\ cbPc = "call" /\ cbPc' = "loop" /\ Ended({cbXfer})
        /\ UNCHANGED <<eps, hc, tds, reqs, cbList, cbReq>>
    BY <1>5 DEF CbCall
  <2>2. Back' = Back /\ Back \in Seq(DoneRec)
    BY <2>1, InvParts DEF Back, hc, tds
  <2>3. \A r \in Req : owner'[r] # None => owner'[r] = owner[r] /\ owner[r] \notin {cbXfer}
    BY <2>1, InvParts DEF Owned, reqs
  <2>4. K \subseteq K2 /\ Logged(owner', reqEp', cbPc', cbXfer', sent', earlier')
    BY <2>1, <2>3, LessOrdered DEF reqs
  <2> HIDE DEF K, K2
  <2>5. TdsInOrder(chain, lut, Back, K2)
    BY <1>1, <2>2, <2>4, FewerTds
  <2>6. ReqsInOrder(list, lut, cbList, cbReq, K2)
    BY <1>1, <2>4, FewerReqs
  <2>. QED
    BY <2>1, <2>2, <2>4, <2>5, <2>6 DEF Ordered, eps, hc, tds, K2
<1>. QED
  BY <1>2, <1>3, <1>4, <1>5

\* Every step keeps the order.
LEMMA OrderStep ==
  ASSUME ~QuietBus, OrderInv, [Next]_vars
  PROVE  OrderInv'
<1>0. Inv /\ Ordered
  BY DEF OrderInv
<1>1. Inv'
  BY <1>0, InvStep
<1>2. Ordered'
  <2>1. ASSUME NEW e \in Ep, NEW ty \in Types, OpenEndpoint(e, ty) PROVE Ordered'
    BY <1>0, <2>1, OpenOrdered
  <2>2. ASSUME NEW e \in Ep, KillEndpoint(e) PROVE Ordered'
    BY <1>0, <2>2, KillOrdered
  <2>3. ASSUME NEW e \in Ep, NEW x \in Xfer, NEW hasData \in BOOLEAN, UsbTransfer(e, x, hasData) PROVE Ordered'
    BY <1>0, <2>3, TransferOrdered
  <2>4. ASSUME NEW e \in Ep, NEW failed \in BOOLEAN, HcRetire(e, failed) PROVE Ordered'
    BY <1>0, <2>4, RetireOrdered
  <2>5. CASE ProcessDone
    BY <1>0, <2>5, ProcessOrdered
  <2>6. CASE CbTake \/ CbFree \/ CbCall
    BY <1>0, <2>6, ThreadOrdered
  <2>7. CASE (\E e \in Ep : RemoveEndpoint(e)) \/ HcWriteDone \/ TakeDone \/ CbWake \/ UNCHANGED vars
    BY <1>0, <2>7, IdleOrdered
  <2>. QED
    BY <2>1, <2>2, <2>3, <2>4, <2>5, <2>6, <2>7 DEF Next
<1>. QED
  BY <1>1, <1>2 DEF OrderInv

\* The transfer that is called back waits for none.
LEMMA CallOrdered ==
  ASSUME OrderInv, CbCall
  PROVE  cbXfer \in Sent /\ earlier[cbXfer] = {}
<1>1. /\ Inv /\ Logged(owner, reqEp, cbPc, cbXfer, sent, earlier) /\ cbPc = "call"
  BY DEF OrderInv, Ordered, CbCall
<1>2. /\ cbXfer # None /\ Sent = ({owner[r] : r \in Req} \cup {cbXfer}) \ {None}
  BY <1>1, InvParts DEF Owned
<1>3. PICK e \in Ep : cbXfer \in sent[e]
  BY <1>2 DEF Sent
<1>4. earlier[cbXfer] \subseteq sent[e] \ {cbXfer}
  BY <1>1, <1>3 DEF Logged
<1>5. \A y \in sent[e] \ {cbXfer} : y \notin earlier[cbXfer]
  <2>1. ASSUME NEW y \in sent[e] \ {cbXfer} PROVE y \notin earlier[cbXfer]
    <3>1. y \in Sent
      BY DEF Sent
    <3>2. PICK r \in Req : y = owner[r] /\ y # None
      BY <1>2, <3>1
    <3>. QED
      BY <1>1, <3>2 DEF Logged
  <2>. QED
    BY <2>1
<1>. QED
  BY <1>2, <1>4, <1>5

\* The users of an endpoint are called back in the order of their transfers,
\* whatever the controller retires together, fails or halts, whichever
\* endpoints wait for TDs, and however closed ones are killed (CallbackInOrder).
THEOREM TransfersInOrder ==
  ASSUME ~QuietBus
  PROVE  Spec => CallbackInOrder
<1>1. Init => OrderInv
  BY InitInv, InitOrdered DEF OrderInv
<1>2. OrderInv /\ [Next]_vars => OrderInv'
  BY OrderStep
<1>3. OrderInv => [CbCall => cbXfer \in Sent /\ earlier[cbXfer] = {}]_vars
  BY CallOrdered
<1>. QED
  BY <1>1, <1>2, <1>3, PTL DEF Spec, CallbackInOrder
=============================================================================
