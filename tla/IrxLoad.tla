------------------------------ MODULE IrxLoad ------------------------------
(***************************************************************************)
(* Relocation of an IRX module by UDNL (udnl.c, LoadIRXModule): the loads  *)
(* of SYSMEM and LOADCORE, which no loader does for it.                    *)
(*                                                                         *)
(* A word has two halves of Half values, instead of 2^16; the text is a    *)
(* function from places to words, and a relocation names a place.          *)
(***************************************************************************)
EXTENDS Integers, Sequences

CONSTANT Half

ASSUME IrxLoadAssumption == Half \in Nat \ {0} /\ Half % 4 = 0

Word == Half * Half
Segment == Word \div 4   \* what the target of a jump can reach
Low(w) == w % Half
WithLow(w, x) == w - Low(w) + x
Signed(x) == IF x >= Half \div 2 THEN x - Half ELSE x

\* The target of a jump at place p: the field counts words in the segment of p.
Field == Segment \div 4

\* What two instructions that load the halves of an address load.
Loaded(text, h, l) == (Low(text[h]) * Half + Signed(Low(text[l]))) % Word

\* Mutant: the carry from the signed lower half is left out.
RoundedNot(a) == a \div Half

\* The upper half that goes with the signed lower half of a.
Rounded(a) == ((a \div (Half \div 2) + 1) \div 2) % Half

\* One entry.  R_MIPS_HI16 takes the entry after it for its R_MIPS_LO16, which
\* then is not looked at; on its own R_MIPS_LO16 does nothing.
Relocate(s, rels, i, base) ==
  LET text == s.text
      r == rels[i]
      w == text[r.at]
      Patched(v) == [text |-> [text EXCEPT ![r.at] = v], skip |-> FALSE]
  IN CASE s.skip -> [s EXCEPT !.skip = FALSE]
       [] ~s.skip /\ r.type = "16" -> Patched(WithLow(w, (base + Signed(Low(w))) % Half))
       [] ~s.skip /\ r.type = "32" -> Patched((w + base) % Word)
       [] ~s.skip /\ r.type = "26" ->
            Patched((w - (w % Field)) + ((base + (w % Field) * 4) % Segment) \div 4)
       [] ~s.skip /\ r.type = "hi" ->
            LET l == rels[i + 1].at
                a == (Loaded(text, r.at, l) + base) % Word
            IN [text |-> [text EXCEPT ![r.at] = WithLow(w, Rounded(a)), ![l] = WithLow(text[l], Low(a))],
                skip |-> TRUE]
       [] OTHER -> s

\* All entries of a section, in order.
Relocated(text, rels, base) ==
  LET after[i \in 0..Len(rels)] ==
        IF i = 0 THEN [text |-> text, skip |-> FALSE] ELSE Relocate(after[i - 1], rels, i, base)
  IN after[Len(rels)].text
-----------------------------------------------------------------------------
(* What relocation is for                                                  *)

\* The entries the compiler makes come in pairs of HI16 and LO16.
Paired(rels) ==
  \A i \in DOMAIN rels :
    /\ rels[i].type = "hi" => i < Len(rels) /\ rels[i + 1].type = "lo"
    /\ rels[i].type = "lo" => i > 1 /\ rels[i - 1].type = "hi"

\* Each entry is of a word of the text, and no two are of the same.
EntriesApart(text, rels) ==
  /\ text \in [DOMAIN text -> 0..(Word - 1)]
  /\ rels \in Seq([type : STRING, at : DOMAIN text])
  /\ \A i, j \in DOMAIN rels : rels[i].at = rels[j].at => i = j

\* Every address in the text that has an entry is base further on, as far as
\* its width goes; nothing else is changed.
Moved(before, after, rels, base) ==
  /\ \A i \in DOMAIN rels :
       LET p == rels[i].at IN
       /\ rels[i].type = "hi" =>
            Loaded(after, p, rels[i + 1].at) = (Loaded(before, p, rels[i + 1].at) + base) % Word
       /\ rels[i].type = "32" => after[p] = (before[p] + base) % Word
       /\ rels[i].type = "16" => Low(after[p]) = (Low(before[p]) + base) % Half
       /\ rels[i].type = "26" =>
            (after[p] % Field) * 4 = ((before[p] % Field) * 4 + base) % Segment
  /\ \A p \in DOMAIN before :
       /\ p \notin {rels[i].at : i \in DOMAIN rels} => after[p] = before[p]
       /\ \A i \in DOMAIN rels : rels[i].at = p /\ rels[i].type \in {"hi", "lo", "16"} =>
            after[p] - Low(after[p]) = before[p] - Low(before[p])
=============================================================================
