----------------------------- MODULE MCIopReset -----------------------------
(* Images of a game, for TLC *)
EXTENDS IopReset

Ent(n, v) == [name |-> n, ver |-> v, ext |-> TRUE]
Line1(op, n, a) == [op |-> op, name |-> n, at |-> a]
Mod(n) == Line1("module", n, 0)
NoConf == [f \in ConfFile |-> <<>>]

MCRom ==
  [size |-> 0, dir |-> 0,
   ents |-> <<Ent("SYSMEM", 1), Ent("LOADCORE", 1), Ent("CDVDMAN", 1), Ent("EESYNC", 1),
              Ent("EXTRA", 0), Ent("IOPBTCONF", 0)>>,
   conf |-> [NoConf EXCEPT !["EXTRA"] = <<Mod("EESYNC")>>,
               !["IOPBTCONF"] = <<Line1("start", None, 1), Mod("SYSMEM"), Mod("LOADCORE"), Mod("CDVDMAN"), Mod("EESYNC")>>]]

MCOwn == [size |-> 3, dir |-> 0, ents |-> <<Ent("CDVDMAN", 4), Ent("EESYNC", 9)>>, conf |-> NoConf]

\* Lines of a game's IOPBTCONF; files of one or two lines, and of three around an include.
Includes == {Line1("include", "IOPBTCONF", 0), Line1("include", "EXTRA", 0)}
Others == {Mod("SYSMEM"), Mod("CDVDMAN"), Line1("addr", None, 7), Line1("start", None, 2), Line1("comment", None, 0)}
Confs == {<<l>> : l \in Includes \cup Others \cup {Mod("MISSING"), Line1("include", "MISSING", 0)}} \cup {<<i, l>> : i \in Includes, l \in Others}
         \cup {<<k, i, l>> : i \in Includes, k \in Others, l \in Others}

\* Two images, one of them with its directory further back, one that is none, and an empty file.
Disc(c) ==
  [ioprp |-> [size |-> 3, dir |-> 0,
              ents |-> <<Ent("CDVDMAN", 2), Ent("LOADCORE", 3), Ent("IOPBTCONF", 0)>>,
              conf |-> [NoConf EXCEPT !["IOPBTCONF"] = c]],
   late |-> [size |-> 5, dir |-> 2,
             ents |-> <<[Ent("LOADCORE", 5) EXCEPT !.ext = FALSE], Ent("CDVDMAN", 4), Ent("EXTRA", 0)>>,
             conf |-> [NoConf EXCEPT !["EXTRA"] = <<Mod("CDVDMAN")>>]],
   bogus |-> [size |-> 2, dir |-> NoDir, ents |-> <<>>, conf |-> NoConf],
   empty |-> [size |-> 0, dir |-> NoDir, ents |-> <<>>, conf |-> NoConf]]
MCDiscs == [c \in Confs |-> Disc(c)]

MCGameArgs == {<<>>, <<"short">>, <<"ioprp">>, <<"late", "ioprp">>, <<"ioprp", "late">>,
               <<"-v", "bogus", "ioprp">>, <<"late", "bogus">>, <<"ioprp", "empty", "late">>}

Rel(ty, p) == [type |-> ty, at |-> p]
Irx(r, t) == [kind |-> "irx", rels |-> r, text |-> t]
MCModules ==
  {Irx(<<Rel("hi", 1), Rel("lo", 2)>>, p) : p \in {<<15, 3>>, <<19, 4>>, <<14, 7>>}}
  \cup {Irx(<<Rel("32", 1), Rel("26", 2), Rel("16", 3)>>, <<60, 19, 12>>),
        Irx(<<Rel("hi", 1), Rel("lo", 3), Rel("hi", 2), Rel("lo", 4)>>, <<3, 9, 4, 7>>),
        Irx(<<Rel("hi", 1), Rel("hi", 2), Rel("lo", 3)>>, <<3, 9, 4>>),
        [kind |-> "elf", rels |-> <<>>, text |-> <<5>>],
        [kind |-> "unknown", rels |-> <<>>, text |-> <<5>>]}
=============================================================================
