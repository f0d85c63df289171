---------------------------- MODULE MCCdvdSearch ----------------------------
(* Small instances of CdvdSearch for TLC.                                  *)
EXTENDS CdvdSearch

Dir(name, loc, sectors) == [name |-> name, loc |-> loc, size |-> sectors * 6, dir |-> TRUE]
File(name, loc) == [name |-> name, loc |-> loc, size |-> 1, dir |-> FALSE]

\* Two layers. On layer 0 the root (two sectors) holds F, D, G and M.N; D
\* holds S and S holds A. On layer 1 the root holds H.
Disc2 == <<
  <<Dir(Self, 2, 2), Dir("D", 4, 1), Dir("M.N", 10, 1), Dir("S", 5, 1)>>,
  <<Dir(Self, 2, 2), Dir("..", 2, 2), File("F", 9)>>,
  <<Dir("D", 4, 1), File("G", 9), Dir("M.N", 10, 1)>>,
  <<Dir(Self, 4, 1), Dir("..", 2, 2), Dir("S", 5, 1)>>,
  <<Dir(Self, 5, 1), Dir("..", 4, 1), File("A", 9)>>,
  <<Dir(Self, 1, 1)>>,
  <<Dir(Self, 1, 1), Dir("..", 1, 1), File("H", 2)>>,
  <<>>, <<>>,
  <<Dir(Self, 10, 1), Dir("..", 2, 2), File("B", 9)>> >>

RootOf == 0 :> 2 @@ 1 :> 7
PathTableOf == 0 :> 1 @@ 1 :> 6
PathTableLenOf == 0 :> 4 @@ 1 :> 1

Req(op, path, layer) == [op |-> op, path |-> path, layer |-> layer]
Good == {<<"F">>, <<"G">>, <<"D", "S">>, <<"D", "S", "A">>, <<"D", Self>>}

\* Paths that exist, directories of one sector to list; and searches that
\* fail: a directory or a file that is nowhere, a layer the disc has not.
AnyRequests ==
  1 :> ({Req(op, path, 0) : op \in {"open", "getstat"}, path \in Good}
        \cup {Req("dopen", <<"D">>, 0), Req("dopen", <<"D", "S">>, 0), Req("open", <<"H">>, 1),
              Req("open", <<"X">>, 0), Req("dopen", <<"D">>, 2)})
  @@ 2 :> ({Req("search", path, 0) : path \in Good \cup {<<"X", "A">>, <<"D", "X">>, <<"D", "X", "A">>}}
           \cup {Req("search", <<"H">>, 1), Req("getstat", <<"D", "S", "A">>, 0),
                 Req("dopen", <<"D">>, 0)})

\* What the theorems about searches and listings ask for holds here.
ASSUME InstanceIsServed == RequestsServed
=============================================================================
