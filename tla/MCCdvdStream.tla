---------------------------- MODULE MCCdvdStream ----------------------------
(* Rings of one to four banks, for TLC *)
EXTENDS CdvdStream

MCRings == {<<2, 1>>, <<4, 2>>, <<3, 3>>, <<5, 4>>}
MCFiles == {<<1, 14>>, <<0, 8>>}
=============================================================================
