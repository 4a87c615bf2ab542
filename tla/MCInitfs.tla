------------------------------ MODULE MCInitfs ------------------------------
(***************************************************************************)
(* Small archives for Initfs. Names use the letters a, b and the slash.    *)
(* MCArchive has a directory "a" next to a file "ab" whose name starts     *)
(* with the same byte, a file "a/b" in it, and a symbolic link "a/l".      *)
(* MCTree is the same tree without "ab" and without the link.              *)
(***************************************************************************)
EXTENDS Initfs, TLC

CONSTANTS n1, n2, n3

Ent(name, type, size) == [name |-> name, type |-> type, perm |-> "r", size |-> size]

MCArchive ==
    << Ent(<<"a">>, "dir", 0),
       Ent(<<"a", "b">>, "reg", 2),
       Ent(<<"a", "/", "b">>, "reg", 1),
       Ent(<<"a", "/", "l">>, "lnk", 0) >>

MCTree ==
    << Ent(<<"a">>, "dir", 0),
       Ent(<<"a", "/", "b">>, "reg", 1),
       Ent(<<"b">>, "reg", 2) >>

MCNames == {<<"a">>, <<"b">>, <<"l">>}
MCPerm == {"r", "w"}
MCIno == {n1, n2, n3}
MCSymmetry == Permutations(MCIno)
=============================================================================
