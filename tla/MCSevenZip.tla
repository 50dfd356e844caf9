----------------------------- MODULE MCSevenZip -----------------------------
(* Instance of SevenZip for TLC: a folder with a file, a file in a folder  *)
(* below it and one in a folder .svn, and archives with folders, with a    *)
(* path that comes twice, and with items that lack attributes or times.    *)
EXTENDS SevenZip

CONSTANTS f1, f2, f3, sub, svn

MCFolder == {Root, sub, svn}
MCSvn == {svn}
MCParent == [x \in {f1, f2, f3, sub, svn} |->
    IF x = f2 THEN sub ELSE IF x = f3 THEN svn ELSE Root]

Of(f, a, t) == [path |-> f, isDir |-> FALSE, attrib |-> a, mtime |-> t]
Dir(f, a) == [path |-> f, isDir |-> TRUE, attrib |-> a, mtime |-> 1]
MCArchives == {
    <<Of(f1, 2, 0), Of(f2, 0, 2)>>,
    <<Of(f1, 1, 1), Dir(f3, 2), Of(f1, 0, 0)>>}
=============================================================================
