------------------------ MODULE MCFilesystemFiles -------------------------
(***************************************************************************)
(* A small host: a directory with a file and a symlink in the export, and  *)
(* a directory with a device next to it.                                   *)
(***************************************************************************)
EXTENDS FilesystemFiles

NoEntries == [n \in Names |-> Absent]

Kind == [root |-> "dir", outside |-> "dir", d |-> "dir", f |-> "file",
         link |-> "link", dev |-> "other", spare |-> "free"]

\* a is the directory, a/b the file, b the symlink; the device is outside
\* until another process moves it, and there is room next to it.
Host ==
    [kind |-> Kind,
     data |-> [i \in Inodes |-> IF i = "f" THEN <<1, 2, 3>> ELSE <<>>],
     entry |-> [i \in Inodes |->
                  CASE i = "root" -> [NoEntries EXCEPT !["a"] = "d",
                                                       !["b"] = "link"]
                    [] i = "d" -> [NoEntries EXCEPT !["b"] = "f"]
                    [] i = "outside" -> [NoEntries EXCEPT !["b"] = "dev"]
                    [] OTHER -> NoEntries]]

SmallTrees == {Host}
SomePaths == {<<>>, <<"a">>, <<"a", "b">>, <<"b", "b">>, <<"..">>}
\* All renames of valid paths, and some that are refused.
SomeMoves ==
    LET valid == SomePaths \ {<<>>, <<"..">>}
    IN  valid \X valid \cup {<<<<"a">>, <<>>>>, <<<<"..">>, <<"a">>>>}
AB == <<"a", "b">>
Bytes3 == <<7, 8, 9>>
Rewrites == {<<5>>, <<5, 6, 7, 8>>}

SomeWrites ==
    {[offset |-> 0, data |-> <<>>, create |-> TRUE, truncate |-> TRUE],
     [offset |-> 1, data |-> <<8, 9>>, create |-> FALSE, truncate |-> FALSE]}

InodeSet == DOMAIN Kind
=============================================================================
