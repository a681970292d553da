------------------------------ MODULE HostTree ------------------------------
(***************************************************************************)
(* The host's directory tree and the system calls that the filesystem      *)
(* plugin makes on it, as functions of a tree.  A tree is a record: the    *)
(* kind of each inode, the bytes of each file and the entries of each      *)
(* directory.  A call that changes the tree returns [errno, tree].         *)
(***************************************************************************)
EXTENDS Integers, Sequences

CONSTANTS
    Inodes,
    Names,
    Root,           \* the exported directory
    Outside         \* a directory of the host that is not in it

Lesser(a, b) == IF a < b THEN a ELSE b
Greater(a, b) == IF a > b THEN a ELSE b

Absent == "absent"

Kinds == {"free", "file", "dir", "link", "other"}

Tree == [kind : [Inodes -> Kinds],
         data : [Inodes -> Seq(Nat)],
         entry : [Inodes -> [Names -> Inodes \cup {Absent}]]]

ASSUME HostAssumption ==
    /\ {Root, Outside} \subseteq Inodes
    /\ Absent \notin Inodes

Children(t, dirs) ==
    {t.entry[d][n] : d \in {i \in dirs : t.kind[i] = "dir"}, n \in Names}
      \ {Absent}

\* What is in the directories that every set of directories closed under
\* their entries has.
Reachable(t, from) ==
    LET dirs == {i \in Inodes : t.kind[i] = "dir"}
        closed == {s \in SUBSET dirs :
                     (from \cup Children(t, s)) \cap dirs \subseteq s}
    IN  from \cup Children(t, {d \in dirs : \A s \in closed : d \in s})

InTree(t) == Reachable(t, {Root})
Alive(t) == Reachable(t, {Root, Outside})

IsDir(t, i) == i # Absent /\ t.kind[i] = "dir"
IsEmpty(t, i) == \A n \in Names : t.entry[i][n] = Absent

Entered(t, d, n, i) == [t EXCEPT !.entry[d][n] = i]
Fails(t, errno) == [errno |-> errno, tree |-> t]
Does(t) == [errno |-> "none", tree |-> t]

\* openat(d, n, O_DIRECTORY | O_NOFOLLOW) fails with this errno.
DirectoryErrno(t, d, n) ==
    CASE t.entry[d][n] = Absent -> "ENOENT"
      [] IsDir(t, t.entry[d][n]) -> "none"
      [] OTHER -> "ENOTDIR"

\* openat(d, n, O_NOFOLLOW), for reading or, a directory excepted, writing.
FileErrno(t, d, n, writing) ==
    CASE t.entry[d][n] = Absent -> "ENOENT"
      [] t.entry[d][n] # Absent /\ t.kind[t.entry[d][n]] = "link" -> "ELOOP"
      [] IsDir(t, t.entry[d][n]) /\ writing -> "EISDIR"
      [] OTHER -> "none"

\* A new file or directory; a directory that was removed takes no entries.
Create(t, d, n, kind, unused) ==
    LET i == CHOOSE i \in unused : TRUE
    IN  IF t.entry[d][n] # Absent THEN Fails(t, "EEXIST")
        ELSE IF d \notin Alive(t) THEN Fails(t, "ENOENT")
        ELSE IF unused = {} THEN Fails(t, "ENOSPC")
        ELSE Does([Entered(t, d, n, i) EXCEPT
                     !.kind[i] = kind,
                     !.data[i] = <<>>,
                     !.entry[i] = [m \in Names |-> Absent]])

UnlinkAt(t, d, n, removedir) ==
    LET i == t.entry[d][n]
    IN  IF i = Absent THEN Fails(t, "ENOENT")
        ELSE IF IsDir(t, i) /\ ~removedir THEN Fails(t, "EISDIR")
        ELSE IF ~IsDir(t, i) /\ removedir THEN Fails(t, "ENOTDIR")
        ELSE IF IsDir(t, i) /\ ~IsEmpty(t, i) THEN Fails(t, "ENOTEMPTY")
        ELSE Does(Entered(t, d, n, Absent))

RenameAt(t, d, n, e, m) ==
    LET i == t.entry[d][n]
        j == t.entry[e][m]
    IN  IF i = Absent \/ e \notin Alive(t) THEN Fails(t, "ENOENT")
        ELSE IF IsDir(t, i) /\ e \in Reachable(t, {i}) THEN Fails(t, "EINVAL")
        ELSE IF i = j THEN Does(t)
        ELSE IF j # Absent /\ IsDir(t, i) /\ ~IsDir(t, j) THEN Fails(t, "ENOTDIR")
        ELSE IF IsDir(t, j) /\ ~IsDir(t, i) THEN Fails(t, "EISDIR")
        ELSE IF IsDir(t, j) /\ ~IsEmpty(t, j) THEN Fails(t, "ENOTEMPTY")
        ELSE Does(Entered(Entered(t, d, n, Absent), e, m, i))

Truncate(t, i) == [t EXCEPT !.data[i] = <<>>]

\* pread and pwrite; a gap before the offset reads as zeros.
PRead(t, i, offset, size) ==
    SubSeq(t.data[i], offset + 1, Lesser(offset + size, Len(t.data[i])))

PWrite(t, i, offset, bytes) ==
    LET old == t.data[i]
        end == offset + Len(bytes)
        size == Greater(Len(old), end)
        byte(k) == IF k \in offset + 1..end THEN bytes[k - offset]
                   ELSE IF k =< Len(old) THEN old[k] ELSE 0
    IN  IF bytes = <<>> THEN t
        ELSE [t EXCEPT !.data[i] = [k \in 1..size |-> byte(k)]]
=============================================================================
