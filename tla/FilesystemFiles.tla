--------------------------- MODULE FilesystemFiles --------------------------
(***************************************************************************)
(* The filesystem plugin's operations on paths: STAT, READ, WRITE, MKDIR,  *)
(* DELETE and RENAME of lib/filesystem/filesystem_core.c, the typed client *)
(* (lib/client/filesystem.c), a program that uploads, downloads or manages *)
(* files over a link it may lose, and other processes of the host.         *)
(*                                                                         *)
(* A handler is a sequence of system calls.  Other processes act between   *)
(* any two of them, so each openat of the walk is a step, and so is each   *)
(* call that uses what an earlier one found.  openat and the fstat of the  *)
(* same descriptor are one step: only a change of that file can come       *)
(* between them, and it may as well come first.                            *)
(***************************************************************************)
EXTENDS PluginCall, HostTree

CONSTANTS
    Trees,          \* trees the host may start with
    Paths,          \* paths a program may ask for, as their components
    Moves,          \* the renames it may ask for, as pairs of paths
    Writes,         \* what a managing program may write, and how
    Contents,       \* what another process may write into a file
    ReadMax,        \* data bytes in a READ response
    SizeMax,        \* the largest size a response can carry
    Source,         \* the bytes an upload sends
    WriteMax,       \* data bytes the program puts in a WRITE
    Target,         \* path of the file uploaded or downloaded
    MaxChanges,     \* bound: changes made by other processes
    MaxCalls,       \* bound: calls of a managing program
    MaxLosses       \* bound: times the link is lost in a call

ASSUME FilesAssumption ==
    /\ \A t \in Trees : t \in Tree /\ t.kind[Root] = "dir"
    /\ Paths \subseteq Seq(Names \cup {"", ".", ".."}) /\ Target \in Paths
    /\ Moves \subseteq Paths \X Paths
    /\ Writes \subseteq [offset : Nat, data : Seq(Nat), create : BOOLEAN,
                        truncate : BOOLEAN]
    /\ Contents \subseteq Seq(Nat) /\ Source \in Seq(Nat)
    /\ {ReadMax, WriteMax} \subseteq Nat \ {0}
    /\ {SizeMax, MaxChanges, MaxCalls, MaxLosses} \subseteq Nat

VARIABLES
    tree,           \* the host's tree
    read_only,      \* context->read_only
    work,           \* the handler: where it is and what it holds
    met,            \* history: what was in the exported tree in this request,
                    \* or below a directory that had been in it
    before,         \* history: the tree when the request was taken, unless
                    \* another process has changed it since
    mode,           \* what the program does
    state,          \* of the transfer: "going", "done" or "failed"
    moved,          \* bytes uploaded and acknowledged
    got,            \* bytes downloaded
    total,          \* file size the first READ returned
    touched,        \* has another process changed the tree
    changes,        \* changes made by other processes so far
    calls,          \* calls of a managing program so far
    losses          \* times the link was lost so far

host == <<tree, touched, changes>>
program == <<mode, state, moved, got, total, calls, losses>>
vars == <<callvars, host, read_only, work, met, before, program>>

\* open_parent_directory splits a path at its last slash.
Front(path) == SubSeq(path, 1, Len(path) - 1)
Last(path) == path[Len(path)]

NoTree == [kind |-> <<>>]
NoSize == SizeMax + 1

\* The handler at rest: no directory or file open.
Rest == [at |-> "rest", dir |-> Absent, left |-> <<>>, old |-> Absent,
         file |-> Absent, size |-> 0, isdir |-> FALSE]

Changing == {"write", "mkdir", "delete", "rename"}
Operations == {"stat", "read"} \cup Changing

TypeOK ==
    /\ tree \in Tree
    /\ request.op \in Operations \cup {"none"}
    /\ reply.op \in Operations \cup {"none"}
    /\ work.at \in {"rest", "walk", "walk_new", "io", "unlink"}
    /\ {work.dir, work.old, work.file} \subseteq Inodes \cup {Absent}
    /\ work.at = "rest" <=> work = Rest
    /\ work.size \in 0..SizeMax
    /\ met \subseteq Inodes
    /\ read_only \in BOOLEAN
    /\ mode \in {"upload", "download", "manage"}
    /\ state \in {"going", "done", "failed"}
    /\ moved \in 0..Len(Source)
    /\ total \in 0..NoSize
    /\ Len(got) =< total
    /\ touched \in BOOLEAN
    /\ changes \in 0..MaxChanges
    /\ calls \in 0..MaxCalls
    /\ losses \in 0..MaxLosses

Init ==
    /\ CallInit
    /\ tree \in Trees
    /\ read_only \in BOOLEAN
    /\ work = Rest
    /\ met = {}
    /\ before = NoTree
    /\ mode \in {"upload", "download", "manage"}
    /\ state = "going"
    /\ moved = 0
    /\ got = <<>>
    /\ total = NoSize
    /\ touched = FALSE
    /\ changes = 0
    /\ calls = 0
    /\ losses = 0
-----------------------------------------------------------------------------
(***************************************************************************)
(* The handlers.                                                           *)
(***************************************************************************)
StatusFromErrno(errno) ==
    CASE errno = "ENOENT" -> "NOT_FOUND"
      [] errno = "ENOTDIR" -> "NOT_DIRECTORY"
      [] errno = "EISDIR" -> "IS_DIRECTORY"
      [] errno \in {"EACCES", "EPERM", "ELOOP"} -> "ACCESS_DENIED"
      [] errno = "EEXIST" -> "EXISTS"
      [] errno \in {"ENAMETOOLONG", "EOVERFLOW", "EFBIG"} -> "TOO_LARGE"
      [] errno = "ENOTEMPTY" -> "NOT_EMPTY"
      [] errno = "EROFS" -> "READ_ONLY"
      [] errno \in {"ENOSPC", "EDQUOT"} -> "NO_SPACE"
      [] errno = "none" -> "OK"
      [] OTHER -> "IO_ERROR"

\* A leading, trailing or doubled slash is an empty component.
PathIsValid(path, allow_empty) ==
    /\ path = <<>> => allow_empty
    /\ \A i \in DOMAIN path : path[i] \notin {"", ".", ".."}

\* Every handler ends by closing what it holds.
FinishFrom(start, response) ==
    /\ Answer([response EXCEPT !.of = request])
    /\ work' = Rest
    /\ met' = {}
    /\ before' = IF awaited THEN start ELSE NoTree
    /\ UNCHANGED <<read_only, program>>

Finish(response) == FinishFrom(before, response)
Replied(status) == [op |-> request.op, status |-> status, of |-> None]
FinishStatus(status) == Finish(Replied(status))
FinishErrno(errno) == FinishStatus(StatusFromErrno(errno))

GoOn(next, known) ==
    /\ work' = next
    /\ met' = known
    /\ UNCHANGED <<callvars, read_only, before, program>>

\* Requests refused before any file is looked at, and STAT of the root.
Refuse ==
    /\ request # None /\ work = Rest
    /\ \/ request.op \in Changing /\ read_only
          /\ FinishFrom(tree, Replied("READ_ONLY"))
       \/ /\ ~(request.op \in Changing /\ read_only)
          /\ \/ ~PathIsValid(request.path, request.op = "stat")
             \/ request.op = "rename" /\ ~PathIsValid(request.new, FALSE)
          /\ FinishFrom(tree, Replied("BAD_REQUEST"))
       \/ /\ request.op = "stat" /\ request.path = <<>>
          /\ FinishFrom(tree, [op |-> "stat", status |-> "OK", of |-> None,
                               kind |-> tree.kind[Root], size |-> 0])
    /\ UNCHANGED host

\* open_parent_directory: a copy of the root descriptor, then the walk.
Begin ==
    /\ request # None /\ work = Rest
    /\ ~(request.op \in Changing /\ read_only)
    /\ PathIsValid(request.path, FALSE)
    /\ request.op = "rename" => PathIsValid(request.new, FALSE)
    /\ work' = [Rest EXCEPT !.at = "walk", !.dir = Root,
                            !.left = Front(request.path)]
    /\ met' = InTree(tree)
    /\ before' = tree
    /\ UNCHANGED <<callvars, host, read_only, program>>

\* Mutant of Step: a symlink to a directory outside is followed.
StepFollowing(t, d, n) ==
    LET i == t.entry[d][n]
    IN  IF i # Absent /\ t.kind[i] = "link" THEN Outside ELSE i

\* What the next component of the walk opens.
Step(t, d, n) == t.entry[d][n]

\* open_directory_path: one openat.
Walk ==
    /\ work.at \in {"walk", "walk_new"} /\ work.left # <<>>
    /\ LET next == Step(tree, work.dir, Head(work.left))
           errno == IF IsDir(tree, next) THEN "none"
                    ELSE DirectoryErrno(tree, work.dir, Head(work.left))
       IN  IF errno # "none" THEN FinishErrno(errno)
           ELSE GoOn([work EXCEPT !.dir = next, !.left = Tail(@)], met)
    /\ UNCHANGED host

AtLeaf(op) == work.at = "walk" /\ work.left = <<>> /\ request.op = op
Leaf == Last(request.path)
Found == tree.entry[work.dir][Leaf]

\* A size too large for the response is sent as unknown.
FileSize(i) ==
    IF tree.kind[i] # "file" THEN 0
    ELSE IF Len(tree.data[i]) > SizeMax THEN NoSize ELSE Len(tree.data[i])

Stat ==
    /\ AtLeaf("stat")
    /\ IF Found = Absent THEN FinishErrno("ENOENT")
       ELSE Finish([op |-> "stat", status |-> "OK", of |-> None,
                    kind |-> tree.kind[Found], size |-> FileSize(Found)])
    /\ UNCHANGED host

\* Mutant of ReadStatus: a size that does not fit the response is let through.
ReadStatusAnySize(i, offset) ==
    CASE tree.kind[i] = "dir" -> "IS_DIRECTORY"
      [] tree.kind[i] \notin {"dir", "file"} -> "ACCESS_DENIED"
      [] tree.kind[i] = "file" /\ offset > Len(tree.data[i]) -> "BAD_REQUEST"
      [] OTHER -> "OK"

\* handle_read: what fstat says of the file that was opened.
ReadStatus(i, offset) ==
    CASE tree.kind[i] = "dir" -> "IS_DIRECTORY"
      [] tree.kind[i] \notin {"dir", "file"} -> "ACCESS_DENIED"
      [] tree.kind[i] = "file" /\ Len(tree.data[i]) > SizeMax -> "TOO_LARGE"
      [] tree.kind[i] = "file" /\ offset > Len(tree.data[i])
           /\ Len(tree.data[i]) =< SizeMax -> "BAD_REQUEST"
      [] OTHER -> "OK"

ReadOpen ==
    /\ AtLeaf("read")
    /\ LET errno == FileErrno(tree, work.dir, Leaf, FALSE)
       IN  IF errno # "none" THEN FinishErrno(errno)
           ELSE IF ReadStatus(Found, request.offset) # "OK"
           THEN FinishStatus(ReadStatus(Found, request.offset))
           ELSE GoOn([work EXCEPT !.at = "io", !.dir = Absent, !.file = Found,
                                  !.size = Len(tree.data[Found])], met)
    /\ UNCHANGED host

ReadSize ==
    LET most == IF request.maximum = 0 THEN ReadMax
                ELSE Lesser(ReadMax, request.maximum)
    IN  Lesser(most, work.size - request.offset)

\* The file may have shrunk: pread returns what is there.
ReadData ==
    /\ work.at = "io" /\ request.op = "read"
    /\ Finish([op |-> "read", status |-> "OK", of |-> None,
               offset |-> request.offset, total |-> work.size,
               data |-> PRead(tree, work.file, request.offset, ReadSize)])
    /\ UNCHANGED host

Unused == Inodes \ (Alive(tree) \cup {work.dir, work.old, work.file})

\* handle_write: openat with O_CREAT and O_TRUNC as the flags say.
WriteOpen ==
    /\ AtLeaf("write")
    /\ LET made == IF request.create /\ Found = Absent
                   THEN Create(tree, work.dir, Leaf, "file", Unused)
                   ELSE Fails(tree, FileErrno(tree, work.dir, Leaf, TRUE))
           file == made.tree.entry[work.dir][Leaf]
       IN  IF made.errno # "none"
           THEN FinishErrno(made.errno) /\ UNCHANGED tree
           ELSE IF made.tree.kind[file] # "file"
           THEN FinishStatus("ACCESS_DENIED") /\ UNCHANGED tree
           ELSE /\ tree' = IF request.truncate THEN Truncate(made.tree, file)
                                               ELSE made.tree
                /\ GoOn([work EXCEPT !.at = "io", !.dir = Absent,
                                     !.file = file], met \cup {file})
    /\ UNCHANGED <<touched, changes>>

\* How much pwrite may write.
Written(data) == Lesser(1, Len(data))..Len(data)

\* pwrite may write less than it was given.
WriteData ==
    /\ work.at = "io" /\ request.op = "write"
    /\ \E n \in Written(request.data) :
         /\ tree' = PWrite(tree, work.file, request.offset,
                           SubSeq(request.data, 1, n))
         /\ Finish([op |-> "write", status |-> "OK", of |-> None,
                    offset |-> request.offset, written |-> n])
    /\ UNCHANGED <<touched, changes>>

\* handle_mkdir_or_delete.
Mkdir ==
    /\ AtLeaf("mkdir")
    /\ LET made == Create(tree, work.dir, Leaf, "dir", Unused)
       IN  tree' = made.tree /\ FinishErrno(made.errno)
    /\ UNCHANGED <<touched, changes>>

DeleteStat ==
    /\ AtLeaf("delete")
    /\ IF Found = Absent THEN FinishErrno("ENOENT")
       ELSE GoOn([work EXCEPT !.at = "unlink",
                              !.isdir = IsDir(tree, Found)], met)
    /\ UNCHANGED host

DeleteUnlink ==
    /\ work.at = "unlink"
    /\ LET made == UnlinkAt(tree, work.dir, Leaf, work.isdir)
       IN  tree' = made.tree /\ FinishErrno(made.errno)
    /\ UNCHANGED <<touched, changes>>

\* Mutant of RenameWalk: the new path is walked from the old one's parent.
RenameWalkOn ==
    /\ AtLeaf("rename")
    /\ GoOn([work EXCEPT !.at = "walk_new", !.old = work.dir,
                         !.left = Front(request.new)], met)
    /\ UNCHANGED host

\* handle_rename: the second walk, from the root again.
RenameWalk ==
    /\ AtLeaf("rename")
    /\ GoOn([work EXCEPT !.at = "walk_new", !.old = work.dir, !.dir = Root,
                         !.left = Front(request.new)], met)
    /\ UNCHANGED host

Rename ==
    /\ work.at = "walk_new" /\ work.left = <<>>
    /\ LET made == RenameAt(tree, work.old, Leaf, work.dir, Last(request.new))
       IN  tree' = made.tree /\ FinishErrno(made.errno)
    /\ UNCHANGED <<touched, changes>>

\* Any of the calls may fail without effect: permissions, quota, a disk error.
CallFails ==
    /\ work # Rest
    /\ FinishErrno("EIO")
    /\ UNCHANGED host

Handle ==
    \/ CallFails
    \/ Refuse \/ Begin \/ Walk \/ Stat \/ ReadOpen \/ ReadData
    \/ WriteOpen \/ WriteData \/ Mkdir \/ DeleteStat \/ DeleteUnlink
    \/ RenameWalk \/ Rename
-----------------------------------------------------------------------------
(***************************************************************************)
(* The program and its typed client.                                       *)
(***************************************************************************)
Ask(what) == Call(what) /\ UNCHANGED <<host, read_only, work, met, before>>

\* The chunk at the first unacknowledged byte; the first one creates or
\* empties the file.  A lost reply leaves moved alone: the chunk is sent again.
Upload ==
    /\ mode = "upload" /\ state = "going"
    /\ Ask([op |-> "write", path |-> Target, offset |-> moved,
            create |-> moved = 0, truncate |-> moved = 0,
            data |-> SubSeq(Source, moved + 1,
                            Lesser(moved + WriteMax, Len(Source)))])
    /\ UNCHANGED program

Download ==
    /\ mode = "download" /\ state = "going"
    /\ \E maximum \in {0, 1} :
         Ask([op |-> "read", path |-> Target, offset |-> Len(got),
              maximum |-> maximum])
    /\ UNCHANGED program

Managing ==
    [op : {"stat", "mkdir", "delete"}, path : Paths]
      \cup {[op |-> "rename", path |-> m[1], new |-> m[2]] : m \in Moves}
      \cup [op : {"read"}, path : Paths, offset : {0, 1}, maximum : {0}]
      \cup {[op |-> "write", path |-> p, offset |-> w.offset, data |-> w.data,
             create |-> w.create, truncate |-> w.truncate] :
               w \in Writes, p \in Paths}

Manage ==
    /\ mode = "manage" /\ calls < MaxCalls
    /\ calls' = calls + 1
    /\ \E what \in Managing : Ask(what)
    /\ UNCHANGED <<mode, state, moved, got, total, losses>>

\* Mutant of TakeWrite: a short write is taken for a full one.
TakeWriteAll ==
    LET count == Lesser(moved + WriteMax, Len(Source))
    IN  /\ moved' = count
        /\ state' = IF count = Len(Source) THEN "done" ELSE "going"

\* squid_client_fs_write checks the count and the offset.
TakeWrite ==
    LET count == moved + reply.written
    IN  IF reply.offset = moved /\ count =< Len(Source)
        THEN /\ moved' = count
             /\ state' = IF count = Len(Source) THEN "done" ELSE "going"
        ELSE state' = "failed" /\ UNCHANGED moved

\* The size of the first READ, and the same again in every other.
SameSize ==
    /\ reply.status = "OK"
    /\ reply.total = total \/ (total = NoSize /\ reply.total =< SizeMax)

TakeData ==
    /\ got' = got \o reply.data
    /\ total' = reply.total
    /\ state' = IF Len(got') = total' THEN "done" ELSE "going"

\* Mutant of TakeRead: an answer that carries no data is passed over.
TakeReadAgain ==
    IF SameSize THEN TakeData ELSE UNCHANGED <<state, got, total>>

\* The program keeps the size of the first READ and checks it stays the same.
TakeRead ==
    IF SameSize THEN TakeData
    ELSE state' = "failed" /\ UNCHANGED <<got, total>>

ProgramTakes ==
    /\ Take
    /\ before' = NoTree
    /\ CASE mode = "upload" -> /\ IF reply.status = "OK" THEN TakeWrite
                                  ELSE state' = "failed" /\ UNCHANGED moved
                               /\ UNCHANGED <<got, total>>
         [] mode = "download" -> TakeRead /\ UNCHANGED moved
         [] mode = "manage" -> UNCHANGED <<state, moved, got, total>>
    /\ UNCHANGED <<host, read_only, work, met, mode, calls, losses>>

LinkLost ==
    /\ losses < MaxLosses
    /\ losses' = losses + 1
    /\ GiveUp(work # Rest)
    /\ before' = IF work = Rest THEN NoTree ELSE before
    /\ UNCHANGED <<host, read_only, work, met, mode, state, moved, got, total,
                   calls>>
-----------------------------------------------------------------------------
(***************************************************************************)
(* Other processes rename, remove and rewrite.                             *)
(***************************************************************************)
Directories == {i \in Alive(tree) : tree.kind[i] = "dir"}

Changed(t) ==
    /\ t # tree
    /\ tree' = t
    /\ touched' = TRUE
    /\ changes' = changes + 1
    /\ met' = IF work = Rest THEN {} ELSE met \cup Reachable(t, met)
    /\ before' = NoTree
    /\ UNCHANGED <<callvars, read_only, work, program>>

OthersRename ==
    /\ changes < MaxChanges
    /\ \E d, e \in Directories, n, m \in Names :
         /\ tree.entry[d][n] # Absent
         /\ Changed(RenameAt(tree, d, n, e, m).tree)

OthersRemove ==
    /\ changes < MaxChanges
    /\ \E d \in Directories, n \in Names :
         Changed(UnlinkAt(tree, d, n, IsDir(tree, tree.entry[d][n])).tree)

OthersRewrite ==
    /\ changes < MaxChanges
    /\ \E i \in Alive(tree), bytes \in Contents :
         /\ tree.kind[i] = "file"
         /\ Changed([tree EXCEPT !.data[i] = bytes])

Next ==
    \/ Handle
    \/ Upload \/ Download \/ Manage
    \/ ProgramTakes
    \/ LinkLost
    \/ OthersRename \/ OthersRemove \/ OthersRewrite

Spec == Init /\ [][Next]_vars

\* The program goes on, the server works on, and replies are taken.
FairSpec ==
    /\ Spec
    /\ WF_vars(Upload \/ Download)
    /\ WF_vars(Handle)
    /\ WF_vars(ProgramTakes)
-----------------------------------------------------------------------------
Entry(t, i, name) == IF IsDir(t, i) THEN t.entry[i][name] ELSE Absent

\* What a path leads to, component by component from the root.
Resolved(t, path) ==
    LET node[n \in 0..Len(path)] ==
          IF n = 0 THEN Root ELSE Entry(t, node[n - 1], path[n])
    IN  node[Len(path)]
Parent(t, path) == Resolved(t, Front(path))

\* The file a WRITE opens, and the tree when it has.
Opening(t, q) ==
    LET d == Parent(t, q.path)
        n == Last(q.path)
        made == IF Resolved(t, q.path) = Absent
                THEN Create(t, d, n, "file", Inodes \ Alive(t)).tree ELSE t
        file == made.entry[d][n]
    IN  [file |-> file,
         tree |-> IF q.truncate THEN Truncate(made, file) ELSE made]

\* What a request that was answered amounts to when it is one step on paths.
Reference(t, answer) ==
    LET q == answer.of
        d == Parent(t, q.path)
        n == Last(q.path)
        open == Opening(t, q)
    IN  CASE q.op = "mkdir" -> Create(t, d, n, "dir", Inodes \ Alive(t)).tree
          [] q.op = "delete" ->
               UnlinkAt(t, d, n, IsDir(t, Resolved(t, q.path))).tree
          [] q.op = "rename" ->
               RenameAt(t, d, n, Parent(t, q.new), Last(q.new)).tree
          [] q.op = "write" ->
               PWrite(open.tree, open.file, q.offset,
                      SubSeq(q.data, 1, answer.written))
          [] OTHER -> t

\* A request that no other process interfered with does, walk and calls
\* together, what the one operation on its paths would do, and reports what
\* is there.  One that fails changes nothing, but for a WRITE, which may have
\* created or emptied its file.
ActsOnPaths ==
    reply # None /\ before # NoTree =>
      IF reply.status # "OK" THEN reply.op # "write" => tree = before
      ELSE LET i == Resolved(before, reply.of.path)
           IN  /\ tree = Reference(before, reply)
               /\ reply.op = "stat" => reply.kind = before.kind[i]
               /\ reply.op = "read" =>
                    /\ reply.total = Len(before.data[i])
                    /\ reply.data = PRead(before, i, reply.offset,
                                          Len(reply.data))
                    /\ reply.data = <<>> => reply.offset = reply.total

\* What a handler holds open was, at some moment of the request, in the
\* exported tree or below a directory that had been in it before, whatever
\* other processes rename meanwhile: no symlink is followed out of the tree.
\* (A directory the handler holds may be moved out of the tree and filled
\* there: the walk goes on in it.)
Confined == {work.dir, work.old, work.file} \ {Absent} \subseteq met

\* A finished transfer is exact, across short writes, chunks of any size and
\* replies lost on the way, unless another process changed the tree.
Transferred ==
    state = "done" /\ ~touched =>
      LET i == Resolved(tree, Target)
      IN  tree.data[i] = IF mode = "upload" THEN Source ELSE got

\* Transfers come to an end, even when the file shrinks under a download.
TransfersEnd == []<>(mode = "manage" \/ state # "going")
=============================================================================
