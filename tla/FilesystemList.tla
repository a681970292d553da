--------------------------- MODULE FilesystemList ---------------------------
(***************************************************************************)
(* Paged directory listing of the filesystem plugin: handle_list of        *)
(* lib/filesystem/filesystem_core.c, the client that pages through a       *)
(* directory with the cursors it returns, and other processes of the host  *)
(* that change directories between two requests.                           *)
(*                                                                         *)
(* A directory is the sequence of its entries in the order readdir gives   *)
(* them, "." and ".." left out.  Subdirectories are opened afresh for each *)
(* request; the root is a dup() of one descriptor, whose position all the  *)
(* requests share.                                                         *)
(***************************************************************************)
EXTENDS Integers, Sequences, FiniteSets, FiniteSetsExt

CONSTANTS
    Names,          \* entry names
    Size,           \* Size[n]: bytes of the record of entry n, 6 + its name
    RecordMax,      \* sizeof(record): no larger record is sent
    PageSpace,      \* response_capacity less the page header
    CursorEnd,      \* SQUID_FS_CURSOR_END, the largest 16-bit number
    Batch,          \* entries the kernel returns per getdents call
    Root,           \* the exported root
    Subdirectories, \* the other directories
    Directories,    \* what a directory can hold: sequences of names
    MaxChanges      \* bound: changes made by other processes

Dirs == Subdirectories \cup {Root}

ASSUME ListAssumption ==
    /\ Size \in [Names -> Nat \ {0}]
    /\ {RecordMax, PageSpace, CursorEnd, Batch} \subseteq Nat \ {0}
    /\ Root \notin Subdirectories
    /\ Directories \subseteq Seq(Names)
    /\ MaxChanges \in Nat

VARIABLES
    entries,        \* entries of each directory
    root_offset,    \* position of root_fd's open file description
    cursor,         \* the cursor the client has for each directory
    seen,           \* the entries it has been given
    walk,           \* "idle", "walking", "done", "failed"
    stale,          \* directories changed since their walk began
    changes         \* changes made by other processes so far

client == <<cursor, seen, walk>>
vars == <<entries, root_offset, client, stale, changes>>

TypeOK ==
    /\ entries \in [Dirs -> Seq(Names)]
    /\ root_offset \in Nat
    /\ cursor \in [Dirs -> 0..CursorEnd]
    /\ seen \in [Dirs -> Seq(Names)]
    /\ walk \in [Dirs -> {"idle", "walking", "done", "failed"}]
    /\ stale \subseteq Dirs
    /\ changes \in 0..MaxChanges

\* init_squid_fs_context opens the root.
Init ==
    /\ entries \in [Dirs -> Directories]
    /\ root_offset = 0
    /\ cursor = [d \in Dirs |-> 0]
    /\ seen = [d \in Dirs |-> <<>>]
    /\ walk = [d \in Dirs |-> "idle"]
    /\ stale = {}
    /\ changes = 0
-----------------------------------------------------------------------------
(***************************************************************************)
(* handle_list.                                                            *)
(***************************************************************************)

\* Where readdir begins: open_directory_path.
Start(d) == IF d = Root THEN root_offset ELSE 0

\* What readdir can yield.
Yields(d) == SubSeq(entries[d], Start(d) + 1, Len(entries[d]))

\* entry_index numbers the entries modulo 2^16, and those with a number below
\* the cursor are passed over, once more each time the number wraps: where the
\* k-th entry that is not passed over is.
Numbers == CursorEnd + 1
Place(c, k) == k + c * (1 + (k - 1) \div (Numbers - c))

\* The entries that are not passed over.
After(d) ==
    LET last == Len(Yields(d))
    IN  [k \in {j \in 1..last : Place(cursor[d], j) =< last}
           |-> Yields(d)[Place(cursor[d], k)]]

Bytes(names) == MapThenSumSet(LAMBDA i : Size[names[i]], DOMAIN names)

\* The entries of the page: as many as fit.
Fits(names) ==
    /\ \A i \in 1..Len(names) : Size[names[i]] =< RecordMax
    /\ Bytes(names) =< PageSpace

Count(d) ==
    Cardinality({k \in 1..Len(After(d)) : Fits(SubSeq(After(d), 1, k))})

\* Mutant of TooLarge: the next page is to begin at an entry no page can hold.
TooLargeNever(d) == FALSE

\* The first entry that is not in the page, if any, ends it: as too large
\* for any record or for an empty page, or as the start of the next page.
Complete(d) == Count(d) = Len(After(d))
TooLarge(d) ==
    /\ ~Complete(d)
    /\ Count(d) = 0 \/ Size[After(d)[Count(d) + 1]] > RecordMax

\* Mutants of NextCursor: the end is one more than the largest cursor; the
\* entry that did not fit is skipped.
NextCursorPastEnd(d) ==
    IF Complete(d) THEN CursorEnd + 1
                   ELSE (Place(cursor[d], Count(d) + 1) - 1) % Numbers

NextCursorSkipping(d) ==
    IF Complete(d) THEN CursorEnd
                   ELSE Place(cursor[d], Count(d) + 1) % Numbers

\* The index of that entry, a 16-bit counter.
NextCursor(d) ==
    IF Complete(d) THEN CursorEnd
                   ELSE (Place(cursor[d], Count(d) + 1) - 1) % Numbers

\* The kernel hands out directories in batches: after reading k entries the
\* position is at the end of a batch.
Examined(d) ==
    IF Complete(d) THEN Len(Yields(d)) ELSE Place(cursor[d], Count(d) + 1)
PositionAfter(d, k) ==
    LET batches == (k + Batch - 1) \div Batch
    IN  Min({Start(d) + batches * Batch,
             Max({Start(d), Len(entries[d])})})
Position(d) == PositionAfter(d, Examined(d))

Moved(d) == root_offset' = IF d = Root THEN Position(d) ELSE root_offset

\* A page; the client appends it and keeps the cursor.
ListPage(d) ==
    /\ walk[d] = "walking"
    /\ ~TooLarge(d)
    /\ Moved(d)
    /\ seen' = [seen EXCEPT ![d] = @ \o SubSeq(After(d), 1, Count(d))]
    /\ cursor' = [cursor EXCEPT ![d] = NextCursor(d)]
    /\ walk' = [walk EXCEPT
                  ![d] = IF cursor'[d] = CursorEnd THEN "done" ELSE @]
    /\ UNCHANGED <<entries, stale, changes>>

ListTooLarge(d) ==
    /\ walk[d] = "walking"
    /\ TooLarge(d)
    /\ Moved(d)
    /\ walk' = [walk EXCEPT ![d] = "failed"]
    /\ UNCHANGED <<entries, cursor, seen, stale, changes>>

\* An error while opening or reading the directory: part of it was read.
ListFails(d) ==
    /\ walk[d] = "walking"
    /\ \/ UNCHANGED root_offset
       \/ d = Root /\ \E k \in 1..Examined(d) : root_offset' = PositionAfter(d, k)
    /\ walk' = [walk EXCEPT ![d] = "failed"]
    /\ UNCHANGED <<entries, cursor, seen, stale, changes>>

\* The client starts, or starts again, at cursor zero.
Begin(d) ==
    /\ walk[d] # "walking" \/ d \in stale
    /\ cursor' = [cursor EXCEPT ![d] = 0]
    /\ seen' = [seen EXCEPT ![d] = <<>>]
    /\ walk' = [walk EXCEPT ![d] = "walking"]
    /\ stale' = stale \ {d}
    /\ UNCHANGED <<entries, root_offset, changes>>

\* Another process changes a directory.
Change(d, new) ==
    /\ changes < MaxChanges
    /\ new # entries[d]
    /\ entries' = [entries EXCEPT ![d] = new]
    /\ stale' = stale \cup {d}
    /\ changes' = changes + 1
    /\ UNCHANGED <<root_offset, client>>

List(d) == ListPage(d) \/ ListTooLarge(d) \/ ListFails(d)

Next ==
    \E d \in Dirs :
      \/ List(d)
      \/ Begin(d)
      \/ \E new \in Directories : Change(d, new)

Spec == Init /\ [][Next]_vars
-----------------------------------------------------------------------------
\* Has the directory no more entries than there are cursors?
Numbered(d) == Len(entries[d]) =< CursorEnd

\* A walk that came to its end over a directory nobody changed meanwhile gave
\* every entry of the directory, once, unless the directory has more entries
\* than cursors.
Listed(d) ==
    walk[d] = "done" /\ d \notin stale /\ Numbered(d) => seen[d] = entries[d]

\* For every directory below the root, whatever the page boundaries and the
\* walks of other directories in between.
SubdirectoriesListed == \A d \in Subdirectories : Listed(d)

\* For the exported root.
RootListed == Listed(Root)

\* The client gets on: its requests are answered.
FairSpec == Spec /\ \A d \in Dirs : WF_vars(ListPage(d) \/ ListTooLarge(d))

\* Walks come to an end: the cursor moves on with every page, as long as the
\* entries of the directory have different numbers.
WalksEnd ==
    \A d \in Dirs : walk[d] = "walking" ~> walk[d] # "walking" \/ ~Numbered(d)
=============================================================================
