----------------------------- MODULE RetroVault -----------------------------
(***************************************************************************)
(* The Retro Vault plugin (lib/retrovault), the API behind it, and a       *)
(* program that walks its lists and downloads through the typed client     *)
(* (lib/client/retrovault.c) as docs/RETROVAULT_PROTOCOL.md tells it to.   *)
(*                                                                         *)
(* The plugin keeps one catalogue and one download.  A request is handled  *)
(* in one step: what the API changes between two gets of one request has   *)
(* the effect of changing before or after both, for the document and the   *)
(* files are independent.                                                  *)
(***************************************************************************)
EXTENDS PluginCall, RetroCatalog

CONSTANTS
    Documents,      \* what the API may serve as its catalogue, the first first
    Lengths,        \* the size of each version of a file the API serves
    Walks,          \* what the program asks for: lists, details, downloads
    OtherRequests,  \* requests it makes between two steps of a walk
    Rooms,          \* response bytes after a page header
    DataMax,        \* response bytes after a download header
    Results,        \* what http.get returns
    Codes,          \* HTTP status codes, 200 among them
    CacheSeconds,   \* catalog_cache_seconds
    Start,          \* the time when the server starts
    MaxTicks,       \* bound: how far time goes
    MaxEvents       \* bound: API changes, other requests, losses, restarts

\* What a walk asks for.
Wanted ==
    [op : {"list"}, filter : [{"platform", "model", "query"} -> DOMAIN Ends]]
      \cup [op : {"info"}, id : DOMAIN Ends]
      \cup [op : {"download"}, id : DOMAIN Ends, download : DOMAIN Ends,
            maximum : Nat]

ASSUME RetroAssumption ==
    /\ DataMax \in Nat \ {0}
    /\ "ok" \in Results /\ 200 \in Codes
    /\ Start \in Nat /\ CacheSeconds \in Nat \ {0}
    /\ Start - 1 >= CacheSeconds    \* 1 stands for an unknown time
    /\ IsArray(Documents) /\ 1 \in DOMAIN Documents
    /\ \A d \in DOMAIN Documents : Documents[d] = Wrong \/ IsDocument(Documents[d])
    /\ Lengths \in Seq(Nat) /\ 1 \in DOMAIN Lengths
    /\ Walks \subseteq Wanted

VARIABLES
    packages,       \* the context's catalogue: the document it was parsed from
    catalog_fetched_at,
    download_path, download_data,       \* the context's download
    room,           \* response_capacity, of one server
    document, version,      \* what the API serves
    clock,
    taken,          \* history: when packages was got
    others,         \* history: times the download was given up in this walk
    walk, state,    \* the program: what it asks for, and how far it is
    got, cursor, total,
    view,           \* history: the catalogue or download its pages are of
    aside,          \* is its call another request than the walk's
    events          \* how many of these there were

vault == <<packages, catalog_fetched_at, download_path, download_data>>
api == <<document, version>>
program == <<walk, state, got, cursor, total, view>>
vars == <<callvars, vault, room, api, clock, taken, others, program, aside,
          events>>

Event == events < MaxEvents /\ events' = events + 1

NoTime == 0 - 1
NoPackages == 0

\* What is parsed is kept by the number of its document.
Parsed == [d \in DOMAIN Documents |-> ParseCatalog(Documents[d])]
Packages(d) == IF d = NoPackages THEN <<>> ELSE Parsed[d]
NoView == Null
Mixed == Bad

Statuses == {"OK", "BAD_REQUEST", "API_UNAVAILABLE", "NOT_FOUND", "TOO_LARGE",
             "INTERNAL_ERROR"}

\* Besides types: a page and a chunk fit in the response, and a cursor handed
\* out is never the end mark's.
TypeOK ==
    /\ request.op \in {"none", "malformed", "capabilities", "list", "info",
                       "download"}
    /\ awaited \in BOOLEAN
    /\ reply # None => reply.status \in Statuses
    /\ reply # None /\ reply.status = "OK" =>
         CASE reply.op \in {"list", "info"} ->
                /\ reply.next \in 0..CursorEnd
                /\ reply.left \in 0..room
           [] reply.op = "download" ->
                /\ Len(reply.data) \in 0..DataMax
                /\ reply.offset + Len(reply.data) =< reply.total
           [] OTHER -> TRUE
    /\ packages \in {NoPackages} \cup DOMAIN Documents
    /\ catalog_fetched_at \in {0, 1} \cup (Start..clock)
    /\ download_path = NoPath => download_data = <<>>
    /\ room \in Rooms
    /\ version \in DOMAIN Lengths
    /\ state \in {"idle", "going", "done", "failed"}
    /\ cursor \in 0..(CursorEnd - 1)

Init ==
    /\ CallInit
    /\ packages = NoPackages /\ catalog_fetched_at = 0
    /\ download_path = NoPath /\ download_data = <<>>
    /\ room \in Rooms
    /\ document = 1 /\ version = 1
    /\ clock = Start /\ taken = Start
    /\ others = 0
    /\ walk = None /\ state = "idle"
    /\ got = <<>> /\ cursor = 0 /\ total = Null /\ view = NoView
    /\ aside = FALSE
    /\ events = 0
-----------------------------------------------------------------------------
(***************************************************************************)
(* HTTP.                                                                   *)
(***************************************************************************)
\* What a get of this body may give; the body is there only if all is well.
Answers(body) ==
    {[result |-> r, code |-> c,
      body |-> IF r = "ok" /\ c = 200 THEN body ELSE Wrong] :
        r \in Results, c \in Codes}

Succeeded(answer) == answer.result = "ok" /\ answer.code = 200

HttpErrorStatus(answer) ==
    CASE answer.result = "too_large" -> "TOO_LARGE"
      [] answer.result # "too_large" /\ answer.code \in {404, 409} ->
           "NOT_FOUND"
      [] OTHER -> "API_UNAVAILABLE"

\* The bytes a path stands for, each with where it comes from.
Body(path, v) ==
    [i \in 1..Lengths[v] |->
       [path |-> [path EXCEPT !.query = FALSE], version |-> v, at |-> i]]
-----------------------------------------------------------------------------
(***************************************************************************)
(* ensure_catalog.                                                         *)
(***************************************************************************)
\* The difference is taken as an unsigned number.
Cached(now) ==
    /\ Packages(packages) # <<>>
    /\ now # NoTime
    /\ catalog_fetched_at # 0
    /\ now - catalog_fetched_at \in 0..(CacheSeconds - 1)

Kept(status, failed) ==
    [status |-> status, packages |-> packages,
     fetched_at |-> catalog_fetched_at, taken |-> taken, failed |-> failed]

\* Mutant of Refresh: a failed refresh counts as one.
RefreshStamped(now, answer) ==
    LET parsed == IF Succeeded(answer) THEN Parsed[answer.body] ELSE Bad
        time == IF now = NoTime THEN 1 ELSE now
    IN  IF parsed # Bad
        THEN [status |-> "OK", packages |-> answer.body, taken |-> clock,
              fetched_at |-> time, failed |-> FALSE]
        ELSE [Kept("OK", TRUE) EXCEPT !.fetched_at = time]

\* A failed refresh keeps a catalogue that is not empty, and the time it was
\* fetched: the next request tries again.
Refresh(now, answer) ==
    LET parsed == IF Succeeded(answer) THEN Parsed[answer.body] ELSE Bad
        empty == Packages(packages) = <<>>
    IN  CASE parsed # Bad ->
               [status |-> "OK", packages |-> answer.body, taken |-> clock,
                fetched_at |-> IF now = NoTime THEN 1 ELSE now,
                failed |-> FALSE]
          [] parsed = Bad /\ ~empty -> Kept("OK", TRUE)
          [] parsed = Bad /\ empty ->
               Kept(CASE answer.result # "ok" -> HttpErrorStatus(answer)
                      [] answer.result = "ok" /\ answer.code = 404 ->
                           "NOT_FOUND"
                      [] OTHER -> "INTERNAL_ERROR", TRUE)

\* All that ensure_catalog may leave behind; time() may fail.
EnsureCatalog ==
    UNION {IF Cached(now) THEN {Kept("OK", FALSE)}
           ELSE {Refresh(now, answer) : answer \in Answers(document)} :
             now \in {clock, NoTime}}

Adopt(catalog) ==
    /\ packages' = catalog.packages
    /\ catalog_fetched_at' = catalog.fetched_at
    /\ taken' = catalog.taken
-----------------------------------------------------------------------------
(***************************************************************************)
(* The handlers.                                                           *)
(***************************************************************************)
Left == <<room, api, clock, program, aside, events>>

RespondError(status) == Answer([op |-> request.op, status |-> status])

\* The checks on sizes, the end cursor and the identifiers of a download come
\* before anything else.
Malformed ==
    \/ request.op = "malformed"
    \/ request.op = "list" /\ request.cursor = CursorEnd
    \/ /\ request.op = "download"
       /\ ~({request.id, request.download} \subseteq SafeTexts)

HandleBadRequest ==
    /\ request # None /\ Malformed
    /\ RespondError("BAD_REQUEST")
    /\ UNCHANGED <<Left, vault, taken, others>>

HandleCapabilities ==
    /\ request.op = "capabilities"
    /\ Answer([op |-> "capabilities", status |-> "OK", maximum |-> DataMax])
    /\ UNCHANGED <<Left, vault, taken, others>>

\* A page, with the catalogue it is of and its age.
RespondPage(page, catalog) ==
    IF page.status # "OK" THEN RespondError(page.status)
    ELSE Answer([op |-> request.op, status |-> "OK", next |-> page.next,
                 entries |-> page.entries, left |-> page.left,
                 of |-> catalog.packages, failed |-> catalog.failed,
                 age |-> clock - catalog.taken])

\* write_catalog_page and write_info_page.
CatalogPage(all, capacity) ==
    Page("list", Matching(all, request.filter), request.cursor, capacity)

InfoPage(p, capacity) ==
    IF request.cursor > Len(InfoRecords(p)) THEN [status |-> "BAD_REQUEST"]
    ELSE Page("info", InfoRecords(p), request.cursor, capacity)

\* handle_list_or_search: a search is a list with a query.
HandleList ==
    /\ request.op = "list" /\ ~Malformed
    /\ \E catalog \in EnsureCatalog :
         /\ Adopt(catalog)
         /\ IF catalog.status # "OK" THEN RespondError(catalog.status)
            ELSE RespondPage(CatalogPage(Packages(catalog.packages), room),
                             catalog)
    /\ UNCHANGED <<Left, download_path, download_data, others>>

HandleInfo ==
    /\ request.op = "info"
    /\ \E catalog \in EnsureCatalog :
         LET p == Find(Packages(catalog.packages), request.id)
         IN  /\ Adopt(catalog)
             /\ CASE catalog.status # "OK" -> RespondError(catalog.status)
                  [] catalog.status = "OK" /\ p = Bad ->
                       RespondError("NOT_FOUND")
                  [] OTHER -> RespondPage(InfoPage(p, room), catalog)
    /\ UNCHANGED <<Left, download_path, download_data, others>>

\* fetch_download, and the second one a 409 leads to when the other form of
\* the path is another path.
Fetches(p, d, path) ==
    LET other == BuildDownloadPath(p, d, TRUE)
        first == Answers(Body(path, version))
        Retried(answer) == /\ ~Succeeded(answer) /\ answer.code = 409
                           /\ other \notin {Bad, path}
    IN  {a \in first : ~Retried(a)}
          \cup IF \E a \in first : Retried(a)
               THEN Answers(Body(other, version)) ELSE {}

\* Mutant of EnsureDownload: every chunk is fetched anew.
EnsureDownloadAnew(catalog) ==
    LET p == Find(Packages(catalog.packages), request.id)
        d == IF p = Bad THEN Bad ELSE Find(p.downloads, request.download)
        path == IF d = Bad THEN Bad ELSE BuildDownloadPath(p, d, FALSE)
    IN  IF catalog.status # "OK" \/ path = Bad
        THEN {[status |-> "NOT_FOUND", path |-> download_path,
               data |-> download_data]}
        ELSE {[status |-> IF Succeeded(a) THEN "OK" ELSE HttpErrorStatus(a),
               path |-> IF Succeeded(a) THEN path ELSE download_path,
               data |-> IF Succeeded(a) THEN a.body ELSE download_data] :
                 a \in Fetches(p, d, path)}

\* What ensure_download may come to after the catalogue: only a fetch that
\* succeeds replaces the download kept, under the first form of its path.
EnsureDownload(catalog) ==
    LET p == Find(Packages(catalog.packages), request.id)
        d == IF p = Bad THEN Bad ELSE Find(p.downloads, request.download)
        path == IF d = Bad THEN Bad ELSE BuildDownloadPath(p, d, FALSE)
        Keep(status) == [status |-> status, path |-> download_path,
                         data |-> download_data]
    IN  CASE catalog.status # "OK" -> {Keep(catalog.status)}
          [] catalog.status = "OK" /\ d = Bad -> {Keep("NOT_FOUND")}
          [] catalog.status = "OK" /\ d # Bad /\ path = Bad ->
               {Keep("INTERNAL_ERROR")}
          [] catalog.status = "OK" /\ path # Bad /\ path = download_path ->
               {Keep("OK")}
          [] OTHER -> {IF Succeeded(a)
                       THEN [status |-> "OK", path |-> path, data |-> a.body]
                       ELSE Keep(HttpErrorStatus(a)) :
                         a \in Fetches(p, d, path)}

\* Mutant of Chunk: all there is.
ChunkWhole(data) == SubSeq(data, request.offset + 1, Len(data))

Chunk(data) ==
    LET asked == IF request.maximum = 0 THEN DataMax ELSE request.maximum
    IN  SubSeq(data, request.offset + 1,
               Min({request.offset + Min({DataMax, asked}), Len(data)}))

HandleDownload ==
    /\ request.op = "download" /\ ~Malformed
    /\ \E catalog \in EnsureCatalog :
         /\ Adopt(catalog)
         /\ \E kept \in EnsureDownload(catalog) :
              /\ download_path' = kept.path
              /\ download_data' = kept.data
              /\ others' = IF download_path \in {NoPath, kept.path}
                           THEN others ELSE others + 1
              /\ CASE kept.status # "OK" -> RespondError(kept.status)
                   [] kept.status = "OK" /\ request.offset > Len(kept.data) ->
                        RespondError("BAD_REQUEST")
                   [] OTHER ->
                        Answer([op |-> "download", status |-> "OK",
                                offset |-> request.offset,
                                total |-> Len(kept.data),
                                data |-> Chunk(kept.data), of |-> others'])
    /\ UNCHANGED Left

Handle ==
    \/ HandleBadRequest \/ HandleCapabilities
    \/ HandleList \/ HandleInfo \/ HandleDownload

\* The plugin is stopped and started: it has nothing.
Restart ==
    /\ Event
    /\ Restarted
    /\ packages' = NoPackages /\ catalog_fetched_at' = 0
    /\ download_path' = NoPath /\ download_data' = <<>>
    /\ others' = others + 1
    /\ aside' = FALSE
    /\ UNCHANGED <<room, api, clock, taken, program>>
-----------------------------------------------------------------------------
(***************************************************************************)
(* The program.                                                            *)
(***************************************************************************)
Begin ==
    /\ state # "going" /\ ~awaited
    /\ walk' \in Walks
    /\ state' = "going"
    /\ got' = <<>> /\ cursor' = 0 /\ total' = Null /\ view' = NoView
    /\ others' = 0
    /\ UNCHANGED <<callvars, vault, room, api, clock, taken, aside, events>>

\* The typed calls: the next page, or the chunk at the first byte not got.
ListCall == [op |-> "list", filter |-> walk.filter, cursor |-> cursor]
InfoCall == [op |-> "info", id |-> walk.id, cursor |-> cursor]
DownloadCall ==
    [op |-> "download", id |-> walk.id, download |-> walk.download,
     maximum |-> walk.maximum, offset |-> Len(got)]

\* A page or chunk lost on the way is asked for again.
GoOn ==
    /\ state = "going"
    /\ Call(CASE walk.op = "list" -> ListCall
              [] walk.op = "info" -> InfoCall
              [] walk.op = "download" -> DownloadCall)
    /\ aside' = FALSE
    /\ UNCHANGED <<vault, room, api, clock, taken, others, program, events>>

AskAside ==
    /\ Event
    /\ \E what \in OtherRequests : Call(what)
    /\ aside' = TRUE
    /\ UNCHANGED <<vault, room, api, clock, taken, others, program>>

Seen == IF view \in {NoView, reply.of} THEN reply.of ELSE Mixed

TakePage ==
    /\ got' = got \o reply.entries
    /\ cursor' = IF reply.next = CursorEnd THEN cursor ELSE reply.next
    /\ state' = IF reply.next = CursorEnd THEN "done" ELSE "going"
    /\ view' = Seen
    /\ UNCHANGED total

\* The offset and the total are checked, as the protocol document asks.
TakeChunk ==
    IF reply.offset = Len(got) /\ total \in {Null, reply.total}
    THEN /\ got' = got \o reply.data
         /\ total' = reply.total
         /\ state' = IF Len(got') = total' THEN "done" ELSE "going"
         /\ view' = Seen
         /\ UNCHANGED cursor
    ELSE state' = "failed" /\ UNCHANGED <<got, cursor, total, view>>

ProgramTakes ==
    /\ Take
    /\ UNCHANGED walk
    /\ CASE aside -> UNCHANGED program
         [] ~aside /\ reply.status # "OK" ->
              state' = "failed" /\ UNCHANGED <<got, cursor, total, view>>
         [] ~aside /\ reply.status = "OK" /\ walk.op = "download" -> TakeChunk
         [] OTHER -> TakePage
    /\ aside' = FALSE
    /\ UNCHANGED <<vault, room, api, clock, taken, others, events>>

LinkLost ==
    /\ Event
    /\ GiveUp(FALSE)
    /\ UNCHANGED <<vault, room, api, clock, taken, others, program, aside>>
-----------------------------------------------------------------------------
(***************************************************************************)
(* The world.                                                              *)
(***************************************************************************)
Tick ==
    /\ clock < Start + MaxTicks
    /\ clock' = clock + 1
    /\ UNCHANGED <<callvars, vault, room, api, taken, others, program, aside,
                   events>>

ApiChanges ==
    /\ Event
    /\ \/ document' \in DOMAIN Documents \ {document} /\ UNCHANGED version
       \/ version' \in DOMAIN Lengths \ {version} /\ UNCHANGED document
    /\ UNCHANGED <<callvars, vault, room, clock, taken, others, program, aside>>

Next ==
    \/ Handle \/ Restart
    \/ Begin \/ GoOn \/ AskAside \/ ProgramTakes \/ LinkLost
    \/ Tick \/ ApiChanges

Spec == Init /\ [][Next]_vars

\* The program goes on, a request does not stay unhandled, and replies are
\* taken.
FairSpec ==
    /\ Spec
    /\ WF_vars(GoOn)
    /\ WF_request(request # None /\ request' = None)
    /\ WF_vars(ProgramTakes)
-----------------------------------------------------------------------------
Finished(op) == walk.op = op /\ state = "done" /\ view # Mixed

\* A walk that met one catalogue gives every matching package, or every
\* record of its package, once and in order, whatever was lost and asked
\* again on the way; a package whose identifier fits in no entry is left out.
\* An entry is shortened only when it does not fit in a page of its own.
WalkComplete ==
    LET Whole(items) ==
          /\ [i \in DOMAIN got |-> got[i].at] =
               SelectSeq([i \in DOMAIN items |-> i],
                         LAMBDA i : Entry(walk.op, items[i], RecordMax) # Bad)
          /\ \A i \in DOMAIN got :
               LET full == Entry(walk.op, items[got[i].at], RecordMax)
               IN  \/ got[i] = [at |-> got[i].at] @@ full
                   \/ full.size > room /\ got[i].size =< room
    IN  /\ Finished("list") =>
             Whole(Matching(Packages(view), walk.filter))
        /\ Finished("info") =>
             Whole(InfoRecords(Find(Packages(view), walk.id)))

\* A finished download is one version of one file of the API, the one the
\* program chose, although the API may serve another meanwhile and fetches
\* may fail; unless the kept download was given up for another on the way.
DownloadIntact ==
    Finished("download") =>
      \E b \in {Body(a.path, a.version) : a \in Range(got)} \cup {<<>>} :
        /\ got = b
        /\ \A i \in DOMAIN b : /\ Same(b[i].path.id, walk.id)
                               /\ Same(b[i].path.download, walk.download)

\* A page is of a catalogue less than an hour old, or the API has just been
\* asked in vain: what is kept after a failure is never taken for fresh.
Fresh ==
    reply # None /\ reply.op \in {"list", "info"} /\ reply.status = "OK" =>
      reply.failed \/ reply.age < CacheSeconds

\* Walks and downloads come to an end.
WalksEnd == state = "going" ~> state # "going"
=============================================================================
