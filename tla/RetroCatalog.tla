---------------------------- MODULE RetroCatalog ----------------------------
(***************************************************************************)
(* The Retro Vault catalogue (lib/retrovault/retrovault_core.c): parsing   *)
(* the API's document, filtering it, and cutting it into pages.            *)
(*                                                                         *)
(* A text is a name with the properties the code tells apart: the sizes at *)
(* which a character of it ends, its lower-case form, the queries it       *)
(* contains and whether it is made of identifier characters.  A JSON       *)
(* document is a sequence of records, a member of which may be Null        *)
(* (absent, or null) or Wrong (of another JSON type).                      *)
(***************************************************************************)
EXTENDS Integers, Sequences, Functions, Folds, FiniteSetsExt, TLC

CONSTANTS
    Ends,           \* Ends[t]: the sizes at which a character of t ends, and 0
    Lower,          \* tolower of every character of t
    Words,          \* Words[t]: the lower-case queries t contains
    SafeTexts,      \* texts of letters, digits, - and _, the empty one apart
    Null, Wrong, Bad,
    CursorEnd,      \* RETRO_VAULT_CURSOR_END
    RecordMax,      \* the 249-byte buffer of one entry or TLV
    IdMax, LabelMax, FormatMax,     \* 64, 96, 32: texts of a download TLV
    YearMax,        \* UINT16_MAX
    CountMax,       \* UINT8_MAX, of a file count
    SizeUnknown,    \* RETRO_VAULT_SIZE_UNKNOWN, which is UINT32_MAX
    Word64,         \* 2^64
    PathMax         \* API path bytes, less its fixed text

ASSUME CatalogAssumption ==
    /\ {CursorEnd, IdMax, LabelMax, FormatMax, YearMax, CountMax,
        SizeUnknown, PathMax} \subseteq Nat \ {0}
    /\ IdMax + LabelMax + FormatMax + 10 =< RecordMax
    /\ Word64 > SizeUnknown /\ Word64 % (SizeUnknown + 1) = 0
    /\ SafeTexts \subseteq DOMAIN Ends \ {""}
    /\ Null \notin Nat /\ Bad \notin Nat \cup {Null}

\* A JSON array is a sequence; that of a document has objects in it, some of
\* which have an array of downloads.
IsArray(x) == Len(x) \in Nat /\ DOMAIN x = 1..Len(x)
IsDocument(x) ==
    /\ IsArray(x)
    /\ \A i \in DOMAIN x : \/ x[i].downloads \in {Null, Wrong}
                           \/ IsArray(x[i].downloads)

\* A loop over these positions: op on what there is and the next one.
InOrder(op(_, _), start, positions) ==
    MapThenFoldSet(LAMBDA i, so_far : op(so_far, i), start, LAMBDA i : i, Max,
                   positions)

Size(t) == Max(Ends[t])
\* Shortening to n bytes steps back over the continuation bytes.
Cut(t, n) == Max({e \in Ends[t] : e =< n})
Same(s, t) == Lower[s] = Lower[t]
-----------------------------------------------------------------------------
(***************************************************************************)
(* Parsing.  Bad is the parser's -1.                                       *)
(***************************************************************************)
\* get_json_string_member.
StringMember(value, required) ==
    LET text == IF value = Null THEN "" ELSE value
    IN  IF text = Wrong \/ (required /\ text = "") THEN Bad ELSE text

\* parse_download_files: UINT32_MAX - size is computed in 64 bits.
AddFile(sum, size) ==
    LET room == (SizeUnknown - size) % Word64
    IN  IF size = Null \/ sum.total > room
        THEN [sum EXCEPT !.known = FALSE, !.count = Min({@ + 1, CountMax})]
        ELSE [sum EXCEPT !.total = (@ + size) % Word64,
                         !.count = Min({@ + 1, CountMax})]

ParseDownload(object) ==
    LET texts == <<StringMember(object.id, TRUE),
                   StringMember(object.label, TRUE),
                   StringMember(object.format, TRUE)>>
        sum == InOrder(LAMBDA so_far, i : AddFile(so_far, object.files[i]),
                       [total |-> 0, known |-> TRUE, count |-> 0],
                       DOMAIN object.files)
    IN  IF \/ Bad \in Range(texts)
           \/ object.files \in {Null, Wrong}
           \/ Wrong \in Range(object.files)
        THEN Bad
        ELSE [id |-> texts[1], label |-> texts[2], format |-> texts[3],
              aggregate_size |-> IF sum.known
                                 THEN sum.total % (SizeUnknown + 1)
                                 ELSE SizeUnknown,
              file_count |-> sum.count]

Ratings == {"Curious", "Average", "Great", "Legendary"}
Optional == {"vendor", "platform", "platform_name", "model", "model_name",
             "version", "description"}

ParsePackage(object) ==
    LET text == [m \in Optional \cup {"id", "name"} |->
                   StringMember(object[m], m \in {"id", "name"})]
        rating == StringMember(object.rating, FALSE)
        downloads == IF object.downloads = Null THEN <<>>
                     ELSE [i \in DOMAIN object.downloads |->
                             ParseDownload(object.downloads[i])]
    IN  IF \/ \E m \in DOMAIN text : text[m] = Bad
           \/ Bad = rating \/ Wrong \in {object.year, object.downloads}
           \/ Bad \in Range(downloads)
        THEN Bad
        ELSE [m \in DOMAIN text \cup {"rating", "year", "downloads"} |->
                CASE m = "rating" ->
                       IF rating \in Ratings THEN rating ELSE "Unknown"
                  [] m = "year" ->
                       IF object.year = Null \/ object.year > YearMax THEN 0
                       ELSE object.year
                  [] m = "downloads" -> downloads
                  [] OTHER -> text[m]]

\* Mutant of ParseCatalog: as many packages as the document holds.
ParseCatalogAny(document) ==
    LET parsed == [i \in DOMAIN document |-> ParsePackage(document[i])]
    IN  IF Bad \in Range(parsed) THEN Bad ELSE parsed

\* One malformed package spoils the catalogue, and so does one too many:
\* a cursor counts packages, and CursorEnd must not be one.
ParseCatalog(document) ==
    IF document = Wrong THEN Bad
    ELSE LET parsed == [i \in DOMAIN document |-> ParsePackage(document[i])]
         IN  IF Len(document) > CursorEnd \/ Bad \in Range(parsed) THEN Bad
             ELSE parsed
-----------------------------------------------------------------------------
(***************************************************************************)
(* Filtering and finding.                                                  *)
(***************************************************************************)
Aliases == {{"idp", "iskra-delta-partner"}, {"zxs", "zx-spectrum"}}

PlatformMatches(platform, filter) ==
    \/ Same(platform, filter)
    \/ \E names \in Aliases : {Lower[platform], Lower[filter]} \subseteq names

\* An empty filter lets everything through.
PackageMatches(p, filter) ==
    /\ filter.platform = "" \/ PlatformMatches(p.platform, filter.platform)
    /\ filter.model = "" \/ Same(p.model, filter.model)
    /\ \/ filter.query = ""
       \/ \E t \in {p.id, p.name, p.vendor, p.description} :
            Lower[filter.query] \in Words[t]

Matching(packages, filter) ==
    SelectSeq(packages, LAMBDA p : PackageMatches(p, filter))

\* find_package and find_download: the first one of that identifier, or Bad.
Find(items, id) ==
    LET found == {i \in DOMAIN items : Same(items[i].id, id)}
    IN  IF found = {} THEN Bad ELSE items[Min(found)]
-----------------------------------------------------------------------------
(***************************************************************************)
(* Entries and pages.  An entry is the bytes shown of each of its texts    *)
(* and its size, Bad if it cannot be made; in a page it has the position   *)
(* of what it stands for.                                                  *)
(***************************************************************************)
ListEntry(p, capacity) ==
    LET name == Cut(p.name, capacity - Size(p.id) - 2)
    IN  IF Size(p.id) + 2 > capacity THEN Bad
        ELSE [shown |-> <<Size(p.id), name>>, size |-> 2 + Size(p.id) + name]

InfoTexts == <<"id", "name", "vendor", "platform", "platform_name", "version",
               "year", "rating", "description">>

InfoRecords(p) ==
    [i \in 1..9 |-> [type |-> InfoTexts[i], value |-> p[InfoTexts[i]]]]
      \o [i \in DOMAIN p.downloads |->
            [type |-> "download", value |-> p.downloads[i]]]

\* make_string_tlv, make_download_tlv and the two numbers.  Each text of a
\* download needs its length byte before the five bytes that end the record.
InfoRecord(record, capacity) ==
    LET d == record.value
        id == Cut(d.id, Min({IdMax, capacity - 8}))
        label == Cut(d.label, Min({LabelMax, capacity - 9 - id}))
        format == Cut(d.format, Min({FormatMax, capacity - 10 - id - label}))
        Fixed(n) == IF capacity < n + 2 THEN Bad
                    ELSE [shown |-> <<n>>, size |-> n + 2]
    IN  CASE record.type = "year" -> Fixed(2)
          [] record.type = "rating" -> Fixed(1)
          [] record.type = "download" ->
               IF capacity < 10 \/ capacity - 9 - id < 0
                    \/ capacity - 10 - id - label < 0 THEN Bad
               ELSE [shown |-> <<id, label, format>>,
                     size |-> 10 + id + label + format]
          [] OTHER -> IF capacity < 2 THEN Bad
                      ELSE Fixed(Cut(record.value, capacity - 2))

Entry(kind, item, capacity) ==
    IF kind = "list" THEN ListEntry(item, capacity)
    ELSE InfoRecord(item, capacity)

\* A package that fits in no entry is passed over.
Unmade(kind) == IF kind = "list" THEN "OK" ELSE "INTERNAL_ERROR"

\* Mutant of Page: an entry that does not fit waits for the next page.
PageWaiting(kind, items, cursor, room) ==
    LET Fill(page, i) ==
          LET entry == Entry(kind, items[i], RecordMax)
          IN  CASE page.status # "OK" \/ page.next # CursorEnd -> page
                [] entry = Bad -> [page EXCEPT !.status = Unmade(kind)]
                [] entry.size =< page.left ->
                     [page EXCEPT !.entries = Append(@, [at |-> i] @@ entry),
                                  !.left = @ - entry.size]
                [] OTHER -> [page EXCEPT !.next = i - 1]
    IN  InOrder(Fill, [status |-> "OK", next |-> CursorEnd, entries |-> <<>>,
                       left |-> room],
                (cursor + 1)..Len(items))

\* The loop of write_catalog_page and of write_info_page: whole entries while
\* they fit, and at least one, shortened if it must be.
Page(kind, items, cursor, room) ==
    LET Add(page, i, entry) ==
          [page EXCEPT !.entries = Append(@, [at |-> i] @@ entry),
                       !.left = @ - entry.size]
        Fill(page, i) ==
          LET entry == Entry(kind, items[i], RecordMax)
              short == Entry(kind, items[i], page.left)
          IN  CASE page.status # "OK" \/ page.next # CursorEnd -> page
                [] entry = Bad -> [page EXCEPT !.status = Unmade(kind)]
                [] entry.size =< page.left -> Add(page, i, entry)
                [] page.entries # <<>> -> [page EXCEPT !.next = i - 1]
                [] short = Bad -> [page EXCEPT !.status = "TOO_LARGE"]
                [] OTHER -> Add(page, i, short)
    IN  InOrder(Fill, [status |-> "OK", next |-> CursorEnd, entries |-> <<>>,
                       left |-> room],
                (cursor + 1)..Len(items))
-----------------------------------------------------------------------------
NoPath == [id |-> ""]

\* build_download_path: an unsafe platform or model is left out, and there is
\* no model without a platform.  query says that they follow a "?".
BuildDownloadPath(p, d, disambiguate) ==
    LET platform == IF p.platform \in SafeTexts THEN p.platform ELSE ""
        model == IF platform # "" /\ p.model \in SafeTexts THEN p.model ELSE ""
    IN  IF \/ ~({p.id, d.id} \subseteq SafeTexts)
           \/ Size(p.id) + Size(d.id) + Size(platform) + Size(model) >= PathMax
        THEN Bad
        ELSE [platform |-> platform, model |-> model, id |-> p.id,
              download |-> d.id, query |-> disambiguate /\ platform # ""]
=============================================================================
