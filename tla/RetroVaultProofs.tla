-------------------------- MODULE RetroVaultProofs --------------------------
(***************************************************************************)
(* Proofs about the Retro Vault plugin's two caches, for every catalogue,  *)
(* file, chunk size and time of validity.                                  *)
(***************************************************************************)
EXTENDS RetroVault, WellFoundedInduction, TLAPS

\* Documents that parse.
Good == {d \in DOMAIN Documents : Parsed[d] # Bad}

\* The time kept with the catalogue is when it was got, or no known time.
CacheInv ==
    /\ clock \in Int /\ clock >= Start
    /\ taken \in Int /\ taken =< clock
    /\ catalog_fetched_at \in {0, 1, taken}
    /\ document \in DOMAIN Documents /\ version \in DOMAIN Lengths
    /\ packages \in {NoPackages} \cup Good

CallInv ==
    /\ awaited \in BOOLEAN /\ aside \in BOOLEAN
    /\ reply # None => awaited /\ request = None
    /\ awaited /\ ~aside => state = "going"
    /\ awaited /\ ~aside /\ walk.op = "download" /\ request # None
         => request = DownloadCall

\* The paths under which downloads are kept, and the bytes of files.
Paths == [platform : SafeTexts \cup {""}, model : SafeTexts \cup {""},
          id : SafeTexts, download : SafeTexts, query : {FALSE}]
FileBytes == [path : Paths, version : DOMAIN Lengths, at : Nat]
IsFile(data, path) == \E v \in DOMAIN Lengths : data = Body(path, v)

\* What is kept is all of the file its path stands for.
KeptInv ==
    \/ download_path = NoPath /\ download_data = <<>>
    \/ download_path \in Paths /\ IsFile(download_data, download_path)

\* Is this the path of the file the program chose?
Chosen(path) ==
    /\ path \in Paths
    /\ Same(path.id, walk.id)
    /\ Same(path.download, walk.download)

\* A piece of the kept download at this offset.
PieceAt(data, offset) ==
    /\ offset \in Nat
    /\ \E n \in Nat : /\ offset + n =< Len(download_data)
                      /\ data = SubSeq(download_data, offset + 1, offset + n)

\* A chunk on its way is a piece of what is kept.
ChunkInv ==
    awaited /\ ~aside /\ walk.op = "download" /\ reply # None
      /\ reply.status = "OK" =>
      /\ Chosen(download_path)
      /\ reply.of = others
      /\ reply.total = Len(download_data)
      /\ PieceAt(reply.data, reply.offset)

\* A download all of whose chunks are of what is kept now is its beginning.
GoingInv ==
    walk.op = "download" =>
      /\ got \in Seq(FileBytes)
      /\ view \in Nat \cup {NoView, Mixed}
      /\ view = NoView => got = <<>> /\ state # "done"
      /\ view \in Nat => view =< others
      /\ view = others /\ state = "going" =>
           /\ Chosen(download_path)
           /\ total = Len(download_data)
           /\ PieceAt(got, 0)

DownloadInv ==
    /\ others \in Nat
    /\ walk \in Wanted \cup {None}
    /\ state \in {"idle", "going", "done", "failed"}
    /\ KeptInv /\ ChunkInv /\ GoingInv /\ DownloadIntact

Inv == CacheInv /\ Fresh /\ CallInv /\ DownloadInv
-----------------------------------------------------------------------------
(***************************************************************************)
(* Numbers, sequences and what is found in them.                           *)
(***************************************************************************)
\* A set of positions that is not empty has a smallest one.
LEMMA SmallestIn ==
    ASSUME NEW S \in SUBSET Nat, S # {}
    PROVE  Min(S) \in S
PROOF
<1> DEFINE R == OpToRel(<, Nat)
<1>1. PICK x \in S : \A y \in S : ~(<<y, x>> \in R)
  BY WFMin, NatLessThanWellFounded
<1>2. \A y \in S : ~(y < x)
  <2>1. R = {ss \in Nat \X Nat : ss[1] < ss[2]}
    BY Zenon DEF OpToRel
  <2> HIDE DEF R
  <2> QED BY <1>1, <2>1
<1>3. \A y \in S : x =< y
  BY <1>2
<1> QED BY <1>3 DEF Min

\* The smaller of two numbers.
LEMMA MinPair ==
    ASSUME NEW a \in Int, NEW b \in Int
    PROVE  Min({a, b}) \in {a, b} /\ Min({a, b}) =< a /\ Min({a, b}) =< b
PROOF
<1>1. \E x \in {a, b} : \A y \in {a, b} : x =< y
  OBVIOUS
<1> QED BY <1>1 DEF Min

\* What is made of an array element by element is an array.
LEMMA MappedArray ==
    ASSUME NEW x, IsArray(x), NEW f, DOMAIN f = DOMAIN x,
           f = [i \in DOMAIN x |-> f[i]]
    PROVE  IsArray(f)
PROOF
<1> DEFINE n == Len(x)  S == {f[i] : i \in 1..n}
<1>1. n \in Nat /\ DOMAIN x = 1..n
  BY DEF IsArray
<1> HIDE DEF n
<1>2. f \in [1..n -> S]
  BY <1>1
<1>3. f \in Seq(S) /\ Len(f) = n
  BY ONLY <1>1, <1>2
<1> QED BY <1>1, <1>3 DEF IsArray

\* find_package and find_download: what is found has the identifier.
LEMMA FindFacts ==
    ASSUME NEW items, IsArray(items), NEW id, Find(items, id) # Bad
    PROVE  \E i \in DOMAIN items : /\ Find(items, id) = items[i]
                                   /\ Same(items[i].id, id)
PROOF
<1> DEFINE found == {i \in DOMAIN items : Same(items[i].id, id)}
<1>1. found # {} /\ Find(items, id) = items[Min(found)]
  BY DEF Find
<1>2. found \in SUBSET Nat
  BY DEF IsArray
<1> HIDE DEF found
<1>3. Min(found) \in found
  BY <1>1, <1>2, SmallestIn
<1> QED BY <1>1, <1>3 DEF found

\* The downloads of a package that parses are an array.
LEMMA ParsedDownloads ==
    ASSUME NEW object,
           \/ object.downloads \in {Null, Wrong}
           \/ IsArray(object.downloads),
           ParsePackage(object) # Bad
    PROVE  IsArray(ParsePackage(object).downloads)
PROOF
<1> DEFINE downloads == IF object.downloads = Null THEN <<>>
                        ELSE [i \in DOMAIN object.downloads |->
                                ParseDownload(object.downloads[i])]
<1>1. ParsePackage(object).downloads = downloads /\ object.downloads # Wrong
  BY DEF ParsePackage
<1>2. CASE object.downloads = Null
  <2>1. downloads = <<>>
    BY <1>2
  <2> QED BY <1>1, <2>1 DEF IsArray
<1>3. CASE object.downloads # Null
  <2>1. IsArray(object.downloads)
    BY <1>1, <1>3
  <2>2. downloads = [i \in DOMAIN object.downloads |->
                       ParseDownload(object.downloads[i])]
    BY <1>3
  <2> HIDE DEF downloads
  <2> QED BY <1>1, <2>1, <2>2, MappedArray
<1> QED BY <1>2, <1>3

\* The catalogue is an array of packages with arrays of downloads.
LEMMA PackagesFacts ==
    ASSUME NEW c \in {NoPackages} \cup Good
    PROVE  /\ IsArray(Packages(c))
           /\ \A i \in DOMAIN Packages(c) : IsArray(Packages(c)[i].downloads)
PROOF
<1>1. CASE c = NoPackages
  BY <1>1 DEF Packages, IsArray
<1>2. CASE c # NoPackages
  <2> DEFINE doc == Documents[c]
             parsed == [i \in DOMAIN doc |-> ParsePackage(doc[i])]
  <2>1. c \in DOMAIN Documents /\ ParseCatalog(doc) # Bad
    BY <1>2 DEF Good, Parsed
  <2>2. doc # Wrong /\ Packages(c) = parsed /\ Bad \notin Range(parsed)
    BY <1>2, <2>1 DEF ParseCatalog, Packages, Parsed
  <2>3. IsDocument(doc)
    BY <2>1, <2>2, RetroAssumption
  <2>4. IsArray(doc)
    BY <2>3 DEF IsDocument
  <2>5. IsArray(parsed)
    BY <2>4, MappedArray
  <2>6. ASSUME NEW i \in DOMAIN parsed PROVE IsArray(parsed[i].downloads)
    <3>1. i \in DOMAIN doc /\ parsed[i] = ParsePackage(doc[i])
      OBVIOUS
    <3>2. parsed[i] # Bad
      BY <2>2 DEF Range
    <3>3. doc[i].downloads \in {Null, Wrong} \/ IsArray(doc[i].downloads)
      BY <2>3, <3>1 DEF IsDocument
    <3> QED BY <3>1, <3>2, <3>3, ParsedDownloads
  <2> HIDE DEF parsed
  <2> QED BY <2>2, <2>5, <2>6
<1> QED BY <1>1, <1>2
-----------------------------------------------------------------------------
(***************************************************************************)
(* Files and their paths.                                                  *)
(***************************************************************************)
\* build_download_path: the two forms of a path stand for one file, that of
\* the package and the download.
LEMMA PathFacts ==
    ASSUME NEW p, NEW d, BuildDownloadPath(p, d, FALSE) # Bad
    PROVE  LET path == BuildDownloadPath(p, d, FALSE)
               other == BuildDownloadPath(p, d, TRUE)
           IN  /\ path \in Paths
               /\ path.id = p.id /\ path.download = d.id
               /\ other # Bad => \A v : Body(other, v) = Body(path, v)
PROOF
<1> DEFINE path == BuildDownloadPath(p, d, FALSE)
           other == BuildDownloadPath(p, d, TRUE)
           platform == IF p.platform \in SafeTexts THEN p.platform ELSE ""
           model == IF platform # "" /\ p.model \in SafeTexts THEN p.model
                    ELSE ""
<1>1. /\ p.id \in SafeTexts /\ d.id \in SafeTexts
      /\ path = [platform |-> platform, model |-> model, id |-> p.id,
                 download |-> d.id, query |-> FALSE]
      /\ other # Bad =>
           other = [platform |-> platform, model |-> model, id |-> p.id,
                    download |-> d.id, query |-> platform # ""]
  BY DEF BuildDownloadPath
<1>2. platform \in SafeTexts \cup {""} /\ model \in SafeTexts \cup {""}
  OBVIOUS
<1> HIDE DEF path, other, platform, model
<1>3. path \in Paths /\ path.id = p.id /\ path.download = d.id
  BY <1>1, <1>2 DEF Paths
<1>4. ASSUME other # Bad PROVE \A v : Body(other, v) = Body(path, v)
  <2> DEFINE T == [platform : SafeTexts \cup {""}, model : SafeTexts \cup {""},
                   id : SafeTexts, download : SafeTexts, query : BOOLEAN]
  <2>1. PICK q \in BOOLEAN : q = (platform # "")
    BY Zenon
  <2>2. other = [platform |-> platform, model |-> model, id |-> p.id,
                 download |-> d.id, query |-> q]
    BY <1>1, <1>4, <2>1, Zenon
  <2>3. p.id \in SafeTexts /\ d.id \in SafeTexts
        /\ path = [platform |-> platform, model |-> model, id |-> p.id,
                   download |-> d.id, query |-> FALSE]
    BY <1>1
  <2>4. /\ other \in T /\ path \in T /\ path.query = FALSE
        /\ other.platform = path.platform /\ other.model = path.model
        /\ other.id = path.id /\ other.download = path.download
    BY ONLY <1>2, <2>2, <2>3
  <2>5. [other EXCEPT !.query = FALSE] = path
    BY ONLY <2>4
  <2>6. [path EXCEPT !.query = FALSE] = path
    BY ONLY <2>4
  <2>7. [other EXCEPT !.query = FALSE] = [path EXCEPT !.query = FALSE]
    BY <2>5, <2>6
  <2> QED BY <2>7, Zenon DEF Body
<1> QED BY <1>3, <1>4 DEF path, other

\* A file is a sequence of bytes, each of which says whose it is.
LEMMA BodyFacts ==
    ASSUME NEW path \in Paths, NEW v \in DOMAIN Lengths
    PROVE  /\ Body(path, v) \in Seq(FileBytes)
           /\ \A i \in DOMAIN Body(path, v) :
                Body(path, v)[i] = [path |-> path, version |-> v, at |-> i]
PROOF
<1>1. [path EXCEPT !.query = FALSE] = path
  BY DEF Paths
<1>2. Body(path, v) = [i \in 1..Lengths[v] |->
                         [path |-> path, version |-> v, at |-> i]]
  BY <1>1, Zenon DEF Body
<1>3. Lengths[v] \in Nat
  BY RetroAssumption
<1>4. \A i \in 1..Lengths[v] :
        [path |-> path, version |-> v, at |-> i] \in FileBytes
  BY <1>3 DEF FileBytes
<1>5. Body(path, v) \in [1..Lengths[v] -> FileBytes]
  BY <1>2, <1>4
<1>6. Body(path, v) \in Seq(FileBytes)
  BY ONLY <1>3, <1>5
<1> QED BY <1>2, <1>6

\* What is kept is a sequence of bytes.
LEMMA KeptType ==
    ASSUME NEW path, NEW data,
           \/ path = NoPath /\ data = <<>>
           \/ path \in Paths /\ IsFile(data, path)
    PROVE  data \in Seq(FileBytes)
PROOF
<1>1. CASE data = <<>>
  BY <1>1
<1>2. CASE path \in Paths /\ IsFile(data, path)
  BY <1>2, BodyFacts DEF IsFile
<1> QED BY <1>1, <1>2

\* No download is kept under the path of none.
LEMMA NoPathIsNone == NoPath \notin Paths
PROOF
<1>1. "" \notin SafeTexts
  BY CatalogAssumption
<1>2. NoPath.id = ""
  BY DEF NoPath
<1> QED BY <1>1, <1>2 DEF Paths
-----------------------------------------------------------------------------
(***************************************************************************)
(* ensure_catalog.                                                         *)
(***************************************************************************)
\* A catalogue that counts as cached was got less than CacheSeconds ago: the
\* time kept with it is when it was got, for 1, the mark of an unknown time,
\* is always too long ago.
LEMMA CachedIsFresh ==
    ASSUME CacheInv, NEW now \in {clock, NoTime}, Cached(now)
    PROVE  clock - taken < CacheSeconds
PROOF
<1>1. /\ now = clock /\ catalog_fetched_at # 0
      /\ clock - catalog_fetched_at \in 0..(CacheSeconds - 1)
  BY DEF Cached
<1>2. catalog_fetched_at \in {0, 1, taken} /\ clock >= Start
      /\ clock \in Int /\ taken \in Int
  BY DEF CacheInv
<1>3. Start \in Nat /\ CacheSeconds \in Nat /\ Start - 1 >= CacheSeconds
  BY RetroAssumption
<1> QED BY ONLY <1>1, <1>2, <1>3

\* What the catalogue may become: kept with its time, or got now.
LEMMA CatalogFacts ==
    ASSUME CacheInv, NEW c \in EnsureCatalog
    PROVE  /\ c.packages \in {NoPackages} \cup Good
           /\ c.taken \in Int /\ c.taken =< clock
           /\ c.fetched_at \in {0, 1, c.taken}
           /\ c.status = "OK" => c.failed \/ clock - c.taken < CacheSeconds
PROOF
<1>0. /\ packages \in {NoPackages} \cup Good
      /\ taken \in Int /\ taken =< clock /\ clock \in Int
      /\ catalog_fetched_at \in {0, 1, taken}
      /\ document \in DOMAIN Documents
  BY DEF CacheInv
<1>1. CacheSeconds \in Nat \ {0}
  BY RetroAssumption
<1>2. PICK now \in {clock, NoTime} :
        c \in IF Cached(now) THEN {Kept("OK", FALSE)}
              ELSE {Refresh(now, answer) : answer \in Answers(document)}
  BY DEF EnsureCatalog
<1>3. CASE Cached(now)
  <2>1. c = Kept("OK", FALSE)
    BY <1>2, <1>3
  <2>2. clock - taken < CacheSeconds
    BY <1>3, CachedIsFresh
  <2> QED BY <1>0, <2>1, <2>2 DEF Kept
<1>4. CASE ~Cached(now)
  <2>1. PICK answer \in Answers(document) : c = Refresh(now, answer)
    BY <1>2, <1>4
  <2> DEFINE parsed == IF Succeeded(answer) THEN Parsed[answer.body] ELSE Bad
  <2>2. CASE parsed # Bad
    <3>1. c = [status |-> "OK", packages |-> answer.body, taken |-> clock,
               fetched_at |-> IF now = NoTime THEN 1 ELSE now,
               failed |-> FALSE]
      BY <2>1, <2>2 DEF Refresh
    <3>2. answer.body = document
      BY <2>2 DEF Answers, Succeeded
    <3>3. answer.body \in Good
      BY <1>0, <2>2, <3>2 DEF Good
    <3> QED BY <1>0, <1>1, <3>1, <3>3
  <2>3. CASE parsed = Bad
    <3>1. \E status : c = Kept(status, TRUE)
      BY <2>1, <2>3 DEF Refresh
    <3> QED BY <1>0, <3>1 DEF Kept
  <2> QED BY <2>2, <2>3
<1> QED BY <1>3, <1>4
-----------------------------------------------------------------------------
(***************************************************************************)
(* ensure_download and the chunk.                                          *)
(***************************************************************************)
\* A get that succeeds gives the body.
LEMMA AnswerBody ==
    ASSUME NEW body, NEW a \in Answers(body), Succeeded(a)
    PROVE  a.body = body
PROOF
<1>1. PICK r \in Results, c \in Codes :
        a = [result |-> r, code |-> c,
             body |-> IF r = "ok" /\ c = 200 THEN body ELSE Wrong]
  BY DEF Answers
<1> QED BY <1>1 DEF Succeeded

\* Whatever form of the path is fetched, a body is that of the file.
LEMMA FetchedFile ==
    ASSUME NEW p, NEW d, BuildDownloadPath(p, d, FALSE) # Bad,
           version \in DOMAIN Lengths,
           NEW a \in Fetches(p, d, BuildDownloadPath(p, d, FALSE)), Succeeded(a)
    PROVE  IsFile(a.body, BuildDownloadPath(p, d, FALSE))
PROOF
<1> DEFINE path == BuildDownloadPath(p, d, FALSE)
           other == BuildDownloadPath(p, d, TRUE)
<1>1. \/ a \in Answers(Body(path, version))
      \/ a \in Answers(Body(other, version)) /\ other # Bad
  BY DEF Fetches
<1>2. \/ a.body = Body(path, version)
      \/ a.body = Body(other, version) /\ other # Bad
  BY <1>1, AnswerBody
<1>3. other # Bad => Body(other, version) = Body(path, version)
  BY PathFacts
<1> QED BY <1>2, <1>3 DEF IsFile

\* After ensure_download what is kept is what was kept, or all of another
\* file; if all is well it is the file that was asked for.
LEMMA DownloadFacts ==
    ASSUME KeptInv, version \in DOMAIN Lengths,
           NEW c, c.packages \in {NoPackages} \cup Good,
           NEW kept \in EnsureDownload(c)
    PROVE  /\ kept.path = download_path => kept.data = download_data
           /\ kept.path # download_path =>
                kept.path \in Paths /\ IsFile(kept.data, kept.path)
           /\ kept.status = "OK" =>
                /\ kept.path \in Paths
                /\ Same(kept.path.id, request.id)
                /\ Same(kept.path.download, request.download)
PROOF
<1> DEFINE p == Find(Packages(c.packages), request.id)
           d == IF p = Bad THEN Bad ELSE Find(p.downloads, request.download)
           path == IF d = Bad THEN Bad ELSE BuildDownloadPath(p, d, FALSE)
           Keep(status) == [status |-> status, path |-> download_path,
                            data |-> download_data]
<1>1. \/ \E status : status # "OK" /\ kept = Keep(status)
      \/ path # Bad /\ path = download_path /\ kept = Keep("OK")
      \/ /\ path # Bad /\ path # download_path
         /\ \E a \in Fetches(p, d, path) :
              /\ Succeeded(a)
              /\ kept = [status |-> "OK", path |-> path, data |-> a.body]
  <2> HIDE DEF p
  <2>1. "NOT_FOUND" # "OK" /\ "INTERNAL_ERROR" # "OK"
    OBVIOUS
  <2>2. \A a : HttpErrorStatus(a) # "OK"
    BY DEF HttpErrorStatus
  <2> QED BY <2>1, <2>2 DEF EnsureDownload, p
<1>2. ASSUME path # Bad
      PROVE  /\ path \in Paths
             /\ Same(path.id, request.id)
             /\ Same(path.download, request.download)
  <2>1. p # Bad /\ d # Bad /\ d = Find(p.downloads, request.download)
        /\ path = BuildDownloadPath(p, d, FALSE)
    BY <1>2
  <2>2. PICK i \in DOMAIN Packages(c.packages) :
          p = Packages(c.packages)[i] /\ Same(p.id, request.id)
    BY <2>1, FindFacts, PackagesFacts
  <2>3. IsArray(p.downloads)
    BY <2>2, PackagesFacts
  <2> HIDE DEF p, d, path
  <2>4. Same(d.id, request.download)
    BY <2>1, <2>3, FindFacts
  <2>5. path \in Paths /\ path.id = p.id /\ path.download = d.id
    BY <1>2, <2>1, PathFacts
  <2> QED BY <2>2, <2>4, <2>5
<1>3. ASSUME path # Bad PROVE path = BuildDownloadPath(p, d, FALSE)
  BY <1>3
<1> HIDE DEF p, d, path
<1>4. CASE \E status : status # "OK" /\ kept = Keep(status)
  BY <1>4
<1>5. CASE path # Bad /\ path = download_path /\ kept = Keep("OK")
  BY <1>2, <1>5
<1>6. CASE /\ path # Bad /\ path # download_path
           /\ \E a \in Fetches(p, d, path) :
                /\ Succeeded(a)
                /\ kept = [status |-> "OK", path |-> path, data |-> a.body]
  <2>1. PICK a \in Fetches(p, d, path) :
          /\ Succeeded(a)
          /\ kept = [status |-> "OK", path |-> path, data |-> a.body]
    BY <1>6
  <2>2. IsFile(a.body, path)
    BY <1>3, <1>6, <2>1, FetchedFile
  <2> QED BY <1>2, <1>6, <2>1, <2>2
<1> QED BY <1>1, <1>4, <1>5, <1>6

\* A chunk is a piece of the data at its offset.
LEMMA ChunkFacts ==
    ASSUME NEW data, Len(data) \in Nat, request.offset \in Nat,
           request.maximum \in Nat, ~(request.offset > Len(data))
    PROVE  \E n \in Nat :
             /\ request.offset + n =< Len(data)
             /\ Chunk(data) = SubSeq(data, request.offset + 1,
                                     request.offset + n)
PROOF
<1> DEFINE offset == request.offset
           asked == IF request.maximum = 0 THEN DataMax ELSE request.maximum
           most == Min({DataMax, asked})
           stop == Min({offset + most, Len(data)})
           n == stop - offset
<1>1. DataMax \in Nat /\ asked \in Nat
  BY RetroAssumption
<1>2. offset \in Nat /\ Len(data) \in Nat /\ offset =< Len(data)
  OBVIOUS
<1>3. Chunk(data) = SubSeq(data, offset + 1, stop)
  BY DEF Chunk
<1> HIDE DEF offset, asked
<1>4. DataMax \in Int /\ asked \in Int
  BY <1>1
<1>5. most \in {DataMax, asked}
  BY <1>4, MinPair, Zenon
<1>6. most \in Nat
  BY <1>1, <1>5
<1> HIDE DEF most
<1>7. offset + most \in Int /\ Len(data) \in Int
  BY <1>2, <1>6
<1>8. stop \in {offset + most, Len(data)} /\ stop =< Len(data)
  BY <1>7, MinPair, Zenon
<1> HIDE DEF stop
<1>9. n \in Nat /\ offset + n =< Len(data) /\ offset + n = stop
  BY ONLY <1>2, <1>6, <1>8
<1> HIDE DEF n
<1> QED BY <1>3, <1>9 DEF offset

\* The beginning and the piece after it are a longer beginning.
LEMMA PieceJoins ==
    ASSUME NEW S, NEW d \in Seq(S), NEW k \in Nat, NEW n \in Nat,
           k + n =< Len(d)
    PROVE  /\ SubSeq(d, k + 1, k + n) \in Seq(S)
           /\ Len(SubSeq(d, 1, k)) = k
           /\ SubSeq(d, 1, k) \o SubSeq(d, k + 1, k + n) = SubSeq(d, 1, k + n)
PROOF
<1> DEFINE g == SubSeq(d, 1, k)
           c == SubSeq(d, k + 1, k + n)
           w == SubSeq(d, 1, k + n)
<1>1. /\ g \in Seq(S) /\ Len(g) = k
      /\ \A i \in 1..k : g[i] = d[i]
  OBVIOUS
<1>2. /\ c \in Seq(S) /\ Len(c) = n
      /\ \A i \in 1..n : c[i] = d[k + i]
  OBVIOUS
<1>3. /\ w \in Seq(S) /\ Len(w) = k + n
      /\ \A i \in 1..(k + n) : w[i] = d[i]
  OBVIOUS
<1> HIDE DEF g, c, w
<1>4. g \o c \in Seq(S) /\ Len(g \o c) = k + n
  <2>1. g \in Seq(S) /\ c \in Seq(S)
    BY <1>1, <1>2
  <2>2. g \o c \in Seq(S)
    BY ONLY <2>1
  <2>3. Len(g \o c) = Len(g) + Len(c)
    BY ONLY <2>1
  <2> QED BY <1>1, <1>2, <2>2, <2>3
<1>5. ASSUME NEW i \in 1..(k + n) PROVE (g \o c)[i] = w[i]
  <2>1. CASE i =< k
    <3>1. (g \o c)[i] = g[i]
      BY <1>1, <1>2, <2>1
    <3> QED BY <1>1, <1>3, <2>1, <3>1
  <2>2. CASE i > k
    <3>1. i - k \in 1..n
      BY <2>2
    <3>2. (g \o c)[i] = c[i - k]
      BY <1>1, <1>2, <2>2
    <3>3. c[i - k] = d[k + (i - k)]
      BY <1>2, <3>1
    <3>4. k + (i - k) = i
      OBVIOUS
    <3> QED BY <1>3, <3>2, <3>3, <3>4
  <2>3. i =< k \/ i > k
    OBVIOUS
  <2> QED BY <2>1, <2>2, <2>3
<1>6. g \o c = w
  BY ONLY <1>3, <1>4, <1>5
<1> QED BY <1>1, <1>2, <1>6 DEF g, c, w
-----------------------------------------------------------------------------
(***************************************************************************)
(* The invariant.                                                          *)
(***************************************************************************)
LEMMA InvInitially == Init => Inv
PROOF
<1> SUFFICES ASSUME Init PROVE Inv
  OBVIOUS
<1>1. /\ 1 \in DOMAIN Documents /\ 1 \in DOMAIN Lengths /\ Start \in Nat
  BY RetroAssumption
<1>2. CacheInv
  BY <1>1 DEF Init, CacheInv
<1>3. reply = None /\ request = None /\ awaited = FALSE
  BY DEF Init, CallInit
<1>4. Fresh
  BY <1>3 DEF Fresh
<1>5. CallInv
  BY <1>3 DEF CallInv, Init
<1>6. walk = None /\ walk.op # "download"
  BY DEF Init, None
<1>7. DownloadInv
  BY <1>3, <1>6 DEF DownloadInv, Init, KeptInv, ChunkInv, GoingInv,
     DownloadIntact, Finished
<1> QED BY <1>2, <1>4, <1>5, <1>7 DEF Inv

LEMMA CacheStep ==
    ASSUME CacheInv, [Next]_vars
    PROVE  CacheInv'
PROOF
<1>1. CASE UNCHANGED <<vault, api, clock, taken>>
  BY <1>1 DEF CacheInv, vault, api
<1>2. CASE \/ HandleBadRequest \/ HandleCapabilities \/ Begin \/ GoOn
           \/ AskAside \/ ProgramTakes \/ LinkLost \/ UNCHANGED vars
  BY <1>1, <1>2 DEF HandleBadRequest, HandleCapabilities, Begin, GoOn,
     AskAside, ProgramTakes, LinkLost, Left, vars
<1>3. CASE HandleList \/ HandleInfo \/ HandleDownload
  <2>1. PICK catalog \in EnsureCatalog : Adopt(catalog)
    BY <1>3 DEF HandleList, HandleInfo, HandleDownload
  <2>2. UNCHANGED <<clock, document, version>>
    BY <1>3 DEF HandleList, HandleInfo, HandleDownload, Left, api
  <2> QED BY <2>1, <2>2, CatalogFacts DEF CacheInv, Adopt
<1>4. CASE Restart
  BY <1>4 DEF Restart, CacheInv, api
<1>5. CASE Tick
  BY <1>5, RetroAssumption DEF Tick, CacheInv, api, vault
<1>6. CASE ApiChanges
  BY <1>6 DEF ApiChanges, CacheInv, vault
<1> QED BY <1>2, <1>3, <1>4, <1>5, <1>6 DEF Next, Handle

\* A page is answered from the catalogue ensure_catalog leaves.
LEMMA FreshStep ==
    ASSUME CacheInv, Fresh, [Next]_vars
    PROVE  Fresh'
PROOF
<1>1. CASE reply' = None
  BY <1>1 DEF Fresh
<1>2. CASE UNCHANGED reply
  BY <1>2 DEF Fresh
<1>3. CASE \/ Restart \/ Begin \/ GoOn \/ AskAside \/ ProgramTakes \/ LinkLost
           \/ Tick \/ ApiChanges \/ UNCHANGED vars
  BY <1>1, <1>2, <1>3 DEF Restart, Begin, GoOn, AskAside, ProgramTakes,
     LinkLost, Tick, ApiChanges, vars, callvars, Restarted, Call, Take, GiveUp
<1>4. ASSUME NEW status, status # "OK", RespondError(status) PROVE Fresh'
  BY <1>4 DEF Fresh, RespondError, Answer
<1>5. CASE HandleBadRequest
  <2>1. "BAD_REQUEST" # "OK"
    OBVIOUS
  <2> QED BY <1>4, <1>5, <2>1 DEF HandleBadRequest
<1>6. CASE HandleCapabilities
  BY <1>6 DEF HandleCapabilities, Answer, Fresh
<1>7. ASSUME NEW catalog \in EnsureCatalog, catalog.status = "OK",
             NEW page, RespondPage(page, catalog)
      PROVE  Fresh'
  <2>1. CASE page.status # "OK"
    BY <1>4, <1>7, <2>1 DEF RespondPage
  <2>2. CASE page.status = "OK"
    <3>1. catalog.failed \/ clock - catalog.taken < CacheSeconds
      BY <1>7, CatalogFacts
    <3> QED BY <1>7, <2>2, <3>1 DEF RespondPage, Answer, Fresh
  <2> QED BY <2>1, <2>2
<1>8. CASE HandleList
  BY <1>4, <1>7, <1>8 DEF HandleList
<1>9. CASE HandleInfo
  <2>1. "NOT_FOUND" # "OK"
    OBVIOUS
  <2> QED BY <1>4, <1>7, <1>9, <2>1 DEF HandleInfo
<1>10. CASE HandleDownload
  <2>1. \/ \E status : status # "OK" /\ RespondError(status)
        \/ \E response : response.op = "download" /\ Answer(response)
    BY <1>10 DEF HandleDownload
  <2>2. ASSUME NEW response, response.op = "download", Answer(response)
        PROVE  Fresh'
    BY <2>2 DEF Answer, Fresh
  <2> QED BY <1>4, <2>1, <2>2
<1> QED BY <1>3, <1>5, <1>6, <1>8, <1>9, <1>10 DEF Next, Handle

\* A reply is awaited, and the program's own request is its next chunk.
LEMMA CallStep ==
    ASSUME CallInv, [Next]_vars
    PROVE  CallInv'
PROOF
<1> USE DEF CallInv
<1>1. CASE Handle
  <2>1. \E response : Answer(response)
    BY <1>1 DEF Handle, HandleBadRequest, HandleCapabilities, HandleList,
       HandleInfo, HandleDownload, RespondError, RespondPage
  <2>2. UNCHANGED <<aside, state, walk>>
    BY <1>1 DEF Handle, HandleBadRequest, HandleCapabilities, HandleList,
       HandleInfo, HandleDownload, Left, program
  <2> QED BY <2>1, <2>2 DEF Answer
<1>2. CASE Restart
  BY <1>2 DEF Restart, Restarted
<1>3. CASE Begin
  BY <1>3 DEF Begin, callvars
<1>4. CASE GoOn
  BY <1>4 DEF GoOn, Call, Quiet, program, DownloadCall
<1>5. CASE AskAside
  BY <1>5 DEF AskAside, Call, Quiet
<1>6. CASE ProgramTakes
  BY <1>6 DEF ProgramTakes, Take
<1>7. CASE LinkLost
  BY <1>7 DEF LinkLost, GiveUp
<1>8. CASE Tick \/ ApiChanges \/ UNCHANGED vars
  <2>1. UNCHANGED <<request, reply, awaited, aside, walk, state, got>>
    BY <1>8 DEF Tick, ApiChanges, vars, callvars, program
  <2>2. DownloadCall' = DownloadCall
    BY <2>1 DEF DownloadCall
  <2> QED BY <2>1, <2>2
<1> QED BY <1>1, <1>2, <1>3, <1>4, <1>5, <1>6, <1>7, <1>8 DEF Next

\* A step that leaves the kept download and the program alone, and brings the
\* program no chunk.
LEMMA StillStep ==
    ASSUME DownloadInv,
           UNCHANGED <<download_path, download_data, others, walk, state, got,
                       total, view>>,
           awaited' /\ ~aside' /\ walk.op = "download" /\ reply' # None
             /\ reply'.status = "OK" => awaited /\ ~aside /\ reply' = reply
    PROVE  DownloadInv'
PROOF
<1>1. KeptInv'
  BY DEF DownloadInv, KeptInv
<1>2. ChunkInv'
  BY DEF DownloadInv, ChunkInv, Chosen, PieceAt
<1>3. GoingInv'
  BY DEF DownloadInv, GoingInv, Chosen, PieceAt
<1>4. DownloadIntact'
  BY DEF DownloadInv, DownloadIntact, Finished
<1> QED BY <1>1, <1>2, <1>3, <1>4 DEF DownloadInv

LEMMA StillSteps ==
    ASSUME CallInv, DownloadInv,
           \/ HandleBadRequest \/ HandleCapabilities \/ HandleList \/ HandleInfo
           \/ GoOn \/ AskAside \/ LinkLost \/ Tick \/ ApiChanges
           \/ UNCHANGED vars
    PROVE  DownloadInv'
PROOF
<1>1. UNCHANGED <<download_path, download_data, others, walk, state, got,
                  total, view>>
  BY DEF HandleBadRequest, HandleCapabilities, HandleList, HandleInfo, GoOn,
     AskAside, LinkLost, Tick, ApiChanges, vars, vault, Left, program
<1> DEFINE Chunked(r) == r # None /\ r.status = "OK"
           Mine == awaited /\ ~aside /\ walk.op = "download"
<1>2. CASE HandleBadRequest
  <2>1. ~Chunked(reply')
    BY <1>2 DEF HandleBadRequest, RespondError, Answer
  <2> QED BY <1>1, <2>1, StillStep
<1>3. CASE HandleCapabilities \/ HandleList \/ HandleInfo
  <2>1. request.op # "download" /\ request.op # "none"
    BY <1>3 DEF HandleCapabilities, HandleList, HandleInfo
  <2>2. request # None
    BY <2>1 DEF None
  <2>3. \E response : Answer(response)
    BY <1>3 DEF HandleCapabilities, HandleList, HandleInfo, RespondError,
       RespondPage
  <2>4. UNCHANGED <<aside, awaited>>
    BY <1>3, <2>3 DEF HandleCapabilities, HandleList, HandleInfo, Left, Answer
  <2>5. ~Mine
    BY <2>1, <2>2 DEF CallInv, DownloadCall
  <2> QED BY <1>1, <2>4, <2>5, StillStep
<1>4. CASE GoOn \/ AskAside \/ LinkLost
  <2>1. reply' = None
    BY <1>4 DEF GoOn, AskAside, LinkLost, Call, Quiet, GiveUp, CallInv
  <2> QED BY <1>1, <2>1, StillStep
<1>5. CASE Tick \/ ApiChanges \/ UNCHANGED vars
  <2>1. UNCHANGED <<awaited, aside, reply>>
    BY <1>5 DEF Tick, ApiChanges, vars, callvars
  <2> QED BY <1>1, <2>1, StillStep
<1> QED BY <1>2, <1>3, <1>4, <1>5

LEMMA RestartStep ==
    ASSUME DownloadInv, Restart
    PROVE  DownloadInv'
PROOF
<1>1. /\ download_path' = NoPath /\ download_data' = <<>>
      /\ others' = others + 1 /\ others \in Nat
      /\ awaited' = FALSE
      /\ UNCHANGED <<walk, state, got, total, view>>
  BY DEF Restart, Restarted, program, DownloadInv
<1>2. KeptInv' /\ ChunkInv'
  BY <1>1 DEF KeptInv, ChunkInv
<1>3. GoingInv'
  BY <1>1 DEF DownloadInv, GoingInv
<1>4. DownloadIntact'
  BY <1>1 DEF DownloadInv, DownloadIntact, Finished
<1> QED BY <1>1, <1>2, <1>3, <1>4 DEF DownloadInv

LEMMA BeginStep ==
    ASSUME CallInv, DownloadInv, Begin
    PROVE  DownloadInv'
PROOF
<1>1. /\ walk' \in Wanted /\ state' = "going" /\ got' = <<>>
      /\ view' = NoView /\ others' = 0
      /\ awaited' = awaited /\ ~awaited
      /\ UNCHANGED <<download_path, download_data>>
  BY RetroAssumption DEF Begin, vault, callvars
<1>2. KeptInv' /\ ChunkInv'
  BY <1>1 DEF DownloadInv, KeptInv, ChunkInv
<1>3. NoView \notin Nat
  BY CatalogAssumption DEF NoView
<1>4. GoingInv'
  BY <1>1, <1>3 DEF GoingInv
<1>5. DownloadIntact'
  BY <1>1 DEF DownloadIntact, Finished
<1> QED BY <1>1, <1>2, <1>4, <1>5 DEF DownloadInv

\* The handler of a download: the program's reply is a piece of what is kept
\* after it, and nothing is given up without others saying so.
LEMMA HandleDownloadStep ==
    ASSUME CacheInv, CallInv, DownloadInv, HandleDownload
    PROVE  DownloadInv'
PROOF
<1> DEFINE Outcome(kept) ==
             /\ download_path' = kept.path
             /\ download_data' = kept.data
             /\ others' = IF download_path \in {NoPath, kept.path}
                          THEN others ELSE others + 1
             /\ CASE kept.status # "OK" -> RespondError(kept.status)
                  [] kept.status = "OK" /\ request.offset > Len(kept.data) ->
                       RespondError("BAD_REQUEST")
                  [] OTHER ->
                       Answer([op |-> "download", status |-> "OK",
                               offset |-> request.offset,
                               total |-> Len(kept.data),
                               data |-> Chunk(kept.data), of |-> others'])
<1>0. PICK catalog \in EnsureCatalog :
        \E kept \in EnsureDownload(catalog) : Outcome(kept)
  BY DEF HandleDownload
<1>1. PICK kept \in EnsureDownload(catalog) : Outcome(kept)
  BY <1>0
<1>2. UNCHANGED <<walk, state, got, total, view, aside>>
  BY DEF HandleDownload, Left, program
<1>3. /\ kept.path = download_path => kept.data = download_data
      /\ kept.path # download_path =>
           kept.path \in Paths /\ IsFile(kept.data, kept.path)
      /\ kept.status = "OK" =>
           /\ kept.path \in Paths
           /\ Same(kept.path.id, request.id)
           /\ Same(kept.path.download, request.download)
  <2>1. KeptInv /\ version \in DOMAIN Lengths
    BY DEF CacheInv, DownloadInv
  <2>2. catalog.packages \in {NoPackages} \cup Good
    BY CatalogFacts
  <2> QED BY <2>1, <2>2, DownloadFacts
<1>4. others \in Nat /\ others' \in Nat
  BY <1>1 DEF DownloadInv
<1>5. KeptInv'
  BY <1>1, <1>3 DEF KeptInv, DownloadInv
<1>6. ChunkInv'
  <2> SUFFICES ASSUME awaited', ~aside', walk'.op = "download", reply' # None,
                      reply'.status = "OK"
               PROVE  /\ Chosen(download_path)'
                      /\ reply'.of = others'
                      /\ reply'.total = Len(download_data')
                      /\ PieceAt(reply.data, reply.offset)'
    BY DEF ChunkInv
  <2>1. \E response : Answer(response)
    BY <1>1 DEF RespondError
  <2>2. awaited /\ ~aside /\ walk.op = "download"
    BY <1>2, <2>1 DEF Answer
  <2>3. request # None
    BY DEF HandleDownload, None
  <2>4. request = DownloadCall
    BY <2>2, <2>3 DEF CallInv
  <2>5. /\ kept.status = "OK" /\ ~(request.offset > Len(kept.data))
        /\ reply' = [op |-> "download", status |-> "OK",
                     offset |-> request.offset, total |-> Len(kept.data),
                     data |-> Chunk(kept.data), of |-> others']
    <3>1. ASSUME NEW status, RespondError(status) PROVE status = "OK"
      BY <3>1 DEF RespondError, Answer
    <3>2. "BAD_REQUEST" # "OK"
      OBVIOUS
    <3> QED BY <1>1, <2>2, <3>1, <3>2 DEF Answer
  <2>6. walk.maximum \in Nat /\ Len(got) \in Nat
    <3>1. walk \in Wanted
      BY <2>2 DEF DownloadInv, None
    <3>2. got \in Seq(FileBytes)
      BY <2>2 DEF DownloadInv, GoingInv
    <3> QED BY <2>2, <3>1, <3>2 DEF Wanted
  <2>7. /\ request.offset \in Nat /\ request.maximum \in Nat
        /\ request.id = walk.id /\ request.download = walk.download
    BY <2>4, <2>6 DEF DownloadCall
  <2>8. kept.data \in Seq(FileBytes)
    <3>1. \/ kept.path = NoPath /\ kept.data = <<>>
          \/ kept.path \in Paths /\ IsFile(kept.data, kept.path)
      BY <1>1, <1>5 DEF KeptInv
    <3> QED BY <3>1, KeptType
  <2>9. Len(kept.data) \in Nat
    BY <2>8
  <2>10. PICK n \in Nat :
           /\ request.offset + n =< Len(kept.data)
           /\ Chunk(kept.data) = SubSeq(kept.data, request.offset + 1,
                                        request.offset + n)
    BY <2>5, <2>7, <2>9, ChunkFacts
  <2>11. Chosen(download_path)'
    BY <1>1, <1>2, <1>3, <2>5, <2>7 DEF Chosen
  <2>12. PieceAt(reply.data, reply.offset)'
    BY <1>1, <2>5, <2>7, <2>10 DEF PieceAt
  <2> QED BY <1>1, <2>5, <2>11, <2>12
<1>7. GoingInv'
  <2> SUFFICES ASSUME walk.op = "download"
               PROVE  GoingInv'
    BY <1>2 DEF GoingInv
  <2>1. /\ got \in Seq(FileBytes)
        /\ view \in Nat \cup {NoView, Mixed}
        /\ view = NoView => got = <<>> /\ state # "done"
        /\ view \in Nat => view =< others
        /\ view = others /\ state = "going" =>
             /\ Chosen(download_path)
             /\ total = Len(download_data)
             /\ PieceAt(got, 0)
    BY DEF DownloadInv, GoingInv
  <2>2. view \in Nat => view =< others'
    BY <1>1, <1>4, <2>1
  <2>3. ASSUME view = others', state = "going"
        PROVE  /\ UNCHANGED <<download_path, download_data>>
               /\ Chosen(download_path)
               /\ total = Len(download_data)
               /\ PieceAt(got, 0)
    <3>1. others' = others
      BY <1>1, <1>4, <2>1, <2>3
    <3>2. download_path \in {NoPath, kept.path}
      BY <1>1, <1>4, <3>1
    <3>3. /\ Chosen(download_path) /\ total = Len(download_data)
          /\ PieceAt(got, 0)
      BY <2>1, <2>3, <3>1
    <3>4. download_path # NoPath
      BY <3>3, NoPathIsNone DEF Chosen
    <3> QED BY <1>1, <1>3, <3>2, <3>3, <3>4
  <2> QED BY <1>2, <2>1, <2>2, <2>3 DEF GoingInv, Chosen, PieceAt
<1>8. DownloadIntact'
  BY <1>2 DEF DownloadInv, DownloadIntact, Finished
<1> QED BY <1>2, <1>4, <1>5, <1>6, <1>7, <1>8 DEF DownloadInv

\* All of a kept file is one version of one file of the API.
LEMMA WholeFile ==
    ASSUME NEW path \in Paths, NEW data, IsFile(data, path)
    PROVE  \E b \in {Body(a.path, a.version) : a \in Range(data)} \cup {<<>>} :
             data = b /\ \A i \in DOMAIN b : b[i].path = path
PROOF
<1>1. PICK v \in DOMAIN Lengths : data = Body(path, v)
  BY DEF IsFile
<1>2. /\ data \in Seq(FileBytes)
      /\ \A i \in DOMAIN data :
           data[i] = [path |-> path, version |-> v, at |-> i]
  BY <1>1, BodyFacts
<1>3. \A i \in DOMAIN data : data[i].path = path /\ data[i].version = v
  BY <1>2
<1>4. CASE data = <<>>
  BY <1>3, <1>4
<1>5. CASE data # <<>>
  <2>1. 1 \in DOMAIN data
    BY <1>2, <1>5
  <2>2. data[1] \in Range(data)
    BY <2>1 DEF Range
  <2>3. data = Body(data[1].path, data[1].version)
    BY <1>1, <1>3, <2>1
  <2> QED BY <1>3, <2>2, <2>3
<1> QED BY <1>4, <1>5

\* The program adds the piece to its beginning; a download of pieces of what
\* is kept that is as long is all of it.
LEMMA TakeChunkStep ==
    ASSUME CallInv, DownloadInv, ProgramTakes, TakeChunk,
           ~aside, reply.status = "OK", walk.op = "download"
    PROVE  GoingInv' /\ DownloadIntact' /\ state' \in {"going", "done", "failed"}
PROOF
<1>1. /\ UNCHANGED <<walk, download_path, download_data, others>>
      /\ reply # None /\ awaited /\ state = "going"
  BY DEF ProgramTakes, Take, vault, CallInv
<1>2. /\ Chosen(download_path)
      /\ reply.of = others
      /\ reply.total = Len(download_data)
      /\ PieceAt(reply.data, reply.offset)
  BY <1>1 DEF DownloadInv, ChunkInv
<1>3. /\ got \in Seq(FileBytes)
      /\ view \in Nat \cup {NoView, Mixed}
      /\ view = NoView => got = <<>>
      /\ view \in Nat => view =< others
      /\ view = others => PieceAt(got, 0)
  BY <1>1 DEF DownloadInv, GoingInv
<1>4. /\ others \in Nat /\ NoView \notin Nat /\ Mixed \notin Nat
      /\ NoView # Mixed
  BY CatalogAssumption DEF DownloadInv, NoView, Mixed
<1>5. download_path \in Paths /\ IsFile(download_data, download_path)
  BY <1>2, NoPathIsNone DEF Chosen, DownloadInv, KeptInv
<1>6. download_data \in Seq(FileBytes)
  BY <1>5, KeptType
<1>7. CASE state' = "failed" /\ UNCHANGED <<got, cursor, total, view>>
  <2>1. GoingInv'
    BY <1>1, <1>3, <1>7 DEF GoingInv
  <2>2. DownloadIntact'
    BY <1>7 DEF DownloadIntact, Finished
  <2> QED BY <1>7, <2>1, <2>2
<1>8. CASE /\ reply.offset = Len(got)
           /\ got' = got \o reply.data
           /\ total' = reply.total
           /\ state' = IF Len(got') = total' THEN "done" ELSE "going"
           /\ view' = Seen
  <2>1. PICK n \in Nat :
          /\ Len(got) + n =< Len(download_data)
          /\ reply.data = SubSeq(download_data, Len(got) + 1, Len(got) + n)
    BY <1>2, <1>8 DEF PieceAt
  <2>2. Len(got) \in Nat
    BY <1>3
  <2>3. reply.data \in Seq(FileBytes)
    BY <1>6, <2>1, <2>2, PieceJoins
  <2>4. got' \in Seq(FileBytes)
    BY <1>3, <1>8, <2>3
  <2>5. /\ view' \in {others, Mixed}
        /\ view' = others => view \in {NoView, others}
    BY <1>2, <1>4, <1>8 DEF Seen
  <2>6. ASSUME view' = others
        PROVE  /\ PieceAt(got, 0)'
               /\ Len(got') = Len(download_data) => got' = download_data
    <3>1. got = SubSeq(download_data, 1, Len(got))
      <4>1. CASE view = NoView
        BY <1>3, <1>6, <4>1
      <4>2. CASE view = others
        <5>1. PICK m \in Nat : /\ m =< Len(download_data)
                               /\ got = SubSeq(download_data, 1, m)
          BY <1>3, <4>2 DEF PieceAt
        <5>2. Len(got) = m
          BY <1>6, <5>1
        <5> QED BY <5>1, <5>2
      <4> QED BY <2>5, <2>6, <4>1, <4>2
    <3>2. got' = SubSeq(download_data, 1, Len(got) + n)
      <4> DEFINE k == Len(got)
      <4>1. k \in Nat /\ k + n =< Len(download_data)
        BY <2>1, <2>2
      <4>2. /\ got = SubSeq(download_data, 1, k)
            /\ reply.data = SubSeq(download_data, k + 1, k + n)
        BY <2>1, <3>1
      <4> HIDE DEF k
      <4>3. SubSeq(download_data, 1, k) \o SubSeq(download_data, k + 1, k + n)
              = SubSeq(download_data, 1, k + n)
        BY <1>6, <4>1, PieceJoins
      <4> QED BY <1>8, <4>2, <4>3 DEF k
    <3>3. Len(got) + n \in Nat
      BY <2>2
    <3>4. PieceAt(got, 0)'
      BY <1>1, <2>1, <3>2, <3>3 DEF PieceAt
    <3>5. ASSUME Len(got') = Len(download_data) PROVE got' = download_data
      <4>1. Len(got') = Len(got) + n
        BY <1>6, <2>1, <2>2, <3>2, <3>3
      <4>2. got' = SubSeq(download_data, 1, Len(download_data))
        BY <3>2, <3>5, <4>1
      <4> QED BY <1>6, <4>2
    <3> QED BY <3>4, <3>5
  <2>7. GoingInv'
    <3>1. Chosen(download_path)' /\ total' = Len(download_data')
      BY <1>1, <1>2, <1>8 DEF Chosen
    <3> QED BY <1>1, <1>4, <2>4, <2>5, <2>6, <3>1 DEF GoingInv
  <2>8. DownloadIntact'
    <3> SUFFICES ASSUME Finished("download")'
                 PROVE  \E b \in {Body(a.path, a.version) : a \in Range(got')}
                                   \cup {<<>>} :
                          /\ got' = b
                          /\ \A i \in DOMAIN b :
                               /\ Same(b[i].path.id, walk'.id)
                               /\ Same(b[i].path.download, walk'.download)
      BY DEF DownloadIntact
    <3>1. view' = others /\ Len(got') = Len(download_data)
      BY <1>2, <1>8, <2>5 DEF Finished
    <3>2. got' = download_data
      BY <2>6, <3>1
    <3>3. PICK b \in {Body(a.path, a.version) : a \in Range(got')}
                       \cup {<<>>} :
            got' = b /\ \A i \in DOMAIN b : b[i].path = download_path
      BY <1>5, <3>2, WholeFile
    <3> QED BY <1>1, <1>2, <3>3 DEF Chosen
  <2> QED BY <1>8, <2>7, <2>8
<1> QED BY <1>7, <1>8 DEF TakeChunk

LEMMA ProgramTakesStep ==
    ASSUME CallInv, DownloadInv, ProgramTakes
    PROVE  DownloadInv'
PROOF
<1>1. /\ UNCHANGED <<walk, download_path, download_data, others>>
      /\ awaited' = FALSE
  BY DEF ProgramTakes, Take, vault
<1>2. KeptInv' /\ ChunkInv'
  BY <1>1 DEF DownloadInv, KeptInv, ChunkInv
<1>3. GoingInv' /\ DownloadIntact'
      /\ state' \in {"idle", "going", "done", "failed"}
  <2>1. CASE aside
    <3>1. UNCHANGED <<state, got, total, view>>
      BY <2>1 DEF ProgramTakes, program
    <3>2. GoingInv'
      BY <1>1, <3>1 DEF DownloadInv, GoingInv, Chosen, PieceAt
    <3>3. DownloadIntact'
      BY <1>1, <3>1 DEF DownloadInv, DownloadIntact, Finished
    <3> QED BY <3>1, <3>2, <3>3 DEF DownloadInv
  <2>2. CASE ~aside /\ reply.status # "OK"
    <3>1. state' = "failed" /\ UNCHANGED <<got, total, view>>
      BY <2>2 DEF ProgramTakes
    <3>2. GoingInv'
      BY <1>1, <3>1 DEF DownloadInv, GoingInv
    <3>3. DownloadIntact'
      BY <3>1 DEF DownloadIntact, Finished
    <3> QED BY <3>1, <3>2, <3>3
  <2>3. CASE ~aside /\ reply.status = "OK" /\ walk.op = "download"
    <3>1. TakeChunk
      BY <2>3 DEF ProgramTakes
    <3> QED BY <2>3, <3>1, TakeChunkStep
  <2>4. CASE ~aside /\ reply.status = "OK" /\ walk.op # "download"
    <3>1. state' \in {"done", "going"}
      BY <2>4 DEF ProgramTakes, TakePage
    <3>2. GoingInv' /\ DownloadIntact'
      BY <1>1, <2>4 DEF GoingInv, DownloadIntact, Finished
    <3> QED BY <3>1, <3>2
  <2> QED BY <2>1, <2>2, <2>3, <2>4
<1> QED BY <1>1, <1>2, <1>3 DEF DownloadInv

LEMMA InvStep ==
    ASSUME Inv, [Next]_vars
    PROVE  Inv'
PROOF
<1>1. CacheInv' /\ Fresh' /\ CallInv'
  BY CacheStep, FreshStep, CallStep DEF Inv
<1>2. CacheInv /\ CallInv /\ DownloadInv
  BY DEF Inv
<1>3. DownloadInv'
  <2>1. CASE HandleDownload
    BY <1>2, <2>1, HandleDownloadStep
  <2>2. CASE Restart
    BY <1>2, <2>2, RestartStep
  <2>3. CASE Begin
    BY <1>2, <2>3, BeginStep
  <2>4. CASE ProgramTakes
    BY <1>2, <2>4, ProgramTakesStep
  <2>5. CASE \/ HandleBadRequest \/ HandleCapabilities \/ HandleList
             \/ HandleInfo \/ GoOn \/ AskAside \/ LinkLost \/ Tick
             \/ ApiChanges \/ UNCHANGED vars
    BY <1>2, <2>5, StillSteps
  <2> QED BY <2>1, <2>2, <2>3, <2>4, <2>5 DEF Next, Handle
<1> QED BY <1>1, <1>3 DEF Inv
-----------------------------------------------------------------------------
\* The inductive invariant of the plugin and the program: the catalogue and
\* the time it was fetched, the kept download and its path, and the chunks on
\* their way and got belong together in every state.
THEOREM VaultInvariant == Spec => []Inv
PROOF
<1>1. Init => Inv
  BY InvInitially
<1>2. Inv /\ [Next]_vars => Inv'
  BY InvStep
<1> QED BY <1>1, <1>2, PTL DEF Spec

\* A list page or an info page is of a catalogue fetched less than
\* CacheSeconds ago, or the refresh of this very request failed: neither a
\* clock that fails nor a failed refresh makes ensure_catalog take an old
\* catalogue for a fresh one.
THEOREM NeverStale == Spec => []Fresh
PROOF
<1>1. Inv => Fresh
  BY DEF Inv
<1> QED BY <1>1, VaultInvariant, PTL

\* A download put together from chunks of one kept file is one version of the
\* file the program chose, whole and in order, whatever the API serves
\* meanwhile, whatever requests come between, and although chunks are lost and
\* asked for again and the plugin is restarted.
THEOREM DownloadsExact == Spec => []DownloadIntact
PROOF
<1>1. Inv => DownloadIntact
  BY DEF Inv, DownloadInv
<1> QED BY <1>1, VaultInvariant, PTL
=============================================================================
