---------------------------- MODULE MCRetroVault ----------------------------
(***************************************************************************)
(* A small catalogue with the awkward cases: an identifier two packages    *)
(* share but for its case, one that fits in no entry, a name and a         *)
(* description longer than a page, characters of several bytes, and        *)
(* documents that are empty, malformed or one package too long.            *)
(***************************************************************************)
EXTENDS RetroVault

Short == {"a", "A", "tap", "disk", "idp", "zxs", "gdp", "n", "v", "TAP", "game",
          "iskra-delta-partner", "Great", "Poor", "p1", "p2", "p3", "p4",
          "p5", "p6", "p7", "p8", "p9", "p10", "p11", "p12", "p13"}

\* The sizes are not the spelling's: what matters is which ones fit.
EndsOf ==
    [t \in Short \cup {"", "huge", "long", "label"} |->
       CASE t \in Short -> {0, 1}
         [] t = "" -> {0}
         [] t = "huge" -> {0, 14}
         [] t = "long" -> {0, 2, 5, 8, 11}
         [] t = "label" -> {0, 2, 4}]

LowerOf == [t \in DOMAIN EndsOf |-> CASE t = "A" -> "a" [] t = "TAP" -> "tap"
                                      [] OTHER -> t]
WordsOf == [t \in DOMAIN EndsOf |-> {LowerOf[t]} \ {""}]
Safe == DOMAIN EndsOf \ {""}

Plain(id) ==
    [id |-> id, name |-> "n", vendor |-> Null, platform |-> "zxs",
     platform_name |-> Null, model |-> Null, model_name |-> Null,
     version |-> "v",
     description |-> Null, rating |-> "Poor", year |-> Null,
     downloads |-> Null]

Tape == [id |-> "tap", label |-> "label", format |-> "TAP",
         files |-> <<3, 17, Null>>]
Disk == [id |-> "disk", label |-> "n", format |-> "v", files |-> <<1, 2>>]

Partner ==
    [Plain("A") EXCEPT !.name = "long", !.platform = "idp", !.model = "gdp",
                       !.description = "long", !.rating = "Great", !.year = 9,
                       !.downloads = <<Tape, Disk>>]
Spectrum == [Plain("a") EXCEPT !.description = "game",
                               !.downloads = <<Tape, Disk>>]

First == <<Partner, Plain("huge"), Spectrum, Plain("p1")>>
Second == <<Spectrum, Partner>>
TooMany == [i \in 1..13 |-> Plain(<<"p1", "p2", "p3", "p4", "p5", "p6", "p7",
                                    "p8", "p9", "p10", "p11", "p12",
                                    "p13">>[i])]
Spoiled == <<Partner, [Plain("p2") EXCEPT !.downloads = <<[Disk EXCEPT
                                                       !.label = Wrong]>>]>>
SomeDocuments == <<First, Second, TooMany, Spoiled, <<>>>>

All == [platform |-> "", model |-> "", query |-> ""]
Listing(f) == [op |-> "list", filter |-> f]
Getting(id, d, n) == [op |-> "download", id |-> id, download |-> d,
                      maximum |-> n]

SomeWalks ==
    {Listing(All), Listing([platform |-> "iskra-delta-partner",
                             model |-> "gdp", query |-> "long"]),
     [op |-> "info", id |-> "A"],
     Getting("a", "TAP", 0), Getting("a", "disk", 1)}

SomeOthers ==
    {[op |-> "malformed"], [op |-> "capabilities"],
     Getting("a", "disk", 0) @@ [offset |-> 4]}

FileLengths == <<3, 3, 2>>
=============================================================================
