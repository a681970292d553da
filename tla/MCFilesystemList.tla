------------------------- MODULE MCFilesystemList --------------------------
(***************************************************************************)
(* Directories for model-checking the paged listing.                       *)
(***************************************************************************)
EXTENDS FilesystemList, TLC

CONSTANTS a, b, c, huge

\* Records of different sizes; one fits in no page.
Sizes == (a :> 1) @@ (b :> 2) @@ (c :> 3) @@ (huge :> 9)

\* Directories whose pages end in every way.
Small == {<<>>, <<c, b, a>>, <<b, huge>>, <<b, a, b, a, c>>}
Ordinary == {<<>>, <<a, huge>>, <<a, b, c>>}
=============================================================================
