---- MODULE MCFileManager ----
(* The file manager for TLC: a folder that holds a folder and a link back to itself, *)
(* the two with names that compare equal, and a file in the inner folder.            *)
EXTENDS FileManager, TLC

CONSTANTS a, b, f, l

SmallTree == (a :> Root) @@ (b :> a) @@ (f :> b) @@ (l :> a)
ByName == (a :> 1) @@ (b :> 2) @@ (f :> 3) @@ (l :> 2)
ToA == l :> <<a>>
InA == <<a>>
====
