---------------------------- MODULE MCWorkspace ----------------------------
(* A workspace with a directory that holds a file and a link to the root, an  *)
(* ignored directory that holds one, a file, an ignored file, and a link that  *)
(* leaves: discovery meets two files, one of them twice, and a search three.   *)
EXTENDS Workspace

CONSTANTS src, dist, a, b, c, loop, back, out, j1, j2

MCParent == (src :> Root) @@ (dist :> Root) @@ (a :> src) @@ (b :> Root)
            @@ (c :> Root) @@ (loop :> src) @@ (back :> dist) @@ (out :> Root)
MCTarget == (loop :> Root) @@ (back :> Root) @@ (out :> Outside)
MCRank == (a :> 1) @@ (b :> 2) @@ (c :> 3) @@ (dist :> 4) @@ (loop :> 5)
          @@ (out :> 6) @@ (back :> 7) @@ (src :> 8)

Symmetry == Permutations(Jobs)
=============================================================================
