------------------------------ MODULE MCMovePath ------------------------------
(* MovePath over two names and paths of up to three of them.                  *)
EXTENDS MovePath, TLC

Names == {"a", "b"}
MCPaths == SeqOf(Names, 3) \ {<<>>}

\* A file, a directory with a file in it, and an empty directory or nothing.
Tree(f) == [p \in MCPaths |-> IF p \in DOMAIN f THEN f[p] ELSE None]
MCTrees == {Tree(<<"a">> :> 1 @@ <<"b">> :> Dir @@ <<"b", "a">> :> 2),
            Tree(<<"a">> :> Dir @@ <<"a", "b">> :> 1 @@ <<"b">> :> 2),
            Tree(<<"a">> :> Dir @@ <<"a", "a">> :> 1 @@ <<"b">> :> Dir)}

Ends == SeqOf(Names, 2) \ {<<>>}
\* Copying a directory into itself is left out.
MCAsk == {a \in [op : {"move", "rename", "copy"}, src : Ends, dst : Ends, overwrite : BOOLEAN] :
              a.op = "copy" => ~Inside(a.src, a.dst)}
Symmetry == Permutations(Requests)
===============================================================================
