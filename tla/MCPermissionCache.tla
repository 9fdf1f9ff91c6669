------------------------- MODULE MCPermissionCache -------------------------
(* PermissionCache with the root, one directory in it, and a rule for each.  *)
EXTENDS PermissionCache
CONSTANTS r1

Top == <<>>
Mid == <<"a">>

MCPaths == {Top, Mid}
MCListings == {<<Top, Mid>>}

Rule(paths, ok, n) == [role |-> r1, covers |-> paths, allow |-> ok, rank |-> n]
MCRules == {Rule({Top}, TRUE, 1), Rule({Mid}, FALSE, 2)}
=============================================================================
