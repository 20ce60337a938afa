---------------------------- MODULE MCResourceTree ----------------------------
(***************************************************************************)
(* A small tree, with more agent names than agent slots.                   *)
(***************************************************************************)
EXTENDS ResourceTree

Uri(r, p) == [root |-> r, path |-> p]

NoNames == <<>>

(* A folder with up to two agents in it, beside a plain agent.             *)
FolderUris ==
  {Uri("A", <<"f">>), Uri("A", <<"f", "x">>), Uri("A", <<"f", "y">>), Uri("A", <<"f", "x", "z">>), Uri("A", <<"g">>)}
FolderCapacity == [r \in Roots |-> IF r = "A" THEN 3 ELSE 0]
=============================================================================
