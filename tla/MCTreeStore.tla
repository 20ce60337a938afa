----------------------------- MODULE MCTreeStore -----------------------------
(***************************************************************************)
(* The tree of MCResourceTree and the store it stands for.                 *)
(***************************************************************************)
EXTENDS MCResourceTree, TreeStore
=============================================================================
