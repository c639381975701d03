----------------------------- MODULE StorageTree -----------------------------
(***************************************************************************)
(* What a contract's storage promises: it is one value of the contract's   *)
(* type, and a write replaces the part it names and nothing else.          *)
(*                                                                         *)
(* psy-std/storage.psy and the generated accessors are to keep that        *)
(* promise with a row of slots; StorageLayout shows that they do.          *)
(***************************************************************************)
EXTENDS StorageTypes

VARIABLES tree,     \* the contract's state, a value
          last      \* the latest write: <<path, value>>, or <<>>

treeVars == <<tree, last>>

TreeInit == last = <<>>

Assign == last' # last /\ tree' = WithPart(tree, last'[1], last'[2])

TreeSpec == TreeInit /\ [][Assign]_treeVars
=============================================================================
