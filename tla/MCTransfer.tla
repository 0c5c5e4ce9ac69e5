----------------------------- MODULE MCTransfer -----------------------------
(***************************************************************************)
(* The two directions of content, on small instances: preparing a root of  *)
(* the local changes (Push) and applying the server's root to the vault    *)
(* (Pull).  `part` is the direction of a behaviour; the other one stays    *)
(* where it starts.                                                        *)
(***************************************************************************)
EXTENDS Push, Pull, TLC

CONSTANT Parts     \* the directions of a run

VARIABLE part

(* A chain of renames z -> a -> b (the large b and the note a may be edited)   *)
(* and a note n that shares the first content of a.                           *)
MCOrder == <<"b", "a", "n", "z">>
MCContent == ("a" :> <<"h1", "h2">>) @@ ("b" :> <<"L", "K">>) @@ ("n" :> <<"h1">>) @@ ("z" :> <<"none">>)
MCHinted == {"a", "n"}
MCChunks == ("L" :> {"c1", "c2"}) @@ ("K" :> {"c2", "c3"})
MCNeed == ("h1" :> 1) @@ ("h2" :> 1) @@ ("L" :> 2) @@ ("K" :> 2)
MCLinks == {{"a", "b", "z"}}
\* A single rename z -> b.
MCPair == {{"b", "z"}}
MCCapacities == {1, 2}

(* Four roots: from the first to the second file 1 is edited and file 2        *)
(* becomes 3; to the third file 1 gets a new time and file 2 becomes 4; to the *)
(* fourth file 2 is deleted.  Versions 1 and 3 have the same content.         *)
First == <<1, 2, 0, 0>>
Second == <<4, 0, 2, 0>>
Third == <<3, 0, 0, 2>>
Fourth == <<3, 0, 0, 0>>

MCRoots == {First, Second, Third, Fourth}
MCStarts == {NoRoot, First, Third}
MCContentOf == <<"h1", "h2", "h1", "h3">>

RunInit ==
    /\ part \in Parts /\ Init /\ PullInit
    /\ part = "push" => head = First /\ paged /\ mem.treeBase = NoRoot
    /\ part = "pull" => ~base

RunNext ==
    /\ UNCHANGED part
    /\ \/ part = "push" /\ Next /\ UNCHANGED pullVars
       \/ part = "pull" /\ PullNext /\ UNCHANGED vars

RunSpec == RunInit /\ [][RunNext]_<<part, vars, pullVars>>
=============================================================================
