--------------------------- MODULE MCRootAuthority ---------------------------
(***************************************************************************)
(* The two halves of the server's root authority, each checked on its own: *)
(* the head on the disk (RootHead) and the handlers that change the root   *)
(* (RootServer).  `part` is the half a behaviour belongs to; the other one *)
(* stays where it starts.                                                  *)
(***************************************************************************)
EXTENDS RootHead, RootServer, TLC

VARIABLE part

\* Two files of one directory.
OneDirectory == [p \in Path |-> "notes"]

ASSUME RootServerAssumption

RunInit == part \in {"head", "handlers"} /\ Init /\ HandlersInit

RunNext ==
    /\ UNCHANGED part
    /\ \/ part = "head" /\ Next /\ UNCHANGED handlerVars
       \/ part = "handlers" /\ HandlersNext /\ UNCHANGED vars

RunSpec == RunInit /\ [][RunNext]_<<part, vars, handlerVars>>

Symmetry == Permutations(Device) \cup Permutations(Root) \cup Permutations(Client)
                \cup Permutations(Slot) \cup Permutations(Hash) \cup Permutations(Path)
=============================================================================
