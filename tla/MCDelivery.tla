----------------------------- MODULE MCDelivery -----------------------------
(***************************************************************************)
(* An edit reaches the server, on small instances: the publication of one  *)
(* root at a time by durable intents (RootSync), and the preparation of a  *)
(* root from the dirty paths (Push).  `part` is the one a behaviour        *)
(* belongs to; the other stays where it starts.                            *)
(***************************************************************************)
EXTENDS RootSync

VARIABLES
    part,
    disk, live, pending, links, cooled, tree, rooted, objects, confirmed, capacity, step,
    sel, claim, queue, splits, batch, ready, needed, done, deferred, decided, urgents,
    held, cont, look, hints, cand, published, misses, losses, resizes

push ==
    <<disk, live, pending, links, cooled, tree, rooted, objects, confirmed, capacity, step,
      sel, claim, queue, splits, batch, ready, needed, done, deferred, decided, urgents,
      held, cont, look, hints, cand, published, misses, losses, resizes>>
all == <<part, vars, push>>

Paths == {"a", "b", "n", "z"}

\* A chain of renames z -> a -> b (the note a may be edited, b is large) and a note
\* n that shares the first content of a.
Pushing == INSTANCE Push WITH
    base <- rooted, pc <- step, faults <- misses,
    Order <- <<"b", "a", "n", "z">>,
    Content <- [p \in Paths |-> CASE p = "a" -> <<"h1", "h2">>
                                  [] p = "b" -> <<"L">>
                                  [] p = "n" -> <<"h1">>
                                  [] p = "z" -> <<"none">>],
    Hinted <- {"a", "n"},
    Chunks <- [h \in {"L"} |-> {"c1", "c2"}],
    Need <- [h \in {"h1", "h2", "L"} |-> IF h = "L" THEN 2 ELSE 1],
    Links <- {{"a", "b", "z"}},
    MaxFiles <- 2, Boundary <- 1, Capacities <- {1, 2}, MaxConfirmed <- 3,
    MaxFaults <- 1, MaxLosses <- 1, MaxResizes <- 1, MaxDisturbances <- 3, MaxUrgent <- 0

RunInit ==
    /\ part \in {"publish", "push"} /\ Init /\ Pushing!Init
    /\ part = "publish" => ~rooted

OfPublish(A) == part = "publish" /\ A /\ UNCHANGED <<part, push>>
OfPush(A) == part = "push" /\ A /\ UNCHANGED <<part, vars>>

RunNext == OfPublish(Next) \/ OfPush(Pushing!Next)

(* The fairness of RootSync and of Push.  A behaviour has one part only, so    *)
(* one condition speaks for an action of each.                                *)
RunFairness ==
    /\ WF_all(OfPublish(DeviceStep) \/ OfPush(Pushing!Progress))
    /\ WF_all(OfPublish(Served))

RunSpec == RunInit /\ [][RunNext]_all /\ RunFairness

\* Once edits, faults, losses and ceilings settle, pushes drain everything but what
\* a cooled source holds (Push, Drains).
Drains == part = "push" => Pushing!Drains
=============================================================================
