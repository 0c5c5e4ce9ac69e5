------------------------------ MODULE StableSort ------------------------------
(* Sort<T>: the stable merge sort that works in units of one comparison or *)
(* one swap.  It sorts an array of indices bottom-up between two buffers,  *)
(* inverts the result, and moves the records along the cycles of the       *)
(* permutation.  Indices count from 0 as in the code; a sequence holds     *)
(* item i at i + 1.  A record is a pair of a key and its place in the      *)
(* input.                                                                  *)
EXTENDS TreeEntries

CONSTANTS Key, MaxInput

VARIABLE sort

Inputs == UNION {[1..n -> Key] : n \in 0..MaxInput}

Init ==
    \E keys \in Inputs :
      sort = [phase |-> "indexing", input |-> keys,
              values |-> [i \in DOMAIN keys |-> <<keys[i], i>>],
              source |-> <<>>, target |-> <<>>, inOrder |-> TRUE,
              width |-> 1, start |-> 0, left |-> 0, right |-> 0, middle |-> 0, end |-> 0,
              output |-> 0, position |-> 0]

Count == Len(sort.values)
KeyAt(i) == sort.values[i + 1][1]
Lesser(x, y) == IF x < y THEN x ELSE y

\* Adjacent records out of order are noticed while the indices are filled; input in
\* order needs no merging.
Indexing ==
    /\ sort.phase = "indexing"
    /\ LET i == Len(sort.source) IN
       sort' = IF i < Count
                 THEN [sort EXCEPT !.source = Append(@, i), !.target = Append(@, 0),
                                   !.inOrder = @ /\ (i > 0 => KeyAt(i - 1) <= KeyAt(i))]
                 ELSE [sort EXCEPT !.phase = IF sort.inOrder THEN "ready" ELSE "merging"]

\* The next pair of runs, or the buffers swapped and runs twice as long.
NextRun ==
    /\ sort.phase = "merging" /\ sort.output = sort.end
    /\ sort' = IF sort.width >= Count THEN [sort EXCEPT !.phase = "inverting"]
               ELSE IF sort.start = Count
                 THEN [sort EXCEPT !.source = sort.target, !.target = sort.source,
                                   !.width = 2 * @, !.start = 0, !.output = 0, !.end = 0]
               ELSE LET middle == Lesser(sort.start + sort.width, Count)
                        end == Lesser(sort.start + 2 * sort.width, Count)
                    IN  [sort EXCEPT !.left = sort.start, !.middle = middle, !.right = middle,
                                     !.end = end, !.output = sort.start, !.start = end]

\* Mutant: at equal keys the right run goes first.
BugMergeIndex ==
    /\ sort.phase = "merging" /\ sort.output < sort.end
    /\ LET fromLeft == \/ sort.right = sort.end
                       \/ /\ sort.left < sort.middle
                          /\ KeyAt(sort.source[sort.left + 1]) < KeyAt(sort.source[sort.right + 1])
           from == IF fromLeft THEN sort.left ELSE sort.right
       IN  sort' = [sort EXCEPT !.target[sort.output + 1] = sort.source[from + 1],
                                !.left = IF fromLeft THEN @ + 1 ELSE @,
                                !.right = IF fromLeft THEN @ ELSE @ + 1,
                                !.output = @ + 1]

\* One index moves; at equal keys the left run goes first.
MergeIndex ==
    /\ sort.phase = "merging" /\ sort.output < sort.end
    /\ LET fromLeft == \/ sort.right = sort.end
                       \/ /\ sort.left < sort.middle
                          /\ KeyAt(sort.source[sort.left + 1]) <= KeyAt(sort.source[sort.right + 1])
           from == IF fromLeft THEN sort.left ELSE sort.right
       IN  sort' = [sort EXCEPT !.target[sort.output + 1] = sort.source[from + 1],
                                !.left = IF fromLeft THEN @ + 1 ELSE @,
                                !.right = IF fromLeft THEN @ ELSE @ + 1,
                                !.output = @ + 1]

Inverting ==
    /\ sort.phase = "inverting"
    /\ sort' = IF sort.position < Count
                 THEN [sort EXCEPT !.target[sort.source[sort.position + 1] + 1] = sort.position,
                                   !.position = @ + 1]
                 ELSE [sort EXCEPT !.phase = "permuting", !.position = 0]

Swapped(seq, i, j) == [seq EXCEPT ![i + 1] = seq[j + 1], ![j + 1] = seq[i + 1]]

\* A record moves to its final place together with its destination.
Permuting ==
    /\ sort.phase = "permuting"
    /\ LET p == sort.position
           to == sort.target[p + 1]
       IN  sort' = IF p = Count THEN [sort EXCEPT !.phase = "ready"]
                   ELSE IF to = p THEN [sort EXCEPT !.position = p + 1]
                   ELSE [sort EXCEPT !.values = Swapped(@, p, to),
                                     !.target = Swapped(@, p, to)]

Next == Indexing \/ NextRun \/ MergeIndex \/ Inverting \/ Permuting

Spec == Init /\ [][Next]_sort /\ WF_sort(Next)

\* The array a finished sort hands over is the input in key order, equal keys in input
\* order, nothing lost or doubled on the way through the two index buffers.
SortIsStable ==
    sort.phase = "ready" =>
      sort.values = StablySorted([i \in DOMAIN sort.input |-> <<sort.input[i], i>>],
                                 LAMBDA record : record[1])
==============================================================================
