--------------------------------- MODULE MCNvram ---------------------------------
EXTENDS Nvram, TLC

CONSTANTS p1, p2, f1, f2, f3, v1, huge

Symmetry == Permutations({p1, p2}) \cup Permutations({f1, f2, f3})

Names == <<"a", "b", "c", "d">>
First == [n \in {"a", "b", "c", "d"} |-> IF n \in {"a","b"} THEN v1 ELSE Absent]

Read == [write |-> FALSE, edits |-> <<>>, commit |-> FALSE]
Write(edits, commit) == [write |-> TRUE, edits |-> edits, commit |-> commit]

\* "b", "c" and "d" fill the image; with "a" there already, "d" does not fit
Commands ==
  {Read,
   [Read EXCEPT !.commit = TRUE],
   Write([n \in {"a"} |-> Absent], FALSE),
   Write([n \in {"a"} |-> huge], FALSE),
   Write([n \in {"c", "d"} |-> v1], TRUE)}

\* once all three kinds of trouble have happened nothing is claimed any more but that
\* the partition is not short, and the search ends
SomethingClaimed == trouble # {"update", "variable", "end"}

==================================================================================
