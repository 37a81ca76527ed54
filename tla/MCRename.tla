------------------------------ MODULE MCRename ------------------------------
(* Rename on a small instance: a file of the workspace and two outside it  *)
(* that have the same name.                                                *)
EXTENDS Rename

FileSet == {"inside", "outside1", "outside2"}
SlotSet == {"inside", "name"}
Paths == [f \in FileSet |-> IF f = "inside" THEN "inside" ELSE "name"]
MissingSet == {"outside1"}
EditSet == {{"inside", "outside1"}, {"outside1", "outside2"}}

(* An empty line, one that ends the text, and none, and line ends of each  *)
(* kind; a removal, a word and a new text of two lines.                    *)
TextSet == {<< >>, <<"a", "b">>, <<"a", NL, NL, "b">>, <<"a", "b", NL, "c", NL>>}
             \cup {<<"a", end, "b", "c">> : end \in LineEnds}
NewTextSet == {<< >>, <<"x">>, <<"y", NL>>}

Symmetry == Permutations(Applies) \cup Permutations(Rollbacks)
              \cup Permutations(Sessions)
=============================================================================
