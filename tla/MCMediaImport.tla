--------------------------- MODULE MCMediaImport ---------------------------
EXTENDS MediaImport, TLC
(* A call asks for every source, or for those of the type of the first.    *)
AllOrFirst == {Sources, {1}}
(* The importers do the same things.                                       *)
Alike == Permutations(Importers)
=============================================================================
