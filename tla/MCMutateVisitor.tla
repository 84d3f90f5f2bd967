--------------------------- MODULE MCMutateVisitor ---------------------------
(* Instances of MutateVisitor: the maps and mutations that occur. *)
EXTENDS MutateVisitor

GrowingMaps == {f \in Maps : Grows(f)}

Unions == {"UNION", "UNION ALL"}

AllMutations ==
    {"FixMRmUnionAllL", "FixMUnionAllU", "FixMUnionAllL", "FixMDistinctU", "FixMDistinctL",
     "FixMWhere1U", "FixMWhere0L", "FixMHaving1U", "FixMHaving0L", "FixMOn1U", "FixMOn0L",
     "FixMCmpOpU", "FixMCmpOpULE", "FixMCmpOpL", "FixMAllToAnyU", "FixMAnyToAllL",
     "FixMBetweenDropUpperU", "FixMBetweenDropLowerU", "FixMInNullU",
     "FixMIsNullToFalseL", "FixMIsNotNullToTrueU", "FixMNullEqToLowerL",
     "RdMLikeU", "RdMLikeL", "RdMRegExpU", "RdMRegExpL"}

TwoInts == {1, 2}
=============================================================================
