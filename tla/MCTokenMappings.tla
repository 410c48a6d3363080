--------------------------- MODULE MCTokenMappings ---------------------------
(* A zone and a domain below it; callers are interchangeable.              *)
EXTENDS TokenMappings, TLC

MCSuffixes == {<<"com">>, <<"com", "shop">>}

MCSymmetry == Permutations(Callers)
=============================================================================
