--------------------------- MODULE MCHeaderIndex ---------------------------
(***************************************************************************)
(* A branch a, b, c over the genesis block, a second branch f with more    *)
(* work than all of it, and a header v without proof of work under a       *)
(* header w with it.                                                       *)
(***************************************************************************)
EXTENDS HeaderIndex

MCBlock == {"g", "a", "b", "c", "f", "v", "w"}

MCPath == [x \in MCBlock |->
    CASE x = "g" -> <<"g">>
      [] x = "a" -> <<"g", "a">>
      [] x = "b" -> <<"g", "a", "b">>
      [] x = "c" -> <<"g", "a", "b", "c">>
      [] x = "f" -> <<"g", "f">>
      [] x = "v" -> <<"g", "v">>
      [] x = "w" -> <<"g", "v", "w">>]

MCWork == [x \in MCBlock |->
    CASE x = "g" -> 1 [] x = "a" -> 2 [] x = "b" -> 3 [] x = "c" -> 4
      [] x = "f" -> 5 [] x = "v" -> 2 [] x = "w" -> 3]
=============================================================================
