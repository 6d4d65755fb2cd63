------------------------------- MODULE MCText -------------------------------
(* Texts with two characters, chunks of up to four, cut at three; tables in  *)
(* tables with the keys 1, 2, "1", "7" and a broken string that is repaired  *)
(* to "7", and of the values 5, NaN, that string and a function; one         *)
(* variable of the user's, unset, or set to a word or to a reference to      *)
(* itself.                                                                   *)
EXTENDS Texts

MCAtom == {[t |-> "num", v |-> 5], [t |-> "nonfinite", v |-> 0],
           [t |-> "str", v |-> 8], [t |-> "fn", v |-> 0]}
MCKey == [t : {"num"}, v : {1, 2}] \cup [t : {"str"}, v : {1, 7, 8}]
MCRepaired == [n \in {8} |-> 7]
MCValue == {<<"x">>, <<"${", "A", "}">>}
MCUid == <<"uid">>
=============================================================================
