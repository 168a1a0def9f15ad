------------------------------ MODULE MCHistory ------------------------------
(* Instances of History for TLC: commands that differ in case only, that    *)
(* extend each other, and that hold the wildcards of LIKE.                  *)
EXTENDS History

MCChars == {"l", "L", "s", "_", "%", "\\"}
MCLower == [c \in MCChars |-> IF c = "L" THEN "l" ELSE c]
MCCommands == {<<"l">>, <<"l", "s">>, <<"L", "s">>, <<"l", "_">>,
               <<"l", "s", "s">>, <<"l", "%", "s">>, <<"\\", "l">>}
=============================================================================
