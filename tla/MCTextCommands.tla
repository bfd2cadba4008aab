--------------------------- MODULE MCTextCommands ---------------------------
EXTENDS TextCommands

(* "z" is a character that folds, and goes to upper case, as two.          *)
MCChars == {"s", "S", "z", "_", "n", "r", "B"}
Single(c) == <<c>>
MCFold == [c \in MCChars |-> CASE c = "S" -> <<"s">> [] c = "z" -> <<"s", "s">> [] OTHER -> <<c>>]
MCUpper == [c \in MCChars |-> CASE c = "s" -> <<"S">> [] c = "z" -> <<"S", "S">> [] OTHER -> <<c>>]
MCLower == [c \in MCChars |-> IF c = "S" THEN <<"s">> ELSE <<c>>]
MCDocuments ==
  BoundedSeq({"s", "S", "z", "n"}, 4) \cup BoundedSeq({"s", "_", "n"}, 4)
    \cup BoundedSeq({"s", "n"}, 5) \cup BoundedSeq({"_", "n"}, 5)
    \cup BoundedSeq({"s", "n", "r", "B"}, 3)
MCQueries == {<<"s">>, <<"s", "s">>, <<"S", "z">>}
MCReplacements == {<<>>, <<"s">>, <<"s", "S">>}
MCPasted == {<<"s">>, <<"n">>, <<"_", "n", "s">>}
=============================================================================
