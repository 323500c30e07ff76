------------------------------- MODULE MCCommands -------------------------------
(* Two keys of one slot and one of another; a text that looks like an      *)
(* option and a number; empty lists, and pairs within lists.               *)
EXTENDS Commands

MCKey == {"a", "b", "c"}
MCSlotOf == [k \in MCKey |-> IF k = "c" THEN 2 ELSE 1]
MCKeyLists == BoundedSeq(MCKey, 3)
MCValue == {"NX", "7"}
MCSeconds == {0, 5}
MCFields == {<<>>, <<"f">>, <<"f", "a">>}

MCPairs ==
  { <<>>, << <<"a", "1">> >>, << <<"a", "1">>, <<"b", "2">> >>,
    << <<"b", "2">>, <<"c", "a">> >> }
MCText == [n \in -9..99 |-> ToString(n)]
S(text) == [kind |-> "scalar", text |-> text]
C(elems) == [kind |-> "container", elems |-> elems]
MCArgs ==
  { <<>>, << S("a") >>, << C(<< S("b"), S("7") >>), S("c") >>,
    << C(<< C(<< S("a"), S("b") >>), C(<<>>) >>) >> }
MCValues ==
  { S(text) : text \in {"a", "b", "c", "7"} } \cup { C(<<>>), C(<< S("b"), S("7") >>),
    C(<< S("a"), S("b") >>), C(<< C(<< S("a"), S("b") >>), C(<<>>) >>) }
===============================================================================
