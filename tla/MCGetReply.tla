------------------------------- MODULE MCGetReply -------------------------------
(* Strings that are numbers and strings that are not, an integer too large *)
(* for the type, an error whose size is 0 and one whose size is 2, and     *)
(* containers of scalars and of containers, the empty tuple among them.    *)
EXTENDS GetReply

S(type, val, size) == [type |-> type, val |-> val, size |-> size]

MCScalar ==
  { S("string", "7", 1), S("string", "x", 0), S("integer", 7, 0),
    S("integer", 300, 0), S("nil", "", 0), S("status", "OK", 2),
    S("error", "x", 0), S("error", "xy", 2) }
MCReplies == MCScalar \cup {Array(<<>>)} \cup { Array(<<s>>) : s \in MCScalar }
MCParsed == [s \in {"7"} |-> 7]
MCCode == [s \in {"0", "1", "7", "x"} |->
             CASE s = "0" -> 48 [] s = "1" -> 49 [] s = "7" -> 55 [] s = "x" -> 120]
MCFits == -128..127

Number == [kind |-> "number"]
Byte   == [kind |-> "byte"]
String == [kind |-> "string"]
View   == [kind |-> "string_view"]
Of(kind, type) == [kind |-> kind, of |-> type]
MapOf(key, type) == [kind |-> "map", key |-> key, of |-> type]
Tuple(each) == [kind |-> "tuple", each |-> each]

MCTypes ==
  { Number, Byte, String, View, Of("vector", Number), Of("vector", View),
    Of("set", String), Of("vector", Of("vector", Number)), Of("set", Number),
    MapOf(String, Number), MapOf(Number, String), MapOf(String, Of("set", Number)),
    Tuple(<<Number, String>>), Tuple(<<View, Byte>>), Tuple(<<>>),
    Of("vector", Tuple(<<View, Byte>>)), Of("vector", Tuple(<<>>)) }
===============================================================================
