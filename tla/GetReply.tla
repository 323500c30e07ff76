-------------------------------- MODULE GetReply --------------------------------
(***************************************************************************)
(* Reply::Get<T> (src/reply.h) with GetReply (src/detail/get_reply.h): a   *)
(* reply of a server becomes a number, a string, a string_view, a tuple, a *)
(* vector, a set or a map, or an exception.  The functions are pure.  Here *)
(* a reply is a scalar, or an array that grows by one element at a time,   *)
(* and what Get returns is looked at after every one.                      *)
(*                                                                         *)
(* A type is a tree, and the overloads of GetReply call each other with    *)
(* the types below it: Convert is a recursive function on types.           *)
(*                                                                         *)
(* What size() is for a reply that is not an array is up to brpc           *)
(* (external): 0, or the length of a text.                                 *)
(***************************************************************************)
EXTENDS Integers, SequencesExt

CONSTANTS
  Replies,  \* what can be in an array: scalars [type, val, size], and arrays
            \* [type, elems] of members of Replies
  Types,    \* the types of Get: [kind], [kind, of], [kind, key, of], or a
            \* tuple [kind, each]
  Parsed,   \* the number that lexical_cast reads from a string, if any
  Code,     \* the code of each text of one character
  Fits,     \* the integers that the number type holds
  MaxSize   \* bound on the size of an array

(* The types that a type is made of. *)
Components(T) ==
  CASE T.kind = "tuple" -> Range(T.each)
    [] T.kind = "map" -> {T.key, T.of}
    [] T.kind \in {"vector", "set"} -> {T.of}
    [] OTHER -> {}

Nil == [type |-> "nil", val |-> "", size |-> 0]

ASSUME ReplyAssumption ==
  /\ Nil \in Replies
  /\ \A r \in Replies :
       /\ r.type \in {"string", "integer", "nil", "status", "error", "array"}
       /\ r.type = "array" => r.elems \in Seq(Replies)

(* The second part: no type is made of itself. *)
ASSUME TypeAssumption ==
  /\ \A T \in Types :
       /\ T.kind \in {"number", "byte", "string", "string_view",
                      "tuple", "vector", "set", "map"}
       /\ T.kind = "tuple" => T.each \in Seq(Types)
       /\ Components(T) \subseteq Types
  /\ \A S \in SUBSET Types : S # {} => \E T \in S : Components(T) \cap S = {}

(* A text of one character that is a number is the digit of that number.   *)
ASSUME DigitAssumption ==
  /\ {"0", "1"} \subseteq DOMAIN Code /\ Code["0"] = 48 /\ Code["1"] = 49
  /\ \A s \in DOMAIN Code \cap DOMAIN Parsed : Parsed[s] = Code[s] - 48
  /\ \A n \in Fits : ToString(n) \in DOMAIN Code => n = Code[ToString(n)] - 48
  /\ Fits \subseteq Int /\ \A s \in DOMAIN Code : Code[s] \in Int

VARIABLES
  reply,  \* the reply
  target  \* the T of Get<T>

-------------------------------------------------------------------------------
(* What a conversion ends with. *)
Value(v) == [val |-> v]
Throw(what) == [thrown |-> what]
Returned(outcome) == "val" \in DOMAIN outcome

(* Mutant: a nil is parsed like a string. *)
NilParsed(r) ==
  CASE r.type \in {"nil", "string"} /\ r.val \in DOMAIN Parsed -> Value(Parsed[r.val])
    [] r.type = "integer" -> Value(r.val)
    [] OTHER -> Throw("bad_lexical_cast")

(* A number: nil gives the default, the status OK 1 and any other 0.       *)
ToNumber(r) ==
  CASE r.type = "string" ->
         IF r.val \in DOMAIN Parsed THEN Value(Parsed[r.val])
                                    ELSE Throw("bad_lexical_cast")
    [] r.type = "integer" ->
         IF r.val \in Fits THEN Value(r.val) ELSE Throw("bad_lexical_cast")
    [] r.type = "nil" -> Value(0)
    [] r.type = "status" -> Value(IF r.val = "OK" THEN 1 ELSE 0)
    [] r.type = "array" -> Throw("invalid_argument")
    [] r.type = "error" -> Throw("runtime_error")

(* Mutant: an 8-bit type is read as the wider ones are. *)
ByteAsNumber(r) == ToNumber(r)

(* An 8-bit integer is a character to lexical_cast: it takes the only      *)
(* character of the text, and an integer goes through its text.            *)
ToByte(r) ==
  LET Character(text) == IF text \in DOMAIN Code THEN Value(Code[text])
                                                 ELSE Throw("bad_lexical_cast")
  IN CASE r.type = "string" -> Character(r.val)
       [] r.type = "integer" -> Character(ToString(r.val))
       [] r.type = "status" -> Character(IF r.val = "OK" THEN "1" ELSE "0")
       [] OTHER -> ToNumber(r)

(* Mutant: the message of an error is taken for the string. *)
ErrorAsText(r) ==
  CASE r.type \in {"string", "status", "error"} -> Value(r.val)
    [] r.type = "nil" -> Value("")
    [] r.type = "integer" -> Value(ToString(r.val))
    [] r.type = "array" -> Throw("invalid_argument")

(* A string. *)
ToText(r) ==
  CASE r.type \in {"string", "status"} -> Value(r.val)
    [] r.type = "nil" -> Value("")
    [] r.type = "integer" -> Value(ToString(r.val))
    [] r.type = "array" -> Throw("invalid_argument")
    [] r.type = "error" -> Throw("runtime_error")

(* A string_view: an integer has no text that a view could show.           *)
ToView(r) ==
  IF r.type = "integer" THEN Throw("invalid_argument") ELSE ToText(r)

(* Mutant: the last value of a key wins. *)
Assigned(kvs) ==
  LET At(k) == { i \in 1..(Len(kvs) \div 2) : kvs[2 * i - 1] = k }
  IN [k \in { kvs[2 * i - 1] : i \in 1..(Len(kvs) \div 2) } |->
        kvs[2 * Max(At(k))]]

(* Keys and values in turn: emplace keeps the first value of a key.        *)
Emplaced(kvs) ==
  LET At(k) == { i \in 1..(Len(kvs) \div 2) : kvs[2 * i - 1] = k }
  IN [k \in { kvs[2 * i - 1] : i \in 1..(Len(kvs) \div 2) } |->
        kvs[2 * Min(At(k))]]

(* A container with these elements. *)
Filled(kind, vals) ==
  CASE kind \in {"vector", "tuple"} -> vals
    [] kind = "set" -> Range(vals)
    [] kind = "map" -> Emplaced(vals)

(* Mutant: nil elements are passed over. *)
PresentElements(r) == SelectSeq(r.elems, LAMBDA e : e.type # "nil")

(* The elements that the loops convert. *)
Elements(r) == r.elems

(* The type of element i of a container. *)
ElementType(T, i) ==
  CASE T.kind = "tuple" -> T.each[i]
    [] T.kind = "map" /\ i % 2 = 1 -> T.key
    [] OTHER -> T.of

(* RedisReply::size and operator[]: beyond an array there is Nil. *)
Size(r) == IF r.type = "array" THEN Len(r.elems) ELSE r.size
Part(r, i) == IF r.type = "array" THEN Elements(r)[i] ELSE Nil

(* A container of what the loop converts: the first element that throws    *)
(* ends it.                                                                *)
Collected(kind, out) ==
  LET bad == {i \in DOMAIN out : ~Returned(out[i])}
  IN IF bad # {} THEN out[Min(bad)]
     ELSE Value(Filled(kind, [i \in DOMAIN out |-> out[i].val]))

(* A tuple looks at the size only. *)
SizeFits(r, T) == Len(T.each) = Size(r)

(* The overloads of GetReply; conv[U] is what they give for the type U.    *)
Overload(conv, r, T) ==
  CASE T.kind = "number" -> ToNumber(r)
    [] T.kind = "byte" -> ToByte(r)
    [] T.kind = "string" -> ToText(r)
    [] T.kind = "string_view" -> ToView(r)
    [] T.kind = "tuple" ->
         IF ~SizeFits(r, T) THEN Throw("invalid_argument")
         ELSE Collected("tuple", [i \in DOMAIN T.each |-> conv[T.each[i]][Part(r, i)]])
    [] T.kind \in {"vector", "set", "map"} ->
       CASE r.type = "nil" -> Value(Filled(T.kind, <<>>))
         [] r.type = "error" -> Throw("runtime_error")
         [] r.type \in {"string", "integer", "status"} -> Throw("invalid_argument")
         [] r.type = "array" ->
              IF T.kind = "map" /\ Len(r.elems) % 2 # 0 THEN Throw("invalid_argument")
              ELSE Collected(T.kind, [i \in DOMAIN Elements(r) |->
                                        conv[ElementType(T, i)][Elements(r)[i]]])

Convert[T \in Types] == [r \in Replies |-> Overload(Convert, r, T)]

(* Reply::Get: the conversion starts with a fresh T. *)
GetAs(r, T) == Overload(Convert, r, T)
Get == GetAs(reply, target)

Array(elems) == [type |-> "array", elems |-> elems]

Init ==
  /\ reply \in Replies
  /\ target \in Types

(* External: the server's answer has one more element.                     *)
Extend(e) ==
  /\ reply.type = "array" /\ Len(reply.elems) < MaxSize
  /\ reply' = Array(Append(reply.elems, e))
  /\ UNCHANGED target

Next == \E e \in Replies : Extend(e)

Spec == Init /\ [][Next]_<<reply, target>>

-------------------------------------------------------------------------------
(* The replies in a reply, itself included: what every set that has it and *)
(* the elements of its arrays has.                                         *)
ClosedReplies ==
  { S \in SUBSET Replies :
      \A r \in S : r.type = "array" => Range(r.elems) \subseteq S }
PartsOf == [r \in Replies |->
              { p \in Replies : \A S \in ClosedReplies : r \in S => p \in S }]
Parts(r) ==
  {r} \cup IF r.type # "array" THEN {} ELSE UNION { PartsOf[e] : e \in Range(r.elems) }

(* The types in a type, itself included, and the sizes of the tuples.      *)
ClosedTypes == { S \in SUBSET Types : \A T \in S : Components(T) \subseteq S }
TypesIn == [T \in Types |->
              { U \in Types : \A S \in ClosedTypes : T \in S => U \in S }]
TupleSizes(T) == { Len(U.each) : U \in { V \in TypesIn[T] : V.kind = "tuple" } }

(* An error of the server is read as a value only by a tuple that has as   *)
(* many elements as brpc says the error has: then its elements are read as *)
(* missing.  In every other case Get throws when there is an error         *)
(* anywhere in the reply, and when it is the whole reply what it throws    *)
(* carries the message, unless a tuple was asked for.                      *)
ErrorNeverAValue ==
  /\ Returned(Get) =>
       \A p \in Parts(reply) : p.type = "error" => p.size \in TupleSizes(target)
  /\ reply.type = "error" /\ target.kind # "tuple" => Get = Throw("runtime_error")

(* The reply with a nil in the place of element i. *)
WithNil(r, i) == Array([r.elems EXCEPT ![i] = Nil])

(* A missing value never makes Get throw, but in the place of a tuple that *)
(* has elements: a reply that can be read can be read with a nil in any    *)
(* other place, as the answer to HMGET with an unknown field has it.  (The program cannot  *)
(* tell it from the default.)                                              *)
NilNeverThrows ==
  reply.type = "array" /\ Returned(Get) =>
    \A i \in DOMAIN reply.elems :
      LET T == ElementType(target, i)
      IN Returned(GetAs(WithNil(reply, i), target))
           <=> ~(T.kind = "tuple" /\ T.each # <<>>)

(* One element for one element: a caller may index what it got by the     *)
(* position of the field it asked for, and finds there what Get returns    *)
(* for that element alone.  A tuple is all or nothing: it is read only     *)
(* from as many elements as it has, or is missing as a whole, from a reply *)
(* that is no array.                                                       *)
ElementsKeepTheirPlaces ==
  Returned(Get) =>
    /\ target.kind = "vector" /\ reply.type = "array" =>
         /\ Len(Get.val) = Len(reply.elems)
         /\ \A i \in DOMAIN reply.elems :
              Value(Get.val[i]) = Convert[target.of][reply.elems[i]]
    /\ target.kind = "tuple" =>
         /\ DOMAIN Get.val = 1..Size(reply)
         /\ \A i \in DOMAIN target.each :
              Value(Get.val[i]) =
                Convert[target.each[i]]
                       [IF reply.type = "array" THEN reply.elems[i] ELSE Nil]

(* The same reply, an integer too small for any doubt or a text of one     *)
(* digit, is one number to a wide type and another to an 8-bit type; they  *)
(* agree on a missing value only.                                          *)
NarrowReadsCharacters ==
  target.kind = "byte" /\ reply.type # "array" =>
    LET wide == GetAs(reply, [kind |-> "number"])
    IN Returned(Get) /\ Returned(wide) => (Get.val = wide.val <=> reply.type = "nil")

(* Does the value v begin with the value w? *)
BeginsWith(kind, v, w) ==
  CASE kind \in {"vector", "tuple"} -> IsPrefix(w, v)
    [] kind = "set" -> w \subseteq v
    [] kind = "map" -> \A k \in DOMAIN w : k \in DOMAIN v /\ v[k] = w[k]

(* What an element is read as, its place in a vector or under its key,     *)
(* does not depend on the elements that come after it: not even a second   *)
(* value of a key changes the first.                                       *)
LaterElementsChangeNothing ==
  reply.type = "array" /\ Returned(Get) =>
    \A n \in 0..Len(reply.elems) :
      LET begun == GetAs(Array(SubSeq(reply.elems, 1, n)), target)
      IN Returned(begun) => BeginsWith(target.kind, Get.val, begun.val)
===============================================================================
