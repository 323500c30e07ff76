-------------------------------- MODULE Commands --------------------------------
(***************************************************************************)
(* The command classes (src/command, src/detail/add_components.h): what a  *)
(* program asks for becomes a type, the key that routes the command, and   *)
(* the components sent to the server.  A command is constructed, and then  *)
(* options and arguments are appended to it one call at a time.            *)
(*                                                                         *)
(* The overloads of a constructor for a range, an initializer_list or one  *)
(* element differ in the container only.  The initializer_list overload of *)
(* MSET uses a name it does not declare and cannot be instantiated.        *)
(*                                                                         *)
(* A text is what lexical_cast gives for a value.  How a Redis server      *)
(* (external) reads a request is defined below the classes.                *)
(***************************************************************************)
EXTENDS Integers, SequencesExt

CONSTANTS
  Key,       \* keys of the program
  SlotOf,    \* SlotMap::GetSlot of each
  KeyLists,  \* the lists of keys it passes
  Value,     \* texts it stores
  Text,      \* the text of each number that it passes or counts
  Seconds,   \* expiry times
  Fields,    \* lists of fields
  Pairs,     \* ranges of pairs, for MSET and HMSET
  Values,    \* what AddComponents takes: [kind |-> "scalar", text], or a pair,
             \* vector, set or map: [kind |-> "container", elems]
  Args,      \* what it gives EVAL behind the keys
  MaxCalls   \* bound on the calls behind a constructor

ASSUME CommandsAssumption ==
  /\ Key \subseteq STRING /\ SlotOf \in [Key -> Nat] /\ KeyLists \subseteq Seq(Key)
  /\ Value \subseteq STRING /\ Fields \subseteq Seq(STRING)
  /\ Pairs \subseteq Seq(Key \X STRING) /\ MaxCalls \in Nat

(* Numbers have different texts, none of which is the name of an option.   *)
ASSUME TextAssumption ==
  /\ Text \in [DOMAIN Text -> STRING] /\ DOMAIN Text \subseteq Int
  /\ Seconds \cup { Len(keys) : keys \in KeyLists } \subseteq DOMAIN Text
  /\ \A m, n \in DOMAIN Text : Text[m] = Text[n] => m = n
  /\ \A n \in DOMAIN Text : Text[n] \notin {"NX", "XX", "EX", "EXAT"}

(* The second part: no container is in itself. *)
ASSUME ValueAssumption ==
  /\ \A v \in Values : \/ v.kind = "scalar" /\ v.text \in STRING
                       \/ v.kind = "container" /\ v.elems \in Seq(Values)
  /\ \A S \in SUBSET Values :
       S # {} => \E v \in S : v.kind = "container" => Range(v.elems) \cap S = {}
  /\ Args \subseteq Seq(Values)

VARIABLES
  cmd,    \* the command: [type, key, components]
  given,  \* what the program gave: [keys, items, options], items being the
          \* number of values, fields and pairs
  calls   \* calls behind the constructor

vars == <<cmd, given, calls>>

-------------------------------------------------------------------------------
(* detail::AddComponents: containers are taken apart to their scalars.     *)
AddComponents[val \in Values] ==
  IF val.kind = "scalar" THEN <<val.text>>
  ELSE FlattenSeq([i \in DOMAIN val.elems |-> AddComponents[val.elems[i]]])

Components(args) == FlattenSeq([i \in DOMAIN args |-> AddComponents[args[i]]])

(* The same of a range of pairs. *)
Flat(pairs) ==
  [i \in 1..(2 * Len(pairs)) |->
     IF i % 2 = 1 THEN pairs[(i + 1) \div 2][1] ELSE pairs[i \div 2][2]]

(* *keys.begin(): undefined for an empty range.  Unless it crashes, the    *)
(* program goes on with whatever it finds there.                           *)
First(keys) == IF keys = <<>> THEN Key ELSE {keys[1]}

(* Command::Command and the AddComponents calls of a constructor. *)
Command(type, keys, components) ==
  { [type |-> type, key |-> k, components |-> components] : k \in First(keys) }
System(components) == { [type |-> "System", key |-> "", components |-> components] }

GET(key)         == Command("Read", <<key>>, <<"GET", key>>)
HGET(key, field) == Command("Read", <<key>>, <<"HGET", key, field>>)
HGETALL(key)     == Command("Read", <<key>>, <<"HGETALL", key>>)
HKEYS(key)       == Command("Read", <<key>>, <<"HKEYS", key>>)
HVALS(key)       == Command("Read", <<key>>, <<"HVALS", key>>)
SMEMBERS(key)    == Command("Read", <<key>>, <<"SMEMBERS", key>>)
MGET(keys)       == Command("Read", keys, <<"MGET">> \o keys)
HMGET(key, fields) ==
  Command("Read", <<key>>, <<"HMGET", key>> \o fields)

SET(key, value)  == Command("Write", <<key>>, <<"SET", key, value>>)
(* Mutant: the value in front of the seconds. *)
ValueFirst(key, sec, value) ==
  Command("Write", <<key>>, <<"SETEX", key, value, Text[sec]>>)
SETEX(key, sec, value) ==
  Command("Write", <<key>>, <<"SETEX", key, Text[sec], value>>)
SETNX(key, value) == Command("Write", <<key>>, <<"SETNX", key, value>>)
INCRBY(key, n)   == Command("Write", <<key>>, <<"INCRBY", key, Text[n]>>)
DECRBY(key, n)   == Command("Write", <<key>>, <<"DECRBY", key, Text[n]>>)
EXPIRE(key, sec) == Command("Write", <<key>>, <<"EXPIRE", key, Text[sec]>>)
DEL(keys)        == Command("Write", keys, <<"DEL">> \o keys)
HDEL(key, fields) ==
  Command("Write", <<key>>, <<"HDEL", key>> \o fields)
HSET(key, field, value) ==
  Command("Write", <<key>>, <<"HSET", key, field, value>>)
HMSET(key, pairs) == Command("Write", <<key>>, <<"HMSET", key>> \o Flat(pairs))
(* The constructor takes the key only.                                     *)
HINCRBY(key)     == Command("Write", <<key>>, <<"HINCRBY", key>>)

KeysOf(pairs) == [i \in DOMAIN pairs |-> pairs[i][1]]
MSET(pairs) == Command("Write", KeysOf(pairs), <<"MSET">> \o Flat(pairs))

(* Mutant: the arguments are counted with the keys. *)
EVALCountingArgs(script, keys, args) ==
  Command("Write", keys,
          <<"EVAL", script, Text[Len(keys) + Len(args)]>> \o keys \o Components(args))
EVAL(script, keys, args) ==
  Command("Write", keys,
          <<"EVAL", script, Text[Len(keys)]>> \o keys \o Components(args))

CLUSTER_SLOTS == System(<<"CLUSTER", "SLOTS">>)
READONLY      == System(<<"READONLY">>)

-------------------------------------------------------------------------------
(* What the program gave. *)
Given(keys, items, options) == [keys |-> keys, items |-> items, options |-> options]
Expired(sec) == IF sec > 0 THEN {} ELSE {"expired"}

(* Commands of one key. *)
ConstructedOne(key) ==
  \/ /\ cmd \in GET(key) \cup HGETALL(key) \cup HKEYS(key) \cup HVALS(key)
                \cup SMEMBERS(key) \cup HINCRBY(key)
     /\ given = Given(<<key>>, 0, {})
  \/ \E value \in Value :
       /\ cmd \in HGET(key, value) \cup SET(key, value) \cup SETNX(key, value)
                  \cup HSET(key, value, value)
       /\ given = Given(<<key>>, 1, {})
  \/ \E sec \in Seconds, value \in Value :
       /\ cmd \in SETEX(key, sec, value)
       /\ given = Given(<<key>>, 1, Expired(sec))
  \/ \E sec \in Seconds :
       /\ cmd \in EXPIRE(key, sec) \cup INCRBY(key, sec) \cup DECRBY(key, sec)
       /\ given = Given(<<key>>, 1, {})
  \/ \E fields \in Fields :
       /\ cmd \in HMGET(key, fields) \cup HDEL(key, fields)
       /\ given = Given(<<key>>, Len(fields), {})
  \/ \E pairs \in Pairs :
       /\ cmd \in HMSET(key, pairs)
       /\ given = Given(<<key>>, Len(pairs), {})

Init ==
  /\ calls = 0
  /\ \/ cmd \in CLUSTER_SLOTS \cup READONLY /\ given = Given(<<>>, 0, {})
     \/ \E key \in Key : ConstructedOne(key)
     \/ \E keys \in KeyLists :
          /\ \/ cmd \in MGET(keys) \cup DEL(keys)
             \/ \E script \in Value, args \in Args : cmd \in EVAL(script, keys, args)
          /\ given = Given(keys, 0, {})
     \/ \E pairs \in Pairs :
          cmd \in MSET(pairs) /\ given = Given(KeysOf(pairs), Len(pairs), {})

Is(name) == cmd.components[1] = name

(* A call that appends to the command. *)
Appends(components, options, items) ==
  /\ calls < MaxCalls /\ calls' = calls + 1
  /\ cmd' = [cmd EXCEPT !.components = @ \o components]
  /\ given' = [given EXCEPT !.options = options, !.items = @ + items]

(* SET::EX, EXAT, NX, XX *)
SetOption ==
  /\ Is("SET")
  /\ \/ \E opt \in {"NX", "XX"} : Appends(<<opt>>, given.options \cup {opt}, 0)
     \/ \E opt \in {"EX", "EXAT"}, sec \in Seconds :
          Appends(<<opt, Text[sec]>>,
                  (given.options \ {"expired"}) \cup {opt} \cup Expired(sec), 0)

(* EXPIRE::NX, XX, GT, LT *)
ExpireOption ==
  /\ Is("EXPIRE")
  /\ \E opt \in {"NX", "XX", "GT", "LT"} :
       Appends(<<opt>>, given.options \cup {opt}, 0)

(* EVAL::AddArgs *)
AddArgs ==
  /\ Is("EVAL")
  /\ \E args \in Args : Appends(Components(args), given.options, 0)

(* Command::AddComponents, which is public, by a program that completes a  *)
(* HINCRBY with it.                                                        *)
AddPublic ==
  /\ Is("HINCRBY")
  /\ \E n \in Seconds : Appends(<<Text[n]>>, given.options, 1)

Next == SetOption \/ ExpireOption \/ AddArgs \/ AddPublic

Spec == Init /\ [][Next]_vars

(* Command::AddTo.  A single component goes through AddCommand, which      *)
(* splits it at blanks: only READONLY, and DEL and MGET without keys.      *)
AddTo == cmd.components

-------------------------------------------------------------------------------
(* External: how a Redis server reads a request.  The number of components *)
(* a command takes.                                                        *)
Arity(req) ==
  LET n == Len(req)
      Named(names) == req[1] \in names
  IN \/ n = 1 /\ Named({"READONLY"})
     \/ n = 2 /\ Named({"GET", "HGETALL", "HKEYS", "HVALS", "SMEMBERS", "CLUSTER"})
     \/ n >= 2 /\ Named({"MGET", "DEL"})
     \/ n = 3 /\ Named({"HGET", "SETNX", "INCRBY", "DECRBY"})
     \/ n >= 3 /\ Named({"SET", "EXPIRE", "HMGET", "HDEL", "EVAL"})
     \/ n >= 3 /\ n % 2 = 1 /\ Named({"MSET"})
     \/ n = 4 /\ Named({"SETEX", "HINCRBY"})
     \/ n >= 4 /\ n % 2 = 0 /\ Named({"HSET", "HMSET"})

NumberRead(text) == CHOOSE n \in DOMAIN Text : Text[n] = text
Positive(text) == \E n \in DOMAIN Text : Text[n] = text /\ n > 0

(* The components that are keys. *)
ServerKeys(req) ==
  CASE req[1] \in {"READONLY", "CLUSTER"} -> <<>>
    [] req[1] \in {"MGET", "DEL"} -> Tail(req)
    [] req[1] = "MSET" -> [i \in 1..(Len(req) \div 2) |-> req[2 * i]]
    [] req[1] = "EVAL" -> SubSeq(req, 4, 3 + NumberRead(req[3]))
    [] OTHER -> <<req[2]>>

(* The options and numbers behind the keys; of several expiries of SET the *)
(* last is looked at.                                                      *)
Syntax(req) ==
  LET Both(o, p) == {o, p} \subseteq { req[i] : i \in 4..Len(req) }
      Expiry(i) == req[i] \in {"EX", "EXAT"}
  IN CASE req[1] = "SET" ->
            /\ ~Both("NX", "XX") /\ ~Both("EX", "EXAT")
            /\ \A i \in 4..(Len(req) - 1) :
                 Expiry(i) /\ (\A j \in (i + 1)..Len(req) : ~Expiry(j))
                   => Positive(req[i + 1])
       [] req[1] = "EXPIRE" ->
            ~\E o \in {"XX", "GT", "LT"} : Both("NX", o) \/ Both("GT", "LT")
       [] req[1] = "SETEX" -> Positive(req[3])
       [] OTHER -> TRUE

(* What changes data. *)
ServerWrites ==
  {"SET", "SETEX", "SETNX", "DEL", "HDEL", "HSET", "HMSET", "HINCRBY", "INCRBY",
   "DECRBY", "EXPIRE", "MSET", "EVAL"}

(* A server of this slot runs the request: else it answers with an error,  *)
(* of which MOVED and CROSSSLOT are two.  A command typed as a read may be *)
(* sent to a replica, which redirects what changes data.                   *)
Runs(req, slot, type) ==
  /\ Arity(req) /\ Syntax(req)
  /\ \A k \in Range(ServerKeys(req)) : k \in Key /\ SlotOf[k] = slot
  /\ type = "Read" => req[1] \notin ServerWrites

-------------------------------------------------------------------------------
(* The server takes for keys what the program gave as keys, no value,      *)
(* field or argument among them, whatever was nested in a container or     *)
(* appended later; and the first of them routed the command.               *)
KeysAreTheProgramsKeys ==
  Arity(AddTo) =>
    /\ ServerKeys(AddTo) = given.keys
    /\ given.keys # <<>> => cmd.key = given.keys[1]

(* A server that Key() and Type() find, a replica for what is typed as a   *)
(* read among them, runs the command, except for a cause in what the       *)
(* program asked: keys of several slots, options that exclude each other,  *)
(* in whatever order they were called, an expiry that is not positive,     *)
(* nothing to store, read or delete, or a HINCRBY whose field and          *)
(* increment were not appended.                                            *)
RefusedForCause ==
  cmd.type # "System" =>
    (Runs(AddTo, SlotOf[cmd.key], cmd.type) <=>
      /\ \A i, j \in DOMAIN given.keys : SlotOf[given.keys[i]] = SlotOf[given.keys[j]]
      /\ given.keys = <<>> => Is("EVAL")
      /\ Is("HMGET") \/ Is("HDEL") \/ Is("HMSET") => given.items > 0
      /\ Is("HINCRBY") => given.items = 2
      /\ \A pair \in {{"NX", "XX"}, {"EX", "EXAT"}, {"NX", "GT"}, {"NX", "LT"},
                      {"GT", "LT"}, {"expired"}} : ~(pair \subseteq given.options))
===============================================================================
