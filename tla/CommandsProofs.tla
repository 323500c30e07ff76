----------------------------- MODULE CommandsProofs -----------------------------
(***************************************************************************)
(* Proofs about Commands, for keys, values and lists of any length and     *)
(* containers of any depth.                                                *)
(***************************************************************************)
EXTENDS Commands, SequenceTheorems, WellFoundedInduction, TLAPS

(* What components are made of.  (That these names are strings is nothing  *)
(* the provers know.)                                                      *)
Literals ==
  {"Read", "Write", "System", "", "expired",
   "GET", "HGET", "HGETALL", "HKEYS", "HVALS", "SMEMBERS", "MGET", "HMGET",
   "SET", "SETEX", "SETNX", "INCRBY", "DECRBY", "EXPIRE", "DEL", "HDEL", "HSET",
   "HMSET", "HINCRBY", "MSET", "EVAL", "CLUSTER", "SLOTS", "READONLY",
   "NX", "XX", "EX", "EXAT", "GT", "LT"}
Strings == STRING \cup Literals
Texts == Seq(Strings)

LEMMA LargerSet ==
  ASSUME NEW A, NEW B, A \subseteq B
  PROVE  Seq(A) \subseteq Seq(B)
<1> SUFFICES ASSUME NEW s \in Seq(A) PROVE s \in Seq(B)
  OBVIOUS
<1>1. Len(s) \in Nat /\ s = [i \in 1..Len(s) |-> s[i]] /\ \A i \in 1..Len(s) : s[i] \in B
  OBVIOUS
<1> QED  BY <1>1

LEMMA Spelled ==
  /\ Literals \subseteq Strings /\ Key \subseteq Strings /\ Value \subseteq Strings
  /\ Seq(Key) \subseteq Texts /\ Fields \subseteq Texts
  /\ \A n \in DOMAIN Text : Text[n] \in Strings
  /\ \A v \in Values : v.kind = "scalar" => v.text \in Strings
<1>1. Literals \subseteq Strings /\ STRING \subseteq Strings
  BY DEF Strings
<1>2. Key \subseteq Strings /\ Value \subseteq Strings
  BY <1>1, CommandsAssumption
<1>3. Seq(Key) \subseteq Texts
  BY <1>2, LargerSet DEF Texts
<1>4. Seq(STRING) \subseteq Texts
  BY <1>1, LargerSet DEF Texts
<1>5. Fields \subseteq Texts
  BY <1>4, CommandsAssumption
<1>6. \A n \in DOMAIN Text : Text[n] \in STRING
  BY TextAssumption
<1>7. \A v \in Values : v.kind = "scalar" => v.text \in STRING
  BY ValueAssumption
<1> QED  BY <1>1, <1>2, <1>3, <1>5, <1>6, <1>7

(* A set of natural numbers that is not empty has a least member.          *)
LEMMA Least ==
  ASSUME NEW T, T \subseteq Nat, T # {}
  PROVE  \E m \in T : \A n \in T : m <= n
<1> DEFINE R == {p \in Nat \X Nat : p[1] < p[2]}
<1>1. R = OpToRel(<, Nat)
  BY DEF OpToRel
<1>2. IsWellFoundedOn(R, Nat)
  BY <1>1, NatLessThanWellFounded
<1>3. PICK m \in T : \A n \in T : <<n, m>> \notin R
  <2> HIDE DEF R
  <2> QED  BY <1>2, WFMin
<1>4. ASSUME NEW n \in T PROVE m <= n
  <2>1. n \in Nat /\ m \in Nat /\ <<n, m>> \notin R
    BY <1>3
  <2>2. <<n, m>> \in Nat \X Nat /\ <<n, m>>[1] = n /\ <<n, m>>[2] = m
    BY <2>1
  <2>3. ~(n < m)
    BY <2>1, <2>2
  <2> QED  BY <2>1, <2>3
<1> QED  BY <1>4

-------------------------------------------------------------------------------
(* FlattenSeq: what its loop has collected after element i. *)
Flattens(f, seqs, m) ==
  f = [i \in 1..m |-> IF i = 1 THEN seqs[i] ELSE f[i - 1] \o seqs[i]]

LEMMA FlattensExists ==
  ASSUME NEW seqs, NEW m \in Nat
  PROVE  \E f : Flattens(f, seqs, m)
<1> DEFINE T == {n \in Nat : ~ \E f : Flattens(f, seqs, n)}
<1>1. SUFFICES ASSUME T # {} PROVE FALSE
  OBVIOUS
<1>2. PICK n \in T : \A l \in T : n <= l
  <2>1. T \subseteq Nat
    OBVIOUS
  <2> HIDE DEF T
  <2> QED  BY <1>1, <2>1, Least
<1>3. n # 0
  <2> DEFINE f == [i \in 1..0 |-> <<>>]
  <2>1. Flattens(f, seqs, 0)
    BY DEF Flattens
  <2> QED  BY <1>2, <2>1
<1>4. n - 1 \in Nat /\ n - 1 \notin T
  BY <1>2, <1>3
<1>5. PICK f : Flattens(f, seqs, n - 1)
  BY <1>4
<1>6. ASSUME NEW i \in 1..(n - 1)
      PROVE  f[i] = IF i = 1 THEN seqs[i] ELSE f[i - 1] \o seqs[i]
  BY <1>5, Zenon DEF Flattens
<1> DEFINE g == [i \in 1..n |->
                   IF i < n THEN f[i]
                   ELSE IF i = 1 THEN seqs[i] ELSE f[i - 1] \o seqs[i]]
<1>7. ASSUME NEW i \in 1..n
      PROVE  g[i] = IF i = 1 THEN seqs[i] ELSE g[i - 1] \o seqs[i]
  <2>1. CASE i = 1
    <3>1. 1 < n => 1 \in 1..(n - 1)
      BY <1>4
    <3> QED  BY <1>4, <1>6, <2>1, <3>1
  <2>2. CASE i # 1
    <3>1. i - 1 \in 1..(n - 1) /\ i - 1 \in 1..n /\ i - 1 < n
      BY <1>4, <2>2
    <3>2. g[i - 1] = f[i - 1]
      BY <3>1
    <3>3. CASE i < n
      <4>1. i \in 1..(n - 1) /\ g[i] = f[i]
        BY <1>4, <3>3
      <4> HIDE DEF g
      <4> QED  BY <1>6, <2>2, <3>2, <4>1
    <3>4. CASE ~(i < n)
      <4>1. g[i] = f[i - 1] \o seqs[i]
        BY <2>2, <3>4
      <4> HIDE DEF g
      <4> QED  BY <2>2, <3>2, <4>1
    <3> QED  BY <3>3, <3>4
  <2> QED  BY <2>1, <2>2
<1>8. Flattens(g, seqs, n)
  <2> DEFINE h == [i \in 1..n |-> IF i = 1 THEN seqs[i] ELSE g[i - 1] \o seqs[i]]
  <2>1. \A i \in 1..n : g[i] = h[i]
    <3> HIDE DEF g
    <3> QED  BY <1>7
  <2>2. g = [i \in 1..n |-> g[i]] /\ h = [i \in 1..n |-> h[i]]
    OBVIOUS
  <2>3. g = h
    <3> HIDE DEF g, h
    <3> QED  BY <2>1, <2>2
  <2> HIDE DEF g
  <2> QED  BY <2>3 DEF Flattens
<1> QED  BY <1>2, <1>8

LEMMA FlattenedTexts ==
  ASSUME NEW seqs \in Seq(Texts)
  PROVE  FlattenSeq(seqs) \in Texts
<1> DEFINE n == Len(seqs)
           flatten == CHOOSE f : Flattens(f, seqs, n)
<1>1. n \in Nat
  OBVIOUS
<1>2. Flattens(flatten, seqs, n)
  BY <1>1, FlattensExists
<1>3. FlattenSeq(seqs) = IF n = 0 THEN seqs ELSE flatten[n]
  BY Zenon DEF FlattenSeq, Flattens
<1> HIDE DEF flatten
<1>4. ASSUME NEW i \in 1..n
      PROVE  flatten[i] = IF i = 1 THEN seqs[i] ELSE flatten[i - 1] \o seqs[i]
  BY <1>2, Zenon DEF Flattens
<1> DEFINE T == {i \in 1..n : flatten[i] \notin Texts}
<1>5. ASSUME T # {} PROVE FALSE
  <2>1. PICK i \in T : \A l \in T : i <= l
    <3>1. T \subseteq Nat
      BY <1>1
    <3> HIDE DEF T
    <3> QED  BY <1>5, <3>1, Least
  <2>2. i \in 1..n /\ seqs[i] \in Texts
    OBVIOUS
  <2>3. i # 1
    BY <1>4, <2>1, <2>2
  <2>4. i - 1 \in 1..n /\ i - 1 \notin T
    BY <1>1, <2>1, <2>3
  <2>5. flatten[i] = flatten[i - 1] \o seqs[i]
    BY <1>4, <2>2, <2>3
  <2>6. flatten[i - 1] \in Texts
    BY <2>4
  <2>7. flatten[i] \in Texts
    BY <2>2, <2>5, <2>6 DEF Texts
  <2> QED  BY <2>7
<1>6. n = 0 => seqs \in Texts
  <2>1. n = 0 => seqs = <<>>
    OBVIOUS
  <2> QED  BY <2>1 DEF Texts
<1>7. n # 0 => flatten[n] \in Texts
  BY <1>1, <1>5
<1> QED  BY <1>3, <1>6, <1>7

-------------------------------------------------------------------------------
(* AddComponents is well-defined: a value is a tree. *)
Inside(v) == IF v.kind = "container" THEN Range(v.elems) ELSE {}
ClosedValues == { D \in SUBSET Values : \A v \in D : Inside(v) \subseteq D }

(* What AddComponents adds for v, when it adds f[u] for what is in v.      *)
Body(f, v) ==
  IF v.kind = "scalar" THEN <<v.text>>
  ELSE FlattenSeq([i \in DOMAIN v.elems |-> f[v.elems[i]]])

LEMMA InsideValues ==
  ASSUME NEW v \in Values
  PROVE  /\ Inside(v) \subseteq Values
         /\ v.kind # "scalar" => \A i \in DOMAIN v.elems : v.elems[i] \in Inside(v)
BY ValueAssumption DEF Inside, Range

LEMMA CallsElements ==
  ASSUME NEW v \in Values, NEW f, NEW g, \A u \in Inside(v) : f[u] = g[u]
  PROVE  Body(f, v) = Body(g, v)
<1>1. CASE v.kind = "scalar"
  BY <1>1 DEF Body
<1>2. CASE v.kind # "scalar"
  <2>1. [i \in DOMAIN v.elems |-> f[v.elems[i]]] = [i \in DOMAIN v.elems |-> g[v.elems[i]]]
    BY <1>2, InsideValues
  <2> QED  BY <1>2, <2>1 DEF Body
<1> QED  BY <1>1, <1>2

(* f is what AddComponents is, for the values in D. *)
Solves(f, D) == f = [v \in D |-> Body(f, v)]

LEMMA LeastValue ==
  ASSUME NEW S \in SUBSET Values, S # {}
  PROVE  \E v \in S : Inside(v) \cap S = {}
BY ValueAssumption DEF Inside

LEMMA SolutionsAgree ==
  ASSUME NEW D \in ClosedValues, NEW E \in ClosedValues, NEW f, NEW g,
         Solves(f, D), Solves(g, E), NEW v \in D \cap E
  PROVE  f[v] = g[v]
<1> DEFINE Differ == {u \in D \cap E : f[u] # g[u]}
<1>1. SUFFICES ASSUME Differ # {} PROVE FALSE
  OBVIOUS
<1>2. D \subseteq Values /\ E \subseteq Values
  BY DEF ClosedValues
<1>3. PICK u \in Differ : Inside(u) \cap Differ = {}
  <2>1. Differ \in SUBSET Values
    BY <1>2
  <2> HIDE DEF Differ
  <2> QED  BY <1>1, <2>1, LeastValue
<1>4. \A w \in Inside(u) : f[w] = g[w]
  BY <1>3 DEF ClosedValues
<1>5. Body(f, u) = Body(g, u)
  BY <1>2, <1>4, CallsElements
<1>6. f[u] = Body(f, u) /\ g[u] = Body(g, u)
  BY Zenon DEF Solves
<1> QED  BY <1>5, <1>6

LEMMA SolutionExists == \E f : Solves(f, Values)
<1> DEFINE Solved == {D \in ClosedValues : \E f : Solves(f, D)}
           Known == UNION Solved
           Gives(x, v) == \E D \in ClosedValues : \E f :
                          Solves(f, D) /\ v \in D /\ x = f[v]
           G == [v \in Known |-> CHOOSE x : Gives(x, v)]
<1>1. Known \in ClosedValues
  BY DEF ClosedValues
<1>2. ASSUME NEW D \in ClosedValues, NEW f, Solves(f, D), NEW v \in D
      PROVE  v \in Known /\ G[v] = f[v]
  <2>1. v \in Known /\ Gives(f[v], v)
    BY <1>2
  <2>2. \A x : Gives(x, v) => x = f[v]
    BY <1>2, SolutionsAgree
  <2>3. (CHOOSE x : Gives(x, v)) = f[v]
    <3> HIDE DEF Gives
    <3> QED  BY <2>1, <2>2
  <2> HIDE DEF Known, Gives
  <2> QED  BY <2>1, <2>3
<1>3. Solves(G, Known)
  <2>1. ASSUME NEW v \in Known PROVE G[v] = Body(G, v)
    <3>0. PICK D \in ClosedValues : v \in D /\ \E f : Solves(f, D)
      OBVIOUS
    <3>1. PICK f : Solves(f, D) /\ v \in D
      BY <3>0
    <3>2. v \in Values /\ Inside(v) \subseteq D
      BY <3>1 DEF ClosedValues
    <3>3. \A u \in Inside(v) : G[u] = f[u]
      <4> HIDE DEF G, Known
      <4> QED  BY <1>2, <3>1, <3>2
    <3>4. Body(G, v) = Body(f, v)
      <4> HIDE DEF G, Known
      <4> QED  BY <3>2, <3>3, CallsElements
    <3>5. f[v] = Body(f, v)
      BY <3>1, Zenon DEF Solves
    <3>6. G[v] = f[v]
      <4> HIDE DEF G, Known
      <4> QED  BY <1>2, <3>1
    <3> HIDE DEF G, Known
    <3> QED  BY <3>4, <3>5, <3>6
  <2> DEFINE H == [v \in Known |-> Body(G, v)]
  <2>2. G = H
    <3>1. \A v \in Known : G[v] = H[v]
      <4> HIDE DEF Known, G
      <4> QED  BY <2>1
    <3>2. DOMAIN G = Known /\ DOMAIN H = Known /\ G = [v \in Known |-> G[v]]
             /\ H = [v \in Known |-> H[v]]
      <4> HIDE DEF Known, Gives
      <4> QED  OBVIOUS
    <3> HIDE DEF G, H, Known
    <3> QED  BY <3>1, <3>2
  <2> HIDE DEF G, Known
  <2> QED  BY <2>2 DEF Solves
<1> HIDE DEF G
<1>4. ASSUME Known # Values PROVE FALSE
  <2>1. Known \subseteq Values
    BY <1>1 DEF ClosedValues
  <2>2. PICK v \in Values \ Known : Inside(v) \cap (Values \ Known) = {}
    <3> HIDE DEF Known
    <3> QED  BY <1>4, <2>1, LeastValue
  <2>3. Inside(v) \subseteq Known
    <3> HIDE DEF Known
    <3> QED  BY <2>2, InsideValues
  <2> DEFINE E == Known \cup {v}
             h == [u \in E |-> IF u = v THEN Body(G, v) ELSE G[u]]
  <2>4. E \in ClosedValues
    <3> HIDE DEF Known
    <3> QED  BY <1>1, <2>2, <2>3 DEF ClosedValues
  <2>5. ASSUME NEW u \in E PROVE h[u] = Body(h, u)
    <3> HIDE DEF Known
    <3>1. u \in Values /\ Inside(u) \subseteq Known
      BY <2>1, <2>2, <2>3, <1>1 DEF ClosedValues
    <3>2. \A w \in Inside(u) : h[w] = G[w]
      BY <3>1, <2>2
    <3>3. Body(h, u) = Body(G, u)
      <4> HIDE DEF h
      <4> QED  BY <3>1, <3>2, CallsElements
    <3>4. CASE u = v
      BY <3>3, <3>4
    <3>5. CASE u # v
      <4>1. u \in Known
        BY <3>5
      <4>2. G[u] = Body(G, u)
        BY <1>3, <4>1, Zenon DEF Solves
      <4>3. h[u] = G[u]
        BY <3>5
      <4> QED  BY <3>3, <4>2, <4>3
    <3> QED  BY <3>4, <3>5
  <2>6. Solves(h, E)
    <3> DEFINE H == [u \in E |-> Body(h, u)]
    <3>1. \A u \in E : h[u] = H[u]
      <4> HIDE DEF E, h
      <4> QED  BY <2>5
    <3>2. h = [u \in E |-> h[u]] /\ H = [u \in E |-> H[u]]
      <4> HIDE DEF E
      <4> QED  OBVIOUS
    <3>3. h = H
      <4> HIDE DEF h, H, E
      <4> QED  BY <3>1, <3>2
    <3> HIDE DEF h, E
    <3> QED  BY <3>3 DEF Solves
  <2>7. v \in Known
    <3> HIDE DEF h
    <3> QED  BY <2>4, <2>6
  <2> QED  BY <2>2, <2>7
<1> QED  BY <1>3, <1>4

(* A container adds what its elements add, in their order, at any depth.   *)
LEMMA AddsElements ==
  \A v \in Values : AddComponents[v] = Body(AddComponents, v)
<1>1. AddComponents = CHOOSE f : Solves(f, Values)
  BY Zenon DEF AddComponents, Solves, Body
<1>2. Solves(AddComponents, Values)
  BY <1>1, SolutionExists, Zenon
<1> QED  BY <1>2, Zenon DEF Solves

LEMMA AddsTexts == \A v \in Values : AddComponents[v] \in Texts
<1> DEFINE D == {v \in Values : AddComponents[v] \notin Texts}
<1>1. SUFFICES ASSUME D # {} PROVE FALSE
  OBVIOUS
<1>2. PICK v \in D : Inside(v) \cap D = {}
  <2>1. D \in SUBSET Values
    OBVIOUS
  <2> HIDE DEF D
  <2> QED  BY <1>1, <2>1, LeastValue
<1>3. v \in Values /\ \A u \in Inside(v) : AddComponents[u] \in Texts
  BY <1>2, InsideValues
<1>4. CASE v.kind = "scalar"
  <2>1. v.text \in Strings
    BY <1>3, <1>4, Spelled
  <2>2. AddComponents[v] = <<v.text>>
    BY <1>3, <1>4, AddsElements DEF Body
  <2>3. <<v.text>> \in Texts
    BY <2>1 DEF Texts
  <2> QED  BY <1>2, <2>2, <2>3
<1>5. CASE v.kind # "scalar"
  <2>1. v.elems \in Seq(Values)
    BY <1>3, <1>5, ValueAssumption
  <2>2. [i \in DOMAIN v.elems |-> AddComponents[v.elems[i]]] \in Seq(Texts)
    BY <1>3, <1>5, <2>1, InsideValues
  <2> QED  BY <1>2, <1>3, <1>5, <2>2, AddsElements, FlattenedTexts DEF Body
<1> QED  BY <1>4, <1>5

LEMMA ComponentTexts == \A args \in Args : Components(args) \in Texts
<1> TAKE args \in Args
<1>1. args \in Seq(Values)
  BY ValueAssumption
<1>2. [i \in DOMAIN args |-> AddComponents[args[i]]] \in Seq(Texts)
  BY <1>1, AddsTexts
<1> QED  BY <1>2, FlattenedTexts DEF Components

-------------------------------------------------------------------------------
(* The invariant: what the components of each class are.                   *)

Sent == cmd.components
Named(names) == Sent[1] \in names

(* Behind the key and the value of SET, the key and the seconds of EXPIRE, *)
(* are the names of the options that were called, and every expiry of SET  *)
(* has its seconds behind it.                                              *)
Expiry(req, i) == req[i] \in {"EX", "EXAT"}
LastExpiry(req, i) ==
  i < Len(req) /\ Expiry(req, i) /\ \A j \in (i + 1)..Len(req) : ~Expiry(req, j)

SetShape(req, options) ==
  /\ options \subseteq {"NX", "XX", "EX", "EXAT", "expired"}
  /\ \A o \in {"NX", "XX", "EX", "EXAT"} :
       o \in options <=> \E i \in 4..Len(req) : req[i] = o
  /\ \A i \in 4..Len(req) : Expiry(req, i) => i < Len(req)
  /\ "expired" \in options <=>
       \E i \in 4..Len(req) : LastExpiry(req, i) /\ ~Positive(req[i + 1])

ExpireShape(req, options) ==
  /\ options \subseteq {"NX", "XX", "GT", "LT"}
  /\ \A o \in {"NX", "XX", "GT", "LT"} :
       o \in options <=> \E i \in 4..Len(req) : req[i] = o

KeyOnly == {"GET", "HGETALL", "HKEYS", "HVALS", "SMEMBERS"}

(* Commands that send as many components as this, and have no options.     *)
Plain(type, names, length) ==
  /\ cmd.type = type /\ Named(names)
  /\ Len(Sent) = length /\ given.options = {}

KeySecond ==
  /\ cmd.key \in Key /\ given.keys = <<cmd.key>>
  /\ Len(Sent) >= 2 /\ Sent[2] = cmd.key

OneKeyShape ==
  /\ KeySecond
  /\ \/ Plain("Read", KeyOnly, 2)
     \/ Plain("Read", {"HGET"}, 3)
     \/ Plain("Read", {"HMGET"}, 2 + given.items)
     \/ Plain("Write", {"SETNX", "INCRBY", "DECRBY"}, 3)
     \/ Plain("Write", {"HSET"}, 4)
     \/ Plain("Write", {"HDEL", "HINCRBY"}, 2 + given.items)
     \/ Plain("Write", {"HMSET"}, 2 + 2 * given.items)
     \/ /\ cmd.type = "Write" /\ Named({"SETEX"}) /\ Len(Sent) = 4
        /\ given.options = IF Positive(Sent[3]) THEN {} ELSE {"expired"}
     \/ /\ cmd.type = "Write" /\ Named({"SET"}) /\ Len(Sent) >= 3
        /\ SetShape(Sent, given.options)
     \/ /\ cmd.type = "Write" /\ Named({"EXPIRE"}) /\ Len(Sent) >= 3
        /\ ExpireShape(Sent, given.options)

KeysShape ==
  /\ cmd.key \in Key /\ given.options = {}
  /\ given.keys # <<>> => cmd.key = given.keys[1]
  /\ \/ cmd.type = "Read" /\ Sent = <<"MGET">> \o given.keys
     \/ cmd.type = "Write" /\ Sent = <<"DEL">> \o given.keys
     \/ /\ cmd.type = "Write" /\ Named({"MSET"})
        /\ Len(Sent) = 1 + 2 * Len(given.keys)
        /\ \A i \in DOMAIN given.keys : Sent[2 * i] = given.keys[i]
     \/ /\ cmd.type = "Write" /\ Named({"EVAL"})
        /\ Len(given.keys) \in DOMAIN Text /\ Sent[3] = Text[Len(given.keys)]
        /\ Len(Sent) >= 3 + Len(given.keys)
        /\ \A i \in DOMAIN given.keys : Sent[3 + i] = given.keys[i]

SystemShape ==
  /\ cmd.type = "System" /\ given.keys = <<>>
  /\ Sent \in {<<"CLUSTER", "SLOTS">>, <<"READONLY">>}

CmdTypes ==
  /\ cmd \in [type : Strings, key : Strings, components : Texts]
  /\ given \in [keys : Seq(Key), items : Nat, options : SUBSET Strings]
  /\ Len(Sent) >= 1

CmdInv == CmdTypes /\ (SystemShape \/ OneKeyShape \/ KeysShape)

(* What a constructor makes. *)
LEMMA Constructed ==
  ASSUME NEW type \in Strings, NEW keys \in Seq(Key), NEW components \in Texts,
         cmd \in Command(type, keys, components)
  PROVE  /\ cmd \in [type : Strings, key : Strings, components : Texts]
         /\ cmd.type = type /\ Sent = components /\ cmd.key \in Key
         /\ keys # <<>> => cmd.key = keys[1]
<1>1. PICK k \in First(keys) : cmd = [type |-> type, key |-> k, components |-> components]
  BY DEF Command
<1>2. k \in Key /\ (keys # <<>> => k = keys[1])
  <2>1. CASE keys = <<>>
    BY <1>1, <2>1 DEF First
  <2>2. CASE keys # <<>>
    BY <1>1, <2>2 DEF First
  <2> QED  BY <2>1, <2>2
<1>3. k \in Strings
  BY <1>2, Spelled
<1> QED  BY <1>1, <1>2, <1>3 DEF Sent

LEMMA GivenTypes ==
  ASSUME NEW keys \in Seq(Key), NEW items \in Nat, NEW options \in SUBSET Strings,
         given = Given(keys, items, options)
  PROVE  /\ given \in [keys : Seq(Key), items : Nat, options : SUBSET Strings]
         /\ given.keys = keys /\ given.items = items /\ given.options = options
BY DEF Given

LEMMA OneKeyTyped ==
  ASSUME NEW type \in Strings, NEW key \in Key, NEW components \in Texts,
         cmd \in Command(type, <<key>>, components),
         NEW items \in Nat, NEW options \in SUBSET Strings,
         given = Given(<<key>>, items, options), Len(components) >= 2, components[2] = key
  PROVE  /\ CmdTypes /\ cmd.key = key /\ key \in Strings
         /\ cmd.key \in Key /\ given.keys = <<cmd.key>>
         /\ Len(Sent) >= 2 /\ Sent[2] = cmd.key
         /\ cmd.type = type /\ Sent = components
         /\ given.items = items /\ given.options = options
<1>1. <<key>> \in Seq(Key) /\ <<key>> # <<>> /\ <<key>>[1] = key
  OBVIOUS
<1>2. /\ cmd \in [type : Strings, key : Strings, components : Texts]
      /\ cmd.type = type /\ Sent = components /\ cmd.key = key
  BY <1>1, Constructed
<1>3. /\ given \in [keys : Seq(Key), items : Nat, options : SUBSET Strings]
      /\ given.keys = <<key>> /\ given.items = items /\ given.options = options
  BY <1>1, GivenTypes
<1> QED  BY <1>2, <1>3, CommandsAssumption DEF CmdTypes

LEMMA ShortSequences ==
  ASSUME NEW S, NEW a \in S, NEW b \in S, NEW c \in S, NEW d \in S, NEW t \in Seq(S)
  PROVE  /\ <<a, b>> \in Seq(S) /\ Len(<<a, b>>) = 2
         /\ <<a, b, c>> \in Seq(S) /\ Len(<<a, b, c>>) = 3
         /\ <<a, b, c, d>> \in Seq(S) /\ Len(<<a, b, c, d>>) = 4
         /\ <<a, b>> \o t \in Seq(S) /\ Len(<<a, b>> \o t) = 2 + Len(t)
         /\ (<<a, b>> \o t)[1] = a /\ (<<a, b>> \o t)[2] = b
<1>1. <<a, b>> \in Seq(S) /\ Len(<<a, b>>) = 2 /\ <<a, b>>[1] = a /\ <<a, b>>[2] = b
  OBVIOUS
<1>2. <<a, b, c>> \in Seq(S) /\ Len(<<a, b, c>>) = 3
  OBVIOUS
<1>3. <<a, b, c, d>> \in Seq(S) /\ Len(<<a, b, c, d>>) = 4
  OBVIOUS
<1>4. ASSUME NEW u \in Seq(S), Len(u) = 2
      PROVE  /\ u \o t \in Seq(S) /\ Len(u \o t) = 2 + Len(t)
             /\ (u \o t)[1] = u[1] /\ (u \o t)[2] = u[2]
  <2>1. /\ u \o t \in Seq(S) /\ Len(u \o t) = Len(u) + Len(t)
        /\ \A i \in 1..Len(u) + Len(t) :
             (u \o t)[i] = IF i <= Len(u) THEN u[i] ELSE t[i - Len(u)]
    BY ConcatProperties
  <2>2. Len(t) \in Nat
    OBVIOUS
  <2>3. 1 \in 1..Len(u) + Len(t) /\ 2 \in 1..Len(u) + Len(t)
    BY <1>4, <2>2
  <2> QED  BY <1>4, <2>1, <2>3
<1> QED  BY <1>1, <1>2, <1>3, <1>4

LEMMA NumberTexts ==
  \A n \in DOMAIN Text : /\ Text[n] \in Strings
                         /\ NumberRead(Text[n]) = n
                         /\ Positive(Text[n]) <=> n > 0
<1> TAKE n \in DOMAIN Text
<1>1. \A m \in DOMAIN Text : Text[m] = Text[n] => m = n
  BY TextAssumption
<1> QED  BY <1>1, Spelled DEF NumberRead, Positive

LEMMA FlatTexts ==
  ASSUME NEW pairs \in Pairs
  PROVE  /\ Flat(pairs) \in Texts /\ Len(Flat(pairs)) = 2 * Len(pairs)
         /\ KeysOf(pairs) \in Seq(Key) /\ Len(KeysOf(pairs)) = Len(pairs)
         /\ \A i \in 1..Len(pairs) : Flat(pairs)[2 * i - 1] = KeysOf(pairs)[i]
<1>1. /\ pairs \in Seq(Key \X STRING)
      /\ \A i \in 1..Len(pairs) : pairs[i][1] \in Key /\ pairs[i][1] \in Strings
                                  /\ pairs[i][2] \in Strings
  <2>1. pairs \in Seq(Key \X STRING)
    BY CommandsAssumption
  <2>2. \A i \in 1..Len(pairs) : pairs[i] \in Key \X STRING
    BY <2>1
  <2>3. STRING \subseteq Strings
    BY DEF Strings
  <2> QED  BY <2>1, <2>2, <2>3, Spelled
<1>2. ASSUME NEW i \in 1..(2 * Len(pairs))
      PROVE  (IF i % 2 = 1 THEN pairs[(i + 1) \div 2][1] ELSE pairs[i \div 2][2]) \in Strings
  <2>1. i % 2 = 1 => (i + 1) \div 2 \in 1..Len(pairs)
    BY <1>1
  <2>2. i % 2 # 1 => i \div 2 \in 1..Len(pairs)
    BY <1>1
  <2> QED  BY <1>1, <2>1, <2>2
<1>3. Flat(pairs) \in Texts /\ Len(Flat(pairs)) = 2 * Len(pairs)
  BY <1>1, <1>2 DEF Flat, Texts
<1>4. KeysOf(pairs) \in Seq(Key) /\ Len(KeysOf(pairs)) = Len(pairs)
  BY <1>1 DEF KeysOf
<1>5. ASSUME NEW i \in 1..Len(pairs)
      PROVE  Flat(pairs)[2 * i - 1] = KeysOf(pairs)[i]
  <2>1. /\ 2 * i - 1 \in 1..(2 * Len(pairs)) /\ (2 * i - 1) % 2 = 1
        /\ ((2 * i - 1) + 1) \div 2 = i
    BY <1>1
  <2>2. Flat(pairs)[2 * i - 1] = pairs[i][1]
    BY <2>1 DEF Flat
  <2> QED  BY <1>1, <2>2 DEF KeysOf
<1> QED  BY <1>3, <1>4, <1>5

LEMMA PlainOneKey ==
  ASSUME NEW key \in Key, NEW type \in {"Read", "Write"}, NEW components \in Texts,
         cmd \in Command(type, <<key>>, components),
         NEW items \in Nat, given = Given(<<key>>, items, {}),
         Len(components) >= 2, components[2] = key,
         NEW names, components[1] \in names
  PROVE  /\ CmdTypes /\ KeySecond /\ given.items = items
         /\ Plain(type, names, Len(components))
<1>1. type \in Strings /\ {} \in SUBSET Strings
  BY Spelled DEF Literals
<1> QED  BY <1>1, OneKeyTyped DEF KeySecond, Plain, Named

LEMMA TwoComponents ==
  ASSUME NEW key \in Key, NEW name \in KeyOnly,
         cmd \in Command("Read", <<key>>, <<name, key>>), given = Given(<<key>>, 0, {})
  PROVE  CmdInv
<1> DEFINE components == <<name, key>>
<1>1. name \in Strings /\ key \in Strings
  BY Spelled DEF Literals, KeyOnly
<1>2. components \in Texts /\ Len(components) = 2
  <2>1. <<>> \in Texts
    BY DEF Texts
  <2> QED  BY <1>1, <2>1, ShortSequences DEF Texts
<1>3. /\ components[1] \in KeyOnly
      /\ components[2] = key
      /\ cmd \in Command("Read", <<key>>, components)
  OBVIOUS
<1> HIDE DEF components
<1>4. /\ CmdTypes /\ KeySecond
      /\ Plain("Read", KeyOnly, 2)
  <2>1. "Read" \in {"Read", "Write"} /\ 0 \in Nat /\ Len(components) >= 2
    BY <1>2
  <2> QED  BY <1>2, <1>3, <2>1, PlainOneKey
<1> QED  BY <1>4 DEF CmdInv, OneKeyShape

(* SET and EXPIRE have no option yet. *)
LEMMA NoOptionYet ==
  ASSUME Len(Sent) = 3, given.options = {}
  PROVE  SetShape(Sent, given.options) /\ ExpireShape(Sent, given.options)
BY DEF SetShape, ExpireShape, LastExpiry

LEMMA ThreeComponents ==
  ASSUME NEW key \in Key, NEW type \in {"Read", "Write"}, NEW text \in Strings,
         NEW name \in {"HGET", "SETNX", "INCRBY", "DECRBY", "SET", "EXPIRE"},
         type = "Read" <=> name = "HGET",
         cmd \in Command(type, <<key>>, <<name, key, text>>), given = Given(<<key>>, 1, {})
  PROVE  CmdInv
<1> DEFINE components == <<name, key, text>>
<1>1. name \in Strings /\ key \in Strings
  BY Spelled DEF Literals
<1>2. components \in Texts /\ Len(components) = 3
  <2>1. <<>> \in Texts
    BY DEF Texts
  <2> QED  BY <1>1, <2>1, ShortSequences DEF Texts
<1>3. /\ components[1] \in {name} /\ components[2] = key
      /\ cmd \in Command(type, <<key>>, components)
  OBVIOUS
<1> HIDE DEF components
<1>4. CmdTypes /\ KeySecond /\ Plain(type, {name}, 3)
  <2>1. 1 \in Nat /\ Len(components) >= 2
    BY <1>2
  <2> QED  BY <1>2, <1>3, <2>1, PlainOneKey
<1>5. CASE name \in {"HGET", "SETNX", "INCRBY", "DECRBY"}
  <2>1. \/ Plain("Read", {"HGET"}, 3)
        \/ Plain("Write", {"SETNX", "INCRBY", "DECRBY"}, 3)
    BY <1>4, <1>5 DEF Plain, Named
  <2> QED  BY <1>4, <2>1 DEF CmdInv, OneKeyShape
<1>6. CASE name \in {"SET", "EXPIRE"}
  <2>1. cmd.type = "Write" /\ Named({name}) /\ Len(Sent) = 3 /\ given.options = {}
    BY <1>4, <1>6 DEF Plain
  <2>2. SetShape(Sent, given.options) /\ ExpireShape(Sent, given.options)
    BY <2>1, NoOptionYet
  <2> QED  BY <1>4, <1>6, <2>1, <2>2 DEF CmdInv, OneKeyShape, Named
<1> QED  BY <1>5, <1>6

(* What has a list behind its key. *)
LEMMA ListComponents ==
  ASSUME NEW key \in Key, NEW type \in {"Read", "Write"}, NEW list \in Texts,
         NEW name \in Literals, NEW items \in Nat,
         cmd \in Command(type, <<key>>, <<name, key>> \o list),
         given = Given(<<key>>, items, {})
  PROVE  CmdTypes /\ KeySecond /\ given.items = items /\ Plain(type, {name}, 2 + Len(list))
<1> DEFINE components == <<name, key>> \o list
<1>1. name \in Strings /\ key \in Strings
  BY Spelled
<1>2. components \in Texts /\ Len(components) = 2 + Len(list)
      /\ components[1] \in {name} /\ components[2] = key
      /\ cmd \in Command(type, <<key>>, components)
  BY <1>1, ShortSequences DEF Texts
<1>3. Len(list) \in Nat
  BY DEF Texts
<1> HIDE DEF components
<1> QED  BY <1>2, <1>3, PlainOneKey

LEMMA FourComponents ==
  ASSUME NEW key \in Key, NEW name \in {"HSET", "SETEX"},
         NEW text \in Strings, NEW last \in Strings, NEW options \in SUBSET Strings,
         cmd \in Command("Write", <<key>>, <<name, key, text, last>>),
         given = Given(<<key>>, 1, options)
  PROVE  /\ CmdTypes /\ KeySecond /\ cmd.type = "Write" /\ Named({name})
         /\ Len(Sent) = 4 /\ Sent[3] = text /\ given.options = options
<1> DEFINE components == <<name, key, text, last>>
<1>1. name \in Strings /\ key \in Strings /\ "Write" \in Strings
  BY Spelled DEF Literals
<1>2. components \in Texts /\ Len(components) = 4
  <2>1. <<>> \in Texts
    BY DEF Texts
  <2> QED  BY <1>1, <2>1, ShortSequences DEF Texts
<1>3. /\ components[1] \in {name} /\ components[2] = key /\ components[3] = text
      /\ cmd \in Command("Write", <<key>>, components)
  OBVIOUS
<1> HIDE DEF components
<1>4. 1 \in Nat /\ Len(components) >= 2
  BY <1>2
<1>5. /\ CmdTypes /\ KeySecond /\ cmd.type = "Write" /\ Sent = components
      /\ given.options = options
  BY <1>1, <1>2, <1>3, <1>4, OneKeyTyped DEF KeySecond
<1> QED  BY <1>2, <1>3, <1>5 DEF Named

LEMMA OneKeyConstructed ==
  ASSUME NEW key \in Key, ConstructedOne(key)
  PROVE  CmdInv
<1>1. CASE /\ cmd \in GET(key) \cup HGETALL(key) \cup HKEYS(key) \cup HVALS(key)
                       \cup SMEMBERS(key)
           /\ given = Given(<<key>>, 0, {})
  BY <1>1, TwoComponents DEF GET, HGETALL, HKEYS, HVALS, SMEMBERS, KeyOnly
<1>2. CASE cmd \in HINCRBY(key) /\ given = Given(<<key>>, 0, {})
  <2> DEFINE components == <<"HINCRBY", key>>
  <2>1. components \in Texts /\ Len(components) = 2
    <3>1. "HINCRBY" \in Strings /\ key \in Strings
      BY Spelled DEF Literals
    <3>2. <<>> \in Texts
      BY DEF Texts
    <3> QED  BY <3>1, <3>2, ShortSequences DEF Texts
  <2> DEFINE names == {"HINCRBY"}
  <2>2. /\ components[1] \in names /\ components[2] = key
        /\ cmd \in Command("Write", <<key>>, components)
        /\ "Write" \in {"Read", "Write"} /\ 0 \in Nat
    BY <1>2 DEF HINCRBY
  <2> HIDE DEF components, names
  <2>3. Len(components) >= 2
    BY <2>1
  <2>4. CmdTypes /\ KeySecond /\ given.items = 0 /\ Plain("Write", names, 2)
    BY <1>2, <2>1, <2>2, <2>3, PlainOneKey
  <2> QED  BY <2>4 DEF CmdInv, OneKeyShape, Plain, Named, names
<1>3. ASSUME NEW value \in Value,
             cmd \in HGET(key, value) \cup SET(key, value) \cup SETNX(key, value),
             given = Given(<<key>>, 1, {})
      PROVE  CmdInv
  <2>1. value \in Strings
    BY Spelled
  <2>2. cmd \in HGET(key, value) => CmdInv
    BY <1>3, <2>1, ThreeComponents DEF HGET
  <2>3. cmd \in SET(key, value) => CmdInv
    BY <1>3, <2>1, ThreeComponents DEF SET
  <2>4. cmd \in SETNX(key, value) => CmdInv
    BY <1>3, <2>1, ThreeComponents DEF SETNX
  <2> QED  BY <1>3, <2>2, <2>3, <2>4
<1>4. ASSUME NEW value \in Value, cmd \in HSET(key, value, value),
             given = Given(<<key>>, 1, {})
      PROVE  CmdInv
  <2>1. value \in Strings /\ {} \in SUBSET Strings /\ "HSET" \in {"HSET", "SETEX"}
    BY Spelled
  <2>2. /\ CmdTypes /\ KeySecond /\ cmd.type = "Write" /\ Named({"HSET"})
        /\ Len(Sent) = 4 /\ given.options = {}
    BY <1>4, <2>1, FourComponents DEF HSET
  <2> QED  BY <2>2 DEF CmdInv, OneKeyShape, Plain
<1>5. ASSUME NEW sec \in Seconds, NEW value \in Value, cmd \in SETEX(key, sec, value),
             given = Given(<<key>>, 1, Expired(sec))
      PROVE  CmdInv
  <2>1. sec \in DOMAIN Text
    BY TextAssumption
  <2>2. /\ value \in Strings /\ Text[sec] \in Strings
        /\ Expired(sec) \in SUBSET Strings /\ "SETEX" \in {"HSET", "SETEX"}
    BY <2>1, Spelled DEF Expired, Literals
  <2>3. /\ CmdTypes /\ KeySecond /\ cmd.type = "Write" /\ Named({"SETEX"})
        /\ Len(Sent) = 4 /\ Sent[3] = Text[sec] /\ given.options = Expired(sec)
    BY <1>5, <2>2, FourComponents DEF SETEX
  <2>4. given.options = IF Positive(Sent[3]) THEN {} ELSE {"expired"}
    BY <2>1, <2>3, NumberTexts DEF Expired
  <2> QED  BY <2>3, <2>4 DEF CmdInv, OneKeyShape
<1>6. ASSUME NEW sec \in Seconds,
             cmd \in EXPIRE(key, sec) \cup INCRBY(key, sec) \cup DECRBY(key, sec),
             given = Given(<<key>>, 1, {})
      PROVE  CmdInv
  <2>1. Text[sec] \in Strings
    BY TextAssumption, Spelled
  <2>2. cmd \in EXPIRE(key, sec) => CmdInv
    BY <1>6, <2>1, ThreeComponents DEF EXPIRE
  <2>3. cmd \in INCRBY(key, sec) => CmdInv
    BY <1>6, <2>1, ThreeComponents DEF INCRBY
  <2>4. cmd \in DECRBY(key, sec) => CmdInv
    BY <1>6, <2>1, ThreeComponents DEF DECRBY
  <2> QED  BY <1>6, <2>2, <2>3, <2>4
<1>7. ASSUME NEW fields \in Fields, cmd \in HMGET(key, fields) \cup HDEL(key, fields),
             given = Given(<<key>>, Len(fields), {})
      PROVE  CmdInv
  <2>1. fields \in Texts /\ Len(fields) \in Nat
    BY Spelled DEF Texts
  <2>2. ASSUME cmd \in HMGET(key, fields) PROVE CmdInv
    <3>1. "HMGET" \in Literals /\ "Read" \in {"Read", "Write"}
      BY DEF Literals
    <3>2. /\ CmdTypes /\ KeySecond /\ given.items = Len(fields)
          /\ Plain("Read", {"HMGET"}, 2 + Len(fields))
      BY <1>7, <2>1, <2>2, <3>1, ListComponents DEF HMGET
    <3> QED  BY <3>2 DEF CmdInv, OneKeyShape
  <2>3. ASSUME cmd \in HDEL(key, fields) PROVE CmdInv
    <3>1. "HDEL" \in Literals /\ "Write" \in {"Read", "Write"}
      BY DEF Literals
    <3>2. /\ CmdTypes /\ KeySecond /\ given.items = Len(fields)
          /\ Plain("Write", {"HDEL"}, 2 + Len(fields))
      BY <1>7, <2>1, <2>3, <3>1, ListComponents DEF HDEL
    <3> QED  BY <3>2 DEF CmdInv, OneKeyShape, Plain, Named
  <2> QED  BY <1>7, <2>2, <2>3
<1>8. ASSUME NEW pairs \in Pairs, cmd \in HMSET(key, pairs),
             given = Given(<<key>>, Len(pairs), {})
      PROVE  CmdInv
  <2>1. /\ Flat(pairs) \in Texts /\ Len(Flat(pairs)) = 2 * Len(pairs)
        /\ Len(pairs) \in Nat
    BY FlatTexts, CommandsAssumption
  <2>2. "HMSET" \in Literals /\ "Write" \in {"Read", "Write"}
    BY DEF Literals
  <2>3. /\ CmdTypes /\ KeySecond /\ given.items = Len(pairs)
        /\ Plain("Write", {"HMSET"}, 2 + Len(Flat(pairs)))
    BY <1>8, <2>1, <2>2, ListComponents DEF HMSET
  <2> QED  BY <2>1, <2>3 DEF CmdInv, OneKeyShape
<1> QED
  BY <1>1, <1>2, <1>3, <1>4, <1>5, <1>6, <1>7, <1>8 DEF ConstructedOne

(* SystemShape, and commands of several keys. *)
LEMMA SystemConstructed ==
  ASSUME cmd \in CLUSTER_SLOTS \cup READONLY, given = Given(<<>>, 0, {})
  PROVE  CmdInv
<1>1. PICK c \in {<<"CLUSTER", "SLOTS">>, <<"READONLY">>} :
        cmd = [type |-> "System", key |-> "", components |-> c]
  BY DEF CLUSTER_SLOTS, READONLY, System
<1>2. c \in Texts /\ Len(c) >= 1
  <2>1. {"CLUSTER", "SLOTS", "READONLY"} \subseteq Strings
    BY Spelled DEF Literals
  <2>2. <<"CLUSTER", "SLOTS">> \in Texts /\ <<"READONLY">> \in Texts
    BY <2>1 DEF Texts
  <2>3. Len(<<"CLUSTER", "SLOTS">>) = 2 /\ Len(<<"READONLY">>) = 1
    OBVIOUS
  <2> QED  BY <2>2, <2>3
<1>3. "System" \in Strings /\ "" \in Strings
  BY Spelled DEF Literals
<1>4. cmd \in [type : Strings, key : Strings, components : Texts]
  BY <1>1, <1>2, <1>3
<1>5. /\ given \in [keys : Seq(Key), items : Nat, options : SUBSET Strings]
      /\ given.keys = <<>>
  <2>1. <<>> \in Seq(Key) /\ 0 \in Nat /\ {} \in SUBSET Strings
    OBVIOUS
  <2> QED  BY <2>1, GivenTypes
<1>6. cmd.type = "System" /\ Sent = c
  BY <1>1 DEF Sent
<1> QED  BY <1>2, <1>4, <1>5, <1>6 DEF CmdInv, CmdTypes, SystemShape

LEMMA Prefixed ==
  ASSUME NEW S, NEW a \in S, NEW t \in Seq(S)
  PROVE  /\ <<a>> \o t \in Seq(S) /\ Len(<<a>> \o t) = 1 + Len(t)
         /\ (<<a>> \o t)[1] = a
         /\ \A i \in 1..Len(t) : (<<a>> \o t)[1 + i] = t[i]
<1>1. <<a>> \in Seq(S) /\ Len(<<a>>) = 1 /\ <<a>>[1] = a
  OBVIOUS
<1>2. ASSUME NEW u \in Seq(S), Len(u) = 1
      PROVE  /\ u \o t \in Seq(S) /\ Len(u \o t) = 1 + Len(t)
             /\ (u \o t)[1] = u[1]
             /\ \A i \in 1..Len(t) : (u \o t)[1 + i] = t[i]
  <2>1. /\ u \o t \in Seq(S) /\ Len(u \o t) = Len(u) + Len(t)
        /\ \A i \in 1..Len(u) + Len(t) :
             (u \o t)[i] = IF i <= Len(u) THEN u[i] ELSE t[i - Len(u)]
    BY ConcatProperties
  <2>2. Len(t) \in Nat
    OBVIOUS
  <2>3. (u \o t)[1] = u[1]
    BY <1>2, <2>1, <2>2
  <2>4. ASSUME NEW i \in 1..Len(t) PROVE (u \o t)[1 + i] = t[i]
    <3>1. 1 + i \in 1..Len(u) + Len(t) /\ ~(1 + i <= Len(u)) /\ 1 + i - Len(u) = i
      BY <1>2, <2>2
    <3> QED  BY <2>1, <3>1
  <2> QED  BY <1>2, <2>1, <2>3, <2>4
<1> QED  BY <1>1, <1>2

LEMMA ManyKeysTyped ==
  ASSUME NEW type \in {"Read", "Write"}, NEW keys \in Seq(Key), NEW components \in Texts,
         cmd \in Command(type, keys, components), Len(components) >= 1,
         NEW items \in Nat, given = Given(keys, items, {})
  PROVE  /\ CmdTypes /\ cmd.type = type /\ Sent = components /\ given.keys = keys
         /\ cmd.key \in Key /\ given.options = {}
         /\ given.keys # <<>> => cmd.key = given.keys[1]
<1>1. type \in Strings /\ {} \in SUBSET Strings
  BY Spelled DEF Literals
<1>2. /\ cmd \in [type : Strings, key : Strings, components : Texts]
      /\ cmd.type = type /\ Sent = components /\ cmd.key \in Key
      /\ keys # <<>> => cmd.key = keys[1]
  BY <1>1, Constructed
<1>3. /\ given \in [keys : Seq(Key), items : Nat, options : SUBSET Strings]
      /\ given.keys = keys /\ given.options = {}
  BY <1>1, GivenTypes
<1> QED  BY <1>2, <1>3 DEF CmdTypes

LEMMA OneNameKeys ==
  ASSUME NEW keys \in KeyLists, NEW name \in {"MGET", "DEL"}, NEW type \in {"Read", "Write"},
         type = "Read" <=> name = "MGET",
         cmd \in Command(type, keys, <<name>> \o keys), given = Given(keys, 0, {})
  PROVE  CmdInv
<1>1. keys \in Seq(Key) /\ keys \in Texts /\ Len(keys) \in Nat /\ name \in Strings
  <2>1. name \in Literals
    BY DEF Literals
  <2>2. keys \in Seq(Key) /\ Len(keys) \in Nat
    BY CommandsAssumption
  <2> QED  BY <2>1, <2>2, Spelled
<1> DEFINE components == <<name>> \o keys
<1>2. components \in Texts /\ Len(components) = 1 + Len(keys)
  BY <1>1, Prefixed DEF Texts
<1>3. cmd \in Command(type, keys, components)
  OBVIOUS
<1> HIDE DEF components
<1>4. /\ CmdTypes /\ cmd.type = type /\ Sent = components /\ given.keys = keys
      /\ cmd.key \in Key /\ given.options = {}
      /\ given.keys # <<>> => cmd.key = given.keys[1]
  <2>1. Len(components) >= 1 /\ 0 \in Nat
    BY <1>1, <1>2
  <2> QED  BY <1>1, <1>2, <1>3, <2>1, ManyKeysTyped
<1>5. KeysShape
  BY <1>4 DEF KeysShape, components
<1> QED  BY <1>4, <1>5 DEF CmdInv

LEMMA MsetConstructed ==
  ASSUME NEW pairs \in Pairs, cmd \in MSET(pairs),
         given = Given(KeysOf(pairs), Len(pairs), {})
  PROVE  CmdInv
<1> DEFINE keys == KeysOf(pairs)
           components == <<"MSET">> \o Flat(pairs)
<1>1. /\ Flat(pairs) \in Texts /\ Len(Flat(pairs)) = 2 * Len(pairs)
      /\ keys \in Seq(Key) /\ Len(keys) = Len(pairs) /\ Len(pairs) \in Nat
      /\ \A i \in 1..Len(pairs) : Flat(pairs)[2 * i - 1] = keys[i]
  BY FlatTexts, CommandsAssumption
<1>2. "MSET" \in Strings
  BY Spelled DEF Literals
<1>3. /\ components \in Texts /\ Len(components) = 1 + 2 * Len(keys)
      /\ components[1] = "MSET"
      /\ \A i \in 1..Len(Flat(pairs)) : components[1 + i] = Flat(pairs)[i]
  BY <1>1, <1>2, Prefixed DEF Texts
<1>4. cmd \in Command("Write", keys, components) /\ given = Given(keys, Len(pairs), {})
  BY DEF MSET
<1>5. ASSUME NEW i \in 1..Len(keys) PROVE components[2 * i] = keys[i]
  <2>1. 2 * i - 1 \in 1..Len(Flat(pairs)) /\ 1 + (2 * i - 1) = 2 * i /\ i \in 1..Len(pairs)
    BY <1>1
  <2> HIDE DEF components, keys
  <2>2. components[1 + (2 * i - 1)] = Flat(pairs)[2 * i - 1]
    BY <1>3, <2>1
  <2> QED  BY <1>1, <2>1, <2>2
<1> HIDE DEF components, keys
<1>6. /\ CmdTypes /\ cmd.type = "Write" /\ Sent = components /\ given.keys = keys
      /\ cmd.key \in Key /\ given.options = {}
      /\ given.keys # <<>> => cmd.key = given.keys[1]
  <2>1. Len(components) >= 1 /\ "Write" \in {"Read", "Write"}
    BY <1>1, <1>3
  <2> QED  BY <1>1, <1>3, <1>4, <2>1, ManyKeysTyped
<1>7. DOMAIN keys = 1..Len(keys)
  BY <1>1
<1>8. KeysShape
  BY <1>3, <1>5, <1>6, <1>7 DEF KeysShape, Named
<1> QED  BY <1>6, <1>8 DEF CmdInv

LEMMA Joined ==
  ASSUME NEW s \in Texts, NEW t \in Texts
  PROVE  /\ s \o t \in Texts /\ Len(s \o t) = Len(s) + Len(t)
         /\ Len(s) \in Nat /\ Len(t) \in Nat
         /\ \A i \in 1..(Len(s) + Len(t)) :
              (s \o t)[i] = IF i <= Len(s) THEN s[i] ELSE t[i - Len(s)]
BY ConcatProperties DEF Texts

LEMMA EvalConstructed ==
  ASSUME NEW keys \in KeyLists, NEW script \in Value, NEW args \in Args,
         cmd \in EVAL(script, keys, args), given = Given(keys, 0, {})
  PROVE  CmdInv
<1> DEFINE head == <<"EVAL", script, Text[Len(keys)]>>
           list == Components(args)
           components == head \o keys \o list
<1>1. /\ keys \in Seq(Key) /\ keys \in Texts /\ Len(keys) \in Nat
      /\ Len(keys) \in DOMAIN Text /\ list \in Texts /\ Len(list) \in Nat
  BY CommandsAssumption, TextAssumption, Spelled, ComponentTexts DEF Texts
<1>2. /\ head \in Texts /\ Len(head) = 3 /\ head[1] = "EVAL"
      /\ head[3] = Text[Len(keys)]
  <2>1. "EVAL" \in Strings /\ script \in Strings /\ Text[Len(keys)] \in Strings
    BY <1>1, Spelled DEF Literals
  <2> QED  BY <2>1 DEF Texts
<1>3. cmd \in Command("Write", keys, components)
  BY DEF EVAL
<1> HIDE DEF head, list
<1>4. /\ components \in Texts /\ Len(components) = 3 + Len(keys) + Len(list)
      /\ components[1] = "EVAL" /\ components[3] = Text[Len(keys)]
      /\ \A i \in 1..Len(keys) : components[3 + i] = keys[i]
  <2> DEFINE front == head \o keys
  <2>1. /\ front \in Texts /\ Len(front) = 3 + Len(keys)
        /\ \A i \in 1..(3 + Len(keys)) :
             front[i] = IF i <= 3 THEN head[i] ELSE keys[i - 3]
    <3>1. /\ head \o keys \in Texts /\ Len(head \o keys) = Len(head) + Len(keys)
          /\ \A i \in 1..(Len(head) + Len(keys)) :
               (head \o keys)[i] = IF i <= Len(head) THEN head[i] ELSE keys[i - Len(head)]
      BY <1>1, <1>2, Joined
    <3> QED  BY <1>2, <3>1
  <2>2. components = front \o list
    OBVIOUS
  <2> HIDE DEF front, components
  <2>3. /\ components \in Texts /\ Len(components) = 3 + Len(keys) + Len(list)
        /\ \A i \in 1..(3 + Len(keys) + Len(list)) :
             components[i] = IF i <= 3 + Len(keys) THEN front[i] ELSE list[i - (3 + Len(keys))]
    <3>1. 3 + Len(keys) \in Nat
      BY <1>1
    <3>2. /\ front \o list \in Texts /\ Len(front \o list) = Len(front) + Len(list)
          /\ \A i \in 1..(Len(front) + Len(list)) :
               (front \o list)[i] = IF i <= Len(front) THEN front[i] ELSE list[i - Len(front)]
      BY <1>1, <2>1, Joined
    <3> QED  BY <2>1, <2>2, <3>2
  <2>4. \A i \in 1..(3 + Len(keys)) : components[i] = front[i]
    BY <1>1, <2>3
  <2>5. components[1] = "EVAL" /\ components[3] = Text[Len(keys)]
    BY <1>1, <1>2, <2>1, <2>4
  <2>6. ASSUME NEW i \in 1..Len(keys) PROVE components[3 + i] = keys[i]
    <3>1. 3 + i \in 1..(3 + Len(keys)) /\ ~(3 + i <= 3) /\ 3 + i - 3 = i
      BY <1>1
    <3> QED  BY <2>1, <2>4, <3>1
  <2> QED  BY <2>3, <2>5, <2>6
<1> HIDE DEF components
<1>5. /\ CmdTypes /\ cmd.type = "Write" /\ Sent = components /\ given.keys = keys
      /\ cmd.key \in Key /\ given.options = {}
      /\ given.keys # <<>> => cmd.key = given.keys[1]
  <2>1. Len(components) >= 1 /\ "Write" \in {"Read", "Write"} /\ 0 \in Nat
    BY <1>1, <1>4
  <2> QED  BY <1>1, <1>3, <1>4, <2>1, ManyKeysTyped
<1>6. DOMAIN keys = 1..Len(keys) /\ Len(components) >= 3 + Len(keys)
  BY <1>1, <1>4
<1>7. KeysShape
  BY <1>1, <1>4, <1>5, <1>6 DEF KeysShape, Named
<1> QED  BY <1>5, <1>7 DEF CmdInv

LEMMA InitInv == Init => CmdInv
<1> SUFFICES ASSUME Init PROVE CmdInv
  OBVIOUS
<1>1. CASE cmd \in CLUSTER_SLOTS \cup READONLY /\ given = Given(<<>>, 0, {})
  BY <1>1, SystemConstructed
<1>2. CASE \E key \in Key : ConstructedOne(key)
  BY <1>2, OneKeyConstructed
<1>3. ASSUME NEW keys \in KeyLists, cmd \in MGET(keys) \cup DEL(keys),
             given = Given(keys, 0, {})
      PROVE  CmdInv
  <2>1. cmd \in MGET(keys) => CmdInv
    BY <1>3, OneNameKeys DEF MGET
  <2>2. cmd \in DEL(keys) => CmdInv
    BY <1>3, OneNameKeys DEF DEL
  <2> QED  BY <1>3, <2>1, <2>2
<1>4. ASSUME NEW keys \in KeyLists, NEW script \in Value, NEW args \in Args,
             cmd \in EVAL(script, keys, args), given = Given(keys, 0, {})
      PROVE  CmdInv
  BY <1>4, EvalConstructed
<1>5. ASSUME NEW pairs \in Pairs, cmd \in MSET(pairs),
             given = Given(KeysOf(pairs), Len(pairs), {})
      PROVE  CmdInv
  BY <1>5, MsetConstructed
<1> QED  BY <1>1, <1>2, <1>3, <1>4, <1>5 DEF Init

-------------------------------------------------------------------------------
(* What a call appends. *)
LEMMA Grown ==
  ASSUME NEW s \in Texts, NEW t \in Texts
  PROVE  /\ s \o t \in Texts /\ Len(s \o t) = Len(s) + Len(t)
         /\ Len(s) \in Nat /\ Len(t) \in Nat
         /\ \A i \in 1..Len(s) : (s \o t)[i] = s[i]
         /\ \A i \in 1..Len(t) : (s \o t)[Len(s) + i] = t[i]
<1>1. /\ s \o t \in Texts /\ Len(s \o t) = Len(s) + Len(t)
      /\ Len(s) \in Nat /\ Len(t) \in Nat
      /\ \A i \in 1..(Len(s) + Len(t)) :
           (s \o t)[i] = IF i <= Len(s) THEN s[i] ELSE t[i - Len(s)]
  BY Joined
<1>2. \A i \in 1..Len(s) : (s \o t)[i] = s[i]
  BY <1>1
<1>3. ASSUME NEW i \in 1..Len(t) PROVE (s \o t)[Len(s) + i] = t[i]
  <2>1. /\ Len(s) + i \in 1..(Len(s) + Len(t)) /\ ~(Len(s) + i <= Len(s))
        /\ Len(s) + i - Len(s) = i
    BY <1>1
  <2> QED  BY <1>1, <2>1
<1> QED  BY <1>1, <1>2, <1>3

LEMMA NameGrows ==
  ASSUME NEW s \in Texts, Len(s) >= 3, NEW options, NEW r \in Texts, Len(r) = Len(s) + 1,
         \A i \in 1..Len(s) : r[i] = s[i], NEW o, r[Len(s) + 1] = o
  PROVE  /\ SetShape(s, options) /\ o \in {"NX", "XX"} => SetShape(r, options \cup {o})
         /\ ExpireShape(s, options) /\ o \in {"NX", "XX", "GT", "LT"}
              => ExpireShape(r, options \cup {o})
<1> DEFINE n == Len(s)
<1>1. n \in Nat /\ n >= 3 /\ Len(r) = n + 1 /\ \A i \in 4..n : r[i] = s[i]
  BY DEF Texts
<1>2. 4..Len(r) = (4..n) \cup {n + 1} /\ r[n + 1] = o
  BY <1>1
<1> HIDE DEF n
<1>3. ASSUME NEW p
      PROVE  (\E i \in 4..Len(r) : r[i] = p) <=> (\E i \in 4..n : s[i] = p) \/ p = o
  BY <1>1, <1>2
<1>4. ASSUME SetShape(s, options), o \in {"NX", "XX"}
      PROVE  SetShape(r, options \cup {o})
  <2>1. \A i \in 4..n : Expiry(s, i) => i < n
    BY <1>4 DEF SetShape, n
  <2>2. ~Expiry(r, n + 1) /\ \A i \in 4..n : Expiry(r, i) <=> Expiry(s, i)
    BY <1>1, <1>2, <1>4 DEF Expiry
  <2>3. \A i \in 4..Len(r) : Expiry(r, i) => i < Len(r)
    BY <1>1, <1>2, <2>2
  <2>4. ASSUME NEW i \in 4..n
        PROVE  LastExpiry(r, i) /\ ~Positive(r[i + 1]) <=> LastExpiry(s, i) /\ ~Positive(s[i + 1])
    <3>1. CASE ~Expiry(s, i)
      BY <2>2, <3>1 DEF LastExpiry
    <3>2. CASE Expiry(s, i)
      <4>1. i < n /\ i < Len(r) /\ i + 1 \in 4..n
        BY <1>1, <2>1, <3>2
      <4>2. r[i + 1] = s[i + 1] /\ (i + 1)..Len(r) = ((i + 1)..n) \cup {n + 1}
        BY <1>1, <4>1
      <4>3. \A j \in (i + 1)..n : j \in 4..n
        BY <1>1
      <4> QED  BY <2>2, <3>2, <4>1, <4>2, <4>3 DEF LastExpiry, n
    <3> QED  BY <3>1, <3>2
  <2>5. ~LastExpiry(r, n + 1)
    BY <2>2 DEF LastExpiry
  <2>6. (\E i \in 4..Len(r) : LastExpiry(r, i) /\ ~Positive(r[i + 1]))
          <=> (\E i \in 4..n : LastExpiry(s, i) /\ ~Positive(s[i + 1]))
    BY <1>2, <2>4, <2>5
  <2>7. "expired" \in options \cup {o}
          <=> \E i \in 4..Len(r) : LastExpiry(r, i) /\ ~Positive(r[i + 1])
    BY <1>4, <2>6 DEF SetShape, n
  <2>8. \A p \in {"NX", "XX", "EX", "EXAT"} :
          p \in options \cup {o} <=> \E i \in 4..Len(r) : r[i] = p
    BY <1>3, <1>4 DEF SetShape, n
  <2>9. options \cup {o} \subseteq {"NX", "XX", "EX", "EXAT", "expired"}
    BY <1>4 DEF SetShape
  <2> QED  BY <2>3, <2>7, <2>8, <2>9 DEF SetShape
<1>5. ASSUME ExpireShape(s, options), o \in {"NX", "XX", "GT", "LT"}
      PROVE  ExpireShape(r, options \cup {o})
  <2>1. \A p \in {"NX", "XX", "GT", "LT"} :
          p \in options \cup {o} <=> \E i \in 4..Len(r) : r[i] = p
    BY <1>3, <1>5 DEF ExpireShape, n
  <2> QED  BY <1>5, <2>1 DEF ExpireShape
<1> QED  BY <1>4, <1>5

LEMMA ExpiryGrows ==
  ASSUME NEW s \in Texts, Len(s) >= 3, NEW options, SetShape(s, options),
         NEW r \in Texts, Len(r) = Len(s) + 2, \A i \in 1..Len(s) : r[i] = s[i],
         NEW o \in {"EX", "EXAT"}, NEW sec \in Seconds,
         r[Len(s) + 1] = o, r[Len(s) + 2] = Text[sec]
  PROVE  SetShape(r, (options \ {"expired"}) \cup {o} \cup Expired(sec))
<1> DEFINE n == Len(s)
           after == (options \ {"expired"}) \cup {o} \cup Expired(sec)
<1>1. n \in Nat /\ n >= 3 /\ Len(r) = n + 2 /\ \A i \in 4..n : r[i] = s[i]
  BY DEF Texts
<1>2. 4..Len(r) = (4..n) \cup {n + 1, n + 2} /\ r[n + 1] = o /\ r[n + 2] = Text[sec]
  BY <1>1
<1> HIDE DEF n
<1>3. Text[sec] \notin {"NX", "XX", "EX", "EXAT"} /\ (Positive(Text[sec]) <=> sec > 0)
  BY TextAssumption, NumberTexts
<1>4. ASSUME NEW p \in {"NX", "XX", "EX", "EXAT"}
      PROVE  (\E i \in 4..Len(r) : r[i] = p) <=> (\E i \in 4..n : s[i] = p) \/ p = o
  BY <1>1, <1>2, <1>3
<1>5. Expiry(r, n + 1) /\ ~Expiry(r, n + 2)
  BY <1>2, <1>3 DEF Expiry
<1>6. \A i \in 4..Len(r) : Expiry(r, i) => i < Len(r)
  BY <1>1, <1>2, <1>5
<1>7. ASSUME NEW i \in 4..Len(r) PROVE LastExpiry(r, i) <=> i = n + 1
  <2>1. ASSUME i \in 4..n PROVE ~LastExpiry(r, i)
    <3>1. n + 1 \in (i + 1)..Len(r)
      BY <1>1, <2>1
    <3> QED  BY <1>5, <3>1 DEF LastExpiry
  <2>2. LastExpiry(r, n + 1)
    <3>1. n + 1 < Len(r) /\ (n + 1 + 1)..Len(r) = {n + 2}
      BY <1>1
    <3> QED  BY <1>5, <3>1 DEF LastExpiry
  <2>3. ~LastExpiry(r, n + 2)
    BY <1>5 DEF LastExpiry
  <2>4. n + 1 # n + 2 /\ \A j \in 4..n : j # n + 1
    BY <1>1
  <2> QED  BY <1>2, <2>1, <2>2, <2>3, <2>4
<1>8. (\E i \in 4..Len(r) : LastExpiry(r, i) /\ ~Positive(r[i + 1])) <=> ~(sec > 0)
  <2>1. n + 1 \in 4..Len(r) /\ n + 1 + 1 = n + 2
    BY <1>1
  <2> QED  BY <1>2, <1>3, <1>7, <2>1
<1>9. "expired" \in after <=> ~(sec > 0)
  BY DEF Expired
<1>10. \A p \in {"NX", "XX", "EX", "EXAT"} :
         p \in after <=> \E i \in 4..Len(r) : r[i] = p
  <2>1. \A p \in {"NX", "XX", "EX", "EXAT"} : p \in after <=> p \in options \/ p = o
    BY DEF Expired
  <2> QED  BY <1>4, <2>1 DEF SetShape, n
<1>11. after \subseteq {"NX", "XX", "EX", "EXAT", "expired"}
  BY DEF SetShape, Expired
<1> QED  BY <1>6, <1>8, <1>9, <1>10, <1>11 DEF SetShape

-------------------------------------------------------------------------------
(* The shape that goes with a name. *)
LEMMA KeysListed ==
  ASSUME CmdTypes, NEW name \in {"MGET", "DEL"}, Sent = <<name>> \o given.keys
  PROVE  /\ Sent[1] = name /\ Len(Sent) = 1 + Len(given.keys)
         /\ \A i \in 1..Len(given.keys) : Sent[1 + i] = given.keys[i]
<1>1. given.keys \in Texts
  <2>1. given.keys \in Seq(Key)
    BY DEF CmdTypes
  <2> QED  BY <2>1, Spelled
<1>2. name \in Strings
  <2>1. name \in Literals
    BY DEF Literals
  <2> QED  BY <2>1, Spelled
<1> QED  BY <1>1, <1>2, Prefixed DEF Texts

EvalShape ==
  /\ cmd.key \in Key /\ given.options = {}
  /\ given.keys # <<>> => cmd.key = given.keys[1]
  /\ cmd.type = "Write" /\ Named({"EVAL"})
  /\ Len(given.keys) \in DOMAIN Text /\ Sent[3] = Text[Len(given.keys)]
  /\ Len(Sent) >= 3 + Len(given.keys)
  /\ \A i \in DOMAIN given.keys : Sent[3 + i] = given.keys[i]

LEMMA ByName ==
  ASSUME CmdInv
  PROVE  /\ Is("SET") => /\ KeySecond /\ cmd.type = "Write" /\ Len(Sent) >= 3
                         /\ SetShape(Sent, given.options)
         /\ Is("EXPIRE") => /\ KeySecond /\ cmd.type = "Write" /\ Len(Sent) >= 3
                            /\ ExpireShape(Sent, given.options)
         /\ Is("HINCRBY") => KeySecond /\ Plain("Write", {"HDEL", "HINCRBY"}, 2 + given.items)
         /\ Is("EVAL") => EvalShape
<1>1. Is("SET") \/ Is("EXPIRE") \/ Is("HINCRBY") \/ Is("EVAL") => ~SystemShape
  <2>1. <<"CLUSTER", "SLOTS">>[1] = "CLUSTER" /\ <<"READONLY">>[1] = "READONLY"
    OBVIOUS
  <2>2. SystemShape => Sent[1] \in {"CLUSTER", "READONLY"}
    BY <2>1 DEF SystemShape
  <2> QED  BY <2>2 DEF Is, Sent
<1>2. Is("SET") \/ Is("EXPIRE") \/ Is("HINCRBY") => ~KeysShape
  <2>1. KeysShape => Sent[1] \in {"MGET", "DEL", "MSET", "EVAL"}
    BY KeysListed DEF CmdInv, KeysShape, Named
  <2> QED  BY <2>1 DEF Is, Sent
<1>3. Is("EVAL") => ~OneKeyShape
  <2>1. OneKeyShape => Sent[1] # "EVAL"
    BY DEF OneKeyShape, Plain, Named, KeyOnly
  <2> QED  BY <2>1 DEF Is, Sent
<1>4. KeysShape /\ Is("EVAL") => EvalShape
  <2>1. Is("EVAL") => Sent # <<"MGET">> \o given.keys /\ Sent # <<"DEL">> \o given.keys
    BY KeysListed DEF CmdInv, Is, Sent
  <2>2. Is("EVAL") => ~Named({"MSET"})
    BY DEF Is, Named, Sent
  <2> QED  BY <2>1, <2>2 DEF KeysShape, EvalShape
<1>5. OneKeyShape /\ Is("SET")
        => /\ KeySecond /\ cmd.type = "Write" /\ Len(Sent) >= 3
           /\ SetShape(Sent, given.options)
  <2> SUFFICES ASSUME OneKeyShape, Is("SET") PROVE
           /\ KeySecond /\ cmd.type = "Write" /\ Len(Sent) >= 3
           /\ SetShape(Sent, given.options)
    OBVIOUS
  <2>1. Sent[1] = "SET"
    BY DEF Is, Sent
  <2> QED  BY <2>1 DEF OneKeyShape, Plain, Named, KeyOnly
<1>6. OneKeyShape /\ Is("EXPIRE")
        => /\ KeySecond /\ cmd.type = "Write" /\ Len(Sent) >= 3
           /\ ExpireShape(Sent, given.options)
  <2> SUFFICES ASSUME OneKeyShape, Is("EXPIRE") PROVE
           /\ KeySecond /\ cmd.type = "Write" /\ Len(Sent) >= 3
           /\ ExpireShape(Sent, given.options)
    OBVIOUS
  <2>1. Sent[1] = "EXPIRE"
    BY DEF Is, Sent
  <2> QED  BY <2>1 DEF OneKeyShape, Plain, Named, KeyOnly
<1>7. OneKeyShape /\ Is("HINCRBY")
        => KeySecond /\ Plain("Write", {"HDEL", "HINCRBY"}, 2 + given.items)
  <2> SUFFICES ASSUME OneKeyShape, Is("HINCRBY")
               PROVE  KeySecond /\ Plain("Write", {"HDEL", "HINCRBY"}, 2 + given.items)
    OBVIOUS
  <2>1. Sent[1] = "HINCRBY"
    BY DEF Is, Sent
  <2> QED  BY <2>1 DEF OneKeyShape, Plain, Named, KeyOnly
<1> QED  BY <1>1, <1>2, <1>3, <1>4, <1>5, <1>6, <1>7 DEF CmdInv

LEMMA Appended ==
  ASSUME CmdTypes, NEW components \in Texts, NEW options \in SUBSET Strings,
         NEW items \in Nat, Appends(components, options, items)
  PROVE  /\ CmdTypes' /\ Sent' = Sent \o components /\ Sent' \in Texts
         /\ cmd'.type = cmd.type /\ cmd'.key = cmd.key /\ given'.keys = given.keys
         /\ given'.options = options /\ given'.items = given.items + items
         /\ Len(Sent') = Len(Sent) + Len(components)
         /\ Len(Sent) \in Nat /\ Len(components) \in Nat
         /\ \A i \in 1..Len(Sent) : Sent'[i] = Sent[i]
         /\ \A i \in 1..Len(components) : Sent'[Len(Sent) + i] = components[i]
         /\ Sent'[1] = Sent[1]
<1>1. /\ cmd \in [type : Strings, key : Strings, components : Texts]
      /\ given \in [keys : Seq(Key), items : Nat, options : SUBSET Strings]
      /\ Sent \in Texts /\ Len(Sent) >= 1
  BY DEF CmdTypes, Sent
<1>2. /\ cmd' = [cmd EXCEPT !.components = Sent \o components]
      /\ given' = [given EXCEPT !.options = options, !.items = given.items + items]
  BY DEF Appends, Sent
<1>3. /\ Sent \o components \in Texts
      /\ Len(Sent \o components) = Len(Sent) + Len(components)
      /\ Len(Sent) \in Nat /\ Len(components) \in Nat
      /\ \A i \in 1..Len(Sent) : (Sent \o components)[i] = Sent[i]
      /\ \A i \in 1..Len(components) : (Sent \o components)[Len(Sent) + i] = components[i]
  BY <1>1, Grown
<1> DEFINE more == Sent \o components
<1> HIDE DEF more
<1>4. /\ cmd' \in [type : Strings, key : Strings, components : Texts]
      /\ cmd'.type = cmd.type /\ cmd'.key = cmd.key /\ cmd'.components = more
  BY <1>1, <1>2, <1>3 DEF more
<1>5. given.items + items \in Nat
  BY <1>1
<1>6. /\ given' \in [keys : Seq(Key), items : Nat, options : SUBSET Strings]
      /\ given'.keys = given.keys /\ given'.options = options
      /\ given'.items = given.items + items
  BY <1>1, <1>2, <1>5
<1>7. Sent' = more
  BY <1>4 DEF Sent
<1>8. 1 \in 1..Len(Sent) /\ Len(more) >= 1
  BY <1>1, <1>3 DEF more
<1>9. CmdTypes'
  BY <1>4, <1>6, <1>7, <1>8 DEF CmdTypes
<1> QED  BY <1>3, <1>4, <1>6, <1>7, <1>8, <1>9 DEF more

-------------------------------------------------------------------------------
(* Every call keeps the invariant. *)
LEMMA SetOptionKeeps == CmdInv /\ SetOption => CmdInv'
<1> SUFFICES ASSUME CmdInv, SetOption PROVE CmdInv'
  OBVIOUS
<1>1. /\ KeySecond /\ cmd.type = "Write" /\ Len(Sent) >= 3 /\ CmdTypes
      /\ SetShape(Sent, given.options) /\ Sent[1] = "SET"
  BY ByName DEF CmdInv, SetOption, Is, Sent
<1>2. given.options \in SUBSET Strings /\ Sent \in Texts /\ Len(Sent) \in Nat
  BY <1>1 DEF CmdTypes, Sent, Texts
<1>3. ASSUME NEW components \in Texts, NEW options \in SUBSET Strings,
             Appends(components, options, 0), SetShape(Sent', options)
      PROVE  CmdInv'
  <2>1. 0 \in Nat
    OBVIOUS
  <2>2. /\ CmdTypes' /\ cmd'.type = "Write" /\ cmd'.key = cmd.key
        /\ given'.keys = given.keys /\ given'.options = options
        /\ Len(Sent') = Len(Sent) + Len(components) /\ Len(components) \in Nat
        /\ \A i \in 1..Len(Sent) : Sent'[i] = Sent[i]
    BY <1>1, <1>3, <2>1, Appended
  <2>3. Len(Sent') >= 3 /\ Sent'[1] = "SET" /\ Sent'[2] = Sent[2]
    <3>1. 1 \in 1..Len(Sent) /\ 2 \in 1..Len(Sent)
      BY <1>1, <1>2
    <3> QED  BY <1>1, <1>2, <2>2, <3>1
  <2>4. KeySecond'
    BY <1>1, <2>2, <2>3 DEF KeySecond
  <2>5. SetShape(Sent', given'.options)
    BY <1>3, <2>2
  <2> QED  BY <2>2, <2>3, <2>4, <2>5 DEF CmdInv, OneKeyShape, Named
<1>4. ASSUME NEW o \in {"NX", "XX"}, Appends(<<o>>, given.options \cup {o}, 0)
      PROVE  CmdInv'
  <2>1. o \in Strings
    <3>1. o \in Literals
      BY DEF Literals
    <3> QED  BY <3>1, Spelled
  <2>2. /\ <<o>> \in Texts /\ Len(<<o>>) = 1 /\ <<o>>[1] = o
        /\ given.options \cup {o} \in SUBSET Strings /\ 0 \in Nat
    BY <1>2, <2>1 DEF Texts
  <2> DEFINE components == <<o>>
  <2> HIDE DEF components
  <2>3. /\ Sent' \in Texts /\ CmdTypes'
        /\ Len(Sent') = Len(Sent) + Len(components)
        /\ \A i \in 1..Len(Sent) : Sent'[i] = Sent[i]
        /\ \A i \in 1..Len(components) : Sent'[Len(Sent) + i] = components[i]
    BY <1>1, <1>4, <2>2, Appended DEF components
  <2>4. Sent' \in Texts /\ Len(Sent') = Len(Sent) + 1 /\ Sent'[Len(Sent) + 1] = o
    <3>1. 1 \in 1..Len(components) /\ components[1] = o /\ Len(components) = 1
      BY <2>2 DEF components
    <3> QED  BY <2>3, <3>1
  <2>5. SetShape(Sent', given.options \cup {o})
    BY <1>1, <1>2, <2>3, <2>4, NameGrows
  <2> QED  BY <1>3, <1>4, <2>2, <2>5
<1>5. ASSUME NEW o \in {"EX", "EXAT"}, NEW sec \in Seconds,
             Appends(<<o, Text[sec]>>,
                     (given.options \ {"expired"}) \cup {o} \cup Expired(sec), 0)
      PROVE  CmdInv'
  <2> DEFINE components == <<o, Text[sec]>>
             options == (given.options \ {"expired"}) \cup {o} \cup Expired(sec)
  <2>1. o \in Strings /\ Text[sec] \in Strings /\ "expired" \in Strings
    <3>1. o \in Literals /\ "expired" \in Literals
      BY DEF Literals
    <3>2. sec \in DOMAIN Text
      BY TextAssumption
    <3> QED  BY <3>1, <3>2, Spelled
  <2>2. /\ components \in Texts /\ Len(components) = 2
        /\ components[1] = o /\ components[2] = Text[sec] /\ 0 \in Nat
    BY <2>1 DEF Texts
  <2>3. options \in SUBSET Strings
    BY <1>2, <2>1 DEF Expired
  <2> HIDE DEF components, options
  <2>4. Appends(components, options, 0)
    BY <1>5 DEF components, options
  <2>5. /\ Sent' \in Texts /\ CmdTypes'
        /\ Len(Sent') = Len(Sent) + Len(components)
        /\ \A i \in 1..Len(Sent) : Sent'[i] = Sent[i]
        /\ \A i \in 1..Len(components) : Sent'[Len(Sent) + i] = components[i]
    BY <1>1, <2>2, <2>3, <2>4, Appended
  <2>6. /\ Sent' \in Texts /\ Len(Sent') = Len(Sent) + 2
        /\ Sent'[Len(Sent) + 1] = o /\ Sent'[Len(Sent) + 2] = Text[sec]
    <3>1. 1 \in 1..Len(components) /\ 2 \in 1..Len(components)
      BY <2>2
    <3> QED  BY <2>2, <2>5, <3>1
  <2>7. SetShape(Sent', options)
    BY <1>1, <1>2, <2>5, <2>6, ExpiryGrows DEF options
  <2> QED  BY <1>3, <2>2, <2>3, <2>4, <2>7
<1> QED  BY <1>4, <1>5 DEF SetOption

LEMMA ExpireOptionKeeps == CmdInv /\ ExpireOption => CmdInv'
<1> SUFFICES ASSUME CmdInv, ExpireOption PROVE CmdInv'
  OBVIOUS
<1>1. /\ KeySecond /\ cmd.type = "Write" /\ Len(Sent) >= 3 /\ CmdTypes
      /\ ExpireShape(Sent, given.options) /\ Sent[1] = "EXPIRE"
  BY ByName DEF CmdInv, ExpireOption, Is, Sent
<1>2. given.options \in SUBSET Strings /\ Sent \in Texts /\ Len(Sent) \in Nat
  BY <1>1 DEF CmdTypes, Sent, Texts
<1>3. PICK o \in {"NX", "XX", "GT", "LT"} : Appends(<<o>>, given.options \cup {o}, 0)
  BY DEF ExpireOption
<1>4. o \in Strings
  <2>1. o \in Literals
    BY DEF Literals
  <2> QED  BY <2>1, Spelled
<1> DEFINE components == <<o>>
           options == given.options \cup {o}
<1>5. /\ components \in Texts /\ Len(components) = 1 /\ components[1] = o
      /\ options \in SUBSET Strings /\ 0 \in Nat
  BY <1>2, <1>4 DEF Texts
<1> HIDE DEF components, options
<1>6. Appends(components, options, 0)
  BY <1>3 DEF components, options
<1>7. /\ Sent' \in Texts /\ CmdTypes'
      /\ cmd'.type = cmd.type /\ cmd'.key = cmd.key
      /\ given'.keys = given.keys /\ given'.options = options
      /\ Len(Sent') = Len(Sent) + Len(components)
      /\ \A i \in 1..Len(Sent) : Sent'[i] = Sent[i]
      /\ \A i \in 1..Len(components) : Sent'[Len(Sent) + i] = components[i]
  BY <1>1, <1>5, <1>6, Appended
<1>8. Sent' \in Texts /\ Len(Sent') = Len(Sent) + 1 /\ Sent'[Len(Sent) + 1] = o
  <2>1. 1 \in 1..Len(components)
    BY <1>5
  <2> QED  BY <1>5, <1>7, <2>1
<1>9. ExpireShape(Sent', options)
  BY <1>1, <1>2, <1>7, <1>8, NameGrows DEF options
<1>10. Len(Sent') >= 3 /\ Sent'[1] = "EXPIRE" /\ Sent'[2] = Sent[2]
  <2>1. 1 \in 1..Len(Sent) /\ 2 \in 1..Len(Sent)
    BY <1>1, <1>2
  <2> QED  BY <1>1, <1>2, <1>7, <1>8, <2>1
<1>11. KeySecond'
  BY <1>1, <1>7, <1>10 DEF KeySecond
<1>12. ExpireShape(Sent', given'.options)
  BY <1>7, <1>9
<1> QED  BY <1>1, <1>7, <1>10, <1>11, <1>12 DEF CmdInv, OneKeyShape, Named

LEMMA AddArgsKeeps == CmdInv /\ AddArgs => CmdInv'
<1> SUFFICES ASSUME CmdInv, AddArgs PROVE CmdInv'
  OBVIOUS
<1>1. EvalShape /\ CmdTypes /\ Sent[1] = "EVAL"
  BY ByName DEF CmdInv, AddArgs, Is, Sent
<1>2. /\ given.options \in SUBSET Strings /\ Len(Sent) \in Nat
      /\ given.keys \in Seq(Key)
  BY <1>1 DEF CmdTypes, Sent, Texts
<1>3. PICK args \in Args : Appends(Components(args), given.options, 0)
  BY DEF AddArgs
<1>4. Components(args) \in Texts /\ 0 \in Nat
  BY ComponentTexts
<1>5. /\ CmdTypes' /\ cmd'.type = cmd.type /\ cmd'.key = cmd.key
      /\ given'.keys = given.keys /\ given'.options = given.options
      /\ Len(Sent') = Len(Sent) + Len(Components(args)) /\ Len(Components(args)) \in Nat
      /\ \A i \in 1..Len(Sent) : Sent'[i] = Sent[i]
  BY <1>1, <1>2, <1>3, <1>4, Appended
<1>6. /\ Len(given.keys) \in Nat /\ DOMAIN given.keys = 1..Len(given.keys)
      /\ Len(Sent) >= 3 + Len(given.keys)
  BY <1>1, <1>2 DEF EvalShape
<1>7. Sent'[1] = "EVAL" /\ Sent'[3] = Sent[3] /\ Len(Sent') >= 3 + Len(given.keys)
  <2>1. 1 \in 1..Len(Sent) /\ 3 \in 1..Len(Sent)
    BY <1>2, <1>6
  <2> QED  BY <1>1, <1>2, <1>5, <1>6, <2>1
<1>8. ASSUME NEW i \in DOMAIN given.keys PROVE Sent'[3 + i] = given.keys[i]
  <2>1. 3 + i \in 1..Len(Sent)
    BY <1>2, <1>6
  <2> QED  BY <1>1, <1>5, <2>1 DEF EvalShape
<1>9. KeysShape'
  BY <1>1, <1>5, <1>7, <1>8 DEF EvalShape, KeysShape, Named
<1> QED  BY <1>5, <1>9 DEF CmdInv

LEMMA AddPublicKeeps == CmdInv /\ AddPublic => CmdInv'
<1> SUFFICES ASSUME CmdInv, AddPublic PROVE CmdInv'
  OBVIOUS
<1>1. /\ KeySecond /\ Plain("Write", {"HDEL", "HINCRBY"}, 2 + given.items)
      /\ CmdTypes /\ Sent[1] = "HINCRBY"
  BY ByName DEF CmdInv, AddPublic, Is, Sent
<1>2. /\ given.options \in SUBSET Strings /\ Len(Sent) \in Nat /\ given.items \in Nat
      /\ Len(Sent) = 2 + given.items /\ given.options = {} /\ cmd.type = "Write"
  BY <1>1 DEF CmdTypes, Sent, Texts, Plain
<1>3. PICK n \in Seconds : Appends(<<Text[n]>>, given.options, 1)
  BY DEF AddPublic
<1>4. Text[n] \in Strings
  BY TextAssumption, Spelled
<1> DEFINE components == <<Text[n]>>
<1>5. components \in Texts /\ Len(components) = 1 /\ 1 \in Nat
  BY <1>4 DEF Texts
<1> HIDE DEF components
<1>6. Appends(components, given.options, 1)
  BY <1>3 DEF components
<1>7. /\ CmdTypes' /\ cmd'.type = cmd.type /\ cmd'.key = cmd.key
      /\ given'.keys = given.keys /\ given'.options = given.options
      /\ given'.items = given.items + 1
      /\ Len(Sent') = Len(Sent) + Len(components)
      /\ \A i \in 1..Len(Sent) : Sent'[i] = Sent[i]
  BY <1>1, <1>2, <1>5, <1>6, Appended
<1>8. Len(Sent') = 2 + given'.items /\ Len(Sent') >= 2
  BY <1>2, <1>5, <1>7
<1>9. Sent'[1] = "HINCRBY" /\ Sent'[2] = Sent[2]
  <2>1. 1 \in 1..Len(Sent) /\ 2 \in 1..Len(Sent)
    BY <1>2
  <2> QED  BY <1>1, <1>7, <2>1
<1>10. KeySecond'
  BY <1>1, <1>7, <1>8, <1>9 DEF KeySecond
<1>11. Plain("Write", {"HDEL", "HINCRBY"}, 2 + given.items)'
  BY <1>2, <1>7, <1>8, <1>9 DEF Plain, Named
<1> QED  BY <1>7, <1>10, <1>11 DEF CmdInv, OneKeyShape

LEMMA StutterKeeps == CmdInv /\ UNCHANGED vars => CmdInv'
BY DEF CmdInv, CmdTypes, SystemShape, OneKeyShape, KeysShape, KeySecond, Plain, Named,
       Sent, vars

LEMMA CommandsInv == Spec => []CmdInv
<1>1. CmdInv /\ [Next]_vars => CmdInv'
  BY SetOptionKeeps, ExpireOptionKeeps, AddArgsKeeps, AddPublicKeeps, StutterKeeps DEF Next
<1> QED  BY InitInv, <1>1, PTL DEF Spec

-------------------------------------------------------------------------------
(* What the server makes of each shape. *)
LEMMA KeysFound == CmdInv => ServerKeys(Sent) = given.keys
<1> SUFFICES ASSUME CmdInv PROVE ServerKeys(Sent) = given.keys
  OBVIOUS
<1> DEFINE keys == given.keys
<1>0. /\ keys \in Seq(Key) /\ Len(keys) \in Nat /\ DOMAIN keys = 1..Len(keys)
      /\ Sent \in Texts /\ Sent \in Seq(Strings)
      /\ keys = [i \in 1..Len(keys) |-> keys[i]]
  BY DEF CmdInv, CmdTypes, Sent, Texts
<1>1. CASE SystemShape
  <2>1. <<"CLUSTER", "SLOTS">>[1] = "CLUSTER" /\ <<"READONLY">>[1] = "READONLY"
    OBVIOUS
  <2>2. Sent[1] \in {"READONLY", "CLUSTER"}
    BY <1>1, <2>1 DEF SystemShape
  <2> QED  BY <1>1, <2>2 DEF SystemShape, ServerKeys
<1>2. CASE OneKeyShape
  <2>1. Sent[1] \notin {"READONLY", "CLUSTER", "MGET", "DEL", "MSET", "EVAL"}
    BY <1>2 DEF OneKeyShape, Plain, Named, KeyOnly
  <2>2. ServerKeys(Sent) = <<Sent[2]>>
    BY <2>1 DEF ServerKeys
  <2> QED  BY <1>2, <2>2 DEF OneKeyShape, KeySecond
<1>3. ASSUME NEW name \in {"MGET", "DEL"}, Sent = <<name>> \o given.keys
      PROVE  ServerKeys(Sent) = given.keys
  <2>1. /\ Sent[1] = name /\ Len(Sent) = 1 + Len(keys)
        /\ \A i \in 1..Len(keys) : Sent[1 + i] = keys[i]
    BY <1>3, KeysListed DEF CmdInv
  <2>2. ServerKeys(Sent) = Tail(Sent)
    BY <2>1 DEF ServerKeys
  <2>3. Sent # <<>>
    BY <1>0, <2>1
  <2>4. /\ Tail(Sent) \in Seq(Strings) /\ Len(Tail(Sent)) = Len(Sent) - 1
        /\ \A i \in 1..Len(Tail(Sent)) : Tail(Sent)[i] = Sent[i + 1]
    BY <1>0, <2>3, HeadTailProperties
  <2>5. Len(Tail(Sent)) = Len(keys) /\ \A i \in 1..Len(keys) : Tail(Sent)[i] = keys[i]
    BY <1>0, <2>1, <2>4
  <2>6. keys \in Seq(Strings)
    BY <1>0, Spelled DEF Texts
  <2>7. Tail(Sent) = keys
    BY <2>4, <2>5, <2>6, SeqEqual
  <2> QED  BY <2>2, <2>7
<1>4. CASE EvalShape
  <2>1. NumberRead(Sent[3]) = Len(keys)
    BY <1>4, NumberTexts DEF EvalShape
  <2>2. ServerKeys(Sent) = SubSeq(Sent, 4, 3 + Len(keys))
    BY <1>4, <2>1 DEF EvalShape, Named, ServerKeys
  <2>3. SubSeq(Sent, 4, 3 + Len(keys)) = [i \in 1..Len(keys) |-> Sent[3 + i]]
    <3>1. SubSeq(Sent, 4, 3 + Len(keys)) = [i \in 1..(3 + Len(keys) - 4 + 1) |-> Sent[i + 4 - 1]]
      BY <1>0
    <3>2. 3 + Len(keys) - 4 + 1 = Len(keys) /\ \A i \in 1..Len(keys) : i + 4 - 1 = 3 + i
      BY <1>0
    <3> QED  BY <3>1, <3>2
  <2>4. \A i \in 1..Len(keys) : Sent[3 + i] = keys[i]
    BY <1>0, <1>4 DEF EvalShape
  <2> QED  BY <1>0, <2>2, <2>3, <2>4
<1>5. ASSUME Named({"MSET"}), Len(Sent) = 1 + 2 * Len(keys),
             \A i \in DOMAIN keys : Sent[2 * i] = keys[i]
      PROVE  ServerKeys(Sent) = given.keys
  <2>1. ServerKeys(Sent) = [i \in 1..(Len(Sent) \div 2) |-> Sent[2 * i]]
    BY <1>5 DEF Named, ServerKeys
  <2>2. Len(Sent) \div 2 = Len(keys)
    <3>1. \A n \in Nat : (1 + 2 * n) \div 2 = n
      OBVIOUS
    <3> QED  BY <1>0, <1>5, <3>1
  <2> QED  BY <1>0, <1>5, <2>1, <2>2
<1> QED
  BY <1>1, <1>2, <1>3, <1>4, <1>5 DEF CmdInv, KeysShape, EvalShape

(* KeysAreTheProgramsKeys: whatever the program asks for, the keys that    *)
(* the server takes from the components are the ones the program gave, in  *)
(* their order, and the first routed the command.                          *)
THEOREM KeysTaken == Spec => []KeysAreTheProgramsKeys
<1>1. CmdInv => KeysAreTheProgramsKeys
  <2> SUFFICES ASSUME CmdInv PROVE KeysAreTheProgramsKeys
    OBVIOUS
  <2>1. ServerKeys(AddTo) = given.keys
    BY KeysFound DEF AddTo, Sent
  <2>2. ASSUME given.keys # <<>> PROVE cmd.key = given.keys[1]
    <3>1. OneKeyShape => cmd.key = given.keys[1]
      BY DEF OneKeyShape, KeySecond
    <3> QED  BY <2>2, <3>1 DEF CmdInv, SystemShape, KeysShape
  <2> QED  BY <2>1, <2>2 DEF KeysAreTheProgramsKeys
<1> QED  BY CommandsInv, <1>1, PTL

(* No two options exclude each other, and no expiry is in the past. *)
Allowed(options) ==
  \A pair \in {{"NX", "XX"}, {"EX", "EXAT"}, {"NX", "GT"}, {"NX", "LT"},
                {"GT", "LT"}, {"expired"}} : ~(pair \subseteq options)

LEMMA AllowedMeans ==
  ASSUME NEW options
  PROVE  Allowed(options) <=>
           /\ ~("NX" \in options /\ "XX" \in options)
           /\ ~("EX" \in options /\ "EXAT" \in options)
           /\ ~("NX" \in options /\ "GT" \in options)
           /\ ~("NX" \in options /\ "LT" \in options)
           /\ ~("GT" \in options /\ "LT" \in options)
           /\ "expired" \notin options
BY DEF Allowed

LEMMA SetSyntax ==
  ASSUME NEW req, Len(req) \in Nat, req[1] = "SET", NEW options, SetShape(req, options)
  PROVE  Syntax(req) <=> Allowed(options)
<1> DEFINE Both(o, p) == {o, p} \subseteq { req[i] : i \in 4..Len(req) }
           InTime == \A i \in 4..(Len(req) - 1) :
                       Expiry(req, i) /\ (\A j \in (i + 1)..Len(req) : ~Expiry(req, j))
                         => Positive(req[i + 1])
<1>1. Syntax(req) <=> ~Both("NX", "XX") /\ ~Both("EX", "EXAT") /\ InTime
  BY DEF Syntax, Expiry
<1>2. ASSUME NEW o \in {"NX", "XX", "EX", "EXAT"}
      PROVE  o \in { req[i] : i \in 4..Len(req) } <=> o \in options
  BY DEF SetShape
<1>3. Both("NX", "XX") <=> "NX" \in options /\ "XX" \in options
  BY <1>2
<1>4. Both("EX", "EXAT") <=> "EX" \in options /\ "EXAT" \in options
  BY <1>2
<1>5. InTime <=> "expired" \notin options
  <2>1. ASSUME NEW i \in 4..Len(req)
        PROVE  i < Len(req) <=> i \in 4..(Len(req) - 1)
    OBVIOUS
  <2>2. 4..(Len(req) - 1) \subseteq 4..Len(req)
    OBVIOUS
  <2> QED  BY <2>1, <2>2 DEF SetShape, LastExpiry
<1>6. "GT" \notin options /\ "LT" \notin options
  BY DEF SetShape
<1> HIDE DEF Both, InTime
<1> QED  BY <1>1, <1>3, <1>4, <1>5, <1>6, AllowedMeans

LEMMA ExpireSyntax ==
  ASSUME NEW req, req[1] = "EXPIRE", NEW options, ExpireShape(req, options)
  PROVE  Syntax(req) <=> Allowed(options)
<1> DEFINE Both(o, p) == {o, p} \subseteq { req[i] : i \in 4..Len(req) }
<1>1. Syntax(req) <=> ~\E o \in {"XX", "GT", "LT"} : Both("NX", o) \/ Both("GT", "LT")
  BY DEF Syntax
<1>2. ASSUME NEW o \in {"NX", "XX", "GT", "LT"}
      PROVE  o \in { req[i] : i \in 4..Len(req) } <=> o \in options
  BY DEF ExpireShape
<1>3. \A o, p \in {"NX", "XX", "GT", "LT"} :
        Both(o, p) <=> o \in options /\ p \in options
  BY <1>2
<1>4. "EX" \notin options /\ "EXAT" \notin options /\ "expired" \notin options
  BY DEF ExpireShape
<1> HIDE DEF Both
<1> QED  BY <1>1, <1>3, <1>4, AllowedMeans

(* A command of one key runs unless there is nothing to store, read or     *)
(* delete, a field and an increment are missing, or the options exclude    *)
(* each other.                                                             *)
Complete ==
  /\ Is("HMGET") \/ Is("HDEL") \/ Is("HMSET") => given.items > 0
  /\ Is("HINCRBY") => given.items = 2

LEMMA OneKeyComplete ==
  ASSUME CmdTypes, OneKeyShape
  PROVE  Arity(Sent) <=> Complete
<1>0. Len(Sent) \in Nat /\ given.items \in Nat
  BY DEF CmdTypes, Sent, Texts
<1> DEFINE name == Sent[1]
<1>1. Complete <=> /\ name \in {"HMGET", "HDEL", "HMSET"} => given.items > 0
                   /\ name = "HINCRBY" => given.items = 2
  BY DEF Complete, Is, Sent
<1>2. CASE Plain("Read", KeyOnly, 2)
  BY <1>1, <1>2 DEF Plain, Named, KeyOnly, Arity
<1>3. CASE \/ Plain("Read", {"HGET"}, 3)
           \/ Plain("Write", {"SETNX", "INCRBY", "DECRBY"}, 3)
  BY <1>1, <1>3 DEF Plain, Named, Arity
<1>4. CASE Plain("Read", {"HMGET"}, 2 + given.items)
  BY <1>0, <1>1, <1>4 DEF Plain, Named, Arity
<1>5. CASE \/ Plain("Write", {"HSET"}, 4)
           \/ Named({"SETEX"}) /\ Len(Sent) = 4
  <2>1. name \in {"HSET", "SETEX"} /\ Len(Sent) = 4
    BY <1>5 DEF Plain, Named
  <2>2. Arity(Sent)
    <3>1. 4 % 2 = 0
      OBVIOUS
    <3>2. name = "SETEX" => Arity(Sent)
      BY <2>1 DEF Arity
    <3>3. name = "HSET" => Arity(Sent)
      BY <2>1, <3>1 DEF Arity
    <3> QED  BY <2>1, <3>2, <3>3
  <2> QED  BY <1>1, <2>1, <2>2
<1>6. CASE Plain("Write", {"HDEL", "HINCRBY"}, 2 + given.items)
  <2>1. name \in {"HDEL", "HINCRBY"} /\ Len(Sent) = 2 + given.items
    BY <1>6 DEF Plain, Named
  <2>2. name = "HDEL" => (Arity(Sent) <=> Len(Sent) >= 3)
    BY DEF Arity
  <2>3. name = "HINCRBY" => (Arity(Sent) <=> Len(Sent) = 4)
    BY DEF Arity
  <2>4. (Len(Sent) >= 3 <=> given.items > 0) /\ (Len(Sent) = 4 <=> given.items = 2)
    BY <1>0, <2>1
  <2> QED  BY <1>1, <2>1, <2>2, <2>3, <2>4
<1>7. CASE Plain("Write", {"HMSET"}, 2 + 2 * given.items)
  <2>1. name = "HMSET" /\ Len(Sent) = 2 + 2 * given.items
    BY <1>7 DEF Plain, Named
  <2>2. Len(Sent) % 2 = 0 /\ (Len(Sent) >= 4 <=> given.items > 0)
    <3>1. \A n \in Nat : (2 + 2 * n) % 2 = 0
      OBVIOUS
    <3> QED  BY <1>0, <2>1, <3>1
  <2>3. Arity(Sent) <=> Len(Sent) >= 4 /\ Len(Sent) % 2 = 0
    BY <2>1 DEF Arity
  <2> QED  BY <1>1, <2>1, <2>2, <2>3
<1>8. CASE Named({"SET", "EXPIRE"}) /\ Len(Sent) >= 3
  BY <1>1, <1>8 DEF Named, Arity
<1> QED
  BY <1>2, <1>3, <1>4, <1>5, <1>6, <1>7, <1>8 DEF OneKeyShape, Named

LEMMA OneKeySyntax ==
  ASSUME CmdTypes, OneKeyShape
  PROVE  Syntax(Sent) <=> Allowed(given.options)
<1>0. Len(Sent) \in Nat
  BY DEF CmdTypes, Sent, Texts
<1>1. ASSUME Sent[1] \notin {"SET", "EXPIRE", "SETEX"}, given.options = {}
      PROVE  Syntax(Sent) /\ Allowed(given.options)
  BY <1>1, AllowedMeans DEF Syntax
<1>2. ASSUME Sent[1] = "SETEX",
             given.options = IF Positive(Sent[3]) THEN {} ELSE {"expired"}
      PROVE  Syntax(Sent) <=> Allowed(given.options)
  <2>1. Syntax(Sent) <=> Positive(Sent[3])
    BY <1>2 DEF Syntax
  <2>2. /\ "NX" \notin given.options /\ "EX" \notin given.options
        /\ "GT" \notin given.options
        /\ "expired" \in given.options <=> ~Positive(Sent[3])
    BY <1>2
  <2> QED  BY <2>1, <2>2, AllowedMeans
<1>3. Sent[1] = "SET" /\ SetShape(Sent, given.options)
        => (Syntax(Sent) <=> Allowed(given.options))
  BY <1>0, SetSyntax
<1>4. Sent[1] = "EXPIRE" /\ ExpireShape(Sent, given.options)
        => (Syntax(Sent) <=> Allowed(given.options))
  BY ExpireSyntax
<1>5. \/ Sent[1] \notin {"SET", "EXPIRE", "SETEX"} /\ given.options = {}
      \/ /\ Sent[1] = "SETEX"
         /\ given.options = IF Positive(Sent[3]) THEN {} ELSE {"expired"}
      \/ Sent[1] = "SET" /\ SetShape(Sent, given.options)
      \/ Sent[1] = "EXPIRE" /\ ExpireShape(Sent, given.options)
  BY DEF OneKeyShape, Plain, Named, KeyOnly
<1> QED  BY <1>1, <1>2, <1>3, <1>4, <1>5

(* A command of several keys runs unless it has none; EVAL needs none.     *)
LEMMA KeysComplete ==
  ASSUME CmdTypes, KeysShape
  PROVE  /\ Arity(Sent) <=> (given.keys = <<>> => Is("EVAL"))
         /\ Syntax(Sent) /\ Allowed(given.options) /\ Complete
<1> DEFINE keys == given.keys
<1>1. /\ Len(Sent) \in Nat /\ Len(keys) \in Nat
      /\ keys = <<>> <=> Len(keys) = 0
  BY DEF CmdTypes, Sent, Texts
<1>2. \/ Sent[1] \in {"MGET", "DEL"} /\ Len(Sent) = 1 + Len(keys)
      \/ Sent[1] = "MSET" /\ Len(Sent) = 1 + 2 * Len(keys)
      \/ Sent[1] = "EVAL" /\ Len(Sent) >= 3 + Len(keys)
  BY KeysListed DEF KeysShape, Named
<1>3. Syntax(Sent)
  BY <1>2 DEF Syntax
<1>4. Allowed(given.options)
  BY AllowedMeans DEF KeysShape
<1>5. Complete
  BY <1>2 DEF Complete, Is, Sent
<1> HIDE DEF keys
<1>6. Is("EVAL") <=> Sent[1] = "EVAL"
  BY DEF Is, Sent
<1>7. CASE Sent[1] \in {"MGET", "DEL"} /\ Len(Sent) = 1 + Len(keys)
  <2>1. Arity(Sent) <=> Len(Sent) >= 2
    BY <1>7 DEF Arity
  <2> QED  BY <1>1, <1>3, <1>4, <1>5, <1>6, <1>7, <2>1 DEF keys
<1>8. CASE Sent[1] = "MSET" /\ Len(Sent) = 1 + 2 * Len(keys)
  <2>1. Arity(Sent) <=> Len(Sent) >= 3 /\ Len(Sent) % 2 = 1
    BY <1>8 DEF Arity
  <2>2. Len(Sent) % 2 = 1
    <3>1. \A n \in Nat : (1 + 2 * n) % 2 = 1
      OBVIOUS
    <3> QED  BY <1>1, <1>8, <3>1
  <2>3. Len(Sent) >= 3 <=> Len(keys) # 0
    BY <1>1, <1>8
  <2> QED  BY <1>1, <1>3, <1>4, <1>5, <1>6, <1>8, <2>1, <2>2, <2>3 DEF keys
<1>9. CASE Sent[1] = "EVAL" /\ Len(Sent) >= 3 + Len(keys)
  <2>1. Arity(Sent)
    BY <1>1, <1>9 DEF Arity
  <2> QED  BY <1>3, <1>4, <1>5, <1>6, <1>9, <2>1
<1> QED  BY <1>2, <1>7, <1>8, <1>9 DEF keys

LEMMA SameSlot ==
  ASSUME NEW keys \in Seq(Key), NEW key \in Key, keys # <<>> => key = keys[1]
  PROVE  (\A k \in Range(keys) : k \in Key /\ SlotOf[k] = SlotOf[key])
           <=> \A i, j \in DOMAIN keys : SlotOf[keys[i]] = SlotOf[keys[j]]
<1>1. Range(keys) = {keys[i] : i \in DOMAIN keys} /\ Range(keys) \subseteq Key
  BY DEF Range
<1>2. CASE keys = <<>>
  BY <1>1, <1>2
<1>3. CASE keys # <<>>
  <2>1. 1 \in DOMAIN keys /\ key = keys[1]
    BY <1>3
  <2> QED  BY <1>1, <2>1
<1> QED  BY <1>2, <1>3

(* RefusedForCause: the server that key and type find runs the command     *)
(* exactly when what the program asked has none of the causes it lists.    *)
THEOREM RefusedOnlyForCause == Spec => []RefusedForCause
<1>1. CmdInv => RefusedForCause
  <2> SUFFICES ASSUME CmdInv, cmd.type # "System"
               PROVE  Runs(Sent, SlotOf[cmd.key], cmd.type) <=>
                        /\ \A i, j \in DOMAIN given.keys :
                             SlotOf[given.keys[i]] = SlotOf[given.keys[j]]
                        /\ given.keys = <<>> => Is("EVAL")
                        /\ Complete /\ Allowed(given.options)
    BY Zenon DEF RefusedForCause, AddTo, Sent, Complete, Allowed
  <2> DEFINE OneSlot == \A i, j \in DOMAIN given.keys :
                          SlotOf[given.keys[i]] = SlotOf[given.keys[j]]
  <2>1. CmdTypes /\ (OneKeyShape \/ KeysShape)
    BY DEF CmdInv, SystemShape
  <2>2. cmd.type = "Read" => Sent[1] \notin ServerWrites
    BY <2>1, KeysListed DEF OneKeyShape, KeysShape, Plain, Named, KeyOnly, ServerWrites
  <2>3. /\ given.keys \in Seq(Key) /\ cmd.key \in Key
        /\ given.keys # <<>> => cmd.key = given.keys[1]
    BY <2>1 DEF CmdTypes, OneKeyShape, KeySecond, KeysShape
  <2>4. (\A k \in Range(given.keys) : k \in Key /\ SlotOf[k] = SlotOf[cmd.key]) <=> OneSlot
    BY <2>3, SameSlot
  <2> HIDE DEF OneSlot
  <2>5. Runs(Sent, SlotOf[cmd.key], cmd.type) <=> Arity(Sent) /\ Syntax(Sent) /\ OneSlot
    BY <2>2, <2>4, KeysFound DEF Runs
  <2>6. Arity(Sent) /\ Syntax(Sent)
          <=> (given.keys = <<>> => Is("EVAL")) /\ Complete /\ Allowed(given.options)
    <3>1. CASE OneKeyShape
      <4>1. given.keys # <<>>
        BY <3>1 DEF OneKeyShape, KeySecond
      <4> QED  BY <2>1, <3>1, <4>1, OneKeyComplete, OneKeySyntax
    <3>2. CASE KeysShape
      BY <2>1, <3>2, KeysComplete
    <3> QED  BY <2>1, <3>1, <3>2
  <2> QED  BY <2>5, <2>6 DEF OneSlot
<1> QED  BY CommandsInv, <1>1, PTL

===============================================================================
