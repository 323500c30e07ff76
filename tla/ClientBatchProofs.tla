----------------------------- MODULE ClientBatchProofs -----------------------------
(***************************************************************************)
(* Proofs about ClientBatch, for any commands with any number of values,   *)
(* any servers and offsets, batches of any length and any number of calls. *)
(***************************************************************************)
EXTENDS ClientBatch, FiniteSetTheorems, TLAPS

(* The batch refers to the variables the program owes it; lost are those   *)
(* of them where no object lives.                                          *)
Batch ==
  /\ client \in Clients
  /\ object \in [Command -> [lives : BOOLEAN, value : 1..MaxVersion]]
  /\ pending \in Seq(Command)
  /\ owed = {pending[i] : i \in DOMAIN pending}
  /\ lost = {c \in owed : ~object[c].lives}

(* A call that was sent has what Issued made of its values and its offset; *)
(* a server has replied to nothing or to all it was sent.                  *)
Sent(c) ==
  /\ client # "ByName" /\ c.lost = FALSE
  /\ c.issued \in Seq(Value) /\ c.issued # <<>>
  /\ c.skipped \in Nat /\ (c.skipped # 0 => client = "Redis")
  /\ c.req = [s \in Targets(c.issued) |-> Pipeline(c.issued, s)]
  /\ c.offset = [s \in Targets(c.issued) |->
                   c.skipped + Len(Lead(c.issued, s))]
  /\ c.mapping = Mapping(c.issued)
  /\ DOMAIN c.resp = Targets(c.issued)
  /\ \A s \in Targets(c.issued) : c.resp[s] = <<>> \/ c.resp[s] = c.req[s]
  /\ c.state = "ok" => \A s \in Targets(c.issued) : c.resp[s] = c.req[s]

CallInv(c) ==
  \/ c.state \in {"unused", "invalid_argument"} /\ c.lost = FALSE
  \/ c.state = "undefined" /\ (client # "ByName" => c.lost = TRUE)
  \/ c.state \in {"inflight", "ok", "failed"} /\ Sent(c)

Calls == DOMAIN call = Call /\ \A k \in Call : CallInv(call[k])

Inv == Batch /\ Calls

-------------------------------------------------------------------------------
(* Lemmas on the positions of a batch. *)

(* The positions of a server are finitely many.                            *)
LEMMA PositionsFinite ==
  ASSUME NEW values \in Seq(Value), NEW s
  PROVE  /\ Positions(values, s) \subseteq 1..Len(values)
         /\ IsFiniteSet(Positions(values, s))
         /\ Cardinality(Positions(values, s)) \in Nat
<1>1. DOMAIN values = 1..Len(values) /\ Len(values) \in Nat
  OBVIOUS
<1>2. Positions(values, s) \subseteq 1..Len(values)
  BY <1>1 DEF Positions
<1>3. IsFiniteSet(1..Len(values))
  BY <1>1, FS_Interval
<1> QED  BY <1>2, <1>3, FS_Subset, FS_CardinalityType

(* The positions that come before i. *)
Below(P, i) == {j \in P : j < i}

(* No two positions have the same number of positions before them.         *)
LEMMA BeforeIsRank ==
  ASSUME NEW P, P \subseteq Nat, IsFiniteSet(P), NEW i \in P
  PROVE  /\ Before(P, i) \in Nat /\ Before(P, i) + 1 \in 1..Cardinality(P)
         /\ \A j \in P : Before(P, j) = Before(P, i) => j = i
<1>1. ASSUME NEW j \in P
      PROVE  /\ IsFiniteSet(Below(P, j)) /\ Cardinality(Below(P, j)) \in Nat
             /\ IsFiniteSet(Below(P, j) \cup {j})
             /\ Cardinality(Below(P, j) \cup {j}) = Cardinality(Below(P, j)) + 1
             /\ Below(P, j) \cup {j} \in SUBSET P
  <2>1. Below(P, j) \in SUBSET P /\ j \notin Below(P, j)
    <3>1. j \in Nat
      OBVIOUS
    <3> QED  BY <3>1 DEF Below
  <2>2. IsFiniteSet(Below(P, j))
    BY <2>1, FS_Subset
  <2>3. Cardinality(Below(P, j)) \in Nat
    BY <2>2, FS_CardinalityType
  <2>4. /\ IsFiniteSet(Below(P, j) \cup {j})
        /\ Cardinality(Below(P, j) \cup {j}) = Cardinality(Below(P, j)) + 1
    BY <2>1, <2>2, FS_AddElement
  <2> QED  BY <2>1, <2>2, <2>3, <2>4
<1>2. Cardinality(P) \in Nat
  BY FS_CardinalityType
<1>3. Cardinality(Below(P, i)) + 1 <= Cardinality(P)
  <2>1. Cardinality(Below(P, i) \cup {i}) <= Cardinality(P)
    BY <1>1, FS_Subset
  <2> QED  BY <1>1, <2>1
<1>4. ASSUME NEW j \in P, NEW n \in P, n < j
      PROVE  Cardinality(Below(P, n)) # Cardinality(Below(P, j))
  <2>1. Below(P, n) \cup {n} \in SUBSET Below(P, j)
    <3>1. ASSUME NEW x \in P, x < n PROVE x < j
      <4>1. x \in Nat /\ n \in Nat /\ j \in Nat
        OBVIOUS
      <4> QED  BY <1>4, <3>1, <4>1
    <3> QED  BY <1>4, <3>1 DEF Below
  <2>2. IsFiniteSet(Below(P, j))
    BY <1>1
  <2>3. Cardinality(Below(P, n) \cup {n}) <= Cardinality(Below(P, j))
    BY <2>1, <2>2, FS_Subset
  <2>4. /\ Cardinality(Below(P, n)) \in Nat /\ Cardinality(Below(P, j)) \in Nat
        /\ Cardinality(Below(P, n) \cup {n}) = Cardinality(Below(P, n)) + 1
    BY <1>1
  <2> QED  BY <2>3, <2>4
<1>5. ASSUME NEW j \in P, Cardinality(Below(P, j)) = Cardinality(Below(P, i))
      PROVE  j = i
  <2>1. j \in Nat /\ i \in Nat
    OBVIOUS
  <2>2. ~(j < i) /\ ~(i < j)
    BY <1>4, <1>5
  <2> QED  BY <2>1, <2>2
<1>6. \A j : Before(P, j) = Cardinality(Below(P, j))
  BY DEF Before, Below
<1>7. Cardinality(Below(P, i)) \in Nat
      /\ Cardinality(Below(P, i)) + 1 \in 1..Cardinality(P)
  <2>1. Cardinality(Below(P, i)) \in Nat
    BY <1>1
  <2> QED  BY <1>2, <1>3, <2>1
<1> QED  BY <1>5, <1>6, <1>7

(* A position stands in its group behind those that come before it.        *)
LEMMA InGroup ==
  ASSUME NEW values \in Seq(Value), NEW s, NEW i \in Positions(values, s)
  PROVE  LET r == Before(Positions(values, s), i) IN
         /\ r \in Nat /\ r + 1 \in 1..Cardinality(Positions(values, s))
         /\ Group(values, s)[r + 1] = i
<1> DEFINE P == Positions(values, s)
           r == Before(P, i)
<1>1. P \subseteq Nat /\ IsFiniteSet(P)
  BY PositionsFinite
<1>2. Group(values, s) = [q \in 1..Cardinality(P) |->
                            CHOOSE j \in P : Before(P, j) = q - 1]
  BY DEF Group
<1> HIDE DEF P
<1>3. /\ r \in Nat /\ r + 1 \in 1..Cardinality(P) /\ i \in P
      /\ \A j \in P : Before(P, j) = r => j = i
  BY <1>1, BeforeIsRank DEF P
<1>4. (CHOOSE j \in P : Before(P, j) = (r + 1) - 1) = i
  <2>1. (r + 1) - 1 = r
    BY <1>3
  <2> QED  BY <1>3, <2>1
<1>5. Group(values, s)[r + 1] = i
  BY <1>2, <1>3, <1>4
<1> QED  BY <1>3, <1>5 DEF P

(* The pipeline of a server: what leads it, then the values of its group.  *)
LEMMA Pipelined ==
  ASSUME NEW values \in Seq(Value), NEW s
  PROVE  LET c == Cardinality(Positions(values, s)) IN
         /\ Len(Lead(values, s)) \in {0, 1} /\ c \in Nat
         /\ Len(Pipeline(values, s)) = Len(Lead(values, s)) + c
         /\ DOMAIN Pipeline(values, s) = 1..Len(Pipeline(values, s))
         /\ \A q \in 1..c : Pipeline(values, s)[Len(Lead(values, s)) + q]
                              = values[Group(values, s)[q]]
         /\ Len(Lead(values, s)) = 1 => Pipeline(values, s)[1] = READONLY
<1> DEFINE c == Cardinality(Positions(values, s))
           group == Group(values, s)
           lead == Lead(values, s)
           tail == [q \in 1..c |-> values[group[q]]]
           X == {READONLY} \cup {values[group[q]] : q \in 1..c}
<1>1. c \in Nat
  BY PositionsFinite
<1>2. DOMAIN group = 1..c
  BY DEF Group
<1>3. Pipeline(values, s) = lead \o tail
  <2>1. [q \in DOMAIN group |-> values[group[q]]] = tail
    BY <1>2
  <2> QED  BY <2>1 DEF Pipeline
<1>4. lead = <<>> \/ lead = <<READONLY>>
  BY DEF Lead
<1> HIDE DEF c, group, lead
<1>a. READONLY \in X
  OBVIOUS
<1>5. tail \in Seq(X) /\ Len(tail) = c
  BY <1>1
<1>6. \A q \in 1..c : tail[q] = values[group[q]]
  OBVIOUS
<1> HIDE DEF tail, X
<1>7. lead \in Seq(X) /\ Len(lead) \in {0, 1} /\ (Len(lead) = 1 => lead[1] = READONLY)
  <2>1. CASE lead = <<>>
    BY <2>1
  <2>2. CASE lead = <<READONLY>>
    <3>1. <<READONLY>> \in Seq(X) /\ Len(<<READONLY>>) = 1
          /\ <<READONLY>>[1] = READONLY
      BY <1>a
    <3> QED  BY <2>2, <3>1
  <2> QED  BY <1>4, <2>1, <2>2
<1>8. /\ lead \o tail \in Seq(X) /\ Len(lead \o tail) = Len(lead) + c
      /\ \A q \in 1..c : (lead \o tail)[Len(lead) + q] = tail[q]
      /\ Len(lead) = 1 => (lead \o tail)[1] = lead[1]
  BY <1>1, <1>5, <1>7
<1>9. DOMAIN (lead \o tail) = 1..Len(lead \o tail)
  BY <1>8
<1> QED  BY <1>1, <1>3, <1>6, <1>7, <1>8, <1>9 DEF c, group, lead

(* A batch has a server, and each command is at a position of its own.     *)
LEMMA SeveralTargets ==
  ASSUME NEW values \in Seq(Value), values # <<>>
  PROVE  /\ IsFiniteSet(Targets(values)) /\ Targets(values) # {}
         /\ Cardinality(Targets(values)) \in Nat \ {0}
         /\ \A i \in 1..Len(values) : client # "Redis" =>
              /\ ServerOf[values[i]] \in Targets(values)
              /\ i \in Positions(values, ServerOf[values[i]])
<1>1. DOMAIN values = 1..Len(values) /\ Len(values) \in Nat \ {0}
  OBVIOUS
<1>2. CASE client = "Redis"
  <2>1. Targets(values) = {CHOOSE s \in Server : TRUE}
    BY <1>2 DEF Targets
  <2>2. \A x : IsFiniteSet({x}) /\ Cardinality({x}) = 1 /\ {x} # {}
    BY FS_Singleton
  <2>3. IsFiniteSet(Targets(values)) /\ Targets(values) # {}
        /\ Cardinality(Targets(values)) = 1
    BY <2>1, <2>2
  <2> QED  BY <1>2, <2>3
<1>3. CASE client # "Redis"
  <2> DEFINE T == {ServerOf[values[i]] : i \in 1..Len(values)}
             g == [i \in 1..Len(values) |-> ServerOf[values[i]]]
  <2>1. Targets(values) = T
    BY <1>1, <1>3 DEF Targets
  <2>2. g \in Surjection(1..Len(values), T)
    BY DEF Surjection
  <2>3. IsFiniteSet(1..Len(values))
    BY <1>1, FS_Interval
  <2>4. ServerOf[values[1]] \in T /\ \A i \in 1..Len(values) : ServerOf[values[i]] \in T
    BY <1>1
  <2> HIDE DEF T, g
  <2>5. IsFiniteSet(T)
    BY <2>2, <2>3, FS_Surjection
  <2>6. Cardinality(T) \in Nat \ {0}
    BY <2>4, <2>5, FS_CardinalityType, FS_EmptySet
  <2>7. \A i \in 1..Len(values) : i \in Positions(values, ServerOf[values[i]])
    BY <1>1 DEF Positions
  <2> QED  BY <2>1, <2>4, <2>5, <2>6, <2>7
<1> QED  BY <1>2, <1>3

(* With one server the group is the batch.                                 *)
LEMMA OneTarget ==
  ASSUME NEW values \in Seq(Value), values # <<>>,
         Cardinality(Targets(values)) = 1
  PROVE  /\ Mapping(values) = <<>>
         /\ \E s : /\ Targets(values) = {s}
                   /\ Cardinality(Positions(values, s)) = Len(values)
                   /\ \A i \in 1..Len(values) : Group(values, s)[i] = i
<1> DEFINE n == Len(values)
<1>1. DOMAIN values = 1..n /\ n \in Nat
  OBVIOUS
<1>2. PICK s : Targets(values) = {s}
  BY SeveralTargets, FS_Singleton
<1>3. Positions(values, s) = 1..n
  <2>1. CASE client = "Redis"
    BY <1>1, <2>1 DEF Positions
  <2>2. CASE client # "Redis"
    <3>1. \A i \in 1..n : ServerOf[values[i]] = s
      BY <1>2, <2>2, SeveralTargets
    <3> QED  BY <1>1, <3>1 DEF Positions
  <2> QED  BY <2>1, <2>2
<1>4. Cardinality(1..n) = n
  BY <1>1, FS_Interval
<1>5. ASSUME NEW i \in 1..n PROVE Group(values, s)[i] = i
  <2>1. Below(1..n, i) = 1..(i - 1)
    BY <1>1 DEF Below
  <2>2. Cardinality(1..(i - 1)) = i - 1
    <3>1. i - 1 \in Nat /\ i - 1 \in Int
      BY <1>1
    <3>2. Cardinality(1..(i - 1)) = IF 1 > i - 1 THEN 0 ELSE (i - 1) - 1 + 1
      BY <3>1, FS_Interval
    <3> QED  BY <3>1, <3>2
  <2>3. Before(1..n, i) = i - 1
    BY <2>1, <2>2 DEF Before, Below
  <2>4. Group(values, s)[(i - 1) + 1] = i
    BY <1>3, <2>3, InGroup
  <2> QED  BY <1>1, <2>4
<1>6. Mapping(values) = <<>>
  BY DEF Mapping
<1> QED  BY <1>2, <1>3, <1>4, <1>5, <1>6

-------------------------------------------------------------------------------
(* What the Reply of a call that ended hands out at an index.              *)

(* With one server the offset alone decides which replies can be reached.  *)
LEMMA ReplyOfOne ==
  ASSUME NEW k, Sent(call[k]), call[k].state = "ok", NEW i \in Int,
         Cardinality(Targets(call[k].issued)) = 1
  PROVE  LET values == call[k].issued
             at == i + call[k].skipped
         IN  /\ DOMAIN call[k].mapping = {}
             /\ at >= Len(values) => GetRedisReply(k, i) = Ends("out_of_range")
             /\ at < Len(values) => GetRedisReply(k, i) # Ends("out_of_range")
             /\ at \in 0..(Len(values) - 1)
                  => GetRedisReply(k, i) = ReplyTo(values[at + 1])
             /\ at = -1 => GetRedisReply(k, i) =
                             IF client # "Redis" /\ values[1] \in Reads
                             THEN ReplyTo(READONLY) ELSE Ends("undefined")
<1> DEFINE values == call[k].issued
           n == Len(values)
           skipped == call[k].skipped
           at == i + skipped
<1>1. values \in Seq(Value) /\ values # <<>> /\ skipped \in Nat
  BY DEF Sent
<1>2. PICK s : /\ Targets(values) = {s} /\ Mapping(values) = <<>>
               /\ Cardinality(Positions(values, s)) = n
               /\ \A j \in 1..n : Group(values, s)[j] = j
  BY <1>1, OneTarget
<1> DEFINE L == Len(Lead(values, s))
           resp == Pipeline(values, s)
<1>3. /\ call[k].mapping = <<>> /\ DOMAIN call[k].resp = {s}
      /\ call[k].resp[s] = resp /\ call[k].offset[s] = skipped + L
  BY <1>2 DEF Sent
<1>4. /\ L \in {0, 1} /\ n \in Nat \ {0} /\ Len(resp) = L + n
      /\ DOMAIN resp = 1..(L + n)
      /\ \A j \in 1..n : resp[L + j] = values[j]
      /\ L = 1 => resp[1] = READONLY
  <2>1. n \in Nat \ {0}
    BY <1>1
  <2>2. /\ L \in {0, 1} /\ Len(resp) = L + n /\ DOMAIN resp = 1..Len(resp)
        /\ \A j \in 1..n : resp[L + j] = values[Group(values, s)[j]]
        /\ L = 1 => resp[1] = READONLY
    <3> HIDE DEF values, n, L, resp
    <3>1. Cardinality(Positions(values, s)) = n
      BY <1>2
    <3> QED  BY <1>1, <3>1, Pipelined DEF L, resp
  <2>3. \A j \in 1..n : resp[L + j] = values[j]
    <3> HIDE DEF n, L, resp
    <3> QED  BY <1>2, <2>2
  <2> HIDE DEF values, n, L, resp
  <2> QED  BY <2>1, <2>2, <2>3
<1>5. L = 1 <=> client # "Redis" /\ values[1] \in Reads
  <2>1. Group(values, s)[1] = 1
    BY <1>2, <1>4
  <2> QED  BY <2>1 DEF Lead
<1> HIDE DEF values, n, skipped, L, resp
<1>6. GetRedisReply(k, i) =
        IF Len(resp) <= i + (skipped + L) THEN Ends("out_of_range")
        ELSE IF i + (skipped + L) + 1 \in DOMAIN resp
        THEN ReplyTo(resp[i + (skipped + L) + 1])
        ELSE Ends("undefined")
  <2>1. (CHOOSE t \in DOMAIN call[k].resp : TRUE) = s
    BY <1>3
  <2> QED  BY <1>3, <2>1 DEF GetRedisReply
<1>7. \A v : /\ ReplyTo(v) # Ends("out_of_range")
             /\ Ends("undefined") # Ends("out_of_range")
  BY DEF ReplyTo, Ends
<1>8. at >= n => GetRedisReply(k, i) = Ends("out_of_range")
  BY <1>1, <1>4, <1>6 DEF skipped
<1>9. at < n => GetRedisReply(k, i) # Ends("out_of_range")
  <2> SUFFICES ASSUME at < n PROVE ~(Len(resp) <= i + (skipped + L))
    BY <1>6, <1>7
  <2> QED  BY <1>1, <1>4 DEF skipped
<1>10. ASSUME at \in 0..(n - 1)
       PROVE  GetRedisReply(k, i) = ReplyTo(values[at + 1])
  <2>1. /\ ~(Len(resp) <= i + (skipped + L)) /\ at + 1 \in 1..n
        /\ i + (skipped + L) + 1 \in 1..(L + n)
        /\ i + (skipped + L) + 1 = L + (at + 1)
    BY <1>1, <1>4, <1>10
  <2> HIDE DEF at
  <2> QED  BY <1>4, <1>6, <2>1
<1>11. ASSUME at = -1
       PROVE  GetRedisReply(k, i) = IF L = 1 THEN ReplyTo(READONLY)
                                    ELSE Ends("undefined")
  <2>1. i + (skipped + L) = L - 1
    BY <1>1, <1>4, <1>11
  <2>2. /\ ~(Len(resp) <= L - 1) /\ (L - 1) + 1 = L
        /\ (L \in 1..(L + n) <=> L = 1)
    BY <1>4
  <2> QED  BY <1>4, <1>6, <2>1, <2>2
<1> QED  BY <1>3, <1>5, <1>8, <1>9, <1>10, <1>11 DEF values, n, skipped

(* With several servers _mapping.at refuses what is not in the batch.      *)
LEMMA ReplyOfSeveral ==
  ASSUME NEW k, Sent(call[k]), call[k].state = "ok", NEW i \in Int,
         Cardinality(Targets(call[k].issued)) # 1
  PROVE  LET values == call[k].issued
         IN  /\ DOMAIN call[k].mapping # {} /\ call[k].skipped = 0
             /\ i \notin 0..(Len(values) - 1)
                  => GetRedisReply(k, i) = Ends("out_of_range")
             /\ i \in 0..(Len(values) - 1)
                  => GetRedisReply(k, i) = ReplyTo(values[i + 1])
<1> DEFINE values == call[k].issued
           n == Len(values)
<1>1. values \in Seq(Value) /\ values # <<>>
  BY DEF Sent
<1>2. DOMAIN values = 1..n /\ n \in Nat \ {0}
  BY <1>1
<1>3. client # "Redis" /\ call[k].skipped = 0
  <2>1. client = "Redis" => Cardinality(Targets(values)) = 1
    BY FS_Singleton DEF Targets
  <2> QED  BY <2>1 DEF Sent
<1>4. Mapping(values) =
        [j \in 1..n |-> [server |-> ServerOf[values[j]],
                         index |-> Before(Positions(values, ServerOf[values[j]]), j)]]
  BY <1>2 DEF Mapping
<1>5. /\ call[k].mapping = Mapping(values) /\ call[k].mapping # <<>>
      /\ DOMAIN call[k].mapping = 1..n /\ 1 \in 1..n
  <2>1. call[k].mapping = Mapping(values)
    BY DEF Sent
  <2>2. DOMAIN Mapping(values) = 1..n /\ 1 \in 1..n
    BY <1>2, <1>4
  <2>3. DOMAIN <<>> = {}
    OBVIOUS
  <2> QED  BY <2>1, <2>2, <2>3
<1> HIDE DEF values, n
<1>6. ASSUME i \notin 0..(n - 1) PROVE GetRedisReply(k, i) = Ends("out_of_range")
  <2>1. i + 1 \notin 1..n
    BY <1>2, <1>6
  <2> QED  BY <1>5, <2>1 DEF GetRedisReply
<1>7. ASSUME i \in 0..(n - 1) PROVE GetRedisReply(k, i) = ReplyTo(values[i + 1])
  <2> DEFINE s == ServerOf[values[i + 1]]
             P == Positions(values, s)
             r == Before(P, i + 1)
             L == Len(Lead(values, s))
             resp == Pipeline(values, s)
  <2>1. i + 1 \in 1..n
    BY <1>2, <1>7
  <2>2. s \in Targets(values) /\ i + 1 \in P
    BY <1>1, <1>3, <2>1, SeveralTargets DEF n
  <2>3. /\ call[k].resp[s] = resp /\ call[k].offset[s] = L
    <3>1. L \in {0, 1} /\ 0 + L = L
      BY <1>1, Pipelined
    <3> QED  BY <1>3, <2>2, <3>1 DEF Sent, values
  <2>4. call[k].mapping[i + 1] = [server |-> s, index |-> r]
    BY <1>4, <1>5, <2>1
  <2>5. /\ r \in Nat /\ r + 1 \in 1..Cardinality(P)
        /\ Group(values, s)[r + 1] = i + 1
    BY <1>1, <2>2, InGroup
  <2>6. /\ L \in {0, 1} /\ Cardinality(P) \in Nat
        /\ Len(resp) = L + Cardinality(P) /\ DOMAIN resp = 1..Len(resp)
        /\ resp[L + (r + 1)] = values[i + 1]
    BY <1>1, <2>5, Pipelined
  <2> HIDE DEF s, P, r, L, resp
  <2>7. /\ ~(Len(resp) <= r + L) /\ (r + L) + 1 \in DOMAIN resp
        /\ (r + L) + 1 = L + (r + 1)
    BY <2>5, <2>6
  <2>8. GetRedisReply(k, i) = ReplyTo(resp[(r + L) + 1])
    BY <1>5, <2>1, <2>3, <2>4, <2>7 DEF GetRedisReply
  <2> QED  BY <2>6, <2>7, <2>8
<1> QED  BY <1>3, <1>5, <1>6, <1>7 DEF values, n

-------------------------------------------------------------------------------
(* The invariant. *)

LEMMA InvInit == Init => Inv
<1> SUFFICES ASSUME Init PROVE Inv
  OBVIOUS
<1>1. Batch
  <2>1. 1 \in 1..MaxVersion
    BY BoundAssumption
  <2>2. object \in [Command -> [lives : BOOLEAN, value : 1..MaxVersion]]
    BY <2>1 DEF Init
  <2> QED  BY <2>2, ClientAssumption DEF Init, Batch
<1>2. Calls
  BY DEF Init, Calls, CallInv, Nothing
<1> QED  BY <1>1, <1>2 DEF Inv

(* What is said of a call depends on the client, which never changes.      *)
LEMMA SameClient ==
  ASSUME client' = client
  PROVE  \A c : CallInv(c)' <=> CallInv(c)
<1>1. \A values, s : Lead(values, s)' = Lead(values, s)
                     /\ Group(values, s)' = Group(values, s)
                     /\ Positions(values, s)' = Positions(values, s)
                     /\ Targets(values)' = Targets(values)
  BY DEF Lead, Group, Positions, Targets
<1>2. \A values, s : Pipeline(values, s)' = Pipeline(values, s)
                     /\ Mapping(values)' = Mapping(values)
  BY <1>1 DEF Pipeline, Mapping
<1>3. \A c : Sent(c)' <=> Sent(c)
  BY <1>1, <1>2 DEF Sent
<1> QED  BY <1>3 DEF CallInv

(* What concerns a call alone: no other step touches a call.               *)
LEMMA OtherCalls ==
  ASSUME Calls, client' = client, NEW k \in Call, NEW c,
         call' = [call EXCEPT ![k] = c], CallInv(c)
  PROVE  Calls'
<1>1. /\ DOMAIN call' = Call /\ call'[k] = c
      /\ \A j \in Call : j # k => call'[j] = call[j]
  BY DEF Calls
<1>2. \A r : CallInv(r)' <=> CallInv(r)
  BY SameClient
<1> QED  BY <1>1, <1>2 DEF Calls

(* What Issued makes is a call that was sent.                              *)
LEMMA IssuedIsSent ==
  ASSUME NEW values \in Seq(Value), values # <<>>, NEW offset \in Nat,
         client # "ByName", offset # 0 => client = "Redis"
  PROVE  /\ CallInv(Issued(values, offset))
         /\ CallInv([Issued(values, offset) EXCEPT !.lost = FALSE])
<1> SUFFICES ASSUME NEW c, c = Issued(values, offset)
                    \/ c = [Issued(values, offset) EXCEPT !.lost = FALSE]
             PROVE  CallInv(c)
  OBVIOUS
<1> DEFINE req == [s \in Targets(values) |-> Pipeline(values, s)]
           off == [s \in Targets(values) |-> offset + Len(Lead(values, s))]
           resp == [s \in Targets(values) |-> <<>>]
           mapping == Mapping(values)
<1>1. Issued(values, offset) =
        [state |-> "inflight", issued |-> values, req |-> req, offset |-> off,
         resp |-> resp, mapping |-> mapping, skipped |-> offset, lost |-> FALSE]
  BY DEF Issued
<1>2. DOMAIN resp = Targets(values) /\ \A s \in Targets(values) : resp[s] = <<>>
  OBVIOUS
<1> HIDE DEF req, off, resp, mapping
<1>3. /\ c.state = "inflight" /\ c.issued = values /\ c.skipped = offset
      /\ c.req = req /\ c.offset = off /\ c.resp = resp
      /\ c.mapping = mapping /\ c.lost = FALSE
  BY <1>1
<1>4. Sent(c)
  BY <1>2, <1>3 DEF Sent, req, off, mapping
<1> QED  BY <1>3, <1>4 DEF CallInv

(* The steps, one by one.                                                  *)
LEMMA ExecuteKeeps ==
  ASSUME Inv, NEW k \in Call, NEW offset \in Offsets, Execute(k, offset)
  PROVE  Inv'
<1>0. Batch /\ Calls
  BY DEF Inv
<1>1. Batch'
  BY <1>0 DEF Execute, Batch
<1>2. offset \in Nat /\ (offset # 0 => client = "Redis")
  BY ValueAssumption DEF Execute
<1> DEFINE values == [i \in DOMAIN pending |-> Current(pending[i])]
<1>3. CASE pending = <<>>
  <2>1. CallInv(Nothing("invalid_argument"))
    BY DEF CallInv, Nothing
  <2> QED  BY <1>0, <1>1, <1>3, <2>1, OtherCalls DEF Inv, Execute
<1>4. lost # {} <=> Dangling
  BY <1>0 DEF Batch, Dangling
<1>5. CASE pending # <<>> /\ (client = "ByName" \/ Dangling)
  <2> DEFINE c == [Nothing("undefined") EXCEPT !.lost = (lost # {})]
  <2>1. c.state = "undefined" /\ c.lost = (lost # {})
    BY DEF Nothing
  <2>2. client # "ByName" => c.lost = TRUE
    BY <1>4, <1>5, <2>1
  <2>3. call' = [call EXCEPT ![k] = c] /\ client' = client
    BY <1>5 DEF Execute
  <2> HIDE DEF c
  <2>4. CallInv(c)
    BY <2>1, <2>2 DEF CallInv
  <2> QED  BY <1>0, <1>1, <2>3, <2>4, OtherCalls DEF Inv
<1>6. CASE pending # <<>> /\ client # "ByName" /\ ~Dangling
  <2>1. (lost # {}) = FALSE
    BY <1>4, <1>6
  <2>2. /\ call' = [call EXCEPT ![k] = [Issued(values, offset) EXCEPT !.lost = FALSE]]
        /\ client' = client
    BY <1>6, <2>1 DEF Execute
  <2>3. values \in Seq(Value) /\ values # <<>>
    <3>1. /\ DOMAIN pending = 1..Len(pending) /\ Len(pending) \in Nat \ {0}
          /\ \A i \in 1..Len(pending) : pending[i] \in Command
      BY <1>0, <1>6 DEF Batch
    <3>2. \A i \in 1..Len(pending) : Current(pending[i]) \in Value
      BY <1>0, <3>1 DEF Batch, Current, Value
    <3>3. values = [i \in 1..Len(pending) |-> Current(pending[i])]
      BY <3>1
    <3> HIDE DEF values
    <3>4. values \in Seq(Value) /\ Len(values) = Len(pending)
      BY <3>1, <3>2, <3>3
    <3> QED  BY <3>1, <3>4
  <2> HIDE DEF values
  <2>4. CallInv([Issued(values, offset) EXCEPT !.lost = FALSE])
    BY <1>2, <1>6, <2>3, IssuedIsSent
  <2> QED  BY <1>0, <1>1, <2>2, <2>4, OtherCalls DEF Inv
<1> QED  BY <1>3, <1>5, <1>6

LEMMA ExecuteOneKeeps ==
  ASSUME Inv, NEW k \in Call, NEW c \in Command, ExecuteOne(k, c)
  PROVE  Inv'
<1>0. Batch /\ Calls /\ Batch' /\ client' = client
  BY DEF Inv, ExecuteOne, Batch
<1>1. Current(c) \in Value
  BY <1>0 DEF Batch, Current, Value
<1>2. <<Current(c)>> \in Seq(Value) /\ <<Current(c)>> # <<>>
  BY <1>1
<1>3. CASE client = "ByName"
  <2>1. CallInv(Nothing("undefined"))
    BY <1>3 DEF CallInv, Nothing
  <2> QED  BY <1>0, <1>3, <2>1, OtherCalls DEF Inv, ExecuteOne
<1>4. CASE client # "ByName"
  <2>1. CallInv(Issued(<<Current(c)>>, 0))
    BY <1>2, <1>4, IssuedIsSent
  <2> QED  BY <1>0, <1>4, <2>1, OtherCalls DEF Inv, ExecuteOne
<1> QED  BY <1>3, <1>4

LEMMA AnswerKeeps ==
  ASSUME Inv, NEW k \in Call, NEW s \in DOMAIN call[k].req, Answer(k, s)
  PROVE  Inv'
<1>0. Batch /\ Calls /\ Batch' /\ client' = client
  BY DEF Inv, Answer, Batch
<1> DEFINE c == call[k]
           d == [c EXCEPT !.state = Progress(s, k), !.resp[s] = c.req[s]]
<1>1. c.state = "inflight" /\ call' = [call EXCEPT ![k] = d]
  BY DEF Answer
<1>2. Sent(c)
  BY <1>0, <1>1 DEF Calls, CallInv
<1>3. /\ d.state = Progress(s, k) /\ d.resp = [c.resp EXCEPT ![s] = c.req[s]]
      /\ d.issued = c.issued /\ d.req = c.req /\ d.offset = c.offset
      /\ d.mapping = c.mapping /\ d.skipped = c.skipped /\ d.lost = c.lost
  OBVIOUS
<1> HIDE DEF d
<1>4. s \in Targets(c.issued) /\ DOMAIN c.resp = Targets(c.issued)
  BY <1>2 DEF Sent
<1>5. \A t \in Targets(c.issued) : d.resp[t] = IF t = s THEN c.req[s] ELSE c.resp[t]
  BY <1>3, <1>4
<1>6. d.state \in {"inflight", "ok"}
  BY <1>3 DEF Progress
<1>7. d.state = "ok" => \A t \in Targets(c.issued) : d.resp[t] = c.req[t]
  <2> SUFFICES ASSUME d.state = "ok", NEW t \in Targets(c.issued), t # s
               PROVE  c.resp[t] = c.req[t]
    BY <1>5
  <2>1. c.resp[t] # <<>>
    BY <1>2, <1>3 DEF Progress, Sent
  <2> QED  BY <1>2, <2>1 DEF Sent
<1>8. CallInv(d)
  <2>1. Sent(d)
    BY <1>2, <1>3, <1>4, <1>5, <1>7 DEF Sent
  <2> QED  BY <1>6, <2>1 DEF CallInv
<1> QED  BY <1>0, <1>1, <1>8, OtherCalls DEF Inv

LEMMA InvNext == Inv /\ [Next]_vars => Inv'
<1> SUFFICES ASSUME Inv, [Next]_vars PROVE Inv'
  OBVIOUS
<1>0. Batch /\ Calls
  BY DEF Inv
<1>a. UNCHANGED <<client, call>> => Calls'
  BY <1>0, SameClient DEF Calls
<1>1. ASSUME NEW c \in Command, Assign(c) PROVE Inv'
  <2> DEFINE new == [lives |-> TRUE, value |-> object[c].value + 1]
  <2>1. new \in [lives : BOOLEAN, value : 1..MaxVersion]
    <3>1. object[c].value \in 1..MaxVersion /\ object[c].value < MaxVersion
      BY <1>0, <1>1 DEF Batch, Assign
    <3>2. object[c].value + 1 \in 1..MaxVersion
      BY <3>1, BoundAssumption
    <3> QED  BY <3>2
  <2>2. object' = [object EXCEPT ![c] = new]
    BY <1>1 DEF Assign
  <2>3. new.lives = TRUE
    OBVIOUS
  <2> HIDE DEF new
  <2>4. /\ object' \in [Command -> [lives : BOOLEAN, value : 1..MaxVersion]]
        /\ \A d \in Command : object'[d] = IF d = c THEN new ELSE object[d]
    BY <1>0, <2>1, <2>2 DEF Batch
  <2>5. owed \subseteq Command
    BY <1>0 DEF Batch
  <2>6. lost' = {d \in owed' : ~object'[d].lives}
    BY <1>0, <1>1, <2>3, <2>4, <2>5 DEF Batch, Assign
  <2>7. Batch'
    BY <1>0, <1>1, <2>4, <2>6 DEF Batch, Assign
  <2> QED  BY <1>1, <1>a, <2>7 DEF Inv, Assign
<1>2. ASSUME NEW c \in Command, Destroy(c) PROVE Inv'
  <2>1. object' = [object EXCEPT ![c].lives = FALSE]
    BY <1>2 DEF Destroy
  <2>2. /\ object' \in [Command -> [lives : BOOLEAN, value : 1..MaxVersion]]
        /\ object'[c].lives = FALSE
        /\ \A d \in Command : d # c => object'[d] = object[d]
    BY <1>0, <2>1 DEF Batch
  <2>3. owed \subseteq Command
    BY <1>0 DEF Batch
  <2>4. lost' = {d \in owed' : ~object'[d].lives}
    BY <1>0, <1>2, <2>2, <2>3 DEF Batch, Destroy
  <2>5. Batch'
    BY <1>0, <1>2, <2>2, <2>4 DEF Batch, Destroy
  <2> QED  BY <1>2, <1>a, <2>5 DEF Inv, Destroy
<1>3. ASSUME NEW c \in Command, Add(c) PROVE Inv'
  <2>1. /\ pending \in Seq(Command) /\ pending' = Append(pending, c)
        /\ owed' = owed \cup {c} /\ object[c].lives
        /\ UNCHANGED <<client, object, call, lost>>
    BY <1>0, <1>3 DEF Batch, Add
  <2>2. /\ pending' \in Seq(Command) /\ DOMAIN pending' = 1..(Len(pending) + 1)
        /\ DOMAIN pending = 1..Len(pending) /\ Len(pending) \in Nat
        /\ pending'[Len(pending) + 1] = c
        /\ \A i \in 1..Len(pending) : pending'[i] = pending[i]
    BY <2>1
  <2>3. {pending'[i] : i \in DOMAIN pending'}
          = {pending[i] : i \in DOMAIN pending} \cup {c}
    <3> DEFINE n == Len(pending)
    <3>1. /\ n \in Nat /\ n + 1 \in 1..(n + 1)
          /\ \A i \in 1..(n + 1) : i \in 1..n \/ i = n + 1
          /\ \A i \in 1..n : i \in 1..(n + 1)
      BY <2>2
    <3> HIDE DEF n
    <3> QED  BY <2>2, <3>1 DEF n
  <2>4. owed' = {pending'[i] : i \in DOMAIN pending'}
    BY <1>0, <2>1, <2>3 DEF Batch
  <2>5. lost' = {d \in owed' : ~object'[d].lives}
    BY <1>0, <2>1 DEF Batch
  <2>6. Batch'
    BY <1>0, <2>1, <2>2, <2>4, <2>5 DEF Batch
  <2> QED  BY <1>a, <2>1, <2>6 DEF Inv
<1>4. CASE Reset
  <2>1. DOMAIN pending' = {} /\ pending' \in Seq(Command)
    BY <1>4 DEF Reset
  <2>2. Batch'
    BY <1>0, <1>4, <2>1 DEF Batch, Reset
  <2> QED  BY <1>4, <1>a, <2>2 DEF Inv, Reset
<1>5. ASSUME NEW k \in Call, NEW o \in Offsets, Execute(k, o) PROVE Inv'
  BY <1>5, ExecuteKeeps
<1>6. ASSUME NEW k \in Call, NEW c \in Command, ExecuteOne(k, c) PROVE Inv'
  BY <1>6, ExecuteOneKeeps
<1>7. ASSUME NEW k \in Call, NEW s \in DOMAIN call[k].req, Answer(k, s) PROVE Inv'
  BY <1>7, AnswerKeeps
<1>8. ASSUME NEW k \in Call, Fail(k) PROVE Inv'
  <2> DEFINE d == [call[k] EXCEPT !.state = "failed"]
  <2>1. /\ call[k].state = "inflight" /\ call' = [call EXCEPT ![k] = d]
        /\ UNCHANGED <<client, object, pending, owed, lost>>
    BY <1>8 DEF Fail
  <2>2. Sent(call[k])
    BY <1>0, <2>1 DEF Calls, CallInv
  <2>3. d.state = "failed" /\ d.issued = call[k].issued /\ d.req = call[k].req
        /\ d.offset = call[k].offset /\ d.mapping = call[k].mapping
        /\ d.skipped = call[k].skipped /\ d.lost = call[k].lost
        /\ d.resp = call[k].resp
    OBVIOUS
  <2> HIDE DEF d
  <2>4. Sent(d)
    BY <2>2, <2>3 DEF Sent
  <2>5. CallInv(d)
    BY <2>3, <2>4 DEF CallInv
  <2>6. Batch'
    BY <1>0, <2>1 DEF Batch
  <2> QED  BY <1>0, <2>1, <2>5, <2>6, OtherCalls DEF Inv
<1>9. ASSUME NEW k \in Call, Forget(k) PROVE Inv'
  <2>1. CallInv(Nothing("unused"))
    BY DEF CallInv, Nothing
  <2>2. Batch' /\ client' = client
    BY <1>0, <1>9 DEF Batch, Forget
  <2> QED  BY <1>0, <1>9, <2>1, <2>2, OtherCalls DEF Inv, Forget
<1>10. CASE UNCHANGED vars
  <2>1. Batch'
    BY <1>0, <1>10 DEF Batch, vars
  <2> QED  BY <1>10, <1>a, <2>1 DEF Inv, vars
<1> QED
  BY <1>1, <1>2, <1>3, <1>4, <1>5, <1>6, <1>7, <1>8, <1>9, <1>10 DEF Next

LEMMA Invariance == Spec => []Inv
BY InvInit, InvNext, PTL DEF Spec

-------------------------------------------------------------------------------
(* The theorems. *)

(* A batch is undefined behaviour just when a command in it was destroyed, *)
(* or the client was given no slot map (Redis::Add, RedisCluster::Add,     *)
(* Execute, ExecuteAsync).                                                 *)
THEOREM UndefinedWhenLost == Spec => []UndefinedIffCommandLost
<1>1. Inv => UndefinedIffCommandLost
  <2> SUFFICES ASSUME Inv, NEW k \in Call
               PROVE  /\ client # "ByName" =>
                           (call[k].state = "undefined" <=> call[k].lost)
                      /\ client = "ByName" =>
                           call[k].state \in {"unused", "invalid_argument", "undefined"}
    BY DEF UndefinedIffCommandLost
  <2>1. CallInv(call[k])
    BY DEF Inv, Calls
  <2>2. Sent(call[k]) => client # "ByName" /\ call[k].lost = FALSE
    BY DEF Sent
  <2> QED  BY <2>1, <2>2 DEF CallInv
<1> QED  BY <1>1, Invariance, PTL

(* A call that ended hands out, at each index, the reply to the command of *)
(* its batch that stood there when it was issued, whatever was added,      *)
(* assigned, destroyed and called since (Command::AddTo,                   *)
(* Reply::AddResponse, Reply::GetRedisReply).                              *)
THEOREM OfTheIssuedBatch == Spec => []RepliesAreOfTheIssuedBatch
<1>1. ASSUME Inv, NEW k \in Call, call[k].state = "ok",
             NEW i \in 0..(Len(call[k].issued) - call[k].skipped - 1)
      PROVE  GetRedisReply(k, i) = ReplyTo(call[k].issued[i + 1 + call[k].skipped])
  <2> DEFINE n == Len(call[k].issued)
             skipped == call[k].skipped
  <2>1. Sent(call[k])
    BY <1>1 DEF Inv, Calls, CallInv
  <2>2. n \in Nat /\ skipped \in Nat
    BY <2>1 DEF Sent
  <2>3. i \in Int /\ i + skipped \in 0..(n - 1) /\ i + 1 + skipped = (i + skipped) + 1
    BY <2>2
  <2>4. CASE Cardinality(Targets(call[k].issued)) = 1
    BY <1>1, <2>1, <2>3, <2>4, ReplyOfOne
  <2>5. CASE Cardinality(Targets(call[k].issued)) # 1
    <3>1. skipped = 0
      BY <1>1, <2>1, <2>3, <2>5, ReplyOfSeveral
    <3>2. i \in 0..(n - 1) /\ i + 1 + skipped = i + 1
      BY <2>2, <2>3, <3>1
    <3> QED  BY <1>1, <2>1, <2>3, <2>5, <3>2, ReplyOfSeveral
  <2> QED  BY <2>4, <2>5
<1>2. Inv => RepliesAreOfTheIssuedBatch
  BY <1>1 DEF RepliesAreOfTheIssuedBatch
<1> QED  BY <1>2, Invariance, PTL

(* An index behind the replies is refused, one in front of them just when  *)
(* the batch needed several servers (Reply::GetRedisReply).                *)
THEOREM NegativeIndex == Spec => []NegativeRefusedIffSeveralServers
<1>1. ASSUME Inv, NEW k \in Call, call[k].state = "ok", NEW i \in Index
      PROVE  /\ i >= Len(call[k].issued) - call[k].skipped =>
                  GetRedisReply(k, i) = Ends("out_of_range")
             /\ i < 0 /\ i < Len(call[k].issued) - call[k].skipped =>
                  (GetRedisReply(k, i) = Ends("out_of_range")
                     <=> Cardinality(DOMAIN call[k].req) > 1)
             /\ i = -1 /\ DOMAIN call[k].mapping = {} /\ call[k].skipped = 0
                  => GetRedisReply(k, i) =
                       IF client # "Redis" /\ call[k].issued[1] \in Reads
                       THEN ReplyTo(READONLY) ELSE Ends("undefined")
  <2> DEFINE n == Len(call[k].issued)
             skipped == call[k].skipped
  <2>1. Sent(call[k])
    BY <1>1 DEF Inv, Calls, CallInv
  <2>2. n \in Nat /\ skipped \in Nat /\ i \in Int
    BY <2>1, BoundAssumption DEF Sent, Index
  <2>3. /\ DOMAIN call[k].req = Targets(call[k].issued)
        /\ Cardinality(Targets(call[k].issued)) \in Nat \ {0}
    BY <2>1, SeveralTargets DEF Sent
  <2>4. CASE Cardinality(Targets(call[k].issued)) = 1
    <3>1. /\ i >= n - skipped => i + skipped >= n
          /\ i < n - skipped => i + skipped < n
          /\ i = -1 /\ skipped = 0 => i + skipped = -1
      BY <2>2
    <3>2. /\ i + skipped >= n => GetRedisReply(k, i) = Ends("out_of_range")
          /\ i + skipped < n => GetRedisReply(k, i) # Ends("out_of_range")
          /\ i + skipped = -1 => GetRedisReply(k, i) =
               IF client # "Redis" /\ call[k].issued[1] \in Reads
               THEN ReplyTo(READONLY) ELSE Ends("undefined")
      BY <1>1, <2>1, <2>2, <2>4, ReplyOfOne
    <3>3. ~(Cardinality(DOMAIN call[k].req) > 1)
      BY <2>3, <2>4
    <3> QED  BY <3>1, <3>2, <3>3
  <2>5. CASE Cardinality(Targets(call[k].issued)) # 1
    <3>1. /\ DOMAIN call[k].mapping # {} /\ skipped = 0
          /\ i \notin 0..(n - 1) => GetRedisReply(k, i) = Ends("out_of_range")
      BY <1>1, <2>1, <2>2, <2>5, ReplyOfSeveral
    <3>2. /\ i >= n - skipped => i \notin 0..(n - 1)
          /\ i < 0 => i \notin 0..(n - 1)
      BY <2>2, <3>1
    <3>3. Cardinality(DOMAIN call[k].req) > 1
      BY <2>3, <2>5
    <3> QED  BY <3>1, <3>2, <3>3
  <2> QED  BY <2>4, <2>5
<1>2. Inv => NegativeRefusedIffSeveralServers
  BY <1>1 DEF NegativeRefusedIffSeveralServers
<1> QED  BY <1>2, Invariance, PTL
===============================================================================
