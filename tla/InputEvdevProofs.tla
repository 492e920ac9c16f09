-------------------------- MODULE InputEvdevProofs --------------------------
(***************************************************************************)
(* Proofs about InputEvdev: the truth of held_keys and of the axis, the     *)
(* account of the presses and the end of DESYNC, for any set of devices,    *)
(* keys and axes, any number of slots and any size of buffer and queue.     *)
(*                                                                          *)
(* The argument is about the stream of a slot: what is in its buffer and    *)
(* then what is in the queue of its descriptor.  A read moves events from   *)
(* the one to the other and changes no stream, a device adds at the end,    *)
(* the pump takes from the front.  The invariant says where the stream      *)
(* leads: to the keys and the axis the device has now.                      *)
(***************************************************************************)
EXTENDS InputEvdev, FiniteSetTheorems, SequenceTheorems, TLAPS

\* in_order lists a finite set without gaps or repetitions, and in the order of
\* a relation that is total on it.
LEMMA InOrder ==
  ASSUME NEW S, IsFiniteSet(S), NEW R,
         \A x, y \in S : x # y => <<x, y>> \in R \/ <<y, x>> \in R,
         \A x \in S : <<x, x>> \notin R,
         \A x, y, z \in S : <<x, y>> \in R /\ <<y, z>> \in R => <<x, z>> \in R
  PROVE  /\ Cardinality(S) \in Nat
         /\ in_order(S, R) \in [1 .. Cardinality(S) -> S]
         /\ \A x \in S : \E i \in 1 .. Cardinality(S) : in_order(S, R)[i] = x
         /\ \A i, j \in 1 .. Cardinality(S) :
              i < j <=> <<in_order(S, R)[i], in_order(S, R)[j]>> \in R
<1> DEFINE n == Cardinality(S)
           before(x) == {y \in S : <<y, x>> \in R}
           r(x) == Cardinality(before(x))
           o == in_order(S, R)
<1>1. n \in Nat
  BY FS_CardinalityType
<1>2. ASSUME NEW x \in S PROVE IsFiniteSet(before(x)) /\ r(x) \in Nat
  <2>1. before(x) \in SUBSET S
    OBVIOUS
  <2> HIDE DEF before
  <2> QED
    BY <2>1, FS_Subset, FS_CardinalityType
<1>3. ASSUME NEW x \in S, NEW y \in S, <<x, y>> \in R PROVE r(x) < r(y)
  <2>1. before(x) \cup {x} \in SUBSET before(y) /\ x \notin before(x)
    BY <1>3
  <2> HIDE DEF before
  <2>2. Cardinality(before(x) \cup {x}) = Cardinality(before(x)) + 1
    BY <1>2, <2>1, FS_AddElement
  <2>3. Cardinality(before(x) \cup {x}) <= Cardinality(before(y))
    BY <1>2, <2>1, FS_Subset
  <2>4. Cardinality(before(x)) \in Nat /\ Cardinality(before(y)) \in Nat
    BY <1>2
  <2> QED
    BY <2>2, <2>3, <2>4
<1>4. ASSUME NEW x \in S PROVE r(x) \in 0 .. n - 1
  <2>1. before(x) \in SUBSET (S \ {x})
    OBVIOUS
  <2>2. IsFiniteSet(S \ {x}) /\ Cardinality(S \ {x}) = n - 1
    BY FS_RemoveElement
  <2> HIDE DEF before
  <2>3. Cardinality(before(x)) <= Cardinality(S \ {x})
    BY <2>1, <2>2, FS_Subset
  <2>4. r(x) \in Nat /\ r(x) <= n - 1
    BY <1>2, <2>2, <2>3
  <2> HIDE DEF n, r
  <2> QED
    BY <1>1, <2>4
<1> HIDE DEF n, r
<1> DEFINE f == [x \in S |-> r(x)]
<1>5. f \in Injection(S, 0 .. n - 1)
  <2>1. f \in [S -> 0 .. n - 1]
    BY <1>4
  <2>2. ASSUME NEW x \in S, NEW y \in S, f[x] = f[y] PROVE x = y
    <3>1. r(x) = r(y) /\ r(x) \in Nat /\ r(y) \in Nat
      BY <1>2, <2>2
    <3>2. ~(r(x) < r(y)) /\ ~(r(y) < r(x))
      BY <3>1
    <3> QED
      BY <1>3, <3>2
  <2> HIDE DEF f
  <2> QED
    BY <2>1, <2>2 DEF Injection, IsInjective
<1>6. f \in Surjection(S, 0 .. n - 1)
  <2>1. IsFiniteSet(0 .. n - 1) /\ Cardinality(0 .. n - 1) = IF 0 > n - 1 THEN 0 ELSE n - 1 - 0 + 1
    BY <1>1, FS_Interval
  <2>2. Cardinality(0 .. n - 1) = Cardinality(S)
    BY <1>1, <2>1 DEF n
  <2> HIDE DEF f
  <2> QED
    BY <1>5, <2>1, <2>2, FS_Injection
<1>7. ASSUME NEW i \in 1 .. n PROVE o[i] \in S /\ r(o[i]) = i - 1
  <2>1. i - 1 \in 0 .. n - 1
    BY <1>1
  <2>2. \E x \in S : f[x] = i - 1
    <3> HIDE DEF f
    <3> QED BY <1>6, <2>1 DEF Surjection
  <2>3. \E x \in S : Cardinality(before(x)) = i - 1
    BY <2>2 DEF r
  <2>4. o[i] = CHOOSE x \in S : Cardinality(before(x)) = i - 1
    BY DEF in_order, n
  <2>5. o[i] \in S /\ Cardinality(before(o[i])) = i - 1
    BY <2>3, <2>4
  <2> QED
    BY <2>5 DEF r
<1>8. o \in [1 .. n -> S]
  <2> DEFINE pick(i) == CHOOSE x \in S : Cardinality(before(x)) = i - 1
  <2>1. o = [i \in 1 .. n |-> pick(i)]
    BY DEF in_order, n
  <2> HIDE DEF o, pick
  <2>2. \A i \in 1 .. n : pick(i) \in S
    BY <1>7, <2>1
  <2> QED
    BY <2>1, <2>2
<1> HIDE DEF o
<1>9. ASSUME NEW x \in S PROVE \E i \in 1 .. n : o[i] = x
  <2>1. r(x) + 1 \in 1 .. n /\ r(x) \in Nat
    BY <1>1, <1>4
  <2>2. r(o[r(x) + 1]) = r(x) /\ o[r(x) + 1] \in S
    BY <1>7, <2>1
  <2>3. o[r(x) + 1] = x
    <3>1. f[o[r(x) + 1]] = f[x]
      BY <2>2
    <3> HIDE DEF f
    <3> QED BY <1>5, <2>2, <3>1 DEF Injection, IsInjective
  <2> QED
    BY <2>1, <2>3
<1>10. ASSUME NEW i \in 1 .. n, NEW j \in 1 .. n PROVE i < j <=> <<o[i], o[j]>> \in R
  <2>1. r(o[i]) = i - 1 /\ r(o[j]) = j - 1 /\ o[i] \in S /\ o[j] \in S
    BY <1>7
  <2>2. <<o[i], o[j]>> \in R => i < j
    BY <1>1, <1>3, <2>1
  <2>3. <<o[j], o[i]>> \in R => j < i
    BY <1>1, <1>3, <2>1
  <2>4. o[i] = o[j] => i = j
    BY <2>1, <1>1
  <2> QED
    BY <1>1, <2>1, <2>2, <2>3, <2>4
<1> QED
  BY <1>1, <1>8, <1>9, <1>10 DEF n, o

\* A finite set of numbers that is not empty has a least and a greatest element.
LEMMA Extremes ==
  ASSUME NEW n \in Nat, NEW S \in SUBSET (0 .. n), S # {}
  PROVE  /\ Min(S) \in S /\ \A y \in S : Min(S) <= y
         /\ Max(S) \in S /\ \A y \in S : Max(S) >= y
<1> DEFINE R == {p \in S \X S : p[1] < p[2]}
           o == in_order(S, R)
           m == Cardinality(S)
<1>1. IsFiniteSet(S)
  <2>1. IsFiniteSet(0 .. n)
    BY FS_Interval
  <2> QED BY <2>1, FS_Subset
<1>2. \A x, y \in S : x < y <=> <<x, y>> \in R
  OBVIOUS
<1>3. \A x \in S : x \in Nat
  OBVIOUS
<1> HIDE DEF R
<1>4. /\ \A x, y \in S : x # y => <<x, y>> \in R \/ <<y, x>> \in R
      /\ \A x \in S : <<x, x>> \notin R
      /\ \A x, y, z \in S : <<x, y>> \in R /\ <<y, z>> \in R => <<x, z>> \in R
  BY <1>2, <1>3
<1>5. /\ m \in Nat
      /\ o \in [1 .. m -> S]
      /\ \A x \in S : \E i \in 1 .. m : o[i] = x
      /\ \A i, j \in 1 .. m : i < j <=> <<o[i], o[j]>> \in R
  BY <1>1, <1>4, InOrder
<1> HIDE DEF o, m
<1>6. PICK k \in 1 .. m : TRUE
  BY <1>5
<1>7. 1 \in 1 .. m /\ m \in 1 .. m
  BY <1>5, <1>6
<1>8. \A i, j \in 1 .. m : i < j => o[i] < o[j]
  BY <1>2, <1>5
<1>9. \A y \in S : o[1] <= y /\ o[m] >= y
  <2> TAKE y \in S
  <2>1. PICK i \in 1 .. m : o[i] = y
    BY <1>5
  <2>2. (i = 1 \/ o[1] < y) /\ (i = m \/ y < o[m])
    BY <1>5, <1>7, <1>8, <2>1
  <2>3. o[1] \in Nat /\ o[m] \in Nat /\ y \in Nat
    BY <1>3, <1>5, <1>7
  <2>4. o[1] <= y
    BY <2>1, <2>2, <2>3
  <2>5. o[m] >= y
    BY <2>1, <2>2, <2>3
  <2> QED BY <2>4, <2>5
<1>10. o[1] \in S /\ o[m] \in S
  BY <1>5, <1>7
<1>11. \E x \in S : \A y \in S : x =< y
  BY <1>9, <1>10
<1>12. \E x \in S : \A y \in S : x >= y
  BY <1>9, <1>10
<1> QED
  BY <1>11, <1>12 DEF Min, Max

\* A read can go up to the last SYN_REPORT in the queue.
LEMMA Readable ==
  ASSUME NEW q \in Seq(Events)
  PROVE  /\ readable(q) \in 0 .. Len(q)
         /\ readable(q) # 0 => q[readable(q)] = Report
         /\ \A i \in 1 .. Len(q) : q[i] = Report => i <= readable(q)
<1> DEFINE S == {0} \cup {i \in 1 .. Len(q) : q[i] = Report}
<1>1. Len(q) \in Nat
  BY LenProperties
<1>2. S \in SUBSET (0 .. Len(q)) /\ S # {}
  BY <1>1
<1>3. Max(S) \in S /\ \A y \in S : Max(S) >= y
  <2> HIDE DEF S
  <2> QED BY <1>1, <1>2, Extremes
<1>4. readable(q) = Max(S)
  BY DEF readable
<1>5. \A i \in 1 .. Len(q) : q[i] = Report => i <= Max(S)
  BY <1>1, <1>2, <1>3
<1>6. Max(S) \in 0 .. Len(q) /\ (Max(S) # 0 => q[Max(S)] = Report)
  <2> DEFINE m == Max(S)
  <2>1. m \in S
    BY <1>3
  <2> HIDE DEF m
  <2> QED BY <1>1, <2>1 DEF m
<1> QED
  BY <1>4, <1>5, <1>6

\* EVIOCGKEY leaves the other events in the queue, in their order.
LEMMA Flushed ==
  ASSUME NEW q \in Seq(Events)
  PROVE  /\ flushed(q) \in Seq(Events)
         /\ Len(flushed(q)) <= Len(q)
         /\ \A i \in 1 .. Len(flushed(q)) : flushed(q)[i].type # "KEY"
         /\ \E nth \in [1 .. Len(flushed(q)) -> 1 .. Len(q)] :
              /\ \A i \in 1 .. Len(flushed(q)) : flushed(q)[i] = q[nth[i]]
              /\ \A i, j \in 1 .. Len(flushed(q)) : i < j <=> nth[i] < nth[j]
              /\ \A k \in 1 .. Len(q) :
                   q[k].type # "KEY" => \E i \in 1 .. Len(flushed(q)) : nth[i] = k
<1> DEFINE stay == {i \in 1 .. Len(q) : q[i].type # "KEY"}
           R == {p \in stay \X stay : p[1] < p[2]}
           nth == in_order(stay, R)
           m == Cardinality(stay)
<1>1. Len(q) \in Nat /\ \A i \in 1 .. Len(q) : q[i] \in Events
  BY LenProperties, ElementOfSeq
<1>2. IsFiniteSet(1 .. Len(q)) /\ Cardinality(1 .. Len(q)) = Len(q)
  <2>1. IsFiniteSet(1 .. Len(q))
        /\ Cardinality(1 .. Len(q)) = IF 1 > Len(q) THEN 0 ELSE Len(q) - 1 + 1
    BY <1>1, FS_Interval
  <2> QED BY <1>1, <2>1
<1>3. IsFiniteSet(stay) /\ m <= Len(q) /\ stay \in SUBSET (1 .. Len(q))
  <2>1. stay \in SUBSET (1 .. Len(q))
    OBVIOUS
  <2> HIDE DEF stay
  <2> QED BY <1>2, <2>1, FS_Subset
<1>4. \A x, y \in stay : x < y <=> <<x, y>> \in R
  OBVIOUS
<1>5. \A x \in stay : x \in Nat /\ x \in 1 .. Len(q) /\ q[x].type # "KEY"
  BY <1>1
<1>6. \A k \in 1 .. Len(q) : q[k].type # "KEY" => k \in stay
  OBVIOUS
<1>7. flushed(q) = [i \in 1 .. m |-> q[nth[i]]]
  BY DEF flushed
<1> HIDE DEF stay, R
<1>8. /\ m \in Nat
      /\ nth \in [1 .. m -> stay]
      /\ \A x \in stay : \E i \in 1 .. m : nth[i] = x
      /\ \A i, j \in 1 .. m : i < j <=> <<nth[i], nth[j]>> \in R
  <2>1. /\ \A x, y \in stay : x # y => <<x, y>> \in R \/ <<y, x>> \in R
        /\ \A x \in stay : <<x, x>> \notin R
        /\ \A x, y, z \in stay : <<x, y>> \in R /\ <<y, z>> \in R => <<x, z>> \in R
    BY <1>4, <1>5
  <2> QED BY <1>3, <2>1, InOrder
<1> HIDE DEF m, nth
<1>9. flushed(q) \in [1 .. m -> Events]
  BY <1>1, <1>5, <1>7, <1>8
<1>10. flushed(q) \in Seq(Events) /\ Len(flushed(q)) = m
  BY <1>8, <1>9
<1>11. \A i \in 1 .. m : flushed(q)[i] = q[nth[i]] /\ nth[i] \in stay
  BY <1>7, <1>8
<1>12. nth \in [1 .. m -> 1 .. Len(q)]
  BY <1>3, <1>8
<1>13. \A i, j \in 1 .. m : i < j <=> nth[i] < nth[j]
  BY <1>4, <1>8
<1>14. \A k \in 1 .. Len(q) : q[k].type # "KEY" => \E i \in 1 .. m : nth[i] = k
  BY <1>6, <1>8
<1>15. m <= Len(q)
  BY <1>3 DEF m
<1>16. \A i \in 1 .. m : flushed(q)[i].type # "KEY"
  BY <1>5, <1>11
<1> HIDE DEF flushed
<1> QED
  BY <1>10, <1>11, <1>12, <1>13, <1>14, <1>15, <1>16

----------------------------------------------------------------------------
(* Discovery *)

\* The numbers the model is about are natural, and no node has the number that
\* says that a slot is free.
LEMMA DeviceTypes ==
  /\ \A d \in Devices : d \in Nat /\ d # NoNode /\ Rank[d] \in Nat
  /\ NoNode \notin Devices /\ Slots \subseteq Nat /\ MaxSources \in Nat /\ Pending \in Nat
  /\ BufCap \in Nat /\ QueueCap \in Nat /\ QueueCap >= 3
<1>1. \A d \in Devices : Rank[d] \in 1 .. 4
  BY InputAssumption
<1>2. Devices \subseteq Nat
  BY InputAssumption
<1>3. Slots \subseteq Nat /\ MaxSources \in Nat /\ Pending \in Nat
      /\ BufCap \in Nat /\ QueueCap \in Nat /\ QueueCap >= 3
  BY InputAssumption DEF Slots, Pending
<1> QED
  BY <1>1, <1>2, <1>3 DEF NoNode

\* The plan lists the candidates without repetition, the better ones first.
LEMMA Plan ==
  ASSUME NEW c \in SUBSET Devices
  PROVE  /\ Cardinality(c) \in Nat
         /\ _cart_input_plan(c) \in [1 .. Cardinality(c) -> c]
         /\ Len(_cart_input_plan(c)) = Cardinality(c)
         /\ \A i, j \in 1 .. Cardinality(c) :
              i < j => better(_cart_input_plan(c)[i], _cart_input_plan(c)[j])
<1> DEFINE R == {p \in c \X c : better(p[1], p[2])}
           o == in_order(c, R)
           n == Cardinality(c)
<1>1. IsFiniteSet(c)
  BY InputAssumption, FS_Subset
<1>2. \A x, y \in c : better(x, y) <=> <<x, y>> \in R
  OBVIOUS
<1>3. \A x \in c : x \in Nat /\ Rank[x] \in 1 .. 4
  BY InputAssumption
<1>4. o = _cart_input_plan(c)
  BY DEF _cart_input_plan
<1> HIDE DEF R
<1>5. /\ \A x, y \in c : x # y => <<x, y>> \in R \/ <<y, x>> \in R
      /\ \A x \in c : <<x, x>> \notin R
      /\ \A x, y, z \in c : <<x, y>> \in R /\ <<y, z>> \in R => <<x, z>> \in R
  BY <1>2, <1>3 DEF better
<1>6. /\ n \in Nat
      /\ o \in [1 .. n -> c]
      /\ \A x \in c : \E i \in 1 .. n : o[i] = x
      /\ \A i, j \in 1 .. n : i < j <=> <<o[i], o[j]>> \in R
  BY <1>1, <1>5, InOrder
<1> HIDE DEF o, n
<1>7. \A i, j \in 1 .. n : i < j => better(o[i], o[j])
  BY <1>2, <1>6
<1>8. Len(o) = n
  BY <1>6
<1> QED
  BY <1>4, <1>6, <1>7, <1>8 DEF n

\* How many of a set of slots come up to a slot grows with the slots of the set.
LEMMA RankOf ==
  ASSUME NEW free \in SUBSET Slots
  PROVE  /\ \A s \in free : Cardinality({f \in free : f <= s}) \in Nat \ {0}
         /\ \A s, t \in free :
              s < t => Cardinality({f \in free : f <= s}) < Cardinality({f \in free : f <= t})
<1> DEFINE upto(s) == {f \in free : f <= s}
<1>1. IsFiniteSet(free)
  <2>1. IsFiniteSet(Slots)
    BY InputAssumption, FS_Interval DEF Slots
  <2> QED BY <2>1, FS_Subset
<1>2. \A s \in free : s \in Nat
  BY InputAssumption DEF Slots
<1>3. ASSUME NEW s \in free
      PROVE  /\ IsFiniteSet(upto(s)) /\ Cardinality(upto(s)) \in Nat
             /\ s \in upto(s) /\ Cardinality(upto(s)) # 0
  <2>1. upto(s) \in SUBSET free /\ s \in upto(s)
    BY <1>2
  <2> HIDE DEF upto
  <2>2. IsFiniteSet(upto(s))
    BY <1>1, <2>1, FS_Subset
  <2> QED BY <2>1, <2>2, FS_CardinalityType, FS_EmptySet
<1>4. ASSUME NEW s \in free, NEW t \in free, s < t
      PROVE  Cardinality(upto(s)) < Cardinality(upto(t))
  <2>1. upto(s) \in SUBSET upto(t) /\ t \in upto(t) /\ t \notin upto(s)
    BY <1>2, <1>4
  <2> HIDE DEF upto
  <2>2. Cardinality(upto(s)) <= Cardinality(upto(t)) /\ Cardinality(upto(s)) # Cardinality(upto(t))
    BY <1>3, <2>1, FS_Subset
  <2>3. Cardinality(upto(s)) \in Nat /\ Cardinality(upto(t)) \in Nat
    BY <1>3
  <2> QED BY <2>2, <2>3
<1>5. \A s \in free : Cardinality(upto(s)) \in Nat \ {0}
  BY <1>3
<1>6. \A s, t \in free : s < t => Cardinality(upto(s)) < Cardinality(upto(t))
  BY <1>4
<1> QED
  BY <1>5, <1>6

\* A pass of the discovery gives some of the free slots (C) a node each: other
\* slots keep theirs, and the nodes are in the order of their ranks.
Discovered(before, C, node) ==
  /\ C \in SUBSET {s \in Slots : before[s].node = NoNode}
  /\ \A s \in C : node[s] \in Devices
  /\ \A s, t \in C : s < t => node[s] # node[t] /\ Rank[node[s]] >= Rank[node[t]]
  /\ source' = [s \in Slots |-> IF s \in C THEN connected(node[s]) ELSE before[s]]
  /\ queue' = [s \in Slots |-> IF s \in C THEN <<>> ELSE queue[s]]
  /\ dead' = [s \in Slots |-> dead[s] /\ s \notin C]
  /\ raced' = {s \in raced : s \notin C}
  /\ early' = [s \in Slots |-> IF s \in C THEN down[node[s]] ELSE early[s]]

\* A pass of the discovery puts the candidates, the better ones first, into the
\* free slots, from the lowest.
LEMMA Discovery ==
  ASSUME NEW before, NEW c \in SUBSET Devices, discover_pass(before, c)
  PROVE  \E C, node : Discovered(before, C, node)
<1> DEFINE plan == _cart_input_plan(c)
           free == {s \in Slots : before[s].node = NoNode}
           rank_of(s) == Cardinality({f \in free : f <= s})
           C == {s \in free : rank_of(s) <= Len(plan)}
           node == [s \in C |-> plan[rank_of(s)]]
           n == Cardinality(c)
<1>1. /\ n \in Nat /\ plan \in [1 .. n -> c] /\ Len(plan) = n
      /\ \A i, j \in 1 .. n : i < j => better(plan[i], plan[j])
  BY Plan
<1>2. free \in SUBSET Slots
  OBVIOUS
<1>3. /\ \A s \in free : rank_of(s) \in Nat \ {0}
      /\ \A s, t \in free : s < t => rank_of(s) < rank_of(t)
  <2> HIDE DEF free
  <2> QED BY <1>2, RankOf
<1>4. C \in SUBSET free /\ \A s \in C : rank_of(s) <= Len(plan)
  OBVIOUS
<1>5. \A s \in Slots : s \in C <=> s \in free /\ rank_of(s) <= Len(plan)
  OBVIOUS
<1>6. \A s \in C : node[s] = plan[rank_of(s)]
  OBVIOUS
<1>7. /\ source' = [s \in Slots |-> IF s \in C THEN connected(node[s]) ELSE before[s]]
      /\ queue' = [s \in Slots |-> IF s \in C THEN <<>> ELSE queue[s]]
      /\ early' = [s \in Slots |-> IF s \in C THEN down[node[s]] ELSE early[s]]
  BY DEF discover_pass
<1>8. dead' = [s \in Slots |-> dead[s] /\ s \notin C] /\ raced' = {s \in raced : s \notin C}
  BY Zenon DEF discover_pass
<1> HIDE DEF plan, free, rank_of, C, node, n
<1>9. \A s \in C : rank_of(s) \in 1 .. n /\ node[s] \in c
  BY <1>1, <1>3, <1>4, <1>6
<1>10. ASSUME NEW s \in C, NEW t \in C, s < t
       PROVE  node[s] # node[t] /\ Rank[node[s]] >= Rank[node[t]]
  <2>1. better(node[s], node[t])
    BY <1>1, <1>3, <1>4, <1>6, <1>9, <1>10
  <2>2. node[s] \in Devices /\ node[t] \in Devices
    BY <1>9
  <2>3. /\ node[s] \in Nat /\ node[t] \in Nat
        /\ Rank[node[s]] \in Nat /\ Rank[node[t]] \in Nat
    BY <2>2, DeviceTypes
  <2> QED BY <2>1, <2>3 DEF better
<1>11. Discovered(before, C, node)
  BY <1>4, <1>7, <1>8, <1>9, <1>10 DEF Discovered, free
<1> QED
  BY <1>11

----------------------------------------------------------------------------
(* The inductive invariant *)

\* The events of a slot that have not been consumed, in their order.
stream(s) == partial[s] \o queue[s]

Has(t, e) == \E i \in 1 .. Len(t) : t[i] = e

\* A slot without a descriptor has no events, and a slot has events in its
\* buffer only while it is pumped.  Before the discovery and after the shutdown
\* there are no descriptors.
SlotsInv ==
  /\ \A s \in Slots : slot_empty(s) => partial[s] = <<>> /\ queue[s] = <<>> /\ ~dead[s]
  /\ \A s \in Slots : partial[s] # <<>> => pc = "pump" /\ cur = s
  /\ pc \in {"new", "closed"} => \A s \in Slots : slot_empty(s)
  /\ pc = "pump" => cur \in Slots /\ ~slot_empty(cur)
  /\ rescans_used \in Nat

\* Whenever SYN_DROPPED has been read, its SYN_REPORT is still to come, or the
\* queue begins with another SYN_DROPPED; and only in the latter case the pump
\* leaves the slot.
Relapsed(q) == q # <<>> /\ q[1] = Dropped
Pledged(q)  == Has(q, Report) \/ Relapsed(q)

Recovers(state, p, q) ==
  /\ state = "DESYNC" => Has(p, Report) \/ Pledged(q)
  /\ \A i \in 1 .. Len(p) : p[i] = Dropped =>
       (\E j \in i + 1 .. Len(p) : p[j] = Report) \/ Pledged(q)

DesyncInv ==
  \A s \in Slots :
    /\ Recovers(source[s].state, partial[s], queue[s])
    /\ source[s].state = "DESYNC" /\ ~(pc = "pump" /\ cur = s) => Relapsed(queue[s])

\* The events t will bring the keys of a slot to what the device has: the last
\* event of each key says how that key is, and a key of which there is no event
\* is right already, unless it was down when the node was opened.
of_key(e, k) == e.type = "KEY" /\ e.key = k

KeysMatch(t, held, keys_down, unheard) ==
  \A k \in LowKeys :
    /\ \A i \in 1 .. Len(t) :
         of_key(t[i], k) /\ (\A j \in i + 1 .. Len(t) : ~of_key(t[j], k))
           => (t[i].value # 0 <=> k \in keys_down)
    /\ (\A i \in 1 .. Len(t) : ~of_key(t[i], k)) =>
         (k \in held => k \in keys_down) /\ (k \in keys_down => k \in held \/ k \in unheard)

\* The same for the axis; what is before a SYN_DROPPED does not count.
AxisLast(t, at) ==
  \A i \in 1 .. Len(t) :
    t[i].type = "ABS" /\ (\A j \in i + 1 .. Len(t) : t[j].type \notin {"ABS", "DROPPED"})
      => t[i].value = at

AxisMatch(t, raw, at) ==
  (\A i \in 1 .. Len(t) : t[i].type \notin {"ABS", "DROPPED"}) => raw = at

KeysAt(s) ==
  ~slot_empty(s) /\ ~dead[s] /\ source[s].state = "CONNECTED" /\ s \notin raced
      /\ ~Has(stream(s), Dropped)
    => KeysMatch(stream(s), source[s].held, down[source[s].node], early[s])

AxisAt(s) ==
  ~slot_empty(s) /\ ~dead[s] /\ source[s].axis_valid =>
    /\ AxisLast(stream(s), pos[source[s].node])
    /\ source[s].state = "CONNECTED" =>
         AxisMatch(stream(s), source[s].raw, pos[source[s].node])

TruthInv == \A s \in Slots : KeysAt(s) /\ AxisAt(s)

\* Until the first rescan every device has one slot at most, and the slots are
\* in the order of the ranks.
OrderInv ==
  rescans_used = 0 =>
    \A s, t \in Slots : ~slot_empty(s) /\ ~slot_empty(t) /\ s < t =>
      source[s].node # source[t].node /\ Rank[source[s].node] >= Rank[source[t].node]

\* The presses that are still on their way through the slots.
pressing(e) == e.type = "KEY" /\ emits(e)
presses_in(st) == {x \in Slots \X (1 .. BufCap + QueueCap) :
                     x[2] <= Len(st[x[1]]) /\ pressing(st[x[1]][x[2]])}
streams == [s \in Slots |-> stream(s)]
in_flight == Cardinality(presses_in(streams))

\* As long as no press can have been lost, nothing on the way says otherwise.
LossInv ==
  ~lossy => \A s \in Slots : ~Has(stream(s), Dropped) /\ source[s].state # "DESYNC" /\ ~dead[s]

PressInv ==
  rescans_used = 0 /\ pc # "closed" =>
    /\ taken + Len(pending) + in_flight <= presses
    /\ ~lossy => taken + Len(pending) + in_flight = presses

InputInv ==
  TypeOK /\ SlotsInv /\ DesyncInv /\ TruthInv /\ OrderInv /\ LossInv /\ PressInv

----------------------------------------------------------------------------
(* Types *)

\* The events, told apart by their types.
LEMMA EventTypes ==
  /\ Dropped \in Events /\ Report \in Events /\ Dropped # Report
  /\ \A k \in Keys, v \in 0 .. 2 : [type |-> "KEY", key |-> k, value |-> v] \in Events
  /\ \A v \in Positions : [type |-> "ABS", value |-> v] \in Events
  /\ \A e \in Events : /\ e.type = "DROPPED" <=> e = Dropped
                       /\ e.type = "REPORT" <=> e = Report
                       /\ e.type \in {"KEY", "ABS", "DROPPED", "REPORT"}
                       /\ e.type = "KEY" => e.key \in Keys /\ e.value \in 0 .. 2
                       /\ e.type = "ABS" => e.value \in Int
<1>1. Positions \subseteq Int
  BY InputAssumption
<1>2. /\ Dropped \in Events /\ Report \in Events /\ Dropped # Report
      /\ \A k \in Keys, v \in 0 .. 2 : [type |-> "KEY", key |-> k, value |-> v] \in Events
      /\ \A v \in Positions : [type |-> "ABS", value |-> v] \in Events
  BY DEF Events, Dropped, Report
<1>3. ASSUME NEW e \in Events
      PROVE  /\ e.type = "DROPPED" <=> e = Dropped
             /\ e.type = "REPORT" <=> e = Report
             /\ e.type \in {"KEY", "ABS", "DROPPED", "REPORT"}
             /\ e.type = "KEY" => e.key \in Keys /\ e.value \in 0 .. 2
             /\ e.type = "ABS" => e.value \in Int
  <2>1. CASE e \in [type : {"KEY"}, key : Keys, value : 0 .. 2]
    BY <2>1 DEF Dropped, Report
  <2>2. CASE e \in [type : {"DROPPED", "REPORT"}]
    <3>1. e = [type |-> e.type] /\ e.type \in {"DROPPED", "REPORT"}
      BY <2>2
    <3>2. CASE e = [type |-> "DROPPED"]
      BY <3>2 DEF Dropped, Report
    <3>3. CASE e = [type |-> "REPORT"]
      BY <3>3 DEF Dropped, Report
    <3>4. e = [type |-> "DROPPED"] \/ e = [type |-> "REPORT"]
      BY Zenon, <3>1
    <3> QED BY <3>2, <3>3, <3>4
  <2>3. CASE e \in [type : {"ABS"}, value : Positions]
    <3>1. e.type = "ABS" /\ e.value \in Positions
      BY <2>3
    <3>2. Dropped.type = "DROPPED" /\ Report.type = "REPORT"
      BY DEF Dropped, Report
    <3>3. e.value \in Int
      BY <1>1, <3>1
    <3> QED BY <3>1, <3>2, <3>3
  <2> QED BY <2>1, <2>2, <2>3 DEF Events
<1> QED
  BY <1>2, <1>3

\* An empty slot and a slot after a disconnect.
LEMMA SourceTypes ==
  /\ reset_source \in cart_input_source
  /\ \A src \in cart_input_source :
       /\ handle_disconnect(src) \in cart_input_source
       /\ handle_disconnect(src).node = NoNode /\ handle_disconnect(src).state = "ABSENT"
<1>1. reset_source \in cart_input_source
  BY DEF reset_source, cart_input_source, cart_input_axis_range
<1>2. ASSUME NEW src \in cart_input_source
      PROVE  /\ handle_disconnect(src) \in cart_input_source
             /\ handle_disconnect(src).node = NoNode /\ handle_disconnect(src).state = "ABSENT"
  <2> DEFINE B == BOOLEAN
             T == [node : Devices \cup {NoNode}, state : {"ABSENT", "CONNECTED", "DESYNC"},
                   held : SUBSET LowKeys, generation : Nat,
                   axis : [min : Int, max : Int, deadzone_pct : Int], axis_valid : B, raw : Int]
  <2>1. T = cart_input_source
    BY DEF cart_input_source
  <2> HIDE DEF B
  <2>2. src \in T
    BY <2>1
  <2>3. /\ handle_disconnect(src) \in T
        /\ handle_disconnect(src).node = NoNode /\ handle_disconnect(src).state = "ABSENT"
    <3> DEFINE a == [src EXCEPT !.node = NoNode]
               b == [a EXCEPT !.state = "ABSENT"]
               c == [b EXCEPT !.generation = @ + 1]
               f == [c EXCEPT !.held = {}]
               g == [f EXCEPT !.raw = 0]
    <3>1. handle_disconnect(src) = g
      BY DEF handle_disconnect
    <3>2. a \in T /\ a.node = NoNode
      BY <2>2
    <3> HIDE DEF a
    <3>3. b \in T /\ b.node = NoNode /\ b.state = "ABSENT"
      BY <3>2
    <3> HIDE DEF b
    <3>4. c \in T /\ c.node = NoNode /\ c.state = "ABSENT"
      BY <3>3
    <3> HIDE DEF c
    <3>5. f \in T /\ f.node = NoNode /\ f.state = "ABSENT"
      BY <3>4
    <3> HIDE DEF f
    <3>6. g \in T /\ g.node = NoNode /\ g.state = "ABSENT"
      BY <3>5
    <3> QED BY <3>1, <3>6
  <2> QED BY <2>1, <2>3
<1> QED
  BY <1>1, <1>2

\* The range that the discovery takes from the device.
LEMMA Calibrated ==
  ASSUME NEW lo \in Int, NEW hi \in Int, NEW flat \in Nat
  PROVE  calibrated(lo, hi, flat) \in [min : Int, max : Int, deadzone_pct : Int]
<1> DEFINE sp == int32(hi - lo)
           sg == quotient(int32(flat * 200), sp)
<1>1. IntMax \in Nat /\ 2 * (IntMax + 1) \in Nat \ {0}
  BY NormalizeAssumption
<1>2. \A n \in Int : int32(n) \in Int
  BY <1>1 DEF int32
<1>3. sp \in Int /\ int32(flat * 200) \in Int
  BY <1>2
<1>4. sp > 0 => sg \in Int
  <2> HIDE DEF sp
  <2> QED BY <1>2, <1>3 DEF quotient
<1>5. calibrated(lo, hi, flat) =
        [min |-> lo, max |-> hi,
         deadzone_pct |-> IF sp > 0 /\ flat > 0 /\ sg > DEFAULT_DEADZONE_PCT /\ sg <= 50
                          THEN sg ELSE DEFAULT_DEADZONE_PCT]
  BY DEF calibrated, cart_input_axis_range
<1> HIDE DEF sp, sg
<1> QED
  BY <1>4, <1>5 DEF DEFAULT_DEADZONE_PCT

\* The slot that the discovery fills: connected, no key held, the axis where it
\* is now.
LEMMA Connected ==
  ASSUME pos \in [Devices -> Positions], NEW d \in Devices
  PROVE  /\ connected(d) \in cart_input_source
         /\ connected(d).node = d /\ connected(d).state = "CONNECTED" /\ connected(d).held = {}
         /\ connected(d).axis_valid => connected(d).raw = pos[d]
<1>1. /\ Axis[d].min \in Int /\ Axis[d].max \in Int /\ Axis[d].flat \in Nat
      /\ pos[d] \in Int
  BY InputAssumption
<1> DEFINE r == calibrated(Axis[d].min, Axis[d].max, Axis[d].flat)
           z == cart_input_axis_range(0, 0, 0)
<1>2. r \in [min : Int, max : Int, deadzone_pct : Int]
      /\ z \in [min : Int, max : Int, deadzone_pct : Int]
  <2>1. r \in [min : Int, max : Int, deadzone_pct : Int]
    BY <1>1, Calibrated
  <2>2. z \in [min : Int, max : Int, deadzone_pct : Int]
    BY DEF cart_input_axis_range
  <2> QED BY <2>1, <2>2
<1> HIDE DEF r, z
<1>3. CASE d \in AxisDevices
  <2>1. connected(d) = [node |-> d, state |-> "CONNECTED", held |-> {}, generation |-> 1,
                        axis |-> r, axis_valid |-> TRUE, raw |-> pos[d]]
    BY <1>3 DEF connected, probe_snapshot_axes, r
  <2> QED
    BY <1>1, <1>2, <2>1 DEF cart_input_source
<1>4. CASE d \notin AxisDevices
  <2>1. connected(d) = [node |-> d, state |-> "CONNECTED", held |-> {}, generation |-> 1,
                        axis |-> z, axis_valid |-> FALSE, raw |-> 0]
    BY <1>4 DEF connected, probe_snapshot_axes, z
  <2> QED
    BY <1>1, <1>2, <2>1 DEF cart_input_source
<1> QED
  BY <1>3, <1>4

\* What the kernel queues.
LEMMA EnqueuedType ==
  ASSUME NEW q \in Seq(Events), NEW e \in Events, Len(q) <= QueueCap
  PROVE  /\ Enqueued(q, e) \in Seq(Events) /\ Len(Enqueued(q, e)) <= QueueCap
         /\ Len(q) # QueueCap => Enqueued(q, e) = Append(q, e)
         /\ Len(q) = QueueCap => Enqueued(q, e) = <<Dropped, e>>
<1>1. Len(q) \in Nat /\ QueueCap \in Nat /\ QueueCap >= 3 /\ Dropped \in Events
  BY LenProperties, DeviceTypes, EventTypes
<1>2. CASE Len(q) = QueueCap
  <2>1. Enqueued(q, e) = <<Dropped, e>>
    BY <1>1, <1>2 DEF Enqueued
  <2> QED BY <1>1, <1>2, <2>1
<1>3. CASE Len(q) # QueueCap
  <2>1. Enqueued(q, e) = Append(q, e)
    BY <1>1, <1>3 DEF Enqueued
  <2>2. Append(q, e) \in Seq(Events) /\ Len(Append(q, e)) = Len(q) + 1
    BY AppendProperties
  <2> QED BY <1>1, <1>3, <2>1, <2>2
<1> QED
  BY <1>2, <1>3

----------------------------------------------------------------------------
(* The parts of a step *)

\* A step that writes one field of a source leaves the others.
LEMMA StateUpdate ==
  ASSUME NEW src \in cart_input_source, NEW st \in {"CONNECTED", "DESYNC"},
         NEW new, new = [src EXCEPT !.state = st]
  PROVE  /\ new \in cart_input_source
         /\ new.state = st
         /\ new.node = src.node /\ new.held = src.held /\ new.axis = src.axis
         /\ new.axis_valid = src.axis_valid /\ new.raw = src.raw
<1> DEFINE B == BOOLEAN
           T == [node : Devices \cup {NoNode}, state : {"ABSENT", "CONNECTED", "DESYNC"},
                 held : SUBSET LowKeys, generation : Nat,
                 axis : [min : Int, max : Int, deadzone_pct : Int], axis_valid : B, raw : Int]
<1>1. T = cart_input_source
  BY DEF cart_input_source
<1> HIDE DEF B
<1>2. src \in T
  BY <1>1
<1>3. /\ new \in T
      /\ new.state = st
      /\ new.node = src.node /\ new.held = src.held /\ new.axis = src.axis
      /\ new.axis_valid = src.axis_valid /\ new.raw = src.raw
  BY <1>2
<1> QED
  BY <1>1, <1>3

\* The same for the keys.
LEMMA HeldUpdate ==
  ASSUME NEW src \in cart_input_source, NEW h \in SUBSET LowKeys, NEW new, new = [src EXCEPT !.held = h]
  PROVE  /\ new \in cart_input_source
         /\ new.held = h
         /\ new.node = src.node /\ new.state = src.state /\ new.axis = src.axis
         /\ new.axis_valid = src.axis_valid /\ new.raw = src.raw
<1> DEFINE B == BOOLEAN
           T == [node : Devices \cup {NoNode}, state : {"ABSENT", "CONNECTED", "DESYNC"},
                 held : SUBSET LowKeys, generation : Nat,
                 axis : [min : Int, max : Int, deadzone_pct : Int], axis_valid : B, raw : Int]
<1>1. T = cart_input_source
  BY DEF cart_input_source
<1> HIDE DEF B
<1>2. src \in T
  BY <1>1
<1>3. /\ new \in T
      /\ new.held = h
      /\ new.node = src.node /\ new.state = src.state /\ new.axis = src.axis
      /\ new.axis_valid = src.axis_valid /\ new.raw = src.raw
  BY <1>2
<1> QED
  BY <1>1, <1>3

\* The same for the axis.
LEMMA RawUpdate ==
  ASSUME NEW src \in cart_input_source, NEW r \in Int, NEW new, new = [src EXCEPT !.raw = r]
  PROVE  /\ new \in cart_input_source
         /\ new.raw = r
         /\ new.node = src.node /\ new.state = src.state /\ new.held = src.held
         /\ new.axis = src.axis /\ new.axis_valid = src.axis_valid
<1> DEFINE B == BOOLEAN
           T == [node : Devices \cup {NoNode}, state : {"ABSENT", "CONNECTED", "DESYNC"},
                 held : SUBSET LowKeys, generation : Nat,
                 axis : [min : Int, max : Int, deadzone_pct : Int], axis_valid : B, raw : Int]
<1>1. T = cart_input_source
  BY DEF cart_input_source
<1> HIDE DEF B
<1>2. src \in T
  BY <1>1
<1>3. /\ new \in T
      /\ new.raw = r
      /\ new.node = src.node /\ new.state = src.state /\ new.held = src.held
      /\ new.axis = src.axis /\ new.axis_valid = src.axis_valid
  BY <1>2
<1> QED
  BY <1>1, <1>3

\* What the pump does with the oldest event of the buffer: src is what becomes
\* of the source.
Disconnects(e, src) ==
  /\ e.type = "DROPPED" /\ source[cur].state = "CONNECTED"
  /\ src.state = "DESYNC" /\ src.held = source[cur].held /\ src.raw = source[cur].raw
  /\ UNCHANGED <<pending, queue, lossy, raced, early>>
Resyncs(e, src) ==
  /\ e.type = "REPORT" /\ source[cur].state = "DESYNC"
  /\ src.state = "CONNECTED"
  /\ ~dead[cur] => src.held = down[source[cur].node] \cap LowKeys
  /\ ~dead[cur] /\ source[cur].axis_valid => src.raw = pos[source[cur].node]
  /\ early' = IF dead[cur] THEN early ELSE [early EXCEPT ![cur] = {}]
  /\ queue' = IF dead[cur] THEN queue ELSE [queue EXCEPT ![cur] = flushed(queue[cur])]
  /\ raced' = IF Len(partial[cur]) > 1 THEN raced \cup {cur} ELSE raced \ {cur}
  /\ UNCHANGED <<pending, lossy>>
TakesKey(e, src) ==
  /\ e.type = "KEY" /\ source[cur].state = "CONNECTED"
  /\ src.state = "CONNECTED" /\ src.held = held_after(source[cur], e) /\ src.raw = source[cur].raw
  /\ pending' = enqueue_action(e)
  /\ lossy' = (lossy \/ (emits(e) /\ Len(pending) = Pending))
  /\ early' = [early EXCEPT ![cur] = early[cur] \ {e.key}]
  /\ UNCHANGED <<queue, raced>>
Moves(e, src) ==
  /\ e.type = "ABS" /\ source[cur].state = "CONNECTED"
  /\ src.state = "CONNECTED" /\ src.held = source[cur].held /\ src.raw = e.value
  /\ UNCHANGED <<pending, queue, lossy, raced, early>>
Ignores(e, src) ==
  /\ \/ e.type # "REPORT" /\ source[cur].state = "DESYNC"
     \/ e.type = "REPORT" /\ source[cur].state = "CONNECTED"
  /\ src = source[cur]
  /\ UNCHANGED <<pending, queue, lossy, raced, early>>

\* PumpConsume does one of five things with the event it takes.
LEMMA Consumed ==
  ASSUME TypeOK, SlotsInv, PumpConsume, NEW e, e = Head(partial[cur])
  PROVE  /\ cur \in Slots /\ ~slot_empty(cur)
         /\ partial[cur] # <<>> /\ partial[cur] \in Seq(Events) /\ e \in Events
         /\ partial' = [partial EXCEPT ![cur] = Tail(partial[cur])]
         /\ \E src \in cart_input_source :
              /\ source' = [source EXCEPT ![cur] = src]
              /\ src.node = source[cur].node
              /\ src.axis = source[cur].axis /\ src.axis_valid = source[cur].axis_valid
              /\ \/ Disconnects(e, src) \/ Resyncs(e, src) \/ TakesKey(e, src)
                 \/ Moves(e, src) \/ Ignores(e, src)
<1> DEFINE old == source[cur]
<1>1. cur \in Slots /\ ~slot_empty(cur) /\ partial[cur] # <<>>
  BY DEF PumpConsume, SlotsInv
<1>2. partial[cur] \in Seq(Events) /\ old \in cart_input_source /\ old.state # "ABSENT"
      /\ source \in [Slots -> cart_input_source]
  BY <1>1 DEF TypeOK
<1>3. e \in Events
  BY <1>1, <1>2, HeadTailProperties
<1>4. partial' = [partial EXCEPT ![cur] = Tail(partial[cur])] /\ consume_event(e)
  BY DEF PumpConsume
<1>5. old.state \in {"CONNECTED", "DESYNC"}
  BY <1>2 DEF cart_input_source
<1>6. old.node \in Devices /\ down[old.node] \in SUBSET Keys /\ pos[old.node] \in Int
      /\ old.held \in SUBSET LowKeys /\ old.raw \in Int
  <2>1. old.node \in Devices /\ old.held \in SUBSET LowKeys /\ old.raw \in Int
    BY <1>1, <1>2 DEF slot_empty, cart_input_source
  <2>2. Positions \subseteq Int
    BY InputAssumption
  <2> QED BY <2>1, <2>2 DEF TypeOK
<1>7. CASE e.type = "DROPPED" /\ old.state = "CONNECTED" /\ desync
  <2> DEFINE src == [old EXCEPT !.state = "DESYNC"]
  <2>1. src \in cart_input_source /\ src.node = old.node /\ src.state = "DESYNC"
        /\ src.held = old.held /\ src.axis = old.axis /\ src.axis_valid = old.axis_valid
        /\ src.raw = old.raw
    BY <1>2, StateUpdate
  <2>2. source' = [source EXCEPT ![cur] = src]
    BY <1>1, <1>2, <1>7 DEF desync
  <2>3. Disconnects(e, src)
    <3> HIDE DEF src
    <3> QED BY <1>7, <2>1 DEF Disconnects, desync
  <2> HIDE DEF src
  <2> QED BY <1>1, <1>2, <1>3, <1>4, <2>1, <2>2, <2>3
<1>8. CASE e.type = "REPORT" /\ old.state = "DESYNC" /\ resync_after_desync
  <2> DEFINE h == IF dead[cur] THEN old.held ELSE down[old.node] \cap LowKeys
             r == raw_now(cur)
             a == [old EXCEPT !.state = "CONNECTED"]
             b == [a EXCEPT !.held = h]
             src == [b EXCEPT !.raw = r]
  <2>1. h \in SUBSET LowKeys /\ r \in Int
    BY <1>6 DEF raw_now
  <2>2. source' = [source EXCEPT ![cur] = src]
    BY <1>1, <1>2, <1>8 DEF resync_after_desync
  <2>3. ~dead[cur] => h = down[old.node] \cap LowKeys
    OBVIOUS
  <2>4. ~dead[cur] /\ old.axis_valid => r = pos[old.node]
    BY DEF raw_now
  <2>5. a \in cart_input_source /\ a.node = old.node /\ a.state = "CONNECTED"
        /\ a.held = old.held /\ a.axis = old.axis /\ a.axis_valid = old.axis_valid
        /\ a.raw = old.raw
    BY <1>2, StateUpdate
  <2> HIDE DEF a, h, r
  <2>6. b \in cart_input_source /\ b.node = old.node /\ b.state = "CONNECTED"
        /\ b.held = h /\ b.axis = old.axis /\ b.axis_valid = old.axis_valid
    BY <2>1, <2>5, HeldUpdate
  <2> HIDE DEF b
  <2>7. src \in cart_input_source /\ src.node = old.node /\ src.state = "CONNECTED"
        /\ src.held = h /\ src.axis = old.axis /\ src.axis_valid = old.axis_valid
        /\ src.raw = r
    BY <2>1, <2>6, RawUpdate
  <2> HIDE DEF src
  <2>8. Resyncs(e, src)
    BY <1>8, <2>3, <2>4, <2>7 DEF Resyncs, resync_after_desync
  <2> QED BY <1>1, <1>2, <1>3, <1>4, <2>2, <2>7, <2>8
<1>9. CASE e.type = "KEY" /\ old.state = "CONNECTED" /\ process_key_event(e)
  <2> DEFINE h == held_after(old, e)
             src == [old EXCEPT !.held = h]
  <2>1. h \in SUBSET LowKeys
    BY <1>6 DEF held_after
  <2>2. source' = [source EXCEPT ![cur] = src]
    BY <1>1, <1>2, <1>9 DEF process_key_event
  <2> HIDE DEF h
  <2>3. src \in cart_input_source /\ src.node = old.node /\ src.state = old.state
        /\ src.held = h /\ src.axis = old.axis /\ src.axis_valid = old.axis_valid
        /\ src.raw = old.raw
    <3>1. old \in cart_input_source
      BY <1>2
    <3> HIDE DEF old
    <3> QED BY <2>1, <3>1, HeldUpdate
  <2> HIDE DEF src
  <2>4. TakesKey(e, src)
    BY <1>9, <2>3 DEF TakesKey, process_key_event, h
  <2> QED BY <1>1, <1>2, <1>3, <1>4, <2>2, <2>3, <2>4
<1>10. CASE e.type = "ABS" /\ old.state = "CONNECTED" /\ move(e)
  <2> DEFINE src == [old EXCEPT !.raw = e.value]
  <2>1. e.value \in Int
    BY <1>3, <1>10, EventTypes
  <2>2. source' = [source EXCEPT ![cur] = src]
    BY <1>1, <1>2, <1>10 DEF move
  <2>3. src \in cart_input_source /\ src.node = old.node /\ src.state = old.state
        /\ src.held = old.held /\ src.axis = old.axis /\ src.axis_valid = old.axis_valid
        /\ src.raw = e.value
    BY <1>2, <2>1, RawUpdate
  <2> HIDE DEF src
  <2>4. Moves(e, src)
    BY <1>10, <2>3 DEF Moves, move
  <2> QED BY <1>1, <1>2, <1>3, <1>4, <2>2, <2>3, <2>4
<1>11. CASE ignored(e, old.state) /\ UNCHANGED <<source, pending, queue, lossy, raced, early>>
  <2>1. source' = [source EXCEPT ![cur] = old]
    BY <1>1, <1>2, <1>11
  <2>2. Ignores(e, old)
    BY <1>5, <1>11 DEF Ignores, ignored
  <2> QED BY <1>1, <1>2, <1>3, <1>4, <2>1, <2>2
<1> QED
  BY <1>4, <1>7, <1>8, <1>9, <1>10, <1>11 DEF consume_event

\* What the actions of a device have in common: an event goes into the queues
\* of its listeners, and the side of the program stays as it is.
Delivered(d, e) ==
  /\ Deliver(d, e)
  /\ UNCHANGED <<pc, cur, input_vars, attached, dead, taken, raced, early, rescans_used>>

\* The queues after an event of d: one more event for those who listen.
LEMMA DeliveredTypes ==
  ASSUME TypeOK, NEW d \in Devices, NEW e \in Events, Deliver(d, e)
  PROVE  /\ queue' \in [Slots -> Seq(Events)]
         /\ \A s \in Slots : Len(queue'[s]) <= QueueCap
         /\ \A s \in Slots : ~listens(s, d) => queue'[s] = queue[s]
         /\ \A s \in Slots : listens(s, d) => queue'[s] = Enqueued(queue[s], e)
<1>1. \A s \in Slots : queue[s] \in Seq(Events) /\ Len(queue[s]) <= QueueCap
  BY DEF TypeOK
<1>2. \A s \in Slots : Enqueued(queue[s], e) \in Seq(Events) /\ Len(Enqueued(queue[s], e)) <= QueueCap
  BY <1>1, EnqueuedType
<1>3. queue' = [s \in Slots |-> IF listens(s, d) THEN Enqueued(queue[s], e) ELSE queue[s]]
  BY DEF Deliver
<1> QED
  BY <1>1, <1>2, <1>3

\* An event of a device keeps the types and the discipline of the slots.
LEMMA DeliveredInv ==
  ASSUME TypeOK, SlotsInv, NEW d \in Devices, NEW e \in Events, Delivered(d, e),
         unreported' \subseteq Devices, down' \in [Devices -> SUBSET Keys],
         pos' \in [Devices -> Positions], presses' \in Nat
  PROVE  TypeOK' /\ SlotsInv'
<1>1. /\ queue' \in [Slots -> Seq(Events)]
      /\ \A s \in Slots : Len(queue'[s]) <= QueueCap
      /\ \A s \in Slots : ~listens(s, d) => queue'[s] = queue[s]
  BY DeliveredTypes DEF Delivered
<1>2. lossy' \in BOOLEAN
  BY DEF Delivered, Deliver
<1>3. /\ UNCHANGED <<pc, cur, source, partial, pending, action, attached>>
      /\ UNCHANGED <<dead, taken, raced, early, rescans_used>>
  BY DEF Delivered, input_vars
<1>4. TypeOK'
  BY <1>1, <1>2, <1>3 DEF TypeOK, slot_empty
<1>5. \A s \in Slots : slot_empty(s) => ~listens(s, d)
  BY DeviceTypes DEF slot_empty, listens
<1>6. SlotsInv'
  BY <1>1, <1>3, <1>5 DEF SlotsInv, slot_empty
<1> QED
  BY <1>4, <1>6

\* A pass of the discovery, in cart_input_init and in cart_input_rescan.
LEMMA DiscoveredInv ==
  ASSUME TypeOK, SlotsInv, NEW before \in [Slots -> cart_input_source], NEW C, NEW node,
         \A s \in Slots : before[s] = source[s] \/ (before[s] = reset_source /\ slot_empty(s)),
         Discovered(before, C, node), pc \in {"new", "idle"}, pc' = "idle",
         UNCHANGED <<cur, partial, pending, action, device_vars, presses, taken, lossy>>,
         rescans_used' \in Nat
  PROVE  TypeOK' /\ SlotsInv'
<1>1. /\ source' = [s \in Slots |-> IF s \in C THEN connected(node[s]) ELSE before[s]]
      /\ queue' = [s \in Slots |-> IF s \in C THEN <<>> ELSE queue[s]]
      /\ early' = [s \in Slots |-> IF s \in C THEN down[node[s]] ELSE early[s]]
      /\ \A s \in C : node[s] \in Devices /\ s \in Slots /\ before[s].node = NoNode
  BY DEF Discovered
<1>2. /\ dead' = [s \in Slots |-> dead[s] /\ s \notin C]
      /\ raced' = {s \in raced : s \notin C}
  BY DEF Discovered
<1>3. /\ UNCHANGED <<cur, partial, pending, action, presses, taken, lossy>>
      /\ UNCHANGED <<attached, down, pos, unreported>>
  BY DEF device_vars
<1>4. pos \in [Devices -> Positions] /\ down \in [Devices -> SUBSET Keys]
  BY DEF TypeOK
<1>5. \A s \in C : /\ connected(node[s]) \in cart_input_source
                   /\ connected(node[s]).node = node[s] /\ connected(node[s]).state = "CONNECTED"
  BY <1>1, <1>4, Connected
<1>6. source' \in [Slots -> cart_input_source]
  BY <1>1, <1>5
<1>7. /\ queue' \in [Slots -> Seq(Events)] /\ \A s \in Slots : Len(queue'[s]) <= QueueCap
      /\ early' \in [Slots -> SUBSET Keys] /\ raced' \subseteq Slots
  <2>1. queue' \in [Slots -> Seq(Events)] /\ \A s \in Slots : Len(queue'[s]) <= QueueCap
    BY <1>1, DeviceTypes, EmptySeq DEF TypeOK
  <2>2. early' \in [Slots -> SUBSET Keys]
    BY <1>1, <1>4 DEF TypeOK
  <2>3. raced' \subseteq Slots
    BY <1>2 DEF TypeOK
  <2> QED BY <2>1, <2>2, <2>3
<1>8. dead' \in [Slots -> BOOLEAN] /\ \A s \in Slots : ~dead[s] => ~dead'[s]
  BY <1>2
<1>9. \A s \in Slots : source'[s].node = NoNode <=> source'[s].state = "ABSENT"
  <2> TAKE s \in Slots
  <2>1. CASE s \in C
    BY <1>1, <1>5, <2>1, DeviceTypes
  <2>2. CASE s \notin C
    <3>1. source'[s] = before[s]
      BY <1>1, <2>2
    <3> QED BY <3>1 DEF TypeOK, slot_empty, reset_source
  <2> QED BY <2>1, <2>2
<1>10. TypeOK'
  BY <1>3, <1>6, <1>7, <1>8, <1>9 DEF TypeOK, slot_empty
<1>11. ASSUME NEW s \in Slots, source'[s].node = NoNode
       PROVE  slot_empty(s) /\ queue'[s] = queue[s] /\ (dead'[s] = FALSE \/ dead[s])
  <2>1. s \notin C
    BY <1>1, <1>5, <1>11, DeviceTypes
  <2>2. source'[s] = before[s] /\ queue'[s] = queue[s]
    BY <1>1, <2>1
  <2>3. slot_empty(s)
    BY <1>11, <2>2 DEF slot_empty
  <2>4. dead'[s] = FALSE \/ dead[s]
    BY <1>8
  <2> QED BY <2>2, <2>3, <2>4
<1>12. \A s \in Slots : partial[s] = <<>>
  BY DEF SlotsInv
<1>13. SlotsInv'
  BY <1>3, <1>8, <1>11, <1>12 DEF SlotsInv, slot_empty
<1> QED
  BY <1>10, <1>13

----------------------------------------------------------------------------
(* Types, and the discipline of the slots *)

\* A sequence cut into its first n elements and the rest.
LEMMA SplitAt ==
  ASSUME NEW q \in Seq(Events), NEW n \in 1 .. Len(q)
  PROVE  /\ SubSeq(q, 1, n) \in Seq(Events) /\ Len(SubSeq(q, 1, n)) = n
         /\ \A i \in 1 .. n : SubSeq(q, 1, n)[i] = q[i]
         /\ SubSeq(q, n + 1, Len(q)) \in Seq(Events)
         /\ Len(SubSeq(q, n + 1, Len(q))) = Len(q) - n
         /\ \A i \in 1 .. Len(q) - n : SubSeq(q, n + 1, Len(q))[i] = q[n + i]
         /\ SubSeq(q, 1, n) \o SubSeq(q, n + 1, Len(q)) = q
<1> DEFINE a == SubSeq(q, 1, n)
           b == SubSeq(q, n + 1, Len(q))
<1>1. Len(q) \in Nat /\ n \in Nat /\ n <= Len(q) /\ \A i \in 1 .. Len(q) : q[i] \in Events
  BY LenProperties, ElementOfSeq
<1>2. a \in Seq(Events) /\ Len(a) = n /\ \A i \in 1 .. n : a[i] = q[i]
  <2>1. \A i \in 1 .. n : q[i] \in Events
    BY <1>1
  <2> QED BY <1>1, <2>1, SubSeqProperties
<1>3. b \in Seq(Events) /\ Len(b) = Len(q) - n /\ \A i \in 1 .. Len(q) - n : b[i] = q[n + i]
  <2>1. \A i \in n + 1 .. Len(q) : q[i] \in Events
    BY <1>1
  <2> QED BY <1>1, <2>1, SubSeqProperties
<1>4. a \o b = q
  <2> HIDE DEF a, b
  <2>1. /\ a \o b \in Seq(Events) /\ Len(a \o b) = Len(a) + Len(b)
        /\ \A i \in 1 .. Len(a) + Len(b) :
             (a \o b)[i] = IF i <= Len(a) THEN a[i] ELSE b[i - Len(a)]
    BY <1>2, <1>3, ConcatProperties
  <2> DEFINE c == a \o b
  <2>2. Len(c) = Len(q) /\ c \in Seq(Events)
    BY <1>1, <1>2, <1>3, <2>1
  <2>3. ASSUME NEW i \in 1 .. Len(c) PROVE c[i] = q[i]
    <3>1. i \in 1 .. Len(q) /\ i \in 1 .. Len(a) + Len(b) /\ i \in Nat
      BY <1>1, <1>2, <1>3, <2>2
    <3>2. CASE i <= n
      BY <1>1, <1>2, <2>1, <3>1, <3>2
    <3>3. CASE i > n
      <4>1. c[i] = b[i - n]
        BY <1>1, <1>2, <2>1, <3>1, <3>3
      <4>2. i - n \in 1 .. Len(q) - n /\ n + (i - n) = i
        BY <1>1, <3>1, <3>3
      <4>3. b[i - n] = q[n + (i - n)]
        BY <1>3, <4>2
      <4> QED BY <4>1, <4>2, <4>3
    <3> QED BY <1>1, <3>1, <3>2, <3>3
  <2> HIDE DEF c
  <2>4. c = q
    BY <2>2, <2>3, SeqEqual
  <2> QED BY <2>4 DEF c
<1> HIDE DEF a, b
<1> QED
  BY <1>2, <1>3, <1>4 DEF a, b

\* A read takes the first n events of the queue: there is a SYN_REPORT among
\* them or after them, and at the end of them if there is none after them.
LEMMA ReadSplits ==
  ASSUME NEW q \in Seq(Events), NEW n, n = Min({BufCap, readable(q)}), n > 0
  PROVE  /\ n \in 1 .. Len(q) /\ n <= BufCap /\ n <= readable(q)
         /\ q[readable(q)] = Report /\ readable(q) \in 1 .. Len(q)
         /\ SubSeq(q, 1, n) \in Seq(Events) /\ Len(SubSeq(q, 1, n)) = n
         /\ \A i \in 1 .. n : SubSeq(q, 1, n)[i] = q[i]
         /\ SubSeq(q, n + 1, Len(q)) \in Seq(Events)
         /\ Len(SubSeq(q, n + 1, Len(q))) = Len(q) - n
         /\ \A i \in 1 .. Len(q) - n : SubSeq(q, n + 1, Len(q))[i] = q[n + i]
         /\ SubSeq(q, 1, n) \o SubSeq(q, n + 1, Len(q)) = q
         /\ n = BufCap \/ n = readable(q)
<1> DEFINE r == readable(q)
<1>1. Len(q) \in Nat /\ BufCap \in Nat /\ \A i \in 1 .. Len(q) : q[i] \in Events
  BY LenProperties, DeviceTypes, ElementOfSeq
<1>2. r \in 0 .. Len(q) /\ (r # 0 => q[r] = Report)
  BY Readable
<1> HIDE DEF r
<1>3. n \in {BufCap, r} /\ n <= BufCap /\ n <= r
  <2>1. \E x \in {BufCap, r} : \A y \in {BufCap, r} : x =< y
    BY <1>1, <1>2
  <2> QED BY <2>1 DEF Min, r
<1>4. n \in 1 .. Len(q) /\ r \in 1 .. Len(q) /\ n \in Nat /\ r # 0
  BY <1>1, <1>2, <1>3
<1> QED
  BY <1>2, <1>3, <1>4, SplitAt DEF r

\* The types and the discipline of the slots hold at first ...
LEMMA TypeInit ==
  ASSUME Init PROVE TypeOK /\ SlotsInv
<1>1. source \in [Slots -> cart_input_source] /\ \A s \in Slots : slot_empty(s)
  BY SourceTypes DEF Init, slot_empty, reset_source
<1>2. \A s \in Slots : source[s].state = "ABSENT"
  BY DEF Init, reset_source
<1>3. pos \in [Devices -> Positions]
  <2>1. (CHOOSE v \in Positions : TRUE) \in Positions
    BY InputAssumption
  <2> QED BY <2>1 DEF Init
<1>4. /\ partial \in [Slots -> Seq(Events)] /\ \A s \in Slots : Len(partial[s]) <= BufCap
      /\ queue \in [Slots -> Seq(Events)] /\ \A s \in Slots : Len(queue[s]) <= QueueCap
      /\ pending \in Seq({KeyAction[k] : k \in Keys} \ {"NONE"}) /\ Len(pending) <= Pending
  BY DeviceTypes, EmptySeq DEF Init
<1>5. TypeOK
  <2>1. dead \in [Slots -> BOOLEAN] /\ lossy \in BOOLEAN
    BY DEF Init
  <2>2. /\ attached \subseteq Devices /\ unreported \subseteq Devices
        /\ down \in [Devices -> SUBSET Keys] /\ early \in [Slots -> SUBSET Keys]
        /\ raced \subseteq Slots /\ presses \in Nat /\ taken \in Nat
    BY DEF Init
  <2>3. /\ pc \in {"new", "idle", "walk", "pump", "closed"} /\ cur \in 0 .. MaxSources
        /\ action \in {KeyAction[k] : k \in Keys} \cup {"NONE"}
    BY DeviceTypes DEF Init
  <2> QED BY <1>1, <1>2, <1>3, <1>4, <2>1, <2>2, <2>3 DEF TypeOK
<1>6. SlotsInv
  BY <1>1 DEF Init, SlotsInv
<1> QED
  BY <1>5, <1>6

\* ... and every action keeps them.
LEMMA TypeStep ==
  ASSUME TypeOK, SlotsInv, [Next]_vars PROVE TypeOK' /\ SlotsInv'
<1>1. ASSUME NEW d \in Devices, NEW v \in Positions, DeviceAbs(d, v)
      PROVE  TypeOK' /\ SlotsInv'
  <2>1. Delivered(d, [type |-> "ABS", value |-> v])
    BY <1>1 DEF Delivered, DeviceAbs
  <2>2. /\ unreported' \subseteq Devices /\ down' \in [Devices -> SUBSET Keys]
        /\ pos' \in [Devices -> Positions] /\ presses' \in Nat
    BY <1>1 DEF DeviceAbs, TypeOK
  <2> QED BY <2>1, <2>2, EventTypes, DeliveredInv
<1>2. ASSUME NEW d \in Devices, NEW k \in Keys, DeviceKey(d, k)
      PROVE  TypeOK' /\ SlotsInv'
  <2> DEFINE e == [type |-> "KEY", key |-> k, value |-> IF k \in down[d] THEN 0 ELSE 1]
  <2>1. Delivered(d, e)
    BY <1>2 DEF Delivered, DeviceKey
  <2>2. e \in Events
    BY DEF Events
  <2>3. /\ unreported' \subseteq Devices /\ down' \in [Devices -> SUBSET Keys]
        /\ pos' \in [Devices -> Positions] /\ presses' \in Nat
    BY <1>2 DEF DeviceKey, TypeOK
  <2> HIDE DEF e
  <2> QED BY <2>1, <2>2, <2>3, DeliveredInv
<1>3. ASSUME NEW d \in Devices, NEW k \in Keys, DeviceRepeat(d, k)
      PROVE  TypeOK' /\ SlotsInv'
  <2> DEFINE e == [type |-> "KEY", key |-> k, value |-> 2]
  <2>1. Delivered(d, e)
    BY <1>3 DEF Delivered, DeviceRepeat
  <2>2. e \in Events
    BY DEF Events
  <2>3. /\ unreported' \subseteq Devices /\ down' \in [Devices -> SUBSET Keys]
        /\ pos' \in [Devices -> Positions] /\ presses' \in Nat
    BY <1>3 DEF DeviceRepeat, TypeOK
  <2> HIDE DEF e
  <2> QED BY <2>1, <2>2, <2>3, DeliveredInv
<1>4. ASSUME NEW d \in Devices, DeviceReport(d)
      PROVE  TypeOK' /\ SlotsInv'
  <2>1. Delivered(d, Report)
    BY <1>4 DEF Delivered, DeviceReport, bound_vars
  <2>2. /\ unreported' \subseteq Devices /\ down' \in [Devices -> SUBSET Keys]
        /\ pos' \in [Devices -> Positions] /\ presses' \in Nat
    BY <1>4 DEF DeviceReport, TypeOK
  <2> QED BY <2>1, <2>2, EventTypes, DeliveredInv
<1>5. ASSUME NEW d \in Devices, DeviceRemoved(d)
      PROVE  TypeOK' /\ SlotsInv'
  <2>1. dead' \in [Slots -> BOOLEAN] /\ lossy' \in BOOLEAN
    BY <1>5 DEF DeviceRemoved
  <2>2. TypeOK'
    BY <1>5, <2>1 DEF DeviceRemoved, TypeOK, input_vars, slot_empty
  <2>3. \A s \in Slots : slot_empty(s) => (dead'[s] <=> dead[s])
    BY <1>5, DeviceTypes DEF DeviceRemoved, slot_empty
  <2>4. SlotsInv'
    BY <1>5, <2>3 DEF DeviceRemoved, SlotsInv, input_vars, slot_empty
  <2> QED BY <2>2, <2>4
<1>6. ASSUME NEW d \in Devices, DevicePlugged(d)
      PROVE  TypeOK' /\ SlotsInv'
  BY <1>6 DEF DevicePlugged, TypeOK, SlotsInv, input_vars, ghost_vars, bound_vars, slot_empty
<1>7. CASE cart_input_init
  <2> DEFINE before == [s \in Slots |-> reset_source]
  <2>1. PICK c \in SUBSET Devices : discover_pass(before, c)
    BY <1>7 DEF cart_input_init, Found, TypeOK
  <2>2. before \in [Slots -> cart_input_source]
    BY SourceTypes
  <2>3. \A s \in Slots : before[s] = source[s] \/ (before[s] = reset_source /\ slot_empty(s))
    BY <1>7 DEF cart_input_init, SlotsInv
  <2> HIDE DEF before
  <2>4. PICK C, node : Discovered(before, C, node)
    BY <2>1, Discovery
  <2>5. /\ pc \in {"new", "idle"} /\ pc' = "idle" /\ rescans_used' \in Nat
        /\ UNCHANGED <<cur, partial, pending, action, device_vars, presses, taken, lossy>>
    BY <1>7 DEF cart_input_init, bound_vars, SlotsInv
  <2> QED BY <2>2, <2>3, <2>4, <2>5, DiscoveredInv
<1>8. CASE cart_input_rescan
  <2>1. PICK c \in SUBSET Devices : discover_pass(source, c)
    BY <1>8 DEF cart_input_rescan, Found, TypeOK
  <2>2. source \in [Slots -> cart_input_source]
    BY DEF TypeOK
  <2>3. PICK C, node : Discovered(source, C, node)
    BY <2>1, Discovery
  <2>4. /\ pc \in {"new", "idle"} /\ pc' = "idle" /\ rescans_used' \in Nat
        /\ UNCHANGED <<cur, partial, pending, action, device_vars, presses, taken, lossy>>
    BY <1>8 DEF cart_input_rescan, SlotsInv
  <2>5. \A s \in Slots : source[s] = source[s] \/ (source[s] = reset_source /\ slot_empty(s))
    OBVIOUS
  <2> QED BY <2>2, <2>3, <2>4, <2>5, DiscoveredInv
<1>9. CASE cart_input_shutdown
  <2>1. \A s \in Slots : source'[s] = reset_source /\ partial'[s] = <<>> /\ queue'[s] = <<>>
                         /\ ~dead'[s]
    BY <1>9 DEF cart_input_shutdown
  <2>2. dead' \in [Slots -> BOOLEAN] /\ lossy' \in BOOLEAN
    BY <1>9 DEF cart_input_shutdown, TypeOK, ghost_vars
  <2>3. source' \in [Slots -> cart_input_source]
    BY <1>9, SourceTypes DEF cart_input_shutdown
  <2>4. /\ partial' \in [Slots -> Seq(Events)] /\ \A s \in Slots : Len(partial'[s]) <= BufCap
        /\ queue' \in [Slots -> Seq(Events)] /\ \A s \in Slots : Len(queue'[s]) <= QueueCap
        /\ pending' \in Seq({KeyAction[k] : k \in Keys} \ {"NONE"}) /\ Len(pending') <= Pending
    BY <1>9, DeviceTypes, EmptySeq DEF cart_input_shutdown
  <2>5. \A s \in Slots : source'[s].node = NoNode /\ source'[s].state = "ABSENT"
    BY <2>1 DEF reset_source
  <2>6. TypeOK'
    BY <1>9, <2>2, <2>3, <2>4, <2>5
    DEF cart_input_shutdown, TypeOK, slot_empty, device_vars, ghost_vars
  <2>7. SlotsInv'
    BY <1>9, <2>1, <2>5 DEF cart_input_shutdown, SlotsInv, slot_empty, bound_vars
  <2> QED BY <2>6, <2>7
<1>10. CASE PollBegin
  BY <1>10, DeviceTypes
  DEF PollBegin, TypeOK, SlotsInv, slot_empty, device_vars, ghost_vars, bound_vars
<1>11. CASE PollSkip
  BY <1>11, DeviceTypes
  DEF PollSkip, TypeOK, SlotsInv, slot_empty, input_vars, device_vars, ghost_vars, bound_vars
<1>12. CASE PollEnter
  <2>1. cur \in Slots /\ ~slot_empty(cur)
    BY <1>12, DeviceTypes DEF PollEnter, TypeOK, skipped, Slots
  <2> QED
    BY <1>12, <2>1
    DEF PollEnter, TypeOK, SlotsInv, slot_empty, input_vars, device_vars, ghost_vars, bound_vars
<1>13. CASE PumpConsume
  <2> DEFINE e == Head(partial[cur])
             p == partial[cur]
  <2>1. /\ cur \in Slots /\ ~slot_empty(cur)
        /\ p # <<>> /\ p \in Seq(Events) /\ e \in Events
        /\ partial' = [partial EXCEPT ![cur] = Tail(p)]
        /\ \E src \in cart_input_source :
              /\ source' = [source EXCEPT ![cur] = src]
              /\ src.node = source[cur].node
              /\ src.axis = source[cur].axis /\ src.axis_valid = source[cur].axis_valid
              /\ \/ Disconnects(e, src) \/ Resyncs(e, src) \/ TakesKey(e, src)
                 \/ Moves(e, src) \/ Ignores(e, src)
    BY <1>13, Consumed
  <2>2. PICK src \in cart_input_source :
              /\ source' = [source EXCEPT ![cur] = src]
              /\ src.node = source[cur].node
              /\ \/ Disconnects(e, src) \/ Resyncs(e, src) \/ TakesKey(e, src)
                 \/ Moves(e, src) \/ Ignores(e, src)
    BY <2>1
  <2> HIDE DEF e
  <2>3. src.state # "ABSENT" /\ src.node # NoNode
    <3>1. source[cur].state # "ABSENT" /\ source[cur].node # NoNode
      BY <2>1 DEF TypeOK, slot_empty
    <3> QED BY <2>2, <3>1 DEF Disconnects, Resyncs, TakesKey, Moves, Ignores
  <2>4. /\ source' \in [Slots -> cart_input_source]
        /\ \A s \in Slots : source'[s].node = source[s].node
        /\ \A s \in Slots : source'[s].node = NoNode <=> source'[s].state = "ABSENT"
    BY <2>1, <2>2, <2>3 DEF TypeOK, slot_empty
  <2>5. /\ partial' \in [Slots -> Seq(Events)] /\ \A s \in Slots : Len(partial'[s]) <= BufCap
        /\ \A s \in Slots : s # cur => partial'[s] = partial[s]
    <3>1. Tail(p) \in Seq(Events) /\ Len(Tail(p)) = Len(p) - 1 /\ Len(p) \in Nat
      BY <2>1, HeadTailProperties, LenProperties
    <3>2. Len(p) <= BufCap /\ BufCap \in Nat
      BY <2>1, DeviceTypes DEF TypeOK
    <3> QED BY <2>1, <3>1, <3>2 DEF TypeOK
  <2>6. /\ queue' \in [Slots -> Seq(Events)] /\ \A s \in Slots : Len(queue'[s]) <= QueueCap
        /\ \A s \in Slots : s # cur => queue'[s] = queue[s]
    <3>1. UNCHANGED queue \/ queue' = [queue EXCEPT ![cur] = flushed(queue[cur])]
      BY <2>2 DEF Disconnects, Resyncs, TakesKey, Moves, Ignores
    <3>2. queue[cur] \in Seq(Events) /\ Len(queue[cur]) <= QueueCap /\ Len(queue[cur]) \in Nat
          /\ QueueCap \in Nat
      BY <2>1, LenProperties, DeviceTypes DEF TypeOK
    <3> DEFINE fl == flushed(queue[cur])
    <3>3. fl \in Seq(Events) /\ Len(fl) <= Len(queue[cur]) /\ Len(fl) \in Nat
      BY <3>2, Flushed, LenProperties
    <3> HIDE DEF fl
    <3>4. Len(fl) <= QueueCap
      BY <3>2, <3>3
    <3>5. CASE UNCHANGED queue
      BY <3>5 DEF TypeOK
    <3>6. CASE queue' = [queue EXCEPT ![cur] = fl]
      BY <2>1, <3>3, <3>4, <3>6 DEF TypeOK
    <3> QED BY <3>1, <3>5, <3>6 DEF fl
  <2>7. pending' \in Seq({KeyAction[k] : k \in Keys} \ {"NONE"}) /\ Len(pending') <= Pending
    <3> DEFINE A == {KeyAction[k] : k \in Keys} \ {"NONE"}
    <3>1. pending \in Seq(A) /\ Len(pending) <= Pending /\ Len(pending) \in Nat /\ Pending \in Nat
      BY LenProperties, DeviceTypes DEF TypeOK
    <3>2. CASE TakesKey(e, src)
      <4>1. e.key \in Keys
        BY <2>1, <3>2, EventTypes DEF TakesKey
      <4>2. pending' = IF emits(e) /\ Len(pending) < Pending
                       THEN Append(pending, KeyAction[e.key]) ELSE pending
        BY <3>2 DEF TakesKey, enqueue_action
      <4>3. CASE emits(e) /\ Len(pending) < Pending
        <5>1. KeyAction[e.key] \in A
          BY <4>1, <4>3 DEF emits
        <5> HIDE DEF A
        <5>2. Append(pending, KeyAction[e.key]) \in Seq(A)
              /\ Len(Append(pending, KeyAction[e.key])) = Len(pending) + 1
          BY <3>1, <5>1, AppendProperties
        <5>3. pending' \in Seq(A) /\ Len(pending') <= Pending
          BY <3>1, <4>2, <4>3, <5>2
        <5> QED BY <5>3 DEF A
      <4>4. CASE ~(emits(e) /\ Len(pending) < Pending)
        BY <3>1, <4>2, <4>4
      <4> QED BY <4>3, <4>4
    <3>3. CASE UNCHANGED pending
      BY <3>1, <3>3
    <3> QED BY <2>2, <3>2, <3>3 DEF Disconnects, Resyncs, Moves, Ignores
  <2>8. early' \in [Slots -> SUBSET Keys] /\ raced' \subseteq Slots
    <3>1. early \in [Slots -> SUBSET Keys] /\ raced \subseteq Slots
      BY DEF TypeOK
    <3>2. CASE Resyncs(e, src)
      BY <2>1, <3>1, <3>2 DEF Resyncs
    <3>3. CASE TakesKey(e, src)
      BY <2>1, <3>1, <3>3 DEF TakesKey
    <3>4. CASE UNCHANGED <<early, raced>>
      BY <3>1, <3>4
    <3> QED BY <2>2, <3>2, <3>3, <3>4 DEF Disconnects, Moves, Ignores
  <2>9. lossy' \in BOOLEAN
    BY Zenon, <2>2 DEF TypeOK, Disconnects, Resyncs, TakesKey, Moves, Ignores
  <2>10. UNCHANGED <<pc, cur, action, attached, down, pos, unreported, dead, presses, taken,
                     rescans_used>>
    BY <1>13 DEF PumpConsume, device_vars, bound_vars
  <2>11. TypeOK'
    BY <2>4, <2>5, <2>6, <2>7, <2>8, <2>9, <2>10 DEF TypeOK, slot_empty
  <2>12. SlotsInv'
    <3>1. pc = "pump"
      BY <1>13 DEF PumpConsume
    <3> QED BY <2>1, <2>4, <2>5, <2>6, <2>10, <3>1 DEF SlotsInv, slot_empty
  <2> QED BY <2>11, <2>12
<1>14. CASE PumpRead
  <2> DEFINE q == queue[cur]
             n == Min({BufCap, readable(q)})
             a == SubSeq(q, 1, n)
             b == SubSeq(q, n + 1, Len(q))
  <2>1. cur \in Slots /\ ~slot_empty(cur) /\ pc = "pump"
    BY <1>14 DEF PumpRead, SlotsInv
  <2>2. q \in Seq(Events) /\ Len(q) <= QueueCap /\ Len(q) \in Nat /\ QueueCap \in Nat
    BY <2>1, LenProperties, DeviceTypes DEF TypeOK
  <2>3. n > 0 /\ partial' = [partial EXCEPT ![cur] = a] /\ queue' = [queue EXCEPT ![cur] = b]
    BY <1>14 DEF PumpRead
  <2> HIDE DEF n
  <2>4. n \in 1 .. Len(q) /\ n <= BufCap
        /\ a \in Seq(Events) /\ Len(a) = n /\ b \in Seq(Events) /\ Len(b) = Len(q) - n
    BY <2>2, <2>3, ReadSplits DEF n
  <2> HIDE DEF a, b
  <2>5. Len(a) <= BufCap /\ Len(b) <= QueueCap
    BY <2>2, <2>4
  <2>6. UNCHANGED <<pc, cur, source, pending, action, attached, down, pos, unreported, dead,
                    presses, taken, lossy, raced, early, rescans_used>>
    BY <1>14 DEF PumpRead, device_vars, ghost_vars, bound_vars
  <2>7. TypeOK'
    BY <2>1, <2>3, <2>4, <2>5, <2>6 DEF TypeOK, slot_empty
  <2>8. SlotsInv'
    BY <2>1, <2>3, <2>6 DEF SlotsInv, slot_empty, TypeOK
  <2> QED BY <2>7, <2>8
<1>15. CASE PumpAgain
  <2>1. /\ UNCHANGED <<source, partial, pending, action, attached, down, pos, unreported>>
        /\ UNCHANGED <<queue, dead, presses, taken, lossy, raced, early, rescans_used>>
        /\ pc = "pump" /\ partial[cur] = <<>> /\ pc' = "walk" /\ cur' = cur + 1
    BY <1>15 DEF PumpAgain, input_vars, device_vars, ghost_vars, bound_vars
  <2>2. cur' \in 0 .. MaxSources
    BY <2>1, DeviceTypes DEF SlotsInv, Slots
  <2>3. TypeOK'
    BY <2>1, <2>2 DEF TypeOK, slot_empty
  <2>4. SlotsInv'
    BY <2>1 DEF SlotsInv, slot_empty
  <2> QED BY <2>3, <2>4
<1>16. CASE PumpHangup
  <2>1. cur \in Slots /\ partial[cur] = <<>>
    BY <1>16 DEF PumpHangup, SlotsInv
  <2> DEFINE src == handle_disconnect(source[cur])
  <2>2. src \in cart_input_source /\ src.node = NoNode /\ src.state = "ABSENT"
    BY <2>1, SourceTypes DEF TypeOK
  <2>3. source' = [source EXCEPT ![cur] = src]
    BY <1>16 DEF PumpHangup
  <2> HIDE DEF src
  <2>4. dead' \in [Slots -> BOOLEAN] /\ lossy' \in BOOLEAN
    BY <1>16 DEF PumpHangup, TypeOK, ghost_vars
  <2>5. \A s \in Slots : IF s = cur THEN dead'[s] = FALSE ELSE dead'[s] = dead[s]
    BY <1>16 DEF PumpHangup, TypeOK
  <2>6. /\ partial' = [partial EXCEPT ![cur] = <<>>] /\ queue' = [queue EXCEPT ![cur] = <<>>]
        /\ UNCHANGED <<pending, action, attached, down, pos, unreported,
                       presses, taken, raced, early, rescans_used>>
        /\ pc' = "walk" /\ cur' = cur + 1
    BY <1>16 DEF PumpHangup, device_vars, ghost_vars, bound_vars
  <2>7. cur' \in 0 .. MaxSources
    BY <2>1, <2>6, DeviceTypes DEF Slots
  <2>8. TypeOK'
    <3>1. <<>> \in Seq(Events) /\ Len(<<>>) = 0
      BY EmptySeq
    <3>2. partial' \in [Slots -> Seq(Events)] /\ queue' \in [Slots -> Seq(Events)]
      BY <2>6, <3>1 DEF TypeOK
    <3>3. \A s \in Slots : Len(partial'[s]) <= BufCap /\ Len(queue'[s]) <= QueueCap
      BY <2>6, <3>1, DeviceTypes DEF TypeOK
    <3>4. source' \in [Slots -> cart_input_source]
      BY <2>2, <2>3 DEF TypeOK
    <3>5. \A s \in Slots : source'[s].node = NoNode <=> source'[s].state = "ABSENT"
      BY <2>2, <2>3 DEF TypeOK, slot_empty
    <3> QED BY <2>4, <2>6, <2>7, <3>2, <3>3, <3>4, <3>5 DEF TypeOK, slot_empty
  <2>9. SlotsInv'
    BY <2>1, <2>2, <2>3, <2>5, <2>6 DEF SlotsInv, slot_empty, TypeOK
  <2> QED BY <2>8, <2>9
<1>17. CASE PollEnd
  <2> DEFINE A == {KeyAction[k] : k \in Keys} \ {"NONE"}
  <2>1. /\ pending' \in Seq(A) /\ Len(pending') <= Pending
        /\ action' \in A \cup {"NONE"} /\ taken' \in Nat
    <3>1. pending \in Seq(A) /\ Len(pending) <= Pending /\ Len(pending) \in Nat /\ Pending \in Nat
          /\ action \in A \cup {"NONE"} /\ taken \in Nat
      BY LenProperties, DeviceTypes DEF TypeOK
    <3>2. CASE pending = <<>>
      BY <1>17, <3>1, <3>2 DEF PollEnd
    <3>3. CASE pending # <<>>
      <4> HIDE DEF A
      <4>1. Head(pending) \in A /\ Tail(pending) \in Seq(A) /\ Len(Tail(pending)) = Len(pending) - 1
        BY <3>1, <3>3, HeadTailProperties
      <4> QED BY <1>17, <3>1, <3>3, <4>1 DEF PollEnd
    <3> QED BY <3>2, <3>3
  <2>2. action' \in {KeyAction[k] : k \in Keys} \cup {"NONE"}
    BY <2>1
  <2>3. /\ UNCHANGED <<source, partial, attached, down, pos, unreported, queue, dead, presses,
                       lossy, raced, early, rescans_used>>
        /\ pc = "walk" /\ pc' = "idle" /\ cur' = 0
    BY <1>17 DEF PollEnd, device_vars, bound_vars
  <2>4. TypeOK'
    BY <2>1, <2>2, <2>3, DeviceTypes DEF TypeOK, slot_empty
  <2>5. SlotsInv'
    BY <2>3 DEF SlotsInv, slot_empty
  <2> QED BY <2>4, <2>5
<1>18. CASE UNCHANGED vars
  BY <1>18 DEF TypeOK, SlotsInv, slot_empty, vars, input_vars, device_vars, ghost_vars, bound_vars
<1> QED
  BY <1>1, <1>2, <1>3, <1>4, <1>5, <1>6, <1>7, <1>8, <1>9, <1>10, <1>11, <1>12, <1>13, <1>14,
     <1>15, <1>16, <1>17, <1>18 DEF Next, Poll, Closed

----------------------------------------------------------------------------
(* Recovery from an overflow *)

\* A queue that promises a SYN_REPORT goes on to do so when an event is added,
\* even when it overflows.
LEMMA PledgeKept ==
  ASSUME NEW q \in Seq(Events), Len(q) <= QueueCap
  PROVE  /\ \A e \in Events : /\ Relapsed(q) => Relapsed(Enqueued(q, e))
                              /\ Pledged(q) => Pledged(Enqueued(q, e))
         /\ Relapsed(q) => Relapsed(flushed(q))
         /\ Pledged(q) => Pledged(flushed(q))
<1>1. Len(q) \in Nat /\ \A i \in 1 .. Len(q) : q[i] \in Events
  BY LenProperties, ElementOfSeq
<1>2. q # <<>> => 1 \in 1 .. Len(q)
  BY EmptySeq
<1>3. ASSUME NEW e \in Events
      PROVE  /\ Relapsed(q) => Relapsed(Enqueued(q, e))
             /\ Pledged(q) => Pledged(Enqueued(q, e))
  <2>1. CASE Len(q) # QueueCap
    <3> DEFINE a == Append(q, e)
    <3>1. Enqueued(q, e) = a
      BY <2>1, EnqueuedType
    <3>2. a # <<>> /\ Len(a) = Len(q) + 1 /\ \A i \in 1 .. Len(q) : a[i] = q[i]
      BY AppendProperties
    <3> HIDE DEF a
    <3>3. Relapsed(q) => Relapsed(a)
      BY <1>2, <3>2 DEF Relapsed
    <3>4. Has(q, Report) => Has(a, Report)
      BY <1>1, <3>2 DEF Has
    <3> QED BY <3>1, <3>3, <3>4 DEF Pledged
  <2>2. CASE Len(q) = QueueCap
    <3>1. Enqueued(q, e) = <<Dropped, e>>
      BY <2>2, EnqueuedType
    <3>2. Relapsed(<<Dropped, e>>)
      BY DEF Relapsed
    <3> QED BY <3>1, <3>2 DEF Pledged
  <2> QED BY <2>1, <2>2
<1> DEFINE f == flushed(q)
<1>4. PICK nth \in [1 .. Len(f) -> 1 .. Len(q)] :
        /\ \A i \in 1 .. Len(f) : f[i] = q[nth[i]]
        /\ \A i, j \in 1 .. Len(f) : i < j <=> nth[i] < nth[j]
        /\ \A k \in 1 .. Len(q) : q[k].type # "KEY" => \E i \in 1 .. Len(f) : nth[i] = k
  BY Flushed
<1>5. f \in Seq(Events) /\ Len(f) \in Nat
  BY Flushed, LenProperties
<1> HIDE DEF f
<1>6. Dropped.type # "KEY" /\ Report.type # "KEY"
  BY DEF Dropped, Report
<1>7. Relapsed(q) => Relapsed(f)
  <2> SUFFICES ASSUME Relapsed(q) PROVE Relapsed(f)
    OBVIOUS
  <2>1. 1 \in 1 .. Len(q) /\ q[1] = Dropped
    BY <1>2 DEF Relapsed
  <2>2. PICK i \in 1 .. Len(f) : nth[i] = 1
    BY <1>4, <1>6, <2>1
  <2>3. 1 \in 1 .. Len(f)
    BY <1>5
  <2>4. ~(1 < i)
    <3>1. nth[1] \in 1 .. Len(q) /\ nth[i] \in 1 .. Len(q)
      BY <1>4, <2>3
    <3>2. ~(nth[1] < nth[i])
      BY <1>1, <2>2, <3>1
    <3> QED BY <1>4, <2>3, <3>2
  <2>5. i = 1
    BY <1>5, <2>4
  <2>6. f[1] = Dropped
    BY <1>4, <2>1, <2>2, <2>5
  <2>7. f # <<>>
    BY <2>3, EmptySeq
  <2> QED BY <2>6, <2>7 DEF Relapsed
<1>8. Has(q, Report) => Has(f, Report)
  BY <1>4, <1>6 DEF Has
<1> QED
  BY <1>3, <1>7, <1>8 DEF Pledged, f

\* The next event of the buffer is consumed.
LEMMA RecoversTail ==
  ASSUME NEW p \in Seq(Events), p # <<>>, NEW q, NEW state, Recovers(state, p, q)
  PROVE  /\ \A i \in 1 .. Len(Tail(p)) : Tail(p)[i] = Dropped =>
              (\E j \in i + 1 .. Len(Tail(p)) : Tail(p)[j] = Report) \/ Pledged(q)
         /\ Head(p) = Dropped => Has(Tail(p), Report) \/ Pledged(q)
         /\ state = "DESYNC" /\ Head(p) # Report => Has(Tail(p), Report) \/ Pledged(q)
<1> DEFINE t == Tail(p)
<1>1. Len(p) \in Nat /\ 1 \in 1 .. Len(p) /\ Head(p) = p[1]
  BY EmptySeq
<1>2. Len(t) = Len(p) - 1 /\ \A i \in 1 .. Len(t) : t[i] = p[i + 1]
  BY HeadTailProperties
<1> HIDE DEF t
<1>3. ASSUME NEW j \in 2 .. Len(p) PROVE j - 1 \in 1 .. Len(t) /\ t[j - 1] = p[j]
  <2>1. j - 1 \in 1 .. Len(t) /\ (j - 1) + 1 = j
    BY <1>1, <1>2
  <2> QED BY <1>2, <2>1
<1>4. ASSUME NEW i \in 1 .. Len(t), t[i] = Dropped
      PROVE  (\E j \in i + 1 .. Len(t) : t[j] = Report) \/ Pledged(q)
  <2>1. i + 1 \in 1 .. Len(p) /\ p[i + 1] = Dropped
    BY <1>1, <1>2, <1>4
  <2>2. CASE \E j \in (i + 1) + 1 .. Len(p) : p[j] = Report
    <3>1. PICK j \in (i + 1) + 1 .. Len(p) : p[j] = Report
      BY <2>2
    <3>2. j \in 2 .. Len(p) /\ j - 1 \in i + 1 .. Len(t)
      BY <1>1, <1>2, <3>1
    <3> QED BY <1>3, <3>1, <3>2
  <2> QED BY <2>1, <2>2 DEF Recovers
<1>5. ASSUME Head(p) = Dropped PROVE Has(t, Report) \/ Pledged(q)
  <2>1. CASE \E j \in 1 + 1 .. Len(p) : p[j] = Report
    BY <1>3, <2>1 DEF Has
  <2> QED BY <1>1, <1>5, <2>1 DEF Recovers
<1>6. ASSUME state = "DESYNC", Head(p) # Report PROVE Has(t, Report) \/ Pledged(q)
  <2>1. CASE Has(p, Report)
    <3>1. PICK j \in 1 .. Len(p) : p[j] = Report
      BY <2>1 DEF Has
    <3>2. j \in 2 .. Len(p)
      BY <1>1, <1>6, <3>1
    <3> QED BY <1>3, <3>1, <3>2 DEF Has
  <2> QED BY <1>6, <2>1 DEF Recovers
<1> QED
  BY <1>4, <1>5, <1>6 DEF t

\* An event of a device keeps the promise of a SYN_REPORT.
LEMMA DesyncDelivered ==
  ASSUME TypeOK, SlotsInv, DesyncInv, NEW d \in Devices, NEW e \in Events, Delivered(d, e)
  PROVE  DesyncInv'
<1>1. UNCHANGED <<pc, cur, source, partial>>
  BY DEF Delivered, input_vars
<1>2. SUFFICES ASSUME NEW s \in Slots
      PROVE  /\ Recovers(source[s].state, partial[s], queue'[s])
             /\ source[s].state = "DESYNC" /\ ~(pc = "pump" /\ cur = s) => Relapsed(queue'[s])
  BY <1>1 DEF DesyncInv
<1>3. queue[s] \in Seq(Events) /\ Len(queue[s]) <= QueueCap
  BY DEF TypeOK
<1>4. queue'[s] = queue[s] \/ queue'[s] = Enqueued(queue[s], e)
  BY DeliveredTypes DEF Delivered
<1>5. /\ Relapsed(queue[s]) => Relapsed(queue'[s])
      /\ Pledged(queue[s]) => Pledged(queue'[s])
  BY <1>3, <1>4, PledgeKept
<1> QED
  BY <1>5 DEF DesyncInv, Recovers

\* Steps that leave the events and the sources alone and do not leave a pump.
LEMMA DesyncQuiet ==
  ASSUME DesyncInv, UNCHANGED <<source, partial, queue>>,
         \A s \in Slots : pc = "pump" /\ cur = s => pc' = "pump" /\ cur' = s
  PROVE  DesyncInv'
BY DEF DesyncInv

\* Every action keeps it: a pump ends only when nothing can be read, and then
\* no SYN_REPORT is left in the queue.
LEMMA DesyncStep ==
  ASSUME TypeOK, SlotsInv, DesyncInv, [Next]_vars PROVE DesyncInv'
<1>1. ASSUME NEW d \in Devices, NEW v \in Positions, DeviceAbs(d, v)
      PROVE  DesyncInv'
  <2>1. Delivered(d, [type |-> "ABS", value |-> v])
    BY <1>1 DEF Delivered, DeviceAbs
  <2> QED BY <2>1, EventTypes, DesyncDelivered
<1>2. ASSUME NEW d \in Devices, NEW k \in Keys, DeviceKey(d, k)
      PROVE  DesyncInv'
  <2> DEFINE e == [type |-> "KEY", key |-> k, value |-> IF k \in down[d] THEN 0 ELSE 1]
  <2>1. Delivered(d, e)
    BY <1>2 DEF Delivered, DeviceKey
  <2>2. e \in Events
    BY DEF Events
  <2> HIDE DEF e
  <2> QED BY <2>1, <2>2, DesyncDelivered
<1>3. ASSUME NEW d \in Devices, NEW k \in Keys, DeviceRepeat(d, k)
      PROVE  DesyncInv'
  <2> DEFINE e == [type |-> "KEY", key |-> k, value |-> 2]
  <2>1. Delivered(d, e)
    BY <1>3 DEF Delivered, DeviceRepeat
  <2>2. e \in Events
    BY DEF Events
  <2> HIDE DEF e
  <2> QED BY <2>1, <2>2, DesyncDelivered
<1>4. ASSUME NEW d \in Devices, DeviceReport(d)
      PROVE  DesyncInv'
  <2>1. Delivered(d, Report)
    BY <1>4 DEF Delivered, DeviceReport, bound_vars
  <2> QED BY <2>1, EventTypes, DesyncDelivered
<1>5. ASSUME NEW d \in Devices, DeviceRemoved(d)
      PROVE  DesyncInv'
  BY <1>5, DesyncQuiet DEF DeviceRemoved, input_vars
<1>6. ASSUME NEW d \in Devices, DevicePlugged(d)
      PROVE  DesyncInv'
  BY <1>6, DesyncQuiet DEF DevicePlugged, input_vars
<1>7. ASSUME NEW before, NEW c \in SUBSET Devices, discover_pass(before, c),
             \A s \in Slots : before[s] = source[s] \/ before[s] = reset_source,
             UNCHANGED partial, pc # "pump"
      PROVE  DesyncInv'
  <2>1. PICK C, node : Discovered(before, C, node)
    BY <1>7, Discovery
  <2>2. SUFFICES ASSUME NEW s \in Slots
        PROVE  Recovers(source'[s].state, partial[s], queue'[s])
               /\ (source'[s].state = "DESYNC" => Relapsed(queue'[s]))
    BY <1>7 DEF DesyncInv
  <2>3. partial[s] = <<>>
    BY <1>7 DEF SlotsInv
  <2>4. CASE s \in C
    <3>1. source'[s] = connected(node[s]) /\ node[s] \in Devices
      BY <2>1, <2>4 DEF Discovered
    <3>2. source'[s].state = "CONNECTED"
      BY <3>1, Connected DEF TypeOK
    <3> QED BY <2>3, <3>2 DEF Recovers
  <2>5. CASE s \notin C
    <3>1. source'[s] = before[s] /\ queue'[s] = queue[s]
      BY <2>1, <2>5 DEF Discovered
    <3>2. CASE before[s] = source[s]
      BY <1>7, <3>1, <3>2 DEF DesyncInv
    <3>3. CASE before[s] = reset_source
      <4>1. source'[s].state = "ABSENT"
        BY <3>1, <3>3 DEF reset_source
      <4> QED BY <2>3, <4>1 DEF Recovers
    <3> QED BY <1>7, <3>2, <3>3
  <2> QED BY <2>4, <2>5
<1>8. CASE cart_input_init
  <2> DEFINE before == [s \in Slots |-> reset_source]
  <2>1. PICK c \in SUBSET Devices : discover_pass(before, c)
    BY <1>8 DEF cart_input_init, Found, TypeOK
  <2>2. \A s \in Slots : before[s] = source[s] \/ before[s] = reset_source
    OBVIOUS
  <2>3. UNCHANGED partial /\ pc # "pump"
    BY <1>8 DEF cart_input_init
  <2> HIDE DEF before
  <2> QED BY <1>7, <2>1, <2>2, <2>3
<1>9. CASE cart_input_rescan
  <2>1. PICK c \in SUBSET Devices : discover_pass(source, c)
    BY <1>9 DEF cart_input_rescan, Found, TypeOK
  <2>2. \A s \in Slots : source[s] = source[s] \/ source[s] = reset_source
    OBVIOUS
  <2>3. UNCHANGED partial /\ pc # "pump"
    BY <1>9 DEF cart_input_rescan
  <2> QED BY <1>7, <2>1, <2>2, <2>3
<1>10. CASE cart_input_shutdown
  <2>1. \A s \in Slots : source'[s].state = "ABSENT" /\ partial'[s] = <<>>
    BY <1>10 DEF cart_input_shutdown, reset_source
  <2> QED BY <2>1 DEF DesyncInv, Recovers
<1>11. CASE PollBegin
  BY <1>11, DesyncQuiet DEF PollBegin
<1>12. CASE PollSkip
  BY <1>12, DesyncQuiet DEF PollSkip, input_vars
<1>13. CASE PollEnter
  BY <1>13, DesyncQuiet DEF PollEnter, input_vars
<1>14. CASE PumpConsume
  <2> DEFINE e == Head(partial[cur])
             p == partial[cur]
             q == queue[cur]
             st == source[cur].state
  <2>1. PICK src \in cart_input_source :
              /\ source' = [source EXCEPT ![cur] = src]
              /\ \/ Disconnects(e, src) \/ Resyncs(e, src) \/ TakesKey(e, src)
                 \/ Moves(e, src) \/ Ignores(e, src)
    BY <1>14, Consumed
  <2>2. /\ cur \in Slots /\ p # <<>> /\ p \in Seq(Events) /\ e \in Events
        /\ partial' = [partial EXCEPT ![cur] = Tail(p)]
    BY <1>14, Consumed
  <2>3. UNCHANGED <<pc, cur>> /\ pc = "pump"
    BY <1>14 DEF PumpConsume
  <2>4. /\ source \in [Slots -> cart_input_source] /\ partial \in [Slots -> Seq(Events)]
        /\ queue \in [Slots -> Seq(Events)] /\ Len(q) <= QueueCap
    BY <2>2 DEF TypeOK
  <2>5. queue' = queue \/ queue' = [queue EXCEPT ![cur] = flushed(q)]
    BY <2>1 DEF Disconnects, Resyncs, TakesKey, Moves, Ignores
  <2>6. Recovers(st, p, q)
    BY <2>2 DEF DesyncInv
  <2>7. Pledged(q) => Pledged(queue'[cur])
    <3>1. queue'[cur] = q \/ queue'[cur] = flushed(q)
      BY <2>2, <2>4, <2>5
    <3>2. q \in Seq(Events)
      BY <2>2, <2>4
    <3> QED BY <2>4, <3>1, <3>2, PledgeKept
  <2>8. /\ \A i \in 1 .. Len(Tail(p)) : Tail(p)[i] = Dropped =>
             (\E j \in i + 1 .. Len(Tail(p)) : Tail(p)[j] = Report) \/ Pledged(q)
        /\ e = Dropped => Has(Tail(p), Report) \/ Pledged(q)
        /\ st = "DESYNC" /\ e # Report => Has(Tail(p), Report) \/ Pledged(q)
    BY <2>2, <2>6, RecoversTail
  <2>9. src.state = "DESYNC" => e = Dropped \/ (st = "DESYNC" /\ e # Report)
    BY <2>1, <2>2, EventTypes DEF Disconnects, Resyncs, TakesKey, Moves, Ignores
  <2> HIDE DEF e
  <2>10. Recovers(src.state, Tail(p), queue'[cur])
    BY <2>7, <2>8, <2>9 DEF Recovers
  <2>11. ASSUME NEW s \in Slots
         PROVE  /\ Recovers(source'[s].state, partial'[s], queue'[s])
                /\ source'[s].state = "DESYNC" /\ ~(pc' = "pump" /\ cur' = s)
                     => Relapsed(queue'[s])
    <3>1. CASE s = cur
      BY <2>1, <2>2, <2>3, <2>4, <2>10, <3>1
    <3>2. CASE s # cur
      <4>1. source'[s] = source[s] /\ partial'[s] = partial[s] /\ queue'[s] = queue[s]
        BY <2>1, <2>2, <2>4, <2>5, <3>2
      <4> QED BY <2>3, <4>1 DEF DesyncInv
    <3> QED BY <3>1, <3>2
  <2> QED BY <2>11 DEF DesyncInv
<1>15. CASE PumpRead
  <2> DEFINE q == queue[cur]
             n == Min({BufCap, readable(q)})
             r == readable(q)
             a == SubSeq(q, 1, n)
             b == SubSeq(q, n + 1, Len(q))
  <2>1. cur \in Slots /\ pc = "pump" /\ UNCHANGED <<pc, cur, source>>
    BY <1>15 DEF PumpRead, SlotsInv
  <2>2. q \in Seq(Events) /\ Len(q) \in Nat
    BY <2>1, LenProperties DEF TypeOK
  <2>3. n > 0 /\ partial' = [partial EXCEPT ![cur] = a] /\ queue' = [queue EXCEPT ![cur] = b]
    BY <1>15 DEF PumpRead
  <2> HIDE DEF n
  <2>4. /\ n \in 1 .. Len(q) /\ n <= r /\ r \in 1 .. Len(q) /\ q[r] = Report
        /\ Len(a) = n /\ \A i \in 1 .. n : a[i] = q[i]
        /\ Len(b) = Len(q) - n /\ \A i \in 1 .. Len(q) - n : b[i] = q[n + i]
    <3> HIDE DEF q
    <3> QED BY <2>2, <2>3, ReadSplits DEF n
  <2> HIDE DEF a, b, r, q
  <2>5. Has(b, Report) \/ (r = n /\ a[n] = Report /\ Has(a, Report))
    <3>1. CASE r = n
      BY <2>2, <2>4, <3>1 DEF Has
    <3>2. CASE r # n
      <4>1. r - n \in 1 .. Len(b) /\ n + (r - n) = r
        BY <2>2, <2>4, <3>2
      <4>2. b[r - n] = q[n + (r - n)]
        BY <2>4, <4>1
      <4> QED BY <2>4, <4>1, <4>2 DEF Has
    <3> QED BY <3>1, <3>2
  <2>6. Recovers(source[cur].state, a, b)
    <3>1. ASSUME NEW i \in 1 .. Len(a), a[i] = Dropped
          PROVE  (\E j \in i + 1 .. Len(a) : a[j] = Report) \/ Pledged(b)
      <4>1. CASE Has(b, Report)
        BY <4>1 DEF Pledged
      <4>2. CASE a[n] = Report
        <5>1. i # n
          BY <3>1, <4>2, EventTypes
        <5>2. n \in i + 1 .. Len(a)
          BY <2>2, <2>4, <5>1
        <5> QED BY <4>2, <5>2
      <4> QED BY <2>5, <4>1, <4>2
    <3> QED BY <2>5, <3>1 DEF Recovers, Pledged
  <2>7. ASSUME NEW s \in Slots
        PROVE  /\ Recovers(source'[s].state, partial'[s], queue'[s])
               /\ source'[s].state = "DESYNC" /\ ~(pc' = "pump" /\ cur' = s)
                    => Relapsed(queue'[s])
    <3>1. CASE s = cur
      BY <2>1, <2>3, <2>6, <3>1 DEF TypeOK
    <3>2. CASE s # cur
      <4>1. source'[s] = source[s] /\ partial'[s] = partial[s] /\ queue'[s] = queue[s]
        BY <2>1, <2>3, <3>2 DEF TypeOK
      <4> QED BY <2>1, <4>1 DEF DesyncInv
    <3> QED BY <3>1, <3>2
  <2> QED BY <2>7 DEF DesyncInv
<1>16. CASE PumpAgain
  <2>1. /\ cur \in Slots /\ pc = "pump" /\ partial[cur] = <<>> /\ readable(queue[cur]) = 0
        /\ UNCHANGED <<source, partial, queue>>
    BY <1>16 DEF PumpAgain, SlotsInv, input_vars
  <2>2. queue[cur] \in Seq(Events)
    BY <2>1 DEF TypeOK
  <2>3. ~Has(queue[cur], Report)
    <3>1. \A i \in 1 .. Len(queue[cur]) : queue[cur][i] = Report => i <= 0
      BY <2>1, <2>2, Readable
    <3> QED BY <3>1 DEF Has
  <2>4. ~Has(partial[cur], Report)
    BY <2>1, EmptySeq DEF Has
  <2>5. source[cur].state = "DESYNC" => Relapsed(queue[cur])
    BY <2>1, <2>3, <2>4 DEF DesyncInv, Recovers, Pledged
  <2> QED BY <2>1, <2>5 DEF DesyncInv
<1>17. CASE PumpHangup
  <2>1. cur \in Slots /\ partial[cur] = <<>> /\ pc = "pump"
    BY <1>17 DEF PumpHangup, SlotsInv
  <2>2. handle_disconnect(source[cur]).state = "ABSENT"
    BY <2>1, SourceTypes DEF TypeOK
  <2>3. source'[cur].state = "ABSENT" /\ partial'[cur] = <<>>
    BY <1>17, <2>1, <2>2 DEF PumpHangup, TypeOK
  <2>4. ASSUME NEW s \in Slots
        PROVE  /\ Recovers(source'[s].state, partial'[s], queue'[s])
               /\ source'[s].state = "DESYNC" => Relapsed(queue'[s])
    <3>1. CASE s = cur
      BY <2>3, <3>1 DEF Recovers
    <3>2. CASE s # cur
      <4>1. source'[s] = source[s] /\ partial'[s] = partial[s] /\ queue'[s] = queue[s]
        BY <1>17, <2>1, <3>2 DEF PumpHangup, TypeOK
      <4> QED BY <2>1, <3>2, <4>1 DEF DesyncInv
    <3> QED BY <3>1, <3>2
  <2> QED BY <2>4 DEF DesyncInv
<1>18. CASE PollEnd
  BY <1>18, DesyncQuiet DEF PollEnd
<1>19. CASE UNCHANGED vars
  BY <1>19, DesyncQuiet DEF vars, input_vars
<1> QED
  BY <1>1, <1>2, <1>3, <1>4, <1>5, <1>6, <1>8, <1>9, <1>10, <1>11, <1>12, <1>13, <1>14, <1>15,
     <1>16, <1>17, <1>18, <1>19 DEF Next, Poll, Closed

----------------------------------------------------------------------------
(* The events under way and what the program knows of the keys and the axis *)

\* An event that is added to the queue is added to the stream.
LEMMA StreamAppend ==
  ASSUME NEW p \in Seq(Events), NEW q \in Seq(Events), NEW e \in Events
  PROVE  p \o Append(q, e) = Append(p \o q, e)
<1> DEFINE t == p \o q
           u == Append(q, e)
           a == p \o u
           b == Append(t, e)
<1>1. Len(p) \in Nat /\ Len(q) \in Nat
  BY LenProperties
<1>2. t \in Seq(Events) /\ Len(t) = Len(p) + Len(q)
      /\ \A i \in 1 .. Len(p) + Len(q) : t[i] = IF i <= Len(p) THEN p[i] ELSE q[i - Len(p)]
  BY ConcatProperties
<1>3. u \in Seq(Events) /\ Len(u) = Len(q) + 1
      /\ (\A i \in 1 .. Len(q) : u[i] = q[i])
      /\ u[Len(q) + 1] = e
  BY AppendProperties
<1>4. a \in Seq(Events) /\ Len(a) = Len(p) + Len(u)
      /\ \A i \in 1 .. Len(p) + Len(u) : a[i] = IF i <= Len(p) THEN p[i] ELSE u[i - Len(p)]
  <2> HIDE DEF u
  <2> QED BY <1>3, ConcatProperties
<1>5. b \in Seq(Events) /\ Len(b) = Len(t) + 1
      /\ (\A i \in 1 .. Len(t) : b[i] = t[i])
      /\ b[Len(t) + 1] = e
  <2> HIDE DEF t
  <2> QED BY <1>2, AppendProperties DEF t
<1> HIDE DEF a, b, t, u
<1>6. Len(a) = Len(b)
  BY <1>1, <1>2, <1>3, <1>4, <1>5
<1>7. ASSUME NEW i \in 1 .. Len(a) PROVE a[i] = b[i]
  <2>1. CASE i <= Len(p)
    <3>1. i \in 1 .. Len(p) + Len(u) /\ i \in 1 .. Len(p) + Len(q) /\ i \in 1 .. Len(t)
      BY <1>1, <1>2, <1>3, <1>4, <2>1
    <3>2. a[i] = p[i]
      BY <1>4, <2>1, <3>1
    <3>3. b[i] = p[i]
      BY <1>2, <1>5, <2>1, <3>1
    <3> QED BY <3>2, <3>3
  <2>2. CASE i > Len(p) /\ i <= Len(p) + Len(q)
    <3>1. i - Len(p) \in 1 .. Len(q) /\ i \in 1 .. Len(p) + Len(u) /\ i \in 1 .. Len(t) /\ ~(i <= Len(p))
      BY <1>1, <1>2, <1>3, <1>4, <2>2
    <3>2. a[i] = u[i - Len(p)]
      BY <1>4, <3>1
    <3>3. b[i] = q[i - Len(p)]
      BY <1>2, <1>5, <3>1
    <3> QED BY <1>3, <3>1, <3>2, <3>3
  <2>3. CASE i = Len(p) + Len(q) + 1
    <3>1. i - Len(p) = Len(q) + 1 /\ i \in 1 .. Len(p) + Len(u) /\ ~(i <= Len(p)) /\ i = Len(t) + 1
      BY <1>1, <1>2, <1>3, <1>4, <2>3
    <3>2. a[i] = u[i - Len(p)]
      BY <1>4, <3>1
    <3>3. a[i] = u[Len(q) + 1]
      BY <3>1, <3>2
    <3>4. b[i] = e
      BY <1>5, <3>1
    <3> QED BY <1>3, <3>3, <3>4
  <2>4. i <= Len(p) \/ (i > Len(p) /\ i <= Len(p) + Len(q)) \/ i = Len(p) + Len(q) + 1
    <3>1. Len(a) = Len(p) + Len(q) + 1
      BY <1>1, <1>3, <1>4
    <3>2. i \in Nat /\ i <= Len(p) + Len(q) + 1
      BY <1>1, <3>1
    <3> QED BY <1>1, <3>2
  <2> QED BY <2>1, <2>2, <2>3, <2>4
<1>8. a = b
  BY <1>4, <1>5, <1>6, <1>7, SeqEqual
<1> QED
  BY <1>8 DEF a, b, t, u

\* An event that is taken from the buffer is taken from the stream.
LEMMA StreamTail ==
  ASSUME NEW p \in Seq(Events), p # <<>>, NEW q \in Seq(Events)
  PROVE  /\ p \o q # <<>> /\ (p \o q)[1] = Head(p)
         /\ Tail(p) \o q = Tail(p \o q)
<1> DEFINE a == Tail(p) \o q
           t == p \o q
           b == Tail(p \o q)
           u == Tail(p)
<1>1. Len(p) \in Nat \ {0} /\ Len(q) \in Nat /\ Head(p) = p[1]
  BY LenProperties, EmptySeq
<1>2. t \in Seq(Events) /\ Len(t) = Len(p) + Len(q)
      /\ \A i \in 1 .. Len(p) + Len(q) : t[i] = IF i <= Len(p) THEN p[i] ELSE q[i - Len(p)]
  BY ConcatProperties
<1>3. u \in Seq(Events) /\ Len(u) = Len(p) - 1 /\ \A i \in 1 .. Len(u) : u[i] = p[i + 1]
  BY HeadTailProperties
<1>4. a \in Seq(Events) /\ Len(a) = Len(u) + Len(q)
      /\ \A i \in 1 .. Len(u) + Len(q) : a[i] = IF i <= Len(u) THEN u[i] ELSE q[i - Len(u)]
  <2> HIDE DEF u
  <2> QED BY <1>3, ConcatProperties
<1>5. t # <<>> /\ t[1] = Head(p)
  <2> HIDE DEF t
  <2>1. 1 \in 1 .. Len(p) + Len(q) /\ 1 <= Len(p) /\ Len(t) # 0
    BY <1>1, <1>2
  <2>2. t[1] = p[1]
    BY <1>2, <2>1
  <2>3. t # <<>>
    BY <2>1, EmptySeq
  <2> QED BY <1>1, <2>2, <2>3
<1>6. b \in Seq(Events) /\ Len(b) = Len(t) - 1 /\ \A i \in 1 .. Len(b) : b[i] = t[i + 1]
  <2> HIDE DEF t
  <2> QED BY <1>2, <1>5, HeadTailProperties DEF t
<1> HIDE DEF a, b, t, u
<1>7. Len(a) = Len(b)
  BY <1>1, <1>2, <1>3, <1>4, <1>6
<1>8. ASSUME NEW i \in 1 .. Len(a) PROVE a[i] = b[i]
  <2>1. CASE i <= Len(u)
    <3>1. i \in 1 .. Len(u) + Len(q) /\ i \in 1 .. Len(u) /\ i \in 1 .. Len(b)
          /\ i + 1 <= Len(p) /\ i + 1 \in 1 .. Len(p) + Len(q)
      BY <1>1, <1>2, <1>3, <1>4, <1>6, <2>1
    <3>2. a[i] = p[i + 1]
      BY <1>3, <1>4, <3>1
    <3>3. b[i] = p[i + 1]
      BY <1>2, <1>6, <3>1
    <3> QED BY <3>2, <3>3
  <2>2. CASE i > Len(u)
    <3>1. i \in 1 .. Len(u) + Len(q) /\ ~(i <= Len(u)) /\ i \in 1 .. Len(b)
          /\ ~(i + 1 <= Len(p)) /\ i + 1 \in 1 .. Len(p) + Len(q) /\ (i + 1) - Len(p) = i - Len(u)
      BY <1>1, <1>2, <1>3, <1>4, <1>6, <2>2
    <3>2. a[i] = q[i - Len(u)]
      BY <1>4, <3>1
    <3>3. b[i] = t[i + 1]
      BY <1>6, <3>1
    <3>4. t[i + 1] = q[(i + 1) - Len(p)]
      BY <1>2, <3>1
    <3> QED BY <3>1, <3>2, <3>3, <3>4
  <2> QED BY <1>1, <1>3, <2>1, <2>2
<1>9. a = b
  BY <1>4, <1>6, <1>7, <1>8, SeqEqual
<1> QED
  BY <1>5, <1>9 DEF a, b, t

\* An event is added to the stream.
LEMMA MatchAppend ==
  ASSUME NEW t \in Seq(Events), NEW e \in Events, NEW u, u = Append(t, e)
  PROVE  /\ \A x : Has(t, x) => Has(u, x)
         /\ \A h, dn, dn2, unheard :
              /\ KeysMatch(t, h, dn, unheard)
              /\ \A k \in LowKeys : of_key(e, k) => (e.value # 0 <=> k \in dn2)
              /\ \A k \in LowKeys : ~of_key(e, k) => (k \in dn2 <=> k \in dn)
              => KeysMatch(u, h, dn2, unheard)
         /\ \A at, at2 :
              /\ AxisLast(t, at)
              /\ e.type = "ABS" => e.value = at2
              /\ e.type # "ABS" => at2 = at
              => AxisLast(u, at2)
         /\ \A raw, at, at2 :
              AxisMatch(t, raw, at) /\ (e.type # "ABS" => at2 = at) => AxisMatch(u, raw, at2)
<1> DEFINE n == Len(t)
<1>1. n \in Nat /\ Len(u) = n + 1 /\ (\A i \in 1 .. n : u[i] = t[i]) /\ u[n + 1] = e
      /\ n + 1 \in 1 .. Len(u) /\ \A i \in 1 .. n : i \in 1 .. Len(u)
  BY AppendProperties, LenProperties
<1> HIDE DEF n
<1>2. ASSUME NEW x, Has(t, x) PROVE Has(u, x)
  BY <1>1, <1>2 DEF Has, n
<1>3. ASSUME NEW h, NEW dn, NEW dn2, NEW unheard, KeysMatch(t, h, dn, unheard),
             \A k \in LowKeys : of_key(e, k) => (e.value # 0 <=> k \in dn2),
             \A k \in LowKeys : ~of_key(e, k) => (k \in dn2 <=> k \in dn)
      PROVE  KeysMatch(u, h, dn2, unheard)
  <2> SUFFICES ASSUME NEW k \in LowKeys
      PROVE /\ \A i \in 1 .. Len(u) :
                 of_key(u[i], k) /\ (\A j \in i + 1 .. Len(u) : ~of_key(u[j], k))
                   => (u[i].value # 0 <=> k \in dn2)
            /\ (\A i \in 1 .. Len(u) : ~of_key(u[i], k)) =>
                 (k \in h => k \in dn2) /\ (k \in dn2 => k \in h \/ k \in unheard)
    BY DEF KeysMatch
  <2>1. ASSUME NEW i \in 1 .. Len(u), of_key(u[i], k), \A j \in i + 1 .. Len(u) : ~of_key(u[j], k)
        PROVE  u[i].value # 0 <=> k \in dn2
    <3>1. CASE i = n + 1
      BY <1>1, <1>3, <2>1, <3>1
    <3>2. CASE i # n + 1
      <4>1. i \in 1 .. n /\ n + 1 \in i + 1 .. Len(u) /\ u[i] = t[i]
        BY <1>1, <3>2
      <4>2. ~of_key(e, k)
        BY <1>1, <2>1, <4>1
      <4>3. \A j \in i + 1 .. n : ~of_key(t[j], k)
        <5> TAKE j \in i + 1 .. n
        <5>1. j \in i + 1 .. Len(u) /\ j \in 1 .. n
          BY <1>1, <4>1
        <5> QED BY <1>1, <2>1, <5>1
      <4>4. t[i].value # 0 <=> k \in dn
        BY <1>3, <2>1, <4>1, <4>3 DEF KeysMatch, n
      <4> QED BY <1>3, <4>1, <4>2, <4>4
    <3> QED BY <3>1, <3>2
  <2>2. ASSUME \A i \in 1 .. Len(u) : ~of_key(u[i], k)
        PROVE  (k \in h => k \in dn2) /\ (k \in dn2 => k \in h \/ k \in unheard)
    <3>1. ~of_key(e, k)
      BY <1>1, <2>2
    <3>2. \A i \in 1 .. n : ~of_key(t[i], k)
      BY <1>1, <2>2
    <3> QED BY <1>3, <3>1, <3>2 DEF KeysMatch, n
  <2> QED BY <2>1, <2>2
<1>4. ASSUME NEW at, NEW at2, AxisLast(t, at), e.type = "ABS" => e.value = at2,
             e.type # "ABS" => at2 = at
      PROVE  AxisLast(u, at2)
  <2> SUFFICES ASSUME NEW i \in 1 .. Len(u), u[i].type = "ABS",
                      \A j \in i + 1 .. Len(u) : u[j].type \notin {"ABS", "DROPPED"}
      PROVE u[i].value = at2
    BY DEF AxisLast
  <2>1. CASE i = n + 1
    BY <1>1, <1>4, <2>1
  <2>2. CASE i # n + 1
    <3>1. i \in 1 .. n /\ n + 1 \in i + 1 .. Len(u) /\ u[i] = t[i]
      BY <1>1, <2>2
    <3>2. e.type # "ABS"
      BY <1>1, <3>1
    <3>3. \A j \in i + 1 .. n : t[j].type \notin {"ABS", "DROPPED"}
      <4> TAKE j \in i + 1 .. n
      <4>1. j \in i + 1 .. Len(u) /\ j \in 1 .. n
        BY <1>1, <3>1
      <4> QED BY <1>1, <4>1
    <3> QED BY <1>4, <3>1, <3>2, <3>3 DEF AxisLast, n
  <2> QED BY <2>1, <2>2
<1>5. ASSUME NEW raw, NEW at, NEW at2, AxisMatch(t, raw, at), e.type # "ABS" => at2 = at
      PROVE  AxisMatch(u, raw, at2)
  <2> SUFFICES ASSUME \A i \in 1 .. Len(u) : u[i].type \notin {"ABS", "DROPPED"}
      PROVE raw = at2
    BY DEF AxisMatch
  <2>1. e.type # "ABS"
    BY <1>1
  <2>2. \A i \in 1 .. n : t[i].type \notin {"ABS", "DROPPED"}
    BY <1>1
  <2> QED BY <1>5, <2>1, <2>2 DEF AxisMatch, n
<1> QED
  BY <1>2, <1>3, <1>4, <1>5

\* A read moves events from the queue to the buffer and changes no stream.
LEMMA ReadKeepsStreams ==
  ASSUME TypeOK, SlotsInv, PumpRead, NEW s \in Slots
  PROVE  partial'[s] \o queue'[s] = partial[s] \o queue[s]
<1> DEFINE q == queue[cur]
           n == Min({BufCap, readable(q)})
           a == SubSeq(q, 1, n)
           b == SubSeq(q, n + 1, Len(q))
<1>1. cur \in Slots /\ partial[cur] = <<>>
  BY DEF PumpRead, SlotsInv
<1>2. q \in Seq(Events) /\ queue \in [Slots -> Seq(Events)] /\ partial \in [Slots -> Seq(Events)]
  BY <1>1 DEF TypeOK
<1>3. n > 0 /\ partial' = [partial EXCEPT ![cur] = a] /\ queue' = [queue EXCEPT ![cur] = b]
  BY DEF PumpRead
<1>4. a \o b = q
  <2> HIDE DEF n
  <2> QED BY <1>2, <1>3, ReadSplits DEF n
<1> HIDE DEF a, b, n
<1>5. CASE s = cur
  <2>1. partial[s] \o queue[s] = q
    BY <1>1, <1>2, <1>5, ConcatEmptySeq
  <2>2. partial'[s] \o queue'[s] = a \o b
    BY <1>1, <1>2, <1>3, <1>5
  <2> QED BY <1>4, <2>1, <2>2
<1>6. CASE s # cur
  BY <1>2, <1>3, <1>6
<1> QED
  BY <1>5, <1>6

\* The oldest event is taken from the stream: the others move up by one.
LEMMA TailShift ==
  ASSUME NEW t \in Seq(Events), t # <<>>, NEW u, u = Tail(t)
  PROVE  /\ Len(t) \in Nat /\ 1 \in 1 .. Len(t)
         /\ \A i \in 1 .. Len(u) : i + 1 \in 1 .. Len(t) /\ u[i] = t[i + 1]
         /\ \A i \in 1 .. Len(t) : i # 1 => i - 1 \in 1 .. Len(u) /\ u[i - 1] = t[i]
         /\ \A i \in 1 .. Len(u) : \A j \in i + 1 + 1 .. Len(t) :
              j - 1 \in i + 1 .. Len(u) /\ u[j - 1] = t[j]
         /\ \A j \in 1 + 1 .. Len(t) : j - 1 \in 1 .. Len(u) /\ u[j - 1] = t[j]
<1> DEFINE n == Len(t)
<1>1. n \in Nat /\ 1 \in 1 .. n
  BY LenProperties, EmptySeq
<1>2. Len(u) = n - 1 /\ \A i \in 1 .. Len(u) : u[i] = t[i + 1]
  BY HeadTailProperties
<1> HIDE DEF n
<1>3. ASSUME NEW i \in 1 .. n, i # 1 PROVE i - 1 \in 1 .. Len(u) /\ u[i - 1] = t[i]
  <2>1. i - 1 \in 1 .. Len(u) /\ (i - 1) + 1 = i
    BY <1>1, <1>2, <1>3
  <2>2. u[i - 1] = t[(i - 1) + 1]
    BY <1>2, <2>1
  <2> QED BY <2>1, <2>2
<1>4. ASSUME NEW i \in 1 .. Len(u)
      PROVE  i + 1 \in 1 .. n /\ i + 1 # 1 /\ u[i] = t[i + 1]
  BY <1>1, <1>2
<1>5. ASSUME NEW i \in 1 .. Len(u), NEW j \in i + 1 + 1 .. n
      PROVE  j - 1 \in i + 1 .. Len(u) /\ u[j - 1] = t[j]
  <2>1. j \in 1 .. n /\ j # 1 /\ j - 1 \in i + 1 .. Len(u)
    BY <1>1, <1>2
  <2> QED BY <1>3, <2>1
<1>6. ASSUME NEW j \in 1 + 1 .. n PROVE j - 1 \in 1 .. Len(u) /\ u[j - 1] = t[j]
  <2>1. j \in 1 .. n /\ j # 1
    BY <1>1
  <2> QED BY <1>3, <2>1
<1> QED
  BY <1>1, <1>3, <1>4, <1>5, <1>6 DEF n

\* The SYN_DROPPED of a stream without its first event.
LEMMA TailHas ==
  ASSUME NEW t \in Seq(Events), t # <<>>, NEW u, u = Tail(t)
  PROVE  /\ t[1] # Dropped /\ ~Has(u, Dropped) => ~Has(t, Dropped)
         /\ Has(u, Dropped) => Has(t, Dropped)
<1>1. /\ \A i \in 1 .. Len(t) : i # 1 => i - 1 \in 1 .. Len(u) /\ u[i - 1] = t[i]
      /\ \A i \in 1 .. Len(u) : i + 1 \in 1 .. Len(t) /\ u[i] = t[i + 1]
  BY TailShift
<1> QED
  BY <1>1 DEF Has

\* The keys after the first event of the stream was applied.
LEMMA TailKeys ==
  ASSUME NEW t \in Seq(Events), t # <<>>,
         NEW h, NEW h2, NEW dn, NEW unheard, NEW unheard2, KeysMatch(t, h, dn, unheard),
         \A k \in LowKeys : of_key(t[1], k) => (k \in h2 <=> t[1].value # 0),
         \A k \in LowKeys : ~of_key(t[1], k) =>
           (k \in h2 <=> k \in h) /\ (k \in unheard => k \in unheard2)
  PROVE  KeysMatch(Tail(t), h2, dn, unheard2)
<1> DEFINE n == Len(t)
           u == Tail(t)
           e == t[1]
<1>1. n \in Nat /\ 1 \in 1 .. n
  BY TailShift
<1>2. \A i \in 1 .. Len(u) : i + 1 \in 1 .. n /\ u[i] = t[i + 1]
  BY TailShift
<1>3. \A i \in 1 .. Len(u) : \A j \in i + 1 + 1 .. n : j - 1 \in i + 1 .. Len(u) /\ u[j - 1] = t[j]
  BY TailShift
<1>4. \A j \in 1 + 1 .. n : j - 1 \in 1 .. Len(u) /\ u[j - 1] = t[j]
  BY TailShift
<1> HIDE DEF n, u
<1> SUFFICES ASSUME NEW k \in LowKeys
    PROVE /\ \A i \in 1 .. Len(u) :
               of_key(u[i], k) /\ (\A j \in i + 1 .. Len(u) : ~of_key(u[j], k))
                 => (u[i].value # 0 <=> k \in dn)
          /\ (\A i \in 1 .. Len(u) : ~of_key(u[i], k)) =>
               (k \in h2 => k \in dn) /\ (k \in dn => k \in h2 \/ k \in unheard2)
  BY DEF KeysMatch, u
<1>5. ASSUME NEW i \in 1 .. Len(u), of_key(u[i], k), \A j \in i + 1 .. Len(u) : ~of_key(u[j], k)
      PROVE  u[i].value # 0 <=> k \in dn
  <2>1. \A j \in i + 1 + 1 .. n : ~of_key(t[j], k)
    <3> TAKE j \in i + 1 + 1 .. n
    <3>1. j - 1 \in i + 1 .. Len(u) /\ u[j - 1] = t[j]
      BY <1>3
    <3> QED BY <1>5, <3>1
  <2>2. i + 1 \in 1 .. n /\ u[i] = t[i + 1]
    BY <1>2
  <2>3. t[i + 1].value # 0 <=> k \in dn
    BY <1>5, <2>1, <2>2 DEF KeysMatch, n
  <2> QED BY <2>2, <2>3
<1>6. ASSUME \A i \in 1 .. Len(u) : ~of_key(u[i], k)
      PROVE  (k \in h2 => k \in dn) /\ (k \in dn => k \in h2 \/ k \in unheard2)
  <2>1. \A j \in 1 + 1 .. n : ~of_key(t[j], k)
    <3> TAKE j \in 1 + 1 .. n
    <3>1. j - 1 \in 1 .. Len(u) /\ u[j - 1] = t[j]
      BY <1>4
    <3> QED BY <1>6, <3>1
  <2>2. CASE of_key(e, k)
    <3>1. e.value # 0 <=> k \in dn
      BY <1>1, <2>1, <2>2 DEF KeysMatch, n
    <3> QED BY <2>2, <3>1
  <2>3. CASE ~of_key(e, k)
    <3>1. \A i \in 1 .. n : ~of_key(t[i], k)
      <4> TAKE i \in 1 .. n
      <4>1. i = 1 \/ i \in 1 + 1 .. n
        BY <1>1
      <4> QED BY <2>1, <2>3, <4>1
    <3>2. (k \in h => k \in dn) /\ (k \in dn => k \in h \/ k \in unheard)
      BY <3>1 DEF KeysMatch, n
    <3> QED BY <2>3, <3>2
  <2> QED BY <2>2, <2>3
<1> QED BY <1>5, <1>6

\* The axis after the first event of the stream was applied.
LEMMA TailAxis ==
  ASSUME NEW t \in Seq(Events), t # <<>>, NEW u, u = Tail(t), NEW e, e = t[1]
  PROVE  /\ \A at : AxisLast(t, at) => AxisLast(u, at)
         /\ \A raw, at :
              AxisMatch(t, raw, at) /\ e.type \notin {"ABS", "DROPPED"} => AxisMatch(u, raw, at)
         /\ \A at : AxisLast(t, at) /\ e.type = "ABS" => AxisMatch(u, e.value, at)
<1> DEFINE n == Len(t)
<1>1. n \in Nat /\ 1 \in 1 .. n
  BY TailShift
<1>2. \A i \in 1 .. Len(u) : i + 1 \in 1 .. n /\ u[i] = t[i + 1]
  BY TailShift
<1>3. \A i \in 1 .. Len(u) : \A j \in i + 1 + 1 .. n : j - 1 \in i + 1 .. Len(u) /\ u[j - 1] = t[j]
  BY TailShift
<1>4. \A j \in 1 + 1 .. n : j - 1 \in 1 .. Len(u) /\ u[j - 1] = t[j]
  BY TailShift
<1> HIDE DEF n
<1>5. ASSUME NEW at, AxisLast(t, at) PROVE AxisLast(u, at)
  <2> SUFFICES ASSUME NEW i \in 1 .. Len(u), u[i].type = "ABS",
                      \A j \in i + 1 .. Len(u) : u[j].type \notin {"ABS", "DROPPED"}
      PROVE u[i].value = at
    BY DEF AxisLast
  <2>1. \A j \in i + 1 + 1 .. n : t[j].type \notin {"ABS", "DROPPED"}
    <3> TAKE j \in i + 1 + 1 .. n
    <3>1. j - 1 \in i + 1 .. Len(u) /\ u[j - 1] = t[j]
      BY <1>3
    <3> QED BY <3>1
  <2>2. i + 1 \in 1 .. n /\ u[i] = t[i + 1]
    BY <1>2
  <2>3. t[i + 1].value = at
    BY <1>5, <2>1, <2>2 DEF AxisLast, n
  <2> QED BY <2>2, <2>3
<1>6. ASSUME \A i \in 1 .. Len(u) : u[i].type \notin {"ABS", "DROPPED"}
       PROVE  \A j \in 1 + 1 .. n : t[j].type \notin {"ABS", "DROPPED"}
  <2> TAKE j \in 1 + 1 .. n
  <2>1. j - 1 \in 1 .. Len(u) /\ u[j - 1] = t[j]
    BY <1>4
  <2> QED BY <1>6, <2>1
<1>7. ASSUME NEW raw, NEW at, AxisMatch(t, raw, at), e.type \notin {"ABS", "DROPPED"}
       PROVE  AxisMatch(u, raw, at)
  <2> SUFFICES ASSUME \A i \in 1 .. Len(u) : u[i].type \notin {"ABS", "DROPPED"}
      PROVE raw = at
    BY DEF AxisMatch
  <2>1. \A i \in 1 .. n : t[i].type \notin {"ABS", "DROPPED"}
    <3> TAKE i \in 1 .. n
    <3>1. i = 1 \/ i \in 1 + 1 .. n
      BY <1>1
    <3> QED BY <1>6, <1>7, <3>1
  <2> QED BY <1>7, <2>1 DEF AxisMatch, n
<1>8. ASSUME NEW at, AxisLast(t, at), e.type = "ABS" PROVE AxisMatch(u, e.value, at)
  <2> SUFFICES ASSUME \A i \in 1 .. Len(u) : u[i].type \notin {"ABS", "DROPPED"}
      PROVE e.value = at
    BY DEF AxisMatch
  <2> QED BY <1>1, <1>6, <1>8 DEF AxisLast, n
<1> QED
  BY <1>5, <1>7, <1>8

\* The queue overflows.
LEMMA MatchOverflow ==
  ASSUME NEW p \in Seq(Events), NEW e \in Events, NEW u, u = p \o <<Dropped, e>>
  PROVE  /\ Has(u, Dropped)
         /\ \A at : (e.type = "ABS" => e.value = at) => AxisLast(u, at)
         /\ \A raw, at : AxisMatch(u, raw, at)
<1> DEFINE m == Len(p)
<1>1. m \in Nat
  BY LenProperties
<1>2. <<Dropped, e>> \in Seq(Events) /\ Len(<<Dropped, e>>) = 2
  BY EventTypes
<1>3. Len(u) = m + 2 /\ u[m + 1] = Dropped /\ u[m + 2] = e
  <2> DEFINE z == <<Dropped, e>>
  <2>0. z[1] = Dropped /\ z[2] = e /\ Len(z) = 2 /\ z \in Seq(Events)
    BY <1>2
  <2> HIDE DEF z
  <2>1. Len(u) = Len(p) + Len(z)
        /\ \A i \in 1 .. Len(p) + Len(z) : u[i] = IF i <= Len(p) THEN p[i] ELSE z[i - Len(p)]
    BY <2>0, ConcatProperties DEF z
  <2>2. m + 1 \in 1 .. Len(p) + Len(z) /\ ~(m + 1 <= Len(p)) /\ (m + 1) - Len(p) = 1
    BY <1>1, <2>0
  <2>3. m + 2 \in 1 .. Len(p) + Len(z) /\ ~(m + 2 <= Len(p)) /\ (m + 2) - Len(p) = 2
    BY <1>1, <2>0
  <2>4. u[m + 1] = z[(m + 1) - Len(p)]
    BY <2>1, <2>2
  <2>5. u[m + 2] = z[(m + 2) - Len(p)]
    BY <2>1, <2>3
  <2> HIDE DEF m
  <2>6. u[m + 1] = z[1] /\ u[m + 2] = z[2]
    BY <2>2, <2>3, <2>4, <2>5
  <2>7. Len(u) = m + 2
    BY <2>0, <2>1 DEF m
  <2> QED BY <2>0, <2>6, <2>7
<1> HIDE DEF m
<1>4. Dropped.type = "DROPPED"
  BY DEF Dropped
<1>5. m + 1 \in 1 .. Len(u)
  BY <1>1, <1>3
<1>6. Has(u, Dropped)
  BY <1>3, <1>5 DEF Has
<1>7. ASSUME NEW at, e.type = "ABS" => e.value = at PROVE AxisLast(u, at)
  <2> SUFFICES ASSUME NEW i \in 1 .. Len(u), u[i].type = "ABS",
                      \A j \in i + 1 .. Len(u) : u[j].type \notin {"ABS", "DROPPED"}
      PROVE u[i].value = at
    BY DEF AxisLast
  <2>1. ~(m + 1 \in i + 1 .. Len(u)) /\ i # m + 1
    BY <1>3, <1>4
  <2>2. i = m + 2
    BY <1>1, <1>3, <2>1
  <2> QED BY <1>3, <1>7, <2>2
<1>8. ASSUME NEW raw, NEW at PROVE AxisMatch(u, raw, at)
  BY <1>3, <1>4, <1>5 DEF AxisMatch
<1> QED
  BY <1>6, <1>7, <1>8

\* EVIOCGKEY takes the key events out of the queue.
LEMMA MatchFlushed ==
  ASSUME NEW p \in Seq(Events), NEW q \in Seq(Events), NEW at, AxisLast(p \o q, at)
  PROVE  AxisLast(p \o flushed(q), at)
<1> DEFINE f == flushed(q)
           m == Len(p)
           t == p \o q
           u == p \o f
<1>1. PICK nth \in [1 .. Len(f) -> 1 .. Len(q)] :
        /\ \A i \in 1 .. Len(f) : f[i] = q[nth[i]]
        /\ \A i, j \in 1 .. Len(f) : i < j <=> nth[i] < nth[j]
        /\ \A k \in 1 .. Len(q) : q[k].type # "KEY" => \E i \in 1 .. Len(f) : nth[i] = k
  BY Flushed
<1>2. f \in Seq(Events) /\ Len(f) \in Nat /\ Len(q) \in Nat /\ m \in Nat
  BY Flushed, LenProperties
<1> HIDE DEF f
<1>3. Len(t) = m + Len(q) /\ \A i \in 1 .. m + Len(q) : t[i] = IF i <= m THEN p[i] ELSE q[i - m]
  BY ConcatProperties
<1>4. Len(u) = m + Len(f) /\ \A i \in 1 .. m + Len(f) : u[i] = IF i <= m THEN p[i] ELSE f[i - m]
  BY <1>2, ConcatProperties
<1>5. AxisLast(t, at)
  OBVIOUS
<1> HIDE DEF t, u, m
\* Places in t of the events of p and of q, and the same for u.
<1>6. ASSUME NEW i \in 1 .. m
      PROVE  i \in 1 .. Len(t) /\ i \in 1 .. Len(u) /\ t[i] = p[i] /\ u[i] = p[i]
  <2>1. i \in 1 .. m + Len(q) /\ i \in 1 .. m + Len(f) /\ i <= m
    BY <1>2
  <2> QED BY <1>3, <1>4, <2>1
<1>7. ASSUME NEW k \in 1 .. Len(q) PROVE m + k \in 1 .. Len(t) /\ t[m + k] = q[k]
  <2>1. m + k \in 1 .. m + Len(q) /\ ~(m + k <= m) /\ (m + k) - m = k
    BY <1>2
  <2>2. t[m + k] = q[(m + k) - m]
    BY <1>3, <2>1
  <2> QED BY <1>3, <2>1, <2>2
<1>8. ASSUME NEW k \in 1 .. Len(f) PROVE m + k \in 1 .. Len(u) /\ u[m + k] = f[k]
  <2>1. m + k \in 1 .. m + Len(f) /\ ~(m + k <= m) /\ (m + k) - m = k
    BY <1>2
  <2>2. u[m + k] = f[(m + k) - m]
    BY <1>4, <2>1
  <2> QED BY <1>4, <2>1, <2>2
<1>9. ASSUME NEW j \in 1 .. Len(t), j > m PROVE j - m \in 1 .. Len(q) /\ t[j] = q[j - m]
  <2>1. j - m \in 1 .. Len(q) /\ m + (j - m) = j
    BY <1>2, <1>3, <1>9
  <2>2. t[m + (j - m)] = q[j - m]
    BY <1>7, <2>1
  <2> QED BY <2>1, <2>2
<1> SUFFICES ASSUME NEW i \in 1 .. Len(u), u[i].type = "ABS",
                    \A j \in i + 1 .. Len(u) : u[j].type \notin {"ABS", "DROPPED"}
    PROVE u[i].value = at
  BY DEF AxisLast, u, f
\* Nothing that matters comes after the place i in the part of q.
<1>10. ASSUME NEW k \in 1 .. Len(q), q[k].type \in {"ABS", "DROPPED"}
       PROVE  \E l \in 1 .. Len(f) : nth[l] = k /\ m + l <= i
  <2>1. PICK l \in 1 .. Len(f) : nth[l] = k
    BY <1>1, <1>10
  <2>2. u[m + l] = q[k] /\ m + l \in 1 .. Len(u)
    BY <1>1, <1>8, <2>1
  <2>3. ~(m + l \in i + 1 .. Len(u))
    BY <1>10, <2>2
  <2>4. m + l <= i
    BY <1>2, <1>4, <2>2, <2>3
  <2> QED BY <2>1, <2>4
<1>11. CASE i <= m
  <2>1. i \in 1 .. m
    BY <1>2, <1>11
  <2>2. t[i] = u[i] /\ i \in 1 .. Len(t)
    BY <1>6, <2>1
  <2>3. ASSUME NEW j \in i + 1 .. Len(t) PROVE t[j].type \notin {"ABS", "DROPPED"}
    <3>1. CASE j <= m
      <4>1. j \in 1 .. m /\ j \in i + 1 .. Len(u)
        BY <1>2, <1>4, <3>1, <2>1
      <4> QED BY <1>6, <4>1
    <3>2. CASE j > m
      <4>1. j \in 1 .. Len(t)
        BY <1>2, <1>3, <2>1
      <4>2. j - m \in 1 .. Len(q) /\ t[j] = q[j - m]
        BY <1>9, <3>2, <4>1
      <4>3. \A l \in 1 .. Len(f) : ~(m + l <= i)
        BY <1>2, <1>11
      <4> QED BY <1>10, <4>2, <4>3
    <3> QED BY <1>2, <2>1, <3>1, <3>2
  <2>4. t[i].value = at
    BY <1>5, <2>2, <2>3 DEF AxisLast
  <2> QED BY <2>2, <2>4
<1>12. CASE i > m
  <2> DEFINE l == i - m
             k == nth[l]
  <2>1. l \in 1 .. Len(f) /\ m + l = i
    BY <1>2, <1>4, <1>12
  <2>2. k \in 1 .. Len(q) /\ f[l] = q[k]
    BY <1>1, <2>1
  <2>3. u[i] = f[l]
    BY <1>8, <2>1
  <2> HIDE DEF l, k
  <2>4. t[m + k] = u[i] /\ m + k \in 1 .. Len(t)
    BY <1>7, <2>2, <2>3
  <2>5. ASSUME NEW j \in m + k + 1 .. Len(t) PROVE t[j].type \notin {"ABS", "DROPPED"}
    <3> SUFFICES ASSUME t[j].type \in {"ABS", "DROPPED"} PROVE FALSE
      OBVIOUS
    <3>1. j \in 1 .. Len(t) /\ j > m
      BY <1>2, <1>3, <2>2
    <3>2. j - m \in 1 .. Len(q) /\ t[j] = q[j - m]
      BY <1>9, <3>1
    <3>3. PICK l2 \in 1 .. Len(f) : nth[l2] = j - m /\ m + l2 <= i
      BY <1>10, <3>2
    <3>4. k < j - m
      BY <1>2, <1>3, <2>2
    <3>5. l < l2
      BY <1>1, <2>1, <3>3, <3>4 DEF k
    <3> QED BY <1>2, <2>1, <3>3, <3>5
  <2>6. t[m + k].value = at
    BY <1>5, <2>4, <2>5 DEF AxisLast
  <2> QED BY <2>4, <2>6
<1> QED
  BY <1>2, <1>4, <1>11, <1>12

\* A slot that a step does not touch, of a device that it does not touch.
LEMMA TruthKept ==
  ASSUME NEW s \in Slots, KeysAt(s), AxisAt(s), source'[s] = source[s],
         partial'[s] \o queue'[s] = partial[s] \o queue[s],
         dead[s] => dead'[s], s \in raced => s \in raced', early'[s] = early[s],
         ~slot_empty(s) /\ ~dead'[s] => /\ down'[source[s].node] = down[source[s].node]
                                        /\ pos'[source[s].node] = pos[source[s].node]
  PROVE  KeysAt(s)' /\ AxisAt(s)'
<1>1. KeysAt(s)'
  BY DEF KeysAt, slot_empty, stream
<1>2. AxisAt(s)'
  BY DEF AxisAt, slot_empty, stream
<1> QED
  BY <1>1, <1>2

\* An event of a device says what changed: what the stream leads to stays the
\* state of the device.
LEMMA TruthDelivered ==
  ASSUME TypeOK, TruthInv, NEW d \in Devices, NEW e \in Events, Delivered(d, e),
         \A x \in Devices : x # d => down'[x] = down[x] /\ pos'[x] = pos[x],
         \A k \in LowKeys : of_key(e, k) => (e.value # 0 <=> k \in down'[d]),
         \A k \in LowKeys : ~of_key(e, k) => (k \in down'[d] <=> k \in down[d]),
         e.type = "ABS" => e.value = pos'[d],
         e.type # "ABS" => pos'[d] = pos[d]
  PROVE  TruthInv'
<1>1. UNCHANGED <<source, partial, dead, raced, early>>
  BY DEF Delivered, input_vars
<1> SUFFICES ASSUME NEW s \in Slots PROVE KeysAt(s)' /\ AxisAt(s)'
  BY DEF TruthInv
<1> DEFINE p == partial[s]
           q == queue[s]
           node == source[s].node
<1>2. /\ p \in Seq(Events) /\ q \in Seq(Events) /\ Len(q) <= QueueCap
      /\ node \in Devices \cup {NoNode} /\ KeysAt(s) /\ AxisAt(s)
  BY DEF TypeOK, cart_input_source, TruthInv
<1>3. CASE ~listens(s, d)
  <2>1. queue'[s] = q
    BY <1>3, DeliveredTypes DEF Delivered
  <2>2. ~slot_empty(s) /\ ~dead'[s] => down'[node] = down[node] /\ pos'[node] = pos[node]
    BY <1>1, <1>2, <1>3 DEF listens, slot_empty
  <2> QED BY <1>1, <1>2, <2>1, <2>2, TruthKept
<1>4. CASE listens(s, d)
  <2>0. node = d
    BY <1>4 DEF listens
  <2>1. queue'[s] = Enqueued(q, e)
    BY <1>4, DeliveredTypes DEF Delivered
  <2> DEFINE t == p \o q
             u == partial'[s] \o queue'[s]
  <2>2. t \in Seq(Events)
    BY <1>2, ConcatProperties
  <2>3. CASE Len(q) # QueueCap
    <3>1. u = Append(t, e)
      <4>1. queue'[s] = Append(q, e)
        BY <1>2, <2>1, <2>3, EnqueuedType
      <4> QED BY <1>1, <1>2, <4>1, StreamAppend
    <3> HIDE DEF t, u
    <3>2. Has(t, Dropped) => Has(u, Dropped)
      BY <2>2, <3>1, MatchAppend
    <3>3. KeysMatch(t, source[s].held, down[d], early[s]) =>
            KeysMatch(u, source[s].held, down'[d], early[s])
      BY <2>2, <3>1, MatchAppend
    <3>4. AxisLast(t, pos[d]) => AxisLast(u, pos'[d])
      BY <2>2, <3>1, MatchAppend
    <3>5. AxisMatch(t, source[s].raw, pos[d]) => AxisMatch(u, source[s].raw, pos'[d])
      BY <2>2, <3>1, MatchAppend
    <3>6. KeysAt(s)'
      BY <1>1, <1>2, <2>0, <3>2, <3>3 DEF KeysAt, slot_empty, stream, t, u
    <3>7. AxisAt(s)'
      BY <1>1, <1>2, <2>0, <3>4, <3>5 DEF AxisAt, slot_empty, stream, t, u
    <3> QED BY <3>6, <3>7
  <2>4. CASE Len(q) = QueueCap
    <3>1. u = p \o <<Dropped, e>>
      BY <1>1, <1>2, <2>1, <2>4, EnqueuedType
    <3> HIDE DEF u
    <3>2. Has(u, Dropped) /\ AxisLast(u, pos'[d]) /\ \A raw, at : AxisMatch(u, raw, at)
      BY <1>2, <3>1, MatchOverflow
    <3>3. KeysAt(s)'
      BY <3>2 DEF KeysAt, stream, u
    <3>4. AxisAt(s)'
      BY <1>1, <2>0, <3>2 DEF AxisAt, stream, u
    <3> QED BY <3>3, <3>4
  <2> QED BY <2>3, <2>4
<1> QED
  BY <1>3, <1>4

\* An event that is consumed brings the source nearer to where the stream leads;
\* after an overflow the resync replaces what was lost.
LEMMA TruthConsumed ==
  ASSUME TypeOK, SlotsInv, TruthInv, PumpConsume
  PROVE  TruthInv'
<1> DEFINE e == Head(partial[cur])
           p == partial[cur]
           q == queue[cur]
           old == source[cur]
           t == p \o q
           u == partial'[cur] \o queue'[cur]
<1>1. PICK src \in cart_input_source :
        /\ source' = [source EXCEPT ![cur] = src]
        /\ src.node = source[cur].node
        /\ src.axis = source[cur].axis /\ src.axis_valid = source[cur].axis_valid
        /\ \/ Disconnects(e, src) \/ Resyncs(e, src) \/ TakesKey(e, src)
           \/ Moves(e, src) \/ Ignores(e, src)
  BY Consumed
<1>2. /\ cur \in Slots /\ p # <<>> /\ p \in Seq(Events) /\ e \in Events /\ ~slot_empty(cur)
      /\ partial' = [partial EXCEPT ![cur] = Tail(p)]
  BY Consumed
<1>3. UNCHANGED <<cur, dead, down, pos>>
  BY DEF PumpConsume, device_vars
<1>4. /\ source \in [Slots -> cart_input_source] /\ partial \in [Slots -> Seq(Events)]
      /\ queue \in [Slots -> Seq(Events)] /\ early \in [Slots -> SUBSET Keys] /\ q \in Seq(Events)
  BY <1>2 DEF TypeOK
<1>5. queue' = queue \/ queue' = [queue EXCEPT ![cur] = flushed(q)]
  BY <1>1 DEF Disconnects, Resyncs, TakesKey, Moves, Ignores
<1>6. ASSUME NEW s \in Slots, s # cur PROVE KeysAt(s)' /\ AxisAt(s)'
  <2>1. source'[s] = source[s] /\ partial'[s] = partial[s] /\ queue'[s] = queue[s]
    BY <1>1, <1>2, <1>4, <1>5, <1>6
  <2>2. early'[s] = early[s]
    BY <1>1, <1>2, <1>4, <1>6 DEF Disconnects, Resyncs, TakesKey, Moves, Ignores
  <2>3. s \in raced => s \in raced'
    BY <1>1, <1>6 DEF Disconnects, Resyncs, TakesKey, Moves, Ignores
  <2> QED BY <1>3, <2>1, <2>2, <2>3, TruthKept DEF TruthInv
<1>7. source'[cur] = src /\ partial'[cur] = Tail(p)
  BY <1>1, <1>2, <1>4
<1>8. t \in Seq(Events) /\ t # <<>> /\ t[1] = e /\ Tail(p) \o q = Tail(t)
  BY <1>2, <1>4, ConcatProperties, StreamTail
<1>9. KeysAt(cur) /\ AxisAt(cur)
  BY <1>2 DEF TruthInv
<1>10. e.type = "DROPPED" <=> e = Dropped
  BY <1>2, EventTypes
<1>11. queue' = queue => u = Tail(t)
  BY <1>7, <1>8
<1>12. KeysAt(cur) =
         (~dead[cur] /\ old.state = "CONNECTED" /\ cur \notin raced /\ ~Has(t, Dropped)
            => KeysMatch(t, old.held, down[old.node], early[cur]))
  BY <1>2 DEF KeysAt, stream
<1>13. KeysAt(cur)' <=>
         (~dead[cur] /\ src.state = "CONNECTED" /\ cur \notin raced' /\ ~Has(u, Dropped)
            => KeysMatch(u, src.held, down[old.node], early'[cur]))
  BY <1>1, <1>2, <1>3, <1>7 DEF KeysAt, stream, slot_empty
<1>14. AxisAt(cur) <=>
         (~dead[cur] /\ old.axis_valid =>
            /\ AxisLast(t, pos[old.node])
            /\ old.state = "CONNECTED" => AxisMatch(t, old.raw, pos[old.node]))
  BY <1>2 DEF AxisAt, stream
<1>15. AxisAt(cur)' <=>
         (~dead[cur] /\ old.axis_valid =>
            /\ AxisLast(u, pos[old.node])
            /\ src.state = "CONNECTED" => AxisMatch(u, src.raw, pos[old.node]))
  BY <1>1, <1>2, <1>3, <1>7 DEF AxisAt, stream, slot_empty
<1> HIDE DEF t, u, e, old
<1> SUFFICES KeysAt(cur)' /\ AxisAt(cur)'
  BY <1>3, <1>6 DEF TruthInv
<1>16. CASE Resyncs(e, src)
  <2>1. CASE dead[cur]
    BY <1>13, <1>15, <2>1
  <2>2. CASE ~dead[cur]
    <3>1. queue'[cur] = flushed(q)
      BY <1>2, <1>4, <1>16, <2>2 DEF Resyncs
    <3> DEFINE f == flushed(q)
    <3>2. f \in Seq(Events) /\ \A i \in 1 .. Len(f) : f[i].type # "KEY"
      BY <1>4, Flushed
    <3>3. src.held = down[old.node] \cap LowKeys
      BY <1>16, <2>2 DEF Resyncs, old
    <3>4. ASSUME cur \notin raced' PROVE KeysMatch(u, src.held, down[old.node], early'[cur])
      <4>1. Len(p) <= 1
        <5>1. Len(p) \in Nat
          BY <1>2, LenProperties
        <5>2. ~(Len(p) > 1)
          BY <1>16, <3>4 DEF Resyncs
        <5> QED BY <5>1, <5>2
      <4>2. Tail(p) = <<>>
        <5> DEFINE x == Tail(p)
        <5>1. x \in Seq(Events) /\ Len(x) = Len(p) - 1 /\ Len(p) \in Nat /\ Len(x) \in Nat
          BY <1>2, HeadTailProperties, LenProperties
        <5> HIDE DEF x, p
        <5>2. Len(x) = 0
          BY <4>1, <5>1
        <5>3. x = <<>>
          BY <5>1, <5>2, EmptySeq
        <5> QED BY <5>3 DEF x
      <4>3. u = f
        BY <1>7, <3>1, <3>2, <4>2, ConcatEmptySeq DEF u
      <4> HIDE DEF f
      <4> QED BY <3>2, <3>3, <4>3 DEF KeysMatch, of_key
    <3>5. KeysAt(cur)'
      BY <1>13, <3>4
    <3>6. AxisLast(t, pos[old.node]) => AxisLast(u, pos[old.node])
      <4>1. AxisLast(t, pos[old.node]) => AxisLast(Tail(t), pos[old.node])
        BY <1>8, TailAxis
      <4>2. Tail(p) \in Seq(Events)
        BY <1>2, HeadTailProperties
      <4>3. AxisLast(Tail(p) \o q, pos[old.node]) => AxisLast(Tail(p) \o f, pos[old.node])
        BY <1>4, <4>2, MatchFlushed
      <4>4. u = Tail(p) \o f
        BY <1>7, <3>1 DEF u
      <4> QED BY <1>8, <4>1, <4>3, <4>4
    <3>7. old.axis_valid => src.raw = pos[old.node]
      BY <1>16, <2>2 DEF Resyncs, old
    <3>8. AxisAt(cur)'
      BY <1>9, <1>14, <1>15, <3>6, <3>7 DEF AxisMatch
    <3> QED BY <3>5, <3>8
  <2> QED BY <2>1, <2>2
<1>17. CASE Disconnects(e, src) \/ TakesKey(e, src) \/ Moves(e, src) \/ Ignores(e, src)
  <2>1. queue' = queue
    BY <1>17 DEF Disconnects, TakesKey, Moves, Ignores
  <2>2. t \in Seq(Events) /\ t # <<>> /\ e = t[1] /\ u = Tail(t)
    BY <1>8, <1>11, <2>1
  <2>3. AxisLast(t, pos[old.node]) => AxisLast(u, pos[old.node])
    BY <2>2, TailAxis
  <2>4. CASE src.state # "CONNECTED"
    BY <1>9, <1>13, <1>14, <1>15, <2>3, <2>4
  <2>5. CASE src.state = "CONNECTED"
    <3>1. /\ TakesKey(e, src) \/ Moves(e, src) \/ Ignores(e, src)
          /\ old.state = "CONNECTED" /\ e.type # "DROPPED"
      BY <1>17, <2>5 DEF Disconnects, TakesKey, Moves, Ignores, old
    <3>2. cur \in raced => cur \in raced'
      BY <3>1 DEF TakesKey, Moves, Ignores
    <3>3. ~Has(u, Dropped) => ~Has(t, Dropped)
      <4>1. e # Dropped
        BY <1>10, <3>1
      <4> QED BY <2>2, <4>1, TailHas
    <3>4. \A k \in LowKeys : of_key(e, k) => (k \in src.held <=> e.value # 0)
      BY <3>1 DEF TakesKey, Moves, Ignores, of_key, held_after, old
    <3>5. \A k \in LowKeys : ~of_key(e, k) =>
            (k \in src.held <=> k \in old.held) /\ (k \in early[cur] => k \in early'[cur])
      BY <1>2, <1>4, <3>1 DEF TakesKey, Moves, Ignores, of_key, held_after, old
    <3>6. KeysMatch(t, old.held, down[old.node], early[cur]) =>
            KeysMatch(u, src.held, down[old.node], early'[cur])
      <4> DEFINE h == old.held
                 h2 == src.held
                 dn == down[old.node]
                 x == early[cur]
                 y == early'[cur]
      <4>1. /\ \A k \in LowKeys : of_key(e, k) => (k \in h2 <=> e.value # 0)
            /\ \A k \in LowKeys : ~of_key(e, k) =>
                 (k \in h2 <=> k \in h) /\ (k \in x => k \in y)
        BY <3>4, <3>5
      <4> HIDE DEF h, h2, dn, x, y
      <4>2. KeysMatch(t, h, dn, x) => KeysMatch(u, h2, dn, y)
        <5>1. /\ \A k \in LowKeys : of_key(t[1], k) => (k \in h2 <=> t[1].value # 0)
              /\ \A k \in LowKeys : ~of_key(t[1], k) =>
                   (k \in h2 <=> k \in h) /\ (k \in x => k \in y)
          BY <2>2, <4>1
        <5>2. KeysMatch(t, h, dn, x) => KeysMatch(Tail(t), h2, dn, y)
          BY <2>2, <5>1, TailKeys
        <5> QED BY <2>2, <5>2
      <4> QED BY <4>2 DEF h, h2, dn, x, y
    <3>7. KeysAt(cur)'
      BY <1>9, <1>12, <1>13, <3>1, <3>2, <3>3, <3>6
    <3>8. AxisLast(t, pos[old.node]) /\ AxisMatch(t, old.raw, pos[old.node]) =>
            AxisMatch(u, src.raw, pos[old.node])
      <4>1. CASE Moves(e, src)
        <5>1. e.type = "ABS" /\ src.raw = e.value
          BY <4>1 DEF Moves
        <5> QED BY <2>2, <5>1, TailAxis
      <4>2. CASE TakesKey(e, src) \/ Ignores(e, src)
        <5>1. e.type \notin {"ABS", "DROPPED"} /\ src.raw = old.raw
          BY <2>5, <4>2 DEF TakesKey, Ignores, old
        <5> QED BY <2>2, <5>1, TailAxis
      <4> QED BY <3>1, <4>1, <4>2
    <3>9. AxisAt(cur)'
      BY <1>9, <1>14, <1>15, <2>3, <3>1, <3>8
    <3> QED BY <3>7, <3>9
  <2> QED BY <2>4, <2>5
<1> QED
  BY <1>1, <1>16, <1>17

\* A slot that the discovery fills starts with the axis of the device, and with
\* the keys that are down counted as unheard.
LEMMA TruthDiscovered ==
  ASSUME TypeOK, SlotsInv, TruthInv, NEW before, NEW c \in SUBSET Devices,
         discover_pass(before, c), pc \in {"new", "idle"},
         \A s \in Slots : before[s] = source[s] \/ before[s] = reset_source,
         UNCHANGED <<partial, down, pos>>
  PROVE  TruthInv'
<1>1. PICK C, node : Discovered(before, C, node)
  BY Discovery
<1> SUFFICES ASSUME NEW s \in Slots PROVE KeysAt(s)' /\ AxisAt(s)'
  BY DEF TruthInv
<1>2. CASE s \in C
  <2>1. /\ source'[s] = connected(node[s]) /\ node[s] \in Devices
        /\ queue'[s] = <<>> /\ early'[s] = down[node[s]]
    BY <1>1, <1>2 DEF Discovered
  <2>2. /\ source'[s].node = node[s] /\ source'[s].held = {}
        /\ source'[s].axis_valid => source'[s].raw = pos[node[s]]
    BY <2>1, Connected DEF TypeOK
  <2>3. partial'[s] = <<>>
    BY DEF SlotsInv
  <2>4. partial'[s] \o queue'[s] = <<>> /\ Len(<<>>) = 0
    BY <2>1, <2>3, EmptySeq, ConcatEmptySeq
  <2>5. KeysAt(s)'
    BY <2>1, <2>2, <2>4 DEF KeysAt, KeysMatch, stream
  <2>6. AxisAt(s)'
    BY <2>1, <2>2, <2>4 DEF AxisAt, AxisLast, AxisMatch, stream
  <2> QED BY <2>5, <2>6
<1>3. CASE s \notin C
  <2>1. /\ source'[s] = before[s] /\ queue'[s] = queue[s] /\ early'[s] = early[s]
        /\ s \in raced => s \in raced'
    BY <1>1, <1>3 DEF Discovered
  <2>2. dead[s] => dead'[s]
    BY <1>1, <1>3 DEF Discovered
  <2>3. CASE before[s] = source[s]
    BY <2>1, <2>2, <2>3, TruthKept DEF TruthInv
  <2>4. CASE before[s] = reset_source
    <3>1. source'[s].node = NoNode
      BY <2>1, <2>4 DEF reset_source
    <3> QED BY <3>1 DEF KeysAt, AxisAt, slot_empty
  <2> QED BY <2>3, <2>4
<1> QED
  BY <1>2, <1>3

\* Steps that have to do with neither the events nor the devices.
LEMMA TruthQuiet ==
  ASSUME TruthInv, UNCHANGED <<source, partial, queue, dead, raced, early, down, pos>>
  PROVE  TruthInv'
BY DEF TruthInv, KeysAt, AxisAt, stream, slot_empty

\* Every action keeps the sources on the way to the truth.
LEMMA TruthStep ==
  ASSUME TypeOK, SlotsInv, TruthInv, [Next]_vars PROVE TruthInv'
<1>1. ASSUME NEW d \in Devices, NEW v \in Positions, DeviceAbs(d, v)
      PROVE  TruthInv'
  <2> DEFINE e == [type |-> "ABS", value |-> v]
  <2>1. Delivered(d, e)
    BY <1>1 DEF Delivered, DeviceAbs
  <2>2. e \in Events /\ e.type = "ABS" /\ e.value = v
    BY DEF Events
  <2>3. /\ down' = down /\ pos'[d] = v
        /\ \A x \in Devices : x # d => pos'[x] = pos[x]
    BY <1>1 DEF DeviceAbs, TypeOK
  <2> HIDE DEF e
  <2>4. \A k \in LowKeys : ~of_key(e, k)
    BY <2>2 DEF of_key
  <2> QED BY <2>1, <2>2, <2>3, <2>4, TruthDelivered
<1>2. ASSUME NEW d \in Devices, NEW k \in Keys, DeviceKey(d, k)
      PROVE  TruthInv'
  <2> DEFINE e == [type |-> "KEY", key |-> k, value |-> IF k \in down[d] THEN 0 ELSE 1]
  <2>1. Delivered(d, e)
    BY <1>2 DEF Delivered, DeviceKey
  <2>2. e \in Events /\ e.type = "KEY" /\ e.key = k /\ e.value = IF k \in down[d] THEN 0 ELSE 1
    BY DEF Events
  <2>3. /\ pos' = pos /\ down'[d] = IF k \in down[d] THEN down[d] \ {k} ELSE down[d] \cup {k}
        /\ \A x \in Devices : x # d => down'[x] = down[x]
    BY <1>2 DEF DeviceKey, TypeOK
  <2> HIDE DEF e
  <2>4. \A l \in LowKeys : of_key(e, l) => (e.value # 0 <=> l \in down'[d])
    BY <2>2, <2>3 DEF of_key
  <2>5. \A l \in LowKeys : ~of_key(e, l) => (l \in down'[d] <=> l \in down[d])
    BY <2>2, <2>3 DEF of_key
  <2> QED BY <2>1, <2>2, <2>3, <2>4, <2>5, TruthDelivered
<1>3. ASSUME NEW d \in Devices, NEW k \in Keys, DeviceRepeat(d, k)
      PROVE  TruthInv'
  <2> DEFINE e == [type |-> "KEY", key |-> k, value |-> 2]
  <2>1. Delivered(d, e)
    BY <1>3 DEF Delivered, DeviceRepeat
  <2>2. e \in Events /\ e.type = "KEY" /\ e.key = k /\ e.value = 2
    BY DEF Events
  <2>3. pos' = pos /\ down' = down /\ k \in down[d]
    BY <1>3 DEF DeviceRepeat
  <2> HIDE DEF e
  <2>4. \A l \in LowKeys : of_key(e, l) => (e.value # 0 <=> l \in down'[d])
    BY <2>2, <2>3 DEF of_key
  <2> QED BY <2>1, <2>2, <2>3, <2>4, TruthDelivered
<1>4. ASSUME NEW d \in Devices, DeviceReport(d)
      PROVE  TruthInv'
  <2>1. Delivered(d, Report)
    BY <1>4 DEF Delivered, DeviceReport, bound_vars
  <2>2. Report \in Events /\ Report.type = "REPORT"
    BY EventTypes DEF Report
  <2>3. pos' = pos /\ down' = down
    BY <1>4 DEF DeviceReport
  <2>4. \A k \in LowKeys : ~of_key(Report, k)
    BY <2>2 DEF of_key
  <2> QED BY <2>1, <2>2, <2>3, <2>4, TruthDelivered
<1>5. ASSUME NEW d \in Devices, DeviceRemoved(d)
      PROVE  TruthInv'
  <2> SUFFICES ASSUME NEW s \in Slots PROVE KeysAt(s)' /\ AxisAt(s)'
    BY DEF TruthInv
  <2>1. UNCHANGED <<source, partial, queue, raced, early, pos>>
    BY <1>5 DEF DeviceRemoved, input_vars
  <2>2. dead'[s] <=> dead[s] \/ source[s].node = d
    BY <1>5 DEF DeviceRemoved
  <2>3. source[s].node # d /\ source[s].node # NoNode => down'[source[s].node] = down[source[s].node]
    <3>1. source[s].node \in Devices \cup {NoNode}
      BY DEF TypeOK, cart_input_source
    <3> QED BY <1>5, <3>1 DEF DeviceRemoved, TypeOK
  <2> QED BY <2>1, <2>2, <2>3, TruthKept DEF TruthInv, slot_empty
<1>6. ASSUME NEW d \in Devices, DevicePlugged(d)
      PROVE  TruthInv'
  BY <1>6, TruthQuiet DEF DevicePlugged, input_vars, ghost_vars
<1>7. CASE cart_input_init
  <2> DEFINE before == [s \in Slots |-> reset_source]
  <2>1. PICK c \in SUBSET Devices : discover_pass(before, c)
    BY <1>7 DEF cart_input_init, Found, TypeOK
  <2>2. \A s \in Slots : before[s] = source[s] \/ before[s] = reset_source
    OBVIOUS
  <2>3. UNCHANGED <<partial, down, pos>> /\ pc \in {"new", "idle"}
    BY <1>7 DEF cart_input_init, device_vars
  <2> HIDE DEF before
  <2> QED BY <2>1, <2>2, <2>3, TruthDiscovered
<1>8. CASE cart_input_rescan
  <2>1. PICK c \in SUBSET Devices : discover_pass(source, c)
    BY <1>8 DEF cart_input_rescan, Found, TypeOK
  <2>2. \A s \in Slots : source[s] = source[s] \/ source[s] = reset_source
    OBVIOUS
  <2>3. UNCHANGED <<partial, down, pos>> /\ pc \in {"new", "idle"}
    BY <1>8 DEF cart_input_rescan, device_vars
  <2> QED BY <2>1, <2>2, <2>3, TruthDiscovered
<1>9. CASE cart_input_shutdown
  <2>1. \A s \in Slots : source'[s].node = NoNode
    BY <1>9 DEF cart_input_shutdown, reset_source
  <2> QED BY <2>1 DEF TruthInv, KeysAt, AxisAt, slot_empty
<1>10. CASE PollBegin
  BY <1>10, TruthQuiet DEF PollBegin, device_vars, ghost_vars
<1>11. CASE PollSkip
  BY <1>11, TruthQuiet DEF PollSkip, input_vars, device_vars, ghost_vars
<1>12. CASE PollEnter
  BY <1>12, TruthQuiet DEF PollEnter, input_vars, device_vars, ghost_vars
<1>13. CASE PumpConsume
  BY <1>13, TruthConsumed
<1>14. CASE PumpRead
  <2>1. UNCHANGED <<source, dead, raced, early, down, pos>>
    BY <1>14 DEF PumpRead, device_vars, ghost_vars
  <2> SUFFICES ASSUME NEW s \in Slots PROVE KeysAt(s)' /\ AxisAt(s)'
    BY DEF TruthInv
  <2> QED BY <1>14, <2>1, ReadKeepsStreams, TruthKept DEF TruthInv
<1>15. CASE PumpAgain
  BY <1>15, TruthQuiet DEF PumpAgain, input_vars, device_vars, ghost_vars
<1>16. CASE PumpHangup
  <2>1. cur \in Slots
    BY <1>16 DEF PumpHangup, SlotsInv
  <2>2. handle_disconnect(source[cur]).node = NoNode
    BY <2>1, SourceTypes DEF TypeOK
  <2>3. source'[cur].node = NoNode
    BY <1>16, <2>1, <2>2 DEF PumpHangup, TypeOK
  <2>4. ASSUME NEW s \in Slots PROVE KeysAt(s)' /\ AxisAt(s)'
    <3>1. CASE s = cur
      BY <2>3, <3>1 DEF KeysAt, AxisAt, slot_empty
    <3>2. CASE s # cur
      <4>1. source'[s] = source[s] /\ partial'[s] = partial[s] /\ queue'[s] = queue[s]
        BY <1>16, <2>1, <3>2 DEF PumpHangup, TypeOK
      <4>2. dead'[s] = dead[s]
        BY <1>16, <2>1, <3>2 DEF PumpHangup, TypeOK
      <4>3. UNCHANGED <<raced, early, down, pos>>
        BY <1>16 DEF PumpHangup, device_vars, ghost_vars
      <4> QED BY <4>1, <4>2, <4>3, TruthKept DEF TruthInv
    <3> QED BY <3>1, <3>2
  <2> QED BY <2>4 DEF TruthInv
<1>17. CASE PollEnd
  BY <1>17, TruthQuiet DEF PollEnd, device_vars
<1>18. CASE UNCHANGED vars
  BY <1>18, TruthQuiet DEF vars, input_vars, device_vars, ghost_vars
<1> QED
  BY <1>1, <1>2, <1>3, <1>4, <1>5, <1>6, <1>7, <1>8, <1>9, <1>10, <1>11, <1>12, <1>13, <1>14,
     <1>15, <1>16, <1>17, <1>18 DEF Next, Poll, Closed

----------------------------------------------------------------------------
(* The order of the slots *)

\* Every action before the first rescan keeps the order of the slots.
LEMMA OrderStep ==
  ASSUME TypeOK, SlotsInv, OrderInv, [Next]_vars PROVE OrderInv'
<1>1. ASSUME source' = source, rescans_used' = rescans_used PROVE OrderInv'
  BY <1>1 DEF OrderInv, slot_empty
<1>2. ASSUME NEW d \in Devices,
             \/ \E v \in Positions : DeviceAbs(d, v)
             \/ \E k \in Keys : DeviceKey(d, k) \/ DeviceRepeat(d, k)
             \/ DeviceReport(d) \/ DeviceRemoved(d) \/ DevicePlugged(d)
      PROVE  OrderInv'
  BY <1>1, <1>2
  DEF DeviceAbs, DeviceKey, DeviceRepeat, DeviceReport, DeviceRemoved, DevicePlugged,
      input_vars, bound_vars
<1>3. CASE cart_input_init
  <2> DEFINE before == [s \in Slots |-> reset_source]
  <2>1. PICK c \in SUBSET Devices : discover_pass(before, c)
    BY <1>3 DEF cart_input_init, Found, TypeOK
  <2>2. \A s \in Slots : before[s].node = NoNode
    BY DEF reset_source
  <2> HIDE DEF before
  <2>3. PICK C, node : Discovered(before, C, node)
    BY <2>1, Discovery
  <2>4. /\ \A s \in Slots : s \notin C => source'[s].node = NoNode
        /\ \A s \in C : s \in Slots /\ source'[s] = connected(node[s]) /\ node[s] \in Devices
        /\ \A s, t \in C : s < t => node[s] # node[t] /\ Rank[node[s]] >= Rank[node[t]]
    BY <2>2, <2>3 DEF Discovered
  <2>5. \A s \in C : source'[s].node = node[s]
    BY <2>4, Connected DEF TypeOK
  <2> QED BY <2>4, <2>5 DEF OrderInv, slot_empty
<1>4. CASE cart_input_rescan
  BY <1>4 DEF cart_input_rescan, SlotsInv, OrderInv
<1>5. CASE cart_input_shutdown
  <2>1. \A s \in Slots : source'[s].node = NoNode
    BY <1>5 DEF cart_input_shutdown, reset_source
  <2> QED BY <2>1 DEF OrderInv, slot_empty
<1>6. ASSUME rescans_used' = rescans_used,
             \A s \in Slots : source'[s].node = source[s].node \/ source'[s].node = NoNode
      PROVE  OrderInv'
  BY <1>6 DEF OrderInv, slot_empty
<1>7. CASE PollBegin \/ PollSkip \/ PollEnter \/ PumpRead \/ PumpAgain \/ PollEnd
  BY <1>1, <1>7
  DEF PollBegin, PollSkip, PollEnter, PumpRead, PumpAgain, PollEnd, input_vars, bound_vars
<1>8. CASE PumpConsume
  <2>1. /\ cur \in Slots
        /\ \E src \in cart_input_source :
             source' = [source EXCEPT ![cur] = src] /\ src.node = source[cur].node
    BY <1>8, Consumed
  <2>2. \A s \in Slots : source'[s].node = source[s].node
    BY <2>1 DEF TypeOK
  <2>3. rescans_used' = rescans_used
    BY <1>8 DEF PumpConsume, bound_vars
  <2> QED BY <1>6, <2>2, <2>3
<1>9. CASE PumpHangup
  <2>1. cur \in Slots
    BY <1>9 DEF PumpHangup, SlotsInv
  <2>2. handle_disconnect(source[cur]).node = NoNode
    BY <2>1, SourceTypes DEF TypeOK
  <2>3. \A s \in Slots : source'[s].node = source[s].node \/ source'[s].node = NoNode
    BY <1>9, <2>1, <2>2 DEF PumpHangup, TypeOK
  <2>4. rescans_used' = rescans_used
    BY <1>9 DEF PumpHangup, bound_vars
  <2> QED BY <1>6, <2>3, <2>4
<1>10. CASE UNCHANGED vars
  BY <1>1, <1>10 DEF vars, input_vars, bound_vars
<1> QED
  BY <1>2, <1>3, <1>4, <1>5, <1>7, <1>8, <1>9, <1>10 DEF Next, Poll, Closed

----------------------------------------------------------------------------
(* Counting the presses that are under way *)

\* What the slots may hold: room for what is read and for what is queued.
Rooms == [Slots -> {t \in Seq(Events) : Len(t) <= BufCap + QueueCap}]

\* The presses that are under way are a finite number.
LEMMA PressesFinite ==
  ASSUME NEW st
  PROVE  IsFiniteSet(presses_in(st)) /\ Cardinality(presses_in(st)) \in Nat
<1> DEFINE all == Slots \X (1 .. BufCap + QueueCap)
<1>1. MaxSources \in Nat /\ BufCap \in Nat /\ QueueCap \in Nat
  BY InputAssumption
<1>2. IsFiniteSet(Slots) /\ IsFiniteSet(1 .. BufCap + QueueCap)
  BY <1>1, FS_Interval DEF Slots
<1>3. IsFiniteSet(all)
  BY <1>2, FS_Product
<1>4. presses_in(st) \in SUBSET all
  BY DEF presses_in
<1> QED
  BY <1>3, <1>4, FS_Subset, FS_CardinalityType

\* A stream that gets one more event.
LEMMA PressesAppend ==
  ASSUME NEW st \in Rooms, NEW c \in Slots, NEW e \in Events,
         Len(st[c]) < BufCap + QueueCap,
         NEW u, \A s \in Slots : s # c => u[s] = st[s], u[c] = Append(st[c], e)
  PROVE  Cardinality(presses_in(u)) = Cardinality(presses_in(st)) + IF pressing(e) THEN 1 ELSE 0
<1> DEFINE t == st[c]
           new == <<c, Len(t) + 1>>
<1>1. t \in Seq(Events) /\ Len(t) \in Nat /\ BufCap \in Nat /\ QueueCap \in Nat
  BY InputAssumption, LenProperties DEF Rooms
<1>2. Len(u[c]) = Len(t) + 1 /\ u[c][Len(t) + 1] = e /\ \A i \in 1 .. Len(t) : u[c][i] = t[i]
  BY <1>1, AppendProperties
<1>3. new \notin presses_in(st)
  BY <1>1 DEF presses_in
<1>4. ASSUME NEW s \in Slots, NEW i \in 1 .. BufCap + QueueCap
      PROVE  <<s, i>> \in presses_in(u) <=> <<s, i>> \in presses_in(st) \/ (<<s, i>> = new /\ pressing(e))
  <2>1. <<s, i>> \in presses_in(u) <=> i <= Len(u[s]) /\ pressing(u[s][i])
    BY DEF presses_in
  <2>2. <<s, i>> \in presses_in(st) <=> i <= Len(st[s]) /\ pressing(st[s][i])
    BY DEF presses_in
  <2>3. CASE s # c
    BY <2>1, <2>2, <2>3
  <2>4. CASE s = c
    <3>1. i <= Len(t) + 1 <=> i \in 1 .. Len(t) \/ i = Len(t) + 1
      BY <1>1
    <3>2. i <= Len(t) <=> i \in 1 .. Len(t)
      BY <1>1
    <3>3. i \in 1 .. Len(t) => i # Len(t) + 1
      BY <1>1
    <3> QED BY <1>2, <2>1, <2>2, <2>4, <3>1, <3>2, <3>3
  <2> QED BY <2>3, <2>4
<1>5. /\ presses_in(u) \subseteq Slots \X (1 .. BufCap + QueueCap)
      /\ presses_in(st) \subseteq Slots \X (1 .. BufCap + QueueCap)
      /\ Len(t) + 1 \in 1 .. BufCap + QueueCap
  BY <1>1 DEF presses_in
<1>6. pressing(e) => presses_in(u) = presses_in(st) \cup {new}
  BY <1>4, <1>5
<1>7. ~pressing(e) => presses_in(u) = presses_in(st)
  <2> SUFFICES ASSUME ~pressing(e), NEW x \in Slots \X (1 .. BufCap + QueueCap)
               PROVE  x \in presses_in(u) <=> x \in presses_in(st)
    BY <1>5
  <2>1. PICK s \in Slots, i \in 1 .. BufCap + QueueCap : x = <<s, i>>
    OBVIOUS
  <2> QED BY <1>4, <2>1
<1>8. Cardinality(presses_in(st) \cup {new}) = Cardinality(presses_in(st)) + 1
  BY <1>3, PressesFinite, FS_AddElement
<1>9. Cardinality(presses_in(st)) \in Nat
  BY PressesFinite
<1>10. CASE pressing(e)
  BY <1>6, <1>8, <1>10
<1>11. CASE ~pressing(e)
  BY <1>7, <1>9, <1>11
<1> QED
  BY <1>10, <1>11

\* A stream of which the first event is consumed.
LEMMA PressesTail ==
  ASSUME NEW st \in Rooms, NEW c \in Slots, st[c] # <<>>,
         NEW u, \A s \in Slots : s # c => u[s] = st[s], u[c] = Tail(st[c])
  PROVE  Cardinality(presses_in(u))
           = Cardinality(presses_in(st)) - IF pressing(st[c][1]) THEN 1 ELSE 0
<1> DEFINE t == st[c]
           first == <<c, 1>>
           A == presses_in(st) \ {first}
           B == presses_in(u)
           f == [x \in B |-> IF x[1] = c THEN <<c, x[2] + 1>> ELSE x]
<1>1. t \in Seq(Events) /\ Len(t) \in Nat /\ BufCap \in Nat /\ QueueCap \in Nat
      /\ Len(t) <= BufCap + QueueCap
  BY InputAssumption, LenProperties DEF Rooms
<1>2. /\ 1 \in 1 .. Len(t)
      /\ \A i \in 1 .. Len(u[c]) : i + 1 \in 1 .. Len(t) /\ u[c][i] = t[i + 1]
      /\ \A i \in 1 .. Len(t) : i # 1 => i - 1 \in 1 .. Len(u[c]) /\ u[c][i - 1] = t[i]
  BY <1>1, TailShift
<1>3. first \in presses_in(st) <=> pressing(t[1])
  BY <1>1, <1>2 DEF presses_in
<1>4. ASSUME NEW x \in B PROVE f[x] \in A
  <2>1. /\ x \in Slots \X (1 .. BufCap + QueueCap)
        /\ x[2] <= Len(u[x[1]]) /\ pressing(u[x[1]][x[2]])
    BY DEF presses_in
  <2>2. CASE x[1] = c
    <3>1. Len(u[c]) \in Nat
      BY <1>1, HeadTailProperties, LenProperties
    <3>2. x[2] \in 1 .. BufCap + QueueCap /\ x[2] <= Len(u[c]) /\ pressing(u[c][x[2]])
      BY <2>1, <2>2
    <3>3. x[2] \in 1 .. Len(u[c])
      BY <1>1, <3>1, <3>2
    <3>4. x[2] + 1 \in 1 .. Len(t) /\ pressing(t[x[2] + 1])
      BY <1>2, <3>2, <3>3
    <3>5. x[2] + 1 \in 1 .. BufCap + QueueCap /\ x[2] + 1 # 1
      BY <1>1, <3>2, <3>4
    <3> QED BY <2>2, <3>4, <3>5 DEF presses_in
  <2>3. CASE x[1] # c
    BY <2>1, <2>3 DEF presses_in
  <2> QED BY <2>2, <2>3
<1>5. ASSUME NEW x \in B, NEW y \in B, f[x] = f[y] PROVE x = y
  <2>1. x \in Slots \X (1 .. BufCap + QueueCap) /\ y \in Slots \X (1 .. BufCap + QueueCap)
    BY DEF presses_in
  <2>2. PICK x1 \in Slots, x2 \in 1 .. BufCap + QueueCap : x = <<x1, x2>>
    BY <2>1
  <2>3. PICK y1 \in Slots, y2 \in 1 .. BufCap + QueueCap : y = <<y1, y2>>
    BY <2>1
  <2>4. f[x] = <<x1, IF x1 = c THEN x2 + 1 ELSE x2>> /\ f[y] = <<y1, IF y1 = c THEN y2 + 1 ELSE y2>>
    BY <2>2, <2>3
  <2>5. x1 = y1 /\ (IF x1 = c THEN x2 + 1 ELSE x2) = (IF y1 = c THEN y2 + 1 ELSE y2)
    BY <1>5, <2>4
  <2>6. x2 = y2
    BY <2>2, <2>3, <2>5, <1>1
  <2> QED BY <2>2, <2>3, <2>5, <2>6
<1>6. ASSUME NEW y \in A PROVE \E x \in B : f[x] = y
  <2>1. /\ y \in Slots \X (1 .. BufCap + QueueCap) /\ y # first
        /\ y[2] <= Len(st[y[1]]) /\ pressing(st[y[1]][y[2]])
    BY DEF presses_in
  <2>2. PICK y1 \in Slots, y2 \in 1 .. BufCap + QueueCap : y = <<y1, y2>>
    BY <2>1
  <2>3. CASE y1 = c
    <3>1. y2 # 1 /\ y2 \in 1 .. Len(t)
      BY <1>1, <2>1, <2>2, <2>3
    <3>2. y2 - 1 \in 1 .. Len(u[c]) /\ u[c][y2 - 1] = t[y2] /\ pressing(t[y2])
      BY <1>2, <2>1, <2>2, <2>3, <3>1
    <3>3. y2 - 1 \in 1 .. BufCap + QueueCap /\ y2 - 1 <= Len(u[c]) /\ (y2 - 1) + 1 = y2
      BY <1>1, <3>1, <3>2
    <3>4. <<c, y2 - 1>> \in B
      BY <3>2, <3>3 DEF presses_in
    <3>5. f[<<c, y2 - 1>>] = <<c, (y2 - 1) + 1>>
      BY <3>4
    <3> QED BY <2>2, <2>3, <3>3, <3>4, <3>5
  <2>4. CASE y1 # c
    <3>1. y \in B
      BY <2>1, <2>2, <2>4 DEF presses_in
    <3>2. f[y] = y
      BY <2>2, <2>4, <3>1
    <3> QED BY <3>1, <3>2
  <2> QED BY <2>3, <2>4
<1>7. f \in Bijection(B, A)
  <2>1. f \in [B -> A]
    BY <1>4
  <2> HIDE DEF f, A, B
  <2> QED BY <1>5, <1>6, <2>1 DEF Bijection, Injection, Surjection, IsInjective
<1>8. ExistsBijection(B, A)
  BY <1>7 DEF ExistsBijection
<1>9. Cardinality(A) = Cardinality(B)
  BY <1>8, PressesFinite, FS_Bijection
<1>10. Cardinality(A) = IF first \in presses_in(st) THEN Cardinality(presses_in(st)) - 1
                        ELSE Cardinality(presses_in(st))
  BY PressesFinite, FS_RemoveElement
<1>11. Cardinality(presses_in(st)) \in Nat
  BY PressesFinite
<1> HIDE DEF A
<1> QED
  BY <1>3, <1>9, <1>10, <1>11

\* A change of one stream that leaves no press but old ones at their places.
LEMMA PressesLess ==
  ASSUME NEW st, NEW c \in Slots, NEW u,
         \A s \in Slots : s # c => u[s] = st[s],
         \A i \in 1 .. Len(u[c]) : pressing(u[c][i]) => i <= Len(st[c]) /\ u[c][i] = st[c][i],
         Len(u[c]) \in Nat
  PROVE  Cardinality(presses_in(u)) <= Cardinality(presses_in(st))
<1>1. presses_in(u) \subseteq presses_in(st)
  BY InputAssumption DEF presses_in
<1> QED
  BY <1>1, PressesFinite, FS_Subset

\* The streams fit into the buffer and the queue.
LEMMA StreamsType ==
  ASSUME TypeOK
  PROVE  /\ streams \in Rooms
         /\ \A s \in Slots : /\ streams[s] = partial[s] \o queue[s]
                             /\ Len(streams[s]) = Len(partial[s]) + Len(queue[s])
<1> SUFFICES ASSUME NEW s \in Slots
             PROVE  /\ partial[s] \o queue[s] \in Seq(Events)
                    /\ Len(partial[s] \o queue[s]) = Len(partial[s]) + Len(queue[s])
                    /\ Len(partial[s]) + Len(queue[s]) <= BufCap + QueueCap
  BY DEF streams, stream, Rooms
<1>1. /\ partial[s] \in Seq(Events) /\ queue[s] \in Seq(Events)
      /\ Len(partial[s]) <= BufCap /\ Len(queue[s]) <= QueueCap
  BY DEF TypeOK
<1>2. BufCap \in Nat /\ QueueCap \in Nat /\ Len(partial[s]) \in Nat /\ Len(queue[s]) \in Nat
  BY <1>1, DeviceTypes, LenProperties
<1>3. partial[s] \o queue[s] \in Seq(Events)
      /\ Len(partial[s] \o queue[s]) = Len(partial[s]) + Len(queue[s])
  BY <1>1, ConcatProperties
<1>4. Len(partial[s]) + Len(queue[s]) <= BufCap + QueueCap
  <2> DEFINE a == Len(partial[s])
             b == Len(queue[s])
  <2>1. a \in Nat /\ b \in Nat /\ a <= BufCap /\ b <= QueueCap /\ BufCap \in Nat /\ QueueCap \in Nat
    BY <1>1, <1>2
  <2> HIDE DEF a, b
  <2>2. a + b <= BufCap + QueueCap
    BY <2>1
  <2> QED BY <2>2 DEF a, b
<1> QED
  BY <1>3, <1>4

\* An event of a device puts SYN_DROPPED into a queue only when it overflows.
LEMMA LossDelivered ==
  ASSUME TypeOK, LossInv, NEW d \in Devices, NEW e \in Events, e # Dropped, Delivered(d, e)
  PROVE  LossInv'
<1> SUFFICES ASSUME ~lossy', NEW s \in Slots
             PROVE  ~Has(partial'[s] \o queue'[s], Dropped)
                    /\ source'[s].state # "DESYNC" /\ ~dead'[s]
  BY DEF LossInv, stream
<1>1. ~lossy /\ (listens(s, d) => Len(queue[s]) # QueueCap)
  BY DEF Delivered, Deliver
<1>2. UNCHANGED <<source, partial, dead>>
  BY DEF Delivered, input_vars
<1>3. ~Has(partial[s] \o queue[s], Dropped) /\ source[s].state # "DESYNC" /\ ~dead[s]
  BY <1>1 DEF LossInv, stream
<1>4. partial[s] \in Seq(Events) /\ queue[s] \in Seq(Events) /\ Len(queue[s]) <= QueueCap
  BY DEF TypeOK
<1>5. CASE ~listens(s, d)
  <2>1. queue'[s] = queue[s]
    BY <1>5, DeliveredTypes DEF Delivered
  <2> QED BY <1>2, <1>3, <2>1
<1>6. CASE listens(s, d)
  <2> DEFINE t == partial[s] \o queue[s]
  <2>1. queue'[s] = Append(queue[s], e)
    BY <1>1, <1>4, <1>6, DeliveredTypes, EnqueuedType DEF Delivered
  <2>2. partial'[s] \o queue'[s] = Append(t, e) /\ t \in Seq(Events)
    BY <1>2, <1>4, <2>1, StreamAppend, ConcatProperties
  <2>3. ~Has(t, Dropped)
    BY <1>3
  <2> HIDE DEF t
  <2>4. ~Has(Append(t, e), Dropped)
    <3> SUFFICES ASSUME NEW i \in 1 .. Len(Append(t, e)), Append(t, e)[i] = Dropped PROVE FALSE
      BY DEF Has
    <3>1. Len(Append(t, e)) = Len(t) + 1 /\ Len(t) \in Nat /\ Append(t, e)[Len(t) + 1] = e
          /\ \A j \in 1 .. Len(t) : Append(t, e)[j] = t[j]
      BY <2>2, AppendProperties, LenProperties
    <3>2. i # Len(t) + 1
      BY <3>1
    <3>3. i \in 1 .. Len(t)
      BY <3>1, <3>2
    <3> QED BY <2>3, <3>1, <3>3 DEF Has
  <2> QED BY <1>2, <1>3, <2>2, <2>4
<1> QED
  BY <1>5, <1>6

\* An event that is consumed puts a source into DESYNC only after an overflow.
LEMMA LossConsumed ==
  ASSUME TypeOK, SlotsInv, LossInv, PumpConsume
  PROVE  LossInv'
<1> DEFINE e == Head(partial[cur])
           p == partial[cur]
           q == queue[cur]
           t == p \o q
<1>1. PICK src \in cart_input_source :
        /\ source' = [source EXCEPT ![cur] = src]
        /\ \/ Disconnects(e, src) \/ Resyncs(e, src) \/ TakesKey(e, src)
           \/ Moves(e, src) \/ Ignores(e, src)
  BY Consumed
<1>2. /\ cur \in Slots /\ p # <<>> /\ p \in Seq(Events) /\ e \in Events
      /\ partial' = [partial EXCEPT ![cur] = Tail(p)]
  BY Consumed
<1>3. /\ source \in [Slots -> cart_input_source] /\ partial \in [Slots -> Seq(Events)]
      /\ queue \in [Slots -> Seq(Events)] /\ q \in Seq(Events)
  BY <1>2 DEF TypeOK
<1>4. dead' = dead
  BY DEF PumpConsume
<1>5. t \in Seq(Events) /\ t # <<>> /\ t[1] = e /\ Tail(p) \o q = Tail(t)
  BY <1>2, <1>3, ConcatProperties, StreamTail
<1> HIDE DEF e
<1>6. lossy => lossy'
  BY <1>1 DEF Disconnects, Resyncs, TakesKey, Moves, Ignores
<1> SUFFICES ASSUME ~lossy', NEW s \in Slots
             PROVE  ~Has(partial'[s] \o queue'[s], Dropped)
                    /\ source'[s].state # "DESYNC" /\ ~dead'[s]
  BY DEF LossInv, stream
<1>7. \A r \in Slots : ~Has(partial[r] \o queue[r], Dropped) /\ source[r].state # "DESYNC" /\ ~dead[r]
  BY <1>6 DEF LossInv, stream
<1>8. ~Has(t, Dropped) /\ e # Dropped
  <2>1. 1 \in 1 .. Len(t)
    BY <1>5, TailShift
  <2>2. ~Has(t, Dropped)
    BY <1>2, <1>7
  <2> QED BY <1>5, <2>1, <2>2 DEF Has
<1>9. e.type # "DROPPED" /\ source[cur].state # "DESYNC"
  BY <1>2, <1>7, <1>8, EventTypes
<1>10. queue' = queue /\ src.state # "DESYNC"
  BY <1>1, <1>9 DEF Disconnects, Resyncs, TakesKey, Moves, Ignores
<1> HIDE DEF t
<1>11. ~Has(Tail(t), Dropped)
  BY <1>5, <1>8, TailHas
<1>12. CASE s = cur
  <2>1. partial'[s] = Tail(p) /\ source'[s] = src
    BY <1>1, <1>2, <1>3, <1>12
  <2> QED BY <1>4, <1>5, <1>7, <1>10, <1>11, <1>12, <2>1
<1>13. CASE s # cur
  <2>1. partial'[s] = partial[s] /\ source'[s] = source[s]
    BY <1>1, <1>2, <1>3, <1>13
  <2> QED BY <1>4, <1>7, <1>10, <2>1
<1> QED
  BY <1>12, <1>13

\* Steps that change no stream.
LEMMA LossKept ==
  ASSUME LossInv, lossy' = lossy, source' = source, dead' = dead,
         \A s \in Slots : partial'[s] \o queue'[s] = partial[s] \o queue[s]
  PROVE  LossInv'
BY DEF LossInv, stream

\* A slot that the discovery fills has nothing lost.
LEMMA LossDiscovered ==
  ASSUME TypeOK, SlotsInv, LossInv, NEW before, NEW c \in SUBSET Devices,
         discover_pass(before, c), pc \in {"new", "idle"},
         \A s \in Slots : before[s] = source[s] \/ before[s] = reset_source,
         UNCHANGED <<partial, pos, lossy>>
  PROVE  LossInv'
<1>1. PICK C, node : Discovered(before, C, node)
  BY Discovery
<1> SUFFICES ASSUME ~lossy, NEW s \in Slots
             PROVE  ~Has(partial'[s] \o queue'[s], Dropped)
                    /\ source'[s].state # "DESYNC" /\ ~dead'[s]
  BY DEF LossInv, stream
<1>2. ~Has(partial[s] \o queue[s], Dropped) /\ source[s].state # "DESYNC" /\ ~dead[s]
  BY DEF LossInv, stream
<1>3. ~dead'[s]
  BY <1>1, <1>2 DEF Discovered
<1>4. CASE s \in C
  <2>1. source'[s] = connected(node[s]) /\ node[s] \in Devices /\ queue'[s] = <<>>
    BY <1>1, <1>4 DEF Discovered
  <2>2. source'[s].state = "CONNECTED"
    BY <2>1, Connected DEF TypeOK
  <2>3. partial'[s] = <<>>
    BY DEF SlotsInv
  <2>4. partial'[s] \o queue'[s] = <<>> /\ Len(<<>>) = 0
    BY <2>1, <2>3, EmptySeq, ConcatEmptySeq
  <2> QED BY <1>3, <2>2, <2>4 DEF Has
<1>5. CASE s \notin C
  <2>1. source'[s] = before[s] /\ queue'[s] = queue[s]
    BY <1>1, <1>5 DEF Discovered
  <2>2. source'[s].state # "DESYNC"
    BY <1>2, <2>1 DEF reset_source
  <2> QED BY <1>2, <1>3, <2>1, <2>2
<1> QED
  BY <1>4, <1>5

\* Every action keeps it: what can lose a press sets lossy.
LEMMA LossStep ==
  ASSUME TypeOK, SlotsInv, LossInv, [Next]_vars PROVE LossInv'
<1>1. ASSUME NEW d \in Devices, NEW v \in Positions, DeviceAbs(d, v)
      PROVE  LossInv'
  <2> DEFINE e == [type |-> "ABS", value |-> v]
  <2>1. Delivered(d, e)
    BY <1>1 DEF Delivered, DeviceAbs
  <2>2. e \in Events /\ e.type = "ABS"
    BY DEF Events
  <2> HIDE DEF e
  <2> QED BY <2>1, <2>2, EventTypes, LossDelivered
<1>2. ASSUME NEW d \in Devices, NEW k \in Keys, DeviceKey(d, k)
      PROVE  LossInv'
  <2> DEFINE e == [type |-> "KEY", key |-> k, value |-> IF k \in down[d] THEN 0 ELSE 1]
  <2>1. Delivered(d, e)
    BY <1>2 DEF Delivered, DeviceKey
  <2>2. e \in Events /\ e.type = "KEY"
    BY DEF Events
  <2> HIDE DEF e
  <2> QED BY <2>1, <2>2, EventTypes, LossDelivered
<1>3. ASSUME NEW d \in Devices, NEW k \in Keys, DeviceRepeat(d, k)
      PROVE  LossInv'
  <2> DEFINE e == [type |-> "KEY", key |-> k, value |-> 2]
  <2>1. Delivered(d, e)
    BY <1>3 DEF Delivered, DeviceRepeat
  <2>2. e \in Events /\ e.type = "KEY"
    BY DEF Events
  <2> HIDE DEF e
  <2> QED BY <2>1, <2>2, EventTypes, LossDelivered
<1>4. ASSUME NEW d \in Devices, DeviceReport(d)
      PROVE  LossInv'
  <2>1. Delivered(d, Report)
    BY <1>4 DEF Delivered, DeviceReport, bound_vars
  <2> QED BY <2>1, EventTypes, LossDelivered
<1>5. ASSUME NEW d \in Devices, DeviceRemoved(d)
      PROVE  LossInv'
  BY <1>5 DEF DeviceRemoved, LossInv
<1>6. ASSUME NEW d \in Devices, DevicePlugged(d)
      PROVE  LossInv'
  BY <1>6, LossKept DEF DevicePlugged, input_vars, ghost_vars
<1>7. CASE cart_input_init
  <2> DEFINE before == [s \in Slots |-> reset_source]
  <2>1. PICK c \in SUBSET Devices : discover_pass(before, c)
    BY <1>7 DEF cart_input_init, Found, TypeOK
  <2>2. \A s \in Slots : before[s] = source[s] \/ before[s] = reset_source
    OBVIOUS
  <2>3. UNCHANGED <<partial, pos, lossy>> /\ pc \in {"new", "idle"}
    BY <1>7 DEF cart_input_init, device_vars
  <2> HIDE DEF before
  <2> QED BY <2>1, <2>2, <2>3, LossDiscovered
<1>8. CASE cart_input_rescan
  <2>1. PICK c \in SUBSET Devices : discover_pass(source, c)
    BY <1>8 DEF cart_input_rescan, Found, TypeOK
  <2>2. \A s \in Slots : source[s] = source[s] \/ source[s] = reset_source
    OBVIOUS
  <2>3. UNCHANGED <<partial, pos, lossy>> /\ pc \in {"new", "idle"}
    BY <1>8 DEF cart_input_rescan, device_vars
  <2> QED BY <2>1, <2>2, <2>3, LossDiscovered
<1>9. CASE cart_input_shutdown
  <2>1. ASSUME NEW s \in Slots
        PROVE  source'[s].state = "ABSENT" /\ partial'[s] = <<>> /\ queue'[s] = <<>> /\ ~dead'[s]
    BY <1>9 DEF cart_input_shutdown, reset_source
  <2>2. ASSUME NEW s \in Slots PROVE ~Has(partial'[s] \o queue'[s], Dropped)
    <3>1. partial'[s] \o queue'[s] = <<>> /\ Len(<<>>) = 0
      BY <2>1, EmptySeq, ConcatEmptySeq
    <3> QED BY <3>1 DEF Has
  <2> QED BY <2>1, <2>2 DEF LossInv, stream
<1>10. CASE PollBegin
  BY <1>10, LossKept DEF PollBegin, ghost_vars
<1>11. CASE PollSkip
  BY <1>11, LossKept DEF PollSkip, input_vars, ghost_vars
<1>12. CASE PollEnter
  BY <1>12, LossKept DEF PollEnter, input_vars, ghost_vars
<1>13. CASE PumpConsume
  BY <1>13, LossConsumed
<1>14. CASE PumpRead
  BY <1>14, LossKept, ReadKeepsStreams DEF PumpRead, ghost_vars
<1>15. CASE PumpAgain
  BY <1>15, LossKept DEF PumpAgain, input_vars, ghost_vars
<1>16. CASE PumpHangup
  <2>1. dead[cur] /\ cur \in Slots /\ lossy' = lossy
    BY <1>16 DEF PumpHangup, SlotsInv, ghost_vars
  <2>2. lossy
    BY <2>1 DEF LossInv
  <2> QED BY <2>1, <2>2 DEF LossInv
<1>17. CASE PollEnd
  BY <1>17, LossKept DEF PollEnd
<1>18. CASE UNCHANGED vars
  BY <1>18, LossKept DEF vars, input_vars, ghost_vars
<1> QED
  BY <1>1, <1>2, <1>3, <1>4, <1>5, <1>6, <1>7, <1>8, <1>9, <1>10, <1>11, <1>12, <1>13, <1>14,
     <1>15, <1>16, <1>17, <1>18 DEF Next, Poll, Closed

\* The counters are natural numbers.
LEMMA CountTypes ==
  ASSUME TypeOK
  PROVE  /\ taken \in Nat /\ presses \in Nat /\ Len(pending) \in Nat /\ in_flight \in Nat
         /\ Pending \in Nat /\ Len(pending) <= Pending
<1>1. taken \in Nat /\ presses \in Nat /\ Len(pending) <= Pending
  BY DEF TypeOK
<1>2. Len(pending) \in Nat
  BY LenProperties DEF TypeOK
<1> QED
  BY <1>1, <1>2, PressesFinite, DeviceTypes DEF in_flight

\* Steps that change no stream.
LEMMA PressKept ==
  ASSUME PressInv, UNCHANGED <<taken, presses, pending, lossy>>, rescans_used' = rescans_used,
         pc' # "closed" => pc # "closed",
         \A s \in Slots : partial'[s] \o queue'[s] = partial[s] \o queue[s]
  PROVE  PressInv'
<1>1. streams' = streams
  BY DEF streams, stream
<1>2. in_flight' = in_flight
  BY <1>1 DEF in_flight, presses_in
<1> QED
  BY <1>2 DEF PressInv

\* A press goes into one queue at most and is counted as it does; when the queue
\* overflows, those before it are gone.
LEMMA PressDelivered ==
  ASSUME TypeOK, OrderInv, PressInv, NEW d \in Devices, NEW e \in Events, Delivered(d, e),
         presses' = presses + IF pressing(e) /\ heard(d) THEN 1 ELSE 0
  PROVE  PressInv'
<1> SUFFICES ASSUME rescans_used = 0, pc # "closed"
             PROVE  /\ taken + Len(pending) + in_flight' <= presses'
                    /\ ~lossy' => taken + Len(pending) + in_flight' = presses'
  BY DEF PressInv, Delivered, input_vars
<1>1. /\ taken + Len(pending) + in_flight <= presses
      /\ ~lossy => taken + Len(pending) + in_flight = presses
  BY DEF PressInv
<1>2. /\ taken \in Nat /\ presses \in Nat /\ Len(pending) \in Nat /\ in_flight \in Nat
  BY CountTypes
<1>3. lossy => lossy'
  BY DEF Delivered, Deliver
<1>4. partial' = partial /\ streams' = [s \in Slots |-> partial[s] \o queue'[s]]
  BY DEF Delivered, input_vars, streams, stream
<1>5. streams \in Rooms /\ \A s \in Slots : streams[s] = partial[s] \o queue[s]
      /\ Len(streams[s]) = Len(partial[s]) + Len(queue[s])
  BY StreamsType
<1>6. in_flight = Cardinality(presses_in(streams)) /\ in_flight' = Cardinality(presses_in(streams'))
  BY DEF in_flight, presses_in
<1>7. CASE ~heard(d)
  <2>1. \A s \in Slots : queue'[s] = queue[s]
    BY <1>7, DeliveredTypes DEF Delivered, heard
  <2>2. streams' = streams
    BY <1>4, <2>1 DEF streams, stream
  <2>3. in_flight' = in_flight
    BY <1>6, <2>2
  <2> QED BY <1>1, <1>2, <1>3, <1>7, <2>3
<1>8. CASE heard(d)
  <2>1. PICK c \in Slots : listens(c, d)
    BY <1>8 DEF heard
  <2>2. \A s \in Slots : s # c => ~listens(s, d)
    <3> SUFFICES ASSUME NEW s \in Slots, s # c, listens(s, d) PROVE FALSE
      OBVIOUS
    <3>1. source[s].node = d /\ source[c].node = d /\ d # NoNode
      BY <2>1, DeviceTypes DEF listens
    <3>2. s < c \/ c < s
      BY DeviceTypes
    <3> QED BY <3>1, <3>2 DEF OrderInv, slot_empty
  <2>3. \A s \in Slots : s # c => streams'[s] = streams[s]
    BY <1>4, <1>5, <2>2, DeliveredTypes DEF Delivered
  <2> DEFINE p == partial[c]
             q == queue[c]
             m == Len(p)
  <2>4. /\ p \in Seq(Events) /\ q \in Seq(Events) /\ Len(p) <= BufCap /\ Len(q) <= QueueCap
    BY DEF TypeOK
  <2>5. m \in Nat /\ Len(q) \in Nat /\ BufCap \in Nat /\ QueueCap \in Nat /\ QueueCap >= 3
    BY <2>4, LenProperties, DeviceTypes
  <2>6. queue'[c] = Enqueued(q, e)
    BY <2>1, DeliveredTypes DEF Delivered
  <2>7. CASE Len(q) # QueueCap
    <3>1. streams'[c] = Append(streams[c], e)
      <4>1. queue'[c] = Append(q, e)
        BY <2>4, <2>6, <2>7, EnqueuedType
      <4> QED BY <1>4, <1>5, <2>4, <4>1, StreamAppend
    <3>2. Len(streams[c]) < BufCap + QueueCap
      <4> DEFINE n == Len(q)
      <4>1. Len(streams[c]) = m + n /\ m <= BufCap /\ n <= QueueCap /\ n # QueueCap /\ n \in Nat
        BY <1>5, <2>4, <2>5, <2>7
      <4> HIDE DEF m, n
      <4> QED BY <2>5, <4>1
    <3>3. in_flight' = in_flight + IF pressing(e) THEN 1 ELSE 0
      BY <1>5, <1>6, <2>3, <3>1, <3>2, PressesAppend
    <3> QED BY <1>1, <1>2, <1>3, <1>8, <3>3
  <2>8. CASE Len(q) = QueueCap
    <3> DEFINE z == <<Dropped, e>>
               u == p \o z
               new == <<c, m + 2>>
    <3>1. streams'[c] = u
      <4>1. queue'[c] = z
        BY <2>4, <2>6, <2>8, EnqueuedType
      <4> QED BY <1>4, <4>1
    <3>2. lossy'
      BY <2>1, <2>8 DEF Delivered, Deliver
    <3>3. z \in Seq(Events) /\ Len(z) = 2 /\ z[1] = Dropped /\ z[2] = e
      BY EventTypes
    <3> HIDE DEF z
    <3>4. /\ Len(u) = m + 2 /\ u[m + 1] = Dropped /\ u[m + 2] = e
          /\ \A i \in 1 .. m : u[i] = p[i]
      <4>1. /\ Len(u) = m + 2
            /\ \A i \in 1 .. m + 2 : u[i] = IF i <= m THEN p[i] ELSE z[i - m]
        <5>1. Len(u) = Len(p) + Len(z)
              /\ \A i \in 1 .. Len(p) + Len(z) : u[i] = IF i <= Len(p) THEN p[i] ELSE z[i - Len(p)]
          BY <2>4, <3>3, ConcatProperties
        <5> HIDE DEF u
        <5> QED BY <3>3, <5>1
      <4>2. u[m + 1] = z[1] /\ u[m + 2] = z[2]
        BY <2>5, <4>1
      <4> QED BY <2>5, <3>3, <4>1, <4>2
    <3>5. /\ Len(streams[c]) = m + QueueCap
          /\ \A i \in 1 .. m : streams[c][i] = p[i]
      <4>1. \A i \in 1 .. m + Len(q) : (p \o q)[i] = IF i <= m THEN p[i] ELSE q[i - m]
        BY <2>4, ConcatProperties
      <4>2. streams[c] = p \o q /\ Len(streams[c]) = m + Len(q)
        BY <1>5
      <4>3. \A i \in 1 .. m : i \in 1 .. m + Len(q) /\ i <= m
        <5> DEFINE n == Len(q)
        <5>1. m \in Nat /\ n \in Nat
          BY <2>5
        <5> HIDE DEF m, n
        <5>2. \A i \in 1 .. m : i \in 1 .. m + n /\ i <= m
          BY <5>1
        <5> QED BY <5>2 DEF n
      <4>4. \A i \in 1 .. m : (p \o q)[i] = p[i]
        BY <4>1, <4>3
      <4> QED BY <2>8, <4>2, <4>4
    <3>6. ~pressing(Dropped)
      BY EventTypes DEF pressing
    <3> HIDE DEF u
    <3>7. presses_in(streams') \subseteq presses_in(streams) \cup {new}
      <4> SUFFICES ASSUME NEW x \in presses_in(streams'), x # new PROVE x \in presses_in(streams)
        OBVIOUS
      <4>1. /\ x \in Slots \X (1 .. BufCap + QueueCap)
            /\ x[2] <= Len(streams'[x[1]]) /\ pressing(streams'[x[1]][x[2]])
        BY DEF presses_in
      <4>2. CASE x[1] # c
        BY <2>3, <4>1, <4>2 DEF presses_in
      <4>3. CASE x[1] = c
        <5>1. x[2] \in 1 .. BufCap + QueueCap /\ x[2] <= m + 2 /\ pressing(u[x[2]]) /\ x[2] # m + 2
          BY <3>1, <3>4, <4>1, <4>3
        <5>2. x[2] # m + 1
          BY <3>4, <3>6, <5>1
        <5>3. x[2] \in 1 .. m
          BY <2>5, <5>1, <5>2
        <5>4. pressing(streams[c][x[2]]) /\ x[2] <= Len(streams[c])
          BY <2>5, <3>4, <3>5, <5>1, <5>3
        <5> QED BY <4>1, <4>3, <5>4 DEF presses_in
      <4> QED BY <4>2, <4>3
    <3>8. ~pressing(e) => new \notin presses_in(streams')
      <4>1. new[1] = c /\ new[2] = m + 2
        OBVIOUS
      <4> HIDE DEF new
      <4> QED BY <3>1, <3>4, <4>1 DEF presses_in
    <3>9. in_flight' <= in_flight + IF pressing(e) THEN 1 ELSE 0
      <4> DEFINE A == presses_in(streams)
                 B == presses_in(streams')
      <4>1. IsFiniteSet(A) /\ Cardinality(A) \in Nat /\ Cardinality(B) \in Nat
        BY PressesFinite
      <4> HIDE DEF A, B, new
      <4>2. B \subseteq A \cup {new} /\ (~pressing(e) => new \notin B)
        BY <3>7, <3>8 DEF A, B
      <4>3. IsFiniteSet(A \cup {new}) /\ Cardinality(A \cup {new}) <= Cardinality(A) + 1
            /\ Cardinality(A \cup {new}) \in Nat
        BY <4>1, FS_AddElement
      <4>4. Cardinality(B) <= Cardinality(A) + 1
        BY <4>1, <4>2, <4>3, FS_Subset
      <4>5. ~pressing(e) => Cardinality(B) <= Cardinality(A)
        <5>1. ~pressing(e) => B \subseteq A
          BY <4>2
        <5> QED BY <4>1, <5>1, FS_Subset
      <4>6. in_flight = Cardinality(A) /\ in_flight' = Cardinality(B)
        BY <1>6 DEF A, B
      <4> QED BY <4>1, <4>4, <4>5, <4>6
    <3>10. in_flight' \in Nat
      BY <1>6, PressesFinite
    <3> QED BY <1>1, <1>2, <1>8, <3>2, <3>9, <3>10
  <2> QED BY <2>7, <2>8
<1> QED
  BY <1>7, <1>8

\* A press that is consumed becomes a pending action, or is lost because the
\* actions pending are too many.
LEMMA PressConsumed ==
  ASSUME TypeOK, SlotsInv, LossInv, PressInv, PumpConsume
  PROVE  PressInv'
<1> DEFINE e == Head(partial[cur])
           p == partial[cur]
           q == queue[cur]
           t == p \o q
           v == [streams EXCEPT ![cur] = Tail(t)]
           n == Cardinality(presses_in(v))
<1>1. PICK src \in cart_input_source :
        /\ source' = [source EXCEPT ![cur] = src]
        /\ \/ Disconnects(e, src) \/ Resyncs(e, src) \/ TakesKey(e, src)
           \/ Moves(e, src) \/ Ignores(e, src)
  BY Consumed
<1>2. /\ cur \in Slots /\ p # <<>> /\ p \in Seq(Events) /\ e \in Events
      /\ partial' = [partial EXCEPT ![cur] = Tail(p)]
  BY Consumed
<1>3. /\ partial \in [Slots -> Seq(Events)] /\ queue \in [Slots -> Seq(Events)] /\ q \in Seq(Events)
  BY <1>2 DEF TypeOK
<1>4. t \in Seq(Events) /\ t # <<>> /\ t[1] = e /\ Tail(p) \o q = Tail(t)
  BY <1>2, <1>3, ConcatProperties, StreamTail
<1>5. streams \in Rooms /\ \A s \in Slots : streams[s] = partial[s] \o queue[s]
  BY StreamsType
<1>6. streams[cur] = t /\ v[cur] = Tail(t) /\ \A s \in Slots : s # cur => v[s] = streams[s]
  BY <1>2, <1>5 DEF Rooms
<1>7. UNCHANGED <<taken, presses, pc, rescans_used>> /\ pc = "pump"
  BY DEF PumpConsume, bound_vars
<1>8. /\ taken \in Nat /\ presses \in Nat /\ Len(pending) \in Nat /\ in_flight \in Nat
      /\ Pending \in Nat /\ Len(pending) <= Pending
  BY CountTypes
<1>9. in_flight = Cardinality(presses_in(streams)) /\ in_flight' = Cardinality(presses_in(streams'))
  BY DEF in_flight, presses_in
<1>10. streams' = [s \in Slots |-> partial'[s] \o queue'[s]]
  BY DEF streams, stream
<1> HIDE DEF e, t, v
<1>11. n = in_flight - IF pressing(e) THEN 1 ELSE 0
  BY <1>2, <1>4, <1>5, <1>6, <1>9, PressesTail
<1>12. n \in Nat
  BY PressesFinite
<1> HIDE DEF n
<1>13. queue' = queue => in_flight' = n
  <2> SUFFICES ASSUME queue' = queue PROVE in_flight' = n
    OBVIOUS
  <2>1. \A s \in Slots : s # cur => streams'[s] = v[s]
    BY <1>2, <1>3, <1>5, <1>6, <1>10
  <2>2. streams'[cur] = v[cur]
    BY <1>2, <1>3, <1>4, <1>6, <1>10
  <2>3. presses_in(streams') = presses_in(v)
    BY <2>1, <2>2 DEF presses_in
  <2> QED BY <1>9, <2>3 DEF n
<1>14. queue' = [queue EXCEPT ![cur] = flushed(q)] => in_flight' <= n
  <2> SUFFICES ASSUME queue' = [queue EXCEPT ![cur] = flushed(q)] PROVE in_flight' <= n
    OBVIOUS
  <2> DEFINE f == flushed(q)
             a == Tail(p)
             u == a \o f
             w == a \o q
  <2>1. \A s \in Slots : s # cur => streams'[s] = v[s]
    BY <1>2, <1>3, <1>5, <1>6, <1>10
  <2>2. streams'[cur] = u /\ v[cur] = w
    BY <1>2, <1>3, <1>4, <1>6, <1>10
  <2>3. f \in Seq(Events) /\ \A i \in 1 .. Len(f) : f[i].type # "KEY"
    BY <1>3, Flushed
  <2>4. a \in Seq(Events)
    BY <1>2, HeadTailProperties
  <2> HIDE DEF f, a
  <2>5. Len(a) \in Nat /\ Len(f) \in Nat /\ Len(q) \in Nat
    BY <1>3, <2>3, <2>4, LenProperties
  <2>6. /\ Len(u) = Len(a) + Len(f)
        /\ \A i \in 1 .. Len(a) + Len(f) : u[i] = IF i <= Len(a) THEN a[i] ELSE f[i - Len(a)]
    BY <2>3, <2>4, ConcatProperties
  <2>7. /\ Len(w) = Len(a) + Len(q)
        /\ \A i \in 1 .. Len(a) + Len(q) : w[i] = IF i <= Len(a) THEN a[i] ELSE q[i - Len(a)]
    BY <1>3, <2>4, ConcatProperties
  <2> HIDE DEF u, w, p, q
  <2>8. ASSUME NEW i \in 1 .. Len(u), pressing(u[i]) PROVE i <= Len(w) /\ u[i] = w[i]
    <3>1. i <= Len(a)
      <4> SUFFICES ASSUME ~(i <= Len(a)) PROVE FALSE
        OBVIOUS
      <4>1. u[i] = f[i - Len(a)] /\ i - Len(a) \in 1 .. Len(f)
        BY <2>5, <2>6
      <4> QED BY <2>3, <2>8, <4>1 DEF pressing
    <3>2. i \in 1 .. Len(a) + Len(q) /\ i \in 1 .. Len(a) + Len(f)
      BY <2>5, <2>6, <3>1
    <3> QED BY <2>5, <2>6, <2>7, <3>1, <3>2
  <2>9. Len(u) \in Nat
    BY <2>5, <2>6
  <2>10. Cardinality(presses_in(streams')) <= Cardinality(presses_in(v))
    BY <1>2, <2>1, <2>2, <2>8, <2>9, PressesLess
  <2> QED BY <1>9, <2>10 DEF n
<1>15. in_flight' \in Nat
  BY <1>9, PressesFinite
<1>16. source[cur].state = "DESYNC" \/ e.type = "DROPPED" => lossy
  <2>1. e.type = "DROPPED" => Has(t, Dropped)
    <3>1. 1 \in 1 .. Len(t)
      BY <1>4, TailShift
    <3> QED BY <1>2, <1>4, <3>1, EventTypes DEF Has
  <2>2. stream(cur) = t
    BY DEF stream, t
  <2> QED BY <1>2, <2>1, <2>2 DEF LossInv
<1>17. e.type # "KEY" => ~pressing(e)
  BY DEF pressing
<1> SUFFICES ASSUME rescans_used = 0
             PROVE  /\ taken + Len(pending') + in_flight' <= presses
                    /\ ~lossy' => taken + Len(pending') + in_flight' = presses
  BY <1>7 DEF PressInv
<1>18. /\ taken + Len(pending) + in_flight <= presses
       /\ ~lossy => taken + Len(pending) + in_flight = presses
  BY <1>7 DEF PressInv
<1>19. CASE Disconnects(e, src) \/ Moves(e, src)
  <2>1. in_flight' = in_flight /\ pending' = pending /\ lossy' = lossy
    BY <1>8, <1>11, <1>13, <1>17, <1>19 DEF Disconnects, Moves
  <2> QED BY <1>18, <2>1
<1>20. CASE Resyncs(e, src)
  <2>1. in_flight' <= n /\ ~pressing(e) /\ pending' = pending /\ lossy'
    BY <1>12, <1>13, <1>14, <1>16, <1>17, <1>20 DEF Resyncs
  <2> QED BY <1>8, <1>11, <1>15, <1>18, <2>1
<1>21. CASE TakesKey(e, src)
  <2>1. in_flight' = n /\ (pressing(e) <=> emits(e)) /\ pending' = enqueue_action(e)
    BY <1>13, <1>21 DEF TakesKey, pressing
  <2>2. lossy' <=> lossy \/ (emits(e) /\ Len(pending) = Pending)
    BY <1>21 DEF TakesKey
  <2>3. CASE emits(e) /\ Len(pending) < Pending
    <3>1. Len(pending') = Len(pending) + 1
      <4>1. pending \in Seq({KeyAction[k] : k \in Keys} \ {"NONE"})
        BY DEF TypeOK
      <4>2. e.key \in Keys /\ KeyAction[e.key] # "NONE"
        BY <1>2, <1>21, <2>3 DEF emits, Events, TakesKey
      <4>3. KeyAction[e.key] \in {KeyAction[k] : k \in Keys} \ {"NONE"}
        BY <4>2
      <4> QED BY <2>1, <2>3, <4>1, <4>3, AppendProperties DEF enqueue_action
    <3> QED BY <1>8, <1>11, <1>12, <1>18, <2>1, <2>3, <2>2, <3>1
  <2>4. CASE emits(e) /\ ~(Len(pending) < Pending)
    <3>1. pending' = pending /\ lossy'
      BY <1>8, <2>1, <2>4, <2>2 DEF enqueue_action
    <3> QED BY <1>8, <1>11, <1>12, <1>18, <2>1, <2>4, <3>1
  <2>5. CASE ~emits(e)
    <3>1. pending' = pending /\ (lossy' <=> lossy)
      BY <2>1, <2>5, <2>2 DEF enqueue_action
    <3> QED BY <1>8, <1>11, <1>12, <1>18, <2>1, <2>5, <3>1
  <2> QED BY <2>3, <2>4, <2>5
<1>22. CASE Ignores(e, src)
  <2>1. in_flight' = n /\ pending' = pending /\ lossy' = lossy
    BY <1>13, <1>22 DEF Ignores
  <2>2. CASE e.type = "REPORT"
    BY <1>8, <1>11, <1>17, <1>18, <2>1, <2>2
  <2>3. CASE source[cur].state = "DESYNC"
    BY <1>8, <1>11, <1>12, <1>16, <1>18, <2>1, <2>3
  <2> QED BY <1>22, <2>2, <2>3 DEF Ignores
<1> QED
  BY <1>1, <1>19, <1>20, <1>21, <1>22

\* Every action keeps the account of the presses.
LEMMA PressStep ==
  ASSUME TypeOK, SlotsInv, OrderInv, LossInv, PressInv, [Next]_vars PROVE PressInv'
<1>1. ASSUME NEW d \in Devices, NEW v \in Positions, DeviceAbs(d, v)
      PROVE  PressInv'
  <2> DEFINE e == [type |-> "ABS", value |-> v]
  <2>1. Delivered(d, e) /\ presses' = presses
    BY <1>1 DEF Delivered, DeviceAbs
  <2>2. e \in Events /\ e.type = "ABS"
    BY DEF Events
  <2> HIDE DEF e
  <2>3. ~pressing(e)
    BY <2>2 DEF pressing
  <2>4. presses' = presses + IF pressing(e) /\ heard(d) THEN 1 ELSE 0
    BY <2>1, <2>3, CountTypes
  <2> QED BY <2>1, <2>2, <2>4, PressDelivered
<1>2. ASSUME NEW d \in Devices, NEW k \in Keys, DeviceKey(d, k)
      PROVE  PressInv'
  <2> DEFINE e == [type |-> "KEY", key |-> k, value |-> IF k \in down[d] THEN 0 ELSE 1]
  <2>1. /\ Delivered(d, e)
        /\ presses' = presses + IF k \notin down[d] /\ KeyAction[k] # "NONE" /\ heard(d) THEN 1 ELSE 0
    BY <1>2 DEF Delivered, DeviceKey
  <2>2. e \in Events /\ e.type = "KEY" /\ e.key = k /\ e.value = IF k \in down[d] THEN 0 ELSE 1
    BY DEF Events
  <2> HIDE DEF e
  <2>3. pressing(e) <=> k \notin down[d] /\ KeyAction[k] # "NONE"
    BY <2>2 DEF pressing, emits
  <2>4. presses' = presses + IF pressing(e) /\ heard(d) THEN 1 ELSE 0
    BY <2>1, <2>3
  <2> QED BY <2>1, <2>2, <2>4, PressDelivered
<1>3. ASSUME NEW d \in Devices, NEW k \in Keys, DeviceRepeat(d, k)
      PROVE  PressInv'
  <2> DEFINE e == [type |-> "KEY", key |-> k, value |-> 2]
  <2>1. Delivered(d, e) /\ presses' = presses
    BY <1>3 DEF Delivered, DeviceRepeat
  <2>2. e \in Events /\ e.value = 2
    BY DEF Events
  <2> HIDE DEF e
  <2>3. ~pressing(e)
    BY <2>2 DEF pressing, emits
  <2>4. presses' = presses + IF pressing(e) /\ heard(d) THEN 1 ELSE 0
    BY <2>1, <2>3, CountTypes
  <2> QED BY <2>1, <2>2, <2>4, PressDelivered
<1>4. ASSUME NEW d \in Devices, DeviceReport(d)
      PROVE  PressInv'
  <2>1. Delivered(d, Report) /\ presses' = presses
    BY <1>4 DEF Delivered, DeviceReport, bound_vars
  <2>2. ~pressing(Report) /\ Report \in Events
    BY EventTypes DEF pressing
  <2>3. presses' = presses + IF pressing(Report) /\ heard(d) THEN 1 ELSE 0
    BY <2>1, <2>2, CountTypes
  <2> QED BY <2>1, <2>2, <2>3, PressDelivered
<1>5. ASSUME NEW d \in Devices, DeviceRemoved(d)
      PROVE  PressInv'
  <2>1. UNCHANGED <<taken, presses, pending, partial, queue, pc, rescans_used>> /\ lossy'
    BY <1>5 DEF DeviceRemoved, input_vars
  <2>2. in_flight' = in_flight
    BY <2>1 DEF in_flight, presses_in, streams, stream
  <2> QED BY <2>1, <2>2 DEF PressInv
<1>6. ASSUME NEW d \in Devices, DevicePlugged(d)
      PROVE  PressInv'
  BY <1>6, PressKept DEF DevicePlugged, input_vars, ghost_vars, bound_vars
<1>7. CASE cart_input_init
  <2> DEFINE before == [s \in Slots |-> reset_source]
  <2>1. PICK c \in SUBSET Devices : discover_pass(before, c)
    BY <1>7 DEF cart_input_init, Found, TypeOK
  <2> HIDE DEF before
  <2>2. PICK C, node : Discovered(before, C, node)
    BY <2>1, Discovery
  <2>3. UNCHANGED <<taken, presses, pending, partial, lossy, rescans_used>> /\ pc = "new"
    BY <1>7 DEF cart_input_init, bound_vars
  <2>4. \A s \in Slots : queue'[s] = queue[s]
    BY <2>2, <2>3 DEF SlotsInv, Discovered
  <2> QED BY <2>3, <2>4, PressKept
<1>8. CASE cart_input_rescan
  <2>1. rescans_used' # 0
    BY <1>8 DEF cart_input_rescan, SlotsInv
  <2> QED BY <2>1 DEF PressInv
<1>9. CASE cart_input_shutdown
  BY <1>9 DEF cart_input_shutdown, PressInv
<1>10. CASE PollBegin
  BY <1>10, PressKept DEF PollBegin, ghost_vars, bound_vars
<1>11. CASE PollSkip
  BY <1>11, PressKept DEF PollSkip, input_vars, ghost_vars, bound_vars
<1>12. CASE PollEnter
  BY <1>12, PressKept DEF PollEnter, input_vars, ghost_vars, bound_vars
<1>13. CASE PumpConsume
  BY <1>13, PressConsumed
<1>14. CASE PumpRead
  BY <1>14, PressKept, ReadKeepsStreams DEF PumpRead, ghost_vars, bound_vars
<1>15. CASE PumpAgain
  BY <1>15, PressKept DEF PumpAgain, input_vars, ghost_vars, bound_vars
<1>16. CASE PumpHangup
  <2>1. /\ dead[cur] /\ cur \in Slots /\ pc = "pump"
        /\ UNCHANGED <<taken, presses, pending, lossy, rescans_used>>
    BY <1>16 DEF PumpHangup, SlotsInv, ghost_vars, bound_vars
  <2>2. lossy
    BY <2>1 DEF LossInv
  <2>3. \A s \in Slots : s # cur => partial'[s] = partial[s] /\ queue'[s] = queue[s]
    BY <1>16 DEF PumpHangup, TypeOK
  <2>4. partial'[cur] = <<>> /\ queue'[cur] = <<>>
    BY <1>16, <2>1 DEF PumpHangup, TypeOK
  <2>5. \A s \in Slots : streams[s] = partial[s] \o queue[s] /\ streams'[s] = partial'[s] \o queue'[s]
    BY DEF streams, stream
  <2>6. streams'[cur] = <<>> /\ Len(<<>>) = 0
    BY <2>1, <2>4, <2>5, EmptySeq, ConcatEmptySeq
  <2>7. \A s \in Slots : s # cur => streams'[s] = streams[s]
    BY <2>3, <2>5
  <2>8. Cardinality(presses_in(streams')) <= Cardinality(presses_in(streams))
    BY <2>1, <2>6, <2>7, PressesLess
  <2>9. in_flight' <= in_flight /\ in_flight' \in Nat
    BY <2>8, PressesFinite DEF in_flight, presses_in
  <2> QED BY <2>1, <2>2, <2>9, CountTypes DEF PressInv
<1>17. CASE PollEnd
  <2>1. UNCHANGED <<partial, queue, presses, lossy, rescans_used>> /\ pc = "walk"
    BY <1>17 DEF PollEnd, bound_vars
  <2>2. in_flight' = in_flight
    BY <2>1 DEF in_flight, presses_in, streams, stream
  <2>3. CASE pending = <<>>
    BY <1>17, <2>1, <2>3, PressKept DEF PollEnd
  <2>4. CASE pending # <<>>
    <3>1. pending' = Tail(pending) /\ taken' = taken + 1
      BY <1>17, <2>4 DEF PollEnd
    <3>2. Len(pending') = Len(pending) - 1
      BY <2>4, <3>1, HeadTailProperties DEF TypeOK
    <3>3. taken' + Len(pending') = taken + Len(pending)
      <4> DEFINE m == Len(pending)
      <4>1. taken \in Nat /\ m \in Nat
        BY CountTypes
      <4>2. Len(pending') = m - 1
        BY <3>2
      <4> HIDE DEF m
      <4>3. (taken + 1) + (m - 1) = taken + m
        BY <4>1
      <4> QED BY <3>1, <4>2, <4>3 DEF m
    <3> QED BY <2>1, <2>2, <3>3, CountTypes DEF PressInv
  <2> QED BY <2>3, <2>4
<1>18. CASE UNCHANGED vars
  BY <1>18, PressKept DEF vars, input_vars, ghost_vars, bound_vars
<1> QED
  BY <1>1, <1>2, <1>3, <1>4, <1>5, <1>6, <1>7, <1>8, <1>9, <1>10, <1>11, <1>12, <1>13, <1>14,
     <1>15, <1>16, <1>17, <1>18 DEF Next, Poll, Closed

----------------------------------------------------------------------------
(* The invariant *)

\* Before the discovery there is nothing in any slot.
LEMMA InputInit ==
  ASSUME Init PROVE InputInv
<1>1. TypeOK /\ SlotsInv
  BY TypeInit
<1>2. \A s \in Slots : source[s].node = NoNode /\ source[s].state = "ABSENT"
  BY DEF Init, reset_source
<1>3. \A s \in Slots : partial[s] = <<>> /\ queue[s] = <<>> /\ ~dead[s]
  BY DEF Init
<1>4. \A s \in Slots : partial[s] \o queue[s] = <<>> /\ Len(<<>>) = 0
  BY <1>3, EmptySeq, ConcatEmptySeq
<1>5. DesyncInv
  BY <1>2, <1>3, <1>4 DEF DesyncInv, Recovers
<1>6. TruthInv
  BY <1>2 DEF TruthInv, KeysAt, AxisAt, slot_empty
<1>7. OrderInv
  BY <1>2 DEF OrderInv, slot_empty
<1>8. LossInv
  <2>1. ~Has(<<>>, Dropped)
    BY EmptySeq DEF Has
  <2>2. \A s \in Slots : stream(s) = <<>>
    BY <1>4 DEF stream
  <2> QED BY <1>2, <1>3, <2>1, <2>2 DEF LossInv
<1>9. PressInv
  <2>1. presses_in(streams) = {}
    <3>1. \A s \in Slots : streams[s] = <<>>
      BY <1>4 DEF streams, stream
    <3> QED BY <1>4, <3>1 DEF presses_in
  <2>2. in_flight = 0
    BY <2>1, FS_EmptySet DEF in_flight
  <2>3. Len(pending) = 0 /\ taken = 0 /\ presses = 0
    BY EmptySeq DEF Init
  <2> QED BY <2>2, <2>3 DEF PressInv
<1> QED
  BY <1>1, <1>5, <1>6, <1>7, <1>8, <1>9 DEF InputInv

\* The inductive invariant of cart/src/input_evdev.c: it holds initially and is
\* preserved by discovery, by the poll and by everything the devices do.
THEOREM InputInvariant == Spec => []InputInv
<1>1. Init => InputInv
  BY InputInit
<1>2. InputInv /\ [Next]_vars => InputInv'
  <2> SUFFICES ASSUME InputInv, [Next]_vars PROVE InputInv'
    OBVIOUS
  <2>1. TypeOK /\ SlotsInv /\ DesyncInv /\ TruthInv /\ OrderInv /\ LossInv /\ PressInv
    BY DEF InputInv
  <2>2. TypeOK' /\ SlotsInv'
    BY <2>1, TypeStep
  <2>3. DesyncInv'
    BY <2>1, DesyncStep
  <2>4. TruthInv'
    BY <2>1, TruthStep
  <2>5. OrderInv'
    BY <2>1, OrderStep
  <2>6. LossInv' /\ PressInv'
    BY <2>1, LossStep, PressStep
  <2> QED BY <2>2, <2>3, <2>4, <2>5, <2>6 DEF InputInv
<1> QED
  BY <1>1, <1>2, PTL DEF Spec

----------------------------------------------------------------------------
(* What the invariant says *)

\* A slot without events, once the poll is over, is connected.
LEMMA Settled ==
  ASSUME InputInv, pc = "idle", NEW s \in Slots, ~slot_empty(s), queue[s] = <<>>, partial[s] = <<>>
  PROVE  source[s].state = "CONNECTED" /\ stream(s) = <<>> /\ Len(stream(s)) = 0
<1>1. source[s].state \in {"CONNECTED", "DESYNC"}
  BY DEF InputInv, TypeOK, cart_input_source
<1>2. source[s].state # "DESYNC"
  BY DEF InputInv, DesyncInv, Relapsed
<1>3. stream(s) = <<>> /\ Len(<<>>) = 0
  BY EmptySeq, ConcatEmptySeq DEF stream
<1> QED
  BY <1>1, <1>2, <1>3

\* Every slot of the table, its buffer, the queue of its descriptor and the
\* pending actions keep their types and bounds; a slot is ABSENT exactly when it
\* has no descriptor.
THEOREM InputTypes == Spec => []TypeOK
<1>1. InputInv => TypeOK
  BY DEF InputInv
<1> QED
  BY <1>1, InputInvariant, PTL

\* For any number of devices and slots and any size of the buffers: after a poll
\* a source is in DESYNC only if its queue overflowed a second time during it.
THEOREM DesyncRelapses == Spec => []DesyncOnlyAfterRelapse
<1>1. InputInv => DesyncOnlyAfterRelapse
  BY DEF InputInv, DesyncInv, Relapsed, DesyncOnlyAfterRelapse
<1> QED
  BY <1>1, InputInvariant, PTL

\* For any devices and any overflows, unplugging and rescans: once a slot is read
\* empty, held_keys is what is down on the device, but for a resync that raced
\* with the buffer and for keys held when the node was opened.
THEOREM HeldKeysTrue == Spec => []HeldIsTheTruth
<1>1. InputInv => HeldIsTheTruth
  <2> SUFFICES ASSUME InputInv, pc = "idle", NEW s \in Slots, ~slot_empty(s), drained(s), s \notin raced
               PROVE  /\ source[s].held \subseteq down[source[s].node] \cap LowKeys
                      /\ (down[source[s].node] \cap LowKeys) \ early[s] \subseteq source[s].held
    BY DEF HeldIsTheTruth
  <2>1. source[s].state = "CONNECTED" /\ stream(s) = <<>> /\ Len(stream(s)) = 0 /\ ~dead[s]
    BY Settled DEF drained
  <2>2. source[s].held \subseteq LowKeys
    BY DEF InputInv, TypeOK, cart_input_source
  <2>3. ~Has(stream(s), Dropped)
    BY <2>1 DEF Has
  <2>4. KeysMatch(stream(s), source[s].held, down[source[s].node], early[s])
    BY <2>1, <2>3 DEF InputInv, TruthInv, KeysAt
  <2>5. \A k \in LowKeys : /\ k \in source[s].held => k \in down[source[s].node]
                           /\ k \in down[source[s].node] => k \in source[s].held \/ k \in early[s]
    BY <2>1, <2>4 DEF KeysMatch
  <2> QED BY <2>2, <2>5
<1> QED
  BY <1>1, InputInvariant, PTL

\* For any devices: the axis of a frame is where the stick of its owner is once
\* the owner is read empty, and the owner is of the highest rank.
THEOREM FrameAxisTrue == Spec => []FrameFollowsStick
<1>1. InputInv => FrameFollowsStick
  <2> DEFINE owner == Min(claiming)
             node  == source[owner].node
  <2> SUFFICES ASSUME InputInv, pc = "idle", claiming # {}
               PROVE  /\ drained(owner) =>
                           normalized(owner) = cart_input_axis_normalize(pos[node], source[owner].axis)
                      /\ rescans_used = 0 => \A s \in claiming : Rank[source[s].node] <= Rank[node]
    BY DEF FrameFollowsStick, build_frame
  <2>1. claiming \in SUBSET (0 .. MaxSources) /\ claiming \subseteq Slots /\ MaxSources \in Nat
    BY DeviceTypes DEF claiming, present, Slots
  <2>2. owner \in claiming /\ \A s \in claiming : owner <= s
    BY <2>1, Extremes
  <2> HIDE DEF owner
  <2>3. \A s \in claiming : ~slot_empty(s) /\ source[s].axis_valid
    BY DEF InputInv, TypeOK, claiming, present
  <2>4. drained(owner) => normalized(owner) = cart_input_axis_normalize(pos[node], source[owner].axis)
    <3> SUFFICES ASSUME drained(owner) PROVE source[owner].raw = pos[node]
      BY DEF normalized
    <3>1. source[owner].state = "CONNECTED" /\ stream(owner) = <<>> /\ Len(stream(owner)) = 0
          /\ ~dead[owner]
      BY <2>1, <2>2, <2>3, Settled DEF drained
    <3>2. AxisMatch(stream(owner), source[owner].raw, pos[node])
      BY <2>1, <2>2, <2>3, <3>1 DEF InputInv, TruthInv, AxisAt
    <3> QED BY <3>1, <3>2 DEF AxisMatch
  <2>5. ASSUME rescans_used = 0, NEW s \in claiming PROVE Rank[source[s].node] <= Rank[node]
    <3>1. CASE s = owner
      <4>1. node \in Devices
        BY <2>1, <2>2, <2>3 DEF InputInv, TypeOK, cart_input_source, slot_empty
      <4> QED BY <3>1, <4>1, DeviceTypes
    <3>2. CASE s # owner
      <4>1. owner < s
        BY <2>1, <2>2, <3>2, DeviceTypes
      <4>2. Rank[node] >= Rank[source[s].node]
        BY <2>1, <2>2, <2>3, <2>5, <4>1 DEF InputInv, OrderInv
      <4>3. node \in Devices /\ source[s].node \in Devices
        BY <2>1, <2>2, <2>3 DEF InputInv, TypeOK, cart_input_source, slot_empty
      <4> QED BY <4>2, <4>3, DeviceTypes
    <3> QED BY <3>1, <3>2
  <2> QED BY <2>4, <2>5
<1> QED
  BY <1>1, InputInvariant, PTL

\* For any devices: no press gives two actions, and once everything is read and
\* nothing was lost each press has given its one action.
THEOREM PressesCounted == Spec => []EveryPressOnce
<1>1. InputInv => EveryPressOnce
  <2> SUFFICES ASSUME InputInv PROVE EveryPressOnce
    OBVIOUS
  <2>1. TypeOK /\ SlotsInv /\ PressInv
    BY DEF InputInv
  <2>2. taken \in Nat /\ presses \in Nat /\ Len(pending) \in Nat /\ in_flight \in Nat
    BY <2>1, CountTypes
  <2>3. rescans_used = 0 /\ pc # "closed" => taken + Len(pending) <= presses
    BY <2>1, <2>2 DEF PressInv
  <2>4. ASSUME lossless, pc = "idle", \A s \in Slots : slot_empty(s) \/ drained(s)
        PROVE  taken + Len(pending) = presses
    <3>1. \A s \in Slots : partial[s] = <<>> /\ queue[s] = <<>>
      BY <2>1, <2>4 DEF SlotsInv, drained
    <3>2. \A s \in Slots : streams[s] = <<>> /\ Len(<<>>) = 0
      BY <3>1, EmptySeq, ConcatEmptySeq DEF streams, stream
    <3>3. presses_in(streams) = {}
      BY <3>2 DEF presses_in
    <3>4. in_flight = 0
      BY <3>3, FS_EmptySet DEF in_flight
    <3> QED BY <2>1, <2>2, <2>4, <3>4 DEF PressInv, lossless
  <2> QED BY <2>3, <2>4 DEF EveryPressOnce
<1> QED
  BY <1>1, InputInvariant, PTL
=============================================================================
