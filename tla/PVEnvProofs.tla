----------------------------- MODULE PVEnvProofs -----------------------------
(***************************************************************************)
(* The principal variation environment never loses a line or a cell, never *)
(* uses one twice, and never runs past the end of a stack, whatever the    *)
(* sizes of the pools, the depth of the search and the outcomes of its     *)
(* comparisons; its counters agree with its stacks, and the table of game  *)
(* positions with the cells, at every step of every deletion.              *)
(***************************************************************************)
EXTENDS PVEnv, FiniteSetTheorems, SequenceTheorems, TLAPS

-----------------------------------------------------------------------------
(***************************************************************************)
(* What Pop and Push do to the set of free objects of a pool, for pools of *)
(* every size.  PushReturns holds because of a counting argument: when an  *)
(* object is in use the head is not at the bottom of the stack, so the     *)
(* slot below it exists.                                                   *)
(***************************************************************************)

(* pve_new leaves a pool in good order, with every object free. *)
LEMMA NewPoolOK ==
  ASSUME NEW n \in Nat \ {0}
  PROVE  /\ PoolOK(NewPool(n)) /\ UsedHalfIsNull(NewPool(n))
         /\ NewPool(n).size = n /\ NewPool(n).head = 0
         /\ FreeObjects(NewPool(n)) = 0 .. n - 1
  BY DEF PoolOK, PoolType, NewPool, UsedHalfIsNull, FreeObjects, Objects

(* A record with the fields of a pool. *)
LEMMA TakenFields ==
  ASSUME NEW p, PoolOK(p)
  PROVE  /\ Taken(p).size = p.size
         /\ Taken(p).head = p.head + 1
         /\ Taken(p).segments = p.segments
         /\ Taken(p).max_usage \in Nat
         /\ Taken(p).head <= Taken(p).max_usage
         /\ Taken(p).stack = [p.stack EXCEPT ![p.head] = NULL]
         /\ Taken(p) \in [ size : Nat \ {0}, head : Nat, segments : Nat, max_usage : Nat,
                           stack : [0 .. p.size - 1 -> Objects(p) \cup {NULL}] ]
  <1>1. /\ p \in [ size : Nat \ {0}, head : Nat, segments : Nat, max_usage : Nat,
                   stack : [0 .. p.size - 1 -> Objects(p) \cup {NULL}] ]
        /\ p.head <= p.max_usage
    BY DEF PoolOK, PoolType
  <1>2. [p.stack EXCEPT ![p.head] = NULL] \in [0 .. p.size - 1 -> Objects(p) \cup {NULL}]
    BY <1>1
  <1>3. /\ p.head + 1 \in Nat
        /\ p.head + 1 > p.max_usage => p.max_usage + 1 \in Nat /\ p.head + 1 <= p.max_usage + 1
        /\ ~(p.head + 1 > p.max_usage) => p.head + 1 <= p.max_usage
    BY <1>1
  <1>4. QED
    BY <1>1, <1>2, <1>3 DEF Taken

(* Pop hands out a free object.  It is not free any more; the objects that *)
(* become free are the ones of a new segment.                              *)
THEOREM PopTakes ==
  ASSUME NEW p, PoolOK(p)
  PROVE  /\ PoolOK(Pop(p))
         /\ Top(p) \in FreeObjects(p)
         /\ Top(p) \in Objects(p)
         /\ Pop(p).head = p.head + 1
         /\ Pop(p).size \in {p.size, 2 * p.size}
         /\ FreeObjects(Pop(p)) =
              (FreeObjects(p) \ {Top(p)}) \cup (p.size .. Pop(p).size - 1)
         /\ UsedHalfIsNull(p) => UsedHalfIsNull(Pop(p))
  <1> USE NullAssumption
  <1>1. /\ p.size \in Nat \ {0} /\ p.head \in Nat /\ p.head < p.size
        /\ p.stack \in [0 .. p.size - 1 -> Objects(p) \cup {NULL}]
        /\ \A i \in p.head .. p.size - 1 : p.stack[i] \in Objects(p)
        /\ \A i, j \in p.head .. p.size - 1 : p.stack[i] = p.stack[j] => i = j
    BY DEF PoolOK, PoolType
  <1>2. Top(p) \in FreeObjects(p) /\ Top(p) \in Objects(p)
    BY <1>1 DEF Top, FreeObjects
  <1> DEFINE t == Taken(p)
             d == Double(t)
  <1>3. /\ t.size = p.size /\ t.head = p.head + 1 /\ t.segments = p.segments
        /\ t.max_usage \in Nat /\ t.head <= t.max_usage
        /\ t.stack = [p.stack EXCEPT ![p.head] = NULL]
        /\ t \in [ size : Nat \ {0}, head : Nat, segments : Nat, max_usage : Nat,
                   stack : [0 .. p.size - 1 -> Objects(p) \cup {NULL}] ]
    BY TakenFields
  <1>4. /\ d.size = 2 * p.size /\ d.head = p.head + 1
        /\ d.segments = p.segments + 1 /\ d.max_usage = t.max_usage
        /\ d.stack = [i \in 0 .. 2 * p.size - 1 |-> IF i < p.size THEN NULL ELSE i]
        /\ d \in [ size : {2 * p.size}, head : {p.head + 1}, segments : {p.segments + 1},
                   max_usage : {t.max_usage}, stack : {d.stack} ]
    BY <1>3 DEF Double
  <1>5. Pop(p) = IF p.head + 1 = p.size THEN d ELSE t
    BY DEF Pop
  <1> HIDE DEF t, d
  <1>6. CASE p.head + 1 # p.size
    <2>1. PoolType(t)
      BY <1>3 DEF PoolType, Objects
    <2>2. \A i \in t.head .. t.size - 1 :
            /\ i \in p.head .. p.size - 1 /\ i # p.head
            /\ t.stack[i] = p.stack[i]
      BY <1>1, <1>3
    <2>3. PoolOK(t)
      BY <1>1, <1>3, <1>6, <2>1, <2>2 DEF PoolOK, Objects
    <2>4. FreeObjects(t) = FreeObjects(p) \ {Top(p)}
      <3>1. \A y \in FreeObjects(t) : y \in FreeObjects(p) /\ y # Top(p)
        BY <1>1, <2>2 DEF FreeObjects, Top
      <3>2. ASSUME NEW i \in p.head .. p.size - 1, p.stack[i] # Top(p)
            PROVE  p.stack[i] \in FreeObjects(t)
        <4>1. i \in t.head .. t.size - 1
          BY <1>1, <1>3, <3>2 DEF Top
        <4>2. QED
          BY <2>2, <4>1 DEF FreeObjects
      <3>3. QED
        BY <3>1, <3>2 DEF FreeObjects
    <2>5. ASSUME UsedHalfIsNull(p) PROVE UsedHalfIsNull(t)
      <3>1. ASSUME NEW i \in 0 .. t.head - 1 PROVE t.stack[i] = NULL
        <4>1. i = p.head \/ i \in 0 .. p.head - 1
          BY <1>1, <1>3
        <4>2. QED
          BY <1>1, <1>3, <2>5, <4>1, SMTT(30) DEF UsedHalfIsNull
      <3>2. QED
        BY <3>1 DEF UsedHalfIsNull
    <2>6. p.size .. t.size - 1 = {}
      BY <1>1, <1>3
    <2>7. Pop(p) = t
      BY <1>5, <1>6
    <2>8. QED
      BY <1>2, <1>3, <2>3, <2>4, <2>5, <2>6, <2>7
  <1>7. CASE p.head + 1 = p.size
    <2>1. PoolType(d)
      <3>1. p.segments + 1 \in Nat
        BY DEF PoolOK, PoolType
      <3>2. d.stack \in [0 .. d.size - 1 -> 0 .. d.size - 1 \cup {NULL}]
        BY <1>1, <1>4
      <3>3. QED
        BY <1>1, <1>3, <1>4, <3>1, <3>2, SMTT(30) DEF PoolType, Objects
    <2>2. \A i \in d.head .. d.size - 1 : d.stack[i] = i /\ i \in 0 .. d.size - 1
      BY <1>1, <1>4, <1>7
    <2>3. PoolOK(d)
      <3>1. d.head < d.size /\ d.head <= d.max_usage
        BY <1>1, <1>3, <1>4, <1>7
      <3>2. QED
        BY <2>1, <2>2, <3>1 DEF PoolOK, Objects
    <2>4. FreeObjects(d) = p.size .. d.size - 1
      <3>1. d.head = p.size
        BY <1>4, <1>7
      <3>2. QED
        BY <2>2, <3>1 DEF FreeObjects
    <2>5. FreeObjects(p) = {Top(p)}
      <3>1. p.head .. p.size - 1 = {p.head}
        BY <1>1, <1>7
      <3>2. QED
        BY <3>1 DEF FreeObjects, Top
    <2>6. UsedHalfIsNull(d)
      BY <1>1, <1>4, <1>7 DEF UsedHalfIsNull
    <2>7. Pop(p) = d
      BY <1>5, <1>7
    <2>8. QED
      BY <1>2, <1>4, <2>3, <2>4, <2>5, <2>6, <2>7
  <1>8. QED
    BY <1>6, <1>7

(* An injection into a smaller finite set does not exist. *)
LEMMA NoInjection ==
  ASSUME NEW S, IsFiniteSet(S), NEW T, IsFiniteSet(T),
         Cardinality(T) < Cardinality(S), NEW f \in [S -> T],
         \A x, y \in S : f[x] = f[y] => x = y
  PROVE  FALSE
  <1>1. \E x, y \in S : x # y /\ f[x] = f[y]
    BY FS_PigeonHole
  <1>2. QED
    BY <1>1

(* An injective map of a finite set to itself misses no element. *)
LEMMA InjectionCovers ==
  ASSUME NEW S, IsFiniteSet(S), NEW x \in S, NEW f \in [S -> S],
         \A i, j \in S : f[i] = f[j] => i = j
  PROVE  \E i \in S : f[i] = x
  <1> SUFFICES ASSUME \A i \in S : f[i] # x PROVE FALSE
    OBVIOUS
  <1> DEFINE T == S \ {x}
  <1>1. IsFiniteSet(T) /\ Cardinality(T) = Cardinality(S) - 1
    BY FS_RemoveElement, Zenon
  <1>2. Cardinality(T) < Cardinality(S)
    BY <1>1, FS_CardinalityType
  <1>3. f \in [S -> T]
    OBVIOUS
  <1> HIDE DEF T
  <1>4. QED
    BY <1>1, <1>2, <1>3, NoInjection, Zenon

(* An object in use leaves a slot below the head: the free objects are     *)
(* then fewer than the slots of the stack.                                 *)
LEMMA UsedMeansHeadPositive ==
  ASSUME NEW p, PoolOK(p), NEW x \in Objects(p), x \notin FreeObjects(p)
  PROVE  p.head > 0
  <1> SUFFICES ASSUME p.head = 0 PROVE FALSE
    BY DEF PoolOK, PoolType
  <1>1. /\ p.size \in Nat \ {0}
        /\ p.stack \in [0 .. p.size - 1 -> 0 .. p.size - 1]
        /\ \A i, j \in 0 .. p.size - 1 : p.stack[i] = p.stack[j] => i = j
        /\ x \in 0 .. p.size - 1
    BY DEF PoolOK, PoolType, Objects
  <1> DEFINE S == 0 .. p.size - 1
  <1>2. IsFiniteSet(S)
    <2>1. \A b \in Int : IsFiniteSet(0 .. b)
      BY FS_Interval
    <2>2. p.size - 1 \in Int
      BY <1>1
    <2>3. QED
      BY <2>1, <2>2
  <1> HIDE DEF S
  <1>3. \E i \in S : p.stack[i] = x
    <2>1. p.stack \in [S -> S] /\ x \in S
          /\ \A i, j \in S : p.stack[i] = p.stack[j] => i = j
      BY <1>1 DEF S
    <2>2. QED
      BY <1>2, <2>1, InjectionCovers, ZenonT(40)
  <1>4. QED
    BY <1>3 DEF FreeObjects, S

(* Push gives back an object that was in use, and only that one. *)
THEOREM PushReturns ==
  ASSUME NEW p, PoolOK(p), NEW x \in Objects(p), x \notin FreeObjects(p)
  PROVE  /\ PoolOK(Push(p, x))
         /\ p.head > 0 /\ Push(p, x).head = p.head - 1
         /\ Push(p, x).size = p.size
         /\ FreeObjects(Push(p, x)) = FreeObjects(p) \cup {x}
         /\ UsedHalfIsNull(p) => UsedHalfIsNull(Push(p, x))
  <1> DEFINE q == Push(p, x)
  <1>1. p.head > 0
    BY UsedMeansHeadPositive
  <1>2. /\ p.size \in Nat \ {0} /\ p.head \in Nat /\ p.head < p.size
        /\ p.stack \in [0 .. p.size - 1 -> Objects(p) \cup {NULL}]
        /\ \A i \in p.head .. p.size - 1 : p.stack[i] \in Objects(p)
        /\ \A i, j \in p.head .. p.size - 1 : p.stack[i] = p.stack[j] => i = j
    BY DEF PoolOK, PoolType
  <1>3. /\ q.size = p.size /\ q.head = p.head - 1
        /\ q.segments = p.segments /\ q.max_usage = p.max_usage
        /\ q.stack = [p.stack EXCEPT ![p.head - 1] = x]
        /\ PoolType(q)
    <2>1. p \in [ size : Nat \ {0}, head : Nat, segments : Nat, max_usage : Nat,
                  stack : [0 .. p.size - 1 -> Objects(p) \cup {NULL}] ]
      BY DEF PoolOK, PoolType
    <2>2. [p.stack EXCEPT ![p.head - 1] = x] \in [0 .. p.size - 1 -> Objects(p) \cup {NULL}]
      BY <1>2 DEF Objects
    <2>3. p.head - 1 \in Nat
      BY <1>1, <1>2
    <2>4. QED
      BY <2>1, <2>2, <2>3 DEF Push, PoolType, Objects
  <1>4. FreeObjects(q) = FreeObjects(p) \cup {x}
    BY <1>1, <1>2, <1>3, SMTT(30) DEF FreeObjects
  <1>5. PoolOK(q)
    <2>1. \A i \in q.head .. q.size - 1 : q.stack[i] \in Objects(q)
      BY <1>1, <1>2, <1>3 DEF Objects
    <2>2. \A i, j \in q.head .. q.size - 1 : q.stack[i] = q.stack[j] => i = j
      BY <1>1, <1>2, <1>3 DEF FreeObjects
    <2>3. QED
      BY <1>1, <1>2, <1>3, <2>1, <2>2 DEF PoolOK, PoolType
  <1>6. UsedHalfIsNull(p) => UsedHalfIsNull(q)
    BY <1>1, <1>2, <1>3 DEF UsedHalfIsNull
  <1>7. QED
    BY <1>1, <1>3, <1>4, <1>5, <1>6
-----------------------------------------------------------------------------
(***************************************************************************)
(* Lines and cells.                                                        *)
(***************************************************************************)

(* The fields of an array of cells or lines survive its growth. *)
LEMMA GrowKeeps ==
  ASSUME NEW m \in Nat, NEW n \in Nat, m <= n, NEW S, NEW v \in S,
         NEW f \in [0 .. m - 1 -> S]
  PROVE  /\ Grow(f, n, v) \in [0 .. n - 1 -> S]
         /\ \A i \in 0 .. m - 1 : Grow(f, n, v)[i] = f[i]
         /\ \A i \in m .. n - 1 : Grow(f, n, v)[i] = v
  <1>1. DOMAIN f = 0 .. m - 1
    OBVIOUS
  <1>2. \A i \in 0 .. m - 1 : i \in 0 .. n - 1
    OBVIOUS
  <1>3. \A i \in m .. n - 1 : i \in 0 .. n - 1 /\ i \notin 0 .. m - 1
    OBVIOUS
  <1>4. QED
    BY <1>1, <1>2, <1>3 DEF Grow

(* The flags of the new cells are cleared. *)
LEMMA GrowFlags ==
  ASSUME NEW m \in Nat, NEW n \in Nat, m <= n, NEW f \in [0 .. m - 1 -> BOOLEAN]
  PROVE  /\ Grow(f, n, FALSE) \in [0 .. n - 1 -> BOOLEAN]
         /\ \A i \in 0 .. m - 1 : Grow(f, n, FALSE)[i] = f[i]
         /\ \A i \in m .. n - 1 : Grow(f, n, FALSE)[i] = FALSE
  <1>1. \A S : \A v \in S : \A h \in [0 .. m - 1 -> S] :
          /\ Grow(h, n, v) \in [0 .. n - 1 -> S]
          /\ \A i \in 0 .. m - 1 : Grow(h, n, v)[i] = h[i]
          /\ \A i \in m .. n - 1 : Grow(h, n, v)[i] = v
    BY GrowKeeps
  <1>2. FALSE \in BOOLEAN
    OBVIOUS
  <1>3. QED
    BY <1>1, <1>2, ZenonT(30)

(* An element of a sequence, a sequence with one more element, one fewer,  *)
(* and one replaced.                                                       *)
LEMMA SeqElement ==
  ASSUME NEW S, NEW s \in Seq(S), NEW i \in DOMAIN s
  PROVE  s[i] \in S /\ DOMAIN s = 1 .. Len(s) /\ Len(s) \in Nat
  OBVIOUS

LEMMA SeqAppend ==
  ASSUME NEW S, NEW s \in Seq(S), NEW x \in S
  PROVE  /\ Append(s, x) \in Seq(S)
         /\ Len(Append(s, x)) = Len(s) + 1
         /\ DOMAIN Append(s, x) = DOMAIN s \cup {Len(s) + 1}
         /\ \A i \in DOMAIN s : Append(s, x)[i] = s[i] /\ i # Len(s) + 1
         /\ Append(s, x)[Len(s) + 1] = x
  <1>1. /\ DOMAIN s = 1 .. Len(s) /\ Len(s) \in Nat /\ Append(s, x) \in Seq(S)
        /\ Len(Append(s, x)) = Len(s) + 1
        /\ DOMAIN Append(s, x) = 1 .. Len(s) + 1
        /\ \A i \in DOMAIN s : Append(s, x)[i] = s[i]
        /\ Append(s, x)[Len(s) + 1] = x
    OBVIOUS
  <1>2. QED
    BY <1>1

LEMMA SeqFront ==
  ASSUME NEW S, NEW s \in Seq(S), s # << >>
  PROVE  /\ Front(s) \in Seq(S)
         /\ Len(Front(s)) = Len(s) - 1 /\ Len(s) \in Nat \ {0}
         /\ DOMAIN Front(s) = 1 .. Len(s) - 1
         /\ DOMAIN s = DOMAIN Front(s) \cup {Len(s)} /\ Len(s) \notin DOMAIN Front(s)
         /\ \A i \in DOMAIN Front(s) : Front(s)[i] = s[i]
         /\ Last(s) = s[Len(s)] /\ Last(s) \in S
  <1>1. Len(s) \in Nat \ {0} /\ DOMAIN s = 1 .. Len(s)
    OBVIOUS
  <1>2. /\ Front(s) \in Seq(S) /\ Len(Front(s)) = Len(s) - 1
        /\ \A i \in 1 .. Len(s) - 1 : Front(s)[i] = s[i]
    BY <1>1 DEF Front
  <1>3. DOMAIN Front(s) = 1 .. Len(s) - 1
    BY <1>1, <1>2
  <1>4. QED
    BY <1>1, <1>2, <1>3 DEF Last

LEMMA SeqExcept ==
  ASSUME NEW S, NEW s \in Seq(S), NEW k \in DOMAIN s, NEW x \in S
  PROVE  /\ [s EXCEPT ![k] = x] \in Seq(S)
         /\ Len([s EXCEPT ![k] = x]) = Len(s)
         /\ DOMAIN [s EXCEPT ![k] = x] = DOMAIN s
         /\ [s EXCEPT ![k] = x][k] = x
         /\ \A i \in DOMAIN s : i # k => [s EXCEPT ![k] = x][i] = s[i]
  <1>1. k \in 1 .. Len(s)
    OBVIOUS
  <1>2. [s EXCEPT ![k] = x] \in Seq(S) /\ Len([s EXCEPT ![k] = x]) = Len(s)
    BY <1>1, ExceptSeq
  <1>3. QED
    BY <1>1, <1>2

(* The elements of a sequence without repetition, when the last one is     *)
(* dropped, and when it takes the place of the one before it.              *)
Injective(s) == \A i, j \in DOMAIN s : s[i] = s[j] => i = j
Elements(s) == {s[i] : i \in DOMAIN s}

LEMMA FrontSet ==
  ASSUME NEW S, NEW s \in Seq(S), s # << >>, Injective(s)
  PROVE  /\ Front(s) \in Seq(S) /\ Len(Front(s)) = Len(s) - 1
         /\ Elements(Front(s)) = Elements(s) \ {Last(s)}
         /\ Injective(Front(s))
  <1> DEFINE n == Len(s)
             f == Front(s)
  <1>1. /\ f \in Seq(S) /\ Len(f) = n - 1
        /\ DOMAIN s = DOMAIN f \cup {n} /\ n \notin DOMAIN f
        /\ \A i \in DOMAIN f : f[i] = s[i]
        /\ Last(s) = s[n]
    BY SeqFront, ZenonT(40)
  <1> HIDE DEF n, f
  <1>2. \A i, j \in DOMAIN s : s[i] = s[j] => i = j
    BY DEF Injective
  <1>3. \A i, j \in DOMAIN f : f[i] = f[j] => i = j
    BY <1>1, <1>2
  <1>4. ASSUME NEW x
        PROVE  (\E i \in DOMAIN f : f[i] = x) <=> (\E i \in DOMAIN s : s[i] = x) /\ x # Last(s)
    BY <1>1, <1>2
  <1>5. Elements(f) = Elements(s) \ {Last(s)}
    BY <1>4 DEF Elements
  <1>6. QED
    BY <1>1, <1>3, <1>5 DEF f, n, Injective

LEMMA FrontReplaced ==
  ASSUME NEW S, NEW s \in Seq(S), Len(s) >= 2, Injective(s), NEW t,
         t = [Front(s) EXCEPT ![Len(s) - 1] = Last(s)]
  PROVE  /\ t \in Seq(S) /\ Len(t) = Len(s) - 1 /\ Last(t) = Last(s)
         /\ \A i \in 1 .. Len(s) - 2 : t[i] = s[i]
         /\ Elements(t) = Elements(s) \ {s[Len(s) - 1]}
         /\ Injective(t)
  <1> DEFINE n == Len(s)
  <1>0. n \in Nat /\ n >= 2 /\ s # << >> /\ DOMAIN s = 1 .. n
    OBVIOUS
  <1>1. /\ Front(s) \in Seq(S) /\ Len(Front(s)) = n - 1
        /\ DOMAIN Front(s) = 1 .. n - 1
        /\ \A i \in 1 .. n - 1 : Front(s)[i] = s[i]
        /\ Last(s) = s[n] /\ Last(s) \in S
    <2>1. s # << >>
      BY <1>0
    <2>2. /\ Front(s) \in Seq(S) /\ Len(Front(s)) = Len(s) - 1
          /\ DOMAIN Front(s) = 1 .. Len(s) - 1
          /\ \A i \in DOMAIN Front(s) : Front(s)[i] = s[i]
          /\ Last(s) = s[Len(s)] /\ Last(s) \in S
      BY <2>1, SeqFront, ZenonT(40)
    <2>3. QED
      BY <2>2
  <1>8. t = [Front(s) EXCEPT ![n - 1] = Last(s)]
    OBVIOUS
  <1> HIDE DEF n
  <1>9. \A i, j \in DOMAIN s : s[i] = s[j] => i = j
    BY DEF Injective
  <1>2. n - 1 \in DOMAIN Front(s)
    BY <1>0, <1>1
  <1>3. /\ t \in Seq(S) /\ Len(t) = n - 1 /\ DOMAIN t = 1 .. n - 1
        /\ t[n - 1] = s[n]
        /\ \A i \in 1 .. n - 1 : i # n - 1 => t[i] = s[i]
    <2>1. /\ t \in Seq(S) /\ Len(t) = Len(Front(s)) /\ DOMAIN t = DOMAIN Front(s)
          /\ t[n - 1] = Last(s)
          /\ \A i \in DOMAIN Front(s) : i # n - 1 => t[i] = Front(s)[i]
      <3> DEFINE f == Front(s)
                 x == Last(s)
      <3>1. f \in Seq(S) /\ n - 1 \in DOMAIN f /\ x \in S
        BY <1>1, <1>2
      <3> HIDE DEF f, x
      <3>2. /\ [f EXCEPT ![n - 1] = x] \in Seq(S)
            /\ Len([f EXCEPT ![n - 1] = x]) = Len(f)
            /\ DOMAIN [f EXCEPT ![n - 1] = x] = DOMAIN f
            /\ [f EXCEPT ![n - 1] = x][n - 1] = x
            /\ \A i \in DOMAIN f : i # n - 1 => [f EXCEPT ![n - 1] = x][i] = f[i]
        BY <3>1, SeqExcept, Zenon
      <3>3. QED
        BY <1>8, <3>2 DEF f, x
    <2>2. QED
      BY <1>1, <2>1
  <1>4. Last(t) = Last(s) /\ \A i \in 1 .. n - 2 : t[i] = s[i]
    BY <1>0, <1>1, <1>3 DEF Last
  <1>5. \A i, j \in DOMAIN t : t[i] = t[j] => i = j
    <2>1. \A i \in 1 .. n - 1 : i \in 1 .. n /\ i # n
      BY <1>0
    <2>2. n \in 1 .. n
      BY <1>0
    <2>3. QED
      BY <1>0, <1>3, <1>9, <2>1, <2>2
  <1>6. \A x : (\E i \in DOMAIN t : t[i] = x) <=> (\E i \in DOMAIN s : s[i] = x) /\ x # s[n - 1]
    <2>1. \A i \in 1 .. n : i \in 1 .. n - 2 \/ i = n - 1 \/ i = n
      BY <1>0
    <2>2. n \in 1 .. n /\ n - 1 \in 1 .. n /\ n # n - 1 /\ n - 1 \in 1 .. n - 1
      BY <1>0
    <2>3. \A i \in 1 .. n - 2 : i \in 1 .. n - 1 /\ i \in 1 .. n /\ i # n - 1
      BY <1>0
    <2>4. \A i \in 1 .. n - 1 : i \in 1 .. n - 2 \/ i = n - 1
      BY <1>0
    <2>5. QED
      BY <1>0, <1>3, <1>9, <2>1, <2>2, <2>3, <2>4
  <1>7. QED
    BY <1>3, <1>4, <1>5, <1>6, SMTT(30) DEF n, Injective, Elements

(* Pop, seen through the sets of used objects. *)
LEMMA PopUses ==
  ASSUME NEW p, PoolOK(p)
  PROVE  /\ PoolOK(Pop(p))
         /\ Pop(p).size \in Nat \ {0} /\ p.size \in Nat \ {0} /\ p.size <= Pop(p).size
         /\ Top(p) \in Objects(p) /\ Top(p) \notin UsedObjects(p)
         /\ Objects(p) \subseteq Objects(Pop(p))
         /\ UsedObjects(Pop(p)) = UsedObjects(p) \cup {Top(p)}
  <1>1. p.size \in Nat \ {0}
    BY DEF PoolOK, PoolType
  <1>2. /\ PoolOK(Pop(p)) /\ Top(p) \in Objects(p) /\ Top(p) \in FreeObjects(p)
        /\ Pop(p).size \in {p.size, 2 * p.size}
        /\ FreeObjects(Pop(p)) = (FreeObjects(p) \ {Top(p)}) \cup (p.size .. Pop(p).size - 1)
    BY PopTakes
  <1>3. p.size <= Pop(p).size /\ Pop(p).size \in Nat \ {0}
    BY <1>1, <1>2
  <1>4. \A x : x \in Objects(Pop(p)) <=> x \in Objects(p) \/ x \in p.size .. Pop(p).size - 1
    BY <1>1, <1>3 DEF Objects
  <1>5. \A x \in p.size .. Pop(p).size - 1 : x \notin Objects(p)
    BY <1>1, <1>3 DEF Objects
  <1>6. QED
    BY <1>1, <1>2, <1>3, <1>4, <1>5 DEF UsedObjects

(* Push, seen through the sets of used objects. *)
LEMMA PushUnuses ==
  ASSUME NEW p, PoolOK(p), NEW x \in UsedObjects(p)
  PROVE  /\ PoolOK(Push(p, x))
         /\ Push(p, x).size = p.size
         /\ Objects(Push(p, x)) = Objects(p)
         /\ UsedObjects(Push(p, x)) = UsedObjects(p) \ {x}
  <1>1. x \in Objects(p) /\ x \notin FreeObjects(p)
    BY DEF UsedObjects
  <1>2. /\ PoolOK(Push(p, x)) /\ Push(p, x).size = p.size
        /\ FreeObjects(Push(p, x)) = FreeObjects(p) \cup {x}
    BY <1>1, PushReturns
  <1>3. QED
    BY <1>1, <1>2 DEF UsedObjects, Objects

-----------------------------------------------------------------------------
(* Initially root_line is the only line in use. *)
LEMMA InitIInv == Init => IInv
  <1> SUFFICES ASSUME Init PROVE IInv
    OBVIOUS
  <1> USE PVEnvAssumption, NullAssumption
  <1> DEFINE l0 == NewPool(LinesFirstSize)
  <1>1. PoolOK(l0) /\ UsedObjects(l0) = {} /\ l0.size = LinesFirstSize
    BY NewPoolOK DEF UsedObjects, Objects
  <1>2. /\ PoolOK(lines) /\ UsedObjects(lines) = {Top(l0)}
        /\ lines.size \in Nat \ {0} /\ Top(l0) \in Objects(lines)
    BY <1>1, PopUses DEF Init
  <1>3. /\ PoolOK(cells) /\ UsedObjects(cells) = {}
        /\ Objects(cells) = 0 .. CellsFirstSize - 1
    BY NewPoolOK DEF Init, UsedObjects, Objects
  <1>4. held = <<Top(l0)>> /\ frames = << >> /\ ActiveCells = {} /\ DOMAIN held = {1}
        /\ DOMAIN frames = {}
    BY <1>3 DEF Init, ActiveCells
  <1>5. TypeOK /\ lines_sorted = FALSE
    <2>1. calls \in Seq([pc : Labels, branch_is_active : BOOLEAN])
      BY DEF Init, NewCall, Labels
    <2>2. held \in Seq(Objects(lines))
      BY <1>2, <1>4
    <2>3. frames \in Seq([line : Objects(lines), cell : CellRefs])
      BY <1>4
    <2>4. first \in [Objects(lines) -> CellRefs]
      BY DEF Init, Objects, CellRefs
    <2>5. /\ move \in [Objects(cells) -> Moves \cup {InvalidMove}]
          /\ is_active \in [Objects(cells) -> BOOLEAN]
          /\ next \in [Objects(cells) -> CellRefs]
          /\ variant \in [Objects(cells) -> LineRefs]
          /\ gpx \in [Objects(cells) -> GamePositions \cup {NULL}]
      BY <1>3 DEF Init, CellRefs, LineRefs
    <2>6. DOMAIN gp_table \subseteq GamePositions /\ \A g \in DOMAIN gp_table : gp_table[g] \in Int
      BY DEF Init
    <2>7. /\ PoolType(lines) /\ lines.head < lines.size
          /\ PoolType(cells) /\ cells.head < cells.size
      BY <1>2, <1>3 DEF PoolOK
    <2>8. lines_sorted = FALSE /\ line_balance \in Int /\ cell_balance \in Int
      BY DEF Init
    <2>9. QED
      BY <2>1, <2>2, <2>3, <2>4, <2>5, <2>6, <2>7, <2>8 DEF TypeOK
  <1>6. LinesOwnedOnce
    BY <1>2, <1>4 DEF LinesOwnedOnce, HeldLines, VariantLines
  <1>7. CellsOwnedOnce
    <2>1. \A l \in LiveLines : first[l] = NULL
      BY <1>2 DEF Init, LiveLines, UsedObjects, Objects
    <2>2. \A c \in Objects(cells) : c # NULL
      BY <1>3
    <2>3. QED
      BY <1>3, <1>4, <2>1, <2>2 DEF CellsOwnedOnce, CellPointed
  <1>8. FreeCellsHaveNoVariant
    BY <1>3 DEF Init, FreeCellsHaveNoVariant
  <1>9. CallsInv /\ FramesInv /\ ParentsInv
    BY <1>4 DEF Init, NewCall, CallsInv, FramesInv, ParentsInv, Last, WithLine
  <1>10. QED
    BY <1>5, <1>6, <1>7, <1>8, <1>9 DEF IInv

-----------------------------------------------------------------------------
(* The parts of IInv about the heap, and about the search. *)
HeapInv ==
  /\ TypeOK /\ lines_sorted = FALSE
  /\ LinesOwnedOnce /\ CellsOwnedOnce /\ FreeCellsHaveNoVariant
  /\ FramesInv

LEMMA IInvParts == IInv <=> HeapInv /\ CallsInv /\ ParentsInv
  BY DEF IInv, HeapInv

(* The facts on which every case relies, with the sizes of the pools. *)
LEMMA HeapFacts ==
  ASSUME HeapInv
  PROVE  /\ lines.size \in Nat \ {0} /\ cells.size \in Nat \ {0}
         /\ PoolOK(lines) /\ PoolOK(cells)
         /\ Objects(lines) = 0 .. lines.size - 1
         /\ Objects(cells) = 0 .. cells.size - 1
         /\ UsedObjects(cells) = ActiveCells
         /\ ActiveCells \subseteq Objects(cells)
         /\ UsedObjects(lines) \subseteq Objects(lines)
         /\ \A c \in ActiveCells : c # NULL
         /\ \A l \in Objects(lines) : l # NULL
         /\ \A i \in DOMAIN held : held[i] \in UsedObjects(lines)
         /\ \A c \in ActiveCells : variant[c] # NULL => variant[c] \in UsedObjects(lines)
         /\ \A l \in LiveLines : l \in UsedObjects(lines)
         /\ \A l \in LiveLines : first[l] = NULL \/ first[l] \in ActiveCells
         /\ \A i \in DOMAIN frames : frames[i].cell = NULL \/ frames[i].cell \in ActiveCells
         /\ \A c \in ActiveCells : next[c] = NULL \/ next[c] \in ActiveCells
  <1> USE NullAssumption DEF HeapInv
  <1>1. /\ lines.size \in Nat \ {0} /\ cells.size \in Nat \ {0}
        /\ PoolOK(lines) /\ PoolOK(cells)
        /\ UsedObjects(cells) = ActiveCells
    BY DEF LinesOwnedOnce, CellsOwnedOnce, PoolOK, PoolType
  <1>2. /\ Objects(lines) = 0 .. lines.size - 1 /\ Objects(cells) = 0 .. cells.size - 1
        /\ ActiveCells \subseteq Objects(cells) /\ UsedObjects(lines) \subseteq Objects(lines)
        /\ \A l \in LiveLines : l \in UsedObjects(lines)
    BY DEF Objects, ActiveCells, UsedObjects, LiveLines
  <1>3. (\A c \in Objects(cells) : c # NULL) /\ (\A l \in Objects(lines) : l # NULL)
    BY <1>1, <1>2
  <1>4. /\ \A i \in DOMAIN held : held[i] \in UsedObjects(lines)
        /\ \A c \in ActiveCells : variant[c] # NULL => variant[c] \in UsedObjects(lines)
    BY DEF LinesOwnedOnce, HeldLines, VariantLines
  <1>5. \A l \in LiveLines : first[l] = NULL \/ first[l] \in ActiveCells
    <2> SUFFICES ASSUME NEW l \in LiveLines, first[l] # NULL
                 PROVE  first[l] \in ActiveCells
      OBVIOUS
    <2>1. first[l] \in Objects(cells)
      BY <1>2 DEF TypeOK, CellRefs
    <2>2. QED
      BY <2>1 DEF CellsOwnedOnce, CellPointed
  <1>6. \A i \in DOMAIN frames : frames[i].cell = NULL \/ frames[i].cell \in ActiveCells
    <2> SUFFICES ASSUME NEW i \in DOMAIN frames, frames[i].cell # NULL
                 PROVE  frames[i].cell \in ActiveCells
      OBVIOUS
    <2>1. frames[i].cell \in Objects(cells)
      <3>1. frames \in Seq([line : Objects(lines), cell : CellRefs])
        BY DEF TypeOK
      <3>2. frames[i] \in [line : Objects(lines), cell : CellRefs]
        BY <3>1, SeqElement, Zenon
      <3>3. QED
        BY <3>2 DEF CellRefs
    <2>2. QED
      BY <2>1 DEF CellsOwnedOnce, CellPointed
  <1>7. \A c \in ActiveCells : next[c] = NULL \/ next[c] \in ActiveCells
    <2> SUFFICES ASSUME NEW c \in ActiveCells, next[c] # NULL
                 PROVE  next[c] \in ActiveCells
      OBVIOUS
    <2>1. next[c] \in Objects(cells)
      BY <1>2 DEF TypeOK, CellRefs
    <2>2. QED
      BY <2>1 DEF CellsOwnedOnce, CellPointed
  <1>8. QED
    BY <1>1, <1>2, <1>3, <1>4, <1>5, <1>6, <1>7

(* LineCreate adds an empty line, held by the search. *)
LEMMA CreateHeap ==
  ASSUME HeapInv, frames = << >>, LineCreate,
         calls' \in Seq([pc : Labels, branch_is_active : BOOLEAN]),
         UNCHANGED <<cells, move, is_active, next, variant, gpx, gp_table,
                     cell_balance, frames>>
  PROVE  /\ HeapInv'
         /\ held' = Append(held, Top(lines)) /\ held \in Seq(Objects(lines))
         /\ \A l \in UsedObjects(lines) : first'[l] = first[l]
  <1> USE NullAssumption
  <1> DEFINE l0 == Top(lines)
  <1>1. /\ lines' = Pop(lines) /\ lines_sorted' = FALSE
        /\ first' = [Grow(first, Pop(lines).size, NULL) EXCEPT ![l0] = NULL]
        /\ held' = Append(held, l0) /\ line_balance' = line_balance + 1
    BY DEF LineCreate, Unsorted, HeapInv
  <1>2. /\ PoolOK(lines') /\ lines'.size \in Nat \ {0} /\ lines.size <= lines'.size
        /\ l0 \in Objects(lines) /\ l0 \notin UsedObjects(lines)
        /\ Objects(lines) \subseteq Objects(lines')
        /\ UsedObjects(lines') = UsedObjects(lines) \cup {l0}
    BY <1>1, HeapFacts, PopUses
  <1>3. /\ first' \in [Objects(lines') -> CellRefs]
        /\ first'[l0] = NULL
        /\ \A l \in Objects(lines) : l # l0 => first'[l] = first[l]
    <2>1. first \in [0 .. lines.size - 1 -> CellRefs] /\ NULL \in CellRefs
      BY HeapFacts DEF HeapInv, TypeOK, CellRefs
    <2>2. /\ Grow(first, lines'.size, NULL) \in [0 .. lines'.size - 1 -> CellRefs]
          /\ \A i \in 0 .. lines.size - 1 : Grow(first, lines'.size, NULL)[i] = first[i]
      <3> DEFINE m == lines.size
                 n == lines'.size
      <3>1. m \in Nat /\ n \in Nat /\ m <= n
        BY <1>2, HeapFacts
      <3>2. first \in [0 .. m - 1 -> CellRefs] /\ NULL \in CellRefs
        BY <2>1
      <3> HIDE DEF m, n
      <3>3. /\ Grow(first, n, NULL) \in [0 .. n - 1 -> CellRefs]
            /\ \A i \in 0 .. m - 1 : Grow(first, n, NULL)[i] = first[i]
        BY <3>1, <3>2, GrowKeeps, SMTT(60)
      <3>4. QED
        BY <3>3 DEF m, n
    <2>3. Objects(lines') = 0 .. lines'.size - 1 /\ l0 \in 0 .. lines'.size - 1
      BY <1>2 DEF Objects
    <2>4. QED
      BY <1>1, <1>2, <2>1, <2>2, <2>3, HeapFacts
  <1>4. \A l \in UsedObjects(lines) : first'[l] = first[l]
    BY <1>2, <1>3, HeapFacts
  <1>5. held \in Seq(Objects(lines))
    BY DEF HeapInv, TypeOK
  <1>6. TypeOK'
    <2>1. held' \in Seq(Objects(lines'))
      BY <1>1, <1>2, <1>5
    <2>2. variant' \in [Objects(cells') -> LineRefs']
      BY <1>2 DEF HeapInv, TypeOK, LineRefs
    <2>3. frames' \in Seq([line : Objects(lines'), cell : CellRefs'])
      OBVIOUS
    <2>4. PoolType(lines') /\ lines'.head < lines'.size
      BY <1>2 DEF PoolOK
    <2>5. first' \in [Objects(lines') -> CellRefs']
      BY <1>3 DEF CellRefs
    <2>6. line_balance' \in Int
      <3>1. line_balance \in Int
        BY DEF HeapInv, TypeOK
      <3>2. QED
        BY <1>1, <3>1
    <2>7. TypeOK /\ lines_sorted' \in BOOLEAN
      BY <1>1 DEF HeapInv
    <2>8. QED
      BY <2>1, <2>2, <2>3, <2>4, <2>5, <2>6, <2>7 DEF TypeOK, CellRefs
  <1>7. ActiveCells' = ActiveCells
    BY DEF ActiveCells
  <1>8. LinesOwnedOnce'
    <2>1. HeldLines' = HeldLines \cup {l0}
      <3>1. held' = Append(held, l0) /\ l0 \in Objects(lines) /\ held \in Seq(Objects(lines))
        BY <1>1, <1>2, <1>5
      <3>2. /\ DOMAIN held' = DOMAIN held \cup {Len(held) + 1}
            /\ \A i \in DOMAIN held : held'[i] = held[i]
            /\ held'[Len(held) + 1] = l0
        BY <3>1, SeqAppend
      <3>3. QED
        BY <3>2 DEF HeldLines
    <2>2. VariantLines' = VariantLines
      BY <1>7 DEF VariantLines
    <2>3. l0 \notin HeldLines /\ l0 \notin VariantLines
      BY <1>2 DEF HeapInv, LinesOwnedOnce
    <2>4. \A i, j \in DOMAIN held' : held'[i] = held'[j] => i = j
      <3>1. \A i \in DOMAIN held : held[i] # l0
        BY <2>3 DEF HeldLines
      <3>2. \A i, j \in DOMAIN held : held[i] = held[j] => i = j
        BY DEF HeapInv, LinesOwnedOnce
      <3>3. QED
        BY <1>1, <1>5, <3>1, <3>2
    <2>5. QED
      BY <1>2, <1>7, <2>1, <2>2, <2>3, <2>4 DEF HeapInv, LinesOwnedOnce
  <1>9. CellsOwnedOnce'
    <2>1. /\ LiveLines = UsedObjects(lines) /\ LiveLines' = UsedObjects(lines) \cup {l0}
          /\ DOMAIN frames = {} /\ DOMAIN frames' = {}
      BY <1>2 DEF LiveLines
    <2>2. \A c \in Objects(cells) : c # NULL
      BY HeapFacts
    <2>3. \A c \in Objects(cells) : CellPointed(c)' <=> CellPointed(c)
      BY <1>3, <1>4, <1>7, <2>1, <2>2 DEF CellPointed
    <2>4. QED
      BY <1>3, <1>4, <1>7, <2>1, <2>3 DEF HeapInv, CellsOwnedOnce
  <1>10. FreeCellsHaveNoVariant' /\ FramesInv'
    BY <1>7 DEF HeapInv, FreeCellsHaveNoVariant, FramesInv
  <1>11. QED
    BY <1>1, <1>4, <1>5, <1>6, <1>8, <1>9, <1>10 DEF HeapInv

(* LineAddMove takes a free cell, which has no variant, and links it in    *)
(* front of the line.                                                      *)
LEMMA AddMoveCells ==
  ASSUME HeapInv, NEW l \in Objects(lines), NEW m \in Moves, NEW g \in GamePositions,
         LineAddMove(l, m, g)
  PROVE  /\ PoolOK(cells') /\ Objects(cells) \subseteq Objects(cells')
         /\ Top(cells) \in Objects(cells) /\ Top(cells) \notin ActiveCells
         /\ Top(cells) # NULL
         /\ UsedObjects(cells') = ActiveCells \cup {Top(cells)}
         /\ ActiveCells' = ActiveCells \cup {Top(cells)}
         /\ is_active' \in [Objects(cells') -> BOOLEAN]
         /\ next' \in [Objects(cells') -> CellRefs']
         /\ next'[Top(cells)] = first[l]
         /\ \A d \in ActiveCells : next'[d] = next[d]
         /\ first' \in [Objects(lines) -> CellRefs']
         /\ first'[l] = Top(cells)
         /\ \A k \in Objects(lines) : k # l => first'[k] = first[k]
         /\ VariantsGrown \in [Objects(cells') -> LineRefs]
         /\ \A d \in Objects(cells) : VariantsGrown[d] = variant[d]
         /\ \A d \in Objects(cells') : d \notin Objects(cells) => VariantsGrown[d] = NULL
  <1> USE NullAssumption
  <1> DEFINE c == Top(cells)
             z == cells.size
             n == Pop(cells).size
  <1>1. /\ cells' = Pop(cells)
        /\ is_active' = [Grow(is_active, n, FALSE) EXCEPT ![c] = TRUE]
        /\ next' = [Grow(next, n, NULL) EXCEPT ![c] = first[l]]
        /\ first' = [first EXCEPT ![l] = c]
        /\ VariantsGrown = Grow(variant, n, NULL)
    BY DEF LineAddMove, VariantsGrown
  <1>2. /\ PoolOK(cells') /\ Objects(cells) \subseteq Objects(cells')
        /\ c \in Objects(cells) /\ c \notin ActiveCells
        /\ UsedObjects(cells') = ActiveCells \cup {c}
        /\ Objects(cells) = 0 .. z - 1 /\ Objects(cells') = 0 .. n - 1
    BY <1>1, HeapFacts, PopUses DEF Objects
  <1>0. z \in Nat /\ n \in Nat /\ z <= n
    BY HeapFacts, PopUses
  <1>3. c \in 0 .. z - 1 /\ c \in 0 .. n - 1 /\ c # NULL
    BY <1>2
  <1>4. /\ is_active \in [0 .. z - 1 -> BOOLEAN]
        /\ next \in [0 .. z - 1 -> CellRefs] /\ NULL \in CellRefs
        /\ variant \in [0 .. z - 1 -> LineRefs] /\ NULL \in LineRefs
        /\ first \in [Objects(lines) -> CellRefs]
    BY <1>2 DEF HeapInv, TypeOK, CellRefs, LineRefs
  <1>5. CellRefs \subseteq CellRefs' /\ first[l] \in CellRefs' /\ c \in CellRefs'
    BY <1>2, <1>4 DEF CellRefs
  <1> HIDE DEF c, z, n
  <1>6. /\ Grow(is_active, n, FALSE) \in [0 .. n - 1 -> BOOLEAN]
        /\ \A i \in 0 .. z - 1 : Grow(is_active, n, FALSE)[i] = is_active[i]
        /\ \A i \in z .. n - 1 : Grow(is_active, n, FALSE)[i] = FALSE
    BY <1>0, <1>4, GrowFlags, Zenon
  <1>7. /\ Grow(next, n, NULL) \in [0 .. n - 1 -> CellRefs]
        /\ \A i \in 0 .. z - 1 : Grow(next, n, NULL)[i] = next[i]
    BY <1>0, <1>4, GrowKeeps, SMTT(60)
  <1>8. /\ Grow(variant, n, NULL) \in [0 .. n - 1 -> LineRefs]
        /\ \A i \in 0 .. z - 1 : Grow(variant, n, NULL)[i] = variant[i]
        /\ \A i \in z .. n - 1 : Grow(variant, n, NULL)[i] = NULL
    <2>1. variant \in [0 .. z - 1 -> LineRefs] /\ NULL \in LineRefs
      BY <1>4
    <2>2. QED
      BY <1>0, <2>1, GrowKeeps, SMTT(60)
  <1>9. \A i \in 0 .. n - 1 : i \in 0 .. z - 1 \/ i \in z .. n - 1
    BY <1>0
  <1>10. ActiveCells' = ActiveCells \cup {c} /\ is_active' \in [Objects(cells') -> BOOLEAN]
    <2> DEFINE a == Grow(is_active, n, FALSE)
    <2>1. /\ is_active' = [a EXCEPT ![c] = TRUE]
          /\ a \in [0 .. n - 1 -> BOOLEAN]
          /\ \A i \in 0 .. z - 1 : a[i] = is_active[i]
          /\ \A i \in z .. n - 1 : a[i] = FALSE
      BY <1>1, <1>6
    <2> HIDE DEF a
    <2>2. is_active' \in [0 .. n - 1 -> BOOLEAN]
      BY <2>1, <1>3
    <2>3. ASSUME NEW i \in 0 .. n - 1, i # c
          PROVE  is_active'[i] = a[i]
      BY <2>1, <2>3
    <2>4. is_active'[c] = TRUE
      BY <2>1, <1>3
    <2>5. ASSUME NEW i \in 0 .. n - 1, i # c
          PROVE  is_active'[i] <=> i \in 0 .. z - 1 /\ is_active[i]
      <3>1. CASE i \in 0 .. z - 1
        BY <2>1, <2>3, <2>5, <3>1, Zenon
      <3>2. CASE i \in z .. n - 1
        <4>1. i \notin 0 .. z - 1
          BY <3>2, <1>0
        <4>2. QED
          BY <2>1, <2>3, <2>5, <3>2, <4>1, Zenon
      <3>3. QED
        BY <1>9, <3>1, <3>2
    <2>6. /\ \A i \in 0 .. z - 1 : i \in 0 .. n - 1
          /\ ActiveCells' = {i \in 0 .. n - 1 : is_active'[i]}
          /\ ActiveCells = {i \in 0 .. z - 1 : is_active[i]}
      BY <1>0, <1>2 DEF ActiveCells
    <2>7. \A i : i \in ActiveCells' <=> i \in ActiveCells \cup {c}
      BY <1>3, <2>4, <2>5, <2>6, Zenon
    <2>8. QED
      BY <1>2, <2>2, <2>7
  <1>11. /\ next' \in [Objects(cells') -> CellRefs'] /\ next'[c] = first[l]
         /\ \A d \in ActiveCells : next'[d] = next[d]
    <2> DEFINE a == Grow(next, n, NULL)
    <2>1. a \in [0 .. n - 1 -> CellRefs'] /\ next' = [a EXCEPT ![c] = first[l]]
      BY <1>1, <1>5, <1>7
    <2>2. \A d \in ActiveCells : d \in 0 .. z - 1 /\ d \in 0 .. n - 1 /\ d # c
      BY <1>2 DEF ActiveCells
    <2>3. \A d \in ActiveCells : a[d] = next[d]
      BY <1>7, <2>2
    <2> HIDE DEF a
    <2>4. QED
      BY <1>2, <1>3, <1>5, <2>1, <2>2, <2>3
  <1>12. /\ first' \in [Objects(lines) -> CellRefs'] /\ first'[l] = c
         /\ \A k \in Objects(lines) : k # l => first'[k] = first[k]
    BY <1>1, <1>4, <1>5
  <1>13. /\ VariantsGrown \in [Objects(cells') -> LineRefs]
         /\ \A d \in Objects(cells) : VariantsGrown[d] = variant[d]
         /\ \A d \in Objects(cells') : d \notin Objects(cells) => VariantsGrown[d] = NULL
    BY <1>1, <1>2, <1>8, <1>9
  <1>14. QED
    BY <1>2, <1>3, <1>10, <1>11, <1>12, <1>13 DEF c

(* The other fields of the cells, and the table of positions.              *)
LEMMA AddMoveTypes ==
  ASSUME HeapInv, NEW l \in Objects(lines), NEW m \in Moves, NEW g \in GamePositions,
         LineAddMove(l, m, g)
  PROVE  /\ move' \in [Objects(cells') -> Moves \cup {InvalidMove}]
         /\ gpx' \in [Objects(cells') -> GamePositions \cup {NULL}]
         /\ DOMAIN gp_table' \subseteq GamePositions
         /\ \A x \in DOMAIN gp_table' : gp_table'[x] \in Int
         /\ cell_balance' \in Int
  <1> DEFINE c == Top(cells)
             z == cells.size
             n == Pop(cells).size
             Ms == Moves \cup {InvalidMove}
             Gs == GamePositions \cup {NULL}
  <1>1. /\ cells' = Pop(cells)
        /\ move' = [Grow(move, n, InvalidMove) EXCEPT ![c] = m]
        /\ gpx' = [Grow(gpx, n, NULL) EXCEPT ![c] = g]
        /\ gp_table' = Referenced(gp_table, g)
        /\ cell_balance' = cell_balance + 1
    BY DEF LineAddMove
  <1>2. z \in Nat /\ n \in Nat /\ z <= n
    BY HeapFacts, PopUses
  <1>3. Objects(cells) = 0 .. z - 1 /\ Objects(cells') = 0 .. n - 1
    BY <1>1 DEF Objects
  <1>4. move \in [0 .. z - 1 -> Ms] /\ InvalidMove \in Ms
    BY <1>3 DEF HeapInv, TypeOK
  <1>5. gpx \in [0 .. z - 1 -> Gs] /\ NULL \in Gs
    BY <1>3 DEF HeapInv, TypeOK
  <1>6. m \in Ms /\ g \in Gs
    OBVIOUS
  <1> HIDE DEF z, n, c, Ms, Gs
  <1>7. Grow(move, n, InvalidMove) \in [0 .. n - 1 -> Ms]
    BY <1>2, <1>4, GrowKeeps, Zenon
  <1>8. Grow(gpx, n, NULL) \in [0 .. n - 1 -> Gs]
    BY <1>2, <1>5, GrowKeeps, Zenon
  <1>9. move' \in [Objects(cells') -> Ms] /\ gpx' \in [Objects(cells') -> Gs]
    BY <1>1, <1>3, <1>6, <1>7, <1>8
  <1>10. /\ DOMAIN gp_table' \subseteq GamePositions
         /\ \A x \in DOMAIN gp_table' : gp_table'[x] \in Int
    <2>1. DOMAIN gp_table \subseteq GamePositions /\ \A x \in DOMAIN gp_table : gp_table[x] \in Int
      BY DEF HeapInv, TypeOK
    <2>2. QED
      BY <1>1, <2>1 DEF Referenced
  <1>11. cell_balance' \in Int
    BY <1>1 DEF HeapInv, TypeOK
  <1>12. QED
    BY <1>9, <1>10, <1>11 DEF Ms, Gs

(* The line of the innermost call and the one of its parent. *)
LEMMA HeldEnds ==
  ASSUME HeapInv, Len(held) >= 2
  PROVE  /\ Len(held) \in DOMAIN held /\ Len(held) - 1 \in DOMAIN held
         /\ Last(held) = held[Len(held)] /\ ParentLine = held[Len(held) - 1]
         /\ Last(held) # ParentLine
         /\ Last(held) \in HeldLines /\ ParentLine \in HeldLines
         /\ Last(held) \in UsedObjects(lines) /\ ParentLine \in UsedObjects(lines)
         /\ Last(held) \in Objects(lines) /\ ParentLine \in Objects(lines)
  <1>1. held \in Seq(Objects(lines))
    BY DEF HeapInv, TypeOK
  <1>2. /\ Len(held) \in DOMAIN held /\ Len(held) - 1 \in DOMAIN held
        /\ Len(held) # Len(held) - 1
    BY <1>1
  <1>3. Last(held) = held[Len(held)] /\ ParentLine = held[Len(held) - 1]
    BY DEF Last, ParentLine
  <1>4. Last(held) # ParentLine
    BY <1>2, <1>3 DEF HeapInv, LinesOwnedOnce
  <1>5. /\ Last(held) \in HeldLines /\ ParentLine \in HeldLines
        /\ Last(held) \in UsedObjects(lines) /\ ParentLine \in UsedObjects(lines)
    BY <1>2, <1>3, HeapFacts DEF HeldLines
  <1>6. Last(held) \in Objects(lines) /\ ParentLine \in Objects(lines)
    BY <1>5 DEF UsedObjects
  <1>7. QED
    BY <1>2, <1>3, <1>4, <1>5, <1>6

(* A line is accepted: it gets a first cell, and the line of the parent is *)
(* in the hands of pve_line_delete.                                        *)
LEMMA AcceptHeap ==
  ASSUME HeapInv, Len(held) >= 2, frames = << >>, NEW m \in Moves, NEW g \in GamePositions,
         LineAddMove(Last(held), m, g), variant' = VariantsGrown,
         LineDelete(ParentLine), UNCHANGED held,
         calls' \in Seq([pc : Labels, branch_is_active : BOOLEAN])
  PROVE  /\ HeapInv'
         /\ frames' = <<[line |-> ParentLine, cell |-> first[ParentLine]]>>
         /\ first'[Last(held)] = Top(cells) /\ Top(cells) # NULL
         /\ \A k \in Objects(lines) : k # Last(held) => first'[k] = first[k]
  <1> USE NullAssumption
  <1> DEFINE l == Last(held)
             p == ParentLine
             c == Top(cells)
  <1>1. /\ l \in Objects(lines) /\ p \in Objects(lines) /\ l # p
        /\ l \in UsedObjects(lines) /\ p \in UsedObjects(lines)
    BY HeldEnds
  <1>2. /\ frames' = <<[line |-> p, cell |-> first[p]]>>
        /\ lines' = lines /\ lines_sorted' = FALSE /\ line_balance' = line_balance - 1
    BY DEF LineDelete, Unsorted, HeapInv
  <1>3. /\ PoolOK(cells') /\ Objects(cells) \subseteq Objects(cells')
        /\ c \in Objects(cells) /\ c \notin ActiveCells /\ c # NULL
        /\ UsedObjects(cells') = ActiveCells \cup {c}
        /\ ActiveCells' = ActiveCells \cup {c}
        /\ is_active' \in [Objects(cells') -> BOOLEAN]
        /\ next' \in [Objects(cells') -> CellRefs'] /\ next'[c] = first[l]
        /\ \A d \in ActiveCells : next'[d] = next[d]
        /\ first' \in [Objects(lines) -> CellRefs'] /\ first'[l] = c
        /\ \A k \in Objects(lines) : k # l => first'[k] = first[k]
        /\ variant' \in [Objects(cells') -> LineRefs]
        /\ \A d \in Objects(cells) : variant'[d] = variant[d]
        /\ \A d \in Objects(cells') : d \notin Objects(cells) => variant'[d] = NULL
    BY <1>1, AddMoveCells
  <1>4. TypeOK'
    <2>1. /\ move' \in [Objects(cells') -> Moves \cup {InvalidMove}]
          /\ gpx' \in [Objects(cells') -> GamePositions \cup {NULL}]
          /\ DOMAIN gp_table' \subseteq GamePositions
          /\ \A x \in DOMAIN gp_table' : gp_table'[x] \in Int
          /\ cell_balance' \in Int
      BY <1>1, AddMoveTypes
    <2>2. frames' \in Seq([line : Objects(lines'), cell : CellRefs'])
      <3>1. first[p] = first'[p] /\ first'[p] \in CellRefs' /\ p \in Objects(lines')
        BY <1>1, <1>2, <1>3
      <3>2. QED
        BY <1>2, <3>1
    <2>3. PoolType(cells') /\ cells'.head < cells'.size
      BY <1>3 DEF PoolOK
    <2>4. PoolType(lines') /\ lines'.head < lines'.size /\ held' \in Seq(Objects(lines'))
      BY <1>2 DEF HeapInv, TypeOK
    <2>5. line_balance' \in Int
      <3>1. line_balance \in Int
        BY DEF HeapInv, TypeOK
      <3>2. QED
        BY <1>2, <3>1
    <2>6. LineRefs' = LineRefs /\ first' \in [Objects(lines') -> CellRefs']
      BY <1>2, <1>3 DEF LineRefs
    <2>7. lines_sorted' \in BOOLEAN
      BY <1>2
    <2>8. QED
      BY <1>3, <2>1, <2>2, <2>3, <2>4, <2>5, <2>6, <2>7 DEF TypeOK
  <1>5. variant'[c] = NULL
    BY <1>3 DEF HeapInv, FreeCellsHaveNoVariant
  <1>6. ActiveCells \subseteq Objects(cells)
    BY DEF ActiveCells
  <1>7. LinesOwnedOnce'
    <2>1. VariantLines' = VariantLines
      BY <1>3, <1>5, <1>6 DEF VariantLines
    <2>2. HeldLines' = HeldLines
      BY DEF HeldLines
    <2>3. \A d, e \in ActiveCells' : variant'[d] # NULL /\ variant'[d] = variant'[e] => d = e
      BY <1>3, <1>5, <1>6 DEF HeapInv, LinesOwnedOnce
    <2>4. QED
      BY <1>2, <2>1, <2>2, <2>3 DEF HeapInv, LinesOwnedOnce
  <1>8. CellsOwnedOnce'
    <2>1. /\ LiveLines = UsedObjects(lines) /\ LiveLines' = UsedObjects(lines) \ {p}
          /\ DOMAIN frames = {} /\ DOMAIN frames' = {1} /\ frames'[1].cell = first[p]
          /\ LiveLines \subseteq Objects(lines)
      BY <1>2 DEF LiveLines, UsedObjects
    <2>2. /\ \A k \in LiveLines : first[k] = NULL \/ first[k] \in ActiveCells
          /\ \A d \in ActiveCells : next[d] = NULL \/ next[d] \in ActiveCells
      BY HeapFacts
    <2>3. ASSUME NEW d \in ActiveCells'
          PROVE  CellPointed(d)'
      <3>1. CASE d = c
        BY <1>1, <1>3, <2>1, <3>1 DEF CellPointed
      <3>2. CASE d \in ActiveCells
        <4>1. \/ \E k \in LiveLines : first[k] = d
              \/ \E e \in ActiveCells : next[e] = d
          BY <1>6, <2>1, <3>2 DEF HeapInv, CellsOwnedOnce, CellPointed
        <4>2. CASE \E e \in ActiveCells : next[e] = d
          BY <1>3, <4>2 DEF CellPointed
        <4>3. ASSUME NEW k \in LiveLines, first[k] = d
              PROVE  CellPointed(d)'
          <5>1. CASE k = l
            BY <1>3, <4>3, <5>1 DEF CellPointed
          <5>2. CASE k = p
            BY <2>1, <4>3, <5>2 DEF CellPointed
          <5>3. CASE k # l /\ k # p
            BY <1>3, <2>1, <4>3, <5>3 DEF CellPointed
          <5>4. QED
            BY <5>1, <5>2, <5>3
        <4>4. QED
          BY <4>1, <4>2, <4>3
      <3>3. QED
        BY <1>3, <3>1, <3>2
    <2>4. ASSUME NEW d \in Objects(cells'), CellPointed(d)'
          PROVE  d \in ActiveCells'
      <3>1. d # NULL
        BY <1>3 DEF PoolOK, PoolType, Objects
      <3>2. CASE \E k \in LiveLines' : first'[k] = d
        BY <1>3, <2>1, <2>2, <3>1, <3>2
      <3>3. CASE \E i \in DOMAIN frames' : frames'[i].cell = d
        BY <1>1, <1>3, <2>1, <2>2, <3>1, <3>3
      <3>4. CASE \E e \in ActiveCells' : next'[e] = d
        BY <1>1, <1>3, <2>1, <2>2, <3>1, <3>4
      <3>5. QED
        BY <2>4, <3>2, <3>3, <3>4 DEF CellPointed
    <2>5. \A d \in Objects(cells') : CellPointed(d)' <=> d \in ActiveCells'
      BY <2>3, <2>4
    <2>6. QED
      BY <1>1, <1>3, <2>1, <2>2, <2>5 DEF HeapInv, CellsOwnedOnce
  <1>9. FreeCellsHaveNoVariant' /\ FramesInv'
    BY <1>2, <1>3 DEF HeapInv, FreeCellsHaveNoVariant, FramesInv
  <1>10. QED
    BY <1>2, <1>3, <1>4, <1>7, <1>8, <1>9 DEF HeapInv

(* A line becomes a variant at the first cell of the line of the parent.   *)
LEMMA VariantHeap ==
  ASSUME HeapInv, Len(held) >= 2, frames = << >>, NEW m \in Moves, NEW g \in GamePositions,
         LineAddMove(Last(held), m, g), first[ParentLine] # NULL,
         variant' = VariantAdded(VariantsGrown, ParentLine, Top(cells), Last(held)),
         held' = Front(held),
         UNCHANGED <<lines, lines_sorted, line_balance, frames>>,
         calls' \in Seq([pc : Labels, branch_is_active : BOOLEAN])
  PROVE  /\ HeapInv'
         /\ \A k \in Objects(lines) : k # Last(held) => first'[k] = first[k]
  <1> USE NullAssumption
  <1> DEFINE l == Last(held)
             p == ParentLine
             a == first[p]
             c == Top(cells)
  <1>1. /\ l \in Objects(lines) /\ p \in Objects(lines) /\ l # p
        /\ l \in UsedObjects(lines) /\ p \in UsedObjects(lines) /\ l \in HeldLines
    BY HeldEnds
  <1>2. LiveLines = UsedObjects(lines) /\ LiveLines' = LiveLines /\ DOMAIN frames = {}
    BY DEF LiveLines
  <1>3. a \in ActiveCells /\ ActiveCells \subseteq Objects(cells)
    BY <1>1, <1>2, HeapFacts DEF ActiveCells
  <1>4. /\ PoolOK(cells') /\ Objects(cells) \subseteq Objects(cells')
        /\ c \in Objects(cells) /\ c \notin ActiveCells /\ c # NULL
        /\ UsedObjects(cells') = ActiveCells \cup {c}
        /\ ActiveCells' = ActiveCells \cup {c}
        /\ is_active' \in [Objects(cells') -> BOOLEAN]
        /\ next' \in [Objects(cells') -> CellRefs'] /\ next'[c] = first[l]
        /\ \A d \in ActiveCells : next'[d] = next[d]
        /\ first' \in [Objects(lines) -> CellRefs'] /\ first'[l] = c
        /\ \A k \in Objects(lines) : k # l => first'[k] = first[k]
        /\ VariantsGrown \in [Objects(cells') -> LineRefs]
        /\ \A d \in Objects(cells) : VariantsGrown[d] = variant[d]
        /\ \A d \in Objects(cells') : d \notin Objects(cells) => VariantsGrown[d] = NULL
    BY <1>1, AddMoveCells
  <1>5. /\ variant' \in [Objects(cells') -> LineRefs]
        /\ variant'[a] = l /\ variant'[c] = variant[a]
        /\ \A d \in Objects(cells) : d # a /\ d # c => variant'[d] = variant[d]
        /\ \A d \in Objects(cells') : d \notin Objects(cells) => variant'[d] = NULL
    <2>1. variant' = [VariantsGrown EXCEPT ![a] = l, ![c] = VariantsGrown[a]]
      BY DEF VariantAdded
    <2>2. l \in LineRefs
      BY <1>1 DEF LineRefs
    <2>3. QED
      BY <1>3, <1>4, <2>1, <2>2
  <1>6. held \in Seq(Objects(lines)) /\ held # << >>
    BY DEF HeapInv, TypeOK
  <1>7. Injective(held)
    BY DEF HeapInv, LinesOwnedOnce, Injective
  <1>12. /\ held' \in Seq(Objects(lines))
         /\ Elements(held') = Elements(held) \ {l}
         /\ Injective(held')
    <2> DEFINE O == Objects(lines)
    <2>1. held \in Seq(O) /\ held # << >>
      BY <1>6
    <2> HIDE DEF O
    <2>2. /\ Front(held) \in Seq(O)
          /\ Elements(Front(held)) = Elements(held) \ {Last(held)}
          /\ Injective(Front(held))
      BY <1>7, <2>1, FrontSet, Zenon
    <2>3. QED
      BY <2>2 DEF O
  <1>8. TypeOK'
    <2>1. /\ move' \in [Objects(cells') -> Moves \cup {InvalidMove}]
          /\ gpx' \in [Objects(cells') -> GamePositions \cup {NULL}]
          /\ DOMAIN gp_table' \subseteq GamePositions
          /\ \A x \in DOMAIN gp_table' : gp_table'[x] \in Int
          /\ cell_balance' \in Int
      BY <1>1, AddMoveTypes
    <2>2. frames' \in Seq([line : Objects(lines'), cell : CellRefs'])
      OBVIOUS
    <2>3. PoolType(cells') /\ cells'.head < cells'.size
      BY <1>4 DEF PoolOK
    <2>4. /\ PoolType(lines') /\ lines'.head < lines'.size /\ line_balance' \in Int
          /\ lines_sorted' \in BOOLEAN
      BY DEF HeapInv, TypeOK
    <2>5. LineRefs' = LineRefs /\ first' \in [Objects(lines') -> CellRefs']
      BY <1>4 DEF LineRefs
    <2>6. held' \in Seq(Objects(lines'))
      BY <1>12
    <2>7. QED
      BY <1>4, <1>5, <2>1, <2>2, <2>3, <2>4, <2>5, <2>6 DEF TypeOK
  <1>9. LinesOwnedOnce'
    <2>1. HeldLines' = HeldLines \ {l}
      BY <1>12 DEF HeldLines, Elements
    <2>2. VariantLines' = VariantLines \cup {l}
      <3>1. l # NULL
        BY <1>1, HeapFacts
      <3>2. ASSUME NEW v \in VariantLines PROVE v \in VariantLines'
        <4>1. PICK d \in ActiveCells : variant[d] # NULL /\ v = variant[d]
          BY DEF VariantLines
        <4>2. CASE d = a
          BY <1>4, <1>5, <4>1, <4>2 DEF VariantLines
        <4>3. CASE d # a
          BY <1>3, <1>4, <1>5, <4>1, <4>3 DEF VariantLines
        <4>4. QED
          BY <4>2, <4>3
      <3>3. ASSUME NEW v \in VariantLines' PROVE v \in VariantLines \cup {l}
        <4>1. PICK d \in ActiveCells' : variant'[d] # NULL /\ v = variant'[d]
          BY DEF VariantLines
        <4>2. CASE d = a
          BY <1>5, <4>1, <4>2
        <4>3. CASE d = c
          BY <1>3, <1>5, <4>1, <4>3 DEF VariantLines
        <4>4. CASE d # a /\ d # c
          BY <1>3, <1>4, <1>5, <4>1, <4>4 DEF VariantLines
        <4>5. QED
          BY <4>2, <4>3, <4>4
      <3>4. l \in VariantLines'
        BY <1>3, <1>4, <1>5, <3>1 DEF VariantLines
      <3>5. QED
        BY <3>2, <3>3, <3>4
    <2>3. ASSUME NEW d \in ActiveCells', NEW e \in ActiveCells',
                 variant'[d] # NULL, variant'[d] = variant'[e]
          PROVE  d = e
      <3>1. \A f \in ActiveCells : variant[f] # l
        <4>1. l # NULL
          BY <1>1, HeapFacts
        <4>2. l \notin VariantLines
          BY <1>1 DEF HeapInv, LinesOwnedOnce
        <4>3. QED
          BY <4>1, <4>2 DEF VariantLines
      <3>2. \A f, h \in ActiveCells : variant[f] # NULL /\ variant[f] = variant[h] => f = h
        BY DEF HeapInv, LinesOwnedOnce
      <3>3. QED
        BY <1>3, <1>4, <1>5, <2>3, <3>1, <3>2
    <2>4. \A i, j \in DOMAIN held' : held'[i] = held'[j] => i = j
      BY <1>12 DEF Injective
    <2>5. QED
      BY <1>1, <2>1, <2>2, <2>3, <2>4 DEF HeapInv, LinesOwnedOnce
  <1>10. CellsOwnedOnce'
    <2>1. DOMAIN frames' = {} /\ LiveLines \subseteq Objects(lines)
      BY <1>2 DEF UsedObjects
    <2>2. /\ \A k \in LiveLines : first[k] = NULL \/ first[k] \in ActiveCells
          /\ \A d \in ActiveCells : next[d] = NULL \/ next[d] \in ActiveCells
      BY HeapFacts
    <2>3. ASSUME NEW d \in ActiveCells'
          PROVE  CellPointed(d)'
      <3>1. CASE d = c
        BY <1>1, <1>2, <1>4, <3>1 DEF CellPointed
      <3>2. CASE d \in ActiveCells
        <4>1. \/ \E k \in LiveLines : first[k] = d
              \/ \E e \in ActiveCells : next[e] = d
          BY <1>2, <1>3, <3>2 DEF HeapInv, CellsOwnedOnce, CellPointed
        <4>2. CASE \E e \in ActiveCells : next[e] = d
          BY <1>4, <4>2 DEF CellPointed
        <4>3. ASSUME NEW k \in LiveLines, first[k] = d
              PROVE  CellPointed(d)'
          <5>1. CASE k = l
            BY <1>4, <4>3, <5>1 DEF CellPointed
          <5>2. CASE k # l
            BY <1>2, <1>4, <2>1, <4>3, <5>2 DEF CellPointed
          <5>3. QED
            BY <5>1, <5>2
        <4>4. QED
          BY <4>1, <4>2, <4>3
      <3>3. QED
        BY <1>4, <3>1, <3>2
    <2>4. ASSUME NEW d \in Objects(cells'), CellPointed(d)'
          PROVE  d \in ActiveCells'
      <3>1. d # NULL
        BY <1>4 DEF PoolOK, PoolType, Objects
      <3>2. CASE \E k \in LiveLines' : first'[k] = d
        BY <1>2, <1>4, <2>1, <2>2, <3>1, <3>2
      <3>3. CASE \E e \in ActiveCells' : next'[e] = d
        BY <1>1, <1>2, <1>4, <2>1, <2>2, <3>1, <3>3
      <3>4. QED
        BY <2>1, <2>4, <3>2, <3>3 DEF CellPointed
    <2>5. \A d \in Objects(cells') : CellPointed(d)' <=> d \in ActiveCells'
      BY <2>3, <2>4
    <2>6. QED
      BY <1>1, <1>2, <1>4, <2>1, <2>2, <2>5 DEF HeapInv, CellsOwnedOnce
  <1>11. FreeCellsHaveNoVariant' /\ FramesInv'
    BY <1>2, <1>3, <1>4, <1>5 DEF HeapInv, FreeCellsHaveNoVariant, FramesInv
  <1>13. QED
    BY <1>4, <1>8, <1>9, <1>10, <1>11 DEF HeapInv

(* A line is rejected: it is in the hands of pve_line_delete. *)
LEMMA RejectHeap ==
  ASSUME HeapInv, Len(held) >= 2, frames = << >>, LineDelete(Last(held)),
         UNCHANGED <<cells, first, move, is_active, next, variant, gpx, gp_table,
                     cell_balance, held>>,
         calls' \in Seq([pc : Labels, branch_is_active : BOOLEAN])
  PROVE  /\ HeapInv'
         /\ frames' = <<[line |-> Last(held), cell |-> first[Last(held)]]>>
  <1> DEFINE l == Last(held)
  <1>1. l \in Objects(lines) /\ l \in UsedObjects(lines)
    BY HeldEnds
  <1>2. /\ frames' = <<[line |-> l, cell |-> first[l]]>>
        /\ lines' = lines /\ lines_sorted' = FALSE /\ line_balance' = line_balance - 1
    BY DEF LineDelete, Unsorted, HeapInv
  <1>3. TypeOK'
    <2>1. frames' \in Seq([line : Objects(lines'), cell : CellRefs'])
      <3>1. first[l] \in CellRefs'
        BY <1>1 DEF HeapInv, TypeOK, CellRefs
      <3>2. QED
        BY <1>1, <1>2, <3>1
    <2>2. line_balance' \in Int
      <3>1. line_balance \in Int
        BY DEF HeapInv, TypeOK
      <3>2. QED
        BY <1>2, <3>1
    <2>3. TypeOK /\ lines_sorted' \in BOOLEAN
      BY <1>2 DEF HeapInv
    <2>4. QED
      BY <1>2, <2>1, <2>2, <2>3 DEF TypeOK, CellRefs, LineRefs
  <1>4. ActiveCells' = ActiveCells
    BY DEF ActiveCells
  <1>5. LinesOwnedOnce'
    <2>1. HeldLines' = HeldLines /\ VariantLines' = VariantLines
      BY <1>4 DEF HeldLines, VariantLines
    <2>2. QED
      BY <1>2, <1>4, <2>1 DEF HeapInv, LinesOwnedOnce
  <1>6. CellsOwnedOnce'
    <2>1. /\ LiveLines = UsedObjects(lines) /\ LiveLines' = UsedObjects(lines) \ {l}
          /\ DOMAIN frames = {} /\ DOMAIN frames' = {1} /\ frames'[1].cell = first[l]
      BY <1>2 DEF LiveLines
    <2>2. \A d \in Objects(cells) : CellPointed(d)' <=> CellPointed(d)
      BY <1>1, <1>4, <2>1 DEF CellPointed
    <2>3. QED
      BY <1>1, <1>4, <2>1, <2>2 DEF HeapInv, CellsOwnedOnce
  <1>7. FreeCellsHaveNoVariant' /\ FramesInv'
    BY <1>2, <1>4 DEF HeapInv, FreeCellsHaveNoVariant, FramesInv
  <1>8. QED
    BY <1>2, <1>3, <1>5, <1>6, <1>7 DEF HeapInv
-----------------------------------------------------------------------------
(* The activations of pve_line_delete. *)
Frame == [line : Objects(lines), cell : CellRefs]

LEMMA TopFrame ==
  ASSUME HeapInv, frames # << >>
  PROVE  /\ frames \in Seq(Frame)
         /\ Len(frames) \in Nat \ {0} /\ Len(frames) \in DOMAIN frames
         /\ DOMAIN frames = 1 .. Len(frames)
         /\ Last(frames) = frames[Len(frames)]
         /\ \A i \in DOMAIN frames :
              /\ frames[i].line \in Objects(lines) /\ frames[i].cell \in CellRefs
              /\ frames[i] = [line |-> frames[i].line, cell |-> frames[i].cell]
  <1>1. frames \in Seq(Frame)
    BY DEF HeapInv, TypeOK, Frame
  <1>2. /\ Len(frames) \in Nat \ {0} /\ DOMAIN frames = 1 .. Len(frames)
        /\ \A i \in DOMAIN frames : frames[i] \in Frame
    BY <1>1
  <1>3. \A f \in Frame : /\ f.line \in Objects(lines) /\ f.cell \in CellRefs
                         /\ f = [line |-> f.line, cell |-> f.cell]
    BY DEF Frame
  <1>4. Len(frames) \in DOMAIN frames
    BY <1>2
  <1>5. QED
    BY <1>1, <1>2, <1>3, <1>4 DEF Last

(* Cell c, the one that activation k is at, is released, and the           *)
(* activation goes on to the next cell of its line.                        *)
LEMMA ReleaseCells ==
  ASSUME HeapInv, NEW k \in DOMAIN frames, NEW c, c = frames[k].cell, c # NULL,
         CellRelease(c), UNCHANGED <<first, gpx>>, LiveLines' = LiveLines,
         k \in DOMAIN frames', DOMAIN frames' \subseteq DOMAIN frames,
         frames'[k].cell = next[c],
         \A i \in DOMAIN frames' : i # k => frames'[i].cell = frames[i].cell,
         \A i \in DOMAIN frames : i \notin DOMAIN frames' => frames[i].cell = NULL
  PROVE  /\ c \in ActiveCells /\ ActiveCells' = ActiveCells \ {c}
         /\ Objects(cells') = Objects(cells)
         /\ PoolType(cells') /\ cells'.head < cells'.size
         /\ CellRefs' = CellRefs
         /\ is_active' \in [Objects(cells) -> BOOLEAN]
         /\ move' \in [Objects(cells) -> Moves \cup {InvalidMove}]
         /\ next' \in [Objects(cells) -> CellRefs]
         /\ variant' \in [Objects(cells) -> LineRefs]
         /\ variant'[c] = NULL
         /\ \A d \in Objects(cells) : d # c => variant'[d] = variant[d]
         /\ cell_balance' \in Int
         /\ \A i \in DOMAIN frames' : i # k => frames'[i].cell # c
         /\ CellsOwnedOnce'
         /\ FreeCellsHaveNoVariant'
  <1> USE NullAssumption
  <1>1. c \in ActiveCells /\ c \in UsedObjects(cells) /\ c \in Objects(cells)
    BY HeapFacts DEF ActiveCells
  <1>2. /\ cells' = Push(cells, c)
        /\ is_active' = [is_active EXCEPT ![c] = FALSE]
        /\ variant' = [variant EXCEPT ![c] = NULL]
        /\ move' = [move EXCEPT ![c] = InvalidMove]
        /\ next' = [next EXCEPT ![c] = NULL]
        /\ cell_balance' = cell_balance - 1
    BY DEF CellRelease
  <1>3. /\ PoolOK(cells') /\ Objects(cells') = Objects(cells)
        /\ UsedObjects(cells') = UsedObjects(cells) \ {c}
    BY <1>1, <1>2, HeapFacts, PushUnuses
  <1>4. /\ is_active \in [Objects(cells) -> BOOLEAN]
        /\ move \in [Objects(cells) -> Moves \cup {InvalidMove}]
        /\ next \in [Objects(cells) -> CellRefs] /\ NULL \in CellRefs
        /\ variant \in [Objects(cells) -> LineRefs] /\ NULL \in LineRefs
        /\ cell_balance \in Int
    BY DEF HeapInv, TypeOK, CellRefs, LineRefs
  <1>5. /\ is_active' \in [Objects(cells) -> BOOLEAN] /\ is_active'[c] = FALSE
        /\ \A d \in Objects(cells) : d # c => is_active'[d] = is_active[d]
    BY <1>1, <1>2, <1>4
  <1>6. /\ move' \in [Objects(cells) -> Moves \cup {InvalidMove}]
        /\ next' \in [Objects(cells) -> CellRefs] /\ next'[c] = NULL
        /\ \A d \in Objects(cells) : d # c => next'[d] = next[d]
        /\ variant' \in [Objects(cells) -> LineRefs] /\ variant'[c] = NULL
        /\ \A d \in Objects(cells) : d # c => variant'[d] = variant[d]
    BY <1>1, <1>2, <1>4
  <1>7. ActiveCells' = ActiveCells \ {c} /\ ActiveCells \subseteq Objects(cells)
    BY <1>3, <1>5 DEF ActiveCells
  <1>8. CellRefs' = CellRefs /\ PoolType(cells') /\ cells'.head < cells'.size
    BY <1>3 DEF CellRefs, PoolOK
  <1>9. cell_balance' \in Int
    BY <1>2, <1>4
  <1>10. \A i \in DOMAIN frames : frames[i].cell = c => i = k
    BY DEF HeapInv, CellsOwnedOnce
  <1>11. \A d \in ActiveCells : next[d] # c
    <2>1. \A i \in DOMAIN frames, d \in ActiveCells :
            frames[i].cell # NULL => frames[i].cell # next[d]
      BY DEF HeapInv, CellsOwnedOnce
    <2>2. QED
      BY <2>1
  <1>12. \A l \in LiveLines : first[l] # c
    <2>1. \A l \in LiveLines, i \in DOMAIN frames : first[l] # NULL => first[l] # frames[i].cell
      BY DEF HeapInv, CellsOwnedOnce
    <2>2. QED
      BY <2>1
  <1>13. CellsOwnedOnce'
    <2>1. ASSUME NEW d \in ActiveCells' PROVE CellPointed(d)'
      <3>1. d \in ActiveCells /\ d # c /\ d # NULL
        BY <1>7, HeapFacts
      <3>2. CellPointed(d)
        BY <1>7, <3>1 DEF HeapInv, CellsOwnedOnce
      <3>3. CASE \E l \in LiveLines : first[l] = d
        BY <3>3 DEF CellPointed
      <3>4. CASE \E i \in DOMAIN frames : frames[i].cell = d
        <4>1. PICK i \in DOMAIN frames : frames[i].cell = d
          BY <3>4
        <4>2. i # k /\ i \in DOMAIN frames'
          BY <3>1, <4>1
        <4>3. QED
          BY <4>1, <4>2 DEF CellPointed
      <3>5. CASE \E e \in ActiveCells : next[e] = d
        <4>1. PICK e \in ActiveCells : next[e] = d
          BY <3>5
        <4>2. CASE e = c
          BY <4>1, <4>2 DEF CellPointed
        <4>3. CASE e # c
          BY <1>6, <1>7, <4>1, <4>3 DEF CellPointed
        <4>4. QED
          BY <4>2, <4>3
      <3>6. QED
        BY <3>2, <3>3, <3>4, <3>5 DEF CellPointed
    <2>2. ASSUME NEW d \in Objects(cells'), CellPointed(d)' PROVE d \in ActiveCells'
      <3>1. d # NULL
        BY <1>3 DEF PoolOK, PoolType, Objects
      <3>2. CASE \E l \in LiveLines' : first'[l] = d
        BY <1>7, <1>12, <3>1, <3>2, HeapFacts
      <3>3. CASE \E i \in DOMAIN frames' : frames'[i].cell = d
        BY <1>1, <1>7, <1>10, <1>11, <3>1, <3>3, HeapFacts
      <3>4. CASE \E e \in ActiveCells' : next'[e] = d
        BY <1>6, <1>7, <1>11, <3>1, <3>4, HeapFacts
      <3>5. QED
        BY <2>2, <3>2, <3>3, <3>4 DEF CellPointed
    <2>3. \A d \in Objects(cells') : CellPointed(d)' <=> d \in ActiveCells'
      BY <2>1, <2>2
    <2>4. UsedObjects(cells') = ActiveCells'
      BY <1>3, <1>7, HeapFacts
    <2>5. \A i, j \in LiveLines' : first'[i] # NULL /\ first'[i] = first'[j] => i = j
      BY DEF HeapInv, CellsOwnedOnce
    <2>6. \A i \in DOMAIN frames' : i # k /\ frames'[i].cell # NULL => frames'[i].cell # next[c]
      BY <1>1 DEF HeapInv, CellsOwnedOnce
    <2>7. \A i, j \in DOMAIN frames' :
            frames'[i].cell # NULL /\ frames'[i].cell = frames'[j].cell => i = j
      BY <2>6 DEF HeapInv, CellsOwnedOnce
    <2>8. \A d, e \in ActiveCells' : next'[d] # NULL /\ next'[d] = next'[e] => d = e
      BY <1>6, <1>7 DEF HeapInv, CellsOwnedOnce
    <2>9. \A l \in LiveLines', i \in DOMAIN frames' : first'[l] # NULL => first'[l] # frames'[i].cell
      BY <1>1 DEF HeapInv, CellsOwnedOnce
    <2>10. \A l \in LiveLines', d \in ActiveCells' : first'[l] # NULL => first'[l] # next'[d]
      BY <1>6, <1>7 DEF HeapInv, CellsOwnedOnce
    <2>11. \A i \in DOMAIN frames', d \in ActiveCells' :
             frames'[i].cell # NULL => frames'[i].cell # next'[d]
      BY <1>1, <1>6, <1>7 DEF HeapInv, CellsOwnedOnce
    <2>12. QED
      BY <1>3, <2>3, <2>4, <2>5, <2>7, <2>8, <2>9, <2>10, <2>11 DEF CellsOwnedOnce
  <1>14. FreeCellsHaveNoVariant'
    BY <1>3, <1>6, <1>7 DEF HeapInv, FreeCellsHaveNoVariant
  <1>15. \A i \in DOMAIN frames' : i # k => frames'[i].cell # c
    BY <1>10
  <1>16. QED
    BY <1>1, <1>3, <1>5, <1>6, <1>7, <1>8, <1>9, <1>13, <1>14, <1>15
LEMMA Below ==
  ASSUME NEW n \in Nat, NEW i \in 1 .. n - 1
  PROVE  i \in 1 .. n /\ i + 1 \in 1 .. n /\ i # n
  OBVIOUS

(* Replacing the cell of one activation. *)
LEMMA FrameMoved ==
  ASSUME NEW s \in Seq(Frame), NEW k \in DOMAIN s, NEW x \in CellRefs
  PROVE  /\ [s EXCEPT ![k].cell = x] \in Seq(Frame)
         /\ DOMAIN [s EXCEPT ![k].cell = x] = DOMAIN s
         /\ Len([s EXCEPT ![k].cell = x]) = Len(s)
         /\ [s EXCEPT ![k].cell = x][k].cell = x
         /\ [s EXCEPT ![k].cell = x][k].line = s[k].line
         /\ \A i \in DOMAIN s : i # k => [s EXCEPT ![k].cell = x][i] = s[i]
  <1> DEFINE y == [s[k] EXCEPT !.cell = x]
  <1>1. s[k] \in Frame
    OBVIOUS
  <1>2. y \in Frame /\ y.cell = x /\ y.line = s[k].line
    BY <1>1 DEF Frame
  <1>3. [s EXCEPT ![k].cell = x] = [s EXCEPT ![k] = y]
    OBVIOUS
  <1> HIDE DEF y
  <1>4. /\ [s EXCEPT ![k] = y] \in Seq(Frame)
        /\ Len([s EXCEPT ![k] = y]) = Len(s)
        /\ DOMAIN [s EXCEPT ![k] = y] = DOMAIN s
        /\ [s EXCEPT ![k] = y][k] = y
        /\ \A i \in DOMAIN s : i # k => [s EXCEPT ![k] = y][i] = s[i]
    BY <1>2, SeqExcept, Zenon
  <1>5. QED
    BY <1>2, <1>3, <1>4

LEMMA DereferencedType ==
  ASSUME HeapInv, NEW g
  PROVE  /\ DOMAIN Dereferenced(gp_table, g) \subseteq GamePositions
         /\ \A x \in DOMAIN Dereferenced(gp_table, g) : Dereferenced(gp_table, g)[x] \in Int
  <1>1. DOMAIN gp_table \subseteq GamePositions /\ \A x \in DOMAIN gp_table : gp_table[x] \in Int
    BY DEF HeapInv, TypeOK
  <1> DEFINE D == DOMAIN gp_table \ (IF gp_table[g] = 1 THEN {g} ELSE {})
  <1>2. D \subseteq DOMAIN gp_table
    OBVIOUS
  <1> HIDE DEF D
  <1>3. Dereferenced(gp_table, g) = [x \in D |-> IF x = g THEN gp_table[x] - 1 ELSE gp_table[x]]
    BY DEF Dereferenced, D
  <1>4. QED
    BY <1>1, <1>2, <1>3

LEMMA DeleteCellHeap ==
  ASSUME HeapInv, DeleteCell
  PROVE  /\ HeapInv'
         /\ frames' # << >> /\ frames'[1].line = frames[1].line
  <1> DEFINE n == Len(frames)
             c == frames[n].cell
  <1>1. /\ frames # << >> /\ c # NULL /\ variant[c] = NULL
        /\ gp_table' = Dereferenced(gp_table, gpx[c])
        /\ CellRelease(c)
        /\ frames' = [frames EXCEPT ![n].cell = next[c]]
        /\ UNCHANGED <<lines, lines_sorted, first, gpx, line_balance, held, calls>>
    BY DEF DeleteCell, Last
  <1>2. /\ frames \in Seq(Frame) /\ n \in Nat \ {0} /\ n \in DOMAIN frames
        /\ DOMAIN frames = 1 .. n
    BY <1>1, TopFrame
  <1>3. c \in ActiveCells /\ next[c] \in CellRefs
    BY <1>1, <1>2, HeapFacts DEF HeapInv, TypeOK
  <1>4. /\ frames' \in Seq(Frame) /\ DOMAIN frames' = DOMAIN frames /\ Len(frames') = n
        /\ frames'[n].cell = next[c] /\ frames'[n].line = frames[n].line
        /\ \A i \in DOMAIN frames : i # n => frames'[i] = frames[i]
    BY <1>1, <1>2, <1>3, FrameMoved
  <1>5. \A i \in DOMAIN frames : frames'[i].line = frames[i].line
    BY <1>4
  <1>6. LiveLines' = LiveLines
    BY <1>1, <1>4, <1>5 DEF LiveLines
  <1>7. /\ ActiveCells' = ActiveCells \ {c}
        /\ Objects(cells') = Objects(cells)
        /\ PoolType(cells') /\ cells'.head < cells'.size
        /\ CellRefs' = CellRefs
        /\ is_active' \in [Objects(cells) -> BOOLEAN]
        /\ move' \in [Objects(cells) -> Moves \cup {InvalidMove}]
        /\ next' \in [Objects(cells) -> CellRefs]
        /\ variant' \in [Objects(cells) -> LineRefs] /\ variant'[c] = NULL
        /\ \A d \in Objects(cells) : d # c => variant'[d] = variant[d]
        /\ cell_balance' \in Int
        /\ \A i \in DOMAIN frames' : i # n => frames'[i].cell # c
        /\ CellsOwnedOnce' /\ FreeCellsHaveNoVariant'
    <2>1. \A i \in DOMAIN frames' : i # n => frames'[i].cell = frames[i].cell
      BY <1>4
    <2>2. n \in DOMAIN frames' /\ DOMAIN frames' \subseteq DOMAIN frames
      BY <1>2, <1>4
    <2>3. \A i \in DOMAIN frames : i \notin DOMAIN frames' => frames[i].cell = NULL
      BY <1>4
    <2>4. UNCHANGED <<first, gpx>> /\ frames'[n].cell = next[c]
      BY <1>1, <1>4
    <2> HIDE DEF n
    <2>5. QED
      BY <1>1, <1>2, <1>6, <2>1, <2>2, <2>3, <2>4, ReleaseCells
  <1>8. TypeOK'
    <2>1. /\ DOMAIN gp_table' \subseteq GamePositions
          /\ \A x \in DOMAIN gp_table' : gp_table'[x] \in Int
      BY <1>1, DereferencedType
    <2>2. frames' \in Seq([line : Objects(lines'), cell : CellRefs'])
      BY <1>1, <1>4, <1>7 DEF Frame
    <2>3. LineRefs' = LineRefs
      BY <1>1 DEF LineRefs
    <2>4. TypeOK
      BY DEF HeapInv
    <2>5. QED
      BY <1>1, <1>7, <2>1, <2>2, <2>3, <2>4 DEF TypeOK
  <1>9. LinesOwnedOnce'
    <2>1. ActiveCells \subseteq Objects(cells)
      BY DEF ActiveCells
    <2>2. VariantLines' = VariantLines
      BY <1>1, <1>7, <2>1 DEF VariantLines
    <2>3. HeldLines' = HeldLines
      BY <1>1 DEF HeldLines
    <2>4. QED
      BY <1>1, <1>7, <2>1, <2>2, <2>3 DEF HeapInv, LinesOwnedOnce
  <1>10. FramesInv'
    <2> SUFFICES ASSUME NEW i \in 1 .. n - 1
                 PROVE  /\ frames'[i].cell \in ActiveCells'
                        /\ variant'[frames'[i].cell] = frames'[i + 1].line
      BY <1>4 DEF FramesInv
    <2>1. i \in DOMAIN frames /\ i + 1 \in DOMAIN frames /\ i # n
      BY <1>2, Below
    <2>2. frames[i].cell \in ActiveCells /\ variant[frames[i].cell] = frames[i + 1].line
      BY DEF HeapInv, FramesInv
    <2>3. frames[i].cell \in Objects(cells)
      BY <2>2 DEF ActiveCells
    <2>4. QED
      BY <1>4, <1>5, <1>7, <2>1, <2>2, <2>3
  <1>11. frames' # << >> /\ frames'[1].line = frames[1].line
    BY <1>2, <1>4, <1>5
  <1>12. QED
    BY <1>1, <1>7, <1>8, <1>9, <1>10, <1>11 DEF HeapInv
(* A deletion starts on the variant of the cell it is at.                  *)
LEMMA DeleteVariantHeap ==
  ASSUME HeapInv, DeleteVariant, frames[1].line \in HeldLines
  PROVE  /\ HeapInv'
         /\ frames' # << >> /\ frames'[1].line = frames[1].line
  <1> DEFINE n == Len(frames)
             c == frames[n].cell
             v == variant[c]
             f == [line |-> v, cell |-> first[v]]
  <1>1. /\ frames # << >> /\ c # NULL /\ v # NULL
        /\ gp_table' = Dereferenced(gp_table, gpx[c])
        /\ frames' = Append(frames, f)
        /\ line_balance' = line_balance - 1
        /\ lines' = lines /\ lines_sorted' = FALSE
        /\ UNCHANGED <<cells, first, move, is_active, next, variant, gpx,
                       cell_balance, held, calls>>
    BY DEF DeleteVariant, Last, Unsorted, HeapInv
  <1>2. /\ frames \in Seq(Frame) /\ n \in Nat \ {0} /\ n \in DOMAIN frames
        /\ DOMAIN frames = 1 .. n
    BY <1>1, TopFrame
  <1>3. c \in ActiveCells /\ v \in UsedObjects(lines) /\ v \in VariantLines
    BY <1>1, <1>2, HeapFacts DEF VariantLines
  <1>4. v \in Objects(lines) /\ first[v] \in CellRefs /\ f \in Frame
    BY <1>3 DEF HeapInv, TypeOK, UsedObjects, Frame
  <1>5. /\ frames' \in Seq(Frame) /\ DOMAIN frames' = DOMAIN frames \cup {n + 1}
        /\ Len(frames') = n + 1 /\ frames'[n + 1] = f
        /\ \A i \in DOMAIN frames : frames'[i] = frames[i] /\ i # n + 1
    <2> HIDE DEF f
    <2>1. /\ Append(frames, f) \in Seq(Frame)
          /\ Len(Append(frames, f)) = Len(frames) + 1
          /\ DOMAIN Append(frames, f) = DOMAIN frames \cup {Len(frames) + 1}
          /\ \A i \in DOMAIN frames : Append(frames, f)[i] = frames[i] /\ i # Len(frames) + 1
          /\ Append(frames, f)[Len(frames) + 1] = f
      BY <1>2, <1>4, SeqAppend, ZenonT(40)
    <2>2. QED
      BY <1>1, <2>1
  <1>6. f.line = v /\ f.cell = first[v]
    OBVIOUS
  <1>7. \A i \in DOMAIN frames : frames[i].line # v
    <2> SUFFICES ASSUME NEW i \in DOMAIN frames, frames[i].line = v
                 PROVE  FALSE
      OBVIOUS
    <2>1. CASE i = 1
      BY <1>3, <2>1 DEF HeapInv, LinesOwnedOnce
    <2>2. CASE i # 1
      <3>1. i - 1 \in 1 .. n - 1 /\ i - 1 \in DOMAIN frames /\ i - 1 + 1 = i /\ i - 1 # n
        <4> HIDE DEF n
        <4>1. QED
          BY <1>2, <2>2
      <3>2. frames[i - 1].cell \in ActiveCells /\ variant[frames[i - 1].cell] = v
        BY <3>1 DEF HeapInv, FramesInv
      <3>3. frames[i - 1].cell = c
        BY <1>1, <1>3, <3>2 DEF HeapInv, LinesOwnedOnce
      <3>4. QED
        BY <1>1, <1>2, <3>1, <3>3 DEF HeapInv, CellsOwnedOnce
    <2>3. QED
      BY <2>1, <2>2
  <1>8. v \in LiveLines
    BY <1>3, <1>7 DEF LiveLines
  <1>9. LiveLines' = LiveLines \ {v}
    <2>1. \A x : (\E i \in DOMAIN frames' : frames'[i].line = x)
                   <=> (\E i \in DOMAIN frames : frames[i].line = x) \/ x = v
      BY <1>5, <1>6
    <2>2. \A x : x \in LiveLines' <=> x \in UsedObjects(lines) /\ ~ \E i \in DOMAIN frames' : frames'[i].line = x
      BY <1>1 DEF LiveLines
    <2>3. \A x : x \in LiveLines <=> x \in UsedObjects(lines) /\ ~ \E i \in DOMAIN frames : frames[i].line = x
      BY DEF LiveLines
    <2>4. QED
      BY <2>1, <2>2, <2>3
  <1>10. ActiveCells' = ActiveCells
    BY <1>1 DEF ActiveCells
  <1>11. TypeOK'
    <2>1. /\ DOMAIN gp_table' \subseteq GamePositions
          /\ \A x \in DOMAIN gp_table' : gp_table'[x] \in Int
      BY <1>1, DereferencedType
    <2>2. frames' \in Seq([line : Objects(lines'), cell : CellRefs'])
      BY <1>1, <1>5 DEF Frame, CellRefs
    <2>3. LineRefs' = LineRefs /\ CellRefs' = CellRefs
      BY <1>1 DEF LineRefs, CellRefs
    <2>4. line_balance' \in Int
      <3>1. line_balance \in Int
        BY DEF HeapInv, TypeOK
      <3>2. QED
        BY <1>1, <3>1
    <2>5. TypeOK /\ lines_sorted' \in BOOLEAN
      BY <1>1 DEF HeapInv
    <2>6. QED
      BY <1>1, <2>1, <2>2, <2>3, <2>4, <2>5 DEF TypeOK
  <1>12. LinesOwnedOnce'
    <2>1. VariantLines' = VariantLines /\ HeldLines' = HeldLines
      BY <1>1, <1>10 DEF VariantLines, HeldLines
    <2>2. QED
      BY <1>1, <1>10, <2>1 DEF HeapInv, LinesOwnedOnce
  <1>13. CellsOwnedOnce'
    <2>1. \A i \in DOMAIN frames' : i \in DOMAIN frames \/ i = n + 1
      BY <1>5
    <2>2. /\ \A i \in DOMAIN frames : frames'[i].cell = frames[i].cell
          /\ frames'[n + 1].cell = first[v]
          /\ n + 1 \in DOMAIN frames' /\ DOMAIN frames \subseteq DOMAIN frames'
      BY <1>5, <1>6
    <2>3. \A d \in Objects(cells) : CellPointed(d)' <=> CellPointed(d)
      <3> SUFFICES ASSUME NEW d \in Objects(cells)
                   PROVE  CellPointed(d)' <=> CellPointed(d)
        OBVIOUS
      <3>1. (\E e \in ActiveCells' : next'[e] = d) <=> (\E e \in ActiveCells : next[e] = d)
        BY <1>1, <1>10
      <3>2. (\E l \in LiveLines : first[l] = d)
              <=> (\E l \in LiveLines' : first'[l] = d) \/ first[v] = d
        BY <1>1, <1>8, <1>9
      <3>3. (\E i \in DOMAIN frames' : frames'[i].cell = d)
              <=> (\E i \in DOMAIN frames : frames[i].cell = d) \/ first[v] = d
        BY <2>1, <2>2
      <3>4. QED
        BY <3>1, <3>2, <3>3 DEF CellPointed
    <2>4. PoolOK(cells') /\ UsedObjects(cells') = ActiveCells'
      BY <1>1, <1>10 DEF HeapInv, CellsOwnedOnce
    <2>5. \A d \in Objects(cells') : CellPointed(d)' <=> d \in ActiveCells'
      BY <1>1, <1>10, <2>3 DEF HeapInv, CellsOwnedOnce
    <2>6. \A i, j \in LiveLines' : first'[i] # NULL /\ first'[i] = first'[j] => i = j
      BY <1>1, <1>9 DEF HeapInv, CellsOwnedOnce
    <2>7. \A i, j \in DOMAIN frames' :
            frames'[i].cell # NULL /\ frames'[i].cell = frames'[j].cell => i = j
      BY <1>8, <2>1, <2>2 DEF HeapInv, CellsOwnedOnce
    <2>8. \A d, e \in ActiveCells' : next'[d] # NULL /\ next'[d] = next'[e] => d = e
      BY <1>1, <1>10 DEF HeapInv, CellsOwnedOnce
    <2>9. \A l \in LiveLines', i \in DOMAIN frames' : first'[l] # NULL => first'[l] # frames'[i].cell
      BY <1>1, <1>8, <1>9, <2>1, <2>2 DEF HeapInv, CellsOwnedOnce
    <2>10. \A l \in LiveLines', d \in ActiveCells' : first'[l] # NULL => first'[l] # next'[d]
      BY <1>1, <1>9, <1>10 DEF HeapInv, CellsOwnedOnce
    <2>11. \A i \in DOMAIN frames', d \in ActiveCells' :
             frames'[i].cell # NULL => frames'[i].cell # next'[d]
      BY <1>1, <1>8, <1>10, <2>1, <2>2 DEF HeapInv, CellsOwnedOnce
    <2>12. QED
      BY <2>4, <2>5, <2>6, <2>7, <2>8, <2>9, <2>10, <2>11 DEF CellsOwnedOnce
  <1>14. FramesInv'
    <2> SUFFICES ASSUME NEW i \in 1 .. n
                 PROVE  /\ frames'[i].cell \in ActiveCells'
                        /\ variant'[frames'[i].cell] = frames'[i + 1].line
      <3> HIDE DEF n
      <3>1. 1 .. Len(frames') - 1 = 1 .. n
        BY <1>2, <1>5
      <3>2. QED
        BY <3>1 DEF FramesInv
    <2>1. CASE i = n
      BY <1>1, <1>2, <1>3, <1>5, <1>6, <1>10, <2>1
    <2>2. CASE i \in 1 .. n - 1
      <3>1. i \in DOMAIN frames /\ i + 1 \in DOMAIN frames /\ i # n
        BY <1>2, <2>2, Below
      <3>2. frames[i].cell \in ActiveCells /\ variant[frames[i].cell] = frames[i + 1].line
        BY <2>2 DEF HeapInv, FramesInv
      <3>3. QED
        BY <1>1, <1>5, <1>10, <3>1, <3>2
    <2>3. i = n \/ i \in 1 .. n - 1
      <3> HIDE DEF n
      <3>1. QED
        BY <1>2
    <2>4. QED
      BY <2>1, <2>2, <2>3
  <1>15. FreeCellsHaveNoVariant'
    BY <1>1, <1>10 DEF HeapInv, FreeCellsHaveNoVariant
  <1>16. frames' # << >> /\ frames'[1].line = frames[1].line
    <2>1. 1 \in DOMAIN frames /\ 1 \in DOMAIN frames'
      <3> HIDE DEF n
      <3>1. QED
        BY <1>2, <1>5
    <2>2. QED
      BY <1>5, <2>1
  <1>17. QED
    BY <1>1, <1>11, <1>12, <1>13, <1>14, <1>15, <1>16 DEF HeapInv
(* A deletion of a variant ends: the line goes back to the free stack, and *)
(* the cell whose variant it was to the one of the cells.                  *)
LEMMA DeleteReturnHeap ==
  ASSUME HeapInv, DeleteReturn
  PROVE  /\ HeapInv'
         /\ frames' # << >> /\ frames'[1].line = frames[1].line
  <1> USE NullAssumption
  <1> DEFINE n == Len(frames)
             k == n - 1
             v == frames[n].line
             c == frames[k].cell
             s == Front(frames)
  <1>1. /\ n > 1 /\ frames # << >> /\ frames[n].cell = NULL
        /\ lines' = Push(lines, v)
        /\ CellRelease(c)
        /\ frames' = [s EXCEPT ![k].cell = next[c]]
        /\ UNCHANGED <<lines_sorted, first, gpx, gp_table, line_balance, held, calls>>
    BY DEF DeleteReturn, Last
  <1>2. /\ frames \in Seq(Frame) /\ n \in Nat \ {0} /\ n \in DOMAIN frames
        /\ DOMAIN frames = 1 .. n
    BY <1>1, TopFrame
  <1>3. /\ k \in DOMAIN frames /\ k # n /\ k \in 1 .. k /\ k + 1 = n /\ k \in Nat \ {0}
        /\ \A i \in 1 .. n : i \in 1 .. k \/ i = n
        /\ \A i \in 1 .. k : i \in 1 .. n /\ i # n
    <2>1. n > 1
      BY <1>1
    <2> HIDE DEF n
    <2>2. QED
      BY <1>2, <2>1
  <1>4. /\ s \in Seq(Frame) /\ Len(s) = k /\ DOMAIN s = 1 .. k
        /\ \A i \in 1 .. k : s[i] = frames[i]
    <2>1. /\ Front(frames) \in Seq(Frame)
          /\ Len(Front(frames)) = Len(frames) - 1
          /\ DOMAIN Front(frames) = 1 .. Len(frames) - 1
          /\ \A i \in DOMAIN Front(frames) : Front(frames)[i] = frames[i]
      BY <1>1, <1>2, SeqFront, Zenon
    <2>2. QED
      BY <2>1
  <1>5. /\ c \in ActiveCells /\ variant[c] = v /\ c # NULL
    <2>1. /\ frames[k].cell \in ActiveCells
          /\ variant[frames[k].cell] = frames[k + 1].line
      BY <1>3 DEF HeapInv, FramesInv
    <2>2. QED
      BY <1>3, <2>1, HeapFacts
  <1>6. v \in Objects(lines) /\ v # NULL /\ v \in UsedObjects(lines) /\ v \in VariantLines
    <2>1. v \in Objects(lines)
      BY <1>1, <1>2, TopFrame
    <2>2. v # NULL
      BY <2>1, HeapFacts
    <2>3. QED
      BY <1>5, <2>1, <2>2, HeapFacts DEF VariantLines
  <1>7. /\ PoolOK(lines') /\ lines'.size = lines.size /\ Objects(lines') = Objects(lines)
        /\ UsedObjects(lines') = UsedObjects(lines) \ {v}
    <2>1. PoolOK(lines) /\ v \in UsedObjects(lines)
      BY <1>6, HeapFacts
    <2> HIDE DEF v
    <2>2. QED
      BY <1>1, <2>1, PushUnuses
  <1>8. /\ frames' \in Seq(Frame) /\ DOMAIN frames' = 1 .. k /\ Len(frames') = k
        /\ frames'[k].cell = next[c] /\ frames'[k].line = frames[k].line
        /\ \A i \in 1 .. k : i # k => frames'[i] = frames[i]
    <2>1. k \in DOMAIN s /\ next[c] \in CellRefs
      BY <1>3, <1>4, <1>5 DEF HeapInv, TypeOK, ActiveCells
    <2>2. s \in Seq(Frame)
      BY <1>4
    <2> HIDE DEF s, k, c
    <2>3. /\ [s EXCEPT ![k].cell = next[c]] \in Seq(Frame)
          /\ DOMAIN [s EXCEPT ![k].cell = next[c]] = DOMAIN s
          /\ Len([s EXCEPT ![k].cell = next[c]]) = Len(s)
          /\ [s EXCEPT ![k].cell = next[c]][k].cell = next[c]
          /\ [s EXCEPT ![k].cell = next[c]][k].line = s[k].line
          /\ \A i \in DOMAIN s : i # k => [s EXCEPT ![k].cell = next[c]][i] = s[i]
      BY <2>1, <2>2, FrameMoved
    <2>4. QED
      BY <1>1, <1>3, <1>4, <2>3
  <1>9. \A i \in 1 .. k : frames'[i].line = frames[i].line
    BY <1>8
  <1>10. LiveLines' = LiveLines
    <2>1. \A x : (\E i \in DOMAIN frames : frames[i].line = x)
                   <=> (\E i \in 1 .. k : frames[i].line = x) \/ x = v
      BY <1>2, <1>3
    <2>2. \A x : (\E i \in DOMAIN frames' : frames'[i].line = x)
                   <=> \E i \in 1 .. k : frames[i].line = x
      BY <1>8, <1>9
    <2>3. \A x : x \in LiveLines' <=> x \in UsedObjects(lines') /\ ~ \E i \in DOMAIN frames' : frames'[i].line = x
      BY DEF LiveLines
    <2>4. \A x : x \in LiveLines <=> x \in UsedObjects(lines) /\ ~ \E i \in DOMAIN frames : frames[i].line = x
      BY DEF LiveLines
    <2>5. \A x : x \in UsedObjects(lines') <=> x \in UsedObjects(lines) /\ x # v
      BY <1>7
    <2>6. \A x : x \in LiveLines' <=> x \in LiveLines
      BY <2>1, <2>2, <2>3, <2>4, <2>5, Zenon
    <2>7. QED
      BY <2>6
  <1>11. /\ ActiveCells' = ActiveCells \ {c}
         /\ Objects(cells') = Objects(cells)
         /\ PoolType(cells') /\ cells'.head < cells'.size
         /\ CellRefs' = CellRefs
         /\ is_active' \in [Objects(cells) -> BOOLEAN]
         /\ move' \in [Objects(cells) -> Moves \cup {InvalidMove}]
         /\ next' \in [Objects(cells) -> CellRefs]
         /\ variant' \in [Objects(cells) -> LineRefs] /\ variant'[c] = NULL
         /\ \A d \in Objects(cells) : d # c => variant'[d] = variant[d]
         /\ cell_balance' \in Int
         /\ \A i \in DOMAIN frames' : i # k => frames'[i].cell # c
         /\ CellsOwnedOnce' /\ FreeCellsHaveNoVariant'
    <2>1. \A i \in DOMAIN frames' : i # k => frames'[i].cell = frames[i].cell
      BY <1>8
    <2>2. k \in DOMAIN frames' /\ DOMAIN frames' \subseteq DOMAIN frames
      BY <1>2, <1>3, <1>8
    <2>3. \A i \in DOMAIN frames : i \notin DOMAIN frames' => frames[i].cell = NULL
      BY <1>1, <1>2, <1>3, <1>8
    <2>4. UNCHANGED <<first, gpx>> /\ frames'[k].cell = next[c]
      BY <1>1, <1>8
    <2> HIDE DEF k
    <2>5. QED
      BY <1>1, <1>3, <1>5, <1>10, <2>1, <2>2, <2>3, <2>4, ReleaseCells
  <1>12. TypeOK'
    <2>1. frames' \in Seq([line : Objects(lines'), cell : CellRefs'])
      BY <1>7, <1>8, <1>11 DEF Frame
    <2>2. LineRefs' = LineRefs
      BY <1>7 DEF LineRefs
    <2>3. PoolType(lines') /\ lines'.head < lines'.size
      BY <1>7 DEF PoolOK
    <2>4. TypeOK
      BY DEF HeapInv
    <2>5. QED
      BY <1>1, <1>7, <1>11, <2>1, <2>2, <2>3, <2>4 DEF TypeOK
  <1>13. LinesOwnedOnce'
    <2>1. ActiveCells \subseteq Objects(cells)
      BY DEF ActiveCells
    <2>2. \A d, e \in ActiveCells : variant[d] # NULL /\ variant[d] = variant[e] => d = e
      BY DEF HeapInv, LinesOwnedOnce
    <2>3. \A d \in ActiveCells' : d \in ActiveCells /\ d # c /\ variant'[d] = variant[d]
      BY <1>11, <2>1
    <2>4. VariantLines' = VariantLines \ {v}
      <3>1. \A x : x \in VariantLines' <=> \E d \in ActiveCells : d # c /\ variant[d] # NULL /\ variant[d] = x
        BY <1>11, <2>3 DEF VariantLines
      <3>2. \A x : x \in VariantLines <=> \E d \in ActiveCells : variant[d] # NULL /\ variant[d] = x
        BY DEF VariantLines
      <3> HIDE DEF c, v
      <3>3. QED
        BY <1>5, <1>6, <2>2, <3>1, <3>2
    <2>5. HeldLines' = HeldLines
      BY <1>1 DEF HeldLines
    <2>6. v \notin HeldLines
      BY <1>6 DEF HeapInv, LinesOwnedOnce
    <2>7. \A i, j \in DOMAIN held' : held'[i] = held'[j] => i = j
      BY <1>1 DEF HeapInv, LinesOwnedOnce
    <2>8. \A d, e \in ActiveCells' : variant'[d] # NULL /\ variant'[d] = variant'[e] => d = e
      BY <2>2, <2>3
    <2>9. UsedObjects(lines) = HeldLines \cup VariantLines /\ HeldLines \cap VariantLines = {}
      BY DEF HeapInv, LinesOwnedOnce
    <2>10. /\ UsedObjects(lines') = HeldLines' \cup VariantLines'
           /\ HeldLines' \cap VariantLines' = {}
      BY <1>7, <2>4, <2>5, <2>6, <2>9
    <2>11. QED
      BY <1>7, <2>7, <2>8, <2>10 DEF LinesOwnedOnce
  <1>14. FramesInv'
    <2> SUFFICES ASSUME NEW i \in 1 .. k - 1
                 PROVE  /\ frames'[i].cell \in ActiveCells'
                        /\ variant'[frames'[i].cell] = frames'[i + 1].line
      BY <1>8 DEF FramesInv
    <2>1. i \in 1 .. k /\ i + 1 \in 1 .. k /\ i # k /\ i \in 1 .. n - 1
      BY <1>3, Below
    <2>2. frames[i].cell \in ActiveCells /\ variant[frames[i].cell] = frames[i + 1].line
      BY <2>1 DEF HeapInv, FramesInv
    <2>3. frames[i].cell \in Objects(cells)
      BY <2>2 DEF ActiveCells
    <2>4. /\ frames'[i] = frames[i] /\ frames'[i + 1].line = frames[i + 1].line
          /\ frames'[i].cell # c
      BY <1>8, <1>9, <1>11, <2>1
    <2>5. QED
      BY <1>11, <2>2, <2>3, <2>4
  <1>15. frames' # << >> /\ frames'[1].line = frames[1].line
    <2>1. 1 \in 1 .. k
      <3> HIDE DEF k
      <3>1. QED
        BY <1>3
    <2>2. QED
      BY <1>8, <1>9, <2>1
  <1>16. lines_sorted' = FALSE
    BY <1>1 DEF HeapInv
  <1>17. QED
    BY <1>11, <1>12, <1>13, <1>14, <1>15, <1>16 DEF HeapInv

(* The outermost deletion ends: the search lets go of the line.            *)
LEMMA DeleteEndHeap ==
  ASSUME HeapInv, DeleteEnd, frames[1].line \in HeldLines,
         held' \in Seq(Objects(lines)), Injective(held'),
         HeldLines' = HeldLines \ {frames[1].line},
         calls' \in Seq([pc : Labels, branch_is_active : BOOLEAN])
  PROVE  HeapInv' /\ frames' = << >>
  <1> DEFINE v == frames[1].line
  <1>1. /\ frames # << >> /\ DOMAIN frames = {1} /\ frames[1].cell = NULL
        /\ lines' = Push(lines, v) /\ frames' = << >>
        /\ UNCHANGED <<cells, lines_sorted, first, move, is_active, next, variant,
                       gpx, gp_table, line_balance, cell_balance>>
    <2>0. Len(frames) = 1
      BY DEF DeleteEnd
    <2>4. Len(<< >>) = 0 /\ 0 # 1
      OBVIOUS
    <2>1. Len(frames) = 1 /\ frames # << >>
      BY <2>0, <2>4, Zenon
    <2>2. DOMAIN frames = {1} /\ Last(frames) = frames[1]
      BY <2>1, TopFrame
    <2>3. QED
      BY <2>1, <2>2 DEF DeleteEnd
  <1>2. /\ PoolOK(lines') /\ lines'.size = lines.size /\ Objects(lines') = Objects(lines)
        /\ UsedObjects(lines') = UsedObjects(lines) \ {v}
    <2>1. PoolOK(lines) /\ v \in UsedObjects(lines)
      BY HeapFacts DEF HeapInv, LinesOwnedOnce
    <2> HIDE DEF v
    <2>2. QED
      BY <1>1, <2>1, PushUnuses
  <1>3. LiveLines' = LiveLines
    <2>1. LiveLines = UsedObjects(lines) \ {v} /\ LiveLines' = UsedObjects(lines')
      BY <1>1 DEF LiveLines
    <2>2. QED
      BY <1>2, <2>1
  <1>4. ActiveCells' = ActiveCells
    BY <1>1 DEF ActiveCells
  <1>5. TypeOK'
    <2>1. frames' \in Seq([line : Objects(lines'), cell : CellRefs'])
      BY <1>1
    <2>2. LineRefs' = LineRefs /\ CellRefs' = CellRefs
      BY <1>1, <1>2 DEF LineRefs, CellRefs
    <2>3. PoolType(lines') /\ lines'.head < lines'.size
      BY <1>2 DEF PoolOK
    <2>4. TypeOK
      BY DEF HeapInv
    <2>5. QED
      BY <1>1, <1>2, <2>1, <2>2, <2>3, <2>4 DEF TypeOK
  <1>6. LinesOwnedOnce'
    <2>1. VariantLines' = VariantLines
      BY <1>1, <1>4 DEF VariantLines
    <2>2. UsedObjects(lines) = HeldLines \cup VariantLines /\ HeldLines \cap VariantLines = {}
      BY DEF HeapInv, LinesOwnedOnce
    <2>3. UsedObjects(lines') = HeldLines' \cup VariantLines' /\ HeldLines' \cap VariantLines' = {}
      BY <1>2, <2>1, <2>2
    <2>4. \A d, e \in ActiveCells' : variant'[d] # NULL /\ variant'[d] = variant'[e] => d = e
      BY <1>1, <1>4 DEF HeapInv, LinesOwnedOnce
    <2>5. QED
      BY <1>2, <2>3, <2>4 DEF LinesOwnedOnce, Injective
  <1>7. CellsOwnedOnce'
    <2>1. DOMAIN frames' = {}
      BY <1>1
    <2>2. \A d \in Objects(cells) : d # NULL
      BY NullAssumption, HeapFacts
    <2>3. \A d \in Objects(cells) : CellPointed(d)' <=> CellPointed(d)
      BY <1>1, <1>3, <1>4, <2>1, <2>2 DEF CellPointed
    <2>4. QED
      BY <1>1, <1>3, <1>4, <2>1, <2>3 DEF HeapInv, CellsOwnedOnce
  <1>8. FreeCellsHaveNoVariant' /\ FramesInv' /\ lines_sorted' = FALSE
    BY <1>1, <1>4 DEF HeapInv, FreeCellsHaveNoVariant, FramesInv
  <1>9. QED
    BY <1>1, <1>5, <1>6, <1>7, <1>8 DEF HeapInv
-----------------------------------------------------------------------------
(* The calls of the search. *)
Call == [pc : Labels, branch_is_active : BOOLEAN]

LEMMA CallsFacts ==
  ASSUME IInv, calls # << >>
  PROVE  /\ calls \in Seq(Call) /\ Len(calls) \in Nat \ {0} /\ Len(calls) \in DOMAIN calls
         /\ DOMAIN calls = 1 .. Len(calls) /\ Last(calls) = calls[Len(calls)]
         /\ held \in Seq(Objects(lines)) /\ held # << >> /\ DOMAIN held = 1 .. Len(held)
         /\ Injective(held)
         /\ Last(calls).pc \notin WithLine => Len(held) = Len(calls)
         /\ Last(calls).pc \in WithLine => Len(held) = Len(calls) + 1 /\ Len(held) >= 2
         /\ \A k \in 1 .. Len(calls) : k \in DOMAIN held /\ held[k] \in UsedObjects(lines)
  <1>1. calls \in Seq(Call) /\ held \in Seq(Objects(lines))
    BY DEF IInv, TypeOK, Call
  <1>2. /\ Len(calls) \in Nat \ {0} /\ DOMAIN calls = 1 .. Len(calls)
        /\ Len(held) \in Nat /\ DOMAIN held = 1 .. Len(held)
    BY <1>1
  <1> DEFINE n == Len(calls)
             h == Len(held)
             b == Last(calls).pc \in WithLine
  <1>12. n \in Nat \ {0} /\ h \in Nat
    BY <1>2
  <1>13. h = n + IF b THEN 1 ELSE 0
    BY Zenon DEF IInv, CallsInv
  <1> HIDE DEF n, h, b
  <1>14. (~ b => h = n) /\ (b => h = n + 1 /\ h >= 2) /\ h >= n /\ h > 0
    BY <1>12, <1>13
  <1>3. /\ Last(calls).pc \notin WithLine => Len(held) = Len(calls)
        /\ Last(calls).pc \in WithLine => Len(held) = Len(calls) + 1 /\ Len(held) >= 2
    BY <1>14 DEF n, h, b
  <1>4. Len(calls) \in DOMAIN calls /\ Last(calls) = calls[Len(calls)]
    BY <1>2 DEF Last
  <1>5. Len(held) >= Len(calls) /\ Len(held) > 0
    BY <1>14 DEF n, h
  <1>6. held # << >>
    BY <1>2, <1>5
  <1>8. \A k \in 1 .. Len(calls) : k \in DOMAIN held
    BY <1>2, <1>5
  <1>9. \A k \in 1 .. Len(calls) : held[k] \in UsedObjects(lines)
    BY <1>8, HeapFacts, IInvParts
  <1>10. Injective(held)
    BY DEF IInv, LinesOwnedOnce, Injective
  <1>11. QED
    BY <1>1, <1>2, <1>3, <1>4, <1>6, <1>8, <1>9, <1>10

LEMMA GotoFacts ==
  ASSUME calls \in Seq(Call), Len(calls) \in DOMAIN calls, NEW label \in Labels
  PROVE  /\ Goto(label) \in Seq(Call) /\ Len(Goto(label)) = Len(calls)
         /\ DOMAIN Goto(label) = DOMAIN calls
         /\ Goto(label)[Len(calls)].pc = label
         /\ Last(Goto(label)).pc = label
         /\ \A k \in DOMAIN calls : Goto(label)[k].branch_is_active = calls[k].branch_is_active
         /\ \A k \in DOMAIN calls : k # Len(calls) => Goto(label)[k] = calls[k]
  <1> DEFINE n == Len(calls)
             y == [calls[n] EXCEPT !.pc = label]
  <1>1. calls[n] \in Call
    OBVIOUS
  <1>2. y \in Call /\ y.pc = label /\ y.branch_is_active = calls[n].branch_is_active
    BY <1>1 DEF Call
  <1>3. Goto(label) = [calls EXCEPT ![n] = y]
    BY DEF Goto
  <1> HIDE DEF y
  <1>4. /\ [calls EXCEPT ![n] = y] \in Seq(Call)
        /\ Len([calls EXCEPT ![n] = y]) = Len(calls)
        /\ DOMAIN [calls EXCEPT ![n] = y] = DOMAIN calls
        /\ [calls EXCEPT ![n] = y][n] = y
        /\ \A i \in DOMAIN calls : i # n => [calls EXCEPT ![n] = y][i] = calls[i]
    BY <1>2, SeqExcept, Zenon
  <1>5. QED
    BY <1>2, <1>3, <1>4 DEF Last

(* Steps of the search that leave the environment alone. *)
LEMMA HeapSame ==
  ASSUME HeapInv, UNCHANGED <<heap, held, frames>>,
         calls' \in Seq([pc : Labels, branch_is_active : BOOLEAN])
  PROVE  HeapInv'
  <1>1. TypeOK'
    BY DEF HeapInv, TypeOK, heap, LineRefs, CellRefs
  <1>2. LiveLines' = LiveLines /\ ActiveCells' = ActiveCells
    BY DEF heap, LiveLines, ActiveCells
  <1>3. LinesOwnedOnce' /\ lines_sorted' = FALSE
    BY <1>2 DEF HeapInv, LinesOwnedOnce, heap, HeldLines, VariantLines
  <1>4. CellsOwnedOnce'
    BY <1>2 DEF HeapInv, CellsOwnedOnce, CellPointed, heap
  <1>5. FreeCellsHaveNoVariant' /\ FramesInv'
    BY <1>2 DEF HeapInv, FreeCellsHaveNoVariant, FramesInv, heap
  <1>6. QED
    BY <1>1, <1>3, <1>4, <1>5 DEF HeapInv

(* There are legal moves. *)
LEMMA MoveNodeIInv == ASSUME IInv, MoveNode PROVE IInv'
  <1> DEFINE n == Len(calls)
  <1>1. /\ frames = << >> /\ calls # << >> /\ Last(calls).pc = "enter"
        /\ calls' = Goto("first") /\ UNCHANGED <<heap, held, frames>>
    BY DEF MoveNode, Searching
  <1>2. /\ calls \in Seq(Call) /\ n \in Nat \ {0} /\ n \in DOMAIN calls
        /\ DOMAIN calls = 1 .. n /\ Last(calls) = calls[n]
        /\ Len(held) = n
    BY <1>1, CallsFacts DEF WithLine
  <1>3. /\ calls' \in Seq(Call) /\ Len(calls') = n /\ Last(calls').pc = "first" /\ calls' # << >>
        /\ \A k \in DOMAIN calls : calls'[k].branch_is_active = calls[k].branch_is_active
        /\ \A k \in DOMAIN calls : k # n => calls'[k] = calls[k]
    <2>1. "first" \in Labels
      BY DEF Labels
    <2>2. /\ calls' \in Seq(Call) /\ Len(calls') = n /\ Last(calls').pc = "first"
          /\ \A k \in DOMAIN calls : calls'[k].branch_is_active = calls[k].branch_is_active
          /\ \A k \in DOMAIN calls : k # n => calls'[k] = calls[k]
      BY <1>1, <1>2, <2>1, GotoFacts
    <2>3. calls' # << >>
      BY <1>2, <2>2
    <2>4. QED
      BY <2>2, <2>3
  <1> HIDE DEF n
  <1>4. HeapInv'
    BY <1>1, <1>3, IInvParts, HeapSame DEF Call
  <1>5. CallsInv'
    BY <1>1, <1>2, <1>3 DEF IInv, CallsInv, WithLine
  <1>6. ParentsInv'
    BY <1>1, <1>2, <1>3 DEF IInv, ParentsInv, heap
  <1>7. QED
    BY <1>4, <1>5, <1>6, IInvParts DEF IInv, HeapInv
(* A line is created for a recursive call, after a move or after a pass. *)
LEMMA CallNodeIInv ==
  ASSUME IInv, NEW from \in {"enter", "first", "loop"}, NEW to \in {"call", "pass_call"},
         Searching({from}), LineCreate, calls' = Append(Goto(to), NewCall),
         UNCHANGED <<cells, move, is_active, next, variant, gpx, gp_table,
                     cell_balance, frames>>
  PROVE  IInv'
  <1> DEFINE n == Len(calls)
             s == Goto(to)
  <1>1. frames = << >> /\ calls # << >> /\ Last(calls).pc = from /\ from \notin WithLine
    BY DEF Searching, WithLine
  <1>2. /\ calls \in Seq(Call) /\ n \in Nat \ {0} /\ n \in DOMAIN calls
        /\ DOMAIN calls = 1 .. n /\ Last(calls) = calls[n]
        /\ Len(held) = n /\ DOMAIN held = 1 .. Len(held)
        /\ \A k \in 1 .. n : k \in DOMAIN held /\ held[k] \in UsedObjects(lines)
    BY <1>1, CallsFacts
  <1>3. /\ s \in Seq(Call) /\ Len(s) = n /\ DOMAIN s = 1 .. n /\ s[n].pc = to
        /\ \A k \in DOMAIN calls : s[k].branch_is_active = calls[k].branch_is_active
        /\ \A k \in DOMAIN calls : k # n => s[k] = calls[k]
    <2>1. to \in Labels
      BY DEF Labels
    <2>2. QED
      BY <1>2, <2>1, GotoFacts
  <1>4. NewCall \in Call /\ NewCall.pc = "enter" /\ NewCall.branch_is_active = FALSE
    BY DEF NewCall, Call, Labels
  <1> HIDE DEF s
  <1>5. /\ calls' \in Seq(Call) /\ Len(calls') = n + 1 /\ DOMAIN calls' = 1 .. n + 1
        /\ \A k \in 1 .. n : calls'[k] = s[k] /\ k # n + 1
        /\ calls'[n + 1] = NewCall /\ Last(calls') = NewCall /\ calls' # << >>
    <2>1. calls' = Append(s, NewCall)
      BY DEF s
    <2>0. s \in Seq(Call) /\ NewCall \in Call
      BY <1>3, <1>4
    <2>2. /\ Append(s, NewCall) \in Seq(Call) /\ Len(Append(s, NewCall)) = Len(s) + 1
          /\ DOMAIN Append(s, NewCall) = DOMAIN s \cup {Len(s) + 1}
          /\ \A k \in DOMAIN s : Append(s, NewCall)[k] = s[k] /\ k # Len(s) + 1
          /\ Append(s, NewCall)[Len(s) + 1] = NewCall
      BY <2>0, SeqAppend
    <2>3. /\ calls' \in Seq(Call) /\ Len(calls') = n + 1
          /\ \A k \in 1 .. n : calls'[k] = s[k] /\ k # n + 1
          /\ calls'[n + 1] = NewCall
      BY <1>3, <2>1, <2>2, Zenon
    <2>4. DOMAIN calls' = 1 .. n + 1
      BY <2>3
    <2>5. Last(calls') = NewCall
      BY <2>3 DEF Last
    <2>6. calls' # << >>
      BY <1>2, <2>3
    <2>7. QED
      BY <2>3, <2>4, <2>5, <2>6
  <1>6. /\ HeapInv'
        /\ held' = Append(held, Top(lines)) /\ held \in Seq(Objects(lines))
        /\ \A l \in UsedObjects(lines) : first'[l] = first[l]
    <2>1. calls' \in Seq([pc : Labels, branch_is_active : BOOLEAN])
      BY <1>5 DEF Call
    <2>2. QED
      BY <1>1, <2>1, IInvParts, CreateHeap
  <1>7. /\ Len(held') = n + 1
        /\ \A k \in 1 .. n : held'[k] = held[k]
    <2>1. Top(lines) \in Objects(lines) /\ held \in Seq(Objects(lines))
      BY <1>6, IInvParts, HeapFacts, PopUses
    <2>2. /\ Append(held, Top(lines)) \in Seq(Objects(lines))
          /\ Len(Append(held, Top(lines))) = Len(held) + 1
          /\ DOMAIN Append(held, Top(lines)) = DOMAIN held \cup {Len(held) + 1}
          /\ \A k \in DOMAIN held : /\ Append(held, Top(lines))[k] = held[k]
                                  /\ k # Len(held) + 1
          /\ Append(held, Top(lines))[Len(held) + 1] = Top(lines)
      BY <2>1, SeqAppend
    <2>3. QED
      BY <1>2, <1>6, <2>2
  <1> HIDE DEF n
  <1>8. frames' = << >> /\ "enter" \notin WithLine
    BY <1>1 DEF WithLine
  <1>9. CallsInv'
    <2>1. \A k \in 1 .. n : k = n \/ k \in 1 .. n - 1
      BY <1>2
    <2>2. \A k \in 1 .. n - 1 : k \in 1 .. n /\ k # n
      BY <1>2
    <2>3. \A k \in 1 .. n : calls'[k].pc \in {"call", "pass_call"}
      <3>1. \A k \in 1 .. n - 1 : calls[k].pc \in {"call", "pass_call"}
        BY DEF IInv, CallsInv, n
      <3>2. QED
        BY <1>2, <1>3, <1>5, <2>1, <2>2, <3>1
    <2>4. 1 .. Len(calls') - 1 = 1 .. n
      BY <1>2, <1>5
    <2>5. Len(held') = Len(calls') + IF Last(calls').pc \in WithLine THEN 1 ELSE 0
      BY <1>2, <1>4, <1>5, <1>7, <1>8
    <2>6. QED
      BY <1>5, <1>8, <2>3, <2>4, <2>5 DEF CallsInv
  <1>10. ParentsInv'
    <2>1. Last(calls').pc = "enter"
      BY <1>4, <1>5
    <2>2. ASSUME NEW k \in 1 .. n + 1, calls'[k].branch_is_active
          PROVE  first'[held'[k]] # NULL
      <3>1. k \in 1 .. n
        BY <1>2, <1>4, <1>5, <2>2
      <3>2. calls[k].branch_is_active
        BY <1>2, <1>3, <1>5, <2>2, <3>1
      <3>3. first[held[k]] # NULL
        BY <1>1, <1>2, <3>1, <3>2 DEF IInv, ParentsInv, n
      <3>4. QED
        BY <1>2, <1>6, <1>7, <3>1, <3>3
    <2>3. QED
      BY <1>5, <2>1, <2>2 DEF ParentsInv
  <1>11. QED
    BY <1>6, <1>9, <1>10, IInvParts DEF IInv, HeapInv

(* The game is over: an empty line. *)
LEMMA LeafNodeIInv == ASSUME IInv, LeafNode PROVE IInv'
  <1> DEFINE n == Len(calls)
  <1>1. /\ frames = << >> /\ calls # << >> /\ Last(calls).pc = "enter"
        /\ LineCreate /\ calls' = Goto("pass_back")
        /\ UNCHANGED <<cells, move, is_active, next, variant, gpx, gp_table,
                       cell_balance, frames>>
    BY DEF LeafNode, Searching
  <1>2. /\ calls \in Seq(Call) /\ n \in Nat \ {0} /\ n \in DOMAIN calls
        /\ DOMAIN calls = 1 .. n /\ Last(calls) = calls[n]
        /\ Len(held) = n /\ DOMAIN held = 1 .. Len(held)
        /\ \A k \in 1 .. n : k \in DOMAIN held /\ held[k] \in UsedObjects(lines)
    BY <1>1, CallsFacts DEF WithLine
  <1>3. /\ calls' \in Seq(Call) /\ Len(calls') = n /\ Last(calls').pc = "pass_back" /\ calls' # << >>
        /\ \A k \in DOMAIN calls : calls'[k].branch_is_active = calls[k].branch_is_active
        /\ \A k \in DOMAIN calls : k # n => calls'[k] = calls[k]
    <2>1. "pass_back" \in Labels
      BY DEF Labels
    <2>2. /\ calls' \in Seq(Call) /\ Len(calls') = n /\ Last(calls').pc = "pass_back"
          /\ \A k \in DOMAIN calls : calls'[k].branch_is_active = calls[k].branch_is_active
          /\ \A k \in DOMAIN calls : k # n => calls'[k] = calls[k]
      BY <1>1, <1>2, <2>1, GotoFacts
    <2>3. calls' # << >>
      BY <1>2, <2>2
    <2>4. QED
      BY <2>2, <2>3
  <1>6. /\ HeapInv'
        /\ held' = Append(held, Top(lines)) /\ held \in Seq(Objects(lines))
        /\ \A l \in UsedObjects(lines) : first'[l] = first[l]
    <2>1. calls' \in Seq([pc : Labels, branch_is_active : BOOLEAN])
      BY <1>3 DEF Call
    <2>2. QED
      BY <1>1, <2>1, IInvParts, CreateHeap
  <1>7. /\ Len(held') = n + 1
        /\ \A k \in 1 .. n : held'[k] = held[k]
    <2>1. Top(lines) \in Objects(lines) /\ held \in Seq(Objects(lines))
      BY <1>6, IInvParts, HeapFacts, PopUses
    <2>2. /\ Append(held, Top(lines)) \in Seq(Objects(lines))
          /\ Len(Append(held, Top(lines))) = Len(held) + 1
          /\ DOMAIN Append(held, Top(lines)) = DOMAIN held \cup {Len(held) + 1}
          /\ \A k \in DOMAIN held : /\ Append(held, Top(lines))[k] = held[k]
                                  /\ k # Len(held) + 1
          /\ Append(held, Top(lines))[Len(held) + 1] = Top(lines)
      BY <2>1, SeqAppend
    <2>3. QED
      BY <1>2, <1>6, <2>2
  <1> HIDE DEF n
  <1>8. frames' = << >> /\ "pass_back" \in WithLine
    BY <1>1 DEF WithLine
  <1>9. CallsInv'
    <2>1. \A k \in 1 .. n - 1 : calls'[k] = calls[k]
      BY <1>2, <1>3
    <2>2. \A k \in 1 .. n - 1 : calls[k].pc \in {"call", "pass_call"}
      BY DEF IInv, CallsInv, n
    <2>3. Len(held') = Len(calls') + IF Last(calls').pc \in WithLine THEN 1 ELSE 0
      BY <1>2, <1>3, <1>7, <1>8
    <2>4. QED
      BY <1>3, <1>8, <2>1, <2>2, <2>3 DEF CallsInv
  <1>10. ParentsInv'
    <2>1. ASSUME NEW k \in 1 .. n, calls'[k].branch_is_active
          PROVE  first'[held'[k]] # NULL
      <3>1. calls[k].branch_is_active
        BY <1>2, <1>3, <2>1
      <3>2. first[held[k]] # NULL
        BY <1>1, <1>2, <3>1 DEF IInv, ParentsInv, n
      <3>3. QED
        BY <1>2, <1>6, <1>7, <3>2
    <2>2. QED
      BY <1>3, <2>1 DEF ParentsInv
  <1>11. QED
    BY <1>6, <1>9, <1>10, IInvParts DEF IInv, HeapInv
(* The outcomes of the comparison of two lines. *)
LEMMA BackFacts ==
  ASSUME IInv, NEW from \in {"back", "pass_back"}, Searching({from})
  PROVE  /\ frames = << >> /\ calls # << >> /\ Last(calls).pc = from
         /\ calls \in Seq(Call) /\ Len(calls) \in Nat \ {0} /\ Len(calls) \in DOMAIN calls
         /\ DOMAIN calls = 1 .. Len(calls) /\ Last(calls) = calls[Len(calls)]
         /\ Len(held) = Len(calls) + 1 /\ Len(held) >= 2 /\ DOMAIN held = 1 .. Len(held)
         /\ held \in Seq(Objects(lines)) /\ held # << >> /\ Injective(held)
         /\ \A k \in 1 .. Len(calls) : k \in DOMAIN held /\ held[k] \in UsedObjects(lines)
         /\ \A k \in 1 .. Len(calls) : held[k] # Last(held) /\ held[k] \in Objects(lines)
         /\ held[Len(calls)] = ParentLine
         /\ \A k \in 1 .. Len(calls) : calls[k].branch_is_active => first[held[k]] # NULL
         /\ HeapInv
  <1> DEFINE n == Len(calls)
  <1>1. frames = << >> /\ calls # << >> /\ Last(calls).pc = from /\ from \in WithLine
    BY DEF Searching, WithLine
  <1>2. /\ calls \in Seq(Call) /\ n \in Nat \ {0} /\ n \in DOMAIN calls
        /\ DOMAIN calls = 1 .. n /\ Last(calls) = calls[n]
        /\ Len(held) = n + 1 /\ Len(held) >= 2 /\ DOMAIN held = 1 .. Len(held)
        /\ held \in Seq(Objects(lines)) /\ held # << >> /\ Injective(held)
        /\ \A k \in 1 .. n : k \in DOMAIN held /\ held[k] \in UsedObjects(lines)
    BY <1>1, CallsFacts
  <1>3. Last(held) = held[Len(held)] /\ ParentLine = held[n] /\ HeapInv
    <2>1. Len(held) - 1 = n
      <3> HIDE DEF n
      <3>1. QED
        BY <1>2
    <2>2. QED
      BY <2>1, IInvParts DEF Last, ParentLine
  <1>4. \A k \in 1 .. n : held[k] # Last(held)
    <2>1. \A k \in 1 .. n : k # Len(held)
      <3> HIDE DEF n
      <3>1. QED
        BY <1>2
    <2>2. Len(held) \in DOMAIN held
      <3> HIDE DEF n
      <3>1. QED
        BY <1>2
    <2>3. QED
      BY <1>2, <1>3, <2>1, <2>2 DEF Injective
  <1>5. \A k \in 1 .. n : held[k] \in Objects(lines)
    BY <1>2 DEF UsedObjects
  <1>6. \A k \in 1 .. n : calls[k].branch_is_active => first[held[k]] # NULL
    BY <1>1, <1>2 DEF IInv, ParentsInv
  <1>7. QED
    BY <1>1, <1>2, <1>3, <1>4, <1>5, <1>6

LEMMA AcceptIInv ==
  ASSUME IInv, NEW m \in Moves, NEW g \in GamePositions,
         NEW from \in {"back", "pass_back"}, NEW to \in {"accept", "pass_accept"},
         AcceptLine(m, g, from, to)
  PROVE  IInv'
  <1> DEFINE n == Len(calls)
             y == [pc |-> to, branch_is_active |-> TRUE]
  <1>1. /\ Searching({from}) /\ LineAddMove(Last(held), m, g) /\ variant' = VariantsGrown
        /\ LineDelete(ParentLine) /\ calls' = [calls EXCEPT ![n] = y] /\ held' = held
    BY DEF AcceptLine
  <1>2. /\ frames = << >> /\ calls # << >> /\ Last(calls).pc = from
        /\ calls \in Seq(Call) /\ n \in Nat \ {0} /\ n \in DOMAIN calls
        /\ DOMAIN calls = 1 .. n /\ Last(calls) = calls[n]
        /\ Len(held) = n + 1 /\ Len(held) >= 2
        /\ \A k \in 1 .. n : held[k] # Last(held) /\ held[k] \in Objects(lines)
        /\ \A k \in 1 .. n : calls[k].branch_is_active => first[held[k]] # NULL
        /\ HeapInv
    BY <1>1, BackFacts
  <1>3. /\ calls' \in Seq(Call) /\ Len(calls') = n /\ DOMAIN calls' = 1 .. n
        /\ calls'[n] = y /\ Last(calls') = y /\ calls' # << >>
        /\ \A k \in 1 .. n : k # n => calls'[k] = calls[k]
    <2>1. y \in Call /\ calls \in Seq(Call) /\ n \in DOMAIN calls
      BY <1>2 DEF Call, Labels
    <2> HIDE DEF y, n
    <2>2. /\ [calls EXCEPT ![n] = y] \in Seq(Call)
          /\ Len([calls EXCEPT ![n] = y]) = Len(calls)
          /\ DOMAIN [calls EXCEPT ![n] = y] = DOMAIN calls
          /\ [calls EXCEPT ![n] = y][n] = y
          /\ \A i \in DOMAIN calls : i # n => [calls EXCEPT ![n] = y][i] = calls[i]
      BY <2>1, SeqExcept
    <2>3. /\ calls' \in Seq(Call) /\ Len(calls') = n /\ DOMAIN calls' = 1 .. n
          /\ calls'[n] = y
          /\ \A k \in 1 .. n : k # n => calls'[k] = calls[k]
      BY <1>1, <1>2, <2>2, Zenon DEF n
    <2>4. Last(calls') = y
      BY <2>3 DEF Last
    <2>5. calls' # << >>
      BY <1>2, <2>3
    <2>6. QED
      BY <2>3, <2>4, <2>5
  <1>4. y.pc = to /\ to \in WithLine
    BY DEF WithLine
  <1>5. /\ HeapInv'
        /\ frames' = <<[line |-> ParentLine, cell |-> first[ParentLine]]>>
        /\ first'[Last(held)] = Top(cells) /\ Top(cells) # NULL
        /\ \A k \in Objects(lines) : k # Last(held) => first'[k] = first[k]
    <2>1. calls' \in Seq([pc : Labels, branch_is_active : BOOLEAN])
      BY <1>3 DEF Call
    <2>2. QED
      BY <1>1, <1>2, <2>1, AcceptHeap
  <1> HIDE DEF n, y
  <1>6. frames' # << >> /\ frames'[1].line = ParentLine /\ ParentLine' = ParentLine
    BY <1>1, <1>5 DEF ParentLine
  <1>7. CallsInv'
    <2>1. \A k \in 1 .. n - 1 : calls'[k].pc \in {"call", "pass_call"}
      <3>1. \A k \in 1 .. n - 1 : calls[k].pc \in {"call", "pass_call"}
        BY DEF IInv, CallsInv, n
      <3>2. \A k \in 1 .. n - 1 : k \in 1 .. n /\ k # n
        BY <1>2
      <3>3. QED
        BY <1>3, <3>1, <3>2
    <2>2. Len(held') = Len(calls') + IF Last(calls').pc \in WithLine THEN 1 ELSE 0
      BY <1>1, <1>2, <1>3, <1>4
    <2>3. QED
      BY <1>3, <1>4, <1>6, <2>1, <2>2 DEF CallsInv
  <1>8. ParentsInv'
    <2>1. Last(calls').pc \in {"accept", "pass_accept"} /\ calls'[n].pc \in {"accept", "pass_accept"}
      BY <1>3, <1>4
    <2>2. first'[Last(held')] # NULL
      BY <1>1, <1>5 DEF Last
    <2>3. ASSUME NEW k \in 1 .. n, calls'[k].branch_is_active, k # n
          PROVE  first'[held'[k]] # NULL
      BY <1>1, <1>2, <1>3, <1>5, <2>3
    <2>4. QED
      BY <1>3, <2>1, <2>2, <2>3 DEF ParentsInv
  <1>9. QED
    BY <1>5, <1>7, <1>8, IInvParts DEF IInv, HeapInv

LEMMA VariantIInv ==
  ASSUME IInv, NEW m \in Moves, NEW g \in GamePositions, AddVariant(m, g)
  PROVE  IInv'
  <1> DEFINE n == Len(calls)
  <1>1. /\ Searching({"back"}) /\ Last(calls).branch_is_active
        /\ LineAddMove(Last(held), m, g)
        /\ variant' = VariantAdded(VariantsGrown, ParentLine, Top(cells), Last(held))
        /\ held' = Front(held) /\ calls' = Goto("loop")
        /\ UNCHANGED <<lines, lines_sorted, line_balance, frames>>
    BY DEF AddVariant
  <1>2. /\ frames = << >> /\ calls # << >> /\ Last(calls).pc = "back"
        /\ calls \in Seq(Call) /\ n \in Nat \ {0} /\ n \in DOMAIN calls
        /\ DOMAIN calls = 1 .. n /\ Last(calls) = calls[n]
        /\ Len(held) = n + 1 /\ Len(held) >= 2 /\ DOMAIN held = 1 .. Len(held)
        /\ held \in Seq(Objects(lines)) /\ held # << >>
        /\ \A k \in 1 .. n : held[k] # Last(held) /\ held[k] \in Objects(lines)
        /\ held[n] = ParentLine
        /\ \A k \in 1 .. n : calls[k].branch_is_active => first[held[k]] # NULL
        /\ HeapInv
    BY <1>1, BackFacts
  <1>3. /\ calls' \in Seq(Call) /\ Len(calls') = n /\ Last(calls').pc = "loop" /\ calls' # << >>
        /\ \A k \in DOMAIN calls : calls'[k].branch_is_active = calls[k].branch_is_active
        /\ \A k \in DOMAIN calls : k # n => calls'[k] = calls[k]
    <2>1. "loop" \in Labels
      BY DEF Labels
    <2>2. /\ calls' \in Seq(Call) /\ Len(calls') = n /\ Last(calls').pc = "loop"
          /\ \A k \in DOMAIN calls : calls'[k].branch_is_active = calls[k].branch_is_active
          /\ \A k \in DOMAIN calls : k # n => calls'[k] = calls[k]
      BY <1>1, <1>2, <2>1, GotoFacts
    <2>3. calls' # << >>
      BY <1>2, <2>2
    <2>4. QED
      BY <2>2, <2>3
  <1>4. first[ParentLine] # NULL
    BY <1>1, <1>2
  <1>5. HeapInv' /\ \A k \in Objects(lines) : k # Last(held) => first'[k] = first[k]
    <2>1. calls' \in Seq([pc : Labels, branch_is_active : BOOLEAN])
      BY <1>3 DEF Call
    <2>2. QED
      BY <1>1, <1>2, <1>4, <2>1, VariantHeap
  <1>6. Len(held') = n /\ \A k \in 1 .. n : held'[k] = held[k]
    <2>1. held \in Seq(Objects(lines)) /\ held # << >>
      BY <1>2
    <2>2. /\ Front(held) \in Seq(Objects(lines)) /\ Len(Front(held)) = Len(held) - 1
          /\ DOMAIN Front(held) = 1 .. Len(held) - 1
      BY <2>1, SeqFront, Zenon
    <2>3. \A k \in DOMAIN Front(held) : Front(held)[k] = held[k]
      BY <2>1, SeqFront, ZenonT(30)
    <2>4. Len(held) - 1 = n
      <3> HIDE DEF n
      <3>1. QED
        BY <1>2
    <2>5. QED
      BY <1>1, <2>2, <2>3, <2>4
  <1> HIDE DEF n
  <1>7. frames' = << >> /\ "loop" \notin WithLine
    BY <1>1, <1>2 DEF WithLine
  <1>8. CallsInv'
    <2>1. \A k \in 1 .. n - 1 : calls'[k].pc \in {"call", "pass_call"}
      <3>1. \A k \in 1 .. n - 1 : calls[k].pc \in {"call", "pass_call"}
        BY DEF IInv, CallsInv, n
      <3>2. \A k \in 1 .. n - 1 : k \in 1 .. n /\ k # n
        BY <1>2
      <3>3. QED
        BY <1>2, <1>3, <3>1, <3>2
    <2>2. Len(held') = Len(calls') + IF Last(calls').pc \in WithLine THEN 1 ELSE 0
      BY <1>2, <1>3, <1>6, <1>7
    <2>3. QED
      BY <1>3, <1>7, <2>1, <2>2 DEF CallsInv
  <1>9. ParentsInv'
    <2>1. ASSUME NEW k \in 1 .. n, calls'[k].branch_is_active
          PROVE  first'[held'[k]] # NULL
      BY <1>2, <1>3, <1>5, <1>6, <2>1
    <2>2. QED
      BY <1>3, <2>1 DEF ParentsInv
  <1>10. QED
    BY <1>5, <1>8, <1>9, IInvParts DEF IInv, HeapInv

LEMMA RejectIInv == ASSUME IInv, Reject PROVE IInv'
  <1> DEFINE n == Len(calls)
  <1>1. /\ Searching({"back"}) /\ LineDelete(Last(held)) /\ calls' = Goto("reject")
        /\ UNCHANGED <<cells, first, move, is_active, next, variant, gpx, gp_table,
                       cell_balance, held>>
    BY DEF Reject
  <1>2. /\ frames = << >> /\ calls # << >> /\ Last(calls).pc = "back"
        /\ calls \in Seq(Call) /\ n \in Nat \ {0} /\ n \in DOMAIN calls
        /\ DOMAIN calls = 1 .. n /\ Last(calls) = calls[n]
        /\ Len(held) = n + 1 /\ Len(held) >= 2
        /\ \A k \in 1 .. n : calls[k].branch_is_active => first[held[k]] # NULL
        /\ HeapInv
    BY <1>1, BackFacts
  <1>3. /\ calls' \in Seq(Call) /\ Len(calls') = n /\ Last(calls').pc = "reject" /\ calls' # << >>
        /\ \A k \in DOMAIN calls : calls'[k].branch_is_active = calls[k].branch_is_active
        /\ \A k \in DOMAIN calls : k # n => calls'[k] = calls[k]
    <2>1. "reject" \in Labels
      BY DEF Labels
    <2>2. /\ calls' \in Seq(Call) /\ Len(calls') = n /\ Last(calls').pc = "reject"
          /\ \A k \in DOMAIN calls : calls'[k].branch_is_active = calls[k].branch_is_active
          /\ \A k \in DOMAIN calls : k # n => calls'[k] = calls[k]
      BY <1>1, <1>2, <2>1, GotoFacts
    <2>3. calls' # << >>
      BY <1>2, <2>2
    <2>4. QED
      BY <2>2, <2>3
  <1>4. HeapInv' /\ frames' = <<[line |-> Last(held), cell |-> first[Last(held)]]>>
    <2>1. calls' \in Seq([pc : Labels, branch_is_active : BOOLEAN])
      BY <1>3 DEF Call
    <2>2. QED
      BY <1>1, <1>2, <2>1, RejectHeap
  <1> HIDE DEF n
  <1>5. /\ frames' # << >> /\ frames'[1].line = Last(held) /\ Last(held') = Last(held)
        /\ "reject" \in WithLine
    BY <1>1, <1>4 DEF WithLine
  <1>6. CallsInv'
    <2>1. \A k \in 1 .. n - 1 : calls'[k].pc \in {"call", "pass_call"}
      <3>1. \A k \in 1 .. n - 1 : calls[k].pc \in {"call", "pass_call"}
        BY DEF IInv, CallsInv, n
      <3>2. \A k \in 1 .. n - 1 : k \in 1 .. n /\ k # n
        BY <1>2
      <3>3. QED
        BY <1>2, <1>3, <3>1, <3>2
    <2>2. Len(held') = Len(calls') + IF Last(calls').pc \in WithLine THEN 1 ELSE 0
      BY <1>1, <1>2, <1>3, <1>5
    <2>3. QED
      BY <1>3, <1>5, <2>1, <2>2 DEF CallsInv
  <1>7. ParentsInv'
    <2>1. ASSUME NEW k \in 1 .. n, calls'[k].branch_is_active
          PROVE  first'[held'[k]] # NULL
      BY <1>1, <1>2, <1>3, <2>1
    <2>2. QED
      BY <1>3, <2>1 DEF ParentsInv
  <1>8. QED
    BY <1>4, <1>6, <1>7, IInvParts DEF IInv, HeapInv
(* A call of the search ends. *)
LEMMA ReturnIInv == ASSUME IInv, Return PROVE IInv'
  <1> DEFINE n == Len(calls)
  <1>1. /\ frames = << >> /\ calls # << >> /\ Last(calls).pc \in {"loop", "out"}
        /\ UNCHANGED <<heap, held, frames>>
    BY DEF Return, Searching
  <1>2. /\ calls \in Seq(Call) /\ n \in Nat \ {0} /\ n \in DOMAIN calls
        /\ DOMAIN calls = 1 .. n /\ Len(held) = n
        /\ \A k \in 1 .. n - 1 : calls[k].pc \in {"call", "pass_call"}
        /\ \A k \in 1 .. n : calls[k].branch_is_active => first[held[k]] # NULL
        /\ HeapInv
    <2>1. \A k \in 1 .. n - 1 : calls[k].pc \in {"call", "pass_call"}
      BY DEF IInv, CallsInv
    <2>2. /\ calls \in Seq(Call) /\ n \in Nat \ {0} /\ n \in DOMAIN calls
          /\ DOMAIN calls = 1 .. n /\ Len(held) = n /\ Last(calls) = calls[n]
      BY <1>1, CallsFacts DEF WithLine
    <2>3. \A k \in 1 .. n : calls[k].branch_is_active => first[held[k]] # NULL
      BY <1>1, <2>2 DEF IInv, ParentsInv
    <2>4. QED
      BY <2>1, <2>2, <2>3, IInvParts
  <1>3. CASE n = 1
    <2>1. calls' = << >>
      BY <1>3 DEF Return
    <2>2. calls' \in Seq([pc : Labels, branch_is_active : BOOLEAN]) /\ Len(calls') = 0
      BY <2>1
    <2>3. HeapInv'
      BY <1>1, <1>2, <2>2, HeapSame
    <2>4. CallsInv'
      <3>1. Len(held') = 1 /\ frames' = << >>
        BY <1>1, <1>2, <1>3
      <3>2. QED
        BY <2>1, <2>2, <3>1 DEF CallsInv
    <2>5. ParentsInv'
      BY <2>1, <2>2 DEF ParentsInv
    <2>6. QED
      BY <2>3, <2>4, <2>5, IInvParts DEF IInv, HeapInv
  <1>4. CASE n # 1
    <2> DEFINE s == Front(calls)
               r == IF s[n - 1].pc = "call" THEN "back" ELSE "pass_back"
               y == [s[n - 1] EXCEPT !.pc = r]
    <2>1. calls' = [s EXCEPT ![n - 1].pc = IF @ = "call" THEN "back" ELSE "pass_back"]
      BY <1>4 DEF Return
    <2>2. calls' = [s EXCEPT ![n - 1] = y]
      BY <2>1
    <2>3. n - 1 \in Nat \ {0} /\ n - 1 \in 1 .. n - 1 /\ \A k \in 1 .. n - 1 : k \in 1 .. n
      <3> HIDE DEF n
      <3>1. QED
        BY <1>2, <1>4
    <2>4. /\ s \in Seq(Call) /\ Len(s) = n - 1 /\ DOMAIN s = 1 .. n - 1
          /\ \A k \in 1 .. n - 1 : s[k] = calls[k]
      <3>1. /\ Front(calls) \in Seq(Call) /\ Len(Front(calls)) = Len(calls) - 1
            /\ DOMAIN Front(calls) = 1 .. Len(calls) - 1
        BY <1>1, <1>2, SeqFront, Zenon
      <3>2. \A k \in DOMAIN Front(calls) : Front(calls)[k] = calls[k]
        <4>1. calls \in Seq(Call) /\ calls # << >>
          BY <1>1, <1>2
        <4>2. QED
          BY <4>1, SeqFront, ZenonT(40)
      <3>3. QED
        BY <3>1, <3>2
    <2>5. /\ y \in Call /\ y.pc = r /\ r \in WithLine /\ r \in {"back", "pass_back"}
          /\ y.branch_is_active = calls[n - 1].branch_is_active
      <3>1. s[n - 1] \in Call /\ s[n - 1] = calls[n - 1]
        BY <2>3, <2>4
      <3>2. QED
        BY <3>1 DEF Call, Labels, WithLine
    <2> HIDE DEF s, y, r
    <2>6. /\ calls' \in Seq(Call) /\ Len(calls') = n - 1 /\ calls'[n - 1] = y
          /\ \A k \in 1 .. n - 1 : k # n - 1 => calls'[k] = calls[k]
      <3>1. s \in Seq(Call) /\ n - 1 \in DOMAIN s /\ y \in Call
        BY <2>3, <2>4, <2>5
      <3>2. /\ [s EXCEPT ![n - 1] = y] \in Seq(Call)
            /\ Len([s EXCEPT ![n - 1] = y]) = Len(s)
            /\ DOMAIN [s EXCEPT ![n - 1] = y] = DOMAIN s
            /\ [s EXCEPT ![n - 1] = y][n - 1] = y
            /\ \A i \in DOMAIN s : i # n - 1 => [s EXCEPT ![n - 1] = y][i] = s[i]
        <4> HIDE DEF n
        <4>1. QED
          BY <3>1, SeqExcept
      <3>3. QED
        BY <2>2, <2>4, <3>2
    <2>7. Last(calls') = y /\ calls' # << >>
      BY <2>3, <2>6 DEF Last
    <2>8. HeapInv'
      BY <1>1, <1>2, <2>6, HeapSame DEF Call
    <2>9. held' = held /\ first' = first /\ frames' = << >>
      BY <1>1 DEF heap
    <2> HIDE DEF n
    <2>10. CallsInv'
      <3>1. \A k \in 1 .. (n - 1) - 1 : k \in 1 .. n - 1 /\ k # n - 1
        BY <1>2
      <3>2. \A k \in 1 .. Len(calls') - 1 : calls'[k].pc \in {"call", "pass_call"}
        BY <1>2, <2>6, <3>1
      <3>3. Len(held') = Len(calls') + IF Last(calls').pc \in WithLine THEN 1 ELSE 0
        BY <1>2, <2>5, <2>6, <2>7, <2>9
      <3>4. QED
        BY <2>7, <2>9, <3>2, <3>3 DEF CallsInv
    <2>11. ParentsInv'
      <3>1. \A k \in 1 .. n - 1 : calls'[k].branch_is_active => first'[held'[k]] # NULL
        BY <1>2, <2>3, <2>5, <2>6, <2>9
      <3>2. Last(calls').pc \in {"back", "pass_back"}
        BY <2>5, <2>7
      <3>3. QED
        BY <2>6, <3>1, <3>2 DEF ParentsInv
    <2>12. QED
      BY <2>8, <2>10, <2>11, IInvParts DEF IInv, HeapInv
  <1>5. QED
    BY <1>3, <1>4

(* A turn of the loop of pve_line_delete leaves the search where it is. *)
LEMMA DeletionFacts ==
  ASSUME IInv, frames # << >>
  PROVE  /\ calls # << >> /\ Last(calls).pc \in {"accept", "reject", "pass_accept"}
         /\ frames[1].line \in HeldLines
         /\ frames[1].line = IF Last(calls).pc = "reject" THEN Last(held) ELSE ParentLine
  <1>1. calls # << >> /\ Last(calls).pc \in {"accept", "reject", "pass_accept"}
    BY DEF IInv, CallsInv
  <1>2. frames[1].line = IF Last(calls).pc = "reject" THEN Last(held) ELSE ParentLine
    BY DEF IInv, CallsInv
  <1>3. Len(held) >= 2
    BY <1>1, CallsFacts DEF WithLine
  <1>4. Last(held) \in HeldLines /\ ParentLine \in HeldLines
    BY <1>3, HeldEnds, IInvParts
  <1>5. QED
    BY <1>1, <1>2, <1>4

LEMMA DeletionStep ==
  ASSUME IInv, HeapInv', frames # << >>, frames' # << >>, frames'[1].line = frames[1].line,
         UNCHANGED <<first, held, calls>>
  PROVE  IInv'
  <1>1. CallsInv'
    BY DeletionFacts DEF IInv, CallsInv, ParentLine
  <1>2. ParentsInv'
    BY DEF IInv, ParentsInv
  <1>3. QED
    BY <1>1, <1>2 DEF IInv, HeapInv

LEMMA DeleteEndIInv == ASSUME IInv, DeleteEnd PROVE IInv'
  <1> DEFINE n == Len(calls)
             h == Len(held)
             label == IF Last(calls).pc = "pass_accept" THEN "out" ELSE "loop"
  <1>1. /\ frames # << >> /\ first' = first /\ calls' = Goto(label)
        /\ held' = IF Last(calls).pc = "reject" THEN Front(held)
                   ELSE [Front(held) EXCEPT ![h - 1] = Last(held)]
    <2>1. Len(frames) = 1 /\ Len(<< >>) = 0 /\ 0 # 1
      BY DEF DeleteEnd
    <2>2. frames # << >>
      BY <2>1, Zenon
    <2>3. QED
      BY <2>2 DEF DeleteEnd
  <1>2. /\ calls # << >> /\ Last(calls).pc \in {"accept", "reject", "pass_accept"}
        /\ frames[1].line \in HeldLines
        /\ frames[1].line = IF Last(calls).pc = "reject" THEN Last(held) ELSE ParentLine
    BY <1>1, DeletionFacts
  <1>3. /\ calls \in Seq(Call) /\ n \in Nat \ {0} /\ n \in DOMAIN calls
        /\ DOMAIN calls = 1 .. n /\ Last(calls) = calls[n]
        /\ held \in Seq(Objects(lines)) /\ held # << >> /\ Injective(held)
        /\ h = n + 1 /\ h >= 2
    BY <1>2, CallsFacts DEF WithLine
  <1>4. /\ calls' \in Seq(Call) /\ Len(calls') = n /\ Last(calls').pc = label /\ calls' # << >>
        /\ \A k \in DOMAIN calls : calls'[k].branch_is_active = calls[k].branch_is_active
        /\ \A k \in DOMAIN calls : k # n => calls'[k] = calls[k]
    <2>1. label \in Labels
      BY DEF Labels
    <2> HIDE DEF label
    <2>2. /\ calls' \in Seq(Call) /\ Len(calls') = n /\ Last(calls').pc = label
          /\ \A k \in DOMAIN calls : calls'[k].branch_is_active = calls[k].branch_is_active
          /\ \A k \in DOMAIN calls : k # n => calls'[k] = calls[k]
      BY <1>1, <1>3, <2>1, GotoFacts
    <2>3. calls' # << >>
      BY <1>3, <2>2
    <2>4. QED
      BY <2>2, <2>3
  <1>5. /\ held' \in Seq(Objects(lines)) /\ Injective(held') /\ Len(held') = n
        /\ Elements(held') = Elements(held) \ {frames[1].line}
        /\ \A k \in 1 .. n : \/ held'[k] = held[k] /\ (k = n => Last(calls).pc = "reject")
                             \/ k = n /\ held'[k] = Last(held) /\ Last(calls).pc # "reject"
    <2>1. h - 1 = n /\ h - 2 = n - 1
      <3> HIDE DEF n, h
      <3>1. QED
        BY <1>3
    <2>2. CASE Last(calls).pc = "reject"
      <3>1. held' = Front(held) /\ frames[1].line = Last(held)
        BY <1>1, <1>2, <2>2
      <3>2. /\ Front(held) \in Seq(Objects(lines)) /\ Len(Front(held)) = Len(held) - 1
            /\ Elements(Front(held)) = Elements(held) \ {Last(held)}
            /\ Injective(Front(held))
        BY <1>3, FrontSet, Zenon
      <3>3. DOMAIN Front(held) = 1 .. Len(held) - 1
        BY <1>3, SeqFront, Zenon
      <3>4. \A k \in DOMAIN Front(held) : Front(held)[k] = held[k]
        <4>1. held \in Seq(Objects(lines)) /\ held # << >>
          BY <1>3
        <4>2. QED
          BY <4>1, SeqFront, ZenonT(30)
      <3>5. QED
        BY <2>1, <2>2, <3>1, <3>2, <3>3, <3>4
    <2>3. CASE Last(calls).pc # "reject"
      <3>1. /\ held' = [Front(held) EXCEPT ![Len(held) - 1] = Last(held)]
            /\ frames[1].line = ParentLine
        BY <1>1, <1>2, <2>3
      <3>2. /\ held' \in Seq(Objects(lines)) /\ Len(held') = Len(held) - 1
            /\ Last(held') = Last(held)
            /\ Elements(held') = Elements(held) \ {held[Len(held) - 1]}
            /\ Injective(held')
        BY <1>3, <3>1, FrontReplaced
      <3>3. \A i \in 1 .. Len(held) - 2 : held'[i] = held[i]
        BY <1>3, <3>1, FrontReplaced, SMTT(30)
      <3>4. Len(held') = n /\ held'[n] = Last(held)
        BY <2>1, <3>2 DEF Last
      <3>5. \A k \in 1 .. n : k = n \/ k \in 1 .. Len(held) - 2
        <4> HIDE DEF n
        <4>1. QED
          BY <1>3, <2>1
      <3>6. QED
        BY <2>3, <3>1, <3>2, <3>3, <3>4, <3>5 DEF ParentLine
    <2>4. QED
      BY <2>2, <2>3
  <1>6. HeapInv' /\ frames' = << >>
    <2>1. HeldLines' = HeldLines \ {frames[1].line}
      BY <1>5 DEF HeldLines, Elements
    <2>2. calls' \in Seq([pc : Labels, branch_is_active : BOOLEAN])
      BY <1>4 DEF Call
    <2>3. QED
      BY <1>2, <1>5, <2>1, <2>2, IInvParts, DeleteEndHeap
  <1>7. label \notin WithLine /\ label \notin {"accept", "pass_accept"}
    BY DEF WithLine
  <1>8. \A k \in 1 .. n - 1 : calls[k].pc \in {"call", "pass_call"}
    BY DEF IInv, CallsInv
  <1>9. \A k \in 1 .. n : /\ calls[k].branch_is_active /\ (k = n => Last(calls).pc = "reject")
                             => first[held[k]] # NULL
                          /\ Last(calls).pc # "reject" => first[Last(held)] # NULL
    BY <1>2, <1>3 DEF IInv, ParentsInv
  <1> HIDE DEF n, label
  <1>10. CallsInv'
    <2>1. \A k \in 1 .. n - 1 : k \in 1 .. n /\ k # n
      BY <1>3
    <2>2. \A k \in 1 .. Len(calls') - 1 : calls'[k].pc \in {"call", "pass_call"}
      BY <1>3, <1>4, <1>8, <2>1
    <2>3. Len(held') = Len(calls') + IF Last(calls').pc \in WithLine THEN 1 ELSE 0
      BY <1>3, <1>4, <1>5, <1>7
    <2>4. QED
      BY <1>4, <1>6, <2>2, <2>3 DEF CallsInv
  <1>11. ParentsInv'
    <2>1. ASSUME NEW k \in 1 .. n, calls'[k].branch_is_active
          PROVE  first'[held'[k]] # NULL
      <3>1. calls[k].branch_is_active
        BY <1>3, <1>4, <2>1
      <3>2. QED
        BY <1>1, <1>5, <1>9, <3>1
    <2>2. QED
      BY <1>4, <1>7, <2>1 DEF ParentsInv
  <1>12. QED
    BY <1>6, <1>10, <1>11 DEF IInv, HeapInv

-----------------------------------------------------------------------------
LEMMA StutterIInv == ASSUME IInv, UNCHANGED vars PROVE IInv'
  <1>1. HeapInv'
    BY IInvParts, HeapSame DEF vars, HeapInv, TypeOK
  <1>2. CallsInv'
    BY DEF vars, IInv, CallsInv, ParentLine
  <1>3. ParentsInv'
    BY DEF vars, heap, IInv, ParentsInv
  <1>4. QED
    BY <1>1, <1>2, <1>3 DEF IInv, HeapInv

(* Every step keeps the inductive invariant. *)
LEMMA NextIInv == IInv /\ [Next]_vars => IInv'
  <1> SUFFICES ASSUME IInv, [Next]_vars PROVE IInv'
    OBVIOUS
  <1>1. CASE MoveNode
    BY <1>1, MoveNodeIInv
  <1>2. CASE PassNode
    BY <1>2, CallNodeIInv DEF PassNode
  <1>3. CASE LeafNode
    BY <1>3, LeafNodeIInv
  <1>4. CASE SearchMove
    <2>1. PICK from \in {"first", "loop"} : Searching({from})
      BY <1>4 DEF SearchMove, Searching
    <2>2. QED
      BY <1>4, <2>1, CallNodeIInv DEF SearchMove
  <1>5. ASSUME NEW m \in Moves \ {PassMove}, NEW g \in GamePositions, Accept(m, g)
        PROVE  IInv'
    BY <1>5, AcceptIInv DEF Accept
  <1>6. ASSUME NEW g \in GamePositions, PassAccept(g)
        PROVE  IInv'
    BY <1>6, AcceptIInv, PVEnvAssumption DEF PassAccept
  <1>7. ASSUME NEW m \in Moves \ {PassMove}, NEW g \in GamePositions, AddVariant(m, g)
        PROVE  IInv'
    BY <1>7, VariantIInv
  <1>8. CASE Reject
    BY <1>8, RejectIInv
  <1>9. CASE Return
    BY <1>9, ReturnIInv
  <1>10. CASE DeleteCell
    <2>1. frames # << >> /\ UNCHANGED <<first, held, calls>>
      BY <1>10 DEF DeleteCell
    <2>2. HeapInv' /\ frames' # << >> /\ frames'[1].line = frames[1].line
      BY <1>10, IInvParts, DeleteCellHeap
    <2>3. QED
      BY <2>1, <2>2, DeletionStep
  <1>11. CASE DeleteVariant
    <2>1. frames # << >> /\ UNCHANGED <<first, held, calls>>
      BY <1>11 DEF DeleteVariant
    <2>2. HeapInv' /\ frames' # << >> /\ frames'[1].line = frames[1].line
      BY <1>11, <2>1, IInvParts, DeletionFacts, DeleteVariantHeap
    <2>3. QED
      BY <2>1, <2>2, DeletionStep
  <1>12. CASE DeleteReturn
    <2>1. frames # << >> /\ UNCHANGED <<first, held, calls>>
      BY <1>12 DEF DeleteReturn
    <2>2. HeapInv' /\ frames' # << >> /\ frames'[1].line = frames[1].line
      BY <1>12, IInvParts, DeleteReturnHeap
    <2>3. QED
      BY <2>1, <2>2, DeletionStep
  <1>13. CASE DeleteEnd
    BY <1>13, DeleteEndIInv
  <1>14. CASE UNCHANGED vars
    BY <1>14, StutterIInv
  <1>15. QED
    BY <1>1, <1>2, <1>3, <1>4, <1>5, <1>6, <1>7, <1>8, <1>9, <1>10, <1>11,
       <1>12, <1>13, <1>14 DEF Next, Delete

(* The inductive invariant holds of every behaviour of the environment. *)
THEOREM Inductive == Spec => []IInv
  BY InitIInv, NextIInv, PTL DEF Spec

(* Every pointer of the environment is NULL or the address of an allocated *)
(* line or cell, and neither stack is ever read past its end               *)
(* (pve_line_create, pve_line_add_move).                                   *)
THEOREM TypeCorrect == Spec => []TypeOK
  <1>1. IInv => TypeOK
    BY DEF IInv
  <1>2. QED
    BY <1>1, Inductive, PTL

(* No line is lost or used twice, during a deletion too                    *)
(* (pve_line_create, pve_line_add_variant, pve_line_delete).               *)
THEOREM LinesSafe == Spec => []LinesOwnedOnce
  <1>1. IInv => LinesOwnedOnce
    BY DEF IInv
  <1>2. QED
    BY <1>1, Inductive, PTL

(* No cell is lost or shared (pve_line_add_move, pve_line_delete).         *)
THEOREM CellsSafe == Spec => []CellsOwnedOnce
  <1>1. IInv => CellsOwnedOnce
    BY DEF IInv
  <1>2. QED
    BY <1>1, Inductive, PTL

(* pve_line_add_move may leave the variant field of a new cell alone.      *)
THEOREM VariantsClean == Spec => []FreeCellsHaveNoVariant
  <1>1. IInv => FreeCellsHaveNoVariant
    BY DEF IInv
  <1>2. QED
    BY <1>1, Inductive, PTL

(* The assertion of pve_line_add_variant never fails.                      *)
THEOREM VariantsAttach == Spec => []VariantHasParent
  <1>1. IInv => VariantHasParent
    <2> SUFFICES ASSUME IInv, Searching({"back"}), Last(calls).branch_is_active
                 PROVE  first[ParentLine] # NULL
      BY DEF VariantHasParent
    <2>1. QED
      BY BackFacts
  <1>2. QED
    BY <1>1, Inductive, PTL
-----------------------------------------------------------------------------
(***************************************************************************)
(* The counters of the environment agree with its stacks, and the table of *)
(* game positions with the cells, at every step of every deletion.         *)
(***************************************************************************)
LEMMA InitCount == Init => InvariantSatisfied
  <1> SUFFICES ASSUME Init PROVE InvariantSatisfied
    OBVIOUS
  <1> USE PVEnvAssumption
  <1>1. /\ PoolOK(NewPool(LinesFirstSize)) /\ UsedHalfIsNull(NewPool(LinesFirstSize))
        /\ NewPool(LinesFirstSize).head = 0
        /\ UsedHalfIsNull(NewPool(CellsFirstSize)) /\ NewPool(CellsFirstSize).head = 0
    BY NewPoolOK
  <1>2. UsedHalfIsNull(lines) /\ lines.head = 0 + 1
    BY <1>1, PopTakes DEF Init
  <1>3. QED
    BY <1>1, <1>2 DEF Init, InvariantSatisfied

(* A created line. *)
LEMMA CreateCount ==
  ASSUME HeapInv, InvariantSatisfied, LineCreate, UNCHANGED <<cells, cell_balance, frames>>
  PROVE  InvariantSatisfied'
  <1>1. lines' = Pop(lines) /\ line_balance' = line_balance + 1
    BY DEF LineCreate, Unsorted, HeapInv
  <1>2. PoolOK(lines)
    BY HeapFacts
  <1>3. UsedHalfIsNull(lines') /\ lines'.head = lines.head + 1
    BY <1>1, <1>2, PopTakes DEF InvariantSatisfied
  <1>4. line_balance \in Int /\ Len(frames) \in Nat
    BY DEF HeapInv, TypeOK
  <1>5. QED
    BY <1>1, <1>3, <1>4 DEF InvariantSatisfied

(* A cell taken for a line. *)
LEMMA AddMoveCount ==
  ASSUME HeapInv, InvariantSatisfied, NEW l, NEW m, NEW g, LineAddMove(l, m, g)
  PROVE  UsedHalfIsNull(cells)' /\ cell_balance' = cells'.head
  <1>1. cells' = Pop(cells) /\ cell_balance' = cell_balance + 1
    BY DEF LineAddMove
  <1>2. PoolOK(cells)
    BY HeapFacts
  <1>3. QED
    BY <1>1, <1>2, PopTakes DEF InvariantSatisfied

(* A cell given back. *)
LEMMA ReleaseCount ==
  ASSUME HeapInv, InvariantSatisfied, NEW c \in ActiveCells, CellRelease(c)
  PROVE  UsedHalfIsNull(cells)' /\ cell_balance' = cells'.head
  <1>1. cells' = Push(cells, c) /\ cell_balance' = cell_balance - 1
    BY DEF CellRelease
  <1>2. PoolOK(cells) /\ c \in Objects(cells) /\ c \notin FreeObjects(cells)
    BY HeapFacts DEF UsedObjects
  <1>3. QED
    BY <1>1, <1>2, PushReturns DEF InvariantSatisfied

(* A deletion begins. *)
LEMMA StartCount ==
  ASSUME HeapInv, InvariantSatisfied, frames = << >>, NEW l, LineDelete(l)
  PROVE  UsedHalfIsNull(lines)' /\ line_balance' + Len(frames') = lines'.head
  <1>1. /\ lines' = lines /\ line_balance' = line_balance - 1
        /\ frames' = <<[line |-> l, cell |-> first[l]]>>
    BY DEF LineDelete, Unsorted, HeapInv
  <1>2. Len(frames') = 1 /\ Len(frames) = 0
    BY <1>1
  <1>3. line_balance \in Int
    BY DEF HeapInv, TypeOK
  <1>4. QED
    BY <1>1, <1>2, <1>3 DEF InvariantSatisfied

(* A line given back. *)
LEMMA PushCount ==
  ASSUME HeapInv, InvariantSatisfied, NEW v \in UsedObjects(lines), lines' = Push(lines, v),
         line_balance' = line_balance, Len(frames') = Len(frames) - 1
  PROVE  UsedHalfIsNull(lines)' /\ line_balance' + Len(frames') = lines'.head
  <1>1. PoolOK(lines) /\ v \in Objects(lines) /\ v \notin FreeObjects(lines)
    BY HeapFacts DEF UsedObjects
  <1>2. UsedHalfIsNull(lines)' /\ lines'.head = lines.head - 1
    BY <1>1, PushReturns DEF InvariantSatisfied
  <1>3. line_balance \in Int /\ Len(frames) \in Nat
    BY DEF HeapInv, TypeOK
  <1>4. QED
    BY <1>2, <1>3 DEF InvariantSatisfied

(* The call of PushCount when the outermost deletion ends, and when the    *)
(* deletion of a variant returns.                                          *)
LEMMA DeleteEndCount ==
  ASSUME IInv, InvariantSatisfied, DeleteEnd
  PROVE  InvariantSatisfied'
  <1>1. Len(frames) = 1 /\ frames # << >>
    <2>1. Len(frames) = 1 /\ Len(<< >>) = 0 /\ 0 # 1
      BY DEF DeleteEnd
    <2>2. QED
      BY <2>1, Zenon
  <1>2. HeapInv /\ Last(frames) = frames[1] /\ frames[1].line \in HeldLines
    BY <1>1, IInvParts, TopFrame, DeletionFacts
  <1>3. frames[1].line \in UsedObjects(lines)
    BY <1>2, HeapFacts DEF HeldLines
  <1>4. /\ lines' = Push(lines, frames[1].line) /\ line_balance' = line_balance
        /\ frames' = << >> /\ cells' = cells /\ cell_balance' = cell_balance
    BY <1>2 DEF DeleteEnd
  <1>5. Len(frames') = Len(frames) - 1
    BY <1>1, <1>4
  <1>6. UsedHalfIsNull(lines)' /\ line_balance' + Len(frames') = lines'.head
    BY <1>2, <1>3, <1>4, <1>5, PushCount
  <1>7. QED
    BY <1>4, <1>6 DEF InvariantSatisfied

LEMMA DeleteReturnCount ==
  ASSUME IInv, InvariantSatisfied, DeleteReturn
  PROVE  InvariantSatisfied'
  <1> DEFINE n == Len(frames)
             v == frames[n].line
             c == frames[n - 1].cell
             s == Front(frames)
  <1>1. /\ n > 1 /\ lines' = Push(lines, Last(frames).line)
        /\ CellRelease(c) /\ frames' = [s EXCEPT ![n - 1].cell = next[c]]
        /\ line_balance' = line_balance
    BY DEF DeleteReturn
  <1>2. HeapInv
    BY IInvParts
  <1>3. frames # << >>
    <2>1. Len(<< >>) = 0 /\ ~ (0 > 1)
      OBVIOUS
    <2>2. QED
      BY <1>1, <2>1, Zenon
  <1>4. /\ frames \in Seq(Frame) /\ n \in Nat \ {0} /\ DOMAIN frames = 1 .. n
        /\ Last(frames) = frames[n]
    BY <1>2, <1>3, TopFrame
  <1>5. n - 1 \in 1 .. n - 1 /\ (n - 1) + 1 = n /\ n \in DOMAIN frames
    <2> HIDE DEF n
    <2>1. QED
      BY <1>1, <1>4
  <1>6. c \in ActiveCells /\ variant[c] = v
    BY <1>2, <1>5 DEF HeapInv, FramesInv
  <1>7. v \in UsedObjects(lines)
    <2>1. v # NULL
      BY <1>2, <1>3, <1>5, TopFrame, HeapFacts
    <2>2. QED
      BY <1>2, <1>6, <2>1, HeapFacts
  <1>8. /\ s \in Seq(Frame) /\ Len(s) = n - 1 /\ DOMAIN s = 1 .. n - 1
    BY <1>3, <1>4, SeqFront, Zenon
  <1>9. next[c] \in CellRefs
    BY <1>2, <1>6 DEF HeapInv, TypeOK, ActiveCells
  <1>10. Len(frames') = n - 1
    <2>1. n - 1 \in DOMAIN s
      BY <1>5, <1>8
    <2> HIDE DEF s, n, c
    <2>2. Len([s EXCEPT ![n - 1].cell = next[c]]) = Len(s)
      BY <1>8, <1>9, <2>1, FrameMoved
    <2>3. QED
      BY <1>1, <1>8, <2>2
  <1>11. UsedHalfIsNull(cells)' /\ cell_balance' = cells'.head
    BY <1>1, <1>2, <1>6, ReleaseCount
  <1>12. UsedHalfIsNull(lines)' /\ line_balance' + Len(frames') = lines'.head
    BY <1>1, <1>2, <1>4, <1>7, <1>10, PushCount
  <1>13. QED
    BY <1>11, <1>12 DEF InvariantSatisfied

(* Both ends of a branch of the search that takes a cell.                  *)
LEMMA AcceptCount ==
  ASSUME IInv, InvariantSatisfied, NEW m, NEW g, NEW from \in {"back", "pass_back"}, NEW to,
         AcceptLine(m, g, from, to)
  PROVE  InvariantSatisfied'
  <1>1. Searching({from}) /\ LineAddMove(Last(held), m, g) /\ LineDelete(ParentLine)
    BY DEF AcceptLine
  <1>2. HeapInv /\ frames = << >>
    BY <1>1, BackFacts
  <1>3. UsedHalfIsNull(cells)' /\ cell_balance' = cells'.head
    BY <1>1, <1>2, AddMoveCount
  <1>4. UsedHalfIsNull(lines)' /\ line_balance' + Len(frames') = lines'.head
    BY <1>1, <1>2, StartCount
  <1>5. QED
    BY <1>3, <1>4 DEF InvariantSatisfied

LEMMA NextCount == IInv /\ InvariantSatisfied /\ [Next]_vars => InvariantSatisfied'
  <1> SUFFICES ASSUME IInv, InvariantSatisfied, [Next]_vars PROVE InvariantSatisfied'
    OBVIOUS
  <1>0. HeapInv
    BY IInvParts
  <1>1. CASE MoveNode \/ Return \/ UNCHANGED vars
    <2>1. UNCHANGED <<lines, cells, line_balance, cell_balance, frames>>
      BY <1>1 DEF MoveNode, Return, vars, heap
    <2>2. QED
      BY <2>1 DEF InvariantSatisfied
  <1>2. CASE PassNode
    BY <1>0, <1>2, CreateCount DEF PassNode
  <1>3. CASE LeafNode
    BY <1>0, <1>3, CreateCount DEF LeafNode
  <1>4. CASE SearchMove
    BY <1>0, <1>4, CreateCount DEF SearchMove
  <1>5. ASSUME NEW m \in Moves \ {PassMove}, NEW g \in GamePositions, Accept(m, g)
        PROVE  InvariantSatisfied'
    BY <1>5, AcceptCount DEF Accept
  <1>6. ASSUME NEW g \in GamePositions, PassAccept(g)
        PROVE  InvariantSatisfied'
    BY <1>6, AcceptCount DEF PassAccept
  <1>7. ASSUME NEW m \in Moves \ {PassMove}, NEW g \in GamePositions, AddVariant(m, g)
        PROVE  InvariantSatisfied'
    <2>1. LineAddMove(Last(held), m, g) /\ UNCHANGED <<lines, line_balance, frames>>
      BY <1>7 DEF AddVariant
    <2>2. UsedHalfIsNull(cells)' /\ cell_balance' = cells'.head
      BY <1>0, <2>1, AddMoveCount
    <2>3. QED
      BY <2>1, <2>2 DEF InvariantSatisfied
  <1>8. CASE Reject
    <2>1. LineDelete(Last(held)) /\ Searching({"back"}) /\ UNCHANGED <<cells, cell_balance>>
      BY <1>8 DEF Reject
    <2>2. frames = << >>
      BY <2>1 DEF Searching
    <2>3. UsedHalfIsNull(lines)' /\ line_balance' + Len(frames') = lines'.head
      BY <1>0, <2>1, <2>2, StartCount
    <2>4. QED
      BY <2>1, <2>3 DEF InvariantSatisfied
  <1>9. CASE DeleteCell
    <2> DEFINE n == Len(frames)
               c == frames[n].cell
    <2>1. /\ frames # << >> /\ c # NULL /\ CellRelease(c)
          /\ frames' = [frames EXCEPT ![n].cell = next[c]]
          /\ UNCHANGED <<lines, line_balance>>
      BY <1>9 DEF DeleteCell, Last
    <2>2. frames \in Seq(Frame) /\ n \in DOMAIN frames
      BY <1>0, <2>1, TopFrame
    <2>3. c \in ActiveCells
      BY <1>0, <2>1, <2>2, HeapFacts
    <2>4. next[c] \in CellRefs
      BY <1>0, <2>3 DEF HeapInv, TypeOK, ActiveCells
    <2>5. Len(frames') = n
      <3> HIDE DEF n, c
      <3>1. Len([frames EXCEPT ![n].cell = next[c]]) = Len(frames)
        BY <2>2, <2>4, FrameMoved
      <3>2. QED
        BY <2>1, <3>1 DEF n
    <2>6. UsedHalfIsNull(cells)' /\ cell_balance' = cells'.head
      BY <1>0, <2>1, <2>3, ReleaseCount
    <2>7. QED
      BY <2>1, <2>5, <2>6 DEF InvariantSatisfied
  <1>10. CASE DeleteVariant
    <2> DEFINE v == variant[Last(frames).cell]
               f == [line |-> v, cell |-> first[v]]
    <2>1. /\ frames # << >> /\ frames' = Append(frames, f)
          /\ lines' = lines /\ line_balance' = line_balance - 1
          /\ UNCHANGED <<cells, cell_balance>>
      BY <1>0, <1>10 DEF DeleteVariant, Unsorted, HeapInv
    <2>2. frames \in Seq(Frame)
      BY <1>0, <2>1, TopFrame
    <2>3. Len(frames') = Len(frames) + 1 /\ Len(frames) \in Nat
      BY <2>1, <2>2
    <2>4. line_balance \in Int
      BY <1>0 DEF HeapInv, TypeOK
    <2>5. line_balance' + Len(frames') = line_balance + Len(frames)
      BY <2>1, <2>3, <2>4
    <2>6. QED
      BY <2>1, <2>5 DEF InvariantSatisfied
  <1>11. CASE DeleteReturn
    BY <1>11, DeleteReturnCount
  <1>12. CASE DeleteEnd
    BY <1>12, DeleteEndCount
  <1>13. QED
    BY <1>1, <1>2, <1>3, <1>4, <1>5, <1>6, <1>7, <1>8, <1>9, <1>10, <1>11,
       <1>12 DEF Next, Delete

(* What pve_is_invariant_satisfied checks of the stack of lines and of the *)
(* counters holds between any two calls of the environment, and within a   *)
(* deletion the lines are behind by one for each pending activation.       *)
THEOREM CountersAgree == Spec => []InvariantSatisfied
  BY Inductive, InitCount, NextCount, PTL DEF Spec

-----------------------------------------------------------------------------
(* A table counts the cells of a set by their positions. *)
Counts(t, f, C) ==
  /\ DOMAIN t = {f[c] : c \in C}
  /\ \A g \in DOMAIN t : t[g] = Cardinality({c \in C : f[c] = g})

(* One more cell. *)
LEMMA CountsAdd ==
  ASSUME NEW t, NEW f, NEW C, IsFiniteSet(C), Counts(t, f, C),
         NEW c, c \notin C, NEW g, NEW h, h[c] = g, \A d \in C : h[d] = f[d]
  PROVE  Counts(Referenced(t, g), h, C \cup {c})
  <1> DEFINE u == Referenced(t, g)
             Of(x) == {d \in C : f[d] = x}
  <1>1. /\ DOMAIN u = DOMAIN t \cup {g}
        /\ \A x \in DOMAIN u : x # g => u[x] = t[x]
        /\ g \in DOMAIN t => u[g] = t[g] + 1
        /\ g \notin DOMAIN t => u[g] = 1
    BY DEF Referenced
  <1>2. DOMAIN u = {h[d] : d \in C \cup {c}}
    BY <1>1 DEF Counts
  <1>3. \A x : x # g => {d \in C \cup {c} : h[d] = x} = Of(x)
    OBVIOUS
  <1>4. {d \in C \cup {c} : h[d] = g} = Of(g) \cup {c} /\ c \notin Of(g)
    OBVIOUS
  <1>5. IsFiniteSet(Of(g))
    <2>1. Of(g) \in SUBSET C
      OBVIOUS
    <2>2. QED
      BY <2>1, FS_Subset
  <1>6. Cardinality(Of(g) \cup {c}) = Cardinality(Of(g)) + 1
    BY <1>4, <1>5, FS_AddElement
  <1>7. g \notin DOMAIN t => Cardinality(Of(g)) = 0
    <2>1. g \notin DOMAIN t => Of(g) = {}
      BY DEF Counts
    <2>2. QED
      BY <2>1, FS_EmptySet
  <1>8. \A x \in DOMAIN t : t[x] = Cardinality(Of(x))
    BY DEF Counts
  <1> HIDE DEF u, Of
  <1>9. \A x \in DOMAIN u : u[x] = Cardinality({d \in C \cup {c} : h[d] = x})
    <2> SUFFICES ASSUME NEW x \in DOMAIN u
                 PROVE  u[x] = Cardinality({d \in C \cup {c} : h[d] = x})
      OBVIOUS
    <2>1. CASE x = g
      BY <1>1, <1>4, <1>6, <1>7, <1>8, <2>1
    <2>2. CASE x # g
      BY <1>1, <1>3, <1>8, <2>2
    <2>3. QED
      BY <2>1, <2>2
  <1>10. QED
    BY <1>2, <1>9 DEF Counts, u

(* One cell fewer. *)
LEMMA CountsDrop ==
  ASSUME NEW t, NEW f, NEW C, IsFiniteSet(C), Counts(t, f, C), NEW c \in C
  PROVE  Counts(Dereferenced(t, f[c]), f, C \ {c})
  <1> DEFINE g == f[c]
             u == Dereferenced(t, g)
             Of(x) == {d \in C : f[d] = x}
  <1>1. g \in DOMAIN t /\ t[g] = Cardinality(Of(g)) /\ c \in Of(g)
    BY DEF Counts
  <1>2. \A x \in DOMAIN t : t[x] = Cardinality(Of(x))
    BY DEF Counts
  <1>3. IsFiniteSet(Of(g))
    <2>1. Of(g) \in SUBSET C
      OBVIOUS
    <2>2. QED
      BY <2>1, FS_Subset
  <1>4. /\ IsFiniteSet(Of(g) \ {c}) /\ Cardinality(Of(g) \ {c}) = t[g] - 1
    BY <1>1, <1>3, FS_RemoveElement
  <1>5. t[g] = 1 <=> Of(g) \ {c} = {}
    <2>1. Cardinality(Of(g)) \in Nat
      BY <1>3, FS_CardinalityType
    <2>2. Cardinality(Of(g) \ {c}) = 0 <=> Of(g) \ {c} = {}
      BY <1>4, FS_EmptySet
    <2>3. QED
      BY <1>1, <1>4, <2>1, <2>2
  <1>6. /\ DOMAIN u = DOMAIN t \ (IF t[g] = 1 THEN {g} ELSE {})
        /\ \A x \in DOMAIN u : u[x] = IF x = g THEN t[x] - 1 ELSE t[x]
    BY DEF Dereferenced
  <1>7. \A x : x # g => {d \in C \ {c} : f[d] = x} = Of(x)
    OBVIOUS
  <1>8. {d \in C \ {c} : f[d] = g} = Of(g) \ {c}
    OBVIOUS
  <1>9. \A x : x \in {f[d] : d \in C \ {c}} <=> x \in DOMAIN u
    <2>1. \A x : x \in DOMAIN t <=> \E d \in C : f[d] = x
      BY DEF Counts
    <2>2. (\E d \in C \ {c} : f[d] = g) <=> t[g] # 1
      BY <1>5
    <2>3. QED
      BY <1>1, <1>6, <2>1, <2>2
  <1> HIDE DEF u, Of, g
  <1>10. \A x \in DOMAIN u : u[x] = Cardinality({d \in C \ {c} : f[d] = x})
    <2> SUFFICES ASSUME NEW x \in DOMAIN u
                 PROVE  u[x] = Cardinality({d \in C \ {c} : f[d] = x})
      OBVIOUS
    <2>1. x \in DOMAIN t
      BY <1>6
    <2>2. CASE x = g
      BY <1>4, <1>6, <1>8, <2>2
    <2>3. CASE x # g
      BY <1>2, <1>6, <1>7, <2>1, <2>3
    <2>4. QED
      BY <2>2, <2>3
  <1>11. QED
    BY <1>9, <1>10 DEF Counts, u, g

(* The cells whose reference is still counted. *)
Counted == ActiveCells \ Dereferencing

LEMMA RefCountsCounts == RefCountsExact <=> Counts(gp_table, gpx, Counted)
  BY DEF RefCountsExact, Counts, Counted

LEMMA CountedFinite ==
  ASSUME HeapInv
  PROVE  IsFiniteSet(Counted)
  <1>1. ActiveCells \in SUBSET (0 .. cells.size - 1) /\ cells.size - 1 \in Int
    BY HeapFacts
  <1>2. IsFiniteSet(0 .. cells.size - 1)
    <2>1. \A b \in Int : IsFiniteSet(0 .. b)
      BY FS_Interval
    <2>2. QED
      BY <1>1, <2>1
  <1>3. Counted \in SUBSET (0 .. cells.size - 1)
    BY <1>1 DEF Counted
  <1>4. QED
    BY <1>2, <1>3, FS_Subset

(* Outside of a nested deletion every cell in use is counted. *)
LEMMA NonePending == \A n \in {0, 1} : 1 .. n - 1 = {}
  <1>1. 1 .. 0 - 1 = {} /\ 1 .. 1 - 1 = {}
    OBVIOUS
  <1>2. QED
    BY <1>1

LEMMA AllCounted ==
  ASSUME Len(frames) \in {0, 1}
  PROVE  Dereferencing = {} /\ Counted = ActiveCells
  <1>1. 1 .. Len(frames) - 1 = {}
    BY NonePending, Zenon
  <1>2. QED
    BY <1>1 DEF Dereferencing, Counted

(* A line gets a cell. *)
LEMMA AddMoveRefs ==
  ASSUME HeapInv, RefCountsExact, NEW l \in Objects(lines), NEW m \in Moves,
         NEW g \in GamePositions, LineAddMove(l, m, g), frames = << >>,
         Len(frames') \in {0, 1}
  PROVE  RefCountsExact'
  <1> DEFINE c == Top(cells)
             n == Pop(cells).size
             z == cells.size
             Gs == GamePositions \cup {NULL}
  <1>1. Counted = ActiveCells /\ IsFiniteSet(ActiveCells) /\ Counts(gp_table, gpx, ActiveCells)
    BY AllCounted, CountedFinite, RefCountsCounts
  <1>2. Counted' = ActiveCells'
    <2>1. 1 .. Len(frames') - 1 = {}
      BY NonePending, Zenon
    <2>2. QED
      BY <2>1 DEF Dereferencing, Counted
  <1>3. ActiveCells' = ActiveCells \cup {c} /\ c \notin ActiveCells /\ c \in Objects(cells)
    BY AddMoveCells
  <1>4. gpx' = [Grow(gpx, n, NULL) EXCEPT ![c] = g] /\ gp_table' = Referenced(gp_table, g)
    BY DEF LineAddMove
  <1>5. /\ Objects(cells) = 0 .. z - 1 /\ ActiveCells \subseteq 0 .. z - 1
        /\ z \in Nat /\ n \in Nat /\ z <= n
    BY HeapFacts, PopUses
  <1>6. gpx \in [0 .. z - 1 -> Gs] /\ NULL \in Gs
    BY <1>5 DEF HeapInv, TypeOK
  <1> HIDE DEF c, n, z, Gs
  <1>7. /\ Grow(gpx, n, NULL) \in [0 .. n - 1 -> Gs]
        /\ \A i \in 0 .. z - 1 : Grow(gpx, n, NULL)[i] = gpx[i]
        /\ \A i \in z .. n - 1 : Grow(gpx, n, NULL)[i] = NULL
    <2>1. z \in Nat /\ n \in Nat /\ z <= n
      BY <1>5
    <2>2. QED
      BY <1>6, <2>1, GrowKeeps, SMTT(60)
  <1>8. \A i \in 0 .. z - 1 : i \in 0 .. n - 1
    BY <1>5
  <1>9. gpx'[c] = g /\ \A d \in ActiveCells : gpx'[d] = gpx[d]
    BY <1>3, <1>4, <1>5, <1>7, <1>8
  <1>10. Counts(gp_table', gpx', ActiveCells')
    <2>1. Counts(Referenced(gp_table, g), gpx', ActiveCells \cup {c})
      BY <1>1, <1>3, <1>9, CountsAdd
    <2>2. QED
      BY <1>3, <1>4, <2>1
  <1>11. QED
    BY <1>2, <1>10 DEF RefCountsExact, Counts, Counted

(* The steps of a deletion. *)
LEMMA DeleteCellRefs ==
  ASSUME HeapInv, RefCountsExact, DeleteCell
  PROVE  RefCountsExact'
  <1> DEFINE n == Len(frames)
             c == frames[n].cell
  <1>1. /\ frames # << >> /\ c # NULL /\ CellRelease(c)
        /\ gp_table' = Dereferenced(gp_table, gpx[c])
        /\ frames' = [frames EXCEPT ![n].cell = next[c]]
        /\ gpx' = gpx
    BY DEF DeleteCell, Last
  <1>2. frames \in Seq(Frame) /\ n \in DOMAIN frames /\ DOMAIN frames = 1 .. n /\ n \in Nat \ {0}
    BY <1>1, TopFrame
  <1>3. c \in ActiveCells /\ c \in Objects(cells) /\ c \in UsedObjects(cells)
    BY <1>1, <1>2, HeapFacts
  <1>4. next[c] \in CellRefs
    BY <1>3 DEF HeapInv, TypeOK
  <1>5. Len(frames') = n /\ \A i \in DOMAIN frames : i # n => frames'[i] = frames[i]
    <2> HIDE DEF n, c
    <2>1. /\ Len([frames EXCEPT ![n].cell = next[c]]) = Len(frames)
          /\ \A i \in DOMAIN frames : i # n => [frames EXCEPT ![n].cell = next[c]][i] = frames[i]
      BY <1>2, <1>4, FrameMoved
    <2>2. QED
      BY <1>1, <2>1 DEF n
  <1>6. \A i \in 1 .. n - 1 : i \in DOMAIN frames /\ i # n
    <2> HIDE DEF n
    <2>1. QED
      BY <1>2
  <1>7. Dereferencing' = Dereferencing
    BY <1>5, <1>6 DEF Dereferencing
  <1>8. c \notin Dereferencing
    <2>1. \A i \in 1 .. n - 1 : frames[i].cell # c
      BY <1>1, <1>2, <1>6 DEF HeapInv, CellsOwnedOnce
    <2>2. QED
      BY <2>1 DEF Dereferencing
  <1>9. ActiveCells' = ActiveCells \ {c}
    <2>1. /\ cells' = Push(cells, c) /\ is_active' = [is_active EXCEPT ![c] = FALSE]
      BY <1>1 DEF CellRelease
    <2>2. Objects(cells') = Objects(cells)
      BY <1>3, <2>1, HeapFacts, PushUnuses
    <2>3. is_active \in [Objects(cells) -> BOOLEAN]
      BY DEF HeapInv, TypeOK
    <2> HIDE DEF c
    <2>4. \A d \in Objects(cells) : is_active'[d] <=> is_active[d] /\ d # c
      BY <1>3, <2>1, <2>3
    <2>5. QED
      BY <2>2, <2>4 DEF ActiveCells
  <1>10. Counted' = Counted \ {c} /\ c \in Counted
    BY <1>3, <1>7, <1>8, <1>9 DEF Counted
  <1>11. Counts(gp_table', gpx', Counted')
    <2>1. Counts(gp_table, gpx, Counted) /\ IsFiniteSet(Counted)
      BY RefCountsCounts, CountedFinite
    <2> HIDE DEF c
    <2>2. Counts(Dereferenced(gp_table, gpx[c]), gpx, Counted \ {c})
      BY <1>10, <2>1, CountsDrop
    <2>3. QED
      BY <1>1, <1>10, <2>2
  <1>12. QED
    BY <1>11 DEF RefCountsExact, Counts, Counted

LEMMA DeleteVariantRefs ==
  ASSUME HeapInv, RefCountsExact, DeleteVariant
  PROVE  RefCountsExact'
  <1> DEFINE n == Len(frames)
             c == frames[n].cell
             f == [line |-> variant[c], cell |-> first[variant[c]]]
  <1>1. /\ frames # << >> /\ c # NULL
        /\ gp_table' = Dereferenced(gp_table, gpx[c])
        /\ frames' = Append(frames, f)
        /\ UNCHANGED <<cells, is_active, gpx>>
    BY DEF DeleteVariant, Last
  <1>2. frames \in Seq(Frame) /\ n \in DOMAIN frames /\ DOMAIN frames = 1 .. n /\ n \in Nat \ {0}
    BY <1>1, TopFrame
  <1>3. c \in ActiveCells /\ ActiveCells' = ActiveCells
    BY <1>1, <1>2, HeapFacts DEF ActiveCells
  <1>4. Len(frames') = n + 1 /\ \A i \in 1 .. n : frames'[i] = frames[i]
    <2> HIDE DEF f
    <2>1. QED
      BY <1>1, <1>2
  <1>5. 1 .. (n + 1) - 1 = 1 .. n /\ \A i : i \in 1 .. n <=> i \in 1 .. n - 1 \/ i = n
    <2> HIDE DEF n
    <2>1. QED
      BY <1>2
  <1>6. Dereferencing' = Dereferencing \cup {c}
    <2>1. Dereferencing' = {frames[i].cell : i \in 1 .. n}
      BY <1>4, <1>5 DEF Dereferencing
    <2>2. QED
      BY <1>5, <2>1 DEF Dereferencing
  <1>7. c \notin Dereferencing
    <2>1. \A i \in 1 .. n - 1 : i \in DOMAIN frames /\ i # n
      <3> HIDE DEF n
      <3>1. QED
        BY <1>2
    <2>2. \A i \in 1 .. n - 1 : frames[i].cell # c
      BY <1>1, <1>2, <2>1 DEF HeapInv, CellsOwnedOnce
    <2>3. QED
      BY <2>2 DEF Dereferencing
  <1>8. Counted' = Counted \ {c} /\ c \in Counted
    BY <1>3, <1>6, <1>7 DEF Counted
  <1>9. Counts(gp_table', gpx', Counted')
    <2>1. Counts(gp_table, gpx, Counted) /\ IsFiniteSet(Counted)
      BY RefCountsCounts, CountedFinite
    <2> HIDE DEF c
    <2>2. Counts(Dereferenced(gp_table, gpx[c]), gpx, Counted \ {c})
      BY <1>8, <2>1, CountsDrop
    <2>3. QED
      BY <1>1, <1>8, <2>2
  <1>10. QED
    BY <1>9 DEF RefCountsExact, Counts, Counted

LEMMA DeleteReturnRefs ==
  ASSUME HeapInv, RefCountsExact, DeleteReturn
  PROVE  RefCountsExact'
  <1> DEFINE n == Len(frames)
             k == n - 1
             c == frames[k].cell
             s == Front(frames)
  <1>1. /\ n > 1 /\ CellRelease(c) /\ frames' = [s EXCEPT ![k].cell = next[c]]
        /\ UNCHANGED <<gpx, gp_table>>
    BY DEF DeleteReturn
  <1>2. frames # << >>
    <2>1. Len(<< >>) = 0 /\ ~ (0 > 1)
      OBVIOUS
    <2>2. QED
      BY <1>1, <2>1, Zenon
  <1>3. frames \in Seq(Frame) /\ DOMAIN frames = 1 .. n /\ n \in Nat \ {0}
    BY <1>2, TopFrame
  <1>4. /\ k \in 1 .. k /\ k \in DOMAIN frames
        /\ \A i \in 1 .. k : i \in DOMAIN frames
        /\ \A i : i \in 1 .. k <=> i \in 1 .. k - 1 \/ i = k
        /\ \A i \in 1 .. k - 1 : i # k
    <2> HIDE DEF n
    <2>1. QED
      BY <1>1, <1>3
  <1>5. c \in ActiveCells /\ c \in UsedObjects(cells) /\ c # NULL
    <2>1. c \in ActiveCells
      BY <1>4 DEF HeapInv, FramesInv
    <2>2. QED
      BY <2>1, HeapFacts
  <1>6. s \in Seq(Frame) /\ DOMAIN s = 1 .. k /\ Len(s) = k /\ \A i \in 1 .. k : s[i] = frames[i]
    <2>1. /\ Front(frames) \in Seq(Frame) /\ Len(Front(frames)) = Len(frames) - 1
          /\ DOMAIN Front(frames) = 1 .. Len(frames) - 1
          /\ \A i \in DOMAIN Front(frames) : Front(frames)[i] = frames[i]
      BY <1>2, <1>3, SeqFront, Zenon
    <2>2. QED
      BY <2>1
  <1>7. next[c] \in CellRefs
    BY <1>5 DEF HeapInv, TypeOK, ActiveCells
  <1>8. Len(frames') = k /\ \A i \in 1 .. k - 1 : frames'[i] = frames[i]
    <2>1. k \in DOMAIN s
      BY <1>4, <1>6
    <2> HIDE DEF s, k, c
    <2>2. /\ Len([s EXCEPT ![k].cell = next[c]]) = Len(s)
          /\ \A i \in DOMAIN s : i # k => [s EXCEPT ![k].cell = next[c]][i] = s[i]
      BY <1>6, <1>7, <2>1, FrameMoved
    <2>3. QED
      BY <1>1, <1>4, <1>6, <2>2
  <1>9. Dereferencing = {frames[i].cell : i \in 1 .. k}
    BY DEF Dereferencing
  <1>10. Dereferencing' = {frames[i].cell : i \in 1 .. k - 1}
    <2> HIDE DEF k
    <2>1. QED
      BY <1>8 DEF Dereferencing
  <1> HIDE DEF k
  <1>11. Dereferencing = Dereferencing' \cup {c} /\ c \notin Dereferencing'
    <2>1. \A i \in 1 .. k - 1 : frames[i].cell # c
      BY <1>4, <1>5 DEF HeapInv, CellsOwnedOnce
    <2>2. QED
      BY <1>4, <1>9, <1>10, <2>1
  <1>12. ActiveCells' = ActiveCells \ {c}
    <2>1. /\ cells' = Push(cells, c) /\ is_active' = [is_active EXCEPT ![c] = FALSE]
      BY <1>1 DEF CellRelease
    <2>2. Objects(cells') = Objects(cells)
      BY <1>5, <2>1, HeapFacts, PushUnuses
    <2>3. is_active \in [Objects(cells) -> BOOLEAN]
      BY DEF HeapInv, TypeOK
    <2> HIDE DEF c
    <2>4. \A d \in Objects(cells) : is_active'[d] <=> is_active[d] /\ d # c
      BY <2>1, <2>3
    <2>5. QED
      BY <2>2, <2>4 DEF ActiveCells
  <1>13. Counted' = Counted
    BY <1>11, <1>12 DEF Counted
  <1>14. QED
    BY <1>1, <1>13 DEF RefCountsExact, Counted

(* A step that touches neither cells nor table. *)
LEMMA SameRefs ==
  ASSUME RefCountsExact, UNCHANGED <<cells, is_active, gpx, gp_table>>,
         Len(frames) \in {0, 1}, Len(frames') \in {0, 1}
  PROVE  RefCountsExact'
  <1>1. 1 .. Len(frames) - 1 = {} /\ 1 .. Len(frames') - 1 = {}
    BY NonePending, Zenon
  <1>2. Dereferencing = {} /\ Dereferencing' = {}
    BY <1>1 DEF Dereferencing
  <1>3. ActiveCells' = ActiveCells
    BY DEF ActiveCells
  <1>4. QED
    BY <1>2, <1>3 DEF RefCountsExact

LEMMA InitRefs == Init => RefCountsExact
  <1> SUFFICES ASSUME Init PROVE RefCountsExact
    OBVIOUS
  <1>1. ActiveCells = {} /\ DOMAIN gp_table = {}
    <2>1. /\ cells.size = CellsFirstSize
          /\ is_active = [c \in 0 .. CellsFirstSize - 1 |-> FALSE] /\ gp_table = [g \in {} |-> 0]
      BY NewPoolOK, PVEnvAssumption DEF Init
    <2>2. QED
      BY <2>1 DEF ActiveCells, Objects
  <1>2. QED
    BY <1>1 DEF RefCountsExact

LEMMA NextRefs == IInv /\ RefCountsExact /\ [Next]_vars => RefCountsExact'
  <1> SUFFICES ASSUME IInv, RefCountsExact, [Next]_vars PROVE RefCountsExact'
    OBVIOUS
  <1>0. HeapInv
    BY IInvParts
  <1>l. Len(<< >>) \in {0, 1}
    OBVIOUS
  <1>1. CASE UNCHANGED vars
    BY <1>1 DEF vars, heap, RefCountsExact, ActiveCells, Dereferencing
  <1>2. CASE MoveNode \/ PassNode \/ LeafNode \/ SearchMove \/ Return
    <2>1. UNCHANGED <<cells, is_active, gpx, gp_table>> /\ frames = << >> /\ frames' = << >>
      BY <1>2 DEF MoveNode, PassNode, LeafNode, SearchMove, Return, Searching, heap
    <2>2. QED
      BY <1>l, <2>1, SameRefs
  <1>3. CASE Reject
    <2>1. /\ UNCHANGED <<cells, is_active, gpx, gp_table>> /\ frames = << >>
          /\ frames' = <<[line |-> Last(held), cell |-> first[Last(held)]]>>
      BY <1>3 DEF Reject, Searching, LineDelete
    <2>2. Len(frames') \in {0, 1}
      BY <2>1
    <2>3. QED
      BY <1>l, <2>1, <2>2, SameRefs
  <1>4. ASSUME NEW m \in Moves, NEW g \in GamePositions, NEW from \in {"back", "pass_back"},
               NEW to, AcceptLine(m, g, from, to)
        PROVE  RefCountsExact'
    <2>1. /\ Searching({from}) /\ LineAddMove(Last(held), m, g)
          /\ frames' = <<[line |-> ParentLine, cell |-> first[ParentLine]]>>
      BY <1>4 DEF AcceptLine, LineDelete
    <2>2. frames = << >> /\ Len(held) >= 2
      BY <2>1, BackFacts
    <2>3. Last(held) \in Objects(lines)
      BY <1>0, <2>2, HeldEnds
    <2>4. Len(frames') \in {0, 1}
      BY <2>1
    <2>5. QED
      BY <1>0, <2>1, <2>2, <2>3, <2>4, AddMoveRefs
  <1>5. ASSUME NEW m \in Moves \ {PassMove}, NEW g \in GamePositions, Accept(m, g)
        PROVE  RefCountsExact'
    BY <1>4, <1>5 DEF Accept
  <1>6. ASSUME NEW g \in GamePositions, PassAccept(g)
        PROVE  RefCountsExact'
    BY <1>4, <1>6, PVEnvAssumption DEF PassAccept
  <1>7. ASSUME NEW m \in Moves \ {PassMove}, NEW g \in GamePositions, AddVariant(m, g)
        PROVE  RefCountsExact'
    <2>1. Searching({"back"}) /\ LineAddMove(Last(held), m, g) /\ frames' = frames
      BY <1>7 DEF AddVariant
    <2>2. frames = << >> /\ Len(held) >= 2
      BY <2>1, BackFacts
    <2>3. Last(held) \in Objects(lines)
      BY <1>0, <2>2, HeldEnds
    <2>4. Len(frames') \in {0, 1}
      BY <1>l, <2>1, <2>2
    <2>5. QED
      BY <1>0, <2>1, <2>2, <2>3, <2>4, AddMoveRefs
  <1>8. CASE DeleteCell
    BY <1>0, <1>8, DeleteCellRefs
  <1>9. CASE DeleteVariant
    BY <1>0, <1>9, DeleteVariantRefs
  <1>10. CASE DeleteReturn
    BY <1>0, <1>10, DeleteReturnRefs
  <1>11. CASE DeleteEnd
    <2>1. Len(frames) \in {0, 1} /\ frames' = << >> /\ UNCHANGED <<cells, is_active, gpx, gp_table>>
      BY <1>11 DEF DeleteEnd
    <2>2. QED
      BY <1>l, <2>1, SameRefs
  <1>12. QED
    BY <1>1, <1>2, <1>3, <1>5, <1>6, <1>7, <1>8, <1>9, <1>10, <1>11 DEF Next, Delete

(* The table of game positions holds the positions of the cells in use     *)
(* with their number, also in the middle of a deletion: rbt_find in        *)
(* pve_line_delete never fails, and no entry outlives its last cell.       *)
THEOREM RefCountsCorrect == Spec => []RefCountsExact
  BY Inductive, InitRefs, NextRefs, PTL DEF Spec
==============================================================================
