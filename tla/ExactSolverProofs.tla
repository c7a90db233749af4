-------------------------- MODULE ExactSolverProofs --------------------------
(***************************************************************************)
(* es computes what ExactSolution asks for, for any games: the game value, *)
(* an optimal play and, with full recording, all of them.                  *)
(***************************************************************************)
EXTENDS ExactSolver, GameTreeProofs

-----------------------------------------------------------------------------
(* The inductive invariant. *)

NodeSet == [move : Int \cup {PassMove}, value : Int]
Positions(g) == DOMAIN g.moves
CallSet == [ pc : {"enter", "loop", "back", "pass_back", "out"}, gp : Int,
             achievable : Int, cutoff : Int, node : NodeSet, list : Seq(Int),
             branch_is_active : BOOLEAN ]

(* The position and the upper bound of the call that c waits for. *)
Waits(c) == c.pc \in {"back", "pass_back"}
Target(c) == IF c.pc = "back" THEN Head(c.list) ELSE Passed(c.gp)
Bound(c) == IF c.pc = "back" THEN c.node.value ELSE c.achievable

(* A call and its line. *)
CallInv(g, full, c, line) ==
  /\ Window(full, c.achievable, c.cutoff)
  /\ PlayedFrom(g, line, c.gp)
  /\ c.pc = "enter" => ~c.branch_is_active
  /\ c.pc \in {"loop", "back"} =>
       Searching(g, full, c.gp, c.achievable, c.cutoff, c.node.value, c.branch_is_active,
                 ToSet(c.list), line)
  /\ c.pc = "back" => c.list # << >>
  /\ c.pc = "pass_back" => ~HasLegalMove(g, c.gp) /\ HasLegalMove(g, Passed(c.gp))
  /\ c.pc = "out" => Found(g, full, c.gp, c.achievable, c.cutoff, c.node.value, line)

(* Call c waits for call d. *)
Awaits(c, d) ==
  /\ Waits(c)
  /\ d.gp = Target(c) /\ d.achievable = -c.cutoff /\ d.cutoff = -Bound(c)

(* What call c has waited for has come back. *)
Answered(g, full, c, value, line) ==
  /\ PlayedFrom(g, line, Target(c))
  /\ Found(g, full, Target(c), -c.cutoff, -Bound(c), value, line)

(* The outermost call. *)
RootCall(full, c) ==
  /\ c.gp = Root
  /\ c.achievable = RootAlpha(full) /\ c.cutoff = RootBeta(full)

Stack(g, full, cs, hs) ==
  /\ cs \in Seq(CallSet) /\ hs \in Seq(Lines) /\ Len(hs) \in {Len(cs), Len(cs) + 1}
  /\ \A k \in 1 .. Len(cs) : cs[k].gp \in DOMAIN g.moves /\ CallInv(g, full, cs[k], hs[k])
  /\ \A k \in 1 .. Len(cs) - 1 : Awaits(cs[k], cs[k + 1])
  /\ cs # << >> => RootCall(full, cs[1])

(* The line of a call that has ended is held until the caller takes it. *)
Pending(g, full, cs, hs, value) ==
  cs # << >> =>
    LET c == cs[Len(cs)]
    IN  /\ Len(hs) = IF Waits(c) THEN Len(cs) + 1 ELSE Len(cs)
        /\ Waits(c) => Answered(g, full, c, value, hs[Len(cs) + 1])

IInv ==
  /\ game \in Games /\ WellFormed(game) /\ pv_full_recording \in BOOLEAN
  /\ returned \in NodeSet
  /\ Stack(game, pv_full_recording, calls, held)
  /\ Pending(game, pv_full_recording, calls, held, returned.value)
  /\ calls # << >> => solution = Unsolved

-----------------------------------------------------------------------------
(* Stacks of calls. *)

(* A call is like another one but for how far it has come. *)
SameCall(c, d) == c.gp = d.gp /\ c.achievable = d.achievable /\ c.cutoff = d.cutoff

(* The call on top comes further, with a line of its own. *)
LEMMA TopReplaced ==
  ASSUME NEW g, NEW full, NEW cs, NEW hs, Stack(g, full, cs, hs), cs # << >>,
         NEW c \in CallSet, SameCall(c, cs[Len(cs)]),
         NEW hs2 \in Seq(Lines), Len(hs2) \in {Len(cs), Len(cs) + 1},
         \A k \in 1 .. Len(cs) - 1 : hs2[k] = hs[k],
         CallInv(g, full, c, hs2[Len(cs)])
  PROVE  Stack(g, full, [cs EXCEPT ![Len(cs)] = c], hs2)
<1> DEFINE k == Len(cs)
           ds == [cs EXCEPT ![k] = c]
<1>1. /\ cs \in Seq(CallSet) /\ k \in Nat \ {0}
      /\ \A i \in 1 .. k : cs[i].gp \in DOMAIN g.moves /\ CallInv(g, full, cs[i], hs[i])
      /\ \A i \in 1 .. k - 1 : Awaits(cs[i], cs[i + 1])
      /\ RootCall(full, cs[1])
  BY DEF Stack
<1>2. /\ ds \in Seq(CallSet) /\ Len(ds) = k /\ ds[k] = c
      /\ \A i \in 1 .. k - 1 : ds[i] = cs[i]
  BY <1>1
<1> HIDE DEF k, ds
<1>3. /\ cs[k].gp \in DOMAIN g.moves /\ SameCall(c, cs[k]) /\ CallInv(g, full, c, hs2[k])
      /\ Len(hs2) \in {k, k + 1} /\ \A i \in 1 .. k - 1 : hs2[i] = hs[i]
  BY <1>1 DEF k
<1>4. ASSUME NEW i \in 1 .. k
      PROVE  ds[i].gp \in DOMAIN g.moves /\ CallInv(g, full, ds[i], hs2[i])
  <2>1. CASE i = k
    BY <1>2, <1>3, <2>1 DEF SameCall
  <2>2. CASE i # k
    <3>1. i \in 1 .. k - 1
      BY <1>1, <2>2
    <3> QED
      BY <1>1, <1>2, <1>3, <3>1
  <2> QED
    BY <2>1, <2>2
<1>5. ASSUME NEW i \in 1 .. k - 1 PROVE Awaits(ds[i], ds[i + 1])
  <2>1. ds[i] = cs[i] /\ Awaits(cs[i], cs[i + 1])
    BY <1>1, <1>2
  <2>2. CASE i = k - 1
    <3>1. i + 1 = k
      BY <1>1, <2>2
    <3> QED
      BY <1>2, <1>3, <2>1, <3>1 DEF Awaits, SameCall
  <2>3. CASE i # k - 1
    <3>1. i + 1 \in 1 .. k - 1
      BY <1>1, <2>3
    <3> QED
      BY <1>2, <2>1, <3>1
  <2> QED
    BY <2>2, <2>3
<1>6. RootCall(full, ds[1])
  <2>1. CASE k = 1
    BY <1>1, <1>2, <1>3, <2>1 DEF RootCall, SameCall
  <2>2. CASE k # 1
    <3>1. 1 \in 1 .. k - 1
      BY <1>1, <2>2
    <3> QED
      BY <1>1, <1>2, <3>1
  <2> QED
    BY <2>1, <2>2
<1>7. Stack(g, full, ds, hs2)
  BY <1>2, <1>3, <1>4, <1>5, <1>6 DEF Stack
<1> QED
  BY <1>7 DEF ds, k

(* The call on top makes a call. *)
LEMMA CallPushed ==
  ASSUME NEW g, NEW full, NEW cs, NEW hs, Stack(g, full, cs, hs), cs # << >>, Len(hs) = Len(cs),
         NEW d \in CallSet, d.gp \in DOMAIN g.moves, Awaits(cs[Len(cs)], d),
         NEW line \in Lines, CallInv(g, full, d, line)
  PROVE  Stack(g, full, Append(cs, d), Append(hs, line))
<1> DEFINE k == Len(cs)
           ds == Append(cs, d)
           hs2 == Append(hs, line)
<1>1. /\ cs \in Seq(CallSet) /\ hs \in Seq(Lines) /\ k \in Nat \ {0} /\ Len(hs) = k
      /\ \A i \in 1 .. k : cs[i].gp \in DOMAIN g.moves /\ CallInv(g, full, cs[i], hs[i])
      /\ \A i \in 1 .. k - 1 : Awaits(cs[i], cs[i + 1])
      /\ RootCall(full, cs[1]) /\ Awaits(cs[k], d)
  BY DEF Stack
<1>2. /\ ds \in Seq(CallSet) /\ Len(ds) = k + 1 /\ ds[k + 1] = d
      /\ \A i \in 1 .. k : ds[i] = cs[i]
      /\ hs2 \in Seq(Lines) /\ Len(hs2) = k + 1 /\ hs2[k + 1] = line
      /\ \A i \in 1 .. k : hs2[i] = hs[i]
  BY <1>1
<1> HIDE DEF k, ds, hs2
<1>3. ASSUME NEW i \in 1 .. k + 1
      PROVE  ds[i].gp \in DOMAIN g.moves /\ CallInv(g, full, ds[i], hs2[i])
  <2>1. CASE i = k + 1
    BY <1>2, <2>1
  <2>2. CASE i # k + 1
    <3>1. i \in 1 .. k
      BY <1>1, <2>2
    <3> QED
      BY <1>1, <1>2, <3>1
  <2> QED
    BY <2>1, <2>2
<1>4. ASSUME NEW i \in 1 .. (k + 1) - 1 PROVE Awaits(ds[i], ds[i + 1])
  <2>1. i \in 1 .. k /\ ds[i] = cs[i]
    BY <1>1, <1>2, SMTT(30)
  <2>2. CASE i = k
    BY <1>1, <1>2, <2>1, <2>2
  <2>3. CASE i # k
    <3>1. i \in 1 .. k - 1 /\ i + 1 \in 1 .. k
      BY <1>1, <2>1, <2>3
    <3> QED
      BY <1>1, <1>2, <2>1, <3>1
  <2> QED
    BY <2>2, <2>3
<1>5. RootCall(full, ds[1])
  <2>1. 1 \in 1 .. k
    BY <1>1
  <2> QED
    BY <1>1, <1>2, <2>1
<1>6. Stack(g, full, ds, hs2)
  BY <1>1, <1>2, <1>3, <1>4, <1>5 DEF Stack
<1> QED
  BY <1>6 DEF ds, hs2

(* The call on top ends. *)
LEMMA CallPopped ==
  ASSUME NEW g, NEW full, NEW cs, NEW hs, Stack(g, full, cs, hs), cs # << >>, Len(hs) = Len(cs)
  PROVE  Stack(g, full, SubSeq(cs, 1, Len(cs) - 1), hs)
<1> DEFINE k == Len(cs)
           ds == SubSeq(cs, 1, k - 1)
<1>1. /\ cs \in Seq(CallSet) /\ hs \in Seq(Lines) /\ k \in Nat \ {0} /\ Len(hs) = k
      /\ \A i \in 1 .. k : cs[i].gp \in DOMAIN g.moves /\ CallInv(g, full, cs[i], hs[i])
      /\ \A i \in 1 .. k - 1 : Awaits(cs[i], cs[i + 1])
      /\ RootCall(full, cs[1])
  BY DEF Stack
<1>2. /\ ds \in Seq(CallSet) /\ Len(ds) = k - 1
      /\ \A i \in 1 .. k - 1 : ds[i] = cs[i]
  BY <1>1
<1> HIDE DEF k, ds
<1>3. /\ \A i \in 1 .. k - 1 : ds[i].gp \in DOMAIN g.moves /\ CallInv(g, full, ds[i], hs[i])
      /\ \A i \in 1 .. (k - 1) - 1 : Awaits(ds[i], ds[i + 1])
  BY <1>1, <1>2
<1>4. ds # << >> => RootCall(full, ds[1])
  <2>1. ds # << >> => 1 \in 1 .. k - 1
    BY <1>1, <1>2
  <2> QED
    BY <1>1, <1>2, <2>1
<1>5. Len(hs) \in {Len(ds), Len(ds) + 1}
  BY <1>1, <1>2
<1>6. Stack(g, full, ds, hs)
  BY <1>1, <1>2, <1>3, <1>4, <1>5 DEF Stack
<1> QED
  BY <1>6 DEF ds, k

-----------------------------------------------------------------------------
(* What the invariant says of the call on top. *)

LEMMA TopFacts ==
  ASSUME IInv, calls # << >>
  PROVE  /\ WellFormed(game) /\ pv_full_recording \in BOOLEAN /\ BestScore \in Nat \ {0}
         /\ n \in Nat \ {0} /\ calls \in Seq(CallSet) /\ held \in Seq(Lines)
         /\ Call \in CallSet /\ Call.gp \in Positions(game)
         /\ Call.achievable \in Int /\ Call.cutoff \in Int /\ Call.node.value \in Int
         /\ Call.list \in Seq(Int) /\ Call.branch_is_active \in BOOLEAN
         /\ held[n] \in Lines /\ CallInv(game, pv_full_recording, Call, held[n])
         /\ returned.value \in Int /\ solution = Unsolved
<1>1. /\ calls \in Seq(CallSet) /\ held \in Seq(Lines) /\ Len(held) \in {Len(calls), Len(calls) + 1}
      /\ \A k \in 1 .. Len(calls) :
           calls[k].gp \in DOMAIN game.moves /\ CallInv(game, pv_full_recording, calls[k], held[k])
  BY DEF IInv, Stack
<1>2. n \in Nat \ {0} /\ n = Len(calls) /\ n \in 1 .. Len(held)
  BY <1>1 DEF n
<1>3. Call \in CallSet /\ Call = calls[n]
  BY <1>1, <1>2 DEF Call
<1>4. /\ Call.achievable \in Int /\ Call.cutoff \in Int /\ Call.node.value \in Int
      /\ Call.list \in Seq(Int) /\ Call.branch_is_active \in BOOLEAN
  BY <1>3 DEF CallSet, NodeSet
<1>5. held[n] \in Lines
  BY <1>1, <1>2
<1>6. returned.value \in Int
  BY DEF IInv, NodeSet
<1>7. BestScore \in Nat \ {0}
  BY SolverAssumption
<1>8. n \in 1 .. Len(calls)
  BY <1>2
<1>9. Call.gp \in Positions(game) /\ CallInv(game, pv_full_recording, Call, held[n])
  BY <1>1, <1>3, <1>8 DEF Positions
<1> QED
  BY <1>1, <1>2, <1>3, <1>4, <1>5, <1>6, <1>7, <1>9 DEF IInv

(* The call on top has come further, without a call or a return. *)
LEMMA Advanced ==
  ASSUME IInv, calls # << >>, NEW c \in CallSet, SameCall(c, Call), ~Waits(c),
         calls' = [calls EXCEPT ![n] = c], held' \in Seq(Lines), Len(held') = n,
         \A k \in 1 .. n - 1 : held'[k] = held[k],
         CallInv(game, pv_full_recording, c, held'[n]),
         UNCHANGED <<game, pv_full_recording, returned, solution>>
  PROVE  IInv'
<1>1. /\ Stack(game, pv_full_recording, calls, held) /\ n = Len(calls) /\ Call = calls[Len(calls)]
      /\ n \in Nat \ {0} /\ calls \in Seq(CallSet)
  BY TopFacts DEF IInv, n, Call
<1>2. PICK hs : hs = held'
  OBVIOUS
<1>3. Stack(game, pv_full_recording, [calls EXCEPT ![n] = c], hs)
  BY <1>1, <1>2, TopReplaced
<1>4. Len(calls') = n /\ calls'[n] = c
  BY <1>1
<1>5. Pending(game, pv_full_recording, calls', held', returned.value)
  BY <1>4 DEF Pending
<1>6. calls # << >> /\ solution = Unsolved
  BY TopFacts
<1> QED
  BY <1>2, <1>3, <1>5, <1>6 DEF IInv

(* The call on top has made a call. *)
LEMMA Recursed ==
  ASSUME IInv, calls # << >>, Len(held) = n, NEW c \in CallSet, SameCall(c, Call),
         CallInv(game, pv_full_recording, c, held[n]),
         NEW d \in CallSet, d.gp \in Positions(game), d.pc = "enter", ~d.branch_is_active,
         Window(pv_full_recording, d.achievable, d.cutoff), Awaits(c, d),
         calls' = Append([calls EXCEPT ![n] = c], d), held' = Append(held, LineCreated),
         UNCHANGED <<game, pv_full_recording, returned, solution>>
  PROVE  IInv'
<1>1. /\ Stack(game, pv_full_recording, calls, held) /\ n = Len(calls) /\ Call = calls[Len(calls)]
      /\ n \in Nat \ {0} /\ calls \in Seq(CallSet) /\ held \in Seq(Lines)
  BY TopFacts DEF IInv, n, Call
<1>2. Stack(game, pv_full_recording, [calls EXCEPT ![n] = c], held)
  BY <1>1, TopReplaced
<1>3. PICK cs : cs = [calls EXCEPT ![n] = c]
  OBVIOUS
<1>4. Len(cs) = n /\ cs[n] = c /\ cs # << >>
  BY <1>1, <1>3
<1>5. CallInv(game, pv_full_recording, d, LineCreated) /\ LineCreated \in Lines
  BY CreatedLine DEF CallInv
<1>6. Stack(game, pv_full_recording, calls', held')
  BY <1>2, <1>3, <1>4, <1>5, CallPushed DEF Positions
<1>7. Len(calls') = n + 1 /\ calls'[n + 1] = d /\ Len(held') = n + 1
  BY <1>1
<1>8. Pending(game, pv_full_recording, calls', held', returned.value)
  BY <1>7 DEF Pending, Waits
<1>9. solution = Unsolved
  BY TopFacts
<1> QED
  BY <1>6, <1>8, <1>9 DEF IInv

(* The reply to the call on top. *)
LEMMA ReplyFacts ==
  ASSUME IInv, calls # << >>, Waits(Call)
  PROVE  /\ Len(held) = n + 1 /\ held[n + 1] \in Lines
         /\ Answered(game, pv_full_recording, Call, returned.value, held[n + 1])
<1>1. /\ n = Len(calls) /\ Call = calls[Len(calls)] /\ n \in Nat \ {0} /\ held \in Seq(Lines)
  BY TopFacts DEF n, Call
<1>2. /\ Len(held) = n + 1
      /\ Answered(game, pv_full_recording, Call, returned.value, held[n + 1])
  BY <1>1 DEF IInv, Pending
<1> QED
  BY <1>1, <1>2

(* The line of the call on top is replaced, and the reply taken. *)
LEMMA LineReplaced ==
  ASSUME IInv, calls # << >>, NEW line \in Lines,
         held' = Append(SubSeq(held, 1, n - 1), line)
  PROVE  /\ held' \in Seq(Lines) /\ Len(held') = n /\ held'[n] = line
         /\ \A k \in 1 .. n - 1 : held'[k] = held[k]
<1>1. n \in Nat \ {0} /\ held \in Seq(Lines) /\ n = Len(calls)
  BY TopFacts DEF n
<1>2. Len(held) \in {n, n + 1}
  BY <1>1 DEF IInv, Stack
<1>3. PICK hs : hs = SubSeq(held, 1, n - 1)
  OBVIOUS
<1>4. hs \in Seq(Lines) /\ Len(hs) = n - 1 /\ \A k \in 1 .. n - 1 : hs[k] = held[k]
  BY <1>1, <1>2, <1>3
<1>5. PICK hs2 : hs2 = Append(hs, line)
  OBVIOUS
<1>6. hs2 \in Seq(Lines) /\ Len(hs2) = (n - 1) + 1 /\ hs2[(n - 1) + 1] = line
      /\ \A k \in 1 .. n - 1 : hs2[k] = hs[k]
  BY <1>1, <1>4, <1>5
<1>7. (n - 1) + 1 = n /\ held' = hs2
  BY <1>1, <1>3, <1>5
<1> QED
  BY <1>4, <1>6, <1>7

(* A move finds its place before the tail of the list at the latest: the  *)
(* tail has a mobility that no move can have.                              *)
LEMMA MoveIsInserted ==
  ASSUME WellFormed(game), NEW P, P = Positions(game), NEW list \in Seq(P), NEW q \in P
  PROVE  /\ MoveInserted(list, q) \in Seq(P)
         /\ ToSet(MoveInserted(list, q)) = ToSet(list) \cup {q}
<1> DEFINE places == [i \in DOMAIN list |-> Mobility(game, list[i])]
           mobility == Append(places, TailMobility)
           T == {i \in DOMAIN mobility : Mobility(game, q) < mobility[i]}
<1>1. ASSUME NEW r \in P PROVE Mobility(game, r) \in Nat /\ Mobility(game, r) < 255
  <2>1. game.moves[r] \in Seq(DOMAIN game.moves)
    BY DEF WellFormed, Positions
  <2>2. game.empties[r] \in 0 .. SquareCount /\ Len(game.moves[r]) <= game.empties[r]
    BY DEF WellFormed, Positions
  <2>3. Len(game.moves[r]) \in Nat
    BY <2>1
  <2>4. PICK length, empties : length = Len(game.moves[r]) /\ empties = game.empties[r]
    OBVIOUS
  <2>5. length \in Nat /\ empties \in Nat /\ empties <= SquareCount /\ length <= empties
    <3>1. SquareCount \in Nat
      BY DEF SquareCount
    <3> QED
      BY <2>2, <2>3, <2>4, <3>1
  <2>6. length < 255
    BY <2>5 DEF SquareCount
  <2> QED
    BY <2>4, <2>5, <2>6 DEF Mobility
<1>2. PICK k : k = Len(list)
  OBVIOUS
<1>3. k \in Nat /\ DOMAIN list = 1 .. k /\ \A i \in 1 .. k : list[i] \in P
  BY <1>2
<1>4. TailMobility = 255
  BY DEF TailMobility
<1>5. places \in Seq(Int) /\ Len(places) = k
  <2>1. \A i \in 1 .. k : Mobility(game, list[i]) \in Int
    BY <1>1, <1>3
  <2>2. places = [i \in 1 .. k |-> Mobility(game, list[i])]
    BY <1>3
  <2> HIDE DEF places
  <2>3. places \in Seq(Int)
    BY <1>3, <2>1, <2>2
  <2> QED
    BY <1>3, <2>2, <2>3
<1> HIDE DEF places
<1>6. Len(mobility) = k + 1 /\ mobility[k + 1] = 255 /\ DOMAIN mobility = 1 .. k + 1
  BY <1>3, <1>4, <1>5
<1> HIDE DEF mobility
<1>7. PICK own : own = Mobility(game, q)
  OBVIOUS
<1>8. own < 255
  BY <1>1, <1>7
<1>9. k + 1 \in T /\ T \subseteq 1 .. k + 1
  BY <1>3, <1>6, <1>7, <1>8
<1>10. MoveInserted(list, q) = InsertAt(list, Min(T), q)
  BY <1>9 DEF MoveInserted, mobility, places
<1> HIDE DEF T
<1>11. PICK U : U = T
  OBVIOUS
<1>12. Places(list, U)
  BY <1>2, <1>9, <1>11 DEF Places
<1>13. /\ InsertAt(list, Min(U), q) \in Seq(P)
       /\ ToSet(InsertAt(list, Min(U), q)) = ToSet(list) \cup {q}
  BY <1>12, InsertedAtLeast
<1> QED
  BY <1>10, <1>11, <1>13

(* So the moves are searched in another order, and none is left out. *)
LEMMA MovesSorted ==
  ASSUME WellFormed(game), NEW p \in Positions(game)
  PROVE  /\ SortedMoves(p) \in Seq(Positions(game))
         /\ ToSet(SortedMoves(p)) = ToSet(Legal(game, p))
<1> DEFINE P == Positions(game)
           seq == Legal(game, p)
           insert == [lq \in Seq(P) \X P |-> MoveInserted(lq[1], lq[2])]
           D == SUBSET DOMAIN seq
           made(s, h) == IF s = {} THEN << >> ELSE MoveInserted(h[s \ {Max(s)}], seq[Max(s)])
           Solves(h) == h = [s \in D |-> made(s, h)]
<1>1. seq \in Seq(P)
  BY DEF WellFormed, Positions, Legal
<1>2. ASSUME NEW list \in Seq(P), NEW q \in P
      PROVE  /\ insert[<<list, q>>] = MoveInserted(list, q)
             /\ MoveInserted(list, q) \in Seq(P)
             /\ ToSet(MoveInserted(list, q)) = ToSet(list) \cup {q}
  <2>1. insert[<<list, q>>] = MoveInserted(list, q)
    <3>1. <<list, q>> \in Seq(P) \X P /\ <<list, q>>[1] = list /\ <<list, q>>[2] = q
      OBVIOUS
    <3> QED
      BY <3>1
  <2> HIDE DEF insert
  <2> QED
    BY <2>1, MoveIsInserted
<1>3. Insertion(P, insert)
  <2>1. insert = [lq \in Seq(P) \X P |-> insert[lq]]
    OBVIOUS
  <2>2. \A lq \in Seq(P) \X P : \E list \in Seq(P) : \E q \in P : lq = <<list, q>>
    OBVIOUS
  <2> HIDE DEF insert, P
  <2>3. \A lq \in Seq(P) \X P : insert[lq] \in Seq(P)
    BY <1>2, <2>2
  <2>4. insert \in [Seq(P) \X P -> Seq(P)]
    BY <2>1, <2>3
  <2>5. \A list \in Seq(P) : \A q \in P : ToSet(insert[<<list, q>>]) = ToSet(list) \cup {q}
    BY <1>2
  <2> QED
    BY <2>4, <2>5 DEF Insertion
<1>4. SortedMoves(p) = (CHOOSE h : Solves(h))[DOMAIN seq]
  BY DEF SortedMoves, FoldLeft, MapThenFoldSet
<1>5. \A s \in D : s # {} => Max(s) \in DOMAIN seq /\ seq[Max(s)] \in P /\ s \ {Max(s)} \in D
  <2> TAKE s \in D
  <2>1. DOMAIN seq = 1 .. Len(seq) /\ Len(seq) \in Nat
    BY <1>1
  <2>2. s # {} => Max(s) \in s
    BY <2>1, GreatestOf
  <2> HIDE DEF seq
  <2> QED
    BY <1>1, <2>1, <2>2
<1> HIDE DEF insert
<1>6. \E h : Solves(h)
  <2>0. PICK h \in [D -> Seq(P)] : InsertsAll(seq, insert, h)
    <3> HIDE DEF P, seq, made, Solves
    <3> QED
      BY <1>1, <1>3, SortingExists
  <2>1. \A s \in D :
          h[s] = IF s = {} THEN << >> ELSE insert[<<h[s \ {Max(s)}], seq[Max(s)]>>]
    BY <2>0 DEF InsertsAll
  <2>2. \A s \in D : h[s] = made(s, h)
    <3> TAKE s \in D
    <3>1. CASE s = {}
      BY <2>1, <3>1
    <3>2. CASE s # {}
      <4>1. h[s \ {Max(s)}] \in Seq(P) /\ seq[Max(s)] \in P
        BY <1>5, <2>1, <3>2
      <4>2. h[s] = insert[<<h[s \ {Max(s)}], seq[Max(s)]>>]
        BY <2>1, <3>2
      <4> HIDE DEF P, D, seq
      <4>3. h[s] = MoveInserted(h[s \ {Max(s)}], seq[Max(s)])
        BY <1>2, <4>1, <4>2
      <4> QED
        BY <3>2, <4>3
    <3> QED
      BY <3>1, <3>2
  <2>3. h = [s \in D |-> h[s]]
    BY <2>1
  <2> HIDE DEF made, D
  <2>4. Solves(h)
    BY <2>2, <2>3
  <2> QED
    BY <2>4
<1>7. PICK h : Solves(h) /\ SortedMoves(p) = h[DOMAIN seq]
  <2> HIDE DEF Solves, seq
  <2> QED
    BY <1>4, <1>6
<1>8. \A s \in D : h[s] = made(s, h)
  <2> HIDE DEF made, D
  <2> QED
    BY <1>7
<1>9. h[{}] = << >>
  BY <1>8
<1>10. ASSUME NEW s \in D, s # {}, h[s \ {Max(s)}] \in Seq(P)
       PROVE  h[s] = insert[<<h[s \ {Max(s)}], seq[Max(s)]>>]
  <2>1. h[s] = MoveInserted(h[s \ {Max(s)}], seq[Max(s)]) /\ seq[Max(s)] \in P
    BY <1>5, <1>8, <1>10
  <2> HIDE DEF P, D, seq
  <2> QED
    BY <1>2, <1>10, <2>1
<1>11. InsertsLists(P, seq, insert, h)
  <2> HIDE DEF P, seq, made, Solves
  <2> QED
    BY <1>9, <1>10 DEF InsertsLists
<1> QED
  <2>1. h[DOMAIN seq] \in Seq(P) /\ ToSet(h[DOMAIN seq]) = ToSet(seq)
    <3> HIDE DEF P, seq, made, Solves
    <3> QED
      BY <1>1, <1>3, <1>11, SortingKeeps
  <2> QED
    BY <1>7, <2>1

(* A position with legal moves has a list of them. *)
LEMMA MovesListed ==
  ASSUME WellFormed(game), NEW p \in Positions(game), HasLegalMove(game, p)
  PROVE  /\ SortedMoves(p) \in Seq(Int) /\ SortedMoves(p) # << >>
         /\ ToSet(SortedMoves(p)) = Successors(game, p)
<1> DEFINE seq == Legal(game, p)
           list == SortedMoves(p)
<1>1. list \in Seq(Positions(game)) /\ ToSet(list) = ToSet(seq)
  BY MovesSorted
<1>2. Positions(game) \subseteq Int /\ seq \in Seq(Positions(game)) /\ seq # << >>
  BY DEF WellFormed, Positions, Legal, HasLegalMove
<1>3. Successors(game, p) = ToSet(seq)
  BY <1>2 DEF Successors, IsTerminal, ToSet, Legal
<1> HIDE DEF seq, list
<1>4. ToSet(list) # {}
  <2>1. 1 \in DOMAIN seq
    BY <1>2
  <2> QED
    BY <1>1, <2>1 DEF ToSet
<1>5. list # << >>
  BY <1>4 DEF ToSet
<1>6. list \in Seq(Int)
  BY <1>1, <1>2
<1> QED
  BY <1>1, <1>3, <1>5, <1>6 DEF list

-----------------------------------------------------------------------------
(* The steps. *)

(* A call that has just been made. *)
Entered(d, gp, low, high) ==
  /\ d \in CallSet /\ d.pc = "enter" /\ d.gp = gp /\ d.achievable = low /\ d.cutoff = high
  /\ d.branch_is_active = FALSE

LEMMA NewCallEnters ==
  ASSUME NEW gp \in Int, NEW low \in Int, NEW high \in Int
  PROVE  Entered(NewCall(gp, low, high), gp, low, high)
<1>1. Null \in NodeSet /\ << >> \in Seq(Int)
  BY DEF Null, NodeSet
<1> QED
  BY <1>1 DEF Entered, NewCall, CallSet

LEMMA InitHolds == Init => IInv
<1> SUFFICES ASSUME Init PROVE IInv
  OBVIOUS
<1>1. /\ WellFormed(game) /\ pv_full_recording \in BOOLEAN /\ BestScore \in Nat \ {0}
      /\ game \in Games /\ solution = Unsolved /\ held = <<LineCreated>> /\ returned = Null
  BY SolverAssumption DEF Init
<1> DEFINE low == RootAlpha(pv_full_recording)
           high == RootBeta(pv_full_recording)
           c == NewCall(Root, low, high)
<1>2. calls = <<c>>
  BY <1>1 DEF Init, RootAlpha, RootBeta
<1>3. low \in Int /\ high \in Int /\ Window(pv_full_recording, low, high)
  BY <1>1 DEF RootAlpha, RootBeta, OutOfRangeDefeatScore, OutOfRangeWinScore, WorstScore, Window
<1> HIDE DEF low, high
<1>4. Root \in DOMAIN game.moves /\ Root \in Int
  BY <1>1 DEF WellFormed
<1>5. /\ c \in CallSet /\ c.pc = "enter" /\ c.gp = Root /\ c.achievable = low /\ c.cutoff = high
      /\ c.branch_is_active = FALSE
  <2>1. Entered(c, Root, low, high)
    BY <1>3, <1>4, NewCallEnters
  <2> HIDE DEF c
  <2> QED
    BY <2>1 DEF Entered
<1> HIDE DEF c
<1>7. LineCreated \in Lines /\ CallInv(game, pv_full_recording, c, LineCreated)
  BY <1>3, <1>5, CreatedLine DEF CallInv
<1>8. /\ calls \in Seq(CallSet) /\ Len(calls) = 1 /\ calls[1] = c
      /\ held \in Seq(Lines) /\ Len(held) = 1 /\ held[1] = LineCreated
  BY <1>1, <1>2, <1>5, <1>7
<1>9. Stack(game, pv_full_recording, calls, held)
  <2>1. RootCall(pv_full_recording, c)
    BY <1>5 DEF RootCall, low, high
  <2> QED
    BY <1>4, <1>5, <1>7, <1>8, <2>1 DEF Stack
<1>10. Pending(game, pv_full_recording, calls, held, returned.value)
  BY <1>5, <1>8 DEF Pending, Waits
<1>11. returned \in NodeSet
  BY <1>1 DEF Null, NodeSet
<1> QED
  BY <1>1, <1>9, <1>10, <1>11 DEF IInv

(* When the call on top does not wait, there is no line but its own. *)
LEMMA NoReply ==
  ASSUME IInv, calls # << >>, ~Waits(Call)
  PROVE  Len(held) = n
BY DEF IInv, Pending, Call, n

LEMMA MoveNodeStep == IInv /\ MoveNode => IInv'
<1> SUFFICES ASSUME IInv, MoveNode PROVE IInv'
  OBVIOUS
<1>1. /\ calls # << >> /\ Call.pc = "enter" /\ HasLegalMove(game, Call.gp)
      /\ UNCHANGED <<game, pv_full_recording, returned, held, solution>>
  BY DEF MoveNode, At
<1> DEFINE list == SortedMoves(Call.gp)
           value == IF pv_full_recording THEN Call.achievable - 1 ELSE Call.achievable
<1>2. PICK c : c = [ Call EXCEPT !.pc = "loop", !.list = list,
                       !.node = [move |-> Head(list), value |-> value] ]
  OBVIOUS
<1>3. calls' = [calls EXCEPT ![n] = c]
  BY <1>2 DEF MoveNode
<1>4. /\ WellFormed(game) /\ pv_full_recording \in BOOLEAN
      /\ n \in Nat \ {0} /\ held \in Seq(Lines)
      /\ Call \in CallSet /\ Call.gp \in Positions(game)
      /\ Call.achievable \in Int /\ Call.cutoff \in Int
      /\ CallInv(game, pv_full_recording, Call, held[n])
  BY <1>1, TopFacts
<1>5. list \in Seq(Int) /\ list # << >> /\ ToSet(list) = Successors(game, Call.gp)
  BY <1>1, <1>4, MovesListed
<1>6. value \in Int
  BY <1>4
<1>7. /\ c.pc = "loop" /\ SameCall(c, Call) /\ c.list = list /\ c.node.value = value
      /\ c.branch_is_active = Call.branch_is_active
  BY <1>2, <1>4 DEF CallSet, SameCall
<1>8. c \in CallSet
  <2>1. [move |-> Head(list), value |-> value] \in NodeSet
    BY <1>5, <1>6 DEF NodeSet
  <2> HIDE DEF list, value
  <2> QED
    BY <1>2, <1>4, <1>5, <2>1 DEF CallSet
<1>9. Call.branch_is_active = FALSE /\ Window(pv_full_recording, Call.achievable, Call.cutoff)
  BY <1>1, <1>4 DEF CallInv, CallSet
<1>10. Searching(game, pv_full_recording, Call.gp, Call.achievable, Call.cutoff, value, FALSE,
                 Successors(game, Call.gp), held[n])
  BY <1>1, <1>4, <1>9, SearchBegins DEF Positions
<1>11. CallInv(game, pv_full_recording, c, held[n])
  <2> HIDE DEF list, value
  <2> QED
    BY <1>4, <1>5, <1>7, <1>9, <1>10 DEF CallInv, SameCall
<1>12. Len(held) = n /\ ~Waits(c)
  BY <1>1, <1>7, NoReply DEF Waits
<1> QED
  BY <1>1, <1>3, <1>4, <1>7, <1>8, <1>11, <1>12, Advanced

LEMMA LeafNodeStep == IInv /\ LeafNode => IInv'
<1> SUFFICES ASSUME IInv, LeafNode PROVE IInv'
  OBVIOUS
<1> DEFINE p == Call.gp
           line == LineWithMove(LineCreated, PassMove, Passed(p))
<1>1. /\ calls # << >> /\ Call.pc = "enter"
      /\ ~HasLegalMove(game, p) /\ ~HasLegalMove(game, Passed(p))
      /\ held' = Append(SubSeq(held, 1, n - 1), line)
      /\ UNCHANGED <<game, pv_full_recording, returned, solution>>
  BY DEF LeafNode, At, LineAccepted
<1>2. PICK c : c = [Call EXCEPT !.pc = "out",
                                !.node = [move |-> PassMove, value |-> FinalValue(game, p)]]
  OBVIOUS
<1>3. calls' = [calls EXCEPT ![n] = c]
  BY <1>2 DEF LeafNode
<1>4. /\ WellFormed(game) /\ pv_full_recording \in BOOLEAN /\ BestScore \in Nat
      /\ Call \in CallSet /\ p \in Positions(game)
      /\ Call.achievable \in Int /\ Call.cutoff \in Int
      /\ CallInv(game, pv_full_recording, Call, held[n])
  BY <1>1, TopFacts
<1>5. Passed(p) \in Positions(game) /\ Passed(p) \in Int /\ MoveTo(game, p, Passed(p)) = PassMove
  BY <1>1, <1>4 DEF WellFormed, Positions, MoveTo
<1>6. /\ FinalValue(game, p) \in Int
      /\ Found(game, pv_full_recording, p, Call.achievable, Call.cutoff, FinalValue(game, p), line)
  <2>1. IsTerminal(game, p)
    BY <1>1 DEF IsTerminal
  <2> QED
    BY <1>4, <1>5, <2>1, LeafFound DEF Positions
<1>7. PlayedFrom(game, line, p)
  <2>1. LineCreated \in Lines /\ PlayedFrom(game, LineCreated, Passed(p))
    BY CreatedLine
  <2>2. Passed(p) \in IF HasLegalMove(game, p) THEN Successors(game, p) ELSE {Passed(p)}
    BY <1>1
  <2>3. PlayedFrom(game, LineWithMove(LineCreated, MoveTo(game, p, Passed(p)), Passed(p)), p)
    BY <1>4, <2>1, <2>2, FollowsStep DEF Positions
  <2> QED
    BY <1>5, <2>3
<1>8. line \in Lines
  <2>1. PICK cell : cell = [move |-> PassMove, gpx |-> Passed(p)]
    OBVIOUS
  <2>2. cell \in Cells /\ cell.move = PassMove /\ cell.gpx = Passed(p)
    BY <1>5, <2>1 DEF Cells
  <2> QED
    BY <2>2, CreatedLine, LongerLine
<1> HIDE DEF line
<1>9. /\ c.pc = "out" /\ SameCall(c, Call) /\ c.node.value = FinalValue(game, p)
  BY <1>2, <1>4 DEF CallSet, SameCall
<1>10. c \in CallSet
  <2>1. [move |-> PassMove, value |-> FinalValue(game, p)] \in NodeSet
    BY <1>6 DEF NodeSet
  <2> QED
    BY <1>2, <1>4, <2>1 DEF CallSet
<1>11. CallInv(game, pv_full_recording, c, line)
  BY <1>4, <1>6, <1>7, <1>9 DEF CallInv, SameCall
<1>12. /\ held' \in Seq(Lines) /\ Len(held') = n /\ held'[n] = line
       /\ \A k \in 1 .. n - 1 : held'[k] = held[k]
  BY <1>1, <1>8, LineReplaced
<1>13. ~Waits(c)
  BY <1>9 DEF Waits
<1> QED
  BY <1>1, <1>3, <1>9, <1>10, <1>11, <1>12, <1>13, Advanced

LEMMA PassNodeStep == IInv /\ PassNode => IInv'
<1> SUFFICES ASSUME IInv, PassNode PROVE IInv'
  OBVIOUS
<1> DEFINE p == Call.gp
<1>1. /\ calls # << >> /\ Call.pc = "enter"
      /\ ~HasLegalMove(game, p) /\ HasLegalMove(game, Passed(p))
      /\ held' = Append(held, LineCreated)
      /\ UNCHANGED <<game, pv_full_recording, returned, solution>>
  BY DEF PassNode, At
<1>2. PICK c, d : c = [Call EXCEPT !.pc = "pass_back"]
                  /\ d = NewCall(Passed(p), -Call.cutoff, -Call.achievable)
  OBVIOUS
<1>3. /\ WellFormed(game) /\ pv_full_recording \in BOOLEAN
      /\ n \in Nat \ {0} /\ calls \in Seq(CallSet) /\ Call = calls[n]
      /\ Call \in CallSet /\ p \in Positions(game)
      /\ Call.achievable \in Int /\ Call.cutoff \in Int
      /\ CallInv(game, pv_full_recording, Call, held[n])
  BY <1>1, TopFacts DEF Call
<1>4. Passed(p) \in Positions(game) /\ Passed(p) \in Int
  BY <1>3 DEF WellFormed, Positions
<1>5. c \in CallSet /\ c.pc = "pass_back" /\ SameCall(c, Call)
  BY <1>2, <1>3 DEF CallSet, SameCall
<1>6. calls' = Append([calls EXCEPT ![n] = c], d)
  BY <1>2, <1>3 DEF PassNode
<1>7. /\ d.pc = "enter" /\ d.gp = Passed(p) /\ d.achievable = -Call.cutoff
      /\ d.cutoff = -Call.achievable /\ ~d.branch_is_active /\ d \in CallSet
  <2>1. -Call.cutoff \in Int /\ -Call.achievable \in Int
    BY <1>3
  <2>2. Entered(d, Passed(p), -Call.cutoff, -Call.achievable)
    BY <1>2, <1>4, <2>1, NewCallEnters
  <2> QED
    BY <2>2 DEF Entered
<1>9. CallInv(game, pv_full_recording, c, held[n])
  BY <1>1, <1>3, <1>5 DEF CallInv, SameCall
<1>10. Window(pv_full_recording, d.achievable, d.cutoff)
  <2>1. Window(pv_full_recording, Call.achievable, Call.cutoff)
    BY <1>3 DEF CallInv
  <2> QED
    BY <1>3, <1>7, <2>1 DEF Window
<1>11. Awaits(c, d)
  BY <1>5, <1>7 DEF Awaits, Waits, Target, Bound, SameCall
<1>12. Len(held) = n
  BY <1>1, NoReply DEF Waits
<1> QED
  BY <1>1, <1>4, <1>5, <1>6, <1>7, <1>9, <1>10, <1>11, <1>12, Recursed

LEMMA SearchMoveStep == IInv /\ SearchMove => IInv'
<1> SUFFICES ASSUME IInv, SearchMove PROVE IInv'
  OBVIOUS
<1> DEFINE q == Head(Call.list)
<1>1. /\ calls # << >> /\ Call.pc = "loop" /\ Call.list # << >>
      /\ held' = Append(held, LineCreated)
      /\ UNCHANGED <<game, pv_full_recording, returned, solution>>
  BY DEF SearchMove, At
<1>2. PICK c, d : c = [Call EXCEPT !.pc = "back"]
                  /\ d = NewCall(q, -Call.cutoff, -Call.node.value)
  OBVIOUS
<1>3. /\ WellFormed(game) /\ pv_full_recording \in BOOLEAN
      /\ n \in Nat \ {0} /\ calls \in Seq(CallSet) /\ Call = calls[n]
      /\ Call \in CallSet /\ Call.gp \in Positions(game) /\ Call.list \in Seq(Int)
      /\ Call.node.value \in Int /\ Call.cutoff \in Int
      /\ CallInv(game, pv_full_recording, Call, held[n])
  BY <1>1, TopFacts DEF Call
<1>4. Searching(game, pv_full_recording, Call.gp, Call.achievable, Call.cutoff, Call.node.value,
                Call.branch_is_active, ToSet(Call.list), held[n])
  BY <1>1, <1>3 DEF CallInv
<1>5. q \in Positions(game) /\ q \in Int
  <2>1. q \in Successors(game, Call.gp)
    BY <1>1, <1>3, <1>4, HeadAndTail DEF Searching
  <2>2. q \in DOMAIN game.moves
    BY <1>3, <2>1, SuccessorsListed DEF Positions
  <2> QED
    BY <1>3, <2>2 DEF WellFormed, Positions
<1>6. /\ c \in CallSet /\ c.pc = "back" /\ SameCall(c, Call) /\ c.list = Call.list
      /\ c.node = Call.node /\ c.branch_is_active = Call.branch_is_active
  BY <1>2, <1>3 DEF CallSet, SameCall
<1>7. calls' = Append([calls EXCEPT ![n] = c], d)
  BY <1>2, <1>3 DEF SearchMove
<1>8. /\ d.pc = "enter" /\ d.gp = q /\ d.achievable = -Call.cutoff
      /\ d.cutoff = -Call.node.value /\ ~d.branch_is_active /\ d \in CallSet
  <2>1. -Call.cutoff \in Int /\ -Call.node.value \in Int
    BY <1>3
  <2>2. Entered(d, q, -Call.cutoff, -Call.node.value)
    BY <1>2, <1>5, <2>1, NewCallEnters
  <2> QED
    BY <2>2 DEF Entered
<1>10. CallInv(game, pv_full_recording, c, held[n])
  BY <1>1, <1>3, <1>4, <1>6 DEF CallInv, SameCall
<1>11. Window(pv_full_recording, d.achievable, d.cutoff)
  <2>1. Window(pv_full_recording, Call.node.value, Call.cutoff)
    BY <1>4 DEF Searching
  <2> QED
    BY <1>3, <1>8, <2>1 DEF Window
<1>12. Awaits(c, d)
  BY <1>6, <1>8 DEF Awaits, Waits, Target, Bound, SameCall
<1>13. Len(held) = n
  BY <1>1, NoReply DEF Waits
<1> HIDE DEF q
<1> QED
  BY <1>1, <1>5, <1>6, <1>7, <1>8, <1>10, <1>11, <1>12, <1>13, Recursed

LEMMA PassBackStep == IInv /\ PassBack => IInv'
<1> SUFFICES ASSUME IInv, PassBack PROVE IInv'
  OBVIOUS
<1> DEFINE p == Call.gp
           reply == held[n + 1]
           line == LineWithMove(reply, PassMove, Passed(p))
           value == -returned.value
<1>1. /\ calls # << >> /\ Call.pc = "pass_back"
      /\ held' = Append(SubSeq(held, 1, n - 1), line)
      /\ UNCHANGED <<game, pv_full_recording, returned, solution>>
  BY DEF PassBack, At, LineAccepted
<1>2. PICK c : c = [Call EXCEPT !.pc = "out", !.node = Negated(returned)]
  OBVIOUS
<1>3. calls' = [calls EXCEPT ![n] = c]
  BY <1>2 DEF PassBack
<1>4. /\ WellFormed(game) /\ pv_full_recording \in BOOLEAN /\ BestScore \in Nat
      /\ Call \in CallSet /\ p \in Positions(game)
      /\ Call.achievable \in Int /\ Call.cutoff \in Int /\ returned.value \in Int
      /\ CallInv(game, pv_full_recording, Call, held[n])
  BY <1>1, TopFacts
<1>5. reply \in Lines /\ Answered(game, pv_full_recording, Call, returned.value, reply)
  BY <1>1, ReplyFacts DEF Waits
<1> HIDE DEF reply
<1>6. /\ ~HasLegalMove(game, p) /\ HasLegalMove(game, Passed(p))
      /\ PlayedFrom(game, reply, Passed(p))
      /\ Found(game, pv_full_recording, Passed(p), -Call.cutoff, -Call.achievable,
               returned.value, reply)
  BY <1>1, <1>4, <1>5 DEF CallInv, Answered, Target, Bound
<1>7. Passed(p) \in Positions(game) /\ Passed(p) \in Int /\ MoveTo(game, p, Passed(p)) = PassMove
  BY <1>4, <1>6 DEF WellFormed, Positions, MoveTo
<1>8. value \in Int /\ -value = returned.value
  BY <1>4
<1> HIDE DEF value
<1>9. Found(game, pv_full_recording, p, Call.achievable, Call.cutoff, value, line)
  <2>1. Found(game, pv_full_recording, Passed(p), -Call.cutoff, -Call.achievable, -value, reply)
    BY <1>6, <1>8
  <2> QED
    BY <1>4, <1>5, <1>6, <1>8, <2>1, PassFound DEF Positions
<1>10. PlayedFrom(game, line, p)
  <2>1. Passed(p) \in IF HasLegalMove(game, p) THEN Successors(game, p) ELSE {Passed(p)}
    BY <1>6
  <2>2. PlayedFrom(game, LineWithMove(reply, MoveTo(game, p, Passed(p)), Passed(p)), p)
    BY <1>4, <1>5, <1>6, <2>1, FollowsStep DEF Positions
  <2> QED
    BY <1>7, <2>2
<1>11. line \in Lines
  <2>1. PICK cell : cell = [move |-> PassMove, gpx |-> Passed(p)]
    OBVIOUS
  <2>2. cell \in Cells /\ cell.move = PassMove /\ cell.gpx = Passed(p)
    BY <1>7, <2>1 DEF Cells
  <2> QED
    BY <1>5, <2>2, LongerLine
<1> HIDE DEF line
<1>12. Negated(returned) \in NodeSet /\ Negated(returned).value = value
  BY DEF IInv, NodeSet, Negated, value
<1>13. /\ c \in CallSet /\ c.pc = "out" /\ SameCall(c, Call) /\ c.node.value = value
  BY <1>2, <1>4, <1>12 DEF CallSet, SameCall
<1>14. CallInv(game, pv_full_recording, c, line)
  BY <1>4, <1>9, <1>10, <1>13 DEF CallInv, SameCall
<1>15. /\ held' \in Seq(Lines) /\ Len(held') = n /\ held'[n] = line
       /\ \A k \in 1 .. n - 1 : held'[k] = held[k]
  BY <1>1, <1>11, LineReplaced
<1>16. ~Waits(c)
  BY <1>13 DEF Waits
<1> QED
  BY <1>1, <1>3, <1>13, <1>14, <1>15, <1>16, Advanced

(* The move on which the call on top waits has been searched. *)
LEMMA BackFacts ==
  ASSUME IInv, At("back")
  PROVE  LET q == Head(Call.list)
             line == LineWithMove(held[n + 1], q, q)
         IN  /\ Answer(game, pv_full_recording, Call.gp, Call.achievable, Call.cutoff,
                       Call.node.value, Call.branch_is_active, ToSet(Call.list), held[n],
                       q, Value, held[n + 1])
             /\ q \in Int /\ line \in Lines /\ PlayedFrom(game, line, Call.gp)
<1> DEFINE q == Head(Call.list)
           p == Call.gp
           reply == held[n + 1]
<1>1. calls # << >> /\ Call.pc = "back"
  BY DEF At
<1>2. /\ WellFormed(game) /\ pv_full_recording \in BOOLEAN /\ BestScore \in Nat \ {0}
      /\ Call \in CallSet /\ p \in Positions(game) /\ Call.list \in Seq(Int)
      /\ Call.achievable \in Int /\ Call.cutoff \in Int /\ Call.node.value \in Int
      /\ Call.branch_is_active \in BOOLEAN /\ returned.value \in Int /\ held[n] \in Lines
      /\ CallInv(game, pv_full_recording, Call, held[n])
  BY <1>1, TopFacts
<1>3. reply \in Lines /\ Answered(game, pv_full_recording, Call, returned.value, reply)
  BY <1>1, ReplyFacts DEF Waits
<1>4. Value = -returned.value /\ Value \in Int /\ -Value = returned.value
  <2>1. returned \in NodeSet
    BY DEF IInv
  <2>2. Negated(returned).value = -returned.value
    BY <2>1 DEF NodeSet, Negated
  <2> QED
    BY <1>2, <2>2 DEF Value
<1> HIDE DEF reply
<1>5. /\ Searching(game, pv_full_recording, p, Call.achievable, Call.cutoff, Call.node.value,
                   Call.branch_is_active, ToSet(Call.list), held[n])
      /\ Call.list # << >>
  BY <1>1, <1>2 DEF CallInv
<1>6. q \in ToSet(Call.list) /\ q \in Successors(game, p) /\ HasLegalMove(game, p)
  BY <1>2, <1>5, HeadAndTail DEF Searching
<1>7. q \in DOMAIN game.moves /\ q \in Int
  <2>1. q \in DOMAIN game.moves
    BY <1>2, <1>6, SuccessorsListed DEF Positions
  <2> QED
    BY <1>2, <2>1 DEF WellFormed
<1>8. /\ PlayedFrom(game, reply, q)
      /\ Found(game, pv_full_recording, q, -Call.cutoff, -Call.node.value, -Value, reply)
  BY <1>1, <1>3, <1>4 DEF Answered, Target, Bound
<1> HIDE DEF q
<1>9. Answer(game, pv_full_recording, p, Call.achievable, Call.cutoff,
             Call.node.value, Call.branch_is_active, ToSet(Call.list), held[n], q, Value, reply)
  BY <1>2, <1>3, <1>4, <1>5, <1>6, <1>8 DEF Answer, Positions
<1>10. LineWithMove(reply, q, q) \in Lines
  <2>1. PICK cell : cell = [move |-> q, gpx |-> q]
    OBVIOUS
  <2>2. cell \in Cells /\ cell.move = q /\ cell.gpx = q
    BY <1>7, <2>1 DEF Cells
  <2> QED
    BY <1>3, <2>2, LongerLine
<1>11. PlayedFrom(game, LineWithMove(reply, q, q), p)
  <2>1. q \in (IF HasLegalMove(game, p) THEN Successors(game, p) ELSE {Passed(p)})
    BY <1>6
  <2>2. MoveTo(game, p, q) = q
    BY <1>6 DEF MoveTo
  <2>3. PlayedFrom(game, LineWithMove(reply, MoveTo(game, p, q), q), p)
    BY <1>2, <1>3, <1>8, <2>1, FollowsStep DEF Positions
  <2> QED
    BY <2>2, <2>3
<1> QED
  BY <1>7, <1>9, <1>10, <1>11 DEF q, reply

LEMMA AcceptStep == IInv /\ Accept => IInv'
<1> SUFFICES ASSUME IInv, Accept PROVE IInv'
  OBVIOUS
<1> DEFINE q == Head(Call.list)
           reply == held[n + 1]
           line == LineWithMove(reply, q, q)
           pc == IF CutsOff(Value) THEN "out" ELSE "loop"
<1>1. /\ calls # << >> /\ Call.pc = "back" /\ At("back") /\ Improves
      /\ held' = Append(SubSeq(held, 1, n - 1), line)
      /\ UNCHANGED <<game, pv_full_recording, returned, solution>>
  BY DEF Accept, At, LineAccepted
<1>2. PICK c : c = [ Call EXCEPT !.pc = pc, !.list = Tail(@), !.branch_is_active = TRUE,
                       !.node = [move |-> q, value |-> Value] ]
  OBVIOUS
<1>3. calls' = [calls EXCEPT ![n] = c]
  BY <1>2 DEF Accept
<1>4. /\ Call \in CallSet /\ Call.list \in Seq(Int) /\ pv_full_recording \in BOOLEAN
      /\ CallInv(game, pv_full_recording, Call, held[n])
  BY <1>1, TopFacts
<1>5. /\ Answer(game, pv_full_recording, Call.gp, Call.achievable, Call.cutoff,
                Call.node.value, Call.branch_is_active, ToSet(Call.list), held[n],
                q, Value, reply)
      /\ q \in Int /\ line \in Lines /\ PlayedFrom(game, line, Call.gp)
  BY <1>1, BackFacts
<1>6. /\ Call.list # << >> /\ Tail(Call.list) \in Seq(Int)
      /\ ToSet(Call.list) \ {q} \subseteq ToSet(Tail(Call.list))
      /\ ToSet(Tail(Call.list)) \subseteq ToSet(Call.list)
  BY <1>1, <1>4, HeadAndTail DEF CallInv
<1>7. /\ Improved(Call.node.value, Call.branch_is_active, Value)
      /\ CutsOff(Value) <=> Cut(pv_full_recording, Call.cutoff, Value)
  BY <1>1 DEF Improves, Improved, CutsOff, Cut
<1>8. Value \in Int
  BY <1>5 DEF Answer
<1> HIDE DEF q, reply
<1>9. CutsOff(Value) =>
        Found(game, pv_full_recording, Call.gp, Call.achievable, Call.cutoff, Value, line)
  BY <1>5, <1>7, MoveCuts
<1>10. ~CutsOff(Value) =>
         Searching(game, pv_full_recording, Call.gp, Call.achievable, Call.cutoff, Value, TRUE,
                   ToSet(Tail(Call.list)), line)
  BY <1>5, <1>6, <1>7, MoveAccepted
<1> HIDE DEF line
<1>11. /\ c.pc = pc /\ SameCall(c, Call) /\ c.list = Tail(Call.list)
       /\ c.node.value = Value /\ c.branch_is_active = TRUE
  BY <1>2, <1>4 DEF CallSet, SameCall
<1>12. c \in CallSet
  <2>1. [move |-> q, value |-> Value] \in NodeSet
    BY <1>5, <1>8 DEF NodeSet
  <2>2. pc \in {"enter", "loop", "back", "pass_back", "out"}
    OBVIOUS
  <2> HIDE DEF pc
  <2> QED
    BY <1>2, <1>4, <1>6, <2>1, <2>2 DEF CallSet
<1>13. CallInv(game, pv_full_recording, c, line) /\ ~Waits(c)
  <2>1. Window(pv_full_recording, c.achievable, c.cutoff) /\ PlayedFrom(game, line, c.gp)
    BY <1>4, <1>5, <1>11 DEF CallInv, SameCall
  <2>2. CASE CutsOff(Value)
    <3>1. c.pc = "out"
      BY <1>11, <2>2
    <3> QED
      BY <1>9, <1>11, <2>1, <2>2, <3>1 DEF CallInv, SameCall, Waits
  <2>3. CASE ~CutsOff(Value)
    <3>1. c.pc = "loop"
      BY <1>11, <2>3
    <3> QED
      BY <1>10, <1>11, <2>1, <2>3, <3>1 DEF CallInv, SameCall, Waits
  <2> QED
    BY <2>2, <2>3
<1>14. /\ held' \in Seq(Lines) /\ Len(held') = n /\ held'[n] = line
       /\ \A k \in 1 .. n - 1 : held'[k] = held[k]
  BY <1>1, <1>5, LineReplaced
<1> QED
  BY <1>1, <1>3, <1>11, <1>12, <1>13, <1>14, Advanced

LEMMA AddVariantStep == IInv /\ AddVariant => IInv'
<1> SUFFICES ASSUME IInv, AddVariant PROVE IInv'
  OBVIOUS
<1> DEFINE q == Head(Call.list)
           reply == held[n + 1]
           longer == LineWithMove(reply, q, q)
           line == LineWithVariant(held[n], longer)
<1>1. /\ calls # << >> /\ Call.pc = "back" /\ At("back") /\ ~Improves
      /\ pv_full_recording /\ Value = Call.node.value
      /\ held' = Append(SubSeq(held, 1, n - 1), line)
      /\ UNCHANGED <<game, pv_full_recording, returned, solution>>
  BY DEF AddVariant, At
<1>2. PICK c : c = [Call EXCEPT !.pc = "loop", !.list = Tail(@)]
  OBVIOUS
<1>3. calls' = [calls EXCEPT ![n] = c]
  BY <1>2 DEF AddVariant
<1>4. /\ Call \in CallSet /\ Call.list \in Seq(Int) /\ held[n] \in Lines
      /\ CallInv(game, pv_full_recording, Call, held[n])
  BY <1>1, TopFacts
<1>5. /\ Answer(game, pv_full_recording, Call.gp, Call.achievable, Call.cutoff,
                Call.node.value, Call.branch_is_active, ToSet(Call.list), held[n],
                q, Value, reply)
      /\ longer \in Lines /\ PlayedFrom(game, longer, Call.gp)
  BY <1>1, BackFacts
<1>6. /\ Call.list # << >> /\ Tail(Call.list) \in Seq(Int)
      /\ ToSet(Call.list) \ {q} \subseteq ToSet(Tail(Call.list))
      /\ ToSet(Tail(Call.list)) \subseteq ToSet(Call.list)
  BY <1>1, <1>4, HeadAndTail DEF CallInv
<1>7. ~Improved(Call.node.value, Call.branch_is_active, Value)
  BY <1>1 DEF Improves, Improved
<1> HIDE DEF q, reply
<1>8. Searching(game, pv_full_recording, Call.gp, Call.achievable, Call.cutoff, Call.node.value,
                Call.branch_is_active, ToSet(Tail(Call.list)), line)
  BY <1>1, <1>5, <1>6, <1>7, MoveTies
<1> HIDE DEF longer
<1>9. line \in Lines /\ PlayedFrom(game, line, Call.gp)
  <2>1. PlayedFrom(game, held[n], Call.gp)
    BY <1>4 DEF CallInv
  <2>2. line = [held[n] EXCEPT !.plays = @ \cup longer.plays]
    BY DEF LineWithVariant
  <2>3. line \in Lines /\ line.plays = held[n].plays \cup longer.plays
    BY <1>4, <1>5, <2>2 DEF Lines
  <2> QED
    BY <1>5, <2>1, <2>3 DEF PlayedFrom
<1> HIDE DEF line
<1>10. /\ c.pc = "loop" /\ SameCall(c, Call) /\ c.list = Tail(Call.list)
       /\ c.node = Call.node /\ c.branch_is_active = Call.branch_is_active /\ c \in CallSet
  BY <1>2, <1>4, <1>6 DEF CallSet, SameCall
<1>11. CallInv(game, pv_full_recording, c, line) /\ ~Waits(c)
  BY <1>4, <1>8, <1>9, <1>10 DEF CallInv, SameCall, Waits
<1>12. /\ held' \in Seq(Lines) /\ Len(held') = n /\ held'[n] = line
       /\ \A k \in 1 .. n - 1 : held'[k] = held[k]
  BY <1>1, <1>9, LineReplaced
<1> QED
  BY <1>1, <1>3, <1>10, <1>11, <1>12, Advanced

LEMMA RejectStep == IInv /\ Reject => IInv'
<1> SUFFICES ASSUME IInv, Reject PROVE IInv'
  OBVIOUS
<1> DEFINE q == Head(Call.list)
<1>1. /\ calls # << >> /\ Call.pc = "back" /\ At("back") /\ ~Improves
      /\ ~(pv_full_recording /\ Value = Call.node.value)
      /\ held' = SubSeq(held, 1, n)
      /\ UNCHANGED <<game, pv_full_recording, returned, solution>>
  BY DEF Reject, At
<1>2. PICK c : c = [Call EXCEPT !.pc = "loop", !.list = Tail(@)]
  OBVIOUS
<1>3. calls' = [calls EXCEPT ![n] = c]
  BY <1>2 DEF Reject
<1>4. /\ Call \in CallSet /\ Call.list \in Seq(Int) /\ held[n] \in Lines
      /\ n \in Nat \ {0} /\ held \in Seq(Lines)
      /\ CallInv(game, pv_full_recording, Call, held[n])
  BY <1>1, TopFacts
<1>5. Answer(game, pv_full_recording, Call.gp, Call.achievable, Call.cutoff,
             Call.node.value, Call.branch_is_active, ToSet(Call.list), held[n],
             q, Value, held[n + 1])
  BY <1>1, BackFacts
<1>6. /\ Call.list # << >> /\ Tail(Call.list) \in Seq(Int)
      /\ ToSet(Call.list) \ {q} \subseteq ToSet(Tail(Call.list))
      /\ ToSet(Tail(Call.list)) \subseteq ToSet(Call.list)
  BY <1>1, <1>4, HeadAndTail DEF CallInv
<1>7. ~Improved(Call.node.value, Call.branch_is_active, Value)
  BY <1>1 DEF Improves, Improved
<1> HIDE DEF q
<1>8. Searching(game, pv_full_recording, Call.gp, Call.achievable, Call.cutoff, Call.node.value,
                Call.branch_is_active, ToSet(Tail(Call.list)), held[n])
  BY <1>1, <1>5, <1>6, <1>7, MoveFails
<1>9. /\ c.pc = "loop" /\ SameCall(c, Call) /\ c.list = Tail(Call.list)
      /\ c.node = Call.node /\ c.branch_is_active = Call.branch_is_active /\ c \in CallSet
  BY <1>2, <1>4, <1>6 DEF CallSet, SameCall
<1>10. CallInv(game, pv_full_recording, c, held[n]) /\ ~Waits(c)
  BY <1>4, <1>8, <1>9 DEF CallInv, SameCall, Waits
<1>11. Len(held) = n + 1
  BY <1>1, ReplyFacts DEF Waits
<1>12. held' \in Seq(Lines) /\ Len(held') = n /\ \A k \in 1 .. n : held'[k] = held[k]
  BY <1>1, <1>4, <1>11
<1>13. held'[n] = held[n] /\ \A k \in 1 .. n - 1 : held'[k] = held[k]
  BY <1>4, <1>12
<1> QED
  BY <1>1, <1>3, <1>9, <1>10, <1>12, <1>13, Advanced

(* What the call on top has found when it ends. *)
LEMMA CallEnds ==
  ASSUME IInv, calls # << >>, Call.pc = "out" \/ (Call.pc = "loop" /\ Call.list = << >>)
  PROVE  /\ Found(game, pv_full_recording, Call.gp, Call.achievable, Call.cutoff,
                  Call.node.value, held[n])
         /\ PlayedFrom(game, held[n], Call.gp) /\ Len(held) = n
<1>1. /\ WellFormed(game) /\ pv_full_recording \in BOOLEAN /\ BestScore \in Nat
      /\ Call \in CallSet /\ Call.gp \in DOMAIN game.moves
      /\ Call.achievable \in Int /\ Call.cutoff \in Int /\ Call.node.value \in Int
      /\ Call.branch_is_active \in BOOLEAN
      /\ CallInv(game, pv_full_recording, Call, held[n])
  BY TopFacts DEF Positions
<1>2. CASE Call.pc = "out"
  BY <1>1, <1>2, NoReply DEF CallInv, Waits
<1>3. CASE Call.pc = "loop" /\ Call.list = << >>
  <2>1. ToSet(Call.list) = {}
    BY <1>3 DEF ToSet
  <2>2. Searching(game, pv_full_recording, Call.gp, Call.achievable, Call.cutoff,
                  Call.node.value, Call.branch_is_active, {}, held[n])
    BY <1>1, <1>3, <2>1 DEF CallInv
  <2>3. Found(game, pv_full_recording, Call.gp, Call.achievable, Call.cutoff,
              Call.node.value, held[n])
    BY <1>1, <2>2, SearchEnds
  <2> QED
    BY <1>1, <1>3, <2>3, NoReply DEF CallInv, Waits
<1> QED
  BY <1>2, <1>3

LEMMA ReturnStep == IInv /\ Return => IInv'
<1> SUFFICES ASSUME IInv, Return PROVE IInv'
  OBVIOUS
<1>1. /\ calls # << >>
      /\ (Call.pc = "out" \/ (Call.pc = "loop" /\ Call.list = << >>))
      /\ calls' = SubSeq(calls, 1, n - 1) /\ returned' = Call.node
      /\ n > 1 => solution' = solution
      /\ UNCHANGED <<game, pv_full_recording, held>>
  BY DEF Return, At
<1>2. /\ calls \in Seq(CallSet) /\ Call \in CallSet /\ Call = calls[n] /\ n = Len(calls)
      /\ n \in Nat \ {0} /\ solution = Unsolved
  BY <1>1, TopFacts DEF Call, n
<1>3. /\ Found(game, pv_full_recording, Call.gp, Call.achievable, Call.cutoff,
               Call.node.value, held[n])
      /\ PlayedFrom(game, held[n], Call.gp) /\ Len(held) = n
  BY <1>1, CallEnds
<1>4. returned' \in NodeSet
  BY <1>1, <1>2 DEF CallSet
<1>5. Stack(game, pv_full_recording, calls, held)
  BY DEF IInv
<1>6. Stack(game, pv_full_recording, calls', held')
  BY <1>1, <1>2, <1>3, <1>5, CallPopped
<1>7. PICK m : m = n - 1
  OBVIOUS
<1>8. m \in Nat /\ m + 1 = n /\ Len(calls') = m /\ \A k \in 1 .. m : calls'[k] = calls[k]
  BY <1>1, <1>2, <1>7
<1>9. calls' # << >> => m \in 1 .. n - 1 /\ n > 1
  BY <1>2, <1>7, <1>8
<1>10. Pending(game, pv_full_recording, calls', held', returned'.value)
  <2> SUFFICES ASSUME calls' # << >>
      PROVE  /\ Len(held') = IF Waits(calls'[m]) THEN m + 1 ELSE m
             /\ Waits(calls'[m]) =>
                  Answered(game, pv_full_recording, calls'[m], returned'.value, held'[m + 1])
    BY <1>8 DEF Pending
  <2>1. Awaits(calls[m], calls[m + 1]) /\ calls'[m] = calls[m] /\ calls[m + 1] = Call
    BY <1>2, <1>5, <1>7, <1>8, <1>9 DEF Stack
  <2>2. Answered(game, pv_full_recording, calls[m], returned'.value, held[m + 1])
    BY <1>1, <1>3, <1>8, <2>1 DEF Awaits, Answered
  <2> QED
    BY <1>1, <1>3, <1>8, <2>1, <2>2 DEF Awaits
<1>11. calls' # << >> => solution' = Unsolved
  BY <1>1, <1>2, <1>9
<1> QED
  BY <1>1, <1>4, <1>6, <1>10, <1>11 DEF IInv

LEMMA Inductive == IInv /\ [Next]_vars => IInv'
<1> SUFFICES ASSUME IInv, [Next]_vars PROVE IInv'
  OBVIOUS
<1>1. CASE UNCHANGED vars
  BY <1>1 DEF vars, IInv
<1>2. CASE Next
  BY <1>2, MoveNodeStep, PassNodeStep, PassBackStep, LeafNodeStep, SearchMoveStep, AcceptStep,
     AddVariantStep, RejectStep, ReturnStep DEF Next
<1> QED
  BY <1>1, <1>2

(* The invariant of es: every call has a legal window and a line of play   *)
(* from its position, and what it has found so far bounds the game value   *)
(* as alpha-beta says.                                                     *)
THEOREM SearchSound == Spec => []IInv
<1>1. Init => IInv
  BY InitHolds
<1>2. IInv /\ [Next]_vars => IInv'
  BY Inductive
<1> QED
  BY <1>1, <1>2, PTL DEF Spec

-----------------------------------------------------------------------------
(* The properties. *)

(* The lines under construction are legal play from the positions of their *)
(* calls, the cell of a pass included, each cell holding the position      *)
(* after its move (game_position_solve_impl, pve_line_add_move).           *)
THEOREM LinesHoldPositions == Spec => []CellsHoldPositions
<1>1. IInv => CellsHoldPositions
  <2> SUFFICES ASSUME IInv, NEW k \in DOMAIN calls, NEW s \in held[k].plays
               PROVE  Follows(game, s, calls[k].gp)
    BY DEF CellsHoldPositions
  <2>1. k \in 1 .. Len(calls)
    BY DEF IInv, Stack
  <2>2. CallInv(game, pv_full_recording, calls[k], held[k])
    BY <2>1 DEF IInv, Stack
  <2> QED
    BY <2>2 DEF CallInv, PlayedFrom
<1> QED
  BY <1>1, SearchSound, PTL

(* ExactSolution speaks of the same game. *)
LEMMA SameGame ==
  /\ \A g : Solution!GameValue(g) = GameValue(g) /\ Solution!OptimalPlays(g) = OptimalPlays(g)
  /\ \A s : Solution!WithoutPasses(s) = WithoutPasses(s)
  /\ Solution!Root = Root
<1>1. Solution!Root = Root
  BY DEF Root, Solution!Root
<1>2. \A s : Solution!WithoutPasses(s) = WithoutPasses(s)
  BY DEF WithoutPasses, Solution!WithoutPasses, Max, Solution!Max
<1>3. ASSUME NEW g PROVE Solution!GameValue(g) = GameValue(g)
  BY DEF GameValue, FinalValue, Max, HasLegalMove, IsTerminal, Successors, Passed,
         Solution!GameValue, Solution!FinalValue, Solution!Max,
         Solution!HasLegalMove, Solution!IsTerminal, Solution!Successors, Solution!Passed
<1>4. ASSUME NEW g PROVE Solution!OptimalPlays(g) = OptimalPlays(g)
  BY DEF OptimalPlays, MoveTo, GameValue, FinalValue, Max, HasLegalMove, IsTerminal, Successors,
         Passed,
         Solution!OptimalPlays, Solution!MoveTo, Solution!GameValue, Solution!FinalValue,
         Solution!Max, Solution!HasLegalMove, Solution!IsTerminal, Solution!Successors,
         Solution!Passed
<1> QED
  BY <1>1, <1>2, <1>3, <1>4

(* What the window of the outermost call makes of what it has found: all   *)
(* values are inside, so the result is the game value with an optimal      *)
(* play, and with full recording all of them.                              *)
LEMMA RootSolved ==
  ASSUME IInv, Return, n = 1
  PROVE  Solution!Solve
<1>1. /\ calls # << >>
      /\ (Call.pc = "out" \/ (Call.pc = "loop" /\ Call.list = << >>))
      /\ solution' = [outcome |-> Call.node.value, line |-> held[1]]
      /\ UNCHANGED <<game, pv_full_recording, held>>
  BY DEF Return, At
<1>2. /\ WellFormed(game) /\ pv_full_recording \in BOOLEAN /\ BestScore \in Nat \ {0}
      /\ solution = Unsolved /\ Call = calls[1] /\ held[1] \in Lines
      /\ Call.node.value \in Int
  BY <1>1, TopFacts DEF Call
<1>3. RootCall(pv_full_recording, Call)
  BY <1>1, <1>2 DEF IInv, Stack
<1> DEFINE value == Call.node.value
           line == held[1]
<1>4. Found(game, pv_full_recording, Root, RootAlpha(pv_full_recording),
            RootBeta(pv_full_recording), value, line)
  BY <1>1, <1>3, CallEnds DEF RootCall
<1>5. Root \in DOMAIN game.moves
  BY <1>2 DEF WellFormed
<1> HIDE DEF value, line
<1>6. /\ GameValue(game)[Root] = value /\ WithoutPasses(line.best) \in BestPlays(game, Root)
      /\ pv_full_recording => Trimmed(line) = BestPlays(game, Root)
  BY <1>2, <1>4, <1>5, WidestWindow DEF value
<1>7. solution'.outcome = value /\ solution'.line = line
  BY <1>1 DEF value, line
<1>8. solution' # Unsolved
  <2>1. solution' \in [outcome : Int, line : Lines]
    BY <1>1, <1>2
  <2> QED
    BY <2>1, SolverAssumption
<1>9. Solution!Solves(solution', game)
  <2>1. {WithoutPasses(p) : p \in OptimalPlays(game)[Root]} = BestPlays(game, Root)
    BY DEF BestPlays
  <2>2. {WithoutPasses(p) : p \in line.plays} = Trimmed(line)
    BY DEF Trimmed
  <2> QED
    BY <1>6, <1>7, <2>1, <2>2, SameGame DEF Solution!Solves
<1> QED
  BY <1>1, <1>2, <1>9, <1>8 DEF Solution!Solve

(* es implements ExactSolution: it solves the game in one step, the end of *)
(* the outermost call, and never changes what it has solved.  That it gets *)
(* there at all is left to the runs.                                       *)
THEOREM SolvesExactly ==
  Spec => Solution!Init /\ [][Solution!Solve]_<<game, pv_full_recording, solution>>
<1> DEFINE abstract == <<game, pv_full_recording, solution>>
<1>1. Init => Solution!Init
  BY DEF Init, Solution!Init
<1>2. IInv /\ [Next]_vars => [Solution!Solve]_abstract
  <2> SUFFICES ASSUME IInv, [Next]_vars PROVE [Solution!Solve]_abstract
    OBVIOUS
  <2>1. CASE UNCHANGED vars
    BY <2>1 DEF vars
  <2>2. CASE Return
    <3>1. calls # << >>
      BY <2>2 DEF Return, At
    <3>2. n \in Nat \ {0}
      BY <3>1, TopFacts
    <3>3. CASE n > 1
      BY <2>2, <3>3 DEF Return
    <3>4. CASE n = 1
      BY <2>2, <3>4, RootSolved
    <3> QED
      BY <3>2, <3>3, <3>4
  <2>3. CASE MoveNode \/ PassNode \/ PassBack \/ LeafNode \/ SearchMove
             \/ Accept \/ AddVariant \/ Reject
    BY <2>3 DEF MoveNode, PassNode, PassBack, LeafNode, SearchMove, Accept, AddVariant, Reject
  <2> QED
    BY <2>1, <2>2, <2>3 DEF Next
<1> QED
  BY <1>1, <1>2, SearchSound, PTL DEF Spec
=============================================================================
