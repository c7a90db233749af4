-------------------------- MODULE ExactSolver2Proofs --------------------------
(***************************************************************************)
(* What es2 returns is the game value, with an optimal play or all of      *)
(* them, for any games whose first player need not pass; and the lines it  *)
(* builds follow the game.  Its windows and values are in nodes that later *)
(* calls write too.                                                        *)
(***************************************************************************)
EXTENDS ExactSolver2, GameTreeProofs

-----------------------------------------------------------------------------
(* The inductive invariant. *)

NodeSet == [ gpx : Int, alpha : Int, beta : Int, best_move : Int \cup {PassMove},
             move_count : Int ]
CallSet == [ pc : {"enter", "loop", "back", "pass_back", "out"}, list : Seq(Int),
             branch_is_active : BOOLEAN ]

Positions(g) == DOMAIN g.moves

(* The player to move at the root has to pass: es2 takes this for the end  *)
(* of the game.                                                            *)
RootPasses(g) == ~HasLegalMove(g, Root) /\ ~IsTerminal(g, Root)

(* The lower bound with which call k was made, in the nodes ns. *)
Low(full, ns, k) == IF k = 1 THEN RootAlpha(full) ELSE -ns[k - 1].beta

(* The position of the call that c waits for at its node. *)
Waits(c) == c.pc \in {"back", "pass_back"}
Target(c, node) == IF c.pc = "back" THEN Head(c.list) ELSE Passed(node.gpx)

(* A call, the lower bound it was made with, its node and its line. *)
CallInv(g, full, low, c, node, line) ==
  /\ Window(full, low, node.beta)
  /\ TrimmedFrom(g, line, node.gpx)
  /\ c.pc = "enter" => node.alpha = low /\ ~c.branch_is_active
  /\ c.pc \in {"loop", "back"} =>
       Searching(g, full, node.gpx, low, node.beta, node.alpha, c.branch_is_active,
                 ToSet(c.list), line)
  /\ c.pc = "back" => c.list # << >>
  /\ c.pc = "pass_back" => ~HasLegalMove(g, node.gpx) /\ node.alpha = low
  /\ Waits(c) => node.move_count = Len(Legal(g, node.gpx))
  /\ c.pc = "out" /\ ~RootPasses(g) =>
       Found(g, full, node.gpx, low, node.beta, node.alpha, line)

(* Call k waits for call k + 1. *)
Awaits(ns, cs, k) ==
  /\ Waits(cs[k])
  /\ ns[k + 1].gpx = Target(cs[k], ns[k]) /\ ns[k + 1].beta = -ns[k].alpha

(* What call c has waited for has come back: a node and a line. *)
Answered(g, full, c, node, next, line) ==
  /\ next.gpx = Target(c, node)
  /\ TrimmedFrom(g, line, next.gpx)
  /\ Found(g, full, next.gpx, -node.beta, -node.alpha, next.alpha, line)

Stack(g, full, ns, cs, hs) ==
  /\ ns \in [0 .. MaxNodes -> NodeSet] /\ ns[0].move_count = 0
  /\ cs \in Seq(CallSet) /\ Len(cs) < MaxNodes
  /\ hs \in Seq(Lines) /\ Len(hs) \in {Len(cs), Len(cs) + 1}
  /\ \A k \in 1 .. Len(cs) :
       ns[k].gpx \in DOMAIN g.moves /\ CallInv(g, full, Low(full, ns, k), cs[k], ns[k], hs[k])
  /\ \A k \in 1 .. Len(cs) - 1 : Awaits(ns, cs, k)
  /\ ns[1].gpx = Root /\ ns[1].beta = RootBeta(full)
  /\ RootPasses(g) => Len(cs) <= 1

(* The line of a call that has ended is held until the caller takes it. *)
Pending(g, full, ns, cs, hs) ==
  IF cs = << >> THEN Len(hs) = 1 /\ TrimmedFrom(g, hs[1], Root)
  ELSE LET k == Len(cs)
       IN  /\ Len(hs) = IF Waits(cs[k]) THEN k + 1 ELSE k
           /\ Waits(cs[k]) => Answered(g, full, cs[k], ns[k], ns[k + 1], hs[k + 1])

IInv ==
  /\ game \in Games /\ WellFormed(game) /\ pv_full_recording \in BOOLEAN
  /\ Stack(game, pv_full_recording, nodes, calls, held)
  /\ Pending(game, pv_full_recording, nodes, calls, held)
  /\ calls # << >> => solution = Unsolved

-----------------------------------------------------------------------------
(* Stacks of calls. *)

(* A node is like another one but for what a search changes. *)
SameNode(d, e) == d.gpx = e.gpx /\ d.beta = e.beta

(* The call on top comes further, with its node and a line of its own. *)
LEMMA TopReplaced ==
  ASSUME NEW g, NEW full, NEW ns, NEW cs, NEW hs, Stack(g, full, ns, cs, hs), cs # << >>,
         NEW c \in CallSet, NEW node \in NodeSet, SameNode(node, ns[Len(cs)]),
         NEW hs2 \in Seq(Lines), Len(hs2) \in {Len(cs), Len(cs) + 1},
         \A k \in 1 .. Len(cs) - 1 : hs2[k] = hs[k],
         CallInv(g, full, Low(full, ns, Len(cs)), c, node, hs2[Len(cs)])
  PROVE  Stack(g, full, [ns EXCEPT ![Len(cs)] = node], [cs EXCEPT ![Len(cs)] = c], hs2)
<1> DEFINE k == Len(cs)
           ds == [cs EXCEPT ![k] = c]
           ms == [ns EXCEPT ![k] = node]
<1>1. /\ ns \in [0 .. MaxNodes -> NodeSet] /\ ns[0].move_count = 0
      /\ cs \in Seq(CallSet) /\ k \in Nat \ {0} /\ k < MaxNodes /\ MaxNodes \in Nat
      /\ \A i \in 1 .. k :
           ns[i].gpx \in DOMAIN g.moves /\ CallInv(g, full, Low(full, ns, i), cs[i], ns[i], hs[i])
      /\ \A i \in 1 .. k - 1 : Awaits(ns, cs, i)
      /\ ns[1].gpx = Root /\ ns[1].beta = RootBeta(full)
      /\ RootPasses(g) => k <= 1
  BY SolverAssumption DEF Stack
<1>2. /\ ds \in Seq(CallSet) /\ Len(ds) = k /\ ds[k] = c
      /\ \A i \in 1 .. k - 1 : ds[i] = cs[i]
  BY <1>1
<1>3. /\ ms \in [0 .. MaxNodes -> NodeSet] /\ ms[k] = node
      /\ \A i \in 0 .. MaxNodes : i # k => ms[i] = ns[i]
  BY <1>1
<1> HIDE DEF k, ds, ms
<1>4. /\ ns[k].gpx \in DOMAIN g.moves /\ SameNode(node, ns[k])
      /\ CallInv(g, full, Low(full, ns, k), c, node, hs2[k])
      /\ Len(hs2) \in {k, k + 1} /\ \A i \in 1 .. k - 1 : hs2[i] = hs[i]
  BY <1>1 DEF k
<1>5. ASSUME NEW i \in 1 .. k PROVE Low(full, ms, i) = Low(full, ns, i)
  <2>1. i # 1 => i - 1 \in 0 .. MaxNodes /\ i - 1 # k
    BY <1>1
  <2> QED
    BY <1>3, <2>1 DEF Low
<1>6. ASSUME NEW i \in 1 .. k
      PROVE  ms[i].gpx \in DOMAIN g.moves /\ CallInv(g, full, Low(full, ms, i), ds[i], ms[i], hs2[i])
  <2>1. CASE i = k
    BY <1>2, <1>3, <1>4, <1>5, <2>1 DEF SameNode
  <2>2. CASE i # k
    <3>1. i \in 1 .. k - 1 /\ i \in 0 .. MaxNodes
      BY <1>1, <2>2
    <3> QED
      BY <1>1, <1>2, <1>3, <1>4, <1>5, <2>2, <3>1
  <2> QED
    BY <2>1, <2>2
<1>7. ASSUME NEW i \in 1 .. k - 1 PROVE Awaits(ms, ds, i)
  <2>1. ds[i] = cs[i] /\ ms[i] = ns[i] /\ Awaits(ns, cs, i)
    <3>1. i \in 0 .. MaxNodes /\ i # k
      BY <1>1
    <3> QED
      BY <1>1, <1>2, <1>3, <3>1
  <2>2. ms[i + 1].gpx = ns[i + 1].gpx /\ ms[i + 1].beta = ns[i + 1].beta
    <3>1. CASE i = k - 1
      <4>1. i + 1 = k
        BY <1>1, <3>1
      <4> QED
        BY <1>3, <1>4, <4>1 DEF SameNode
    <3>2. CASE i # k - 1
      <4>1. i + 1 \in 0 .. MaxNodes /\ i + 1 # k
        BY <1>1, <3>2
      <4> QED
        BY <1>3, <4>1
    <3> QED
      BY <3>1, <3>2
  <2> QED
    BY <2>1, <2>2 DEF Awaits
<1>8. ms[1].gpx = Root /\ ms[1].beta = RootBeta(full) /\ ms[0].move_count = 0
  <2>1. 1 \in 0 .. MaxNodes /\ 0 \in 0 .. MaxNodes /\ 0 # k
    BY <1>1
  <2> QED
    BY <1>1, <1>3, <1>4, <2>1 DEF SameNode
<1>9. Stack(g, full, ms, ds, hs2)
  BY <1>1, <1>2, <1>3, <1>4, <1>6, <1>7, <1>8 DEF Stack
<1> QED
  BY <1>9 DEF ds, ms, k

(* The call on top makes a call on the next node. *)
LEMMA CallPushed ==
  ASSUME NEW g, NEW full, NEW ns, NEW cs, NEW hs, Stack(g, full, ns, cs, hs), cs # << >>,
         Len(hs) = Len(cs), Len(cs) + 1 < MaxNodes, ~RootPasses(g),
         NEW d \in CallSet, NEW next \in NodeSet, next.gpx \in DOMAIN g.moves,
         Awaits([ns EXCEPT ![Len(cs) + 1] = next], cs, Len(cs)),
         NEW line \in Lines, CallInv(g, full, -ns[Len(cs)].beta, d, next, line)
  PROVE  Stack(g, full, [ns EXCEPT ![Len(cs) + 1] = next], Append(cs, d), Append(hs, line))
<1> DEFINE k == Len(cs)
           ds == Append(cs, d)
           hs2 == Append(hs, line)
           ms == [ns EXCEPT ![k + 1] = next]
<1>1. /\ ns \in [0 .. MaxNodes -> NodeSet] /\ ns[0].move_count = 0
      /\ cs \in Seq(CallSet) /\ hs \in Seq(Lines) /\ k \in Nat \ {0} /\ Len(hs) = k
      /\ k + 1 < MaxNodes /\ MaxNodes \in Nat
      /\ \A i \in 1 .. k :
           ns[i].gpx \in DOMAIN g.moves /\ CallInv(g, full, Low(full, ns, i), cs[i], ns[i], hs[i])
      /\ \A i \in 1 .. k - 1 : Awaits(ns, cs, i)
      /\ ns[1].gpx = Root /\ ns[1].beta = RootBeta(full) /\ Awaits(ms, cs, k)
      /\ CallInv(g, full, -ns[k].beta, d, next, line)
  BY SolverAssumption DEF Stack
<1>2. /\ ds \in Seq(CallSet) /\ Len(ds) = k + 1 /\ ds[k + 1] = d
      /\ \A i \in 1 .. k : ds[i] = cs[i]
      /\ hs2 \in Seq(Lines) /\ Len(hs2) = k + 1 /\ hs2[k + 1] = line
      /\ \A i \in 1 .. k : hs2[i] = hs[i]
  BY <1>1
<1>3. /\ ms \in [0 .. MaxNodes -> NodeSet] /\ ms[k + 1] = next
      /\ \A i \in 0 .. MaxNodes : i # k + 1 => ms[i] = ns[i]
  BY <1>1
<1> HIDE DEF k, ds, hs2, ms
<1>4. ASSUME NEW i \in 1 .. k + 1
      PROVE  Low(full, ms, i) = IF i = k + 1 THEN -ns[k].beta ELSE Low(full, ns, i)
  <2>1. i # 1 => i - 1 \in 0 .. MaxNodes /\ i - 1 # k + 1 /\ ((k + 1) - 1 = k) /\ k + 1 # 1
    BY <1>1
  <2>2. i # 1 => ms[i - 1] = ns[i - 1]
    BY <1>3, <2>1
  <2>3. k + 1 # 1 /\ (k + 1) - 1 = k
    BY <1>1
  <2> QED
    BY <2>2, <2>3 DEF Low
<1>5. ASSUME NEW i \in 1 .. k + 1
      PROVE  ms[i].gpx \in DOMAIN g.moves /\ CallInv(g, full, Low(full, ms, i), ds[i], ms[i], hs2[i])
  <2>1. CASE i = k + 1
    BY <1>1, <1>2, <1>3, <1>4, <2>1
  <2>2. CASE i # k + 1
    <3>1. i \in 1 .. k /\ i \in 0 .. MaxNodes
      BY <1>1, <2>2
    <3> QED
      BY <1>1, <1>2, <1>3, <1>4, <2>2, <3>1
  <2> QED
    BY <2>1, <2>2
<1>6. ASSUME NEW i \in 1 .. (k + 1) - 1 PROVE Awaits(ms, ds, i)
  <2>1. i \in 1 .. k /\ ds[i] = cs[i]
    BY <1>1, <1>2
  <2>2. CASE i = k
    BY <1>1, <2>1, <2>2 DEF Awaits
  <2>3. CASE i # k
    <3>1. i \in 1 .. k - 1 /\ i \in 0 .. MaxNodes /\ i + 1 \in 0 .. MaxNodes /\ i # k + 1 /\ i + 1 # k + 1
      BY <1>1, <2>1, <2>3
    <3> QED
      BY <1>1, <1>3, <2>1, <3>1 DEF Awaits
  <2> QED
    BY <2>2, <2>3
<1>7. ms[1].gpx = Root /\ ms[1].beta = RootBeta(full) /\ ms[0].move_count = 0
  <2>1. 1 \in 0 .. MaxNodes /\ 0 \in 0 .. MaxNodes /\ 0 # k + 1 /\ 1 # k + 1
    BY <1>1
  <2> QED
    BY <1>1, <1>3, <2>1
<1>8. Stack(g, full, ms, ds, hs2)
  BY <1>1, <1>2, <1>3, <1>5, <1>6, <1>7 DEF Stack
<1> QED
  BY <1>8 DEF ds, hs2, ms, k

(* The call on top ends. *)
LEMMA CallPopped ==
  ASSUME NEW g, NEW full, NEW ns, NEW cs, NEW hs, Stack(g, full, ns, cs, hs), cs # << >>,
         Len(hs) = Len(cs)
  PROVE  Stack(g, full, ns, SubSeq(cs, 1, Len(cs) - 1), hs)
<1> DEFINE k == Len(cs)
           ds == SubSeq(cs, 1, k - 1)
<1>1. /\ ns \in [0 .. MaxNodes -> NodeSet] /\ ns[0].move_count = 0
      /\ cs \in Seq(CallSet) /\ hs \in Seq(Lines) /\ k \in Nat \ {0} /\ Len(hs) = k
      /\ k < MaxNodes /\ MaxNodes \in Nat
      /\ \A i \in 1 .. k :
           ns[i].gpx \in DOMAIN g.moves /\ CallInv(g, full, Low(full, ns, i), cs[i], ns[i], hs[i])
      /\ \A i \in 1 .. k - 1 : Awaits(ns, cs, i)
      /\ ns[1].gpx = Root /\ ns[1].beta = RootBeta(full) /\ (RootPasses(g) => k <= 1)
  BY SolverAssumption DEF Stack
<1>2. /\ ds \in Seq(CallSet) /\ Len(ds) = k - 1
      /\ \A i \in 1 .. k - 1 : ds[i] = cs[i]
  BY <1>1
<1> HIDE DEF k, ds
<1>3. /\ \A i \in 1 .. k - 1 :
           ns[i].gpx \in DOMAIN g.moves /\ CallInv(g, full, Low(full, ns, i), ds[i], ns[i], hs[i])
      /\ \A i \in 1 .. (k - 1) - 1 : Awaits(ns, ds, i)
  BY <1>1, <1>2 DEF Awaits
<1>4. /\ Len(hs) \in {Len(ds), Len(ds) + 1} /\ Len(ds) < MaxNodes
      /\ RootPasses(g) => Len(ds) <= 1
  BY <1>1, <1>2
<1>5. Stack(g, full, ns, ds, hs)
  BY <1>1, <1>2, <1>3, <1>4 DEF Stack
<1> QED
  BY <1>5 DEF ds, k

-----------------------------------------------------------------------------
(* What the invariant says of the call on top. *)

LEMMA TopFacts ==
  ASSUME IInv, calls # << >>
  PROVE  /\ WellFormed(game) /\ pv_full_recording \in BOOLEAN /\ BestScore \in Nat \ {0}
         /\ n \in Nat \ {0} /\ n < MaxNodes /\ MaxNodes \in Nat
         /\ calls \in Seq(CallSet) /\ held \in Seq(Lines)
         /\ nodes \in [0 .. MaxNodes -> NodeSet]
         /\ Call \in CallSet /\ Call.list \in Seq(Int) /\ Call.branch_is_active \in BOOLEAN
         /\ Current \in NodeSet /\ Current.gpx \in DOMAIN game.moves
         /\ Current.alpha \in Int /\ Current.beta \in Int
         /\ NextNode \in NodeSet /\ NextNode.alpha \in Int /\ NextNode.gpx \in Int
         /\ Low(pv_full_recording, nodes, n) \in Int
         /\ held[n] \in Lines
         /\ CallInv(game, pv_full_recording, Low(pv_full_recording, nodes, n), Call, Current, held[n])
         /\ solution = Unsolved
<1>1. /\ nodes \in [0 .. MaxNodes -> NodeSet]
      /\ calls \in Seq(CallSet) /\ held \in Seq(Lines) /\ Len(held) \in {Len(calls), Len(calls) + 1}
      /\ Len(calls) < MaxNodes /\ MaxNodes \in Nat
      /\ \A k \in 1 .. Len(calls) :
           /\ nodes[k].gpx \in DOMAIN game.moves
           /\ CallInv(game, pv_full_recording, Low(pv_full_recording, nodes, k), calls[k], nodes[k],
                      held[k])
  BY SolverAssumption DEF IInv, Stack
<1>2. n \in Nat \ {0} /\ n = Len(calls) /\ n \in 1 .. Len(held) /\ n \in 1 .. Len(calls)
  BY <1>1 DEF n
<1>3. Call \in CallSet /\ Call = calls[n]
  BY <1>1, <1>2 DEF Call
<1>4. n \in 0 .. MaxNodes /\ n + 1 \in 0 .. MaxNodes /\ n - 1 \in 0 .. MaxNodes
  BY <1>1, <1>2
<1>5. Current = nodes[n] /\ Current \in NodeSet /\ NextNode \in NodeSet /\ nodes[n - 1] \in NodeSet
  BY <1>1, <1>4 DEF Current, NextNode
<1>6. BestScore \in Nat \ {0}
  BY SolverAssumption
<1>7. Low(pv_full_recording, nodes, n) \in Int
  <2>1. nodes[n - 1].beta \in Int
    BY <1>5 DEF NodeSet
  <2> QED
    BY <1>6, <2>1 DEF Low, RootAlpha, OutOfRangeDefeatScore, WorstScore
<1>8. held[n] \in Lines
  BY <1>1, <1>2
<1>9. /\ Call.list \in Seq(Int) /\ Call.branch_is_active \in BOOLEAN
      /\ Current.alpha \in Int /\ Current.beta \in Int
      /\ NextNode.alpha \in Int /\ NextNode.gpx \in Int
  BY <1>3, <1>5 DEF CallSet, NodeSet
<1>10. /\ Current.gpx \in DOMAIN game.moves
       /\ CallInv(game, pv_full_recording, Low(pv_full_recording, nodes, n), Call, Current, held[n])
  BY <1>1, <1>2, <1>3, <1>5
<1> QED
  BY <1>1, <1>2, <1>3, <1>5, <1>6, <1>7, <1>8, <1>9, <1>10 DEF IInv

(* The call on top has come further, without a call or a return. *)
LEMMA Advanced ==
  ASSUME IInv, calls # << >>, NEW c \in CallSet, ~Waits(c),
         NEW node \in NodeSet, SameNode(node, Current),
         calls' = [calls EXCEPT ![n] = c], nodes' = [nodes EXCEPT ![n] = node],
         held' \in Seq(Lines), Len(held') = n,
         \A k \in 1 .. n - 1 : held'[k] = held[k],
         CallInv(game, pv_full_recording, Low(pv_full_recording, nodes, n), c, node, held'[n]),
         UNCHANGED <<game, pv_full_recording, solution>>
  PROVE  IInv'
<1>1. /\ Stack(game, pv_full_recording, nodes, calls, held) /\ n = Len(calls)
      /\ n \in Nat \ {0} /\ calls \in Seq(CallSet) /\ Current = nodes[Len(calls)]
      /\ solution = Unsolved
  BY TopFacts DEF IInv, n, Current
<1>2. PICK hs : hs = held'
  OBVIOUS
<1>3. Stack(game, pv_full_recording, [nodes EXCEPT ![n] = node], [calls EXCEPT ![n] = c], hs)
  BY <1>1, <1>2, TopReplaced
<1>4. Len(calls') = n /\ calls'[n] = c /\ calls' # << >>
  BY <1>1
<1>5. Pending(game, pv_full_recording, nodes', calls', held')
  BY <1>4 DEF Pending
<1> QED
  BY <1>1, <1>2, <1>3, <1>5 DEF IInv

(* The call on top has made a call, after counting its moves. *)
LEMMA Recursed ==
  ASSUME IInv, calls # << >>, Len(held) = n, ~RootPasses(game),
         NEW p \in DOMAIN game.moves, NEW c, Recursion(p, c), c \in CallSet,
         Waits(c), p = Target(c, Current), Current.alpha \in Int,
         Window(pv_full_recording, -Current.beta, -Current.alpha),
         \A node \in NodeSet :
           /\ SameNode(node, Current) /\ node.alpha = Current.alpha
           /\ node.move_count = Len(Legal(game, Current.gpx))
           => CallInv(game, pv_full_recording, Low(pv_full_recording, nodes, n), c, node, held[n])
  PROVE  IInv'
<1>1. /\ Stack(game, pv_full_recording, nodes, calls, held) /\ n = Len(calls)
      /\ n \in Nat \ {0} /\ calls \in Seq(CallSet) /\ held \in Seq(Lines)
      /\ nodes \in [0 .. MaxNodes -> NodeSet] /\ MaxNodes \in Nat
      /\ Current = nodes[n] /\ Current \in NodeSet /\ NextNode = nodes[n + 1] /\ NextNode \in NodeSet
      /\ Current.beta \in Int /\ WellFormed(game) /\ Current.gpx \in DOMAIN game.moves
      /\ solution = Unsolved
  BY TopFacts DEF IInv, n, Current, NextNode
<1>2. /\ n + 1 < MaxNodes
      /\ nodes' = [nodes EXCEPT ![n].move_count = Len(Legal(game, Current.gpx)),
                                ![n + 1].gpx = p,
                                ![n + 1].alpha = -Current.beta,
                                ![n + 1].beta = -Current.alpha]
      /\ calls' = Append([calls EXCEPT ![n] = c], NewCall) /\ held' = Append(held, LineCreated)
      /\ UNCHANGED <<game, pv_full_recording, solution>>
  BY DEF Recursion
<1>3. PICK count : count = Len(Legal(game, Current.gpx))
  OBVIOUS
<1>4. count \in Int /\ p \in Int
  <2>1. Legal(game, Current.gpx) \in Seq(DOMAIN game.moves)
    BY <1>1 DEF WellFormed, Legal
  <2> QED
    BY <1>1, <1>3, <2>1 DEF WellFormed
<1>5. PICK node, next : /\ node = [Current EXCEPT !.move_count = count]
                        /\ next = [NextNode EXCEPT !.gpx = p, !.alpha = -Current.beta,
                                                   !.beta = -Current.alpha]
  OBVIOUS
<1>6. /\ node \in NodeSet /\ SameNode(node, Current) /\ node.alpha = Current.alpha
      /\ node.move_count = count /\ node.gpx = Current.gpx /\ node.beta = Current.beta
  BY <1>1, <1>4, <1>5 DEF NodeSet, SameNode
<1>7. /\ next \in NodeSet /\ next.gpx = p /\ next.alpha = -Current.beta /\ next.beta = -Current.alpha
  <2>1. PICK low, high : low = -Current.beta /\ high = -Current.alpha
    OBVIOUS
  <2>2. low \in Int /\ high \in Int
    BY <1>1, <2>1
  <2>3. next = [NextNode EXCEPT !.gpx = p, !.alpha = low, !.beta = high]
    BY <1>5, <2>1
  <2>4. next \in NodeSet /\ next.gpx = p /\ next.alpha = low /\ next.beta = high
    BY <1>1, <1>4, <2>2, <2>3 DEF NodeSet
  <2> QED
    BY <2>1, <2>4
<1>8. nodes' = [[nodes EXCEPT ![n] = node] EXCEPT ![n + 1] = next]
  <2>1. n \in 0 .. MaxNodes /\ n + 1 \in 0 .. MaxNodes /\ n # n + 1
    BY <1>1, <1>2
  <2>2. DOMAIN nodes = 0 .. MaxNodes
    BY <1>1
  <2> QED
    BY <1>1, <1>2, <1>3, <1>5, <2>1, <2>2
<1>9. PICK ns, cs : ns = [nodes EXCEPT ![n] = node] /\ cs = [calls EXCEPT ![n] = c]
  OBVIOUS
<1>10. CallInv(game, pv_full_recording, Low(pv_full_recording, nodes, n), c, node, held[n])
  BY <1>3, <1>6
<1>11. Stack(game, pv_full_recording, ns, cs, held)
  BY <1>1, <1>6, <1>9, <1>10, TopReplaced
<1>12. Len(cs) = n /\ cs[n] = c /\ cs # << >> /\ cs \in Seq(CallSet)
  BY <1>1, <1>9
<1>13. /\ ns[n] = node /\ [ns EXCEPT ![n + 1] = next][n] = node
       /\ [ns EXCEPT ![n + 1] = next][n + 1] = next
  <2>1. n \in 0 .. MaxNodes /\ n + 1 \in 0 .. MaxNodes /\ n # n + 1 /\ DOMAIN nodes = 0 .. MaxNodes
    BY <1>1, <1>2
  <2> QED
    BY <1>1, <1>9, <2>1
<1>14. Awaits([ns EXCEPT ![n + 1] = next], cs, n)
  BY <1>6, <1>7, <1>12, <1>13 DEF Awaits, Target
<1>15. NewCall \in CallSet /\ NewCall.pc = "enter" /\ NewCall.branch_is_active = FALSE
  <2>1. << >> \in Seq(Int)
    OBVIOUS
  <2> QED
    BY <2>1 DEF NewCall, CallSet
<1>16. CallInv(game, pv_full_recording, -ns[n].beta, NewCall, next, LineCreated)
  <2>1. TrimmedFrom(game, LineCreated, next.gpx)
    BY <1>4, TrimmedPass
  <2> QED
    BY <1>6, <1>7, <1>13, <1>15, <2>1 DEF CallInv, Waits
<1>17. LineCreated \in Lines
  BY CreatedLine
<1>18. Stack(game, pv_full_recording, nodes', calls', held')
  <2>1. Stack(game, pv_full_recording, [ns EXCEPT ![Len(cs) + 1] = next], Append(cs, NewCall),
              Append(held, LineCreated))
    <3>1. /\ Len(held) = Len(cs) /\ Len(cs) + 1 < MaxNodes
          /\ Awaits([ns EXCEPT ![Len(cs) + 1] = next], cs, Len(cs))
          /\ CallInv(game, pv_full_recording, -ns[Len(cs)].beta, NewCall, next, LineCreated)
          /\ next.gpx \in DOMAIN game.moves
      BY <1>2, <1>7, <1>12, <1>14, <1>16
    <3> QED
      BY <1>7, <1>11, <1>12, <1>15, <1>17, <3>1, CallPushed
  <2> QED
    BY <1>2, <1>8, <1>9, <1>12, <2>1
<1>19. Len(calls') = n + 1 /\ calls'[n + 1] = NewCall /\ Len(held') = n + 1 /\ calls' # << >>
  BY <1>1, <1>2, <1>9, <1>12, <1>15
<1>20. Pending(game, pv_full_recording, nodes', calls', held')
  BY <1>15, <1>19 DEF Pending, Waits
<1> QED
  BY <1>1, <1>2, <1>18, <1>20 DEF IInv

(* When the call on top does not wait, there is no line but its own. *)
LEMMA NoReply ==
  ASSUME IInv, calls # << >>, ~Waits(Call)
  PROVE  Len(held) = n
BY DEF IInv, Pending, Call, n

(* The reply to the call on top. *)
LEMMA ReplyFacts ==
  ASSUME IInv, calls # << >>, Waits(Call)
  PROVE  /\ Len(held) = n + 1 /\ held[n + 1] \in Lines
         /\ Answered(game, pv_full_recording, Call, Current, NextNode, held[n + 1])
<1>1. /\ n = Len(calls) /\ Call = calls[Len(calls)] /\ n \in Nat \ {0} /\ held \in Seq(Lines)
      /\ Current = nodes[n] /\ NextNode = nodes[n + 1]
  BY TopFacts DEF n, Call, Current, NextNode
<1>2. /\ Len(held) = n + 1
      /\ Answered(game, pv_full_recording, Call, Current, NextNode, held[n + 1])
  BY <1>1 DEF IInv, Pending
<1> QED
  BY <1>1, <1>2

(* The line of the call on top is replaced, and the reply taken. *)
LEMMA LineReplaced ==
  ASSUME IInv, calls # << >>, NEW line \in Lines,
         held' = Append(SubSeq(held, 1, n - 1), line)
  PROVE  /\ held' \in Seq(Lines) /\ Len(held') = n /\ held'[n] = line
         /\ \A k \in 1 .. n - 1 : held'[k] = held[k]
<1>1. n \in Nat \ {0} /\ held \in Seq(Lines) /\ n = Len(calls)
  BY TopFacts DEF n
<1>2. Len(held) \in {n, n + 1}
  BY <1>1 DEF IInv, Stack
<1>3. PICK hs : hs = SubSeq(held, 1, n - 1)
  OBVIOUS
<1>4. hs \in Seq(Lines) /\ Len(hs) = n - 1 /\ \A k \in 1 .. n - 1 : hs[k] = held[k]
  BY <1>1, <1>2, <1>3
<1>5. PICK hs2 : hs2 = Append(hs, line)
  OBVIOUS
<1>6. hs2 \in Seq(Lines) /\ Len(hs2) = (n - 1) + 1 /\ hs2[(n - 1) + 1] = line
      /\ \A k \in 1 .. n - 1 : hs2[k] = hs[k]
  BY <1>1, <1>4, <1>5
<1>7. (n - 1) + 1 = n /\ held' = hs2
  BY <1>1, <1>3, <1>5
<1> QED
  BY <1>4, <1>6, <1>7

(* A move has a place behind the last element at the latest. *)
LEMMA MoveIsInserted ==
  ASSUME WellFormed(game), NEW P, P = Positions(game), NEW list \in Seq(P), NEW q \in P
  PROVE  /\ MoveInserted(list, q) \in Seq(P)
         /\ ToSet(MoveInserted(list, q)) = ToSet(list) \cup {q}
<1> DEFINE greater == {i \in DOMAIN list : Mobility(game, q) < Mobility(game, list[i])}
           T == greater \cup {Len(list) + 1}
<1>1. Len(list) \in Nat /\ DOMAIN list = 1 .. Len(list)
  OBVIOUS
<1>2. PICK U : U = T
  OBVIOUS
<1>3. Places(list, U)
  BY <1>1, <1>2 DEF Places
<1>4. MoveInserted(list, q) = InsertAt(list, Min(U), q)
  BY <1>2 DEF MoveInserted
<1> HIDE DEF T
<1> QED
  BY <1>3, <1>4, InsertedAtLeast

(* So the moves are searched in another order, and none is left out. *)
LEMMA MovesSorted ==
  ASSUME WellFormed(game), NEW p \in Positions(game)
  PROVE  /\ SortedMoves(p) \in Seq(Positions(game))
         /\ ToSet(SortedMoves(p)) = ToSet(Legal(game, p))
<1> DEFINE P == Positions(game)
           seq == Legal(game, p)
           insert == [lq \in Seq(P) \X P |-> MoveInserted(lq[1], lq[2])]
           D == SUBSET DOMAIN seq
           made(s, h) == IF s = {} THEN << >> ELSE MoveInserted(h[s \ {Max(s)}], seq[Max(s)])
           Solves(h) == h = [s \in D |-> made(s, h)]
<1>1. seq \in Seq(P)
  BY DEF WellFormed, Positions, Legal
<1>2. ASSUME NEW list \in Seq(P), NEW q \in P
      PROVE  /\ insert[<<list, q>>] = MoveInserted(list, q)
             /\ MoveInserted(list, q) \in Seq(P)
             /\ ToSet(MoveInserted(list, q)) = ToSet(list) \cup {q}
  <2>1. insert[<<list, q>>] = MoveInserted(list, q)
    <3>1. <<list, q>> \in Seq(P) \X P /\ <<list, q>>[1] = list /\ <<list, q>>[2] = q
      OBVIOUS
    <3> QED
      BY <3>1
  <2> HIDE DEF insert
  <2> QED
    BY <2>1, MoveIsInserted
<1>3. Insertion(P, insert)
  <2>1. insert = [lq \in Seq(P) \X P |-> insert[lq]]
    OBVIOUS
  <2>2. \A lq \in Seq(P) \X P : \E list \in Seq(P) : \E q \in P : lq = <<list, q>>
    OBVIOUS
  <2> HIDE DEF insert, P
  <2>3. \A lq \in Seq(P) \X P : insert[lq] \in Seq(P)
    BY <1>2, <2>2
  <2>4. insert \in [Seq(P) \X P -> Seq(P)]
    BY <2>1, <2>3
  <2>5. \A list \in Seq(P) : \A q \in P : ToSet(insert[<<list, q>>]) = ToSet(list) \cup {q}
    BY <1>2
  <2> QED
    BY <2>4, <2>5 DEF Insertion
<1>4. SortedMoves(p) = (CHOOSE h : Solves(h))[DOMAIN seq]
  BY DEF SortedMoves, FoldLeft, MapThenFoldSet
<1>5. \A s \in D : s # {} => Max(s) \in DOMAIN seq /\ seq[Max(s)] \in P /\ s \ {Max(s)} \in D
  <2> TAKE s \in D
  <2>1. DOMAIN seq = 1 .. Len(seq) /\ Len(seq) \in Nat
    BY <1>1
  <2>2. s # {} => Max(s) \in s
    BY <2>1, GreatestOf
  <2> HIDE DEF seq
  <2> QED
    BY <1>1, <2>1, <2>2
<1> HIDE DEF insert
<1>6. \E h : Solves(h)
  <2>0. PICK h \in [D -> Seq(P)] : InsertsAll(seq, insert, h)
    <3> HIDE DEF P, seq, made, Solves
    <3> QED
      BY <1>1, <1>3, SortingExists
  <2>1. \A s \in D :
          h[s] = IF s = {} THEN << >> ELSE insert[<<h[s \ {Max(s)}], seq[Max(s)]>>]
    BY <2>0 DEF InsertsAll
  <2>2. \A s \in D : h[s] = made(s, h)
    <3> TAKE s \in D
    <3>1. CASE s = {}
      BY <2>1, <3>1
    <3>2. CASE s # {}
      <4>1. h[s \ {Max(s)}] \in Seq(P) /\ seq[Max(s)] \in P
        BY <1>5, <2>1, <3>2
      <4>2. h[s] = insert[<<h[s \ {Max(s)}], seq[Max(s)]>>]
        BY <2>1, <3>2
      <4> HIDE DEF P, D, seq
      <4>3. h[s] = MoveInserted(h[s \ {Max(s)}], seq[Max(s)])
        BY <1>2, <4>1, <4>2
      <4> QED
        BY <3>2, <4>3
    <3> QED
      BY <3>1, <3>2
  <2>3. h = [s \in D |-> h[s]]
    BY <2>1
  <2> HIDE DEF made, D
  <2>4. Solves(h)
    BY <2>2, <2>3
  <2> QED
    BY <2>4
<1>7. PICK h : Solves(h) /\ SortedMoves(p) = h[DOMAIN seq]
  <2> HIDE DEF Solves, seq
  <2> QED
    BY <1>4, <1>6
<1>8. \A s \in D : h[s] = made(s, h)
  <2> HIDE DEF made, D
  <2> QED
    BY <1>7
<1>9. h[{}] = << >>
  BY <1>8
<1>10. ASSUME NEW s \in D, s # {}, h[s \ {Max(s)}] \in Seq(P)
       PROVE  h[s] = insert[<<h[s \ {Max(s)}], seq[Max(s)]>>]
  <2>1. h[s] = MoveInserted(h[s \ {Max(s)}], seq[Max(s)]) /\ seq[Max(s)] \in P
    BY <1>5, <1>8, <1>10
  <2> HIDE DEF P, D, seq
  <2> QED
    BY <1>2, <1>10, <2>1
<1>11. InsertsLists(P, seq, insert, h)
  <2> HIDE DEF P, seq, made, Solves
  <2> QED
    BY <1>9, <1>10 DEF InsertsLists
<1> QED
  <2>1. h[DOMAIN seq] \in Seq(P) /\ ToSet(h[DOMAIN seq]) = ToSet(seq)
    <3> HIDE DEF P, seq, made, Solves
    <3> QED
      BY <1>1, <1>3, <1>11, SortingKeeps
  <2> QED
    BY <1>7, <2>1

(* A position with legal moves has a list of them. *)
LEMMA MovesListed ==
  ASSUME WellFormed(game), NEW p \in Positions(game), HasLegalMove(game, p)
  PROVE  /\ SortedMoves(p) \in Seq(Int) /\ SortedMoves(p) # << >>
         /\ ToSet(SortedMoves(p)) = Successors(game, p)
<1> DEFINE seq == Legal(game, p)
           list == SortedMoves(p)
<1>1. list \in Seq(Positions(game)) /\ ToSet(list) = ToSet(seq)
  BY MovesSorted
<1>2. Positions(game) \subseteq Int /\ seq \in Seq(Positions(game)) /\ seq # << >>
  BY DEF WellFormed, Positions, Legal, HasLegalMove
<1>3. Successors(game, p) = ToSet(seq)
  BY <1>2 DEF Successors, IsTerminal, ToSet, Legal
<1> HIDE DEF seq, list
<1>4. ToSet(list) # {}
  <2>1. 1 \in DOMAIN seq
    BY <1>2
  <2> QED
    BY <1>1, <2>1 DEF ToSet
<1>5. list # << >>
  BY <1>4 DEF ToSet
<1>6. list \in Seq(Int)
  BY <1>1, <1>2
<1> QED
  BY <1>1, <1>3, <1>5, <1>6 DEF list


-----------------------------------------------------------------------------
(* The steps. *)

LEMMA InitHolds == Init => IInv
<1> SUFFICES ASSUME Init PROVE IInv
  OBVIOUS
<1> DEFINE low == RootAlpha(pv_full_recording)
           high == RootBeta(pv_full_recording)
<1>1. /\ WellFormed(game) /\ pv_full_recording \in BOOLEAN /\ BestScore \in Nat \ {0}
      /\ game \in Games /\ solution = Unsolved /\ held = <<LineCreated>> /\ calls = <<NewCall>>
      /\ MaxNodes \in Nat /\ 1 < MaxNodes
  BY SolverAssumption DEF Init
<1>2. low \in Int /\ high \in Int /\ Window(pv_full_recording, low, high)
  BY <1>1 DEF RootAlpha, RootBeta, OutOfRangeDefeatScore, OutOfRangeWinScore, WorstScore, Window
<1>3. Root \in DOMAIN game.moves /\ Root \in Int /\ Passed(Root) \in Int
  BY <1>1 DEF WellFormed
<1>4. /\ FreshNode \in NodeSet /\ GroundNode \in NodeSet /\ GroundNode.move_count = 0
      /\ FirstNode(low, high) \in NodeSet
      /\ FirstNode(low, high).gpx = Root /\ FirstNode(low, high).alpha = low
      /\ FirstNode(low, high).beta = high
  <2>1. FreshNode \in NodeSet
    BY DEF FreshNode, NodeSet
  <2>2. GroundNode \in NodeSet /\ GroundNode.move_count = 0
    BY <1>3 DEF GroundNode, FreshNode, NodeSet
  <2> HIDE DEF low, high
  <2>3. FirstNode(low, high) \in NodeSet
    BY <1>2, <1>3, <2>1 DEF FirstNode, NodeSet
  <2>4. /\ FirstNode(low, high).gpx = Root /\ FirstNode(low, high).alpha = low
        /\ FirstNode(low, high).beta = high
    BY DEF FirstNode, FreshNode
  <2> QED
    BY <2>1, <2>2, <2>3, <2>4
<1>5. nodes = [i \in 0 .. MaxNodes |-> IF i = 0 THEN GroundNode
                                       ELSE IF i > 1 THEN FreshNode ELSE FirstNode(low, high)]
  BY <1>1 DEF Init, RootAlpha, RootBeta
<1>6. /\ nodes \in [0 .. MaxNodes -> NodeSet]
      /\ nodes[0].move_count = 0 /\ nodes[1] = FirstNode(low, high)
  <2>1. 0 \in 0 .. MaxNodes /\ 1 \in 0 .. MaxNodes
    BY <1>1
  <2> HIDE DEF low, high
  <2> QED
    BY <1>4, <1>5, <2>1
<1>7. /\ NewCall \in CallSet /\ NewCall.pc = "enter" /\ NewCall.branch_is_active = FALSE
  <2>1. << >> \in Seq(Int)
    OBVIOUS
  <2> QED
    BY <2>1 DEF NewCall, CallSet
<1>8. LineCreated \in Lines /\ TrimmedFrom(game, LineCreated, Root)
  BY <1>3, CreatedLine, TrimmedPass
<1>9. /\ calls \in Seq(CallSet) /\ Len(calls) = 1 /\ calls[1] = NewCall /\ calls # << >>
      /\ held \in Seq(Lines) /\ Len(held) = 1 /\ held[1] = LineCreated
  BY <1>1, <1>7, <1>8
<1>10. Low(pv_full_recording, nodes, 1) = low
  BY DEF Low
<1> HIDE DEF low, high
<1>11. CallInv(game, pv_full_recording, low, NewCall, nodes[1], LineCreated)
  BY <1>2, <1>4, <1>6, <1>7, <1>8 DEF CallInv, Waits
<1>12. Stack(game, pv_full_recording, nodes, calls, held)
  <2>1. nodes[1].gpx = Root /\ nodes[1].beta = RootBeta(pv_full_recording)
    BY <1>4, <1>6 DEF high
  <2>2. \A k \in 1 .. 1 : k = 1
    OBVIOUS
  <2>3. \A k \in 1 .. Len(calls) :
          /\ nodes[k].gpx \in DOMAIN game.moves
          /\ CallInv(game, pv_full_recording, Low(pv_full_recording, nodes, k), calls[k], nodes[k],
                     held[k])
    BY <1>3, <1>9, <1>10, <1>11, <2>1, <2>2
  <2>4. \A k \in 1 .. Len(calls) - 1 : Awaits(nodes, calls, k)
    BY <1>9
  <2> QED
    BY <1>1, <1>6, <1>9, <2>1, <2>3, <2>4 DEF Stack
<1>13. Pending(game, pv_full_recording, nodes, calls, held)
  BY <1>7, <1>9 DEF Pending, Waits
<1> QED
  BY <1>1, <1>12, <1>13 DEF IInv

LEMMA MoveNodeStep == IInv /\ MoveNode => IInv'
<1> SUFFICES ASSUME IInv, MoveNode PROVE IInv'
  OBVIOUS
<1> DEFINE list == SortedMoves(Current.gpx)
           low == Low(pv_full_recording, nodes, n)
           value == IF pv_full_recording THEN low - 1 ELSE low
<1>1. /\ calls # << >> /\ Call.pc = "enter" /\ HasLegalMove(game, Current.gpx)
      /\ UNCHANGED <<game, pv_full_recording, held, solution>>
  BY DEF MoveNode, At
<1>2. /\ WellFormed(game) /\ pv_full_recording \in BOOLEAN
      /\ n \in Nat \ {0} /\ n < MaxNodes /\ MaxNodes \in Nat /\ held \in Seq(Lines)
      /\ nodes \in [0 .. MaxNodes -> NodeSet] /\ calls \in Seq(CallSet)
      /\ Call \in CallSet /\ Current \in NodeSet /\ Current.gpx \in DOMAIN game.moves
      /\ low \in Int /\ Current.beta \in Int /\ Current.alpha \in Int
      /\ CallInv(game, pv_full_recording, low, Call, Current, held[n])
  BY <1>1, TopFacts
<1> HIDE DEF low
<1>3. list \in Seq(Int) /\ list # << >> /\ ToSet(list) = Successors(game, Current.gpx)
  BY <1>1, <1>2, MovesListed DEF Positions
<1> HIDE DEF list
<1>4. PICK count, alpha : /\ count = Len(Legal(game, Current.gpx))
                          /\ alpha = IF pv_full_recording THEN Current.alpha - 1 ELSE Current.alpha
  OBVIOUS
<1>5. count \in Int /\ alpha = value /\ alpha \in Int
  <2>1. Legal(game, Current.gpx) \in Seq(DOMAIN game.moves)
    BY <1>2 DEF WellFormed, Legal
  <2>2. Current.alpha = low
    BY <1>1, <1>2 DEF CallInv
  <2> QED
    BY <1>2, <1>4, <2>1, <2>2
<1>6. PICK c, node : /\ c = [Call EXCEPT !.pc = "loop", !.list = list]
                     /\ node = [Current EXCEPT !.move_count = count, !.alpha = alpha]
  OBVIOUS
<1>7. /\ node \in NodeSet /\ SameNode(node, Current) /\ node.alpha = alpha
      /\ node.gpx = Current.gpx /\ node.beta = Current.beta
  BY <1>2, <1>5, <1>6 DEF NodeSet, SameNode
<1>8. /\ c \in CallSet /\ c.pc = "loop" /\ c.list = list /\ c.branch_is_active = FALSE
  BY <1>1, <1>2, <1>3, <1>6 DEF CallSet, CallInv
<1>9. calls' = [calls EXCEPT ![n] = c] /\ nodes' = [nodes EXCEPT ![n] = node]
  <2>1. nodes' = [nodes EXCEPT ![n].move_count = Len(Legal(game, Current.gpx)),
                               ![n].alpha = IF pv_full_recording THEN @ - 1 ELSE @]
    BY DEF MoveNode
  <2>2. n \in DOMAIN nodes /\ nodes[n] = Current
    BY <1>2 DEF Current
  <2>3. Current = [Current EXCEPT !.alpha = Current.alpha]
    BY <1>2 DEF NodeSet
  <2>4. nodes' = [nodes EXCEPT ![n] = [Current EXCEPT !.move_count = count, !.alpha = alpha]]
    BY <1>2, <1>4, <2>1, <2>2 DEF NodeSet
  <2> QED
    BY <1>6, <2>4 DEF MoveNode, list
<1>10. Window(pv_full_recording, low, Current.beta)
  BY <1>2 DEF CallInv
<1>11. Searching(game, pv_full_recording, Current.gpx, low, Current.beta, value, FALSE,
                 Successors(game, Current.gpx), held[n])
  BY <1>1, <1>2, <1>10, SearchBegins
<1> HIDE DEF value
<1>12. CallInv(game, pv_full_recording, low, c, node, held[n])
  BY <1>2, <1>3, <1>5, <1>7, <1>8, <1>10, <1>11 DEF CallInv, Waits
<1>13. Len(held) = n /\ ~Waits(c)
  BY <1>1, <1>8, NoReply DEF Waits
<1> QED
  BY <1>1, <1>2, <1>7, <1>8, <1>9, <1>12, <1>13, Advanced DEF low

(* No call is made when the player to move at the root has to pass. *)
LEMMA PassNodeStep == IInv /\ PassNode => IInv'
<1> SUFFICES ASSUME IInv, PassNode PROVE IInv'
  OBVIOUS
<1> DEFINE p == Passed(Current.gpx)
           low == Low(pv_full_recording, nodes, n)
<1>1. /\ calls # << >> /\ Call.pc = "enter" /\ ~HasLegalMove(game, Current.gpx)
      /\ Previous.move_count # 0
  BY DEF PassNode, At
<1>2. PICK c : c = [Call EXCEPT !.pc = "pass_back"]
  OBVIOUS
<1>3. Recursion(p, c)
  BY <1>2 DEF PassNode
<1>4. /\ WellFormed(game) /\ n \in Nat \ {0} /\ pv_full_recording \in BOOLEAN
      /\ Call \in CallSet /\ Current \in NodeSet /\ Current.gpx \in DOMAIN game.moves
      /\ low \in Int /\ Current.beta \in Int /\ Current.alpha \in Int
      /\ CallInv(game, pv_full_recording, low, Call, Current, held[n])
  BY <1>1, TopFacts
<1>5. ~RootPasses(game)
  <2>1. RootPasses(game) => n <= 1 /\ nodes[0].move_count = 0
    BY DEF IInv, Stack, n
  <2>2. n = 1 => Previous = nodes[0]
    BY DEF Previous
  <2> QED
    BY <1>1, <1>4, <2>1, <2>2
<1>6. c \in CallSet /\ c.pc = "pass_back" /\ Waits(c)
  BY <1>2, <1>4 DEF CallSet, Waits
<1>7. p \in DOMAIN game.moves /\ p = Target(c, Current)
  BY <1>4, <1>6 DEF WellFormed, Target
<1> HIDE DEF low
<1>8. Window(pv_full_recording, -Current.beta, -Current.alpha) /\ Current.alpha = low
  <2>1. Window(pv_full_recording, low, Current.beta) /\ Current.alpha = low
    BY <1>1, <1>4 DEF CallInv
  <2> QED
    BY <1>4, <2>1 DEF Window
<1>9. ASSUME NEW node \in NodeSet, SameNode(node, Current), node.alpha = Current.alpha,
             node.move_count = Len(Legal(game, Current.gpx))
      PROVE  CallInv(game, pv_full_recording, low, c, node, held[n])
  BY <1>1, <1>4, <1>6, <1>8, <1>9 DEF CallInv, SameNode
<1>10. Len(held) = n
  BY <1>1, NoReply DEF Waits
<1> HIDE DEF p
<1> QED
  BY <1>1, <1>3, <1>4, <1>5, <1>6, <1>7, <1>8, <1>9, <1>10, Recursed DEF low

LEMMA SearchMoveStep == IInv /\ SearchMove => IInv'
<1> SUFFICES ASSUME IInv, SearchMove PROVE IInv'
  OBVIOUS
<1> DEFINE q == Head(Call.list)
           low == Low(pv_full_recording, nodes, n)
<1>1. /\ calls # << >> /\ Call.pc = "loop" /\ Call.list # << >>
  BY DEF SearchMove, At
<1>2. PICK c : c = [Call EXCEPT !.pc = "back"]
  OBVIOUS
<1>3. Recursion(q, c)
  BY <1>2 DEF SearchMove
<1>4. /\ WellFormed(game) /\ n \in Nat \ {0} /\ pv_full_recording \in BOOLEAN
      /\ Call \in CallSet /\ Current \in NodeSet /\ Current.gpx \in DOMAIN game.moves
      /\ low \in Int /\ Current.beta \in Int /\ Current.alpha \in Int /\ Call.list \in Seq(Int)
      /\ CallInv(game, pv_full_recording, low, Call, Current, held[n])
  BY <1>1, TopFacts
<1> HIDE DEF low
<1>5. Searching(game, pv_full_recording, Current.gpx, low, Current.beta, Current.alpha,
                Call.branch_is_active, ToSet(Call.list), held[n])
  BY <1>1, <1>4 DEF CallInv
<1>6. q \in DOMAIN game.moves
  <2>1. q \in Successors(game, Current.gpx)
    BY <1>1, <1>4, <1>5, HeadAndTail DEF Searching
  <2> QED
    BY <1>4, <2>1, SuccessorsListed
<1>7. ~RootPasses(game)
  <2>1. RootPasses(game) => n <= 1 /\ nodes[1].gpx = Root
    BY DEF IInv, Stack, n
  <2>2. RootPasses(game) => Current.gpx = Root
    BY <1>4, <2>1 DEF Current
  <2>3. HasLegalMove(game, Current.gpx)
    BY <1>5 DEF Searching
  <2> QED
    BY <2>2, <2>3 DEF RootPasses
<1>8. /\ c \in CallSet /\ c.pc = "back" /\ Waits(c) /\ c.list = Call.list
      /\ c.branch_is_active = Call.branch_is_active
  BY <1>2, <1>4 DEF CallSet, Waits
<1>9. q = Target(c, Current)
  BY <1>8 DEF Target
<1>10. Window(pv_full_recording, -Current.beta, -Current.alpha)
  <2>1. Window(pv_full_recording, Current.alpha, Current.beta)
    BY <1>5 DEF Searching
  <2> QED
    BY <1>4, <2>1 DEF Window
<1> HIDE DEF q
<1>11. ASSUME NEW node \in NodeSet, SameNode(node, Current), node.alpha = Current.alpha,
              node.move_count = Len(Legal(game, Current.gpx))
       PROVE  CallInv(game, pv_full_recording, low, c, node, held[n])
  BY <1>1, <1>4, <1>5, <1>8, <1>11 DEF CallInv, SameNode
<1>12. Len(held) = n
  BY <1>1, NoReply DEF Waits
<1> QED
  BY <1>1, <1>3, <1>4, <1>6, <1>7, <1>8, <1>9, <1>10, <1>11, <1>12, Recursed DEF low

(* A leaf: there was no legal move at the node before either.  The ground  *)
(* node has none, so the root may only look like the end of the game.      *)
LEMMA LeafIsTerminal ==
  ASSUME IInv, LeafNode
  PROVE  IsTerminal(game, Current.gpx) \/ RootPasses(game)
<1>1. /\ calls # << >> /\ ~HasLegalMove(game, Current.gpx) /\ Previous.move_count = 0
  BY DEF LeafNode, At
<1>2. WellFormed(game) /\ n \in Nat \ {0} /\ Current.gpx \in DOMAIN game.moves /\ n = Len(calls)
  BY <1>1, TopFacts DEF n
<1>3. CASE n = 1
  <2>1. Current.gpx = Root
    BY <1>3 DEF IInv, Stack, Current
  <2> QED
    BY <1>1, <2>1 DEF RootPasses
<1>4. CASE n # 1
  <2>1. PICK k : k = n - 1
    OBVIOUS
  <2>2. k \in 1 .. Len(calls) - 1 /\ k \in 1 .. Len(calls) /\ k + 1 = n
    BY <1>2, <1>4, <2>1
  <2>3. /\ Awaits(nodes, calls, k)
        /\ nodes[k].gpx \in DOMAIN game.moves
        /\ CallInv(game, pv_full_recording, Low(pv_full_recording, nodes, k), calls[k], nodes[k],
                   held[k])
    BY <2>2 DEF IInv, Stack
  <2>4. Previous = nodes[k] /\ Current = nodes[k + 1]
    BY <2>1, <2>2 DEF Previous, Current
  <2>5. ~HasLegalMove(game, nodes[k].gpx)
    <3>1. Len(Legal(game, nodes[k].gpx)) = 0
      BY <1>1, <2>3, <2>4 DEF CallInv, Awaits
    <3>2. Legal(game, nodes[k].gpx) \in Seq(DOMAIN game.moves)
      BY <1>2, <2>3 DEF WellFormed, Legal
    <3> QED
      BY <3>1, <3>2 DEF HasLegalMove, Legal
  <2>6. calls[k].pc # "back"
    BY <2>3, <2>5 DEF CallInv, Searching
  <2>7. Current.gpx = Passed(nodes[k].gpx)
    BY <2>3, <2>4, <2>6 DEF Awaits, Target
  <2>8. Passed(Current.gpx) = nodes[k].gpx
    <3>1. nodes[k].gpx \in Int
      BY <1>2, <2>3 DEF WellFormed
    <3>2. Current.gpx = -nodes[k].gpx /\ Passed(Current.gpx) = -Current.gpx
      BY <2>7 DEF Passed
    <3> QED
      BY <3>1, <3>2
  <2> QED
    BY <1>1, <2>5, <2>8 DEF IsTerminal
<1> QED
  BY <1>3, <1>4

LEMMA LeafNodeStep == IInv /\ LeafNode => IInv'
<1> SUFFICES ASSUME IInv, LeafNode PROVE IInv'
  OBVIOUS
<1> DEFINE p == Current.gpx
           low == Low(pv_full_recording, nodes, n)
           line == LineWithMove(LineCreated, PassMove, NextNode.gpx)
           value == FinalValue(game, p)
<1>1. /\ calls # << >> /\ Call.pc = "enter"
      /\ held' = Append(SubSeq(held, 1, n - 1), line)
      /\ UNCHANGED <<game, pv_full_recording, solution>>
  BY DEF LeafNode, At
<1>2. /\ WellFormed(game) /\ n \in Nat \ {0} /\ n < MaxNodes /\ MaxNodes \in Nat
      /\ pv_full_recording \in BOOLEAN /\ BestScore \in Nat
      /\ nodes \in [0 .. MaxNodes -> NodeSet] /\ calls \in Seq(CallSet)
      /\ Call \in CallSet /\ Current \in NodeSet /\ p \in DOMAIN game.moves
      /\ low \in Int /\ Current.beta \in Int /\ NextNode.gpx \in Int
      /\ CallInv(game, pv_full_recording, low, Call, Current, held[n])
  BY <1>1, TopFacts
<1> HIDE DEF low
<1>3. /\ value \in Int
      /\ IsTerminal(game, p) => Found(game, pv_full_recording, p, low, Current.beta, value, line)
  <2>1. value \in Int
    <3>1. value \in WorstScore .. BestScore
      BY <1>2 DEF WellFormed, FinalValue
    <3> QED
      BY <3>1
  <2> QED
    BY <1>2, <2>1, LeafFound
<1>4. line \in Lines /\ TrimmedFrom(game, line, p)
  BY <1>2, TrimmedPass
<1>5. PICK c, node : /\ c = [Call EXCEPT !.pc = "out"]
                     /\ node = [Current EXCEPT !.move_count = 0, !.alpha = value,
                                               !.best_move = PassMove]
  OBVIOUS
<1>6. IsTerminal(game, p) \/ RootPasses(game)
  BY LeafIsTerminal
<1> HIDE DEF line, value
<1>7. c \in CallSet /\ c.pc = "out"
  BY <1>2, <1>5 DEF CallSet
<1>8. /\ node \in NodeSet /\ SameNode(node, Current) /\ node.alpha = value
      /\ node.gpx = p /\ node.beta = Current.beta
  <2>1. PICK count, move : count = 0 /\ move = PassMove
    OBVIOUS
  <2>2. node = [Current EXCEPT !.move_count = count, !.alpha = value, !.best_move = move]
    BY <1>5, <2>1
  <2>3. count \in Int /\ move \in Int \cup {PassMove}
    BY <2>1
  <2> QED
    BY <1>2, <1>3, <2>2, <2>3 DEF NodeSet, SameNode
<1>9. calls' = [calls EXCEPT ![n] = c] /\ nodes' = [nodes EXCEPT ![n] = node]
  <2>1. n \in DOMAIN nodes /\ nodes[n] = Current /\ calls[n] = Call
    BY <1>2 DEF Current, Call
  <2> QED
    BY <1>2, <1>5, <2>1 DEF LeafNode, value, NodeSet, CallSet
<1>10. CallInv(game, pv_full_recording, low, c, node, line) /\ ~Waits(c)
  BY <1>2, <1>3, <1>4, <1>6, <1>7, <1>8 DEF CallInv, Waits
<1>11. /\ held' \in Seq(Lines) /\ Len(held') = n /\ held'[n] = line
       /\ \A k \in 1 .. n - 1 : held'[k] = held[k]
  BY <1>1, <1>4, LineReplaced
<1> QED
  BY <1>1, <1>7, <1>8, <1>9, <1>10, <1>11, Advanced DEF low

LEMMA PassBackStep == IInv /\ PassBack => IInv'
<1> SUFFICES ASSUME IInv, PassBack PROVE IInv'
  OBVIOUS
<1> DEFINE p == Current.gpx
           low == Low(pv_full_recording, nodes, n)
           reply == held[n + 1]
           line == LineWithMove(reply, PassMove, NextNode.gpx)
           value == -NextNode.alpha
<1>1. /\ calls # << >> /\ Call.pc = "pass_back"
      /\ held' = Append(SubSeq(held, 1, n - 1), line)
      /\ UNCHANGED <<game, pv_full_recording, solution>>
  BY DEF PassBack, At, LineAccepted
<1>2. /\ WellFormed(game) /\ n \in Nat \ {0} /\ n < MaxNodes /\ MaxNodes \in Nat
      /\ pv_full_recording \in BOOLEAN /\ BestScore \in Nat
      /\ nodes \in [0 .. MaxNodes -> NodeSet] /\ calls \in Seq(CallSet)
      /\ Call \in CallSet /\ Current \in NodeSet /\ p \in DOMAIN game.moves
      /\ low \in Int /\ Current.beta \in Int /\ NextNode.alpha \in Int /\ NextNode \in NodeSet
      /\ CallInv(game, pv_full_recording, low, Call, Current, held[n])
  BY <1>1, TopFacts
<1>3. reply \in Lines /\ Answered(game, pv_full_recording, Call, Current, NextNode, reply)
  BY <1>1, ReplyFacts DEF Waits
<1> HIDE DEF reply, low
<1>4. /\ ~HasLegalMove(game, p) /\ Current.alpha = low
      /\ NextNode.gpx = Passed(p) /\ TrimmedFrom(game, reply, Passed(p))
      /\ Found(game, pv_full_recording, Passed(p), -Current.beta, -low, NextNode.alpha, reply)
  BY <1>1, <1>2, <1>3 DEF CallInv, Answered, Target
<1>5. Passed(p) \in DOMAIN game.moves /\ Passed(p) \in Int /\ MoveTo(game, p, Passed(p)) = PassMove
  BY <1>2, <1>4 DEF WellFormed, MoveTo
<1>6. value \in Int /\ -value = NextNode.alpha
  BY <1>2
<1> HIDE DEF value
<1>7. Found(game, pv_full_recording, p, low, Current.beta, value, line)
  <2>1. Found(game, pv_full_recording, Passed(p), -Current.beta, -low, -value, reply)
    BY <1>4, <1>6
  <2> QED
    BY <1>2, <1>3, <1>4, <1>6, <2>1, PassFound
<1>8. TrimmedFrom(game, line, p)
  <2>1. Passed(p) \in IF HasLegalMove(game, p) THEN Successors(game, p) ELSE {Passed(p)}
    BY <1>4
  <2>2. TrimmedFrom(game, LineWithMove(reply, MoveTo(game, p, Passed(p)), Passed(p)), p)
    BY <1>2, <1>3, <1>4, <2>1, TrimmedStep
  <2> QED
    BY <1>4, <1>5, <2>2
<1>9. line \in Lines
  <2>1. PICK cell : cell = [move |-> PassMove, gpx |-> NextNode.gpx]
    OBVIOUS
  <2>2. cell \in Cells /\ cell.move = PassMove /\ cell.gpx = NextNode.gpx
    BY <1>4, <1>5, <2>1 DEF Cells
  <2> QED
    BY <1>3, <2>2, LongerLine
<1> HIDE DEF line
<1>10. PICK c, node : /\ c = [Call EXCEPT !.pc = "out"]
                      /\ node = [Current EXCEPT !.alpha = value, !.best_move = NextNode.best_move]
  OBVIOUS
<1>11. c \in CallSet /\ c.pc = "out"
  BY <1>2, <1>10 DEF CallSet
<1>12. /\ node \in NodeSet /\ SameNode(node, Current) /\ node.alpha = value
       /\ node.gpx = p /\ node.beta = Current.beta
  <2>1. NextNode.best_move \in Int \cup {PassMove}
    BY <1>2 DEF NodeSet
  <2> QED
    BY <1>2, <1>6, <1>10, <2>1 DEF NodeSet, SameNode
<1>13. calls' = [calls EXCEPT ![n] = c] /\ nodes' = [nodes EXCEPT ![n] = node]
  <2>1. n \in DOMAIN nodes /\ nodes[n] = Current /\ calls[n] = Call
    BY <1>2 DEF Current, Call
  <2> QED
    BY <1>2, <1>10, <2>1 DEF PassBack, value, NodeSet, CallSet
<1>14. CallInv(game, pv_full_recording, low, c, node, line) /\ ~Waits(c)
  BY <1>2, <1>7, <1>8, <1>11, <1>12 DEF CallInv, Waits
<1>15. /\ held' \in Seq(Lines) /\ Len(held') = n /\ held'[n] = line
       /\ \A k \in 1 .. n - 1 : held'[k] = held[k]
  BY <1>1, <1>9, LineReplaced
<1> QED
  BY <1>1, <1>11, <1>12, <1>13, <1>14, <1>15, Advanced DEF low

(* The move on which the call on top waits has been searched, and the node *)
(* above still holds the position after it.                                *)
LEMMA BackFacts ==
  ASSUME IInv, At("back")
  PROVE  LET q == Head(Call.list)
             line == LineWithMove(held[n + 1], q, q)
         IN  /\ Answer(game, pv_full_recording, Current.gpx, Low(pv_full_recording, nodes, n),
                       Current.beta, Current.alpha, Call.branch_is_active, ToSet(Call.list),
                       held[n], q, Value, held[n + 1])
             /\ q \in Int /\ NextNode.gpx = q
             /\ line \in Lines /\ TrimmedFrom(game, line, Current.gpx)
<1> DEFINE q == Head(Call.list)
           p == Current.gpx
           low == Low(pv_full_recording, nodes, n)
           reply == held[n + 1]
<1>1. calls # << >> /\ Call.pc = "back"
  BY DEF At
<1>2. /\ WellFormed(game) /\ pv_full_recording \in BOOLEAN /\ BestScore \in Nat \ {0}
      /\ Call \in CallSet /\ p \in DOMAIN game.moves /\ Call.list \in Seq(Int)
      /\ low \in Int /\ Current.beta \in Int /\ Current.alpha \in Int
      /\ Call.branch_is_active \in BOOLEAN /\ NextNode.alpha \in Int /\ held[n] \in Lines
      /\ CallInv(game, pv_full_recording, low, Call, Current, held[n])
  BY <1>1, TopFacts
<1>3. reply \in Lines /\ Answered(game, pv_full_recording, Call, Current, NextNode, reply)
  BY <1>1, ReplyFacts DEF Waits
<1>4. Value \in Int /\ -Value = NextNode.alpha
  BY <1>2 DEF Value
<1> HIDE DEF reply, low
<1>5. /\ Searching(game, pv_full_recording, p, low, Current.beta, Current.alpha,
                   Call.branch_is_active, ToSet(Call.list), held[n])
      /\ Call.list # << >>
  BY <1>1, <1>2 DEF CallInv
<1>6. q \in ToSet(Call.list) /\ q \in Successors(game, p) /\ HasLegalMove(game, p)
  BY <1>2, <1>5, HeadAndTail DEF Searching
<1>7. q \in DOMAIN game.moves /\ q \in Int
  <2>1. q \in DOMAIN game.moves
    BY <1>2, <1>6, SuccessorsListed
  <2> QED
    BY <1>2, <2>1 DEF WellFormed
<1>8. /\ NextNode.gpx = q /\ TrimmedFrom(game, reply, q)
      /\ Found(game, pv_full_recording, q, -Current.beta, -Current.alpha, -Value, reply)
  BY <1>1, <1>3, <1>4 DEF Answered, Target
<1> HIDE DEF q
<1>9. Answer(game, pv_full_recording, p, low, Current.beta, Current.alpha,
             Call.branch_is_active, ToSet(Call.list), held[n], q, Value, reply)
  BY <1>2, <1>3, <1>4, <1>5, <1>6, <1>8 DEF Answer
<1>10. LineWithMove(reply, q, q) \in Lines
  <2>1. PICK cell : cell = [move |-> q, gpx |-> q]
    OBVIOUS
  <2>2. cell \in Cells /\ cell.move = q /\ cell.gpx = q
    BY <1>7, <2>1 DEF Cells
  <2> QED
    BY <1>3, <2>2, LongerLine
<1>11. TrimmedFrom(game, LineWithMove(reply, q, q), p)
  <2>1. q \in (IF HasLegalMove(game, p) THEN Successors(game, p) ELSE {Passed(p)})
    BY <1>6
  <2>2. MoveTo(game, p, q) = q
    BY <1>6 DEF MoveTo
  <2>3. TrimmedFrom(game, LineWithMove(reply, MoveTo(game, p, q), q), p)
    BY <1>2, <1>3, <1>8, <2>1, TrimmedStep
  <2> QED
    BY <2>2, <2>3
<1> QED
  BY <1>7, <1>8, <1>9, <1>10, <1>11 DEF q, reply, low

LEMMA AcceptStep == IInv /\ Accept => IInv'
<1> SUFFICES ASSUME IInv, Accept PROVE IInv'
  OBVIOUS
<1> DEFINE q == Head(Call.list)
           p == Current.gpx
           low == Low(pv_full_recording, nodes, n)
           reply == held[n + 1]
           line == LineWithMove(reply, q, q)
           pc == IF CutsOff(Value) THEN "out" ELSE "loop"
<1>1. /\ calls # << >> /\ Call.pc = "back" /\ At("back") /\ Improves
      /\ held' = Append(SubSeq(held, 1, n - 1), LineWithMove(reply, q, NextNode.gpx))
      /\ UNCHANGED <<game, pv_full_recording, solution>>
  BY DEF Accept, At, LineAccepted
<1>2. /\ n \in Nat \ {0} /\ n < MaxNodes /\ MaxNodes \in Nat
      /\ nodes \in [0 .. MaxNodes -> NodeSet] /\ calls \in Seq(CallSet)
      /\ Call \in CallSet /\ Call.list \in Seq(Int) /\ Current \in NodeSet
      /\ pv_full_recording \in BOOLEAN
      /\ CallInv(game, pv_full_recording, low, Call, Current, held[n])
  BY <1>1, TopFacts
<1>3. /\ Answer(game, pv_full_recording, p, low, Current.beta, Current.alpha,
                Call.branch_is_active, ToSet(Call.list), held[n], q, Value, reply)
      /\ q \in Int /\ NextNode.gpx = q
      /\ line \in Lines /\ TrimmedFrom(game, line, p)
  BY <1>1, BackFacts
<1> HIDE DEF reply, low
<1>4. /\ Call.list # << >> /\ Tail(Call.list) \in Seq(Int)
      /\ ToSet(Call.list) \ {q} \subseteq ToSet(Tail(Call.list))
      /\ ToSet(Tail(Call.list)) \subseteq ToSet(Call.list)
  BY <1>1, <1>2, HeadAndTail DEF CallInv
<1>5. /\ Improved(Current.alpha, Call.branch_is_active, Value)
      /\ CutsOff(Value) <=> Cut(pv_full_recording, Current.beta, Value)
  BY <1>1 DEF Improves, Improved, CutsOff, Cut
<1>6. Value \in Int
  BY <1>3 DEF Answer
<1>7. PICK c, node :
        /\ c = [pc |-> pc, list |-> Tail(Call.list), branch_is_active |-> TRUE]
        /\ node = [Current EXCEPT !.alpha = Value, !.best_move = q]
  OBVIOUS
<1>8. calls' = [calls EXCEPT ![n] = c] /\ nodes' = [nodes EXCEPT ![n] = node]
  <2>1. n \in DOMAIN nodes /\ nodes[n] = Current /\ calls[n] = Call
    BY <1>2 DEF Current, Call
  <2>2. nodes' = [nodes EXCEPT ![n] = [Current EXCEPT !.alpha = Value, !.best_move = q]]
    BY <1>2, <2>1 DEF Accept, NodeSet
  <2>3. calls' = [calls EXCEPT ![n] = [ pc |-> pc, list |-> Tail(Call.list),
                                        branch_is_active |-> TRUE ]]
    BY DEF Accept
  <2> QED
    BY <1>7, <2>2, <2>3
<1> HIDE DEF q
<1>9. CutsOff(Value) =>
        Found(game, pv_full_recording, p, low, Current.beta, Value, line)
  BY <1>3, <1>5, MoveCuts
<1>10. ~CutsOff(Value) =>
         Searching(game, pv_full_recording, p, low, Current.beta, Value, TRUE,
                   ToSet(Tail(Call.list)), line)
  BY <1>3, <1>4, <1>5, MoveAccepted
<1>11. held' = Append(SubSeq(held, 1, n - 1), line)
  BY <1>1, <1>3
<1> HIDE DEF line
<1>12. /\ c \in CallSet /\ c.pc = pc /\ c.list = Tail(Call.list) /\ c.branch_is_active = TRUE
  <2>1. pc \in {"enter", "loop", "back", "pass_back", "out"}
    OBVIOUS
  <2> HIDE DEF pc
  <2> QED
    BY <1>4, <1>7, <2>1 DEF CallSet
<1>13. /\ node \in NodeSet /\ SameNode(node, Current) /\ node.alpha = Value
       /\ node.gpx = p /\ node.beta = Current.beta
  <2>1. q \in Int \cup {PassMove}
    BY <1>3
  <2>2. PICK value : value = Value
    OBVIOUS
  <2>3. node = [Current EXCEPT !.alpha = value, !.best_move = q] /\ value \in Int
    BY <1>6, <1>7, <2>2
  <2> QED
    BY <1>2, <2>1, <2>2, <2>3 DEF NodeSet, SameNode
<1>14. CallInv(game, pv_full_recording, low, c, node, line) /\ ~Waits(c)
  <2>1. Window(pv_full_recording, low, node.beta) /\ TrimmedFrom(game, line, node.gpx)
    BY <1>2, <1>3, <1>13 DEF CallInv
  <2>2. CASE CutsOff(Value)
    <3>1. c.pc = "out"
      BY <1>12, <2>2
    <3> QED
      BY <1>9, <1>13, <2>1, <2>2, <3>1 DEF CallInv, Waits
  <2>3. CASE ~CutsOff(Value)
    <3>1. c.pc = "loop"
      BY <1>12, <2>3
    <3> QED
      BY <1>10, <1>12, <1>13, <2>1, <2>3, <3>1 DEF CallInv, Waits
  <2> QED
    BY <2>2, <2>3
<1>15. /\ held' \in Seq(Lines) /\ Len(held') = n /\ held'[n] = line
       /\ \A k \in 1 .. n - 1 : held'[k] = held[k]
  BY <1>1, <1>3, <1>11, LineReplaced
<1> QED
  BY <1>1, <1>8, <1>12, <1>13, <1>14, <1>15, Advanced DEF low

(* The move has been searched, and the node does not change. *)
LEMMA MovedOn ==
  ASSUME IInv, At("back"), UNCHANGED <<game, pv_full_recording, nodes, solution>>,
         calls' = [calls EXCEPT ![n] = [Call EXCEPT !.pc = "loop", !.list = Tail(@)]],
         NEW line \in Lines, TrimmedFrom(game, line, Current.gpx),
         Searching(game, pv_full_recording, Current.gpx, Low(pv_full_recording, nodes, n),
                   Current.beta, Current.alpha, Call.branch_is_active, ToSet(Tail(Call.list)), line),
         held' \in Seq(Lines), Len(held') = n, held'[n] = line,
         \A k \in 1 .. n - 1 : held'[k] = held[k]
  PROVE  IInv'
<1> DEFINE low == Low(pv_full_recording, nodes, n)
<1>1. calls # << >> /\ Call.pc = "back"
  BY DEF At
<1>2. /\ n \in Nat \ {0} /\ n < MaxNodes /\ MaxNodes \in Nat
      /\ nodes \in [0 .. MaxNodes -> NodeSet]
      /\ Call \in CallSet /\ Call.list \in Seq(Int) /\ Current \in NodeSet
      /\ CallInv(game, pv_full_recording, low, Call, Current, held[n])
  BY <1>1, TopFacts
<1> HIDE DEF low
<1>3. Tail(Call.list) \in Seq(Int)
  BY <1>1, <1>2, HeadAndTail DEF CallInv
<1>4. PICK c : c = [Call EXCEPT !.pc = "loop", !.list = Tail(@)]
  OBVIOUS
<1>5. /\ c \in CallSet /\ c.pc = "loop" /\ c.list = Tail(Call.list)
      /\ c.branch_is_active = Call.branch_is_active
  BY <1>2, <1>3, <1>4 DEF CallSet
<1>6. nodes' = [nodes EXCEPT ![n] = Current]
  BY <1>2 DEF Current
<1>7. CallInv(game, pv_full_recording, low, c, Current, line) /\ ~Waits(c)
  BY <1>2, <1>5 DEF CallInv, Waits, low
<1>8. SameNode(Current, Current) /\ calls' = [calls EXCEPT ![n] = c]
  BY <1>4 DEF SameNode
<1> QED
  BY <1>1, <1>2, <1>5, <1>6, <1>7, <1>8, Advanced DEF low

LEMMA AddVariantStep == IInv /\ AddVariant => IInv'
<1> SUFFICES ASSUME IInv, AddVariant PROVE IInv'
  OBVIOUS
<1> DEFINE q == Head(Call.list)
           p == Current.gpx
           low == Low(pv_full_recording, nodes, n)
           reply == held[n + 1]
           longer == LineWithMove(reply, q, q)
           line == LineWithVariant(held[n], longer)
<1>1. /\ calls # << >> /\ Call.pc = "back" /\ At("back") /\ ~Improves
      /\ pv_full_recording /\ Value = Current.alpha
      /\ held' = Append(SubSeq(held, 1, n - 1),
                        LineWithVariant(held[n], LineWithMove(reply, q, NextNode.gpx)))
      /\ calls' = [calls EXCEPT ![n] = [Call EXCEPT !.pc = "loop", !.list = Tail(@)]]
      /\ UNCHANGED <<game, pv_full_recording, nodes, solution>>
  BY DEF AddVariant, At
<1>2. /\ Call.list \in Seq(Int) /\ held[n] \in Lines
      /\ CallInv(game, pv_full_recording, low, Call, Current, held[n])
  BY <1>1, TopFacts
<1>3. /\ Answer(game, pv_full_recording, p, low, Current.beta, Current.alpha,
                Call.branch_is_active, ToSet(Call.list), held[n], q, Value, reply)
      /\ NextNode.gpx = q /\ longer \in Lines /\ TrimmedFrom(game, longer, p)
  BY <1>1, BackFacts
<1> HIDE DEF reply, low
<1>4. /\ Call.list # << >>
      /\ ToSet(Call.list) \ {q} \subseteq ToSet(Tail(Call.list))
      /\ ToSet(Tail(Call.list)) \subseteq ToSet(Call.list)
  BY <1>1, <1>2, HeadAndTail DEF CallInv
<1>5. ~Improved(Current.alpha, Call.branch_is_active, Value)
  BY <1>1 DEF Improves, Improved
<1>6. held' = Append(SubSeq(held, 1, n - 1), line)
  BY <1>1, <1>3
<1> HIDE DEF q
<1>7. Searching(game, pv_full_recording, p, low, Current.beta, Current.alpha,
                Call.branch_is_active, ToSet(Tail(Call.list)), line)
  BY <1>1, <1>3, <1>4, <1>5, MoveTies
<1> HIDE DEF longer
<1>8. line \in Lines /\ TrimmedFrom(game, line, p)
  <2>1. TrimmedFrom(game, held[n], p)
    BY <1>2 DEF CallInv
  <2>2. line = [held[n] EXCEPT !.plays = @ \cup longer.plays]
    BY DEF LineWithVariant
  <2>3. line \in Lines /\ line.plays = held[n].plays \cup longer.plays
    BY <1>2, <1>3, <2>2 DEF Lines
  <2> QED
    BY <1>3, <2>1, <2>3 DEF TrimmedFrom
<1> HIDE DEF line
<1>9. /\ held' \in Seq(Lines) /\ Len(held') = n /\ held'[n] = line
      /\ \A k \in 1 .. n - 1 : held'[k] = held[k]
  BY <1>1, <1>6, <1>8, LineReplaced
<1> QED
  BY <1>1, <1>7, <1>8, <1>9, MovedOn DEF low

LEMMA RejectStep == IInv /\ Reject => IInv'
<1> SUFFICES ASSUME IInv, Reject PROVE IInv'
  OBVIOUS
<1> DEFINE q == Head(Call.list)
           p == Current.gpx
           low == Low(pv_full_recording, nodes, n)
<1>1. /\ calls # << >> /\ Call.pc = "back" /\ At("back") /\ ~Improves
      /\ ~(pv_full_recording /\ Value = Current.alpha)
      /\ held' = SubSeq(held, 1, n)
      /\ calls' = [calls EXCEPT ![n] = [Call EXCEPT !.pc = "loop", !.list = Tail(@)]]
      /\ UNCHANGED <<game, pv_full_recording, nodes, solution>>
  BY DEF Reject, At
<1>2. /\ Call.list \in Seq(Int) /\ held[n] \in Lines /\ n \in Nat \ {0} /\ held \in Seq(Lines)
      /\ CallInv(game, pv_full_recording, low, Call, Current, held[n])
  BY <1>1, TopFacts
<1>3. Answer(game, pv_full_recording, p, low, Current.beta, Current.alpha,
             Call.branch_is_active, ToSet(Call.list), held[n], q, Value, held[n + 1])
  BY <1>1, BackFacts
<1> HIDE DEF low
<1>4. /\ Call.list # << >>
      /\ ToSet(Call.list) \ {q} \subseteq ToSet(Tail(Call.list))
      /\ ToSet(Tail(Call.list)) \subseteq ToSet(Call.list)
  BY <1>1, <1>2, HeadAndTail DEF CallInv
<1>5. ~Improved(Current.alpha, Call.branch_is_active, Value)
  BY <1>1 DEF Improves, Improved
<1> HIDE DEF q
<1>6. Searching(game, pv_full_recording, p, low, Current.beta, Current.alpha,
                Call.branch_is_active, ToSet(Tail(Call.list)), held[n])
  BY <1>1, <1>3, <1>4, <1>5, MoveFails
<1>7. TrimmedFrom(game, held[n], p)
  BY <1>2 DEF CallInv
<1>8. Len(held) = n + 1
  BY <1>1, ReplyFacts DEF Waits
<1>9. held' \in Seq(Lines) /\ Len(held') = n /\ \A k \in 1 .. n : held'[k] = held[k]
  BY <1>1, <1>2, <1>8
<1>10. held'[n] = held[n] /\ \A k \in 1 .. n - 1 : held'[k] = held[k]
  BY <1>2, <1>9
<1> QED
  BY <1>1, <1>2, <1>6, <1>7, <1>9, <1>10, MovedOn DEF low

(* What the call on top has found when it ends. *)
LEMMA CallEnds ==
  ASSUME IInv, calls # << >>, Call.pc = "out" \/ (Call.pc = "loop" /\ Call.list = << >>)
  PROVE  /\ ~RootPasses(game) =>
              Found(game, pv_full_recording, Current.gpx, Low(pv_full_recording, nodes, n),
                    Current.beta, Current.alpha, held[n])
         /\ TrimmedFrom(game, held[n], Current.gpx) /\ Len(held) = n
<1> DEFINE low == Low(pv_full_recording, nodes, n)
<1>1. /\ WellFormed(game) /\ pv_full_recording \in BOOLEAN /\ BestScore \in Nat
      /\ Current.gpx \in DOMAIN game.moves
      /\ low \in Int /\ Current.beta \in Int /\ Current.alpha \in Int
      /\ Call.branch_is_active \in BOOLEAN
      /\ CallInv(game, pv_full_recording, low, Call, Current, held[n])
  BY TopFacts
<1> HIDE DEF low
<1>2. CASE Call.pc = "out"
  BY <1>1, <1>2, NoReply DEF CallInv, Waits, low
<1>3. CASE Call.pc = "loop" /\ Call.list = << >>
  <2>1. ToSet(Call.list) = {}
    BY <1>3 DEF ToSet
  <2>2. Searching(game, pv_full_recording, Current.gpx, low, Current.beta,
                  Current.alpha, Call.branch_is_active, {}, held[n])
    BY <1>1, <1>3, <2>1 DEF CallInv
  <2>3. Found(game, pv_full_recording, Current.gpx, low, Current.beta, Current.alpha, held[n])
    BY <1>1, <2>2, SearchEnds
  <2> QED
    BY <1>1, <1>3, <2>3, NoReply DEF CallInv, Waits, low
<1> QED
  BY <1>2, <1>3

LEMMA ReturnStep == IInv /\ Return => IInv'
<1> SUFFICES ASSUME IInv, Return PROVE IInv'
  OBVIOUS
<1>1. /\ calls # << >>
      /\ (Call.pc = "out" \/ (Call.pc = "loop" /\ Call.list = << >>))
      /\ calls' = SubSeq(calls, 1, n - 1)
      /\ n > 1 => solution' = solution
      /\ UNCHANGED <<game, pv_full_recording, nodes, held>>
  BY DEF Return, At
<1>2. /\ calls \in Seq(CallSet) /\ Call \in CallSet /\ Call = calls[n] /\ n = Len(calls)
      /\ n \in Nat \ {0} /\ solution = Unsolved /\ Current = nodes[n]
  BY <1>1, TopFacts DEF Call, n, Current
<1>3. /\ ~RootPasses(game) =>
           Found(game, pv_full_recording, Current.gpx, Low(pv_full_recording, nodes, n),
                 Current.beta, Current.alpha, held[n])
      /\ TrimmedFrom(game, held[n], Current.gpx) /\ Len(held) = n
  BY <1>1, CallEnds
<1>4. Stack(game, pv_full_recording, nodes, calls, held)
  BY DEF IInv
<1>5. Stack(game, pv_full_recording, nodes', calls', held')
  BY <1>1, <1>2, <1>3, <1>4, CallPopped
<1>6. PICK m : m = n - 1
  OBVIOUS
<1>7. m \in Nat /\ m + 1 = n /\ Len(calls') = m /\ \A k \in 1 .. m : calls'[k] = calls[k]
  BY <1>1, <1>2, <1>6
<1>8. calls' # << >> => m \in 1 .. n - 1 /\ n > 1
  BY <1>2, <1>6, <1>7
<1>9. ASSUME calls' # << >>
      PROVE  /\ Len(held') = IF Waits(calls'[m]) THEN m + 1 ELSE m
             /\ Waits(calls'[m]) =>
                  Answered(game, pv_full_recording, calls'[m], nodes[m], nodes[m + 1], held[m + 1])
  <2>1. Awaits(nodes, calls, m) /\ calls'[m] = calls[m] /\ nodes[m + 1] = Current
    BY <1>2, <1>4, <1>6, <1>7, <1>8, <1>9 DEF Stack
  <2>2. ~RootPasses(game)
    BY <1>2, <1>4, <1>8, <1>9 DEF Stack
  <2>3. Low(pv_full_recording, nodes, n) = -nodes[m].beta
    BY <1>6, <1>8, <1>9 DEF Low
  <2>4. Answered(game, pv_full_recording, calls[m], nodes[m], nodes[m + 1], held[m + 1])
    BY <1>3, <1>7, <2>1, <2>2, <2>3 DEF Awaits, Answered
  <2> QED
    BY <1>1, <1>3, <1>7, <2>1, <2>4 DEF Awaits
<1>10. Pending(game, pv_full_recording, nodes', calls', held')
  <2>1. CASE calls' = << >>
    <3>1. m = 0 /\ n = 1
      BY <1>7, <2>1
    <3>2. Current.gpx = Root
      BY <1>2, <1>4, <3>1 DEF Stack
    <3> QED
      BY <1>1, <1>3, <2>1, <3>1, <3>2 DEF Pending
  <2>2. CASE calls' # << >>
    BY <1>1, <1>7, <1>9, <2>2 DEF Pending
  <2> QED
    BY <2>1, <2>2
<1>11. calls' # << >> => solution' = Unsolved
  BY <1>1, <1>2, <1>8
<1> QED
  BY <1>1, <1>5, <1>10, <1>11 DEF IInv

LEMMA Inductive == IInv /\ [Next]_vars => IInv'
<1> SUFFICES ASSUME IInv, [Next]_vars PROVE IInv'
  OBVIOUS
<1>1. CASE UNCHANGED vars
  BY <1>1 DEF vars, IInv
<1>2. CASE Next
  BY <1>2, MoveNodeStep, PassNodeStep, PassBackStep, LeafNodeStep, SearchMoveStep, AcceptStep,
     AddVariantStep, RejectStep, ReturnStep DEF Next
<1> QED
  BY <1>1, <1>2

(* The invariant of es2: the nodes hold the windows of their calls, and    *)
(* what a call has found so far bounds the game value as alpha-beta says,  *)
(* whatever the calls above have left in the nodes above.                  *)
THEOREM SearchSound == Spec => []IInv
<1>1. Init => IInv
  BY InitHolds
<1>2. IInv /\ [Next]_vars => IInv'
  BY Inductive
<1> QED
  BY <1>1, <1>2, PTL DEF Spec

-----------------------------------------------------------------------------
(* The properties. *)

(* A value that has come back to a node is exact inside the window of the  *)
(* node and a bound outside it; with full recording the ends of the window *)
(* count as inside.                                                        *)
THEOREM ReturnedValues == Spec => []ReturnedValueSound
<1>1. IInv => ReturnedValueSound
  <2> SUFFICES ASSUME IInv, calls # << >>, Waits(Call)
               PROVE  LET v == -GameValue(game)[NextNode.gpx]
                          alpha == Current.alpha
                          beta == Current.beta
                      IN  /\ Value > alpha /\ Value < beta => Value = v
                          /\ Value <= alpha => v <= alpha
                          /\ Value >= beta => v >= beta
                          /\ pv_full_recording /\ v \in alpha .. beta => Value = v
    BY DEF ReturnedValueSound, At, Waits
  <2>1. /\ WellFormed(game) /\ BestScore \in Nat /\ Current.gpx \in DOMAIN game.moves
        /\ Current.alpha \in Int /\ Current.beta \in Int /\ NextNode.alpha \in Int
        /\ Call.list \in Seq(Int) /\ Call \in CallSet
        /\ CallInv(game, pv_full_recording, Low(pv_full_recording, nodes, n), Call, Current, held[n])
    BY TopFacts
  <2>2. Answered(game, pv_full_recording, Call, Current, NextNode, held[n + 1])
    BY ReplyFacts
  <2>3. NextNode.gpx \in DOMAIN game.moves
    <3>1. CASE Call.pc = "back"
      <4>1. Head(Call.list) \in Successors(game, Current.gpx)
        BY <2>1, <3>1, HeadAndTail DEF CallInv, Searching
      <4> QED
        BY <2>1, <2>2, <3>1, <4>1, SuccessorsListed DEF Answered, Target
    <3>2. CASE Call.pc # "back"
      BY <2>1, <2>2, <3>2 DEF Answered, Target, WellFormed
    <3> QED
      BY <3>1, <3>2
  <2>4. GameValue(game)[NextNode.gpx] \in Int
    BY <2>1, <2>3, GainType
  <2>5. PICK w, alpha, beta, a, full :
          /\ w = GameValue(game)[NextNode.gpx] /\ alpha = Current.alpha /\ beta = Current.beta
          /\ a = NextNode.alpha /\ full = pv_full_recording
    OBVIOUS
  <2>6. /\ a <= -beta => w <= a
        /\ a >= -alpha => w >= a
        /\ -beta < a /\ a < -alpha => w = a
        /\ full /\ -beta <= a /\ a <= -alpha => w = a
    BY <2>2, <2>5 DEF Answered, Found
  <2>7. w \in Int /\ alpha \in Int /\ beta \in Int /\ a \in Int
    BY <2>1, <2>4, <2>5
  <2>8. /\ -a > alpha /\ -a < beta => -a = -w
        /\ -a <= alpha => -w <= alpha
        /\ -a >= beta => -w >= beta
        /\ full /\ -w \in alpha .. beta => -a = -w
    BY <2>6, <2>7
  <2> QED
    BY <2>5, <2>8 DEF Value
<1> QED
  BY <1>1, SearchSound, PTL

(* The lines under construction follow the game from their nodes, although *)
(* a cell copies its position from a node that deeper calls write as well; *)
(* the line of a call that has ended does so until it is taken or thrown   *)
(* away, and the finished line ever after.                                 *)
THEOREM LinesAreFollowed == Spec => []LinesFollowGame
<1>1. IInv => LinesFollowGame
  <2> SUFFICES ASSUME IInv, NEW k \in DOMAIN held
               PROVE  TrimmedFrom(game, held[k], nodes[k].gpx)
    BY DEF LinesFollowGame, TrimmedFrom
  <2>1. /\ calls \in Seq(CallSet) /\ held \in Seq(Lines) /\ Len(held) \in {Len(calls), Len(calls) + 1}
        /\ nodes[1].gpx = Root /\ k \in 1 .. Len(held) /\ Len(calls) \in Nat
        /\ \A i \in 1 .. Len(calls) :
             CallInv(game, pv_full_recording, Low(pv_full_recording, nodes, i), calls[i], nodes[i],
                     held[i])
    BY DEF IInv, Stack
  <2>2. CASE k \in 1 .. Len(calls)
    BY <2>1, <2>2 DEF CallInv
  <2>3. CASE calls = << >>
    <3>1. Len(held) = 1 /\ TrimmedFrom(game, held[1], Root)
      BY <2>3 DEF IInv, Pending
    <3> QED
      BY <2>1, <3>1
  <2>4. CASE calls # << >> /\ k \notin 1 .. Len(calls)
    <3>1. k = Len(calls) + 1 /\ Len(held) = Len(calls) + 1
      BY <2>1, <2>4
    <3>2. Waits(calls[Len(calls)])
      BY <2>1, <2>4, <3>1 DEF IInv, Pending
    <3>3. Answered(game, pv_full_recording, calls[Len(calls)], nodes[Len(calls)],
                   nodes[Len(calls) + 1], held[Len(calls) + 1])
      BY <2>4, <3>2 DEF IInv, Pending
    <3> QED
      BY <3>1, <3>3 DEF Answered
  <2> QED
    BY <2>2, <2>3, <2>4
<1> QED
  BY <1>1, SearchSound, PTL

(* ExactSolution speaks of the same game. *)
LEMMA SameGame ==
  /\ \A g : Solution!GameValue(g) = GameValue(g) /\ Solution!OptimalPlays(g) = OptimalPlays(g)
  /\ \A s : Solution!WithoutPasses(s) = WithoutPasses(s)
  /\ Solution!Root = Root
<1>1. Solution!Root = Root
  BY DEF Root, Solution!Root
<1>2. \A s : Solution!WithoutPasses(s) = WithoutPasses(s)
  BY DEF WithoutPasses, Solution!WithoutPasses, Max, Solution!Max
<1>3. ASSUME NEW g PROVE Solution!GameValue(g) = GameValue(g)
  BY DEF GameValue, FinalValue, Max, HasLegalMove, IsTerminal, Successors, Passed,
         Solution!GameValue, Solution!FinalValue, Solution!Max,
         Solution!HasLegalMove, Solution!IsTerminal, Solution!Successors, Solution!Passed
<1>4. ASSUME NEW g PROVE Solution!OptimalPlays(g) = OptimalPlays(g)
  BY DEF OptimalPlays, MoveTo, GameValue, FinalValue, Max, HasLegalMove, IsTerminal, Successors,
         Passed,
         Solution!OptimalPlays, Solution!MoveTo, Solution!GameValue, Solution!FinalValue,
         Solution!Max, Solution!HasLegalMove, Solution!IsTerminal, Solution!Successors,
         Solution!Passed
<1> QED
  BY <1>1, <1>2, <1>3, <1>4

(* What the window of the outermost call makes of what it has found. *)
LEMMA RootSolved ==
  ASSUME IInv, Return, n = 1, ~RootPasses(game)
  PROVE  Solution!Solve
<1>1. /\ calls # << >>
      /\ (Call.pc = "out" \/ (Call.pc = "loop" /\ Call.list = << >>))
      /\ solution' = [outcome |-> Current.alpha, line |-> held[1]]
      /\ UNCHANGED <<game, pv_full_recording, held>>
  BY DEF Return, At
<1>2. /\ WellFormed(game) /\ pv_full_recording \in BOOLEAN /\ BestScore \in Nat \ {0}
      /\ solution = Unsolved /\ held[1] \in Lines /\ Current.alpha \in Int
  BY <1>1, TopFacts
<1>3. Current.gpx = Root /\ Current.beta = RootBeta(pv_full_recording)
  BY DEF IInv, Stack, Current
<1> DEFINE value == Current.alpha
           line == held[1]
<1>4. Found(game, pv_full_recording, Root, RootAlpha(pv_full_recording),
            RootBeta(pv_full_recording), value, line)
  BY <1>1, <1>3, CallEnds DEF Low
<1>5. Root \in DOMAIN game.moves
  BY <1>2 DEF WellFormed
<1> HIDE DEF value, line
<1>6. /\ GameValue(game)[Root] = value /\ WithoutPasses(line.best) \in BestPlays(game, Root)
      /\ pv_full_recording => Trimmed(line) = BestPlays(game, Root)
  BY <1>2, <1>4, <1>5, WidestWindow DEF value
<1>7. solution'.outcome = value /\ solution'.line = line
  BY <1>1 DEF value, line
<1>8. solution' # Unsolved
  <2>1. solution' \in [outcome : Int, line : Lines]
    BY <1>1, <1>2
  <2> QED
    BY <2>1, SolverAssumption
<1>9. Solution!Solves(solution', game)
  <2>1. {WithoutPasses(p) : p \in OptimalPlays(game)[Root]} = BestPlays(game, Root)
    BY DEF BestPlays
  <2>2. {WithoutPasses(p) : p \in line.plays} = Trimmed(line)
    BY DEF Trimmed
  <2> QED
    BY <1>6, <1>7, <2>1, <2>2, SameGame DEF Solution!Solves
<1> QED
  BY <1>1, <1>2, <1>9, <1>8 DEF Solution!Solve

(* es2 implements ExactSolution for the games whose first player does not  *)
(* have to pass: it solves the game in one step, the end of the outermost  *)
(* call, and never changes what it has solved.  That it gets there at all  *)
(* is left to the runs.                                                    *)
THEOREM SolvesExactly ==
  Spec /\ ~RootPasses(game) =>
    Solution!Init /\ [][Solution!Solve]_<<game, pv_full_recording, solution>>
<1> DEFINE abstract == <<game, pv_full_recording, solution>>
<1>1. Init => Solution!Init
  BY DEF Init, Solution!Init
<1>2. IInv /\ ~RootPasses(game) /\ [Next]_vars => [Solution!Solve]_abstract
  <2> SUFFICES ASSUME IInv, ~RootPasses(game), [Next]_vars PROVE [Solution!Solve]_abstract
    OBVIOUS
  <2>1. CASE UNCHANGED vars
    BY <2>1 DEF vars
  <2>2. CASE Return
    <3>1. calls # << >>
      BY <2>2 DEF Return, At
    <3>2. n \in Nat \ {0}
      BY <3>1, TopFacts
    <3>3. CASE n > 1
      BY <2>2, <3>3 DEF Return
    <3>4. CASE n = 1
      BY <2>2, <3>4, RootSolved
    <3> QED
      BY <3>2, <3>3, <3>4
  <2>3. CASE MoveNode \/ PassNode \/ PassBack \/ LeafNode \/ SearchMove
             \/ Accept \/ AddVariant \/ Reject
    BY <2>3 DEF MoveNode, PassNode, PassBack, LeafNode, SearchMove, Accept, AddVariant, Reject,
                Recursion
  <2> QED
    BY <2>1, <2>2, <2>3 DEF Next
<1>3. ~RootPasses(game) /\ [Next]_vars => ~RootPasses(game)'
  <2>1. [Next]_vars => game' = game
    BY DEF Next, vars, MoveNode, PassNode, PassBack, LeafNode, SearchMove, Accept, AddVariant,
           Reject, Recursion, Return
  <2> QED
    BY <2>1 DEF RootPasses, HasLegalMove, IsTerminal
<1> QED
  BY <1>1, <1>2, <1>3, SearchSound, PTL DEF Spec
=============================================================================
