------------------------- MODULE PVTreeWalkerProofs -------------------------
(***************************************************************************)
(* Whatever the environment, the walk over it stays within row_stack and   *)
(* computes the right game positions.                                      *)
(***************************************************************************)
EXTENDS PVTreeWalker, TLAPS

RowType == [line : Lines, dist_lev_0 : Nat, rel_distance : Nat, gp : Seq(Cells)]

(* The stack without its top. *)
LEMMA RowsFront ==
  ASSUME NEW S, NEW s \in Seq(S), s # << >>
  PROVE  /\ SubSeq(s, 1, Len(s) - 1) \in Seq(S)
         /\ Len(SubSeq(s, 1, Len(s) - 1)) = Len(s) - 1
         /\ \A i \in 1 .. Len(s) - 1 : SubSeq(s, 1, Len(s) - 1)[i] = s[i]
         /\ Len(s) \in Nat \ {0}
         /\ s[Len(s)] \in S
<1>1. Len(s) \in Nat \ {0} /\ s \in [1 .. Len(s) -> S]
  OBVIOUS
<1> DEFINE f == SubSeq(s, 1, Len(s) - 1)
<1>2. f = [i \in 1 .. Len(s) - 1 |-> s[i]]
  BY <1>1
<1>3. f \in Seq(S)
  BY <1>1
<1>4. Len(f) = Len(s) - 1
  BY <1>1
<1>5. \A i \in 1 .. Len(s) - 1 : f[i] = s[i]
  BY <1>2
<1>6. s[Len(s)] \in S
  BY <1>1
<1> QED
  BY <1>1, <1>3, <1>4, <1>5, <1>6

(* A row put on the stack. *)
LEMMA RowsAppend ==
  ASSUME NEW S, NEW s \in Seq(S), NEW x \in S
  PROVE  /\ Append(s, x) \in Seq(S)
         /\ Len(Append(s, x)) = Len(s) + 1
         /\ \A i \in 1 .. Len(s) : Append(s, x)[i] = s[i]
         /\ Append(s, x)[Len(s) + 1] = x
         /\ Len(s) \in Nat
OBVIOUS

(* The type of a row of the stack. *)
LEMMA RowFields ==
  ASSUME NEW s \in Seq(RowType), NEW i \in DOMAIN s
  PROVE  s[i] \in RowType /\ s[i].dist_lev_0 \in Nat
<1>1. s[i] \in RowType
  OBVIOUS
<1> QED
  BY <1>1 DEF RowType

(* What the assumption says of the environment at hand. *)
LEMMA EnvFacts ==
  ASSUME IInv
  PROVE  /\ WellFormed(env)
         /\ NULL \notin Cells /\ NULL \notin Lines
         /\ MaxRecursionDepth \in Nat \ {0}
BY WalkerAssumption DEF IInv

LEMMA InitInductive == Init => IInv
<1> SUFFICES ASSUME Init PROVE IInv
  OBVIOUS
<1>1. env \in Envs /\ WellFormed(env) /\ MaxRecursionDepth \in Nat \ {0}
  BY WalkerAssumption DEF Init
<1>2. Row(env.root_line, 0, << >>) \in RowType
  BY <1>1 DEF Row, RowType, WellFormed
<1>3. rows \in Seq(RowType) /\ Len(rows) = 1 /\ rows[1] = Row(env.root_line, 0, << >>)
  BY <1>2 DEF Init
<1>4. RowInv(rows[1])
  BY <1>1, <1>3 DEF RowInv, Row, WellFormed
<1>5. row \in RowType /\ c = NULL
  BY <1>2 DEF Init
<1>6. rows[1].dist_lev_0 = 0
  BY <1>3 DEF Row
<1>7. \A i \in DOMAIN rows : i = 1
  BY <1>3
<1>8. \A i \in DOMAIN rows :
        RowInv(rows[i]) /\ i - 1 <= rows[i].dist_lev_0 /\ rows[i].dist_lev_0 < MaxRecursionDepth
  BY <1>1, <1>4, <1>6, <1>7
<1>9. \A i, j \in DOMAIN rows : i < j => rows[i].dist_lev_0 < rows[j].dist_lev_0
  BY <1>7
<1> QED
  BY <1>1, <1>3, <1>5, <1>8, <1>9 DEF IInv, RowType, PositionOfCell

LEMMA BeginLineInductive == IInv /\ BeginLine => IInv'
<1> SUFFICES ASSUME IInv, BeginLine PROVE IInv'
  OBVIOUS
<1> DEFINE top == rows[Len(rows)]
<1>1. rows \in Seq(RowType) /\ rows # << >>
  BY DEF IInv, RowType, BeginLine
<1>2. /\ rows' \in Seq(RowType)
      /\ Len(rows') = Len(rows) - 1
      /\ \A i \in 1 .. Len(rows) - 1 : rows'[i] = rows[i]
      /\ Len(rows) \in Nat \ {0}
      /\ top \in RowType
  BY <1>1, RowsFront DEF BeginLine
<1>3. WellFormed(env) /\ NULL \notin Cells /\ env' = env
  BY EnvFacts DEF BeginLine
<1>4. row' = Row(top.line, top.dist_lev_0, top.gp) /\ c' = env.first[top.line]
  BY DEF BeginLine
<1>5. row' \in RowType /\ c' \in Cells \cup {NULL}
  BY <1>2, <1>3, <1>4 DEF RowType, Row, WellFormed
<1>6. RowInv(top)
  BY <1>2, SMTT(30) DEF IInv
<1>7. PositionOfCell'
  BY <1>2, <1>3, <1>4, <1>6 DEF PositionOfCell, RowInv, Row, RowType
<1>8. DOMAIN rows' = 1 .. Len(rows) - 1 /\ DOMAIN rows = 1 .. Len(rows)
  BY <1>1, <1>2
<1>9. \A i \in DOMAIN rows' :
        /\ RowInv(rows[i])
        /\ i - 1 <= rows[i].dist_lev_0
        /\ rows[i].dist_lev_0 < MaxRecursionDepth
        /\ rows'[i] = rows[i]
        /\ rows[i].dist_lev_0 < top.dist_lev_0
  <2> SUFFICES ASSUME NEW i \in DOMAIN rows'
               PROVE  /\ RowInv(rows[i])
                      /\ i - 1 <= rows[i].dist_lev_0
                      /\ rows[i].dist_lev_0 < MaxRecursionDepth
                      /\ rows'[i] = rows[i]
                      /\ rows[i].dist_lev_0 < top.dist_lev_0
    OBVIOUS
  <2>1. i \in DOMAIN rows /\ Len(rows) \in DOMAIN rows /\ i < Len(rows)
    BY <1>2, <1>8
  <2>2. rows'[i] = rows[i]
    BY <1>2, <1>8
  <2>3. rows[i].dist_lev_0 < top.dist_lev_0
    BY <2>1 DEF IInv
  <2> QED
    BY <2>1, <2>2, <2>3 DEF IInv
<1>10. \A i \in DOMAIN rows' : RowInv(rows[i])'
  BY <1>3, <1>9 DEF RowInv
<1>11. \A i, j \in DOMAIN rows' : i < j => rows'[i].dist_lev_0 < rows'[j].dist_lev_0
  <2> SUFFICES ASSUME NEW i \in DOMAIN rows', NEW j \in DOMAIN rows', i < j
               PROVE  rows'[i].dist_lev_0 < rows'[j].dist_lev_0
    OBVIOUS
  <2>1. i \in DOMAIN rows /\ j \in DOMAIN rows
    BY <1>2, <1>8
  <2>2. rows[i].dist_lev_0 < rows[j].dist_lev_0
    BY <2>1 DEF IInv
  <2> QED
    BY <2>2, <1>9
<1>12. row'.dist_lev_0 + row'.rel_distance = top.dist_lev_0
  BY <1>2, <1>4 DEF Row, RowType
<1> QED
  BY <1>2, <1>3, <1>5, <1>7, <1>9, <1>10, <1>11, <1>12 DEF IInv, RowType

LEMMA WalkCellInductive == IInv /\ WalkCell => IInv'
<1> SUFFICES ASSUME IInv, WalkCell PROVE IInv'
  OBVIOUS
<1>1. WellFormed(env) /\ NULL \notin Cells /\ NULL \notin Lines /\ env' = env /\ env \in Envs
      /\ MaxRecursionDepth \in Nat
  BY EnvFacts DEF WalkCell, IInv
<1>2. c \in Cells /\ rows \in Seq(RowType) /\ row \in RowType
  BY DEF IInv, RowType, WalkCell
<1>3. row.gp = env.path[c] /\ row.dist_lev_0 + row.rel_distance = Len(row.gp)
  BY <1>1, <1>2 DEF IInv, PositionOfCell
<1>4. row' = [row EXCEPT !.rel_distance = @ + 1, !.gp = Append(@, c)] /\ c' = env.next[c]
  BY DEF WalkCell
<1>5. row'.gp = Append(row.gp, c) /\ row'.dist_lev_0 = row.dist_lev_0
      /\ row'.rel_distance = row.rel_distance + 1 /\ row'.line = row.line
  BY <1>2, <1>4 DEF RowType
<1>6. row' \in RowType /\ c' \in Cells \cup {NULL}
  <2>1. Append(row.gp, c) \in Seq(Cells)
    BY <1>2, RowsAppend DEF RowType
  <2>2. c' \in Cells \cup {NULL}
    BY <1>1, <1>2, <1>4 DEF WellFormed
  <2>3. row' = [line |-> row.line, dist_lev_0 |-> row.dist_lev_0,
                rel_distance |-> row.rel_distance + 1, gp |-> Append(row.gp, c)]
    BY <1>2, <1>4 DEF RowType
  <2>4. row.line \in Lines /\ row.dist_lev_0 \in Nat /\ row.rel_distance + 1 \in Nat
    BY <1>2 DEF RowType
  <2>5. row' \in RowType
    BY <2>1, <2>3, <2>4 DEF RowType
  <2> QED
    BY <2>2, <2>5
<1> DEFINE ply == row.dist_lev_0 + row.rel_distance
<1>7. ply \in Nat /\ ply < MaxRecursionDepth /\ row'.dist_lev_0 + row'.rel_distance = ply + 1
  <2>1. Len(env.path[c]) < MaxRecursionDepth
    BY <1>1, <1>2 DEF WellFormed
  <2> QED
    BY <1>2, <1>3, <1>5, <2>1 DEF RowType
<1>8. PositionOfCell'
  <2> SUFFICES ASSUME c' # NULL
               PROVE  row'.gp = env.path[c']
                      /\ row'.dist_lev_0 + row'.rel_distance = Len(env.path[c'])
    BY <1>1 DEF PositionOfCell
  <2>1. env.path[c'] = Append(env.path[c], c)
    BY <1>1, <1>2, <1>4 DEF WellFormed
  <2>2. Len(Append(row.gp, c)) = Len(row.gp) + 1
    BY <1>2, RowsAppend DEF RowType
  <2> QED
    BY <1>3, <1>5, <1>7, <2>1, <2>2
<1>9. \A i \in DOMAIN rows :
        /\ RowInv(rows[i])
        /\ i - 1 <= rows[i].dist_lev_0
        /\ rows[i].dist_lev_0 < MaxRecursionDepth
        /\ rows[i].dist_lev_0 < ply
  BY <1>1, <1>2 DEF IInv
<1>10. /\ rows' \in Seq(RowType)
       /\ \A i \in DOMAIN rows' :
            /\ RowInv(rows'[i])
            /\ i - 1 <= rows'[i].dist_lev_0
            /\ rows'[i].dist_lev_0 < MaxRecursionDepth
            /\ rows'[i].dist_lev_0 < ply + 1
       /\ \A i, j \in DOMAIN rows' : i < j => rows'[i].dist_lev_0 < rows'[j].dist_lev_0
  <2>1. CASE env.variant[c] = NULL
    <3>1. rows' = rows
      BY <2>1 DEF WalkCell, Pushed
    <3>2. \A i \in DOMAIN rows : rows[i].dist_lev_0 \in Nat
      BY <1>2, RowFields
    <3>3. \A i \in DOMAIN rows : rows[i].dist_lev_0 < ply + 1
      BY <1>7, <1>9, <3>2
    <3>4. \A i, j \in DOMAIN rows : i < j => rows[i].dist_lev_0 < rows[j].dist_lev_0
      BY DEF IInv
    <3> QED
      BY <1>2, <1>9, <3>1, <3>3, <3>4
  <2>2. CASE env.variant[c] # NULL
    <3> DEFINE new == Row(env.variant[c], ply, row.gp)
    <3>1. rows' = Append(rows, new)
      BY <2>2 DEF WalkCell, Pushed
    <3>2. new \in RowType /\ new.dist_lev_0 = ply /\ new.line = env.variant[c] /\ new.gp = row.gp
      <4>1. env.variant[c] \in Lines
        BY <1>1, <1>2, <2>2 DEF WellFormed
      <4> QED
        BY <1>2, <1>7, <4>1 DEF Row, RowType
    <3>3. RowInv(new)
      <4>1. env.path[env.first[env.variant[c]]] = env.path[c]
        BY <1>1, <1>2, <2>2 DEF WellFormed
      <4> QED
        BY <1>3, <3>2, <4>1 DEF RowInv
    <3> HIDE DEF new
    <3>4. /\ rows' \in Seq(RowType)
          /\ Len(rows') = Len(rows) + 1
          /\ \A i \in 1 .. Len(rows) : rows'[i] = rows[i]
          /\ rows'[Len(rows) + 1] = new
          /\ Len(rows) \in Nat
      BY <1>2, <3>1, <3>2, RowsAppend
    <3>5. DOMAIN rows = 1 .. Len(rows) /\ DOMAIN rows' = 1 .. Len(rows) + 1
      BY <1>2, <3>4
    <3>6. Len(rows) <= ply
      <4>1. CASE Len(rows) = 0
        BY <4>1, <1>7
      <4>2. CASE Len(rows) # 0
        <5>1. Len(rows) \in DOMAIN rows
          BY <3>4, <3>5, <4>2
        <5>2. rows[Len(rows)].dist_lev_0 \in Nat
          BY <1>2, <5>1, RowFields
        <5> QED
          BY <1>7, <1>9, <3>4, <5>1, <5>2
      <4> QED
        BY <4>1, <4>2
    <3>7. \A i \in DOMAIN rows' :
            /\ RowInv(rows'[i])
            /\ i - 1 <= rows'[i].dist_lev_0
            /\ rows'[i].dist_lev_0 < MaxRecursionDepth
            /\ rows'[i].dist_lev_0 < ply + 1
      <4> SUFFICES ASSUME NEW i \in DOMAIN rows'
                   PROVE  /\ RowInv(rows'[i])
                          /\ i - 1 <= rows'[i].dist_lev_0
                          /\ rows'[i].dist_lev_0 < MaxRecursionDepth
                          /\ rows'[i].dist_lev_0 < ply + 1
        OBVIOUS
      <4>1. CASE i = Len(rows) + 1
        BY <1>7, <3>2, <3>3, <3>4, <3>6, <4>1
      <4>2. CASE i # Len(rows) + 1
        <5>1. i \in DOMAIN rows /\ rows'[i] = rows[i]
          BY <3>4, <3>5, <4>2
        <5>2. rows[i].dist_lev_0 \in Nat
          BY <1>2, <5>1, RowFields
        <5> QED
          BY <1>7, <1>9, <5>1, <5>2
      <4> QED
        BY <4>1, <4>2
    <3>8. \A i, j \in DOMAIN rows' : i < j => rows'[i].dist_lev_0 < rows'[j].dist_lev_0
      <4> SUFFICES ASSUME NEW i \in DOMAIN rows', NEW j \in DOMAIN rows', i < j
                   PROVE  rows'[i].dist_lev_0 < rows'[j].dist_lev_0
        OBVIOUS
      <4>1. i \in DOMAIN rows /\ rows'[i] = rows[i]
        BY <3>4, <3>5
      <4>2. CASE j = Len(rows) + 1
        BY <1>9, <3>2, <3>4, <4>1, <4>2
      <4>3. CASE j # Len(rows) + 1
        <5>1. j \in DOMAIN rows /\ rows'[j] = rows[j]
          BY <3>4, <3>5, <4>3
        <5> QED
          BY <4>1, <5>1 DEF IInv
      <4> QED
        BY <4>2, <4>3
    <3> QED
      BY <3>4, <3>7, <3>8
  <2> QED
    BY <2>1, <2>2
<1>11. \A i \in DOMAIN rows' : RowInv(rows[i])'
  BY <1>1, <1>10 DEF RowInv
<1> QED
  BY <1>1, <1>6, <1>7, <1>8, <1>10, <1>11 DEF IInv, RowType

(* The inductive invariant of the walk. *)
THEOREM WalkInductive == Spec => []IInv
<1>1. IInv /\ UNCHANGED vars => IInv'
  BY DEF IInv, vars, PositionOfCell, RowInv
<1>2. IInv /\ [Next]_vars => IInv'
  BY <1>1, BeginLineInductive, WalkCellInductive DEF Next
<1> QED
  BY <1>2, InitInductive, PTL DEF Spec

(* pve_tree_walker never writes past the end of row_stack. *)
THEOREM RowStackFits == Spec => []RowsFit
<1>1. IInv => RowsFit
  <2> SUFFICES ASSUME IInv PROVE Len(rows) <= MaxRecursionDepth
    BY DEF RowsFit
  <2>1. rows \in Seq(RowType) /\ MaxRecursionDepth \in Nat \ {0}
    BY EnvFacts DEF IInv, RowType
  <2>2. CASE Len(rows) = 0
    BY <2>1, <2>2
  <2>3. CASE Len(rows) # 0
    <3>1. Len(rows) \in DOMAIN rows /\ Len(rows) \in Nat
      BY <2>1, <2>3
    <3>2. rows[Len(rows)].dist_lev_0 \in Nat
      BY <2>1, <3>1, RowFields
    <3>3. /\ Len(rows) - 1 <= rows[Len(rows)].dist_lev_0
          /\ rows[Len(rows)].dist_lev_0 < MaxRecursionDepth
      BY <3>1 DEF IInv
    <3> QED
      BY <2>1, <3>1, <3>2, <3>3
  <2> QED
    BY <2>2, <2>3
<1> QED
  BY <1>1, WalkInductive, PTL

(* Every cell is visited in the game position that its move is made in. *)
THEOREM WalkedPositions == Spec => []PositionOfCell
<1>1. IInv => PositionOfCell
  BY DEF IInv
<1> QED
  BY <1>1, WalkInductive, PTL
=============================================================================
