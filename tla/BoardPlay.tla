----------------------------- MODULE BoardPlay -----------------------------
(***************************************************************************)
(* Play on the board of board.c, with the hash of the position carried     *)
(* along by game_position_x_delta_hash.  The bits of a hash are the        *)
(* exclusive or of random words, one for each colour of each square, all   *)
(* of them inverted when white is to move: a hash is the set of the words  *)
(* in it and whether it is inverted.                                       *)
(***************************************************************************)
EXTENDS Board

CONSTANTS
  Starts,        \* the positions a play may start from
  MaxPlies       \* the moves that are played, bounds the run

(* A position of the game has one disc on a square at most. *)
ASSUME StartsAssumption == \A g \in Starts : g \in Positions /\ g.blacks \cap g.whites = {}

VARIABLES
  gpx,           \* the current position
  hash,          \* its hash
  plies

playVars == <<gpx, hash, plies>>

(* zobrist_bitstrings, and zobrist_flip_bitstrings that change a disc. *)
Word(s, p) == <<s, p>>
FlipWords(s) == {Word(s, BLACK_PLAYER), Word(s, WHITE_PLAYER)}

game_position_x_hash(g) ==
  [ words |-> {Word(s, BLACK_PLAYER) : s \in g.blacks} \cup {Word(s, WHITE_PLAYER) : s \in g.whites},
    inverted |-> g.player = WHITE_PLAYER ]

(* Mutant: the disc of the move is taken to be of the player who is next.  *)
game_position_x_delta_hash_mover(old_hash, move, flips, new_p) ==
  [ words |-> SymDiff(SymDiff(old_hash.words, {Word(move, new_p)}), UNION {FlipWords(s) : s \in flips}),
    inverted |-> ~old_hash.inverted ]

(* game_position_x_delta_hash, the flips without the move itself.  The     *)
(* words of two squares differ, so that the exclusive or over the flips is *)
(* the union of their words.                                               *)
game_position_x_delta_hash(old_hash, move, flips, new_p) ==
  [ words |-> SymDiff(SymDiff(old_hash.words, {Word(move, 1 - new_p)}), UNION {FlipWords(s) : s \in flips}),
    inverted |-> ~old_hash.inverted ]

PlayInit ==
  /\ gpx \in Starts
  /\ hash = game_position_x_hash(gpx)
  /\ plies = 0

MakeMove ==
  /\ plies < MaxPlies
  /\ plies' = plies + 1
  /\ \E move \in board_legal_moves4(gpx) :
       /\ gpx' = game_position_x_make_move2(gpx, move)
       /\ hash' = game_position_x_delta_hash(hash, move, OpponentSet(gpx) \ PlayerSet(gpx'), gpx'.player)

(* game_position_x_pass, and the branch of the hash for pass_move. *)
PassMove ==
  /\ plies < MaxPlies
  /\ plies' = plies + 1
  /\ board_legal_moves4(gpx) = {}
  /\ has_any_player_any_legal_move(gpx)
  /\ gpx' = game_position_x_pass(gpx)
  /\ hash' = [hash EXCEPT !.inverted = ~@]

PlayNext == MakeMove \/ PassMove

PlaySpec == PlayInit /\ [][PlayNext]_playVars
-----------------------------------------------------------------------------
(* The five ways of board.c to find the legal moves, its test of one move  *)
(* and its two ways to make a move agree with the rules at every position, *)
(* at the edges of the board and over the longest runs too.                *)
FollowsRules == BoardFollowsRules(gpx)

(* The hash carried along a play is the hash of the position. *)
HashExact == hash = game_position_x_hash(gpx)
=============================================================================
