-------------------------------- MODULE Mines --------------------------------
(****************************************************************************)
(* engine/mines/mines.go: the board of a round and what an ordered list of  *)
(* picks is worth on it.  A configuration is [game, size, mines, rtp], a    *)
(* board [game, size, rtp, mines], the mines in ascending order.            *)
(****************************************************************************)
EXTENDS InstantMath, SequencesExt

CONSTANTS DefaultBoardSize, MaxBoardSize, DefaultTargetRTP

Resolve(c) ==
    [c EXCEPT !.size = IF @ = 0 THEN DefaultBoardSize ELSE @,
              !.rtp  = IF @ = 0 THEN DefaultTargetRTP ELSE @]

\* resolveConfig, on a resolved configuration.
Valid(c) ==
    /\ c.size \in 2..MaxBoardSize
    /\ c.mines \in 1..(c.size - 1)
    /\ c.rtp \in 1..Unit

\* One draw for each mine, over the places that are left.
Requests(c) == [i \in 1..c.mines |-> c.size - (i - 1)]

\* The first places of the shuffled tiles are the mines.
Outcome(c, tiles) ==
    [game |-> "mines", size |-> c.size, rtp |-> c.rtp,
     mines |-> SortSeq([i \in 1..c.mines |-> tiles[i - 1]], <)]

------------------------------------------------------------------------------
(* Board.Evaluate.                                                           *)

\* The configuration a stored board stands for.
ConfigOf(b) ==
    Resolve([game |-> "mines", size |-> b.size, mines |-> Len(b.mines),
             rtp |-> b.rtp])

Distinct(s) == \A i, j \in DOMAIN s : s[i] = s[j] => i = j

ValidBoard(b) ==
    /\ Valid(ConfigOf(b))
    /\ ToSet(b.mines) \subseteq 0..(ConfigOf(b).size - 1)
    /\ Distinct(b.mines)

ValidPicks(picks, size) ==
    ToSet(picks) \subseteq 0..(size - 1) /\ Distinct(picks)

\* Mutation: the board does not shrink from one pick to the next.
CashOutWithReplacement(c, k) ==
    IF k = 0 THEN One
    ELSE IF k > c.size - c.mines THEN Zero
    ELSE Ratio(c.rtp * c.size ^ k, Unit * (c.size - c.mines) ^ k)

\* RTP over the chance that k picks are safe.
CashOut(c, k) ==
    LET safe == c.size - c.mines IN
    IF k = 0 THEN One
    ELSE IF k > safe THEN Zero
    ELSE Ratio(c.rtp * Product([i \in 1..k |-> c.size - i + 1], k),
               Unit * Product([i \in 1..k |-> safe - i + 1], k))

Refused == [ok |-> FALSE]

\* The picks before the first mine are safe, and the mine ends the round; the
\* board and all the picks, the later ones too, are checked before.
Evaluate(b, picks) ==
    LET c       == ConfigOf(b)
        Mine(i) == picks[i] \in ToSet(b.mines)
        safe    == Max({n \in 0..Len(picks) : \A i \in 1..n : ~Mine(i)})
        lost    == safe < Len(picks)
        reveal  == [i \in 1..safe |->
                      [tile |-> picks[i], mine |-> FALSE, safePicks |-> i,
                       multiplier |-> CashOut(c, i)]]
        fatal   == [tile |-> picks[safe + 1], mine |-> TRUE,
                    safePicks |-> safe, multiplier |-> Zero]
    IN  IF ~ValidBoard(b) \/ ~ValidPicks(picks, c.size) THEN Refused
        ELSE [ok |-> TRUE,
              reveals    |-> IF lost THEN Append(reveal, fatal) ELSE reveal,
              lost       |-> lost,
              safePicks  |-> safe,
              multiplier |-> IF lost THEN Zero ELSE CashOut(c, safe)]
==============================================================================
