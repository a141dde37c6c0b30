------------------------------ MODULE SlotGame ------------------------------
(****************************************************************************)
(* What the grid and the ways evaluator know of a definition: the part of   *)
(* slot.ValidatedDefinition that SlotGrid reads.                            *)
(****************************************************************************)
EXTENDS SlotMoney, Sequences, FiniteSets

CONSTANT Symbols

Kinds == {"regular", "wild", "scatter", "bonus"}

Game ==
    [strips      : Seq(Seq(Symbols)),
     rows        : SUBSET Nat,          \* MinRows..MaxRows
     minMatch    : Nat \ {0},
     catalog     : Seq([id : Symbols, kind : Kinds, pays : Seq(Multiplier)]),
     substitutes : [Symbols -> SUBSET Symbols],  \* the wilds of a symbol
     scatters    : SUBSET Symbols,      \* Scatter.SymbolID, or all of that kind
     thresholds  : Seq([count : Nat \ {0}, payout : Multiplier, award : Int]),
     maxCascades : Nat]

\* A symbol's payouts are one for each number of matched reels or none, wilds
\* stand in for regular symbols only, nothing but a scatter counts as one, a
\* strip is as long as the shortest window but may be shorter than the tallest,
\* and only symbols of the catalog show.
WellFormed(g) ==
    /\ g.rows # {} /\ 0 \notin g.rows /\ IsFiniteSet(g.rows)
    /\ \A i \in DOMAIN g.strips :
          /\ \E n \in g.rows : n <= Len(g.strips[i])
          /\ \A j \in DOMAIN g.strips[i] :
                \E k \in DOMAIN g.catalog : g.catalog[k].id = g.strips[i][j]
    /\ g.minMatch <= Len(g.strips)
    /\ \A i, j \in DOMAIN g.catalog :
          g.catalog[i].id = g.catalog[j].id => i = j
    /\ \A i \in DOMAIN g.catalog :
          /\ Len(g.catalog[i].pays) \in {0, Len(g.strips)}
          /\ g.catalog[i].kind # "regular" =>
                g.substitutes[g.catalog[i].id] = {}
          /\ g.catalog[i].id \in g.scatters => g.catalog[i].kind = "scatter"
          /\ \A s \in Symbols : g.catalog[i].id \in g.substitutes[s] =>
                g.catalog[i].kind = "wild"
==============================================================================
