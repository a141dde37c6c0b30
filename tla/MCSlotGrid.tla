----------------------------- MODULE MCSlotGrid -----------------------------
(****************************************************************************)
(* Small grids for SlotGrid.                                                *)
(****************************************************************************)
EXTENDS SlotGrid

CONSTANTS a, b, w, s

NoWilds == [x \in Symbols |-> {}]

Entry(id, kind, pays) == [id |-> id, kind |-> kind, pays |-> pays]

\* Three reels of two rows; the wild stands in for a only and pays itself; the
\* scatter has payouts too, which nothing may look at.
FixedRows ==
    [strips      |-> << <<a, w, s>>, <<a, b, s>>, <<b, a, w>> >>,
     rows        |-> {2},
     minMatch    |-> 2,
     catalog     |-> << Entry(a, "regular", <<0, 1, 3>>),
                        Entry(b, "regular", <<0, 0, 2>>),
                        Entry(w, "wild", <<0, 4, 5>>),
                        Entry(s, "scatter", <<1, 1, 1>>) >>,
     substitutes |-> [NoWilds EXCEPT ![a] = {w}],
     scatters    |-> {s},
     thresholds  |-> << [count |-> 2, payout |-> 3, award |-> 2],
                        [count |-> 1, payout |-> 1, award |-> 0] >>,
     maxCascades |-> 1]

\* Two reels of one to three rows, one shorter than the tallest window; two
\* cascades; single matches pay.
VariableRows ==
    [strips      |-> << <<a, b>>, <<b, a, s>> >>,
     rows        |-> 1..3,
     minMatch    |-> 1,
     catalog     |-> << Entry(a, "regular", <<1, 2>>),
                        Entry(b, "regular", <<0, 3>>),
                        Entry(s, "scatter", <<>>) >>,
     substitutes |-> NoWilds,
     scatters    |-> {s},
     thresholds  |-> << [count |-> 2, payout |-> 3, award |-> 2],
                        [count |-> 2, payout |-> 1, award |-> 1] >>,
     maxCascades |-> 2]

\* Payouts whose product or sum leaves the integers.
Overflowing ==
    [FixedRows EXCEPT !.catalog =
        << Entry(a, "regular", <<0, 29, 58>>), Entry(b, "regular", <<0, 0, 39>>),
           Entry(w, "wild", <<0, 4, 5>>), Entry(s, "scatter", <<>>) >>,
                      !.maxCascades = 0]

SmallGames == {FixedRows, VariableRows, Overflowing}
==============================================================================
