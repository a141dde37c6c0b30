--------------------------- MODULE MCSlotCompile ---------------------------
(****************************************************************************)
(* Definitions for SlotCompile: one game, and what an author may get right  *)
(* or wrong in each section of it.                                          *)
(****************************************************************************)
EXTENDS SlotCompile

Strings == STRING

Symbol(id, kind, pays) ==
    [id |-> id, kind |-> kind, pays |-> pays, substitutes |-> {}, cannot |-> {}]

\* Two reels of one row; the cascade and the free spins are on.
Plain ==
    [id |-> "game", version |-> "v1",
     reels |-> 2, rows |-> 1, minRows |-> 0, maxRows |-> 0, variableRows |-> FALSE,
     mechanic |-> NoName, minMatch |-> 1,
     symbols |-> << Symbol("a", "regular", <<0, 0, 2>>),
                    Symbol("b", "regular", <<0, 1, 4>>),
                    [Symbol("w", "wild", <<>>) EXCEPT !.substitutes = {"a"}],
                    Symbol("s", "scatter", <<>>) >>,
     wilds |-> {}, substitutes |-> {}, cannot |-> {}, scatter |-> NoName,
     thresholds |-> << [count |-> 1, payout |-> 1, award |-> 2] >>,
     reelSets |-> [base  |-> << <<"a", "w">>, <<"b", "s">> >>,
                   bonus |-> << <<"a", "a", "s">>, <<"b">> >>],
     baseReelSet |-> NoName,
     cascade |-> [enabled |-> TRUE, max |-> 0, mode |-> NoName, fixed |-> 0,
                  step |-> 0, table |-> <<>>],
     free |-> [enabled |-> TRUE, reelSet |-> "bonus", max |-> 0,
               policy |-> NoName, retrigger |-> TRUE],
     features |-> <<>>, cap |-> 20, capPolicy |-> NoName]

On(id)  == [id |-> id, enabled |-> TRUE]
Off(id) == [id |-> id, enabled |-> FALSE]

\* A scalar of the definition, most of them wrong.
Scalars ==
    {[Plain EXCEPT !.reels = 0], [Plain EXCEPT !.reels = 1],
     [Plain EXCEPT !.rows = 0],  [Plain EXCEPT !.rows = 2],
     [Plain EXCEPT !.minMatch = 0], [Plain EXCEPT !.minMatch = 3],
     [Plain EXCEPT !.thresholds[1].count = 0], [Plain EXCEPT !.thresholds[1].payout = -1],
     [Plain EXCEPT !.mechanic = "lines"], [Plain EXCEPT !.version = NoName]}
    \cup {[Plain EXCEPT !.variableRows = TRUE, !.minRows = least, !.maxRows = most] :
             least \in 0..2, most \in 0..2}

\* Each is the catalog's third and fourth symbols.
Catalogs ==
    {[Plain EXCEPT !.symbols[3] = w, !.symbols[4] = s] :
        w \in {Symbol("w", "wild", <<>>), Symbol("w", "wild", <<0, -1, 3>>),
               Symbol("w", "wild", <<3>>), Symbol("w", "regular", <<0, -1, 3>>),
               Symbol("w", "joker", <<>>), Symbol("w", "bonus", <<1>>),
               [Symbol("w", "wild", <<>>) EXCEPT !.substitutes = {"w", "b"},
                                                 !.cannot = {"b", "s"}],
               [Symbol("w", "wild", <<>>) EXCEPT !.substitutes = {"s"}]},
        s \in {Symbol("s", "scatter", <<>>), Symbol("s", "wild", <<>>),
               Symbol("a", "scatter", <<>>), Symbol(NoName, "scatter", <<>>)}}

Roles ==
    {[Plain EXCEPT !.wilds = ws, !.substitutes = to, !.cannot = no, !.scatter = s] :
        ws \in {{}, {"w"}, {"a"}}, to \in {{}, {"a"}, {"s"}},
        no \in {{}, {"a"}, {"x"}}, s \in {NoName, "s", "a"}}

Strips ==
    {[Plain EXCEPT !.reelSets = sets, !.baseReelSet = base] :
        base \in {NoName, "bonus", "other"},
        sets \in {<<>>, [base |-> << <<"a">>, <<"b">> >>],
                  [bonus |-> << <<"a">>, <<"b">> >>],
                  [base |-> << <<"a">>, <<"b">> >>, bonus |-> << <<"a">> >>],
                  [base |-> << <<"a">>, <<"x">> >>, bonus |-> << <<"a">>, <<"b">> >>],
                  [base |-> << <<"a">>, <<>> >>, bonus |-> << <<"a">>, <<"b">> >>]}}

Cascades ==
    {[Plain EXCEPT !.cascade = [enabled |-> on, max |-> 2, mode |-> mode,
                                fixed |-> n, step |-> n, table |-> table],
                   !.cap = n + 1] :
        on \in BOOLEAN, mode \in {NoName, "fixed", "incremental", "table", "other"},
        n \in {-1, 1}, table \in {<<>>, <<1, 3>>, <<2, 0>>}}

FreeSpins ==
    {[Plain EXCEPT !.free = [enabled |-> on, reelSet |-> name, max |-> most,
                             policy |-> policy, retrigger |-> FALSE],
                   !.cap = cap, !.capPolicy = end] :
        on \in BOOLEAN, name \in {NoName, "other"}, most \in {-1, 3},
        policy \in {NoName, "persistent", "custom", "other"},
        cap \in {-1, 0}, end \in {NoName, "terminate_session", "other"}}

Declared ==
    {[Plain EXCEPT !.features = fs, !.cascade.enabled = on] :
        on \in BOOLEAN,
        fs \in {<<On("cascade")>>, <<On("cascade"), On("cascade")>>,
                <<On("scatter_free_spins"), On("cascade")>>,
                <<On("plugin"), Off("cascade")>>, <<Off("cascade"), On("cascade")>>,
                <<On(NoName)>>}}

SmallDefinitions ==
    {Plain} \cup Scalars \cup Catalogs \cup Roles \cup Strips \cup Cascades
            \cup FreeSpins \cup Declared

Modules ==
    {<<>>, <<None>>, <<"cascade", "cascade">>,
     <<"plugin", None, "scatter_free_spins", "cascade">>}

Seeds == {"server", "client"}

Requests ==
    {None} \cup
    {[seeds |-> seeds, spin |-> [id |-> id, version |-> version, bet |-> bet]] :
        seeds \in {Seeds, {"client"}}, id \in {"game", NoName},
        version \in {"v1", "v2"}, bet \in {0, 1}}

\* One valid definition is enough to see the callers write.
PlainOnly == {Plain}
==============================================================================
