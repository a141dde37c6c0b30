--------------------------- MODULE SlotDefinition ---------------------------
(****************************************************************************)
(* What becomes of the definition a game's author hands over: ValidateDefi- *)
(* nition of core/slot/config.go checks it section by section and fills in  *)
(* defaults, and the other modules see the parts of it they play.           *)
(*                                                                          *)
(* Definitions keep the fields of slot.Definition; lists whose order        *)
(* nothing depends on are sets, and a section is a record of its own.       *)
(****************************************************************************)
EXTENDS SlotFeatures, SlotGame, SequencesExt

CONSTANTS DefaultLimit,    \* of cascades and of free spins: 100 in the code
          Names            \* the strings an author can write

NoName == ""               \* an empty string: left out

ASSUME DefinitionAssumption ==
    /\ DefaultLimit \in 1..MaxInt
    /\ Symbols \subseteq Names
    /\ {NoName, "ways", "base", "fixed", "reset_each_spin", "cap_only"}
          \subseteq Names

\* What an author can write: numbers of a machine integer's width, any names.
\* Symbols are the names an author gives symbols.
WrittenSymbol ==
    [id : Symbols \cup {NoName}, kind : Names, pays : Seq(Integer),
     substitutes : SUBSET Names, cannot : SUBSET Names]

RawDefinition(d) ==
    /\ d \in [id : Names, version : Names,
              reels : Integer, rows : Integer,
              minRows : Integer, maxRows : Integer, variableRows : BOOLEAN,
              mechanic : Names, minMatch : Integer,
              symbols : Seq(WrittenSymbol),
              wilds : SUBSET Names, substitutes : SUBSET Names,
              cannot : SUBSET Names, scatter : Names,
              thresholds :
                 Seq([count : Integer, payout : Integer, award : Integer]),
              reelSets : {d.reelSets}, baseReelSet : Names,
              cascade : [enabled : BOOLEAN, max : Integer, mode : Names,
                         fixed : Integer, step : Integer, table : Seq(Integer)],
              free : [enabled : BOOLEAN, reelSet : Names, max : Integer,
                      policy : Names, retrigger : BOOLEAN],
              features : Seq([id : Names, enabled : BOOLEAN]),
              cap : Integer, capPolicy : Names]
    /\ d.reelSets \in [DOMAIN d.reelSets -> Seq(Seq(Names))]

------------------------------------------------------------------------------
(* ValidateDefinition's checks, in its order.                                *)

ValidGrid(d) ==
    /\ d.reels > 0
    /\ IF d.variableRows THEN d.minRows > 0 /\ d.maxRows >= d.minRows
                         ELSE d.rows > 0

MinRows(d) == IF d.variableRows THEN d.minRows ELSE d.rows
MaxRows(d) == IF d.variableRows THEN d.maxRows ELSE d.rows

ValidMechanic(d) == d.mechanic \in {NoName, "ways"} /\ d.minMatch \in 1..d.reels

SymbolsOf(d)      == ToSet(d.symbols)
Ids(d)            == {s.id : s \in SymbolsOf(d)}
OfKind(d, kinds)  == {s.id : s \in {t \in SymbolsOf(d) : t.kind \in kinds}}

ValidSymbols(d) ==
    /\ d.symbols # <<>> /\ NoName \notin Ids(d)
    /\ Cardinality(Ids(d)) = Len(d.symbols)
    /\ \A s \in SymbolsOf(d) :
          /\ s.kind \in Kinds
          /\ s.kind = "regular" => /\ Len(s.pays) = d.reels + 1
                                   /\ \A n \in DOMAIN s.pays : s.pays[n] >= 0
          /\ s.kind = "wild" => Len(s.pays) \in {0, d.reels + 1}

\* What a wild may be told to stand in for: anything but scatters and bonuses;
\* a wild too, to no effect.
Targets(d) == OfKind(d, {"regular", "wild"})

ValidWilds(d) ==
    /\ d.wilds \subseteq OfKind(d, {"wild"})
    /\ d.substitutes \subseteq Targets(d) /\ d.cannot \subseteq Ids(d)
    /\ \A s \in SymbolsOf(d) : s.kind = "wild" =>
          s.substitutes \subseteq Targets(d) /\ s.cannot \subseteq Ids(d)

ValidScatter(d) ==
    /\ d.scatter # NoName => d.scatter \in OfKind(d, {"scatter"})
    /\ \A t \in ToSet(d.thresholds) : t.count > 0 /\ t.payout >= 0

\* Mutation: strips of any length.
ValidReelSetsOfAnyLength(d) ==
    /\ DOMAIN d.reelSets # {}
    /\ \A name \in DOMAIN d.reelSets :
          /\ Len(d.reelSets[name]) = d.reels
          /\ \A strip \in ToSet(d.reelSets[name]) : ToSet(strip) \subseteq Ids(d)

ValidReelSets(d) ==
    /\ DOMAIN d.reelSets # {}
    /\ \A name \in DOMAIN d.reelSets :
          /\ Len(d.reelSets[name]) = d.reels
          /\ \A strip \in ToSet(d.reelSets[name]) :
                Len(strip) >= MinRows(d) /\ ToSet(strip) \subseteq Ids(d)

BaseReelSet(d) == IF d.baseReelSet = NoName THEN "base" ELSE d.baseReelSet

ValidCascade(d) ==
    d.cascade.enabled =>
        /\ d.cascade.mode \in {NoName, "fixed", "incremental", "table"}
        /\ d.cascade.mode = "incremental" => d.cascade.step >= 0
        /\ d.cascade.mode = "table" =>
              d.cascade.table # <<>> /\ \A m \in ToSet(d.cascade.table) : m > 0

Policies == {"reset_each_spin", "persistent", "custom"}

ValidFreeSpins(d) ==
    d.free.enabled =>
        /\ d.free.reelSet \in DOMAIN d.reelSets \cup {NoName}
        /\ d.free.policy \in Policies \cup {NoName}

FeatureIds(d) == {f.id : f \in ToSet(d.features)}

\* Mutation: a feature may be declared twice.
ValidFeaturesTwice(d) == NoName \notin FeatureIds(d)

ValidFeatures(d) ==
    NoName \notin FeatureIds(d) /\ Cardinality(FeatureIds(d)) = Len(d.features)

CapPolicies == {"cap_only", "terminate_feature", "terminate_session"}

ValidCap(d) == d.cap >= 0 /\ d.capPolicy \in CapPolicies \cup {NoName}

Valid(d) ==
    /\ d.id # NoName /\ d.version # NoName
    /\ ValidGrid(d) /\ ValidMechanic(d) /\ ValidSymbols(d) /\ ValidWilds(d)
    /\ ValidScatter(d) /\ ValidReelSets(d) /\ BaseReelSet(d) \in DOMAIN d.reelSets
    /\ ValidCascade(d) /\ ValidFreeSpins(d) /\ ValidFeatures(d) /\ ValidCap(d)

------------------------------------------------------------------------------
(* The defaults it fills in.                                                 *)

\* Mutation: whatever is not a regular symbol is taken for a wild.
FilledWildsByExclusion(d) ==
    IF d.wilds # {} THEN d.wilds ELSE Ids(d) \ OfKind(d, {"regular"})

FilledWilds(d) == IF d.wilds # {} THEN d.wilds ELSE OfKind(d, {"wild"})

Limit(n) == IF n <= 0 THEN DefaultLimit ELSE n

FilledCascade(c) ==
    LET mode == IF c.mode = NoName THEN "fixed" ELSE c.mode IN
    IF ~c.enabled THEN c
    ELSE [c EXCEPT !.max = Limit(@), !.mode = mode,
                   !.fixed = IF mode = "fixed" /\ @ <= 0 THEN Scale ELSE @]

FilledFreeSpins(f) ==
    IF ~f.enabled THEN f
    ELSE [f EXCEPT !.max = Limit(@),
                   !.policy = IF @ = NoName THEN "reset_each_spin" ELSE @]

Filled(d) ==
    [d EXCEPT !.minRows = MinRows(d), !.maxRows = MaxRows(d),
              !.mechanic = "ways", !.wilds = FilledWilds(d),
              !.baseReelSet = BaseReelSet(d),
              !.cascade = FilledCascade(@), !.free = FilledFreeSpins(@),
              !.capPolicy = IF d.cap > 0 /\ @ = NoName THEN "cap_only" ELSE @]

\* wildSubstitutions: what each wild stands in for.  A symbol's own list, if it
\* has one, replaces the game's; the game's is every regular symbol by default.
Substituted(d, wild) ==
    LET s       == CHOOSE t \in SymbolsOf(d) : t.id = wild
        regular == OfKind(d, {"regular"})
        global  == IF d.substitutes = {} THEN regular ELSE d.substitutes
        allowed == IF s.substitutes = {} THEN global ELSE s.substitutes
    IN  (regular \cap allowed) \ (d.cannot \cup s.cannot)

------------------------------------------------------------------------------
(* What the other modules know of a definition.                              *)

\* A limit nobody reads is 0, a mode nobody reads is fixed.
SpinView(d, hooks) ==
    [features       |-> hooks,
     cap            |-> d.cap,
     policy         |-> IF d.capPolicy = NoName THEN "cap_only" ELSE d.capPolicy,
     cascadeEnabled |-> d.cascade.enabled,
     maxCascades    |-> IF d.cascade.enabled THEN d.cascade.max ELSE 0,
     cascadeMode    |-> IF d.cascade.enabled THEN d.cascade.mode ELSE "fixed",
     fixed          |-> d.cascade.fixed,
     step           |-> d.cascade.step,
     table          |-> d.cascade.table,
     freeEnabled    |-> d.free.enabled,
     maxSpins       |-> IF d.free.enabled THEN d.free.max ELSE 0,
     retrigger      |-> d.free.retrigger,
     freeReels      |-> CASE d.free.reelSet = NoName -> NoName
                          [] d.free.reelSet = d.baseReelSet -> "base"
                          [] OTHER -> "free",
     persistent     |-> d.free.policy = "persistent"]

\* The evaluator counts matches from one, pays what is positive, and looks at
\* the payouts of regular symbols and wilds only.
GridView(d, name) ==
    LET Pays(s) == IF s.pays = <<>> \/ s.kind \notin {"regular", "wild"} THEN <<>>
                   ELSE [n \in 1..d.reels |-> IF s.pays[n + 1] > 0
                                              THEN s.pays[n + 1] ELSE 0]
    IN  [strips      |-> d.reelSets[name],
         rows        |-> d.minRows..d.maxRows,
         minMatch    |-> d.minMatch,
         catalog     |-> [i \in DOMAIN d.symbols |->
                            [id |-> d.symbols[i].id, kind |-> d.symbols[i].kind,
                             pays |-> Pays(d.symbols[i])]],
         substitutes |-> [s \in Symbols |->
                            {w \in d.wilds : s \in Substituted(d, w)}],
         scatters    |-> IF d.scatter = NoName THEN OfKind(d, {"scatter"})
                         ELSE {d.scatter},
         thresholds  |-> d.thresholds,
         maxCascades |-> IF d.cascade.enabled THEN d.cascade.max ELSE 0]
==============================================================================
