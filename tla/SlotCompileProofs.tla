-------------------------- MODULE SlotCompileProofs --------------------------
(****************************************************************************)
(* For every definition an author can write and every list of modules:      *)
(* what passes validation is a game the engine can play, no feature is run  *)
(* twice, and the definition a game keeps is the author's with the defaults *)
(* filled in for as long as nobody writes to what Symbol lends.             *)
(****************************************************************************)
EXTENDS SlotCompile, FiniteSetTheorems, TLAPS

------------------------------------------------------------------------------
(* Lists without repetitions.                                                *)

\* A list that names as many things as it has places names none twice.
LEMMA NoRepetition ==
    ASSUME NEW s, NEW n \in Nat, s \in [1..n -> {s[i] : i \in 1..n}],
           Cardinality({s[i] : i \in 1..n}) = n
    PROVE  \A i, j \in 1..n : s[i] = s[j] => i = j
  <1> DEFINE T == {s[i] : i \in 1..n}
  <1>1. s \in Surjection(1..n, T)
    BY DEF Surjection
  <1>2. IsFiniteSet(1..n) /\ Cardinality(1..n) = n
    BY FS_Interval
  <1>3. s \in Injection(1..n, T)
    BY <1>1, <1>2, FS_SurjSameCardinalityImpliesInj, Zenon
  <1> QED BY <1>3 DEF Injection, IsInjective

\* No two symbols of a valid definition share an id.
LEMMA IdsOnce ==
    ASSUME NEW d, RawDefinition(d), ValidSymbols(d)
    PROVE  \A i, j \in DOMAIN d.symbols :
              d.symbols[i].id = d.symbols[j].id => i = j
  <1> DEFINE n == Len(d.symbols)
             s == [i \in 1..n |-> d.symbols[i].id]
  <1>1. n \in Nat /\ DOMAIN d.symbols = 1..n
    BY DEF RawDefinition
  <1>2. Ids(d) = {s[i] : i \in 1..n}
    BY <1>1 DEF Ids, SymbolsOf, ToSet
  <1>3. Cardinality({s[i] : i \in 1..n}) = n
    BY <1>2 DEF ValidSymbols
  <1>4. \A i, j \in 1..n : s[i] = s[j] => i = j
    <2> HIDE DEF n
    <2>1. s \in [1..n -> {s[i] : i \in 1..n}]
      OBVIOUS
    <2> HIDE DEF s
    <2> QED BY <1>1, <1>3, <2>1, NoRepetition
  <1> QED BY <1>1, <1>4

\* No two features of a valid definition share an id.
LEMMA FeaturesOnce ==
    ASSUME NEW d, RawDefinition(d), ValidFeatures(d)
    PROVE  \A i, j \in DOMAIN d.features :
              d.features[i].id = d.features[j].id => i = j
  <1> DEFINE n == Len(d.features)
             s == [i \in 1..n |-> d.features[i].id]
  <1>1. n \in Nat /\ DOMAIN d.features = 1..n
    BY DEF RawDefinition
  <1>2. FeatureIds(d) = {s[i] : i \in 1..n}
    BY <1>1 DEF FeatureIds, ToSet
  <1>3. Cardinality({s[i] : i \in 1..n}) = n
    BY <1>2 DEF ValidFeatures
  <1>4. \A i, j \in 1..n : s[i] = s[j] => i = j
    <2> HIDE DEF n
    <2>1. s \in [1..n -> {s[i] : i \in 1..n}]
      OBVIOUS
    <2> HIDE DEF s
    <2> QED BY <1>1, <1>3, <2>1, NoRepetition
  <1> QED BY <1>1, <1>4

------------------------------------------------------------------------------
(* The defaults.                                                             *)

\* What the defaults leave as the author wrote it.
LEMMA FilledFields ==
    ASSUME NEW d, RawDefinition(d)
    PROVE  LET e == Filled(d) IN
           /\ e.id = d.id /\ e.version = d.version /\ e.reels = d.reels
           /\ e.rows = d.rows /\ e.variableRows = d.variableRows
           /\ e.minMatch = d.minMatch /\ e.symbols = d.symbols
           /\ e.substitutes = d.substitutes /\ e.cannot = d.cannot
           /\ e.scatter = d.scatter /\ e.thresholds = d.thresholds
           /\ e.reelSets = d.reelSets /\ e.features = d.features
           /\ e.cap = d.cap
           /\ e.minRows = MinRows(d) /\ e.maxRows = MaxRows(d)
           /\ e.mechanic = "ways" /\ e.wilds = FilledWilds(d)
           /\ e.baseReelSet = BaseReelSet(d)
           /\ e.cascade = FilledCascade(d.cascade)
           /\ e.free = FilledFreeSpins(d.free)
           /\ e.capPolicy = IF d.cap > 0 /\ d.capPolicy = NoName
                            THEN "cap_only" ELSE d.capPolicy
  BY DEF RawDefinition, Filled

\* The range of a machine integer holds every default.
LEMMA IntegersAre ==
    /\ Integer \subseteq Int /\ 0 \in Integer /\ Scale \in Integer
    /\ \A n \in Integer : n >= 0 => n \in Multiplier
    /\ Multiplier \subseteq Integer
    /\ Scale > 0 /\ DefaultLimit > 0 /\ DefaultLimit \in Integer
  BY MoneyAssumption, DefinitionAssumption DEF Integer, MinInt, Multiplier

\* A limit left out is replaced, and one that is given is kept.
LEMMA LimitIs ==
    ASSUME NEW n \in Integer
    PROVE  /\ Limit(n) \in Integer /\ Limit(n) > 0
           /\ Limit(Limit(n)) = Limit(n)
  BY IntegersAre DEF Limit

CascadeSection ==
    [enabled : BOOLEAN, max : Integer, mode : Names, fixed : Integer,
     step : Integer, table : Seq(Integer)]

FreeSection ==
    [enabled : BOOLEAN, reelSet : Names, max : Integer, policy : Names,
     retrigger : BOOLEAN]

\* The sections of a definition are well typed.
LEMMA SectionsAre ==
    ASSUME NEW d, RawDefinition(d)
    PROVE  d.cascade \in CascadeSection /\ d.free \in FreeSection
  BY DEF RawDefinition, CascadeSection, FreeSection

\* The mode and the multiplier filled in for it.
ModeOf(b) == IF b.mode = NoName THEN "fixed" ELSE b.mode
FixedOf(b) == IF ModeOf(b) = "fixed" /\ b.fixed <= 0 THEN Scale ELSE b.fixed

\* What the defaults make of a cascade section.
LEMMA CascadeFilled ==
    ASSUME NEW b \in CascadeSection,
           b.enabled => b.mode \in {NoName, "fixed", "incremental", "table"}
    PROVE  LET c == FilledCascade(b) IN
           /\ c \in CascadeSection
           /\ c.enabled = b.enabled /\ c.step = b.step /\ c.table = b.table
           /\ c.enabled => /\ c.max > 0
                           /\ c.mode \in {"fixed", "incremental", "table"}
                           /\ c.mode = b.mode \/ c.mode = "fixed"
                           /\ c.mode = "fixed" => c.fixed > 0
           /\ FilledCascade(c) = c
  <1>1. b.max \in Integer /\ b.mode \in Names /\ b.fixed \in Integer
    BY DEF CascadeSection
  <1>2. /\ Limit(b.max) \in Integer /\ Limit(b.max) > 0
        /\ Limit(Limit(b.max)) = Limit(b.max)
    BY <1>1, LimitIs
  <1>3. /\ FixedOf(b) \in Integer /\ ModeOf(b) \in Names
        /\ ModeOf(b) = "fixed" => FixedOf(b) > 0
        /\ ModeOf(b) = b.mode \/ ModeOf(b) = "fixed"
    <2>1. ModeOf(b) \in Names /\ (ModeOf(b) = b.mode \/ ModeOf(b) = "fixed")
      BY <1>1, DefinitionAssumption DEF ModeOf
    <2>2. FixedOf(b) \in Integer /\ (ModeOf(b) = "fixed" => FixedOf(b) > 0)
      <3>1. b.fixed \in Int /\ Scale \in Int /\ Scale > 0 /\ Scale \in Integer
        BY <1>1, IntegersAre
      <3> QED BY <1>1, <3>1 DEF FixedOf
    <2> QED BY <2>1, <2>2
  <1>4. CASE ~b.enabled
    <2>1. FilledCascade(b) = b
      BY <1>4 DEF FilledCascade
    <2>2. FilledCascade(FilledCascade(b)) = FilledCascade(b)
      BY <2>1
    <2> QED BY <1>4, <2>1, <2>2
  <1>5. CASE b.enabled
    <2> DEFINE c == [b EXCEPT !.max = Limit(b.max), !.mode = ModeOf(b),
                              !.fixed = FixedOf(b)]
    <2>1. FilledCascade(b) = c
      BY <1>5 DEF FilledCascade, ModeOf, FixedOf, CascadeSection
    <2>2. ModeOf(b) \in {"fixed", "incremental", "table"}
      BY <1>5 DEF ModeOf
    <2>3. /\ c.enabled = TRUE /\ c.step = b.step /\ c.table = b.table
          /\ c.max = Limit(b.max) /\ c.mode = ModeOf(b)
          /\ c.fixed = FixedOf(b)
          /\ c \in CascadeSection
      BY <1>2, <1>3, <1>5 DEF CascadeSection
    <2> HIDE DEF c
    <2>4. ModeOf(c) = c.mode /\ FixedOf(c) = c.fixed
      <3>1. ModeOf(c) = c.mode
        BY <2>2, <2>3 DEF ModeOf, NoName
      <3>2. c.fixed \in Int /\ (c.mode = "fixed" => c.fixed > 0)
        BY <1>3, <2>3, IntegersAre
      <3> QED BY <3>1, <3>2 DEF FixedOf
    <2>5. FilledCascade(c) = [c EXCEPT !.max = Limit(c.max),
                                       !.mode = ModeOf(c),
                                       !.fixed = FixedOf(c)]
      BY <2>3 DEF FilledCascade, ModeOf, FixedOf, CascadeSection
    <2>6. Limit(c.max) = c.max
      BY <1>2, <2>3
    <2>7. [c EXCEPT !.max = c.max, !.mode = c.mode, !.fixed = c.fixed] = c
      BY <2>3 DEF CascadeSection
    <2>8. FilledCascade(c) = c
      BY <2>4, <2>5, <2>6, <2>7
    <2> QED BY <1>2, <1>3, <1>5, <2>1, <2>2, <2>3, <2>8
  <1> QED BY <1>4, <1>5

\* What the defaults make of a free-spin section.
LEMMA FreeSpinsFilled ==
    ASSUME NEW b \in FreeSection, b.enabled => b.policy \in Policies \cup {NoName}
    PROVE  LET f == FilledFreeSpins(b) IN
           /\ f \in FreeSection
           /\ f.enabled = b.enabled /\ f.reelSet = b.reelSet
           /\ f.retrigger = b.retrigger
           /\ f.enabled => f.max > 0 /\ f.policy \in Policies
           /\ FilledFreeSpins(f) = f
  <1> DEFINE p == IF b.policy = NoName THEN "reset_each_spin" ELSE b.policy
  <1>1. b.max \in Integer /\ b.policy \in Names
    BY DEF FreeSection
  <1>2. /\ Limit(b.max) \in Integer /\ Limit(b.max) > 0
        /\ Limit(Limit(b.max)) = Limit(b.max)
    BY <1>1, LimitIs
  <1>3. CASE ~b.enabled
    <2>1. FilledFreeSpins(b) = b
      BY <1>3 DEF FilledFreeSpins
    <2>2. FilledFreeSpins(FilledFreeSpins(b)) = FilledFreeSpins(b)
      BY <2>1
    <2> QED BY <1>3, <2>1, <2>2
  <1>4. CASE b.enabled
    <2> DEFINE f == [b EXCEPT !.max = Limit(b.max), !.policy = p]
    <2>1. FilledFreeSpins(b) = f
      BY <1>4 DEF FilledFreeSpins, FreeSection
    <2>2. p \in Policies /\ p \in Names /\ p # NoName
      <3>1. p = b.policy \/ p = "reset_each_spin"
        OBVIOUS
      <3>2. p \in Policies
        BY <1>4, <3>1 DEF Policies
      <3> HIDE DEF p
      <3> QED BY <1>1, <3>1, <3>2, DefinitionAssumption DEF Policies, NoName
    <2> HIDE DEF p
    <2>3. /\ f.enabled = TRUE /\ f.reelSet = b.reelSet
          /\ f.retrigger = b.retrigger
          /\ f.max = Limit(b.max) /\ f.policy = p
          /\ f \in FreeSection
      BY <1>2, <1>4, <2>2 DEF FreeSection
    <2> HIDE DEF f
    <2>4. FilledFreeSpins(f) = [f EXCEPT !.max = f.max, !.policy = f.policy]
      BY <1>2, <2>2, <2>3 DEF FilledFreeSpins, FreeSection
    <2>5. [f EXCEPT !.max = f.max, !.policy = f.policy] = f
      BY <2>3 DEF FreeSection
    <2> QED BY <1>2, <1>4, <2>1, <2>2, <2>3, <2>4, <2>5
  <1> QED BY <1>3, <1>4

\* What the defaults leave alone in a definition.
LEMMA FilledTyped ==
    ASSUME NEW d, RawDefinition(d), Valid(d)
    PROVE  /\ Filled(d) = [Filled(d) EXCEPT !.minRows = Filled(d).minRows]
           /\ MinRows(Filled(d)) = MinRows(d)
           /\ MaxRows(Filled(d)) = MaxRows(d)
           /\ Ids(Filled(d)) = Ids(d)
           /\ \A kinds : OfKind(Filled(d), kinds) = OfKind(d, kinds)
           /\ FilledWilds(Filled(d)) = FilledWilds(d)
           /\ BaseReelSet(Filled(d)) = BaseReelSet(d)
  <1> DEFINE e == Filled(d)
  <1>1. /\ e.symbols = d.symbols /\ e.variableRows = d.variableRows
        /\ e.rows = d.rows
        /\ e.minRows = MinRows(d) /\ e.maxRows = MaxRows(d)
        /\ e.wilds = FilledWilds(d) /\ e.baseReelSet = BaseReelSet(d)
    BY FilledFields
  <1>2. Filled(d) = [Filled(d) EXCEPT !.minRows = Filled(d).minRows]
    BY DEF RawDefinition, Filled
  <1> HIDE DEF e
  <1>3. MinRows(e) = MinRows(d) /\ MaxRows(e) = MaxRows(d)
    BY <1>1 DEF MinRows, MaxRows
  <1>4. Ids(e) = Ids(d) /\ \A kinds : OfKind(e, kinds) = OfKind(d, kinds)
    BY <1>1 DEF Ids, OfKind, SymbolsOf
  <1>5. FilledWilds(e) = FilledWilds(d)
    BY <1>1, <1>4 DEF FilledWilds
  <1>6. BaseReelSet(e) = BaseReelSet(d)
    BY <1>1 DEF BaseReelSet, NoName
  <1> QED BY <1>2, <1>3, <1>4, <1>5, <1>6 DEF e

\* The symbols Ids and OfKind name.
LEMMA IdsAre ==
    ASSUME NEW d, RawDefinition(d)
    PROVE  /\ \A s \in SymbolsOf(d) : s \in WrittenSymbol
           /\ Ids(d) \subseteq Symbols \cup {NoName}
           /\ \A kinds : OfKind(d, kinds) \subseteq Ids(d)
           /\ Ids(d) \subseteq Names
  <1>1. \A s \in SymbolsOf(d) : s \in WrittenSymbol
    <2>1. d.symbols \in Seq(WrittenSymbol)
      BY DEF RawDefinition
    <2> QED BY <2>1 DEF SymbolsOf, ToSet
  <1>2. \A s \in SymbolsOf(d) : s.id \in Symbols \cup {NoName}
    BY <1>1 DEF WrittenSymbol
  <1>3. Ids(d) \subseteq Symbols \cup {NoName}
    BY <1>2 DEF Ids
  <1>4. Ids(d) \subseteq Names
    BY <1>3, DefinitionAssumption
  <1>5. \A kinds : OfKind(d, kinds) \subseteq Ids(d)
    BY DEF OfKind, Ids
  <1> QED BY <1>1, <1>3, <1>4, <1>5

\* A definition with its defaults filled in is one a caller could have written.
LEMMA FilledIsRaw ==
    ASSUME NEW d, RawDefinition(d), Valid(d)
    PROVE  RawDefinition(Filled(d))
  <1>1. FilledCascade(d.cascade) \in CascadeSection
    BY SectionsAre, CascadeFilled DEF Valid, ValidCascade
  <1>2. FilledFreeSpins(d.free) \in FreeSection
    BY SectionsAre, FreeSpinsFilled DEF Valid, ValidFreeSpins
  <1>3. FilledWilds(d) \in SUBSET Names
    <2>1. d.wilds \in SUBSET Names
      BY DEF RawDefinition
    <2> QED BY <2>1, IdsAre DEF FilledWilds
  <1>4. MinRows(d) \in Integer /\ MaxRows(d) \in Integer
    BY DEF RawDefinition, MinRows, MaxRows
  <1>5. BaseReelSet(d) \in Names /\ "ways" \in Names
    BY DefinitionAssumption DEF RawDefinition, BaseReelSet
  <1>6. (IF d.cap > 0 /\ d.capPolicy = NoName THEN "cap_only"
                                             ELSE d.capPolicy) \in Names
    <2>1. d.capPolicy \in Names /\ "cap_only" \in Names
      BY DefinitionAssumption DEF RawDefinition
    <2> QED BY <2>1
  <1> DEFINE e == [d EXCEPT !.minRows = MinRows(d), !.maxRows = MaxRows(d),
                            !.mechanic = "ways", !.wilds = FilledWilds(d),
                            !.baseReelSet = BaseReelSet(d),
                            !.cascade = FilledCascade(d.cascade),
                            !.free = FilledFreeSpins(d.free),
                            !.capPolicy = IF d.cap > 0 /\ d.capPolicy = NoName
                                          THEN "cap_only" ELSE d.capPolicy]
  <1>7. Filled(d) = e
    BY DEF RawDefinition, Filled
  <1>8. e.reelSets = d.reelSets
    BY <1>7, FilledFields
  <1>9. RawDefinition(e)
    BY <1>1, <1>2, <1>3, <1>4, <1>5, <1>6, <1>8
       DEF RawDefinition, CascadeSection, FreeSection
  <1> QED BY <1>7, <1>9

\* Filling the defaults in once more changes nothing.
LEMMA FilledOnce ==
    ASSUME NEW d, RawDefinition(d), Valid(d)
    PROVE  Filled(Filled(d)) = Filled(d)
  <1> DEFINE e == Filled(d)
  <1>1. /\ MinRows(e) = e.minRows /\ MaxRows(e) = e.maxRows
        /\ e.mechanic = "ways"
        /\ FilledWilds(e) = e.wilds /\ BaseReelSet(e) = e.baseReelSet
    BY FilledFields, FilledTyped
  <1>2. /\ FilledCascade(e.cascade) = e.cascade
        /\ FilledFreeSpins(e.free) = e.free
    <2>1. /\ e.cascade = FilledCascade(d.cascade)
          /\ e.free = FilledFreeSpins(d.free)
      BY FilledFields
    <2>2. /\ FilledCascade(FilledCascade(d.cascade)) = FilledCascade(d.cascade)
          /\ FilledFreeSpins(FilledFreeSpins(d.free)) = FilledFreeSpins(d.free)
      BY SectionsAre, CascadeFilled, FreeSpinsFilled
         DEF Valid, ValidCascade, ValidFreeSpins
    <2> QED BY <2>1, <2>2
  <1>3. (IF e.cap > 0 /\ e.capPolicy = NoName THEN "cap_only" ELSE e.capPolicy)
           = e.capPolicy
    BY FilledFields DEF NoName
  <1>4. RawDefinition(e)
    BY FilledIsRaw
  <1> HIDE DEF e
  <1>5. Filled(e) = [e EXCEPT !.minRows = e.minRows, !.maxRows = e.maxRows,
                              !.mechanic = e.mechanic, !.wilds = e.wilds,
                              !.baseReelSet = e.baseReelSet,
                              !.cascade = e.cascade, !.free = e.free,
                              !.capPolicy = e.capPolicy]
    BY <1>1, <1>2, <1>3, <1>4 DEF RawDefinition, Filled
  <1>6. Filled(e) = e
    BY <1>4, <1>5 DEF RawDefinition
  <1> QED BY <1>6 DEF e

\* ... and what was filled in passes validation.
LEMMA FilledIsValid ==
    ASSUME NEW d, RawDefinition(d), Valid(d)
    PROVE  Valid(Filled(d))
  <1> DEFINE e == Filled(d)
  <1>0. /\ e.id = d.id /\ e.version = d.version /\ e.reels = d.reels
        /\ e.rows = d.rows /\ e.variableRows = d.variableRows
        /\ e.minMatch = d.minMatch /\ e.symbols = d.symbols
        /\ e.substitutes = d.substitutes /\ e.cannot = d.cannot
        /\ e.scatter = d.scatter /\ e.thresholds = d.thresholds
        /\ e.reelSets = d.reelSets /\ e.features = d.features
        /\ e.cap = d.cap
        /\ e.minRows = MinRows(d) /\ e.maxRows = MaxRows(d)
        /\ e.mechanic = "ways" /\ e.wilds = FilledWilds(d)
        /\ e.baseReelSet = BaseReelSet(d)
        /\ e.cascade = FilledCascade(d.cascade)
        /\ e.free = FilledFreeSpins(d.free)
        /\ e.capPolicy = IF d.cap > 0 /\ d.capPolicy = NoName
                         THEN "cap_only" ELSE d.capPolicy
    BY FilledFields
  <1>1. /\ MinRows(e) = MinRows(d) /\ MaxRows(e) = MaxRows(d)
        /\ Ids(e) = Ids(d) /\ \A kinds : OfKind(e, kinds) = OfKind(d, kinds)
        /\ BaseReelSet(e) = BaseReelSet(d)
    BY FilledTyped
  <1> HIDE DEF e
  <1>2. SymbolsOf(e) = SymbolsOf(d)
    BY <1>0 DEF SymbolsOf
  <1>3. ValidGrid(e)
    BY <1>0 DEF Valid, ValidGrid, MinRows, MaxRows
  <1>4. ValidMechanic(e)
    BY <1>0 DEF Valid, ValidMechanic
  <1>5. ValidSymbols(e)
    BY <1>0, <1>1, <1>2 DEF Valid, ValidSymbols
  <1>6. ValidWilds(e)
    <2>1. e.wilds \subseteq OfKind(d, {"wild"})
      BY <1>0 DEF Valid, ValidWilds, FilledWilds
    <2>2. Targets(e) = Targets(d)
      BY <1>1 DEF Targets
    <2> QED BY <1>0, <1>1, <1>2, <2>1, <2>2 DEF Valid, ValidWilds
  <1>7. ValidScatter(e)
    BY <1>0, <1>1 DEF Valid, ValidScatter
  <1>8. ValidReelSets(e) /\ BaseReelSet(e) \in DOMAIN e.reelSets
    BY <1>0, <1>1 DEF Valid, ValidReelSets
  <1>9. ValidCascade(e)
    <2>1. d.cascade \in CascadeSection /\ e.cascade \in CascadeSection
      BY <1>0, SectionsAre, CascadeFilled DEF Valid, ValidCascade
    <2>2. /\ e.cascade.enabled = d.cascade.enabled
          /\ e.cascade.step = d.cascade.step
          /\ e.cascade.table = d.cascade.table
          /\ e.cascade.enabled =>
                /\ e.cascade.mode \in {"fixed", "incremental", "table"}
                /\ e.cascade.mode = d.cascade.mode \/ e.cascade.mode = "fixed"
      BY <1>0, <2>1, CascadeFilled DEF Valid, ValidCascade
    <2> QED BY <2>2 DEF Valid, ValidCascade
  <1>10. ValidFreeSpins(e)
    <2>1. d.free \in FreeSection
      BY SectionsAre
    <2>2. /\ e.free.enabled = d.free.enabled
          /\ e.free.reelSet = d.free.reelSet
          /\ e.free.enabled => e.free.policy \in Policies
      BY <1>0, <2>1, FreeSpinsFilled DEF Valid, ValidFreeSpins
    <2> QED BY <1>0, <2>2 DEF Valid, ValidFreeSpins
  <1>11. ValidFeatures(e)
    BY <1>0 DEF Valid, ValidFeatures, FeatureIds
  <1>12. ValidCap(e)
    BY <1>0 DEF Valid, ValidCap, CapPolicies
  <1> QED BY <1>0, <1>3, <1>4, <1>5, <1>6, <1>7, <1>8, <1>9, <1>10, <1>11,
             <1>12 DEF Valid, e

------------------------------------------------------------------------------
(* A compiled game, as far as callers cannot change it.                      *)

\* The catalog, whatever was written to the substitution lists.
SameSymbols(t, s) ==
    /\ t \in Seq(WrittenSymbol)
    /\ Len(t) = Len(s)
    /\ \A i \in 1..Len(s) :
          t[i].id = s[i].id /\ t[i].kind = s[i].kind /\ t[i].pays = s[i].pays

KeptGame(d, g) ==
    /\ g = [Filled(d) EXCEPT !.symbols = g.symbols]
    /\ SameSymbols(g.symbols, d.symbols)

\* Which fields the compiled game shares with the definition.
LEMMA KeptFields ==
    ASSUME NEW d, RawDefinition(d), Valid(d), NEW g, KeptGame(d, g)
    PROVE  /\ RawDefinition(g)
           /\ g.id = d.id /\ g.version = d.version /\ g.reels = d.reels
           /\ g.minMatch = d.minMatch /\ g.scatter = d.scatter
           /\ g.thresholds = d.thresholds /\ g.reelSets = d.reelSets
           /\ g.cap = d.cap
           /\ g.minRows = MinRows(d) /\ g.maxRows = MaxRows(d)
           /\ g.wilds = FilledWilds(d)
           /\ g.baseReelSet = BaseReelSet(d)
           /\ g.cascade = FilledCascade(d.cascade)
           /\ g.free = FilledFreeSpins(d.free)
           /\ g.capPolicy = IF d.cap > 0 /\ d.capPolicy = NoName
                            THEN "cap_only" ELSE d.capPolicy
           /\ Ids(g) = Ids(d)
           /\ \A kinds : OfKind(g, kinds) = OfKind(d, kinds)
  <1> DEFINE e == Filled(d)
  <1>1. RawDefinition(e)
    BY FilledIsRaw
  <1>2. /\ e.id = d.id /\ e.version = d.version /\ e.reels = d.reels
        /\ e.minMatch = d.minMatch /\ e.scatter = d.scatter
        /\ e.thresholds = d.thresholds /\ e.reelSets = d.reelSets
        /\ e.cap = d.cap
        /\ e.minRows = MinRows(d) /\ e.maxRows = MaxRows(d)
        /\ e.wilds = FilledWilds(d)
        /\ e.baseReelSet = BaseReelSet(d)
        /\ e.cascade = FilledCascade(d.cascade)
        /\ e.free = FilledFreeSpins(d.free)
        /\ e.capPolicy = IF d.cap > 0 /\ d.capPolicy = NoName
                         THEN "cap_only" ELSE d.capPolicy
    BY FilledFields
  <1>3. g = [e EXCEPT !.symbols = g.symbols] /\ g.symbols \in Seq(WrittenSymbol)
    BY DEF KeptGame, SameSymbols
  <1> HIDE DEF e
  <1>4. /\ g.id = e.id /\ g.version = e.version /\ g.reels = e.reels
        /\ g.minMatch = e.minMatch /\ g.scatter = e.scatter
        /\ g.thresholds = e.thresholds /\ g.reelSets = e.reelSets
        /\ g.cap = e.cap /\ g.minRows = e.minRows /\ g.maxRows = e.maxRows
        /\ g.wilds = e.wilds /\ g.baseReelSet = e.baseReelSet
        /\ g.cascade = e.cascade /\ g.free = e.free
        /\ g.capPolicy = e.capPolicy
    BY <1>1, <1>3 DEF RawDefinition
  <1>5. RawDefinition(g)
    BY <1>1, <1>3, <1>4 DEF RawDefinition
  <1>6. Len(d.symbols) \in Nat /\ DOMAIN d.symbols = 1..Len(d.symbols)
        /\ DOMAIN g.symbols = 1..Len(d.symbols)
    BY <1>3 DEF RawDefinition, KeptGame, SameSymbols
  <1>7. \A i \in 1..Len(d.symbols) : /\ g.symbols[i].id = d.symbols[i].id
                                     /\ g.symbols[i].kind = d.symbols[i].kind
    BY DEF KeptGame, SameSymbols
  <1>8. Ids(g) = {g.symbols[i].id : i \in 1..Len(d.symbols)}
    BY <1>6 DEF Ids, SymbolsOf, ToSet
  <1>9. Ids(d) = {d.symbols[i].id : i \in 1..Len(d.symbols)}
    BY <1>6 DEF Ids, SymbolsOf, ToSet
  <1>10. ASSUME NEW kinds PROVE OfKind(g, kinds) = OfKind(d, kinds)
    <2>1. OfKind(g, kinds) = {g.symbols[i].id : i \in
             {j \in 1..Len(d.symbols) : g.symbols[j].kind \in kinds}}
      BY <1>6 DEF OfKind, SymbolsOf, ToSet
    <2>2. OfKind(d, kinds) = {d.symbols[i].id : i \in
             {j \in 1..Len(d.symbols) : d.symbols[j].kind \in kinds}}
      BY <1>6 DEF OfKind, SymbolsOf, ToSet
    <2> QED BY <1>7, <2>1, <2>2
  <1>11. Ids(g) = Ids(d)
    BY <1>7, <1>8, <1>9
  <1> QED BY <1>2, <1>4, <1>5, <1>10, <1>11

\* The engine can play it.
LEMMA KeptPlays ==
    ASSUME NEW d, RawDefinition(d), Valid(d), NEW g, KeptGame(d, g),
           NEW h \in Seq(FeatureNames)
    PROVE  SpinView(g, h) \in Definition
  <1>1. /\ g.cap = d.cap
        /\ g.cascade = FilledCascade(d.cascade)
        /\ g.free = FilledFreeSpins(d.free)
        /\ g.capPolicy = IF d.cap > 0 /\ d.capPolicy = NoName
                         THEN "cap_only" ELSE d.capPolicy
    BY KeptFields
  <1>2. /\ d.cascade \in CascadeSection /\ d.free \in FreeSection
        /\ d.cap \in Integer
    BY SectionsAre DEF RawDefinition
  <1>3. /\ g.cascade \in CascadeSection
        /\ g.cascade.step = d.cascade.step /\ g.cascade.table = d.cascade.table
        /\ g.cascade.enabled = d.cascade.enabled
        /\ g.cascade.enabled =>
              /\ g.cascade.max > 0
              /\ g.cascade.mode \in {"fixed", "incremental", "table"}
              /\ g.cascade.mode = d.cascade.mode \/ g.cascade.mode = "fixed"
              /\ g.cascade.mode = "fixed" => g.cascade.fixed > 0
    <2>1. d.cascade.enabled =>
             d.cascade.mode \in {NoName, "fixed", "incremental", "table"}
      BY DEF Valid, ValidCascade
    <2> QED BY <1>1, <1>2, <2>1, CascadeFilled
  <1>4. g.free \in FreeSection /\ (g.free.enabled => g.free.max > 0)
    <2>1. d.free.enabled => d.free.policy \in Policies \cup {NoName}
      BY DEF Valid, ValidFreeSpins
    <2> QED BY <1>1, <1>2, <2>1, FreeSpinsFilled
  <1>5. g.cap \in Multiplier
    BY <1>1, <1>2, IntegersAre DEF Valid, ValidCap
  <1> DEFINE policy == IF g.capPolicy = NoName THEN "cap_only" ELSE g.capPolicy
  <1>6. policy \in {"cap_only", "terminate_feature", "terminate_session"}
    BY <1>1 DEF Valid, ValidCap, CapPolicies
  <1> DEFINE c == g.cascade
             f == g.free
             v == SpinView(g, h)
             max == IF c.enabled THEN c.max ELSE 0
             mode == IF c.enabled THEN c.mode ELSE "fixed"
             spins == IF f.enabled THEN f.max ELSE 0
             reels == CASE f.reelSet = NoName -> NoName
                        [] f.reelSet = g.baseReelSet -> "base"
                        [] OTHER -> "free"
             persistent == f.policy = "persistent"
  <1>20. Integer \subseteq Int /\ Scale > 0
    BY IntegersAre
  <1>21. c.max \in Int /\ c.mode \in Names /\ f.max \in Int
    BY <1>3, <1>4, <1>20 DEF CascadeSection, FreeSection
  <1>7. /\ max \in Nat /\ (c.enabled => max > 0)
        /\ mode \in {"fixed", "incremental", "table"}
        /\ c.enabled => mode = c.mode
    <2>1. c.enabled => c.max > 0 /\ c.mode \in {"fixed", "incremental", "table"}
      BY <1>3
    <2> HIDE DEF c
    <2> QED BY <1>21, <2>1
  <1>8. spins \in Nat /\ (f.enabled => spins > 0)
    <2>1. f.enabled => f.max > 0
      BY <1>4
    <2> HIDE DEF f
    <2> QED BY <1>21, <2>1
  <1>9. reels \in ReelSetNames \cup {""}
    BY DEF ReelSetNames, NoName
  <1>10. c.enabled =>
            /\ mode = "fixed" => c.fixed > 0
            /\ mode = "incremental" => c.step >= 0
            /\ mode = "table" =>
                  c.table # <<>> /\ \A i \in DOMAIN c.table : c.table[i] > 0
    <2> SUFFICES ASSUME c.enabled
                 PROVE  /\ mode = "fixed" => c.fixed > 0
                        /\ mode = "incremental" => c.step >= 0
                        /\ mode = "table" => /\ c.table # <<>>
                              /\ \A i \in DOMAIN c.table : c.table[i] > 0
      OBVIOUS
    <2>1. mode = c.mode /\ (c.mode = d.cascade.mode \/ c.mode = "fixed")
          /\ (c.mode = "fixed" => c.fixed > 0)
          /\ c.step = d.cascade.step /\ c.table = d.cascade.table
          /\ d.cascade.enabled
      BY <1>3
    <2>2. /\ d.cascade.mode = "incremental" => d.cascade.step >= 0
          /\ d.cascade.mode = "table" => d.cascade.table # <<>>
               /\ \A m \in ToSet(d.cascade.table) : m > 0
      BY <2>1 DEF Valid, ValidCascade
    <2>3. \A i \in DOMAIN d.cascade.table :
             d.cascade.table[i] \in ToSet(d.cascade.table)
      BY DEF ToSet
    <2> HIDE DEF c, mode
    <2> QED BY <2>1, <2>2, <2>3
  <1>11. v = [features |-> h, cap |-> g.cap,
              policy |-> policy,
              cascadeEnabled |-> c.enabled, maxCascades |-> max,
              cascadeMode |-> mode, fixed |-> c.fixed, step |-> c.step,
              table |-> c.table, freeEnabled |-> f.enabled,
              maxSpins |-> spins, retrigger |-> f.retrigger,
              freeReels |-> reels, persistent |-> persistent]
    BY DEF SpinView
  <1>12. /\ c.enabled \in BOOLEAN /\ c.fixed \in Integer /\ c.step \in Integer
         /\ c.table \in Seq(Integer)
         /\ f.enabled \in BOOLEAN /\ f.retrigger \in BOOLEAN
    BY <1>3, <1>4 DEF CascadeSection, FreeSection
  <1>13. persistent \in BOOLEAN
    OBVIOUS
  <1> HIDE DEF c, f, v, max, mode, spins, reels, policy, persistent
  <1>14. v \in [features : Seq(FeatureNames), cap : Multiplier,
                policy : {"cap_only", "terminate_feature", "terminate_session"},
                cascadeEnabled : BOOLEAN, maxCascades : Nat,
                cascadeMode : {"fixed", "incremental", "table"},
                fixed : Integer, step : Integer, table : Seq(Integer),
                freeEnabled : BOOLEAN, maxSpins : Nat, retrigger : BOOLEAN,
                freeReels : ReelSetNames \cup {""}, persistent : BOOLEAN]
    BY <1>5, <1>6, <1>7, <1>8, <1>9, <1>11, <1>12, <1>13
  <1>15. /\ v.freeEnabled = f.enabled /\ v.maxSpins = spins
         /\ v.cascadeEnabled = c.enabled /\ v.maxCascades = max
         /\ v.cascadeMode = mode /\ v.fixed = c.fixed /\ v.step = c.step
         /\ v.table = c.table
    BY <1>11
  <1>16. v \in Definition
    BY <1>7, <1>8, <1>10, <1>14, <1>15 DEF Definition
  <1> QED BY <1>16 DEF v

\* What the evaluator sees of one symbol's payouts, and of one symbol.
PaysSeen(g, s) ==
    IF s.pays = <<>> \/ s.kind \notin {"regular", "wild"} THEN <<>>
    ELSE [n \in 1..g.reels |-> IF s.pays[n + 1] > 0 THEN s.pays[n + 1] ELSE 0]

SymbolSeen(g, s) == [id |-> s.id, kind |-> s.kind, pays |-> PaysSeen(g, s)]

\* Its payouts are one for every reel or none.
LEMMA PaysSeenAre ==
    ASSUME NEW d, RawDefinition(d), ValidSymbols(d), NEW g, g.reels = d.reels,
           NEW i \in DOMAIN d.symbols, NEW s \in WrittenSymbol,
           s.kind = d.symbols[i].kind, s.pays = d.symbols[i].pays,
           d.reels \in Nat
    PROVE  /\ PaysSeen(g, s) \in Seq(Multiplier)
           /\ Len(PaysSeen(g, s)) \in {0, d.reels}
  <1>1. s.pays \in Seq(Integer) /\ Integer \subseteq Int /\ 0 \in Integer
    BY IntegersAre DEF WrittenSymbol
  <1>2. CASE s.pays = <<>> \/ s.kind \notin {"regular", "wild"}
    BY <1>2 DEF PaysSeen
  <1>3. CASE s.pays # <<>> /\ s.kind \in {"regular", "wild"}
    <2>1. d.symbols[i] \in SymbolsOf(d)
      BY DEF SymbolsOf, ToSet
    <2>2. Len(s.pays) = d.reels + 1
      BY <1>1, <1>3, <2>1 DEF ValidSymbols
    <2> DEFINE p == [n \in 1..d.reels |-> IF s.pays[n + 1] > 0
                                          THEN s.pays[n + 1] ELSE 0]
    <2>3. PaysSeen(g, s) = p
      BY <1>3 DEF PaysSeen
    <2>4. ASSUME NEW n \in 1..d.reels
          PROVE  (IF s.pays[n + 1] > 0 THEN s.pays[n + 1] ELSE 0) \in Multiplier
      <3> DEFINE m == s.pays[n + 1]
      <3>1. n + 1 \in 1..Len(s.pays)
        BY <2>2
      <3>2. m \in Integer
        BY <1>1, <3>1
      <3> HIDE DEF m
      <3>3. m > 0 => m \in Multiplier
        <4>1. m \in Int
          BY <3>2, IntegersAre, Zenon
        <4>2. m > 0 => m >= 0
          BY <4>1
        <4> QED BY <3>2, <4>2, IntegersAre, Zenon
      <3>4. 0 \in Multiplier
        BY <1>1, IntegersAre
      <3>5. (IF m > 0 THEN m ELSE 0) \in Multiplier
        BY <3>3, <3>4
      <3> QED BY <3>5 DEF m
    <2>5. ASSUME NEW n \in 1..d.reels PROVE p[n] \in Multiplier
      <3>1. p[n] = IF s.pays[n + 1] > 0 THEN s.pays[n + 1] ELSE 0
        OBVIOUS
      <3> HIDE DEF p
      <3> QED BY <2>4, <3>1, Zenon
    <2>6. p \in [1..d.reels -> Multiplier]
      BY <2>5
    <2> HIDE DEF p
    <2>8. p \in Seq(Multiplier) /\ Len(p) = d.reels
      BY <2>6
    <2> QED BY <2>3, <2>8
  <1> QED BY <1>2, <1>3

\* What a wild stands in for is regular.
LEMMA SubstitutedIsRegular ==
    ASSUME NEW g, NEW w
    PROVE  Substituted(g, w) \subseteq OfKind(g, {"regular"})
  BY DEF Substituted

\* The game's own symbols are an author's, with the author's names and kinds.
LEMMA KeptSymbols ==
    ASSUME NEW d, RawDefinition(d), Valid(d), NEW g, KeptGame(d, g)
    PROVE  LET n == Len(d.symbols) IN
           /\ n \in Nat /\ DOMAIN d.symbols = 1..n /\ DOMAIN g.symbols = 1..n
           /\ Ids(d) \subseteq Symbols
           /\ \A i \in 1..n :
                 /\ g.symbols[i] \in WrittenSymbol
                 /\ g.symbols[i].id = d.symbols[i].id
                 /\ g.symbols[i].kind = d.symbols[i].kind
                 /\ g.symbols[i].pays = d.symbols[i].pays
                 /\ g.symbols[i].id \in Ids(d)
                 /\ g.symbols[i].kind \in Kinds
           /\ \A i, j \in 1..n : g.symbols[i].id = g.symbols[j].id => i = j
           /\ Ids(d) = {g.symbols[i].id : i \in 1..n}
  <1> DEFINE n == Len(d.symbols)
  <1>1. n \in Nat /\ DOMAIN d.symbols = 1..n /\ DOMAIN g.symbols = 1..n
    BY DEF RawDefinition, KeptGame, SameSymbols
  <1>2. \A i \in 1..n : /\ g.symbols[i] \in WrittenSymbol
                        /\ g.symbols[i].id = d.symbols[i].id
                        /\ g.symbols[i].kind = d.symbols[i].kind
                        /\ g.symbols[i].pays = d.symbols[i].pays
    BY <1>1 DEF KeptGame, SameSymbols
  <1>3. \A i \in 1..n : d.symbols[i] \in SymbolsOf(d)
    BY <1>1 DEF SymbolsOf, ToSet
  <1>4. ValidSymbols(d) /\ NoName \notin Ids(d) /\ Ids(d) \subseteq Symbols
    BY IdsAre DEF Valid, ValidSymbols
  <1>5. \A i \in 1..n : d.symbols[i].id \in Ids(d) /\ d.symbols[i].kind \in Kinds
    BY <1>3, <1>4 DEF Ids, ValidSymbols
  <1>6. \A i, j \in 1..n : d.symbols[i].id = d.symbols[j].id => i = j
    BY <1>1, <1>4, IdsOnce
  <1>7. Ids(d) = {d.symbols[i].id : i \in 1..n}
    BY <1>1 DEF Ids, SymbolsOf, ToSet
  <1> HIDE DEF n
  <1>8. Ids(d) = {g.symbols[i].id : i \in 1..n}
    BY <1>2, <1>7
  <1> QED BY <1>1, <1>2, <1>4, <1>5, <1>6, <1>8 DEF n

\* What the evaluator sees of one reel set.
GridSeen(g, name) ==
    [strips      |-> g.reelSets[name],
     rows        |-> g.minRows..g.maxRows,
     minMatch    |-> g.minMatch,
     catalog     |-> [i \in DOMAIN g.symbols |-> SymbolSeen(g, g.symbols[i])],
     substitutes |-> [s \in Symbols |->
                        {w \in g.wilds : s \in Substituted(g, w)}],
     scatters    |-> IF g.scatter = NoName THEN OfKind(g, {"scatter"})
                     ELSE {g.scatter},
     thresholds  |-> g.thresholds,
     maxCascades |-> IF g.cascade.enabled THEN g.cascade.max ELSE 0]

\* What the reels of a compiled game look like to the grid.
LEMMA GridSeenIs ==
    ASSUME NEW g, NEW name
    PROVE  GridView(g, name) = GridSeen(g, name)
  BY DEF GridView, GridSeen, SymbolSeen, PaysSeen

\* The reel sets of a valid definition: a strip for every reel, each as long as
\* the shortest window and of the catalog's symbols.
LEMMA StripsAre ==
    ASSUME NEW d, RawDefinition(d), Valid(d), NEW name \in DOMAIN d.reelSets
    PROVE  LET t == d.reelSets[name] IN
           /\ t \in Seq(Seq(Symbols)) /\ Len(t) = d.reels
           /\ \A i \in 1..d.reels :
                 /\ t[i] \in Seq(Symbols) /\ Len(t[i]) >= MinRows(d)
                 /\ \A j \in DOMAIN t[i] : t[i][j] \in Ids(d)
  <1> DEFINE t == d.reelSets[name]
  <1>1. t \in Seq(Seq(Names))
    BY DEF RawDefinition
  <1>2. Len(t) = d.reels /\ DOMAIN t = 1..d.reels
    BY <1>1 DEF Valid, ValidReelSets
  <1>3. Ids(d) \subseteq Symbols
    BY IdsAre DEF Valid, ValidSymbols
  <1>4. ASSUME NEW i \in 1..d.reels
        PROVE  /\ t[i] \in Seq(Symbols) /\ Len(t[i]) >= MinRows(d)
               /\ \A j \in DOMAIN t[i] : t[i][j] \in Ids(d)
    <2>1. t[i] \in ToSet(t) /\ t[i] \in Seq(Names)
      BY <1>1, <1>2 DEF ToSet
    <2>2. Len(t[i]) >= MinRows(d) /\ ToSet(t[i]) \subseteq Ids(d)
      BY <2>1 DEF Valid, ValidReelSets
    <2>3. \A j \in DOMAIN t[i] : t[i][j] \in Ids(d)
      BY <2>2 DEF ToSet
    <2> HIDE DEF t
    <2>4. t[i] \in Seq(Symbols)
      BY <1>3, <2>1, <2>3
    <2> QED BY <2>2, <2>3, <2>4
  <1>5. t \in Seq(Seq(Symbols))
    <2> HIDE DEF t
    <2> QED BY <1>1, <1>2, <1>4
  <1> QED BY <1>2, <1>4, <1>5

\* The grid and the evaluator can play every reel set of it.
LEMMA KeptGridTyped ==
    ASSUME NEW d, RawDefinition(d), Valid(d), NEW g, KeptGame(d, g),
           NEW name \in DOMAIN g.reelSets
    PROVE  GridSeen(g, name) \in Game
  <1> DEFINE n == Len(d.symbols)
  <1>1. /\ g.reels = d.reels /\ g.minMatch = d.minMatch
        /\ g.scatter = d.scatter /\ g.thresholds = d.thresholds
        /\ g.reelSets = d.reelSets
        /\ g.minRows = MinRows(d) /\ g.maxRows = MaxRows(d)
        /\ g.wilds = FilledWilds(d) /\ g.cascade = FilledCascade(d.cascade)
        /\ \A kinds : OfKind(g, kinds) = OfKind(d, kinds)
    BY KeptFields
  <1>2. /\ n \in Nat /\ DOMAIN g.symbols = 1..n /\ DOMAIN d.symbols = 1..n
        /\ Ids(d) \subseteq Symbols
        /\ \A i \in 1..n : /\ g.symbols[i] \in WrittenSymbol
                           /\ g.symbols[i].kind = d.symbols[i].kind
                           /\ g.symbols[i].pays = d.symbols[i].pays
                           /\ g.symbols[i].id \in Ids(d)
                           /\ g.symbols[i].kind \in Kinds
    BY KeptSymbols
  <1>3. d.reels \in Nat /\ d.minMatch \in 1..d.reels
    BY IntegersAre DEF RawDefinition, Valid, ValidGrid, ValidMechanic
  <1>4. g.reelSets[name] \in Seq(Seq(Symbols))
    BY <1>1, StripsAre
  <1>5. g.minRows..g.maxRows \in SUBSET Nat
    <2>1. MinRows(d) \in Int /\ MaxRows(d) \in Int /\ MinRows(d) > 0
      BY IntegersAre DEF RawDefinition, Valid, ValidGrid, MinRows, MaxRows
    <2> QED BY <1>1, <2>1
  <1>6. g.minMatch \in Nat \ {0}
    BY <1>1, <1>3
  <1>7. [i \in DOMAIN g.symbols |-> SymbolSeen(g, g.symbols[i])]
           \in Seq([id : Symbols, kind : Kinds, pays : Seq(Multiplier)])
    <2> DEFINE S == [id : Symbols, kind : Kinds, pays : Seq(Multiplier)]
    <2>1. ASSUME NEW i \in 1..n PROVE SymbolSeen(g, g.symbols[i]) \in S
      <3>1. PaysSeen(g, g.symbols[i]) \in Seq(Multiplier)
        BY <1>1, <1>2, <1>3, PaysSeenAre DEF Valid
      <3> QED BY <1>2, <3>1 DEF SymbolSeen
    <2> HIDE DEF S, n
    <2> DEFINE c == [i \in 1..n |-> SymbolSeen(g, g.symbols[i])]
    <2>2. c \in [1..n -> S]
      BY <2>1
    <2> HIDE DEF c
    <2>3. c \in Seq(S)
      BY <1>2, <2>2
    <2> QED BY <1>2, <2>3 DEF c, S
  <1>8. FilledWilds(d) \subseteq Symbols /\ \A kinds : OfKind(d, kinds) \subseteq Symbols
    BY <1>2, IdsAre DEF Valid, ValidWilds, FilledWilds
  <1>9. [s \in Symbols |-> {w \in g.wilds : s \in Substituted(g, w)}]
           \in [Symbols -> SUBSET Symbols]
    BY <1>1, <1>8
  <1>10. (IF g.scatter = NoName THEN OfKind(g, {"scatter"}) ELSE {g.scatter})
            \in SUBSET Symbols
    BY <1>1, <1>8 DEF Valid, ValidScatter
  <1>11. g.thresholds \in Seq([count : Nat \ {0}, payout : Multiplier, award : Int])
    <2> DEFINE R == [count : Integer, payout : Integer, award : Integer]
               S == [count : Nat \ {0}, payout : Multiplier, award : Int]
               t == d.thresholds
    <2>1. t \in Seq(R)
      BY DEF RawDefinition
    <2>2. \A i \in DOMAIN t : t[i] \in ToSet(t)
      BY DEF ToSet
    <2>3. \A x \in ToSet(t) : x.count > 0 /\ x.payout >= 0
      BY DEF Valid, ValidScatter
    <2>4. ASSUME NEW i \in DOMAIN t PROVE t[i] \in S
      <3>1. t[i] \in R /\ t[i].count > 0 /\ t[i].payout >= 0
        <4> HIDE DEF t, R
        <4> QED BY <2>1, <2>2, <2>3
      <3> DEFINE x == t[i]
      <3> HIDE DEF x
      <3>2. /\ x.count \in Integer /\ x.payout \in Integer
            /\ x.award \in Integer /\ x.count > 0 /\ x.payout >= 0
            /\ x = [count |-> x.count, payout |-> x.payout, award |-> x.award]
        BY <3>1 DEF x
      <3>3. /\ x.count \in Nat \ {0} /\ x.payout \in Multiplier
            /\ x.award \in Int
        BY <3>2, IntegersAre
      <3>4. x \in S
        BY <3>2, <3>3
      <3> QED BY <3>4 DEF x
    <2> HIDE DEF t, S, R
    <2>5. t \in Seq(S)
      BY <2>1, <2>4
    <2> QED BY <1>1, <2>5 DEF t, S
  <1>12. (IF g.cascade.enabled THEN g.cascade.max ELSE 0) \in Nat
    <2>1. d.cascade.enabled =>
             d.cascade.mode \in {NoName, "fixed", "incremental", "table"}
      BY DEF Valid, ValidCascade
    <2>2. /\ g.cascade \in CascadeSection
          /\ g.cascade.enabled => g.cascade.max > 0
      BY <1>1, <2>1, SectionsAre, CascadeFilled
    <2>3. g.cascade.max \in Int
      BY <2>2, IntegersAre DEF CascadeSection
    <2> QED BY <2>2, <2>3
  <1> QED BY <1>4, <1>5, <1>6, <1>7, <1>9, <1>10, <1>11, <1>12
          DEF GridSeen, Game

\* Every reel set of a compiled game makes a grid.
LEMMA KeptGridFormed ==
    ASSUME NEW d, RawDefinition(d), Valid(d), NEW g, KeptGame(d, g),
           NEW name \in DOMAIN g.reelSets
    PROVE  WellFormed(GridSeen(g, name))
  <1> DEFINE n == Len(d.symbols)
             v == GridSeen(g, name)
  <1>1. /\ g.reels = d.reels /\ g.minMatch = d.minMatch
        /\ g.reelSets = d.reelSets
        /\ g.minRows = MinRows(d) /\ g.maxRows = MaxRows(d)
        /\ \A kinds : OfKind(g, kinds) = OfKind(d, kinds)
    BY KeptFields
  <1>2. /\ n \in Nat /\ DOMAIN g.symbols = 1..n /\ DOMAIN d.symbols = 1..n
        /\ Ids(d) \subseteq Symbols
        /\ \A i \in 1..n : /\ g.symbols[i] \in WrittenSymbol
                           /\ g.symbols[i].kind = d.symbols[i].kind
                           /\ g.symbols[i].pays = d.symbols[i].pays
                           /\ g.symbols[i].id \in Ids(d)
        /\ \A i, j \in 1..n : g.symbols[i].id = g.symbols[j].id => i = j
        /\ Ids(d) = {g.symbols[i].id : i \in 1..n}
    BY KeptSymbols
  <1>3. d.reels \in Nat /\ d.minMatch \in 1..d.reels
    BY IntegersAre DEF RawDefinition, Valid, ValidGrid, ValidMechanic
  <1>4. /\ v.strips = d.reelSets[name] /\ v.rows = MinRows(d)..MaxRows(d)
        /\ v.minMatch = d.minMatch
        /\ v.catalog = [i \in 1..n |-> SymbolSeen(g, g.symbols[i])]
        /\ v.substitutes = [s \in Symbols |->
                              {w \in g.wilds : s \in Substituted(g, w)}]
    BY <1>1, <1>2 DEF GridSeen
  <1>5. /\ DOMAIN v.catalog = 1..n
        /\ \A i \in 1..n : /\ v.catalog[i].id = g.symbols[i].id
                           /\ v.catalog[i].kind = g.symbols[i].kind
                           /\ v.catalog[i].pays = PaysSeen(g, g.symbols[i])
    BY <1>4 DEF SymbolSeen
  <1>6. /\ DOMAIN v.strips = 1..d.reels /\ Len(v.strips) = d.reels
        /\ \A i \in 1..d.reels :
              /\ Len(v.strips[i]) >= MinRows(d)
              /\ \A j \in DOMAIN v.strips[i] : v.strips[i][j] \in Ids(d)
    <2>1. /\ v.strips \in Seq(Seq(Symbols)) /\ Len(v.strips) = d.reels
          /\ \A i \in 1..d.reels :
                /\ Len(v.strips[i]) >= MinRows(d)
                /\ \A j \in DOMAIN v.strips[i] : v.strips[i][j] \in Ids(d)
      <3>1. name \in DOMAIN d.reelSets
        BY <1>1
      <3> DEFINE t == d.reelSets[name]
      <3>2. /\ t \in Seq(Seq(Symbols)) /\ Len(t) = d.reels
            /\ \A i \in 1..d.reels :
                  /\ Len(t[i]) >= MinRows(d)
                  /\ \A j \in DOMAIN t[i] : t[i][j] \in Ids(d)
        BY <3>1, StripsAre
      <3>3. v.strips = t
        BY <1>4
      <3> HIDE DEF t, v
      <3> QED BY <3>2, <3>3
    <2> HIDE DEF v
    <2>2. DOMAIN v.strips = 1..d.reels
      BY <2>1
    <2> QED BY <2>1, <2>2
  <1>7. /\ MinRows(d) \in Int /\ MaxRows(d) \in Int
        /\ MinRows(d) > 0 /\ MaxRows(d) >= MinRows(d)
    BY IntegersAre DEF RawDefinition, Valid, ValidGrid, MinRows, MaxRows
  <1>8. \A i \in 1..n : Len(PaysSeen(g, g.symbols[i])) \in {0, d.reels}
    BY <1>1, <1>2, <1>3, PaysSeenAre DEF Valid
  <1>9. \A i \in 1..n :
           g.symbols[i].kind # "regular" => g.symbols[i].id \notin OfKind(g, {"regular"})
    <2>1. OfKind(g, {"regular"}) = {g.symbols[i].id : i \in
             {j \in 1..n : g.symbols[j].kind \in {"regular"}}}
      BY <1>2 DEF OfKind, SymbolsOf, ToSet
    <2> HIDE DEF n
    <2> QED BY <1>2, <2>1
  <1>10. \A kind : \A i \in 1..n :
            g.symbols[i].id \in OfKind(g, {kind}) => g.symbols[i].kind = kind
    <2> TAKE kind
    <2>1. SymbolsOf(g) = {g.symbols[i] : i \in 1..n}
      BY <1>2 DEF SymbolsOf, ToSet
    <2> HIDE DEF n
    <2> TAKE i \in 1..n
    <2>2. ASSUME g.symbols[i].id \in OfKind(g, {kind})
          PROVE  g.symbols[i].kind = kind
      <3>1. PICK s \in SymbolsOf(g) : s.kind = kind /\ s.id = g.symbols[i].id
        BY <2>2 DEF OfKind
      <3>2. PICK j \in 1..n : s = g.symbols[j]
        BY <2>1, <3>1
      <3> QED BY <1>2, <3>1, <3>2
    <2> QED BY <2>2
  <1>11. v.scatters \subseteq OfKind(g, {"scatter"})
    <2>1. g.scatter # NoName => g.scatter \in OfKind(g, {"scatter"})
      <3>1. g.scatter = d.scatter /\ OfKind(g, {"scatter"}) = OfKind(d, {"scatter"})
        BY <1>1, KeptFields
      <3>2. d.scatter # NoName => d.scatter \in OfKind(d, {"scatter"})
        BY Zenon DEF Valid, ValidScatter
      <3> HIDE DEF v, n
      <3> QED BY <3>1, <3>2, Zenon
    <2>2. v.scatters = IF g.scatter = NoName THEN OfKind(g, {"scatter"})
                       ELSE {g.scatter}
      BY DEF GridSeen
    <2> QED BY <2>1, <2>2
  <1>12. g.wilds \subseteq OfKind(g, {"wild"})
    BY <1>1, KeptFields DEF Valid, ValidWilds, FilledWilds
  <1> HIDE DEF v, n
  <1>13. /\ v.rows # {} /\ 0 \notin v.rows /\ MinRows(d) \in v.rows
         /\ IsFiniteSet(v.rows)
    <2>1. IsFiniteSet(v.rows)
      BY <1>4, <1>7, FS_Interval
    <2> QED BY <1>4, <1>7, <2>1
  <1>14. \A i \in DOMAIN v.strips :
            /\ \E m \in v.rows : m <= Len(v.strips[i])
            /\ \A j \in DOMAIN v.strips[i] :
                  \E k \in DOMAIN v.catalog : v.catalog[k].id = v.strips[i][j]
    <2> TAKE i \in DOMAIN v.strips
    <2>1. \E m \in v.rows : m <= Len(v.strips[i])
      <3>1. MinRows(d) <= Len(v.strips[i])
        BY <1>6, <1>7
      <3> QED BY <1>13, <3>1
    <2>2. ASSUME NEW j \in DOMAIN v.strips[i]
          PROVE  \E k \in DOMAIN v.catalog : v.catalog[k].id = v.strips[i][j]
      <3>1. v.strips[i][j] \in {g.symbols[k].id : k \in 1..n}
        BY <1>2, <1>6
      <3> QED BY <1>5, <3>1
    <2> QED BY <2>1, <2>2
  <1>15. v.minMatch <= Len(v.strips)
    BY <1>3, <1>4, <1>6
  <1>16. \A i, j \in DOMAIN v.catalog :
            v.catalog[i].id = v.catalog[j].id => i = j
    BY <1>2, <1>5
  <1>17. \A i \in DOMAIN v.catalog :
            /\ Len(v.catalog[i].pays) \in {0, Len(v.strips)}
            /\ v.catalog[i].kind # "regular" =>
                  v.substitutes[v.catalog[i].id] = {}
            /\ v.catalog[i].id \in v.scatters => v.catalog[i].kind = "scatter"
            /\ \A s \in Symbols : v.catalog[i].id \in v.substitutes[s] =>
                  v.catalog[i].kind = "wild"
    <2> TAKE i \in DOMAIN v.catalog
    <2>1. Len(v.catalog[i].pays) \in {0, Len(v.strips)}
      BY <1>5, <1>6, <1>8
    <2>2. ASSUME v.catalog[i].kind # "regular"
          PROVE  v.substitutes[v.catalog[i].id] = {}
      <3>1. /\ g.symbols[i].id \in Symbols
            /\ g.symbols[i].id \notin OfKind(g, {"regular"})
        BY <1>2, <1>5, <1>9, <2>2
      <3>2. \A w : g.symbols[i].id \notin Substituted(g, w)
        BY <3>1, SubstitutedIsRegular
      <3> QED BY <1>4, <1>5, <3>1, <3>2
    <2>3. v.catalog[i].id \in v.scatters => v.catalog[i].kind = "scatter"
      BY <1>5, <1>10, <1>11
    <2>4. ASSUME NEW s \in Symbols, v.catalog[i].id \in v.substitutes[s]
          PROVE  v.catalog[i].kind = "wild"
      <3>1. v.catalog[i].id \in g.wilds
        BY <1>4, <2>4
      <3> QED BY <1>5, <1>10, <1>12, <3>1
    <2> QED BY <2>1, <2>2, <2>3, <2>4
  <1>18. WellFormed(v)
    BY <1>13, <1>14, <1>15, <1>16, <1>17 DEF WellFormed
  <1> QED BY <1>18 DEF v

------------------------------------------------------------------------------
(* The invariant.                                                            *)

\* What Registered orders, and what is used of it.
Listed ==
    IF raw.features # <<>> THEN raw.features
    ELSE [i \in DOMAIN modules |-> [id |-> modules[i], enabled |-> TRUE]]

Used(f) == f.enabled /\ f.id # None

TypeInv ==
    /\ raw \in RawDefinitions /\ RawDefinition(raw)
    /\ modules \in Seq(FeatureNames \cup {None})
    /\ seeded \in SeededRequests
    /\ pc \in {"seeded", "validate", "register", "order", "game", "refused"}
    /\ registered \subseteq FeatureNames /\ None \notin registered

\* Only a valid definition gets past Validate; the game keeps it, but for the
\* substitution lists, which Symbol lends.  Nobody is lent the strips.
GameInv ==
    /\ pc \in {"register", "order", "game"} => Valid(raw) /\ KeptGame(raw, game)
    /\ <<"game", "strips">> \notin held

\* A seeded request that was let through names the definition.
SeededInv ==
    /\ pc = "seeded" => seeded # None
    /\ pc \notin {"seeded", "refused"} /\ seeded # None =>
          /\ seeded.spin.id = raw.id /\ seeded.spin.version = raw.version
          /\ seeded.spin.bet > 0

\* The modules looked at so far are the registered ones, each but nil once.
RegisterInv ==
    /\ pc \in {"seeded", "validate"} => registered = {} /\ hooks = <<>>
    /\ pc = "register" =>
          LET k == Len(modules) - Len(todo) IN
          /\ hooks = <<>>
          /\ todo \in Seq(FeatureNames \cup {None})
          /\ k \in 0..Len(modules)
          /\ \A i \in 1..Len(todo) : todo[i] = modules[k + i]
          /\ registered = {modules[i] : i \in 1..k} \ {None}
          /\ \A i, j \in 1..k :
                modules[i] # None /\ modules[i] = modules[j] => i = j

\* The hooks are the features used of the declarations looked at so far, once
\* each; no two declarations in use are of one feature.
OrderInv ==
    pc \in {"order", "game"} =>
        LET k == Len(Listed) - Len(todo) IN
        /\ Listed \in Seq([id : Names \cup FeatureNames \cup {None},
                           enabled : BOOLEAN])
        /\ \A i, j \in 1..Len(Listed) :
              Used(Listed[i]) /\ Used(Listed[j]) /\ Listed[i].id = Listed[j].id
                 => i = j
        /\ todo \in Seq([id : Names \cup FeatureNames \cup {None},
                         enabled : BOOLEAN])
        /\ k \in 0..Len(Listed)
        /\ \A i \in 1..Len(todo) : todo[i] = Listed[k + i]
        /\ hooks \in Seq(FeatureNames)
        /\ ToSet(hooks) = {Listed[i].id : i \in {j \in 1..k : Used(Listed[j])}}
        /\ None \notin ToSet(hooks)
        /\ \A i, j \in 1..Len(hooks) : hooks[i] = hooks[j] => i = j
        /\ pc = "game" => todo = <<>>

CompileInv == TypeInv /\ GameInv /\ SeededInv /\ RegisterInv /\ OrderInv

\* The first thing of a list that is still to be looked at.
LEMMA RestOfList ==
    ASSUME NEW S, NEW t \in Seq(S), t # <<>>, NEW n \in Nat, NEW list,
           n - Len(t) \in 0..n, \A i \in 1..Len(t) : t[i] = list[n - Len(t) + i]
    PROVE  LET k == n - Len(t) IN
           /\ Head(t) = list[k + 1] /\ Head(t) \in S
           /\ Tail(t) \in Seq(S) /\ n - Len(Tail(t)) = k + 1
           /\ k + 1 \in 1..n
           /\ \A i \in 1..Len(Tail(t)) : Tail(t)[i] = list[k + 1 + i]
  <1>1. Len(t) \in Nat /\ Len(t) >= 1
    OBVIOUS
  <1>2. Head(t) = t[1] /\ Head(t) \in S
    OBVIOUS
  <1>3. /\ Tail(t) \in Seq(S) /\ Len(Tail(t)) = Len(t) - 1
        /\ \A i \in 1..Len(t) - 1 : Tail(t)[i] = t[i + 1]
    OBVIOUS
  <1> DEFINE m == Len(t)
             u == Tail(t)
  <1> HIDE DEF m, u
  <1>4. \A i \in 1..m - 1 : u[i] = list[n - m + (i + 1)]
    <2> TAKE i \in 1..m - 1
    <2>1. i + 1 \in 1..m /\ u[i] = t[i + 1]
      BY <1>1, <1>3 DEF m, u
    <2> QED BY <2>1 DEF m
  <1>5. \A i \in 1..m - 1 : u[i] = list[(n - m) + 1 + i]
    <2> TAKE i \in 1..m - 1
    <2>1. n - m + (i + 1) = (n - m) + 1 + i
      BY <1>1 DEF m
    <2> QED BY <1>4, <2>1
  <1>6. t[1] = list[n - m + 1] /\ n - m + 1 \in 1..n /\ n - (m - 1) = n - m + 1
    <2>1. 1 \in 1..m
      BY <1>1 DEF m
    <2>2. t[1] = list[n - m + 1]
      BY <2>1 DEF m
    <2> QED BY <1>1, <2>2 DEF m
  <1> QED BY <1>2, <1>3, <1>5, <1>6 DEF m, u

\* The invariant holds before the first call.
LEMMA InitInv == Init => CompileInv
  <1> SUFFICES ASSUME Init PROVE CompileInv
    OBVIOUS
  <1> USE DEF Init
  <1>1. RawDefinition(raw)
    BY CompileAssumption
  <1>2. NewBuiltins(raw) \in Seq(FeatureNames \cup {None})
    <2> DEFINE S == FeatureNames \cup {None}
               x == IF raw.cascade.enabled THEN <<"cascade">> ELSE <<>>
               y == IF raw.free.enabled THEN <<"scatter_free_spins">> ELSE <<>>
    <2>1. "cascade" \in S /\ "scatter_free_spins" \in S
      BY DEF FeatureNames
    <2> HIDE DEF S
    <2>2. x \in Seq(S) /\ y \in Seq(S)
      BY <2>1
    <2> HIDE DEF x, y
    <2>3. x \o y \in Seq(S)
      BY <2>2
    <2> QED BY <2>3 DEF NewBuiltins, S, x, y
  <1>3. modules \in Seq(FeatureNames \cup {None})
    BY <1>2, CompileAssumption
  <1>4. TypeInv
    BY <1>1, <1>3 DEF TypeInv
  <1>5. GameInv
    BY DEF GameInv
  <1>6. SeededInv
    BY DEF SeededInv
  <1>7. RegisterInv /\ OrderInv
    BY DEF RegisterInv, OrderInv
  <1> QED BY <1>4, <1>5, <1>6, <1>7 DEF CompileInv

\* What the author's definition starts as: the game keeps it, filled in.
LEMMA FilledIsKept ==
    ASSUME NEW d, RawDefinition(d), Valid(d)
    PROVE  KeptGame(d, Filled(d))
  <1>1. Filled(d).symbols = d.symbols
    BY FilledFields
  <1>2. RawDefinition(Filled(d))
    BY FilledIsRaw
  <1>3. Filled(d) = [Filled(d) EXCEPT !.symbols = Filled(d).symbols]
    BY <1>2 DEF RawDefinition
  <1>4. SameSymbols(d.symbols, d.symbols)
    BY DEF RawDefinition, SameSymbols
  <1> QED BY <1>1, <1>3, <1>4 DEF KeptGame

\* Writing to a substitution list leaves the rest of the game alone.
LEMMA OverwrittenIsKept ==
    ASSUME NEW d, RawDefinition(d), Valid(d), NEW g, KeptGame(d, g),
           NEW symbols \in Overwritten(g.symbols)
    PROVE  KeptGame(d, [g EXCEPT !.symbols = symbols])
  <1> DEFINE t == g.symbols
             h == [g EXCEPT !.symbols = symbols]
  <1>0. PICK i \in DOMAIN t :
           \E old \in t[i].substitutes, new \in Symbols \cup {NoName} :
              symbols = [t EXCEPT ![i].substitutes =
                                     (t[i].substitutes \ {old}) \cup {new}]
    BY DEF Overwritten
  <1>1. PICK old \in t[i].substitutes, new \in Symbols \cup {NoName} :
           symbols = [t EXCEPT ![i].substitutes =
                                  (t[i].substitutes \ {old}) \cup {new}]
    BY <1>0
  <1>2. t \in Seq(WrittenSymbol) /\ Len(t) = Len(d.symbols)
        /\ \A j \in 1..Len(d.symbols) :
              t[j].id = d.symbols[j].id /\ t[j].kind = d.symbols[j].kind
              /\ t[j].pays = d.symbols[j].pays
    BY DEF KeptGame, SameSymbols
  <1> DEFINE subs == (t[i].substitutes \ {old}) \cup {new}
             x == [t[i] EXCEPT !.substitutes = subs]
  <1>3. t[i] \in WrittenSymbol
    BY <1>2
  <1>4. subs \in SUBSET Names
    BY <1>3, DefinitionAssumption DEF WrittenSymbol
  <1>5. /\ x \in WrittenSymbol /\ x.id = t[i].id /\ x.kind = t[i].kind
        /\ x.pays = t[i].pays
    BY <1>3, <1>4 DEF WrittenSymbol
  <1>6. symbols = [t EXCEPT ![i] = x]
    BY <1>1
  <1> HIDE DEF x, subs
  <1>7. SameSymbols(symbols, d.symbols)
    <2> HIDE DEF t
    <2>1. symbols \in Seq(WrittenSymbol) /\ Len(symbols) = Len(t)
      BY <1>2, <1>5, <1>6
    <2>2. \A j \in 1..Len(d.symbols) :
             /\ symbols[j].id = t[j].id /\ symbols[j].kind = t[j].kind
             /\ symbols[j].pays = t[j].pays
      BY <1>2, <1>5, <1>6
    <2> QED BY <1>2, <2>1, <2>2 DEF SameSymbols
  <1>8. h.symbols = symbols
    BY KeptFields DEF RawDefinition
  <1>9. h = [Filled(d) EXCEPT !.symbols = symbols]
    <2>1. g = [Filled(d) EXCEPT !.symbols = g.symbols]
      BY DEF KeptGame
    <2> QED BY <2>1
  <1> QED BY <1>7, <1>8, <1>9 DEF KeptGame

\* The declarations Registered turns to, of either kind, name no feature twice
\* among those in use.
LEMMA ListedOnce ==
    ASSUME TypeInv, Valid(raw),
           \A i, j \in 1..Len(modules) :
              modules[i] # None /\ modules[i] = modules[j] => i = j
    PROVE  /\ Listed \in Seq([id : Names \cup FeatureNames \cup {None},
                              enabled : BOOLEAN])
           /\ \A i, j \in 1..Len(Listed) :
                 Used(Listed[i]) /\ Used(Listed[j]) /\ Listed[i].id = Listed[j].id
                    => i = j
  <1> DEFINE S == [id : Names \cup FeatureNames \cup {None}, enabled : BOOLEAN]
  <1>1. CASE raw.features # <<>>
    <2>1. Listed = raw.features
      BY <1>1 DEF Listed
    <2>2. raw.features \in Seq([id : Names, enabled : BOOLEAN])
      BY DEF TypeInv, RawDefinition
    <2>3. raw.features \in Seq(S)
      <3> DEFINE N == [id : Names, enabled : BOOLEAN]
      <3>1. \A x \in N : x \in S
        OBVIOUS
      <3>2. raw.features \in Seq(N)
        BY <2>2
      <3> HIDE DEF N, S
      <3> QED BY <3>1, <3>2
    <2>4. \A i, j \in DOMAIN raw.features :
             raw.features[i].id = raw.features[j].id => i = j
      BY FeaturesOnce DEF TypeInv, Valid
    <2>5. DOMAIN raw.features = 1..Len(raw.features)
      BY <2>2
    <2> QED BY <2>1, <2>3, <2>4, <2>5
  <1>2. CASE raw.features = <<>>
    <2> DEFINE l == [i \in DOMAIN modules |-> [id |-> modules[i], enabled |-> TRUE]]
               n == Len(modules)
    <2>1. Listed = l
      BY <1>2 DEF Listed
    <2>2. n \in Nat /\ DOMAIN modules = 1..n
          /\ \A i \in 1..n : modules[i] \in FeatureNames \cup {None}
      BY DEF TypeInv
    <2>3. l \in [1..n -> S]
      BY <2>2
    <2>4. \A i \in 1..n : l[i].id = modules[i]
      BY <2>2
    <2> HIDE DEF l, S, n
    <2>5. l \in Seq(S) /\ Len(l) = n
      BY <2>2, <2>3
    <2>6. \A i, j \in 1..n : Used(l[i]) /\ Used(l[j]) /\ l[i].id = l[j].id => i = j
      BY <2>4 DEF Used, n
    <2>7. \A i, j \in 1..Len(l) : Used(l[i]) /\ Used(l[j]) /\ l[i].id = l[j].id => i = j
      BY <2>5, <2>6
    <2> HIDE DEF S
    <2>8. /\ Listed \in Seq(S)
          /\ \A i, j \in 1..Len(Listed) :
                Used(Listed[i]) /\ Used(Listed[j]) /\ Listed[i].id = Listed[j].id
                   => i = j
      BY <2>1, <2>5, <2>7, Zenon
    <2> QED BY <2>8 DEF S
  <1> QED BY <1>1, <1>2

\* Checking the modules it starts with keeps the invariant.
LEMMA CheckSeededStep == CompileInv /\ CheckSeeded => CompileInv'
  <1> SUFFICES ASSUME CompileInv, CheckSeeded PROVE CompileInv'
    OBVIOUS
  <1> USE DEF CompileInv, CheckSeeded, Become
  <1>1. TypeInv'
    BY DEF TypeInv
  <1>2. pc' = "validate" \/ pc' = "refused"
    OBVIOUS
  <1>3. GameInv'
    BY <1>2 DEF GameInv
  <1>4. SeededInv'
    BY DEF SeededInv
  <1>5. RegisterInv' /\ OrderInv'
    BY <1>2 DEF RegisterInv, OrderInv
  <1> QED BY <1>1, <1>3, <1>4, <1>5

\* Validating the definition keeps the invariant.
LEMMA ValidateStep == CompileInv /\ Validate => CompileInv'
  <1> SUFFICES ASSUME CompileInv, Validate PROVE CompileInv'
    OBVIOUS
  <1> USE DEF CompileInv, Validate, Become
  <1>1. TypeInv'
    BY DEF TypeInv
  <1>2. CASE ~Valid(raw)
    <2>1. pc' = "refused"
      BY <1>2
    <2> QED BY <1>1, <2>1
            DEF GameInv, SeededInv, RegisterInv, OrderInv
  <1>3. CASE Valid(raw)
    <2>1. pc' = "register" /\ game' = Filled(raw) /\ todo' = modules
          /\ UNCHANGED <<raw, modules, seeded, held, registered, hooks>>
      BY <1>3
    <2>2. KeptGame(raw, Filled(raw))
      BY <1>3, FilledIsKept DEF TypeInv
    <2>3. GameInv'
      BY <1>3, <2>1, <2>2 DEF GameInv
    <2>4. SeededInv'
      BY <2>1 DEF SeededInv
    <2>5. OrderInv'
      BY <2>1 DEF OrderInv
    <2>6. RegisterInv'
      <3>1. modules \in Seq(FeatureNames \cup {None}) /\ registered = {}
            /\ hooks = <<>>
        BY DEF TypeInv, RegisterInv
      <3>2. Len(modules) - Len(modules) = 0 /\ Len(modules) \in Nat
        BY <3>1
      <3> QED BY <2>1, <3>1, <3>2 DEF RegisterInv
    <2> QED BY <1>1, <2>3, <2>4, <2>5, <2>6
  <1> QED BY <1>2, <1>3

\* Registering a feature keeps the invariant.
LEMMA RegisterStep == CompileInv /\ Register => CompileInv'
  <1> SUFFICES ASSUME CompileInv, Register PROVE CompileInv'
    OBVIOUS
  <1> USE DEF CompileInv
  <1> DEFINE S == FeatureNames \cup {None}
             n == Len(modules)
             k == n - Len(todo)
  <1>1. /\ pc = "register" /\ todo # <<>>
        /\ pc' = IF Head(todo) \in registered THEN "refused" ELSE "register"
        /\ registered' = registered \cup ({Head(todo)} \ {None})
        /\ todo' = Tail(todo)
        /\ UNCHANGED <<raw, modules, seeded, held, written, answer, hooks, game>>
    BY DEF Register, Become
  <1>2. /\ hooks = <<>> /\ todo \in Seq(S) /\ k \in 0..n
        /\ \A i \in 1..Len(todo) : todo[i] = modules[k + i]
        /\ registered = {modules[i] : i \in 1..k} \ {None}
        /\ \A i, j \in 1..k :
              modules[i] # None /\ modules[i] = modules[j] => i = j
    BY <1>1 DEF RegisterInv
  <1>3. n \in Nat
    BY DEF TypeInv
  <1>4. /\ Head(todo) = modules[k + 1] /\ Head(todo) \in S
        /\ todo' \in Seq(S) /\ n - Len(todo') = k + 1 /\ k + 1 \in 1..n
        /\ \A i \in 1..Len(todo') : todo'[i] = modules[k + 1 + i]
    <2> HIDE DEF S, n
    <2> QED BY <1>1, <1>2, <1>3, RestOfList
  <1> HIDE DEF S, n, k
  <1>5. registered' = {modules[i] : i \in 1..(k + 1)} \ {None}
    <2>1. k \in Nat
      BY <1>2, <1>3
    <2>2. 1..(k + 1) = 1..k \cup {k + 1}
      BY <2>1
    <2> QED BY <1>1, <1>2, <1>4, <2>2
  <1>6. TypeInv'
    <2>1. registered' \subseteq FeatureNames /\ None \notin registered'
      BY <1>1, <1>4 DEF TypeInv, S
    <2> QED BY <1>1, <2>1 DEF TypeInv
  <1>7. GameInv' /\ SeededInv' /\ OrderInv'
    BY <1>1 DEF GameInv, SeededInv, OrderInv
  <1>8. RegisterInv'
    <2>1. CASE Head(todo) \in registered
      BY <1>1, <2>1 DEF RegisterInv
    <2>2. CASE Head(todo) \notin registered
      <3>1. \A i, j \in 1..(k + 1) :
               modules[i] # None /\ modules[i] = modules[j] => i = j
        <4>1. k \in Nat /\ \A i \in 1..(k + 1) : i \in 1..k \/ i = k + 1
          BY <1>2, <1>3
        <4>2. modules[k + 1] = None
              \/ \A i \in 1..k : modules[i] # modules[k + 1]
          BY <1>2, <1>4, <2>2
        <4> QED BY <1>2, <4>1, <4>2
      <3>2. k + 1 \in 0..n
        BY <1>4, <1>3
      <3> DEFINE K == Len(modules') - Len(todo')
      <3>3. K = k + 1
        BY <1>1, <1>4 DEF n
      <3>4. /\ hooks' = <<>> /\ todo' \in Seq(S) /\ K \in 0..Len(modules')
            /\ \A i \in 1..Len(todo') : todo'[i] = modules'[K + i]
            /\ registered' = {modules'[i] : i \in 1..K} \ {None}
            /\ \A i, j \in 1..K :
                  modules'[i] # None /\ modules'[i] = modules'[j] => i = j
        <4> HIDE DEF K
        <4>1. modules' = modules /\ hooks' = <<>>
          BY <1>1, <1>2
        <4> QED BY <1>4, <1>5, <3>1, <3>2, <3>3, <4>1 DEF n
      <3> QED BY <1>1, <3>4, Zenon DEF RegisterInv, S
    <2> QED BY <2>1, <2>2
  <1> QED BY <1>6, <1>7, <1>8

\* Ending the registrations keeps the invariant.
LEMMA RegisteredStep == CompileInv /\ Registered => CompileInv'
  <1> SUFFICES ASSUME CompileInv, Registered PROVE CompileInv'
    OBVIOUS
  <1> USE DEF CompileInv
  <1> DEFINE R == [id : Names \cup FeatureNames \cup {None}, enabled : BOOLEAN]
  <1>1. /\ pc = "register" /\ todo = <<>> /\ pc' = "order" /\ todo' = Listed
        /\ UNCHANGED <<raw, modules, seeded, held, written, answer, registered,
                       hooks, game>>
    BY DEF Registered, Become, Listed
  <1>2. Len(modules) \in Nat /\ Len(todo) = 0
    BY <1>1 DEF TypeInv
  <1>3. /\ hooks = <<>>
        /\ \A i, j \in 1..Len(modules) :
              modules[i] # None /\ modules[i] = modules[j] => i = j
    BY <1>1, <1>2 DEF RegisterInv
  <1>4. /\ Listed \in Seq(R)
        /\ \A i, j \in 1..Len(Listed) :
              Used(Listed[i]) /\ Used(Listed[j]) /\ Listed[i].id = Listed[j].id
                 => i = j
    BY <1>1, <1>3, ListedOnce DEF GameInv
  <1>5. Listed' = Listed
    BY <1>1 DEF Listed
  <1>6. TypeInv' /\ GameInv' /\ SeededInv' /\ RegisterInv'
    BY <1>1 DEF TypeInv, GameInv, SeededInv, RegisterInv
  <1>7. OrderInv'
    <2>1. Len(Listed) - Len(Listed) = 0 /\ Len(Listed) \in Nat
      BY <1>4
    <2>2. hooks \in Seq(FeatureNames) /\ ToSet(hooks) = {} /\ Len(hooks) = 0
      BY <1>3 DEF ToSet
    <2> HIDE DEF R
    <2> QED BY <1>1, <1>4, <1>5, <2>1, <2>2 DEF OrderInv, R
  <1> QED BY <1>6, <1>7

\* Putting a feature in its place keeps the invariant.
LEMMA OrderStep == CompileInv /\ Order => CompileInv'
  <1> SUFFICES ASSUME CompileInv, Order PROVE CompileInv'
    OBVIOUS
  <1> USE DEF CompileInv
  <1> DEFINE R == [id : Names \cup FeatureNames \cup {None}, enabled : BOOLEAN]
             n == Len(Listed)
             k == n - Len(todo)
             f == Head(todo)
  <1>1. /\ pc = "order" /\ todo # <<>>
        /\ pc' = IF Used(f) /\ f.id \notin registered THEN "refused" ELSE "order"
        /\ hooks' = IF Used(f) THEN Append(hooks, f.id) ELSE hooks
        /\ todo' = Tail(todo)
        /\ UNCHANGED <<raw, modules, seeded, held, written, answer, registered,
                       game>>
    BY DEF Order, Become, Used
  <1>2. /\ Listed \in Seq(R)
        /\ \A i, j \in 1..n :
              Used(Listed[i]) /\ Used(Listed[j]) /\ Listed[i].id = Listed[j].id
                 => i = j
        /\ todo \in Seq(R) /\ k \in 0..n
        /\ \A i \in 1..Len(todo) : todo[i] = Listed[k + i]
        /\ hooks \in Seq(FeatureNames)
        /\ ToSet(hooks) = {Listed[i].id : i \in {j \in 1..k : Used(Listed[j])}}
        /\ None \notin ToSet(hooks)
        /\ \A i, j \in 1..Len(hooks) : hooks[i] = hooks[j] => i = j
    BY <1>1 DEF OrderInv
  <1>3. n \in Nat
    BY <1>2
  <1> HIDE DEF R
  <1>4. /\ f = Listed[k + 1] /\ f \in R
        /\ todo' \in Seq(R) /\ n - Len(todo') = k + 1 /\ k + 1 \in 1..n
        /\ \A i \in 1..Len(todo') : todo'[i] = Listed[k + 1 + i]
    <2> HIDE DEF n
    <2> QED BY <1>1, <1>2, <1>3, RestOfList
  <1>5. Listed' = Listed
    BY <1>1 DEF Listed
  <1> HIDE DEF n, k, f
  <1>6. TypeInv' /\ GameInv' /\ SeededInv' /\ RegisterInv'
    BY <1>1 DEF TypeInv, GameInv, SeededInv, RegisterInv
  <1>7. CASE pc' = "refused"
    BY <1>6, <1>7 DEF OrderInv
  <1>8. CASE pc' = "order"
    <2>0. k \in Nat /\ 1..(k + 1) = 1..k \cup {k + 1} /\ k + 1 \in 0..n
      BY <1>2, <1>3, <1>4
    <2> DEFINE K == Len(Listed') - Len(todo')
    <2>1. K = k + 1 /\ K \in 0..Len(Listed')
      BY <1>4, <1>5, <2>0 DEF n
    <2>2. /\ hooks' \in Seq(FeatureNames)
          /\ ToSet(hooks') =
                {Listed[i].id : i \in {j \in 1..(k + 1) : Used(Listed[j])}}
          /\ None \notin ToSet(hooks')
          /\ \A i, j \in 1..Len(hooks') : hooks'[i] = hooks'[j] => i = j
      <3>1. CASE ~Used(f)
        <4>1. hooks' = hooks
          BY <1>1, <3>1
        <4>2. {j \in 1..(k + 1) : Used(Listed[j])}
                 = {j \in 1..k : Used(Listed[j])}
          BY <1>4, <2>0, <3>1
        <4> QED BY <1>2, <4>1, <4>2
      <3>2. CASE Used(f)
        <4>1. hooks' = Append(hooks, f.id) /\ f.id \in registered
          BY <1>1, <1>8, <3>2
        <4>2. f.id \in FeatureNames /\ f.id # None
          BY <4>1 DEF TypeInv
        <4>3. f.id \notin ToSet(hooks)
          <5>1. ASSUME NEW i \in 1..k, Used(Listed[i]), Listed[i].id = f.id
                PROVE  FALSE
            <6>1. i \in 1..n /\ k + 1 \in 1..n /\ i # k + 1
              BY <1>3, <1>4, <2>0
            <6>2. Used(Listed[k + 1]) /\ Listed[k + 1].id = f.id
              BY <1>4, <3>2
            <6> QED BY <1>2, <5>1, <6>1, <6>2
          <5> QED BY <1>2, <5>1
        <4>4. /\ hooks' \in Seq(FeatureNames)
              /\ ToSet(hooks') = ToSet(hooks) \cup {f.id}
              /\ \A i, j \in 1..Len(hooks') : hooks'[i] = hooks'[j] => i = j
          <5> DEFINE x == f.id
                     h == Append(hooks, x)
          <5>1. hooks \in Seq(FeatureNames) /\ x \in FeatureNames
                /\ \A i, j \in 1..Len(hooks) : hooks[i] = hooks[j] => i = j
            BY <1>2, <4>2
          <5>2. \A i \in 1..Len(hooks) : hooks[i] # x
            BY <1>2, <4>3 DEF ToSet
          <5> HIDE DEF x
          <5>3. /\ h \in Seq(FeatureNames) /\ Len(h) = Len(hooks) + 1
                /\ Len(hooks) \in Nat
                /\ \A i \in 1..Len(hooks) : h[i] = hooks[i]
                /\ h[Len(hooks) + 1] = x /\ DOMAIN h = 1..(Len(hooks) + 1)
                /\ DOMAIN hooks = 1..Len(hooks)
            BY <5>1
          <5> HIDE DEF h
          <5>4. ToSet(h) = ToSet(hooks) \cup {x}
            <6>1. ToSet(h) = {h[i] : i \in 1..(Len(hooks) + 1)}
              BY <5>3 DEF ToSet
            <6>2. ToSet(hooks) = {hooks[i] : i \in 1..Len(hooks)}
              BY <5>3 DEF ToSet
            <6>3. 1..(Len(hooks) + 1) = 1..Len(hooks) \cup {Len(hooks) + 1}
              BY <5>3
            <6> QED BY <5>3, <6>1, <6>2, <6>3
          <5>5. \A i, j \in 1..Len(h) : h[i] = h[j] => i = j
            BY <5>1, <5>2, <5>3
          <5> QED BY <4>1, <5>3, <5>4, <5>5 DEF h, x
        <4>5. {j \in 1..(k + 1) : Used(Listed[j])}
                 = {j \in 1..k : Used(Listed[j])} \cup {k + 1}
          BY <1>4, <2>0, <3>2
        <4>6. ToSet(hooks') =
                 {Listed[i].id : i \in {j \in 1..(k + 1) : Used(Listed[j])}}
          BY <1>2, <1>4, <4>4, <4>5
        <4>7. None \notin ToSet(hooks')
          BY <1>2, <4>2, <4>4
        <4> QED BY <4>4, <4>6, <4>7
      <3> QED BY <3>1, <3>2
    <2> HIDE DEF K
    <2>3. /\ Listed' \in Seq(R)
          /\ \A i, j \in 1..Len(Listed') :
                Used(Listed'[i]) /\ Used(Listed'[j])
                /\ Listed'[i].id = Listed'[j].id => i = j
          /\ todo' \in Seq(R) /\ K \in 0..Len(Listed')
          /\ \A i \in 1..Len(todo') : todo'[i] = Listed'[K + i]
          /\ ToSet(hooks') =
                {Listed'[i].id : i \in {j \in 1..K : Used(Listed'[j])}}
      BY <1>2, <1>4, <1>5, <2>1, <2>2 DEF n
    <2>4. OrderInv'
      BY <1>8, <2>2, <2>3, Zenon DEF OrderInv, K, R, Used
    <2> QED BY <1>6, <2>4
  <1> QED BY <1>1, <1>7, <1>8

\* Returning the game keeps the invariant.
LEMMA CompiledStep == CompileInv /\ Compiled => CompileInv'
  <1> SUFFICES ASSUME CompileInv, Compiled PROVE CompileInv'
    OBVIOUS
  <1> USE DEF CompileInv
  <1>1. /\ pc = "order" /\ todo = <<>> /\ pc' \in {"refused", "game"}
        /\ UNCHANGED <<raw, modules, seeded, held, written, answer, todo,
                       registered, hooks, game>>
    BY DEF Compiled, Become
  <1>2. Listed' = Listed
    BY <1>1 DEF Listed
  <1>3. TypeInv' /\ GameInv' /\ SeededInv' /\ RegisterInv'
    BY <1>1 DEF TypeInv, GameInv, SeededInv, RegisterInv
  <1>4. OrderInv'
    BY <1>1, <1>2 DEF OrderInv
  <1> QED BY <1>3, <1>4

\* Callers change nothing but the substitution lists they were lent.
LEMMA CallersStep ==
    ASSUME CompileInv,
           \/ AskForParts \/ AskForDefinition
           \/ \E list \in held : WriteList(list)
    PROVE  CompileInv'
  <1> USE DEF CompileInv
  <1>1. /\ pc = "game"
        /\ UNCHANGED <<raw, modules, seeded, pc, todo, registered, hooks>>
    BY DEF AskForParts, AskForDefinition, WriteList, Kept
  <1>2. <<"game", "strips">> \notin held'
    <2>1. <<"game", "strips">> \notin Lent \cup Copies
      BY DEF Lent, Copies
    <2>2. held' \subseteq held \cup Lent \cup Copies
      BY DEF AskForParts, AskForDefinition, WriteList
    <2> QED BY <2>1, <2>2 DEF GameInv
  <1>3. Valid(raw) /\ RawDefinition(raw) /\ KeptGame(raw, game)
    BY <1>1 DEF GameInv, TypeInv
  <1>4. KeptGame(raw, game')
    <2>1. CASE AskForParts \/ AskForDefinition
      BY <1>3, <2>1 DEF AskForParts, AskForDefinition
    <2>2. CASE \E list \in held : WriteList(list)
      <3>1. PICK list \in held : WriteList(list)
        BY <2>2
      <3>2. list # <<"game", "strips">>
        BY DEF GameInv
      <3>3. CASE list = <<"game", "substitutes">>
        <4>1. PICK symbols \in Overwritten(game.symbols) :
                 game' = [game EXCEPT !.symbols = symbols]
          BY <3>1, <3>3 DEF WriteList
        <4> QED BY <1>3, <4>1, OverwrittenIsKept
      <3>4. CASE list # <<"game", "substitutes">>
        BY <1>3, <3>1, <3>2, <3>4 DEF WriteList
      <3> QED BY <3>3, <3>4
    <2> QED BY <2>1, <2>2
  <1>5. Listed' = Listed
    BY <1>1 DEF Listed
  <1>6. TypeInv' /\ SeededInv' /\ RegisterInv'
    BY <1>1 DEF TypeInv, SeededInv, RegisterInv
  <1>7. GameInv'
    BY <1>1, <1>2, <1>3, <1>4 DEF GameInv
  <1>8. OrderInv'
    BY <1>1, <1>5 DEF OrderInv
  <1> QED BY <1>6, <1>7, <1>8

\* Every step keeps the invariant.
LEMMA NextInv == CompileInv /\ [Next]_vars => CompileInv'
  <1> SUFFICES ASSUME CompileInv, [Next]_vars PROVE CompileInv'
    OBVIOUS
  <1>1. CASE UNCHANGED vars \/ Idle
    <2>1. UNCHANGED vars
      BY <1>1 DEF Idle
    <2>2. Listed' = Listed
      BY <2>1 DEF Listed, vars
    <2> QED BY <2>1, <2>2 DEF CompileInv, TypeInv, GameInv, SeededInv,
                              RegisterInv, OrderInv, vars
  <1>2. CASE Next /\ ~Idle
    BY <1>2, CheckSeededStep, ValidateStep, RegisterStep, RegisteredStep,
       OrderStep, CompiledStep, CallersStep DEF Next
  <1> QED BY <1>1, <1>2

\* The invariant holds in every state of a compilation, whatever the definition
\* and the registry: only valid definitions get past validation, the registry
\* holds each feature once, and the hooks ordered so far are its features.
THEOREM CompileInvHolds == Spec => []CompileInv
  BY InitInv, NextInv, PTL DEF Spec

------------------------------------------------------------------------------
(* The theorems.                                                             *)

\* No feature's hooks run twice, and none that is switched off: compilation
\* refuses a module given twice and a declaration made twice, and orders what
\* is declared and switched on.
THEOREM FeaturesRunOnce == Spec => []HooksRunOnce
  <1>1. CompileInv => HooksRunOnce
    <2> SUFFICES ASSUME CompileInv, pc = "game"
                 PROVE  /\ \A i, j \in DOMAIN hooks : hooks[i] = hooks[j] => i = j
                        /\ None \notin ToSet(hooks)
                        /\ raw.features # <<>> => ToSet(hooks) =
                             {f.id : f \in {g \in ToSet(raw.features) : g.enabled}}
      BY DEF HooksRunOnce
    <2> DEFINE n == Len(Listed)
    <2>1. /\ todo = <<>> /\ hooks \in Seq(FeatureNames)
          /\ Listed \in Seq([id : Names \cup FeatureNames \cup {None},
                             enabled : BOOLEAN])
          /\ None \notin ToSet(hooks)
          /\ \A i, j \in 1..Len(hooks) : hooks[i] = hooks[j] => i = j
      BY DEF CompileInv, OrderInv
    <2>2. n \in Nat /\ n - Len(todo) = n
      BY <2>1
    <2>3. ToSet(hooks) = {Listed[i].id : i \in {j \in 1..n : Used(Listed[j])}}
      BY <2>2 DEF CompileInv, OrderInv
    <2>4. ASSUME raw.features # <<>>
          PROVE  ToSet(hooks) =
                    {f.id : f \in {g \in ToSet(raw.features) : g.enabled}}
      <3>1. Listed = raw.features
        BY <2>4 DEF Listed
      <3>2. raw.features \in Seq([id : Names, enabled : BOOLEAN])
        BY DEF CompileInv, TypeInv, RawDefinition
      <3>3. DOMAIN Listed = 1..n /\ \A i \in 1..n : Listed[i].id # None
        <4> DEFINE s == raw.features
                   N == [id : Names, enabled : BOOLEAN]
        <4>1. \A x \in N : x.id \in Names
          OBVIOUS
        <4>0. s \in Seq(N)
          BY <3>2
        <4> HIDE DEF s, N
        <4>2. /\ DOMAIN s = 1..Len(s)
              /\ \A i \in 1..Len(s) : s[i] \in N
          BY <4>0
        <4>3. None \notin Names
          BY CompileAssumption
        <4>4. \A i \in 1..Len(s) : s[i].id # None
          BY <4>1, <4>2, <4>3
        <4> QED BY <3>1, <4>2, <4>4 DEF s
      <3>4. {j \in 1..n : Used(Listed[j])} = {j \in 1..n : Listed[j].enabled}
        BY <3>3 DEF Used
      <3> HIDE DEF n
      <3>5. {f.id : f \in {g \in ToSet(Listed) : g.enabled}}
               = {Listed[i].id : i \in {j \in 1..n : Listed[j].enabled}}
        <4> DEFINE s == Listed
        <4> HIDE DEF s
        <4>1. DOMAIN s = 1..n
          BY <3>3 DEF s
        <4>2. {f.id : f \in {g \in ToSet(s) : g.enabled}}
                 = {s[i].id : i \in {j \in 1..n : s[j].enabled}}
          BY <4>1 DEF ToSet
        <4> QED BY <4>2 DEF s
      <3> QED BY <2>3, <3>1, <3>4, <3>5
    <2> QED BY <2>1, <2>4
  <1> QED BY <1>1, CompileInvHolds, PTL

\* Whatever definition an author writes and whatever callers do to what they
\* are lent, a game that was compiled is one the engine and the grid can play,
\* and it accepts the request PlaySeeded compiled it for.
THEOREM CompiledIsSound == Spec => []CompiledGamesAreSound
  <1>1. CompileInv => CompiledGamesAreSound
    <2> SUFFICES ASSUME CompileInv, pc = "game"
                 PROVE  CompiledGamesAreSound
      BY DEF CompiledGamesAreSound
    <2>1. /\ Valid(raw) /\ RawDefinition(raw) /\ KeptGame(raw, game)
          /\ hooks \in Seq(FeatureNames)
      BY DEF CompileInv, TypeInv, GameInv, OrderInv
    <2>2. SpinView(game, hooks) \in Definition
      BY <2>1, KeptPlays
    <2>3. /\ game.id = raw.id /\ game.version = raw.version
          /\ game.reelSets = raw.reelSets
          /\ game.baseReelSet = BaseReelSet(raw)
          /\ game.free = FilledFreeSpins(raw.free)
      BY <2>1, KeptFields
    <2>4. game.baseReelSet \in DOMAIN game.reelSets
      BY <2>1, <2>3 DEF Valid
    <2>5. game.free.enabled =>
             game.free.reelSet \in DOMAIN game.reelSets \cup {NoName}
      <3>1. raw.free \in FreeSection
        BY <2>1, SectionsAre
      <3>2. raw.free.enabled => /\ raw.free.policy \in Policies \cup {NoName}
               /\ raw.free.reelSet \in DOMAIN raw.reelSets \cup {NoName}
        BY <2>1 DEF Valid, ValidFreeSpins
      <3>3. game.free.enabled = raw.free.enabled
            /\ game.free.reelSet = raw.free.reelSet
        BY <2>3, <3>1, <3>2, FreeSpinsFilled
      <3> QED BY <2>3, <3>2, <3>3
    <2>6. ASSUME NEW name \in DOMAIN game.reelSets
          PROVE  GridView(game, name) \in Game /\ WellFormed(GridView(game, name))
      BY <2>1, GridSeenIs, KeptGridTyped, KeptGridFormed
    <2>7. seeded # None => SpinAccepts(seeded.spin)
      BY <2>3 DEF CompileInv, SeededInv, SpinAccepts
    <2> QED BY <2>2, <2>4, <2>5, <2>6, <2>7 DEF CompiledGamesAreSound
  <1> QED BY <1>1, CompileInvHolds, PTL

\* As long as nobody wrote to the game's own lists, Definition() answers what
\* was compiled.
StableInv ==
    /\ pc # "game" => answer = None /\ <<"game", "substitutes">> \notin written
    /\ <<"game", "substitutes">> \notin written =>
          /\ pc \in {"register", "order", "game"} => game = Filled(raw)
          /\ answer \in {None, game}

\* Lists of symbols that agree in these fields.
LEMMA SameParts ==
    ASSUME NEW t, NEW s, DOMAIN t = DOMAIN s,
           \A i \in DOMAIN s : /\ t[i].id = s[i].id /\ t[i].kind = s[i].kind
                               /\ t[i].pays = s[i].pays
    PROVE  [i \in DOMAIN t |-> [id |-> t[i].id, kind |-> t[i].kind,
                                pays |-> t[i].pays]]
           = [i \in DOMAIN s |-> [id |-> s[i].id, kind |-> s[i].kind,
                                  pays |-> s[i].pays]]
  OBVIOUS

\* A game that is kept but for its substitution lists shows nothing else.
LEMMA KeptUnlent ==
    ASSUME NEW d, RawDefinition(d), Valid(d), NEW g, KeptGame(d, g)
    PROVE  Unlent(g) = Unlent(Filled(d))
  <1> DEFINE parts(t) == [i \in DOMAIN t |-> [id |-> t[i].id, kind |-> t[i].kind,
                                              pays |-> t[i].pays]]
             e == Filled(d)
  <1>1. g = [e EXCEPT !.symbols = g.symbols]
    BY DEF KeptGame
  <1>2. e.symbols = d.symbols
    BY FilledFields
  <1>3. DOMAIN g.symbols = DOMAIN d.symbols
    BY DEF KeptGame, SameSymbols, RawDefinition
  <1>4. parts(g.symbols) = parts(e.symbols)
    <2>1. \A i \in DOMAIN d.symbols :
             /\ g.symbols[i].id = d.symbols[i].id
             /\ g.symbols[i].kind = d.symbols[i].kind
             /\ g.symbols[i].pays = d.symbols[i].pays
      <3>1. SameSymbols(g.symbols, d.symbols)
        BY DEF KeptGame
      <3>2. DOMAIN d.symbols = 1..Len(d.symbols)
        BY DEF RawDefinition
      <3> QED BY <3>1, <3>2 DEF SameSymbols
    <2>2. parts(g.symbols) = parts(d.symbols)
      BY <1>3, <2>1, SameParts, Zenon
    <2> QED BY <1>2, <2>2
  <1>5. Unlent(g) = [g EXCEPT !.symbols = parts(g.symbols)]
    BY DEF Unlent
  <1>6. Unlent(e) = [e EXCEPT !.symbols = parts(e.symbols)]
    BY DEF Unlent
  <1>7. [g EXCEPT !.symbols = parts(e.symbols)]
           = [e EXCEPT !.symbols = parts(e.symbols)]
    <2> HIDE DEF e, parts
    <2> QED BY <1>1
  <1> QED BY <1>4, <1>5, <1>6, <1>7

\* Whatever callers write to, the game keeps the author's definition with the
\* defaults filled in, but for the substitution lists Symbol lends; and asking
\* for it never fails and never gives anything else while those are left alone.
\* A run shows what becomes of the definition when a caller writes to them.
THEOREM DefinitionStays == Spec => []WritesReachLentListsOnly
  <1>1. Init => StableInv
    BY DEF Init, StableInv
  <1>2. CompileInv /\ StableInv /\ [Next]_vars => StableInv'
    <2> SUFFICES ASSUME CompileInv, StableInv, [Next]_vars PROVE StableInv'
      OBVIOUS
    <2> USE DEF StableInv
    <2>1. CASE UNCHANGED vars \/ Idle
      BY <2>1 DEF Idle, vars
    <2>2. CASE CheckSeeded
      BY <2>2 DEF CheckSeeded, Become
    <2>3. CASE Validate
      BY <2>3 DEF Validate, Become
    <2>4. CASE Register \/ Registered \/ Order \/ Compiled
      BY <2>4 DEF Register, Registered, Order, Compiled, Become
    <2>5. CASE AskForParts
      BY <2>5 DEF AskForParts, Kept
    <2>6. CASE AskForDefinition
      <3>0. /\ pc = "game" /\ UNCHANGED <<game, raw, pc, written>>
            /\ answer' = IF Valid(game) THEN Filled(game) ELSE Panic
        BY <2>6 DEF AskForDefinition, Kept
      <3>1. CASE <<"game", "substitutes">> \in written
        BY <3>0, <3>1
      <3>2. CASE <<"game", "substitutes">> \notin written
        <4>1. RawDefinition(raw) /\ Valid(raw) /\ game = Filled(raw)
          BY <3>0, <3>2 DEF CompileInv, TypeInv, GameInv
        <4>2. Valid(game) /\ Filled(game) = game
          BY <4>1, FilledIsValid, FilledOnce
        <4> QED BY <3>0, <4>1, <4>2
      <3> QED BY <3>1, <3>2
    <2>7. CASE \E list \in held : WriteList(list)
      <3>1. PICK list \in held : WriteList(list)
        BY <2>7
      <3>2. list # <<"game", "strips">>
        BY <3>1 DEF CompileInv, GameInv
      <3>3. CASE list = <<"game", "substitutes">>
        <4>1. <<"game", "substitutes">> \in written' /\ pc' = "game"
          BY <3>1, <3>3 DEF WriteList, Kept
        <4> QED BY <4>1
      <3>4. CASE list # <<"game", "substitutes">>
        <4>1. /\ UNCHANGED <<game, raw, pc, answer>> /\ pc = "game"
              /\ written' = written \cup {list}
          BY <3>1, <3>2, <3>4 DEF WriteList, Kept
        <4>2. <<"game", "substitutes">> \in written'
              <=> <<"game", "substitutes">> \in written
          BY <3>4, <4>1
        <4> QED BY <4>1, <4>2
      <3> QED BY <3>3, <3>4
    <2> QED BY <2>1, <2>2, <2>3, <2>4, <2>5, <2>6, <2>7 DEF Next
  <1>3. CompileInv /\ StableInv => WritesReachLentListsOnly
    <2> SUFFICES ASSUME CompileInv, StableInv, pc = "game"
                 PROVE  Unlent(game) = Unlent(Filled(raw))
      BY DEF StableInv, WritesReachLentListsOnly
    <2>1. RawDefinition(raw) /\ Valid(raw) /\ KeptGame(raw, game)
      BY DEF CompileInv, TypeInv, GameInv
    <2> QED BY <2>1, KeptUnlent
  <1> QED BY <1>1, <1>2, <1>3, CompileInvHolds, PTL DEF Spec
==============================================================================
