----------------------------- MODULE SlotCompile -----------------------------
(****************************************************************************)
(* Compile and PlaySeeded of engine/slot/engine.go, and what callers and    *)
(* feature modules may do with the definition they get: ask for it or its   *)
(* parts, keep and write to what they were handed.                          *)
(*                                                                          *)
(* A Go slice is handed over by reference.  A list is named by the owner of *)
(* its storage and what it holds: <<"game", "strips">> is the storage the   *)
(* compiled game reads its strips from.                                     *)
(****************************************************************************)
EXTENDS SlotDefinition

CONSTANTS
    RawDefinitions,     \* what authors hand over
    ModuleLists,        \* the feature modules given along
    SeededRequests,     \* [seeds, spin], or None for Compile alone
    None, Panic,        \* a nil module or no value yet; a panic
    WrittenLists        \* the lists callers write to

ASSUME CompileAssumption ==
    /\ \A d \in RawDefinitions : RawDefinition(d)
    /\ ModuleLists \subseteq Seq(FeatureNames \cup {None})
    /\ None \notin Names

VARIABLES
    raw,        \* the definition as its author wrote it
    modules,    \* the modules given along
    seeded,     \* PlaySeeded's request
    pc,         \* what happens next
    todo,       \* the modules or declarations that are still to be looked at
    registered, \* the modules' IDs
    hooks,      \* the ordered features
    game,       \* the definition the game keeps: the ValidatedDefinition's
    held,       \* the lists callers hold
    written,    \* the lists callers have written to
    answer      \* what Definition() said last

vars == <<raw, modules, seeded, pc, todo, registered, hooks, game, held,
          written, answer>>

ListNames == {"features", "payouts", "substitutes", "strips"}

NewBuiltins(d) ==
    (IF d.cascade.enabled THEN <<"cascade">> ELSE <<>>)
        \o (IF d.free.enabled THEN <<"scatter_free_spins">> ELSE <<>>)

Init ==
    /\ raw \in RawDefinitions
    /\ modules \in ModuleLists \cup IF Valid(raw) THEN {NewBuiltins(raw)} ELSE {}
    /\ seeded \in SeededRequests
    /\ pc = IF seeded = None THEN "validate" ELSE "seeded"
    /\ todo = <<>> /\ registered = {} /\ hooks = <<>> /\ game = raw
    /\ held = {"author"} \X ListNames /\ written = {}
    /\ answer = None

Become(point) ==
    /\ pc' = point
    /\ UNCHANGED <<raw, modules, seeded, held, written, answer>>

\* PlaySeeded's own checks: nothing is filled in, and the definition is not
\* validated yet.
CheckSeeded ==
    /\ pc = "seeded"
    /\ LET r == seeded.spin IN
       Become(IF /\ seeded.seeds = {"server", "client"}
                 /\ r.id = raw.id /\ r.version = raw.version /\ r.bet > 0
              THEN "validate" ELSE "refused")
    /\ UNCHANGED <<todo, registered, hooks, game>>

Validate ==
    /\ pc = "validate"
    /\ IF Valid(raw)
       THEN Become("register") /\ game' = Filled(raw) /\ todo' = modules
       ELSE Become("refused") /\ UNCHANGED <<game, todo>>
    /\ UNCHANGED <<registered, hooks>>

\* Mutation: a module given twice replaces the first.
RegisterAgain ==
    /\ pc = "register" /\ todo # <<>>
    /\ Become("register")
    /\ registered' = registered \cup ({Head(todo)} \ {None})
    /\ todo' = Tail(todo)
    /\ UNCHANGED <<hooks, game>>

\* A nil module is passed over.
Register ==
    /\ pc = "register" /\ todo # <<>>
    /\ IF Head(todo) \in registered THEN Become("refused") ELSE Become("register")
    /\ registered' = registered \cup ({Head(todo)} \ {None})
    /\ todo' = Tail(todo)
    /\ UNCHANGED <<hooks, game>>

\* A definition that declares features orders them; one that does not takes the
\* modules as they were given.
Registered ==
    /\ pc = "register" /\ todo = <<>>
    /\ Become("order")
    /\ todo' = IF raw.features # <<>> THEN raw.features
               ELSE [i \in DOMAIN modules |-> [id |-> modules[i], enabled |-> TRUE]]
    /\ UNCHANGED <<registered, hooks, game>>

Order ==
    /\ pc = "order" /\ todo # <<>>
    /\ LET f    == Head(todo)
           used == f.enabled /\ f.id # None IN
       /\ Become(IF used /\ f.id \notin registered THEN "refused" ELSE "order")
       /\ hooks' = IF used THEN Append(hooks, f.id) ELSE hooks
    /\ todo' = Tail(todo)
    /\ UNCHANGED <<registered, game>>

\* A custom multiplier policy needs a module: len(features) counts nil ones.
Compiled ==
    /\ pc = "order" /\ todo = <<>>
    /\ Become(IF raw.free.policy = "custom" /\ modules = <<>> THEN "refused"
                                                              ELSE "game")
    /\ UNCHANGED <<todo, registered, hooks, game>>

------------------------------------------------------------------------------
(* The compiled game.                                                        *)

\* Mutation: ReelSet hands out the strips themselves.
LentWithStrips == {<<"game", "substitutes">>, <<"game", "strips">>}

\* Symbol copies the payouts and lends the substitution lists; ReelSet and
\* Definition hand out copies.
Lent == {<<"game", "substitutes">>}

Copies == {"caller"} \X {"payouts", "strips", "features"}

Kept == UNCHANGED <<raw, modules, seeded, pc, todo, registered, hooks>>

\* Symbol and ReelSet.
AskForParts ==
    /\ pc = "game"
    /\ held' = held \cup Lent \cup Copies
    /\ Kept /\ UNCHANGED <<game, written, answer>>

\* Definition validates the game's definition once more, and does not look at
\* the error: on one that is not valid it panics.
AskForDefinition ==
    /\ pc = "game"
    /\ answer' = IF Valid(game) THEN Filled(game) ELSE Panic
    /\ held' = held \cup Copies
    /\ Kept /\ UNCHANGED <<game, written>>

\* One element of a list becomes another symbol.  The lists of what a wild may
\* not stand in for, and the metadata, are lent in the same way.
Overwritten(symbols) ==
    UNION {{[symbols EXCEPT ![i].substitutes = (@ \ {old}) \cup {new}] :
               old \in symbols[i].substitutes, new \in Symbols \cup {NoName}} :
           i \in DOMAIN symbols}

OverwrittenStrips(sets) ==
    UNION {{[sets EXCEPT ![name][1][1] = new] : new \in Symbols \cup {NoName}} :
           name \in DOMAIN sets}

\* A caller writes to a list it holds; who else reads that storage sees it.
WriteList(list) ==
    /\ pc = "game" /\ list \in held \ written /\ list[2] \in WrittenLists
    /\ written' = written \cup {list}
    /\ CASE list = <<"game", "substitutes">> ->
              \E symbols \in Overwritten(game.symbols) :
                 game' = [game EXCEPT !.symbols = symbols]
         [] list = <<"game", "strips">> ->
              \E sets \in OverwrittenStrips(game.reelSets) :
                 game' = [game EXCEPT !.reelSets = sets]
         [] OTHER -> UNCHANGED game
    /\ Kept /\ UNCHANGED <<held, answer>>

Idle == pc \in {"refused", "game"} /\ UNCHANGED vars

Next ==
    \/ CheckSeeded \/ Validate \/ Register \/ Registered \/ Order \/ Compiled
    \/ AskForParts \/ AskForDefinition
    \/ \E list \in held : WriteList(list)
    \/ Idle

Spec == Init /\ [][Next]_vars

------------------------------------------------------------------------------
(* Properties.                                                               *)

\* The checks Game.Spin makes of a request.
SpinAccepts(r) ==
    r.id \in {NoName, game.id} /\ r.version \in {NoName, game.version} /\ r.bet > 0

\* Whatever passes ValidateDefinition is a game SlotSpin and SlotGrid can play:
\* every reel set, the base game's and the free spins' among them, has a strip
\* as long as the shortest window for every reel, and no multiplier is negative.
\* The game compiled for a seeded request does not refuse that request.
CompiledGamesAreSound ==
    pc = "game" =>
        /\ SpinView(game, hooks) \in Definition
        /\ game.baseReelSet \in DOMAIN game.reelSets
        /\ game.free.enabled =>
              game.free.reelSet \in DOMAIN game.reelSets \cup {NoName}
        /\ \A name \in DOMAIN game.reelSets :
              GridView(game, name) \in Game /\ WellFormed(GridView(game, name))
        /\ seeded # None => SpinAccepts(seeded.spin)

\* No feature's hooks run twice, whether modules or declarations repeat it; a
\* feature the definition switches off is not run at all.
HooksRunOnce ==
    pc = "game" =>
        /\ \A i, j \in DOMAIN hooks : hooks[i] = hooks[j] => i = j
        /\ None \notin ToSet(hooks)
        /\ raw.features # <<>> =>
              ToSet(hooks) = {f.id : f \in {g \in ToSet(raw.features) : g.enabled}}

\* What is never lent: a definition without its symbols' substitution lists.
Unlent(d) ==
    [d EXCEPT !.symbols = [i \in DOMAIN @ |-> [id |-> @[i].id, kind |-> @[i].kind,
                                               pays |-> @[i].pays]]]

\* Whatever callers write to, the game keeps the author's definition, defaults
\* filled in, but for the substitution lists Symbol lends.  As long as nobody
\* writes to those, Definition answers exactly that: filling the defaults in
\* once more changes nothing and never fails.
WritesReachLentListsOnly ==
    pc = "game" =>
        /\ Unlent(game) = Unlent(Filled(raw))
        /\ <<"game", "substitutes">> \notin written =>
              game = Filled(raw) /\ answer \in {None, game}

\* core/slot/config.go:188 says "ValidatedDefinition wraps an immutable deep
\* copy of Definition": asking for it gives what was compiled.
DefinitionIsImmutable == pc = "game" => answer \in {None, Filled(raw)}
==============================================================================
