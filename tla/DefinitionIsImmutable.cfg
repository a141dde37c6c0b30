SPECIFICATION Spec
CONSTANTS
    Symbols = {"a", "b", "w", "s"}
    Scale = 2
    MaxInt = 60
    Evaluations = {}
    DefaultLimit = 5
    Names <- Strings
    RawDefinitions <- PlainOnly
    ModuleLists <- Modules
    SeededRequests <- Requests
    None = None
    Panic = Panic
    WrittenLists = {"substitutes"}
INVARIANT
    DefinitionIsImmutable
