CONSTANTS
    old = old
    new = new
    case = case
    main = main
    worker = worker
    NoItem = NoItem
    Items <- MCItems
    DocOf <- MCDocOf
    Domain <- MCDomain
    Kind <- MCKind
    Parts <- MCParts
    Corpus <- MCCorpus
    Loaders <- MCLoaders
    Main = main
    MaxStarts = 3
SPECIFICATION Spec
INVARIANTS CopiesBounded Aligned FilesMatch Searchable
CHECK_DEADLOCK FALSE
