SPECIFICATION RouterSpec
CONSTANTS
    text = text
    image = image
    h1 = h1
    h2 = h2
    ItemKinds = {text, image}
    Handlers = {h1, h2}
    None = None
    ByKind = ByKind
    MaxItems = 2
    MaxMessages = 2
    MaxSets = 3
SYMMETRY Symmetry
CHECK_DEADLOCK FALSE
INVARIANTS CacheIsCurrent NilNeedsRace
PROPERTY RoutedAsRegistered
