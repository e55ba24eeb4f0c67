SPECIFICATION Spec
CONSTANTS
    p1 = p1
    p2 = p2
    Processes = {p1, p2}
    Chars = {"a", "b", "r", "2", "R", "space", "tab", "comma"}
    HostKeys = {"oldkey", "key", "newkey"}
    Calls <- MCCalls
    Files <- MCFiles
    Network <- MCNetwork
    NewKeys <- MCNewKeys
    Torn = TRUE
INVARIANTS
    TypeOK
    FileStaysReadable
    OneKeyPerHost
    InventoryContacted
