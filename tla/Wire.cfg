SPECIFICATION Spec
CONSTANTS
    Clients = {"a", "b"}
    Lists <- MCLists
    Searches <- MCSearches
    Maximum <- MCMaximum
    Answers <- MCAnswers
    MaxRequests = 5
    Tags = {"a", "b"}
    DefaultTag = "a"
    Sizes = {1, 2, 3}
    MaxCount = 4
    MaxMessages = 5
    Chips <- MCChips
    FileSets <- MCFileSets
    Firmwares <- MCFirmwares
    ConfigLength = 3
    FragmentLength = 4
    Indices = 3
    t1 = t1  t2 = t2  h1 = h1  h2 = h2
    p1 = p1  p2 = p2  p3 = p3  p4 = p4
    Tasks = {t1, t2}
    Handles = {h1, h2}
    Pdus <- MCPdus
    Size <- MCSize
    HandleOf <- MCOwnHandles
    MaxSize = 2
    MaxLost = 2
INVARIANTS
    NeverInterrupted
    AssembledWhole
    RoundTrips
    AnswersWhole
    AssembledIsSent
    FirmwareLoads
PROPERTIES
    AllArrive
\* Two tasks send, each on a connection of its own.  Every part stops: at the bound of its requests or messages, or when loaded.
CHECK_DEADLOCK FALSE
