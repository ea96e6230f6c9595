SPECIFICATION FairSpec
CONSTANTS
    Clients = {person, importer}
    Importers = {importer}
    LastToken = 3
    BatchSize = 2
    Concurrency = 1
    MaxQueued = 3
    MaxRetained = 3
    MaxPayload = 3
    MaxResults = 1
    Ttl = 1
    Timeout = 1
    ImportTimeout = 2
    FaultCases = {{}, {"lost"}, {"restart", "heavy"}}
INVARIANTS
    PoolInv
PROPERTIES
    PeopleFirst
    AnswersAreVerdicts
    JobsAreForgotten
CHECK_DEADLOCK FALSE
