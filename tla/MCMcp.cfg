SPECIFICATION FairSpec
CONSTANTS
    Transports = {"stdio", "http"}
    MaxClients = 4
    MaxReloads = 2
    MaxDeaths = 1
    MaxFailures = 1
    MaxUses = 1
    Attempts = 2
INVARIANTS
    CatalogIsRight
PROPERTIES
    ConnectionsAreOwned
    
CHECK_DEADLOCK FALSE
