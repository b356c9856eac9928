SPECIFICATION FairSpec
CONSTANTS
    Configs <- AllConfigs
    Users <- TwoUsers
    Workers = 2
    Buffer = 1
    MaxRetries = 1
    None = None
INVARIANTS OnceEach
PROPERTIES Drains
