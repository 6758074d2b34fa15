SPECIFICATION FairSpec
CONSTANTS
    MaxLoads = 4
INVARIANTS
    SavesAreLocked
PROPERTIES
    SandboxContract
