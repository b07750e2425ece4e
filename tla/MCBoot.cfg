CONSTANTS
    Files = {1, 2, 3}
    Contents <- SmallContents
    Garbage = Garbage
    NoFile = NoFile
    Sections <- SmallSections
    DomainOf <- SmallDomainOf
    Mapping <- SmallMapping
    EnvSecret <- SmallEnv
    DefaultAgent = "default"
    MaxStarts = 2
    MaxEdits = 2
SPECIFICATION Spec
CHECK_DEADLOCK FALSE
INVARIANTS
    BootIsRepeatable
    HashAttests
    EveryActionIsGoverned
