SPECIFICATION FairSpec
CONSTANTS
    Ncyl = 2
    Nsec = 2
    Asked = {1, 3, 4}
    Data <- TwoBlocks
    Nothing = Nothing
    Unknown = Unknown
    MaxKills = 2
    MaxCrashes = 2
INVARIANTS
    Coherent
    Durable
    Cut
PROPERTIES
    Returns
