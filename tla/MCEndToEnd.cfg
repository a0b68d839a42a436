SPECIFICATION FairSpec
CONSTANTS
    Rosters <- MCRosters
    Slots = 2
    MaxRetries = 1
    MaxFaults <- MCMaxFaults
    Flags <- MCFlags
INVARIANTS SeedingSound CleaningSound
PROPERTIES StagesImplemented Terminates
