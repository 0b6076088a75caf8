SPECIFICATION Spec
CONSTANTS
    busy = busy
    still = still
    deep = deep
    other = other
    Roots <- MCRoots
    Trees <- MCTrees
    Files <- MCFiles
    RootOf <- MCRootOf
    Deep <- MCDeep
    Busy <- MCBusy
    RootsPerCycle = 2
    CandidateLimit = 2
    MaxChanges = 1
    MaxRestarts = 1
INVARIANTS
    TypeOK
    
PROPERTIES
    ImagesAreFound
CHECK_DEADLOCK FALSE
