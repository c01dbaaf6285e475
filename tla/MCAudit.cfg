CONSTANTS
    bare = bare
    wrapped = wrapped
    lustre = lustre
    Unset = Unset
    Here = bare
    Paths <- MCPaths
    ArgLists <- MCArgLists
    BackendMaps <- MCBackendMaps
    Options <- MCOptions
SPECIFICATION Spec
CHECK_DEADLOCK FALSE
INVARIANTS
    ExitSaysWhatWasFound
    OwnRowUnlessShared
    LineIsClear
