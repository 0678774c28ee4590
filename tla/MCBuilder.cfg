SPECIFICATION BuilderSpec
CONSTANTS
    Refs = {"b2", "main"}
    Latest <- MCLatest
    CommitCount <- MCCommitCount
    TagNumber <- MCTagNumber
    Machines <- MCMachines
    Requests <- MCRequests
    Externals = {"lane"}
    Slots = {s1, s2}
    Pages = {p}
    Names = {"fast"}
    Scenarios <- MCScenarios
    MaxOps = 3
    IGPUs = {"gfx1036", "gfx1151"}
INVARIANTS BuildsAreAsListed PageIsTold FlagsAreTheUsers
PROPERTIES ImportIsKept
SYMMETRY Symmetry
CHECK_DEADLOCK FALSE
