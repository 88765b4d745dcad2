SPECIFICATION Spec
CONSTANTS
    main = main
    sub = sub
    plain = plain
    git = git
    b1 = b1
    b2 = b2
    None = none
    Clients = {c1, c2, c3}
    Dirs = {main, sub, plain}
    Inside <- InsideEach
    RepoOf <- RepoOfEach
    Linked = {main}
    Branches = {b1, b2}
    Folder <- FolderOfBoth
    MaxIds = 4
    Crashable = {c1, c2, c3}
SYMMETRY Symmetry
INVARIANTS
    CatalogIsValid
    TakingTurnsIsEnough
    DiscoveryRecovers
CHECK_DEADLOCK FALSE
