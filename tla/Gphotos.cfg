CONSTANTS
    a = a
    b = b
    None = None
    NoLink = NoLink
    Link = {a, b}
    Slots = 2
    Key = {1, 2}
    CacheFiles = 1
    ListMax = 1
    Builtins = {1, 2}
    Newest = 3
    Published = {2}
    Uploaded = {3}
    Reads = {1, 3}
    FirstLinks <- MCFirstLinks
    FirstAlbums <- MCFirstAlbums
    Interventions = 2
SPECIFICATION Spec
CHECK_DEADLOCK FALSE
INVARIANTS OnlyProvenRules SavedLinkStands
PROPERTIES DeletesOnlyWhatLeft SavedLinkIsRead
