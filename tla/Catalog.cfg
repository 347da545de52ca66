CONSTANTS
    Absent = Absent
    Nobody = Nobody
    Folder = {"f", "g"}
    Leaf = {1, 2}
    Lists <- SomeLists
    Capacity = 3
    Arena = 4
    Interventions = 2
    LastNumber = 2
    Uploads = 2
    Accidents = 2
    Moves = 4
SPECIFICATION CardSpec
INVARIANTS FollowsShare AlbumIsTrue CardIsFollowed
PROPERTIES OthersStay EveryFolderComesRound OldNothingOrWhole
CHECK_DEADLOCK FALSE
