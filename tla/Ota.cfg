CONSTANTS
    Image = {first, good, bad, foreign, stray}
    Signed = {first, good, bad, foreign}
    Ours = {first, good, bad, stray}
    Works = {first, good, foreign}
    First = first
    None = None
    MaxEvents = 2
SPECIFICATION FairSpec
INVARIANTS WorkingImage TrialsAreVerified
PROPERTIES Settles Updates
