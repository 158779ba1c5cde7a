SPECIFICATION MCSpec
CONSTANTS
    Handlers = {h1, h2}
    Remotes = {r1, r2}
    Uses <- MCUses
    MaxRequests = 3
    Contacts = {a, b}
    Names = {n1, n2}
    MaxStimuli = 4
INVARIANTS AnswersReach NothingKept  RosterTrue
SYMMETRY MCSymmetry
CHECK_DEADLOCK FALSE
