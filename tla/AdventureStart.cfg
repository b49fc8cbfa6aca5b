SPECIFICATION Spec
CONSTANTS
    author = author
    player = player
    written = written
    builtin = builtin
    v1 = v1
    v2 = v2
    trial = trial
    old = old
    new = new
    p1 = p1
    p2 = p2
    c1 = c1
    c2 = c2
    k1 = k1
    k2 = k2
    NoOne = NoOne
    Callers = {p1, p2}
    Principals = {author, player}
    Keys = {k1}
    Stories = {written, builtin}
    Versions = {v1, v2, trial, old, new}
    Campaigns = {c1, c2}
    StoryOf <- TheStory
    Owner <- TheOwner
    Playtests = {trial}
    Builtin = {old, new}
    Latest = new
    First = v1
    Wants <- SomeWants
    MaxChanges = 2
SYMMETRY CallerSymmetry
INVARIANTS
    AnswersAgree
    StartsAreWhole
PROPERTIES
    StartedAsOffered
CHECK_DEADLOCK FALSE
