SPECIFICATION Spec
CONSTANTS
    morning = morning
    heat = heat
    boost = boost
    floor = floor
    tank = tank
    Parts = {floor, tank}
    Automations = {morning, heat, boost}
    Changes <- TurnsChanges
    Steps <- TurnsSteps
    Starts <- TurnsStarts
    Sequences = {morning, heat}
    Rescued = {morning}
    Slow = {}
    Spaced = {}
    Paced = {}
    Way <- TurnsWay
    Triggered = {boost}
    Playable = {boost}
    QueueLimit = 2
    ChainLimit = 4
    MaxAsks = 2
    MaxCrashes = 0
    MaxRuns = 6
INVARIANT StartsAfresh
CHECK_DEADLOCK FALSE
