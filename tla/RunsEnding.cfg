SPECIFICATION FairSpec
CONSTANTS
    morning = morning
    heat = heat
    boost = boost
    floor = floor
    tank = tank
    Parts = {floor, tank}
    Automations = {morning, heat}
    Changes <- TurnsChanges
    Steps <- TurnsSteps
    Starts <- TurnsStarts
    Sequences = {morning, heat}
    Rescued = {morning}
    Slow = {heat}
    Spaced = {morning}
    Paced = {}
    Way <- TurnsWay
    Triggered = {heat}
    Playable = {}
    QueueLimit = 2
    ChainLimit = 4
    MaxAsks = 3
    MaxCrashes = 0
    MaxRuns = 6
PROPERTY RunsEnd
PROPERTY PartsComeFree
PROPERTY QueueDrains
CHECK_DEADLOCK FALSE
