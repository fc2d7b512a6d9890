SPECIFICATION Spec
CONSTANTS
    morning = morning
    heat = heat
    boost = boost
    floor = floor
    tank = tank
    Parts = {floor, tank}
    Automations = {morning, heat, boost}
    Changes <- TurnsChanges
    Steps <- TurnsSteps
    Starts <- TurnsStarts
    Sequences = {morning, heat}
    Rescued = {morning}
    Slow = {}
    Spaced = {}
    Paced = {morning}
    Way <- TurnsWay
    Triggered = {morning, heat, boost}
    Playable = {heat}
    QueueLimit = 1
    ChainLimit = 4
    MaxAsks = 3
    MaxCrashes = 1
    MaxRuns = 6
INVARIANT TypeOK
INVARIANT OneRunEach
INVARIANT SaidRunning
INVARIANT StartsAfresh
INVARIANT StopPassesOn
INVARIANT QueueTaken
PROPERTY GoneStaysGone
PROPERTY TurnsTaken
CHECK_DEADLOCK FALSE
