SPECIFICATION Spec
CONSTANTS
    ann = ann
    ben = ben
    bot = bot
    rule = rule
    tap = tap
    tap2 = tap2
    nudge = nudge
    step = step
    evening = evening
    plug = plug
    heater = heater
    chime = chime
    station = station
    floor = floor
    Settings = {floor}
    Ends = {station}
    Links <- Fed
    GraveEnds = {station}
    Mute = {}
    Dangerous = {floor}
    ReadOnly = {}
    Actors = {ann, ben, bot, rule}
    Kind <- MCKind
    Runs = {}
    NoRun = NoRun
    RunOf <- Free
    AskedBy <- ByTriggers
    Switches <- Twice
    RunSwitchCeiling = 3
    RunGap = 1
    PersonDwell = 1
    AgentDwell = 1
    AutomationDwell = 2
    UserWriteDwell = 2
    SendTimeout = 1
    VerifyTimeout = 1
    MaxDataAge = 3
    TTL = 1
    OwnClock = {}
    Reporting = {}
    Delayed = {}
    Restless = {}
    Unsteady = {}
    Weighing = {plug}
    LastAsk = 0
    MaxTokens = 2
    Horizon = 1
    MaxRestarts = 0
    Parts = {plug}
    Callers = {tap, tap2, step}
    By <- PeopleBy
CHECK_DEADLOCK FALSE
INVARIANT YesIsForThis
