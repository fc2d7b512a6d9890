SPECIFICATION Spec
CONSTANTS
    ann = ann
    ben = ben
    bot = bot
    rule = rule
    tap = tap
    tap2 = tap2
    nudge = nudge
    step = step
    evening = evening
    plug = plug
    heater = heater
    chime = chime
    station = station
    floor = floor
    Settings = {}
    Ends = {}
    Links <- Unlinked
    GraveEnds = {}
    Mute = {}
    Dangerous = {}
    ReadOnly = {}
    Actors = {ann, ben, bot, rule}
    Kind <- MCKind
    Runs = {evening}
    NoRun = NoRun
    RunOf <- RunRunOf
    AskedBy <- ByTriggers
    Switches <- Twice
    RunSwitchCeiling = 3
    RunGap = 1
    PersonDwell = 1
    AgentDwell = 1
    AutomationDwell = 2
    UserWriteDwell = 1
    SendTimeout = 1
    VerifyTimeout = 1
    MaxDataAge = 2
    TTL = 1
    OwnClock = {}
    Reporting = {plug, station}
    Delayed = {}
    Restless = {}
    Unsteady = {}
    Weighing = {}
    LastAsk = 3
    MaxTokens = 4
    Horizon = 4
    MaxRestarts = 1
    Parts = {plug}
    Callers = {tap, step}
    By <- RunBy
INVARIANT TypeOK
INVARIANT DwellKept
INVARIANT AllowanceKept
INVARIANT LedgerTrue
