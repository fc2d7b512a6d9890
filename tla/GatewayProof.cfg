SPECIFICATION FairSpec
CONSTANTS
    ann = ann
    ben = ben
    bot = bot
    rule = rule
    tap = tap
    tap2 = tap2
    nudge = nudge
    step = step
    evening = evening
    plug = plug
    heater = heater
    chime = chime
    station = station
    floor = floor
    Settings = {}
    Ends = {station}
    Links <- Fed
    GraveEnds = {}
    Mute = {}
    Dangerous = {}
    ReadOnly = {}
    Actors = {ann, ben, bot, rule}
    Kind <- MCKind
    Runs = {}
    NoRun = NoRun
    RunOf <- Free
    AskedBy <- ByTriggers
    Switches <- Twice
    RunSwitchCeiling = 3
    RunGap = 1
    PersonDwell = 1
    AgentDwell = 1
    AutomationDwell = 2
    UserWriteDwell = 1
    SendTimeout = 1
    VerifyTimeout = 1
    MaxDataAge = 2
    TTL = 1
    OwnClock = {station}
    Reporting = {plug, station}
    Delayed = {station}
    Restless = {station}
    Unsteady = {station}
    Weighing = {}
    LastAsk = 0
    MaxTokens = 4
    Horizon = 3
    MaxRestarts = 1
    Parts = {plug}
    Callers = {tap}
    By <- OneBy
PROPERTY VerifiedIsSeen
PROPERTY Answered
