SPECIFICATION Spec
CONSTANTS
    web = web
    bot = bot
    Process = {web, bot}
    Bot = bot
    Periodic = {bot}
    Editor = {editor1, editor2}
    Setting = {"open", "limit"}
    Open = "open"
    Limit = "limit"
    Value = {0, 1}
    Invalid <- MCInvalid
    None = None
    Starting = Starting
    MaxOps = 2
    tv = tv
    Watch = {watch1, watch2}
    Device = {tv}
    DeviceOf <- MCDeviceOf
    Item = {film, extra}
    NoItem = extra
    Syncer = {web, bot}
    Recurring = {bot}
    Line = {line1, line2}
    Url = {url1, url2}
    Gone = Gone
    MaxMoves = 3
    Automation = {automation1, automation2}
    Evaluator = {worker1, worker2}
    First = worker1
    Kind = {"task", "other"}
    TaskKind = "task"
    Pattern <- MCPattern
    Every = Every
    Malformed = Malformed
    Unwritten = Unwritten
    Deleted = Deleted
    Chunk = 1
    MaxEvents = 2
    MaxRevisions = 1
    MaxStops = 1
INVARIANTS
    OneOpenPlay
    LinesReported
    HistoryChains
    EventsHandled
PROPERTIES
    RuntimeCatchesUp
    PlaybackCatchesUp
    EventsArePassed
CHECK_DEADLOCK FALSE
