SPECIFICATION FairRenderSpec
CONSTANTS
    Client = {c1, c2}
    Driver = driver
    Renderer = renderer
    Kind = {audio}
    Helper = {audio, renderer}
    Items = 2
    Grouped = {1, 2}
    MaxConcurrency = 1
    MaxCalls = 2
    MaxUpsets = 1
    None = None
INVARIANTS JobsFitItems WithinConcurrency StatusIsTrue VersionsFitJobs RenderingsFitThreads
PROPERTIES PauseHolds BatchEnds RenderEnds
CHECK_DEADLOCK FALSE
