SPECIFICATION EitherSpec
CONSTANTS
    Records = {x1, x2}
    Jobs = {j1, j2}
    ScheduledJobs = {j1, j2}
    LegacyJobs = {j1}
    Base = 2
    Width = 3
    Seconds = 2
    Delays = {1, 4}
CHECK_DEADLOCK FALSE
INVARIANTS
    NothingEscapes
    NothingExtra
    ScheduleIsExact
PROPERTY
    Returns
