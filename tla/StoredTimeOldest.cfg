SPECIFICATION ScheduleSpec
CONSTANTS
    ScheduledJobs = {j1, j2}
    LegacyJobs = {}
    Base = 2
    Width = 3
    Seconds = 2
    Delays = {1, 4}
CHECK_DEADLOCK FALSE
INVARIANT
    OldestFirst
