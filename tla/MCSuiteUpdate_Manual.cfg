\* Three releases, two launches, a throttle of two hours.
CONSTANTS
    Releases <- ReleasesVal
    Throttle = 2
    MaxClock = 2
    MaxLaunches = 2
SPECIFICATION Spec
INVARIANT ManualReports
CHECK_DEADLOCK FALSE
