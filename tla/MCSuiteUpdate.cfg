\* Three releases, two launches, a throttle of two hours.
CONSTANTS
    Releases <- ReleasesVal
    Throttle = 2
    MaxClock = 2
    MaxLaunches = 2
SPECIFICATION Spec
INVARIANTS BusyIsOneThing BoxIsDue
PROPERTIES InstallsWhatWasOffered CheckConcludes
CHECK_DEADLOCK FALSE
