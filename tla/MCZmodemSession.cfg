CONSTANTS
    MaxErrors = 2
    Ceiling = 2
    Slots = 2
    Vals = {7}
SPECIFICATION FairSpec
INVARIANT PositionsAreReal
PROPERTIES FilesAccountedFor CancelObeyed
\* an ended session stays as it is
CHECK_DEADLOCK FALSE
