SPECIFICATION Spec
CONSTANTS
    Scheduler = {s1, s2}
    Job = {j1}
    Work = {w1}
    Publisher = {s1}
    Subscriber = {s2}
    BUCKET_SIZE = 2
    PostMode = {"SCHEDULE", "DIRECT", "QUEUED"}
    MaxPosts = 1
    MaxCancels = 1
    MaxTroubles = 1
CHECK_DEADLOCK FALSE
INVARIANTS OneRunner NotRunAgain CountersExact RescheduleKept
PROPERTY DueIsRun
