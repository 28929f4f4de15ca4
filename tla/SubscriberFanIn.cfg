CONSTANTS
    Input = {a}
    Thread = {t1, t2, sw}
    SubWatcher = sw
    Watcher = watcher
    Worker = {w1}
    NoWorker = NoWorker
    NoInput = NoInput
    MaxValues = 2
SPECIFICATION FairSubscriberSpec
INVARIANT NoLeakedSubscription
PROPERTIES CancelReleasesAll CallsReturn
CHECK_DEADLOCK FALSE
