CONSTANTS
    Input = {a}
    Thread = {t1, t2}
    Watcher = watcher
    Worker = {w1, w2, w3}
    NoWorker = NoWorker
    NoInput = NoInput
    MaxValues = 2
SPECIFICATION FeederSpec
INVARIANTS ReturnIsBarrier NothingLost KnownAreMerged
