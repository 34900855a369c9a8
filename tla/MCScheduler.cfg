CONSTANTS
    j1 = j1
    j2 = j2
    w1 = w1
    w2 = w2
    Jobs <- MCJobs
    Interval <- MCInterval
    Workers <- MCWorkers
    NoWorker = NoWorker
    NoJob = NoJob
SPECIFICATION SchedulerSpec
INVARIANT
    RunningServed
PROPERTIES
    JobsKeepRunning
    StopEndsWorkers
