CONSTANTS
    w1 = w1
    w2 = w2
    Workers <- MCWorkers
    NumJobs = 3
SPECIFICATION FairSpec
INVARIANTS OneResultPerJob ResultsAnswerJobs OutcomesAgree ChannelsSafe CancelStopsWork
PROPERTIES ExecuteTerminates ImplementsBatch
