SPECIFICATION FairSpec
CONSTANTS
    r1 = r1
    r2 = r2
    r3 = r3
    read = read
    write = write
    barred = barred
    unknown = unknown
    finish = finish
    Callers = {r1, r2, r3}
    Calls <- MCCalls
    Registered = {read, write}
    MaxExecutions = 0
    Finishing = {finish}
    Allowed <- MCAllowed
    Required = {r1, r2}
    Retries <- MCRetries
    MaxSteps <- MCMaxSteps
    DefaultSteps = 2
    StepsLimit = 7
    Says <- MCSays
    Mixes <- MCMixes
    Reading = {r1, r3}
INVARIANTS
    SlotsExact
    NothingAfterTimeout
    StepsAgree
    NoStagnantActs
    HonestStop
PROPERTY EveryRunEnds
CHECK_DEADLOCK FALSE
