CONSTANTS
    None = None
    Depth = 2
    MinTotalImuSamples = 0
    MinWindowImuSamples = 0
    Absent = Absent
    NoResult = NoResult
    MaxCalls = 2
    Judgements <- MCJudgements
SPECIFICATION FairSpec
INVARIANT ReaderSeesOldOrNew
PROPERTY NoFalseReassurance
PROPERTY ReportFollowsTopics
PROPERTY BridgeCatchesUp
