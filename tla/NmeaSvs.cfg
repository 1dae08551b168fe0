SPECIFICATION Spec
CONSTANTS
    Talkers <- ThreeTalkers
    Views <- FewViews
    SatsPerGSV = 2
    kMaxSvs = 4
INVARIANTS CompleteBurstReported BurstReplaces
PROPERTY OthersKept
