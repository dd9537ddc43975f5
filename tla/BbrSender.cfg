CONSTANTS
    Bandwidths = {0, 4, 8}
    Rtts = {1}
    defaultRtt = 1
    AckHeights = {0, 1}
    pacingGains <- MCPacingGains
    gainCycleLength = 3
    minCongestionWindow = 1
    initialCongestionWindow = 2
    maxCongestionWindow = 3
    minRttExpiry = 1
    probeRttTime = 1
    numStartupRtts = 2
    startupFullLossCount = 1
    lossDivisor = 3
    MaxRecoveryWindow = 4
SPECIFICATION Spec
INVARIANTS WindowLimits FullBandwidthModes
PROPERTIES StartupNeverSlowsDown LowGainFollowsHigh ProbeRttEnds
