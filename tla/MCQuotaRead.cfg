CONSTANTS
    home = home
    scratch = scratch
    fileset = fileset
    unmapped = unmapped
    gpfs1 = gpfs1
    gpfs2 = gpfs2
    gpfs3 = gpfs3
    Mounts <- MCMounts
    Covers <- MCCovers
    DeviceMounts <- MCDeviceMounts
    ByName <- MCByName
    MaxDevices = 2
    Timeout = 3
    Linger = 2
SPECIFICATION Spec
INVARIANTS
    AnswerForPathWins
    NothingSkippedSilently
    PathDeviceAsked
    OverrunIsOneKill
