CONSTANTS
    u1 = u1
    u2 = u2
    s1 = s1
    s2 = s2
    w1 = w1
    w2 = w2
    Absent = Absent
    NoSecrets = NoSecrets
    NoWorker = NoWorker
    Urls = {u1, u2}
    Secrets = {s1}
    Workers = {w1, w2}
    Policies = {}
    Requests = {"RunBackupNow", "CancelBackup", "DeferBackup", "RepositoryOperation", "UpdateSchedule", "UpdateBackupSources", "UpdateRepository", "PrepareForUpdate", "InstallUpdate"}
    MaxCancels = 1
SPECIFICATION Spec
SYMMETRY WorkerSymmetry
INVARIANTS
    OneResticAtATime
    ResticExclusion
    BackupUsesVerifiedRepository
    ReadyMeansVerified
    RunningIffActive
    UpdateExcludesRestic
PROPERTIES
    RepositoryFixedWhileResticRuns
