\* Three of: a publication, a change of the setting, a restart of the service or the tray.
SPECIFICATION FairSpec
CONSTANT
    MaxEvents = 3
INVARIANTS
    InstallsSignedContent
    BackupsWaitForInstaller
PROPERTY
    UpdateIsRequested
CHECK_DEADLOCK FALSE
