SPECIFICATION Spec
INVARIANTS
    VmcSafe
    MmceFsSafe
    FtpServerSafe
    ExploitInstallerSafe
    HddSafe
    ControllersSafe
    
    ApaCacheSafe
    Ps2HostSafe
    TextEditorSafe
    SettingsSafe
    HistorySafe
    DatesSafe
CHECK_DEADLOCK FALSE
