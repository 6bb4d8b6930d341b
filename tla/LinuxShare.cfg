\* Two programs compete for channels and bandwidth.
CONSTANTS
    Cameras = {"cam1", "cam2"}
    NumChannels = 2
    LegacyChannels = 1
    TotalBandwidth = 2
    Mode <- TwoCameras
    Units = {1}
    FlagSets = {{"CHANNEL_ALLOC"}, {"CHANNEL_ALLOC", "BANDWIDTH_ALLOC", "AUTO_ISO"}}
SPECIFICATION Spec
INVARIANTS
    LinuxTypeOK
    CapturesApart
    NothingHeldWhenStopped
PROPERTIES
    ImplementsIso
