\* Two cameras on a small bus: three channels, two of them for legacy cameras,
\* and bandwidth for three requests of one unit or one of one and one of two.
CONSTANTS
    Cameras = {"cam1", "cam2"}
    NumChannels = 3
    LegacyChannels = 2
    TotalBandwidth = 3
    Mode <- TwoCameras
    Units = {1, 2}
    OwnOnly = TRUE
SPECIFICATION Spec
INVARIANTS
    ChannelsExclusive
    EverythingAccounted
