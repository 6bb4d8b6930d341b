\* A camera in legacy mode is offered the channels of 1394b.
CONSTANTS
    Cameras = {"cam1", "cam2"}
    NumChannels = 2
    LegacyChannels = 1
    TotalBandwidth = 2
    Mode <- CapableCamera
    Units = {1}
    FlagSets = {{"CHANNEL_ALLOC"}, {"CHANNEL_ALLOC", "BANDWIDTH_ALLOC", "AUTO_ISO"}}
SPECIFICATION Spec
INVARIANT CaptureOnOwnChannel
