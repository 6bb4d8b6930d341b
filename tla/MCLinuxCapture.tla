--------------------------- MODULE MCLinuxCapture ---------------------------
EXTENDS LinuxCapture

\* A camera that runs in 1394b mode and one that has only 16 channels.
TwoCameras == [c \in Cameras |-> IF c = "cam1" THEN "1394b" ELSE "legacy"]

\* A camera that knows 1394b but is operated in legacy mode.
CapableCamera == [c \in Cameras |-> IF c = "cam1" THEN "capable" ELSE "legacy"]
=============================================================================
