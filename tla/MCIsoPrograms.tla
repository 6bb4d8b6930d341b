--------------------------- MODULE MCIsoPrograms ----------------------------
EXTENDS IsoPrograms

\* Two cameras of different kinds.
TwoCameras == [c \in Cameras |-> IF c = "cam1" THEN "1394b" ELSE "legacy"]
=============================================================================
