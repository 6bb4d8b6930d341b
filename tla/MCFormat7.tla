----------------------------- MODULE MCFormat7 -----------------------------
(* Regions on a sensor of 2 by 2 pixels: position and size asked for,      *)
(* left to the camera, or as large as possible; some do not fit.           *)
EXTENDS Format7

Sensor == <<2, 2>>
Ask(c, p, l, t, w, h) ==
    [coding |-> c, packet |-> p, left |-> l, top |-> t, width |-> w, height |-> h]
SomeAsks ==
    {Ask(2, 3, QUERY_FROM_CAMERA, 0, USE_MAX_AVAIL, 1),
     Ask(QUERY_FROM_CAMERA, USE_RECOMMENDED, 0, 1, 2, USE_MAX_AVAIL),
     Ask(1, 3, 1, 0, QUERY_FROM_CAMERA, 1),
     Ask(1, USE_MAX_AVAIL, 0, 1, 2, 2),
     Ask(2, QUERY_FROM_CAMERA, USE_MAX_AVAIL, 0, 2, 1),
     Ask(9, 3, 0, 0, 2, 2)}
=============================================================================
