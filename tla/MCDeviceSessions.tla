-------------------------- MODULE MCDeviceSessions --------------------------
(* Model-checking instances of DeviceSessions. *)
EXTENDS DeviceSessions, TLC

\* Tabs, devices and rotation ids are interchangeable.
Interchangeable ==
    Permutations(Tabs) \cup Permutations(Devices) \cup Permutations(RotationIds)
=============================================================================
