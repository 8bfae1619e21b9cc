------------------------ MODULE MCNotificationOutbox ------------------------
(* Model-checking instances of NotificationOutbox. *)
EXTENDS NotificationOutbox, TLC

\* Server processes are interchangeable.
Interchangeable == Permutations(Processes)
=============================================================================
