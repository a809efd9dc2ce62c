------------------------ MODULE MCNotificationQueue ------------------------
(* NotificationQueue on a small instance: the owner, which also pushes, and *)
(* two other producers.                                                     *)
EXTENDS NotificationQueue

CONSTANTS owner, p1, p2

MCThreads == {owner, p1, p2}
=============================================================================
