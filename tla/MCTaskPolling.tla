--------------------------- MODULE MCTaskPolling ---------------------------
(* Instances of TaskPolling for TLC. *)
EXTENDS TaskPolling, TLC

AllVideo == [t \in Tasks |-> "video"]
AllSuno == [t \in Tasks |-> "suno"]
AllRealtime == [t \in Tasks |-> "realtime"]
\* The first task is a video, the second a song.
VideoAndSuno == [t \in Tasks |-> IF t = 1 THEN "video" ELSE "suno"]
RealtimeAndSuno == [t \in Tasks |-> IF t = 1 THEN "realtime" ELSE "suno"]

OneChannel == [t \in Tasks |-> "ch"]

Symmetry == Permutations(Pollers)
=============================================================================
