---------------------------- MODULE MCIncidentWatcher ----------------------------
(* Small instances of IncidentWatcher for TLC. *)
EXTENDS IncidentWatcher

\* Every mode, and the log with a static tileset that leaves a tile out.
MCConfigs == {"dir", "log", "off"} \X {{}} \cup {<<"log", {t}>> : t \in {CHOOSE t \in Tiles : TRUE}}
====
