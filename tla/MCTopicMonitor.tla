--------------------------- MODULE MCTopicMonitor ---------------------------
(* Model of one topic monitor for TLC: one expression critical for safety, *)
(* the "published" condition critical for autonomy, every second message   *)
(* evaluated.                                                              *)
EXTENDS TopicMonitorProps
=============================================================================
