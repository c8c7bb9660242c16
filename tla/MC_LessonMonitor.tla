--------------------------- MODULE MC_LessonMonitor ---------------------------
(* Model values for LessonMonitor.                                           *)
EXTENDS LessonMonitor
=============================================================================
