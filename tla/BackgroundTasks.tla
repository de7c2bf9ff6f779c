-------------------------- MODULE BackgroundTasks --------------------------
(***************************************************************************)
(* The tasks given to core/BackgroundExecutor.                             *)
(***************************************************************************)
CONSTANTS
    Tasks,      \* task objects
    NoTask      \* none of them

ASSUME TasksAssumption == NoTask \notin Tasks
=============================================================================
