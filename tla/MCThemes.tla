------------------------------ MODULE MCThemes ------------------------------
(* Instance of Themes: which edits are made.                               *)
EXTENDS Themes
SomeEdits ==
  {[status |-> "paused", cron |-> None, zone |-> None],
   [status |-> None, cron |-> "c2", zone |-> None],
   [status |-> "active", cron |-> None, zone |-> "z2"]}
CreatedSchedule == [cron |-> "c1", zone |-> "z1"]
=============================================================================
