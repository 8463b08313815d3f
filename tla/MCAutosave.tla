------------------------------ MODULE MCAutosave ------------------------------
(* Two blocks; the environments that tell the properties apart. *)
EXTENDS Autosave

CONSTANTS b1, b2

Env(shared, written, failing, commands) ==
    [shared |-> shared, written |-> written, failing |-> failing, commands |-> commands]

Checkpoint == {"create_checkpoint"}

MCEnvironments ==
    { Env({}, {b1, b2}, {}, Checkpoint),
      Env({b1}, {b1}, {"load"}, Checkpoint),
      Env({b1}, {b1, b2}, {"answer"}, {"select_document"}),
      Env({}, {b1}, {"save", "list"}, {"rename_document", "create_checkpoint"}) }
=============================================================================
