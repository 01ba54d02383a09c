----------------------------- MODULE KillSwitch -----------------------------
(***************************************************************************)
(* The trading halt that survives restarts: a JSON file, read once when a  *)
(* KillSwitch object is made and written by halt() and resume()            *)
(* (services/kill_switch.py).  Every process has a copy of its own.        *)
(***************************************************************************)

VARIABLE haltFile  \* data/kill_switch.json

FileStates == {"absent", "halted", "corrupt"}

HaltFileInit == haltFile = "absent"

\* Bug: a file that cannot be read counts as no halt.
LoadedHaltTrusting == haltFile = "halted"

\* A file that cannot be read counts as a halt; it is not repaired.
LoadedHalt == haltFile # "absent"

\* halt(): the write may fail, which is logged only.
WriteHalt == haltFile' \in {"halted", haltFile}

\* A process dies while it writes, or somebody edits the file.
Corrupt ==
    /\ haltFile = "halted"
    /\ haltFile' = "corrupt"

=============================================================================
