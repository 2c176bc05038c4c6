----------------------------- MODULE MCEventLog -----------------------------
(* One session and one fork of it, forked anywhere and at any time.          *)
EXTENDS EventLog
CONSTANTS root, copy
MCSessions == {root, copy}
=============================================================================
