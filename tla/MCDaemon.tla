------------------------------ MODULE MCDaemon ------------------------------
(* Small instances of Daemon: users.json starts with an empty row, or has  *)
(* a name that is refused after one that is not.                           *)
EXTENDS Daemon

CONSTANTS a, b

MCLegacyFile == {<<Junk, a, b>>, <<a, Invalid>>}

=============================================================================
