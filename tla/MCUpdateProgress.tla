-------------------------- MODULE MCUpdateProgress --------------------------
(* Instances of UpdateProgress for TLC: what timedate1 may answer.          *)
EXTENDS UpdateProgress

\* timedate1 keeps NTP on once SetNTP succeeded.
NtpStays == {"error", "unsynced", "synced"}
NtpAny   == {"error", "inactive", "unsynced", "synced"}
=============================================================================
