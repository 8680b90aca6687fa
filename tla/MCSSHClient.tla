---------------------------- MODULE MCSSHClient -----------------------------
(* Small instances of SSHClient for TLC. *)
EXTENDS SSHClient

AllRequests == {"run1", "run2", "get1", "ls1"}
FtpRequests == {"get1", "ls1"}
TimedRequests == {"run1", "get1"}

=============================================================================
