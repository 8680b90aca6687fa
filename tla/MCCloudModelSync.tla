-------------------------- MODULE MCCloudModelSync --------------------------
(* Small instances of CloudModelSync for TLC. *)
EXTENDS CloudModelSync

QueueDurations == [shortlived |-> 2, blacklist |-> 4, consolidate |-> 1]

=============================================================================
