---------------------------- MODULE MCSshSession ----------------------------
(* Instance of SshSession with two names and deadlines of a few ticks. *)
EXTENDS SshSession

CONSTANTS ann, bob
=============================================================================
