----------------------------- MODULE MCAuditLog -----------------------------
(* Instance of AuditLog with short files. *)
EXTENDS AuditLog
=============================================================================
