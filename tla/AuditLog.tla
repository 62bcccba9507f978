------------------------------ MODULE AuditLog ------------------------------
(***************************************************************************)
(* The security log of src/src/audit_log.c: one active file and a chain of *)
(* archives, rotated before a record is appended to a full file.           *)
(*                                                                         *)
(* log->mutex makes one event exclude the others, so there is one event at *)
(* a time; its system calls are single steps, each may fail, and the       *)
(* server may be killed between any two.  Records are numbered as they     *)
(* reach the file, and sizes are counted in records.                       *)
(***************************************************************************)
EXTENDS Naturals, Sequences

CONSTANTS
    AUDIT_MAX,          \* AUDIT_MAX_BYTES, in records
    AUDIT_ARCHIVES,
    MaxRecords,         \* bound: records written
    MaxFaults           \* bound: failed calls and kills

ASSUME AuditAssumption ==
    /\ {AUDIT_MAX, AUDIT_ARCHIVES} \subseteq Nat \ {0}
    /\ {MaxRecords, MaxFaults} \subseteq Nat

VARIABLES
    file,       \* file[0] is the active file, file[i] archive i; <<>> if absent
    fd,         \* whether log->fd is open on the active file
    at,         \* "down", "idle", or the call the event is at
    index,      \* the loop variable of rotate_if_needed
    written,    \* history: records that reached a file
    faults      \* history: failed calls and kills

audit_vars == <<file, fd, at, index, written, faults>>

AuditInit ==
    /\ file = [i \in 0 .. AUDIT_ARCHIVES |-> <<>>]
    /\ fd = FALSE /\ at = "down" /\ index = 0
    /\ written = 0 /\ faults = 0

Fault == faults < MaxFaults /\ faults' = faults + 1

\* open_active_file creates the file if it is absent.
audit_log_open ==
    /\ at = "down"
    /\ \/ at' = "idle" /\ fd' = TRUE /\ UNCHANGED faults
       \/ Fault /\ UNCHANGED <<at, fd>>
    /\ UNCHANGED <<file, index, written>>

full == Len(file[0]) >= AUDIT_MAX

\* (mutant) the last archive is never used
first_archive_short == IF AUDIT_ARCHIVES > 1 THEN AUDIT_ARCHIVES - 1 ELSE 1

first_archive == AUDIT_ARCHIVES

\* A log that could not be reopened stays silent.  If fstat fails, the record
\* is written without rotation.
audit_log_event ==
    /\ at = "idle" /\ fd
    /\ \/ ~full /\ at' = "write" /\ UNCHANGED <<fd, index, faults>>
       \/ Fault /\ at' = "write" /\ UNCHANGED <<fd, index>>
       \/ /\ full /\ at' = "unlink" /\ fd' = FALSE /\ index' = first_archive
          /\ UNCHANGED faults
    /\ UNCHANGED <<file, written>>

\* The result of unlink is ignored: the rename that follows replaces the file.
unlink_oldest ==
    /\ at = "unlink" /\ at' = "rename"
    /\ \/ file' = [file EXCEPT ![index] = <<>>] /\ UNCHANGED faults
       \/ Fault /\ UNCHANGED file
    /\ UNCHANGED <<fd, index, written>>

\* (mutant) the file is linked to its new name and keeps the old one
Renamed_links(from, to) ==
    IF file[from] = <<>> THEN file ELSE [file EXCEPT ![to] = file[from]]

\* A missing source is not an error.
Renamed(from, to) ==
    IF file[from] = <<>> THEN file
    ELSE [file EXCEPT ![to] = file[from], ![from] = <<>>]

Shifted == Renamed(index - 1, index)

\* A failed rename ends the rotation and the full file is opened again.
rename ==
    /\ at = "rename"
    /\ \/ /\ file' = Shifted /\ index' = index - 1
          /\ at' = IF index' = 0 THEN "reopen" ELSE "rename"
          /\ UNCHANGED faults
       \/ Fault /\ at' = "reopen" /\ index' = 0 /\ UNCHANGED file
    /\ UNCHANGED <<fd, written>>

reopen ==
    /\ at = "reopen"
    /\ \/ at' = "write" /\ fd' = TRUE /\ UNCHANGED faults
       \/ Fault /\ at' = "idle" /\ UNCHANGED fd
    /\ UNCHANGED <<file, index, written>>

\* The write loop gives up on an error, with all, part or nothing written; what
\* was written of a record counts as one.
write ==
    /\ at = "write" /\ at' = "idle"
    /\ \/ /\ written < MaxRecords /\ written' = written + 1
          /\ file' = [file EXCEPT ![0] = Append(@, written')]
          /\ UNCHANGED faults \/ Fault
       \/ Fault /\ UNCHANGED <<file, written>>
    /\ UNCHANGED <<fd, index>>

\* The process is killed, or audit_log_close ends the log.
audit_log_close ==
    /\ at = "idle" /\ at' = "down" /\ fd' = FALSE
    /\ UNCHANGED <<file, index, written, faults>>

killed ==
    /\ at # "down" /\ Fault /\ at' = "down" /\ fd' = FALSE /\ index' = 0
    /\ UNCHANGED <<file, written>>

AuditNext ==
    \/ audit_log_open \/ audit_log_event \/ unlink_oldest \/ rename \/ reopen
    \/ write \/ audit_log_close \/ killed

AuditSpec == AuditInit /\ [][AuditNext]_audit_vars

-----------------------------------------------------------------------------
\* What the files hold, oldest archive first.
Retained ==
    LET joined[i \in 0 .. AUDIT_ARCHIVES] ==
            IF i = 0 THEN file[AUDIT_ARCHIVES] ELSE joined[i - 1] \o file[AUDIT_ARCHIVES - i]
    IN  joined[AUDIT_ARCHIVES]

Least(m, n) == IF m < n THEN m ELSE n

\* Every variable has its type; the rotation names no archive beyond the last.
AuditTypeOK ==
    /\ file \in [0 .. AUDIT_ARCHIVES -> Seq(Nat)]
    /\ fd \in BOOLEAN /\ index \in 0 .. AUDIT_ARCHIVES
    /\ at \in {"down", "idle", "unlink", "rename", "reopen", "write"}
    /\ written \in Nat /\ faults \in Nat

\* Whatever calls fail and wherever the server is killed, reading the
\* archives from the last to the first and then the active file gives the
\* newest records, in order, without a gap or a repetition.
SuffixKept ==
    Retained = [i \in 1 .. Len(Retained) |-> written - Len(Retained) + i]

\* A fault, a failed call or a kill, costs at most one archive and lets a file
\* exceed its limit by at most one record: with no faults the newest
\* AUDIT_ARCHIVES full files are there and none is longer than AUDIT_MAX.
FaultsCostLittle ==
    /\ Len(Retained) >=
           Least(written, (AUDIT_ARCHIVES - Least(faults, AUDIT_ARCHIVES)) * AUDIT_MAX)
    /\ \A i \in DOMAIN file : Len(file[i]) <= AUDIT_MAX + faults
=============================================================================
