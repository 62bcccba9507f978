----------------------------- MODULE PlayerStore -----------------------------
(***************************************************************************)
(* The account files of src/src/player_store.c.  Workers create accounts,  *)
(* look them up and verify passwords concurrently and without a lock; the  *)
(* code relies on the order of its system calls.  One step is one system   *)
(* call that another thread or a crash can see the effect of; each may     *)
(* fail.                                                                   *)
(*                                                                         *)
(* The file system is external.  What a file or a directory entry is after *)
(* a crash is known only once it has been synced: crash_dir[a] holds every *)
(* value the entry of account a may then have.  mkstemp's random names are *)
(* taken not to repeat, so a temporary name stands for its file.           *)
(***************************************************************************)
EXTENDS Integers

CONSTANTS
    Worker,         \* the threads that use the store
    Account,        \* the normalised names
    Name,           \* the spellings callers use
    Path,           \* Path[n]: the account a spelling normalises to
    Password,
    None,
    Partial,        \* file content that is not a whole record
    Existing,       \* accounts from earlier deployments: old parameters
    MaxCalls,       \* bound: calls made
    MaxFailures,    \* bound: failing system calls
    MaxCrashes      \* bound: crashes and kills

\* Files are named by the account they hold from the start, or by the number
\* of the call that made them.
File == Account \cup (1 .. MaxCalls)

\* A record file: the spelling's account, a hash of the password, and whether
\* crypto_pwhash_str_needs_rehash holds of the hash.
Record == [account : Account, password : Password, old : BOOLEAN]

ASSUME StoreAssumption ==
    /\ Path \in [Name -> Account \cup {None}]
    /\ None \notin Account \cup Password \cup Nat /\ Partial \notin Record
    /\ Account \cap Nat = {}
    /\ Existing \in [Account -> Password \cup {None}]
    /\ {MaxCalls, MaxFailures, MaxCrashes} \subseteq Nat

Content == Record \cup {Partial}

VARIABLES
    dir,            \* the entry of each account: a file or None
    crash_dir,      \* the entries each account may have after a crash
    temps,          \* the files that have a temporary name
    data,           \* the content of each file
    synced,         \* the files whose content survives a crash
    call,           \* the call each worker is in
    promised,       \* accounts player_store_create has reported as created
    stray,          \* temporary files whose unlink failed
    calls, failures, crashes    \* the bounded counters

files == <<dir, crash_dir, temps, data, synced>>
counters == <<calls, failures, crashes>>
vars == <<files, call, promised, stray, counters>>

Idle == [pc |-> "idle"]

Init ==
    /\ dir = [a \in Account |-> IF Existing[a] = None THEN None ELSE a]
    /\ crash_dir = [a \in Account |-> {dir[a]}]
    /\ temps = {}
    /\ data = [f \in File |->
                 IF f \in Account /\ Existing[f] # None
                 THEN [account |-> f, password |-> Existing[f], old |-> TRUE]
                 ELSE Partial]
    /\ synced = {a \in Account : Existing[a] # None}
    /\ call = [w \in Worker |-> Idle]
    /\ promised = {a \in Account : Existing[a] # None}
    /\ stray = {} /\ calls = 0 /\ failures = 0 /\ crashes = 0

-----------------------------------------------------------------------------
(* The file system.                                                        *)

SetEntry(a, f) ==
    /\ dir' = [dir EXCEPT ![a] = f]
    /\ crash_dir' = [crash_dir EXCEPT ![a] = @ \cup {f}]

fail ==
    /\ failures < MaxFailures
    /\ failures' = failures + 1
    /\ UNCHANGED <<calls, crashes>>

Step(w, pc) == call' = [call EXCEPT ![w].pc = pc]

\* The call is over; result is what it returns.
Return(w, r) == call' = [call EXCEPT ![w].pc = "returned", ![w].result = r]

At(w, pc) == call[w].pc = pc

final_path(w) == Path[call[w].name]

-----------------------------------------------------------------------------
(* player_store_create, player_store_verify_password, player_store_exists  *)

\* build_player_path rejects a name that is not valid.  The file a call makes
\* gets the call's number.
start(w, op, n, p) ==
    /\ call[w].pc \in {"idle", "returned"}
    /\ calls < MaxCalls /\ calls' = calls + 1
    /\ call' = [call EXCEPT ![w] =
         [pc |-> IF Path[n] = None THEN "returned"
                 ELSE IF op = "create" THEN "mkstemp" ELSE "load",
          op |-> op, name |-> n, password |-> p, file |-> calls + 1,
          linked |-> FALSE, result |-> -1,
          promised |-> Path[n] \in promised]]
    /\ UNCHANGED <<files, promised, stray, failures, crashes>>

\* load_record: open finds the entry, and the three lines parse and carry the
\* name that was asked for.  Any other error is -1.
load_record(w) ==
    IF dir[final_path(w)] = None THEN "absent"
    ELSE IF /\ data[dir[final_path(w)]] \in Record
            /\ data[dir[final_path(w)]].account = final_path(w)
         THEN "loaded"
         ELSE "error"

exists(w) ==
    /\ At(w, "load") /\ call[w].op = "exists"
    /\ \/ /\ Return(w, CASE load_record(w) = "loaded" -> 1
                         [] load_record(w) = "absent" -> 0
                         [] OTHER -> -1)
          /\ UNCHANGED counters
       \/ Return(w, -1) /\ fail
    /\ UNCHANGED <<files, promised, stray>>

\* (mutant) every verified login writes a new hash
verify_password_always_rehashes(w) ==
    /\ At(w, "load") /\ call[w].op = "verify"
    /\ IF load_record(w) # "loaded" THEN Return(w, -1)
       ELSE IF data[dir[final_path(w)]].password # call[w].password
            THEN Return(w, 0)
            ELSE call' = [call EXCEPT ![w].pc = "mkstemp", ![w].result = 1]
    /\ UNCHANGED <<files, promised, stray, counters>>

\* The hash is compared, and rewritten when its parameters are old; failing
\* to hash again changes nothing.
verify_password(w) ==
    /\ At(w, "load") /\ call[w].op = "verify"
    /\ \/ /\ load_record(w) # "loaded"
          /\ Return(w, -1) /\ UNCHANGED counters
       \/ Return(w, -1) /\ fail
       \/ /\ load_record(w) = "loaded"
          /\ LET record == data[dir[final_path(w)]]
                 verified == record.password = call[w].password
             IN  \/ /\ verified /\ record.old
                    /\ call' = [call EXCEPT ![w].pc = "mkstemp", ![w].result = 1]
                    /\ UNCHANGED counters
                 \/ verified /\ record.old /\ Return(w, 1) /\ fail
                 \/ /\ ~(verified /\ record.old)
                    /\ Return(w, IF verified THEN 1 ELSE 0) /\ UNCHANGED counters
    /\ UNCHANGED <<files, promised, stray>>

mkstemp(w) ==
    /\ At(w, "mkstemp")
    /\ \/ /\ temps' = temps \cup {call[w].file}
          /\ Step(w, "write") /\ UNCHANGED counters
       \/ /\ call' = [call EXCEPT ![w].pc = "returned"]
          /\ fail /\ UNCHANGED temps
    /\ UNCHANGED <<dir, crash_dir, data, synced, promised, stray>>

new_record(w) ==
    [account |-> final_path(w), password |-> call[w].password, old |-> FALSE]

\* (mutant) the record is published without fsync
write_record_unsynced(w) ==
    /\ At(w, "write")
    /\ data' = [data EXCEPT ![call[w].file] = new_record(w)]
    /\ Step(w, "publish")
    /\ UNCHANGED <<dir, crash_dir, temps, synced, promised, stray, counters>>

\* fchmod, write_all, fsync and close; a failure leaves any part written.
write_record(w) ==
    /\ At(w, "write")
    /\ \/ /\ data' = [data EXCEPT ![call[w].file] = new_record(w)]
          /\ synced' = synced \cup {call[w].file}
          /\ Step(w, "publish") /\ UNCHANGED counters
       \/ /\ \E c \in {Partial, new_record(w)} :
                data' = [data EXCEPT ![call[w].file] = c]
          /\ Step(w, "unlink_temp") /\ fail /\ UNCHANGED synced
    /\ UNCHANGED <<dir, crash_dir, temps, promised, stray>>

\* (mutant) the account is published with rename, which replaces
link_replaces(w) ==
    /\ At(w, "publish") /\ call[w].op = "create"
    /\ SetEntry(final_path(w), call[w].file)
    /\ call' = [call EXCEPT ![w].pc = "sync", ![w].linked = TRUE]
    /\ UNCHANGED <<temps, data, synced, promised, stray, counters>>

\* write_new_record_atomic publishes with link, which never replaces.
link(w) ==
    /\ At(w, "publish") /\ call[w].op = "create"
    /\ \/ /\ dir[final_path(w)] = None
          /\ SetEntry(final_path(w), call[w].file)
          /\ call' = [call EXCEPT ![w].pc = "sync", ![w].linked = TRUE]
          /\ UNCHANGED counters
       \/ /\ dir[final_path(w)] # None
          /\ call' = [call EXCEPT ![w].pc = "unlink_temp", ![w].result = 1]
          /\ UNCHANGED <<dir, crash_dir, counters>>
       \/ Step(w, "unlink_temp") /\ fail /\ UNCHANGED <<dir, crash_dir>>
    /\ UNCHANGED <<temps, data, synced, promised, stray>>

\* replace_record_atomic publishes with rename, which also takes the
\* temporary name away.
rename(w) ==
    /\ At(w, "publish") /\ call[w].op = "verify"
    /\ \/ /\ SetEntry(final_path(w), call[w].file)
          /\ temps' = temps \ {call[w].file}
          /\ Step(w, "sync") /\ UNCHANGED counters
       \/ /\ Step(w, "unlink_temp") /\ fail
          /\ UNCHANGED <<dir, crash_dir, temps>>
    /\ UNCHANGED <<data, synced, promised, stray>>

\* (mutant) an account is reported although the directory was not synced
sync_directory_ignored(w) ==
    /\ At(w, "sync")
    /\ \/ crash_dir' = [a \in Account |-> {dir[a]}] /\ UNCHANGED counters
       \/ UNCHANGED crash_dir /\ fail
    /\ call' = [call EXCEPT ![w].pc = "unlink_temp",
                            ![w].result = IF @ = -1 THEN 0 ELSE @]
    /\ promised' = IF call[w].op = "create"
                   THEN promised \cup {final_path(w)} ELSE promised
    /\ UNCHANGED <<dir, temps, data, synced, stray>>

\* A creation whose directory entry is durable is as good as reported; one
\* whose entry may not be is taken back.
sync_directory(w) ==
    /\ At(w, "sync")
    /\ \/ /\ crash_dir' = [a \in Account |-> {dir[a]}]
          /\ call' = [call EXCEPT ![w].pc = "unlink_temp",
                                  ![w].result = IF @ = -1 THEN 0 ELSE @]
          /\ promised' = IF call[w].op = "create"
                         THEN promised \cup {final_path(w)} ELSE promised
          /\ UNCHANGED counters
       \/ /\ Step(w, IF call[w].linked THEN "unlink_final" ELSE "unlink_temp")
          /\ fail /\ UNCHANGED <<crash_dir, promised>>
    /\ UNCHANGED <<dir, temps, data, synced, stray>>

\* The results of both unlink calls are ignored.
unlink_final(w) ==
    /\ At(w, "unlink_final")
    /\ \/ SetEntry(final_path(w), None) /\ UNCHANGED counters
       \/ fail /\ UNCHANGED <<dir, crash_dir>>
    /\ Step(w, "unlink_temp")
    /\ UNCHANGED <<temps, data, synced, promised, stray>>

unlink_temp(w) ==
    /\ At(w, "unlink_temp")
    /\ \/ temps' = temps \ {call[w].file} /\ UNCHANGED <<stray, counters>>
       \/ stray' = stray \cup {call[w].file} /\ fail /\ UNCHANGED temps
    /\ Step(w, "returned")
    /\ UNCHANGED <<dir, crash_dir, data, synced, promised>>

player_store(w) ==
    \/ exists(w) \/ verify_password(w) \/ mkstemp(w) \/ write_record(w)
    \/ link(w) \/ rename(w) \/ sync_directory(w) \/ unlink_final(w)
    \/ unlink_temp(w)

-----------------------------------------------------------------------------
(* Crashes.  A kill ends the process, and the files stay as they are; a    *)
(* power failure also drops what was not synced.                           *)

stop ==
    /\ crashes < MaxCrashes
    /\ crashes' = crashes + 1
    /\ call' = [w \in Worker |-> Idle]
    /\ UNCHANGED <<promised, stray, calls, failures>>

killed == stop /\ UNCHANGED files

power_failure ==
    /\ stop
    /\ dir' \in {d \in [Account -> UNION {crash_dir[a] : a \in Account}] :
                    \A a \in Account : d[a] \in crash_dir[a]}
    /\ crash_dir' = [a \in Account |-> {dir'[a]}]
    /\ \E lost \in SUBSET {f \in File \ synced : data[f] # Partial} :
          data' = [f \in File |-> IF f \in lost THEN Partial ELSE data[f]]
    /\ temps' \in SUBSET temps
    /\ UNCHANGED <<synced>>

-----------------------------------------------------------------------------
Next ==
    \/ \E w \in Worker : player_store(w)
    \/ \E w \in Worker, n \in Name :
          \/ start(w, "exists", n, None)
          \/ \E op \in {"create", "verify"}, p \in Password : start(w, op, n, p)
    \/ killed \/ power_failure

Spec == Init /\ [][Next]_vars

-----------------------------------------------------------------------------
PC == {"load", "mkstemp", "write", "publish", "sync", "unlink_final",
       "unlink_temp", "returned"}

Call == {Idle} \cup
    [pc : PC, op : {"create", "verify", "exists"}, name : Name,
     password : Password \cup {None}, file : 1 .. MaxCalls, linked : BOOLEAN,
     result : {-1, 0, 1}, promised : BOOLEAN]

\* Every variable has its type: entries name files, a call is at a known
\* system call, and only a creation that linked its file takes it back.
TypeOK ==
    /\ dir \in [Account -> File \cup {None}]
    /\ crash_dir \in [Account -> SUBSET (File \cup {None})]
    /\ temps \subseteq File
    /\ data \in [File -> Content]
    /\ synced \subseteq File
    /\ call \in [Worker -> Call]
    /\ \A w \in Worker : At(w, "unlink_final") => call[w].linked
    /\ promised \subseteq Account /\ stray \subseteq File
    /\ calls \in 0 .. MaxCalls /\ failures \in 0 .. MaxFailures
    /\ crashes \in 0 .. MaxCrashes

\* An account file is never seen half written, now or after a crash at this
\* moment: load_record always finds a whole record of that account.
RecordsWhole ==
    \A a \in Account : \A f \in crash_dir[a] \ {None} :
        f \in synced /\ data[f] \in Record /\ data[f].account = a

\* The passwords that can be found on disk, as AccountStore has them.
password_of == [a \in Account |-> IF dir[a] = None THEN None ELSE data[dir[a]].password]

Accounts == INSTANCE AccountStore WITH account <- password_of

\* "Existing records are never replaced by account creation", an account that
\* was reported created keeps its password whatever crashes, and a rehash is
\* invisible: the store implements AccountStore.
ImplementsAccountStore == Accounts!Spec

\* Calls clean up their own files and nobody else's: the file a failing
\* creation unlinks is the one it linked, as no other call can have replaced
\* or removed it in between; and temporary files belong to running calls,
\* unless a crash or a failing unlink left them behind.
CleansOwnFiles ==
    /\ \A w \in Worker : call[w].pc \in {"sync", "unlink_final"} /\ call[w].linked =>
           dir[final_path(w)] = call[w].file
    /\ crashes = 0 =>
           \A f \in temps \ stray :
               \E w \in Worker : call[w].pc \notin {"idle", "returned"} /\ call[w].file = f

\* A call that started after the account was reported answers by the account's
\* password, also when another login rewrites the hash at the same time:
\* verify returns 1 for the password and 0 only for another, exists never
\* returns 0, and create never succeeds.
AnswersRight ==
    \A w \in Worker : call[w].pc = "returned" /\ call[w].promised =>
        CASE call[w].op = "verify" ->
                /\ call[w].result = 1 => password_of[final_path(w)] = call[w].password
                /\ call[w].result = 0 => password_of[final_path(w)] # call[w].password
          [] call[w].op = "exists" -> call[w].result # 0
          [] call[w].op = "create" -> call[w].result # 0
=============================================================================
