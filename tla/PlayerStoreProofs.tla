-------------------------- MODULE PlayerStoreProofs --------------------------
(***************************************************************************)
(* Proofs about PlayerStore for any workers, accounts, passwords, calls,   *)
(* failures and crashes: the account files implement AccountStore.         *)
(*                                                                         *)
(* The argument: a file is written under its temporary name only, by the   *)
(* call that made it, and is whole and synced before it gets the name of   *)
(* an account.  Every entry an account may have after a crash is therefore *)
(* a whole record.  All those entries of a reported account hold the same  *)
(* password: a creation cannot link over an entry, one that is taken back  *)
(* has not been reported, and a rehash is made only from an old hash, the  *)
(* account of which was reported before the server started.                *)
(***************************************************************************)
EXTENDS PlayerStore, TLAPS

Busy == [pc : PC, op : {"create", "verify", "exists"}, name : Name,
         password : Password \cup {None}, file : 1 .. MaxCalls, linked : BOOLEAN,
         result : {-1, 0, 1}, promised : BOOLEAN]

\* The entries of an account: a file that was there, or one a call has made.
Entry == Account \cup (1 .. calls) \cup {None}

Unpublished(f) == \A a \in Account : f \notin crash_dir[a]

\* What holds of a call by where it is.
CallInv(w) ==
    LET c == call[w] IN
    /\ c \in Busy /\ c.file \in 1 .. calls
    /\ c.pc # "returned" => Path[c.name] # None
    /\ c.op # "exists" => c.password \in Password
    /\ c.promised => Path[c.name] \in promised
    /\ c.pc \in {"load", "mkstemp"} => c.file \notin temps
    /\ c.pc \in {"load", "mkstemp", "write", "publish"} => Unpublished(c.file)
    /\ c.pc = "publish" => c.file \in synced /\ data[c.file] = new_record(w)
    /\ c.pc = "load" => c.op # "create" /\ c.result = -1

CreateInv(w) ==
    LET c == call[w] IN
    c.op = "create" =>
        /\ c.pc \in {"mkstemp", "write", "publish", "sync", "unlink_final"} => c.result = -1
        /\ c.pc \in {"sync", "unlink_final"} =>
              c.linked /\ Path[c.name] \notin promised /\ dir[Path[c.name]] = c.file
        /\ c.promised => c.result # 0

VerifyInv(w) ==
    LET c == call[w] IN
    c.op = "verify" =>
        /\ ~c.linked /\ c.pc # "unlink_final"
        /\ c.pc \in {"mkstemp", "write", "publish", "sync"} =>
              c.result = 1 /\ Path[c.name] \in promised
        /\ c.pc = "unlink_temp" => c.result = 1
        /\ \/ c.result = 1 /\ c.promised
           \/ c.pc \in {"mkstemp", "write", "publish", "sync"}
           => password_of[Path[c.name]] = c.password
        /\ c.result = 0 /\ c.promised => password_of[Path[c.name]] # c.password

ExistsInv(w) ==
    LET c == call[w] IN
    c.op = "exists" => c.pc \in {"load", "returned"} /\ (c.promised => c.result # 0)

WorkerInv(w) ==
    call[w] # Idle => CallInv(w) /\ CreateInv(w) /\ VerifyInv(w) /\ ExistsInv(w)

FilesInv ==
    /\ calls \in 0 .. MaxCalls /\ crashes \in Nat
    /\ dir \in [Account -> Entry] /\ crash_dir \in [Account -> SUBSET Entry]
    /\ temps \subseteq 1 .. calls /\ synced \subseteq File
    /\ data \in [File -> Content] /\ promised \subseteq Account
    /\ RecordsWhole
    /\ \A a \in Account : dir[a] \in crash_dir[a]
    /\ \A a \in promised : \A f \in crash_dir[a] :
          f # None /\ data[f].password = password_of[a]
    /\ \A a \in Account : \A f \in crash_dir[a] \ {None} : data[f].old => a \in promised

OwnFiles ==
    \A v, w \in Worker : v # w /\ call[v] # Idle /\ call[w] # Idle =>
        call[v].file # call[w].file

TempsOwned ==
    crashes = 0 => \A f \in temps \ stray :
        \E w \in Worker : call[w].pc \notin {"idle", "returned"} /\ call[w].file = f

StoreInv ==
    /\ call \in [Worker -> Busy \cup {Idle}]
    /\ FilesInv /\ OwnFiles /\ TempsOwned
    /\ \A w \in Worker : WorkerInv(w)

-----------------------------------------------------------------------------
\* The constants.
LEMMA Constants ==
    /\ MaxCalls \in Nat /\ None \notin Nat /\ None \notin Account /\ None \notin Password
    /\ Account \cap Nat = {} /\ Partial \notin Record
    /\ \A n \in Name : Path[n] \in Account \cup {None}
BY StoreAssumption

\* A call is idle or has all its fields.
LEMMA Calls ==
    /\ Idle.pc = "idle" /\ "idle" \notin PC
    /\ \A c \in Busy : c # Idle /\ c.pc \in PC
<1>1. Idle.pc = "idle" /\ "idle" \notin PC
  BY DEF Idle, PC
<1>2. \A c \in Busy : c.pc \in PC
  BY DEF Busy
<1>. QED
  BY <1>1, <1>2

\* Call w moves to place p, with result r and link flag l.
Moves(w, p, r, l) ==
    /\ call' \in [Worker -> Busy \cup {Idle}] /\ call'[w] \in Busy
    /\ call'[w].pc = p /\ call'[w].result = r /\ call'[w].linked = l
    /\ call'[w].op = call[w].op /\ call'[w].name = call[w].name
    /\ call'[w].password = call[w].password /\ call'[w].file = call[w].file
    /\ call'[w].promised = call[w].promised
    /\ \A v \in Worker \ {w} : call'[v] = call[v]

\* The other ways, besides Step, in which a step changes its call.
Answers(w, p, r) == call' = [call EXCEPT ![w].pc = p, ![w].result = r]
Reports(w) ==
    call' = [call EXCEPT ![w].pc = "unlink_temp", ![w].result = IF @ = -1 THEN 0 ELSE @]
Links(w) == call' = [call EXCEPT ![w].pc = "sync", ![w].linked = TRUE]

\* A call moves on, ...
LEMMA StepMoves ==
    ASSUME NEW w \in Worker, call \in [Worker -> Busy \cup {Idle}], call[w] \in Busy,
           NEW p \in PC, Step(w, p)
    PROVE  Moves(w, p, call[w].result, call[w].linked)
<1>1. call' = [call EXCEPT ![w] = [@ EXCEPT !.pc = p]]
  BY DEF Step
<1>2. call'[w] = [call[w] EXCEPT !.pc = p]
  BY <1>1
<1>3. [call[w] EXCEPT !.pc = p] \in Busy
  BY DEF Busy
<1>. QED
  BY <1>1, <1>2, <1>3 DEF Busy, Moves

\* ... with a result, ...
LEMMA AnswersMoves ==
    ASSUME NEW w \in Worker, call \in [Worker -> Busy \cup {Idle}], call[w] \in Busy,
           NEW p \in PC, NEW r \in {-1, 0, 1},
           Answers(w, p, r)
    PROVE  Moves(w, p, r, call[w].linked)
<1>. USE DEF Answers
<1>1. call'[w] = [call[w] EXCEPT !.pc = p, !.result = r]
  OBVIOUS
<1>2. [call[w] EXCEPT !.pc = p, !.result = r] \in Busy
  BY Zenon DEF Busy
<1>. QED
  BY <1>1, <1>2 DEF Busy, Moves

\* ... with a result unless it has one, ...
LEMMA ReportsMoves ==
    ASSUME NEW w \in Worker, call \in [Worker -> Busy \cup {Idle}], call[w] \in Busy,
           Reports(w)
    PROVE  Moves(w, "unlink_temp", IF call[w].result = -1 THEN 0 ELSE call[w].result,
                 call[w].linked)
<1>. DEFINE p == "unlink_temp"
            r == IF call[w].result = -1 THEN 0 ELSE call[w].result
<1>1. [call[w] EXCEPT !.pc = p].result = call[w].result /\ r \in {-1, 0, 1}
  BY DEF Busy
<1>2. call'[w] = [call[w] EXCEPT !.pc = p, !.result = r]
  BY <1>1 DEF Reports
<1>. HIDE DEF r
<1>3. [call[w] EXCEPT !.pc = p, !.result = r] \in Busy
  BY <1>1, Zenon DEF Busy, PC
<1>4. Moves(w, p, r, call[w].linked)
  BY <1>2, <1>3, Zenon DEF Busy, Moves, Reports
<1>. QED
  BY <1>4 DEF r

\* ... or with its file linked.
LEMMA LinksMoves ==
    ASSUME NEW w \in Worker, call \in [Worker -> Busy \cup {Idle}], call[w] \in Busy,
           Links(w)
    PROVE  Moves(w, "sync", call[w].result, TRUE)
<1>. USE DEF Links
<1>1. call'[w] = [call[w] EXCEPT !.pc = "sync", !.linked = TRUE]
  OBVIOUS
<1>2. [call[w] EXCEPT !.pc = "sync", !.linked = TRUE] \in Busy
  BY Zenon DEF Busy, PC
<1>. QED
  BY <1>1, <1>2 DEF Busy, Moves

-----------------------------------------------------------------------------
(* What a step does to the files.                                          *)

\* A step that leaves entries and contents alone.
LEMMA FilesSame ==
    ASSUME FilesInv, UNCHANGED <<dir, crash_dir, data, synced, promised>>,
           calls' \in calls .. MaxCalls, temps' \subseteq 1 .. calls', crashes' \in Nat
    PROVE  FilesInv' /\ password_of' = password_of
<1>1. password_of' = password_of
  BY DEF password_of
<1>2. Entry \subseteq Entry'
  BY DEF Entry, FilesInv
<1>3. /\ calls' \in 0 .. MaxCalls /\ crashes' \in Nat
      /\ temps' \subseteq 1 .. calls' /\ synced' \subseteq File
      /\ data' \in [File -> Content] /\ promised' \subseteq Account
  BY DEF FilesInv
<1>4. dir' \in [Account -> Entry'] /\ crash_dir' \in [Account -> SUBSET Entry']
  BY <1>2 DEF FilesInv
<1>5. RecordsWhole'
  BY DEF FilesInv, RecordsWhole
<1>6. /\ \A a \in Account : dir'[a] \in crash_dir'[a]
      /\ \A a \in promised' : \A f \in crash_dir'[a] :
            f # None /\ data'[f].password = password_of'[a]
      /\ \A a \in Account : \A f \in crash_dir'[a] \ {None} : data'[f].old => a \in promised'
  BY <1>1 DEF FilesInv
<1>. QED
  BY <1>1, <1>3, <1>4, <1>5, <1>6 DEF FilesInv

\* The calls are counted.
LEMMA CallsType == FilesInv => calls \in Nat
<1>1. FilesInv => calls \in 0 .. MaxCalls
  BY Zenon DEF FilesInv
<1>. QED
  BY <1>1, Constants

\* link, rename and unlink give an account another entry: a whole record that
\* no reported account of another password loses its place to.
LEMMA EntrySet ==
    ASSUME FilesInv, NEW a \in Account, NEW f \in (1 .. calls) \cup {None}, SetEntry(a, f),
           UNCHANGED <<data, synced, promised, calls, crashes>>, temps' \subseteq temps,
           f # None => /\ f \in synced /\ data[f] \in Record
                       /\ data[f].account = a /\ ~data[f].old,
           a \in promised => f # None /\ data[f].password = password_of[a]
    PROVE  /\ FilesInv'
           /\ \A b \in Account \ {a} : dir'[b] = dir[b] /\ password_of'[b] = password_of[b]
           /\ dir'[a] = f
           /\ password_of'[a] = IF f = None THEN None ELSE data[f].password
           /\ \A b \in Account : crash_dir'[b] \subseteq crash_dir[b] \cup {f}
           /\ \A b \in promised : password_of'[b] = password_of[b]
<1>1. /\ dir' = [dir EXCEPT ![a] = f] /\ crash_dir' = [crash_dir EXCEPT ![a] = @ \cup {f}]
      /\ dir \in [Account -> Entry] /\ crash_dir \in [Account -> SUBSET Entry] /\ f \in Entry
  BY DEF SetEntry, FilesInv, Entry
<1>2. /\ \A b \in Account \ {a} : dir'[b] = dir[b] /\ crash_dir'[b] = crash_dir[b]
      /\ dir'[a] = f /\ crash_dir'[a] = crash_dir[a] \cup {f}
      /\ dir' \in [Account -> Entry] /\ crash_dir' \in [Account -> SUBSET Entry]
  BY <1>1
<1>3. /\ \A b \in Account \ {a} : password_of'[b] = password_of[b]
      /\ password_of'[a] = IF f = None THEN None ELSE data[f].password
  BY <1>2 DEF password_of
<1>4. \A b \in promised : password_of'[b] = password_of[b]
  BY <1>3 DEF FilesInv
<1>5. Entry' = Entry
  BY DEF Entry
<1>6. RecordsWhole'
  BY <1>2 DEF FilesInv, RecordsWhole
<1>7. \A b \in Account : dir'[b] \in crash_dir'[b]
  BY <1>2 DEF FilesInv
<1>8. \A b \in promised' : \A g \in crash_dir'[b] :
         g # None /\ data'[g].password = password_of'[b]
  BY <1>2, <1>4 DEF FilesInv
<1>9. \A b \in Account : \A g \in crash_dir'[b] \ {None} : data'[g].old => b \in promised'
  BY <1>2 DEF FilesInv
<1>10. /\ calls' \in 0 .. MaxCalls /\ crashes' \in Nat
       /\ temps' \subseteq 1 .. calls' /\ synced' \subseteq File
       /\ data' \in [File -> Content] /\ promised' \subseteq Account
  BY DEF FilesInv
<1>11. FilesInv'
  BY <1>2, <1>5, <1>6, <1>7, <1>8, <1>9, <1>10 DEF FilesInv
<1>. QED
  BY <1>2, <1>3, <1>4, <1>11

\* write_record changes a file that no account can have as its entry.
LEMMA DataSet ==
    ASSUME FilesInv, NEW g \in 1 .. calls, NEW c \in Content, Unpublished(g),
           data' = [data EXCEPT ![g] = c], synced \subseteq synced', synced' \subseteq File,
           UNCHANGED <<dir, crash_dir, promised, temps, calls, crashes>>
    PROVE  /\ FilesInv' /\ data'[g] = c
           /\ \A f \in File \ {g} : data'[f] = data[f]
           /\ \A a \in Account : password_of'[a] = password_of[a]
<1>1. /\ data \in [File -> Content] /\ g \in File /\ Entry' = Entry
      /\ Entry \subseteq File \cup {None}
      /\ dir \in [Account -> Entry] /\ crash_dir \in [Account -> SUBSET Entry]
  BY Constants DEF FilesInv, File, Entry
<1>2. /\ data' \in [File -> Content] /\ data'[g] = c
      /\ \A f \in File \ {g} : data'[f] = data[f]
  BY <1>1
<1>3. \A a \in Account : \A f \in crash_dir[a] : f # g /\ f \in File \cup {None}
  BY <1>1 DEF Unpublished
<1>4. \A a \in Account : dir[a] \in crash_dir[a]
  BY DEF FilesInv
<1>5. \A a \in Account : password_of'[a] = password_of[a]
  BY <1>2, <1>3, <1>4 DEF password_of
<1>6. RecordsWhole'
  BY <1>2, <1>3 DEF FilesInv, RecordsWhole
<1>7. \A a \in promised' : \A f \in crash_dir'[a] :
         f # None /\ data'[f].password = password_of'[a]
  BY <1>2, <1>3, <1>5 DEF FilesInv
<1>8. \A a \in Account : \A f \in crash_dir'[a] \ {None} : data'[f].old => a \in promised'
  BY <1>2, <1>3 DEF FilesInv
<1>9. FilesInv'
  BY <1>1, <1>2, <1>4, <1>6, <1>7, <1>8 DEF FilesInv
<1>. QED
  BY <1>2, <1>5, <1>9

\* A synced directory has one possible entry for each account; the account
\* whose creation is reported then has one.
LEMMA DirSynced ==
    ASSUME FilesInv, crash_dir' = [a \in Account |-> {dir[a]}],
           NEW new \in SUBSET Account, promised' = promised \cup new,
           \A a \in new : dir[a] # None,
           UNCHANGED <<dir, temps, data, synced, calls, crashes>>
    PROVE  /\ FilesInv' /\ password_of' = password_of
           /\ \A a \in Account : crash_dir'[a] \subseteq crash_dir[a]
<1>1. password_of' = password_of /\ Entry' = Entry
  BY DEF password_of, Entry
<1>2. \A a \in Account : crash_dir'[a] = {dir[a]} /\ dir[a] \in crash_dir[a]
  BY DEF FilesInv
<1>3. \A a \in Account : dir[a] # None => password_of[a] = data[dir[a]].password
  BY DEF password_of
<1>4. dir' \in [Account -> Entry'] /\ crash_dir' \in [Account -> SUBSET Entry']
  BY <1>1 DEF FilesInv
<1>5. RecordsWhole'
  BY <1>2 DEF FilesInv, RecordsWhole
<1>6. \A a \in promised' : \A f \in crash_dir'[a] :
         f # None /\ data'[f].password = password_of'[a]
  BY <1>1, <1>2, <1>3 DEF FilesInv
<1>7. \A a \in Account : \A f \in crash_dir'[a] \ {None} : data'[f].old => a \in promised'
  BY <1>2 DEF FilesInv
<1>8. FilesInv'
  BY <1>1, <1>2, <1>4, <1>5, <1>6, <1>7, Zenon DEF FilesInv
<1>. QED
  BY <1>1, <1>2, <1>8

-----------------------------------------------------------------------------
(* What the calls of other workers need: a step touches one file, g, leaves *)
(* the passwords of reported accounts alone, and changes no other entry     *)
(* that is not reported yet, nor reports it.                                *)
Frame(g) ==
    /\ calls' \in Nat /\ calls' >= calls /\ promised \subseteq promised'
    /\ temps' \subseteq temps \cup {g} /\ synced \subseteq synced'
    /\ \A a \in Account : crash_dir'[a] \subseteq crash_dir[a] \cup {g, None}
    /\ \A f \in File \ {g} : data'[f] = data[f]
    /\ \A a \in promised : password_of'[a] = password_of[a]
    /\ \A a \in Account \ promised : dir[a] # None /\ dir[a] # g =>
          dir'[a] = dir[a] /\ a \notin promised'

\* A step that starts no call and reports no account but that of file g.
LEMMA FrameOf ==
    ASSUME NEW g, FilesInv, calls' = calls, temps' \subseteq temps, synced \subseteq synced',
           promised \subseteq promised',
           \A a \in Account : crash_dir'[a] \subseteq crash_dir[a] \cup {g, None},
           \A f \in File \ {g} : data'[f] = data[f],
           \A a \in promised : password_of'[a] = password_of[a],
           \A a \in Account \ promised : dir[a] # None /\ dir[a] # g =>
              dir'[a] = dir[a] /\ a \notin promised'
    PROVE  Frame(g)
<1>1. calls \in Nat
  BY DEF FilesInv
<1>2. calls' \in Nat /\ calls' >= calls
  BY <1>1
<1>3. temps' \subseteq temps \cup {g}
  OBVIOUS
<1>. QED
  BY <1>2, <1>3, Zenon DEF Frame

\* link and rename give an account without an entry, or a reported one, the
\* record of a call.
LEMMA Publishes ==
    ASSUME FilesInv, NEW a \in Account, NEW f \in 1 .. calls, f # None, SetEntry(a, f),
           UNCHANGED <<data, synced, promised, calls, crashes>>, temps' \subseteq temps,
           f \in synced, data[f] \in Record, data[f].account = a, ~data[f].old,
           dir[a] = None \/ a \in promised,
           a \in promised => data[f].password = password_of[a]
    PROVE  /\ FilesInv' /\ Frame(f) /\ dir'[a] = f /\ password_of'[a] = data[f].password
           /\ \A b \in Account \ {a} : password_of'[b] = password_of[b]
           /\ \A b \in promised : password_of'[b] = password_of[b]
<1>1. /\ FilesInv' /\ dir'[a] = f
      /\ \A b \in Account \ {a} : dir'[b] = dir[b] /\ password_of'[b] = password_of[b]
      /\ password_of'[a] = IF f = None THEN None ELSE data[f].password
      /\ \A b \in Account : crash_dir'[b] \subseteq crash_dir[b] \cup {f}
      /\ \A b \in promised : password_of'[b] = password_of[b]
  <2>1. /\ f \in (1 .. calls) \cup {None}
        /\ f # None => /\ f \in synced /\ data[f] \in Record
                       /\ data[f].account = a /\ ~data[f].old
        /\ a \in promised => f # None /\ data[f].password = password_of[a]
    BY Zenon
  <2>. QED
    BY <2>1, EntrySet, ZenonT(40)
<1>2. password_of'[a] = data[f].password
  BY <1>1, Zenon
<1>3. \A b \in Account : crash_dir'[b] \subseteq crash_dir[b] \cup {f, None}
  BY <1>1
<1>4. \A b \in Account \ promised : dir[b] # None /\ dir[b] # f =>
         dir'[b] = dir[b] /\ b \notin promised'
  BY <1>1
<1>5. Frame(f)
  BY <1>1, <1>3, <1>4, FrameOf, Zenon
<1>. QED
  BY <1>1, <1>2, <1>5, Zenon

\* unlink takes back the entry of an account that is not reported.
LEMMA Unpublishes ==
    ASSUME FilesInv, NEW a \in Account, SetEntry(a, None), a \notin promised,
           UNCHANGED <<data, synced, promised, calls, crashes, temps>>
    PROVE  FilesInv' /\ Frame(dir[a])
<1>1. /\ FilesInv'
      /\ \A b \in Account \ {a} : dir'[b] = dir[b]
      /\ \A b \in Account : crash_dir'[b] \subseteq crash_dir[b] \cup {None}
      /\ \A b \in promised : password_of'[b] = password_of[b]
  <2>1. /\ None \in (1 .. calls) \cup {None} /\ temps' \subseteq temps
        /\ None # None => /\ None \in synced /\ data[None] \in Record
                          /\ data[None].account = a /\ ~data[None].old
        /\ a \in promised => None # None /\ data[None].password = password_of[a]
    BY Zenon
  <2>. QED
    BY <2>1, EntrySet, ZenonT(40)
<1>2. \A b \in Account : crash_dir'[b] \subseteq crash_dir[b] \cup {dir[a], None}
  BY <1>1
<1>3. \A b \in Account \ promised : dir[b] # None /\ dir[b] # dir[a] =>
         dir'[b] = dir[b] /\ b \notin promised'
  BY <1>1
<1>4. temps' \subseteq temps /\ synced \subseteq synced' /\ promised \subseteq promised'
  OBVIOUS
<1>5. Frame(dir[a])
  BY <1>1, <1>2, <1>3, <1>4, FrameOf, Zenon
<1>. QED
  BY <1>1, <1>5, Zenon

\* A step of one call leaves what is known of another alone.
LEMMA OtherCalls ==
    ASSUME NEW v \in Worker, WorkerInv(v), FilesInv, call'[v] = call[v],
           NEW g, call[v] # Idle => call[v].file # g, Frame(g)
    PROVE  WorkerInv(v)'
<1>. USE DEF Frame
<1>. SUFFICES ASSUME call[v] # Idle
     PROVE  (CallInv(v) /\ CreateInv(v) /\ VerifyInv(v) /\ ExistsInv(v))'
  BY DEF WorkerInv
<1>. DEFINE c == call[v]
<1>1. CallInv(v) /\ CreateInv(v) /\ VerifyInv(v) /\ ExistsInv(v)
  BY ZenonT(30) DEF WorkerInv
<1>2. /\ c \in Busy /\ c.file \in 1 .. calls /\ c.file # g /\ c.file # None
      /\ c.file \in File /\ c.name \in Name /\ calls \in Nat
      /\ Path[c.name] \in Account \cup {None} /\ None \notin Account
  BY <1>1, Constants DEF CallInv, Busy, File, FilesInv
<1>3. CallInv(v)'
  <2>1. c.file \in 1 .. calls' /\ (c.promised => Path[c.name] \in promised')
    BY <1>1, <1>2 DEF CallInv
  <2>2. c.pc \in {"load", "mkstemp"} => c.file \notin temps'
    BY <1>1, <1>2 DEF CallInv
  <2>3. c.pc \in {"load", "mkstemp", "write", "publish"} => Unpublished(c.file)'
    BY <1>1, <1>2 DEF CallInv, Unpublished
  <2>4. c.pc = "publish" => c.file \in synced' /\ data'[c.file] = new_record(v)'
    BY <1>1, <1>2, ZenonT(30) DEF CallInv, new_record, final_path
  <2>. QED
    BY <1>1, <2>1, <2>2, <2>3, <2>4, ZenonT(30) DEF CallInv
<1>4. CreateInv(v)'
  <2>1. ASSUME c.op = "create", c.pc \in {"sync", "unlink_final"}
        PROVE  Path[c.name] \notin promised' /\ dir'[Path[c.name]] = c.file
    <3>1. /\ Path[c.name] \notin promised /\ dir[Path[c.name]] = c.file
          /\ Path[c.name] \in Account
      BY <1>1, <1>2, <2>1, ZenonT(30) DEF CreateInv, CallInv
    <3>. QED
      BY <1>2, <3>1
  <2>. QED
    BY <1>1, <2>1, ZenonT(30) DEF CreateInv
<1>5. VerifyInv(v)'
  <2>1. c.promised => Path[c.name] \in promised
    BY <1>1, ZenonT(30) DEF CallInv
  <2>2. c.op = "verify" /\ c.pc \in {"mkstemp", "write", "publish", "sync"} =>
           Path[c.name] \in promised
    BY <1>1, ZenonT(30) DEF VerifyInv
  <2>. QED
    BY <1>1, <2>1, <2>2, ZenonT(30) DEF VerifyInv
<1>6. ExistsInv(v)'
  BY <1>1 DEF ExistsInv
<1>. QED
  BY <1>3, <1>4, <1>5, <1>6

\* The invariant of a call that moves to p, by what is to be shown of p.
LEMMA CallMoved ==
    ASSUME NEW w \in Worker, NEW p \in PC, NEW r, NEW l, CallInv(w), Moves(w, p, r, l),
           calls' = calls, promised \subseteq promised', p # "load",
           p # "returned" => call[w].pc # "returned",
           p = "mkstemp" => call[w].file \notin temps',
           p \in {"mkstemp", "write", "publish"} =>
              \A a \in Account : call[w].file \notin crash_dir'[a],
           p = "publish" => /\ call[w].file \in synced'
                            /\ data'[call[w].file] = new_record(w)'
    PROVE  CallInv(w)'
BY DEF CallInv, Moves, Unpublished

LEMMA CreateMoved ==
    ASSUME NEW w \in Worker, NEW p \in PC, NEW r, NEW l, Moves(w, p, r, l),
           call[w].op = "create" =>
              /\ p \in {"mkstemp", "write", "publish", "sync", "unlink_final"} => r = -1
              /\ p \in {"sync", "unlink_final"} =>
                    /\ l /\ Path[call[w].name] \notin promised'
                    /\ dir'[Path[call[w].name]] = call[w].file
              /\ call[w].promised => r # 0
    PROVE  CreateInv(w)'
BY DEF CreateInv, Moves

LEMMA VerifyMoved ==
    ASSUME NEW w \in Worker, NEW p \in PC, NEW r, NEW l, Moves(w, p, r, l),
           call[w].op = "verify" =>
              /\ ~l /\ p # "unlink_final"
              /\ p \in {"mkstemp", "write", "publish", "sync"} =>
                    r = 1 /\ Path[call[w].name] \in promised'
              /\ p = "unlink_temp" => r = 1
              /\ \/ r = 1 /\ call[w].promised
                 \/ p \in {"mkstemp", "write", "publish", "sync"}
                 => password_of'[Path[call[w].name]] = call[w].password
              /\ r = 0 /\ call[w].promised =>
                    password_of'[Path[call[w].name]] # call[w].password
    PROVE  VerifyInv(w)'
BY DEF VerifyInv, Moves

LEMMA ExistsMoved ==
    ASSUME NEW w \in Worker, NEW p \in PC, NEW r, NEW l, Moves(w, p, r, l),
           call[w].op # "exists" \/ (p = "returned" /\ (call[w].promised => r # 0))
    PROVE  ExistsInv(w)'
BY DEF ExistsInv, Moves

\* An exists call has nothing to do but to load.
LEMMA NotExists ==
    ASSUME NEW w \in Worker, ExistsInv(w), call[w].pc \notin {"load", "returned"}
    PROVE  call[w].op # "exists"
BY ZenonT(30) DEF ExistsInv

\* What is known of a running call.
LEMMA InCall ==
    ASSUME StoreInv, NEW w \in Worker, call[w].pc # "idle"
    PROVE  /\ call \in [Worker -> Busy \cup {Idle}] /\ call[w] \in Busy /\ FilesInv
           /\ CallInv(w) /\ CreateInv(w) /\ VerifyInv(w) /\ ExistsInv(w)
           /\ call[w].file \in 1 .. calls /\ call[w].file \in File
           /\ call[w].file # None /\ call[w].name \in Name
           /\ call[w].pc # "returned" => final_path(w) \in Account
<1>1. call \in [Worker -> Busy \cup {Idle}] /\ call[w] # Idle /\ FilesInv /\ WorkerInv(w)
  BY Calls DEF StoreInv
<1>2. CallInv(w) /\ CreateInv(w) /\ VerifyInv(w) /\ ExistsInv(w)
  BY <1>1, ZenonT(30) DEF WorkerInv
<1>3. call[w].file \in 1 .. calls /\ calls \in 0 .. MaxCalls /\ call[w].name \in Name
  BY <1>1, <1>2 DEF CallInv, FilesInv, Busy
<1>4. call[w].file \in File /\ call[w].file # None
  BY <1>3, Constants DEF File
<1>5. call[w].pc # "returned" => final_path(w) \in Account
  BY <1>2, <1>3, Constants DEF CallInv, final_path
<1>. QED
  BY <1>1, <1>2, <1>3, <1>4, <1>5 DEF CallInv

\* The file a call publishes is a whole record of its account and password.
LEMMA NewRecord ==
    ASSUME NEW w \in Worker, CallInv(w), call[w].pc = "publish", call[w].op # "exists",
           final_path(w) \in Account
    PROVE  LET f == call[w].file IN
           /\ f \in synced /\ data[f] \in Record /\ data[f].account = final_path(w)
           /\ ~data[f].old /\ data[f].password = call[w].password
           /\ call[w].password \in Password
<1>. DEFINE f == call[w].file
<1>1. f \in synced /\ data[f] = new_record(w) /\ call[w].password \in Password
  BY DEF CallInv
<1>2. /\ new_record(w) \in Record /\ new_record(w).account = final_path(w)
      /\ ~new_record(w).old /\ new_record(w).password = call[w].password
  BY <1>1 DEF new_record, Record
<1>. QED
  BY <1>1, <1>2, Zenon

\* What a step of call w has to show: the files, its frame, its own
\* invariant, and that it returns without a temporary file.
LEMMA MoveInv ==
    ASSUME StoreInv, NEW w \in Worker, call[w].pc # "idle",
           NEW p \in PC, NEW r, NEW l, Moves(w, p, r, l),
           FilesInv', Frame(call[w].file), crashes' = crashes, stray \subseteq stray',
           p = "returned" => call[w].file \notin temps' \ stray',
           (CallInv(w) /\ CreateInv(w) /\ VerifyInv(w) /\ ExistsInv(w))'
    PROVE  StoreInv'
<1>1. call \in [Worker -> Busy \cup {Idle}] /\ call[w] \in Busy /\ FilesInv /\ call[w] # Idle
  BY InCall, Calls
<1>2. OwnFiles'
  BY <1>1 DEF StoreInv, OwnFiles, Moves
<1>3. TempsOwned'
  <2>. SUFFICES ASSUME crashes' = 0, NEW f \in temps' \ stray'
       PROVE  \E v \in Worker : call'[v].pc \notin {"idle", "returned"} /\ call'[v].file = f
    BY DEF TempsOwned
  <2>1. CASE f = call[w].file
    BY <2>1, Calls DEF Moves
  <2>2. CASE f # call[w].file
    <3>1. f \in temps \ stray
      BY <2>2 DEF Frame
    <3>2. PICK v \in Worker : call[v].pc \notin {"idle", "returned"} /\ call[v].file = f
      BY <3>1 DEF StoreInv, TempsOwned
    <3>. QED
      BY <2>2, <3>2, ZenonT(30) DEF Moves
  <2>. QED
    BY <2>1, <2>2
<1>4. ASSUME NEW v \in Worker PROVE WorkerInv(v)'
  <2>1. CASE v = w
    BY <2>1 DEF WorkerInv
  <2>2. CASE v # w
    <3>1. WorkerInv(v) /\ call'[v] = call[v] /\ (call[v] # Idle => call[v].file # call[w].file)
      BY <1>1, <2>2 DEF StoreInv, OwnFiles, Moves
    <3>. QED
      BY <1>1, <3>1, OtherCalls
  <2>. QED
    BY <2>1, <2>2
<1>. QED
  BY <1>2, <1>3, <1>4 DEF StoreInv, Moves

-----------------------------------------------------------------------------
(* The actions.                                                            *)

\* A step of a call that leaves entries and contents alone.
LEMMA SameFrame ==
    ASSUME FilesInv, UNCHANGED <<dir, crash_dir, data, synced, promised, calls, crashes>>,
           NEW g \in 1 .. calls, temps' \subseteq temps \cup {g}
    PROVE  FilesInv' /\ Frame(g) /\ password_of' = password_of
<1>1. /\ calls \in Nat /\ calls' \in calls .. MaxCalls /\ temps' \subseteq 1 .. calls'
      /\ crashes' \in Nat
  BY DEF FilesInv
<1>2. FilesInv' /\ password_of' = password_of
  BY <1>1, FilesSame
<1>. QED
  BY <1>1, <1>2 DEF Frame

\* The invariant of a call that returns.
LEMMA Returned ==
    ASSUME StoreInv, NEW w \in Worker, call[w].pc # "idle", NEW r, NEW l,
           Moves(w, "returned", r, l), calls' = calls, promised \subseteq promised',
           call[w].promised => r # 0 \/ call[w].op = "verify",
           call[w].op = "verify" => ~l,
           call[w].op = "verify" /\ r = 1 /\ call[w].promised =>
               password_of'[final_path(w)] = call[w].password,
           call[w].op = "verify" /\ r = 0 /\ call[w].promised =>
               password_of'[final_path(w)] # call[w].password
    PROVE  (CallInv(w) /\ CreateInv(w) /\ VerifyInv(w) /\ ExistsInv(w))'
<1>1. CallInv(w) /\ "returned" \in PC
  BY InCall DEF PC
<1>2. CallInv(w)'
  BY <1>1, CallMoved
<1>3. CreateInv(w)'
  BY <1>1, CreateMoved, ZenonT(30)
<1>4. VerifyInv(w)'
  BY <1>1, VerifyMoved DEF final_path
<1>5. ExistsInv(w)'
  BY <1>1, ExistsMoved
<1>. QED
  BY <1>2, <1>3, <1>4, <1>5

\* An account that has been reported is found, whole, by every lookup.
LEMMA PromisedLoads ==
    ASSUME FilesInv, NEW a \in promised
    PROVE  dir[a] # None /\ data[dir[a]] \in Record /\ password_of[a] = data[dir[a]].password
BY DEF FilesInv, RecordsWhole, password_of

LEMMA ExistsStep ==
    ASSUME StoreInv, NEW w \in Worker, exists(w)
    PROVE  StoreInv'
<1>1. call[w].pc = "load" /\ call[w].op = "exists"
  BY DEF exists, At
<1>2. /\ FilesInv /\ CallInv(w) /\ call[w] \in Busy /\ call[w].file \in 1 .. calls
      /\ call \in [Worker -> Busy \cup {Idle}] /\ call[w].pc # "idle"
  BY <1>1, InCall
<1>3. PICK r \in {-1, 0, 1} :
         /\ Answers(w, "returned", r)
         /\ r = 0 => dir[final_path(w)] = None
  BY DEF exists, Return, load_record, Answers
<1>4. Moves(w, "returned", r, call[w].linked)
  BY <1>2, <1>3, AnswersMoves DEF PC
<1>5. /\ UNCHANGED <<dir, crash_dir, data, synced, promised, calls, crashes, temps, stray>>
  BY DEF exists, fail, files, counters
<1>6. FilesInv' /\ Frame(call[w].file)
  BY <1>2, <1>5, SameFrame, ZenonT(30)
<1>7. call[w].promised => r # 0
  BY <1>2, <1>3, PromisedLoads DEF CallInv, final_path
<1>a. call[w].op # "verify" /\ calls' = calls /\ promised \subseteq promised'
  BY <1>1, <1>5
<1>8. (CallInv(w) /\ CreateInv(w) /\ VerifyInv(w) /\ ExistsInv(w))'
  BY <1>2, <1>4, <1>7, <1>a, Returned, Zenon
<1>9. call[w].file \notin temps'
  BY <1>1, <1>2, <1>5, ZenonT(30) DEF CallInv
<1>. QED
  BY <1>2, <1>4, <1>5, <1>6, <1>8, <1>9, MoveInv DEF PC

LEMMA VerifyStep ==
    ASSUME StoreInv, NEW w \in Worker, verify_password(w)
    PROVE  StoreInv'
<1>. DEFINE c == call[w]
            a == final_path(w)
<1>1. c.pc = "load" /\ c.op = "verify"
  BY DEF verify_password, At
<1>2. /\ FilesInv /\ CallInv(w) /\ VerifyInv(w) /\ c \in Busy /\ c.file \in 1 .. calls
      /\ call \in [Worker -> Busy \cup {Idle}] /\ c.pc # "idle" /\ a \in Account
  BY <1>1, InCall
<1>3. /\ UNCHANGED <<dir, crash_dir, data, synced, promised, calls, crashes, temps, stray>>
  BY DEF verify_password, fail, files, counters
<1>4. FilesInv' /\ Frame(c.file) /\ password_of' = password_of
  BY <1>2, <1>3, SameFrame, ZenonT(30)
<1>5. c.file \notin temps' /\ ~c.linked /\ (c.promised => a \in promised)
  BY <1>1, <1>2, <1>3 DEF CallInv, VerifyInv, final_path
<1>6. PICK p \in {"returned", "mkstemp"}, r \in {-1, 0, 1} :
         /\ Answers(w, p, r)
         /\ p = "mkstemp" => /\ r = 1 /\ dir[a] # None
                             /\ data[dir[a]].old
         /\ r = 1 => data[dir[a]].password = c.password
         /\ r = 0 => data[dir[a]].password # c.password
  BY SMTT(30) DEF verify_password, Return, load_record, Answers
<1>7. Moves(w, p, r, c.linked)
  BY <1>2, <1>6, AnswersMoves DEF PC
<1>8. CASE p = "returned"
  <2>1. c.promised => password_of[a] = data[dir[a]].password
    BY <1>2, <1>5, PromisedLoads, ZenonT(30)
  <2>2. (CallInv(w) /\ CreateInv(w) /\ VerifyInv(w) /\ ExistsInv(w))'
    BY <1>1, <1>2, <1>3, <1>4, <1>5, <1>6, <1>7, <1>8, <2>1, Returned, ZenonT(30)
  <2>. QED
    BY <1>2, <1>3, <1>4, <1>5, <1>7, <2>2, MoveInv, ZenonT(30) DEF PC
<1>9. CASE p = "mkstemp"
  <2>1. a \in promised
    <3>1. dir[a] \in crash_dir[a] \ {None}
      BY <1>2, <1>6, <1>9, ZenonT(30) DEF FilesInv
    <3>. QED
      BY <1>2, <1>6, <1>9, <3>1, ZenonT(30) DEF FilesInv
  <2>2. password_of[a] = c.password
    BY <1>2, <1>6, <1>9, <2>1, PromisedLoads, ZenonT(30)
  <2>a. "mkstemp" \in PC /\ Moves(w, "mkstemp", 1, c.linked)
    BY <1>6, <1>7, <1>9, ZenonT(30) DEF PC
  <2>b. \A b \in Account : c.file \notin crash_dir'[b]
    BY <1>1, <1>2, <1>3, ZenonT(30) DEF CallInv, Unpublished
  <2>3. CallInv(w)'
    BY <1>1, <1>2, <1>3, <1>5, <2>a, <2>b, CallMoved, ZenonT(30)
  <2>4. VerifyInv(w)'
    BY <1>3, <1>4, <1>5, <2>1, <2>2, <2>a, VerifyMoved, SMTT(30) DEF final_path
  <2>5. CreateInv(w)' /\ ExistsInv(w)'
    BY <1>1, <2>a, CreateMoved, ExistsMoved
  <2>. QED
    BY <1>2, <1>3, <1>4, <1>7, <1>9, <2>3, <2>4, <2>5, MoveInv, ZenonT(30) DEF PC
<1>. QED
  BY <1>6, <1>8, <1>9

LEMMA MkstempStep ==
    ASSUME StoreInv, NEW w \in Worker, mkstemp(w)
    PROVE  StoreInv'
<1>. DEFINE c == call[w]
<1>1. c.pc = "mkstemp"
  BY DEF mkstemp, At
<1>2. /\ FilesInv /\ CallInv(w) /\ VerifyInv(w) /\ CreateInv(w) /\ ExistsInv(w)
      /\ c \in Busy /\ c.file \in 1 .. calls
      /\ call \in [Worker -> Busy \cup {Idle}] /\ c.pc # "idle" /\ final_path(w) \in Account
  BY <1>1, InCall
<1>3. /\ UNCHANGED <<dir, crash_dir, data, synced, promised, calls, crashes, stray>>
      /\ temps' \subseteq temps \cup {c.file}
  BY DEF mkstemp, fail, counters
<1>4. FilesInv' /\ Frame(c.file) /\ password_of' = password_of
  BY <1>2, <1>3, SameFrame
<1>a. /\ c.op # "exists" /\ {"write", "returned"} \subseteq PC
      /\ c.op = "create" => c.result = -1
  BY <1>1, <1>2, NotExists, ZenonT(30) DEF CreateInv, PC
<1>b. c.op = "verify" => /\ ~c.linked /\ c.result = 1 /\ Path[c.name] \in promised'
                         /\ password_of'[Path[c.name]] = c.password
  BY <1>1, <1>2, <1>3, <1>4, ZenonT(30) DEF VerifyInv
<1>c. c.file \notin temps /\ \A b \in Account : c.file \notin crash_dir'[b]
  BY <1>1, <1>2, <1>3 DEF CallInv, Unpublished
<1>5. CASE Step(w, "write")
  <2>1. Moves(w, "write", c.result, c.linked)
    BY <1>2, <1>5, <1>a, StepMoves, ZenonT(30)
  <2>2. CallInv(w)'
    BY <1>1, <1>2, <1>3, <1>a, <1>c, <2>1, CallMoved, ZenonT(30)
  <2>3. CreateInv(w)' /\ ExistsInv(w)'
    BY <1>a, <2>1, CreateMoved, ExistsMoved
  <2>4. VerifyInv(w)'
    BY <1>a, <1>b, <2>1, VerifyMoved
  <2>. QED
    BY <1>2, <1>3, <1>4, <2>1, <2>2, <2>3, <2>4, MoveInv DEF PC
<1>6. CASE Step(w, "returned") /\ UNCHANGED temps
  <2>1. Moves(w, "returned", c.result, c.linked)
    BY <1>2, <1>6, <1>a, StepMoves, ZenonT(30)
  <2>2. CallInv(w)' /\ c.file \notin temps'
    BY <1>2, <1>3, <1>6, <1>a, <1>c, <2>1, CallMoved, ZenonT(30)
  <2>3. CreateInv(w)' /\ ExistsInv(w)'
    BY <1>a, <2>1, CreateMoved, ExistsMoved
  <2>4. VerifyInv(w)'
    BY <1>a, <1>b, <2>1, VerifyMoved
  <2>. QED
    BY <1>2, <1>3, <1>4, <2>1, <2>2, <2>3, <2>4, MoveInv DEF PC
<1>. QED
  BY <1>5, <1>6 DEF mkstemp, Step

LEMMA WriteStep ==
    ASSUME StoreInv, NEW w \in Worker, write_record(w)
    PROVE  StoreInv'
<1>. DEFINE c == call[w]
<1>1. c.pc = "write"
  BY DEF write_record, At
<1>2. /\ FilesInv /\ CallInv(w) /\ VerifyInv(w) /\ CreateInv(w) /\ ExistsInv(w)
      /\ c \in Busy /\ c.file \in 1 .. calls /\ c.file \in File
      /\ call \in [Worker -> Busy \cup {Idle}] /\ c.pc # "idle" /\ final_path(w) \in Account
  BY <1>1, InCall, ZenonT(30)
<1>3. c.op # "exists" /\ Unpublished(c.file) /\ new_record(w) \in Record
  BY <1>1, <1>2 DEF CallInv, ExistsInv, new_record, Record
<1>4. PICK d \in Content : data' = [data EXCEPT ![c.file] = d]
  BY <1>3, ZenonT(30) DEF write_record, Content
<1>5. /\ UNCHANGED <<dir, crash_dir, promised, temps, calls, crashes, stray>>
      /\ synced \subseteq synced' /\ synced' \subseteq File
  BY <1>2, ZenonT(30) DEF write_record, fail, counters, FilesInv
<1>6. /\ FilesInv'
      /\ \A f \in File \ {c.file} : data'[f] = data[f]
      /\ \A b \in Account : password_of'[b] = password_of[b]
  BY <1>2, <1>3, <1>4, <1>5, DataSet, Zenon
<1>7. Frame(c.file)
  <2>1. \A b \in promised : password_of'[b] = password_of[b]
    BY <1>2, <1>6 DEF FilesInv
  <2>2. /\ temps' \subseteq temps /\ promised \subseteq promised'
        /\ \A b \in Account : crash_dir'[b] \subseteq crash_dir[b] \cup {c.file, None}
        /\ \A b \in Account \ promised : dir'[b] = dir[b] /\ b \notin promised'
    BY <1>5
  <2>. QED
    BY <1>2, <1>5, <1>6, <2>1, <2>2, FrameOf, Zenon
<1>8. \A p \in {"publish", "unlink_temp"} : Step(w, p) => Moves(w, p, c.result, c.linked)
  BY <1>2, StepMoves DEF PC
<1>9. ASSUME NEW p \in {"publish", "unlink_temp"}, Moves(w, p, c.result, c.linked)
      PROVE  (CreateInv(w) /\ VerifyInv(w) /\ ExistsInv(w))'
  <2>a. p \in PC /\ p # "unlink_final" /\ p # "sync"
    BY DEF PC
  <2>b. c.op = "create" => c.result = -1
    BY <1>1, <1>2, ZenonT(30) DEF CreateInv
  <2>d. c.op = "create" => c.result # 0
    BY <2>b
  <2>e. CreateInv(w)'
    BY <1>9, <2>a, <2>b, <2>d, CreateMoved, ZenonT(30)
  <2>1. CreateInv(w)' /\ ExistsInv(w)'
    BY <1>3, <1>9, <2>a, <2>e, ExistsMoved, ZenonT(30)
  <2>2. password_of'[Path[c.name]] = password_of[Path[c.name]]
    BY <1>2, <1>6, ZenonT(30) DEF final_path
  <2>c. c.op = "verify" => /\ ~c.linked /\ c.result = 1 /\ Path[c.name] \in promised'
                           /\ password_of'[Path[c.name]] = c.password
    BY <1>1, <1>2, <1>5, <2>2, ZenonT(30) DEF VerifyInv
  <2>f. c.op = "verify" => c.result # 0
    BY <2>c
  <2>3. VerifyInv(w)'
    BY <1>9, <2>a, <2>c, <2>f, VerifyMoved, ZenonT(30)
  <2>. QED
    BY <2>1, <2>3
<1>10. CASE /\ data' = [data EXCEPT ![c.file] = new_record(w)]
            /\ synced' = synced \cup {c.file} /\ Step(w, "publish")
  <2>1. Moves(w, "publish", c.result, c.linked)
    BY <1>8, <1>10, ZenonT(30)
  <2>2. data'[c.file] = new_record(w) /\ new_record(w)' = new_record(w)
    BY <1>2, <1>10, <2>1, ZenonT(30) DEF FilesInv, new_record, final_path, Moves
  <2>a. /\ c.file \in synced' /\ "publish" \in PC
        /\ \A b \in Account : c.file \notin crash_dir'[b]
    BY <1>3, <1>5, <1>10 DEF Unpublished, PC
  <2>3. CallInv(w)'
    BY <1>1, <1>2, <1>5, <2>1, <2>2, <2>a, CallMoved, ZenonT(30)
  <2>. QED
    BY <1>2, <1>5, <1>6, <1>7, <1>9, <2>1, <2>3, MoveInv DEF PC
<1>11. CASE Step(w, "unlink_temp")
  <2>1. Moves(w, "unlink_temp", c.result, c.linked)
    BY <1>8, <1>11
  <2>2. CallInv(w)'
    <3>1. calls' = calls /\ promised \subseteq promised' /\ "unlink_temp" \in PC
      BY <1>5, ZenonT(30) DEF PC
    <3>. QED
      BY <1>1, <1>2, <2>1, <3>1, CallMoved, Zenon
  <2>. QED
    BY <1>2, <1>5, <1>6, <1>7, <1>9, <2>1, <2>2, MoveInv, ZenonT(30) DEF PC
<1>. QED
  BY <1>10, <1>11, ZenonT(30) DEF write_record

\* A call that gives up publishing, or returns 1 because the account exists,
\* goes on to remove its temporary file.
LEMMA GivesUp ==
    ASSUME StoreInv, NEW w \in Worker, call[w].pc \in {"publish", "sync", "unlink_final"},
           UNCHANGED <<dir, crash_dir, data, synced, promised, calls, crashes, temps, stray>>,
           NEW r \in {-1, 1}, r = call[w].result \/ call[w].op = "create",
           Moves(w, "unlink_temp", r, call[w].linked)
    PROVE  StoreInv'
<1>. DEFINE c == call[w]
<1>2. /\ FilesInv /\ CallInv(w) /\ VerifyInv(w) /\ CreateInv(w) /\ ExistsInv(w)
      /\ c \in Busy /\ c.file \in 1 .. calls /\ c.pc # "idle" /\ c.pc # "returned"
  BY InCall
<1>4. FilesInv' /\ Frame(c.file) /\ password_of' = password_of
  BY <1>2, SameFrame
<1>a. c.op # "exists" /\ "unlink_temp" \in PC
  BY <1>2, NotExists, ZenonT(30) DEF PC
<1>b. c.op = "verify" =>
         /\ ~c.linked /\ r = 1
         /\ c.promised => password_of'[Path[c.name]] = c.password
  BY <1>2, <1>4, ZenonT(30) DEF VerifyInv
<1>5. CallInv(w)'
  BY <1>2, <1>a, CallMoved, ZenonT(30)
<1>c. r # 0
  OBVIOUS
<1>d. CreateInv(w)'
  BY <1>a, <1>c, CreateMoved, ZenonT(30)
<1>6. CreateInv(w)' /\ ExistsInv(w)'
  BY <1>a, <1>d, ExistsMoved, ZenonT(30)
<1>7. VerifyInv(w)'
  BY <1>a, <1>b, VerifyMoved
<1>. QED
  BY <1>2, <1>4, <1>5, <1>6, <1>7, MoveInv DEF PC

-----------------------------------------------------------------------------
\* The steps of a call from the publication of its file on, the start and the
\* end of a run of the server, and the theorems.

LEMMA LinkStep ==
    ASSUME StoreInv, NEW w \in Worker, link(w)
    PROVE  StoreInv'
<1>. DEFINE c == call[w]
            a == final_path(w)
<1>1. c.pc = "publish" /\ c.op = "create"
  BY DEF link, At
<1>2. /\ FilesInv /\ CallInv(w) /\ VerifyInv(w) /\ CreateInv(w) /\ ExistsInv(w)
      /\ c \in Busy /\ c.file \in 1 .. calls /\ c.file \in File /\ c.file # None
      /\ call \in [Worker -> Busy \cup {Idle}] /\ c.pc # "idle" /\ a \in Account
  BY <1>1, InCall
<1>3. /\ UNCHANGED <<data, synced, promised, calls, crashes, temps, stray>>
  BY DEF link, fail, counters
<1>4. CASE dir[a] = None /\ SetEntry(a, c.file) /\ Links(w)
  <2>1. Moves(w, "sync", c.result, TRUE)
    BY <1>2, <1>4, LinksMoves, Zenon DEF PC
  <2>2. a \notin promised
    BY <1>2, <1>4, PromisedLoads
  <2>3. /\ c.file \in synced /\ data[c.file] \in Record /\ data[c.file].account = a
        /\ ~data[c.file].old
    BY <1>1, <1>2, NewRecord, Zenon
  <2>4. temps' \subseteq temps
    BY <1>3
  <2>5. FilesInv' /\ Frame(c.file) /\ dir'[a] = c.file
    BY <1>2, <1>3, <1>4, <2>2, <2>3, <2>4, Publishes, ZenonT(30)
  <2>a. "sync" \in PC /\ c.result = -1 /\ promised' = promised
    BY <1>1, <1>2, <1>3 DEF CreateInv, PC
  <2>7. CallInv(w)'
    <3>1. calls' = calls /\ promised \subseteq promised'
      BY <1>3
    <3>. QED
      BY <1>1, <1>2, <2>1, <2>a, <3>1, CallMoved, Zenon
  <2>b. /\ c.result # 0 /\ Path[c.name] \notin promised'
        /\ dir'[Path[c.name]] = c.file
    BY <2>2, <2>5, <2>a DEF final_path
  <2>8. CreateInv(w)'
    BY <2>1, <2>a, <2>b, CreateMoved, Zenon
  <2>9. VerifyInv(w)' /\ ExistsInv(w)'
    BY <1>1, <2>1, <2>a, VerifyMoved, ExistsMoved, Zenon
  <2>. QED
    BY <1>2, <1>3, <2>1, <2>5, <2>7, <2>8, <2>9, MoveInv, Zenon DEF PC
<1>5. CASE Answers(w, "unlink_temp", 1) /\ UNCHANGED <<dir, crash_dir>>
  <2>1. Moves(w, "unlink_temp", 1, c.linked)
    BY <1>2, <1>5, AnswersMoves DEF PC
  <2>. QED
    BY <1>1, <1>3, <1>5, <2>1, GivesUp
<1>6. CASE Step(w, "unlink_temp") /\ UNCHANGED <<dir, crash_dir>>
  <2>1. Moves(w, "unlink_temp", c.result, c.linked) /\ c.result = -1
    BY <1>1, <1>2, <1>6, StepMoves DEF PC, CreateInv
  <2>. QED
    BY <1>1, <1>3, <1>6, <2>1, GivesUp, ZenonT(30)
<1>. QED
  BY <1>4, <1>5, <1>6 DEF link, Links, Answers

LEMMA RenameStep ==
    ASSUME StoreInv, NEW w \in Worker, rename(w)
    PROVE  StoreInv'
<1>. DEFINE c == call[w]
            a == final_path(w)
<1>1. c.pc = "publish" /\ c.op = "verify"
  BY DEF rename, At
<1>2. /\ FilesInv /\ CallInv(w) /\ VerifyInv(w) /\ CreateInv(w) /\ ExistsInv(w)
      /\ c \in Busy /\ c.file \in 1 .. calls /\ c.file \in File /\ c.file # None
      /\ call \in [Worker -> Busy \cup {Idle}] /\ c.pc # "idle" /\ a \in Account
  BY <1>1, InCall
<1>3. /\ UNCHANGED <<data, synced, promised, calls, crashes, stray>>
  BY DEF rename, fail, counters
<1>4. CASE SetEntry(a, c.file) /\ temps' = temps \ {c.file} /\ Step(w, "sync")
  <2>1. Moves(w, "sync", c.result, c.linked)
    BY <1>2, <1>4, StepMoves, ZenonT(30) DEF PC
  <2>2. a \in promised /\ password_of[a] = c.password
    BY <1>1, <1>2 DEF VerifyInv, final_path
  <2>3. /\ c.file \in synced /\ data[c.file] \in Record /\ data[c.file].account = a
        /\ ~data[c.file].old /\ data[c.file].password = c.password
    BY <1>1, <1>2, NewRecord, Zenon
  <2>4. temps' \subseteq temps
    BY <1>4
  <2>5. /\ FilesInv' /\ Frame(c.file)
        /\ \A b \in promised : password_of'[b] = password_of[b]
    BY <1>2, <1>3, <1>4, <2>2, <2>3, <2>4, Publishes, ZenonT(30)
  <2>a. "sync" \in PC /\ ~c.linked /\ c.result = 1 /\ a \in promised'
    BY <1>1, <1>2, <1>3, <2>2, ZenonT(30) DEF VerifyInv, PC
  <2>6. CallInv(w)'
    BY <1>1, <1>2, <1>3, <2>1, <2>a, CallMoved, ZenonT(30)
  <2>7. VerifyInv(w)'
    BY <2>1, <2>2, <2>5, <2>a, VerifyMoved DEF final_path
  <2>8. CreateInv(w)' /\ ExistsInv(w)'
    BY <1>1, <2>1, <2>a, CreateMoved, ExistsMoved
  <2>. QED
    BY <1>2, <1>3, <2>1, <2>5, <2>6, <2>7, <2>8, MoveInv, Zenon DEF PC
<1>5. CASE Step(w, "unlink_temp") /\ UNCHANGED <<dir, crash_dir, temps>>
  <2>1. Moves(w, "unlink_temp", c.result, c.linked) /\ c.result = 1
    BY <1>1, <1>2, <1>5, StepMoves DEF PC, VerifyInv
  <2>. QED
    BY <1>1, <1>3, <1>5, <2>1, GivesUp, ZenonT(30)
<1>. QED
  BY <1>4, <1>5 DEF rename

LEMMA SyncStep ==
    ASSUME StoreInv, NEW w \in Worker, sync_directory(w)
    PROVE  StoreInv'
<1>. DEFINE c == call[w]
            a == final_path(w)
<1>1. c.pc = "sync"
  BY DEF sync_directory, At
<1>2. /\ FilesInv /\ CallInv(w) /\ VerifyInv(w) /\ CreateInv(w) /\ ExistsInv(w)
      /\ c \in Busy /\ c.file \in 1 .. calls /\ c.file \in File /\ c.file # None
      /\ call \in [Worker -> Busy \cup {Idle}] /\ c.pc # "idle" /\ a \in Account
  BY <1>1, InCall
<1>3. /\ UNCHANGED <<dir, data, synced, temps, calls, crashes, stray>>
  BY ZenonT(30) DEF sync_directory, fail, counters
<1>4. /\ c.op \in {"create", "verify"}
      /\ c.op = "create" => c.result = -1 /\ c.linked /\ a \notin promised /\ dir[a] = c.file
      /\ c.op = "verify" => c.result = 1 /\ ~c.linked /\ a \in promised
  BY <1>1, <1>2, ZenonT(30) DEF ExistsInv, CreateInv, VerifyInv, Busy, final_path
<1>5. CASE /\ crash_dir' = [b \in Account |-> {dir[b]}]
           /\ Reports(w)
           /\ promised' = IF c.op = "create" THEN promised \cup {a} ELSE promised
  <2>. DEFINE r == IF c.op = "create" THEN 0 ELSE 1
              new == IF c.op = "create" THEN {a} ELSE {}
  <2>1. r = (IF c.result = -1 THEN 0 ELSE c.result) /\ (r = 0 <=> c.op = "create")
    BY <1>4
  <2>2. Moves(w, "unlink_temp", r, c.linked)
    BY <1>2, <1>5, <2>1, ReportsMoves, ZenonT(30) DEF PC
  <2>3. /\ new \in SUBSET Account /\ promised' = promised \cup new
        /\ \A b \in new : dir[b] = c.file /\ dir[b] # None
    <3>1. CASE c.op = "create"
      BY <1>2, <1>4, <1>5, <3>1, ZenonT(30)
    <3>2. CASE c.op # "create"
      BY <1>5, <3>2
    <3>. QED
      BY <3>1, <3>2
  <2>. HIDE DEF r, new
  <2>4. /\ FilesInv' /\ password_of' = password_of
        /\ \A b \in Account : crash_dir'[b] \subseteq crash_dir[b]
    BY <1>2, <1>3, <1>5, <2>3, DirSynced, Zenon
  <2>5. Frame(c.file)
    <3>1. promised \subseteq promised' /\ \A b \in Account \ promised :
             dir[b] # c.file => b \notin promised'
      BY <2>3
    <3>2. /\ temps' \subseteq temps /\ synced \subseteq synced'
          /\ \A b \in Account : crash_dir'[b] \subseteq crash_dir[b] \cup {c.file, None}
      BY <1>3, <2>4
    <3>3. \A b \in promised : password_of'[b] = password_of[b]
      BY <2>4, Zenon
    <3>. QED
      BY <1>2, <1>3, <3>1, <3>2, <3>3, FrameOf, Zenon
  <2>a. "unlink_temp" \in PC /\ promised \subseteq promised'
    BY <2>3, ZenonT(30) DEF PC
  <2>b. c.op = "create" => ~c.promised
    BY <1>2, <1>4, ZenonT(30) DEF CallInv, final_path
  <2>c. c.op = "verify" => r = 1 /\ ~c.linked /\ password_of'[Path[c.name]] = c.password
    BY <1>1, <1>2, <1>4, <2>4, ZenonT(30) DEF VerifyInv, r
  <2>6. CallInv(w)'
    BY <1>1, <1>2, <1>3, <2>2, <2>a, CallMoved, ZenonT(30)
  <2>7. CreateInv(w)'
    BY <2>2, <2>a, <2>b, CreateMoved, ZenonT(30)
  <2>8. VerifyInv(w)'
    BY <2>2, <2>a, <2>c, VerifyMoved
  <2>9. ExistsInv(w)'
    BY <1>4, <2>2, <2>a, ExistsMoved
  <2>. QED
    BY <1>2, <1>3, <2>2, <2>4, <2>5, <2>6, <2>7, <2>8, <2>9, MoveInv DEF PC
<1>6. CASE /\ Step(w, IF c.linked THEN "unlink_final" ELSE "unlink_temp")
           /\ UNCHANGED <<crash_dir, promised>>
  <2>1. CASE c.op = "verify"
    <3>1. Moves(w, "unlink_temp", c.result, c.linked) /\ c.result = 1
      BY <1>2, <1>4, <1>6, <2>1, StepMoves DEF PC
    <3>. QED
      BY <1>1, <1>3, <1>6, <3>1, GivesUp
  <2>2. CASE c.op = "create"
    <3>1. Moves(w, "unlink_final", c.result, c.linked)
      BY <1>2, <1>4, <1>6, <2>2, StepMoves DEF PC
    <3>2. FilesInv' /\ Frame(c.file)
      BY <1>2, <1>3, <1>6, SameFrame
    <3>a. "unlink_final" \in PC /\ promised' = promised /\ dir' = dir
      BY <1>3, <1>6, ZenonT(30) DEF PC
    <3>3. CallInv(w)'
      BY <1>1, <1>2, <1>3, <3>1, <3>a, CallMoved, ZenonT(30)
    <3>4. CreateInv(w)'
      BY <1>4, <2>2, <3>1, <3>a, CreateMoved, SMTT(30) DEF final_path
    <3>5. VerifyInv(w)' /\ ExistsInv(w)'
      BY <2>2, <3>1, <3>a, VerifyMoved, ExistsMoved
    <3>. QED
      BY <1>2, <1>3, <3>1, <3>2, <3>3, <3>4, <3>5, MoveInv, ZenonT(30) DEF PC
  <2>. QED
    BY <1>4, <2>1, <2>2, ZenonT(30)
<1>. QED
  BY <1>5, <1>6 DEF sync_directory, Reports

LEMMA UnlinkFinalStep ==
    ASSUME StoreInv, NEW w \in Worker, unlink_final(w)
    PROVE  StoreInv'
<1>. DEFINE c == call[w]
            a == final_path(w)
<1>1. c.pc = "unlink_final"
  BY DEF unlink_final, At
<1>2. /\ FilesInv /\ CallInv(w) /\ VerifyInv(w) /\ CreateInv(w) /\ ExistsInv(w)
      /\ c \in Busy /\ c.file \in 1 .. calls /\ c.file \in File /\ c.file # None
      /\ call \in [Worker -> Busy \cup {Idle}] /\ c.pc # "idle" /\ a \in Account
  BY <1>1, InCall
<1>3. /\ UNCHANGED <<data, synced, promised, calls, crashes, temps, stray>>
  BY ZenonT(30) DEF unlink_final, fail, counters
<1>4. c.op = "create" /\ c.result = -1 /\ a \notin promised /\ dir[a] = c.file
  BY <1>1, <1>2 DEF ExistsInv, CreateInv, VerifyInv, Busy, final_path
<1>5. Moves(w, "unlink_temp", c.result, c.linked)
  BY <1>2, StepMoves DEF PC, unlink_final
<1>6. CASE SetEntry(a, None)
  <2>1. FilesInv' /\ Frame(dir[a])
    BY <1>2, <1>3, <1>4, <1>6, Unpublishes, Zenon
  <2>2. Frame(c.file)
    BY <1>4, <2>1, Zenon
  <2>a. "unlink_temp" \in PC
    BY DEF PC
  <2>3. CallInv(w)'
    <3>1. calls' = calls /\ promised \subseteq promised'
      BY <1>3
    <3>. QED
      BY <1>1, <1>2, <1>5, <2>a, <3>1, CallMoved, ZenonT(30)
  <2>4. CreateInv(w)' /\ ExistsInv(w)' /\ VerifyInv(w)'
    <3>1. c.op # "verify" /\ c.op # "exists" /\ c.result # 0
      BY <1>4
    <3>. QED
      BY <1>5, <2>a, <3>1, CreateMoved, ExistsMoved, VerifyMoved, ZenonT(30)
  <2>. QED
    BY <1>2, <1>3, <1>5, <2>1, <2>2, <2>3, <2>4, MoveInv DEF PC
<1>7. CASE UNCHANGED <<dir, crash_dir>>
  BY <1>1, <1>3, <1>4, <1>5, <1>7, GivesUp, ZenonT(30)
<1>. QED
  BY <1>6, <1>7 DEF unlink_final

LEMMA UnlinkTempStep ==
    ASSUME StoreInv, NEW w \in Worker, unlink_temp(w)
    PROVE  StoreInv'
<1>. DEFINE c == call[w]
<1>1. c.pc = "unlink_temp"
  BY DEF unlink_temp, At
<1>2. /\ FilesInv /\ CallInv(w) /\ VerifyInv(w) /\ CreateInv(w) /\ ExistsInv(w)
      /\ c \in Busy /\ c.file \in 1 .. calls
      /\ call \in [Worker -> Busy \cup {Idle}] /\ c.pc # "idle"
  BY <1>1, InCall
<1>3. /\ UNCHANGED <<dir, crash_dir, data, synced, promised, calls, crashes>>
      /\ temps' \subseteq temps /\ stray \subseteq stray' /\ c.file \notin temps' \ stray'
  BY DEF unlink_temp, fail, counters
<1>4. FilesInv' /\ Frame(c.file) /\ password_of' = password_of
  BY <1>2, <1>3, SameFrame
<1>5. Moves(w, "returned", c.result, c.linked)
  BY <1>2, StepMoves, ZenonT(30) DEF PC, unlink_temp
<1>6. /\ c.op # "exists" /\ (c.op = "verify" => ~c.linked /\ c.result = 1)
      /\ c.promised => c.result # 0
      /\ c.op = "verify" /\ c.promised => password_of[final_path(w)] = c.password
  <2>1. c.op \in {"create", "verify", "exists"}
    BY <1>2 DEF Busy
  <2>2. c.op # "exists"
    BY <1>1, <1>2, ZenonT(30) DEF ExistsInv
  <2>3. c.op = "verify" => ~c.linked /\ c.result = 1
    BY <1>1, <1>2, ZenonT(30) DEF VerifyInv
  <2>4. c.op = "create" => (c.promised => c.result # 0)
    BY <1>2, ZenonT(30) DEF CreateInv
  <2>5. c.op = "verify" /\ c.promised => password_of[final_path(w)] = c.password
    BY <1>2, <2>3, ZenonT(30) DEF VerifyInv, final_path
  <2>. QED
    BY <2>1, <2>2, <2>3, <2>4, <2>5
<1>7. (CallInv(w) /\ CreateInv(w) /\ VerifyInv(w) /\ ExistsInv(w))'
  BY <1>2, <1>3, <1>4, <1>5, <1>6, Returned, Zenon
<1>. QED
  BY <1>2, <1>3, <1>4, <1>5, <1>7, MoveInv, SMTT(30) DEF PC

\* A call that starts: its file has a number that nothing has yet.
LEMMA StartStep ==
    ASSUME StoreInv, NEW w \in Worker, NEW op \in {"create", "verify", "exists"},
           NEW n \in Name, NEW p \in Password \cup {None}, op # "exists" => p \in Password,
           start(w, op, n, p)
    PROVE  StoreInv'
<1>. DEFINE g == calls + 1
<1>1. /\ FilesInv /\ call \in [Worker -> Busy \cup {Idle}] /\ calls \in Nat
      /\ calls' = g /\ g \in 1 .. MaxCalls /\ MaxCalls \in Nat
      /\ call[w].pc \in {"idle", "returned"}
  <2>1. /\ FilesInv /\ call \in [Worker -> Busy \cup {Idle}]
    BY Zenon DEF StoreInv
  <2>2. calls \in Nat /\ MaxCalls \in Nat
    BY <2>1, CallsType, Constants, Zenon
  <2>3. calls' = g /\ calls < MaxCalls /\ call[w].pc \in {"idle", "returned"}
    BY Zenon DEF start
  <2>4. g \in 1 .. MaxCalls
    BY <2>2, <2>3
  <2>. QED
    BY <2>1, <2>2, <2>3, <2>4, Zenon
<1>2. UNCHANGED <<dir, crash_dir, data, synced, promised, crashes, temps, stray>>
  BY DEF start, files
<1>3. FilesInv' /\ password_of' = password_of
  <2>a. temps \subseteq 1 .. calls /\ crashes \in Nat
    BY <1>1, Zenon DEF FilesInv
  <2>1. calls' \in calls .. MaxCalls /\ temps' \subseteq 1 .. calls' /\ crashes' \in Nat
    BY <1>1, <1>2, <2>a
  <2>. QED
    BY <1>1, <1>2, <2>1, FilesSame, ZenonT(30)
<1>4. Frame(g)
  BY <1>1, <1>2, <1>3 DEF Frame
<1>5. PICK pc \in PC :
         /\ call' = [call EXCEPT ![w] =
              [pc |-> pc, op |-> op, name |-> n, password |-> p, file |-> g,
               linked |-> FALSE, result |-> -1, promised |-> Path[n] \in promised]]
         /\ pc = IF Path[n] = None THEN "returned"
                 ELSE IF op = "create" THEN "mkstemp" ELSE "load"
  BY Zenon DEF start, PC
<1>6. /\ pc \in {"returned", "mkstemp", "load"} /\ (Path[n] = None => pc = "returned")
      /\ pc = "mkstemp" => op = "create"
      /\ pc = "load" => op # "create"
  BY <1>5
<1>7. /\ call'[w] \in Busy /\ call'[w].pc = pc /\ call'[w].op = op /\ call'[w].name = n
      /\ call'[w].password = p /\ call'[w].file = g /\ call'[w].linked = FALSE
      /\ call'[w].result = -1 /\ (call'[w].promised <=> Path[n] \in promised)
      /\ call' \in [Worker -> Busy \cup {Idle}]
      /\ \A v \in Worker \ {w} : call'[v] = call[v]
  <2>1. PICK b \in BOOLEAN : b = (Path[n] \in promised)
    <3>1. CASE Path[n] \in promised
      <4>1. TRUE \in BOOLEAN /\ TRUE = (Path[n] \in promised)
        BY <3>1
      <4>. QED
        BY <4>1, Zenon
    <3>2. CASE Path[n] \notin promised
      <4>1. FALSE \in BOOLEAN /\ FALSE = (Path[n] \in promised)
        BY <3>2, SMTT(30)
      <4>. QED
        BY <4>1, Zenon
    <3>. QED
      BY <3>1, <3>2
  <2>2. call' = [call EXCEPT ![w] =
           [pc |-> pc, op |-> op, name |-> n, password |-> p, file |-> g,
            linked |-> FALSE, result |-> -1, promised |-> b]]
    BY <1>5, <2>1
  <2>. HIDE DEF g
  <2>3. [pc |-> pc, op |-> op, name |-> n, password |-> p, file |-> g,
         linked |-> FALSE, result |-> -1, promised |-> b] \in Busy
    BY <1>1 DEF Busy
  <2>4. call'[w] = [pc |-> pc, op |-> op, name |-> n, password |-> p, file |-> g,
                    linked |-> FALSE, result |-> -1, promised |-> b]
    BY <1>1, <2>2, ZenonT(30)
  <2>. QED
    BY <1>1, <2>1, <2>2, <2>3, <2>4, Zenon
<1>8. \A v \in Worker : call[v] # Idle => call[v].file \in 1 .. calls
  BY ZenonT(30) DEF StoreInv, WorkerInv, CallInv
<1>9. OwnFiles'
  BY <1>1, <1>7, <1>8 DEF StoreInv, OwnFiles
<1>10. TempsOwned'
  <2>1. \A v \in Worker : call[v].pc \notin {"idle", "returned"} => call'[v] = call[v]
    BY <1>1, <1>7
  <2>. QED
    BY <1>2, <2>1, ZenonT(30) DEF StoreInv, TempsOwned
<1>11. WorkerInv(w)'
  <2>1. g \notin temps /\ g \in 1 .. calls'
    BY <1>1, SMTT(30) DEF FilesInv
  <2>2. \A a \in Account : g \notin crash_dir'[a]
    <3>1. g \notin Entry
      BY <1>1, Constants, SMTT(20) DEF Entry
    <3>. QED
      BY <1>1, <1>2, <3>1 DEF FilesInv
  <2>3. CallInv(w)'
    BY <1>2, <1>6, <1>7, <2>1, <2>2, ZenonT(30) DEF CallInv, Unpublished
  <2>4. /\ call'[w].pc = pc /\ call'[w].op = op /\ ~call'[w].linked
        /\ call'[w].result = -1
    BY <1>7, ZenonT(30)
  <2>5. CreateInv(w)'
    BY <1>6, <2>4 DEF CreateInv
  <2>6. ExistsInv(w)'
    BY <1>6, <2>4, SMTT(30) DEF ExistsInv
  <2>7. VerifyInv(w)'
    BY <1>6, <2>4 DEF VerifyInv
  <2>. QED
    BY <2>3, <2>5, <2>6, <2>7, ZenonT(30) DEF WorkerInv
<1>12. ASSUME NEW v \in Worker, v # w PROVE WorkerInv(v)'
  <2>1. WorkerInv(v) /\ call'[v] = call[v] /\ (call[v] # Idle => call[v].file # g)
    BY <1>1, <1>7, <1>8, <1>12, SMTT(20) DEF StoreInv
  <2>. HIDE DEF g
  <2>. QED
    BY <1>1, <1>4, <2>1, OtherCalls, ZenonT(30)
<1>. QED
  BY <1>3, <1>7, <1>9, <1>10, <1>11, <1>12 DEF StoreInv

\* The process ends: no call is left, and the files lose at most what was not
\* synced, which is nothing a reported account needs.
LEMMA StopStep ==
    ASSUME StoreInv, killed \/ power_failure
    PROVE  StoreInv' /\ \A a \in promised : password_of'[a] = password_of[a]
<1>1. /\ FilesInv /\ crashes' \in Nat /\ crashes' # 0 /\ calls \in Nat
      /\ call' = [w \in Worker |-> Idle] /\ UNCHANGED <<promised, calls, stray>>
  BY DEF StoreInv, FilesInv, killed, power_failure, stop
<1>2. FilesInv' /\ \A a \in promised : password_of'[a] = password_of[a]
  <2>1. CASE killed
    <3>1. /\ UNCHANGED <<dir, crash_dir, data, synced, temps>>
          /\ calls' \in calls .. MaxCalls /\ temps' \subseteq 1 .. calls'
      BY <1>1, <2>1 DEF killed, files, FilesInv
    <3>. QED
      BY <1>1, <3>1, FilesSame, ZenonT(30)
  <2>2. CASE power_failure
    <3>1. /\ DOMAIN dir' = Account /\ dir' = [a \in Account |-> dir'[a]]
          /\ \A a \in Account : dir'[a] \in crash_dir[a] /\ crash_dir'[a] = {dir'[a]}
          /\ crash_dir' = [a \in Account |-> {dir'[a]}]
          /\ synced' = synced /\ temps' \subseteq temps
      BY <2>2 DEF power_failure
    <3>2. PICK lost \in SUBSET {f \in File \ synced : data[f] # Partial} :
             data' = [f \in File |-> IF f \in lost THEN Partial ELSE data[f]]
      BY <2>2, Zenon DEF power_failure
    <3>3. data' \in [File -> Content] /\ \A f \in synced : data'[f] = data[f]
      BY <1>1, <3>2 DEF FilesInv, Content
    <3>4. Entry' = Entry /\ crash_dir \in [Account -> SUBSET Entry]
      BY <1>1 DEF Entry, FilesInv
    <3>5. dir' \in [Account -> Entry'] /\ crash_dir' \in [Account -> SUBSET Entry']
      BY <3>1, <3>4, ZenonT(30)
    <3>6. \A a \in Account : \A f \in crash_dir[a] \ {None} :
             /\ f \in synced /\ data'[f] = data[f]
             /\ data[f] \in Record /\ data[f].account = a
      BY <1>1, <3>3 DEF FilesInv, RecordsWhole
    <3>7. RecordsWhole'
      BY <3>1, <3>6 DEF RecordsWhole
    <3>8. \A a \in promised : /\ dir'[a] # None
                              /\ data'[dir'[a]].password = password_of[a]
      BY <1>1, <3>1, <3>6 DEF FilesInv
    <3>9. \A a \in promised : password_of'[a] = data'[dir'[a]].password
      BY <1>1, <3>8, Zenon DEF password_of, FilesInv
    <3>10. /\ calls' \in 0 .. MaxCalls /\ temps' \subseteq 1 .. calls' /\ synced' \subseteq File
           /\ promised' \subseteq Account
      BY <1>1, <3>1, ZenonT(30) DEF FilesInv
    <3>11. \A a \in promised' : \A f \in crash_dir'[a] :
              f # None /\ data'[f].password = password_of'[a]
      BY <1>1, <3>1, <3>8, <3>9, ZenonT(30) DEF FilesInv
    <3>12. \A a \in Account : \A f \in crash_dir'[a] \ {None} : data'[f].old => a \in promised'
      BY <1>1, <3>1, <3>6 DEF FilesInv
    <3>13. FilesInv'
      BY <1>1, <3>1, <3>3, <3>5, <3>7, <3>10, <3>11, <3>12, Zenon DEF FilesInv
    <3>. QED
      BY <3>8, <3>9, <3>13, ZenonT(30)
  <2>. QED
    BY <2>1, <2>2
<1>3. OwnFiles' /\ TempsOwned' /\ \A w \in Worker : WorkerInv(w)'
  BY <1>1 DEF OwnFiles, TempsOwned, WorkerInv
<1>. QED
  BY <1>1, <1>2, <1>3, ZenonT(30) DEF StoreInv

-----------------------------------------------------------------------------
(* The invariant, and what follows from it.                                *)

LEMMA InitStore == Init => StoreInv
<1>. SUFFICES ASSUME Init PROVE StoreInv
  OBVIOUS
<1>1. /\ Existing \in [Account -> Password \cup {None}] /\ MaxCalls \in Nat
      /\ None \notin Account /\ None \notin Password
  BY StoreAssumption, ZenonT(30)
<1>2. /\ calls = 0 /\ crashes = 0 /\ temps = {} /\ call = [w \in Worker |-> Idle]
      /\ promised = {a \in Account : Existing[a] # None} /\ synced = promised
  BY DEF Init
<1>3. \A a \in Account : /\ dir[a] = IF Existing[a] = None THEN None ELSE a
                         /\ crash_dir[a] = {dir[a]}
  BY DEF Init
<1>4. \A a \in promised : data[a] = [account |-> a, password |-> Existing[a], old |-> TRUE]
  BY <1>2, ZenonT(30) DEF Init, File
<1>5. data \in [File -> Content]
  <2>1. \A f \in Account : Existing[f] # None =>
           [account |-> f, password |-> Existing[f], old |-> TRUE] \in Record
    BY <1>1 DEF Record
  <2>. QED
    BY <2>1 DEF Init, Content
<1>6. dir \in [Account -> Entry] /\ crash_dir \in [Account -> SUBSET Entry]
  BY DEF Init, Entry
<1>7. \A a \in Account : \A f \in crash_dir[a] \ {None} :
         /\ f = a /\ a \in promised /\ data[f] \in Record /\ data[f].account = a
  <2>1. \A a \in Account : \A f \in crash_dir[a] \ {None} : f = a /\ a \in promised
    BY <1>2, <1>3
  <2>2. \A a \in promised : data[a] \in Record /\ data[a].account = a
    <3>. TAKE a \in promised
    <3>1. a \in Account /\ Existing[a] \in Password
      BY <1>1, <1>2
    <3>2. [account |-> a, password |-> Existing[a], old |-> TRUE] \in Record
      BY <3>1 DEF Record
    <3>3. data[a] = [account |-> a, password |-> Existing[a], old |-> TRUE]
      BY <1>4
    <3>. QED
      BY <3>2, <3>3
  <2>. QED
    BY <2>1, <2>2
<1>8. RecordsWhole
  BY <1>2, <1>7, ZenonT(30) DEF RecordsWhole
<1>9. \A a \in promised : \A f \in crash_dir[a] :
         f # None /\ data[f].password = password_of[a]
  BY <1>1, <1>2, <1>3, SMTT(30) DEF password_of
<1>10. FilesInv
  BY <1>1, <1>2, <1>3, <1>5, <1>6, <1>7, <1>8, <1>9 DEF FilesInv, File
<1>11. OwnFiles /\ TempsOwned /\ \A w \in Worker : WorkerInv(w)
  BY <1>2 DEF OwnFiles, TempsOwned, WorkerInv
<1>. QED
  BY <1>2, <1>10, <1>11 DEF StoreInv

LEMMA NextStore == StoreInv /\ [Next]_vars => StoreInv'
<1>. SUFFICES ASSUME StoreInv, [Next]_vars PROVE StoreInv'
  OBVIOUS
<1>1. CASE \E w \in Worker : player_store(w)
  BY <1>1, ExistsStep, VerifyStep, MkstempStep, WriteStep, LinkStep,
     RenameStep, SyncStep,
     UnlinkFinalStep, UnlinkTempStep, Zenon DEF player_store
<1>2. CASE \E w \in Worker, n \in Name : start(w, "exists", n, None)
  BY <1>2, StartStep
<1>3. CASE \E w \in Worker, n \in Name, op \in {"create", "verify"}, p \in Password :
              start(w, op, n, p)
  BY <1>3, StartStep
<1>4. CASE killed \/ power_failure
  BY <1>4, StopStep
<1>5. CASE UNCHANGED vars
  <2>1. /\ UNCHANGED <<dir, crash_dir, data, synced, promised, temps>>
        /\ UNCHANGED <<call, calls, crashes, stray>>
    BY <1>5 DEF vars, files, counters
  <2>2. FilesInv' /\ password_of' = password_of
    <3>a. FilesInv
      BY Zenon DEF StoreInv
    <3>1. FilesInv /\ calls' \in calls .. MaxCalls /\ temps' \subseteq 1 .. calls'
          /\ crashes' \in Nat
      <4>1. calls \in 0 .. MaxCalls /\ temps \subseteq 1 .. calls /\ crashes \in Nat
        BY <3>a, ZenonT(30) DEF FilesInv
      <4>. QED
        BY <2>1, <3>a, <4>1
    <3>. QED
      BY <2>1, <3>1, FilesSame
  <2>3. ASSUME NEW w \in Worker PROVE WorkerInv(w)'
    <3>1. WorkerInv(w)
      BY DEF StoreInv
    <3>. QED
      BY <2>1, <2>2, <3>1, Zenon DEF WorkerInv, CallInv, CreateInv, VerifyInv,
         ExistsInv,
         Unpublished, new_record, final_path
  <2>4. OwnFiles' /\ TempsOwned'
    BY <2>1 DEF StoreInv, OwnFiles, TempsOwned
  <2>. QED
    BY <2>1, <2>2, <2>3, <2>4 DEF StoreInv
<1>. QED
  BY <1>1, <1>2, <1>3, <1>4, <1>5 DEF Next

LEMMA StoreAlways == Spec => []StoreInv
BY InitStore, NextStore, PTL DEF Spec

\* RecordsWhole: for any interleaving of calls, failures and crashes, every
\* entry that an account has, or may have after a crash, is a whole record of
\* that account: load_record never meets a torn file.
THEOREM RecordsWholeHolds == Spec => []RecordsWhole
<1>1. StoreInv => RecordsWhole
  BY ZenonT(30) DEF StoreInv, FilesInv
<1>. QED
  BY <1>1, StoreAlways, PTL

\* CleansOwnFiles: what a failing player_store_create unlinks is the file it
\* linked itself, and without crashes no temporary file is left behind but
\* those whose unlink failed.
THEOREM CleansOwnFilesHolds == Spec => []CleansOwnFiles
<1>1. StoreInv => CleansOwnFiles
  <2>. SUFFICES ASSUME StoreInv PROVE CleansOwnFiles
    OBVIOUS
  <2>1. ASSUME NEW w \in Worker, call[w].pc \in {"sync", "unlink_final"}, call[w].linked
        PROVE  dir[final_path(w)] = call[w].file
    <3>1. CreateInv(w) /\ VerifyInv(w) /\ ExistsInv(w) /\ call[w] \in Busy
      BY <2>1, InCall
    <3>. QED
      BY <2>1, <3>1 DEF CreateInv, VerifyInv, ExistsInv, Busy, final_path
  <2>. QED
    BY <2>1 DEF StoreInv, TempsOwned, CleansOwnFiles
<1>. QED
  BY <1>1, StoreAlways, PTL

\* AnswersRight: a call that starts after the account was reported answers by
\* the account's password, whatever other calls and crashes do meanwhile.
THEOREM AnswersRightHolds == Spec => []AnswersRight
<1>1. StoreInv => AnswersRight
  <2>. SUFFICES ASSUME StoreInv PROVE AnswersRight
    OBVIOUS
  <2>1. ASSUME NEW w \in Worker, call[w].pc = "returned", call[w].promised
        PROVE  /\ call[w].op \in {"create", "verify", "exists"}
               /\ call[w].op = "verify" =>
                    /\ call[w].result = 1 => password_of[final_path(w)] = call[w].password
                    /\ call[w].result = 0 => password_of[final_path(w)] # call[w].password
               /\ call[w].op # "verify" => call[w].result # 0
    <3>1. CreateInv(w) /\ VerifyInv(w) /\ ExistsInv(w) /\ call[w] \in Busy
      BY <2>1, InCall
    <3>. QED
      BY <2>1, <3>1, ZenonT(30) DEF CreateInv, VerifyInv, ExistsInv, Busy, final_path
  <2>. QED
    BY <2>1, ZenonT(30) DEF AnswersRight
<1>. QED
  BY <1>1, StoreAlways, PTL

-----------------------------------------------------------------------------
(* The refinement.                                                         *)

LEMMA PasswordType ==
    ASSUME FilesInv PROVE password_of \in [Account -> Password \cup {None}]
<1>1. \A a \in Account : dir[a] # None => data[dir[a]].password \in Password
  BY DEF FilesInv, RecordsWhole, Record
<1>. QED
  BY <1>1 DEF password_of

\* Passwords that are the same at every account are the same.
LEMMA SamePasswords ==
    ASSUME \A a \in Account : password_of'[a] = password_of[a]
    PROVE  password_of' = password_of
BY DEF password_of

LEMMA LinkCreates ==
    ASSUME StoreInv, NEW w \in Worker, link(w)
    PROVE  Accounts!Next \/ UNCHANGED Accounts!vars
<1>. DEFINE c == call[w]
            a == final_path(w)
<1>1. c.pc = "publish" /\ c.op = "create"
  BY DEF link, At
<1>2. /\ FilesInv /\ CallInv(w) /\ c.file \in 1 .. calls /\ c.file # None /\ a \in Account
  BY <1>1, InCall
<1>3. UNCHANGED <<data, synced, promised, calls, crashes, temps, stray>>
  BY ZenonT(30) DEF link, fail, counters
<1>4. CASE dir[a] = None /\ SetEntry(a, c.file)
  <2>1. a \notin promised
    BY <1>2, <1>4, PromisedLoads
  <2>2. /\ c.file \in synced /\ data[c.file] \in Record /\ data[c.file].account = a
        /\ ~data[c.file].old /\ data[c.file].password = c.password
        /\ c.password \in Password
    BY <1>1, <1>2, NewRecord, Zenon
  <2>3. temps' \subseteq temps
    BY <1>3
  <2>4. /\ \A b \in Account \ {a} : password_of'[b] = password_of[b]
        /\ password_of'[a] = c.password
    BY <1>2, <1>3, <1>4, <2>1, <2>2, <2>3, Publishes, Zenon
  <2>5. password_of[a] = None /\ password_of' = [password_of EXCEPT ![a] = c.password]
    BY <1>2, <1>4, <2>4, Zenon DEF password_of
  <2>6. Accounts!create(a, c.password)
    BY <1>3, <2>5 DEF Accounts!create
  <2>. QED
    BY <1>2, <2>2, <2>6, ZenonT(30) DEF Accounts!Next
<1>5. CASE UNCHANGED <<dir, crash_dir>>
  BY <1>3, <1>5, ZenonT(30) DEF Accounts!vars, password_of
<1>. QED
  BY <1>4, <1>5 DEF link

LEMMA RenameInvisible ==
    ASSUME StoreInv, NEW w \in Worker, rename(w)
    PROVE  UNCHANGED Accounts!vars
<1>. DEFINE c == call[w]
            a == final_path(w)
<1>1. c.pc = "publish" /\ c.op = "verify"
  BY DEF rename, At
<1>2. /\ FilesInv /\ CallInv(w) /\ VerifyInv(w) /\ c.file \in 1 .. calls
      /\ c.file # None /\ a \in Account
  BY <1>1, InCall, ZenonT(30)
<1>3. UNCHANGED <<data, synced, promised, calls, crashes, stray>>
  BY DEF rename, fail, counters
<1>4. CASE SetEntry(a, c.file) /\ temps' = temps \ {c.file}
  <2>1. a \in promised /\ password_of[a] = c.password
    BY <1>1, <1>2 DEF VerifyInv, final_path
  <2>2. /\ c.file \in synced /\ data[c.file] \in Record /\ data[c.file].account = a
        /\ ~data[c.file].old /\ data[c.file].password = c.password
    BY <1>1, <1>2, NewRecord, Zenon
  <2>3. temps' \subseteq temps
    BY <1>4
  <2>4. /\ \A b \in Account \ {a} : password_of'[b] = password_of[b]
        /\ \A b \in promised : password_of'[b] = password_of[b]
    BY <1>2, <1>3, <1>4, <2>1, <2>2, <2>3, Publishes, Zenon
  <2>5. \A b \in Account : password_of'[b] = password_of[b]
    BY <2>1, <2>4, Zenon
  <2>. QED
    BY <1>3, <2>5, SamePasswords, ZenonT(30) DEF Accounts!vars
<1>5. CASE UNCHANGED <<dir, crash_dir, temps>>
  BY <1>3, <1>5 DEF Accounts!vars, password_of
<1>. QED
  BY <1>4, <1>5, ZenonT(30) DEF rename

LEMMA WriteInvisible ==
    ASSUME StoreInv, NEW w \in Worker, write_record(w)
    PROVE  UNCHANGED Accounts!vars
<1>. DEFINE c == call[w]
<1>1. c.pc = "write"
  BY DEF write_record, At
<1>2. /\ FilesInv /\ CallInv(w) /\ ExistsInv(w) /\ c.file \in 1 .. calls /\ c.file \in File
      /\ final_path(w) \in Account
  BY <1>1, InCall, ZenonT(30)
<1>3. Unpublished(c.file) /\ new_record(w) \in Record
  BY <1>1, <1>2, ZenonT(30) DEF CallInv, ExistsInv, new_record, Record
<1>4. PICK d \in Content : data' = [data EXCEPT ![c.file] = d]
  BY <1>3, ZenonT(30) DEF write_record, Content
<1>5. /\ UNCHANGED <<dir, crash_dir, promised, temps, calls, crashes, stray>>
      /\ synced \subseteq synced' /\ synced' \subseteq File
  BY <1>2, ZenonT(30) DEF write_record, fail, counters, FilesInv
<1>6. \A b \in Account : password_of'[b] = password_of[b]
  BY <1>2, <1>3, <1>4, <1>5, DataSet, Zenon
<1>. QED
  BY <1>5, <1>6, SamePasswords DEF Accounts!vars

LEMMA SyncReports ==
    ASSUME StoreInv, NEW w \in Worker, sync_directory(w)
    PROVE  Accounts!Next \/ UNCHANGED Accounts!vars
<1>. DEFINE a == final_path(w)
<1>1. call[w].pc = "sync" /\ UNCHANGED <<dir, data>>
  BY DEF sync_directory, At
<1>2. CreateInv(w) /\ call[w].file # None /\ a \in Account
  BY <1>1, InCall
<1>3. password_of' = password_of
  BY <1>1 DEF password_of
<1>4. CASE promised' = promised
  BY <1>3, <1>4 DEF Accounts!vars
<1>5. CASE call[w].op = "create" /\ promised' = promised \cup {a}
  <2>1. dir[a] # None
    BY <1>1, <1>2, <1>5 DEF CreateInv, final_path
  <2>2. password_of[a] # None
    <3>1. a \in promised'
      BY <1>5
    <3>2. FilesInv' /\ dir'[a] # None
      BY <1>1, <2>1, SyncStep, ZenonT(30) DEF StoreInv
    <3>3. password_of'[a] = data'[dir'[a]].password /\ data'[dir'[a]] \in Record
      BY <1>2, <3>2 DEF FilesInv, RecordsWhole, password_of
    <3>. QED
      BY <1>3, <3>3, Constants DEF Record
  <2>. QED
    BY <1>2, <1>3, <1>5, <2>2, ZenonT(30) DEF Accounts!Next, Accounts!report
<1>. QED
  BY <1>4, <1>5 DEF sync_directory

LEMMA UnlinkUndoes ==
    ASSUME StoreInv, NEW w \in Worker, unlink_final(w)
    PROVE  Accounts!Next \/ UNCHANGED Accounts!vars
<1>. DEFINE a == final_path(w)
<1>1. call[w].pc = "unlink_final" /\ UNCHANGED <<data, promised>>
  BY DEF unlink_final, At
<1>2. /\ CreateInv(w) /\ VerifyInv(w) /\ ExistsInv(w) /\ call[w] \in Busy /\ a \in Account
      /\ FilesInv
  BY <1>1, InCall, ZenonT(30)
<1>3. a \notin promised
  BY <1>1, <1>2, ZenonT(30) DEF CreateInv, VerifyInv, ExistsInv, Busy, final_path
<1>4. CASE SetEntry(a, None)
  <2>1. /\ dir' = [dir EXCEPT ![a] = None] /\ dir \in [Account -> Entry]
    BY <1>2, <1>4, ZenonT(30) DEF SetEntry, FilesInv
  <2>2. password_of' = [password_of EXCEPT ![a] = None]
    BY <1>1, <1>2, <2>1, Zenon DEF password_of
  <2>. QED
    BY <1>1, <1>2, <1>3, <2>2, ZenonT(30) DEF Accounts!Next, Accounts!undo
<1>5. CASE UNCHANGED <<dir, crash_dir>>
  BY <1>1, <1>5, ZenonT(30) DEF Accounts!vars, password_of
<1>. QED
  BY <1>4, <1>5, ZenonT(30) DEF unlink_final

LEMMA StopCrashes ==
    ASSUME StoreInv, killed \/ power_failure
    PROVE  Accounts!Next
<1>1. promised' = promised
  BY SMTT(30) DEF killed, power_failure, stop
<1>2. FilesInv' /\ \A a \in promised : password_of'[a] = password_of[a]
  BY StopStep DEF StoreInv
<1>3. password_of' \in [Account -> Password \cup {None}]
  <2>1. \A a \in Account : dir'[a] # None => data'[dir'[a]].password \in Password
    BY <1>2 DEF FilesInv, RecordsWhole, Record
  <2>. QED
    BY <2>1, SMTT(30) DEF password_of
<1>. QED
  BY <1>1, <1>2, <1>3, SMTT(30) DEF Accounts!Next, Accounts!crash

LEMMA InitAccounts == Init => Accounts!Init
<1>. SUFFICES ASSUME Init PROVE Accounts!Init
  OBVIOUS
<1>1. password_of \in [Account -> Password \cup {None}]
  BY InitStore, PasswordType, ZenonT(30) DEF StoreInv
<1>2. \A a \in Account : password_of[a] = Existing[a]
  BY StoreAssumption, ZenonT(30) DEF Init, password_of, File
<1>3. promised = {a \in Account : password_of[a] # None}
  BY <1>2 DEF Init
<1>. QED
  BY <1>1, <1>3 DEF Accounts!Init

LEMMA NextAccounts == StoreInv /\ [Next]_vars => [Accounts!Next]_(Accounts!vars)
<1>. SUFFICES ASSUME StoreInv, [Next]_vars
     PROVE  Accounts!Next \/ UNCHANGED Accounts!vars
  OBVIOUS
<1>1. CASE UNCHANGED <<dir, data, promised>>
  BY <1>1 DEF Accounts!vars, password_of
<1>2. CASE \E w \in Worker : player_store(w)
  <2>1. PICK w \in Worker : player_store(w)
    BY <1>2
  <2>2. CASE exists(w) \/ verify_password(w) \/ mkstemp(w) \/ unlink_temp(w)
    BY <1>1, <2>2, ZenonT(30) DEF exists, verify_password, mkstemp, unlink_temp, files
  <2>. QED
    BY <2>1, <2>2, WriteInvisible, LinkCreates, RenameInvisible, SyncReports,
       UnlinkUndoes, Zenon
       DEF player_store
<1>3. CASE \E w \in Worker, n \in Name :
              \/ start(w, "exists", n, None)
              \/ \E op \in {"create", "verify"}, p \in Password : start(w, op, n, p)
  BY <1>1, <1>3 DEF start, files
<1>4. CASE killed \/ power_failure
  BY <1>4, StopCrashes
<1>5. CASE UNCHANGED vars
  BY <1>1, <1>5 DEF vars, files
<1>. QED
  BY <1>2, <1>3, <1>4, <1>5 DEF Next

\* ImplementsAccountStore: the files, the temporary names, the link, the rename
\* and the two syncs of player_store.c implement AccountStore: creation never
\* replaces an account, a reported account keeps its password across every
\* failure and crash, and a rehash cannot be seen.
THEOREM ImplementsAccountStoreHolds == Spec => ImplementsAccountStore
BY InitAccounts, NextAccounts, StoreAlways, PTL
   DEF Spec, ImplementsAccountStore, Accounts!Spec
=============================================================================
