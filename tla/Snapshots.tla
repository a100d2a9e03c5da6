----------------------------- MODULE Snapshots -----------------------------
(***************************************************************************)
(* Snapshots of a live hub (snapshot.py, admin.py) with the registries,    *)
(* the tables of the store, the file of API keys, the escrow and the audit *)
(* log they are taken from and put back into.  The hub is one thread and   *)
(* neither command awaits, so nothing happens between their steps but the  *)
(* end of the process or an exception.                                     *)
(***************************************************************************)
EXTENDS Escrow, Sequences

CONSTANTS
  Agents,       \* names of agents that may register
  Keys,         \* fingerprints of API keys
  Given,        \* names an administrator gives to snapshots
  Malformed,    \* tasks InterMeshTask.from_dict refuses
  SafetyName,   \* [0..MaxTime -> names], f"pre-restore-{int(time.time())}"
  NoFile, Torn, \* no snapshot of this name; one that is not JSON
  OnePerSecond, \* no two restores in the same second
  ShortWrites,  \* os.write may write less than it is given
  MaxTime, MaxEntries, MaxRestores, MaxCrashes, MaxMinted, MaxFileFaults, MaxTableFaults

Names == Given \union {SafetyName[i] : i \in 0..MaxTime}

ASSUME SnapshotsAssumption ==
  /\ MaxTime \in Nat /\ MaxEntries \in Nat /\ MaxRestores \in Nat
  /\ MaxCrashes \in Nat /\ MaxMinted \in Nat /\ MaxFileFaults \in Nat /\ MaxTableFaults \in Nat
  /\ Malformed \subseteq Tasks
  /\ OnePerSecond \in BOOLEAN /\ ShortWrites \in BOOLEAN
  /\ \A i, j \in 0..MaxTime : SafetyName[i] = SafetyName[j] => i = j
  /\ \A i \in 0..MaxTime : SafetyName[i] \notin Given

VARIABLES
  ids, status,       \* identity_registry, task_registry
  keys, keySource,   \* ApiKeyStore._by_hash, and where it comes from
  idRows, taskRows,  \* tables identities and tasks
  keyFile,           \* api_keys.json
  files,             \* [Names -> document], the snapshot directory
  job,               \* what the handler of the command has still to do
  ending,            \* tasks whose TASK_UPDATE handler awaits before it settles
  chain, auditRows,  \* ImmutableAuditLog.chain, table audit_log
  logged,            \* number of entries ever made, which stands for hashes
  now,               \* int(time.time())
  undo,              \* history: [name, state] of each safety snapshot relied on
  faults             \* how often each fault has happened

registryVars == <<ids, status, idRows, taskRows, ending>>
keyVars == <<keys, keyFile>>
auditVars == <<chain, auditRows, logged>>
vars == <<escrowVars, registryVars, keyVars, keySource, files, job, auditVars,
          now, undo, faults>>

Idle == [pc |-> "idle"]

(* capture_state.  minted goes with the escrow it explains. *)
State == [ids : SUBSET Agents, status : [Tasks -> {"none", "pending", "completed"}],
          keys : SUBSET Keys, balances : [Orgs -> Nat],
          holds : [Tasks -> HoldStatus], minted : [Orgs -> Nat]]

Captured == [ids |-> ids, status |-> status, keys |-> keys, balances |-> balances,
             holds |-> holds, minted |-> minted]

ASSUME DocumentAssumption == NoFile \notin State /\ Torn \notin State

Genesis == [id |-> 0, prev |-> 0]
NextEntry == [id |-> logged + 1, prev |-> chain[Len(chain)].id]

(* INSERT ... ON CONFLICT (idx): the row of this index is replaced. *)
Upsert(rows, e, idx) == [i \in DOMAIN rows \union {idx} |-> IF i = idx THEN e ELSE rows[i]]

(* ImmutableAuditLog.log: the index of an entry is the length of the chain *)
(* in memory, which counts from 0.  The entries one handler makes one      *)
(* after the other are one entry here.                                     *)
Log ==
  /\ chain' = Append(chain, NextEntry)
  /\ auditRows' = Upsert(auditRows, NextEntry, Len(chain))
  /\ logged' = logged + 1

(* append_audit raises: the entry stays in memory and in no row. *)
LogUnsaved ==
  /\ faults.table < MaxTableFaults
  /\ chain' = Append(chain, NextEntry) /\ logged' = logged + 1
  /\ faults' = [faults EXCEPT !.table = @ + 1]
  /\ UNCHANGED auditRows

FileFault ==
  /\ faults.file < MaxFileFaults
  /\ faults' = [faults EXCEPT !.file = @ + 1]

TableFault ==
  /\ faults.table < MaxTableFaults
  /\ faults' = [faults EXCEPT !.table = @ + 1]

LogOrNot == (Log /\ UNCHANGED faults) \/ LogUnsaved

-----------------------------------------------------------------------------
(* The hub at work, between two snapshot commands.                         *)

Free == job = Idle

(* MaxEntries bounds the work that would go on for ever. *)
Work == Free /\ logged < MaxEntries

GrantFunds(o) ==
  /\ Work /\ Total(minted, Orgs) < MaxMinted
  /\ Grant(o, 1) /\ Log
  /\ UNCHANGED <<registryVars, keyVars, keySource, files, job, now, undo, faults>>

(* finalize_task_submission: the hold is made and audited, then from_dict   *)
(* may raise, and the task is not remembered.                              *)
Submit(t) ==
  /\ Work /\ status[t] = "none"
  /\ CreateHold(t)
  /\ IF t \in Malformed
     THEN UNCHANGED <<status, taskRows>>
     ELSE /\ status' = [status EXCEPT ![t] = "pending"]
          /\ taskRows' = [taskRows EXCEPT ![t] = "pending"]
  /\ Log
  /\ UNCHANGED <<ids, idRows, ending, keyVars, keySource, files, job, now, undo, faults>>

(* TASK_UPDATE up to its broadcasts: the end is on file, the hold is not   *)
(* settled yet.                                                            *)
Complete(t) ==
  /\ Free /\ status[t] = "pending"
  /\ status' = [status EXCEPT ![t] = "completed"]
  /\ taskRows' = [taskRows EXCEPT ![t] = "completed"]
  /\ ending' = ending \union {t}
  /\ Log
  /\ UNCHANGED <<escrowVars, ids, idRows, keyVars, keySource, files, job, now, undo, faults>>

(* ... and the rest, which looks the hold up again. *)
Settle(t) ==
  /\ Free /\ t \in ending
  /\ ending' = ending \ {t}
  /\ \/ Release(t) /\ Log
     \/ holds[t] # "held" /\ UNCHANGED <<escrowVars, auditVars>>
  /\ UNCHANGED <<ids, status, idRows, taskRows, keyVars, keySource, files, job, now, undo,
                 faults>>

Register(a) ==
  /\ Work /\ a \notin ids
  /\ ids' = ids \union {a} /\ idRows' = idRows \union {a}
  /\ UNCHANGED <<escrowVars, status, taskRows, ending, keyVars, keySource, files, job,
                 auditVars, now, undo, faults>>

(* apikey.create and apikey.revoke: memory first, then _persist, which     *)
(* refuses keys of the environment and may fail to write.                  *)
SetKeys(S) ==
  /\ Work
  /\ keys' = S /\ Log
  /\ \/ keySource = "file" /\ keyFile' = S /\ UNCHANGED faults
     \/ keySource = "environment" /\ UNCHANGED <<keyFile, faults>>
     \/ keySource = "file" /\ FileFault /\ UNCHANGED keyFile
  /\ UNCHANGED <<escrowVars, registryVars, keySource, files, job, now, undo>>

ChangeKey(k) == SetKeys(keys \union {k}) \/ SetKeys(keys \ {k})
-----------------------------------------------------------------------------
(* snapshot.create, and the safety snapshot of snapshot.restore.           *)

Create(n) ==
  /\ Work
  /\ job' = [pc |-> "write", name |-> n, doc |-> Captured, then |-> Idle]
  /\ UNCHANGED <<escrowVars, registryVars, keyVars, keySource, files, auditVars, now, undo,
                 faults>>

NewSecond == \A u \in undo : u.name # SafetyName[now]

(* What is saved is what is about to be applied. *)
SafetyTooLate(s) == [pc |-> "write", name |-> SafetyName[now], doc |-> s,
                     then |-> [pc |-> "memory", state |-> s,
                               undo |-> {[name |-> SafetyName[now], state |-> Captured]}]]

(* _snapshot_restore: the file is read, then, unless the administrator     *)
(* declines, the present state is saved, then the one read is applied.     *)
SafetyFirst(s) ==
  [pc |-> "write", name |-> SafetyName[now], doc |-> Captured,
   then |-> [pc |-> "memory", state |-> s,
             undo |-> {[name |-> SafetyName[now], state |-> Captured]}]]

Restore(n, safe) ==
  /\ Free /\ faults.restores < MaxRestores
  /\ files[n] \in State
  /\ OnePerSecond => NewSecond
  /\ faults' = [faults EXCEPT !.restores = @ + 1]
  /\ job' = IF safe THEN SafetyFirst(files[n])
            ELSE [pc |-> "memory", state |-> files[n], undo |-> {}]
  /\ UNCHANGED <<escrowVars, registryVars, keyVars, keySource, files, auditVars, now, undo>>

(* SnapshotError: no such snapshot, or not a readable one. *)
RestoreRefused(n) ==
  /\ Work /\ files[n] \notin State
  /\ Log
  /\ UNCHANGED <<escrowVars, registryVars, keyVars, keySource, files, job, now, undo, faults>>

(* save writes beside the target ... *)
WriteTmp ==
  /\ job.pc = "write"
  /\ \/ job' = [job EXCEPT !.pc = "rename"]
     \/ ShortWrites /\ job' = [job EXCEPT !.pc = "rename", !.doc = Torn]
  /\ UNCHANGED <<escrowVars, registryVars, keyVars, keySource, files, auditVars, now, undo,
                 faults>>

(* ... and only the temporary file suffers when that fails: OSError is no  *)
(* SnapshotError, and the command ends there.                              *)
WriteFails ==
  /\ job.pc = "write"
  /\ FileFault
  /\ job' = Idle
  /\ UNCHANGED <<escrowVars, registryVars, keyVars, keySource, files, auditVars, now, undo>>

(* os.replace; a command that only saves is then audited. *)
Rename ==
  /\ job.pc = "rename"
  /\ files' = [files EXCEPT ![job.name] = job.doc]
  /\ job' = job.then
  /\ IF job.then = Idle THEN LogOrNot ELSE UNCHANGED <<auditVars, faults>>
  /\ UNCHANGED <<escrowVars, registryVars, keyVars, keySource, now, undo>>

Delete(n) ==
  /\ Work /\ files[n] # NoFile
  /\ files' = [files EXCEPT ![n] = NoFile]
  /\ undo' = {u \in undo : u.name # n}
  /\ LogOrNot
  /\ UNCHANGED <<escrowVars, registryVars, keyVars, keySource, job, now>>
-----------------------------------------------------------------------------
(* apply_state, one step per thing that is made durable.                   *)

RestoreMemory ==
  /\ job.pc = "memory"
  /\ ids' = job.state.ids /\ status' = job.state.status
  /\ undo' = undo \union job.undo
  /\ job' = [job EXCEPT !.pc = "identities"]
  /\ UNCHANGED <<escrowVars, idRows, taskRows, ending, keyVars, keySource, files, auditVars,
                 now, faults>>

(* replace_identities and replace_tasks, a transaction each; an exception  *)
(* rolls its own back and ends the command.                                *)
ReplaceIdentities ==
  /\ job.pc = "identities"
  /\ \/ idRows' = job.state.ids /\ job' = [job EXCEPT !.pc = "tasks"] /\ UNCHANGED faults
     \/ TableFault /\ job' = Idle /\ UNCHANGED idRows
  /\ UNCHANGED <<escrowVars, ids, status, taskRows, ending, keyVars, keySource, files,
                 auditVars, now, undo>>

(* replace_tasks is forgotten. *)
TasksKept(s) == taskRows

TasksReplaced(s) == s.status

ReplaceTasks ==
  /\ job.pc = "tasks"
  /\ \/ taskRows' = TasksReplaced(job.state) /\ job' = [job EXCEPT !.pc = "keys"]
        /\ UNCHANGED faults
     \/ TableFault /\ job' = Idle /\ UNCHANGED taskRows
  /\ UNCHANGED <<escrowVars, ids, status, idRows, ending, keyVars, keySource, files,
                 auditVars, now, undo>>

(* import_hashed: keys of the environment are skipped and reported. *)
ImportKeys ==
  /\ job.pc = "keys"
  /\ \/ /\ keySource = "file"
        /\ keys' = job.state.keys /\ keyFile' = job.state.keys
        /\ job' = [job EXCEPT !.pc = "escrow"] /\ UNCHANGED faults
     \/ /\ keySource = "file" /\ FileFault
        /\ keys' = job.state.keys /\ job' = Idle /\ UNCHANGED keyFile
     \/ /\ keySource = "environment"
        /\ job' = [job EXCEPT !.pc = "escrow"] /\ UNCHANGED <<keyVars, faults>>
  /\ UNCHANGED <<escrowVars, registryVars, keySource, files, auditVars, now, undo>>

(* The accounts are left as they are. *)
HoldsOnly(s) == holds' = s.holds /\ minted' = s.minted /\ UNCHANGED balances

(* import_state is forgotten. *)
EscrowForgotten(s) == UNCHANGED escrowVars

(* EscrowManager.import_state: the accounts and the holds. *)
ImportEscrow(s) == balances' = s.balances /\ holds' = s.holds /\ minted' = s.minted

(* The journal of the snapshot is put back, cut where it was. *)
RestartAudit == chain' = <<Genesis, NextEntry>> /\ logged' = logged + 1
                /\ auditRows' = [i \in 0..1 |-> chain'[i + 1]]

(* SNAPSHOT_RESTORED goes after what the chain already holds. *)
LogRestored == Log

Finish ==
  /\ job.pc = "escrow"
  /\ ImportEscrow(job.state)
  /\ (LogRestored /\ UNCHANGED faults) \/ LogUnsaved
  /\ job' = Idle
  /\ UNCHANGED <<registryVars, keyVars, keySource, files, now, undo>>
-----------------------------------------------------------------------------
(* The clock is read by Restore alone. *)
Tick ==
  /\ job = Idle /\ now < MaxTime /\ now' = now + 1
  /\ UNCHANGED <<escrowVars, registryVars, keyVars, keySource, files, job, auditVars, undo,
                 faults>>

(* The process ends and another starts on the same files: load_identities, *)
(* load_tasks, ApiKeyStore.load, load_audit.  The escrow is in memory only.*)
RowsInOrder ==
  LET Nth(i) == CHOOSE k \in DOMAIN auditRows :
                  Cardinality({j \in DOMAIN auditRows : j < k}) = i - 1
  IN  [i \in 1..Cardinality(DOMAIN auditRows) |-> auditRows[Nth(i)]]

Crash ==
  /\ faults.crashes < MaxCrashes
  /\ faults' = [faults EXCEPT !.crashes = @ + 1]
  /\ ids' = idRows /\ status' = taskRows /\ keys' = keyFile
  /\ chain' = RowsInOrder
  /\ balances' = [o \in Orgs |-> 0] /\ holds' = [t \in Tasks |-> "none"]
  /\ minted' = [o \in Orgs |-> 0]
  /\ ending' = {} /\ job' = Idle
  /\ UNCHANGED <<idRows, taskRows, keyFile, keySource, files, auditRows, logged, now, undo>>

Init ==
  /\ EscrowInit
  /\ ids = {} /\ idRows = {}
  /\ status = [t \in Tasks |-> "none"] /\ taskRows = status
  /\ keys = {} /\ keyFile = {} /\ keySource \in {"file", "environment"}
  /\ files = [n \in Names |-> NoFile] /\ job = Idle /\ ending = {}
  /\ chain = <<Genesis>> /\ auditRows = [i \in {0} |-> Genesis] /\ logged = 0
  /\ now = 0 /\ undo = {}
  /\ faults = [file |-> 0, table |-> 0, crashes |-> 0, restores |-> 0]

HubStep ==
  \/ \E o \in Orgs : GrantFunds(o)
  \/ \E t \in Tasks : Submit(t) \/ Complete(t) \/ Settle(t)
  \/ \E a \in Agents : Register(a)
  \/ \E k \in Keys : ChangeKey(k)

SnapshotStep ==
  \/ \E n \in Given : Create(n)
  \/ \E n \in Names : Delete(n) \/ RestoreRefused(n)
                    \/ \E safe \in BOOLEAN : Restore(n, safe)
  \/ WriteTmp \/ WriteFails \/ Rename
  \/ RestoreMemory \/ ReplaceIdentities \/ ReplaceTasks \/ ImportKeys \/ Finish

Next == HubStep \/ SnapshotStep \/ Tick \/ Crash

Spec == Init /\ [][Next]_vars
-----------------------------------------------------------------------------
TypeOK ==
  /\ EscrowTypeOK
  /\ ids \subseteq Agents /\ idRows \subseteq Agents
  /\ {status, taskRows} \subseteq [Tasks -> {"none", "pending", "completed"}]
  /\ ending \subseteq Tasks
  /\ keys \subseteq Keys /\ keyFile \subseteq Keys
  /\ files \in [Names -> State \union {NoFile, Torn}]
  /\ DOMAIN auditRows \subseteq 0..logged /\ Len(chain) <= logged + 1
  /\ now \in 0..MaxTime

Refused == faults.file + faults.table > 0

(* A safety snapshot is what the hub was before the restore that took it,  *)
(* whole, as long as nobody deletes it: at every step of the restore,      *)
(* after a failed write, an exception or a crash in the middle, and after  *)
(* later restores (_snapshot_restore: a failed restore is itself           *)
(* reversible).                                                            *)
RestoreIsReversible ==
  \A u \in undo : files[u.name] = u.state

(* Between commands the tables and the key file hold what the memory       *)
(* holds, so that a restart brings back what was restored: every handler   *)
(* and every step of apply_state saves what it changes.                    *)
StoreFollowsMemory ==
  job = Idle /\ ~Refused =>
    /\ idRows = ids /\ taskRows = status
    /\ keySource = "file" => keyFile = keys

(* A restore puts the registry and the escrow back together: between       *)
(* commands every hold is that of a task the registry knows, whose end     *)
(* will settle it.  Except the one the code itself leaves without a task,  *)
(* when from_dict raises behind create_hold (hub.py:285, 302): only an     *)
(* administrator resolves that one, by hand (admin.py:557).                *)
HeldIsKnown ==
  job = Idle /\ ~Refused => \A t \in Held \ Malformed : status[t] # "none"

(* No command rewrites the audit table, a restore least of all: rows are   *)
(* added behind the last one and linked to it, across crashes too, unless  *)
(* the database has refused an entry.                                      *)
AuditOnlyGrows ==
  [][faults.table = 0 =>
       /\ \A i \in DOMAIN auditRows : auditRows'[i] = auditRows[i]
       /\ \A i \in DOMAIN auditRows' \ DOMAIN auditRows :
            i > 0 /\ i - 1 \in DOMAIN auditRows /\ auditRows'[i].prev = auditRows[i - 1].id]_vars
=============================================================================
