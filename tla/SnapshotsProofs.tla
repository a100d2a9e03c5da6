-------------------------- MODULE SnapshotsProofs --------------------------
(***************************************************************************)
(* Theorems about snapshots, for any state of the hub, any number of       *)
(* restores, crashes and refusals of the disk and of the database.         *)
(***************************************************************************)
EXTENDS Snapshots, Sums, SequenceTheorems, FiniteSetTheorems, TLAPS

SafetyNames == {SafetyName[i] : i \in 0..MaxTime}

(* The shape of what a command has still to do.                            *)
Writing == {"write", "rename"}
Applying == {"memory", "identities", "tasks", "keys", "escrow"}

JobShape ==
  \/ job = Idle
  \/ /\ job.pc \in Writing
     /\ job = [pc |-> job.pc, name |-> job.name, doc |-> job.doc, then |-> job.then]
     /\ job.name \in Names
     /\ \/ job.then = Idle
        \/ /\ job.then = [pc |-> "memory", state |-> job.then.state,
                          undo |-> {[name |-> job.name, state |-> job.doc]}]
           /\ job.name \in SafetyNames
  \/ /\ job.pc \in Applying
     /\ job = [pc |-> job.pc, state |-> job.state, undo |-> job.undo]

(* What is written over is no safety snapshot that is relied on; the one   *)
(* about to be relied on is in its file.                                   *)
UndoInv ==
  /\ \A u \in undo : u.name \in SafetyNames /\ files[u.name] = u.state
  /\ job.pc \in Writing => \A u \in undo : u.name # job.name
  /\ job.pc = "memory" =>
       \A u \in job.undo : u.name \in SafetyNames /\ files[u.name] = u.state

SafetyInv ==
  /\ now \in 0..MaxTime
  /\ files = [n \in Names |-> files[n]]
  /\ JobShape
  /\ UndoInv

LEMMA SafetyInit == Init => SafetyInv
BY SnapshotsAssumption
DEF Init, SafetyInv, JobShape, UndoInv, Idle, Writing, Applying

(* Outside the commands nothing of this changes but the clock.             *)
LEMMA HubStepSafe ==
  ASSUME SafetyInv, HubStep
  PROVE  SafetyInv'
<1>1. UNCHANGED <<files, job, now, undo>>
  BY DEF HubStep, GrantFunds, Submit, Complete, Settle, Register, ChangeKey, SetKeys
<1> QED BY <1>1 DEF SafetyInv, JobShape, UndoInv

LEMMA SnapshotStepSafe ==
  ASSUME OnePerSecond, ~ShortWrites, SafetyInv, SnapshotStep
  PROVE  SafetyInv'
<1> USE DEF SafetyInv
<1>1. ASSUME NEW n \in Given, Create(n)
      PROVE  SafetyInv'
  <2>1. /\ job' = [pc |-> "write", name |-> n, doc |-> Captured, then |-> Idle]
        /\ UNCHANGED <<files, undo, now>>
    BY <1>1 DEF Create
  <2>2. n \in Names /\ n \notin SafetyNames
    BY SnapshotsAssumption DEF Names, SafetyNames
  <2>3. JobShape' BY <2>1, <2>2 DEF JobShape, Writing
  <2>4. UndoInv' BY <2>1, <2>2 DEF UndoInv, Writing
  <2> QED BY <2>1, <2>3, <2>4
<1>2. ASSUME NEW n \in Names, Delete(n)
      PROVE  SafetyInv'
  <2>1. /\ job = Idle /\ job' = job /\ now' = now
        /\ files' = [files EXCEPT ![n] = NoFile]
        /\ undo' = {u \in undo : u.name # n}
    BY <1>2 DEF Delete, Work, Free
  <2>2. UndoInv' BY <2>1 DEF UndoInv, Idle, Writing, SafetyNames, Names
  <2>3. JobShape' BY <2>1 DEF JobShape
  <2> QED BY <2>1, <2>2, <2>3
<1>3. ASSUME NEW n \in Names, RestoreRefused(n)
      PROVE  SafetyInv'
  BY <1>3 DEF RestoreRefused, JobShape, UndoInv
<1>4. ASSUME NEW n \in Names, NEW safe \in BOOLEAN, Restore(n, safe)
      PROVE  SafetyInv'
  <2>1. UNCHANGED <<files, undo, now>> BY <1>4 DEF Restore
  <2>2. CASE safe
    <3> DEFINE s == files[n]
               name == SafetyName[now]
               doc == Captured
    <3>1. job' = [pc |-> "write", name |-> name, doc |-> doc,
                  then |-> [pc |-> "memory", state |-> s,
                            undo |-> {[name |-> name, state |-> doc]}]]
      BY <1>4, <2>2 DEF Restore, SafetyFirst
    <3>2. \A u \in undo : u.name # name
      BY <1>4 DEF Restore, NewSecond
    <3>3. name \in Names /\ name \in SafetyNames
      BY DEF Names, SafetyNames
    <3> HIDE DEF s, name, doc
    <3>4. JobShape' BY <3>1, <3>3 DEF JobShape, Writing
    <3>5. UndoInv' BY <2>1, <3>1, <3>2 DEF UndoInv, Writing
    <3> QED BY <2>1, <3>4, <3>5
  <2>3. CASE ~safe
    <3>1. job' = [pc |-> "memory", state |-> files[n], undo |-> {}]
      BY <1>4, <2>3 DEF Restore
    <3>2. JobShape' BY <3>1 DEF JobShape, Applying
    <3>3. UndoInv' BY <2>1, <3>1 DEF UndoInv, Writing
    <3> QED BY <2>1, <3>2, <3>3
  <2> QED BY <2>2, <2>3
<1>5. CASE WriteTmp
  <2>1. /\ job.pc = "write" /\ job' = [job EXCEPT !.pc = "rename"]
        /\ UNCHANGED <<files, undo, now>>
    BY <1>5 DEF WriteTmp
  <2>2. job = [pc |-> job.pc, name |-> job.name, doc |-> job.doc, then |-> job.then]
    BY <2>1 DEF JobShape, Idle, Applying
  <2>3. job' = [pc |-> "rename", name |-> job.name, doc |-> job.doc, then |-> job.then]
    BY <2>1, <2>2
  <2>4. JobShape' BY <2>1, <2>3 DEF JobShape, Idle, Writing, Applying
  <2>5. UndoInv' BY <2>1, <2>3 DEF UndoInv, Writing
  <2> QED BY <2>1, <2>4, <2>5
<1>6. CASE WriteFails
  BY <1>6 DEF WriteFails, JobShape, UndoInv, Idle, Writing
<1>7. CASE Rename
  <2>1. /\ job.pc = "rename" /\ job' = job.then
        /\ files' = [files EXCEPT ![job.name] = job.doc]
        /\ UNCHANGED <<undo, now>>
    BY <1>7 DEF Rename
  <2>2. job.name \in Names BY <2>1 DEF JobShape, Idle, Applying
  <2>3. files'[job.name] = job.doc BY <2>1, <2>2
  <2>4. \A u \in undo' : u.name \in SafetyNames /\ files'[u.name] = u.state
    BY <2>1 DEF UndoInv, Writing, Names, SafetyNames
  <2>5. \/ job.then = Idle
        \/ /\ job.then = [pc |-> "memory", state |-> job.then.state,
                          undo |-> {[name |-> job.name, state |-> job.doc]}]
           /\ job.name \in SafetyNames
    BY <2>1 DEF JobShape, Idle, Applying
  <2>6. JobShape' BY <2>1, <2>5 DEF JobShape, Applying
  <2>7. UndoInv' BY <2>1, <2>3, <2>4, <2>5 DEF UndoInv, Idle, Writing
  <2> QED BY <2>1, <2>6, <2>7
<1>8. CASE RestoreMemory
  <2>1. /\ job.pc = "memory" /\ job' = [job EXCEPT !.pc = "identities"]
        /\ undo' = undo \cup job.undo
        /\ UNCHANGED <<files, now>>
    BY <1>8 DEF RestoreMemory
  <2>2. job' = [pc |-> "identities", state |-> job.state, undo |-> job.undo]
    BY <2>1 DEF JobShape, Idle, Writing
  <2>3. JobShape' BY <2>2 DEF JobShape, Applying
  <2>4. UndoInv' BY <2>1, <2>2 DEF UndoInv, Writing
  <2> QED BY <2>1, <2>3, <2>4
<1>9. ASSUME ReplaceIdentities \/ ReplaceTasks \/ ImportKeys \/ Finish
      PROVE  SafetyInv'
  <2>1. /\ job.pc \in {"identities", "tasks", "keys", "escrow"}
        /\ \/ job' = Idle
           \/ \E p \in {"tasks", "keys", "escrow"} : job' = [job EXCEPT !.pc = p]
        /\ UNCHANGED <<files, undo, now>>
    BY <1>9 DEF ReplaceIdentities, ReplaceTasks, ImportKeys, Finish
  <2>2. job = [pc |-> job.pc, state |-> job.state, undo |-> job.undo]
    BY <2>1 DEF JobShape, Idle, Writing
  <2>3. CASE job' = Idle
    BY <2>1, <2>3 DEF JobShape, UndoInv, Idle, Writing
  <2>4. ASSUME NEW p \in {"tasks", "keys", "escrow"}, job' = [job EXCEPT !.pc = p]
        PROVE  SafetyInv'
    <3>1. job' = [pc |-> p, state |-> job.state, undo |-> job.undo]
      BY <2>2, <2>4
    <3>2. JobShape' BY <3>1 DEF JobShape, Applying
    <3>3. UndoInv' BY <2>1, <3>1 DEF UndoInv, Writing
    <3> QED BY <2>1, <3>2, <3>3
  <2> QED BY <2>1, <2>3, <2>4
<1> QED
  BY <1>1, <1>2, <1>3, <1>4, <1>5, <1>6, <1>7, <1>8, <1>9 DEF SnapshotStep

LEMMA SafetyNext ==
  ASSUME OnePerSecond, ~ShortWrites
  PROVE  SafetyInv /\ [Next]_vars => SafetyInv'
<1> SUFFICES ASSUME SafetyInv, [Next]_vars
             PROVE  SafetyInv'
  OBVIOUS
<1>1. CASE HubStep
  BY <1>1, HubStepSafe
<1>2. CASE SnapshotStep
  BY <1>2, SnapshotStepSafe
<1>3. CASE Tick
  BY <1>3, SnapshotsAssumption DEF Tick, SafetyInv, JobShape, UndoInv
<1>4. CASE Crash
  BY <1>4 DEF Crash, SafetyInv, JobShape, UndoInv, Idle, Writing
<1>5. CASE UNCHANGED vars
  BY <1>5 DEF vars, SafetyInv, JobShape, UndoInv
<1> QED BY <1>1, <1>2, <1>3, <1>4, <1>5 DEF Next

(* A restore can be taken back: the snapshot it saved first is whole and   *)
(* stays what it was, whatever stops the restore and whatever is restored  *)
(* later (_snapshot_restore, admin.py:690; save, snapshot.py:201), where   *)
(* no second has two restores and the disk writes what it is given.        *)
THEOREM RestoresAreReversible ==
  ASSUME OnePerSecond, ~ShortWrites
  PROVE  Spec => []RestoreIsReversible
<1>1. SafetyInv => RestoreIsReversible
  BY DEF SafetyInv, UndoInv, RestoreIsReversible
<1> QED BY <1>1, SafetyInit, SafetyNext, PTL DEF Spec

-----------------------------------------------------------------------------
(***************************************************************************)
(* What a restart finds.  A command is followed through its steps: what it *)
(* has made durable is what the memory holds, what it has not is in the    *)
(* state it applies.  Until the disk or the database has refused a write.  *)
(***************************************************************************)

(* The fields of what a command has still to do, whatever it writes. *)
JobForm ==
  \/ job = Idle
  \/ /\ job.pc \in Writing
     /\ job = [pc |-> job.pc, name |-> job.name, doc |-> job.doc, then |-> job.then]
     /\ \/ job.then = Idle
        \/ /\ job.then = [pc |-> "memory", state |-> job.then.state, undo |-> job.then.undo]
           /\ job.then.state \in State
  \/ /\ job.pc \in Applying
     /\ job = [pc |-> job.pc, state |-> job.state, undo |-> job.undo]
     /\ job.state \in State

(* A state in which every hold, of a task that is one, is of a task the    *)
(* registry knows; what a file holds, if it is a state at all, is such a   *)
(* one.                                                                    *)
Sound(s) == \A t \in Tasks \ Malformed : s.holds[t] = "held" => s.status[t] # "none"

SoundDocument(d) == d \in State => Sound(d)

KeysFollow == keySource = "file" => keyFile = keys

Followed ==
  /\ KeysFollow
  /\ job.pc \notin {"identities"} => idRows = ids
  /\ job.pc \notin {"identities", "tasks"} => taskRows = status
  /\ job.pc = "identities" => job.state.ids = ids
  /\ job.pc \in Applying \ {"memory"} => job.state.status = status

Explained ==
  /\ job.pc \notin Applying \ {"memory"} =>
       \A t \in Tasks \ Malformed : holds[t] = "held" => status[t] # "none"
  /\ job.pc \in Applying => Sound(job.state)
  /\ job.pc \in Writing =>
       SoundDocument(job.doc) /\ (job.then # Idle => Sound(job.then.state))
  /\ \A n \in Names : SoundDocument(files[n])

FaultsForm ==
  /\ faults = [file |-> faults.file, table |-> faults.table,
               crashes |-> faults.crashes, restores |-> faults.restores]
  /\ faults.file \in Nat /\ faults.table \in Nat

FollowInv ==
  /\ JobForm /\ FaultsForm
  /\ files = [n \in Names |-> files[n]]
  /\ holds \in [Tasks -> HoldStatus]
  /\ {status, taskRows} \subseteq [Tasks -> {"none", "pending", "completed"}]
  /\ ~Refused => Followed /\ Explained

LEMMA FollowInit == Init => FollowInv
<1> SUFFICES ASSUME Init PROVE FollowInv OBVIOUS
<1>1. /\ job = Idle /\ idRows = ids /\ taskRows = status /\ keyFile = keys
      /\ files = [n \in Names |-> NoFile]
      /\ holds = [t \in Tasks |-> "none"] /\ status = [t \in Tasks |-> "none"]
      /\ faults = [file |-> 0, table |-> 0, crashes |-> 0, restores |-> 0]
  BY DEF Init, EscrowInit
<1>2. Followed BY <1>1 DEF Followed, KeysFollow, Idle, Applying
<1>3. Explained
  BY <1>1, DocumentAssumption DEF Explained, SoundDocument, Idle, Applying, Writing
<1> QED BY <1>1, <1>2, <1>3 DEF FollowInv, JobForm, FaultsForm, HoldStatus

(* A refusal is not forgotten. *)
LEMMA RefusedNext ==
  ASSUME FaultsForm, [Next]_vars
  PROVE  FaultsForm' /\ (Refused => Refused')
<1>1. CASE FileFault BY <1>1 DEF FileFault, FaultsForm, Refused
<1>2. CASE TableFault BY <1>2 DEF TableFault, FaultsForm, Refused
<1>3. CASE LogUnsaved BY <1>3 DEF LogUnsaved, FaultsForm, Refused
<1>4. CASE UNCHANGED faults BY <1>4 DEF FaultsForm, Refused
<1>5. CASE faults' = [faults EXCEPT !.restores = @ + 1]
  BY <1>5 DEF FaultsForm, Refused
<1>6. CASE faults' = [faults EXCEPT !.crashes = @ + 1]
  BY <1>6 DEF FaultsForm, Refused
<1>7. CASE HubStep
  BY <1>1, <1>4, <1>7
  DEF HubStep, GrantFunds, Submit, Complete, Settle, Register, ChangeKey, SetKeys
<1>8. CASE SnapshotStep
  BY <1>1, <1>2, <1>3, <1>4, <1>5, <1>8
  DEF SnapshotStep, Create, Delete, RestoreRefused, Restore, WriteTmp, WriteFails, Rename,
      RestoreMemory, ReplaceIdentities, ReplaceTasks, ImportKeys, Finish, LogOrNot
<1> QED BY <1>4, <1>6, <1>7, <1>8 DEF Next, Tick, Crash, vars

LEMMA HubStepFollows ==
  ASSUME FollowInv, HubStep, FaultsForm', Refused => Refused'
  PROVE  FollowInv'
<1> USE DEF FollowInv
<1>0. UNCHANGED <<files, job, keySource>> /\ job = Idle
  BY DEF HubStep, GrantFunds, Submit, Complete, Settle, Register, ChangeKey, SetKeys,
         Work, Free
<1>a. JobForm' BY <1>0 DEF JobForm
<1>1. ASSUME UNCHANGED <<ids, idRows, keys, keyFile>>,
             holds' \in [Tasks -> HoldStatus],
             {status', taskRows'} \subseteq [Tasks -> {"none", "pending", "completed"}],
             taskRows = status => taskRows' = status',
             \A t \in Tasks \ Malformed : holds'[t] = "held" =>
               status'[t] # "none" \/ (holds[t] = "held" /\ status[t] = "none")
      PROVE  FollowInv'
  <2>1. ~Refused => Followed'
    BY <1>0, <1>1 DEF Followed, KeysFollow, Idle, Applying
  <2>2. ~Refused => Explained'
    BY <1>0, <1>1 DEF Explained, SoundDocument, Idle, Applying, Writing
  <2> QED BY <1>0, <1>1, <1>a, <2>1, <2>2
<1>2. ASSUME UNCHANGED <<holds, status, taskRows>>,
             ~Refused' => KeysFollow' /\ idRows' = ids'
      PROVE  FollowInv'
  <2>1. ~Refused' => Followed'
    BY <1>0, <1>2 DEF Followed, Idle, Applying
  <2>2. ~Refused => Explained'
    BY <1>0, <1>2 DEF Explained, SoundDocument, Idle, Applying, Writing
  <2> QED BY <1>0, <1>2, <1>a, <2>1, <2>2
<1>b. ~Refused => KeysFollow /\ idRows = ids
  BY <1>0 DEF Followed, Idle
<1>3. ASSUME NEW o \in Orgs, GrantFunds(o) PROVE FollowInv'
  <2>1. UNCHANGED <<holds, status, taskRows, ids, idRows, keys, keyFile>>
    BY <1>3 DEF GrantFunds, Grant, registryVars, keyVars
  <2> QED BY <1>0, <1>2, <1>b, <2>1 DEF KeysFollow
<1>4. ASSUME NEW t \in Tasks, Submit(t) PROVE FollowInv'
  <2>1. holds' = [holds EXCEPT ![t] = "held"] /\ UNCHANGED <<ids, idRows, keys, keyFile>>
    BY <1>4 DEF Submit, CreateHold, keyVars
  <2>2. CASE t \in Malformed
    <3>1. UNCHANGED <<status, taskRows>> BY <1>4, <2>2 DEF Submit
    <3> QED BY <1>1, <2>1, <2>2, <3>1 DEF HoldStatus
  <2>3. CASE t \notin Malformed
    <3>1. /\ status' = [status EXCEPT ![t] = "pending"]
          /\ taskRows' = [taskRows EXCEPT ![t] = "pending"]
      BY <1>4, <2>3 DEF Submit
    <3> QED BY <1>1, <2>1, <3>1 DEF HoldStatus
  <2> QED BY <2>2, <2>3
<1>5. ASSUME NEW t \in Tasks, Complete(t) PROVE FollowInv'
  <2>1. /\ holds' = holds
        /\ status' = [status EXCEPT ![t] = "completed"]
        /\ taskRows' = [taskRows EXCEPT ![t] = "completed"]
        /\ UNCHANGED <<ids, idRows, keys, keyFile>>
    BY <1>5 DEF Complete, keyVars, escrowVars
  <2> QED BY <1>1, <2>1
<1>6. ASSUME NEW t \in Tasks, Settle(t) PROVE FollowInv'
  <2>1. /\ holds' = holds \/ holds' = [holds EXCEPT ![t] = "released"]
        /\ UNCHANGED <<status, taskRows, ids, idRows, keys, keyFile>>
    BY <1>6 DEF Settle, Release, Resolve, keyVars, escrowVars
  <2>2. holds' \in [Tasks -> HoldStatus] BY <2>1 DEF HoldStatus
  <2>3. \A x \in Tasks \ Malformed : holds'[x] = "held" => holds[x] = "held" BY <2>1
  <2> QED BY <1>1, <2>1, <2>2, <2>3
<1>7. ASSUME NEW a \in Agents, Register(a) PROVE FollowInv'
  <2>1. /\ UNCHANGED <<holds, status, taskRows, keys, keyFile>>
        /\ idRows = ids => idRows' = ids'
    BY <1>7 DEF Register, keyVars, escrowVars
  <2> QED BY <1>0, <1>2, <1>b, <2>1 DEF KeysFollow
<1>8. ASSUME NEW k \in Keys, ChangeKey(k) PROVE FollowInv'
  <2>1. /\ UNCHANGED <<holds, status, taskRows, ids, idRows>>
        /\ \/ keySource = "environment"
           \/ keyFile' = keys'
           \/ FileFault
    BY <1>8 DEF ChangeKey, SetKeys, registryVars, escrowVars
  <2>2. FileFault => Refused' BY DEF FileFault, FaultsForm, Refused
  <2> QED BY <1>0, <1>2, <1>b, <2>1, <2>2 DEF KeysFollow
<1> QED BY <1>3, <1>4, <1>5, <1>6, <1>7, <1>8 DEF HubStep

(* What is captured between commands, nothing being refused, is sound. *)
LEMMA CapturedSound ==
  ASSUME Explained, job = Idle
  PROVE  Sound(Captured)
BY DEF Explained, Sound, Captured, Idle, Applying

LEMMA SavingFollows ==
  ASSUME FollowInv, FaultsForm', Refused => Refused',
         \/ \E n \in Given : Create(n)
         \/ \E n \in Names : Delete(n) \/ RestoreRefused(n)
                             \/ \E safe \in BOOLEAN : Restore(n, safe)
         \/ WriteTmp \/ WriteFails \/ Rename
  PROVE  FollowInv'
<1> USE DEF FollowInv
<1>0. /\ UNCHANGED <<ids, status, idRows, taskRows, keys, keyFile, keySource, holds>>
      /\ job.pc \notin Applying
  BY DEF Create, Delete, RestoreRefused, Restore, WriteTmp, WriteFails, Rename, Work, Free,
         registryVars, keyVars, escrowVars, Idle, Applying
<1>1. ASSUME JobForm', files' = [n \in Names |-> files'[n]],
             job'.pc \in Writing \cup {"idle", "memory"},
             ~Refused /\ Explained =>
               /\ job'.pc = "memory" => Sound(job'.state)
               /\ job'.pc \in Writing =>
                    SoundDocument(job'.doc) /\ (job'.then # Idle => Sound(job'.then.state))
               /\ \A n \in Names : SoundDocument(files'[n])
      PROVE  FollowInv'
  <2>1. ~Refused => Followed'
    BY <1>0, <1>1 DEF Followed, KeysFollow, Applying, Writing
  <2>2. ~Refused => Explained'
    BY <1>0, <1>1 DEF Explained, Applying, Writing
  <2> QED BY <1>0, <1>1, <2>1, <2>2
<1>2. ASSUME NEW n \in Given, Create(n) PROVE FollowInv'
  <2>1. /\ job = Idle /\ files' = files
        /\ job' = [pc |-> "write", name |-> n, doc |-> Captured, then |-> Idle]
    BY <1>2 DEF Create, Work, Free
  <2>2. JobForm' BY <2>1 DEF JobForm, Writing
  <2>3. Explained => Sound(Captured) BY <2>1, CapturedSound
  <2> QED BY <1>1, <2>1, <2>2, <2>3 DEF Explained, SoundDocument, Writing
<1>3. ASSUME NEW n \in Names, Delete(n) PROVE FollowInv'
  <2>1. job = Idle /\ job' = job /\ files' = [files EXCEPT ![n] = NoFile]
    BY <1>3 DEF Delete, Work, Free
  <2>2. JobForm' BY <2>1 DEF JobForm
  <2>3. Explained => \A m \in Names : SoundDocument(files'[m])
    BY <2>1, DocumentAssumption DEF Explained, SoundDocument
  <2> QED BY <1>1, <2>1, <2>2, <2>3 DEF Idle, Writing
<1>4. ASSUME NEW n \in Names, RestoreRefused(n) PROVE FollowInv'
  <2>1. job = Idle /\ job' = job /\ files' = files
    BY <1>4 DEF RestoreRefused, Work, Free
  <2> QED BY <1>1, <2>1 DEF JobForm, Explained, Idle, Writing
<1>5. ASSUME NEW n \in Names, NEW safe \in BOOLEAN, Restore(n, safe) PROVE FollowInv'
  <2>1. /\ job = Idle /\ files' = files /\ files[n] \in State
        /\ job' = IF safe THEN SafetyFirst(files[n])
                  ELSE [pc |-> "memory", state |-> files[n], undo |-> {}]
    BY <1>5 DEF Restore, Free
  <2>2. Explained => Sound(files[n]) /\ Sound(Captured)
    BY <2>1, CapturedSound DEF Explained, SoundDocument
  <2>3. CASE safe
    <3> DEFINE doc == Captured
               s == files[n]
    <3>1. job' = [pc |-> "write", name |-> SafetyName[now], doc |-> doc,
                  then |-> [pc |-> "memory", state |-> s,
                            undo |-> {[name |-> SafetyName[now], state |-> doc]}]]
      BY <2>1, <2>3 DEF SafetyFirst
    <3>2. s \in State /\ (Explained => Sound(s) /\ Sound(doc)) BY <2>1, <2>2
    <3> HIDE DEF doc, s
    <3>3. JobForm' BY <3>1, <3>2 DEF JobForm, Writing
    <3> QED BY <1>1, <2>1, <3>1, <3>2, <3>3 DEF Explained, SoundDocument, Writing
  <2>4. CASE ~safe
    <3>1. job' = [pc |-> "memory", state |-> files[n], undo |-> {}] BY <2>1, <2>4
    <3>2. JobForm' BY <2>1, <3>1 DEF JobForm, Applying
    <3> QED BY <1>1, <2>1, <2>2, <3>1, <3>2 DEF Explained, Writing
  <2> QED BY <2>3, <2>4
<1>6. CASE WriteTmp
  <2>1. /\ job.pc = "write" /\ files' = files
        /\ \/ job' = [job EXCEPT !.pc = "rename"]
           \/ job' = [job EXCEPT !.pc = "rename", !.doc = Torn]
    BY <1>6 DEF WriteTmp
  <2>2. /\ job = [pc |-> job.pc, name |-> job.name, doc |-> job.doc, then |-> job.then]
        /\ \/ job.then = Idle
           \/ /\ job.then = [pc |-> "memory", state |-> job.then.state,
                             undo |-> job.then.undo]
              /\ job.then.state \in State
    BY <2>1 DEF JobForm, Idle, Applying
  <2>3. \E d \in {job.doc, Torn} :
          job' = [pc |-> "rename", name |-> job.name, doc |-> d, then |-> job.then]
    <3>1. CASE job' = [job EXCEPT !.pc = "rename"] BY <2>2, <3>1
    <3>2. CASE job' = [job EXCEPT !.pc = "rename", !.doc = Torn] BY <2>2, <3>2
    <3> QED BY <2>1, <3>1, <3>2
  <2>4. /\ job'.pc = "rename" /\ job'.then = job.then
        /\ job'.doc = job.doc \/ job'.doc = Torn
        /\ job' = [pc |-> job'.pc, name |-> job'.name, doc |-> job'.doc, then |-> job'.then]
    BY <2>3
  <2>5. JobForm' BY <2>2, <2>4 DEF JobForm, Writing
  <2>6. Explained => /\ SoundDocument(job'.doc)
                     /\ job'.then # Idle => Sound(job'.then.state)
    BY <2>1, <2>4, DocumentAssumption DEF Explained, SoundDocument, Writing
  <2> QED BY <1>1, <2>1, <2>4, <2>5, <2>6 DEF Explained, Writing
<1>7. CASE WriteFails
  <2>1. job' = Idle /\ files' = files BY <1>7 DEF WriteFails
  <2> QED BY <1>1, <2>1 DEF JobForm, Explained, Idle, Writing
<1>8. CASE Rename
  <2>1. /\ job.pc = "rename" /\ job' = job.then
        /\ files' = [files EXCEPT ![job.name] = job.doc]
    BY <1>8 DEF Rename
  <2>2. \/ job.then = Idle
        \/ /\ job.then = [pc |-> "memory", state |-> job.then.state,
                          undo |-> job.then.undo]
           /\ job.then.state \in State
    BY <2>1 DEF JobForm, Idle, Applying
  <2>3. JobForm' BY <2>1, <2>2 DEF JobForm, Applying
  <2>4. Explained => \A m \in Names : SoundDocument(files'[m])
    BY <2>1 DEF Explained, Writing
  <2>5. job'.pc \in {"idle", "memory"} BY <2>1, <2>2 DEF Idle
  <2>6. Explained => (job'.pc = "memory" => Sound(job'.state))
    BY <2>1, <2>2 DEF Explained, Writing, Idle
  <2> QED BY <1>1, <2>1, <2>3, <2>4, <2>5, <2>6 DEF Writing
<1> QED BY <1>2, <1>3, <1>4, <1>5, <1>6, <1>7, <1>8

LEMMA ApplyingFollows ==
  ASSUME FollowInv, FaultsForm', Refused => Refused',
         RestoreMemory \/ ReplaceIdentities \/ ReplaceTasks \/ ImportKeys \/ Finish
  PROVE  FollowInv'
<1> USE DEF FollowInv
<1>0. /\ job.pc \in Applying /\ files' = files /\ keySource' = keySource
      /\ job = [pc |-> job.pc, state |-> job.state, undo |-> job.undo]
      /\ job.state \in State
  BY DEF RestoreMemory, ReplaceIdentities, ReplaceTasks, ImportKeys, Finish, JobForm,
         Idle, Writing, Applying
<1>a. /\ job.state.status \in [Tasks -> {"none", "pending", "completed"}]
      /\ job.state.holds \in [Tasks -> HoldStatus]
  BY <1>0 DEF State
<1>b. FileFault \/ TableFault => Refused'
  BY DEF FileFault, TableFault, FaultsForm, Refused
<1>1. ASSUME NEW p \in Applying, job' = [job EXCEPT !.pc = p]
      PROVE  job' = [pc |-> p, state |-> job.state, undo |-> job.undo] /\ JobForm'
  <2>1. job' = [pc |-> p, state |-> job.state, undo |-> job.undo] BY <1>0, <1>1
  <2> QED BY <1>0, <2>1 DEF JobForm
<1>2. job' = Idle => JobForm' BY DEF JobForm
<1>3. CASE RestoreMemory
  <2>1. /\ job.pc = "memory" /\ job' = [job EXCEPT !.pc = "identities"]
        /\ ids' = job.state.ids /\ status' = job.state.status
        /\ UNCHANGED <<idRows, taskRows, keys, keyFile, holds>>
    BY <1>3 DEF RestoreMemory, keyVars, escrowVars
  <2>2. job' = [pc |-> "identities", state |-> job.state, undo |-> job.undo] /\ JobForm'
    BY <1>1, <2>1 DEF Applying
  <2>3. ~Refused => Followed' BY <1>0, <2>1, <2>2 DEF Followed, KeysFollow, Applying
  <2>4. ~Refused => Explained'
    BY <1>0, <2>1, <2>2 DEF Explained, Applying, Writing
  <2> QED BY <1>0, <1>a, <2>1, <2>2, <2>3, <2>4
<1>4. CASE ReplaceIdentities
  <2>1. /\ job.pc = "identities"
        /\ UNCHANGED <<ids, status, taskRows, keys, keyFile, holds>>
        /\ \/ idRows' = job.state.ids /\ job' = [job EXCEPT !.pc = "tasks"]
           \/ Refused' /\ job' = Idle
    BY <1>4, <1>b DEF ReplaceIdentities, keyVars, escrowVars
  <2>2. CASE Refused' /\ job' = Idle BY <1>0, <1>2, <2>1, <2>2
  <2>3. CASE idRows' = job.state.ids /\ job' = [job EXCEPT !.pc = "tasks"]
    <3>1. job' = [pc |-> "tasks", state |-> job.state, undo |-> job.undo] /\ JobForm'
      BY <1>1, <2>3 DEF Applying
    <3>2. ~Refused => Followed' BY <1>0, <2>1, <2>3, <3>1 DEF Followed, KeysFollow, Applying
    <3>3. ~Refused => Explained' BY <1>0, <2>1, <3>1 DEF Explained, Applying, Writing
    <3> QED BY <1>0, <2>1, <3>1, <3>2, <3>3
  <2> QED BY <2>1, <2>2, <2>3
<1>5. CASE ReplaceTasks
  <2>1. /\ job.pc = "tasks"
        /\ UNCHANGED <<ids, status, idRows, keys, keyFile, holds>>
        /\ \/ taskRows' = job.state.status /\ job' = [job EXCEPT !.pc = "keys"]
           \/ Refused' /\ job' = Idle /\ taskRows' = taskRows
    BY <1>5, <1>b DEF ReplaceTasks, TasksReplaced, keyVars, escrowVars
  <2>2. CASE Refused' /\ job' = Idle BY <1>0, <1>2, <1>a, <2>1, <2>2
  <2>3. CASE taskRows' = job.state.status /\ job' = [job EXCEPT !.pc = "keys"]
    <3>1. job' = [pc |-> "keys", state |-> job.state, undo |-> job.undo] /\ JobForm'
      BY <1>1, <2>3 DEF Applying
    <3>2. ~Refused => Followed' BY <1>0, <2>1, <2>3, <3>1 DEF Followed, KeysFollow, Applying
    <3>3. ~Refused => Explained' BY <1>0, <2>1, <3>1 DEF Explained, Applying, Writing
    <3> QED BY <1>0, <1>a, <2>1, <2>3, <3>1, <3>2, <3>3
  <2> QED BY <2>1, <2>2, <2>3
<1>6. CASE ImportKeys
  <2>1. /\ job.pc = "keys"
        /\ UNCHANGED <<ids, status, idRows, taskRows, holds>>
        /\ \/ Refused' /\ job' = Idle
           \/ /\ job' = [job EXCEPT !.pc = "escrow"]
              /\ keyFile' = keys' \/ keySource = "environment"
    BY <1>6, <1>b DEF ImportKeys, registryVars, keyVars, escrowVars
  <2>2. CASE Refused' /\ job' = Idle BY <1>0, <1>2, <2>1, <2>2
  <2>3. CASE /\ job' = [job EXCEPT !.pc = "escrow"]
             /\ keyFile' = keys' \/ keySource = "environment"
    <3>1. job' = [pc |-> "escrow", state |-> job.state, undo |-> job.undo] /\ JobForm'
      BY <1>1, <2>3 DEF Applying
    <3>2. ~Refused => Followed' BY <1>0, <2>1, <2>3, <3>1 DEF Followed, KeysFollow, Applying
    <3>3. ~Refused => Explained' BY <1>0, <2>1, <3>1 DEF Explained, Applying, Writing
    <3> QED BY <1>0, <2>1, <3>1, <3>2, <3>3
  <2> QED BY <2>1, <2>2, <2>3
<1>7. CASE Finish
  <2>1. /\ job.pc = "escrow" /\ job' = Idle /\ holds' = job.state.holds
        /\ UNCHANGED <<ids, status, idRows, taskRows, keys, keyFile>>
    BY <1>7 DEF Finish, ImportEscrow, registryVars, keyVars
  <2>2. ~Refused => Followed' BY <1>0, <2>1 DEF Followed, KeysFollow, Applying, Idle
  <2>3. ~Refused => Explained'
    <3>1. ~Refused => job.state.status = status /\ Sound(job.state)
      BY <2>1 DEF Followed, Explained, Applying
    <3> QED BY <1>0, <2>1, <3>1 DEF Explained, Sound, Applying, Writing, Idle
  <2> QED BY <1>0, <1>2, <1>a, <2>1, <2>2, <2>3
<1> QED BY <1>3, <1>4, <1>5, <1>6, <1>7

LEMMA FollowNext == FollowInv /\ [Next]_vars => FollowInv'
<1> SUFFICES ASSUME FollowInv, [Next]_vars PROVE FollowInv' OBVIOUS
<1>0. FaultsForm' /\ (Refused => Refused') BY RefusedNext DEF FollowInv
<1>1. CASE HubStep BY <1>0, <1>1, HubStepFollows
<1>2. CASE SnapshotStep
  BY <1>0, <1>2, SavingFollows, ApplyingFollows DEF SnapshotStep
<1>3. CASE Tick \/ UNCHANGED vars
  <2>1. UNCHANGED <<ids, status, idRows, taskRows, keys, keyFile, keySource, files, job,
                    holds, faults>>
    BY <1>3 DEF Tick, vars, registryVars, keyVars, escrowVars
  <2> QED BY <2>1 DEF FollowInv, JobForm, FaultsForm, Refused, Followed, KeysFollow, Explained
<1>4. CASE Crash
  <2>1. /\ ids' = idRows /\ status' = taskRows /\ keys' = keyFile /\ job' = Idle
        /\ holds' = [t \in Tasks |-> "none"]
        /\ UNCHANGED <<idRows, taskRows, keyFile, keySource, files>>
    BY <1>4 DEF Crash
  <2>2. Followed' BY <2>1 DEF Followed, KeysFollow, Idle, Applying
  <2>3. Explained => Explained'
    BY <2>1 DEF Explained, SoundDocument, Idle, Applying, Writing
  <2>4. JobForm' BY <2>1 DEF JobForm
  <2> QED BY <1>0, <2>1, <2>2, <2>3, <2>4 DEF FollowInv, HoldStatus
<1> QED BY <1>1, <1>2, <1>3, <1>4 DEF Next

(* Between commands the tables and the key file hold what the memory       *)
(* holds, for any snapshots restored, restores cut by a crash, and writes  *)
(* that come out short, until a write is refused.                          *)
THEOREM StoreAlwaysFollows == Spec => []StoreFollowsMemory
<1>1. FollowInv => StoreFollowsMemory
  BY DEF FollowInv, Followed, KeysFollow, StoreFollowsMemory, Idle, Applying
<1> QED BY <1>1, FollowInit, FollowNext, PTL DEF Spec

(* Between commands every hold of a task that is one has its task in the   *)
(* registry, also when the states restored are of different moments, until *)
(* a write is refused.                                                     *)
THEOREM HeldIsAlwaysKnown == Spec => []HeldIsKnown
<1>1. FollowInv => HeldIsKnown
  BY DEF FollowInv, Explained, HeldIsKnown, Held, Idle, Applying
<1> QED BY <1>1, FollowInit, FollowNext, PTL DEF Spec

-----------------------------------------------------------------------------
(***************************************************************************)
(* The audit table.                                                        *)
(***************************************************************************)

(* Until the database refuses an entry, the rows are the chain in memory,  *)
(* numbered from 0.                                                        *)
RowsOfChain ==
  /\ chain \in Seq([id : Nat, prev : Nat]) /\ chain # << >>
  /\ auditRows = [i \in 0..(Len(chain) - 1) |-> chain[i + 1]]

AuditInv ==
  /\ FaultsForm /\ logged \in Nat
  /\ faults.table = 0 => RowsOfChain

AuditStep ==
  /\ \A i \in DOMAIN auditRows : auditRows'[i] = auditRows[i]
  /\ \A i \in DOMAIN auditRows' \ DOMAIN auditRows :
       i > 0 /\ i - 1 \in DOMAIN auditRows /\ auditRows'[i].prev = auditRows[i - 1].id

LEMMA AuditInit == Init => AuditInv
<1> SUFFICES ASSUME Init PROVE AuditInv OBVIOUS
<1>1. /\ chain = <<Genesis>> /\ auditRows = [i \in {0} |-> Genesis] /\ logged = 0
      /\ faults = [file |-> 0, table |-> 0, crashes |-> 0, restores |-> 0]
  BY DEF Init
<1>2. Genesis \in [id : Nat, prev : Nat] BY DEF Genesis
<1>3. chain \in Seq([id : Nat, prev : Nat]) /\ Len(chain) = 1 /\ chain[1] = Genesis
  BY <1>1, <1>2
<1>4. 0..(Len(chain) - 1) = {0} BY <1>3
<1>5. auditRows = [i \in 0..(Len(chain) - 1) |-> chain[i + 1]]
  BY <1>1, <1>3, <1>4
<1> QED BY <1>1, <1>3, <1>5 DEF AuditInv, RowsOfChain, FaultsForm

(* An entry that is saved goes behind the last row, linked to it.          *)
LEMMA LogGrows ==
  ASSUME RowsOfChain, logged \in Nat, Log
  PROVE  RowsOfChain' /\ AuditStep
<1>1. /\ Len(chain) \in Nat \ {0} /\ chain[Len(chain)] \in [id : Nat, prev : Nat]
  <2>1. chain \in Seq([id : Nat, prev : Nat]) /\ chain # << >> BY DEF RowsOfChain
  <2>2. Len(chain) \in Nat \ {0} BY <2>1, EmptySeq, LenProperties
  <2>3. Len(chain) \in 1..Len(chain) BY <2>2
  <2> QED BY <2>1, <2>2, <2>3, ElementOfSeq
<1>2. NextEntry \in [id : Nat, prev : Nat] BY <1>1 DEF NextEntry
<1>3. /\ chain' \in Seq([id : Nat, prev : Nat]) /\ Len(chain') = Len(chain) + 1
      /\ \A i \in 1..Len(chain) : chain'[i] = chain[i]
      /\ chain'[Len(chain) + 1] = NextEntry
  BY <1>2, AppendProperties DEF RowsOfChain, Log
<1>4. auditRows = [i \in 0..(Len(chain) - 1) |-> chain[i + 1]] BY DEF RowsOfChain
<1>5. auditRows' = [i \in DOMAIN auditRows \cup {Len(chain)} |->
                      IF i = Len(chain) THEN NextEntry ELSE auditRows[i]]
  BY DEF Log, Upsert
<1>6. DOMAIN auditRows \cup {Len(chain)} = 0..(Len(chain') - 1) BY <1>1, <1>3, <1>4
<1>7. ASSUME NEW i \in 0..(Len(chain') - 1)
      PROVE  auditRows'[i] = chain'[i + 1]
  <2>1. CASE i = Len(chain) BY <1>3, <1>5, <1>6, <2>1
  <2>2. CASE i # Len(chain)
    <3>1. i \in DOMAIN auditRows /\ i + 1 \in 1..Len(chain) BY <1>1, <1>3, <1>4, <2>2
    <3>2. auditRows'[i] = auditRows[i] BY <1>5, <2>2, <3>1
    <3> QED BY <1>3, <1>4, <3>1, <3>2
  <2> QED BY <2>1, <2>2
<1>8. auditRows' = [i \in 0..(Len(chain') - 1) |-> chain'[i + 1]]
  BY <1>5, <1>6, <1>7
<1>9. \A i \in DOMAIN auditRows : auditRows'[i] = auditRows[i]
  BY <1>1, <1>4, <1>5
<1>10. ASSUME NEW i \in DOMAIN auditRows' \ DOMAIN auditRows
       PROVE  i > 0 /\ i - 1 \in DOMAIN auditRows /\ auditRows'[i].prev = auditRows[i - 1].id
  <2>1. i = Len(chain) /\ auditRows'[i] = NextEntry BY <1>5, <1>10
  <2>2. i > 0 /\ i - 1 \in DOMAIN auditRows /\ auditRows[i - 1] = chain[Len(chain)]
    BY <1>1, <1>4, <2>1
  <2> QED BY <2>1, <2>2 DEF NextEntry
<1>11. chain' # << >> BY <1>1, <1>3, EmptySeq
<1>12. AuditStep BY <1>9, <1>10 DEF AuditStep
<1>13. RowsOfChain' BY <1>3, <1>8, <1>11 DEF RowsOfChain
<1> QED BY <1>12, <1>13

(* load_audit reads the rows in the order of their index: the chain.       *)
LEMMA RowsAreChain ==
  ASSUME RowsOfChain
  PROVE  RowsInOrder = chain
<1> DEFINE n == Len(chain)
           Nth(i) == CHOOSE k \in DOMAIN auditRows :
                       Cardinality({j \in DOMAIN auditRows : j < k}) = i - 1
<1>1. /\ n \in Nat \ {0} /\ DOMAIN auditRows = 0..(n - 1)
      /\ \A i \in 0..(n - 1) : auditRows[i] = chain[i + 1]
      /\ DOMAIN chain = 1..n /\ chain = [i \in 1..n |-> chain[i]]
  BY EmptySeq, LenProperties DEF RowsOfChain
<1>2. Cardinality(DOMAIN auditRows) = n
  BY <1>1, FS_Interval
<1>3. ASSUME NEW k \in 0..(n - 1)
      PROVE  Cardinality({j \in DOMAIN auditRows : j < k}) = k
  <2>1. {j \in DOMAIN auditRows : j < k} = 0..(k - 1) BY <1>1
  <2>2. Cardinality(0..(k - 1)) = k
    <3>1. CASE k = 0
      <4>1. 0..(k - 1) = {} BY <3>1
      <4> QED BY <3>1, <4>1, FS_EmptySet
    <3>2. CASE k > 0 BY <1>1, <3>2, FS_Interval
    <3> QED BY <1>1, <3>1, <3>2
  <2> QED BY <2>1, <2>2
<1>4. ASSUME NEW i \in 1..n PROVE auditRows[Nth(i)] = chain[i]
  <2>1. /\ i - 1 \in DOMAIN auditRows
        /\ Cardinality({j \in DOMAIN auditRows : j < i - 1}) = i - 1
    BY <1>1, <1>3
  <2>2. /\ Nth(i) \in DOMAIN auditRows
        /\ Cardinality({j \in DOMAIN auditRows : j < Nth(i)}) = i - 1
    BY <2>1
  <2>3. Nth(i) = i - 1 BY <1>1, <1>3, <2>2
  <2>4. auditRows[i - 1] = chain[i]
    <3> DEFINE k == i - 1
    <3>1. k \in 0..(n - 1) /\ k + 1 = i BY <1>1
    <3> HIDE DEF k
    <3> QED BY <1>1, <3>1 DEF k
  <2> HIDE DEF Nth
  <2> QED BY <2>3, <2>4
<1>5. RowsInOrder = [i \in 1..n |-> auditRows[Nth(i)]]
  BY <1>2 DEF RowsInOrder
<1>6. RowsInOrder = [i \in 1..n |-> chain[i]] BY <1>4, <1>5
<1> QED BY <1>1, <1>6

(* What a step may do to the audit log.                                    *)
LEMMA AuditCases ==
  ASSUME [Next]_vars
  PROVE  Log \/ LogUnsaved \/ Crash \/ UNCHANGED auditVars
<1>1. CASE HubStep
  BY <1>1 DEF HubStep, GrantFunds, Submit, Complete, Settle, Register, ChangeKey, SetKeys
<1>2. CASE SnapshotStep
  <2>1. ASSUME NEW n \in Names, Delete(n) \/ RestoreRefused(n)
        PROVE  Log \/ LogUnsaved
    BY <2>1 DEF Delete, RestoreRefused, LogOrNot
  <2>2. CASE Rename BY <2>2 DEF Rename, LogOrNot
  <2>3. CASE Finish BY <2>3 DEF Finish, LogRestored
  <2> QED
    BY <1>2, <2>1, <2>2, <2>3
    DEF SnapshotStep, Create, Restore, WriteTmp, WriteFails, RestoreMemory,
        ReplaceIdentities, ReplaceTasks, ImportKeys
<1>3. CASE Tick \/ UNCHANGED vars BY <1>3 DEF Tick, vars, auditVars
<1> QED BY <1>1, <1>2, <1>3 DEF Next

LEMMA AuditNext ==
  ASSUME AuditInv, [Next]_vars
  PROVE  AuditInv' /\ (faults.table = 0 => AuditStep \/ UNCHANGED vars)
<1>0. /\ FaultsForm /\ FaultsForm' /\ logged \in Nat
      /\ faults.table \in Nat /\ faults'.table \in Nat
  BY RefusedNext DEF AuditInv, FaultsForm
<1>a. faults'.table = 0 => faults.table = 0
  BY <1>0 DEF Next, HubStep, SnapshotStep, GrantFunds, Submit, Complete, Settle, Register,
         ChangeKey, SetKeys, Create, Delete, RestoreRefused, Restore, WriteTmp, WriteFails,
         Rename, RestoreMemory, ReplaceIdentities, ReplaceTasks, ImportKeys, Finish, Tick,
         Crash, FileFault, TableFault, LogOrNot, LogUnsaved, vars, FaultsForm
<1>1. ASSUME Log PROVE AuditInv' /\ (faults.table = 0 => AuditStep)
  <2>1. logged' \in Nat BY <1>0, <1>1 DEF Log
  <2> QED BY <1>0, <1>a, <1>1, <2>1, LogGrows DEF AuditInv
<1>2. ASSUME LogUnsaved PROVE AuditInv' /\ AuditStep
  <2>1. faults'.table # 0 /\ logged' \in Nat /\ auditRows' = auditRows
    BY <1>0, <1>2 DEF LogUnsaved, FaultsForm
  <2> QED BY <1>0, <2>1 DEF AuditInv, AuditStep
<1>3. ASSUME UNCHANGED auditVars, faults'.table = 0 => faults.table = 0
      PROVE  AuditInv' /\ AuditStep
  BY <1>0, <1>3 DEF auditVars, AuditInv, RowsOfChain, AuditStep
<1>4. CASE Crash
  <2>1. /\ chain' = RowsInOrder /\ auditRows' = auditRows /\ logged' = logged
        /\ faults'.table = faults.table
    BY <1>0, <1>4 DEF Crash, FaultsForm
  <2>2. RowsOfChain => chain' = chain BY <2>1, RowsAreChain
  <2> QED BY <1>0, <2>1, <2>2 DEF AuditInv, RowsOfChain, AuditStep
<1>5. Log \/ LogUnsaved \/ Crash \/ UNCHANGED auditVars BY AuditCases
<1> QED BY <1>a, <1>1, <1>2, <1>3, <1>4, <1>5

(* Until the database refuses an entry, no step rewrites a row of the      *)
(* audit table, and every new row is behind the last one and linked to it, *)
(* through restores and crashes.                                           *)
THEOREM AuditRowsAreKept == Spec => AuditOnlyGrows
<1>1. AuditInv /\ [Next]_vars => AuditInv' BY AuditNext
<1>2. AuditInv /\ [Next]_vars => [faults.table = 0 => AuditStep]_vars BY AuditNext
<1>3. Spec => [][faults.table = 0 => AuditStep]_vars
  BY <1>1, <1>2, AuditInit, PTL DEF Spec
<1> QED BY <1>3 DEF AuditOnlyGrows, AuditStep

-----------------------------------------------------------------------------
(***************************************************************************)
(* Types.  FollowInv has those of the registry, of the holds and of what a *)
(* command applies; a file holds a state, or what is left of one.          *)
(***************************************************************************)
MemoryTypes ==
  /\ balances \in [Orgs -> Nat] /\ minted \in [Orgs -> Nat]
  /\ ids \subseteq Agents /\ idRows \subseteq Agents /\ ending \subseteq Tasks
  /\ keys \subseteq Keys /\ keyFile \subseteq Keys /\ now \in 0..MaxTime

FileTypes ==
  /\ files \in [Names -> State \union {NoFile, Torn}]
  /\ job.pc \in Writing => job.doc \in State \union {Torn}

(* The chain is a sequence, of whatever entries the rows brought back. *)
LogTypes ==
  /\ logged \in Nat /\ DOMAIN auditRows \subseteq 0..logged
  /\ Len(chain) \in Nat /\ chain = [i \in 1..Len(chain) |-> chain[i]]
  /\ Len(chain) <= logged + 1

TypeInv == FollowInv /\ MemoryTypes /\ FileTypes /\ LogTypes

LEMMA TypesInit == Init => TypeInv
<1> SUFFICES ASSUME Init PROVE TypeInv OBVIOUS
<1>1. MemoryTypes BY SnapshotsAssumption DEF Init, EscrowInit, MemoryTypes
<1>2. FileTypes BY DEF Init, FileTypes, Idle, Writing
<1>3. LogTypes
  <2>1. chain = <<Genesis>> /\ DOMAIN auditRows = {0} /\ logged = 0 BY DEF Init
  <2> QED BY <2>1 DEF LogTypes
<1> QED BY <1>1, <1>2, <1>3, FollowInit DEF TypeInv

LEMMA LogTypesNext ==
  ASSUME LogTypes, [Next]_vars
  PROVE  LogTypes'
<1>a. /\ logged \in Nat /\ DOMAIN auditRows \subseteq 0..logged
      /\ Len(chain) \in Nat /\ chain = [i \in 1..Len(chain) |-> chain[i]]
      /\ Len(chain) <= logged + 1
  BY DEF LogTypes
<1>1. ASSUME chain' = Append(chain, NextEntry)
      PROVE  /\ Len(chain') = Len(chain) + 1
             /\ chain' = [i \in 1..Len(chain') |-> chain'[i]]
  <2> DEFINE E == {chain[i] : i \in 1..Len(chain)} \union {NextEntry}
  <2>1. chain \in Seq(E) BY <1>a
  <2>2. NextEntry \in E OBVIOUS
  <2> HIDE DEF E
  <2>3. chain' \in Seq(E) /\ Len(chain') = Len(chain) + 1
    BY <1>1, <2>1, <2>2, AppendProperties
  <2> QED BY <2>3, LenProperties
<1>2. CASE Log
  <2>1. chain' = Append(chain, NextEntry) /\ logged' = logged + 1 BY <1>2 DEF Log
  <2>2. DOMAIN auditRows' = DOMAIN auditRows \union {Len(chain)} BY <1>2 DEF Log, Upsert
  <2> QED BY <1>1, <1>a, <2>1, <2>2 DEF LogTypes
<1>3. CASE LogUnsaved
  <2>1. chain' = Append(chain, NextEntry) /\ logged' = logged + 1 /\ auditRows' = auditRows
    BY <1>3 DEF LogUnsaved
  <2> QED BY <1>1, <1>a, <2>1 DEF LogTypes
<1>4. CASE Crash
  <2> DEFINE n == Cardinality(DOMAIN auditRows)
  <2>1. IsFiniteSet(0..logged) /\ Cardinality(0..logged) = logged + 1
    <3>1. 0 \in Int /\ logged \in Int /\ ~(0 > logged) /\ logged - 0 + 1 = logged + 1
      BY <1>a
    <3>2. IsFiniteSet(0..logged) BY <3>1, FS_Interval
    <3>3. Cardinality(0..logged) = IF 0 > logged THEN 0 ELSE logged - 0 + 1
      BY <3>1, FS_Interval, Zenon
    <3> QED BY <3>1, <3>2, <3>3
  <2>2. n \in Nat /\ n <= logged + 1
    BY <1>a, <2>1, FS_Subset, FS_CardinalityType
  <2>3. chain' = RowsInOrder /\ logged' = logged /\ auditRows' = auditRows
    BY <1>4 DEF Crash
  <2>4. /\ DOMAIN chain' = 1..n /\ chain' = [i \in 1..n |-> chain'[i]]
    BY <2>3 DEF RowsInOrder
  <2> HIDE DEF n
  <2>5. Len(chain') = n BY <2>2, <2>4
  <2> QED BY <1>a, <2>2, <2>3, <2>4, <2>5 DEF LogTypes
<1>5. CASE UNCHANGED auditVars BY <1>5 DEF auditVars, LogTypes
<1> QED BY <1>2, <1>3, <1>4, <1>5, AuditCases

(* What a command is about to save, and what it applies, are states.       *)
LEMMA CapturedIsState ==
  ASSUME TypeInv
  PROVE  Captured \in State
BY DEF TypeInv, FollowInv, MemoryTypes, Captured, State

LEMMA FileTypesNext ==
  ASSUME TypeInv, [Next]_vars
  PROVE  FileTypes'
<1>a. files \in [Names -> State \union {NoFile, Torn}] BY DEF TypeInv, FileTypes
<1>1. CASE UNCHANGED <<files, job>> BY <1>1 DEF TypeInv, FileTypes
<1>2. ASSUME NEW n \in Names, Delete(n) PROVE FileTypes'
  BY <1>2, <1>a DEF Delete, Work, Free, Idle, Writing, FileTypes
<1>3. CASE Rename
  <2>1. /\ job.pc = "rename" /\ job' = job.then
        /\ files' = [files EXCEPT ![job.name] = job.doc]
    BY <1>3 DEF Rename
  <2>2. job.doc \in State \union {Torn} BY <2>1 DEF TypeInv, FileTypes, Writing
  <2>3. job'.pc \notin Writing
    BY <2>1 DEF TypeInv, FollowInv, JobForm, Idle, Writing, Applying
  <2> QED BY <1>a, <2>1, <2>2, <2>3 DEF FileTypes
<1>4. ASSUME files' = files, job'.pc \in Writing => job'.doc \in State \union {Torn}
      PROVE  FileTypes'
  BY <1>a, <1>4 DEF FileTypes
<1>5. ASSUME NEW n \in Names, Create(n)
      PROVE  FileTypes'
  BY <1>4, <1>5, CapturedIsState DEF Create
<1>6. ASSUME NEW n \in Names, NEW safe \in BOOLEAN, Restore(n, safe)
      PROVE  FileTypes'
  <2>1. files' = files /\ (job' = SafetyFirst(files[n]) \/ job'.pc = "memory")
    BY <1>6 DEF Restore
  <2> QED BY <1>4, <2>1, CapturedIsState DEF SafetyFirst, Writing
<1>7. CASE WriteTmp
  <2>1. /\ job.pc = "write" /\ files' = files
        /\ \/ job' = [job EXCEPT !.pc = "rename"]
           \/ job' = [job EXCEPT !.pc = "rename", !.doc = Torn]
    BY <1>7 DEF WriteTmp
  <2>2. job = [pc |-> job.pc, name |-> job.name, doc |-> job.doc, then |-> job.then]
    BY <2>1 DEF TypeInv, FollowInv, JobForm, Idle, Applying
  <2>3. job'.doc \in {job.doc, Torn} BY <2>1, <2>2
  <2> QED BY <1>4, <2>1, <2>3 DEF TypeInv, FileTypes, Writing
<1>8. CASE RestoreMemory \/ ReplaceIdentities \/ ReplaceTasks \/ ImportKeys \/ Finish
  <2>1. /\ job.pc \in Applying /\ files' = files
        /\ \/ job' = Idle
           \/ \E p \in Applying : job' = [job EXCEPT !.pc = p]
    BY <1>8 DEF RestoreMemory, ReplaceIdentities, ReplaceTasks, ImportKeys, Finish, Applying
  <2>2. job = [pc |-> job.pc, state |-> job.state, undo |-> job.undo]
    BY <2>1 DEF TypeInv, FollowInv, JobForm, Idle, Applying, Writing
  <2>3. job'.pc \notin Writing BY <2>1, <2>2 DEF Idle, Applying, Writing
  <2> QED BY <1>4, <2>1, <2>3
<1>9. CASE WriteFails \/ Crash
  BY <1>4, <1>9 DEF WriteFails, Crash, Idle, Writing
<1>10. CASE HubStep
  BY <1>1, <1>10
  DEF HubStep, GrantFunds, Submit, Complete, Settle, Register, ChangeKey, SetKeys
<1>11. CASE Tick \/ UNCHANGED vars BY <1>1, <1>11 DEF Tick, vars
<1>12. ASSUME NEW n \in Names, RestoreRefused(n) PROVE FileTypes'
  BY <1>1, <1>12 DEF RestoreRefused
<1>13. Given \subseteq Names BY DEF Names
<1> QED
  BY <1>2, <1>3, <1>5, <1>6, <1>7, <1>8, <1>9, <1>10, <1>11, <1>12, <1>13
  DEF Next, SnapshotStep

LEMMA MemoryTypesNext ==
  ASSUME TypeInv, [Next]_vars
  PROVE  MemoryTypes'
<1>a. MemoryTypes /\ JobForm BY DEF TypeInv, FollowInv
<1>b. job.pc \in Applying => job.state \in State
  BY <1>a DEF JobForm, Idle, Writing, Applying
<1>1. CASE UNCHANGED <<balances, minted, ids, idRows, ending, keys, keyFile, now>>
  BY <1>a, <1>1 DEF MemoryTypes
<1>2. CASE HubStep
  <2>1. ASSUME NEW o \in Orgs, GrantFunds(o) PROVE MemoryTypes'
    BY <1>a, <2>1 DEF GrantFunds, Grant, Credit, registryVars, keyVars, MemoryTypes
  <2>2. ASSUME NEW t \in Tasks, Submit(t) PROVE MemoryTypes'
    <3>1. Payer[t] \in Orgs /\ Amount[t] \in Nat BY EscrowAssumption DEF EscrowAssumption
    <3>2. balances' \in [Orgs -> Nat]
      BY <1>a, <2>2, <3>1 DEF Submit, CreateHold, CanHold, MemoryTypes
    <3> QED BY <1>a, <2>2, <3>2 DEF Submit, CreateHold, keyVars, MemoryTypes
  <2>3. ASSUME NEW t \in Tasks, Complete(t) PROVE MemoryTypes'
    BY <1>a, <2>3 DEF Complete, escrowVars, keyVars, MemoryTypes
  <2>4. ASSUME NEW t \in Tasks, Settle(t) PROVE MemoryTypes'
    <3>1. Payee[t] \in Orgs /\ Amount[t] \in Nat BY EscrowAssumption DEF EscrowAssumption
    <3>2. balances' \in [Orgs -> Nat] /\ minted' = minted
      BY <1>a, <2>4, <3>1 DEF Settle, Release, Credit, escrowVars, MemoryTypes
    <3> QED BY <1>a, <2>4, <3>2 DEF Settle, keyVars, MemoryTypes
  <2>5. ASSUME NEW a \in Agents, Register(a) PROVE MemoryTypes'
    BY <1>a, <2>5 DEF Register, escrowVars, keyVars, MemoryTypes
  <2>6. ASSUME NEW k \in Keys, ChangeKey(k) PROVE MemoryTypes'
    BY <1>a, <2>6 DEF ChangeKey, SetKeys, escrowVars, registryVars, MemoryTypes
  <2> QED BY <1>2, <2>1, <2>2, <2>3, <2>4, <2>5, <2>6 DEF HubStep
<1>3. CASE SnapshotStep
  <2>1. CASE RestoreMemory
    BY <1>a, <1>b, <2>1 DEF RestoreMemory, escrowVars, keyVars, State, Applying, MemoryTypes
  <2>2. CASE ReplaceIdentities
    BY <1>a, <1>b, <2>2 DEF ReplaceIdentities, escrowVars, keyVars, State, Applying, MemoryTypes
  <2>3. CASE ReplaceTasks
    BY <1>1, <2>3 DEF ReplaceTasks, escrowVars, keyVars
  <2>4. CASE ImportKeys
    BY <1>a, <1>b, <2>4 DEF ImportKeys, escrowVars, registryVars, keyVars, State, Applying, MemoryTypes
  <2>5. CASE Finish
    BY <1>a, <1>b, <2>5 DEF Finish, ImportEscrow, registryVars, keyVars, State, Applying, MemoryTypes
  <2> QED
    BY <1>1, <1>3, <2>1, <2>2, <2>3, <2>4, <2>5
    DEF SnapshotStep, Create, Delete, RestoreRefused, Restore, WriteTmp, WriteFails, Rename,
        escrowVars, registryVars, keyVars
<1>4. CASE Tick
  BY <1>a, <1>4, SnapshotsAssumption DEF Tick, escrowVars, registryVars, keyVars, MemoryTypes
<1>5. CASE Crash BY <1>a, <1>5 DEF Crash, MemoryTypes
<1>6. CASE UNCHANGED vars BY <1>1, <1>6 DEF vars, escrowVars, registryVars, keyVars
<1> QED BY <1>2, <1>3, <1>4, <1>5, <1>6 DEF Next

LEMMA TypesNext == TypeInv /\ [Next]_vars => TypeInv'
BY FollowNext, MemoryTypesNext, FileTypesNext, LogTypesNext DEF TypeInv

(* The variables have their types: a file is a whole state or a torn one,  *)
(* what a restore puts back is one the hub has been in, and a table of the *)
(* audit log with holes is read back as a chain no longer than the log.    *)
THEOREM TypeCorrect == Spec => []TypeOK
<1>1. TypeInv /\ [Next]_vars => TypeInv' BY TypesNext
<1>2. TypeInv => TypeOK
  BY DEF TypeInv, FollowInv, MemoryTypes, FileTypes, LogTypes, TypeOK, EscrowTypeOK
<1> QED BY <1>1, <1>2, TypesInit, PTL DEF Spec

-----------------------------------------------------------------------------
(***************************************************************************)
(* The sum of the accounts and of the holds, which a restore replaces by   *)
(* that of another time: every document accounts for its own money.        *)
(***************************************************************************)
HeldIn(h) == {t \in Tasks : h[t] = "held"}

Balanced(s) == Total(s.balances, Orgs) + Total(Amount, HeldIn(s.holds)) = Total(s.minted, Orgs)

BalancedDocument(d) == d \in State => Balanced(d)

DocumentsBalance ==
  /\ \A n \in Names : BalancedDocument(files[n])
  /\ job.pc \in Writing =>
       BalancedDocument(job.doc) /\ (job.then # Idle => Balanced(job.then.state))
  /\ job.pc \in Applying => Balanced(job.state)

MoneyInv == MoneyConserved /\ DocumentsBalance

LEMMA TotalIsSum == ASSUME NEW f, NEW S PROVE Total(f, S) = SumOf(f, S)
BY DEF Total, SumOf

LEMMA CapturedBalances == MoneyConserved <=> Balanced(Captured)
BY DEF MoneyConserved, Balanced, Captured, Held, HeldIn

(* A hub that starts has no money and no hold.                             *)
LEMMA NoMoney ==
  ASSUME NEW b, b = [o \in Orgs |-> 0]
  PROVE  Total(b, Orgs) + Total(Amount, {}) = Total(b, Orgs)
<1>1. SumOf(b, Orgs) = 0 BY EscrowFinite, SumZero
<1>2. SumOf(Amount, {}) = 0 BY SumEmpty
<1> QED BY <1>1, <1>2, TotalIsSum

LEMMA EscrowSums ==
  ASSUME MemoryTypes
  PROVE  /\ IsFiniteSet(Orgs) /\ IsFiniteSet(Held)
         /\ Whole(balances, Orgs) /\ Whole(minted, Orgs)
         /\ Whole(Amount, Tasks) /\ Whole(Amount, Held)
         /\ SumOf(Amount, Held) \in Int
<1>1. Held \subseteq Tasks BY DEF Held
<1>2. IsFiniteSet(Orgs) /\ IsFiniteSet(Held) BY <1>1, EscrowFinite, FS_Subset
<1>3. Whole(Amount, Tasks) BY EscrowAssumption DEF EscrowAssumption, Whole
<1>4. Whole(Amount, Held) BY <1>1, <1>3 DEF Whole
<1>5. SumOf(Amount, Held) \in Int BY <1>2, <1>4, SumType
<1> QED BY <1>2, <1>3, <1>4, <1>5 DEF MemoryTypes, Whole

LEMMA WholeNext ==
  ASSUME MemoryTypes'
  PROVE  Whole(balances', Orgs) /\ Whole(minted', Orgs)
BY DEF MemoryTypes, Whole

LEMMA GrantBalances ==
  ASSUME MemoryTypes, MemoryTypes', MoneyConserved, NEW o \in Orgs, Grant(o, 1)
  PROVE  MoneyConserved'
<1>1. /\ balances' = [balances EXCEPT ![o] = @ + 1] /\ minted' = [minted EXCEPT ![o] = @ + 1]
      /\ Held' = Held
  BY DEF Grant, Credit, Held
<1>2. /\ balances'[o] - balances[o] = 1 /\ Alike(balances, balances', Orgs \ {o})
      /\ minted'[o] - minted[o] = 1 /\ Alike(minted, minted', Orgs \ {o})
  BY <1>1 DEF MemoryTypes, Alike
<1>3. /\ SumOf(balances', Orgs) = SumOf(balances, Orgs) + (balances'[o] - balances[o])
      /\ SumOf(balances, Orgs) \in Int
  BY <1>2, EscrowSums, WholeNext, SumChange
<1>4. /\ SumOf(minted', Orgs) = SumOf(minted, Orgs) + (minted'[o] - minted[o])
      /\ SumOf(minted, Orgs) \in Int
  BY <1>2, EscrowSums, WholeNext, SumChange
<1>5. SumOf(balances, Orgs) + SumOf(Amount, Held) = SumOf(minted, Orgs)
  BY TotalIsSum DEF MoneyConserved
<1>6. SumOf(balances', Orgs) + SumOf(Amount, Held') = SumOf(minted', Orgs)
  <2>1. SumOf(Amount, Held) \in Int BY EscrowSums
  <2> QED BY <1>1, <1>2, <1>3, <1>4, <1>5, <2>1
<1> QED BY <1>6, TotalIsSum DEF MoneyConserved

LEMMA HoldBalances ==
  ASSUME FollowInv, MemoryTypes, MemoryTypes', MoneyConserved, NEW t \in Tasks, CreateHold(t)
  PROVE  MoneyConserved'
<1> DEFINE p == Payer[t]
<1>1. t \notin Held /\ Held' = Held \union {t} /\ minted' = minted /\ p \in Orgs
  BY EscrowAssumption DEF EscrowAssumption, CreateHold, CanHold, Held, FollowInv
<1>2. balances' = [balances EXCEPT ![p] = @ - Amount[t]] BY DEF CreateHold
<1> HIDE DEF p
<1>3. balances'[p] = balances[p] - Amount[t] /\ Alike(balances, balances', Orgs \ {p})
  BY <1>1, <1>2 DEF MemoryTypes, Alike
<1>4. Whole(Amount, Held \union {t}) BY EscrowSums DEF Held, Whole
<1>5. SumOf(balances', Orgs) + SumOf(Amount, Held \union {t})
        = SumOf(balances, Orgs) + SumOf(Amount, Held)
  <2>1. IsFiniteSet(Orgs) /\ IsFiniteSet(Held) /\ Whole(balances, Orgs) BY EscrowSums
  <2>2. p \in Orgs /\ t \notin Held /\ Whole(balances', Orgs) BY <1>1, WholeNext
  <2> QED BY <1>3, <1>4, <2>1, <2>2, HoldTaken
<1> QED BY <1>1, <1>5, TotalIsSum DEF MoneyConserved

LEMMA ReleaseBalances ==
  ASSUME FollowInv, MemoryTypes, MemoryTypes', MoneyConserved, NEW t \in Tasks, Release(t)
  PROVE  MoneyConserved'
<1> DEFINE p == Payee[t]
<1>1. t \in Held /\ Held' = Held \ {t} /\ minted' = minted /\ p \in Orgs
  BY EscrowAssumption DEF EscrowAssumption, Release, Resolve, Held, FollowInv
<1>2. balances' = [balances EXCEPT ![p] = @ + Amount[t]] BY DEF Release, Credit
<1> HIDE DEF p
<1>3. balances'[p] = balances[p] + Amount[t] /\ Alike(balances, balances', Orgs \ {p})
  BY <1>1, <1>2 DEF MemoryTypes, Alike
<1>4. SumOf(balances', Orgs) + SumOf(Amount, Held \ {t})
        = SumOf(balances, Orgs) + SumOf(Amount, Held)
  <2>1. IsFiniteSet(Orgs) /\ IsFiniteSet(Held) /\ Whole(balances, Orgs) /\ Whole(Amount, Held)
    BY EscrowSums
  <2>2. p \in Orgs /\ t \in Held /\ Whole(balances', Orgs) BY <1>1, WholeNext
  <2> QED BY <1>3, <2>1, <2>2, HoldEnded
<1> QED BY <1>1, <1>4, TotalIsSum DEF MoneyConserved

(* In memory: the three operations of the escrow, the end of a restore,    *)
(* which puts a whole account in the place of another, and a restart.      *)
LEMMA MemoryBalances ==
  ASSUME TypeInv, TypeInv', MoneyInv, [Next]_vars
  PROVE  MoneyConserved'
<1> USE DEF TypeInv, MoneyInv
<1>1. ASSUME NEW o \in Orgs, GrantFunds(o) PROVE MoneyConserved'
  BY <1>1, GrantBalances DEF GrantFunds
<1>2. ASSUME NEW t \in Tasks, Submit(t) PROVE MoneyConserved'
  BY <1>2, HoldBalances DEF Submit
<1>3. CASE UNCHANGED escrowVars
  BY <1>3 DEF escrowVars, MoneyConserved, Held
<1>4. ASSUME NEW t \in Tasks, Settle(t) PROVE MoneyConserved'
  BY <1>3, <1>4, ReleaseBalances DEF Settle
<1>5. CASE Finish
  <2>1. Balanced(job.state) BY <1>5 DEF Finish, DocumentsBalance, Applying
  <2>2. /\ balances' = job.state.balances /\ minted' = job.state.minted
        /\ holds' = job.state.holds
    BY <1>5 DEF Finish, ImportEscrow
  <2> QED BY <2>1, <2>2 DEF Balanced, MoneyConserved, Held, HeldIn
<1>6. CASE Crash
  <2>1. balances' = [o \in Orgs |-> 0] /\ minted' = balances' /\ Held' = {}
    BY <1>6 DEF Crash, Held
  <2> QED BY <2>1, NoMoney DEF MoneyConserved
<1> QED
  BY <1>1, <1>2, <1>3, <1>4, <1>5, <1>6
  DEF Next, HubStep, SnapshotStep, Complete, Register, ChangeKey, SetKeys, Create, Delete,
      RestoreRefused, Restore, WriteTmp, WriteFails, Rename, RestoreMemory,
      ReplaceIdentities, ReplaceTasks, ImportKeys, Tick, vars

LEMMA DocumentsNext ==
  ASSUME TypeInv, MoneyInv, [Next]_vars
  PROVE  DocumentsBalance'
<1>a. JobForm /\ files = [n \in Names |-> files[n]] BY DEF TypeInv, FollowInv
<1>b. DocumentsBalance /\ Balanced(Captured) BY CapturedBalances DEF MoneyInv
<1>1. CASE UNCHANGED <<files, job>> BY <1>b, <1>1 DEF DocumentsBalance
<1>2. CASE job' = Idle /\ files' = files
  BY <1>b, <1>2 DEF DocumentsBalance, Idle, Writing, Applying
<1>3. ASSUME NEW n \in Given, Create(n) PROVE DocumentsBalance'
  <2> DEFINE doc == Captured
  <2>1. job' = [pc |-> "write", name |-> n, doc |-> doc, then |-> Idle] /\ files' = files
    BY <1>3 DEF Create
  <2> HIDE DEF doc
  <2>2. job'.pc = "write" /\ job'.doc = doc /\ job'.then = Idle BY <2>1
  <2> QED BY <1>b, <2>1, <2>2 DEF DocumentsBalance, BalancedDocument, Writing, Applying, doc
<1>4. ASSUME NEW n \in Names, Delete(n) PROVE DocumentsBalance'
  <2>1. job' = job /\ files' = [files EXCEPT ![n] = NoFile] BY <1>4 DEF Delete
  <2>2. BalancedDocument(NoFile) BY DocumentAssumption DEF BalancedDocument
  <2>3. \A m \in Names : files'[m] \in {files[m], NoFile} BY <1>a, <2>1
  <2> QED BY <1>b, <2>1, <2>2, <2>3 DEF DocumentsBalance
<1>5. ASSUME NEW n \in Names, NEW safe \in BOOLEAN, Restore(n, safe)
      PROVE  DocumentsBalance'
  <2>1. files' = files /\ files[n] \in State BY <1>5 DEF Restore
  <2> DEFINE s == files[n]
             doc == Captured
  <2>2. Balanced(s) BY <1>b, <2>1 DEF DocumentsBalance, BalancedDocument
  <2>3. CASE safe
    <3>1. job' = [pc |-> "write", name |-> SafetyName[now], doc |-> doc,
                  then |-> [pc |-> "memory", state |-> s,
                            undo |-> {[name |-> SafetyName[now], state |-> doc]}]]
      BY <1>5, <2>3 DEF Restore, SafetyFirst
    <3> HIDE DEF s, doc
    <3>2. job'.pc = "write" /\ job'.doc = doc /\ job'.then.state = s BY <3>1
    <3> QED
      BY <1>b, <2>1, <2>2, <3>2 DEF DocumentsBalance, BalancedDocument, Writing, Applying, doc
  <2>4. CASE ~safe
    <3>1. job' = [pc |-> "memory", state |-> s, undo |-> {}] BY <1>5, <2>4 DEF Restore
    <3> HIDE DEF s
    <3>2. job'.pc = "memory" /\ job'.state = s BY <3>1
    <3> QED BY <1>b, <2>1, <2>2, <3>2 DEF DocumentsBalance, Writing, Applying
  <2> QED BY <2>3, <2>4
<1>6. CASE WriteTmp
  <2>1. /\ job.pc = "write" /\ files' = files
        /\ \/ job' = [job EXCEPT !.pc = "rename"]
           \/ job' = [job EXCEPT !.pc = "rename", !.doc = Torn]
    BY <1>6 DEF WriteTmp
  <2>2. job = [pc |-> job.pc, name |-> job.name, doc |-> job.doc, then |-> job.then]
    BY <1>a, <2>1 DEF JobForm, Idle, Applying
  <2>3. job'.pc = "rename" /\ job'.doc \in {job.doc, Torn} /\ job'.then = job.then
    BY <2>1, <2>2
  <2>4. BalancedDocument(Torn) BY DocumentAssumption DEF BalancedDocument
  <2> QED BY <1>b, <2>1, <2>3, <2>4 DEF DocumentsBalance, Writing, Applying
<1>7. CASE Rename
  <2>1. /\ job.pc = "rename" /\ job' = job.then
        /\ files' = [files EXCEPT ![job.name] = job.doc]
    BY <1>7 DEF Rename
  <2>2. \A m \in Names : files'[m] \in {files[m], job.doc} BY <1>a, <2>1
  <2>3. job' = Idle \/ (job'.pc = "memory" /\ job'.state = job.then.state /\ job.then # Idle)
    BY <1>a, <2>1 DEF JobForm, Idle, Writing, Applying
  <2> QED BY <1>b, <2>1, <2>2, <2>3 DEF DocumentsBalance, Idle, Writing, Applying
<1>8. CASE RestoreMemory \/ ReplaceIdentities \/ ReplaceTasks \/ ImportKeys \/ Finish
  <2>1. /\ job.pc \in Applying /\ files' = files
        /\ \/ job' = Idle
           \/ \E p \in Applying : job' = [job EXCEPT !.pc = p]
    BY <1>8 DEF RestoreMemory, ReplaceIdentities, ReplaceTasks, ImportKeys, Finish, Applying
  <2>2. job = [pc |-> job.pc, state |-> job.state, undo |-> job.undo]
    BY <1>a, <2>1 DEF JobForm, Idle, Applying, Writing
  <2>3. job' = Idle \/ (job'.pc \in Applying /\ job'.state = job.state) BY <2>1, <2>2
  <2> QED BY <1>2, <1>b, <2>1, <2>3 DEF DocumentsBalance, Writing, Applying
<1>9. CASE WriteFails \/ Crash BY <1>2, <1>9 DEF WriteFails, Crash
<1>10. CASE HubStep
  BY <1>1, <1>10
  DEF HubStep, GrantFunds, Submit, Complete, Settle, Register, ChangeKey, SetKeys
<1>11. CASE Tick \/ UNCHANGED vars BY <1>1, <1>11 DEF Tick, vars
<1>12. ASSUME NEW n \in Names, RestoreRefused(n) PROVE DocumentsBalance'
  BY <1>1, <1>12 DEF RestoreRefused
<1> QED
  BY <1>3, <1>4, <1>5, <1>6, <1>7, <1>8, <1>9, <1>10, <1>11, <1>12 DEF Next, SnapshotStep

(* A restore that fails, stops or is cut by a crash at any of its steps,   *)
(* and one that succeeds, leave every unit of money in one account or one  *)
(* hold (import_state, escrow.py; apply_state, snapshot.py): what is put   *)
(* back explains its own money, whichever snapshot it is.                  *)
THEOREM MoneyIsConserved == Spec => []MoneyConserved
<1>1. Init => MoneyInv
  <2> SUFFICES ASSUME Init PROVE MoneyInv OBVIOUS
  <2>1. balances = [o \in Orgs |-> 0] /\ minted = balances /\ Held = {}
    BY DEF Init, EscrowInit, Held
  <2>2. MoneyConserved BY <2>1, NoMoney DEF MoneyConserved
  <2>3. job = Idle /\ files = [n \in Names |-> NoFile] BY DEF Init
  <2>4. DocumentsBalance
    BY <2>3, DocumentAssumption
    DEF DocumentsBalance, BalancedDocument, Idle, Writing, Applying
  <2> QED BY <2>2, <2>4 DEF MoneyInv
<1>2. TypeInv /\ TypeInv' /\ MoneyInv /\ [Next]_vars => MoneyInv'
  BY MemoryBalances, DocumentsNext DEF MoneyInv
<1>3. TypeInv /\ [Next]_vars => TypeInv' BY TypesNext
<1>4. MoneyInv => MoneyConserved BY DEF MoneyInv
<1> QED BY <1>1, <1>2, <1>3, <1>4, TypesInit, PTL DEF Spec
=============================================================================
