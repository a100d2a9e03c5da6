----------------------------- MODULE Assurance -----------------------------
(***************************************************************************)
(* The assurance proxy: handler threads of a ThreadingHTTPServer           *)
(* (assurance/proxy.py), the approval store and its file                   *)
(* (assurance/approval.py), the evidence journal and its file, and the     *)
(* separate process "intermesh approve" (cli.py).                          *)
(*                                                                         *)
(* A handler thread is split where it gives way: at the two locks, at the  *)
(* upstream call, and at each of the two file operations of a save         *)
(* (write the temporary file, rename it).  A request signs at most one     *)
(* record, so the number of the request names its record: it stands for    *)
(* the record's action_id and, the hash being injective, for its hash.     *)
(***************************************************************************)
EXTENDS Policy, FiniteSets

CONSTANTS
  Workers,      \* handler threads that may be busy at the same time
  Tunnels,      \* the members of Actions that are CONNECT requests
  Granters,     \* threads of the embedding program that grant in process
  CliWhileUp,   \* whether "intermesh approve" may run beside a live proxy
  CutWrites,    \* whether the end of the process may cut a write short
  DiskFaults,   \* whether the disk may refuse a write, or a part of it
  TTL,          \* life of an approval, in ticks of the clock
  MaxRequests,  \* bound: requests received in a behaviour
  MaxGrants,    \* bound: approvals granted in a behaviour
  MaxCrashes,   \* bound: stops of the proxy process
  MaxTime,      \* bound: ticks of the clock
  Free,         \* a lock nobody holds
  NoApproval,   \* dict.get(...) is None
  NoFile,       \* the temporary file does not exist
  Torn          \* a line of the journal that is not JSON

Actors == Workers \cup Granters

ASSUME AssuranceAssumption ==
  /\ Actions # {}
  /\ Tunnels \subseteq Actions
  /\ {CliWhileUp, CutWrites, DiskFaults} \subseteq BOOLEAN
  /\ TTL \in Nat /\ MaxRequests \in Nat /\ MaxGrants \in Nat
  /\ MaxCrashes \in Nat /\ MaxTime \in Nat
  /\ Free \notin Actors
  /\ Workers \cap Granters = {}

VARIABLES
  up,             \* the proxy process runs
  pc,             \* where each thread of the process is
  req,            \* what each handler thread holds in its local variables
  requests,       \* requests received so far
  approvals,      \* ApprovalStore._approvals of the proxy process
  approvalsLock,  \* ApprovalStore._lock of the proxy process
  approvalsFile,  \* the approvals file
  approvalsTmp,   \* its temporary companion, path + ".tmp"
  cli,            \* the "intermesh approve" process
  last_hash,      \* EvidenceStore._last_hash
  journalLock,    \* EvidenceStore._lock
  journal,        \* the lines of the evidence file
  tailOpen,       \* its last line has no newline yet
  now,            \* now_ms()
  crashes,        \* stops of the proxy so far
  granted,        \* history: number of grants of each approval
  performed,      \* history: what reached the upstream service
  completed,      \* history: requests whose append to the journal returned
  answered        \* history: requests whose agent got an answer

proc     == <<up, pc, req, requests>>
store    == <<approvals, approvalsLock>>
files    == <<approvalsFile, approvalsTmp>>
evidence == <<last_hash, journalLock, journal, tailOpen>>
history  == <<granted, performed, completed, answered>>
vars     == <<proc, store, files, cli, evidence, now, crashes, history>>

GENESIS == 0
NoToken == 0
Ids     == 1..MaxRequests   \* action_id of a record, named by its request

Statuses == {"blocked", "pending_approval", "approval_rejected",
             "executed", "failed", "tunnelled"}

Approval == [action : Actions, expires_at : Nat, spent : BOOLEAN]
Store    == [Ids -> Approval \cup {NoApproval}]
Record   == [id : Ids, prev_hash : {GENESIS} \cup Ids, action : Actions,
             status : Statuses, approval_id : {NoToken} \cup Ids]
Request  == [n : {0} \cup Ids, action : Actions, token : {NoToken} \cup Ids,
             status : Statuses, approval_id : {NoToken} \cup Ids,
             prev_hash : {GENESIS} \cup Ids]

Line == Record \cup {Torn}

ASSUME TornIsNoRecord == Torn \notin Record

ASSUME NoFileIsNoStore == NoFile \notin Store

Labels == {"idle", "consume", "save", "rename", "send", "sign", "write", "answer"}

NoGrants == [i \in Ids |-> NoApproval]

Risky(a) == RequiresEvidence(Evaluate(a).risk)

(* The lines of the journal that parse. *)
WholeLines == {i \in DOMAIN journal : journal[i] # Torn}

OnFile == {journal[i] : i \in WholeLines}

PendingOnFile(id, a) ==
  \E r \in OnFile : r.id = id /\ r.action = a /\ r.status = "pending_approval"

(* The local variables of a thread that handles nothing. *)
NoRequest ==
  [n |-> 0, action |-> CHOOSE a \in Actions : TRUE, token |-> NoToken,
   status |-> "blocked", approval_id |-> NoToken, prev_hash |-> GENESIS]

(* The thread ends: its answer is sent, or an exception unwinds it. *)
End(w) ==
  /\ pc' = [pc EXCEPT ![w] = "idle"]
  /\ req' = [r \in Workers |-> IF r = w THEN NoRequest ELSE req[r]]

Goto(w, label) == pc' = [pc EXCEPT ![w] = label]

-----------------------------------------------------------------------------
(***************************************************************************)
(* ApprovalStore: grant, consume, and the two halves of _save.             *)
(***************************************************************************)

(* Approval(...) as grant builds it: unused, with a fresh deadline. *)
Fresh(a) == [action |-> a, expires_at |-> now + TTL, spent |-> FALSE]

UsableForAnyAction(s, id, a) ==
  s[id] # NoApproval /\ ~s[id].spent /\ now <= s[id].expires_at

(* consume: the approval exists, is not spent, is not expired, and names   *)
(* this very method and target.                                            *)
Usable(s, id, a) ==
  /\ s[id] # NoApproval
  /\ ~s[id].spent
  /\ now <= s[id].expires_at
  /\ s[id].action = a

SpendNothing(s, id) == s

SpendByRemoval(s, id) == [i \in DOMAIN s \ {id} |-> s[i]]

Spend(s, id) == [s EXCEPT ![id].spent = TRUE]

Consume(w) ==
  /\ pc[w] = "consume" /\ approvalsLock = Free
  /\ IF Usable(approvals, req[w].token, req[w].action)
     THEN /\ approvals' = Spend(approvals, req[w].token)
          /\ approvalsLock' = w
          /\ req' = [req EXCEPT ![w].approval_id = req[w].token]
          /\ Goto(w, "save")
     ELSE /\ req' = [req EXCEPT ![w].status = "approval_rejected"]
          /\ Goto(w, "sign")
          /\ UNCHANGED store
  /\ UNCHANGED <<up, requests, files, cli, evidence, now, crashes, history>>

(* store.grant called inside the proxy process, as the demo and the tests  *)
(* do after reading a pending record.                                      *)
GrantInProcess(g, id, a) ==
  /\ up /\ pc[g] = "idle" /\ approvalsLock = Free
  /\ granted[id] < MaxGrants
  /\ PendingOnFile(id, a)
  /\ approvals' = [approvals EXCEPT ![id] = Fresh(a)]
  /\ approvalsLock' = g
  /\ granted' = [granted EXCEPT ![id] = @ + 1]
  /\ Goto(g, "save")
  /\ UNCHANGED <<up, req, requests, files, cli, evidence, now, crashes,
                 performed, completed, answered>>

LockLeakedByException(x) == IF pc[x] = "save" THEN x ELSE Free

(* The "with" statement of consume and grant, left normally or not. *)
LockAfterSave(x) == Free

(* _save, first half: temp.write_text(...).  When the disk refuses it, the *)
(* exception ends the thread, whose "with self._lock" frees the lock: the  *)
(* approval stays burned in memory.                                        *)
WriteTmp(x) ==
  /\ pc[x] = "save"
  /\ \/ /\ approvalsTmp' = approvals /\ Goto(x, "rename")
        /\ UNCHANGED <<approvalsLock, req>>
     \/ /\ DiskFaults
        /\ approvalsLock' = LockAfterSave(x) /\ End(x)
        /\ UNCHANGED approvalsTmp
  /\ UNCHANGED <<up, requests, approvals, approvalsFile, cli, evidence, now,
                 crashes, history>>

(* _save, second half: temp.replace(path).  Another process that saved in  *)
(* between has renamed the shared temporary file away: FileNotFoundError.  *)
Rename(x) ==
  /\ pc[x] = "rename"
  /\ approvalsLock' = LockAfterSave(x) /\ approvalsTmp' = NoFile
  /\ approvalsFile' = IF approvalsTmp = NoFile THEN approvalsFile ELSE approvalsTmp
  /\ IF approvalsTmp # NoFile /\ x \in Workers
     THEN Goto(x, "send") /\ UNCHANGED req
     ELSE End(x)
  /\ UNCHANGED <<up, requests, approvals, cli, evidence, now, crashes, history>>

-----------------------------------------------------------------------------
(***************************************************************************)
(* "intermesh approve": a process of its own, with its own ApprovalStore.  *)
(***************************************************************************)

NoCommand == [pc |-> "idle", id |-> 0, action |-> CHOOSE a \in Actions : TRUE,
              store |-> NoGrants]

(* run_approve reads the journal, insists on a pending record, and loads   *)
(* the approvals file as it is at that moment.                             *)
CliLoad(id, a) ==
  /\ cli.pc = "idle"
  /\ up => CliWhileUp
  /\ granted[id] < MaxGrants
  /\ PendingOnFile(id, a)
  /\ cli' = [pc |-> "grant", id |-> id, action |-> a, store |-> approvalsFile]
  /\ UNCHANGED <<proc, store, files, evidence, now, crashes, history>>

(* grant, and the write of the temporary file.                             *)
CliGrant ==
  /\ cli.pc = "grant"
  /\ LET s == [cli.store EXCEPT ![cli.id] = Fresh(cli.action)]
     IN  cli' = [cli EXCEPT !.pc = "rename", !.store = s] /\ approvalsTmp' = s
  /\ granted' = [granted EXCEPT ![cli.id] = @ + 1]
  /\ UNCHANGED <<proc, store, approvalsFile, evidence, now, crashes,
                 performed, completed, answered>>

(* The rename; without a temporary file the command dies on the exception. *)
CliRename ==
  /\ cli.pc = "rename"
  /\ cli' = NoCommand
  /\ approvalsTmp' = NoFile
  /\ approvalsFile' = IF approvalsTmp = NoFile THEN approvalsFile ELSE approvalsTmp
  /\ UNCHANGED <<proc, store, evidence, now, crashes, history>>

-----------------------------------------------------------------------------
(***************************************************************************)
(* The handler threads.                                                    *)
(***************************************************************************)

(* The first part of _handle and of do_CONNECT: the policy decides.  A     *)
(* tunnel cannot present an approval: do_CONNECT never reads the header.   *)
Decide(a, token) ==
  CASE Evaluate(a).decision = "block" -> [status |-> "blocked", next |-> "sign"]
    [] Evaluate(a).decision = "approval" /\ (token = NoToken \/ a \in Tunnels) ->
         [status |-> "pending_approval", next |-> "sign"]
    [] Evaluate(a).decision = "approval" /\ token # NoToken /\ a \notin Tunnels ->
         [status |-> "pending_approval", next |-> "consume"]
    [] OTHER -> [status |-> "executed", next |-> "send"]

Receive(w, a, token) ==
  /\ up /\ pc[w] = "idle" /\ requests < MaxRequests
  /\ requests' = requests + 1
  /\ req' = [req EXCEPT ![w] =
              [n |-> requests + 1, action |-> a, token |-> token,
               status |-> Decide(a, token).status, approval_id |-> NoToken,
               prev_hash |-> GENESIS]]
  /\ Goto(w, Decide(a, token).next)
  /\ UNCHANGED <<up, store, files, cli, evidence, now, crashes, history>>

Performance(w) == [n |-> req[w].n, action |-> req[w].action,
                   approval_id |-> req[w].approval_id]

AnswerAtOnce(w) == "answer"

(* Below the evidence threshold the answer follows at once. *)
AfterSend(w) == IF Risky(req[w].action) THEN "sign" ELSE "answer"

(* _send_upstream returned, or socket.create_connection did.               *)
SendDone(w) ==
  /\ pc[w] = "send"
  /\ performed' = performed \cup {Performance(w)}
  /\ req' = [req EXCEPT ![w].status =
              IF req[w].action \in Tunnels THEN "tunnelled" ELSE "executed"]
  /\ Goto(w, AfterSend(w))
  /\ UNCHANGED <<up, requests, store, files, cli, evidence, now, crashes,
                 granted, completed, answered>>

(* The upstream call raised.  An HTTP request may have reached the service *)
(* all the same (a reset or a timeout after it was read); the failure is   *)
(* recorded whatever the risk.  A tunnel that cannot be opened is answered *)
(* 502 without a record.                                                   *)
SendFailed(w) ==
  /\ pc[w] = "send"
  /\ \/ UNCHANGED performed
     \/ /\ req[w].action \notin Tunnels
        /\ performed' = performed \cup {Performance(w)}
  /\ req' = [req EXCEPT ![w].status = "failed"]
  /\ Goto(w, IF req[w].action \in Tunnels THEN "answer" ELSE "sign")
  /\ UNCHANGED <<up, requests, store, files, cli, evidence, now, crashes,
                 granted, completed, answered>>

-----------------------------------------------------------------------------
(***************************************************************************)
(* EvidenceStore.append, under its lock: chain and sign, then write.       *)
(***************************************************************************)

LockIgnored == TRUE

(* with self._lock: reading last_hash, signing and writing are one section. *)
MaySign == journalLock = Free

Sign(w) ==
  /\ pc[w] = "sign" /\ MaySign
  /\ journalLock' = w
  /\ req' = [req EXCEPT ![w].prev_hash = last_hash]
  /\ last_hash' = req[w].n
  /\ Goto(w, "write")
  /\ UNCHANGED <<up, requests, store, files, cli, journal, tailOpen, now, crashes,
                 history>>

RecordOf(w) ==
  [id |-> req[w].n, prev_hash |-> req[w].prev_hash, action |-> req[w].action,
   status |-> req[w].status, approval_id |-> req[w].approval_id]

Overwritten(line) == <<line>>

(* Text appended to a file whose last line has no newline joins that line, *)
(* and two JSON objects on one line are not JSON.                          *)
Appended(line) ==
  IF tailOpen THEN [journal EXCEPT ![Len(journal)] = Torn]
              ELSE Append(journal, line)

WriteRecord(w) ==
  /\ pc[w] = "write"
  /\ journal' = Appended(RecordOf(w)) /\ tailOpen' = FALSE
  /\ journalLock' = Free
  /\ completed' = completed \cup {req[w].n}
  /\ Goto(w, "answer")
  /\ UNCHANGED <<up, req, requests, store, files, cli, last_hash, now, crashes,
                 granted, performed, answered>>

(* The disk refuses the write, or takes only a part of it: the exception   *)
(* ends the thread after last_hash has moved on.                           *)
WriteRefused(w) ==
  /\ DiskFaults /\ pc[w] = "write"
  /\ \/ UNCHANGED <<journal, tailOpen>>
     \/ journal' = Appended(Torn) /\ tailOpen' = TRUE
  /\ journalLock' = Free
  /\ End(w)
  /\ UNCHANGED <<up, requests, store, files, cli, last_hash, now, crashes,
                 history>>

(* _refusal, _json or the final _respond of _forward. *)
Answer(w) ==
  /\ pc[w] = "answer"
  /\ answered' = answered \cup {req[w].n}
  /\ End(w)
  /\ UNCHANGED <<up, requests, store, files, cli, evidence, now, crashes,
                 granted, performed, completed>>

-----------------------------------------------------------------------------
(***************************************************************************)
(* The process stops (its threads are daemons) and starts again.           *)
(***************************************************************************)

(* What the write in progress may leave: nothing or, when it can be cut, a *)
(* part of the line, or the line without its newline.                      *)
LeftBehind ==
  \/ UNCHANGED <<journal, tailOpen>>
  \/ /\ CutWrites
     /\ \E w \in Workers :
          /\ pc[w] = "write"
          /\ journal' = Appended(Torn) \/ journal' = Appended(RecordOf(w))
     /\ tailOpen' = TRUE

Stop ==
  /\ up /\ crashes < MaxCrashes
  /\ up' = FALSE /\ crashes' = crashes + 1
  /\ pc' = [x \in Actors |-> "idle"] /\ req' = [w \in Workers |-> NoRequest]
  /\ approvals' = NoGrants /\ approvalsLock' = Free
  /\ last_hash' = GENESIS /\ journalLock' = Free
  /\ LeftBehind
  /\ UNCHANGED <<requests, files, cli, now, history>>

(* _resume: the hash of the last line that parses. *)
LastHashOnFile ==
  LET last == {i \in WholeLines : \A j \in WholeLines : j <= i}
  IN  IF last = {} THEN GENESIS ELSE journal[CHOOSE i \in last : TRUE].id

EmptyStore == NoGrants

(* ApprovalStore.__init__ reads its file. *)
StoreOnFile == approvalsFile

(* run_proxy: both stores are loaded once, at start.                       *)
Start ==
  /\ ~up
  /\ cli.pc = "idle" \/ CliWhileUp
  /\ up' = TRUE
  /\ approvals' = StoreOnFile
  /\ last_hash' = LastHashOnFile
  /\ UNCHANGED <<pc, req, requests, approvalsLock, files, cli, journalLock, journal,
                 tailOpen, now, crashes, history>>

Tick ==
  /\ now < MaxTime
  /\ now' = now + 1
  /\ UNCHANGED <<proc, store, files, cli, evidence, crashes, history>>

-----------------------------------------------------------------------------
Init ==
  /\ up = TRUE
  /\ pc = [x \in Actors |-> "idle"]
  /\ req = [w \in Workers |-> NoRequest]
  /\ requests = 0
  /\ approvals = NoGrants /\ approvalsLock = Free
  /\ approvalsFile = NoGrants /\ approvalsTmp = NoFile
  /\ cli = NoCommand
  /\ last_hash = GENESIS /\ journalLock = Free
  /\ journal = << >> /\ tailOpen = FALSE
  /\ now = 0 /\ crashes = 0
  /\ granted = [i \in Ids |-> 0]
  /\ performed = {} /\ completed = {} /\ answered = {}

WorkerStep(w) ==
  \/ Consume(w) \/ SendDone(w) \/ SendFailed(w)
  \/ Sign(w) \/ WriteRecord(w) \/ WriteRefused(w) \/ Answer(w)

Save(x) == WriteTmp(x) \/ Rename(x)

Next ==
  \/ \E w \in Workers : WorkerStep(w)
  \/ \E w \in Workers, a \in Actions, token \in {NoToken} \cup Ids : Receive(w, a, token)
  \/ \E g \in Granters, id \in Ids, a \in Actions : GrantInProcess(g, id, a)
  \/ \E x \in Actors : Save(x)
  \/ \E id \in Ids, a \in Actions : CliLoad(id, a)
  \/ CliGrant \/ CliRename
  \/ Stop \/ Start \/ Tick

Spec == Init /\ [][Next]_vars

-----------------------------------------------------------------------------
(***************************************************************************)
(* Properties.                                                             *)
(***************************************************************************)

(* The values each variable takes; the store held by the approve command   *)
(* is a copy of the file, and the lock is held by a thread of the process. *)
TypeOK ==
  /\ up \in BOOLEAN
  /\ pc \in [Actors -> Labels]
  /\ req \in [Workers -> Request]
  /\ requests \in 0..MaxRequests
  /\ approvals \in Store /\ approvalsLock \in Actors \cup {Free}
  /\ approvalsFile \in Store /\ approvalsTmp \in Store \cup {NoFile}
  /\ cli \in [pc : {"idle", "grant", "rename"}, id : {0} \cup Ids,
              action : Actions, store : Store]
  /\ cli.pc # "idle" => cli.id \in Ids
  /\ last_hash \in {GENESIS} \cup Ids /\ journalLock \in Workers \cup {Free}
  /\ journal \in Seq(Line) /\ tailOpen \in BOOLEAN
  /\ now \in Nat /\ crashes \in Nat
  /\ granted \in [Ids -> Nat]
  /\ performed \subseteq [n : Ids, action : Actions, approval_id : {NoToken} \cup Ids]
  /\ completed \subseteq Ids /\ answered \subseteq Ids

(* Allowed, or approved for a pending record of the same action. *)
Authorised(a, id) ==
  \/ Evaluate(a).decision = "allow"
  \/ /\ Evaluate(a).decision = "approval"
     /\ id \in Ids /\ granted[id] > 0 /\ PendingOnFile(id, a)

(* What reaches the upstream service was allowed by the policy, or carries *)
(* an approval granted for a pending record of that very action: a blocked *)
(* action never leaves, and an approval is worth nothing for another one,  *)
(* whatever the threads, the restarts and the approve command do.          *)
PerformedIsAuthorised ==
  \A p \in performed : Authorised(p.action, p.approval_id)

UsesOf(id) == {p \in performed : p.approval_id = id}

(* "Une approbation ne sert qu'une fois": across threads presenting the    *)
(* same token, crashes between the burn and the send, and restarts, an     *)
(* approval lets through at most one request per time it was granted.      *)
ApprovalUsedOnce == \A id \in Ids : Cardinality(UsesOf(id)) <= granted[id]

(* A grant that is on file, unspent, unexpired and for the action the      *)
(* agent replays is honoured: the proxy does not answer that the action    *)
(* was never approved.                                                     *)
GrantIsHonoured ==
  [][\A w \in Workers :
       /\ pc[w] = "consume" /\ pc'[w] = "sign"
       => ~Usable(approvalsFile, req[w].token, req[w].action)]_vars

Chained(j) ==
  \A i \in DOMAIN j : j[i].prev_hash = (IF i = 1 THEN GENESIS ELSE j[i - 1].id)

(* Without disk faults the journal is one chain from GENESIS, whatever the *)
(* interleaving of the handler threads and wherever the process stops: a   *)
(* thread never signs over a hash another thread has already used.         *)
JournalIsChained ==
  WholeLines = DOMAIN journal /\ Chained(journal)

(* run_verify: every line must parse, and two or more are checked as a     *)
(* chain (a single record is checked alone, without its prev_hash).        *)
JournalVerifies ==
  /\ WholeLines = DOMAIN journal
  /\ Len(journal) > 1 => Chained(journal)

Recorded(n) == \E r \in OnFile : r.id = n

(* Even when writes are cut or refused, a journal that verifies is         *)
(* complete: every append that returned to its thread is one of its lines. *)
VerifiedMeansComplete ==
  JournalVerifies => \A n \in completed : Recorded(n)

(* "Seule la derniere ligne est perdue": a cut write costs the line being  *)
(* written, and no line whose append returned.                             *)
OnlyLastLineLost == \A n \in completed : Recorded(n)

(* An agent that got its answer to an action above the evidence threshold  *)
(* that reached the service can be shown the record: the answer follows    *)
(* the write, and no restart takes the record away.                        *)
AnsweredIsEvidenced ==
  \A p \in performed :
    p.n \in answered /\ Risky(p.action) =>
      \E r \in OnFile : /\ r.id = p.n /\ r.action = p.action
                         /\ r.approval_id = p.approval_id
                         /\ r.status \in {"executed", "tunnelled", "failed"}

-----------------------------------------------------------------------------
(***************************************************************************)
(* The inductive invariants behind the safety properties.                  *)
(***************************************************************************)

(* A busy thread has a request number, a thread that consumes has a token. *)
ThreadsInv ==
  \A w \in Workers :
    /\ pc[w] # "idle" => req[w].n \in Ids
    /\ pc[w] = "consume" => req[w].token \in Ids

TypeInv ==
  /\ TypeOK
  /\ ThreadsInv
  /\ tailOpen => journal # << >>

LastRecord == IF journal = << >> THEN GENESIS ELSE journal[Len(journal)].id

(* last_hash is the hash of the last line, or the hash of the one record   *)
(* signed over that line and not written yet, by the holder of the lock.   *)
ChainInv ==
  /\ ~tailOpen
  /\ \A i \in DOMAIN journal : journal[i] \in Record
  /\ Chained(journal)
  /\ \A w \in Workers : pc[w] = "write" => journalLock = w
  /\ journalLock # Free => /\ pc[journalLock] = "write"
                           /\ last_hash = req[journalLock].n
                           /\ req[journalLock].prev_hash = LastRecord
  /\ up /\ journalLock = Free => last_hash = LastRecord
  /\ ~up => \A x \in Actors : pc[x] = "idle"

(* Every approval of a copy of the store was granted for a pending record. *)
Backed(s) ==
  \A id \in Ids :
    s[id] # NoApproval => granted[id] > 0 /\ PendingOnFile(id, s[id].action)

AuthInv ==
  /\ Backed(approvals) /\ Backed(approvalsFile) /\ Backed(cli.store)
  /\ approvalsTmp # NoFile => Backed(approvalsTmp)
  /\ cli.pc # "idle" => PendingOnFile(cli.id, cli.action)
  /\ \A w \in Workers :
       /\ pc[w] = "consume" => Evaluate(req[w].action).decision = "approval"
       /\ pc[w] \in {"save", "rename", "send"} =>
            Authorised(req[w].action, req[w].approval_id)
  /\ PerformedIsAuthorised

(* Every thread the process runs is scheduled; locks are eventually given  *)
(* to a thread that keeps asking (threading.Lock is not strictly fair, and *)
(* the number of competitors is bounded here).                             *)
FairSpec ==
  /\ Spec
  /\ \A w \in Workers : WF_vars(WorkerStep(w) \/ Save(w))
  /\ \A g \in Granters : WF_vars(Save(g))

(* A request taken up by a thread comes to an end: answered, or cut short  *)
(* by an exception or by the end of the process.  No path through consume, *)
(* _save and append leaves a lock taken.                                   *)
EveryRequestEnds == \A w \in Workers : pc[w] # "idle" ~> pc[w] = "idle"
=============================================================================
