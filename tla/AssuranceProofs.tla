-------------------------- MODULE AssuranceProofs --------------------------
(***************************************************************************)
(* Theorems about the assurance proxy, for every policy, every number of   *)
(* threads and every bound.                                                *)
(***************************************************************************)
EXTENDS Assurance, SequenceTheorems, FiniteSetTheorems, TLAPS

(* The policy always gives a decision and a risk level it knows. *)
LEMMA EvaluateType ==
  ASSUME NEW a \in Actions
  PROVE  Evaluate(a) \in [decision : Decisions, risk : RiskLevel]
<1>1. CASE FirstMatch(a) = {}
  BY <1>1, PolicyAssumption DEF Evaluate, Decisions, RiskLevel
<1>2. CASE FirstMatch(a) # {}
  <2>1. FirstMatch(a) \subseteq DOMAIN Rules
    BY DEF FirstMatch, Matching
  <2>2. PICK i \in DOMAIN Rules : Evaluate(a) = [decision |-> Rules[i].decision,
                                                 risk |-> Rules[i].risk]
    BY <1>2, <2>1 DEF Evaluate
  <2>3. Rules[i] \in Rule
    BY <2>2, PolicyAssumption, ElementOfSeq
  <2> QED BY <2>2, <2>3 DEF Rule
<1> QED BY <1>1, <1>2

(* What handle decides about a request is a status and a place to go on.   *)
LEMMA DecideType ==
  ASSUME NEW a \in Actions, NEW token
  PROVE  /\ Decide(a, token).status \in Statuses
         /\ Decide(a, token).next \in Labels \ {"idle"}
         /\ Decide(a, token).next = "consume" => token # NoToken
BY DEF Decide, Statuses, Labels

(* Adding a line, or joining it to an open one, leaves a journal of lines. *)
LEMMA AppendedType ==
  ASSUME journal \in Seq(Line), tailOpen \in BOOLEAN,
         tailOpen => journal # << >>, NEW line \in Line
  PROVE  Appended(line) \in Seq(Line) /\ Appended(line) # << >>
<1>1. CASE tailOpen
  <2>1. Len(journal) \in 1..Len(journal) BY <1>1
  <2>2. Torn \in Line BY DEF Line
  <2>3. [journal EXCEPT ![Len(journal)] = Torn] \in Seq(Line)
    BY <2>1, <2>2, ExceptSeq
  <2>4. Len([journal EXCEPT ![Len(journal)] = Torn]) = Len(journal)
    BY <2>1, <2>2, ExceptSeq
  <2> QED BY <1>1, <2>1, <2>3, <2>4 DEF Appended
<1>2. CASE ~tailOpen
  BY <1>2, AppendProperties DEF Appended
<1> QED BY <1>1, <1>2

LEMMA RecordOfType ==
  ASSUME TypeInv, NEW w \in Workers, pc[w] # "idle"
  PROVE  RecordOf(w) \in Record /\ RecordOf(w) \in Line
BY DEF TypeInv, TypeOK, ThreadsInv, RecordOf, Record, Request, Line

LEMMA NoRequestType == NoRequest \in Request
BY AssuranceAssumption DEF NoRequest, Request, Statuses, GENESIS, NoToken

(* The fields a thread fills in keep its request a request. *)
LEMMA RequestUpdate ==
  ASSUME NEW r \in Request
  PROVE  /\ \A s \in Statuses : [r EXCEPT !.status = s] \in Request
         /\ \A s \in Statuses : [r EXCEPT !.status = s].token = r.token
         /\ \A h : [r EXCEPT !.prev_hash = h].token = r.token
         /\ \A id \in Ids : [r EXCEPT !.approval_id = id] \in Request
         /\ \A h \in {GENESIS} \cup Ids : [r EXCEPT !.prev_hash = h] \in Request
         /\ \A s : [r EXCEPT !.status = s].n = r.n
         /\ \A id : [r EXCEPT !.approval_id = id].n = r.n
         /\ \A h : [r EXCEPT !.prev_hash = h].n = r.n
BY DEF Request

(* A usable approval is for a known id, and spending it keeps the store.   *)
LEMMA SpendType ==
  ASSUME NEW s \in Store, NEW id \in Ids, NEW a, Usable(s, id, a)
  PROVE  Spend(s, id) \in Store
<1>1. s[id] \in Approval BY DEF Usable, Store
<1>2. [s[id] EXCEPT !.spent = TRUE] \in Approval BY <1>1 DEF Approval
<1> QED BY <1>2 DEF Spend, Store

LEMMA NoGrantsType == NoGrants \in Store
BY DEF NoGrants, Store

(* The hash found by _resume is one of the journal's. *)
LEMMA LastHashType ==
  ASSUME journal \in Seq(Line)
  PROVE  LastHashOnFile \in {GENESIS} \cup Ids
<1> DEFINE last == {i \in WholeLines : \A j \in WholeLines : j <= i}
<1>1. CASE last = {} BY <1>1 DEF LastHashOnFile
<1>2. CASE last # {}
  <2>1. PICK i \in last : LastHashOnFile = journal[i].id
    BY <1>2 DEF LastHashOnFile
  <2>2. i \in DOMAIN journal /\ journal[i] # Torn
    BY <2>1 DEF WholeLines
  <2>3. journal[i] \in Line BY <2>2, ElementOfSeq
  <2> QED BY <2>1, <2>2, <2>3 DEF Line, Record
<1> QED BY <1>1, <1>2

-----------------------------------------------------------------------------
LEMMA TypeInit == Init => TypeInv
<1> SUFFICES ASSUME Init PROVE TypeInv OBVIOUS
<1>1. journal \in Seq(Line) BY EmptySeq DEF Init
<1>2. cli \in [pc : {"idle", "grant", "rename"}, id : {0} \cup Ids,
               action : Actions, store : Store]
  BY NoGrantsType, AssuranceAssumption DEF Init, NoCommand
<1>3. pc \in [Actors -> Labels] /\ req \in [Workers -> Request]
  BY NoRequestType DEF Init, Labels
<1>4. approvals \in Store /\ approvalsFile \in Store /\ approvalsTmp \in Store \cup {NoFile}
  BY NoGrantsType DEF Init
<1>5. granted \in [Ids -> Nat] BY DEF Init
<1>6. requests \in 0..MaxRequests /\ cli.pc = "idle"
  BY AssuranceAssumption DEF Init, NoCommand
<1>7. \A w \in Workers : pc[w] = "idle" BY DEF Init, Actors
<1> QED
  <2>1. TypeOK BY <1>1, <1>2, <1>3, <1>4, <1>5, <1>6 DEF Init, TypeOK, GENESIS
  <2> QED BY <2>1, <1>7 DEF TypeInv, ThreadsInv, Init

(* The parts of the type invariant that a step leaves alone stay true:     *)
(* each action is shown to preserve the parts it writes.                   *)
LEMMA TypeNext == TypeInv /\ [Next]_vars => TypeInv'
<1> SUFFICES ASSUME TypeInv, [Next]_vars PROVE TypeInv' OBVIOUS
<1>0. /\ pc \in [Actors -> Labels] /\ req \in [Workers -> Request]
      /\ approvals \in Store /\ approvalsFile \in Store /\ cli.store \in Store
      /\ journal \in Seq(Line) /\ tailOpen \in BOOLEAN /\ granted \in [Ids -> Nat]
      /\ requests \in Nat /\ now \in Nat /\ requests <= MaxRequests
      /\ tailOpen => journal # << >>
  BY AssuranceAssumption DEF TypeInv, TypeOK
<1>a. ASSUME NEW w \in Workers
      PROVE  /\ req[w] \in Request /\ w \in Actors
             /\ pc[w] # "idle" => req[w].n \in Ids
             /\ pc[w] = "consume" => req[w].token \in Ids
  BY <1>0 DEF TypeInv, ThreadsInv, Actors
<1>1. ASSUME NEW w \in Workers, Consume(w) PROVE TypeInv'
  <2>1. req' \in [Workers -> Request]
    <3>1. CASE Usable(approvals, req[w].token, req[w].action)
      BY <1>0, <1>a, <1>1, <3>1, RequestUpdate DEF Consume
    <3>2. CASE ~Usable(approvals, req[w].token, req[w].action)
      BY <1>0, <1>a, <1>1, <3>2, RequestUpdate DEF Consume, Statuses
    <3> QED BY <3>1, <3>2
  <2>2. pc' \in [Actors -> Labels] BY <1>0, <1>a, <1>1 DEF Consume, Goto, Labels
  <2>3. approvals' \in Store
    <3>1. CASE Usable(approvals, req[w].token, req[w].action)
      BY <1>0, <1>a, <1>1, <3>1, SpendType DEF Consume
    <3> QED BY <1>0, <1>1, <3>1 DEF Consume, store
  <2>4. ThreadsInv'
    <3>1. pc'[w] # "consume" BY <1>0, <1>a, <1>1 DEF Consume, Goto
    <3>4. req'[w].n = req[w].n
      <4>1. CASE req' = [req EXCEPT ![w].approval_id = req[w].token]
        BY <1>0, <1>a, <4>1 DEF Request
      <4>2. CASE req' = [req EXCEPT ![w].status = "approval_rejected"]
        BY <1>0, <1>a, <4>2 DEF Request
      <4> QED BY <1>1, <4>1, <4>2 DEF Consume
    <3>2. \A x \in Workers \ {w} : req'[x] = req[x] /\ pc'[x] = pc[x]
      BY <1>0, <1>a, <1>1 DEF Consume, Goto
    <3>3. pc[w] = "consume" BY <1>1 DEF Consume
    <3> QED BY <1>a, <3>1, <3>2, <3>3, <3>4 DEF ThreadsInv
  <2> QED BY <1>1, <2>1, <2>2, <2>3, <2>4
          DEF TypeInv, TypeOK, Consume, store, files, evidence, history, Actors
<1>2. ASSUME NEW w \in Workers, SendDone(w) PROVE TypeInv'
  <2>1. req' \in [Workers -> Request]
    BY <1>0, <1>a, <1>2, RequestUpdate DEF SendDone, Statuses
  <2>2. pc' \in [Actors -> Labels] BY <1>0, <1>a, <1>2 DEF SendDone, Goto, Labels, AfterSend
  <2>3. ThreadsInv'
    BY <1>0, <1>a, <1>2 DEF ThreadsInv, SendDone, Goto, AfterSend, Request, Actors
  <2>4. Performance(w) \in [n : Ids, action : Actions, approval_id : {NoToken} \cup Ids]
    BY <1>0, <1>a, <1>2 DEF SendDone, Performance, Request
  <2> QED
    BY <1>2, <2>1, <2>2, <2>3, <2>4 DEF TypeInv, TypeOK, SendDone, store, files, evidence
<1>3. ASSUME NEW w \in Workers, SendFailed(w) PROVE TypeInv'
  <2>1. req' \in [Workers -> Request]
    BY <1>0, <1>a, <1>3, RequestUpdate DEF SendFailed, Statuses
  <2>2. pc' \in [Actors -> Labels] BY <1>0, <1>a, <1>3 DEF SendFailed, Goto, Labels
  <2>3. ThreadsInv'
    BY <1>0, <1>a, <1>3 DEF ThreadsInv, SendFailed, Goto, Request, Actors
  <2>4. Performance(w) \in [n : Ids, action : Actions, approval_id : {NoToken} \cup Ids]
    BY <1>0, <1>a, <1>3 DEF SendFailed, Performance, Request
  <2> QED
    BY <1>3, <2>1, <2>2, <2>3, <2>4 DEF TypeInv, TypeOK, SendFailed, store, files, evidence
<1>4. ASSUME NEW w \in Workers, Sign(w) PROVE TypeInv'
  <2>1. req' \in [Workers -> Request]
    BY <1>0, <1>a, <1>4, RequestUpdate DEF TypeInv, TypeOK, Sign
  <2>2. pc' \in [Actors -> Labels] BY <1>0, <1>a, <1>4 DEF Sign, Goto, Labels
  <2>3. ThreadsInv'
    BY <1>0, <1>a, <1>4 DEF ThreadsInv, Sign, Goto, Request, Actors
  <2> QED BY <1>a, <1>4, <2>1, <2>2, <2>3 DEF TypeInv, TypeOK, Sign, store, files, history
<1>5. ASSUME NEW w \in Workers, WriteRecord(w) PROVE TypeInv'
  <2>1. pc' \in [Actors -> Labels] BY <1>0, <1>a, <1>5 DEF WriteRecord, Goto, Labels
  <2>2. ThreadsInv'
    BY <1>0, <1>a, <1>5 DEF ThreadsInv, WriteRecord, Goto, Actors
  <2>3. journal' \in Seq(Line)
    BY <1>0, <1>a, <1>5, RecordOfType, AppendedType DEF WriteRecord, Line
  <2> QED
    BY <1>a, <1>5, <2>1, <2>2, <2>3 DEF TypeInv, TypeOK, WriteRecord, store, files, Line
<1>6. ASSUME NEW w \in Workers, WriteRefused(w) PROVE TypeInv'
  <2>1. pc' \in [Actors -> Labels] BY <1>0, <1>a, <1>6 DEF WriteRefused, End, Labels
  <2>2. req' \in [Workers -> Request]
    BY <1>0, <1>a, <1>6, NoRequestType DEF WriteRefused, End
  <2>3. ThreadsInv'
    BY <1>0, <1>a, <1>6 DEF TypeInv, TypeOK, ThreadsInv, WriteRefused, End, Actors
  <2>4. journal' \in Seq(Line) /\ (tailOpen' => journal' # << >>) /\ tailOpen' \in BOOLEAN
    <3>1. Torn \in Line BY DEF Line
    <3>2. Appended(Torn) \in Seq(Line) /\ Appended(Torn) # << >>
      BY <1>0, <3>1, AppendedType
    <3>3. CASE UNCHANGED <<journal, tailOpen>> BY <1>0, <3>3
    <3>4. CASE journal' = Appended(Torn) /\ tailOpen' = TRUE BY <3>2, <3>4
    <3> QED BY <1>6, <3>3, <3>4 DEF WriteRefused
  <2> QED
    BY <1>6, <2>1, <2>2, <2>3, <2>4
      DEF TypeInv, TypeOK, WriteRefused, store, files, history, Line
<1>7. ASSUME NEW w \in Workers, Answer(w) PROVE TypeInv'
  <2>1. pc' \in [Actors -> Labels] BY <1>0, <1>a, <1>7 DEF Answer, End, Labels
  <2>2. req' \in [Workers -> Request] BY <1>0, <1>a, <1>7, NoRequestType DEF Answer, End
  <2>3. ThreadsInv'
    BY <1>0, <1>a, <1>7 DEF ThreadsInv, Answer, End, Actors
  <2> QED
    BY <1>a, <1>7, <2>1, <2>2, <2>3 DEF TypeInv, TypeOK, Answer, store, files, evidence
<1>8. ASSUME NEW w \in Workers, NEW a \in Actions, NEW token \in {NoToken} \cup Ids,
             Receive(w, a, token)
      PROVE  TypeInv'
  <2>1. requests' \in 0..MaxRequests /\ requests' \in Ids
    BY <1>0, <1>a, <1>8, AssuranceAssumption DEF Receive, Ids
  <2>2. req' \in [Workers -> Request]
    BY <1>0, <1>a, <1>8, <2>1, DecideType DEF Receive, Request, NoToken, GENESIS
  <2>3. pc' \in [Actors -> Labels] BY <1>0, <1>a, <1>8, DecideType DEF Receive, Goto
  <2>4. ThreadsInv'
    BY <1>0, <1>a, <1>8, <2>1, DecideType DEF ThreadsInv, Receive, Goto, NoToken, Actors
  <2> QED
    BY <1>8, <2>1, <2>2, <2>3, <2>4
      DEF TypeInv, TypeOK, Receive, store, files, evidence, history
<1>9. ASSUME NEW g \in Granters, NEW id \in Ids, NEW a \in Actions,
             GrantInProcess(g, id, a)
      PROVE  TypeInv'
  <2>1. Fresh(a) \in Approval
    BY <1>0, AssuranceAssumption DEF TypeInv, TypeOK, Fresh, Approval
  <2>2. approvals' \in Store BY <1>0, <1>a, <1>9, <2>1 DEF GrantInProcess, Store
  <2>3. pc' \in [Actors -> Labels] BY <1>0, <1>a, <1>9 DEF GrantInProcess, Goto, Labels
  <2>4. granted' \in [Ids -> Nat] BY <1>0, <1>a, <1>9 DEF GrantInProcess
  <2>5. ThreadsInv'
    BY <1>0, <1>a, <1>9, AssuranceAssumption DEF ThreadsInv, GrantInProcess, Goto, Actors
  <2> QED
    BY <1>9, <2>2, <2>3, <2>4, <2>5
      DEF TypeInv, TypeOK, GrantInProcess, files, evidence, Actors
<1>10. ASSUME NEW x \in Actors, WriteTmp(x) PROVE TypeInv'
  <2>1. pc' \in [Actors -> Labels] BY <1>0, <1>a, <1>10 DEF WriteTmp, Goto, End, Labels
  <2>2. req' \in [Workers -> Request] BY <1>0, <1>a, <1>10, NoRequestType DEF WriteTmp, End
  <2>3. ThreadsInv'
    BY <1>0, <1>a, <1>10 DEF ThreadsInv, WriteTmp, Goto, End, Actors
  <2> QED
    BY <1>10, <2>1, <2>2, <2>3
      DEF TypeInv, TypeOK, WriteTmp, evidence, history, LockAfterSave
<1>11. ASSUME NEW x \in Actors, Rename(x) PROVE TypeInv'
  <2>1. pc' \in [Actors -> Labels] BY <1>0, <1>a, <1>11 DEF Rename, Goto, End, Labels
  <2>2. req' \in [Workers -> Request] BY <1>0, <1>a, <1>11, NoRequestType DEF Rename, End
  <2>3. ThreadsInv'
    BY <1>0, <1>a, <1>11 DEF ThreadsInv, Rename, Goto, End, Actors
  <2> QED
    BY <1>11, <2>1, <2>2, <2>3 DEF TypeInv, TypeOK, Rename, evidence, history, LockAfterSave
<1>12. ASSUME NEW id \in Ids, NEW a \in Actions, CliLoad(id, a) PROVE TypeInv'
  BY <1>12 DEF TypeInv, TypeOK, ThreadsInv, CliLoad, proc, store, files, evidence, history
<1>13. CASE CliGrant
  <2>1. Fresh(cli.action) \in Approval
    BY <1>0, AssuranceAssumption DEF TypeInv, TypeOK, Fresh, Approval
  <2>2. cli.id \in Ids /\ [cli.store EXCEPT ![cli.id] = Fresh(cli.action)] \in Store
    BY <1>0, <1>a, <1>13, <2>1 DEF TypeInv, TypeOK, CliGrant, Store
  <2>3. granted' \in [Ids -> Nat] BY <1>0, <1>a, <1>13, <2>2 DEF CliGrant
  <2> QED
    BY <1>13, <2>2, <2>3 DEF TypeInv, TypeOK, ThreadsInv, CliGrant, proc, store, evidence
<1>14. CASE CliRename
  <2>1. NoCommand \in [pc : {"idle", "grant", "rename"}, id : {0} \cup Ids,
                       action : Actions, store : Store]
    BY NoGrantsType, AssuranceAssumption DEF NoCommand
  <2> QED
    BY <1>14, <2>1
      DEF TypeInv, TypeOK, ThreadsInv, CliRename, NoCommand, proc, store, evidence, history
<1>15. CASE Stop
  <2>1. pc' \in [Actors -> Labels] BY <1>0, <1>a, <1>15 DEF Stop, Labels
  <2>2. req' \in [Workers -> Request]
    BY <1>0, <1>a, <1>15, NoRequestType DEF TypeInv, TypeOK, Stop
  <2>3. journal' \in Seq(Line) /\ (tailOpen' => journal' # << >>) /\ tailOpen' \in BOOLEAN
    <3>1. Torn \in Line BY DEF Line
    <3>2. Appended(Torn) \in Seq(Line) /\ Appended(Torn) # << >>
      BY <1>0, <3>1, AppendedType
    <3>3. ASSUME NEW w \in Workers, pc[w] = "write"
          PROVE  Appended(RecordOf(w)) \in Seq(Line) /\ Appended(RecordOf(w)) # << >>
      BY <1>0, <3>3, RecordOfType, AppendedType
    <3>4. CASE UNCHANGED <<journal, tailOpen>> BY <1>0, <3>4
    <3>5. CASE /\ \E w \in Workers :
                   /\ pc[w] = "write"
                   /\ journal' = Appended(Torn) \/ journal' = Appended(RecordOf(w))
               /\ tailOpen' = TRUE
      BY <3>2, <3>3, <3>5
    <3> QED BY <1>15, <3>4, <3>5 DEF Stop, LeftBehind
  <2>4. ThreadsInv' BY <1>0, <1>a, <1>15 DEF ThreadsInv, Stop, Actors
  <2>5. approvals' \in Store /\ last_hash' \in {GENESIS} \cup Ids
        /\ approvalsLock' \in Actors \cup {Free} /\ journalLock' \in Workers \cup {Free}
        /\ up' \in BOOLEAN /\ crashes' \in Nat
    <3>1. approvals' \in Store BY <1>15, NoGrantsType DEF Stop
    <3>2. crashes' \in Nat BY <1>15 DEF TypeInv, TypeOK, Stop
    <3> QED BY <1>15, <3>1, <3>2 DEF Stop
  <2> QED BY <1>15, <2>1, <2>2, <2>3, <2>4, <2>5
          DEF TypeInv, TypeOK, Stop, files, history, Line, GENESIS
<1>16. CASE Start
 
    BY <1>16, LastHashType
      DEF TypeInv, TypeOK, ThreadsInv, Start, files, history, Line, StoreOnFile
<1>17. CASE Tick
  BY <1>17 DEF TypeInv, TypeOK, ThreadsInv, Tick, proc, store, files, evidence, history
<1>18. CASE UNCHANGED vars
  BY <1>18 DEF TypeInv, TypeOK, ThreadsInv, vars, proc, store, files, evidence, history
<1> QED
  BY <1>0, <1>a, <1>1, <1>2, <1>3, <1>4, <1>5, <1>6, <1>7, <1>8, <1>9, <1>10, <1>11, <1>12,
     <1>13, <1>14, <1>15, <1>16, <1>17, <1>18
  DEF TypeInv, TypeOK, Next, WorkerStep, Save

(* Every variable keeps its type. *)
THEOREM TypeCorrect == Spec => []TypeOK
<1>1. Spec => []TypeInv BY TypeInit, TypeNext, PTL DEF Spec
<1>2. TypeInv => TypeOK BY DEF TypeInv
<1> QED BY <1>1, <1>2, PTL

-----------------------------------------------------------------------------
(***************************************************************************)
(* With a sound disk (no write cut or refused) the journal is one chain.   *)
(***************************************************************************)

LEMMA ChainInit == Init => ChainInv
<1> SUFFICES ASSUME Init PROVE ChainInv OBVIOUS
<1>1. \A w \in Workers : pc[w] # "write" BY DEF Init, Actors
<1>2. DOMAIN journal = {} BY EmptySeq DEF Init
<1>3. journal = << >> /\ last_hash = GENESIS /\ journalLock = Free /\ up = TRUE /\ tailOpen = FALSE
  BY DEF Init
<1> QED BY <1>1, <1>2, <1>3 DEF ChainInv, Chained, LastRecord

(* A step of a thread that does not touch the journal nor its lock.        *)
LEMMA ChainFrame ==
  ASSUME TypeInv, ChainInv, up,
         UNCHANGED <<up, journal, tailOpen, last_hash, journalLock>>,
         NEW x \in Actors, pc[x] # "write", pc'[x] # "write",
         \A y \in Actors \ {x} : pc'[y] = pc[y],
         \A y \in Workers \ {x} : req'[y] = req[y]
  PROVE  ChainInv'
<1>1. journalLock \in Workers \cup {Free} BY DEF TypeInv, TypeOK
<1>2. journalLock # Free => journalLock # x BY DEF ChainInv
<1>3. journalLock # Free => /\ pc'[journalLock] = pc[journalLock]
                            /\ req'[journalLock] = req[journalLock]
  BY <1>1, <1>2 DEF Actors
<1> QED BY <1>1, <1>3 DEF ChainInv, Chained, LastRecord, Actors

(* A busy thread belongs to a running process. *)
LEMMA BusyIsUp ==
  ASSUME TypeInv, ChainInv, NEW x \in Actors, pc[x] # "idle"
  PROVE  up
BY DEF ChainInv, TypeInv, TypeOK

(* A step that touches none of the variables of ChainInv. *)
LEMMA ChainStutter ==
  ASSUME ChainInv,
         UNCHANGED <<up, pc, req, journal, tailOpen, last_hash, journalLock>>
  PROVE  ChainInv'
BY DEF ChainInv, Chained, LastRecord

LEMMA SignKeepsChain ==
  ASSUME TypeInv, ChainInv, NEW w \in Workers, Sign(w)
  PROVE  ChainInv'
<1>1. w \in Actors /\ w # Free /\ up
  BY AssuranceAssumption, BusyIsUp DEF Actors, Sign
<1>2. /\ pc' = [pc EXCEPT ![w] = "write"] /\ journalLock' = w
      /\ UNCHANGED <<up, journal, tailOpen>> /\ last_hash = LastRecord
      /\ last_hash' = req[w].n /\ journalLock = Free
  BY <1>1 DEF Sign, Goto, MaySign, ChainInv
<1>3. req'[w].n = req[w].n /\ req'[w].prev_hash = last_hash
  BY DEF Sign, TypeInv, TypeOK, Request
<1>4. pc \in [Actors -> Labels] BY DEF TypeInv, TypeOK
<1>5. \A v \in Workers : pc'[v] = "write" => journalLock' = v
  BY <1>1, <1>2, <1>4, AssuranceAssumption DEF ChainInv, Actors
<1> QED BY <1>1, <1>2, <1>3, <1>4, <1>5 DEF ChainInv, Chained, LastRecord

LEMMA WriteKeepsChain ==
  ASSUME TypeInv, ChainInv, NEW w \in Workers, WriteRecord(w)
  PROVE  ChainInv'
<1> DEFINE r == RecordOf(w)
<1>1. /\ w \in Actors /\ up /\ journalLock = w /\ journalLock # Free
      /\ pc \in [Actors -> Labels] /\ journal \in Seq(Line) /\ ~tailOpen
  BY BusyIsUp, AssuranceAssumption DEF WriteRecord, ChainInv, TypeInv, TypeOK, Actors
<1>2. r \in Record /\ r \in Line /\ r.id = req[w].n /\ r.prev_hash = req[w].prev_hash
  BY RecordOfType DEF WriteRecord, RecordOf
<1>3. /\ journal' = Append(journal, r) /\ journalLock' = Free /\ tailOpen' = FALSE
      /\ pc' = [pc EXCEPT ![w] = "answer"] /\ UNCHANGED <<up, req, last_hash>>
  BY <1>1 DEF WriteRecord, Appended, Goto
<1>4. /\ Len(journal') = Len(journal) + 1 /\ journal' # << >>
      /\ \A i \in 1..Len(journal) : journal'[i] = journal[i]
      /\ journal'[Len(journal) + 1] = r
      /\ DOMAIN journal = 1..Len(journal) /\ DOMAIN journal' = 1..Len(journal')
      /\ Len(journal) \in Nat
  BY <1>1, <1>2, <1>3, AppendProperties, LenProperties
<1>5. r.prev_hash = LastRecord BY <1>1, <1>2 DEF ChainInv
<1>6. journal = << >> <=> Len(journal) = 0
  BY <1>1, EmptySeq
<1>7. Chained(journal')
  <2> SUFFICES ASSUME NEW i \in DOMAIN journal'
               PROVE  journal'[i].prev_hash = (IF i = 1 THEN GENESIS ELSE journal'[i - 1].id)
    BY DEF Chained
  <2>1. CASE i \in 1..Len(journal)
    BY <1>4, <2>1 DEF ChainInv, Chained
  <2>2. CASE i = Len(journal) + 1
    BY <1>4, <1>5, <1>6, <2>2 DEF LastRecord
  <2> QED BY <1>4, <2>1, <2>2
<1>8. LastRecord' = r.id BY <1>4 DEF LastRecord
<1>9. last_hash' = LastRecord' BY <1>1, <1>2, <1>3, <1>8 DEF ChainInv
<1>10. \A i \in DOMAIN journal' : journal'[i] \in Record
  BY <1>2, <1>4 DEF ChainInv
<1>11. \A v \in Workers : pc'[v] # "write"
  BY <1>1, <1>3 DEF ChainInv, Actors
<1> QED BY <1>1, <1>3, <1>7, <1>9, <1>10, <1>11 DEF ChainInv

LEMMA StartKeepsChain ==
  ASSUME TypeInv, ChainInv, Start
  PROVE  ChainInv'
<1> DEFINE last == {i \in WholeLines : \A j \in WholeLines : j <= i}
<1>1. journal \in Seq(Line) /\ DOMAIN journal = 1..Len(journal) /\ Len(journal) \in Nat
  BY LenProperties DEF TypeInv, TypeOK
<1>2. WholeLines = 1..Len(journal)
  BY <1>1, TornIsNoRecord DEF WholeLines, ChainInv
<1>3. LastHashOnFile = LastRecord
  <2>1. CASE journal = << >>
    <3>1. last = {} BY <1>2, <2>1
    <3> QED BY <2>1, <3>1 DEF LastHashOnFile, LastRecord
  <2>2. CASE journal # << >>
    <3>1. Len(journal) # 0 BY <1>1, <2>2, EmptySeq
    <3>2. last = {Len(journal)} BY <1>1, <1>2, <3>1
    <3> QED BY <2>2, <3>2 DEF LastHashOnFile, LastRecord
  <2> QED BY <2>1, <2>2
<1>4. journalLock = Free
  <2>1. \A x \in Actors : pc[x] = "idle" BY DEF Start, ChainInv
  <2>2. journalLock \in Workers \cup {Free} BY DEF TypeInv, TypeOK
  <2> QED BY <2>1, <2>2 DEF ChainInv, Actors
<1>5. /\ last_hash' = LastRecord /\ up' = TRUE
      /\ UNCHANGED <<pc, req, journal, tailOpen, journalLock>>
  BY <1>3 DEF Start
<1> QED BY <1>4, <1>5 DEF ChainInv, Chained, LastRecord

LEMMA ChainNext ==
  ASSUME ~CutWrites, ~DiskFaults, TypeInv, ChainInv, [Next]_vars
  PROVE  ChainInv'
<1>0. /\ pc \in [Actors -> Labels] /\ req \in [Workers -> Request]
      /\ \A w \in Workers : w \in Actors
  BY DEF TypeInv, TypeOK, Actors
<1>1. ASSUME NEW w \in Workers, Consume(w) PROVE ChainInv'
  <2>1. up BY <1>0, <1>1, BusyIsUp DEF Consume
  <2> QED BY <1>0, <1>1, <2>1, ChainFrame DEF Consume, Goto, evidence
<1>2. ASSUME NEW w \in Workers, SendDone(w) \/ SendFailed(w) PROVE ChainInv'
  <2>1. up BY <1>0, <1>2, BusyIsUp DEF SendDone, SendFailed
  <2> QED
    BY <1>0, <1>2, <2>1, ChainFrame DEF SendDone, SendFailed, Goto, AfterSend, evidence
<1>3. ASSUME NEW w \in Workers, Sign(w) PROVE ChainInv' BY <1>3, SignKeepsChain
<1>4. ASSUME NEW w \in Workers, WriteRecord(w) PROVE ChainInv' BY <1>4, WriteKeepsChain
<1>5. ASSUME NEW w \in Workers, WriteRefused(w) PROVE ChainInv' BY <1>5 DEF WriteRefused
<1>6. ASSUME NEW w \in Workers, Answer(w) PROVE ChainInv'
  <2>1. up BY <1>0, <1>6, BusyIsUp DEF Answer
  <2> QED BY <1>0, <1>6, <2>1, ChainFrame DEF Answer, End, evidence
<1>7. ASSUME NEW w \in Workers, NEW a \in Actions, NEW token \in {NoToken} \cup Ids,
             Receive(w, a, token)
      PROVE  ChainInv'
  <2>1. Decide(a, token).next # "write" BY DEF Decide
  <2> QED BY <1>0, <1>7, <2>1, ChainFrame DEF Receive, Goto, evidence
<1>8. ASSUME NEW g \in Granters, NEW id \in Ids, NEW a \in Actions,
             GrantInProcess(g, id, a)
      PROVE  ChainInv'
  BY <1>0, <1>8, ChainFrame DEF GrantInProcess, Goto, evidence, Actors
<1>9. ASSUME NEW x \in Actors, WriteTmp(x) PROVE ChainInv'
  <2>1. up BY <1>9, BusyIsUp DEF WriteTmp
  <2> QED BY <1>0, <1>9, <2>1, ChainFrame DEF WriteTmp, Goto, evidence
<1>10. ASSUME NEW x \in Actors, Rename(x) PROVE ChainInv'
  <2>1. up BY <1>10, BusyIsUp DEF Rename
  <2>2. pc'[x] # "write" /\ \A y \in Actors \ {x} : pc'[y] = pc[y]
    BY <1>0, <1>10 DEF Rename, Goto, End
  <2>3. \A y \in Workers \ {x} : req'[y] = req[y]
    BY <1>0, <1>10 DEF Rename, Goto, End
  <2> QED BY <1>10, <2>1, <2>2, <2>3, ChainFrame DEF Rename, evidence
<1>11. CASE \E id \in Ids, a \in Actions : CliLoad(id, a)
  BY <1>11, ChainStutter DEF CliLoad, proc, evidence
<1>12. CASE CliGrant \/ CliRename \/ Tick
  BY <1>12, ChainStutter DEF CliGrant, CliRename, Tick, proc, evidence
<1>13. CASE Stop
  <2>1. UNCHANGED <<journal, tailOpen>> BY <1>13 DEF Stop, LeftBehind
  <2>2. /\ up' = FALSE /\ journalLock' = Free
        /\ \A x \in Actors : pc'[x] = "idle"
    BY <1>13 DEF Stop
  <2> QED BY <1>0, <2>1, <2>2 DEF ChainInv, Chained
<1>14. CASE Start BY <1>14, StartKeepsChain
<1>15. CASE UNCHANGED vars BY <1>15, ChainStutter DEF vars, proc, evidence
<1> QED
  BY <1>1, <1>2, <1>3, <1>4, <1>5, <1>6, <1>7, <1>8, <1>9, <1>10, <1>11, <1>12,
     <1>13, <1>14, <1>15
  DEF Next, WorkerStep, Save

LEMMA ChainSafe ==
  ASSUME ~CutWrites, ~DiskFaults
  PROVE  Spec => [](TypeInv /\ ChainInv)
<1>1. Init => TypeInv /\ ChainInv BY TypeInit, ChainInit
<1>2. TypeInv /\ ChainInv /\ [Next]_vars => (TypeInv /\ ChainInv)'
  BY TypeNext, ChainNext
<1> QED BY <1>1, <1>2, PTL DEF Spec

(* However many handler threads append at the same time, and wherever the  *)
(* process stops, the evidence file of a sound disk is one chain.          *)
THEOREM JournalAlwaysChained ==
  ASSUME ~CutWrites, ~DiskFaults
  PROVE  Spec => []JournalIsChained
<1>1. TypeInv /\ ChainInv => JournalIsChained
  BY TornIsNoRecord DEF ChainInv, JournalIsChained, WholeLines
<1> QED BY <1>1, ChainSafe, PTL

-----------------------------------------------------------------------------
(***************************************************************************)
(* With a sound disk, what reaches the upstream service is authorised.     *)
(***************************************************************************)

(* What a step never takes back: a grant, and a pending record on file. *)
Grows ==
  /\ \A id \in Ids : granted[id] > 0 => granted'[id] > 0
  /\ \A id \in Ids, a \in Actions : PendingOnFile(id, a) => PendingOnFile(id, a)'

LEMMA PendingKept ==
  ASSUME \A r \in OnFile : r \in OnFile'
  PROVE  \A id \in Ids, a \in Actions : PendingOnFile(id, a) => PendingOnFile(id, a)'
BY DEF PendingOnFile

LEMMA FileKept ==
  ASSUME UNCHANGED journal
  PROVE  \A r \in OnFile : r \in OnFile'
BY DEF OnFile, WholeLines

LEMMA FileExtended ==
  ASSUME TypeInv, ChainInv, NEW w \in Workers, WriteRecord(w)
  PROVE  \A r \in OnFile : r \in OnFile'
<1> DEFINE line == RecordOf(w)
<1>1. journal \in Seq(Line) /\ line \in Line
  BY RecordOfType DEF TypeInv, TypeOK, WriteRecord, Line
<1>2. journal' = Append(journal, line) BY DEF WriteRecord, Appended, ChainInv
<1>3. /\ DOMAIN journal = 1..Len(journal) /\ DOMAIN journal' = 1..(Len(journal) + 1)
      /\ Len(journal) \in Nat
      /\ \A i \in 1..Len(journal) : journal'[i] = journal[i]
  BY <1>1, <1>2, AppendProperties, LenProperties
<1>4. \A i \in WholeLines : i \in WholeLines' /\ journal'[i] = journal[i]
  BY <1>3 DEF WholeLines
<1> QED BY <1>4 DEF OnFile

LEMMA GrowsNext ==
  ASSUME ~CutWrites, ~DiskFaults, TypeInv, ChainInv, [Next]_vars
  PROVE  Grows
<1>0. granted \in [Ids -> Nat] BY DEF TypeInv, TypeOK
<1>1. \A id \in Ids : granted[id] > 0 => granted'[id] > 0
  <2>1. ASSUME NEW g \in Granters, NEW i \in Ids, NEW a \in Actions,
               GrantInProcess(g, i, a)
        PROVE  granted' = [granted EXCEPT ![i] = @ + 1]
    BY <2>1 DEF GrantInProcess
  <2>2. CASE CliGrant
    BY <1>0, <2>2 DEF CliGrant
  <2>3. ASSUME UNCHANGED granted PROVE \A id \in Ids : granted[id] > 0 => granted'[id] > 0
    BY <2>3
  <2> QED
    BY <1>0, <2>1, <2>2, <2>3
    DEF Next, WorkerStep, Save, vars, history, Consume, SendDone, SendFailed, Sign,
        WriteRecord, WriteRefused, Answer, Receive, WriteTmp, Rename, CliLoad,
        CliRename, Stop, Start, Tick
<1>2. \A r \in OnFile : r \in OnFile'
  <2>1. ASSUME NEW w \in Workers, WriteRecord(w) PROVE \A r \in OnFile : r \in OnFile'
    BY <2>1, FileExtended
  <2>2. ASSUME UNCHANGED journal PROVE \A r \in OnFile : r \in OnFile'
    BY <2>2, FileKept
  <2>3. \/ UNCHANGED journal
        \/ \E w \in Workers : WriteRecord(w)
    BY DEF Next, WorkerStep, Save, vars, evidence, Consume, SendDone, SendFailed, Sign,
           WriteRefused, Answer, Receive, GrantInProcess, WriteTmp, Rename, CliLoad,
           CliGrant, CliRename, Stop, LeftBehind, Start, Tick
  <2> QED BY <2>1, <2>2, <2>3
<1> QED BY <1>1, <1>2, PendingKept DEF Grows

LEMMA AuthorisedKept ==
  ASSUME Grows, NEW a \in Actions, NEW id
  PROVE  Authorised(a, id) => Authorised(a, id)'
BY DEF Grows, Authorised

(* Backed, for a store s, in the state after the step. *)
BackedNext(s) ==
  \A id \in Ids :
    s[id] # NoApproval =>
      /\ granted'[id] > 0
      /\ \E r \in OnFile' : /\ r.id = id /\ r.action = s[id].action
                            /\ r.status = "pending_approval"

(* A copy of the store that a step leaves alone, or takes from another     *)
(* copy, stays backed by grants and records.                               *)
LEMMA BackedKept ==
  ASSUME Grows, NEW s \in Store, Backed(s)
  PROVE  BackedNext(s)
<1>1. \A id \in Ids : s[id] # NoApproval => s[id].action \in Actions
  BY DEF Store, Approval
<1> QED BY <1>1 DEF Grows, Backed, BackedNext, PendingOnFile

(* So does a copy to which an approval of a pending record is added.       *)
LEMMA BackedGrant ==
  ASSUME Grows, TypeInv, NEW s \in Store, Backed(s), NEW id \in Ids, NEW a \in Actions,
         PendingOnFile(id, a), granted'[id] > 0
  PROVE  BackedNext([s EXCEPT ![id] = Fresh(a)])
<1> DEFINE t == [s EXCEPT ![id] = Fresh(a)]
<1>1. /\ t[id].action = a
      /\ \A i \in Ids \ {id} : t[i] = s[i]
  BY DEF Store, Fresh
<1>2. BackedNext(s) BY BackedKept
<1>3. \E r \in OnFile' : r.id = id /\ r.action = a /\ r.status = "pending_approval"
  BY DEF Grows, PendingOnFile
<1> HIDE DEF t
<1>4. BackedNext(t) BY <1>1, <1>2, <1>3 DEF BackedNext
<1> QED BY <1>4 DEF t

LEMMA BackedSpend ==
  ASSUME Grows, NEW s \in Store, Backed(s), NEW id \in Ids, s[id] # NoApproval
  PROVE  BackedNext(Spend(s, id))
<1> DEFINE t == Spend(s, id)
<1>1. /\ s[id] \in Approval /\ id \in DOMAIN s BY DEF Store
<1>2. t[id].action = s[id].action /\ \A i \in Ids \ {id} : t[i] = s[i]
  BY <1>1 DEF Spend, Approval, Store
<1>3. BackedNext(s) BY BackedKept
<1> HIDE DEF t
<1>4. BackedNext(t) BY <1>2, <1>3 DEF BackedNext
<1> QED BY <1>4 DEF t

(* The parts of AuthInv, after a step. *)
StoresBacked ==
  /\ Backed(approvals) /\ Backed(approvalsFile) /\ Backed(cli.store)
  /\ approvalsTmp # NoFile => Backed(approvalsTmp)

LEMMA StoresNext ==
  ASSUME BackedNext(approvals'), BackedNext(approvalsFile'), BackedNext(cli.store'),
         approvalsTmp' # NoFile => BackedNext(approvalsTmp')
  PROVE  StoresBacked'
BY DEF StoresBacked, Backed, BackedNext, PendingOnFile

LEMMA StoresFrame ==
  ASSUME TypeInv, AuthInv, Grows, UNCHANGED <<store, files, cli>>
  PROVE  StoresBacked'
<1>1. /\ approvals \in Store /\ approvalsFile \in Store /\ cli.store \in Store
      /\ approvalsTmp # NoFile => approvalsTmp \in Store
  BY DEF TypeInv, TypeOK
<1>2. /\ BackedNext(approvals) /\ BackedNext(approvalsFile) /\ BackedNext(cli.store)
      /\ approvalsTmp # NoFile => BackedNext(approvalsTmp)
  BY <1>1, BackedKept DEF AuthInv
<1> QED BY <1>2, StoresNext DEF store, files

LEMMA StoresKept ==
  ASSUME TypeInv, AuthInv, Grows, [Next]_vars
  PROVE  StoresBacked'
<1>0. /\ approvals \in Store /\ approvalsFile \in Store /\ cli.store \in Store
      /\ approvalsTmp # NoFile => approvalsTmp \in Store
  BY DEF TypeInv, TypeOK
<1>a. /\ BackedNext(approvals) /\ BackedNext(approvalsFile) /\ BackedNext(cli.store)
      /\ approvalsTmp # NoFile => BackedNext(approvalsTmp)
  BY <1>0, BackedKept DEF AuthInv
<1>b. BackedNext(NoGrants) BY DEF BackedNext, NoGrants
<1>1. ASSUME NEW w \in Workers, Consume(w) PROVE StoresBacked'
  <2>1. UNCHANGED <<files, cli>> /\ req[w].token \in Ids
    BY <1>1 DEF Consume, TypeInv, ThreadsInv
  <2>2. CASE Usable(approvals, req[w].token, req[w].action)
    <3>1. approvals' = Spend(approvals, req[w].token) BY <1>1, <2>2 DEF Consume
    <3>2. BackedNext(approvals')
      BY <1>0, <2>1, <2>2, <3>1, BackedSpend DEF Usable, AuthInv
    <3> QED BY <1>a, <2>1, <3>2, StoresNext DEF files
  <2>3. CASE ~Usable(approvals, req[w].token, req[w].action)
    BY <1>1, <2>1, <2>3, StoresFrame DEF Consume
  <2> QED BY <2>2, <2>3
<1>2. ASSUME NEW g \in Granters, NEW id \in Ids, NEW a \in Actions,
             GrantInProcess(g, id, a)
      PROVE  StoresBacked'
  <2>1. /\ approvals' = [approvals EXCEPT ![id] = Fresh(a)] /\ PendingOnFile(id, a)
        /\ granted' = [granted EXCEPT ![id] = @ + 1] /\ UNCHANGED <<files, cli>>
    BY <1>2 DEF GrantInProcess
  <2>2. granted'[id] > 0 BY <2>1 DEF TypeInv, TypeOK
  <2>3. BackedNext(approvals') BY <1>0, <2>1, <2>2, BackedGrant DEF AuthInv
  <2> QED BY <1>a, <2>1, <2>3, StoresNext DEF files
<1>3. ASSUME NEW x \in Actors, WriteTmp(x) PROVE StoresBacked'
  BY <1>3, <1>a, StoresNext DEF WriteTmp
<1>4. ASSUME NEW x \in Actors, Rename(x) PROVE StoresBacked'
  BY <1>4, <1>a, StoresNext DEF Rename
<1>5. ASSUME NEW id \in Ids, NEW a \in Actions, CliLoad(id, a) PROVE StoresBacked'
  BY <1>5, <1>a, StoresNext DEF CliLoad, store, files
<1>6. CASE CliGrant
  <2> DEFINE s == [cli.store EXCEPT ![cli.id] = Fresh(cli.action)]
  <2>1. /\ cli'.store = s /\ approvalsTmp' = s
        /\ granted' = [granted EXCEPT ![cli.id] = @ + 1]
        /\ UNCHANGED <<approvals, approvalsFile>>
    BY <1>6 DEF CliGrant, TypeInv, TypeOK, store
  <2>2. cli.id \in Ids /\ cli.action \in Actions /\ PendingOnFile(cli.id, cli.action)
    BY <1>6 DEF CliGrant, TypeInv, TypeOK, AuthInv
  <2>3. granted'[cli.id] > 0 BY <2>1, <2>2 DEF TypeInv, TypeOK
  <2>4. BackedNext(s) BY <1>0, <2>2, <2>3, BackedGrant DEF AuthInv
  <2> QED BY <1>a, <2>1, <2>4, StoresNext
<1>7. CASE CliRename
  <2>1. cli'.store = NoGrants BY <1>7 DEF CliRename, NoCommand
  <2> QED BY <1>7, <1>a, <1>b, <2>1, StoresNext DEF CliRename, store
<1>8. CASE Stop
  BY <1>8, <1>a, <1>b, StoresNext DEF Stop, files
<1>9. CASE Start
  BY <1>9, <1>a, StoresNext DEF Start, StoreOnFile, files
<1>10. CASE UNCHANGED <<store, files, cli>>
  BY <1>10, StoresFrame
<1>11. \/ UNCHANGED <<store, files, cli>>
       \/ CliGrant \/ CliRename \/ Stop \/ Start
       \/ \E w \in Workers : Consume(w)
       \/ \E x \in Actors : WriteTmp(x) \/ Rename(x)
       \/ \E id \in Ids, a \in Actions :
            CliLoad(id, a) \/ \E g \in Granters : GrantInProcess(g, id, a)
  BY DEF Next, WorkerStep, Save, vars, SendDone, SendFailed, Sign, WriteRecord,
         WriteRefused, Answer, Receive, Tick
<1> QED
  BY <1>1, <1>2, <1>3, <1>4, <1>5, <1>6, <1>7, <1>8, <1>9, <1>10, <1>11

(* The part of AuthInv about one handler thread. *)
ThreadAuthorised(w) ==
  /\ pc[w] = "consume" => Evaluate(req[w].action).decision = "approval"
  /\ pc[w] \in {"save", "rename", "send"} =>
       Authorised(req[w].action, req[w].approval_id)

LEMMA AuthInit == Init => AuthInv
<1> SUFFICES ASSUME Init PROVE AuthInv OBVIOUS
<1>1. Backed(NoGrants) BY DEF Backed, NoGrants
<1>2. \A w \in Workers : pc[w] = "idle" BY DEF Init, Actors
<1>3. /\ approvals = NoGrants /\ approvalsFile = NoGrants /\ approvalsTmp = NoFile
      /\ cli.store = NoGrants /\ cli.pc = "idle" /\ performed = {}
  BY DEF Init, NoCommand
<1> QED BY <1>1, <1>2, <1>3 DEF AuthInv, PerformedIsAuthorised

(* The approve command keeps a pending record while it runs. *)
LEMMA CommandKept ==
  ASSUME TypeInv, AuthInv, Grows, [Next]_vars, cli'.pc # "idle"
  PROVE  PendingOnFile(cli.id, cli.action)'
<1>0. \A id \in Ids, a \in Actions : PendingOnFile(id, a) => PendingOnFile(id, a)'
  BY DEF Grows
<1>1. CASE \E id \in Ids, a \in Actions : CliLoad(id, a)
  <2>1. PICK id \in Ids, a \in Actions : CliLoad(id, a) BY <1>1
  <2>2. cli'.id = id /\ cli'.action = a BY <2>1 DEF CliLoad
  <2>3. \E r \in OnFile' : r.id = id /\ r.action = a /\ r.status = "pending_approval"
    BY <2>1, <1>0 DEF CliLoad, PendingOnFile
  <2> QED BY <2>2, <2>3 DEF PendingOnFile
<1>2. CASE cli'.id = cli.id /\ cli'.action = cli.action /\ cli.pc # "idle"
  <2>1. cli.id \in Ids /\ cli.action \in Actions BY <1>2 DEF TypeInv, TypeOK
  <2>2. \E r \in OnFile' : /\ r.id = cli.id /\ r.action = cli.action
                           /\ r.status = "pending_approval"
    BY <2>1, <1>0, <1>2 DEF PendingOnFile, AuthInv
  <2> QED BY <1>2, <2>2 DEF PendingOnFile
<1>3. ASSUME CliGrant PROVE cli'.id = cli.id /\ cli'.action = cli.action /\ cli.pc # "idle"
  BY <1>3 DEF CliGrant, TypeInv, TypeOK
<1>4. ~CliRename BY DEF CliRename, NoCommand
<1>5. \/ cli' = cli \/ CliGrant \/ CliRename
      \/ \E id \in Ids, a \in Actions : CliLoad(id, a)
  BY DEF Next, WorkerStep, Save, vars, Consume, SendDone, SendFailed, Sign, WriteRecord,
         WriteRefused, Answer, Receive, GrantInProcess, WriteTmp, Rename, Stop, Start, Tick
<1> QED BY <1>1, <1>2, <1>3, <1>4, <1>5

(* A thread authorised for what it holds stays so while it holds it.       *)
LEMMA HeldKept ==
  ASSUME TypeInv, AuthInv, Grows, NEW w \in Workers,
         pc[w] \in {"save", "rename", "send"},
         req'[w].action = req[w].action, req'[w].approval_id = req[w].approval_id
  PROVE  Authorised(req[w].action, req[w].approval_id)'
<1>1. req[w].action \in Actions BY DEF TypeInv, TypeOK, Request
<1>2. Authorised(req[w].action, req[w].approval_id) BY DEF AuthInv
<1>3. CASE Evaluate(req[w].action).decision = "allow"
  BY <1>3 DEF Authorised
<1>4. CASE /\ Evaluate(req[w].action).decision = "approval"
           /\ req[w].approval_id \in Ids /\ granted[req[w].approval_id] > 0
           /\ PendingOnFile(req[w].approval_id, req[w].action)
  <2>1. \E r \in OnFile' : /\ r.id = req[w].approval_id /\ r.action = req[w].action
                           /\ r.status = "pending_approval"
    BY <1>1, <1>4 DEF Grows, PendingOnFile
  <2>2. granted'[req[w].approval_id] > 0 BY <1>4 DEF Grows
  <2> QED BY <1>4, <2>1, <2>2 DEF Authorised, PendingOnFile
<1> QED BY <1>2, <1>3, <1>4 DEF Authorised

LEMMA ThreadKept ==
  ASSUME TypeInv, AuthInv, Grows, NEW w \in Workers,
         pc'[w] = pc[w], req'[w] = req[w]
  PROVE  ThreadAuthorised(w)'
BY HeldKept DEF ThreadAuthorised, AuthInv

(* A thread that comes back from consume with an approval is authorised.   *)
LEMMA ConsumeAuthorises ==
  ASSUME TypeInv, AuthInv, Grows, NEW w \in Workers, Consume(w)
  PROVE  ThreadAuthorised(w)'
<1>1. /\ req \in [Workers -> Request] /\ pc \in [Actors -> Labels] /\ w \in Actors
      /\ req[w].token \in Ids /\ req[w].action \in Actions
      /\ Evaluate(req[w].action).decision = "approval"
  BY DEF TypeInv, TypeOK, ThreadsInv, Consume, AuthInv, Actors, Request
<1>2. CASE Usable(approvals, req[w].token, req[w].action)
  <2>1. /\ granted[req[w].token] > 0
        /\ PendingOnFile(req[w].token, req[w].action)
    BY <1>1, <1>2 DEF Usable, AuthInv, Backed
  <2>2. /\ granted'[req[w].token] > 0
        /\ \E r \in OnFile' : /\ r.id = req[w].token /\ r.action = req[w].action
                              /\ r.status = "pending_approval"
    BY <1>1, <2>1 DEF Grows, PendingOnFile
  <2>3. req' = [req EXCEPT ![w].approval_id = req[w].token] /\ pc'[w] = "save"
    BY <1>1, <1>2 DEF Consume, Goto
  <2>4. req'[w].action = req[w].action /\ req'[w].approval_id = req[w].token
    BY <1>1, <2>3 DEF Request
  <2> QED BY <1>1, <2>2, <2>3, <2>4 DEF ThreadAuthorised, Authorised, PendingOnFile
<1>3. CASE ~Usable(approvals, req[w].token, req[w].action)
  <2>1. pc'[w] = "sign" BY <1>1, <1>3 DEF Consume, Goto
  <2> QED BY <2>1 DEF ThreadAuthorised
<1> QED BY <1>2, <1>3

LEMMA ReceiveAuthorises ==
  ASSUME TypeInv, NEW w \in Workers, NEW a \in Actions, NEW token \in {NoToken} \cup Ids,
         Receive(w, a, token)
  PROVE  ThreadAuthorised(w)'
<1>1. pc'[w] = Decide(a, token).next /\ req'[w].action = a
  BY DEF Receive, Goto, TypeInv, TypeOK, Actors
<1>2. Evaluate(a).decision \in Decisions BY EvaluateType
<1>3. CASE Evaluate(a).decision = "block"
  BY <1>1, <1>3 DEF ThreadAuthorised, Decide
<1>4. CASE Evaluate(a).decision = "approval"
  <2>1. Decide(a, token).next \in {"sign", "consume"} BY <1>4 DEF Decide
  <2>2. Evaluate(req'[w].action).decision = "approval" BY <1>1, <1>4
  <2> QED BY <1>1, <2>1, <2>2 DEF ThreadAuthorised
<1>5. CASE Evaluate(a).decision = "allow"
  <2>1. Decide(a, token).next = "send" BY <1>5 DEF Decide
  <2>2. Evaluate(req'[w].action).decision = "allow" BY <1>1, <1>5
  <2> QED BY <1>1, <2>1, <2>2 DEF ThreadAuthorised, Authorised
<1> QED BY <1>2, <1>3, <1>4, <1>5 DEF Decisions

LEMMA ThreadsKept ==
  ASSUME TypeInv, AuthInv, Grows, [Next]_vars, NEW v \in Workers
  PROVE  ThreadAuthorised(v)'
<1>0. /\ pc \in [Actors -> Labels] /\ req \in [Workers -> Request]
      /\ \A w \in Workers : w \in Actors
  BY DEF TypeInv, TypeOK, Actors
<1>1. CASE pc'[v] \notin {"consume", "save", "rename", "send"}
  BY <1>1 DEF ThreadAuthorised
<1>2. CASE pc'[v] = pc[v] /\ req'[v] = req[v]
  BY <1>2, ThreadKept
<1>3. CASE Consume(v) BY <1>3, ConsumeAuthorises
<1>4. ASSUME NEW a \in Actions, NEW token \in {NoToken} \cup Ids, Receive(v, a, token)
      PROVE  ThreadAuthorised(v)'
  BY <1>4, ReceiveAuthorises
<1>5. CASE /\ pc[v] \in {"save", "rename"} /\ req'[v] = req[v]
           /\ pc'[v] \in {"rename", "send"}
  BY <1>5, HeldKept DEF ThreadAuthorised
<1>6. ASSUME NEW w \in Workers, WorkerStep(w)
      PROVE  \/ Consume(v)
             \/ pc'[v] = pc[v] /\ req'[v] = req[v]
             \/ pc'[v] \notin {"consume", "save", "rename", "send"}
  <2>1. CASE w # v
    BY <1>0, <1>6, <2>1 DEF WorkerStep, Consume, SendDone, SendFailed, Sign, WriteRecord,
                            WriteRefused, Answer, Goto, End
  <2>2. CASE w = v /\ Consume(w) BY <2>2 DEF Consume, Goto
  <2>3. CASE w = v /\ ~Consume(w)
    BY <1>0, <1>6, <2>3 DEF WorkerStep, SendDone, SendFailed, Sign, WriteRecord,
                            WriteRefused, Answer, Goto, AfterSend, End
  <2> QED BY <2>1, <2>2, <2>3
<1>7. ASSUME NEW w \in Workers, NEW a \in Actions, NEW token \in {NoToken} \cup Ids,
             Receive(w, a, token)
      PROVE  Receive(v, a, token) \/ (pc'[v] = pc[v] /\ req'[v] = req[v])
  <2>1. CASE w # v BY <1>0, <1>7, <2>1 DEF Receive, Goto
  <2>2. CASE w = v BY <1>7, <2>2 DEF Receive, Goto
  <2> QED BY <2>1, <2>2
<1>8. ASSUME NEW g \in Granters, NEW id \in Ids, NEW a \in Actions,
             GrantInProcess(g, id, a)
      PROVE  pc'[v] = pc[v] /\ req'[v] = req[v]
  BY <1>0, <1>8, AssuranceAssumption DEF GrantInProcess, Goto
<1>9. ASSUME NEW x \in Actors, Save(x)
      PROVE  \/ pc'[v] = pc[v] /\ req'[v] = req[v]
             \/ pc'[v] = "idle"
             \/ /\ pc[v] \in {"save", "rename"} /\ req'[v] = req[v]
                /\ pc'[v] \in {"rename", "send"}
  BY <1>0, <1>9 DEF Save, WriteTmp, Rename, Goto, End
<1>10. ASSUME \/ \E id \in Ids, a \in Actions : CliLoad(id, a)
              \/ CliGrant \/ CliRename \/ Start \/ Tick \/ UNCHANGED vars
       PROVE  pc'[v] = pc[v] /\ req'[v] = req[v]
  BY <1>10 DEF CliLoad, CliGrant, CliRename, Start, Tick, vars, proc
<1>11. CASE Stop
  <2>1. pc'[v] = "idle" BY <1>0, <1>11 DEF Stop
  <2> QED BY <2>1 DEF ThreadAuthorised
<1> QED
  BY <1>1, <1>2, <1>3, <1>4, <1>5, <1>6, <1>7, <1>8, <1>9, <1>10, <1>11 DEF Next

LEMMA PerformedKept ==
  ASSUME TypeInv, AuthInv, Grows, [Next]_vars
  PROVE  PerformedIsAuthorised'
<1>1. \A p \in performed : Authorised(p.action, p.approval_id)'
  BY AuthorisedKept DEF TypeInv, TypeOK, AuthInv, PerformedIsAuthorised
<1>2. ASSUME NEW w \in Workers, SendDone(w) \/ SendFailed(w)
      PROVE  PerformedIsAuthorised'
  <2>1. /\ pc[w] = "send" /\ performed' \subseteq performed \cup {Performance(w)}
        /\ req[w].action \in Actions
    BY <1>2 DEF SendDone, SendFailed, TypeInv, TypeOK, Request
  <2>2. Authorised(req[w].action, req[w].approval_id) BY <2>1 DEF AuthInv
  <2>3. ASSUME NEW p \in performed' PROVE Authorised(p.action, p.approval_id)'
    <3>1. CASE p \in performed BY <3>1, <1>1
    <3>2. CASE p = Performance(w)
      <4>1. p.action = req[w].action /\ p.approval_id = req[w].approval_id
        BY <3>2 DEF Performance
      <4>2. p.action \in Actions /\ Authorised(p.action, p.approval_id)
        BY <2>1, <2>2, <4>1
      <4> QED BY <4>2, AuthorisedKept
    <3> QED BY <2>1, <3>1, <3>2
  <2> QED BY <2>3 DEF PerformedIsAuthorised
<1>3. ASSUME UNCHANGED performed PROVE PerformedIsAuthorised'
  BY <1>1, <1>3 DEF PerformedIsAuthorised
<1>4. UNCHANGED performed \/ \E w \in Workers : SendDone(w) \/ SendFailed(w)
  BY DEF Next, WorkerStep, Save, vars, history, Consume, Sign, WriteRecord, WriteRefused,
         Answer, Receive, GrantInProcess, WriteTmp, Rename, CliLoad, CliGrant, CliRename,
         Stop, Start, Tick
<1> QED BY <1>2, <1>3, <1>4

LEMMA AuthNext ==
  ASSUME TypeInv, AuthInv, Grows, [Next]_vars
  PROVE  AuthInv'
<1>1. StoresBacked' BY StoresKept
<1>2. cli'.pc # "idle" => PendingOnFile(cli.id, cli.action)' BY CommandKept
<1>3. \A w \in Workers : ThreadAuthorised(w)' BY ThreadsKept
<1>4. PerformedIsAuthorised' BY PerformedKept
<1> QED BY <1>1, <1>2, <1>3, <1>4 DEF AuthInv, StoresBacked, ThreadAuthorised

(* Whatever the threads, the restarts, the grants and the approve command  *)
(* do to the two copies of the approval store, to its file and to its      *)
(* temporary file, on a sound disk only what the policy allows, or what an *)
(* approval was granted for, reaches the upstream service.                 *)
THEOREM OnlyAuthorisedIsPerformed ==
  ASSUME ~CutWrites, ~DiskFaults
  PROVE  Spec => []PerformedIsAuthorised
<1> DEFINE IInv == TypeInv /\ ChainInv /\ AuthInv
<1>1. Init => IInv BY TypeInit, ChainInit, AuthInit
<1>2. IInv /\ [Next]_vars => IInv'
  BY TypeNext, ChainNext, GrowsNext, AuthNext
<1>3. IInv => PerformedIsAuthorised BY DEF AuthInv
<1> QED BY <1>1, <1>2, <1>3, PTL DEF Spec

-----------------------------------------------------------------------------
(***************************************************************************)
(* An answered action can be shown.  Request numbers are given once, so a  *)
(* performance belongs to one thread until its answer, and that thread     *)
(* carries what the record will say.                                       *)
(***************************************************************************)

Evidenced(p) ==
  \E r \in OnFile : /\ r.id = p.n /\ r.action = p.action
                    /\ r.approval_id = p.approval_id
                    /\ r.status \in {"executed", "tunnelled", "failed"}

(* The thread of a performance knows it, and answers after the record.     *)
Traced(w, p) ==
  /\ pc[w] \in {"sign", "write", "answer"}
  /\ p.action = req[w].action /\ p.approval_id = req[w].approval_id
  /\ req[w].status \in {"executed", "tunnelled", "failed"}
  /\ pc[w] = "answer" /\ Risky(p.action) => Evidenced(p)

EvidenceInv ==
  /\ \A p \in performed : p.n <= requests
  /\ \A n \in answered : n <= requests
  /\ \A w \in Workers : pc[w] # "idle" =>
       /\ req[w].n <= requests /\ req[w].n \notin answered
       /\ \A p \in performed : p.n = req[w].n => Traced(w, p)
  /\ \A v, w \in Workers :
       v # w /\ pc[v] # "idle" /\ pc[w] # "idle" => req[v].n # req[w].n
  /\ AnsweredIsEvidenced

(* What is on file stays on file. *)
OnFileGrows == \A r \in OnFile : r \in OnFile'

LEMMA OnFileNext ==
  ASSUME ~CutWrites, ~DiskFaults, TypeInv, ChainInv, [Next]_vars
  PROVE  OnFileGrows
<1>1. ASSUME NEW w \in Workers, WriteRecord(w) PROVE OnFileGrows
  BY <1>1, FileExtended DEF OnFileGrows
<1>2. ASSUME UNCHANGED journal PROVE OnFileGrows
  BY <1>2, FileKept DEF OnFileGrows
<1>3. UNCHANGED journal \/ \E w \in Workers : WriteRecord(w)
  BY DEF Next, WorkerStep, Save, vars, evidence, Consume, SendDone, SendFailed, Sign,
         WriteRefused, Answer, Receive, GrantInProcess, WriteTmp, Rename, CliLoad,
         CliGrant, CliRename, Stop, LeftBehind, Start, Tick
<1> QED BY <1>1, <1>2, <1>3

LEMMA EvidencedKept ==
  ASSUME OnFileGrows, NEW p, Evidenced(p)
  PROVE  Evidenced(p)'
BY DEF OnFileGrows, Evidenced

(* A step of one thread, which keeps its request until it ends, performs   *)
(* and answers for that request only, and traces its own performances.     *)
LEMMA EvidenceThread ==
  ASSUME TypeInv, EvidenceInv, OnFileGrows, NEW w \in Workers, pc[w] # "idle",
         requests' = requests,
         \A v \in Workers \ {w} : pc'[v] = pc[v] /\ req'[v] = req[v],
         pc'[w] # "idle" => req'[w].n = req[w].n,
         \/ performed' = performed
         \/ performed' = performed \cup {Performance(w)} /\ answered' = answered,
         \/ answered' = answered
         \/ /\ answered' = answered \cup {req[w].n}
            /\ pc[w] = "answer" /\ pc'[w] = "idle",
         pc'[w] # "idle" => \A p \in performed' : p.n = req[w].n => Traced(w, p)'
  PROVE  EvidenceInv'
<1>0. /\ req[w].n \in Nat /\ requests \in Nat /\ req[w].n <= requests
      /\ req[w].n \notin answered /\ Performance(w).n = req[w].n
  BY AssuranceAssumption DEF TypeInv, TypeOK, ThreadsInv, Ids, EvidenceInv, Performance
<1>1. \A p \in performed' : p.n <= requests'
  BY <1>0 DEF EvidenceInv
<1>2. \A n \in answered' : n <= requests'
  BY <1>0 DEF EvidenceInv
<1>3. \A v, u \in Workers :
        v # u /\ pc'[v] # "idle" /\ pc'[u] # "idle" => req'[v].n # req'[u].n
  BY DEF EvidenceInv
<1>4. ASSUME NEW v \in Workers, pc'[v] # "idle"
      PROVE  /\ req'[v].n <= requests' /\ req'[v].n \notin answered'
             /\ \A p \in performed' : p.n = req'[v].n => Traced(v, p)'
  <2>1. CASE v = w BY <1>0, <1>4, <2>1
  <2>2. CASE v # w
    <3>1. /\ pc[v] # "idle" /\ pc'[v] = pc[v] /\ req'[v] = req[v]
          /\ req[v].n # req[w].n
      BY <1>4, <2>2 DEF EvidenceInv
    <3>2. req'[v].n <= requests' /\ req'[v].n \notin answered'
      BY <3>1 DEF EvidenceInv
    <3>3. ASSUME NEW p \in performed', p.n = req'[v].n PROVE Traced(v, p)'
      <4>1. p \in performed BY <1>0, <3>1, <3>3
      <4>2. Traced(v, p) BY <3>1, <3>3, <4>1 DEF EvidenceInv
      <4> QED BY <3>1, <4>2, EvidencedKept DEF Traced, Risky
    <3> QED BY <3>2, <3>3
  <2> QED BY <2>1, <2>2
<1>5. ASSUME NEW p \in performed', p.n \in answered', Risky(p.action)
      PROVE  Evidenced(p)'
  <2>1. CASE p \in performed /\ p.n \in answered
    <3>1. Evidenced(p) BY <1>5, <2>1 DEF EvidenceInv, AnsweredIsEvidenced, Evidenced
    <3> QED BY <3>1, EvidencedKept
  <2>2. CASE p \in performed /\ p.n \notin answered
    <3>1. p.n = req[w].n /\ pc[w] = "answer" BY <1>5, <2>2
    <3>2. Traced(w, p) BY <2>2, <3>1 DEF EvidenceInv
    <3>3. Evidenced(p) BY <1>5, <3>1, <3>2 DEF Traced
    <3> QED BY <3>3, EvidencedKept
  <2>3. CASE p \notin performed
    BY <1>0, <1>5, <2>3
  <2> QED BY <2>1, <2>2, <2>3
<1>6. AnsweredIsEvidenced' BY <1>5 DEF AnsweredIsEvidenced, Evidenced, Risky
<1> QED BY <1>1, <1>2, <1>3, <1>4, <1>6 DEF EvidenceInv

LEMMA EvidenceInit == Init => EvidenceInv
<1> SUFFICES ASSUME Init PROVE EvidenceInv OBVIOUS
<1>1. performed = {} /\ answered = {} /\ \A w \in Workers : pc[w] = "idle"
  BY DEF Init, Actors
<1> QED BY <1>1 DEF EvidenceInv, AnsweredIsEvidenced

(* A step that leaves the requests alone, but for those it ends.           *)
LEMMA EvidenceFrame ==
  ASSUME EvidenceInv, OnFileGrows,
         UNCHANGED <<requests, performed, answered>>,
         \A v \in Workers : \/ pc'[v] = pc[v] /\ req'[v] = req[v]
                            \/ pc'[v] = "idle"
  PROVE  EvidenceInv'
<1>1. ASSUME NEW v \in Workers, pc'[v] # "idle"
      PROVE  /\ req'[v].n <= requests' /\ req'[v].n \notin answered'
             /\ \A p \in performed' : p.n = req'[v].n => Traced(v, p)'
  <2>1. pc[v] # "idle" /\ pc'[v] = pc[v] /\ req'[v] = req[v] BY <1>1
  <2>2. req[v].n <= requests /\ req[v].n \notin answered BY <2>1 DEF EvidenceInv
  <2>3. ASSUME NEW p \in performed', p.n = req'[v].n PROVE Traced(v, p)'
    <3>1. Traced(v, p) BY <2>1, <2>3 DEF EvidenceInv
    <3> QED BY <2>1, <3>1, EvidencedKept DEF Traced, Risky
  <2> QED BY <2>1, <2>2, <2>3
<1>2. \A p \in performed' : p.n \in answered' /\ Risky(p.action) => Evidenced(p)'
  BY EvidencedKept DEF EvidenceInv, AnsweredIsEvidenced, Evidenced
<1>3. AnsweredIsEvidenced' BY <1>2 DEF AnsweredIsEvidenced, Evidenced, Risky
<1>4. \A v, u \in Workers :
        v # u /\ pc'[v] # "idle" /\ pc'[u] # "idle" => req'[v].n # req'[u].n
  BY DEF EvidenceInv
<1> QED BY <1>1, <1>3, <1>4 DEF EvidenceInv

(* A new request has a number nobody has used. *)
LEMMA EvidenceReceive ==
  ASSUME TypeInv, EvidenceInv, OnFileGrows, NEW w \in Workers, NEW a \in Actions,
         NEW token \in {NoToken} \cup Ids, Receive(w, a, token)
  PROVE  EvidenceInv'
<1>0. /\ requests \in Nat /\ requests' = requests + 1 /\ req'[w].n = requests + 1
      /\ performed' = performed /\ answered' = answered
      /\ performed \subseteq [n : Ids, action : Actions, approval_id : {NoToken} \cup Ids]
      /\ answered \subseteq Ids /\ Ids \subseteq Nat
  BY AssuranceAssumption DEF TypeInv, TypeOK, Receive, history, Ids
<1>1. \A v \in Workers \ {w} : pc'[v] = pc[v] /\ req'[v] = req[v]
  BY DEF Receive, Goto, TypeInv, TypeOK, Actors
<1>2. \A p \in performed : p.n \in Nat /\ p.n <= requests BY <1>0 DEF EvidenceInv
<1>3. \A n \in answered : n \in Nat /\ n <= requests BY <1>0 DEF EvidenceInv
<1>4. \A v \in Workers : pc[v] # "idle" => req[v].n \in Nat /\ req[v].n <= requests
  BY <1>0 DEF EvidenceInv, TypeInv, ThreadsInv
<1>5. ASSUME NEW v \in Workers, pc'[v] # "idle"
      PROVE  /\ req'[v].n <= requests' /\ req'[v].n \notin answered'
             /\ \A p \in performed' : p.n = req'[v].n => Traced(v, p)'
  <2>1. CASE v = w
    <3>1. requests + 1 \notin answered /\ \A p \in performed : p.n # requests + 1
      BY <1>0, <1>2, <1>3
    <3> QED BY <1>0, <2>1, <3>1
  <2>2. CASE v # w
    <3>1. pc[v] # "idle" /\ pc'[v] = pc[v] /\ req'[v] = req[v] BY <1>1, <1>5, <2>2
    <3>2. req'[v].n <= requests' /\ req'[v].n \notin answered'
      BY <1>0, <1>4, <3>1 DEF EvidenceInv
    <3>3. ASSUME NEW p \in performed', p.n = req'[v].n PROVE Traced(v, p)'
      <4>1. Traced(v, p) BY <1>0, <3>1, <3>3 DEF EvidenceInv
      <4> QED BY <3>1, <4>1, EvidencedKept DEF Traced, Risky
    <3> QED BY <3>2, <3>3
  <2> QED BY <2>1, <2>2
<1>6. \A v, u \in Workers :
        v # u /\ pc'[v] # "idle" /\ pc'[u] # "idle" => req'[v].n # req'[u].n
  <2> SUFFICES ASSUME NEW v \in Workers, NEW u \in Workers,
                      v # u, pc'[v] # "idle", pc'[u] # "idle"
               PROVE  req'[v].n # req'[u].n
    OBVIOUS
  <2>1. CASE v # w /\ u # w BY <1>1, <2>1 DEF EvidenceInv
  <2>2. CASE v = w
    <3>1. u # w /\ pc[u] # "idle" /\ req'[u] = req[u] BY <1>1, <2>2
    <3> QED BY <1>0, <1>4, <2>2, <3>1
  <2>3. CASE u = w
    <3>1. v # w /\ pc[v] # "idle" /\ req'[v] = req[v] BY <1>1, <2>3
    <3> QED BY <1>0, <1>4, <2>3, <3>1
  <2> QED BY <2>1, <2>2, <2>3
<1>7. \A p \in performed' : p.n \in answered' /\ Risky(p.action) => Evidenced(p)'
  BY <1>0, EvidencedKept DEF EvidenceInv, AnsweredIsEvidenced, Evidenced
<1>8. AnsweredIsEvidenced' BY <1>7 DEF AnsweredIsEvidenced, Evidenced, Risky
<1>9. /\ \A p \in performed' : p.n <= requests'
      /\ \A n \in answered' : n <= requests'
  BY <1>0, <1>2, <1>3
<1> QED BY <1>5, <1>6, <1>8, <1>9 DEF EvidenceInv

(* The upstream call makes a performance the thread knows of.              *)
LEMMA SendTraced ==
  ASSUME TypeInv, EvidenceInv, NEW w \in Workers, SendDone(w) \/ SendFailed(w),
         NEW p \in performed', p.n = req[w].n, pc'[w] # "idle"
  PROVE  Traced(w, p)'
<1>0. /\ pc \in [Actors -> Labels] /\ req \in [Workers -> Request] /\ w \in Actors
      /\ pc[w] = "send"
      /\ performed' = performed \/ performed' = performed \cup {Performance(w)}
  BY DEF TypeInv, TypeOK, Actors, SendDone, SendFailed
<1>1. p \notin performed
  <2>1. ASSUME p \in performed PROVE Traced(w, p) BY <1>0, <2>1 DEF EvidenceInv
  <2> QED BY <1>0, <2>1 DEF Traced
<1>2. p = Performance(w) /\ performed' = performed \cup {Performance(w)} BY <1>0, <1>1
<1>3. p.action = req[w].action /\ p.approval_id = req[w].approval_id
  BY <1>2 DEF Performance
<1>4. req'[w].action = req[w].action /\ req'[w].approval_id = req[w].approval_id
  BY <1>0 DEF SendDone, SendFailed, Request
<1>5. CASE SendDone(w)
  <2>1. req'[w].status \in {"executed", "tunnelled"}
    BY <1>0, <1>5 DEF SendDone, Request
  <2>2. /\ pc'[w] \in {"sign", "answer"}
        /\ pc'[w] = "answer" => ~Risky(req[w].action)
    BY <1>0, <1>5 DEF SendDone, Goto, AfterSend
  <2> QED BY <1>3, <1>4, <2>1, <2>2 DEF Traced, Risky
<1>6. CASE SendFailed(w)
  <2>1. req[w].action \notin Tunnels BY <1>1, <1>6 DEF SendFailed
  <2>2. req'[w].status = "failed" /\ pc'[w] = "sign"
    BY <1>0, <1>6, <2>1 DEF SendFailed, Goto, Request
  <2> QED BY <1>3, <1>4, <2>2 DEF Traced
<1> QED BY <1>5, <1>6

(* The record a thread writes is the one of its performance.               *)
LEMMA WriteTraced ==
  ASSUME TypeInv, ChainInv, EvidenceInv, NEW w \in Workers, WriteRecord(w),
         NEW p \in performed, p.n = req[w].n
  PROVE  Traced(w, p)'
<1>0. /\ pc \in [Actors -> Labels] /\ w \in Actors /\ pc[w] = "write"
      /\ pc'[w] = "answer" /\ req' = req
  BY DEF TypeInv, TypeOK, Actors, WriteRecord, Goto
<1>1. Traced(w, p) BY <1>0 DEF EvidenceInv
<1>2. RecordOf(w) \in OnFile'
  <2>1. journal \in Seq(Line) /\ RecordOf(w) \in Record
    BY <1>0, RecordOfType DEF TypeInv, TypeOK
  <2>2. journal' = Append(journal, RecordOf(w)) BY DEF WriteRecord, Appended, ChainInv
  <2>3. /\ Len(journal) + 1 \in DOMAIN journal'
        /\ journal'[Len(journal) + 1] = RecordOf(w)
    BY <2>1, <2>2, AppendProperties, LenProperties DEF Line
  <2>4. RecordOf(w) # Torn BY <2>1, TornIsNoRecord
  <2> QED BY <2>3, <2>4 DEF OnFile, WholeLines
<1>3. Evidenced(p)'
  BY <1>1, <1>2 DEF Evidenced, Traced, RecordOf
<1> QED BY <1>0, <1>1, <1>3 DEF Traced

LEMMA EvidenceWorker ==
  ASSUME TypeInv, ChainInv, EvidenceInv, OnFileGrows, NEW w \in Workers, WorkerStep(w)
  PROVE  EvidenceInv'
<1>0. /\ pc \in [Actors -> Labels] /\ req \in [Workers -> Request] /\ w \in Actors
      /\ pc[w] # "idle" /\ requests' = requests
  BY DEF TypeInv, TypeOK, Actors, WorkerStep, Consume, SendDone, SendFailed, Sign,
         WriteRecord, WriteRefused, Answer
<1>1. \A v \in Workers \ {w} : pc'[v] = pc[v] /\ req'[v] = req[v]
  BY <1>0 DEF Actors, WorkerStep, Consume, SendDone, SendFailed, Sign, WriteRecord,
              WriteRefused, Answer, Goto, End
<1>2. CASE Consume(w)
  <2>1. req'[w].n = req[w].n BY <1>0, <1>2 DEF Consume, Request
  <2>2. performed' = performed /\ answered' = answered BY <1>2 DEF Consume, history
  <2>3. \A p \in performed : p.n # req[w].n
    BY <1>0, <1>2 DEF EvidenceInv, Traced, Consume
  <2> QED BY <1>0, <1>1, <2>1, <2>2, <2>3, EvidenceThread
<1>3. CASE SendDone(w) \/ SendFailed(w)
  <2>1. req'[w].n = req[w].n BY <1>0, <1>3 DEF SendDone, SendFailed, Request
  <2>2. /\ performed' = performed \/ performed' = performed \cup {Performance(w)}
        /\ answered' = answered
    BY <1>3 DEF SendDone, SendFailed
  <2>3. pc'[w] # "idle" => \A p \in performed' : p.n = req[w].n => Traced(w, p)'
    BY <1>3, SendTraced
  <2> QED BY <1>0, <1>1, <2>1, <2>2, <2>3, EvidenceThread
<1>4. CASE Sign(w)
  <2>1. /\ pc[w] = "sign" /\ pc'[w] = "write"
        /\ req' = [req EXCEPT ![w].prev_hash = last_hash]
        /\ performed' = performed /\ answered' = answered
    BY <1>0, <1>4 DEF Sign, Goto, history
  <2>2. /\ req'[w].n = req[w].n /\ req'[w].action = req[w].action
        /\ req'[w].approval_id = req[w].approval_id /\ req'[w].status = req[w].status
    BY <1>0, <2>1 DEF Request
  <2>3. ASSUME NEW p \in performed, p.n = req[w].n PROVE Traced(w, p)'
    <3>1. Traced(w, p) BY <1>0, <2>3 DEF EvidenceInv
    <3> QED BY <2>1, <2>2, <3>1 DEF Traced
  <2> QED BY <1>0, <1>1, <2>1, <2>2, <2>3, EvidenceThread
<1>5. CASE WriteRecord(w)
  <2>1. req' = req /\ performed' = performed /\ answered' = answered
    BY <1>5 DEF WriteRecord
  <2>2. \A p \in performed : p.n = req[w].n => Traced(w, p)' BY <1>5, WriteTraced
  <2> QED BY <1>0, <1>1, <2>1, <2>2, EvidenceThread
<1>6. CASE WriteRefused(w)
  <2>1. pc'[w] = "idle" /\ performed' = performed /\ answered' = answered
    BY <1>0, <1>6 DEF WriteRefused, End, history
  <2> QED BY <1>0, <1>1, <2>1, EvidenceThread
<1>7. CASE Answer(w)
  <2>1. /\ pc[w] = "answer" /\ pc'[w] = "idle" /\ performed' = performed
        /\ answered' = answered \cup {req[w].n}
    BY <1>0, <1>7 DEF Answer, End
  <2> QED BY <1>0, <1>1, <2>1, EvidenceThread
<1> QED BY <1>2, <1>3, <1>4, <1>5, <1>6, <1>7 DEF WorkerStep

LEMMA EvidenceNext ==
  ASSUME ~CutWrites, ~DiskFaults, TypeInv, ChainInv, EvidenceInv, [Next]_vars
  PROVE  EvidenceInv'
<1>0. /\ OnFileGrows
      /\ pc \in [Actors -> Labels] /\ req \in [Workers -> Request]
      /\ \A w \in Workers : w \in Actors
  BY OnFileNext DEF TypeInv, TypeOK, Actors
<1>1. ASSUME NEW w \in Workers, WorkerStep(w) PROVE EvidenceInv'
  BY <1>0, <1>1, EvidenceWorker
<1>2. ASSUME NEW w \in Workers, NEW a \in Actions, NEW token \in {NoToken} \cup Ids,
             Receive(w, a, token)
      PROVE  EvidenceInv'
  BY <1>0, <1>2, EvidenceReceive
<1>3. ASSUME NEW x \in Actors, WriteTmp(x) PROVE EvidenceInv'
  <2>1. UNCHANGED <<requests, performed, answered>> BY <1>3 DEF WriteTmp, history
  <2>2. CASE x \in Workers /\ pc'[x] = "rename"
    <3>1. \A p \in performed : p.n # req[x].n
      BY <1>3, <2>2 DEF EvidenceInv, Traced, WriteTmp
    <3>2. req' = req /\ \A v \in Workers \ {x} : pc'[v] = pc[v]
      BY <1>0, <1>3, <2>2 DEF WriteTmp, Goto, End
    <3>3. pc[x] # "idle" BY <1>3 DEF WriteTmp
    <3> QED BY <1>0, <2>1, <2>2, <3>1, <3>2, <3>3, EvidenceThread
  <2>3. CASE ~(x \in Workers /\ pc'[x] = "rename")
    <3>1. \A v \in Workers : \/ pc'[v] = pc[v] /\ req'[v] = req[v]
                             \/ pc'[v] = "idle"
      BY <1>0, <1>3, <2>3 DEF WriteTmp, Goto, End
    <3> QED BY <1>0, <2>1, <3>1, EvidenceFrame
  <2> QED BY <2>2, <2>3
<1>4. ASSUME NEW x \in Actors, Rename(x) PROVE EvidenceInv'
  <2>1. UNCHANGED <<requests, performed, answered>> BY <1>4 DEF Rename, history
  <2>2. CASE x \in Workers /\ pc'[x] = "send"
    <3>1. \A p \in performed : p.n # req[x].n
      BY <1>4, <2>2 DEF EvidenceInv, Traced, Rename
    <3>2. req' = req /\ \A v \in Workers \ {x} : pc'[v] = pc[v]
      BY <1>0, <1>4, <2>2 DEF Rename, Goto, End
    <3>3. pc[x] # "idle" BY <1>4 DEF Rename
    <3> QED BY <1>0, <2>1, <2>2, <3>1, <3>2, <3>3, EvidenceThread
  <2>3. CASE ~(x \in Workers /\ pc'[x] = "send")
    <3>1. \A v \in Workers : \/ pc'[v] = pc[v] /\ req'[v] = req[v]
                             \/ pc'[v] = "idle"
      BY <1>0, <1>4, <2>3 DEF Rename, Goto, End
    <3> QED BY <1>0, <2>1, <3>1, EvidenceFrame
  <2> QED BY <2>2, <2>3
<1>5. ASSUME NEW g \in Granters, NEW id \in Ids, NEW a \in Actions,
             GrantInProcess(g, id, a)
      PROVE  EvidenceInv'
  <2>1. /\ UNCHANGED <<requests, performed, answered>>
        /\ \A v \in Workers : pc'[v] = pc[v] /\ req'[v] = req[v]
    BY <1>0, <1>5, AssuranceAssumption DEF GrantInProcess, Goto
  <2> QED BY <1>0, <2>1, EvidenceFrame
<1>6. ASSUME \/ \E id \in Ids, a \in Actions : CliLoad(id, a)
             \/ CliGrant \/ CliRename \/ Start \/ Stop \/ Tick \/ UNCHANGED vars
      PROVE  EvidenceInv'
  <2>1. UNCHANGED <<requests, performed, answered>>
    BY <1>6 DEF CliLoad, CliGrant, CliRename, Start, Stop, Tick, vars, proc, history
  <2>2. \A v \in Workers : \/ pc'[v] = pc[v] /\ req'[v] = req[v]
                           \/ pc'[v] = "idle"
    BY <1>0, <1>6 DEF CliLoad, CliGrant, CliRename, Start, Stop, Tick, vars, proc
  <2> QED BY <1>0, <2>1, <2>2, EvidenceFrame
<1> QED BY <1>1, <1>2, <1>3, <1>4, <1>5, <1>6 DEF Next, Save

(* On a sound disk an agent that got its answer to an action above the     *)
(* threshold that reached the service can be shown the record of it: with  *)
(* its number, its action and its approval, wherever the process stopped   *)
(* and however the handler threads interleave.                             *)
THEOREM AnswersAreEvidenced ==
  ASSUME ~CutWrites, ~DiskFaults
  PROVE  Spec => []AnsweredIsEvidenced
<1> DEFINE IInv == TypeInv /\ ChainInv /\ EvidenceInv
<1>1. Init => IInv BY TypeInit, ChainInit, EvidenceInit
<1>2. IInv /\ [Next]_vars => IInv'
  BY TypeNext, ChainNext, EvidenceNext
<1>3. IInv => AnsweredIsEvidenced BY DEF EvidenceInv
<1> QED BY <1>1, <1>2, <1>3, PTL DEF Spec

-----------------------------------------------------------------------------
(***************************************************************************)
(* A journal that verifies is complete, on a disk that may fail.  A line   *)
(* is lost by being joined to another one, and what they leave is a line   *)
(* that does not parse, which no later write repairs.                      *)
(***************************************************************************)

Whole(j) == \A i \in DOMAIN j : j[i] # Torn

CompleteInv == Whole(journal) => \A n \in completed : Recorded(n)

(* After a write that leaves only whole lines, those there were remain,    *)
(* and the line written is one of them.                                    *)
LEMMA AppendedWhole ==
  ASSUME TypeInv, NEW line \in Line, journal' = Appended(line), Whole(journal')
  PROVE  /\ Whole(journal) /\ line # Torn
         /\ line \in OnFile' /\ \A r \in OnFile : r \in OnFile'
<1>0. journal \in Seq(Line) /\ (tailOpen => journal # << >>)
  BY DEF TypeInv, TypeOK
<1>1. ~tailOpen
  <2> SUFFICES ASSUME tailOpen PROVE FALSE OBVIOUS
  <2>1. Len(journal) \in DOMAIN journal BY <1>0
  <2>2. journal' = [journal EXCEPT ![Len(journal)] = Torn] BY DEF Appended
  <2>3. Len(journal) \in DOMAIN journal' /\ journal'[Len(journal)] = Torn
    BY <2>1, <2>2
  <2> QED BY <2>3 DEF Whole
<1>2. journal' = Append(journal, line) BY <1>1 DEF Appended
<1>3. /\ DOMAIN journal = 1..Len(journal) /\ DOMAIN journal' = 1..(Len(journal) + 1)
      /\ Len(journal) \in Nat /\ journal'[Len(journal) + 1] = line
      /\ \A i \in 1..Len(journal) : journal'[i] = journal[i]
  BY <1>0, <1>2, AppendProperties, LenProperties
<1>4. \A i \in DOMAIN journal : i \in DOMAIN journal' /\ journal'[i] = journal[i]
  BY <1>3
<1>5. Len(journal) + 1 \in DOMAIN journal' BY <1>3
<1>6. Whole(journal) /\ line # Torn BY <1>3, <1>4, <1>5 DEF Whole
<1>7. \A i \in DOMAIN journal' : i \in WholeLines' BY DEF Whole, WholeLines
<1> QED BY <1>3, <1>4, <1>5, <1>6, <1>7 DEF OnFile, WholeLines

LEMMA CompleteNext ==
  ASSUME TypeInv, CompleteInv, [Next]_vars
  PROVE  CompleteInv'
<1>1. CASE UNCHANGED <<journal, completed>>
  BY <1>1 DEF CompleteInv, Whole, Recorded, OnFile, WholeLines
<1>2. ASSUME NEW line \in Line, journal' = Appended(line), completed' = completed
      PROVE  CompleteInv'
  BY <1>2, AppendedWhole DEF CompleteInv, Recorded
<1>3. ASSUME NEW w \in Workers, WriteRecord(w) PROVE CompleteInv'
  <2>1. RecordOf(w) \in Line /\ RecordOf(w).id = req[w].n
    BY <1>3, RecordOfType DEF WriteRecord, RecordOf
  <2>2. journal' = Appended(RecordOf(w)) /\ completed' = completed \cup {req[w].n}
    BY <1>3 DEF WriteRecord
  <2> QED BY <2>1, <2>2, AppendedWhole DEF CompleteInv, Recorded
<1>4. ASSUME NEW w \in Workers, WriteRefused(w) PROVE CompleteInv'
  <2>1. Torn \in Line BY DEF Line
  <2>2. /\ completed' = completed
        /\ journal' = journal \/ journal' = Appended(Torn)
    BY <1>4 DEF WriteRefused, history
  <2> QED BY <1>1, <1>2, <2>1, <2>2
<1>5. CASE Stop
  <2>1. completed' = completed BY <1>5 DEF Stop, history
  <2>2. \/ journal' = journal
        \/ \E w \in Workers : /\ pc[w] = "write"
                              /\ journal' = Appended(Torn) \/ journal' = Appended(RecordOf(w))
    BY <1>5 DEF Stop, LeftBehind
  <2>3. Torn \in Line BY DEF Line
  <2>4. \A w \in Workers : pc[w] = "write" => RecordOf(w) \in Line BY RecordOfType
  <2> QED BY <1>1, <1>2, <2>1, <2>2, <2>3, <2>4
<1>6. \/ UNCHANGED <<journal, completed>> \/ Stop
      \/ \E w \in Workers : WriteRecord(w) \/ WriteRefused(w)
  BY DEF Next, WorkerStep, Save, vars, evidence, history, Consume, SendDone, SendFailed,
         Sign, Answer, Receive, GrantInProcess, WriteTmp, Rename, CliLoad, CliGrant,
         CliRename, Start, Tick
<1> QED BY <1>1, <1>3, <1>4, <1>5, <1>6

(* Whatever the disk cuts or refuses and wherever the process stops, a     *)
(* journal that run_verify accepts holds every record whose append         *)
(* returned: a loss always shows.                                          *)
THEOREM VerifiedIsComplete == Spec => []VerifiedMeansComplete
<1> DEFINE IInv == TypeInv /\ CompleteInv
<1>1. Init => IInv
  <2>1. Init => CompleteInv BY DEF Init, CompleteInv
  <2> QED BY <2>1, TypeInit
<1>2. IInv /\ [Next]_vars => IInv'
  BY TypeNext, CompleteNext
<1>3. IInv => VerifiedMeansComplete
  <2>1. WholeLines = DOMAIN journal => Whole(journal) BY DEF WholeLines, Whole
  <2> QED BY <2>1 DEF CompleteInv, VerifiedMeansComplete, JournalVerifies
<1> QED BY <1>1, <1>2, <1>3, PTL DEF Spec

(***************************************************************************)
(* An approval serves once, for every policy, every number of threads and  *)
(* every bound, on a disk that may fail: as long as the approve command    *)
(* does not run beside a live proxy.                                       *)
(*                                                                         *)
(* The argument is an account.  The performances an approval has let       *)
(* through, those a thread is still entitled to, and the one the unspent   *)
(* approval would allow, are together no more than the grants: once for    *)
(* the store in memory, and once, should the process stop now, for the     *)
(* file the next one will load.                                            *)
(***************************************************************************)
(* What the threads at one of the places would still perform with id. *)
Held(id, places) ==
  {Performance(w) : w \in {v \in Workers : /\ pc[v] \in places
                                           /\ req[v].approval_id = id}}

Claims(id) == UsesOf(id) \cup Held(id, {"save", "rename", "send"})

Sent(id) == UsesOf(id) \cup Held(id, {"send"})

Unspent(s, id) == s[id] # NoApproval /\ ~s[id].spent

(* The uses S of an approval, and the one it still allows, were granted. *)
Covered(S, unspent, grants) ==
  /\ IsFiniteSet(S)
  /\ Cardinality(S) + (IF unspent THEN 1 ELSE 0) <= grants

MemoryCovered ==
  up => \A id \in Ids : Covered(Claims(id), Unspent(approvals, id), granted[id])

FileCovered ==
  \A id \in Ids : Covered(Sent(id), Unspent(approvalsFile, id), granted[id])

(* consume and grant save the store before they give its lock back. *)
SaveInv ==
  /\ \A x \in Actors : pc[x] \in {"save", "rename"} => approvalsLock = x
  /\ \A x \in Actors : pc[x] = "rename" => approvalsTmp = approvals
  /\ \A x \in Actors : ~up => pc[x] = "idle"

(* The approve command works on the file of a stopped proxy. *)
CommandInv ==
  /\ cli.pc # "idle" => ~up
  /\ cli.pc = "grant" => cli.store = approvalsFile
  /\ cli.pc = "rename" =>
       /\ approvalsTmp = cli.store
       /\ \A id \in Ids : Covered(Sent(id), Unspent(cli.store, id), granted[id])

OnceInv == MemoryCovered /\ FileCovered /\ SaveInv /\ CommandInv

-----------------------------------------------------------------------------
LEMMA CoveredLess ==
  ASSUME NEW S, NEW T \in SUBSET S, NEW u, NEW v, v => u,
         NEW g \in Nat, NEW h \in Nat, g <= h, Covered(S, u, g)
  PROVE  Covered(T, v, h)
<1>1. IsFiniteSet(S) BY DEF Covered
<1>2. /\ IsFiniteSet(T) /\ Cardinality(T) <= Cardinality(S)
      /\ Cardinality(S) \in Nat /\ Cardinality(T) \in Nat
  BY <1>1, FS_Subset, FS_CardinalityType
<1> QED BY <1>2 DEF Covered

(* Spending the approval pays for one more claim. *)
LEMMA CoveredClaim ==
  ASSUME NEW S, NEW x, NEW T \in SUBSET (S \cup {x}), NEW u, u, NEW v, ~v,
         NEW g \in Nat, Covered(S, u, g)
  PROVE  Covered(T, v, g)
<1>1. IsFiniteSet(S) BY DEF Covered
<1>2. /\ IsFiniteSet(S \cup {x}) /\ Cardinality(S) \in Nat
      /\ Cardinality(S \cup {x}) \in Nat
      /\ Cardinality(S \cup {x}) <= Cardinality(S) + 1
  BY <1>1, FS_AddElement, FS_CardinalityType
<1>3. /\ IsFiniteSet(T) /\ Cardinality(T) <= Cardinality(S \cup {x})
      /\ Cardinality(T) \in Nat
  BY <1>2, FS_Subset, FS_CardinalityType
<1> QED BY <1>2, <1>3 DEF Covered

(* A grant pays for an approval that is unspent again. *)
LEMMA CoveredGrant ==
  ASSUME NEW S, NEW T \in SUBSET S, NEW u, NEW v, NEW g \in Nat, Covered(S, u, g)
  PROVE  Covered(T, v, g + 1)
<1>1. IsFiniteSet(S) BY DEF Covered
<1>2. /\ IsFiniteSet(T) /\ Cardinality(T) <= Cardinality(S)
      /\ Cardinality(S) \in Nat /\ Cardinality(T) \in Nat
  BY <1>1, FS_Subset, FS_CardinalityType
<1> QED BY <1>2 DEF Covered

-----------------------------------------------------------------------------
LEMMA OnceInit == Init => OnceInv
<1> SUFFICES ASSUME Init PROVE OnceInv OBVIOUS
<1>1. \A w \in Actors : pc[w] = "idle" BY DEF Init
<1>2. \A id \in Ids : Claims(id) = {} /\ Sent(id) = {}
  BY <1>1 DEF Claims, Sent, Held, UsesOf, Init, Actors
<1>3. \A id \in Ids : ~Unspent(NoGrants, id) BY DEF Unspent, NoGrants
<1>4. \A id \in Ids : granted[id] = 0 /\ approvals = NoGrants /\ approvalsFile = NoGrants
  BY DEF Init
<1>5. Covered({}, FALSE, 0) BY FS_EmptySet DEF Covered
<1>6. \A id \in Ids : /\ Covered(Claims(id), Unspent(approvals, id), granted[id])
                      /\ Covered(Sent(id), Unspent(approvalsFile, id), granted[id])
  <2> SUFFICES ASSUME NEW id \in Ids
               PROVE  /\ Covered(Claims(id), Unspent(approvals, id), granted[id])
                      /\ Covered(Sent(id), Unspent(approvalsFile, id), granted[id])
    OBVIOUS
  <2> QED BY <1>2, <1>3, <1>4, <1>5 DEF Covered
<1>7. cli.pc = "idle" BY DEF Init, NoCommand
<1> QED BY <1>1, <1>6, <1>7 DEF OnceInv, MemoryCovered, FileCovered, SaveInv, CommandInv

(* A thread entitled to perform with an approval after a step that is not  *)
(* its consume was entitled to it before; it begins to send by the rename. *)
LEMMA HolderStep ==
  ASSUME TypeInv, [Next]_vars, NEW v \in Workers, ~Consume(v),
         pc'[v] \in {"save", "rename", "send"}, req'[v].approval_id \in Ids
  PROVE  /\ req'[v] = req[v]
         /\ pc[v] \in {"save", "rename", "send"}
         /\ pc'[v] = "send" => pc[v] = "send" \/ Rename(v)
<1>0. /\ pc \in [Actors -> Labels] /\ req \in [Workers -> Request]
      /\ \A w \in Workers : w \in Actors
  BY DEF TypeInv, TypeOK, Actors
<1> DEFINE Same == pc'[v] = pc[v] /\ req'[v] = req[v]
<1>1. ASSUME NEW w \in Workers, WorkerStep(w) PROVE Same
  <2>1. CASE w # v
    BY <1>0, <1>1, <2>1 DEF WorkerStep, Consume, SendDone, SendFailed, Sign, WriteRecord,
                            WriteRefused, Answer, Goto, End
  <2>2. CASE w = v
    BY <1>0, <1>1, <2>2 DEF WorkerStep, SendDone, SendFailed, Sign, WriteRecord,
                            WriteRefused, Answer, Goto, AfterSend, End
  <2> QED BY <2>1, <2>2
<1>2. ASSUME NEW w \in Workers, NEW a \in Actions, NEW token \in {NoToken} \cup Ids,
             Receive(w, a, token)
      PROVE  Same
  <2>1. CASE w # v BY <1>0, <1>2, <2>1 DEF Receive, Goto
  <2>2. CASE w = v
    <3>1. req'[v].approval_id = NoToken BY <1>0, <1>2, <2>2 DEF Receive
    <3> QED BY <3>1, AssuranceAssumption DEF Ids, NoToken
  <2> QED BY <2>1, <2>2
<1>3. ASSUME NEW g \in Granters, NEW id \in Ids, NEW a \in Actions,
             GrantInProcess(g, id, a)
      PROVE  Same
  BY <1>0, <1>3, AssuranceAssumption DEF GrantInProcess, Goto
<1>4. ASSUME NEW x \in Actors, Save(x)
      PROVE  \/ Same
             \/ /\ x = v /\ req'[v] = req[v] /\ pc[v] \in {"save", "rename"}
                /\ pc'[v] = "send" => Rename(v)
  <2>1. CASE x # v BY <1>0, <1>4, <2>1 DEF Save, WriteTmp, Rename, Goto, End
  <2>2. CASE x = v /\ WriteTmp(x) BY <1>0, <2>2 DEF WriteTmp, Goto, End
  <2>3. CASE x = v /\ Rename(x) BY <1>0, <2>3 DEF Rename, Goto, End
  <2> QED BY <1>4, <2>1, <2>2, <2>3 DEF Save
<1>5. ASSUME \/ \E id \in Ids, a \in Actions : CliLoad(id, a)
             \/ CliGrant \/ CliRename \/ Start \/ Tick \/ UNCHANGED vars
      PROVE  Same
  BY <1>5 DEF CliLoad, CliGrant, CliRename, Start, Tick, vars, proc
<1>6. CASE Stop BY <1>0, <1>6 DEF Stop
<1> QED BY <1>1, <1>2, <1>3, <1>4, <1>5, <1>6 DEF Next

(* A step performs only what a sending thread was entitled to.             *)
LEMMA UsesStep ==
  ASSUME TypeInv, [Next]_vars, NEW id \in Ids
  PROVE  UsesOf(id)' \subseteq Sent(id)
<1>1. ASSUME NEW w \in Workers, SendDone(w) \/ SendFailed(w)
      PROVE  UsesOf(id)' \subseteq Sent(id)
  <2>1. performed' \subseteq performed \cup {Performance(w)} /\ pc[w] = "send"
    BY <1>1 DEF SendDone, SendFailed
  <2>2. Performance(w).approval_id = req[w].approval_id BY DEF Performance
  <2> QED BY <2>1, <2>2 DEF UsesOf, Sent, Held
<1>2. CASE UNCHANGED performed BY <1>2 DEF UsesOf, Sent
<1>3. UNCHANGED performed \/ \E w \in Workers : SendDone(w) \/ SendFailed(w)
  BY DEF Next, WorkerStep, Save, vars, history, Consume, Sign, WriteRecord, WriteRefused,
         Answer, Receive, GrantInProcess, WriteTmp, Rename, CliLoad, CliGrant, CliRename,
         Stop, Start, Tick
<1> QED BY <1>1, <1>2, <1>3

(* The claims of a step that consumes nothing are claims already made.     *)
LEMMA ClaimsStep ==
  ASSUME TypeInv, [Next]_vars, NEW id \in Ids,
         \A w \in Workers : Consume(w) => req'[w].approval_id # id
  PROVE  Claims(id)' \subseteq Claims(id)
<1>1. UsesOf(id)' \subseteq Claims(id)
  BY UsesStep DEF Sent, Claims, Held
<1>2. ASSUME NEW v \in Workers, pc'[v] \in {"save", "rename", "send"},
             req'[v].approval_id = id
      PROVE  Performance(v)' \in Claims(id)
  <2>1. ~Consume(v) BY <1>2
  <2>2. req'[v] = req[v] /\ pc[v] \in {"save", "rename", "send"}
    BY <1>2, <2>1, HolderStep
  <2>3. Performance(v)' = Performance(v) BY <2>2 DEF Performance
  <2> QED BY <1>2, <2>2, <2>3 DEF Claims, Held
<1> QED BY <1>1, <1>2 DEF Claims, Held

(* What is sent, or on its way, grows by a rename only. *)
LEMMA SentStep ==
  ASSUME TypeInv, [Next]_vars, NEW id \in Ids,
         \A x \in Workers : Rename(x) => pc'[x] # "send"
  PROVE  Sent(id)' \subseteq Sent(id)
<1>1. UsesOf(id)' \subseteq Sent(id) BY UsesStep
<1>2. ASSUME NEW v \in Workers, pc'[v] = "send", req'[v].approval_id = id
      PROVE  Performance(v)' \in Sent(id)
  <2>1. ~Consume(v)
    BY <1>2 DEF Consume, Goto, TypeInv, TypeOK, Actors
  <2>2. req'[v] = req[v] /\ pc[v] = "send"
    BY <1>2, <2>1, HolderStep
  <2>3. Performance(v)' = Performance(v) BY <2>2 DEF Performance
  <2> QED BY <1>2, <2>2, <2>3 DEF Sent, Held
<1> QED BY <1>1, <1>2 DEF Sent, Held

LEMMA GrantedNext ==
  ASSUME TypeInv, [Next]_vars, NEW id \in Ids
  PROVE  granted[id] \in Nat /\ granted'[id] \in Nat /\ granted[id] <= granted'[id]
<1>0. granted \in [Ids -> Nat] BY DEF TypeInv, TypeOK
<1>1. ASSUME NEW g \in Granters, NEW i \in Ids, NEW a \in Actions,
             GrantInProcess(g, i, a)
      PROVE  granted' = [granted EXCEPT ![i] = @ + 1]
  BY <1>1 DEF GrantInProcess
<1>2. CASE CliGrant BY <1>0, <1>2 DEF CliGrant
<1>3. CASE UNCHANGED granted BY <1>0, <1>3
<1>4. \/ UNCHANGED granted \/ CliGrant
      \/ \E g \in Granters, i \in Ids, a \in Actions : GrantInProcess(g, i, a)
  BY DEF Next, WorkerStep, Save, vars, history, Consume, SendDone, SendFailed, Sign,
         WriteRecord, WriteRefused, Answer, Receive, WriteTmp, Rename, CliLoad,
         CliRename, Stop, Start, Tick
<1> QED BY <1>0, <1>1, <1>2, <1>3, <1>4

-----------------------------------------------------------------------------
(* Consuming an approval turns what it allowed into a claim.               *)
LEMMA ConsumeCovered ==
  ASSUME TypeInv, OnceInv, [Next]_vars, NEW w \in Workers, Consume(w), NEW id \in Ids,
         up
  PROVE  Covered(Claims(id), Unspent(approvals, id), granted[id])'
<1>0. /\ pc \in [Actors -> Labels] /\ req \in [Workers -> Request]
      /\ approvals \in Store /\ w \in Actors
      /\ granted[id] \in Nat /\ granted' = granted
  BY DEF TypeInv, TypeOK, Actors, Consume, history
<1>1. Covered(Claims(id), Unspent(approvals, id), granted[id])
  BY DEF OnceInv, MemoryCovered
<1>2. CASE req'[w].approval_id # id \/ ~Usable(approvals, req[w].token, req[w].action)
  <2>1. Claims(id)' \subseteq Claims(id)
    <3>1. CASE req'[w].approval_id # id
      <4>1. ASSUME NEW x \in Workers, Consume(x) PROVE x = w
        BY <1>0, <4>1 DEF Consume, Goto, Actors
      <4> QED BY <3>1, <4>1, ClaimsStep
    <3>2. CASE ~Usable(approvals, req[w].token, req[w].action)
      <4>1. performed' = performed /\ pc'[w] = "sign"
        BY <1>0, <3>2 DEF Consume, Goto, history
      <4>2. \A v \in Workers \ {w} : pc'[v] = pc[v] /\ req'[v] = req[v]
        BY <1>0 DEF Consume, Goto, Actors
      <4>3. \A v \in Workers \ {w} : Performance(v)' = Performance(v)
        BY <4>2 DEF Performance
      <4> QED BY <4>1, <4>2, <4>3 DEF Claims, Held, UsesOf
    <3> QED BY <1>2, <3>1, <3>2
  <2>2. Unspent(approvals', id) => Unspent(approvals, id)
    <3>1. CASE UNCHANGED approvals BY <3>1
    <3>2. CASE /\ approvals' = Spend(approvals, req[w].token)
               /\ req' = [req EXCEPT ![w].approval_id = req[w].token]
      <4>1. CASE id # req[w].token
        BY <1>0, <3>2, <4>1 DEF Spend, Unspent, Store
      <4>2. CASE id = req[w].token
        BY <1>0, <1>2, <3>2, <4>2 DEF Request, Consume, Goto, store
      <4> QED BY <4>1, <4>2
    <3> QED BY <3>1, <3>2 DEF Consume, store
  <2> QED BY <1>0, <1>1, <2>1, <2>2, CoveredLess
<1>3. CASE req'[w].approval_id = id /\ Usable(approvals, req[w].token, req[w].action)
  <2>1. /\ approvals' = Spend(approvals, req[w].token)
        /\ req' = [req EXCEPT ![w].approval_id = req[w].token]
    BY <1>3 DEF Consume
  <2>2. req'[w].approval_id = req[w].token BY <1>0, <2>1 DEF Request
  <2>3. req[w].token = id BY <1>3, <2>2
  <2>4. Unspent(approvals, id) BY <1>3, <2>3 DEF Usable, Unspent
  <2>5. ~Unspent(approvals', id)
    <3>1. approvals[id] \in Approval BY <1>0, <2>4 DEF Unspent, Store
    <3>2. approvals'[id] = [approvals[id] EXCEPT !.spent = TRUE]
      BY <1>0, <2>1, <2>3 DEF Spend, Store
    <3> QED BY <3>1, <3>2 DEF Unspent, Approval
  <2>6. Claims(id)' \subseteq Claims(id) \cup {Performance(w)'}
    <3>1. \A v \in Workers \ {w} : pc'[v] = pc[v] /\ req'[v] = req[v]
      BY <1>0 DEF Consume, Goto, Actors
    <3>2. \A v \in Workers \ {w} : Performance(v)' = Performance(v)
      BY <3>1 DEF Performance
    <3>3. performed' = performed BY DEF Consume, history
    <3> QED BY <3>1, <3>2, <3>3 DEF Claims, Held, UsesOf
  <2> QED BY <1>0, <1>1, <2>4, <2>5, <2>6, CoveredClaim
<1> QED BY <1>2, <1>3

(* A grant of the running process pays for the approval it makes usable.   *)
LEMMA GrantCovered ==
  ASSUME TypeInv, OnceInv, [Next]_vars, up, NEW g \in Granters, NEW i \in Ids,
         NEW a \in Actions, GrantInProcess(g, i, a), NEW id \in Ids
  PROVE  Covered(Claims(id), Unspent(approvals, id), granted[id])'
<1>0. /\ approvals \in Store /\ granted \in [Ids -> Nat]
      /\ pc \in [Actors -> Labels] /\ g \in Actors
  BY DEF TypeInv, TypeOK, Actors
<1>1. Covered(Claims(id), Unspent(approvals, id), granted[id])
  BY DEF OnceInv, MemoryCovered
<1>2. Claims(id)' \subseteq Claims(id)
  <2>1. ASSUME NEW w \in Workers, Consume(w) PROVE FALSE
    <3>1. pc'[g] = "save" /\ pc[g] = "idle" BY <1>0 DEF GrantInProcess, Goto
    <3>2. pc'[g] = pc[g] BY <1>0, <2>1, AssuranceAssumption DEF Consume, Goto, Actors
    <3> QED BY <3>1, <3>2
  <2> QED BY <2>1, ClaimsStep
<1>3. CASE id = i
  <2>1. granted'[id] = granted[id] + 1 BY <1>0, <1>3 DEF GrantInProcess
  <2> QED BY <1>0, <1>1, <1>2, <2>1, CoveredGrant
<1>4. CASE id # i
  <2>1. granted'[id] = granted[id] /\ approvals'[id] = approvals[id]
    BY <1>0, <1>4 DEF GrantInProcess, Store
  <2>2. Unspent(approvals, id)' = Unspent(approvals, id) BY <2>1 DEF Unspent
  <2> QED BY <1>0, <1>1, <1>2, <2>1, <2>2, CoveredLess
<1> QED BY <1>3, <1>4

LEMMA MemoryNext ==
  ASSUME TypeInv, OnceInv, [Next]_vars
  PROVE  MemoryCovered'
<1> SUFFICES ASSUME up', NEW id \in Ids
             PROVE  Covered(Claims(id), Unspent(approvals, id), granted[id])'
  BY DEF MemoryCovered
<1>0. granted[id] \in Nat /\ granted'[id] \in Nat /\ granted[id] <= granted'[id]
  BY GrantedNext
<1>1. CASE Start
  <2>1. Covered(Sent(id), Unspent(approvalsFile, id), granted[id])
    BY DEF OnceInv, FileCovered
  <2>2. approvals' = approvalsFile /\ pc' = pc /\ performed' = performed
    BY <1>1 DEF Start, StoreOnFile, history
  <2>3. \A w \in Workers : pc[w] = "idle" BY <1>1 DEF Start, OnceInv, SaveInv, Actors
  <2>4. Claims(id)' \subseteq Sent(id) BY <2>2, <2>3 DEF Claims, Sent, Held, UsesOf
  <2>5. Unspent(approvals, id)' = Unspent(approvalsFile, id) BY <2>2 DEF Unspent
  <2> QED BY <1>0, <2>1, <2>4, <2>5, CoveredLess
<1>2. CASE Stop BY <1>2 DEF Stop
<1>3. CASE ~Start /\ ~Stop
  <2>0. up
    BY <1>3 DEF Next, WorkerStep, Save, vars, proc, Consume, SendDone, SendFailed, Sign,
         WriteRecord, WriteRefused, Answer, Receive, GrantInProcess, WriteTmp, Rename,
         CliLoad, CliGrant, CliRename, Tick
  <2>1. ASSUME NEW w \in Workers, Consume(w)
        PROVE  Covered(Claims(id), Unspent(approvals, id), granted[id])'
    BY <2>0, <2>1, ConsumeCovered
  <2>2. ASSUME NEW g \in Granters, NEW i \in Ids, NEW a \in Actions,
               GrantInProcess(g, i, a)
        PROVE  Covered(Claims(id), Unspent(approvals, id), granted[id])'
    BY <2>0, <2>2, GrantCovered
  <2>3. CASE UNCHANGED approvals /\ \A w \in Workers : ~Consume(w)
    <3>1. Covered(Claims(id), Unspent(approvals, id), granted[id])
      BY <2>0 DEF OnceInv, MemoryCovered
    <3>2. Claims(id)' \subseteq Claims(id) BY <2>3, ClaimsStep
    <3>3. Unspent(approvals, id)' = Unspent(approvals, id) BY <2>3 DEF Unspent
    <3> QED BY <1>0, <3>1, <3>2, <3>3, CoveredLess
  <2>4. \/ UNCHANGED approvals
        \/ \E w \in Workers : Consume(w)
        \/ \E g \in Granters, i \in Ids, a \in Actions : GrantInProcess(g, i, a)
    BY <1>3 DEF Next, WorkerStep, Save, vars, store, SendDone, SendFailed, Sign,
         WriteRecord, WriteRefused, Answer, Receive, WriteTmp, Rename,
         CliLoad, CliGrant, CliRename, Tick
  <2> QED BY <2>1, <2>2, <2>3, <2>4
<1> QED BY <1>1, <1>2, <1>3

(* The rename of a thread puts on file the store it took its claim from.   *)
LEMMA RenameCovered ==
  ASSUME TypeInv, OnceInv, [Next]_vars, NEW x \in Actors, Rename(x), NEW id \in Ids
  PROVE  Covered(Sent(id), Unspent(approvalsFile, id), granted[id])'
<1>0. /\ granted[id] \in Nat /\ granted' = granted /\ up
      /\ pc \in [Actors -> Labels]
  BY GrantedNext DEF Rename, history, OnceInv, SaveInv, TypeInv, TypeOK
<1>1. ASSUME NEW w \in Workers, Consume(w) PROVE FALSE
  <2>1. approvalsLock = Free /\ approvalsLock = x
    BY <1>1 DEF Consume, Rename, OnceInv, SaveInv
  <2> QED BY <2>1, AssuranceAssumption
<1>2. CASE approvalsTmp = NoFile
  <2>1. Covered(Sent(id), Unspent(approvalsFile, id), granted[id])
    BY DEF OnceInv, FileCovered
  <2>2. \A y \in Workers : Rename(y) => pc'[y] # "send"
    <3>1. ASSUME NEW y \in Workers, Rename(y) PROVE pc'[y] # "send"
      BY <1>0, <1>2, <3>1 DEF Rename, End, Actors
    <3> QED BY <3>1
  <2>3. Sent(id)' \subseteq Sent(id) BY <2>2, SentStep
  <2>4. approvalsFile' = approvalsFile BY <1>2 DEF Rename
  <2>5. Unspent(approvalsFile, id)' = Unspent(approvalsFile, id) BY <2>4 DEF Unspent
  <2> QED BY <1>0, <2>1, <2>3, <2>5, CoveredLess
<1>3. CASE approvalsTmp # NoFile
  <2>1. Covered(Claims(id), Unspent(approvals, id), granted[id])
    BY <1>0 DEF OnceInv, MemoryCovered
  <2>2. approvalsFile' = approvals BY <1>3 DEF Rename, OnceInv, SaveInv
  <2>3. Claims(id)' \subseteq Claims(id) BY <1>1, ClaimsStep
  <2>4. Sent(id)' \subseteq Claims(id)' BY DEF Sent, Claims, Held
  <2>5. Unspent(approvalsFile, id)' = Unspent(approvals, id) BY <2>2 DEF Unspent
  <2> QED BY <1>0, <2>1, <2>3, <2>4, <2>5, CoveredLess
<1> QED BY <1>2, <1>3

LEMMA FileNext ==
  ASSUME TypeInv, OnceInv, [Next]_vars
  PROVE  FileCovered'
<1> SUFFICES ASSUME NEW id \in Ids
             PROVE  Covered(Sent(id), Unspent(approvalsFile, id), granted[id])'
  BY DEF FileCovered
<1>0. granted[id] \in Nat /\ granted'[id] \in Nat /\ granted[id] <= granted'[id]
  BY GrantedNext
<1>1. Covered(Sent(id), Unspent(approvalsFile, id), granted[id])
  BY DEF OnceInv, FileCovered
<1>2. ASSUME NEW x \in Actors, Rename(x)
      PROVE  Covered(Sent(id), Unspent(approvalsFile, id), granted[id])'
  BY <1>2, RenameCovered
<1>3. CASE \A x \in Actors : ~Rename(x)
  <2>1. Sent(id)' \subseteq Sent(id) BY <1>3, SentStep DEF Actors
  <2>2. CASE UNCHANGED approvalsFile
    <3>1. Unspent(approvalsFile, id)' = Unspent(approvalsFile, id) BY <2>2 DEF Unspent
    <3> QED BY <1>0, <1>1, <2>1, <3>1, CoveredLess
  <2>3. CASE CliRename
    <3>1. /\ approvalsFile' = approvalsFile \/ approvalsFile' = cli.store
          /\ Covered(Sent(id), Unspent(cli.store, id), granted[id])
      BY <2>3 DEF CliRename, OnceInv, CommandInv
    <3>2. \/ Unspent(approvalsFile, id)' = Unspent(approvalsFile, id)
          \/ Unspent(approvalsFile, id)' = Unspent(cli.store, id)
      BY <3>1 DEF Unspent
    <3> QED BY <1>0, <1>1, <2>1, <3>1, <3>2, CoveredLess
  <2>4. UNCHANGED approvalsFile \/ CliRename
    BY <1>3 DEF Next, WorkerStep, Save, vars, files, Consume, SendDone, SendFailed, Sign,
         WriteRecord, WriteRefused, Answer, Receive, GrantInProcess, WriteTmp,
         CliLoad, CliGrant, Stop, Start, Tick
  <2> QED BY <2>2, <2>3, <2>4
<1> QED BY <1>2, <1>3

-----------------------------------------------------------------------------
(* One thread at a time saves the store, and nobody changes it meanwhile.  *)
LEMMA SaveNext ==
  ASSUME TypeInv, OnceInv, [Next]_vars
  PROVE  SaveInv'
<1>0. /\ pc \in [Actors -> Labels] /\ SaveInv /\ CommandInv
      /\ \A w \in Workers : w \in Actors
      /\ Free \notin Actors
      /\ \A g \in Granters : g \in Actors
  BY AssuranceAssumption DEF TypeInv, TypeOK, Actors, OnceInv
<1>1. ASSUME NEW w \in Workers, Consume(w) PROVE SaveInv'
  <2>1. \A x \in Actors : pc[x] \notin {"save", "rename"}
    BY <1>0, <1>1 DEF Consume, SaveInv
  <2>2. \A x \in Actors \ {w} : pc'[x] = pc[x]
    BY <1>0, <1>1 DEF Consume, Goto
  <2>3. pc'[w] = "sign" \/ (pc'[w] = "save" /\ approvalsLock' = w)
    BY <1>0, <1>1 DEF Consume, Goto
  <2>4. up' = up /\ up BY <1>0, <1>1 DEF Consume, SaveInv
  <2> QED BY <1>0, <2>1, <2>2, <2>3, <2>4 DEF SaveInv
<1>2. ASSUME NEW g \in Granters, NEW i \in Ids, NEW a \in Actions,
             GrantInProcess(g, i, a)
      PROVE  SaveInv'
  <2>1. \A x \in Actors : pc[x] \notin {"save", "rename"}
    BY <1>0, <1>2 DEF GrantInProcess, SaveInv
  <2>2. \A x \in Actors \ {g} : pc'[x] = pc[x]
    BY <1>0, <1>2 DEF GrantInProcess, Goto
  <2>3. pc'[g] = "save" /\ approvalsLock' = g /\ up' = up /\ up
    BY <1>0, <1>2 DEF GrantInProcess, Goto
  <2> QED BY <1>0, <2>1, <2>2, <2>3 DEF SaveInv
<1>3. ASSUME NEW x \in Actors, Save(x) PROVE SaveInv'
  <2>1. \A y \in Actors \ {x} : pc[y] \notin {"save", "rename"}
    BY <1>0, <1>3 DEF Save, WriteTmp, Rename, SaveInv
  <2>2. \A y \in Actors \ {x} : pc'[y] = pc[y]
    BY <1>0, <1>3 DEF Save, WriteTmp, Rename, Goto, End
  <2>3. CASE WriteTmp(x)
    <3>1. \/ /\ pc'[x] = "rename" /\ approvalsTmp' = approvals
             /\ approvals' = approvals /\ approvalsLock' = approvalsLock
             /\ approvalsLock = x
          \/ pc'[x] = "idle"
      BY <1>0, <2>3 DEF WriteTmp, Goto, End, SaveInv
    <3>2. up' = up /\ up BY <1>0, <2>3 DEF WriteTmp, SaveInv
    <3> QED BY <2>1, <2>2, <3>1, <3>2 DEF SaveInv
  <2>4. CASE Rename(x)
    <3>1. pc'[x] \in {"send", "idle"} /\ up' = up /\ up
      BY <1>0, <2>4 DEF Rename, Goto, End, SaveInv
    <3> QED BY <2>1, <2>2, <3>1 DEF SaveInv
  <2> QED BY <1>3, <2>3, <2>4 DEF Save
<1>4. CASE /\ UNCHANGED <<up, approvals, approvalsLock>>
           /\ UNCHANGED approvalsTmp \/ ~up
           /\ \A x \in Actors : \/ pc'[x] = pc[x]
                                \/ up /\ pc'[x] \notin {"save", "rename"}
  BY <1>0, <1>4 DEF SaveInv
<1>5. CASE \/ \E w \in Workers : WorkerStep(w) /\ ~Consume(w)
           \/ \E w \in Workers, a \in Actions, token \in {NoToken} \cup Ids : Receive(w, a, token)
  <2>1. UNCHANGED <<up, approvals, approvalsLock, approvalsTmp>>
    BY <1>5 DEF WorkerStep, store, files, SendDone, SendFailed, Sign, WriteRecord,
                WriteRefused, Answer, Receive
  <2>2. \A x \in Actors : pc'[x] = pc[x] \/ (up /\ pc'[x] \notin {"save", "rename"})
    <3>1. ASSUME NEW w \in Workers, WorkerStep(w), ~Consume(w), NEW x \in Actors
          PROVE  pc'[x] = pc[x] \/ (up /\ pc'[x] \notin {"save", "rename"})
      <4>1. up BY <1>0, <3>1 DEF WorkerStep, SendDone, SendFailed, Sign, WriteRecord,
                                WriteRefused, Answer, SaveInv
      <4> QED BY <1>0, <3>1, <4>1 DEF WorkerStep, SendDone, SendFailed, Sign, WriteRecord,
                                WriteRefused, Answer, Goto, AfterSend, End
    <3>2. ASSUME NEW w \in Workers, NEW a \in Actions, NEW token \in {NoToken} \cup Ids,
                 Receive(w, a, token), NEW x \in Actors
          PROVE  pc'[x] = pc[x] \/ (up /\ pc'[x] \notin {"save", "rename"})
      <4>1. up /\ pc' = [pc EXCEPT ![w] = Decide(a, token).next]
        BY <3>2 DEF Receive, Goto
      <4>2. Decide(a, token).next \notin {"save", "rename"} BY DEF Decide
      <4> QED BY <1>0, <4>1, <4>2
    <3> QED BY <1>5, <3>1, <3>2
  <2> QED BY <1>4, <2>1, <2>2
<1>6. CASE \/ \E id \in Ids, a \in Actions : CliLoad(id, a)
           \/ CliGrant \/ CliRename \/ Tick \/ UNCHANGED vars
  <2>1. UNCHANGED <<up, pc, approvals, approvalsLock>>
    BY <1>6 DEF CliLoad, CliGrant, CliRename, Tick, vars, proc, store
  <2>2. UNCHANGED approvalsTmp \/ ~up
    BY <1>0, <1>6 DEF CliLoad, CliGrant, CliRename, Tick, vars, files, CommandInv
  <2> QED BY <1>4, <2>1, <2>2
<1>7. CASE Stop BY <1>7 DEF Stop, SaveInv
<1>8. CASE Start
  <2>1. \A x \in Actors : pc'[x] = "idle" BY <1>0, <1>8 DEF Start, SaveInv
  <2> QED BY <2>1 DEF SaveInv
<1> QED BY <1>1, <1>2, <1>3, <1>5, <1>6, <1>7, <1>8 DEF Next

(* What the approve command loaded is still the file when it renames.      *)
LEMMA CommandNext ==
  ASSUME ~CliWhileUp, TypeInv, OnceInv, [Next]_vars
  PROVE  CommandInv'
<1>0. CommandInv /\ SaveInv BY DEF OnceInv
<1>1. CASE CliGrant
  <2>1. /\ cli'.pc = "rename" /\ approvalsTmp' = cli'.store
        /\ ~up /\ up' = up
        /\ cli'.store = [approvalsFile EXCEPT ![cli.id] = Fresh(cli.action)]
        /\ granted' = [granted EXCEPT ![cli.id] = @ + 1]
    <3>1. cli \in [pc : {"idle", "grant", "rename"}, id : {0} \cup Ids,
                   action : Actions, store : Store]
      BY DEF TypeInv, TypeOK
    <3>2. cli.store = approvalsFile /\ ~up BY <1>0, <1>1 DEF CliGrant, CommandInv
    <3> DEFINE s == [cli.store EXCEPT ![cli.id] = Fresh(cli.action)]
    <3>4. cli' = [[cli EXCEPT !.pc = "rename"] EXCEPT !.store = s] /\ approvalsTmp' = s
      BY <1>1 DEF CliGrant
    <3>5. cli'.pc = "rename" /\ cli'.store = s BY <3>1, <3>4
    <3> QED BY <1>1, <3>2, <3>4, <3>5 DEF CliGrant, proc
  <2>2. ASSUME NEW id \in Ids PROVE Covered(Sent(id), Unspent(cli.store, id), granted[id])'
    <3>0. approvalsFile \in Store /\ granted \in [Ids -> Nat] BY DEF TypeInv, TypeOK
    <3>1. Covered(Sent(id), Unspent(approvalsFile, id), granted[id])
      BY DEF OnceInv, FileCovered
    <3>2. Sent(id)' \subseteq Sent(id)
      <4>1. UNCHANGED <<pc, req, performed>> BY <1>1 DEF CliGrant, proc
      <4>2. \A w \in Workers : Performance(w)' = Performance(w) BY <4>1 DEF Performance
      <4> QED BY <4>1, <4>2 DEF Sent, Held, UsesOf
    <3>3. CASE id = cli.id
      <4>1. granted'[id] = granted[id] + 1 BY <2>1, <3>0, <3>3
      <4> QED BY <3>0, <3>1, <3>2, <4>1, CoveredGrant
    <3>4. CASE id # cli.id
      <4>1. granted'[id] = granted[id] /\ cli'.store[id] = approvalsFile[id]
        BY <2>1, <3>0, <3>4 DEF Store
      <4>2. Unspent(cli.store, id)' = Unspent(approvalsFile, id) BY <4>1 DEF Unspent
      <4> QED BY <3>0, <3>1, <3>2, <4>1, <4>2, CoveredLess
    <3> QED BY <3>3, <3>4
  <2> QED BY <2>1, <2>2 DEF CommandInv
<1>2. ASSUME NEW id \in Ids, NEW a \in Actions, CliLoad(id, a) PROVE CommandInv'
  BY <1>2 DEF CliLoad, CommandInv, proc, files
<1>3. CASE CliRename BY <1>3 DEF CliRename, CommandInv, NoCommand
<1>4. CASE Start \/ Stop
  <2>1. cli'.pc = "idle" BY <1>0, <1>4 DEF Start, Stop, CommandInv
  <2> QED BY <2>1 DEF CommandInv
<1>5. CASE up /\ up' = up /\ cli' = cli
  BY <1>0, <1>5 DEF CommandInv
<1>6. CASE Tick \/ UNCHANGED vars
  <2>1. UNCHANGED <<up, pc, req, performed, granted, cli, approvalsFile, approvalsTmp>>
    BY <1>6 DEF Tick, vars, proc, history, files
  <2>2. \A w \in Workers : Performance(w)' = Performance(w) BY <2>1 DEF Performance
  <2>3. \A id \in Ids : Sent(id)' = Sent(id) BY <2>1, <2>2 DEF Sent, Held, UsesOf
  <2> QED BY <1>0, <2>1, <2>3 DEF CommandInv, Unspent
<1>7. \/ CliGrant \/ CliRename \/ Start \/ Stop \/ Tick \/ UNCHANGED vars
      \/ \E id \in Ids, a \in Actions : CliLoad(id, a)
      \/ up /\ up' = up /\ cli' = cli
  BY <1>0 DEF Next, WorkerStep, Save, SaveInv, Actors, Consume, SendDone, SendFailed, Sign,
         WriteRecord, WriteRefused, Answer, Receive, GrantInProcess, WriteTmp, Rename
<1> QED BY <1>1, <1>2, <1>3, <1>4, <1>5, <1>6, <1>7

LEMMA OnceSafe ==
  ASSUME TypeInv, OnceInv
  PROVE  ApprovalUsedOnce
<1> SUFFICES ASSUME NEW id \in Ids PROVE Cardinality(UsesOf(id)) <= granted[id]
  BY DEF ApprovalUsedOnce
<1>0. granted[id] \in Nat BY DEF TypeInv, TypeOK
<1>1. Covered(Sent(id), Unspent(approvalsFile, id), granted[id])
  BY DEF OnceInv, FileCovered
<1>2. UsesOf(id) \subseteq Sent(id) BY DEF Sent
<1>3. Covered(UsesOf(id), Unspent(approvalsFile, id), granted[id])
  BY <1>0, <1>1, <1>2, CoveredLess
<1>4. Cardinality(UsesOf(id)) \in Nat BY <1>3, FS_CardinalityType DEF Covered
<1> QED BY <1>0, <1>3, <1>4 DEF Covered

(* "Une approbation ne sert qu'une fois": whatever the threads that        *)
(* present the token, the stops between the burn, the two halves of the    *)
(* save and the send, the restarts, and the writes the disk refuses, an    *)
(* approval lets through at most one request per grant, as long as the     *)
(* approve command is used on a stopped proxy only.                        *)
THEOREM ApprovalServesOnce ==
  ASSUME ~CliWhileUp
  PROVE  Spec => []ApprovalUsedOnce
<1> DEFINE IInv == TypeInv /\ OnceInv
<1>1. Init => IInv BY TypeInit, OnceInit
<1>2. IInv /\ [Next]_vars => IInv'
  <2> SUFFICES ASSUME TypeInv, OnceInv, [Next]_vars PROVE TypeInv' /\ OnceInv'
    OBVIOUS
  <2> QED BY TypeNext, MemoryNext, FileNext, SaveNext, CommandNext DEF OnceInv
<1>3. IInv => ApprovalUsedOnce BY OnceSafe
<1> QED BY <1>1, <1>2, <1>3, PTL DEF Spec

-----------------------------------------------------------------------------
(* Between two saves the file is what the running process remembers.       *)
HonourInv == up /\ approvalsLock = Free => approvals = approvalsFile

LEMMA HonourNext ==
  ASSUME ~CliWhileUp, ~DiskFaults, TypeInv, OnceInv, HonourInv, [Next]_vars
  PROVE  HonourInv'
<1>0. /\ SaveInv /\ CommandInv /\ approvals \in Store /\ Free \notin Actors
      /\ \A w \in Workers : w \in Actors
      /\ \A g \in Granters : g \in Actors
  BY AssuranceAssumption DEF OnceInv, TypeInv, TypeOK, Actors
<1>1. ASSUME NEW w \in Workers, Consume(w) PROVE HonourInv'
  BY <1>0, <1>1 DEF Consume, HonourInv, store, files
<1>2. ASSUME NEW g \in Granters, NEW i \in Ids, NEW a \in Actions,
             GrantInProcess(g, i, a)
      PROVE  HonourInv'
  BY <1>0, <1>2 DEF GrantInProcess, HonourInv
<1>3. ASSUME NEW x \in Actors, WriteTmp(x) PROVE HonourInv'
  BY <1>0, <1>3 DEF WriteTmp, HonourInv
<1>4. ASSUME NEW x \in Actors, Rename(x) PROVE HonourInv'
  <2>1. approvalsTmp = approvals BY <1>0, <1>4 DEF Rename, SaveInv
  <2>2. approvalsTmp # NoFile BY <1>0, <2>1, NoFileIsNoStore
  <2> QED BY <1>4, <2>1, <2>2 DEF Rename, HonourInv
<1>5. CASE Start BY <1>5 DEF Start, StoreOnFile, files, HonourInv
<1>6. CASE Stop \/ CliRename
  BY <1>0, <1>6 DEF Stop, CliRename, CommandInv, proc, HonourInv
<1>7. CASE UNCHANGED <<up, approvals, approvalsLock, approvalsFile>>
  BY <1>7 DEF HonourInv
<1>8. \/ UNCHANGED <<up, approvals, approvalsLock, approvalsFile>>
      \/ Start \/ Stop \/ CliRename
      \/ \E w \in Workers : Consume(w)
      \/ \E x \in Actors : WriteTmp(x) \/ Rename(x)
      \/ \E g \in Granters, i \in Ids, a \in Actions : GrantInProcess(g, i, a)
  BY DEF Next, WorkerStep, Save, vars, proc, store, files, SendDone, SendFailed, Sign,
         WriteRecord, WriteRefused, Answer, Receive, CliLoad, CliGrant, Tick
<1> QED BY <1>1, <1>2, <1>3, <1>4, <1>5, <1>6, <1>7, <1>8

(* On a disk that takes every write, and with the approve command used on  *)
(* a stopped proxy only, a grant on file that a request may use is never   *)
(* refused: no thread consults a store that lags behind the file.          *)
THEOREM GrantsAreHonoured ==
  ASSUME ~CliWhileUp, ~DiskFaults
  PROVE  Spec => GrantIsHonoured
<1> DEFINE IInv == TypeInv /\ OnceInv /\ HonourInv
<1>1. Init => IInv
  <2>1. Init => HonourInv BY DEF Init, HonourInv
  <2> QED BY <2>1, TypeInit, OnceInit
<1>2. IInv /\ [Next]_vars => IInv'
  <2> SUFFICES ASSUME TypeInv, OnceInv, HonourInv, [Next]_vars
               PROVE  TypeInv' /\ OnceInv' /\ HonourInv'
    OBVIOUS
  <2> QED BY TypeNext, MemoryNext, FileNext, SaveNext, CommandNext, HonourNext DEF OnceInv
<1> DEFINE Honoured ==
      \A w \in Workers :
        /\ pc[w] = "consume" /\ pc'[w] = "sign"
        => ~Usable(approvalsFile, req[w].token, req[w].action)
<1>3. IInv /\ [Next]_vars => [Honoured]_vars
  <2> SUFFICES ASSUME IInv, [Next]_vars, NEW w \in Workers,
                      pc[w] = "consume", pc'[w] = "sign"
               PROVE  ~Usable(approvalsFile, req[w].token, req[w].action)
    OBVIOUS
  <2>0. /\ pc \in [Actors -> Labels] /\ \A v \in Workers : v \in Actors
        /\ \A g \in Granters : g \in Actors
        /\ HonourInv /\ SaveInv
    BY DEF TypeInv, TypeOK, Actors, OnceInv
  <2>1. Consume(w)
    <3>1. ASSUME NEW v \in Workers, WorkerStep(v), ~Consume(w) PROVE FALSE
      BY <2>0, <3>1 DEF WorkerStep, Consume, SendDone, SendFailed, Sign, WriteRecord,
                        WriteRefused, Answer, Goto, End
    <3>2. ASSUME NEW v \in Workers, NEW a \in Actions, NEW token \in {NoToken} \cup Ids,
                 Receive(v, a, token)
          PROVE  FALSE
      BY <2>0, <3>2 DEF Receive, Goto
    <3>3. ASSUME NEW g \in Granters, NEW i \in Ids, NEW a \in Actions,
                 GrantInProcess(g, i, a)
          PROVE  FALSE
      BY <2>0, <3>3 DEF GrantInProcess, Goto
    <3>4. ASSUME NEW x \in Actors, Save(x) PROVE FALSE
      BY <2>0, <3>4 DEF Save, WriteTmp, Rename, Goto, End
    <3>5. ASSUME \/ \E id \in Ids, a \in Actions : CliLoad(id, a)
                 \/ CliGrant \/ CliRename \/ Start \/ Stop \/ Tick \/ UNCHANGED vars
          PROVE  FALSE
      BY <2>0, <3>5 DEF CliLoad, CliGrant, CliRename, Start, Stop, Tick, vars, proc
    <3> QED BY <3>1, <3>2, <3>3, <3>4, <3>5 DEF Next
  <2>2. approvalsLock = Free /\ up BY <2>0, <2>1 DEF Consume, SaveInv
  <2>3. approvals = approvalsFile BY <2>0, <2>2 DEF HonourInv
  <2>4. CASE Usable(approvals, req[w].token, req[w].action)
    BY <2>0, <2>1, <2>4 DEF Consume, Goto
  <2> QED BY <2>3, <2>4
<1> QED BY <1>1, <1>2, <1>3, PTL DEF Spec, GrantIsHonoured
=============================================================================
