----------------------------- MODULE HubProofs -----------------------------
(***************************************************************************)
(* Theorems about the task lifecycle, for any tasks, agents, amounts,      *)
(* limits, connections, losses, restarts and commands of administrators.   *)
(***************************************************************************)
EXTENDS Hub, Sums, SequenceTheorems, TLAPS

(***************************************************************************)
(* The inductive invariant                                                 *)
(***************************************************************************)
(* The tasks that have got past the queue of approvals.  Whatever is       *)
(* queued, executed, settled or told is about one of them.                 *)
Known == {t \in Tasks : status[t] # "none"}

Statuses == {"none", "pending", "running"} \cup Terminal
Reports(K)  == {Update(t, st) : t \in K, st \in {"running"} \cup Terminal}
Results(K)  == {Update(t, st) : t \in K, st \in Terminal}
FromAgent(K) == {REGISTER} \cup Reports(K)
FromHub(K)   == {REGISTERED, ERROR} \cup {Assign(t) : t \in K}
Runs(K) == {f \in [Tasks -> Nat] : \A t \in Tasks : f[t] > 0 => t \in K}

TasksInv ==
  /\ status \in [Tasks -> Statuses]
  /\ pendingApprovals \subseteq Tasks \ Known
  /\ delivering \subseteq Known
  /\ told \in [Tasks -> SUBSET Terminal]
  /\ \A t \in Tasks : told[t] # {} => t \in Known

QueuesInv ==
  /\ toHub \in [Sockets -> Seq(FromAgent(Known))]
  /\ toAgent \in [Sockets -> Seq(FromHub(Known))]
  /\ todo \in [Sockets -> SUBSET Known]
  /\ ended \in [Sockets -> SUBSET Results(Known)]
  /\ assigned \in Runs(Known) /\ working \in Runs(Known)

ConnsInv ==
  /\ agents \in [Agents -> {None} \cup Sockets]
  /\ opened \in {None} \cup Sockets
  /\ link \in [Sockets -> {"unused", "open", "lost", "closed", "done"}]
  /\ owner \in [Sockets -> Agents]
  /\ pc \in [Sockets -> {"read", "announce", "list", "resume", "settle", "finally", "end"}]
  /\ registered \in [Sockets -> BOOLEAN]
  /\ live \in [Agents -> {None} \cup Sockets] /\ hand \in [Agents -> {None} \cup Sockets]
  /\ refused \in [Agents -> BOOLEAN]

HoldsInv == NothingHeldWhilePending /\ ToldIsSettled

HubInv == EscrowTypeOK /\ TasksInv /\ QueuesInv /\ ConnsInv /\ HoldsInv

LEMMA Messages ==
  /\ REGISTER.type = "register" /\ REGISTERED.type = "registered" /\ ERROR.type = "error"
  /\ \A t, st : /\ Update(t, st).type = "update" /\ Update(t, st).task = t
                /\ Update(t, st).status = st
  /\ \A t : Assign(t).type = "assign" /\ Assign(t).task = t
BY DEF REGISTER, REGISTERED, ERROR, Update, Assign

LEMMA HubInit == Init => HubInv
<1> SUFFICES ASSUME Init
             PROVE  HubInv
  OBVIOUS
<1> USE DEF Init
<1>1. EscrowTypeOK BY DEF EscrowInit, EscrowTypeOK, HoldStatus
<1>2. TasksInv BY DEF TasksInv, Statuses, Known
<1>3. QueuesInv BY EmptySeq DEF QueuesInv, Runs
<1>4. ConnsInv BY HubAssumption DEF ConnsInv, None
<1>5. HoldsInv BY DEF HoldsInv, NothingHeldWhilePending, ToldIsSettled
<1> QED BY <1>1, <1>2, <1>3, <1>4, <1>5 DEF HubInv

(***************************************************************************)
(* The escrow                                                              *)
(***************************************************************************)
LEMMA CreateHoldFacts ==
  ASSUME EscrowTypeOK, NEW t \in Tasks, CreateHold(t)
  PROVE  /\ EscrowTypeOK'
         /\ \A u \in Tasks : u # t => holds'[u] = holds[u]
<1>1. Payer[t] \in Orgs /\ Amount[t] \in Nat BY EscrowAssumption
<1> QED BY <1>1 DEF CreateHold, CanHold, EscrowTypeOK, HoldStatus

(* Releasing and refunding end a hold that is held, and no other.          *)
LEMMA ResolveFacts ==
  ASSUME EscrowTypeOK, NEW t \in Tasks, Release(t) \/ Refund(t)
  PROVE  /\ EscrowTypeOK'
         /\ holds[t] = "held" /\ holds'[t] # "held" /\ holds'[t] # "none"
         /\ \A u \in Tasks : u # t => holds'[u] = holds[u]
<1>1. Payer[t] \in Orgs /\ Payee[t] \in Orgs /\ Amount[t] \in Nat
  BY EscrowAssumption
<1> QED BY <1>1 DEF Release, Refund, Credit, Resolve, EscrowTypeOK, HoldStatus

LEMMA GrantFacts ==
  ASSUME EscrowTypeOK, NEW o \in Orgs, Grant(o, 1)
  PROVE  EscrowTypeOK' /\ holds' = holds
BY DEF Grant, Credit, EscrowTypeOK

(* The end of a task resolves its hold as it must, and touches no other.   *)
LEMMA SettlementFacts ==
  ASSUME EscrowTypeOK, NEW t \in Tasks, NEW st \in Terminal, Settlement(t, st)
  PROVE  /\ EscrowTypeOK'
         /\ \A u \in Tasks : u # t => holds'[u] = holds[u]
         /\ holds[t] # "held" => holds'[t] = holds[t]
         /\ st = "completed" /\ AutoRelease[t] => holds'[t] # "held"
         /\ st = "failed" => holds'[t] # "held"
<1>1. CASE Release(t) /\ st = "completed"
  BY <1>1, ResolveFacts
<1>2. CASE Refund(t) /\ st = "failed"
  BY <1>2, ResolveFacts
<1>3. CASE /\ UNCHANGED escrowVars
           /\ ~(st = "completed" /\ holds[t] = "held" /\ AutoRelease[t])
           /\ ~(st = "failed" /\ holds[t] = "held")
  BY <1>3 DEF escrowVars, EscrowTypeOK
<1> QED BY <1>1, <1>2, <1>3 DEF Settlement, Terminal
(***************************************************************************)
(* The tasks                                                               *)
(***************************************************************************)
(* Every message a handler reads, and every result it has saved, is about  *)
(* a known task.                                                           *)
LEMMA ReadIsKnown ==
  ASSUME QueuesInv, NEW s \in Sockets
  PROVE  /\ toHub[s] # << >> => Head(toHub[s]) \in FromAgent(Known)
         /\ \A m \in ended[s] : \E t \in Known, st \in Terminal : m = Update(t, st)
<1>1. toHub[s] \in Seq(FromAgent(Known)) /\ ended[s] \subseteq Results(Known)
  BY DEF QueuesInv
<1> QED BY <1>1, HeadTailProperties DEF Results

LEMMA HandledUpdate ==
  ASSUME QueuesInv, NEW s \in Sockets, toHub[s] # << >>, Head(toHub[s]).type = "update"
  PROVE  \E t \in Known, st \in {"running"} \cup Terminal : Head(toHub[s]) = Update(t, st)
<1>1. Head(toHub[s]) \in FromAgent(Known) BY ReadIsKnown
<1>2. Head(toHub[s]) # REGISTER BY Messages
<1>3. Head(toHub[s]) \in Reports(Known) BY <1>1, <1>2 DEF FromAgent
<1> QED BY <1>3 DEF Reports

(* A task that has left "none" never returns there, so what is known stays *)
(* known.                                                                  *)
LEMMA TaskNext ==
  ASSUME HubInv, [Next]_vars
  PROVE  TasksInv' /\ Known \subseteq Known'
<1> USE DEF HubInv
<1>1. ASSUME NEW t \in Tasks, Submit(t) \/ Approve(t)
      PROVE  TasksInv' /\ Known \subseteq Known'
  BY <1>1 DEF Submit, Approve, Retain, Finalize, TasksInv, Known, Statuses, counters
<1>2. ASSUME NEW t \in Tasks, Deny(t) \/ Deliver(t)
      PROVE  TasksInv' /\ Known \subseteq Known'
  BY <1>2 DEF Deny, Deliver, TasksInv, Known
<1>3. ASSUME NEW t \in Tasks, Cancel(t) \/ Retry(t)
      PROVE  TasksInv' /\ Known \subseteq Known'
  BY <1>3 DEF Cancel, Retry, TasksInv, Known, Statuses, Terminal, counters
<1>4. ASSUME NEW s \in Sockets, HandleUpdate(s)
      PROVE  TasksInv' /\ Known \subseteq Known'
  <2>1. PICK t \in Known, st \in {"running"} \cup Terminal : Head(toHub[s]) = Update(t, st)
    BY <1>4, HandledUpdate DEF HandleUpdate
  <2>2. Head(toHub[s]).task = t /\ Head(toHub[s]).status = st
    BY <2>1, Messages
  <2>3. status' = [status EXCEPT ![t] = st]
    BY <1>4, <2>2 DEF HandleUpdate
  <2>4. UNCHANGED <<pendingApprovals, delivering, told>>
    BY <1>4 DEF HandleUpdate
  <2> QED BY <2>3, <2>4 DEF TasksInv, Known, Statuses, Terminal
<1>5. ASSUME NEW s \in Sockets, Settle(s)
      PROVE  TasksInv' /\ Known \subseteq Known'
  <2>1. PICK m \in ended[s] : told' = [told EXCEPT ![m.task] = @ \cup {m.status}]
    BY <1>5 DEF Settle
  <2>2. PICK t \in Known, st \in Terminal : m = Update(t, st)
    BY <2>1, ReadIsKnown
  <2>3. told' = [told EXCEPT ![t] = @ \cup {st}]
    <3>1. m.task = t /\ m.status = st BY <2>2, Messages
    <3> QED BY <2>1, <3>1
  <2>4. UNCHANGED <<status, pendingApprovals, delivering>>
    BY <1>5 DEF Settle, tasks
  <2> QED BY <2>3, <2>4 DEF TasksInv, Known
<1>6. CASE Restart
  BY <1>6 DEF Restart, StatusReloaded, TasksInv, Known
<1>7. CASE UNCHANGED <<tasks, told>>
  BY <1>7 DEF tasks, TasksInv, Known
<1>8. \/ \E t \in Tasks : Submit(t) \/ Approve(t) \/ Deny(t) \/ Deliver(t)
      \/ \E t \in Tasks : Cancel(t) \/ Retry(t)
      \/ \E s \in Sockets : HandleUpdate(s) \/ Settle(s)
      \/ Restart \/ UNCHANGED <<tasks, told>>
  BY DEF Next, HandlerStep, AgentStep, EscrowCommand, HandleRegister, Announce, Resume,
         Finally, Notice, Connect, ReadAnswer, Listen, Disconnect, DropLink, CrashAgent,
         Begin, Finish, vars
<1> QED BY <1>1, <1>2, <1>3, <1>4, <1>5, <1>6, <1>7, <1>8

(***************************************************************************)
(* The holds                                                               *)
(***************************************************************************)
LEMMA HoldNext ==
  ASSUME HubInv, [Next]_vars
  PROVE  EscrowTypeOK' /\ HoldsInv'
<1> USE DEF HubInv, HoldsInv, NothingHeldWhilePending, ToldIsSettled
<1>1. ASSUME NEW t \in Tasks, Submit(t) \/ Approve(t)
      PROVE  EscrowTypeOK' /\ HoldsInv'
  <2>1. told' = told /\ told[t] = {}
    BY <1>1 DEF Submit, Approve, TasksInv, Known
  <2>2. pendingApprovals' \subseteq pendingApprovals \cup {t}
    BY <1>1 DEF Submit, Approve, Retain
  <2>3. CASE UNCHANGED escrowVars /\ holds[t] = "none"
    BY <2>1, <2>2, <2>3 DEF escrowVars, EscrowTypeOK
  <2>4. CASE CreateHold(t) /\ t \notin pendingApprovals'
    BY <2>1, <2>2, <2>4, CreateHoldFacts DEF TasksInv
  <2>5. \/ UNCHANGED escrowVars /\ holds[t] = "none"
        \/ CreateHold(t) /\ t \notin pendingApprovals'
    BY <1>1 DEF Submit, Approve, Retain, Finalize
  <2> QED BY <2>3, <2>4, <2>5
<1>2. ASSUME NEW t \in Tasks, Release(t) \/ Refund(t), UNCHANGED <<pendingApprovals, told>>
      PROVE  EscrowTypeOK' /\ HoldsInv'
  BY <1>2, ResolveFacts DEF TasksInv
<1>3. ASSUME NEW o \in Orgs, Grant(o, 1), UNCHANGED <<pendingApprovals, told>>
      PROVE  EscrowTypeOK' /\ HoldsInv'
  BY <1>3, GrantFacts
<1>4. ASSUME NEW s \in Sockets, Settle(s)
      PROVE  EscrowTypeOK' /\ HoldsInv'
  <2>1. PICK m \in ended[s] :
          Settlement(m.task, m.status) /\ told' = [told EXCEPT ![m.task] = @ \cup {m.status}]
    BY <1>4 DEF Settle
  <2>2. PICK t \in Known, st \in Terminal : m = Update(t, st)
    BY <2>1, ReadIsKnown
  <2>3. Settlement(t, st) /\ told' = [told EXCEPT ![t] = @ \cup {st}]
    <3>1. m.task = t /\ m.status = st BY <2>2, Messages
    <3> QED BY <2>1, <3>1
  <2>4. t \in Tasks /\ t \notin pendingApprovals /\ pendingApprovals' = pendingApprovals
    BY <1>4 DEF Settle, tasks, Known, TasksInv
  <2>5. /\ EscrowTypeOK'
        /\ \A u \in Tasks : u # t => holds'[u] = holds[u]
        /\ holds[t] # "held" => holds'[t] = holds[t]
        /\ st = "completed" /\ AutoRelease[t] => holds'[t] # "held"
        /\ st = "failed" => holds'[t] # "held"
    BY <2>3, <2>4, SettlementFacts
  <2>6. NothingHeldWhilePending'
    BY <2>4, <2>5 DEF TasksInv
  <2>7. ASSUME NEW u \in Tasks
        PROVE  /\ "completed" \in told'[u] /\ AutoRelease[u] => holds'[u] # "held"
               /\ "failed" \in told'[u] => holds'[u] # "held"
    <3>1. CASE u # t
      BY <2>3, <2>5, <3>1 DEF TasksInv
    <3>2. CASE u = t
      <4>1. told'[t] = told[t] \cup {st}
        BY <2>3, <2>4 DEF TasksInv
      <4> QED BY <2>4, <2>5, <3>2, <4>1 DEF Terminal
    <3> QED BY <3>1, <3>2
  <2> QED BY <2>5, <2>6, <2>7
<1>5. CASE Restart
  BY <1>5 DEF Restart, EscrowTypeOK, HoldStatus
<1>6. CASE UNCHANGED <<escrowVars, told>> /\ pendingApprovals' \subseteq pendingApprovals
  BY <1>6 DEF escrowVars, EscrowTypeOK
<1>7. \/ \E t \in Tasks : Submit(t) \/ Approve(t)
      \/ \E t \in Tasks : (Release(t) \/ Refund(t)) /\ UNCHANGED <<pendingApprovals, told>>
      \/ \E o \in Orgs : Grant(o, 1) /\ UNCHANGED <<pendingApprovals, told>>
      \/ \E s \in Sockets : Settle(s)
      \/ Restart
      \/ UNCHANGED <<escrowVars, told>> /\ pendingApprovals' \subseteq pendingApprovals
  BY DEF Next, HandlerStep, AgentStep, EscrowCommand, Deny, Deliver, Cancel, Retry,
         HandleRegister, Announce, Resume, HandleUpdate, Finally, Notice, Connect,
         ReadAnswer, Listen, Disconnect, DropLink, CrashAgent, Begin, Finish, tasks, vars
<1> QED BY <1>1, <1>2, <1>3, <1>4, <1>5, <1>6, <1>7
(***************************************************************************)
(* The queues, and the tasks and executions they are about                 *)
(***************************************************************************)
LEMMA Monotone ==
  ASSUME NEW K, NEW L, K \subseteq L
  PROVE  /\ [Sockets -> Seq(FromAgent(K))] \subseteq [Sockets -> Seq(FromAgent(L))]
         /\ [Sockets -> Seq(FromHub(K))] \subseteq [Sockets -> Seq(FromHub(L))]
         /\ [Sockets -> SUBSET K] \subseteq [Sockets -> SUBSET L]
         /\ [Sockets -> SUBSET Results(K)] \subseteq [Sockets -> SUBSET Results(L)]
         /\ Runs(K) \subseteq Runs(L)
<1>1. Reports(K) \subseteq Reports(L) BY DEF Reports
<1>2. Results(K) \subseteq Results(L) BY DEF Results
<1>3. {Assign(t) : t \in K} \subseteq {Assign(t) : t \in L} OBVIOUS
<1>4. Seq(FromAgent(K)) \subseteq Seq(FromAgent(L))
  BY <1>1 DEF FromAgent
<1>5. Seq(FromHub(K)) \subseteq Seq(FromHub(L))
  BY <1>3 DEF FromHub
<1>6. Runs(K) \subseteq Runs(L) BY DEF Runs
<1> QED BY <1>2, <1>4, <1>5, <1>6

(* A message sent joins the queue of its connection, or is lost.           *)
LEMMA SentFacts ==
  ASSUME NEW K, toAgent \in [Sockets -> Seq(FromHub(K))], NEW s \in Sockets,
         NEW m \in FromHub(K), Sent(s, m)
  PROVE  toAgent' \in [Sockets -> Seq(FromHub(K))]
<1>1. Append(toAgent[s], m) \in Seq(FromHub(K)) BY AppendProperties
<1> QED BY <1>1 DEF Sent

LEMMA DeliverToFacts ==
  ASSUME NEW K, toAgent \in [Sockets -> Seq(FromHub(K))], ConnsInv,
         NEW a \in Agents, NEW t \in K, DeliverTo(a, Assign(t))
  PROVE  toAgent' \in [Sockets -> Seq(FromHub(K))]
<1>1. CASE agents[a] = None
  BY <1>1 DEF DeliverTo
<1>2. CASE agents[a] # None
  <2>1. agents[a] \in Sockets BY <1>2 DEF ConnsInv
  <2>2. Assign(t) \in FromHub(K) BY DEF FromHub
  <2>3. Sent(agents[a], Assign(t)) BY <1>2 DEF DeliverTo
  <2> QED BY <2>1, <2>2, <2>3, SentFacts
<1> QED BY <1>1, <1>2

LEMMA ToAgentNext ==
  ASSUME HubInv, [Next]_vars
  PROVE  toAgent' \in [Sockets -> Seq(FromHub(Known'))]
<1> DEFINE Good == [Sockets -> Seq(FromHub(Known))]
<1>0. toAgent \in Good BY DEF HubInv, QueuesInv
<1> SUFFICES toAgent' \in Good
  BY TaskNext, Monotone
<1>1. ASSUME NEW t \in Tasks, Deliver(t) \/ Retry(t)
      PROVE  toAgent' \in Good
  <2>1. t \in Known /\ DeliverTo(Assignee[t], Assign(t))
    BY <1>1 DEF Deliver, Retry, HubInv, TasksInv, Known
  <2>2. Assignee[t] \in Agents BY HubAssumption
  <2> QED BY <1>0, <2>1, <2>2, DeliverToFacts DEF HubInv
<1>2. ASSUME NEW s \in Sockets, HandleRegister(s) \/ Announce(s) \/ Resume(s)
      PROVE  toAgent' \in Good
  <2>1. ToResume(owner[s]) \subseteq Known /\ todo[s] \subseteq Known
    BY DEF ToResume, Queued, Known, HubInv, QueuesInv
  <2>2. ERROR \in FromHub(Known) /\ REGISTERED \in FromHub(Known)
    BY DEF FromHub
  <2>3. \A t \in Known : Assign(t) \in FromHub(Known)
    BY DEF FromHub
  <2>4. UNCHANGED toAgent \/ \E m \in FromHub(Known) : Sent(s, m)
    BY <1>2, <2>1, <2>2, <2>3 DEF HandleRegister, Announce, Resume
  <2> QED BY <1>0, <2>4, SentFacts
<1>3. ASSUME NEW a \in Agents, ReadAnswer(a) \/ Listen(a)
      PROVE  toAgent' \in Good
  <2>1. PICK s \in Sockets : toAgent[s] # << >> /\ toAgent' = [toAgent EXCEPT ![s] = Tail(@)]
    BY <1>3 DEF ReadAnswer, Listen, HubInv, ConnsInv
  <2>2. Tail(toAgent[s]) \in Seq(FromHub(Known)) BY <1>0, <2>1, HeadTailProperties
  <2> QED BY <1>0, <2>1, <2>2
<1>4. ASSUME NEW a \in Agents, Disconnect(a) \/ DropLink(a)
      PROVE  toAgent' \in Good
  <2>1. PICK s : toAgent' = [toAgent EXCEPT ![s] = << >>]
    BY <1>4 DEF Disconnect, DropLink
  <2>2. << >> \in Seq(FromHub(Known)) BY EmptySeq
  <2> QED BY <1>0, <2>1, <2>2
<1>5. ASSUME (\E a \in Agents : CrashAgent(a)) \/ Restart
      PROVE  toAgent' \in Good
  <2>1. << >> \in Seq(FromHub(Known)) BY EmptySeq
  <2> QED BY <1>0, <1>5, <2>1 DEF CrashAgent, Restart
<1>6. CASE UNCHANGED toAgent
  BY <1>0, <1>6
<1>7. \/ \E t \in Tasks : Deliver(t) \/ Retry(t)
      \/ \E s \in Sockets : HandleRegister(s) \/ Announce(s) \/ Resume(s)
      \/ \E a \in Agents : ReadAnswer(a) \/ Listen(a) \/ Disconnect(a) \/ DropLink(a)
      \/ (\E a \in Agents : CrashAgent(a)) \/ Restart
      \/ UNCHANGED toAgent
  BY DEF Next, HandlerStep, AgentStep, EscrowCommand, Submit, Approve, Deny, Cancel,
         HandleUpdate, Settle, Finally, Notice, Connect, Begin, Finish, queues, vars
<1> QED BY <1>1, <1>2, <1>3, <1>4, <1>5, <1>6, <1>7

LEMMA ToHubNext ==
  ASSUME HubInv, [Next]_vars
  PROVE  toHub' \in [Sockets -> Seq(FromAgent(Known'))]
<1> DEFINE Good == [Sockets -> Seq(FromAgent(Known))]
<1>0. toHub \in Good BY DEF HubInv, QueuesInv
<1> SUFFICES toHub' \in Good
  BY TaskNext, Monotone
<1>1. ASSUME NEW s \in Sockets, HandleRegister(s) \/ HandleUpdate(s)
      PROVE  toHub' \in Good
  <2>1. toHub[s] # << >> /\ toHub' = [toHub EXCEPT ![s] = Tail(@)]
    BY <1>1 DEF HandleRegister, HandleUpdate
  <2>2. Tail(toHub[s]) \in Seq(FromAgent(Known)) BY <1>0, <2>1, HeadTailProperties
  <2> QED BY <1>0, <2>1, <2>2
<1>2. ASSUME (\E s \in Sockets : Finally(s)) \/ Restart
      PROVE  toHub' \in Good
  <2>1. << >> \in Seq(FromAgent(Known)) BY EmptySeq
  <2> QED BY <1>0, <1>2, <2>1 DEF Finally, Restart
<1>3. ASSUME NEW a \in Agents, Connect(a)
      PROVE  toHub' \in Good
  <2>1. <<REGISTER>> \in Seq(FromAgent(Known)) BY DEF FromAgent
  <2>2. PICK s : toHub' = [toHub EXCEPT ![s] = <<REGISTER>>]
    BY <1>3 DEF Connect
  <2> QED BY <1>0, <2>1, <2>2
<1>4. ASSUME NEW t \in Tasks, NEW st \in {"running"} \cup Terminal,
             SendUpdate(t, st), t \in Known
      PROVE  toHub' \in Good
  <2>1. live[Assignee[t]] \in {None} \cup Sockets
    BY HubAssumption DEF HubInv, ConnsInv
  <2>2. CASE live[Assignee[t]] = None
    BY <1>0, <1>4, <2>2 DEF SendUpdate
  <2>3. CASE live[Assignee[t]] \in Sockets /\ live[Assignee[t]] # None
    <3>1. PICK s \in Sockets : toHub' = [toHub EXCEPT ![s] = Append(@, Update(t, st))]
      BY <1>4, <2>3 DEF SendUpdate
    <3>2. Update(t, st) \in FromAgent(Known) BY <1>4 DEF FromAgent, Reports
    <3>3. Append(toHub[s], Update(t, st)) \in Seq(FromAgent(Known))
      BY <1>0, <3>2, AppendProperties
    <3> QED BY <1>0, <3>1, <3>3
  <2> QED BY <2>1, <2>2, <2>3
<1>5. ASSUME NEW t \in Tasks, Begin(t) \/ Finish(t)
      PROVE  toHub' \in Good
  <2>1. t \in Known
    BY <1>5 DEF Begin, Finish, HubInv, QueuesInv, Runs
  <2>2. PICK st \in {"running"} \cup Terminal : SendUpdate(t, st)
    BY <1>5 DEF Begin, Finish
  <2> QED BY <1>4, <2>1, <2>2
<1>6. ASSUME NEW a \in Agents, DropLink(a)
      PROVE  toHub' \in Good
  <2>1. PICK s \in Sockets : \E k \in 0..Len(toHub[s]) :
          toHub' = [toHub EXCEPT ![s] = SubSeq(@, 1, k)]
    BY <1>6 DEF DropLink, HubInv, ConnsInv
  <2>2. PICK k \in 0..Len(toHub[s]) : toHub' = [toHub EXCEPT ![s] = SubSeq(@, 1, k)]
    BY <2>1
  <2>3. toHub[s] \in Seq(FromAgent(Known)) /\ Len(toHub[s]) \in Nat
    BY <1>0, LenProperties
  <2>4. k \in Int /\ k <= Len(toHub[s]) BY <2>3
  <2>5. SubSeq(toHub[s], 1, k) \in Seq(FromAgent(Known))
    BY <2>3, <2>4, SubSeqProperties
  <2> QED BY <1>0, <2>2, <2>5
<1>7. CASE UNCHANGED toHub
  BY <1>0, <1>7
<1>8. \/ \E s \in Sockets : HandleRegister(s) \/ HandleUpdate(s)
      \/ (\E s \in Sockets : Finally(s)) \/ Restart
      \/ \E a \in Agents : Connect(a) \/ DropLink(a)
      \/ \E t \in Tasks : Begin(t) \/ Finish(t)
      \/ UNCHANGED toHub
  BY DEF Next, HandlerStep, AgentStep, EscrowCommand, Submit, Approve, Deny, Deliver,
         Cancel, Retry, Announce, Resume, Settle, Notice, ReadAnswer, Listen,
         Disconnect, CrashAgent, queues, vars
<1> QED BY <1>1, <1>2, <1>3, <1>5, <1>6, <1>7, <1>8
(* What a connection's handler has still to resume or to settle.           *)
LEMMA HandlerNext ==
  ASSUME HubInv, [Next]_vars
  PROVE  /\ todo' \in [Sockets -> SUBSET Known']
         /\ ended' \in [Sockets -> SUBSET Results(Known')]
<1>0. todo \in [Sockets -> SUBSET Known] /\ ended \in [Sockets -> SUBSET Results(Known)]
  BY DEF HubInv, QueuesInv
<1> SUFFICES /\ todo' \in [Sockets -> SUBSET Known]
             /\ ended' \in [Sockets -> SUBSET Results(Known)]
  BY TaskNext, Monotone
<1>1. ASSUME NEW s \in Sockets, Resume(s)
      PROVE  /\ todo' \in [Sockets -> SUBSET Known]
             /\ ended' \in [Sockets -> SUBSET Results(Known)]
  <2>1. ToResume(owner[s]) \subseteq Known
    BY DEF ToResume, Queued, Known
  <2>2. \E S \in SUBSET Known : todo' = [todo EXCEPT ![s] = S]
    BY <1>0, <1>1, <2>1 DEF Resume
  <2>3. ended' = ended BY <1>1 DEF Resume
  <2> QED BY <1>0, <2>2, <2>3
<1>2. ASSUME NEW s \in Sockets, HandleUpdate(s)
      PROVE  /\ todo' \in [Sockets -> SUBSET Known]
             /\ ended' \in [Sockets -> SUBSET Results(Known)]
  <2>1. PICK t \in Known, st \in {"running"} \cup Terminal : Head(toHub[s]) = Update(t, st)
    BY <1>2, HandledUpdate DEF HandleUpdate, HubInv
  <2>2. Head(toHub[s]).status = st
    BY <2>1, Messages
  <2>3. \/ ended' = ended
        \/ st \in Terminal /\ ended' = [ended EXCEPT ![s] = {Update(t, st)}]
    BY <1>2, <2>1, <2>2 DEF HandleUpdate
  <2>4. todo' = todo BY <1>2 DEF HandleUpdate
  <2>5. st \in Terminal => Update(t, st) \in Results(Known) BY DEF Results
  <2> QED BY <1>0, <2>3, <2>4, <2>5
<1>3. ASSUME NEW s \in Sockets, Settle(s)
      PROVE  /\ todo' \in [Sockets -> SUBSET Known]
             /\ ended' \in [Sockets -> SUBSET Results(Known)]
  BY <1>0, <1>3 DEF Settle
<1>4. CASE Restart
  BY <1>4 DEF Restart
<1>5. CASE UNCHANGED <<todo, ended>>
  BY <1>0, <1>5
<1>6. \/ \E s \in Sockets : Resume(s) \/ HandleUpdate(s) \/ Settle(s)
      \/ Restart \/ UNCHANGED <<todo, ended>>
  BY DEF Next, HandlerStep, AgentStep, EscrowCommand, Submit, Approve, Deny, Deliver,
         Cancel, Retry, HandleRegister, Announce, Finally, Notice, Connect, ReadAnswer,
         Listen, Disconnect, DropLink, CrashAgent, Begin, Finish, handlers, vars
<1> QED BY <1>1, <1>2, <1>3, <1>4, <1>5, <1>6

(* Executors work for known tasks only.                                    *)
LEMMA WorkNext ==
  ASSUME HubInv, [Next]_vars
  PROVE  assigned' \in Runs(Known') /\ working' \in Runs(Known')
<1>0. assigned \in Runs(Known) /\ working \in Runs(Known)
  BY DEF HubInv, QueuesInv
<1> SUFFICES assigned' \in Runs(Known) /\ working' \in Runs(Known)
  BY TaskNext, Monotone
<1>1. ASSUME NEW a \in Agents, Listen(a)
      PROVE  assigned' \in Runs(Known) /\ working' \in Runs(Known)
  <2>1. PICK s \in Sockets :
          /\ toAgent[s] # << >>
          /\ assigned' = [t \in Tasks |-> IF Head(toAgent[s]) = Assign(t)
                                            THEN assigned[t] + 1 ELSE assigned[t]]
    BY <1>1 DEF Listen, HubInv, ConnsInv
  <2>2. toAgent[s] \in Seq(FromHub(Known)) BY DEF HubInv, QueuesInv
  <2>3. Head(toAgent[s]) \in FromHub(Known) BY <2>1, <2>2, HeadTailProperties
  <2>4. ASSUME NEW t \in Tasks, Head(toAgent[s]) = Assign(t)
        PROVE  t \in Known
    <3>1. Assign(t) # REGISTERED /\ Assign(t) # ERROR BY Messages
    <3>2. PICK u \in Known : Assign(t) = Assign(u)
      BY <2>3, <2>4, <3>1 DEF FromHub
    <3>3. t = u BY <3>2, Messages
    <3> QED BY <3>3
  <2>5. working' = working BY <1>1 DEF Listen
  <2> QED BY <1>0, <2>1, <2>4, <2>5 DEF Runs
<1>2. ASSUME NEW t \in Tasks, Begin(t) \/ Finish(t)
      PROVE  assigned' \in Runs(Known) /\ working' \in Runs(Known)
  BY <1>0, <1>2 DEF Begin, Finish, Runs
<1>3. ASSUME NEW a \in Agents, CrashAgent(a)
      PROVE  assigned' \in Runs(Known) /\ working' \in Runs(Known)
  <2>1. /\ assigned' = [t \in Tasks |-> IF Assignee[t] = a THEN 0 ELSE assigned[t]]
        /\ working' = [t \in Tasks |-> IF Assignee[t] = a THEN 0 ELSE working[t]]
    BY <1>3 DEF CrashAgent
  <2>2. assigned' \in Runs(Known) BY <1>0, <2>1 DEF Runs
  <2>3. working' \in Runs(Known) BY <1>0, <2>1 DEF Runs
  <2> QED BY <2>2, <2>3
<1>4. CASE UNCHANGED work
  BY <1>0, <1>4 DEF work
<1>5. \/ \E a \in Agents : Listen(a) \/ CrashAgent(a)
      \/ \E t \in Tasks : Begin(t) \/ Finish(t)
      \/ UNCHANGED work
  BY DEF Next, HandlerStep, AgentStep, EscrowCommand, Submit, Approve, Deny, Deliver,
         Cancel, Retry, HandleRegister, Announce, Resume, HandleUpdate, Settle, Finally,
         Notice, Connect, ReadAnswer, Disconnect, DropLink, Restart, work, vars
<1> QED BY <1>1, <1>2, <1>3, <1>4, <1>5

(***************************************************************************)
(* The connections                                                         *)
(***************************************************************************)
LEMMA ConnNext ==
  ASSUME HubInv, [Next]_vars
  PROVE  ConnsInv'
<1> USE DEF HubInv, ConnsInv
<1>0. ConnsInv OBVIOUS
<1>1. ASSUME NEW s \in Sockets, HandlerStep(s) \/ Notice(s)
      PROVE  ConnsInv'
  <2>1. CASE HandleRegister(s)
    <3>1. UNCHANGED <<conns, client>> BY <2>1 DEF HandleRegister
    <3>2. agents' \in [Agents -> {None} \cup Sockets]
      BY <2>1 DEF HandleRegister, Attach
    <3>3. registered' \in [Sockets -> BOOLEAN] BY <2>1 DEF HandleRegister
    <3>4. pc' \in [Sockets -> {"read", "announce", "list", "resume", "settle", "finally", "end"}]
      BY <2>1 DEF HandleRegister, At
    <3> QED BY <1>0, <3>1, <3>2, <3>3, <3>4 DEF conns, client
  <2>2. CASE Announce(s) \/ Resume(s) \/ HandleUpdate(s) \/ Settle(s)
    BY <1>0, <2>2 DEF Announce, Resume, HandleUpdate, Settle, At, conns, client
  <2>3. CASE Finally(s) \/ Notice(s)
    BY <1>0, <2>3 DEF Finally, Notice, At, handlers, client, None
  <2> QED BY <1>1, <2>1, <2>2, <2>3 DEF HandlerStep
<1>2. ASSUME NEW a \in Agents, AgentStep(a)
      PROVE  ConnsInv'
  <2>1. CASE Connect(a)
    <3>1. opened + 1 \in Sockets /\ opened' = opened + 1
      BY <2>1, HubAssumption DEF Connect, Sockets, None
    <3> QED BY <1>0, <2>1, <3>1 DEF Connect, At
  <2>2. CASE ReadAnswer(a) \/ Listen(a)
    BY <1>0, <2>2 DEF ReadAnswer, Listen, handlers, conns, client, None
  <2> QED BY <1>2, <2>1, <2>2 DEF AgentStep
<1>3. ASSUME NEW a \in Agents, Disconnect(a) \/ DropLink(a) \/ CrashAgent(a)
      PROVE  ConnsInv'
  <2>1. UNCHANGED <<agents, opened, owner, handlers>>
    BY <1>3 DEF Disconnect, DropLink, CrashAgent
  <2>2. CASE Disconnect(a) \/ DropLink(a)
    <3>1. refused' = refused BY <2>2 DEF Disconnect, DropLink
    <3>2. link' \in [Sockets -> {"unused", "open", "lost", "closed", "done"}]
      BY <2>2 DEF Disconnect, DropLink
    <3>3. PICK s : LeaveAgent(s) BY <2>2 DEF Disconnect, DropLink
    <3>4. live' \in [Agents -> {None} \cup Sockets] /\ hand' \in [Agents -> {None} \cup Sockets]
      BY <3>3 DEF LeaveAgent
    <3> QED BY <1>0, <2>1, <3>1, <3>2, <3>4 DEF handlers
  <2>3. CASE CrashAgent(a)
    <3>1. link' \in [Sockets -> {"unused", "open", "lost", "closed", "done"}]
      BY <2>3 DEF CrashAgent
    <3>2. /\ live' \in [Agents -> {None} \cup Sockets]
          /\ hand' \in [Agents -> {None} \cup Sockets]
          /\ refused' \in [Agents -> BOOLEAN]
      BY <2>3 DEF CrashAgent
    <3> QED BY <1>0, <2>1, <3>1, <3>2 DEF handlers
  <2> QED BY <1>3, <2>2, <2>3
<1>4. CASE Restart
  BY <1>0, <1>4 DEF Restart, None
<1>5. CASE UNCHANGED <<agents, conns, pc, registered, client>>
  BY <1>0, <1>5 DEF conns, client
<1>6. \/ \E s \in Sockets : HandlerStep(s) \/ Notice(s)
      \/ \E a \in Agents : AgentStep(a)
      \/ \E a \in Agents : Disconnect(a) \/ DropLink(a) \/ CrashAgent(a)
      \/ Restart
      \/ UNCHANGED <<agents, conns, pc, registered, client>>
  BY DEF Next, EscrowCommand, Submit, Approve, Deny, Deliver, Cancel, Retry,
         Begin, Finish, handlers, vars
<1> QED BY <1>1, <1>2, <1>3, <1>4, <1>5, <1>6

(***************************************************************************)
(* The theorems                                                            *)
(***************************************************************************)
LEMMA HubInvariant == Spec => []HubInv
<1>1. HubInv /\ [Next]_vars => HubInv'
  <2> SUFFICES ASSUME HubInv, [Next]_vars
               PROVE  HubInv'
    OBVIOUS
  <2>1. QueuesInv'
    BY ToHubNext, ToAgentNext, HandlerNext, WorkNext DEF QueuesInv
  <2> QED BY <2>1, TaskNext, HoldNext, ConnNext DEF HubInv
<1> QED BY <1>1, HubInit, PTL DEF Spec

(* Every handler, command, agent and loss leaves the hub, the queues and   *)
(* the agents with values the rest of hub.py and agent.py can go on from.  *)
THEOREM TypeCorrect == Spec => []TypeOK
<1>1. HubInv => TypeOK
  <2> SUFFICES ASSUME HubInv
               PROVE  TypeOK
    OBVIOUS
  <2> USE DEF HubInv
  <2>1. Known \subseteq Tasks BY DEF Known
  <2>2. FromAgent(Known) \subseteq Message /\ FromHub(Known) \subseteq Message
    BY <2>1 DEF FromAgent, FromHub, Reports, Message
  <2>3. toHub \in [Sockets -> Seq(Message)] /\ toAgent \in [Sockets -> Seq(Message)]
    BY <2>2 DEF QueuesInv
  <2>4. todo \in [Sockets -> SUBSET Tasks] /\ \A s \in Sockets : ended[s] \subseteq Message
    <3>1. Results(Known) \subseteq FromAgent(Known)
      <4>1. ASSUME NEW t \in Known, NEW st \in Terminal
            PROVE  Update(t, st) \in Reports(Known)
        BY DEF Reports
      <4> QED BY <4>1 DEF Results, FromAgent
    <3> QED BY <2>1, <2>2, <3>1 DEF QueuesInv
  <2>5. assigned \in [Tasks -> Nat] /\ working \in [Tasks -> Nat]
    BY DEF QueuesInv, Runs
  <2>6. delivering \subseteq Tasks /\ pendingApprovals \subseteq Tasks
    BY <2>1 DEF TasksInv
  <2> QED BY <2>3, <2>4, <2>5, <2>6 DEF TasksInv, ConnsInv, TypeOK, Statuses
<1> QED BY <1>1, HubInvariant, PTL

(* finalize_task_submission is the only place that creates a hold          *)
(* (hub.py:285), and it is reached once the task has left the queue.       *)
THEOREM RetainedHoldsNothing == Spec => [](NothingHeldWhilePending)
<1>1. HubInv => NothingHeldWhilePending
  BY DEF HubInv, HoldsInv
<1> QED BY <1>1, HubInvariant, PTL

(* TASK_UPDATE resolves the hold before it relays the terminal status, and *)
(* no command and no restart makes a resolved hold held again.             *)
THEOREM ToldAreSettled == Spec => []ToldIsSettled
<1>1. HubInv => ToldIsSettled
  BY DEF HubInv, HoldsInv
<1> QED BY <1>1, HubInvariant, PTL

(***************************************************************************)
(* The sum of the accounts and of the holds                                *)
(***************************************************************************)
LEMMA TotalIsSum == ASSUME NEW f, NEW S PROVE Total(f, S) = SumOf(f, S)
BY DEF Total, SumOf

LEMMA EscrowSums ==
  ASSUME EscrowTypeOK
  PROVE  /\ IsFiniteSet(Orgs) /\ IsFiniteSet(Held)
         /\ Whole(balances, Orgs) /\ Whole(minted, Orgs)
         /\ Whole(Amount, Tasks) /\ Whole(Amount, Held)
         /\ SumOf(Amount, Held) \in Int
<1>1. Held \subseteq Tasks BY DEF Held
<1>2. IsFiniteSet(Orgs) /\ IsFiniteSet(Held) BY <1>1, EscrowFinite, FS_Subset
<1>3. Whole(Amount, Tasks) BY EscrowAssumption DEF Whole
<1>4. Whole(Amount, Held) BY <1>1, <1>3 DEF Whole
<1>5. SumOf(Amount, Held) \in Int BY <1>2, <1>4, SumType
<1> QED BY <1>2, <1>3, <1>4, <1>5 DEF EscrowTypeOK, Whole

(* What each operation of the escrow does to the two sides of the account. *)
LEMMA HoldKeepsMoney ==
  ASSUME EscrowTypeOK, MoneyConserved, NEW t \in Tasks, CreateHold(t)
  PROVE  MoneyConserved'
<1> DEFINE p == Payer[t]
<1>1. t \notin Held /\ Held' = Held \cup {t} /\ minted' = minted /\ p \in Orgs
  BY EscrowAssumption DEF CreateHold, CanHold, Held, EscrowTypeOK
<1>2. balances' = [balances EXCEPT ![p] = @ - Amount[t]] BY DEF CreateHold
<1> HIDE DEF p
<1>3. balances'[p] = balances[p] - Amount[t] /\ Alike(balances, balances', Orgs \ {p})
  BY <1>1, <1>2 DEF EscrowTypeOK, Alike
<1>4. Whole(balances', Orgs) BY CreateHoldFacts DEF EscrowTypeOK, Whole
<1>5. Whole(Amount, Held \cup {t}) BY EscrowSums DEF Held, Whole
<1>6. SumOf(balances', Orgs) + SumOf(Amount, Held \cup {t})
        = SumOf(balances, Orgs) + SumOf(Amount, Held)
  <2>1. IsFiniteSet(Orgs) /\ IsFiniteSet(Held) /\ Whole(balances, Orgs) BY EscrowSums
  <2>2. p \in Orgs /\ t \notin Held BY <1>1
  <2> QED BY <1>3, <1>4, <1>5, <2>1, <2>2, HoldTaken
<1> QED BY <1>1, <1>6, TotalIsSum DEF MoneyConserved

LEMMA ResolveKeepsMoney ==
  ASSUME EscrowTypeOK, MoneyConserved, NEW t \in Tasks, Release(t) \/ Refund(t)
  PROVE  MoneyConserved'
<1>1. PICK p \in Orgs : balances' = [balances EXCEPT ![p] = @ + Amount[t]]
  BY EscrowAssumption DEF Release, Refund, Credit
<1>2. t \in Held /\ Held' = Held \ {t} /\ minted' = minted
  BY DEF Release, Refund, Resolve, Held, EscrowTypeOK
<1>3. balances'[p] = balances[p] + Amount[t] /\ Alike(balances, balances', Orgs \ {p})
  BY <1>1, <1>2 DEF EscrowTypeOK, Alike
<1>4. Whole(balances', Orgs) BY ResolveFacts DEF EscrowTypeOK, Whole
<1>5. SumOf(balances', Orgs) + SumOf(Amount, Held \ {t})
        = SumOf(balances, Orgs) + SumOf(Amount, Held)
  BY <1>2, <1>3, <1>4, EscrowSums, HoldEnded
<1> QED BY <1>2, <1>5, TotalIsSum DEF MoneyConserved

LEMMA GrantKeepsMoney ==
  ASSUME EscrowTypeOK, MoneyConserved, NEW o \in Orgs, Grant(o, 1)
  PROVE  MoneyConserved'
<1>1. /\ balances' = [balances EXCEPT ![o] = @ + 1] /\ minted' = [minted EXCEPT ![o] = @ + 1]
      /\ Held' = Held
  BY DEF Grant, Credit, Held
<1>2. /\ balances'[o] - balances[o] = 1 /\ Alike(balances, balances', Orgs \ {o})
      /\ minted'[o] - minted[o] = 1 /\ Alike(minted, minted', Orgs \ {o})
  BY <1>1 DEF EscrowTypeOK, Alike
<1>3. Whole(balances', Orgs) /\ Whole(minted', Orgs)
  BY GrantFacts DEF EscrowTypeOK, Whole
<1>4. /\ SumOf(balances', Orgs) = SumOf(balances, Orgs) + (balances'[o] - balances[o])
      /\ SumOf(balances, Orgs) \in Int
  BY <1>2, <1>3, EscrowSums, SumChange
<1>5. /\ SumOf(minted', Orgs) = SumOf(minted, Orgs) + (minted'[o] - minted[o])
      /\ SumOf(minted, Orgs) \in Int
  BY <1>2, <1>3, EscrowSums, SumChange
<1>6. SumOf(balances, Orgs) + SumOf(Amount, Held) = SumOf(minted, Orgs)
  BY TotalIsSum DEF MoneyConserved
<1>7. SumOf(balances', Orgs) + SumOf(Amount, Held') = SumOf(minted', Orgs)
  <2>1. SumOf(Amount, Held) \in Int BY EscrowSums
  <2> QED BY <1>1, <1>2, <1>4, <1>5, <1>6, <2>1
<1> QED BY <1>7, TotalIsSum DEF MoneyConserved

(* A hub that starts has no money and no hold.                             *)
LEMMA NoMoney ==
  ASSUME NEW b, b = [o \in Orgs |-> 0]
  PROVE  Total(b, Orgs) + Total(Amount, {}) = Total(b, Orgs)
<1>1. SumOf(b, Orgs) = 0 BY EscrowFinite, SumZero
<1>2. SumOf(Amount, {}) = 0 BY SumEmpty
<1> QED BY <1>1, <1>2, TotalIsSum

LEMMA MoneyNext ==
  ASSUME HubInv, MoneyConserved, [Next]_vars
  PROVE  MoneyConserved'
<1>0. EscrowTypeOK BY DEF HubInv
<1>1. ASSUME NEW s \in Sockets, Settle(s)
      PROVE  \/ UNCHANGED escrowVars
             \/ \E t \in Tasks : Release(t) \/ Refund(t)
  <2>1. PICK m \in ended[s] : Settlement(m.task, m.status)
    BY <1>1 DEF Settle
  <2>2. PICK t \in Known, st \in Terminal : m = Update(t, st)
    BY <2>1, ReadIsKnown DEF HubInv
  <2>3. m.task = t /\ t \in Tasks BY <2>2, Messages DEF Known
  <2> QED BY <2>1, <2>3 DEF Settlement
<1>2. \/ UNCHANGED escrowVars
      \/ \E t \in Tasks : CreateHold(t)
      \/ \E t \in Tasks : Release(t) \/ Refund(t)
      \/ \E o \in Orgs : Grant(o, 1)
      \/ Restart
  BY <1>1
  DEF Next, HandlerStep, AgentStep, EscrowCommand, Submit, Approve, Retain, Finalize, Deny,
      Deliver, Cancel, Retry, HandleRegister, Announce, Resume, HandleUpdate, Finally, Notice,
      Connect, ReadAnswer, Listen, Disconnect, DropLink, CrashAgent, Begin, Finish, vars
<1>3. CASE Restart
  <2>1. balances' = [o \in Orgs |-> 0] /\ minted' = balances' /\ Held' = {}
    BY <1>3 DEF Restart, Held
  <2> QED BY <2>1, NoMoney DEF MoneyConserved
<1>4. CASE UNCHANGED escrowVars
  BY <1>4 DEF escrowVars, MoneyConserved, Held
<1> QED
  BY <1>0, <1>2, <1>3, <1>4, HoldKeepsMoney, ResolveKeepsMoney, GrantKeepsMoney

(* No order of submissions, approvals, results, cancellations, retries,    *)
(* commands on holds, lost connections and restarts loses a unit of money  *)
(* or makes one (escrow.py: create_hold, release, refund, grant): for any  *)
(* organisations, tasks and amounts, and any number of each of these.      *)
THEOREM MoneyIsConserved == Spec => []MoneyConserved
<1>1. Init => MoneyConserved
  <2> SUFFICES ASSUME Init PROVE MoneyConserved OBVIOUS
  <2>1. balances = [o \in Orgs |-> 0] /\ minted = balances /\ Held = {}
    BY DEF Init, EscrowInit, Held
  <2> QED BY <2>1, NoMoney DEF MoneyConserved
<1>2. HubInv /\ MoneyConserved /\ [Next]_vars => MoneyConserved' BY MoneyNext
<1> QED BY <1>1, <1>2, HubInvariant, PTL DEF Spec

(***************************************************************************)
(* Reachability, without overlapping connections nor commands              *)
(***************************************************************************)
Reg(q) == \E i \in DOMAIN q : q[i] = REGISTER
RegisterFirst(q) == \A i \in DOMAIN q : q[i] = REGISTER => i = 1

(* The connection c is the agent's, and the hub has finished with every    *)
(* other one of the agent, or nobody has ended it.                         *)
Place(a, c) ==
  /\ c \in 1..opened /\ owner[c] = a /\ link[c] = "open"
  /\ \A s \in 1..opened : owner[s] = a => link[s] \in {"open", "done"}

(* REGISTER is unread, or has been answered by a refusal.                  *)
Waiting(s) ==
  /\ pc[s] = "read"
  /\ \/ toHub[s] = <<REGISTER>> /\ toAgent[s] = << >>
     \/ toHub[s] = << >> /\ toAgent[s] = <<ERROR>>

(* A handler ends with its connection.  REGISTER is the first message of   *)
(* a connection, and only the one at hand may still have it unread.        *)
HandlersInv ==
  \A s \in Sockets :
    /\ s > opened => pc[s] = "end" /\ toHub[s] = << >> /\ toAgent[s] = << >>
    /\ pc[s] = "finally" => link[s] = "closed"
    /\ link[s] = "done" => pc[s] = "end"
    /\ RegisterFirst(toHub[s])
    /\ link[s] = "open" /\ Reg(toHub[s]) => hand[owner[s]] = s

NamesInv ==
  \A a \in Agents : agents[a] # None =>
    /\ agents[a] \in 1..opened /\ owner[agents[a]] = a
    /\ ~Reg(toHub[agents[a]])

(* The agent's own connection: registered, or waiting to be.               *)
PlacesInv ==
  \A a \in Agents :
    /\ live[a] = None \/ hand[a] = None
    /\ live[a] # None => Place(a, live[a]) /\ agents[a] = live[a]
    /\ hand[a] # None => /\ Place(a, hand[a])
                         /\ agents[a] = hand[a] \/ Waiting(hand[a])

ReachInv == HandlersInv /\ NamesInv /\ PlacesInv

LEMMA FewMessages ==
  /\ Reg(<<REGISTER>>) /\ RegisterFirst(<<REGISTER>>)
  /\ ~Reg(<< >>) /\ RegisterFirst(<< >>)
  /\ Tail(<<REGISTER>>) = << >> /\ Append(<< >>, ERROR) = <<ERROR>>
  /\ Head(<<ERROR>>) = ERROR /\ Head(<<REGISTER>>) = REGISTER
  /\ REGISTER # ERROR /\ REGISTERED # ERROR
<1>1. REGISTER # ERROR /\ REGISTERED # ERROR BY Messages
<1>2. Reg(<<REGISTER>>) /\ RegisterFirst(<<REGISTER>>) BY DEF Reg, RegisterFirst
<1>3. ~Reg(<< >>) /\ RegisterFirst(<< >>) BY DEF Reg, RegisterFirst
<1>4. Tail(<<REGISTER>>) = << >> OBVIOUS
<1>5. Append(<< >>, ERROR) = <<ERROR>> OBVIOUS
<1>6. Head(<<ERROR>>) = ERROR /\ Head(<<REGISTER>>) = REGISTER OBVIOUS
<1> QED BY <1>1, <1>2, <1>3, <1>4, <1>5, <1>6

(* Reading, writing a report and losing the end of a queue bring no        *)
(* REGISTER into it.                                                       *)
LEMMA RegisterFacts ==
  ASSUME NEW q \in Seq(FromAgent(Known)), RegisterFirst(q)
  PROVE  /\ q # << >> => /\ ~Reg(Tail(q)) /\ RegisterFirst(Tail(q))
                         /\ Head(q) = REGISTER => Reg(q)
         /\ \A t, st : LET r == Append(q, Update(t, st))
                       IN  RegisterFirst(r) /\ (Reg(r) => Reg(q))
         /\ \A k \in 0..Len(q) : LET r == SubSeq(q, 1, k)
                                 IN  RegisterFirst(r) /\ (Reg(r) => Reg(q))
<1>1. ASSUME q # << >>
      PROVE  ~Reg(Tail(q)) /\ RegisterFirst(Tail(q)) /\ (Head(q) = REGISTER => Reg(q))
  <2>1. /\ 1 \in DOMAIN q /\ Head(q) = q[1]
        /\ \A i \in DOMAIN Tail(q) : i \in Nat \ {0} /\ i + 1 \in DOMAIN q /\ Tail(q)[i] = q[i + 1]
    BY <1>1, HeadTailProperties, LenProperties, EmptySeq
  <2>2. \A i \in DOMAIN Tail(q) : Tail(q)[i] # REGISTER
    BY <2>1 DEF RegisterFirst
  <2> QED BY <2>1, <2>2 DEF Reg, RegisterFirst
<1>2. ASSUME NEW t, NEW st, NEW r, r = Append(q, Update(t, st))
      PROVE  RegisterFirst(r) /\ (Reg(r) => Reg(q))
  <2>1. Update(t, st) # REGISTER BY Messages
  <2>2. \A i \in DOMAIN r : (i \in DOMAIN q /\ r[i] = q[i]) \/ r[i] = Update(t, st)
    BY <1>2, AppendProperties, LenProperties
  <2> QED BY <2>1, <2>2 DEF Reg, RegisterFirst
<1>3. ASSUME NEW k \in 0..Len(q), NEW r, r = SubSeq(q, 1, k)
      PROVE  RegisterFirst(r) /\ (Reg(r) => Reg(q))
  <2>1. \A i \in DOMAIN r : i \in DOMAIN q /\ r[i] = q[i]
    BY <1>3, SubSeqProperties, LenProperties
  <2> QED BY <2>1 DEF Reg, RegisterFirst
<1> QED BY <1>1, <1>2, <1>3

(* Steps that attach, open and end nothing.                                *)
LEMMA SameNames ==
  ASSUME HubInv, ReachInv, UNCHANGED <<agents, conns, live, hand>>,
         \A a \in Agents : hand[a] # None /\ agents[a] # hand[a] =>
           /\ pc'[hand[a]] = pc[hand[a]]
           /\ toHub'[hand[a]] = toHub[hand[a]] /\ toAgent'[hand[a]] = toAgent[hand[a]],
         \A s \in Sockets :
           /\ RegisterFirst(toHub'[s]) /\ (Reg(toHub'[s]) => Reg(toHub[s]))
           /\ pc'[s] = "finally" => pc[s] = "finally" \/ link[s] = "closed"
           /\ pc[s] = "end" => pc'[s] = "end"
           /\ s > opened => toHub'[s] = << >> /\ toAgent'[s] = << >>
  PROVE  ReachInv'
<1>0. /\ agents' = agents /\ opened' = opened /\ link' = link /\ owner' = owner
      /\ live' = live /\ hand' = hand /\ owner \in [Sockets -> Agents]
      /\ agents \in [Agents -> {None} \cup Sockets]
  BY DEF conns, HubInv, ConnsInv
<1>1. HandlersInv' BY <1>0 DEF ReachInv, HandlersInv
<1>2. NamesInv' BY <1>0 DEF ReachInv, NamesInv
<1>3. PlacesInv'
  <2>1. \A a, c : Place(a, c)' = Place(a, c) BY <1>0 DEF Place
  <2>2. ASSUME NEW a \in Agents, hand[a] # None, agents[a] # hand[a]
        PROVE  Waiting(hand[a])'
    <3>1. Waiting(hand[a]) BY <2>2 DEF ReachInv, PlacesInv
    <3> QED BY <1>0, <2>2, <3>1 DEF Waiting
  <2> QED BY <1>0, <2>1, <2>2 DEF ReachInv, PlacesInv
<1> QED BY <1>1, <1>2, <1>3 DEF ReachInv

LEMMA SocketFacts ==
  ASSUME HubInv
  PROVE  /\ opened \in Nat /\ MaxSockets \in Nat /\ opened <= MaxSockets
         /\ \A s \in Sockets : s \in Nat /\ s # None /\ (s > opened \/ s \in 1..opened)
         /\ \A s \in 1..opened : s \in Sockets /\ ~(s > opened)
<1>1. MaxSockets \in Nat BY HubAssumption DEF HubAssumption
<1>2. opened \in {None} \cup Sockets BY DEF HubInv, ConnsInv
<1>3. opened \in Nat /\ opened <= MaxSockets BY <1>1, <1>2 DEF None, Sockets
<1> QED BY <1>1, <1>3 DEF None, Sockets

(* A message for a registered agent goes to its connection.                *)
LEMMA DeliverReach ==
  ASSUME HubInv, ReachInv, NEW a \in Agents, NEW m, DeliverTo(a, m),
         UNCHANGED <<agents, conns, toHub, pc, live, hand>>
  PROVE  ReachInv'
<1>1. \A s \in Sockets : toAgent'[s] # toAgent[s] => agents[a] = s /\ s # None
  <2>1. toAgent \in [Sockets -> Seq(FromHub(Known))] BY DEF HubInv, QueuesInv
  <2>2. CASE agents[a] = None BY <2>2 DEF DeliverTo
  <2>3. CASE agents[a] # None BY <2>1, <2>3 DEF DeliverTo, Sent
  <2> QED BY <2>2, <2>3
<1>2. \A s \in Sockets : agents[a] = s => owner[s] = a /\ ~(s > opened)
  BY SocketFacts DEF ReachInv, NamesInv
<1>3. \A b \in Agents : hand[b] # None => owner[hand[b]] = b /\ hand[b] \in Sockets
  BY DEF ReachInv, PlacesInv, Place, HubInv, ConnsInv
<1> QED BY <1>1, <1>2, <1>3, SameNames DEF ReachInv, HandlersInv

(* What a handler does with a connection that is registered.               *)
LEMMA HandlerReach ==
  ASSUME HubInv, ReachInv, NEW s \in Sockets,
         Announce(s) \/ Resume(s) \/ HandleUpdate(s) \/ Settle(s)
  PROVE  ReachInv'
<1>1. UNCHANGED <<agents, conns, live, hand>>
  BY DEF Announce, Resume, HandleUpdate, Settle, client, queues
<1>2. /\ pc[s] # "end" /\ ~(s > opened)
      /\ \A r \in Sockets : r # s =>
           pc'[r] = pc[r] /\ toHub'[r] = toHub[r] /\ toAgent'[r] = toAgent[r]
      /\ pc'[s] = "finally" => link[s] = "closed"
  BY DEF Announce, Resume, HandleUpdate, Settle, queues, Sent, At, ReachInv, HandlersInv,
         HubInv, ConnsInv, QueuesInv
<1>3. RegisterFirst(toHub'[s]) /\ (Reg(toHub'[s]) => Reg(toHub[s]))
  <2>1. toHub[s] \in Seq(FromAgent(Known)) /\ RegisterFirst(toHub[s])
    BY DEF HubInv, QueuesInv, ReachInv, HandlersInv
  <2>2. toHub'[s] = toHub[s] \/ (toHub[s] # << >> /\ toHub'[s] = Tail(toHub[s]))
    BY DEF Announce, Resume, HandleUpdate, Settle, queues, HubInv, QueuesInv
  <2> QED BY <2>1, <2>2, RegisterFacts
<1>4. ASSUME NEW a \in Agents, hand[a] # None, agents[a] # hand[a] PROVE hand[a] # s
  <2>1. SUFFICES ASSUME hand[a] = s PROVE FALSE OBVIOUS
  <2>2. Waiting(s) BY <1>4, <2>1 DEF ReachInv, PlacesInv
  <2>3. pc[s] = "read" /\ toHub[s] \in {<<REGISTER>>, << >>} BY <2>2 DEF Waiting
  <2>4. ~HandleUpdate(s) BY <2>3, FewMessages, Messages DEF HandleUpdate
  <2> QED BY <2>3, <2>4 DEF Announce, Resume, Settle
<1>5. \A a \in Agents : hand[a] # None => hand[a] \in Sockets
  BY DEF HubInv, ConnsInv
<1> QED BY <1>1, <1>2, <1>3, <1>4, <1>5, SameNames DEF ReachInv, HandlersInv

(* The agent reads one message of its connection.                          *)
LEMMA ListenReach ==
  ASSUME HubInv, ReachInv, NEW a \in Agents, Listen(a)
  PROVE  ReachInv'
<1>1. UNCHANGED <<agents, conns, toHub, pc, live, hand>>
  BY DEF Listen, handlers, client
<1>2. /\ live[a] # None /\ live[a] \in Sockets /\ live[a] \in 1..opened /\ owner[live[a]] = a
      /\ hand[a] = None
      /\ \A s \in Sockets : s # live[a] => toAgent'[s] = toAgent[s]
  BY DEF Listen, ReachInv, PlacesInv, Place, HubInv, ConnsInv, QueuesInv
<1>3. \A b \in Agents : hand[b] # None => owner[hand[b]] = b /\ hand[b] \in Sockets
  BY DEF ReachInv, PlacesInv, Place, HubInv, ConnsInv
<1> QED BY <1>1, <1>2, <1>3, SocketFacts, SameNames DEF ReachInv, HandlersInv

(* An execution reports on the connection its agent listens to.            *)
LEMMA ReportReach ==
  ASSUME HubInv, ReachInv, NEW t \in Tasks, Begin(t) \/ Finish(t)
  PROVE  ReachInv'
<1> DEFINE a == Assignee[t]
<1>1. UNCHANGED <<agents, conns, toAgent, pc, live, hand>>
  BY DEF Begin, Finish, handlers, client
<1>2. a \in Agents BY HubAssumption DEF HubAssumption
<1>3. PICK st : SendUpdate(t, st) BY DEF Begin, Finish
<1>4. CASE live[a] = None
  <2>1. toHub' = toHub BY <1>3, <1>4 DEF SendUpdate
  <2> QED BY <1>1, <2>1, SameNames DEF ReachInv, HandlersInv
<1>5. CASE live[a] # None
  <2>1. /\ live[a] \in Sockets /\ live[a] \in 1..opened /\ owner[live[a]] = a
        /\ hand[a] = None
    BY <1>2, <1>5 DEF ReachInv, PlacesInv, Place, HubInv, ConnsInv
  <2>2. /\ toHub'[live[a]] = Append(toHub[live[a]], Update(t, st))
        /\ \A s \in Sockets : s # live[a] => toHub'[s] = toHub[s]
    BY <1>3, <1>5, <2>1 DEF SendUpdate, HubInv, QueuesInv
  <2>3. /\ toHub[live[a]] \in Seq(FromAgent(Known)) /\ RegisterFirst(toHub[live[a]])
    BY <2>1 DEF HubInv, QueuesInv, ReachInv, HandlersInv
  <2>4. /\ RegisterFirst(toHub'[live[a]]) /\ (Reg(toHub'[live[a]]) => Reg(toHub[live[a]]))
    BY <2>2, <2>3, RegisterFacts
  <2>5. \A b \in Agents : hand[b] # None =>
          owner[hand[b]] = b /\ hand[b] \in Sockets /\ hand[b] # live[a]
    BY <2>1 DEF ReachInv, PlacesInv, Place, HubInv, ConnsInv
  <2>6. ~(live[a] > opened) BY <2>1, SocketFacts
  <2>7. \A s \in Sockets :
          /\ RegisterFirst(toHub'[s]) /\ (Reg(toHub'[s]) => Reg(toHub[s]))
          /\ s > opened => toHub'[s] = << >> /\ toAgent'[s] = << >>
    BY <1>1, <2>2, <2>4, <2>6 DEF ReachInv, HandlersInv
  <2>8. \A s \in Sockets : pc[s] = "finally" => link[s] = "closed"
    BY DEF ReachInv, HandlersInv
  <2> QED BY <1>1, <2>2, <2>5, <2>7, <2>8, SameNames
<1> QED BY <1>4, <1>5

(* REGISTER can only be read from a connection at hand, or when the agent  *)
(* has none: one that is over is finished with before the next.            *)
LEMMA Registering ==
  ASSUME HubInv, ReachInv, NEW s \in Sockets, HandleRegister(s)
  PROVE  /\ s \in 1..opened /\ link[s] # "done" /\ Reg(toHub[s])
         /\ owner[s] \in Agents /\ live[owner[s]] = None
         /\ hand[owner[s]] \in {None, s}
         /\ hand[owner[s]] = s => /\ link[s] = "open" /\ agents[owner[s]] # s
                                 /\ toHub[s] = <<REGISTER>> /\ toAgent[s] = << >>
<1> DEFINE a == owner[s]
<1>1. a \in Agents BY DEF HubInv, ConnsInv
<1>2. s \in 1..opened /\ link[s] # "done"
  BY SocketFacts DEF HandleRegister, ReachInv, HandlersInv
<1>3. Reg(toHub[s])
  <2>1. toHub[s] \in Seq(FromAgent(Known)) /\ RegisterFirst(toHub[s])
    BY DEF HubInv, QueuesInv, ReachInv, HandlersInv
  <2> QED BY <2>1, RegisterFacts DEF HandleRegister
<1>4. link[s] = "open" => hand[a] = s BY <1>3 DEF ReachInv, HandlersInv
<1>5. live[a] # None \/ hand[a] # None => link[s] = "open"
  BY <1>1, <1>2 DEF ReachInv, PlacesInv, Place
<1>6. live[a] = None /\ hand[a] \in {None, s}
  BY <1>1, <1>4, <1>5, SocketFacts DEF ReachInv, PlacesInv
<1>7. ASSUME hand[a] = s
      PROVE  /\ link[s] = "open" /\ agents[a] # s
             /\ toHub[s] = <<REGISTER>> /\ toAgent[s] = << >>
  <2>1. s # None BY SocketFacts
  <2>2. link[s] = "open" BY <1>5, <1>7, <2>1
  <2>3. agents[a] # s BY <1>1, <1>3, <2>1 DEF ReachInv, NamesInv
  <2>4. Waiting(s) BY <1>1, <1>7, <2>1, <2>3 DEF ReachInv, PlacesInv
  <2> QED BY <1>3, <2>2, <2>3, <2>4, FewMessages DEF Waiting
<1> QED BY <1>1, <1>2, <1>3, <1>6, <1>7

LEMMA RegisterReach ==
  ASSUME HubInv, ReachInv, NEW s \in Sockets, HandleRegister(s)
  PROVE  ReachInv'
<1> DEFINE a == owner[s]
<1>1. /\ UNCHANGED <<opened, link, owner, live, hand>>
      /\ toHub'[s] = Tail(toHub[s]) /\ pc[s] = "read"
      /\ \A r \in Sockets : r # s =>
           pc'[r] = pc[r] /\ toHub'[r] = toHub[r] /\ toAgent'[r] = toAgent[r]
      /\ pc'[s] = "finally" => link[s] = "closed"
      /\ \A b \in Agents : b # a => agents'[b] = agents[b]
      /\ agents'[a] \in {agents[a], s}
  BY Registering DEF HandleRegister, conns, client, Sent, At, Attach, HubInv, ConnsInv, QueuesInv
<1>2. /\ ~Reg(toHub'[s]) /\ RegisterFirst(toHub'[s])
  <2>1. toHub[s] \in Seq(FromAgent(Known)) /\ RegisterFirst(toHub[s]) /\ toHub[s] # << >>
    BY DEF HubInv, QueuesInv, ReachInv, HandlersInv, HandleRegister
  <2> QED BY <1>1, <2>1, RegisterFacts
<1>3. HandlersInv'
  BY <1>1, <1>2, Registering, SocketFacts DEF ReachInv, HandlersInv
<1>4. NamesInv'
  <2> SUFFICES ASSUME NEW b \in Agents, agents'[b] # None
               PROVE  /\ agents'[b] \in 1..opened /\ owner[agents'[b]] = b
                      /\ ~Reg(toHub'[agents'[b]])
    BY <1>1 DEF NamesInv
  <2>1. CASE agents'[b] = s /\ b = a BY <1>2, <2>1, Registering
  <2>2. CASE agents'[b] = agents[b]
    <3>1. /\ agents[b] \in 1..opened /\ owner[agents[b]] = b /\ ~Reg(toHub[agents[b]])
      BY <2>2 DEF ReachInv, NamesInv
    <3>2. agents[b] \in Sockets BY <3>1, SocketFacts
    <3> QED BY <1>1, <1>2, <2>2, <3>1, <3>2
  <2> QED BY <1>1, <2>1, <2>2
<1>5. PlacesInv'
  <2>1. \A b, c : Place(b, c)' = Place(b, c) BY <1>1 DEF Place
  <2>2. ASSUME NEW b \in Agents, b # a, hand[b] # None, agents[b] # hand[b]
        PROVE  Waiting(hand[b])'
    <3>1. Waiting(hand[b]) /\ hand[b] \in Sockets /\ hand[b] # s
      BY <2>2 DEF ReachInv, PlacesInv, Place, HubInv, ConnsInv
    <3> QED BY <1>1, <3>1 DEF Waiting
  <2>3. ASSUME hand[a] # None PROVE agents'[a] = s \/ Waiting(s)'
    <3>1. /\ hand[a] = s /\ link[s] = "open" /\ toHub[s] = <<REGISTER>> /\ toAgent[s] = << >>
      BY <2>3, Registering
    <3>2. CASE agents' # agents
      BY <3>2 DEF HandleRegister, Attach, HubInv, ConnsInv
    <3>3. CASE Sent(s, ERROR) /\ At(s, IF link[s] = "closed" THEN "finally" ELSE "read")
      <4>1. toAgent'[s] = <<ERROR>>
        BY <3>1, <3>3, FewMessages DEF Sent, HubInv, QueuesInv
      <4>2. pc'[s] = "read" BY <3>1, <3>3 DEF At, HubInv, ConnsInv
      <4>3. toHub'[s] = << >> BY <1>1, <3>1, FewMessages
      <4> QED BY <4>1, <4>2, <4>3 DEF Waiting
    <3>4. CASE Attach(s)
      BY <3>4, Registering DEF Attach, HubInv, ConnsInv
    <3> QED BY <3>2, <3>3, <3>4 DEF HandleRegister
  <2>4. a \in Agents /\ live[a] = None /\ hand[a] \in {None, s} BY Registering
  <2> QED BY <1>1, <2>1, <2>2, <2>3, <2>4 DEF ReachInv, PlacesInv
<1> QED BY <1>3, <1>4, <1>5 DEF ReachInv

(* A handler that ends is not that of the agent's own connection, and no   *)
(* other connection of the agent is still to be ended.                     *)
LEMMA FinallyReach ==
  ASSUME HubInv, ReachInv, NEW s \in Sockets, Finally(s)
  PROVE  ReachInv'
<1> DEFINE a == owner[s]
<1>1. a \in Agents /\ s \in 1..opened /\ link[s] = "closed"
  BY SocketFacts DEF Finally, ReachInv, HandlersInv, HubInv, ConnsInv
<1>2. live[a] = None /\ hand[a] = None
  BY <1>1 DEF ReachInv, PlacesInv, Place
<1>3. /\ UNCHANGED <<opened, owner, live, hand, toAgent>>
      /\ link'[s] = "done" /\ pc'[s] = "end" /\ toHub'[s] = << >>
      /\ \A r \in Sockets : r # s =>
           link'[r] = link[r] /\ pc'[r] = pc[r] /\ toHub'[r] = toHub[r]
      /\ \A b \in Agents : b # a => agents'[b] = agents[b]
      /\ agents'[a] \in {agents[a], None}
  BY <1>1 DEF Finally, client, At, HubInv, ConnsInv, QueuesInv
<1>4. HandlersInv' BY <1>1, <1>3, FewMessages, SocketFacts DEF ReachInv, HandlersInv
<1>5. NamesInv'
  <2> SUFFICES ASSUME NEW b \in Agents, agents'[b] # None
               PROVE  /\ agents'[b] \in 1..opened /\ owner[agents'[b]] = b
                      /\ ~Reg(toHub'[agents'[b]])
    BY <1>3 DEF NamesInv
  <2>1. agents'[b] = agents[b] BY <1>3
  <2>2. /\ agents[b] \in 1..opened /\ owner[agents[b]] = b /\ ~Reg(toHub[agents[b]])
    BY <2>1 DEF ReachInv, NamesInv
  <2>3. agents[b] \in Sockets BY <2>2, SocketFacts
  <2> QED BY <1>3, <2>1, <2>2, <2>3, FewMessages
<1>6. PlacesInv'
  <2> SUFFICES ASSUME NEW b \in Agents
               PROVE  /\ live[b] = None \/ hand[b] = None
                      /\ live[b] # None => Place(b, live[b])' /\ agents'[b] = live[b]
                      /\ hand[b] # None => /\ Place(b, hand[b])'
                                           /\ agents'[b] = hand[b] \/ Waiting(hand[b])'
    BY <1>3 DEF PlacesInv, Place, Waiting
  <2>1. CASE b = a BY <1>2, <2>1
  <2>2. CASE b # a
    <3>1. ASSUME NEW c, c \in Sockets, Place(b, c) PROVE Place(b, c)' /\ c # s
      BY <1>3, <2>2, <3>1, SocketFacts DEF Place
    <3>2. live[b] \in {None} \cup Sockets /\ hand[b] \in {None} \cup Sockets
      BY DEF HubInv, ConnsInv
    <3>3. \A c \in Sockets : c # s /\ Waiting(c) => Waiting(c)'
      BY <1>3 DEF Waiting
    <3> QED BY <1>3, <2>2, <3>1, <3>2, <3>3 DEF ReachInv, PlacesInv
  <2> QED BY <2>1, <2>2
<1> QED BY <1>4, <1>5, <1>6 DEF ReachInv

(* A new connection finds every other one of its agent done, or left open  *)
(* by the agent itself.                                                    *)
LEMMA ConnectReach ==
  ASSUME HubInv, ReachInv, ~Overlap, NEW a \in Agents, Connect(a)
  PROVE  ReachInv'
<1>0. PICK n : n = opened + 1 OBVIOUS
<1>1. n \in Sockets /\ n > opened /\ n # None /\ n \in 1..n /\ 1..opened \subseteq 1..n
  BY <1>0, SocketFacts DEF Connect, Sockets, None
<1>2. /\ opened' = n /\ link'[n] = "open" /\ owner'[n] = a /\ toHub'[n] = <<REGISTER>>
      /\ pc'[n] = "read" /\ hand'[a] = n /\ toAgent'[n] = << >>
      /\ \A s \in Sockets : s # n =>
           /\ link'[s] = link[s] /\ owner'[s] = owner[s] /\ toHub'[s] = toHub[s]
           /\ pc'[s] = pc[s] /\ toAgent'[s] = toAgent[s]
      /\ \A b \in Agents : b # a => hand'[b] = hand[b]
      /\ live' = live /\ agents' = agents /\ live[a] = None /\ hand[a] = None
      /\ \A s \in 1..opened : owner[s] = a => link[s] \in {"open", "done"}
  BY <1>0, <1>1 DEF Connect, At, HubInv, ConnsInv, QueuesInv, ReachInv, HandlersInv
<1>3. \A s \in Sockets : s > n => s > opened /\ s # n
  BY <1>0, SocketFacts DEF Sockets
<1>4. \A s \in 1..n : s = n \/ s \in 1..opened BY <1>0, SocketFacts
<1>5. HandlersInv'
  <2> SUFFICES ASSUME NEW s \in Sockets
               PROVE  /\ s > n => pc'[s] = "end" /\ toHub'[s] = << >> /\ toAgent'[s] = << >>
                      /\ pc'[s] = "finally" => link'[s] = "closed"
                      /\ link'[s] = "done" => pc'[s] = "end"
                      /\ RegisterFirst(toHub'[s])
                      /\ link'[s] = "open" /\ Reg(toHub'[s]) => hand'[owner'[s]] = s
    BY <1>2 DEF HandlersInv
  <2>1. CASE s = n
    <3>1. ~(n > n) BY <1>1, <1>3
    <3> QED BY <1>2, <2>1, <3>1, FewMessages
  <2>2. CASE s # n
    <3>1. owner[s] \in Agents /\ s # None BY SocketFacts DEF HubInv, ConnsInv
    <3> QED BY <1>2, <1>3, <2>2, <3>1 DEF ReachInv, HandlersInv
  <2> QED BY <2>1, <2>2
<1>6. NamesInv'
  <2> SUFFICES ASSUME NEW b \in Agents, agents[b] # None
               PROVE  /\ agents[b] \in 1..n /\ owner'[agents[b]] = b
                      /\ ~Reg(toHub'[agents[b]])
    BY <1>2 DEF NamesInv
  <2>1. /\ agents[b] \in 1..opened /\ owner[agents[b]] = b /\ ~Reg(toHub[agents[b]])
    BY DEF ReachInv, NamesInv
  <2>2. agents[b] \in Sockets /\ agents[b] # n BY <1>1, <2>1, SocketFacts
  <2> QED BY <1>1, <1>2, <2>1, <2>2
<1>7. PlacesInv'
  <2>1. ASSUME NEW b \in Agents, b # a, NEW c, Place(b, c)
        PROVE  Place(b, c)' /\ c # n /\ c \in Sockets
    <3>1. c \in 1..opened /\ c \in Sockets /\ c # n BY <1>1, <2>1, SocketFacts DEF Place
    <3>2. \A s \in 1..n : owner'[s] = b => s \in 1..opened /\ s \in Sockets /\ s # n
      BY <1>1, <1>2, <1>4, <2>1, SocketFacts
    <3> QED BY <1>1, <1>2, <2>1, <3>1, <3>2 DEF Place
  <2>2. Place(a, n)'
    <3>1. \A s \in 1..opened : s \in Sockets /\ s # n BY <1>1, SocketFacts
    <3> QED BY <1>1, <1>2, <1>4, <3>1 DEF Place
  <2>3. Waiting(n)' BY <1>2 DEF Waiting
  <2>4. \A c \in Sockets : c # n /\ Waiting(c) => Waiting(c)' BY <1>2 DEF Waiting
  <2> QED BY <1>2, <2>1, <2>2, <2>3, <2>4 DEF ReachInv, PlacesInv
<1> QED BY <1>5, <1>6, <1>7 DEF ReachInv

(* The first answer on the connection at hand.                             *)
LEMMA AnswerReach ==
  ASSUME HubInv, ReachInv, NEW a \in Agents, ReadAnswer(a)
  PROVE  ReachInv'
<1>0. PICK c : c = hand[a] OBVIOUS
<1>1. /\ c # None /\ toAgent[c] # << >> /\ c \in Sockets /\ Place(a, c)
      /\ c \in 1..opened /\ owner[c] = a /\ link[c] = "open"
      /\ live[a] = None /\ ~(c > opened)
  BY <1>0, SocketFacts DEF ReadAnswer, ReachInv, PlacesInv, Place, HubInv, ConnsInv
<1>2. /\ UNCHANGED <<agents, opened, owner, toHub, pc>>
      /\ hand'[a] = None
      /\ \A b \in Agents : b # a => hand'[b] = hand[b] /\ live'[b] = live[b]
      /\ \A s \in Sockets : s # c => toAgent'[s] = toAgent[s] /\ link'[s] = link[s]
      /\ \/ live'[a] = c /\ link'[c] = "open" /\ Head(toAgent[c]) = REGISTERED
         \/ live'[a] = None /\ link'[c] \in {"open", "closed"}
  BY <1>0, <1>1 DEF ReadAnswer, handlers, HubInv, ConnsInv, QueuesInv
<1>3. ~Reg(toHub[c]) /\ (agents[a] = c \/ Head(toAgent[c]) = ERROR)
  <2>1. CASE agents[a] = c BY <1>1, <2>1 DEF ReachInv, NamesInv
  <2>2. CASE Waiting(c) BY <1>1, <2>2, FewMessages DEF Waiting
  <2> QED BY <1>0, <1>1, <2>1, <2>2 DEF ReachInv, PlacesInv
<1>4. pc[c] # "finally" BY <1>1 DEF ReachInv, HandlersInv
<1>5. HandlersInv'
  <2> SUFFICES ASSUME NEW s \in Sockets
               PROVE  /\ s > opened => pc[s] = "end" /\ toHub[s] = << >> /\ toAgent'[s] = << >>
                      /\ pc[s] = "finally" => link'[s] = "closed"
                      /\ link'[s] = "done" => pc[s] = "end"
                      /\ RegisterFirst(toHub[s])
                      /\ link'[s] = "open" /\ Reg(toHub[s]) => hand'[owner[s]] = s
    BY <1>2 DEF HandlersInv
  <2>1. CASE s = c BY <1>1, <1>2, <1>3, <1>4, <2>1 DEF ReachInv, HandlersInv
  <2>2. CASE s # c
    <3>1. owner[s] \in Agents BY DEF HubInv, ConnsInv
    <3> QED BY <1>0, <1>2, <2>2, <3>1 DEF ReachInv, HandlersInv
  <2> QED BY <2>1, <2>2
<1>6. NamesInv' BY <1>2 DEF ReachInv, NamesInv
<1>7. PlacesInv'
  <2>1. ASSUME NEW b \in Agents, b # a, NEW d, Place(b, d)
        PROVE  Place(b, d)' /\ d # c /\ d \in Sockets
    <3>1. \A s \in 1..opened : s \in Sockets BY SocketFacts
    <3>2. \A s \in 1..opened : owner[s] = b => s # c BY <1>1, <2>1
    <3> QED BY <1>2, <2>1, <3>1, <3>2 DEF Place
  <2>2. ASSUME live'[a] = c PROVE Place(a, c)' /\ agents[a] = c
    <3>1. link'[c] = "open" /\ Head(toAgent[c]) = REGISTERED BY <1>1, <1>2, <2>2
    <3>2. agents[a] = c BY <1>3, <3>1, FewMessages
    <3>3. \A s \in Sockets : link'[s] = link[s] BY <1>1, <1>2, <3>1
    <3> QED BY <1>1, <1>2, <3>2, <3>3, SocketFacts DEF Place
  <2>3. \A d \in Sockets : d # c /\ Waiting(d) => Waiting(d)' BY <1>2 DEF Waiting
  <2>4. live'[a] \in {None, c} BY <1>2
  <2> QED BY <1>2, <2>1, <2>2, <2>3, <2>4 DEF ReachInv, PlacesInv
<1> QED BY <1>5, <1>6, <1>7 DEF ReachInv

(* Connections are lost: those of one agent, which forgets the one it had. *)
LEMMA LossReach ==
  ASSUME HubInv, ReachInv, NEW a \in Agents,
         UNCHANGED <<agents, opened, owner, pc>>, live'[a] = None, hand'[a] = None,
         \A b \in Agents : b # a => live'[b] = live[b] /\ hand'[b] = hand[b],
         \A s \in Sockets :
           /\ RegisterFirst(toHub'[s]) /\ (Reg(toHub'[s]) => Reg(toHub[s]))
           /\ s > opened => toHub'[s] = << >> /\ toAgent'[s] = << >>
           /\ owner[s] # a => /\ link'[s] = link[s] /\ toHub'[s] = toHub[s]
                              /\ toAgent'[s] = toAgent[s]
           /\ link'[s] = link[s] \/ (link[s] = "open" /\ link'[s] = "lost")
           /\ hand[a] = s /\ s # None => link'[s] = "lost"
  PROVE  ReachInv'
<1>1. \A s \in Sockets : owner[s] \in Agents /\ s # None
  BY SocketFacts DEF HubInv, ConnsInv
<1>2. HandlersInv' BY <1>1 DEF ReachInv, HandlersInv
<1>3. NamesInv' BY SocketFacts DEF ReachInv, NamesInv
<1>4. PlacesInv'
  <2>1. ASSUME NEW b \in Agents, b # a, NEW d, Place(b, d)
        PROVE  Place(b, d)' /\ d \in Sockets /\ (Waiting(d) => Waiting(d)')
    <3>1. \A s \in 1..opened : s \in Sockets BY SocketFacts
    <3>2. \A s \in 1..opened : owner[s] = b => owner[s] # a BY <2>1
    <3> QED BY <2>1, <3>1, <3>2 DEF Place, Waiting
  <2> QED BY <2>1 DEF ReachInv, PlacesInv
<1> QED BY <1>2, <1>3, <1>4 DEF ReachInv

LEMMA DropReach ==
  ASSUME HubInv, ReachInv, NEW a \in Agents, DropLink(a)
  PROVE  ReachInv'
<1> DEFINE c == IF live[a] # None THEN live[a] ELSE hand[a]
<1>1. /\ c \in Sockets /\ c \in 1..opened /\ owner[c] = a /\ link[c] = "open" /\ ~(c > opened)
      /\ live[a] \in {None, c} /\ hand[a] \in {None, c}
  BY SocketFacts DEF DropLink, ReachInv, PlacesInv, Place
<1> HIDE DEF c
<1>2. PICK k \in 0..Len(toHub[c]) : toHub' = [toHub EXCEPT ![c] = SubSeq(@, 1, k)]
  BY DEF DropLink, c
<1>3. /\ UNCHANGED <<agents, opened, owner, pc>>
      /\ link' = [link EXCEPT ![c] = "lost"] /\ toAgent' = [toAgent EXCEPT ![c] = << >>]
      /\ LeaveAgent(c)
  BY DEF DropLink, handlers, c
<1>4. /\ live'[a] = None /\ hand'[a] = None
      /\ \A b \in Agents : b # a => live'[b] = live[b] /\ hand'[b] = hand[b]
  BY <1>1, <1>3 DEF LeaveAgent, HubInv, ConnsInv
<1>5. /\ link'[c] = "lost" /\ toAgent'[c] = << >>
      /\ \A s \in Sockets : s # c =>
           link'[s] = link[s] /\ toHub'[s] = toHub[s] /\ toAgent'[s] = toAgent[s]
  BY <1>1, <1>2, <1>3 DEF HubInv, ConnsInv, QueuesInv
<1>6. RegisterFirst(toHub'[c]) /\ (Reg(toHub'[c]) => Reg(toHub[c]))
  <2>1. toHub'[c] = SubSeq(toHub[c], 1, k) BY <1>1, <1>2 DEF HubInv, QueuesInv
  <2>2. toHub[c] \in Seq(FromAgent(Known)) /\ RegisterFirst(toHub[c])
    BY <1>1 DEF HubInv, QueuesInv, ReachInv, HandlersInv
  <2> QED BY <2>1, <2>2, RegisterFacts
<1>7. \A s \in Sockets :
           /\ RegisterFirst(toHub'[s]) /\ (Reg(toHub'[s]) => Reg(toHub[s]))
           /\ s > opened => toHub'[s] = << >> /\ toAgent'[s] = << >>
           /\ owner[s] # a => /\ link'[s] = link[s] /\ toHub'[s] = toHub[s]
                              /\ toAgent'[s] = toAgent[s]
           /\ link'[s] = link[s] \/ (link[s] = "open" /\ link'[s] = "lost")
           /\ hand[a] = s /\ s # None => link'[s] = "lost"
  BY <1>1, <1>5, <1>6 DEF ReachInv, HandlersInv
<1> QED BY <1>3, <1>4, <1>7, LossReach

LEMMA CrashReach ==
  ASSUME HubInv, ReachInv, NEW a \in Agents, CrashAgent(a)
  PROVE  ReachInv'
<1> DEFINE mine == {s \in 1..opened : owner[s] = a /\ link[s] = "open"}
<1>1. /\ UNCHANGED <<agents, opened, owner, pc, toHub>>
      /\ live'[a] = None /\ hand'[a] = None
      /\ \A b \in Agents : b # a => live'[b] = live[b] /\ hand'[b] = hand[b]
      /\ \A s \in Sockets :
           /\ link'[s] = IF s \in mine THEN "lost" ELSE link[s]
           /\ toAgent'[s] = IF s \in mine THEN << >> ELSE toAgent[s]
  BY DEF CrashAgent, handlers, HubInv, ConnsInv
<1>2. \A s \in Sockets : hand[a] = s /\ s # None => s \in mine
  BY DEF ReachInv, PlacesInv, Place
<1>3. \A s \in Sockets :
           /\ RegisterFirst(toHub'[s]) /\ (Reg(toHub'[s]) => Reg(toHub[s]))
           /\ s > opened => toHub'[s] = << >> /\ toAgent'[s] = << >>
           /\ owner[s] # a => /\ link'[s] = link[s] /\ toHub'[s] = toHub[s]
                              /\ toAgent'[s] = toAgent[s]
           /\ link'[s] = link[s] \/ (link[s] = "open" /\ link'[s] = "lost")
           /\ hand[a] = s /\ s # None => link'[s] = "lost"
  BY <1>1, <1>2 DEF ReachInv, HandlersInv
<1> QED BY <1>1, <1>3, LossReach

LEMMA NoticeReach ==
  ASSUME HubInv, ReachInv, NEW s \in Sockets, Notice(s)
  PROVE  ReachInv'
<1>1. /\ UNCHANGED <<agents, opened, owner, pc, toHub, toAgent, live, hand>>
      /\ link[s] = "lost" /\ link'[s] = "closed"
      /\ \A r \in Sockets : r # s => link'[r] = link[r]
  BY DEF Notice, queues, handlers, client, HubInv, ConnsInv
<1>2. HandlersInv' BY <1>1 DEF ReachInv, HandlersInv
<1>3. NamesInv' BY <1>1 DEF ReachInv, NamesInv
<1>4. \A a, c : Place(a, c) => Place(a, c)'
  BY <1>1, SocketFacts DEF Place
<1>5. \A c : Waiting(c) => Waiting(c)' BY <1>1 DEF Waiting
<1>6. PlacesInv' BY <1>1, <1>4, <1>5 DEF ReachInv, PlacesInv
<1> QED BY <1>2, <1>3, <1>6 DEF ReachInv

LEMMA RestartReach ==
  ASSUME HubInv, ReachInv, Restart
  PROVE  ReachInv'
<1>1. /\ opened' = opened
      /\ \A s \in Sockets : pc'[s] = "end" /\ toHub'[s] = << >> /\ toAgent'[s] = << >>
      /\ \A a \in Agents : agents'[a] = None /\ live'[a] = None /\ hand'[a] = None
  BY SocketFacts DEF Restart, ReachInv, HandlersInv
<1>2. HandlersInv' BY <1>1, FewMessages DEF HandlersInv
<1> QED BY <1>1, <1>2 DEF ReachInv, NamesInv, PlacesInv

LEMMA ReachNext ==
  ASSUME HubInv, ReachInv, [Next]_vars, ~Overlap, ~AdminActs
  PROVE  ReachInv'
<1>1. ASSUME NEW t \in Tasks, Deliver(t) \/ Retry(t) PROVE ReachInv'
  <2>1. Assignee[t] \in Agents BY HubAssumption DEF HubAssumption
  <2>2. DeliverTo(Assignee[t], Assign(t)) BY <1>1 DEF Deliver, Retry
  <2>3. UNCHANGED <<agents, conns, toHub, pc, live, hand>>
    BY <1>1 DEF Deliver, Retry, handlers, client
  <2> QED BY <2>1, <2>2, <2>3, DeliverReach
<1>2. ASSUME NEW s \in Sockets, HandlerStep(s) \/ Notice(s) PROVE ReachInv'
  BY <1>2, HandlerReach, RegisterReach, FinallyReach, NoticeReach DEF HandlerStep
<1>3. ASSUME NEW a \in Agents, AgentStep(a) \/ DropLink(a) \/ CrashAgent(a) PROVE ReachInv'
  BY <1>3, ConnectReach, AnswerReach, ListenReach, DropReach, CrashReach DEF AgentStep
<1>4. ASSUME NEW t \in Tasks, Begin(t) \/ Finish(t) PROVE ReachInv'
  BY <1>4, ReportReach
<1>5. CASE Restart BY <1>5, RestartReach
<1>6. CASE UNCHANGED <<agents, conns, queues, pc, live, hand>>
  <2>1. /\ toHub' = toHub /\ toAgent' = toAgent /\ pc' = pc
        /\ UNCHANGED <<agents, conns, live, hand>>
    BY <1>6 DEF queues
  <2> QED BY <2>1, SameNames DEF ReachInv, HandlersInv
<1>7. \/ \E t \in Tasks : Deliver(t) \/ Retry(t) \/ Begin(t) \/ Finish(t)
      \/ \E s \in Sockets : HandlerStep(s) \/ Notice(s)
      \/ \E a \in Agents : AgentStep(a) \/ DropLink(a) \/ CrashAgent(a)
      \/ Restart \/ UNCHANGED <<agents, conns, queues, pc, live, hand>>
  BY DEF Next, EscrowCommand, Submit, Approve, Deny, Cancel, Disconnect,
         handlers, client, queues, vars
<1> QED BY <1>1, <1>2, <1>3, <1>4, <1>5, <1>6, <1>7

(* The finally of handle_agent (hub.py) forgets a name whichever           *)
(* connection it points to.  It takes no reachable agent's, if an agent    *)
(* comes back only once the hub is done with its last connection and no    *)
(* command closes one: connections, restarts and refusals then never leave *)
(* a listening agent without its entry.                                    *)
THEOREM RegisteredAreReachable ==
  ASSUME ~Overlap, ~AdminActs
  PROVE  Spec => []RegisteredIsReachable
<1>1. Init => ReachInv
  BY FewMessages DEF Init, ReachInv, HandlersInv, NamesInv, PlacesInv
<1>2. HubInv /\ ReachInv /\ [Next]_vars => ReachInv' BY ReachNext
<1>3. ReachInv => RegisteredIsReachable
  BY DEF ReachInv, PlacesInv, RegisteredIsReachable
<1> QED BY <1>1, <1>2, <1>3, HubInvariant, PTL DEF Spec
=============================================================================
