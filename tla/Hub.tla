-------------------------------- MODULE Hub --------------------------------
(***************************************************************************)
(* The task lifecycle of one hub (hub.py, admin.py) with the agents that   *)
(* execute the tasks (agent.py) and the connections between them.          *)
(*                                                                         *)
(* The hub is one asyncio thread: a handler runs undisturbed up to an      *)
(* await at which it may be suspended, and there its action ends.  Each    *)
(* connection has a handler of its own, named by the connection's number.  *)
(* A submission, an administrator's command and the delivery that follows  *)
(* them are named by their task.                                           *)
(***************************************************************************)
EXTENDS Escrow, Sequences

CONSTANTS
  Agents,         \* qualified names of the agents that execute tasks
  Assignee,       \* [Tasks -> Agents]
  NeedsApproval,  \* tasks a rule of the approval policy retains
  Malformed,      \* tasks InterMeshTask.from_dict refuses
  MaxAgents,      \* MAX_AGENTS, 0 for no limit
  MaxInFlight,    \* BackpressureLimits.max_in_flight, 0 for no limit
  MaxQueue,       \* BackpressureLimits.max_queue_depth, 0 for no limit
  Overlap,        \* whether an agent may come back before the hub has
                  \*   finished with its previous connection
  AdminActs,      \* whether an administrator intervenes
  MaxSockets,     \* bound: connections opened in a behaviour
  MaxDrops,       \* bound: connections lost
  MaxRestarts,    \* bound: restarts of the hub
  MaxRetries,     \* bound: task.retry commands
  MaxMinted       \* bound: funds granted to an organisation

Sockets == 1..MaxSockets
None    == 0

ASSUME HubAssumption ==
  /\ Agents # {} /\ Assignee \in [Tasks -> Agents]
  /\ NeedsApproval \subseteq Tasks /\ Malformed \subseteq Tasks
  /\ {Overlap, AdminActs} \subseteq BOOLEAN
  /\ {MaxAgents, MaxInFlight, MaxQueue, MaxSockets} \subseteq Nat
  /\ {MaxDrops, MaxRestarts, MaxRetries, MaxMinted} \subseteq Nat

VARIABLES
  status,      \* task_registry, and the tasks of the store: saved together
  pendingApprovals,  \* pending_approvals
  delivering,  \* finalize_task_submission is at its broadcasts
  agents,      \* the connection the hub knows for each name, or None
  opened,      \* connections opened so far
  link,        \* what became of each connection
  owner,       \* the agent that opened it
  toHub,       \* messages sent by the agent and not read by the hub
  toAgent,     \* messages sent by the hub and not read by the agent
  pc,          \* where the handler of each connection is
  registered,  \* its local agent_name is set
  todo,        \* its local list of tasks to resume
  ended,       \* its local task, whose terminal status it has just saved
  live,        \* agent side: the connection its listen loop reads, or None
  hand,        \* agent side: the connection on which it awaits REGISTERED
  refused,     \* agent side: a PermissionError ended the reconnect loop
  assigned,    \* agent side: executions of each task about to start
  working,     \* agent side: executions of each task in the handler
  drops, restarts, retries,  \* counters of the bounds
  told         \* history: terminal statuses relayed to the orchestrator

tasks    == <<status, pendingApprovals, delivering>>
conns    == <<opened, link, owner>>
queues   == <<toHub, toAgent>>
handlers == <<pc, registered, todo, ended>>
client   == <<live, hand, refused>>
work     == <<assigned, working>>
counters == <<drops, restarts, retries>>
vars     == <<escrowVars, tasks, agents, conns, queues, handlers, client, work,
              counters, told>>

Terminal == {"completed", "failed"}
InFlight == {t \in Tasks : status[t] \in {"pending", "running"}}
Queued   == {t \in Tasks : status[t] = "pending"}
Connected == {a \in Agents : agents[a] # None}

REGISTER == [type |-> "register"]
Update(t, st) == [type |-> "update", task |-> t, status |-> st]
Assign(t) == [type |-> "assign", task |-> t]
REGISTERED == [type |-> "registered"]
ERROR == [type |-> "error"]

(* websocket.send on a connection the library knows to be closed raises;   *)
(* on one that is lost it succeeds, and nobody reads the message.          *)
Sent(s, m) ==
  toAgent' = IF link[s] = "open" THEN [toAgent EXCEPT ![s] = Append(@, m)] ELSE toAgent

(* deliver_or_relay to a local agent. *)
DeliverTo(a, m) ==
  IF agents[a] = None THEN UNCHANGED toAgent ELSE Sent(agents[a], m)

At(s, label) == pc' = [pc EXCEPT ![s] = label]

-----------------------------------------------------------------------------
(***************************************************************************)
(* Submission, and the two ways out of the queue of approvals.             *)
(***************************************************************************)

(* task_load and BackpressureGate.admit, the rate aside: a refusal leaves  *)
(* no trace in the state below.                                            *)
Admit ==
  /\ MaxInFlight # 0 => Cardinality(InFlight) < MaxInFlight
  /\ MaxQueue # 0 => Cardinality(Queued) < MaxQueue

(* finalize_task_submission up to its first await: the hold, then the task *)
(* itself.  from_dict may refuse the task after the hold was created.      *)
Finalize(t) ==
  /\ IF Amount[t] > 0 THEN CreateHold(t) ELSE UNCHANGED escrowVars
  /\ IF t \in Malformed
     THEN UNCHANGED <<status, delivering>>
     ELSE /\ status' = [status EXCEPT ![t] = "pending"]
          /\ delivering' = delivering \cup {t}

HoldEarly(t) ==
  /\ pendingApprovals' = pendingApprovals \cup {t}
  /\ IF CanHold(t) THEN CreateHold(t) ELSE UNCHANGED escrowVars
  /\ UNCHANGED <<status, delivering>>

(* The task is put aside before anything is engaged for it. *)
Retain(t) ==
  /\ pendingApprovals' = pendingApprovals \cup {t}
  /\ UNCHANGED <<escrowVars, status, delivering>>

(* TASK_SUBMIT, once admitted.  Task ids are fresh (uuid4). *)
Submit(t) ==
  /\ status[t] = "none" /\ holds[t] = "none" /\ t \notin pendingApprovals
  /\ Admit
  /\ \/ t \in NeedsApproval /\ Retain(t)
     \/ t \notin NeedsApproval /\ Finalize(t) /\ UNCHANGED pendingApprovals
  /\ UNCHANGED <<agents, conns, queues, handlers, client, work, counters, told>>

(* approval.approve: the entry leaves the queue unless the hold is refused. *)
Approve(t) ==
  /\ t \in pendingApprovals
  /\ pendingApprovals' = pendingApprovals \ {t}
  /\ Finalize(t)
  /\ UNCHANGED <<agents, conns, queues, handlers, client, work, counters, told>>

Deny(t) ==
  /\ t \in pendingApprovals
  /\ pendingApprovals' = pendingApprovals \ {t}
  /\ UNCHANGED <<escrowVars, status, delivering, agents, conns, queues, handlers,
                 client, work, counters, told>>

(* The end of finalize_task_submission, after its broadcasts. *)
Deliver(t) ==
  /\ t \in delivering
  /\ delivering' = delivering \ {t}
  /\ DeliverTo(Assignee[t], Assign(t))
  /\ UNCHANGED <<escrowVars, status, pendingApprovals, agents, conns, toHub, handlers,
                 client, work, counters, told>>

-----------------------------------------------------------------------------
(***************************************************************************)
(* The other commands of an administrator.                                 *)
(***************************************************************************)

Cancel(t) ==
  /\ AdminActs
  /\ status[t] \in {"pending", "running"}
  /\ status' = [status EXCEPT ![t] = "failed"]
  /\ UNCHANGED <<escrowVars, pendingApprovals, delivering, agents, conns, queues,
                 handlers, client, work, counters, told>>

Retry(t) ==
  /\ AdminActs
  /\ status[t] # "none" /\ retries < MaxRetries
  /\ retries' = retries + 1
  /\ status' = [status EXCEPT ![t] = "pending"]
  /\ DeliverTo(Assignee[t], Assign(t))
  /\ UNCHANGED <<escrowVars, pendingApprovals, delivering, agents, conns, toHub,
                 handlers, client, work, drops, restarts, told>>

EscrowCommand ==
  /\ \/ \E o \in Orgs : minted[o] < MaxMinted /\ Grant(o, 1)
     \/ AdminActs /\ \E t \in Tasks : Release(t) \/ Refund(t)
  /\ UNCHANGED <<tasks, agents, conns, queues, handlers, client, work, counters, told>>

(* The agent's side of a connection that is over. *)
LeaveAgent(s) ==
  /\ live' = [live EXCEPT ![owner[s]] = IF @ = s THEN None ELSE @]
  /\ hand' = [hand EXCEPT ![owner[s]] = IF @ = s THEN None ELSE @]

(* agent.disconnect and the kill switch: the hub closes the connection.    *)
Disconnect(a) ==
  /\ AdminActs /\ drops < MaxDrops
  /\ agents[a] # None /\ link[agents[a]] = "open"
  /\ drops' = drops + 1
  /\ link' = [link EXCEPT ![agents[a]] = "closed"]
  /\ toAgent' = [toAgent EXCEPT ![agents[a]] = << >>]
  /\ LeaveAgent(agents[a])
  /\ UNCHANGED <<escrowVars, tasks, agents, opened, owner, toHub, handlers, refused,
                 work, restarts, retries, told>>

-----------------------------------------------------------------------------
(***************************************************************************)
(* The handler of a connection.                                            *)
(***************************************************************************)

FirstComeStays(s) ==
  agents' = [agents EXCEPT ![owner[s]] = IF @ = None THEN s ELSE @]

(* The last connection to register under a name is the one that is known. *)
Attach(s) == agents' = [agents EXCEPT ![owner[s]] = s]

HandleRegister(s) ==
  /\ pc[s] = "read" /\ toHub[s] # << >> /\ Head(toHub[s]) = REGISTER
  /\ toHub' = [toHub EXCEPT ![s] = Tail(@)]
  /\ IF MaxAgents # 0 /\ Cardinality(Connected) >= MaxAgents
     THEN /\ Sent(s, ERROR)
          /\ At(s, IF link[s] = "closed" THEN "finally" ELSE "read")
          /\ UNCHANGED <<agents, registered>>
     ELSE /\ Attach(s)
          /\ registered' = [registered EXCEPT ![s] = TRUE]
          /\ At(s, "announce")
          /\ UNCHANGED toAgent
  /\ UNCHANGED <<escrowVars, tasks, conns, todo, ended, client, work, counters, told>>

(* After the broadcasts: the answer to REGISTER. *)
Announce(s) ==
  /\ pc[s] = "announce"
  /\ Sent(s, REGISTERED)
  /\ At(s, IF link[s] = "closed" THEN "finally" ELSE "list")
  /\ UNCHANGED <<escrowVars, tasks, agents, conns, toHub, registered, todo, ended,
                 client, work, counters, told>>

NothingToResume(a) == {}

(* The tasks that wait for this agent. *)
ToResume(a) == {t \in Queued : Assignee[t] = a}

(* The list is computed once, and its tasks are sent one by one, whatever  *)
(* their status has become.                                                *)
Resume(s) ==
  /\ pc[s] \in {"list", "resume"}
  /\ LET rest == IF pc[s] = "list" THEN ToResume(owner[s]) ELSE todo[s]
     IN  IF rest = {} \/ link[s] = "closed"
         THEN /\ At(s, IF rest = {} THEN "read" ELSE "finally")
              /\ todo' = [todo EXCEPT ![s] = {}]
              /\ UNCHANGED toAgent
         ELSE \E t \in rest :
                /\ Sent(s, Assign(t))
                /\ todo' = [todo EXCEPT ![s] = rest \ {t}]
                /\ At(s, "resume")
  /\ UNCHANGED <<escrowVars, tasks, agents, conns, toHub, registered, ended, client,
                 work, counters, told>>

(* TASK_UPDATE, up to the broadcasts that follow a terminal status.  The   *)
(* new status replaces the old one, whatever it was.                       *)
HandleUpdate(s) ==
  /\ pc[s] = "read" /\ toHub[s] # << >> /\ Head(toHub[s]).type = "update"
  /\ toHub' = [toHub EXCEPT ![s] = Tail(@)]
  /\ LET m == Head(toHub[s])
     IN  /\ status' = [status EXCEPT ![m.task] = m.status]
         /\ IF m.status \in Terminal
            THEN ended' = [ended EXCEPT ![s] = {m}] /\ At(s, "settle")
            ELSE UNCHANGED <<ended, pc>>
  /\ UNCHANGED <<escrowVars, pendingApprovals, delivering, agents, conns, toAgent,
                 registered, todo, client, work, counters, told>>

SettleCompletedOnly(t, st) ==
  IF st = "completed" /\ holds[t] = "held" /\ AutoRelease[t]
  THEN Release(t) ELSE UNCHANGED escrowVars

(* What a terminal status does to the hold, read again after the await.    *)
Settlement(t, st) ==
  CASE st = "completed" /\ holds[t] = "held" /\ AutoRelease[t] -> Release(t)
    [] st = "failed" /\ holds[t] = "held" -> Refund(t)
    [] OTHER -> UNCHANGED escrowVars

(* The end of TASK_UPDATE: the hold, then the relay to the orchestrator.   *)
Settle(s) ==
  /\ pc[s] = "settle"
  /\ \E m \in ended[s] :
       /\ Settlement(m.task, m.status)
       /\ told' = [told EXCEPT ![m.task] = @ \cup {m.status}]
  /\ ended' = [ended EXCEPT ![s] = {}]
  /\ At(s, "read")
  /\ UNCHANGED <<tasks, agents, conns, queues, registered, todo, client, work, counters>>

(* "finally": the name is forgotten whichever connection it now points to. *)
Finally(s) ==
  /\ \/ pc[s] = "finally"
     \/ pc[s] = "read" /\ link[s] = "closed" /\ toHub[s] = << >>
  /\ agents' = IF registered[s] THEN [agents EXCEPT ![owner[s]] = None] ELSE agents
  /\ link' = [link EXCEPT ![s] = "done"]
  /\ toHub' = [toHub EXCEPT ![s] = << >>]
  /\ At(s, "end")
  /\ UNCHANGED <<escrowVars, tasks, opened, owner, toAgent, registered, todo, ended,
                 client, work, counters, told>>

(* The ping of the library is not answered, or the TCP connection is reset. *)
Notice(s) ==
  /\ link[s] = "lost"
  /\ link' = [link EXCEPT ![s] = "closed"]
  /\ UNCHANGED <<escrowVars, tasks, agents, opened, owner, queues, handlers, client,
                 work, counters, told>>

-----------------------------------------------------------------------------
(***************************************************************************)
(* The agents, with auto_reconnect.                                        *)
(***************************************************************************)

(* _register_on: connect, send REGISTER, wait for one answer.              *)
Connect(a) ==
  /\ live[a] = None /\ hand[a] = None /\ ~refused[a]
  /\ opened < MaxSockets
  /\ Overlap \/ \A s \in 1..opened : owner[s] = a => link[s] \in {"open", "done"}
  /\ LET s == opened + 1
     IN  /\ opened' = s
         /\ link' = [link EXCEPT ![s] = "open"]
         /\ owner' = [owner EXCEPT ![s] = a]
         /\ toHub' = [toHub EXCEPT ![s] = <<REGISTER>>]
         /\ At(s, "read")
         /\ hand' = [hand EXCEPT ![a] = s]
  /\ UNCHANGED <<escrowVars, tasks, agents, toAgent, registered, todo, ended, live,
                 refused, work, counters, told>>

(* The first answer.  One that is neither REGISTERED nor ERROR is dropped, *)
(* and the listen loop that starts on the connection of before ends there: *)
(* the new connection stays open and nobody reads it.                      *)
ReadAnswer(a) ==
  LET s == hand[a]
  IN  /\ s # None /\ toAgent[s] # << >>
      /\ toAgent' = [toAgent EXCEPT ![s] = Tail(@)]
      /\ hand' = [hand EXCEPT ![a] = None]
      /\ \/ /\ Head(toAgent[s]) = REGISTERED
            /\ live' = [live EXCEPT ![a] = s]
            /\ UNCHANGED <<link, refused>>
         \/ /\ Head(toAgent[s]) = ERROR
            /\ refused' = [refused EXCEPT ![a] = TRUE]
            /\ link' = [link EXCEPT ![s] = "closed"]
            /\ UNCHANGED live
         \/ /\ Head(toAgent[s]).type = "assign"
            /\ UNCHANGED <<live, link, refused>>
      /\ UNCHANGED <<escrowVars, tasks, agents, opened, owner, toHub, handlers, work,
                     counters, told>>

(* _listen_loop: each TASK_ASSIGN starts an execution of its own, and an   *)
(* executor has nothing to do about what else it reads.                    *)
Listen(a) ==
  LET s == live[a]
  IN  /\ s # None /\ toAgent[s] # << >>
      /\ assigned' = [t \in Tasks |-> IF Head(toAgent[s]) = Assign(t)
                                        THEN assigned[t] + 1 ELSE assigned[t]]
      /\ toAgent' = [toAgent EXCEPT ![s] = Tail(@)]
      /\ UNCHANGED <<escrowVars, tasks, agents, conns, toHub, handlers, client, working,
                     counters, told>>

(* self.ws.send of a TASK_UPDATE; without a connection it raises, and the  *)
(* execution is over.                                                      *)
SendUpdate(t, st) ==
  LET s == live[Assignee[t]]
  IN  toHub' = IF s = None THEN toHub
               ELSE [toHub EXCEPT ![s] = Append(@, Update(t, st))]

(* _execute_assigned_task, first update. *)
Begin(t) ==
  /\ assigned[t] > 0
  /\ assigned' = [assigned EXCEPT ![t] = @ - 1]
  /\ working' = IF live[Assignee[t]] = None THEN working
                ELSE [working EXCEPT ![t] = @ + 1]
  /\ SendUpdate(t, "running")
  /\ UNCHANGED <<escrowVars, tasks, agents, conns, toAgent, handlers, client, counters,
                 told>>

(* _execute_assigned_task, last update. *)
Finish(t) ==
  /\ working[t] > 0
  /\ working' = [working EXCEPT ![t] = @ - 1]
  /\ \E st \in Terminal : SendUpdate(t, st)
  /\ UNCHANGED <<escrowVars, tasks, agents, conns, toAgent, handlers, client, assigned,
                 counters, told>>

(* The connection of an agent is lost, with the end of what it had sent.   *)
(* The executions go on, and will use the connection that comes next.      *)
DropLink(a) ==
  LET s == IF live[a] # None THEN live[a] ELSE hand[a]
  IN  /\ s # None /\ drops < MaxDrops
      /\ drops' = drops + 1
      /\ link' = [link EXCEPT ![s] = "lost"]
      /\ \E k \in 0..Len(toHub[s]) :
           toHub' = [toHub EXCEPT ![s] = SubSeq(@, 1, k)]
      /\ toAgent' = [toAgent EXCEPT ![s] = << >>]
      /\ LeaveAgent(s)
      /\ UNCHANGED <<escrowVars, tasks, agents, opened, owner, handlers, refused, work,
                     restarts, retries, told>>

(* The process of an agent ends and another takes its place: its           *)
(* connections are lost, the ones nobody reads too, and its executions.    *)
CrashAgent(a) ==
  LET mine == {s \in 1..opened : owner[s] = a /\ link[s] = "open"}
  IN  /\ drops < MaxDrops
      /\ drops' = drops + 1
      /\ link' = [s \in Sockets |-> IF s \in mine THEN "lost" ELSE link[s]]
      /\ toAgent' = [s \in Sockets |-> IF s \in mine THEN << >> ELSE toAgent[s]]
      /\ live' = [live EXCEPT ![a] = None] /\ hand' = [hand EXCEPT ![a] = None]
      /\ refused' = [refused EXCEPT ![a] = FALSE]
      /\ assigned' = [t \in Tasks |-> IF Assignee[t] = a THEN 0 ELSE assigned[t]]
      /\ working' = [t \in Tasks |-> IF Assignee[t] = a THEN 0 ELSE working[t]]
      /\ UNCHANGED <<escrowVars, tasks, agents, opened, owner, toHub, handlers,
                     restarts, retries, told>>

-----------------------------------------------------------------------------
(***************************************************************************)
(* The hub stops and starts again on its database: identities, tasks and   *)
(* the audit log come back; holds, balances, the queue of approvals and    *)
(* the connections do not.                                                 *)
(***************************************************************************)
StatusReloaded == status

Restart ==
  /\ restarts < MaxRestarts
  /\ restarts' = restarts + 1
  /\ status' = StatusReloaded
  /\ pendingApprovals' = {} /\ delivering' = {}
  /\ balances' = [o \in Orgs |-> 0] /\ minted' = [o \in Orgs |-> 0]
  /\ holds' = [t \in Tasks |-> "none"]
  /\ agents' = [a \in Agents |-> None]
  /\ link' = [s \in Sockets |-> IF s <= opened THEN "done" ELSE link[s]]
  /\ toHub' = [s \in Sockets |-> << >>] /\ toAgent' = [s \in Sockets |-> << >>]
  /\ pc' = [s \in Sockets |-> IF s <= opened THEN "end" ELSE pc[s]]
  /\ todo' = [s \in Sockets |-> {}] /\ ended' = [s \in Sockets |-> {}]
  /\ live' = [a \in Agents |-> None] /\ hand' = [a \in Agents |-> None]
  /\ UNCHANGED <<opened, owner, registered, refused, work, drops, retries, told>>

-----------------------------------------------------------------------------
Init ==
  /\ EscrowInit
  /\ status = [t \in Tasks |-> "none"]
  /\ pendingApprovals = {} /\ delivering = {}
  /\ agents = [a \in Agents |-> None]
  /\ opened = 0
  /\ link = [s \in Sockets |-> "unused"]
  /\ owner = [s \in Sockets |-> CHOOSE a \in Agents : TRUE]
  /\ toHub = [s \in Sockets |-> << >>] /\ toAgent = [s \in Sockets |-> << >>]
  /\ pc = [s \in Sockets |-> "end"]
  /\ registered = [s \in Sockets |-> FALSE]
  /\ todo = [s \in Sockets |-> {}] /\ ended = [s \in Sockets |-> {}]
  /\ live = [a \in Agents |-> None] /\ hand = [a \in Agents |-> None]
  /\ refused = [a \in Agents |-> FALSE]
  /\ assigned = [t \in Tasks |-> 0] /\ working = [t \in Tasks |-> 0]
  /\ drops = 0 /\ restarts = 0 /\ retries = 0
  /\ told = [t \in Tasks |-> {}]

HandlerStep(s) ==
  \/ HandleRegister(s) \/ Announce(s) \/ Resume(s)
  \/ HandleUpdate(s) \/ Settle(s) \/ Finally(s)

AgentStep(a) == Connect(a) \/ ReadAnswer(a) \/ Listen(a)

Next ==
  \/ \E t \in Tasks : Submit(t) \/ Approve(t) \/ Deny(t) \/ Deliver(t)
  \/ \E t \in Tasks : Cancel(t) \/ Retry(t)
  \/ EscrowCommand
  \/ \E s \in Sockets : HandlerStep(s) \/ Notice(s)
  \/ \E a \in Agents : AgentStep(a) \/ Disconnect(a) \/ DropLink(a) \/ CrashAgent(a)
  \/ \E t \in Tasks : Begin(t) \/ Finish(t)
  \/ Restart

Spec == Init /\ [][Next]_vars

(* The event loop gives every ready handler its turn, the library answers  *)
(* for a lost connection within its ping timeout, and an agent with        *)
(* auto_reconnect keeps trying and keeps reading.  Nothing obliges anyone  *)
(* to submit, to approve, to intervene, or an executor to finish.          *)
FairSpec ==
  /\ Spec
  /\ \A s \in Sockets : WF_vars(HandlerStep(s)) /\ WF_vars(Notice(s))
  /\ \A a \in Agents : WF_vars(AgentStep(a))
  /\ \A t \in Tasks : WF_vars(Deliver(t)) /\ WF_vars(Begin(t))

(* The same, with executors that always finish. *)
DiligentSpec == FairSpec /\ \A t \in Tasks : WF_vars(Finish(t))

-----------------------------------------------------------------------------
(***************************************************************************)
(* Properties.                                                             *)
(***************************************************************************)
Message ==
  {REGISTER, REGISTERED, ERROR}
  \cup {Assign(t) : t \in Tasks}
  \cup {Update(t, st) : t \in Tasks, st \in {"running"} \cup Terminal}

(* The values of the variables. *)
TypeOK ==
  /\ EscrowTypeOK
  /\ status \in [Tasks -> {"none", "pending", "running"} \cup Terminal]
  /\ pendingApprovals \subseteq Tasks /\ delivering \subseteq Tasks
  /\ agents \in [Agents -> {None} \cup Sockets]
  /\ opened \in {None} \cup Sockets
  /\ link \in [Sockets -> {"unused", "open", "lost", "closed", "done"}]
  /\ owner \in [Sockets -> Agents]
  /\ toHub \in [Sockets -> Seq(Message)] /\ toAgent \in [Sockets -> Seq(Message)]
  /\ pc \in [Sockets -> {"read", "announce", "list", "resume", "settle", "finally", "end"}]
  /\ registered \in [Sockets -> BOOLEAN]
  /\ todo \in [Sockets -> SUBSET Tasks]
  /\ \A s \in Sockets : ended[s] \subseteq Message
  /\ live \in [Agents -> {None} \cup Sockets] /\ hand \in [Agents -> {None} \cup Sockets]
  /\ refused \in [Agents -> BOOLEAN]
  /\ assigned \in [Tasks -> Nat] /\ working \in [Tasks -> Nat]
  /\ told \in [Tasks -> SUBSET Terminal]

(* A task that waits for a person has immobilised no funds, whatever else  *)
(* was submitted, approved or refused for want of funds in between.        *)
NothingHeldWhilePending == \A t \in pendingApprovals : holds[t] = "none"

(* The orchestrator learns that its task ended only once the hold has      *)
(* been resolved accordingly.                                              *)
ToldIsSettled ==
  \A t \in Tasks :
    /\ "completed" \in told[t] /\ AutoRelease[t] => holds[t] # "held"
    /\ "failed" \in told[t] => holds[t] # "held"

(* An agent whose listen loop runs is the one the hub delivers to: no end  *)
(* of an earlier connection has taken its name out of the registry.        *)
RegisteredIsReachable ==
  \A a \in Agents : live[a] # None => agents[a] = live[a]

(* "Un sequestre par tache : cree a la soumission, resolu a l'issue de la  *)
(* tache": once nobody has anything left to do about a task that ended,    *)
(* its hold is resolved.                                                   *)
HoldResolvedAtTheEnd ==
  \A t \in Tasks :
    status[t] \in Terminal /\ AutoRelease[t] ~> holds[t] # "held"

(* A task that waits for its agent is taken up, by the delivery or by the  *)
(* resumption that follows a reconnection.                                 *)
PendingIsTakenUp ==
  \A t \in Tasks : status[t] = "pending" ~> status[t] # "pending"

(* "Une tache running est reassignee a son executant des qu'il se          *)
(* reconnecte": a running task that no execution carries any more does not *)
(* stay running.                                                           *)
Orphan(t) ==
  /\ status[t] = "running" /\ assigned[t] = 0 /\ working[t] = 0
  /\ \A s \in Sockets : \A i \in DOMAIN toHub[s] : toHub[s][i].type # "update"

OrphanIsResumed == \A t \in Tasks : Orphan(t) ~> ~Orphan(t)
=============================================================================
