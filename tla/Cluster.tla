------------------------------ MODULE Cluster ------------------------------
(***************************************************************************)
(* A cluster of hubs of one organisation (hub.py, store.py): they share a  *)
(* database, where each writes which agents it holds, and forward to one   *)
(* another what is meant for an agent they do not hold.  Agents (agent.py) *)
(* move to a sibling when their hub dies.  The exchanges of one hub with   *)
(* its agents are those of module Hub, taken here in one step each.        *)
(***************************************************************************)
EXTENDS Naturals, FiniteSets

CONSTANTS
  Hubs,          \* HUB_IDs, each with its CLUSTER_URL
  NoHub,
  Agents, Tasks,
  Owner,         \* [Tasks -> Agents], the orchestrator
  Assignee,      \* [Tasks -> Agents]
  Configured,    \* [Agents -> Hubs], the address given to the agent
  FirstHubs,     \* the hubs that run before any agent connects
  LateRegister,  \* whether a connection may drop before its REGISTER is read
  MaxDrops,      \* bound: connections lost while the hub lives
  MaxCrashes     \* bound: hubs killed

ASSUME ClusterAssumption ==
  /\ NoHub \notin Hubs /\ FirstHubs \subseteq Hubs
  /\ Owner \in [Tasks -> Agents] /\ Assignee \in [Tasks -> Agents]
  /\ Configured \in [Agents -> Hubs]
  /\ LateRegister \in BOOLEAN
  /\ {MaxDrops, MaxCrashes} \subseteq Nat

VARIABLES
  up,        \* hubs that run
  hubs,      \* table hubs: the rows younger than PRESENCE_TTL
  presence,  \* table presence, by agent
  tasks,     \* table tasks: the status of each
  registry,  \* task_registry of each hub
  conn,      \* the connection of each agent with each hub
  links,     \* CLUSTER_LINKS of each hub
  wire,      \* CLUSTER_RELAYs sent and not read
  home,      \* the hub of the agent's own socket
  known,     \* _hub_candidates
  inbox,     \* sent to the agent on its socket and not read
  work,      \* tasks an agent executes
  outcome,   \* the owner's future for each task
  drops, crashes  \* counters of the bounds

tables == <<hubs, presence, tasks>>
agentVars == <<home, known, inbox, work, outcome>>
counters == <<drops, crashes>>
vars == <<up, tables, registry, conn, links, wire, agentVars, counters>>

Absent    == [hub |-> NoHub, fresh |-> FALSE]
At(h)     == [hub |-> h, fresh |-> TRUE]
Statuses  == {"none", "pending", "running", "completed", "failed"}
Terminal  == {"completed", "failed"}
ASSIGN(t)    == [type |-> "assign", task |-> t, to |-> Assignee[t], status |-> "pending"]
UPDATE(t, s) == [type |-> "update", task |-> t, to |-> Owner[t], status |-> s]
Messages == {ASSIGN(t) : t \in Tasks} \cup {UPDATE(t, s) : t \in Tasks, s \in Terminal \cup {"running"}}

(* dialled: REGISTER sent; open: registered; cut: registered, and the      *)
(* agent is gone; late: REGISTER sent, and the agent is gone.              *)
Phases == {"none", "dialled", "open", "cut", "late"}

Init ==
  /\ up = FirstHubs /\ hubs = FirstHubs
  /\ presence = [a \in Agents |-> Absent]
  /\ tasks = [t \in Tasks |-> "none"]
  /\ registry = [h \in Hubs |-> tasks]
  /\ conn = [h \in Hubs |-> [a \in Agents |-> "none"]]
  /\ links = [h \in Hubs |-> [g \in Hubs |-> "none"]]
  /\ wire = {}
  /\ home = [a \in Agents |-> NoHub]
  /\ known = [a \in Agents |-> {Configured[a]}]
  /\ inbox = [a \in Agents |-> {}]
  /\ work = [a \in Agents |-> {}]
  /\ outcome = [t \in Tasks |-> "none"]
  /\ drops = 0 /\ crashes = 0

(***************************************************************************)
(* deliver_or_relay                                                        *)
(***************************************************************************)
Holds(h, a) == conn[h][a] \in {"open", "cut"}

(* agents[local].send: what is sent to an agent that is gone is lost.      *)
Sent(h, m, box) ==
  IF conn[h][m.to] = "open" THEN [box EXCEPT ![m.to] = @ \cup {m}] ELSE box

(* find_presence with max_age, for a hub that is not this one.             *)
Sibling(h, a) == {g \in Hubs \ {h} : presence[a] = At(g)}

(* _cluster_link and _forward_to_sibling.  A link whose other end has died *)
(* fails at its next use and is forgotten, or swallows what is sent until  *)
(* its end is noticed.                                                     *)
Forward(h, g, m) ==
  \/ /\ links[h][g] = "open" \/ (links[h][g] = "none" /\ g \in up)
     /\ links' = [links EXCEPT ![h][g] = "open"]
     /\ wire' = wire \cup {[at |-> g, msg |-> m]}
  \/ /\ links[h][g] = "none" /\ g \notin up
     /\ UNCHANGED <<links, wire>>
  \/ /\ links[h][g] = "broken"
     /\ links' \in {links, [links EXCEPT ![h][g] = "none"]}
     /\ UNCHANGED wire

(* box: the agents' unread messages, but for the one being answered.       *)
DeliverOrRelay(h, m, box) ==
  \/ /\ Holds(h, m.to)
     /\ inbox' = Sent(h, m, box)
     /\ UNCHANGED <<links, wire>>
  \/ /\ ~Holds(h, m.to)
     /\ inbox' = box
     /\ \/ \E g \in Sibling(h, m.to) : Forward(h, g, m)
        \/ Sibling(h, m.to) = {} /\ UNCHANGED <<links, wire>>

(* CLUSTER_RELAY: delivered here or nowhere.                               *)
Relayed(g, m) ==
  /\ [at |-> g, msg |-> m] \in wire
  /\ wire' = wire \ {[at |-> g, msg |-> m]}
  /\ inbox' = Sent(g, m, inbox)
  /\ UNCHANGED <<up, tables, registry, conn, links, home, known, work, outcome, counters>>

(***************************************************************************)
(* Connections                                                             *)
(***************************************************************************)
DialConfigured(a, h) ==
  /\ home[a] = NoHub
  /\ h = Configured[a] /\ h \in up
  /\ conn[h][a] = "none"
  /\ conn' = [conn EXCEPT ![h][a] = "dialled"]
  /\ home' = [home EXCEPT ![a] = h]
  /\ UNCHANGED <<up, tables, registry, links, wire, known, inbox, work, outcome, counters>>

Dial(a, h) ==
  /\ home[a] = NoHub
  /\ h \in known[a] \cap up
  /\ conn[h][a] = "none"
  /\ conn' = [conn EXCEPT ![h][a] = "dialled"]
  /\ home' = [home EXCEPT ![a] = h]
  /\ UNCHANGED <<up, tables, registry, links, wire, known, inbox, work, outcome, counters>>

(* The row of an agent is written by the hub it registers on, which also   *)
(* sends it the tasks of its own registry that wait for it, and the        *)
(* addresses of its siblings.                                              *)
ToResume(h, a) == {t \in Tasks : Assignee[t] = a /\ registry[h][t] = "pending"}

Register(h, a) ==
  /\ conn[h][a] \in {"dialled", "late"}
  /\ presence' = [presence EXCEPT ![a] = At(h)]
  /\ conn' = [conn EXCEPT ![h][a] = IF @ = "dialled" THEN "open" ELSE "cut"]
  /\ IF conn[h][a] = "dialled"
       THEN /\ known' = [known EXCEPT ![a] = @ \cup (hubs \ {h})]
            /\ inbox' = [inbox EXCEPT ![a] = @ \cup {ASSIGN(t) : t \in ToResume(h, a)}]
       ELSE UNCHANGED <<known, inbox>>
  /\ UNCHANGED <<up, hubs, tasks, registry, links, wire, home, work, outcome, counters>>

(* _fail_pending and the end of the agent's socket.                        *)
Orphaned(A) ==
  /\ home' = [a \in Agents |-> IF a \in A THEN NoHub ELSE home[a]]
  /\ inbox' = [a \in Agents |-> IF a \in A THEN {} ELSE inbox[a]]
  /\ outcome' = [t \in Tasks |-> IF Owner[t] \in A /\ outcome[t] = "waiting"
                                   THEN "lost" ELSE outcome[t]]

Drop(a) ==
  /\ drops < MaxDrops
  /\ home[a] # NoHub
  /\ conn[home[a]][a] = "open" \/ LateRegister
  /\ drops' = drops + 1
  /\ conn' = [conn EXCEPT ![home[a]][a] = IF @ = "open" THEN "cut" ELSE "late"]
  /\ Orphaned({a})
  /\ UNCHANGED <<up, tables, registry, links, wire, known, work, crashes>>

FinallyClearsAny(h, a) ==
  /\ conn[h][a] = "cut"
  /\ conn' = [conn EXCEPT ![h][a] = "none"]
  /\ presence' = [presence EXCEPT ![a] = Absent]
  /\ UNCHANGED <<up, hubs, tasks, registry, links, wire, agentVars, counters>>

(* The finally of handle_agent; clear_presence spares another hub's row.   *)
Finally(h, a) ==
  /\ conn[h][a] = "cut"
  /\ conn' = [conn EXCEPT ![h][a] = "none"]
  /\ presence' = IF presence[a].hub = h THEN [presence EXCEPT ![a] = Absent]
                                        ELSE presence
  /\ UNCHANGED <<up, hubs, tasks, registry, links, wire, agentVars, counters>>

(***************************************************************************)
(* Tasks                                                                   *)
(***************************************************************************)
Connected(a) == home[a] # NoHub /\ conn[home[a]][a] = "open"

Remember(h, t, s) ==
  /\ registry' = [registry EXCEPT ![h][t] = s]
  /\ tasks' = [tasks EXCEPT ![t] = s]

Submit(t) ==
  /\ outcome[t] = "none" /\ Connected(Owner[t])
  /\ outcome' = [outcome EXCEPT ![t] = "waiting"]
  /\ Remember(home[Owner[t]], t, "pending")
  /\ DeliverOrRelay(home[Owner[t]], ASSIGN(t), inbox)
  /\ UNCHANGED <<up, hubs, presence, conn, home, known, work, counters>>

UnknownIgnored(h, t, s, box) ==
  IF registry[h][t] # "none"
    THEN Remember(h, t, s) /\ DeliverOrRelay(h, UPDATE(t, s), box)
    ELSE inbox' = box /\ UNCHANGED <<registry, tasks, links, wire>>

(* TASK_UPDATE: a hub that does not know the task only passes it on.       *)
HandleUpdate(h, t, s, box) ==
  /\ IF registry[h][t] # "none" THEN Remember(h, t, s)
                                ELSE UNCHANGED <<registry, tasks>>
  /\ DeliverOrRelay(h, UPDATE(t, s), box)

(* _execute_assigned_task, to its first update.                            *)
Begin(a, t) ==
  /\ ASSIGN(t) \in inbox[a]
  /\ work' = [work EXCEPT ![a] = @ \cup {t}]
  /\ HandleUpdate(home[a], t, "running", [inbox EXCEPT ![a] = @ \ {ASSIGN(t)}])
  /\ UNCHANGED <<up, hubs, presence, conn, home, known, outcome, counters>>

Finish(a, t) ==
  /\ t \in work[a] /\ Connected(a)
  /\ work' = [work EXCEPT ![a] = @ \ {t}]
  /\ \E s \in Terminal : HandleUpdate(home[a], t, s, inbox)
  /\ UNCHANGED <<up, hubs, presence, conn, home, known, outcome, counters>>

(* The result is sent on a socket that is closed: nobody will have it.     *)
LoseResult(a, t) ==
  /\ t \in work[a] /\ ~Connected(a)
  /\ work' = [work EXCEPT ![a] = @ \ {t}]
  /\ UNCHANGED <<up, tables, registry, conn, links, wire, home, known, inbox,
                 outcome, counters>>

ReadAnyUpdate(a, m) ==
  /\ m \in inbox[a] /\ m.type = "update"
  /\ inbox' = [inbox EXCEPT ![a] = @ \ {m}]
  /\ outcome' = IF outcome[m.task] = "waiting"
                  THEN [outcome EXCEPT ![m.task] = m.status] ELSE outcome
  /\ UNCHANGED <<up, tables, registry, conn, links, wire, home, known, work, counters>>

ReadUpdate(a, m) ==
  /\ m \in inbox[a] /\ m.type = "update"
  /\ inbox' = [inbox EXCEPT ![a] = @ \ {m}]
  /\ outcome' = IF m.status \in Terminal /\ outcome[m.task] = "waiting"
                  THEN [outcome EXCEPT ![m.task] = m.status] ELSE outcome
  /\ UNCHANGED <<up, tables, registry, conn, links, wire, home, known, work, counters>>

(***************************************************************************)
(* Hubs                                                                    *)
(***************************************************************************)
Crash(h) ==
  /\ crashes < MaxCrashes
  /\ h \in up
  /\ crashes' = crashes + 1
  /\ up' = up \ {h}
  /\ conn' = [conn EXCEPT ![h] = [a \in Agents |-> "none"]]
  /\ links' = [g \in Hubs |-> [k \in Hubs |->
                 CASE g = h -> "none"
                   [] g # h /\ k = h /\ links[g][k] = "open" -> "broken"
                   [] OTHER -> links[g][k]]]
  /\ registry' = [registry EXCEPT ![h] = [t \in Tasks |-> "none"]]
  /\ wire' = {r \in wire : r.at # h}
  /\ Orphaned({a \in Agents : home[a] = h})
  /\ UNCHANGED <<tables, known, work, drops>>

(* main: a hub loads every task of the database, and declares itself.      *)
Start(h) ==
  /\ h \notin up
  /\ up' = up \cup {h}
  /\ hubs' = hubs \cup {h}
  /\ registry' = [registry EXCEPT ![h] = tasks]
  /\ UNCHANGED <<presence, tasks, conn, links, wire, agentVars, counters>>

Refreshed(h, fresh) ==
  presence' = [a \in Agents |-> IF presence[a].hub = h
                                  THEN [hub |-> h, fresh |-> fresh] ELSE presence[a]]

(* _presence_heartbeat: every row that names this hub, whoever wrote it.   *)
Heartbeat(h) ==
  /\ h \in up
  /\ Refreshed(h, TRUE)
  /\ hubs' = hubs \cup {h}
  /\ UNCHANGED <<up, tasks, registry, conn, links, wire, agentVars, counters>>

(* PRESENCE_TTL has passed since the last heartbeat.                       *)
Expire(h) ==
  /\ h \notin up
  /\ Refreshed(h, FALSE)
  /\ hubs' = hubs \ {h}
  /\ UNCHANGED <<up, tasks, registry, conn, links, wire, agentVars, counters>>

Next ==
  \/ \E h \in Hubs : \/ Crash(h) \/ Start(h) \/ Heartbeat(h) \/ Expire(h)
                     \/ \E a \in Agents : Dial(a, h) \/ Register(h, a) \/ Finally(h, a)
                     \/ \E m \in Messages : Relayed(h, m)
  \/ \E t \in Tasks : Submit(t)
  \/ \E a \in Agents : \/ Drop(a)
                       \/ \E t \in Tasks : Begin(a, t) \/ Finish(a, t) \/ LoseResult(a, t)
                       \/ \E m \in Messages : ReadUpdate(a, m)

Spec == Init /\ [][Next]_vars

(* Event loops run, and an agent's reconnection loop never stops trying.   *)
FairSpec ==
  /\ Spec
  /\ \A a \in Agents :
       /\ WF_vars(\E h \in Hubs : Dial(a, h))
       /\ \A t \in Tasks : /\ WF_vars(Begin(a, t))
                           /\ WF_vars(Finish(a, t) \/ LoseResult(a, t))
       /\ \A m \in Messages : WF_vars(ReadUpdate(a, m))
       /\ \A h \in Hubs : WF_vars(Register(h, a)) /\ WF_vars(Finally(h, a))
  /\ \A h \in Hubs : \A m \in Messages : WF_vars(Relayed(h, m))

(***************************************************************************)
(* Properties                                                              *)
(***************************************************************************)
TypeOK ==
  /\ up \subseteq Hubs /\ hubs \subseteq Hubs
  /\ presence \in [Agents -> [hub : Hubs \cup {NoHub}, fresh : BOOLEAN]]
  /\ tasks \in [Tasks -> Statuses] /\ registry \in [Hubs -> [Tasks -> Statuses]]
  /\ conn \in [Hubs -> [Agents -> Phases]]
  /\ links \in [Hubs -> [Hubs -> {"none", "open", "broken"}]]
  /\ wire \subseteq [at : Hubs, msg : Messages]
  /\ home \in [Agents -> Hubs \cup {NoHub}] /\ known \in [Agents -> SUBSET Hubs]
  /\ inbox \in [Agents -> SUBSET Messages] /\ work \in [Agents -> SUBSET Tasks]
  /\ outcome \in [Tasks -> {"none", "waiting", "lost"} \cup Terminal]

(* A connected agent can be reached from every hub: "rattache ne suffit    *)
(* pas, il doit etre joignable" (test_orphan_failover.py:187), although    *)
(* the hub it left may end its old connection after it has moved.          *)
ConnectedIsFound ==
  \A a \in Agents, h \in Hubs : conn[h][a] = "open" => presence[a] = At(h)

(* An agent whose hub dies attaches to a sibling that runs: the addresses  *)
(* it learned when it registered are enough.                               *)
OrphanReattaches ==
  \A a \in Agents :
    [](Connected(a) /\ up = Hubs
         => []((home[a] = NoHub) => <>(home[a] # NoHub \/ up = {})))

(* An assignment on its way to a connected agent ends with the owner told, *)
(* whichever hubs the two are on, unless a connection or a hub fails: the  *)
(* answer finds its own way back.                                          *)
OnItsWay(t) == \/ ASSIGN(t) \in inbox[Assignee[t]]
               \/ \E h \in Hubs : [at |-> h, msg |-> ASSIGN(t)] \in wire
AssignedIsAnswered ==
  \A t \in Tasks :
    (outcome[t] = "waiting" /\ OnItsWay(t)) ~> (outcome[t] # "waiting" \/ drops + crashes > 0)

(* What the owner was told is what the hubs have on record.                *)
ResultIsRecorded ==
  \A t \in Tasks : outcome[t] \in Terminal =>
    /\ tasks[t] \in Terminal
    /\ \A h \in up : registry[h][t] \in Terminal \cup {"none"}
=============================================================================
