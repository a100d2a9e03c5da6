--------------------------- MODULE ClusterProofs ---------------------------
(***************************************************************************)
(* Theorems about a cluster and its presence table, for any hubs, agents,  *)
(* tasks, losses of connections and deaths of hubs.                        *)
(***************************************************************************)
EXTENDS Cluster, TLAPS

PresenceType ==
  /\ conn \in [Hubs -> [Agents -> Phases]]
  /\ home \in [Agents -> Hubs \cup {NoHub}]
  /\ presence \in [Agents -> [hub : Hubs \cup {NoHub}, fresh : BOOLEAN]]

(* An agent is at one hub at a time, which runs; and a connection drops    *)
(* before its REGISTER is read only where LateRegister says it may.        *)
OneHome ==
  \A h \in Hubs, a \in Agents :
    /\ conn[h][a] \in {"dialled", "open"} => home[a] = h /\ h \in up
    /\ conn[h][a] # "late"

PresenceInv == PresenceType /\ OneHome /\ ConnectedIsFound

LEMMA PresenceInit == Init => PresenceInv
BY DEF Init, PresenceInv, PresenceType, OneHome, ConnectedIsFound, Absent, Phases

LEMMA PhasesKnown == {"none", "dialled", "open", "cut"} \subseteq Phases
BY DEF Phases

(* The agent's connection with one hub changes: the others stay.           *)
LEMMA OneConnection ==
  ASSUME PresenceType, NEW h \in Hubs, NEW a \in Agents, NEW p \in Phases,
         conn' = [conn EXCEPT ![h][a] = p]
  PROVE  /\ conn' \in [Hubs -> [Agents -> Phases]]
         /\ \A g \in Hubs, b \in Agents :
              conn'[g][b] = IF g = h /\ b = a THEN p ELSE conn[g][b]
BY DEF PresenceType

LEMMA DialKeeps ==
  ASSUME PresenceInv, NEW h \in Hubs, NEW a \in Agents, Dial(a, h)
  PROVE  PresenceInv'
<1>1. /\ home[a] = NoHub /\ h \in up
      /\ conn' = [conn EXCEPT ![h][a] = "dialled"]
      /\ home' = [home EXCEPT ![a] = h]
      /\ UNCHANGED <<up, presence>>
  BY DEF Dial, tables
<1>2. /\ conn' \in [Hubs -> [Agents -> Phases]]
      /\ \A g \in Hubs, b \in Agents :
           conn'[g][b] = IF g = h /\ b = a THEN "dialled" ELSE conn[g][b]
  BY <1>1, OneConnection, PhasesKnown DEF PresenceInv
<1>3. \A g \in Hubs : conn[g][a] \notin {"dialled", "open"}
  BY <1>1, ClusterAssumption DEF PresenceInv, OneHome
<1>4. PresenceType' BY <1>1, <1>2 DEF PresenceInv, PresenceType
<1>5. OneHome' BY <1>1, <1>2, <1>3 DEF PresenceInv, PresenceType, OneHome
<1>6. ConnectedIsFound' BY <1>1, <1>2 DEF PresenceInv, ConnectedIsFound
<1> QED BY <1>4, <1>5, <1>6 DEF PresenceInv

LEMMA RegisterKeeps ==
  ASSUME PresenceInv, NEW h \in Hubs, NEW a \in Agents, Register(h, a)
  PROVE  PresenceInv'
<1>1. /\ conn[h][a] = "dialled"
      /\ presence' = [presence EXCEPT ![a] = At(h)]
      /\ UNCHANGED <<up, home>>
  BY DEF Register, PresenceInv, OneHome
<1>2. conn' = [conn EXCEPT ![h][a] = "open"]
  BY <1>1 DEF Register, PresenceInv, PresenceType
<1>3. /\ conn' \in [Hubs -> [Agents -> Phases]]
      /\ \A g \in Hubs, b \in Agents :
           conn'[g][b] = IF g = h /\ b = a THEN "open" ELSE conn[g][b]
  BY <1>2, OneConnection, PhasesKnown DEF PresenceInv
<1>4. home[a] = h /\ h \in up BY <1>1 DEF PresenceInv, OneHome
<1>5. PresenceType' BY <1>1, <1>3 DEF PresenceInv, PresenceType, At
<1>6. OneHome' BY <1>1, <1>3, <1>4 DEF PresenceInv, OneHome
<1>7. \A g \in Hubs : g # h => conn[g][a] # "open"
  BY <1>4 DEF PresenceInv, OneHome
<1>8. ConnectedIsFound'
  BY <1>1, <1>3, <1>7 DEF PresenceInv, PresenceType, ConnectedIsFound
<1> QED BY <1>5, <1>6, <1>8 DEF PresenceInv

LEMMA FinallyKeeps ==
  ASSUME PresenceInv, NEW h \in Hubs, NEW a \in Agents, Finally(h, a)
  PROVE  PresenceInv'
<1>1. /\ conn[h][a] = "cut"
      /\ conn' = [conn EXCEPT ![h][a] = "none"]
      /\ presence' = IF presence[a].hub = h THEN [presence EXCEPT ![a] = Absent]
                                            ELSE presence
      /\ UNCHANGED <<up, home>>
  BY DEF Finally, agentVars
<1>2. /\ conn' \in [Hubs -> [Agents -> Phases]]
      /\ \A g \in Hubs, b \in Agents :
           conn'[g][b] = IF g = h /\ b = a THEN "none" ELSE conn[g][b]
  BY <1>1, OneConnection, PhasesKnown DEF PresenceInv
<1>3. PresenceType' BY <1>1, <1>2 DEF PresenceInv, PresenceType, Absent
<1>4. OneHome' BY <1>1, <1>2 DEF PresenceInv, OneHome
<1>5. ASSUME NEW b \in Agents, NEW g \in Hubs, conn'[g][b] = "open"
      PROVE  presence'[b] = At(g)
  <2>1. conn[g][b] = "open" /\ ~(g = h /\ b = a) BY <1>2, <1>5
  <2>2. presence[b] = At(g) BY <2>1 DEF PresenceInv, ConnectedIsFound
  <2>3. b = a => presence[a].hub # h BY <2>1, <2>2 DEF At
  <2> QED BY <1>1, <2>2, <2>3 DEF PresenceInv, PresenceType
<1> QED BY <1>3, <1>4, <1>5 DEF PresenceInv, ConnectedIsFound

LEMMA DropKeeps ==
  ASSUME ~LateRegister, PresenceInv, NEW a \in Agents, Drop(a)
  PROVE  PresenceInv'
<1> DEFINE h == home[a]
<1>1. h \in Hubs BY DEF Drop, PresenceInv, PresenceType
<1>2. conn[h][a] = "open" BY DEF Drop
<1>3. conn' = [conn EXCEPT ![h][a] = "cut"]
  BY <1>1, <1>2 DEF Drop, PresenceInv, PresenceType
<1>4. /\ home' = [b \in Agents |-> IF b \in {a} THEN NoHub ELSE home[b]]
      /\ UNCHANGED <<up, presence>>
  BY DEF Drop, Orphaned, tables
<1>5. /\ conn' \in [Hubs -> [Agents -> Phases]]
      /\ \A g \in Hubs, b \in Agents :
           conn'[g][b] = IF g = h /\ b = a THEN "cut" ELSE conn[g][b]
  BY <1>1, <1>3, OneConnection, PhasesKnown DEF PresenceInv
<1>6. \A g \in Hubs : g # h => conn[g][a] \notin {"dialled", "open"}
  BY DEF PresenceInv, OneHome
<1> HIDE DEF h
<1>7. PresenceType' BY <1>4, <1>5 DEF PresenceInv, PresenceType
<1>8. OneHome' BY <1>4, <1>5, <1>6 DEF PresenceInv, OneHome
<1>9. ConnectedIsFound' BY <1>4, <1>5 DEF PresenceInv, ConnectedIsFound
<1> QED BY <1>7, <1>8, <1>9 DEF PresenceInv

LEMMA CrashKeeps ==
  ASSUME PresenceInv, NEW h \in Hubs, Crash(h)
  PROVE  PresenceInv'
<1>1. /\ up' = up \ {h} /\ presence' = presence
      /\ conn' = [conn EXCEPT ![h] = [a \in Agents |-> "none"]]
      /\ home' = [a \in Agents |-> IF home[a] = h THEN NoHub ELSE home[a]]
  BY DEF Crash, Orphaned, tables, PresenceInv, PresenceType
<1>2. /\ conn' \in [Hubs -> [Agents -> Phases]]
      /\ \A g \in Hubs, a \in Agents :
           conn'[g][a] = IF g = h THEN "none" ELSE conn[g][a]
  BY <1>1 DEF PresenceInv, PresenceType, Phases
<1>3. PresenceType' BY <1>1, <1>2 DEF PresenceInv, PresenceType
<1>4. OneHome' BY <1>1, <1>2 DEF PresenceInv, OneHome
<1>5. ConnectedIsFound' BY <1>1, <1>2 DEF PresenceInv, ConnectedIsFound
<1> QED BY <1>3, <1>4, <1>5 DEF PresenceInv

(* The rows of a hub are refreshed, or go stale once it is dead.           *)
LEMMA RefreshKeeps ==
  ASSUME PresenceInv, NEW h \in Hubs, Heartbeat(h) \/ Expire(h)
  PROVE  PresenceInv'
<1>1. Refreshed(h, TRUE) \/ (Refreshed(h, FALSE) /\ h \notin up)
  BY DEF Heartbeat, Expire
<1>2. UNCHANGED <<up, conn, home>> BY DEF Heartbeat, Expire, agentVars
<1>3. presence' \in [Agents -> [hub : Hubs \cup {NoHub}, fresh : BOOLEAN]]
  <2> DEFINE Rows == [hub : Hubs \cup {NoHub}, fresh : BOOLEAN]
  <2>1. [hub |-> h, fresh |-> TRUE] \in Rows /\ [hub |-> h, fresh |-> FALSE] \in Rows
    OBVIOUS
  <2>2. presence \in [Agents -> Rows] BY DEF PresenceInv, PresenceType
  <2> HIDE DEF Rows
  <2>3. presence' \in [Agents -> Rows] BY <1>1, <2>1, <2>2 DEF Refreshed
  <2> QED BY <2>3 DEF Rows
<1>4. PresenceType' BY <1>2, <1>3 DEF PresenceInv, PresenceType
<1>5. OneHome' BY <1>2 DEF PresenceInv, OneHome
<1>6. ASSUME NEW a \in Agents, NEW g \in Hubs, conn'[g][a] = "open"
      PROVE  presence'[a] = At(g)
  <2>1. presence[a] = At(g) /\ g \in up
    BY <1>2, <1>6 DEF PresenceInv, OneHome, ConnectedIsFound
  <2>2. presence[a].hub = g BY <2>1 DEF At
  <2>3. CASE g = h
    <3>1. Refreshed(h, TRUE) BY <1>1, <2>1, <2>3
    <3> QED BY <2>2, <2>3, <3>1 DEF Refreshed, At
  <2>4. CASE g # h
    BY <1>1, <2>1, <2>2, <2>4 DEF Refreshed
  <2> QED BY <2>3, <2>4
<1> QED BY <1>4, <1>5, <1>6 DEF PresenceInv, ConnectedIsFound

LEMMA PresenceNext ==
  ASSUME ~LateRegister
  PROVE  PresenceInv /\ [Next]_vars => PresenceInv'
<1> SUFFICES ASSUME PresenceInv, [Next]_vars
             PROVE  PresenceInv'
  OBVIOUS
<1>a. ASSUME UNCHANGED <<up, presence, conn, home>>
      PROVE  PresenceInv'
  BY <1>a DEF PresenceInv, PresenceType, OneHome, ConnectedIsFound
<1>1. ASSUME NEW h \in Hubs, Crash(h)
      PROVE  PresenceInv'
  BY <1>1, CrashKeeps
<1>2. ASSUME NEW h \in Hubs, Start(h)
      PROVE  PresenceInv'
  BY <1>2 DEF Start, agentVars, PresenceInv, PresenceType, OneHome, ConnectedIsFound
<1>3. ASSUME NEW h \in Hubs, Heartbeat(h) \/ Expire(h)
      PROVE  PresenceInv'
  BY <1>3, RefreshKeeps
<1>4. ASSUME NEW h \in Hubs, NEW a \in Agents, Dial(a, h)
      PROVE  PresenceInv'
  BY <1>4, DialKeeps
<1>5. ASSUME NEW h \in Hubs, NEW a \in Agents, Register(h, a)
      PROVE  PresenceInv'
  BY <1>5, RegisterKeeps
<1>6. ASSUME NEW h \in Hubs, NEW a \in Agents, Finally(h, a)
      PROVE  PresenceInv'
  BY <1>6, FinallyKeeps
<1>7. ASSUME NEW h \in Hubs, NEW m \in Messages, Relayed(h, m)
      PROVE  PresenceInv'
  BY <1>7, <1>a DEF Relayed, tables
<1>8. ASSUME NEW t \in Tasks, Submit(t)
      PROVE  PresenceInv'
  BY <1>8, <1>a DEF Submit
<1>9. ASSUME NEW a \in Agents, Drop(a)
      PROVE  PresenceInv'
  BY <1>9, DropKeeps
<1>10. ASSUME NEW a \in Agents, NEW t \in Tasks,
              Begin(a, t) \/ Finish(a, t) \/ LoseResult(a, t)
       PROVE  PresenceInv'
  BY <1>10, <1>a DEF Begin, Finish, LoseResult, tables
<1>11. ASSUME NEW a \in Agents, NEW m \in Messages, ReadUpdate(a, m)
       PROVE  PresenceInv'
  BY <1>11, <1>a DEF ReadUpdate, tables
<1>12. CASE UNCHANGED vars
  BY <1>12, <1>a DEF vars, tables, agentVars
<1> QED
  BY <1>1, <1>2, <1>3, <1>4, <1>5, <1>6, <1>7, <1>8, <1>9, <1>10, <1>11, <1>12
  DEF Next

(* A connected agent is found from every hub, however its registrations,   *)
(* the ends of its old connections, heartbeats and deaths of hubs follow   *)
(* one another (record_presence, clear_presence: store.py:363, 373), if    *)
(* a hub reads each REGISTER before the connection that carried it drops.  *)
THEOREM ConnectedIsAlwaysFound ==
  ASSUME ~LateRegister
  PROVE  Spec => []ConnectedIsFound
<1>1. PresenceInv => ConnectedIsFound BY DEF PresenceInv
<1> QED BY <1>1, PresenceInit, PresenceNext, PTL DEF Spec

-----------------------------------------------------------------------------
(***************************************************************************)
(* Types.  An agent that reads a message is at a hub, because what is on   *)
(* its socket goes with the socket: its answers have a hub to go to.       *)
(***************************************************************************)
InHand(box) == \A a \in Agents : home[a] = NoHub => box[a] = {}

Settled ==
  /\ \A h \in Hubs, a \in Agents : conn[h][a] \in {"dialled", "open"} => home[a] = h
  /\ InHand(inbox)

ClusterInv == TypeOK /\ Settled

LEMMA MessageFacts ==
  /\ \A t \in Tasks : /\ ASSIGN(t) \in Messages
                     /\ \A s \in Terminal \cup {"running"} : UPDATE(t, s) \in Messages
  /\ \A m \in Messages : /\ m.to \in Agents /\ m.task \in Tasks
                        /\ m.status \in {"pending", "running"} \cup Terminal
<1>1. \A t \in Tasks : /\ ASSIGN(t) \in Messages
                      /\ \A s \in Terminal \cup {"running"} : UPDATE(t, s) \in Messages
  BY DEF Messages
<1>2. ASSUME NEW m \in Messages
      PROVE  /\ m.to \in Agents /\ m.task \in Tasks
             /\ m.status \in {"pending", "running"} \cup Terminal
  <2>1. CASE \E t \in Tasks : m = ASSIGN(t)
    <3>1. PICK t \in Tasks : m = ASSIGN(t) BY <2>1
    <3>2. Assignee[t] \in Agents BY ClusterAssumption DEF ClusterAssumption
    <3> QED BY <3>1, <3>2 DEF ASSIGN
  <2>2. CASE \E t \in Tasks, s \in Terminal \cup {"running"} : m = UPDATE(t, s)
    <3>1. PICK t \in Tasks, s \in Terminal \cup {"running"} : m = UPDATE(t, s) BY <2>2
    <3>2. Owner[t] \in Agents BY ClusterAssumption DEF ClusterAssumption
    <3> QED BY <3>1, <3>2 DEF UPDATE
  <2> QED BY <2>1, <2>2 DEF Messages
<1> QED BY <1>1, <1>2

LEMMA ClusterInit == Init => ClusterInv
<1> SUFFICES ASSUME Init PROVE ClusterInv OBVIOUS
<1>1. TypeOK
  BY ClusterAssumption DEF Init, TypeOK, Absent, Statuses, Phases, ClusterAssumption
<1>2. Settled BY DEF Init, Settled, InHand
<1> QED BY <1>1, <1>2 DEF ClusterInv

(* A message is put on the socket of an agent that is at this hub, or on   *)
(* the wire to a sibling.                                                  *)
LEMMA SentTypes ==
  ASSUME ClusterInv, NEW h \in Hubs, NEW m \in Messages,
         NEW box \in [Agents -> SUBSET Messages], InHand(box)
  PROVE  Sent(h, m, box) \in [Agents -> SUBSET Messages] /\ InHand(Sent(h, m, box))
<1>1. m.to \in Agents BY MessageFacts
<1>2. CASE conn[h][m.to] = "open"
  <2>1. home[m.to] = h /\ h # NoHub
    BY <1>1, <1>2, ClusterAssumption DEF ClusterInv, Settled, ClusterAssumption
  <2> QED BY <1>1, <1>2, <2>1 DEF Sent, InHand
<1>3. CASE conn[h][m.to] # "open" BY <1>3 DEF Sent
<1> QED BY <1>2, <1>3

LEMMA DeliverTypes ==
  ASSUME ClusterInv, NEW h \in Hubs, NEW m \in Messages,
         NEW box \in [Agents -> SUBSET Messages], InHand(box),
         DeliverOrRelay(h, m, box)
  PROVE  /\ inbox' \in [Agents -> SUBSET Messages] /\ InHand(inbox')
         /\ links' \in [Hubs -> [Hubs -> {"none", "open", "broken"}]]
         /\ wire' \subseteq [at : Hubs, msg : Messages]
<1>1. inbox' \in {Sent(h, m, box), box} BY DEF DeliverOrRelay
<1>2. /\ links' \in [Hubs -> [Hubs -> {"none", "open", "broken"}]]
      /\ wire' \subseteq [at : Hubs, msg : Messages]
  <2>1. CASE UNCHANGED <<links, wire>> BY <2>1 DEF ClusterInv, TypeOK
  <2>2. ASSUME NEW g \in Hubs, Forward(h, g, m)
        PROVE  /\ links' \in [Hubs -> [Hubs -> {"none", "open", "broken"}]]
               /\ wire' \subseteq [at : Hubs, msg : Messages]
    <3>1. [at |-> g, msg |-> m] \in [at : Hubs, msg : Messages] OBVIOUS
    <3>2. links' \in {links, [links EXCEPT ![h][g] = "open"], [links EXCEPT ![h][g] = "none"]}
      BY <2>2 DEF Forward
    <3>3. wire' \in {wire, wire \cup {[at |-> g, msg |-> m]}} BY <2>2 DEF Forward
    <3>4. links' \in [Hubs -> [Hubs -> {"none", "open", "broken"}]]
      <4>1. links \in [Hubs -> [Hubs -> {"none", "open", "broken"}]] BY DEF ClusterInv, TypeOK
      <4>2. ASSUME NEW p \in {"none", "open"}, links' = [links EXCEPT ![h][g] = p]
            PROVE  links' \in [Hubs -> [Hubs -> {"none", "open", "broken"}]]
        BY <4>1, <4>2
      <4> QED BY <3>2, <4>1, <4>2
    <3> QED BY <3>1, <3>3, <3>4 DEF ClusterInv, TypeOK
  <2> QED BY <2>1, <2>2 DEF DeliverOrRelay, Sibling
<1> QED BY <1>1, <1>2, SentTypes

LEMMA TaskTypes ==
  ASSUME ClusterInv, NEW t \in Tasks,
         \/ Submit(t)
         \/ \E a \in Agents : Begin(a, t) \/ Finish(a, t) \/ LoseResult(a, t)
  PROVE  ClusterInv'
<1>0. /\ inbox \in [Agents -> SUBSET Messages] /\ InHand(inbox)
      /\ \A a \in Agents : home[a] \in Hubs \cup {NoHub}
  BY DEF ClusterInv, Settled, TypeOK
<1>1. CASE Submit(t)
  <2> DEFINE h == home[Owner[t]]
  <2>1. h \in Hubs BY <1>0, <1>1, ClusterAssumption DEF Submit, Connected, ClusterAssumption
  <2>2. /\ inbox' \in [Agents -> SUBSET Messages] /\ InHand(inbox')
        /\ links' \in [Hubs -> [Hubs -> {"none", "open", "broken"}]]
        /\ wire' \subseteq [at : Hubs, msg : Messages]
    BY <1>0, <1>1, <2>1, MessageFacts, DeliverTypes DEF Submit
  <2>3. UNCHANGED <<up, hubs, presence, conn, home, known, work>> BY <1>1 DEF Submit
  <2>4. /\ registry' \in [Hubs -> [Tasks -> Statuses]] /\ tasks' \in [Tasks -> Statuses]
        /\ outcome' \in [Tasks -> {"none", "waiting", "lost"} \cup Terminal]
    <3>1. /\ registry' = [registry EXCEPT ![h][t] = "pending"]
          /\ tasks' = [tasks EXCEPT ![t] = "pending"]
          /\ outcome' = [outcome EXCEPT ![t] = "waiting"]
      BY <1>1 DEF Submit, Remember
    <3> HIDE DEF h
    <3> QED BY <2>1, <3>1 DEF ClusterInv, TypeOK, Statuses
  <2> QED BY <2>2, <2>3, <2>4 DEF ClusterInv, TypeOK, Settled, InHand
<1>2. ASSUME NEW a \in Agents, NEW s \in Terminal \cup {"running"}, NEW box,
             box \in [Agents -> SUBSET Messages], InHand(box), home[a] # NoHub,
             HandleUpdate(home[a], t, s, box),
             UNCHANGED <<up, hubs, presence, conn, home, known, outcome>>,
             work' \in [Agents -> SUBSET Tasks]
      PROVE  ClusterInv'
  <2>1. home[a] \in Hubs BY <1>0, <1>2
  <2>2. /\ inbox' \in [Agents -> SUBSET Messages] /\ InHand(inbox')
        /\ links' \in [Hubs -> [Hubs -> {"none", "open", "broken"}]]
        /\ wire' \subseteq [at : Hubs, msg : Messages]
    BY <1>2, <2>1, MessageFacts, DeliverTypes DEF HandleUpdate
  <2>3. registry' \in [Hubs -> [Tasks -> Statuses]] /\ tasks' \in [Tasks -> Statuses]
    <3>1. registry \in [Hubs -> [Tasks -> Statuses]] /\ tasks \in [Tasks -> Statuses]
      BY DEF ClusterInv, TypeOK
    <3>2. s \in Statuses BY DEF Statuses, Terminal
    <3>3. Remember(home[a], t, s) \/ UNCHANGED <<registry, tasks>> BY <1>2 DEF HandleUpdate
    <3> QED BY <2>1, <3>1, <3>2, <3>3 DEF Remember
  <2> QED BY <1>2, <2>2, <2>3 DEF ClusterInv, TypeOK, Settled, InHand
<1>3. ASSUME NEW a \in Agents, Begin(a, t) PROVE ClusterInv'
  <2> DEFINE box == [inbox EXCEPT ![a] = @ \ {ASSIGN(t)}]
  <2>1. box \in [Agents -> SUBSET Messages] /\ InHand(box) BY <1>0 DEF InHand
  <2>2. home[a] # NoHub BY <1>0, <1>3 DEF Begin, InHand
  <2>3. work' \in [Agents -> SUBSET Tasks] BY <1>3 DEF Begin, ClusterInv, TypeOK
  <2> HIDE DEF box
  <2>4. HandleUpdate(home[a], t, "running", box) BY <1>3 DEF Begin, box
  <2>5. UNCHANGED <<up, hubs, presence, conn, home, known, outcome>> BY <1>3 DEF Begin
  <2> QED BY <1>2, <2>1, <2>2, <2>3, <2>4, <2>5
<1>4. ASSUME NEW a \in Agents, Finish(a, t) PROVE ClusterInv'
  <2>1. work' \in [Agents -> SUBSET Tasks] BY <1>4 DEF Finish, ClusterInv, TypeOK
  <2>2. PICK s \in Terminal : HandleUpdate(home[a], t, s, inbox) BY <1>4 DEF Finish
  <2>3. home[a] # NoHub /\ UNCHANGED <<up, hubs, presence, conn, home, known, outcome>>
    BY <1>4 DEF Finish, Connected
  <2> QED BY <1>0, <1>2, <2>1, <2>2, <2>3
<1>5. ASSUME NEW a \in Agents, LoseResult(a, t) PROVE ClusterInv'
  BY <1>5 DEF LoseResult, tables, ClusterInv, TypeOK, Settled, InHand
<1> QED BY <1>1, <1>3, <1>4, <1>5

(* An agent that loses its socket loses what was on it.                    *)
LEMMA OrphanedTypes ==
  ASSUME ClusterInv, NEW A, Orphaned(A)
  PROVE  /\ home' \in [Agents -> Hubs \cup {NoHub}]
         /\ inbox' \in [Agents -> SUBSET Messages]
         /\ outcome' \in [Tasks -> {"none", "waiting", "lost"} \cup Terminal]
         /\ \A a \in Agents : home'[a] = NoHub => inbox'[a] = {}
         /\ \A a \in Agents : a \notin A => home'[a] = home[a]
BY DEF Orphaned, ClusterInv, TypeOK, Settled, InHand

LEMMA ConnectionTypes ==
  ASSUME ClusterInv, NEW a \in Agents, NEW h \in Hubs,
         Dial(a, h) \/ Register(h, a) \/ Finally(h, a) \/ Drop(a)
  PROVE  ClusterInv'
<1>0. PresenceType BY DEF ClusterInv, TypeOK, PresenceType
<1>1. CASE Dial(a, h)
  <2>1. /\ conn' \in [Hubs -> [Agents -> Phases]]
        /\ \A g \in Hubs, b \in Agents :
             conn'[g][b] = IF g = h /\ b = a THEN "dialled" ELSE conn[g][b]
    BY <1>0, <1>1, OneConnection, PhasesKnown DEF Dial
  <2>2. /\ home[a] = NoHub /\ home' = [home EXCEPT ![a] = h] /\ h # NoHub
        /\ UNCHANGED <<up, tables, registry, links, wire, known, inbox, work, outcome>>
    BY <1>1, ClusterAssumption DEF Dial, ClusterAssumption
  <2>3. TypeOK' BY <2>1, <2>2 DEF ClusterInv, TypeOK, tables
  <2>4. Settled'
    <3>1. \A g \in Hubs : conn[g][a] \notin {"dialled", "open"}
      BY <2>2, ClusterAssumption DEF ClusterInv, Settled, ClusterAssumption
    <3> QED BY <2>1, <2>2, <3>1 DEF ClusterInv, TypeOK, Settled, InHand
  <2> QED BY <2>3, <2>4 DEF ClusterInv
<1>2. CASE Register(h, a)
  <2> DEFINE p == IF conn[h][a] = "dialled" THEN "open" ELSE "cut"
  <2>1. conn' = [conn EXCEPT ![h][a] = p] /\ p \in Phases
    BY <1>2 DEF Register, Phases
  <2>2. /\ conn' \in [Hubs -> [Agents -> Phases]]
        /\ \A g \in Hubs, b \in Agents :
             conn'[g][b] = IF g = h /\ b = a THEN p ELSE conn[g][b]
    BY <1>0, <2>1, OneConnection
  <2>3. presence' \in [Agents -> [hub : Hubs \cup {NoHub}, fresh : BOOLEAN]]
    BY <1>2 DEF Register, At, ClusterInv, TypeOK
  <2>4. UNCHANGED <<up, hubs, tasks, registry, links, wire, home, work, outcome>>
    BY <1>2 DEF Register
  <2>5. /\ known' \in [Agents -> SUBSET Hubs] /\ inbox' \in [Agents -> SUBSET Messages]
        /\ \A b \in Agents : inbox'[b] = inbox[b] \/ (b = a /\ conn[h][a] = "dialled")
    <3> DEFINE N == {ASSIGN(t) : t \in ToResume(h, a)}
    <3>1. N \subseteq Messages BY MessageFacts DEF ToResume
    <3>2. hubs \ {h} \subseteq Hubs BY DEF ClusterInv, TypeOK
    <3>3. CASE conn[h][a] = "dialled"
      <4>1. /\ known' = [known EXCEPT ![a] = @ \cup (hubs \ {h})]
            /\ inbox' = [inbox EXCEPT ![a] = @ \cup N]
        BY <1>2, <3>3 DEF Register
      <4> HIDE DEF N
      <4> QED BY <3>1, <3>2, <3>3, <4>1 DEF ClusterInv, TypeOK
    <3>4. CASE conn[h][a] # "dialled"
      BY <1>2, <3>4 DEF Register, ClusterInv, TypeOK
    <3> QED BY <3>3, <3>4
  <2>6. TypeOK' BY <2>2, <2>3, <2>4, <2>5 DEF ClusterInv, TypeOK
  <2>7. Settled'
    <3>1. conn[h][a] = "dialled" => home[a] = h /\ h # NoHub
      BY ClusterAssumption DEF ClusterInv, Settled, ClusterAssumption
    <3> QED BY <2>2, <2>4, <2>5, <3>1 DEF ClusterInv, Settled, InHand
  <2> QED BY <2>6, <2>7 DEF ClusterInv
<1>3. CASE Finally(h, a)
  <2>1. /\ conn' \in [Hubs -> [Agents -> Phases]]
        /\ \A g \in Hubs, b \in Agents :
             conn'[g][b] = IF g = h /\ b = a THEN "none" ELSE conn[g][b]
    BY <1>0, <1>3, OneConnection, PhasesKnown DEF Finally
  <2>2. presence' \in [Agents -> [hub : Hubs \cup {NoHub}, fresh : BOOLEAN]]
    BY <1>3 DEF Finally, Absent, ClusterInv, TypeOK
  <2>3. UNCHANGED <<up, hubs, tasks, registry, links, wire, agentVars>> BY <1>3 DEF Finally
  <2> QED BY <2>1, <2>2, <2>3 DEF agentVars, ClusterInv, TypeOK, Settled, InHand
<1>4. CASE Drop(a)
  <2> DEFINE g == home[a]
             p == IF conn[g][a] = "open" THEN "cut" ELSE "late"
  <2>1. g \in Hubs /\ p \in Phases /\ conn' = [conn EXCEPT ![g][a] = p]
    BY <1>4 DEF Drop, ClusterInv, TypeOK, Phases
  <2>2. /\ conn' \in [Hubs -> [Agents -> Phases]]
        /\ \A k \in Hubs, b \in Agents :
             conn'[k][b] = IF k = g /\ b = a THEN p ELSE conn[k][b]
    BY <1>0, <2>1, OneConnection
  <2>3. Orphaned({a}) /\ UNCHANGED <<up, tables, registry, links, wire, known, work>>
    BY <1>4 DEF Drop
  <2>4. TypeOK' BY <2>2, <2>3, OrphanedTypes DEF tables, ClusterInv, TypeOK
  <2>5. \A k \in Hubs : conn'[k][a] \notin {"dialled", "open"}
    BY <2>2 DEF ClusterInv, Settled
  <2>6. Settled' BY <2>2, <2>3, <2>5, OrphanedTypes DEF ClusterInv, Settled, InHand
  <2> QED BY <2>4, <2>6 DEF ClusterInv
<1> QED BY <1>1, <1>2, <1>3, <1>4

LEMMA CrashTypes ==
  ASSUME ClusterInv, NEW h \in Hubs, Crash(h)
  PROVE  ClusterInv'
<1> DEFINE A == {a \in Agents : home[a] = h}
<1>1. /\ up' = up \ {h} /\ conn' = [conn EXCEPT ![h] = [a \in Agents |-> "none"]]
      /\ registry' = [registry EXCEPT ![h] = [t \in Tasks |-> "none"]]
      /\ wire' \subseteq wire
      /\ Orphaned(A) /\ UNCHANGED <<tables, known, work>>
  BY DEF Crash
<1>2. links' \in [Hubs -> [Hubs -> {"none", "open", "broken"}]]
  <2>1. \A g \in Hubs, k \in Hubs : links[g][k] \in {"none", "open", "broken"}
    BY DEF ClusterInv, TypeOK
  <2> QED BY <2>1 DEF Crash
<1>3. /\ conn' \in [Hubs -> [Agents -> Phases]]
      /\ registry' \in [Hubs -> [Tasks -> Statuses]]
  BY <1>1 DEF ClusterInv, TypeOK, Phases, Statuses
<1>4. TypeOK' BY <1>1, <1>2, <1>3, OrphanedTypes DEF tables, ClusterInv, TypeOK
<1>5. \A g \in Hubs, a \in Agents :
        conn'[g][a] \in {"dialled", "open"} => g # h /\ conn'[g][a] = conn[g][a]
  BY <1>1 DEF ClusterInv, TypeOK
<1>6. Settled' BY <1>1, <1>5, OrphanedTypes DEF ClusterInv, Settled, InHand
<1> QED BY <1>4, <1>6 DEF ClusterInv

LEMMA ClusterNext == ClusterInv /\ [Next]_vars => ClusterInv'
<1> SUFFICES ASSUME ClusterInv, [Next]_vars PROVE ClusterInv' OBVIOUS
<1>1. ASSUME NEW h \in Hubs, Crash(h) PROVE ClusterInv' BY <1>1, CrashTypes
<1>2. ASSUME NEW h \in Hubs, Start(h) \/ Heartbeat(h) \/ Expire(h) PROVE ClusterInv'
  <2>1. CASE Start(h)
    <3>1. registry' \in [Hubs -> [Tasks -> Statuses]] BY <2>1 DEF Start, ClusterInv, TypeOK
    <3> QED BY <2>1, <3>1 DEF Start, agentVars, ClusterInv, TypeOK, Settled, InHand
  <2>2. ASSUME NEW f \in BOOLEAN, Refreshed(h, f)
        PROVE  presence' \in [Agents -> [hub : Hubs \cup {NoHub}, fresh : BOOLEAN]]
    BY <2>2 DEF Refreshed, ClusterInv, TypeOK
  <2>3. CASE Heartbeat(h)
    <3>1. presence' \in [Agents -> [hub : Hubs \cup {NoHub}, fresh : BOOLEAN]]
      BY <2>2, <2>3 DEF Heartbeat
    <3> QED BY <2>3, <3>1 DEF Heartbeat, agentVars, ClusterInv, TypeOK, Settled, InHand
  <2>4. CASE Expire(h)
    <3>1. presence' \in [Agents -> [hub : Hubs \cup {NoHub}, fresh : BOOLEAN]]
      BY <2>2, <2>4 DEF Expire
    <3> QED BY <2>4, <3>1 DEF Expire, agentVars, ClusterInv, TypeOK, Settled, InHand
  <2> QED BY <1>2, <2>1, <2>3, <2>4
<1>3. ASSUME NEW h \in Hubs, NEW a \in Agents, Dial(a, h) \/ Register(h, a) \/ Finally(h, a)
      PROVE  ClusterInv'
  BY <1>3, ConnectionTypes
<1>4. ASSUME NEW h \in Hubs, NEW m \in Messages, Relayed(h, m) PROVE ClusterInv'
  <2>1. /\ inbox' \in [Agents -> SUBSET Messages] /\ InHand(inbox')
    BY <1>4, SentTypes DEF Relayed, ClusterInv, TypeOK, Settled
  <2> QED BY <1>4, <2>1 DEF Relayed, tables, ClusterInv, TypeOK, Settled, InHand
<1>5. ASSUME NEW t \in Tasks, Submit(t) PROVE ClusterInv' BY <1>5, TaskTypes
<1>6. ASSUME NEW a \in Agents, Drop(a) PROVE ClusterInv'
  <2>1. home[a] \in Hubs BY <1>6 DEF Drop, ClusterInv, TypeOK
  <2> QED BY <1>6, <2>1, ConnectionTypes
<1>7. ASSUME NEW a \in Agents, NEW t \in Tasks,
             Begin(a, t) \/ Finish(a, t) \/ LoseResult(a, t)
      PROVE  ClusterInv'
  BY <1>7, TaskTypes
<1>8. ASSUME NEW a \in Agents, NEW m \in Messages, ReadUpdate(a, m) PROVE ClusterInv'
  <2>1. m.task \in Tasks BY MessageFacts
  <2>2. inbox' \in [Agents -> SUBSET Messages] /\ InHand(inbox')
    BY <1>8 DEF ReadUpdate, ClusterInv, TypeOK, Settled, InHand
  <2>3. outcome' \in [Tasks -> {"none", "waiting", "lost"} \cup Terminal]
    BY <1>8, <2>1 DEF ReadUpdate, ClusterInv, TypeOK
  <2> QED BY <1>8, <2>2, <2>3 DEF ReadUpdate, tables, ClusterInv, TypeOK, Settled, InHand
<1>9. CASE UNCHANGED vars
  BY <1>9 DEF vars, tables, agentVars, ClusterInv, TypeOK, Settled, InHand
<1> QED BY <1>1, <1>2, <1>3, <1>4, <1>5, <1>6, <1>7, <1>8, <1>9 DEF Next

(* TypeOK of Cluster: every step of the hubs, the links and the agents     *)
(* leaves tables, registries and queues the code can go on from, with      *)
(* connections that drop before their REGISTER is read too.                *)
THEOREM TypeCorrect == Spec => []TypeOK
<1>1. ClusterInv => TypeOK BY DEF ClusterInv
<1> QED BY <1>1, ClusterInit, ClusterNext, PTL DEF Spec
=============================================================================
