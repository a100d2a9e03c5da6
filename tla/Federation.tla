----------------------------- MODULE Federation -----------------------------
(***************************************************************************)
(* Two organisations, a hub each, and the peering links between the hubs   *)
(* (connect_peer, PEER_CONNECT, FEDERATION_RELAY in hub.py).  An agent of  *)
(* one organisation gives a task to, asks, or asks for the identity of, an *)
(* agent of the other.  One agent on each side; its own connection to its  *)
(* hub is reliable while it is there.                                      *)
(***************************************************************************)
EXTENDS Naturals, Sequences

CONSTANTS
  Orgs,           \* the two organisations
  Dialers,        \* those started with --peer, which keep dialling the other
  Exchanges,      \* what agents want of an agent of the other organisation
  From,           \* [Exchanges -> Orgs], who begins
  Kind,           \* [Exchanges -> {"task", "request", "who_is"}]
  BlockedThere, BlockedBack,  \* exchanges whose content, or answer, egress blocks
  LateConnect,    \* PEER_CONNECT may arrive after that of a later link
  MaxLinks, MaxDrops, MaxLeaves

Links == 1..MaxLinks
NoLink == 0

ASSUME FederationAssumption ==
  /\ \E o, p \in Orgs : o # p /\ Orgs = {o, p}
  /\ Dialers \subseteq Orgs
  /\ From \in [Exchanges -> Orgs]
  /\ Kind \in [Exchanges -> {"task", "request", "who_is"}]
  /\ BlockedThere \subseteq Exchanges /\ BlockedBack \subseteq Exchanges
  /\ LateConnect \in BOOLEAN
  /\ MaxLinks \in Nat /\ MaxDrops \in Nat /\ MaxLeaves \in Nat

Other(o) == CHOOSE p \in Orgs : p # o
To(x) == Other(From[x])

VARIABLES
  peered,     \* [Orgs -> Links \/ {NoLink}], peered_hubs[the other], and its key
  used,       \* links dialled so far
  dial,       \* [Orgs -> Links \/ {NoLink}], the link connect_peer is at
  side,       \* [Links -> [Orgs -> ...]], where each hub's handler of a link is
  wire,       \* [Links -> [Orgs -> Seq(message)]], what is on its way to a hub
  cut,        \* links that carry nothing any more
  present,    \* organisations whose agent is attached to its hub
  registry,   \* [Exchanges -> status], the task in the registry of its hub
  fate,       \* [Exchanges -> ...], what the agent that began knows
  working,    \* exchanges an agent has received and not answered
  sent, replied,      \* history: [Exchanges -> Links \/ {NoLink}], the link used
  taken, delivered,   \* history: exchanges that arrived, there and back
  drops, leaves       \* faults so far

linkVars == <<peered, used, dial, side, cut>>
agentVars == <<present, registry, fate, working>>
history == <<sent, replied, taken, delivered>>
faultVars == <<drops, leaves>>
vars == <<linkVars, wire, agentVars, history, faultVars>>

Peering(k) == [kind |-> k]

(* The answer carries the token of the question. *)
TokenOfTheFirst(x, o) == From[x]

(* The token a relayed message carries, by the organisation that signed    *)
(* it: that of the agent whose message the hub of o relays.                *)
Token(x, o) == o

Relay(k, x, o) == [kind |-> k, x |-> x, token |-> Token(x, o)]

Kinds == {"assign", "update", "who_is", "request", "response"}

(* A frame written on a link that is cut is lost; nobody is told. *)
Written(l, o, m) ==
  IF l \in cut THEN wire ELSE [wire EXCEPT ![l][o] = Append(@, m)]
-----------------------------------------------------------------------------
(* The links.                                                              *)

Unread(l, o, k) == wire[l][o] # <<>> /\ Head(wire[l][o]).kind = k

(* connect_peer: connect and PEER_CONNECT.  It sleeps three seconds before *)
(* that, in which what it has sent arrives.                                *)
Dial(o) ==
  /\ o \in Dialers /\ dial[o] = NoLink /\ used < MaxLinks
  /\ LateConnect \/ ~\E l \in 1..used : Unread(l, Other(o), "connect")
  /\ used' = used + 1
  /\ dial' = [dial EXCEPT ![o] = used + 1]
  /\ side' = [side EXCEPT ![used + 1][o] = "asking", ![used + 1][Other(o)] = "open"]
  /\ wire' = [wire EXCEPT ![used + 1][Other(o)] = <<Peering("connect")>>]
  /\ UNCHANGED <<peered, cut, agentVars, history, faultVars>>

(* handle_agent, PEER_CONNECT: the link becomes the one of that            *)
(* organisation, whatever was there.                                       *)
Accept(l, o) ==
  /\ peered' = [peered EXCEPT ![o] = l]
  /\ wire' = [Written(l, Other(o), Peering("connected")) EXCEPT ![l][o] = Tail(@)]
  /\ UNCHANGED <<used, dial, side, cut, agentVars, history, faultVars>>

(* connect_peer reads PEER_CONNECTED and hands the link to handle_agent. *)
Joined(l, o) ==
  /\ peered' = [peered EXCEPT ![o] = l]
  /\ side' = [side EXCEPT ![l][o] = "open"]
  /\ wire' = [wire EXCEPT ![l][o] = Tail(@)]
  /\ UNCHANGED <<used, dial, cut, agentVars, history, faultVars>>

(* The handler ends without its finally. *)
KeptEntry(o, l) == peered[o]

(* finally by name, as for agents. *)
AnyEntry(o, l) == NoLink

(* finally of handle_agent: the entries that point to this connection. *)
OwnEntry(o, l) == IF peered[o] = l THEN NoLink ELSE peered[o]

(* A hub is done with a link once it has read what had arrived on it.      *)
(* connect_peer then forgets the organisation, whichever link it points to,*)
(* unless it had not got PEER_CONNECTED yet, and sleeps before it dials.   *)
End(l, o) ==
  /\ l \in cut /\ side[l][o] \in {"asking", "open"} /\ wire[l][o] = <<>>
  /\ peered' = [peered EXCEPT ![o] =
                  IF dial[o] # l THEN OwnEntry(o, l)
                  ELSE IF side[l][o] = "open" THEN NoLink ELSE @]
  /\ dial' = [dial EXCEPT ![o] = IF @ = l THEN NoLink ELSE @]
  /\ side' = [side EXCEPT ![l][o] = "ended"]
  /\ UNCHANGED <<used, cut, wire, agentVars, history, faultVars>>

(* The link is lost with all but a prefix of what was on its way.  Each    *)
(* hub notices by itself.                                                  *)
Drop(l) ==
  /\ drops < MaxDrops /\ l <= used /\ l \notin cut
  /\ drops' = drops + 1
  /\ cut' = cut \union {l}
  /\ \E o \in Orgs : \E m \in 0..Len(wire[l][o]), n \in 0..Len(wire[l][Other(o)]) :
       wire' = [wire EXCEPT ![l][o] = SubSeq(@, 1, m), ![l][Other(o)] = SubSeq(@, 1, n)]
  /\ UNCHANGED <<peered, used, dial, side, agentVars, history, leaves>>
-----------------------------------------------------------------------------
(* Agents, and what their hub does with what they send.                    *)

Question(x) == [task |-> "assign", request |-> "request", who_is |-> "who_is"][Kind[x]]

(* deliver_or_relay past the local agents: no link, or egress refuses the  *)
(* content, and the message goes nowhere.  WHO_IS is not filtered.         *)
Relayed(k, x, o, blocked) ==
  IF peered[o] = NoLink \/ blocked THEN wire
  ELSE Written(peered[o], Other(o), Relay(k, x, o))

(* A request to an organisation that is not peered is refused, and the     *)
(* ERROR names no task: the SDK fails all those of the agent as well.      *)
FailedByError(o) == {y \in Exchanges : From[y] = o /\ Kind[y] = "task" /\ fate[y] = "asked"}

Ask(x) ==
  LET o == From[x]
      blocked == Kind[x] # "who_is" /\ x \in BlockedThere
      isolated == Kind[x] = "request" /\ peered[o] = NoLink
  IN  /\ fate[x] = "new" /\ o \in present
      /\ fate' = [y \in Exchanges |->
                    IF isolated /\ y \in FailedByError(o) \union {x} THEN "refused"
                    ELSE IF y = x THEN "asked" ELSE fate[y]]
      /\ registry' = [registry EXCEPT ![x] = IF Kind[x] = "task" THEN "pending" ELSE @]
      /\ wire' = Relayed(Question(x), x, o, blocked)
      /\ sent' = [sent EXCEPT ![x] = IF blocked THEN NoLink ELSE peered[o]]
      /\ UNCHANGED <<linkVars, present, working, replied, taken, delivered, faultVars>>

(* The future of ask, submit_task or who_is times out. *)
GiveUp(x) ==
  /\ fate[x] = "asked"
  /\ fate' = [fate EXCEPT ![x] = "timeout"]
  /\ UNCHANGED <<linkVars, wire, present, registry, working, history, faultVars>>

(* The agent asked has done its work: TASK_UPDATE or RESPONSE.  A response *)
(* to an organisation no longer peered is refused by its own hub.          *)
Answer(x) ==
  LET o == To(x)
      k == IF Kind[x] = "task" THEN "update" ELSE "response"
  IN  /\ x \in working /\ o \in present
      /\ working' = working \ {x}
      /\ wire' = Relayed(k, x, o, x \in BlockedBack)
      /\ replied' = [replied EXCEPT ![x] = IF x \in BlockedBack THEN NoLink ELSE peered[o]]
      /\ UNCHANGED <<linkVars, present, registry, fate, sent, taken, delivered, faultVars>>

(* An agent detaches: what it was doing is gone, its futures fail. *)
Leave(o) ==
  /\ o \in present /\ leaves < MaxLeaves
  /\ leaves' = leaves + 1
  /\ present' = present \ {o}
  /\ working' = {x \in working : To(x) # o}
  /\ fate' = [x \in Exchanges |-> IF From[x] = o /\ fate[x] = "asked" THEN "lost" ELSE fate[x]]
  /\ UNCHANGED <<linkVars, wire, registry, history, drops>>

Return(o) ==
  /\ o \notin present
  /\ present' = present \union {o}
  /\ UNCHANGED <<linkVars, wire, registry, fate, working, history, faultVars>>
-----------------------------------------------------------------------------
(* The hub of o reads a link.                                              *)

(* verify_federated_token: the key of the other organisation is known, and *)
(* its hub signed the token.                                               *)
Verified(m, o) == peered[o] # NoLink /\ m.token = Other(o)

Told(x, o) ==
  IF o \in present
  THEN /\ delivered' = delivered \union {x}
       /\ fate' = [fate EXCEPT ![x] = IF @ = "asked" THEN "told" ELSE @]
  ELSE UNCHANGED <<delivered, fate>>

(* process_relayed of a message that is refused: the ERROR that goes back  *)
(* is for no handler of the other hub.                                     *)
Refuse == UNCHANGED <<agentVars, history>>

(* process_relayed of TASK_ASSIGN and REQUEST: to the agent, if it is here.*)
GiveToAgent(m, o) ==
  /\ m.kind \in {"assign", "request"}
  /\ IF o \in present
     THEN working' = working \union {m.x} /\ taken' = taken \union {m.x}
     ELSE UNCHANGED <<working, taken>>
  /\ UNCHANGED <<present, registry, fate, sent, replied, delivered>>

(* process_relayed of TASK_UPDATE, and of RESPONSE. *)
GiveBack(m, o) ==
  /\ m.kind \in {"update", "response"}
  /\ registry' = [registry EXCEPT ![m.x] = IF m.kind = "update" THEN "completed" ELSE @]
  /\ Told(m.x, o)
  /\ UNCHANGED <<present, working, sent, replied, taken>>

(* process_relayed of WHO_IS: the identity goes back on the same link. *)
Identify(m) ==
  /\ m.kind = "who_is"
  /\ taken' = taken \union {m.x}
  /\ UNCHANGED <<agentVars, sent, delivered>>

ReadRelayed(l, o) ==
  LET m == Head(wire[l][o])
      rest == [wire EXCEPT ![l][o] = Tail(@)]
  IN  /\ m.kind \in Kinds
      /\ IF ~Verified(m, o) THEN Refuse /\ wire' = rest
         ELSE \/ (GiveToAgent(m, o) \/ GiveBack(m, o)) /\ wire' = rest
              \/ /\ Identify(m)
                 /\ replied' = [replied EXCEPT ![m.x] = l]
                 /\ wire' = [Written(l, Other(o), [kind |-> "identity", x |-> m.x])
                              EXCEPT ![l][o] = Tail(@)]
      /\ UNCHANGED <<linkVars, faultVars>>

(* IDENTITY is not relayed: it is handed to the agent that asked. *)
ReadIdentity(l, o) ==
  /\ wire' = [wire EXCEPT ![l][o] = Tail(@)]
  /\ Told(Head(wire[l][o]).x, o)
  /\ UNCHANGED <<linkVars, present, registry, working, sent, replied, taken, faultVars>>

Read(l, o) ==
  /\ wire[l][o] # <<>> /\ side[l][o] \in {"asking", "open"}
  /\ \/ Unread(l, o, "connect") /\ Accept(l, o)
     \/ Unread(l, o, "connected") /\ Joined(l, o)
     \/ Unread(l, o, "identity") /\ ReadIdentity(l, o)
     \/ ReadRelayed(l, o)
-----------------------------------------------------------------------------
Init ==
  /\ peered = [o \in Orgs |-> NoLink] /\ used = 0 /\ dial = [o \in Orgs |-> NoLink]
  /\ side = [l \in Links |-> [o \in Orgs |-> "none"]]
  /\ wire = [l \in Links |-> [o \in Orgs |-> <<>>]] /\ cut = {}
  /\ present = Orgs
  /\ registry = [x \in Exchanges |-> "none"] /\ fate = [x \in Exchanges |-> "new"]
  /\ working = {}
  /\ sent = [x \in Exchanges |-> NoLink] /\ replied = sent
  /\ taken = {} /\ delivered = {}
  /\ drops = 0 /\ leaves = 0

Next ==
  \/ \E o \in Orgs : Dial(o) \/ Leave(o) \/ Return(o)
  \/ \E l \in Links : Drop(l) \/ \E o \in Orgs : Read(l, o) \/ End(l, o)
  \/ \E x \in Exchanges : Ask(x) \/ GiveUp(x) \/ Answer(x)

Spec == Init /\ [][Next]_vars

(* connect_peer loops for ever; the event loop serves every handler; the   *)
(* keepalive of the library ends a link that is cut.                       *)
FairSpec ==
  /\ Spec
  /\ \A o \in Orgs : WF_vars(Dial(o))
  /\ \A l \in Links, o \in Orgs : WF_vars(Read(l, o)) /\ WF_vars(End(l, o))
-----------------------------------------------------------------------------
(* Types, and: the link a hub relays on is one whose handler is running.   *)
TypeOK ==
  /\ used \in 0..MaxLinks /\ cut \subseteq 1..used
  /\ peered \in [Orgs -> 0..used] /\ dial \in [Orgs -> 0..used]
  /\ \A l \in Links, o \in Orgs : side[l][o] \in {"none", "asking", "open", "ended"}
  /\ \A o \in Orgs : peered[o] # NoLink => side[peered[o]][o] = "open"
  /\ present \subseteq Orgs /\ working \subseteq Exchanges
  /\ registry \in [Exchanges -> {"none", "pending", "completed"}]
  /\ fate \in [Exchanges -> {"new", "asked", "told", "refused", "timeout", "lost"}]

(* "Peering says who may talk to whom; an egress policy says what may      *)
(* cross" (README.md:250).  What the policy refuses reaches nobody of the  *)
(* other organisation, and no result comes back, to the registry or to an  *)
(* agent, of what did not cross or may not come back: on any link, dialled *)
(* by either side, replaced or lost meanwhile.                             *)
Filtered(x) == Kind[x] # "who_is"

EgressHolds ==
  \A x \in Exchanges :
    /\ x \in taken => ~(Filtered(x) /\ x \in BlockedThere)
    /\ x \in delivered \/ registry[x] = "completed" =>
         x \in taken /\ ~(Filtered(x) /\ x \in BlockedBack)

(* An orchestrator that has been told the end of a task finds it in the    *)
(* registry of its hub (process_relayed), although it may have asked       *)
(* through one link and been answered through another.                     *)
ToldIsRecorded ==
  \A x \in Exchanges :
    Kind[x] = "task" /\ fate[x] = "told" => registry[x] = "completed"

Linked ==
  \E l \in 1..used : l \notin cut /\ \A o \in Orgs : peered[o] = l

(* Once no link is lost any more, both hubs end up on one living link,     *)
(* however the end of an old link and the beginning of a new one are       *)
(* ordered at the hub that accepted both (connect_peer, and the finally of *)
(* handle_agent).                                                          *)
LinksHeal == <>[]Linked

(* What a hub has put on a link that is not lost reaches the other hub,    *)
(* passes its verification and reaches the agent, both ways, unless the    *)
(* agent leaves.                                                           *)
RelayedArrives ==
  \A x \in Exchanges :
    /\ (sent[x] # NoLink) ~> (x \in taken \/ sent[x] \in cut \/ leaves > 0)
    /\ (replied[x] # NoLink) ~> (x \in delivered \/ replied[x] \in cut \/ leaves > 0)
=============================================================================
