-------------------------- MODULE FederationProofs --------------------------
(***************************************************************************)
(* Theorems about the peering links of two hubs, for any exchanges, any    *)
(* number of links, losses and departures, with one dialling side or two   *)
(* and whatever the order in which PEER_CONNECT arrives.                   *)
(***************************************************************************)
EXTENDS Federation, SequenceTheorems, TLAPS

Peerings == {Peering("connect"), Peering("connected")}

Frames ==
  Peerings \cup {Relay(k, x, o) : k \in Kinds, x \in Exchanges, o \in Orgs}
           \cup {[kind |-> "identity", x |-> y] : y \in Exchanges}

(* A hub that is being asked to peer has a handler on the link already,    *)
(* and a link nobody has dialled carries nothing.                          *)
LinkInv ==
  /\ used \in 0..MaxLinks /\ cut \subseteq 1..used
  /\ peered \in [Orgs -> 0..used] /\ dial \in [Orgs -> 0..used]
  /\ side \in [Links -> [Orgs -> {"none", "asking", "open", "ended"}]]
  /\ \A o \in Orgs : peered[o] # NoLink => side[peered[o]][o] = "open"

WireOK(w, s, u) ==
  /\ w \in [Links -> [Orgs -> Seq(Frames)]]
  /\ \A l \in Links, o \in Orgs : l > u => w[l][o] = << >>
  /\ \A l \in Links, o \in Orgs :
       s[l][o] = "asking" => \A i \in DOMAIN w[l][o] : w[l][o][i].kind # "connect"

WireInv == WireOK(wire, side, used)

AgentInv ==
  /\ present \subseteq Orgs /\ working \subseteq Exchanges
  /\ registry \in [Exchanges -> {"none", "pending", "completed"}]
  /\ fate \in [Exchanges -> {"new", "asked", "told", "refused", "timeout", "lost"}]

FederationInv == LinkInv /\ WireInv /\ AgentInv

LEMMA OtherOrg ==
  ASSUME NEW o \in Orgs
  PROVE  Other(o) \in Orgs /\ Other(o) # o
<1>1. \E p \in Orgs : p # o BY FederationAssumption DEF FederationAssumption
<1> QED BY <1>1 DEF Other

(* What a frame may say, by its kind. *)
LEMMA FrameKinds ==
  /\ Peering("connect").kind = "connect" /\ Peering("connected").kind = "connected"
  /\ \A k, x, o : Relay(k, x, o).kind = k /\ Relay(k, x, o).x = x
  /\ \A m \in Frames : m.kind \in Kinds \cup {"identity"} => m.x \in Exchanges
<1>1. \A k, x, o : Relay(k, x, o).kind = k /\ Relay(k, x, o).x = x BY DEF Relay
<1>2. Peering("connect").kind = "connect" /\ Peering("connected").kind = "connected"
  BY DEF Peering
<1>3. ASSUME NEW m \in Frames, m.kind \in Kinds \cup {"identity"} PROVE m.x \in Exchanges
  <2>1. m \notin Peerings BY <1>2, <1>3 DEF Peerings, Kinds
  <2>2. CASE \E k \in Kinds, x \in Exchanges, o \in Orgs : m = Relay(k, x, o)
    BY <1>1, <2>2
  <2>3. CASE \E y \in Exchanges : m = [kind |-> "identity", x |-> y]
    BY <2>3
  <2> QED BY <2>1, <2>2, <2>3 DEF Frames
<1> QED BY <1>1, <1>2, <1>3

LEMMA FederationInit == Init => FederationInv
<1> SUFFICES ASSUME Init PROVE FederationInv OBVIOUS
<1>1. LinkInv BY FederationAssumption DEF Init, LinkInv, NoLink
<1>2. WireInv BY EmptySeq DEF Init, WireInv, WireOK
<1> QED BY <1>1, <1>2 DEF Init, FederationInv, AgentInv

(* A queue with one more frame, with its head read, or cut short, is a     *)
(* queue of frames, and has no PEER_CONNECT it had not.                    *)
LEMMA QueueFacts ==
  ASSUME NEW q \in Seq(Frames)
  PROVE  /\ \A m \in Frames : Append(q, m) \in Seq(Frames)
         /\ q # << >> => /\ Head(q) \in Frames /\ Tail(q) \in Seq(Frames)
                         /\ 1 \in DOMAIN q /\ Head(q) = q[1]
                         /\ \A i \in DOMAIN Tail(q) : i + 1 \in DOMAIN q /\ Tail(q)[i] = q[i + 1]
         /\ \A m \in Frames : \A i \in DOMAIN Append(q, m) :
              (i \in DOMAIN q /\ Append(q, m)[i] = q[i]) \/ Append(q, m)[i] = m
         /\ \A n \in 0..Len(q) :
              /\ SubSeq(q, 1, n) \in Seq(Frames)
              /\ \A i \in DOMAIN SubSeq(q, 1, n) : i \in DOMAIN q /\ SubSeq(q, 1, n)[i] = q[i]
<1>1. \A m \in Frames : /\ Append(q, m) \in Seq(Frames)
                        /\ \A i \in DOMAIN Append(q, m) :
                             (i \in DOMAIN q /\ Append(q, m)[i] = q[i]) \/ Append(q, m)[i] = m
  BY AppendProperties, LenProperties
<1>2. ASSUME q # << >>
      PROVE  /\ Head(q) \in Frames /\ Tail(q) \in Seq(Frames)
             /\ 1 \in DOMAIN q /\ Head(q) = q[1]
             /\ \A i \in DOMAIN Tail(q) : i + 1 \in DOMAIN q /\ Tail(q)[i] = q[i + 1]
  BY <1>2, HeadTailProperties, LenProperties, EmptySeq
<1>3. ASSUME NEW n \in 0..Len(q)
      PROVE  /\ SubSeq(q, 1, n) \in Seq(Frames)
             /\ \A i \in DOMAIN SubSeq(q, 1, n) : i \in DOMAIN q /\ SubSeq(q, 1, n)[i] = q[i]
  BY <1>3, SubSeqProperties, LenProperties
<1> QED BY <1>1, <1>2, <1>3

(* A queue replaced by one that may be there. *)
LEMMA ReplacedOK ==
  ASSUME NEW w, NEW s, NEW u, WireOK(w, s, u), NEW l \in Links, NEW o \in Orgs,
         NEW q \in Seq(Frames), l > u => q = << >>,
         s[l][o] = "asking" => \A i \in DOMAIN q : q[i].kind # "connect"
  PROVE  WireOK([w EXCEPT ![l][o] = q], s, u)
<1> DEFINE v == [w EXCEPT ![l][o] = q]
<1>1. v[l][o] = q /\ \A k \in Links, p \in Orgs : <<k, p>> # <<l, o>> => v[k][p] = w[k][p]
  BY DEF WireOK
<1>2. v \in [Links -> [Orgs -> Seq(Frames)]] BY DEF WireOK
<1> HIDE DEF v
<1>3. ASSUME NEW k \in Links, NEW p \in Orgs
      PROVE  /\ k > u => v[k][p] = << >>
             /\ s[k][p] = "asking" => \A i \in DOMAIN v[k][p] : v[k][p][i].kind # "connect"
  <2>1. CASE <<k, p>> = <<l, o>>
    <3>1. k = l /\ p = o BY <2>1
    <3> QED BY <1>1, <3>1
  <2>2. CASE <<k, p>> # <<l, o>>
    <3>1. v[k][p] = w[k][p] BY <1>1, <2>2
    <3> QED BY <3>1 DEF WireOK
  <2> QED BY <2>1, <2>2
<1>4. WireOK(v, s, u) BY <1>2, <1>3 DEF WireOK
<1> QED BY <1>4 DEF v

(* Writing a frame that is not PEER_CONNECT, reading one, and losing the   *)
(* end of a queue.                                                         *)
LEMMA PutOK ==
  ASSUME NEW w, NEW s, NEW u, WireOK(w, s, u), NEW l \in Links, NEW o \in Orgs,
         ~(l > u), NEW m \in Frames, m.kind # "connect"
  PROVE  WireOK([w EXCEPT ![l][o] = Append(@, m)], s, u)
<1> DEFINE q == Append(w[l][o], m)
<1>1. w[l][o] \in Seq(Frames) BY DEF WireOK
<1>2. q \in Seq(Frames) BY <1>1, QueueFacts
<1>3. \A i \in DOMAIN q : (i \in DOMAIN w[l][o] /\ q[i] = w[l][o][i]) \/ q[i] = m
  BY <1>1, QueueFacts
<1>4. s[l][o] = "asking" => \A i \in DOMAIN w[l][o] : w[l][o][i].kind # "connect"
  BY DEF WireOK
<1> HIDE DEF q
<1>5. s[l][o] = "asking" => \A i \in DOMAIN q : q[i].kind # "connect" BY <1>3, <1>4
<1>6. WireOK([w EXCEPT ![l][o] = q], s, u) BY <1>2, <1>5, ReplacedOK
<1> QED BY <1>6 DEF q

LEMMA TakeOK ==
  ASSUME NEW w, NEW s, NEW u, WireOK(w, s, u), NEW l \in Links, NEW o \in Orgs,
         w[l][o] # << >>
  PROVE  WireOK([w EXCEPT ![l][o] = Tail(@)], s, u)
<1> DEFINE q == Tail(w[l][o])
<1>1. w[l][o] \in Seq(Frames) /\ ~(l > u) BY DEF WireOK
<1>2. q \in Seq(Frames) BY <1>1, QueueFacts
<1>3. \A i \in DOMAIN q : i + 1 \in DOMAIN w[l][o] /\ q[i] = w[l][o][i + 1]
  BY <1>1, QueueFacts
<1>4. s[l][o] = "asking" => \A i \in DOMAIN w[l][o] : w[l][o][i].kind # "connect"
  BY DEF WireOK
<1> HIDE DEF q
<1>5. s[l][o] = "asking" => \A i \in DOMAIN q : q[i].kind # "connect" BY <1>3, <1>4
<1>6. WireOK([w EXCEPT ![l][o] = q], s, u) BY <1>1, <1>2, <1>5, ReplacedOK
<1> QED BY <1>6 DEF q

LEMMA CutOK ==
  ASSUME NEW w, NEW s, NEW u, WireOK(w, s, u), NEW l \in Links, NEW o \in Orgs,
         NEW n \in 0..Len(w[l][o])
  PROVE  WireOK([w EXCEPT ![l][o] = SubSeq(@, 1, n)], s, u)
<1> DEFINE q == SubSeq(w[l][o], 1, n)
<1>1. w[l][o] \in Seq(Frames) BY DEF WireOK
<1>2. q \in Seq(Frames) BY <1>1, QueueFacts
<1>3. \A i \in DOMAIN q : i \in DOMAIN w[l][o] /\ q[i] = w[l][o][i]
  BY <1>1, QueueFacts
<1>4. s[l][o] = "asking" => \A i \in DOMAIN w[l][o] : w[l][o][i].kind # "connect"
  BY DEF WireOK
<1>5. ASSUME l > u PROVE q = << >>
  <2>1. w[l][o] = << >> BY <1>5 DEF WireOK
  <2>2. n = 0 BY <2>1, EmptySeq
  <2> QED BY <2>2, SubSeqEmpty
<1> HIDE DEF q
<1>6. s[l][o] = "asking" => \A i \in DOMAIN q : q[i].kind # "connect" BY <1>3, <1>4
<1>7. WireOK([w EXCEPT ![l][o] = q], s, u) BY <1>2, <1>5, <1>6, ReplacedOK
<1> QED BY <1>7 DEF q

(* A frame a hub writes, on a link that is cut or not. *)
LEMMA WrittenOK ==
  ASSUME WireInv, NEW l \in Links, NEW o \in Orgs, ~(l > used),
         NEW m \in Frames, m.kind # "connect"
  PROVE  WireOK(Written(l, o, m), side, used)
<1>1. CASE l \in cut BY <1>1 DEF Written, WireInv
<1>2. CASE l \notin cut BY <1>2, PutOK DEF Written, WireInv
<1> QED BY <1>1, <1>2

(* A relayed frame never opens a link. *)
LEMMA RelayedOK ==
  ASSUME FederationInv, NEW o \in Orgs, NEW x \in Exchanges, NEW k \in Kinds, NEW b
  PROVE  WireOK(Relayed(k, x, o, b), side, used)
<1>1. CASE peered[o] = NoLink \/ b BY <1>1 DEF Relayed, FederationInv, WireInv
<1>2. CASE ~(peered[o] = NoLink \/ b)
  <2>1. peered[o] \in Links /\ ~(peered[o] > used)
    BY <1>2, FederationAssumption
    DEF FederationInv, LinkInv, NoLink, Links, FederationAssumption
  <2>2. Relay(k, x, o) \in Frames BY DEF Frames
  <2>3. Relay(k, x, o).kind # "connect" BY FrameKinds DEF Kinds
  <2> QED BY <1>2, <2>1, <2>2, <2>3, WrittenOK, OtherOrg DEF Relayed, FederationInv
<1> QED BY <1>1, <1>2

(* A hub reads from a link that has been dialled, and knows what it read. *)
LEMMA ReadFacts ==
  ASSUME FederationInv, NEW l \in Links, NEW o \in Orgs, wire[l][o] # << >>
  PROVE  /\ l \in 1..used /\ ~(l > used)
         /\ Head(wire[l][o]) \in Frames
         /\ side[l][o] = "asking" => Head(wire[l][o]).kind # "connect"
<1>1. wire[l][o] \in Seq(Frames) /\ ~(l > used)
  BY DEF FederationInv, WireInv, WireOK
<1>2. l \in 1..used BY <1>1 DEF FederationInv, LinkInv, Links
<1>3. /\ Head(wire[l][o]) \in Frames
      /\ 1 \in DOMAIN wire[l][o] /\ Head(wire[l][o]) = wire[l][o][1]
  BY <1>1, QueueFacts
<1>4. side[l][o] = "asking" => wire[l][o][1].kind # "connect"
  BY <1>3 DEF FederationInv, WireInv, WireOK
<1> QED BY <1>1, <1>2, <1>3, <1>4

LEMMA DialKeeps ==
  ASSUME FederationInv, NEW o \in Orgs, Dial(o)
  PROVE  FederationInv'
<1> DEFINE new == used + 1
<1>0. /\ new \in Links /\ new > used /\ used \in Nat /\ used' = new /\ new \in 1..MaxLinks
      /\ Other(o) \in Orgs /\ Other(o) # o
  BY OtherOrg, FederationAssumption
  DEF FederationInv, LinkInv, Dial, Links, FederationAssumption
<1>1. /\ side'[new][o] = "asking" /\ side'[new][Other(o)] = "open"
      /\ \A l \in Links, p \in Orgs : l # new => side'[l][p] = side[l][p]
      /\ \A p \in Orgs : p \in {o, Other(o)} \/ side'[new][p] = side[new][p]
      /\ side' \in [Links -> [Orgs -> {"none", "asking", "open", "ended"}]]
  BY <1>0 DEF FederationInv, LinkInv, Dial
<1>2. /\ wire'[new][Other(o)] = << Peering("connect") >>
      /\ \A l \in Links, p \in Orgs : <<l, p>> # <<new, Other(o)>> => wire'[l][p] = wire[l][p]
  BY <1>0 DEF FederationInv, WireInv, WireOK, Dial
<1>3. << Peering("connect") >> \in Seq(Frames)
  BY DEF Frames, Peerings
<1>4. wire' \in [Links -> [Orgs -> Seq(Frames)]]
  BY <1>0, <1>3 DEF FederationInv, WireInv, WireOK, Dial
<1>5. ASSUME NEW l \in Links, NEW p \in Orgs, side'[l][p] = "asking",
             NEW i \in DOMAIN wire'[l][p]
      PROVE  wire'[l][p][i].kind # "connect"
  <2>1. <<l, p>> # <<new, Other(o)>> BY <1>1, <1>5
  <2>2. wire'[l][p] = wire[l][p] BY <1>2, <2>1
  <2>3. CASE l = new
    <3>1. wire[l][p] = << >> BY <1>0, <2>3 DEF FederationInv, WireInv, WireOK
    <3> QED BY <1>5, <2>2, <3>1, EmptySeq
  <2>4. CASE l # new
    <3>1. side[l][p] = "asking" BY <1>1, <1>5, <2>4
    <3>2. \A j \in DOMAIN wire[l][p] : wire[l][p][j].kind # "connect"
      BY <3>1 DEF FederationInv, WireInv, WireOK
    <3> QED BY <1>5, <2>2, <3>2
  <2> QED BY <2>3, <2>4
<1>6. ASSUME NEW l \in Links, NEW p \in Orgs, l > new PROVE wire'[l][p] = << >>
  <2>1. l > used /\ l # new BY <1>0, <1>6 DEF Links
  <2> QED BY <1>2, <2>1 DEF FederationInv, WireInv, WireOK
<1>7. WireInv'
  <2> HIDE DEF new
  <2> QED BY <1>0, <1>4, <1>5, <1>6 DEF WireInv, WireOK
<1>8. /\ peered' = peered /\ cut' = cut /\ used' \in 0..MaxLinks /\ cut' \subseteq 1..used'
      /\ peered' \in [Orgs -> 0..used'] /\ dial' \in [Orgs -> 0..used']
  BY <1>0 DEF FederationInv, LinkInv, Dial
<1>9. \A p \in Orgs : peered'[p] # NoLink => side'[peered'[p]][p] = "open"
  <2> TAKE p \in Orgs
  <2> HAVE peered'[p] # NoLink
  <2>1. peered[p] \in 1..used /\ side[peered[p]][p] = "open"
    BY <1>0, <1>8 DEF FederationInv, LinkInv, NoLink
  <2>2. peered[p] \in Links /\ peered[p] # new
    BY <1>0, <2>1, FederationAssumption DEF Links, FederationAssumption
  <2> QED BY <1>1, <1>8, <2>1, <2>2
<1>10. LinkInv' BY <1>1, <1>8, <1>9 DEF LinkInv
<1> QED BY <1>7, <1>10 DEF Dial, agentVars, FederationInv, AgentInv

(* PEER_CONNECT is read by a hub that accepted the connection, and         *)
(* PEER_CONNECTED makes the one that dialled a listener: either way the    *)
(* new entry has a handler.                                                *)
LEMMA AcceptKeeps ==
  ASSUME FederationInv, NEW l \in Links, NEW o \in Orgs, wire[l][o] # << >>,
         side[l][o] \in {"asking", "open"}, Unread(l, o, "connect"), Accept(l, o)
  PROVE  FederationInv'
<1>1. l \in 1..used /\ ~(l > used) /\ side[l][o] = "open" BY ReadFacts DEF Unread
<1>2. Other(o) \in Orgs /\ Other(o) # o BY OtherOrg
<1>3. Peering("connected") \in Frames /\ Peering("connected").kind # "connect"
  BY FrameKinds DEF Frames, Peerings
<1>4. WireOK(Written(l, Other(o), Peering("connected")), side, used)
  BY <1>1, <1>2, <1>3, WrittenOK DEF FederationInv
<1>5. Written(l, Other(o), Peering("connected"))[l][o] # << >>
  BY <1>2 DEF Written, FederationInv, WireInv, WireOK
<1>6. WireInv' BY <1>4, <1>5, TakeOK DEF Accept, WireInv
<1>7. LinkInv' BY <1>1 DEF FederationInv, LinkInv, Accept
<1> QED BY <1>6, <1>7 DEF Accept, agentVars, FederationInv, AgentInv

LEMMA JoinedKeeps ==
  ASSUME FederationInv, NEW l \in Links, NEW o \in Orgs, wire[l][o] # << >>,
         Joined(l, o)
  PROVE  FederationInv'
<1>1. l \in 1..used /\ ~(l > used) BY ReadFacts
<1>2. WireOK(wire', side, used) BY TakeOK DEF Joined, FederationInv, WireInv
<1>3. \A k \in Links, p \in Orgs : side'[k][p] = "asking" => side[k][p] = "asking"
  BY DEF Joined, FederationInv, LinkInv
<1>4. WireInv' BY <1>2, <1>3 DEF Joined, WireInv, WireOK
<1>5. LinkInv' BY <1>1 DEF FederationInv, LinkInv, Joined, NoLink
<1> QED BY <1>4, <1>5 DEF Joined, agentVars, FederationInv, AgentInv

LEMMA EndKeeps ==
  ASSUME FederationInv, NEW l \in Links, NEW o \in Orgs, End(l, o)
  PROVE  FederationInv'
<1>1. \A k \in Links, p \in Orgs : side'[k][p] = "asking" => side[k][p] = "asking"
  BY DEF End, FederationInv, LinkInv
<1>2. WireInv' BY <1>1 DEF End, FederationInv, WireInv, WireOK
<1>3. /\ peered' \in [Orgs -> 0..used] /\ dial' \in [Orgs -> 0..used]
      /\ side' \in [Links -> [Orgs -> {"none", "asking", "open", "ended"}]]
  BY DEF FederationInv, LinkInv, End, OwnEntry, NoLink
<1>4. peered'[o] # l /\ peered'[o] \in {peered[o], NoLink}
      /\ \A p \in Orgs : p # o => peered'[p] = peered[p]
  BY DEF FederationInv, LinkInv, End, OwnEntry, NoLink, Links
<1>5. \A k \in Links, p \in Orgs : <<k, p>> # <<l, o>> => side'[k][p] = side[k][p]
  BY DEF FederationInv, LinkInv, End
<1>6. \A p \in Orgs : peered'[p] # NoLink => side'[peered'[p]][p] = "open"
  <2> TAKE p \in Orgs
  <2> HAVE peered'[p] # NoLink
  <2>1. peered'[p] = peered[p] /\ <<peered[p], p>> # <<l, o>> BY <1>4
  <2>2. peered[p] \in Links /\ side[peered[p]][p] = "open"
    BY <2>1, FederationAssumption
    DEF FederationInv, LinkInv, NoLink, Links, FederationAssumption
  <2> QED BY <1>5, <2>1, <2>2
<1>7. LinkInv' BY <1>3, <1>6 DEF FederationInv, LinkInv, End
<1> QED BY <1>2, <1>7 DEF End, agentVars, FederationInv, AgentInv

LEMMA DropKeeps ==
  ASSUME FederationInv, NEW l \in Links, Drop(l)
  PROVE  FederationInv'
<1>1. PICK o \in Orgs : \E m \in 0..Len(wire[l][o]), n \in 0..Len(wire[l][Other(o)]) :
        wire' = [wire EXCEPT ![l][o] = SubSeq(@, 1, m), ![l][Other(o)] = SubSeq(@, 1, n)]
  BY DEF Drop
<1>2. PICK m \in 0..Len(wire[l][o]), n \in 0..Len(wire[l][Other(o)]) :
        wire' = [wire EXCEPT ![l][o] = SubSeq(@, 1, m), ![l][Other(o)] = SubSeq(@, 1, n)]
  BY <1>1
<1>3. Other(o) \in Orgs /\ Other(o) # o BY OtherOrg
<1> DEFINE v == [wire EXCEPT ![l][o] = SubSeq(@, 1, m)]
<1>4. WireOK(v, side, used) BY CutOK DEF FederationInv, WireInv
<1>5. v[l][Other(o)] = wire[l][Other(o)] BY <1>3 DEF FederationInv, WireInv, WireOK
<1>6. wire' = [v EXCEPT ![l][Other(o)] = SubSeq(@, 1, n)]
  BY <1>2, <1>3, <1>5 DEF FederationInv, WireInv, WireOK
<1>7. WireOK(wire', side, used)
  <2> HIDE DEF v
  <2> QED BY <1>3, <1>4, <1>5, <1>6, CutOK
<1>8. WireInv' BY <1>7 DEF Drop, WireInv
<1>9. LinkInv' BY DEF FederationInv, LinkInv, Drop, Links
<1> QED BY <1>8, <1>9 DEF Drop, agentVars, FederationInv, AgentInv

LEMMA ReadRelayedKeeps ==
  ASSUME FederationInv, NEW l \in Links, NEW o \in Orgs, wire[l][o] # << >>,
         ReadRelayed(l, o)
  PROVE  FederationInv'
<1> DEFINE m == Head(wire[l][o])
           rest == [wire EXCEPT ![l][o] = Tail(@)]
<1>1. ~(l > used) /\ m \in Frames /\ m.x \in Exchanges
  BY ReadFacts, FrameKinds DEF ReadRelayed
<1>2. WireOK(rest, side, used) BY TakeOK DEF FederationInv, WireInv
<1>3. LinkInv' BY DEF ReadRelayed, linkVars, FederationInv, LinkInv
<1>4. CASE wire' = rest /\ (Refuse \/ GiveToAgent(m, o) \/ GiveBack(m, o))
  <2>1. WireInv' BY <1>2, <1>4 DEF ReadRelayed, linkVars, WireInv
  <2>2. AgentInv'
    <3> HIDE DEF m
    <3>1. CASE Refuse BY <3>1 DEF Refuse, agentVars, FederationInv, AgentInv
    <3>2. CASE GiveToAgent(m, o) BY <1>1, <3>2 DEF GiveToAgent, FederationInv, AgentInv
    <3>3. CASE GiveBack(m, o) BY <1>1, <3>3 DEF GiveBack, Told, FederationInv, AgentInv
    <3> QED BY <1>4, <3>1, <3>2, <3>3
  <2> QED BY <1>3, <2>1, <2>2 DEF FederationInv
<1>5. CASE /\ Identify(m)
           /\ wire' = [Written(l, Other(o), [kind |-> "identity", x |-> m.x])
                         EXCEPT ![l][o] = Tail(@)]
  <2> DEFINE answer == [kind |-> "identity", x |-> m.x]
             w == Written(l, Other(o), answer)
  <2>1. answer \in Frames /\ answer.kind # "connect" BY <1>1 DEF Frames
  <2>2. Other(o) \in Orgs /\ Other(o) # o BY OtherOrg
  <2>3. WireOK(w, side, used)
    <3> HIDE DEF answer
    <3> QED BY <1>1, <2>1, <2>2, WrittenOK DEF FederationInv
  <2>4. w[l][o] # << >>
    BY <2>2 DEF Written, FederationInv, WireInv, WireOK
  <2>5. WireOK(wire', side, used)
    <3>1. wire' = [w EXCEPT ![l][o] = Tail(@)] BY <1>5
    <3> HIDE DEF w
    <3> QED BY <2>3, <2>4, <3>1, TakeOK
  <2>6. WireInv' BY <2>5 DEF ReadRelayed, linkVars, WireInv
  <2>7. AgentInv' BY <1>5 DEF Identify, agentVars, FederationInv, AgentInv
  <2> QED BY <1>3, <2>6, <2>7 DEF FederationInv
<1> QED BY <1>4, <1>5 DEF ReadRelayed

LEMMA ReadKeeps ==
  ASSUME FederationInv, NEW l \in Links, NEW o \in Orgs, Read(l, o)
  PROVE  FederationInv'
<1>1. wire[l][o] # << >> /\ side[l][o] \in {"asking", "open"} BY DEF Read
<1>2. CASE Unread(l, o, "connect") /\ Accept(l, o) BY <1>1, <1>2, AcceptKeeps
<1>3. CASE Unread(l, o, "connected") /\ Joined(l, o) BY <1>1, <1>3, JoinedKeeps
<1>4. CASE Unread(l, o, "identity") /\ ReadIdentity(l, o)
  <2>1. Head(wire[l][o]).x \in Exchanges
    BY <1>1, <1>4, ReadFacts, FrameKinds DEF Unread
  <2>2. WireOK(wire', side, used)
    BY <1>1, <1>4, TakeOK DEF ReadIdentity, FederationInv, WireInv
  <2>3. WireInv' BY <1>4, <2>2 DEF ReadIdentity, linkVars, WireInv
  <2>4. LinkInv' BY <1>4 DEF ReadIdentity, linkVars, FederationInv, LinkInv
  <2>5. AgentInv' BY <1>4, <2>1 DEF ReadIdentity, Told, FederationInv, AgentInv
  <2> QED BY <2>3, <2>4, <2>5 DEF FederationInv
<1>5. CASE ReadRelayed(l, o) BY <1>1, <1>5, ReadRelayedKeeps
<1> QED BY <1>2, <1>3, <1>4, <1>5 DEF Read

(* What agents do leaves the links alone. *)
LEMMA AgentsKeep ==
  ASSUME FederationInv, NEW x \in Exchanges, Ask(x) \/ GiveUp(x) \/ Answer(x)
  PROVE  FederationInv'
<1>1. From[x] \in Orgs /\ To(x) \in Orgs /\ Question(x) \in Kinds
  <2>1. From[x] \in Orgs /\ Kind[x] \in {"task", "request", "who_is"}
    BY FederationAssumption DEF FederationAssumption
  <2> QED BY <2>1, OtherOrg DEF To, Question, Kinds
<1>2. CASE Ask(x)
  <2>1. PICK b : wire' = Relayed(Question(x), x, From[x], b) BY <1>2 DEF Ask
  <2>2. WireInv' BY <1>1, <1>2, <2>1, RelayedOK DEF Ask, linkVars, WireInv
  <2>3. LinkInv' BY <1>2 DEF Ask, linkVars, FederationInv, LinkInv
  <2>4. AgentInv' BY <1>2 DEF Ask, FederationInv, AgentInv
  <2> QED BY <2>2, <2>3, <2>4 DEF FederationInv
<1>3. CASE GiveUp(x)
  BY <1>3 DEF GiveUp, linkVars, FederationInv, LinkInv, WireInv, AgentInv
<1>4. CASE Answer(x)
  <2>1. \E k \in Kinds : wire' = Relayed(k, x, To(x), x \in BlockedBack)
    BY <1>4 DEF Answer, Kinds
  <2>2. WireInv' BY <1>1, <1>4, <2>1, RelayedOK DEF Answer, linkVars, WireInv
  <2>3. LinkInv' BY <1>4 DEF Answer, linkVars, FederationInv, LinkInv
  <2>4. AgentInv' BY <1>4 DEF Answer, FederationInv, AgentInv
  <2> QED BY <2>2, <2>3, <2>4 DEF FederationInv
<1> QED BY <1>2, <1>3, <1>4

LEMMA FederationStep == FederationInv /\ [Next]_vars => FederationInv'
<1> SUFFICES ASSUME FederationInv, [Next]_vars PROVE FederationInv' OBVIOUS
<1>1. ASSUME NEW o \in Orgs, Dial(o) PROVE FederationInv' BY <1>1, DialKeeps
<1>2. ASSUME NEW o \in Orgs, Leave(o) \/ Return(o) PROVE FederationInv'
  BY <1>2 DEF Leave, Return, linkVars, FederationInv, LinkInv, WireInv, AgentInv
<1>3. ASSUME NEW l \in Links, Drop(l) PROVE FederationInv' BY <1>3, DropKeeps
<1>4. ASSUME NEW l \in Links, NEW o \in Orgs, Read(l, o) PROVE FederationInv'
  BY <1>4, ReadKeeps
<1>5. ASSUME NEW l \in Links, NEW o \in Orgs, End(l, o) PROVE FederationInv'
  BY <1>5, EndKeeps
<1>6. ASSUME NEW x \in Exchanges, Ask(x) \/ GiveUp(x) \/ Answer(x) PROVE FederationInv'
  BY <1>6, AgentsKeep
<1>7. CASE UNCHANGED vars
  BY <1>7 DEF vars, linkVars, agentVars, FederationInv, LinkInv, WireInv, AgentInv
<1> QED BY <1>1, <1>2, <1>3, <1>4, <1>5, <1>6, <1>7 DEF Next

(* TypeOK of Federation: the entry a hub relays on is a link whose handler *)
(* it is running, whichever link ended or began last and with both sides   *)
(* dialling (peered_hubs, connect_peer and the finally of handle_agent).   *)
THEOREM TypeCorrect == Spec => []TypeOK
<1>1. FederationInv => TypeOK BY DEF FederationInv, LinkInv, AgentInv, TypeOK
<1> QED BY <1>1, FederationInit, FederationStep, PTL DEF Spec

(***************************************************************************)
(* What crosses between the two organisations                              *)
(***************************************************************************)
Wires == [Links -> [Orgs -> Seq(Frames)]]

(* A frame on its way to a hub, on whichever link.                         *)
Queued(w, m) ==
  \E l \in Links, o \in Orgs : \E i \in DOMAIN w[l][o] : w[l][o][i] = m

(* What a frame on its way says of the past, T being what has arrived: a   *)
(* question passed the filter, and an answer is to something that arrived. *)
Passed(m, T) ==
  /\ m.kind \in {"assign", "request", "who_is"} =>
       m.kind = Question(m.x) /\ ~(Filtered(m.x) /\ m.x \in BlockedThere)
  /\ m.kind \in {"update", "response"} =>
       /\ m.x \in T /\ Filtered(m.x) /\ m.x \notin BlockedBack
       /\ Kind[m.x] = "task" => m.kind = "update"
  /\ m.kind = "identity" => m.x \in T /\ ~Filtered(m.x)

CrossInv ==
  /\ \A m \in Frames : Queued(wire, m) => Passed(m, taken)
  /\ \A x \in working : x \in taken /\ Filtered(x)
  /\ EgressHolds /\ ToldIsRecorded

(* A queue whose frames were there already, or are m.                      *)
LEMMA QueuedReplaced ==
  ASSUME NEW w \in Wires, NEW l \in Links, NEW o \in Orgs, NEW q \in Seq(Frames), NEW m,
         \A i \in DOMAIN q : q[i] = m \/ \E j \in DOMAIN w[l][o] : q[i] = w[l][o][j]
  PROVE  /\ [w EXCEPT ![l][o] = q] \in Wires
         /\ \A n : Queued([w EXCEPT ![l][o] = q], n) => Queued(w, n) \/ n = m
<1> DEFINE v == [w EXCEPT ![l][o] = q]
<1>1. v \in Wires BY DEF Wires
<1>2. v[l][o] = q /\ \A k \in Links, p \in Orgs : <<k, p>> # <<l, o>> => v[k][p] = w[k][p]
  BY DEF Wires
<1> HIDE DEF v
<1>3. ASSUME NEW n, Queued(v, n) PROVE Queued(w, n) \/ n = m
  <2>1. PICK k \in Links, p \in Orgs : \E i \in DOMAIN v[k][p] : v[k][p][i] = n
    BY <1>3 DEF Queued
  <2>2. CASE <<k, p>> = <<l, o>>
    <3>1. k = l /\ p = o BY <2>2
    <3>2. \E i \in DOMAIN q : q[i] = n BY <1>2, <2>1, <3>1
    <3> QED BY <3>2 DEF Queued
  <2>3. CASE <<k, p>> # <<l, o>>
    <3>1. v[k][p] = w[k][p] BY <1>2, <2>3
    <3> QED BY <2>1, <3>1 DEF Queued
  <2> QED BY <2>2, <2>3
<1> QED BY <1>1, <1>3 DEF v

LEMMA QueuedWritten ==
  ASSUME wire \in Wires, NEW l \in Links, NEW o \in Orgs, NEW m \in Frames
  PROVE  /\ Written(l, o, m) \in Wires
         /\ \A n : Queued(Written(l, o, m), n) => Queued(wire, n) \/ n = m
<1>1. CASE l \in cut BY <1>1 DEF Written
<1>2. CASE l \notin cut
  <2> DEFINE q == Append(wire[l][o], m)
  <2>1. wire[l][o] \in Seq(Frames) BY DEF Wires
  <2>2. /\ q \in Seq(Frames)
        /\ \A i \in DOMAIN q : (i \in DOMAIN wire[l][o] /\ q[i] = wire[l][o][i]) \/ q[i] = m
    BY <2>1, QueueFacts
  <2>3. Written(l, o, m) = [wire EXCEPT ![l][o] = q] BY <1>2 DEF Written
  <2> HIDE DEF q
  <2>4. wire \in Wires /\ q \in Seq(Frames) BY <2>2
  <2>5. \A i \in DOMAIN q : q[i] = m \/ \E j \in DOMAIN wire[l][o] : q[i] = wire[l][o][j]
    BY <2>2
  <2>6. /\ [wire EXCEPT ![l][o] = q] \in Wires
        /\ \A n : Queued([wire EXCEPT ![l][o] = q], n) => Queued(wire, n) \/ n = m
    BY <2>4, <2>5, QueuedReplaced, Zenon
  <2> QED BY <2>3, <2>6, Zenon
<1> QED BY <1>1, <1>2

LEMMA QueuedTaken ==
  ASSUME NEW w \in Wires, NEW l \in Links, NEW o \in Orgs, w[l][o] # << >>
  PROVE  /\ [w EXCEPT ![l][o] = Tail(@)] \in Wires
         /\ \A n : Queued([w EXCEPT ![l][o] = Tail(@)], n) => Queued(w, n)
         /\ Queued(w, Head(w[l][o]))
<1> DEFINE q == Tail(w[l][o])
<1>1. w[l][o] \in Seq(Frames) BY DEF Wires
<1>2. /\ q \in Seq(Frames) /\ 1 \in DOMAIN w[l][o] /\ Head(w[l][o]) = w[l][o][1]
      /\ \A i \in DOMAIN q : i + 1 \in DOMAIN w[l][o] /\ q[i] = w[l][o][i + 1]
  BY <1>1, QueueFacts
<1>3. Queued(w, Head(w[l][o])) BY <1>2 DEF Queued
<1> HIDE DEF q
<1>4. /\ [w EXCEPT ![l][o] = q] \in Wires
      /\ \A n : Queued([w EXCEPT ![l][o] = q], n) => Queued(w, n) \/ n = Head(w[l][o])
  <2>1. \A i \in DOMAIN q :
          q[i] = Head(w[l][o]) \/ \E j \in DOMAIN w[l][o] : q[i] = w[l][o][j]
    BY <1>2
  <2>2. q \in Seq(Frames) BY <1>2
  <2> QED BY <2>1, <2>2, QueuedReplaced, Zenon
<1> QED BY <1>3, <1>4 DEF q

LEMMA QueuedCut ==
  ASSUME NEW w \in Wires, NEW l \in Links, NEW o \in Orgs, NEW k \in 0..Len(w[l][o])
  PROVE  /\ [w EXCEPT ![l][o] = SubSeq(@, 1, k)] \in Wires
         /\ \A n : Queued([w EXCEPT ![l][o] = SubSeq(@, 1, k)], n) => Queued(w, n)
<1> DEFINE q == SubSeq(w[l][o], 1, k)
<1>1. w[l][o] \in Seq(Frames) BY DEF Wires
<1>2. q \in Seq(Frames) /\ \A i \in DOMAIN q : i \in DOMAIN w[l][o] /\ q[i] = w[l][o][i]
  BY <1>1, QueueFacts
<1> HIDE DEF q
<1>3. /\ [w EXCEPT ![l][o] = q] \in Wires
      /\ \A m : \A n : Queued([w EXCEPT ![l][o] = q], n) => Queued(w, n) \/ n = m
  BY <1>2, QueuedReplaced
<1>4. \A n : Queued([w EXCEPT ![l][o] = q], n) => Queued(w, n)
  <2> TAKE n
  <2>1. Queued([w EXCEPT ![l][o] = q], n) => Queued(w, n) \/ n = {n} BY <1>3
  <2>2. Queued([w EXCEPT ![l][o] = q], n) => Queued(w, n) \/ n = {} BY <1>3
  <2> QED BY <2>1, <2>2
<1> QED BY <1>3, <1>4 DEF q

LEMMA FederationWires == FederationInv => wire \in Wires
BY DEF FederationInv, WireInv, WireOK, Wires

(* What has arrived stays so. *)
LEMMA PassedKept ==
  ASSUME NEW m, NEW T, NEW U, T \subseteq U, Passed(m, T)
  PROVE  Passed(m, U)
BY DEF Passed

LEMMA PeeringPassed == \A T : \A k \in {"connect", "connected"} : Passed(Peering(k), T)
BY DEF Peering, Passed

LEMMA CrossInit == Init => CrossInv
<1> SUFFICES ASSUME Init PROVE CrossInv OBVIOUS
<1>1. \A m : ~Queued(wire, m) BY EmptySeq DEF Init, Queued
<1> QED BY <1>1 DEF Init, CrossInv, EgressHolds, ToldIsRecorded

(* A step of the links: nothing is learnt.                                 *)
LEMMA LinksCross ==
  ASSUME CrossInv, UNCHANGED <<agentVars, taken, delivered>>,
         \A n \in Frames : Queued(wire', n) => Queued(wire, n) \/ Passed(n, taken)
  PROVE  CrossInv'
<1>1. \A n \in Frames : Queued(wire', n) => Passed(n, taken') BY DEF CrossInv
<1>2. \A x \in working' : x \in taken' /\ Filtered(x) BY DEF CrossInv, agentVars
<1>3. EgressHolds' BY DEF CrossInv, EgressHolds, agentVars
<1>4. ToldIsRecorded' BY DEF CrossInv, ToldIsRecorded, agentVars
<1> QED BY <1>1, <1>2, <1>3, <1>4 DEF CrossInv

LEMMA DialCross ==
  ASSUME FederationInv, CrossInv, NEW o \in Orgs, Dial(o)
  PROVE  CrossInv'
<1> DEFINE q == << Peering("connect") >>
<1>1. used + 1 \in Links /\ Other(o) \in Orgs
  BY OtherOrg, FederationAssumption
  DEF FederationInv, LinkInv, Dial, Links, FederationAssumption
<1>2. q \in Seq(Frames) /\ \A i \in DOMAIN q : q[i] = Peering("connect")
  BY DEF Frames, Peerings
<1>3. wire' = [wire EXCEPT ![used + 1][Other(o)] = q] BY DEF Dial
<1> HIDE DEF q
<1>4. \A n : Queued([wire EXCEPT ![used + 1][Other(o)] = q], n)
              => Queued(wire, n) \/ n = Peering("connect")
  BY <1>1, <1>2, FederationWires, QueuedReplaced, Zenon
<1>5. \A n \in Frames : Queued(wire', n) => Queued(wire, n) \/ Passed(n, taken)
  BY <1>3, <1>4, PeeringPassed
<1> QED BY <1>5, LinksCross DEF Dial, history

LEMMA AcceptCross ==
  ASSUME FederationInv, CrossInv, NEW l \in Links, NEW o \in Orgs, wire[l][o] # << >>,
         Accept(l, o)
  PROVE  CrossInv'
<1> DEFINE w == Written(l, Other(o), Peering("connected"))
<1>1. Other(o) \in Orgs /\ Other(o) # o BY OtherOrg
<1>2. Peering("connected") \in Frames BY DEF Frames, Peerings
<1>3. w \in Wires /\ \A n : Queued(w, n) => Queued(wire, n) \/ n = Peering("connected")
  BY <1>1, <1>2, FederationWires, QueuedWritten
<1>4. w[l][o] # << >> BY <1>1 DEF Written, FederationInv, WireInv, WireOK
<1>5. wire' = [w EXCEPT ![l][o] = Tail(@)] BY DEF Accept
<1> HIDE DEF w
<1>6. \A n : Queued(wire', n) => Queued(w, n) BY <1>3, <1>4, <1>5, QueuedTaken
<1>7. \A n \in Frames : Queued(wire', n) => Queued(wire, n) \/ Passed(n, taken)
  BY <1>3, <1>6, PeeringPassed
<1> QED BY <1>7, LinksCross DEF Accept, history

LEMMA JoinedCross ==
  ASSUME FederationInv, CrossInv, NEW l \in Links, NEW o \in Orgs, wire[l][o] # << >>,
         Joined(l, o)
  PROVE  CrossInv'
<1>1. \A n : Queued(wire', n) => Queued(wire, n) BY FederationWires, QueuedTaken DEF Joined
<1> QED BY <1>1, LinksCross DEF Joined, history

LEMMA DropCross ==
  ASSUME FederationInv, CrossInv, NEW l \in Links, Drop(l)
  PROVE  CrossInv'
<1>1. PICK o \in Orgs : \E m \in 0..Len(wire[l][o]), n \in 0..Len(wire[l][Other(o)]) :
        wire' = [wire EXCEPT ![l][o] = SubSeq(@, 1, m), ![l][Other(o)] = SubSeq(@, 1, n)]
  BY DEF Drop
<1>2. PICK m \in 0..Len(wire[l][o]), n \in 0..Len(wire[l][Other(o)]) :
        wire' = [wire EXCEPT ![l][o] = SubSeq(@, 1, m), ![l][Other(o)] = SubSeq(@, 1, n)]
  BY <1>1
<1>3. Other(o) \in Orgs /\ Other(o) # o BY OtherOrg
<1> DEFINE v == [wire EXCEPT ![l][o] = SubSeq(@, 1, m)]
<1>4. v \in Wires /\ \A k : Queued(v, k) => Queued(wire, k) BY FederationWires, QueuedCut
<1>5. v[l][Other(o)] = wire[l][Other(o)] BY <1>3 DEF FederationInv, WireInv, WireOK
<1>6. wire' = [v EXCEPT ![l][Other(o)] = SubSeq(@, 1, n)]
  BY <1>2, <1>3, <1>5 DEF FederationInv, WireInv, WireOK
<1> HIDE DEF v
<1>7. \A k : Queued(wire', k) => Queued(v, k) BY <1>3, <1>4, <1>5, <1>6, QueuedCut
<1> QED BY <1>4, <1>7, LinksCross DEF Drop, history

(* A frame that is read, and the wire without it.                          *)
LEMMA ReadQueued ==
  ASSUME FederationInv, CrossInv, NEW l \in Links, NEW o \in Orgs, wire[l][o] # << >>
  PROVE  /\ Passed(Head(wire[l][o]), taken)
         /\ \A n : Queued([wire EXCEPT ![l][o] = Tail(@)], n) => Queued(wire, n)
<1>1. Head(wire[l][o]) \in Frames BY ReadFacts
<1>2. Queued(wire, Head(wire[l][o])) BY FederationWires, QueuedTaken
<1>3. \A n : Queued([wire EXCEPT ![l][o] = Tail(@)], n) => Queued(wire, n)
  BY FederationWires, QueuedTaken
<1> QED BY <1>1, <1>2, <1>3 DEF CrossInv

(* An answer that is read is to something that arrived and may be told:    *)
(* if it ends a task, the registry has it first.                           *)
LEMMA ToldCross ==
  ASSUME FederationInv, CrossInv, NEW x \in Exchanges, NEW o, Told(x, o),
         UNCHANGED <<working, taken>>,
         \A n : Queued(wire', n) => Queued(wire, n),
         x \in taken, ~(Filtered(x) /\ x \in BlockedBack),
         Kind[x] = "task" => registry'[x] = "completed",
         \A y \in Exchanges : y # x => registry'[y] = registry[y],
         registry'[x] \in {registry[x], "completed"}
  PROVE  CrossInv'
<1>1. \A n \in Frames : Queued(wire', n) => Passed(n, taken') BY DEF CrossInv
<1>2. \A y \in working' : y \in taken' /\ Filtered(y) BY DEF CrossInv
<1>3. /\ delivered' \subseteq delivered \cup {x}
      /\ \A y \in Exchanges : y # x => fate'[y] = fate[y]
  BY DEF Told, FederationInv, AgentInv
<1>4. EgressHolds' BY <1>3 DEF CrossInv, EgressHolds
<1>5. ToldIsRecorded' BY <1>3 DEF CrossInv, ToldIsRecorded
<1> QED BY <1>1, <1>2, <1>4, <1>5 DEF CrossInv

LEMMA IdentityCross ==
  ASSUME FederationInv, CrossInv, NEW l \in Links, NEW o \in Orgs, wire[l][o] # << >>,
         Unread(l, o, "identity"), ReadIdentity(l, o)
  PROVE  CrossInv'
<1> DEFINE m == Head(wire[l][o])
<1>1. m.kind = "identity" /\ m \in Frames BY ReadFacts DEF Unread
<1>2. m.x \in Exchanges BY <1>1, FrameKinds
<1>3. /\ Passed(m, taken)
      /\ \A n : Queued([wire EXCEPT ![l][o] = Tail(@)], n) => Queued(wire, n)
  BY ReadQueued
<1>4. Told(m.x, o) /\ registry' = registry /\ working' = working /\ taken' = taken
      /\ \A n : Queued(wire', n) => Queued(wire, n)
  BY <1>3 DEF ReadIdentity
<1> HIDE DEF m
<1>5. m.x \in taken /\ ~Filtered(m.x) BY <1>1, <1>3 DEF Passed
<1>6. Kind[m.x] # "task" BY <1>5 DEF Filtered
<1> QED BY <1>2, <1>4, <1>5, <1>6, ToldCross

LEMMA ReadRelayedCross ==
  ASSUME FederationInv, CrossInv, NEW l \in Links, NEW o \in Orgs, wire[l][o] # << >>,
         ReadRelayed(l, o)
  PROVE  CrossInv'
<1> DEFINE m == Head(wire[l][o])
           rest == [wire EXCEPT ![l][o] = Tail(@)]
           answer == [kind |-> "identity", x |-> m.x]
<1>1. m \in Frames /\ m.x \in Exchanges BY ReadFacts, FrameKinds DEF ReadRelayed
<1>2. Passed(m, taken) /\ \A n : Queued(rest, n) => Queued(wire, n) BY ReadQueued
<1>3. CASE Refuse /\ wire' = rest
  BY <1>2, <1>3, LinksCross DEF Refuse, history
<1>4. CASE GiveToAgent(m, o) /\ wire' = rest
  <2> HIDE DEF m
  <2>1. m.kind = Question(m.x) /\ ~(Filtered(m.x) /\ m.x \in BlockedThere)
    BY <1>2, <1>4 DEF Passed, GiveToAgent
  <2>2. Filtered(m.x)
    <3>1. Kind[m.x] \in {"task", "request", "who_is"}
      BY <1>1, FederationAssumption DEF FederationAssumption
    <3> QED BY <1>4, <2>1, <3>1 DEF GiveToAgent, Question, Filtered
  <2>3. /\ taken \subseteq taken' /\ taken' \subseteq taken \cup {m.x}
        /\ \A x \in working' : x \in taken' /\ Filtered(x)
    BY <1>4, <2>2 DEF GiveToAgent, CrossInv
  <2>4. \A n \in Frames : Queued(wire', n) => Passed(n, taken')
    BY <1>2, <1>4, <2>3, PassedKept DEF CrossInv
  <2>5. EgressHolds' BY <1>4, <2>1, <2>3 DEF GiveToAgent, CrossInv, EgressHolds
  <2>6. ToldIsRecorded' BY <1>4 DEF GiveToAgent, CrossInv, ToldIsRecorded
  <2> QED BY <2>3, <2>4, <2>5, <2>6 DEF CrossInv
<1>5. CASE GiveBack(m, o) /\ wire' = rest
  <2> HIDE DEF m
  <2>1. /\ m.x \in taken /\ Filtered(m.x) /\ m.x \notin BlockedBack
        /\ Kind[m.x] = "task" => m.kind = "update"
    BY <1>2, <1>5 DEF Passed, GiveBack
  <2>2. /\ Told(m.x, o) /\ working' = working /\ taken' = taken
        /\ registry' = [registry EXCEPT ![m.x] = IF m.kind = "update" THEN "completed" ELSE @]
    BY <1>5 DEF GiveBack
  <2>3. /\ Kind[m.x] = "task" => registry'[m.x] = "completed"
        /\ \A y \in Exchanges : y # m.x => registry'[y] = registry[y]
        /\ registry'[m.x] \in {registry[m.x], "completed"}
    BY <1>1, <2>1, <2>2 DEF FederationInv, AgentInv
  <2>4. \A n : Queued(wire', n) => Queued(wire, n) BY <1>2, <1>5
  <2> QED BY <1>1, <2>1, <2>2, <2>3, <2>4, ToldCross
<1>6. CASE Identify(m) /\ wire' = [Written(l, Other(o), answer) EXCEPT ![l][o] = Tail(@)]
  <2> DEFINE w == Written(l, Other(o), answer)
  <2>1. Other(o) \in Orgs /\ Other(o) # o BY OtherOrg
  <2>2. answer \in Frames BY <1>1 DEF Frames
  <2>3. m.kind = "who_is" /\ ~Filtered(m.x) /\ taken' = taken \cup {m.x}
    <3>1. Kind[m.x] \in {"task", "request", "who_is"}
      BY <1>1, FederationAssumption DEF FederationAssumption
    <3>2. m.kind = "who_is" /\ taken' = taken \cup {m.x} BY <1>6 DEF Identify
    <3> HIDE DEF m
    <3>3. m.kind = Question(m.x) BY <1>2, <3>2 DEF Passed
    <3> QED BY <3>1, <3>2, <3>3 DEF Question, Filtered
  <2>4. w \in Wires /\ \A n : Queued(w, n) => Queued(wire, n) \/ n = answer
    <3> HIDE DEF answer
    <3> QED BY <2>1, <2>2, FederationWires, QueuedWritten
  <2>5. w[l][o] # << >> BY <2>1 DEF Written, FederationInv, WireInv, WireOK
  <2>6. \A n : Queued(wire', n) => Queued(wire, n) \/ n = answer
    <3>1. wire' = [w EXCEPT ![l][o] = Tail(@)] BY <1>6
    <3> HIDE DEF w
    <3> QED BY <2>4, <2>5, <3>1, QueuedTaken
  <2>7. Passed(answer, taken') BY <2>3 DEF Passed
  <2>8. \A n \in Frames : Queued(wire', n) => Passed(n, taken')
    <3> HIDE DEF answer
    <3> QED BY <2>3, <2>6, <2>7, PassedKept DEF CrossInv
  <2>9. /\ working' = working /\ delivered' = delivered
        /\ registry' = registry /\ fate' = fate
    BY <1>6 DEF Identify, agentVars
  <2> HIDE DEF m
  <2>10. EgressHolds' BY <2>3, <2>9 DEF CrossInv, EgressHolds
  <2>11. ToldIsRecorded' BY <2>9 DEF CrossInv, ToldIsRecorded
  <2> QED BY <2>3, <2>8, <2>9, <2>10, <2>11 DEF CrossInv
<1> QED BY <1>3, <1>4, <1>5, <1>6 DEF ReadRelayed

LEMMA ReadCross ==
  ASSUME FederationInv, CrossInv, NEW l \in Links, NEW o \in Orgs, Read(l, o)
  PROVE  CrossInv'
<1>1. wire[l][o] # << >> BY DEF Read
<1>2. CASE Accept(l, o) BY <1>1, <1>2, AcceptCross
<1>3. CASE Joined(l, o) BY <1>1, <1>3, JoinedCross
<1>4. CASE Unread(l, o, "identity") /\ ReadIdentity(l, o) BY <1>1, <1>4, IdentityCross
<1>5. CASE ReadRelayed(l, o) BY <1>1, <1>5, ReadRelayedCross
<1> QED BY <1>2, <1>3, <1>4, <1>5 DEF Read

(* What a hub relays is what it was given, unless egress refuses it.       *)
LEMMA RelayedQueued ==
  ASSUME FederationInv, NEW k \in Kinds, NEW x \in Exchanges, NEW o \in Orgs, NEW b
  PROVE  \A n : Queued(Relayed(k, x, o, b), n) =>
                  Queued(wire, n) \/ (~b /\ n = Relay(k, x, o))
<1>1. CASE peered[o] = NoLink \/ b BY <1>1 DEF Relayed
<1>2. CASE ~(peered[o] = NoLink \/ b)
  <2>1. peered[o] \in Links /\ Other(o) \in Orgs
    BY <1>2, OtherOrg, FederationAssumption
    DEF FederationInv, LinkInv, NoLink, Links, FederationAssumption
  <2>2. Relay(k, x, o) \in Frames BY DEF Frames
  <2>3. \A n : Queued(Written(peered[o], Other(o), Relay(k, x, o)), n)
                => Queued(wire, n) \/ n = Relay(k, x, o)
    BY <2>1, <2>2, FederationWires, QueuedWritten
  <2> QED BY <1>2, <2>3 DEF Relayed
<1> QED BY <1>1, <1>2

LEMMA AskCross ==
  ASSUME FederationInv, CrossInv, NEW x \in Exchanges, Ask(x)
  PROVE  CrossInv'
<1> DEFINE b == Kind[x] # "who_is" /\ x \in BlockedThere
           m == Relay(Question(x), x, From[x])
<1>1. Kind[x] \in {"task", "request", "who_is"} /\ From[x] \in Orgs
  BY FederationAssumption DEF FederationAssumption
<1>2. Question(x) \in {"assign", "request", "who_is"} /\ Question(x) \in Kinds
  BY <1>1 DEF Question, Kinds
<1>3. m.kind = Question(x) /\ m.x = x BY FrameKinds
<1>4. wire' = Relayed(Question(x), x, From[x], b) BY DEF Ask
<1>5. \A n : Queued(wire', n) => Queued(wire, n) \/ (~b /\ n = m)
  <2> HIDE DEF b
  <2> QED BY <1>1, <1>2, <1>4, RelayedQueued
<1>6. ~b => Passed(m, taken)
  <2> HIDE DEF m
  <2> QED BY <1>2, <1>3 DEF Passed, Filtered
<1>7. /\ taken' = taken /\ delivered' = delivered /\ working' = working
      /\ \A y \in Exchanges : fate'[y] = "told" => fate[y] = "told" /\ y # x
      /\ \A y \in Exchanges : y # x => registry'[y] = registry[y]
      /\ registry'[x] \in {registry[x], "pending"}
  BY DEF Ask, FederationInv, AgentInv
<1> HIDE DEF m, b
<1>8. \A n \in Frames : Queued(wire', n) => Passed(n, taken')
  BY <1>5, <1>6, <1>7 DEF CrossInv
<1>9. EgressHolds' BY <1>7 DEF CrossInv, EgressHolds
<1>10. ToldIsRecorded' BY <1>7 DEF CrossInv, ToldIsRecorded
<1> QED BY <1>7, <1>8, <1>9, <1>10 DEF CrossInv

LEMMA AnswerCross ==
  ASSUME FederationInv, CrossInv, NEW x \in Exchanges, Answer(x)
  PROVE  CrossInv'
<1> DEFINE k == IF Kind[x] = "task" THEN "update" ELSE "response"
           m == Relay(k, x, To(x))
           b == x \in BlockedBack
<1>1. To(x) \in Orgs BY OtherOrg, FederationAssumption DEF FederationAssumption, To
<1>2. k \in {"update", "response"} /\ k \in Kinds /\ (Kind[x] = "task" => k = "update")
  BY DEF Kinds
<1>3. m.kind = k /\ m.x = x BY FrameKinds
<1>4. x \in taken /\ Filtered(x) BY DEF Answer, CrossInv
<1>5. wire' = Relayed(k, x, To(x), b) BY DEF Answer
<1>6. \A n : Queued(wire', n) => Queued(wire, n) \/ (~b /\ n = m)
  <2> HIDE DEF b, k
  <2> QED BY <1>1, <1>2, <1>5, RelayedQueued
<1>7. ~b => Passed(m, taken)
  <2> HIDE DEF m, k
  <2> QED BY <1>2, <1>3, <1>4 DEF Passed
<1>8. /\ taken' = taken /\ delivered' = delivered /\ working' \subseteq working
      /\ fate' = fate /\ registry' = registry
  BY DEF Answer
<1> HIDE DEF m, b, k
<1>9. \A n \in Frames : Queued(wire', n) => Passed(n, taken')
  BY <1>6, <1>7, <1>8 DEF CrossInv
<1>10. EgressHolds' BY <1>8 DEF CrossInv, EgressHolds
<1>11. ToldIsRecorded' BY <1>8 DEF CrossInv, ToldIsRecorded
<1> QED BY <1>8, <1>9, <1>10, <1>11 DEF CrossInv

LEMMA CrossStep == FederationInv /\ CrossInv /\ [Next]_vars => CrossInv'
<1> SUFFICES ASSUME FederationInv, CrossInv, [Next]_vars PROVE CrossInv' OBVIOUS
<1>1. ASSUME NEW o \in Orgs, Dial(o) PROVE CrossInv' BY <1>1, DialCross
<1>2. ASSUME NEW o \in Orgs, Leave(o) PROVE CrossInv'
  <2>1. /\ wire' = wire /\ taken' = taken /\ delivered' = delivered
        /\ registry' = registry /\ working' \subseteq working
        /\ \A x \in Exchanges : fate'[x] = "told" => fate[x] = "told"
    BY <1>2 DEF Leave, history
  <2>2. EgressHolds' BY <2>1 DEF CrossInv, EgressHolds
  <2>3. ToldIsRecorded' BY <2>1 DEF CrossInv, ToldIsRecorded
  <2> QED BY <2>1, <2>2, <2>3 DEF CrossInv
<1>3. ASSUME NEW o \in Orgs, Return(o) PROVE CrossInv'
  BY <1>3 DEF Return, history, CrossInv, EgressHolds, ToldIsRecorded
<1>4. ASSUME NEW l \in Links, Drop(l) PROVE CrossInv' BY <1>4, DropCross
<1>5. ASSUME NEW l \in Links, NEW o \in Orgs, Read(l, o) PROVE CrossInv' BY <1>5, ReadCross
<1>6. ASSUME NEW l \in Links, NEW o \in Orgs, End(l, o) PROVE CrossInv'
  BY <1>6, LinksCross DEF End, history
<1>7. ASSUME NEW x \in Exchanges, GiveUp(x) PROVE CrossInv'
  <2>1. /\ wire' = wire /\ taken' = taken /\ delivered' = delivered
        /\ registry' = registry /\ working' = working
        /\ \A y \in Exchanges : fate'[y] = "told" => fate[y] = "told"
    BY <1>7 DEF GiveUp, history, FederationInv, AgentInv
  <2>2. EgressHolds' BY <2>1 DEF CrossInv, EgressHolds
  <2>3. ToldIsRecorded' BY <2>1 DEF CrossInv, ToldIsRecorded
  <2> QED BY <2>1, <2>2, <2>3 DEF CrossInv
<1>8. ASSUME NEW x \in Exchanges, Ask(x) PROVE CrossInv' BY <1>8, AskCross
<1>9. ASSUME NEW x \in Exchanges, Answer(x) PROVE CrossInv' BY <1>9, AnswerCross
<1>10. CASE UNCHANGED vars BY <1>10, LinksCross DEF vars, history
<1> QED BY <1>1, <1>2, <1>3, <1>4, <1>5, <1>6, <1>7, <1>8, <1>9, <1>10 DEF Next

(* EgressHolds of Federation (README.md:250, hub.py:509-541): what the     *)
(* egress policy of a hub refuses reaches nobody of the other              *)
(* organisation, and no result comes back of what did not cross or may not *)
(* come back, for any number of links, losses, departures and exchanges.   *)
THEOREM EgressIsRespected == Spec => []EgressHolds
<1>1. CrossInv => EgressHolds BY DEF CrossInv
<1> QED BY <1>1, FederationInit, FederationStep, CrossInit, CrossStep, PTL DEF Spec

(* ToldIsRecorded of Federation (process_relayed, hub.py:657-671): an      *)
(* orchestrator that is told the end of a task finds it in the registry,   *)
(* whichever link it asked through and was answered through.               *)
THEOREM WhatIsToldIsRecorded == Spec => []ToldIsRecorded
<1>1. CrossInv => ToldIsRecorded BY DEF CrossInv
<1> QED BY <1>1, FederationInit, FederationStep, CrossInit, CrossStep, PTL DEF Spec
=============================================================================
