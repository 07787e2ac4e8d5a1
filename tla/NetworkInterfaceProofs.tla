------------------------ MODULE NetworkInterfaceProofs ------------------------
(***************************************************************************)
(* What the ARP machinery of NetworkInterface promises, for every number   *)
(* of addresses and datagrams, every pair of timeouts and every tick.      *)
(***************************************************************************)
EXTENDS NetworkInterface, InductionLemmas, SequenceTheorems

------------------------------------------------------------------------------
(* The time queues. *)

\* The loop of tick stops: some number of nodes is what it takes off.
LEMMA ExpiredPrefix ==
    ASSUME NEW queue, Len(queue) \in Nat, NEW now, NEW wait
    PROVE  LET k == ExpiredCount(queue, now, wait)
           IN  /\ k \in 0..Len(queue)
               /\ \A i \in 1..k : Expired(queue[i], now, wait)
               /\ k < Len(queue) => ~Expired(queue[k + 1], now, wait)
  <1> DEFINE Stops == {k \in 0..Len(queue) :
                         k < Len(queue) => ~Expired(queue[k + 1], now, wait)}
  <1>1. Len(queue) \in Stops
    OBVIOUS
  <1>2. PICK k \in Stops : \A other \in Stops : k <= other
    <2>1. Stops \in SUBSET Nat
      OBVIOUS
    <2> HIDE DEF Stops
    <2> QED BY <1>1, <2>1, LeastNatural
  <1>3. \A i \in 1..k : Expired(queue[i], now, wait)
    <2> SUFFICES ASSUME NEW i \in 1..k, ~Expired(queue[i], now, wait) PROVE FALSE
      OBVIOUS
    <2>1. i - 1 \in Stops /\ k \in Nat
      BY <1>2
    <2>2. k <= i - 1
      BY <1>2, <2>1
    <2> QED BY <2>1, <2>2
  <1>4. \E j \in 0..Len(queue) :
            /\ \A i \in 1..j : Expired(queue[i], now, wait)
            /\ j < Len(queue) => ~Expired(queue[j + 1], now, wait)
    BY <1>2, <1>3
  <1> HIDE DEF Stops
  <1> QED BY <1>4 DEF ExpiredCount

\* A queue in order whose nodes are neither from the future nor too old.
Timely(queue, now, wait) ==
    /\ Sorted(queue)
    /\ \A i \in DOMAIN queue : queue[i].timestamp <= now /\ now < queue[i].timestamp + wait

\* What tick leaves of a queue: its nodes behind the first k.
LEMMA RestOfQueue ==
    ASSUME NEW Q, NEW queue \in Seq(Q), NEW k \in 0..Len(queue)
    PROVE  LET rest == SubSeq(queue, k + 1, Len(queue))
           IN  /\ rest \in Seq(Q) /\ DOMAIN rest = 1..Len(queue) - k
               /\ \A i \in 1..Len(queue) - k : rest[i] = queue[i + k]
  OBVIOUS

\* A node that is put at the end is the youngest.
LEMMA TimelyAppend ==
    ASSUME NEW Q, NEW queue \in Seq(Q), NEW now \in Nat, NEW wait \in Nat \ {0},
           \A node \in Q : node.timestamp \in Nat,
           Timely(queue, now, wait), NEW node \in Q, node.timestamp = now
    PROVE  Timely(Append(queue, node), now, wait)
  <1>1. /\ DOMAIN Append(queue, node) = 1..Len(queue) + 1
        /\ \A i \in 1..Len(queue) : Append(queue, node)[i] = queue[i]
        /\ Append(queue, node)[Len(queue) + 1] = node
        /\ DOMAIN queue = 1..Len(queue) /\ Len(queue) \in Nat
        /\ \A i \in 1..Len(queue) : queue[i].timestamp \in Nat
    OBVIOUS
  <1> QED BY <1>1 DEF Timely, Sorted

\* Since the queue is in order, looking at its front is enough.
LEMMA TimelyRest ==
    ASSUME NEW Q, NEW queue \in Seq(Q), NEW now \in Nat, NEW ms \in Nat, NEW wait \in Nat,
           \A node \in Q : node.timestamp \in Nat,
           Timely(queue, now, wait)
    PROVE  LET k == ExpiredCount(queue, now + ms, wait)
           IN  Timely(SubSeq(queue, k + 1, Len(queue)), now + ms, wait)
  <1> DEFINE k == ExpiredCount(queue, now + ms, wait)
             rest == SubSeq(queue, k + 1, Len(queue))
  <1>1. k \in 0..Len(queue) /\ (k < Len(queue) => ~Expired(queue[k + 1], now + ms, wait))
    BY ExpiredPrefix
  <1> HIDE DEF k
  <1>2. /\ DOMAIN rest = 1..Len(queue) - k
        /\ \A i \in 1..Len(queue) - k : rest[i] = queue[i + k]
    BY <1>1, RestOfQueue
  <1> HIDE DEF rest
  <1>3. DOMAIN queue = 1..Len(queue) /\ Len(queue) \in Nat
        /\ \A i \in 1..Len(queue) : queue[i].timestamp \in Nat
    OBVIOUS
  <1>4. ASSUME NEW i \in 1..Len(queue) - k
        PROVE  /\ i + k \in 1..Len(queue) /\ k + 1 \in 1..Len(queue) /\ k + 1 <= i + k
               /\ rest[i].timestamp = queue[i + k].timestamp
    BY <1>1, <1>2, <1>3
  <1>5. \A i \in 1..Len(queue) - k : now + ms < rest[i].timestamp + wait
    <2> TAKE i \in 1..Len(queue) - k
    <2>1. now + ms < queue[k + 1].timestamp + wait
      BY <1>1, <1>3, <1>4, SMTT(60) DEF Expired
    <2>2. queue[k + 1].timestamp <= queue[i + k].timestamp
      BY <1>3, <1>4 DEF Timely, Sorted
    <2> QED BY <1>3, <1>4, <2>1, <2>2, SMTT(60)
  <1>6. \A i \in 1..Len(queue) - k : rest[i].timestamp <= now + ms
    <2> TAKE i \in 1..Len(queue) - k
    <2>1. queue[i + k].timestamp <= now
      BY <1>3, <1>4 DEF Timely
    <2> QED BY <1>3, <1>4, <2>1
  <1>7. Sorted(rest)
    <2> SUFFICES ASSUME NEW i \in 1..Len(queue) - k, NEW j \in 1..Len(queue) - k, i <= j
                 PROVE  rest[i].timestamp <= rest[j].timestamp
      BY <1>2 DEF Sorted
    <2>1. i + k <= j + k
      BY <1>1
    <2>2. queue[i + k].timestamp <= queue[j + k].timestamp
      BY <1>3, <1>4, <2>1 DEF Timely, Sorted
    <2> QED BY <1>4, <2>2
  <1>8. Timely(rest, now + ms, wait)
    BY <1>2, <1>5, <1>6, <1>7 DEF Timely
  <1> QED BY <1>8 DEF k, rest

\* A node for an address that has none is put in the queue and pointed at.
LEMMA MatchesAppend ==
    ASSUME NEW Q, NoNode \notin Q, NEW queue \in Seq(Q), NEW node \in Q,
           NEW pointer, NEW after, Matches(queue, pointer), pointer[node.ipv4] = NoNode,
           \A ip \in IP : after[ip] = IF ip = node.ipv4 THEN node ELSE pointer[ip],
           node.ipv4 \in IP
    PROVE  Matches(Append(queue, node), after)
  <1> DEFINE longer == Append(queue, node)
  <1>1. /\ DOMAIN longer = 1..Len(queue) + 1 /\ DOMAIN queue = 1..Len(queue) /\ Len(queue) \in Nat
        /\ \A i \in 1..Len(queue) : longer[i] = queue[i] /\ queue[i] \in Q
        /\ longer[Len(queue) + 1] = node
    OBVIOUS
  <1> HIDE DEF longer
  <1>2. \A i \in 1..Len(queue) : queue[i].ipv4 # node.ipv4
    BY <1>1 DEF Matches
  <1>3. \A i, j \in DOMAIN longer : i # j => longer[i].ipv4 # longer[j].ipv4
    BY <1>1, <1>2 DEF Matches
  <1>4. ASSUME NEW ip \in IP
        PROVE  \/ after[ip] = NoNode /\ \A i \in DOMAIN longer : longer[i].ipv4 # ip
               \/ \E i \in DOMAIN longer : longer[i] = after[ip] /\ longer[i].ipv4 = ip
    <2>1. CASE ip = node.ipv4
      BY <1>1, <2>1
    <2>2. CASE ip # node.ipv4 /\ pointer[ip] = NoNode /\ \A i \in DOMAIN queue : queue[i].ipv4 # ip
      BY <1>1, <2>2
    <2>3. ASSUME ip # node.ipv4, NEW i \in DOMAIN queue, queue[i] = pointer[ip], queue[i].ipv4 = ip
          PROVE  \E j \in DOMAIN longer : longer[j] = after[ip] /\ longer[j].ipv4 = ip
      BY <1>1, <2>3
    <2> QED BY <2>1, <2>2, <2>3 DEF Matches
  <1>5. Matches(longer, after)
    BY <1>3, <1>4 DEF Matches
  <1> QED BY <1>5 DEF longer

\* The pointers to the nodes that are taken off the queue are cleared, and
\* no other.
LEMMA MatchesRest ==
    ASSUME NEW Q, NEW queue \in Seq(Q), NEW k \in 0..Len(queue),
           NEW pointer, NEW after, Matches(queue, pointer),
           \A ip \in IP : after[ip] = IF ip \in Addresses(queue, k) THEN NoNode ELSE pointer[ip],
           NEW rest, rest = SubSeq(queue, k + 1, Len(queue))
    PROVE  Matches(rest, after)
  <1>1. /\ DOMAIN rest = 1..Len(queue) - k /\ DOMAIN queue = 1..Len(queue) /\ Len(queue) \in Nat
        /\ \A i \in 1..Len(queue) - k : rest[i] = queue[i + k] /\ i + k \in DOMAIN queue
        /\ k \in Nat
    BY RestOfQueue
  <1>2. \A i, j \in DOMAIN rest : i # j => rest[i].ipv4 # rest[j].ipv4
    <2> SUFFICES ASSUME NEW i \in DOMAIN rest, NEW j \in DOMAIN rest, i # j
                 PROVE  rest[i].ipv4 # rest[j].ipv4
      OBVIOUS
    <2>1. i + k # j + k /\ i + k \in DOMAIN queue /\ j + k \in DOMAIN queue
      BY <1>1
    <2>2. queue[i + k].ipv4 # queue[j + k].ipv4
      BY <2>1 DEF Matches
    <2> QED BY <1>1, <2>2
  <1>3. ASSUME NEW ip \in IP
        PROVE  \/ after[ip] = NoNode /\ \A i \in DOMAIN rest : rest[i].ipv4 # ip
               \/ \E i \in DOMAIN rest : rest[i] = after[ip] /\ rest[i].ipv4 = ip
    <2>1. CASE pointer[ip] = NoNode /\ \A i \in DOMAIN queue : queue[i].ipv4 # ip
      BY <1>1, <2>1
    <2>2. ASSUME NEW i \in DOMAIN queue, queue[i] = pointer[ip], queue[i].ipv4 = ip, i <= k
          PROVE  after[ip] = NoNode /\ \A j \in DOMAIN rest : rest[j].ipv4 # ip
      <3>1. ip \in Addresses(queue, k)
        BY <1>1, <2>2 DEF Addresses
      <3>2. \A j \in DOMAIN rest : j + k # i /\ j + k \in DOMAIN queue /\ rest[j] = queue[j + k]
        BY <1>1, <2>2
      <3>3. \A j \in DOMAIN rest : rest[j].ipv4 # ip
        BY <2>2, <3>2 DEF Matches
      <3> QED BY <3>1, <3>3
    <2>3. ASSUME NEW i \in DOMAIN queue, queue[i] = pointer[ip], queue[i].ipv4 = ip, i > k
          PROVE  \E j \in DOMAIN rest : rest[j] = after[ip] /\ rest[j].ipv4 = ip
      <3>1. ip \notin Addresses(queue, k)
        <4> SUFFICES ASSUME NEW j \in 1..k, queue[j].ipv4 = ip PROVE FALSE
          BY DEF Addresses
        <4>1. j \in DOMAIN queue /\ j # i
          BY <1>1, <2>3
        <4> QED BY <2>3, <4>1 DEF Matches
      <3>2. i - k \in DOMAIN rest /\ rest[i - k] = queue[i]
        <4>1. i - k \in 1..Len(queue) - k /\ (i - k) + k = i
          BY <1>1, <2>3
        <4> QED BY <1>1, <4>1
      <3> QED BY <2>3, <3>1, <3>2
    <2> QED BY <1>1, <2>1, <2>2, <2>3 DEF Matches
  <1> QED BY <1>2, <1>3 DEF Matches

------------------------------------------------------------------------------
(* What the operations make of an interface, field by field. *)

\* Datagrams of before are still datagrams when one more has been handed over.
LEMMA InterfaceGrows ==
    ASSUME NEW c \in Nat PROVE Interface(c) \subseteq Interface(c + 1)
  <1>1. Datagram(c) \subseteq Datagram(c + 1)
    BY DEF Datagram
  <1>2. DatagramFrame(c) \subseteq DatagramFrame(c + 1)
    BY <1>1 DEF DatagramFrame
  <1>3. Seq(Datagram(c)) \subseteq Seq(Datagram(c + 1))
    BY <1>1
  <1>4. Seq(DatagramFrame(c) \union ARPFrame) \subseteq Seq(DatagramFrame(c + 1) \union ARPFrame)
    <2>1. DatagramFrame(c) \union ARPFrame \subseteq DatagramFrame(c + 1) \union ARPFrame
      BY <1>2
    <2> QED BY <2>1
  <1>5. Entry(c) \subseteq Entry(c + 1)
    BY <1>3 DEF Entry
  <1>6. [IP -> Entry(c)] \subseteq [IP -> Entry(c + 1)]
    BY <1>5
  <1> QED BY <1>4, <1>6 DEF Interface

\* A frame is put at the end, and nothing else changes.
FrameAdded(m, r, frame) ==
    /\ r.frames = Append(m.frames, frame)
    /\ r.mappings = m.mappings /\ r.requests = m.requests
    /\ r.arp_table = m.arp_table /\ r.timestamp = m.timestamp

\* Appending to the frames is such a step.
LEMMA FrameFields ==
    ASSUME NEW c \in Nat, NEW m \in Interface(c), NEW frame \in DatagramFrame(c) \union ARPFrame
    PROVE  LET r == [m EXCEPT !.frames = Append(@, frame)]
           IN  r \in Interface(c) /\ FrameAdded(m, r, frame)
  <1>1. Append(m.frames, frame) \in Seq(DatagramFrame(c) \union ARPFrame)
    BY DEF Interface
  <1> QED BY <1>1 DEF Interface, FrameAdded

\* What Ask makes of m: a request and its node are queued, and d waits.
Asked(m, r, d, hop) ==
    LET node == [ipv4 |-> hop, timestamp |-> m.timestamp]
    IN  /\ node \in RequestNode /\ r.frames = Append(m.frames, RequestFrame(m, hop))
        /\ r.mappings = m.mappings /\ r.requests = Append(m.requests, node)
        /\ r.timestamp = m.timestamp
        /\ \A ip \in IP :
              /\ r.arp_table[ip].mapping = m.arp_table[ip].mapping
              /\ r.arp_table[ip].request = IF ip = hop THEN node ELSE m.arp_table[ip].request
              /\ r.arp_table[ip].pending = IF ip = hop THEN Append(m.arp_table[ip].pending, d)
                                                       ELSE m.arp_table[ip].pending

\* It does so whatever was queued and waiting before.
LEMMA AskFields ==
    ASSUME NEW c \in Nat, NEW m \in Interface(c), NEW d \in Datagram(c), NEW hop \in Hop
    PROVE  Ask(m, d, hop) \in Interface(c) /\ Asked(m, Ask(m, d, hop), d, hop)
  <1> DEFINE node == [ipv4 |-> hop, timestamp |-> m.timestamp]
             entry == [m.arp_table[hop] EXCEPT !.request = node, !.pending = Append(@, d)]
             table == [m.arp_table EXCEPT ![hop] = entry]
             frames == Append(m.frames, RequestFrame(m, hop))
  <1>1. hop \in IP /\ m.timestamp \in Nat /\ m.arp_table \in [IP -> Entry(c)]
        /\ m.frames \in Seq(DatagramFrame(c) \union ARPFrame) /\ m.requests \in Seq(RequestNode)
        /\ m.ethernet_address = MyEth /\ m.ipv4 = MyIP
    BY HostsAssumption DEF Interface
  <1>2. node \in RequestNode
    BY <1>1 DEF RequestNode
  <1>3. RequestFrame(m, hop) \in ARPFrame
    BY <1>1 DEF RequestFrame, ARPFrame
  <1>4. entry \in Entry(c)
    <2>1. m.arp_table[hop] \in Entry(c)
      BY <1>1
    <2>2. Append(m.arp_table[hop].pending, d) \in Seq(Datagram(c))
      BY <2>1 DEF Entry
    <2> HIDE DEF node
    <2> QED BY <1>2, <2>1, <2>2 DEF Entry
  <1>5. Ask(m, d, hop) = [m EXCEPT !.frames = frames, !.requests = Append(@, node),
                                   !.arp_table = table]
    BY <1>1, ZenonT(60) DEF Ask, Interface, Entry
  <1>6. frames \in Seq(DatagramFrame(c) \union ARPFrame) /\ table \in [IP -> Entry(c)]
        /\ Append(m.requests, node) \in Seq(RequestNode)
    BY <1>1, <1>2, <1>3, <1>4
  <1>7. \A ip \in IP :
           /\ table[ip].mapping = m.arp_table[ip].mapping
           /\ table[ip].request = IF ip = hop THEN node ELSE m.arp_table[ip].request
           /\ table[ip].pending = IF ip = hop THEN Append(m.arp_table[ip].pending, d)
                                              ELSE m.arp_table[ip].pending
    BY <1>1 DEF Entry
  <1> HIDE DEF node, table, frames, entry
  <1>8. /\ Ask(m, d, hop) \in Interface(c)
        /\ Ask(m, d, hop).frames = frames /\ Ask(m, d, hop).mappings = m.mappings
        /\ Ask(m, d, hop).requests = Append(m.requests, node)
        /\ Ask(m, d, hop).timestamp = m.timestamp /\ Ask(m, d, hop).arp_table = table
    BY <1>5, <1>6 DEF Interface
  <1> QED BY <1>2, <1>7, <1>8 DEF node, frames, Asked

\* The frames that Learn makes of the datagrams that waited.
FramesFor(m, eth, pending) == [i \in 1..Len(pending) |-> IPv4Frame(m, eth, pending[i])]

\* What Learn makes of m: a node is queued, and what waited for it is sent.
Learnt(m, r, hop, eth) ==
    LET node == [ipv4 |-> hop, eth_addr |-> eth, timestamp |-> m.timestamp]
    IN  /\ node \in MappingNode
        /\ r.frames = m.frames \o FramesFor(m, eth, m.arp_table[hop].pending)
        /\ r.mappings = Append(m.mappings, node) /\ r.requests = m.requests
        /\ r.timestamp = m.timestamp
        /\ \A ip \in IP :
              /\ r.arp_table[ip].mapping = IF ip = hop THEN node ELSE m.arp_table[ip].mapping
              /\ r.arp_table[ip].request = m.arp_table[ip].request
              /\ r.arp_table[ip].pending = IF ip = hop THEN <<>> ELSE m.arp_table[ip].pending

\* The datagrams that waited are those the entry held.
LEMMA LearnFields ==
    ASSUME NEW c \in Nat, NEW m \in Interface(c), NEW hop \in Hop, NEW eth \in Eth
    PROVE  /\ Learn(m, hop, eth) \in Interface(c)
           /\ FramesFor(m, eth, m.arp_table[hop].pending) \in Seq(DatagramFrame(c))
           /\ Learnt(m, Learn(m, hop, eth), hop, eth)
  <1> DEFINE node == [ipv4 |-> hop, eth_addr |-> eth, timestamp |-> m.timestamp]
             pending == m.arp_table[hop].pending
             sent == FramesFor(m, eth, pending)
             entry == [m.arp_table[hop] EXCEPT !.mapping = node, !.pending = <<>>]
             table == [m.arp_table EXCEPT ![hop] = entry]
  <1>1. hop \in IP /\ m.timestamp \in Nat /\ m.arp_table \in [IP -> Entry(c)]
        /\ m.frames \in Seq(DatagramFrame(c) \union ARPFrame) /\ m.mappings \in Seq(MappingNode)
        /\ m.ethernet_address = MyEth /\ m.ipv4 = MyIP
    BY HostsAssumption DEF Interface
  <1>2. node \in MappingNode
    BY <1>1 DEF MappingNode
  <1>3. m.arp_table[hop] \in Entry(c) /\ pending \in Seq(Datagram(c))
    BY <1>1 DEF Entry
  <1>4. sent \in Seq(DatagramFrame(c))
    <2>1. \A i \in 1..Len(pending) : IPv4Frame(m, eth, pending[i]) \in DatagramFrame(c)
      <3> HIDE DEF pending
      <3>1. \A i \in 1..Len(pending) : pending[i] \in Datagram(c)
        BY <1>3
      <3> QED BY <1>1, <3>1 DEF IPv4Frame, DatagramFrame
    <2>2. Len(pending) \in Nat
      BY <1>3
    <2> HIDE DEF pending
    <2> QED BY <2>1, <2>2 DEF FramesFor
  <1>5. entry \in Entry(c)
    <2>1. <<>> \in Seq(Datagram(c))
      OBVIOUS
    <2> HIDE DEF node
    <2> QED BY <1>2, <1>3, <2>1 DEF Entry
  <1>6. Learn(m, hop, eth) = [m EXCEPT !.frames = m.frames \o sent, !.mappings = Append(@, node),
                                       !.arp_table = table]
    BY <1>1, ZenonT(60) DEF Learn, FramesFor, Interface, Entry
  <1>7. m.frames \o sent \in Seq(DatagramFrame(c) \union ARPFrame) /\ table \in [IP -> Entry(c)]
        /\ Append(m.mappings, node) \in Seq(MappingNode)
    <2>1. sent \in Seq(DatagramFrame(c) \union ARPFrame)
      <3> HIDE DEF sent
      <3> QED BY <1>4
    <2> HIDE DEF sent, entry, node
    <2> QED BY <1>1, <1>2, <1>5, <2>1
  <1>8. \A ip \in IP :
           /\ table[ip].mapping = IF ip = hop THEN node ELSE m.arp_table[ip].mapping
           /\ table[ip].request = m.arp_table[ip].request
           /\ table[ip].pending = IF ip = hop THEN <<>> ELSE m.arp_table[ip].pending
    BY <1>1 DEF Entry
  <1> HIDE DEF node, table, sent, entry
  <1>9. /\ Learn(m, hop, eth) \in Interface(c)
        /\ Learn(m, hop, eth).frames = m.frames \o sent
        /\ Learn(m, hop, eth).mappings = Append(m.mappings, node)
        /\ Learn(m, hop, eth).requests = m.requests
        /\ Learn(m, hop, eth).timestamp = m.timestamp /\ Learn(m, hop, eth).arp_table = table
    BY <1>6, <1>7 DEF Interface
  <1> QED BY <1>2, <1>4, <1>8, <1>9 DEF node, sent, pending, Learnt

\* What tick makes of m: the old nodes are taken off both queues, and the
\* pointers to them are cleared.
Ticked(m, r, ms) ==
    LET now == m.timestamp + ms
        k == ExpiredCount(m.mappings, now, ArpTableEntryTimeoutMs)
        q == ExpiredCount(m.requests, now, ArpRequestWaitingMs)
    IN  /\ k \in 0..Len(m.mappings) /\ q \in 0..Len(m.requests)
        /\ r.frames = m.frames /\ r.timestamp = now
        /\ r.mappings = SubSeq(m.mappings, k + 1, Len(m.mappings))
        /\ r.requests = SubSeq(m.requests, q + 1, Len(m.requests))
        /\ \A ip \in IP :
              /\ r.arp_table[ip].mapping = IF ip \in Addresses(m.mappings, k) THEN NoNode
                                           ELSE m.arp_table[ip].mapping
              /\ r.arp_table[ip].request = IF ip \in Addresses(m.requests, q) THEN NoNode
                                           ELSE m.arp_table[ip].request
              /\ r.arp_table[ip].pending = m.arp_table[ip].pending

\* It does so whatever the queues hold, sorted or not.
LEMMA TickFields ==
    ASSUME NEW c \in Nat, NEW m \in Interface(c), NEW ms \in Nat
    PROVE  tick(m, ms) \in Interface(c) /\ Ticked(m, tick(m, ms), ms)
  <1> DEFINE now == m.timestamp + ms
             k == ExpiredCount(m.mappings, now, ArpTableEntryTimeoutMs)
             q == ExpiredCount(m.requests, now, ArpRequestWaitingMs)
             table == [ip \in IP |-> Forget(m.arp_table[ip], ip, Addresses(m.mappings, k),
                                            Addresses(m.requests, q))]
  <1>1. m.timestamp \in Nat /\ m.arp_table \in [IP -> Entry(c)]
        /\ m.mappings \in Seq(MappingNode) /\ m.requests \in Seq(RequestNode)
    BY DEF Interface
  <1>2. k \in 0..Len(m.mappings) /\ q \in 0..Len(m.requests)
    <2>1. Len(m.mappings) \in Nat /\ Len(m.requests) \in Nat
      BY <1>1
    <2> QED BY <2>1, ExpiredPrefix
  <1>3. tick(m, ms) = [m EXCEPT !.timestamp = now,
                                !.mappings = SubSeq(@, k + 1, Len(@)),
                                !.requests = SubSeq(@, q + 1, Len(@)),
                                !.arp_table = table]
    BY DEF tick, Interface
  <1> HIDE DEF k, q
  <1>4. table \in [IP -> Entry(c)]
    <2>1. \A ip \in IP : m.arp_table[ip] \in Entry(c)
      BY <1>1
    <2>2. \A ip \in IP : Forget(m.arp_table[ip], ip, Addresses(m.mappings, k),
                                Addresses(m.requests, q)) \in Entry(c)
      BY <2>1 DEF Forget, Entry
    <2> QED BY <2>2
  <1>5. \A ip \in IP :
           /\ table[ip].mapping = IF ip \in Addresses(m.mappings, k) THEN NoNode
                                  ELSE m.arp_table[ip].mapping
           /\ table[ip].request = IF ip \in Addresses(m.requests, q) THEN NoNode
                                  ELSE m.arp_table[ip].request
           /\ table[ip].pending = m.arp_table[ip].pending
    BY <1>1 DEF Forget, Entry
  <1>6. SubSeq(m.mappings, k + 1, Len(m.mappings)) \in Seq(MappingNode)
        /\ SubSeq(m.requests, q + 1, Len(m.requests)) \in Seq(RequestNode)
    BY <1>1, <1>2, RestOfQueue
  <1>7. now \in Nat
    BY <1>1
  <1> HIDE DEF table, now
  <1>8. /\ tick(m, ms) \in Interface(c)
        /\ tick(m, ms).frames = m.frames /\ tick(m, ms).timestamp = now
        /\ tick(m, ms).mappings = SubSeq(m.mappings, k + 1, Len(m.mappings))
        /\ tick(m, ms).requests = SubSeq(m.requests, q + 1, Len(m.requests))
        /\ tick(m, ms).arp_table = table
    BY <1>3, <1>4, <1>6, <1>7 DEF Interface
  <1> QED BY <1>2, <1>5, <1>8 DEF k, q, now, Ticked

\* What maybe_send makes of m: the first frame is taken away.
FrameTaken(m, r) ==
    /\ r.frames = Tail(m.frames)
    /\ r.mappings = m.mappings /\ r.requests = m.requests
    /\ r.arp_table = m.arp_table /\ r.timestamp = m.timestamp

\* It is only called when there is one.
LEMMA MaybeSendFields ==
    ASSUME NEW c \in Nat, NEW m \in Interface(c), m.frames # <<>>
    PROVE  maybe_send(m) \in Interface(c) /\ FrameTaken(m, maybe_send(m))
  <1>1. Tail(m.frames) \in Seq(DatagramFrame(c) \union ARPFrame)
    BY DEF Interface
  <1> QED BY <1>1 DEF maybe_send, Interface, FrameTaken

\* longer is frames with more behind it.
Extends(longer, frames, more) ==
    /\ Len(longer) = Len(frames) + Len(more)
    /\ \A i \in 1..Len(frames) : longer[i] = frames[i]
    /\ \A i \in 1..Len(more) : longer[Len(frames) + i] = more[i]

\* Concatenation extends, and appending to what is behind extends further.
LEMMA ExtendsFacts ==
    ASSUME NEW S, NEW frames \in Seq(S), NEW more \in Seq(S), NEW e \in S
    PROVE  /\ Extends(frames \o more, frames, more)
           /\ Extends(Append(frames \o more, e), frames, Append(more, e))
  <1>1. Extends(frames \o more, frames, more)
    BY DEF Extends
  <1>2. /\ Len(Append(frames \o more, e)) = Len(frames) + Len(Append(more, e))
        /\ \A i \in 1..Len(frames) : Append(frames \o more, e)[i] = frames[i]
    OBVIOUS
  <1>3. ASSUME NEW i \in 1..Len(Append(more, e))
        PROVE  Append(frames \o more, e)[Len(frames) + i] = Append(more, e)[i]
    OBVIOUS
  <1> QED BY <1>1, <1>2, <1>3 DEF Extends

\* recv_frame puts what waited for a host with this Ethernet address behind
\* the frames, then perhaps a reply; the requests stay as they are.
Flushes(m, r, eth, pending, more) ==
    /\ Extends(r.frames, m.frames, more)
    /\ r.requests = m.requests /\ r.timestamp = m.timestamp
    /\ \A ip \in IP : r.arp_table[ip].request = m.arp_table[ip].request
    /\ Len(pending) <= Len(more)
    /\ \A i \in 1..Len(pending) : more[i] = IPv4Frame(m, eth, pending[i])
    /\ \A i \in Len(pending) + 1..Len(more) :
          more[i] \in ARPFrame /\ more[i].payload.opcode = "reply"

\* The host was unknown, and is so no longer.
Remembers(m, r, eth, pending) ==
    LET hop == Owner[eth]
        node == [ipv4 |-> hop, eth_addr |-> eth, timestamp |-> m.timestamp]
    IN  /\ m.arp_table[hop].mapping = NoNode /\ pending = m.arp_table[hop].pending
        /\ node \in MappingNode /\ r.mappings = Append(m.mappings, node)
        /\ \A ip \in IP :
              /\ r.arp_table[ip].mapping = IF ip = hop THEN node ELSE m.arp_table[ip].mapping
              /\ r.arp_table[ip].pending = IF ip = hop THEN <<>> ELSE m.arp_table[ip].pending

\* What recv_frame makes of an ARP message.
LEMMA RecvFields ==
    ASSUME NEW c \in Nat, NEW m \in Interface(c), NEW frame \in ARPFrames
    PROVE  LET r == recv_frame(m, frame)
           IN  /\ r \in Interface(c)
               /\ \E eth \in Eth, pending \in Seq(Datagram(c)),
                     more \in Seq(DatagramFrame(c) \union ARPFrame) :
                    /\ Flushes(m, r, eth, pending, more)
                    /\ \/ pending = <<>> /\ r.mappings = m.mappings /\ r.arp_table = m.arp_table
                       \/ Remembers(m, r, eth, pending)
  <1> DEFINE r == recv_frame(m, frame)
             All == DatagramFrame(c) \union ARPFrame
             msg == frame.payload
  <1>1. PICK eth \in Eth :
          /\ frame.type = "ARP" /\ msg.sender_ip = Owner[eth]
          /\ msg.sender_eth = eth /\ msg.opcode \in {"request", "reply", "other"}
    BY DEF ARPFrames
  <1>2. m.ipv4 = MyIP /\ m.ethernet_address = MyEth /\ m.timestamp \in Nat
        /\ m.frames \in Seq(All) /\ m.arp_table \in [IP -> Entry(c)]
    BY DEF Interface
  <1>3. Owner[eth] \in Hop /\ Owner[eth] \in IP /\ MyIP # 0
    BY HostsAssumption
  <1> DEFINE hop == Owner[eth]
             reply == ReplyFrame(m, msg)
             node == [ipv4 |-> hop, eth_addr |-> eth, timestamp |-> m.timestamp]
             learnt == IF m.arp_table[hop].mapping = NoNode THEN Learn(m, hop, eth) ELSE m
  <1>4. reply \in All /\ reply \in ARPFrame /\ reply.payload.opcode = "reply"
    BY <1>1, <1>2, <1>3 DEF ReplyFrame, ARPFrame
  <1>5. \/ r = m \/ r = learnt \/ r = [learnt EXCEPT !.frames = Append(@, reply)]
    <2>1. CASE msg.opcode \in {"request", "reply"}
      BY <1>1, <2>1, SMTT(60) DEF recv_frame, TakeARP, ParseARP, Unknown, SenderEth
    <2>2. CASE msg.opcode = "other"
      <3>1. ParseARP(msg).target_ip = 0
        BY <1>1, <2>2 DEF ParseARP, ARPFrames
      <3> QED BY <1>1, <1>2, <1>3, <3>1 DEF recv_frame, TakeARP
    <2> QED BY <1>1, <2>1, <2>2, SMTT(60)
  <1> HIDE DEF r, reply
  <1>6. CASE r = m
    <2>1. <<>> \in Seq(Datagram(c)) /\ <<>> \in Seq(All)
      OBVIOUS
    <2>2. Extends(m.frames, m.frames, <<>>)
      BY <1>2 DEF Extends
    <2>3. Flushes(m, r, eth, <<>>, <<>>)
      BY <1>6, <2>2 DEF Flushes
    <2> QED BY <1>6, <2>1, <2>3 DEF r
  <1>7. CASE m.arp_table[hop].mapping # NoNode /\ r = [learnt EXCEPT !.frames = Append(@, reply)]
    <2>1. /\ <<>> \in Seq(Datagram(c)) /\ <<reply>> \in Seq(All) /\ Len(<<reply>>) = 1
          /\ <<reply>>[1] = reply /\ Extends(Append(m.frames, reply), m.frames, <<reply>>)
      BY <1>2, <1>4 DEF Extends
    <2>2. r \in Interface(c) /\ FrameAdded(m, r, reply)
      BY <1>4, <1>7, FrameFields
    <2>3. Flushes(m, r, eth, <<>>, <<reply>>)
      BY <1>4, <2>1, <2>2 DEF Flushes, FrameAdded
    <2> QED BY <2>1, <2>2, <2>3 DEF r, FrameAdded
  <1>8. CASE m.arp_table[hop].mapping = NoNode /\ (r = learnt \/ r = [learnt EXCEPT !.frames = Append(@, reply)])
    <2> DEFINE l == Learn(m, hop, eth)
               pending == m.arp_table[hop].pending
               sent == FramesFor(m, eth, pending)
    <2>1. l \in Interface(c) /\ sent \in Seq(DatagramFrame(c)) /\ Learnt(m, l, hop, eth)
      BY <1>3, LearnFields
    <2>2. pending \in Seq(Datagram(c)) /\ Len(pending) \in Nat
      BY <1>2, <1>3 DEF Entry
    <2>3. Len(sent) = Len(pending) /\ \A i \in 1..Len(pending) : sent[i] = IPv4Frame(m, eth, pending[i])
      BY <2>2 DEF FramesFor
    <2> HIDE DEF sent, l
    <2>4. sent \in Seq(All)
      BY <2>1
    <2>5. CASE r = l
      <3>1. Flushes(m, r, eth, pending, sent)
        <4>1. r.frames = m.frames \o sent
          BY <2>1, <2>5 DEF Learnt, sent
        <4>2. Extends(r.frames, m.frames, sent)
          <5> HIDE DEF All, pending
          <5> QED BY <1>2, <1>4, <2>4, <4>1, ExtendsFacts
        <4>3. r.requests = m.requests /\ r.timestamp = m.timestamp
              /\ \A ip \in IP : r.arp_table[ip].request = m.arp_table[ip].request
          BY <2>1, <2>5, SMTT(60) DEF Learnt
        <4> HIDE DEF pending
        <4> QED BY <2>2, <2>3, <4>2, <4>3, SMTT(60) DEF Flushes
      <3>2. Remembers(m, r, eth, pending)
        BY <1>8, <2>1, <2>5 DEF Remembers, Learnt
      <3> QED BY <2>1, <2>2, <2>4, <2>5, <3>1, <3>2 DEF r
    <2>6. CASE r = [l EXCEPT !.frames = Append(@, reply)]
      <3> DEFINE more == Append(sent, reply)
      <3>1. /\ more \in Seq(All) /\ Len(more) = Len(pending) + 1 /\ more[Len(pending) + 1] = reply
            /\ \A i \in 1..Len(pending) : more[i] = sent[i]
        <4> HIDE DEF All, pending
        <4> QED BY <1>4, <2>2, <2>3, <2>4
      <3>2. Extends(Append(m.frames \o sent, reply), m.frames, more)
        <4> HIDE DEF All, pending
        <4> QED BY <1>2, <1>4, <2>4, ExtendsFacts DEF more
      <3> HIDE DEF more
      <3>3. r \in Interface(c) /\ FrameAdded(l, r, reply)
        BY <1>4, <2>1, <2>6, FrameFields, SMTT(60)
      <3>4. \A i \in Len(pending) + 1..Len(more) : more[i] = reply
        <4> HIDE DEF pending
        <4> QED BY <2>2, <3>1
      <3>5. Flushes(m, r, eth, pending, more)
        <4>1. Extends(r.frames, m.frames, more) /\ r.requests = m.requests /\ r.timestamp = m.timestamp
          BY <2>1, <3>2, <3>3 DEF FrameAdded, Learnt, sent
        <4>2. \A ip \in IP : r.arp_table[ip].request = m.arp_table[ip].request
          BY <2>1, <3>3 DEF FrameAdded, Learnt
        <4>3. \A i \in 1..Len(pending) : more[i] = IPv4Frame(m, eth, pending[i])
          BY <2>3, <3>1, SMTT(60)
        <4> HIDE DEF pending
        <4>4. Len(pending) <= Len(more)
          BY <2>2, <3>1
        <4> QED BY <1>4, <3>4, <4>1, <4>2, <4>3, <4>4 DEF Flushes
      <3>6. Remembers(m, r, eth, pending)
        BY <1>8, <2>1, <3>3 DEF Remembers, Learnt, FrameAdded
      <3> QED BY <2>2, <3>1, <3>3, <3>5, <3>6 DEF r
    <2> QED BY <1>8, <2>5, <2>6 DEF l
  <1> QED BY <1>5, <1>6, <1>7, <1>8

------------------------------------------------------------------------------
(* The inductive invariant. *)

\* A mapping leads to the host it is for and leaves nothing waiting, and what
\* waits in an entry is for its host.
EntriesAgree ==
    \A ip \in IP : LET entry == n.arp_table[ip] IN
        /\ entry.mapping # NoNode => Owner[entry.mapping.eth_addr] = ip /\ entry.pending = <<>>
        /\ \A i \in DOMAIN entry.pending : entry.pending[i].hop = ip

\* The mappings and the requests are in order and neither too old nor from
\* the future.
QueuesTimely ==
    /\ Timely(n.mappings, n.timestamp, ArpTableEntryTimeoutMs)
    /\ Timely(n.requests, n.timestamp, ArpRequestWaitingMs)

Inv == TypeOK /\ PointersMatchNodes /\ EntriesAgree /\ QueuesTimely /\ SentToNextHop

\* A new interface has empty queues and no pointer set.
LEMMA InitInv == Init => Inv
  <1> SUFFICES ASSUME Init PROVE Inv
    OBVIOUS
  <1>1. \A ip \in IP : /\ n.arp_table[ip].mapping = NoNode /\ n.arp_table[ip].request = NoNode
                       /\ n.arp_table[ip].pending = <<>>
    BY DEF Init, NewInterface, EmptyEntry
  <1>2. /\ n.frames = <<>> /\ n.mappings = <<>> /\ n.requests = <<>>
        /\ DOMAIN n.frames = {} /\ DOMAIN n.mappings = {} /\ DOMAIN n.requests = {}
    BY DEF Init, NewInterface
  <1>3. TypeOK
    <2>1. EmptyEntry \in Entry(0)
      BY DEF EmptyEntry, Entry
    <2>2. NewInterface(MyEth, MyIP) \in Interface(0)
      BY <2>1 DEF NewInterface, Interface
    <2> QED BY <2>2, BoundsAssumption DEF Init, TypeOK
  <1>4. PointersMatchNodes
    BY <1>1, <1>2 DEF PointersMatchNodes, Matches
  <1>5. EntriesAgree
    <2>1. DOMAIN <<>> = {}
      OBVIOUS
    <2> QED BY <1>1, <2>1 DEF EntriesAgree
  <1>6. QueuesTimely
    BY <1>2 DEF QueuesTimely, Timely, Sorted
  <1>7. SentToNextHop
    BY <1>2 DEF SentToNextHop
  <1> QED BY <1>3, <1>4, <1>5, <1>6, <1>7 DEF Inv

\* The nodes of both queues have times, and none is the null pointer.
LEMMA NodeTypes ==
    /\ NoNode \notin MappingNode /\ NoNode \notin RequestNode
    /\ \A node \in MappingNode \union RequestNode : node.timestamp \in Nat /\ node.ipv4 \in IP
  BY NullAssumption, HostsAssumption DEF MappingNode, RequestNode

\* A step that only adds frames, of datagrams for the right host or of ARP.
LEMMA FramesInv ==
    ASSUME Inv, NEW c \in Nat, n' \in Interface(c), given' \in 0..MaxDatagrams, c = given',
           released' \subseteq 1..given', asked' \in [Hop -> Nat \union {NoNode}],
           n'.mappings = n.mappings, n'.requests = n.requests, n'.timestamp = n.timestamp,
           n'.arp_table = n.arp_table, SentToNextHop'
    PROVE  Inv'
  <1>1. TypeOK'
    BY DEF TypeOK
  <1>2. PointersMatchNodes'
    BY DEF Inv, PointersMatchNodes
  <1>3. EntriesAgree'
    BY DEF Inv, EntriesAgree
  <1>4. QueuesTimely'
    BY DEF Inv, QueuesTimely
  <1> QED BY <1>1, <1>2, <1>3, <1>4 DEF Inv

\* A datagram is sent, waits behind a new request, or goes nowhere.
LEMMA SendDatagramInv ==
    ASSUME Inv, NEW hop \in Hop, SendDatagram(hop) PROVE Inv'
  <1> DEFINE c == given + 1
             d == [id |-> given + 1, hop |-> hop, ttl |-> 1, cksum |-> 1]
             entry == n.arp_table[hop]
  <1>1. /\ given \in Nat /\ c \in Nat /\ given' = c /\ given' \in 0..MaxDatagrams
        /\ d \in Datagram(c) /\ released' \subseteq 1..given'
    BY BoundsAssumption DEF Inv, TypeOK, SendDatagram, Datagram
  <1>2. n \in Interface(c) /\ n.timestamp \in Nat
    BY <1>1, InterfaceGrows DEF Inv, TypeOK, Interface
  <1>3. asked' \in [Hop -> Nat \union {NoNode}]
    BY <1>2 DEF Inv, TypeOK, SendDatagram
  <1>4. hop \in IP /\ n.arp_table \in [IP -> Entry(c)] /\ entry \in Entry(c)
        /\ n.ethernet_address = MyEth
    BY <1>2, HostsAssumption DEF Interface
  <1> HIDE DEF c, d
  <1>5. CASE entry.mapping # NoNode
    <2> DEFINE frame == IPv4Frame(n, entry.mapping.eth_addr, d)
    <2>1. entry.mapping \in MappingNode
      BY <1>4, <1>5 DEF Entry
    <2>2. frame \in DatagramFrame(c) /\ frame.type = "IPv4" /\ frame.payload = d
          /\ frame.dst = entry.mapping.eth_addr /\ entry.mapping.eth_addr \in Eth
      BY <1>1, <1>4, <2>1 DEF IPv4Frame, DatagramFrame, MappingNode
    <2>3. n' = [n EXCEPT !.frames = Append(@, frame)]
      BY <1>5 DEF SendDatagram, send_datagram, d
    <2> HIDE DEF frame
    <2>4. n' \in Interface(c) /\ FrameAdded(n, n', frame)
      BY <1>1, <1>2, <2>2, <2>3, FrameFields
    <2>5. Owner[frame.dst] = hop /\ frame.payload.hop = hop
      BY <1>4, <1>5, <2>2 DEF Inv, EntriesAgree, d
    <2>6. SentToNextHop'
      BY <1>2, <2>2, <2>4, <2>5 DEF Inv, SentToNextHop, FrameAdded, Interface
    <2> QED BY <1>1, <1>3, <2>4, <2>6, FramesInv DEF FrameAdded
  <1>6. CASE entry.mapping = NoNode /\ entry.request = NoNode
    <2> DEFINE node == [ipv4 |-> hop, timestamp |-> n.timestamp]
    <2>1. n' = Ask(n, d, hop)
      BY <1>6 DEF SendDatagram, send_datagram, MayAsk, d
    <2>2. n' \in Interface(c) /\ Asked(n, n', d, hop)
      BY <1>1, <1>2, <2>1, AskFields
    <2>3. TypeOK'
      BY <1>1, <1>3, <2>2 DEF TypeOK
    <2>4. PointersMatchNodes'
      <3>1. Matches(n'.mappings, [ip \in IP |-> n'.arp_table[ip].mapping])
        BY <2>2 DEF Inv, PointersMatchNodes, Asked, Matches
      <3>2. Matches(n'.requests, [ip \in IP |-> n'.arp_table[ip].request])
        <4> DEFINE before == [ip \in IP |-> n.arp_table[ip].request]
                   after == [ip \in IP |-> n'.arp_table[ip].request]
        <4>1. \A ip \in IP : after[ip] = IF ip = node.ipv4 THEN node ELSE before[ip]
          BY <2>2 DEF Asked
        <4>2. Matches(n.requests, before) /\ before[node.ipv4] = NoNode
          BY <1>4, <1>6 DEF Inv, PointersMatchNodes
        <4>3. n'.requests = Append(n.requests, node) /\ node \in RequestNode
              /\ n.requests \in Seq(RequestNode) /\ node.ipv4 \in IP
          BY <1>2, <1>4, <2>2 DEF Asked, Interface
        <4> HIDE DEF before, after, node
        <4>4. Matches(Append(n.requests, node), after)
          BY <4>1, <4>2, <4>3, NodeTypes, MatchesAppend, SMTT(60)
        <4> QED BY <4>3, <4>4 DEF after
      <3> QED BY <3>1, <3>2 DEF PointersMatchNodes
    <2>5. EntriesAgree'
      <3> SUFFICES ASSUME NEW ip \in IP
                   PROVE  LET e == n'.arp_table[ip] IN
                          /\ e.mapping # NoNode => Owner[e.mapping.eth_addr] = ip /\ e.pending = <<>>
                          /\ \A i \in DOMAIN e.pending : e.pending[i].hop = ip
        BY DEF EntriesAgree
      <3>1. CASE ip # hop
        BY <2>2, <3>1 DEF Inv, EntriesAgree, Asked
      <3>2. CASE ip = hop
        <4>1. entry.pending \in Seq(Datagram(c))
          BY <1>4 DEF Entry
        <4>2. n'.arp_table[ip].pending = Append(entry.pending, d) /\ n'.arp_table[ip].mapping = NoNode
          BY <1>4, <1>6, <2>2, <3>2 DEF Asked
        <4>3. \A i \in DOMAIN entry.pending : entry.pending[i].hop = hop
          BY <1>4 DEF Inv, EntriesAgree
        <4>4. d.hop = hop
          BY DEF d
        <4> QED BY <1>1, <3>2, <4>1, <4>2, <4>3, <4>4, SMTT(60)
      <3> QED BY <3>1, <3>2
    <2>6. QueuesTimely'
      <3>1. Timely(n'.mappings, n'.timestamp, ArpTableEntryTimeoutMs)
        BY <2>2 DEF Inv, QueuesTimely, Asked
      <3>2. n'.requests = Append(n.requests, node) /\ node \in RequestNode
            /\ n.requests \in Seq(RequestNode) /\ node.timestamp = n.timestamp
            /\ n'.timestamp = n.timestamp
        BY <1>2, <2>2 DEF Asked, Interface
      <3> HIDE DEF node
      <3>3. Timely(Append(n.requests, node), n.timestamp, ArpRequestWaitingMs)
        BY <1>2, <3>2, NodeTypes, TimelyAppend, TimeoutsAssumption DEF Inv, QueuesTimely
      <3> QED BY <3>1, <3>2, <3>3 DEF QueuesTimely
    <2>7. SentToNextHop'
      <3>1. n'.frames = Append(n.frames, RequestFrame(n, hop)) /\ RequestFrame(n, hop).type = "ARP"
        BY <2>2 DEF Asked, RequestFrame
      <3> QED BY <1>2, <3>1 DEF Inv, SentToNextHop, Interface
    <2> QED BY <2>3, <2>4, <2>5, <2>6, <2>7 DEF Inv
  <1>7. CASE entry.mapping = NoNode /\ entry.request # NoNode
    <2>1. n' = n
      BY <1>7 DEF SendDatagram, send_datagram, MayAsk
    <2>2. SentToNextHop'
      BY <2>1 DEF Inv, SentToNextHop
    <2> QED BY <1>1, <1>2, <1>3, <2>1, <2>2, FramesInv
  <1> QED BY <1>5, <1>6, <1>7

\* A host that was unknown gets a node and a pointer to it, and what waited for
\* it is sent to it; a known one changes nothing.
LEMMA RecvARPInv ==
    ASSUME Inv, NEW frame \in ARPFrames, RecvARP(frame) PROVE Inv'
  <1>1. given \in Nat /\ n \in Interface(given) /\ n' = recv_frame(n, frame)
        /\ given' = given /\ released' = released /\ asked' = asked
    BY BoundsAssumption DEF Inv, TypeOK, RecvARP, Bookkeeping
  <1> DEFINE All == DatagramFrame(given) \union ARPFrame
  <1>2. PICK eth \in Eth, pending \in Seq(Datagram(given)), more \in Seq(All) :
          /\ n' \in Interface(given) /\ Flushes(n, n', eth, pending, more)
          /\ \/ pending = <<>> /\ n'.mappings = n.mappings /\ n'.arp_table = n.arp_table
             \/ Remembers(n, n', eth, pending)
    BY <1>1, RecvFields
  <1> DEFINE hop == Owner[eth]
             node == [ipv4 |-> hop, eth_addr |-> eth, timestamp |-> n.timestamp]
  <1>3. hop \in Hop /\ hop \in IP /\ n.frames \in Seq(All) /\ n.timestamp \in Nat
        /\ n.mappings \in Seq(MappingNode) /\ n.arp_table \in [IP -> Entry(given)]
    BY <1>1, HostsAssumption DEF Interface
  <1>4. TypeOK'
    BY <1>1, <1>2 DEF Inv, TypeOK
  <1>5. PointersMatchNodes'
    <2> DEFINE before == [ip \in IP |-> n.arp_table[ip].mapping]
               after == [ip \in IP |-> n'.arp_table[ip].mapping]
    <2>1. Matches(n'.requests, [ip \in IP |-> n'.arp_table[ip].request])
      BY <1>2 DEF Inv, PointersMatchNodes, Flushes, Matches
    <2>2. CASE n'.mappings = n.mappings /\ n'.arp_table = n.arp_table
      BY <2>1, <2>2 DEF Inv, PointersMatchNodes
    <2>3. CASE Remembers(n, n', eth, pending)
      <3>1. \A ip \in IP : after[ip] = IF ip = node.ipv4 THEN node ELSE before[ip]
        BY <2>3 DEF Remembers
      <3>2. Matches(n.mappings, before) /\ before[node.ipv4] = NoNode
        BY <1>3, <2>3 DEF Inv, PointersMatchNodes, Remembers
      <3>3. n'.mappings = Append(n.mappings, node) /\ node \in MappingNode /\ node.ipv4 \in IP
        BY <1>3, <2>3 DEF Remembers
      <3> HIDE DEF before, after, node
      <3>4. Matches(Append(n.mappings, node), after)
        BY <1>3, <3>1, <3>2, <3>3, NodeTypes, MatchesAppend
      <3> QED BY <2>1, <3>3, <3>4 DEF PointersMatchNodes, after
    <2> QED BY <1>2, <2>2, <2>3
  <1>6. EntriesAgree'
    <2>1. CASE n'.mappings = n.mappings /\ n'.arp_table = n.arp_table
      BY <2>1 DEF Inv, EntriesAgree
    <2>2. CASE Remembers(n, n', eth, pending)
      <3> SUFFICES ASSUME NEW ip \in IP
                   PROVE  LET e == n'.arp_table[ip] IN
                          /\ e.mapping # NoNode => Owner[e.mapping.eth_addr] = ip /\ e.pending = <<>>
                          /\ \A i \in DOMAIN e.pending : e.pending[i].hop = ip
        BY DEF EntriesAgree
      <3>1. CASE ip # hop
        BY <2>2, <3>1 DEF Inv, EntriesAgree, Remembers
      <3>2. CASE ip = hop
        <4>1. n'.arp_table[ip].mapping = node /\ n'.arp_table[ip].pending = <<>> /\ DOMAIN <<>> = {}
          BY <2>2, <3>2 DEF Remembers
        <4> QED BY <3>2, <4>1
      <3> QED BY <3>1, <3>2
    <2> QED BY <1>2, <2>1, <2>2
  <1>7. QueuesTimely'
    <2>1. Timely(n'.requests, n'.timestamp, ArpRequestWaitingMs) /\ n'.timestamp = n.timestamp
      BY <1>2 DEF Inv, QueuesTimely, Flushes
    <2>2. CASE n'.mappings = n.mappings /\ n'.arp_table = n.arp_table
      BY <2>1, <2>2 DEF Inv, QueuesTimely
    <2>3. CASE Remembers(n, n', eth, pending)
      <3>1. n'.mappings = Append(n.mappings, node) /\ node \in MappingNode
            /\ node.timestamp = n.timestamp /\ ArpTableEntryTimeoutMs \in Nat \ {0}
        BY <2>3, TimeoutsAssumption DEF Remembers
      <3> HIDE DEF node
      <3>2. Timely(Append(n.mappings, node), n.timestamp, ArpTableEntryTimeoutMs)
        BY <1>3, <3>1, NodeTypes, TimelyAppend DEF Inv, QueuesTimely
      <3> QED BY <2>1, <3>1, <3>2 DEF QueuesTimely
    <2> QED BY <1>2, <2>2, <2>3
  <1>8. SentToNextHop'
    <2> SUFFICES ASSUME NEW i \in DOMAIN n'.frames, n'.frames[i].type = "IPv4"
                 PROVE  /\ n'.frames[i].dst \in Eth
                        /\ Owner[n'.frames[i].dst] = n'.frames[i].payload.hop
      BY DEF SentToNextHop
    <2>1. DOMAIN n'.frames = 1..Len(n.frames) + Len(more) /\ DOMAIN n.frames = 1..Len(n.frames)
          /\ Len(n.frames) \in Nat /\ Len(more) \in Nat
      <3> HIDE DEF All
      <3>1. n'.frames \in Seq(All)
        BY <1>2 DEF Interface, All
      <3> QED BY <1>2, <1>3, <3>1 DEF Flushes, Extends
    <2>2. CASE i <= Len(n.frames)
      <3>1. i \in DOMAIN n.frames /\ n'.frames[i] = n.frames[i]
        BY <1>2, <2>1, <2>2 DEF Flushes, Extends
      <3> QED BY <3>1 DEF Inv, SentToNextHop
    <2>3. CASE i > Len(n.frames)
      <3>0. PICK j \in 1..Len(more) : i = Len(n.frames) + j
        <4>1. i - Len(n.frames) \in 1..Len(more) /\ i = Len(n.frames) + (i - Len(n.frames))
          BY <2>1, <2>3, SMTT(60)
        <4> QED BY <4>1
      <3>1. n'.frames[i] = more[j]
        BY <1>2, <3>0 DEF Flushes, Extends
      <3>2. j \in 1..Len(pending)
        <4>1. ASSUME j \in Len(pending) + 1..Len(more) PROVE FALSE
          BY <1>2, <3>1, <4>1 DEF Flushes, ARPFrame
        <4> QED BY <4>1
      <3>3. more[j] = IPv4Frame(n, eth, pending[j])
        BY <1>2, <3>2 DEF Flushes
      <3>4. pending[j].hop = hop
        <4>1. CASE pending = <<>>
          BY <3>2, <4>1
        <4>2. CASE Remembers(n, n', eth, pending)
          BY <1>3, <3>2, <4>2, SMTT(60) DEF Inv, EntriesAgree, Remembers
        <4> QED BY <1>2, <4>1, <4>2
      <3> QED BY <3>1, <3>3, <3>4 DEF IPv4Frame
    <2> QED BY <2>1, <2>2, <2>3
  <1> QED BY <1>4, <1>5, <1>6, <1>7, <1>8 DEF Inv

\* The nodes that are taken off are those whose pointers are cleared.
LEMMA TickInv ==
    ASSUME Inv, NEW ms \in Ticks, Tick(ms) PROVE Inv'
  <1> DEFINE now == n.timestamp + ms
             k == ExpiredCount(n.mappings, now, ArpTableEntryTimeoutMs)
             q == ExpiredCount(n.requests, now, ArpRequestWaitingMs)
  <1>1. given \in Nat /\ n \in Interface(given) /\ n' = tick(n, ms) /\ ms \in Nat
        /\ given' = given /\ released' = released /\ asked' = asked
    BY BoundsAssumption DEF Inv, TypeOK, Tick, Bookkeeping
  <1>2. n.timestamp \in Nat /\ n.mappings \in Seq(MappingNode) /\ n.requests \in Seq(RequestNode)
        /\ n.frames \in Seq(DatagramFrame(given) \union ARPFrame)
    BY <1>1 DEF Interface
  <1>3. n' \in Interface(given) /\ Ticked(n, n', ms)
    BY <1>1, TickFields
  <1>4. TypeOK'
    BY <1>1, <1>3 DEF Inv, TypeOK
  <1>5. PointersMatchNodes'
    <2> DEFINE mapping == [ip \in IP |-> n.arp_table[ip].mapping]
               request == [ip \in IP |-> n.arp_table[ip].request]
               mappingAfter == [ip \in IP |-> n'.arp_table[ip].mapping]
               requestAfter == [ip \in IP |-> n'.arp_table[ip].request]
    <2>1. Matches(n.mappings, mapping) /\ Matches(n.requests, request)
      BY DEF Inv, PointersMatchNodes
    <2>2. /\ k \in 0..Len(n.mappings) /\ q \in 0..Len(n.requests)
          /\ n'.mappings = SubSeq(n.mappings, k + 1, Len(n.mappings))
          /\ n'.requests = SubSeq(n.requests, q + 1, Len(n.requests))
          /\ \A ip \in IP : mappingAfter[ip] =
                               IF ip \in Addresses(n.mappings, k) THEN NoNode ELSE mapping[ip]
          /\ \A ip \in IP : requestAfter[ip] =
                               IF ip \in Addresses(n.requests, q) THEN NoNode ELSE request[ip]
      BY <1>3 DEF Ticked
    <2> HIDE DEF mapping, request, mappingAfter, requestAfter, k, q
    <2>3. Matches(n'.mappings, mappingAfter)
      BY <1>2, <2>1, <2>2, MatchesRest
    <2>4. Matches(n'.requests, requestAfter)
      BY <1>2, <2>1, <2>2, MatchesRest
    <2> QED BY <2>3, <2>4 DEF PointersMatchNodes, mappingAfter, requestAfter
  <1>6. EntriesAgree'
    BY <1>3, SMTT(60) DEF Inv, EntriesAgree, Ticked
  <1>7. QueuesTimely'
    <2>1. Timely(SubSeq(n.mappings, k + 1, Len(n.mappings)), now, ArpTableEntryTimeoutMs)
      BY <1>1, <1>2, NodeTypes, TimelyRest, TimeoutsAssumption DEF Inv, QueuesTimely
    <2>2. Timely(SubSeq(n.requests, q + 1, Len(n.requests)), now, ArpRequestWaitingMs)
      BY <1>1, <1>2, NodeTypes, TimelyRest, TimeoutsAssumption DEF Inv, QueuesTimely
    <2> QED BY <1>3, <2>1, <2>2 DEF QueuesTimely, Ticked
  <1>8. SentToNextHop'
    BY <1>3 DEF Inv, SentToNextHop, Ticked
  <1> QED BY <1>4, <1>5, <1>6, <1>7, <1>8 DEF Inv

\* Taking a frame away concerns no queue and no entry.
LEMMA MaybeSendInv ==
    ASSUME Inv, MaybeSend PROVE Inv'
  <1>1. given \in Nat /\ n \in Interface(given) /\ n' = maybe_send(n) /\ n.frames # <<>>
        /\ given' = given /\ given' \in 0..MaxDatagrams /\ asked' = asked
    BY BoundsAssumption DEF Inv, TypeOK, MaybeSend
  <1>2. n' \in Interface(given) /\ FrameTaken(n, n')
    BY <1>1, MaybeSendFields
  <1>3. n.frames \in Seq(DatagramFrame(given) \union ARPFrame)
    BY <1>1 DEF Interface
  <1>4. released' \subseteq 1..given'
    <2>1. Head(n.frames) \in DatagramFrame(given) \union ARPFrame
      BY <1>1, <1>3
    <2>2. Head(n.frames).type = "IPv4" => Head(n.frames).payload.id \in 1..given
      BY <2>1 DEF DatagramFrame, ARPFrame, Datagram
    <2> QED BY <1>1, <2>2 DEF Inv, TypeOK, MaybeSend
  <1>5. \A i \in DOMAIN n'.frames : i + 1 \in DOMAIN n.frames /\ n'.frames[i] = n.frames[i + 1]
    BY <1>1, <1>2, <1>3 DEF FrameTaken
  <1>6. SentToNextHop'
    BY <1>5 DEF Inv, SentToNextHop
  <1> QED BY <1>1, <1>2, <1>4, <1>6, FramesInv DEF Inv, TypeOK, FrameTaken

\* Every step keeps the invariant.
LEMMA NextInv == Inv /\ [Next]_vars => Inv'
  <1> SUFFICES ASSUME Inv, [Next]_vars PROVE Inv'
    OBVIOUS
  <1>1. CASE UNCHANGED vars
    BY <1>1 DEF vars, Inv, TypeOK, PointersMatchNodes, EntriesAgree, QueuesTimely, SentToNextHop
  <1>2. CASE Next
    BY <1>2, SendDatagramInv, RecvARPInv, TickInv, MaybeSendInv DEF Next
  <1> QED BY <1>1, <1>2

\* The invariant holds in every state of every behaviour.
LEMMA Invariance == Spec => []Inv
  BY InitInv, NextInv, PTL DEF Spec

\* The type invariant of the interface and its surroundings.
THEOREM TypeCorrect == Spec => []TypeOK
  <1>1. Inv => TypeOK
    BY DEF Inv
  <1> QED BY <1>1, Invariance, PTL

\* Pointers and nodes are in step, whatever order datagrams, answers and ticks
\* come in: the expiry of a node clears the pointer to it and to no other.
THEOREM PointersInStep == Spec => []PointersMatchNodes
  <1>1. Inv => PointersMatchNodes
    BY DEF Inv
  <1> QED BY <1>1, Invariance, PTL

\* The loops over the fronts of the queues miss nothing.
THEOREM NothingTooOld == Spec => []NothingOutlivesItsTime
  <1>1. Inv => NothingOutlivesItsTime
    BY DEF Inv, QueuesTimely, Timely, NothingOutlivesItsTime
  <1> QED BY <1>1, Invariance, PTL

\* No datagram is sent to an address that is not its next hop's.
THEOREM RightHost == Spec => []SentToNextHop
  <1>1. Inv => SentToNextHop
    BY DEF Inv
  <1> QED BY <1>1, Invariance, PTL

------------------------------------------------------------------------------
(* Which datagrams the interface holds. *)

\* The datagrams in a sequence of frames, and those that wait for an answer.
Payloads(frames) == {frames[i].payload : i \in {j \in DOMAIN frames : frames[j].type = "IPv4"}}
Waiting(hop) == {n.arp_table[hop].pending[i] : i \in DOMAIN n.arp_table[hop].pending}

Held == Payloads(n.frames) \union UNION {Waiting(hop) : hop \in Hop}

\* Behind the frames, more frames carry their own datagrams and no others.
LEMMA PayloadsExtend ==
    ASSUME NEW S, NEW frames \in Seq(S), NEW longer \in Seq(S), NEW more \in Seq(S),
           Extends(longer, frames, more)
    PROVE  Payloads(longer) = Payloads(frames) \union Payloads(more)
  <1>1. /\ DOMAIN frames = 1..Len(frames) /\ DOMAIN more = 1..Len(more)
        /\ DOMAIN longer = 1..Len(frames) + Len(more)
        /\ Len(frames) \in Nat /\ Len(more) \in Nat
    BY DEF Extends
  <1>2. ASSUME NEW p \in Payloads(longer) PROVE p \in Payloads(frames) \union Payloads(more)
    <2>1. PICK i \in DOMAIN longer : longer[i].type = "IPv4" /\ p = longer[i].payload
      BY DEF Payloads
    <2>2. CASE i <= Len(frames)
      <3>1. i \in DOMAIN frames /\ longer[i] = frames[i]
        BY <1>1, <2>2 DEF Extends
      <3> QED BY <2>1, <3>1 DEF Payloads
    <2>3. CASE i > Len(frames)
      <3>1. PICK j \in 1..Len(more) : i = Len(frames) + j
        <4>1. i - Len(frames) \in 1..Len(more) /\ i = Len(frames) + (i - Len(frames))
          BY <1>1, <2>3
        <4> QED BY <4>1
      <3>2. longer[i] = more[j]
        BY <3>1 DEF Extends
      <3> QED BY <1>1, <2>1, <3>1, <3>2 DEF Payloads
    <2> QED BY <1>1, <2>2, <2>3
  <1>3. Payloads(frames) \subseteq Payloads(longer)
    <2>1. \A i \in DOMAIN frames : i \in DOMAIN longer /\ longer[i] = frames[i]
      BY <1>1 DEF Extends
    <2> QED BY <2>1 DEF Payloads
  <1>4. Payloads(more) \subseteq Payloads(longer)
    <2>1. \A i \in DOMAIN more :
             Len(frames) + i \in DOMAIN longer /\ longer[Len(frames) + i] = more[i]
      BY <1>1 DEF Extends
    <2> QED BY <2>1 DEF Payloads
  <1> QED BY <1>2, <1>3, <1>4

\* One more frame carries one datagram more, if it is of IPv4.
LEMMA PayloadsAppend ==
    ASSUME NEW S, NEW frames \in Seq(S), NEW e \in S, NEW longer, longer = Append(frames, e)
    PROVE  Payloads(longer) = Payloads(frames) \union (IF e.type = "IPv4" THEN {e.payload} ELSE {})
  <1>1. /\ DOMAIN longer = 1..Len(frames) + 1 /\ DOMAIN frames = 1..Len(frames)
        /\ \A i \in 1..Len(frames) : longer[i] = frames[i]
        /\ longer[Len(frames) + 1] = e /\ Len(frames) \in Nat
    OBVIOUS
  <1>2. \A i \in DOMAIN longer : i \in DOMAIN frames \/ i = Len(frames) + 1
    BY <1>1
  <1>3. \A i \in DOMAIN frames : i \in DOMAIN longer
    BY <1>1
  <1>4. Len(frames) + 1 \in DOMAIN longer
    BY <1>1
  <1> QED BY <1>1, <1>2, <1>3, <1>4 DEF Payloads

\* What a sequence of frames carries is in the first or in the rest.
LEMMA PayloadsTail ==
    ASSUME NEW S, NEW frames \in Seq(S), frames # <<>>, NEW rest, rest = Tail(frames)
    PROVE  Payloads(frames) = Payloads(rest)
              \union (IF Head(frames).type = "IPv4" THEN {Head(frames).payload} ELSE {})
  <1>1. /\ DOMAIN frames = 1..Len(frames) /\ Len(frames) \in Nat \ {0}
        /\ DOMAIN rest = 1..Len(frames) - 1 /\ Head(frames) = frames[1]
        /\ \A i \in 1..Len(frames) - 1 : rest[i] = frames[i + 1]
    OBVIOUS
  <1>2. \A i \in DOMAIN rest : i + 1 \in DOMAIN frames
    BY <1>1
  <1>3. \A i \in DOMAIN frames : i = 1 \/ \E j \in DOMAIN rest : i = j + 1
    <2> TAKE i \in DOMAIN frames
    <2>1. i # 1 => i - 1 \in DOMAIN rest /\ i = (i - 1) + 1
      BY <1>1
    <2> QED BY <2>1
  <1>4. 1 \in DOMAIN frames
    BY <1>1
  <1> QED BY <1>1, <1>2, <1>3, <1>4 DEF Payloads

\* Everything held has been handed over.
LEMMA HeldType == Inv => Held \subseteq Datagram(given)
  <1> SUFFICES ASSUME Inv PROVE Held \subseteq Datagram(given)
    OBVIOUS
  <1>1. n \in Interface(given)
    BY DEF Inv, TypeOK
  <1>2. n.frames \in Seq(DatagramFrame(given) \union ARPFrame)
        /\ \A hop \in Hop : n.arp_table[hop] \in Entry(given)
    BY <1>1, HostsAssumption DEF Interface
  <1>3. Payloads(n.frames) \subseteq Datagram(given)
    <2> SUFFICES ASSUME NEW i \in DOMAIN n.frames, n.frames[i].type = "IPv4"
                 PROVE  n.frames[i].payload \in Datagram(given)
      BY DEF Payloads
    <2>1. n.frames[i] \in DatagramFrame(given) \union ARPFrame
      BY <1>2
    <2> QED BY <2>1 DEF DatagramFrame, ARPFrame
  <1>4. \A hop \in Hop : Waiting(hop) \subseteq Datagram(given)
    <2> TAKE hop \in Hop
    <2>1. n.arp_table[hop].pending \in Seq(Datagram(given))
      BY <1>2 DEF Entry
    <2>2. \A i \in DOMAIN n.arp_table[hop].pending : n.arp_table[hop].pending[i] \in Datagram(given)
      BY <2>1
    <2> QED BY <2>2 DEF Waiting
  <1> QED BY <1>3, <1>4 DEF Held

\* The datagram that SendDatagram hands over.
Given(hop) == [id |-> given + 1, hop |-> hop, ttl |-> 1, cksum |-> 1]

\* send_datagram comes down to one of three things.
SendsNow(hop) ==
    LET eth == n.arp_table[hop].mapping.eth_addr
    IN  /\ n.arp_table[hop].mapping # NoNode
        /\ FrameAdded(n, n', IPv4Frame(n, eth, Given(hop)))
SendsLater(hop) ==
    /\ n.arp_table[hop].mapping = NoNode /\ n.arp_table[hop].request = NoNode
    /\ Asked(n, n', Given(hop), hop)
SendsNothing(hop) ==
    n.arp_table[hop].mapping = NoNode /\ n.arp_table[hop].request # NoNode /\ n' = n

\* Which of the three it is depends on the mapping, then on the request.
LEMMA SendCases ==
    ASSUME Inv, NEW hop \in Hop, SendDatagram(hop)
    PROVE  /\ given \in Nat /\ given' = given + 1 /\ released' = released
           /\ n \in Interface(given) /\ n \in Interface(given + 1) /\ n' \in Interface(given + 1)
           /\ Given(hop) \in Datagram(given + 1)
           /\ SendsNow(hop) \/ SendsLater(hop) \/ SendsNothing(hop)
  <1> DEFINE c == given + 1
             d == Given(hop)
             entry == n.arp_table[hop]
  <1>1. given \in Nat /\ c \in Nat /\ given' = c /\ d \in Datagram(c) /\ released' = released
    BY BoundsAssumption DEF Inv, TypeOK, SendDatagram, Datagram, Given
  <1>2. n \in Interface(given) /\ n \in Interface(c)
    BY <1>1, InterfaceGrows DEF Inv, TypeOK
  <1>3. n' \in Interface(c)
    BY <1>1, SendDatagramInv DEF Inv, TypeOK
  <1>4. hop \in IP /\ entry \in Entry(c) /\ n.ethernet_address = MyEth
    BY <1>2, HostsAssumption DEF Interface
  <1> HIDE DEF c
  <1>5. CASE entry.mapping # NoNode
    <2> DEFINE frame == IPv4Frame(n, entry.mapping.eth_addr, d)
    <2>1. entry.mapping \in MappingNode
      BY <1>4, <1>5 DEF Entry
    <2>2. frame \in DatagramFrame(c)
      <3> HIDE DEF d
      <3> QED BY <1>1, <1>4, <2>1 DEF IPv4Frame, DatagramFrame, MappingNode
    <2>3. n' = [n EXCEPT !.frames = Append(@, frame)]
      BY <1>5 DEF SendDatagram, send_datagram, Given
    <2> HIDE DEF frame
    <2>4. FrameAdded(n, n', frame)
      BY <1>1, <1>2, <2>2, <2>3, FrameFields
    <2> QED BY <1>1, <1>2, <1>3, <1>5, <2>4 DEF SendsNow, frame, c
  <1>6. CASE entry.mapping = NoNode /\ entry.request = NoNode
    <2>1. n' = Ask(n, d, hop)
      BY <1>6 DEF SendDatagram, send_datagram, MayAsk, Given
    <2>2. Asked(n, n', d, hop)
      <3> HIDE DEF d
      <3> QED BY <1>1, <1>2, <2>1, AskFields
    <2> QED BY <1>1, <1>2, <1>3, <1>6, <2>2 DEF SendsLater, c
  <1>7. CASE entry.mapping = NoNode /\ entry.request # NoNode
    <2>1. n' = n
      BY <1>7 DEF SendDatagram, send_datagram, MayAsk
    <2> QED BY <1>1, <1>2, <1>3, <1>7, <2>1 DEF SendsNothing, c
  <1> QED BY <1>5, <1>6, <1>7

\* A datagram that is handed over is held or dropped; the others stay.
LEMMA SendHeld ==
    ASSUME Inv, NEW hop \in Hop, SendDatagram(hop)
    PROVE  Held' = Held \union {Given(hop)} \/ Held' = Held
  <1>1. /\ given \in Nat /\ n \in Interface(given) /\ n \in Interface(given + 1)
        /\ Given(hop) \in Datagram(given + 1)
        /\ SendsNow(hop) \/ SendsLater(hop) \/ SendsNothing(hop)
    BY SendCases
  <1> DEFINE All == DatagramFrame(given + 1) \union ARPFrame
  <1>2. /\ n.frames \in Seq(All) /\ n.ethernet_address = MyEth /\ n.ipv4 = MyIP
        /\ \A ip \in Hop : ip \in IP /\ n.arp_table[ip] \in Entry(given)
        /\ Given(hop) \in Datagram(given + 1)
    BY <1>1, HostsAssumption DEF Interface
  <1>3. CASE SendsNow(hop)
    <2> DEFINE frame == IPv4Frame(n, n.arp_table[hop].mapping.eth_addr, Given(hop))
    <2>1. n'.frames = Append(n.frames, frame) /\ n'.arp_table = n.arp_table
      BY <1>3 DEF SendsNow, FrameAdded
    <2>2. frame.type = "IPv4" /\ frame.payload = Given(hop) /\ frame \in All
      <3>1. n.arp_table[hop].mapping \in MappingNode
        BY <1>2, <1>3 DEF Entry, SendsNow
      <3> QED BY <1>2, <3>1 DEF IPv4Frame, DatagramFrame, MappingNode
    <2> HIDE DEF frame, All
    <2>3. Payloads(n'.frames) = Payloads(n.frames) \union {Given(hop)}
      BY <1>2, <2>1, <2>2, PayloadsAppend, ZenonT(60)
    <2>4. \A ip \in Hop : Waiting(ip)' = Waiting(ip)
      BY <2>1 DEF Waiting
    <2> QED BY <2>3, <2>4 DEF Held
  <1>4. CASE SendsLater(hop)
    <2> DEFINE frame == RequestFrame(n, hop)
               pending == n.arp_table[hop].pending
    <2>1. n'.frames = Append(n.frames, frame) /\ frame.type = "ARP" /\ frame \in All
      BY <1>2, <1>4 DEF SendsLater, Asked, RequestFrame, ARPFrame
    <2> HIDE DEF frame, All
    <2>2. Payloads(n'.frames) = Payloads(n.frames)
      <3> DEFINE longer == n'.frames
      <3>0. longer = Append(n.frames, frame)
        BY <2>1
      <3> HIDE DEF longer
      <3>1. Payloads(longer) = Payloads(n.frames)
               \union (IF frame.type = "IPv4" THEN {frame.payload} ELSE {})
        BY <1>2, <2>1, <3>0, PayloadsAppend
      <3> QED BY <2>1, <3>1 DEF longer
    <2>3. \A ip \in Hop \ {hop} : Waiting(ip)' = Waiting(ip)
      BY <1>2, <1>4 DEF SendsLater, Asked, Waiting
    <2>4. pending \in Seq(Datagram(given)) /\ n'.arp_table[hop].pending = Append(pending, Given(hop))
      BY <1>2, <1>4 DEF SendsLater, Asked, Entry
    <2> HIDE DEF pending
    <2>5. DOMAIN Append(pending, Given(hop)) = DOMAIN pending \union {Len(pending) + 1}
          /\ \A i \in DOMAIN pending : Append(pending, Given(hop))[i] = pending[i]
          /\ Append(pending, Given(hop))[Len(pending) + 1] = Given(hop)
      BY <2>4
    <2>6. Waiting(hop)' = Waiting(hop) \union {Given(hop)}
      BY <2>4, <2>5, SMTT(60) DEF Waiting, pending
    <2> QED BY <2>2, <2>3, <2>6 DEF Held
  <1>5. CASE SendsNothing(hop)
    BY <1>5 DEF SendsNothing, Held, Waiting
  <1> QED BY <1>1, <1>3, <1>4, <1>5

\* What an answer makes of the frames: those for what waited, then others.
LEMMA FlushedPayloads ==
    ASSUME NEW D, NEW S, NEW pending \in Seq(D), NEW more \in Seq(S), NEW m, NEW r, NEW eth,
           Flushes(m, r, eth, pending, more)
    PROVE  Payloads(more) = {pending[i] : i \in DOMAIN pending}
  <1>1. DOMAIN pending = 1..Len(pending) /\ DOMAIN more = 1..Len(more)
        /\ Len(pending) \in Nat /\ Len(more) \in Nat /\ Len(pending) <= Len(more)
    BY DEF Flushes
  <1>2. \A i \in DOMAIN pending :
           i \in DOMAIN more /\ more[i].type = "IPv4" /\ more[i].payload = pending[i]
    <2> TAKE i \in DOMAIN pending
    <2>1. i \in 1..Len(pending) /\ i \in DOMAIN more
      BY <1>1
    <2>2. more[i] = IPv4Frame(m, eth, pending[i])
      BY <2>1 DEF Flushes
    <2> QED BY <2>1, <2>2 DEF IPv4Frame
  <1>3. \A i \in DOMAIN more : more[i].type = "IPv4" => i \in DOMAIN pending
    <2> TAKE i \in DOMAIN more
    <2>1. i \notin DOMAIN pending => i \in Len(pending) + 1..Len(more)
      BY <1>1
    <2>2. i \notin DOMAIN pending => more[i] \in ARPFrame
      BY <2>1 DEF Flushes
    <2> QED BY <2>2 DEF ARPFrame
  <1> QED BY <1>2, <1>3 DEF Payloads

\* What an answer releases goes from the entry to the frames.
LEMMA RecvHeld ==
    ASSUME Inv, NEW frame \in ARPFrames, RecvARP(frame) PROVE Held' = Held
  <1> DEFINE All == DatagramFrame(given) \union ARPFrame
  <1>1. given \in Nat /\ n \in Interface(given) /\ n' = recv_frame(n, frame)
    BY BoundsAssumption DEF Inv, TypeOK, RecvARP
  <1>2. PICK eth \in Eth, pending \in Seq(Datagram(given)), more \in Seq(All) :
          /\ n' \in Interface(given) /\ Flushes(n, n', eth, pending, more)
          /\ \/ pending = <<>> /\ n'.mappings = n.mappings /\ n'.arp_table = n.arp_table
             \/ Remembers(n, n', eth, pending)
    BY <1>1, RecvFields
  <1>3. n.frames \in Seq(All) /\ n'.frames \in Seq(All) /\ Owner[eth] \in Hop
        /\ \A ip \in Hop : ip \in IP
    BY <1>1, <1>2, HostsAssumption DEF Interface
  <1>4. Payloads(n'.frames) = Payloads(n.frames) \union Payloads(more)
    <2> HIDE DEF All
    <2> QED BY <1>2, <1>3, PayloadsExtend DEF Flushes
  <1>5. Payloads(more) = {pending[i] : i \in DOMAIN pending}
    <2> HIDE DEF All
    <2> QED BY <1>2, FlushedPayloads
  <1>6. DOMAIN <<>> = {}
    OBVIOUS
  <1>7. CASE pending = <<>> /\ n'.arp_table = n.arp_table
    <2>1. Payloads(more) = {}
      BY <1>5, <1>6, <1>7
    <2> QED BY <1>4, <1>7, <2>1 DEF Held, Waiting
  <1>8. CASE Remembers(n, n', eth, pending)
    <2> DEFINE hop == Owner[eth]
    <2>1. \A ip \in Hop \ {hop} : Waiting(ip)' = Waiting(ip)
      BY <1>3, <1>8 DEF Remembers, Waiting
    <2>2. Waiting(hop)' = {} /\ Waiting(hop) = Payloads(more)
      BY <1>3, <1>5, <1>6, <1>8 DEF Remembers, Waiting
    <2> QED BY <1>3, <1>4, <2>1, <2>2, SMTT(60) DEF Held
  <1> QED BY <1>2, <1>7, <1>8

\* Time discards no datagram.
LEMMA TickHeld ==
    ASSUME Inv, NEW ms \in Ticks, Tick(ms) PROVE Held' = Held
  <1>1. given \in Nat /\ n \in Interface(given) /\ n' = tick(n, ms) /\ ms \in Nat
    BY BoundsAssumption DEF Inv, TypeOK, Tick
  <1>2. Ticked(n, n', ms)
    BY <1>1, TickFields
  <1>3. n'.frames = n.frames /\ \A ip \in Hop : n'.arp_table[ip].pending = n.arp_table[ip].pending
    BY <1>2, HostsAssumption DEF Ticked
  <1>4. \A ip \in Hop : Waiting(ip)' = Waiting(ip)
    BY <1>3 DEF Waiting
  <1> QED BY <1>3, <1>4 DEF Held

\* The frame that is taken away is the only thing no longer held.
LEMMA MaybeSendHeld ==
    ASSUME Inv, MaybeSend
    PROVE  LET head == Head(n.frames)
               gone == IF head.type = "IPv4" THEN {head.payload} ELSE {}
           IN  /\ Held = Held' \union gone
               /\ released' = released \union {d.id : d \in gone}
  <1> DEFINE All == DatagramFrame(given) \union ARPFrame
             head == Head(n.frames)
             gone == IF head.type = "IPv4" THEN {head.payload} ELSE {}
  <1>1. given \in Nat /\ n \in Interface(given) /\ n' = maybe_send(n) /\ n.frames # <<>>
    BY BoundsAssumption DEF Inv, TypeOK, MaybeSend
  <1>2. FrameTaken(n, n')
    BY <1>1, MaybeSendFields
  <1>3. n.frames \in Seq(All)
    BY <1>1 DEF Interface
  <1>4. Payloads(n.frames) = Payloads(n'.frames) \union gone
    <2> DEFINE frames == n.frames
               rest == n'.frames
    <2>1. rest = Tail(frames) /\ frames # <<>> /\ frames \in Seq(All)
      BY <1>1, <1>2, <1>3 DEF FrameTaken
    <2> HIDE DEF All, frames, rest
    <2>2. Payloads(frames) = Payloads(rest)
             \union (IF Head(frames).type = "IPv4" THEN {Head(frames).payload} ELSE {})
      BY <2>1, PayloadsTail
    <2> QED BY <2>2 DEF frames, rest
  <1>5. Held = Held' \union gone
    BY <1>2, <1>4 DEF Held, Waiting, FrameTaken
  <1>6. released' = released \union {d.id : d \in gone}
    BY DEF MaybeSend
  <1> QED BY <1>5, <1>6

\* Kept is what has been released and what is held.
LEMMA KeptIsHeld ==
    /\ Kept = released \union {d.id : d \in Held}
    /\ Kept' = released' \union {d.id : d \in Held'}
  <1>1. Kept = released \union {d.id : d \in Held}
    <2>1. {d.id : d \in Payloads(n.frames)} =
             {n.frames[i].payload.id : i \in {j \in DOMAIN n.frames : n.frames[j].type = "IPv4"}}
      BY DEF Payloads
    <2>2. \A hop \in Hop : Ids(n.arp_table[hop].pending) = {d.id : d \in Waiting(hop)}
      BY DEF Ids, Waiting
    <2>3. UNION {Ids(n.arp_table[hop].pending) : hop \in Hop}
             = {d.id : d \in UNION {Waiting(hop) : hop \in Hop}}
      BY <2>2
    <2> QED BY <2>1, <2>3 DEF Kept, Held
  <1>2. Kept' = released' \union {d.id : d \in Held'}
    <2>1. {d.id : d \in Payloads(n'.frames)} =
             {n'.frames[i].payload.id : i \in {j \in DOMAIN n'.frames : n'.frames[j].type = "IPv4"}}
      BY DEF Payloads
    <2>2. \A hop \in Hop : Ids(n'.arp_table[hop].pending) = {d.id : d \in Waiting(hop)'}
      BY DEF Ids, Waiting
    <2>3. UNION {Ids(n'.arp_table[hop].pending) : hop \in Hop}
             = {d.id : d \in UNION {Waiting(hop)' : hop \in Hop}}
      BY <2>2, SMTT(60)
    <2> QED BY <2>1, <2>3 DEF Kept, Held
  <1> QED BY <1>1, <1>2

\* A datagram that is kept is kept for ever: neither the expiry of the request
\* nor that of the mapping discards it, whatever the order of calls
\* (network_interface.cc:99-128).
THEOREM AcceptedIsNeverLost == Spec => AcceptedIsKept
  <1>1. Inv /\ [Next]_vars => [Kept \subseteq Kept']_vars
    <2> SUFFICES ASSUME Inv, Next PROVE Kept \subseteq Kept'
      BY DEF vars
    <2>1. ASSUME NEW hop \in Hop, SendDatagram(hop) PROVE Kept \subseteq Kept'
      BY <2>1, SendHeld, SendCases, KeptIsHeld
    <2>2. ASSUME NEW frame \in ARPFrames, RecvARP(frame) PROVE Kept \subseteq Kept'
      <3>1. Held' = Held /\ released' = released
        BY <2>2, RecvHeld DEF RecvARP, Bookkeeping
      <3> QED BY <3>1, KeptIsHeld
    <2>3. ASSUME NEW ms \in Ticks, Tick(ms) PROVE Kept \subseteq Kept'
      <3>1. Held' = Held /\ released' = released
        BY <2>3, TickHeld DEF Tick, Bookkeeping
      <3> QED BY <3>1, KeptIsHeld
    <2>4. ASSUME MaybeSend PROVE Kept \subseteq Kept'
      BY <2>4, MaybeSendHeld, KeptIsHeld
    <2> QED BY <2>1, <2>2, <2>3, <2>4 DEF Next
  <1> QED BY <1>1, Invariance, PTL DEF Spec, AcceptedIsKept

------------------------------------------------------------------------------
(* The order of the datagrams for one next hop. *)

IsFor(frame, hop) == frame.type = "IPv4" /\ frame.payload.hop = hop

\* The datagrams for hop, first those in frames and then those in pending, are
\* in the order of their identities, and none of them is gone.
InOrder(frames, pending, gone, hop) ==
    /\ \A i, j \in DOMAIN frames :
          i < j /\ IsFor(frames[i], hop) /\ IsFor(frames[j], hop)
             => frames[i].payload.id < frames[j].payload.id
    /\ \A i \in DOMAIN frames, j \in DOMAIN pending :
          IsFor(frames[i], hop) => frames[i].payload.id < pending[j].id
    /\ \A i, j \in DOMAIN pending : i < j => pending[i].id < pending[j].id
    /\ \A i \in DOMAIN frames : IsFor(frames[i], hop) => frames[i].payload.id \notin gone
    /\ \A i \in DOMAIN pending : pending[i].id \notin gone

\* Frames that are not for hop do not disturb the order when put behind.
LEMMA OrderOthers ==
    ASSUME NEW S, NEW frames \in Seq(S), NEW more \in Seq(S), NEW longer \in Seq(S),
           NEW pending, NEW gone, NEW hop, InOrder(frames, pending, gone, hop),
           Extends(longer, frames, more), \A i \in DOMAIN more : ~IsFor(more[i], hop)
    PROVE  InOrder(longer, pending, gone, hop)
  <1>1. /\ DOMAIN frames = 1..Len(frames) /\ DOMAIN more = 1..Len(more)
        /\ DOMAIN longer = 1..Len(frames) + Len(more)
        /\ Len(frames) \in Nat /\ Len(more) \in Nat
    BY DEF Extends
  <1>2. ASSUME NEW i \in DOMAIN longer, IsFor(longer[i], hop)
        PROVE  i \in DOMAIN frames /\ longer[i] = frames[i]
    <2>1. CASE i \in DOMAIN frames
      BY <1>1, <2>1 DEF Extends
    <2>2. CASE i \notin DOMAIN frames
      <3>1. PICK j \in DOMAIN more : i = Len(frames) + j
        <4>1. i - Len(frames) \in DOMAIN more /\ i = Len(frames) + (i - Len(frames))
          BY <1>1, <2>2
        <4> QED BY <4>1
      <3>2. longer[i] = more[j]
        BY <1>1, <3>1 DEF Extends
      <3> QED BY <1>2, <3>2
    <2> QED BY <2>1, <2>2
  <1> QED BY <1>2 DEF InOrder

\* What waited goes behind the frames, in its order.
LEMMA OrderFlush ==
    ASSUME NEW S, NEW frames \in Seq(S), NEW more \in Seq(S), NEW longer \in Seq(S),
           NEW D, NEW pending \in Seq(D), NEW gone, NEW hop, InOrder(frames, pending, gone, hop),
           Extends(longer, frames, more), Len(pending) <= Len(more),
           \A i \in 1..Len(pending) : more[i].payload = pending[i],
           \A i \in Len(pending) + 1..Len(more) : ~IsFor(more[i], hop)
    PROVE  InOrder(longer, <<>>, gone, hop)
  <1>1. /\ DOMAIN frames = 1..Len(frames) /\ DOMAIN more = 1..Len(more)
        /\ DOMAIN longer = 1..Len(frames) + Len(more) /\ DOMAIN pending = 1..Len(pending)
        /\ Len(frames) \in Nat /\ Len(more) \in Nat /\ Len(pending) \in Nat
    BY DEF Extends
  <1>2. ASSUME NEW i \in DOMAIN longer, IsFor(longer[i], hop)
        PROVE  \/ i \in DOMAIN frames /\ longer[i] = frames[i]
               \/ \E j \in DOMAIN pending : i = Len(frames) + j /\ longer[i].payload = pending[j]
    <2>1. CASE i \in DOMAIN frames
      BY <1>1, <2>1 DEF Extends
    <2>2. CASE i \notin DOMAIN frames
      <3>1. PICK j \in DOMAIN more : i = Len(frames) + j
        <4>1. i - Len(frames) \in DOMAIN more /\ i = Len(frames) + (i - Len(frames))
          BY <1>1, <2>2
        <4> QED BY <4>1
      <3>2. longer[i] = more[j]
        BY <1>1, <3>1 DEF Extends
      <3>3. j \notin Len(pending) + 1..Len(more)
        BY <1>2, <3>2
      <3>4. j \in DOMAIN pending
        BY <1>1, <3>1, <3>3
      <3> QED BY <1>1, <3>1, <3>2, <3>4
    <2> QED BY <2>1, <2>2
  <1>3. ASSUME NEW i \in DOMAIN longer, NEW j \in DOMAIN longer, i < j,
               IsFor(longer[i], hop), IsFor(longer[j], hop)
        PROVE  longer[i].payload.id < longer[j].payload.id
    <2>1. CASE j \in DOMAIN frames
      <3>1. i \in DOMAIN frames
        BY <1>1, <1>3, <2>1
      <3>2. longer[i] = frames[i] /\ longer[j] = frames[j]
        BY <1>1, <2>1, <3>1 DEF Extends
      <3> QED BY <1>3, <2>1, <3>1, <3>2 DEF InOrder
    <2>2. CASE j \notin DOMAIN frames
      <3>1. PICK l \in DOMAIN pending : j = Len(frames) + l /\ longer[j].payload = pending[l]
        BY <1>2, <1>3, <2>2
      <3>2. CASE i \in DOMAIN frames
        <4>1. longer[i] = frames[i]
          BY <1>1, <3>2 DEF Extends
        <4> QED BY <1>3, <3>1, <3>2, <4>1 DEF InOrder
      <3>3. CASE i \notin DOMAIN frames
        <4>1. PICK k \in DOMAIN pending : i = Len(frames) + k /\ longer[i].payload = pending[k]
          BY <1>2, <1>3, <3>3
        <4>2. k < l
          BY <1>1, <1>3, <3>1, <4>1
        <4> QED BY <3>1, <4>1, <4>2 DEF InOrder
      <3> QED BY <3>2, <3>3
    <2> QED BY <2>1, <2>2
  <1>4. ASSUME NEW i \in DOMAIN longer, IsFor(longer[i], hop)
        PROVE  longer[i].payload.id \notin gone
    BY <1>2, <1>4 DEF InOrder
  <1>5. DOMAIN <<>> = {}
    OBVIOUS
  <1> QED BY <1>3, <1>4, <1>5 DEF InOrder

\* One more datagram waits, with an identity no other has had.
LEMMA OrderWait ==
    ASSUME NEW frames, NEW D, NEW pending \in Seq(D), NEW gone, NEW hop, NEW d \in D,
           NEW longer, longer = Append(pending, d), InOrder(frames, pending, gone, hop),
           d.id \notin gone,
           \A i \in DOMAIN frames : IsFor(frames[i], hop) => frames[i].payload.id < d.id,
           \A i \in DOMAIN pending : pending[i].id < d.id
    PROVE  InOrder(frames, longer, gone, hop)
  <1>1. /\ DOMAIN pending = 1..Len(pending) /\ DOMAIN longer = 1..Len(pending) + 1
        /\ \A i \in 1..Len(pending) : longer[i] = pending[i]
        /\ longer[Len(pending) + 1] = d /\ Len(pending) \in Nat
    OBVIOUS
  <1>2. \A i \in DOMAIN longer :
           \/ i \in DOMAIN pending /\ longer[i] = pending[i]
           \/ i = Len(pending) + 1 /\ longer[i] = d
    BY <1>1
  <1>3. ASSUME NEW i \in DOMAIN longer, NEW j \in DOMAIN longer, i < j
        PROVE  longer[i].id < longer[j].id
    <2>1. i \in DOMAIN pending /\ longer[i] = pending[i]
      BY <1>1, <1>3
    <2>2. CASE j \in DOMAIN pending
      BY <1>1, <1>3, <2>1, <2>2 DEF InOrder
    <2>3. CASE j = Len(pending) + 1
      BY <1>1, <2>1, <2>3
    <2> QED BY <1>2, <2>2, <2>3
  <1> QED BY <1>2, <1>3 DEF InOrder

\* The first frame goes, and with it what it carries; the datagrams for other
\* hosts have other identities.
LEMMA OrderTail ==
    ASSUME NEW S, NEW frames \in Seq(S), frames # <<>>, NEW rest, rest = Tail(frames),
           NEW pending, NEW gone, NEW more, NEW hop, InOrder(frames, pending, gone, hop),
           more = gone \union (IF Head(frames).type = "IPv4" THEN {Head(frames).payload.id} ELSE {}),
           \A i \in DOMAIN frames : IsFor(frames[i], hop) => frames[i].payload.id \in Nat,
           \A i \in DOMAIN frames :
              /\ IsFor(frames[i], hop) /\ Head(frames).type = "IPv4"
              /\ frames[i].payload.id = Head(frames).payload.id
              => IsFor(Head(frames), hop),
           \A i \in DOMAIN pending :
              /\ Head(frames).type = "IPv4" /\ pending[i].id = Head(frames).payload.id
              => IsFor(Head(frames), hop),
           \A i \in DOMAIN pending : pending[i].id \in Nat
    PROVE  InOrder(rest, pending, more, hop)
  <1>1. /\ DOMAIN frames = 1..Len(frames) /\ Len(frames) \in Nat \ {0}
        /\ DOMAIN rest = 1..Len(frames) - 1 /\ Head(frames) = frames[1]
        /\ \A i \in 1..Len(frames) - 1 : rest[i] = frames[i + 1]
    OBVIOUS
  <1>2. \A i \in DOMAIN rest :
           i + 1 \in DOMAIN frames /\ 1 < i + 1 /\ rest[i] = frames[i + 1]
    BY <1>1
  <1>3. 1 \in DOMAIN frames
    BY <1>1
  <1>4. ASSUME NEW i \in DOMAIN rest, NEW j \in DOMAIN rest, i < j,
               IsFor(rest[i], hop), IsFor(rest[j], hop)
        PROVE  rest[i].payload.id < rest[j].payload.id
    <2>1. i + 1 < j + 1
      BY <1>1, <1>4
    <2> QED BY <1>2, <1>4, <2>1 DEF InOrder
  <1>5. ASSUME NEW i \in DOMAIN rest, NEW j \in DOMAIN pending, IsFor(rest[i], hop)
        PROVE  rest[i].payload.id < pending[j].id
    BY <1>2, <1>5 DEF InOrder
  <1>6. ASSUME NEW i \in DOMAIN rest, IsFor(rest[i], hop)
        PROVE  rest[i].payload.id \notin more
    <2>1. rest[i].payload.id \notin gone
      BY <1>2, <1>6 DEF InOrder
    <2>2. ASSUME Head(frames).type = "IPv4", rest[i].payload.id = Head(frames).payload.id
          PROVE  FALSE
      <3>1. IsFor(frames[1], hop)
        BY <1>1, <1>2, <1>6, <2>2
      <3>2. frames[1].payload.id < rest[i].payload.id
        BY <1>2, <1>3, <1>6, <3>1 DEF InOrder
      <3>3. rest[i].payload.id \in Nat
        BY <1>2, <1>6
      <3> QED BY <1>1, <2>2, <3>2, <3>3
    <2> QED BY <2>1, <2>2
  <1>7. ASSUME NEW i \in DOMAIN pending
        PROVE  pending[i].id \notin more
    <2>1. pending[i].id \notin gone
      BY DEF InOrder
    <2>2. ASSUME Head(frames).type = "IPv4", pending[i].id = Head(frames).payload.id
          PROVE  FALSE
      <3>1. frames[1].payload.id < pending[i].id
        BY <1>1, <1>3, <2>2 DEF InOrder
      <3> QED BY <1>1, <2>2, <3>1
    <2> QED BY <2>1, <2>2
  <1>8. \A i, j \in DOMAIN pending : i < j => pending[i].id < pending[j].id
    BY DEF InOrder
  <1> QED BY <1>4, <1>5, <1>6, <1>7, <1>8 DEF InOrder

\* No identity is used for two hosts.
OneHostEach == \A d, e \in Held : d.id = e.id => d.hop = e.hop

OrderInv ==
    /\ Inv /\ OneHostEach
    /\ \A hop \in Hop : InOrder(n.frames, n.arp_table[hop].pending, released, hop)

\* What is in a frame or waits is held, with an identity that has been given.
LEMMA HeldWhere ==
    ASSUME Inv
    PROVE  /\ n.frames \in Seq(DatagramFrame(given) \union ARPFrame) /\ given \in Nat
           /\ \A i \in DOMAIN n.frames : n.frames[i].type = "IPv4" =>
                 n.frames[i].payload \in Held /\ n.frames[i].payload.id \in 1..given
           /\ \A hop \in Hop :
                 /\ hop \in IP /\ n.arp_table[hop].pending \in Seq(Datagram(given))
                 /\ \A i \in DOMAIN n.arp_table[hop].pending :
                       LET d == n.arp_table[hop].pending[i]
                       IN  d \in Held /\ d.id \in 1..given /\ d.hop = hop
  <1>1. n \in Interface(given) /\ given \in Nat
    BY BoundsAssumption DEF Inv, TypeOK
  <1>2. \A hop \in Hop : hop \in IP /\ n.arp_table[hop] \in Entry(given)
    BY <1>1, HostsAssumption DEF Interface
  <1>3. \A d \in Held : d.id \in 1..given
    BY HeldType DEF Datagram
  <1>4. \A i \in DOMAIN n.frames : n.frames[i].type = "IPv4" => n.frames[i].payload \in Held
    BY DEF Held, Payloads
  <1>5. \A hop \in Hop : \A i \in DOMAIN n.arp_table[hop].pending :
           n.arp_table[hop].pending[i] \in Held /\ n.arp_table[hop].pending[i].hop = hop
    BY <1>2 DEF Held, Waiting, Inv, EntriesAgree
  <1> QED BY <1>1, <1>2, <1>3, <1>4, <1>5 DEF Interface, Entry

\* Only SendDatagram makes an identity, and it makes a new one.
LEMMA OneHostEachStep ==
    ASSUME OrderInv, Next PROVE OneHostEach'
  <1>1. \A d \in Held : d.id \in 1..given
    BY HeldType DEF OrderInv, Datagram
  <1>2. ASSUME NEW hop \in Hop, SendDatagram(hop) PROVE OneHostEach'
    <2>1. given \in Nat /\ (Held' = Held \union {Given(hop)} \/ Held' = Held)
      BY <1>2, SendCases, SendHeld DEF OrderInv
    <2>2. Given(hop).id = given + 1
      BY DEF Given
    <2>3. \A d \in Held : d.id # Given(hop).id
      BY <1>1, <2>1, <2>2
    <2> QED BY <2>1, <2>3 DEF OrderInv, OneHostEach
  <1>3. ASSUME NEW frame \in ARPFrames, RecvARP(frame) PROVE OneHostEach'
    BY <1>3, RecvHeld DEF OrderInv, OneHostEach
  <1>4. ASSUME NEW ms \in Ticks, Tick(ms) PROVE OneHostEach'
    BY <1>4, TickHeld DEF OrderInv, OneHostEach
  <1>5. ASSUME MaybeSend PROVE OneHostEach'
    <2>1. Held' \subseteq Held
      BY <1>5, MaybeSendHeld DEF OrderInv
    <2> QED BY <2>1 DEF OrderInv, OneHostEach
  <1> QED BY <1>2, <1>3, <1>4, <1>5 DEF Next

\* A datagram goes behind all others, sent at once or waiting.
LEMMA SendOrder ==
    ASSUME OrderInv, NEW to \in Hop, SendDatagram(to), NEW hop \in Hop
    PROVE  InOrder(n'.frames, n'.arp_table[hop].pending, released', hop)
  <1> DEFINE All == DatagramFrame(given + 1) \union ARPFrame
             pending == n.arp_table[hop].pending
             d == Given(to)
  <1>1. /\ given \in Nat /\ released' = released /\ released \subseteq 1..given
        /\ n \in Interface(given + 1) /\ n' \in Interface(given + 1) /\ d \in Datagram(given + 1)
        /\ SendsNow(to) \/ SendsLater(to) \/ SendsNothing(to)
    BY SendCases DEF OrderInv, Inv, TypeOK
  <1>2. /\ n.frames \in Seq(All) /\ n'.frames \in Seq(All)
        /\ hop \in IP /\ to \in IP /\ pending \in Seq(Datagram(given + 1))
        /\ n.arp_table[to] \in Entry(given + 1)
    BY <1>1, HostsAssumption DEF Interface, Entry
  <1>3. InOrder(n.frames, pending, released, hop)
    BY DEF OrderInv
  <1>4. /\ \A i \in DOMAIN n.frames : n.frames[i].type = "IPv4" => n.frames[i].payload.id < d.id
        /\ \A i \in DOMAIN pending : pending[i].id < d.id
        /\ d.id \notin released /\ d.hop = to
    <2>1. d.id = given + 1 /\ d.hop = to
      BY DEF Given
    <2> QED BY <1>1, <2>1, HeldWhere DEF OrderInv
  <1> HIDE DEF d
  <1>5. CASE SendsNow(to)
    <2> DEFINE frame == IPv4Frame(n, n.arp_table[to].mapping.eth_addr, d)
               more == <<frame>>
    <2>1. n'.frames = Append(n.frames, frame) /\ n'.arp_table = n.arp_table
      BY <1>5 DEF SendsNow, FrameAdded, d
    <2>2. frame.type = "IPv4" /\ frame.payload = d /\ frame \in All
      <3>1. n.arp_table[to].mapping \in MappingNode /\ n.ethernet_address = MyEth
        BY <1>1, <1>2, <1>5 DEF Entry, SendsNow, Interface
      <3> QED BY <1>1, <3>1 DEF IPv4Frame, DatagramFrame, MappingNode
    <2> HIDE DEF frame, All
    <2>3. more \in Seq(All) /\ Len(more) = 1 /\ more[1] = frame /\ DOMAIN more = {1}
      BY <2>2
    <2>4. Extends(n'.frames, n.frames, more)
      BY <1>2, <2>1, <2>3 DEF Extends
    <2> HIDE DEF more
    <2>5. CASE hop # to
      <3>1. \A i \in DOMAIN more : ~IsFor(more[i], hop)
        BY <1>4, <2>2, <2>3, <2>5 DEF IsFor
      <3>2. InOrder(n'.frames, pending, released, hop)
        <4> HIDE DEF pending
        <4> QED BY <1>2, <1>3, <2>3, <2>4, <3>1, OrderOthers
      <3> QED BY <1>1, <2>1, <3>2
    <2>6. CASE hop = to
      <3>1. pending = <<>>
        BY <1>2, <1>5, <2>6 DEF SendsNow, OrderInv, Inv, EntriesAgree
      <3> DEFINE one == <<d>>
      <3>2. one \in Seq(Datagram(given + 1)) /\ one = Append(pending, d) /\ Len(one) = 1 /\ one[1] = d
        BY <1>1, <3>1
      <3> HIDE DEF one, pending
      <3>3. InOrder(n.frames, one, released, hop)
        BY <1>1, <1>2, <1>3, <1>4, <3>2, OrderWait DEF IsFor
      <3>4. \A i \in 1..Len(one) : more[i].payload = one[i]
        BY <2>2, <2>3, <3>2
      <3>5. Len(one) <= Len(more) /\ \A i \in Len(one) + 1..Len(more) : ~IsFor(more[i], hop)
        BY <2>3, <3>2
      <3>6. InOrder(n'.frames, <<>>, released, hop)
        BY <1>2, <2>3, <2>4, <3>2, <3>3, <3>4, <3>5, OrderFlush
      <3> QED BY <1>1, <2>1, <3>1, <3>6 DEF pending
    <2> QED BY <2>5, <2>6
  <1>6. CASE SendsLater(to)
    <2> DEFINE frame == RequestFrame(n, to)
               more == <<frame>>
               longer == n'.arp_table[hop].pending
    <2>1. n'.frames = Append(n.frames, frame) /\ frame.type = "ARP" /\ frame \in All
      <3>1. n.ethernet_address = MyEth /\ n.ipv4 = MyIP
        BY <1>1 DEF Interface
      <3> QED BY <1>6, <3>1 DEF SendsLater, Asked, RequestFrame, ARPFrame
    <2>2. longer = IF hop = to THEN Append(pending, d) ELSE pending
      BY <1>2, <1>6 DEF SendsLater, Asked, d
    <2> HIDE DEF frame, All
    <2>3. more \in Seq(All) /\ Len(more) = 1 /\ more[1] = frame /\ DOMAIN more = {1}
      BY <2>1
    <2>4. Extends(n'.frames, n.frames, more)
      BY <1>2, <2>1, <2>3 DEF Extends
    <2> HIDE DEF more, pending, longer
    <2>5. \A i \in DOMAIN more : ~IsFor(more[i], hop)
      BY <2>1, <2>3 DEF IsFor
    <2>6. InOrder(n.frames, longer, released, hop)
      <3>1. CASE hop = to
        BY <1>1, <1>2, <1>3, <1>4, <2>2, <3>1, OrderWait DEF IsFor
      <3> QED BY <1>3, <2>2, <3>1
    <2>7. InOrder(n'.frames, longer, released, hop)
      BY <1>2, <2>3, <2>4, <2>5, <2>6, OrderOthers
    <2> QED BY <1>1, <2>7 DEF longer
  <1>7. CASE SendsNothing(to)
    BY <1>1, <1>3, <1>7 DEF SendsNothing
  <1> QED BY <1>1, <1>5, <1>6, <1>7

\* What waited for the sender goes behind the frames, and nothing overtakes it.
LEMMA RecvOrder ==
    ASSUME OrderInv, NEW frame \in ARPFrames, RecvARP(frame), NEW hop \in Hop
    PROVE  InOrder(n'.frames, n'.arp_table[hop].pending, released', hop)
  <1> DEFINE All == DatagramFrame(given) \union ARPFrame
             waiting == n.arp_table[hop].pending
  <1>1. /\ given \in Nat /\ n \in Interface(given) /\ n' = recv_frame(n, frame)
        /\ released' = released
    BY BoundsAssumption DEF OrderInv, Inv, TypeOK, RecvARP, Bookkeeping
  <1>2. PICK eth \in Eth, pending \in Seq(Datagram(given)), more \in Seq(All) :
          /\ n' \in Interface(given) /\ Flushes(n, n', eth, pending, more)
          /\ \/ pending = <<>> /\ n'.mappings = n.mappings /\ n'.arp_table = n.arp_table
             \/ Remembers(n, n', eth, pending)
    BY <1>1, RecvFields
  <1>3. /\ n.frames \in Seq(All) /\ n'.frames \in Seq(All) /\ Owner[eth] \in Hop
        /\ hop \in IP /\ waiting \in Seq(Datagram(given)) /\ Owner[eth] \in IP
    BY <1>1, <1>2, HostsAssumption DEF Interface, Entry
  <1>4. InOrder(n.frames, waiting, released, hop) /\ Extends(n'.frames, n.frames, more)
    BY <1>2 DEF OrderInv, Flushes
  <1>5. \A i \in Len(pending) + 1..Len(more) : ~IsFor(more[i], hop)
    BY <1>2 DEF Flushes, ARPFrame, IsFor
  <1>6. \A i \in 1..Len(pending) : more[i].payload = pending[i]
    <2> TAKE i \in 1..Len(pending)
    <2>1. more[i] = IPv4Frame(n, eth, pending[i])
      BY <1>2 DEF Flushes
    <2> QED BY <2>1 DEF IPv4Frame
  <1>7. DOMAIN more = 1..Len(more) /\ Len(more) \in Nat /\ Len(pending) \in Nat
        /\ Len(pending) <= Len(more)
    BY <1>2 DEF Flushes
  <1>8. CASE pending = <<>> /\ n'.arp_table = n.arp_table
    <2>1. \A i \in DOMAIN more : ~IsFor(more[i], hop)
      BY <1>5, <1>7, <1>8
    <2>2. InOrder(n'.frames, waiting, released, hop)
      <3> HIDE DEF All, waiting
      <3> QED BY <1>2, <1>3, <1>4, <2>1, OrderOthers
    <2> QED BY <1>1, <1>8, <2>2
  <1>9. CASE Remembers(n, n', eth, pending)
    <2>1. CASE hop = Owner[eth]
      <3>1. pending = waiting /\ n'.arp_table[hop].pending = <<>>
        BY <1>3, <1>9, <2>1 DEF Remembers
      <3>2. InOrder(n'.frames, <<>>, released, hop)
        <4> HIDE DEF All, waiting
        <4> QED BY <1>2, <1>3, <1>4, <1>5, <1>6, <1>7, <3>1, OrderFlush
      <3> QED BY <1>1, <3>1, <3>2
    <2>2. CASE hop # Owner[eth]
      <3>1. n'.arp_table[hop].pending = waiting
        BY <1>3, <1>9, <2>2 DEF Remembers
      <3>2. \A i \in 1..Len(pending) : pending[i].hop = Owner[eth]
        <4>1. pending = n.arp_table[Owner[eth]].pending /\ DOMAIN pending = 1..Len(pending)
          BY <1>2, <1>9 DEF Remembers
        <4> QED BY <1>3, <4>1, HeldWhere DEF OrderInv
      <3>3. \A i \in DOMAIN more : ~IsFor(more[i], hop)
        <4> TAKE i \in DOMAIN more
        <4>1. i \in 1..Len(pending) \/ i \in Len(pending) + 1..Len(more)
          BY <1>7
        <4>2. CASE i \in 1..Len(pending)
          BY <1>6, <2>2, <3>2, <4>2 DEF IsFor
        <4> QED BY <1>5, <4>1, <4>2
      <3>4. InOrder(n'.frames, waiting, released, hop)
        <4> HIDE DEF All, waiting
        <4> QED BY <1>2, <1>3, <1>4, <3>3, OrderOthers
      <3> QED BY <1>1, <3>1, <3>4
    <2> QED BY <2>1, <2>2
  <1> QED BY <1>2, <1>8, <1>9

\* The first frame leaves, and is never seen again.
LEMMA MaybeSendOrder ==
    ASSUME OrderInv, MaybeSend, NEW hop \in Hop
    PROVE  InOrder(n'.frames, n'.arp_table[hop].pending, released', hop)
  <1> DEFINE frames == n.frames
             rest == n'.frames
             pending == n.arp_table[hop].pending
             All == DatagramFrame(given) \union ARPFrame
  <1>1. n \in Interface(given) /\ given \in Nat /\ n' = maybe_send(n) /\ n.frames # <<>>
    BY BoundsAssumption DEF OrderInv, Inv, TypeOK, MaybeSend
  <1>2. FrameTaken(n, n')
    BY <1>1, MaybeSendFields
  <1>3. rest = Tail(frames) /\ frames # <<>> /\ n'.arp_table[hop].pending = pending
        /\ frames \in Seq(All)
    BY <1>1, <1>2, HeldWhere DEF OrderInv, FrameTaken
  <1>4. released' = released
           \union (IF Head(frames).type = "IPv4" THEN {Head(frames).payload.id} ELSE {})
    BY DEF MaybeSend
  <1>5. InOrder(frames, pending, released, hop)
    BY DEF OrderInv
  <1>6. \A i \in DOMAIN frames : frames[i].type = "IPv4" =>
           frames[i].payload \in Held /\ frames[i].payload.id \in Nat
    BY HeldWhere DEF OrderInv
  <1>7. \A i \in DOMAIN pending :
           pending[i] \in Held /\ pending[i].hop = hop /\ pending[i].id \in Nat
    BY HeldWhere DEF OrderInv
  <1>8. Head(frames) = frames[1] /\ 1 \in DOMAIN frames
    BY <1>3
  <1>9. \A i \in DOMAIN frames : IsFor(frames[i], hop) => frames[i].payload.id \in Nat
    BY <1>6 DEF IsFor
  <1>10. \A i \in DOMAIN frames :
            /\ IsFor(frames[i], hop) /\ Head(frames).type = "IPv4"
            /\ frames[i].payload.id = Head(frames).payload.id
            => IsFor(Head(frames), hop)
    BY <1>6, <1>8 DEF IsFor, OrderInv, OneHostEach
  <1>11. \A i \in DOMAIN pending :
            /\ Head(frames).type = "IPv4" /\ pending[i].id = Head(frames).payload.id
            => IsFor(Head(frames), hop)
    BY <1>6, <1>7, <1>8 DEF IsFor, OrderInv, OneHostEach
  <1>12. \A i \in DOMAIN pending : pending[i].id \in Nat
    BY <1>7
  <1> HIDE DEF frames, rest, pending, All
  <1>13. InOrder(rest, pending, released', hop)
    BY <1>3, <1>4, <1>5, <1>9, <1>10, <1>11, <1>12, OrderTail, ZenonT(60)
  <1> QED BY <1>3, <1>13 DEF rest

\* The invariant holds at first, and every step keeps it.
LEMMA OrderInvariance == Spec => []OrderInv
  <1>1. Init => OrderInv
    <2> SUFFICES ASSUME Init PROVE OrderInv
      OBVIOUS
    <2>1. n.frames = <<>> /\ \A hop \in Hop : n.arp_table[hop].pending = <<>>
      BY HostsAssumption DEF Init, NewInterface, EmptyEntry
    <2>2. DOMAIN <<>> = {}
      OBVIOUS
    <2>3. Held = {}
      BY <2>1, <2>2 DEF Held, Payloads, Waiting
    <2> QED BY <2>1, <2>2, <2>3, InitInv DEF OrderInv, OneHostEach, InOrder
  <1>2. OrderInv /\ [Next]_vars => OrderInv'
    <2> SUFFICES ASSUME OrderInv, [Next]_vars PROVE OrderInv'
      OBVIOUS
    <2>1. Inv'
      BY NextInv DEF OrderInv
    <2>2. CASE UNCHANGED vars
      <3>1. n' = n /\ released' = released
        BY <2>2 DEF vars
      <3>2. Held' = Held
        BY <3>1 DEF Held, Waiting
      <3> QED BY <2>1, <3>1, <3>2 DEF OrderInv, OneHostEach
    <2>3. CASE Next
      <3>1. OneHostEach'
        BY <2>3, OneHostEachStep
      <3>2. ASSUME NEW hop \in Hop
            PROVE  InOrder(n'.frames, n'.arp_table[hop].pending, released', hop)
        <4>1. ASSUME NEW ms \in Ticks, Tick(ms)
              PROVE  InOrder(n'.frames, n'.arp_table[hop].pending, released', hop)
          <5>1. n \in Interface(given) /\ given \in Nat /\ n' = tick(n, ms) /\ ms \in Nat
                /\ released' = released
            BY <4>1, BoundsAssumption DEF OrderInv, Inv, TypeOK, Tick, Bookkeeping
          <5>2. Ticked(n, n', ms)
            BY <5>1, TickFields
          <5>3. n'.frames = n.frames /\ n'.arp_table[hop].pending = n.arp_table[hop].pending
            BY <5>2, HostsAssumption DEF Ticked
          <5> QED BY <5>1, <5>3 DEF OrderInv
        <4> QED BY <2>3, <4>1, SendOrder, RecvOrder, MaybeSendOrder DEF Next
      <3> QED BY <2>1, <3>1, <3>2 DEF OrderInv
    <2> QED BY <2>2, <2>3
  <1> QED BY <1>1, <1>2, PTL DEF Spec

\* The datagrams for one next hop leave in the order of the calls, each at
\* most once, and those that waited for ARP are not overtaken
\* (network_interface.cc:36, 79).
THEOREM EachInOrderOnce == Spec => []InOrderOnce
  <1>1. OrderInv => InOrderOnce
    <2> SUFFICES ASSUME OrderInv, NEW hop \in Hop
                 PROVE  LET waiting == n.arp_table[hop].pending
                        IN  /\ \A x, y \in FramesTo(hop) : x[1] < y[1] => x[2] < y[2]
                            /\ \A x \in FramesTo(hop), i \in DOMAIN waiting : x[2] < waiting[i].id
                            /\ \A i, j \in DOMAIN waiting : i < j => waiting[i].id < waiting[j].id
                            /\ \A x \in FramesTo(hop) : x[2] \notin released
                            /\ \A i \in DOMAIN waiting : waiting[i].id \notin released
      BY DEF InOrderOnce
    <2>1. ASSUME NEW x \in FramesTo(hop)
          PROVE  /\ x[1] \in DOMAIN n.frames /\ IsFor(n.frames[x[1]], hop)
                 /\ x[2] = n.frames[x[1]].payload.id
      BY DEF FramesTo, IsFor
    <2> QED BY <2>1 DEF OrderInv, InOrder
  <1> QED BY <1>1, OrderInvariance, PTL

------------------------------------------------------------------------------
(* The spacing of requests. *)

\* The number of requests is a number.
LEMMA RequestCountNat ==
    ASSUME NEW S, NEW frames \in Seq(S), NEW ip
    PROVE  /\ IsFiniteSet({i \in DOMAIN frames : IsRequestFor(frames[i], ip)})
           /\ RequestCount(frames, ip) \in Nat
  <1>1. DOMAIN frames = 1..Len(frames) /\ Len(frames) \in Nat
    OBVIOUS
  <1>2. IsFiniteSet(1..Len(frames))
    BY <1>1, FS_Interval
  <1> DEFINE requests == {i \in DOMAIN frames : IsRequestFor(frames[i], ip)}
  <1>3. requests \in SUBSET (1..Len(frames))
    BY <1>1
  <1> HIDE DEF requests
  <1>4. IsFiniteSet(requests)
    BY <1>2, <1>3, FS_Subset
  <1>5. Cardinality(requests) \in Nat
    BY <1>4, FS_CardinalityType
  <1> QED BY <1>4, <1>5 DEF RequestCount, requests

\* Frames that ask for nothing add no request.
LEMMA RequestCountExtend ==
    ASSUME NEW S, NEW frames \in Seq(S), NEW more \in Seq(S), NEW longer \in Seq(S), NEW ip,
           Extends(longer, frames, more), \A i \in DOMAIN more : ~IsRequestFor(more[i], ip)
    PROVE  RequestCount(longer, ip) = RequestCount(frames, ip)
  <1>1. /\ DOMAIN frames = 1..Len(frames) /\ DOMAIN more = 1..Len(more)
        /\ DOMAIN longer = 1..Len(frames) + Len(more)
        /\ Len(frames) \in Nat /\ Len(more) \in Nat
    BY DEF Extends
  <1>2. ASSUME NEW i \in DOMAIN longer, IsRequestFor(longer[i], ip)
        PROVE  i \in DOMAIN frames /\ longer[i] = frames[i]
    <2>1. CASE i \in DOMAIN frames
      BY <1>1, <2>1 DEF Extends
    <2>2. CASE i \notin DOMAIN frames
      <3>1. PICK j \in DOMAIN more : i = Len(frames) + j
        <4>1. i - Len(frames) \in DOMAIN more /\ i = Len(frames) + (i - Len(frames))
          BY <1>1, <2>2
        <4> QED BY <4>1
      <3>2. longer[i] = more[j]
        BY <1>1, <3>1 DEF Extends
      <3> QED BY <1>2, <3>2
    <2> QED BY <2>1, <2>2
  <1>3. \A i \in DOMAIN frames : i \in DOMAIN longer /\ longer[i] = frames[i]
    BY <1>1 DEF Extends
  <1>4. {i \in DOMAIN longer : IsRequestFor(longer[i], ip)}
           = {i \in DOMAIN frames : IsRequestFor(frames[i], ip)}
    BY <1>2, <1>3
  <1> QED BY <1>4 DEF RequestCount

\* A request is counted.
LEMMA RequestCountAppend ==
    ASSUME NEW S, NEW frames \in Seq(S), NEW e \in S, NEW longer, longer = Append(frames, e),
           NEW ip, IsRequestFor(e, ip)
    PROVE  RequestCount(longer, ip) > RequestCount(frames, ip)
  <1> DEFINE before == {i \in DOMAIN frames : IsRequestFor(frames[i], ip)}
             after == {i \in DOMAIN longer : IsRequestFor(longer[i], ip)}
             x == Len(frames) + 1
  <1>1. /\ DOMAIN longer = 1..Len(frames) + 1 /\ DOMAIN frames = 1..Len(frames)
        /\ \A i \in 1..Len(frames) : longer[i] = frames[i]
        /\ longer[Len(frames) + 1] = e /\ Len(frames) \in Nat
    OBVIOUS
  <1>2. after = before \union {x} /\ x \notin before
    BY <1>1
  <1>3. IsFiniteSet(before)
    BY RequestCountNat
  <1> HIDE DEF before, after, x
  <1>4. Cardinality(after) = Cardinality(before) + 1
    BY <1>2, <1>3, FS_AddElement
  <1>5. Cardinality(before) \in Nat
    BY <1>3, FS_CardinalityType
  <1>6. Cardinality(after) > Cardinality(before)
    BY <1>4, <1>5
  <1> QED BY <1>6 DEF RequestCount, before, after

\* Taking a frame away adds none.
LEMMA RequestCountTail ==
    ASSUME NEW S, NEW frames \in Seq(S), frames # <<>>, NEW rest, rest = Tail(frames), NEW ip
    PROVE  RequestCount(rest, ip) <= RequestCount(frames, ip)
  <1> DEFINE before == {i \in DOMAIN frames : IsRequestFor(frames[i], ip)}
             after == {i \in DOMAIN rest : IsRequestFor(rest[i], ip)}
             shift == [i \in after |-> i + 1]
  <1>1. /\ DOMAIN frames = 1..Len(frames) /\ Len(frames) \in Nat \ {0}
        /\ DOMAIN rest = 1..Len(frames) - 1
        /\ \A i \in 1..Len(frames) - 1 : rest[i] = frames[i + 1]
    OBVIOUS
  <1>2. \A i \in after : i + 1 \in before /\ i \in Nat
    BY <1>1
  <1>3. IsFiniteSet(before)
    BY RequestCountNat
  <1> HIDE DEF before, after
  <1>4. shift \in Injection(after, before)
    <2>1. shift \in [after -> before]
      BY <1>2
    <2>2. \A a, b \in after : shift[a] = shift[b] => a = b
      BY <1>2
    <2> QED BY <2>1, <2>2 DEF Injection, IsInjective
  <1> HIDE DEF shift
  <1>5. Cardinality(after) <= Cardinality(before)
    BY <1>3, <1>4, FS_Injection
  <1> QED BY <1>5 DEF RequestCount, before, after

\* While a request is younger than 5 s the entry points at its node, which is
\* what keeps another from being made.
AskedIsKnown ==
    \A ip \in Hop :
        asked[ip] # NoNode =>
            \/ n.timestamp >= asked[ip] + ArpRequestWaitingMs
            \/ /\ n.arp_table[ip].request # NoNode
               /\ n.arp_table[ip].request.timestamp = asked[ip]

\* A request is made for the next hop of the datagram, or there is none.
LEMMA SendAsks ==
    ASSUME Inv, NEW hop \in Hop, SendDatagram(hop)
    PROVE  \/ /\ SendsLater(hop)
              /\ asked' = [ip \in Hop |-> IF ip = hop THEN n.timestamp ELSE asked[ip]]
              /\ \A ip \in Hop \ {hop} : RequestCount(n'.frames, ip) = RequestCount(n.frames, ip)
           \/ /\ SendsNow(hop) \/ SendsNothing(hop)
              /\ asked' = asked
              /\ \A ip \in Hop : RequestCount(n'.frames, ip) = RequestCount(n.frames, ip)
  <1> DEFINE All == DatagramFrame(given + 1) \union ARPFrame
  <1>1. /\ given \in Nat /\ n \in Interface(given + 1) /\ Given(hop) \in Datagram(given + 1)
        /\ n' \in Interface(given + 1) /\ n.arp_table[hop] \in Entry(given + 1)
        /\ SendsNow(hop) \/ SendsLater(hop) \/ SendsNothing(hop)
    BY SendCases, HostsAssumption DEF Interface
  <1>2. /\ n.frames \in Seq(All) /\ n'.frames \in Seq(All) /\ n.ethernet_address = MyEth
        /\ n.ipv4 = MyIP
    BY <1>1 DEF Interface
  <1>3. asked' = [ip \in Hop |-> IF RequestCount(n'.frames, ip) > RequestCount(n.frames, ip)
                                 THEN n.timestamp ELSE asked[ip]]
    BY DEF SendDatagram
  <1>4. \A ip \in Hop : RequestCount(n.frames, ip) \in Nat
    BY <1>2, RequestCountNat
  <1>5. ASSUME NEW frame \in All, n'.frames = Append(n.frames, frame),
               NEW ip, ~IsRequestFor(frame, ip)
        PROVE  RequestCount(n'.frames, ip) = RequestCount(n.frames, ip)
    <2> DEFINE more == <<frame>>
    <2>1. more \in Seq(All) /\ Len(more) = 1 /\ more[1] = frame /\ DOMAIN more = {1}
      OBVIOUS
    <2> HIDE DEF All, more
    <2>2. Extends(n'.frames, n.frames, more)
      BY <1>2, <1>5, <2>1 DEF Extends
    <2>3. \A i \in DOMAIN more : ~IsRequestFor(more[i], ip)
      BY <1>5, <2>1
    <2> QED BY <1>2, <2>1, <2>2, <2>3, RequestCountExtend
  <1>6. asked \in [Hop -> Nat \union {NoNode}]
    BY DEF Inv, TypeOK
  <1>7. CASE SendsNow(hop)
    <2> DEFINE frame == IPv4Frame(n, n.arp_table[hop].mapping.eth_addr, Given(hop))
    <2>1. n'.frames = Append(n.frames, frame)
      BY <1>7 DEF SendsNow, FrameAdded
    <2>2. n.arp_table[hop].mapping \in MappingNode
      BY <1>1, <1>7 DEF Entry, SendsNow
    <2>3. frame \in All /\ frame.type = "IPv4"
      BY <1>1, <1>2, <2>2 DEF IPv4Frame, DatagramFrame, MappingNode
    <2> HIDE DEF frame, All
    <2>4. \A ip \in Hop : RequestCount(n'.frames, ip) = RequestCount(n.frames, ip)
      BY <1>5, <2>1, <2>3 DEF IsRequestFor
    <2>5. asked' = asked
      BY <1>3, <1>4, <1>6, <2>4
    <2> QED BY <1>7, <2>4, <2>5
  <1>8. CASE SendsLater(hop)
    <2> DEFINE frame == RequestFrame(n, hop)
               longer == n'.frames
    <2>1. longer = Append(n.frames, frame)
      BY <1>8 DEF SendsLater, Asked
    <2>2. frame \in All /\ \A ip \in Hop : IsRequestFor(frame, ip) <=> ip = hop
      BY <1>1, <1>2 DEF RequestFrame, ARPFrame, IsRequestFor
    <2> HIDE DEF frame, All
    <2>3. \A ip \in Hop \ {hop} : RequestCount(n'.frames, ip) = RequestCount(n.frames, ip)
      BY <1>5, <2>1, <2>2
    <2>4. RequestCount(n'.frames, hop) > RequestCount(n.frames, hop)
      <3>1. IsRequestFor(frame, hop)
        BY <2>2
      <3> HIDE DEF longer
      <3>2. RequestCount(longer, hop) > RequestCount(n.frames, hop)
        BY <1>2, <2>1, <2>2, <3>1, RequestCountAppend
      <3> QED BY <3>2 DEF longer
    <2>5. \A ip \in Hop : RequestCount(n'.frames, ip) > RequestCount(n.frames, ip) <=> ip = hop
      BY <1>4, <2>3, <2>4
    <2> QED BY <1>3, <1>8, <2>3, <2>5
  <1>9. CASE SendsNothing(hop)
    <2>1. \A ip \in Hop : RequestCount(n'.frames, ip) = RequestCount(n.frames, ip)
      BY <1>9 DEF SendsNothing
    <2>2. asked' = asked
      BY <1>3, <1>4, <1>6, <2>1
    <2> QED BY <1>9, <2>1, <2>2
  <1> QED BY <1>1, <1>7, <1>8, <1>9

\* Nothing else adds a request, or remembers one.
LEMMA OthersAskNot ==
    ASSUME Inv, NEW ip \in Hop,
           \/ \E frame \in ARPFrames : RecvARP(frame)
           \/ \E ms \in Ticks : Tick(ms)
           \/ MaybeSend
    PROVE  asked' = asked /\ RequestCount(n'.frames, ip) <= RequestCount(n.frames, ip)
  <1> DEFINE All == DatagramFrame(given) \union ARPFrame
  <1>1. n \in Interface(given) /\ given \in Nat /\ n.frames \in Seq(All)
    BY BoundsAssumption DEF Inv, TypeOK, Interface
  <1>2. RequestCount(n.frames, ip) \in Nat
    BY <1>1, RequestCountNat
  <1>3. ASSUME NEW frame \in ARPFrames, RecvARP(frame)
        PROVE  asked' = asked /\ RequestCount(n'.frames, ip) <= RequestCount(n.frames, ip)
    <2>1. n' = recv_frame(n, frame) /\ asked' = asked
      BY <1>3 DEF RecvARP, Bookkeeping
    <2>2. PICK eth \in Eth, pending \in Seq(Datagram(given)), more \in Seq(All) :
            n' \in Interface(given) /\ Flushes(n, n', eth, pending, more)
      BY <1>1, <2>1, RecvFields
    <2>3. \A i \in DOMAIN more : ~IsRequestFor(more[i], ip)
      <3> TAKE i \in DOMAIN more
      <3>1. DOMAIN more = 1..Len(more) /\ Len(pending) \in Nat /\ Len(more) \in Nat
        BY <2>2
      <3>2. CASE i \in 1..Len(pending)
        <4>1. more[i] = IPv4Frame(n, eth, pending[i])
          BY <2>2, <3>2 DEF Flushes
        <4> QED BY <4>1 DEF IPv4Frame, IsRequestFor
      <3>3. CASE i \in Len(pending) + 1..Len(more)
        BY <2>2, <3>3 DEF Flushes, IsRequestFor
      <3> QED BY <3>1, <3>2, <3>3
    <2>4. n'.frames \in Seq(All) /\ Extends(n'.frames, n.frames, more)
      BY <2>2 DEF Interface, Flushes
    <2>5. RequestCount(n'.frames, ip) = RequestCount(n.frames, ip)
      <3> HIDE DEF All
      <3> QED BY <1>1, <2>2, <2>3, <2>4, RequestCountExtend
    <2> QED BY <1>2, <2>1, <2>5
  <1>4. ASSUME NEW ms \in Ticks, Tick(ms)
        PROVE  asked' = asked /\ RequestCount(n'.frames, ip) <= RequestCount(n.frames, ip)
    <2>1. n' = tick(n, ms) /\ asked' = asked /\ ms \in Nat
      BY <1>4, BoundsAssumption DEF Tick, Bookkeeping
    <2>2. n'.frames = n.frames
      BY <1>1, <2>1, TickFields, ZenonT(60) DEF Ticked
    <2> QED BY <1>2, <2>1, <2>2
  <1>5. ASSUME MaybeSend
        PROVE  asked' = asked /\ RequestCount(n'.frames, ip) <= RequestCount(n.frames, ip)
    <2> DEFINE rest == n'.frames
               frames == n.frames
    <2>1. n' = maybe_send(n) /\ asked' = asked /\ frames # <<>>
      BY <1>5 DEF MaybeSend
    <2>2. rest = Tail(frames) /\ frames \in Seq(All)
      BY <1>1, <2>1, MaybeSendFields DEF FrameTaken
    <2> HIDE DEF rest, frames, All
    <2>3. RequestCount(rest, ip) <= RequestCount(frames, ip)
      BY <2>1, <2>2, RequestCountTail
    <2> QED BY <2>1, <2>3 DEF rest, frames
  <1> QED BY <1>3, <1>4, <1>5

\* A request is forgotten when it is 5 s old, and no sooner.
LEMMA TickAsked ==
    ASSUME Inv, AskedIsKnown, NEW ms \in Ticks, Tick(ms) PROVE AskedIsKnown'
  <1> DEFINE now == n.timestamp + ms
             q == ExpiredCount(n.requests, now, ArpRequestWaitingMs)
  <1>1. given \in Nat /\ n \in Interface(given) /\ n' = tick(n, ms) /\ ms \in Nat /\ asked' = asked
    BY BoundsAssumption DEF Inv, TypeOK, Tick, Bookkeeping
  <1>2. n.requests \in Seq(RequestNode) /\ n.timestamp \in Nat
        /\ asked \in [Hop -> Nat \union {NoNode}]
    BY <1>1 DEF Interface, Inv, TypeOK
  <1>3. Ticked(n, n', ms)
    BY <1>1, TickFields
  <1>4. Len(n.requests) \in Nat /\ DOMAIN n.requests = 1..Len(n.requests)
    BY <1>2
  <1>5. q \in 0..Len(n.requests) /\ \A i \in 1..q : Expired(n.requests[i], now, ArpRequestWaitingMs)
    BY <1>4, ExpiredPrefix
  <1> SUFFICES ASSUME NEW ip \in Hop, asked[ip] # NoNode
               PROVE  \/ n'.timestamp >= asked[ip] + ArpRequestWaitingMs
                      \/ /\ n'.arp_table[ip].request # NoNode
                         /\ n'.arp_table[ip].request.timestamp = asked[ip]
    BY <1>1 DEF AskedIsKnown
  <1>6. n'.timestamp = now /\ asked[ip] \in Nat /\ ip \in IP /\ now >= n.timestamp
    BY <1>1, <1>2, <1>3, HostsAssumption DEF Ticked
  <1>7. CASE n.timestamp >= asked[ip] + ArpRequestWaitingMs
    BY <1>1, <1>2, <1>6, <1>7, TimeoutsAssumption
  <1>8. CASE n.arp_table[ip].request # NoNode /\ n.arp_table[ip].request.timestamp = asked[ip]
    <2>1. CASE ip \notin Addresses(n.requests, q)
      <3>1. n'.arp_table[ip].request = n.arp_table[ip].request
        BY <1>3, <1>6, <2>1 DEF Ticked
      <3> QED BY <1>8, <3>1
    <2>2. CASE ip \in Addresses(n.requests, q)
      <3>1. PICK i \in 1..q : n.requests[i].ipv4 = ip
        BY <2>2 DEF Addresses
      <3>2. i \in DOMAIN n.requests
        BY <1>4, <1>5
      <3> DEFINE pointer == [address \in IP |-> n.arp_table[address].request]
      <3>3. Matches(n.requests, pointer) /\ pointer[ip] # NoNode
        BY <1>6, <1>8 DEF Inv, PointersMatchNodes
      <3>4. n.requests[i] = pointer[ip]
        <4> HIDE DEF pointer
        <4> QED BY <1>6, <3>1, <3>2, <3>3 DEF Matches
      <3>5. Expired(n.requests[i], now, ArpRequestWaitingMs)
        BY <1>5
      <3> QED BY <1>6, <1>8, <3>4, <3>5 DEF Expired
    <2> QED BY <2>1, <2>2
  <1> QED BY <1>7, <1>8 DEF AskedIsKnown

\* A step keeps what is known of the requests that were made.
LEMMA AskedStep ==
    ASSUME Inv, AskedIsKnown, Next PROVE AskedIsKnown'
  <1>1. n \in Interface(given) /\ given \in Nat /\ n.timestamp \in Nat
        /\ \A ip \in Hop : ip \in IP
    BY BoundsAssumption, HostsAssumption DEF Inv, TypeOK, Interface
  <1>2. ASSUME NEW hop \in Hop, SendDatagram(hop) PROVE AskedIsKnown'
    <2>1. CASE SendsNow(hop) \/ SendsNothing(hop)
      <3>1. n'.timestamp = n.timestamp /\ n'.arp_table = n.arp_table
        BY <2>1 DEF SendsNow, SendsNothing, FrameAdded
      <3>2. asked' = asked
        BY <1>2, <2>1, SendAsks DEF SendsNow, SendsNothing, SendsLater
      <3> QED BY <3>1, <3>2 DEF AskedIsKnown
    <2>2. CASE SendsLater(hop)
      <3>1. \A ip \in Hop : asked'[ip] = IF ip = hop THEN n.timestamp ELSE asked[ip]
        BY <1>2, <2>2, SendAsks DEF SendsNow, SendsNothing, SendsLater
      <3> DEFINE node == [ipv4 |-> hop, timestamp |-> n.timestamp]
      <3>2. n'.timestamp = n.timestamp /\ node \in RequestNode
            /\ \A ip \in Hop : n'.arp_table[ip].request =
                                  IF ip = hop THEN node ELSE n.arp_table[ip].request
        BY <1>1, <2>2 DEF SendsLater, Asked
      <3>3. node # NoNode /\ node.timestamp = n.timestamp
        BY <3>2, NodeTypes
      <3> HIDE DEF node
      <3> QED BY <3>1, <3>2, <3>3 DEF AskedIsKnown
    <2> QED BY <1>2, <2>1, <2>2, SendCases
  <1>3. ASSUME NEW frame \in ARPFrames, RecvARP(frame) PROVE AskedIsKnown'
    <2>1. n' = recv_frame(n, frame) /\ asked' = asked
      BY <1>3 DEF RecvARP, Bookkeeping
    <2>2. n'.timestamp = n.timestamp
          /\ \A ip \in Hop : n'.arp_table[ip].request = n.arp_table[ip].request
      BY <1>1, <2>1, RecvFields DEF Flushes
    <2> QED BY <2>1, <2>2 DEF AskedIsKnown
  <1>4. ASSUME NEW ms \in Ticks, Tick(ms) PROVE AskedIsKnown'
    BY <1>4, TickAsked
  <1>5. ASSUME MaybeSend PROVE AskedIsKnown'
    <2>1. n' = maybe_send(n) /\ asked' = asked /\ n.frames # <<>>
      BY <1>5 DEF MaybeSend
    <2>2. n'.timestamp = n.timestamp /\ n'.arp_table = n.arp_table
      BY <1>1, <2>1, MaybeSendFields DEF FrameTaken
    <2> QED BY <2>1, <2>2 DEF AskedIsKnown
  <1> QED BY <1>2, <1>3, <1>4, <1>5 DEF Next

\* Requests for one address are at least 5 s apart, whatever is sent, learnt
\* and forgotten in between (network_interface.cc:43-54).
THEOREM RequestsAreSpaced == Spec => RequestsSpaced
  <1>1. Init => AskedIsKnown
    BY DEF Init, AskedIsKnown
  <1>2. Inv /\ AskedIsKnown /\ [Next]_vars => AskedIsKnown'
    <2>1. ASSUME UNCHANGED vars, AskedIsKnown PROVE AskedIsKnown'
      BY <2>1 DEF vars, AskedIsKnown
    <2> QED BY <2>1, AskedStep
  <1> DEFINE Spaced == \A ip \in Hop :
                          /\ asked[ip] # NoNode
                          /\ RequestCount(n'.frames, ip) > RequestCount(n.frames, ip)
                          => n.timestamp >= asked[ip] + ArpRequestWaitingMs
  <1>3. Inv /\ AskedIsKnown /\ [Next]_vars => [Spaced]_vars
    <2> SUFFICES ASSUME Inv, AskedIsKnown, Next, NEW ip \in Hop, asked[ip] # NoNode,
                        RequestCount(n'.frames, ip) > RequestCount(n.frames, ip)
                 PROVE  n.timestamp >= asked[ip] + ArpRequestWaitingMs
      BY DEF vars
    <2>1. RequestCount(n.frames, ip) \in Nat
      BY RequestCountNat DEF Inv, TypeOK, Interface
    <2>2. RequestCount(n'.frames, ip) # RequestCount(n.frames, ip)
          /\ ~(RequestCount(n'.frames, ip) <= RequestCount(n.frames, ip))
      <3>1. n'.frames \in Seq(DatagramFrame(given') \union ARPFrame)
        BY NextInv DEF Inv, TypeOK, Interface
      <3>2. RequestCount(n'.frames, ip) \in Nat
        BY <3>1, RequestCountNat
      <3> QED BY <2>1, <3>2
    <2>3. PICK hop \in Hop : SendDatagram(hop)
      BY <2>2, OthersAskNot DEF Next
    <2>4. SendsLater(hop) /\ ip = hop
      BY <2>2, <2>3, SendAsks
    <2>5. n.arp_table[ip].request = NoNode
      BY <2>4 DEF SendsLater
    <2> QED BY <2>5 DEF AskedIsKnown
  <1> QED BY <1>1, <1>2, <1>3, Invariance, PTL DEF Spec, RequestsSpaced

=============================================================================
