---------------------------- MODULE ListenerProofs ---------------------------
(***************************************************************************)
(* Proofs about what a listener does before it hands a connection to the   *)
(* application.                                                            *)
(*   - WebRtcMux, for any number of credentials, sources and associations  *)
(*     and every limit: associations that share a socket are kept apart,   *)
(*     and closed in full.                                                 *)
(*   - IncomingConnections, for any number of clients, addresses, tokens   *)
(*     and attempts and every limit: attempts are kept apart, accounted    *)
(*     for and believed rightly until they are answered.                   *)
(***************************************************************************)
EXTENDS WebRtcMux, IncomingConnections, SequenceTheorems, FiniteSetTheorems, TLAPS

-----------------------------------------------------------------------------
(* Associations: the inductive invariant *)

Owners == {"none", "queue", "starts", "connects", "describes", "task", "app", "gone"}
ConnStates == {"none", "open", "closed", "released"}
PeerStates == {"none", "up", "closed"}
DtlsStates == {"New", "Connecting", "Connected", "Closed"}
ExpiryStates == {"armed", "found", "done"}
CloserStates == {"no", "armed", "ending", "closing", "removing", "done"}
Associations ==
    [cred : Credentials \cup {""}, src : Sources \cup {<<>>}, owner : Owners, conn : ConnStates,
     peer : PeerStates, dtls : DtlsStates, expiry : ExpiryStates, expired : BOOLEAN,
     setup : CloserStates, cleanup : CloserStates, closer : CloserStates]
Limits == [asks : Seq(Sources \X Credentials), per_ip : Nat, closes : Nat, fails : Nat, ends : BOOLEAN]

\* A task works for an association with a credential; cleanup begins when the owner is
\* gone.
AssocOk(a) ==
    /\ a.cred \in Credentials \/ (a.owner = "none" /\ a.conn = "none" /\ a.expiry = "done" /\ a.cleanup = "no")
    /\ a.cleanup # "no" => a.owner = "gone"

\* A handshake that waits has a connection to be told through, until a closer has ended
\* it; by the time the slot is taken back it has ended.
HandshakeOk(a) ==
    /\ a.dtls = "Connecting" => a.conn = "open" /\ a.peer = "up"
    /\ "closing" \in {a.setup, a.cleanup, a.closer} => a.dtls \notin {"New", "Connecting"}
    /\ a.cleanup \in {"removing", "done"} => a.dtls = "Closed" \/ a.peer = "none"

AssocInv ==
    \A g \in Generations : AssocOk(assoc[g]) /\ (mux = "open" /\ ~assoc[g].expired => HandshakeOk(assoc[g]))

RtcType ==
    /\ assoc \in [Generations -> Associations]
    /\ next_generation \in 1 .. MaxGeneration + 1
    /\ admitted \in [Credentials -> 0 .. MaxGeneration]
    /\ pendings \in [Credentials -> 0 .. MaxGeneration]
    /\ routes \in [Credentials -> 0 .. MaxGeneration]
    /\ address_map \in [Sources -> 0 .. MaxGeneration]
    /\ accepting \in 0 .. MaxGeneration
    /\ may \in Limits /\ Len(may.asks) <= MaxGeneration

\* The generation in a slot is one that was given out for its credential, and the other
\* tables name no other generation.
SlotInv ==
    /\ \A k \in Credentials :
         /\ admitted[k] # None => admitted[k] < next_generation /\ assoc[admitted[k]].cred = k
         /\ routes[k] # None => routes[k] = admitted[k]
         /\ pendings[k] # None => pendings[k] = admitted[k]
    /\ \A s \in Sources :
         address_map[s] # None => address_map[s] < next_generation /\ assoc[address_map[s]].src = s
    /\ \A g \in Generations : assoc[g].conn = "open" => routes[assoc[g].cred] = g
    /\ mux # "open" => \A k \in Credentials : routes[k] = None

\* The channel holds each association once, with its owner.
QueueInv ==
    /\ queued \in Seq(Generations)
    /\ \A i \in DOMAIN queued : queued[i] < next_generation /\ assoc[queued[i]].owner = "queue"
    /\ \A i, j \in DOMAIN queued : i < j => queued[i] < queued[j]
    /\ accepting # None => assoc[accepting].cred \in Credentials

RtcInv == RtcType /\ AssocInv /\ SlotInv /\ QueueInv

\* The tables are empty: the invariant holds of the initial states.
LEMMA RtcInitInv == RtcInit => RtcInv
<1> SUFFICES ASSUME RtcInit
             PROVE  RtcInv
    OBVIOUS
<1> USE DEF RtcInit, None, Generations
<1>1. Unused \in Associations
    BY DEF Unused, Associations, Owners, ConnStates, PeerStates, DtlsStates, ExpiryStates, CloserStates
<1>2. /\ Unused.owner = "none" /\ Unused.conn = "none" /\ Unused.expiry = "done" /\ Unused.cleanup = "no"
      /\ Unused.dtls = "New" /\ Unused.setup = "no" /\ Unused.closer = "no"
    BY DEF Unused
<1>3. may \in Limits /\ Len(may.asks) <= MaxGeneration /\ MaxGeneration \in Nat
    BY WebRtcConstants DEF Limits
<1>4. RtcType
    BY <1>1, <1>3 DEF RtcType
<1>5. AssocInv
    <2>1. AssocOk(Unused) /\ HandshakeOk(Unused)
        BY <1>2 DEF AssocOk, HandshakeOk
    <2> QED
        BY <2>1 DEF AssocInv
<1>6. SlotInv
    BY <1>2 DEF SlotInv
<1>7. QueueInv
    BY DEF QueueInv
<1> QED
    BY <1>4, <1>5, <1>6, <1>7 DEF RtcInv

-----------------------------------------------------------------------------
(* One association changes *)

\* The association g becomes a.
Becomes(g, a) ==
    /\ assoc' = [assoc EXCEPT ![g] = a]
    /\ a \in Associations /\ AssocOk(a)
    /\ mux = "open" /\ ~a.expired => HandshakeOk(a)
    /\ a.cred = assoc[g].cred /\ a.src = assoc[g].src

\* Credentials may cease to be pending.
FewerPending ==
    /\ pendings' \in [Credentials -> 0 .. MaxGeneration]
    /\ \A k \in Credentials : pendings'[k] = None \/ pendings'[k] = pendings[k]

\* When one association changes and opens nothing, and no table gains an entry, the
\* tables still agree.
LEMMA SlotsKept ==
    ASSUME RtcInv, NEW g \in Generations, NEW a, Becomes(g, a), a.conn = "open" => assoc[g].conn = "open",
           FewerPending, accepting' \in 0 .. MaxGeneration,
           may' \in Limits, Len(may'.asks) <= MaxGeneration,
           UNCHANGED <<next_generation, admitted, routes, address_map, mux>>
    PROVE  RtcType' /\ AssocInv' /\ SlotInv'
<1>1. /\ DOMAIN assoc = Generations /\ assoc' \in [Generations -> Associations]
      /\ assoc'[g] = a /\ \A h \in Generations : h # g => assoc'[h] = assoc[h]
    BY DEF RtcInv, RtcType, Becomes
<1>2. RtcType'
    BY <1>1 DEF RtcInv, RtcType, FewerPending
<1>3. AssocInv'
    BY <1>1 DEF RtcInv, AssocInv, Becomes
<1>4. \A h \in Generations : /\ assoc'[h].cred = assoc[h].cred /\ assoc'[h].src = assoc[h].src
                               /\ (assoc'[h].conn = "open" => assoc[h].conn = "open")
    BY <1>1 DEF Becomes
<1>5. SlotInv'
    <2>1. \A k \in Credentials : admitted[k] # None => admitted[k] \in Generations
        BY DEF RtcInv, RtcType, Generations, None
    <2>2. \A s \in Sources : address_map[s] # None => address_map[s] \in Generations
        BY DEF RtcInv, RtcType, Generations, None
    <2>3. SlotInv
        BY DEF RtcInv
    <2> QED
        BY <1>4, <2>1, <2>2, <2>3 DEF SlotInv, FewerPending
<1> QED
    BY <1>2, <1>3, <1>5

\* When an association in the channel stays there, the channel is as it was.
LEMMA QueueKept ==
    ASSUME RtcInv, NEW g \in Generations, NEW a, Becomes(g, a), assoc[g].owner = "queue" => a.owner = "queue",
           accepting' \in {accepting, None}, UNCHANGED <<next_generation, queued>>
    PROVE  QueueInv'
<1>1. /\ DOMAIN assoc = Generations /\ assoc'[g] = a
      /\ \A h \in Generations : h # g => assoc'[h] = assoc[h]
    BY DEF RtcInv, RtcType, Becomes
<1>2. \A h \in Generations : /\ assoc'[h].cred = assoc[h].cred
                               /\ (assoc[h].owner = "queue" => assoc'[h].owner = "queue")
    BY <1>1 DEF Becomes
<1>3. queued \in Seq(Generations) /\ \A i \in DOMAIN queued : queued[i] \in Generations
    BY DEF RtcInv, QueueInv
<1>4. accepting # None => accepting \in Generations
    BY DEF RtcInv, RtcType, Generations, None
<1> QED
    BY <1>2, <1>3, <1>4 DEF RtcInv, QueueInv

\* The other tables stay.
TablesKept ==
    /\ FewerPending /\ accepting' \in {accepting, None}
    /\ may' \in Limits /\ Len(may'.asks) <= MaxGeneration
    /\ UNCHANGED <<next_generation, admitted, routes, address_map, queued, mux>>

\* A step of one association that leaves the tables keeps the invariant.
LEMMA OneMoves ==
    ASSUME RtcInv, NEW g \in Generations, NEW a, Becomes(g, a), a.conn = "open" => assoc[g].conn = "open",
           assoc[g].owner = "queue" => a.owner = "queue", TablesKept
    PROVE  RtcInv'
<1>1. accepting' \in 0 .. MaxGeneration
    BY WebRtcConstants DEF RtcInv, RtcType, None, TablesKept
<1> QED
    BY <1>1, SlotsKept, QueueKept DEF RtcInv, TablesKept

\* The limits of a behaviour are counted down.
LEMMA LimitsKept ==
    ASSUME RtcInv,
           \/ may.closes > 0 /\ may' = [may EXCEPT !.closes = @ - 1]
           \/ may.fails > 0 /\ may' = [may EXCEPT !.fails = @ - 1]
    PROVE  may' \in Limits /\ Len(may'.asks) <= MaxGeneration
<1>1. may \in Limits /\ Len(may.asks) <= MaxGeneration
    BY DEF RtcInv, RtcType
<1>2. may.closes \in Nat /\ may.fails \in Nat
    BY <1>1 DEF Limits
<1>3. CASE may.closes > 0 /\ may' = [may EXCEPT !.closes = @ - 1]
    <2> DEFINE n == may.closes - 1
    <2>1. n \in Nat /\ may' = [may EXCEPT !.closes = n]
        BY <1>2, <1>3
    <2> HIDE DEF n
    <2>2. may' \in Limits /\ may'.asks = may.asks
        BY <1>1, <2>1 DEF Limits
    <2> QED
        BY <1>1, <2>2
<1>4. CASE may.fails > 0 /\ may' = [may EXCEPT !.fails = @ - 1]
    <2> DEFINE n == may.fails - 1
    <2>1. n \in Nat /\ may' = [may EXCEPT !.fails = n]
        BY <1>2, <1>4
    <2> HIDE DEF n
    <2>2. may' \in Limits /\ may'.asks = may.asks
        BY <1>1, <2>1 DEF Limits
    <2> QED
        BY <1>1, <2>2
<1> QED
    BY <1>3, <1>4

\* AssociationOwner::drop.
LEMMA OwnerDropsIs ==
    ASSUME RtcInv, NEW g \in Generations, assoc[g].owner # "gone", assoc[g].cred \in Credentials, OwnerDrops(g)
    PROVE  /\ FewerPending
           /\ \E a : Becomes(g, a) /\ a.owner = "gone" /\ a.conn = assoc[g].conn
<1> DEFINE b == assoc[g]
           c == IF b.peer = "none" THEN "removing" ELSE "ending"
           a == [b EXCEPT !.owner = "gone", !.cleanup = c]
<1>1. FewerPending
    BY WebRtcConstants DEF RtcInv, RtcType, OwnerDrops, FewerPending, None, Admitted
<1>2. b \in Associations /\ AssocOk(b) /\ (mux = "open" /\ ~b.expired => HandshakeOk(b))
    BY DEF RtcInv, RtcType, AssocInv
<1>3. assoc' = [assoc EXCEPT ![g] = a]
    BY DEF OwnerDrops, RtcInv, RtcType
<1>4. a = [b EXCEPT !.owner = "gone", !.cleanup = c]
    OBVIOUS
<1>5. c \in {"removing", "ending"} /\ (c = "removing" => b.peer = "none") /\ b.cred \in Credentials
    OBVIOUS
<1> HIDE DEF a, b, c
<1>6. /\ a \in Associations /\ a.owner = "gone" /\ a.cleanup = c
      /\ a.cred = b.cred /\ a.src = b.src /\ a.conn = b.conn /\ a.peer = b.peer /\ a.dtls = b.dtls
      /\ a.expired = b.expired /\ a.expiry = b.expiry /\ a.setup = b.setup /\ a.closer = b.closer
    <2>1. b \in Associations /\ c \in CloserStates /\ "gone" \in Owners
        BY <1>2, <1>5 DEF CloserStates, Owners
    <2>2. a \in Associations
        BY <1>4, <2>1 DEF Associations
    <2>3. a.expired = b.expired
        BY <1>4, <2>1 DEF Associations
    <2>4. /\ a.owner = "gone" /\ a.cleanup = c
          /\ a.cred = b.cred /\ a.src = b.src /\ a.conn = b.conn /\ a.peer = b.peer /\ a.dtls = b.dtls
          /\ a.expiry = b.expiry /\ a.setup = b.setup /\ a.closer = b.closer
        BY <1>4, <2>1 DEF Associations
    <2> QED
        BY <2>2, <2>3, <2>4
<1>7. AssocOk(a)
    BY <1>5, <1>6 DEF AssocOk
<1>8. mux = "open" /\ ~a.expired => HandshakeOk(a)
    BY <1>2, <1>5, <1>6 DEF HandshakeOk
<1>9. Becomes(g, a)
    BY <1>3, <1>6, <1>7, <1>8 DEF Becomes, b
<1> QED
    BY <1>1, <1>6, <1>9 DEF b

-----------------------------------------------------------------------------
(* Steps of one association *)

\* create_inbound_connection makes the peer while its connection is open.
LEMMA MakesPeerStep ==
    ASSUME RtcInv, NEW g \in Generations, assoc[g].conn = "open", MakesPeer(g)
    PROVE  RtcInv'
<1> DEFINE b == assoc[g]
           a == [b EXCEPT !.owner = "describes", !.peer = "up", !.setup = "armed"]
<1>1. b \in Associations /\ AssocOk(b) /\ (mux = "open" /\ ~b.expired => HandshakeOk(b))
    BY DEF RtcInv, RtcType, AssocInv
<1>2. assoc' = [assoc EXCEPT ![g] = a]
    BY DEF MakesPeer, RtcInv, RtcType
<1>3. a = [b EXCEPT !.owner = "describes", !.peer = "up", !.setup = "armed"]
    OBVIOUS
<1>4. b.owner = "connects" /\ b.conn = "open"
    BY DEF MakesPeer
<1> HIDE DEF a, b
<1>5. b \in Associations /\ "describes" \in Owners /\ "up" \in PeerStates /\ "armed" \in CloserStates
    <2>1. b \in Associations
        BY <1>1
    <2> QED
        BY <1>4, <2>1 DEF Associations, CloserStates, Owners, PeerStates
<1>6. a \in Associations /\ a.expired = b.expired
    BY <1>3, <1>5 DEF Associations
<1>7. /\ a.owner = "describes" /\ a.peer = "up" /\ a.setup = "armed" /\ a.cred = b.cred /\ a.src = b.src /\ a.conn = b.conn
      /\ a.dtls = b.dtls /\ a.expiry = b.expiry /\ a.cleanup = b.cleanup /\ a.closer = b.closer
    BY <1>3, <1>5 DEF Associations
<1>8. AssocOk(a) /\ (a.conn = "open" => b.conn = "open") /\ (b.owner = "queue" => a.owner = "queue")
    BY <1>1, <1>4, <1>7 DEF AssocOk
<1>9. mux = "open" /\ ~a.expired => HandshakeOk(a)
    BY <1>1, <1>4, <1>6, <1>7 DEF HandshakeOk, AssocOk, Associations, DtlsStates
<1>10. TablesKept
    BY DEF TablesKept, FewerPending, MakesPeer, RtcInv, RtcType
<1> QED
    BY <1>2, <1>6, <1>7, <1>8, <1>9, <1>10, OneMoves DEF Becomes, b

\* create_inbound_connection returns.
LEMMA DescribedStep ==
    ASSUME RtcInv, NEW g \in Generations, Described(g)
    PROVE  RtcInv'
<1> DEFINE b == assoc[g]
           a == [b EXCEPT !.owner = "task"]
<1>1. b \in Associations /\ AssocOk(b) /\ (mux = "open" /\ ~b.expired => HandshakeOk(b))
    BY DEF RtcInv, RtcType, AssocInv
<1>2. assoc' = [assoc EXCEPT ![g] = a]
    BY DEF Described, RtcInv, RtcType
<1>3. a = [b EXCEPT !.owner = "task"]
    OBVIOUS
<1>4. b.owner = "describes"
    BY DEF Described
<1> HIDE DEF a, b
<1>5. b \in Associations /\ "task" \in Owners
    <2>1. b \in Associations
        BY <1>1
    <2> QED
        BY <1>4, <2>1 DEF Associations, Owners
<1>6. a \in Associations /\ a.expired = b.expired
    BY <1>3, <1>5 DEF Associations
<1>7. /\ a.owner = "task" /\ a.cred = b.cred /\ a.src = b.src /\ a.conn = b.conn /\ a.peer = b.peer /\ a.dtls = b.dtls
      /\ a.expiry = b.expiry /\ a.setup = b.setup /\ a.cleanup = b.cleanup /\ a.closer = b.closer
    BY <1>3, <1>5 DEF Associations
<1>8. AssocOk(a) /\ (a.conn = "open" => b.conn = "open") /\ (b.owner = "queue" => a.owner = "queue")
    BY <1>1, <1>4, <1>7 DEF AssocOk
<1>9. mux = "open" /\ ~a.expired => HandshakeOk(a)
    BY <1>1, <1>4, <1>6, <1>7 DEF HandshakeOk, AssocOk, Associations, DtlsStates
<1>10. TablesKept
    BY DEF TablesKept, FewerPending, Described, RtcInv, RtcType
<1> QED
    BY <1>2, <1>6, <1>7, <1>8, <1>9, <1>10, OneMoves DEF Becomes, b

\* accept returns the connection or the error of its task.
LEMMA AcceptReturnsStep ==
    ASSUME RtcInv, NEW g \in Generations, g = accepting, AcceptReturns
    PROVE  RtcInv'
<1> DEFINE b == assoc[g]
           o == IF b.owner = "task" THEN "app" ELSE b.owner
           a == [b EXCEPT !.owner = o]
<1>1. b \in Associations /\ AssocOk(b) /\ (mux = "open" /\ ~b.expired => HandshakeOk(b))
    BY DEF RtcInv, RtcType, AssocInv
<1>2. assoc' = [assoc EXCEPT ![g] = a]
    BY DEF AcceptReturns, RtcInv, RtcType
<1>3. a = [b EXCEPT !.owner = o]
    OBVIOUS
<1>4. b.owner \in {"task", "gone"} /\ o \in Owners /\ (b.owner = "gone" => o = "gone") /\ o # "none" /\ (b.owner = "task" => o = "app")
    BY DEF AcceptReturns, Owners
<1> HIDE DEF a, b, o
<1>5. b \in Associations /\ o \in Owners
    <2>1. b \in Associations
        BY <1>1
    <2> QED
        BY <1>4, <2>1 DEF Associations, Owners
<1>6. a \in Associations /\ a.expired = b.expired
    BY <1>3, <1>5 DEF Associations
<1>7. /\ a.owner = o /\ a.cred = b.cred /\ a.src = b.src /\ a.conn = b.conn /\ a.peer = b.peer /\ a.dtls = b.dtls
      /\ a.expiry = b.expiry /\ a.setup = b.setup /\ a.cleanup = b.cleanup /\ a.closer = b.closer
    BY <1>3, <1>5 DEF Associations
<1>8. AssocOk(a) /\ (a.conn = "open" => b.conn = "open") /\ (b.owner = "queue" => a.owner = "queue")
    BY <1>1, <1>4, <1>7 DEF AssocOk
<1>9. mux = "open" /\ ~a.expired => HandshakeOk(a)
    BY <1>1, <1>4, <1>6, <1>7 DEF HandshakeOk, AssocOk, Associations, DtlsStates
<1>10. TablesKept
    BY DEF TablesKept, FewerPending, AcceptReturns, RtcInv, RtcType
<1> QED
    BY <1>2, <1>6, <1>7, <1>8, <1>9, <1>10, OneMoves DEF Becomes, b

\* ICE connects, DTLS starts and completes.
LEMMA DtlsStep ==
    ASSUME RtcInv, NEW g \in Generations, NEW d, d \in {"Connecting", "Connected"}, Dtls(g), assoc' = [assoc EXCEPT ![g].dtls = d],
           assoc[g].dtls = (IF d = "Connecting" THEN "New" ELSE "Connecting")
    PROVE  RtcInv'
<1> DEFINE b == assoc[g]
           a == [b EXCEPT !.dtls = d]
<1>1. b \in Associations /\ AssocOk(b) /\ (mux = "open" /\ ~b.expired => HandshakeOk(b))
    BY DEF RtcInv, RtcType, AssocInv
<1>2. assoc' = [assoc EXCEPT ![g] = a]
    BY DEF Dtls, RtcInv, RtcType
<1>3. a = [b EXCEPT !.dtls = d]
    OBVIOUS
<1>4. /\ b.peer = "up" /\ b.conn = "open" /\ d \in {"Connecting", "Connected"}
      /\ b.dtls = (IF d = "Connecting" THEN "New" ELSE "Connecting")
    BY DEF Dtls
<1> HIDE DEF a, b
<1>5. b \in Associations /\ d \in DtlsStates
    <2>1. b \in Associations
        BY <1>1
    <2> QED
        BY <1>4, <2>1 DEF Associations, DtlsStates
<1>6. a \in Associations /\ a.expired = b.expired
    BY <1>3, <1>5 DEF Associations
<1>7. /\ a.dtls = d /\ a.cred = b.cred /\ a.src = b.src /\ a.owner = b.owner /\ a.conn = b.conn /\ a.peer = b.peer
      /\ a.expiry = b.expiry /\ a.setup = b.setup /\ a.cleanup = b.cleanup /\ a.closer = b.closer
    BY <1>3, <1>5 DEF Associations
<1>8. AssocOk(a) /\ (a.conn = "open" => b.conn = "open") /\ (b.owner = "queue" => a.owner = "queue")
    BY <1>1, <1>4, <1>7 DEF AssocOk
<1>9. mux = "open" /\ ~a.expired => HandshakeOk(a)
    BY <1>1, <1>4, <1>6, <1>7 DEF HandshakeOk, AssocOk, Associations, DtlsStates
<1>10. TablesKept
    BY DEF TablesKept, FewerPending, Dtls, RtcInv, RtcType
<1> QED
    BY <1>2, <1>6, <1>7, <1>8, <1>9, <1>10, OneMoves DEF Becomes, b

\* The expiry looks whether the association is still pending.
LEMMA ExpiryLooksStep ==
    ASSUME RtcInv, NEW g \in Generations, ExpiryLooks(g)
    PROVE  RtcInv'
<1> DEFINE b == assoc[g]
           e == IF Admitted(g) /\ pendings[b.cred] = g THEN "found" ELSE "done"
           a == [b EXCEPT !.expiry = e]
<1>1. b \in Associations /\ AssocOk(b) /\ (mux = "open" /\ ~b.expired => HandshakeOk(b))
    BY DEF RtcInv, RtcType, AssocInv
<1>2. assoc' = [assoc EXCEPT ![g] = a]
    BY DEF ExpiryLooks, RtcInv, RtcType
<1>3. a = [b EXCEPT !.expiry = e]
    OBVIOUS
<1>4. b.expiry = "armed" /\ e \in {"found", "done"}
    BY DEF ExpiryLooks
<1> HIDE DEF a, b, e
<1>5. b \in Associations /\ e \in ExpiryStates
    <2>1. b \in Associations
        BY <1>1
    <2> QED
        BY <1>4, <2>1 DEF Associations, ExpiryStates
<1>6. a \in Associations /\ a.expired = b.expired
    BY <1>3, <1>5 DEF Associations
<1>7. /\ a.expiry = e /\ a.cred = b.cred /\ a.src = b.src /\ a.owner = b.owner /\ a.conn = b.conn /\ a.peer = b.peer
      /\ a.dtls = b.dtls /\ a.setup = b.setup /\ a.cleanup = b.cleanup /\ a.closer = b.closer
    BY <1>3, <1>5 DEF Associations
<1>8. AssocOk(a) /\ (a.conn = "open" => b.conn = "open") /\ (b.owner = "queue" => a.owner = "queue")
    BY <1>1, <1>4, <1>7 DEF AssocOk
<1>9. mux = "open" /\ ~a.expired => HandshakeOk(a)
    BY <1>1, <1>4, <1>6, <1>7 DEF HandshakeOk, AssocOk, Associations, DtlsStates
<1>10. TablesKept
    BY DEF TablesKept, FewerPending, ExpiryLooks, RtcInv, RtcType
<1> QED
    BY <1>2, <1>6, <1>7, <1>8, <1>9, <1>10, OneMoves DEF Becomes, b

\* The setup deadline finds the handshake unfinished, or is over.
LEMMA SetupDeadlineStep ==
    ASSUME RtcInv, NEW g \in Generations, SetupDeadline(g)
    PROVE  RtcInv'
<1> DEFINE b == assoc[g]
           e == IF b.cleanup \in {"no", "ending", "closing"} /\ b.dtls # "Connected" THEN "ending" ELSE "done"
           a == [b EXCEPT !.setup = e]
<1>1. b \in Associations /\ AssocOk(b) /\ (mux = "open" /\ ~b.expired => HandshakeOk(b))
    BY DEF RtcInv, RtcType, AssocInv
<1>2. assoc' = [assoc EXCEPT ![g] = a]
    BY DEF SetupDeadline, RtcInv, RtcType
<1>3. a = [b EXCEPT !.setup = e]
    OBVIOUS
<1>4. e \in {"ending", "done"}
    OBVIOUS
<1> HIDE DEF a, b, e
<1>5. b \in Associations /\ e \in CloserStates
    <2>1. b \in Associations
        BY <1>1
    <2> QED
        BY <1>4, <2>1 DEF Associations, CloserStates
<1>6. a \in Associations /\ a.expired = b.expired
    BY <1>3, <1>5 DEF Associations
<1>7. /\ a.setup = e /\ a.cred = b.cred /\ a.src = b.src /\ a.owner = b.owner /\ a.conn = b.conn /\ a.peer = b.peer
      /\ a.dtls = b.dtls /\ a.expiry = b.expiry /\ a.cleanup = b.cleanup /\ a.closer = b.closer
    BY <1>3, <1>5 DEF Associations
<1>8. AssocOk(a) /\ (a.conn = "open" => b.conn = "open") /\ (b.owner = "queue" => a.owner = "queue")
    BY <1>1, <1>4, <1>7 DEF AssocOk
<1>9. mux = "open" /\ ~a.expired => HandshakeOk(a)
    BY <1>1, <1>4, <1>6, <1>7 DEF HandshakeOk, AssocOk, Associations, DtlsStates
<1>10. TablesKept
    BY DEF TablesKept, FewerPending, SetupDeadline, RtcInv, RtcType
<1> QED
    BY <1>2, <1>6, <1>7, <1>8, <1>9, <1>10, OneMoves DEF Becomes, b

\* WebRtcDirectConnection::close begins.
LEMMA AppClosesStep ==
    ASSUME RtcInv, NEW g \in Generations, AppCloses(g)
    PROVE  RtcInv'
<1> DEFINE b == assoc[g]
           a == [b EXCEPT !.closer = "ending"]
<1>1. b \in Associations /\ AssocOk(b) /\ (mux = "open" /\ ~b.expired => HandshakeOk(b))
    BY DEF RtcInv, RtcType, AssocInv
<1>2. assoc' = [assoc EXCEPT ![g] = a]
    BY DEF AppCloses, RtcInv, RtcType
<1>3. a = [b EXCEPT !.closer = "ending"]
    OBVIOUS
<1>4. b.owner = "app"
    BY DEF AppCloses
<1> HIDE DEF a, b
<1>5. b \in Associations /\ "ending" \in CloserStates
    <2>1. b \in Associations
        BY <1>1
    <2> QED
        BY <1>4, <2>1 DEF Associations, CloserStates
<1>6. a \in Associations /\ a.expired = b.expired
    BY <1>3, <1>5 DEF Associations
<1>7. /\ a.closer = "ending" /\ a.cred = b.cred /\ a.src = b.src /\ a.owner = b.owner /\ a.conn = b.conn /\ a.peer = b.peer
      /\ a.dtls = b.dtls /\ a.expiry = b.expiry /\ a.setup = b.setup /\ a.cleanup = b.cleanup
    BY <1>3, <1>5 DEF Associations
<1>8. AssocOk(a) /\ (a.conn = "open" => b.conn = "open") /\ (b.owner = "queue" => a.owner = "queue")
    BY <1>1, <1>4, <1>7 DEF AssocOk
<1>9. mux = "open" /\ ~a.expired => HandshakeOk(a)
    BY <1>1, <1>4, <1>6, <1>7 DEF HandshakeOk, AssocOk, Associations, DtlsStates
<1>10. TablesKept
    BY LimitsKept DEF TablesKept, FewerPending, AppCloses, RtcInv, RtcType
<1> QED
    BY <1>2, <1>6, <1>7, <1>8, <1>9, <1>10, OneMoves DEF Becomes, b

\* close_inbound_peer ends the handshake, called by the setup deadline.
LEMMA SetupEndsStep ==
    ASSUME RtcInv, NEW g \in Generations, EndsHandshake(g, "setup")
    PROVE  RtcInv'
<1> DEFINE b == assoc[g]
           d == IF b.dtls = "New" \/ (b.dtls = "Connecting" /\ b.conn = "open" /\ b.peer = "up") THEN "Closed" ELSE b.dtls
           a == [b EXCEPT !.setup = "closing", !.dtls = d]
<1>1. b \in Associations /\ AssocOk(b) /\ (mux = "open" /\ ~b.expired => HandshakeOk(b))
    BY DEF RtcInv, RtcType, AssocInv
<1>2. assoc' = [assoc EXCEPT ![g] = a]
    BY DEF EndsHandshake, RtcInv, RtcType
<1>3. a = [b EXCEPT !.setup = "closing", !.dtls = d]
    OBVIOUS
<1>4. /\ b.setup = "ending" /\ d \in {b.dtls, "Closed"} /\ d # "New"
      /\ d = "Connecting" => ~(b.conn = "open" /\ b.peer = "up")
      /\ b.dtls = "Closed" => d = "Closed"
    BY DEF EndsHandshake
<1> HIDE DEF a, b, d
<1>5. b \in Associations /\ "closing" \in CloserStates /\ d \in DtlsStates
    <2>1. b \in Associations
        BY <1>1
    <2> QED
        BY <1>4, <2>1 DEF Associations, CloserStates, DtlsStates
<1>6. a \in Associations /\ a.expired = b.expired
    BY <1>3, <1>5 DEF Associations
<1>7. /\ a.setup = "closing" /\ a.dtls = d /\ a.cred = b.cred /\ a.src = b.src /\ a.owner = b.owner /\ a.conn = b.conn
      /\ a.peer = b.peer /\ a.expiry = b.expiry /\ a.cleanup = b.cleanup /\ a.closer = b.closer
    BY <1>3, <1>5 DEF Associations
<1>8. AssocOk(a) /\ (a.conn = "open" => b.conn = "open") /\ (b.owner = "queue" => a.owner = "queue")
    BY <1>1, <1>4, <1>7 DEF AssocOk
<1>9. mux = "open" /\ ~a.expired => HandshakeOk(a)
    BY <1>1, <1>4, <1>6, <1>7 DEF HandshakeOk, AssocOk, Associations, DtlsStates
<1>10. TablesKept
    BY DEF TablesKept, FewerPending, EndsHandshake, RtcInv, RtcType
<1> QED
    BY <1>2, <1>6, <1>7, <1>8, <1>9, <1>10, OneMoves DEF Becomes, b

\* The same, called by the cleanup of a dropped owner.
LEMMA CleanupEndsStep ==
    ASSUME RtcInv, NEW g \in Generations, EndsHandshake(g, "cleanup")
    PROVE  RtcInv'
<1> DEFINE b == assoc[g]
           d == IF b.dtls = "New" \/ (b.dtls = "Connecting" /\ b.conn = "open" /\ b.peer = "up") THEN "Closed" ELSE b.dtls
           a == [b EXCEPT !.cleanup = "closing", !.dtls = d]
<1>1. b \in Associations /\ AssocOk(b) /\ (mux = "open" /\ ~b.expired => HandshakeOk(b))
    BY DEF RtcInv, RtcType, AssocInv
<1>2. assoc' = [assoc EXCEPT ![g] = a]
    BY DEF EndsHandshake, RtcInv, RtcType
<1>3. a = [b EXCEPT !.cleanup = "closing", !.dtls = d]
    OBVIOUS
<1>4. /\ b.cleanup = "ending" /\ d \in {b.dtls, "Closed"} /\ d # "New"
      /\ d = "Connecting" => ~(b.conn = "open" /\ b.peer = "up")
      /\ b.dtls = "Closed" => d = "Closed"
    BY DEF EndsHandshake
<1> HIDE DEF a, b, d
<1>5. b \in Associations /\ "closing" \in CloserStates /\ d \in DtlsStates
    <2>1. b \in Associations
        BY <1>1
    <2> QED
        BY <1>4, <2>1 DEF Associations, CloserStates, DtlsStates
<1>6. a \in Associations /\ a.expired = b.expired
    BY <1>3, <1>5 DEF Associations
<1>7. /\ a.cleanup = "closing" /\ a.dtls = d /\ a.cred = b.cred /\ a.src = b.src /\ a.owner = b.owner /\ a.conn = b.conn
      /\ a.peer = b.peer /\ a.expiry = b.expiry /\ a.setup = b.setup /\ a.closer = b.closer
    BY <1>3, <1>5 DEF Associations
<1>8. AssocOk(a) /\ (a.conn = "open" => b.conn = "open") /\ (b.owner = "queue" => a.owner = "queue")
    BY <1>1, <1>4, <1>7 DEF AssocOk
<1>9. mux = "open" /\ ~a.expired => HandshakeOk(a)
    BY <1>1, <1>4, <1>6, <1>7 DEF HandshakeOk, AssocOk, Associations, DtlsStates
<1>10. TablesKept
    BY DEF TablesKept, FewerPending, EndsHandshake, RtcInv, RtcType
<1> QED
    BY <1>2, <1>6, <1>7, <1>8, <1>9, <1>10, OneMoves DEF Becomes, b

\* The same, called by WebRtcDirectConnection::close.
LEMMA CloserEndsStep ==
    ASSUME RtcInv, NEW g \in Generations, EndsHandshake(g, "closer")
    PROVE  RtcInv'
<1> DEFINE b == assoc[g]
           d == IF b.dtls = "New" \/ (b.dtls = "Connecting" /\ b.conn = "open" /\ b.peer = "up") THEN "Closed" ELSE b.dtls
           a == [b EXCEPT !.closer = "closing", !.dtls = d]
<1>1. b \in Associations /\ AssocOk(b) /\ (mux = "open" /\ ~b.expired => HandshakeOk(b))
    BY DEF RtcInv, RtcType, AssocInv
<1>2. assoc' = [assoc EXCEPT ![g] = a]
    BY DEF EndsHandshake, RtcInv, RtcType
<1>3. a = [b EXCEPT !.closer = "closing", !.dtls = d]
    OBVIOUS
<1>4. /\ b.closer = "ending" /\ d \in {b.dtls, "Closed"} /\ d # "New"
      /\ d = "Connecting" => ~(b.conn = "open" /\ b.peer = "up")
      /\ b.dtls = "Closed" => d = "Closed"
    BY DEF EndsHandshake
<1> HIDE DEF a, b, d
<1>5. b \in Associations /\ "closing" \in CloserStates /\ d \in DtlsStates
    <2>1. b \in Associations
        BY <1>1
    <2> QED
        BY <1>4, <2>1 DEF Associations, CloserStates, DtlsStates
<1>6. a \in Associations /\ a.expired = b.expired
    BY <1>3, <1>5 DEF Associations
<1>7. /\ a.closer = "closing" /\ a.dtls = d /\ a.cred = b.cred /\ a.src = b.src /\ a.owner = b.owner /\ a.conn = b.conn
      /\ a.peer = b.peer /\ a.expiry = b.expiry /\ a.setup = b.setup /\ a.cleanup = b.cleanup
    BY <1>3, <1>5 DEF Associations
<1>8. AssocOk(a) /\ (a.conn = "open" => b.conn = "open") /\ (b.owner = "queue" => a.owner = "queue")
    BY <1>1, <1>4, <1>7 DEF AssocOk
<1>9. mux = "open" /\ ~a.expired => HandshakeOk(a)
    BY <1>1, <1>4, <1>6, <1>7 DEF HandshakeOk, AssocOk, Associations, DtlsStates
<1>10. TablesKept
    BY DEF TablesKept, FewerPending, EndsHandshake, RtcInv, RtcType
<1> QED
    BY <1>2, <1>6, <1>7, <1>8, <1>9, <1>10, OneMoves DEF Becomes, b

\* close_inbound_peer closes the peer, called by the setup deadline.
LEMMA SetupClosesStep ==
    ASSUME RtcInv, NEW g \in Generations, ClosesPeer(g, "setup")
    PROVE  RtcInv'
<1> DEFINE b == assoc[g]
           c == IF b.conn = "open" THEN "closed" ELSE b.conn
           d == IF b.dtls = "Connected" THEN "Closed" ELSE b.dtls
           a == [b EXCEPT !.setup = "done", !.peer = "closed", !.conn = c, !.dtls = d]
<1>1. b \in Associations /\ AssocOk(b) /\ (mux = "open" /\ ~b.expired => HandshakeOk(b))
    BY DEF RtcInv, RtcType, AssocInv
<1>2. assoc' = [assoc EXCEPT ![g] = a]
    BY DEF ClosesPeer, RtcInv, RtcType
<1>3. a = [b EXCEPT !.setup = "done", !.peer = "closed", !.conn = c, !.dtls = d]
    OBVIOUS
<1>4. /\ b.setup = "closing" /\ c \in {b.conn, "closed"} /\ c # "open" /\ d \in {b.dtls, "Closed"} /\ d # "Connected"
      /\ (b.conn = "none" => c = "none") /\ (b.dtls = "Closed" => d = "Closed")
    BY DEF ClosesPeer
<1> HIDE DEF a, b, c, d
<1>5. b \in Associations /\ "done" \in CloserStates /\ "closed" \in PeerStates /\ c \in ConnStates /\ d \in DtlsStates
    <2>1. b \in Associations
        BY <1>1
    <2> QED
        BY <1>4, <2>1 DEF Associations, CloserStates, ConnStates, DtlsStates, PeerStates
<1>6. a \in Associations /\ a.expired = b.expired
    BY <1>3, <1>5 DEF Associations
<1>7. /\ a.setup = "done" /\ a.peer = "closed" /\ a.conn = c /\ a.dtls = d /\ a.cred = b.cred /\ a.src = b.src
      /\ a.owner = b.owner /\ a.expiry = b.expiry /\ a.cleanup = b.cleanup /\ a.closer = b.closer
    BY <1>3, <1>5 DEF Associations
<1>8. AssocOk(a) /\ (a.conn = "open" => b.conn = "open") /\ (b.owner = "queue" => a.owner = "queue")
    BY <1>1, <1>4, <1>7 DEF AssocOk
<1>9. mux = "open" /\ ~a.expired => HandshakeOk(a)
    BY <1>1, <1>4, <1>6, <1>7 DEF HandshakeOk, AssocOk, Associations, DtlsStates
<1>10. TablesKept
    BY DEF TablesKept, FewerPending, ClosesPeer, RtcInv, RtcType
<1> QED
    BY <1>2, <1>6, <1>7, <1>8, <1>9, <1>10, OneMoves DEF Becomes, b

\* The same, called by the cleanup of a dropped owner.
LEMMA CleanupClosesStep ==
    ASSUME RtcInv, NEW g \in Generations, ClosesPeer(g, "cleanup")
    PROVE  RtcInv'
<1> DEFINE b == assoc[g]
           c == IF b.conn = "open" THEN "closed" ELSE b.conn
           d == IF b.dtls = "Connected" THEN "Closed" ELSE b.dtls
           a == [b EXCEPT !.cleanup = "removing", !.peer = "closed", !.conn = c, !.dtls = d]
<1>1. b \in Associations /\ AssocOk(b) /\ (mux = "open" /\ ~b.expired => HandshakeOk(b))
    BY DEF RtcInv, RtcType, AssocInv
<1>2. assoc' = [assoc EXCEPT ![g] = a]
    BY DEF ClosesPeer, RtcInv, RtcType
<1>3. a = [b EXCEPT !.cleanup = "removing", !.peer = "closed", !.conn = c, !.dtls = d]
    OBVIOUS
<1>4. /\ b.cleanup = "closing" /\ c \in {b.conn, "closed"} /\ c # "open" /\ d \in {b.dtls, "Closed"} /\ d # "Connected"
      /\ (b.conn = "none" => c = "none") /\ (b.dtls = "Closed" => d = "Closed")
    BY DEF ClosesPeer
<1> HIDE DEF a, b, c, d
<1>5. b \in Associations /\ "removing" \in CloserStates /\ "closed" \in PeerStates /\ c \in ConnStates /\ d \in DtlsStates
    <2>1. b \in Associations
        BY <1>1
    <2> QED
        BY <1>4, <2>1 DEF Associations, CloserStates, ConnStates, DtlsStates, PeerStates
<1>6. a \in Associations /\ a.expired = b.expired
    BY <1>3, <1>5 DEF Associations
<1>7. /\ a.cleanup = "removing" /\ a.peer = "closed" /\ a.conn = c /\ a.dtls = d /\ a.cred = b.cred /\ a.src = b.src
      /\ a.owner = b.owner /\ a.expiry = b.expiry /\ a.setup = b.setup /\ a.closer = b.closer
    BY <1>3, <1>5 DEF Associations
<1>8. AssocOk(a) /\ (a.conn = "open" => b.conn = "open") /\ (b.owner = "queue" => a.owner = "queue")
    BY <1>1, <1>4, <1>7 DEF AssocOk
<1>9. mux = "open" /\ ~a.expired => HandshakeOk(a)
    BY <1>1, <1>4, <1>6, <1>7 DEF HandshakeOk, AssocOk, Associations, DtlsStates
<1>10. TablesKept
    BY DEF TablesKept, FewerPending, ClosesPeer, RtcInv, RtcType
<1> QED
    BY <1>2, <1>6, <1>7, <1>8, <1>9, <1>10, OneMoves DEF Becomes, b

\* The same, called by WebRtcDirectConnection::close.
LEMMA CloserClosesStep ==
    ASSUME RtcInv, NEW g \in Generations, ClosesPeer(g, "closer")
    PROVE  RtcInv'
<1> DEFINE b == assoc[g]
           c == IF b.conn = "open" THEN "closed" ELSE b.conn
           d == IF b.dtls = "Connected" THEN "Closed" ELSE b.dtls
           a == [b EXCEPT !.closer = "done", !.peer = "closed", !.conn = c, !.dtls = d]
<1>1. b \in Associations /\ AssocOk(b) /\ (mux = "open" /\ ~b.expired => HandshakeOk(b))
    BY DEF RtcInv, RtcType, AssocInv
<1>2. assoc' = [assoc EXCEPT ![g] = a]
    BY DEF ClosesPeer, RtcInv, RtcType
<1>3. a = [b EXCEPT !.closer = "done", !.peer = "closed", !.conn = c, !.dtls = d]
    OBVIOUS
<1>4. /\ b.closer = "closing" /\ c \in {b.conn, "closed"} /\ c # "open" /\ d \in {b.dtls, "Closed"} /\ d # "Connected"
      /\ (b.conn = "none" => c = "none") /\ (b.dtls = "Closed" => d = "Closed")
    BY DEF ClosesPeer
<1> HIDE DEF a, b, c, d
<1>5. b \in Associations /\ "done" \in CloserStates /\ "closed" \in PeerStates /\ c \in ConnStates /\ d \in DtlsStates
    <2>1. b \in Associations
        BY <1>1
    <2> QED
        BY <1>4, <2>1 DEF Associations, CloserStates, ConnStates, DtlsStates, PeerStates
<1>6. a \in Associations /\ a.expired = b.expired
    BY <1>3, <1>5 DEF Associations
<1>7. /\ a.closer = "done" /\ a.peer = "closed" /\ a.conn = c /\ a.dtls = d /\ a.cred = b.cred /\ a.src = b.src
      /\ a.owner = b.owner /\ a.expiry = b.expiry /\ a.setup = b.setup /\ a.cleanup = b.cleanup
    BY <1>3, <1>5 DEF Associations
<1>8. AssocOk(a) /\ (a.conn = "open" => b.conn = "open") /\ (b.owner = "queue" => a.owner = "queue")
    BY <1>1, <1>4, <1>7 DEF AssocOk
<1>9. mux = "open" /\ ~a.expired => HandshakeOk(a)
    BY <1>1, <1>4, <1>6, <1>7 DEF HandshakeOk, AssocOk, Associations, DtlsStates
<1>10. TablesKept
    BY DEF TablesKept, FewerPending, ClosesPeer, RtcInv, RtcType
<1> QED
    BY <1>2, <1>6, <1>7, <1>8, <1>9, <1>10, OneMoves DEF Becomes, b

\* Setup fails, or finds its slot taken back, or the application drops the connection.
LEMMA OwnerDropsStep ==
    ASSUME RtcInv, NEW g \in Generations, OwnerDrops(g), assoc[g].owner \notin {"none", "queue", "gone"},
           may' \in Limits, Len(may'.asks) <= MaxGeneration,
           UNCHANGED <<next_generation, admitted, routes, address_map, queued, accepting, mux>>
    PROVE  RtcInv'
<1>1. assoc[g].cred \in Credentials
    BY DEF RtcInv, AssocInv, AssocOk
<1>2. FewerPending /\ \E a : Becomes(g, a) /\ a.owner = "gone" /\ a.conn = assoc[g].conn
    BY <1>1, OwnerDropsIs
<1>3. PICK a : Becomes(g, a) /\ a.owner = "gone" /\ a.conn = assoc[g].conn
    BY <1>2
<1>4. TablesKept
    BY <1>2 DEF TablesKept
<1> QED
    BY <1>3, <1>4, OneMoves

\* create_inbound_connection: get_owned_conn.
LEMMA TakesConnStep ==
    ASSUME RtcInv, NEW g \in Generations, TakesConn(g)
    PROVE  RtcInv'
<1>1. may' = may /\ may \in Limits /\ Len(may.asks) <= MaxGeneration /\ assoc[g].owner = "starts"
    BY DEF RtcInv, RtcType, TakesConn
<1>2. CASE ~(mux = "open" /\ Admitted(g))
    BY <1>1, <1>2, OwnerDropsStep DEF TakesConn
<1>3. CASE mux = "open" /\ Admitted(g)
    <2> DEFINE b == assoc[g]
               a == [b EXCEPT !.owner = "connects", !.conn = "open"]
               k == b.cred
    <2>1. b \in Associations /\ AssocOk(b) /\ (mux = "open" /\ ~b.expired => HandshakeOk(b))
        BY DEF RtcInv, RtcType, AssocInv
    <2>2. assoc' = [assoc EXCEPT ![g] = a]
        BY <1>3 DEF TakesConn, RtcInv, RtcType
    <2>3. a = [b EXCEPT !.owner = "connects", !.conn = "open"]
        OBVIOUS
    <2>4. k \in Credentials /\ admitted[k] = g /\ b.owner = "starts" /\ b.cred = k
        BY <1>1, <1>3 DEF Admitted
    <2>5. routes' = [routes EXCEPT ![k] = g]
        <3>1. routes' = [routes EXCEPT ![k] = IF routes[k] = None THEN g ELSE routes[k]]
            BY <1>3 DEF TakesConn
        <3>2. routes[k] # None => routes[k] = g
            BY <2>4 DEF RtcInv, SlotInv
        <3> QED
            BY <3>1, <3>2
    <2>6. FewerPending /\ UNCHANGED <<next_generation, admitted, address_map, queued, accepting, mux, may>>
        BY <1>3 DEF TakesConn, FewerPending, RtcInv, RtcType
    <2> HIDE DEF a, b, k
    <2>7. b \in Associations /\ "connects" \in Owners /\ "open" \in ConnStates
        BY <2>1 DEF Owners, ConnStates
    <2>8. a \in Associations /\ a.expired = b.expired
        BY <2>3, <2>7 DEF Associations
    <2>9. /\ a.owner = "connects" /\ a.conn = "open" /\ a.cred = b.cred /\ a.src = b.src /\ a.peer = b.peer
          /\ a.dtls = b.dtls /\ a.expiry = b.expiry /\ a.setup = b.setup /\ a.cleanup = b.cleanup /\ a.closer = b.closer
        BY <2>3, <2>7 DEF Associations
    <2>10. AssocOk(a)
        BY <2>1, <2>4, <2>9 DEF AssocOk
    <2>11. mux = "open" /\ ~a.expired => HandshakeOk(a)
        BY <2>1, <2>4, <2>8, <2>9 DEF HandshakeOk, AssocOk
    <2>12. Becomes(g, a)
        BY <2>2, <2>8, <2>9, <2>10, <2>11 DEF Becomes, b
    <2>13. QueueInv'
        BY <2>4, <2>6, <2>12, QueueKept DEF b
    <2>14. /\ assoc' \in [Generations -> Associations] /\ assoc'[g] = a
           /\ \A h \in Generations : h # g => assoc'[h] = assoc[h]
        BY <2>2, <2>8 DEF RtcInv, RtcType
    <2>15. RtcType'
        <3>1. routes' \in [Credentials -> 0 .. MaxGeneration]
            <4>1. g \in 0 .. MaxGeneration /\ routes \in [Credentials -> 0 .. MaxGeneration]
                BY WebRtcConstants DEF RtcInv, RtcType, Generations
            <4> QED
                BY <2>5, <4>1
        <3> QED
            BY <2>6, <2>14, <3>1 DEF RtcInv, RtcType, FewerPending
    <2>16. AssocInv'
        BY <2>6, <2>10, <2>11, <2>14 DEF RtcInv, AssocInv
    <2>17. SlotInv'
        <3>1. routes'[k] = g /\ \A j \in Credentials : j # k => routes'[j] = routes[j]
            BY <2>4, <2>5 DEF RtcInv, RtcType
        <3>2. \A h \in Generations : assoc'[h].cred = assoc[h].cred /\ assoc'[h].src = assoc[h].src
            BY <2>9, <2>14 DEF b
        <3>3. \A j \in Credentials : admitted[j] # None => admitted[j] \in Generations
            BY DEF RtcInv, RtcType, Generations, None
        <3>4. \A s \in Sources : address_map[s] # None => address_map[s] \in Generations
            BY DEF RtcInv, RtcType, Generations, None
        <3>5. ASSUME NEW h \in Generations, assoc'[h].conn = "open"
              PROVE  routes'[assoc'[h].cred] = h
            <4>1. CASE h = g
                BY <2>4, <2>9, <2>14, <3>1, <4>1
            <4>2. CASE h # g
                <5>1. assoc'[h] = assoc[h] /\ assoc[h].conn = "open"
                    BY <2>14, <3>5, <4>2
                <5>2. routes[assoc[h].cred] = h /\ assoc[h].cred \in Credentials
                    BY <5>1 DEF RtcInv, SlotInv, AssocInv, AssocOk
                <5>3. assoc[h].cred # k
                    BY <2>4, <4>2, <5>2 DEF RtcInv, SlotInv, Generations, None
                <5> QED
                    BY <3>1, <5>1, <5>2, <5>3
            <4> QED
                BY <4>1, <4>2
        <3>6. \A j \in Credentials : routes'[j] # None => routes'[j] = admitted[j]
            BY <2>4, <3>1 DEF RtcInv, SlotInv
        <3> QED
            BY <1>3, <2>6, <3>2, <3>3, <3>4, <3>5, <3>6 DEF RtcInv, SlotInv, FewerPending
    <2> QED
        BY <2>13, <2>15, <2>16, <2>17 DEF RtcInv
<1> QED
    BY <1>2, <1>3

\* register_owned_address.
LEMMA RegisterAddressStep ==
    ASSUME RtcInv, NEW g \in Generations, RegisterAddress(g)
    PROVE  RtcInv'
<1> DEFINE src == assoc[g].src
           old == address_map[src]
           new == IF old # None /\ assoc[old].cred = assoc[g].cred THEN old ELSE g
<1>1. UNCHANGED <<assoc, next_generation, admitted, routes, queued, accepting, mux, may>>
    BY DEF RegisterAddress
<1>2. address_map' = [address_map EXCEPT ![src] = new] /\ pendings' = [pendings EXCEPT ![assoc[g].cred] = None]
    BY DEF RegisterAddress
<1>3. Admitted(g)
    BY DEF RegisterAddress
<1>4. new \in {old, g} /\ (new = old => old # None \/ g = None)
    OBVIOUS
<1>5. g < next_generation /\ g # None /\ g \in 0 .. MaxGeneration
    BY <1>3, WebRtcConstants DEF Admitted, RtcInv, SlotInv, Generations, None
<1> HIDE DEF src, old, new
<1>6. FewerPending
    <2>1. None \in 0 .. MaxGeneration /\ pendings \in [Credentials -> 0 .. MaxGeneration]
        BY WebRtcConstants DEF RtcInv, RtcType, None
    <2> QED
        BY <1>2, <2>1 DEF FewerPending
<1>7. \A s \in Sources : address_map'[s] = address_map[s] \/ (s = src /\ address_map'[s] \in {old, g})
    BY <1>2, <1>4 DEF RtcInv, RtcType
<1>8. \A s \in Sources : address_map'[s] = address_map[s] \/ (s = assoc[g].src /\ address_map'[s] = g)
    BY <1>7 DEF old, src
<1>9. address_map' \in [Sources -> 0 .. MaxGeneration]
    <2>1. DOMAIN address_map' = Sources /\ address_map' = [s \in Sources |-> address_map'[s]]
        BY <1>2 DEF RtcInv, RtcType
    <2>2. \A s \in Sources : address_map'[s] \in 0 .. MaxGeneration
        BY <1>5, <1>8 DEF RtcInv, RtcType
    <2> QED
        BY <2>1, <2>2
<1>10. RtcType'
    BY <1>1, <1>6, <1>9 DEF RtcInv, RtcType, FewerPending
<1>11. AssocInv' /\ QueueInv'
    BY <1>1 DEF RtcInv, AssocInv, QueueInv
<1>12. SlotInv'
    <2>1. \A s \in Sources : address_map'[s] # None =>
            address_map'[s] < next_generation /\ assoc[address_map'[s]].src = s
        BY <1>5, <1>8 DEF RtcInv, SlotInv
    <2> QED
        BY <1>1, <1>6, <2>1 DEF RtcInv, SlotInv, FewerPending
<1> QED
    BY <1>10, <1>11, <1>12 DEF RtcInv

\* remove_owned_connection, by a task of generation g that makes its association c.
LEMMA RemoveOwnedStep ==
    ASSUME RtcInv, NEW g \in Generations, NEW c \in Associations, assoc[g].cred \in Credentials,
           RemoveOwned(g, [assoc EXCEPT ![g] = c]),
           c.cred = assoc[g].cred, c.src = assoc[g].src, c.owner = assoc[g].owner,
           c.conn = "open" => assoc[g].conn = "open", AssocOk(c),
           mux = "open" /\ ~c.expired => HandshakeOk(c) /\ c.dtls # "Connecting",
           UNCHANGED <<next_generation, queued, accepting, mux, may>>
    PROVE  RtcInv'
<1> DEFINE k == assoc[g].cred
           r == routes[k]
           was == [assoc EXCEPT ![g] = c]
<1>1. /\ assoc \in [Generations -> Associations] /\ was \in [Generations -> Associations] /\ was[g] = c
      /\ \A h \in Generations : h # g => was[h] = assoc[h]
    BY DEF RtcInv, RtcType
<1>2. was[g].cred = k /\ k \in Credentials /\ None \in 0 .. MaxGeneration
    BY <1>1, WebRtcConstants DEF None
<1>3. may \in Limits /\ Len(may.asks) <= MaxGeneration
    BY DEF RtcInv, RtcType
<1>4. CASE admitted[k] # g
    <2>1. assoc' = was /\ UNCHANGED <<admitted, pendings, routes, address_map>>
        BY <1>2, <1>4 DEF RemoveOwned
    <2>2. Becomes(g, c)
        BY <2>1 DEF Becomes
    <2>3. TablesKept
        BY <1>3, <2>1 DEF TablesKept, FewerPending, RtcInv, RtcType
    <2> QED
        BY <2>2, <2>3, OneMoves
<1>5. CASE admitted[k] = g
    <2> DEFINE a == IF r # None THEN [c EXCEPT !.conn = "closed"] ELSE c
    <2>1. /\ admitted' = [admitted EXCEPT ![k] = None] /\ pendings' = [pendings EXCEPT ![k] = None]
          /\ routes' = [routes EXCEPT ![k] = None]
          /\ address_map' = [s \in Sources |->
               IF r # None /\ address_map[s] # None /\ was[address_map[s]].cred = k THEN None ELSE address_map[s]]
          /\ assoc' = IF r # None THEN [was EXCEPT ![r].conn = "closed"] ELSE was
        BY <1>2, <1>5 DEF RemoveOwned
    <2>2. r # None => r = g
        BY <1>2, <1>5 DEF RtcInv, SlotInv
    <2>3. /\ a \in Associations /\ AssocOk(a) /\ (mux = "open" /\ ~a.expired => HandshakeOk(a))
          /\ a.cred = k /\ a.src = assoc[g].src /\ a.owner = assoc[g].owner
          /\ a.conn # "open" \/ (r = None /\ assoc[g].conn = "open")
        <3>1. CASE r = None
            BY <3>1
        <3>2. CASE r # None
            <4>1. a = [c EXCEPT !.conn = "closed"] /\ "closed" \in ConnStates
                BY <3>2 DEF ConnStates
            <4> HIDE DEF a
            <4>2. a \in Associations /\ a.expired = c.expired
                BY <4>1 DEF Associations
            <4>3. /\ a.conn = "closed" /\ a.cred = c.cred /\ a.src = c.src /\ a.owner = c.owner /\ a.peer = c.peer
                  /\ a.dtls = c.dtls /\ a.setup = c.setup /\ a.cleanup = c.cleanup /\ a.closer = c.closer
                BY <4>1 DEF Associations
            <4>4. AssocOk(a) /\ (mux = "open" /\ ~a.expired => HandshakeOk(a))
                BY <1>2, <4>2, <4>3 DEF AssocOk, HandshakeOk
            <4> QED
                BY <4>2, <4>3, <4>4
        <3> QED
            BY <3>1, <3>2
    <2>4. assoc' = [assoc EXCEPT ![g] = a]
        BY <1>1, <2>1, <2>2
    <2> HIDE DEF a
    <2>5. Becomes(g, a)
        BY <2>3, <2>4 DEF Becomes
    <2>6. QueueInv'
        BY <2>3, <2>5, QueueKept
    <2>7. /\ assoc' \in [Generations -> Associations] /\ assoc'[g] = a
          /\ \A h \in Generations : h # g => assoc'[h] = assoc[h]
        BY <1>1, <2>3, <2>4
    <2>8. AssocInv'
        BY <2>3, <2>7 DEF RtcInv, AssocInv
    <2>9. /\ admitted'[k] = None /\ pendings'[k] = None /\ routes'[k] = None
          /\ \A j \in Credentials : j # k =>
               admitted'[j] = admitted[j] /\ pendings'[j] = pendings[j] /\ routes'[j] = routes[j]
        BY <1>2, <2>1 DEF RtcInv, RtcType
    <2>10. \A s \in Sources : address_map'[s] \in {None, address_map[s]}
        BY <2>1
    <2>11. RtcType'
        <3>1. /\ admitted' \in [Credentials -> 0 .. MaxGeneration] /\ pendings' \in [Credentials -> 0 .. MaxGeneration]
              /\ routes' \in [Credentials -> 0 .. MaxGeneration]
            BY <1>2, <2>1 DEF RtcInv, RtcType
        <3>2. address_map' \in [Sources -> 0 .. MaxGeneration]
            <4>1. address_map \in [Sources -> 0 .. MaxGeneration]
                BY DEF RtcInv, RtcType
            <4> QED
                BY <1>2, <2>1, <4>1
        <3> QED
            BY <2>7, <3>1, <3>2 DEF RtcInv, RtcType
    <2>12. SlotInv'
        <3>1. \A h \in Generations : assoc'[h].cred = assoc[h].cred /\ assoc'[h].src = assoc[h].src
            BY <2>3, <2>7
        <3>2. \A j \in Credentials : admitted[j] # None => admitted[j] \in Generations
            BY DEF RtcInv, RtcType, Generations, None
        <3>3. \A s \in Sources : address_map[s] # None => address_map[s] \in Generations
            BY DEF RtcInv, RtcType, Generations, None
        <3>4. ASSUME NEW h \in Generations, assoc'[h].conn = "open"
              PROVE  routes'[assoc'[h].cred] = h
            <4>1. h # g
                <5>1. assoc[g].conn = "open" => r = g
                    BY DEF RtcInv, SlotInv
                <5> QED
                    BY <2>3, <2>7, <3>4, <5>1 DEF Generations, None
            <4>2. assoc'[h] = assoc[h] /\ routes[assoc[h].cred] = h /\ assoc[h].cred \in Credentials
                BY <2>7, <3>4, <4>1 DEF RtcInv, SlotInv, AssocInv, AssocOk
            <4>3. assoc[h].cred # k
                BY <2>2, <4>1, <4>2 DEF Generations, None
            <4> QED
                BY <2>9, <4>2, <4>3
        <3> QED
            BY <2>9, <2>10, <3>1, <3>2, <3>3, <3>4 DEF RtcInv, SlotInv
    <2> QED
        BY <2>6, <2>8, <2>11, <2>12 DEF RtcInv
<1> QED
    BY <1>4, <1>5

\* The expiry, the watcher of a closed connection and the cleanup take the slot back.
LEMMA RemovalsStep ==
    ASSUME RtcInv, NEW g \in Generations, ExpiryRemoves(g) \/ ConnClosed(g) \/ CleanupRemoves(g)
    PROVE  RtcInv'
<1> DEFINE b == assoc[g]
<1>1. /\ b \in Associations /\ AssocOk(b) /\ (mux = "open" /\ ~b.expired => HandshakeOk(b))
      /\ assoc \in [Generations -> Associations]
    BY DEF RtcInv, RtcType, AssocInv
<1>2. b.cred \in Credentials
    BY <1>1 DEF AssocOk, ExpiryRemoves, ConnClosed, CleanupRemoves
<1>3. UNCHANGED <<next_generation, queued, accepting, mux, may>>
    BY DEF ExpiryRemoves, ConnClosed, CleanupRemoves
<1>4. CASE ExpiryRemoves(g)
    <2> DEFINE a == [b EXCEPT !.expiry = "done", !.expired = TRUE]
    <2>1. RemoveOwned(g, [assoc EXCEPT ![g] = a])
        <3>1. [assoc EXCEPT ![g].expiry = "done", ![g].expired = TRUE] = [assoc EXCEPT ![g] = a]
            BY <1>1
        <3>2. RemoveOwned(g, [assoc EXCEPT ![g].expiry = "done", ![g].expired = TRUE])
            BY <1>4 DEF ExpiryRemoves
        <3> HIDE DEF a, b
        <3> QED
            BY <3>1, <3>2
    <2>2. a = [b EXCEPT !.expiry = "done", !.expired = TRUE] /\ "done" \in ExpiryStates
        BY DEF ExpiryStates
    <2> HIDE DEF a, b
    <2>3. a \in Associations
        BY <1>1, <2>2 DEF Associations
    <2>4. /\ a.expiry = "done" /\ a.cred = b.cred /\ a.src = b.src /\ a.owner = b.owner /\ a.conn = b.conn
          /\ a.cleanup = b.cleanup
        BY <1>1, <2>2 DEF Associations
    <2>5. a.expired
        BY <1>1, <2>2 DEF Associations
    <2>6. AssocOk(a)
        BY <1>1, <1>2, <2>4 DEF AssocOk
    <2> QED
        BY <1>2, <1>3, <2>1, <2>3, <2>4, <2>5, <2>6, RemoveOwnedStep DEF b
<1>5. CASE ConnClosed(g)
    <2> DEFINE a == [b EXCEPT !.conn = "released"]
    <2>1. RemoveOwned(g, [assoc EXCEPT ![g] = a]) /\ b.conn = "closed"
        <3>1. [assoc EXCEPT ![g].conn = "released"] = [assoc EXCEPT ![g] = a]
            BY <1>1
        <3>2. RemoveOwned(g, [assoc EXCEPT ![g].conn = "released"]) /\ b.conn = "closed"
            BY <1>5 DEF ConnClosed
        <3> HIDE DEF a, b
        <3> QED
            BY <3>1, <3>2
    <2>2. a = [b EXCEPT !.conn = "released"] /\ "released" \in ConnStates
        BY DEF ConnStates
    <2> HIDE DEF a, b
    <2>3. a \in Associations /\ a.expired = b.expired
        BY <1>1, <2>2 DEF Associations
    <2>4. /\ a.conn = "released" /\ a.cred = b.cred /\ a.src = b.src /\ a.owner = b.owner /\ a.expiry = b.expiry
          /\ a.peer = b.peer /\ a.dtls = b.dtls /\ a.setup = b.setup /\ a.cleanup = b.cleanup /\ a.closer = b.closer
        BY <1>1, <2>2 DEF Associations
    <2>5. AssocOk(a)
        BY <1>1, <1>2, <2>4 DEF AssocOk
    <2>6. mux = "open" /\ ~a.expired => HandshakeOk(a) /\ a.dtls # "Connecting"
        BY <1>1, <2>1, <2>3, <2>4 DEF HandshakeOk
    <2> QED
        BY <1>2, <1>3, <2>1, <2>3, <2>4, <2>5, <2>6, RemoveOwnedStep DEF b
<1>6. CASE CleanupRemoves(g)
    <2> DEFINE a == [b EXCEPT !.cleanup = "done"]
    <2>1. RemoveOwned(g, [assoc EXCEPT ![g] = a]) /\ b.cleanup = "removing"
        <3>1. [assoc EXCEPT ![g].cleanup = "done"] = [assoc EXCEPT ![g] = a]
            BY <1>1
        <3>2. RemoveOwned(g, [assoc EXCEPT ![g].cleanup = "done"]) /\ b.cleanup = "removing"
            BY <1>6 DEF CleanupRemoves
        <3> HIDE DEF a, b
        <3> QED
            BY <3>1, <3>2
    <2>2. a = [b EXCEPT !.cleanup = "done"] /\ "done" \in CloserStates
        BY DEF CloserStates
    <2> HIDE DEF a, b
    <2>3. a \in Associations /\ a.expired = b.expired
        BY <1>1, <2>2 DEF Associations
    <2>4. /\ a.cleanup = "done" /\ a.cred = b.cred /\ a.src = b.src /\ a.owner = b.owner /\ a.expiry = b.expiry
          /\ a.peer = b.peer /\ a.dtls = b.dtls /\ a.setup = b.setup /\ a.conn = b.conn /\ a.closer = b.closer
        BY <1>1, <2>2 DEF Associations
    <2>5. AssocOk(a)
        BY <1>1, <1>2, <2>1, <2>4 DEF AssocOk
    <2>6. mux = "open" /\ ~a.expired => HandshakeOk(a) /\ a.dtls # "Connecting"
        BY <1>1, <2>1, <2>3, <2>4 DEF HandshakeOk
    <2> QED
        BY <1>2, <1>3, <2>1, <2>3, <2>4, <2>5, <2>6, RemoveOwnedStep DEF b
<1> QED
    BY <1>4, <1>5, <1>6

-----------------------------------------------------------------------------
(* The listener *)

\* The driver gives out a generation, and with it a slot or not.
LEMMA AdmitStep ==
    ASSUME RtcInv, NEW src \in Sources, NEW k \in Credentials, next_generation \in Generations, Admit(src, k)
    PROVE  RtcInv'
<1> DEFINE n == next_generation
<1>1. /\ n \in Generations /\ n + 1 \in 1 .. MaxGeneration + 1 /\ next_generation' = n + 1 /\ n \in 0 .. MaxGeneration
      /\ n \in Nat /\ n # None
    BY WebRtcConstants DEF Generations, Admit, None
<1>2. UNCHANGED <<routes, address_map, accepting, mux, may>>
    BY DEF Admit
<1>3. /\ \A j \in Credentials : admitted[j] # None => admitted[j] \in Generations /\ admitted[j] # n
      /\ \A s \in Sources : address_map[s] # None => address_map[s] \in Generations /\ address_map[s] # n
    <2>1. /\ \A j \in Credentials : admitted[j] \in 0 .. MaxGeneration /\ (admitted[j] # None => admitted[j] < n)
          /\ \A s \in Sources : address_map[s] \in 0 .. MaxGeneration /\ (address_map[s] # None => address_map[s] < n)
        BY DEF RtcInv, RtcType, SlotInv
    <2> QED
        BY <1>1, <2>1, WebRtcConstants DEF Generations, None
<1>4. queued \in Seq(Generations) /\ \A i \in DOMAIN queued : queued[i] \in Generations /\ queued[i] # n
    <2>1. queued \in Seq(Generations) /\ \A i \in DOMAIN queued : queued[i] \in Generations /\ queued[i] < n
        BY DEF RtcInv, QueueInv
    <2> QED
        BY <1>1, <2>1 DEF Generations
<1>5. \A x \in 0 .. MaxGeneration : x < n => x < n + 1
    BY <1>1
<1>6. CASE UNCHANGED <<assoc, admitted, pendings, queued>>
    <2>1. RtcType' /\ AssocInv'
        BY <1>1, <1>2, <1>6 DEF RtcInv, RtcType, AssocInv
    <2>2. SlotInv'
        <3>1. /\ \A j \in Credentials : admitted[j] \in 0 .. MaxGeneration
              /\ \A s \in Sources : address_map[s] \in 0 .. MaxGeneration
            BY DEF RtcInv, RtcType
        <3> QED
            BY <1>1, <1>2, <1>5, <1>6, <3>1 DEF RtcInv, SlotInv
    <2>3. QueueInv'
        <3>1. \A i \in DOMAIN queued : queued[i] \in 0 .. MaxGeneration
            BY <1>4 DEF Generations
        <3> QED
            BY <1>1, <1>2, <1>5, <1>6, <3>1 DEF RtcInv, QueueInv
    <2> QED
        BY <2>1, <2>2, <2>3 DEF RtcInv
<1>7. CASE ~(admitted[k] # None \/ pendings[k] # None \/ Refused(src))
    <2> DEFINE room == Len(queued) < QueueSize
               o == IF room THEN "queue" ELSE "none"
               a == [Unused EXCEPT !.cred = k, !.src = src, !.expiry = "armed", !.owner = o]
    <2>1. /\ assoc' = [assoc EXCEPT ![n] = a]
          /\ room => /\ admitted' = [admitted EXCEPT ![k] = n] /\ pendings' = [pendings EXCEPT ![k] = n]
                     /\ queued' = Append(queued, n)
          /\ ~room => UNCHANGED <<admitted, pendings, queued>>
        BY <1>7 DEF Admit
    <2>2. /\ a \in Associations /\ a.cred = k /\ a.src = src /\ a.owner = o /\ a.conn = "none" /\ a.cleanup = "no"
          /\ a.dtls = "New" /\ a.setup = "no" /\ a.closer = "no"
        BY DEF Unused, Associations, Owners, ConnStates, PeerStates, DtlsStates, ExpiryStates, CloserStates
    <2> HIDE DEF a, o
    <2>3. AssocOk(a) /\ HandshakeOk(a)
        BY <2>2 DEF AssocOk, HandshakeOk
    <2>4. /\ assoc' \in [Generations -> Associations] /\ assoc'[n] = a
          /\ \A h \in Generations : h # n => assoc'[h] = assoc[h]
        BY <1>1, <2>1, <2>2 DEF RtcInv, RtcType
    <2>5. AssocInv'
        BY <1>2, <2>3, <2>4 DEF RtcInv, AssocInv
    <2>6. routes[k] = None /\ pendings[k] = None /\ admitted[k] = None
        BY <1>7 DEF RtcInv, SlotInv
    <2>7. RtcType'
        BY <1>1, <1>2, <2>1, <2>4 DEF RtcInv, RtcType
    <2>8. /\ \A j \in Credentials : j # k => admitted'[j] = admitted[j] /\ pendings'[j] = pendings[j]
          /\ (admitted'[k] = n /\ pendings'[k] = n) \/ (admitted'[k] = None /\ pendings'[k] = None)
        BY <1>1, <2>1, <2>6 DEF RtcInv, RtcType
    <2>9. SlotInv'
        <3>1. ASSUME NEW j \in Credentials
              PROVE  /\ admitted'[j] # None => admitted'[j] < n + 1 /\ assoc'[admitted'[j]].cred = j
                     /\ routes[j] # None => routes[j] = admitted'[j]
                     /\ pendings'[j] # None => pendings'[j] = admitted'[j]
            <4>1. CASE j = k
                BY <1>1, <2>2, <2>4, <2>6, <2>8, <4>1
            <4>2. CASE j # k
                <5>1. admitted'[j] = admitted[j] /\ pendings'[j] = pendings[j]
                    BY <2>8, <4>2
                <5>2. admitted[j] # None => admitted[j] < n + 1 /\ assoc'[admitted[j]] = assoc[admitted[j]]
                    BY <1>1, <1>3, <2>4 DEF RtcInv, SlotInv, Generations
                <5> QED
                    BY <5>1, <5>2 DEF RtcInv, SlotInv
            <4> QED
                BY <4>1, <4>2
        <3>2. ASSUME NEW s \in Sources, address_map[s] # None
              PROVE  address_map[s] < n + 1 /\ assoc'[address_map[s]].src = s
            <4>1. assoc'[address_map[s]] = assoc[address_map[s]] /\ address_map[s] \in Generations
                BY <1>3, <2>4, <3>2
            <4> QED
                BY <1>1, <3>2, <4>1 DEF RtcInv, SlotInv, Generations
        <3>3. \A h \in Generations : assoc'[h].conn = "open" => routes[assoc'[h].cred] = h
            BY <2>2, <2>4 DEF RtcInv, SlotInv
        <3> QED
            BY <1>1, <1>2, <3>1, <3>2, <3>3 DEF RtcInv, SlotInv
    <2>10. accepting' # None => assoc'[accepting'].cred \in Credentials
        <3>1. accepting # None => accepting \in Generations /\ assoc[accepting].cred \in Credentials
            BY DEF RtcInv, RtcType, QueueInv, Generations, None
        <3> QED
            BY <1>2, <2>2, <2>4, <3>1
    <2>11. QueueInv'
        <3>1. CASE room
            <4>1. queued' = Append(queued, n)
                BY <2>1, <3>1
            <4>2. /\ queued' \in Seq(Generations) /\ Len(queued') = Len(queued) + 1 /\ queued'[Len(queued) + 1] = n
                  /\ \A i \in 1 .. Len(queued) : queued'[i] = queued[i]
                BY <1>1, <1>4, <4>1
            <4>3. DOMAIN queued' = 1 .. Len(queued) + 1 /\ DOMAIN queued = 1 .. Len(queued) /\ Len(queued) \in Nat
                BY <1>4, <4>2
            <4>4. ASSUME NEW i \in DOMAIN queued'
                  PROVE  queued'[i] < n + 1 /\ assoc'[queued'[i]].owner = "queue"
                <5>1. CASE i = Len(queued) + 1
                    BY <1>1, <2>2, <2>4, <3>1, <4>2, <5>1 DEF o
                <5>2. CASE i \in DOMAIN queued
                    <6>1. queued'[i] = queued[i] /\ queued[i] < n /\ queued[i] \in Generations /\ assoc[queued[i]].owner = "queue"
                        BY <1>4, <4>2, <4>3, <5>2 DEF RtcInv, QueueInv
                    <6>2. assoc'[queued[i]] = assoc[queued[i]]
                        BY <1>4, <2>4, <5>2
                    <6> QED
                        BY <1>1, <6>1, <6>2 DEF Generations
                <5> QED
                    BY <4>3, <5>1, <5>2
            <4>5. ASSUME NEW i \in DOMAIN queued', NEW j \in DOMAIN queued', i < j
                  PROVE  queued'[i] < queued'[j]
                <5>1. i \in DOMAIN queued /\ queued'[i] = queued[i] /\ queued[i] < n
                    BY <4>2, <4>3, <4>5 DEF RtcInv, QueueInv
                <5>2. CASE j = Len(queued) + 1
                    BY <4>2, <5>1, <5>2
                <5>3. CASE j \in DOMAIN queued
                    BY <4>2, <4>3, <4>5, <5>1, <5>3 DEF RtcInv, QueueInv
                <5> QED
                    BY <4>3, <5>2, <5>3
            <4> QED
                BY <1>1, <2>10, <4>2, <4>4, <4>5 DEF QueueInv
        <3>2. CASE ~room
            <4>1. queued' = queued
                BY <2>1, <3>2
            <4>2. ASSUME NEW i \in DOMAIN queued
                  PROVE  queued[i] < n + 1 /\ assoc'[queued[i]].owner = "queue"
                <5>1. assoc'[queued[i]] = assoc[queued[i]] /\ queued[i] \in Generations
                    BY <1>4, <2>4
                <5> QED
                    BY <1>1, <5>1 DEF RtcInv, QueueInv, Generations
            <4> QED
                BY <1>1, <1>4, <2>10, <4>1, <4>2 DEF RtcInv, QueueInv
        <3> QED
            BY <3>1, <3>2
    <2> QED
        BY <2>5, <2>7, <2>9, <2>11 DEF RtcInv
<1> QED
    BY <1>6, <1>7 DEF Admit

\* accept takes an association from the channel, or passes it over.
LEMMA AcceptReceivesStep ==
    ASSUME RtcInv, AcceptReceives
    PROVE  RtcInv'
<1> DEFINE g == queued[1]
           takes == Admitted(g) /\ pendings[assoc[g].cred] = g
           b == assoc[g]
           o == IF takes THEN "starts" ELSE "none"
           a == [b EXCEPT !.owner = o]
<1>1. /\ queued \in Seq(Generations) /\ queued # <<>> /\ Len(queued) \in Nat \ {0} /\ 1 \in DOMAIN queued
      /\ DOMAIN queued = 1 .. Len(queued) /\ g \in Generations /\ Head(queued) = g
    <2>1. queued \in Seq(Generations) /\ queued # <<>>
        BY DEF AcceptReceives, RtcInv, QueueInv
    <2> QED
        BY <2>1
<1>2. /\ b \in Associations /\ AssocOk(b) /\ (mux = "open" /\ ~b.expired => HandshakeOk(b)) /\ b.owner = "queue"
    BY <1>1 DEF RtcInv, RtcType, AssocInv, QueueInv
<1>3. /\ assoc' = [assoc EXCEPT ![g] = a] /\ accepting' \in {g, None} /\ queued' = Tail(queued)
      /\ UNCHANGED <<next_generation, admitted, pendings, routes, address_map, mux, may>>
    <2>1. assoc' = [assoc EXCEPT ![g].owner = o] /\ accepting' = (IF takes THEN g ELSE None)
        BY <1>1 DEF AcceptReceives
    <2>2. queued' = Tail(queued) /\ UNCHANGED <<next_generation, admitted, pendings, routes, address_map, mux, may>>
        BY DEF AcceptReceives
    <2>3. [assoc EXCEPT ![g].owner = o] = [assoc EXCEPT ![g] = a]
        BY <1>1 DEF RtcInv, RtcType
    <2> HIDE DEF takes, o, a
    <2> QED
        BY <2>1, <2>2, <2>3
<1>4. a = [b EXCEPT !.owner = o] /\ o \in Owners
    BY DEF Owners
<1> HIDE DEF a, b, o, takes
<1>5. a \in Associations /\ a.expired = b.expired
    BY <1>2, <1>4 DEF Associations
<1>6. /\ a.owner = o /\ a.cred = b.cred /\ a.src = b.src /\ a.conn = b.conn /\ a.peer = b.peer /\ a.dtls = b.dtls
      /\ a.expiry = b.expiry /\ a.setup = b.setup /\ a.cleanup = b.cleanup /\ a.closer = b.closer
    BY <1>2, <1>4 DEF Associations
<1>7. AssocOk(a) /\ (mux = "open" /\ ~a.expired => HandshakeOk(a)) /\ a.cred \in Credentials
    BY <1>2, <1>5, <1>6 DEF AssocOk, HandshakeOk
<1>8. Becomes(g, a)
    BY <1>3, <1>5, <1>6, <1>7 DEF Becomes, b
<1>9. RtcType' /\ AssocInv' /\ SlotInv'
    <2>1. FewerPending /\ may' \in Limits /\ Len(may'.asks) <= MaxGeneration
        BY <1>3 DEF FewerPending, RtcInv, RtcType
    <2>2. accepting' \in 0 .. MaxGeneration
        BY <1>1, <1>3, WebRtcConstants DEF Generations, None
    <2>3. a.conn = "open" => assoc[g].conn = "open"
        BY <1>6 DEF b
    <2> HIDE DEF g
    <2> QED
        BY <1>1, <1>3, <1>8, <2>1, <2>2, <2>3, SlotsKept
<1>10. QueueInv'
    <2>1. /\ queued' \in Seq(Generations) /\ Len(queued') = Len(queued) - 1
          /\ \A i \in 1 .. Len(queued') : queued'[i] = queued[i + 1]
        BY <1>1, <1>3
    <2>2. DOMAIN queued' = 1 .. Len(queued) - 1
        BY <1>1, <2>1
    <2>3. assoc'[g] = a /\ \A h \in Generations : h # g => assoc'[h] = assoc[h]
        BY <1>1, <1>3 DEF RtcInv, RtcType
    <2>4. ASSUME NEW i \in DOMAIN queued'
          PROVE  queued'[i] < next_generation /\ assoc'[queued'[i]].owner = "queue"
        <3>1. i + 1 \in DOMAIN queued /\ queued'[i] = queued[i + 1] /\ 1 < i + 1 /\ queued[i + 1] \in Generations
            BY <1>1, <2>1, <2>2
        <3>2. queued[1] < queued[i + 1] /\ queued[i + 1] < next_generation /\ assoc[queued[i + 1]].owner = "queue"
            BY <1>1, <3>1 DEF RtcInv, QueueInv
        <3>3. queued[i + 1] # g
            BY <1>1, <3>1, <3>2 DEF Generations
        <3> QED
            BY <2>3, <3>1, <3>2, <3>3
    <2>5. ASSUME NEW i \in DOMAIN queued', NEW j \in DOMAIN queued', i < j
          PROVE  queued'[i] < queued'[j]
        <3>1. /\ i + 1 \in DOMAIN queued /\ queued'[i] = queued[i + 1]
              /\ j + 1 \in DOMAIN queued /\ queued'[j] = queued[j + 1] /\ i + 1 < j + 1
            BY <1>1, <2>1, <2>2, <2>5
        <3> QED
            BY <3>1 DEF RtcInv, QueueInv
    <2>6. accepting' # None => assoc'[accepting'].cred \in Credentials
        BY <1>3, <1>7, <2>3
    <2> QED
        BY <1>3, <2>1, <2>4, <2>5, <2>6 DEF QueueInv
<1> QED
    BY <1>9, <1>10 DEF RtcInv

\* WebRtcDirectListener::close.
LEMMA ListenerClosesStep ==
    ASSUME RtcInv, ListenerCloses
    PROVE  RtcInv'
<1>1. /\ mux' = "closing" /\ routes' = [k \in Credentials |-> None]
      /\ UNCHANGED <<next_generation, admitted, pendings, address_map, queued, accepting, may>>
    BY DEF ListenerCloses
<1>2. DOMAIN assoc' = Generations /\ assoc' = [g \in Generations |-> assoc'[g]]
    BY DEF ListenerCloses
<1>3. ASSUME NEW g \in Generations
      PROVE  /\ assoc'[g] \in Associations /\ AssocOk(assoc'[g]) /\ assoc'[g].conn # "open"
             /\ assoc'[g].cred = assoc[g].cred /\ assoc'[g].src = assoc[g].src
             /\ (assoc[g].owner = "queue" => assoc'[g].owner = "queue")
    <2> DEFINE b == assoc[g]
               c == IF b.conn = "open" THEN "closed" ELSE b.conn
               a == [b EXCEPT !.conn = c]
               e == IF a.peer = "none" THEN "removing" ELSE "ending"
               d == [a EXCEPT !.owner = "gone", !.cleanup = e]
    <2>1. b \in Associations /\ AssocOk(b)
        BY DEF RtcInv, RtcType, AssocInv
    <2>2. assoc'[g] = IF g = accepting /\ a.owner \in {"starts", "connects", "describes"} THEN d ELSE a
        BY DEF ListenerCloses
    <2>3. a = [b EXCEPT !.conn = c] /\ d = [a EXCEPT !.owner = "gone", !.cleanup = e]
        OBVIOUS
    <2>4. c \in {b.conn, "closed"} /\ c # "open" /\ (b.conn = "none" => c = "none")
        OBVIOUS
    <2>5. e \in CloserStates /\ "gone" \in Owners
        BY DEF CloserStates, Owners
    <2> HIDE DEF a, b, c, d, e
    <2>6. c \in ConnStates
        <3>1. b \in Associations
            BY <2>1
        <3>2. b.conn \in ConnStates
            BY <3>1 DEF Associations
        <3> QED
            BY <2>4, <3>2 DEF ConnStates
    <2>7. /\ a \in Associations /\ a.conn = c /\ a.cred = b.cred /\ a.src = b.src /\ a.owner = b.owner
          /\ a.expiry = b.expiry /\ a.cleanup = b.cleanup
        BY <2>1, <2>3, <2>6 DEF Associations
    <2>8. AssocOk(a)
        BY <2>1, <2>4, <2>7 DEF AssocOk
    <2>9. d \in Associations /\ d.conn = c /\ d.cred = b.cred /\ d.src = b.src /\ d.owner = "gone"
        BY <2>3, <2>5, <2>7 DEF Associations
    <2>10. CASE g = accepting /\ a.owner \in {"starts", "connects", "describes"}
        <3>1. assoc'[g] = d /\ b.owner # "queue" /\ b.cred \in Credentials
            BY <2>1, <2>2, <2>7, <2>10 DEF AssocOk
        <3>2. AssocOk(d)
            BY <2>9, <3>1 DEF AssocOk
        <3> QED
            BY <2>4, <2>9, <3>1, <3>2 DEF b
    <2>11. CASE ~(g = accepting /\ a.owner \in {"starts", "connects", "describes"})
        <3>1. assoc'[g] = a
            BY <2>2, <2>11
        <3> QED
            BY <2>4, <2>7, <2>8, <3>1 DEF b
    <2> QED
        BY <2>10, <2>11
<1>4. RtcType'
    <2>1. assoc' \in [Generations -> Associations]
        BY <1>2, <1>3
    <2>2. None \in 0 .. MaxGeneration
        BY WebRtcConstants DEF None
    <2>3. routes' \in [Credentials -> 0 .. MaxGeneration]
        BY <1>1, <2>2
    <2> QED
        BY <1>1, <2>1, <2>3 DEF RtcInv, RtcType
<1>5. AssocInv'
    BY <1>1, <1>3 DEF AssocInv
<1>6. SlotInv'
    <2>1. \A j \in Credentials : admitted[j] # None => admitted[j] \in Generations
        BY DEF RtcInv, RtcType, Generations, None
    <2>2. \A s \in Sources : address_map[s] # None => address_map[s] \in Generations
        BY DEF RtcInv, RtcType, Generations, None
    <2> QED
        BY <1>1, <1>3, <2>1, <2>2 DEF RtcInv, SlotInv
<1>7. QueueInv'
    <2>1. \A i \in DOMAIN queued : queued[i] \in Generations
        BY DEF RtcInv, QueueInv
    <2>2. accepting # None => accepting \in Generations
        BY DEF RtcInv, RtcType, Generations, None
    <2> QED
        BY <1>1, <1>3, <2>1, <2>2 DEF RtcInv, QueueInv
<1> QED
    BY <1>4, <1>5, <1>6, <1>7 DEF RtcInv

\* The mux clears its tables: no connection is routed to any more.
LEMMA MuxClosedStep ==
    ASSUME RtcInv, MuxClosed
    PROVE  RtcInv'
<1>1. /\ mux = "closing" /\ mux' = "closed" /\ admitted' = [k \in Credentials |-> None]
      /\ pendings' = [k \in Credentials |-> None] /\ address_map' = [s \in Sources |-> None]
      /\ UNCHANGED <<assoc, next_generation, routes, queued, accepting, may>>
    BY DEF MuxClosed
<1>2. None \in 0 .. MaxGeneration
    BY WebRtcConstants DEF None
<1>3. RtcType'
    BY <1>1, <1>2 DEF RtcInv, RtcType
<1>4. AssocInv' /\ QueueInv'
    BY <1>1 DEF RtcInv, AssocInv, QueueInv
<1>5. SlotInv'
    BY <1>1 DEF RtcInv, SlotInv
<1> QED
    BY <1>3, <1>4, <1>5 DEF RtcInv

\* The listener is dropped.
LEMMA ListenerDropsStep ==
    ASSUME RtcInv, ListenerDrops
    PROVE  RtcInv'
<1>1. /\ queued' = <<>> /\ accepting' = None /\ UNCHANGED <<next_generation, admitted, routes, address_map, mux, may>>
      /\ None \in 0 .. MaxGeneration
    BY WebRtcConstants DEF ListenerDrops, None
<1>2. QueueInv'
    BY <1>1 DEF QueueInv
<1>3. may' \in Limits /\ Len(may'.asks) <= MaxGeneration
    BY <1>1 DEF RtcInv, RtcType
<1>4. CASE accepting # None /\ assoc[accepting].owner # "gone"
    <2>1. OwnerDrops(accepting) /\ accepting \in Generations /\ assoc[accepting].cred \in Credentials
        BY <1>4 DEF ListenerDrops, RtcInv, RtcType, QueueInv, Generations, None
    <2>2. PICK a : Becomes(accepting, a) /\ a.owner = "gone" /\ a.conn = assoc[accepting].conn
        BY <1>4, <2>1, OwnerDropsIs
    <2>3. FewerPending
        BY <1>4, <2>1, OwnerDropsIs
    <2>4. RtcType' /\ AssocInv' /\ SlotInv'
        BY <1>1, <1>3, <2>1, <2>2, <2>3, SlotsKept
    <2> QED
        BY <1>2, <2>4 DEF RtcInv
<1>5. CASE ~(accepting # None /\ assoc[accepting].owner # "gone")
    <2>1. UNCHANGED <<assoc, pendings>>
        BY <1>5 DEF ListenerDrops
    <2> QED
        BY <1>1, <1>2, <2>1 DEF RtcInv, RtcType, AssocInv, SlotInv
<1> QED
    BY <1>4, <1>5

-----------------------------------------------------------------------------
(* The invariant is kept, and its consequences *)

\* Every step of every task keeps the invariant.
LEMMA RtcNextInv == RtcInv /\ [RtcNext]_rtcVars => RtcInv'
<1> SUFFICES ASSUME RtcInv, [RtcNext]_rtcVars
             PROVE  RtcInv'
    OBVIOUS
<1>1. ASSUME next_generation <= Len(may.asks),
             Admit(may.asks[next_generation][1], may.asks[next_generation][2])
      PROVE  RtcInv'
    <2>1. /\ may.asks \in Seq(Sources \X Credentials) /\ Len(may.asks) <= MaxGeneration
          /\ next_generation \in 1 .. MaxGeneration + 1
        BY DEF RtcInv, RtcType, Limits
    <2>2. next_generation \in 1 .. Len(may.asks) /\ next_generation \in Generations
        BY <1>1, <2>1, WebRtcConstants DEF Generations
    <2>3. may.asks[next_generation] \in Sources \X Credentials
        BY <2>1, <2>2
    <2>4. may.asks[next_generation][1] \in Sources /\ may.asks[next_generation][2] \in Credentials
        BY <2>3
    <2> QED
        BY <1>1, <2>2, <2>4, AdmitStep
<1>2. CASE AcceptReceives
    BY <1>2, AcceptReceivesStep
<1>3. CASE AcceptReturns
    <2>1. accepting \in Generations
        BY <1>3 DEF AcceptReturns, RtcInv, RtcType, Generations, None
    <2> QED
        BY <1>3, <2>1, AcceptReturnsStep
<1>4. ASSUME NEW g \in Generations, TakesConn(g) \/ MakesPeer(g) \/ Described(g) \/ SetupFails(g)
      PROVE  RtcInv'
    <2>1. CASE TakesConn(g)
        BY <2>1, TakesConnStep
    <2>2. CASE MakesPeer(g)
        <3>1. CASE assoc[g].conn = "open"
            BY <2>2, <3>1, MakesPeerStep
        <3>2. CASE assoc[g].conn # "open"
            <4>1. OwnerDrops(g) /\ assoc[g].owner = "connects"
                BY <2>2, <3>2 DEF MakesPeer
            <4>2. UNCHANGED <<next_generation, admitted, routes, address_map, queued, accepting, mux, may>>
                BY <2>2 DEF MakesPeer
            <4>3. may' \in Limits /\ Len(may'.asks) <= MaxGeneration
                BY <4>2 DEF RtcInv, RtcType
            <4> QED
                BY <4>1, <4>2, <4>3, OwnerDropsStep
        <3> QED
            BY <3>1, <3>2
    <2>3. CASE Described(g)
        BY <2>3, DescribedStep
    <2>4. CASE SetupFails(g)
        <3>1. OwnerDrops(g) /\ assoc[g].owner \in {"connects", "describes"}
            BY <2>4 DEF SetupFails
        <3>2. UNCHANGED <<next_generation, admitted, routes, address_map, queued, accepting, mux>>
            BY <2>4 DEF SetupFails
        <3>3. may' \in Limits /\ Len(may'.asks) <= MaxGeneration
            BY <2>4, LimitsKept DEF SetupFails
        <3> QED
            BY <3>1, <3>2, <3>3, OwnerDropsStep
    <2> QED
        BY <1>4, <2>1, <2>2, <2>3, <2>4
<1>5. ASSUME NEW g \in Generations, AppDrops(g)
      PROVE  RtcInv'
    <2>1. OwnerDrops(g) /\ assoc[g].owner = "app"
        BY <1>5 DEF AppDrops
    <2>2. UNCHANGED <<next_generation, admitted, routes, address_map, queued, accepting, mux, may>>
        BY <1>5 DEF AppDrops
    <2>3. may' \in Limits /\ Len(may'.asks) <= MaxGeneration
        BY <2>2 DEF RtcInv, RtcType
    <2> QED
        BY <2>1, <2>2, <2>3, OwnerDropsStep
<1>6. ASSUME NEW g \in Generations, AppCloses(g) \/ RegisterAddress(g) \/ ExpiryLooks(g) \/ SetupDeadline(g)
      PROVE  RtcInv'
    BY <1>6, AppClosesStep, RegisterAddressStep, ExpiryLooksStep, SetupDeadlineStep
<1>7. ASSUME NEW g \in Generations, Dtls(g)
      PROVE  RtcInv'
    <2>1. CASE assoc[g].dtls = "New" /\ assoc' = [assoc EXCEPT ![g].dtls = "Connecting"]
        BY <1>7, <2>1, DtlsStep
    <2>2. CASE assoc[g].dtls = "Connecting" /\ assoc' = [assoc EXCEPT ![g].dtls = "Connected"]
        BY <1>7, <2>2, DtlsStep
    <2> QED
        BY <1>7, <2>1, <2>2 DEF Dtls
<1>8. ASSUME NEW g \in Generations, ExpiryRemoves(g) \/ ConnClosed(g) \/ CleanupRemoves(g)
      PROVE  RtcInv'
    BY <1>8, RemovalsStep
<1>9. ASSUME NEW g \in Generations, NEW by \in {"setup", "cleanup", "closer"}, EndsHandshake(g, by) \/ ClosesPeer(g, by)
      PROVE  RtcInv'
    <2>1. CASE by = "setup"
        BY <1>9, <2>1, SetupEndsStep, SetupClosesStep
    <2>2. CASE by = "cleanup"
        BY <1>9, <2>2, CleanupEndsStep, CleanupClosesStep
    <2>3. CASE by = "closer"
        BY <1>9, <2>3, CloserEndsStep, CloserClosesStep
    <2> QED
        BY <1>9, <2>1, <2>2, <2>3
<1>10. CASE ListenerCloses \/ MuxClosed \/ ListenerDrops
    BY <1>10, ListenerClosesStep, MuxClosedStep, ListenerDropsStep
<1>11. CASE UNCHANGED rtcVars
    BY <1>11 DEF rtcVars, RtcInv, RtcType, AssocInv, SlotInv, QueueInv
<1> QED
    BY <1>1, <1>2, <1>3, <1>4, <1>5, <1>6, <1>7, <1>8, <1>9, <1>10, <1>11 DEF RtcNext

\* A slot and the routes belong to one generation.
LEMMA SlotsKeptApart == RtcInv => OpenHasSlot /\ RoutedFromSource
<1> SUFFICES ASSUME RtcInv
             PROVE  OpenHasSlot /\ RoutedFromSource
    OBVIOUS
<1>1. OpenHasSlot
    <2>1. ASSUME NEW g \in Generations, assoc[g].conn = "open"
          PROVE  Admitted(g) /\ routes[assoc[g].cred] = g
        <3>1. assoc[g].cred \in Credentials /\ routes[assoc[g].cred] = g /\ g # None
            BY <2>1 DEF RtcInv, AssocInv, AssocOk, SlotInv, Generations, None
        <3> QED
            BY <3>1 DEF RtcInv, SlotInv, Admitted
    <2> QED
        BY <2>1 DEF OpenHasSlot, RtcInv, SlotInv
<1>2. RoutedFromSource
    <2>1. \A s \in Sources : ForOther(s) # None => assoc[ForOther(s)].src = s
        BY DEF ForOther, RtcInv, SlotInv
    <2>2. ASSUME NEW s \in Sources, NEW k \in Credentials, ForRequest(s, k) # None
          PROVE  assoc[ForRequest(s, k)].src = s /\ Admitted(ForRequest(s, k))
        <3>1. /\ ForRequest(s, k) = routes[k] /\ routes[k] # None
              /\ ~(admitted[k] # None /\ assoc[admitted[k]].src # s)
            BY <2>2 DEF ForRequest
        <3>2. routes[k] = admitted[k] /\ admitted[k] # None /\ assoc[admitted[k]].cred = k
            BY <3>1 DEF RtcInv, SlotInv
        <3> QED
            BY <3>1, <3>2 DEF Admitted
    <2> QED
        BY <2>1, <2>2 DEF RoutedFromSource
<1> QED
    BY <1>1, <1>2

\* The associations of a listener are kept apart and closed in full: an open connection
\* has its slot and its routes, a packet reaches a connection only from the source that
\* proved its return path, and no handshake is left waiting by the tasks that close it
\* (remove_owned_connection, register_owned_address, close_inbound_peer), whatever the
\* limits and in whichever order the tasks of any number of generations run.
THEOREM AssociationsCorrect == RtcSpec => []AssociationsKept
<1>1. RtcInv => NoStrandedHandshake
    BY DEF RtcInv, AssocInv, HandshakeOk, NoStrandedHandshake
<1>2. RtcInv => AssociationsKept
    BY <1>1, SlotsKeptApart DEF AssociationsKept
<1> QED
    BY <1>2, RtcInitInv, RtcNextInv, PTL DEF RtcSpec

-----------------------------------------------------------------------------
(* Incoming connections: the inductive invariant *)

Ids == Clients \X (Nat \ {0})
Tokens ==
    [kind : {"none", "retry", "validation"}, addr : Addresses \cup {""}, id : Ids \cup {<<>>}, old : BOOLEAN]
Uses == [id : Ids, token : Tokens, next : Tokens]

\* What a client holds: ids numbered in order, tokens that were sent to their address, and
\* with a retry token the id of an attempt before.
UseOk(tos, c, k, u) ==
    /\ u.id = <<c, k>>
    /\ u.token.kind # "none" => u.token.addr \in tos
    /\ u.token.kind = "retry" => \E j \in 1 .. k - 1 : u.token.id = <<c, j>>
    /\ u.next.kind # "retry"
    /\ u.next.kind # "none" => u.next.addr \in tos

ClientInv ==
    /\ clients \in [Clients -> [addr : Addresses, ids : Seq(Uses)]]
    /\ \A c \in Clients : \A k \in 1 .. Len(clients[c].ids) : UseOk(sentTo, c, k, clients[c].ids[k])

\* A slab: what is in use and what is spare are the keys up to some key, each once.
SlabOf(used, spare) ==
    /\ spare \in Seq(Nat)
    /\ \A x, y \in 1 .. Len(spare) : spare[x] = spare[y] => x = y
    /\ \A x \in 1 .. Len(spare) : spare[x] \notin used
    /\ \E n \in Nat : used \cup {spare[x] : x \in 1 .. Len(spare)} = 1 .. n

UsedBy(c, id) == c \in Clients /\ \E k \in 1 .. Len(clients[c].ids) : id = <<c, k>>

\* Attempts have their route and a buffer each.
AttemptInv ==
    /\ IsFiniteSet(incomings)
    /\ \A i \in incomings :
         /\ UsedBy(i.client, i.id) /\ i.addr \in Addresses
         /\ i.id \in DOMAIN initial /\ initial[i.id].to = "incoming" /\ initial[i.id].at = i.at
    /\ \A i, j \in incomings : i.at = j.at => i = j

Slots(bufs) == UNION {{k} \X (1 .. Len(bufs[k])) : k \in DOMAIN bufs}

BufferInv ==
    /\ SlabOf(DOMAIN buffers, spareBuffers)
    /\ DOMAIN buffers = {i.at : i \in incomings}
    /\ \A k \in DOMAIN buffers : buffers[k] \in Seq(Ids)
    /\ IsFiniteSet(Slots(buffers)) /\ total = Cardinality(Slots(buffers)) /\ total <= IncomingBufferTotal

\* Connections have the routes of their ids.
ConnInv ==
    /\ SlabOf(DOMAIN conns, spareConns)
    /\ issued \in Nat
    /\ \A cid \in DOMAIN connection_ids : \E k \in 1 .. issued : cid = <<"local", k>>
    /\ \A ch \in DOMAIN conns :
         /\ UsedBy(conns[ch].client, conns[ch].init)
         /\ conns[ch].init \in DOMAIN initial
         /\ initial[conns[ch].init].to = "connection" /\ initial[conns[ch].init].at = ch
         /\ conns[ch].cid \in DOMAIN connection_ids /\ connection_ids[conns[ch].cid] = ch

IncomingInv == ClientInv /\ AttemptInv /\ BufferInv /\ ConnInv /\ RoutesAreLive /\ ValidatedWasSent

-----------------------------------------------------------------------------
(* Slabs and buffers *)

\* The key a slab uses next is not in use, and the slab stays a slab with it.
LEMMA SlabVacant ==
    ASSUME NEW slab, NEW spare, SlabOf(DOMAIN slab, spare)
    PROVE  LET k == VacantKey(slab, spare) IN
           k \in Nat /\ k \notin DOMAIN slab /\ SlabOf(DOMAIN slab \cup {k}, Spared(spare))
<1>1. PICK n \in Nat : DOMAIN slab \cup {spare[x] : x \in 1 .. Len(spare)} = 1 .. n
    BY DEF SlabOf
<1>2. spare \in Seq(Nat) /\ Len(spare) \in Nat
    BY DEF SlabOf
<1>3. CASE spare = <<>>
    <2>1. DOMAIN slab = 1 .. n
        <3>1. Len(spare) = 0
            BY <1>3
        <3>2. {spare[x] : x \in 1 .. Len(spare)} = {}
            BY <3>1
        <3> QED
            BY <1>1, <3>2
    <2>2. Cardinality(DOMAIN slab) = n
        BY <2>1, FS_Interval
    <2>3. VacantKey(slab, spare) = n + 1 /\ Spared(spare) = <<>>
        BY <1>3, <2>2 DEF VacantKey, Spared
    <2>4. DOMAIN slab \cup {n + 1} = 1 .. n + 1 /\ n + 1 \notin DOMAIN slab
        BY <2>1
    <2>5. SlabOf(DOMAIN slab \cup {n + 1}, <<>>)
        BY <2>4 DEF SlabOf
    <2> QED
        BY <2>3, <2>4, <2>5
<1>4. CASE spare # <<>>
    <2> DEFINE rest == Tail(spare)
    <2>1. VacantKey(slab, spare) = spare[1] /\ Spared(spare) = rest /\ 1 \in 1 .. Len(spare)
        BY <1>2, <1>4 DEF VacantKey, Spared
    <2>2. rest \in Seq(Nat) /\ Len(rest) = Len(spare) - 1 /\ \A x \in 1 .. Len(rest) : rest[x] = spare[x + 1]
        BY <1>2, <1>4
    <2> HIDE DEF rest
    <2>3. \A x \in 1 .. Len(rest) : x + 1 \in 1 .. Len(spare) /\ x + 1 # 1
        BY <1>2, <2>2
    <2>4. \A x, y \in 1 .. Len(rest) : rest[x] = rest[y] => x = y
        <3>1. SUFFICES ASSUME NEW x \in 1 .. Len(rest), NEW y \in 1 .. Len(rest), rest[x] = rest[y]
                       PROVE  x = y
            OBVIOUS
        <3>2. x + 1 = y + 1
            BY <2>2, <2>3, <3>1 DEF SlabOf
        <3> QED
            BY <3>2
    <2>5. spare[1] \notin DOMAIN slab /\ spare[1] \in Nat
        BY <1>2, <2>1 DEF SlabOf
    <2>6. \A x \in 1 .. Len(rest) : rest[x] \notin DOMAIN slab \cup {spare[1]}
        BY <2>1, <2>2, <2>3 DEF SlabOf
    <2>7. {spare[x] : x \in 1 .. Len(spare)} = {spare[1]} \cup {rest[x] : x \in 1 .. Len(rest)}
        <3>1. \A x \in 1 .. Len(spare) : x = 1 \/ (x - 1 \in 1 .. Len(rest) /\ rest[x - 1] = spare[x])
            <4>1. \A x \in 1 .. Len(spare) : x = 1 \/ (x - 1 \in 1 .. Len(rest) /\ (x - 1) + 1 = x)
                BY <1>2, <2>2
            <4> QED
                BY <2>2, <4>1
        <3> QED
            BY <2>1, <2>2, <2>3, <3>1
    <2>8. (DOMAIN slab \cup {spare[1]}) \cup {rest[x] : x \in 1 .. Len(rest)} = 1 .. n
        BY <1>1, <2>7
    <2>9. SlabOf(DOMAIN slab \cup {spare[1]}, rest)
        BY <2>2, <2>4, <2>6, <2>8 DEF SlabOf
    <2> QED
        BY <2>1, <2>5, <2>9
<1> QED
    BY <1>3, <1>4

\* A key that is freed is the next one spare.
LEMMA SlabFreed ==
    ASSUME NEW used, NEW spare, SlabOf(used, spare), NEW k \in used
    PROVE  SlabOf(used \ {k}, <<k>> \o spare)
<1> DEFINE more == <<k>> \o spare
<1>1. PICK n \in Nat : used \cup {spare[x] : x \in 1 .. Len(spare)} = 1 .. n
    BY DEF SlabOf
<1>2. spare \in Seq(Nat) /\ Len(spare) \in Nat /\ k \in Nat
    BY <1>1 DEF SlabOf
<1>3. <<k>> \in Seq(Nat) /\ Len(<<k>>) = 1 /\ <<k>>[1] = k
    BY <1>2
<1>4. more \in Seq(Nat) /\ Len(more) = Len(spare) + 1 /\ more[1] = k
      /\ \A x \in 2 .. Len(more) : more[x] = spare[x - 1]
    BY <1>2, <1>3
<1> HIDE DEF more
<1>5. \A x \in 1 .. Len(more) : x = 1 \/ (x \in 2 .. Len(more) /\ x - 1 \in 1 .. Len(spare))
    BY <1>2, <1>4
<1>6. \A x \in 1 .. Len(spare) : spare[x] \notin used /\ spare[x] # k
    BY DEF SlabOf
<1>7. ASSUME NEW x \in 1 .. Len(more), NEW y \in 1 .. Len(more), more[x] = more[y]
      PROVE  x = y
    <2>1. CASE x = 1 \/ y = 1
        BY <1>4, <1>5, <1>6, <1>7, <2>1
    <2>2. CASE x # 1 /\ y # 1
        <3>1. x - 1 = y - 1
            BY <1>4, <1>5, <1>7, <2>2 DEF SlabOf
        <3> QED
            BY <3>1
    <2> QED
        BY <2>1, <2>2
<1>8. \A x \in 1 .. Len(more) : more[x] \notin used \ {k}
    BY <1>4, <1>5, <1>6
<1>9. {more[x] : x \in 1 .. Len(more)} = {k} \cup {spare[x] : x \in 1 .. Len(spare)}
    <2>1. \A x \in 1 .. Len(spare) : x + 1 \in 2 .. Len(more) /\ x + 1 \in 1 .. Len(more) /\ more[x + 1] = spare[x]
        <3>1. \A x \in 1 .. Len(spare) : x + 1 \in 2 .. Len(more) /\ x + 1 \in 1 .. Len(more) /\ (x + 1) - 1 = x
            BY <1>2, <1>4
        <3> QED
            BY <1>4, <3>1
    <2>2. 1 \in 1 .. Len(more)
        BY <1>2, <1>4
    <2>3. \A x \in 1 .. Len(more) : more[x] = k \/ \E y \in 1 .. Len(spare) : more[x] = spare[y]
        BY <1>4, <1>5
    <2>4. k \in {more[x] : x \in 1 .. Len(more)} /\ \A x \in 1 .. Len(spare) : spare[x] \in {more[y] : y \in 1 .. Len(more)}
        BY <1>4, <2>1, <2>2
    <2> QED
        BY <2>3, <2>4
<1>10. (used \ {k}) \cup {more[x] : x \in 1 .. Len(more)} = 1 .. n
    BY <1>1, <1>9
<1> QED
    BY <1>4, <1>7, <1>8, <1>10 DEF SlabOf, more

\* A datagram more in a buffer is one slot more.
LEMMA SlotAdded ==
    ASSUME NEW bufs, NEW at \in DOMAIN bufs, bufs[at] \in Seq(Ids), NEW d \in Ids, IsFiniteSet(Slots(bufs))
    PROVE  LET more == [bufs EXCEPT ![at] = Append(bufs[at], d)] IN
           IsFiniteSet(Slots(more)) /\ Cardinality(Slots(more)) = Cardinality(Slots(bufs)) + 1
<1> DEFINE more == [bufs EXCEPT ![at] = Append(bufs[at], d)]
           slot == <<at, Len(bufs[at]) + 1>>
<1>1. Len(bufs[at]) \in Nat /\ Len(Append(bufs[at], d)) = Len(bufs[at]) + 1
    OBVIOUS
<1>2. DOMAIN more = DOMAIN bufs /\ Len(more[at]) = Len(bufs[at]) + 1
      /\ \A k \in DOMAIN bufs : k # at => more[k] = bufs[k]
    BY <1>1
<1> HIDE DEF more
<1>3. \A k, j : <<k, j>> \in Slots(more) <=> k \in DOMAIN more /\ j \in 1 .. Len(more[k])
    BY DEF Slots
<1>4. \A k, j : <<k, j>> \in Slots(bufs) <=> k \in DOMAIN bufs /\ j \in 1 .. Len(bufs[k])
    BY DEF Slots
<1>5. \A s : s \in Slots(more) \/ s \in Slots(bufs) => \E k, j : s = <<k, j>>
    BY DEF Slots
<1>6. slot \notin Slots(bufs)
    BY <1>1, <1>4
<1>7. \A k, j : <<k, j>> \in Slots(more) <=> <<k, j>> \in Slots(bufs) \/ <<k, j>> = slot
    <2>1. \A j : j \in 1 .. Len(bufs[at]) + 1 <=> j \in 1 .. Len(bufs[at]) \/ j = Len(bufs[at]) + 1
        BY <1>1
    <2>2. ASSUME NEW k, NEW j
          PROVE  <<k, j>> \in Slots(more) <=> <<k, j>> \in Slots(bufs) \/ <<k, j>> = slot
        <3>1. CASE k = at
            BY <1>2, <1>3, <1>4, <2>1, <3>1
        <3>2. CASE k # at
            BY <1>2, <1>3, <1>4, <3>2
        <3> QED
            BY <3>1, <3>2
    <2> QED
        BY <2>2
<1>8. Slots(more) = Slots(bufs) \cup {slot}
    BY <1>5, <1>7
<1> HIDE DEF slot
<1> QED
    BY <1>6, <1>8, FS_AddElement DEF more

\* A buffer that goes takes its slots.
LEMMA SlotsGone ==
    ASSUME NEW bufs, NEW at \in DOMAIN bufs, bufs[at] \in Seq(Ids), IsFiniteSet(Slots(bufs))
    PROVE  /\ IsFiniteSet(Slots(Less(bufs, {at})))
           /\ Cardinality(Slots(Less(bufs, {at}))) = Cardinality(Slots(bufs)) - Len(bufs[at])
           /\ Len(bufs[at]) <= Cardinality(Slots(bufs))
<1> DEFINE less == Less(bufs, {at})
           mine == {at} \X (1 .. Len(bufs[at]))
<1>1. Len(bufs[at]) \in Nat
    OBVIOUS
<1>2. DOMAIN less = DOMAIN bufs \ {at} /\ \A k \in DOMAIN less : less[k] = bufs[k]
    BY DEF Less
<1> HIDE DEF less
<1>3. \A s : s \in Slots(less) <=> \E k \in DOMAIN less : s \in {k} \X (1 .. Len(less[k]))
    BY DEF Slots
<1>4. \A s : s \in Slots(bufs) <=> \E k \in DOMAIN bufs : s \in {k} \X (1 .. Len(bufs[k]))
    BY DEF Slots
<1>5. mine \subseteq Slots(bufs)
    BY <1>4
<1>6. Slots(less) = Slots(bufs) \ mine
    <2>1. ASSUME NEW s \in Slots(less)
          PROVE  s \in Slots(bufs) /\ s \notin mine
        BY <1>2, <1>3, <1>4
    <2>2. ASSUME NEW s \in Slots(bufs), s \notin mine
          PROVE  s \in Slots(less)
        <3>1. PICK k \in DOMAIN bufs : s \in {k} \X (1 .. Len(bufs[k]))
            BY <1>4
        <3>2. k # at
            BY <2>2, <3>1
        <3> QED
            BY <1>2, <1>3, <3>1, <3>2
    <2> QED
        BY <2>1, <2>2
<1>7. IsFiniteSet(mine) /\ Cardinality(mine) = Len(bufs[at])
    <2>1. IsFiniteSet({at}) /\ Cardinality({at}) = 1
        BY FS_Singleton
    <2>2. IsFiniteSet(1 .. Len(bufs[at])) /\ Cardinality(1 .. Len(bufs[at])) = Len(bufs[at])
        <3>1. \A m \in Nat : IsFiniteSet(1 .. m) /\ Cardinality(1 .. m) = m
            BY FS_Interval
        <3> QED
            BY <1>1, <3>1, Zenon
    <2>3. IsFiniteSet(mine) /\ Cardinality(mine) = 1 * Len(bufs[at])
        BY <2>1, <2>2, FS_Product
    <2> QED
        BY <1>1, <2>3
<1> HIDE DEF mine
<1>8. Slots(bufs) \cap mine = mine
    BY <1>5
<1>9. IsFiniteSet(Slots(less)) /\ Cardinality(Slots(less)) = Cardinality(Slots(bufs)) - Cardinality(mine)
    BY <1>6, <1>8, FS_Difference
<1>10. Cardinality(mine) <= Cardinality(Slots(bufs))
    BY <1>5, FS_Subset
<1> QED
    BY <1>7, <1>9, <1>10 DEF less

\* A new buffer is empty.
LEMMA SlotsSame ==
    ASSUME NEW bufs, NEW at, at \notin DOMAIN bufs
    PROVE  Slots(With(bufs, at, <<>>)) = Slots(bufs)
<1> DEFINE more == With(bufs, at, <<>>)
<1>1. DOMAIN more = DOMAIN bufs \cup {at} /\ more[at] = <<>> /\ \A k \in DOMAIN bufs : more[k] = bufs[k]
    BY DEF With
<1> HIDE DEF more
<1>2. 1 .. Len(<<>>) = {}
    OBVIOUS
<1>3. ASSUME NEW s \in Slots(more)
      PROVE  s \in Slots(bufs)
    <2>1. PICK k \in DOMAIN more : s \in {k} \X (1 .. Len(more[k]))
        BY DEF Slots
    <2>2. k # at
        BY <1>1, <1>2, <2>1
    <2> QED
        BY <1>1, <2>1, <2>2 DEF Slots
<1>4. ASSUME NEW s \in Slots(bufs)
      PROVE  s \in Slots(more)
    BY <1>1 DEF Slots
<1> QED
    BY <1>3, <1>4 DEF more

-----------------------------------------------------------------------------
(* Incoming connections: what the steps share *)

\* Clients keep the ids they used.
Grown ==
    \A c \in Clients : Len(clients[c].ids) <= Len(clients'[c].ids)
                       /\ \A k \in 1 .. Len(clients[c].ids) : clients'[c].ids[k].id = clients[c].ids[k].id

LEMMA UsedStays ==
    ASSUME ClientInv, ClientInv', Grown
    PROVE  /\ \A c, id : UsedBy(c, id) => UsedBy(c, id)'
           /\ \A c \in Clients : \A k \in DOMAIN clients[c].ids :
                k \in DOMAIN clients'[c].ids /\ clients'[c].ids[k].id = clients[c].ids[k].id
<1>1. \A c \in Clients : /\ clients[c].ids \in Seq(Uses) /\ clients'[c].ids \in Seq(Uses)
                         /\ Len(clients[c].ids) \in Nat /\ Len(clients'[c].ids) \in Nat
    BY DEF ClientInv
<1>2. \A c \in Clients : /\ DOMAIN clients[c].ids = 1 .. Len(clients[c].ids)
                         /\ DOMAIN clients'[c].ids = 1 .. Len(clients'[c].ids)
    BY <1>1
<1>3. \A c \in Clients : \A k \in 1 .. Len(clients[c].ids) : k \in 1 .. Len(clients'[c].ids)
    BY <1>1 DEF Grown
<1> QED
    BY <1>2, <1>3 DEF UsedBy, Grown

\* No two attempts, and no attempt and connection, share an id.
LEMMA RouteOwners ==
    ASSUME IncomingInv
    PROVE  /\ \A i, j \in incomings : i.id = j.id => i = j
           /\ \A i \in incomings : \A ch \in DOMAIN conns : i.id # conns[ch].init
<1>1. ASSUME NEW i \in incomings, NEW j \in incomings, i.id = j.id
      PROVE  i = j
    <2>1. initial[i.id].at = i.at /\ initial[j.id].at = j.at
        BY DEF IncomingInv, AttemptInv
    <2>2. i.at = j.at
        BY <1>1, <2>1
    <2> QED
        BY <2>2 DEF IncomingInv, AttemptInv
<1>2. ASSUME NEW i \in incomings, NEW ch \in DOMAIN conns
      PROVE  i.id # conns[ch].init
    <2>1. initial[i.id].to = "incoming" /\ initial[conns[ch].init].to = "connection"
        BY DEF IncomingInv, AttemptInv, ConnInv
    <2> QED
        BY <2>1
<1> QED
    BY <1>1, <1>2

\* The attempts that stay keep what is known of them.
LEMMA AttemptsStay ==
    ASSUME IncomingInv, ClientInv', Grown, sentTo \subseteq sentTo', incomings' \subseteq incomings,
           \A j \in incomings' : j.id \in DOMAIN initial' /\ initial'[j.id] = initial[j.id]
    PROVE  AttemptInv' /\ ValidatedWasSent'
<1>1. ClientInv /\ AttemptInv /\ ValidatedWasSent
    BY DEF IncomingInv
<1>2. /\ \A c, id : UsedBy(c, id) => UsedBy(c, id)'
      /\ \A c \in Clients : \A k \in DOMAIN clients[c].ids :
           k \in DOMAIN clients'[c].ids /\ clients'[c].ids[k].id = clients[c].ids[k].id
    BY <1>1, UsedStays
<1>3. IsFiniteSet(incomings')
    BY <1>1, FS_Subset DEF AttemptInv
<1>4. ASSUME NEW i \in incomings'
      PROVE  UsedBy(i.client, i.id)' /\ i.addr \in Addresses /\ i.client \in Clients
             /\ initial'[i.id].to = "incoming" /\ initial'[i.id].at = i.at
    <2>1. UsedBy(i.client, i.id) /\ i.addr \in Addresses /\ initial[i.id].to = "incoming" /\ initial[i.id].at = i.at
        BY <1>1 DEF AttemptInv
    <2>2. UsedBy(i.client, i.id)' /\ i.client \in Clients
        BY <1>2, <2>1 DEF UsedBy
    <2> QED
        BY <2>1, <2>2
<1>5. AttemptInv'
    BY <1>1, <1>3, <1>4 DEF AttemptInv
<1>6. ASSUME NEW i \in incomings'
      PROVE  /\ i.validated => i.addr \in sentTo'
             /\ i.retried => \E k \in DOMAIN clients'[i.client].ids :
                               clients'[i.client].ids[k].id = i.orig /\ i.orig # i.id
    BY <1>1, <1>2, <1>4 DEF ValidatedWasSent
<1> QED
    BY <1>5, <1>6 DEF ValidatedWasSent

\* The connections stay.
LEMMA ConnsStay ==
    ASSUME IncomingInv, ClientInv', Grown, UNCHANGED <<conns, spareConns>>,
           issued' \in Nat, issued <= issued',
           \A cid \in DOMAIN connection_ids' : 
               cid \in DOMAIN connection_ids \/ (cid = <<"local", issued'>> /\ issued' = issued + 1),
           \A ch \in DOMAIN conns : /\ conns[ch].init \in DOMAIN initial' /\ initial'[conns[ch].init] = initial[conns[ch].init]
                                    /\ conns[ch].cid \in DOMAIN connection_ids'
                                    /\ connection_ids'[conns[ch].cid] = connection_ids[conns[ch].cid]
    PROVE  ConnInv'
<1>1. ClientInv /\ ConnInv
    BY DEF IncomingInv
<1>2. \A c, id : UsedBy(c, id) => UsedBy(c, id)'
    BY <1>1, UsedStays
<1>3. ASSUME NEW cid \in DOMAIN connection_ids'
      PROVE  \E k \in 1 .. issued' : cid = <<"local", k>>
    <2>1. CASE cid \in DOMAIN connection_ids
        <3>1. PICK k \in 1 .. issued : cid = <<"local", k>>
            BY <1>1, <2>1 DEF ConnInv
        <3>2. k \in 1 .. issued'
            BY <1>1 DEF ConnInv
        <3> QED
            BY <3>1, <3>2
    <2>2. CASE cid = <<"local", issued'>> /\ issued' = issued + 1
        <3>1. issued' \in 1 .. issued'
            BY <1>1, <2>2 DEF ConnInv
        <3> QED
            BY <2>2, <3>1
    <2> QED
        BY <2>1, <2>2
<1>4. ASSUME NEW ch \in DOMAIN conns'
      PROVE  /\ UsedBy(conns[ch].client, conns[ch].init)'
             /\ conns'[ch].init \in DOMAIN initial' /\ initial'[conns'[ch].init].to = "connection"
             /\ initial'[conns'[ch].init].at = ch
             /\ conns'[ch].cid \in DOMAIN connection_ids' /\ connection_ids'[conns'[ch].cid] = ch
    <2>1. conns'[ch] = conns[ch] /\ ch \in DOMAIN conns
        OBVIOUS
    <2>2. UsedBy(conns'[ch].client, conns'[ch].init)
        BY <1>1, <2>1 DEF ConnInv
    <2>3. UsedBy(conns[ch].client, conns[ch].init)'
        BY <1>2, <2>2, ZenonT(60) DEF UsedBy
    <2> QED
        BY <1>1, <2>1, <2>3 DEF ConnInv
<1> QED
    BY <1>1, <1>3, <1>4 DEF ConnInv

\* The buffer of an answered attempt goes.
LEMMA BufferGone ==
    ASSUME IncomingInv, NEW i \in incomings, BufferGoes(i)
    PROVE  BufferInv'
<1>1. BufferInv /\ AttemptInv
    BY DEF IncomingInv
<1>2. i.at \in DOMAIN buffers /\ buffers[i.at] \in Seq(Ids)
    BY <1>1 DEF BufferInv
<1>3. /\ incomings' = incomings \ {i} /\ buffers' = Less(buffers, {i.at})
      /\ spareBuffers' = <<i.at>> \o spareBuffers /\ total' = total - Len(buffers[i.at])
    BY DEF BufferGoes
<1>4. DOMAIN buffers' = DOMAIN buffers \ {i.at} /\ \A k \in DOMAIN buffers' : buffers'[k] = buffers[k]
    BY <1>3 DEF Less
<1>5. SlabOf(DOMAIN buffers', spareBuffers')
    BY <1>1, <1>2, <1>3, <1>4, SlabFreed DEF BufferInv
<1>6. DOMAIN buffers' = {j.at : j \in incomings'}
    <2>1. \A j \in incomings' : j \in incomings /\ j # i /\ j.at # i.at
        BY <1>1, <1>3 DEF AttemptInv
    <2>2. \A k \in DOMAIN buffers' : \E j \in incomings' : k = j.at
        BY <1>1, <1>3, <1>4 DEF BufferInv
    <2>3. \A j \in incomings' : j.at \in DOMAIN buffers'
        BY <1>1, <1>4, <2>1 DEF BufferInv
    <2> QED
        BY <2>2, <2>3
<1>7. \A k \in DOMAIN buffers' : buffers'[k] \in Seq(Ids)
    BY <1>1, <1>4 DEF BufferInv
<1>8. /\ IsFiniteSet(Slots(buffers')) /\ Cardinality(Slots(buffers')) = Cardinality(Slots(buffers)) - Len(buffers[i.at])
    BY <1>1, <1>2, <1>3, SlotsGone DEF BufferInv
<1>9. total' = Cardinality(Slots(buffers')) /\ total' <= IncomingBufferTotal
    <2>1. Len(buffers[i.at]) \in Nat /\ Cardinality(Slots(buffers)) \in Nat
        BY <1>1, <1>2, FS_CardinalityType DEF BufferInv
    <2>2. total = Cardinality(Slots(buffers)) /\ total <= IncomingBufferTotal /\ IncomingBufferTotal \in Nat
        BY <1>1, IncomingConstants DEF BufferInv
    <2> QED
        BY <1>3, <1>8, <2>1, <2>2
<1> QED
    BY <1>5, <1>6, <1>7, <1>8, <1>9 DEF BufferInv, Slots

\* An answered attempt leaves the routes of the others live.
LEMMA RoutesStay ==
    ASSUME IncomingInv, NEW i \in incomings, incomings' = incomings \ {i}, conns' = conns, strayed \subseteq strayed',
           \A id \in DOMAIN initial' \ strayed' : id # i.id /\ id \in DOMAIN initial /\ initial'[id] = initial[id],
           \A cid \in DOMAIN connection_ids' \ strayed' :
               cid \in DOMAIN connection_ids /\ connection_ids'[cid] = connection_ids[cid]
    PROVE  RoutesAreLive'
<1>1. RoutesAreLive
    BY DEF IncomingInv
<1>2. ASSUME NEW id \in DOMAIN initial' \ strayed'
      PROVE  IF initial'[id].to = "incoming"
               THEN \E j \in incomings' : j.id = id /\ j.at = initial'[id].at
               ELSE initial'[id].at \in DOMAIN conns' /\ conns'[initial'[id].at].init = id
    <2>1. id \in DOMAIN initial \ strayed /\ initial'[id] = initial[id] /\ id # i.id
        OBVIOUS
    <2>2. CASE initial[id].to = "incoming"
        BY <1>1, <2>1, <2>2 DEF RoutesAreLive
    <2>3. CASE initial[id].to # "incoming"
        BY <1>1, <2>1, <2>3 DEF RoutesAreLive
    <2> QED
        BY <2>1, <2>2, <2>3
<1>3. ASSUME NEW cid \in DOMAIN connection_ids' \ strayed'
      PROVE  connection_ids'[cid] \in DOMAIN conns' /\ conns'[connection_ids'[cid]].cid = cid
    BY <1>1 DEF RoutesAreLive
<1> QED
    BY <1>2, <1>3 DEF RoutesAreLive

\* A step that leaves everything but the clients as it is.
LEMMA ClientsStep ==
    ASSUME IncomingInv, ClientInv', Grown, sentTo \subseteq sentTo',
           UNCHANGED <<initial, connection_ids, buffers, spareBuffers, total, incomings, conns, spareConns,
                       issued, strayed>>
    PROVE  IncomingInv'
<1>1. \A j \in incomings' : j.id \in DOMAIN initial' /\ initial'[j.id] = initial[j.id]
    BY DEF IncomingInv, AttemptInv
<1>2. AttemptInv' /\ ValidatedWasSent'
    BY <1>1, AttemptsStay
<1>3. issued' \in Nat /\ issued <= issued'
    BY DEF IncomingInv, ConnInv
<1>4. \A ch \in DOMAIN conns : /\ conns[ch].init \in DOMAIN initial' /\ initial'[conns[ch].init] = initial[conns[ch].init]
                               /\ conns[ch].cid \in DOMAIN connection_ids'
                               /\ connection_ids'[conns[ch].cid] = connection_ids[conns[ch].cid]
    BY DEF IncomingInv, ConnInv
<1>5. ConnInv'
    BY <1>3, <1>4, ConnsStay
<1>6. BufferInv'
    BY DEF IncomingInv, BufferInv, Slots
<1>7. RoutesAreLive'
    BY DEF IncomingInv, RoutesAreLive
<1> QED
    BY <1>2, <1>5, <1>6, <1>7 DEF IncomingInv

-----------------------------------------------------------------------------
(* Incoming connections: clients *)

\* More addresses that tokens were sent to.
LEMMA UseStays ==
    ASSUME NEW tos, NEW more, tos \subseteq more, NEW c, NEW k, NEW u, UseOk(tos, c, k, u)
    PROVE  UseOk(more, c, k, u)
BY DEF UseOk

LEMMA ClientsSame ==
    ASSUME ClientInv, UNCHANGED <<clients, sentTo>>
    PROVE  ClientInv' /\ Grown
<1>1. \A c \in Clients : Len(clients[c].ids) \in Nat
    BY DEF ClientInv
<1> QED
    BY <1>1 DEF ClientInv, Grown

\* A client uses one id more.
LEMMA UseAppended ==
    ASSUME ClientInv, NEW c \in Clients, NEW u \in Uses, sentTo \subseteq sentTo',
           clients' = [clients EXCEPT ![c].ids = Append(clients[c].ids, u)],
           UseOk(sentTo', c, Len(clients[c].ids) + 1, u)
    PROVE  ClientInv' /\ Grown
<1> DEFINE ids == clients[c].ids
<1>1. \A x \in Clients : clients[x] \in [addr : Addresses, ids : Seq(Uses)] /\ clients[x].ids \in Seq(Uses)
                         /\ Len(clients[x].ids) \in Nat
    BY DEF ClientInv
<1>2. Append(ids, u) \in Seq(Uses) /\ Len(Append(ids, u)) = Len(ids) + 1 /\ Append(ids, u)[Len(ids) + 1] = u
      /\ \A k \in 1 .. Len(ids) : Append(ids, u)[k] = ids[k]
    <2>1. ids \in Seq(Uses)
        BY <1>1
    <2> HIDE DEF ids
    <2> QED
        BY <2>1
<1>3. clients'[c].ids = Append(ids, u) /\ clients'[c].addr = clients[c].addr
      /\ \A x \in Clients : x # c => clients'[x] = clients[x]
    BY <1>1 DEF ClientInv
<1>4. clients' \in [Clients -> [addr : Addresses, ids : Seq(Uses)]]
    BY <1>1, <1>2 DEF ClientInv
<1>5. ASSUME NEW x \in Clients, NEW k \in 1 .. Len(clients'[x].ids)
      PROVE  UseOk(sentTo', x, k, clients'[x].ids[k])
    <2>1. CASE x = c /\ k = Len(ids) + 1
        BY <1>2, <1>3, <2>1
    <2>2. CASE ~(x = c /\ k = Len(ids) + 1)
        <3>1. k \in 1 .. Len(clients[x].ids) /\ clients'[x].ids[k] = clients[x].ids[k]
            BY <1>1, <1>2, <1>3, <2>2
        <3>2. UseOk(sentTo, x, k, clients[x].ids[k])
            BY <3>1 DEF ClientInv
        <3> QED
            BY <3>1, <3>2, UseStays
    <2> QED
        BY <2>1, <2>2
<1>6. Grown
    <2> HIDE DEF ids
    <2>1. ASSUME NEW x \in Clients
          PROVE  Len(clients[x].ids) <= Len(clients'[x].ids)
                 /\ \A k \in 1 .. Len(clients[x].ids) : clients'[x].ids[k] = clients[x].ids[k]
        BY <1>1, <1>2, <1>3 DEF ids
    <2> QED
        BY <2>1 DEF Grown
<1> QED
    BY <1>4, <1>5, <1>6 DEF ClientInv

\* One of a client's uses changes.
LEMMA UseReplaced ==
    ASSUME ClientInv, NEW c \in Clients, NEW n \in 1 .. Len(clients[c].ids), NEW u \in Uses, sentTo \subseteq sentTo',
           clients' = [clients EXCEPT ![c].ids[n] = u], UseOk(sentTo', c, n, u)
    PROVE  ClientInv' /\ Grown
<1> DEFINE ids == clients[c].ids
           new == [ids EXCEPT ![n] = u]
<1>1. \A x \in Clients : clients[x] \in [addr : Addresses, ids : Seq(Uses)] /\ clients[x].ids \in Seq(Uses)
                         /\ Len(clients[x].ids) \in Nat
    BY DEF ClientInv
<1>2. new \in Seq(Uses) /\ Len(new) = Len(ids) /\ new[n] = u /\ \A k \in 1 .. Len(ids) : k # n => new[k] = ids[k]
    <2>1. ids \in Seq(Uses)
        BY <1>1
    <2> HIDE DEF ids
    <2> QED
        BY <2>1 DEF ids
<1>3. clients' = [clients EXCEPT ![c].ids = new]
    OBVIOUS
<1> HIDE DEF new
<1>4. clients'[c].ids = new /\ \A x \in Clients : x # c => clients'[x] = clients[x]
    BY <1>1, <1>3 DEF ClientInv
<1>5. clients' \in [Clients -> [addr : Addresses, ids : Seq(Uses)]]
    BY <1>1, <1>2, <1>3 DEF ClientInv
<1>6. ASSUME NEW x \in Clients, NEW k \in 1 .. Len(clients'[x].ids)
      PROVE  UseOk(sentTo', x, k, clients'[x].ids[k])
    <2>1. CASE x = c /\ k = n
        BY <1>2, <1>4, <2>1
    <2>2. CASE ~(x = c /\ k = n)
        <3>1. k \in 1 .. Len(clients[x].ids) /\ clients'[x].ids[k] = clients[x].ids[k]
            BY <1>2, <1>4, <2>2
        <3>2. UseOk(sentTo, x, k, clients[x].ids[k])
            BY <3>1 DEF ClientInv
        <3> QED
            BY <3>1, <3>2, UseStays
    <2> QED
        BY <2>1, <2>2
<1>7. Grown
    <2>1. u.id = ids[n].id
        BY DEF ClientInv, UseOk
    <2>2. ASSUME NEW x \in Clients
          PROVE  Len(clients[x].ids) <= Len(clients'[x].ids)
                 /\ \A k \in 1 .. Len(clients[x].ids) : clients'[x].ids[k].id = clients[x].ids[k].id
        BY <1>1, <1>2, <1>4, <2>1
    <2> QED
        BY <2>2 DEF Grown
<1> QED
    BY <1>5, <1>6, <1>7 DEF ClientInv

\* A client begins an attempt.
LEMMA ConnectsStep ==
    ASSUME IncomingInv, NEW c \in Clients, NEW token,
           token = NoToken \/ \E k \in DOMAIN clients[c].ids : token = clients[c].ids[k].next,
           Connects(c, token)
    PROVE  IncomingInv'
<1>1. ClientInv /\ clients[c].ids \in Seq(Uses) /\ Len(clients[c].ids) \in Nat
    BY DEF IncomingInv, ClientInv
<1>2. PICK u : u = [id |-> <<c, Len(clients[c].ids) + 1>>, token |-> token, next |-> NoToken]
    OBVIOUS
<1>3. clients' = [clients EXCEPT ![c].ids = Append(clients[c].ids, u)]
    BY <1>2 DEF Connects, NextId
<1>4. sentTo' = sentTo /\ UNCHANGED <<initial, connection_ids, buffers, spareBuffers, total, incomings, conns, spareConns,
                                      issued, strayed>>
    BY DEF Connects
<1>5. NoToken \in Tokens /\ NoToken.kind = "none"
    BY DEF NoToken, Tokens
<1>6. token \in Tokens /\ token.kind # "retry" /\ (token.kind # "none" => token.addr \in sentTo)
    <2>1. CASE token = NoToken
        BY <1>5, <2>1
    <2>2. ASSUME NEW k \in DOMAIN clients[c].ids, token = clients[c].ids[k].next
          PROVE  token \in Tokens /\ token.kind # "retry" /\ (token.kind # "none" => token.addr \in sentTo)
        <3>1. k \in 1 .. Len(clients[c].ids) /\ clients[c].ids[k] \in Uses
            BY <1>1
        <3>2. UseOk(sentTo, c, k, clients[c].ids[k])
            BY <1>1, <3>1 DEF ClientInv
        <3> QED
            BY <2>2, <3>1, <3>2 DEF UseOk, Uses
    <2> QED
        BY <2>1, <2>2
<1>7. u \in Uses
    <2>1. <<c, Len(clients[c].ids) + 1>> \in Ids
        BY <1>1 DEF Ids
    <2> QED
        BY <1>2, <1>5, <1>6, <2>1 DEF Uses
<1>8. UseOk(sentTo', c, Len(clients[c].ids) + 1, u)
    BY <1>2, <1>4, <1>5, <1>6 DEF UseOk
<1>9. ClientInv' /\ Grown
    BY <1>1, <1>3, <1>4, <1>7, <1>8, UseAppended
<1> QED
    BY <1>4, <1>9, ClientsStep

\* A client moves, and a token grows old.
LEMMA MovesStep ==
    ASSUME IncomingInv, NEW c \in Clients, (\E a \in Addresses : Rebinds(c, a)) \/ TokenExpires(c)
    PROVE  IncomingInv'
<1>1. ClientInv /\ clients[c].ids \in Seq(Uses) /\ Len(clients[c].ids) \in Nat
    BY DEF IncomingInv, ClientInv
<1>2. sentTo' = sentTo /\ UNCHANGED <<initial, connection_ids, buffers, spareBuffers, total, incomings, conns, spareConns,
                                      issued, strayed>>
    BY DEF Rebinds, TokenExpires
<1>3. CASE \E a \in Addresses : Rebinds(c, a)
    <2>1. PICK a \in Addresses : clients' = [clients EXCEPT ![c].addr = a]
        BY <1>3 DEF Rebinds
    <2>2. \A x \in Clients : clients'[x].ids = clients[x].ids /\ Len(clients[x].ids) \in Nat
        BY <1>1, <2>1 DEF ClientInv
    <2>3. clients' \in [Clients -> [addr : Addresses, ids : Seq(Uses)]]
        BY <1>1, <2>1 DEF ClientInv
    <2>4. ClientInv' /\ Grown
        BY <1>1, <1>2, <2>2, <2>3 DEF ClientInv, Grown
    <2> QED
        BY <1>2, <2>4, ClientsStep
<1>4. CASE TokenExpires(c)
    <2>1. PICK n \in DOMAIN clients[c].ids : clients' = [clients EXCEPT ![c].ids[n].token.old = TRUE]
        BY <1>4 DEF TokenExpires
    <2>2. PICK d : d = clients[c].ids[n]
        OBVIOUS
    <2>3. PICK u : u = [d EXCEPT !.token.old = TRUE]
        OBVIOUS
    <2>4. clients' = [clients EXCEPT ![c].ids[n] = u]
        BY <2>1, <2>2, <2>3
    <2>5. n \in 1 .. Len(clients[c].ids) /\ d \in Uses
        BY <1>1, <2>1, <2>2
    <2>6. UseOk(sentTo, c, n, d)
        BY <1>1, <2>2, <2>5 DEF ClientInv
    <2>7. u \in Uses /\ u.id = d.id /\ u.next = d.next /\ u.token.kind = d.token.kind /\ u.token.addr = d.token.addr
          /\ u.token.id = d.token.id
        BY <2>3, <2>5 DEF Uses, Tokens
    <2>8. UseOk(sentTo', c, n, u)
        BY <1>2, <2>6, <2>7 DEF UseOk
    <2>9. ClientInv' /\ Grown
        BY <1>1, <1>2, <2>4, <2>5, <2>7, <2>8, UseReplaced
    <2> QED
        BY <1>2, <2>9, ClientsStep
<1> QED
    BY <1>3, <1>4

\* A connection sends its client a token for the address it is at.
LEMMA NewTokenStep ==
    ASSUME IncomingInv, NEW ch \in DOMAIN conns, NewToken(ch)
    PROVE  IncomingInv'
<1>1. ClientInv /\ UsedBy(conns[ch].client, conns[ch].init)
    BY DEF IncomingInv, ConnInv
<1>0. PICK c \in Clients : c = conns[ch].client
    BY <1>1 DEF UsedBy
<1>2. PICK n \in 1 .. Len(clients[c].ids) : conns[ch].init = <<c, n>>
    BY <1>0, <1>1 DEF UsedBy
<1>3. PICK t : t = [kind |-> "validation", addr |-> clients[c].addr, id |-> <<c, n>>, old |-> FALSE]
    OBVIOUS
<1>4. PICK d : d = clients[c].ids[n]
    OBVIOUS
<1>5. PICK u : u = [d EXCEPT !.next = t]
    OBVIOUS
<1>6. conns[ch].init[2] = n
    BY <1>2
<1>7. clients' = [clients EXCEPT ![c].ids[n].next = t] /\ sentTo' = sentTo \cup {clients[c].addr}
    BY <1>0, <1>2, <1>3, <1>6 DEF NewToken
<1>8. UNCHANGED <<initial, connection_ids, buffers, spareBuffers, total, incomings, conns, spareConns, issued, strayed>>
    BY DEF NewToken
<1>9. clients' = [clients EXCEPT ![c].ids[n] = u]
    BY <1>4, <1>5, <1>7
<1>10. d \in Uses /\ UseOk(sentTo, c, n, d) /\ clients[c].addr \in Addresses
    <2>1. clients[c].ids \in Seq(Uses) /\ clients[c].addr \in Addresses
        BY <1>1 DEF ClientInv
    <2> QED
        BY <1>1, <1>4, <2>1 DEF ClientInv
<1>11. t \in Tokens /\ t.kind = "validation" /\ t.addr = clients[c].addr
    <2>1. <<c, n>> \in Ids
        BY DEF Ids
    <2> QED
        BY <1>3, <1>10, <2>1 DEF Tokens
<1>12. u \in Uses /\ u.id = d.id /\ u.token = d.token /\ u.next = t
    BY <1>5, <1>10, <1>11 DEF Uses
<1>13. UseOk(sentTo', c, n, u)
    BY <1>7, <1>10, <1>11, <1>12 DEF UseOk
<1>14. ClientInv' /\ Grown
    BY <1>1, <1>7, <1>9, <1>12, <1>13, UseReplaced
<1> QED
    BY <1>7, <1>8, <1>14, ClientsStep

-----------------------------------------------------------------------------
(* Incoming connections: the endpoint *)

\* What from_header makes of a token a client holds.
LEMMA HeaderFacts ==
    ASSUME ClientInv, NEW c \in Clients, NEW k \in 1 .. Len(clients[c].ids), NEW d, d = clients[c].ids[k],
           NEW t, t = FromHeader(d.id, d.token, clients[c].addr), t.orig # <<>>
    PROVE  /\ d.id = <<c, k>>
           /\ t.validated => clients[c].addr \in sentTo
           /\ t.retried => \E j \in 1 .. k - 1 : t.orig = <<c, j>>
<1>1. d \in Uses /\ UseOk(sentTo, c, k, d)
    <2>1. clients[c].ids \in Seq(Uses)
        BY DEF ClientInv
    <2> QED
        BY <2>1 DEF ClientInv
<1>2. d.token.kind \in {"none", "retry", "validation"}
    BY <1>1 DEF Uses, Tokens
<1>3. d.id = <<c, k>>
    BY <1>1 DEF UseOk
<1>4. CASE d.token.kind = "none"
    <2>1. t = Unvalidated(d.id)
        BY <1>4 DEF FromHeader
    <2> QED
        BY <1>3, <2>1 DEF Unvalidated
<1>5. CASE d.token.kind = "retry"
    <2>1. d.token.addr \in sentTo /\ \E j \in 1 .. k - 1 : d.token.id = <<c, j>>
        BY <1>1, <1>5 DEF UseOk
    <2>2. t = IF d.token.addr # clients[c].addr \/ d.token.old THEN [validated |-> FALSE, retried |-> TRUE, orig |-> <<>>]
              ELSE [validated |-> TRUE, retried |-> TRUE, orig |-> d.token.id]
        BY <1>5 DEF FromHeader
    <2>3. CASE d.token.addr # clients[c].addr \/ d.token.old
        BY <2>2, <2>3
    <2>4. CASE ~(d.token.addr # clients[c].addr \/ d.token.old)
        <3>1. t.validated /\ t.retried /\ t.orig = d.token.id /\ d.token.addr = clients[c].addr
            BY <2>2, <2>4
        <3> QED
            BY <1>3, <2>1, <3>1
    <2> QED
        BY <2>3, <2>4
<1>6. CASE d.token.kind = "validation"
    <2>1. d.token.addr \in sentTo
        BY <1>1, <1>6 DEF UseOk
    <2>2. t = IF d.token.addr # clients[c].addr \/ d.token.old \/ d.token.id \in usedNonces THEN Unvalidated(d.id)
              ELSE [validated |-> TRUE, retried |-> FALSE, orig |-> d.id]
        BY <1>6 DEF FromHeader
    <2>3. ~t.retried /\ (t.validated => d.token.addr = clients[c].addr)
        BY <2>2 DEF Unvalidated
    <2> QED
        BY <1>3, <2>1, <2>3
<1> QED
    BY <1>2, <1>4, <1>5, <1>6

\* A datagram joins an attempt's buffer.
LEMMA BufferedStep ==
    ASSUME IncomingInv, NEW c \in Clients, NEW k \in DOMAIN clients[c].ids, DatagramBuffered(clients[c].ids[k])
    PROVE  IncomingInv'
<1>1. ClientInv /\ AttemptInv /\ BufferInv /\ ConnInv /\ RoutesAreLive /\ ValidatedWasSent
    BY DEF IncomingInv
<1>2. PICK d : d = clients[c].ids[k]
    OBVIOUS
<1>3. d.id \in Ids
    <2>1. clients[c].ids \in Seq(Uses)
        BY <1>1 DEF ClientInv
    <2>2. d \in Uses
        BY <1>2, <2>1
    <2> QED
        BY <2>2 DEF Uses
<1>4. UNCHANGED <<clients, sentTo>> /\ UNCHANGED <<initial, connection_ids, spareBuffers, incomings, conns, spareConns,
                                                   issued, strayed>>
    BY DEF DatagramBuffered
<1>5. ClientInv' /\ Grown
    BY <1>1, <1>4, ClientsSame
<1>6. PICK at : at = initial[d.id].at
    OBVIOUS
<1>7. CASE at \notin DOMAIN buffers
    <2>1. UNCHANGED <<buffers, total>>
        BY <1>2, <1>6, <1>7 DEF DatagramBuffered
    <2> QED
        BY <1>4, <1>5, <2>1, ClientsStep
<1>8. CASE at \in DOMAIN buffers
    <2>1. /\ total < IncomingBufferTotal /\ total' = total + 1
          /\ buffers' = [buffers EXCEPT ![at] = Append(buffers[at], d.id)]
        BY <1>2, <1>6, <1>8 DEF DatagramBuffered
    <2>2. buffers[at] \in Seq(Ids) /\ IsFiniteSet(Slots(buffers))
        BY <1>1, <1>8 DEF BufferInv
    <2>3. IsFiniteSet(Slots(buffers')) /\ Cardinality(Slots(buffers')) = Cardinality(Slots(buffers)) + 1
        BY <1>3, <1>8, <2>1, <2>2, SlotAdded
    <2>4. total = Cardinality(Slots(buffers)) /\ total \in Nat /\ IncomingBufferTotal \in Nat
        BY <1>1, <2>2, FS_CardinalityType, IncomingConstants DEF BufferInv
    <2>5. total' = Cardinality(Slots(buffers')) /\ total' <= IncomingBufferTotal
        BY <2>1, <2>3, <2>4
    <2>6. Append(buffers[at], d.id) \in Seq(Ids)
        BY <1>3, <2>2
    <2>7. DOMAIN buffers' = DOMAIN buffers /\ \A x \in DOMAIN buffers' : buffers'[x] \in Seq(Ids)
        BY <1>1, <2>1, <2>6 DEF BufferInv
    <2>8. BufferInv'
        BY <1>1, <1>4, <2>3, <2>5, <2>7 DEF BufferInv, Slots
    <2>9. AttemptInv' /\ ValidatedWasSent'
        BY <1>1, <1>4 DEF AttemptInv, ValidatedWasSent, UsedBy
    <2>10. ConnInv' /\ RoutesAreLive'
        BY <1>1, <1>4 DEF ConnInv, RoutesAreLive, UsedBy
    <2> QED
        BY <1>5, <2>8, <2>9, <2>10 DEF IncomingInv
<1> QED
    BY <1>7, <1>8

\* A first datagram begins an attempt.
LEMMA FirstPacketStep ==
    ASSUME IncomingInv, NEW c \in Clients, NEW k \in DOMAIN clients[c].ids, FirstPacket(c, clients[c].ids[k])
    PROVE  IncomingInv'
<1>1. ClientInv /\ AttemptInv /\ BufferInv /\ ConnInv /\ RoutesAreLive /\ ValidatedWasSent
    BY DEF IncomingInv
<1>2. PICK d : d = clients[c].ids[k]
    OBVIOUS
<1>3. PICK t : t = FromHeader(d.id, d.token, clients[c].addr)
    OBVIOUS
<1>4. PICK at : at = VacantKey(buffers, spareBuffers)
    OBVIOUS
<1>5. PICK new : new = [client |-> c, addr |-> clients[c].addr, id |-> d.id, at |-> at,
                        validated |-> t.validated, retried |-> t.retried, orig |-> t.orig]
    OBVIOUS
<1>6. UNCHANGED <<clients, sentTo>> /\ UNCHANGED <<connection_ids, total, conns, spareConns, issued, strayed>>
    BY DEF FirstPacket
<1>7. ClientInv' /\ Grown
    BY <1>1, <1>6, ClientsSame
<1>8. d.id \notin DOMAIN initial /\ t.orig # <<>>
    BY <1>2, <1>3 DEF FirstPacket
<1>9. CASE closing
    <2>1. UNCHANGED <<initial, buffers, spareBuffers, incomings>>
        BY <1>9 DEF FirstPacket
    <2> QED
        BY <1>6, <1>7, <2>1, ClientsStep
<1>10. CASE ~closing
    <2>1. /\ initial' = With(initial, d.id, [to |-> "incoming", at |-> at])
          /\ buffers' = With(buffers, at, <<>>)
          /\ spareBuffers' = Spared(spareBuffers)
          /\ incomings' = incomings \cup {new}
        BY <1>2, <1>3, <1>4, <1>5, <1>10 DEF FirstPacket
    <2>2. k \in 1 .. Len(clients[c].ids) /\ clients[c].addr \in Addresses
        BY <1>1 DEF ClientInv
    <2>3. /\ d.id = <<c, k>>
          /\ t.validated => clients[c].addr \in sentTo
          /\ t.retried => \E j \in 1 .. k - 1 : t.orig = <<c, j>>
        <3>1. ClientInv /\ k \in 1 .. Len(clients[c].ids) /\ t.orig # <<>>
            BY <1>1, <1>8, <2>2
        <3>2. d.id = <<c, k>>
            BY <1>2, <1>3, <3>1, HeaderFacts
        <3>3. t.validated => clients[c].addr \in sentTo
            BY <1>2, <1>3, <3>1, HeaderFacts
        <3>4. t.retried => \E j \in 1 .. k - 1 : t.orig = <<c, j>>
            BY <1>2, <1>3, <3>1, HeaderFacts, ZenonT(60)
        <3> QED
            BY <3>2, <3>3, <3>4
    <2>4. at \notin DOMAIN buffers /\ SlabOf(DOMAIN buffers \cup {at}, Spared(spareBuffers))
        BY <1>1, <1>4, SlabVacant DEF BufferInv
    <2>5. DOMAIN initial' = DOMAIN initial \cup {d.id} /\ initial'[d.id] = [to |-> "incoming", at |-> at]
          /\ \A id \in DOMAIN initial : initial'[id] = initial[id]
        BY <1>8, <2>1 DEF With
    <2>6. DOMAIN buffers' = DOMAIN buffers \cup {at} /\ buffers'[at] = <<>>
          /\ \A x \in DOMAIN buffers : buffers'[x] = buffers[x]
        BY <2>1, <2>4 DEF With
    <2>7. Slots(buffers') = Slots(buffers)
        BY <2>1, <2>4, SlotsSame
    <2>8. new.client = c /\ new.addr = clients[c].addr /\ new.id = d.id /\ new.at = at
          /\ new.validated = t.validated /\ new.retried = t.retried /\ new.orig = t.orig
        BY <1>5
    <2>9. \A i \in incomings : i.at \in DOMAIN buffers
        BY <1>1 DEF BufferInv
    <2>10. BufferInv'
        <3>1. DOMAIN buffers' = {i.at : i \in incomings'}
            <4>1. \A x \in DOMAIN buffers' : \E i \in incomings' : x = i.at
                BY <1>1, <2>1, <2>6, <2>8 DEF BufferInv
            <4>2. \A i \in incomings' : i.at \in DOMAIN buffers'
                BY <2>1, <2>6, <2>8, <2>9
            <4> QED
                BY <4>1, <4>2
        <3>2. \A x \in DOMAIN buffers' : buffers'[x] \in Seq(Ids)
            <4>1. <<>> \in Seq(Ids)
                OBVIOUS
            <4> QED
                BY <1>1, <2>6, <4>1 DEF BufferInv
        <3>3. SlabOf(DOMAIN buffers', spareBuffers')
            BY <2>1, <2>4, <2>6
        <3>4. IsFiniteSet(Slots(buffers')) /\ total' = Cardinality(Slots(buffers')) /\ total' <= IncomingBufferTotal
            BY <1>1, <1>6, <2>7 DEF BufferInv
        <3> QED
            BY <3>1, <3>2, <3>3, <3>4 DEF BufferInv, Slots
    <2>11. AttemptInv'
        <3>1. IsFiniteSet(incomings')
            BY <1>1, <2>1, FS_AddElement DEF AttemptInv
        <3>2. ASSUME NEW i \in incomings'
              PROVE  /\ UsedBy(i.client, i.id)' /\ i.addr \in Addresses
                     /\ i.id \in DOMAIN initial' /\ initial'[i.id].to = "incoming" /\ initial'[i.id].at = i.at
            <4>1. CASE i = new
                <5>1. UsedBy(i.client, i.id)'
                    BY <1>6, <2>2, <2>3, <2>8, <4>1 DEF UsedBy
                <5> QED
                    BY <2>2, <2>5, <2>8, <4>1, <5>1
            <4>2. CASE i \in incomings
                BY <1>1, <1>6, <2>5, <4>2 DEF AttemptInv, UsedBy
            <4> QED
                BY <2>1, <4>1, <4>2
        <3>3. \A i, j \in incomings' : i.at = j.at => i = j
            BY <1>1, <2>1, <2>4, <2>8, <2>9 DEF AttemptInv
        <3> QED
            BY <3>1, <3>2, <3>3 DEF AttemptInv
    <2>12. ConnInv'
        <3>1. issued' \in Nat /\ issued <= issued'
            BY <1>1, <1>6 DEF ConnInv
        <3>2. \A ch \in DOMAIN conns :
                /\ conns[ch].init \in DOMAIN initial' /\ initial'[conns[ch].init] = initial[conns[ch].init]
                /\ conns[ch].cid \in DOMAIN connection_ids'
                /\ connection_ids'[conns[ch].cid] = connection_ids[conns[ch].cid]
            BY <1>1, <1>6, <2>5 DEF ConnInv
        <3> QED
            BY <1>6, <1>7, <3>1, <3>2, ConnsStay
    <2>13. RoutesAreLive'
        <3>1. ASSUME NEW id \in DOMAIN initial' \ strayed'
              PROVE  IF initial'[id].to = "incoming"
                       THEN \E j \in incomings' : j.id = id /\ j.at = initial'[id].at
                       ELSE initial'[id].at \in DOMAIN conns' /\ conns'[initial'[id].at].init = id
            <4>1. CASE id = d.id
                <5>1. initial'[id].to = "incoming" /\ initial'[id].at = at
                    BY <2>5, <4>1
                <5>2. new \in incomings' /\ new.id = id /\ new.at = initial'[id].at
                    BY <2>1, <2>8, <4>1, <5>1
                <5> QED
                    BY <5>1, <5>2
            <4>2. CASE id # d.id
                <5>1. id \in DOMAIN initial \ strayed /\ initial'[id] = initial[id]
                    BY <1>6, <2>5, <4>2
                <5>2. CASE initial[id].to = "incoming"
                    BY <1>1, <2>1, <5>1, <5>2 DEF RoutesAreLive
                <5>3. CASE initial[id].to # "incoming"
                    BY <1>1, <1>6, <5>1, <5>3 DEF RoutesAreLive
                <5> QED
                    BY <5>1, <5>2, <5>3
            <4> QED
                BY <4>1, <4>2
        <3>2. ASSUME NEW cid \in DOMAIN connection_ids' \ strayed'
              PROVE  connection_ids'[cid] \in DOMAIN conns' /\ conns'[connection_ids'[cid]].cid = cid
            BY <1>1, <1>6 DEF RoutesAreLive
        <3> QED
            BY <3>1, <3>2 DEF RoutesAreLive
    <2>14. ValidatedWasSent'
        <3>1. ASSUME NEW i \in incomings'
              PROVE  /\ i.validated => i.addr \in sentTo'
                     /\ i.retried => \E x \in DOMAIN clients'[i.client].ids :
                                       clients'[i.client].ids[x].id = i.orig /\ i.orig # i.id
            <4>1. CASE i \in incomings
                BY <1>1, <1>6, <4>1 DEF ValidatedWasSent
            <4>2. CASE i = new
                <5>1. i.validated => i.addr \in sentTo'
                    BY <1>6, <2>3, <2>8, <4>2
                <5>2. ASSUME i.retried
                      PROVE  \E x \in DOMAIN clients'[i.client].ids :
                               clients'[i.client].ids[x].id = i.orig /\ i.orig # i.id
                    <6>1. PICK j \in 1 .. k - 1 : t.orig = <<c, j>>
                        BY <2>3, <2>8, <4>2, <5>2
                    <6>2. clients[c].ids \in Seq(Uses) /\ Len(clients[c].ids) \in Nat
                        BY <1>1 DEF ClientInv
                    <6>3. j \in 1 .. Len(clients[c].ids) /\ j # k
                        BY <2>2, <6>1, <6>2
                    <6>4. clients[c].ids[j].id = <<c, j>> /\ j \in DOMAIN clients[c].ids
                        BY <1>1, <6>2, <6>3 DEF ClientInv, UseOk
                    <6>5. <<c, j>> # <<c, k>>
                        BY <6>3
                    <6> QED
                        BY <1>6, <2>3, <2>8, <4>2, <6>1, <6>4, <6>5
                <5> QED
                    BY <5>1, <5>2
            <4> QED
                BY <2>1, <4>1, <4>2
        <3> QED
            BY <3>1 DEF ValidatedWasSent
    <2> QED
        BY <1>7, <2>10, <2>11, <2>12, <2>13, <2>14 DEF IncomingInv
<1> QED
    BY <1>9, <1>10

\* The attempt leaves, and its route with it: refuse, retry and a late accept.
LEMMA CleanedUp ==
    ASSUME IncomingInv, ClientInv', Grown, sentTo \subseteq sentTo', NEW i \in incomings, CleanUpIncoming(i),
           UNCHANGED <<connection_ids, conns, spareConns, issued, strayed>>
    PROVE  IncomingInv'
<1>1. ClientInv /\ AttemptInv /\ BufferInv /\ ConnInv /\ RoutesAreLive /\ ValidatedWasSent
    BY DEF IncomingInv
<1>2. BufferGoes(i) /\ incomings' = incomings \ {i}
    BY DEF CleanUpIncoming, BufferGoes
<1>3. DOMAIN initial' = DOMAIN initial \ {i.id} /\ \A id \in DOMAIN initial' : initial'[id] = initial[id]
    BY DEF CleanUpIncoming, Less
<1>4. /\ \A j \in incomings' : j \in incomings /\ j.id # i.id
      /\ \A ch \in DOMAIN conns : conns[ch].init # i.id
    BY <1>2, RouteOwners
<1>5. \A j \in incomings' : j.id \in DOMAIN initial' /\ initial'[j.id] = initial[j.id]
    BY <1>1, <1>3, <1>4 DEF AttemptInv
<1>6. AttemptInv' /\ ValidatedWasSent'
    BY <1>2, <1>5, AttemptsStay
<1>7. issued' \in Nat /\ issued <= issued'
    BY <1>1 DEF ConnInv
<1>8. \A ch \in DOMAIN conns :
        /\ conns[ch].init \in DOMAIN initial' /\ initial'[conns[ch].init] = initial[conns[ch].init]
        /\ conns[ch].cid \in DOMAIN connection_ids'
        /\ connection_ids'[conns[ch].cid] = connection_ids[conns[ch].cid]
    BY <1>1, <1>3, <1>4 DEF ConnInv
<1>9. ConnInv'
    BY <1>7, <1>8, ConnsStay
<1>10. RoutesAreLive'
    BY <1>2, <1>3, RoutesStay
<1>11. BufferInv'
    BY <1>2, BufferGone
<1> QED
    BY <1>6, <1>9, <1>10, <1>11 DEF IncomingInv

LEMMA RefuseStep ==
    ASSUME IncomingInv, NEW i \in incomings, Refuse(i) \/ AcceptLate(i)
    PROVE  IncomingInv'
<1>1. CleanUpIncoming(i) /\ UNCHANGED <<clients, sentTo>> /\ UNCHANGED <<connection_ids, conns, spareConns, issued, strayed>>
    BY DEF Refuse, AcceptLate
<1>2. ClientInv' /\ Grown
    BY <1>1, ClientsSame DEF IncomingInv
<1> QED
    BY <1>1, <1>2, CleanedUp

\* The client of an attempt gets a token for the address it came from.
LEMMA RetryStep ==
    ASSUME IncomingInv, NEW i \in incomings, NEW arrives \in BOOLEAN, Retry(i, arrives)
    PROVE  IncomingInv'
<1>1. ClientInv /\ UsedBy(i.client, i.id) /\ i.addr \in Addresses
    BY DEF IncomingInv, AttemptInv
<1>2. PICK c \in Clients : c = i.client
    BY <1>1 DEF UsedBy
<1>3. PICK n \in 1 .. Len(clients[c].ids) : i.id = <<c, n>>
    BY <1>1, <1>2 DEF UsedBy
<1>4. PICK u : u = [id |-> <<c, Len(clients[c].ids) + 1>>, next |-> NoToken,
                    token |-> [kind |-> "retry", addr |-> i.addr, id |-> i.id, old |-> FALSE]]
    OBVIOUS
<1>5. /\ CleanUpIncoming(i) /\ sentTo' = sentTo \cup {i.addr}
      /\ UNCHANGED <<connection_ids, conns, spareConns, issued, strayed>>
      /\ clients' = clients \/ clients' = [clients EXCEPT ![c].ids = Append(clients[c].ids, u)]
    BY <1>2, <1>4 DEF Retry, NextId
<1>6. CASE clients' = clients
    <2>1. \A x \in Clients : Len(clients[x].ids) \in Nat
        BY <1>1 DEF ClientInv
    <2>2. \A x \in Clients : \A k \in 1 .. Len(clients[x].ids) : UseOk(sentTo', x, k, clients[x].ids[k])
        BY <1>1, <1>5, UseStays DEF ClientInv
    <2>3. ClientInv' /\ Grown
        BY <1>1, <1>6, <2>1, <2>2 DEF ClientInv, Grown
    <2> QED
        BY <1>5, <2>3, CleanedUp
<1>7. CASE clients' = [clients EXCEPT ![c].ids = Append(clients[c].ids, u)]
    <2>1. clients[c].ids \in Seq(Uses) /\ Len(clients[c].ids) \in Nat
        BY <1>1 DEF ClientInv
    <2>2. <<c, Len(clients[c].ids) + 1>> \in Ids /\ i.id \in Ids
        BY <1>3, <2>1 DEF Ids
    <2>3. NoToken \in Tokens /\ NoToken.kind = "none"
        BY DEF NoToken, Tokens
    <2>4. [kind |-> "retry", addr |-> i.addr, id |-> i.id, old |-> FALSE] \in Tokens
        BY <1>1, <2>2 DEF Tokens
    <2>5. u \in Uses
        BY <1>4, <2>2, <2>3, <2>4 DEF Uses
    <2>6. /\ u.id = <<c, Len(clients[c].ids) + 1>> /\ u.next = NoToken
          /\ u.token.kind = "retry" /\ u.token.addr = i.addr /\ u.token.id = i.id
        BY <1>4
    <2>7. n \in 1 .. (Len(clients[c].ids) + 1) - 1
        BY <2>1
    <2>8. UseOk(sentTo', c, Len(clients[c].ids) + 1, u)
        BY <1>3, <1>5, <2>3, <2>6, <2>7 DEF UseOk
    <2>9. ClientInv' /\ Grown
        BY <1>1, <1>5, <1>7, <2>5, <2>8, UseAppended
    <2> QED
        BY <1>5, <2>9, CleanedUp
<1> QED
    BY <1>5, <1>6, <1>7

\* A local id is new.
LEMMA LocalIdNew ==
    ASSUME ConnInv
    PROVE  /\ LocalId \notin DOMAIN connection_ids /\ LocalId = <<"local", issued + 1>>
           /\ issued + 1 \in Nat /\ issued <= issued + 1
<1>1. issued \in Nat /\ \A cid \in DOMAIN connection_ids : \E k \in 1 .. issued : cid = <<"local", k>>
    BY DEF ConnInv
<1>2. \A k \in 1 .. issued : <<"local", k>> # <<"local", issued + 1>>
    BY <1>1
<1> QED
    BY <1>1, <1>2 DEF LocalId

\* accept leaves a route behind.
LEMMA StraysStep ==
    ASSUME IncomingInv, NEW i \in incomings, AcceptStrays(i)
    PROVE  IncomingInv'
<1>1. ClientInv /\ AttemptInv /\ BufferInv /\ ConnInv /\ RoutesAreLive /\ ValidatedWasSent
    BY DEF IncomingInv
<1>2. /\ BufferGoes(i) /\ incomings' = incomings \ {i} /\ UNCHANGED <<clients, sentTo>>
      /\ UNCHANGED <<initial, conns, spareConns>>
      /\ strayed' = strayed \cup {i.id} \cup (IF serving THEN {LocalId} ELSE {})
    BY DEF AcceptStrays, BufferGoes
<1>3. ClientInv' /\ Grown
    BY <1>1, <1>2, ClientsSame
<1>4. \A j \in incomings' : j.id \in DOMAIN initial' /\ initial'[j.id] = initial[j.id]
    BY <1>1, <1>2 DEF AttemptInv
<1>5. AttemptInv' /\ ValidatedWasSent'
    BY <1>2, <1>3, <1>4, AttemptsStay
<1>6. BufferInv'
    BY <1>2, BufferGone
<1>7. /\ LocalId \notin DOMAIN connection_ids /\ LocalId = <<"local", issued + 1>>
      /\ issued \in Nat /\ issued + 1 \in Nat /\ issued <= issued + 1
    BY <1>1, LocalIdNew DEF ConnInv
<1>8. /\ issued' \in Nat /\ issued <= issued'
      /\ \A cid \in DOMAIN connection_ids :
           cid \in DOMAIN connection_ids' /\ connection_ids'[cid] = connection_ids[cid]
      /\ \A cid \in DOMAIN connection_ids' :
           cid \in DOMAIN connection_ids
           \/ (cid = <<"local", issued'>> /\ issued' = issued + 1 /\ cid \in strayed')
    <2>1. CASE serving
        <3>1. issued' = issued + 1 /\ connection_ids' = With(connection_ids, LocalId, VacantKey(conns, spareConns))
            BY <2>1 DEF AcceptStrays
        <3>2. LocalId \in strayed'
            BY <1>2, <2>1
        <3>3. DOMAIN connection_ids' = DOMAIN connection_ids \cup {LocalId}
              /\ \A cid \in DOMAIN connection_ids : connection_ids'[cid] = connection_ids[cid]
            BY <1>7, <3>1 DEF With
        <3> QED
            BY <1>7, <3>1, <3>2, <3>3
    <2>2. CASE ~serving
        <3>1. UNCHANGED <<issued, connection_ids>>
            BY <2>2 DEF AcceptStrays
        <3> QED
            BY <1>7, <3>1
    <2> QED
        BY <2>1, <2>2
<1>9. \A ch \in DOMAIN conns :
        /\ conns[ch].init \in DOMAIN initial' /\ initial'[conns[ch].init] = initial[conns[ch].init]
        /\ conns[ch].cid \in DOMAIN connection_ids'
        /\ connection_ids'[conns[ch].cid] = connection_ids[conns[ch].cid]
    BY <1>1, <1>2, <1>8 DEF ConnInv
<1>10. ConnInv'
    BY <1>2, <1>3, <1>8, <1>9, ConnsStay
<1>11. strayed \subseteq strayed' /\ i.id \in strayed'
    BY <1>2
<1>12. RoutesAreLive'
    BY <1>2, <1>8, <1>11, RoutesStay
<1> QED
    BY <1>3, <1>5, <1>6, <1>10, <1>12 DEF IncomingInv

\* A connection takes the route of its attempt.
LEMMA AcceptStep ==
    ASSUME IncomingInv, NEW i \in incomings, Accept(i)
    PROVE  IncomingInv'
<1>1. ClientInv /\ AttemptInv /\ BufferInv /\ ConnInv /\ RoutesAreLive /\ ValidatedWasSent
    BY DEF IncomingInv
<1>2. PICK ch : ch = VacantKey(conns, spareConns)
    OBVIOUS
<1>3. PICK lid : lid = LocalId
    OBVIOUS
<1>4. /\ BufferGoes(i) /\ incomings' = incomings \ {i} /\ UNCHANGED <<clients, sentTo>> /\ strayed' = strayed
      /\ conns' = With(conns, ch, [init |-> i.id, cid |-> lid, client |-> i.client])
      /\ spareConns' = Spared(spareConns)
      /\ connection_ids' = With(connection_ids, lid, ch)
      /\ initial' = With(initial, i.id, [to |-> "connection", at |-> ch])
      /\ issued' = issued + 1
    BY <1>2, <1>3 DEF Accept, BufferGoes
<1>5. ClientInv' /\ Grown
    BY <1>1, <1>4, ClientsSame
<1>6. /\ lid \notin DOMAIN connection_ids /\ lid = <<"local", issued'>> /\ issued' \in Nat /\ issued \in Nat
    BY <1>1, <1>3, <1>4, LocalIdNew DEF ConnInv
<1>7. ch \notin DOMAIN conns /\ SlabOf(DOMAIN conns \cup {ch}, Spared(spareConns))
    BY <1>1, <1>2, SlabVacant DEF ConnInv
<1>8. DOMAIN conns' = DOMAIN conns \cup {ch} /\ conns'[ch] = [init |-> i.id, cid |-> lid, client |-> i.client]
      /\ \A x \in DOMAIN conns : conns'[x] = conns[x] /\ x # ch
    BY <1>4, <1>7 DEF With
<1>9. DOMAIN connection_ids' = DOMAIN connection_ids \cup {lid} /\ connection_ids'[lid] = ch
      /\ \A cid \in DOMAIN connection_ids : connection_ids'[cid] = connection_ids[cid] /\ cid # lid
    BY <1>4, <1>6 DEF With
<1>10. i.id \in DOMAIN initial
    BY <1>1 DEF AttemptInv
<1>11. DOMAIN initial' = DOMAIN initial /\ initial'[i.id] = [to |-> "connection", at |-> ch]
       /\ \A id \in DOMAIN initial : id # i.id => initial'[id] = initial[id]
    BY <1>4, <1>10 DEF With
<1>12. /\ \A j \in incomings' : j \in incomings /\ j.id # i.id
       /\ \A x \in DOMAIN conns : conns[x].init # i.id
    BY <1>4, RouteOwners
<1>13. \A j \in incomings' : j.id \in DOMAIN initial' /\ initial'[j.id] = initial[j.id]
    BY <1>1, <1>11, <1>12 DEF AttemptInv
<1>14. AttemptInv' /\ ValidatedWasSent'
    BY <1>4, <1>5, <1>13, AttemptsStay
<1>15. BufferInv'
    BY <1>4, BufferGone
<1>16. ConnInv'
    <2>1. SlabOf(DOMAIN conns', spareConns')
        BY <1>4, <1>7, <1>8
    <2>2. ASSUME NEW cid \in DOMAIN connection_ids'
          PROVE  \E k \in 1 .. issued' : cid = <<"local", k>>
        <3>1. CASE cid = lid
            <4>1. issued' \in 1 .. issued'
                BY <1>4, <1>6
            <4> QED
                BY <1>6, <3>1, <4>1
        <3>2. CASE cid \in DOMAIN connection_ids
            <4>1. PICK k \in 1 .. issued : cid = <<"local", k>>
                BY <1>1, <3>2 DEF ConnInv
            <4>2. k \in 1 .. issued'
                BY <1>4, <1>6
            <4> QED
                BY <4>1, <4>2
        <3> QED
            BY <1>9, <3>1, <3>2
    <2>3. ASSUME NEW x \in DOMAIN conns'
          PROVE  /\ UsedBy(conns[x].client, conns[x].init)'
                 /\ conns'[x].init \in DOMAIN initial'
                 /\ initial'[conns'[x].init].to = "connection" /\ initial'[conns'[x].init].at = x
                 /\ conns'[x].cid \in DOMAIN connection_ids' /\ connection_ids'[conns'[x].cid] = x
        <3>1. CASE x = ch
            <4>1. conns'[x].init = i.id /\ conns'[x].cid = lid /\ conns'[x].client = i.client
                BY <1>8, <3>1
            <4>2. UsedBy(i.client, i.id)
                BY <1>1 DEF AttemptInv
            <4>3. UsedBy(conns[x].client, conns[x].init)'
                BY <1>4, <4>1, <4>2 DEF UsedBy
            <4>4. initial'[i.id].to = "connection" /\ initial'[i.id].at = ch
                BY <1>11
            <4> QED
                BY <1>9, <1>10, <1>11, <3>1, <4>1, <4>3, <4>4
        <3>2. CASE x \in DOMAIN conns
            <4>1. conns'[x] = conns[x]
                BY <1>8, <3>2
            <4>2. UsedBy(conns[x].client, conns[x].init)
                BY <1>1, <3>2 DEF ConnInv
            <4>3. UsedBy(conns[x].client, conns[x].init)'
                BY <1>4, <4>1, <4>2 DEF UsedBy
            <4>4. /\ conns[x].init \in DOMAIN initial /\ conns[x].init # i.id
                  /\ initial[conns[x].init].to = "connection" /\ initial[conns[x].init].at = x
                  /\ conns[x].cid \in DOMAIN connection_ids /\ connection_ids[conns[x].cid] = x
                BY <1>1, <1>12, <3>2 DEF ConnInv
            <4>5. initial'[conns[x].init] = initial[conns[x].init]
                  /\ conns[x].cid \in DOMAIN connection_ids' /\ connection_ids'[conns[x].cid] = x
                BY <1>9, <1>11, <4>4
            <4> QED
                BY <1>11, <4>1, <4>3, <4>4, <4>5
        <3> QED
            BY <1>8, <3>1, <3>2
    <2> QED
        BY <1>6, <2>1, <2>2, <2>3 DEF ConnInv
<1>17. RoutesAreLive'
    <2>1. ASSUME NEW id \in DOMAIN initial' \ strayed'
          PROVE  IF initial'[id].to = "incoming"
                   THEN \E j \in incomings' : j.id = id /\ j.at = initial'[id].at
                   ELSE initial'[id].at \in DOMAIN conns' /\ conns'[initial'[id].at].init = id
        <3>1. CASE id = i.id
            <4>1. initial'[id].to = "connection" /\ initial'[id].at = ch
                BY <1>11, <3>1
            <4>2. ch \in DOMAIN conns' /\ conns'[ch].init = id
                BY <1>8, <3>1
            <4> QED
                BY <4>1, <4>2
        <3>2. CASE id # i.id
            <4>1. id \in DOMAIN initial \ strayed /\ initial'[id] = initial[id]
                BY <1>4, <1>11, <3>2
            <4>2. CASE initial[id].to = "incoming"
                BY <1>1, <1>4, <3>2, <4>1, <4>2 DEF RoutesAreLive
            <4>3. CASE initial[id].to # "incoming"
                BY <1>1, <1>8, <4>1, <4>3 DEF RoutesAreLive
            <4> QED
                BY <4>1, <4>2, <4>3
        <3> QED
            BY <3>1, <3>2
    <2>2. ASSUME NEW cid \in DOMAIN connection_ids' \ strayed'
          PROVE  connection_ids'[cid] \in DOMAIN conns' /\ conns'[connection_ids'[cid]].cid = cid
        <3>1. CASE cid = lid
            BY <1>8, <1>9, <3>1
        <3>2. CASE cid \in DOMAIN connection_ids
            BY <1>1, <1>4, <1>8, <1>9, <3>2 DEF RoutesAreLive
        <3> QED
            BY <1>9, <3>1, <3>2
    <2> QED
        BY <2>1, <2>2 DEF RoutesAreLive
<1> QED
    BY <1>5, <1>14, <1>15, <1>16, <1>17 DEF IncomingInv

\* A connection leaves, and its routes with it.
LEMMA DrainedStep ==
    ASSUME IncomingInv, NEW ch \in DOMAIN conns, ConnectionDrained(ch)
    PROVE  IncomingInv'
<1>1. ClientInv /\ AttemptInv /\ BufferInv /\ ConnInv /\ RoutesAreLive /\ ValidatedWasSent
    BY DEF IncomingInv
<1>2. /\ UNCHANGED <<clients, sentTo>> /\ UNCHANGED <<buffers, spareBuffers, total, incomings, issued, strayed>>
      /\ conns' = Less(conns, {ch}) /\ spareConns' = <<ch>> \o spareConns
      /\ initial' = Less(initial, {conns[ch].init})
      /\ connection_ids' = Less(connection_ids, {conns[ch].cid})
    BY DEF ConnectionDrained
<1>3. ClientInv' /\ Grown
    BY <1>1, <1>2, ClientsSame
<1>4. DOMAIN conns' = DOMAIN conns \ {ch} /\ \A x \in DOMAIN conns' : conns'[x] = conns[x]
    BY <1>2 DEF Less
<1>5. DOMAIN initial' = DOMAIN initial \ {conns[ch].init} /\ \A id \in DOMAIN initial' : initial'[id] = initial[id]
    BY <1>2 DEF Less
<1>6. DOMAIN connection_ids' = DOMAIN connection_ids \ {conns[ch].cid}
      /\ \A cid \in DOMAIN connection_ids' : connection_ids'[cid] = connection_ids[cid]
    BY <1>2 DEF Less
<1>7. \A j \in incomings' : j.id \in DOMAIN initial' /\ initial'[j.id] = initial[j.id]
    BY <1>1, <1>2, <1>5, RouteOwners DEF AttemptInv
<1>8. AttemptInv' /\ ValidatedWasSent'
    BY <1>2, <1>3, <1>7, AttemptsStay
<1>9. BufferInv'
    BY <1>1, <1>2 DEF BufferInv, Slots
<1>10. ConnInv'
    <2>1. SlabOf(DOMAIN conns', spareConns')
        <3>1. SlabOf(DOMAIN conns, spareConns)
            BY <1>1 DEF ConnInv
        <3>2. SlabOf(DOMAIN conns \ {ch}, <<ch>> \o spareConns)
            BY <3>1, SlabFreed
        <3> QED
            BY <1>2, <1>4, <3>2
    <2>2. \A cid \in DOMAIN connection_ids' : \E k \in 1 .. issued' : cid = <<"local", k>>
        BY <1>1, <1>2, <1>6 DEF ConnInv
    <2>3. ASSUME NEW x \in DOMAIN conns'
          PROVE  /\ UsedBy(conns[x].client, conns[x].init)'
                 /\ conns'[x].init \in DOMAIN initial'
                 /\ initial'[conns'[x].init].to = "connection" /\ initial'[conns'[x].init].at = x
                 /\ conns'[x].cid \in DOMAIN connection_ids' /\ connection_ids'[conns'[x].cid] = x
        <3>1. conns'[x] = conns[x] /\ x \in DOMAIN conns /\ x # ch
            BY <1>4
        <3>2. /\ UsedBy(conns[x].client, conns[x].init) /\ conns[x].init \in DOMAIN initial
              /\ initial[conns[x].init].to = "connection" /\ initial[conns[x].init].at = x
              /\ conns[x].cid \in DOMAIN connection_ids /\ connection_ids[conns[x].cid] = x
            BY <1>1, <3>1 DEF ConnInv
        <3>3. initial[conns[ch].init].at = ch /\ connection_ids[conns[ch].cid] = ch
            BY <1>1 DEF ConnInv
        <3>4. conns[x].init # conns[ch].init /\ conns[x].cid # conns[ch].cid
            BY <3>1, <3>2, <3>3
        <3>5. UsedBy(conns[x].client, conns[x].init)'
            BY <1>2, <3>1, <3>2 DEF UsedBy
        <3> QED
            BY <1>5, <1>6, <3>1, <3>2, <3>4, <3>5
    <2> QED
        BY <1>1, <1>2, <2>1, <2>2, <2>3 DEF ConnInv
<1>11. RoutesAreLive'
    <2>1. ASSUME NEW id \in DOMAIN initial' \ strayed'
          PROVE  IF initial'[id].to = "incoming"
                   THEN \E j \in incomings' : j.id = id /\ j.at = initial'[id].at
                   ELSE initial'[id].at \in DOMAIN conns' /\ conns'[initial'[id].at].init = id
        <3>1. id \in DOMAIN initial \ strayed /\ initial'[id] = initial[id] /\ id # conns[ch].init
            BY <1>2, <1>5
        <3>2. CASE initial[id].to = "incoming"
            <4>1. PICK j \in incomings : j.id = id /\ j.at = initial[id].at
                BY <1>1, <3>1, <3>2 DEF RoutesAreLive
            <4>2. j \in incomings' /\ initial'[id].to = "incoming" /\ j.at = initial'[id].at
                BY <1>2, <3>1, <3>2, <4>1
            <4> QED
                BY <4>1, <4>2
        <3>3. CASE initial[id].to # "incoming"
            <4>1. initial[id].at \in DOMAIN conns /\ conns[initial[id].at].init = id
                BY <1>1, <3>1, <3>3 DEF RoutesAreLive
            <4>2. initial[id].at # ch
                BY <3>1, <4>1
            <4> QED
                BY <1>4, <3>1, <3>3, <4>1, <4>2
        <3> QED
            BY <3>2, <3>3
    <2>2. ASSUME NEW cid \in DOMAIN connection_ids' \ strayed'
          PROVE  connection_ids'[cid] \in DOMAIN conns' /\ conns'[connection_ids'[cid]].cid = cid
        <3>1. cid \in DOMAIN connection_ids \ strayed /\ connection_ids'[cid] = connection_ids[cid] /\ cid # conns[ch].cid
            BY <1>2, <1>6
        <3>2. connection_ids[cid] \in DOMAIN conns /\ conns[connection_ids[cid]].cid = cid
            BY <1>1, <3>1 DEF RoutesAreLive
        <3>3. connection_ids[cid] # ch
            BY <3>1, <3>2
        <3> QED
            BY <1>4, <3>1, <3>2, <3>3
    <2> QED
        BY <2>1, <2>2 DEF RoutesAreLive
<1> QED
    BY <1>3, <1>8, <1>9, <1>10, <1>11 DEF IncomingInv

\* Initially nothing is held.
LEMMA IncomingInitially ==
    ASSUME IncomingInit
    PROVE  IncomingInv
<1>1. (CHOOSE a \in Addresses : TRUE) \in Addresses
    BY IncomingConstants
<1>2. PICK a \in Addresses : clients = [c \in Clients |-> [addr |-> a, ids |-> <<>>]]
    BY <1>1 DEF IncomingInit
<1>3. <<>> \in Seq(Uses) /\ <<>> \in Seq(Nat) /\ Len(<<>>) = 0 /\ DOMAIN <<>> = {} /\ 1 .. 0 = {}
    OBVIOUS
<1>4. ClientInv
    BY <1>2, <1>3 DEF ClientInv
<1>5. incomings = {} /\ buffers = <<>> /\ spareBuffers = <<>> /\ total = 0 /\ conns = <<>> /\ spareConns = <<>>
      /\ issued = 0 /\ connection_ids = <<>> /\ initial = <<>>
    BY DEF IncomingInit
<1>6. AttemptInv /\ ValidatedWasSent
    BY <1>5, FS_EmptySet DEF AttemptInv, ValidatedWasSent
<1>7. SlabOf({}, <<>>)
    <2>1. 0 \in Nat /\ {} \cup {<<>>[x] : x \in 1 .. Len(<<>>)} = 1 .. 0
        BY <1>3
    <2> QED
        BY <1>3, <2>1 DEF SlabOf
<1>8. BufferInv
    <2>1. Slots(buffers) = {}
        BY <1>3, <1>5 DEF Slots
    <2>2. IsFiniteSet(Slots(buffers)) /\ Cardinality(Slots(buffers)) = 0
        BY <2>1, FS_EmptySet
    <2>3. DOMAIN buffers = {} /\ {i.at : i \in incomings} = {}
        BY <1>3, <1>5
    <2> QED
        BY <1>5, <1>7, <2>2, <2>3, IncomingConstants DEF BufferInv
<1>9. ConnInv /\ RoutesAreLive
    BY <1>3, <1>5, <1>7 DEF ConnInv, RoutesAreLive
<1> QED
    BY <1>4, <1>6, <1>8, <1>9 DEF IncomingInv

\* As many buffers are in use as there are attempts.
LEMMA OneBufferEach ==
    ASSUME IncomingInv
    PROVE  AttemptsKept
<1>1. AttemptInv /\ BufferInv /\ RoutesAreLive /\ ValidatedWasSent
    BY DEF IncomingInv
<1> DEFINE at == [i \in incomings |-> i.at]
<1>2. at \in Bijection(incomings, DOMAIN buffers)
    <2>1. at \in [incomings -> DOMAIN buffers]
        BY <1>1 DEF BufferInv
    <2>2. \A i, j \in incomings : at[i] = at[j] => i = j
        BY <1>1 DEF AttemptInv
    <2>3. \A k \in DOMAIN buffers : \E i \in incomings : at[i] = k
        BY <1>1 DEF BufferInv
    <2> QED
        BY <2>1, <2>2, <2>3 DEF Bijection, Injection, Surjection, IsInjective
<1>3. ExistsBijection(incomings, DOMAIN buffers)
    BY <1>2 DEF ExistsBijection
<1>4. Cardinality(DOMAIN buffers) = Cardinality(incomings)
    BY <1>1, <1>3, FS_Bijection DEF AttemptInv
<1>5. BuffersOwned
    BY <1>1, <1>4 DEF BuffersOwned, BufferInv, Slots
<1> QED
    BY <1>1, <1>5 DEF AttemptsKept

\* However datagrams are repeated and delayed and attempts answered, the tables of an endpoint
\* lead to the attempt or connection an id was used for, buffers are accounted for, and an
\* address counts as validated only after a token went there (Endpoint::handle, accept,
\* refuse, retry and ignore).  Slab indices are used again all the while.
THEOREM AttemptsCorrect == IncomingSpec => []AttemptsKept
<1>1. IncomingInit => IncomingInv
    BY IncomingInitially
<1>2. IncomingInv /\ [IncomingNext]_incomingVars => IncomingInv'
    <2> SUFFICES ASSUME IncomingInv, [IncomingNext]_incomingVars
                 PROVE  IncomingInv'
        OBVIOUS
    <2>1. ASSUME NEW c \in Clients,
                 NEW token \in {NoToken} \cup {clients[c].ids[i].next : i \in DOMAIN clients[c].ids},
                 Connects(c, token)
          PROVE  IncomingInv'
        <3>1. token = NoToken \/ \E k \in DOMAIN clients[c].ids : token = clients[c].ids[k].next
            OBVIOUS
        <3> QED
            BY <2>1, <3>1, ConnectsStep
    <2>2. ASSUME NEW c \in Clients, (\E a \in Addresses : Rebinds(c, a)) \/ TokenExpires(c)
          PROVE  IncomingInv'
        BY <2>2, MovesStep
    <2>3. ASSUME NEW c \in Clients, NEW i \in DOMAIN clients[c].ids, DatagramBuffered(clients[c].ids[i])
          PROVE  IncomingInv'
        BY <2>3, BufferedStep
    <2>4. ASSUME NEW c \in Clients, NEW i \in DOMAIN clients[c].ids, FirstPacket(c, clients[c].ids[i])
          PROVE  IncomingInv'
        BY <2>4, FirstPacketStep
    <2>5. ASSUME NEW i \in incomings, Refuse(i) \/ AcceptLate(i)
          PROVE  IncomingInv'
        BY <2>5, RefuseStep
    <2>6. ASSUME NEW i \in incomings, AcceptStrays(i)
          PROVE  IncomingInv'
        BY <2>6, StraysStep
    <2>7. ASSUME NEW i \in incomings, Accept(i)
          PROVE  IncomingInv'
        BY <2>7, AcceptStep
    <2>8. ASSUME NEW i \in incomings, NEW arrives \in BOOLEAN, Retry(i, arrives)
          PROVE  IncomingInv'
        BY <2>8, RetryStep
    <2>9. ASSUME NEW ch \in DOMAIN conns, NewToken(ch)
          PROVE  IncomingInv'
        BY <2>9, NewTokenStep
    <2>10. ASSUME NEW ch \in DOMAIN conns, ConnectionDrained(ch)
           PROVE  IncomingInv'
        BY <2>10, DrainedStep
    <2>11. CASE CloseEndpoint \/ SetServerConfig \/ UNCHANGED incomingVars
        <3>1. UNCHANGED <<clients, sentTo>>
              /\ UNCHANGED <<initial, connection_ids, buffers, spareBuffers, total, incomings, conns, spareConns,
                             issued, strayed>>
            BY <2>11 DEF CloseEndpoint, SetServerConfig, incomingVars
        <3>2. ClientInv' /\ Grown
            BY <3>1, ClientsSame DEF IncomingInv
        <3> QED
            BY <3>1, <3>2, ClientsStep
    <2> QED
        BY <2>1, <2>2, <2>3, <2>4, <2>5, <2>6, <2>7, <2>8, <2>9, <2>10, <2>11 DEF IncomingNext
<1>3. IncomingInv => AttemptsKept
    BY OneBufferEach
<1> QED
    BY <1>1, <1>2, <1>3, PTL DEF IncomingSpec
==============================================================================
