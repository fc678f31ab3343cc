------------------------ MODULE QuicConnectionProofs ------------------------
(***************************************************************************)
(* Proofs about the parts of a QUIC connection that keep more than one     *)
(* generation of something: the paths of a connection that migrates        *)
(* (QuicPaths), for any number of addresses, migrations and packets, the   *)
(* keys of a connection that updates them (KeyUpdate), for any number of   *)
(* updates and packets, and the connection ids one end issues and the      *)
(* other uses (ConnectionIds), for any length of its queue; about the      *)
(* errors that no end finds in the other, for the parts together (MCQuic   *)
(* and StreamProofs); and about the search for the path's MTU and the      *)
(* detection of black holes (MtuDiscovery), for every path and setting.    *)
(***************************************************************************)
EXTENDS MCQuic, StreamProofs

-----------------------------------------------------------------------------
(* Paths: the inductive invariant *)

\* NAT traversal rounds that challenge the path in use and migrations are not mixed.
OneKindOfValidation ==
    \A s \in PathSettings : s \in [migrations : Nat, rounds : Nat] /\ (s.migrations = 0 \/ s.rounds = 0)

Paths ==
    [remote : Addresses, id : Nat, challenge : Nat, pending : BOOLEAN, validated : BOOLEAN,
     first : Nat, bytes : Int]

\* The packets are numbered in the order they are sent; ids and tokens are drawn from
\* one counter.
PathType ==
    /\ path_setting \in [migrations : Nat, rounds : Nat]
    /\ path_setting.migrations = 0 \/ path_setting.rounds = 0
    /\ path \in Paths
    /\ prev_path # NoPath => prev_path \in Paths
    /\ next_packet \in Nat \ {0}
    /\ tokens \in Nat
    /\ DOMAIN on_path \subseteq 1 .. next_packet - 1
    /\ \A pn \in DOMAIN on_path : on_path[pn] \in 0 .. tokens
    /\ path.id \in 0 .. tokens /\ path.challenge \in 0 .. tokens /\ path.first < next_packet
    /\ prev_path # NoPath => prev_path.id \in 0 .. tokens /\ prev_path.first < next_packet
    /\ challenges \in SUBSET [token : 1 .. tokens, to : Addresses]
    /\ proven \subseteq Addresses
    /\ restored \in BOOLEAN /\ path_timer \in BOOLEAN

\* A challenge is answered by the address it was sent to.
TokensInv == \A c \in challenges : c.token = path.challenge => c.to = path.remote

\* What the connection may return to has been proven, and it has something to return to
\* unless its own address has been.
ReturnInv ==
    /\ prev_path # NoPath => prev_path.remote \in proven
    /\ prev_path = NoPath => path.remote \in proven
    /\ prev_path = NoPath /\ path.challenge # 0 => path_setting.migrations = 0

\* Until a validation fails, the packets sent since the first one of a path are its own.
SentOn(p, pn) == on_path[pn] = p.id
OwnPackets ==
    ~restored =>
      /\ \A pn \in DOMAIN on_path : SentOn(path, pn) <=> SentSince(path, pn)
      /\ prev_path # NoPath =>
           /\ prev_path.id # path.id
           /\ \A pn \in DOMAIN on_path :
                ~SentSince(path, pn) => (SentOn(prev_path, pn) <=> SentSince(prev_path, pn))

PathInv ==
    /\ PathType
    /\ TokensInv
    /\ ReturnInv
    /\ OwnPackets
    /\ SettlesOnProven
    /\ ValidationTimed
    /\ InFlightOverMigration

-----------------------------------------------------------------------------
(* Paths: the inductive step *)

\* No path that was ever in use is mistaken for none.
LEMMA PathIsPath == ASSUME NEW p \in Paths PROVE p # NoPath /\ NoPath.id = -1
BY DEF Paths, NoPath, NewPath

\* PathData::new and from_previous make a path.
LEMMA NewPathType ==
    ASSUME NEW remote \in Addresses, NEW token \in Nat
    PROVE  /\ NewPath(remote, token) \in Paths
           /\ NewPath(remote, token).remote = remote /\ NewPath(remote, token).id = token
           /\ NewPath(remote, token).challenge = token
           /\ NewPath(remote, token).first = 0 /\ NewPath(remote, token).bytes = 0
BY DEF NewPath, Paths

\* The packets in flight are finitely many, and so are those of one path.
LEMMA InFlightFinite ==
    ASSUME PathType, NEW S \in SUBSET DOMAIN on_path
    PROVE  IsFiniteSet(S) /\ Cardinality(S) \in Nat
<1>1. IsFiniteSet(1 .. next_packet - 1)
    BY FS_Interval DEF PathType
<1>2. S \in SUBSET (1 .. next_packet - 1)
    BY DEF PathType
<1> QED
    BY <1>1, <1>2, FS_Subset, FS_CardinalityType

\* A connection starts on the path of its handshake, which is validated.
LEMMA InitPathInv == OneKindOfValidation /\ PathInit => PathInv
<1> SUFFICES ASSUME OneKindOfValidation, PathInit PROVE PathInv
    OBVIOUS
<1> DEFINE home == NewPath(Home, 0)
<1>1. home \in Paths /\ home.remote = Home /\ home.id = 0 /\ home.challenge = 0 /\ home.first = 0 /\ home.bytes = 0
    BY NewPathType, HomeAssumption
<1>2. PathType
    <2>1. path_setting \in [migrations : Nat, rounds : Nat] /\ (path_setting.migrations = 0 \/ path_setting.rounds = 0)
        BY DEF PathInit, OneKindOfValidation
    <2>2. path = home /\ prev_path = NoPath /\ next_packet = 1 /\ tokens = 0
        BY DEF PathInit
    <2>3. DOMAIN on_path = {} /\ challenges = {} /\ proven = {Home} /\ restored = FALSE /\ path_timer = FALSE
        BY DEF PathInit
    <2>4. DOMAIN on_path \subseteq 1 .. next_packet - 1 /\ \A pn \in DOMAIN on_path : on_path[pn] \in 0 .. tokens
        BY <2>3
    <2>5. challenges \in SUBSET [token : 1 .. tokens, to : Addresses] /\ proven \subseteq Addresses
        BY <2>3, HomeAssumption
    <2>6. restored \in BOOLEAN /\ path_timer \in BOOLEAN
        BY <2>3
    <2> HIDE DEF home
    <2>7. path \in Paths /\ path.id \in 0 .. tokens /\ path.challenge \in 0 .. tokens /\ path.first < next_packet
        BY <1>1, <2>2
    <2> QED
        BY <2>1, <2>2, <2>4, <2>5, <2>6, <2>7 DEF PathType
<1>3. TokensInv /\ ReturnInv /\ SettlesOnProven /\ ValidationTimed
    BY <1>1 DEF PathInit, TokensInv, ReturnInv, SettlesOnProven, ValidationTimed
<1>4. OwnPackets
    BY DEF PathInit, OwnPackets
<1>5. InFlightOverMigration
    <2>1. {pn \in DOMAIN on_path : on_path[pn] = path.id} = {}
        BY DEF PathInit
    <2>2. InFlightOn(path) = 0
        BY <2>1, FS_EmptySet DEF InFlightOn
    <2> QED
        BY <1>1, <2>2 DEF PathInit, InFlightOverMigration
<1> QED
    BY <1>2, <1>3, <1>4, <1>5 DEF PathInv

\* migrate: the new path has sent nothing, and the one to return to is proven.
LEMMA MigrateStep ==
    ASSUME PathInv, NEW remote \in Addresses, MigrateTo(remote)
    PROVE  PathInv'
<1> DEFINE fresh == NewPath(remote, tokens + 1)
<1>1. PathType /\ TokensInv /\ ReturnInv /\ OwnPackets /\ SettlesOnProven /\ InFlightOverMigration
    BY DEF PathInv
<1>2. /\ tokens' = tokens + 1 /\ path' = fresh /\ prev_path' = KeptPath
      /\ restored' = (restored \/ path.challenge # 0) /\ path_timer' = TRUE
      /\ path_setting' = [path_setting EXCEPT !.migrations = path_setting.migrations - 1]
      /\ path_setting.migrations > 0
      /\ UNCHANGED <<on_path, next_packet, challenges, proven>>
    BY DEF MigrateTo
<1>3. /\ fresh \in Paths /\ fresh.remote = remote /\ fresh.id = tokens + 1 /\ fresh.challenge = tokens + 1
      /\ fresh.first = 0 /\ fresh.bytes = 0
    BY <1>1, NewPathType DEF PathType
<1>4. /\ prev_path' # NoPath
      /\ prev_path' \in Paths /\ prev_path'.id \in 0 .. tokens /\ prev_path'.first < next_packet
      /\ prev_path'.remote \in proven
    <2>1. CASE path.challenge = 0
        BY <1>1, <1>2, <2>1, PathIsPath DEF KeptPath, PathType, SettlesOnProven
    <2>2. CASE path.challenge # 0
        <3>1. prev_path # NoPath
            BY <1>1, <1>2, <2>2 DEF ReturnInv, PathType
        <3> QED
            BY <1>1, <1>2, <2>2, <3>1 DEF KeptPath, PathType, ReturnInv
    <2> QED
        BY <2>1, <2>2
<1>5. PathType'
    <2>1. path_setting' \in [migrations : Nat, rounds : Nat] /\ path_setting'.rounds = 0
        BY <1>1, <1>2 DEF PathType
    <2>2. \A pn \in DOMAIN on_path' : on_path'[pn] \in 0 .. tokens'
        BY <1>1, <1>2 DEF PathType
    <2>3. challenges' \in SUBSET [token : 1 .. tokens', to : Addresses]
        BY <1>1, <1>2 DEF PathType
    <2>4. /\ path' \in Paths /\ path'.id \in 0 .. tokens' /\ path'.challenge \in 0 .. tokens'
          /\ path'.first < next_packet' /\ tokens' \in Nat
        BY <1>1, <1>2, <1>3 DEF PathType
    <2>5. prev_path' \in Paths /\ prev_path'.id \in 0 .. tokens' /\ prev_path'.first < next_packet'
        BY <1>1, <1>2, <1>4 DEF PathType
    <2>6. restored' \in BOOLEAN /\ path_timer' \in BOOLEAN
        BY <1>1, <1>2 DEF PathType
    <2> QED
        BY <1>1, <1>2, <2>1, <2>2, <2>3, <2>4, <2>5, <2>6 DEF PathType
<1>6. TokensInv'
    BY <1>1, <1>2, <1>3 DEF TokensInv, PathType
<1>7. ReturnInv'
    BY <1>2, <1>4 DEF ReturnInv
<1>8. SettlesOnProven' /\ ValidationTimed'
    <2>1. path'.challenge # 0
        BY <1>1, <1>2, <1>3 DEF PathType
    <2> QED
        BY <1>2, <2>1 DEF SettlesOnProven, ValidationTimed
<1>9. ASSUME ~restored'
      PROVE  ~restored /\ prev_path' = path
    BY <1>2, <1>9 DEF KeptPath
<1>10. \A pn \in DOMAIN on_path' : ~SentSince(path, pn)' /\ ~SentOn(path, pn)'
    <2>1. path'.first = 0 /\ path'.id = tokens + 1
        BY <1>2, <1>3
    <2>2. \A pn \in DOMAIN on_path : on_path[pn] # tokens + 1
        BY <1>1 DEF PathType
    <2> QED
        BY <1>2, <2>1, <2>2 DEF SentSince, SentOn
<1>11. OwnPackets'
    <2> SUFFICES ASSUME ~restored' PROVE OwnPackets'
        BY DEF OwnPackets
    <2>1. \A pn \in DOMAIN on_path' : SentOn(prev_path, pn)' <=> SentSince(prev_path, pn)'
        BY <1>1, <1>2, <1>9 DEF OwnPackets, SentOn, SentSince
    <2>2. prev_path'.id # path'.id
        BY <1>1, <1>2, <1>3, <1>4 DEF PathType
    <2> QED
        BY <1>10, <2>1, <2>2 DEF OwnPackets, SentOn, SentSince
<1>12. InFlightOverMigration'
    <2> SUFFICES ASSUME ~restored'
                 PROVE  path'.bytes = InFlightOn(path)' /\ prev_path'.bytes = InFlightOn(prev_path)'
        BY DEF InFlightOverMigration
    <2>1. {pn \in DOMAIN on_path' : on_path'[pn] = path'.id} = {}
        BY <1>10 DEF SentOn
    <2>2. InFlightOn(path)' = 0
        BY <2>1, FS_EmptySet DEF InFlightOn
    <2>3. InFlightOn(prev_path)' = InFlightOn(path)
        BY <1>2, <1>9 DEF InFlightOn
    <2> QED
        BY <1>1, <1>2, <1>3, <1>9, <2>2, <2>3 DEF InFlightOverMigration
<1> QED
    BY <1>5, <1>6, <1>7, <1>8, <1>11, <1>12 DEF PathInv

\* start_nat_traversal_validation: the path in use is challenged once more.
LEMMA ChallengeStep ==
    ASSUME PathInv, ChallengeInUse
    PROVE  PathInv'
<1>1. PathType /\ TokensInv /\ ReturnInv /\ OwnPackets /\ SettlesOnProven /\ InFlightOverMigration
    BY DEF PathInv
<1>2. /\ tokens' = tokens + 1 /\ path' = [path EXCEPT !.challenge = tokens + 1, !.pending = TRUE]
      /\ path_timer' = TRUE
      /\ path_setting' = [path_setting EXCEPT !.rounds = path_setting.rounds - 1]
      /\ path_setting.rounds > 0
      /\ UNCHANGED <<prev_path, on_path, next_packet, challenges, proven, restored>>
    BY DEF ChallengeInUse
<1>3. /\ path' \in Paths /\ path'.challenge = tokens + 1 /\ path'.remote = path.remote /\ path'.id = path.id
      /\ path'.first = path.first /\ path'.bytes = path.bytes
    <2>1. path \in Paths /\ tokens + 1 \in Nat
        BY <1>1 DEF PathType
    <2> QED
        BY <1>2, <2>1 DEF Paths
<1>4. path_setting.migrations = 0 /\ path_setting' \in [migrations : Nat, rounds : Nat] /\ path_setting'.migrations = 0
    BY <1>1, <1>2 DEF PathType
<1>5. PathType'
    BY <1>1, <1>2, <1>3, <1>4 DEF PathType
<1>6. TokensInv'
    BY <1>1, <1>2, <1>3 DEF TokensInv, PathType
<1>7. ReturnInv'
    BY <1>1, <1>2, <1>3, <1>4 DEF ReturnInv
<1>8. SettlesOnProven' /\ ValidationTimed'
    <2>1. path'.challenge # 0
        BY <1>1, <1>2, <1>3 DEF PathType
    <2> QED
        BY <1>2, <2>1 DEF SettlesOnProven, ValidationTimed
<1>9. OwnPackets'
    BY <1>1, <1>2, <1>3 DEF OwnPackets, SentOn, SentSince
<1>10. InFlightOverMigration'
    BY <1>1, <1>2, <1>3 DEF InFlightOverMigration, InFlightOn
<1> QED
    BY <1>5, <1>6, <1>7, <1>8, <1>9, <1>10 DEF PathInv

\* The packets in flight on the path id.
Carried(id) == {pn \in DOMAIN on_path : on_path[pn] = id}

\* finish_and_track: a packet is one more of the path it is sent on, and of no other.
LEMMA CarriedWhenSent ==
    ASSUME PathType, NEW id,
           on_path' = [pn \in DOMAIN on_path \cup {next_packet} |->
                         IF pn = next_packet THEN path.id ELSE on_path[pn]]
    PROVE  Cardinality(Carried(id)') = Cardinality(Carried(id)) + (IF id = path.id THEN 1 ELSE 0)
<1>1. next_packet \notin DOMAIN on_path
    BY DEF PathType
<1>2. IsFiniteSet(Carried(id)) /\ Cardinality(Carried(id)) \in Nat
    BY InFlightFinite DEF Carried
<1>3. CASE id = path.id
    <2>1. Carried(id)' = Carried(id) \cup {next_packet} /\ next_packet \notin Carried(id)
        BY <1>1, <1>3 DEF Carried
    <2> QED
        BY <1>2, <1>3, <2>1, FS_AddElement
<1>4. CASE id # path.id
    <2>1. Carried(id)' = Carried(id)
        BY <1>1, <1>4 DEF Carried
    <2> QED
        BY <1>2, <1>4, <2>1
<1> QED
    BY <1>3, <1>4

\* sent_packets.remove: a packet leaves the path it was sent on, and no other.
LEMMA CarriedWhenResolved ==
    ASSUME PathType, NEW id, NEW pn \in DOMAIN on_path,
           on_path' = [k \in DOMAIN on_path \ {pn} |-> on_path[k]]
    PROVE  Cardinality(Carried(id)') = Cardinality(Carried(id)) - (IF id = on_path[pn] THEN 1 ELSE 0)
<1>1. IsFiniteSet(Carried(id)) /\ Cardinality(Carried(id)) \in Nat
    BY InFlightFinite DEF Carried
<1>2. CASE id = on_path[pn]
    <2>1. Carried(id)' = Carried(id) \ {pn} /\ pn \in Carried(id)
        BY <1>2 DEF Carried
    <2> QED
        BY <1>1, <1>2, <2>1, FS_RemoveElement
<1>3. CASE id # on_path[pn]
    <2>1. Carried(id)' = Carried(id)
        BY <1>3 DEF Carried
    <2> QED
        BY <1>1, <1>3, <2>1
<1> QED
    BY <1>2, <1>3

\* poll_transmit: a packet is sent on the path in use, with its challenge.
LEMMA SendStep ==
    ASSUME PathInv, SendOnPath
    PROVE  PathInv'
<1>1. PathType /\ TokensInv /\ ReturnInv /\ OwnPackets /\ SettlesOnProven /\ ValidationTimed /\ InFlightOverMigration
    BY DEF PathInv
<1>2. /\ next_packet' = next_packet + 1
      /\ on_path' = [pn \in DOMAIN on_path \cup {next_packet} |->
                        IF pn = next_packet THEN path.id ELSE on_path[pn]]
      /\ path' = [path EXCEPT !.bytes = path.bytes + 1, !.pending = FALSE,
                              !.first = IF path.first = 0 THEN next_packet ELSE path.first]
      /\ challenges' = IF path.challenge = 0 THEN challenges
                       ELSE challenges \cup {[token |-> path.challenge, to |-> path.remote]}
      /\ UNCHANGED <<prev_path, path_timer, tokens, proven, restored, path_setting>>
    BY DEF SendOnPath
<1>3. path \in Paths /\ next_packet \in Nat \ {0} /\ path.first < next_packet /\ tokens \in Nat
    BY <1>1 DEF PathType
<1>4. /\ path' \in Paths /\ path'.challenge = path.challenge /\ path'.remote = path.remote /\ path'.id = path.id
      /\ path'.first = (IF path.first = 0 THEN next_packet ELSE path.first) /\ path'.bytes = path.bytes + 1
    <2> DEFINE first == IF path.first = 0 THEN next_packet ELSE path.first
    <2>1. first \in Nat /\ path.bytes + 1 \in Int
        BY <1>3 DEF Paths
    <2>2. path' = [path EXCEPT !.bytes = path.bytes + 1, !.pending = FALSE, !.first = first]
        BY <1>2
    <2> HIDE DEF first
    <2>3. path' \in Paths
        BY <1>3, <2>1, <2>2 DEF Paths
    <2>4. /\ path'.challenge = path.challenge /\ path'.remote = path.remote /\ path'.id = path.id
          /\ path'.first = first /\ path'.bytes = path.bytes + 1
        BY <1>3, <2>2 DEF Paths
    <2> QED
        BY <2>3, <2>4 DEF first
<1>5. challenges' \in SUBSET [token : 1 .. tokens', to : Addresses]
    <2>1. path.challenge \in 0 .. tokens /\ challenges \in SUBSET [token : 1 .. tokens, to : Addresses] /\ tokens' = tokens
        BY <1>1, <1>2 DEF PathType
    <2>2. path.remote \in Addresses
        BY <1>3 DEF Paths
    <2> QED
        BY <1>2, <1>3, <2>1, <2>2
<1>6. PathType'
    <2>1. DOMAIN on_path' \subseteq 1 .. next_packet' - 1
        BY <1>1, <1>2, <1>3 DEF PathType
    <2>2. \A pn \in DOMAIN on_path' : on_path'[pn] \in 0 .. tokens'
        BY <1>1, <1>2, <1>3 DEF PathType
    <2>3. next_packet' \in Nat \ {0} /\ path'.first < next_packet'
        <3>1. path.first \in Nat
            BY <1>3 DEF Paths
        <3> QED
            BY <1>2, <1>3, <1>4, <3>1
    <2>4. prev_path' # NoPath => prev_path' \in Paths
        BY <1>1, <1>2 DEF PathType
    <2>5. prev_path' # NoPath => prev_path'.id \in 0 .. tokens' /\ prev_path'.first < next_packet'
        <3>1. prev_path # NoPath => prev_path.first \in Nat
            BY <1>1 DEF PathType, Paths
        <3> QED
            BY <1>1, <1>2, <1>3, <3>1 DEF PathType
    <2>6. path'.id \in 0 .. tokens' /\ path'.challenge \in 0 .. tokens'
        BY <1>1, <1>2, <1>4 DEF PathType
    <2>7. /\ path_setting' \in [migrations : Nat, rounds : Nat] /\ tokens' \in Nat /\ proven' \subseteq Addresses
          /\ path_setting'.migrations = 0 \/ path_setting'.rounds = 0
          /\ restored' \in BOOLEAN /\ path_timer' \in BOOLEAN
        BY <1>1, <1>2 DEF PathType
    <2> QED
        BY <1>4, <1>5, <2>1, <2>2, <2>3, <2>4, <2>5, <2>6, <2>7 DEF PathType
<1>7. TokensInv'
    BY <1>1, <1>2, <1>4 DEF TokensInv
<1>8. ReturnInv' /\ SettlesOnProven'
    BY <1>1, <1>2, <1>4 DEF ReturnInv, SettlesOnProven
<1>9. ValidationTimed'
    BY <1>1, <1>2, <1>4 DEF ValidationTimed
<1>10. \A pn \in DOMAIN on_path : pn \in Nat /\ pn # next_packet /\ pn < next_packet
    BY <1>1, <1>3 DEF PathType
<1>11. /\ SentSince(path', next_packet)
       /\ \A pn \in DOMAIN on_path : SentSince(path', pn) <=> SentSince(path, pn)
    <2>1. path.first \in Nat
        BY <1>3 DEF Paths
    <2> QED
        BY <1>2, <1>3, <1>4, <1>10, <2>1 DEF SentSince
<1>12. \A pn \in DOMAIN on_path : on_path'[pn] = on_path[pn]
    BY <1>2, <1>10
<1>13. OwnPackets'
    <2> SUFFICES ASSUME ~restored
                 PROVE  /\ \A pn \in DOMAIN on_path' : SentOn(path, pn)' <=> SentSince(path, pn)'
                        /\ prev_path # NoPath =>
                             /\ prev_path.id # path'.id
                             /\ \A pn \in DOMAIN on_path' :
                                  ~SentSince(path, pn)' => (SentOn(prev_path, pn)' <=> SentSince(prev_path, pn)')
        BY <1>2 DEF OwnPackets
    <2>1. ASSUME NEW pn \in DOMAIN on_path'
          PROVE  pn = next_packet \/ pn \in DOMAIN on_path
        BY <1>2
    <2>2. ASSUME NEW pn \in DOMAIN on_path'
          PROVE  SentOn(path, pn)' <=> SentSince(path, pn)'
        <3>1. CASE pn = next_packet
            <4>1. on_path'[next_packet] = path.id
                BY <1>2
            <4> QED
                BY <1>4, <1>11, <3>1, <4>1 DEF SentOn, SentSince
        <3>2. CASE pn \in DOMAIN on_path
            BY <1>1, <1>4, <1>11, <1>12, <3>2 DEF OwnPackets, SentOn, SentSince
        <3> QED
            BY <2>1, <3>1, <3>2
    <2>3. ASSUME prev_path # NoPath, NEW pn \in DOMAIN on_path', ~SentSince(path, pn)'
          PROVE  SentOn(prev_path, pn)' <=> SentSince(prev_path, pn)'
        <3>1. pn \in DOMAIN on_path
            BY <1>11, <2>1, <2>3 DEF SentSince
        <3> QED
            BY <1>1, <1>2, <1>11, <1>12, <2>3, <3>1 DEF OwnPackets, SentOn, SentSince
    <2>4. prev_path # NoPath => prev_path.id # path'.id
        BY <1>1, <1>4 DEF OwnPackets
    <2> QED
        BY <2>2, <2>3, <2>4
<1>14. InFlightOverMigration'
    <2> SUFFICES ASSUME ~restored
                 PROVE  /\ path'.bytes = InFlightOn(path)'
                        /\ prev_path # NoPath => prev_path.bytes = InFlightOn(prev_path)'
        BY <1>2 DEF InFlightOverMigration
    <2>1. InFlightOn(path)' = Cardinality(Carried(path.id)') /\ InFlightOn(path) = Cardinality(Carried(path.id))
        BY <1>4 DEF InFlightOn, Carried
    <2>2. InFlightOn(path)' = InFlightOn(path) + 1
        BY <1>1, <1>2, <2>1, CarriedWhenSent
    <2>3. path'.bytes = InFlightOn(path)'
        BY <1>1, <1>4, <2>2 DEF InFlightOverMigration
    <2>4. ASSUME prev_path # NoPath PROVE prev_path.bytes = InFlightOn(prev_path)'
        <3>1. /\ InFlightOn(prev_path)' = Cardinality(Carried(prev_path.id)')
              /\ InFlightOn(prev_path) = Cardinality(Carried(prev_path.id))
            BY <1>2 DEF InFlightOn, Carried
        <3>2. prev_path.id # path.id /\ prev_path.bytes = InFlightOn(prev_path)
            BY <1>1, <2>4 DEF OwnPackets, InFlightOverMigration
        <3>3. Cardinality(Carried(prev_path.id)) \in Nat
            BY <1>1, InFlightFinite DEF Carried
        <3> QED
            BY <1>1, <1>2, <3>1, <3>2, <3>3, CarriedWhenSent
    <2> QED
        BY <2>3, <2>4
<1> QED
    BY <1>6, <1>7, <1>8, <1>9, <1>13, <1>14 DEF PathInv

\* handle_path_response: the answer counts when it comes from the address challenged.
LEMMA ResponseStep ==
    ASSUME PathInv, NEW c \in challenges, NEW from \in Addresses, PathResponse(c, from)
    PROVE  PathInv'
<1>1. PathType /\ TokensInv /\ ReturnInv /\ OwnPackets /\ SettlesOnProven /\ ValidationTimed /\ InFlightOverMigration
    BY DEF PathInv
<1>2. /\ challenges' = challenges \ {c}
      /\ proven' = IF from = c.to THEN proven \cup {from} ELSE proven
      /\ UNCHANGED <<prev_path, on_path, next_packet, tokens, restored, path_setting>>
    BY DEF PathResponse
<1>3. path \in Paths /\ c.token # 0 /\ proven \subseteq proven'
    BY <1>1, <1>2 DEF PathType
<1>4. /\ path' \in Paths /\ path'.remote = path.remote /\ path'.id = path.id
      /\ path'.first = path.first /\ path'.bytes = path.bytes
      /\ path'.challenge = path.challenge \/ path'.challenge = 0
    <2>1. path' = path \/ path' = [path EXCEPT !.challenge = 0, !.validated = TRUE]
        BY DEF PathResponse
    <2>2. CASE path' = path
        BY <1>3, <2>2
    <2>3. CASE path' = [path EXCEPT !.challenge = 0, !.validated = TRUE]
        BY <1>3, <2>3 DEF Paths
    <2> QED
        BY <2>1, <2>2, <2>3
<1>5. PathType'
    <2>1. path'.id \in 0 .. tokens' /\ path'.challenge \in 0 .. tokens' /\ path'.first < next_packet'
        BY <1>1, <1>2, <1>4 DEF PathType
    <2>2. challenges' \in SUBSET [token : 1 .. tokens', to : Addresses]
        BY <1>1, <1>2 DEF PathType
    <2>3. proven' \subseteq Addresses
        BY <1>1, <1>2 DEF PathType
    <2>4. path_timer' \in BOOLEAN
        BY <1>1 DEF PathType, PathResponse, TimerAfterResponse
    <2> QED
        BY <1>1, <1>2, <1>4, <2>1, <2>2, <2>3, <2>4 DEF PathType
<1>6. TokensInv'
    <2>1. \A d \in challenges : d.token # 0
        BY <1>1 DEF PathType
    <2> QED
        BY <1>1, <1>2, <1>4, <2>1 DEF TokensInv
<1>7. ReturnInv'
    BY <1>1, <1>2, <1>3, <1>4 DEF ReturnInv
<1>8. SettlesOnProven' /\ ValidationTimed'
    <2>1. CASE path.challenge = c.token /\ from = path.remote
        <3>1. path'.challenge = 0 /\ path_timer' = FALSE
            BY <1>3, <2>1 DEF PathResponse, TimerAfterResponse, Paths
        <3>2. path'.remote \in proven'
            BY <1>1, <1>2, <1>4, <2>1 DEF TokensInv
        <3> QED
            BY <3>1, <3>2 DEF SettlesOnProven, ValidationTimed
    <2>2. CASE ~(path.challenge = c.token /\ from = path.remote)
        <3>1. path' = path /\ path_timer' = path_timer
            BY <2>2 DEF PathResponse
        <3>2. SettlesOnProven'
            BY <1>1, <1>3, <3>1 DEF SettlesOnProven
        <3> QED
            BY <1>1, <3>1, <3>2 DEF ValidationTimed
    <2> QED
        BY <2>1, <2>2
<1>9. OwnPackets'
    BY <1>1, <1>2, <1>4 DEF OwnPackets, SentOn, SentSince
<1>10. InFlightOverMigration'
    BY <1>1, <1>2, <1>4 DEF InFlightOverMigration, InFlightOn
<1> QED
    BY <1>5, <1>6, <1>7, <1>8, <1>9, <1>10 DEF PathInv

\* Timer::PathValidation: the connection returns to a path that is proven.
LEMMA TimeoutStep ==
    ASSUME PathInv, ValidationTimeout
    PROVE  PathInv'
<1>1. PathType /\ TokensInv /\ ReturnInv
    BY DEF PathInv
<1> DEFINE back == IF prev_path = NoPath THEN path ELSE prev_path
<1>2. /\ path_timer' = FALSE /\ prev_path' = NoPath /\ restored' = TRUE
      /\ path' = [back EXCEPT !.challenge = 0, !.pending = FALSE]
      /\ UNCHANGED <<on_path, next_packet, challenges, tokens, proven, path_setting>>
    BY DEF ValidationTimeout
<1>3. back \in Paths /\ back.remote \in proven /\ back.id \in 0 .. tokens /\ back.first < next_packet
    BY <1>1 DEF PathType, ReturnInv
<1>4. /\ path' \in Paths /\ path'.challenge = 0 /\ path'.remote = back.remote
      /\ path'.id = back.id /\ path'.first = back.first
    <2> HIDE DEF back
    <2> QED
        BY <1>2, <1>3 DEF Paths
<1>5. PathType'
    <2> HIDE DEF back
    <2>1. path'.id \in 0 .. tokens' /\ path'.challenge \in 0 .. tokens' /\ path'.first < next_packet'
        BY <1>1, <1>2, <1>3, <1>4 DEF PathType
    <2> QED
        BY <1>1, <1>2, <1>4, <2>1 DEF PathType
<1>6. TokensInv'
    BY <1>1, <1>2, <1>4 DEF TokensInv, PathType
<1>7. ReturnInv' /\ SettlesOnProven'
    <2> HIDE DEF back
    <2> QED
        BY <1>2, <1>3, <1>4 DEF ReturnInv, SettlesOnProven
<1>8. ValidationTimed'
    BY <1>2, <1>4 DEF ValidationTimed
<1>9. OwnPackets' /\ InFlightOverMigration'
    BY <1>2 DEF OwnPackets, InFlightOverMigration
<1> QED
    BY <1>5, <1>6, <1>7, <1>8, <1>9 DEF PathInv

\* Connection::remove_in_flight: a packet is taken off the path it was sent on.
LEMMA ResolveStep ==
    ASSUME PathInv, NEW pn, ResolvePacket(pn)
    PROVE  PathInv'
<1>1. PathType /\ TokensInv /\ ReturnInv /\ OwnPackets /\ SettlesOnProven /\ ValidationTimed /\ InFlightOverMigration
    BY DEF PathInv
<1> DEFINE ofPath == SentSince(path, pn)
           ofPrev == ~SentSince(path, pn) /\ prev_path # NoPath /\ SentSince(prev_path, pn)
<1>2. /\ pn \in DOMAIN on_path
      /\ on_path' = [k \in DOMAIN on_path \ {pn} |-> on_path[k]]
      /\ UNCHANGED <<next_packet, path_timer, challenges, tokens, proven, restored, path_setting>>
    BY DEF ResolvePacket
<1>3. /\ path' = IF ofPath THEN [path EXCEPT !.bytes = path.bytes - 1] ELSE path
      /\ prev_path' = IF ofPrev THEN [prev_path EXCEPT !.bytes = prev_path.bytes - 1] ELSE prev_path
    BY DEF ResolvePacket
<1>4. path \in Paths /\ (prev_path # NoPath => prev_path \in Paths)
    BY <1>1 DEF PathType
<1>5. /\ path' \in Paths /\ path'.challenge = path.challenge /\ path'.remote = path.remote
      /\ path'.id = path.id /\ path'.first = path.first
      /\ path'.bytes = path.bytes - (IF ofPath THEN 1 ELSE 0)
    <2> HIDE DEF ofPath, ofPrev
    <2>1. CASE ofPath
        <3>1. path.bytes - 1 \in Int
            BY <1>4 DEF Paths
        <3> QED
            BY <1>3, <1>4, <2>1, <3>1 DEF Paths
    <2>2. CASE ~ofPath
        BY <1>3, <1>4, <2>2 DEF Paths
    <2> QED
        BY <2>1, <2>2
<1>6. prev_path = NoPath => prev_path' = NoPath
    BY <1>3
<1>7. prev_path # NoPath =>
        /\ prev_path' # NoPath /\ prev_path' \in Paths
        /\ prev_path'.remote = prev_path.remote /\ prev_path'.id = prev_path.id /\ prev_path'.first = prev_path.first
        /\ prev_path'.bytes = prev_path.bytes - (IF ofPrev THEN 1 ELSE 0)
    <2> SUFFICES ASSUME prev_path # NoPath
                 PROVE  /\ prev_path' \in Paths /\ prev_path'.remote = prev_path.remote
                        /\ prev_path'.id = prev_path.id /\ prev_path'.first = prev_path.first
                        /\ prev_path'.bytes = prev_path.bytes - (IF ofPrev THEN 1 ELSE 0)
        BY PathIsPath
    <2> HIDE DEF ofPath, ofPrev
    <2>1. CASE ofPrev
        <3>1. prev_path.bytes - 1 \in Int
            BY <1>4 DEF Paths
        <3> QED
            BY <1>3, <1>4, <2>1, <3>1 DEF Paths
    <2>2. CASE ~ofPrev
        BY <1>3, <1>4, <2>2 DEF Paths
    <2> QED
        BY <2>1, <2>2
<1>8. DOMAIN on_path' = DOMAIN on_path \ {pn} /\ \A k \in DOMAIN on_path' : on_path'[k] = on_path[k]
    BY <1>2
<1> HIDE DEF ofPath, ofPrev
<1>9. PathType'
    <2>1. path'.id \in 0 .. tokens' /\ path'.challenge \in 0 .. tokens' /\ path'.first < next_packet'
        BY <1>1, <1>2, <1>5 DEF PathType
    <2>2. prev_path' # NoPath =>
            prev_path' \in Paths /\ prev_path'.id \in 0 .. tokens' /\ prev_path'.first < next_packet'
        BY <1>1, <1>2, <1>6, <1>7 DEF PathType
    <2>3. DOMAIN on_path' \subseteq 1 .. next_packet' - 1 /\ \A k \in DOMAIN on_path' : on_path'[k] \in 0 .. tokens'
        BY <1>1, <1>2, <1>8 DEF PathType
    <2> QED
        BY <1>1, <1>2, <1>5, <2>1, <2>2, <2>3 DEF PathType
<1>10. TokensInv' /\ ReturnInv' /\ SettlesOnProven'
    BY <1>1, <1>2, <1>5, <1>6, <1>7 DEF TokensInv, ReturnInv, SettlesOnProven
<1>11. ValidationTimed'
    BY <1>1, <1>2, <1>5 DEF ValidationTimed
<1>12. OwnPackets'
    BY <1>1, <1>2, <1>5, <1>6, <1>7, <1>8 DEF OwnPackets, SentOn, SentSince
<1>13. InFlightOverMigration'
    <2> SUFFICES ASSUME ~restored
                 PROVE  /\ path'.bytes = InFlightOn(path)'
                        /\ prev_path # NoPath => prev_path'.bytes = InFlightOn(prev_path)'
        BY <1>2, <1>6 DEF InFlightOverMigration
    <2>1. InFlightOn(path)' = Cardinality(Carried(path.id)') /\ InFlightOn(path) = Cardinality(Carried(path.id))
        BY <1>5 DEF InFlightOn, Carried
    <2>2. ofPath <=> path.id = on_path[pn]
        BY <1>1, <1>2 DEF OwnPackets, SentOn, ofPath
    <2>3. path'.bytes = InFlightOn(path)'
        BY <1>1, <1>2, <1>5, <2>1, <2>2, CarriedWhenResolved DEF InFlightOverMigration
    <2>4. ASSUME prev_path # NoPath PROVE prev_path'.bytes = InFlightOn(prev_path)'
        <3>1. /\ InFlightOn(prev_path)' = Cardinality(Carried(prev_path.id)')
              /\ InFlightOn(prev_path) = Cardinality(Carried(prev_path.id))
            BY <1>7, <2>4 DEF InFlightOn, Carried
        <3>2. ofPrev <=> prev_path.id = on_path[pn]
            BY <1>1, <1>2, <2>4 DEF OwnPackets, SentOn, ofPrev
        <3> QED
            BY <1>1, <1>2, <1>7, <2>4, <3>1, <3>2, CarriedWhenResolved DEF InFlightOverMigration
    <2> QED
        BY <2>3, <2>4
<1> QED
    BY <1>9, <1>10, <1>11, <1>12, <1>13 DEF PathInv

\* A connection that migrates, or that validates its path for a NAT traversal round,
\* settles only on an address that has answered, ends every validation it begins, and
\* counts on each path exactly the packets in flight there while validations succeed:
\* for any addresses, and any number of migrations, rounds and packets.
THEOREM MigrationCorrect == ASSUME OneKindOfValidation PROVE PathSpec => []MigrationSafe
<1>1. PathInit => PathInv
    BY InitPathInv
<1>2. PathInv /\ [PathNext]_pathVars => PathInv'
    <2> SUFFICES ASSUME PathInv, [PathNext]_pathVars PROVE PathInv'
        OBVIOUS
    <2>1. CASE \E remote \in Addresses : MigrateTo(remote)
        BY <2>1, MigrateStep
    <2>2. CASE ChallengeInUse
        BY <2>2, ChallengeStep
    <2>3. CASE SendOnPath
        BY <2>3, SendStep
    <2>4. CASE \E c \in challenges, from \in Addresses : PathResponse(c, from)
        BY <2>4, ResponseStep
    <2>5. CASE ValidationTimeout
        BY <2>5, TimeoutStep
    <2>6. CASE \E pn \in 1 .. MaxSentOnPath : ResolvePacket(pn)
        BY <2>6, ResolveStep
    <2>7. CASE UNCHANGED pathVars
        BY <2>7 DEF pathVars, PathInv, PathType, TokensInv, ReturnInv, OwnPackets, SettlesOnProven,
                    ValidationTimed, InFlightOverMigration, InFlightOn, SentOn, SentSince
    <2> QED
        BY <2>1, <2>2, <2>3, <2>4, <2>5, <2>6, <2>7 DEF PathNext
<1>3. PathInv => MigrationSafe
    BY DEF PathInv, MigrationSafe
<1> QED
    BY <1>1, <1>2, <1>3, PTL DEF PathSpec

-----------------------------------------------------------------------------
(* Keys: the inductive invariant *)

\* One end, i, updates the keys by itself, and it is not the one that holds 0-RTT keys;
\* the other, r, follows.
Leads(setting, i, r) ==
    /\ setting \in [initiates : [Ends -> SUBSET Nat], zero_rtt : Ends \cup {"none"}]
    /\ Ends = {i, r} /\ i # r /\ i # "none"
    /\ setting.initiates[r] = {} /\ setting.zero_rtt # i

OneInitiator == \A s \in KeySettings : \E i, r \in Ends : Leads(s, i, r)

PrevKeys == [generation : Nat, end : Nat, unacked : BOOLEAN]
KeysOfEnd == [generation : Nat, prev : PrevKeys \cup {NoPrev}, rx : Nat, pn : Nat \ {0}, timer : BOOLEAN]

\* The previous keys an end holds are those of the generation before.
KeyType ==
    /\ key_ends \in [Ends -> KeysOfEnd]
    /\ key_net \in SUBSET [from : Ends, pn : Nat \ {0}, generation : Nat]
    /\ \A e \in Ends :
         key_ends[e].prev # NoPrev =>
           key_ends[e].prev \in PrevKeys /\ key_ends[e].prev.generation = key_ends[e].generation - 1

\* Packets are numbered in the order they are sealed, in which generations only grow.
SealedInOrder ==
    /\ \A p \in key_net : p.pn < key_ends[p.from].pn /\ p.generation <= key_ends[p.from].generation
    /\ \A p, q \in key_net : p.from = q.from /\ p.pn <= q.pn => p.generation <= q.generation

\* The end that leads is ahead of the other by one generation at most, and by none once
\* it was answered.
Ahead(i, r) ==
    LET ki == key_ends[i]  kr == key_ends[r] IN
    /\ kr.generation <= ki.generation /\ ki.generation <= kr.generation + 1
    /\ ki.prev = NoPrev \/ ki.prev.end # 0 => kr.generation = ki.generation
    /\ ki.timer => ki.prev # NoPrev /\ ki.prev.end # 0
    /\ kr.prev # NoPrev => kr.prev.end # 0

\* An update that r has not acknowledged is one that i still waits for.
Unanswered(i, r) ==
    key_ends[r].prev.unacked =>
      /\ key_ends[i].generation = key_ends[r].generation
      /\ key_ends[i].prev # NoPrev /\ key_ends[i].prev.end = 0
      /\ \A p \in key_net : p.from = r => p.generation < key_ends[r].generation

\* What e has received of f parts the packets under way by their generation: by the
\* packet that ended the previous keys, and by the largest one received.
Parted(e, f) ==
    LET k == key_ends[e] IN
    /\ k.rx < key_ends[f].pn
    /\ k.prev # NoPrev => k.prev.end < key_ends[f].pn
    /\ \A p \in key_net : p.from = f =>
         /\ p.generation > k.generation => p.pn > k.rx
         /\ k.prev # NoPrev /\ k.prev.end # 0 =>
              /\ p.generation > k.generation => p.pn > k.prev.end
              /\ p.generation < k.generation => p.pn < k.prev.end

KeysOf(i, r) ==
    /\ Leads(key_setting, i, r)
    /\ KeyType
    /\ SealedInOrder
    /\ Ahead(i, r)
    /\ Unanswered(i, r)
    /\ Parted(i, r) /\ Parted(r, i)
    /\ ~key_error

KeyInv == \E i, r \in Ends : KeysOf(i, r)

-----------------------------------------------------------------------------
(* Keys: the inductive step *)

\* The key phase tells two generations in a row apart.
LEMMA PhaseAlternates == \A g \in Nat : KeyPhase(g) # KeyPhase(g + 1)
BY DEF KeyPhase

\* What the fields of an end and of a packet hold.
LEMMA KeyFields ==
    ASSUME KeyType
    PROVE  /\ \A e \in Ends : /\ key_ends[e] \in KeysOfEnd
                             /\ key_ends[e].generation \in Nat /\ key_ends[e].rx \in Nat /\ key_ends[e].pn \in Nat \ {0}
                             /\ key_ends[e].timer \in BOOLEAN /\ key_ends[e].prev.unacked \in BOOLEAN
                             /\ key_ends[e].prev.end \in Nat
                             /\ key_ends[e].prev \in PrevKeys \cup {NoPrev}
           /\ \A p \in key_net : p.from \in Ends /\ p.pn \in Nat \ {0} /\ p.generation \in Nat
<1>1. ASSUME NEW e \in Ends
      PROVE  /\ key_ends[e] \in KeysOfEnd
             /\ key_ends[e].generation \in Nat /\ key_ends[e].rx \in Nat /\ key_ends[e].pn \in Nat \ {0}
             /\ key_ends[e].timer \in BOOLEAN /\ key_ends[e].prev \in PrevKeys \cup {NoPrev}
    <2>1. key_ends[e] \in KeysOfEnd
        BY DEF KeyType
    <2> QED
        BY <2>1 DEF KeysOfEnd
<1>2. \A prev \in PrevKeys \cup {NoPrev} : prev.unacked \in BOOLEAN /\ prev.end \in Nat
    <2>1. NoPrev.unacked = FALSE /\ NoPrev.end = 0
        BY DEF NoPrev
    <2>2. \A prev \in PrevKeys : prev.unacked \in BOOLEAN /\ prev.end \in Nat
        BY DEF PrevKeys
    <2>3. NoPrev.unacked \in BOOLEAN /\ NoPrev.end \in Nat
        <3>1. FALSE \in BOOLEAN /\ 0 \in Nat
            OBVIOUS
        <3> QED
            BY <2>1, <3>1, Zenon
    <2> QED
        BY <2>2, <2>3
<1>3. \A p \in key_net : p.from \in Ends /\ p.pn \in Nat \ {0} /\ p.generation \in Nat
    BY DEF KeyType
<1> QED
    BY <1>1, <1>2, <1>3

\* The keys u are one generation after k and have those of k as the previous ones.
Updated(u, k, end, remote) ==
    /\ u \in KeysOfEnd /\ u.generation = k.generation + 1
    /\ u.rx = k.rx /\ u.pn = k.pn /\ u.timer = k.timer
    /\ u.prev \in PrevKeys /\ u.prev # NoPrev
    /\ u.prev.generation = k.generation /\ u.prev.end = end /\ u.prev.unacked = remote

\* update_keys keeps the current keys as the previous ones.
LEMMA UpdateFields ==
    ASSUME NEW k \in KeysOfEnd, NEW end \in Nat, NEW remote \in BOOLEAN
    PROVE  Updated(UpdateKeys(k, end, remote), k, end, remote)
<1> DEFINE prev == [generation |-> k.generation, end |-> end, unacked |-> remote]
<1>1. k.generation \in Nat /\ k.generation + 1 \in Nat
    BY DEF KeysOfEnd
<1>2. prev \in PrevKeys /\ prev.generation = k.generation /\ prev.end = end /\ prev.unacked = remote
    BY <1>1 DEF PrevKeys
<1>3. prev # NoPrev
    BY <1>1 DEF NoPrev
<1>4. UpdateKeys(k, end, remote) = [k EXCEPT !.generation = k.generation + 1, !.prev = prev]
    BY DEF UpdateKeys
<1> HIDE DEF prev
<1>5. [k EXCEPT !.generation = k.generation + 1, !.prev = prev] \in KeysOfEnd
    BY <1>1, <1>2 DEF KeysOfEnd
<1> QED
    BY <1>2, <1>3, <1>4, <1>5 DEF KeysOfEnd, Updated

\* decrypt_packet_body finds the keys a packet was sealed with, if the end holds them.
LEMMA KeysTold ==
    ASSUME NEW i \in Ends, NEW r \in Ends, KeysOf(i, r)
    PROVE  KeysAreTold
<1> SUFFICES ASSUME NEW p \in key_net, NEW e \in Ends, p.from # e,
                    p.generation \in {key_ends[e].generation, key_ends[e].generation + 1, key_ends[e].prev.generation}
             PROVE  KeysFor(key_ends[e], p) = p.generation
    BY DEF KeysAreTold
<1> DEFINE k == key_ends[e]
<1>1. KeyType /\ SealedInOrder /\ Ahead(i, r) /\ Parted(i, r) /\ Parted(r, i) /\ Ends = {i, r} /\ i # r
    BY DEF KeysOf, Leads
<1>2. /\ k.generation \in Nat /\ k.prev.end \in Nat /\ p.from \in Ends /\ p.pn \in Nat /\ p.generation \in Nat
      /\ key_ends[i].generation \in Nat /\ key_ends[r].generation \in Nat
    BY <1>1, KeyFields
<1>3. CASE p.generation = k.generation
    BY <1>3 DEF KeysFor
<1>4. CASE p.generation = k.generation + 1
    <2>1. e = r /\ p.from = i
        BY <1>1, <1>2, <1>4 DEF SealedInOrder, Ahead
    <2>2. k.prev # NoPrev => k.prev.end # 0 /\ p.pn > k.prev.end
        BY <1>1, <1>2, <1>4, <2>1 DEF Ahead, Parted
    <2>3. KeyPhase(p.generation) # KeyPhase(k.generation)
        BY <1>2, <1>4, PhaseAlternates
    <2>4. ~(k.prev # NoPrev /\ (k.prev.end = 0 \/ p.pn < k.prev.end))
        BY <1>2, <2>2
    <2> HIDE DEF k
    <2>5. KeysFor(k, p) = k.generation + 1
        BY <2>3, <2>4 DEF KeysFor
    <2> QED
        BY <1>4, <2>5 DEF k
<1>5. CASE p.generation = k.prev.generation
    <2>1. k.prev # NoPrev
        BY <1>2, <1>5 DEF NoPrev
    <2>2. k.prev.generation = k.generation - 1
        BY <1>1, <2>1 DEF KeyType
    <2>3. KeyPhase(p.generation) # KeyPhase(k.generation)
        BY <1>2, <1>5, <2>2, PhaseAlternates
    <2>4. k.prev.end # 0 => p.pn < k.prev.end
        BY <1>1, <1>2, <1>5, <2>1, <2>2 DEF Parted
    <2> HIDE DEF k
    <2>5. KeysFor(k, p) = k.prev.generation
        BY <2>1, <2>3, <2>4 DEF KeysFor
    <2> QED
        BY <1>5, <2>5 DEF k
<1> QED
    BY <1>3, <1>4, <1>5

\* Both ends begin with the keys of the handshake.
LEMMA InitKeyInv == OneInitiator /\ KeyInit => KeyInv
<1> SUFFICES ASSUME OneInitiator, KeyInit PROVE KeyInv
    OBVIOUS
<1>1. PICK i \in Ends, r \in Ends : Leads(key_setting, i, r)
    BY DEF OneInitiator, KeyInit
<1>2. /\ key_ends = [e \in Ends |-> [generation |-> 0, prev |-> NoPrev, rx |-> 0, pn |-> 1, timer |-> FALSE]]
      /\ key_net = {} /\ ~key_error
    BY DEF KeyInit
<1>3. \A e \in Ends : /\ key_ends[e] \in KeysOfEnd
                     /\ key_ends[e].generation = 0 /\ key_ends[e].prev = NoPrev /\ key_ends[e].rx = 0
                     /\ key_ends[e].pn = 1 /\ key_ends[e].timer = FALSE
    BY <1>2 DEF KeysOfEnd
<1>4. KeyType
    BY <1>2, <1>3 DEF KeyType
<1>5. SealedInOrder /\ Unanswered(i, r)
    BY <1>2, <1>3 DEF SealedInOrder, Unanswered, NoPrev
<1>6. Ahead(i, r) /\ Parted(i, r) /\ Parted(r, i)
    BY <1>2, <1>3 DEF Ahead, Parted
<1> QED
    BY <1>1, <1>2, <1>4, <1>5, <1>6 DEF KeyInv, KeysOf

\* force_key_update: only the end that leads, and only when it waits for no answer.
LEMMA ForceStep ==
    ASSUME NEW i \in Ends, NEW r \in Ends, KeysOf(i, r), NEW e \in Ends, ForceKeyUpdate(e)
    PROVE  KeysOf(i, r)'
<1>1. /\ Leads(key_setting, i, r) /\ KeyType /\ SealedInOrder /\ Ahead(i, r) /\ Unanswered(i, r)
      /\ Parted(i, r) /\ Parted(r, i) /\ ~key_error
    BY DEF KeysOf
<1>2. e = i /\ i # r
    BY <1>1 DEF Leads, ForceKeyUpdate
<1>3. /\ key_ends[i].prev = NoPrev /\ UNCHANGED <<key_net, key_error, key_setting>>
      /\ key_ends' = [key_ends EXCEPT ![i] = UpdateKeys(key_ends[i], 0, FALSE)]
    BY <1>2 DEF ForceKeyUpdate, MayUpdate
<1>4. /\ key_ends[i] \in KeysOfEnd /\ key_ends[i].generation \in Nat /\ key_ends[r].generation \in Nat
      /\ key_ends \in [Ends -> KeysOfEnd]
    BY <1>1, KeyFields DEF KeyType
<1> DEFINE k == UpdateKeys(key_ends[i], 0, FALSE)
<1>5. /\ k \in KeysOfEnd /\ k.generation = key_ends[i].generation + 1
      /\ k.rx = key_ends[i].rx /\ k.pn = key_ends[i].pn /\ k.timer = key_ends[i].timer
      /\ k.prev # NoPrev /\ k.prev \in PrevKeys /\ k.prev.generation = key_ends[i].generation /\ k.prev.end = 0
    <2>1. FALSE \in BOOLEAN /\ 0 \in Nat
        OBVIOUS
    <2>2. Updated(k, key_ends[i], 0, FALSE)
        BY <1>4, <2>1, UpdateFields, Zenon
    <2> HIDE DEF k
    <2> QED
        BY <2>2, Zenon DEF Updated
<1>6. k.prev # NoPrev /\ k.prev \in PrevKeys /\ k.prev.generation = key_ends[i].generation /\ k.prev.end = 0
    BY <1>5, Zenon
<1>7. key_ends'[i] = k /\ key_ends'[r] = key_ends[r] /\ Ends = {i, r} /\ key_ends' \in [Ends -> KeysOfEnd]
    <2>1. key_ends' = [key_ends EXCEPT ![i] = k] /\ k \in KeysOfEnd /\ Ends = {i, r}
        BY <1>1, <1>3, <1>5, Zenon DEF Leads
    <2> HIDE DEF k
    <2> QED
        BY <1>2, <1>4, <2>1
<1> HIDE DEF k
<1>8. KeyType'
    <2>1. key_net' = key_net
        BY <1>3
    <2>2. ASSUME NEW f \in Ends, key_ends'[f].prev # NoPrev
          PROVE  key_ends'[f].prev \in PrevKeys /\ key_ends'[f].prev.generation = key_ends'[f].generation - 1
        <3>1. CASE f = i
            BY <1>4, <1>5, <1>6, <1>7, <3>1
        <3>2. CASE f = r
            BY <1>1, <1>7, <2>2, <3>2 DEF KeyType
        <3> QED
            BY <1>7, <3>1, <3>2
    <2> QED
        BY <1>1, <1>7, <2>1, <2>2 DEF KeyType
<1>9. key_ends[i].generation = key_ends[r].generation /\ ~key_ends[r].prev.unacked /\ ~key_ends[i].timer
    BY <1>1, <1>3 DEF Ahead, Unanswered
<1>10. /\ key_net' = key_net
       /\ \A p \in key_net : p.from \in {i, r} /\ p.generation \in Nat /\ p.pn \in Nat
       /\ key_ends'[i].generation = key_ends[i].generation + 1 /\ key_ends'[r].generation = key_ends[r].generation
       /\ key_ends'[i].pn = key_ends[i].pn /\ key_ends'[r].pn = key_ends[r].pn
    BY <1>1, <1>3, <1>5, <1>7, KeyFields
<1>11. SealedInOrder'
    <2>1. ASSUME NEW p \in key_net
          PROVE  p.pn < key_ends'[p.from].pn /\ p.generation <= key_ends'[p.from].generation
        BY <1>1, <1>4, <1>10 DEF SealedInOrder
    <2> QED
        BY <1>1, <1>10, <2>1 DEF SealedInOrder
<1>12. Ahead(i, r)'
    BY <1>1, <1>4, <1>5, <1>6, <1>7, <1>9 DEF Ahead
<1>13. Unanswered(i, r)'
    BY <1>7, <1>9 DEF Unanswered
<1>14. Parted(i, r)'
    <2>1. key_ends[r].pn \in Nat \ {0}
        BY <1>1, KeyFields
    <2>2. \A p \in key_net : p.from = r => (p.generation > key_ends'[i].generation => p.pn > key_ends'[i].rx)
        BY <1>1, <1>4, <1>5, <1>7, <1>10 DEF Parted
    <2> QED
        BY <1>1, <1>5, <1>6, <1>7, <1>10, <2>1, <2>2 DEF Parted
<1>15. Parted(r, i)'
    BY <1>1, <1>3, <1>5, <1>7 DEF Parted
<1> QED
    BY <1>1, <1>3, <1>8, <1>11, <1>12, <1>13, <1>14, <1>15 DEF KeysOf

\* PacketBuilder::new: the packet is numbered, and an update of the peer is acknowledged.
LEMMA SealFields ==
    ASSUME NEW k \in KeysOfEnd
    PROVE  LET u == [k EXCEPT !.pn = k.pn + 1, !.prev.unacked = FALSE] IN
           /\ u \in KeysOfEnd /\ u.generation = k.generation /\ u.rx = k.rx /\ u.pn = k.pn + 1 /\ u.timer = k.timer
           /\ u.prev = NoPrev <=> k.prev = NoPrev
           /\ u.prev # NoPrev => u.prev \in PrevKeys
           /\ u.prev.generation = k.prev.generation /\ u.prev.end = k.prev.end /\ u.prev.unacked = FALSE
<1> DEFINE prev == [k.prev EXCEPT !.unacked = FALSE]
           u == [k EXCEPT !.pn = k.pn + 1, !.prev = prev]
<1>1. k.pn \in Nat \ {0} /\ k.pn + 1 \in Nat \ {0} /\ k.prev \in PrevKeys \cup {NoPrev}
    BY DEF KeysOfEnd
<1>2. CASE k.prev = NoPrev
    <2>1. prev = NoPrev
        <3>1. NoPrev.unacked = FALSE
            BY DEF NoPrev
        <3>2. NoPrev = [x \in DOMAIN NoPrev |-> NoPrev[x]]
            BY Zenon DEF NoPrev
        <3>3. [NoPrev EXCEPT !.unacked = NoPrev.unacked] = NoPrev
            BY <3>2
        <3> QED
            BY <1>2, <3>1, <3>3, Zenon
    <2>2. NoPrev.unacked = FALSE
        BY DEF NoPrev
    <2> HIDE DEF prev
    <2>3. u \in KeysOfEnd
        BY <1>1, <2>1 DEF KeysOfEnd
    <2>4. u.generation = k.generation /\ u.rx = k.rx /\ u.pn = k.pn + 1 /\ u.timer = k.timer /\ u.prev = NoPrev
        BY <2>1 DEF KeysOfEnd
    <2>5. [k EXCEPT !.pn = k.pn + 1, !.prev.unacked = FALSE] = u
        BY DEF prev
    <2> HIDE DEF u
    <2> QED
        BY <1>2, <2>2, <2>3, <2>4, <2>5, Zenon
<1>3. CASE k.prev \in PrevKeys
    <2>1. prev \in PrevKeys /\ prev.generation = k.prev.generation /\ prev.end = k.prev.end
        BY <1>3 DEF PrevKeys
    <2>2. prev.unacked = FALSE
        BY <1>3 DEF PrevKeys
    <2>3. \A q \in PrevKeys : q # NoPrev
        BY DEF PrevKeys, NoPrev
    <2> HIDE DEF prev
    <2>4. u \in KeysOfEnd
        BY <1>1, <2>1 DEF KeysOfEnd
    <2>5. u.generation = k.generation /\ u.rx = k.rx /\ u.pn = k.pn + 1 /\ u.timer = k.timer /\ u.prev = prev
        BY DEF KeysOfEnd
    <2>6. [k EXCEPT !.pn = k.pn + 1, !.prev.unacked = FALSE] = u
        BY DEF prev
    <2> HIDE DEF u
    <2> QED
        BY <1>3, <2>1, <2>2, <2>3, <2>4, <2>5, <2>6, Zenon
<1> QED
    BY <1>1, <1>2, <1>3

\* PacketBuilder::new: a packet takes the largest number and generation of its end.
LEMMA SealStep ==
    ASSUME NEW i \in Ends, NEW r \in Ends, KeysOf(i, r), NEW e \in Ends, SendSealed(e)
    PROVE  KeysOf(i, r)'
<1>1. /\ Leads(key_setting, i, r) /\ KeyType /\ SealedInOrder /\ Ahead(i, r) /\ Unanswered(i, r)
      /\ Parted(i, r) /\ Parted(r, i) /\ ~key_error
    BY DEF KeysOf
<1> DEFINE new == [from |-> e, pn |-> key_ends[e].pn, generation |-> key_ends[e].generation]
           u == [key_ends[e] EXCEPT !.pn = key_ends[e].pn + 1, !.prev.unacked = FALSE]
<1>2. /\ key_net' = key_net \cup {new} /\ UNCHANGED <<key_error, key_setting>>
      /\ key_ends' = [key_ends EXCEPT ![e] = u]
    BY DEF SendSealed
<1>3. /\ \A f \in Ends : /\ key_ends[f] \in KeysOfEnd /\ key_ends[f].generation \in Nat /\ key_ends[f].rx \in Nat
                        /\ key_ends[f].pn \in Nat \ {0} /\ key_ends[f].prev.end \in Nat
      /\ \A p \in key_net : p.from \in Ends /\ p.generation \in Nat /\ p.pn \in Nat
      /\ key_ends \in [Ends -> KeysOfEnd] /\ Ends = {i, r} /\ i # r
    BY <1>1, KeyFields DEF KeyType, Leads
<1>4. /\ new \in [from : Ends, pn : Nat \ {0}, generation : Nat]
      /\ new.from = e /\ new.pn = key_ends[e].pn /\ new.generation = key_ends[e].generation
    BY <1>3
<1>5. /\ u \in KeysOfEnd /\ u.generation = key_ends[e].generation /\ u.rx = key_ends[e].rx
      /\ u.pn = key_ends[e].pn + 1 /\ u.timer = key_ends[e].timer
      /\ u.prev = NoPrev <=> key_ends[e].prev = NoPrev
      /\ u.prev # NoPrev => u.prev \in PrevKeys
      /\ u.prev.generation = key_ends[e].prev.generation /\ u.prev.end = key_ends[e].prev.end /\ u.prev.unacked = FALSE
    <2>1. key_ends[e] \in KeysOfEnd
        BY <1>3
    <2> QED
        BY <2>1, SealFields, Zenon
<1> HIDE DEF new, u
<1>6. /\ key_ends' \in [Ends -> KeysOfEnd]
      /\ key_ends'[e] = u /\ \A f \in Ends : f # e => key_ends'[f] = key_ends[f]
    BY <1>2, <1>3, <1>5
<1>7. \A f \in Ends :
        /\ key_ends'[f].generation = key_ends[f].generation /\ key_ends'[f].rx = key_ends[f].rx
        /\ key_ends'[f].timer = key_ends[f].timer
        /\ key_ends'[f].prev = NoPrev <=> key_ends[f].prev = NoPrev
        /\ key_ends'[f].prev.generation = key_ends[f].prev.generation /\ key_ends'[f].prev.end = key_ends[f].prev.end
        /\ f # e => key_ends'[f].prev.unacked = key_ends[f].prev.unacked
    BY <1>5, <1>6, Zenon
<1>8. \A f \in Ends : key_ends'[f].pn = IF f = e THEN key_ends[f].pn + 1 ELSE key_ends[f].pn
    BY <1>5, <1>6
<1>9. KeyType'
    <2>1. key_net' \in SUBSET [from : Ends, pn : Nat \ {0}, generation : Nat]
        BY <1>1, <1>2, <1>4 DEF KeyType
    <2>2. ASSUME NEW f \in Ends, key_ends'[f].prev # NoPrev
          PROVE  key_ends'[f].prev \in PrevKeys
        <3>1. CASE f = e
            BY <1>5, <1>6, <2>2, <3>1
        <3>2. CASE f # e
            BY <1>1, <1>6, <2>2, <3>2 DEF KeyType
        <3> QED
            BY <3>1, <3>2
    <2>3. ASSUME NEW f \in Ends, key_ends'[f].prev # NoPrev
          PROVE  key_ends'[f].prev.generation = key_ends'[f].generation - 1
        BY <1>1, <1>7, <2>3 DEF KeyType
    <2> QED
        BY <1>6, <2>1, <2>2, <2>3 DEF KeyType
<1>10. SealedInOrder'
    <2>1. ASSUME NEW p \in key_net'
          PROVE  p.pn < key_ends'[p.from].pn /\ p.generation <= key_ends'[p.from].generation
        BY <1>1, <1>2, <1>3, <1>4, <1>7, <1>8 DEF SealedInOrder
    <2>2. ASSUME NEW p \in key_net', NEW q \in key_net', p.from = q.from, p.pn <= q.pn
          PROVE  p.generation <= q.generation
        <3>1. CASE p \in key_net /\ q \in key_net
            BY <1>1, <2>2, <3>1 DEF SealedInOrder
        <3>2. CASE q = new
            <4>1. p.from = e
                BY <1>4, <2>2, <3>2
            <4> QED
                BY <1>4, <1>7, <2>1, <3>2, <4>1
        <3>3. CASE p = new /\ q \in key_net
            <4>1. q.pn < key_ends[e].pn /\ q.pn \in Nat /\ key_ends[e].pn \in Nat
                BY <1>1, <1>3, <1>4, <2>2, <3>3 DEF SealedInOrder
            <4> QED
                BY <1>4, <2>2, <3>3, <4>1
        <3> QED
            BY <1>2, <3>1, <3>2, <3>3
    <2> QED
        BY <2>1, <2>2 DEF SealedInOrder
<1>11. Ahead(i, r)'
    BY <1>1, <1>7, Zenon DEF Ahead
<1>12. Unanswered(i, r)'
    <2> SUFFICES ASSUME key_ends'[r].prev.unacked
                 PROVE  /\ key_ends'[i].generation = key_ends'[r].generation
                        /\ key_ends'[i].prev # NoPrev /\ key_ends'[i].prev.end = 0
                        /\ \A p \in key_net' : p.from = r => p.generation < key_ends'[r].generation
        BY DEF Unanswered
    <2>1. e # r /\ key_ends[r].prev.unacked
        BY <1>5, <1>6, <1>7
    <2>2. new.from # r
        BY <1>4, <2>1
    <2> QED
        BY <1>1, <1>2, <1>7, <2>1, <2>2 DEF Unanswered
<1>13. ASSUME NEW f \in Ends, NEW g \in Ends, f # g, Parted(f, g),
              key_ends[f].prev # NoPrev /\ key_ends[f].prev.end # 0 => key_ends[g].generation >= key_ends[f].generation
       PROVE  Parted(f, g)'
    <2>1. /\ key_ends'[f].rx < key_ends'[g].pn
          /\ key_ends'[f].prev # NoPrev => key_ends'[f].prev.end < key_ends'[g].pn
        BY <1>3, <1>7, <1>8, <1>13 DEF Parted
    <2>2. ASSUME NEW p \in key_net', p.from = g
          PROVE  /\ p.generation > key_ends[f].generation => p.pn > key_ends[f].rx
                 /\ key_ends[f].prev # NoPrev /\ key_ends[f].prev.end # 0 =>
                      /\ p.generation > key_ends[f].generation => p.pn > key_ends[f].prev.end
                      /\ p.generation < key_ends[f].generation => p.pn < key_ends[f].prev.end
        <3>1. CASE p \in key_net
            BY <1>13, <2>2, <3>1 DEF Parted
        <3>2. CASE p = new
            BY <1>3, <1>4, <1>13, <2>2, <3>2 DEF Parted
        <3> QED
            BY <1>2, <3>1, <3>2
    <2> QED
        BY <1>7, <2>1, <2>2 DEF Parted
<1>14. Parted(i, r)' /\ Parted(r, i)'
    <2>1. key_ends[i].prev # NoPrev /\ key_ends[i].prev.end # 0 => key_ends[r].generation >= key_ends[i].generation
        BY <1>1, <1>3 DEF Ahead
    <2>2. key_ends[i].generation >= key_ends[r].generation
        BY <1>1, <1>3 DEF Ahead
    <2> QED
        BY <1>1, <1>3, <1>13, <2>1, <2>2
<1> QED
    BY <1>1, <1>2, <1>9, <1>10, <1>11, <1>12, <1>14 DEF KeysOf

\* A packet that is lost, or that is not opened, changes nothing else.
LEMMA LossStep ==
    ASSUME NEW i \in Ends, NEW r \in Ends, KeysOf(i, r), key_net' \subseteq key_net,
           UNCHANGED <<key_ends, key_error, key_setting>>
    PROVE  KeysOf(i, r)'
<1>1. /\ Leads(key_setting, i, r) /\ KeyType /\ SealedInOrder /\ Ahead(i, r) /\ Unanswered(i, r)
      /\ Parted(i, r) /\ Parted(r, i) /\ ~key_error
    BY DEF KeysOf
<1>2. KeyType'
    BY <1>1 DEF KeyType
<1>3. SealedInOrder'
    BY <1>1 DEF SealedInOrder
<1>4. Ahead(i, r)'
    BY <1>1 DEF Ahead
<1>5. Unanswered(i, r)'
    BY <1>1 DEF Unanswered
<1>6. Parted(i, r)' /\ Parted(r, i)'
    BY <1>1 DEF Parted
<1> QED
    BY <1>1, <1>2, <1>3, <1>4, <1>5, <1>6 DEF KeysOf

\* Timer::KeyDiscard: the end that leads forgets its previous keys only once it was answered.
LEMMA DiscardStep ==
    ASSUME NEW i \in Ends, NEW r \in Ends, KeysOf(i, r), NEW e \in Ends, KeyDiscard(e)
    PROVE  KeysOf(i, r)'
<1>1. /\ Leads(key_setting, i, r) /\ KeyType /\ SealedInOrder /\ Ahead(i, r) /\ Unanswered(i, r)
      /\ Parted(i, r) /\ Parted(r, i) /\ ~key_error
    BY DEF KeysOf
<1> DEFINE u == [key_ends[e] EXCEPT !.timer = FALSE, !.prev = NoPrev]
<1>2. /\ key_ends[e].timer /\ UNCHANGED <<key_net, key_error>>
      /\ key_ends' = [key_ends EXCEPT ![e] = u]
      /\ key_setting' = [key_setting EXCEPT !.zero_rtt = IF key_setting.zero_rtt = e THEN "none" ELSE key_setting.zero_rtt]
    BY DEF KeyDiscard
<1>3. /\ key_ends[e] \in KeysOfEnd /\ key_ends \in [Ends -> KeysOfEnd] /\ Ends = {i, r} /\ i # r
      /\ \A f \in Ends : key_ends[f].pn \in Nat \ {0}
    BY <1>1, KeyFields DEF KeyType, Leads
<1>4. /\ u \in KeysOfEnd /\ u.generation = key_ends[e].generation /\ u.rx = key_ends[e].rx
      /\ u.pn = key_ends[e].pn /\ u.prev = NoPrev
    BY <1>3 DEF KeysOfEnd
<1>5. u.timer = FALSE
    BY <1>3 DEF KeysOfEnd
<1> HIDE DEF u
<1>6. /\ key_ends' \in [Ends -> KeysOfEnd]
      /\ key_ends'[e] = u /\ \A f \in Ends : f # e => key_ends'[f] = key_ends[f]
    BY <1>2, <1>3, <1>4
<1>7. \A f \in Ends :
        /\ key_ends'[f].generation = key_ends[f].generation /\ key_ends'[f].rx = key_ends[f].rx
        /\ key_ends'[f].pn = key_ends[f].pn
        /\ key_ends'[f].prev = NoPrev \/ key_ends'[f].prev = key_ends[f].prev
    BY <1>4, <1>6, Zenon
<1>8. Leads(key_setting, i, r)'
    BY <1>1, <1>2 DEF Leads
<1>9. KeyType'
    BY <1>1, <1>2, <1>6, <1>7 DEF KeyType
<1>10. SealedInOrder'
    BY <1>1, <1>2, <1>7, KeyFields DEF SealedInOrder
<1>11. e = i => key_ends[i].prev # NoPrev /\ key_ends[i].prev.end # 0 /\ key_ends[i].generation = key_ends[r].generation
    BY <1>1, <1>2 DEF Ahead
<1>12. Ahead(i, r)'
    <2>1. CASE e = i
        BY <1>1, <1>3, <1>4, <1>5, <1>6, <1>7, <1>11, <2>1 DEF Ahead
    <2>2. CASE e = r
        BY <1>1, <1>3, <1>4, <1>6, <1>7, <2>2 DEF Ahead
    <2> QED
        BY <1>3, <2>1, <2>2
<1>13. Unanswered(i, r)'
    <2>1. CASE e = i
        <3>1. ~key_ends[r].prev.unacked
            BY <1>1, <1>11, <2>1 DEF Unanswered
        <3> QED
            BY <1>3, <1>6, <2>1, <3>1 DEF Unanswered
    <2>2. CASE e = r
        <3>1. ~NoPrev.unacked
            BY DEF NoPrev
        <3> QED
            BY <1>4, <1>6, <2>2, <3>1 DEF Unanswered
    <2> QED
        BY <1>3, <2>1, <2>2
<1>14. Parted(i, r)' /\ Parted(r, i)'
    BY <1>1, <1>2, <1>7 DEF Parted
<1> QED
    BY <1>1, <1>2, <1>8, <1>9, <1>10, <1>12, <1>13, <1>14 DEF KeysOf

\* An answer ends the use of the previous keys for packets from that one on.
LEMMA AnswerFields ==
    ASSUME NEW k \in KeysOfEnd, k.prev \in PrevKeys, NEW n \in Nat
    PROVE  LET u == [k EXCEPT !.prev.end = n, !.timer = TRUE] IN
           /\ u \in KeysOfEnd /\ u.generation = k.generation /\ u.pn = k.pn /\ u.rx = k.rx /\ u.timer = TRUE
           /\ u.prev \in PrevKeys /\ u.prev # NoPrev /\ u.prev.generation = k.prev.generation /\ u.prev.end = n
<1> DEFINE prev == [k.prev EXCEPT !.end = n]
           u == [k EXCEPT !.prev = prev, !.timer = TRUE]
<1>1. prev \in PrevKeys /\ prev.generation = k.prev.generation /\ prev.end = n
    BY DEF PrevKeys
<1>2. \A q \in PrevKeys : q # NoPrev
    BY DEF PrevKeys, NoPrev
<1>3. [k EXCEPT !.prev.end = n, !.timer = TRUE] = u
    OBVIOUS
<1> HIDE DEF prev
<1>4. u \in KeysOfEnd
    BY <1>1 DEF KeysOfEnd
<1>5. u.generation = k.generation /\ u.pn = k.pn /\ u.rx = k.rx /\ u.prev = prev
    BY DEF KeysOfEnd
<1>6. u.timer = TRUE
    BY DEF KeysOfEnd
<1> HIDE DEF u
<1> QED
    BY <1>1, <1>2, <1>3, <1>4, <1>5, <1>6, Zenon

\* A packet is opened with one of the three sets of keys, so it is of the next generation
\* at most, and parts what the end has received.
LEMMA OpenedGeneration ==
    ASSUME NEW k, NEW p, KeysFor(k, p) = p.generation
    PROVE  p.generation \in {k.generation, k.generation + 1, k.prev.generation}
BY DEF KeysFor

\* decrypt_packet at the end that leads: the packet may answer its update.
LEMMA OpenLeadStep ==
    ASSUME NEW i \in Ends, NEW r \in Ends, KeysOf(i, r), NEW p \in key_net, OpenPacket(i, p)
    PROVE  KeysOf(i, r)'
<1>1. /\ Leads(key_setting, i, r) /\ KeyType /\ SealedInOrder /\ Ahead(i, r) /\ Unanswered(i, r)
      /\ Parted(i, r) /\ Parted(r, i) /\ ~key_error
    BY DEF KeysOf
<1> DEFINE k == key_ends[i]
           opened == KeysFor(k, p) = p.generation
           answered == k.prev # NoPrev /\ k.prev.end = 0 /\ p.generation = k.generation
           ended == IF answered THEN [k EXCEPT !.prev.end = p.pn, !.timer = TRUE] ELSE k
           rx == IF p.pn > ended.rx THEN p.pn ELSE ended.rx
           timer == ended.timer \/ key_setting.zero_rtt = i
           u == [ended EXCEPT !.rx = rx, !.timer = timer]
<1>2. /\ k \in KeysOfEnd /\ k.generation \in Nat /\ k.rx \in Nat /\ k.pn \in Nat \ {0} /\ k.timer \in BOOLEAN
      /\ key_ends \in [Ends -> KeysOfEnd] /\ Ends = {i, r} /\ i # r
      /\ key_ends[r].generation \in Nat /\ key_ends[r].pn \in Nat
      /\ \A q \in key_net : q.from \in Ends /\ q.pn \in Nat \ {0} /\ q.generation \in Nat
      /\ k.prev # NoPrev => k.prev \in PrevKeys /\ k.prev.generation = k.generation - 1
    BY <1>1, KeyFields DEF KeyType, Leads
<1>3. p.from = r /\ key_net' = key_net \ {p}
    BY <1>2 DEF OpenPacket
<1>4. p.generation <= key_ends[r].generation /\ p.pn < key_ends[r].pn /\ ~(p.generation > k.generation)
    BY <1>1, <1>2, <1>3 DEF SealedInOrder, Ahead
<1>5. CASE ~opened
    <2>1. UNCHANGED <<key_ends, key_error, key_setting>>
        BY <1>5 DEF OpenPacket
    <2> QED
        BY <1>3, <2>1, LossStep
<1>6. CASE opened
    <2>1. key_ends' = [key_ends EXCEPT ![i] = u] /\ UNCHANGED <<key_error, key_setting>>
        BY <1>4, <1>6, Zenon DEF OpenPacket
    <2>2. /\ ended \in KeysOfEnd /\ ended.generation = k.generation /\ ended.pn = k.pn /\ ended.rx = k.rx
          /\ answered => ended.prev \in PrevKeys /\ ended.prev # NoPrev /\ ended.prev.generation = k.prev.generation
                           /\ ended.prev.end = p.pn /\ ended.timer = TRUE
          /\ ~answered => ended = k
        <3>1. CASE answered
            <4>1. k.prev \in PrevKeys /\ p.pn \in Nat
                BY <1>2, <3>1
            <4> DEFINE w == [k EXCEPT !.prev.end = p.pn, !.timer = TRUE]
            <4>2. k \in KeysOfEnd
                BY <1>2
            <4>3. ended = w
                BY <3>1
            <4> HIDE DEF k, ended
            <4>4. /\ w \in KeysOfEnd /\ w.generation = k.generation /\ w.pn = k.pn /\ w.rx = k.rx /\ w.timer = TRUE
                  /\ w.prev \in PrevKeys /\ w.prev # NoPrev /\ w.prev.generation = k.prev.generation /\ w.prev.end = p.pn
                BY <4>1, <4>2, AnswerFields, Zenon
            <4> HIDE DEF answered, w
            <4> QED
                BY <3>1, <4>3, <4>4, Zenon
        <3>2. CASE ~answered
            BY <1>2, <3>2, Zenon
        <3> QED
            BY <3>1, <3>2
    <2> HIDE DEF ended
    <2>3. rx \in Nat /\ timer \in BOOLEAN /\ rx < key_ends[r].pn /\ (rx = p.pn \/ rx = k.rx)
        <3>1. rx \in Nat /\ rx < key_ends[r].pn /\ (rx = p.pn \/ rx = k.rx)
            BY <1>1, <1>2, <1>4, <2>2 DEF Parted
        <3>2. timer \in BOOLEAN
            OBVIOUS
        <3> QED
            BY <3>1, <3>2
    <2>4. timer => answered \/ k.timer
        BY <1>1, <2>2 DEF Leads
    <2> HIDE DEF rx, timer
    <2>5. /\ u \in KeysOfEnd /\ u.generation = k.generation /\ u.pn = k.pn /\ u.rx = rx
          /\ u.prev = ended.prev /\ u.timer = timer
        <3>1. ended \in KeysOfEnd /\ rx \in Nat /\ timer \in BOOLEAN
            BY <2>2, <2>3, Zenon
        <3>2. u \in KeysOfEnd /\ u.generation = ended.generation /\ u.pn = ended.pn /\ u.rx = rx /\ u.prev = ended.prev
            BY <3>1 DEF KeysOfEnd
        <3>3. u.timer = timer
            BY <3>1 DEF KeysOfEnd
        <3> HIDE DEF u
        <3> QED
            BY <2>2, <3>2, <3>3, Zenon
    <2> HIDE DEF u
    <2>6. key_ends' \in [Ends -> KeysOfEnd] /\ key_ends'[i] = u /\ key_ends'[r] = key_ends[r]
        BY <1>2, <2>1, <2>5
    <2>7. KeyType'
        <3>1. key_net' \in SUBSET [from : Ends, pn : Nat \ {0}, generation : Nat]
            BY <1>1, <1>3 DEF KeyType
        <3>2. u.prev # NoPrev => u.prev \in PrevKeys /\ u.prev.generation = u.generation - 1
            BY <1>2, <2>2, <2>5
        <3>3. key_ends[r].prev # NoPrev =>
                key_ends[r].prev \in PrevKeys /\ key_ends[r].prev.generation = key_ends[r].generation - 1
            BY <1>1 DEF KeyType
        <3> QED
            BY <1>2, <2>6, <3>1, <3>2, <3>3 DEF KeyType
    <2>8. SealedInOrder'
        <3>1. \A f \in Ends : key_ends'[f].pn = key_ends[f].pn /\ key_ends'[f].generation = key_ends[f].generation
            BY <1>2, <2>5, <2>6
        <3> QED
            BY <1>1, <1>2, <1>3, <3>1 DEF SealedInOrder
    <2>9. answered => key_ends[r].generation = k.generation /\ ~key_ends[r].prev.unacked
        BY <1>1, <1>2, <1>3, <1>4 DEF Ahead, Unanswered
    <2>10. p.pn # 0
        BY <1>2
    <2>11. Ahead(i, r)'
        <3>1. CASE answered
            BY <1>1, <2>2, <2>5, <2>6, <2>9, <2>10, <3>1 DEF Ahead
        <3>2. CASE ~answered
            BY <1>1, <2>2, <2>4, <2>5, <2>6, <3>2 DEF Ahead
        <3> QED
            BY <3>1, <3>2
    <2>12. Unanswered(i, r)'
        <3>1. CASE answered
            BY <2>6, <2>9, <3>1 DEF Unanswered
        <3>2. CASE ~answered
            BY <1>1, <1>3, <2>2, <2>5, <2>6, <3>2 DEF Unanswered
        <3> QED
            BY <3>1, <3>2
    <2>13. Parted(r, i)'
        BY <1>1, <1>3, <2>5, <2>6 DEF Parted
    <2>14. Parted(i, r)'
        <3>1. ASSUME NEW q \in key_net, q.from = r
              PROVE  /\ q.generation > p.generation => q.pn > p.pn
                     /\ q.generation < p.generation => q.pn < p.pn
            BY <1>1, <1>2, <1>3, <3>1 DEF SealedInOrder
        <3>2. ASSUME NEW q \in key_net, q.from = r
              PROVE  q.generation > k.generation => q.pn > rx
            BY <1>1, <1>2, <1>4, <2>3, <3>1, <3>2 DEF Parted
        <3>3. CASE answered
            BY <1>3, <1>4, <2>2, <2>3, <2>5, <2>6, <3>1, <3>2, <3>3 DEF Parted
        <3>4. CASE ~answered
            BY <1>1, <1>3, <2>2, <2>3, <2>5, <2>6, <3>2, <3>4 DEF Parted
        <3> QED
            BY <3>3, <3>4
    <2> QED
        BY <1>1, <2>1, <2>7, <2>8, <2>11, <2>12, <2>13, <2>14 DEF KeysOf
<1> QED
    BY <1>5, <1>6

\* decrypt_packet at the end that follows: the packet may bring an update, for which the
\* end is ready.
LEMMA OpenFollowStep ==
    ASSUME NEW i \in Ends, NEW r \in Ends, KeysOf(i, r), NEW p \in key_net, OpenPacket(r, p)
    PROVE  KeysOf(i, r)'
<1>1. /\ Leads(key_setting, i, r) /\ KeyType /\ SealedInOrder /\ Ahead(i, r) /\ Unanswered(i, r)
      /\ Parted(i, r) /\ Parted(r, i) /\ ~key_error
    BY DEF KeysOf
<1> DEFINE k == key_ends[r]
           opened == KeysFor(k, p) = p.generation
           update == p.generation > k.generation
           next == [UpdateKeys(k, p.pn, TRUE) EXCEPT !.timer = TRUE]
           updated == IF update THEN next ELSE k
           rx == IF p.pn > updated.rx THEN p.pn ELSE updated.rx
           timer == updated.timer \/ key_setting.zero_rtt = r
           u == [updated EXCEPT !.rx = rx, !.timer = timer]
<1>2. /\ k \in KeysOfEnd /\ k.generation \in Nat /\ k.rx \in Nat /\ k.pn \in Nat \ {0} /\ k.timer \in BOOLEAN
      /\ key_ends \in [Ends -> KeysOfEnd] /\ Ends = {i, r} /\ i # r
      /\ key_ends[i].generation \in Nat /\ key_ends[i].pn \in Nat
      /\ \A q \in key_net : q.from \in Ends /\ q.pn \in Nat \ {0} /\ q.generation \in Nat
      /\ k.prev # NoPrev => k.prev \in PrevKeys /\ k.prev.generation = k.generation - 1
    BY <1>1, KeyFields DEF KeyType, Leads
<1>3. p.from = i /\ key_net' = key_net \ {p}
    BY <1>2 DEF OpenPacket
<1>4. p.generation <= key_ends[i].generation /\ p.pn < key_ends[i].pn
    BY <1>1, <1>3 DEF SealedInOrder
<1>5. ~(k.prev # NoPrev /\ k.prev.end = 0 /\ p.generation = k.generation)
    BY <1>1 DEF Ahead
<1>6. update => ~(p.pn <= k.rx \/ k.prev.unacked)
    <2> SUFFICES ASSUME update PROVE ~(p.pn <= k.rx) /\ ~k.prev.unacked
        BY Zenon
    <2>1. ~(p.pn <= k.rx)
        BY <1>1, <1>2, <1>3 DEF Parted
    <2>2. ~k.prev.unacked
        BY <1>1, <1>2, <1>4 DEF Unanswered
    <2> QED
        BY <2>1, <2>2
<1>7. CASE ~opened
    <2>1. UNCHANGED <<key_ends, key_error, key_setting>>
        BY <1>7 DEF OpenPacket
    <2> QED
        BY <1>3, <2>1, LossStep
<1>8. CASE opened
    <2>1. key_ends' = [key_ends EXCEPT ![r] = u] /\ UNCHANGED <<key_error, key_setting>>
        BY <1>5, <1>6, <1>8, Zenon DEF OpenPacket
    <2>2. update => p.generation = k.generation + 1 /\ key_ends[i].generation = k.generation + 1
        <3>1. p.generation \in {k.generation, k.generation + 1, k.prev.generation}
            BY <1>8, OpenedGeneration
        <3>2. k.prev = NoPrev => k.prev.generation = -1
            BY DEF NoPrev
        <3>3. update => p.generation = k.generation + 1
            <4> HIDE DEF k
            <4> QED
                BY <1>2, <3>1, <3>2
        <3> QED
            BY <1>1, <1>2, <1>4, <3>3 DEF Ahead
    <2>3. /\ next \in KeysOfEnd /\ next.generation = k.generation + 1 /\ next.pn = k.pn /\ next.rx = k.rx
          /\ next.timer = TRUE /\ next.prev \in PrevKeys /\ next.prev # NoPrev
          /\ next.prev.generation = k.generation /\ next.prev.end = p.pn
        <3> DEFINE v == UpdateKeys(k, p.pn, TRUE)
        <3>1. TRUE \in BOOLEAN /\ p.pn \in Nat
            BY <1>2
        <3>2. /\ v \in KeysOfEnd /\ v.generation = k.generation + 1 /\ v.rx = k.rx /\ v.pn = k.pn
              /\ v.prev \in PrevKeys /\ v.prev # NoPrev /\ v.prev.generation = k.generation /\ v.prev.end = p.pn
            <4>1. k \in KeysOfEnd
                BY <1>2
            <4> HIDE DEF k
            <4>2. Updated(v, k, p.pn, TRUE)
                BY <3>1, <4>1, UpdateFields, Zenon
            <4> HIDE DEF v
            <4> QED
                BY <4>2, Zenon DEF Updated
        <3> HIDE DEF v, k
        <3>3. next = [v EXCEPT !.timer = TRUE]
            BY DEF v
        <3>4. next \in KeysOfEnd
            BY <3>2, <3>3 DEF KeysOfEnd
        <3>5. next.timer = TRUE
            BY <3>2, <3>3 DEF KeysOfEnd
        <3>6. next.generation = v.generation /\ next.rx = v.rx /\ next.pn = v.pn /\ next.prev = v.prev
            BY <3>2, <3>3 DEF KeysOfEnd
        <3> HIDE DEF next
        <3> QED
            BY <3>2, <3>4, <3>5, <3>6, Zenon
    <2> HIDE DEF next
    <2>4. /\ updated \in KeysOfEnd /\ updated.pn = k.pn /\ updated.rx = k.rx
          /\ updated.timer \in BOOLEAN
        BY <1>2, <2>3, Zenon
    <2>5. updated = IF update THEN next ELSE k
        OBVIOUS
    <2> HIDE DEF updated
    <2>6. rx \in Nat /\ rx < key_ends[i].pn /\ (rx = p.pn \/ rx = k.rx)
        BY <1>1, <1>2, <1>4, <2>4 DEF Parted
    <2>7. timer \in BOOLEAN
        OBVIOUS
    <2> HIDE DEF rx, timer
    <2>8. /\ u \in KeysOfEnd /\ u.generation = updated.generation /\ u.pn = k.pn /\ u.rx = rx /\ u.prev = updated.prev
        <3>1. updated \in KeysOfEnd /\ rx \in Nat /\ timer \in BOOLEAN
            BY <2>4, <2>6, <2>7, Zenon
        <3>2. /\ u \in KeysOfEnd /\ u.generation = updated.generation /\ u.pn = updated.pn /\ u.rx = rx
              /\ u.prev = updated.prev
            BY <3>1 DEF KeysOfEnd
        <3> HIDE DEF u
        <3> QED
            BY <2>4, <3>2, Zenon
    <2> HIDE DEF u
    <2>9. key_ends' \in [Ends -> KeysOfEnd] /\ key_ends'[r] = u /\ key_ends'[i] = key_ends[i]
        BY <1>2, <2>1, <2>8
    <2>10. u.prev # NoPrev => u.prev \in PrevKeys /\ u.prev.generation = u.generation - 1
        BY <1>2, <2>3, <2>5, <2>8
    <2>11. /\ update => u.generation = k.generation + 1 /\ u.prev.end = p.pn /\ u.prev # NoPrev
           /\ ~update => u.generation = k.generation /\ u.prev = k.prev
           /\ u.generation \in Nat /\ k.generation <= u.generation
        BY <1>2, <2>3, <2>5, <2>8
    <2>12. p.generation <= u.generation /\ p.pn # 0
        BY <1>2, <2>2, <2>11
    <2>13. KeyType'
        <3>1. key_net' \in SUBSET [from : Ends, pn : Nat \ {0}, generation : Nat]
            BY <1>1, <1>3 DEF KeyType
        <3>2. key_ends[i].prev # NoPrev =>
                key_ends[i].prev \in PrevKeys /\ key_ends[i].prev.generation = key_ends[i].generation - 1
            BY <1>1 DEF KeyType
        <3> QED
            BY <1>2, <2>9, <2>10, <3>1, <3>2 DEF KeyType
    <2>14. SealedInOrder'
        <3>1. ASSUME NEW q \in key_net
              PROVE  q.pn < key_ends'[q.from].pn /\ q.generation <= key_ends'[q.from].generation
            BY <1>1, <1>2, <2>8, <2>9, <2>11 DEF SealedInOrder
        <3> QED
            BY <1>1, <1>3, <3>1 DEF SealedInOrder
    <2>15. Ahead(i, r)'
        BY <1>1, <1>2, <2>2, <2>9, <2>11, <2>12 DEF Ahead
    <2>16. Unanswered(i, r)'
        <3>1. CASE update
            <4>1. key_ends[i].prev # NoPrev /\ key_ends[i].prev.end = 0
                BY <1>1, <1>2, <2>2, <3>1 DEF Ahead
            <4>2. \A q \in key_net : q.from = r => q.generation < u.generation
                BY <1>1, <1>2, <2>11, <3>1 DEF SealedInOrder
            <4> QED
                BY <1>3, <2>2, <2>9, <2>11, <3>1, <4>1, <4>2 DEF Unanswered
        <3>2. CASE ~update
            BY <1>1, <1>3, <2>9, <2>11, <3>2 DEF Unanswered
        <3> QED
            BY <3>1, <3>2
    <2>17. Parted(i, r)'
        BY <1>1, <1>3, <2>8, <2>9 DEF Parted
    <2>18. Parted(r, i)'
        <3>1. ASSUME NEW q \in key_net, q.from = i
              PROVE  /\ q.generation > p.generation => q.pn > p.pn
                     /\ q.generation < p.generation => q.pn < p.pn
            BY <1>1, <1>2, <1>3, <3>1 DEF SealedInOrder
        <3>2. ASSUME NEW q \in key_net, q.from = i
              PROVE  q.generation > u.generation => q.pn > rx
            BY <1>1, <1>2, <2>6, <2>11, <2>12, <3>1, <3>2 DEF Parted
        <3>3. CASE update
            BY <1>3, <1>4, <2>2, <2>6, <2>8, <2>9, <2>11, <3>1, <3>2, <3>3 DEF Parted
        <3>4. CASE ~update
            BY <1>1, <1>3, <2>6, <2>8, <2>9, <2>11, <3>2, <3>4 DEF Parted
        <3> QED
            BY <3>3, <3>4
    <2> QED
        BY <1>1, <2>1, <2>13, <2>14, <2>15, <2>16, <2>17, <2>18 DEF KeysOf
<1> QED
    BY <1>7, <1>8

\* Every step of both ends and of the network keeps the invariant.
LEMMA KeyNextInv == KeyInv /\ [KeyNext]_keyVars => KeyInv'
<1> SUFFICES ASSUME KeyInv, [KeyNext]_keyVars PROVE KeyInv'
    OBVIOUS
<1>1. PICK i \in Ends, r \in Ends : KeysOf(i, r)
    BY DEF KeyInv
<1> SUFFICES KeysOf(i, r)'
    BY DEF KeyInv
<1>2. CASE KeyNext
    <2>1. PICK e \in Ends : ForceKeyUpdate(e) \/ SendSealed(e) \/ KeyDiscard(e)
                               \/ \E p \in key_net : OpenPacket(e, p) \/ DropPacket(p)
        BY <1>2 DEF KeyNext
    <2>2. CASE ForceKeyUpdate(e)
        BY <1>1, <2>2, ForceStep
    <2>3. CASE SendSealed(e)
        BY <1>1, <2>3, SealStep
    <2>4. CASE KeyDiscard(e)
        BY <1>1, <2>4, DiscardStep
    <2>5. CASE \E p \in key_net : OpenPacket(e, p)
        <3>1. e = i \/ e = r
            BY <1>1 DEF KeysOf, Leads
        <3> QED
            BY <1>1, <2>5, <3>1, OpenLeadStep, OpenFollowStep
    <2>6. CASE \E p \in key_net : DropPacket(p)
        <3>1. key_net' \subseteq key_net /\ UNCHANGED <<key_ends, key_error, key_setting>>
            BY <2>6 DEF DropPacket
        <3> QED
            BY <1>1, <3>1, LossStep
    <2> QED
        BY <2>1, <2>2, <2>3, <2>4, <2>5, <2>6
<1>3. CASE UNCHANGED keyVars
    BY <1>1, <1>3, LossStep DEF keyVars
<1> QED
    BY <1>2, <1>3

\* An end that updates its keys and one that follows open every packet sealed with keys
\* they hold, and never take each other's update for a violation: for any number of
\* updates, of packets, and of losses and overtakings among them.
THEOREM KeyUpdatesCorrect == ASSUME OneInitiator PROVE KeySpec => [](KeysAreTold /\ NoKeyUpdateError)
<1>1. KeyInit => KeyInv
    BY InitKeyInv
<1>2. KeyInv /\ [KeyNext]_keyVars => KeyInv'
    BY KeyNextInv
<1>3. KeyInv => KeysAreTold /\ NoKeyUpdateError
    BY KeysTold DEF KeyInv, KeysOf, NoKeyUpdateError
<1> QED
    BY <1>1, <1>2, <1>3, PTL DEF KeySpec

-----------------------------------------------------------------------------
(* Connection ids: the inductive invariant *)

IssuerFields == {"issued", "active", "prev_retire", "retire", "expiring", "timer"}
CidFrames == [type : {"NEW"}, seq : Nat, retire : Nat] \cup [type : {"RETIRE"}, seq : Nat]
CidRequests ==
    [type : {"NeedIdentifiers"}, count : Nat] \cup [type : {"RetireConnectionId"}, seq : Nat, allow : BOOLEAN]
HasMax(S) == S # {} => \E m \in S : \A y \in S : m >= y

CidType ==
    /\ DOMAIN issuer = IssuerFields /\ issuer.retire \in Nat /\ issuer.expiring \in Seq(Nat)
    /\ cids_issued \in Nat
    /\ requests \in Seq(CidRequests)
    /\ answers \in Seq(SUBSET Nat) /\ \A k \in DOMAIN answers : HasMax(answers[k])
    /\ cid_sent \subseteq CidFrames /\ cid_net \subseteq CidFrames

\* The user's active id is its oldest, and ids from it on route to the connection.
UserInv ==
    /\ DOMAIN user = {"known", "offset"} /\ user.known \subseteq Nat /\ user.offset \in user.known
    /\ \A s \in user.known : user.offset <= s
    /\ \A s \in Nat : user.offset <= s /\ s < cids_issued => s \in loc_cids

\* Wherever an id is on its way to be retired, the user has moved on from it.
RetireInv ==
    /\ \A s \in retire_cids : s \in Nat /\ s < user.offset
    /\ \A f \in cid_sent \cup cid_net : f.type = "RETIRE" => f.seq < user.offset
    /\ \A k \in DOMAIN requests : requests[k].type = "RetireConnectionId" =>
         requests[k].seq < user.offset /\ requests[k].seq \notin issuer.active

\* Ids are numbered in order: one the user may hear of is below those the connection
\* has not been given yet.
Taken(s) == s \in Nat /\ s < cids_issued /\ \A k \in DOMAIN answers : \A i \in answers[k] : s < i
TakenInv ==
    /\ \A s \in new_cids : Taken(s)
    /\ \A f \in cid_sent \cup cid_net : f.type = "NEW" => Taken(f.seq)
    /\ \A s \in user.known : Taken(s)
    /\ \A k \in DOMAIN answers : \A i \in answers[k] : i < cids_issued
    /\ \A j, k \in DOMAIN answers : j < k => \A x \in answers[j], y \in answers[k] : x < y

\* An id in the endpoint's table is known to the connection, or an event about it is
\* on its way.
AgreeInv ==
    /\ issuer.active \subseteq loc_cids
    /\ \A k \in DOMAIN answers : answers[k] \subseteq loc_cids
    /\ \A s \in loc_cids :
         \/ s \in issuer.active
         \/ \E k \in DOMAIN answers : s \in answers[k]
         \/ \E k \in DOMAIN requests : requests[k].type = "RetireConnectionId" /\ requests[k].seq = s

IdsInv == CidType /\ UserInv /\ RetireInv /\ TakenInv /\ AgreeInv

\* The id of the handshake is the only one: the invariant holds of the initial
\* states.
LEMMA IdsInitInv == CidInit => IdsInv
<1> SUFFICES ASSUME CidInit
             PROVE  IdsInv
    OBVIOUS
<1> USE DEF CidInit
<1> DEFINE need == [type |-> "NeedIdentifiers", count |-> FirstCids]
<1>1. need \in CidRequests
    BY CidConstants DEF FirstCids, CidRequests
<1>2. requests = <<need>> /\ requests \in Seq(CidRequests) /\ DOMAIN requests = {1} /\ requests[1].type = "NeedIdentifiers"
    BY <1>1
<1>3. answers = <<>> /\ DOMAIN answers = {} /\ answers \in Seq(SUBSET Nat)
    OBVIOUS
<1>4. DOMAIN issuer = IssuerFields /\ issuer.retire = 0 /\ issuer.active = {0}
    BY DEF IssuerFields
<1>5. issuer.expiring \in Seq(Nat)
    <2>1. issuer.expiring = <<0>> \/ issuer.expiring = <<>>
        OBVIOUS
    <2> QED
        BY <2>1
<1>6. CidType
    BY <1>2, <1>3, <1>4, <1>5 DEF CidType
<1>7. UserInv
    BY DEF UserInv
<1>8. RetireInv
    BY <1>2 DEF RetireInv
<1>9. TakenInv
    BY <1>3 DEF TakenInv, Taken
<1>10. AgreeInv
    BY <1>3, <1>4 DEF AgreeInv
<1> QED
    BY <1>6, <1>7, <1>8, <1>9, <1>10 DEF IdsInv

-----------------------------------------------------------------------------
(* The issuer *)

\* send_new_identifiers after the ids in gone were forgotten: the new ids are above
\* all others.
LEMMA IssuedIds ==
    ASSUME IdsInv, NEW n \in Nat, NEW gone, requests' = Tail(requests), requests # <<>>,
           \A s \in gone : s < user.offset /\ s \notin issuer.active,
           Head(requests).type = "RetireConnectionId" => Head(requests).seq \in gone,
           loc_cids' = (loc_cids \ gone) \cup NewIds(n), cids_issued' = cids_issued + n,
           \/ answers' = Append(answers, NewIds(n))
           \/ answers' = answers /\ n = 0,
           UNCHANGED <<issuer, new_cids, user, retire_cids, cidFrames>>
    PROVE  IdsInv'
<1> USE DEF IdsInv
<1>1. cids_issued \in Nat /\ answers \in Seq(SUBSET Nat) /\ requests \in Seq(CidRequests) /\ user.offset \in Nat
    BY DEF CidType, UserInv
<1>2. /\ NewIds(n) \subseteq Nat /\ \A s \in NewIds(n) : cids_issued <= s /\ s < cids_issued + n
      /\ (n = 0 => NewIds(n) = {})
    BY <1>1 DEF NewIds
<1>3. HasMax(NewIds(n))
    <2>1. CASE n = 0
        BY <1>2, <2>1 DEF HasMax
    <2>2. CASE n > 0
        <3>1. cids_issued + n - 1 \in NewIds(n)
            BY <1>1, <2>2 DEF NewIds
        <3>2. \A y \in NewIds(n) : cids_issued + n - 1 >= y
            BY <1>1 DEF NewIds
        <3> QED
            BY <3>1, <3>2 DEF HasMax
    <2> QED
        BY <2>1, <2>2
<1>4. /\ answers' \in Seq(SUBSET Nat)
      /\ DOMAIN answers \subseteq DOMAIN answers' /\ \A k \in DOMAIN answers : answers'[k] = answers[k]
      /\ \A k \in DOMAIN answers' : k \in DOMAIN answers \/ (k = Len(answers) + 1 /\ answers'[k] = NewIds(n))
      /\ n # 0 => (Len(answers) + 1 \in DOMAIN answers' /\ answers'[Len(answers) + 1] = NewIds(n))
    <2>1. CASE answers' = answers /\ n = 0
        BY <1>1, <2>1
    <2>2. CASE answers' = Append(answers, NewIds(n))
        <3>1. NewIds(n) \in SUBSET Nat
            BY <1>2
        <3>2. DOMAIN answers = 1 .. Len(answers) /\ Len(answers) \in Nat
            BY <1>1
        <3> DEFINE new == NewIds(n)
        <3> HIDE DEF new
        <3>3. answers' = Append(answers, new) /\ new \in SUBSET Nat
            BY <2>2, <3>1 DEF new
        <3>4. answers' \in Seq(SUBSET Nat) /\ Len(answers') = Len(answers) + 1
            BY <1>1, <3>3
        <3>5. \A k \in 1 .. Len(answers') : answers'[k] = IF k <= Len(answers) THEN answers[k] ELSE new
            BY <1>1, <3>3
        <3>6. DOMAIN answers' = 1 .. Len(answers) + 1
            BY <3>4
        <3> QED
            BY <3>2, <3>4, <3>5, <3>6 DEF new
    <2> QED
        BY <2>1, <2>2
<1>5. /\ requests' \in Seq(CidRequests)
      /\ \A k \in DOMAIN requests' : k + 1 \in DOMAIN requests /\ requests'[k] = requests[k + 1]
      /\ \A k \in DOMAIN requests : k # 1 => k - 1 \in DOMAIN requests' /\ requests'[k - 1] = requests[k]
      /\ Head(requests) = requests[1]
    BY <1>1
<1>6. UNCHANGED <<issuer, new_cids, user, retire_cids, cid_sent, cid_net>>
    BY DEF cidFrames
<1>7. CidType'
    <2>1. \A k \in DOMAIN answers' : HasMax(answers'[k])
        BY <1>3, <1>4 DEF CidType
    <2> QED
        BY <1>1, <1>4, <1>5, <1>6, <2>1, cids_issued' \in Nat DEF CidType, HasMax
<1>8. UserInv'
    BY <1>1, <1>2, <1>6 DEF UserInv, NewIds
<1>9. RetireInv'
    BY <1>5, <1>6 DEF RetireInv
<1>10. TakenInv'
    <2>1. ASSUME NEW s, Taken(s)
          PROVE  Taken(s)'
        <3>1. s \in Nat /\ s < cids_issued /\ \A k \in DOMAIN answers : \A i \in answers[k] : s < i
            BY <2>1 DEF Taken
        <3>2. \A i \in NewIds(n) : s < i
            BY <1>1, <1>2, <3>1
        <3>3. \A k \in DOMAIN answers' : \A i \in answers'[k] : s < i
            BY <1>4, <3>1, <3>2
        <3>4. s < cids_issued'
            BY <1>1, <3>1
        <3> QED
            BY <3>1, <3>3, <3>4 DEF Taken
    <2>2. \A s : Taken(s) => Taken(s)'
        BY <2>1
    <2>3. \A k \in DOMAIN answers' : \A i \in answers'[k] : i < cids_issued'
        <3>1. \A k \in DOMAIN answers : \A i \in answers[k] : i \in Nat /\ i < cids_issued
            BY <1>1 DEF TakenInv
        <3>2. \A k \in DOMAIN answers : \A i \in answers[k] : i < cids_issued + n
            BY <1>1, <3>1
        <3> QED
            BY <1>2, <1>4, <3>2
    <2>4. ASSUME NEW j \in DOMAIN answers', NEW k \in DOMAIN answers', j < k,
                 NEW x \in answers'[j], NEW y \in answers'[k]
          PROVE  x < y
        <3>1. j \in DOMAIN answers
            BY <1>1, <1>4, <2>4
        <3>2. CASE k \in DOMAIN answers
            BY <1>4, <2>4, <3>1, <3>2 DEF TakenInv
        <3>3. CASE answers'[k] = NewIds(n)
            <4>1. x \in Nat /\ x < cids_issued
                BY <1>1, <1>4, <2>4, <3>1 DEF TakenInv
            <4>2. y \in Nat /\ cids_issued <= y
                BY <1>2, <2>4, <3>3
            <4> QED
                BY <1>1, <4>1, <4>2
        <3> QED
            BY <1>4, <3>2, <3>3
    <2>5. /\ \A s \in new_cids' : Taken(s)'
          /\ \A f \in (cid_sent \cup cid_net)' : f.type = "NEW" => Taken(f.seq)'
          /\ \A s \in user'.known : Taken(s)'
        BY <1>6, <2>2 DEF TakenInv
    <2> QED
        BY <2>3, <2>4, <2>5 DEF TakenInv
<1>11. AgreeInv'
    <2>1. issuer'.active \subseteq loc_cids'
        BY <1>6 DEF AgreeInv
    <2>2. \A k \in DOMAIN answers' : answers'[k] \subseteq loc_cids'
        <3>1. \A k \in DOMAIN answers : \A i \in answers[k] : i \notin gone
            <4>1. Taken(user.offset)
                BY DEF TakenInv, UserInv
            <4>2. \A k \in DOMAIN answers : \A i \in answers[k] : user.offset < i /\ i \in Nat
                BY <1>1, <4>1 DEF Taken
            <4>3. \A s \in gone : s < user.offset
                OBVIOUS
            <4>4. \A i \in Nat : ~(user.offset < i /\ i < user.offset)
                BY <1>1
            <4> QED
                BY <4>2, <4>3, <4>4
        <3> QED
            BY <1>4, <3>1 DEF AgreeInv
    <2>3. ASSUME NEW s \in loc_cids'
          PROVE  \/ s \in issuer'.active
                 \/ \E k \in DOMAIN answers' : s \in answers'[k]
                 \/ \E k \in DOMAIN requests' : requests'[k].type = "RetireConnectionId" /\ requests'[k].seq = s
        <3>1. CASE s \in NewIds(n)
            BY <1>2, <1>4, <3>1
        <3>2. CASE s \in loc_cids /\ s \notin gone
            <4>1. CASE s \in issuer.active \/ \E k \in DOMAIN answers : s \in answers[k]
                BY <1>4, <1>6, <4>1
            <4>2. ASSUME NEW k \in DOMAIN requests, requests[k].type = "RetireConnectionId", requests[k].seq = s
                  PROVE  \E j \in DOMAIN requests' : requests'[j].type = "RetireConnectionId" /\ requests'[j].seq = s
                <5>1. k # 1
                    BY <1>5, <3>2, <4>2
                <5> QED
                    BY <1>5, <4>2, <5>1
            <4> QED
                BY <3>2, <4>1, <4>2 DEF AgreeInv
        <3> QED
            BY <2>3, <3>1, <3>2
    <2> QED
        BY <2>1, <2>2, <2>3 DEF AgreeInv
<1> QED
    BY <1>7, <1>8, <1>9, <1>10, <1>11

\* handle_event of the endpoint keeps the invariant: it forgets what the user has
\* left behind and numbers new ids above all others.
LEMMA EndpointEventStep ==
    ASSUME IdsInv, EndpointEvent
    PROVE  IdsInv'
<1> DEFINE e == Head(requests)
<1>1. requests # <<>> /\ requests' = Tail(requests) /\ UNCHANGED <<issuer, new_cids, user, retire_cids, cidFrames>>
    BY DEF EndpointEvent
<1>2. requests \in Seq(CidRequests) /\ cids_issued \in Nat
    BY DEF IdsInv, CidType
<1>3. e \in CidRequests /\ e = requests[1] /\ 1 \in DOMAIN requests
    BY <1>1, <1>2
<1>4. CASE e.type = "NeedIdentifiers"
    <2>1. e.count \in Nat
        BY <1>3, <1>4 DEF CidRequests
    <2>2. Issue(e.count)
        BY <1>4 DEF EndpointEvent
    <2> DEFINE n == e.count
               gone == {}
    <2>3. loc_cids' = (loc_cids \ gone) \cup NewIds(n)
        BY <2>2 DEF Issue
    <2>4. n \in Nat /\ cids_issued' = cids_issued + n /\ answers' = Append(answers, NewIds(n))
        BY <2>1, <2>2 DEF Issue
    <2>5. /\ Head(requests).type = "RetireConnectionId" => Head(requests).seq \in gone
          /\ \A s \in gone : s < user.offset /\ s \notin issuer.active
        BY <1>4
    <2> HIDE DEF n, gone, e
    <2> QED
        BY <1>1, <2>3, <2>4, <2>5, IssuedIds
<1>5. CASE e.type = "RetireConnectionId"
    <2> DEFINE gone == {e.seq}
    <2>1. \A s \in gone : s < user.offset /\ s \notin issuer.active
        BY <1>3, <1>5 DEF IdsInv, RetireInv
    <2>2. PICK n \in {0, 1} :
            /\ loc_cids' = (loc_cids \ gone) \cup NewIds(n) /\ cids_issued' = cids_issued + n
            /\ answers' = Append(answers, NewIds(n)) \/ (answers' = answers /\ n = 0)
        <3>1. NewIds(0) = {} /\ cids_issued + 0 = cids_issued
            BY <1>2 DEF NewIds
        <3>2. \/ /\ loc_cids' = (loc_cids \ gone) \cup NewIds(1)
                 /\ cids_issued' = cids_issued + 1
                 /\ answers' = Append(answers, NewIds(1))
              \/ loc_cids' = loc_cids \ gone /\ cids_issued' = cids_issued /\ answers' = answers
            BY <1>5 DEF EndpointEvent, Forgotten
        <3> QED
            BY <3>1, <3>2
    <2>3. e.type = "RetireConnectionId" => e.seq \in gone
        OBVIOUS
    <2> HIDE DEF gone, e
    <2> QED
        BY <1>1, <2>1, <2>2, <2>3, IssuedIds DEF e
<1> QED
    BY <1>4, <1>5 DEF EndpointEvent

\* NewIdentifiers keeps the invariant: the ids a connection takes are the lowest of
\* those on their way.
LEMMA TakeIdentifiersStep ==
    ASSUME IdsInv, TakeIdentifiers
    PROVE  IdsInv'
<1> DEFINE ids == Head(answers)
           expiring == IF ids = {} \/ ~cid_setting.lifetime THEN issuer.expiring ELSE Append(issuer.expiring, Max(ids))
<1> USE DEF IdsInv
<1>1. answers \in Seq(SUBSET Nat) /\ answers # <<>> /\ answers' = Tail(answers) /\ user.offset \in Nat
    BY DEF CidType, UserInv, TakeIdentifiers
<1>2. /\ answers' \in Seq(SUBSET Nat) /\ ids = answers[1] /\ 1 \in DOMAIN answers /\ ids \subseteq Nat
      /\ \A k \in DOMAIN answers' : k + 1 \in DOMAIN answers /\ answers'[k] = answers[k + 1] /\ 1 < k + 1
      /\ \A k \in DOMAIN answers : k # 1 => k - 1 \in DOMAIN answers' /\ answers'[k - 1] = answers[k]
    BY <1>1
<1>3. UNCHANGED <<loc_cids, cids_issued, requests, user, retire_cids, cid_sent, cid_net>> /\ new_cids' = new_cids \cup ids
    BY DEF TakeIdentifiers, cidFrames
<1>4. issuer' = [issuer EXCEPT !.issued = @ + Cardinality(ids), !.active = @ \cup ids,
                               !.expiring = expiring, !.timer = @ \/ expiring # <<>>]
    BY DEF TakeIdentifiers
<1>5. expiring \in Seq(Nat)
    <2>1. ASSUME ids # {}
          PROVE  Max(ids) \in Nat
        <3>1. \E m \in ids : \A y \in ids : m >= y
            BY <1>2, <2>1 DEF CidType, HasMax
        <3>2. Max(ids) \in ids
            BY <3>1 DEF Max
        <3> QED
            BY <1>2, <3>2
    <2> QED
        BY <2>1 DEF CidType
<1> HIDE DEF ids, expiring
<1>6. /\ DOMAIN issuer' = IssuerFields /\ issuer'.retire = issuer.retire /\ issuer'.expiring = expiring
      /\ issuer'.active = issuer.active \cup ids
    BY <1>4 DEF CidType, IssuerFields
<1>7. CidType'
    BY <1>2, <1>3, <1>5, <1>6 DEF CidType, HasMax
<1>8. UserInv'
    BY <1>3 DEF UserInv
<1>9. RetireInv'
    <2>1. Taken(user.offset)
        BY DEF TakenInv, UserInv
    <2>2. \A i \in ids : user.offset < i /\ i \in Nat
        BY <1>2, <2>1 DEF Taken
    <2>3. \A k \in DOMAIN requests : requests[k].type = "RetireConnectionId" => requests[k].seq \notin ids
        <3>1. \A i \in Nat : ~(user.offset < i /\ i < user.offset)
            BY <1>1
        <3> QED
            BY <2>2, <3>1 DEF RetireInv
    <2> QED
        BY <1>3, <1>6, <2>3 DEF RetireInv
<1>10. TakenInv'
    <2>1. \A s : Taken(s) => Taken(s)'
        BY <1>2, <1>3 DEF Taken
    <2>2. \A s \in ids : Taken(s)'
        <3>1. \A s \in ids : s \in Nat /\ s < cids_issued'
            BY <1>2, <1>3 DEF TakenInv
        <3>2. \A s \in ids : \A k \in DOMAIN answers' : \A i \in answers'[k] : s < i
            BY <1>2 DEF TakenInv
        <3> QED
            BY <3>1, <3>2 DEF Taken
    <2>3. /\ \A s \in new_cids' : Taken(s)'
          /\ \A f \in (cid_sent \cup cid_net)' : f.type = "NEW" => Taken(f.seq)'
          /\ \A s \in user'.known : Taken(s)'
        BY <1>3, <2>1, <2>2 DEF TakenInv
    <2>4. \A k \in DOMAIN answers' : \A i \in answers'[k] : i < cids_issued'
        BY <1>2, <1>3 DEF TakenInv
    <2>5. \A j, k \in DOMAIN answers' : j < k => \A x \in answers'[j], y \in answers'[k] : x < y
        <3>1. \A j, k \in DOMAIN answers' : j < k => j + 1 < k + 1
            BY <1>2
        <3> QED
            BY <1>2, <3>1 DEF TakenInv
    <2> QED
        BY <2>3, <2>4, <2>5 DEF TakenInv
<1>11. AgreeInv'
    <2>1. issuer'.active \subseteq loc_cids'
        BY <1>2, <1>3, <1>6 DEF AgreeInv
    <2>2. \A k \in DOMAIN answers' : answers'[k] \subseteq loc_cids'
        BY <1>2, <1>3 DEF AgreeInv
    <2>3. \A s \in loc_cids : (\E k \in DOMAIN answers : s \in answers[k]) =>
             s \in ids \/ \E k \in DOMAIN answers' : s \in answers'[k]
        BY <1>2
    <2> QED
        BY <1>3, <1>6, <2>1, <2>2, <2>3 DEF AgreeInv
<1> QED
    BY <1>7, <1>8, <1>9, <1>10, <1>11

\* A request is added; the connection only moves what it asks to be retired.
LEMMA RequestStep ==
    ASSUME IdsInv, NEW r \in CidRequests, requests' = Append(requests, r),
           DOMAIN issuer' = IssuerFields, issuer'.retire \in Nat, issuer'.expiring \in Seq(Nat),
           \/ r.type = "NeedIdentifiers" /\ issuer'.active = issuer.active
           \/ r.type = "RetireConnectionId" /\ r.seq < user.offset /\ issuer'.active = issuer.active \ {r.seq},
           UNCHANGED <<loc_cids, cids_issued, answers, new_cids, user, retire_cids>>,
           cid_sent' \subseteq cid_sent, cid_net' \subseteq cid_net
    PROVE  IdsInv'
<1> USE DEF IdsInv
<1>1. requests \in Seq(CidRequests)
    BY DEF CidType
<1>2. /\ requests' \in Seq(CidRequests)
      /\ \A k \in DOMAIN requests' : (k \in DOMAIN requests /\ requests'[k] = requests[k]) \/ requests'[k] = r
      /\ \A k \in DOMAIN requests : k \in DOMAIN requests' /\ requests'[k] = requests[k]
      /\ Len(requests) + 1 \in DOMAIN requests' /\ requests'[Len(requests) + 1] = r
    BY <1>1
<1>3. CidType'
    BY <1>2 DEF CidType, HasMax
<1>4. UserInv'
    BY DEF UserInv
<1>5. RetireInv'
    <2>1. issuer'.active \subseteq issuer.active /\ (r.type = "RetireConnectionId" => r.seq < user.offset /\ r.seq \notin issuer'.active)
        OBVIOUS
    <2>2. \A k \in DOMAIN requests' : requests'[k].type = "RetireConnectionId" =>
            requests'[k].seq < user.offset /\ requests'[k].seq \notin issuer'.active
        BY <1>2, <2>1 DEF RetireInv
    <2> QED
        BY <2>2 DEF RetireInv
<1>6. TakenInv'
    BY DEF TakenInv, Taken
<1>7. AgreeInv'
    <2>1. \A s \in issuer.active : s \in issuer'.active \/ (r.type = "RetireConnectionId" /\ r.seq = s)
        OBVIOUS
    <2>2. \A s \in issuer.active : s \in issuer'.active
             \/ \E k \in DOMAIN requests' : requests'[k].type = "RetireConnectionId" /\ requests'[k].seq = s
        BY <1>2, <2>1
    <2>3. \A s : (\E k \in DOMAIN requests : requests[k].type = "RetireConnectionId" /\ requests[k].seq = s)
             => \E k \in DOMAIN requests' : requests'[k].type = "RetireConnectionId" /\ requests'[k].seq = s
        BY <1>2
    <2>4. issuer'.active \subseteq issuer.active
        OBVIOUS
    <2> QED
        BY <2>2, <2>3, <2>4 DEF AgreeInv
<1> QED
    BY <1>3, <1>4, <1>5, <1>6, <1>7

\* on_cid_timeout keeps the invariant: it asks for ids and changes no table.
LEMMA CidTimeoutStep ==
    ASSUME IdsInv, CidTimeout
    PROVE  IdsInv'
<1> DEFINE unretired == (issuer.prev_retire .. issuer.retire - 1) \cap issuer.active # {}
           next == IF unretired \/ issuer.expiring = <<>> THEN issuer.retire ELSE Head(issuer.expiring) + 1
           needed == (issuer.retire .. next - 1) \cap issuer.active # {}
           r == [type |-> "NeedIdentifiers", count |-> IF needed THEN 1 ELSE 0]
<1>1. DOMAIN issuer = IssuerFields /\ issuer.retire \in Nat /\ issuer.expiring \in Seq(Nat)
    BY DEF IdsInv, CidType
<1>2. next \in Nat
    BY <1>1
<1>3. r \in CidRequests /\ r.type = "NeedIdentifiers"
    BY DEF CidRequests
<1>4. requests' = Append(requests, r)
    BY DEF CidTimeout
<1>5. issuer' = [issuer EXCEPT !.timer = FALSE, !.expiring = IF @ = <<>> THEN @ ELSE Tail(@),
                               !.prev_retire = IF unretired THEN @ ELSE issuer.retire, !.retire = next]
    BY DEF CidTimeout
<1> HIDE DEF unretired, next, r
<1>6. /\ DOMAIN issuer' = IssuerFields /\ issuer'.retire = next /\ issuer'.active = issuer.active
      /\ issuer'.expiring = IF issuer.expiring = <<>> THEN issuer.expiring ELSE Tail(issuer.expiring)
    BY <1>1, <1>5 DEF IssuerFields
<1>7. issuer'.expiring \in Seq(Nat)
    BY <1>1, <1>6
<1>8. UNCHANGED <<loc_cids, cids_issued, answers, new_cids, user, retire_cids>> /\ cid_sent' = cid_sent /\ cid_net' = cid_net
    BY DEF CidTimeout, cidFrames
<1>9. cid_sent' \subseteq cid_sent /\ cid_net' \subseteq cid_net
    BY <1>8
<1> QED
    BY <1>2, <1>3, <1>4, <1>6, <1>7, <1>8, <1>9, RequestStep

-----------------------------------------------------------------------------
(* Frames *)

\* Frames are sent, lost and queued again: nothing is retired or offered that was not
\* before.
LEMMA FrameStep ==
    ASSUME IdsInv, UNCHANGED <<issuer, loc_cids, cids_issued, requests, answers, user>>,
           cid_sent' \subseteq CidFrames, cid_net' \subseteq CidFrames,
           \A s \in retire_cids' : s \in Nat /\ s < user.offset,
           \A f \in cid_sent' \cup cid_net' : f.type = "RETIRE" => f.seq < user.offset,
           \A s \in new_cids' : Taken(s),
           \A f \in cid_sent' \cup cid_net' : f.type = "NEW" => Taken(f.seq)
    PROVE  IdsInv'
<1> USE DEF IdsInv
<1>1. CidType'
    BY DEF CidType, HasMax
<1>2. UserInv'
    BY DEF UserInv
<1>3. RetireInv'
    BY DEF RetireInv
<1>4. TakenInv'
    BY DEF TakenInv, Taken
<1>5. AgreeInv'
    BY DEF AgreeInv
<1> QED
    BY <1>1, <1>2, <1>3, <1>4, <1>5

\* Sending a frame keeps the invariant: it says what was queued.
LEMMA TransmitStep ==
    ASSUME IdsInv, NEW seq \in Nat, TransmitNew(seq) \/ TransmitRetire(seq)
    PROVE  IdsInv'
<1>1. CASE TransmitNew(seq)
    <2> DEFINE f == [type |-> "NEW", seq |-> seq, retire |-> issuer.retire]
    <2>1. f \in CidFrames /\ f.type = "NEW" /\ f.seq = seq
        BY DEF IdsInv, CidType, CidFrames
    <2>2. /\ cid_sent' = cid_sent \cup {f} /\ cid_net' = cid_net \cup {f} /\ seq \in new_cids
          /\ new_cids' \subseteq new_cids /\ retire_cids' = retire_cids
          /\ UNCHANGED <<issuer, loc_cids, cids_issued, requests, answers, user>>
        BY <1>1 DEF TransmitNew, EmitCid
    <2> HIDE DEF f
    <2>3. \A g \in cid_sent' \cup cid_net' : g \in cid_sent \cup cid_net \/ g = f
        BY <2>2
    <2>4. Taken(f.seq)
        BY <2>1, <2>2 DEF IdsInv, TakenInv
    <2>5. cid_sent' \subseteq CidFrames /\ cid_net' \subseteq CidFrames
        BY <2>1, <2>2 DEF IdsInv, CidType
    <2>6. \A g \in cid_sent' \cup cid_net' : (g.type = "NEW" => Taken(g.seq)) /\ (g.type = "RETIRE" => g.seq < user.offset)
        BY <2>1, <2>3, <2>4 DEF IdsInv, TakenInv, RetireInv
    <2>7. (\A s \in new_cids' : Taken(s)) /\ \A s \in retire_cids' : s \in Nat /\ s < user.offset
        BY <2>2 DEF IdsInv, TakenInv, RetireInv
    <2> QED
        BY <2>2, <2>5, <2>6, <2>7, FrameStep
<1>2. CASE TransmitRetire(seq)
    <2> DEFINE f == [type |-> "RETIRE", seq |-> seq]
    <2>1. f \in CidFrames /\ f.type = "RETIRE" /\ f.seq = seq
        BY DEF CidFrames
    <2>2. /\ cid_sent' = cid_sent \cup {f} /\ cid_net' = cid_net \cup {f} /\ seq \in retire_cids
          /\ new_cids' = new_cids /\ retire_cids' \subseteq retire_cids
          /\ UNCHANGED <<issuer, loc_cids, cids_issued, requests, answers, user>>
        BY <1>2 DEF TransmitRetire, EmitCid
    <2> HIDE DEF f
    <2>3. \A g \in cid_sent' \cup cid_net' : g \in cid_sent \cup cid_net \/ g = f
        BY <2>2
    <2>4. f.seq < user.offset
        BY <2>1, <2>2 DEF IdsInv, RetireInv
    <2>5. cid_sent' \subseteq CidFrames /\ cid_net' \subseteq CidFrames
        BY <2>1, <2>2 DEF IdsInv, CidType
    <2>6. \A g \in cid_sent' \cup cid_net' : (g.type = "NEW" => Taken(g.seq)) /\ (g.type = "RETIRE" => g.seq < user.offset)
        BY <2>1, <2>3, <2>4 DEF IdsInv, TakenInv, RetireInv
    <2>7. (\A s \in new_cids' : Taken(s)) /\ \A s \in retire_cids' : s \in Nat /\ s < user.offset
        BY <2>2 DEF IdsInv, TakenInv, RetireInv
    <2> QED
        BY <2>2, <2>5, <2>6, <2>7, FrameStep
<1> QED
    BY <1>1, <1>2

\* Losing a frame keeps the invariant: it is queued again.
LEMMA LoseStep ==
    ASSUME IdsInv, NEW f \in cid_sent, NEW late \in BOOLEAN, LoseCid(f, late)
    PROVE  IdsInv'
<1>1. /\ cid_sent' \subseteq cid_sent /\ cid_net' \subseteq cid_net
      /\ \A s \in new_cids' : s \in new_cids \/ (f.type = "NEW" /\ s = f.seq)
      /\ \A s \in retire_cids' : s \in retire_cids \/ (f.type = "RETIRE" /\ s = f.seq)
      /\ UNCHANGED <<issuer, loc_cids, cids_issued, requests, answers, user>>
    BY DEF LoseCid
<1>2. f \in CidFrames /\ f.seq \in Nat
    BY DEF IdsInv, CidType, CidFrames
<1>3. \A s \in new_cids' : Taken(s)
    BY <1>1 DEF IdsInv, TakenInv
<1>4. \A s \in retire_cids' : s \in Nat /\ s < user.offset
    BY <1>1, <1>2 DEF IdsInv, RetireInv
<1>5. cid_sent' \subseteq CidFrames /\ cid_net' \subseteq CidFrames
    BY <1>1 DEF IdsInv, CidType
<1>6. \A g \in cid_sent' \cup cid_net' : (g.type = "NEW" => Taken(g.seq)) /\ (g.type = "RETIRE" => g.seq < user.offset)
    BY <1>1 DEF IdsInv, TakenInv, RetireInv
<1> QED
    BY <1>1, <1>3, <1>4, <1>5, <1>6, FrameStep

-----------------------------------------------------------------------------
(* The user *)

\* A non-empty set of natural numbers has a least element: the well-ordering of Nat.
LEMMA LeastId ==
    ASSUME NEW S \in SUBSET Nat, S # {}
    PROVE  Min(S) \in S /\ \A y \in S : Min(S) <= y
<1> DEFINE R == {ss \in Nat \X Nat : ss[1] < ss[2]}
<1>1. IsWellFoundedOn(R, Nat)
    BY NatLessThanWellFounded DEF OpToRel
<1>2. PICK x \in S : \A y \in S : ~(<<y, x>> \in R)
    BY <1>1, WFMin
<1>3. x \in Nat /\ \A y \in S : x <= y
    <2>1. x \in Nat /\ \A y \in S : y \in Nat
        BY <1>2
    <2>2. ASSUME NEW y \in S
          PROVE  ~(y < x)
        <3>1. y < x => <<y, x>> \in R
            BY <2>1, <2>2
        <3> HIDE DEF R
        <3> QED
            BY <1>2, <2>2, <3>1
    <2> QED
        BY <2>1, <2>2
<1>4. \E m \in S : \A y \in S : m <= y
    BY <1>3
<1> QED
    BY <1>4 DEF Min

\* CidQueue::next: the next id it holds.
LEMMA SwitchedQueue ==
    ASSUME NEW u, u.known \subseteq Nat, u.offset \in Nat, CanSwitch(u)
    PROVE  /\ NextId(u) \in u.known /\ u.offset < NextId(u)
           /\ Switched(u).offset = NextId(u) /\ DOMAIN Switched(u) = {"known", "offset"}
           /\ Switched(u).known = {s \in u.known : s >= NextId(u)}
<1> DEFINE S == {s \in u.known : s > u.offset}
<1>1. S \in SUBSET Nat /\ S # {}
    BY DEF CanSwitch
<1>2. Min(S) \in S
    BY <1>1, LeastId
<1>3. NextId(u) \in u.known /\ NextId(u) > u.offset
    BY <1>2 DEF NextId
<1>4. NextId(u) \in Nat
    BY <1>3
<1> QED
    BY <1>3, <1>4 DEF Switched

\* The user moves on to an id it was told of, and retires those before.
LEMMA UserStep ==
    ASSUME IdsInv, NEW u, user' = u, DOMAIN u = {"known", "offset"}, u.offset \in u.known,
           \A s \in u.known : u.offset <= s /\ Taken(s),
           user.offset <= u.offset,
           \A s \in retire_cids' : s \in retire_cids \/ (s \in Nat /\ s < u.offset),
           cid_sent' \subseteq cid_sent, cid_net' \subseteq cid_net,
           UNCHANGED <<issuer, loc_cids, cids_issued, requests, answers, new_cids>>
    PROVE  IdsInv'
<1> USE DEF IdsInv
<1>1. u.known \subseteq Nat /\ u.offset \in Nat /\ user.offset \in Nat /\ cids_issued \in Nat
    BY DEF Taken, UserInv, CidType
<1>2. \A s \in Nat : s < user.offset => s < u.offset
    BY <1>1
<1>3. CidType'
    BY DEF CidType, HasMax
<1>4. UserInv'
    <2>1. \A s \in Nat : u.offset <= s => user.offset <= s
        BY <1>1
    <2> QED
        BY <1>1, <2>1 DEF UserInv
<1>5. RetireInv'
    <2>1. \A s \in retire_cids' : s \in Nat /\ s < u.offset
        BY <1>2 DEF RetireInv
    <2>2. \A f \in cid_sent' \cup cid_net' : f.type = "RETIRE" => f.seq < u.offset
        <3>1. \A f \in cid_sent \cup cid_net : f.seq \in Nat
            BY DEF CidType, CidFrames
        <3> QED
            BY <1>2, <3>1 DEF RetireInv
    <2>3. \A k \in DOMAIN requests : requests[k].type = "RetireConnectionId" => requests[k].seq < u.offset
        <3>1. \A k \in DOMAIN requests : requests[k] \in CidRequests
            BY DEF CidType
        <3>2. \A k \in DOMAIN requests : requests[k].type = "RetireConnectionId" => requests[k].seq \in Nat
            BY <3>1 DEF CidRequests
        <3> QED
            BY <1>2, <3>2 DEF RetireInv
    <2> QED
        BY <2>1, <2>2, <2>3 DEF RetireInv
<1>6. TakenInv'
    BY DEF TakenInv, Taken
<1>7. AgreeInv'
    BY DEF AgreeInv
<1> QED
    BY <1>3, <1>4, <1>5, <1>6, <1>7

\* A migration keeps the invariant: the user moves on to an id it holds.
LEMMA MigrateStepIds ==
    ASSUME IdsInv, Migrate
    PROVE  IdsInv'
<1>1. user.known \subseteq Nat /\ user.offset \in Nat /\ \A s \in user.known : Taken(s)
    BY DEF IdsInv, UserInv, TakenInv
<1>2. /\ CanSwitch(user) /\ user' = Switched(user)
      /\ retire_cids' = retire_cids \cup (user.offset .. NextId(user) - 1)
      /\ UNCHANGED <<issuer, loc_cids, cids_issued, requests, answers, new_cids, cid_sent, cid_net>>
    BY DEF Migrate, Skipped, cidFrames
<1> DEFINE u == Switched(user)
<1>3. /\ NextId(user) \in user.known /\ user.offset < NextId(user)
      /\ u.offset = NextId(user) /\ DOMAIN u = {"known", "offset"}
      /\ u.known = {s \in user.known : s >= NextId(user)}
    BY <1>1, <1>2, SwitchedQueue
<1>4. NextId(user) \in Nat /\ user' = u
    BY <1>1, <1>2, <1>3
<1> HIDE DEF u
<1>5. \A s \in retire_cids' : s \in retire_cids \/ (s \in Nat /\ s < u.offset)
    BY <1>1, <1>2, <1>3, <1>4
<1>6. (\A s \in u.known : u.offset <= s /\ Taken(s)) /\ user.offset <= u.offset /\ u.offset \in u.known
    BY <1>1, <1>3, <1>4
<1>7. cid_sent' \subseteq cid_sent /\ cid_net' \subseteq cid_net
    BY <1>2
<1>8. UNCHANGED <<issuer, loc_cids, cids_issued, requests, answers, new_cids>>
    BY <1>2
<1> QED
    BY <1>3, <1>4, <1>5, <1>6, <1>7, <1>8, UserStep

\* CidQueue::insert keeps the invariant: the user's active id stays its oldest, and
\* it retires only ids below it.
LEMMA ReceiveNewStep ==
    ASSUME IdsInv, NEW f \in cid_net, f.type = "NEW", ReceiveNew(f),
           cid_sent' \subseteq cid_sent, cid_net' \subseteq cid_net,
           UNCHANGED <<issuer, loc_cids, cids_issued, requests, answers, new_cids>>
    PROVE  IdsInv'
<1> DEFINE retired == IF f.retire > user.offset THEN f.retire - user.offset ELSE 0
           base == IF f.retire > user.offset THEN f.retire ELSE user.offset
           known == {s \in user.known : s >= base} \cup {f.seq}
           offset == IF retired = 0 THEN user.offset ELSE Min(known)
           u == [known |-> known, offset |-> offset]
           switch == cid_setting.server /\ offset = 0 /\ CanSwitch(u)
<1>1. /\ user.known \subseteq Nat /\ user.offset \in user.known /\ user.offset \in Nat
      /\ \A s \in user.known : user.offset <= s /\ Taken(s)
    BY DEF IdsInv, UserInv, TakenInv
<1>2. f.seq \in Nat /\ f.retire \in Nat /\ Taken(f.seq)
    <2>1. f \in CidFrames
        BY DEF IdsInv, CidType
    <2> QED
        BY <2>1 DEF CidFrames, IdsInv, TakenInv
<1>3. CASE user' = user /\ \A s \in retire_cids' : s \in retire_cids \/ (s = f.seq /\ f.seq < user.offset)
    <2>1. \A s \in retire_cids' : s \in retire_cids \/ (s \in Nat /\ s < user.offset)
        BY <1>2, <1>3
    <2>2. DOMAIN user = {"known", "offset"} /\ user.offset <= user.offset
        BY <1>1 DEF IdsInv, UserInv
    <2> QED
        BY <1>1, <1>3, <2>1, <2>2, UserStep
<1>4. CASE /\ ~(f.retire > f.seq) /\ ~(f.seq < user.offset)
           /\ user' = IF switch THEN Switched(u) ELSE u
           /\ retire_cids' = retire_cids \cup
                {s \in user.offset .. offset - 1 : s < user.offset + QueueLen} \cup
                (IF switch THEN Skipped(0, NextId(u)) ELSE {})
    <2>1. known \in SUBSET Nat /\ known # {} /\ f.seq \in known /\ base \in Nat /\ user.offset <= base
        BY <1>1, <1>2
    <2>2. Min(known) \in known /\ \A s \in known : Min(known) <= s
        BY <2>1, LeastId
    <2>3. \A s \in known : Taken(s) /\ user.offset <= s
        BY <1>1, <1>2, <1>4
    <2>4. offset \in known /\ (\A s \in known : offset <= s) /\ user.offset <= offset
        <3>1. CASE retired = 0
            <4>1. ~(f.retire > user.offset)
                BY <1>1, <1>2, <3>1
            <4>2. base = user.offset
                BY <4>1
            <4>3. user.offset \in known
                BY <1>1, <4>2
            <4> QED
                BY <1>1, <2>3, <3>1, <4>3
        <3>2. CASE retired # 0
            BY <2>2, <2>3, <3>2
        <3> QED
            BY <3>1, <3>2
    <2>5. u.known = known /\ u.offset = offset /\ DOMAIN u = {"known", "offset"} /\ offset \in Nat
        BY <2>1, <2>4
    <2> HIDE DEF known, offset, u
    <2>6. \A s \in {s \in user.offset .. offset - 1 : s < user.offset + QueueLen} : s \in Nat /\ s < offset
        BY <1>1, <2>5
    <2>7. CASE ~switch
        <3>1. user' = u /\ \A s \in retire_cids' : s \in retire_cids \/ (s \in Nat /\ s < u.offset)
            BY <1>4, <2>5, <2>6, <2>7
        <3>2. u.offset \in u.known /\ (\A s \in u.known : u.offset <= s /\ Taken(s)) /\ user.offset <= u.offset
            BY <2>3, <2>4, <2>5
        <3> QED
            BY <2>5, <3>1, <3>2, UserStep
    <2>8. CASE switch
        <3> DEFINE v == Switched(u)
        <3>1. /\ NextId(u) \in known /\ offset < NextId(u)
              /\ v.offset = NextId(u) /\ DOMAIN v = {"known", "offset"}
              /\ v.known = {s \in known : s >= NextId(u)}
            BY <2>1, <2>5, <2>8, SwitchedQueue
        <3>2. user' = v
            BY <1>4, <2>8
        <3> HIDE DEF v
        <3>3. NextId(u) \in Nat
            BY <2>1, <3>1
        <3>4. \A s \in Skipped(0, NextId(u)) : s \in Nat /\ s < v.offset
            BY <3>1, <3>3 DEF Skipped
        <3>5. \A s \in retire_cids' : s \in retire_cids \/ (s \in Nat /\ s < v.offset)
            <4>1. \A s \in Nat : s < offset => s < v.offset
                BY <2>5, <3>1, <3>3
            <4>2. retire_cids' = retire_cids \cup {s \in user.offset .. offset - 1 : s < user.offset + QueueLen}
                                    \cup Skipped(0, NextId(u))
                BY <1>4, <2>8
            <4> QED
                BY <2>6, <3>4, <4>1, <4>2
        <3>6. v.offset \in v.known /\ (\A s \in v.known : v.offset <= s /\ Taken(s))
            <4>1. \A s \in v.known : s \in known /\ s \in Nat /\ s >= NextId(u)
                BY <2>1, <3>1
            <4>2. \A s \in v.known : v.offset <= s
                BY <3>1, <3>3, <4>1
            <4>3. NextId(u) \in v.known
                BY <3>1, <3>3
            <4> QED
                BY <2>3, <3>1, <4>1, <4>2, <4>3
        <3>7. user.offset <= v.offset
            BY <1>1, <2>4, <2>5, <3>1, <3>3
        <3> QED
            BY <3>1, <3>2, <3>5, <3>6, <3>7, UserStep
    <2> QED
        BY <2>7, <2>8
<1> QED
    BY <1>3, <1>4 DEF ReceiveNew

\* Processing a frame keeps the invariant.
LEMMA DeliverIdStep ==
    ASSUME IdsInv, NEW f \in cid_net, DeliverCid(f)
    PROVE  IdsInv'
<1>1. /\ cid_sent' \subseteq cid_sent /\ cid_net' \subseteq cid_net
      /\ UNCHANGED <<loc_cids, cids_issued, answers, new_cids>>
    BY DEF DeliverCid
<1>2. CASE f.type = "NEW" /\ ReceiveNew(f) /\ UNCHANGED <<issuer, requests>>
    BY <1>1, <1>2, ReceiveNewStep
<1>3. CASE f.type = "RETIRE" /\ ReceiveRetire(f.seq) /\ UNCHANGED <<user, retire_cids>>
    <2> DEFINE active == issuer.active \ {f.seq}
               r == [type |-> "RetireConnectionId", seq |-> f.seq, allow |-> QueueLen > Cardinality(active)]
    <2>1. f.seq \in Nat /\ f.seq < user.offset
        BY <1>3 DEF IdsInv, CidType, CidFrames, RetireInv
    <2>2. CASE UNCHANGED <<issuer, requests>>
        <3>1. /\ \A s \in retire_cids' : s \in Nat /\ s < user.offset
              /\ \A g \in cid_sent' \cup cid_net' : (g.type = "RETIRE" => g.seq < user.offset) /\ (g.type = "NEW" => Taken(g.seq))
              /\ \A s \in new_cids' : Taken(s)
            BY <1>1, <1>3 DEF IdsInv, RetireInv, TakenInv
        <3>2. cid_sent' \subseteq CidFrames /\ cid_net' \subseteq CidFrames
            BY <1>1 DEF IdsInv, CidType
        <3> QED
            BY <1>1, <1>3, <2>2, <3>1, <3>2, FrameStep
    <2>3. CASE issuer' = [issuer EXCEPT !.active = active] /\ requests' = Append(requests, r)
        <3>1. r \in CidRequests /\ r.type = "RetireConnectionId" /\ r.seq = f.seq
            BY <2>1 DEF CidRequests
        <3>2. DOMAIN issuer = IssuerFields /\ issuer.retire \in Nat /\ issuer.expiring \in Seq(Nat)
            BY DEF IdsInv, CidType
        <3>3. /\ DOMAIN issuer' = IssuerFields /\ issuer'.retire = issuer.retire
              /\ issuer'.expiring = issuer.expiring /\ issuer'.active = issuer.active \ {f.seq}
            BY <2>3, <3>2 DEF IssuerFields
        <3>4. requests' = Append(requests, r)
            BY <2>3
        <3> HIDE DEF r
        <3>5. UNCHANGED <<loc_cids, cids_issued, answers, new_cids, user, retire_cids>>
            BY <1>1, <1>3
        <3>6. r.type = "RetireConnectionId" /\ r.seq < user.offset /\ issuer'.active = issuer.active \ {r.seq}
            BY <2>1, <3>1, <3>3
        <3> QED
            BY <1>1, <3>1, <3>2, <3>3, <3>4, <3>5, <3>6, RequestStep
    <2> QED
        BY <1>3, <2>2, <2>3 DEF ReceiveRetire
<1> QED
    BY <1>2, <1>3 DEF DeliverCid

\* Every step of the issuer, its endpoint, the user and the network keeps the
\* invariant.
LEMMA IdsNextInv == IdsInv /\ [CidNext]_cidVars => IdsInv'
<1> SUFFICES ASSUME IdsInv, [CidNext]_cidVars
             PROVE  IdsInv'
    OBVIOUS
<1>1. CASE EndpointEvent
    BY <1>1, EndpointEventStep
<1>2. CASE TakeIdentifiers
    BY <1>2, TakeIdentifiersStep
<1>3. CASE CidTimeout
    BY <1>3, CidTimeoutStep
<1>4. ASSUME NEW seq \in 0 .. MaxCid, TransmitNew(seq) \/ TransmitRetire(seq)
      PROVE  IdsInv'
    <2>1. seq \in Nat
        BY CidConstants, <1>4
    <2> QED
        BY <1>4, <2>1, TransmitStep
<1>5. CASE Migrate
    BY <1>5, MigrateStepIds
<1>6. ASSUME NEW f \in cid_sent, NEW late \in BOOLEAN, LoseCid(f, late)
      PROVE  IdsInv'
    BY <1>6, LoseStep
<1>7. ASSUME NEW f \in cid_net, DeliverCid(f)
      PROVE  IdsInv'
    BY <1>7, DeliverIdStep
<1>8. CASE UNCHANGED cidVars
    <2>1. UNCHANGED <<issuer, loc_cids, cids_issued, requests, answers, new_cids, user, retire_cids, cid_sent, cid_net>>
        BY <1>8 DEF cidVars
    <2> QED
        BY <2>1 DEF IdsInv, CidType, HasMax, UserInv, RetireInv, TakenInv, Taken, AgreeInv
<1> QED
    BY <1>1, <1>2, <1>3, <1>4, <1>5, <1>6, <1>7, <1>8 DEF CidNext

\* The id the user puts on its packets routes to the connection, and the tables of
\* the connection and its endpoint agree up to the events between them, for every
\* length of the queue, with or without lifetimes, over any number of losses,
\* migrations and retirements.
THEOREM IdsCorrect == CidSpec => []IdsRoute
<1>1. IdsInv => IdsRoute
    <2> SUFFICES ASSUME IdsInv
                 PROVE  IdsRoute
        OBVIOUS
    <2>1. ActiveIdRoutes
        <3>1. user.offset \in user.known /\ Taken(user.offset)
            BY DEF IdsInv, UserInv, TakenInv
        <3>2. user.offset \in Nat /\ user.offset < cids_issued /\ user.offset <= user.offset
            BY <3>1 DEF Taken
        <3>3. user.offset \in loc_cids
            BY <3>2 DEF IdsInv, UserInv
        <3> QED
            BY <3>1, <3>3 DEF ActiveIdRoutes
    <2>2. IdTablesAgree
        <3> DEFINE asked == {j \in DOMAIN requests :
                               requests[j].type = "RetireConnectionId" /\ requests[j].seq \in loc_cids}
                   given == UNION {answers[k] : k \in DOMAIN answers}
                   retiring == {requests[k].seq : k \in asked}
                   table == issuer.active \cup given \cup retiring
        <3> HIDE DEF asked
        <3>a. \A s : s \in given <=> \E k \in DOMAIN answers : s \in answers[k]
            OBVIOUS
        <3>b. \A s : s \in retiring <=> \E k \in asked : s = requests[k].seq
            OBVIOUS
        <3> HIDE DEF given, retiring
        <3>1. ASSUME NEW s \in table
              PROVE  s \in loc_cids
            <4>1. CASE s \in issuer.active
                BY <4>1 DEF IdsInv, AgreeInv
            <4>2. ASSUME NEW k \in DOMAIN answers, s \in answers[k]
                  PROVE  s \in loc_cids
                BY <4>2 DEF IdsInv, AgreeInv
            <4>3. ASSUME NEW k \in asked, s = requests[k].seq
                  PROVE  s \in loc_cids
                BY <4>3 DEF asked
            <4> QED
                BY <3>1, <3>a, <3>b, <4>1, <4>2, <4>3
        <3>2. ASSUME NEW s \in loc_cids
              PROVE  s \in table
            <4>1. CASE s \in issuer.active
                BY <4>1
            <4>2. ASSUME NEW k \in DOMAIN answers, s \in answers[k]
                  PROVE  s \in table
                BY <3>a, <4>2
            <4>3. ASSUME NEW k \in DOMAIN requests, requests[k].type = "RetireConnectionId", requests[k].seq = s
                  PROVE  s \in table
                <5>1. k \in asked
                    BY <3>2, <4>3 DEF asked
                <5> QED
                    BY <3>b, <4>3, <5>1
            <4> QED
                BY <3>2, <4>1, <4>2, <4>3 DEF IdsInv, AgreeInv
        <3>3. loc_cids = table
            BY <3>1, <3>2
        <3> QED
            BY <3>3 DEF IdTablesAgree, asked, given, retiring
    <2> QED
        BY <2>1, <2>2 DEF IdsRoute
<1> QED
    BY <1>1, IdsInitInv, IdsNextInv, PTL DEF CidSpec

-----------------------------------------------------------------------------
(* Connection ids without lifetimes: the limit *)

CidSetting == [lifetime : BOOLEAN, server : BOOLEAN, losses : Nat, migrations : Nat]

\* The connection has been given the ids below issued: what the user may hear of is
\* among them, and the answers on their way number on from there without a gap.
HeardBelow(n) ==
    /\ \A s \in new_cids : s < n
    /\ \A f \in cid_sent \cup cid_net : f.type = "NEW" => f.seq < n
    /\ \A s \in user.known : s < n

Numbers(ends) ==
    /\ ends[0] = issuer.issued /\ ends[Len(answers)] = cids_issued
    /\ \A k \in 1 .. Len(answers) : ends[k - 1] <= ends[k] /\ answers[k] = ends[k - 1] .. ends[k] - 1

NumberedInv ==
    /\ issuer.issued \in Nat /\ HeardBelow(issuer.issued)
    /\ \E ends \in [0 .. Len(answers) -> Nat] : Numbers(ends)

\* Nothing is retired by the issuer; the endpoint's table starts with the ids asked for
\* first and from then on gains one for each that leaves.
RoomInv ==
    /\ issuer.timer = FALSE /\ issuer.expiring = <<>> /\ issuer.retire = 0
    /\ \A f \in cid_sent \cup cid_net : f.type = "NEW" => f.retire = 0
    /\ IsFiniteSet(loc_cids) /\ Cardinality(loc_cids) <= QueueLen
    /\ \A k \in DOMAIN requests : requests[k].type = "NeedIdentifiers" =>
         k = 1 /\ requests[k].count = QueueLen - 1 /\ loc_cids = {0}
    /\ cid_failure = "none"

LimitInv == IdsInv /\ NumberedInv /\ cid_setting \in CidSetting /\ (~cid_setting.lifetime => RoomInv)

\* The invariant holds of the initial states.
LEMMA LimitInitInv == CidInit => LimitInv
<1> SUFFICES ASSUME CidInit
             PROVE  LimitInv
    OBVIOUS
<1>1. IdsInv
    BY IdsInitInv
<1>2. cid_setting \in CidSetting
    BY CidConstants DEF CidInit, CidSetting
<1>3. NumberedInv
    <2> DEFINE ends == [k \in 0 .. 0 |-> 1]
    <2>1. Len(answers) = 0 /\ issuer.issued = 1 /\ cids_issued = 1
        BY DEF CidInit
    <2>2. ends \in [0 .. Len(answers) -> Nat] /\ Numbers(ends)
        BY <2>1 DEF Numbers
    <2>3. HeardBelow(1)
        BY DEF HeardBelow, CidInit
    <2> HIDE DEF ends
    <2> QED
        BY <2>1, <2>2, <2>3 DEF NumberedInv
<1>4. ASSUME ~cid_setting.lifetime
      PROVE  RoomInv
    <2>1. issuer.timer = FALSE /\ issuer.expiring = <<>> /\ issuer.retire = 0
        BY <1>4 DEF CidInit
    <2>2. IsFiniteSet(loc_cids) /\ Cardinality(loc_cids) = 1
        BY FS_Singleton DEF CidInit
    <2>3. DOMAIN requests = {1} /\ requests[1].count = QueueLen - 1 /\ loc_cids = {0}
        BY DEF CidInit, FirstCids
    <2>4. Cardinality(loc_cids) <= QueueLen
        BY <2>2, CidConstants
    <2>5. (\A f \in cid_sent \cup cid_net : f.type = "NEW" => f.retire = 0) /\ cid_failure = "none"
        BY DEF CidInit
    <2> QED
        BY <2>1, <2>2, <2>3, <2>4, <2>5 DEF RoomInv
<1> QED
    BY <1>1, <1>2, <1>3, <1>4 DEF LimitInv

\* The endpoint answers a request: the numbering goes on, and the table grows by no more
\* than the first request asks for.
LEMMA LimitEndpointEvent ==
    ASSUME LimitInv, EndpointEvent, UNCHANGED <<cid_failure, cid_setting>>
    PROVE  LimitInv'
<1> DEFINE e == Head(requests)
<1>1. IdsInv'
    BY EndpointEventStep DEF LimitInv
<1>2. /\ requests # <<>> /\ requests' = Tail(requests)
      /\ UNCHANGED <<issuer, new_cids, user, retire_cids, cid_sent, cid_net>>
    BY DEF EndpointEvent, cidFrames
<1>3. cids_issued \in Nat /\ answers \in Seq(SUBSET Nat) /\ requests \in Seq(CidRequests) /\ issuer.issued \in Nat
    BY DEF LimitInv, IdsInv, CidType, NumberedInv
<1>4. /\ e = requests[1] /\ 1 \in DOMAIN requests /\ e \in CidRequests
      /\ \A k \in DOMAIN requests' : k + 1 \in DOMAIN requests /\ requests'[k] = requests[k + 1] /\ k + 1 # 1
    BY <1>2, <1>3
<1> HIDE DEF e
<1>5. PICK n \in Nat : \/ answers' = Append(answers, NewIds(n)) /\ cids_issued' = cids_issued + n
                       \/ answers' = answers /\ cids_issued' = cids_issued
    <2>1. CASE e.type = "NeedIdentifiers"
        <3>1. Issue(e.count) /\ e.count \in Nat
            BY <1>4, <2>1 DEF EndpointEvent, CidRequests, e
        <3> QED
            BY <3>1 DEF Issue
    <2>2. CASE e.type = "RetireConnectionId"
        <3>1. \/ answers' = Append(answers, NewIds(1)) /\ cids_issued' = cids_issued + 1
              \/ answers' = answers /\ cids_issued' = cids_issued
            BY <2>2 DEF EndpointEvent, e
        <3> QED
            BY <3>1
    <2> QED
        BY <2>1, <2>2 DEF EndpointEvent, e
<1>6. NumberedInv'
    <2>1. HeardBelow(issuer.issued)' /\ issuer'.issued \in Nat
        BY <1>2, <1>3 DEF LimitInv, NumberedInv, HeardBelow
    <2>2. PICK ends \in [0 .. Len(answers) -> Nat] : Numbers(ends)
        BY DEF LimitInv, NumberedInv
    <2>3. CASE answers' = answers /\ cids_issued' = cids_issued
        BY <1>2, <2>1, <2>2, <2>3 DEF NumberedInv, Numbers
    <2>4. CASE answers' = Append(answers, NewIds(n)) /\ cids_issued' = cids_issued + n
        <3> DEFINE len == Len(answers)
        <3>1. len \in Nat /\ NewIds(n) = cids_issued .. (cids_issued + n) - 1 /\ NewIds(n) \in SUBSET Nat
            BY <1>3 DEF NewIds
        <3>2. Len(answers') = len + 1 /\ \A k \in 1 .. len + 1 : answers'[k] = IF k <= len THEN answers[k] ELSE NewIds(n)
            BY <1>3, <2>4, <3>1
        <3>3. PICK more \in [0 .. len + 1 -> Nat] :
                more = [k \in 0 .. len + 1 |-> IF k <= len THEN ends[k] ELSE cids_issued + n]
            <4> DEFINE next == [k \in 0 .. len + 1 |-> IF k <= len THEN ends[k] ELSE cids_issued + n]
            <4>1. next \in [0 .. len + 1 -> Nat]
                BY <1>3, <2>2, <3>1
            <4> QED
                BY <4>1
        <3>4. more[0] = issuer.issued /\ more[len + 1] = cids_issued + n /\ more[len] = cids_issued
              /\ \A k \in 0 .. len : more[k] = ends[k]
            BY <2>2, <3>1, <3>3 DEF Numbers
        <3>5. ASSUME NEW k \in 1 .. len + 1
              PROVE  more[k - 1] <= more[k] /\ answers'[k] = more[k - 1] .. more[k] - 1
            <4>1. CASE k <= len
                <5>1. k \in 1 .. len /\ k - 1 \in 0 .. len /\ k \in 0 .. len
                    BY <3>1, <4>1
                <5>2. ends[k - 1] <= ends[k] /\ answers[k] = ends[k - 1] .. ends[k] - 1
                    BY <2>2, <5>1 DEF Numbers
                <5> QED
                    BY <3>2, <3>4, <4>1, <5>1, <5>2
            <4>2. CASE ~(k <= len)
                <5>1. k = len + 1 /\ k - 1 = len
                    BY <3>1, <4>2
                <5> QED
                    BY <1>3, <3>1, <3>2, <3>4, <5>1
            <4> QED
                BY <4>1, <4>2
        <3>6. Numbers(more)'
            BY <1>2, <2>4, <3>2, <3>4, <3>5 DEF Numbers
        <3> QED
            BY <2>1, <3>2, <3>3, <3>6 DEF NumberedInv
    <2> QED
        BY <1>5, <2>3, <2>4
<1>7. ASSUME ~cid_setting.lifetime
      PROVE  RoomInv'
    <2>1. RoomInv
        BY <1>7 DEF LimitInv
    <2>2. IsFiniteSet(loc_cids) /\ Cardinality(loc_cids) \in Nat /\ Cardinality(loc_cids) <= QueueLen
        BY <2>1, FS_CardinalityType DEF RoomInv
    <2>3. IsFiniteSet(loc_cids)' /\ Cardinality(loc_cids') <= QueueLen
        <3>1. CASE e.type = "NeedIdentifiers"
            <4> DEFINE new == NewIds(QueueLen - 1)
            <4>1. e.count = QueueLen - 1 /\ loc_cids = {0}
                BY <1>4, <2>1, <3>1 DEF RoomInv
            <4>2. loc_cids' = {0} \cup new
                BY <3>1, <4>1 DEF EndpointEvent, Issue, e
            <4>3. IsFiniteSet(new) /\ Cardinality(new) = QueueLen - 1
                <5>1. PICK a \in Int, b \in Int : new = a .. b /\ a = cids_issued /\ b = cids_issued + (QueueLen - 1) - 1
                    BY <1>3, CidConstants DEF NewIds
                <5>2. IsFiniteSet(a .. b) /\ Cardinality(a .. b) = IF a > b THEN 0 ELSE b - a + 1
                    BY FS_Interval
                <5> QED
                    BY <1>3, <5>1, <5>2, CidConstants
            <4> HIDE DEF new
            <4>4. new \cup {0} = {0} \cup new
                OBVIOUS
            <4>5. IsFiniteSet(new \cup {0}) /\ Cardinality(new \cup {0}) \in {QueueLen - 1, QueueLen}
                <5>1. IsFiniteSet(new \cup {0})
                    BY <4>3, FS_AddElement
                <5>2. Cardinality(new \cup {0}) = IF 0 \in new THEN Cardinality(new) ELSE Cardinality(new) + 1
                    BY <4>3, FS_AddElement
                <5> QED
                    BY <4>3, <5>1, <5>2, CidConstants
            <4> QED
                BY <4>2, <4>4, <4>5, CidConstants
        <3>2. CASE e.type = "RetireConnectionId"
            <4> DEFINE rest == loc_cids \ {e.seq}
            <4>1. /\ IsFiniteSet(rest)
                  /\ Cardinality(rest) = IF e.seq \in loc_cids THEN Cardinality(loc_cids) - 1 ELSE Cardinality(loc_cids)
                BY <2>2, FS_RemoveElement
            <4>2. \/ e.seq \in loc_cids /\ loc_cids' = rest \cup {cids_issued}
                  \/ loc_cids' = rest
                <5>1. NewIds(1) = {cids_issued}
                    BY <1>3 DEF NewIds
                <5> QED
                    BY <3>2, <5>1 DEF EndpointEvent, Forgotten, e
            <4> HIDE DEF rest
            <4>3. Cardinality(rest) \in Nat
                BY <4>1, FS_CardinalityType
            <4>4. CASE loc_cids' = rest
                BY <2>2, <4>1, <4>3, <4>4, CidConstants
            <4>5. CASE e.seq \in loc_cids /\ loc_cids' = rest \cup {cids_issued}
                <5>1. IsFiniteSet(rest \cup {cids_issued})
                    BY <4>1, FS_AddElement
                <5>2. Cardinality(rest \cup {cids_issued}) = IF cids_issued \in rest THEN Cardinality(rest) ELSE Cardinality(rest) + 1
                    BY <4>1, FS_AddElement
                <5> QED
                    BY <2>2, <4>1, <4>3, <4>5, <5>1, <5>2, CidConstants
            <4> QED
                BY <4>2, <4>4, <4>5
        <3> QED
            BY <3>1, <3>2 DEF EndpointEvent, e
    <2>4. \A k \in DOMAIN requests' : requests'[k].type # "NeedIdentifiers"
        BY <1>4, <2>1 DEF RoomInv
    <2> QED
        BY <1>2, <2>1, <2>3, <2>4 DEF RoomInv
<1> QED
    BY <1>1, <1>6, <1>7 DEF LimitInv

\* The connection takes an answer: it has been given the ids up to the end of it.
LEMMA LimitTakeIdentifiers ==
    ASSUME LimitInv, TakeIdentifiers, UNCHANGED <<cid_failure, cid_setting>>
    PROVE  LimitInv'
<1> DEFINE ids == Head(answers)
           expiring == IF ids = {} \/ ~cid_setting.lifetime THEN issuer.expiring ELSE Append(issuer.expiring, Max(ids))
<1>1. IdsInv'
    BY TakeIdentifiersStep DEF LimitInv
<1>2. answers \in Seq(SUBSET Nat) /\ answers # <<>> /\ answers' = Tail(answers)
      /\ DOMAIN issuer = IssuerFields /\ issuer.issued \in Nat /\ HeardBelow(issuer.issued)
    BY DEF LimitInv, IdsInv, CidType, NumberedInv, TakeIdentifiers
<1>3. /\ Len(answers) \in Nat \ {0} /\ Len(answers') = Len(answers) - 1 /\ ids = answers[1]
      /\ \A k \in 1 .. Len(answers) - 1 : answers'[k] = answers[k + 1]
    BY <1>2
<1>4. UNCHANGED <<loc_cids, cids_issued, requests, user, retire_cids, cid_sent, cid_net>> /\ new_cids' = new_cids \cup ids
    BY DEF TakeIdentifiers, cidFrames
<1>5. issuer' = [issuer EXCEPT !.issued = @ + Cardinality(ids), !.active = @ \cup ids,
                               !.expiring = expiring, !.timer = @ \/ expiring # <<>>]
    BY DEF TakeIdentifiers
<1> HIDE DEF ids, expiring
<1>6. /\ issuer'.issued = issuer.issued + Cardinality(ids) /\ issuer'.retire = issuer.retire
      /\ issuer'.expiring = expiring /\ issuer'.timer = (issuer.timer \/ expiring # <<>>)
    BY <1>2, <1>5 DEF IssuerFields
<1>7. PICK ends \in [0 .. Len(answers) -> Nat] : Numbers(ends)
    BY DEF LimitInv, NumberedInv
<1>8. ids = issuer.issued .. ends[1] - 1 /\ issuer'.issued = ends[1] /\ issuer.issued <= ends[1] /\ ends[1] \in Nat
    <2>1. 1 \in 1 .. Len(answers) /\ 1 - 1 = 0
        BY <1>3
    <2>2. ids = ends[0] .. ends[1] - 1 /\ ends[0] <= ends[1] /\ ends[1] \in Nat /\ ends[0] = issuer.issued
        <3>1. ends[1 - 1] <= ends[1] /\ answers[1] = ends[1 - 1] .. ends[1] - 1 /\ ends[0] = issuer.issued
            BY <1>7, <2>1 DEF Numbers
        <3>2. ends[1] \in Nat
            BY <1>3
        <3> QED
            BY <1>3, <2>1, <3>1, <3>2
    <2>3. PICK a \in Int, b \in Int : ids = a .. b /\ a = issuer.issued /\ b = ends[1] - 1
        BY <1>2, <2>2
    <2>4. Cardinality(a .. b) = IF a > b THEN 0 ELSE b - a + 1
        BY FS_Interval
    <2>5. Cardinality(ids) = IF a > b THEN 0 ELSE b - a + 1
        BY <2>3, <2>4
    <2>6. Cardinality(ids) = ends[1] - issuer.issued
        <3>1. issuer.issued \in Nat /\ issuer.issued <= ends[1] /\ ends[1] \in Nat /\ a = issuer.issued /\ b = ends[1] - 1
            BY <1>2, <2>2, <2>3
        <3>2. (IF a > b THEN 0 ELSE b - a + 1) = ends[1] - issuer.issued
            BY <3>1
        <3> QED
            BY <2>5, <3>2
    <2>7. issuer'.issued = ends[1]
        BY <1>2, <1>6, <2>2, <2>6
    <2> QED
        BY <2>2, <2>7
<1>9. NumberedInv'
    <2>1. HeardBelow(ends[1])'
        <3>1. \A s \in ids : s < ends[1]
            BY <1>2, <1>8
        <3>2. /\ \A s \in new_cids : s \in Nat
              /\ \A f \in cid_sent \cup cid_net : f.type = "NEW" => f.seq \in Nat
              /\ \A s \in user.known : s \in Nat
            BY DEF LimitInv, IdsInv, TakenInv, Taken
        <3>3. \A s \in Nat : s < issuer.issued => s < ends[1]
            BY <1>2, <1>8
        <3> QED
            BY <1>2, <1>4, <3>1, <3>2, <3>3 DEF HeardBelow
    <2>2. HeardBelow(issuer.issued)'
        BY <1>8, <2>1
    <2> DEFINE len == Len(answers)
    <2>3. PICK rest \in [0 .. len - 1 -> Nat] : rest = [k \in 0 .. len - 1 |-> ends[k + 1]]
        <3> DEFINE next == [k \in 0 .. len - 1 |-> ends[k + 1]]
        <3>1. next \in [0 .. len - 1 -> Nat]
            BY <1>3
        <3> QED
            BY <3>1
    <2>4. rest[0] = issuer'.issued /\ rest[len - 1] = cids_issued
        <3>1. 0 \in 0 .. len - 1 /\ len - 1 \in 0 .. len - 1 /\ len - 1 + 1 = len /\ 0 + 1 = 1
            BY <1>3
        <3> QED
            BY <1>7, <1>8, <2>3, <3>1 DEF Numbers
    <2>5. ASSUME NEW k \in 1 .. len - 1
          PROVE  rest[k - 1] <= rest[k] /\ answers'[k] = rest[k - 1] .. rest[k] - 1
        <3>1. k - 1 \in 0 .. len - 1 /\ k \in 0 .. len - 1 /\ k + 1 \in 1 .. len /\ k - 1 + 1 = k /\ k + 1 - 1 = k
            BY <1>3
        <3>2. rest[k - 1] = ends[k] /\ rest[k] = ends[k + 1]
            BY <2>3, <3>1
        <3>3. ends[k + 1 - 1] <= ends[k + 1] /\ answers[k + 1] = ends[k + 1 - 1] .. ends[k + 1] - 1
            BY <1>7, <3>1 DEF Numbers
        <3> QED
            BY <1>3, <3>1, <3>2, <3>3
    <2>6. Numbers(rest)'
        BY <1>3, <1>4, <2>4, <2>5 DEF Numbers
    <2> QED
        BY <1>3, <1>8, <2>2, <2>6 DEF NumberedInv
<1>10. ASSUME ~cid_setting.lifetime
       PROVE  RoomInv'
    <2>1. RoomInv /\ expiring = <<>>
        BY <1>10 DEF LimitInv, RoomInv, expiring
    <2>2. issuer'.timer = FALSE /\ issuer'.expiring = <<>> /\ issuer'.retire = 0
        BY <1>6, <2>1 DEF RoomInv
    <2> QED
        BY <1>4, <2>1, <2>2 DEF RoomInv
<1> QED
    BY <1>1, <1>9, <1>10 DEF LimitInv

\* Without lifetimes no id is asked to be retired.
LEMMA LimitTimeout ==
    ASSUME LimitInv, CidTimeout, UNCHANGED <<cid_failure, cid_setting>>
    PROVE  LimitInv'
<1>1. IdsInv'
    BY CidTimeoutStep DEF LimitInv
<1>2. UNCHANGED <<cids_issued, answers, new_cids, user, cid_sent, cid_net>> /\ issuer'.issued = issuer.issued /\ issuer.timer
    BY DEF CidTimeout, cidFrames, LimitInv, IdsInv, CidType, IssuerFields
<1>3. NumberedInv'
    BY <1>2 DEF LimitInv, NumberedInv, Numbers, HeardBelow
<1>4. cid_setting.lifetime
    BY <1>2 DEF LimitInv, RoomInv
<1> QED
    BY <1>1, <1>3, <1>4 DEF LimitInv

\* Frames are sent, lost and queued again.
LEMMA LimitFrames ==
    ASSUME LimitInv, IdsInv', cid_setting' \in CidSetting, cid_setting'.lifetime = cid_setting.lifetime,
           UNCHANGED <<issuer, loc_cids, cids_issued, requests, answers, user, cid_failure>>,
           \A s \in new_cids' : s < issuer.issued,
           \A f \in cid_sent' \cup cid_net' : f.type = "NEW" =>
              f.seq < issuer.issued /\ (f.retire = issuer.retire \/ f \in cid_sent \cup cid_net)
    PROVE  LimitInv'
<1>1. NumberedInv'
    BY DEF LimitInv, NumberedInv, Numbers, HeardBelow
<1>2. ASSUME ~cid_setting.lifetime
      PROVE  RoomInv'
    BY <1>2 DEF LimitInv, RoomInv
<1> QED
    BY <1>1, <1>2 DEF LimitInv

\* A frame says what was queued.
LEMMA LimitTransmit ==
    ASSUME LimitInv, NEW seq \in Nat, TransmitNew(seq) \/ TransmitRetire(seq), UNCHANGED <<cid_failure, cid_setting>>
    PROVE  LimitInv'
<1>1. IdsInv'
    BY TransmitStep DEF LimitInv
<1>2. cid_setting' \in CidSetting /\ cid_setting'.lifetime = cid_setting.lifetime
    BY DEF LimitInv
<1>3. HeardBelow(issuer.issued)
    BY DEF LimitInv, NumberedInv
<1>4. CASE TransmitNew(seq)
    <2> DEFINE f == [type |-> "NEW", seq |-> seq, retire |-> issuer.retire]
    <2>1. f.seq = seq /\ f.retire = issuer.retire
        OBVIOUS
    <2>2. /\ cid_sent' = cid_sent \cup {f} /\ cid_net' = cid_net \cup {f} /\ seq \in new_cids
          /\ new_cids' \subseteq new_cids
          /\ UNCHANGED <<issuer, loc_cids, cids_issued, requests, answers, user>>
        BY <1>4 DEF TransmitNew, EmitCid
    <2> HIDE DEF f
    <2>3. \A g \in cid_sent' \cup cid_net' : g.type = "NEW" =>
            g.seq < issuer.issued /\ (g.retire = issuer.retire \/ g \in cid_sent \cup cid_net)
        BY <1>3, <2>1, <2>2 DEF HeardBelow
    <2>4. \A s \in new_cids' : s < issuer.issued
        BY <1>3, <2>2 DEF HeardBelow
    <2> QED
        BY <1>1, <1>2, <2>2, <2>3, <2>4, LimitFrames
<1>5. CASE TransmitRetire(seq)
    <2> DEFINE f == [type |-> "RETIRE", seq |-> seq]
    <2>1. f.type # "NEW"
        OBVIOUS
    <2>2. /\ cid_sent' = cid_sent \cup {f} /\ cid_net' = cid_net \cup {f}
          /\ UNCHANGED <<issuer, loc_cids, cids_issued, requests, answers, user, new_cids>>
        BY <1>5 DEF TransmitRetire, EmitCid
    <2> HIDE DEF f
    <2>3. \A g \in cid_sent' \cup cid_net' : g.type = "NEW" =>
            g.seq < issuer.issued /\ (g.retire = issuer.retire \/ g \in cid_sent \cup cid_net)
        BY <1>3, <2>1, <2>2 DEF HeardBelow
    <2>4. \A s \in new_cids' : s < issuer.issued
        BY <1>3, <2>2 DEF HeardBelow
    <2> QED
        BY <1>1, <1>2, <2>2, <2>3, <2>4, LimitFrames
<1> QED
    BY <1>4, <1>5

\* A lost frame is queued again.
LEMMA LimitLose ==
    ASSUME LimitInv, NEW f \in cid_sent, NEW late \in BOOLEAN, LoseCid(f, late), UNCHANGED cid_failure
    PROVE  LimitInv'
<1>1. IdsInv'
    BY LoseStep DEF LimitInv
<1>2. cid_setting \in CidSetting /\ cid_setting.losses > 0 /\ cid_setting' = [cid_setting EXCEPT !.losses = @ - 1]
    BY DEF LimitInv, LoseCid
<1>3. cid_setting' \in CidSetting /\ cid_setting'.lifetime = cid_setting.lifetime
    BY <1>2 DEF CidSetting
<1>4. HeardBelow(issuer.issued)
    BY DEF LimitInv, NumberedInv
<1>5. /\ cid_sent' \subseteq cid_sent /\ cid_net' \subseteq cid_net
      /\ \A s \in new_cids' : s \in new_cids \/ (f.type = "NEW" /\ s = f.seq)
      /\ UNCHANGED <<issuer, loc_cids, cids_issued, requests, answers, user>>
    BY DEF LoseCid
<1>6. \A g \in cid_sent' \cup cid_net' : g.type = "NEW" =>
        g.seq < issuer.issued /\ (g.retire = issuer.retire \/ g \in cid_sent \cup cid_net)
    BY <1>4, <1>5 DEF HeardBelow
<1>7. \A s \in new_cids' : s < issuer.issued
    BY <1>4, <1>5 DEF HeardBelow
<1> QED
    BY <1>1, <1>3, <1>5, <1>6, <1>7, LimitFrames

\* The user moves on among the ids it has heard of.
LEMMA LimitUser ==
    ASSUME LimitInv, IdsInv', cid_setting' \in CidSetting, cid_setting'.lifetime = cid_setting.lifetime,
           UNCHANGED <<issuer, loc_cids, cids_issued, requests, answers, new_cids>>,
           cid_sent' \subseteq cid_sent, cid_net' \subseteq cid_net,
           \A s \in user'.known : s < issuer.issued,
           ~cid_setting.lifetime => cid_failure' = "none"
    PROVE  LimitInv'
<1>1. NumberedInv'
    BY DEF LimitInv, NumberedInv, Numbers, HeardBelow
<1>2. ASSUME ~cid_setting.lifetime
      PROVE  RoomInv'
    BY <1>2 DEF LimitInv, RoomInv
<1> QED
    BY <1>1, <1>2 DEF LimitInv

\* A migration.
LEMMA LimitMigrate ==
    ASSUME LimitInv, Migrate, UNCHANGED cid_failure
    PROVE  LimitInv'
<1>1. IdsInv'
    BY MigrateStepIds DEF LimitInv
<1>2. cid_setting \in CidSetting /\ cid_setting.migrations > 0 /\ cid_setting' = [cid_setting EXCEPT !.migrations = @ - 1]
    BY DEF LimitInv, Migrate
<1>3. cid_setting' \in CidSetting /\ cid_setting'.lifetime = cid_setting.lifetime
    BY <1>2 DEF CidSetting
<1>4. /\ user' = Switched(user) /\ cid_sent' \subseteq cid_sent /\ cid_net' \subseteq cid_net
      /\ UNCHANGED <<issuer, loc_cids, cids_issued, requests, answers, new_cids>>
    BY DEF Migrate, cidFrames
<1>5. \A s \in user'.known : s < issuer.issued
    BY <1>4 DEF Switched, LimitInv, NumberedInv, HeardBelow
<1>6. ~cid_setting.lifetime => cid_failure' = "none"
    BY DEF LimitInv, RoomInv
<1> QED
    BY <1>1, <1>3, <1>4, <1>5, <1>6, LimitUser

\* The ids from the user's active one on are all in the endpoint's table: there are no
\* more of them than the queue takes.
LEMMA RoomInQueue ==
    ASSUME LimitInv, ~cid_setting.lifetime
    PROVE  cids_issued <= user.offset + QueueLen
<1>1. user.offset \in Nat /\ cids_issued \in Nat /\ \A s \in Nat : user.offset <= s /\ s < cids_issued => s \in loc_cids
    BY DEF LimitInv, IdsInv, UserInv, CidType
<1>2. IsFiniteSet(loc_cids) /\ Cardinality(loc_cids) <= QueueLen
    BY DEF LimitInv, RoomInv
<1>3. user.offset .. cids_issued - 1 \subseteq loc_cids
    BY <1>1
<1>4. PICK a \in Int, b \in Int : a = user.offset /\ b = cids_issued - 1
    BY <1>1
<1>5. Cardinality(a .. b) = IF a > b THEN 0 ELSE b - a + 1
    BY FS_Interval
<1>6. Cardinality(a .. b) <= Cardinality(loc_cids) /\ Cardinality(loc_cids) \in Nat
    BY <1>2, <1>3, <1>4, FS_Subset, FS_CardinalityType
<1> QED
    BY <1>1, <1>2, <1>4, <1>5, <1>6, CidConstants

\* CidQueue::insert finds room for every id it is told of.
LEMMA LimitReceiveNew ==
    ASSUME LimitInv, NEW f \in cid_net, DeliverCid(f), f.type = "NEW", cid_failure = "none", UNCHANGED cid_setting
    PROVE  LimitInv'
<1> DEFINE retired == IF f.retire > user.offset THEN f.retire - user.offset ELSE 0
           base == IF f.retire > user.offset THEN f.retire ELSE user.offset
           known == {s \in user.known : s >= base} \cup {f.seq}
           offset == IF retired = 0 THEN user.offset ELSE Min(known)
           u == [known |-> known, offset |-> offset]
           switch == cid_setting.server /\ offset = 0 /\ CanSwitch(u)
<1>1. IdsInv'
    BY DeliverIdStep DEF LimitInv
<1>2. /\ cid_sent' \subseteq cid_sent /\ cid_net' \subseteq cid_net
      /\ UNCHANGED <<loc_cids, cids_issued, answers, new_cids, issuer, requests>> /\ ReceiveNew(f)
    BY DEF DeliverCid
<1>3. f \in CidFrames /\ f.seq \in Nat /\ f.retire \in Nat /\ user.offset \in Nat
    BY DEF LimitInv, IdsInv, CidType, CidFrames, UserInv
<1>4. \A s \in user'.known : s < issuer.issued
    <2>1. f.seq < issuer.issued /\ \A s \in user.known : s < issuer.issued
        BY DEF LimitInv, NumberedInv, HeardBelow
    <2>2. \A s \in known : s < issuer.issued
        BY <2>1
    <2>3. u.known = known /\ Switched(u).known \subseteq u.known
        BY DEF Switched
    <2> HIDE DEF known, offset, u
    <2>4. user' = user \/ user' = u \/ user' = Switched(u)
        BY <1>2 DEF ReceiveNew, known, offset, u
    <2> QED
        BY <2>1, <2>2, <2>3, <2>4
<1>5. ASSUME ~cid_setting.lifetime
      PROVE  cid_failure' = "none"
    <2>1. f.retire = 0 /\ cids_issued \in Nat /\ f.seq < cids_issued
        BY <1>5 DEF LimitInv, RoomInv, IdsInv, TakenInv, Taken, CidType
    <2>2. cids_issued <= user.offset + QueueLen
        BY <1>5, RoomInQueue
    <2>3. ~(f.retire > f.seq) /\ retired = 0 /\ ~(f.seq - user.offset >= QueueLen + 0)
        BY <1>3, <2>1, <2>2, CidConstants
    <2> HIDE DEF retired
    <2>4. ~(f.seq - user.offset >= QueueLen + retired)
        BY <2>3
    <2> QED
        BY <1>2, <2>3, <2>4 DEF ReceiveNew, retired
<1>6. cid_setting' \in CidSetting /\ cid_setting'.lifetime = cid_setting.lifetime
    BY DEF LimitInv
<1> QED
    BY <1>1, <1>2, <1>4, <1>5, <1>6, LimitUser

\* on_cid_retirement is told only of ids the connection has issued.
LEMMA LimitReceiveRetire ==
    ASSUME LimitInv, NEW f \in cid_net, DeliverCid(f), f.type = "RETIRE", cid_failure = "none", UNCHANGED cid_setting
    PROVE  LimitInv'
<1> DEFINE active == issuer.active \ {f.seq}
           r == [type |-> "RetireConnectionId", seq |-> f.seq, allow |-> QueueLen > Cardinality(active)]
<1>1. IdsInv'
    BY DeliverIdStep DEF LimitInv
<1>2. /\ cid_sent' \subseteq cid_sent /\ cid_net' \subseteq cid_net
      /\ UNCHANGED <<loc_cids, cids_issued, answers, new_cids, user, retire_cids>> /\ ReceiveRetire(f.seq)
    BY DEF DeliverCid
<1>3. f \in CidFrames /\ f.seq \in Nat /\ f.seq < user.offset /\ user.offset \in user.known /\ user.offset \in Nat
    BY DEF LimitInv, IdsInv, CidType, CidFrames, UserInv, RetireInv
<1>4. issuer.issued \in Nat /\ user.offset < issuer.issued
    BY <1>3 DEF LimitInv, NumberedInv, HeardBelow
<1>5. ~(f.seq > issuer.issued)
    BY <1>3, <1>4
<1>6. issuer' = [issuer EXCEPT !.active = active] /\ requests' = Append(requests, r) /\ cid_failure' = "none"
    BY <1>2, <1>5 DEF ReceiveRetire
<1>7. DOMAIN issuer = IssuerFields /\ requests \in Seq(CidRequests)
    BY DEF LimitInv, IdsInv, CidType
<1> HIDE DEF active
<1>8. issuer'.issued = issuer.issued /\ issuer'.timer = issuer.timer /\ issuer'.expiring = issuer.expiring
      /\ issuer'.retire = issuer.retire
    BY <1>6, <1>7 DEF IssuerFields
<1>9. NumberedInv'
    BY <1>2, <1>8 DEF LimitInv, NumberedInv, Numbers, HeardBelow
<1>10. r \in CidRequests /\ r.type # "NeedIdentifiers"
    BY <1>3 DEF CidRequests
<1> HIDE DEF r
<1>11. \A k \in DOMAIN requests' : (k \in DOMAIN requests /\ requests'[k] = requests[k]) \/ requests'[k] = r
    BY <1>6, <1>7, <1>10
<1>12. ASSUME ~cid_setting.lifetime
       PROVE  RoomInv'
    <2>1. RoomInv
        BY <1>12 DEF LimitInv
    <2>2. \A k \in DOMAIN requests' : requests'[k].type = "NeedIdentifiers" =>
            k = 1 /\ requests'[k].count = QueueLen - 1 /\ loc_cids' = {0}
        BY <1>2, <1>10, <1>11, <2>1 DEF RoomInv
    <2> QED
        BY <1>2, <1>6, <1>8, <2>1, <2>2 DEF RoomInv
<1> QED
    BY <1>1, <1>9, <1>12 DEF LimitInv

\* Every step of the issuer, its endpoint, the user and the network keeps the invariant.
LEMMA LimitNextInv == LimitInv /\ [CidNext]_cidVars => LimitInv'
<1> SUFFICES ASSUME LimitInv, [CidNext]_cidVars
             PROVE  LimitInv'
    OBVIOUS
<1>1. CASE CidNext
    <2>1. CASE (EndpointEvent \/ TakeIdentifiers \/ CidTimeout) /\ UNCHANGED <<cid_failure, cid_setting>>
        BY <2>1, LimitEndpointEvent, LimitTakeIdentifiers, LimitTimeout
    <2>2. ASSUME NEW seq \in 0 .. MaxCid, TransmitNew(seq) \/ TransmitRetire(seq), UNCHANGED <<cid_failure, cid_setting>>
          PROVE  LimitInv'
        <3>1. seq \in Nat
            BY CidConstants, <2>2
        <3> QED
            BY <2>2, <3>1, LimitTransmit
    <2>3. CASE Migrate /\ UNCHANGED cid_failure
        BY <2>3, LimitMigrate
    <2>4. ASSUME NEW f \in cid_sent, NEW late \in BOOLEAN, LoseCid(f, late), UNCHANGED cid_failure
          PROVE  LimitInv'
        BY <2>4, LimitLose
    <2>5. ASSUME NEW f \in cid_net, DeliverCid(f), UNCHANGED cid_setting, cid_failure = "none"
          PROVE  LimitInv'
        <3>1. f.type = "NEW" \/ f.type = "RETIRE"
            BY <2>5 DEF DeliverCid
        <3> QED
            BY <2>5, <3>1, LimitReceiveNew, LimitReceiveRetire
    <2> QED
        BY <1>1, <2>1, <2>2, <2>3, <2>4, <2>5 DEF CidNext
<1>2. CASE UNCHANGED cidVars
    <2>1. /\ UNCHANGED <<issuer, loc_cids, cids_issued, requests, answers, new_cids, user>>
          /\ UNCHANGED <<cid_sent, cid_net, cid_failure, cid_setting>> /\ IdsInv'
        BY <1>2, IdsNextInv DEF cidVars, LimitInv
    <2>2. /\ \A s \in new_cids' : s < issuer.issued
          /\ \A f \in cid_sent' \cup cid_net' : f.type = "NEW" =>
               f.seq < issuer.issued /\ (f.retire = issuer.retire \/ f \in cid_sent \cup cid_net)
        BY <2>1 DEF LimitInv, NumberedInv, HeardBelow
    <2>3. cid_setting' \in CidSetting /\ cid_setting'.lifetime = cid_setting.lifetime
        BY <2>1 DEF LimitInv
    <2> QED
        BY <2>1, <2>2, <2>3, LimitFrames
<1> QED
    BY <1>1, <1>2

\* Without lifetimes neither end finds the other in breach of the number of ids, for
\* every length of the queue and any number of losses, migrations and retirements.
THEOREM IdLimitKept == CidSpec => []LimitKept
<1>1. LimitInv => LimitKept
    BY DEF LimitInv, RoomInv, LimitKept
<1> QED
    BY <1>1, LimitInitInv, LimitNextInv, PTL DEF CidSpec

-----------------------------------------------------------------------------
(* The parts of a connection *)

\* Two ends that run this code never find each other in breach of the protocol, unless by
\* a reset that arrives again: with one end that initiates key updates, for any number and
\* length of streams, any windows, any number of key updates, ids and migrations, and any
\* loss, delay and reordering (StreamsState, Recv::ingest, decrypt_packet, CidQueue).
THEOREM NoPeerErrorHolds == ASSUME OneInitiator PROVE QuicSpec => []NoPeerError
<1> DEFINE Inv == StreamInv /\ NoStreamError /\ KeyInv /\ LimitInv
<1>1. QuicInit => Inv
    BY StreamInvInit, InitKeyInv, LimitInitInv DEF QuicInit
<1>2. Inv /\ [QuicNext]_quicVars => Inv'
    <2> SUFFICES ASSUME Inv, [QuicNext]_quicVars
                 PROVE  Inv'
        OBVIOUS
    <2>1. [StreamNext]_streamVars /\ [KeyNext]_keyVars /\ [CidNext]_cidVars
        BY DEF QuicNext, quicVars
    <2> QED
        BY <2>1, StreamInvStep, KeyNextInv, LimitNextInv
<1>3. Inv => NoPeerError
    BY DEF KeyInv, KeysOf, NoKeyUpdateError, LimitInv, RoomInv, LimitKept, NoPeerError
<1> QED
    BY <1>1, <1>2, <1>3, PTL DEF QuicSpec

-----------------------------------------------------------------------------
(* MTU discovery: the inductive invariant *)

MtuPhases == {"Initial", "Searching", "Complete"}
Bursts == [latest : Nat, smallest : Int]
Detectors == [bursts : SUBSET Bursts, burst : Bursts, post : Nat, acked : Int]
MtuRecords ==
    [current : Int, phase : MtuPhases, lower : Int, upper : Int, last : Int, probe : Nat, lost : Nat,
     detector : Detectors]
SentMtu(sent) ==
    /\ DOMAIN sent \subseteq 1 .. mtu_pn - 1
    /\ \A pn \in DOMAIN sent : sent[pn] \in [size : Int, fits : BOOLEAN]

MtuType ==
    /\ mtud \in MtuRecords
    /\ mtu_pn \in Nat \ {0}
    /\ SentMtu(mtu_sent)
    /\ mtu_acked \in Nat
    /\ path_mtu \in Nat /\ MinMtu <= path_mtu /\ path_since \in 1 .. mtu_pn
    /\ mtu_setting \in [minimum_change : Nat, peer_max : Nat, path : Nat, initial : Nat,
                        datagrams : Int, drops : Int, changes : Int, restarts : Int]
    /\ holes \in Nat /\ searched \in BOOLEAN

\* The probe in flight has the size that was probed last.
ProbeOk(m, sent) ==
    LET p == InFlightProbe(m) IN
    p # 0 => p \in DOMAIN sent /\ sent[p].size = m.last

\* A search brackets the MTU to be found, and what was probed last either was found to
\* fit, is under way or did not fit.
BracketOk(m) ==
    /\ Target <= m.upper /\ m.last <= m.upper
    /\ m.upper <= MtuUpperBound /\ m.upper <= mtu_setting.peer_max
    /\ m.probe = 0 /\ m.lost = 0 => m.last = m.current
    /\ m.probe # 0 \/ m.lost # 0 => m.lower = m.current
    /\ m.lost # 0 => path_mtu < m.last
SearchOk(m, sent) ==
    /\ m.current <= Target
    /\ \A pn \in DOMAIN sent : pn # InFlightProbe(m) => sent[pn].fits
    /\ m.phase \in {"Searching", "Complete"}
    /\ m.phase = "Complete" => Target - m.current < 2 * mtu_setting.minimum_change
    /\ m.phase = "Searching" => BracketOk(m)
    /\ InFlightProbe(m) # 0 => (sent[InFlightProbe(m)].fits <=> m.last <= path_mtu)

\* The bursts that are too big for the path are as many as the losses that count.
TooBig(bursts) == {b \in bursts : b.smallest > path_mtu}
DetectorOk(m, sent) ==
    /\ m.detector.burst = NoBurst
    /\ IsFiniteSet(m.detector.bursts) /\ Cardinality(m.detector.bursts) <= Threshold
    /\ \A b \in m.detector.bursts : b.latest \in 1 .. mtu_pn - 1 /\ b.latest \notin DOMAIN sent
    /\ m.detector.post < mtu_pn
    /\ m.detector.acked > path_mtu => m.detector.post < path_since
    /\ \A pn \in DOMAIN sent : pn >= path_since => (sent[pn].fits <=> sent[pn].size <= path_mtu)
SeenOk(m, seen) == seen <= Cardinality(TooBig(m.detector.bursts)) \/ m.current <= path_mtu

MtuInv ==
    /\ MtuType /\ ProbeOk(mtud, mtu_sent)
    /\ searched => SearchOk(mtud, mtu_sent)
    /\ DetectorOk(mtud, mtu_sent)
    /\ holes <= Cardinality(TooBig(mtud.detector.bursts))

-----------------------------------------------------------------------------
(* MTU discovery: the losses of one detection *)

\* A set of naturals that holds every n whose predecessors it holds holds them all.
LEMMA MtuInduction ==
    ASSUME NEW S \in SUBSET Nat, 0 \in S, NEW N \in Nat, \A n \in 1 .. N : n - 1 \in S => n \in S
    PROVE  \A n \in 0 .. N : n \in S
<1> DEFINE T == {n \in 0 .. N : n \notin S}
           R == OpToRel(<, Nat)
<1>1. IsWellFoundedOn(R, Nat)
    BY NatLessThanWellFounded
<1>2. SUFFICES ASSUME T # {} PROVE FALSE
    OBVIOUS
<1>3. T \subseteq Nat
    OBVIOUS
<1>4. PICK n \in T : \A y \in T : <<y, n>> \notin R
    BY <1>1, <1>2, <1>3, WFMin
<1>5. n # 0 /\ n \in 1 .. N /\ n - 1 \in 0 .. N /\ n - 1 \in Nat /\ n \in Nat /\ n - 1 < n
    OBVIOUS
<1>6. <<n - 1, n>> \in R
    BY <1>5 DEF OpToRel
<1>7. n - 1 \notin T
    BY <1>4, <1>6
<1> QED
    BY <1>5, <1>7

\* The detector after one packet more.
WalkStep(h, sent, lost, n) == IF n \in lost THEN NonProbeLost(h, n, sent[n].size) ELSE h

\* AllLost is what its equations say: the packets are taken one by one.
LEMMA AllLostSteps ==
    ASSUME NEW h, NEW sent, NEW lost, NEW last \in Nat
    PROVE  \E f : /\ f[0] = h
                  /\ \A n \in 1 .. last : f[n] = WalkStep(f[n - 1], sent, lost, n)
                  /\ AllLost(h, sent, lost, last) = f[last]
<1> DEFINE Is(f, k) == f = [n \in 0 .. k |-> IF n = 0 THEN h ELSE WalkStep(f[n - 1], sent, lost, n)]
           S == {k \in Nat : \E f : Is(f, k)}
<1>1. 0 \in S
    <2>1. Is([n \in 0 .. 0 |-> h], 0)
        OBVIOUS
    <2> QED
        BY <2>1
<1>2. ASSUME NEW k \in 1 .. last, k - 1 \in S
      PROVE  k \in S
    <2>1. PICK g : Is(g, k - 1)
        BY <1>2
    <2> DEFINE f == [n \in 0 .. k |-> IF n = k THEN WalkStep(g[k - 1], sent, lost, k) ELSE g[n]]
    <2>2. ASSUME NEW n \in 0 .. k
          PROVE  f[n] = IF n = 0 THEN h ELSE WalkStep(f[n - 1], sent, lost, n)
        <3>1. CASE n = k
            <4>1. f[k] = WalkStep(g[k - 1], sent, lost, k) /\ f[k - 1] = g[k - 1] /\ k # 0
                OBVIOUS
            <4> QED
                BY <3>1, <4>1
        <3>2. CASE n # k
            <4>1. n \in 0 .. k - 1 /\ f[n] = g[n]
                BY <3>2
            <4>2. g[n] = IF n = 0 THEN h ELSE WalkStep(g[n - 1], sent, lost, n)
                BY <2>1, <4>1
            <4>3. n # 0 => f[n - 1] = g[n - 1]
                BY <3>2, <4>1
            <4> QED
                BY <4>1, <4>2, <4>3
        <3> QED
            BY <3>1, <3>2
    <2>3. Is(f, k)
        <3>1. f = [n \in 0 .. k |-> f[n]]
            OBVIOUS
        <3> HIDE DEF f
        <3> QED
            BY <2>2, <3>1
    <2> HIDE DEF f
    <2>4. k \in Nat /\ \E x : Is(x, k)
        BY <2>3
    <2> QED
        BY <2>4
<1>3. last \in S
    <2>1. S \in SUBSET Nat
        OBVIOUS
    <2> HIDE DEF S
    <2>2. \A n \in 0 .. last : n \in S
        BY <1>1, <1>2, <2>1, MtuInduction
    <2> QED
        BY <2>2
<1>4. \E f : Is(f, last)
    BY <1>3
<1> DEFINE w == CHOOSE f : Is(f, last)
<1>5. Is(w, last)
    BY <1>4
<1>6. AllLost(h, sent, lost, last) = w[last]
    BY DEF AllLost, WalkStep
<1> HIDE DEF w
<1>7. w[0] = h /\ \A n \in 1 .. last : w[n] = WalkStep(w[n - 1], sent, lost, n)
    BY <1>5
<1> QED
    BY <1>6, <1>7

\* A burst that is finished is remembered when it is suspicious, as far as there is room.
LEMMA BurstRemembered ==
    ASSUME NEW bs, IsFiniteSet(bs), bs \in SUBSET Bursts, NEW b \in Bursts, b \notin bs
    PROVE  LET r == Remembered(bs, b) IN
           /\ r \subseteq bs \cup {b} /\ IsFiniteSet(r)
           /\ (bs \subseteq r /\ b \in r) \/ Cardinality(r) > Threshold
<1>1. Threshold \in Nat /\ Cardinality(bs) \in Nat
    BY MtuConstants, FS_CardinalityType
<1>2. CASE Cardinality(bs) <= Threshold
    <2>1. Remembered(bs, b) = bs \cup {b}
        BY <1>2 DEF Remembered
    <2>2. IsFiniteSet(bs \cup {b})
        BY FS_AddElement
    <2> QED
        BY <2>1, <2>2
<1>3. CASE ~(Cardinality(bs) <= Threshold)
    <2> DEFINE least == CHOOSE x \in bs : \A y \in bs : x.smallest <= y.smallest
    <2>1. Remembered(bs, b) = IF least.smallest < b.smallest THEN (bs \ {least}) \cup {b} ELSE bs
        BY <1>3 DEF Remembered
    <2> HIDE DEF least
    <2>2. IsFiniteSet(bs \ {least}) /\ Cardinality(bs \ {least}) >= Cardinality(bs) - 1
        <3>1. IsFiniteSet(bs \ {least})
              /\ Cardinality(bs \ {least}) = IF least \in bs THEN Cardinality(bs) - 1 ELSE Cardinality(bs)
            BY FS_RemoveElement
        <3> QED
            BY <1>1, <3>1
    <2>3. IsFiniteSet((bs \ {least}) \cup {b}) /\ Cardinality((bs \ {least}) \cup {b}) = Cardinality(bs \ {least}) + 1
        BY <2>2, FS_AddElement
    <2>4. Cardinality(bs \ {least}) \in Nat
        BY <2>2, FS_CardinalityType
    <2>5. Cardinality((bs \ {least}) \cup {b}) > Threshold /\ Cardinality(bs) > Threshold
        BY <1>1, <1>3, <2>2, <2>3, <2>4
    <2> QED
        BY <2>1, <2>3, <2>5
<1> QED
    BY <1>2, <1>3

LEMMA BurstFinished ==
    ASSUME NEW h \in Detectors, IsFiniteSet(h.bursts), h.burst # NoBurst, h.burst \notin h.bursts
    PROVE  LET f == FinishBurst(h) IN
           /\ f \in Detectors /\ f.burst = NoBurst /\ f.post = h.post /\ (f.acked = h.acked \/ f.acked = MinMtu)
           /\ f.bursts \subseteq h.bursts \cup {h.burst} /\ IsFiniteSet(f.bursts)
           /\ h.bursts \subseteq f.bursts \/ Cardinality(f.bursts) > Threshold
           /\ Suspicious(h) => h.burst \in f.bursts \/ Cardinality(f.bursts) > Threshold
<1>0. MinMtu \in Nat /\ NoBurst \in Bursts
    BY MtuConstants DEF NoBurst, Bursts
<1>1. CASE ~Suspicious(h)
    <2>1. FinishBurst(h) = [h EXCEPT !.burst = NoBurst]
        BY <1>1 DEF FinishBurst
    <2>2. /\ FinishBurst(h) \in Detectors /\ FinishBurst(h).burst = NoBurst /\ FinishBurst(h).post = h.post
          /\ FinishBurst(h).acked = h.acked /\ FinishBurst(h).bursts = h.bursts
        BY <1>0, <2>1 DEF Detectors
    <2> QED
        BY <1>1, <2>2
<1>2. CASE Suspicious(h)
    <2>1. PICK r : r = Remembered(h.bursts, h.burst)
        OBVIOUS
    <2>2. h.bursts \in SUBSET Bursts /\ h.burst \in Bursts
        BY DEF Detectors
    <2>3. /\ r \subseteq h.bursts \cup {h.burst} /\ IsFiniteSet(r)
          /\ (h.bursts \subseteq r /\ h.burst \in r) \/ Cardinality(r) > Threshold
        BY <2>1, <2>2, BurstRemembered
    <2>4. PICK a : a = IF h.burst.latest > h.post THEN MinMtu ELSE h.acked
        OBVIOUS
    <2>5. FinishBurst(h) = [h EXCEPT !.burst = NoBurst, !.acked = a, !.bursts = r]
        BY <1>2, <2>1, <2>4 DEF FinishBurst
    <2>6. a \in Int /\ (a = h.acked \/ a = MinMtu)
        BY <1>0, <2>4 DEF Detectors
    <2>7. /\ FinishBurst(h) \in Detectors /\ FinishBurst(h).burst = NoBurst /\ FinishBurst(h).post = h.post
          /\ FinishBurst(h).acked = a /\ FinishBurst(h).bursts = r
        BY <1>0, <2>2, <2>3, <2>5, <2>6 DEF Detectors
    <2> QED
        BY <2>3, <2>6, <2>7
<1> QED
    BY <1>1, <1>2

\* A burst of packets too big for the path, sent since it is what it is, is suspicious.
LEMMA TooBigSuspicious ==
    ASSUME NEW h \in Detectors, NEW mtu \in Nat, NEW since \in Nat, MinMtu <= mtu,
           h.acked > mtu => h.post < since,
           h.burst.smallest > mtu, h.burst.latest >= since
    PROVE  Suspicious(h)
<1>1. MinMtu \in Nat /\ h.acked \in Int /\ h.post \in Nat /\ h.burst.smallest \in Int /\ h.burst.latest \in Nat
    BY MtuConstants DEF Detectors, Bursts
<1>2. ~(h.burst.smallest < MinMtu)
    BY <1>1
<1>3. ~(h.burst.latest < h.post /\ h.burst.smallest < h.acked)
    BY <1>1
<1> QED
    BY <1>2, <1>3 DEF Suspicious

\* The detector after the lost packets up to n: it has a burst under way once there was
\* one, and what it remembers it knew or lost.
WalkInv(h, r, sent, lost, n) ==
    /\ r \in Detectors /\ IsFiniteSet(r.bursts) /\ r.post = h.post
    /\ r.acked = h.acked \/ r.acked = MinMtu
    /\ r.burst # NoBurst => r.burst.latest \in lost /\ r.burst.latest <= n
    /\ \A b \in r.bursts : b \in h.bursts \/ (b.latest \in lost /\ b.latest <= n)
    /\ r.burst # NoBurst => \A b \in r.bursts : b.latest # r.burst.latest
    /\ h.bursts \subseteq r.bursts \/ Cardinality(r.bursts) > Threshold
    /\ (\E x \in lost : x <= n) => r.burst # NoBurst
WalkBig(r, sent, lost, mtu) ==
    (\A x \in lost : sent[x].size > mtu) /\ r.burst # NoBurst => r.burst.smallest > mtu

LEMMA LossWalked ==
    ASSUME NEW h, NEW r, NEW sent, NEW lost, NEW n \in Nat \ {0}, NEW mtu \in Nat,
           lost \in SUBSET (Nat \ {0}), \A x \in lost : sent[x].size \in Int,
           \A b \in h.bursts : b.latest \notin lost,
           WalkInv(h, r, sent, lost, n - 1), WalkBig(r, sent, lost, mtu)
    PROVE  WalkInv(h, WalkStep(r, sent, lost, n), sent, lost, n) /\ WalkBig(WalkStep(r, sent, lost, n), sent, lost, mtu)
<1>0. r \in Detectors /\ IsFiniteSet(r.bursts) /\ \A x \in lost : x \in Nat /\ x # 0
    BY DEF WalkInv
<1>1. CASE n \notin lost
    <2>1. WalkStep(r, sent, lost, n) = r
        BY <1>1 DEF WalkStep
    <2>2. \A x \in lost : x <= n <=> x <= n - 1
        BY <1>0, <1>1
    <2>3. WalkInv(h, r, sent, lost, n)
        BY <2>2 DEF WalkInv
    <2> QED
        BY <2>1, <2>3
<1>2. CASE n \in lost
    <2>1. PICK size \in Int : size = sent[n].size
        BY <1>2
    <2>2. PICK f : f = IF r.burst # NoBurst /\ n - r.burst.latest # 1 THEN FinishBurst(r) ELSE r
        OBVIOUS
    <2>3. PICK s : s = IF f.burst = NoBurst THEN size ELSE MtuMin(f.burst.smallest, size)
        OBVIOUS
    <2>4. PICK new : new = [latest |-> n, smallest |-> s]
        OBVIOUS
    <2>5. WalkStep(r, sent, lost, n) = [f EXCEPT !.burst = new]
        BY <1>2, <2>1, <2>2, <2>3, <2>4 DEF WalkStep, NonProbeLost
    <2>6. /\ f \in Detectors /\ IsFiniteSet(f.bursts) /\ f.post = r.post /\ (f.acked = r.acked \/ f.acked = MinMtu)
          /\ f.burst = NoBurst \/ f.burst = r.burst
          /\ \A b \in f.bursts : b \in r.bursts \/ (r.burst # NoBurst /\ b = r.burst)
          /\ r.bursts \subseteq f.bursts \/ Cardinality(f.bursts) > Threshold
        <3>1. CASE r.burst # NoBurst /\ n - r.burst.latest # 1
            <4>1. r.burst \notin r.bursts
                BY <3>1 DEF WalkInv
            <4> QED
                BY <1>0, <2>2, <3>1, <4>1, BurstFinished
        <3>2. CASE ~(r.burst # NoBurst /\ n - r.burst.latest # 1)
            BY <1>0, <2>2, <3>2
        <3> QED
            BY <3>1, <3>2
    <2>7. new \in Bursts /\ new # NoBurst /\ new.latest = n
        <3>1. s \in Int
            BY <2>1, <2>3, <2>6 DEF Detectors, Bursts, MtuMin
        <3> QED
            BY <2>4, <3>1 DEF Bursts, NoBurst
    <2>8. PICK q : q = [f EXCEPT !.burst = new]
        OBVIOUS
    <2>9. q \in Detectors /\ q.burst = new /\ q.bursts = f.bursts /\ q.post = f.post /\ q.acked = f.acked
        BY <2>6, <2>7, <2>8 DEF Detectors
    <2>10. ASSUME NEW b \in f.bursts
           PROVE  (b \in h.bursts \/ (b.latest \in lost /\ b.latest <= n)) /\ b.latest # n
        <3>1. b \in h.bursts \/ (b.latest \in lost /\ b.latest <= n - 1)
            BY <2>6 DEF WalkInv
        <3>2. CASE b \in h.bursts
            BY <1>2, <3>2
        <3>3. CASE b.latest \in lost /\ b.latest <= n - 1
            <4>1. PICK l \in Nat : l = b.latest
                BY <1>0, <3>3
            <4>2. l <= n /\ l # n
                BY <3>3, <4>1
            <4> QED
                BY <3>3, <4>1, <4>2
        <3> QED
            BY <3>1, <3>2, <3>3
    <2>11. h.bursts \subseteq f.bursts \/ Cardinality(f.bursts) > Threshold
        <3>1. CASE Cardinality(r.bursts) > Threshold /\ r.bursts \subseteq f.bursts
            <4>1. Cardinality(r.bursts) <= Cardinality(f.bursts)
                BY <2>6, <3>1, FS_Subset
            <4>2. Cardinality(r.bursts) \in Nat /\ Cardinality(f.bursts) \in Nat /\ Threshold \in Nat
                BY <1>0, <2>6, FS_CardinalityType, MtuConstants
            <4> QED
                BY <3>1, <4>1, <4>2
        <3>2. CASE ~(Cardinality(r.bursts) > Threshold /\ r.bursts \subseteq f.bursts)
            BY <2>6, <3>2 DEF WalkInv
        <3> QED
            BY <3>1, <3>2
    <2>12. WalkInv(h, q, sent, lost, n)
        BY <1>2, <2>6, <2>7, <2>9, <2>10, <2>11 DEF WalkInv
    <2>13. WalkBig(q, sent, lost, mtu)
        <3>1. SUFFICES ASSUME \A x \in lost : sent[x].size > mtu
                       PROVE  s > mtu
            BY <2>4, <2>9 DEF WalkBig
        <3>2. size > mtu
            BY <1>2, <2>1, <3>1
        <3>3. f.burst # NoBurst => f.burst.smallest > mtu
            BY <2>6, <3>1 DEF WalkBig
        <3> QED
            BY <2>3, <3>2, <3>3 DEF MtuMin
    <2> QED
        BY <2>5, <2>8, <2>12, <2>13
<1> QED
    BY <1>1, <1>2

LEMMA LossesWalked ==
    ASSUME NEW h \in Detectors, NEW sent, NEW lost, NEW last \in Nat, NEW mtu \in Nat,
           IsFiniteSet(h.bursts), h.burst = NoBurst,
           lost \in SUBSET (1 .. last), \A x \in lost : sent[x].size \in Int,
           \A b \in h.bursts : b.latest \notin lost
    PROVE  LET r == AllLost(h, sent, lost, last) IN WalkInv(h, r, sent, lost, last) /\ WalkBig(r, sent, lost, mtu)
<1>1. PICK f : /\ f[0] = h
               /\ \A n \in 1 .. last : f[n] = WalkStep(f[n - 1], sent, lost, n)
               /\ AllLost(h, sent, lost, last) = f[last]
    BY AllLostSteps
<1>2. lost \in SUBSET (Nat \ {0})
    OBVIOUS
<1>3. WalkInv(h, f[0], sent, lost, 0) /\ WalkBig(f[0], sent, lost, mtu)
    <2>1. ~\E x \in lost : x <= 0
        OBVIOUS
    <2> QED
        BY <1>1, <2>1 DEF WalkInv, WalkBig
<1> DEFINE S == {n \in Nat : WalkInv(h, f[n], sent, lost, n) /\ WalkBig(f[n], sent, lost, mtu)}
<1>4. ASSUME NEW n \in 1 .. last, n - 1 \in S
      PROVE  n \in S
    <2>1. n \in Nat \ {0} /\ f[n] = WalkStep(f[n - 1], sent, lost, n)
        BY <1>1
    <2>2. WalkInv(h, f[n - 1], sent, lost, n - 1) /\ WalkBig(f[n - 1], sent, lost, mtu)
        BY <1>4
    <2>3. WalkInv(h, WalkStep(f[n - 1], sent, lost, n), sent, lost, n) /\ WalkBig(WalkStep(f[n - 1], sent, lost, n), sent, lost, mtu)
        BY <1>2, <2>1, <2>2, LossWalked
    <2> QED
        BY <2>1, <2>3
<1>5. S \in SUBSET Nat /\ 0 \in S
    BY <1>3
<1> HIDE DEF S
<1>6. last \in S
    BY <1>4, <1>5, MtuInduction
<1> QED
    BY <1>1, <1>6 DEF S

-----------------------------------------------------------------------------
(* MTU discovery: acknowledgments and losses *)

LEMMA MtuNumbers ==
    ASSUME MtuType
    PROVE  /\ MinMtu \in Nat /\ MtuUpperBound \in Nat /\ Threshold \in Nat
           /\ path_mtu \in Nat /\ mtu_setting.peer_max \in Nat /\ Target \in Int
           /\ Target <= path_mtu /\ Target <= MtuUpperBound /\ Target <= mtu_setting.peer_max
           /\ Target = path_mtu \/ Target = MtuUpperBound \/ Target = mtu_setting.peer_max
BY MtuConstants DEF MtuType, Target, MtuMin

\* Whether a loss counts: packets too big for the path, and nothing else.
HoleSeen(sent, others) == IF others # {} /\ \A pn \in others : pn >= path_since /\ ~sent[pn].fits THEN 1 ELSE 0

\* What the detection of a black hole leaves.
Checked(m, sent, others, n) ==
    /\ n \in MtuRecords
    /\ n.lower = m.lower /\ n.upper = m.upper /\ n.last = m.last /\ n.probe = m.probe /\ n.lost = m.lost
    /\ (n.current = m.current /\ n.phase = m.phase) \/ (n.current = MinMtu /\ n.phase = "Complete")
    /\ n.detector.burst = NoBurst
    /\ IsFiniteSet(n.detector.bursts) /\ Cardinality(n.detector.bursts) <= Threshold
    /\ \A b \in n.detector.bursts : b \in m.detector.bursts \/ b.latest \in others
    /\ n.detector.post = m.detector.post
    /\ n.detector.acked = m.detector.acked \/ n.detector.acked = MinMtu
    /\ n.current = MinMtu
       \/ Cardinality(TooBig(m.detector.bursts)) + HoleSeen(sent, others) <= Cardinality(TooBig(n.detector.bursts))

LEMMA BlackHoleFacts ==
    ASSUME MtuType, NEW m \in MtuRecords, NEW sent, SentMtu(sent), DetectorOk(m, sent),
           NEW others, others \in SUBSET DOMAIN sent, others # {},
           NEW n, n = BlackHole(m, AllLost(m.detector, sent, others, mtu_pn))
    PROVE  Checked(m, sent, others, n)
<1>0. MinMtu \in Nat /\ Threshold \in Nat /\ path_mtu \in Nat /\ MinMtu <= path_mtu /\ mtu_pn \in Nat /\ path_since \in Nat
    BY MtuConstants DEF MtuType
<1>1. PICK h : h = m.detector
    OBVIOUS
<1>2. /\ h \in Detectors /\ IsFiniteSet(h.bursts) /\ h.burst = NoBurst
      /\ \A b \in h.bursts : b.latest \notin others
      /\ h.acked > path_mtu => h.post < path_since
    BY <1>1 DEF DetectorOk, MtuRecords
<1>3. others \in SUBSET (1 .. mtu_pn) /\ others \in SUBSET Nat /\ \A x \in others : sent[x].size \in Int
    <2>1. 1 .. mtu_pn - 1 \subseteq 1 .. mtu_pn
        BY <1>0
    <2> QED
        BY <2>1 DEF SentMtu
<1>4. PICK r : r = AllLost(h, sent, others, mtu_pn)
    OBVIOUS
<1>5. WalkInv(h, r, sent, others, mtu_pn) /\ WalkBig(r, sent, others, path_mtu)
    BY <1>0, <1>2, <1>3, <1>4, LossesWalked
<1>6. r.burst # NoBurst /\ r \in Detectors /\ IsFiniteSet(r.bursts) /\ r.burst \notin r.bursts
    <2>1. \E x \in others : x <= mtu_pn
        BY <1>0, <1>3
    <2> QED
        BY <1>5, <2>1 DEF WalkInv
<1>7. PICK f : f = FinishBurst(r)
    OBVIOUS
<1>8. /\ f \in Detectors /\ f.burst = NoBurst /\ f.post = r.post /\ (f.acked = r.acked \/ f.acked = MinMtu)
      /\ f.bursts \subseteq r.bursts \cup {r.burst} /\ IsFiniteSet(f.bursts)
      /\ r.bursts \subseteq f.bursts \/ Cardinality(f.bursts) > Threshold
      /\ Suspicious(r) => r.burst \in f.bursts \/ Cardinality(f.bursts) > Threshold
    BY <1>6, <1>7, BurstFinished
<1>9. Cardinality(f.bursts) \in Nat /\ Cardinality(r.bursts) \in Nat
    BY <1>6, <1>8, FS_CardinalityType
<1>10. \A b \in f.bursts : b \in h.bursts \/ b.latest \in others
    BY <1>5, <1>6, <1>8 DEF WalkInv
<1>11. f.post = h.post /\ (f.acked = h.acked \/ f.acked = MinMtu)
    BY <1>5, <1>8 DEF WalkInv
<1>12. n = IF Cardinality(f.bursts) <= Threshold THEN [m EXCEPT !.detector = f]
           ELSE [m EXCEPT !.detector = [f EXCEPT !.bursts = {}], !.current = MinMtu, !.phase = "Complete"]
    BY <1>1, <1>4, <1>7 DEF BlackHole
<1>13. CASE Cardinality(f.bursts) <= Threshold
    <2>1. n = [m EXCEPT !.detector = f]
        BY <1>12, <1>13
    <2>2. /\ n \in MtuRecords /\ n.detector = f /\ n.current = m.current /\ n.phase = m.phase
          /\ n.lower = m.lower /\ n.upper = m.upper /\ n.last = m.last /\ n.probe = m.probe /\ n.lost = m.lost
        BY <1>8, <2>1 DEF MtuRecords
    <2>3. r.bursts \subseteq f.bursts /\ h.bursts \subseteq f.bursts /\ (Suspicious(r) => r.burst \in f.bursts)
        <3>1. r.bursts \subseteq f.bursts /\ (Suspicious(r) => r.burst \in f.bursts)
            BY <1>0, <1>8, <1>9, <1>13
        <3>2. Cardinality(r.bursts) <= Cardinality(f.bursts)
            BY <1>8, <3>1, FS_Subset
        <3>3. ~(Cardinality(r.bursts) > Threshold)
            BY <1>0, <1>9, <1>13, <3>2
        <3> QED
            BY <1>5, <3>1, <3>3 DEF WalkInv
    <2>4. TooBig(h.bursts) \subseteq TooBig(f.bursts) /\ IsFiniteSet(TooBig(f.bursts))
          /\ Cardinality(TooBig(h.bursts)) <= Cardinality(TooBig(f.bursts))
        <3>1. TooBig(h.bursts) \subseteq TooBig(f.bursts) /\ TooBig(f.bursts) \subseteq f.bursts
            BY <2>3 DEF TooBig
        <3>2. IsFiniteSet(TooBig(f.bursts))
            BY <1>8, <3>1, FS_Subset
        <3> QED
            BY <3>1, <3>2, FS_Subset
    <2>5. IsFiniteSet(TooBig(h.bursts)) /\ Cardinality(TooBig(h.bursts)) \in Nat /\ Cardinality(TooBig(f.bursts)) \in Nat
        BY <2>4, FS_Subset, FS_CardinalityType
    <2>6. CASE \A pn \in others : pn >= path_since /\ ~sent[pn].fits
        <3>1. \A pn \in others : sent[pn].size > path_mtu
            <4>1. \A pn \in others : ~(sent[pn].size <= path_mtu)
                BY <2>6 DEF DetectorOk
            <4> QED
                BY <1>0, <1>3, <4>1
        <3>2. r.burst.smallest > path_mtu /\ r.burst.latest \in others /\ r.burst.latest >= path_since
            BY <1>5, <1>6, <2>6, <3>1 DEF WalkInv, WalkBig
        <3>3. r.acked > path_mtu => r.post < path_since
            BY <1>0, <1>2, <1>5 DEF WalkInv
        <3>4. r.burst \in f.bursts
            BY <1>0, <1>6, <2>3, <3>2, <3>3, TooBigSuspicious
        <3>5. r.burst \in TooBig(f.bursts) /\ r.burst \notin TooBig(h.bursts)
            BY <1>2, <3>2, <3>4 DEF TooBig
        <3>6. TooBig(h.bursts) \cup {r.burst} \subseteq TooBig(f.bursts)
            BY <2>4, <3>5
        <3>7. Cardinality(TooBig(h.bursts) \cup {r.burst}) = Cardinality(TooBig(h.bursts)) + 1
            BY <2>5, <3>5, FS_AddElement
        <3>8. Cardinality(TooBig(h.bursts) \cup {r.burst}) <= Cardinality(TooBig(f.bursts))
            BY <2>4, <3>6, FS_Subset
        <3>9. Cardinality(TooBig(h.bursts)) + 1 <= Cardinality(TooBig(f.bursts))
            BY <3>7, <3>8
        <3> QED
            BY <1>1, <1>8, <1>10, <1>11, <1>13, <2>2, <2>6, <3>9 DEF HoleSeen, Checked
    <2>7. CASE ~(\A pn \in others : pn >= path_since /\ ~sent[pn].fits)
        <3>1. Cardinality(TooBig(h.bursts)) + 0 <= Cardinality(TooBig(f.bursts))
            BY <2>4, <2>5
        <3> QED
            BY <1>1, <1>8, <1>10, <1>11, <1>13, <2>2, <2>7, <3>1 DEF HoleSeen, Checked
    <2> QED
        BY <2>6, <2>7
<1>14. CASE ~(Cardinality(f.bursts) <= Threshold)
    <2>1. n = [m EXCEPT !.detector = [f EXCEPT !.bursts = {}], !.current = MinMtu, !.phase = "Complete"]
        BY <1>12, <1>14
    <2>2. PICK g : g = [f EXCEPT !.bursts = {}]
        OBVIOUS
    <2>3. g \in Detectors /\ g.bursts = {} /\ g.burst = NoBurst /\ g.post = f.post /\ g.acked = f.acked
        BY <1>8, <2>2 DEF Detectors
    <2>4. n = [m EXCEPT !.detector = g, !.current = MinMtu, !.phase = "Complete"]
        BY <2>1, <2>2
    <2>5. /\ n \in MtuRecords /\ n.detector = g /\ n.current = MinMtu /\ n.phase = "Complete"
          /\ n.lower = m.lower /\ n.upper = m.upper /\ n.last = m.last /\ n.probe = m.probe /\ n.lost = m.lost
        <3>1. m.current \in Int /\ m.phase \in MtuPhases /\ "Complete" \in MtuPhases /\ MinMtu \in Int
            BY <1>0 DEF MtuRecords, MtuPhases
        <3>2. /\ n.detector = g /\ n.current = MinMtu /\ n.phase = "Complete"
              /\ n.lower = m.lower /\ n.upper = m.upper /\ n.last = m.last /\ n.probe = m.probe /\ n.lost = m.lost
            BY <2>4 DEF MtuRecords
        <3>3. n \in MtuRecords
            BY <2>3, <2>4, <3>1 DEF MtuRecords
        <3> QED
            BY <3>2, <3>3
    <2>6. IsFiniteSet(g.bursts) /\ Cardinality(g.bursts) = 0
        BY <2>3, FS_EmptySet
    <2> QED
        BY <1>0, <1>1, <1>11, <2>3, <2>5, <2>6 DEF Checked
<1> QED
    BY <1>13, <1>14

LEMMA ProbeFailed ==
    ASSUME NEW k \in MtuRecords, NEW l \in Nat
    PROVE  [k EXCEPT !.probe = 0, !.lost = l] \in MtuRecords
BY DEF MtuRecords

\* What a detection leaves.
Detected(m, sent, lost, others, n) ==
    /\ n \in MtuRecords
    /\ n.lower = m.lower /\ n.upper = m.upper /\ n.last = m.last
    /\ (n.current = m.current /\ n.phase = m.phase) \/ (n.current = MinMtu /\ n.phase = "Complete")
    /\ n.phase = "Searching" /\ InFlightProbe(m) \in lost => n.probe = 0 /\ n.lost = m.lost + 1
    /\ n.phase = "Searching" /\ InFlightProbe(m) \notin lost => n.probe = m.probe /\ n.lost = m.lost
    /\ n.detector.burst = NoBurst
    /\ IsFiniteSet(n.detector.bursts) /\ Cardinality(n.detector.bursts) <= Threshold
    /\ \A b \in n.detector.bursts : b \in m.detector.bursts \/ b.latest \in others
    /\ n.detector.post = m.detector.post
    /\ n.detector.acked = m.detector.acked \/ n.detector.acked = MinMtu
    /\ n.current = MinMtu
       \/ Cardinality(TooBig(m.detector.bursts)) + HoleSeen(sent, others) <= Cardinality(TooBig(n.detector.bursts))
    /\ others = {} => n.current = m.current /\ n.phase = m.phase

LEMMA DetectFacts ==
    ASSUME MtuType, NEW m \in MtuRecords, NEW sent, SentMtu(sent), DetectorOk(m, sent),
           NEW limit, NEW lost, lost = Lost(sent, limit), NEW others, others = lost \ {InFlightProbe(m)},
           NEW n, n = Detect(m, sent, limit)
    PROVE  Detected(m, sent, lost, others, n)
<1>1. PICK k : k = IF others = {} THEN m ELSE BlackHole(m, AllLost(m.detector, sent, others, mtu_pn))
    OBVIOUS
<1>2. n = IF InFlightProbe(m) \in lost /\ k.phase = "Searching" THEN [k EXCEPT !.probe = 0, !.lost = k.lost + 1] ELSE k
    BY <1>1 DEF Detect
<1>3. Checked(m, sent, others, k) /\ (others = {} => k = m)
    <2>1. CASE others = {}
        <3>1. k = m
            BY <1>1, <2>1
        <3>2. TooBig(m.detector.bursts) \subseteq m.detector.bursts
            BY DEF TooBig
        <3>3. Cardinality(TooBig(m.detector.bursts)) \in Nat
            BY <3>2, FS_Subset, FS_CardinalityType DEF DetectorOk
        <3>4. Cardinality(TooBig(m.detector.bursts)) + 0 <= Cardinality(TooBig(k.detector.bursts))
            BY <3>1, <3>3
        <3> QED
            BY <2>1, <3>1, <3>4 DEF DetectorOk, HoleSeen, Checked
    <2>2. CASE others # {}
        <3>1. others \in SUBSET DOMAIN sent
            BY DEF Lost
        <3>2. k = BlackHole(m, AllLost(m.detector, sent, others, mtu_pn))
            BY <1>1, <2>2
        <3> QED
            BY <2>2, <3>1, <3>2, BlackHoleFacts
    <2> QED
        BY <2>1, <2>2
<1>4. CASE InFlightProbe(m) \in lost /\ k.phase = "Searching"
    <2>1. n = [k EXCEPT !.probe = 0, !.lost = k.lost + 1] /\ k.lost + 1 \in Nat
        BY <1>2, <1>3, <1>4 DEF MtuRecords, Checked
    <2>2. n \in MtuRecords /\ n.detector = k.detector /\ n.current = k.current /\ n.phase = k.phase
          /\ n.lower = k.lower /\ n.upper = k.upper /\ n.last = k.last /\ n.probe = 0 /\ n.lost = k.lost + 1
        <3>1. PICK l \in Nat : l = k.lost + 1
            BY <2>1
        <3>2. k \in MtuRecords /\ n = [k EXCEPT !.probe = 0, !.lost = l]
            BY <1>3, <2>1, <3>1 DEF Checked
        <3>3. n.detector = k.detector /\ n.current = k.current /\ n.phase = k.phase
              /\ n.lower = k.lower /\ n.upper = k.upper /\ n.last = k.last /\ n.probe = 0 /\ n.lost = l
            BY <3>2 DEF MtuRecords
        <3>4. n \in MtuRecords
            BY <3>2, ProbeFailed
        <3> QED
            BY <3>1, <3>3, <3>4
    <2> QED
        BY <1>3, <1>4, <2>2 DEF Detected, Checked
<1>5. CASE ~(InFlightProbe(m) \in lost /\ k.phase = "Searching")
    <2>1. n = k
        BY <1>2, <1>5
    <2> QED
        BY <1>3, <1>5, <2>1 DEF Detected, Checked
<1> QED
    BY <1>4, <1>5

\* What is said of the search and of the detector does not depend on the bounds.
LEMMA MtuStays ==
    ASSUME MtuType, UNCHANGED <<mtu_pn, path_mtu, path_since>>, NEW left_ \in Int,
           mtu_setting' = [mtu_setting EXCEPT !.drops = left_]
    PROVE  /\ Target' = Target /\ mtu_setting'.peer_max = mtu_setting.peer_max
           /\ mtu_setting'.minimum_change = mtu_setting.minimum_change
           /\ mtu_setting' \in [minimum_change : Nat, peer_max : Nat, path : Nat, initial : Nat,
                                datagrams : Int, drops : Int, changes : Int, restarts : Int]
<1>1. /\ mtu_setting'.peer_max = mtu_setting.peer_max
      /\ mtu_setting'.minimum_change = mtu_setting.minimum_change
      /\ mtu_setting' \in [minimum_change : Nat, peer_max : Nat, path : Nat, initial : Nat,
                           datagrams : Int, drops : Int, changes : Int, restarts : Int]
    BY DEF MtuType
<1> QED
    BY <1>1 DEF Target

LEMMA MtuResolveStep ==
    ASSUME MtuType, NEW m \in MtuRecords, NEW sent, SentMtu(sent), ProbeOk(m, sent), searched => SearchOk(m, sent),
           DetectorOk(m, sent), NEW seen \in Nat, SeenOk(m, seen), NEW limit, NEW largest,
           Resolve(m, sent, limit, largest, seen), UNCHANGED <<mtu_pn, path_mtu, path_since>>, mtu_acked' \in Nat
    PROVE  MtuInv'
<1>1. PICK lost : lost = Lost(sent, limit)
    OBVIOUS
<1>2. PICK others : others = lost \ {InFlightProbe(m)}
    OBVIOUS
<1>3. PICK n : n = Detect(m, sent, limit)
    OBVIOUS
<1>4. PICK now : now = [pn \in DOMAIN sent \ lost |-> sent[pn]]
    OBVIOUS
<1>5. PICK fit : fit = {pn \in lost : sent[pn].fits}
    OBVIOUS
<1>6. PICK dropped : dropped = Cardinality(fit)
    OBVIOUS
<1>7. /\ mtu_setting' = [mtu_setting EXCEPT !.drops = mtu_setting.drops - dropped]
      /\ mtud' = n /\ mtu_sent' = now
      /\ searched' = (searched /\ dropped = 0)
      /\ holes' = IF n.current <= path_mtu THEN 0
                  ELSE IF others # {} /\ others = {pn \in others : pn >= path_since /\ ~sent[pn].fits} THEN seen + 1 ELSE seen
    BY <1>1, <1>2, <1>3, <1>4, <1>5, <1>6 DEF Resolve
<1>8. IsFiniteSet(fit) /\ dropped \in Nat
    <2>1. mtu_pn \in Nat \ {0} /\ IsFiniteSet(1 .. mtu_pn - 1)
        BY FS_Interval DEF MtuType
    <2>2. fit \subseteq 1 .. mtu_pn - 1
        BY <1>1, <1>5 DEF Lost, SentMtu
    <2>3. IsFiniteSet(fit)
        BY <2>1, <2>2, FS_Subset
    <2> QED
        BY <1>6, <2>3, FS_CardinalityType
<1>9. mtu_setting.drops - dropped \in Int
    BY <1>8 DEF MtuType
<1>10. /\ Target' = Target /\ mtu_setting'.peer_max = mtu_setting.peer_max
       /\ mtu_setting'.minimum_change = mtu_setting.minimum_change
       /\ mtu_setting' \in [minimum_change : Nat, peer_max : Nat, path : Nat, initial : Nat,
                            datagrams : Int, drops : Int, changes : Int, restarts : Int]
    BY <1>7, <1>9, MtuStays
<1>11. DOMAIN now = DOMAIN sent \ lost /\ \A pn \in DOMAIN now : now[pn] = sent[pn]
    BY <1>4
<1>12. /\ n \in MtuRecords
       /\ n.lower = m.lower /\ n.upper = m.upper /\ n.last = m.last
       /\ (n.current = m.current /\ n.phase = m.phase) \/ (n.current = MinMtu /\ n.phase = "Complete")
       /\ n.phase = "Searching" /\ InFlightProbe(m) \in lost => n.probe = 0 /\ n.lost = m.lost + 1
       /\ n.phase = "Searching" /\ InFlightProbe(m) \notin lost => n.probe = m.probe /\ n.lost = m.lost
       /\ n.detector.burst = NoBurst
       /\ IsFiniteSet(n.detector.bursts) /\ Cardinality(n.detector.bursts) <= Threshold
       /\ \A b \in n.detector.bursts : b \in m.detector.bursts \/ b.latest \in others
       /\ n.detector.post = m.detector.post
       /\ n.detector.acked = m.detector.acked \/ n.detector.acked = MinMtu
       /\ n.current = MinMtu
          \/ Cardinality(TooBig(m.detector.bursts)) + HoleSeen(sent, others) <= Cardinality(TooBig(n.detector.bursts))
       /\ others = {} => n.current = m.current /\ n.phase = m.phase
    <2>1. Detected(m, sent, lost, others, n)
        BY <1>1, <1>2, <1>3, DetectFacts
    <2> QED
        BY <2>1 DEF Detected
<1>13. MinMtu \in Nat /\ Threshold \in Nat /\ path_mtu \in Nat /\ MinMtu <= path_mtu
    BY MtuConstants DEF MtuType
<1>14. SentMtu(mtu_sent)'
    BY <1>7, <1>11 DEF SentMtu
<1>15. ProbeOk(n, now)
    <2>1. CASE n.phase = "Searching" /\ n.probe # 0
        <3>1. m.phase = "Searching" /\ InFlightProbe(m) \notin lost /\ n.probe = m.probe
            BY <1>12, <2>1
        <3>2. InFlightProbe(n) = n.probe /\ InFlightProbe(m) = n.probe
            BY <2>1, <3>1 DEF InFlightProbe
        <3> QED
            BY <1>11, <1>12, <2>1, <3>1, <3>2 DEF ProbeOk
    <2>2. CASE ~(n.phase = "Searching" /\ n.probe # 0)
        BY <2>2 DEF ProbeOk, InFlightProbe
    <2> QED
        BY <2>1, <2>2
<1>16. ASSUME searched, dropped = 0
       PROVE  SearchOk(n, now)
    <2>1. SearchOk(m, sent) /\ fit = {}
        BY <1>6, <1>8, <1>16, FS_EmptySet
    <2>2. \A pn \in lost : ~sent[pn].fits /\ pn \in DOMAIN sent
        BY <1>1, <1>5, <2>1 DEF Lost
    <2>3. others = {}
        BY <1>2, <2>1, <2>2 DEF SearchOk
    <2>4. n.current = m.current /\ n.phase = m.phase
        BY <1>12, <2>3
    <2>5. CASE InFlightProbe(m) \in lost
        <3>1. InFlightProbe(m) # 0
            BY <2>2, <2>5 DEF SentMtu
        <3>2. m.phase = "Searching" /\ m.probe # 0 /\ InFlightProbe(m) = m.probe
            BY <3>1 DEF InFlightProbe
        <3>3. n.probe = 0 /\ n.lost = m.lost + 1 /\ InFlightProbe(n) = 0 /\ n.phase = "Searching"
            BY <1>12, <2>4, <2>5, <3>2 DEF InFlightProbe
        <3>4. path_mtu < m.last
            <4>1. ~(m.last <= path_mtu) /\ m.last \in Int
                BY <2>1, <2>2, <2>5, <3>1 DEF SearchOk, MtuRecords
            <4> QED
                BY <1>13, <4>1
        <3>5. n.lost # 0
            BY <3>3 DEF MtuRecords
        <3>6. BracketOk(m)
            BY <2>1, <3>2 DEF SearchOk
        <3>7. BracketOk(n)
            BY <1>12, <2>4, <3>2, <3>3, <3>4, <3>5, <3>6 DEF BracketOk
        <3>8. \A pn \in DOMAIN now : now[pn].fits
            BY <1>11, <2>1, <2>5 DEF SearchOk
        <3> QED
            BY <2>1, <2>4, <3>3, <3>7, <3>8 DEF SearchOk
    <2>6. CASE InFlightProbe(m) \notin lost
        <3>1. InFlightProbe(n) = InFlightProbe(m)
            BY <1>12, <2>4, <2>6 DEF InFlightProbe
        <3>2. n.phase = "Searching" => BracketOk(n)
            <4>1. SUFFICES ASSUME n.phase = "Searching" PROVE BracketOk(n)
                OBVIOUS
            <4>2. n.probe = m.probe /\ n.lost = m.lost /\ BracketOk(m)
                BY <1>12, <2>1, <2>4, <2>6, <4>1 DEF SearchOk
            <4> QED
                BY <1>12, <2>4, <4>2 DEF BracketOk
        <3>3. InFlightProbe(m) # 0 => InFlightProbe(m) \in DOMAIN now /\ now[InFlightProbe(m)] = sent[InFlightProbe(m)]
            BY <1>11, <2>6 DEF ProbeOk
        <3>4. \A pn \in DOMAIN now : pn # InFlightProbe(n) => now[pn].fits
            BY <1>11, <2>1, <3>1 DEF SearchOk
        <3>5. InFlightProbe(n) # 0 => (now[InFlightProbe(n)].fits <=> n.last <= path_mtu)
            BY <1>12, <2>1, <3>1, <3>3 DEF SearchOk
        <3> QED
            BY <2>1, <2>4, <3>2, <3>4, <3>5 DEF SearchOk
    <2> QED
        BY <2>5, <2>6
<1>17. DetectorOk(n, now)
    <2>1. \A b \in n.detector.bursts : b.latest \in 1 .. mtu_pn - 1 /\ b.latest \notin DOMAIN now
        <3>1. \A pn \in others : pn \in 1 .. mtu_pn - 1 /\ pn \notin DOMAIN now
            BY <1>1, <1>2, <1>11 DEF Lost, SentMtu
        <3> QED
            BY <1>11, <1>12, <3>1 DEF DetectorOk
    <2>2. n.detector.acked > path_mtu => n.detector.post < path_since
        BY <1>12, <1>13 DEF DetectorOk
    <2>3. n.detector.post < mtu_pn
        BY <1>12 DEF DetectorOk
    <2>4. \A pn \in DOMAIN now : pn >= path_since => (now[pn].fits <=> now[pn].size <= path_mtu)
        BY <1>11 DEF DetectorOk
    <2> QED
        BY <1>12, <2>1, <2>2, <2>3, <2>4 DEF DetectorOk
<1>18. holes' \in Nat /\ holes' <= Cardinality(TooBig(n.detector.bursts))
    <2>1. TooBig(n.detector.bursts) \subseteq n.detector.bursts /\ TooBig(m.detector.bursts) \subseteq m.detector.bursts
        BY DEF TooBig
    <2>2. Cardinality(TooBig(n.detector.bursts)) \in Nat /\ Cardinality(TooBig(m.detector.bursts)) \in Nat
        BY <1>12, <2>1, FS_Subset, FS_CardinalityType DEF DetectorOk
    <2>3. CASE n.current <= path_mtu
        BY <1>7, <2>2, <2>3
    <2>4. CASE ~(n.current <= path_mtu)
        <3>1. n.current # MinMtu /\ n.current = m.current
            BY <1>12, <1>13, <2>4
        <3>2. seen <= Cardinality(TooBig(m.detector.bursts))
            BY <2>4, <3>1 DEF SeenOk
        <3>3. CASE others # {} /\ others = {pn \in others : pn >= path_since /\ ~sent[pn].fits}
            <4>1. \A pn \in others : pn >= path_since /\ ~sent[pn].fits
                BY <3>3
            <4>2. Cardinality(TooBig(m.detector.bursts)) + 1 <= Cardinality(TooBig(n.detector.bursts))
                BY <1>12, <3>1, <3>3, <4>1 DEF HoleSeen
            <4>3. holes' = seen + 1
                BY <1>7, <2>4, <3>3
            <4> QED
                BY <2>2, <3>2, <4>2, <4>3
        <3>4. CASE ~(others # {} /\ others = {pn \in others : pn >= path_since /\ ~sent[pn].fits})
            <4>1. ~(others # {} /\ \A pn \in others : pn >= path_since /\ ~sent[pn].fits)
                BY <3>4
            <4>2. Cardinality(TooBig(m.detector.bursts)) + 0 <= Cardinality(TooBig(n.detector.bursts))
                BY <1>12, <3>1, <4>1 DEF HoleSeen
            <4>3. holes' = seen
                BY <1>7, <2>4, <3>4
            <4> QED
                BY <2>2, <3>2, <4>2, <4>3
        <3> QED
            BY <3>3, <3>4
    <2> QED
        BY <2>3, <2>4
<1>19. MtuType'
    BY <1>7, <1>10, <1>12, <1>14, <1>18 DEF MtuType
<1>20. ProbeOk(mtud, mtu_sent)' /\ DetectorOk(mtud, mtu_sent)'
    BY <1>7, <1>15, <1>17 DEF ProbeOk, DetectorOk, InFlightProbe
<1>21. searched' => SearchOk(mtud, mtu_sent)'
    <2>1. SUFFICES ASSUME searched' PROVE SearchOk(mtud, mtu_sent)'
        OBVIOUS
    <2>2. SearchOk(n, now)
        BY <1>7, <1>16, <2>1
    <2> QED
        BY <1>7, <1>10, <2>2 DEF SearchOk, BracketOk, InFlightProbe
<1>22. holes' <= Cardinality(TooBig(mtud.detector.bursts))'
    BY <1>7, <1>18 DEF TooBig
<1> QED
    BY <1>19, <1>20, <1>21, <1>22 DEF MtuInv

\* A packet is acknowledged: the probe, or another.
LEMMA AckedFacts ==
    ASSUME MtuInv, NEW pn \in DOMAIN mtu_sent, mtu_sent[pn].fits,
           NEW m, m = Acked(mtud, pn, mtu_sent[pn].size),
           NEW sent, sent = [k \in DOMAIN mtu_sent \ {pn} |-> mtu_sent[k]],
           NEW seen, seen = IF mtu_sent[pn].size > path_mtu THEN 0 ELSE holes
    PROVE  /\ m \in MtuRecords /\ SentMtu(sent) /\ ProbeOk(m, sent) /\ (searched => SearchOk(m, sent))
           /\ DetectorOk(m, sent) /\ seen \in Nat /\ SeenOk(m, seen)
<1>1. /\ MtuType /\ ProbeOk(mtud, mtu_sent) /\ (searched => SearchOk(mtud, mtu_sent))
      /\ DetectorOk(mtud, mtu_sent) /\ holes <= Cardinality(TooBig(mtud.detector.bursts))
    BY DEF MtuInv
<1>2. PICK size \in Int : size = mtu_sent[pn].size
    BY <1>1 DEF MtuType, SentMtu
<1>3. /\ pn \in 1 .. mtu_pn - 1 /\ mtu_pn \in Nat \ {0} /\ path_mtu \in Nat /\ mtud \in MtuRecords /\ holes \in Nat
      /\ path_since \in Nat /\ Threshold \in Nat
    BY <1>1, MtuConstants DEF MtuType, SentMtu
<1>4. DOMAIN sent = DOMAIN mtu_sent \ {pn} /\ \A k \in DOMAIN sent : sent[k] = mtu_sent[k]
    OBVIOUS
<1>5. SentMtu(sent)
    BY <1>1, <1>4 DEF SentMtu, MtuType
<1>6. size > path_mtu => pn < path_since
    BY <1>1, <1>2, <1>3 DEF DetectorOk
<1>7. seen \in Nat /\ (seen = 0 \/ (seen = holes /\ size <= path_mtu))
    BY <1>2, <1>3
<1>8. PICK h : h = mtud.detector
    OBVIOUS
<1>9. h \in Detectors /\ IsFiniteSet(h.bursts) /\ h.burst = NoBurst
    BY <1>1, <1>3, <1>8 DEF DetectorOk, MtuRecords
<1>10. CASE InFlightProbe(mtud) = pn
    <2>0. mtud.phase = "Searching" /\ mtud.probe = pn /\ pn # 0
        BY <1>3, <1>10 DEF InFlightProbe
    <2>1. PICK g : g = [h EXCEPT !.bursts = {}, !.acked = size, !.post = pn]
        OBVIOUS
    <2>2. g \in Detectors /\ g.bursts = {} /\ g.burst = NoBurst /\ g.post = pn /\ g.acked = size
        <3>1. pn \in Nat /\ {} \in SUBSET Bursts
            BY <1>3
        <3> QED
            BY <1>9, <2>1, <3>1 DEF Detectors
    <2>3. m = [mtud EXCEPT !.probe = 0, !.lost = 0, !.current = mtud.last, !.detector = g]
        BY <1>2, <1>8, <2>0, <2>1 DEF Acked
    <2>4. PICK l \in Int : l = mtud.last
        BY <1>3 DEF MtuRecords
    <2>5. /\ m \in MtuRecords /\ m.probe = 0 /\ m.lost = 0 /\ m.current = l /\ m.detector = g
          /\ m.phase = mtud.phase /\ m.lower = mtud.lower /\ m.upper = mtud.upper /\ m.last = l
        <3>1. mtud \in MtuRecords /\ m = [mtud EXCEPT !.probe = 0, !.lost = 0, !.current = l, !.detector = g]
            BY <1>3, <2>3, <2>4
        <3>2. g \in Detectors
            BY <2>2
        <3>3. /\ m.probe = 0 /\ m.lost = 0 /\ m.current = l /\ m.detector = g
              /\ m.phase = mtud.phase /\ m.lower = mtud.lower /\ m.upper = mtud.upper /\ m.last = l
            BY <2>4, <3>1 DEF MtuRecords
        <3>4. m \in MtuRecords
            <4>1. PICK a : a = [mtud EXCEPT !.probe = 0, !.lost = 0]
                OBVIOUS
            <4>2. a \in MtuRecords
                BY <3>1, <4>1 DEF MtuRecords
            <4>3. m = [a EXCEPT !.current = l, !.detector = g]
                BY <3>1, <4>1
            <4> QED
                BY <3>2, <4>2, <4>3 DEF MtuRecords
        <3> QED
            BY <3>3, <3>4
    <2>6. size = l
        BY <1>1, <1>2, <1>10, <2>0, <2>4 DEF ProbeOk
    <2>7. InFlightProbe(m) = 0
        BY <2>5 DEF InFlightProbe
    <2>8. searched => SearchOk(m, sent)
        <3>1. SUFFICES ASSUME searched PROVE SearchOk(m, sent)
            OBVIOUS
        <3>2. SearchOk(mtud, mtu_sent) /\ BracketOk(mtud)
            BY <1>1, <2>0, <3>1 DEF SearchOk
        <3>3. l <= path_mtu
            BY <1>10, <2>0, <2>4, <3>2 DEF SearchOk
        <3>4. mtud.upper \in Int /\ l <= mtud.upper /\ mtud.upper <= MtuUpperBound /\ mtud.upper <= mtu_setting.peer_max
              /\ Target <= mtud.upper
            BY <1>3, <2>4, <3>2 DEF BracketOk, MtuRecords
        <3>5. l <= Target
            BY <1>1, <3>3, <3>4, MtuNumbers
        <3>6. BracketOk(m)
            BY <2>5, <3>4 DEF BracketOk
        <3>7. \A k \in DOMAIN sent : sent[k].fits
            BY <1>4, <1>10, <3>2 DEF SearchOk
        <3> QED
            BY <2>0, <2>5, <2>7, <3>5, <3>6, <3>7 DEF SearchOk
    <2>9. DetectorOk(m, sent)
        <3>1. IsFiniteSet(g.bursts) /\ Cardinality(g.bursts) = 0
            BY <2>2, FS_EmptySet
        <3>2. \A k \in DOMAIN sent : k >= path_since => (sent[k].fits <=> sent[k].size <= path_mtu)
            BY <1>1, <1>4 DEF DetectorOk
        <3>3. pn < mtu_pn /\ 0 <= Threshold
            BY <1>3
        <3>4. m.detector.bursts = {} /\ m.detector.burst = NoBurst /\ m.detector.post = pn /\ m.detector.acked = size
            BY <2>2, <2>5
        <3>5. IsFiniteSet(m.detector.bursts) /\ Cardinality(m.detector.bursts) <= Threshold
            BY <2>2, <2>5, <3>1, <3>3
        <3> QED
            BY <1>6, <3>2, <3>3, <3>4, <3>5 DEF DetectorOk
    <2>10. SeenOk(m, seen)
        <3>1. TooBig(m.detector.bursts) = {}
            BY <2>2, <2>5 DEF TooBig
        <3>2. Cardinality(TooBig(m.detector.bursts)) = 0
            BY <3>1, FS_EmptySet
        <3> QED
            BY <1>7, <2>5, <2>6, <3>2 DEF SeenOk
    <2> QED
        BY <1>5, <1>7, <2>5, <2>7, <2>8, <2>9, <2>10 DEF ProbeOk
<1>11. CASE InFlightProbe(mtud) # pn
    <2>1. PICK g : g = NonProbeAcked(h, pn, size)
        OBVIOUS
    <2>2. m = [mtud EXCEPT !.detector = g]
        BY <1>2, <1>8, <1>11, <2>1 DEF Acked, InFlightProbe
    <2>3. /\ g \in Detectors /\ g.burst = NoBurst /\ g.bursts \subseteq h.bursts
          /\ (g.acked = h.acked /\ g.post = h.post) \/ (g.acked = size /\ g.post = pn)
          /\ size <= path_mtu => TooBig(h.bursts) \subseteq g.bursts
        <3>1. CASE size <= h.acked
            <4>1. g = h
                BY <2>1, <3>1 DEF NonProbeAcked
            <4> QED
                BY <1>9, <4>1 DEF TooBig
        <3>2. CASE ~(size <= h.acked)
            <4>1. PICK bs : bs = {b \in h.bursts : b.smallest > size}
                OBVIOUS
            <4>2. g = [h EXCEPT !.acked = size, !.post = pn, !.bursts = bs]
                BY <2>1, <3>2, <4>1 DEF NonProbeAcked
            <4>3. bs \subseteq h.bursts /\ h.bursts \in SUBSET Bursts
                BY <1>9, <4>1 DEF Detectors
            <4>4. g \in Detectors /\ g.burst = NoBurst /\ g.bursts = bs /\ g.acked = size /\ g.post = pn
                <5>1. pn \in Nat /\ bs \in SUBSET Bursts
                    BY <1>3, <4>3
                <5> QED
                    BY <1>9, <4>2, <5>1 DEF Detectors
            <4>5. ASSUME size <= path_mtu
                  PROVE  TooBig(h.bursts) \subseteq bs
                <5>1. ASSUME NEW b \in TooBig(h.bursts)
                      PROVE  b \in h.bursts /\ b.smallest > size
                    <6>1. b \in h.bursts /\ b.smallest > path_mtu /\ b.smallest \in Int
                        BY <4>3 DEF TooBig, Bursts
                    <6> QED
                        BY <1>3, <4>5, <6>1
                <5> QED
                    BY <4>1, <5>1
            <4> QED
                BY <4>3, <4>4, <4>5
        <3> QED
            BY <3>1, <3>2
    <2>4. /\ m \in MtuRecords /\ m.probe = mtud.probe /\ m.lost = mtud.lost /\ m.current = mtud.current /\ m.detector = g
          /\ m.phase = mtud.phase /\ m.lower = mtud.lower /\ m.upper = mtud.upper /\ m.last = mtud.last
        <3>1. g \in Detectors
            BY <2>3
        <3> QED
            BY <1>3, <2>2, <3>1 DEF MtuRecords
    <2>5. InFlightProbe(m) = InFlightProbe(mtud)
        BY <2>4 DEF InFlightProbe
    <2>6. ProbeOk(m, sent)
        BY <1>1, <1>4, <1>11, <2>4, <2>5 DEF ProbeOk
    <2>7. searched => SearchOk(m, sent)
        <3>1. SUFFICES ASSUME searched PROVE SearchOk(m, sent)
            OBVIOUS
        <3>2. SearchOk(mtud, mtu_sent)
            BY <1>1, <3>1
        <3>3. InFlightProbe(m) # 0 => sent[InFlightProbe(m)] = mtu_sent[InFlightProbe(m)]
            BY <1>4, <2>6 DEF ProbeOk
        <3>4. m.phase = "Searching" => BracketOk(m)
            BY <2>4, <3>2 DEF SearchOk, BracketOk
        <3>5. \A k \in DOMAIN sent : k # InFlightProbe(m) => sent[k].fits
            BY <1>4, <2>5, <3>2 DEF SearchOk
        <3>6. InFlightProbe(m) # 0 => (sent[InFlightProbe(m)].fits <=> m.last <= path_mtu)
            BY <2>4, <2>5, <3>2, <3>3 DEF SearchOk
        <3> QED
            BY <2>4, <3>2, <3>4, <3>5, <3>6 DEF SearchOk
    <2>8. IsFiniteSet(g.bursts) /\ Cardinality(g.bursts) <= Threshold
        <3>1. IsFiniteSet(g.bursts) /\ Cardinality(g.bursts) <= Cardinality(h.bursts)
            BY <1>9, <2>3, FS_Subset
        <3>2. Cardinality(h.bursts) <= Threshold /\ Cardinality(h.bursts) \in Nat /\ Cardinality(g.bursts) \in Nat
            BY <1>1, <1>8, <1>9, <3>1, FS_CardinalityType DEF DetectorOk
        <3> QED
            BY <1>3, <3>1, <3>2
    <2>9. DetectorOk(m, sent)
        <3>1. \A b \in g.bursts : b.latest \in 1 .. mtu_pn - 1 /\ b.latest \notin DOMAIN sent
            BY <1>1, <1>4, <1>8, <2>3 DEF DetectorOk
        <3>2. \A k \in DOMAIN sent : k >= path_since => (sent[k].fits <=> sent[k].size <= path_mtu)
            BY <1>1, <1>4 DEF DetectorOk
        <3>3. g.post < mtu_pn /\ (g.acked > path_mtu => g.post < path_since)
            BY <1>1, <1>3, <1>6, <1>8, <2>3 DEF DetectorOk
        <3> QED
            BY <2>3, <2>4, <2>8, <3>1, <3>2, <3>3 DEF DetectorOk
    <2>10. SeenOk(m, seen)
        <3>1. TooBig(g.bursts) \subseteq g.bursts
            BY DEF TooBig
        <3>2. IsFiniteSet(TooBig(g.bursts)) /\ Cardinality(TooBig(g.bursts)) \in Nat
            BY <2>8, <3>1, FS_Subset, FS_CardinalityType
        <3>3. CASE seen = 0
            BY <2>4, <3>2, <3>3 DEF SeenOk
        <3>4. CASE seen = holes /\ size <= path_mtu
            <4>1. TooBig(h.bursts) = TooBig(g.bursts)
                BY <2>3, <3>4 DEF TooBig
            <4> QED
                BY <1>1, <1>8, <2>4, <3>4, <4>1 DEF SeenOk
        <3> QED
            BY <1>7, <3>3, <3>4
    <2> QED
        BY <1>5, <1>7, <2>4, <2>6, <2>7, <2>9, <2>10
<1> QED
    BY <1>10, <1>11

LEMMA AcknowledgedStep ==
    ASSUME MtuInv, NEW pn \in 1 .. MaxPn, NEW limit, Acknowledged(pn, limit)
    PROVE  MtuInv'
<1>1. PICK m : m = Acked(mtud, pn, mtu_sent[pn].size)
    OBVIOUS
<1>2. PICK sent : sent = [k \in DOMAIN mtu_sent \ {pn} |-> mtu_sent[k]]
    OBVIOUS
<1>3. PICK seen : seen = IF mtu_sent[pn].size > path_mtu THEN 0 ELSE holes
    OBVIOUS
<1>4. PICK largest : largest = IF pn > mtu_acked THEN pn ELSE mtu_acked
    OBVIOUS
<1>5. /\ pn \in DOMAIN mtu_sent /\ mtu_sent[pn].fits /\ mtu_acked' = largest
      /\ Resolve(m, sent, limit, largest, seen) /\ UNCHANGED <<mtu_pn, path_mtu, path_since>>
    BY <1>1, <1>2, <1>3, <1>4 DEF Acknowledged
<1>6. /\ m \in MtuRecords /\ SentMtu(sent) /\ ProbeOk(m, sent) /\ (searched => SearchOk(m, sent))
      /\ DetectorOk(m, sent) /\ seen \in Nat /\ SeenOk(m, seen)
    BY <1>1, <1>2, <1>3, <1>5, AckedFacts
<1>7. MtuType /\ mtu_acked' \in Nat
    BY <1>4, <1>5, MtuConstants DEF MtuInv, MtuType
<1> QED
    BY <1>5, <1>6, <1>7, MtuResolveStep

LEMMA LossTimeoutStep ==
    ASSUME MtuInv, NEW limit, LossTimeout(limit)
    PROVE  MtuInv'
<1>1. /\ Resolve(mtud, mtu_sent, limit, mtu_acked, holes) /\ UNCHANGED <<mtu_pn, path_mtu, path_since>>
      /\ mtu_acked' = mtu_acked
    BY DEF LossTimeout
<1>2. PICK m \in MtuRecords : m = mtud
    BY DEF MtuInv, MtuType
<1>3. PICK sent : sent = mtu_sent
    OBVIOUS
<1>4. PICK seen \in Nat : seen = holes
    BY DEF MtuInv, MtuType
<1>5. PICK largest : largest = mtu_acked
    OBVIOUS
<1>6. MtuType /\ SentMtu(sent) /\ ProbeOk(m, sent) /\ (searched => SearchOk(m, sent)) /\ DetectorOk(m, sent)
      /\ SeenOk(m, seen) /\ mtu_acked' \in Nat
    BY <1>1, <1>2, <1>3, <1>4 DEF MtuInv, MtuType, SeenOk
<1>7. Resolve(m, sent, limit, largest, seen)
    BY <1>1, <1>2, <1>3, <1>4, <1>5
<1> QED
    BY <1>1, <1>6, <1>7, MtuResolveStep

-----------------------------------------------------------------------------
(* MTU discovery: sending *)

LEMMA SendMtuFacts ==
    ASSUME MtuType, NEW size \in Int, SendMtu(size)
    PROVE  /\ mtu_pn' = mtu_pn + 1 /\ mtu_pn' \in Nat \ {0} /\ mtu_pn \in Nat /\ mtu_pn # 0
           /\ DOMAIN mtu_sent' = DOMAIN mtu_sent \cup {mtu_pn} /\ mtu_pn \notin DOMAIN mtu_sent
           /\ \A pn \in DOMAIN mtu_sent : mtu_sent'[pn] = mtu_sent[pn]
           /\ mtu_sent'[mtu_pn].size = size /\ (mtu_sent'[mtu_pn].fits <=> size <= path_mtu)
           /\ SentMtu(mtu_sent)'
           /\ 1 .. mtu_pn - 1 \subseteq 1 .. mtu_pn' - 1 /\ 1 .. mtu_pn \subseteq 1 .. mtu_pn'
<1>1. mtu_pn' = mtu_pn + 1 /\ mtu_pn \in Nat /\ mtu_pn # 0
    BY DEF MtuType, SendMtu
<1>2. mtu_pn' \in Nat \ {0} /\ 1 .. mtu_pn - 1 \subseteq 1 .. mtu_pn' - 1 /\ 1 .. mtu_pn \subseteq 1 .. mtu_pn'
      /\ mtu_pn \in 1 .. mtu_pn' - 1
    BY <1>1
<1>3. DOMAIN mtu_sent \subseteq 1 .. mtu_pn - 1
    BY DEF MtuType, SentMtu
<1>4. mtu_pn \notin DOMAIN mtu_sent
    BY <1>1, <1>3
<1>5. DOMAIN mtu_sent' = DOMAIN mtu_sent \cup {mtu_pn}
    BY DEF SendMtu
<1>6. \A pn \in DOMAIN mtu_sent : mtu_sent'[pn] = mtu_sent[pn]
    BY <1>4 DEF SendMtu
<1>7. mtu_sent'[mtu_pn] = [size |-> size, fits |-> size <= path_mtu]
    BY DEF SendMtu
<1>8. mtu_sent'[mtu_pn].size = size /\ (mtu_sent'[mtu_pn].fits <=> size <= path_mtu)
      /\ mtu_sent'[mtu_pn] \in [size : Int, fits : BOOLEAN]
    <2>1. PICK f \in BOOLEAN : f = (size <= path_mtu)
        <3>1. (size <= path_mtu) \in BOOLEAN
            OBVIOUS
        <3> QED
            BY <3>1, Zenon
    <2>2. PICK e : e = [size |-> size, fits |-> f]
        OBVIOUS
    <2>3. e \in [size : Int, fits : BOOLEAN] /\ e.size = size /\ e.fits = f
        BY <2>2
    <2>4. mtu_sent'[mtu_pn] = e
        BY <1>7, <2>1, <2>2
    <2> QED
        BY <2>1, <2>3, <2>4
<1>9. DOMAIN mtu_sent' \subseteq 1 .. mtu_pn' - 1
    BY <1>2, <1>3, <1>5
<1>10. \A pn \in DOMAIN mtu_sent' : mtu_sent'[pn] \in [size : Int, fits : BOOLEAN]
    BY <1>5, <1>6, <1>8 DEF MtuType, SentMtu
<1>11. SentMtu(mtu_sent)'
    BY <1>9, <1>10 DEF SentMtu
<1> QED
    BY <1>1, <1>2, <1>4, <1>5, <1>6, <1>8, <1>11

\* A packet that is sent leaves the detector as it was.
LEMMA SendDetector ==
    ASSUME MtuType, DetectorOk(mtud, mtu_sent), holes <= Cardinality(TooBig(mtud.detector.bursts)),
           NEW size \in Int, SendMtu(size), mtud'.detector = mtud.detector, UNCHANGED <<path_mtu, path_since, holes>>
    PROVE  DetectorOk(mtud, mtu_sent)' /\ holes' <= Cardinality(TooBig(mtud.detector.bursts))'
<1>1. /\ mtu_pn' = mtu_pn + 1 /\ mtu_pn \in Nat
      /\ DOMAIN mtu_sent' = DOMAIN mtu_sent \cup {mtu_pn} /\ mtu_pn \notin DOMAIN mtu_sent
      /\ \A pn \in DOMAIN mtu_sent : mtu_sent'[pn] = mtu_sent[pn]
      /\ mtu_sent'[mtu_pn].size = size /\ (mtu_sent'[mtu_pn].fits <=> size <= path_mtu)
      /\ 1 .. mtu_pn - 1 \subseteq 1 .. mtu_pn' - 1
    BY SendMtuFacts
<1>2. PICK h : h = mtud.detector
    OBVIOUS
<1>3. mtud'.detector = h
    BY <1>2
<1>4. \A b \in h.bursts : b.latest \in 1 .. mtu_pn' - 1 /\ b.latest \notin DOMAIN mtu_sent'
    <2>1. ASSUME NEW b \in h.bursts
          PROVE  b.latest \in 1 .. mtu_pn - 1 /\ b.latest \notin DOMAIN mtu_sent
        BY <1>2 DEF DetectorOk
    <2>2. mtu_pn \notin 1 .. mtu_pn - 1
        BY <1>1
    <2> QED
        BY <1>1, <2>1, <2>2
<1>5. h.post < mtu_pn'
    <2>1. h.post \in Nat /\ h.post < mtu_pn
        BY <1>2 DEF DetectorOk, MtuType, MtuRecords, Detectors
    <2> QED
        BY <1>1, <2>1
<1>6. \A pn \in DOMAIN mtu_sent' : pn >= path_since' => (mtu_sent'[pn].fits <=> mtu_sent'[pn].size <= path_mtu')
    BY <1>1 DEF DetectorOk
<1>7. /\ h.burst = NoBurst /\ IsFiniteSet(h.bursts) /\ Cardinality(h.bursts) <= Threshold
      /\ h.acked > path_mtu => h.post < path_since
    BY <1>2 DEF DetectorOk
<1>8. DetectorOk(mtud, mtu_sent)'
    BY <1>3, <1>4, <1>5, <1>6, <1>7 DEF DetectorOk
<1> QED
    BY <1>2, <1>3, <1>8 DEF TooBig

LEMMA SendDatagramStep ==
    ASSUME MtuInv, NEW size \in {MinMtu - 1, MinMtu, mtud.current}, SendDatagram(size)
    PROVE  MtuInv'
<1>1. /\ MtuType /\ ProbeOk(mtud, mtu_sent) /\ (searched => SearchOk(mtud, mtu_sent))
      /\ DetectorOk(mtud, mtu_sent) /\ holes <= Cardinality(TooBig(mtud.detector.bursts))
    BY DEF MtuInv
<1>2. size \in Int /\ mtud.current \in Int
    BY <1>1, MtuConstants DEF MtuType, MtuRecords
<1>3. /\ size <= mtud.current /\ SendMtu(size) /\ UNCHANGED <<mtud, mtu_acked, path_mtu, path_since, holes, searched>>
      /\ mtu_setting' = [mtu_setting EXCEPT !.datagrams = mtu_setting.datagrams - 1]
    BY DEF SendDatagram
<1>4. PICK left_ \in Int : left_ = mtu_setting.datagrams - 1
    BY <1>1 DEF MtuType
<1>5. /\ mtu_setting'.peer_max = mtu_setting.peer_max
      /\ mtu_setting'.minimum_change = mtu_setting.minimum_change
      /\ mtu_setting' \in [minimum_change : Nat, peer_max : Nat, path : Nat, initial : Nat,
                           datagrams : Int, drops : Int, changes : Int, restarts : Int]
    <2>1. mtu_setting' = [mtu_setting EXCEPT !.datagrams = left_]
        BY <1>3, <1>4
    <2> QED
        BY <1>1, <2>1 DEF MtuType
<1>6. Target' = Target
    BY <1>3, <1>5 DEF Target
<1>7. /\ mtu_pn' = mtu_pn + 1 /\ mtu_pn' \in Nat \ {0} /\ mtu_pn # 0
      /\ DOMAIN mtu_sent' = DOMAIN mtu_sent \cup {mtu_pn} /\ mtu_pn \notin DOMAIN mtu_sent
      /\ \A pn \in DOMAIN mtu_sent : mtu_sent'[pn] = mtu_sent[pn]
      /\ mtu_sent'[mtu_pn].size = size /\ (mtu_sent'[mtu_pn].fits <=> size <= path_mtu)
      /\ SentMtu(mtu_sent)' /\ 1 .. mtu_pn \subseteq 1 .. mtu_pn'
    BY <1>1, <1>2, <1>3, SendMtuFacts
<1>8. MtuType'
    BY <1>1, <1>3, <1>5, <1>7 DEF MtuType
<1>9. DetectorOk(mtud, mtu_sent)' /\ holes' <= Cardinality(TooBig(mtud.detector.bursts))'
    BY <1>1, <1>2, <1>3, SendDetector
<1>10. InFlightProbe(mtud)' = InFlightProbe(mtud)
    BY <1>3 DEF InFlightProbe
<1>11. ProbeOk(mtud, mtu_sent)'
    BY <1>1, <1>3, <1>7, <1>10 DEF ProbeOk
<1>12. searched' => SearchOk(mtud, mtu_sent)'
    <2>1. SUFFICES ASSUME searched' PROVE SearchOk(mtud, mtu_sent)'
        OBVIOUS
    <2>2. SearchOk(mtud, mtu_sent)
        BY <1>1, <1>3, <2>1
    <2>3. size <= path_mtu
        <3>1. mtud.current <= Target
            BY <2>2 DEF SearchOk
        <3> QED
            BY <1>1, <1>2, <1>3, <3>1, MtuNumbers
    <2>4. \A pn \in DOMAIN mtu_sent' : pn # InFlightProbe(mtud)' => mtu_sent'[pn].fits
        BY <1>7, <1>10, <2>2, <2>3 DEF SearchOk
    <2>5. InFlightProbe(mtud)' # 0 => mtu_sent'[InFlightProbe(mtud)'] = mtu_sent[InFlightProbe(mtud)]
        BY <1>1, <1>7, <1>10 DEF ProbeOk
    <2>6. mtud'.phase = "Searching" => BracketOk(mtud)'
        BY <1>3, <1>5, <1>6, <2>2 DEF SearchOk, BracketOk
    <2>7. mtud'.phase = "Complete" => Target' - mtud'.current < 2 * mtu_setting'.minimum_change
        BY <1>3, <1>5, <1>6, <2>2 DEF SearchOk
    <2>8. mtud'.current <= Target' /\ mtud'.phase \in {"Searching", "Complete"}
        BY <1>3, <1>6, <2>2 DEF SearchOk
    <2>9. InFlightProbe(mtud)' # 0 => (mtu_sent'[InFlightProbe(mtud)'].fits <=> mtud'.last <= path_mtu')
        BY <1>3, <1>10, <2>2, <2>5 DEF SearchOk
    <2> QED
        BY <2>4, <2>6, <2>7, <2>8, <2>9 DEF SearchOk
<1> QED
    BY <1>8, <1>9, <1>11, <1>12 DEF MtuInv

-----------------------------------------------------------------------------
(* MTU discovery: the search *)

\* A search that may be begun, or goes on, with no probe in flight.
MayProbe(m) ==
    m.phase = "Searching" /\ m.probe = 0 /\ m.current <= Target /\ BracketOk(m)

LEMMA SearchBegun ==
    ASSUME NEW a \in MtuRecords, NEW up \in Int
    PROVE  [a EXCEPT !.probe = 0, !.lost = 0, !.upper = up] \in MtuRecords
BY DEF MtuRecords

LEMMA NewSearchFacts ==
    ASSUME MtuType, NEW c \in MtuRecords, NEW m, m = NewSearch(c)
    PROVE  /\ m \in MtuRecords /\ m.detector = c.detector /\ m.current = c.current
           /\ m.phase = "Searching" /\ m.probe = 0 /\ m.lost = 0
           /\ c.current <= Target => MayProbe(m)
<1>1. MtuUpperBound \in Nat /\ mtu_setting.peer_max \in Nat /\ c.current \in Int
    BY MtuNumbers DEF MtuRecords
<1>2. PICK low \in Int : low = MtuMin(c.current, mtu_setting.peer_max)
    BY <1>1 DEF MtuMin
<1>3. PICK up \in Int : up = Clamp(MtuUpperBound, low, mtu_setting.peer_max)
    BY <1>1 DEF Clamp
<1>4. m = [c EXCEPT !.phase = "Searching", !.lower = low, !.last = low, !.probe = 0, !.lost = 0, !.upper = up]
    BY <1>2, <1>3 DEF NewSearch
<1>5. /\ m.detector = c.detector /\ m.current = c.current /\ m.phase = "Searching" /\ m.probe = 0 /\ m.lost = 0
      /\ m.lower = low /\ m.last = low /\ m.upper = up
    BY <1>4 DEF MtuRecords
<1>6. m \in MtuRecords
    <2>1. PICK a : a = [c EXCEPT !.phase = "Searching", !.lower = low, !.last = low]
        OBVIOUS
    <2>2. "Searching" \in MtuPhases
        BY DEF MtuPhases
    <2>3. a \in MtuRecords
        BY <2>1, <2>2 DEF MtuRecords
    <2>4. m = [a EXCEPT !.probe = 0, !.lost = 0, !.upper = up]
        BY <1>4, <2>1
    <2> QED
        BY <2>3, <2>4, SearchBegun
<1>7. ASSUME c.current <= Target
      PROVE  MayProbe(m)
    <2>1. low = c.current
        BY <1>1, <1>2, <1>7, MtuNumbers DEF MtuMin
    <2>2. Target <= up /\ low <= up /\ up <= MtuUpperBound /\ up <= mtu_setting.peer_max
        BY <1>1, <1>3, <1>7, <2>1, MtuNumbers DEF Clamp
    <2>3. BracketOk(m)
        BY <1>5, <2>1, <2>2 DEF BracketOk
    <2> QED
        BY <1>5, <1>7, <2>3 DEF MayProbe
<1> QED
    BY <1>5, <1>6, <1>7

\* The search that is over has left less than two steps.
LEMMA NextSizesFacts ==
    ASSUME MtuType, NEW n \in MtuRecords, NEW c \in Int, n.lower = c, c <= n.upper,
           n.last = c \/ n.last = n.upper + 1
    PROVE  /\ NextSizes(n) = {} => n.upper - c < 2 * mtu_setting.minimum_change
           /\ \A s \in NextSizes(n) : s \in Int /\ s <= n.upper
<1>1. PICK u \in Int : u = n.upper
    BY DEF MtuRecords
<1>2. PICK l \in Int : l = n.last
    BY DEF MtuRecords
<1>3. PICK mc \in Nat : mc = mtu_setting.minimum_change
    BY DEF MtuType
<1>4. PICK mid \in Int : mid = (c + u) \div 2
    OBVIOUS
<1>5. 2 * mid <= c + u /\ c + u <= 2 * mid + 1
    BY <1>4
<1>6. NextSizes(n) = IF Distance(mid, l) >= mc THEN {mid} ELSE IF u - l >= mc THEN {u} ELSE {}
    BY <1>1, <1>2, <1>3, <1>4 DEF NextSizes
<1>7. c <= u /\ (l = c \/ l = u + 1)
    BY <1>1, <1>2
<1>8. \A s \in NextSizes(n) : s \in Int /\ s <= u
    BY <1>5, <1>6, <1>7
<1>9. ASSUME NextSizes(n) = {}
      PROVE  u - c < 2 * mc
    <2>1. ~(Distance(mid, l) >= mc) /\ ~(u - l >= mc)
        BY <1>6, <1>9
    <2>2. CASE l = c
        BY <1>7, <2>1, <2>2
    <2>3. CASE l = u + 1
        <3>1. mid < l
            BY <1>5, <1>7, <2>3
        <3>2. l - mid < mc
            BY <2>1, <3>1 DEF Distance
        <3> QED
            BY <1>5, <2>3, <3>2
    <2> QED
        BY <1>7, <2>2, <2>3
<1> QED
    BY <1>1, <1>3, <1>8, <1>9

LEMMA SearchNarrowed ==
    ASSUME NEW m \in MtuRecords, NEW low \in Int, NEW up \in Int
    PROVE  [m EXCEPT !.lower = low, !.upper = up, !.lost = 0] \in MtuRecords
BY DEF MtuRecords

LEMMA ProbeChosen ==
    ASSUME NEW n \in MtuRecords, NEW pn \in Nat, NEW s \in Int
    PROVE  [n EXCEPT !.probe = pn, !.last = s] \in MtuRecords
BY DEF MtuRecords

\* What poll_transmit makes of a search.
LEMMA ProbeFacts ==
    ASSUME MtuType, NEW m \in MtuRecords, m.phase = "Searching", m.probe = 0, NEW p, p = Probe(m)
    PROVE  /\ p \in MtuRecords /\ p.detector = m.detector /\ p.current = m.current
           /\ (p.phase = "Searching" /\ p.probe = mtu_pn) \/ (p.phase = "Complete" /\ p.probe = 0)
           /\ MayProbe(m) => (p.phase = "Searching" => BracketOk(p))
           /\ MayProbe(m) => (p.phase = "Complete" => Target - p.current < 2 * mtu_setting.minimum_change)
<1>0. mtu_pn \in Nat /\ mtu_pn # 0
    BY DEF MtuType
<1>1. CASE 0 < m.lost /\ m.lost < MaxRetransmits
    <2>1. p = [m EXCEPT !.probe = mtu_pn]
        BY <1>1 DEF Probe
    <2>2. p \in MtuRecords /\ p.detector = m.detector /\ p.current = m.current /\ p.phase = "Searching" /\ p.probe = mtu_pn
          /\ p.lower = m.lower /\ p.upper = m.upper /\ p.last = m.last /\ p.lost = m.lost
        BY <1>0, <2>1 DEF MtuRecords
    <2>3. m.lost # 0
        BY <1>1
    <2>4. MayProbe(m) => BracketOk(p)
        BY <1>0, <2>2, <2>3 DEF MayProbe, BracketOk
    <2> QED
        BY <2>2, <2>4
<1>2. CASE ~(0 < m.lost /\ m.lost < MaxRetransmits)
    <2>1. PICK low \in Int : low = IF m.lost = 0 THEN m.last ELSE m.lower
        BY DEF MtuRecords
    <2>2. PICK up \in Int : up = IF m.lost = 0 THEN m.upper ELSE m.last - 1
        <3>1. m.last \in Int /\ m.upper \in Int
            BY DEF MtuRecords
        <3> QED
            BY <3>1
    <2>3. PICK n : n = Narrowed(m, m.lost = 0)
        OBVIOUS
    <2>4. n = [m EXCEPT !.lower = low, !.upper = up, !.lost = 0]
        BY <2>1, <2>2, <2>3 DEF Narrowed
    <2>5. /\ n.lower = low /\ n.upper = up /\ n.lost = 0 /\ n.last = m.last /\ n.probe = 0 /\ n.phase = "Searching"
          /\ n.current = m.current /\ n.detector = m.detector
        BY <2>4 DEF MtuRecords
    <2>6. n \in MtuRecords
        BY <2>4, SearchNarrowed
    <2>7. p = IF NextSizes(n) = {} THEN [n EXCEPT !.phase = "Complete"]
              ELSE [n EXCEPT !.probe = mtu_pn, !.last = CHOOSE s \in NextSizes(n) : TRUE]
        BY <1>2, <2>3 DEF Probe
    <2>8. \A s \in NextSizes(n) : s \in Int
        <3>1. (n.lower + n.upper) \div 2 \in Int /\ n.upper \in Int
            BY <2>5
        <3> QED
            BY <3>1 DEF NextSizes
    <2>9. MayProbe(m) => /\ low = m.current /\ low <= up /\ Target <= up /\ (n.last = low \/ n.last = up + 1)
                         /\ up <= MtuUpperBound /\ up <= mtu_setting.peer_max
        <3>1. SUFFICES ASSUME MayProbe(m)
                       PROVE  /\ low = m.current /\ low <= up /\ Target <= up /\ (n.last = low \/ n.last = up + 1)
                              /\ up <= MtuUpperBound /\ up <= mtu_setting.peer_max
            OBVIOUS
        <3>2. m.last \in Int /\ m.upper \in Int /\ m.current \in Int
            BY DEF MtuRecords
        <3>3. m.current <= Target /\ BracketOk(m)
            BY <3>1 DEF MayProbe
        <3>4. CASE m.lost = 0
            BY <2>1, <2>2, <2>5, <3>2, <3>3, <3>4, MtuNumbers DEF BracketOk
        <3>5. CASE m.lost # 0
            <4>1. path_mtu < m.last /\ m.lower = m.current /\ m.last <= m.upper
                  /\ m.upper <= MtuUpperBound /\ m.upper <= mtu_setting.peer_max
                BY <3>3, <3>5 DEF BracketOk
            <4>2. low = m.current /\ up = m.last - 1
                BY <2>1, <2>2, <3>5, <4>1
            <4> QED
                BY <2>5, <3>2, <3>3, <4>1, <4>2, MtuNumbers
        <3> QED
            BY <3>4, <3>5
    <2>10. CASE NextSizes(n) = {}
        <3>1. p = [n EXCEPT !.phase = "Complete"] /\ "Complete" \in MtuPhases
            BY <2>7, <2>10 DEF MtuPhases
        <3>2. p \in MtuRecords /\ p.detector = n.detector /\ p.current = n.current /\ p.phase = "Complete" /\ p.probe = n.probe
            BY <2>6, <3>1 DEF MtuRecords
        <3>3. ASSUME MayProbe(m)
              PROVE  Target - p.current < 2 * mtu_setting.minimum_change
            <4>1. up - low < 2 * mtu_setting.minimum_change
                BY <2>5, <2>6, <2>9, <2>10, <3>3, NextSizesFacts
            <4>2. mtu_setting.minimum_change \in Nat
                BY DEF MtuType
            <4> QED
                BY <2>5, <2>9, <3>2, <3>3, <4>1, <4>2, MtuNumbers
        <3> QED
            BY <2>5, <3>2, <3>3
    <2>11. CASE NextSizes(n) # {}
        <3>1. PICK s : s = CHOOSE x \in NextSizes(n) : TRUE
            OBVIOUS
        <3>2. s \in NextSizes(n) /\ s \in Int
            BY <2>8, <2>11, <3>1
        <3>3. p = [n EXCEPT !.probe = mtu_pn, !.last = s]
            BY <2>7, <2>11, <3>1
        <3>4. p.detector = n.detector /\ p.current = n.current /\ p.phase = n.phase /\ p.probe = mtu_pn
              /\ p.lower = n.lower /\ p.upper = n.upper /\ p.last = s /\ p.lost = n.lost
            BY <2>6, <3>3 DEF MtuRecords
        <3>5. p \in MtuRecords
            <4>1. PICK pn \in Nat : pn = mtu_pn
                BY <1>0
            <4>2. PICK size \in Int : size = s
                BY <3>2
            <4>3. p = [n EXCEPT !.probe = pn, !.last = size]
                BY <3>3, <4>1, <4>2
            <4>4. [n EXCEPT !.probe = pn, !.last = size] \in MtuRecords
                BY <2>6, ProbeChosen
            <4> QED
                BY <4>3, <4>4
        <3>6. ASSUME MayProbe(m)
              PROVE  BracketOk(p)
            <4>1. s <= up
                BY <2>5, <2>6, <2>9, <3>2, <3>6, NextSizesFacts
            <4> QED
                BY <1>0, <2>5, <2>9, <3>4, <3>6, <4>1 DEF BracketOk
        <3> QED
            BY <2>5, <3>4, <3>5, <3>6
    <2> QED
        BY <2>10, <2>11
<1> QED
    BY <1>1, <1>2

LEMMA PollProbeStep ==
    ASSUME MtuInv, PollProbe
    PROVE  MtuInv'
<1>1. /\ MtuType /\ ProbeOk(mtud, mtu_sent) /\ (searched => SearchOk(mtud, mtu_sent))
      /\ DetectorOk(mtud, mtu_sent) /\ holes <= Cardinality(TooBig(mtud.detector.bursts))
    BY DEF MtuInv
<1>2. PICK m : m = IF mtud.phase # "Searching" THEN NewSearch(mtud) ELSE mtud
    OBVIOUS
<1>3. PICK p : p = Probe(m)
    OBVIOUS
<1>4. /\ m.probe = 0 /\ mtud' = p
      /\ searched' = IF mtud.phase # "Searching"
                     THEN mtud.current <= Target /\ \A pn \in DOMAIN mtu_sent : mtu_sent[pn].fits
                     ELSE searched
      /\ mtu_setting' = [mtu_setting EXCEPT !.restarts = IF mtud.phase = "Complete" THEN mtu_setting.restarts - 1
                                                         ELSE mtu_setting.restarts]
      /\ IF p.probe = 0 THEN UNCHANGED <<mtu_sent, mtu_pn>> ELSE SendMtu(p.last)
      /\ UNCHANGED <<mtu_acked, path_mtu, path_since, holes>>
    BY <1>2, <1>3 DEF PollProbe
<1>5. mtud \in MtuRecords /\ mtu_pn \in Nat /\ mtu_pn # 0
    BY <1>1 DEF MtuType
<1>6. /\ m \in MtuRecords /\ m.detector = mtud.detector /\ m.current = mtud.current /\ m.phase = "Searching"
      /\ mtud.phase # "Searching" /\ mtud.current <= Target => MayProbe(m)
    BY <1>1, <1>2, <1>5, NewSearchFacts
<1>7. /\ p \in MtuRecords /\ p.detector = m.detector /\ p.current = m.current
      /\ (p.phase = "Searching" /\ p.probe = mtu_pn) \/ (p.phase = "Complete" /\ p.probe = 0)
      /\ MayProbe(m) => (p.phase = "Searching" => BracketOk(p))
      /\ MayProbe(m) => (p.phase = "Complete" => Target - p.current < 2 * mtu_setting.minimum_change)
    BY <1>1, <1>3, <1>4, <1>6, ProbeFacts
<1>8. ASSUME searched'
      PROVE  MayProbe(m) /\ \A pn \in DOMAIN mtu_sent : mtu_sent[pn].fits
    <2>1. CASE mtud.phase # "Searching"
        BY <1>4, <1>6, <1>8, <2>1
    <2>2. CASE mtud.phase = "Searching"
        <3>1. m = mtud /\ SearchOk(mtud, mtu_sent)
            BY <1>1, <1>2, <1>4, <1>8, <2>2
        <3>2. InFlightProbe(mtud) = 0
            BY <1>4, <3>1 DEF InFlightProbe
        <3>3. \A pn \in DOMAIN mtu_sent : pn # 0
            BY <1>1 DEF MtuType, SentMtu
        <3> QED
            BY <1>4, <2>2, <3>1, <3>2, <3>3 DEF SearchOk, MayProbe
    <2> QED
        BY <2>1, <2>2
<1>9. /\ mtu_setting'.peer_max = mtu_setting.peer_max
      /\ mtu_setting'.minimum_change = mtu_setting.minimum_change
      /\ mtu_setting' \in [minimum_change : Nat, peer_max : Nat, path : Nat, initial : Nat,
                           datagrams : Int, drops : Int, changes : Int, restarts : Int]
    <2>1. PICK left_ \in Int : left_ = IF mtud.phase = "Complete" THEN mtu_setting.restarts - 1 ELSE mtu_setting.restarts
        <3>1. mtu_setting.restarts \in Int
            BY <1>1 DEF MtuType
        <3> QED
            BY <3>1
    <2>2. mtu_setting' = [mtu_setting EXCEPT !.restarts = left_]
        BY <1>4, <2>1
    <2> QED
        BY <1>1, <2>2 DEF MtuType
<1>10. Target' = Target
    BY <1>4, <1>9 DEF Target
<1>11. searched' \in BOOLEAN
    <2>1. searched \in BOOLEAN
        BY <1>1 DEF MtuType
    <2>2. (mtud.current <= Target /\ \A pn \in DOMAIN mtu_sent : mtu_sent[pn].fits) \in BOOLEAN
        OBVIOUS
    <2> QED
        BY <1>4, <2>1, <2>2
<1>12. p.current \in Int /\ p.last \in Int /\ p.detector = mtud.detector
    BY <1>6, <1>7 DEF MtuRecords
<1>13. CASE p.phase = "Searching" /\ p.probe = mtu_pn
    <2>1. SendMtu(p.last)
        BY <1>4, <1>5, <1>13
    <2>2. /\ mtu_pn' = mtu_pn + 1 /\ mtu_pn' \in Nat \ {0} /\ mtu_pn # 0
          /\ DOMAIN mtu_sent' = DOMAIN mtu_sent \cup {mtu_pn} /\ mtu_pn \notin DOMAIN mtu_sent
          /\ \A pn \in DOMAIN mtu_sent : mtu_sent'[pn] = mtu_sent[pn]
          /\ mtu_sent'[mtu_pn].size = p.last /\ (mtu_sent'[mtu_pn].fits <=> p.last <= path_mtu)
          /\ SentMtu(mtu_sent)' /\ 1 .. mtu_pn \subseteq 1 .. mtu_pn'
        BY <1>1, <1>12, <2>1, SendMtuFacts
    <2>3. MtuType'
        BY <1>1, <1>4, <1>7, <1>9, <1>11, <2>2 DEF MtuType
    <2>4. DetectorOk(mtud, mtu_sent)' /\ holes' <= Cardinality(TooBig(mtud.detector.bursts))'
        BY <1>1, <1>4, <1>12, <2>1, SendDetector
    <2>5. InFlightProbe(mtud)' = mtu_pn
        BY <1>4, <1>13 DEF InFlightProbe
    <2>6. ProbeOk(mtud, mtu_sent)'
        BY <1>4, <2>2, <2>5 DEF ProbeOk
    <2>7. searched' => SearchOk(mtud, mtu_sent)'
        <3>1. SUFFICES ASSUME searched' PROVE SearchOk(mtud, mtu_sent)'
            OBVIOUS
        <3>2. MayProbe(m) /\ \A pn \in DOMAIN mtu_sent : mtu_sent[pn].fits
            BY <1>8, <3>1
        <3>3. BracketOk(mtud)'
            BY <1>4, <1>7, <1>9, <1>10, <1>13, <3>2 DEF BracketOk
        <3>4. mtud'.current <= Target'
            BY <1>4, <1>7, <1>10, <3>2 DEF MayProbe
        <3>5. \A pn \in DOMAIN mtu_sent' : pn # InFlightProbe(mtud)' => mtu_sent'[pn].fits
            BY <2>2, <2>5, <3>2
        <3>6. mtu_sent'[InFlightProbe(mtud)'].fits <=> mtud'.last <= path_mtu'
            BY <1>4, <2>2, <2>5
        <3> QED
            BY <1>4, <1>13, <3>3, <3>4, <3>5, <3>6 DEF SearchOk
    <2> QED
        BY <2>3, <2>4, <2>6, <2>7 DEF MtuInv
<1>14. CASE p.phase = "Complete" /\ p.probe = 0
    <2>1. UNCHANGED <<mtu_sent, mtu_pn>>
        BY <1>4, <1>14
    <2>2. SentMtu(mtu_sent)'
        BY <1>1, <2>1 DEF MtuType, SentMtu
    <2>3. MtuType'
        BY <1>1, <1>4, <1>7, <1>9, <1>11, <2>1, <2>2 DEF MtuType
    <2>4. DetectorOk(mtud, mtu_sent)' /\ holes' <= Cardinality(TooBig(mtud.detector.bursts))'
        BY <1>1, <1>4, <1>12, <2>1 DEF DetectorOk, TooBig
    <2>5. InFlightProbe(mtud)' = 0
        BY <1>4, <1>14 DEF InFlightProbe
    <2>6. ProbeOk(mtud, mtu_sent)'
        BY <2>5 DEF ProbeOk
    <2>7. searched' => SearchOk(mtud, mtu_sent)'
        <3>1. SUFFICES ASSUME searched' PROVE SearchOk(mtud, mtu_sent)'
            OBVIOUS
        <3>2. MayProbe(m) /\ \A pn \in DOMAIN mtu_sent : mtu_sent[pn].fits
            BY <1>8, <3>1
        <3>3. mtud'.current <= Target' /\ Target' - mtud'.current < 2 * mtu_setting'.minimum_change
            BY <1>4, <1>7, <1>9, <1>10, <1>14, <3>2 DEF MayProbe
        <3> QED
            BY <1>4, <1>14, <2>1, <2>5, <3>2, <3>3 DEF SearchOk
    <2> QED
        BY <2>3, <2>4, <2>6, <2>7 DEF MtuInv
<1> QED
    BY <1>7, <1>13, <1>14

LEMMA PathChangesStep ==
    ASSUME MtuInv, NEW mtu \in MinMtu .. MtuUpperBound, PathChanges(mtu)
    PROVE  MtuInv'
<1>1. MtuType /\ ProbeOk(mtud, mtu_sent) /\ DetectorOk(mtud, mtu_sent)
    BY DEF MtuInv
<1>2. /\ mtu_setting' = [mtu_setting EXCEPT !.changes = mtu_setting.changes - 1]
      /\ path_mtu' = mtu /\ path_since' = mtu_pn /\ searched' = FALSE /\ holes' = 0
      /\ UNCHANGED <<mtud, mtu_sent, mtu_pn, mtu_acked>>
    BY DEF PathChanges
<1>3. mtu \in Nat /\ MinMtu <= mtu
    BY MtuConstants
<1>4. mtu_setting' \in [minimum_change : Nat, peer_max : Nat, path : Nat, initial : Nat,
                        datagrams : Int, drops : Int, changes : Int, restarts : Int]
    <2>1. PICK left_ \in Int : left_ = mtu_setting.changes - 1
        BY <1>1 DEF MtuType
    <2>2. mtu_setting' = [mtu_setting EXCEPT !.changes = left_]
        BY <1>2, <2>1
    <2> QED
        BY <1>1, <2>2 DEF MtuType
<1>5. SentMtu(mtu_sent)' /\ mtu_pn \in 1 .. mtu_pn /\ mtu_pn \in Nat
    BY <1>1, <1>2 DEF MtuType, SentMtu
<1>6. MtuType'
    BY <1>1, <1>2, <1>3, <1>4, <1>5 DEF MtuType
<1>7. ProbeOk(mtud, mtu_sent)'
    BY <1>1, <1>2 DEF ProbeOk, InFlightProbe
<1>8. DetectorOk(mtud, mtu_sent)'
    <2>1. \A pn \in DOMAIN mtu_sent : ~(pn >= mtu_pn)
        BY <1>1, <1>5 DEF MtuType, SentMtu
    <2> QED
        BY <1>1, <1>2, <2>1 DEF DetectorOk
<1>9. holes' <= Cardinality(TooBig(mtud.detector.bursts))'
    <2>1. TooBig(mtud.detector.bursts)' \subseteq mtud.detector.bursts
        BY <1>2 DEF TooBig
    <2>2. Cardinality(TooBig(mtud.detector.bursts)') \in Nat
        BY <1>1, <2>1, FS_Subset, FS_CardinalityType DEF DetectorOk
    <2> QED
        BY <1>2, <2>2
<1> QED
    BY <1>2, <1>6, <1>7, <1>8, <1>9 DEF MtuInv

-----------------------------------------------------------------------------
(* MTU discovery: the theorem *)

LEMMA MtuStart == MtuInit => MtuInv
<1>1. SUFFICES ASSUME MtuInit PROVE MtuInv
    OBVIOUS
<1>2. /\ mtu_setting \in MtuSettings /\ path_mtu = mtu_setting.path
      /\ mtu_sent = <<>> /\ mtu_pn = 1 /\ mtu_acked = 0 /\ path_since = 1 /\ holes = 0 /\ searched = FALSE
    BY <1>1 DEF MtuInit
<1>3. /\ mtu_setting \in [minimum_change : Nat, peer_max : Nat, path : Nat, initial : Nat,
                           datagrams : Nat, drops : Nat, changes : Nat, restarts : Nat]
      /\ MinMtu <= mtu_setting.path /\ MinMtu \in Nat /\ Threshold \in Nat
    BY <1>2, MtuConstants
<1>4. /\ mtu_setting \in [minimum_change : Nat, peer_max : Nat, path : Nat, initial : Nat,
                           datagrams : Int, drops : Int, changes : Int, restarts : Int]
      /\ mtu_setting.path \in Nat /\ mtu_setting.peer_max \in Nat /\ mtu_setting.initial \in Nat
    BY <1>3
<1>5. PICK c \in Int : c = MtuMin(mtu_setting.initial, mtu_setting.peer_max)
    BY <1>4 DEF MtuMin
<1>6. PICK h : h = [bursts |-> {}, burst |-> NoBurst, post |-> 0, acked |-> MinMtu]
    OBVIOUS
<1>7. h \in Detectors /\ h.bursts = {} /\ h.burst = NoBurst /\ h.post = 0 /\ h.acked = MinMtu
    BY <1>3, <1>6 DEF Detectors, Bursts, NoBurst
<1>8. mtud = [current |-> c, phase |-> "Initial", lower |-> 0, upper |-> 0, last |-> 0, probe |-> 0, lost |-> 0,
              detector |-> h]
    BY <1>1, <1>5, <1>6 DEF MtuInit
<1>9. mtud \in MtuRecords /\ mtud.detector = h /\ mtud.phase = "Initial"
    BY <1>7, <1>8 DEF MtuRecords, MtuPhases
<1>10. DOMAIN mtu_sent = {}
    BY <1>2
<1>11. SentMtu(mtu_sent)
    BY <1>10 DEF SentMtu
<1>12. MtuType
    <2>1. mtu_pn \in Nat \ {0} /\ mtu_acked \in Nat /\ path_since \in 1 .. mtu_pn /\ holes \in Nat
        BY <1>2
    <2>2. path_mtu \in Nat /\ MinMtu <= path_mtu
        BY <1>2, <1>3, <1>4
    <2>3. searched \in BOOLEAN
        BY <1>2
    <2> QED
        BY <1>4, <1>9, <1>11, <2>1, <2>2, <2>3 DEF MtuType
<1>13. ProbeOk(mtud, mtu_sent)
    BY <1>9 DEF ProbeOk, InFlightProbe
<1>14. IsFiniteSet({}) /\ Cardinality({}) = 0 /\ TooBig({}) = {}
    BY FS_EmptySet DEF TooBig
<1>15. DetectorOk(mtud, mtu_sent)
    <2>1. mtud.detector.bursts = {} /\ mtud.detector.burst = NoBurst /\ mtud.detector.post = 0
        BY <1>7, <1>9
    <2>2. mtu_pn = 1 /\ path_since = 1 /\ Threshold \in Nat
        BY <1>2, <1>3
    <2>3. IsFiniteSet(mtud.detector.bursts) /\ Cardinality(mtud.detector.bursts) <= Threshold
        BY <1>14, <2>1, <2>2
    <2> QED
        BY <1>10, <2>1, <2>2, <2>3 DEF DetectorOk
<1>16. holes <= Cardinality(TooBig(mtud.detector.bursts))
    <2>1. mtud.detector.bursts = {} /\ holes = 0
        BY <1>2, <1>7, <1>9
    <2> QED
        BY <1>14, <2>1
<1> QED
    BY <1>2, <1>12, <1>13, <1>15, <1>16 DEF MtuInv

LEMMA MtuSteps == MtuInv /\ [MtuNext]_mtuVars => MtuInv'
<1>1. SUFFICES ASSUME MtuInv, [MtuNext]_mtuVars PROVE MtuInv'
    OBVIOUS
<1>2. ASSUME NEW size \in {MinMtu - 1, MinMtu, mtud.current}, SendDatagram(size) PROVE MtuInv'
    BY <1>1, <1>2, SendDatagramStep
<1>3. CASE PollProbe
    BY <1>1, <1>3, PollProbeStep
<1>4. ASSUME NEW pn \in 1 .. MaxPn, NEW limit \in 0 .. MaxPn, Acknowledged(pn, limit) PROVE MtuInv'
    BY <1>1, <1>4, AcknowledgedStep
<1>5. ASSUME NEW limit \in 0 .. MaxPn, LossTimeout(limit) PROVE MtuInv'
    BY <1>1, <1>5, LossTimeoutStep
<1>6. ASSUME NEW mtu \in MinMtu .. MtuUpperBound, PathChanges(mtu) PROVE MtuInv'
    BY <1>1, <1>6, PathChangesStep
<1>7. CASE UNCHANGED mtuVars
    BY <1>1, <1>7 DEF mtuVars, MtuInv, MtuType, SentMtu, ProbeOk, SearchOk, BracketOk, DetectorOk, TooBig, Target, InFlightProbe
<1> QED
    BY <1>1, <1>2, <1>3, <1>4, <1>5, <1>6, <1>7 DEF MtuNext

LEMMA MtuInvImplies == MtuInv => MtuFound
<1>1. SUFFICES ASSUME MtuInv PROVE MtuFound
    OBVIOUS
<1>2. SearchFindsMtu
    BY <1>1 DEF MtuInv, SearchFindsMtu, SearchOk
<1>3. ProbeIsTracked
    BY <1>1 DEF MtuInv, ProbeOk, InFlightProbe, ProbeIsTracked
<1>4. BlackHoleFound
    <2>1. TooBig(mtud.detector.bursts) \subseteq mtud.detector.bursts
        BY DEF TooBig
    <2>2. IsFiniteSet(mtud.detector.bursts) /\ Cardinality(mtud.detector.bursts) <= Threshold
          /\ holes <= Cardinality(TooBig(mtud.detector.bursts)) /\ holes \in Nat
        BY <1>1 DEF MtuInv, DetectorOk, MtuType
    <2>3. /\ Cardinality(TooBig(mtud.detector.bursts)) <= Cardinality(mtud.detector.bursts)
          /\ Cardinality(TooBig(mtud.detector.bursts)) \in Nat /\ Cardinality(mtud.detector.bursts) \in Nat
        BY <2>1, <2>2, FS_Subset, FS_CardinalityType
    <2> QED
        BY <2>2, <2>3, MtuConstants DEF BlackHoleFound
<1> QED
    BY <1>2, <1>3, <1>4 DEF MtuFound

\* MTU discovery for every minimum_change, limit of the peer, bound of the search,
\* threshold and path: a search over a path that stays the same ends within two steps of
\* what is admitted, and never above it (mtud.rs:195); the probe it waits for is tracked
\* (mod.rs:2370); and datagrams too big for the path are lost at most BLACK_HOLE_THRESHOLD
\* times before the MTU falls back (mtud.rs:446).
THEOREM MtuDiscovered == MtuSpec => []MtuFound
<1>1. MtuInit => MtuInv
    BY MtuStart
<1>2. MtuInv /\ [MtuNext]_mtuVars => MtuInv'
    BY MtuSteps
<1>3. MtuInv => MtuFound
    BY MtuInvImplies
<1> QED
    BY <1>1, <1>2, <1>3, PTL DEF MtuSpec

=============================================================================
