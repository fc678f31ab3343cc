--------------------------- MODULE ConnectionIds ---------------------------
(***************************************************************************)
(* The connection ids one end of a QUIC connection issues and the other    *)
(* end uses: CidState of the issuer (src/connection/cid_state.rs), its     *)
(* endpoint's table of ids (src/endpoint.rs), CidQueue of the user         *)
(* (src/cid_queue.rs) and the frames between them (src/connection/mod.rs). *)
(*                                                                         *)
(* An id is its sequence number.  The issuer's connection and its endpoint *)
(* exchange events: what the connection asks for is answered later.        *)
(* Frames are lost, overtaken, and sent again with the values of that      *)
(* time.  The ring buffer of CidQueue is the set of numbers it holds.      *)
(***************************************************************************)
EXTENDS Integers, Sequences, FiniteSets, FiniteSetsExt

CONSTANTS
    QueueLen,      \* CidQueue::LEN, announced as active_connection_id_limit
    MaxCid,        \* bound: ids issued
    CidSettings    \* alternatives: whether ids have a lifetime, whether the user is the
                   \* server, and, as bounds, losses and migrations

ASSUME CidConstants ==
    /\ QueueLen \in Nat \ {0} /\ MaxCid \in Nat
    /\ CidSettings \subseteq [lifetime : BOOLEAN, server : BOOLEAN, losses : Nat, migrations : Nat]

VARIABLES
    issuer,        \* CidState
    loc_cids,      \* the issuer's endpoint: the ids that route to the connection
    cids_issued,   \* the issuer's endpoint: the next sequence number
    requests,      \* events from the issuer's connection to its endpoint
    answers,       \* NewIdentifiers on the way back
    new_cids,      \* NEW_CONNECTION_ID frames to send
    user,          \* CidQueue: the ids held, and the active one
    retire_cids,   \* RETIRE_CONNECTION_ID frames to send
    cid_sent,      \* frames neither acknowledged nor declared lost
    cid_net,       \* frames that may still arrive
    cid_failure,   \* the transport error one end closed the connection with
    cid_setting

cidVars == <<issuer, loc_cids, cids_issued, requests, answers, new_cids, user, retire_cids,
             cid_sent, cid_net, cid_failure, cid_setting>>
cidFrames == <<cid_sent, cid_net>>

\* issue_first_cids: up to the peer's limit, the id of the handshake included.
FirstCids == QueueLen - 1

CidInit ==
    /\ cid_setting \in CidSettings
    /\ issuer = [issued |-> 1, active |-> {0}, prev_retire |-> 0, retire |-> 0,
                 expiring |-> IF cid_setting.lifetime THEN <<0>> ELSE <<>>, timer |-> FALSE]
    /\ loc_cids = {0}
    /\ cids_issued = 1
    /\ requests = <<[type |-> "NeedIdentifiers", count |-> FirstCids]>>
    /\ answers = <<>>
    /\ new_cids = {}
    /\ user = [known |-> {0}, offset |-> 0]
    /\ retire_cids = {}
    /\ cid_sent = {} /\ cid_net = {}
    /\ cid_failure = "none"

-----------------------------------------------------------------------------
(* The issuer's endpoint: handle_event and send_new_identifiers            *)

NewIds(n) == cids_issued .. cids_issued + n - 1

Issue(n) ==
    /\ cids_issued + n - 1 <= MaxCid
    /\ loc_cids' = loc_cids \cup NewIds(n)
    /\ cids_issued' = cids_issued + n
    /\ answers' = Append(answers, NewIds(n))

\* RetireConnectionId: the id no longer routes to the connection.
Forgotten(e) == {e.seq}

EndpointEvent ==
    /\ requests # <<>>
    /\ requests' = Tail(requests)
    /\ LET e == Head(requests) IN
         \/ e.type = "NeedIdentifiers" /\ Issue(e.count)
         \/ /\ e.type = "RetireConnectionId"
            /\ \/ /\ e.seq \in loc_cids /\ e.allow /\ cids_issued <= MaxCid
                  /\ loc_cids' = (loc_cids \ Forgotten(e)) \cup NewIds(1)
                  /\ cids_issued' = cids_issued + 1
                  /\ answers' = Append(answers, NewIds(1))
               \/ /\ e.seq \notin loc_cids \/ ~e.allow
                  /\ loc_cids' = loc_cids \ Forgotten(e)
                  /\ UNCHANGED <<cids_issued, answers>>
    /\ UNCHANGED <<issuer, new_cids, user, retire_cids, cidFrames>>

-----------------------------------------------------------------------------
(* The issuer's connection                                                 *)

\* NewIdentifiers: new_cids, track_lifetime and the timer PushNewCid.  Ids that
\* come at different times expire at different times.
TakeIdentifiers ==
    /\ answers # <<>>
    /\ answers' = Tail(answers)
    /\ LET ids == Head(answers)
           expiring == IF ids = {} \/ ~cid_setting.lifetime THEN issuer.expiring
                       ELSE Append(issuer.expiring, Max(ids))
       IN  /\ issuer' = [issuer EXCEPT !.issued = @ + Cardinality(ids), !.active = @ \cup ids,
                                       !.expiring = expiring, !.timer = @ \/ expiring # <<>>]
           /\ new_cids' = new_cids \cup ids
    /\ UNCHANGED <<loc_cids, cids_issued, requests, user, retire_cids, cidFrames>>

\* Timer::PushNewCid with on_cid_timeout: ids are only asked to be retired when
\* those asked for before are.
CidTimeout ==
    LET unretired == (issuer.prev_retire .. issuer.retire - 1) \cap issuer.active # {}
        next == IF unretired \/ issuer.expiring = <<>> THEN issuer.retire ELSE Head(issuer.expiring) + 1
        needed == (issuer.retire .. next - 1) \cap issuer.active # {}
    IN  /\ issuer.timer
        /\ issuer' = [issuer EXCEPT
             !.timer = FALSE,
             !.expiring = IF @ = <<>> THEN @ ELSE Tail(@),
             !.prev_retire = IF unretired THEN @ ELSE issuer.retire,
             !.retire = next]
        /\ requests' = Append(requests, [type |-> "NeedIdentifiers", count |-> IF needed THEN 1 ELSE 0])
        /\ UNCHANGED <<loc_cids, cids_issued, answers, new_cids, user, retire_cids, cidFrames>>

\* on_cid_retirement: whether another id may be issued.
ReceiveRetire(seq) ==
    LET active == issuer.active \ {seq} IN
    IF seq > issuer.issued
    THEN cid_failure' = "PROTOCOL_VIOLATION" /\ UNCHANGED <<issuer, requests>>
    ELSE /\ issuer' = [issuer EXCEPT !.active = active]
         /\ requests' = Append(requests, [type |-> "RetireConnectionId", seq |-> seq,
                                          allow |-> QueueLen > Cardinality(active)])
         /\ UNCHANGED cid_failure

-----------------------------------------------------------------------------
(* The user: CidQueue                                                      *)

\* Mutant: the new active id is retired with the ones before it.
SkippedToo(offset, next) == offset .. next

\* The numbers retired when the active id moves on.
Skipped(offset, next) == offset .. next - 1

\* CidQueue::next with update_rem_cid, on the queue u.
NextId(u) == Min({s \in u.known : s > u.offset})
CanSwitch(u) == \E s \in u.known : s > u.offset
Switched(u) == [known |-> {s \in u.known : s >= NextId(u)}, offset |-> NextId(u)]

\* CidQueue::insert, and for a server that still uses the id of the handshake,
\* update_rem_cid after it.
ReceiveNew(f) ==
    LET retired == IF f.retire > user.offset THEN f.retire - user.offset ELSE 0
        base == IF f.retire > user.offset THEN f.retire ELSE user.offset
        known == {s \in user.known : s >= base} \cup {f.seq}
        offset == IF retired = 0 THEN user.offset ELSE Min(known)
        u == [known |-> known, offset |-> offset]
        switch == cid_setting.server /\ offset = 0 /\ CanSwitch(u)
    IN  IF f.retire > f.seq THEN cid_failure' = "PROTOCOL_VIOLATION" /\ UNCHANGED <<user, retire_cids>>
        ELSE IF f.seq < user.offset
        THEN retire_cids' = retire_cids \cup {f.seq} /\ UNCHANGED <<user, cid_failure>>
        ELSE IF f.seq - user.offset >= QueueLen + retired
        THEN cid_failure' = "CONNECTION_ID_LIMIT_ERROR" /\ UNCHANGED <<user, retire_cids>>
        ELSE /\ UNCHANGED cid_failure
             /\ user' = IF switch THEN Switched(u) ELSE u
             /\ retire_cids' = retire_cids \cup
                  {s \in user.offset .. offset - 1 : s < user.offset + QueueLen} \cup
                  (IF switch THEN Skipped(0, NextId(u)) ELSE {})

\* migrate or local_address_changed: update_rem_cid.
Migrate ==
    /\ cid_setting.migrations > 0
    /\ cid_setting' = [cid_setting EXCEPT !.migrations = @ - 1]
    /\ CanSwitch(user)
    /\ user' = Switched(user)
    /\ retire_cids' = retire_cids \cup Skipped(user.offset, NextId(user))
    /\ UNCHANGED <<issuer, loc_cids, cids_issued, requests, answers, new_cids, cidFrames>>

-----------------------------------------------------------------------------
(* Frames: populate_packet, process_payload, acknowledgment and loss       *)

EmitCid(f) == cid_sent' = cid_sent \cup {f} /\ cid_net' = cid_net \cup {f}

TransmitNew(seq) ==
    /\ seq \in new_cids
    /\ new_cids' = new_cids \ {seq}
    /\ EmitCid([type |-> "NEW", seq |-> seq, retire |-> issuer.retire])
    /\ UNCHANGED <<issuer, loc_cids, cids_issued, requests, answers, user, retire_cids>>

TransmitRetire(seq) ==
    /\ seq \in retire_cids
    /\ retire_cids' = retire_cids \ {seq}
    /\ EmitCid([type |-> "RETIRE", seq |-> seq])
    /\ UNCHANGED <<issuer, loc_cids, cids_issued, requests, answers, new_cids, user>>

\* The frame arrives, and so does its acknowledgment.
DeliverCid(f) ==
    /\ f \in cid_net
    /\ cid_net' = cid_net \ {f}
    /\ cid_sent' = cid_sent \ {f}
    /\ \/ f.type = "NEW" /\ ReceiveNew(f) /\ UNCHANGED <<issuer, requests>>
       \/ f.type = "RETIRE" /\ ReceiveRetire(f.seq) /\ UNCHANGED <<user, retire_cids>>
    /\ UNCHANGED <<loc_cids, cids_issued, answers, new_cids>>

\* The frame is declared lost and queued again; it may still arrive.
LoseCid(f, late) ==
    /\ cid_setting.losses > 0
    /\ cid_setting' = [cid_setting EXCEPT !.losses = @ - 1]
    /\ f \in cid_sent
    /\ cid_sent' = cid_sent \ {f}
    /\ cid_net' = IF late THEN cid_net ELSE cid_net \ {f}
    /\ new_cids' = IF f.type = "NEW" THEN new_cids \cup {f.seq} ELSE new_cids
    /\ retire_cids' = IF f.type = "RETIRE" THEN retire_cids \cup {f.seq} ELSE retire_cids
    /\ UNCHANGED <<issuer, loc_cids, cids_issued, requests, answers, user>>

CidNext ==
    /\ cid_failure = "none"
    /\ \/ /\ EndpointEvent \/ TakeIdentifiers \/ CidTimeout
             \/ \E seq \in 0 .. MaxCid : TransmitNew(seq) \/ TransmitRetire(seq)
          /\ UNCHANGED <<cid_failure, cid_setting>>
       \/ /\ Migrate \/ \E f \in cid_sent, late \in BOOLEAN : LoseCid(f, late)
          /\ UNCHANGED cid_failure
       \/ /\ \E f \in cid_net : DeliverCid(f)
          /\ UNCHANGED cid_setting

CidSpec == CidInit /\ [][CidNext]_cidVars

-----------------------------------------------------------------------------
(* Properties *)

\* The id the user puts on its packets routes to the connection at the issuer's
\* endpoint, although ids are retired by both ends, out of order and over loss
\* (CidQueue::insert, CidQueue::next, RetireConnectionId).
ActiveIdRoutes == cid_failure = "none" => user.offset \in user.known \cap loc_cids

\* Connection and endpoint agree on the ids outstanding, up to the events between
\* them: no id is left behind in the endpoint's table and none is missing.
IdTablesAgree ==
    loc_cids = issuer.active
                 \cup (UNION {answers[k] : k \in DOMAIN answers})
                 \cup {requests[k].seq : k \in {j \in DOMAIN requests :
                         requests[j].type = "RetireConnectionId" /\ requests[j].seq \in loc_cids}}

\* Ids in use route to the connection, and ids out of use are given up at both
\* the connection and the endpoint.
IdsRoute == ActiveIdRoutes /\ IdTablesAgree

\* Without lifetimes, an issuer never exceeds the limit of the user and neither
\* end closes the connection (active_connection_id_limit, on_cid_retirement).
LimitKept == ~cid_setting.lifetime => cid_failure = "none"
=============================================================================
