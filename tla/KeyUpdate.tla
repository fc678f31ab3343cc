----------------------------- MODULE KeyUpdate -----------------------------
(***************************************************************************)
(* Updates of the 1-RTT keys of a QUIC connection: update_keys and         *)
(* force_key_update (src/connection/mod.rs), decrypt_packet_body           *)
(* (src/connection/packet_crypto.rs) and the use of keys in PacketBuilder. *)
(*                                                                         *)
(* Keys are numbered by their generation; a packet shows the parity of it. *)
(* Decryption succeeds with the keys the packet was sealed with.  Packets  *)
(* are lost and overtake each other.                                       *)
(***************************************************************************)
EXTENDS Integers, FiniteSets

CONSTANTS
    Ends,          \* the two ends of the connection
    MaxKeyPackets, \* bound: packets sent by each end
    KeySettings    \* alternatives: for each end the generations it moves on from by itself
                   \* (a bound), and whether the server holds 0-RTT keys

VARIABLES
    key_ends,      \* the keys of each end
    key_net,       \* packets under way
    key_error,     \* KEY_UPDATE_ERROR was raised
    key_setting

keyVars == <<key_ends, key_net, key_error, key_setting>>

NoPrev == [generation |-> -1, end |-> 0, unacked |-> FALSE]

KeyInit ==
    /\ key_setting \in KeySettings
    /\ key_ends = [e \in Ends |-> [generation |-> 0, prev |-> NoPrev, rx |-> 0, pn |-> 1, timer |-> FALSE]]
    /\ key_net = {}
    /\ key_error = FALSE

KeyPhase(generation) == generation % 2

\* update_keys: the keys move on; end is the packet that brought the update, or 0.
UpdateKeys(k, end, remote) ==
    [k EXCEPT !.generation = @ + 1,
              !.prev = [generation |-> k.generation, end |-> end, unacked |-> remote]]

\* force_key_update, called by the application or when the keys are used up.
MayUpdate(k) == k.prev = NoPrev

ForceKeyUpdate(e) ==
    /\ key_ends[e].generation \in key_setting.initiates[e]
    /\ MayUpdate(key_ends[e])
    /\ key_ends' = [key_ends EXCEPT ![e] = UpdateKeys(@, 0, FALSE)]
    /\ UNCHANGED <<key_net, key_error, key_setting>>

\* PacketBuilder::new: sealed with the current keys, and an update is acknowledged.
SendSealed(e) ==
    LET k == key_ends[e] IN
    /\ k.pn <= MaxKeyPackets
    /\ key_net' = key_net \cup {[from |-> e, pn |-> k.pn, generation |-> k.generation]}
    /\ key_ends' = [key_ends EXCEPT ![e].pn = @ + 1, ![e].prev.unacked = FALSE]
    /\ UNCHANGED <<key_error, key_setting>>

\* Mutant: the previous keys are used whenever the phase differs.
KeysForPrev(k, p) ==
    IF KeyPhase(p.generation) = KeyPhase(k.generation) THEN k.generation
    ELSE IF k.prev # NoPrev THEN k.prev.generation ELSE k.generation + 1

\* decrypt_packet_body: the keys chosen by key phase and packet number.
KeysFor(k, p) ==
    IF KeyPhase(p.generation) = KeyPhase(k.generation) THEN k.generation
    ELSE IF k.prev # NoPrev /\ (k.prev.end = 0 \/ p.pn < k.prev.end) THEN k.prev.generation
    ELSE k.generation + 1

(* decrypt_packet.  A packet sealed with the new keys answers an update of *)
(* this end; one sealed with the next ones is an update of the peer.       *)
OpenPacket(e, p) ==
    LET k == key_ends[e]
        opened == KeysFor(k, p) = p.generation
        update == opened /\ p.generation > k.generation
        answered == k.prev # NoPrev /\ k.prev.end = 0 /\ p.generation = k.generation
        ended == IF answered THEN [k EXCEPT !.prev.end = p.pn, !.timer = TRUE] ELSE k
        updated == IF update THEN [UpdateKeys(ended, p.pn, TRUE) EXCEPT !.timer = TRUE] ELSE ended
        zero_rtt == key_setting.zero_rtt = e
    IN  /\ p \in key_net /\ p.from # e
        /\ key_net' = key_net \ {p}
        /\ IF ~opened THEN UNCHANGED <<key_ends, key_error, key_setting>>
           ELSE IF update /\ (p.pn <= k.rx \/ k.prev.unacked)
           THEN key_error' = TRUE /\ UNCHANGED <<key_ends, key_setting>>
           ELSE /\ key_ends' = [key_ends EXCEPT ![e] = [updated EXCEPT
                      !.rx = IF p.pn > @ THEN p.pn ELSE @, !.timer = @ \/ zero_rtt]]
                /\ UNCHANGED <<key_error, key_setting>>

DropPacket(p) ==
    /\ p \in key_net
    /\ key_net' = key_net \ {p}
    /\ UNCHANGED <<key_ends, key_error, key_setting>>

\* Timer::KeyDiscard.
KeyDiscard(e) ==
    /\ key_ends[e].timer
    /\ key_ends' = [key_ends EXCEPT ![e].timer = FALSE, ![e].prev = NoPrev]
    /\ key_setting' = [key_setting EXCEPT !.zero_rtt = IF @ = e THEN "none" ELSE @]
    /\ UNCHANGED <<key_net, key_error>>

KeyNext ==
    /\ ~key_error
    /\ \E e \in Ends :
         ForceKeyUpdate(e) \/ SendSealed(e) \/ KeyDiscard(e)
           \/ \E p \in key_net : OpenPacket(e, p) \/ DropPacket(p)

KeySpec == KeyInit /\ [][KeyNext]_keyVars

-----------------------------------------------------------------------------
(* Properties *)

\* Neither end takes an update of the other for a violation, however packets are
\* lost and reordered around it and although both may begin one at the same time.
NoKeyUpdateError == ~key_error

\* A packet sealed with keys the receiver holds - the previous, the current or the
\* next ones - is opened with those: one bit of key phase and the packet number that
\* ended the previous phase are enough to tell.  It takes that a second update waits for
\* an answer to the first; force_key_update only waits for the discard timer, so an end
\* whose peer's answer is lost may begin one too early.
KeysAreTold ==
    \A p \in key_net, e \in Ends :
        LET k == key_ends[e] IN
        p.from # e /\ p.generation \in {k.generation, k.generation + 1, k.prev.generation} =>
            KeysFor(k, p) = p.generation
=============================================================================
