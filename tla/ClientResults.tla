---- MODULE ClientResults ----
(***************************************************************************)
(* client.go: the typed methods.  Each makes one call and reads the result *)
(* member of its answer into a Go value.  A result is absent, of a wrong   *)
(* shape, or an object with some members; one member may have the wrong    *)
(* type, Bad.  null is an object without members: json.Unmarshal leaves    *)
(* the zero value.                                                         *)
(***************************************************************************)
EXTENDS Integers, Sequences

CONSTANTS
    Bad,   \* a member's value of the wrong type
    Empty  \* the empty string, and the nil pointer

ASSUME ValuesAssumption ==
    /\ Bad # Empty /\ Bad \notin Int /\ Empty \notin Int
    /\ Bad \notin Seq([name : {"critical", "normal", "broadcast"}, ms : Int, refill : Int])

Error == [err |-> TRUE]
Ok(value) == [err |-> FALSE, value |-> value]

\* What Protocol.Call returns.
Failed == [err |-> TRUE]
Absent == [err |-> FALSE, object |-> FALSE]
Object(members) == [err |-> FALSE, object |-> TRUE, members |-> members]

\* json.Unmarshal into a struct with the zero value zero.
Decodes(reply, zero) ==
    reply.object /\ \A k \in DOMAIN zero \intersect DOMAIN reply.members : reply.members[k] # Bad

With(old, members) ==
    [k \in DOMAIN old |-> IF k \in DOMAIN members THEN members[k] ELSE old[k]]

\* Status, WifiStatus, Battery and the others that return what the device says.
Query(reply, zero) ==
    IF reply.err THEN Error
    ELSE IF ~Decodes(reply, zero) THEN Error
    ELSE Ok(With(zero, reply.members))

checkOK(reply) ==
    Decodes(reply, [ok |-> FALSE]) /\ With([ok |-> FALSE], reply.members).ok

\* RemoveChannel, SetMailbox, Reboot and the others that end with checkOK.
Command(reply) == ~reply.err /\ checkOK(reply)

Ping(reply) ==
    LET resp == Query(reply, [pong |-> FALSE])
    IN  ~resp.err /\ resp.value.pong

NoIDs == [message_id |-> Empty, packet_id |-> Empty, broadcast_id |-> Empty]

sendMessageWithParams(reply) ==
    LET resp == Query(reply, NoIDs)
    IN  IF ~resp.err /\ resp.value.message_id = Empty
        THEN [resp EXCEPT !.value.message_id = resp.value.packet_id] ELSE resp

sendBroadcastWithParams(reply) ==
    LET resp == Query(reply, NoIDs)
    IN  IF ~resp.err /\ resp.value.broadcast_id = Empty
        THEN [resp EXCEPT !.value.broadcast_id = resp.value.message_id] ELSE resp

Tier(name, ms, refill) == [name |-> name, ms |-> ms, refill |-> refill]

\* The two wire formats; ms stands for the remaining and the maximal milliseconds.
Airtime(reply) ==
    LET resp == Query(reply, [tiers |-> <<>>])
        flat == Query(reply, [critical |-> 0, normal |-> 0, broadcast |-> 0, refill |-> 0])
    IN  IF ~resp.err /\ resp.value.tiers # <<>> THEN Ok(resp.value.tiers)
        ELSE IF flat.err THEN Error
        ELSE Ok(<<Tier("critical", flat.value.critical, flat.value.refill),
                  Tier("normal", flat.value.normal, flat.value.refill),
                  Tier("broadcast", flat.value.broadcast, flat.value.refill)>>)

\* The parameters of SetRadio: the members of config that are no nil pointers.
SetRadio(config) == [k \in {f \in DOMAIN config : config[f] # Empty} |-> config[k]]

\* The parameters of SetLocationContact, where an override may replace the arguments.
SetLocationContact(address, tier, override) ==
    With([address |-> address, tier |-> tier, enabled |-> Empty, interval_s |-> Empty],
         SetRadio(override))

-----------------------------------------------------------------------------
(* Properties. *)

\* All objects that have some of the members ks, with the given values.
Objects(ks, values) == {Object(f) : f \in UNION {[d -> values] : d \in SUBSET ks}}

\* Whether a reply gives one of the members ks a value.
Says(reply, ks) ==
    \E k \in ks \intersect DOMAIN reply.members : reply.members[k] # Empty

\* Lines 598-611, 1340-1349: a command or a ping succeeds only if the answer says so.
SuccessIsSaid ==
    \A r \in {Failed, Absent} \union Objects({"ok", "pong", "other"}, {Bad, TRUE, FALSE}) :
        /\ Command(r) => r.members["ok"] = TRUE
        /\ Ping(r) => r.members["pong"] = TRUE

\* Lines 736-764: a message can be tracked if the device has given it a name, whether
\* it says message_id or packet_id; a broadcast cannot if it says packet_id only.
IDsAreKept ==
    \A r \in Objects(DOMAIN NoIDs, {Empty, 1, 2}) :
        /\ sendMessageWithParams(r).value.message_id # Empty
              <=> Says(r, {"message_id", "packet_id"})
        /\ sendBroadcastWithParams(r).value.broadcast_id # Empty
              <=> Says(r, {"message_id", "broadcast_id"})

\* Lines 564-595: the two formats of one budget give the same tiers, and a result is
\* never without tiers, whatever members the answer lacks.
AirtimeIsTotal ==
    /\ \A b \in [{"critical", "normal", "broadcast", "refill"} -> 0..1] :
           LET tiers == [i \in 1..3 |-> LET name == <<"critical", "normal", "broadcast">>[i]
                                       IN  Tier(name, b[name], b["refill"])]
           IN  Airtime(Object(b)) = Airtime(Object([tiers |-> tiers]))
    /\ \A tiers \in {Bad, <<>>}, critical \in {Bad, 0} :
           LET r == Airtime(Object([tiers |-> tiers, critical |-> critical]))
           IN  r.err \/ Len(r.value) = 3
    /\ Len(Airtime(Object(<<>>)).value) = 3

\* Lines 1039-1059: an override replaces what it sets, and nothing is set to a zero
\* value that it does not mention.
OverridesWin ==
    \A o \in [{"address", "tier", "enabled", "interval_s"} -> {Empty, 1}] :
        LET sent == SetLocationContact(2, 3, o)
        IN  \A k \in DOMAIN sent :
                sent[k] = IF o[k] # Empty THEN o[k]
                          ELSE IF k = "address" THEN 2 ELSE IF k = "tier" THEN 3 ELSE Empty
====
