------------------------------ MODULE Session ------------------------------
(***************************************************************************)
(* The MQTT publisher's session: the reconnect loop of `_run` and the      *)
(* control of `publish_loop` (aviation_feeder_mqtt/app.py), with the       *)
(* broker's half of the connection (the last will and the retained         *)
(* availability topic), the birth watcher and the shutdown request.        *)
(*                                                                         *)
(* The process is one asyncio task.  `pc` names the await (or the          *)
(* straight-line code) the task is at; what happens between two awaits is  *)
(* one action.  Real time is a countdown and a few ages: `left` is what    *)
(* remains of the current await's timeout, and a wall-clock stamp of the   *)
(* code (time.time()) is kept as the time elapsed since it was taken,      *)
(* because the code only ever reads `now - stamp` and compares it with a   *)
(* constant.  An age stops growing one past that constant, which the       *)
(* comparison cannot tell from larger values.                              *)
(***************************************************************************)
EXTENDS Integers, Sequences

CONSTANTS
    MqttTimeout,        \* _MQTT_TIMEOUT_SECONDS: connect, publish, disconnect
    SubscribeTimeout,   \* _SUBSCRIBE_TIMEOUT_SECONDS
    FarewellTimeout,    \* _FAREWELL_TIMEOUT_SECONDS
    CloseTimeout,       \* beast._CLOSE_TIMEOUT_S, the leash on df_counter.aclose()
    GatherTimeout,      \* longest a cycle's to_thread reads and HTTP probes take
    MinDelay,           \* _RECONNECT_MIN_SECONDS
    MaxDelay,           \* _RECONNECT_MAX_SECONDS
    DisconnectTimeout,  \* DISCONNECT_TIMEOUT_S
    Interval,           \* mqtt_interval_seconds
    ExpireAfter,        \* expire_after_s
    Configs,            \* retained configs one discovery run publishes
    StatePublishes      \* most mark_state publishes of one cycle

ASSUME TimeoutAssumption ==
    /\ MqttTimeout \in Nat \ {0}
    /\ SubscribeTimeout \in Nat \ {0}
    /\ FarewellTimeout \in Nat \ {0}
    /\ CloseTimeout \in Nat
    /\ GatherTimeout \in Nat
    /\ Interval \in Nat \ {0}
    /\ ExpireAfter \in Nat \ {0}
    /\ DisconnectTimeout \in Nat

ASSUME DelayAssumption ==
    /\ MinDelay \in Nat \ {0}
    /\ MaxDelay \in Nat
    /\ MinDelay <= MaxDelay

ASSUME CountAssumption ==
    /\ Configs \in Nat \ {0}
    /\ StatePublishes \in Nat \ {0}

VARIABLES
    pc,             \* where the publisher's task is
    left,           \* time left before the await at `pc` times out
    todo,           \* publishes left in the block at `pc`, after the one awaited
    result,         \* how the session, and then the process, is ending
    feeder_health,  \* option ha_feeder_health
    stop,           \* the asyncio.Event the signal handlers set
    connected,      \* health.connected
    made,           \* health.last_connect_ok # connected_at: this attempt connected
    delay,          \* backoff before the next attempt
    discAge,        \* now - health.last_disconnect
    pubAge,         \* now - health.last_state_publish_ok
    stale,          \* at the cycle's start pubAge exceeded ExpireAfter, and
                    \* nothing has been stamped since
    need,           \* need_discovery["v"]
    birth,          \* the task running _watch_birth
    subscribed,     \* SUBSCRIBE to <prefix>/status succeeded
    sock,           \* the client's end of the connection
    link,           \* the network carries packets to a live broker
    bsess,          \* the broker's session for CLIENT_ID, if any
    wire,           \* availability and DISCONNECT packets the broker has not read
    retained,       \* the retained message of the availability topic
    stopAge,        \* history: time since stop was requested
    idle,           \* history: time since the client last held a connection
    entered,        \* history: the broker's latest session reached publish_loop
    configs         \* history: the broker holds every current discovery config

control   == <<pc, left, todo, result>>
watchdogs == <<connected, made, delay, discAge, pubAge, stale>>
discovery == <<need, birth, subscribed, configs>>
broker    == <<link, bsess, retained, entered>>
request   == <<stop, stopAge>>
vars == <<control, watchdogs, discovery, broker, request,
          sock, wire, idle, feeder_health>>

-----------------------------------------------------------------------------

Never == -1         \* the 0.0 of a stamp that was never taken

\* Straight-line code: reached and left at one instant.
Instants == {"loop", "cycle", "reap", "handler"}

\* `_wait_or_stop`: the waits a shutdown request ends at once.
Interruptible == {"interval", "backoff"}

\* The other awaits: only their own completion or timeout ends them.
Leashed == {"connect", "subscribe", "announce", "discover", "gather",
            "states", "farewell", "leave", "aclose"}

Least(a, b)    == IF a < b THEN a ELSE b
Greatest(a, b) == IF a < b THEN b ELSE a

\* An age after one more tick, saturating just past `limit`.
Older(age, limit) ==
    IF age = Never \/ age > limit THEN age ELSE age + 1

\* The broker has read everything sent and its acknowledgement gets back.
Acked == sock = "open" /\ link /\ bsess = "cur" /\ wire = <<>>

\* aiomqtt raises MqttError out of the await at `pc`.
Faulted == sock = "broken" \/ left = 0

\* A packet handed to the client: lost unless the connection is open.
Send(packet) ==
    wire' = IF sock = "open" THEN Append(wire, packet) ELSE wire

\* The client's socket goes away; the broker's session outlives it.
CloseSocket ==
    /\ sock' = "none"
    /\ bsess' = IF bsess = "cur" THEN "old" ELSE bsess
    /\ UNCHANGED <<link, retained, entered>>

AwaitAt(place, timeout) == pc' = place /\ left' = timeout
Proceed(place) == pc' = place /\ left' = 0

\* Leave publish_loop with `r`: the inner `finally` runs next.
LeaveLoop(r) == Proceed("reap") /\ result' = r /\ todo' = 0

\* The outer `finally`: wind the Beast reader up, then exit with `r`.
Finish(r) ==
    AwaitAt("aclose", CloseTimeout) /\ result' = r /\ UNCHANGED todo

-----------------------------------------------------------------------------
(* The reconnect loop.                                                     *)

Init ==
    /\ feeder_health \in BOOLEAN
    /\ pc = "loop" /\ left = 0 /\ todo = 0 /\ result = "running"
    /\ stop = FALSE /\ stopAge = 0
    /\ connected = FALSE /\ made = FALSE /\ delay = MinDelay
    /\ discAge = Never /\ pubAge = Never /\ stale = FALSE
    /\ need = TRUE /\ birth = "none" /\ subscribed = FALSE
    /\ sock = "none" /\ link \in BOOLEAN /\ bsess = "none" /\ wire = <<>>
    /\ retained \in {"none", "offline"}
    /\ idle = 0 /\ entered = FALSE /\ configs = FALSE

\* Mutant: the reconnect loop does not look at stop.
LoopTopDeafToStop ==
    /\ pc = "loop"
    /\ AwaitAt("connect", MqttTimeout)
    /\ made' = FALSE
    /\ sock' = "opening"
    /\ UNCHANGED <<todo, result, connected, delay, discAge, pubAge, stale,
                   discovery, broker, request, wire, idle, feeder_health>>

\* `while not stop.is_set()` of the reconnect loop.
LoopTop ==
    /\ pc = "loop"
    /\ IF stop
       THEN Finish("clean") /\ UNCHANGED <<made, sock>>
       ELSE /\ AwaitAt("connect", MqttTimeout)
            /\ made' = FALSE
            /\ sock' = "opening"
            /\ UNCHANGED <<todo, result>>
    /\ UNCHANGED <<connected, delay, discAge, pubAge, stale, discovery,
                   broker, request, wire, idle, feeder_health>>

\* Mutant: a new session does not owe a discovery run of its own.
OwedFromBefore == need

\* need_discovery["v"] after CONNACK.
OwedOnConnect == TRUE

\* CONNACK: health is stamped and the session owes a discovery run.
ConnectOk ==
    /\ pc = "connect" /\ sock = "opening" /\ link /\ bsess = "cur"
    /\ sock' = "open"
    /\ connected' = TRUE
    /\ made' = TRUE
    /\ need' = OwedOnConnect
    /\ idle' = 0
    /\ AwaitAt("subscribe", SubscribeTimeout)
    /\ UNCHANGED <<todo, result, delay, discAge, pubAge, stale, birth,
                   subscribed, configs, broker, request, wire,
                   feeder_health>>

\* __aenter__ raises: refused, reset, unresolvable, or out of time.
ConnectFail ==
    /\ pc = "connect"
    /\ Faulted \/ ~link
    /\ CloseSocket
    /\ Proceed("handler")
    /\ result' = "fault"
    /\ UNCHANGED <<todo, watchdogs, discovery, request, wire, idle,
                   feeder_health>>

\* Mutant: no "online" of its own when a session starts.
SubscribeSilently ==
    /\ pc = "subscribe"
    /\ subscribed' \in {ok \in BOOLEAN : ok => Acked}
    /\ AwaitAt("announce", MqttTimeout)
    /\ UNCHANGED <<todo, result, watchdogs, need, birth, configs,
                   broker, request, sock, wire, idle, feeder_health>>

\* SUBSCRIBE, its refusals and its timeout all lead on to the availability
\* publish (ValueError and MqttError are swallowed).
Subscribe ==
    /\ pc = "subscribe"
    /\ subscribed' \in {ok \in BOOLEAN : ok => Acked}
    /\ Send("online")
    /\ AwaitAt("announce", MqttTimeout)
    /\ UNCHANGED <<todo, result, watchdogs, need, birth, configs,
                   broker, request, sock, idle, feeder_health>>

\* PUBACK of the retained "online": start the birth watcher and publish.
AnnounceOk ==
    /\ pc = "announce" /\ Acked
    /\ birth' = "running"
    /\ entered' = TRUE
    /\ Proceed("cycle")
    /\ UNCHANGED <<todo, result, watchdogs, need, subscribed, configs,
                   link, bsess, retained, request, sock, wire, idle,
                   feeder_health>>

\* The "online" publish raises.  It is outside the inner try, so neither the
\* birth task nor the farewell exists: straight to __aexit__.
AnnounceFail ==
    /\ pc = "announce" /\ Faulted
    /\ result' = "fault"
    /\ AwaitAt("leave", MqttTimeout)
    /\ Send("DISCONNECT")
    /\ UNCHANGED <<todo, watchdogs, discovery, broker, request, sock, idle,
                   feeder_health>>

-----------------------------------------------------------------------------
(* publish_loop.                                                           *)

\* Top of a cycle: take `now`, then discovery when it is owed.
CycleTop ==
    /\ pc = "cycle"
    /\ IF stop
       THEN LeaveLoop("clean") /\ UNCHANGED stale
       ELSE /\ stale' = (pubAge # Never /\ pubAge > ExpireAfter)
            /\ IF connected /\ need
               THEN /\ AwaitAt("discover", MqttTimeout)
                    /\ todo' = Configs
               ELSE /\ AwaitAt("gather", GatherTimeout)
                    /\ UNCHANGED todo
            /\ UNCHANGED result
    /\ UNCHANGED <<connected, made, delay, discAge, pubAge, need, birth,
                   subscribed, configs, broker, request, sock, wire, idle,
                   feeder_health>>

\* PUBACK of one retained config; the availability publish follows the last.
ConfigAcked ==
    /\ pc = "discover" /\ todo > 0 /\ Acked
    /\ todo' = todo - 1
    /\ IF todo = 1 THEN Send("online") ELSE UNCHANGED wire
    /\ AwaitAt("discover", MqttTimeout)
    /\ UNCHANGED <<result, watchdogs, discovery, broker, request, sock, idle,
                   feeder_health>>

\* PUBACK of the closing "online": the run is complete.
DiscoveryDone ==
    /\ pc = "discover" /\ todo = 0 /\ Acked
    /\ need' = FALSE
    /\ configs' = TRUE
    /\ AwaitAt("gather", GatherTimeout)
    /\ UNCHANGED <<todo, result, watchdogs, birth, subscribed, broker,
                   request, sock, wire, idle, feeder_health>>

\* Mutant: the broker-link states do not mark_state.
StateCountsOfSources == 0 .. StatePublishes

\* How many states have a value this cycle: any number, for the sources may be
\* unreadable and the groups off, but with ha_feeder_health on there are always
\* mqtt_uptime and mqtt_reconnects.
StateCounts == {n \in 0 .. StatePublishes : feeder_health => n > 0}

\* The cycle's reads finish.
Gathered ==
    /\ pc = "gather"
    /\ todo' \in StateCounts
    /\ AwaitAt("states", MqttTimeout)
    /\ UNCHANGED <<result, watchdogs, discovery, broker, request, sock, wire,
                   idle, feeder_health>>

\* Anything else raised while the cycle computes its values.
Unexpected ==
    /\ pc = "gather"
    /\ LeaveLoop("crash")
    /\ UNCHANGED <<watchdogs, discovery, broker, request, sock, wire, idle,
                   feeder_health>>

\* A qos-0 mark_state publish: done once the packet is handed to the socket,
\* whether or not the broker is there.
StatePublished ==
    /\ pc = "states" /\ todo > 0 /\ sock = "open"
    /\ pubAge' = 0
    /\ stale' = FALSE
    /\ todo' = todo - 1
    /\ AwaitAt("states", MqttTimeout)
    /\ UNCHANGED <<result, connected, made, delay, discAge, discovery, broker,
                   request, sock, wire, idle, feeder_health>>

\* The heartbeat, then the publish-stall watchdog, then the wait.
Heartbeat ==
    /\ pc = "states" /\ todo = 0 /\ sock = "open"
    /\ IF connected /\ stale
       THEN LeaveLoop("stall")
       ELSE AwaitAt("interval", Interval) /\ UNCHANGED <<todo, result>>
    /\ UNCHANGED <<watchdogs, discovery, broker, request, sock, wire, idle,
                   feeder_health>>

\* Any publish of the loop raises MqttError.
PublishFail ==
    /\ pc \in {"discover", "states"} /\ Faulted
    /\ LeaveLoop("fault")
    /\ UNCHANGED <<watchdogs, discovery, broker, request, sock, wire, idle,
                   feeder_health>>

IntervalOver ==
    /\ pc = "interval"
    /\ stop \/ left = 0
    /\ Proceed("cycle")
    /\ UNCHANGED <<todo, result, watchdogs, discovery, broker, request, sock,
                   wire, idle, feeder_health>>

-----------------------------------------------------------------------------
(* Ending a session.                                                       *)

\* Mutant: the farewell has only the client's own timeout.
FarewellUnleashed == FarewellTimeout + MqttTimeout

\* The leash of the farewell's wait_for.
FarewellLeash == FarewellTimeout

\* Mutant: no farewell before the clean DISCONNECT.
ReapWithoutFarewell ==
    /\ pc = "reap"
    /\ birth' = "none"
    /\ result' = IF birth = "failed" THEN "fault" ELSE result
    /\ AwaitAt("leave", MqttTimeout)
    /\ Send("DISCONNECT")
    /\ UNCHANGED <<todo, watchdogs, need, subscribed, configs, broker,
                   request, sock, idle, feeder_health>>

\* `birth.cancel(); await birth`: the MqttError of a watcher that had already
\* died replaces what the loop returned, and the farewell is not reached.
Reap ==
    /\ pc = "reap"
    /\ birth' = "none"
    /\ IF birth = "failed"
       THEN /\ result' = "fault"
            /\ AwaitAt("leave", MqttTimeout)
            /\ Send("DISCONNECT")
       ELSE /\ AwaitAt("farewell", FarewellLeash)
            /\ Send("offline")
            /\ UNCHANGED result
    /\ UNCHANGED <<todo, watchdogs, need, subscribed, configs, broker,
                   request, sock, idle, feeder_health>>

\* Mutant: the farewell has neither a leash nor its exceptions suppressed.
FarewellUntilAcked ==
    /\ pc = "farewell"
    /\ Acked
    /\ AwaitAt("leave", MqttTimeout)
    /\ Send("DISCONNECT")
    /\ UNCHANGED <<todo, result, watchdogs, discovery, broker, request, sock,
                   idle, feeder_health>>

\* The farewell is acknowledged, raises, or runs out its leash.
Farewell ==
    /\ pc = "farewell"
    /\ Acked \/ Faulted
    /\ AwaitAt("leave", MqttTimeout)
    /\ Send("DISCONNECT")
    /\ UNCHANGED <<todo, result, watchdogs, discovery, broker, request, sock,
                   idle, feeder_health>>

\* __aexit__: raises when the connection was lost or its wait times out, and
\* that MqttError, too, replaces what was being returned.
Leave ==
    /\ pc = "leave"
    /\ CloseSocket
    /\ \E failed \in BOOLEAN :
        /\ sock = "broken" => failed
        /\ failed => Faulted
        /\ IF failed \/ result = "fault"
           THEN Proceed("handler") /\ result' = "fault" /\ UNCHANGED todo
           ELSE Finish(result)
    /\ UNCHANGED <<watchdogs, discovery, request, wire, idle, feeder_health>>

\* Mutant: every retry restamps the outage.
OutageAgeOfRetry == 0

\* Mutant: only the process's first failure stamps it.
OutageAgeStampedOnce == IF discAge = Never THEN 0 ELSE discAge

\* now - last_disconnect once the handler has run: the *start* of an outage is
\* stamped, on the first failure and after a session, not each retry.
OutageAge == IF discAge = Never \/ made THEN 0 ELSE discAge

\* `except aiomqtt.MqttError`: stamp the outage, decide, back off.
Handler ==
    /\ pc = "handler"
    /\ connected' = FALSE
    /\ discAge' = OutageAge
    /\ delay' = IF made THEN MinDelay ELSE delay
    /\ IF discAge' > DisconnectTimeout
       THEN Finish("disconnected")
       ELSE AwaitAt("backoff", delay') /\ result' = "running" /\ UNCHANGED todo
    /\ UNCHANGED <<made, pubAge, stale, discovery, broker, request, sock, wire,
                   idle, feeder_health>>

\* Mutant: the backoff is not capped.
NextDelayUncapped == 2 * delay

\* delay = min(delay * 2, _RECONNECT_MAX_SECONDS)
NextDelay == Least(2 * delay, MaxDelay)

BackoffOver ==
    /\ pc = "backoff"
    /\ stop \/ left = 0
    /\ delay' = NextDelay
    /\ Proceed("loop")
    /\ UNCHANGED <<todo, result, connected, made, discAge, pubAge, stale,
                   discovery, broker, request, sock, wire, idle, feeder_health>>

\* stop.set(); await df_counter.aclose(); return the exit code.
Exit ==
    /\ pc = "aclose"
    /\ stop' = TRUE
    /\ Proceed("exited")
    /\ UNCHANGED <<todo, result, watchdogs, discovery, broker, stopAge, sock,
                   wire, idle, feeder_health>>

-----------------------------------------------------------------------------
(* Around the task: signals, the birth watcher, time.                      *)

\* SIGTERM or SIGINT.
Signal ==
    /\ ~stop /\ pc # "exited"
    /\ stop' = TRUE
    /\ UNCHANGED <<control, watchdogs, discovery, broker, stopAge, sock, wire,
                   idle, feeder_health>>

\* Home Assistant restarts and its birth message reaches the watcher.
BirthHeard ==
    /\ birth = "running" /\ subscribed /\ sock = "open" /\ link
    /\ bsess = "cur"
    /\ need' = TRUE
    /\ UNCHANGED <<control, watchdogs, birth, subscribed, configs, broker,
                   request, sock, wire, idle, feeder_health>>

\* mq.messages raises on disconnect: the watcher dies, and nobody looks.
BirthFails ==
    /\ birth = "running" /\ sock = "broken"
    /\ birth' = "failed"
    /\ UNCHANGED <<control, watchdogs, need, subscribed, configs, broker,
                   request, sock, wire, idle, feeder_health>>

\* Time passes only while the task waits: code between two awaits is instant,
\* no await outlasts its timeout, and stop ends an interruptible one at once.
Tick ==
    /\ pc \in Leashed \/ (pc \in Interruptible /\ ~stop)
    /\ left > 0
    /\ left' = left - 1
    /\ discAge' = Older(discAge, DisconnectTimeout)
    /\ pubAge' = Older(pubAge, ExpireAfter)
    /\ stopAge' = IF stop THEN stopAge + 1 ELSE stopAge
    /\ idle' = IF sock = "open" THEN idle ELSE idle + 1
    /\ UNCHANGED <<pc, todo, result, connected, made, delay, stale, discovery,
                   broker, stop, sock, wire, feeder_health>>

-----------------------------------------------------------------------------
(* The broker and the network, as the client's requests rely on them.      *)

\* CONNECT is read.  CLIENT_ID is fixed, so a session left from an earlier
\* connection is taken over: closed, its will published, its input dropped.
BrokerAccepts ==
    /\ link /\ sock = "opening" /\ bsess # "cur"
    /\ retained' = IF bsess = "old" THEN "offline" ELSE retained
    /\ bsess' = "cur"
    /\ entered' = FALSE
    /\ wire' = <<>>
    /\ UNCHANGED <<control, watchdogs, discovery, request, sock, link, idle,
                   feeder_health>>

\* The next packet is read, in the order sent; DISCONNECT discards the will.
BrokerReads ==
    /\ link /\ bsess # "none" /\ wire # <<>>
    /\ wire' = Tail(wire)
    /\ IF Head(wire) = "DISCONNECT"
       THEN bsess' = "none" /\ UNCHANGED retained
       ELSE retained' = Head(wire) /\ UNCHANGED bsess
    /\ UNCHANGED <<control, watchdogs, discovery, request, sock, link, entered,
                   idle, feeder_health>>

\* The broker finds the client gone (reset or keepalive): the will is
\* published.  A closed socket's last packets are read first if they arrive.
BrokerReaps ==
    /\ \/ bsess = "cur" /\ (sock = "broken" \/ ~link)
       \/ bsess = "old" /\ (wire = <<>> \/ ~link)
    /\ retained' = "offline"
    /\ bsess' = "none"
    /\ wire' = <<>>
    /\ UNCHANGED <<control, watchdogs, discovery, request, sock, link, entered,
                   idle, feeder_health>>

\* The connection is reset, or the client's keepalive gives up on it.  What
\* the broker had not read is lost.
ConnectionLost ==
    /\ sock \in {"opening", "open"}
    /\ sock' = "broken"
    /\ wire' = <<>>
    /\ UNCHANGED <<control, watchdogs, discovery, broker, request, idle,
                   feeder_health>>

\* The broker process restarts and forgets sessions and retained messages.
BrokerRestarts ==
    /\ link
    /\ bsess' = "none"
    /\ retained' = "none"
    /\ configs' = FALSE
    /\ wire' = <<>>
    /\ sock' = IF sock = "none" THEN "none" ELSE "broken"
    /\ UNCHANGED <<control, watchdogs, need, birth, subscribed, request,
                   link, entered, idle, feeder_health>>

LinkChanges ==
    /\ link' = ~link
    /\ UNCHANGED <<control, watchdogs, discovery, bsess, retained, entered,
                   request, sock, wire, idle, feeder_health>>

-----------------------------------------------------------------------------

Client ==
    \/ LoopTop \/ ConnectOk \/ ConnectFail \/ Subscribe
    \/ AnnounceOk \/ AnnounceFail
    \/ CycleTop \/ ConfigAcked \/ DiscoveryDone
    \/ Gathered \/ Unexpected \/ StatePublished \/ Heartbeat \/ PublishFail
    \/ IntervalOver
    \/ Reap \/ Farewell \/ Leave \/ Handler \/ BackoffOver \/ Exit

Environment ==
    \/ Signal \/ BirthHeard \/ BirthFails
    \/ BrokerAccepts \/ BrokerReads \/ BrokerReaps
    \/ ConnectionLost \/ BrokerRestarts \/ LinkChanges

Next == Client \/ Tick \/ Environment

Spec == Init /\ [][Next]_vars

\* The event loop runs the task whenever it can run and time passes otherwise;
\* a connection whose broker is out of reach is given up by the keepalive.
Fairness ==
    /\ WF_vars(Client)
    /\ WF_vars(Tick)
    /\ WF_vars(ConnectionLost /\ ~link)

FairSpec == Spec /\ Fairness

-----------------------------------------------------------------------------
(* Properties.                                                             *)

\* The two-valued variables.
FlagsOK ==
    /\ feeder_health \in BOOLEAN /\ stop \in BOOLEAN
    /\ connected \in BOOLEAN /\ made \in BOOLEAN /\ stale \in BOOLEAN
    /\ need \in BOOLEAN /\ subscribed \in BOOLEAN /\ link \in BOOLEAN
    /\ entered \in BOOLEAN /\ configs \in BOOLEAN

\* Every variable stays in its type; ages saturate and the backoff stays
\* within its limits.
TypeOK ==
    /\ FlagsOK
    /\ pc \in Leashed \cup Interruptible \cup Instants \cup {"exited"}
    /\ left \in Nat
    /\ todo \in 0 .. Greatest(Configs, StatePublishes)
    /\ result \in {"running", "fault", "clean", "disconnected", "stall", "crash"}
    /\ delay \in MinDelay .. MaxDelay
    /\ discAge \in Never .. DisconnectTimeout + 1
    /\ pubAge \in Never .. ExpireAfter + 1
    /\ birth \in {"none", "running", "failed"}
    /\ sock \in {"none", "opening", "open", "broken"}
    /\ bsess \in {"none", "cur", "old"}
    /\ wire \in Seq({"online", "offline", "DISCONNECT"})
    /\ retained \in {"none", "online", "offline"}
    /\ stopAge \in Nat /\ idle \in Nat

\* Exit 11 is never given for a short outage: the process has then been
\* without a connection for longer than DISCONNECT_TIMEOUT_S, however the
\* failures, reconnections and backoffs interleaved.
DisconnectExitJustified ==
    result = "disconnected" => idle > DisconnectTimeout

\* The longest the process lives on without a connection: the cycle (or the
\* start of a session) under way when the connection went, the teardown, the
\* outage timeout, one backoff and one attempt that end just after it, and the
\* reader's close.
OutageBound ==
    Greatest(Interval + GatherTimeout + MqttTimeout + FarewellTimeout,
             SubscribeTimeout + MqttTimeout)
        + MqttTimeout + DisconnectTimeout + MaxDelay + MqttTimeout + CloseTimeout

\* The 300 s watchdog cannot be postponed by retries: no outage lasts longer
\* than OutageBound without the process exiting for s6 to restart it.
OutageBounded == idle <= OutageBound

\* The longest a shutdown can take: a connection attempt, or a whole cycle,
\* runs to its end before `stop` is looked at again; then the teardown.
StopBound ==
    Greatest(MqttTimeout + SubscribeTimeout + MqttTimeout,
             (Configs + 1) * MqttTimeout + GatherTimeout
                + (StatePublishes + 1) * MqttTimeout)
        + FarewellTimeout + MqttTimeout + CloseTimeout

\* A shutdown request is honoured within StopBound at whichever await it
\* arrives, whatever the broker does meanwhile.
StopBounded == stopAge <= StopBound

\* With ha_feeder_health on, each cycle stamps a state publish before it
\* reaches the publish-stall watchdog, so exit 12 is impossible.
FeederHealthNeverStalls == feeder_health => result # "stall"

\* While the client publishes on a session the broker still holds, Home
\* Assistant sees "online": neither an earlier session's will nor an earlier
\* farewell is left on the topic.
PublishingIsOnline ==
    (pc \in {"cycle", "discover", "gather", "states", "interval"}
        /\ sock = "open" /\ bsess = "cur") => retained = "online"

\* A session that reached publish_loop leaves "offline" behind however it
\* ended: farewell then DISCONNECT, or the will; never DISCONNECT alone.
SessionEndsOffline == (bsess = "none" /\ entered) => retained # "online"

\* Past the discovery of its first cycle, a live session's configs are on the
\* broker, also when the broker forgot them by restarting.
SessionRediscovers ==
    (pc \in {"gather", "states", "interval"} /\ sock = "open") => configs

\* A shutdown request always ends the process.
StopTerminates == stop ~> pc = "exited"

\* A broker that is out of reach for good ends the process, to be restarted.
OutageTerminates == <>[](~link) => <>(pc = "exited")

(* Claims of the source that the code does not keep.                       *)

\* app.py:1120: the stall watchdog fires only on "a real MQTT stall", not
\* "when there is simply no data to publish".
StallIsReal == (pc = "reap" /\ result = "stall") => ~Acked

\* app.py:151: when the broker is not acking, "the retained will already
\* says offline": nothing is left online by a process that is gone.
GoneIsOffline == (pc = "exited" /\ bsess = "none") => retained # "online"

=============================================================================
