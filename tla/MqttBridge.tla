------------------------------ MODULE MqttBridge ------------------------------
(***************************************************************************)
(* The root of the mesh that republishes readings to an MQTT broker        *)
(* (mqttBridge.ino), and a mote that sends them (node.ino).  Everything    *)
(* the root does is one loop: it takes what the mesh has for it, publishes *)
(* it if the client is connected and otherwise tries to connect, at most   *)
(* once every five seconds of a clock that wraps.  connect() blocks the    *)
(* loop, and with it the mesh, until the broker answers or time runs out.  *)
(*                                                                         *)
(* Time is a number of ticks.  The loop goes round many times in a tick,   *)
(* so it has always seen the last change before time passes.               *)
(***************************************************************************)
EXTENDS Integers

CONSTANTS
  NoCall,         \* connect() is not running
  ClockSize,      \* 2^32, values of millis()
  RetryInterval,  \* MQTT_RETRY_INTERVAL
  MaxConnect,     \* connect() returns within this time
  KeepAlive,      \* a client whose session is gone notices within this time
  FirstInterval,  \* TASK_SECOND * 4
  MinInterval,    \* TASK_SECOND * 3
  MaxInterval,    \* TASK_SECOND * 8 - 1
  MaxInbox        \* readings the mesh holds for a root that is busy

ASSUME MqttAssumption ==
  /\ RetryInterval \in Nat \ {0}
  /\ ClockSize \in Nat
  /\ RetryInterval < ClockSize
  /\ MaxConnect \in Nat
  /\ NoCall \notin 0 .. MaxConnect
  /\ KeepAlive \in Nat
  /\ MaxConnect =< KeepAlive + RetryInterval
  /\ MaxConnect < ClockSize   \* seconds, against 49 days
  /\ FirstInterval \in Nat \ {0}
  /\ MinInterval \in Nat \ {0}
  /\ MaxInterval \in Nat
  /\ MinInterval =< MaxInterval
  /\ FirstInterval =< MaxInterval
  /\ MaxInbox \in Nat \ {0}

VARIABLES
  now,              \* millis() of the root
  lastMqttAttempt,
  uplink,           \* how far the router has let the root in
  broker,           \* the broker is there
  client,           \* mqttClient.connected()
  session,          \* the broker has a session with the client
  lost,             \* time since the session ended, while the client believes in it
  call,             \* time until connect() returns, or NoCall
  answering,        \* the broker has been there since connect() was called
  inbox,            \* readings on the root that mesh.update() has not handed out
  looped,           \* the loop went round since the last change
  route,            \* mesh.isConnected(ROOT_ID) on the mote
  interval,         \* interval of taskSendTemperature
  left,             \* time until sendTemperature runs
  sinceAttempt,     \* history: time since connect() was last called
  waiting,          \* history: time for which connect() could have been called and was not
  stale             \* history: time since a reading reached the broker or something was down

root == <<now, lastMqttAttempt, client, call, looped>>
links == <<uplink, broker, session, lost, answering>>
mote == <<route, interval, left>>
history == <<sinceAttempt, waiting, stale>>
vars == <<root, links, inbox, mote, history>>

Uplink == {"none", "associated", "addressed"}

\* Time for a lost session to be noticed, and for the back-off, and then for
\* connect() or for the next reading.
Recovery ==
  KeepAlive + RetryInterval + IF MaxConnect < MaxInterval THEN MaxInterval ELSE MaxConnect

Init ==
  /\ now = 0
  /\ lastMqttAttempt = 0
  /\ uplink = "none"
  /\ broker \in BOOLEAN
  /\ client = FALSE
  /\ session = FALSE
  /\ lost = 0
  /\ call = NoCall
  /\ answering = FALSE
  /\ inbox = 0
  /\ looped = FALSE
  /\ route = FALSE
  /\ interval = FirstInterval
  /\ left = 0
  /\ sinceAttempt = RetryInterval
  /\ waiting = 0
  /\ stale = 0

-----------------------------------------------------------------------------
(***************************************************************************)
(* The root.                                                               *)
(***************************************************************************)
\* Slip: the sum may wrap where the difference does not.
BackedOffSum == now >= (lastMqttAttempt + RetryInterval) % ClockSize

\* Slip: the difference as a signed number.
BackedOffSigned == now - lastMqttAttempt >= RetryInterval

\* now - lastMqttAttempt, unsigned, is at least MQTT_RETRY_INTERVAL.
BackedOff == (now - lastMqttAttempt) % ClockSize >= RetryInterval

\* What reconnectMqtt needs besides.
Eligible == ~client /\ call = NoCall /\ uplink = "addressed"

\* The root can talk to the broker.
Reachable == broker /\ uplink = "addressed"

\* receivedCallback, for all that mesh.update() hands out: a reading that finds
\* the client disconnected is dropped, and one that finds it connected to a
\* session that is gone is lost.
receivedCallback ==
  /\ inbox' = 0
  /\ stale' = IF inbox > 0 /\ client /\ session THEN 0 ELSE stale

\* reconnectMqtt up to the call of connect().
reconnectMqtt ==
  /\ lastMqttAttempt' = now
  /\ call' \in 0 .. MaxConnect
  /\ answering' = Reachable
  /\ sinceAttempt' = 0
  /\ waiting' = 0

loop ==
  /\ call = NoCall
  /\ ~looped
  /\ receivedCallback
  /\ \/ /\ Eligible /\ BackedOff
        /\ reconnectMqtt
        /\ UNCHANGED looped
     \/ /\ ~(Eligible /\ BackedOff)
        /\ looped' = TRUE
        /\ UNCHANGED <<lastMqttAttempt, call, answering, sinceAttempt, waiting>>
  /\ UNCHANGED <<now, client, uplink, broker, session, lost, mote>>

\* Slip: the back-off counts from the end of connect().
connect_returns_stamped ==
  /\ call = 0
  /\ call' = NoCall
  /\ client' \in {answering, Reachable}
  /\ answering' = FALSE
  /\ session' = client'
  /\ lost' = 0
  /\ looped' = FALSE
  /\ lastMqttAttempt' = now
  /\ UNCHANGED <<now, uplink, broker, inbox, mote, history>>

\* connect() returns: with a session if the broker was there all the time, and
\* with or without one if it has come since.
connect_returns ==
  /\ call = 0
  /\ call' = NoCall
  /\ client' \in {answering, Reachable}
  /\ answering' = FALSE
  /\ session' = client'
  /\ lost' = 0
  /\ looped' = FALSE
  /\ UNCHANGED <<now, lastMqttAttempt, uplink, broker, inbox, mote, history>>

\* The client finds out that its session is gone: the socket says so, or
\* mqttClient.loop() misses the answer to its ping.
ClientNotices ==
  /\ client /\ ~session
  /\ client' = FALSE
  /\ lost' = 0
  /\ looped' = FALSE
  /\ UNCHANGED <<now, lastMqttAttempt, call, answering, uplink, broker, session, inbox,
                 mote, history>>

\* The root boots again.
Reboot ==
  /\ now' = 0
  /\ lastMqttAttempt' = 0
  /\ client' = FALSE
  /\ session' = FALSE
  /\ lost' = 0
  /\ call' = NoCall
  /\ answering' = FALSE
  /\ inbox' = 0
  /\ looped' = FALSE
  /\ uplink' = "none"
  /\ waiting' = 0
  /\ stale' = 0
  /\ UNCHANGED <<broker, mote, sinceAttempt>>

-----------------------------------------------------------------------------
(***************************************************************************)
(* The mote.                                                               *)
(***************************************************************************)
\* Slip: random() is taken to include its upper bound.
NextIntervalsInclusive == IF route THEN MinInterval .. MaxInterval + 1 ELSE {interval}

\* A mote without a route keeps its interval; one that sends draws the next.
NextIntervals == IF route THEN MinInterval .. MaxInterval ELSE {interval}

sendTemperature ==
  /\ left = 0
  /\ interval' \in NextIntervals
  /\ left' = interval'
  /\ inbox' = IF route /\ inbox < MaxInbox THEN inbox + 1 ELSE inbox
  /\ looped' = FALSE
  /\ UNCHANGED <<now, lastMqttAttempt, client, call, links, route, history>>

-----------------------------------------------------------------------------
(***************************************************************************)
(* The world around them.                                                  *)
(***************************************************************************)
\* The router lets the root in, gives it an address, or drops it.
UplinkChanges ==
  /\ \/ uplink = "none" /\ uplink' = "associated"
     \/ uplink = "associated" /\ uplink' = "addressed"
     \/ uplink # "none" /\ uplink' = "none"
  /\ session' = (session /\ uplink' = "addressed")
  /\ answering' = FALSE
  /\ waiting' = 0
  /\ stale' = 0
  /\ looped' = FALSE
  /\ UNCHANGED <<now, lastMqttAttempt, client, call, broker, lost, inbox, mote, sinceAttempt>>

BrokerChanges ==
  /\ broker' = ~broker
  /\ session' = FALSE
  /\ answering' = FALSE
  /\ stale' = 0
  /\ looped' = FALSE
  /\ UNCHANGED <<now, lastMqttAttempt, client, call, uplink, lost, inbox, mote, sinceAttempt,
                 waiting>>

\* With the route the mesh loses any of the readings on their way.
RouteChanges ==
  /\ route' = ~route
  /\ IF route THEN inbox' \in 0 .. inbox ELSE UNCHANGED inbox
  /\ stale' = 0
  /\ looped' = FALSE
  /\ UNCHANGED <<now, lastMqttAttempt, client, call, links, interval, left, sinceAttempt,
                 waiting>>

Healthy == Reachable /\ route

\* Time passes; the histories need not count further than their bounds.
Tick ==
  /\ IF call = NoCall THEN looped ELSE call > 0
  /\ client /\ ~session => lost < KeepAlive
  /\ left > 0
  /\ now' = (now + 1) % ClockSize
  /\ call' = IF call = NoCall THEN NoCall ELSE call - 1
  /\ lost' = IF client /\ ~session THEN lost + 1 ELSE 0
  /\ left' = left - 1
  /\ looped' = FALSE
  /\ sinceAttempt' = IF sinceAttempt < RetryInterval THEN sinceAttempt + 1 ELSE sinceAttempt
  /\ waiting' = IF ~Eligible THEN 0 ELSE IF waiting > RetryInterval THEN waiting ELSE waiting + 1
  /\ stale' = IF ~Healthy THEN 0 ELSE IF stale > Recovery THEN stale ELSE stale + 1
  /\ UNCHANGED <<lastMqttAttempt, client, uplink, broker, session, answering, inbox, route,
                 interval>>

Next ==
  \/ loop
  \/ connect_returns
  \/ ClientNotices
  \/ Reboot
  \/ sendTemperature
  \/ UplinkChanges
  \/ BrokerChanges
  \/ RouteChanges
  \/ Tick

Spec == Init /\ [][Next]_vars

-----------------------------------------------------------------------------
TypeOK ==
  /\ now \in 0 .. ClockSize - 1
  /\ lastMqttAttempt \in 0 .. ClockSize - 1
  /\ uplink \in Uplink
  /\ broker \in BOOLEAN /\ client \in BOOLEAN /\ session \in BOOLEAN
  /\ answering \in BOOLEAN /\ looped \in BOOLEAN /\ route \in BOOLEAN
  /\ lost \in 0 .. KeepAlive
  /\ call \in 0 .. MaxConnect \cup {NoCall}
  /\ inbox \in 0 .. MaxInbox
  /\ interval \in {FirstInterval} \cup MinInterval .. MaxInterval
  /\ left \in 0 .. MaxInterval
  /\ sinceAttempt \in 0 .. RetryInterval
  /\ waiting \in 0 .. RetryInterval + 1
  /\ stale \in 0 .. Recovery + 1

\* Two calls of connect() are at least MQTT_RETRY_INTERVAL apart, when millis()
\* wraps between them and when the root boots again between them, although
\* lastMqttAttempt is 0 then.
AttemptsApart == [][call = NoCall /\ call' # NoCall => sinceAttempt >= RetryInterval]_vars

\* A root that has an address and no session calls connect() within
\* MQTT_RETRY_INTERVAL, also when lastMqttAttempt is several wraps old.
RetriedInTime == waiting =< RetryInterval

\* When the uplink, the broker and the route to the root stay up, a reading
\* reaches the broker within the time it takes to notice a lost session, to
\* back off, to connect and to send the next one; and so on from there.
Fresh == stale =< Recovery
===============================================================================
