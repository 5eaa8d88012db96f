--------------------------- MODULE MqttBridge_proofs ---------------------------
(***************************************************************************)
(* Proofs about the back-off of the bridge, for a clock of any size larger *)
(* than the interval and for any times.                                    *)
(***************************************************************************)
EXTENDS MqttBridge, TLAPS

LEMMA Constants ==
  /\ RetryInterval \in Nat /\ RetryInterval > 0
  /\ ClockSize \in Nat /\ RetryInterval < ClockSize
  /\ MaxConnect \in Nat /\ NoCall \notin 0 .. MaxConnect
  /\ KeepAlive \in Nat /\ MaxConnect =< KeepAlive + RetryInterval /\ MaxConnect < ClockSize
  /\ FirstInterval \in Nat /\ FirstInterval > 0 /\ FirstInterval =< MaxInterval
  /\ MinInterval \in Nat /\ MinInterval > 0 /\ MinInterval =< MaxInterval
  /\ MaxInterval \in Nat
  /\ MaxInbox \in Nat /\ MaxInbox > 0
BY MqttAssumption

LEMMA RecoveryNat == Recovery \in Nat
<1>1. CASE MaxConnect < MaxInterval
  BY <1>1, Constants DEF Recovery
<1>2. CASE ~(MaxConnect < MaxInterval)
  BY <1>2, Constants DEF Recovery
<1> QED
  BY <1>1, <1>2

-----------------------------------------------------------------------------
(***************************************************************************)
(* The clock.                                                              *)
(***************************************************************************)
Clock == 0 .. ClockSize - 1

\* The age of a reading l of the clock at n, as unsigned arithmetic has it.
LEMMA AgeValue ==
  ASSUME NEW n \in Clock, NEW l \in Clock
  PROVE  (n - l) % ClockSize = IF l =< n THEN n - l ELSE n - l + ClockSize
<1>1. n \in Int /\ l \in Int /\ 0 =< n /\ n < ClockSize /\ 0 =< l /\ l < ClockSize
  BY Constants DEF Clock
<1>2. CASE l =< n
  BY <1>1, <1>2, Constants
<1>3. CASE ~(l =< n)
  BY <1>1, <1>3, Constants
<1> QED
  BY <1>2, <1>3

\* The clock after a tick.
LEMMA ClockTick ==
  ASSUME NEW n \in Clock
  PROVE  /\ (n + 1) % ClockSize \in Clock
         /\ (n + 1) % ClockSize = IF n + 1 = ClockSize THEN 0 ELSE n + 1
<1>1. n \in Int /\ 0 =< n /\ n < ClockSize
  BY Constants DEF Clock
<1>2. CASE n + 1 = ClockSize
  BY <1>1, <1>2, Constants DEF Clock
<1>3. CASE n + 1 < ClockSize
  BY <1>1, <1>3, Constants DEF Clock
<1> QED
  BY <1>1, <1>2, <1>3, Constants

\* A tick makes a reading a tick older, through a wrap of the clock, until its
\* age itself wraps to zero.
LEMMA AgeTick ==
  ASSUME NEW n \in Clock, NEW l \in Clock
  PROVE  LET age == (n - l) % ClockSize
             later == (((n + 1) % ClockSize) - l) % ClockSize
         IN  /\ age \in Nat /\ later \in Nat
             /\ later = age + 1 \/ later = 0
             /\ age + 1 < ClockSize => later = age + 1
<1> DEFINE m == (n + 1) % ClockSize
<1>1. /\ n \in Int /\ 0 =< n /\ n < ClockSize
      /\ l \in Int /\ 0 =< l /\ l < ClockSize
  BY Constants DEF Clock
<1>2. m \in Clock /\ m = IF n + 1 = ClockSize THEN 0 ELSE n + 1
  BY ClockTick
<1>3. (n - l) % ClockSize = IF l =< n THEN n - l ELSE n - l + ClockSize
  BY AgeValue
<1> HIDE DEF m
<1>4. (m - l) % ClockSize = IF l =< m THEN m - l ELSE m - l + ClockSize
  BY <1>2, AgeValue
<1>5. (m - l) % ClockSize \in Nat /\ (n - l) % ClockSize \in Nat
  BY <1>1, <1>2, <1>3, <1>4, Constants
<1>6. CASE n + 1 = ClockSize
  <2>1. m = 0
    BY <1>2, <1>6
  <2> QED
    BY <1>1, <1>3, <1>4, <1>5, <1>6, <2>1, Constants DEF m
<1>7. CASE n + 1 # ClockSize
  <2>1. m = n + 1
    BY <1>2, <1>7
  <2> QED
    BY <1>1, <1>3, <1>4, <1>5, <1>7, <2>1, Constants DEF m
<1> QED
  BY <1>6, <1>7

-----------------------------------------------------------------------------
(***************************************************************************)
(* Type correctness.                                                       *)
(***************************************************************************)
\* TypeOK in two parts, of which one prover does the first and one the second.
Flags ==
  /\ broker \in BOOLEAN /\ client \in BOOLEAN /\ session \in BOOLEAN
  /\ answering \in BOOLEAN /\ looped \in BOOLEAN /\ route \in BOOLEAN

Ranges ==
  /\ now \in Clock
  /\ lastMqttAttempt \in Clock
  /\ uplink \in Uplink
  /\ lost \in 0 .. KeepAlive
  /\ call \in 0 .. MaxConnect \cup {NoCall}
  /\ inbox \in 0 .. MaxInbox
  /\ interval \in {FirstInterval} \cup MinInterval .. MaxInterval
  /\ left \in 0 .. MaxInterval
  /\ sinceAttempt \in 0 .. RetryInterval
  /\ waiting \in 0 .. RetryInterval + 1
  /\ stale \in 0 .. Recovery + 1

LEMMA TypeParts == TypeOK <=> Flags /\ Ranges
BY DEF TypeOK, Flags, Ranges, Clock

LEMMA InitFlags == Init => Flags
BY Zenon DEF Init, Flags

LEMMA InitRanges == Init => Ranges
BY Constants, RecoveryNat DEF Init, Ranges, Uplink, Clock

LEMMA NextFlags == Flags /\ [Next]_vars => Flags'
<1> SUFFICES ASSUME Flags, [Next]_vars PROVE Flags'
  OBVIOUS
<1>1. Reachable \in BOOLEAN
  BY Zenon DEF Flags, Reachable
<1>2. CASE loop
  BY <1>1, <1>2, Zenon DEF Flags, loop, reconnectMqtt, mote
<1>3. CASE connect_returns
  BY <1>1, <1>3, Zenon DEF Flags, connect_returns, mote, history
<1>4. CASE ClientNotices
  BY <1>4, Zenon DEF Flags, ClientNotices, mote, history
<1>5. CASE Reboot
  BY <1>5, Zenon DEF Flags, Reboot, mote
<1>6. CASE sendTemperature
  BY <1>6, Zenon DEF Flags, sendTemperature, links, history
<1>7. CASE UplinkChanges
  BY <1>7, Zenon DEF Flags, UplinkChanges, mote
<1>8. CASE BrokerChanges
  BY <1>8, Zenon DEF Flags, BrokerChanges, mote
<1>9. CASE RouteChanges
  BY <1>9, Zenon DEF Flags, RouteChanges, links
<1>10. CASE Tick
  BY <1>10, Zenon DEF Flags, Tick
<1>11. CASE UNCHANGED vars
  BY <1>11, Zenon DEF Flags, vars, root, links, mote, history
<1> QED
  BY <1>2, <1>3, <1>4, <1>5, <1>6, <1>7, <1>8, <1>9, <1>10, <1>11 DEF Next

LEMMA LoopRanges == Ranges /\ loop => Ranges'
<1> SUFFICES ASSUME Ranges, loop PROVE Ranges'
  OBVIOUS
<1>1. inbox' \in 0 .. MaxInbox /\ stale' \in 0 .. Recovery + 1
  BY Constants, RecoveryNat DEF Ranges, loop, receivedCallback
<1>2. /\ lastMqttAttempt' \in Clock
      /\ call' \in 0 .. MaxConnect \cup {NoCall}
      /\ sinceAttempt' \in 0 .. RetryInterval
      /\ waiting' \in 0 .. RetryInterval + 1
  BY Constants DEF Ranges, loop, reconnectMqtt
<1> QED
  BY <1>1, <1>2 DEF Ranges, loop, mote

LEMMA TickRanges == Ranges /\ Tick => Ranges'
<1> SUFFICES ASSUME Ranges, Tick PROVE Ranges'
  OBVIOUS
<1>1. now' \in Clock
  BY ClockTick DEF Ranges, Tick
<1>2. call' \in 0 .. MaxConnect \cup {NoCall}
  BY Constants DEF Ranges, Tick
<1>3. lost' \in 0 .. KeepAlive
  BY Constants DEF Ranges, Tick
<1>4. left' \in 0 .. MaxInterval
  BY Constants DEF Ranges, Tick
<1>5. sinceAttempt' \in 0 .. RetryInterval
  BY Constants DEF Ranges, Tick
<1>6. waiting' \in 0 .. RetryInterval + 1
  BY Constants DEF Ranges, Tick
<1>7. stale' \in 0 .. Recovery + 1
  BY RecoveryNat DEF Ranges, Tick
<1> QED
  BY <1>1, <1>2, <1>3, <1>4, <1>5, <1>6, <1>7 DEF Ranges, Tick

LEMMA NextRanges == Ranges /\ [Next]_vars => Ranges'
<1> SUFFICES ASSUME Ranges, [Next]_vars PROVE Ranges'
  OBVIOUS
<1>1. CASE loop
  BY <1>1, LoopRanges
<1>2. CASE connect_returns
  BY <1>2, Constants DEF Ranges, connect_returns, mote, history
<1>3. CASE ClientNotices
  BY <1>3, Constants DEF Ranges, ClientNotices, mote, history
<1>4. CASE Reboot
  BY <1>4, Constants, RecoveryNat DEF Ranges, Reboot, Uplink, Clock, mote
<1>5. CASE sendTemperature
  BY <1>5, Constants DEF Ranges, sendTemperature, NextIntervals, links, history
<1>6. CASE UplinkChanges
  BY <1>6, Constants, RecoveryNat DEF Ranges, UplinkChanges, Uplink, mote
<1>7. CASE BrokerChanges
  BY <1>7, Constants, RecoveryNat DEF Ranges, BrokerChanges, mote
<1>8. CASE RouteChanges
  <2>1. inbox' \in 0 .. MaxInbox
    BY <1>8, Constants DEF Ranges, RouteChanges
  <2> QED
    BY <1>8, <2>1, RecoveryNat DEF Ranges, RouteChanges, links
<1>9. CASE Tick
  BY <1>9, TickRanges
<1>10. CASE UNCHANGED vars
  BY <1>10 DEF Ranges, vars, root, links, mote, history
<1> QED
  BY <1>1, <1>2, <1>3, <1>4, <1>5, <1>6, <1>7, <1>8, <1>9, <1>10 DEF Next

\* The variables stay in their ranges, clock and timers of the code included.
THEOREM TypeCorrect == Spec => []TypeOK
<1>1. Init => Flags /\ Ranges
  BY InitFlags, InitRanges
<1>2. Flags /\ Ranges /\ [Next]_vars => (Flags /\ Ranges)'
  BY NextFlags, NextRanges
<1>3. TypeOK <=> Flags /\ Ranges
  BY TypeParts
<1> QED
  BY <1>1, <1>2, <1>3, PTL DEF Spec

-----------------------------------------------------------------------------
(***************************************************************************)
(* The back-off.  Age is what the code computes.  It wraps, so that it may *)
(* say less than the time since the last call, but it never says more.     *)
(***************************************************************************)
Age == (now - lastMqttAttempt) % ClockSize

LEMMA AgeNat == Ranges => Age \in Nat
BY AgeValue, Constants DEF Ranges, Age, Clock

\* As long as the last call is recent, its age as the code sees it is no more
\* than its age; a reboot makes it zero.
AgeIsNoMore == sinceAttempt < RetryInterval => Age =< sinceAttempt

\* A call that has been due for some ticks is held back by the age alone,
\* which has grown with every one of them.
AgeHoldsBack ==
  /\ Eligible /\ looped => Age < RetryInterval
  /\ waiting > 0 => Eligible /\ waiting =< Age /\ Age =< RetryInterval

LEMMA InitBackOff == Init => AgeIsNoMore /\ AgeHoldsBack
<1> SUFFICES ASSUME Init PROVE AgeIsNoMore /\ AgeHoldsBack
  OBVIOUS
<1>1. ~Eligible
  BY Zenon DEF Init, Eligible
<1>2. sinceAttempt = RetryInterval /\ waiting = 0
  BY DEF Init
<1> QED
  BY <1>1, <1>2, Constants DEF AgeIsNoMore, AgeHoldsBack

\* Nothing but a reboot, a call and a tick changes the age.
LEMMA SameAge ==
  ASSUME now' = now, lastMqttAttempt' = lastMqttAttempt
  PROVE  Age' = Age
BY DEF Age

LEMMA TickAge ==
  ASSUME Ranges, Tick
  PROVE  /\ Age \in Nat
         /\ Age' = Age + 1 \/ Age' = 0
         /\ Age + 1 < ClockSize => Age' = Age + 1
BY AgeTick DEF Ranges, Tick, Age

LEMMA ZeroAge ==
  ASSUME Ranges', now' = lastMqttAttempt'
  PROVE  Age' = 0
<1>1. now' \in Clock /\ lastMqttAttempt' \in Clock
  BY DEF Ranges
<1> QED
  BY <1>1, AgeValue DEF Age, Clock

LEMMA NextNoMore == Ranges /\ Ranges' /\ AgeIsNoMore /\ [Next]_vars => AgeIsNoMore'
<1> SUFFICES ASSUME Ranges, Ranges', AgeIsNoMore, [Next]_vars PROVE AgeIsNoMore'
  OBVIOUS
<1>1. CASE now' = now /\ lastMqttAttempt' = lastMqttAttempt /\ sinceAttempt' = sinceAttempt
  BY <1>1, SameAge DEF AgeIsNoMore
<1>2. CASE now' = lastMqttAttempt'
  BY <1>2, ZeroAge, Constants DEF AgeIsNoMore, Ranges
<1>3. CASE loop
  <2>1. CASE Eligible /\ BackedOff /\ reconnectMqtt
    BY <1>2, <1>3, <2>1 DEF loop, reconnectMqtt
  <2>2. CASE ~(Eligible /\ BackedOff)
    BY <1>1, <1>3, <2>2 DEF loop
  <2> QED
    BY <1>3, <2>1, <2>2 DEF loop
<1>4. CASE Reboot
  BY <1>2, <1>4 DEF Reboot
<1>5. CASE Tick
  <2>1. /\ sinceAttempt \in Nat
        /\ sinceAttempt' = IF sinceAttempt < RetryInterval THEN sinceAttempt + 1 ELSE sinceAttempt
    BY <1>5, Constants DEF Ranges, Tick
  <2> QED
    BY <1>5, <2>1, TickAge, Constants DEF AgeIsNoMore
<1>6. CASE UNCHANGED vars
  BY <1>1, <1>6 DEF vars, root, history
<1>7. CASE connect_returns \/ ClientNotices \/ sendTemperature
  BY <1>1, <1>7 DEF connect_returns, ClientNotices, sendTemperature, history
<1>8. CASE UplinkChanges \/ BrokerChanges \/ RouteChanges
  BY <1>1, <1>8 DEF UplinkChanges, BrokerChanges, RouteChanges
<1> QED
  BY <1>3, <1>4, <1>5, <1>6, <1>7, <1>8 DEF Next

LEMMA NextHoldsBack == Ranges /\ Flags /\ AgeHoldsBack /\ [Next]_vars => AgeHoldsBack'
<1> SUFFICES ASSUME Ranges, Flags, AgeHoldsBack, [Next]_vars PROVE AgeHoldsBack'
  OBVIOUS
<1>1. ASSUME ~looped', waiting' = 0 PROVE AgeHoldsBack'
  BY <1>1 DEF AgeHoldsBack
<1>2. ASSUME ~looped', waiting' = waiting, Eligible' \/ waiting = 0,
             now' = now, lastMqttAttempt' = lastMqttAttempt
      PROVE  AgeHoldsBack'
  <2>1. Age' = Age
    BY <1>2, SameAge
  <2> QED
    BY <1>2, <2>1 DEF AgeHoldsBack
<1>3. waiting \in Nat /\ (waiting = 0 \/ Eligible)
  BY Constants DEF AgeHoldsBack, Ranges
<1>4. CASE loop
  <2>1. CASE Eligible /\ BackedOff /\ reconnectMqtt
    <3>1. ~Eligible'
      BY <2>1, Constants DEF reconnectMqtt, Eligible
    <3>2. waiting' = 0
      BY <2>1 DEF reconnectMqtt
    <3> QED
      BY <3>1, <3>2 DEF AgeHoldsBack
  <2>2. CASE ~(Eligible /\ BackedOff)
    <3>1. /\ now' = now /\ lastMqttAttempt' = lastMqttAttempt /\ waiting' = waiting
          /\ client' = client /\ call' = call /\ uplink' = uplink
      BY <1>4, <2>2 DEF loop
    <3>2. Age' = Age /\ Age \in Nat
      BY <3>1, SameAge, AgeNat
    <3>3. Eligible' = Eligible
      BY <3>1, Zenon DEF Eligible
    <3>4. Eligible => Age < RetryInterval
      BY <2>2, <3>2, Constants DEF BackedOff, Age
    <3> QED
      BY <3>1, <3>2, <3>3, <3>4 DEF AgeHoldsBack
  <2> QED
    BY <1>4, <2>1, <2>2 DEF loop
<1>5. CASE connect_returns
  <2>1. ~Eligible
    BY <1>5, Constants DEF connect_returns, Eligible
  <2> QED
    BY <1>2, <1>3, <1>5, <2>1 DEF connect_returns, history
<1>6. CASE ClientNotices
  <2>1. ~Eligible
    BY <1>6 DEF ClientNotices, Eligible
  <2> QED
    BY <1>2, <1>3, <1>6, <2>1 DEF ClientNotices, history
<1>7. CASE Reboot
  BY <1>1, <1>7 DEF Reboot
<1>8. CASE sendTemperature
  <2>1. Eligible' = Eligible
    BY <1>8, Zenon DEF sendTemperature, Eligible, links
  <2> QED
    BY <1>2, <1>3, <1>8, <2>1 DEF sendTemperature, history
<1>9. CASE UplinkChanges
  BY <1>1, <1>9 DEF UplinkChanges
<1>10. CASE BrokerChanges
  <2>1. Eligible' = Eligible
    BY <1>10, Zenon DEF BrokerChanges, Eligible
  <2> QED
    BY <1>2, <1>3, <1>10, <2>1 DEF BrokerChanges
<1>11. CASE RouteChanges
  <2>1. Eligible' = Eligible
    BY <1>11, Zenon DEF RouteChanges, Eligible, links
  <2> QED
    BY <1>2, <1>3, <1>11, <2>1 DEF RouteChanges
<1>12. CASE Tick
  <2>1. CASE ~Eligible
    BY <1>1, <1>12, <2>1 DEF Tick
  <2>2. CASE Eligible
    <3>1. looped
      BY <1>12, <2>2 DEF Tick, Eligible
    <3>2. /\ Age \in Nat /\ Age < RetryInterval
          /\ Age' = Age + 1
      BY <1>12, <2>2, <3>1, TickAge, Constants DEF AgeHoldsBack
    <3>3. Eligible'
      <4>1. call' = call /\ client' = client /\ uplink' = uplink
        BY <1>12, <2>2 DEF Tick, Eligible
      <4> QED
        BY <2>2, <4>1 DEF Eligible
    <3>4. ~looped' /\ waiting' \in {waiting, waiting + 1}
      BY <1>12, <2>2 DEF Tick
    <3>5. waiting =< Age
      BY <1>3, <3>2 DEF AgeHoldsBack
    <3> QED
      BY <1>3, <3>2, <3>3, <3>4, <3>5, Constants DEF AgeHoldsBack
  <2> QED
    BY <2>1, <2>2
<1>13. CASE UNCHANGED vars
  <2>1. Eligible' = Eligible /\ looped' = looped
    BY <1>13, Zenon DEF vars, root, links, Eligible
  <2>2. Age' = Age /\ waiting' = waiting
    BY <1>13, SameAge DEF vars, root, history
  <2> QED
    BY <2>1, <2>2 DEF AgeHoldsBack
<1> QED
  BY <1>4, <1>5, <1>6, <1>7, <1>8, <1>9, <1>10, <1>11, <1>12, <1>13 DEF Next

\* The strengthening from which both halves of the back-off follow.
LEMMA BackOffInvariant == Spec => [](Flags /\ Ranges /\ AgeIsNoMore /\ AgeHoldsBack)
<1>1. Init => Flags /\ Ranges /\ AgeIsNoMore /\ AgeHoldsBack
  BY InitFlags, InitRanges, InitBackOff
<1>2. Flags /\ Ranges /\ AgeIsNoMore /\ AgeHoldsBack /\ [Next]_vars
      => (Flags /\ Ranges /\ AgeIsNoMore /\ AgeHoldsBack)'
  BY NextFlags, NextRanges, NextNoMore, NextHoldsBack
<1> QED
  BY <1>1, <1>2, PTL DEF Spec

\* An address and no session never go together with a clock that holds the next
\* connect() back for longer than the interval, whatever wraps.
THEOREM BackOffEnds == Spec => []RetriedInTime
<1>1. Ranges /\ AgeHoldsBack => RetriedInTime
  <2> SUFFICES ASSUME Ranges, AgeHoldsBack PROVE RetriedInTime
    OBVIOUS
  <2>1. waiting \in Nat /\ Age \in Nat
    BY AgeNat, Constants DEF Ranges
  <2> QED
    BY <2>1, Constants DEF AgeHoldsBack, RetriedInTime
<1> QED
  BY <1>1, BackOffInvariant, PTL

\* Two calls of connect() are never closer than the interval, whatever wraps and
\* whenever the root boots again.
THEOREM BackOffHolds == Spec => AttemptsApart
<1>1. Ranges /\ AgeIsNoMore /\ [Next]_vars
      => [call = NoCall /\ call' # NoCall => sinceAttempt >= RetryInterval]_vars
  <2> SUFFICES ASSUME Ranges, AgeIsNoMore, Next, call = NoCall, call' # NoCall
               PROVE  sinceAttempt >= RetryInterval
    BY DEF vars, root
  <2>1. BackedOff
    <3>1. CASE loop
      BY <3>1 DEF loop
    <3>2. CASE connect_returns \/ ClientNotices \/ Reboot \/ sendTemperature
      BY <3>2 DEF connect_returns, ClientNotices, Reboot, sendTemperature
    <3>3. CASE UplinkChanges \/ BrokerChanges \/ RouteChanges
      BY <3>3 DEF UplinkChanges, BrokerChanges, RouteChanges
    <3>4. CASE Tick
      BY <3>4 DEF Tick
    <3> QED
      BY <3>1, <3>2, <3>3, <3>4 DEF Next
  <2>2. sinceAttempt \in Nat /\ Age \in Nat /\ Age >= RetryInterval
    BY <2>1, AgeNat, Constants DEF Ranges, BackedOff, Age
  <2> QED
    BY <2>2, Constants DEF AgeIsNoMore
<1> QED
  BY <1>1, BackOffInvariant, PTL DEF Spec, AttemptsApart

-----------------------------------------------------------------------------
(***************************************************************************)
(* Freshness.  The deadline is the sum of the stages through which a       *)
(* connection that was lost comes back, and the invariant says how far     *)
(* time may have run in each: until the client notices, until the back-off *)
(* is over, until connect() returns, until the next reading is there.      *)
(***************************************************************************)
\* What the flags have to do with each other.
Bookkeeping ==
  /\ session => client /\ Reachable
  /\ client => call = NoCall
  /\ answering => call # NoCall /\ Reachable
  /\ looped => inbox = 0
  /\ ~Healthy => stale = 0

\* The next reading is in the inbox, or on its way in time.
ReadingDue == inbox > 0 \/ stale + left =< KeepAlive + RetryInterval + MaxInterval

\* Connected: the next reading ends the wait.  Not noticed: no older than the
\* loss.  Backing off: by then Age has run along.  In connect(), with a broker
\* that came too late for it: no longer than it runs, so that Age, which has
\* not wrapped since, holds the next one back the less.  In connect(), with a
\* broker that answers: the rest of it and the next reading run together.
Deadlines ==
  /\ client /\ session => stale =< Recovery /\ ReadingDue
  /\ client /\ ~session => stale =< lost
  /\ ~client /\ call = NoCall =>
       /\ stale =< KeepAlive + RetryInterval
       /\ Age < RetryInterval => stale =< KeepAlive + Age
  /\ call # NoCall => Age + call =< MaxConnect
  /\ call # NoCall /\ ~answering => stale =< Age
  /\ call # NoCall /\ answering =>
       stale + call =< KeepAlive + RetryInterval + MaxConnect /\ ReadingDue

LEMMA RecoveryBounds ==
  /\ Recovery \in Nat
  /\ KeepAlive + RetryInterval + MaxConnect =< Recovery
  /\ KeepAlive + RetryInterval + MaxInterval =< Recovery
<1>1. CASE MaxConnect < MaxInterval
  BY <1>1, Constants DEF Recovery
<1>2. CASE ~(MaxConnect < MaxInterval)
  BY <1>2, Constants DEF Recovery
<1> QED
  BY <1>1, <1>2

\* No bookkeeping, no deadline: the invariant gives what the run checks.
LEMMA DeadlinesAreFresh == Ranges /\ Flags /\ Bookkeeping /\ Deadlines => Fresh
<1> SUFFICES ASSUME Ranges, Flags, Bookkeeping, Deadlines PROVE Fresh
  OBVIOUS
<1>1. /\ stale \in Nat /\ lost \in Nat /\ lost =< KeepAlive /\ Age \in Nat
      /\ call # NoCall => call \in Nat
  BY AgeNat, Constants, RecoveryBounds DEF Ranges
<1>2. CASE client /\ session
  BY <1>2 DEF Deadlines, Fresh
<1>3. CASE client /\ ~session
  BY <1>1, <1>3, Constants, RecoveryBounds DEF Deadlines, Fresh
<1>4. CASE ~client /\ call = NoCall
  BY <1>1, <1>4, Constants, RecoveryBounds DEF Deadlines, Fresh
<1>5. CASE call # NoCall
  BY <1>1, <1>5, Constants, RecoveryBounds DEF Deadlines, Fresh
<1> QED
  BY <1>2, <1>3, <1>4, <1>5 DEF Bookkeeping

LEMMA InitFresh == Init => Bookkeeping /\ Deadlines
<1> SUFFICES ASSUME Init PROVE Bookkeeping /\ Deadlines
  OBVIOUS
<1>1. ~session /\ ~client /\ call = NoCall /\ ~answering /\ ~looped
  BY Zenon DEF Init
<1>2. stale = 0 /\ now = 0 /\ lastMqttAttempt = 0
  BY DEF Init
<1>3. Age = 0
  <2>1. now \in Clock /\ lastMqttAttempt \in Clock
    BY <1>2, Constants DEF Clock
  <2> QED
    BY <1>2, <2>1, AgeValue DEF Age
<1> QED
  BY <1>1, <1>2, <1>3, Constants DEF Bookkeeping, Deadlines

LEMMA NextBookkeeping == Flags /\ Ranges /\ Bookkeeping /\ [Next]_vars => Bookkeeping'
<1> SUFFICES ASSUME Flags, Ranges, Bookkeeping, [Next]_vars PROVE Bookkeeping'
  OBVIOUS
<1> USE DEF Bookkeeping, Reachable, Healthy
<1>1. CASE loop
  <2>1. CASE Eligible /\ BackedOff /\ reconnectMqtt /\ UNCHANGED looped
    <3>1. call' # NoCall
      BY <2>1, Constants DEF reconnectMqtt
    <3> QED
      BY <1>1, <2>1, <3>1, Zenon DEF Flags, loop, receivedCallback, reconnectMqtt, Eligible, mote
  <2>2. CASE ~(Eligible /\ BackedOff)
    <3>1. /\ call' = call /\ answering' = answering /\ client' = client /\ session' = session
          /\ broker' = broker /\ uplink' = uplink /\ route' = route /\ inbox' = 0
      BY <1>1, <2>2, Zenon DEF loop, receivedCallback, mote
    <3>2. stale' = 0 \/ stale' = stale
      BY <1>1, Zenon DEF loop, receivedCallback
    <3> QED
      BY <3>1, <3>2, Zenon DEF Flags
  <2> QED
    BY <1>1, <2>1, <2>2, Zenon DEF loop
<1>2. CASE connect_returns
  BY <1>2, Zenon DEF Flags, connect_returns, mote, history
<1>3. CASE ClientNotices
  BY <1>3, Zenon DEF Flags, ClientNotices, mote, history
<1>4. CASE Reboot
  BY <1>4, Zenon DEF Flags, Reboot, mote
<1>5. CASE sendTemperature
  BY <1>5, Zenon DEF Flags, sendTemperature, links, history
<1>6. CASE UplinkChanges
  <2>1. session' => session /\ uplink' = "addressed"
    BY <1>6, Zenon DEF UplinkChanges
  <2>2. session => uplink = "addressed"
    BY Zenon
  <2>3. ~session'
    BY <1>6, <2>1, <2>2 DEF UplinkChanges
  <2> QED
    BY <1>6, <2>3, Zenon DEF Flags, UplinkChanges, mote
<1>7. CASE BrokerChanges
  BY <1>7, Zenon DEF Flags, BrokerChanges, mote
<1>8. CASE RouteChanges
  BY <1>8, Zenon DEF Flags, RouteChanges, links
<1>9. CASE Tick
  <2>1. call # NoCall => call' # NoCall
    BY <1>9, Constants DEF Ranges, Tick
  <2> QED
    BY <1>9, <2>1, Zenon DEF Flags, Tick
<1>10. CASE UNCHANGED vars
  BY <1>10, Zenon DEF Flags, vars, root, links, mote, history
<1> QED
  BY <1>1, <1>2, <1>3, <1>4, <1>5, <1>6, <1>7, <1>8, <1>9, <1>10 DEF Next

\* The ranges as the arithmetic of the deadlines needs them.
LEMMA Numbers ==
  ASSUME Ranges
  PROVE  /\ stale \in Nat /\ lost \in Nat /\ lost =< KeepAlive
         /\ left \in Nat /\ left =< MaxInterval
         /\ inbox \in Nat /\ inbox =< MaxInbox
         /\ Age \in Nat
         /\ call # NoCall => call \in Nat /\ call =< MaxConnect
BY AgeNat, Constants DEF Ranges

LEMMA ZeroPlus == ASSUME NEW x \in Int PROVE 0 + x = x
OBVIOUS

LEMMA LoopDeadlines ==
  Flags /\ Ranges /\ Ranges' /\ Bookkeeping /\ Deadlines /\ loop => Deadlines'
<1> SUFFICES ASSUME Flags, Ranges, Ranges', Bookkeeping, Deadlines, loop PROVE Deadlines'
  OBVIOUS
<1>1. /\ stale \in Nat /\ left \in Nat /\ left =< MaxInterval /\ Age \in Nat
      /\ stale' = 0 \/ stale' = stale
      /\ left' = left /\ lost' = lost /\ call = NoCall
  BY Numbers DEF loop, receivedCallback, mote
<1>2. client' = client /\ session' = session
  BY Zenon DEF loop
<1>3. CASE Eligible /\ BackedOff /\ reconnectMqtt
  <2>1. ~client /\ ~client'
    BY <1>2, <1>3 DEF Eligible
  <2>2. call' \in 0 .. MaxConnect /\ call' # NoCall /\ now' = lastMqttAttempt'
    BY <1>3, Constants DEF reconnectMqtt, loop
  <2>3. Age' = 0
    BY <2>2, ZeroAge
  <2>4. stale =< KeepAlive + RetryInterval
    BY <1>1, <2>1 DEF Deadlines
  <2>5. ~answering' => stale' = 0
    <3>1. answering' = Reachable
      BY <1>3 DEF reconnectMqtt
    <3>2. ~Reachable => stale = 0
      BY Zenon DEF Bookkeeping, Healthy
    <3> QED
      BY <1>1, <3>1, <3>2
  <2>6. stale' + call' =< KeepAlive + RetryInterval + MaxConnect
    BY <1>1, <2>2, <2>4, Constants
  <2>7. stale' + left' =< KeepAlive + RetryInterval + MaxInterval
    BY <1>1, <2>4, Constants
  <2>8. Age' + call' =< MaxConnect
    <3>1. call' \in Int /\ call' =< MaxConnect
      BY <2>2, Constants
    <3>2. 0 + call' = call'
      BY <3>1, ZeroPlus
    <3> QED
      BY <2>3, <3>1, <3>2
  <2>9. ASSUME ~answering' PROVE stale' =< Age'
    <3>1. stale' = 0
      BY <2>5, <2>9
    <3> QED
      BY <2>3, <3>1
  <2> QED
    BY <2>1, <2>2, <2>6, <2>7, <2>8, <2>9, Zenon DEF Deadlines, ReadingDue
<1>4. CASE ~(Eligible /\ BackedOff)
  <2>1. call' = NoCall /\ now' = now /\ lastMqttAttempt' = lastMqttAttempt
    BY <1>4 DEF loop
  <2>2. Age' = Age
    BY <2>1, SameAge
  <2>3. CASE client /\ session
    <3>1. stale' + left' =< KeepAlive + RetryInterval + MaxInterval
      <4>1. CASE inbox > 0
        <5>1. stale' = 0
          BY <2>3, <4>1 DEF loop, receivedCallback
        <5> QED
          BY <1>1, <5>1, Constants
      <4>2. CASE ~(inbox > 0)
        BY <1>1, <2>3, <4>2, Constants DEF Deadlines, ReadingDue
      <4> QED
        BY <4>1, <4>2
    <3>2. stale' =< Recovery
      BY <1>1, <3>1, RecoveryBounds, Constants
    <3> QED
      BY <1>2, <2>1, <2>3, <3>1, <3>2 DEF Deadlines, ReadingDue
  <2>4. CASE client /\ ~session
    <3>1. stale' =< lost'
      BY <1>1, <2>4, Numbers DEF Deadlines
    <3> QED
      BY <1>2, <2>1, <2>4, <3>1 DEF Deadlines
  <2>5. CASE ~client
    BY <1>1, <1>2, <2>1, <2>2, <2>5, Constants DEF Deadlines
  <2> QED
    BY <2>3, <2>4, <2>5
<1> QED
  BY <1>3, <1>4 DEF loop

LEMMA ReturnDeadlines ==
  Flags /\ Ranges /\ Bookkeeping /\ Deadlines /\ connect_returns => Deadlines'
<1> SUFFICES ASSUME Flags, Ranges, Bookkeeping, Deadlines, connect_returns PROVE Deadlines'
  OBVIOUS
<1>1. /\ stale \in Nat /\ left \in Nat /\ left =< MaxInterval /\ Age \in Nat /\ inbox \in Nat
      /\ stale' = stale /\ left' = left /\ inbox' = inbox
      /\ call = 0 /\ call' = NoCall /\ call # NoCall
  BY Numbers, Constants DEF connect_returns, mote, history
<1>2. Age' = Age
  BY SameAge DEF connect_returns
<1>3. session' = client' /\ client' \in BOOLEAN /\ (answering => client')
  <2>1. session' = client' /\ (client' = answering \/ client' = Reachable)
    BY Zenon DEF connect_returns
  <2>2. answering \in BOOLEAN /\ Reachable \in BOOLEAN /\ (answering => Reachable)
    BY Zenon DEF Flags, Bookkeeping, Reachable
  <2> QED
    BY <2>1, <2>2, Zenon
<1>4. Age =< MaxConnect
  BY <1>1, Constants DEF Deadlines
<1>5. CASE answering
  <2>1. stale =< KeepAlive + RetryInterval + MaxConnect /\ ReadingDue
    BY <1>1, <1>5, Constants DEF Deadlines
  <2>2. stale' =< Recovery /\ ReadingDue'
    BY <1>1, <2>1, RecoveryBounds, Constants DEF ReadingDue
  <2> QED
    BY <1>1, <1>3, <1>5, <2>2 DEF Deadlines
<1>6. CASE ~answering
  <2>1. stale =< Age
    BY <1>1, <1>6 DEF Deadlines
  <2>2. /\ stale' =< KeepAlive + RetryInterval /\ stale' =< KeepAlive + Age'
        /\ stale' =< Recovery
        /\ stale' + left' =< KeepAlive + RetryInterval + MaxInterval
    BY <1>1, <1>2, <1>4, <2>1, RecoveryBounds, Constants
  <2> QED
    BY <1>1, <1>3, <2>2 DEF Deadlines, ReadingDue
<1> QED
  BY <1>5, <1>6

\* Whatever is up or goes down: the histories start again, the client and
\* connect() do not learn of it at once.
LEMMA ChangeDeadlines ==
  ASSUME Flags, Ranges, Deadlines, Bookkeeping, Bookkeeping',
         stale' = 0, client' = client, call' = call, left' = left, lost' = lost,
         now' = now, lastMqttAttempt' = lastMqttAttempt
  PROVE  Deadlines'
<1>1. Age' = Age
  BY SameAge
<1>2. /\ Age \in Nat /\ lost \in Nat /\ left \in Nat /\ left =< MaxInterval
      /\ call # NoCall => call \in Nat /\ call =< MaxConnect
  BY Numbers
<1>3. /\ stale' =< Recovery /\ stale' =< lost' /\ stale' =< Age'
      /\ stale' =< KeepAlive + RetryInterval /\ stale' =< KeepAlive + Age'
      /\ stale' + left' =< KeepAlive + RetryInterval + MaxInterval
  BY <1>1, <1>2, RecoveryBounds, Constants
<1>4. call' # NoCall => stale' + call' =< KeepAlive + RetryInterval + MaxConnect
  <2> SUFFICES ASSUME call' # NoCall
               PROVE  stale' + call' =< KeepAlive + RetryInterval + MaxConnect
    OBVIOUS
  <2>1. call' \in Int /\ call' =< MaxConnect
    BY <1>2
  <2>2. 0 + call' = call'
    BY <2>1, ZeroPlus
  <2> QED
    BY <2>1, <2>2, Constants
<1>5. call' # NoCall => Age' + call' =< MaxConnect
  BY <1>1 DEF Deadlines
<1> QED
  BY <1>3, <1>4, <1>5, Zenon DEF Deadlines, ReadingDue

LEMMA NoticeDeadlines ==
  Flags /\ Ranges /\ Bookkeeping /\ Deadlines /\ ClientNotices => Deadlines'
<1> SUFFICES ASSUME Flags, Ranges, Bookkeeping, Deadlines, ClientNotices PROVE Deadlines'
  OBVIOUS
<1>1. /\ stale \in Nat /\ lost \in Nat /\ lost =< KeepAlive /\ Age \in Nat
      /\ stale' = stale /\ call' = call
  BY Numbers DEF ClientNotices, history
<1>2. Age' = Age
  BY SameAge DEF ClientNotices
<1>3. client /\ ~session /\ ~client'
  BY Zenon DEF ClientNotices
<1>4. call' = NoCall
  BY <1>1, <1>3 DEF Bookkeeping
<1>5. stale' =< KeepAlive + RetryInterval /\ stale' =< KeepAlive + Age'
  BY <1>1, <1>2, <1>3, Constants DEF Deadlines
<1> QED
  BY <1>3, <1>4, <1>5 DEF Deadlines

LEMMA RebootDeadlines == Ranges' /\ Reboot => Deadlines'
<1> SUFFICES ASSUME Ranges', Reboot PROVE Deadlines'
  OBVIOUS
<1>1. stale' = 0 /\ call' = NoCall /\ now' = lastMqttAttempt'
  BY DEF Reboot
<1>2. ~client'
  BY Zenon DEF Reboot
<1>3. Age' = 0
  BY <1>1, ZeroAge
<1>4. stale' =< KeepAlive + RetryInterval /\ stale' =< KeepAlive + Age'
  BY <1>1, <1>3, Constants
<1> QED
  BY <1>1, <1>2, <1>4 DEF Deadlines

LEMMA SendDeadlines ==
  Flags /\ Ranges /\ Ranges' /\ Bookkeeping /\ Deadlines /\ sendTemperature => Deadlines'
<1> SUFFICES ASSUME Flags, Ranges, Ranges', Bookkeeping, Deadlines, sendTemperature
             PROVE  Deadlines'
  OBVIOUS
<1>1. /\ stale \in Nat /\ inbox \in Nat /\ left' \in Nat /\ left' =< MaxInterval
      /\ stale' = stale /\ lost' = lost /\ call' = call
  BY Numbers, Constants DEF Ranges, sendTemperature, links, history
<1>2. Age' = Age
  BY SameAge DEF sendTemperature
<1>3. client' = client /\ session' = session /\ answering' = answering
  BY Zenon DEF sendTemperature, links
<1>4. ReadingDue'
  <2>1. CASE route
    <3>1. inbox' = inbox + 1 \/ (inbox' = inbox /\ ~(inbox < MaxInbox))
      BY <2>1 DEF sendTemperature
    <3>2. inbox' > 0
      BY <1>1, <3>1, Constants
    <3> QED
      BY <3>2, Zenon DEF ReadingDue
  <2>2. CASE ~route
    <3>1. stale = 0
      BY <2>2, Zenon DEF Bookkeeping, Healthy
    <3>2. stale' = 0 /\ left' \in Int /\ left' =< MaxInterval
      BY <1>1, <3>1
    <3>3. 0 + left' = left'
      BY <3>2, ZeroPlus
    <3>4. left' =< KeepAlive + RetryInterval + MaxInterval
      BY <3>2, Constants
    <3> QED
      BY <3>2, <3>3, <3>4, Zenon DEF ReadingDue
  <2> QED
    BY <2>1, <2>2
<1> QED
  BY <1>1, <1>2, <1>3, <1>4, Zenon DEF Deadlines

LEMMA NatSum == ASSUME NEW m \in Nat, NEW n \in Nat PROVE 0 =< m + n
OBVIOUS

LEMMA StillDue ==
  ASSUME NEW s \in Nat, NEW t \in Nat, t =< s + 1, NEW l \in Nat, l > 0, NEW due \in Nat,
         s + l =< due
  PROVE  t + (l - 1) =< due
OBVIOUS

\* A tick adds one to the history at most, and takes one from what is left.
LEMMA TickDeadlines ==
  Flags /\ Ranges /\ Bookkeeping /\ AgeHoldsBack /\ Deadlines /\ Tick => Deadlines'
<1> SUFFICES ASSUME Flags, Ranges, Bookkeeping, AgeHoldsBack, Deadlines, Tick PROVE Deadlines'
  OBVIOUS
<1>1. /\ stale \in Nat /\ lost \in Nat /\ left \in Nat /\ left =< MaxInterval
      /\ left > 0 /\ left' = left - 1
      /\ Age \in Nat
  BY Numbers DEF Tick
<1>2. client' = client /\ session' = session /\ answering' = answering /\ inbox' = inbox
  BY Zenon DEF Tick
<1>3. /\ call = NoCall => call' = NoCall
      /\ call # NoCall => /\ call \in Nat /\ call =< MaxConnect /\ call > 0
                         /\ call' = call - 1 /\ call' # NoCall
  BY Numbers, Constants DEF Tick
<1>4. stale' \in Nat /\ stale' =< stale + 1
  BY <1>1 DEF Tick
<1>5. ReadingDue => ReadingDue'
  <2> SUFFICES ASSUME stale + left =< KeepAlive + RetryInterval + MaxInterval
               PROVE  stale' + left' =< KeepAlive + RetryInterval + MaxInterval
    BY <1>2 DEF ReadingDue
  <2>1. KeepAlive + RetryInterval + MaxInterval \in Nat
    BY Constants
  <2>2. stale' + (left - 1) =< KeepAlive + RetryInterval + MaxInterval
    BY <1>1, <1>4, <2>1, StillDue
  <2> QED
    BY <1>1, <2>2
<1>6. CASE client /\ session
  <2>1. call = NoCall /\ inbox = 0
    <3>1. call = NoCall
      BY <1>6, Zenon DEF Bookkeeping
    <3>2. looped
      BY <3>1 DEF Tick
    <3> QED
      BY <3>1, <3>2, Zenon DEF Bookkeeping
  <2>2. stale + left =< KeepAlive + RetryInterval + MaxInterval
    BY <1>6, <2>1 DEF Deadlines, ReadingDue
  <2>3. stale' =< Recovery
    BY <1>1, <1>4, <2>2, RecoveryBounds, Constants
  <2>4. ReadingDue /\ call' = NoCall
    BY <1>3, <2>1, <2>2 DEF ReadingDue
  <2> QED
    BY <1>2, <1>5, <1>6, <2>3, <2>4, Zenon DEF Deadlines
<1>7. CASE client /\ ~session
  <2>1. call' = NoCall
    BY <1>3, <1>7, Zenon DEF Bookkeeping
  <2>2. stale =< lost /\ lost' = lost + 1
    BY <1>7 DEF Deadlines, Tick
  <2>3. stale' =< lost'
    BY <1>1, <1>4, <2>2
  <2> QED
    BY <1>2, <1>7, <2>1, <2>3, Zenon DEF Deadlines
<1>8. CASE ~client /\ call = NoCall
  <2>1. CASE Healthy
    <3>1. Eligible /\ looped
      BY <1>8, <2>1, Zenon DEF Healthy, Reachable, Eligible, Tick
    <3>2. Age < RetryInterval /\ Age' = Age + 1
      BY <1>1, <3>1, TickAge, Constants DEF AgeHoldsBack
    <3>3. stale =< KeepAlive + Age
      BY <1>8, <3>2 DEF Deadlines
    <3>4. stale' =< KeepAlive + RetryInterval /\ stale' =< KeepAlive + Age'
      BY <1>1, <1>4, <3>2, <3>3, Constants
    <3> QED
      BY <1>2, <1>3, <1>8, <3>4, Zenon DEF Deadlines
  <2>2. CASE ~Healthy
    <3>1. stale' = 0
      BY <2>2 DEF Tick
    <3>2. Age' \in Nat
      <4>1. Age \in Nat /\ (Age' = Age + 1 \/ Age' = 0)
        BY TickAge
      <4> QED
        BY <4>1
    <3>3. 0 =< KeepAlive + RetryInterval
      BY Constants
    <3>4. 0 =< KeepAlive + Age'
      BY <3>2, Constants, NatSum
    <3> QED
      BY <1>2, <1>3, <1>8, <3>1, <3>3, <3>4, Zenon DEF Deadlines
  <2> QED
    BY <2>1, <2>2
<1>9. CASE call # NoCall
  <2>1. ~client
    BY <1>9, Zenon DEF Bookkeeping
  <2>2. Age + call =< MaxConnect
    BY <1>9 DEF Deadlines
  <2>3. Age' = Age + 1
    BY <1>1, <1>3, <1>9, <2>2, TickAge, Constants
  <2>4. Age' + call' =< MaxConnect
    BY <1>1, <1>3, <1>9, <2>2, <2>3, Constants
  <2>5. ASSUME ~answering PROVE stale' =< Age'
    <3>1. stale =< Age
      BY <1>9, <2>5 DEF Deadlines
    <3> QED
      BY <1>1, <1>4, <2>3, <3>1
  <2>6. ASSUME answering
        PROVE  stale' + call' =< KeepAlive + RetryInterval + MaxConnect /\ ReadingDue
    <3>1. stale + call =< KeepAlive + RetryInterval + MaxConnect /\ ReadingDue
      BY <1>9, <2>6 DEF Deadlines
    <3> QED
      BY <1>1, <1>3, <1>4, <1>9, <3>1, Constants
  <2> QED
    BY <1>2, <1>3, <1>5, <1>9, <2>1, <2>4, <2>5, <2>6, Zenon DEF Deadlines
<1> QED
  BY <1>6, <1>7, <1>8, <1>9

LEMMA NextDeadlines ==
  Flags /\ Ranges /\ Ranges' /\ AgeHoldsBack /\ Bookkeeping /\ Bookkeeping' /\ Deadlines
    /\ [Next]_vars => Deadlines'
<1> SUFFICES ASSUME Flags, Ranges, Ranges', AgeHoldsBack, Bookkeeping, Bookkeeping', Deadlines,
                    [Next]_vars
             PROVE  Deadlines'
  OBVIOUS
<1>1. CASE loop
  BY <1>1, LoopDeadlines
<1>2. CASE connect_returns
  BY <1>2, ReturnDeadlines
<1>3. CASE ClientNotices
  BY <1>3, NoticeDeadlines
<1>4. CASE Reboot
  BY <1>4, RebootDeadlines
<1>5. CASE sendTemperature
  BY <1>5, SendDeadlines
<1>6. CASE UplinkChanges
  BY <1>6, ChangeDeadlines DEF UplinkChanges, mote
<1>7. CASE BrokerChanges
  BY <1>7, ChangeDeadlines DEF BrokerChanges, mote
<1>8. CASE RouteChanges
  BY <1>8, ChangeDeadlines DEF RouteChanges, links
<1>9. CASE Tick
  BY <1>9, TickDeadlines
<1>10. CASE UNCHANGED vars
  <2>1. Age' = Age
    BY <1>10, SameAge DEF vars, root
  <2> QED
    BY <1>10, <2>1, Zenon DEF Deadlines, ReadingDue, vars, root, links, mote, history
<1> QED
  BY <1>1, <1>2, <1>3, <1>4, <1>5, <1>6, <1>7, <1>8, <1>9, <1>10 DEF Next

\* As long as the uplink, the broker and the route stay up, no reading is later
\* at the broker than the stages of the recovery take together, for every
\* length of the stages and wherever in them the root is when they come up.
THEOREM ReadingsStayFresh == Spec => []Fresh
<1>1. Init => Bookkeeping /\ Deadlines
  BY InitFresh
<1>2. Flags /\ Ranges /\ Ranges' /\ AgeHoldsBack /\ Bookkeeping /\ Deadlines /\ [Next]_vars
      => Bookkeeping' /\ Deadlines'
  BY NextBookkeeping, NextDeadlines
<1>3. Ranges /\ Flags /\ Bookkeeping /\ Deadlines => Fresh
  BY DeadlinesAreFresh
<1> QED
  BY <1>1, <1>2, <1>3, BackOffInvariant, PTL DEF Spec
=============================================================================
