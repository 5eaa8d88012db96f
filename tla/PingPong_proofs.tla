---------------------------- MODULE PingPong_proofs ----------------------------
(***************************************************************************)
(* Proofs about the ping-pong, for any number of motes, any delays that    *)
(* satisfy the assumptions and any even number of values of the byte.      *)
(***************************************************************************)
EXTENDS PingPong, SequenceTheorems, TLAPS

LEMMA Constants ==
  /\ Root \in Node /\ NoAnswer \notin Answer
  /\ CheckInterval \in Nat /\ CheckInterval > 0
  /\ MinDelay \in Nat /\ MaxDelay \in Nat /\ MinDelay =< MaxDelay
  /\ MaxFlight \in Nat /\ MaxFlight < MinDelay
  /\ MaxQueue \in Nat /\ MaxQueue > 0
  /\ ByteSize \in Nat /\ ByteSize > 1 /\ ByteSize % 2 = 0
  /\ 2 * (MaxDelay + MaxFlight) < CheckInterval
BY PingPongAssumption, ByteAssumption, DelayAssumption, RoundTripAssumption

-----------------------------------------------------------------------------
(***************************************************************************)
(* The operators on queues and numbers.                                    *)
(***************************************************************************)
\* An answer carries the next value of the byte, of the other parity.
LEMMA SuccessorByte ==
  ASSUME NEW v \in Byte
  PROVE  /\ Successor(v) \in Byte
         /\ (Successor(v) % 2 = 1) <=> (v % 2 # 1)
<1>1. v \in Nat /\ v < ByteSize
  BY Constants DEF Byte
<1>2. CASE v + 1 = ByteSize
  <2>1. Successor(v) = 0
    BY <1>1, <1>2, Constants DEF Successor
  <2>2. v % 2 = 1
    BY <1>1, <1>2, Constants
  <2> QED
    BY <2>1, <2>2, Constants DEF Byte
<1>3. CASE v + 1 < ByteSize
  <2>1. Successor(v) = v + 1
    BY <1>1, <1>3, Constants DEF Successor
  <2>2. ((v + 1) % 2 = 1) <=> (v % 2 # 1)
    BY <1>1
  <2> QED
    BY <1>1, <1>3, <2>1, <2>2, Constants DEF Byte
<1> QED
  BY <1>1, <1>2, <1>3, Constants

\* A queue after broadcast_send: the old frames, and at most a new one behind.
LEMMA SentQueue ==
  ASSUME NEW q \in Seq(Frame), Len(q) =< MaxQueue, NEW v \in Byte
  PROVE  /\ Sent(q, v) \in Seq(Frame)
         /\ Len(Sent(q, v)) =< MaxQueue
         /\ Len(Sent(q, v)) \in {Len(q), Len(q) + 1}
         /\ \A i \in 1 .. Len(Sent(q, v)) :
              Sent(q, v)[i] = IF i =< Len(q) THEN q[i] ELSE [val |-> v, left |-> MaxFlight]
<1> DEFINE f == [val |-> v, left |-> MaxFlight]
<1>1. f \in Frame
  BY Constants DEF Frame
<1>2. Len(q) \in Nat
  BY LenProperties
<1> HIDE DEF f
<1>3. CASE Len(q) < MaxQueue
  <2>1. Sent(q, v) = Append(q, f)
    BY <1>3 DEF Sent, f
  <2>2. /\ Append(q, f) \in Seq(Frame) /\ Len(Append(q, f)) = Len(q) + 1
        /\ \A i \in 1 .. Len(q) + 1 : Append(q, f)[i] = IF i =< Len(q) THEN q[i] ELSE f
    BY <1>1, <1>2, AppendProperties
  <2> QED
    BY <1>2, <1>3, <2>1, <2>2, Constants DEF f
<1>4. CASE ~(Len(q) < MaxQueue)
  BY <1>2, <1>4 DEF Sent
<1> QED
  BY <1>3, <1>4

\* A queue whose first frame went out.
LEMMA TailQueue ==
  ASSUME NEW q \in Seq(Frame), q # << >>
  PROVE  /\ Head(q) = q[1] /\ q[1] \in Frame
         /\ Len(q) \in Nat /\ Len(q) > 0
         /\ Tail(q) \in Seq(Frame)
         /\ Len(Tail(q)) = Len(q) - 1
         /\ \A i \in 1 .. Len(Tail(q)) : Tail(q)[i] = q[i + 1]
BY HeadTailProperties, EmptySeq

\* A queue one tick later.
LEMMA AgedQueue ==
  ASSUME NEW q \in Seq(Frame), \A i \in DOMAIN q : q[i].left > 0
  PROVE  LET aged == [i \in DOMAIN q |-> [q[i] EXCEPT !.left = @ - 1]]
         IN  /\ aged \in Seq(Frame)
             /\ Len(aged) = Len(q)
             /\ \A i \in 1 .. Len(q) : /\ aged[i].val = q[i].val
                                       /\ aged[i].left = q[i].left - 1
<1> DEFINE e(i) == [q[i] EXCEPT !.left = @ - 1]
           aged == [i \in 1 .. Len(q) |-> e(i)]
<1>1. DOMAIN q = 1 .. Len(q) /\ Len(q) \in Nat
  BY LenProperties
<1>2. ASSUME NEW i \in 1 .. Len(q)
      PROVE  e(i) \in Frame /\ e(i).val = q[i].val /\ e(i).left = q[i].left - 1
  <2>1. q[i] \in Frame /\ q[i].left > 0
    BY <1>1, ElementOfSeq
  <2>2. PICK v \in Byte, l \in 0 .. MaxFlight : q[i] = [val |-> v, left |-> l]
    BY <2>1 DEF Frame
  <2>3. e(i) = [val |-> v, left |-> l - 1]
    BY <2>2
  <2>4. l - 1 \in 0 .. MaxFlight
    BY <2>1, <2>2, Constants
  <2> QED
    BY <2>2, <2>3, <2>4 DEF Frame
<1> HIDE DEF e
<1>3. aged \in [1 .. Len(q) -> Frame]
  BY <1>2
<1>4. aged \in Seq(Frame) /\ Len(aged) = Len(q)
  BY <1>1, <1>3, SeqDef
<1> QED
  BY <1>1, <1>2, <1>4 DEF e

-----------------------------------------------------------------------------
(***************************************************************************)
(* What an action leaves on each mote.                                     *)
(***************************************************************************)
\* Answers and queues are of their type: the part of TypeOK the steps rest on.
Typed ==
  /\ pending \in [Node -> Answer \cup {NoAnswer}]
  /\ air \in [Node -> Seq(Frame)]
  /\ \A n \in Node : Len(air[n]) =< MaxQueue
  /\ motes \in SUBSET Node /\ delayed \in BOOLEAN

\* The mote whose frame goes out loses it; a mote that hears it answers.
LEMMA ReceivedBy ==
  ASSUME Typed, NEW s \in motes, NEW heard \in SUBSET (motes \ {s}),
         broadcast_recv(s, heard), NEW n \in Node
  PROVE  /\ s \in Node /\ air[s] # << >> /\ air[s][1] \in Frame
         /\ n \notin heard => /\ pending'[n] = pending[n]
                              /\ n # s => air'[n] = air[n]
         /\ n = s => air'[n] = Tail(air[s]) /\ n \notin heard
         /\ n \in heard /\ delayed =>
              /\ air'[n] = air[n]
              /\ \E d \in Delays :
                   pending'[n] = Answered(pending[n], Successor(air[s][1].val), d)
         /\ n \in heard /\ ~delayed =>
              /\ air'[n] = Sent(air[n], Successor(air[s][1].val))
              /\ pending'[n] = pending[n]
         /\ pending' = [k \in Node |-> pending'[k]]
         /\ air' = [k \in Node |-> air'[k]]
<1>1. s \in Node /\ s \notin heard /\ air[s] \in Seq(Frame) /\ air[s] # << >>
  BY DEF Typed, broadcast_recv
<1>2. Head(air[s]) = air[s][1] /\ air[s][1] \in Frame
  BY <1>1, TailQueue
<1>3. CASE delayed
  <2>1. PICK d \in [heard -> Delays] :
          pending' = [k \in Node |-> IF k \in heard
                                     THEN Answered(pending[k], Successor(Head(air[s]).val), d[k])
                                     ELSE pending[k]]
    BY <1>3 DEF broadcast_recv
  <2>2. air' = [air EXCEPT ![s] = Tail(@)]
    BY <1>3 DEF broadcast_recv
  <2>3. n \in heard => d[n] \in Delays
    OBVIOUS
  <2>4. pending' = [k \in Node |-> pending'[k]]
    BY <2>1
  <2>5. air' = [k \in Node |-> air'[k]]
    BY <2>2 DEF Typed
  <2> QED
    BY <1>1, <1>2, <1>3, <2>1, <2>2, <2>3, <2>4, <2>5 DEF Typed
<1>4. CASE ~delayed
  <2>1. /\ air' = [k \in Node |-> IF k = s THEN Tail(air[k])
                                  ELSE IF k \in heard
                                       THEN Sent(air[k], Successor(Head(air[s]).val))
                                       ELSE air[k]]
        /\ pending' = pending
    BY <1>4 DEF broadcast_recv
  <2>2. air' = [k \in Node |-> air'[k]]
    BY <2>1
  <2>3. pending' = [k \in Node |-> pending'[k]]
    BY <2>1 DEF Typed
  <2> QED
    BY <1>1, <1>2, <1>4, <2>1, <2>2, <2>3 DEF Typed
<1> QED
  BY <1>3, <1>4 DEF Typed

\* A reception leaves queues and answers of their type.
LEMMA ReceivedTyped ==
  ASSUME Typed, NEW s \in motes, NEW heard \in SUBSET (motes \ {s}),
         broadcast_recv(s, heard)
  PROVE  Typed'
<1>1. ASSUME NEW n \in Node
      PROVE  /\ pending'[n] \in Answer \cup {NoAnswer}
             /\ air'[n] \in Seq(Frame)
             /\ Len(air'[n]) =< MaxQueue
  <2> DEFINE v == Successor(air[s][1].val)
  <2>1. air[n] \in Seq(Frame) /\ Len(air[n]) =< MaxQueue
    BY DEF Typed
  <2>2. pending[n] \in Answer \cup {NoAnswer}
    BY DEF Typed
  <2>3. air[s][1] \in Frame
    BY ReceivedBy
  <2>4. air[s][1].val \in Byte
    BY <2>3 DEF Frame
  <2>5. v \in Byte
    BY <2>4, SuccessorByte
  <2> HIDE DEF v
  <2>6. CASE n \notin heard /\ n # s
    BY <2>1, <2>2, <2>6, ReceivedBy
  <2>7. CASE n = s
    <3>1. air'[n] = Tail(air[n]) /\ pending'[n] = pending[n] /\ air[n] # << >>
      BY <2>7, ReceivedBy
    <3>2. /\ Tail(air[n]) \in Seq(Frame) /\ Len(Tail(air[n])) = Len(air[n]) - 1
          /\ Len(air[n]) \in Nat
      BY <2>1, <3>1, TailQueue
    <3> QED
      BY <2>1, <2>2, <3>1, <3>2, Constants
  <2>8. CASE n \in heard /\ delayed
    <3>1. PICK d \in Delays : pending'[n] = Answered(pending[n], v, d)
      BY <2>8, ReceivedBy DEF v
    <3>2. d \in 0 .. MaxDelay
      BY Constants DEF Delays
    <3>3. pending[n] = NoAnswer => pending'[n] \in Answer
      BY <2>5, <3>1, <3>2 DEF Answered, Answer
    <3>4. pending[n] # NoAnswer => pending'[n] \in Answer
      BY <2>2, <2>5, <3>1 DEF Answered, Answer
    <3>5. air'[n] = air[n]
      BY <2>8, ReceivedBy
    <3> QED
      BY <2>1, <3>3, <3>4, <3>5
  <2>9. CASE n \in heard /\ ~delayed
    <3>1. air'[n] = Sent(air[n], v) /\ pending'[n] = pending[n]
      BY <2>9, ReceivedBy DEF v
    <3> QED
      BY <2>1, <2>2, <2>5, <3>1, SentQueue
  <2> QED
    BY <2>6, <2>7, <2>8, <2>9 DEF Typed
<1>2. pending' = [k \in Node |-> pending'[k]] /\ air' = [k \in Node |-> air'[k]]
  BY ReceivedBy, Constants
<1>3. motes' = motes /\ delayed' = delayed
  BY DEF broadcast_recv
<1>4. pending' \in [Node -> Answer \cup {NoAnswer}]
  BY <1>1, <1>2
<1>5. air' \in [Node -> Seq(Frame)]
  BY <1>1, <1>2
<1> QED
  BY <1>1, <1>3, <1>4, <1>5 DEF Typed

\* An answer whose delay is over becomes the last frame of its mote.
LEMMA AnsweredBy ==
  ASSUME Typed, NEW m \in Node, do_rebroadcast(m), NEW n \in Node
  PROVE  /\ pending[m] \in Answer /\ pending[m].left = 0
         /\ n # m => pending'[n] = pending[n] /\ air'[n] = air[n]
         /\ n = m => pending'[n] = NoAnswer /\ air'[n] = Sent(air[n], pending[n].val)
         /\ pending' \in [Node -> Answer \cup {NoAnswer}]
         /\ air' \in [Node -> Seq(Frame)]
         /\ Len(air'[n]) =< MaxQueue
<1>1. pending[m] \in Answer /\ pending[m].left = 0
  BY DEF Typed, do_rebroadcast
<1>2. pending[m].val \in Byte
  BY <1>1 DEF Answer
<1>3. /\ air' = [air EXCEPT ![m] = Sent(air[m], pending[m].val)]
      /\ pending' = [pending EXCEPT ![m] = NoAnswer]
  BY DEF do_rebroadcast
<1>4. /\ Sent(air[m], pending[m].val) \in Seq(Frame)
      /\ Len(Sent(air[m], pending[m].val)) =< MaxQueue
  BY <1>2, SentQueue DEF Typed
<1> QED
  BY <1>1, <1>3, <1>4 DEF Typed

\* Mote 1 looks: it lowers the flag or sends number 1.
LEMMA LookedBy ==
  ASSUME Typed, check_message_received, NEW n \in Node
  PROVE  /\ pending' = pending
         /\ message_received \/ n # Root => air'[n] = air[n]
         /\ ~message_received /\ n = Root => air'[n] = Sent(air[n], 1)
         /\ 1 \in Byte
         /\ air' \in [Node -> Seq(Frame)]
         /\ Len(air'[n]) =< MaxQueue
<1>1. 1 \in Byte
  BY Constants DEF Byte
<1>2. Sent(air[Root], 1) \in Seq(Frame) /\ Len(Sent(air[Root], 1)) =< MaxQueue
  BY <1>1, SentQueue, Constants DEF Typed
<1>3. pending' = pending
  BY DEF check_message_received
<1>4. CASE message_received
  <2>1. air' = air
    BY <1>4 DEF check_message_received, Missed
  <2> QED
    BY <1>1, <1>3, <1>4, <2>1 DEF Typed
<1>5. CASE ~message_received
  <2>1. air' = [air EXCEPT ![Root] = Sent(air[Root], 1)]
    BY <1>5 DEF check_message_received, Missed
  <2> QED
    BY <1>1, <1>2, <1>3, <1>5, <2>1, Constants DEF Typed
<1> QED
  BY <1>4, <1>5

\* One tick: every timer of a mote is one lower, nothing else changes.
LEMMA TickedBy ==
  ASSUME Typed, Tick, NEW n \in Node
  PROVE  /\ pending[n] = NoAnswer => pending'[n] = NoAnswer
         /\ pending[n] # NoAnswer =>
              /\ pending[n] \in Answer /\ pending[n].left > 0
              /\ pending'[n] \in Answer
              /\ pending'[n].val = pending[n].val
              /\ pending'[n].left = pending[n].left - 1
         /\ air'[n] \in Seq(Frame)
         /\ Len(air'[n]) = Len(air[n])
         /\ \A i \in 1 .. Len(air[n]) : /\ air[n][i].left > 0
                                       /\ air'[n][i].val = air[n][i].val
                                       /\ air'[n][i].left = air[n][i].left - 1
         /\ pending' = [k \in Node |-> pending'[k]]
         /\ air' = [k \in Node |-> air'[k]]
<1>1. /\ air[n] \in Seq(Frame) /\ pending[n] \in Answer \cup {NoAnswer}
      /\ \A i \in DOMAIN air[n] : air[n][i].left > 0
      /\ pending[n] # NoAnswer => pending[n].left > 0
  BY DEF Typed, Tick, Idle
<1>2. /\ pending' = [k \in Node |-> IF pending[k] = NoAnswer THEN NoAnswer
                                    ELSE [pending[k] EXCEPT !.left = @ - 1]]
      /\ air' = [k \in Node |-> [i \in DOMAIN air[k] |-> [air[k][i] EXCEPT !.left = @ - 1]]]
  BY DEF Tick
<1>3. air'[n] = [i \in DOMAIN air[n] |-> [air[n][i] EXCEPT !.left = @ - 1]]
  BY <1>2
<1>4. /\ air'[n] \in Seq(Frame) /\ Len(air'[n]) = Len(air[n])
      /\ \A i \in 1 .. Len(air[n]) : /\ air'[n][i].val = air[n][i].val
                                    /\ air'[n][i].left = air[n][i].left - 1
  BY <1>1, <1>3, AgedQueue
<1>5. DOMAIN air[n] = 1 .. Len(air[n])
  BY <1>1, LenProperties
<1>6. CASE pending[n] # NoAnswer
  <2>1. PICK v \in Byte, l \in 0 .. MaxDelay : pending[n] = [val |-> v, left |-> l]
    BY <1>1, <1>6 DEF Answer
  <2>2. pending'[n] = [val |-> v, left |-> l - 1]
    BY <1>2, <1>6, <2>1
  <2>3. l > 0 /\ l - 1 \in 0 .. MaxDelay
    BY <1>1, <1>6, <2>1, Constants
  <2>4. pending[n] \in Answer /\ pending'[n] \in Answer
    BY <2>1, <2>2, <2>3 DEF Answer
  <2>5. pending[n].left = l /\ pending[n].val = v /\ pending'[n].left = l - 1 /\ pending'[n].val = v
    BY <2>1, <2>2
  <2> QED
    BY <1>1, <1>2, <1>4, <1>5, <1>6, <2>3, <2>4, <2>5
<1>7. CASE pending[n] = NoAnswer
  BY <1>1, <1>2, <1>4, <1>5, <1>7
<1> QED
  BY <1>6, <1>7

-----------------------------------------------------------------------------
(***************************************************************************)
(* Types, and the flag against the timer.                                  *)
(***************************************************************************)
LEMMA TypedStart == Init => Typed
<1> SUFFICES ASSUME Init PROVE Typed
  OBVIOUS
<1>1. pending = [n \in Node |-> NoAnswer] /\ air = [n \in Node |-> << >>]
  BY DEF Init
<1>2. << >> \in Seq(Frame) /\ Len(<< >>) = 0
  BY EmptySeq
<1> HIDE DEF Init
<1>3. motes \in SUBSET Node /\ delayed \in BOOLEAN
  BY DEF Init
<1> QED
  BY <1>1, <1>2, <1>3, Constants DEF Typed

LEMMA TypedStep == Typed /\ [Next]_vars => Typed'
<1> SUFFICES ASSUME Typed, [Next]_vars PROVE Typed'
  OBVIOUS
<1>1. CASE \E s \in motes : \E heard \in SUBSET (motes \ {s}) : broadcast_recv(s, heard)
  BY <1>1, ReceivedTyped
<1>2. CASE \E m \in motes : do_rebroadcast(m)
  <2>1. PICK m \in motes : m \in Node /\ do_rebroadcast(m)
    BY <1>2 DEF Typed
  <2>2. /\ pending' \in [Node -> Answer \cup {NoAnswer}] /\ air' \in [Node -> Seq(Frame)]
        /\ \A n \in Node : Len(air'[n]) =< MaxQueue
    BY <2>1, AnsweredBy
  <2>3. motes' = motes /\ delayed' = delayed
    BY <2>1 DEF do_rebroadcast
  <2> QED
    BY <2>2, <2>3 DEF Typed
<1>3. CASE check_message_received
  <2>1. /\ pending' = pending /\ air' \in [Node -> Seq(Frame)]
        /\ \A n \in Node : Len(air'[n]) =< MaxQueue
    BY <1>3, LookedBy, Constants
  <2>2. motes' = motes /\ delayed' = delayed
    BY <1>3 DEF check_message_received
  <2> QED
    BY <2>1, <2>2 DEF Typed
<1>4. CASE Tick
  <2>1. \A n \in Node : /\ pending'[n] \in Answer \cup {NoAnswer}
                       /\ air'[n] \in Seq(Frame) /\ Len(air'[n]) =< MaxQueue
    BY <1>4, TickedBy DEF Typed
  <2>2. pending' = [k \in Node |-> pending'[k]] /\ air' = [k \in Node |-> air'[k]]
    BY <1>4, TickedBy, Constants
  <2>3. motes' = motes /\ delayed' = delayed
    BY <1>4 DEF Tick
  <2>4. pending' \in [Node -> Answer \cup {NoAnswer}]
    BY <2>1, <2>2
  <2>5. air' \in [Node -> Seq(Frame)]
    BY <2>1, <2>2
  <2> QED
    BY <2>1, <2>3, <2>4, <2>5 DEF Typed
<1>5. CASE UNCHANGED vars
  BY <1>5 DEF Typed, vars
<1> QED
  BY <1>1, <1>2, <1>3, <1>4, <1>5 DEF Next

\* A raised flag means that mote 1 heard something in this interval, a lowered
\* one that it heard nothing in this interval; silence did not start before the
\* last one.
FlagTells ==
  /\ et \in 0 .. CheckInterval /\ quiet \in Nat /\ message_received \in BOOLEAN
  /\ message_received => quiet + et =< CheckInterval
  /\ ~message_received => /\ CheckInterval =< quiet + et
                          /\ quiet + et =< 2 * CheckInterval

LEMMA FlagStart == Init => FlagTells
<1> SUFFICES ASSUME Init PROVE FlagTells
  OBVIOUS
<1>1. message_received \in BOOLEAN /\ ~message_received
  BY DEF Init
<1>2. et = CheckInterval /\ quiet = 0
  BY DEF Init
<1>3. et \in 0 .. CheckInterval /\ quiet \in Nat /\ CheckInterval =< quiet + et
        /\ quiet + et =< 2 * CheckInterval
  BY <1>2, Constants
<1> QED
  BY <1>1, <1>3 DEF FlagTells

LEMMA FlagStep == FlagTells /\ [Next]_vars => FlagTells'
<1> SUFFICES ASSUME FlagTells, [Next]_vars PROVE FlagTells'
  OBVIOUS
<1>1. ASSUME NEW s \in motes, NEW heard \in SUBSET (motes \ {s}), broadcast_recv(s, heard)
      PROVE  FlagTells'
  <2>1. et' = et /\ message_received' = (message_received \/ Root \in heard)
    BY <1>1 DEF broadcast_recv
  <2>2. quiet' = IF Root \in heard THEN 0 ELSE quiet
    BY <1>1 DEF broadcast_recv
  <2>3. CASE Root \in heard
    <3>1. message_received' \in BOOLEAN /\ message_received'
      BY <2>1, <2>3
    <3>2. et' = et /\ quiet' = 0
      BY <2>1, <2>2, <2>3
    <3>3. et' \in 0 .. CheckInterval /\ quiet' \in Nat /\ quiet' + et' =< CheckInterval
      BY <3>2, Constants DEF FlagTells
    <3> QED
      BY <3>1, <3>3 DEF FlagTells
  <2>4. CASE Root \notin heard
    BY <2>1, <2>2, <2>4 DEF FlagTells
  <2> QED
    BY <2>3, <2>4
<1>2. ASSUME NEW m \in motes, do_rebroadcast(m) PROVE FlagTells'
  BY <1>2 DEF FlagTells, do_rebroadcast
<1>3. CASE check_message_received
  <2>1. et = 0 /\ et' = CheckInterval
    BY <1>3 DEF check_message_received
  <2>2. CASE message_received
    <3>1. message_received' = FALSE /\ quiet' = quiet
      BY <1>3, <2>2 DEF check_message_received, Missed
    <3>2. message_received' \in BOOLEAN /\ ~message_received'
      BY <3>1
    <3>3. /\ et' \in 0 .. CheckInterval /\ quiet' \in Nat
          /\ CheckInterval =< quiet' + et' /\ quiet' + et' =< 2 * CheckInterval
      BY <2>1, <2>2, <3>1, Constants DEF FlagTells
    <3> QED
      BY <3>2, <3>3 DEF FlagTells
  <2>3. CASE ~message_received
    <3>1. message_received' = message_received /\ quiet' = 0
      BY <1>3, <2>3 DEF check_message_received, Missed
    <3> QED
      BY <2>1, <2>3, <3>1, Constants DEF FlagTells
  <2> QED
    BY <2>2, <2>3
<1>4. CASE Tick
  <2>1. /\ et > 0 /\ et' = et - 1 /\ message_received' = message_received
        /\ quiet' = IF quiet > 2 * CheckInterval THEN quiet ELSE quiet + 1
    BY <1>4 DEF Tick, Idle
  <2>2. quiet =< 2 * CheckInterval
    BY Constants DEF FlagTells
  <2> QED
    BY <2>1, <2>2, Constants DEF FlagTells
<1>5. CASE UNCHANGED vars
  BY <1>5 DEF FlagTells, vars
<1> QED
  BY <1>1, <1>2, <1>3, <1>4, <1>5 DEF Next

LEMMA FlagAlways == Spec => []FlagTells
BY FlagStart, FlagStep, PTL DEF Spec

\* The variables stay within their types, for any bounds.
THEOREM TypeCorrect == Spec => []TypeOK
<1>1. Init => Root \in motes
  BY DEF Init
<1>2. Typed /\ Root \in motes /\ [Next]_vars => (Root \in motes)'
  <2> SUFFICES ASSUME Root \in motes, [Next]_vars PROVE motes' = motes
    OBVIOUS
  <2> QED
    BY DEF Next, broadcast_recv, do_rebroadcast, check_message_received, Tick, vars
<1>3. Typed /\ Root \in motes /\ FlagTells => TypeOK
  BY Constants DEF Typed, FlagTells, TypeOK
<1> QED
  BY <1>1, <1>2, <1>3, TypedStart, TypedStep, FlagAlways, PTL DEF Spec

\* Mote 1 is never silent for more than two intervals without starting over.
THEOREM SilenceIsBounded == Spec => []SilenceEnds
<1>1. FlagTells => SilenceEnds
  BY Constants DEF FlagTells, SilenceEnds
<1> QED
  BY <1>1, FlagAlways, PTL

\* Mote 1 never starts over within an interval of the last thing it heard.
THEOREM NeverStartsOverEarly == Spec => StartsOverLate
<1>1. FlagTells /\ Typed /\ [Next]_vars =>
        [et = 0 /\ et' # 0 /\ Len(air'[Root]) > Len(air[Root]) => quiet >= CheckInterval]_vars
  <2> SUFFICES ASSUME FlagTells, Typed, Next, et = 0, et' # 0,
                      Len(air'[Root]) > Len(air[Root])
               PROVE  quiet >= CheckInterval
    OBVIOUS
  <2>1. check_message_received
    BY DEF Next, broadcast_recv, do_rebroadcast, Tick, Idle
  <2>2. ~message_received
    <3> SUFFICES ASSUME message_received PROVE FALSE
      OBVIOUS
    <3>1. air' = air
      BY <2>1 DEF check_message_received, Missed
    <3>2. Len(air[Root]) \in Nat
      BY Constants, LenProperties DEF Typed
    <3> QED
      BY <3>1, <3>2
  <2> QED
    BY <2>2, Constants DEF FlagTells
<1> QED
  BY <1>1, TypedStart, TypedStep, FlagAlways, PTL DEF Spec, StartsOverLate

-----------------------------------------------------------------------------
(***************************************************************************)
(* Two motes take turns: the parity of a number tells whose it is.         *)
(***************************************************************************)
\* Numbers on mote n have its parity.
HasParity(n) ==
  /\ pending[n] # NoAnswer => (pending[n].val % 2 = 1 <=> n = Root)
  /\ \A i \in DOMAIN air[n] : air[n][i].val % 2 = 1 <=> n = Root

\* A frame of the mote's parity keeps its queue so.
LEMMA SentParity ==
  ASSUME NEW n \in Node, NEW q \in Seq(Frame), Len(q) =< MaxQueue, NEW v \in Byte,
         \A i \in DOMAIN q : q[i].val % 2 = 1 <=> n = Root,
         v % 2 = 1 <=> n = Root
  PROVE  \A i \in DOMAIN Sent(q, v) : Sent(q, v)[i].val % 2 = 1 <=> n = Root
<1> DEFINE r == Sent(q, v)
           f == [val |-> v, left |-> MaxFlight]
<1>1. /\ Len(q) \in Nat /\ DOMAIN q = 1 .. Len(q)
      /\ r \in Seq(Frame) /\ Len(r) \in {Len(q), Len(q) + 1}
      /\ \A i \in 1 .. Len(r) : r[i] = IF i =< Len(q) THEN q[i] ELSE f
  BY LenProperties, SentQueue
<1>2. DOMAIN r = 1 .. Len(r) /\ f.val = v
  BY <1>1, LenProperties
<1> HIDE DEF r, f
<1>3. ASSUME NEW i \in DOMAIN r PROVE r[i].val % 2 = 1 <=> n = Root
  <2>1. CASE i =< Len(q)
    <3>1. i \in 1 .. Len(r) /\ r[i] = q[i]
      BY <1>1, <1>2, <2>1
    <3>2. i \in 1 .. Len(q)
      BY <1>1, <2>1, <3>1
    <3> QED
      BY <1>1, <3>1, <3>2
  <2>2. CASE ~(i =< Len(q))
    <3>1. r[i] = f
      BY <1>1, <1>2, <2>2
    <3> QED
      BY <1>2, <3>1
  <2> QED
    BY <2>1, <2>2
<1> QED
  BY <1>3 DEF r

LEMMA ParityReceived ==
  ASSUME Typed, TwoMotes, \A k \in motes : HasParity(k), Root \in motes,
         NEW s \in motes, NEW heard \in SUBSET (motes \ {s}), broadcast_recv(s, heard),
         NEW n \in motes
  PROVE  HasParity(n)'
<1> DEFINE v == Successor(air[s][1].val)
<1>1. n \in Node /\ s \in Node
  BY DEF Typed
<1>2. /\ air[n] \in Seq(Frame) /\ Len(air[n]) =< MaxQueue /\ air[s] \in Seq(Frame)
      /\ air[s] # << >> /\ air[s][1] \in Frame /\ pending[n] \in Answer \cup {NoAnswer}
  BY <1>1, ReceivedBy DEF Typed
<1>3. 1 \in DOMAIN air[s]
  BY <1>2, LenProperties, EmptySeq
<1>4. air[s][1].val \in Byte /\ (air[s][1].val % 2 = 1 <=> s = Root)
  BY <1>2, <1>3 DEF Frame, HasParity
<1>5. v \in Byte /\ (v % 2 = 1 <=> s # Root)
  BY <1>4, SuccessorByte
<1> HIDE DEF v
<1>6. CASE n \notin heard /\ n # s
  BY <1>1, <1>6, ReceivedBy DEF HasParity
<1>7. CASE n = s
  <2>1. air'[n] = Tail(air[n]) /\ pending'[n] = pending[n]
    BY <1>1, <1>7, ReceivedBy
  <2>2. /\ Len(air[n]) \in Nat /\ Tail(air[n]) \in Seq(Frame) /\ Len(Tail(air[n])) = Len(air[n]) - 1
        /\ \A i \in 1 .. Len(Tail(air[n])) : Tail(air[n])[i] = air[n][i + 1]
    BY <1>2, <1>7, TailQueue
  <2>3. DOMAIN air[n] = 1 .. Len(air[n]) /\ DOMAIN Tail(air[n]) = 1 .. Len(Tail(air[n]))
    BY <1>2, <2>2, LenProperties
  <2>4. ASSUME NEW i \in DOMAIN Tail(air[n]) PROVE Tail(air[n])[i].val % 2 = 1 <=> n = Root
    <3>1. i + 1 \in DOMAIN air[n] /\ Tail(air[n])[i] = air[n][i + 1]
      BY <2>2, <2>3
    <3> QED
      BY <3>1 DEF HasParity
  <2> QED
    BY <2>1, <2>4 DEF HasParity
<1>8. CASE n \in heard
  <2>1. v % 2 = 1 <=> n = Root
    BY <1>5, <1>8 DEF TwoMotes
  <2>2. CASE delayed
    <3>1. air'[n] = air[n] /\ \E d \in Delays : pending'[n] = Answered(pending[n], v, d)
      BY <1>1, <1>8, <2>2, ReceivedBy DEF v
    <3>2. pending'[n].val = v
      BY <1>2, <3>1 DEF Answered, Answer
    <3> QED
      BY <2>1, <3>1, <3>2 DEF HasParity
  <2>3. CASE ~delayed
    <3>1. air'[n] = Sent(air[n], v) /\ pending'[n] = pending[n]
      BY <1>1, <1>8, <2>3, ReceivedBy DEF v
    <3>2. \A i \in DOMAIN air[n] : air[n][i].val % 2 = 1 <=> n = Root
      BY DEF HasParity
    <3>3. \A i \in DOMAIN Sent(air[n], v) : Sent(air[n], v)[i].val % 2 = 1 <=> n = Root
      BY <1>1, <1>2, <1>5, <2>1, <3>2, SentParity
    <3> QED
      BY <3>1, <3>3 DEF HasParity
  <2> QED
    BY <2>2, <2>3
<1> QED
  BY <1>6, <1>7, <1>8

LEMMA ParityStep ==
  ASSUME Typed, Root \in motes, NumberTellsSender, [Next]_vars
  PROVE  NumberTellsSender'
<1>1. motes' = motes
  BY DEF Next, broadcast_recv, do_rebroadcast, check_message_received, Tick, vars
<1> SUFFICES ASSUME TwoMotes, NEW n \in motes PROVE HasParity(n)'
  BY <1>1 DEF NumberTellsSender, HasParity, TwoMotes
<1>2. \A k \in motes : HasParity(k)
  BY DEF NumberTellsSender, HasParity
<1>3. /\ n \in Node /\ air[n] \in Seq(Frame) /\ Len(air[n]) =< MaxQueue
      /\ pending[n] \in Answer \cup {NoAnswer}
  BY DEF Typed
<1>4. \A i \in DOMAIN air[n] : air[n][i].val % 2 = 1 <=> n = Root
  BY <1>2 DEF HasParity
<1>5. ASSUME NEW s \in motes, NEW heard \in SUBSET (motes \ {s}), broadcast_recv(s, heard)
      PROVE  HasParity(n)'
  BY <1>2, <1>5, ParityReceived
<1>6. ASSUME NEW m \in motes, do_rebroadcast(m) PROVE HasParity(n)'
  <2>1. m \in Node
    BY DEF Typed
  <2>2. CASE n = m
    <3>1. /\ pending[n] \in Answer /\ pending'[n] = NoAnswer
          /\ air'[n] = Sent(air[n], pending[n].val)
      BY <1>6, <2>1, <2>2, AnsweredBy
    <3>2. pending[n].val \in Byte /\ pending[n] # NoAnswer
      BY <3>1, Constants DEF Answer
    <3>3. pending[n].val % 2 = 1 <=> n = Root
      BY <1>2, <3>2 DEF HasParity
    <3> DEFINE v == pending[n].val
    <3>4. \A i \in DOMAIN Sent(air[n], v) : Sent(air[n], v)[i].val % 2 = 1 <=> n = Root
      BY <1>3, <1>4, <3>2, <3>3, SentParity
    <3> QED
      BY <3>1, <3>4 DEF HasParity
  <2>3. CASE n # m
    <3>1. pending'[n] = pending[n] /\ air'[n] = air[n]
      BY <1>3, <1>6, <2>1, <2>3, AnsweredBy
    <3> QED
      BY <1>2, <3>1 DEF HasParity
  <2> QED
    BY <2>2, <2>3
<1>7. CASE check_message_received
  <2>1. pending' = pending /\ 1 \in Byte /\ 1 % 2 = 1
    BY <1>3, <1>7, LookedBy
  <2>2. CASE message_received \/ n # Root
    <3>1. air'[n] = air[n]
      BY <1>3, <1>7, <2>2, LookedBy
    <3> QED
      BY <1>2, <2>1, <3>1 DEF HasParity
  <2>3. CASE ~message_received /\ n = Root
    <3>1. air'[n] = Sent(air[n], 1)
      BY <1>3, <1>7, <2>3, LookedBy
    <3>2. \A i \in DOMAIN Sent(air[n], 1) : Sent(air[n], 1)[i].val % 2 = 1 <=> n = Root
      BY <1>3, <1>4, <2>1, <2>3, SentParity
    <3> QED
      BY <1>2, <2>1, <3>1, <3>2 DEF HasParity
  <2> QED
    BY <2>2, <2>3
<1>8. CASE Tick
  <2>1. /\ pending[n] = NoAnswer => pending'[n] = NoAnswer
        /\ pending[n] # NoAnswer => pending'[n].val = pending[n].val
        /\ air'[n] \in Seq(Frame) /\ Len(air'[n]) = Len(air[n])
        /\ \A i \in 1 .. Len(air[n]) : air'[n][i].val = air[n][i].val
    BY <1>3, <1>8, TickedBy
  <2>2. DOMAIN air[n] = 1 .. Len(air[n]) /\ DOMAIN air'[n] = 1 .. Len(air'[n])
    BY <1>3, <2>1, LenProperties
  <2> QED
    BY <1>2, <2>1, <2>2 DEF HasParity
<1>9. CASE UNCHANGED vars
  BY <1>2, <1>9 DEF HasParity, vars
<1> QED
  BY <1>5, <1>6, <1>7, <1>8, <1>9 DEF Next

\* Between two motes odd numbers are mote 1's, whatever is lost and however
\* often the byte wraps.
THEOREM ParityTellsSender == Spec => []NumberTellsSender
<1>1. Init => NumberTellsSender
  BY Constants DEF Init, NumberTellsSender
<1>2. TypeOK => Root \in motes
  BY DEF TypeOK
<1> QED
  BY <1>1, <1>2, TypedStart, TypedStep, TypeCorrect, ParityStep, PTL DEF Spec

-----------------------------------------------------------------------------
(***************************************************************************)
(* With the delay every mote has at most one frame in its MAC layer: an    *)
(* answer waits longer than the frame before it, and when mote 1 starts    *)
(* over its last answer has gone out.                                      *)
(***************************************************************************)
\* A waiting answer outlasts the frame before it.
Calm(n) ==
  /\ Len(air[n]) \in {0, 1}
  /\ Len(air[n]) = 1 /\ pending[n] # NoAnswer => air[n][1].left < pending[n].left

\* What mote 1 has to send began before the interval in which it heard nothing.
RootDue ==
  ~message_received =>
    /\ pending[Root] # NoAnswer => pending[Root].left + CheckInterval =< MaxDelay + et
    /\ Len(air[Root]) = 1 => air[Root][1].left + CheckInterval =< MaxDelay + MaxFlight + et

StormInv == delayed => RootDue /\ \A n \in Node : Calm(n)

\* A queue of one frame, and one that got its first.
LEMMA ShortQueue ==
  ASSUME NEW q \in Seq(Frame), Len(q) \in {0, 1}, NEW v \in Byte
  PROVE  /\ q # << >> => /\ Len(q) = 1 /\ Len(Tail(q)) = 0
                         /\ q[1].left \in Nat /\ q[1].left =< MaxFlight
         /\ Len(q) = 1 => /\ q # << >>
                          /\ q[1].left \in Nat /\ q[1].left =< MaxFlight
         /\ Len(q) = 0 => /\ Len(Sent(q, v)) = 1
                          /\ Sent(q, v)[1].left = MaxFlight
<1>1. CASE Len(q) = 1
  <2>1. q # << >>
    BY <1>1, EmptySeq
  <2>2. q[1] \in Frame /\ Len(Tail(q)) = 0
    BY <1>1, <2>1, TailQueue
  <2>3. q[1].left \in 0 .. MaxFlight
    BY <2>2 DEF Frame
  <2> QED
    BY <1>1, <2>1, <2>2, <2>3, Constants
<1>2. CASE Len(q) = 0
  <2>1. q = << >>
    BY <1>2, EmptySeq
  <2> DEFINE f == [val |-> v, left |-> MaxFlight]
  <2>2. f \in Frame /\ f.left = MaxFlight
    BY Constants DEF Frame
  <2>3. Sent(q, v) = Append(q, f)
    BY <1>2, Constants DEF Sent
  <2> HIDE DEF f
  <2>4. Len(Append(q, f)) = 1 /\ Append(q, f)[1] = f
    BY <1>2, <2>2, AppendProperties
  <2> QED
    BY <1>2, <2>1, <2>2, <2>3, <2>4
<1> QED
  BY <1>1, <1>2

LEMMA StormStep ==
  ASSUME Typed, FlagTells, StormInv, [Next]_vars
  PROVE  StormInv'
<1>1. delayed' = delayed
  BY DEF Next, broadcast_recv, do_rebroadcast, check_message_received, Tick, vars
<1> SUFFICES ASSUME delayed PROVE RootDue' /\ \A n \in Node : Calm(n)'
  BY <1>1 DEF StormInv
<1>2. RootDue /\ \A n \in Node : Calm(n)
  BY DEF StormInv
<1>3. ASSUME NEW n \in Node
      PROVE  /\ air[n] \in Seq(Frame) /\ Len(air[n]) \in {0, 1} /\ Len(air[n]) =< MaxQueue
             /\ air[n] # << >> => /\ Len(air[n]) = 1 /\ Len(Tail(air[n])) = 0
             /\ Len(air[n]) = 1 => /\ air[n] # << >>
                                   /\ air[n][1].left \in Nat /\ air[n][1].left =< MaxFlight
             /\ pending[n] \in Answer \cup {NoAnswer}
             /\ pending[n] # NoAnswer => pending[n].left \in Nat /\ pending[n].left =< MaxDelay
  <2>1. air[n] \in Seq(Frame) /\ Len(air[n]) \in {0, 1}
    BY <1>2 DEF Typed, Calm
  <2>2. 0 \in Byte
    BY Constants DEF Byte
  <2>3. pending[n] # NoAnswer => pending[n].left \in 0 .. MaxDelay
    BY DEF Typed, Answer
  <2> QED
    BY <2>1, <2>2, <2>3, ShortQueue, Constants DEF Typed
<1>4. /\ et \in Nat /\ et =< CheckInterval
  BY Constants DEF FlagTells
<1>5. ASSUME NEW s \in motes, NEW heard \in SUBSET (motes \ {s}), broadcast_recv(s, heard)
      PROVE  RootDue' /\ \A n \in Node : Calm(n)'
  <2>1. ASSUME NEW n \in Node PROVE Calm(n)'
    <3>1. CASE n \notin heard /\ n # s
      BY <1>2, <1>5, <3>1, ReceivedBy DEF Calm
    <3>2. CASE n = s
      <4>1. air'[n] = Tail(air[n]) /\ air[n] # << >>
        BY <1>5, <3>2, ReceivedBy
      <4> QED
        BY <1>3, <4>1 DEF Calm
    <3>3. CASE n \in heard
      <4>1. air'[n] = air[n]
        BY <1>5, <3>3, ReceivedBy
      <4>2. PICK d \in Delays : pending'[n] = Answered(pending[n], Successor(air[s][1].val), d)
        BY <1>5, <3>3, ReceivedBy
      <4>3. CASE pending[n] = NoAnswer
        <5>1. pending'[n].left = d /\ d > MaxFlight
          BY <4>2, <4>3, Constants DEF Answered, Delays
        <5>2. d \in Nat
          BY Constants DEF Delays
        <5>3. Len(air[n]) = 1 => air[n][1].left < d
          BY <1>3, <5>1, <5>2, Constants
        <5> QED
          BY <1>3, <4>1, <5>1, <5>3 DEF Calm
      <4>4. CASE pending[n] # NoAnswer
        <5>1. pending'[n].left = pending[n].left
          BY <1>3, <4>2, <4>4 DEF Answered, Answer
        <5> QED
          BY <1>2, <4>1, <4>4, <5>1 DEF Calm
      <4> QED
        BY <4>3, <4>4
    <3> QED
      BY <3>1, <3>2, <3>3
  <2>2. RootDue'
    <3>1. CASE Root \in heard
      <4>1. message_received'
        BY <1>5, <3>1 DEF broadcast_recv
      <4> QED
        BY <4>1 DEF RootDue
    <3>2. CASE Root \notin heard
      <4>1. (~message_received' => ~message_received) /\ et' = et
        BY <1>5, <3>2 DEF broadcast_recv
      <4>2. pending'[Root] = pending[Root]
        BY <1>5, <3>2, ReceivedBy, Constants
      <4>3. CASE Root # s
        <5>1. air'[Root] = air[Root]
          BY <1>5, <3>2, <4>3, ReceivedBy, Constants
        <5> QED
          BY <1>2, <4>1, <4>2, <5>1 DEF RootDue
      <4>4. CASE Root = s
        <5>1. air'[Root] = Tail(air[Root]) /\ air[Root] # << >>
          BY <1>5, <4>4, ReceivedBy, Constants
        <5>2. Len(air'[Root]) = 0
          BY <1>3, <5>1, Constants
        <5> QED
          BY <5>2, <1>2, <4>1, <4>2, <5>1 DEF RootDue
      <4> QED
        BY <4>3, <4>4
    <3> QED
      BY <3>1, <3>2
  <2> QED
    BY <2>1, <2>2
<1>6. ASSUME NEW m \in motes, do_rebroadcast(m)
      PROVE  RootDue' /\ \A n \in Node : Calm(n)'
  <2>1. m \in Node
    BY DEF Typed
  <2>2. /\ pending[m] \in Answer /\ pending[m].left = 0 /\ pending[m] # NoAnswer
        /\ pending'[m] = NoAnswer /\ air'[m] = Sent(air[m], pending[m].val)
    BY <1>6, <2>1, AnsweredBy, Constants
  <2>3. Len(air[m]) = 0
    <3> SUFFICES ASSUME Len(air[m]) = 1 PROVE FALSE
      BY <1>3, <2>1
    <3>1. air[m][1].left < pending[m].left /\ air[m][1].left \in Nat
      BY <1>2, <1>3, <2>1, <2>2 DEF Calm
    <3> QED
      BY <2>2, <3>1
  <2>4. Len(air'[m]) = 1 /\ air'[m][1].left = MaxFlight
    <3>1. pending[m].val \in Byte
      BY <2>2 DEF Answer
    <3> QED
      BY <1>3, <2>1, <2>2, <2>3, <3>1, ShortQueue
  <2>5. \A n \in Node : n # m => pending'[n] = pending[n] /\ air'[n] = air[n]
    BY <1>6, <2>1, AnsweredBy
  <2>6. ASSUME NEW n \in Node PROVE Calm(n)'
    <3>1. CASE n = m
      BY <2>2, <2>4, <3>1 DEF Calm
    <3>2. CASE n # m
      BY <1>2, <2>5, <3>2 DEF Calm
    <3> QED
      BY <3>1, <3>2
  <2>7. RootDue'
    <3>1. message_received' = message_received /\ et' = et
      BY <1>6 DEF do_rebroadcast
    <3>2. CASE m = Root
      <4>1. ~message_received => CheckInterval =< MaxDelay + et
        BY <1>2, <1>4, <2>2, <3>2, Constants DEF RootDue
      <4>2. ~message_received => MaxFlight + CheckInterval =< MaxDelay + MaxFlight + et
        BY <1>4, <4>1, Constants
      <4> QED
        BY <2>2, <2>4, <3>1, <3>2, <4>2 DEF RootDue
    <3>3. CASE m # Root
      BY <1>2, <2>5, <3>1, <3>3, Constants DEF RootDue
    <3> QED
      BY <3>2, <3>3
  <2> QED
    BY <2>6, <2>7
<1>7. CASE check_message_received
  <2>1. et = 0 /\ et' = CheckInterval /\ pending' = pending
    BY <1>7 DEF check_message_received
  <2>2. CASE message_received
    <3>1. air' = air
      BY <1>7, <2>2 DEF check_message_received, Missed
    <3>2. \A n \in Node : Calm(n)'
      BY <1>2, <2>1, <3>1 DEF Calm
    <3>3. /\ pending[Root] # NoAnswer => pending[Root].left + CheckInterval =< MaxDelay + CheckInterval
          /\ Len(air[Root]) = 1 =>
               air[Root][1].left + CheckInterval =< MaxDelay + MaxFlight + CheckInterval
      BY <1>3, Constants
    <3>4. RootDue'
      BY <2>1, <3>1, <3>3 DEF RootDue
    <3> QED
      BY <3>2, <3>4
  <2>3. CASE ~message_received
    <3>1. pending[Root] = NoAnswer
      <4> SUFFICES ASSUME pending[Root] # NoAnswer PROVE FALSE
        OBVIOUS
      <4>1. pending[Root].left + CheckInterval =< MaxDelay + et
        BY <1>2, <2>3 DEF RootDue
      <4> QED
        BY <1>3, <2>1, <4>1, Constants
    <3>2. Len(air[Root]) = 0
      <4> SUFFICES ASSUME Len(air[Root]) = 1 PROVE FALSE
        BY <1>3, Constants
      <4>1. air[Root][1].left + CheckInterval =< MaxDelay + MaxFlight + et
        BY <1>2, <2>3 DEF RootDue
      <4> QED
        BY <1>3, <2>1, <4>1, Constants
    <3>3. air'[Root] = Sent(air[Root], 1) /\ 1 \in Byte
      BY <1>7, <2>3, LookedBy, Constants
    <3>4. Len(air'[Root]) = 1 /\ air'[Root][1].left = MaxFlight
      BY <1>3, <3>2, <3>3, ShortQueue, Constants
    <3>5. \A n \in Node : n # Root => air'[n] = air[n]
      BY <1>7, LookedBy
    <3>6. ASSUME NEW n \in Node PROVE Calm(n)'
      <4>1. CASE n = Root
        BY <2>1, <3>1, <3>4, <4>1 DEF Calm
      <4>2. CASE n # Root
        BY <1>2, <2>1, <3>5, <4>2 DEF Calm
      <4> QED
        BY <4>1, <4>2
    <3>7. MaxFlight + CheckInterval =< MaxDelay + MaxFlight + CheckInterval
      BY Constants
    <3>8. RootDue'
      BY <2>1, <3>1, <3>4, <3>7 DEF RootDue
    <3> QED
      BY <3>6, <3>8
  <2> QED
    BY <2>2, <2>3
<1>8. CASE Tick
  <2>1. et > 0 /\ et' = et - 1 /\ message_received' = message_received
    BY <1>8 DEF Tick, Idle
  <2>2. ASSUME NEW n \in Node
        PROVE  /\ pending[n] = NoAnswer => pending'[n] = NoAnswer
               /\ pending[n] # NoAnswer => pending'[n].left = pending[n].left - 1
               /\ Len(air'[n]) = Len(air[n])
               /\ Len(air[n]) = 1 => air'[n][1].left = air[n][1].left - 1
    BY <1>3, <1>8, TickedBy
  <2>3. ASSUME NEW n \in Node PROVE Calm(n)'
    <3>1. Calm(n)
      BY <1>2
    <3>2. /\ Len(air[n]) = 1 => air[n][1].left \in Nat
          /\ pending[n] # NoAnswer => pending[n].left \in Nat
      BY <1>3
    <3> QED
      BY <2>2, <3>1, <3>2 DEF Calm
  <2>4. RootDue'
    <3>1. /\ Len(air[Root]) = 1 => air[Root][1].left \in Nat
          /\ pending[Root] # NoAnswer => pending[Root].left \in Nat
      BY <1>3, Constants
    <3>2. /\ pending[Root] = NoAnswer => pending'[Root] = NoAnswer
          /\ pending[Root] # NoAnswer => pending'[Root].left = pending[Root].left - 1
          /\ Len(air'[Root]) = Len(air[Root])
          /\ Len(air[Root]) = 1 => air'[Root][1].left = air[Root][1].left - 1
      BY <2>2, Constants
    <3>3. \A x \in Nat, y \in Nat : x + CheckInterval =< y + et =>
            (x - 1) + CheckInterval =< y + et'
      BY <1>4, <2>1, Constants
    <3> SUFFICES ASSUME ~message_received
                 PROVE /\ pending[Root] # NoAnswer =>
                            pending'[Root].left + CheckInterval =< MaxDelay + et'
                       /\ Len(air[Root]) = 1 =>
                            air'[Root][1].left + CheckInterval =< (MaxDelay + MaxFlight) + et'
      BY <2>1, <3>2 DEF RootDue
    <3>4. /\ pending[Root] # NoAnswer => pending[Root].left + CheckInterval =< MaxDelay + et
          /\ Len(air[Root]) = 1 =>
               air[Root][1].left + CheckInterval =< (MaxDelay + MaxFlight) + et
      BY <1>2 DEF RootDue
    <3>5. MaxDelay \in Nat /\ MaxDelay + MaxFlight \in Nat
      BY Constants
    <3>6. pending[Root] # NoAnswer => pending'[Root].left + CheckInterval =< MaxDelay + et'
      BY <3>1, <3>2, <3>3, <3>4, <3>5
    <3>7. Len(air[Root]) = 1 =>
            air'[Root][1].left + CheckInterval =< (MaxDelay + MaxFlight) + et'
      BY <3>1, <3>2, <3>3, <3>4, <3>5
    <3> QED
      BY <3>6, <3>7
  <2> QED
    BY <2>3, <2>4
<1>9. CASE UNCHANGED vars
  BY <1>2, <1>9 DEF Calm, RootDue, vars
<1> QED
  BY <1>5, <1>6, <1>7, <1>8, <1>9 DEF Next

\* With the delay the channel is never flooded, for any number of motes.
THEOREM DelayPreventsStorm == Spec => []NoStorm
<1>1. Init => StormInv
  BY Constants, EmptySeq DEF Init, StormInv, RootDue, Calm
<1>2. StormInv => NoStorm
  <2> SUFFICES ASSUME StormInv, delayed, NEW n \in Node PROVE Len(air[n]) =< 1
    BY DEF NoStorm
  <2>1. Len(air[n]) \in {0, 1}
    BY DEF StormInv, Calm
  <2>2. \A x \in {0, 1} : x =< 1
    OBVIOUS
  <2> QED
    BY <2>1, <2>2, Zenon
<1> QED
  BY <1>1, <1>2, TypedStart, TypedStep, FlagAlways, StormStep, PTL DEF Spec

-----------------------------------------------------------------------------
(***************************************************************************)
(* Two motes have one number between them.                                 *)
(***************************************************************************)
\* There is a number in place i of mote n.
Place(n, i) == IF i = 0 THEN pending[n] # NoAnswer ELSE i \in 1 .. Len(air[n])

\* The time a whole answer takes at most, and a round.
AnswerTime == MaxDelay + MaxFlight
RoundTime == 2 * AnswerTime

\* The time after which mote 1 has heard the number or it is lost.
Wait(n, i) == (IF i = 0 THEN pending[n].left + MaxFlight ELSE air[n][i].left)
                + (IF n = Root THEN AnswerTime ELSE 0)

\* The number comes round in time; when mote 1 has heard nothing in this
\* interval, the number was under way when the interval began.
InTime(n, i) ==
  /\ n \in motes
  /\ Wait(n, i) \in 0 .. RoundTime
  /\ ~message_received => Wait(n, i) + CheckInterval =< RoundTime + et

OneInv ==
  TwoMotes =>
    /\ \A n, m \in Node : \A i, j \in Nat : Place(n, i) /\ Place(m, j) => n = m /\ i = j
    /\ \A n \in Node : \A i \in Nat : Place(n, i) => InTime(n, i)

LEMMA Times ==
  /\ AnswerTime \in Nat /\ RoundTime \in Nat /\ MaxFlight =< AnswerTime /\ MaxDelay =< AnswerTime
  /\ AnswerTime = MaxDelay + MaxFlight /\ RoundTime = AnswerTime + AnswerTime
  /\ RoundTime < CheckInterval
BY Constants DEF AnswerTime, RoundTime

\* A number that reached the other mote: where it is then, and for how long.
LEMMA ReceivedPlace ==
  ASSUME Typed, NEW s \in motes, NEW heard \in SUBSET (motes \ {s}),
         broadcast_recv(s, heard), NEW n \in Node, NEW i \in Nat, Place(n, i)',
         \A m \in Node : \A j \in Nat : Place(m, j) => m = s /\ j = 1
  PROVE  /\ n \in heard
         /\ i = IF delayed THEN 0 ELSE 1
         /\ Wait(n, i)' \in 0 .. AnswerTime + (IF n = Root THEN AnswerTime ELSE 0)
<1>1. /\ air[n] \in Seq(Frame) /\ Len(air[n]) \in Nat /\ Len(air[n]) =< MaxQueue
      /\ s \in Node /\ air[s][1] \in Frame
  BY ReceivedBy, LenProperties DEF Typed
<1>2. pending[n] = NoAnswer
  <2>1. ~Place(n, 0)
    OBVIOUS
  <2> QED
    BY <2>1 DEF Place
<1>3. n # s => Len(air[n]) = 0
  <2>1. n # s => ~Place(n, 1)
    OBVIOUS
  <2> QED
    BY <1>1, <2>1 DEF Place
<1>4. n = s => Len(air[n]) =< 1
  <2>1. ~Place(n, 2)
    OBVIOUS
  <2> QED
    BY <1>1, <2>1 DEF Place
<1>5. n \in heard
  <2> SUFFICES ASSUME n \notin heard PROVE FALSE
    OBVIOUS
  <2>1. pending'[n] = NoAnswer
    BY <1>2, ReceivedBy
  <2>2. Len(air'[n]) = 0
    <3>1. CASE n = s
      <4>1. air'[n] = Tail(air[n]) /\ air[n] # << >>
        BY <3>1, ReceivedBy
      <4>2. Len(air[n]) > 0 /\ Len(Tail(air[n])) = Len(air[n]) - 1
        BY <1>1, <4>1, TailQueue
      <4>3. \A x \in Nat : x =< 1 /\ x > 0 => x - 1 = 0
        OBVIOUS
      <4>4. Len(air[n]) \in Nat /\ Len(air[n]) =< 1
        BY <1>1, <1>4, <3>1
      <4> QED
        BY <4>1, <4>2, <4>3, <4>4
    <3>2. CASE n # s
      BY <1>3, <3>2, ReceivedBy
    <3> QED
      BY <3>1, <3>2
  <2> QED
    BY <2>1, <2>2 DEF Place
<1>6. n # s
  BY <1>5
<1> DEFINE v == Successor(air[s][1].val)
<1>7. v \in Byte
  BY <1>1, SuccessorByte DEF Frame
<1> HIDE DEF v
<1>8. CASE delayed
  <2>1. air'[n] = air[n] /\ \E d \in Delays : pending'[n] = Answered(pending[n], v, d)
    BY <1>5, <1>8, ReceivedBy DEF v
  <2>2. i = 0
    BY <1>3, <1>6, <2>1 DEF Place
  <2>3. PICK d \in Delays : pending'[n].left = d
    BY <1>2, <2>1 DEF Answered
  <2>4. d \in Nat /\ d =< MaxDelay
    BY Constants DEF Delays
  <2>5. Wait(n, 0)' = d + MaxFlight + (IF n = Root THEN AnswerTime ELSE 0)
    BY <2>3 DEF Wait
  <2> QED
    BY <1>5, <1>8, <2>2, <2>4, <2>5, Times, Constants
<1>9. CASE ~delayed
  <2>1. air'[n] = Sent(air[n], v) /\ pending'[n] = NoAnswer
    BY <1>2, <1>5, <1>9, ReceivedBy DEF v
  <2>2. Len(air'[n]) = 1 /\ air'[n][1].left = MaxFlight
    BY <1>1, <1>3, <1>6, <1>7, <2>1, ShortQueue
  <2>3. i = 1
    BY <2>1, <2>2 DEF Place
  <2>4. Wait(n, 1)' = MaxFlight + (IF n = Root THEN AnswerTime ELSE 0)
    BY <2>2 DEF Wait
  <2> QED
    BY <1>5, <1>9, <2>3, <2>4, Times, Constants
<1> QED
  BY <1>8, <1>9

LEMMA OneStep ==
  ASSUME Typed, Root \in motes, FlagTells, OneInv, [Next]_vars
  PROVE  OneInv'
<1>1. motes' = motes
  BY DEF Next, broadcast_recv, do_rebroadcast, check_message_received, Tick, vars
<1> SUFFICES ASSUME TwoMotes
             PROVE  /\ \A n, m \in Node : \A i, j \in Nat :
                         Place(n, i)' /\ Place(m, j)' => n = m /\ i = j
                    /\ \A n \in Node : \A i \in Nat : Place(n, i)' => InTime(n, i)'
  BY <1>1 DEF OneInv, TwoMotes
<1>2. /\ \A n, m \in Node : \A i, j \in Nat : Place(n, i) /\ Place(m, j) => n = m /\ i = j
      /\ \A n \in Node : \A i \in Nat : Place(n, i) => InTime(n, i)
  BY DEF OneInv
<1>3. ASSUME NEW n \in Node
      PROVE  /\ air[n] \in Seq(Frame) /\ Len(air[n]) \in Nat /\ Len(air[n]) =< MaxQueue
             /\ pending[n] \in Answer \cup {NoAnswer}
  BY LenProperties DEF Typed
<1>4. et \in Nat /\ et =< CheckInterval
  BY Constants DEF FlagTells
<1>5. ASSUME NEW s \in motes, NEW heard \in SUBSET (motes \ {s}), broadcast_recv(s, heard)
      PROVE  /\ \A n, m \in Node : \A i, j \in Nat :
                   Place(n, i)' /\ Place(m, j)' => n = m /\ i = j
             /\ \A n \in Node : \A i \in Nat : Place(n, i)' => InTime(n, i)'
  <2>1. s \in Node /\ Place(s, 1)
    <3>1. s \in Node /\ air[s] # << >>
      BY <1>5 DEF Typed, broadcast_recv
    <3>2. Len(air[s]) > 0
      BY <1>3, <3>1, EmptySeq
    <3> QED
      BY <1>3, <3>1, <3>2 DEF Place
  <2>2. \A m \in Node : \A j \in Nat : Place(m, j) => m = s /\ j = 1
    BY <1>2, <2>1
  <2>3. \A n, m \in heard : n = m
    BY DEF TwoMotes
  <2>4. ASSUME NEW n \in Node, NEW m \in Node, NEW i \in Nat, NEW j \in Nat,
               Place(n, i)', Place(m, j)'
        PROVE  n = m /\ i = j
    <3>1. n \in heard /\ i = IF delayed THEN 0 ELSE 1
      BY <1>5, <2>2, <2>4, ReceivedPlace
    <3>2. m \in heard /\ j = IF delayed THEN 0 ELSE 1
      BY <1>5, <2>2, <2>4, ReceivedPlace
    <3> QED
      BY <2>3, <3>1, <3>2
  <2>5. ASSUME NEW n \in Node, NEW i \in Nat, Place(n, i)'
        PROVE  InTime(n, i)'
    <3>1. /\ n \in heard
          /\ Wait(n, i)' \in 0 .. AnswerTime + (IF n = Root THEN AnswerTime ELSE 0)
      BY <1>5, <2>2, <2>5, ReceivedPlace
    <3>2. n \in motes /\ n # s /\ et' = et
      BY <1>5, <3>1 DEF broadcast_recv
    <3>3. CASE n = Root
      <4>1. message_received'
        BY <1>5, <3>1, <3>3 DEF broadcast_recv
      <4>2. Wait(n, i)' \in 0 .. RoundTime
        BY <3>1, <3>3, Times
      <4> QED
        BY <1>1, <3>2, <4>1, <4>2 DEF InTime
    <3>4. CASE n # Root
      <4>1. s = Root
        BY <3>2, <3>4 DEF TwoMotes
      <4>2. ~message_received' => ~message_received
        BY <1>5 DEF broadcast_recv
      <4>3. Wait(n, i)' \in 0 .. AnswerTime
        BY <3>1, <3>4, Times
      <4>4. Wait(s, 1) = air[s][1].left + AnswerTime /\ air[s][1].left \in Nat
        <5>1. air[s][1] \in Frame
          BY <1>5, <2>1, ReceivedBy
        <5>2. air[s][1].left \in 0 .. MaxFlight
          BY <5>1 DEF Frame
        <5> QED
          BY <4>1, <5>2, Constants DEF Wait
      <4>5. Wait(n, i)' \in Nat /\ Wait(s, 1) \in Nat /\ Wait(n, i)' =< Wait(s, 1)
        BY <4>3, <4>4, Times
      <4>6. InTime(s, 1)
        BY <1>2, <2>1
      <4>7. Wait(n, i)' \in 0 .. RoundTime
        BY <4>3, Times
      <4>8. ~message_received' => Wait(n, i)' + CheckInterval =< RoundTime + et'
        BY <1>4, <3>2, <4>2, <4>5, <4>6, Times, Constants DEF InTime
      <4> QED
        BY <1>1, <3>2, <4>7, <4>8 DEF InTime
    <3> QED
      BY <3>3, <3>4
  <2> QED
    BY <2>4, <2>5
<1>6. ASSUME NEW k \in motes, do_rebroadcast(k)
      PROVE  /\ \A n, m \in Node : \A i, j \in Nat :
                   Place(n, i)' /\ Place(m, j)' => n = m /\ i = j
             /\ \A n \in Node : \A i \in Nat : Place(n, i)' => InTime(n, i)'
  <2>1. k \in Node /\ Place(k, 0)
    BY <1>6 DEF Typed, Place, do_rebroadcast
  <2>2. \A m \in Node : \A j \in Nat : Place(m, j) => m = k /\ j = 0
    BY <1>2, <2>1
  <2>3. /\ pending[k] \in Answer /\ pending[k].left = 0
        /\ pending'[k] = NoAnswer /\ air'[k] = Sent(air[k], pending[k].val)
    BY <1>6, <2>1, AnsweredBy
  <2>4. Len(air[k]) = 0
    <3>1. ~Place(k, 1)
      BY <2>1, <2>2
    <3> QED
      BY <1>3, <2>1, <3>1 DEF Place
  <2>5. Len(air'[k]) = 1 /\ air'[k][1].left = MaxFlight
    <3>1. pending[k].val \in Byte
      BY <2>3 DEF Answer
    <3> QED
      BY <1>3, <2>1, <2>3, <2>4, <3>1, ShortQueue
  <2>6. ASSUME NEW n \in Node, NEW i \in Nat, Place(n, i)' PROVE n = k /\ i = 1
    <3>1. n # k => pending'[n] = pending[n] /\ air'[n] = air[n]
      BY <1>6, <2>1, AnsweredBy
    <3>2. n = k
      BY <2>2, <2>6, <3>1 DEF Place
    <3>3. i # 0
      BY <2>3, <2>6, <3>2 DEF Place
    <3>4. i \in 1 .. 1
      BY <2>5, <2>6, <3>2, <3>3 DEF Place
    <3> QED
      BY <3>2, <3>4
  <2>7. InTime(k, 1)'
    <3>1. InTime(k, 0)
      BY <1>2, <2>1
    <3>2. Wait(k, 1)' = Wait(k, 0)
      BY <2>3, <2>5, Constants DEF Wait
    <3>3. message_received' = message_received /\ et' = et
      BY <1>6 DEF do_rebroadcast
    <3> QED
      BY <1>1, <3>1, <3>2, <3>3 DEF InTime
  <2> QED
    BY <2>6, <2>7
<1>7. CASE check_message_received
  <2>1. et = 0 /\ et' = CheckInterval /\ pending' = pending
    BY <1>7 DEF check_message_received
  <2>2. CASE message_received
    <3>1. air' = air
      BY <1>7, <2>2 DEF check_message_received, Missed
    <3>2. ASSUME NEW n \in Node, NEW i \in Nat
          PROVE  (Place(n, i)' <=> Place(n, i)) /\ Wait(n, i)' = Wait(n, i)
      BY <2>1, <3>1 DEF Place, Wait
    <3>3. ASSUME NEW n \in Node, NEW i \in Nat, Place(n, i)' PROVE InTime(n, i)'
      <4>1. n \in motes /\ Wait(n, i) \in 0 .. RoundTime
        BY <1>2, <3>2, <3>3 DEF InTime
      <4>2. Wait(n, i) + CheckInterval =< RoundTime + CheckInterval
        BY <4>1, Times, Constants
      <4> QED
        BY <1>1, <2>1, <3>2, <4>1, <4>2 DEF InTime
    <3> QED
      BY <1>2, <3>2, <3>3
  <2>3. CASE ~message_received
    <3>1. ASSUME NEW n \in Node, NEW i \in Nat, Place(n, i) PROVE FALSE
      <4>1. Wait(n, i) \in 0 .. RoundTime /\ Wait(n, i) + CheckInterval =< RoundTime + 0
        BY <1>2, <2>1, <2>3, <3>1 DEF InTime
      <4> QED
        BY <4>1, Times, Constants
    <3>2. \A n \in Node : pending[n] = NoAnswer /\ Len(air[n]) = 0
      <4> SUFFICES ASSUME NEW n \in Node PROVE pending[n] = NoAnswer /\ Len(air[n]) = 0
        OBVIOUS
      <4>1. ~Place(n, 0) /\ ~Place(n, 1)
        BY <3>1
      <4> QED
        BY <1>3, <4>1 DEF Place
    <3>3. air'[Root] = Sent(air[Root], 1) /\ 1 \in Byte
      BY <1>7, <2>3, LookedBy, Constants
    <3>4. Len(air'[Root]) = 1 /\ air'[Root][1].left = MaxFlight
      BY <1>3, <3>2, <3>3, ShortQueue, Constants
    <3>5. ASSUME NEW n \in Node, NEW i \in Nat, Place(n, i)' PROVE n = Root /\ i = 1
      <4>1. pending'[n] = NoAnswer /\ (n # Root => air'[n] = air[n])
        BY <1>7, <2>1, <3>2, LookedBy
      <4>2. n = Root
        BY <3>2, <3>5, <4>1 DEF Place
      <4>3. i # 0
        BY <3>5, <4>1 DEF Place
      <4>4. i \in 1 .. 1
        BY <3>4, <3>5, <4>2, <4>3 DEF Place
      <4> QED
        BY <4>2, <4>4
    <3>6. InTime(Root, 1)'
      <4>1. Wait(Root, 1)' = MaxFlight + AnswerTime
        BY <3>4 DEF Wait
      <4>2. /\ MaxFlight + AnswerTime \in 0 .. RoundTime
            /\ MaxFlight + AnswerTime + CheckInterval =< RoundTime + CheckInterval
        BY Times, Constants
      <4> QED
        BY <1>1, <2>1, <4>1, <4>2 DEF InTime
    <3> QED
      BY <3>5, <3>6
  <2> QED
    BY <2>2, <2>3
<1>8. CASE Tick
  <2>1. et > 0 /\ et' = et - 1 /\ message_received' = message_received
    BY <1>8 DEF Tick, Idle
  <2>2. ASSUME NEW n \in Node, NEW i \in Nat
        PROVE  Place(n, i)' <=> Place(n, i)
    <3>1. /\ pending[n] = NoAnswer => pending'[n] = NoAnswer
          /\ pending[n] # NoAnswer => pending'[n] # NoAnswer
          /\ Len(air'[n]) = Len(air[n])
      BY <1>8, TickedBy, Constants
    <3> QED
      BY <3>1 DEF Place
  <2>3. ASSUME NEW n \in Node, NEW i \in Nat, Place(n, i)
        PROVE  Wait(n, i)' = Wait(n, i) - 1 /\ Wait(n, i) > 0 /\ Wait(n, i) \in Nat
    <3>1. CASE i = 0
      <4>1. pending[n].left > 0 /\ pending[n].left \in Nat /\ pending'[n].left = pending[n].left - 1
        <5>1. pending[n] \in Answer
          BY <1>3, <2>3, <3>1 DEF Place
        <5>2. pending[n].left \in 0 .. MaxDelay
          BY <5>1 DEF Answer
        <5> QED
          BY <1>8, <2>3, <3>1, <5>2, TickedBy, Constants DEF Place
      <4> QED
        BY <3>1, <4>1, Times, Constants DEF Wait
    <3>2. CASE i # 0
      <4>1. i \in 1 .. Len(air[n])
        BY <2>3, <3>2 DEF Place
      <4>2. air[n][i] \in Frame
        BY <1>3, <4>1, ElementOfSeq
      <4>3. air[n][i].left \in 0 .. MaxFlight
        BY <4>2 DEF Frame
      <4>4. air[n][i].left > 0 /\ air'[n][i].left = air[n][i].left - 1
        BY <1>8, <4>1, TickedBy
      <4> QED
        BY <3>2, <4>3, <4>4, Times, Constants DEF Wait
    <3> QED
      BY <3>1, <3>2
  <2>4. ASSUME NEW n \in Node, NEW i \in Nat, Place(n, i)' PROVE InTime(n, i)'
    <3>1. InTime(n, i) /\ Wait(n, i)' = Wait(n, i) - 1 /\ Wait(n, i) > 0 /\ Wait(n, i) \in Nat
      BY <1>2, <2>2, <2>3, <2>4
    <3>2. Wait(n, i)' \in 0 .. RoundTime
      BY <3>1, Times DEF InTime
    <3>3. ~message_received => Wait(n, i)' + CheckInterval =< RoundTime + et'
      BY <1>4, <2>1, <3>1, Times, Constants DEF InTime
    <3> QED
      BY <1>1, <2>1, <3>1, <3>2, <3>3 DEF InTime
  <2> QED
    BY <1>2, <2>2, <2>4
<1>9. CASE UNCHANGED vars
  BY <1>2, <1>9 DEF Place, InTime, Wait, vars
<1> QED
  BY <1>5, <1>6, <1>7, <1>8, <1>9 DEF Next

\* Two motes never have a second number, although mote 1 starts over on the
\* strength of a flag: a number that is not lost comes round within an interval.
THEOREM OneNumberAtATime == Spec => []OneNumber
<1>1. Init => OneInv
  <2> SUFFICES ASSUME Init, NEW n \in Node, NEW i \in Nat, Place(n, i) PROVE FALSE
    BY DEF OneInv
  <2>1. pending[n] = NoAnswer /\ Len(air[n]) = 0
    BY EmptySeq DEF Init
  <2> QED
    BY <2>1 DEF Place
<1>2. Typed /\ OneInv => OneNumber
  <2> SUFFICES ASSUME Typed, OneInv, TwoMotes, NEW p \in Numbers, NEW q \in Numbers
               PROVE  p = q
    BY DEF OneNumber
  <2>1. ASSUME NEW x \in Numbers
        PROVE  x[1] \in Node /\ x[2] \in Nat /\ x = <<x[1], x[2]>> /\ Place(x[1], x[2])
    <3>1. x \in Node \X (0 .. MaxQueue)
      BY DEF Numbers
    <3>2. x[1] \in Node /\ x[2] \in 0 .. MaxQueue /\ x = <<x[1], x[2]>>
      BY <3>1
    <3>3. DOMAIN air[x[1]] = 1 .. Len(air[x[1]])
      BY <3>2, LenProperties DEF Typed
    <3> QED
      BY <3>2, <3>3, Constants DEF Numbers, Place
  <2>2. p[1] = q[1] /\ p[2] = q[2]
    BY <2>1 DEF OneInv
  <2> QED
    BY <2>1, <2>2
<1>3. TypeOK => Root \in motes
  BY DEF TypeOK
<1> QED
  BY <1>1, <1>2, <1>3, TypedStart, TypedStep, TypeCorrect, FlagAlways, OneStep, PTL DEF Spec
=============================================================================
