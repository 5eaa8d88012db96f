------------------------------- MODULE PingPong -------------------------------
(***************************************************************************)
(* The ping-pong of Parcial-1: a number goes from mote to mote by          *)
(* broadcast, and each mote that hears it answers with the next one.  Mote *)
(* 1 looks every three seconds whether it has heard anything since it last *)
(* looked and starts over when it has not.  ping-pong.c answers at once,   *)
(* ping-pong_delay.c after a random delay, during which it only keeps the  *)
(* newest number.                                                          *)
(*                                                                         *)
(* Time is a number of ticks: the timers count down to zero, and time      *)
(* cannot pass over a timer that has expired.                              *)
(***************************************************************************)
EXTENDS Integers, Sequences, FiniteSets

CONSTANTS
  Node,           \* the motes there are
  Root,           \* the mote whose address is 1
  NoAnswer,       \* rebroadcast_scheduled is 0
  CheckInterval,  \* CLOCK_SECOND * CHECK_MESSAGE_RECEIVED_INTERVAL/2, 3 s
  MinDelay,       \* CLOCK_SECOND / 5
  MaxDelay,       \* CLOCK_SECOND / 5 + CLOCK_SECOND / 3 - 1
  MaxFlight,      \* a frame leaves the MAC layer within this time
  MaxQueue,       \* frames the MAC layer of a mote holds
  ByteSize        \* 2^8, values of a uint8_t

Byte == 0 .. ByteSize - 1
Frame == [val : Byte, left : 0 .. MaxFlight]
Answer == [val : Byte, left : 0 .. MaxDelay]

ASSUME PingPongAssumption ==
  /\ IsFiniteSet(Node)
  /\ Root \in Node
  /\ NoAnswer \notin Answer
  /\ CheckInterval \in Nat \ {0}
  /\ MinDelay \in Nat
  /\ MaxDelay \in Nat
  /\ MinDelay =< MaxDelay
  /\ MaxFlight \in Nat
  /\ MaxQueue \in Nat \ {0}
  /\ ByteSize \in Nat \ {0}
\* The values of a byte are even and odd in turn, across the wrap too.
ASSUME ByteAssumption == ByteSize > 1 /\ ByteSize % 2 = 0
\* The shortest delay outlasts a frame's wait in the MAC layer.
ASSUME DelayAssumption == MaxFlight < MinDelay
\* A number that is not lost is back at mote 1 before mote 1 misses it.
ASSUME RoundTripAssumption == 2 * (MaxDelay + MaxFlight) < CheckInterval

VARIABLES
  delayed,           \* the program: ping-pong_delay.c or ping-pong.c
  motes,             \* the motes within range of each other
  et,                \* time until the timer of mote 1 expires
  message_received,  \* of mote 1, the only one that reads it
  pending,           \* pending[n]: pending_rebroadcast and the time left, or NoAnswer
  air,               \* air[n]: frames of n that are not out yet, oldest first
  quiet              \* history: time since mote 1 last heard something or started over

vars == <<delayed, motes, et, message_received, pending, air, quiet>>

\* The program and the motes are chosen once.
Init ==
  /\ delayed \in BOOLEAN
  /\ motes \in { M \in SUBSET Node : Root \in M /\ Cardinality(M) > 1 }
  /\ et = CheckInterval
  /\ message_received = FALSE
  /\ pending = [n \in Node |-> NoAnswer]
  /\ air = [n \in Node |-> << >>]
  /\ quiet = 0

-----------------------------------------------------------------------------
\* The queue of a mote after broadcast_send; a full one loses the frame.
Sent(queue, v) ==
  IF Len(queue) < MaxQueue THEN Append(queue, [val |-> v, left |-> MaxFlight]) ELSE queue

\* Slip: the count goes on past the byte.
SuccessorWide(v) == v + 1

\* Slip: the count starts over with 1, as mote 1 does.
SuccessorFromOne(v) == IF v + 1 = ByteSize THEN 1 ELSE v + 1

\* new_message_received, a uint8_t.
Successor(v) == (v + 1) % ByteSize

\* Slip: the fixed part of the delay is forgotten.
DelaysFromZero == 0 .. MaxDelay

\* The delay of an answer.
Delays == MinDelay .. MaxDelay

\* broadcast_recv with a delay: an answer that waits only takes the new number.
Answered(old, v, d) ==
  IF old = NoAnswer THEN [val |-> v, left |-> d] ELSE [old EXCEPT !.val = v]

\* The oldest frame of s goes out and is received by the motes in heard.
broadcast_recv(s, heard) ==
  /\ air[s] # << >>
  /\ LET v == Successor(Head(air[s]).val)
     IN  \/ /\ delayed
            /\ \E d \in [heard -> Delays] :
                 pending' = [n \in Node |-> IF n \in heard THEN Answered(pending[n], v, d[n])
                                                           ELSE pending[n]]
            /\ air' = [air EXCEPT ![s] = Tail(@)]
         \/ /\ ~delayed
            /\ air' = [n \in Node |-> IF n = s THEN Tail(air[n])
                                      ELSE IF n \in heard THEN Sent(air[n], v) ELSE air[n]]
            /\ UNCHANGED pending
  /\ message_received' = (message_received \/ Root \in heard)
  /\ quiet' = IF Root \in heard THEN 0 ELSE quiet
  /\ UNCHANGED <<delayed, motes, et>>

\* The delay of n is over.
do_rebroadcast(n) ==
  /\ pending[n] # NoAnswer
  /\ pending[n].left = 0
  /\ air' = [air EXCEPT ![n] = Sent(@, pending[n].val)]
  /\ pending' = [pending EXCEPT ![n] = NoAnswer]
  /\ UNCHANGED <<delayed, motes, et, message_received, quiet>>

\* Slip: mote 1 starts over whenever it looks.
MissedAlways == TRUE

\* Slip: the branches are swapped.
MissedSwapped == message_received

\* Mote 1 has heard nothing since it last looked.
Missed == ~message_received

\* The loop of mote 1: the number it starts over with is always 1.
check_message_received ==
  /\ et = 0
  /\ et' = CheckInterval
  /\ \/ /\ Missed
        /\ air' = [air EXCEPT ![Root] = Sent(@, 1)]
        /\ quiet' = 0
        /\ UNCHANGED message_received
     \/ /\ ~Missed
        /\ message_received' = FALSE
        /\ UNCHANGED <<air, quiet>>
  /\ UNCHANGED <<delayed, motes, pending>>

\* Nothing is due.
Idle ==
  /\ et > 0
  /\ \A n \in Node :
       /\ pending[n] # NoAnswer => pending[n].left > 0
       /\ \A i \in DOMAIN air[n] : air[n][i].left > 0

\* Time passes; quiet need not count further than past the bound it is held to.
Tick ==
  /\ Idle
  /\ et' = et - 1
  /\ pending' = [n \in Node |-> IF pending[n] = NoAnswer THEN NoAnswer
                                ELSE [pending[n] EXCEPT !.left = @ - 1]]
  /\ air' = [n \in Node |-> [i \in DOMAIN air[n] |-> [air[n][i] EXCEPT !.left = @ - 1]]]
  /\ quiet' = IF quiet > 2 * CheckInterval THEN quiet ELSE quiet + 1
  /\ UNCHANGED <<delayed, motes, message_received>>

Next ==
  \/ \E s \in motes : \E heard \in SUBSET (motes \ {s}) : broadcast_recv(s, heard)
  \/ \E n \in motes : do_rebroadcast(n)
  \/ check_message_received
  \/ Tick

Spec == Init /\ [][Next]_vars

\* The timers run, and no mote's frames are lost for ever.
Fairness ==
  /\ WF_vars(Tick)
  /\ WF_vars(check_message_received)
  /\ \A n \in Node : WF_vars(n \in motes /\ do_rebroadcast(n))
  /\ \A s \in Node : SF_vars(s \in motes /\ broadcast_recv(s, motes \ {s}))

FairSpec == Spec /\ Fairness

-----------------------------------------------------------------------------
TypeOK ==
  /\ delayed \in BOOLEAN
  /\ motes \in SUBSET Node
  /\ Root \in motes
  /\ et \in 0 .. CheckInterval
  /\ message_received \in BOOLEAN
  /\ pending \in [Node -> Answer \cup {NoAnswer}]
  /\ air \in [Node -> Seq(Frame)]
  /\ \A n \in Node : Len(air[n]) =< MaxQueue
  /\ quiet \in 0 .. 2 * CheckInterval + 1

TwoMotes == \A n, m \in motes \ {Root} : n = m

\* The numbers on their way: place 0 of a mote is its answer that waits, the
\* others are the frames in its MAC layer.
Numbers == { p \in Node \X (0 .. MaxQueue) :
               IF p[2] = 0 THEN pending[p[1]] # NoAnswer ELSE p[2] \in DOMAIN air[p[1]] }

\* Two motes play with one number: mote 1 never starts a second while the
\* first is under way, though it judges by a flag that the callback raises and
\* its timer lowers.
OneNumber == TwoMotes => \A p, q \in Numbers : p = q

\* Between two motes the number tells whose it is: those of mote 1 are odd and
\* those of the other even, also after the byte wraps and after mote 1 starts
\* over.
NumberTellsSender ==
  TwoMotes => \A n \in motes :
    /\ pending[n] # NoAnswer => (pending[n].val % 2 = 1 <=> n = Root)
    /\ \A i \in DOMAIN air[n] : air[n][i].val % 2 = 1 <=> n = Root

\* With the delay no number of motes floods the channel: each has at most one
\* frame in its MAC layer.
NoStorm == delayed => \A n \in Node : Len(air[n]) =< 1

\* Silence at mote 1 lasts at most two checks, the 6 s of
\* CHECK_MESSAGE_RECEIVED_INTERVAL; then it starts over.
SilenceEnds == quiet =< 2 * CheckInterval

\* Mote 1 starts over only when it has heard nothing for a whole interval.
StartsOverLate ==
  [][et = 0 /\ et' # 0 /\ Len(air'[Root]) > Len(air[Root]) => quiet >= CheckInterval]_vars

\* The game never stops: mote 1 hears from the others again and again,
\* whatever was lost.
GameGoesOn == []<>message_received
===============================================================================
