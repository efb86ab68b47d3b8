------------------------------ MODULE MqttProofs ------------------------------
(***************************************************************************)
(* MqttExporter for every set of topics, every capacity of the request     *)
(* channel and every backoff: whoever sees a metric on a live session also *)
(* sees the exporter online.                                               *)
(*                                                                         *)
(* That a broker shows "online" depends on the order of requests in a      *)
(* channel that outlives their senders' decisions, and on wills of old     *)
(* sessions.  The invariant says where the announcement of a connection    *)
(* is: first in the channel, or delivered and not undone.                  *)
(***************************************************************************)
EXTENDS MqttExporter, SequenceTheorems, TLAPS

\* The event loop may still deliver requests.
Live == loop \in {"connecting", "connected"}

NotYetConnecting == pc \in {"Start", "Create", "Backoff", "Returned"}

Announced ==
    \/ queue # <<>> /\ queue[1] = "online"
    \/ loop = "connected" /\ status = "online"

LoopInv ==
    /\ NotYetConnecting => loop = "ended"
    /\ pc \in {"Offline", "Disconnect", "Drain"} => cancel
    /\ session = "up" <=> loop = "connected"
    /\ loop \in {"connecting", "ended"} => ~served
    /\ loop = "ended" => queue = <<>>
    /\ pc = "Online" => queue = <<>> /\ ~served

AnnounceInv ==
    /\ loop = "closed" => cancel
    /\ ~cancel => \A k \in 1 .. Len(queue) : queue[k] \in {"online", "metric"}
    /\ ~cancel /\ Live /\ pc # "Online" => Announced
    /\ ~cancel /\ served => status = "online"

IInv == TypeOK /\ LoopInv /\ AnnounceInv

LEMMA EmptyQueue == <<>> \in Seq(Requests) /\ Len(<<>>) = 0 /\ Len(<<>>) <= QueueCap
<1>1. QueueCap \in Nat
    BY MqttAssumption
<1>2. Len(<<>>) = 0 /\ <<>> \in Seq(Requests)
    OBVIOUS
<1> QED BY <1>1, <1>2

LEMMA IInvInit == Init => IInv
<1> SUFFICES ASSUME Init PROVE IInv
    OBVIOUS
<1>1. TypeOK
  <2>1. InitialBackoff \in InitialBackoff .. MaxBackoff
    BY MqttAssumption
  <2>2. queue \in Seq(Requests) /\ Len(queue) <= QueueCap
    BY EmptyQueue DEF Init
  <2> QED BY <2>1, <2>2 DEF Init, TypeOK
<1>2. LoopInv /\ AnnounceInv
    BY EmptyQueue DEF Init, LoopInv, AnnounceInv, Live, NotYetConnecting
<1> QED BY <1>1, <1>2 DEF IInv

-----------------------------------------------------------------------------
(* The exporter task *)

\* What a request that is queued, waits or is lost does to the channel.
LEMMA SendFacts ==
    ASSUME TypeOK, NEW r \in Requests, Send(r)
    PROVE  /\ queue' \in Seq(Requests) /\ Len(queue') <= QueueCap
           /\ queue # <<>> => queue' # <<>> /\ queue'[1] = queue[1]
           /\ \A k \in 1 .. Len(queue') : queue'[k] = r \/ (k \in 1 .. Len(queue) /\ queue'[k] = queue[k])
           /\ loop = "ended" => queue' = queue
<1>1. queue \in Seq(Requests) /\ Len(queue) <= QueueCap /\ QueueCap \in Nat
    BY MqttAssumption DEF TypeOK
<1>2. CASE queue' = queue
    BY <1>1, <1>2
<1>3. CASE loop # "ended" /\ Len(queue) < QueueCap /\ queue' = Append(queue, r)
  <2>1. /\ Append(queue, r) \in Seq(Requests)
        /\ Len(Append(queue, r)) = Len(queue) + 1
        /\ \A k \in 1 .. Len(queue) : Append(queue, r)[k] = queue[k]
        /\ Append(queue, r)[Len(queue) + 1] = r
    BY <1>1
  <2> QED BY <1>1, <1>3, <2>1
<1> QED BY <1>2, <1>3 DEF Send, ReceiverGone

LEMMA ControlKeeps ==
    ASSUME IInv, \/ Setup \/ PublishOnlineFails \/ SelectCancelled \/ SelectLost \/ SelectTick
                 \/ LoopJoined \/ BackoffCancelled \/ BackoffElapsed
    PROVE  IInv'
<1> USE DEF IInv
<1>1. UNCHANGED <<queue, loop, lost, cancel, session, status, served>>
    BY DEF Setup, PublishOnlineFails, SelectCancelled, SelectLost, SelectTick, LoopJoined,
           BackoffCancelled, BackoffElapsed, loopVars, brokerVars
<1>2. TypeOK'
  <2>1. backoff' \in InitialBackoff .. MaxBackoff
    BY MqttAssumption DEF TypeOK, Setup, PublishOnlineFails, SelectCancelled, SelectLost, SelectTick,
           LoopJoined, BackoffCancelled, BackoffElapsed, NextBackoff
  <2>2. pending' \in SUBSET Topics
    BY DEF TypeOK, Setup, PublishOnlineFails, SelectCancelled, SelectLost, SelectTick,
           LoopJoined, BackoffCancelled, BackoffElapsed
  <2>3. pc' \in {"Create", "Select", "Publishing", "Offline", "AwaitLoop", "Backoff", "Returned"}
    BY DEF Setup, PublishOnlineFails, SelectCancelled, SelectLost, SelectTick,
           LoopJoined, BackoffCancelled, BackoffElapsed
  <2> QED BY <1>1, <2>1, <2>2, <2>3 DEF TypeOK
<1>3. LoopInv'
    BY <1>1 DEF LoopInv, NotYetConnecting, Setup, PublishOnlineFails, SelectCancelled, SelectLost,
        SelectTick, LoopJoined, BackoffCancelled, BackoffElapsed, ReceiverGone
<1>4. AnnounceInv'
  <2>1. Live => pc # "Online" /\ pc' # "Online"
    BY DEF LoopInv, NotYetConnecting, Live, Setup, PublishOnlineFails, SelectCancelled, SelectLost,
        SelectTick, LoopJoined, BackoffCancelled, BackoffElapsed, ReceiverGone
  <2> QED BY <1>1, <2>1 DEF AnnounceInv, Announced, Live
<1> QED BY <1>2, <1>3, <1>4

LEMMA CreateClientKeeps ==
    ASSUME IInv, CreateClient
    PROVE  IInv'
<1>1. TypeOK'
    BY EmptyQueue DEF IInv, CreateClient, TypeOK, brokerVars
<1> QED BY <1>1, EmptyQueue DEF IInv, CreateClient, LoopInv, AnnounceInv, Announced, Live, NotYetConnecting, brokerVars

\* The channel is still empty: the announcement is first in it.
LEMMA PublishOnlineKeeps ==
    ASSUME IInv, PublishOnline
    PROVE  IInv'
<1> USE DEF IInv
<1>1. /\ queue = <<>> /\ ~served /\ loop # "ended" /\ pc' = "Select" /\ backoff' = InitialBackoff
      /\ queue' = <<>> \o <<"online">>
      /\ UNCHANGED <<pending, loop, lost, cancel, session, status, served>>
    BY DEF PublishOnline, LoopInv, ReceiverGone, OnlineRequest, brokerVars
<1>2. queue' = <<"online">>
  <2>1. <<"online">> \in Seq(Requests)
    BY DEF Requests
  <2> QED BY <1>1, <2>1, ConcatEmptySeq
<1>3. TypeOK'
    BY <1>1, <1>2, MqttAssumption DEF TypeOK, Requests
<1>4. LoopInv' /\ AnnounceInv'
    BY <1>1, <1>2 DEF LoopInv, AnnounceInv, Announced, Live, NotYetConnecting
<1> QED BY <1>3, <1>4

LEMMA SendKeeps ==
    ASSUME IInv, \/ (\E t \in Topics : PublishMetric(t)) \/ PublishOffline \/ SendDisconnect
    PROVE  IInv'
<1> USE DEF IInv
<1>1. PICK r \in Requests : Send(r) /\ (r = "metric" \/ cancel)
    BY DEF PublishMetric, PublishOffline, SendDisconnect, Farewell, Requests, LoopInv
<1>2. /\ UNCHANGED <<backoff, loop, lost, cancel, session, status, served>>
      /\ pc \in {"Publishing", "Offline", "Disconnect"}
      /\ pc' \in {"Select", "Publishing", "Disconnect", "Drain"}
      /\ pc' \in {"Disconnect", "Drain"} => cancel
      /\ pending' \in SUBSET Topics
    BY DEF PublishMetric, PublishOffline, SendDisconnect, LoopInv, TypeOK, brokerVars
<1>3. TypeOK'
    BY <1>1, <1>2, SendFacts DEF TypeOK
<1>4. LoopInv'
    BY <1>1, <1>2, SendFacts DEF LoopInv, NotYetConnecting
<1>5. AnnounceInv'
  <2>1. ~cancel => \A k \in 1 .. Len(queue') : queue'[k] \in {"online", "metric"}
    BY <1>1, SendFacts DEF AnnounceInv
  <2>2. ~cancel /\ Live => Announced'
    BY <1>1, <1>2, SendFacts DEF AnnounceInv, Announced
  <2> QED BY <1>2, <2>1, <2>2 DEF AnnounceInv, Live
<1> QED BY <1>3, <1>4, <1>5

-----------------------------------------------------------------------------
(* The event-loop task and the broker *)

LEMMA LoopEndKeeps ==
    ASSUME IInv, LoopCancelled \/ LoopFails
    PROVE  IInv'
<1> USE DEF IInv
<1>1. /\ LoopEnds /\ lost' \in BOOLEAN
      /\ UNCHANGED <<pc, backoff, pending, cancel, status>>
    BY DEF LoopCancelled, LoopFails, exporterVars, TypeOK
<1>2. TypeOK'
    BY <1>1, EmptyQueue DEF TypeOK, LoopEnds
<1> QED BY <1>1, <1>2, EmptyQueue DEF LoopInv, AnnounceInv, LoopEnds, Live, NotYetConnecting

\* The new session has delivered nothing; its announcement is still to come.
LEMMA LoopConnectsKeeps ==
    ASSUME IInv, LoopConnects
    PROVE  IInv'
<1> USE DEF IInv
<1>1. TypeOK'
    BY DEF LoopConnects, TypeOK, exporterVars
<1>2. LoopInv'
    BY DEF LoopConnects, LoopInv, NotYetConnecting, exporterVars
<1>3. AnnounceInv'
    BY DEF LoopConnects, AnnounceInv, Announced, Live, exporterVars
<1> QED BY <1>1, <1>2, <1>3

\* A metric is only first in the channel when the announcement was delivered.
LEMMA LoopSendsKeeps ==
    ASSUME IInv, LoopSends
    PROVE  IInv'
<1> USE DEF IInv
<1> DEFINE req == queue[1]
<1>1. /\ loop = "connected" /\ queue # <<>> /\ queue \in Seq(Requests) /\ Len(queue) <= QueueCap
      /\ QueueCap \in Nat
    BY MqttAssumption DEF LoopSends, TypeOK
<1>2. /\ Tail(queue) \in Seq(Requests) /\ Len(Tail(queue)) = Len(queue) - 1 /\ Len(queue) \in Nat \ {0}
      /\ \A k \in 1 .. Len(Tail(queue)) : Tail(queue)[k] = queue[k + 1]
      /\ req \in Requests /\ Head(queue) = req
    BY <1>1
<1>3. /\ status' = IF req \in {"online", "offline"} THEN req ELSE status
      /\ served' = (served \/ req = "metric")
      /\ req = "disconnect" => loop' = "closed" /\ session' = "none"
      /\ req # "disconnect" => UNCHANGED <<loop, session>>
      /\ queue' = Tail(queue)
      /\ UNCHANGED <<pc, backoff, pending, lost, cancel>>
    BY <1>2 DEF LoopSends, exporterVars
<1> HIDE DEF req
<1>4. TypeOK'
    BY <1>1, <1>2, <1>3 DEF TypeOK, Requests
<1>5. pc # "Online" /\ ~NotYetConnecting
    BY <1>1 DEF LoopInv
<1>6. LoopInv'
    BY <1>1, <1>3, <1>5 DEF LoopInv, NotYetConnecting
<1>7. AnnounceInv'
  <2>1. CASE cancel
    BY <2>1, <1>3 DEF AnnounceInv
  <2>2. CASE ~cancel
    <3>1. req \in {"online", "metric"} /\ (req = "online" \/ status = "online")
        BY <2>2, <1>1, <1>2, <1>5 DEF AnnounceInv, Announced, Live, req
    <3>2. status' = "online" /\ loop' = "connected"
        BY <1>1, <1>3, <3>1
    <3>3. \A k \in 1 .. Len(queue') : queue'[k] \in {"online", "metric"}
        BY <2>2, <1>2, <1>3 DEF AnnounceInv
    <3> QED BY <3>2, <3>3 DEF AnnounceInv, Announced
  <2> QED BY <2>1, <2>2
<1> QED BY <1>4, <1>6, <1>7

\* A cancel, or the will of a session that was cut.
LEMMA EnvironmentKeeps ==
    ASSUME IInv, Cancel \/ BrokerSendsWill \/ UNCHANGED vars
    PROVE  IInv'
<1>1. TypeOK'
    BY DEF IInv, TypeOK, Cancel, BrokerSendsWill, vars, exporterVars, loopVars, brokerVars
<1>2. LoopInv' /\ AnnounceInv'
    BY DEF IInv, TypeOK, LoopInv, AnnounceInv, Announced, Live, NotYetConnecting, Cancel,
        BrokerSendsWill, vars, exporterVars, loopVars, brokerVars
<1> QED BY <1>1, <1>2 DEF IInv

LEMMA IInvStep == IInv /\ [Next]_vars => IInv'
BY ControlKeeps, CreateClientKeeps, PublishOnlineKeeps, SendKeeps, LoopEndKeeps, LoopConnectsKeeps,
   LoopSendsKeeps, EnvironmentKeeps DEF Next, Exporter, EventLoop, Returned

LEMMA IInvHolds == Spec => []IInv
BY IInvInit, IInvStep, PTL DEF Spec

\* The backoff stays between its bounds and the channel within its capacity.
THEOREM TypeCorrect == Spec => []TypeOK
<1>1. IInv => TypeOK
    BY DEF IInv
<1> QED BY <1>1, IInvHolds, PTL

\* Until it is cancelled an exporter whose metrics arrive is shown online.
THEOREM OnlineBeforeMetricsHolds == Spec => []OnlineBeforeMetrics
<1>1. IInv => OnlineBeforeMetrics
    BY DEF IInv, AnnounceInv, OnlineBeforeMetrics
<1> QED BY <1>1, IInvHolds, PTL
=============================================================================
