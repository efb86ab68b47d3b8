---------------------------- MODULE MqttExporter ----------------------------
(***************************************************************************)
(* run_mqtt_exporter (src/exporter/mqtt/mod.rs): the exporter task, the    *)
(* event-loop task it spawns per connection, the bounded request channel   *)
(* between them, and as much of the broker as the retained status topic    *)
(* needs.  The exporter is at one of these points:                         *)
(*                                                                         *)
(*   Start       about to look at the configuration                        *)
(*   Create      about to build a client and spawn its event loop          *)
(*   Online      in client.publish(status, "online")                       *)
(*   Select      in the main select!                                       *)
(*   Publishing  in the loop over the metrics of one store snapshot        *)
(*   Offline, Disconnect, Drain    the three awaits after a cancel         *)
(*   AwaitLoop   in loop_handle.await after a failure                      *)
(*   Backoff     in the select! between cancel and the backoff sleep       *)
(*   Returned    run_mqtt_exporter has returned                            *)
(*                                                                         *)
(* rumqttc and the broker are external: client.publish waits for room in   *)
(* the channel and fails once the event loop is gone; eventloop.poll       *)
(* connects, then sends the requests in order; a broker publishes the last *)
(* will of a session that ends without DISCONNECT, also when the same      *)
(* client id connects again.  Topics, payloads, QoS and TLS are left out.  *)
(***************************************************************************)
EXTENDS Integers, Sequences

CONSTANTS
    Topics,          \* metrics of one snapshot, one topic each
    QueueCap,        \* capacity of the request channel (64 in the code)
    InitialBackoff,  \* 1 s
    MaxBackoff       \* 60 s

ASSUME MqttAssumption ==
    /\ QueueCap \in Nat \ {0}
    /\ InitialBackoff \in Nat \ {0}
    /\ MaxBackoff \in Nat
    /\ InitialBackoff <= MaxBackoff

VARIABLES
    pc,        \* where the exporter task is
    backoff,   \* in seconds
    pending,   \* topics still to be published from the current snapshot
    queue,     \* the request channel of the current client
    loop,      \* the event-loop task: "connecting", "connected", "closed", "ended"
    lost,      \* the watch channel connected_rx has been sent false
    cancel,    \* the exporters' CancellationToken
    session,   \* the broker's view: "none", "up", or "cut" (client gone, not noticed)
    status,    \* retained status topic: "none", "online", "offline"
    served     \* history: a metric was delivered on the current session

exporterVars == <<pc, backoff, pending>>
loopVars == <<queue, loop, lost>>
brokerVars == <<session, status, served>>
vars == <<exporterVars, loopVars, cancel, brokerVars>>

Requests == {"online", "offline", "disconnect", "metric"}

Init ==
    /\ pc = "Start"
    /\ backoff = InitialBackoff
    /\ pending = {}
    /\ queue = <<>>
    /\ loop = "ended"
    /\ lost = FALSE
    /\ cancel = FALSE
    /\ session = "none"
    /\ status = "none"
    /\ served = FALSE

-----------------------------------------------------------------------------
(* The request channel *)

\* Mutant of ReceiverGone: the event loop outlives its task.
ReceiverNeverGone == FALSE

\* The event loop, which owns the receiver, was dropped with its task.
ReceiverGone == loop = "ended"

\* client.publish / client.disconnect, when the result is ignored or only
\* logged: lost without a receiver, queued when there is room, else waiting.
Send(req) ==
    \/ ReceiverGone /\ UNCHANGED queue
    \/ ~ReceiverGone /\ Len(queue) < QueueCap /\ queue' = Append(queue, req)

-----------------------------------------------------------------------------
(* The exporter task *)

\* Without an endpoint or with unusable TLS files the exporter returns at once;
\* the daemon goes on without it.
Setup ==
    /\ pc = "Start"
    /\ pc' \in {"Create", "Returned"}
    /\ UNCHANGED <<backoff, pending, loopVars, cancel, brokerVars>>

\* AsyncClient::new, watch::channel(true), tokio::spawn.
CreateClient ==
    /\ pc = "Create"
    /\ pc' = "Online"
    /\ queue' = <<>>
    /\ loop' = "connecting"
    /\ lost' = FALSE
    /\ UNCHANGED <<backoff, pending, cancel, brokerVars>>

\* Mutant of OnlineRequest: a reconnect does not announce the exporter again.
OnlineOnlyOnce == IF status = "none" THEN <<"online">> ELSE <<>>

OnlineRequest == <<"online">>

\* "online" was queued.  The broker need not have accepted the connection yet.
PublishOnline ==
    /\ pc = "Online"
    /\ ~ReceiverGone
    /\ queue' = queue \o OnlineRequest
    /\ backoff' = InitialBackoff
    /\ pc' = "Select"
    /\ UNCHANGED <<pending, loop, lost, cancel, brokerVars>>

\* The event loop failed before "online" could be queued.
PublishOnlineFails ==
    /\ pc = "Online"
    /\ ReceiverGone
    /\ pc' = "AwaitLoop"
    /\ UNCHANGED <<backoff, pending, loopVars, cancel, brokerVars>>

SelectCancelled ==
    /\ pc = "Select"
    /\ cancel
    /\ pc' = "Offline"
    /\ UNCHANGED <<backoff, pending, loopVars, cancel, brokerVars>>

SelectLost ==
    /\ pc = "Select"
    /\ lost
    /\ pc' = "AwaitLoop"
    /\ UNCHANGED <<backoff, pending, loopVars, cancel, brokerVars>>

\* The interval elapsed: one snapshot of the store is published.  A branch that
\* is ready when the select! starts goes before the new sleep.
SelectTick ==
    /\ pc = "Select"
    /\ ~cancel /\ ~lost
    /\ pending' \in {Topics, {}}
    /\ pc' = IF pending' = {} THEN "Select" ELSE "Publishing"
    /\ UNCHANGED <<backoff, loopVars, cancel, brokerVars>>

PublishMetric(t) ==
    /\ pc = "Publishing"
    /\ t \in pending
    /\ Send("metric")
    /\ pending' = pending \ {t}
    /\ pc' = IF pending' = {} THEN "Select" ELSE "Publishing"
    /\ UNCHANGED <<backoff, loop, lost, cancel, brokerVars>>

\* Mutant of Farewell: only the disconnect is sent.
FarewellSilent == UNCHANGED queue

Farewell == Send("offline")

PublishOffline ==
    /\ pc = "Offline"
    /\ Farewell
    /\ pc' = "Disconnect"
    /\ UNCHANGED <<backoff, pending, loop, lost, cancel, brokerVars>>

SendDisconnect ==
    /\ pc = "Disconnect"
    /\ Send("disconnect")
    /\ pc' = "Drain"
    /\ UNCHANGED <<backoff, pending, loop, lost, cancel, brokerVars>>

\* loop_handle.await returns once the event-loop task has ended.
LoopJoined ==
    /\ ReceiverGone
    /\ \/ pc = "Drain" /\ pc' = "Returned"
       \/ pc = "AwaitLoop" /\ pc' = IF cancel THEN "Returned" ELSE "Backoff"
    /\ UNCHANGED <<backoff, pending, loopVars, cancel, brokerVars>>

BackoffCancelled ==
    /\ pc = "Backoff"
    /\ cancel
    /\ pc' = "Returned"
    /\ UNCHANGED <<backoff, pending, loopVars, cancel, brokerVars>>

\* Mutant of NextBackoff: the cap is forgotten.
NextBackoffUncapped == backoff * 2

NextBackoff == IF backoff * 2 < MaxBackoff THEN backoff * 2 ELSE MaxBackoff

BackoffElapsed ==
    /\ pc = "Backoff"
    /\ ~cancel
    /\ backoff' = NextBackoff
    /\ pc' = "Create"
    /\ UNCHANGED <<pending, loopVars, cancel, brokerVars>>

-----------------------------------------------------------------------------
(* The event-loop task *)

\* The event loop is dropped: its queue is gone and its socket closes.
LoopEnds ==
    /\ loop' = "ended"
    /\ queue' = <<>>
    /\ session' = IF loop = "connected" THEN "cut" ELSE session
    /\ served' = FALSE

LoopCancelled ==
    /\ loop # "ended"
    /\ cancel
    /\ LoopEnds
    /\ UNCHANGED <<exporterVars, lost, cancel, status>>

\* eventloop.poll() failed: connection refused, reset, timed out or closed.
LoopFails ==
    /\ loop # "ended"
    /\ LoopEnds
    /\ lost' = TRUE
    /\ UNCHANGED <<exporterVars, cancel, status>>

\* The broker accepts; an unnoticed old session is taken over, will included.
LoopConnects ==
    /\ loop = "connecting"
    /\ loop' = "connected"
    /\ session' = "up"
    /\ status' = IF session = "cut" THEN "offline" ELSE status
    /\ served' = FALSE
    /\ UNCHANGED <<exporterVars, queue, lost, cancel>>

\* Requests leave in order; a DISCONNECT ends the session without a will.
LoopSends ==
    /\ loop = "connected"
    /\ queue # <<>>
    /\ LET req == Head(queue) IN
          /\ status' = IF req \in {"online", "offline"} THEN req ELSE status
          /\ served' = (served \/ req = "metric")
          /\ IF req = "disconnect"
             THEN loop' = "closed" /\ session' = "none"
             ELSE UNCHANGED <<loop, session>>
    /\ queue' = Tail(queue)
    /\ UNCHANGED <<exporterVars, lost, cancel>>

-----------------------------------------------------------------------------
(* Environment *)

\* run_command cancels the exporters.
Cancel ==
    /\ ~cancel
    /\ cancel' = TRUE
    /\ UNCHANGED <<exporterVars, loopVars, brokerVars>>

\* The broker notices that the socket is closed and publishes the last will.
BrokerSendsWill ==
    /\ session = "cut"
    /\ session' = "none"
    /\ status' = "offline"
    /\ UNCHANGED <<exporterVars, loopVars, cancel, served>>

Returned == pc = "Returned" /\ UNCHANGED vars

Exporter ==
    \/ Setup
    \/ CreateClient
    \/ PublishOnline \/ PublishOnlineFails
    \/ SelectCancelled \/ SelectLost \/ SelectTick
    \/ (\E t \in Topics : PublishMetric(t))
    \/ PublishOffline \/ SendDisconnect
    \/ LoopJoined
    \/ BackoffCancelled \/ BackoffElapsed

EventLoop == LoopCancelled \/ LoopFails \/ LoopConnects \/ LoopSends

Next == Exporter \/ EventLoop \/ Cancel \/ BrokerSendsWill \/ Returned

Spec == Init /\ [][Next]_vars

\* Both tasks are scheduled and a broker notices a closed socket.  When the
\* cancelled branch of a select! stays ready the random choice takes it in the
\* end, hence the conditions on the two ...Cancelled actions of their own.
FairSpec ==
    /\ Spec
    /\ WF_vars(Exporter)
    /\ WF_vars(SelectCancelled)
    /\ WF_vars(EventLoop)
    /\ WF_vars(LoopCancelled)
    /\ WF_vars(BrokerSendsWill)

-----------------------------------------------------------------------------
(* Properties *)

\* The backoff stays between its bounds and the channel within its capacity.
TypeOK ==
    /\ pc \in {"Start", "Create", "Online", "Select", "Publishing", "Offline", "Disconnect",
               "Drain", "AwaitLoop", "Backoff", "Returned"}
    /\ backoff \in InitialBackoff .. MaxBackoff
    /\ pending \in SUBSET Topics
    /\ queue \in Seq(Requests) /\ Len(queue) <= QueueCap
    /\ loop \in {"connecting", "connected", "closed", "ended"}
    /\ lost \in BOOLEAN /\ cancel \in BOOLEAN
    /\ session \in {"none", "up", "cut"}
    /\ status \in {"none", "online", "offline"}
    /\ served \in BOOLEAN

\* Whoever sees a metric on a live session also sees the exporter "online":
\* the announcement goes first on every new connection, and the will of an old
\* session never overtakes it.  Only the farewell of a cancelled exporter ends it.
OnlineBeforeMetrics ==
    served /\ session = "up" => status = "online" \/ cancel

\* A cancelled exporter always returns, and the status topic does not keep
\* saying "online": either the farewell got through or the will did.
ShutdownEndsOffline == cancel ~> pc = "Returned" /\ status # "online"

\* Publishing a snapshot never waits for ever on a full channel: the event loop
\* drains it or goes away, and its receiver with it.
PublishUnblocks == pc = "Publishing" ~> pc = "Select"

=============================================================================
