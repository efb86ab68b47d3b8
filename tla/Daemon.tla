------------------------------- MODULE Daemon -------------------------------
(***************************************************************************)
(* The daemon (src/commands/run.rs, CollectorEngine in src/collector.rs):  *)
(* the main task, the collector tasks as far as the shutdown can tell them *)
(* apart, and the exporters, of which OtlpExporter is here in full.  The   *)
(* main task is at one of these points:                                    *)
(*                                                                         *)
(*   Serving     in shutdown_signal()                                      *)
(*   Cancelled   the exporters' token is cancelled                         *)
(*   Joining     the collectors are told to stop; waiting, with a timeout  *)
(*   Awaiting    waiting for the exporters, without one                    *)
(*   Returned    main() has returned: #[tokio::main] drops the runtime     *)
(*   Exited      the process has exited                                    *)
(*                                                                         *)
(* A collector is "asleep" where it listens for the stop (a sleep, the top *)
(* of the loop) and "busy" where it does not (connect, a write, a read, a  *)
(* publish): see Collector.  A bus operation may take any time.  On I2C,   *)
(* SPI and I3C it is a job of spawn_blocking, over Modbus TCP the lookup   *)
(* of the host is one: such a job outlives the task that awaits it, and    *)
(* the drop of the runtime waits for it without a timeout.                 *)
(***************************************************************************)
EXTENDS OtlpExporter

CONSTANTS
    Others,    \* the other exporters that are enabled: "prometheus", "mqtt"
    Blocking   \* the collectors whose bus operations run as blocking jobs

ASSUME DaemonAssumption ==
    /\ Others \subseteq {"prometheus", "mqtt"}
    /\ Blocking \subseteq Collectors

VARIABLES
    main,      \* where the main task is
    life,      \* collector -> "asleep", "busy", "returned", "skipped" or
               \*    "dropped", with the runtime
    stop,      \* the collectors' watch channel
    graceful,  \* history: all collectors returned before the timeout
    others     \* the tasks of the other exporters: "up" or "returned"

mainVars == <<main, stop, graceful>>
daemonVars == <<mainVars, life, others>>
allVars == <<vars, daemonVars>>

Lives == {"asleep", "busy", "returned", "skipped", "dropped"}

\* The runtime runs the tasks.
Running == main \notin {"Returned", "Exited"}

\* create and create_writer open the device, if it is not a Modbus one; that
\* works or it does not.
ReaderCreated == BOOLEAN
WriterCreated == BOOLEAN

\* spawn leaves out a collector whose reader or writer cannot be created.
DaemonInit ==
    /\ Init
    /\ main = "Serving"
    /\ \E r \in [Collectors -> ReaderCreated], w \in [Collectors -> WriterCreated] :
          life = [c \in Collectors |-> IF r[c] /\ w[c] THEN "asleep" ELSE "skipped"]
    /\ stop = FALSE
    /\ graceful = FALSE
    /\ others = [t \in Others |-> "up"]

-----------------------------------------------------------------------------
(* Collector tasks *)

\* A sleep is over: the next bus operation or poll cycle begins.
BeginIo(c) ==
    /\ life[c] = "asleep"
    /\ ~stop
    /\ life' = [life EXCEPT ![c] = "busy"]
    /\ UNCHANGED <<vars, mainVars, others>>

\* A poll cycle is completed and published, whatever main is waiting for.
FinishCycle(c) ==
    /\ life[c] = "busy"
    /\ life' = [life EXCEPT ![c] = "asleep"]
    /\ \E ok \in SUBSET Names \ {{}} : Publish(c, ok)
    /\ UNCHANGED <<otlpVars, mainVars, others>>

\* A connect or write failed, or a lost connection: nothing is published.
AbortCycle(c) ==
    /\ life[c] = "busy"
    /\ life' = [life EXCEPT ![c] = "asleep"]
    /\ UNCHANGED <<vars, mainVars, others>>

CollectorReturns(c) ==
    /\ life[c] = "asleep"
    /\ stop
    /\ life' = [life EXCEPT ![c] = "returned"]
    /\ UNCHANGED <<vars, mainVars, others>>

CollectorStep(c) == BeginIo(c) \/ FinishCycle(c) \/ AbortCycle(c) \/ CollectorReturns(c)

-----------------------------------------------------------------------------
(* The main task *)

\* SIGINT or SIGTERM: the exporters are cancelled first.
ReceiveSignal ==
    /\ main = "Serving"
    /\ main' = "Cancelled"
    /\ Cancel
    /\ UNCHANGED <<stop, graceful, life, others>>

StopCollectors ==
    /\ main = "Cancelled"
    /\ main' = "Joining"
    /\ stop' = TRUE
    /\ UNCHANGED <<vars, graceful, life, others>>

\* join_all(handles)
CollectorsJoined ==
    /\ main = "Joining"
    /\ \A c \in Collectors : life[c] \in {"returned", "skipped"}
    /\ main' = "Awaiting"
    /\ graceful' = TRUE
    /\ UNCHANGED <<vars, stop, life, others>>

\* Mutant of TimesOut: the handles are awaited for as long as it takes.
TimesOutNever == FALSE

TimesOut == main = "Joining"

\* DEFAULT_SHUTDOWN_TIMEOUT: the collectors that are left are not aborted.
JoinTimesOut ==
    /\ TimesOut
    /\ main' = "Awaiting"
    /\ UNCHANGED <<vars, stop, graceful, life, others>>

\* Mutant of ExportersDone: main does not wait for the OTLP exporter.
ExportersDoneButOtlp == \A t \in Others : others[t] = "returned"

ExportersDone == pc = "Returned" /\ \A t \in Others : others[t] = "returned"

\* What the drop of the runtime does to a collector: its task is dropped at the
\* await it has come to, a blocking job that is under way runs on.
Remains(c) ==
    IF life[c] \in {"returned", "skipped"} THEN {life[c]}
    ELSE IF life[c] = "busy" /\ c \in Blocking THEN {"busy", "dropped"}
    ELSE {"dropped"}

\* run_command and with it main() returns.
Return ==
    /\ main = "Awaiting"
    /\ ExportersDone
    /\ main' = "Returned"
    /\ life' \in {l \in [Collectors -> Lives] : \A c \in Collectors : l[c] \in Remains(c)}
    /\ UNCHANGED <<vars, stop, graceful, others>>

\* The job of a collector whose task is gone.
JobEnds(c) ==
    /\ main = "Returned"
    /\ life[c] = "busy"
    /\ life' = [life EXCEPT ![c] = "dropped"]
    /\ UNCHANGED <<vars, mainVars, others>>

JobsUnderWay == {c \in Collectors : life[c] = "busy"}

Exit ==
    /\ main = "Returned"
    /\ JobsUnderWay = {}
    /\ main' = "Exited"
    /\ UNCHANGED <<vars, stop, graceful, life, others>>

Main ==
    \/ ReceiveSignal \/ StopCollectors \/ CollectorsJoined \/ JoinTimesOut
    \/ Return \/ Exit

-----------------------------------------------------------------------------
(* The exporter tasks; serve() may fail at start *)

OtherReturns(t) ==
    /\ others[t] = "up"
    /\ others' = [others EXCEPT ![t] = "returned"]
    /\ UNCHANGED <<vars, mainVars, life>>

OtlpTask == Loop /\ UNCHANGED daemonVars

\* The reader of the SDK has a thread of its own, which needs no runtime.
OtlpThread == Sdk /\ UNCHANGED daemonVars

DaemonNext ==
    \/ Main
    \/ /\ Running
       /\ \/ \E c \in Collectors : CollectorStep(c)
          \/ \E t \in Others : OtherReturns(t)
          \/ OtlpTask
    \/ main # "Exited" /\ OtlpThread
    \/ \E c \in Collectors : JobEnds(c)

DaemonSpec == DaemonInit /\ [][DaemonNext]_allVars

\* Main is scheduled once the signal is there.  So is the OTLP exporter, and the
\* random choice of its select! does not pass over a branch that is ready each
\* time for ever.  Other exporters return when they are cancelled
\* (PrometheusExporter, CancelReturns; MqttExporter, ShutdownEndsOffline).
\* Collectors and their jobs get no fairness at all: a bus operation may never
\* end.
DaemonFairSpec ==
    /\ DaemonSpec
    /\ WF_allVars(main # "Serving" /\ Main)
    /\ WF_allVars(Running /\ Loop /\ UNCHANGED daemonVars)
    /\ SF_allVars(Running /\ SeeCancel /\ UNCHANGED daemonVars)
    /\ \A t \in Others : WF_allVars(Running /\ cancel /\ OtherReturns(t))

-----------------------------------------------------------------------------
(* Properties *)

\* The main task, the collectors and the exporters are where they can be.
DaemonTypeOK ==
    /\ TypeOK
    /\ main \in {"Serving", "Cancelled", "Joining", "Awaiting", "Returned", "Exited"}
    /\ life \in [Collectors -> Lives]
    /\ stop \in BOOLEAN /\ graceful \in BOOLEAN
    /\ others \in [Others -> {"up", "returned"}]

\* Once the signal is received main() returns, even when a collector hangs in a
\* bus operation for ever, and the process exits: unless the operation that
\* hangs is a blocking job, which is all that can keep it.
ShutdownCompletes ==
    main = "Cancelled" ~>
        \/ main = "Exited"
        \/ [](main = "Returned" /\ JobsUnderWay # {} /\ JobsUnderWay \subseteq Blocking)

\* main() does not return under an exporter that is still flushing: if the
\* OTLP exporter ever started its loop, it has made its final update, from a
\* store no older than at the signal.
ExitAfterFinalUpdate ==
    ~Running /\ (final \/ sdk # "stopped") => final /\ NotOlder(atCancel, shared)

\* After a graceful shutdown whose final batch got through, the receiver has the
\* last values the collectors published.
LastValuesExported ==
    main = "Exited" /\ graceful /\ flushed => NotOlder(Everything, exported)
=============================================================================
