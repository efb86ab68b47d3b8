------------------------------ MODULE Commands ------------------------------
(***************************************************************************)
(* The commands that read devices (src/commands, main.rs): run, the daemon,*)
(* reads a validated configuration and lets every collector initialise,    *)
(* write and read on its own; pull and watch read one nobody has validated *)
(* and go through the collectors one by one, once or until Ctrl-C; and     *)
(* show-config only prints what pull would use.  The process is            *)
(*                                                                         *)
(*   loading     about to load and filter the configuration                *)
(*   polling     run: collectors poll until the process is stopped         *)
(*   creating, connecting, reading                                         *)
(*               pull, watch: at the collector "current" of collect_once   *)
(*   resting     watch: in the select! between Ctrl-C and the interval     *)
(*   exited                                                                *)
(*                                                                         *)
(* A collector of the daemon is in outline here (Collector has it): down,  *)
(* or up once its init_writes went through; it polls when it is up.  The   *)
(* exporters and the shutdown are in Daemon.                               *)
(***************************************************************************)
EXTENDS DeviceBus

CONSTANTS
    Configs,        \* configuration files: [parsed, exporters, collectors]
    Filters,        \* --collector and --metric: [valid, collectors, metrics]
    MaxCycles,      \* bound of the model: poll cycles of a collector
    MaxIterations   \* bound of the model: iterations of watch

ASSUME CommandsAssumption ==
    /\ MaxCycles \in Nat /\ MaxIterations \in Nat \ {0}
    /\ \A file \in Configs : ConfigTyped(file)

VARIABLES
    mode,         \* "run", "pull", "watch" or "show-config"
    config,       \* the file
    filter,       \* the filters of the command line
    phase,        \* where the process is
    exit,         \* its exit code
    session,      \* run: position -> "down" or "up"
    cycles,       \* run: position -> poll cycles begun
    current,      \* pull, watch: position of the collector collect_once is at
    iteration,
    successful,   \* total_successful
    failed,       \* total_failed
    ctrlC,        \* watch: the token is cancelled
    obtained      \* history: values that devices have delivered

pollVars == <<session, cycles>>
tallyVars == <<current, iteration, successful, failed>>
argVars == <<mode, config, filter>>
vars == <<busVars, collectors, argVars, phase, exit, pollVars, tallyVars, ctrlC, obtained>>

Modes == {"run", "pull", "watch", "show-config"}
Running == -1      \* no exit code yet
Panic == 101

Init ==
    /\ mode \in Modes
    /\ config \in Configs
    /\ filter \in Filters
    /\ BusInit
    /\ phase = "loading"
    /\ exit = Running
    /\ session = <<>> /\ cycles = <<>>
    /\ current = 1 /\ iteration = 0
    /\ successful = 0 /\ failed = 0
    /\ ctrlC = FALSE
    /\ obtained = 0

-----------------------------------------------------------------------------
(* Start *)

\* Collectors whose name matches, with the metrics whose name matches, if any.
FilterCollectors(cs) ==
    LET Named(items, names) == Retained(items, {x \in ToSet(items) : x.name \in names})
        named == Named(cs, filter.collectors)
        narrowed == [k \in DOMAIN named |-> [named[k] EXCEPT !.metrics = Named(@, filter.metrics)]]
    IN  Retained(narrowed, {c \in ToSet(narrowed) : c.metrics # <<>>})

\* What the command goes to work with; run has no filters.
Selected == IF mode = "run" THEN Resolved(config) ELSE FilterCollectors(Resolved(config))

\* load for run, load_for_pull for the others, which does not validate.
Accepted ==
    /\ Loadable(config)
    /\ mode = "run" => Validate(config.exporters, Resolved(config))
    /\ mode # "run" => filter.valid

ExitWith(code) == phase' = "exited" /\ exit' = code

StartFails ==
    /\ phase = "loading"
    /\ \/ ~Accepted
       \/ Accepted /\ mode \in {"pull", "watch"} /\ Selected = <<>>
    /\ ExitWith(1)
    /\ UNCHANGED <<busVars, collectors, argVars, pollVars, tallyVars, ctrlC, obtained>>

\* An empty selection is worth a warning.
ShowConfig ==
    /\ phase = "loading"
    /\ mode = "show-config" /\ Accepted
    /\ ExitWith(0)
    /\ UNCHANGED <<busVars, collectors, argVars, pollVars, tallyVars, ctrlC, obtained>>

Start ==
    /\ phase = "loading"
    /\ mode # "show-config" /\ Accepted
    /\ Selected # <<>>
    /\ Provide(Selected)
    /\ phase' = IF mode = "run" THEN "polling" ELSE "creating"
    /\ iteration' = IF mode = "run" THEN 0 ELSE 1
    /\ session' = [c \in DOMAIN Selected |-> "down"]
    /\ cycles' = [c \in DOMAIN Selected |-> 0]
    /\ UNCHANGED <<argVars, exit, current, successful, failed, ctrlC, obtained>>

-----------------------------------------------------------------------------
(* run *)

\* A call is over and the collector acts on it.
At(c, kind, at) == phase = "polling" /\ call[c].kind = kind /\ call[c].at = at

\* Connecting; without a writer there are no steps.
Initialise(c) ==
    /\ At(c, "none", "done")
    /\ session[c] = "down"
    /\ BeginCall(c, "init_writes")
    /\ UNCHANGED pollVars

InitialisedEnds(c) ==
    /\ \/ At(c, "init_writes", "done") /\ session' = [session EXCEPT ![c] = "up"]
       \/ At(c, "init_writes", "failed") /\ UNCHANGED session
    /\ EndCall(c)
    /\ UNCHANGED cycles

BeginCycle(c) ==
    /\ At(c, "none", "done")
    /\ session[c] = "up"
    /\ cycles[c] < MaxCycles
    /\ cycles' = [cycles EXCEPT ![c] = @ + 1]
    /\ BeginCall(c, "pre_poll")
    /\ UNCHANGED session

BeginRead(c) ==
    /\ At(c, "pre_poll", "done")
    /\ BeginCall(c, "read")
    /\ UNCHANGED pollVars

\* The cycle is skipped; after too many of them the collector reconnects.
SkipCycle(c) ==
    /\ At(c, "pre_poll", "failed")
    /\ EndCall(c)
    /\ session' \in {session, [session EXCEPT ![c] = "down"]}
    /\ UNCHANGED cycles

\* What was read is published.
EndCycle(c) ==
    /\ At(c, "read", "done")
    /\ EndCall(c)
    /\ UNCHANGED pollVars

\* The values a step of a read has put into the results.
Obtained(c) ==
    LET new == {name \in DOMAIN results'[c] : results'[c][name] # Failed}
        old == {name \in DOMAIN results[c] : results[c][name] # Failed}
    IN  IF Reading(c) THEN Cardinality(new) - Cardinality(old) ELSE 0

\* The collectors' tokens are not cancelled while they read.
Poll(c) ==
    /\ phase = "polling"
    /\ \/ /\ Initialise(c) \/ InitialisedEnds(c) \/ BeginCycle(c) \/ BeginRead(c)
             \/ SkipCycle(c) \/ EndCycle(c)
          /\ UNCHANGED <<collectors, obtained>>
       \/ /\ CallStep(c, FALSE)
          /\ UNCHANGED <<pollVars, obtained>>
    /\ UNCHANGED <<argVars, phase, exit, tallyVars, ctrlC>>

-----------------------------------------------------------------------------
(* pull and watch: collect_once *)

\* Mutant of Tally: a collector that cannot be reached is left out.
TallyReached(good, reached) ==
    /\ successful' = successful + good
    /\ failed' = IF reached THEN failed + Len(collectors[current].metrics) - good ELSE failed

\* Each configured metric counts, whatever has become of its collector.
Tally(good, reached) ==
    /\ successful' = successful + good
    /\ failed' = failed + Len(collectors[current].metrics) - good

\* The next collector, or the end of collect_once.
Advance ==
    IF current < Len(collectors)
    THEN /\ phase' = "creating"
         /\ current' = current + 1
         /\ UNCHANGED exit
    ELSE /\ current' = 1
         /\ IF mode = "watch" THEN phase' = "resting" /\ UNCHANGED exit
            ELSE ExitWith(IF failed' > 0 THEN 2 ELSE 0)

\* Only Modbus readers are created without opening anything.
CreateFails ==
    /\ phase = "creating"
    /\ ~IsModbus(Type(current))
    /\ Tally(0, FALSE)
    /\ Advance
    /\ UNCHANGED <<busVars, collectors, argVars, pollVars, iteration, ctrlC, obtained>>

\* AddressMode::DeviceClass unwraps both of its parts.
Unaddressed(c) ==
    LET p == collectors[c].protocol
    IN  /\ p.type = "i3c"
        /\ p.pid = None /\ p.address = None
        /\ p.device_class = None \/ p.instance = None

Create ==
    /\ phase = "creating"
    /\ IF Unaddressed(current) THEN ExitWith(Panic)
       ELSE phase' = "connecting" /\ UNCHANGED exit
    /\ UNCHANGED <<busVars, collectors, argVars, pollVars, tallyVars, ctrlC, obtained>>

\* Other readers only set a flag.
ConnectFails ==
    /\ phase = "connecting"
    /\ IsModbus(Type(current))
    /\ Tally(0, FALSE)
    /\ Advance
    /\ UNCHANGED <<busVars, collectors, argVars, pollVars, iteration, ctrlC, obtained>>

Connect ==
    /\ phase = "connecting"
    /\ phase' = "reading"
    /\ BeginCall(current, "read")
    /\ UNCHANGED <<collectors, argVars, exit, pollVars, tallyVars, ctrlC, obtained>>

Read ==
    /\ phase = "reading"
    /\ CallStep(current, ctrlC)
    /\ obtained' = obtained + Obtained(current)
    /\ UNCHANGED <<argVars, phase, exit, pollVars, tallyVars, ctrlC>>

ReadPanics ==
    /\ phase = "reading"
    /\ call[current].at = "panicked"
    /\ ExitWith(Panic)
    /\ UNCHANGED <<busVars, collectors, argVars, pollVars, tallyVars, ctrlC, obtained>>

\* Disconnect, and look up each metric of the collector in the results.
Report ==
    /\ phase = "reading"
    /\ call[current].at = "done"
    /\ EndCall(current)
    /\ LET r == results[current]
           good == {k \in DOMAIN collectors[current].metrics :
                       LET name == collectors[current].metrics[k].name
                       IN  name \in DOMAIN r /\ r[name] # Failed}
       IN  Tally(Cardinality(good), TRUE)
    /\ Advance
    /\ UNCHANGED <<collectors, argVars, pollVars, iteration, ctrlC, obtained>>

\* Mutant of Stopping: only the readers look at the token.
StoppingReadsOnly == FALSE

Stopping == ctrlC

\* The select! or the head of the loop has seen Ctrl-C: the summary is printed.
EndWatch ==
    /\ phase = "resting"
    /\ Stopping
    /\ ExitWith(IF failed > 0 THEN 2 ELSE 0)
    /\ UNCHANGED <<busVars, collectors, argVars, pollVars, tallyVars, ctrlC, obtained>>

\* The interval is over.  With both branches of the select! ready this may be
\* the one taken, but then the head of the loop ends the loop.
NextIteration ==
    /\ phase = "resting"
    /\ ~Stopping
    /\ iteration < MaxIterations
    /\ iteration' = iteration + 1
    /\ phase' = "creating"
    /\ UNCHANGED <<busVars, collectors, argVars, exit, pollVars, current, successful,
                   failed, ctrlC, obtained>>

PressCtrlC ==
    /\ mode = "watch" /\ phase \notin {"loading", "exited"}
    /\ ~ctrlC
    /\ ctrlC' = TRUE
    /\ UNCHANGED <<busVars, collectors, argVars, phase, exit, pollVars, tallyVars, obtained>>

CollectOnce ==
    CreateFails \/ Create \/ ConnectFails \/ Connect \/ Read \/ ReadPanics \/ Report

Work == CollectOnce \/ EndWatch \/ NextIteration

Command == StartFails \/ ShowConfig \/ Start \/ Work

Next ==
    \/ Command
    \/ \E c \in Tasks : Poll(c)
    \/ PressCtrlC

Spec == Init /\ [][Next]_vars

\* Once started, pull and watch do one thing at a time, and each ends: transfers
\* and opening in the kernel, a Modbus read by its timeout, connecting when the
\* operating system gives up.
FairSpec == Spec /\ WF_vars(Work)

-----------------------------------------------------------------------------
(* Properties *)

\* Process, calls and counters are where they can be, the lists that loading has
\* made are what their types say, and a lock is held exactly during a transfer.
TypeOK ==
    /\ mode \in Modes
    /\ ListsTyped
    /\ phase \in {"loading", "polling", "creating", "connecting", "reading", "resting", "exited"}
    /\ exit \in {Running, 0, 1, 2, Panic}
    /\ phase = "exited" <=> exit # Running
    /\ \A c \in Tasks :
          /\ call[c].kind \in WriteKinds \cup {"none", "read"}
          /\ call[c].at \in {"between", "queued", "locked", "addressed", "done", "failed", "panicked"}
          /\ session[c] \in {"down", "up"}
          /\ cycles[c] \in 0 .. MaxCycles
    /\ held = {<<LockOf(c), c>> : c \in {d \in Tasks : call[d].at \in {"locked", "addressed"}}}
    /\ current \in 1 .. Len(collectors) + 1
    /\ iteration \in 0 .. MaxIterations
    /\ {successful, failed, obtained} \subseteq Nat
    /\ ctrlC \in BOOLEAN

\* The sum in ResponseHolds does not fit into 16 bits.
Wraps(m) == m.response_offset + ByteCount(m.data_type) > 65535

\* What load lets pass never panics in a reader of the daemon, though the
\* readers unwrap addresses and slice responses without looking; the exception
\* is a response offset so large that the check itself has wrapped.
ValidatedNeverPanics ==
    mode = "run" => \A c \in Tasks :
        call[c].at = "panicked" => \E m \in ToSet(collectors[c].metrics) : Wraps(m)

\* The steps that are meant to send something.
Meant(steps) ==
    Retained(steps, {s \in ToSet(steps) : IsSome(s.address) \/ IsSome(s.value) \/ IsSome(s.command)})

\* A collector of the daemon is up only when its device has got every step of
\* init_writes, and reads only when it has got every step of pre_poll in this
\* cycle, in order and none left out: writers skip a step with only half of
\* its fields, and a failed step ends the call.
ReadsFollowAllWrites ==
    mode = "run" => \A c \in Tasks :
        /\ session[c] = "up"
              => delivered[c]["init_writes"] = Payloads(Meant(collectors[c].init_writes))
        /\ Reading(c) => delivered[c]["pre_poll"] = Payloads(Meant(collectors[c].pre_poll))

MetricsOf(cs) == FoldLeft(LAMBDA n, c : n + Len(c.metrics), 0, cs)
MetricCount == MetricsOf(collectors)

\* When pull or watch ends, what it says is true, over all iterations: as many
\* successes as devices delivered values, each metric of each iteration counted
\* once, and exit code 0 only if nothing was missed, be it because a device
\* could not be opened or connected, a read failed or Ctrl-C came between.
SummaryTruthful ==
    phase \in {"resting", "exited"} /\ exit \in {Running, 0, 2} /\ mode \in {"pull", "watch"} =>
        /\ successful = obtained
        /\ successful + failed = iteration * MetricCount
        /\ phase = "exited" => (exit = 0 <=> obtained = iteration * MetricCount)

\* The last of a sequence of metrics with this name, if any.
LastNamed(ms, name) ==
    LET same == {k \in DOMAIN ms : ms[k].name = name}
    IN  IF same = {} THEN None ELSE Some(ms[Max(same)])

\* Whatever the layers of metrics files define twice, each collector gets one
\* metric of a name: the inline one, or else that of the last file to have it.
MergedByPriority ==
    \A c \in Tasks : \E d \in ToSet(config.collectors) :
        LET ms == collectors[c].metrics
        IN  /\ collectors[c].name = d.name
            /\ \A j, k \in DOMAIN ms : ms[j].name = ms[k].name => j = k
            /\ \A m \in ToSet(ms) :
                  Some(m) = Or(LastNamed(d.metrics, m.name), LastNamed(FromFiles(d), m.name))

\* Ctrl-C ends watch, from wherever it is, if what it is waiting for ends.
WatchStops == ctrlC ~> phase = "exited"
=============================================================================
