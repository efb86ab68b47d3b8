------------------------------- MODULE I3cBus -------------------------------
(***************************************************************************)
(* I3C readers and writers on one bus (src/reader/i3c/mod.rs).  Each       *)
(* collector has a reader and a writer, which keep an address cache each;  *)
(* its task uses them one after the other.  A call of read() or            *)
(* execute_writes() runs one blocking job per metric or step, each under   *)
(* the bus lock:                                                           *)
(*                                                                         *)
(*   waiting     for the bus lock                                          *)
(*   resolving   in resolve_address                                        *)
(*   sending     in write_read, with the address resolved                  *)
(*   backoff     asleep before the next retry, the bus lock held           *)
(*                                                                         *)
(* The bus, sysfs and the driver are external.  write_read on Linux does   *)
(* not use the address it is given: its ioctl names the bus file and the   *)
(* buffers only, so the device that answers is the one the driver has for  *)
(* the file, the same for every collector.  A reset gives the devices new  *)
(* dynamic addresses.  Register contents are left out.                     *)
(***************************************************************************)
EXTENDS Integers, FiniteSets

CONSTANTS
    Collectors,   \* those with the path of this bus in their configuration
    ByPid,        \* the collectors whose device is configured by pid
    ByClass,      \* those with device class and instance
    Devices,      \* on all buses, numbered in the order of their sysfs paths
    Here,         \* the devices on this bus
    Class,        \* device -> what its dcr file says
    PidOf,        \* collector by pid -> the device with this pid
    Wanted,       \* collector by class -> [class, instance]
    Addresses,
    StaticAddr,   \* the address of each other collector
    Retries,      \* backoffs.len(), 3
    Metrics,      \* metrics of a collector
    Steps         \* steps with a value in its pre_poll

Dynamic == ByPid \cup ByClass

ASSUME I3cAssumption ==
    /\ Dynamic \subseteq Collectors
    /\ ByPid \cap ByClass = {}
    /\ Devices \subseteq Nat /\ IsFiniteSet(Devices) /\ Here \subseteq Devices
    /\ PidOf \in [ByPid -> Devices]
    /\ StaticAddr \in [Collectors \ Dynamic -> Addresses]
    /\ Retries \in Nat \ {0}
    /\ {Metrics, Steps} \subseteq Nat

Handles == {"read", "write"}
Unresolved == "unresolved"
Absent == "absent"
NoOne == "no one"
NoDevice == -1

ASSUME AddressAssumption ==
    /\ {Unresolved, Absent} \cap Addresses = {}
    /\ NoOne \notin Collectors

VARIABLES
    call,       \* collector -> [is, left]: the call under way and its jobs left
    job,        \* collector -> [at, addr, tries]: the job under way
    cache,      \* collector -> handle -> resolved_address
    holder,     \* who has the bus lock
    where,      \* device -> its dynamic address, or Absent
    reached,    \* the device the driver has for the bus file, or NoDevice
    cancel,     \* the token given to read()
    calm,       \* history: no reset since the job's last attempt failed
    answered    \* history: collector -> who answered it since the last reset

clientVars == <<call, job, cache, holder>>
busVars == <<where, reached>>
vars == <<clientVars, busVars, cancel, calm, answered>>

NoCall == [is |-> "none", left |-> 0]
NoJob == [at |-> "none", addr |-> Unresolved, tries |-> 0]
NoAnswers == [c \in Collectors |-> NoDevice]

\* Where devices can be: any may be off its bus, no two of a bus share an
\* address.
Places ==
    {w \in [Devices -> Addresses \cup {Absent}] :
        \A d, e \in Here : d # e /\ w[d] = w[e] => w[d] = Absent}

\* new() knows a static address only.
InitialCache(c) == IF c \in Dynamic THEN Unresolved ELSE StaticAddr[c]

Init ==
    /\ call = [c \in Collectors |-> NoCall]
    /\ job = [c \in Collectors |-> NoJob]
    /\ cache = [c \in Collectors |-> [h \in Handles |-> InitialCache(c)]]
    /\ holder = NoOne
    /\ where \in Places
    /\ reached \in Here \cup {NoDevice}
    /\ cancel = FALSE
    /\ calm = FALSE
    /\ answered = NoAnswers

-----------------------------------------------------------------------------
(* Calls *)

JobsOf(handle) == IF handle = "read" THEN Metrics ELSE Steps

StartCall(c, handle) ==
    /\ call[c] = NoCall
    /\ ~cancel
    /\ call' = [call EXCEPT ![c] = [is |-> handle, left |-> JobsOf(handle)]]
    /\ UNCHANGED <<job, cache, holder, busVars, cancel, calm, answered>>

\* read() looks at the token before each metric; execute_writes has none.
MayGoOn(c) == call[c].left > 0 /\ (call[c].is = "read" => ~cancel)

\* spawn_blocking
BeginJob(c) ==
    /\ job[c] = NoJob
    /\ MayGoOn(c)
    /\ job' = [job EXCEPT ![c].at = "waiting"]
    /\ UNCHANGED <<call, cache, holder, busVars, cancel, calm, answered>>

EndCall(c) ==
    /\ call[c] # NoCall
    /\ job[c] = NoJob
    /\ ~MayGoOn(c)
    /\ call' = [call EXCEPT ![c] = NoCall]
    /\ UNCHANGED <<job, cache, holder, busVars, cancel, calm, answered>>

\* Mutant of LockFree: a lock for each collector.
LockFreeOfOwn(c) == holder # c

\* get_bus_lock hands out one lock for all with the same bus path.
LockFree(c) == holder = NoOne

TakeBusLock(c) ==
    /\ job[c].at = "waiting"
    /\ LockFree(c)
    /\ holder' = c
    /\ job' = [job EXCEPT ![c].at = "resolving"]
    /\ UNCHANGED <<call, cache, busVars, cancel, calm, answered>>

\* Mutant of LeftAfter: a failed write step is tried again.
LeftAfterRetrying(c, ok) == IF call[c].is = "write" /\ ~ok THEN call[c].left ELSE call[c].left - 1

\* read() goes on to the next metric, execute_writes stops at an error.
LeftAfter(c, ok) == IF call[c].is = "write" /\ ~ok THEN 0 ELSE call[c].left - 1

\* The job is over and drops the bus lock.
Finish(c, ok) ==
    /\ holder' = NoOne
    /\ job' = [job EXCEPT ![c] = NoJob]
    /\ call' = [call EXCEPT ![c].left = LeftAfter(c, ok)]
    /\ calm' = FALSE

-----------------------------------------------------------------------------
(* Address resolution *)

Present == {d \in Devices : where[d] # Absent}

\* The devices of its class that come before d in the sorted list.
Before(d) == {e \in Present : e < d /\ Class[e] = Class[d]}

\* What sysfs lists for the pid, or as the instance of the class.  The list
\* has the devices of all buses and only those that are present.
Listed(c) ==
    {d \in Present :
        \/ c \in ByPid /\ d = PidOf[c]
        \/ /\ c \in ByClass
           /\ Class[d] = Wanted[c].class
           /\ Cardinality(Before(d)) = Wanted[c].instance}

\* resolve_address_from_sysfs; Absent where it is an error.
FoundInSysfs(c) ==
    IF c \notin Dynamic THEN StaticAddr[c]
    ELSE IF Listed(c) = {} THEN Absent
    ELSE where[CHOOSE d \in Listed(c) : TRUE]

ResolveFromCache(c) ==
    /\ job[c].at = "resolving"
    /\ cache[c][call[c].is] # Unresolved
    /\ job' = [job EXCEPT ![c].at = "sending", ![c].addr = cache[c][call[c].is]]
    /\ UNCHANGED <<call, cache, holder, busVars, cancel, calm, answered>>

ResolveFromSysfs(c) ==
    /\ job[c].at = "resolving"
    /\ cache[c][call[c].is] = Unresolved
    /\ FoundInSysfs(c) # Absent
    /\ cache' = [cache EXCEPT ![c][call[c].is] = FoundInSysfs(c)]
    /\ job' = [job EXCEPT ![c].at = "sending", ![c].addr = FoundInSysfs(c)]
    /\ UNCHANGED <<call, holder, busVars, cancel, calm, answered>>

\* Mutant of OutOfTries: one retry too many.
OutOfTriesLate(c) == job[c].tries > Retries

OutOfTries(c) == job[c].tries = Retries

\* An attempt has failed: the next one, or the last error.
AttemptFails(c) ==
    IF OutOfTries(c)
    THEN Finish(c, FALSE)
    ELSE /\ job' = [job EXCEPT ![c].at = "backoff"]
         /\ calm' = TRUE
         /\ UNCHANGED <<call, holder>>

\* The device is not listed, or a file of sysfs cannot be read.  Before the
\* first transfer this is the end.
ResolveFails(c) ==
    /\ job[c].at = "resolving"
    /\ cache[c][call[c].is] = Unresolved
    /\ IF job[c].tries = 0 THEN Finish(c, FALSE) ELSE AttemptFails(c)
    /\ UNCHANGED <<cache, busVars, cancel, answered>>

\* Mutant of Invalidated: the cached address stays.
InvalidatedNever(c) == cache[c].read

\* invalidate_address: only a dynamic address is forgotten.
Invalidated(c) == IF c \in Dynamic THEN Unresolved ELSE cache[c].read

BackoffElapsed(c) ==
    /\ job[c].at = "backoff"
    /\ cache' = [cache EXCEPT ![c].read = Invalidated(c)]
    /\ job' = [job EXCEPT ![c].at = "resolving", ![c].tries = @ + 1]
    /\ UNCHANGED <<call, holder, busVars, cancel, calm, answered>>

-----------------------------------------------------------------------------
(* Transfers *)

\* The ioctl goes to the device of the file, whatever the address.
TransferOk(c) ==
    /\ job[c].at = "sending"
    /\ reached # NoDevice /\ where[reached] # Absent
    /\ Finish(c, TRUE)
    /\ answered' = [answered EXCEPT ![c] = reached]
    /\ UNCHANGED <<cache, busVars, cancel>>

\* read_register_sync sleeps and tries again, three times.
ReadFails(c) ==
    /\ call[c].is = "read"
    /\ job[c].at = "sending"
    /\ AttemptFails(c)
    /\ UNCHANGED <<cache, busVars, cancel, answered>>

\* An error classify_error does not know ends the first attempt at once.
ReadFailsForGood(c) ==
    /\ call[c].is = "read"
    /\ job[c].at = "sending" /\ job[c].tries = 0
    /\ Finish(c, FALSE)
    /\ UNCHANGED <<cache, busVars, cancel, answered>>

\* write_bytes has no retry and leaves the cache alone.
WriteFails(c) ==
    /\ call[c].is = "write"
    /\ job[c].at = "sending"
    /\ Finish(c, FALSE)
    /\ UNCHANGED <<cache, busVars, cancel, answered>>

-----------------------------------------------------------------------------
(* Environment *)

\* The controller assigns new addresses; devices come and go.
BusReset ==
    /\ where' \in Places \ {where}
    /\ reached' \in Here \cup {NoDevice}
    /\ calm' = FALSE
    /\ answered' = NoAnswers
    /\ UNCHANGED <<clientVars, cancel>>

Cancel ==
    /\ ~cancel
    /\ cancel' = TRUE
    /\ UNCHANGED <<clientVars, busVars, calm, answered>>

JobStep(c) ==
    \/ BeginJob(c) \/ EndCall(c) \/ TakeBusLock(c)
    \/ ResolveFromCache(c) \/ ResolveFromSysfs(c) \/ ResolveFails(c) \/ BackoffElapsed(c)
    \/ TransferOk(c) \/ ReadFails(c) \/ ReadFailsForGood(c) \/ WriteFails(c)

Next ==
    \/ \E c \in Collectors : JobStep(c) \/ \E handle \in Handles : StartCall(c, handle)
    \/ BusReset
    \/ Cancel

Spec == Init /\ [][Next]_vars

\* Blocking jobs run to their end and the kernel ends every transfer; nothing
\* makes a collector start a call.
FairSpec == Spec /\ \A c \in Collectors : WF_vars(JobStep(c))

-----------------------------------------------------------------------------
(* Properties *)

\* Calls, jobs and caches have their types, and no job makes more than Retries
\* retries.
TypeOK ==
    /\ call \in [Collectors -> [is : Handles \cup {"none"}, left : 0 .. Metrics + Steps]]
    /\ job \in [Collectors -> [at : {"none", "waiting", "resolving", "sending", "backoff"},
                               addr : Addresses \cup {Unresolved}, tries : 0 .. Retries]]
    /\ cache \in [Collectors -> [Handles -> Addresses \cup {Unresolved}]]
    /\ holder \in Collectors \cup {NoOne}
    /\ where \in Places
    /\ reached \in Here \cup {NoDevice}
    /\ {cancel, calm} \subseteq BOOLEAN
    /\ answered \in [Collectors -> Here \cup {NoDevice}]

\* In the part of a job that runs under the bus lock, its backoffs included.
Working(c) == job[c].at \in {"resolving", "sending", "backoff"}

\* Until a job has its answer or gives up, through all of its retries, no other
\* collector does anything on the bus.
BusIsExclusive == \A c, d \in Collectors : Working(c) /\ Working(d) => c = d

\* However often the bus is reset before and during a read, a retry goes out
\* with the address sysfs has for the device now, unless the bus is reset
\* again after the failure the retry answers.
RetriesResolveAnew ==
    \A c \in Collectors :
        /\ job[c].at = "sending"
        /\ job[c].tries > 0
        /\ calm
        => job[c].addr = FoundInSysfs(c)

\* The bus has a device for each of two collectors that have different
\* addresses; between two resets they are not answered by the same device.
AnswersApart ==
    \A c, d \in Collectors :
        /\ answered[c] = answered[d] /\ answered[c] # NoDevice
        /\ {FoundInSysfs(c), FoundInSysfs(d)} \subseteq {where[e] : e \in Here} \ {Absent}
        => FoundInSysfs(c) = FoundInSysfs(d)

\* Calls end once the token is cancelled, whatever the bus does: no retry and
\* no lock is waited for without end.
CancelledCallsEnd == cancel ~> \A c \in Collectors : call[c] = NoCall
=============================================================================
