------------------------------- MODULE I3cProofs -------------------------------
(***************************************************************************)
(* I3cBus for every number of collectors, devices, addresses, metrics and  *)
(* retries: the bus lock keeps jobs apart, and a retry goes out with an    *)
(* address looked up after the failure.                                    *)
(*                                                                         *)
(* The invariant follows a retry from its failure: the backoff is left     *)
(* with nothing in the reader's cache unless the address is static, so     *)
(* what is sent next is what sysfs had at the lookup, which only a reset   *)
(* makes old.  A write has no retries at all.                              *)
(***************************************************************************)
EXTENDS I3cBus, TLAPS

Kinds == Handles \cup {"none"}
Calls == [is : Kinds, left : 0 .. Metrics + Steps]
Jobs == [at : {"none", "waiting", "resolving", "sending", "backoff"},
         addr : Addresses \cup {Unresolved}, tries : 0 .. Retries]

\* A job belongs to a call that has jobs left, and it works under the bus lock.
JobInv(c) ==
    /\ call[c].is = "none" => call[c].left = 0
    /\ job[c].at # "none" => call[c].is \in Handles /\ call[c].left > 0
    /\ job[c].at = "none" => job[c] = NoJob
    /\ job[c].at = "waiting" => job[c].tries = 0
    /\ job[c].at = "backoff" => job[c].tries < Retries
    /\ job[c].at = "sending" => job[c].addr \in Addresses
    /\ call[c].is = "write" => job[c].tries = 0 /\ job[c].at # "backoff"
    /\ Working(c) <=> holder = c

\* A static address is never forgotten, a dynamic one before each retry.
AddressInv(c) ==
    /\ c \notin Dynamic => \A h \in Handles : cache[c][h] = StaticAddr[c]
    /\ c \in Dynamic /\ call[c].is = "read" /\ job[c].tries > 0 /\ job[c].at = "resolving"
          => cache[c].read = Unresolved

\* A retry that no reset has overtaken.
RetryInv(c) ==
    job[c].at = "sending" /\ job[c].tries > 0 /\ calm => job[c].addr = FoundInSysfs(c)

IInv ==
    /\ TypeOK
    /\ \A c \in Collectors : JobInv(c) /\ AddressInv(c) /\ RetryInv(c)

LEMMA Typed ==
    ASSUME TypeOK, NEW c \in Collectors
    PROVE  /\ call[c] \in Calls /\ job[c] \in Jobs
           /\ call[c].is \in Kinds /\ call[c].left \in 0 .. Metrics + Steps
           /\ job[c].tries \in 0 .. Retries /\ job[c].addr \in Addresses \cup {Unresolved}
           /\ cache[c] \in [Handles -> Addresses \cup {Unresolved}]
           /\ Retries \in Nat \ {0} /\ Metrics \in Nat /\ Steps \in Nat
           /\ c # NoOne
BY I3cAssumption, AddressAssumption DEF TypeOK, Calls, Jobs, Kinds, Places

\* Nobody changes what sysfs shows but the bus.
LEMMA SysfsFacts ==
    ASSUME TypeOK, NEW c \in Collectors
    PROVE  /\ FoundInSysfs(c) \in Addresses \cup {Absent}
           /\ where' = where => FoundInSysfs(c)' = FoundInSysfs(c)
<1>1. FoundInSysfs(c) \in Addresses \cup {Absent}
  <2>1. c \notin Dynamic => StaticAddr[c] \in Addresses
    BY I3cAssumption
  <2>2. ASSUME Listed(c) # {}
        PROVE  where[CHOOSE d \in Listed(c) : TRUE] \in Addresses \cup {Absent}
    <3>1. (CHOOSE d \in Listed(c) : TRUE) \in Listed(c)
        BY <2>2
    <3>2. Listed(c) \subseteq Devices
        BY DEF Listed, Present
    <3> QED BY <3>1, <3>2 DEF TypeOK, Places
  <2> QED BY <2>1, <2>2 DEF FoundInSysfs
<1>2. ASSUME where' = where
      PROVE  FoundInSysfs(c)' = FoundInSysfs(c)
  <2>1. Present' = Present
    BY <1>2 DEF Present
  <2>2. \A d \in Devices : Before(d)' = Before(d)
    BY <2>1 DEF Before
  <2>3. Listed(c)' = Listed(c)
    <3>1. \A d \in Present : Cardinality(Before(d))' = Cardinality(Before(d))
        BY <2>2 DEF Present
    <3> QED BY <2>1, <3>1 DEF Listed
  <2> QED BY <1>2, <2>3 DEF FoundInSysfs
<1> QED BY <1>1, <1>2

LEMMA IInvInit == Init => IInv
<1> SUFFICES ASSUME Init PROVE IInv
    OBVIOUS
<1>1. \A c \in Collectors : InitialCache(c) \in Addresses \cup {Unresolved}
    BY I3cAssumption DEF InitialCache
<1>2. NoCall \in Calls /\ NoJob \in Jobs
    BY I3cAssumption DEF NoCall, NoJob, Calls, Jobs, Kinds
<1>3. TypeOK
    BY <1>1, <1>2 DEF Init, TypeOK, Calls, Jobs, Kinds, NoAnswers
<1>4. \A c \in Collectors : JobInv(c)
    BY AddressAssumption DEF Init, JobInv, NoJob, NoCall, Working
<1>5. \A c \in Collectors : AddressInv(c) /\ RetryInv(c)
    BY DEF Init, AddressInv, RetryInv, NoJob, InitialCache
<1> QED BY <1>3, <1>4, <1>5 DEF IInv

-----------------------------------------------------------------------------
(* Calls *)

LEMMA CallKeeps ==
    ASSUME IInv, NEW c \in Collectors,
           \/ \E handle \in Handles : StartCall(c, handle)
           \/ EndCall(c)
    PROVE  IInv'
<1> USE DEF IInv
<1>1. PICK new \in Calls : call' = [call EXCEPT ![c] = new]
  <2>1. ASSUME NEW handle \in Handles
        PROVE  [is |-> handle, left |-> JobsOf(handle)] \in Calls
    BY I3cAssumption DEF JobsOf, Calls, Kinds
  <2>2. NoCall \in Calls
    BY I3cAssumption DEF NoCall, Calls, Kinds
  <2> QED BY <2>1, <2>2 DEF StartCall, EndCall
<1>2. UNCHANGED <<job, cache, holder, busVars, cancel, calm, answered>>
    BY DEF StartCall, EndCall
<1>3. job[c].at = "none"
  <2>1. CASE EndCall(c)
    BY <2>1 DEF EndCall, NoJob
  <2>2. CASE \E handle \in Handles : StartCall(c, handle)
    <3>1. call[c].is = "none"
        BY <2>2 DEF StartCall, NoCall
    <3>2. job[c].at \in {"none", "waiting", "resolving", "sending", "backoff"}
        BY Typed DEF Jobs
    <3> QED BY <3>1, <3>2 DEF JobInv, Handles
  <2> QED BY <2>1, <2>2
<1>4. TypeOK'
    BY <1>1, <1>2 DEF TypeOK, Calls, Kinds, busVars
<1>5. \A d \in Collectors : d # c => call'[d] = call[d]
    BY <1>1 DEF TypeOK
<1>6. \A d \in Collectors : JobInv(d)'
  <2>1. job[c] = NoJob /\ holder # c
    BY <1>3 DEF JobInv, Working
  <2>2. job'[c] = NoJob /\ NoJob.at = "none" /\ NoJob.tries = 0 /\ holder' # c
    BY <1>2, <2>1 DEF NoJob
  <2>3. call'[c].is = "none" => call'[c].left = 0
    BY <1>1, <1>5 DEF StartCall, EndCall, NoCall, Handles, TypeOK
  <2>4. JobInv(c)'
    BY <2>2, <2>3 DEF JobInv, Working
  <2>5. ASSUME NEW d \in Collectors, d # c PROVE JobInv(d)'
    <3>1. /\ call'[d] = call[d] /\ job'[d] = job[d] /\ holder' = holder
        BY <1>2, <1>5, <2>5
    <3> QED BY <3>1 DEF JobInv, Working
  <2> QED BY <2>4, <2>5
<1>7. ASSUME NEW d \in Collectors
      PROVE  AddressInv(d)' /\ RetryInv(d)'
  <2>1. AddressInv(d)'
    BY <1>2, <1>3, <1>5 DEF AddressInv
  <2>2. FoundInSysfs(d)' = FoundInSysfs(d)
    BY <1>2, SysfsFacts DEF busVars
  <2> QED BY <1>2, <2>1, <2>2 DEF RetryInv
<1> QED BY <1>4, <1>6, <1>7

LEMMA BeginJobKeeps ==
    ASSUME IInv, NEW c \in Collectors, BeginJob(c)
    PROVE  IInv'
<1> USE DEF IInv
<1> DEFINE new == [NoJob EXCEPT !.at = "waiting"]
<1>1. job' = [job EXCEPT ![c] = new] /\ call[c].left > 0
    BY DEF BeginJob, MayGoOn
<1>2. new \in Jobs /\ new.at = "waiting" /\ new.tries = 0
    BY I3cAssumption DEF NoJob, Jobs
<1>3. UNCHANGED <<call, cache, holder, busVars, cancel, calm, answered>>
    BY DEF BeginJob
<1>4. job'[c] = new /\ \A d \in Collectors : d # c => job'[d] = job[d]
    BY <1>1 DEF TypeOK
<1>5. call[c].is \in Handles
    BY <1>1, Typed DEF JobInv, Kinds
<1>6. holder # c
  <2>1. job[c].at = "none"
    BY DEF BeginJob, NoJob
  <2> QED BY <2>1 DEF JobInv, Working
<1> HIDE DEF new
<1>7. TypeOK'
    BY <1>1, <1>2, <1>3 DEF TypeOK, Jobs, busVars
<1>8. \A d \in Collectors : JobInv(d)'
  <2>1. JobInv(c)'
    BY <1>1, <1>2, <1>3, <1>4, <1>5, <1>6, Typed DEF JobInv, Working, Handles
  <2>2. ASSUME NEW d \in Collectors, d # c PROVE JobInv(d)'
    <3>1. call'[d] = call[d] /\ job'[d] = job[d] /\ holder' = holder
        BY <1>3, <1>4, <2>2
    <3> QED BY <3>1 DEF JobInv, Working
  <2> QED BY <2>1, <2>2
<1>9. ASSUME NEW d \in Collectors
      PROVE  AddressInv(d)' /\ RetryInv(d)'
  <2>1. AddressInv(d)'
    BY <1>2, <1>3, <1>4 DEF AddressInv
  <2>2. FoundInSysfs(d)' = FoundInSysfs(d)
    BY <1>3, SysfsFacts DEF busVars
  <2> QED BY <1>2, <1>3, <1>4, <2>1, <2>2 DEF RetryInv
<1> QED BY <1>7, <1>8, <1>9

LEMMA TakeBusLockKeeps ==
    ASSUME IInv, NEW c \in Collectors, TakeBusLock(c)
    PROVE  IInv'
<1> USE DEF IInv
<1> DEFINE new == [job[c] EXCEPT !.at = "resolving"]
<1>1. /\ job[c].at = "waiting" /\ holder = NoOne /\ holder' = c
      /\ job' = [job EXCEPT ![c] = new]
      /\ UNCHANGED <<call, cache, busVars, cancel, calm, answered>>
    BY DEF TakeBusLock, LockFree
<1>2. new \in Jobs /\ new.at = "resolving" /\ new.tries = 0
    BY <1>1, Typed DEF Jobs, JobInv
<1> HIDE DEF new
<1>3. job'[c] = new /\ \A d \in Collectors : d # c => job'[d] = job[d]
    BY <1>1 DEF TypeOK
<1>4. TypeOK'
    BY <1>1, <1>2 DEF TypeOK, Jobs, busVars
<1>5. \A d \in Collectors : JobInv(d)'
    BY <1>1, <1>2, <1>3, AddressAssumption DEF JobInv, Working
<1>6. ASSUME NEW d \in Collectors
      PROVE  AddressInv(d)' /\ RetryInv(d)'
    BY <1>1, <1>2, <1>3, SysfsFacts DEF AddressInv, RetryInv, busVars
<1> QED BY <1>4, <1>5, <1>6

-----------------------------------------------------------------------------
(* Jobs that hold the bus lock *)

\* The end of a job: the lock is free and the others are as they were.
LEMMA FinishKeeps ==
    ASSUME IInv, NEW c \in Collectors, NEW ok \in BOOLEAN,
           job[c].at \in {"resolving", "sending"}, Finish(c, ok),
           answered' \in [Collectors -> Here \cup {NoDevice}],
           UNCHANGED <<cache, busVars, cancel>>
    PROVE  IInv'
<1> USE DEF IInv
<1>1. PICK left \in 0 .. Metrics + Steps : left = LeftAfter(c, ok)
  <2>1. call[c].left \in 1 .. Metrics + Steps
    BY Typed DEF JobInv
  <2>2. call[c].left - 1 \in 0 .. Metrics + Steps /\ 0 \in 0 .. Metrics + Steps
    BY <2>1, I3cAssumption
  <2> QED BY <2>2 DEF LeftAfter
<1> DEFINE new == [call[c] EXCEPT !.left = left]
<1>2. new \in Calls /\ new.is = call[c].is /\ call[c].is \in Handles
    BY Typed DEF Calls, JobInv
<1>3. /\ holder' = NoOne /\ job' = [job EXCEPT ![c] = NoJob] /\ calm' = FALSE
      /\ call' = [call EXCEPT ![c] = new]
    BY <1>1 DEF Finish
<1> HIDE DEF new
<1>4. NoJob \in Jobs /\ NoJob.at = "none" /\ NoJob.tries = 0
    BY I3cAssumption DEF NoJob, Jobs
<1>5. TypeOK'
  <2>1. call' \in [Collectors -> Calls]
    BY <1>2, <1>3 DEF TypeOK, Calls, Kinds
  <2>2. job' \in [Collectors -> Jobs]
    BY <1>3, <1>4 DEF TypeOK, Jobs
  <2>3. {cancel', calm'} \subseteq BOOLEAN
    BY <1>3 DEF TypeOK
  <2> QED BY <1>3, <2>1, <2>2, <2>3 DEF TypeOK, Calls, Jobs, Kinds, busVars
<1>6. /\ job'[c] = NoJob /\ call'[c].is \in Handles /\ holder = c
      /\ \A d \in Collectors : d # c => job'[d] = job[d] /\ call'[d] = call[d] /\ holder # d
    BY <1>2, <1>3 DEF TypeOK, JobInv, Working
<1>7. \A d \in Collectors : JobInv(d)'
    BY <1>3, <1>4, <1>6, AddressAssumption DEF JobInv, Working, Handles
<1>8. \A d \in Collectors : AddressInv(d)' /\ RetryInv(d)'
    BY <1>3, <1>4, <1>6 DEF AddressInv, RetryInv
<1> QED BY <1>5, <1>7, <1>8

\* A job that goes to its next point: what it has to know there.
LEMMA AdvanceKeeps ==
    ASSUME IInv, NEW c \in Collectors, NEW new \in Jobs,
           holder = c, job' = [job EXCEPT ![c] = new], new.at \in {"resolving", "sending", "backoff"},
           calm' \in BOOLEAN,
           cache' \in [Collectors -> [Handles -> Addresses \cup {Unresolved}]],
           \A d \in Collectors : d # c => cache'[d] = cache[d],
           UNCHANGED <<call, holder, busVars, cancel, answered>>,
           JobInv(c)', AddressInv(c)', RetryInv(c)'
    PROVE  IInv'
<1> USE DEF IInv
<1>1. TypeOK'
    BY DEF TypeOK, Jobs, busVars
<1>2. \A d \in Collectors : d # c => job'[d] = job[d] /\ holder # d
    BY DEF TypeOK
<1>3. ASSUME NEW d \in Collectors, d # c
      PROVE  JobInv(d)' /\ AddressInv(d)' /\ RetryInv(d)'
  <2>1. ~Working(d)
    BY <1>2, <1>3 DEF JobInv
  <2> QED BY <1>2, <1>3, <2>1 DEF JobInv, AddressInv, RetryInv, Working
<1> QED BY <1>1, <1>3

\* With an address in the cache the job is at its first attempt, or its address
\* is static.
LEMMA ResolveFromCacheKeeps ==
    ASSUME IInv, NEW c \in Collectors, ResolveFromCache(c)
    PROVE  IInv'
<1> USE DEF IInv
<1>1. PICK addr \in Addresses : addr = cache[c][call[c].is]
  <2>1. cache[c][call[c].is] # Unresolved /\ call[c].is \in Handles
    BY DEF ResolveFromCache, JobInv
  <2> QED BY <2>1, Typed
<1> DEFINE new == [job[c] EXCEPT !.at = "sending", !.addr = addr]
<1>2. /\ job[c].at = "resolving" /\ job' = [job EXCEPT ![c] = new]
      /\ cache[c][call[c].is] # Unresolved
      /\ UNCHANGED <<call, cache, holder, busVars, cancel, calm, answered>>
    BY <1>1 DEF ResolveFromCache
<1>3. new \in Jobs /\ new.at = "sending" /\ new.addr = addr /\ new.tries = job[c].tries
    BY Typed DEF Jobs
<1> HIDE DEF new
<1>4. job'[c] = new /\ holder = c /\ call[c].is \in Handles
    BY <1>2 DEF TypeOK, JobInv, Working
<1>5. JobInv(c)' /\ AddressInv(c)'
    BY <1>1, <1>2, <1>3, <1>4 DEF JobInv, AddressInv, Working
<1>6. RetryInv(c)'
  <2>1. CASE c \in Dynamic
    <3>1. job[c].tries \in Nat /\ ~(job[c].tries > 0)
        BY <1>2, <1>4, <2>1, Typed DEF AddressInv, JobInv, Handles
    <3> QED BY <1>3, <1>4, <3>1 DEF RetryInv
  <2>2. CASE c \notin Dynamic
    <3>1. addr = StaticAddr[c] /\ FoundInSysfs(c)' = StaticAddr[c]
        BY <1>1, <1>4, <2>2 DEF AddressInv, FoundInSysfs
    <3> QED BY <1>3, <1>4, <3>1 DEF RetryInv
  <2> QED BY <2>1, <2>2
<1> QED BY <1>2, <1>3, <1>4, <1>5, <1>6, AdvanceKeeps DEF TypeOK

\* The address looked up is the one sysfs shows, until the next reset.
LEMMA ResolveFromSysfsKeeps ==
    ASSUME IInv, NEW c \in Collectors, ResolveFromSysfs(c)
    PROVE  IInv'
<1> USE DEF IInv
<1>1. PICK addr \in Addresses : addr = FoundInSysfs(c)
    BY SysfsFacts DEF ResolveFromSysfs
<1>2. call[c].is \in Handles /\ cache[c] \in [Handles -> Addresses \cup {Unresolved}]
    BY Typed DEF ResolveFromSysfs, JobInv
<1> DEFINE new == [job[c] EXCEPT !.at = "sending", !.addr = addr]
           found == [cache[c] EXCEPT ![call[c].is] = addr]
<1>3. /\ job[c].at = "resolving" /\ job' = [job EXCEPT ![c] = new]
      /\ cache' = [cache EXCEPT ![c] = found]
      /\ cache[c][call[c].is] = Unresolved
      /\ UNCHANGED <<call, holder, busVars, cancel, calm, answered>>
    BY <1>1 DEF ResolveFromSysfs
<1>4. /\ new \in Jobs /\ new.at = "sending" /\ new.addr = addr /\ new.tries = job[c].tries
      /\ found \in [Handles -> Addresses \cup {Unresolved}]
    BY <1>2, Typed DEF Jobs
<1> HIDE DEF new, found
<1>5. /\ job'[c] = new /\ cache'[c] = found /\ holder = c
      /\ \A d \in Collectors : d # c => cache'[d] = cache[d]
      /\ cache' \in [Collectors -> [Handles -> Addresses \cup {Unresolved}]]
    BY <1>3, <1>4 DEF TypeOK, JobInv, Working
<1>6. c \in Dynamic
  <2>1. c \notin Dynamic => StaticAddr[c] \in Addresses
    BY I3cAssumption
  <2> QED BY <1>2, <1>3, <2>1, AddressAssumption DEF AddressInv
<1>7. JobInv(c)'
    BY <1>1, <1>3, <1>4, <1>5 DEF JobInv, Working
<1>8. AddressInv(c)'
    BY <1>3, <1>4, <1>5, <1>6 DEF AddressInv
<1>9. RetryInv(c)'
    BY <1>1, <1>3, <1>4, <1>5, SysfsFacts DEF RetryInv, busVars
<1> QED BY <1>3, <1>4, <1>5, <1>7, <1>8, <1>9, AdvanceKeeps DEF TypeOK

\* The reader's address is forgotten; only a read backs off.
LEMMA BackoffElapsedKeeps ==
    ASSUME IInv, NEW c \in Collectors, BackoffElapsed(c)
    PROVE  IInv'
<1> USE DEF IInv
<1> DEFINE new == [job[c] EXCEPT !.at = "resolving", !.tries = job[c].tries + 1]
           left == [cache[c] EXCEPT !.read = Invalidated(c)]
<1>1. /\ job[c].at = "backoff" /\ job' = [job EXCEPT ![c] = new]
      /\ cache' = [cache EXCEPT ![c] = left]
      /\ UNCHANGED <<call, holder, busVars, cancel, calm, answered>>
    BY DEF BackoffElapsed
<1>2. /\ new \in Jobs /\ new.at = "resolving" /\ new.tries = job[c].tries + 1
  <2>1. job[c].tries + 1 \in 0 .. Retries
    BY <1>1, Typed DEF JobInv
  <2> QED BY <2>1, Typed DEF Jobs
<1>3. /\ left \in [Handles -> Addresses \cup {Unresolved}]
      /\ c \in Dynamic => left.read = Unresolved
      /\ c \notin Dynamic => left = cache[c]
  <2>1. cache[c] \in [Handles -> Addresses \cup {Unresolved}] /\ "read" \in Handles
    BY Typed DEF Handles
  <2>2. cache[c]["read"] \in Addresses \cup {Unresolved}
    BY <2>1
  <2> QED BY <2>1, <2>2 DEF Invalidated
<1> HIDE DEF new, left
<1>4. /\ job'[c] = new /\ cache'[c] = left /\ holder = c
      /\ \A d \in Collectors : d # c => cache'[d] = cache[d]
      /\ cache' \in [Collectors -> [Handles -> Addresses \cup {Unresolved}]]
    BY <1>1, <1>3 DEF TypeOK, JobInv, Working
<1>5. JobInv(c)'
    BY <1>1, <1>2, <1>4 DEF JobInv, Working
<1>6. AddressInv(c)' /\ RetryInv(c)'
    BY <1>1, <1>2, <1>3, <1>4 DEF AddressInv, RetryInv
<1> QED BY <1>1, <1>2, <1>4, <1>5, <1>6, AdvanceKeeps DEF TypeOK

\* A read that sleeps before its next retry, or gives up.
LEMMA AttemptKeeps ==
    ASSUME IInv, NEW c \in Collectors, job[c].at \in {"resolving", "sending"},
           call[c].is = "read", AttemptFails(c), UNCHANGED <<cache, busVars, cancel, answered>>
    PROVE  IInv'
<1> USE DEF IInv
<1>1. CASE OutOfTries(c)
    BY <1>1, FinishKeeps DEF AttemptFails, TypeOK
<1>2. CASE ~OutOfTries(c)
  <2> DEFINE new == [job[c] EXCEPT !.at = "backoff"]
  <2>1. /\ job' = [job EXCEPT ![c] = new] /\ calm' = TRUE
        /\ UNCHANGED <<call, holder>> /\ job[c].tries # Retries
    BY <1>2 DEF AttemptFails, OutOfTries
  <2>2. new \in Jobs /\ new.at = "backoff" /\ new.tries = job[c].tries
    BY Typed DEF Jobs
  <2> HIDE DEF new
  <2>3. job'[c] = new /\ holder = c /\ job[c].tries < Retries
    <3>1. job'[c] = new
        BY <2>1 DEF TypeOK
    <3>2. job[c].tries < Retries
        BY <2>1, Typed
    <3> QED BY <3>1, <3>2 DEF JobInv, Working
  <2>4. JobInv(c)' /\ AddressInv(c)' /\ RetryInv(c)'
    BY <2>1, <2>2, <2>3 DEF JobInv, AddressInv, RetryInv, Working
  <2> QED BY <2>1, <2>2, <2>3, <2>4, AdvanceKeeps DEF TypeOK
<1> QED BY <1>1, <1>2

LEMMA OutcomeKeeps ==
    ASSUME IInv, NEW c \in Collectors,
           \/ TransferOk(c) \/ ReadFails(c) \/ ReadFailsForGood(c)
           \/ WriteFails(c) \/ ResolveFails(c)
    PROVE  IInv'
<1>1. CASE TransferOk(c)
  <2>1. answered' \in [Collectors -> Here \cup {NoDevice}]
    BY <1>1 DEF TransferOk, IInv, TypeOK
  <2> QED BY <1>1, <2>1, FinishKeeps DEF TransferOk
<1>2. CASE ReadFails(c)
    BY <1>2, AttemptKeeps DEF ReadFails
<1>3. CASE ReadFailsForGood(c)
    BY <1>3, FinishKeeps DEF ReadFailsForGood, IInv, TypeOK
<1>4. CASE WriteFails(c)
    BY <1>4, FinishKeeps DEF WriteFails, IInv, TypeOK
<1>5. CASE ResolveFails(c)
  <2>1. CASE job[c].tries = 0
    BY <1>5, <2>1, FinishKeeps DEF ResolveFails, IInv, TypeOK
  <2>2. CASE job[c].tries # 0
    <3>1. call[c].is = "read"
        BY <1>5, <2>2 DEF ResolveFails, IInv, JobInv, Handles
    <3> QED BY <1>5, <2>2, <3>1, AttemptKeeps DEF ResolveFails
  <2> QED BY <2>1, <2>2
<1> QED BY <1>1, <1>2, <1>3, <1>4, <1>5

-----------------------------------------------------------------------------
(* The bus and its clients, in any order *)

LEMMA EnvironmentKeeps ==
    ASSUME IInv, BusReset \/ Cancel \/ UNCHANGED vars
    PROVE  IInv'
<1> USE DEF IInv
<1>1. /\ UNCHANGED <<call, job, cache, holder>>
      /\ calm' => calm /\ where' = where
      /\ calm' \in BOOLEAN /\ cancel' \in BOOLEAN
      /\ where' \in Places /\ reached' \in Here \cup {NoDevice}
      /\ answered' \in [Collectors -> Here \cup {NoDevice}]
  <2>1. CASE BusReset
    BY <2>1 DEF BusReset, NoAnswers, clientVars, TypeOK
  <2>2. CASE Cancel
    BY <2>2 DEF Cancel, clientVars, busVars, TypeOK
  <2>3. CASE UNCHANGED vars
    BY <2>3 DEF vars, clientVars, busVars, TypeOK
  <2> QED BY <2>1, <2>2, <2>3
<1>2. TypeOK'
    BY <1>1 DEF TypeOK
<1>3. \A c \in Collectors : JobInv(c)' /\ AddressInv(c)'
    BY <1>1 DEF JobInv, AddressInv, Working
<1>4. ASSUME NEW c \in Collectors
      PROVE  RetryInv(c)'
    BY <1>1, SysfsFacts DEF RetryInv
<1> QED BY <1>2, <1>3, <1>4

LEMMA IInvStep == IInv /\ [Next]_vars => IInv'
BY CallKeeps, BeginJobKeeps, TakeBusLockKeeps, ResolveFromCacheKeeps, ResolveFromSysfsKeeps,
   BackoffElapsedKeeps, OutcomeKeeps, EnvironmentKeeps DEF Next, JobStep

LEMMA IInvHolds == Spec => []IInv
BY IInvInit, IInvStep, PTL DEF Spec

\* Calls, jobs and caches have their types, and no job retries too often.
THEOREM TypeCorrect == Spec => []TypeOK
<1>1. IInv => TypeOK
    BY DEF IInv
<1> QED BY <1>1, IInvHolds, PTL

\* Jobs of different collectors are never on the bus together, not even while
\* one of them sleeps between two attempts.
THEOREM BusIsExclusiveHolds == Spec => []BusIsExclusive
<1>1. IInv => BusIsExclusive
    BY DEF IInv, JobInv, BusIsExclusive
<1> QED BY <1>1, IInvHolds, PTL

\* A retry goes out with the address sysfs shows, unless a reset overtakes it.
THEOREM RetriesResolveAnewHolds == Spec => []RetriesResolveAnew
<1>1. IInv => RetriesResolveAnew
    BY DEF IInv, RetryInv, RetriesResolveAnew
<1> QED BY <1>1, IInvHolds, PTL
=============================================================================
