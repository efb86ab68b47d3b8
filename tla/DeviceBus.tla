----------------------------- MODULE DeviceBus -----------------------------
(***************************************************************************)
(* Readers and writers of I2C and SPI devices (src/reader/i2c, reader/spi),*)
(* as the processes that use them call them: read() over the metrics of a  *)
(* collector and execute_writes() over its steps.  Each transfer runs in a *)
(* blocking task under a lock that all readers and writers of one bus path *)
(* (I2C) or device path (SPI) of this process share.                       *)
(*                                                                         *)
(* A call is between two transfers, waits for the lock ("queued"), has it  *)
(* ("locked"), or has written the register of an I2C read and not read it  *)
(* yet ("addressed"): LinuxI2cDevice::write_read is two system calls, and  *)
(* between them the register is only known to the device.  It ends "done", *)
(* "failed" or, where the code unwraps or slices what it takes for         *)
(* validated, "panicked".                                                  *)
(*                                                                         *)
(* Byte k of a device is <<device, k>>, or <<device, command, k>> for what *)
(* an SPI device answers.  Calls on Modbus and I3C devices are one step    *)
(* here: ModbusBatch, ModbusSession and I3cBus have them.  Delays, the     *)
(* opening of devices and the connected flag change nothing that is        *)
(* visible here.                                                           *)
(***************************************************************************)
EXTENDS Config

VARIABLES
    collectors,  \* the collectors whose readers and writers these are
    call,        \* position -> [kind, at, next]: its current or last call
    results,     \* position -> metric name -> what the last read has so far
    held,        \* the locks taken: pairs <<key, position>>
    register,    \* I2C device -> the register it will read next
    delivered    \* history: position -> kind -> payloads its last call got through

busVars == <<call, results, held, register, delivered>>

Tasks == DOMAIN collectors

WriteKinds == {"init_writes", "pre_poll"}
Idle == [kind |-> "none", at |-> "done", next |-> 1]
NoResults == [name \in {} |-> Failed]

Type(c) == collectors[c].protocol.type

\* An I2C device is its bus and its address, an SPI device its path.
Device(p) == IF p.type = "i2c" THEN <<p.bus, p.address>> ELSE <<p.device>>
DeviceOf(c) == Device(collectors[c].protocol)

\* Mutant of LockOf: a lock for each reader or writer instead of each path.
LockOfReader(c) == <<DeviceOf(c)[1], c>>

\* The key in BUS_LOCKS or DEVICE_LOCKS; writers use their reader's.
LockOf(c) == <<DeviceOf(c)[1]>>

I2cDevices(cs) == {Device(c.protocol) : c \in {d \in ToSet(cs) : d.protocol.type = "i2c"}}

BusInit ==
    /\ collectors = <<>>
    /\ call = <<>>
    /\ results = <<>>
    /\ held = {}
    /\ register = [d \in {} |-> 0]
    /\ delivered = <<>>

\* The readers and writers of these collectors are made.
Provide(cs) ==
    /\ collectors' = cs
    /\ call' = [c \in DOMAIN cs |-> Idle]
    /\ results' = [c \in DOMAIN cs |-> NoResults]
    /\ register' = [d \in I2cDevices(cs) |-> 0]
    /\ delivered' = [c \in DOMAIN cs |-> [kind \in WriteKinds |-> <<>>]]
    /\ UNCHANGED held

-----------------------------------------------------------------------------
(* Calls *)

Writing(c) == call[c].kind \in WriteKinds
Reading(c) == call[c].kind = "read"

Steps(c) == IF call[c].kind = "init_writes" THEN collectors[c].init_writes ELSE collectors[c].pre_poll

Metric(c) == collectors[c].metrics[call[c].next]
Step(c) == Steps(c)[call[c].next]

Moved(c, at) == [call EXCEPT ![c].at = at]
Continued(c) == [call EXCEPT ![c].at = "between", ![c].next = @ + 1]

BeginCall(c, kind) ==
    /\ call' = [call EXCEPT ![c] = [kind |-> kind, at |-> "between", next |-> 1]]
    /\ results' = IF kind = "read" THEN [results EXCEPT ![c] = NoResults] ELSE results
    /\ delivered' = IF kind \in WriteKinds THEN [delivered EXCEPT ![c][kind] = <<>>] ELSE delivered
    /\ UNCHANGED <<held, register>>

EndCall(c) ==
    /\ call' = [call EXCEPT ![c] = Idle]
    /\ UNCHANGED <<results, held, register, delivered>>

WithResult(c, result) ==
    [results EXCEPT ![c] = [name \in DOMAIN @ \cup {Metric(c).name} |->
                               IF name = Metric(c).name THEN result ELSE @[name]]]

\* Mutant of Released: the guard of the lock outlives the transfer.
ReleasedNever(c) == held

\* The guards of the lock and the device are dropped.
Released(c) == held \ {<<LockOf(c), c>>}

\* read() looks at its token before each metric; address.unwrap() comes before
\* the blocking task.
NextMetric(c, cancelled) ==
    /\ Reading(c)
    /\ call[c].at = "between"
    /\ Type(c) \in {"i2c", "spi"}
    /\ call' = IF cancelled \/ call[c].next > Len(collectors[c].metrics) THEN Moved(c, "done")
               ELSE IF Type(c) = "i2c" /\ Metric(c).address = None THEN Moved(c, "panicked")
               ELSE Moved(c, "queued")
    /\ UNCHANGED <<results, held, register, delivered>>

\* What a step sends, and what steps send.
Payload(s) == <<s.address, s.value, s.command>>
Payloads(steps) == [k \in DOMAIN steps |-> Payload(steps[k])]

\* A step without both address and value, or without command, writes nothing.
HasPayload(c, s) ==
    IF Type(c) = "spi" THEN IsSome(s.command) ELSE IsSome(s.address) /\ IsSome(s.value)

NextStep(c) ==
    /\ Writing(c)
    /\ call[c].at = "between"
    /\ Type(c) \in {"i2c", "spi"}
    /\ call' = IF call[c].next > Len(Steps(c)) THEN Moved(c, "done")
               ELSE IF HasPayload(c, Step(c)) THEN Moved(c, "queued")
               ELSE Continued(c)
    /\ UNCHANGED <<results, held, register, delivered>>

TakeLock(c) ==
    /\ call[c].at = "queued"
    /\ \A h \in held : h[1] # LockOf(c)
    /\ held' = held \cup {<<LockOf(c), c>>}
    /\ call' = Moved(c, "locked")
    /\ UNCHANGED <<results, register, delivered>>

-----------------------------------------------------------------------------
(* Transfers, under the lock *)

\* The first half of an I2C read.
WriteRegister(c) ==
    /\ call[c].at = "locked"
    /\ Reading(c) /\ Type(c) = "i2c"
    /\ register' = [register EXCEPT ![DeviceOf(c)] = Metric(c).address[1] % 256]
    /\ call' = Moved(c, "addressed")
    /\ UNCHANGED <<results, held, delivered>>

\* The second half: the device counts up as it is read.
ReadBytes(c) ==
    /\ call[c].at = "addressed"
    /\ LET m == Metric(c)
           n == ByteCount(m.data_type)
           bytes == [k \in 1 .. n |-> <<DeviceOf(c), (register[DeviceOf(c)] + k - 1) % 256>>]
       IN  /\ results' = WithResult(c, DecodeBytes(bytes, m.data_type, m.byte_order))
           /\ register' = [register EXCEPT ![DeviceOf(c)] = (@ + n) % 256]
    /\ call' = Continued(c)
    /\ held' = Released(c)
    /\ UNCHANGED delivered

\* The command padded with zeros up to the response length is sent, as much
\* is received, and the payload is cut out at the offset.
SpiRead(c) ==
    /\ call[c].at = "locked"
    /\ Reading(c) /\ Type(c) = "spi"
    /\ LET m == Metric(c)
           n == ByteCount(m.data_type)
           received == IF Len(m.command) < ResponseLength(m) THEN ResponseLength(m) ELSE Len(m.command)
           payload == [k \in 1 .. n |-> <<DeviceOf(c), m.command, m.response_offset + k>>]
       IN  IF m.response_offset + n > received
           THEN call' = Moved(c, "panicked") /\ UNCHANGED results
           ELSE /\ call' = Continued(c)
                /\ results' = WithResult(c, DecodeBytes(payload, m.data_type, m.byte_order))
    /\ held' = Released(c)
    /\ UNCHANGED <<register, delivered>>

\* A write step; on I2C its first byte is a register, and selects it.
WriteStep(c) ==
    /\ call[c].at = "locked"
    /\ Writing(c)
    /\ delivered' = [delivered EXCEPT ![c][call[c].kind] = Append(@, Payload(Step(c)))]
    /\ register' = IF Type(c) = "i2c" THEN [register EXCEPT ![DeviceOf(c)] = Step(c).address[1]]
                   ELSE register
    /\ call' = Continued(c)
    /\ held' = Released(c)
    /\ UNCHANGED results

\* Mutant of AfterFailedStep: the steps behind the failed one are still made.
AfterFailedStepNext(c) == Continued(c)

\* The error is returned at once.
AfterFailedStep(c) == Moved(c, "failed")

\* The device does not answer: a metric has failed and the read goes on, but
\* execute_writes gives up.
TransferFails(c) ==
    /\ call[c].at \in {"locked", "addressed"}
    /\ IF Reading(c)
       THEN call' = Continued(c) /\ results' = WithResult(c, Failed)
       ELSE call' = AfterFailedStep(c) /\ UNCHANGED results
    /\ held' = Released(c)
    /\ UNCHANGED <<register, delivered>>

-----------------------------------------------------------------------------
(* Modbus and I3C in outline *)

\* A read reports each metric, or what it got to if it is cancelled and the bus
\* is I3C.  A metric without address fails on Modbus and panics on I3C.
OtherRead(c, cancelled) ==
    LET Names(ms) == {m.name : m \in ms}
        all == ToSet(collectors[c].metrics)
        addressed == {m \in all : IsSome(m.address)}
    IN  /\ Reading(c)
        /\ call[c].at = "between"
        /\ Type(c) \notin {"i2c", "spi"}
        /\ \/ /\ \E read \in SUBSET all :
                    /\ read = all \/ (cancelled /\ Type(c) = "i3c")
                    /\ Type(c) = "i3c" => read \subseteq addressed
                    /\ \E good \in SUBSET (read \cap addressed) :
                          results' = [results EXCEPT ![c] =
                              [name \in Names(read) |->
                                  IF name \in Names(good) THEN Decoded(<<>>) ELSE Failed]]
              /\ call' = Moved(c, "done")
           \/ /\ Type(c) = "i3c"
              /\ addressed # all
              /\ call' = Moved(c, "panicked")
              /\ UNCHANGED results
        /\ UNCHANGED <<held, register, delivered>>

OtherWrites(c) ==
    /\ Writing(c)
    /\ call[c].at = "between"
    /\ Type(c) \notin {"i2c", "spi"}
    /\ \/ /\ call' = Moved(c, "done")
          /\ delivered' = [delivered EXCEPT ![c][call[c].kind] =
                             Payloads(Retained(Steps(c), {s \in ToSet(Steps(c)) : HasPayload(c, s)}))]
       \/ call' = Moved(c, "failed") /\ UNCHANGED delivered
    /\ UNCHANGED <<results, held, register>>

Transfer(c) == WriteRegister(c) \/ ReadBytes(c) \/ SpiRead(c) \/ WriteStep(c) \/ TransferFails(c)

CallStep(c, cancelled) ==
    /\ \/ NextMetric(c, cancelled) \/ NextStep(c) \/ TakeLock(c)
       \/ Transfer(c)
       \/ OtherRead(c, cancelled) \/ OtherWrites(c)
    /\ UNCHANGED collectors

-----------------------------------------------------------------------------
(* Properties *)

\* What the types of the program and the merging of the metrics, which keys them
\* by name, make of the lists the readers work on.
ListsTyped ==
    /\ IsSequence(collectors)
    /\ \A c \in Tasks :
          LET ms == collectors[c].metrics
          IN  /\ IsSequence(ms)
              /\ \A j, k \in DOMAIN ms : ms[j].name = ms[k].name => j = k
              /\ \A k \in DOMAIN ms : MetricTyped(ms[k])

\* What the metric's own registers, or the device's answer to its own command,
\* amount to.
OwnValue(c, m) ==
    LET n == ByteCount(m.data_type)
        byte(k) == IF Type(c) = "i2c" THEN <<DeviceOf(c), (m.address[1] + k) % 256>>
                   ELSE <<DeviceOf(c), m.command, m.response_offset + k + 1>>
    IN  Decoded([k \in 1 .. n |-> byte(IF m.byte_order = "little_endian" THEN n - k ELSE k - 1)])

\* However many collectors share a bus or a device, a value that is reported
\* for a metric the validation accepts is that of its own register: nobody
\* moves the register between the two halves of a read.
ReadsOwnRegister ==
    \A c \in Tasks : Type(c) \in {"i2c", "spi"} =>
        \A m \in ToSet(collectors[c].metrics) :
            m.name \in DOMAIN results[c] /\ MetricValid(Type(c), m)
                => results[c][m.name] \in {Failed, OwnValue(c, m)}
=============================================================================
