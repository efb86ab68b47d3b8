------------------------------- MODULE Config -------------------------------
(***************************************************************************)
(* A configuration (src/config.rs): how the metrics of a collector are put *)
(* together from metrics files and inline metrics, and what validate       *)
(* accepts.  Records have the fields of the structs; an Option is a        *)
(* sequence of at most one element.  YAML, descriptions, units, labels and *)
(* offsets are left out; a scale is 0 or not; an MQTT endpoint is its      *)
(* scheme; of a TCP endpoint only counts whether its port is well formed,  *)
(* of a PID whether it is 48 bits in hex.  Durations are milliseconds.     *)
(***************************************************************************)
EXTENDS Decoder, FiniteSets

None == <<>>
Some(x) == <<x>>
IsSome(option) == option # None
Or(option, other) == IF IsSome(option) THEN option ELSE other
UnwrapOr(option, default) == Or(option, Some(default))[1]

\* What is in kept, in the order of the sequence (Vec::retain).
Retained(seq, kept) ==
    LET retained[k \in 0 .. Len(seq)] ==
            IF k = 0 THEN <<>>
            ELSE IF seq[k] \in kept THEN Append(retained[k - 1], seq[k])
            ELSE retained[k - 1]
    IN  retained[Len(seq)]

-----------------------------------------------------------------------------
(* What the types of the structs say, whatever the file says *)

IsSequence(s) == s \in Seq({s[k] : k \in DOMAIN s})

\* Fields that a metric has wherever it is defined.
FieldsTyped(m) ==
    /\ IsSome(m.address) => m.address[1] \in Nat
    /\ IsSequence(m.command)
    /\ IsSome(m.response_length) => m.response_length[1] \in Nat
    /\ m.response_offset \in Nat

MetricTyped(m) == FieldsTyped(m) /\ m.data_type \in DataTypes

DataTypeTyped(raw) == IsSome(raw.data_type) => raw.data_type[1] \in DataTypes

FileTyped(file) ==
    /\ IsSequence(file.metrics)
    /\ \A k \in DOMAIN file.metrics :
          FieldsTyped(file.metrics[k]) /\ DataTypeTyped(file.metrics[k])
    /\ DataTypeTyped(file.defaults)

CollectorFields ==
    {"name", "protocol", "slave_id", "polling_interval", "init_writes", "pre_poll",
     "metrics_files", "metrics"}

CollectorTyped(c) ==
    /\ DOMAIN c = CollectorFields
    /\ IsSequence(c.init_writes) /\ IsSequence(c.pre_poll)
    /\ IsSequence(c.metrics_files)
    /\ \A k \in DOMAIN c.metrics_files : FileTyped(c.metrics_files[k])
    /\ IsSequence(c.metrics)
    /\ \A k \in DOMAIN c.metrics : MetricTyped(c.metrics[k])

ConfigTyped(config) ==
    /\ IsSequence(config.collectors)
    /\ \A k \in DOMAIN config.collectors : CollectorTyped(config.collectors[k])

-----------------------------------------------------------------------------
(* Merging *)

\* A metric of a metrics file needs a type and a data type, its own or the
\* file's default.
Complete(raw, defaults) ==
    /\ IsSome(Or(raw.metric_type, defaults.metric_type))
    /\ IsSome(Or(raw.data_type, defaults.data_type))

\* into_metric of a complete one.
IntoMetric(raw, defaults) ==
    [name |-> raw.name,
     metric_type |-> Or(raw.metric_type, defaults.metric_type)[1],
     register_type |-> Or(raw.register_type, defaults.register_type),
     address |-> raw.address,
     data_type |-> Or(raw.data_type, defaults.data_type)[1],
     byte_order |-> UnwrapOr(Or(raw.byte_order, defaults.byte_order), "big_endian"),
     scale |-> UnwrapOr(Or(raw.scale, defaults.scale), 1),
     command |-> raw.command,
     response_length |-> raw.response_length,
     response_offset |-> raw.response_offset]

\* A metrics file that can be used: it was read and parsed, and has metrics.
UsableFile(file) ==
    /\ file.parsed
    /\ file.metrics # <<>>
    /\ \A k \in DOMAIN file.metrics : Complete(file.metrics[k], file.defaults)

FileMetrics(file) ==
    [k \in DOMAIN file.metrics |-> IntoMetric(file.metrics[k], file.defaults)]

FromFiles(c) ==
    FlattenSeq([k \in DOMAIN c.metrics_files |-> FileMetrics(c.metrics_files[k])])

\* Mutant of Layers: what a file says overrides what the collector says.
LayersInlineFirst(c) == c.metrics \o FromFiles(c)

\* In the order they are inserted: files, then the inline metrics.
Layers(c) == FromFiles(c) \o c.metrics

\* IndexMap::insert: a name that is there keeps its place and gets a new metric.
Insert(merged, m) ==
    IF \E k \in DOMAIN merged : merged[k].name = m.name
    THEN [k \in DOMAIN merged |-> IF merged[k].name = m.name THEN m ELSE merged[k]]
    ELSE Append(merged, m)

ResolveMetricsFiles(c) == [c EXCEPT !.metrics = FoldLeft(Insert, <<>>, Layers(c))]

\* What load and load_for_pull have in common.
Loadable(config) ==
    /\ config.parsed
    /\ \A c \in ToSet(config.collectors) :
          \A k \in DOMAIN c.metrics_files : UsableFile(c.metrics_files[k])

Resolved(config) ==
    [k \in DOMAIN config.collectors |-> ResolveMetricsFiles(config.collectors[k])]

-----------------------------------------------------------------------------
(* validate *)

Enabled(exporter) == IsSome(exporter) /\ exporter[1].enabled

ExportersValid(e) ==
    /\ Enabled(e.otlp) \/ Enabled(e.prometheus) \/ Enabled(e.mqtt)
    /\ Enabled(e.otlp) => IsSome(e.otlp[1].endpoint)
    /\ Enabled(e.mqtt) => e.mqtt[1].endpoint \in {Some("mqtt"), Some("mqtts")}
    /\ IsSome(e.mqtt) =>
          /\ e.mqtt[1].qos <= 2
          /\ IsSome(e.mqtt[1].client_cert) <=> IsSome(e.mqtt[1].client_key)

IsModbus(type) == type \in {"modbus-tcp", "modbus-rtu"}

\* A PID, a static address, or a device class with an instance.
AddressModeValid(p) ==
    /\ Cardinality({mode \in {"pid", "address", "class"} :
                       CASE mode = "pid" -> IsSome(p.pid)
                         [] mode = "address" -> IsSome(p.address)
                         [] mode = "class" -> IsSome(p.device_class) \/ IsSome(p.instance)}) = 1
    /\ IsSome(p.device_class) <=> IsSome(p.instance)
    /\ IsSome(p.address) => p.address[1] \in 8 .. 61
    /\ IsSome(p.pid) => p.pid[1].hex48

ProtocolValid(c) ==
    LET p == c.protocol
    IN  /\ IsModbus(p.type) => IsSome(c.slave_id) /\ c.slave_id[1] \in 1 .. 247
        /\ p.type = "modbus-tcp" => p.endpoint.port_ok
        /\ p.type = "modbus-rtu" => p.data_bits \in 5 .. 8 /\ p.stop_bits \in 1 .. 2
        /\ p.type = "i2c" => p.bus # "" /\ p.address \in 3 .. 119
        /\ p.type = "spi" =>
              p.device # "" /\ p.speed_hz > 0 /\ p.mode <= 3 /\ p.bits_per_word \in 1 .. 32
        /\ p.type = "i3c" => p.bus # "" /\ c.slave_id = None /\ AddressModeValid(p)

DelayValid(s) == IsSome(s.delay) => s.delay[1] <= 10000

SpiStepValid(s) ==
    /\ s.address = None /\ s.value = None
    /\ IsSome(s.command) \/ IsSome(s.delay)
    /\ s.command # Some(<<>>)

RegisterStepValid(s) ==
    /\ s.command = None
    /\ IsSome(s.address) <=> IsSome(s.value)
    /\ IsSome(s.address) \/ IsSome(s.delay)
    /\ s.value # Some(<<>>)

\* Write steps; there are none for Modbus.
StepsValid(type, steps) ==
    /\ IsModbus(type) => steps = <<>>
    /\ \A s \in ToSet(steps) :
          DelayValid(s) /\ IF type = "spi" THEN SpiStepValid(s) ELSE RegisterStepValid(s)

ModbusMetricValid(m) ==
    /\ IsSome(m.register_type)
    /\ m.register_type[1] \in {"coil", "discrete"} <=> m.data_type = "bool"
    /\ m.data_type # "u8"
    /\ m.address[1] + RegistersNeeded(m.data_type) <= 65536

\* I2C and I3C registers are bytes.
RegisterMetricValid(m) ==
    /\ m.address[1] <= 255
    /\ m.byte_order \in {"big_endian", "little_endian"}

\* The length of the response to an SPI command, as u16.
ResponseLength(m) == UnwrapOr(m.response_length, Len(m.command) % 65536)

\* Mutant of ResponseHolds: the data need not fit behind the offset.
ResponseHoldsSomewhere(m) == ByteCount(m.data_type) <= ResponseLength(m)

\* response_offset + data_bytes is a sum of two u16: a release build wraps it.
\* (A debug build panics here, before anything runs.)
ResponseHolds(m) ==
    (m.response_offset + ByteCount(m.data_type)) % 65536 <= ResponseLength(m)

SpiMetricValid(m) ==
    /\ m.command # <<>>
    /\ m.byte_order \in {"big_endian", "little_endian"}
    /\ ResponseHolds(m)

MetricValid(type, m) ==
    /\ type # "spi" => IsSome(m.address)
    /\ IsModbus(type) => ModbusMetricValid(m)
    /\ type \in {"i2c", "i3c"} => RegisterMetricValid(m)
    /\ type = "spi" => SpiMetricValid(m)
    /\ ~(m.metric_type = "counter" /\ m.data_type = "bool")
    /\ m.scale # 0

CollectorValid(c) ==
    /\ ProtocolValid(c)
    /\ c.polling_interval >= 1
    /\ c.metrics # <<>>
    /\ StepsValid(c.protocol.type, c.init_writes)
    /\ StepsValid(c.protocol.type, c.pre_poll)
    /\ \A m \in ToSet(c.metrics) : MetricValid(c.protocol.type, m)

\* exporters and collectors of a configuration whose metrics are merged.
Validate(exporters, collectors) ==
    /\ ExportersValid(exporters)
    /\ collectors # <<>>
    /\ \A j, k \in DOMAIN collectors : collectors[j].name = collectors[k].name => j = k
    /\ \A c \in ToSet(collectors) : CollectorValid(c)
=============================================================================
