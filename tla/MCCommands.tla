----------------------------- MODULE MCCommands -----------------------------
(* Instances of Commands for TLC: configuration files, right and wrong. *)
EXTENDS Commands

Gauge(name) ==
    [name |-> name, metric_type |-> "gauge", register_type |-> None, address |-> None,
     data_type |-> "u8", byte_order |-> "big_endian", scale |-> 1, command |-> <<>>,
     response_length |-> None, response_offset |-> 0]

At8(name, address) == [Gauge(name) EXCEPT !.address = Some(address)]
At16(name, address, order) ==
    [At8(name, address) EXCEPT !.data_type = "u16", !.byte_order = order]

Step0 == [address |-> None, value |-> None, command |-> None, delay |-> None]
Write(address) == [Step0 EXCEPT !.address = Some(address), !.value = Some(<<1>>)]
Pause(ms) == [Step0 EXCEPT !.delay = Some(ms)]

On(name, protocol, metrics) ==
    [name |-> name, protocol |-> protocol, slave_id |-> None, polling_interval |-> 10000,
     init_writes |-> <<>>, pre_poll |-> <<>>, metrics_files |-> <<>>, metrics |-> metrics]

I2c(address) == [type |-> "i2c", bus |-> "i2c-1", address |-> address]
Spi == [type |-> "spi", device |-> "spidev0.0", speed_hz |-> 1000000, mode |-> 0, bits_per_word |-> 8]
Tcp == [type |-> "modbus-tcp", endpoint |-> [port_ok |-> TRUE]]
I3c(pid, class) ==
    [type |-> "i3c", bus |-> "i3c-0", pid |-> pid, address |-> None,
     device_class |-> class, instance |-> None]

PrometheusOnly == [otlp |-> None, prometheus |-> Some([enabled |-> TRUE]), mqtt |-> None]
MqttTo(endpoint) ==
    [PrometheusOnly EXCEPT !.prometheus = None,
        !.mqtt = Some([enabled |-> TRUE, endpoint |-> endpoint, qos |-> 1,
                       client_cert |-> None, client_key |-> None])]

File(cs) == [parsed |-> TRUE, exporters |-> PrometheusOnly, collectors |-> cs]

-----------------------------------------------------------------------------

\* Two collectors share an I2C device; metric m and step s of the first vary.
Neighbour == [On("c2", I2c(64), <<At16("z", 2, "little_endian")>>) EXCEPT !.init_writes = <<Write(3)>>]
SharedDevice(m, s) ==
    File(<<[On("c1", I2c(64), <<m, At8("y", 4)>>) EXCEPT !.pre_poll = <<Write(5), s>>], Neighbour>>)

Metrics == {At16("x", 1, "big_endian"), Gauge("x"), At8("x", 300), At16("x", 1, "mid_big_endian")}
StepsOfFirst == {Write(6), Pause(20), [Write(6) EXCEPT !.value = None], Pause(20000)}

\* An SPI device and an I2C device; the SPI metric varies.
Ask(command) == [Gauge("x") EXCEPT !.command = command, !.data_type = "u16"]
SpiMetrics ==
    {[Ask(<<7>>) EXCEPT !.response_length = Some(4), !.response_offset = 2],
     [Ask(<<7, 0, 0>>) EXCEPT !.response_offset = 1],
     [Ask(<<7>>) EXCEPT !.response_length = Some(3), !.response_offset = 2],
     [Ask(<<7>>) EXCEPT !.response_offset = 65535],
     Ask(<<>>)}
SpiDevice(m) ==
    File(<<[On("c1", Spi, <<m>>) EXCEPT !.init_writes = <<[Step0 EXCEPT !.command = Some(<<9>>)], Pause(1)>>],
           On("c2", I2c(65), <<At8("y", 1)>>)>>)

\* Modbus and I3C collectors.
Holding(name, address) == [At16(name, address, "big_endian") EXCEPT !.register_type = Some("holding")]
Outlined(slave, p, m) ==
    File(<<[On("c1", Tcp, <<Holding("x", 1), Holding("y", 65535)>>) EXCEPT !.slave_id = slave],
           [On("c2", p, <<m>>) EXCEPT !.pre_poll = <<Write(1)>>]>>)

\* Metrics files that overlap each other and the inline metrics.
NoDefaults ==
    [metric_type |-> None, register_type |-> None, data_type |-> None, byte_order |-> None, scale |-> None]
Raw(name, address) ==
    [name |-> name, metric_type |-> None, register_type |-> None, address |-> Some(address),
     data_type |-> None, byte_order |-> None, scale |-> None, command |-> <<>>,
     response_length |-> None, response_offset |-> 0]
Library(defaults, raws) == [parsed |-> TRUE, defaults |-> defaults, metrics |-> raws]
Gauges8 == [NoDefaults EXCEPT !.metric_type = Some("gauge"), !.data_type = Some("u8")]
Layered(second) ==
    File(<<[On("c1", I2c(64), <<At8("y", 9)>>) EXCEPT !.metrics_files =
               <<Library(Gauges8, <<Raw("x", 1), Raw("y", 2), Raw("z", 3)>>), second>>]>>)
Second == Library([Gauges8 EXCEPT !.data_type = Some("u16")], <<Raw("x", 6)>>)

MCConfigs ==
    {SharedDevice(m, s) : m \in Metrics, s \in StepsOfFirst}
    \cup {SpiDevice(m) : m \in SpiMetrics}
    \cup {Outlined(slave, p, m) : slave \in {None, Some(1)},
              p \in {I3c(Some([hex48 |-> TRUE]), None), I3c(None, Some("sensor"))},
              m \in {At8("z", 1), Gauge("z")}}
    \cup {Layered(Second), Layered(Library(NoDefaults, <<Raw("x", 6)>>)),
          Layered([Second EXCEPT !.metrics = <<>>]), Layered([Second EXCEPT !.parsed = FALSE])}
    \cup {[File(<<Neighbour>>) EXCEPT !.exporters = e] : e \in {MqttTo(None), MqttTo(Some("mqtts"))}}
    \cup {File(<<Neighbour, Neighbour>>), [File(<<>>) EXCEPT !.parsed = FALSE]}

\* No filter, one that leaves a part, one that leaves nothing, one that is no regex.
AllNames == {"c1", "c2", "x", "y", "z"}
NoFilter == [valid |-> TRUE, collectors |-> AllNames, metrics |-> AllNames]
MCFilters ==
    {NoFilter, [NoFilter EXCEPT !.metrics = {"y", "z"}], [NoFilter EXCEPT !.collectors = {}],
     [NoFilter EXCEPT !.valid = FALSE]}
=============================================================================
