---------------------------- MODULE ModbusSession ----------------------------
(***************************************************************************)
(* The transport behind a Modbus reader: ModbusTcpMetricReader and         *)
(* ModbusRtuMetricReader (src/reader/modbus/tcp.rs and rtu.rs).  The       *)
(* reader's task connects, reads and disconnects, one call after the       *)
(* other; each read is given up after READ_TIMEOUT.                        *)
(*                                                                         *)
(* tokio_modbus and the device are external.  Requests are answered in     *)
(* order, late or never; giving a read up does not take its request back.  *)
(* Before it sends, the library drops of the input what it has already     *)
(* taken from the transport, which may be some of it or all.  An answer to *)
(* another request is refused over TCP, which numbers transactions; over   *)
(* RTU answers have no number, and all requests here have one function     *)
(* code, so it is taken for the answer awaited.  Closing the serial port   *)
(* discards the input, but the device may still answer.                    *)
(***************************************************************************)
EXTENDS Integers, Sequences

CONSTANTS
    Requests,        \* the reads a batch is made of
    MaxOutstanding   \* bound of the model: requests and answers on the way

ASSUME SessionAssumption == MaxOutstanding \in Nat

VARIABLES
    transport,   \* "tcp" or "rtu", by configuration
    context,     \* "none", "open", or "broken": Some(_) with a dead transport
    reading,     \* the read under way, or Nothing
    pending,     \* requests the device has still to answer: [req, awaited]
    input,       \* answers on the way to the library: [req, awaited]
    last,        \* the last result: [asked, got], got is Nothing for an error
    givenUp      \* history: since the line was last quiet a read ended without its answer

lineVars == <<pending, input, givenUp>>
sessionVars == <<transport, context, reading, pending, input, last, givenUp>>

Nothing == "nothing"
NoResult == [asked |-> Nothing, got |-> Nothing]

ASSUME NothingAssumption == Nothing \notin Requests

SessionInit ==
    /\ transport \in {"tcp", "rtu"}
    /\ context = "none"
    /\ reading = Nothing
    /\ pending = <<>>
    /\ input = <<>>
    /\ last = NoResult
    /\ givenUp = FALSE

-----------------------------------------------------------------------------
(* Connections.  connect drops an old context first. *)

Idle == reading = Nothing

\* A new socket: what was on the way over the old one is gone.
TcpConnects ==
    /\ Idle
    /\ transport = "tcp"
    /\ context' = "open"
    /\ pending' = <<>> /\ input' = <<>> /\ givenUp' = FALSE
    /\ UNCHANGED <<transport, reading, last>>

\* The port is opened; opening it says nothing about the device.
RtuOpens ==
    /\ Idle
    /\ transport = "rtu"
    /\ context' = "open"
    /\ input' = <<>> /\ givenUp' = (pending # <<>>)
    /\ UNCHANGED <<transport, reading, pending, last>>

\* disconnect, or a connect that fails after it dropped the old context.
Disconnects ==
    /\ Idle
    /\ context # "none"
    /\ context' = "none"
    /\ input' = <<>>
    /\ pending' = IF transport = "tcp" THEN <<>> ELSE pending
    /\ UNCHANGED <<transport, reading, last, givenUp>>

-----------------------------------------------------------------------------
(* Reads *)

\* Mutant of Free: two tasks share the reader without a lock.
FreeAlways == TRUE

\* Reads take &mut self: there is one at a time.
Free == Idle

\* What of the input is left when the library has dropped what it had taken.
Leftovers == {SubSeq(input, k, Len(input)) : k \in 1 .. Len(input) + 1}

BeginRead(r) ==
    /\ Free
    /\ context = "open"
    /\ Len(pending) + Len(input) < MaxOutstanding
    /\ reading' = r
    /\ input' \in Leftovers
    /\ pending' = Append(pending, [req |-> r, awaited |-> TRUE])
    /\ givenUp' = (givenUp /\ pending \o input' # <<>>)
    /\ UNCHANGED <<transport, context, last>>

\* ctx() has no context, or the transport is dead.  Neither changes is_connected.
ReadRefused(r) ==
    /\ Idle
    /\ context # "open"
    /\ last' = [asked |-> r, got |-> Nothing]
    /\ UNCHANGED <<transport, context, reading, lineVars>>

\* Nobody waits any more for an answer still to come.
Unawaited(line) == [k \in DOMAIN line |-> [line[k] EXCEPT !.awaited = FALSE]]

\* The read ends with the rest of the input and the answer got, or an error.
EndRead(rest, got) ==
    /\ reading' = Nothing
    /\ last' = [asked |-> reading, got |-> got]
    /\ pending' = Unawaited(pending)
    /\ input' = Unawaited(rest)
    /\ givenUp' = (pending \o rest # <<>>)
    /\ UNCHANGED <<transport, context>>

\* Mutant of Matches: transaction numbers are not compared.
MatchesAny(answer) == TRUE

Matches(answer) == transport = "rtu" \/ answer.awaited

ReceiveAnswer ==
    /\ reading # Nothing
    /\ input # <<>>
    /\ EndRead(Tail(input), IF Matches(Head(input)) THEN Head(input).req ELSE Nothing)

\* Mutant of Expired: a read waits for as long as it takes.
ExpiredNever == FALSE

Expired == reading # Nothing

\* tokio::time::timeout drops the future of the read.
TimeOut ==
    /\ Expired
    /\ EndRead(input, Nothing)

\* The transport dies.  The context stays, and so is_connected stays true.
TransportDies ==
    /\ context = "open"
    /\ context' = "broken"
    /\ reading' = Nothing
    /\ last' = IF Idle THEN last ELSE [asked |-> reading, got |-> Nothing]
    /\ pending' = <<>> /\ input' = <<>> /\ givenUp' = FALSE
    /\ UNCHANGED transport

-----------------------------------------------------------------------------
(* The device *)

\* It answers the oldest request, or never will.
DeviceAnswers ==
    /\ pending # <<>>
    /\ pending' = Tail(pending)
    /\ input' \in {input} \cup IF context = "open" THEN {Append(input, Head(pending))} ELSE {}
    /\ UNCHANGED <<transport, context, reading, last, givenUp>>

SessionNext ==
    \/ TcpConnects \/ RtuOpens \/ Disconnects
    \/ \E r \in Requests : BeginRead(r) \/ ReadRefused(r)
    \/ ReceiveAnswer \/ TimeOut \/ TransportDies
    \/ DeviceAnswers

SessionSpec == SessionInit /\ [][SessionNext]_sessionVars

\* The timer fires; a device owes nobody an answer.
FairSession == SessionSpec /\ WF_sessionVars(TimeOut)

-----------------------------------------------------------------------------
(* Properties *)

Lines == pending \o input

Awaited == {k \in DOMAIN Lines : Lines[k].awaited}

\* The line and the results have their types, and at most one request on the line
\* is still awaited.
SessionTypeOK ==
    /\ transport \in {"tcp", "rtu"}
    /\ context \in {"none", "open", "broken"}
    /\ reading \in Requests \cup {Nothing}
    /\ \A k \in DOMAIN Lines : Lines[k].req \in Requests /\ Lines[k].awaited \in BOOLEAN
    /\ Len(Lines) <= MaxOutstanding
    /\ \A j, k \in Awaited : j = k
    /\ last \in [asked : Requests \cup {Nothing}, got : Requests \cup {Nothing}]
    /\ givenUp \in BOOLEAN

\* Until a read is given up there is one request on the line while one is read,
\* and none otherwise: exclusive access to the reader is what RTU relies on.
OneOutstanding ==
    ~givenUp => Len(Lines) <= IF reading = Nothing THEN 0 ELSE 1

\* A read never returns what was read from other registers, unless over RTU,
\* and then only when an earlier read was given up and its answer came late.
AnswersOwn ==
    [][last' # last /\ last'.got # Nothing /\ last'.got # last'.asked
          => transport = "rtu" /\ givenUp]_sessionVars

\* Every read ends, whether or not the device answers.
ReadsEnd == reading # Nothing ~> reading = Nothing
=============================================================================
