-------------------------------- MODULE Courier --------------------------------
(***************************************************************************)
(* What becomes of a message on its way through the program: the text of a *)
(* command, which the station writes, Comm parses and writes again, and    *)
(* Control parses and executes; and the report of Control, which Comm      *)
(* parses and writes again for the station.                                *)
(*                                                                         *)
(* Comm reads frames of the station with parseFrame, which knows how long  *)
(* the text is; what comes over the IPC is read as a C string.  parseFrame *)
(* and the server's recvFrame catch json::parse_error only, the client's   *)
(* catches everything.  All three refuse a text longer than a limit, and a *)
(* text may become longer where it is written again: 5e1 is 50.0.          *)
(***************************************************************************)
EXTENDS JsonDump, JsonGrammar

CONSTANTS
  Alphabets,  \* sets of the pieces, byte sequences, a station writes a text with
  Limit,      \* the length up to which a text is read (1 MB)
  MaxPieces,  \* bound: pieces of a text, per alphabet
  Climb       \* bound: altitudes that are reported

VARIABLES
  at,      \* where the message is, or how it ended
  pieces,  \* the alphabet of the station, {} for a report
  typed,   \* pieces written so far
  text,    \* the text of the station
  wire,    \* the text that is on its way to the next process
  value,   \* what the process that has read it holds
  sent,    \* the value the first process held
  speed    \* what Control has set the speed to, 0 if it has not

vars == <<at, pieces, typed, text, wire, value, sent, speed>>

\* "cmd", "SET_SPEED", "START_SPRAY", "params", "speed", "altitude", "state", "CLIMBING".
Cmd == <<99, 109, 100>>
SET_SPEED == <<83, 69, 84, 95, 83, 80, 69, 69, 68>>
START_SPRAY == <<83, 84, 65, 82, 84, 95, 83, 80, 82, 65, 89>>
Params == <<112, 97, 114, 97, 109, 115>>
Speed == <<115, 112, 101, 101, 100>>
Altitude == <<97, 108, 116, 105, 116, 117, 100, 101>>
State == <<115, 116, 97, 116, 101>>
CLIMBING == <<67, 76, 73, 77, 66, 73, 78, 71>>

NoSpeed == Float(FALSE, 0)

Init ==
  /\ \/ at = "station" /\ pieces \in Alphabets /\ value = Null
     \/ at = "control" /\ pieces = {} /\ \E bits \in Climb :
          value = Inserted(Inserted(EmptyObject, Altitude, Float(FALSE, bits)), State, String(CLIMBING))
  /\ typed = 0 /\ text = <<>> /\ wire = <<>> /\ sent = value /\ speed = NoSpeed

Command == pieces # {}

\* No continuation of the text is anything but what it is now.
Refuses(p) == p.outcome # "value" /\ p.bad <= Len(text)
Dead == Refuses(parse(text))

Types ==
  /\ at = "station" /\ Command /\ typed < MaxPieces[pieces] /\ ~Dead
  /\ \E piece \in pieces : text' = text \o piece
  /\ typed' = typed + 1
  /\ UNCHANGED <<at, pieces, wire, value, sent, speed>>

\* buffer.data() as a C string ends at the first zero byte.
CString(s) == SubSeq(s, 1, (CHOOSE n \in 0 .. Len(s) : /\ n = Len(s) \/ s[n + 1] = 0
                                                       /\ 0 \notin Range(SubSeq(s, 1, n))))

\* json::parse, and where its exceptions lead.
Takes(p, next, refused, thrown) ==
  /\ at' = CASE p.outcome = "value" -> next
             [] p.outcome = "parse_error" -> refused
             [] p.outcome = "out_of_range" -> thrown
  /\ value' = p.root
Reads(s, next, refused, thrown) == Takes(parse(s), next, refused, thrown)

Fits(s) == Len(s) <= Limit

\* parseFrame takes the frame, and drops it if it is no JSON.  One that is too long
\* stays in the buffer, in front of all that follows.
CommReads ==
  /\ at = "station" /\ Command /\ text # <<>>
  /\ \/ Fits(text) /\ Reads(text, "comm", "dropped", "overflow")
     \/ ~Fits(text) /\ at' = "stuck" /\ UNCHANGED value
  /\ sent' = value'
  /\ UNCHANGED <<pieces, typed, text, wire, speed>>

\* dump, for the socket of the other side; nobody catches its exception.
Puts(d, next) ==
  /\ at' = IF d.ok THEN next ELSE "unwritable"
  /\ wire' = d.text
  /\ UNCHANGED <<pieces, typed, text, value, sent, speed>>
Writes(next) == Puts(dump(value), next)

CommForwards ==
  \/ at = "comm" /\ Command /\ Writes("ipc")
  \/ at = "comm" /\ ~Command /\ Writes("tcp")

ControlReports == at = "control" /\ ~Command /\ Writes("report")

\* recvFrame of the server and of the client: a text it does not accept, for its length
\* or its letters, is taken for the end of the connection.
ReadsIpc ==
  /\ \/ at \in {"ipc", "report"} /\ ~Fits(wire) /\ at' = "hung up" /\ UNCHANGED value
     \/ at = "ipc" /\ Fits(wire) /\ Reads(CString(wire), "control", "hung up", "killed")
     \/ at = "report" /\ Fits(wire) /\ Reads(CString(wire), "comm", "hung up", "hung up")
  /\ UNCHANGED <<pieces, typed, text, wire, sent, speed>>

StationReads ==
  /\ at = "tcp"
  /\ Reads(wire, "delivered", "unreadable", "unreadable")
  /\ UNCHANGED <<pieces, typed, text, wire, sent, speed>>

\* get<double>: an integer is converted, and rounded.
IsNumber(v) == v.type \in {"number_unsigned", "number_integer", "number_float"}
get_double(v) ==
  IF v.type = "number_float" THEN v
  ELSE Float(v.integer < 0, strtod(IF v.integer < 0 THEN -v.integer ELSE v.integer, 0))

SetsSpeed(v) == /\ member(v, Cmd) = String(SET_SPEED)
                /\ contains(v, Params) /\ contains(member(v, Params), Speed)

\* handleCommand.  A conversion to the wrong type throws, and nobody catches it.
ControlExecutes ==
  /\ at = "control" /\ Command
  /\ UNCHANGED <<pieces, typed, text, wire, value, sent>>
  /\ \/ ~contains(value, Cmd) /\ at' = "ignored" /\ UNCHANGED speed
     \/ /\ contains(value, Cmd) /\ member(value, Cmd).type # "string"
        /\ at' = "mistyped" /\ UNCHANGED speed
     \/ /\ contains(value, Cmd) /\ member(value, Cmd).type = "string"
        /\ IF ~SetsSpeed(value) THEN at' = "executed" /\ UNCHANGED speed
           ELSE LET new_speed == member(member(value, Params), Speed)
                IN IF IsNumber(new_speed) THEN at' = "executed" /\ speed' = get_double(new_speed)
                   ELSE at' = "mistyped" /\ UNCHANGED speed

Next == Types \/ CommReads \/ CommForwards \/ ControlReports \/ ReadsIpc \/ StationReads \/ ControlExecutes

Spec == Init /\ [][Next]_vars

-----------------------------------------------------------------------------
\* Properties.

\* A text of the station is dropped if and only if it is no JSON, whatever its
\* strings, numbers and nesting (parseFrame, protocol.cpp:36-42); the exception is
\* a number no double can hold, which ends the process.
AcceptsJson == /\ at = "comm" /\ Command => IsJsonText(text)
               /\ at = "dropped" => ~IsJsonText(text)

\* What Comm has read it can also write: its dump never throws, although it decodes
\* UTF-8 another way than the lexer checks it.  And its reader accepts what it wrote,
\* unless that is too long: recvFrame takes none of its other frames for the end of
\* the connection.  A report of Control reaches the station in any case.
RefusedForLengthOnly ==
  /\ at \notin {"unwritable", "killed", "unreadable"}
  /\ at = "hung up" => Command /\ Fits(text) /\ ~Fits(wire)

\* The same value, but that an integer 0 may lose its sign.
RECURSIVE Same(_, _)
Same(v, w) ==
  LET Integers == {"number_integer", "number_unsigned"}
  IN CASE v.type \in Integers -> w.type \in Integers /\ v.integer = w.integer
       [] v.type = "array" -> /\ w.type = "array" /\ DOMAIN v.items = DOMAIN w.items
                              /\ \A i \in DOMAIN v.items : Same(v.items[i], w.items[i])
       [] v.type = "object" -> /\ w.type = "object" /\ DOMAIN v.fields = DOMAIN w.fields
                               /\ \A k \in DOMAIN v.fields : Same(v.fields[k], w.fields[k])
       [] OTHER -> v = w

\* Parsing and writing again on the way changes nothing: what Control gets is what
\* Comm got, and the station gets what Control sent, each number with its type.
ForwardedUnchanged == at \in {"control", "comm", "delivered", "executed", "ignored", "mistyped"} => Same(sent, value)

Prefix == <<OpenBrace, Quote>> \o Cmd \o <<Quote, Colon, Quote>> \o SET_SPEED \o <<Quote, Comma, Quote>>
          \o Params \o <<Quote, Colon, OpenBrace, Quote>> \o Speed \o <<Quote, Colon>>
Suffix == <<CloseBrace, CloseBrace>>
Written_ == SubSeq(text, Len(Prefix) + 1, Len(text) - Len(Suffix))

\* The number nearest to what the station wrote for the speed is the speed that
\* Control flies: neither of the two conversions to text moves it, whether it was
\* written as an integer, with a point or with an exponent.
SpeedIsTheStations ==
  at = "executed" /\ text = Prefix \o Written_ \o Suffix /\ IsNumberText(Written_)
  => LET n == Scaled(Written_)
     IN speed.bits = strtod(n.digits, n.power) /\ (speed.neg => Written_[1] = Minus)

=============================================================================
