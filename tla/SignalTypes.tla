----------------------------- MODULE SignalTypes -----------------------------
(***************************************************************************)
(* From a DBC file to a value: what the portal makes of the file when it   *)
(* is edited there (cantools), what can-reader loads of it (dbc_parser),   *)
(* and what it reads out of the payload of a frame (frame_parser).         *)
(*                                                                         *)
(* A byte has ByteBits bits: 8 in the code, fewer where TLC counts; all    *)
(* other lengths are counted in bytes.  A file is a sequence of lines.     *)
(* Scale and offset go through unchanged and are left out; they are lost   *)
(* for `float` and `double`, which are left out with them.                 *)
(***************************************************************************)
EXTENDS Integers, Sequences, SequencesExt, FiniteSetsExt

CONSTANTS
  ByteBits,  \* bits of a byte
  Files,     \* DBC files: sequences of lines, the signals of a message on
             \* lines below it with nothing at column 0 between
  Payloads   \* the data of frames: sequences of FrameBytes bytes

FrameBytes == 8

ASSUME SignalTypesAssumption ==
  /\ ByteBits \in Nat \ {0}
  /\ \A p \in Payloads : p \in [1..FrameBytes -> 0..(2^ByteBits - 1)]

(* SG_ <name> : <start>|<length>@<1: Intel, 0: Motorola><sign>             *)
SG(name, start, length, intel, signed) ==
  [kind |-> "SG", name |-> name, start |-> start, length |-> length, intel |-> intel,
   signed |-> signed]
BO(id) == [kind |-> "BO", id |-> id]
Blank  == [kind |-> "blank"]
Indented == [kind |-> "indented"]  \* any other line that starts with a blank
Other  == [kind |-> "other"]       \* any other line

VARIABLES
  given,   \* the file that was uploaded
  dbc,     \* display.dbc
  frames,  \* frame_map of can-reader: a function of identifiers
  loaded   \* can-reader has read display.dbc since it was last saved

vars == <<given, dbc, frames, loaded>>

Nobody == [id \in {} |-> <<>>]

-----------------------------------------------------------------------------
(* The files cantools takes.                                               *)

(* The messages of a file, each with the signals below it, as cantools     *)
(* reads them.                                                             *)
Messages(lines) == {i \in DOMAIN lines : lines[i].kind = "BO"}
Signals(lines, i) ==
  LET end == {j \in Messages(lines) : j > i} \cup {Len(lines) + 1}
  IN  {lines[j] : j \in {k \in (i + 1)..(Min(end) - 1) : lines[k].kind = "SG"}}

(* Motorola signals go from the highest bit of a byte to the lowest and on *)
(* to the next byte: the order in which the bits of a byte count backwards.*)
Backwards(bit) == ByteBits * (bit \div ByteBits) + ByteBits - 1 - (bit % ByteBits)
BitsOf(sg) ==
  IF sg.intel THEN sg.start..(sg.start + sg.length - 1)
  ELSE LET first == Backwards(sg.start)
       IN  {Backwards(b) : b \in first..(first + sg.length - 1)}

(* A message is refused when its signals overlap.                          *)
Disjoint(sgs) == \A a, b \in sgs : a # b => BitsOf(a) \cap BitsOf(b) = {}

(* A file with a message it refuses is, and one with a signal that sticks  *)
(* out of its frame.                                                       *)
Accepted(lines) ==
  \A i \in Messages(lines) :
    /\ Disjoint(Signals(lines, i))
    /\ \A sg \in Signals(lines, i) : BitsOf(sg) \subseteq 0..(FrameBytes * ByteBits - 1)

(* api_upload_dbc() saves a file that parses as it is.                     *)
Init ==
  /\ given \in Files /\ Accepted(given)
  /\ dbc = given /\ frames = Nobody /\ loaded = FALSE

-----------------------------------------------------------------------------
(* can-reader.                                                             *)

Size(type) == CASE type \in {"UINT8", "INT8"} -> 1 [] type \in {"UINT16", "INT16"} -> 2
                [] type \in {"UINT32", "INT32"} -> 4 [] type = "DOUBLE" -> 8

(* From the length and the sign alone: FLOAT is never derived.             *)
derive_signal_type(length, signed) ==
  CASE length <= ByteBits     -> IF signed THEN "INT8" ELSE "UINT8"
    [] length > ByteBits /\ length <= 2 * ByteBits -> IF signed THEN "INT16" ELSE "UINT16"
    [] length > 2 * ByteBits /\ length <= 4 * ByteBits -> IF signed THEN "INT32" ELSE "UINT32"
    [] OTHER -> "DOUBLE"

ChannelConfig(sg) ==
  [name |-> sg.name, start_byte |-> sg.start \div ByteBits,
   type |-> derive_signal_type(sg.length, sg.signed)]

With(map, id, cfg) ==
  [i \in DOMAIN map \cup {id} |->
     IF i # id THEN map[i]
     ELSE Append(IF id \in DOMAIN map THEN map[id] ELSE <<>>, cfg)]

(* One line: a signal belongs to the message before it, unless a line that *)
(* is neither blank nor indented came between.                             *)
Line(state, line) ==
  CASE line.kind = "BO" -> [state EXCEPT !.current_id = line.id, !.in_message = TRUE]
    [] line.kind = "SG" /\ state.in_message ->
         [state EXCEPT !.map = With(@, state.current_id, ChannelConfig(line))]
    [] line.kind = "other" -> [state EXCEPT !.in_message = FALSE]
    [] OTHER -> state

load_dbc_config(lines) ==
  FoldLeft(Line, [map |-> Nobody, current_id |-> 0, in_message |-> FALSE], lines).map

(* The bytes of a little-endian number.                                    *)
Number(bytes) ==
  FoldLeft(LAMBDA n, k : n + bytes[k] * 2^(ByteBits * (k - 1)), 0,
           [k \in DOMAIN bytes |-> k])

TwosComplement(n, bits) == IF n >= 2^(bits - 1) THEN n - 2^bits ELSE n

(* memcpy() of sizeof(T) bytes.  What a DOUBLE, or a byte behind the       *)
(* payload, gives is not a number here.                                    *)
parse_value(payload, cfg) ==
  LET size == Size(cfg.type)
      raw == Number(SubSeq(payload, cfg.start_byte + 1, cfg.start_byte + size))
  IN  IF cfg.type = "DOUBLE" \/ cfg.start_byte + size > FrameBytes THEN "no number"
      ELSE IF cfg.type \in {"INT8", "INT16", "INT32"}
      THEN TwosComplement(raw, size * ByteBits) ELSE raw

-----------------------------------------------------------------------------
(* The portal.                                                             *)

signal_type_from_cantools(sg) ==
  LET width == CASE sg.length <= ByteBits -> "8"
                 [] sg.length > ByteBits /\ sg.length <= 2 * ByteBits -> "16" [] OTHER -> "32"
  IN  <<IF sg.signed THEN "int" ELSE "uint", width>>

(* Fault to set against IsSigned: "int" is looked for anywhere in the type. *)
IsSignedAnywhere(type) == type[1] \in {"int", "uint"}
IsSigned(type) == type[1] = "int"

(* parse_dbc_to_config() and config_to_dbc(): `start_byte` there is the    *)
(* start bit; the byte order is not in the portal's form, and comes back   *)
(* as little endian.                                                       *)
Resaved(sg) ==
  SG(sg.name, sg.start, sg.length, TRUE, IsSigned(signal_type_from_cantools(sg)))

(* A message has its signals in the order of their first bits, and is      *)
(* written from the last to the first.                                     *)
Written(sgs) == SetToSortSeq(sgs, LAMBDA a, b : a.start > b.start)

config_to_dbc(lines) ==
  LET order == SetToSortSeq(Messages(lines), LAMBDA a, b : a < b)
      message(i) == <<BO(lines[i].id)>> \o Written({Resaved(sg) : sg \in Signals(lines, i)})
  IN  FlattenSeq([k \in DOMAIN order |-> message(order[k]) \o <<Blank>>])

-----------------------------------------------------------------------------
(* api_update_dbc(): what was shown of the file is saved, unless cantools  *)
(* refuses a message of it.                                                *)
Edit ==
  /\ \A i \in Messages(dbc) : Disjoint({Resaved(sg) : sg \in Signals(dbc, i)})
  /\ dbc' = <<Other, Blank>> \o config_to_dbc(dbc) \o <<Other>>
  /\ loaded' = FALSE
  /\ UNCHANGED <<given, frames>>

Load ==
  /\ frames' = load_dbc_config(dbc) /\ loaded' = TRUE
  /\ UNCHANGED <<given, dbc>>

Next == Edit \/ Load

Spec == Init /\ [][Next]_vars

-----------------------------------------------------------------------------
(* What the DBC format says: bit k of an Intel signal is bit start + k of  *)
(* the payload, counted from the lowest bit of the first byte.             *)
Bit(payload, k) == (payload[k \div ByteBits + 1] \div 2^(k % ByteBits)) % 2
Meaning(payload, sg) ==
  LET n == MapThenSumSet(LAMBDA k : Bit(payload, sg.start + k) * 2^k, 0..(sg.length - 1))
  IN  IF sg.signed THEN TwosComplement(n, sg.length) ELSE n

(* The signals can-reader can decode: whole Intel bytes, 1, 2 or 4 of them. *)
PlainInteger(sg) ==
  /\ sg.intel /\ sg.start % ByteBits = 0
  /\ sg.length \in {ByteBits, 2 * ByteBits, 4 * ByteBits}
  /\ sg.start + sg.length <= FrameBytes * ByteBits

(* can-reader has every signal of the file under its own message, once,    *)
(* and reads of every frame the number the file says, as the file was      *)
(* uploaded and however often it was saved again in the portal since,      *)
(* which sorts it: the three readings of a signal, in regular expressions, *)
(* by cantools and in memcpy(), agree for the signals that fill whole bytes.*)
DecodesTheDbc ==
  loaded => \A i \in Messages(given) :
    LET sgs == Signals(given, i)  id == given[i].id
    IN  sgs # {} =>
        /\ id \in DOMAIN frames /\ Len(frames[id]) = Cardinality(sgs)
        /\ \A sg \in sgs : \E k \in DOMAIN frames[id] :
             /\ frames[id][k].name = sg.name
             /\ PlainInteger(sg) =>
                  \A p \in Payloads : parse_value(p, frames[id][k]) = Meaning(p, sg)
=============================================================================
