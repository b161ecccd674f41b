--------------------------- MODULE BepDataParser ---------------------------
(***************************************************************************)
(* The incremental parser of one connection (src/core/bep_data_parser.rs)  *)
(* between a peer that frames its messages as serialize_hello and          *)
(* serialize_message of main.rs do and the reader task of main.rs. What    *)
(* the peer sends is fixed when the connection starts: a read may return   *)
(* any part of the rest, so it makes no difference when the bytes were     *)
(* sent. The connection may break at any byte. One action is one pass of   *)
(* the loop of parse_incoming_data.                                        *)
(***************************************************************************)
EXTENDS Integers, Sequences, SequencesExt

CONSTANTS
    HelloMessage,  \* the Hello messages of the peer
    Message,       \* the messages it sends afterwards
    OtherMagic,    \* four bytes that a peer of another protocol starts with
    MaxMessages    \* bound on the messages of the connection

(* serialize_hello and serialize_message convert lengths to u16 and u32,   *)
(* and unwrap: the process ends on a length that does not fit.             *)
FitsU16(n) == n < 65536
FitsU32(n) == n \div 65536 < 65536

\* A compressed body follows its size and one token.
ASSUME MessageAssumption ==
    /\ HelloMessage \subseteq [type : {8}, lz4 : {FALSE}, body : Seq(0 .. 255)]
    /\ Message \subseteq [type : 0 .. 7, lz4 : BOOLEAN, body : Seq(0 .. 255)]
    /\ \A m \in HelloMessage : FitsU16(Len(m.body))
    /\ \A m \in Message : FitsU32(Len(m.body) + 5)
    /\ OtherMagic \in Seq(0 .. 255) /\ Len(OtherMagic) = 4
    /\ MaxMessages \in Nat

MAGIC_NUMBER == <<46, 167, 217, 11>>
HELLO_LEN_START == 4
HELLO_START == 6
HEADER_START == 2

NoMessage == [data |-> <<>>, header |-> "none"]

VARIABLES
    magic,             \* the first four bytes the peer sends
    sent,              \* the messages of the peer
    wire,              \* bytes not yet read
    reader,            \* the reader task: running, ended or failed (panic)
    buf,               \* the bytes of the current read not yet processed
    bep_auth_status,
    incoming_message,  \* NoMessage, or the data and header so far
    res,               \* messages completed by the current call
    delivered          \* messages of the calls that returned

connection == <<magic, sent>>
parser == <<reader, buf, bep_auth_status, incoming_message, res, delivered>>
vars == <<connection, wire, parser>>

-----------------------------------------------------------------------------
to_be_bytes(n, width) ==
    SubSeq(<<n \div 16777216, (n \div 65536) % 256, (n \div 256) % 256, n % 256>>,
           5 - width, 4)
from_be_bytes(b) ==
    IF Len(b) = 2 THEN 256 * b[1] + b[2]
    ELSE 256 * (256 * (256 * b[1] + b[2]) + b[3]) + b[4]
Upto(s, n) == SubSeq(s, 1, n)
From(s, n) == SubSeq(s, n + 1, Len(s))
Lower(a, b) == IF a < b THEN a ELSE b

(* Protocol buffers: a field with its default value is left out, so the    *)
(* header of an uncompressed ClusterConfig (type 0) has no bytes at all.   *)
EncodeHeader(m) == (IF m.type = 0 THEN <<>> ELSE <<8, m.type>>)
                     \o (IF m.lz4 THEN <<16, 1>> ELSE <<>>)
DecodeHeader(bytes) ==
    [type |-> IF bytes # <<>> /\ bytes[1] = 8 THEN bytes[2] ELSE 0,
     lz4 |-> Len(bytes) >= 2 /\ Upto(Reverse(bytes), 2) = <<1, 16>>]

(* An LZ4 block of literals only, which is all that a short body needs.    *)
Compress(bytes) == <<16 * Len(bytes)>> \o bytes
Decompress(block, size) == SubSeq(block, 2, size + 1)

Payload(m) == IF m.lz4 THEN to_be_bytes(Len(m.body), 4) \o Compress(m.body) ELSE m.body

serialize_hello(m) == magic \o to_be_bytes(Len(m.body), 2) \o m.body
serialize_message(m) ==
    to_be_bytes(Len(EncodeHeader(m)), 2) \o EncodeHeader(m)
      \o to_be_bytes(Len(Payload(m)), 4) \o Payload(m)
Frame(m) == IF m \in HelloMessage THEN serialize_hello(m) ELSE serialize_message(m)

-----------------------------------------------------------------------------
(* The lengths found in the data of an incoming message.                   *)
PreHello == bep_auth_status = "PreHello"
header_byte_len(im) == from_be_bytes(Upto(im.data, HEADER_START))
message_start_pos(im) == HEADER_START + header_byte_len(im) + 4
start_pos(im) == IF PreHello THEN HELLO_START ELSE message_start_pos(im)

\* Mutant: the length is known only once a byte of the body is there.
LengthKnownPast(im) ==
    IF PreHello THEN Len(im.data) > HELLO_START
    ELSE im.header # "none" /\ Len(im.data) > message_start_pos(im)
LengthKnown(im) ==
    IF PreHello THEN Len(im.data) >= HELLO_START
    ELSE im.header # "none" /\ Len(im.data) >= message_start_pos(im)
message_byte_len(im) ==
    IF PreHello THEN from_be_bytes(SubSeq(im.data, HELLO_LEN_START + 1, HELLO_START))
    ELSE from_be_bytes(SubSeq(im.data, message_start_pos(im) - 3, message_start_pos(im)))
missing_header_bytes(im) == HEADER_START + header_byte_len(im) - Len(im.data)
missing_message_bytes(im) == message_byte_len(im) + start_pos(im) - Len(im.data)

Complete(im) == LengthKnown(im) /\ missing_message_bytes(im) = 0

(* try_parse_header, which add_data calls until the header is there.       *)
try_parse_header(data) ==
    IF Len(data) >= HEADER_START
         /\ Len(data) >= HEADER_START + from_be_bytes(Upto(data, HEADER_START))
    THEN "parsed" ELSE "none"
add_data(im, bytes) ==
    [data |-> im.data \o bytes,
     header |-> IF PreHello \/ im.header # "none" THEN im.header
                ELSE try_parse_header(im.data \o bytes)]

\* Mutant: only the presence of the four bytes is tested.
starts_with_any_number(data) == Len(data) >= HELLO_LEN_START
starts_with_magic_number(data) == Upto(data, HELLO_LEN_START) = MAGIC_NUMBER

decode_hello(im) == [type |-> 8, lz4 |-> FALSE, body |-> From(im.data, HELLO_START)]
decode_post_hello_message(im) ==
    LET header == DecodeHeader(SubSeq(im.data, HEADER_START + 1,
                                      HEADER_START + header_byte_len(im)))
        raw == From(im.data, message_start_pos(im))
        size == from_be_bytes(Upto(raw, 4))
    IN [type |-> header.type, lz4 |-> header.lz4,
        body |-> IF header.lz4 THEN Decompress(From(raw, 4), size) ELSE raw]
decode(im) == IF PreHello THEN decode_hello(im) ELSE decode_post_hello_message(im)

-----------------------------------------------------------------------------
(* reader.read(), which gives any part of what has arrived.                *)
Read ==
    /\ reader = "running" /\ buf = <<>>
    /\ \E n \in 1 .. Len(wire) : buf' = Upto(wire, n) /\ wire' = From(wire, n)
    /\ UNCHANGED <<connection, reader, bep_auth_status, incoming_message, res, delivered>>

(* A read of no bytes or an error: the stream has ended, and what is left  *)
(* on the wire never arrives.                                              *)
EndOfStream ==
    /\ reader = "running" /\ buf = <<>>
    /\ reader' = "ended"
    /\ UNCHANGED <<connection, wire, buf, bep_auth_status, incoming_message, res, delivered>>

(* How many bytes one pass takes.                                          *)
\* Mutant: <= for <, so that a pass may take nothing.
populate_hello_past(im) ==
    IF im = NoMessage THEN Lower(Len(buf), HELLO_START)
    ELSE IF Len(im.data) <= HELLO_START THEN Lower(Len(buf), HELLO_START - Len(im.data))
    ELSE Lower(Len(buf), missing_message_bytes(im))
populate_hello(im) ==
    IF im = NoMessage THEN Lower(Len(buf), HELLO_START)
    ELSE IF Len(im.data) < HELLO_START THEN Lower(Len(buf), HELLO_START - Len(im.data))
    ELSE Lower(Len(buf), missing_message_bytes(im))
populate_header(im) ==
    IF im = NoMessage THEN Lower(Len(buf), HEADER_START)
    ELSE IF Len(im.data) < HEADER_START THEN 1
    ELSE Lower(Len(buf), missing_header_bytes(im))
\* Mutant: the whole read is added to the message.
populate_message_all(im) == Len(buf)
populate_message(im) ==
    IF LengthKnown(im) THEN Lower(missing_message_bytes(im), Len(buf))
    ELSE Lower(message_start_pos(im) - Len(im.data), Len(buf))

\* Mutant: the messages completed before in the same call are dropped.
PushedAlone(im) == IF Complete(im) THEN <<decode(im)>> ELSE res
Pushed(im) == IF Complete(im) THEN Append(res, decode(im)) ELSE res

(* The rest of a pass that took k bytes. The messages of a call reach the  *)
(* processor when the read is used up; an error drops them, and the unwrap *)
(* of the reader ends it.                                                  *)
Advance(k) ==
    LET im == add_data(incoming_message, Upto(buf, k))
        rest == From(buf, k)
    IN IF Complete(im) /\ PreHello /\ ~starts_with_magic_number(im.data)
       THEN /\ reader' = "failed" /\ buf' = <<>> /\ res' = <<>>
            /\ bep_auth_status' = "PostHello" /\ incoming_message' = im
            /\ UNCHANGED <<connection, wire, delivered>>
       ELSE /\ buf' = rest
            /\ bep_auth_status' = IF Complete(im) THEN "PostHello" ELSE bep_auth_status
            /\ incoming_message' = IF Complete(im) THEN NoMessage ELSE im
            /\ res' = IF rest = <<>> THEN <<>> ELSE Pushed(im)
            /\ delivered' = IF rest = <<>> THEN delivered \o Pushed(im) ELSE delivered
            /\ UNCHANGED <<connection, wire, reader>>

ParseHello == PreHello /\ buf # <<>> /\ Advance(populate_hello(incoming_message))
ParseHeader ==
    /\ ~PreHello /\ buf # <<>> /\ incoming_message.header = "none"
    /\ Advance(populate_header(incoming_message))
ParseMessage ==
    /\ ~PreHello /\ buf # <<>> /\ incoming_message.header # "none"
    /\ Advance(populate_message(incoming_message))

Parse == ParseHello \/ ParseHeader \/ ParseMessage

Init ==
    /\ magic \in {MAGIC_NUMBER, OtherMagic}
    /\ \E n \in 0 .. MaxMessages - 1, hello \in HelloMessage, ms \in [1 .. MaxMessages - 1 -> Message] :
          sent = <<hello>> \o Upto(ms, n)
    /\ wire = FlattenSeq([i \in DOMAIN sent |-> Frame(sent[i])])
    /\ reader = "running" /\ buf = <<>> /\ bep_auth_status = "PreHello"
    /\ incoming_message = NoMessage /\ res = <<>> /\ delivered = <<>>

Next == Read \/ EndOfStream \/ Parse

(* The reader task is scheduled: it reads what is there and its loop runs. *)
Spec == Init /\ [][Next]_vars /\ WF_vars(Read) /\ WF_vars(Parse)

-----------------------------------------------------------------------------
(* The messages parsed so far, and those of the peer not yet parsed.       *)
Parsed == delivered \o res
Unparsed == From(sent, Len(Parsed))

(* However the stream is cut into reads, parse_incoming_data gives the     *)
(* peer's messages, each once, with its content, in the order sent.        *)
InOrder == IsPrefix(Parsed, sent)

(* No message waits for bytes that come after it: when a read is used up,  *)
(* every message whose last byte was read has been handed over, and what   *)
(* the parser keeps is a proper beginning of the next one.                 *)
NothingWaiting ==
    reader # "failed" /\ buf = <<>> =>
      \/ Unparsed = <<>> /\ incoming_message = NoMessage
      \/ /\ Unparsed # <<>>
         /\ Len(incoming_message.data) < Len(Frame(Head(Unparsed)))
         /\ IsPrefix(incoming_message.data, Frame(Head(Unparsed)))

(* The unsigned subtractions of missing_header_bytes, missing_message_bytes*)
(* and populate_message do not underflow, and the assertions of the        *)
(* populate functions hold, at every pass over whatever cut.               *)
PopulateAssertsHold ==
    reader = "running" /\ incoming_message # NoMessage =>
      /\ Len(incoming_message.data) >= 1
      /\ ~PreHello /\ Len(incoming_message.data) >= HEADER_START
           /\ incoming_message.header = "none"
         => missing_header_bytes(incoming_message) > 0
      /\ ~PreHello /\ incoming_message.header # "none" /\ ~LengthKnown(incoming_message)
         => message_start_pos(incoming_message) > Len(incoming_message.data)
      /\ LengthKnown(incoming_message) => missing_message_bytes(incoming_message) > 0

(* Nothing of a peer that does not begin with the magic number reaches the *)
(* processor, not even the messages that came with the same read.          *)
MagicFirst == Parsed # <<>> => magic = MAGIC_NUMBER

(* Every message is handed over in the end, unless the connection breaks   *)
(* or the peer does not speak the protocol: the loop does not spin, and no *)
(* message stays in the parser.                                            *)
AllDelivered ==
    <>(delivered = sent \/ reader = "ended" \/ magic # MAGIC_NUMBER)
=============================================================================
