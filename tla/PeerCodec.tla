------------------------------ MODULE PeerCodec ------------------------------
(***************************************************************************)
(* The wire format (peer/codec.rs): a handshake, then messages with a      *)
(* length prefix, which the session decodes from a stream that arrives in  *)
(* fragments.  The protocol string and the fields after it in the          *)
(* handshake have PROT_LEN and FIELDS_LEN bytes.  A behaviour takes the    *)
(* session from the first byte to the last, cut in any way; as one of the  *)
(* algorithms that Algorithms runs, in variables it shares with them.      *)
(***************************************************************************)
EXTENDS Integers, Sequences, Sums, AlgorithmRun

CONSTANTS
  PROT_LEN,     \* length of the protocol string (19)
  FIELDS_LEN,   \* reserved field, info hash and peer id (8 + 20 + 20)
  UNKNOWN_ID,   \* the id of a message of an extension
  PEER_FIELDS,  \* what a peer has in those fields
  Streams       \* bound: sequences of messages a peer sends after its handshake

Byte == 0 .. 255

\* Numbers that four bytes can hold.
U32 == {n \in Nat : n \div 16777216 \in Byte}

Drop(s, n) == SubSeq(s, n + 1, Len(s))

\* Four bytes, the most significant one first.
put_u32(n) == <<(n \div 16777216) % 256, (n \div 65536) % 256, (n \div 256) % 256, n % 256>>

\* The number in the four bytes behind the first `at` ones.
get_u32(buf, at) == buf[at + 4] + 256 * (buf[at + 3] + 256 * (buf[at + 2] + 256 * buf[at + 1]))

-----------------------------------------------------------------------------
(* Handshake: the protocol string's length, the string, the other fields.  *)

Handshake(fields) == [type |-> "Handshake", fields |-> fields]

encode_handshake(hs) == <<PROT_LEN>> \o [k \in 1 .. PROT_LEN |-> 255] \o hs.fields

\* decode returns nothing yet, an error, or a message and the rest.
NeedMore == [kind |-> "none"]
Failed == [kind |-> "error"]
Decoded(msg, rest) == [kind |-> "msg", msg |-> msg, rest |-> rest]

decode_handshake(buf) ==
  IF buf = <<>> THEN NeedMore
  ELSE IF buf[1] # PROT_LEN THEN Failed
  ELSE IF Len(buf) <= PROT_LEN + FIELDS_LEN THEN NeedMore
  ELSE Decoded(Handshake(SubSeq(buf, 2 + PROT_LEN, 1 + PROT_LEN + FIELDS_LEN)),
               Drop(buf, 1 + PROT_LEN + FIELDS_LEN))

-----------------------------------------------------------------------------
(* Messages.                                                               *)

MessageId == [Choke |-> 0, Unchoke |-> 1, Interested |-> 2, NotInterested |-> 3, Have |-> 4,
              Bitfield |-> 5, Request |-> 6, Block |-> 7, Cancel |-> 8]

\* How many numbers a message has after its id; bytes may follow them.
NumberCount(type) ==
  CASE type = "Have" -> 1 [] type \in {"Request", "Cancel"} -> 3 [] type = "Block" -> 2 [] OTHER -> 0

HasData(type) == type \in {"Bitfield", "Block"}

Message(type, numbers, data) == [type |-> type, numbers |-> numbers, data |-> data]
KeepAlive == Message("KeepAlive", <<>>, <<>>)

\* A message that we do not know.
Extension == Message("Extension", <<>>, <<>>)

\* The length of a message without its prefix.
MsgLen(msg) == 1 + 4 * Len(msg.numbers) + Len(msg.data)

Messages ==
  {KeepAlive, Extension} \cup
  {msg \in [type : DOMAIN MessageId, numbers : Seq(U32), data : Seq(Byte)] :
     /\ Len(msg.numbers) = NumberCount(msg.type) /\ MsgLen(msg) \in U32
     /\ ~ HasData(msg.type) => msg.data = <<>>
     /\ msg.type = "Block" => msg.data # <<>>}

ASSUME CodecAssumption ==
  /\ PROT_LEN \in Byte /\ FIELDS_LEN \in Nat /\ PEER_FIELDS \in [1 .. FIELDS_LEN -> Byte]
  /\ UNKNOWN_ID \in Byte /\ \A type \in DOMAIN MessageId : MessageId[type] # UNKNOWN_ID
  /\ \A messages \in Streams : messages \in Seq(Messages)

encode(msg) ==
  IF msg = KeepAlive THEN put_u32(0)
  ELSE put_u32(MsgLen(msg))
         \o <<IF msg = Extension THEN UNKNOWN_ID ELSE MessageId[msg.type]>>
         \o [i \in 1 .. 4 * Len(msg.numbers) |->
               put_u32(msg.numbers[((i - 1) \div 4) + 1])[((i - 1) % 4) + 1]]
         \o msg.data

\* The fields are read by the id's format; only bitfields and blocks take
\* their length from the prefix.
decode_payload(type, msg_len, buf) ==
  LET count == NumberCount(type)
      fields_len == 5 + 4 * count
      data_len == IF HasData(type) THEN msg_len - 1 - 4 * count ELSE 0
  IN Decoded(Message(type, [k \in 1 .. count |-> get_u32(buf, 5 + 4 * (k - 1))],
                     SubSeq(buf, fields_len + 1, fields_len + data_len)),
             Drop(buf, fields_len + data_len))

decode(buf) ==
  LET msg_len == get_u32(buf, 0)
      types == {type \in DOMAIN MessageId : MessageId[type] = buf[5]}
  IN IF Len(buf) < 4 \/ Len(buf) < 4 + get_u32(buf, 0) THEN NeedMore
     ELSE IF msg_len = 0 THEN Decoded(KeepAlive, Drop(buf, 4))
     ELSE IF types = {} THEN Failed
     ELSE decode_payload(CHOOSE type \in types : TRUE, msg_len, buf)

-----------------------------------------------------------------------------
(* A peer's stream: a handshake and messages, one behind the other.        *)

Sent == <<Handshake(PEER_FIELDS)>> \o input.messages

Encoded(msg) == IF msg.type = "Handshake" THEN encode_handshake(msg) ELSE encode(msg)

\* The ends of the messages in the stream.
Ends(sent) == PartialSums([k \in DOMAIN sent |-> Len(Encoded(sent[k]))])

\* A byte of the stream is one of the message around it.
Stream(sent) ==
  [i \in 1 .. Ends(sent)[Len(sent)] |->
     LET k == CHOOSE k \in DOMAIN sent : Ends(sent)[k - 1] < i /\ i <= Ends(sent)[k]
     IN Encoded(sent[k])[i - Ends(sent)[k - 1]]]

-----------------------------------------------------------------------------
(* The session's end of it.                                                *)

StreamInputs == {[algorithm |-> "stream", messages |-> messages] : messages \in Streams}

OpenStream ==
  /\ input.algorithm = "stream" /\ result = NotRun
  /\ result' = [op |-> "stream", codec |-> "HandshakeCodec", read_buf |-> <<>>, got |-> <<>>,
                wire |-> Stream(Sent)]
  /\ UNCHANGED input

\* What the codec makes of the bytes that have been read.
Polled(st) ==
  IF st.codec = "HandshakeCodec" THEN decode_handshake(st.read_buf) ELSE decode(st.read_buf)

Reading(kind) ==
  result.op = "stream" /\ result.codec # "closed" /\ Polled(result).kind = kind

\* The codec needs more: the next read returns what has arrived by then.
Arrive ==
  /\ Reading("none")
  /\ \E n \in 1 .. Len(result.wire) :
       result' = [result EXCEPT !.read_buf = @ \o SubSeq(result.wire, 1, n),
                                !.wire = Drop(@, n)]
  /\ UNCHANGED input

\* Mutant of Received: what was read behind the handshake is lost.
Received_FreshBuffer(st, out) ==
  [st EXCEPT !.codec = "PeerCodec", !.got = Append(@, out.msg),
             !.read_buf = IF st.codec = "HandshakeCodec" THEN <<>> ELSE out.rest]

\* The bytes behind the handshake go to the codec of the messages.
Received(st, out) ==
  [st EXCEPT !.codec = "PeerCodec", !.read_buf = out.rest, !.got = Append(@, out.msg)]

DecodeMessage ==
  /\ Reading("msg")
  /\ result' = Received(result, Polled(result))
  /\ UNCHANGED input

\* The session ends with the error.
DecodeFails ==
  /\ Reading("error")
  /\ result' = [result EXCEPT !.codec = "closed"]
  /\ UNCHANGED input

StreamNext == OpenStream \/ Arrive \/ DecodeMessage \/ DecodeFails

StreamSpec ==
  /\ input \in StreamInputs /\ result = NotRun
  /\ [][StreamNext]_vars

-----------------------------------------------------------------------------
(* Properties.                                                             *)

(* However the stream is cut, also when the handshake and the first        *)
(* messages come in one read, the session gets what the peer sent, in      *)
(* order and nothing else: it ends at a message that it does not know and  *)
(* at no other, and it waits for more only when it has everything.         *)
StreamReceived ==
  result.op = "stream" =>
    LET got == Len(result.got)
    IN /\ got <= Len(Sent) /\ \A k \in 1 .. got : result.got[k] = Sent[k] /\ Sent[k] # Extension
       /\ result.codec = "closed" => got < Len(Sent) /\ Sent[got + 1] = Extension
       /\ result.wire = <<>> /\ Reading("none") => got = Len(Sent)

=============================================================================
