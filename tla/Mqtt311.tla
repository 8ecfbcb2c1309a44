-------------------------------- MODULE Mqtt311 --------------------------------
(***************************************************************************)
(* The bundled MQTT 3.1.1 client, as a codec: the packets a broker sends   *)
(* and what read_packet and read_publish make of the bytes read so far.    *)
(* Bytes are numbers below 256; a topic or a text is a sequence of them.   *)
(* Texts stand for valid UTF-8 throughout.                                 *)
(***************************************************************************)
EXTENDS Naturals, Sequences
Seqs == INSTANCE SequencesExt

CONSTANTS
  CONNACK_BUF,  \* buffers of connect, subscribe (8 and 16) and of the caller
  SUBACK_BUF,   \* of read_publish (512); they bound the body of a packet
  PKT_BUF

CONNACK  == 32    \* first byte: the packet type in the upper half
PUBLISH  == 48
SUBACK   == 144
PINGRESP == 208
Type(byte) == byte \div 16

\* write_remaining_len: seven bits a byte, lowest first, the top bit if more follow.
RemainingLength[len \in Nat] ==
  IF len < 128 THEN <<len>> ELSE <<128 + (len % 128)>> \o RemainingLength[len \div 128]

\* send_frame, with the header byte of either side.
Packet(first, variable) == <<first>> \o RemainingLength[Len(variable)] \o variable

PublishBody(topic, text) == <<Len(topic) \div 256, Len(topic) % 256>> \o topic \o text

-----------------------------------------------------------------------------
(* Reading, byte by byte: rx is what one call of read_packet has read.      *)

Pending == [tag |-> "Pending"]
Error   == [tag |-> "Error"]

More(byte) == byte >= 128

\* Bytes of the length field read so far; it takes at most four.
LengthBytes(rx) ==
  SubSeq(rx, 2, Seqs!Max({1} \cup {k \in 2 .. 5 : k <= Len(rx) /\ \A j \in 2 .. k - 1 : More(rx[j])}))

LengthValue(bytes) ==
  LET bits(k) == IF k <= Len(bytes) THEN bytes[k] % 128 ELSE 0
  IN  bits(1) + 128 * (bits(2) + 128 * (bits(3) + 128 * bits(4)))

Closed(bytes) == bytes # <<>> /\ ~More(bytes[Len(bytes)])

\* read_packet into a buffer of cap bytes.
ReadPacket(rx, cap) ==
  LET bytes == LengthBytes(rx)
      len == LengthValue(bytes)
      header == 1 + Len(bytes)
  IN  IF ~Closed(bytes) THEN IF Len(bytes) = 4 THEN Error ELSE Pending
      ELSE IF len > cap THEN Error
      ELSE IF Len(rx) < header + len THEN Pending
      ELSE [tag |-> "Packet", first |-> rx[1], body |-> SubSeq(rx, header + 1, Len(rx))]

\* connect accepts a CONNACK with return code 0, and nothing else.
Connected(p) == p.tag = "Packet" /\ Type(p.first) = 2 /\ Len(p.body) >= 2 /\ p.body[2] = 0

SubscribedByAny(p) == p.tag = "Packet"                              \* mutant
\* subscribe accepts the next SUBACK: neither its packet id nor its code is read.
Subscribed(p) == p.tag = "Packet" /\ Type(p.first) = 9

TopicWithLength(body) == SubSeq(body, 2, 2 + body[1] * 256 + body[2])   \* mutant
TopicOf(body) == SubSeq(body, 3, 2 + body[1] * 256 + body[2])
TextOf(body)  == SubSeq(body, 3 + body[1] * 256 + body[2], Len(body))

\* read_publish: a PUBLISH is taken apart, any other packet is consumed.
ReadPublish(rx, cap) ==
  LET p == ReadPacket(rx, cap)
  IN  IF p.tag # "Packet" THEN p
      ELSE IF Type(p.first) # 3 THEN [tag |-> "Ignored"]
      ELSE IF Len(p.body) < 2 \/ Len(p.body) < 2 + p.body[1] * 256 + p.body[2] THEN Error
      ELSE [tag |-> "Publish", topic |-> TopicOf(p.body), text |-> TextOf(p.body)]

\* What is written as a length is read back.
LengthsReadBack(lens) ==
  \A len \in lens : LET bytes == RemainingLength[len]
                    IN  Closed(bytes) /\ LengthBytes(<<PUBLISH>> \o bytes) = bytes /\ LengthValue(bytes) = len

=============================================================================
