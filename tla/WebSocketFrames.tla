-------------------------- MODULE WebSocketFrames --------------------------
(***************************************************************************)
(* The frame codec of network/websocket.cpp and WebSocket::feed, which     *)
(* turns a stream of bytes, cut anywhere, into messages. A byte is a       *)
(* natural below Byte. The sizes of the wire format are scaled down by the *)
(* constants: lengths below Short are written in the header byte, lengths  *)
(* of two bytes have the mark Short and others, of Wide bytes, Short + 1.  *)
(***************************************************************************)
EXTENDS Naturals, Sequences, SequencesExt

CONSTANTS Byte,   \* 256
          Short,  \* 126
          Wide    \* 8

ASSUME SizesFit == Byte \in Nat /\ Short \in Nat /\ Wide \in Nat /\ Byte > 1 /\ Wide > 2

Masked == Short + 2 \* the high bit, added to the length

Control == {"close", "ping", "pong"}

RECURSIVE BigEndian(_, _), Decoded(_, _)

\* The w bytes of n.
BigEndian(n, w) == IF w = 0 THEN <<>> ELSE Append(BigEndian(n \div Byte, w - 1), n % Byte)
Decoded(bytes, n) == IF bytes = <<>> THEN n ELSE Decoded(Tail(bytes), n * Byte + Head(bytes))

\* Bytes of a payload are 0 or 1 here: xor is the sum modulo 2.
Mask(data, mask) == [i \in 1..Len(data) |-> (data[i] + mask[((i - 1) % 4) + 1]) % 2]

\* ws_encode_frame; mask is empty when there is none.
EncodeFrame(type, data, fin, mask) ==
  LET len == Len(data)
      bit == IF mask = <<>> THEN 0 ELSE Masked
  IN  <<[fin |-> fin, type |-> type]>>
      \o (CASE len < Short -> <<bit + len>>
            [] len >= Short /\ len < Byte * Byte -> <<bit + Short>> \o BigEndian(len, 2)
            [] OTHER -> <<bit + Short + 1>> \o BigEndian(len, Wide))
      \o (IF mask = <<>> THEN data ELSE mask \o Mask(data, mask))

NeedMore == [ok |-> FALSE]

\* ws_decode_frame: the first frame of buf, if all of it has come.
DecodeFrame(buf) ==
  IF Len(buf) < 2 THEN NeedMore
  ELSE LET masked == buf[2] >= Masked
           mark   == buf[2] % Masked
           first  == IF mark = Short THEN 5 ELSE IF mark = Short + 1 THEN Wide + 3 ELSE 3
           data   == IF masked THEN first + 4 ELSE first
       IN  IF Len(buf) < data - 1 THEN NeedMore
           ELSE LET len     == IF mark < Short THEN mark ELSE Decoded(SubSeq(buf, 3, first - 1), 0)
                    payload == SubSeq(buf, data, data - 1 + len)
                IN  IF Len(buf) < data - 1 + len THEN NeedMore
                    ELSE [ok |-> TRUE, fin |-> buf[1].fin, type |-> buf[1].type, consumed |-> data - 1 + len,
                          payload |-> IF masked THEN Mask(payload, SubSeq(buf, first, first + 3)) ELSE payload]

(***************************************************************************)
(* A receiver: the bytes not yet decoded and the message whose fragments   *)
(* are being put together.                                                 *)
(***************************************************************************)
NewReceiver == [rx |-> <<>>, type |-> "", data |-> <<>>, fragmenting |-> FALSE]

Message(type, payload) == [type |-> type, payload |-> payload]

\* A control frame ends the message it comes in the middle of.
TakeAlone(r, f) ==                                                 \* mutant
  LET data == IF f.type = "continuation" THEN r.data \o f.payload ELSE f.payload
      type == IF f.type = "continuation" THEN r.type ELSE f.type
      rest == SubSeq(r.rx, f.consumed + 1, Len(r.rx))
  IN  IF f.fin THEN [r |-> [NewReceiver EXCEPT !.rx = rest], out |-> <<Message(type, data)>>]
      ELSE [r |-> [rx |-> rest, type |-> type, data |-> data, fragmenting |-> TRUE], out |-> <<>>]

\* One frame: the receiver and the messages that are complete.
Take(r, f) ==
  LET data == IF f.type = "continuation" THEN r.data \o f.payload ELSE f.payload
      type == IF f.type = "continuation" THEN r.type ELSE f.type
      open == f.type # "continuation" \/ r.fragmenting
      rest == SubSeq(r.rx, f.consumed + 1, Len(r.rx))
  IN  IF f.type \in Control THEN [r |-> [r EXCEPT !.rx = rest], out |-> <<Message(f.type, f.payload)>>]
      ELSE IF f.fin /\ open THEN [r |-> [NewReceiver EXCEPT !.rx = rest, !.type = type], out |-> <<Message(type, data)>>]
      ELSE [r |-> [rx |-> rest, type |-> type, data |-> data, fragmenting |-> open], out |-> <<>>]

RECURSIVE Drain(_, _)
Drain(r, out) ==
  LET f == DecodeFrame(r.rx)
  IN  IF ~f.ok THEN [r |-> r, out |-> out] ELSE LET t == Take(r, f) IN Drain(t.r, out \o t.out)

Feed(r, bytes) == Drain([r EXCEPT !.rx = @ \o bytes], <<>>)

\* text_frame, binary_frame, ping_frame, pong_frame and close_frame.
WholeFrame(type, payload, mask) == EncodeFrame(type, payload, TRUE, mask)
CloseFrame(code, reason, mask) == EncodeFrame("close", BigEndian(code, 2) \o reason, TRUE, mask)
=============================================================================
