----------------------------- MODULE FrameCodec -----------------------------
(***************************************************************************)
(* The binary frame as the JavaScript clients write and read it, and what  *)
(* becomes of a channel's name on its way from publish() on one client to  *)
(* the handlers of another.  A text is a sequence of code points, each with *)
(* its UTF-8 bytes; fields are shorter than in the code, and the layout,    *)
(* the padding, the truncation and the CRC are the code's.  protocol.ts     *)
(* writes a field with encodeInto, the other clients with a cut and a step  *)
(* back; the server's relay is external.                                    *)
(*                                                                          *)
(* Operators whose name starts with Faulty are not part of the model: each  *)
(* is a plausible slip in the definition that follows it.                   *)
(***************************************************************************)
EXTENDS Naturals, Sequences, SequencesExt

CONSTANTS
  Utf8,          \* Utf8[p]: the bytes of code point p
  Star,          \* the code point '*'
  Nul,           \* the code point U+0000
  LEN_TENANT, LEN_CHANNEL, LEN_PAYLOAD,
  Tenant,        \* tenant ids as the application writes them: digits, 0..15, 16 more when upper case
  Text,          \* channel names and patterns
  Payload,       \* payloads, already cut into pieces that fit
  Writer         \* "encodeInto" or "stepBack"

VARIABLES
  key,           \* what the receiver has subscribed to
  sent,          \* the fields of the frame on its way, or None
  buf,           \* its bytes
  damaged,       \* some bytes are not the ones that were written
  result         \* what the receiver made of the last frame

vars == <<key, sent, buf, damaged, result>>

CodePoint == DOMAIN Utf8
None      == [opcode |-> 0, tenantId |-> << >>, channelId |-> << >>, payload |-> << >>]
Idle      == [kind |-> "none", calls |-> 0, channelId |-> << >>, tenantId |-> << >>, payload |-> << >>]
Opcode    == 1..9
Publish   == 2

-----------------------------------------------------------------------------
(* Fields                                                                   *)

encode(text) == FlattenSeq([i \in 1..Len(text) |-> Utf8[text[i]]])

Padded(bytes, n) == bytes \o [i \in 1..(n - Len(bytes)) |-> 0]

\* TextEncoder.encodeInto: whole code points, as long as there is room.
encodeInto(text, n) ==
  LET fits == {i \in 0..Len(text) : Len(encode(SubSeq(text, 1, i))) <= n}
  IN  encode(SubSeq(text, 1, CHOOSE i \in fits : \A j \in fits : j <= i))

\* The two highest bits of the byte are 10.
Continuation(b) == b \div 64 = 2

\* The bytes are cut where the field ends.
FaultyStepBack(text, n) ==
  LET bytes == encode(text) IN SubSeq(bytes, 1, IF Len(bytes) < n THEN Len(bytes) ELSE n)

\* The bytes are cut where the field ends, and further back while the first byte
\* that is left out continues a code point.
StepBack(text, n) ==
  LET bytes == encode(text)
      cut   == IF Len(bytes) < n THEN Len(bytes) ELSE n
      clean == {i \in 0..cut : i = 0 \/ i = Len(bytes) \/ ~Continuation(bytes[i + 1])}
  IN  SubSeq(bytes, 1, CHOOSE i \in clean : \A j \in clean : j <= i)

writePadded(text, n) == Padded(IF Writer = "encodeInto" THEN encodeInto(text, n) ELSE StepBack(text, n), n)

\* TextDecoder: the text with these bytes; a byte that is part of none is U+FFFD.
decode(bytes) ==
  LET f[i \in 1..(Len(bytes) + 1)] ==
        IF i > Len(bytes) THEN << >>
        ELSE LET here == {p \in CodePoint : IsPrefix(Utf8[p], SubSeq(bytes, i, Len(bytes)))}
             IN  IF here = {} THEN <<"U+FFFD">> \o f[i + 1]
                 ELSE LET p == CHOOSE q \in here : TRUE IN <<p>> \o f[i + Len(Utf8[p])]
  IN  f[1]

\* Up to the first NUL.
readTrimmed(bytes) ==
  LET nuls == {i \in 1..Len(bytes) : bytes[i] = 0}
      end  == IF nuls = {} THEN Len(bytes) ELSE (CHOOSE i \in nuls : \A j \in nuls : i <= j) - 1
  IN  decode(SubSeq(bytes, 1, end))

-----------------------------------------------------------------------------
(* Tenant ids, CRC, frames                                                  *)

Value(digit) == digit % 16
IsUuid(uuid) == Len(uuid) = 2 * LEN_TENANT /\ \A i \in DOMAIN uuid : uuid[i] \in (0..15) \cup (26..31)

uuidToBytes(uuid) == [i \in 1..LEN_TENANT |-> 16 * Value(uuid[2 * i - 1]) + Value(uuid[2 * i])]

\* Always in lower case.
bytesToUuid(bytes) ==
  [i \in 1..(2 * LEN_TENANT) |->
     LET b == bytes[(i + 1) \div 2] IN IF i % 2 = 1 THEN b \div 16 ELSE b % 16]

\* a ^ b, bit by bit, for numbers of at most 17 bits.
Xor(a, b) ==
  LET sum[k \in 0..17] ==
        IF k = 0 THEN 0
        ELSE 2^(k - 1) * ((a \div 2^(k - 1) + b \div 2^(k - 1)) % 2) + sum[k - 1]
  IN  sum[17]

\* CRC16/CCITT-FALSE (polynomial 0x1021, initially 0xFFFF); reg[k] is the register after k bits.
crc16CcittFalse(data) ==
  LET reg[k \in 0..(8 * Len(data))] ==
        IF k = 0 THEN 65535
        ELSE LET crc == IF k % 8 = 1 THEN Xor(reg[k - 1], 256 * data[k \div 8 + 1]) ELSE reg[k - 1]
             IN  IF crc >= 32768 THEN Xor(2 * crc, 4129) % 65536 ELSE 2 * crc
  IN  reg[8 * Len(data)]

OFF_TENANT  == 3
OFF_CHANNEL == OFF_TENANT + LEN_TENANT
OFF_PAYLOAD == OFF_CHANNEL + LEN_CHANNEL
OFF_CRC     == OFF_PAYLOAD + LEN_PAYLOAD
FRAME_SIZE  == OFF_CRC + 2

Section(bytes, off, len) == SubSeq(bytes, off + 1, off + len)
Uint16(bytes, off)       == 256 * bytes[off + 1] + bytes[off + 2]
Bytes16(n)               == <<n \div 256, n % 256>>

MAGIC == 43521

encodeFrame(fields) ==
  LET head == Bytes16(MAGIC) \o <<fields.opcode>> \o uuidToBytes(fields.tenantId)
                \o writePadded(fields.channelId, LEN_CHANNEL) \o writePadded(fields.payload, LEN_PAYLOAD)
  IN  head \o Bytes16(crc16CcittFalse(head))

Malformed(bytes) ==
  \/ Len(bytes) # FRAME_SIZE
  \/ Uint16(bytes, 0) # MAGIC
  \/ bytes[3] \notin Opcode
  \/ Uint16(bytes, OFF_CRC) # crc16CcittFalse(Section(bytes, 0, OFF_CRC))

\* The fields of a frame that is not malformed.
decodeFrame(bytes) ==
  [opcode    |-> bytes[3],
   tenantId  |-> bytesToUuid(Section(bytes, OFF_TENANT, LEN_TENANT)),
   channelId |-> readTrimmed(Section(bytes, OFF_CHANNEL, LEN_CHANNEL)),
   payload   |-> readTrimmed(Section(bytes, OFF_PAYLOAD, LEN_PAYLOAD))]

\* A star stands for one code unit or more.
FaultyGlobMatch(pattern, candidate) ==
  LET helper[i \in 0..Len(pattern), j \in 0..Len(candidate)] ==
        IF i = Len(pattern) THEN j = Len(candidate)
        ELSE IF pattern[i + 1] = Star THEN \E k \in (j + 1)..Len(candidate) : helper[i + 1, k]
        ELSE j < Len(candidate) /\ candidate[j + 1] = pattern[i + 1] /\ helper[i + 1, j + 1]
  IN  helper[0, 0]

\* helper(p, c), with i and j code units of pattern and candidate already consumed.
globMatch(pattern, candidate) ==
  LET helper[i \in 0..Len(pattern), j \in 0..Len(candidate)] ==
        IF i = Len(pattern) THEN j = Len(candidate)
        ELSE IF pattern[i + 1] = Star THEN \E k \in j..Len(candidate) : helper[i + 1, k]
        ELSE j < Len(candidate) /\ candidate[j + 1] = pattern[i + 1] /\ helper[i + 1, j + 1]
  IN  helper[0, 0]

IsPattern(text) == \E i \in DOMAIN text : text[i] = Star

-----------------------------------------------------------------------------
(* From one client to another                                               *)

Init ==
  /\ key \in Text
  /\ sent = None /\ buf = << >> /\ damaged = FALSE /\ result = Idle

\* publish() of some client: a frame, or a ProtocolError when the tenant id is none.
Send(tenantId, channelId, payload) ==
  /\ sent = None
  /\ IF IsUuid(tenantId)
     THEN LET fields == [opcode |-> Publish, tenantId |-> tenantId, channelId |-> channelId, payload |-> payload]
          IN  sent' = fields /\ buf' = encodeFrame(fields) /\ result' = Idle
     ELSE result' = [Idle EXCEPT !.kind = "thrown"] /\ UNCHANGED <<sent, buf>>
  /\ UNCHANGED <<key, damaged>>

\* Bytes are lost or changed on the way (external): a frame of another length, a
\* byte that is inverted.
Damage ==
  /\ sent # None /\ ~damaged
  /\ damaged' = TRUE
  /\ \/ buf' = Tail(buf)
     \/ \E i \in DOMAIN buf : buf' = [buf EXCEPT ![i] = 255 - buf[i]]
  /\ UNCHANGED <<key, sent, result>>

\* The server subscribed the receiver under the name its SUB frame carried, and
\* hands on what is published under the name that this frame carries (external).
Relayed ==
  LET subscribed == readTrimmed(writePadded(key, LEN_CHANNEL))
      published  == readTrimmed(Section(buf, OFF_CHANNEL, LEN_CHANNEL))
  IN  subscribed = published \/ (IsPattern(subscribed) /\ globMatch(subscribed, published))

\* onmessage: a malformed frame is an 'error' event; dispatch calls the handlers
\* that are registered under the frame's name, then those under a pattern.
Receive ==
  /\ sent # None /\ (damaged \/ Relayed)
  /\ result' = IF Malformed(buf) THEN [Idle EXCEPT !.kind = "error"]
               ELSE LET frame == decodeFrame(buf)
                        exact == IF frame.channelId = key THEN 1 ELSE 0
                        glob  == IF IsPattern(key) /\ globMatch(key, frame.channelId) THEN 1 ELSE 0
                    IN  [kind |-> "message", calls |-> exact + glob, channelId |-> frame.channelId,
                         tenantId |-> frame.tenantId, payload |-> frame.payload]
  /\ sent' = None /\ buf' = << >> /\ damaged' = FALSE
  /\ UNCHANGED key

\* The server has no reason to hand the frame to this receiver.
NotRelayed ==
  /\ sent # None /\ ~damaged /\ ~Relayed
  /\ result' = [Idle EXCEPT !.kind = "elsewhere"]
  /\ sent' = None /\ buf' = << >>
  /\ UNCHANGED <<key, damaged>>

Next ==
  \/ \E t \in Tenant, c \in Text, p \in Payload : Send(t, c, p)
  \/ Damage \/ Receive \/ NotRelayed

Spec == Init /\ [][Next]_vars

-----------------------------------------------------------------------------
(* Properties                                                               *)

\* What a pattern means: its code units can be laid along the candidate, each on
\* one equal to it, and a star on any stretch.
Covers(pattern, candidate) ==
  \E cut \in [0..Len(pattern) -> 0..Len(candidate)] :
    /\ cut[0] = 0 /\ cut[Len(pattern)] = Len(candidate)
    /\ \A i \in 1..Len(pattern) :
         IF pattern[i] = Star THEN cut[i] >= cut[i - 1]
         ELSE cut[i] = cut[i - 1] + 1 /\ candidate[cut[i]] = pattern[i]

Fits(text) == Len(encode(text)) <= LEN_CHANNEL /\ Nul \notin Range(text)

\* A subscriber hears a publication exactly when its name or pattern covers the
\* channel, whatever the relay, the decoding and the second matching in dispatch()
\* do in between.  Stated of names that fit the field: publish() and subscribe() cut
\* longer ones without a word.  A frame that was damaged on the way is heard by nobody.
HeardWhenCoveredStep ==
  sent # None /\ sent' = None /\ Fits(key) /\ Fits(sent.channelId)
     => LET covered == key = sent.channelId \/ (IsPattern(key) /\ Covers(key, sent.channelId))
        IN  IF covered /\ ~damaged THEN result'.calls > 0 /\ result'.channelId = sent.channelId
            ELSE result'.calls = 0

\* HeardWhenCoveredStep of every step.
HeardWhenCovered == [][HeardWhenCoveredStep]_vars

\* Every client puts the same bytes on the wire for the same name (mio-protocol.js:
\* "Must stay bit-for-bit identical"), so that a publication and a subscription made
\* with different clients meet even when both were cut; and no code point is torn.
SameBytesEverywhere ==
  sent # None =>
    /\ encodeInto(sent.channelId, LEN_CHANNEL) = StepBack(sent.channelId, LEN_CHANNEL)
    /\ ~damaged => "U+FFFD" \notin Range(decode(Section(buf, OFF_CHANNEL, LEN_CHANNEL)))
=============================================================================
