------------------------------ MODULE Chunking ------------------------------
(***************************************************************************)
(* How a text gets from publish() of one TypeScript client to the handlers *)
(* of another: encodeChunks cuts it to the size of a frame, protocol.ts    *)
(* writes and reads the fixed fields, the server relays every frame once   *)
(* per subscription that covers it, and dispatch puts the chunks together  *)
(* again and finds the handlers.                                           *)
(*                                                                         *)
(* A text is a sequence of UTF-16 units: "a" and "e" stand for one unit of *)
(* one and of two bytes, "H" "L" for the two halves of a code point of     *)
(* four bytes, "0" for NUL and "?" for U+FFFD.                             *)
(*                                                                         *)
(* Operators whose name starts with Faulty are not part of the model: each *)
(* is a plausible slip in the definition that follows it, there to show    *)
(* that a property would notice.                                           *)
(***************************************************************************)
EXTENDS Naturals, FiniteSets, Sequences, FiniteSetsExt

CONSTANTS
  Senders,       \* clients that publish, one text each
  Texts,         \* what they publish
  Channel,       \* the name they publish on, a sequence of characters
  Keys,          \* names and patterns the receiving client may subscribe to
  MsgIds,        \* values of randomMsgId
  LenPayload,    \* LEN_PAYLOAD, in bytes
  HeaderMax,     \* HEADER_MAX_OVERHEAD, in bytes
  LenChannel,    \* LEN_CHANNEL, in bytes
  MaxMessage,    \* maxMessageBytes
  MaxChunks,     \* MAX_CHUNKS
  Ttl,           \* REASSEMBLY_TTL_MS, in ticks of the clock
  MaxTime,       \* bound: ticks of the clock
  MaxLosses      \* bound: frames that never arrive

DataBudget == LenPayload - HeaderMax

VARIABLES
  subs,        \* keys of this.subscriptions
  published,   \* published[s]: the text of s, its message id, the pieces it was cut into and
               \* what the receiver reads of each; or None
  out,         \* out[s]: frames of s on their way to the server
  relay,       \* relay[n]: frames on their way to the client, by subscribed name
  pending,     \* reassemblies in progress, by message id
  now,         \* Date.now()
  heard,       \* heard[k]: what the handler of key k was called with, in order
  first,       \* first[s]: when the first frame of s arrived, or None
  late,        \* senders one of whose frames came more than Ttl after the first
  lost         \* senders one of whose frames got lost

vars == <<subs, published, out, relay, pending, now, heard, first, late, lost>>

None == <<>>
-----------------------------------------------------------------------------
(* protocol.ts                                                             *)

Pair(s, i) == i \in 1..(Len(s) - 1) /\ s[i] = "H" /\ s[i + 1] = "L"
Half(s, i) == s[i] \in {"H", "L"} /\ ~Pair(s, i) /\ ~Pair(s, i - 1)

\* Bytes of TextEncoder.encode(s): half a code point becomes U+FFFD.
utf8ByteLength(s) ==
  LET width(i) == CASE s[i] = "e"                -> 2
                    [] Pair(s, i)                -> 4
                    [] s[i] = "L" /\ ~Half(s, i) -> 0
                    [] Half(s, i) \/ s[i] = "?"  -> 3
                    [] OTHER                     -> 1
  IN  MapThenSumSet(width, DOMAIN s)

\* The field is filled with whole code points only; half of one is U+FFFD.
writePadded(s, length) ==
  LET fits == {n \in 0..Len(s) : utf8ByteLength(SubSeq(s, 1, n)) <= length /\ ~Pair(s, n)}
  IN  [i \in 1..Max(fits) |-> IF Half(s, i) THEN "?" ELSE s[i]]

\* The padding starts at the first NUL.
readTrimmed(s) ==
  LET end == Min({i \in DOMAIN s : s[i] = "0"} \cup {Len(s) + 1})
  IN  SubSeq(s, 1, end - 1)

\* The pattern star stands for any run of characters: position <<p, c>> matches
\* when the rest of the pattern matches the rest of the candidate.
globMatch(pattern, candidate) ==
  LET n == Len(pattern)
      m == Len(candidate)
      helper[p \in 1..(n + 1), c \in 1..(m + 1)] ==
        IF p = n + 1 THEN c = m + 1
        ELSE IF pattern[p] = "*" THEN \E i \in c..(m + 1) : helper[p + 1, i]
        ELSE c <= m /\ candidate[c] = pattern[p] /\ helper[p + 1, c + 1]
  IN  helper[1, 1]

IsPattern(k) == \E i \in DOMAIN k : k[i] = "*"

\* What a name is on the wire, and to the server.
Wire(name) == readTrimmed(writePadded(name, LenChannel))

\* The name of a subscription as the server knows it covers the channel.
Covers(n) == n = Wire(Channel) \/ (IsPattern(n) /\ globMatch(n, Wire(Channel)))

Relays == {Wire(k) : k \in Keys}
Relayed == {n \in {Wire(k) : k \in subs} : Covers(n)}

-----------------------------------------------------------------------------
(* chunking.ts                                                             *)

\* The binary search of splitByByteBudget over 1..remaining.length.
LongestPrefix(text, from, budget) ==
  LET length == Len(text) - from + 1
      search[lo \in 1..(length + 1), hi \in 0..length, best \in 0..length] ==
        LET mid == (lo + hi) \div 2 IN
        IF lo > hi THEN best
        ELSE IF utf8ByteLength(SubSeq(text, from, from + mid - 1)) <= budget
               THEN search[mid + 1, hi, mid]
               ELSE search[lo, mid - 1, best]
  IN  search[1, length, 0]

splitByByteBudget(text, budget) ==
  LET pieces[from \in 1..(Len(text) + 1)] ==
        LET best == LongestPrefix(text, from, budget)
            take == IF best = 0 THEN 1 ELSE best
        IN  IF from > Len(text) THEN << >>
            ELSE <<SubSeq(text, from, from + take - 1)>> \o pieces[from + take]
  IN  pieces[1]

\* What encodeChunks refuses: too many bytes, or too many pieces.
TooBig(text) ==
  /\ utf8ByteLength(text) > LenPayload
  /\ \/ utf8ByteLength(text) > MaxMessage
     \/ Len(splitByByteBudget(text, DataBudget)) > MaxChunks

\* The payloads of a text: the text itself, or numbered pieces under one id.
encodeChunks(text, id) ==
  LET pieces == splitByByteBudget(text, DataBudget) IN
  IF utf8ByteLength(text) <= LenPayload
    THEN <<[chunk |-> FALSE, data |-> text]>>
    ELSE [i \in DOMAIN pieces |->
            [chunk |-> TRUE, msgId |-> id, index |-> i - 1, total |-> Len(pieces),
             data |-> pieces[i]]]

\* encodeFrame and decodeFrame: the payload as the other side reads it.  The
\* header of a chunk takes its bytes from the same field.
OnWire(p) ==
  [p EXCEPT !.data = readTrimmed(writePadded(@, IF p.chunk THEN DataBudget ELSE LenPayload))]

Fresh(p) == [total |-> p.total, parts |-> <<>>, firstSeenAt |-> now]

\* What is exactly Ttl old goes as well.
FaultySwept == {id \in DOMAIN pending : now - pending[id].firstSeenAt < Ttl}

\* sweepStale: what is older than Ttl goes.
Swept == {id \in DOMAIN pending : now - pending[id].firstSeenAt <= Ttl}

\* Partial functions: f with x mapped to v.
With(f, x, v) == [y \in DOMAIN f \cup {x} |-> IF y = x THEN v ELSE f[y]]

\* The entry a chunk is filed under, with the chunk in it.
Entry(p) ==
  LET entry == IF p.msgId \in Swept THEN pending[p.msgId] ELSE Fresh(p)
  IN  [entry EXCEPT !.parts = With(@, p.index, p.data)]

\* One part too few counts as complete.
FaultyComplete(entry) == Cardinality(DOMAIN entry.parts) + 1 >= entry.total

Complete(entry) == Cardinality(DOMAIN entry.parts) >= entry.total

\* The parts 0 .. total-1 in order; one that is missing is the empty string.
Assembled(entry) ==
  LET upTo[i \in 0..entry.total] ==
        IF i = 0 THEN << >>
        ELSE upTo[i - 1] \o (IF i - 1 \in DOMAIN entry.parts THEN entry.parts[i - 1] ELSE << >>)
  IN  upTo[entry.total]

\* feed: files the chunk, and forgets a reassembly that is complete.
Feed(p) ==
  LET entry == Entry(p)
      rest  == [id \in Swept \ {p.msgId} |-> pending[id]]
  IN  pending' = IF Complete(entry) THEN rest ELSE With(rest, p.msgId, entry)

-----------------------------------------------------------------------------
(* The two clients and the server between them                             *)

Init ==
  /\ subs \in SUBSET Keys
  /\ published = [s \in Senders |-> None]
  /\ out = [s \in Senders |-> << >>]
  /\ relay = [n \in Relays |-> << >>]
  /\ pending = <<>>
  /\ now = 0
  /\ heard = [k \in Keys |-> << >>]
  /\ first = [s \in Senders |-> None]
  /\ late = {}
  /\ lost = {}

\* publish of the sending client: all its frames at once, or none and an error.
Publish(s, text, id) ==
  /\ published[s] = None
  /\ ~TooBig(text)
  /\ LET payloads == encodeChunks(text, id)
         read     == [i \in DOMAIN payloads |-> OnWire(payloads[i])]
     IN  /\ published' = [published EXCEPT ![s] =
                            [text |-> text, id |-> id,
                             cut  |-> [i \in DOMAIN payloads |-> payloads[i].data],
                             read |-> [i \in DOMAIN payloads |-> read[i].data]]]
         /\ out' = [out EXCEPT ![s] = [i \in DOMAIN payloads |-> [from |-> s, payload |-> read[i]]]]
  /\ UNCHANGED <<subs, relay, pending, now, heard, first, late, lost>>

\* The server fans a frame out; frames of different senders mix (external).
Fanout(s) ==
  /\ out[s] # << >>
  /\ out' = [out EXCEPT ![s] = Tail(@)]
  /\ LET relayed == Relayed
     IN  relay' = [n \in DOMAIN relay |-> IF n \in relayed THEN Append(relay[n], Head(out[s]))
                                                            ELSE relay[n]]
  /\ UNCHANGED <<subs, published, pending, now, heard, first, late, lost>>

\* A relay that lags, or a lost connection, loses a frame (external).
Lose(n) ==
  /\ relay[n] # << >>
  /\ Cardinality(lost) < MaxLosses
  /\ relay' = [relay EXCEPT ![n] = Tail(@)]
  /\ lost' = lost \cup {Head(relay[n]).from}
  /\ UNCHANGED <<subs, published, out, pending, now, heard, first, late>>

\* The keys whose handlers dispatch calls for a frame of this channel.
HandlersOf(channelId) ==
  {k \in subs : k = channelId \/ (IsPattern(k) /\ globMatch(k, channelId))}

\* onmessage and dispatch of the head of a relay: a chunk is fed to the
\* reassembler and goes no further until its message is complete.
Dispatch(n) ==
  LET frame == Head(relay[n])
      p     == frame.payload
      s     == frame.from
      keys  == HandlersOf(Wire(Channel))
      call(text) == heard' = [k \in Keys |-> IF k \in keys THEN Append(heard[k], text) ELSE heard[k]]
  IN  /\ relay[n] # << >>
      /\ relay' = [relay EXCEPT ![n] = Tail(@)]
      /\ IF ~p.chunk
           THEN call(p.data) /\ UNCHANGED pending
           ELSE /\ Feed(p)
                /\ IF Complete(Entry(p)) THEN call(Assembled(Entry(p))) ELSE UNCHANGED heard
      /\ first' = [first EXCEPT ![s] = IF @ = None THEN <<now>> ELSE @]
      /\ late' = IF first[s] # None /\ now - first[s][1] > Ttl THEN late \cup {s} ELSE late
      /\ UNCHANGED <<subs, published, out, now, lost>>

Tick ==
  /\ now < MaxTime
  /\ now' = now + 1
  /\ UNCHANGED <<subs, published, out, relay, pending, heard, first, late, lost>>

Next ==
  \/ \E s \in Senders, text \in Texts, id \in MsgIds : Publish(s, text, id)
  \/ \E s \in Senders : Fanout(s)
  \/ \E n \in DOMAIN relay : Dispatch(n)
  \/ \E n \in DOMAIN relay : Lose(n)
  \/ Tick

Spec == Init /\ [][Next]_vars

-----------------------------------------------------------------------------
(* Properties                                                              *)

Sent == {s \in Senders : published[s] # None}

Join(pieces) ==
  Assembled([total |-> Len(pieces), parts |-> [i \in 0..(Len(pieces) - 1) |-> pieces[i + 1]]])

\* What the handlers are called with when all frames of s have come.  A NUL ends the piece
\* it stands in, and each half of a code point that was cut is U+FFFD.
Received(s) == Join(published[s].read)

\* A piece of s begins or ends inside a code point.
CodePointCut(s) ==
  \E i \in DOMAIN published[s].cut :
    \E j \in DOMAIN published[s].cut[i] : Half(published[s].cut[i], j)

\* The other senders whose pieces have the same id.
Clashing(s) ==
  {t \in Sent \ {s} : /\ published[t].id = published[s].id
                      /\ Len(published[t].read) > 1 /\ Len(published[s].read) > 1}

\* What comes of the pieces of s and of those that are filed with them: at each place one of
\* theirs or, when one of them has more pieces than s, perhaps none.
Mixtures(s) ==
  LET own    == published[s].read
      others == {published[t].read : t \in Clashing(s)}
      none   == IF \E o \in others : Len(o) > Len(own) THEN {<< >>} ELSE {}
      at(i)  == {o[i] : o \in {o \in others \cup {own} : i \in DOMAIN o}} \cup none
      upTo[i \in 0..Len(own)] ==
        IF i = 0 THEN {<< >>} ELSE {text \o piece : text \in upTo[i - 1], piece \in at(i)}
  IN  upTo[Len(own)]

\* Handlers are called with whole messages, each as its pieces read, however the chunks of
\* several senders and of several relays mix and whatever got lost or came too late; where
\* two messages were given one id, with a mixture of these two and of no other.
OnlyWholeMessages ==
  \A k \in Keys : \A i \in DOMAIN heard[k] :
    \/ \E s \in Sent : heard[k][i] = Received(s)
    \/ \E s \in Sent : Clashing(s) # {} /\ heard[k][i] \in Mixtures(s)

\* A text reads as it was written, cut into pieces or not, unless there is a NUL in it or a
\* cut goes through one of its code points.
PlainTextsSurvive ==
  \A s \in Sent :
    \/ \E i \in DOMAIN published[s].text : published[s].text[i] = "0"
    \/ CodePointCut(s)
    \/ Received(s) = published[s].text

\* Once every frame of a message has come through every relay, none of them late,
\* each handler that covers the channel has been called with it, and no oftener
\* than there are relays: the duplicates of a message neither lose nor multiply it.
HeardByEveryHandler ==
  \A s \in Sent : \A k \in subs :
    LET whole == Received(s)
        times == Cardinality({i \in DOMAIN heard[k] : heard[k][i] = whole})
    IN
    /\ Clashing(s) = {} /\ s \notin late /\ s \notin lost
    /\ \A t \in Sent \ {s} : Received(t) # whole
    /\ out[s] = << >>
    /\ \A n \in DOMAIN relay : \A i \in DOMAIN relay[n] : relay[n][i].from # s
    /\ Wire(k) = k /\ Covers(k)
    => times \in 1..Cardinality(Relayed)

\* splitByByteBudget never cuts a code point in the middle.
\* The code breaks it (README, Findings).
PiecesKeepCodePoints == \A s \in Sent : ~CodePointCut(s)

\* Only the padding is taken off a payload, as the server does (Frame.rs:221): a NUL inside
\* it stays.  The code breaks it (README, Findings).
OnlyPaddingIsTrimmed ==
  \A s \in Sent :
    LET text == published[s].text IN
    (\E i \in 1..(Len(text) - 1) : text[i] = "0" /\ text[i + 1] # "0")
      => \E i \in DOMAIN Received(s) : Received(s)[i] = "0"

\* What feed returns is a message's complete text, whatever ids randomMsgId gave.
\* The code breaks it (README, Findings).
CompleteTextsOnly ==
  \A k \in Keys : \A i \in DOMAIN heard[k] : \E s \in Sent : heard[k][i] = Received(s)
=============================================================================
