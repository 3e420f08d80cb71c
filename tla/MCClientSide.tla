---------------------------- MODULE MCClientSide ----------------------------
EXTENDS ClientSide, TLC

\* Chunking: a name and a pattern; a text of one frame with a NUL, one of two pieces with
\* a surrogate pair that stays whole, one of three with a pair that is cut and with a NUL,
\* and one of more bytes than are allowed.
MCChannel == <<"x", "y">>
MCKeys    == {<<"x", "y">>, <<"x", "*">>}
MCTexts   == {<<"a", "0", "e">>, <<"e", "e", "H", "L">>, <<"a", "H", "L", "0", "e">>,
              [i \in 1..13 |-> "a"]}

\* FrameCodec: code points of one and of two bytes, names that fit, fit exactly,
\* and have to be cut, in the middle of a code point too.
MCUtf8    == [a |-> <<97>>, e |-> <<195, 169>>, star |-> <<42>>, nul |-> <<0>>]
MCText    == {<<"a">>, <<"e">>, <<"star">>, <<"a", "e">>, <<"a", "star">>, <<"star", "a">>,
              <<"star", "star">>, <<"a", "nul">>, <<"a", "a", "e">>, <<"a", "a", "star">>}
MCTenant  == {<<26, 11>>, <<7>>}
MCPayload == {<<"a", "e">>}

\* EventDispatch: a plain handler and one that on() wrapped, a name and two patterns.
MCHandler == {"h1", "h2"}
MCWants   == [h1 |-> "any", h2 |-> "e"]
MCPattern == {"p1", "p2"}
MCEvents  == {"e", "raw"}

\* AppShell: the third version was deployed without a new CACHE_NAME.
MCCacheName == <<1, 2, 2>>

Symmetry == Permutations(Senders) \cup Permutations(MsgIds)

\* The check value of CRC-16/CCITT-FALSE.
ASSUME CrcCheckValue ==
  SdkCodec!crc16CcittFalse(<<49, 50, 51, 52, 53, 54, 55, 56, 57>>) = 10673
=============================================================================
