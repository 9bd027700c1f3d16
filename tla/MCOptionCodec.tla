---------------------------- MODULE MCOptionCodec ----------------------------
(* Instances of OptionCodec: areas put together from whole, cut and        *)
(* meaningless options, then zeros; and every area that starts with a few  *)
(* bytes of a small alphabet.                                              *)
EXTENDS OptionCodec

Zeros(n) == [i \in 1..n |-> 0]
Pad(s) == IF Len(s) >= AreaSize THEN SubSeq(s, 1, AreaSize) ELSE s \o Zeros(AreaSize - Len(s))

Chunks ==
    { <<>>, <<0>>, <<END>>, <<12, END>>, <<12, 1, END>>, <<12, 17, 7>>,
      <<53, 1, 1>>, <<53, 1, 3>>, <<53, 1, 8>>, <<53, 0>>,
      <<55, 0>>, <<55, 2, 3, 1>>, <<55, 3, 1, 6, 3>>, <<55, 3, 1, 1, 1>> }
Chunked == {Pad(a \o b \o c \o d) : a, b, c \in Chunks, d \in {<<>>, <<END>>}}

Alphabet == {0, 1, 20, 53, END}
AnyStart == {Pad(s) : s \in [1..5 -> Alphabet]}

AllAreas == Chunked \union AnyStart
=============================================================================
