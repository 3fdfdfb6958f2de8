------------------------------- MODULE Codecs -------------------------------
(***************************************************************************)
(* The encodings the protocols write and read again: percent-encoding of   *)
(* URLs, components and forms (UrlEncode.cc, Form.cc), Base64, the         *)
(* integers and string lengths of HPACK, and the payload length of a       *)
(* WebSocket frame.  A case is a codec and an input; it is encoded, then   *)
(* decoded.                                                                *)
(*                                                                         *)
(* Text is a sequence of byte values.  A Base64 digit is its value, 0..63, *)
(* with 64 for "=": kEncTable and kDecTable are inverse to each other.  Of *)
(* an HPACK string the model keeps its length and the length of its        *)
(* Huffman code.                                                           *)
(***************************************************************************)
EXTENDS Integers, Sequences, SequencesExt

CONSTANTS Texts,    \* texts that are encoded
          Numbers,  \* integers and lengths that are encoded
          Strings   \* [n, huff]: length of an HPACK string, and of its Huffman code

VARIABLES case,     \* the codec and the input
          wire,     \* what the encoder made of it
          back      \* what the decoder made of that

vars == <<case, wire, back>>

-----------------------------------------------------------------------------
\* Percent-encoding

Plus == 43
Percent == 37
Space == 32
Slash == 47

IsUnreserved(c) == c \in (65..90) \union (97..122) \union (48..57) \union {45, 95, 46, 126}

Hex(n) == IF n < 10 THEN 48 + n ELSE 55 + n

HexVal(c) == IF c \in 48..57 THEN c - 48
             ELSE IF c \in 65..70 THEN c - 55
             ELSE IF c \in 97..102 THEN c - 87 ELSE -1

PercentEncode(c) == <<Percent, Hex(c \div 16), Hex(c % 16)>>

UrlEncode(s) ==
    FlattenSeq([i \in DOMAIN s |-> IF IsUnreserved(s[i]) \/ s[i] = Slash THEN <<s[i]>> ELSE PercentEncode(s[i])])

UrlEncodeComponent(s) ==
    FlattenSeq([i \in DOMAIN s |-> IF IsUnreserved(s[i]) THEN <<s[i]>> ELSE PercentEncode(s[i])])

FormEncode(s) ==
    FlattenSeq([i \in DOMAIN s |-> IF IsUnreserved(s[i]) THEN <<s[i]>>
                                   ELSE IF s[i] = Space THEN <<Plus>> ELSE PercentEncode(s[i])])

\* Whether a triplet starts at position i of s
\* Bug: the last triplet of the text is not looked at.
Triplet_Short(s, i) == i + 3 <= Len(s) /\ HexVal(s[i + 1]) >= 0 /\ HexVal(s[i + 2]) >= 0
Triplet(s, i)       == i + 2 <= Len(s) /\ HexVal(s[i + 1]) >= 0 /\ HexVal(s[i + 2]) >= 0

\* An encoded slash stays encoded where skipSlash is set.
Decoded(v, skipSlash) == IF skipSlash /\ v = Slash THEN PercentEncode(v) ELSE <<v>>

DecodeImpl(s, decodePlus, skipSlash) ==
    LET from[i \in Nat] ==
            IF i > Len(s) THEN <<>>
            ELSE IF decodePlus /\ s[i] = Plus THEN <<Space>> \o from[i + 1]
            ELSE IF s[i] = Percent /\ Triplet(s, i)
                 THEN Decoded(HexVal(s[i + 1]) * 16 + HexVal(s[i + 2]), skipSlash) \o from[i + 3]
            ELSE <<s[i]>> \o from[i + 1]
    IN  from[1]

UrlDecode(s)          == DecodeImpl(s, FALSE, TRUE)
UrlDecodeComponent(s) == DecodeImpl(s, TRUE, FALSE)
FormDecode(s)         == DecodeImpl(s, TRUE, FALSE)

-----------------------------------------------------------------------------
\* Base64

Pad == 64

\* The digits of up to three bytes
Digits(b) ==
    CASE Len(b) = 1 -> <<b[1] \div 4, (b[1] % 4) * 16, Pad, Pad>>
      [] Len(b) = 2 -> <<b[1] \div 4, (b[1] % 4) * 16 + b[2] \div 16, (b[2] % 16) * 4, Pad>>
      [] OTHER      -> <<b[1] \div 4, (b[1] % 4) * 16 + b[2] \div 16, (b[2] % 16) * 4 + b[3] \div 64, b[3] % 64>>

Groups(s, n) ==
    [k \in 1..((Len(s) + n - 1) \div n) |-> SubSeq(s, n * (k - 1) + 1, IF n * k < Len(s) THEN n * k ELSE Len(s))]

Base64Encode(s) == FlattenSeq([k \in DOMAIN Groups(s, 3) |-> Digits(Groups(s, 3)[k])])

\* The bytes of four digits
Undigits(d) ==
    <<d[1] * 4 + d[2] \div 16>>
    \o (IF d[3] = Pad THEN <<>> ELSE <<(d[2] % 16) * 16 + d[3] \div 4>>)
    \o (IF d[4] = Pad THEN <<>> ELSE <<(d[3] % 4) * 64 + d[4]>>)

Padded(s) == IF Len(s) % 4 = 0 THEN s ELSE s \o [i \in 1..(4 - (Len(s) % 4)) |-> Pad]

Base64Decode(s) ==
    LET p == Padded(s) IN FlattenSeq([k \in DOMAIN Groups(p, 4) |-> Undigits(Groups(p, 4)[k])])

\* The decoder accepts Base64 without its padding.
Unpadded(s) == SelectSeq(s, LAMBDA d : d # Pad)

-----------------------------------------------------------------------------
\* HPACK integers with a prefix of n bits, as the values of the prefix and of the bytes behind it

\* Bug: a value that fills the prefix is written without the bytes behind it.
FitsPrefix_Full(v, max) == v <= max
FitsPrefix(v, max)      == v < max

EncodeInt(v, n) ==
    LET max == 2^n - 1
        tail[x \in Nat] == IF x >= 128 THEN <<(x % 128) + 128>> \o tail[x \div 128] ELSE <<x>>
    IN  IF FitsPrefix(v, max) THEN <<v>> ELSE <<max>> \o tail[v - max]

\* decodeInt() from position i: the value and the position behind it
DecodeInt(w, i, n) ==
    LET max == 2^n - 1
        more[k \in Nat] == IF k > Len(w) THEN [v |-> 0, pos |-> k]
                           ELSE IF w[k] < 128 THEN [v |-> w[k], pos |-> k + 1]
                           ELSE [v |-> w[k] - 128 + 128 * more[k + 1].v, pos |-> more[k + 1].pos]
    IN  IF w[i] < max THEN [v |-> w[i], pos |-> i + 1]
        ELSE [v |-> max + more[i + 1].v, pos |-> more[i + 1].pos]

\* A string: the Huffman code if it is shorter, the length with its flag, then the bytes (-1 each)
EncodeStr(s) ==
    LET n == IF s.huff < s.n THEN s.huff ELSE s.n
    IN  [flag |-> s.huff < s.n, bytes |-> EncodeInt(n, 7) \o [i \in 1..n |-> -1]]

\* decodeStr(): the length, and whether the string ends where its bytes do
DecodeStr(w) ==
    LET len == DecodeInt(w.bytes, 1, 7)
    IN  [n |-> len.v, flag |-> w.flag, exact |-> len.pos + len.v = Len(w.bytes) + 1]

-----------------------------------------------------------------------------
\* The length of a WebSocket frame, in 7 bits, 16 bits or 64 bits

BigEndian(n, bytes) == [i \in 1..bytes |-> IF bytes - i > 3 THEN 0 ELSE (n \div 256^(bytes - i)) % 256]
Number(bytes)       == FoldLeft(LAMBDA n, b : n * 256 + b, 0, bytes)

FrameLength(n) ==
    IF n < 126 THEN <<n>>
    ELSE IF n < 65536 THEN <<126>> \o BigEndian(n, 2)
    ELSE <<127>> \o BigEndian(n, 8)

ReadLength(w) ==
    IF w[1] = 126 THEN IF Len(w) < 3 THEN -1 ELSE Number(SubSeq(w, 2, 3))
    ELSE IF w[1] = 127 THEN Number(SubSeq(w, 2, 9)) ELSE w[1]

-----------------------------------------------------------------------------
TextCodecs   == {"url", "component", "form", "base64", "unpadded"}
NumberCodecs == {"int4", "int5", "int6", "int7", "frame"}

Init ==
    /\ case \in [codec : TextCodecs, in : Texts]
                \union [codec : NumberCodecs, in : Numbers]
                \union [codec : {"str"}, in : Strings]
    /\ wire = <<>> /\ back = <<>>

Prefix == [int4 |-> 4, int5 |-> 5, int6 |-> 6, int7 |-> 7]

Encode ==
    /\ wire = <<>>
    /\ wire' = <<CASE case.codec = "url"       -> UrlEncode(case.in)
                   [] case.codec = "component" -> UrlEncodeComponent(case.in)
                   [] case.codec = "form"      -> FormEncode(case.in)
                   [] case.codec = "base64"    -> Base64Encode(case.in)
                   [] case.codec = "unpadded"  -> Unpadded(Base64Encode(case.in))
                   [] case.codec = "frame"     -> FrameLength(case.in)
                   [] case.codec = "str"       -> EncodeStr(case.in)
                   [] OTHER                    -> EncodeInt(case.in, Prefix[case.codec])>>
    /\ UNCHANGED <<case, back>>

Decode ==
    /\ wire # <<>> /\ back = <<>>
    /\ LET w == wire[1]
       IN  back' = <<CASE case.codec = "url"       -> UrlDecode(w)
                       [] case.codec = "component" -> UrlDecodeComponent(w)
                       [] case.codec = "form"      -> FormDecode(w)
                       [] case.codec \in {"base64", "unpadded"} -> Base64Decode(w)
                       [] case.codec = "frame"     -> ReadLength(w)
                       [] case.codec = "str"       -> DecodeStr(w)
                       [] OTHER                    -> DecodeInt(w, 1, Prefix[case.codec]).v>>
    /\ UNCHANGED <<case, wire>>

Next == Encode \/ Decode

Spec == Init /\ [][Next]_vars

-----------------------------------------------------------------------------
\* urlDecode(), urlDecodeComponent(), formDecode() and base64Decode() give back the text their
\* encoder was given, whatever bytes it has and wherever a triplet or a group ends.
TextRoundTrip ==
    back # <<>> /\ case.codec \in TextCodecs => back = <<case.in>>

\* An HPACK integer, the length of an HPACK string and the length of a WebSocket frame are read as
\* they were written, at the values where the encoding gets longer; a string ends where its bytes do.
LengthRoundTrip ==
    /\ back # <<>> /\ case.codec \in NumberCodecs => back = <<case.in>>
    /\ back # <<>> /\ case.codec = "str" =>
           back = <<[n |-> IF case.in.huff < case.in.n THEN case.in.huff ELSE case.in.n,
                     flag |-> case.in.huff < case.in.n, exact |-> TRUE]>>
=============================================================================
