-------------------------- MODULE ScWebSocketUtils --------------------------
(***************************************************************************)
(* What the handshake of a WebSocket answers, and the test of UTF-8, from  *)
(*   src/src/ScNetwork/src/utils/scwebsocketutils_hp.cpp                   *)
(*                                                                         *)
(* A character of Base64 is its number in kBase64Table, or Pad. The SHA-1  *)
(* digest, sha1Digest(), takes one turn of one of its loops at a time. A   *)
(* 32-bit word is the pair of its upper and its lower 16 bits.             *)
(***************************************************************************)
EXTENDS Integers, Sequences, SequencesExt

CONSTANTS Keys, Inputs           \* keys of handshakes, and other inputs of the digest, of
                                 \* fewer than 2^13 bytes

VARIABLES input,
          offset,                \* of the block, 0 before the first
          words,                 \* of the block, as many as there are so far
          round,                 \* the next one, counted from 1
          work,                  \* a to e
          hashParts

vars == <<input, offset, words, round, work, hashParts>>

Pad == 64

\* Three bytes at a time, a missing one counting as 0.
base64Encode(data) ==
  LET byte(i) == IF i <= Len(data) THEN data[i] ELSE 0
      group(i) ==
        LET value == byte(i) * 65536 + byte(i + 1) * 256 + byte(i + 2)
        IN  << value \div 262144,
               (value \div 4096) % 64,
               IF i + 1 <= Len(data) THEN (value \div 64) % 64 ELSE Pad,
               IF i + 2 <= Len(data) THEN value % 64 ELSE Pad >>
  IN  FlattenSeq([k \in 1 .. (Len(data) + 2) \div 3 |-> group(3 * k - 2)])

\* kWebSocketGuid, and what makeWebSocketAcceptValue() digests and then encodes.
Guid == << 50,53,56,69,65,70,65,53,45, 69,57,49,52,45, 52,55,68,65,45, 57,53,67,65,45,
           67,53,65,66,48,68,67,56,53,66,49,49 >>

acceptSource(value) == value \o Guid

-----------------------------------------------------------------------------
(* The digest.                                                             *)

Half == 65536

Plus(v, w) == << (v[1] + w[1] + (v[2] + w[2]) \div Half) % Half, (v[2] + w[2]) % Half >>

\* Bit by bit: the bits that differ, and those that both words have.
Bit(n, i) == (n \div 2^i) % 2
HalfOf(bits) ==
  LET low[i \in 0 .. 16] == IF i = 0 THEN 0 ELSE low[i - 1] + bits[i] * 2^(i - 1)
  IN  low[16]
Differ(v, w) == [h \in 1 .. 2 |-> HalfOf([i \in 1 .. 16 |-> (Bit(v[h], i - 1) + Bit(w[h], i - 1)) % 2])]
Both(v, w) == [h \in 1 .. 2 |-> HalfOf([i \in 1 .. 16 |-> Bit(v[h], i - 1) * Bit(w[h], i - 1)])]
Inverted(v) == << Half - 1 - v[1], Half - 1 - v[2] >>

\* leftRotate(), by less than 32 bits.
leftRotate(v, n) ==
  LET w == IF n < 16 THEN v ELSE <<v[2], v[1]>>
      up == 2^(n % 16)
      down == 2^(16 - (n % 16))
  IN  << (w[1] % down) * up + w[2] \div down, (w[2] % down) * up + w[1] \div down >>

\* The input, a 1 bit, zeros, and the length of the input in bits.
ZerosFault(n) == IF n % 64 = 55 THEN 64 ELSE (55 - n) % 64     \* one at least
Zeros(n) == (55 - n) % 64

Padded(s) ==
  s \o <<128>> \o [i \in 1 .. Zeros(Len(s)) + 6 |-> 0]
    \o << (8 * Len(s)) \div 256, (8 * Len(s)) % 256 >>

Start == << <<26437, 8961>>, <<61389, 43913>>, <<39098, 56574>>, <<4146, 21622>>, <<50130, 57840>> >>

Init ==
  /\ input = <<>>
  /\ offset = 0
  /\ words = <<>>
  /\ round = 0
  /\ work = <<>>
  /\ hashParts = <<>>

\* The first 16 words of the block behind offset n.
FirstWords(data, n) ==
  [i \in 1 .. 16 |-> << data[n + 4 * i - 3] * 256 + data[n + 4 * i - 2],
                        data[n + 4 * i - 1] * 256 + data[n + 4 * i] >>]

Begin(s) ==
  /\ hashParts = <<>>
  /\ input' = s
  /\ hashParts' = Start
  /\ work' = Start
  /\ words' = FirstWords(Padded(s), 0)
  /\ round' = 1
  /\ offset' = 0

Expand ==
  /\ Len(words) \in 16 .. 79
  /\ words' = LET i == Len(words) + 1
              IN  Append(words, leftRotate(Differ(Differ(words[i - 3], words[i - 8]),
                                                  Differ(words[i - 14], words[i - 16])), 1))
  /\ UNCHANGED <<input, offset, round, work, hashParts>>

\* f and k of a round; k in its halves. The bits that f joins by | differ, or come
\* in three.
Mix(i, b, c, d) ==
  CASE i <= 20 -> Differ(Both(b, c), Both(Inverted(b), d))
    [] i \in 41 .. 60 -> Differ(Differ(Both(b, c), Both(b, d)), Both(c, d))
    [] OTHER -> Differ(Differ(b, c), d)

Key(i) ==
  CASE i <= 20 -> <<23170, 31129>>
    [] i \in 21 .. 40 -> <<28377, 60321>>
    [] i \in 41 .. 60 -> <<36635, 48348>>
    [] OTHER -> <<51810, 49622>>

Round ==
  /\ Len(words) = 80 /\ round <= 80
  /\ LET temp == Plus(Plus(leftRotate(work[1], 5), Mix(round, work[2], work[3], work[4])),
                      Plus(Plus(work[5], Key(round)), words[round]))
     IN  work' = << temp, work[1], leftRotate(work[2], 30), work[3], work[4] >>
  /\ round' = round + 1
  /\ UNCHANGED <<input, offset, words, hashParts>>

EndBlock ==
  /\ round = 81
  /\ LET data == Padded(input)
         sum == [i \in 1 .. 5 |-> Plus(hashParts[i], work[i])]
         last == offset + 64 >= Len(data)
     IN  /\ hashParts' = sum
         /\ offset' = offset + 64
         /\ words' = IF last THEN <<>> ELSE FirstWords(data, offset + 64)
         /\ round' = IF last THEN 0 ELSE 1
         /\ work' = IF last THEN <<>> ELSE sum
  /\ UNCHANGED input

Next ==
  (\E key \in Keys : Begin(acceptSource(key))) \/ (\E s \in Inputs : Begin(s)) \/ Expand \/ Round \/ EndBlock

Spec == Init /\ [][Next]_vars

-----------------------------------------------------------------------------

Done == hashParts # <<>> /\ round = 0

\* The bytes of the digest.
Digest ==
  FlattenSeq([i \in 1 .. 5 |-> << hashParts[i][1] \div 256, hashParts[i][1] % 256,
                                  hashParts[i][2] \div 256, hashParts[i][2] % 256 >>])

-----------------------------------------------------------------------------
(* UTF-8.                                                                  *)

\* What the leading byte says: how many bytes, and the first bits; 0 for no leader.
Width(lead) ==
  CASE lead < 128 -> 1
    [] lead \div 32 = 6 -> 2
    [] lead \div 16 = 14 -> 3
    [] lead \div 8 = 30 -> 4
    [] OTHER -> 0

LeadBits(lead) == lead % (CASE Width(lead) = 1 -> 128 [] Width(lead) = 2 -> 32
                            [] Width(lead) = 3 -> 16 [] OTHER -> 8)

LeastOf(width) == CASE width = 2 -> 128 [] width = 3 -> 2048 [] width = 4 -> 65536 [] OTHER -> 0

Surrogates == 55296 .. 57343

isValidCodePointFault(codePoint, width) ==      \* the code point is not bounded
  codePoint >= LeastOf(width) /\ codePoint \notin Surrogates
isValidCodePoint(codePoint, width) ==
  codePoint >= LeastOf(width) /\ codePoint <= 1114111 /\ codePoint \notin Surrogates

isValidUtf8(data) ==
  LET from[i \in 1 .. Len(data) + 1] ==
        IF i > Len(data) THEN TRUE
        ELSE LET width == Width(data[i])
                 next == i + width
                 add(bits, byte) == bits * 64 + (byte % 64)
             IN  /\ width # 0 /\ next <= Len(data) + 1
                 /\ \A j \in i + 1 .. next - 1 : data[j] \div 64 = 2
                 /\ isValidCodePoint(FoldLeft(add, LeadBits(data[i]), SubSeq(data, i + 1, next - 1)), width)
                 /\ from[next]
  IN  from[1]

-----------------------------------------------------------------------------
(* What is meant.                                                          *)

\* The bits of the data are those of the characters, six at a time, then zeros;
\* the characters come in fours, and the pads at the end tell the length
\* (scwebsocketutils_hp.cpp:12-31).
Base64IsRight(data) ==
  LET text == base64Encode(data)
      bit(n, i) == (n \div 2^i) % 2
  IN  /\ Len(text) = 4 * ((Len(data) + 2) \div 3)
      /\ \A i \in 1 .. Len(text) : text[i] = Pad <=> 6 * (i - 1) >= 8 * Len(data)
      /\ \A n \in 0 .. 6 * Len(text) - 1 :
           LET sextet == text[n \div 6 + 1]
               bitOfData == IF n < 8 * Len(data) THEN bit(data[n \div 8 + 1], 7 - (n % 8)) ELSE 0
           IN  sextet # Pad => bit(sextet, 5 - (n % 6)) = bitOfData

\* The well-formed sequences of bytes, as the Unicode standard lists them.
Tail1 == 128 .. 191
WellFormed(s) ==
  CASE Len(s) = 1 -> s[1] \in 0 .. 127
    [] Len(s) = 2 -> s[1] \in 194 .. 223 /\ s[2] \in Tail1
    [] Len(s) = 3 ->
         /\ s[3] \in Tail1
         /\ \/ s[1] = 224 /\ s[2] \in 160 .. 191
            \/ s[1] \in 225 .. 239 \ {237} /\ s[2] \in Tail1
            \/ s[1] = 237 /\ s[2] \in 128 .. 159
    [] Len(s) = 4 ->
         /\ s[3] \in Tail1 /\ s[4] \in Tail1
         /\ \/ s[1] = 240 /\ s[2] \in 144 .. 191
            \/ s[1] \in 241 .. 243 /\ s[2] \in Tail1
            \/ s[1] = 244 /\ s[2] \in 128 .. 143
    [] OTHER -> FALSE

\* A text is valid when it can be cut into well-formed sequences
\* (scwebsocketutils_hp.cpp:124-180).
Utf8IsRight(data) ==
  LET whole[n \in 0 .. Len(data)] ==
        n = 0 \/ \E k \in 1 .. 4 : k <= n /\ whole[n - k] /\ WellFormed(SubSeq(data, n - k + 1, n))
  IN  isValidUtf8(data) <=> whole[Len(data)]
=============================================================================
