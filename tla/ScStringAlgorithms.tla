------------------------- MODULE ScStringAlgorithms -------------------------
(***************************************************************************)
(* Comparison, search and trimming of strings, from                        *)
(*   src/src/ScUtils/src/text/scstringalgorithms.cpp                       *)
(*   src/src/ScUtils/include/scutils/text/scstringalgorithms_p.h           *)
(*   src/src/ScUtils/src/text/scstring.cpp, ScString::remove               *)
(* and their use in a header field's list of tokens, from                  *)
(*   src/src/ScNetwork/src/socket/scwebsocketserver_hp.cpp                 *)
(* and arithmetic that notices an overflow, the order of bytes, and digits, *)
(* from                                                                    *)
(*   src/src/ScUtils/include/scutils/utils/scnumeric.h                     *)
(*   src/src/ScUtils/include/scutils/utils/scendian.h                      *)
(*   src/src/ScUtils/src/text/sclocaleutils.cpp                            *)
(*   src/src/ScNetwork/src/utils/scipaddress.cpp                           *)
(*                                                                         *)
(* A string is a sequence of the codes of its characters, none of them 0.  *)
(* A position counts from 0.  A size_t is a number below SizeCount, and    *)
(* npos the largest. scnumeric.h has its functions for compilers without   *)
(* the builtins. The product of two 64-bit numbers is left out:            *)
(* mul_overflow() drops what mul_overflow_generic() returns, and that is   *)
(* wrong for a positive and a negative factor.                             *)
(***************************************************************************)
EXTENDS Integers, Sequences, FiniteSetsExt

CONSTANTS SizeCount,
          Bits,          \* of a number
          ByteBits,      \* of a byte
          Bytes          \* of a number, for the order of bytes

npos == SizeCount - 1

At(s, i) == s[i + 1]

\* What two strings are compared by: sc_latin1_lowercased, or the characters.
Letters == 65 .. 90 \cup 192 .. 214 \cup 216 .. 222
Lowercased == [c \in 0 .. 255 |-> IF c \in Letters THEN c + 32 ELSE c]
Unchanged == [c \in 0 .. 255 |-> c]
Folding(cs) == IF cs THEN Unchanged ELSE Lowercased

sclencmp(m, n) == IF m = n THEN 0 ELSE IF m > n THEN 1 ELSE -1

\* strncmp() gives some number of the right sign, here the difference.
compareStrings(lhs, rhs, cs) ==
  LET f == Folding(cs)
      differ == {i \in 0 .. Min({Len(lhs), Len(rhs)}) - 1 : f[At(lhs, i)] # f[At(rhs, i)]}
  IN  IF lhs = <<>> \/ rhs = <<>> \/ differ = {} THEN sclencmp(Len(lhs), Len(rhs))
      ELSE f[At(lhs, Min(differ))] - f[At(rhs, Min(differ))]

\* How far to go on where the last character was right and another was not: to
\* where the needle has its last character again.
SkipFault(needle, f) == Len(needle)
Skip(needle, f) ==
  LET size == Len(needle)
  IN  Min({k \in 1 .. size - 1 : f[At(needle, size - 1 - k)] = f[At(needle, size - 1)]}
          \cup {size})

\* The scan from position pos on, for a needle that is not empty.
Scan(haystack, needle, pos, f) ==
  LET size == Len(needle)
      end == Len(haystack) - size + 1
      from[i \in 0 .. Len(haystack) + size] ==
        IF i >= end THEN npos
        ELSE IF f[At(haystack, i + size - 1)] # f[At(needle, size - 1)] THEN from[i + 1]
        ELSE IF \A j \in 0 .. size - 1 : f[At(haystack, i + j)] = f[At(needle, j)] THEN i
        ELSE from[i + Skip(needle, f)]
  IN  from[pos]

\* The sum wraps when from is npos.
indexOf(haystack, from, needle, cs) ==
  LET last == (from + Len(needle)) % SizeCount
  IN  IF last > Len(haystack) \/ last < from THEN npos
      ELSE IF needle = <<>> THEN from
      ELSE Scan(haystack, needle, from, Folding(cs))

Piece(s, pos, size) == SubSeq(s, pos + 1, pos + size)

lastIndexOf(haystack, from, needle, cs) ==
  IF Len(needle) > Len(haystack) \/ needle = <<>> \/ haystack = <<>> THEN npos
  ELSE LET hits == {i \in 0 .. Min({from, Len(haystack) - Len(needle)}) :
                      compareStrings(Piece(haystack, i, Len(needle)), needle, cs) = 0}
       IN  IF hits = {} THEN npos ELSE Max(hits)

startsWith(haystack, needle, cs) ==
  IF haystack = <<>> THEN needle = <<>>
  ELSE /\ needle # <<>> /\ Len(needle) <= Len(haystack)
       /\ compareStrings(Piece(haystack, 0, Len(needle)), needle, cs) = 0

endsWith(haystack, needle, cs) ==
  IF haystack = <<>> THEN needle = <<>>
  ELSE /\ needle # <<>> /\ Len(needle) <= Len(haystack)
       /\ compareStrings(Piece(haystack, Len(haystack) - Len(needle), Len(needle)), needle, cs) = 0

isspace(c) == c \in 9 .. 13 \cup {32}

\* From the end first, then from the begin.
trimmed(s) ==
  LET end == Max({i \in 1 .. Len(s) : ~isspace(s[i])} \cup {0})
      begin == Min({i \in 1 .. end : ~isspace(s[i])} \cup {end + 1})
  IN  SubSeq(s, begin, end)

mid(s, pos, size) == Piece(s, pos, Min({Len(s) - pos, size}))

\* remove(), of a string that shares its buffer with none.
remove(s, at, size) ==
  LET pos == IF at = npos THEN Len(s) - 1 ELSE at
  IN  IF pos > Len(s) THEN s
      ELSE IF size >= Len(s) - pos THEN SubSeq(s, 1, pos)
      ELSE SubSeq(s, 1, pos) \o SubSeq(s, pos + size + 1, Len(s))

Comma == 44

\* isHeaderContainsToken(): the pieces between commas, one after the other.
HeaderContainsToken(value, token) ==
  LET from[start \in 0 .. Len(value) + 1] ==
        IF start > Len(value) THEN FALSE
        ELSE LET end == indexOf(value, start, <<Comma>>, TRUE)
                 piece == trimmed(mid(value, start, IF end = npos THEN npos ELSE end - start))
             IN  \/ compareStrings(token, piece, FALSE) = 0
                 \/ end # npos /\ from[end + 1]
  IN  from[0]

-----------------------------------------------------------------------------
(* Numbers.                                                                *)

Unsigned == 0 .. 2^Bits - 1
Signed == -(2^(Bits - 1)) .. 2^(Bits - 1) - 1

\* What the hardware keeps of a number: the low bits, without and with a sign.
AsUnsigned(n) == n % 2^Bits
AsSigned(n) == ((n + 2^(Bits - 1)) % 2^Bits) - 2^(Bits - 1)

\* Every function gives the result and whether it overflowed.
Result(r, overflow) == [r |-> r, overflow |-> overflow]

add_overflow_unsigned(v1, v2) ==
  LET r == AsUnsigned(v1 + v2) IN Result(r, v1 > r)

\* ((v1 ^ r) & (v2 ^ r)) < 0: the sign of r is that of neither.
Negative(n) == n < 0
add_overflow_signed(v1, v2) ==
  LET r == AsSigned(AsUnsigned(v1) + AsUnsigned(v2))
  IN  Result(r, Negative(v1) # Negative(r) /\ Negative(v2) # Negative(r))

sub_overflow_unsigned(v1, v2) == Result(AsUnsigned(v1 - v2), v1 < v2)

\* ((v1 ^ r) & (~v2 ^ r)) < 0.
sub_overflow_signedFault(v1, v2) ==             \* v2 for ~v2
  LET r == AsSigned(AsUnsigned(v1) - AsUnsigned(v2))
  IN  Result(r, Negative(v1) # Negative(r) /\ Negative(v2) # Negative(r))
sub_overflow_signed(v1, v2) ==
  LET r == AsSigned(AsUnsigned(v1) - AsUnsigned(v2))
  IN  Result(r, Negative(v1) # Negative(r) /\ Negative(-v2 - 1) # Negative(r))

\* In a type twice as wide.
mul_overflow_unsigned(v1, v2) == Result(AsUnsigned(v1 * v2), v1 * v2 \notin Unsigned)
mul_overflow_signed(v1, v2) == Result(AsSigned(v1 * v2), v1 * v2 \notin Signed)

muladd_overflow_unsigned(v1, v2, v3) ==
  LET product == mul_overflow_unsigned(v1, v2)
  IN  IF product.overflow THEN product ELSE add_overflow_unsigned(product.r, v3)

\* One term for each byte: what the mask keeps, shifted to the other end.
endianSwap(n) ==
  LET base == 2^ByteBits
      term(k) == ((n \div base^k) % base) * base^(Bytes - 1 - k)
  IN  MapThenSumSet(term, 0 .. Bytes - 1)

\* ulltoa(), the digits of a number other than 0 in a base, from the last on.
ulltoa(l, base) ==
  LET digits[n \in 0 .. l] ==
        IF n = 0 THEN <<>> ELSE Append(digits[n \div base], n % base)
  IN  digits[l]

\* ScIPAddressUtils::number(), of the low byte.
number(n) == IF n % 256 = 0 THEN <<0>> ELSE ulltoa(n % 256, 10)

\* toString() of an IPv4 address, which is given by its upper and its lower half:
\* the four numbers between the points.
toString(upper, lower) == <<number(upper \div 256), number(upper), number(lower \div 256), number(lower)>>

-----------------------------------------------------------------------------
(* What is meant.                                                          *)

Same(s, t, cs) ==
  Len(s) = Len(t) /\ \A i \in 1 .. Len(s) : Folding(cs)[s[i]] = Folding(cs)[t[i]]

Places(haystack, needle, cs) ==
  {i \in 0 .. Len(haystack) - Len(needle) : Same(Piece(haystack, i, Len(needle)), needle, cs)}

FirstOf(S) == IF S = {} THEN npos ELSE Min(S)
LastOf(S) == IF S = {} THEN npos ELSE Max(S)

Sign(n) == sclencmp(n, 0)

\* The searches find the first place and the last, wherever they start; comparison
\* is an order that agrees with equality; the ends and the pieces of a string are
\* those (scstringalgorithms.cpp:49-230).
SearchIsRight(s, t) ==
  \A cs \in BOOLEAN :
    /\ \A from \in 0 .. npos :
         /\ indexOf(s, from, t, cs) = FirstOf({i \in Places(s, t, cs) : i >= from})
         /\ t # <<>> => lastIndexOf(s, from, t, cs) = LastOf({i \in Places(s, t, cs) : i <= from})
    /\ compareStrings(s, t, cs) = 0 <=> Same(s, t, cs)
    /\ Sign(compareStrings(s, t, cs)) = - Sign(compareStrings(t, s, cs))
    /\ startsWith(s, t, cs) <=> 0 \in Places(s, t, cs) /\ (t = <<>> => s = <<>>)
    /\ endsWith(s, t, cs) <=> Len(s) - Len(t) \in Places(s, t, cs) /\ (t = <<>> => s = <<>>)

\* What trimming drops is white, what it keeps neither begins nor ends white; and
\* removal and mid() part a string (scstringalgorithms_p.h:18-25, scstring.cpp:82-109).
PiecesAreRight(s) ==
  /\ \E i, j \in 0 .. Len(s) :
       /\ s = Piece(s, 0, i) \o trimmed(s) \o Piece(s, j, Len(s) - j)
       /\ \A k \in 1 .. i : isspace(s[k])
       /\ \A k \in j + 1 .. Len(s) : isspace(s[k])
  /\ trimmed(s) # <<>> => ~isspace(trimmed(s)[1]) /\ ~isspace(trimmed(s)[Len(trimmed(s))])
  /\ \A pos \in 0 .. Len(s), size \in 0 .. npos :
       LET rest == remove(s, pos, size)
       IN  s = Piece(rest, 0, pos) \o mid(s, pos, size) \o Piece(rest, pos, Len(rest) - pos)

\* A field has a token when that stands alone between its commas
\* (scwebsocketserver_hp.cpp:265-286).
TokenIsRight(value, token) ==
  HeaderContainsToken(value, token) <=>
    \E i \in 0 .. Len(value), j \in 0 .. Len(value) :
      /\ i <= j
      /\ i = 0 \/ value[i] = Comma
      /\ j = Len(value) \/ value[j + 1] = Comma
      /\ \A k \in i + 1 .. j : value[k] # Comma
      /\ Same(trimmed(Piece(value, i, j - i)), token, FALSE)

Exact(result, n, type) ==
  /\ result.overflow <=> n \notin type
  /\ ~result.overflow => result.r = n

\* An overflow is seen, and only an overflow (scnumeric.h:33-85, 151-157).
OverflowIsSeen(v1, v2) ==
  LET u1 == AsUnsigned(v1)
      u2 == AsUnsigned(v2)
  IN  /\ Exact(add_overflow_unsigned(u1, u2), u1 + u2, Unsigned)
      /\ Exact(sub_overflow_unsigned(u1, u2), u1 - u2, Unsigned)
      /\ Exact(mul_overflow_unsigned(u1, u2), u1 * u2, Unsigned)
      /\ Exact(add_overflow_signed(v1, v2), v1 + v2, Signed)
      /\ Exact(sub_overflow_signed(v1, v2), v1 - v2, Signed)
      /\ Exact(mul_overflow_signed(v1, v2), v1 * v2, Signed)
      /\ \A u3 \in Unsigned : Exact(muladd_overflow_unsigned(u1, u2, u3), u1 * u2 + u3, Unsigned)

Value(digits, base) ==
  LET upTo[n \in 0 .. Len(digits)] ==
        IF n = 0 THEN 0 ELSE upTo[n - 1] * base + digits[n]
  IN  upTo[Len(digits)]

\* Swapping twice changes nothing, and once reverses the bytes; digits have the
\* value of the number and do not begin with 0 (scendian.h:41-66,
\* sclocaleutils.cpp:7-41, scipaddress.cpp:8-20).
BytesAreRight(n) ==
  /\ endianSwap(endianSwap(n)) = n
  /\ \A k \in 0 .. Bytes - 1 :
       (endianSwap(n) \div 2^(ByteBits * k)) % 2^ByteBits
         = (n \div 2^(ByteBits * (Bytes - 1 - k))) % 2^ByteBits
  /\ \A base \in {2, 10, 16} :
       n # 0 => Value(ulltoa(n, base), base) = n /\ ulltoa(n, base)[1] # 0
  /\ \A i \in 1 .. 4 :
       LET parts == toString(n % 65536, n % 65536)
       IN  /\ Value(parts[i], 10) = IF i \in {1, 3} THEN (n \div 256) % 256 ELSE n % 256
           /\ Len(parts[i]) > 1 => parts[i][1] # 0
=============================================================================
