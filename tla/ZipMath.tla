------------------------------- MODULE ZipMath -------------------------------
(* The arithmetic that the board's programs and the host's tools do by hand, each
   against what it stands for: the long division of sw/zlib/udiv.c and umod.c, the
   checksum of sw/board/ipcksum.c (its assembly against its C) and of
   sw/host/manping.cpp, the product of sw/board/exmulti.c, the numbers that
   sw/board/txfns.c prints, and the order of octets of byteswap.cpp.

   A word has MW bits, a long two words: 32 and 64 in the code, so that the tests
   of sw/host/divutb.c reach a few of the 2^128 divisions.  With fewer bits and the
   same code all of them are reached.  The record `zx` has the first operand and,
   once computed, the result for every second one.                           *)
EXTENDS Integers, Sequences, SequencesExt

CONSTANTS MLg                       \* the logarithm of the bits of a word: 5

ASSUME ZipMathAssumption == MLg \in Nat \ {0}

VARIABLE zx

MW == 2 ^ MLg
Longs == 0 .. 2 ^ (2 * MW) - 1
Lo(x) == x % 2 ^ MW
Hi(x) == x \div 2 ^ MW
Long(x) == x % 2 ^ (2 * MW)
Signed(x, bits) == IF x >= 2 ^ (bits - 1) THEN x - 2 ^ bits ELSE x
Signeds == {Signed(x, 2 * MW) : x \in Longs}

-----------------------------------------------------------------------------
(* udiv.c                                                                    *)
zip_bitrev(a) ==
    FoldLeft(LAMBDA s, i : [r |-> 2 * s.r + (s.b % 2), b |-> s.b \div 2], [r |-> 0, b |-> a],
             [i \in 1 .. MW |-> i]).r

cltzBug(v) == IF Hi(v) = 0 THEN MW ELSE 0
cltz(v) ==
    LET top   == IF Hi(v) = 0 THEN [cnt |-> MW, hv |-> zip_bitrev(Lo(v))]
                              ELSE [cnt |-> 0, hv |-> zip_bitrev(Hi(v))]
        steps == [k \in 1 .. MLg |-> 2 ^ (MLg - k)]
    IN  FoldLeft(LAMBDA s, n : IF s.hv % 2 ^ n = 0
                               THEN [cnt |-> s.cnt + n, hv |-> s.hv \div 2 ^ n] ELSE s,
                 top, steps).cnt

(* The division by shift and subtract: m is the bit of the quotient, halved until
   nothing of it is left.                                                    *)
ShiftSubtract(a, b, n) ==
    FoldLeft(LAMBDA s, m : [r |-> IF s.a >= s.b THEN s.r + m ELSE s.r,
                            a |-> IF s.a >= s.b THEN s.a - s.b ELSE s.a,
                            b |-> s.b \div 2],
             [r |-> 0, a |-> a, b |-> b], [k \in 1 .. n + 1 |-> 2 ^ (n + 1 - k)]).r
udivdi3(a, b) ==
    LET la == cltz(a)
        lb == cltz(b)
        sa == Long(a * 2 ^ la)
        db == Long(b * 2 ^ la)
    IN  IF a < b THEN 0
        ELSE IF Hi(b) = 0 /\ Hi(a) = 0 THEN a \div b
        ELSE IF lb - la < MW /\ Lo(db) = 0 THEN Hi(sa) \div Hi(db)
        ELSE ShiftSubtract(sa, Long(b * 2 ^ lb), lb - la)

Magnitude(x) == Long(IF x < 0 THEN -x ELSE x)
divdi3(a, b) ==
    LET r == udivdi3(Magnitude(a), Magnitude(b))
    IN  Signed(Long(IF (a < 0) # (b < 0) THEN -r ELSE r), 2 * MW)
umoddi3(a, b) == Long(a - Long(udivdi3(a, b) * b))

-----------------------------------------------------------------------------
(* ipcksum.c: a word with its two halves, as many bits as a long here.  The
   assembly adds whole words, the carry at the other end, and folds at last.   *)
AddCarryBug(r, w) == Long(r + w)
AddCarry(r, w) == IF r + w >= 2 ^ (2 * MW) THEN Long(r + w) + 1 ELSE r + w
ipcksum(ws) ==
    LET r    == FoldLeft(AddCarry, 0, ws)
        both == Lo(r) + Hi(r)
    IN  2 ^ MW - 1 - Lo(IF Hi(both) # 0 THEN both + 1 ELSE both)

(* The C that it replaces: the halves are added up, and folded until they fit.  *)
HalvesSum(ws) == FoldLeft(LAMBDA c, w : c + Lo(w) + Hi(w), 0, ws)
FoldOnce(c) == Lo(c) + Hi(c)
ipcksumC(ws) == 2 ^ MW - 1 - FoldOnce(FoldOnce(HalvesSum(ws)))

(* manping.cpp's own, which puts it into the packet (its third word here) and adds
   the packet up again.                                                       *)
FoldTwice(c) == FoldOnce(FoldOnce(c))
Verified(ws) == 2 ^ MW - 1 - FoldTwice(HalvesSum(ws))
ipchecksum(ws) ==
    LET cleared == [ws EXCEPT ![3] = Hi(@) * 2 ^ MW]
    IN  [cleared EXCEPT ![3] = @ + (2 ^ MW - 1 - Lo(FoldTwice(HalvesSum(cleared))))]

(* exmulti.c's upper half of a product, from the products of the halves; here of
   words of two halves of MW bits.                                            *)
mpyuhi(a, b) ==
    LET rhi == Long(Hi(a) * Lo(b) + Lo(a) * Hi(b) + Hi(Lo(a) * Lo(b)))
    IN  Long(Hi(rhi) + Hi(a) * Hi(b))

-----------------------------------------------------------------------------
(* txfns.c: the digits sent, of a number of as many bits as a long here.  -val of the most negative number is itself, and then
   no digit is.                                                              *)
Digits(u, base) ==
    LET n == CHOOSE n \in 1 .. 2 * MW + 1 : u < base ^ n /\ (n = 1 \/ u >= base ^ (n - 1))
    IN  [i \in 1 .. n |-> (u \div base ^ (n - i)) % base]
txdecimal(val) ==
    LET uval == Signed(Magnitude(val), 2 * MW)
    IN  [sign |-> IF val < 0 THEN "-" ELSE " ",
         digits |-> IF uval < 0 THEN <<>> ELSE Digits(uval, 10)]
txhex(val) == [i \in 1 .. MW \div 2 |-> (val \div 16 ^ (MW \div 2 - i)) % 16]

(* byteswap.cpp: four octets to as many bits as a long here.                                  *)
Octet4 == 2 ^ (MW \div 2)
byteswap(v) ==
    FoldLeft(LAMBDA s, i : [r |-> s.r * Octet4 + (s.v % Octet4), v |-> s.v \div Octet4],
             [r |-> 0, v |-> v], <<1, 2, 3, 4>>).r
buildwordBug(p) == FoldLeft(LAMBDA r, o : r * Octet4 + o, 0, Reverse(p))
buildword(p) == FoldLeft(LAMBDA r, o : r * Octet4 + o, 0, p)
buildswap(p) == FoldLeft(LAMBDA r, o : r * Octet4 + o, 0, <<p[4], p[3], p[2], p[1]>>)
Octets4(v) == [i \in 1 .. 4 |-> (v \div Octet4 ^ (4 - i)) % Octet4]

-----------------------------------------------------------------------------
Computes(op, res) == zx.op = op /\ zx.res = <<>> /\ zx' = [zx EXCEPT !.res = res]

Divide == Computes("udiv", <<[b \in Longs \ {0} |-> [q |-> udivdi3(zx.a, b), r |-> umoddi3(zx.a, b)]]>>)
DivideSigned == Computes("div", <<[b \in Signeds \ {0} |-> divdi3(Signed(zx.a, 2 * MW), b)]>>)
Checksum == Computes("cksum", <<[b \in Longs |-> ipcksum(<<zx.a, b, zx.a>>)]>>)
ChecksumHost == Computes("ping", <<[b \in Longs |-> ipchecksum(<<zx.a, b, b>>)]>>)
Multiply == Computes("mpy", <<[b \in Longs |-> mpyuhi(zx.a, b)]>>)
PrintNumber == Computes("text", <<[dec |-> txdecimal(Signed(zx.a, 2 * MW)), hex |-> txhex(zx.a)]>>)
Swap == Computes("swap", <<[word |-> buildword(Octets4(zx.a)), little |-> buildswap(Octets4(zx.a)),
                            swapped |-> byteswap(buildswap(Octets4(zx.a)))]>>)

MathInit == zx \in {[op |-> o, a |-> a, res |-> <<>>] :
                        o \in {"udiv", "div", "cksum", "ping", "mpy", "text", "swap"}, a \in Longs}
MathNext == Divide \/ DivideSigned \/ Checksum \/ ChecksumHost \/ Multiply \/ PrintNumber \/ Swap

-----------------------------------------------------------------------------
Computed(op) == zx.op = op /\ zx.res # <<>>

(* divutb.c: "assert(h-r == 0)", for every dividend and every divisor but 0: the
   quotient and the remainder are right, by the processor's own division, by the
   one of the upper halves and by the loop; and of signed numbers the quotient is
   the one towards zero, but for the one that there is not.                     *)
TowardsZero(a, b) == IF (a < 0) # (b < 0) THEN -(Magnitude(a) \div Magnitude(b))
                                          ELSE Magnitude(a) \div Magnitude(b)
DivisionRight ==
    /\ Computed("udiv") => \A b \in Longs \ {0} :
            zx.res[1][b] = [q |-> zx.a \div b, r |-> zx.a % b]
    /\ Computed("div") => LET a == Signed(zx.a, 2 * MW) IN
            \A b \in Signeds \ {0} : zx.res[1][b] = TowardsZero(a, b) \/ TowardsZero(a, b) \notin Signeds

(* The assembly of ipcksum() gives what the C under #ifndef ASM would: the carry
   that comes out of the last fold included.                                 *)
ChecksumsAgree == Computed("cksum") => \A b \in Longs : zx.res[1][b] = ipcksumC(<<zx.a, b, zx.a>>)

(* manping.cpp: "assert(checksum == 0)": the checksum put into a header adds up with
   it to nothing, whatever the sums of the two halves carry.                  *)
ChecksumVerifies == Computed("ping") => \A b \in Longs : Verified(zx.res[1][b]) = 0

(* mpyuhi() is the upper half of the product, as MPYUHI would give it, of every two
   numbers that are not negative: the three terms of the middle do not overflow.  *)
MultipliesRight ==
    Computed("mpy") => \A b \in Longs :
        Signed(zx.a, 2 * MW) >= 0 /\ Signed(b, 2 * MW) >= 0 =>
            zx.res[1][b] = (zx.a * b) \div 2 ^ (2 * MW)

(* "Send a hexadecimal value", "Same as txhex, but for signed decimal numbers": the
   digits, read back, are the number, of every number but the most negative one.  *)
Value(digits, base) == FoldLeft(LAMBDA v, d : v * base + d, 0, digits)
NumbersReadBack ==
    Computed("text") =>
        LET val == Signed(zx.a, 2 * MW) IN
        /\ Value(zx.res[1].hex, 16) = zx.a
        /\ val = -(2 ^ (2 * MW - 1)) \/
              Value(zx.res[1].dec.digits, 10) = IF zx.res[1].dec.sign = "-" THEN -val ELSE val

(* byteswap.h: a big-endian word of octets in any place, a little-endian one, and
   the one of the two made from the other: what the host has in its memory comes to
   the board with its octets in order.                                        *)
OctetsInOrder ==
    Computed("swap") => zx.res[1].word = zx.a /\ zx.res[1].swapped = zx.res[1].word

(* The arithmetic that the processor does not have: divisions of the double width
   and products of the upper half are those of the integers.                 *)
ArithmeticRight == DivisionRight /\ MultipliesRight

(* The checksums of the board and of the host are the same one, and the packet
   with its checksum in it verifies.                                         *)
ChecksumsRight == ChecksumsAgree /\ ChecksumVerifies

(* What is converted can be had back: a number from its decimal digits, but for
   the most negative, and a word from its octets in the other order.         *)
ConversionsRight == NumbersReadBack /\ OctetsInOrder
=============================================================================
