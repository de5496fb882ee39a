------------------------------- MODULE TtyCodec -------------------------------
(* The debug link below the words of TtyBus: six bits to a character.  Nothing on
   the line says where a word ends: each side knows it from the first digit, the
   host by readword() of sw/host/ttybus.cpp and the board by wbureadcw.v, and each
   has its own table of characters (charenc, chardec; wbusixchar.v, wbutohex.v).
   The line is read in pieces of any size, and ends its lines between words.

   A word is the sequence of its digits, 0 .. 63; the record `tc` is one line of
   words on its way, `dir` which way.  A character is its code.                *)
EXTENDS Integers, Sequences, SequencesExt

CONSTANTS
    CDigits,                        \* the digits that follow the first in a word
    CReadLens                       \* lengths of a read command: 1 .. 519

ASSUME CodecAssumption == CDigits \subseteq 0 .. 63 /\ CReadLens \subseteq 1 .. 519

VARIABLE tc

NL == 10                            \* the end of a line
Ascii0 == 48
AsciiA == 65
Asciia == 97
At == 64
Percent == 37
Invalid == 256

-----------------------------------------------------------------------------
(* The tables of the host.                                                   *)
charenc(d) ==
    CASE d < 10 -> Ascii0 + d
      [] d \in 10 .. 35 -> AsciiA - 10 + d
      [] d \in 36 .. 61 -> Asciia - 36 + d
      [] d = 62 -> At
      [] d = 63 -> Percent
chardecBug(b) ==
    CASE b \in Ascii0 .. Ascii0 + 9 -> b - Ascii0
      [] b \in AsciiA .. AsciiA + 25 -> b - AsciiA + 10
      [] b \in Asciia .. Asciia + 25 -> b - Asciia + 10
      [] b = At -> 62
      [] b = Percent -> 63
      [] OTHER -> Invalid
chardec(b) ==
    CASE b \in Ascii0 .. Ascii0 + 9 -> b - Ascii0
      [] b \in AsciiA .. AsciiA + 25 -> b - AsciiA + 10
      [] b \in Asciia .. Asciia + 25 -> b - Asciia + 36
      [] b = At -> 62
      [] b = Percent -> 63
      [] OTHER -> Invalid

(* The tables of the board, in six bits.                                     *)
sixchar(d) == CASE d <= 9 -> 48 + d [] d \in 10 .. 35 -> 65 + d - 10
                [] d \in 36 .. 61 -> 97 + d - 36 [] d = 62 -> 64 [] OTHER -> 37
tohex(b) == CASE b \in 48 .. 57 -> b % 16 [] b \in 65 .. 90 -> (b % 64) - 1 + 10
              [] b \in 97 .. 122 -> ((b % 64) + 3) % 64 [] b = 64 -> 62 [] b = 37 -> 63
              [] OTHER -> Invalid

-----------------------------------------------------------------------------
(* How long a word is, by its first digit: what wbudeword.v sends, and how far
   readword() reads on.                                                      *)
w_len(d) == CASE d < 8 -> 1 [] d \in 8 .. 11 -> 6 [] d \in 12 .. 15 -> 2 + (d % 4)
              [] d \in 16 .. 31 -> 2 [] d \in 32 .. 47 -> 1 [] OTHER -> 6
ReadOn(d) == CASE d \in 8 .. 11 -> 6 [] d \in 12 .. 15 -> (d % 4) + 2 [] d \in 16 .. 31 -> 2
               [] d \in 56 .. 63 -> 6 [] OTHER -> 1

(* The words of the host: an address of 2 .. 5 digits or of 6, a write in full or by
   its place in the table, a read; and how long wbureadcw.v takes each for.   *)
readcmd(len, inc) ==
    IF len <= 8 THEN <<32 + ((len - 1) % 8) * 2 + inc>>
    ELSE <<48 + ((len - 9) \div 64) * 2 + inc, (len - 9) % 64>>
HostWords(d) ==
    {readcmd(len, inc) : len \in CReadLens, inc \in {0, 1}}
    \cup {<<8 + 2 * (n - 2) + rel>> \o [i \in 1 .. n - 1 |-> d] : n \in 2 .. 5, rel \in {0, 1}}
    \cup {<<a, d, d, d, d, d>> : a \in 0 .. 3}
    \cup {<<24 + 2 * v + inc, d, d, d, d, d>> : v \in 0 .. 3, inc \in {0, 1}}
    \cup {<<16 + 2 * v + inc, d>> : v \in 0 .. 3, inc \in {0, 1}}
cw_len(d) == CASE d >= 48 -> 2 [] d \in 32 .. 47 -> 1 [] d \in 16 .. 23 -> 2
               [] d \in 8 .. 15 -> 2 + (d % 8) \div 2 [] OTHER -> 6

-----------------------------------------------------------------------------
(* lclreadcode(), on the piece that one read() has brought: it counts the characters
   that are no codes out, and copies towards the end of the buffer.            *)
lclreadcode(piece) ==
    FoldLeft(LAMBDA s, i : IF chardec(s.buf[i]) = Invalid
                           THEN [s EXCEPT !.ret = @ - 1]
                           ELSE [s EXCEPT !.buf[i] = s.buf[s.dp], !.dp = @ + 1],
             [buf |-> piece, dp |-> 1, ret |-> Len(piece)], [i \in 1 .. Len(piece) |-> i])

(* readword() wants one character, and then the rest of the word.             *)
CharsWanted == IF tc.buf = <<>> THEN 1 ELSE ReadOn(chardec(tc.buf[1])) - Len(tc.buf)
HostReads ==
    /\ tc.dir = "up" /\ tc.line # <<>>
    /\ \E k \in 1 .. Len(tc.line) :
        /\ k <= CharsWanted
        /\ LET piece == lclreadcode(SubSeq(tc.line, 1, k))
               buf   == tc.buf \o SubSeq(piece.buf, 1, piece.ret)
               whole == buf # <<>> /\ Len(buf) = ReadOn(chardec(buf[1]))
           IN  tc' = [tc EXCEPT !.line = SubSeq(@, k + 1, Len(@)),
                                !.buf = IF whole THEN <<>> ELSE buf,
                                !.got = IF whole THEN Append(@, [i \in 1 .. Len(buf) |-> chardec(buf[i])])
                                        ELSE @]

(* wbutohex.v and wbureadcw.v, a character at a time: one that is no code drops
   what has come of a word, and after a write ends the burst.                 *)
EndOfWrite == <<46>>
IsWrite(w) == w[1] \in 16 .. 31
BoardReads ==
    /\ tc.dir = "down" /\ tc.line # <<>>
    /\ LET d     == tohex(Head(tc.line))
           buf   == Append(tc.buf, d)
           whole == d # Invalid /\ Len(buf) = cw_len(buf[1])
           ends  == d = Invalid /\ tc.got # <<>> /\ IsWrite(Last(tc.got))
       IN  tc' = [tc EXCEPT !.line = Tail(@),
                            !.buf = IF d = Invalid \/ whole THEN <<>> ELSE buf,
                            !.got = IF whole THEN Append(@, buf)
                                    ELSE IF ends THEN Append(@, EndOfWrite) ELSE @]

-----------------------------------------------------------------------------
Characters(w, enc) == [i \in 1 .. Len(w) |-> enc[w[i]]]
OnLine(dir, ws, nl, enc) ==
    [dir |-> dir, words |-> ws, nl |-> nl, buf |-> <<>>, got |-> <<>>,
     line |-> Characters(ws[1], enc) \o (IF nl THEN <<NL>> ELSE <<>>) \o Characters(ws[2], enc) \o <<NL>>]
BoardWord(f, d) == <<f>> \o [i \in 1 .. w_len(f) - 1 |-> d]
Sixchars == [d \in 0 .. 63 |-> sixchar(d)]
Charencs == [d \in 0 .. 63 |-> charenc(d)]
CodecInit ==
    \/ \E f \in 0 .. 47 \cup 56 .. 63, g \in {0, 13, 31, 60}, d \in CDigits, nl \in BOOLEAN :
            tc = OnLine("up", <<BoardWord(f, d), BoardWord(g, d)>>, nl, Sixchars)
    \/ \E d \in CDigits, v \in {<<16, 5>>, <<34>>}, nl \in BOOLEAN : \E w \in HostWords(d) :
            tc = OnLine("down", <<w, v>>, nl, Charencs)
CodecNext == HostReads \/ BoardReads

-----------------------------------------------------------------------------
Ended(w, nl) == IF tc.dir = "down" /\ nl /\ IsWrite(w) THEN <<w, EndOfWrite>> ELSE <<w>>
WordsMeant == Ended(tc.words[1], tc.nl) \o Ended(tc.words[2], TRUE)

(* What the board sends is what the host takes in, word for word, wherever the
   line is cut and wherever it ends; and the other way, with the end of every burst
   of writes.                                                                *)
WordsCross == /\ IsPrefix(tc.got, WordsMeant)
              /\ tc.line = <<>> => tc.got = WordsMeant
=============================================================================
