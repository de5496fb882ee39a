----------------------------- MODULE ZipConsole -----------------------------
(* The board's console as a program sees it: the system calls of syscalls.c and the
   routines of txfns.c, above the FIFOs of the console port.  Also the calendar of
   _gettimeofday_r().                                                        *)
EXTENDS Integers, Sequences, FiniteSets, SequencesExt
CONSTANTS KTyped,   \* what may be typed: sequences of characters
          KFifoLen, \* length of the transmit FIFO
          KPipe,    \* characters in the port's pipeline, behind the FIFO
          KMaxCalls, \* bound: calls of the program
          KYears    \* the years the calendar is looked at

KChars == {"a", "nl", "cr"}

(* The calendar begins after the epoch.                                      *)
ASSUME ConsoleAssumption ==
    /\ KTyped \subseteq Seq(KChars)
    /\ KFifoLen \in Nat \ {0} /\ KPipe \in Nat
    /\ KYears # {} /\ \A y \in KYears : y \in Nat /\ y >= 1970

VARIABLES cs,       \* the software
          ck,       \* the port
          cd        \* the date, as rtcdate.v keeps it

cs_vars == <<cs, ck, cd>>

-----------------------------------------------------------------------------
(* _outbyte() and txchr(): what a character becomes.  Each is then sent when the
   FIFO has room.                                                            *)
OutByte(v) == IF v = "nl" THEN <<"cr", "nl">> ELSE <<v>>
TxChr(v, last_was_cr) == IF v = "nl" /\ ~last_was_cr THEN <<"cr", "nl">> ELSE <<v>>

TXWAITBug(k) == FALSE                   \* nobody waits
TXWAIT(k) == Len(k.fifo) >= KFifoLen
TXBUSY(k) == k.fifo # <<>>
Push == /\ cs.out # <<>> /\ ~TXWAIT(ck)
        /\ cs' = [cs EXCEPT !.out = Tail(@)]
        /\ ck' = IF Len(ck.fifo) < KFifoLen THEN [ck EXCEPT !.fifo = Append(@, Head(cs.out))] ELSE ck
        /\ UNCHANGED cd

Calls == cs.at = "program" /\ cs.out = <<>> /\ cs.calls < KMaxCalls
Sends(s) == [cs EXCEPT !.out = s, !.written = @ \o s, !.calls = @ + 1]
write_r == /\ Calls
           /\ \E v \in KChars : cs' = Sends(OutByte(v))
           /\ UNCHANGED <<ck, cd>>
txchr == /\ Calls
         /\ \E v \in KChars : cs' = [Sends(TxChr(v, cs.tx_cr)) EXCEPT !.tx_cr = v = "cr"]
         /\ UNCHANGED <<ck, cd>>

(* _inbyte(): a carriage return is a newline, and a newline behind one is nothing. *)
InByte(last_was_cr, v) ==
    CASE v = "cr" -> [rv |-> <<"nl">>, cr |-> TRUE]
      [] v = "nl" -> [rv |-> IF last_was_cr THEN <<>> ELSE <<"nl">>, cr |-> FALSE]
      [] OTHER    -> [rv |-> <<v>>, cr |-> FALSE]
(* _read_r(): wait for one character, then take those that are there.  All are echoed. *)
read_r == /\ Calls
          /\ \E len \in 1 .. 2 : cs' = [cs EXCEPT !.at = "read", !.len = len, !.nr = 0, !.calls = @ + 1]
          /\ UNCHANGED <<ck, cd>>
inbyte ==
    /\ cs.at = "read" /\ cs.out = <<>>
    /\ IF ck.rx = <<>>
       THEN /\ cs.nr > 0                \* else it keeps asking
            /\ cs' = [cs EXCEPT !.at = "program", !.len = 0, !.nr = 0] /\ UNCHANGED ck
       ELSE LET r == InByte(cs.rx_cr, Head(ck.rx))
                last == (r.rv = <<>> /\ cs.nr > 0) \/ (r.rv # <<>> /\ cs.nr + 1 = cs.len)
                echo == IF r.rv = <<>> THEN <<>> ELSE OutByte(r.rv[1])
            IN  /\ cs' = [cs EXCEPT !.rx_cr = r.cr, !.got = @ \o r.rv,
                                    !.out = echo, !.written = @ \o echo,
                                    !.nr = IF last THEN 0 ELSE @ + Len(r.rv),
                                    !.len = IF last THEN 0 ELSE @,
                                    !.at = IF last THEN "program" ELSE @]
                /\ ck' = [ck EXCEPT !.rx = Tail(@), !.used = Append(@, Head(ck.rx))]
    /\ UNCHANGED cd

(* _exit(): two characters more, and wait for the FIFO.                      *)
Final == <<"sp", "sp">>
exit == /\ cs.at = "program" /\ cs.out = <<>>
        /\ cs' = [cs EXCEPT !.at = "exit", !.out = Final]
        /\ UNCHANGED <<ck, cd>>
hw_shutdown == /\ cs.at = "exit" /\ cs.out = <<>> /\ ~TXBUSY(ck)
               /\ cs' = [cs EXCEPT !.at = "down"]
               /\ UNCHANGED <<ck, cd>>

(* The port; it stops with the processor.                                    *)
KDown == cs.at = "down"
PortMoves == /\ ~KDown /\ ck.fifo # <<>> /\ Len(ck.pipe) < KPipe
             /\ ck' = [ck EXCEPT !.fifo = Tail(@), !.pipe = Append(@, Head(ck.fifo))]
             /\ UNCHANGED <<cs, cd>>
PortSends == /\ ~KDown /\ ck.pipe # <<>>
             /\ ck' = [ck EXCEPT !.pipe = Tail(@), !.sent = Append(@, Head(ck.pipe))]
             /\ UNCHANGED <<cs, cd>>
Types == /\ ~KDown /\ ck.left # <<>>
         /\ ck' = [ck EXCEPT !.left = Tail(@), !.rx = Append(@, Head(ck.left))]
         /\ UNCHANGED <<cs, cd>>

-----------------------------------------------------------------------------
(* _gettimeofday_r(): the days since 1970, from the digits of the date.  Every
   fourth year is a leap year, and so it is in rtcdate.v until 2100.         *)
Leap(y) == y % 4 = 0
DaysBefore(y, m) ==
    LET d == <<0, 31, 59, 90, 120, 151, 181, 212, 243, 273, 304, 334>>
    IN  d[m] + (IF m > 2 /\ Leap(y) THEN 1 ELSE 0)
YearDaysBug(y) == 365 * (y - 1970) + Cardinality({yy \in 1970 .. y : Leap(yy)})   \* this year's too
YearDays(y) == 365 * (y - 1970) + Cardinality({yy \in 1970 .. y - 1 : Leap(yy)})
days_since_epoch(c) == c.d + DaysBefore(c.y, c.m) + YearDays(c.y)

MonthLen(y, m) == IF m = 2 THEN (IF Leap(y) THEN 29 ELSE 28)
                  ELSE IF m \in {4, 6, 9, 11} THEN 30 ELSE 31
DayPasses ==
    /\ cd.y \in KYears
    /\ cd' = IF cd.d < MonthLen(cd.y, cd.m) THEN [cd EXCEPT !.d = @ + 1]
             ELSE IF cd.m < 12 THEN [cd EXCEPT !.d = 1, !.m = @ + 1]
             ELSE [y |-> cd.y + 1, m |-> 1, d |-> 1]
    /\ UNCHANGED <<cs, ck>>

ConsoleInit ==
    /\ cs = [at |-> "program", out |-> <<>>, written |-> <<>>, calls |-> 0, tx_cr |-> FALSE, rx_cr |-> FALSE,
             got |-> <<>>, len |-> 0, nr |-> 0]
    /\ \E t \in KTyped : ck = [fifo |-> <<>>, pipe |-> <<>>, sent |-> <<>>, rx |-> <<>>, left |-> t, used |-> <<>>]
    /\ cd = [y |-> CHOOSE y \in KYears : \A z \in KYears : y <= z, m |-> 1, d |-> 1]
ConsoleNext == \/ Push \/ write_r \/ txchr \/ read_r \/ inbyte \/ exit \/ hw_shutdown
               \/ PortMoves \/ PortSends \/ Types
ConsoleSpec == ConsoleInit /\ [][ConsoleNext]_cs_vars
CalendarSpec == ConsoleInit /\ [][DayPasses]_cs_vars

-----------------------------------------------------------------------------
(* Nothing that a program writes is lost, however full the FIFO: what has left, what
   is in the port and what waits is what was written.                        *)
ConsoleKeepsAll ==
    cs.at = "program" \/ cs.at = "read" => ck.sent \o ck.pipe \o ck.fifo \o cs.out = cs.written

(* _exit() stops the processor, and the port with it, only when all that the program
   has written has left the port, though the pipeline cannot be seen.        *)
ExitSendsAll == KDown => IsPrefix(cs.written, ck.sent)

(* The lines that a program reads are the lines that were typed, whichever way they
   were ended, and wherever one read() ends and the next begins: of the characters
   taken, those that are Kept come in their order, each as what it AppearsAs.  *)
Kept(s) == {i \in 1 .. Len(s) : ~(s[i] = "nl" /\ i > 1 /\ s[i - 1] = "cr")}
KeptUpTo(s, j) == {i \in Kept(s) : i <= j}
AppearsAs(v) == IF v = "cr" THEN "nl" ELSE v
ReadsLinesTyped ==
    /\ Len(cs.got) = Cardinality(Kept(ck.used))
    /\ \A j \in Kept(ck.used) :
         cs.got[Cardinality(KeptUpTo(ck.used, j))] = AppearsAs(ck.used[j])

(* From each day to the next the time of day goes up by one day, over every end of
   a month and of a year.                                                    *)
DayAfterDay == [][cd' # cd => days_since_epoch(cd') = days_since_epoch(cd) + 1]_cs_vars

(* The C library's console: nothing written is lost at a full port, at the end of
   the program everything has left, and lines come in as they were typed.    *)
ConsoleRight == ConsoleKeepsAll /\ ExitSendsAll /\ ReadsLinesTyped
=============================================================================
