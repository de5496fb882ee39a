----------------------------- MODULE WbuOutput -----------------------------
(* rtl/wbubus/wbuoutput.v and the end of wbuconsole.v, clock by clock: from the
   answers of wbuexec.v to the characters of the serial port.  A FIFO, then
   five stages that each hold one thing and hand it on when the next is not
   busy: wbuidleint (idle and interrupt words), wbucompress, wbudeword (words
   into digits, and a newline), wbucompactlines (takes most of the newlines
   out again), wbusixchar, and the register that the debug bus shares with the
   console.

   The FIFO (module WbuFifo) is the environment: it offers a word until the
   word is read.  The search of wbucompress.v (module WbuCompress) is a choice
   of length.  A stage's strobe and what it holds are one variable: what a
   register holds while its strobe is low is None, since nothing looks at it.
   `due` and `pos` are not in the code: the words under way, and how many
   digits of the first have left.                                            *)
EXTENDS Integers, Sequences, RtlBits

CONSTANTS
    LONG,           \* digits of the longest word (6)
    MAX_LINE_LENGTH,            \* 79
    IDLE            \* clocks of silence before an idle word (2^30)

ASSUME OutputAssumption ==
    /\ LONG \in Nat \ {0} /\ IDLE \in Nat \ {0}
    /\ MAX_LINE_LENGTH \in Nat /\ MAX_LINE_LENGTH > LONG

VARIABLES
    fifo_empty_n,                                           \* wbufifo
    cw, int_request, int_sent, idle_state, idle_counter,    \* wbuidleint
    aword, cp,                                              \* wbucompress
    dw, r_len,                                              \* wbudeword
    ln, last_out_nl, last_in_nl, linelen, full_line, r_busy,\* wbucompactlines
    ch,                                                     \* wbusixchar
    cmd_port_active, ps_full,                               \* wbuconsole
    due, pos

idleint == <<cw, int_request, int_sent, idle_state, idle_counter>>
lines   == <<ln, last_out_nl, last_in_nl, linelen, full_line, r_busy>>
vars == <<fifo_empty_n, idleint, aword, cp, dw, r_len, lines, ch,
          cmd_port_active, ps_full, due, pos>>

-----------------------------------------------------------------------------
(* An "answer" of wbuexec has from one digit (an acknowledgement, a value that
   the compression found) to LONG; the words that wbuidleint adds, "int",
   "busy" and "idle", have one.                                              *)
w_len(w) == IF w = "answer" THEN {1, LONG} ELSE {1}

(* A character: the k-th digit of word w, l of them left with it; a newline. *)
Digit(w, k, l) == [w |-> w, k |-> k, l |-> l]
Newline == Digit("nl", 0, 0)
None    == Digit("none", 0, 0)
NoWord  == "none"

(* The busy lines, from the end of the chain to its beginning.               *)
ch_busy   == ps_full = 1 /\ cmd_port_active = 1
byte_busy == ch # None
ln_busy   == r_busy = 1 \/ ln # None
dw_busy   == dw # None
tbl_busy  == cp # NoWord /\ dw_busy
cp_busy   == aword # NoWord /\ tbl_busy
cw_busy   == cw # NoWord
fifo_rd   == fifo_empty_n = 1 /\ ~cw_busy

-----------------------------------------------------------------------------
(* busoutfifo keeps a word on offer until it is read.                        *)
Fifo(in) == fifo_empty_n' = IF fifo_empty_n = 1 /\ ~fifo_rd THEN 1 ELSE Bit(in.more)

(* wbuidleint: an answer if there is one, else an interrupt or an idle word. *)
Taken(w) == cw = w /\ ~cp_busy

Idleint(in) ==
    /\ int_request' = IF in.int THEN 1 ELSE IF Taken("int") THEN 0 ELSE int_request
    /\ int_sent' = IF int_request = 1 /\ ~cw_busy /\ ~fifo_rd THEN 1
                   ELSE IF ~in.int THEN 0 ELSE int_sent
    /\ idle_counter' = IF fifo_rd \/ cw_busy \/ in.exec_stb THEN 0
                       ELSE IF idle_counter < IDLE THEN idle_counter + 1
                       ELSE idle_counter
    /\ idle_state' = IF Taken("idle") THEN 1
                     ELSE IF idle_counter < IDLE THEN 0 ELSE idle_state
    /\ cw' = IF cw_busy THEN (IF cp_busy THEN cw ELSE NoWord)
             ELSE IF fifo_rd THEN "answer"
             ELSE IF int_request = 1 /\ int_sent = 0 THEN "int"
             ELSE IF int_request = 1 \/ (idle_state = 0 /\ idle_counter = IDLE)
                  THEN (IF in.cyc THEN "busy" ELSE "idle")
             ELSE NoWord

(* wbucompress: two places.                                                  *)
NextAwordBug == IF cw_busy THEN cw ELSE IF ~tbl_busy THEN NoWord ELSE aword
NextAword == IF cp_busy THEN aword ELSE cw

Compress ==
    /\ aword' = NextAword
    /\ cp' = IF tbl_busy THEN cp ELSE aword

(* wbudeword: the digits of a word one by one, then a newline.               *)
Deword ==
    IF cp # NoWord /\ ~dw_busy
    THEN \E n \in w_len(cp) : dw' = Digit(cp, 1, n) /\ r_len' = n
    ELSE IF ln_busy THEN UNCHANGED <<dw, r_len>>
    ELSE /\ dw' = IF r_len = 0 THEN None
                  ELSE IF r_len = 1 THEN Newline
                  ELSE Digit(dw.w, dw.k + 1, r_len - 1)
         /\ r_len' = IF r_len > 0 THEN r_len - 1 ELSE 0

(* wbucompactlines: lets a newline pass when the line is full, and brings one
   back when nothing more is coming.                                         *)
NextFullLineBug == Bit(linelen > MAX_LINE_LENGTH - LONG)    \* a character late
NextFullLine == Bit(linelen >= MAX_LINE_LENGTH - LONG)

Quiet(in) == ~in.cyc /\ ~in.exec_stb /\ fifo_empty_n = 0 /\ ~cw_busy

CompactLines(in) ==
    /\ IF byte_busy \/ ln = None THEN UNCHANGED <<last_out_nl, linelen, full_line>>
       ELSE /\ last_out_nl' = Bit(ln = Newline)
            /\ linelen' = IF ln = Newline THEN 0 ELSE linelen + 1
            /\ full_line' = IF ln = Newline THEN 0 ELSE NextFullLine
    /\ last_in_nl' = IF dw_busy /\ ~ln_busy THEN Bit(dw = Newline) ELSE last_in_nl
    /\ ln' = IF ln_busy THEN (IF byte_busy THEN ln ELSE None)
             ELSE IF dw_busy THEN (IF dw = Newline /\ full_line = 0 THEN None ELSE dw)
             ELSE IF /\ ~byte_busy /\ Quiet(in)
                     /\ last_out_nl = 0 /\ last_in_nl = 1 THEN Newline
             ELSE None
    /\ r_busy' = Bit(ln # None /\ byte_busy)

(* wbusixchar, and the register in front of the serial port: debug characters
   first, and none before the host has spoken.                               *)
SixChar == ch' = IF byte_busy THEN (IF ch_busy THEN ch ELSE None) ELSE ln

Console(in) ==
    /\ cmd_port_active' = IF in.rx THEN 1 ELSE cmd_port_active
    /\ ps_full' = IF ps_full = 0
                  THEN Bit((cmd_port_active = 1 /\ ch # None) \/ in.console)
                  ELSE Bit(in.tx_busy)

-----------------------------------------------------------------------------
(* One clock's inputs; those nothing looks at are low.                       *)
Or0(P)  == IF P THEN BOOLEAN ELSE {FALSE}
Input == [more : Or0(fifo_rd \/ fifo_empty_n = 0), exec_stb : Or0(~cw_busy),
          cyc : Or0(~cw_busy), int : BOOLEAN, rx : Or0(cmd_port_active = 0),
          console : Or0(ps_full = 0), tx_busy : Or0(ps_full = 1)]

Leaves == ch # None /\ ~ch_busy

Observe(in) ==
    /\ due' = (IF Leaves /\ ch.l = 1 THEN Tail(due) ELSE due)
              \o (IF cw_busy /\ ~cp_busy THEN <<cw>> ELSE <<>>)
    /\ pos' = IF ~Leaves \/ ch = Newline THEN pos
              ELSE IF ch.l = 1 THEN 0 ELSE pos + 1

Init ==
    /\ fifo_empty_n = 0
    /\ cw = NoWord /\ int_request = 0 /\ int_sent = 0
    /\ idle_state = 0 /\ idle_counter = 0
    /\ aword = NoWord /\ cp = NoWord
    /\ dw = None /\ r_len = 0
    /\ ln = None /\ last_out_nl = 1 /\ last_in_nl = 1
    /\ linelen = 0 /\ full_line = 0 /\ r_busy = 0
    /\ ch = None /\ cmd_port_active = 0 /\ ps_full = 0
    /\ due = <<>> /\ pos = 0

Next == \E in \in Input :
    /\ Fifo(in) /\ Idleint(in) /\ Compress /\ Deword /\ CompactLines(in)
    /\ SixChar /\ Console(in) /\ Observe(in)

Spec == Init /\ [][Next]_vars

-----------------------------------------------------------------------------
(* Through all six stages, whatever is busy when: the character offered to the
   serial port is the next digit of the oldest word under way, or a newline
   between two words.  No word is lost, doubled, overtaken or cut in two.    *)
DigitsInOrder ==
    /\ ch = Newline => pos = 0
    /\ ch.l > 0 => due # <<>> /\ ch.w = Head(due) /\ ch.k = pos + 1

(* A line never gets longer than MAX_LINE_LENGTH, although a newline can only
   be put between two words.                                                 *)
LinesFit == linelen <= MAX_LINE_LENGTH
=============================================================================
