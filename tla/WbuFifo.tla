------------------------------ MODULE WbuFifo ------------------------------
(* rtl/wbubus/wbufifo.v: the synchronous FIFO that sits at both ends of the
   debug bus.  A ring of FLEN words between two pointers that carry one bit
   more than the address, two registered flags that predict overflow and
   underflow one clock ahead, and one output register behind the ring, so
   that FLEN + 1 words fit.

   One step is one rising edge of i_clk.  The variable `queue` is not in the
   code: it is the queue an observer of the ports would write down, and the
   properties compare the registers with it.                               *)
EXTENDS Integers, Sequences, RtlBits

CONSTANTS Word,     \* the values of i_data, [BW-1:0]
          FLEN      \* 1 << LGFLEN

ASSUME FLENAssumption == FLEN \in Nat /\ FLEN >= 3
ASSUME WordAssumption == Word # {}

VARIABLES
    fifo, r_wrptr, r_rdptr, will_overflow, will_underflow, o_data, o_empty_n,
    queue           \* observer: accepted and not yet read, oldest first

vars == <<fifo, r_wrptr, r_rdptr, will_overflow, will_underflow,
          o_data, o_empty_n, queue>>

-----------------------------------------------------------------------------
(* Pointer arithmetic.  A pointer is LGFLEN+1 bits: an address of the ring and
   a wrap bit.  The increments wrap at 2 * FLEN.                            *)
Pointer == 0 .. 2 * FLEN - 1
Address == 0 .. FLEN - 1

Nxt(p)     == IF p = 2 * FLEN - 1 THEN 0 ELSE p + 1
LowBits(p) == IF p >= FLEN THEN p - FLEN ELSE p
WrapBit(p) == p >= FLEN

-----------------------------------------------------------------------------
(* The combinational wires.  An operator whose name ends in Bug is a slip the
   properties must notice; nothing else uses it.                            *)
w_writeBug(i_wr, i_rd) == i_wr              \* writes on overflow, too
w_write(i_wr, i_rd)    == i_wr /\ (will_overflow = 0 \/ i_rd)
w_read(i_rd)           == (i_rd \/ o_empty_n = 0) /\ will_underflow = 0

-----------------------------------------------------------------------------
(* One operator per always block: the register's next value.                *)
NextOverflow(i_wr, i_rd) ==
    IF i_rd THEN Bit(will_overflow = 1 /\ i_wr)
    ELSE IF w_write(i_wr, i_rd)
         THEN Bit(/\ LowBits(Nxt(r_wrptr)) = LowBits(r_rdptr)
                  /\ WrapBit(Nxt(r_wrptr)) # WrapBit(r_rdptr))
         ELSE will_overflow

NextUnderflowBug(i_wr, i_rd) ==             \* a read wins over a write
    IF w_read(i_rd) THEN Bit(Nxt(r_rdptr) = r_wrptr)
    ELSE IF i_wr THEN 0 ELSE will_underflow

NextUnderflow(i_wr, i_rd) ==
    IF i_wr THEN 0
    ELSE IF w_read(i_rd)
         THEN Bit(will_underflow = 1 \/ Nxt(r_rdptr) = r_wrptr)
         ELSE will_underflow

NextEmptyN(i_rd) ==
    IF o_empty_n = 0 \/ i_rd THEN 1 - will_underflow ELSE o_empty_n

-----------------------------------------------------------------------------
Init ==
    /\ fifo \in [Address -> Word]       \* block RAM, never initialised
    /\ o_data \in Word
    /\ r_wrptr = 0
    /\ r_rdptr = 0
    /\ will_overflow = 0
    /\ will_underflow = 1
    /\ o_empty_n = 0
    /\ queue = <<>>

(* What the two ports agree on in one clock: a word leaves when it is offered
   and taken, a word enters unless o_err refuses it (a write to a full FIFO
   that is not read in the same clock).                                     *)
Popped(i_rd) == IF i_rd /\ o_empty_n = 1 THEN Tail(queue) ELSE queue

Observe(i_wr, i_data, i_rd) ==
    queue' = IF i_wr /\ ~(will_overflow = 1 /\ ~i_rd)
             THEN Append(Popped(i_rd), i_data) ELSE Popped(i_rd)

(* The two blocks that i_reset does not touch: the memory and o_data.       *)
DataPath(i_wr, i_data, i_rd) ==
    /\ fifo' = IF w_write(i_wr, i_rd)
               THEN [fifo EXCEPT ![LowBits(r_wrptr)] = i_data] ELSE fifo
    /\ o_data' = IF w_read(i_rd) THEN fifo[LowBits(r_rdptr)] ELSE o_data

Clock(i_wr, i_data, i_rd) ==
    /\ DataPath(i_wr, i_data, i_rd)
    /\ r_wrptr' = IF w_write(i_wr, i_rd) THEN Nxt(r_wrptr) ELSE r_wrptr
    /\ r_rdptr' = IF w_read(i_rd) THEN Nxt(r_rdptr) ELSE r_rdptr
    /\ will_overflow' = NextOverflow(i_wr, i_rd)
    /\ will_underflow' = NextUnderflow(i_wr, i_rd)
    /\ o_empty_n' = NextEmptyN(i_rd)
    /\ Observe(i_wr, i_data, i_rd)

Reset(i_wr, i_data, i_rd) ==
    /\ DataPath(i_wr, i_data, i_rd)
    /\ r_wrptr' = 0
    /\ r_rdptr' = 0
    /\ will_overflow' = 0
    /\ will_underflow' = 1
    /\ o_empty_n' = 0
    /\ queue' = <<>>

Next == \E i_wr, i_rd \in BOOLEAN, i_data \in Word :
            \/ Clock(i_wr, i_data, i_rd)
            \/ Reset(i_wr, i_data, i_rd)

Spec == Init /\ [][Next]_vars

-----------------------------------------------------------------------------
TypeOK ==
    /\ fifo \in [Address -> Word]
    /\ r_wrptr \in Pointer
    /\ r_rdptr \in Pointer
    /\ will_overflow \in Bits
    /\ will_underflow \in Bits
    /\ o_data \in Word
    /\ o_empty_n \in Bits
    /\ queue \in Seq(Word)

(* How many words lie in the ring; the output register holds one more.      *)
Fill == IF r_wrptr >= r_rdptr THEN r_wrptr - r_rdptr
                              ELSE r_wrptr + 2 * FLEN - r_rdptr

(* The ring address i words after the read pointer.                         *)
AddrAt(i) == LowBits(IF r_rdptr + i >= 2 * FLEN THEN r_rdptr + i - 2 * FLEN
                                                ELSE r_rdptr + i)

(* The flags and the pointers agree, and the pointers count the queue.      *)
FlagInv ==
    /\ Fill <= FLEN
    /\ will_underflow = 1 <=> Fill = 0
    /\ will_overflow = 1 <=> Fill = FLEN
    /\ o_empty_n = 0 => Fill <= 1
    /\ Len(queue) = Fill + o_empty_n

(* Word for word, the registers hold the queue.                             *)
DataInv ==
    /\ o_empty_n = 1 => queue[1] = o_data
    /\ \A i \in 0 .. FLEN - 1 :
          i < Fill => queue[i + 1 + o_empty_n] = fifo[AddrAt(i)]

(* The inductive invariant.                                                 *)
IInv == TypeOK /\ FlagInv /\ DataInv

(* The word offered at o_data is the oldest accepted word not yet read: the
   FIFO neither loses, duplicates nor reorders across any mix of reads,
   writes, refused writes and reads of an empty FIFO.                       *)
InOrder == o_empty_n = 1 => queue # <<>> /\ o_data = Head(queue)

(* A write is refused (o_err) only when all FLEN + 1 places are taken, and the
   flag that predicts it is never late: nothing is ever overwritten.        *)
RefusesOnlyWhenFull == will_overflow = 1 <=> Len(queue) = FLEN + 1

(* A word waits at most one clock for the output register: the FIFO never
   sits on two words while it tells its reader that it is empty.            *)
NoHiddenBacklog == o_empty_n = 0 => Len(queue) <= 1

(* wbufifo.v is a queue of FLEN + 1 words: what is written comes out in order, a
   write is refused exactly when every place is taken, and "empty" hides no more
   than the word that is about to appear.                                    *)
QueueInv == InOrder /\ RefusesOnlyWhenFull /\ NoHiddenBacklog
=============================================================================
