------------------------------ MODULE WbuExec ------------------------------
(* rtl/wbubus/wbuexec.v, the engine that turns the debug bus's codewords into
   Wishbone cycles, with the two things of wbuconsole.v that decide what it
   can do: the input FIFO that feeds it and the watchdog that resets both.

   One step is one rising edge of i_clk.  The bus is the environment (the
   crossbar of WbXbar); so is the decoder that writes codewords.  The FIFO is
   the queue that WbuFifo shows wbufifo.v to be: a ring and an output word.

   A codeword is an operation, its value (an address, an offset, the data, a
   length) and the increment flag, codword[30].  `pending` belongs to the bus;
   `todo`, `want` and `burst` belong to an observer of the codewords.       *)
EXTENDS Integers, Sequences, RtlBits

CONSTANTS
    NADDR,          \* addresses are 0 .. NADDR-1 and wrap (2^32)
    FLEN,           \* words in the FIFO's ring (1 << LGINPUT_FIFO)
    ACKS,           \* values of the ack counter (2^10)
    WDT,            \* values of the watchdog timer (1 << LGWATCHDOG)
    Lens,           \* bound: the read lengths the host asks for
    MaxOut,         \* bound: requests the bus accepts unanswered
    WriteErrors     \* may the bus answer a write with an error?

ASSUME ExecAssumption ==
    /\ NADDR \in Nat \ {0} /\ FLEN \in Nat \ {0} /\ WDT \in Nat \ {0}
    /\ ACKS \in Nat /\ MaxOut \in Nat /\ 0 < MaxOut /\ MaxOut < ACKS
    /\ Lens \subseteq 1 .. ACKS - 1 /\ WriteErrors \in BOOLEAN

VARIABLES
    wb_state, o_wb_cyc, o_wb_stb, o_busy, o_wb_we, o_wb_addr, o_wb_data,
    r_inc, r_new_addr, o_stb, o_codword,
    r_acks_needed, zero_acks, last_ack, r_len,
    single_read_request, last_read_request,
    ring, o_data, o_empty_n,            \* the input FIFO
    r_wdt_timer, r_wdt_reset,           \* the watchdog
    pending,                            \* the bus: accepted, unanswered
    todo, want, burst                   \* the observer

fsm      == <<wb_state, o_wb_cyc, o_wb_stb, o_busy, o_wb_data>>
counts   == <<r_acks_needed, zero_acks, last_ack, r_len,
              single_read_request, last_read_request>>
addrs    == <<o_wb_we, o_wb_addr, r_inc, r_new_addr>>
fifo     == <<ring, o_data, o_empty_n>>
observer == <<todo, want, burst>>
vars     == <<fsm, counts, addrs, o_stb, o_codword, fifo,
              r_wdt_timer, r_wdt_reset, pending, observer>>

-----------------------------------------------------------------------------
Address == 0 .. NADDR - 1
Plus(a, d) == (a + d) % NADDR

(* The codewords wbudecompress hands on: the two ways to set an address, a
   write, a read, and the end-of-write mark, which wbuexec's case ignores.   *)
Codeword == [op : {"abs", "rel"}, val : Address, inc : {0}]
              \cup [op : {"write"}, val : Bits, inc : Bits]
              \cup [op : {"read"}, val : Lens, inc : Bits]
              \cup [op : {"other"}, val : {0}, inc : {0}]
None == [op |-> "none", val |-> 0, inc |-> 0]

IsWrite(w) == w.op = "write"                            \* WRITE_PREFIX
Bit35(w)   == w.op \in {"read", "other"}                \* i_codword[35]

(* The inputs of one clock: a codeword, or none, and the bus's answer.       *)
Input == [word : Codeword \cup {None}, stall : Bits,
          resp : {"none", "ack", "err"}]

i_stb        == o_empty_n = 1
fifo_rd      == i_stb /\ o_busy = 0
accept(in)   == o_wb_cyc = 1 /\ o_wb_stb = 1 /\ in.stall = 0
i_wb_ack(in) == in.resp = "ack"
i_wb_err(in) == in.resp = "err"

-----------------------------------------------------------------------------
(* The bus keeps the rules of bench/formal/fwb_slave.v: an answer belongs to
   an accepted request of this cycle, and the oldest is answered first.      *)
Request == [we |-> o_wb_we, addr |-> o_wb_addr,
            data |-> IF o_wb_we = 1 THEN o_wb_data ELSE 0]
Accepted(in) == IF accept(in) THEN Append(pending, Request) ELSE pending

BusRules(in) ==
    /\ accept(in) => Len(pending) < MaxOut
    /\ in.resp # "none" => o_wb_cyc = 1 /\ Accepted(in) # <<>>
    /\ i_wb_err(in) => Head(Accepted(in)).we = 0 \/ WriteErrors
    /\ o_wb_stb = 0 => in.stall = 0

(* The host never has more words under way than the FIFO holds (MAXWRLEN), and
   gives the words of one burst of writes the same increment flag.           *)
HostRules(in) ==
    in.word # None => /\ Len(ring) < FLEN
                      /\ IsWrite(in.word) /\ burst # -1 => in.word.inc = burst

-----------------------------------------------------------------------------
(* The state machine, one action per wb_state; i_reset overrides them all.   *)
FsmReset ==
    /\ r_wdt_reset = 1
    /\ wb_state' = "IDLE"
    /\ o_wb_cyc' = 0 /\ o_wb_stb' = 0 /\ o_busy' = 0
    /\ UNCHANGED o_wb_data

FsmIdle ==
    /\ r_wdt_reset = 0 /\ wb_state = "IDLE"
    /\ o_wb_data' = o_data.val
    /\ LET starts == i_stb /\ o_data.op \in {"write", "read"}
       IN /\ o_wb_cyc' = Bit(starts) /\ o_wb_stb' = Bit(starts)
          /\ o_busy' = IF starts THEN 1 ELSE o_busy
          /\ wb_state' = IF ~starts THEN "IDLE"
                         ELSE IF IsWrite(o_data) THEN "WRITE" ELSE "READ"

FsmRead(in) ==
    /\ r_wdt_reset = 0 /\ wb_state = "READ"
    /\ LET ends == (i_wb_ack(in) /\ last_ack = 1) \/ i_wb_err(in)
           sent == in.stall = 0 /\ (single_read_request = 1
                                    \/ last_read_request = 1)
       IN /\ o_wb_cyc' = Bit(~ends)
          /\ o_wb_stb' = IF sent \/ i_wb_err(in) THEN 0 ELSE o_wb_stb
          /\ o_busy' = IF ends THEN 0 ELSE o_busy
          /\ wb_state' = IF ends THEN "IDLE" ELSE "READ"
    /\ UNCHANGED o_wb_data

FsmWrite(in) ==
    /\ r_wdt_reset = 0 /\ wb_state = "WRITE"
    /\ o_wb_data' = IF o_busy = 0 THEN o_data.val ELSE o_wb_data
    /\ LET look == i_stb /\ o_wb_stb = 0
           ends == look /\ o_busy = 1 /\ ~IsWrite(o_data) /\ zero_acks = 1
           more == look /\ o_busy = 1 /\ IsWrite(o_data)
           take == look /\ o_busy = 0
       IN IF i_wb_err(in)
          THEN /\ wb_state' = "FLUSH"
               /\ o_wb_cyc' = 0 /\ o_wb_stb' = 0 /\ o_busy' = 1
          ELSE /\ wb_state' = IF ends THEN "IDLE" ELSE "WRITE"
               /\ o_wb_cyc' = Bit(~ends)
               /\ o_wb_stb' = IF take THEN 1
                              ELSE IF in.stall = 0 THEN 0 ELSE o_wb_stb
               /\ o_busy' = Bit(~(ends \/ more))

FsmFlush ==
    /\ r_wdt_reset = 0 /\ wb_state = "FLUSH"
    /\ LET ends == i_stb /\ ~IsWrite(o_data)
       IN /\ wb_state' = IF ends THEN "IDLE" ELSE "FLUSH"
          /\ o_busy' = Bit(~ends)
    /\ o_wb_cyc' = 0 /\ o_wb_stb' = 0
    /\ UNCHANGED o_wb_data

Fsm(in) == \/ FsmReset \/ FsmIdle \/ FsmRead(in) \/ FsmWrite(in) \/ FsmFlush

-----------------------------------------------------------------------------
(* The address, the direction and whether the host must be told the address. *)
NextAddr(in) ==
    IF fifo_rd /\ o_data.op = "abs" THEN o_data.val
    ELSE IF fifo_rd /\ o_data.op = "rel" THEN Plus(o_wb_addr, o_data.val)
    ELSE IF o_wb_stb = 1 /\ in.stall = 0 /\ r_inc = 1 THEN Plus(o_wb_addr, 1)
    ELSE o_wb_addr

Addresses(in) ==
    /\ o_wb_we' = IF wb_state = "IDLE" THEN Bit(~Bit35(o_data)) ELSE o_wb_we
    /\ r_inc'   = IF wb_state = "IDLE" THEN o_data.inc ELSE r_inc
    /\ o_wb_addr' = NextAddr(in)
    /\ r_new_addr' = IF r_wdt_reset = 1 THEN 1
                     ELSE IF o_wb_cyc = 0 /\ i_stb /\ ~Bit35(o_data) THEN 1
                     ELSE IF o_wb_cyc = 1 THEN 0 ELSE r_new_addr

(* The codewords that go back to the host.                                   *)
Answers(in) ==
    IF r_wdt_reset = 1 THEN o_stb' = 1 /\ o_codword' = "reset"
    ELSE IF o_wb_cyc = 0
         THEN /\ o_stb' = Bit(fifo_rd /\ o_data.op = "read" /\ r_new_addr = 1)
              /\ o_codword' = "addr"
         ELSE /\ o_stb' = Bit(in.resp # "none")
              /\ o_codword' = IF i_wb_err(in) THEN "err"
                              ELSE IF o_wb_we = 1 THEN "ack" ELSE "read"

-----------------------------------------------------------------------------
(* Counting.  Every flag predicts a count one clock ahead.                   *)
AckCount(in) ==
    IF r_wdt_reset = 1 \/ o_wb_cyc = 0 THEN 0
    ELSE IF o_wb_stb = 1 /\ in.stall = 0 /\ ~i_wb_ack(in)
         THEN IF r_acks_needed = ACKS - 1 THEN 0 ELSE r_acks_needed + 1
    ELSE IF ~(o_wb_stb = 1 /\ in.stall = 0) /\ i_wb_ack(in)
         THEN IF r_acks_needed = 0 THEN ACKS - 1 ELSE r_acks_needed - 1
    ELSE r_acks_needed

ZeroAcksBug(in) ==                      \* an ack clears it whatever is left
    IF r_wdt_reset = 1 \/ o_wb_cyc = 0 THEN 1
    ELSE IF i_wb_ack(in) THEN 1
    ELSE IF o_wb_stb = 1 /\ in.stall = 0 THEN 0 ELSE zero_acks

ZeroAcks(in) ==
    IF r_wdt_reset = 1 \/ o_wb_cyc = 0 THEN 1
    ELSE IF o_wb_stb = 1 /\ in.stall = 0 /\ ~i_wb_ack(in) THEN 0
    ELSE IF ~(o_wb_stb = 1 /\ in.stall = 0) /\ i_wb_ack(in)
         THEN Bit(r_acks_needed = 1)
    ELSE zero_acks

LastAckBug(in) ==                       \* does not see this clock's ack
    IF o_wb_cyc = 0 THEN Bit(o_data.op = "read" /\ o_data.val <= 1)
    ELSE Bit(o_wb_we = 0 /\ r_len + r_acks_needed <= 2)

LastAck(in) ==
    IF o_wb_cyc = 0 THEN Bit(o_data.op = "read" /\ o_data.val <= 1)
    ELSE Bit(/\ o_wb_we = 0
             /\ r_len + r_acks_needed <= 1 + (IF i_wb_ack(in) THEN 1 ELSE 0))

LastReadBug(in) ==                      \* forgets the request just accepted
    IF o_wb_cyc = 0 THEN Bit(o_data.val <= 1) ELSE Bit(r_len <= 1)

LastRead(in) ==
    IF o_wb_cyc = 0 THEN Bit(o_data.val <= 1)
    ELSE IF o_wb_stb = 1 /\ in.stall = 0 THEN Bit(r_len <= 2)
    ELSE Bit(r_len <= 1)

Counting(in) ==
    /\ r_acks_needed' = AckCount(in)
    /\ zero_acks' = ZeroAcks(in)
    /\ last_ack' = LastAck(in)
    /\ r_len' = IF o_wb_cyc = 0 THEN o_data.val
                ELSE IF o_wb_stb = 1 /\ in.stall = 0 /\ r_len # 0
                     THEN r_len - 1 ELSE r_len
    /\ single_read_request' = IF o_wb_cyc = 0 THEN Bit(o_data.val <= 1)
                              ELSE single_read_request
    /\ last_read_request' = LastRead(in)

-----------------------------------------------------------------------------
(* wbuconsole.v: the input FIFO and the watchdog.                            *)
Fifo(in) ==
    LET moves == (fifo_rd \/ o_empty_n = 0) /\ ring # <<>>
        kept  == IF moves THEN Tail(ring) ELSE ring
    IN /\ o_data' = IF moves THEN Head(ring) ELSE o_data
       /\ IF r_wdt_reset = 1
          THEN ring' = <<>> /\ o_empty_n' = 0
          ELSE /\ ring' = IF in.word # None THEN Append(kept, in.word) ELSE kept
               /\ o_empty_n' = IF fifo_rd \/ o_empty_n = 0 THEN Bit(ring # <<>>)
                               ELSE o_empty_n

WatchdogBug(in) ==                      \* a new request calms it, too
    LET calm == o_wb_cyc = 0 \/ i_wb_ack(in) \/ o_wb_stb = 1
    IN /\ r_wdt_timer' = IF calm \/ r_wdt_timer = WDT - 1
                         THEN 0 ELSE r_wdt_timer + 1
       /\ r_wdt_reset' = Bit(~calm /\ r_wdt_timer = WDT - 1)

Watchdog(in) ==
    LET calm == o_wb_cyc = 0 \/ i_wb_ack(in)
    IN /\ r_wdt_timer' = IF calm \/ r_wdt_timer = WDT - 1
                         THEN 0 ELSE r_wdt_timer + 1
       /\ r_wdt_reset' = Bit(~calm /\ r_wdt_timer = WDT - 1)

(* The bus forgets a cycle when CYC falls.                                   *)
Bus(in) == pending' = IF o_wb_cyc' = 0 THEN <<>>
                      ELSE IF in.resp # "none" THEN Tail(Accepted(in))
                      ELSE Accepted(in)

-----------------------------------------------------------------------------
(* The observer reads every codeword the engine takes and writes down, in
   order, the bus requests it asks for.  An error or a reset ends the command:
   what it still asked for is dropped, and the address is whatever it is.    *)
Asked == CASE o_data.op = "write" -> <<[we |-> 1, addr |-> want,
                                        data |-> o_data.val]>>
           [] o_data.op = "read"  -> [i \in 1 .. o_data.val |->
                                        [we |-> 0, data |-> 0,
                                         addr |-> Plus(want,
                                                       (i - 1) * o_data.inc)]]
           [] OTHER -> <<>>

Observe(in) ==
    LET left == IF accept(in) /\ todo # <<>> THEN Tail(todo) ELSE todo
    IN /\ IF r_wdt_reset = 1 \/ i_wb_err(in)
          THEN todo' = <<>> /\ want' = NextAddr(in)
          ELSE IF ~fifo_rd THEN todo' = left /\ UNCHANGED want
          ELSE /\ todo' = left \o Asked
               /\ want' = CASE o_data.op = "abs" -> o_data.val
                            [] o_data.op = "rel" -> Plus(want, o_data.val)
                            [] OTHER -> Plus(want, o_data.inc * Len(Asked))
       /\ burst' = IF in.word = None THEN burst
                   ELSE IF IsWrite(in.word) THEN in.word.inc ELSE -1

-----------------------------------------------------------------------------
Init ==
    /\ wb_state = "IDLE" /\ o_wb_cyc = 0 /\ o_wb_stb = 0 /\ o_busy = 0
    /\ o_wb_we = 0 /\ o_wb_addr = 0 /\ o_wb_data = 0 /\ r_inc = 0
    /\ r_new_addr = 1 /\ o_stb = 0 /\ o_codword = "addr"
    /\ r_acks_needed = 0 /\ zero_acks = 1 /\ last_ack = 0 /\ r_len = 0
    /\ single_read_request = 0 /\ last_read_request = 0
    /\ ring = <<>> /\ o_data = None /\ o_empty_n = 0
    /\ r_wdt_timer = 0 /\ r_wdt_reset = 0
    /\ pending = <<>> /\ todo = <<>> /\ want = 0 /\ burst = -1

Clock(in) ==
    /\ BusRules(in) /\ HostRules(in)
    /\ Fsm(in)
    /\ Addresses(in)
    /\ Answers(in)
    /\ Counting(in)
    /\ Fifo(in)
    /\ Watchdog(in)
    /\ Bus(in)
    /\ Observe(in)

Next == \E in \in Input : Clock(in)

Spec == Init /\ [][Next]_vars

-----------------------------------------------------------------------------
WbRequest == [we : Bits, addr : Address, data : Nat]

TypeOK ==
    /\ wb_state \in {"IDLE", "READ", "WRITE", "FLUSH"}
    /\ o_wb_cyc \in Bits /\ o_wb_stb \in Bits /\ o_busy \in Bits
    /\ o_wb_we \in Bits /\ r_inc \in Bits /\ r_new_addr \in Bits
    /\ o_stb \in Bits /\ zero_acks \in Bits /\ last_ack \in Bits
    /\ single_read_request \in Bits /\ last_read_request \in Bits
    /\ o_empty_n \in Bits /\ r_wdt_reset \in Bits
    /\ o_wb_addr \in Address /\ want \in Address /\ o_wb_data \in Nat
    /\ r_acks_needed \in 0 .. ACKS - 1 /\ r_len \in Nat
    /\ r_wdt_timer \in 0 .. WDT - 1
    /\ o_data \in Codeword \cup {None} /\ ring \in Seq(Codeword)
    /\ o_empty_n = 1 => o_data \in Codeword
    /\ pending \in Seq(WbRequest) /\ Len(pending) <= MaxOut
    /\ todo \in Seq(WbRequest)

(* The ack counter and its one-clock-ahead flag count exactly the requests that
   the bus has accepted and not answered (the assertion at wbuexec.v:349, and
   what it is for): whatever the order of accepts, stalls, acks and errors.  *)
AcksAgree ==
    /\ zero_acks = 1 <=> r_acks_needed = 0
    /\ o_wb_cyc = 1 => r_acks_needed = Len(pending)
    /\ o_wb_cyc = 0 => pending = <<>>

(* What is left to issue and to answer, state by state: the flags that end a
   read (single_read_request, last_read_request, last_ack) are never early.  *)
CountInv ==
    /\ o_wb_cyc = 1 <=> wb_state \in {"READ", "WRITE"}
    /\ o_wb_stb = 1 => o_wb_cyc = 1
    /\ wb_state = "IDLE" => o_busy = 0
    /\ wb_state \in {"READ", "FLUSH"} => o_busy = 1
    /\ wb_state \in {"IDLE", "FLUSH"} => todo = <<>>
    /\ wb_state = "WRITE" =>
         /\ o_wb_we = 1 /\ Len(todo) = o_wb_stb
         /\ o_busy = 0 => i_stb /\ IsWrite(o_data) /\ o_wb_stb = 0
    /\ wb_state = "READ" =>
         /\ o_wb_we = 0 /\ Len(todo) = r_len
         /\ o_wb_stb = 1 <=> r_len > 0
         /\ o_wb_stb = 1 => /\ last_read_request = 1 <=> r_len <= 1
                            /\ single_read_request = 1 => r_len <= 1
         /\ last_ack = 1 => r_len + r_acks_needed <= 1

(* The inductive invariant.                                                  *)
ExecInv == TypeOK /\ AcksAgree /\ CountInv

(* Every request on the bus is the next one the host's codewords ask for, with
   its address, data and direction; none is skipped, repeated or left over
   when the engine returns to idle.                                          *)
IssuedAsCommanded ==
    /\ o_wb_stb = 1 => todo # <<>> /\ Request = Head(todo)
    /\ wb_state = "IDLE" => todo = <<>>

(* The cycle never ends, errors and watchdog apart, while a request is
   unanswered: a host waiting for that many answers gets them.               *)
NoAbandonedRequest ==
    [][o_wb_cyc = 1 /\ o_wb_cyc' = 0 =>
         \/ r_wdt_reset = 1
         \/ o_stb' = 1 /\ o_codword' = "err"
         \/ Len(pending) <= o_stb' /\ todo' = <<>>]_vars
=============================================================================
