------------------------------- MODULE EnetCtrl -------------------------------
(* The management port of the Ethernet PHY: the controller rtl/enet/enetctrl.v
   (record `ec`), the simulated PHY sim/verilated/enetctrlsim.cpp (`es`) and the
   testbench that drives the one against the other, enetctrl_tb.cpp (`et`), one
   clock of the testbench at a time.  A register is the sequence of its bits, high
   bit first, where bits are shifted through it.                             *)
EXTENDS Integers, Sequences

CONSTANTS
    EREGS,                          \* the PHY registers that are used
    EWORDS,                         \* the values written to them, 16 bits
    BOMBCOUNT,                      \* 2048
    EMAXOPS                         \* bound: accesses

ASSUME EnetAssumption == EREGS \subseteq 0 .. 31 /\ EWORDS \subseteq 0 .. 65535

VARIABLES ec, es, et
ec_vars == <<ec, es, et>>

EBits(v, n) == [i \in 1 .. n |-> (v \div 2^(n - i)) % 2]
EOnes(n) == [i \in 1 .. n |-> 1]
EValOf[i \in 0 .. 16, s \in Seq({0, 1})] ==
    IF i = 0 THEN 0 ELSE 2 * EValOf[i - 1, s] + s[i]
EVal(s) == EValOf[Len(s), s]
EShift(s, b) == Append(Tail(s), b)
PHY_ADDR == 1
CLKMAX == 3                             \* CLKBITS = 2

-----------------------------------------------------------------------------
(* ENETCTRLSIM.                                                              *)
Init_ENETCTRLSIM ==
    [m_consecutive_clocks |-> 0, m_synched |-> FALSE, m_lastclk |-> 0,
     m_tickcount |-> 0, m_ticks_per_clock |-> 0, m_halfword |-> 0,
     m_datareg |-> EOnes(32), m_outreg |-> EOnes(16), m_mem |-> [a \in 0 .. 31 |-> 0]]

(* A rising clock counts the ones in a row; a clock of another length than the
   last one, or too fast, loses the synchronisation.                         *)
CountClock(s, data) ==
    LET odd == s.m_tickcount # s.m_ticks_per_clock \/ s.m_ticks_per_clock < 4
    IN  [s EXCEPT !.m_consecutive_clocks =
                     IF odd \/ data = 0 THEN 0 ELSE IF @ < 128 THEN @ + 1 ELSE @,
                  !.m_synched = @ /\ ~odd,
                  !.m_ticks_per_clock = s.m_tickcount, !.m_tickcount = 0]
Resynch(s) ==
    IF s.m_consecutive_clocks > 32
    THEN [s EXCEPT !.m_synched = TRUE, !.m_halfword = 0, !.m_datareg = EOnes(32)] ELSE s

(* A bit of a frame: half way through a read is answered, at the end of it a
   write is done.                                                            *)
FrameEndBug(d) == d                     \* the frame is not forgotten
FrameEnd(d) == EOnes(32)

FrameBit(s, data) ==
    LET d    == EShift(s.m_datareg, data)
        cmd(k) == EVal(SubSeq(d, k, k + 3))
        phy(k) == EVal(SubSeq(d, k + 4, k + 8))
        adr(k) == EVal(SubSeq(d, k + 9, k + 13))
    IN  CASE s.m_halfword = 0 /\ d[17] = 0 ->
               [s EXCEPT !.m_datareg = d, !.m_halfword = 1,
                         !.m_outreg = IF cmd(17) = 6 /\ phy(17) = PHY_ADDR
                                      THEN EBits(s.m_mem[adr(17)], 16) ELSE @]
          [] s.m_halfword = 0 /\ d[17] = 1 -> [s EXCEPT !.m_datareg = d]
          [] s.m_halfword \in 1 .. 15 -> [s EXCEPT !.m_datareg = d, !.m_halfword = @ + 1]
          [] OTHER ->
               [s EXCEPT !.m_datareg = FrameEnd(d), !.m_halfword = 0,
                         !.m_mem = IF cmd(1) = 5 /\ phy(1) = PHY_ADDR
                                   THEN [@ EXCEPT ![adr(1)] = EVal(SubSeq(d, 17, 32))] ELSE @]

(* operator(), never in reset here.  It drives the wire low or leaves it.    *)
EnetCall(s, clk, data) ==
    LET t  == [s EXCEPT !.m_tickcount = @ + 1]
        up == clk = 1 /\ s.m_lastclk = 0
        dn == clk = 0 /\ s.m_lastclk = 1
        r  == Resynch(IF up THEN CountClock(t, data) ELSE t)
        f  == IF up /\ r.m_synched THEN FrameBit(r, data)
              ELSE IF dn THEN [r EXCEPT !.m_outreg = EShift(@, 1)] ELSE r
    IN  [f EXCEPT !.m_lastclk = clk]
EnetOut(s, data) == IF data = 1 /\ s.m_outreg[1] = 1 THEN 1 ELSE 0

-----------------------------------------------------------------------------
(* enetctrl.v, its registers clocked together.                               *)
Init_enetctrl ==
    [clk_counter |-> 0, zclk |-> FALSE, read_reg |-> EBits(0, 16), zreg_pos |-> FALSE,
     o_mdio |-> 0, o_mdwe |-> FALSE, in_idle |-> FALSE, o_wb_stall |-> TRUE, o_wb_ack |-> FALSE,
     read_pending |-> FALSE, write_pending |-> FALSE, r_addr |-> 0, r_data |-> 0,
     pre_ack |-> FALSE, reg_pos |-> 63, ctrl_state |-> "RESET", write_reg |-> EOnes(16)]

AckNow(c, wb) == /\ c.ctrl_state \in {"READ", "WRITE"} /\ c.zreg_pos /\ c.zclk
                 /\ c.pre_ack /\ wb.cyc

Posedge(c, wb, i_mdio) ==
    LET take == wb.stb /\ ~c.o_wb_stall
        done == c.zreg_pos /\ c.zclk
        moved == IF c.zclk /\ ~c.zreg_pos THEN (c.reg_pos - 1) % 64 ELSE c.reg_pos
        shifted == IF c.zclk THEN EShift(c.write_reg, 1) ELSE c.write_reg
        pending == c.read_pending \/ c.write_pending
        frame == EBits((IF c.write_pending THEN 5 ELSE IF c.read_pending THEN 6 ELSE 14) * 4096
                       + PHY_ADDR * 128 + c.r_addr * 4 + (IF c.write_pending THEN 2 ELSE 3), 16)
        busy == c.ctrl_state \in {"READ", "WRITE"}
    IN  [clk_counter |-> (c.clk_counter + 1) % (CLKMAX + 1),
         zclk |-> c.clk_counter = CLKMAX - 1,
         read_reg |-> IF c.zclk /\ ~c.zreg_pos THEN EShift(c.read_reg, i_mdio) ELSE c.read_reg,
         zreg_pos |-> c.reg_pos = 0,
         o_mdio |-> IF c.zclk THEN c.write_reg[1] ELSE c.o_mdio,
         in_idle |-> c.ctrl_state = "IDLE",
         o_wb_stall |-> \/ c.ctrl_state # "IDLE"
                        \/ ~c.o_wb_ack /\ ((wb.stb /\ c.in_idle) \/ pending),
         r_addr |-> IF c.o_wb_stall THEN c.r_addr ELSE wb.addr,
         r_data |-> IF c.o_wb_stall THEN c.r_data ELSE wb.data,
         read_pending |-> ~busy /\ (IF take THEN ~wb.we ELSE c.read_pending),
         write_pending |-> ~busy /\ (IF take THEN wb.we ELSE c.write_pending),
         pre_ack |-> wb.cyc /\ (take \/ (c.pre_ack /\ ~c.o_wb_ack)),
         o_wb_ack |-> AckNow(c, wb),
         reg_pos |-> CASE c.ctrl_state = "IDLE" -> 15
                       [] c.ctrl_state = "ADDRESS" /\ done -> 16
                       [] OTHER -> moved,
         o_mdwe |-> CASE c.ctrl_state \in {"RESET", "IDLE", "WRITE"} -> TRUE
                      [] c.ctrl_state = "ADDRESS" ->
                           IF c.zclk THEN c.write_pending \/ c.reg_pos > 1 ELSE c.o_mdwe
                      [] OTHER -> FALSE,
         write_reg |-> CASE c.ctrl_state = "RESET" -> EOnes(16)
                         [] c.ctrl_state = "IDLE" -> IF c.zclk THEN frame ELSE [frame EXCEPT ![1] = 1]
                         [] c.ctrl_state = "ADDRESS" /\ done -> EBits(c.r_data, 16)
                         [] OTHER -> shifted,
         ctrl_state |-> CASE c.ctrl_state = "RESET" /\ done -> "IDLE"
                          [] c.ctrl_state = "IDLE" /\ c.zclk /\ pending -> "ADDRESS"
                          [] c.ctrl_state = "ADDRESS" /\ done -> IF c.read_pending THEN "READ" ELSE "WRITE"
                          [] busy /\ done -> "IDLE"
                          [] OTHER -> c.ctrl_state]

-----------------------------------------------------------------------------
(* ENETCTRL_TB::tick(): the PHY sees what the core drives, then the core's clock
   rises.                                                                    *)
MdData(c) == IF c.o_mdwe /\ c.o_mdio = 0 THEN 0 ELSE 1
MdClk(c) == IF c.clk_counter > CLKMAX \div 2 THEN 1 ELSE 0
ETick(wb) ==
    LET s == EnetCall(es, MdClk(ec), MdData(ec))
    IN  /\ es' = s
        /\ ec' = Posedge(ec, wb, EnetOut(s, MdData(ec)))
ENoBus == [cyc |-> FALSE, stb |-> FALSE, we |-> FALSE, addr |-> 0, data |-> 0]

(* wb_tick(), and the start of wb_read(a) or wb_write(a, v).                  *)
wb_tick == /\ et.at = "idle" /\ et.idled < 1
           /\ et' = [et EXCEPT !.idled = @ + 1]
           /\ ETick([et.wb EXCEPT !.cyc = FALSE, !.stb = FALSE])
wb_start ==
    /\ et.at = "idle" /\ et.ops < EMAXOPS
    /\ \E we \in BOOLEAN, a \in EREGS, v \in EWORDS :
        /\ (~we => v = et.wb.data)
        /\ et' = [et EXCEPT !.at = "strobe", !.errcount = 0, !.ops = @ + 1, !.idled = 0,
                            !.wb = [cyc |-> TRUE, stb |-> TRUE, we |-> we, addr |-> a, data |-> v]]
    /\ UNCHANGED <<ec, es>>

(* Tick until the core stalls no more, tick once with the strobe, then until the
   answer comes; give up when BOMBCOUNT ticks are gone.                      *)
wb_strobe ==
    /\ et.at = "strobe"
    /\ ETick(et.wb)
    /\ et' = IF ec.o_wb_stall /\ et.errcount < BOMBCOUNT
             THEN [et EXCEPT !.errcount = @ + 1]
             ELSE [et EXCEPT !.at = "ack", !.wb.stb = FALSE]
wb_ack ==
    /\ et.at = "ack" /\ ~ec.o_wb_ack /\ et.errcount < BOMBCOUNT
    /\ ETick(et.wb)
    /\ et' = [et EXCEPT !.errcount = @ + 1]
wb_end ==
    /\ et.at = "ack" /\ (ec.o_wb_ack \/ et.errcount >= BOMBCOUNT)
    /\ ETick([et.wb EXCEPT !.cyc = FALSE])
    /\ et' = [et EXCEPT !.at = "idle", !.wb.cyc = FALSE, !.bomb = @ \/ ~ec.o_wb_ack,
                        !.result = EVal(ec.read_reg),
                        !.wrote = IF et.wb.we THEN [@ EXCEPT ![et.wb.addr] = et.wb.data] ELSE @]

EnetInit == /\ ec = Init_enetctrl /\ es = Init_ENETCTRLSIM
            /\ et = [at |-> "idle", wb |-> [ENoBus EXCEPT !.data = CHOOSE v \in EWORDS : TRUE],
                     errcount |-> 0, ops |-> 0, idled |-> 0, bomb |-> FALSE,
                     result |-> 0, wrote |-> [a \in 0 .. 31 |-> 0]]
(* The test bench has made its accesses, and ends.                           *)
EFinished == et.at = "idle" /\ et.ops = EMAXOPS /\ et.idled = 1 /\ UNCHANGED ec_vars
EnetNext == wb_tick \/ wb_start \/ wb_strobe \/ wb_ack \/ wb_end \/ EFinished

-----------------------------------------------------------------------------
(* Between accesses the PHY holds what the bus wrote to it, in every register,
   and a read brought back what the register held: the controller and the PHY
   agree on where each frame begins, however closely the accesses follow.     *)
MdioRegistersRight ==
    et.at = "idle" =>
        /\ es.m_mem = et.wrote
        /\ et.ops > 0 /\ ~et.wb.we => et.result = et.wrote[et.wb.addr]

(* No access runs into the testbench's time limit.                           *)
MdioNeverBombs == ~et.bomb

(* enetctrl.v serves its test bench: every access is answered before the bench
   gives up, and reads and writes the register that it named.                *)
MdioRight == MdioRegistersRight /\ MdioNeverBombs
=============================================================================
