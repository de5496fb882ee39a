---------------------------- MODULE DdrSdramSim ----------------------------
(* sim/verilated/ddrsdramsim.cpp: the DDR3 memory of the simulation, and a
   controller that keeps to the timing of the part.

   The record `dd` is the object DDRSDRAMSIM, and one call of its operator() is
   a step.  The circular buffer of time slots is kept from m_busloc on: place 1
   is the slot that a call ends with.  The record `dc` is the controller, with
   timers of its own: it does not look into the memory.  A burst has DBURST
   words (four), and a column is one burst.                                  *)
EXTENDS Integers, Sequences, FiniteSets

CONSTANTS
    NBANKS, DROWS, DBURST, DVALS,   \* banks, rows, words of a burst, what words hold
    ckCL, ckRP, ckRFC, ckREFI,      \* the latencies, in clocks
    NTIMESLOTS,                     \* slots of the bus
    MINCOUNT                        \* clocks a step of the reset takes at least

ASSUME DdrAssumption ==
    /\ NTIMESLOTS > ckCL + DBURST /\ ckCL > 3 /\ ckRP \in Nat \ {0}
    /\ ckREFI > ckRFC + ckRP

VARIABLES dd, dc
dd_vars == <<dd, dc>>

-----------------------------------------------------------------------------
DBanks == 0 .. NBANKS - 1
MemAddr == DROWS \X DBanks \X (0 .. DBURST - 1)
FreeSlot == [m_used |-> FALSE, m_read |-> FALSE, m_rtt |-> FALSE,
             m_addr |-> <<0, 0, 0>>, m_data |-> 0]
AllOnes == 2 ^ ckRP - 1
DdrCmd(c, ba, row) == [c |-> c, ba |-> ba, row |-> row]
DDR_NOOP == DdrCmd("NOOP", 0, 0)
PRECHARGE_ALL == DdrCmd("PRECHARGE", 0, 1)          \* addr & 0x400
Hits(cmd, b) == b = cmd.ba \/ cmd = PRECHARGE_ALL

Init_DDRSDRAMSIM ==
    [m_reset_state |-> 0, m_reset_counts |-> 0,
     m_bus |-> [i \in 1 .. NTIMESLOTS |-> FreeSlot],
     m_bank |-> [b \in DBanks |-> [m_state |-> 0, m_row |-> 0]],
     m_clocks_since_refresh |-> 0,
     m_last_dqs |-> FALSE, m_last_rtt |-> FALSE,
     m_mem |-> [a \in MemAddr |-> 0], vl |-> 0, ok |-> TRUE]

-----------------------------------------------------------------------------
(* BANKINFO::tick.  m_state is a shift register: a bank is open when it is all
   ones, ckRP - 1 clocks after the activation, closed when it is all zeros.  *)
BankTick(k, c, row) ==
    CASE c = "PRECHARGE" -> [k EXCEPT !.m_state = @ - (@ % 2)]
      [] c = "ACTIVATE"  -> [m_state |-> 1, m_row |-> row]
      [] c = "NOOP"      -> [k EXCEPT !.m_state = (2 * @ + (@ % 2)) % (2 ^ ckRP)]
      [] OTHER           -> k
BankOk(k, c) ==
    CASE c \in {"REFRESH", "ACTIVATE", "ZQS"} -> k.m_state = 0
      [] c \in {"READ", "WRITE"}              -> k.m_state = AllOnes
      [] OTHER                                -> TRUE

(* One bank gets the command, the others a NOOP; or all get it.              *)
TickBanks(d, cmd, all) ==
    LET got(b) == IF all \/ Hits(cmd, b) THEN cmd.c ELSE "NOOP"
    IN  [d EXCEPT !.m_bank = [b \in DBanks |-> BankTick(d.m_bank[b], got(b), cmd.row)],
                  !.ok = @ /\ \A b \in DBanks : BankOk(d.m_bank[b], got(b))]

(* The steps of the power up, each after its time: reset_n, cke, the mode
   registers, ZQS, PRECHARGE, REFRESH.                                       *)
ResetCommands == [i \in 2 .. 7 |-> IF i <= 4 THEN "MRSET" ELSE IF i = 5 THEN "ZQS"
                                   ELSE IF i = 6 THEN "PRECHARGE" ELSE "REFRESH"]
ResetStep(d, cmd) ==
    LET s     == d.m_reset_state
        moves == IF s < 2 THEN cmd.c = "UP" ELSE IF s = 8 THEN d.m_reset_counts >= MINCOUNT
                 ELSE cmd.c # "NOOP"
        d1    == [d EXCEPT !.m_reset_counts = IF moves THEN 0
                                ELSE IF @ = MINCOUNT THEN @ ELSE @ + 1,
                           !.m_reset_state = IF ~moves THEN @ ELSE IF s = 8 THEN 16 ELSE s + 1,
                           !.m_clocks_since_refresh = IF s = 7 /\ moves THEN 1
                                                        ELSE IF @ = ckREFI THEN @ ELSE @ + 1,
                           !.ok = /\ @
                                  /\ s = 8 => cmd.c = "NOOP"
                                  /\ s < 8 /\ moves => d.m_reset_counts >= MINCOUNT
                                  /\ s \in 2 .. 7 /\ moves => cmd = DdrCmd(ResetCommands[s], 0, 1)]
    IN  TickBanks(d1, IF cmd.c = "UP" THEN DDR_NOOP ELSE cmd, TRUE)

-----------------------------------------------------------------------------
(* A read or write takes the slots ckCL clocks on; a read takes its data now,
   a write when its slot comes.                                              *)
ScheduleBug(d, cmd) ==                  \* slots of a read one late
    LET row == d.m_bank[cmd.ba].m_row IN
    [d EXCEPT !.m_bus = [i \in 1 .. NTIMESLOTS |->
        LET a == <<row, cmd.ba, i - (ckCL + 3)>> IN
        IF i - (ckCL + 3) \in 0 .. DBURST - 1
        THEN [@[i] EXCEPT !.m_used = TRUE, !.m_read = (cmd.c = "READ"), !.m_addr = a,
                          !.m_data = IF cmd.c = "READ" THEN d.m_mem[a] ELSE @]
        ELSE @[i]]]

Schedule(d, cmd) ==
    LET row == d.m_bank[cmd.ba].m_row IN
    [d EXCEPT !.m_bus = [i \in 1 .. NTIMESLOTS |->
        LET a == <<row, cmd.ba, i - (ckCL + 2)>> IN
        IF i - (ckCL + 2) \in 0 .. DBURST - 1
        THEN [@[i] EXCEPT !.m_used = TRUE, !.m_read = (cmd.c = "READ"), !.m_addr = a,
                          !.m_data = IF cmd.c = "READ" THEN d.m_mem[a] ELSE @]
        ELSE @[i]]]

Operate(d, cmd, dqs) ==
    LET d1 == [d EXCEPT !.m_clocks_since_refresh = @ + 1,
                        !.ok = /\ @ /\ d.m_clocks_since_refresh + 1 < ckREFI
                               /\ cmd.c \notin {"MRSET", "ZQS", "UP"}
                               /\ cmd.c = "ACTIVATE" => d.m_clocks_since_refresh + 1 >= ckRFC
                               /\ dqs => d.m_bus[2].m_rtt /\ d.m_last_rtt
                               /\ ~dqs /\ ~d.m_last_dqs => ~d.m_last_rtt]
        d2 == TickBanks(d1, cmd, cmd.c = "NOOP")
    IN  IF cmd.c \in {"READ", "WRITE"} THEN Schedule(d2, cmd) ELSE d2

Refresh(d, cmd) == TickBanks([d EXCEPT !.m_clocks_since_refresh = 0], cmd, TRUE)

(* The bus moves on by a slot, whatever the command was.                     *)
MoveBus(d, dqs, busoe, odt, data) ==
    LET ts    == d.m_bus[2]
        nxtts == d.m_bus[3]
        bus   == Tail(d.m_bus) \o <<d.m_bus[1]>>
    IN  [d EXCEPT
           !.m_bus = [bus EXCEPT ![1] = [FreeSlot EXCEPT !.m_data = ts.m_data],
                                 ![4].m_rtt = odt],
           !.m_mem = IF ts.m_used /\ ~ts.m_read THEN [@ EXCEPT ![ts.m_addr] = data] ELSE @,
           !.m_last_dqs = dqs, !.m_last_rtt = ts.m_rtt,
           !.vl = IF busoe THEN data ELSE ts.m_data,
           !.ok = /\ @
                  /\ ts.m_used => (ts.m_read \/ busoe)
                  /\ ts.m_used => (dqs = ~ts.m_read)
                  /\ ~ts.m_used /\ ~nxtts.m_used => ~dqs]

DdrCall(d, cmd, dqs, busoe, odt, data) ==
    MoveBus(IF d.m_reset_state < 16 THEN ResetStep(d, cmd)
            ELSE IF cmd.c = "REFRESH" THEN Refresh(d, cmd) ELSE Operate(d, cmd, dqs),
            dqs, busoe, odt, data)

-----------------------------------------------------------------------------
(* The controller.  plan[i] is what it expects of the bus i clocks on, open[b]
   the row it opened, age[b] the clocks since it opened or closed bank b, since
   the clocks since the last refresh, want the memory if it is obeyed.       *)
Nothing == [k |-> "-", a |-> <<0, 0, 0>>, v |-> 0]
PlanLen == ckCL + DBURST - 1
None == -1

Planned(k, b, v) ==
    [i \in 1 .. PlanLen |->
        IF i >= ckCL THEN LET a == <<dc.open[b], b, i - ckCL>>
                         IN [k |-> k, a |-> a, v |-> IF k = "r" THEN dc.want[a] ELSE v]
        ELSE IF i < PlanLen THEN dc.plan[i + 1] ELSE Nothing]
Later == [i \in 1 .. PlanLen |-> IF i < PlanLen THEN dc.plan[i + 1] ELSE Nothing]

(* A clock: the command, with what the strobes must be for the plan.         *)
DdrClock(cmd, plan) ==
    LET now == dc.plan[1]
        wr  == now.k = "w"
    IN  /\ dd' = DdrCall(dd, cmd, wr, wr,
                         plan[3].k = "w" \/ plan[4].k = "w", now.v)
        /\ dc' = [dc EXCEPT !.plan = plan, !.last = now,
                    !.since = IF cmd.c = "REFRESH" THEN 0 ELSE IF @ = ckREFI THEN @ ELSE @ + 1,
                    !.age = [b \in DBanks |->
                               IF cmd.c \in {"PRECHARGE", "ACTIVATE"} /\ Hits(cmd, b) THEN 0
                               ELSE IF @[b] = ckRP THEN ckRP ELSE @[b] + 1],
                    !.open = [b \in DBanks |->
                               IF cmd.c = "PRECHARGE" /\ Hits(cmd, b) THEN None
                               ELSE IF cmd.c = "ACTIVATE" /\ b = cmd.ba THEN cmd.row ELSE @[b]],
                    !.want = IF cmd.c # "WRITE" THEN @
                             ELSE [a \in MemAddr |-> IF \E i \in 1 .. PlanLen : i >= ckCL /\ plan[i].a = a
                                                     THEN plan[PlanLen].v ELSE @[a]]]

Up == dd.m_reset_state = 16
InTime == dc.since < ckREFI - ckRP - 3          \* else: close and refresh
BusFree == \A i \in ckCL + 1 .. PlanLen : dc.plan[i].k = "-"
Written == \A i \in 1 .. PlanLen : dc.plan[i].k # "w"

DdrReset == /\ ~Up
            /\ \/ DdrClock(DDR_NOOP, Later)
               \/ /\ dd.m_reset_counts = MINCOUNT /\ dd.m_reset_state # 8
                  /\ DdrClock(DdrCmd(IF dd.m_reset_state < 2 THEN "UP"
                                     ELSE ResetCommands[dd.m_reset_state], 0, 1), Later)
DdrWait == /\ Up /\ dc.since < ckREFI - 2 /\ DdrClock(DDR_NOOP, Later)
           /\ \/ InTime
              \/ (\A b \in DBanks : dc.open[b] = None) /\ \E b \in DBanks : dc.age[b] < ckRP
DdrActivate == /\ Up /\ InTime /\ dc.since >= ckRFC - 1
               /\ \E b \in DBanks, r \in DROWS :
                     /\ dc.open[b] = None /\ dc.age[b] >= ckRP
                     /\ DdrClock(DdrCmd("ACTIVATE", b, r), Later)
DdrAccess == /\ Up /\ InTime /\ BusFree
             /\ \E b \in DBanks :
                   /\ dc.open[b] # None /\ dc.age[b] >= ckRP - 1
                   /\ \/ /\ Written
                         /\ DdrClock(DdrCmd("READ", b, 0), Planned("r", b, 0))
                      \/ \E v \in DVALS : DdrClock(DdrCmd("WRITE", b, 0), Planned("w", b, v))
DdrPrecharge == /\ Up
                /\ \E b \in DBanks : /\ dc.open[b] # None
                                     /\ \/ DdrClock(PRECHARGE_ALL, Later)
                                        \/ InTime /\ DdrClock(DdrCmd("PRECHARGE", b, 0), Later)
DdrRefresh == /\ Up /\ \A b \in DBanks : dc.open[b] = None /\ dc.age[b] >= ckRP
              /\ DdrClock(DdrCmd("REFRESH", 0, 0), Later)

DdrInit == /\ dd = Init_DDRSDRAMSIM
           /\ dc = [plan |-> [i \in 1 .. PlanLen |-> Nothing], last |-> Nothing, since |-> 0,
                    age |-> [b \in DBanks |-> ckRP], open |-> [b \in DBanks |-> None],
                    want |-> [a \in MemAddr |-> 0]]
DdrNext == DdrReset \/ DdrWait \/ DdrActivate \/ DdrAccess \/ DdrPrecharge \/ DdrRefresh

-----------------------------------------------------------------------------
(* No assert of the memory fails on a controller that keeps to the timing: its
   shift registers and slots measure what the part's data sheet asks for.    *)
DdrNeverAsserts == dd.ok

(* What is read, ckCL clocks after the command, is what was last written to
   that word, in the order of the commands, across rows and banks.           *)
DdrReadsRight == dc.last.k = "r" => dd.vl = dc.last.v

(* Once no write is under way, the memory holds all of them.                 *)
DdrWritesLand == Written => dd.m_mem = dc.want

(* The simulated DDR3 is a memory to a controller that keeps to the timing: no
   assert fails, reads return what was written last, and writes land.        *)
DdrMemoryRight == DdrNeverAsserts /\ DdrReadsRight /\ DdrWritesLand
=============================================================================
