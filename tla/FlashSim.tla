------------------------------ MODULE FlashSim ------------------------------
(* sim/verilated/flashsim.cpp: the serial flash that the simulated board talks
   to, and that the host's flash driver programs.  Its object is the record
   `fl`; the operators below are what one call of FLASHSIM::operator() does to
   it when a byte has come in, when the chip is deselected, and when the timer
   of a program or erase cycle runs out.

   A byte is the set of its one bits, so that programming is an intersection
   and an erased byte is all of them.  A cell of the memory stands for a word.
   The three bytes of an address come in together.  What a byte means depends on the state it arrives in:
   Byte(c, a, d) carries it as a command, as an address and as data.         *)
EXTENDS Integers, FiniteSets

CONSTANTS
    BITS,           \* the bits of a byte, as model values
    PGLEN,          \* cells of a page (256 bytes)
    SECTOR,         \* cells of a sector (65536 bytes)
    CELLS,          \* cells of the memory (m_membytes)
    DEVIDS          \* the IDs that chips give

ASSUME FlashAssumption ==
    /\ PGLEN \in Nat \ {0} /\ SECTOR % PGLEN = 0 /\ CELLS % SECTOR = 0

VARIABLE fl

-----------------------------------------------------------------------------
Cells == 0 .. CELLS - 1
FF    == BITS                                           \* 0xff
NDUMMY == 6                                             \* main_tb.cpp:169
XIP   == -1         \* in a mode byte's address field: 0xA?, stay in this mode

PageOf(a)     == a - (a % PGLEN)
SectorOf(a)   == a - (a % SECTOR)
Byte(c, a, d) == [c |-> c, a |-> a, d |-> d]

Init_FLASHSIM(contents, id) ==
    [id |-> id, m_state |-> "IDLE", m_mode |-> "SPI", m_sreg |-> {}, m_creg |-> {},
     busy |-> FALSE,                    \* m_write_count # 0
     m_addr |-> 0, n |-> 0,             \* bytes since it was selected
     xip |-> FALSE,                     \* m_mode_byte is 0xA?
     m_pmem |-> [i \in 0 .. PGLEN - 1 |-> FF], m_oreg |-> {},
     m_mem |-> contents, ok |-> TRUE]   \* no assert has failed

(* The timer runs out.  The mask is 0x0fc: it also clears WEL, and the flag of
   the deep power down, which is bit 9.                                      *)
WriteComplete(f) ==
    [f EXCEPT !.busy = FALSE, !.m_sreg = @ \ {"WIP", "WEL", "DPD"}]

(* A write or erase begins when the chip is deselected.                      *)
Begin(f) == [f EXCEPT !.busy = TRUE, !.m_state = "IDLE",
                      !.m_sreg = (@ \ {"WEL"}) \cup {"WIP"}]

(* After a read in dual or quad mode the mode byte decides: stay in that mode
   and expect an address next (execute in place), or back to commands.       *)
AfterRead(f, idle) == IF f.xip THEN [f EXCEPT !.m_state = idle]
                               ELSE [f EXCEPT !.m_mode = "SPI"]

Deselected(f) ==
    CASE f.m_state \in {"PP", "QPP"} ->
           [Begin(f) EXCEPT !.m_mode = "SPI",
              !.m_mem = [a \in Cells |->
                           IF PageOf(a) = PageOf(f.m_addr)
                           THEN @[a] \cap f.m_pmem[a % PGLEN] ELSE @[a]]]
      [] f.m_state = "SE" ->
           [Begin(f) EXCEPT !.m_addr = SectorOf(f.m_addr),
              !.m_mem = [a \in Cells |->
                           IF SectorOf(a) = SectorOf(f.m_addr) THEN FF ELSE @[a]]]
      [] f.m_state = "BE"   -> [Begin(f) EXCEPT !.m_mem = [a \in Cells |-> FF]]
      [] f.m_state = "WRSR" -> Begin(f)
      [] f.m_state = "CLSR" -> [f EXCEPT !.m_state = "IDLE", !.m_sreg = @ \ {"DPD"}]
      [] f.m_state = "RELEASE" -> [f EXCEPT !.m_state = "IDLE", !.busy = TRUE]
      [] f.m_state \in {"QUAD_READ_CMD", "QUAD_READ"} -> AfterRead(f, "QUAD_READ_IDLE")
      [] f.m_state \in {"DUAL_READ_CMD", "DUAL_READ"} -> AfterRead(f, "DUAL_READ_IDLE")
      [] OTHER -> f

Deselect(f) == [Deselected(f) EXCEPT !.n = 0, !.m_oreg = FF]

-----------------------------------------------------------------------------
(* The eighth bit: a command.                                                *)
Guarded == {"WRSR", "PP", "QPP", "SE", "BE"}            \* need WEL alone

Command(f, c) ==
    CASE "DPD" \in f.m_sreg /\ c # "RDP" -> f           \* asleep
      [] c \in Guarded ->
           [f EXCEPT !.m_state = IF f.m_sreg = {"WEL"} THEN c ELSE "INVALID"]
      [] c = "WREN" -> [f EXCEPT !.m_state = "IDLE", !.m_sreg = @ \cup {"WEL"}]
      [] c = "WRDI" -> [f EXCEPT !.m_state = "IDLE", !.m_sreg = @ \ {"WEL"}]
      [] c = "RDSR" -> [f EXCEPT !.m_state = c, !.m_oreg = f.m_sreg]
      [] c = "RDCR" -> [f EXCEPT !.m_state = c, !.m_oreg = f.m_creg]
      [] c \in {"SLOW_READ", "FAST_READ", "CLSR", "RDID"} -> [f EXCEPT !.m_state = c]
      [] c = "QIOR" -> [f EXCEPT !.m_state = "QUAD_READ_CMD", !.m_mode = "QSPI"]
      [] c = "DIOR" -> [f EXCEPT !.m_state = "DUAL_READ_CMD", !.m_mode = "DSPI"]
      [] c = "RDP"  -> [f EXCEPT !.m_state = "RELEASE", !.m_sreg = @ \ {"DPD"},
                                 !.busy = @ \/ "DPD" \in f.m_sreg]
      [] c = "DP"   -> IF "WIP" \in f.m_sreg THEN [f EXCEPT !.m_state = "INVALID"]
                       ELSE [f EXCEPT !.m_state = "IDLE", !.m_sreg = @ \cup {"DPD"}]
      [] c = "FSR"  -> [f EXCEPT !.m_state = "IDLE", !.m_oreg = {}]  \* 50, 61, 70
      [] c = "ECR"  -> [f EXCEPT !.m_oreg = {}]                      \* 81
      [] c = "NOP"  -> [f EXCEPT !.m_state = "IDLE", !.m_mode = "SPI"] \* 00, 31, ff

-----------------------------------------------------------------------------
(* A byte later: an address, a mode byte, data in, data out.                 *)
Addressed == {"SLOW_READ", "FAST_READ", "DUAL_READ_CMD", "QUAD_READ_CMD",
              "PP", "QPP", "SE"}
Cell(f, a) == f.m_mem[a % CELLS]
FetchIf(f, may) == IF may THEN [f EXCEPT !.m_oreg = Cell(f, f.m_addr), !.m_addr = @ + 1]
                          ELSE [f EXCEPT !.m_oreg = {}]

TakeAddress(f, b) ==
    LET g == [f EXCEPT !.m_addr = b.a, !.n = 4] IN
    CASE f.m_state = "SLOW_READ" -> FetchIf(g, TRUE)
      [] f.m_state \in {"PP", "QPP"} ->
           [g EXCEPT !.m_pmem = [i \in 0 .. PGLEN - 1 |-> FF],
                     !.m_mode = IF f.m_state = "QPP" THEN "QSPI" ELSE @]
      [] OTHER -> g

TakeData(f, b) ==                       \* f.n counts this byte
    LET idle == "WIP" \notin f.m_sreg IN
    CASE f.m_state \in {"SLOW_READ", "FAST_READ"} -> FetchIf(f, idle)
      [] f.m_state = "DUAL_READ_CMD" ->
           FetchIf(IF f.n = 5 /\ idle THEN [f EXCEPT !.xip = (b.a = XIP)] ELSE f, idle)
      [] f.m_state = "QUAD_READ_CMD" ->
           IF f.n = 5 THEN [f EXCEPT !.xip = (b.a = XIP)] ELSE FetchIf(f, idle /\ f.n > 4 + NDUMMY \div 2)
      [] f.m_state = "DUAL_READ" ->
           FetchIf(IF f.n = 5 THEN [f EXCEPT !.xip = (b.a = XIP)] ELSE f, TRUE)
      [] f.m_state = "QUAD_READ" ->
           IF f.n = 5 THEN [f EXCEPT !.xip = (b.a = XIP)] ELSE FetchIf(f, idle /\ f.n >= 4 + NDUMMY \div 2)
      [] f.m_state \in {"PP", "QPP"} ->
           [f EXCEPT !.m_pmem[f.m_addr % PGLEN] = b.d,
                     !.m_addr = PageOf(f.m_addr) + ((f.m_addr + 1) % PGLEN)]
      [] f.m_state = "WRSR" ->
           IF f.n = 2 THEN [f EXCEPT !.m_sreg = @ \cap {"WIP"}]
           ELSE IF f.n = 3 THEN [f EXCEPT !.m_creg = b.d]
           ELSE [f EXCEPT !.ok = FALSE]                 \* exit
      [] f.m_state = "CLSR" -> [f EXCEPT !.ok = FALSE]  \* assert
      [] f.m_state = "RDSR" -> [f EXCEPT !.m_oreg = f.m_sreg]
      [] f.m_state = "RDCR" -> [f EXCEPT !.m_oreg = f.m_creg]
      [] OTHER -> [f EXCEPT !.m_oreg = {}]

(* An address in quad-read idle, or in dual-read idle: three bytes.          *)
IdleRead(f, b, read) == [f EXCEPT !.m_addr = b.a, !.m_state = read, !.n = 4, !.m_oreg = {},
                                  !.ok = @ /\ "DPD" \notin f.m_sreg]

(* A byte in the mode that the chip is in; n stops counting where no state
   looks at it any more.                                                     *)
Transfer(f, b) ==
    CASE f.m_state = "QUAD_READ_IDLE" -> IdleRead(f, b, "QUAD_READ")
      [] f.m_state = "DUAL_READ_IDLE" -> IdleRead(f, b, "DUAL_READ")
      [] f.n = 0 -> [Command(f, b.c) EXCEPT !.n = 1]
      [] f.n = 1 /\ f.m_state \in Addressed -> TakeAddress(f, b)
      [] OTHER -> LET g == [f EXCEPT !.n = IF @ = 9 THEN 9 ELSE @ + 1]
                  IN  TakeData(g, b)

(* Eight clocks of single-bit SPI are four bytes to a chip in quad mode: in
   quad-read idle an address and a mode byte that is not 0xA?, then reads.   *)
LowSpeed(f, b) ==
    IF f.m_mode = "QSPI"
    THEN [f EXCEPT !.m_state = IF @ = "QUAD_READ_IDLE" THEN "QUAD_READ" ELSE @,
                   !.xip = IF f.n = 0 THEN FALSE ELSE @, !.n = 9, !.m_oreg = {}]
    ELSE Transfer(f, b)
=============================================================================
