------------------------------ MODULE SdSpiSim ------------------------------
(* sim/verilated/sdspisim.cpp: the SD card of the simulated board, and a master
   that brings it up and reads and writes blocks as the SD controller does.

   The record `sd` is the object SDSPISIM, `sm` the master.  The step is the
   byte: what operator() does once the eighth bit is in.  The six bytes of a
   command come in together; a block has SDBYTES data bytes, and its two CRC
   bytes are one, which is right or wrong.                                   *)
EXTENDS Integers, Sequences

CONSTANTS
    SDBLOCKS,       \* m_devblocks
    SDBYTES,        \* data bytes of a block (SECTOR_SIZE)
    SDDATA,         \* what a data byte can be
    RSPLEN,         \* response bytes given (SDSPI_RSPLEN)
    BLKDLY          \* bytes before a block starts (60)

ASSUME SdAssumption == /\ SDBLOCKS \in Nat \ {0} /\ SDBYTES \in Nat \ {0}
                       /\ RSPLEN \in Nat \ {0} /\ BLKDLY \in Nat

VARIABLES sd, sm
sd_vars == <<sd, sm>>

-----------------------------------------------------------------------------
SdByte(k, v) == [k |-> k, v |-> v]      \* "ff", "fe", "data", "crc", "cmd", "r"
FFbyte   == SdByte("ff", 0)
Token    == SdByte("fe", 0)             \* before the data of a block
Reply(v) == SdByte("r", v)              \* R1, or the data response
Blocks   == 0 .. SDBLOCKS - 1
blockcrc(d) == SdByte("crc", d)

Init_SDSPISIM(file) ==
    [m_reset_state |-> "POWERUP_RESET", m_powerup_busy |-> "never",   \* -1
     m_altcmd_flag |-> FALSE, m_reading_data |-> FALSE, m_have_token |-> FALSE,
     m_cmdidx |-> 0, m_cmdbuf |-> [c |-> 0, arg |-> 0],
     m_rspbuf |-> <<>>, m_rspdly |-> 0, m_rspidx |-> 0,
     m_blkdly |-> 0, block |-> <<>>,    \* m_block_buf from m_blkidx on
     rx |-> <<>>,                       \* m_block_buf up to m_rxloc
     m_dev |-> file, pos |-> 0,         \* the file and where it stands
     m_dat_out |-> FFbyte, ok |-> TRUE] \* no assert has failed

(* Deselected.  What is being written, and the delays, are kept.             *)
SdDeselected(f) == [f EXCEPT !.m_cmdidx = 0, !.m_rspidx = 0, !.m_dat_out = FFbyte]

(* m_powerup_busy counts down with every call of operator().                 *)
PoweredUp(f) == [f EXCEPT !.m_powerup_busy = "done"]

-----------------------------------------------------------------------------
(* The commands.  CMD(c) is what a case of the switch does.                  *)
Busy(f) == f.m_powerup_busy # "done"
Operating(f) == f.m_reset_state = "IN_OPERATION"
Answered(f, rsp, dly) == [f EXCEPT !.m_rspbuf = rsp, !.m_rspdly = dly, !.block = <<>>]

SendBlock(f, data) ==                   \* the start token, data, CRC
    [f EXCEPT !.m_rspbuf = <<Reply(0)>>, !.m_blkdly = BLKDLY, !.ok = @ /\ Operating(f),
              !.block = <<Token>> \o [i \in 1 .. Len(data) |-> SdByte("data", data[i])]
                        \o <<blockcrc(data)>>]

(* ACMD41 starts the power up, and says whether it is done.                  *)
ACMD41(f) ==
    LET g == [f EXCEPT !.m_powerup_busy = IF @ = "never" THEN "counting" ELSE @,
                       !.ok = @ /\ f.m_reset_state \in {"RCVD_CMD8", "RCVD_ACMD41",
                                                        "RESET_COMPLETE"}]
    IN  [Answered(g, <<Reply(IF Busy(g) THEN 1 ELSE 0)>>, 2)
         EXCEPT !.m_reset_state = IF Busy(g) THEN "RCVD_ACMD41" ELSE "RESET_COMPLETE"]

AltCommand(f) ==
    [(CASE f.m_cmdbuf.c = 41 -> ACMD41(f)
        [] f.m_cmdbuf.c = 51 -> [SendBlock(f, <<"scr">>) EXCEPT !.m_blkdly = 0,
                                   !.m_rspbuf = f.m_rspbuf, !.ok = f.ok,
                                   !.m_dat_out = Reply(0)]
        [] OTHER -> [f EXCEPT !.ok = FALSE])
     EXCEPT !.m_altcmd_flag = FALSE]

Seek(f) == [f EXCEPT !.pos = f.m_cmdbuf.arg, !.ok = @ /\ f.m_cmdbuf.arg \in Blocks]

CMD24Bug(f) == [f EXCEPT !.m_reading_data = TRUE,      \* no fseek
                         !.m_have_token = FALSE, !.m_dat_out = Reply(0)]
CMD24(f) == [Seek(f) EXCEPT !.m_reading_data = TRUE, !.m_have_token = FALSE,
                            !.m_dat_out = Reply(0)]

CMD17(f) == IF f.m_dev = <<>>
            THEN SendBlock(f, [i \in 1 .. SDBYTES |-> 0])
            ELSE SendBlock(Seek(f), f.m_dev[f.m_cmdbuf.arg + 1])

SdCommand(f) ==
    CASE f.m_cmdbuf.c = 0  -> [Answered(f, <<Reply(1)>>, 4) EXCEPT !.m_reset_state = "CMD0_IDLE"]
      [] f.m_cmdbuf.c = 1  -> Answered(f, <<Reply(2)>>, 4)
      [] f.m_cmdbuf.c = 8  -> [Answered(f, <<Reply(0)>>, 4) EXCEPT
                               !.m_reset_state = "RCVD_CMD8",
                               !.ok = @ /\ f.m_reset_state \in {"CMD0_IDLE", "RCVD_CMD8"}]
      [] f.m_cmdbuf.c = 9  -> SendBlock(f, <<"csd">>)
      [] f.m_cmdbuf.c = 10 -> SendBlock(f, <<"cid">>)
      [] f.m_cmdbuf.c = 13 -> [Answered(f, <<Reply(0)>>, 4) EXCEPT !.ok = @ /\ Operating(f)]
      [] f.m_cmdbuf.c = 17 -> CMD17(f)
      [] f.m_cmdbuf.c = 24 -> CMD24(f)
      [] f.m_cmdbuf.c = 55 -> [Answered(f, <<Reply(0)>>, 2) EXCEPT !.m_altcmd_flag = TRUE]
      [] f.m_cmdbuf.c = 58 -> [Answered(f, <<Reply(0)>>, 4) EXCEPT !.m_reset_state =
                               IF @ = "RESET_COMPLETE" THEN "IN_OPERATION" ELSE @]
      [] OTHER -> [f EXCEPT !.ok = FALSE]

Respond(f) ==
    LET g == [f EXCEPT !.m_rspidx = 0, !.m_blkdly = 0, !.block = <<>>,
                       !.m_rspbuf = IF f.m_altcmd_flag THEN @ ELSE <<>>]
    IN  [(IF f.m_altcmd_flag THEN AltCommand(g) ELSE SdCommand(g)) EXCEPT !.m_cmdidx = 7]

(* A byte of a block that is being written; the last one is the CRC.         *)
Store(f, b) ==
    IF Len(f.rx) < SDBYTES THEN [f EXCEPT !.rx = Append(@, b.v)]
    ELSE [f EXCEPT !.m_reading_data = FALSE, !.m_have_token = FALSE, !.rx = <<>>,
                   !.m_dat_out = Reply(IF b = blockcrc(f.rx) THEN 5 ELSE 11),
                   !.m_dev = IF @ = <<>> \/ b # blockcrc(f.rx) THEN @
                             ELSE [@ EXCEPT ![f.pos + 1] = f.rx],
                   !.pos = IF b = blockcrc(f.rx) THEN @ + 1 ELSE @,
                   !.ok = @ /\ b = blockcrc(f.rx)]

(* The eighth bit of a byte.                                                 *)
RxByte(f, b) ==
    LET g == [f EXCEPT !.m_dat_out = FFbyte]
        h == [g EXCEPT !.ok = @ /\ b = FFbyte]
    IN CASE f.m_reading_data /\ f.m_have_token -> Store(g, b)
         [] f.m_reading_data /\ ~f.m_have_token ->
              IF b = Token THEN [g EXCEPT !.m_have_token = TRUE, !.rx = <<>>] ELSE g
         [] ~f.m_reading_data /\ f.m_cmdidx = 0 ->
              [g EXCEPT !.m_cmdidx = 6, !.m_cmdbuf = b.v, !.ok = @ /\ b.k = "cmd"]
         [] ~f.m_reading_data /\ f.m_cmdidx = 6 -> Respond(g)
         [] ~f.m_reading_data /\ f.m_cmdidx = 7 ->
              IF f.m_rspdly > 0 THEN [h EXCEPT !.m_rspdly = @ - 1]
              ELSE IF f.m_rspidx < RSPLEN
              THEN [h EXCEPT !.m_rspidx = @ + 1,
                             !.m_dat_out = IF f.m_rspidx < Len(f.m_rspbuf)
                                           THEN f.m_rspbuf[f.m_rspidx + 1] ELSE FFbyte]
              ELSE IF f.m_blkdly > 0 THEN [h EXCEPT !.m_blkdly = @ - 1]
              ELSE IF f.block # <<>> THEN [h EXCEPT !.m_dat_out = Head(f.block), !.block = Tail(@)]
              ELSE h

-----------------------------------------------------------------------------
(* The master: what it does next, the command in hand, what it has got, and
   what the file holds if every block it wrote is where it belongs.          *)
SdSend(b) == sd' = RxByte(sd, b)

SdBegin(c, arg, next) ==
    /\ sm.pc = next /\ sd.ok
    /\ SdSend(SdByte("cmd", [c |-> c, arg |-> arg]))
    /\ sm' = [sm EXCEPT !.pc = "answer", !.c = c, !.arg = arg, !.got = <<>>]

(* Bring up: CMD0, CMD8, CMD55 and ACMD41 until that answers 0, CMD58.  Then
   any command of a working card, or the whole bring up again.               *)
SdBringUp == \/ SdBegin(0, 0, "reset")
             \/ SdBegin(8, 0, "ifcond")
             \/ SdBegin(55, 0, "app")
             \/ SdBegin(41, 0, "opcond")
             \/ SdBegin(58, 0, "ocr")
             \/ SdBegin(51, 0, "scr")
SdUse == \/ SdBegin(0, 0, "ready")
         \/ \E c \in {9, 10, 13, 1} : SdBegin(c, 0, "ready")
         \/ \E b \in Blocks : SdBegin(17, b, "ready") \/ SdBegin(24, b, "ready")
         \/ SdBegin(55, 0, "ready")

AfterAnswer ==
    CASE sm.c = 0  -> "ifcond"
      [] sm.c = 8  -> "app"
      [] sm.c = 55 -> IF Operating(sd) THEN "scr" ELSE "opcond"
      [] sm.c = 41 -> IF sd.m_dat_out = Reply(0) THEN "ocr" ELSE "app"
      [] sm.c \in {9, 10, 17, 51} -> "token"
      [] sm.c = 24 -> "write"
      [] OTHER -> "ready"

(* It clocks 0xff until an answer comes, then until the token comes, then the
   data; between commands it deselects the card.                             *)
SdDone(next) == next \notin {"token", "write"}
SdPoll ==
    /\ sm.pc \in {"answer", "token", "stored"} /\ sd.ok
    /\ IF sd.m_dat_out = FFbyte \/ (sm.pc = "token" /\ sd.m_dat_out # Token)
       THEN SdSend(FFbyte) /\ UNCHANGED sm
       ELSE CASE sm.pc = "answer" ->
                   /\ sm' = [sm EXCEPT !.pc = AfterAnswer]
                   /\ sd' = IF SdDone(AfterAnswer) THEN SdDeselected(sd) ELSE sd
              [] sm.pc = "token"  -> /\ sm' = [sm EXCEPT !.pc = "data"]
                                     /\ SdSend(FFbyte)
              [] sm.pc = "stored" ->
                   /\ sm' = [sm EXCEPT !.pc = "ready", !.disk =
                               IF @ = <<>> THEN @ ELSE [@ EXCEPT ![sm.arg + 1] = sm.got]]
                   /\ sd' = SdDeselected(sd)

SdRead ==
    /\ sm.pc = "data" /\ sd.ok
    /\ IF sd.m_dat_out.k = "crc"
       THEN /\ sm' = [sm EXCEPT !.pc = "check"] /\ UNCHANGED sd
       ELSE /\ sm' = [sm EXCEPT !.got = Append(@, sd.m_dat_out.v)] /\ SdSend(FFbyte)

SdCheck ==                              \* the block is complete
    /\ sm.pc = "check"
    /\ sm' = [sm EXCEPT !.pc = "ready"] /\ sd' = SdDeselected(sd)

SdWrite ==
    /\ sm.pc = "write" /\ sd.ok
    /\ \/ /\ ~sd.m_have_token /\ SdSend(Token) /\ UNCHANGED sm
       \/ /\ sd.m_have_token /\ Len(sm.got) < SDBYTES
          /\ \E v \in SDDATA : /\ SdSend(SdByte("data", v))
                               /\ sm' = [sm EXCEPT !.got = Append(@, v)]
       \/ /\ Len(sm.got) = SDBYTES
          /\ SdSend(blockcrc(sm.got))
          /\ sm' = [sm EXCEPT !.pc = "stored"]

(* It may give a command up, except one that the card takes a block for, or an
   application command before the card has seen it: the card would take what
   comes next for the block, or for the application command.                 *)
SdGiveUp ==
    /\ sm.pc \in {"answer", "token", "data"} /\ sm.c \notin {24, 55} /\ sd.ok
    /\ ~sd.m_altcmd_flag
    /\ sd' = SdDeselected(sd)
    /\ sm' = [sm EXCEPT !.pc = "reset"]

SdPowerUp == /\ sd.m_powerup_busy = "counting" /\ sd' = PoweredUp(sd) /\ UNCHANGED sm

SdInit ==
    /\ \E file \in {<<>>, [b \in 1 .. SDBLOCKS |-> [i \in 1 .. SDBYTES |-> 0]]} :
          /\ sd = Init_SDSPISIM(file)
          /\ sm = [pc |-> "reset", c |-> 0, arg |-> 0, got |-> <<>>, disk |-> file]

SdMaster == SdBringUp \/ SdUse \/ SdPoll \/ SdRead \/ SdCheck \/ SdWrite
SdNext == SdMaster \/ SdGiveUp \/ SdPowerUp
SdSpec == SdInit /\ [][SdNext]_sd_vars

-----------------------------------------------------------------------------
(* A master that follows the bring up never trips an assert, whatever it gives
   up, and whenever it starts over.                                          *)
SdNeverAsserts == sd.ok

(* A block that was read is the block that was asked for, as it was last
   written; and between commands the file holds just what was written.       *)
SdBlocksRight ==
    /\ sm.pc = "check" /\ sm.c = 17 =>
          sm.got = IF sm.disk = <<>> THEN [i \in 1 .. SDBYTES |-> 0] ELSE sm.disk[sm.arg + 1]
    /\ sm.pc = "ready" => sd.m_dev = sm.disk

(* A master that keeps asking gets its answers, and the card gets out of its
   power up: a command ends, and so does the loop of ACMD41s.                *)
SdComesUp == sm.pc # "ready" ~> sm.pc \in {"ready", "reset"}

(* The simulated card serves a master that may give up and start over anywhere:
   no assert fails and its blocks are the ones that were asked for.          *)
SdCardRight == SdNeverAsserts /\ SdBlocksRight
=============================================================================
