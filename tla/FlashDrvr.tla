----------------------------- MODULE FlashDrvr -----------------------------
(* sw/host/flashdrvr.cpp, the driver by which wbprogram and zipload put an
   image into the flash, and the flash itself (module FlashSim) behind the
   configuration port of qflexpress.v.

   The driver is a program on the host: every command to the chip is a step,
   the chip's program and erase cycles end when they like, and the program may
   be killed between any two commands and be started again on whatever it left
   behind.  `todo` holds the accesses that the function in hand has still to
   make before it looks at anything; `pc` says what it does then.            *)
EXTENDS FlashSim, Sequences, SequencesExt, FiniteSetsExt

CONSTANTS
    Values,         \* bound: the contents of images and of the old memory
    Starts, Lens,   \* bound: where images begin, and their lengths
    Verify,         \* the verify argument of the calls
    MaxCalls,       \* bound: calls of write() in a behaviour
    Kills           \* may the program be killed?

VARIABLES
    cfg_mode,       \* qflexpress.v: does the port own the pins?
    m_id,           \* is the flash's ID known to this program?
    todo, pc, ret,  \* accesses to make, what then, and after waiting
    job,            \* the arguments of write(), and an observer's note: short
    s, p, page,     \* its loops; the page being programmed
    offline,        \* has it read the memory while that was impossible?
    calls, touched, first       \* calls so far, their sectors, the memory then

drvr == <<cfg_mode, m_id, todo, pc, ret, job, s, p, page, offline, calls, touched, first>>
flash_vars == <<fl, drvr>>

-----------------------------------------------------------------------------
(* Accesses to R_FLASHCFG.                                                   *)
Op(k, b)  == [k |-> k, b |-> b]
F_END     == Op("end", Byte("", 0, {}))
Online    == Op("off", Byte("", 0, {}))                 \* CFG_USER_CS_n alone
Cmd(c)    == Op("byte", Byte(c, 0, {}))
Addr(a)   == Op("byte", Byte("", a, {}))
Data(d)   == Op("byte", Byte("", 0, d))
F_EMPTY   == Cmd("NOP")
Quad(a)   == Op("quad", Byte("", a, {}))

take_offline == <<F_END>> \o [i \in 1 .. 6 |-> Cmd("NOP")] \o <<F_END>>

restore_quadio ==
    <<F_END>>
    \o (IF fl.id = "MICRON" THEN <<Cmd("WREN"), F_END, Cmd("ECR"), Data({}), F_END>> ELSE <<>>)
    \o <<Cmd("QIOR"), Quad(0), Quad(XIP)>>
    \o [k \in 1 .. (NDUMMY - 2) \div 2 |-> Quad(0)]
    \o <<Quad(0), F_EMPTY, Online>>

flashid == take_offline \o <<Cmd("RDID"), F_EMPTY, F_EMPTY, F_EMPTY, F_EMPTY>>
           \o restore_quadio

erase_sector(a) ==
    take_offline \o <<F_END, Cmd("WREN"), F_END, Cmd("SE"), Addr(a), F_END>>
    \o <<F_END, Cmd("RDSR")>>                           \* flwait

page_programBug(a, d) ==                \* the write enable of the erase will do
    take_offline \o <<F_END, Cmd("PP"), Addr(a)>> \o [i \in 1 .. Len(d) |-> Data(d[i])]
    \o <<F_END, F_END, Cmd("RDSR")>>

page_program(a, d) ==
    take_offline \o <<F_END, Cmd("WREN"), F_END, Cmd("PP"), Addr(a)>>
    \o [i \in 1 .. Len(d) |-> Data(d[i])]
    \o <<F_END>> \o <<F_END, Cmd("RDSR")>>

(* The accesses up to the next one that deselects the chip are one step: in
   between, nothing of the driver's is read and the chip does not tell when its
   cycle ended.                                                              *)
Send(f, op) == CASE op.k \in {"end", "off"} -> Deselect(f)
                 [] op.k = "byte"           -> LowSpeed(f, op.b)
                 [] op.k = "quad"           -> Transfer(f, op.b)
Sent(f, op) == CHOOSE g \in {Send(h, op) : h \in {f}} : TRUE   \* evaluated once
Deselects == {i \in 1 .. Len(todo) : todo[i].k \in {"end", "off"}}
Upto == IF Deselects = {} THEN Len(todo) ELSE Min(Deselects)

Access ==
    /\ todo # <<>>
    /\ fl' = FoldLeft(Sent, fl, SubSeq(todo, 1, Upto))
    /\ cfg_mode' = (todo[Upto].k # "off")
    /\ todo' = SubSeq(todo, Upto + 1, Len(todo))
    /\ UNCHANGED <<m_id, pc, ret, job, s, p, page, offline, calls, touched, first>>

(* Reading the memory: it answers only in quad-read idle and only when no
   program or erase cycle is under way.                                      *)
Reachable == ~cfg_mode /\ fl.m_state = "QUAD_READ_IDLE" /\ fl.m_mode = "QSPI"
ReadBus(a) == IF Reachable /\ "WIP" \notin fl.m_sreg THEN fl.m_mem[a] ELSE {}
readi == /\ offline' = (offline \/ ~Reachable)
         /\ UNCHANGED <<fl, cfg_mode>>

-----------------------------------------------------------------------------
(* write(addr, len, data, verify)                                            *)
ImageEnd == job.addr + job.len
Goal(a) == IF a < ImageEnd THEN job.data[a - job.addr + 1] ELSE job.beyond

write(a, n, data, beyond, verify) ==
    /\ pc = "idle" /\ calls < MaxCalls /\ a + n <= CELLS /\ ~fl.busy
    /\ calls' = calls + 1
    /\ job' = [addr |-> a, len |-> n, data |-> data, beyond |-> beyond, verify |-> verify,
               short |-> FALSE]
    /\ calls = 0 \/ job' = [job EXCEPT !.short = FALSE]     \* again, the same file
    /\ todo' = IF m_id THEN <<>> ELSE flashid
    /\ m_id' = TRUE
    /\ s' = SectorOf(a)
    /\ pc' = "sector"
    /\ touched' = touched \cup {SectorOf(x) : x \in a .. a + n - 1}
    /\ UNCHANGED <<fl, cfg_mode, ret, p, page, offline, first>>

(* Does this sector need an erase, or at least programming?                  *)
Here == {a \in Cells : SectorOf(a) = s /\ job.addr <= a /\ a < ImageEnd}
NeedErase == \E a \in Here : ReadBus(a) \cap Goal(a) # Goal(a)
Differs == {a \in Here : ReadBus(a) # Goal(a)}

Sector ==
    /\ pc = "sector" /\ todo = <<>> /\ s < SectorOf(ImageEnd + SECTOR - 1)
    /\ readi
    /\ \/ /\ Differs = {}
          /\ s' = s + SECTOR
          /\ UNCHANGED <<todo, pc, ret, p>>
       \/ /\ Differs # {} /\ NeedErase
          /\ todo' = erase_sector(s)
          /\ pc' = "wait" /\ ret' = "erased"
          /\ UNCHANGED <<s, p>>
       \/ /\ Differs # {} /\ ~NeedErase
          /\ p' = Min(Differs)
          /\ pc' = "pages"
          /\ UNCHANGED <<todo, ret, s>>
    /\ UNCHANGED <<m_id, job, page, calls, touched, first>>

(* flwait: ask for the status until WIP is clear, then go back online.       *)
Poll ==
    /\ pc = "wait" /\ todo = <<>>
    /\ fl' = LowSpeed(fl, F_EMPTY.b)
    /\ \/ "WIP" \in fl.m_oreg /\ UNCHANGED <<pc, todo>>
       \/ /\ "WIP" \notin fl.m_oreg
          /\ todo' = <<F_END>> \o restore_quadio
          /\ pc' = ret
    /\ UNCHANGED <<cfg_mode, m_id, ret, job, s, p, page, offline, calls, touched, first>>

(* The sector is erased, or verifying that finds that it is not.             *)
Erased ==
    /\ pc = "erased" /\ todo = <<>>
    /\ IF job.verify THEN readi ELSE UNCHANGED <<fl, cfg_mode, offline>>
    /\ IF job.verify /\ \E a \in s .. s + SECTOR - 1 : ReadBus(a) # FF
       THEN pc' = "failed" /\ p' = p
       ELSE pc' = "pages" /\ p' = Max({s, job.addr})
    /\ UNCHANGED <<m_id, todo, ret, job, s, page, calls, touched, first>>

(* The pages of the sector.  The inner len of the loop shadows the argument
   and is read before it is set: any length up to the end of the page may come
   of it, the whole page if it is larger (as 0 it may also end the program, as
   being killed does).  The whole page runs past the end of the image when the
   image does not end with one; a smaller length may not reach that end, which
   job.short keeps in mind.                                                  *)
NextPage(a) == PageOf(a + PGLEN)
InnerLens == 1 .. NextPage(p) - p
Short(n) == p + n < NextPage(p) /\ p + n < ImageEnd

Page ==
    /\ pc = "pages" /\ todo = <<>> /\ p < s + SECTOR /\ p < ImageEnd
    /\ \E n \in InnerLens :
          LET d == [i \in 1 .. n |-> Goal(p + i - 1)] IN
          /\ job' = [job EXCEPT !.short = @ \/ Short(n)]
          /\ \/ /\ \A i \in 1 .. n : d[i] = FF          \* empty_page
                /\ todo' = take_offline \o restore_quadio
                /\ p' = NextPage(p)
                /\ UNCHANGED <<pc, ret, page>>
             \/ /\ \E i \in 1 .. n : d[i] # FF
                /\ todo' = page_program(p, d)
                /\ pc' = "wait" /\ ret' = "programmed"
                /\ page' = d
                /\ UNCHANGED p
    /\ UNCHANGED <<fl, cfg_mode, m_id, s, offline, calls, touched, first>>

PagesDone ==
    /\ pc = "pages" /\ todo = <<>> /\ (p >= s + SECTOR \/ p >= ImageEnd)
    /\ pc' = "sector" /\ s' = s + SECTOR
    /\ UNCHANGED <<fl, cfg_mode, m_id, todo, ret, job, p, page, offline, calls, touched, first>>

Programmed ==
    /\ pc = "programmed" /\ todo = <<>>
    /\ IF job.verify THEN readi ELSE UNCHANGED <<fl, cfg_mode, offline>>
    /\ IF job.verify /\ \E i \in 1 .. Len(page) : ReadBus(p + i - 1) # page[i]
       THEN pc' = "failed" /\ p' = p
       ELSE pc' = "pages" /\ p' = NextPage(p)
    /\ UNCHANGED <<m_id, todo, ret, job, s, page, calls, touched, first>>

Finish ==
    /\ pc = "sector" /\ todo = <<>> /\ s >= SectorOf(ImageEnd + SECTOR - 1)
    /\ todo' = take_offline \o <<Cmd("WRDI"), F_END>> \o restore_quadio
    /\ pc' = "finish"
    /\ UNCHANGED <<fl, cfg_mode, m_id, ret, job, s, p, page, offline, calls, touched, first>>

(* write() returns; the program ends or calls it again.                      *)
Return ==
    /\ \/ pc = "finish" /\ todo = <<>> /\ pc' = "done"
       \/ pc \in {"done", "failed"} /\ pc' = "idle"
    /\ UNCHANGED <<fl, cfg_mode, m_id, todo, ret, job, s, p, page, offline,
                   calls, touched, first>>

(* The program is killed, between two commands to the chip: the simulated chip
   starts a cycle at whatever address it has when it is deselected within a
   command.  Before another program runs the chip's cycle is over.           *)
Killed ==
    /\ Kills /\ pc # "idle" /\ fl.n = 0
    /\ pc' = "idle" /\ todo' = <<>> /\ m_id' = FALSE
    /\ UNCHANGED <<fl, cfg_mode, ret, job, s, p, page, offline, calls, touched, first>>

(* The chip's own time.                                                      *)
TimerExpires ==
    /\ fl.busy
    /\ fl' = WriteComplete(fl)
    /\ UNCHANGED drvr

-----------------------------------------------------------------------------
FlashInit ==
    /\ \E old \in [{0, 1} -> Values] :
          \E id \in DEVIDS : fl = [Init_FLASHSIM([a \in Cells |-> old[a % 2]], id)
                EXCEPT !.m_state = "QUAD_READ_IDLE", !.m_mode = "QSPI", !.xip = TRUE]
    /\ cfg_mode = FALSE /\ m_id = FALSE
    /\ todo = <<>> /\ pc = "idle" /\ ret = "erased"
    /\ job = [addr |-> 0, len |-> 0, data |-> <<>>, beyond |-> FF, verify |-> FALSE,
              short |-> FALSE]
    /\ s = 0 /\ p = 0 /\ page = <<>> /\ offline = FALSE
    /\ calls = 0 /\ touched = {} /\ first = fl.m_mem

DriverStep == \/ Access \/ Sector \/ Poll \/ Erased \/ Page \/ PagesDone
              \/ Programmed \/ Finish \/ Return
DrvrNext == \/ \E a \in Starts, n \in Lens, b \in Values, v \in Verify :
                 \E d \in [1 .. n -> Values] : write(a, n, d, b, v)
            \/ DriverStep \/ Killed

FlashNext == DrvrNext \/ TimerExpires

-----------------------------------------------------------------------------
(* When write() reports success the flash holds the image, whatever it held
   before, whatever earlier calls left half done: unless the uninitialised
   length has come out too short for a page of it.                           *)
FlashHoldsImage ==
    pc = "done" /\ ~job.short => \A a \in job.addr .. ImageEnd - 1 : fl.m_mem[a] = Goal(a)

(* No sector that no call was about ever changes, however calls are cut off. *)
OtherSectorsKept ==
    \A a \in Cells : SectorOf(a) \in touched \/ fl.m_mem[a] = first[a]

(* The driver never reads the memory while the flash cannot answer, and never
   sends what makes the chip give up.                                        *)
NeverReadsOffline == ~offline /\ fl.ok

(* Every call returns: the wait for a cycle of the chip ends.                *)
WriteReturns == pc = "sector" ~> pc = "idle"

(* write() of the flash driver: on success the image is there, no other sector
   has changed, and the memory is never read while the chip cannot answer.   *)
FlashRight == FlashHoldsImage /\ OtherSectorsKept /\ NeverReadsOffline
=============================================================================
