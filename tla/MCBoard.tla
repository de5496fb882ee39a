------------------------------ MODULE MCBoard ------------------------------
(***************************************************************************)
(* The software that runs on the board, each program with the hardware it  *)
(* talks to: simple_ping with the network, the boot loader with the DMA,   *)
(* the C library's console with its port, the calendar and the arithmetic. *)
(* They share no state, so a behaviour is of one of them, part, and the    *)
(* others stay as they begin.                                              *)
(***************************************************************************)
EXTENDS SimplePing, ZipBoot, ZipConsole, ZipMath

VARIABLE part
board_vars == <<part, np_vars, zb, cs_vars, zx>>

(* What the linker scripts ask of the boot loader: the flash from 1, the block
   RAM (kram) from 11, the SDRAM (ram) from 21; kl words of kernel, il words
   of image and bl to be cleared.                                            *)
Layout(rom, kram, kl, il, bl) ==
    [rom |-> rom, kram |-> kram, kstart |-> 3, kend |-> IF kl = 0 THEN 3 ELSE 11 + kl,
     ram |-> 21, istart |-> 3 + kl, iend |-> 21 + il, bend |-> 21 + il + bl]
Layouts == {Layout(1, 0, 0, 2, 2), Layout(1, 0, 0, 0, 2), Layout(1, 11, 2, 2, 1),
            Layout(1, 11, 2, 0, 0), Layout(1, 11, 0, 2, 1), Layout(0, 0, 0, 2, 2),
            Layout(0, 0, 0, 2, 0)}
Words == 0 .. 30

TypedTexts == {<<>>, <<"cr", "nl", "nl">>, <<"cr", "a", "nl">>, <<"nl", "cr", "cr">>}

BoardInit ==
    /\ part \in {"ping", "boot", "console", "calendar", "math"}
    /\ BootInit
    /\ PingInit /\ (part # "ping" => np.lastpps = 0)
    /\ ConsoleInit /\ (part # "console" => ck.left = <<>>)
    /\ MathInit /\ (part # "math" => zx.op = "udiv" /\ zx.a = 0)

BoardNext ==
    \/ part = "ping"     /\ PingNext    /\ UNCHANGED <<part, zb, cs_vars, zx>>
    \/ part = "boot"     /\ BootNext    /\ UNCHANGED <<part, np_vars, cs_vars, zx>>
    \/ part = "console"  /\ ConsoleNext /\ UNCHANGED <<part, np_vars, zb, zx>>
    \/ part = "calendar" /\ DayPasses   /\ UNCHANGED <<part, np_vars, zb, zx>>
    \/ part = "math"     /\ MathNext    /\ UNCHANGED <<part, np_vars, zb, cs_vars>>

(* An interrupt or a call is served whatever the user task does, the network port
   finishes sending, the seconds pass; and the boot loader and its DMA go on.  *)
BoardFairness ==
    /\ WF_np_vars(part = "ping" /\ Supervisor) /\ WF_np_vars(part = "ping" /\ TxDone)
    /\ WF_np_vars(part = "ping" /\ SecondPasses("PPS"))
    /\ WF_zb(part = "boot" /\ (PowerUp \/ BootStep \/ DmaWord))

BoardSpec == BoardInit /\ [][BoardNext]_board_vars /\ BoardFairness

(* The board goes on: simple_ping comes back to the top of its loop again and again
   and takes every call of the user's, and a boot that begins ends in main().  *)
BoardGoesOn == PingsKeepComing /\ BootEnds
=============================================================================
