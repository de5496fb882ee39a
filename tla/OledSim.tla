------------------------------- MODULE OledSim -------------------------------
(* sim/verilated/oledsim.cpp, the simulated display, with the program that
   drives it (sw/board/oledtest.c) and, between them, what that program sees of
   the controller wboledrgb.v: a write that comes while it is busy is lost.

   The record `ol` is the object OLEDSIM, `oc` the controller with the program.
   A command reaches the display when the controller deselects it.  A pixel is
   the number of the image and the number of the pixel in it.                *)
EXTENDS Integers, Sequences

CONSTANTS
    OLED_WIDTH, OLED_HEIGHT         \* 96 and 64

ASSUME OledAssumption == OLED_WIDTH \in Nat \ {0} /\ OLED_HEIGHT \in Nat \ {0}

VARIABLES ol, oc
ol_vars == <<ol, oc>>

-----------------------------------------------------------------------------
OCols == 0 .. OLED_WIDTH - 1
ORows == 0 .. OLED_HEIGHT - 1
Black == <<"clear", 0>>
OAct(c, len, a, b) == [dcn |-> FALSE, c |-> c, len |-> len, a |-> a, b |-> b, px |-> Black]
OPixel(px) == [dcn |-> TRUE, c |-> "", len |-> 2, a |-> 0, b |-> 0, px |-> px]

Init_OLEDSIM ==
    [m_state |-> "OFF", m_locked |-> TRUE, m_last_csn |-> TRUE,
     m_format |-> "65kCLR", m_vaddr_inc |-> FALSE,
     m_col_start |-> 0, m_col_end |-> OLED_WIDTH - 1, m_col |-> 0,
     m_row_start |-> 0, m_row_end |-> OLED_HEIGHT - 1, m_row |-> 0,
     m_pix |-> [p \in OCols \X ORows |-> Black], ok |-> TRUE]

clear_to(o) == [o EXCEPT !.m_pix = [p \in OCols \X ORows |-> Black]]

(* The place after a pixel, within the window: by columns, or by rows.       *)
AdvanceBug(o) ==                        \* >= for >
    IF o.m_col + 1 < o.m_col_end THEN [o EXCEPT !.m_col = @ + 1]
    ELSE [o EXCEPT !.m_col = o.m_col_start,
                   !.m_row = IF @ + 1 > o.m_row_end THEN o.m_row_start ELSE @ + 1]

Advance(o) ==
    LET col1 == IF o.m_col + 1 > o.m_col_end THEN o.m_col_start ELSE o.m_col + 1
        row1 == IF o.m_row + 1 > o.m_row_end THEN o.m_row_start ELSE o.m_row + 1
    IN  IF o.m_vaddr_inc
        THEN [o EXCEPT !.m_row = row1, !.m_col = IF o.m_row + 1 > o.m_row_end THEN col1 ELSE @]
        ELSE [o EXCEPT !.m_col = col1, !.m_row = IF o.m_col + 1 > o.m_col_end THEN row1 ELSE @]

set_gddram(o, d) ==
    IF o.m_format = "65kCLR"
    THEN [o EXCEPT !.m_pix[<<o.m_col, o.m_row>>] = d.px, !.ok = @ /\ d.len = 2]
    ELSE [o EXCEPT !.m_pix[<<o.m_col, o.m_row>>] = Black]

(* How many bytes a command that changes nothing must have.  0xbc and 0xbd fall
   through into 0xbe, whose length is not theirs.                            *)
LenOk(c, len) ==
    CASE c \in {"a4", "ac", "ae", "af", "b9", "e3", "2e", "2f"} -> len = 1
      [] c \in {"81", "82", "83", "87", "8a", "8b", "8c", "a1", "a2", "a8", "ad", "b0",
                "b1", "b3", "bb", "be", "26"} -> len = 2
      [] c \in {"24", "25"} -> len = 5
      [] c \in {"ab", "27"} -> len = 6
      [] c = "23" -> len = 7
      [] c = "21" -> len = 8
      [] c = "22" -> len = 11
      [] OTHER -> FALSE

do_command(o, d) ==
    IF d.dcn THEN Advance(set_gddram(o, d))
    ELSE IF o.m_locked
    THEN [o EXCEPT !.m_locked = ~(d.len = 2 /\ d.c = "fd" /\ d.a = 18)]
    ELSE CASE d.c = "15" -> [o EXCEPT !.m_col_start = d.a, !.m_col_end = d.b, !.m_col = d.a,
                               !.ok = @ /\ d.len = 3 /\ d.a \in OCols /\ d.b \in OCols /\ d.a <= d.b]
           [] d.c = "75" -> [o EXCEPT !.m_row_start = d.a, !.m_row_end = d.b,
                               !.ok = /\ @ /\ d.len = 3 /\ d.a \in ORows /\ d.b \in ORows
                                      /\ o.m_row_start <= o.m_row_end]
           [] d.c = "a0" -> [o EXCEPT !.m_vaddr_inc = (d.a % 2 = 1), !.ok = @ /\ d.len = 2,
                               !.m_format = IF d.a \div 64 = 0 THEN "256CLR"
                                            ELSE IF d.a \div 64 = 1 THEN "65kCLR" ELSE @]
           [] d.c = "fd" -> [o EXCEPT !.m_locked = (d.a = 22), !.ok = @ /\ d.len = 2]
           [] OTHER      -> [o EXCEPT !.ok = @ /\ LenOk(d.c, d.len)]

(* operator(): the power lines, then, with power and out of reset, the SPI.  A
   display that is not selected any more obeys what it was sent.             *)
handle_io(o, csn, cmd) ==
    LET o1 == IF csn /\ ~o.m_last_csn THEN do_command(o, cmd) ELSE o
    IN  [o1 EXCEPT !.m_last_csn = csn]

OledCall(o, pwr, csn, cmd) ==
    CASE ~pwr.pmoden -> [(IF o.m_state = "OFF" THEN o ELSE clear_to(o)) EXCEPT
                          !.m_state = "OFF", !.ok = @ /\ ~pwr.vccen]
      [] pwr.pmoden /\ ~pwr.rstn -> [(IF o.m_state = "RESET" THEN o ELSE clear_to(o)) EXCEPT
                          !.m_state = "RESET", !.m_locked = @ \/ o.m_state # "RESET",
                          !.ok = @ /\ csn]
      [] pwr.pmoden /\ pwr.rstn /\ pwr.vccen ->
           handle_io([o EXCEPT !.m_state = "POWERED",
                               !.ok = @ /\ (o.m_state = "POWERED" \/ csn)], csn, cmd)
      [] OTHER -> handle_io([o EXCEPT !.m_state = "VIO"], csn, cmd)

(* on_draw: what is to be seen.                                              *)
on_draw(o) == IF o.m_state = "POWERED" THEN o.m_pix ELSE [p \in OCols \X ORows |-> Black]

-----------------------------------------------------------------------------
(* The program, as the accesses that it makes one after another.             *)
OStep(k, x) == [k |-> k, x |-> x]
OPower(p) == OStep("pwr", p)            \* the lines it changes
OWait == OStep("wait", 0)               \* while (OLEDRGB_BUSY)
ODelay == OStep("delay", "")            \* timer_delay, longer than any command
OPause == OStep("pause", 0)             \* timer_delay of a few us
OCtrl(c) == OStep("ctrl", c)

VCC_DISABLE == [vccen |-> FALSE]
POWER_DOWN  == [pmoden |-> FALSE, vccen |-> TRUE, rstn |-> TRUE]
DISPLAYON   == OAct("af", 1, 0, 0)

init_sequence ==
    <<OAct("fd", 2, 18, 0), OAct("ae", 1, 0, 0), OAct("a0", 2, 114, 0),
      OAct("a1", 2, 0, 0), OAct("a4", 1, 0, 0), OAct("ad", 2, 142, 0), OAct("2e", 1, 0, 0)>>
oled_clear == <<OWait, OCtrl(OAct("25", 5, 0, 0)), OWait>>
EachWaited(s) == [i \in 1 .. 2 * Len(s) |-> IF i % 2 = 1 THEN OWait ELSE s[i \div 2]]
oled_init == EachWaited([i \in 1 .. Len(init_sequence) |-> OCtrl(init_sequence[i])])
             \o oled_clear \o <<ODelay, OPower([vccen |-> TRUE]), ODelay, OCtrl(DISPLAYON)>>

oled_show_image(img) ==
    EachWaited([i \in 1 .. OLED_WIDTH * OLED_HEIGHT |-> OStep("data", OPixel(<<img, i - 1>>))])

Hot == <<OStep("ifhot", 0), OPower(VCC_DISABLE), ODelay, OPower(POWER_DOWN), ODelay>>
Start == <<OPower([pmoden |-> TRUE, rstn |-> TRUE]), OPause, OPower([rstn |-> FALSE]), OPause,
           OPause, OPower([rstn |-> TRUE]), OPause>> \o oled_init
Show  == <<OCtrl(DISPLAYON)>> \o oled_clear
         \o EachWaited(<<OCtrl(OAct("15", 3, 0, OLED_WIDTH - 1)),
                     OCtrl(OAct("75", 3, 0, OLED_HEIGHT - 1))>>)
         \o <<OWait>> \o oled_show_image("splash") \o <<OStep("delay", "splash")>>
         \o oled_show_image("mug") \o <<OStep("delay", "mug")>>
main_ == Hot \o Start \o Show
LoopStart == Len(Hot \o Start) + 1

-----------------------------------------------------------------------------
OStepNow == main_[oc.pc]
Idle == [busy |-> FALSE, sent |-> FALSE, cmd |-> DISPLAYON]
ONext(p) == IF p = Len(main_) THEN LoopStart ELSE p + 1

(* A write to the controller: taken if it is not busy.                       *)
OWrite ==
    /\ OStepNow.k \in {"ctrl", "data"} /\ ol.ok
    /\ oc' = [oc EXCEPT !.pc = ONext(@),
                        !.dev = IF oc.dev.busy THEN @
                                ELSE [busy |-> TRUE, sent |-> FALSE, cmd |-> OStepNow.x]]
    /\ UNCHANGED ol

OPowerStep ==
    /\ OStepNow.k = "pwr" /\ ol.ok
    /\ LET pwr == [l \in DOMAIN oc.pwr |-> IF l \in DOMAIN OStepNow.x THEN OStepNow.x[l] ELSE oc.pwr[l]]
       IN  /\ ol' = OledCall(ol, pwr, ~oc.dev.sent, oc.dev.cmd)
           /\ oc' = [oc EXCEPT !.pc = ONext(@), !.pwr = pwr]

(* The rest waits: for the controller, or long enough.  A board that comes up
   without power on the display skips the shut down.                         *)
OWaitStep ==
    /\ OStepNow.k \in {"wait", "delay", "pause", "ifhot"} /\ ol.ok
    /\ OStepNow.k \in {"wait", "delay"} => ~oc.dev.busy
    /\ oc' = [oc EXCEPT !.pc = IF OStepNow.k = "ifhot" /\ \A l \in DOMAIN oc.pwr : ~oc.pwr[l]
                               THEN Len(Hot) + 1 ELSE ONext(@)]
    /\ UNCHANGED ol

(* The controller selects the display, sends the bytes, and deselects it.    *)
OSend ==
    /\ oc.dev.busy /\ ol.ok
    /\ \/ /\ ~oc.dev.sent
          /\ oc' = [oc EXCEPT !.dev.sent = TRUE]
       \/ /\ oc.dev.sent
          /\ oc' = [oc EXCEPT !.dev = Idle]
    /\ ol' = OledCall(ol, oc.pwr, oc.dev.sent, oc.dev.cmd)

OledInit == /\ ol = Init_OLEDSIM
            /\ oc = [pc |-> 1, dev |-> Idle,
                     pwr |-> [pmoden |-> FALSE, vccen |-> FALSE, rstn |-> FALSE]]
OledNext == OWrite \/ OPowerStep \/ OWaitStep \/ OSend

-----------------------------------------------------------------------------
(* Each time the program pauses on an image, that image is on the display, each
   pixel in its place: no write was lost, the window wraps where it should.  *)
OledShowsImage ==
    OStepNow.k = "delay" /\ OStepNow.x \in {"splash", "mug"} /\ ~oc.dev.busy =>
        on_draw(ol) = [p \in OCols \X ORows |-> <<OStepNow.x, p[2] * OLED_WIDTH + p[1]>>]

(* The display is never misused: "Shutdown the entire devices power", say the
   program's comments, and the display asserts that its VCC is not left on.  *)
OledNeverMisused == ol.ok

(* The program never hangs in one of its waits: images keep coming.          *)
OledKeepsShowing == []<>(OStepNow.k = "delay" /\ OStepNow.x = "mug")

(* oledtest.c and the display agree: each image is shown whole, and neither the
   power lines nor a command ever trips an assert of the simulation.         *)
OledRight == OledShowsImage /\ OledNeverMisused
=============================================================================
