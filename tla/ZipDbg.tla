------------------------------- MODULE ZipDbg -------------------------------
(* The tools that look into the processor through its debug port: zipdbg, a screen
   of registers under the user's keys, and zipstate, which prints them once.  The
   processor goes on by itself between any two accesses, unless it is halted.  *)
EXTENDS Integers, Sequences
CONSTANTS DRegs,    \* the registers that are read, in order: some of 0 .. 51
          DMAXERR,  \* MAXERR
          DMaxIns,  \* bound: instructions that the processor executes
          DMaxEdits \* bound: registers that the user changes

(* There is a register to read, and each is one of those that the screen has.   *)
ASSUME DebuggerAssumption == DRegs \in Seq(0 .. 51) /\ DRegs # <<>>

VARIABLES zd,       \* the tool
          zc        \* the processor and its debug port

zd_vars == <<zd, zc>>

NotShown == <<>>
(* The value of any register changes with each instruction and each write.     *)
DValue == <<zc.n, zc.writes>>

-----------------------------------------------------------------------------
(* The debug port.  halt is what was asked for, halted what it reports: CPU_STALL
   is clear until the instruction under way is done, if it ever is.          *)
WriteCtrl(a) == [zc EXCEPT !.halt = TRUE, !.addr = a]
Step_ == [zc EXCEPT !.halt = TRUE, !.halted = FALSE, !.step = TRUE, !.addr = 0]
Go == [zc EXCEPT !.halt = FALSE, !.halted = FALSE, !.addr = 0]
Reset == [zc EXCEPT !.halt = TRUE, !.halted = TRUE, !.step = FALSE, !.n = 0, !.addr = 0]

CpuRuns == /\ ~zc.halted /\ ~zc.halt /\ zc.n < DMaxIns
           /\ zc' = [zc EXCEPT !.n = @ + 1]
           /\ UNCHANGED zd
CpuHalts == /\ ~zc.halted /\ zc.halt /\ ~zc.stuck
            /\ \E done \in {0, 1} :
                 /\ zc.step => done = 1
                 /\ zc.n + done <= DMaxIns
                 /\ zc' = [zc EXCEPT !.halted = TRUE, !.step = FALSE, !.n = @ + done]
            /\ UNCHANGED zd
CpuSticks == /\ ~zc.halted /\ ~zc.stuck           \* on a bus that does not answer
             /\ zc' = [zc EXCEPT !.stuck = TRUE]
             /\ UNCHANGED zd

-----------------------------------------------------------------------------
(* cmd_read(): halt and select, wait, fetch; the registers one after the other. *)
NextReg == IF zd.i < Len(DRegs) THEN [zd EXCEPT !.at = "select", !.i = @ + 1]
           ELSE [zd EXCEPT !.at = IF zd.tool = "zipstate -l" THEN "exit" ELSE "key", !.i = 0]
Select == /\ zd.at = "select"
          /\ zc' = WriteCtrl(DRegs[zd.i])
          /\ zd' = [zd EXCEPT !.at = "wait", !.errcount = 0]
GivesUp(n) == n >= DMAXERR
Wait == /\ zd.at \in {"wait", "ewait"}
        /\ zd' = IF zc.halted THEN [zd EXCEPT !.at = IF @ = "wait" THEN "fetch" ELSE "poke"]
                 ELSE IF GivesUp(zd.errcount) THEN [zd EXCEPT !.at = "exit"]
                 ELSE [zd EXCEPT !.errcount = IF @ < DMAXERR THEN @ + 1 ELSE @]
        /\ UNCHANGED zc
Fetch == /\ zd.at = "fetch" /\ zc.halted          \* the port stalls while it is not
         /\ zd' = [NextReg EXCEPT !.shown[DRegs[zd.i]] = DValue, !.errcount = 0]
         /\ UNCHANGED zc

(* read_state() begins anew; where the processor is stalled there is only a note. *)
ReadState(d) == [d EXCEPT !.at = "select", !.i = 1, !.shown = [r \in 0 .. 51 |-> NotShown]]
StallScreenBug(d) == [d EXCEPT !.at = "key"]        \* the screen is not erased
StallScreen(d) == [d EXCEPT !.at = "key", !.shown = [r \in 0 .. 51 |-> NotShown]]
Stalled == ~zc.halted
Refresh == /\ zd.at = "refresh"
           /\ zd' = IF Stalled THEN StallScreen(zd) ELSE ReadState(zd)
           /\ UNCHANGED zc

-----------------------------------------------------------------------------
(* The cursor goes over 44 fields, four in a row; show_users_timers puts other
   registers into the third row.                                             *)
CursorMoves(c) == {IF c > 3 THEN c - 4 ELSE c, IF c < 40 THEN c + 4 ELSE c,
                   IF c > 0 THEN c - 1 ELSE 43, IF c < 43 THEN c + 1 ELSE 0}
ShownAt(c, users) == IF c >= 12 THEN c - 12
                     ELSE IF users /\ c >= 8 THEN c + 4 + 32 ELSE c + 32
EditedAt(c) == IF c >= 12 THEN c - 12 ELSE c + 32

(* main(): what each key does, before the screen is drawn again.             *)
Key == /\ zd.at = "key" /\ zd.tool = "zipdbg"
       /\ \/ \E c \in CursorMoves(zd.cursor) : zd' = [zd EXCEPT !.cursor = c, !.at = "refresh"] /\ UNCHANGED zc
          \/ \E u \in BOOLEAN : zd' = [zd EXCEPT !.users = u, !.at = "refresh"] /\ UNCHANGED zc
          \/ zd' = [zd EXCEPT !.at = "refresh"] /\ zc' = Reset
          \/ zd' = [zd EXCEPT !.at = "refresh"] /\ zc' = Step_ /\ zc.n < DMaxIns
          \/ zd' = [zd EXCEPT !.at = "refresh"] /\ UNCHANGED zc      \* no value given, or another key
          \/ zd' = [zd EXCEPT !.at = "exit"] /\ zc' = Go
          \/ zd' = [zd EXCEPT !.at = "exit"] /\ UNCHANGED zc
(* get_value(), when a value was given: cmd_write().                         *)
Edit == /\ zd.at = "key" /\ zd.tool = "zipdbg" /\ zc.writes < DMaxEdits
        /\ zc' = WriteCtrl(EditedAt(zd.cursor))
        /\ zd' = [zd EXCEPT !.at = "ewait", !.errcount = 0]
Poke == /\ zd.at = "poke" /\ zc.halted
        /\ zc' = [zc EXCEPT !.writes = @ + 1]
        /\ zd' = [zd EXCEPT !.at = "refresh", !.errcount = 0]

(* The start: zipdbg halts the processor and asks five times whether it has; zipstate
   looks at the control register, or with -l at all registers.               *)
Start_ == /\ zd.at = "start" /\ zd.tool = "none"
          /\ \/ zd' = [zd EXCEPT !.tool = "zipdbg", !.at = "asks"] /\ zc' = WriteCtrl(0)
             \/ zd' = [zd EXCEPT !.tool = "zipstate", !.at = "exit"] /\ UNCHANGED zc
             \/ zd' = [ReadState(zd) EXCEPT !.tool = "zipstate -l"] /\ UNCHANGED zc
Asks == /\ zd.at = "asks"
        /\ zd' = IF Stalled /\ zd.errcount < 5 THEN [zd EXCEPT !.errcount = @ + 1]
                 ELSE [zd EXCEPT !.at = "refresh", !.errcount = 0]
        /\ UNCHANGED zc
(* An access that fails, or a signal, ends the tool where it is.             *)
Fails == /\ zd.at \notin {"start", "exit"}
         /\ zd' = [zd EXCEPT !.at = "exit", !.failed = TRUE]
         /\ UNCHANGED zc

ZipDbgInit ==
    /\ zd = [tool |-> "none", at |-> "start", i |-> 0, errcount |-> 0, cursor |-> 0, users |-> FALSE,
             shown |-> [r \in 0 .. 51 |-> NotShown], failed |-> FALSE]
    /\ zc = [halt |-> FALSE, halted |-> FALSE, step |-> FALSE, n |-> 0, writes |-> 0, addr |-> 0,
             stuck |-> FALSE]
ToolStep == Select \/ Wait \/ Fetch \/ Refresh \/ Poke \/ Asks
ZipDbgNext == \/ Start_ \/ ToolStep \/ Key \/ Edit \/ Fails
              \/ CpuRuns \/ CpuHalts \/ CpuSticks
ZipDbgSpec == ZipDbgInit /\ [][ZipDbgNext]_zd_vars

-----------------------------------------------------------------------------
(* The registers on the screen belong to one moment: read one at a time while the
   processor could go on, they all are from between the same two instructions, and
   while the user looks at them they are what the processor still has.       *)
ShowsOneState ==
    /\ \A i, j \in 1 .. Len(DRegs) :
         LET a == zd.shown[DRegs[i]]  b == zd.shown[DRegs[j]]
         IN  a # NotShown /\ b # NotShown => a = b
    /\ zd.at = "key" => \A i \in 1 .. Len(DRegs) : zd.shown[DRegs[i]] \in {NotShown, DValue}

(* A value that the user gives is written to the register that the screen shows
   under the cursor (get_value(), read_state()), as long as it shows the master's
   counters.                                                                 *)
EditsWhatIsShown == zd.at = "poke" /\ ~zd.users => zc.addr = ShownAt(zd.cursor, zd.users)

(* Whatever the processor does, the tool comes back to the user, or ends.    *)
DebuggerComesBack == (zd.at \notin {"start", "key", "exit"}) ~> (zd.at \in {"key", "exit"})

(* zipdbg shows one state of the processor, and what is typed over a value of it
   changes that value.                                                       *)
DebuggerRight == ShowsOneState /\ EditsWhatIsShown
=============================================================================
