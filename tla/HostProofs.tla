----------------------------- MODULE HostProofs -----------------------------
(* Theorems about three of the host's tools.  The debugger's screen: the tool reads
   one register after the other, and nothing holds the processor while it does
   but the halt bit that every selection of a register sets again; the proof is
   that the bit and the tool's place in its loop agree.  The proxy netuart: each
   client has a channel of its own, put together from sockets, buffers and its
   part of the one line; the proof follows the parts through every step.  The
   loader: the proof follows which headers of the file are in place, in memory or
   in the buffer for the flash, from section to section.                      *)
EXTENDS ZipDbg, NetUart, ZipLoad, WellFoundedInduction, SequenceTheorems, FiniteSetTheorems, TLAPS

-----------------------------------------------------------------------------
(* The debugger.                                                              *)
Shown == zd.shown
Frame == 0 .. 51

(* The places at which a screen is under way or stands before the user.       *)
Reading == {"select", "wait", "fetch"}

(* The processor is halted, and nobody has asked it to go on.                 *)
Held == zc.halt /\ zc.halted

(* The types, and the register that the loop is at.                           *)
Moments == {<<n, w>> : n \in Int, w \in Int}
Screens == [Frame -> {NotShown} \cup Moments]
ToolFields == {"tool", "at", "i", "errcount", "cursor", "users", "shown", "failed"}
PortFields == {"halt", "halted", "step", "n", "writes", "addr", "stuck"}
ToolOK(d) == /\ DOMAIN d = ToolFields /\ d.shown \in Screens /\ d.i \in Int
             /\ d.at \in Reading => d.i \in 1 .. Len(DRegs)
PortOK(c) == DOMAIN c = PortFields /\ c.n \in Int /\ c.writes \in Int
ToolTypes == ToolOK(zd) /\ PortOK(zc)

(* What is on the screen is of one moment, wherever the tool is.              *)
OneMoment == \A r, q \in Frame : Shown[r] # NotShown /\ Shown[q] # NotShown => Shown[r] = Shown[q]

(* While the screen is being filled or looked at, that moment is now, and it lasts:
   a register is on the screen only if the processor is held.                 *)
MomentLasts ==
    zd.at \in Reading \cup {"key"} =>
        \A r \in Frame : Shown[r] # NotShown => Held /\ Shown[r] = DValue

(* From the selection of a register on, the port has it selected and the processor
   has been told to halt.                                                     *)
SelectedNow == /\ zd.at \in {"wait", "fetch"} => zc.halt
               /\ zd.at = "fetch" => zc.halted
               /\ zd.at \in {"ewait", "poke"} => zc.addr = EditedAt(zd.cursor)

DbgInv == ToolTypes /\ OneMoment /\ MomentLasts /\ SelectedNow

-----------------------------------------------------------------------------
(* A register that is read is one of the screen's.                            *)
LEMMA RegOnScreen ==
    ASSUME DebuggerAssumption, NEW k \in 1 .. Len(DRegs)
    PROVE  DRegs[k] \in Frame
  BY ElementOfSeq, DebuggerAssumption DEF DebuggerAssumption, Frame

LEMMA SomeRegister == ASSUME DebuggerAssumption PROVE 1 \in 1 .. Len(DRegs)
  <1>1. DRegs \in Seq(0 .. 51) /\ DRegs # <<>>
    BY DEF DebuggerAssumption
  <1>2. Len(DRegs) \in Nat /\ Len(DRegs) # 0
    BY <1>1, EmptySeq, LenProperties
  <1> QED  BY <1>2

(* A moment is not the mark of a register that is not shown.                  *)
LEMMA MomentIsShown == \A n, w \in Int : <<n, w>> # NotShown /\ <<n, w>> \in Moments
  BY DEF NotShown, Moments

LEMMA DbgInvInit == ZipDbgInit => DbgInv
  <1> SUFFICES ASSUME ZipDbgInit PROVE DbgInv
    OBVIOUS
  <1>1. ToolTypes
    BY
    DEF ZipDbgInit, ToolTypes, ToolOK, PortOK, ToolFields, PortFields, Reading,
        Screens, Frame
  <1>2. OneMoment /\ MomentLasts /\ SelectedNow
    BY DEF ZipDbgInit, OneMoment, MomentLasts, SelectedNow, Shown, Reading, Frame
  <1> QED  BY <1>1, <1>2 DEF DbgInv

(* A step of the tool that is not of the loop that reads: the screen stays as it is
   or is wiped, and afterwards the tool is not reading.                       *)
LEMMA ScreenKept ==
    ASSUME OneMoment, zd'.shown = zd.shown, zd'.at \notin Reading \cup {"key"}
    PROVE  OneMoment' /\ MomentLasts'
  BY DEF OneMoment, MomentLasts, Shown

LEMMA ScreenWiped ==
    ASSUME zd'.shown = [r \in Frame |-> NotShown]
    PROVE  OneMoment' /\ MomentLasts'
  BY DEF OneMoment, MomentLasts, Shown

(* The processor's own steps: while it is held it takes none.                 *)
LEMMA CpuSteps ==
    ASSUME DbgInv, CpuRuns \/ CpuHalts \/ CpuSticks
    PROVE  DbgInv'
  <1>1. zd' = zd /\ ~zc.halted
    BY DEF CpuRuns, CpuHalts, CpuSticks
  <1>2. PortOK(zc') /\ zc'.halt = zc.halt /\ zc'.addr = zc.addr
    <2>1. CASE CpuRuns
      <3>1. PICK m \in Int : m = zc.n + 1
        BY DEF DbgInv, ToolTypes, ToolOK, PortOK, ToolFields, PortFields
      <3>2. zc' = [zc EXCEPT !.n = m]
        BY <2>1, <3>1 DEF CpuRuns
      <3> QED  BY <3>2 DEF DbgInv, ToolTypes, ToolOK, PortOK, ToolFields, PortFields
    <2>2. CASE CpuHalts
      <3>1. PICK m \in Int : zc' = [zc EXCEPT !.halted = TRUE, !.step = FALSE, !.n = m]
        <4>1. PICK done \in {0, 1} : zc' = [zc EXCEPT !.halted = TRUE, !.step = FALSE, !.n = zc.n + done]
          BY <2>2 DEF CpuHalts
        <4>2. PICK m \in Int : m = zc.n + done
          BY DEF DbgInv, ToolTypes, ToolOK, PortOK, ToolFields, PortFields
        <4> QED  BY <4>1, <4>2
      <3> QED  BY <3>1 DEF DbgInv, ToolTypes, ToolOK, PortOK, ToolFields, PortFields
    <2>3. CASE CpuSticks
      BY <2>3 DEF CpuSticks, DbgInv, ToolTypes, ToolOK, PortOK, ToolFields, PortFields
    <2> QED  BY <2>1, <2>2, <2>3
  <1>3. ToolTypes'
    BY <1>1, <1>2 DEF DbgInv, ToolTypes, ToolOK, PortOK, ToolFields, PortFields
  <1>4. OneMoment' /\ MomentLasts' /\ SelectedNow'
    BY <1>1, <1>2 DEF DbgInv, OneMoment, MomentLasts, SelectedNow, Shown, Held, EditedAt
  <1> QED  BY <1>3, <1>4 DEF DbgInv

(* The reading loop.  A selection halts the processor and shows nothing.      *)
LEMMA SelectStep == ASSUME DbgInv, Select PROVE DbgInv'
  <1>1. ToolTypes'
    <2> QED  BY
      DEF Select, WriteCtrl, DbgInv, ToolTypes, ToolOK, PortOK, ToolFields, PortFields,
          Reading
  <1>2. /\ zd'.shown = zd.shown /\ zd.at = "select" /\ zd'.at = "wait"
        /\ zc'.halt /\ zc'.halted = zc.halted /\ zc'.n = zc.n /\ zc'.writes = zc.writes
    BY DEF Select, WriteCtrl, DbgInv, ToolTypes, ToolOK, PortOK, ToolFields, PortFields
  <1>3. OneMoment' /\ MomentLasts' /\ SelectedNow'
    BY <1>2
    DEF DbgInv, OneMoment, MomentLasts, SelectedNow, Shown, Held, DValue, Reading
  <1> QED  BY <1>1, <1>3 DEF DbgInv

LEMMA WaitStep == ASSUME DbgInv, Wait PROVE DbgInv'
  <1>1. /\ zd'.shown = zd.shown /\ zc' = zc /\ zd'.cursor = zd.cursor
        /\ \/ zd.at = "wait" /\ zd'.at = "wait"
           \/ zd.at = "wait" /\ zd'.at = "fetch" /\ zc.halted
           \/ zd.at = "ewait" /\ zd'.at \in {"ewait", "poke"}
           \/ zd'.at = "exit"
    BY DEF Wait, DbgInv, ToolTypes, ToolOK, PortOK, ToolFields, PortFields
  <1>2. ToolTypes'
    BY DEF Wait, DbgInv, ToolTypes, ToolOK, PortOK, ToolFields, PortFields, Reading
  <1>3. OneMoment' /\ MomentLasts' /\ SelectedNow'
    BY <1>1
    DEF DbgInv, OneMoment, MomentLasts, SelectedNow, Shown, Held, DValue, Reading,
        EditedAt
  <1> QED  BY <1>2, <1>3 DEF DbgInv

(* The value of a register is fetched: the processor is held, so what the registers
   before it had is what they still have.                                     *)
LEMMA FetchStep == ASSUME DbgInv, Fetch PROVE DbgInv'
  <1> DEFINE r == DRegs[zd.i]
  <1>1. /\ zd.at = "fetch" /\ Held /\ zc' = zc /\ zd.i \in 1 .. Len(DRegs)
        /\ r \in Frame /\ Len(DRegs) \in Nat
    BY DebuggerAssumption, RegOnScreen
    DEF Fetch, DbgInv, ToolTypes, ToolOK, PortOK, ToolFields, PortFields, SelectedNow,
        Held, Reading, DebuggerAssumption
  <1>2. DValue \in Moments /\ DValue # NotShown /\ DValue' = DValue
    BY <1>1, MomentIsShown
    DEF DValue, DbgInv, ToolTypes, ToolOK, PortOK, ToolFields, PortFields
  <1>3. zd'.shown = [zd.shown EXCEPT ![r] = DValue]
    BY DEF Fetch, NextReg, DbgInv, ToolTypes, ToolOK, PortOK, ToolFields, PortFields
  <1>4. /\ zd'.at \in {"select", "key", "exit"}
        /\ zd'.at = "select" => zd'.i = zd.i + 1 /\ zd.i < Len(DRegs)
    BY DEF Fetch, NextReg, DbgInv, ToolTypes, ToolOK, PortOK, ToolFields, PortFields
  <1>5. ToolTypes'
    <2>1. zd'.shown \in Screens
      BY <1>1, <1>2, <1>3
      DEF DbgInv, ToolTypes, ToolOK, PortOK, ToolFields, PortFields, Screens
    <2>2. ToolOK(zd')
      BY <1>3, <2>1
      DEF Fetch, NextReg, DbgInv, ToolTypes, ToolOK, PortOK, ToolFields, PortFields,
          Reading
    <2> QED  BY <1>1, <1>4, <2>2
      DEF DbgInv, ToolTypes, ToolOK, PortOK, ToolFields, PortFields, Reading
  <1>6. \A q \in Frame : zd'.shown[q] # NotShown => zd'.shown[q] = DValue
    BY <1>1, <1>3
    DEF DbgInv, ToolTypes, ToolOK, PortOK, ToolFields, PortFields, Screens,
        MomentLasts, Shown, Reading
  <1>7. OneMoment' /\ MomentLasts' /\ SelectedNow'
    BY <1>1, <1>2, <1>4, <1>6 DEF OneMoment, MomentLasts, SelectedNow, Shown, Held
  <1> QED  BY <1>5, <1>7 DEF DbgInv

(* A refresh wipes the screen, to fill it again or to say that the processor is
   stalled; so does the start of zipstate.                                    *)
LEMMA WipeSteps == ASSUME DbgInv, Refresh \/ Start_ PROVE DbgInv'
  <1>0. [q \in 0 .. 51 |-> NotShown] = [q \in Frame |-> NotShown] /\ [q \in Frame |-> NotShown] \in Screens
    BY DEF Frame, Screens
  <1>1. CASE Refresh
    <2>1. /\ zd'.shown = [q \in Frame |-> NotShown] /\ zc' = zc
          /\ zd'.at \in {"key", "select"} /\ (zd'.at = "select" => zd'.i = 1)
      BY <1>1, <1>0
      DEF Refresh, StallScreen, ReadState, DbgInv, ToolTypes, ToolOK, PortOK,
          ToolFields, PortFields
    <2>2. ToolOK(zd')
      <3>1. DOMAIN zd' = ToolFields /\ zd'.i \in Int
        BY <1>1
        DEF Refresh, StallScreen, ReadState, DbgInv, ToolTypes, ToolOK, PortOK,
            ToolFields, PortFields
      <3> QED  BY <3>1, <2>1, <1>0, DebuggerAssumption, SomeRegister DEF ToolOK, Reading
    <2>3. ToolTypes'
      BY <2>1, <2>2, DebuggerAssumption, SomeRegister
      DEF DbgInv, ToolTypes, ToolOK, PortOK, ToolFields, PortFields, Reading
    <2>4. SelectedNow'
      BY <2>1 DEF SelectedNow
    <2> QED  BY <2>1, <2>3, <2>4, ScreenWiped DEF DbgInv
  <1>2. CASE Start_
    <2>1. PortOK(zc')
      BY <1>2
      DEF Start_, WriteCtrl, DbgInv, ToolTypes, ToolOK, PortOK, ToolFields, PortFields
    <2>2. \/ zd'.shown = zd.shown /\ zd'.at \in {"asks", "exit"}
          \/ zd'.shown = [q \in Frame |-> NotShown] /\ zd'.at = "select" /\ zd'.i = 1
      BY <1>0, <1>2
      DEF Start_, ReadState, DbgInv, ToolTypes, ToolOK, PortOK, ToolFields, PortFields
    <2>3. ToolOK(zd')
      <3>1. DOMAIN zd' = ToolFields /\ zd'.i \in Int
        <4>1. \/ zd' = [zd EXCEPT !.tool = "zipdbg", !.at = "asks"]
              \/ zd' = [zd EXCEPT !.tool = "zipstate", !.at = "exit"]
              \/ zd' = [ReadState(zd) EXCEPT !.tool = "zipstate -l"]
          BY <1>2 DEF Start_
        <4>2. DOMAIN ReadState(zd) = ToolFields /\ ReadState(zd).i \in Int
          BY DEF ReadState, DbgInv, ToolTypes, ToolOK, ToolFields
        <4>3. DOMAIN zd = ToolFields /\ zd.i \in Int
          BY DEF DbgInv, ToolTypes, ToolOK
        <4>4. CASE zd' = [zd EXCEPT !.tool = "zipdbg", !.at = "asks"]
          BY <4>3, <4>4 DEF ToolFields
        <4>5. CASE zd' = [zd EXCEPT !.tool = "zipstate", !.at = "exit"]
          BY <4>3, <4>5 DEF ToolFields
        <4>6. CASE zd' = [ReadState(zd) EXCEPT !.tool = "zipstate -l"]
          <5>1. PICK d : d = ReadState(zd)
            OBVIOUS
          <5>2. zd' = [d EXCEPT !.tool = "zipstate -l"] /\ DOMAIN d = ToolFields /\ d.i \in Int
            BY <4>2, <4>6, <5>1
          <5> QED  BY <5>2 DEF ToolFields
        <4> QED  BY <4>1, <4>4, <4>5, <4>6
      <3> QED  BY <3>1, <2>2, <1>0, DebuggerAssumption, SomeRegister
        DEF DbgInv, ToolTypes, ToolOK, Reading
    <2>4. ToolTypes'
      BY <2>1, <2>2, <2>3, DebuggerAssumption, SomeRegister DEF ToolTypes, Reading
    <2>5. SelectedNow'
      BY <2>2 DEF SelectedNow
    <2>6. OneMoment' /\ MomentLasts'
      BY <2>2, ScreenWiped, ScreenKept DEF DbgInv, Reading
    <2> QED  BY <2>4, <2>5, <2>6 DEF DbgInv
  <1> QED  BY <1>1, <1>2

(* What the user does leaves the screen as it is until the next refresh.      *)
LEMMA UserSteps == ASSUME DbgInv, Key \/ Edit \/ Poke \/ Asks \/ Fails PROVE DbgInv'
  <1>1. PortOK(zc')
    <2>1. CASE Poke
      <3>1. PICK w \in Int : w = zc.writes + 1
        BY DEF DbgInv, ToolTypes, ToolOK, PortOK, ToolFields, PortFields
      <3>2. zc' = [zc EXCEPT !.writes = w]
        BY <2>1, <3>1 DEF Poke
      <3> QED  BY <3>2 DEF DbgInv, ToolTypes, ToolOK, PortOK, ToolFields, PortFields
    <2>2. CASE Edit
      BY <2>2
      DEF Edit, WriteCtrl, DbgInv, ToolTypes, ToolOK, PortOK, ToolFields, PortFields
    <2>3. CASE Key
      <3>1. zc' = zc \/ zc' = Reset \/ zc' = Step_ \/ zc' = Go
        BY <2>3 DEF Key
      <3>2. PortOK(Reset) /\ PortOK(Go)
        BY DEF Reset, Go, DbgInv, ToolTypes, ToolOK, PortOK, ToolFields, PortFields
      <3>3. PortOK(Step_)
        BY DEF Step_, DbgInv, ToolTypes, ToolOK, PortOK, ToolFields, PortFields
      <3> QED  BY <3>1, <3>2, <3>3 DEF DbgInv, ToolTypes
    <2>4. CASE Asks \/ Fails
      BY <2>4 DEF Asks, Fails, DbgInv, ToolTypes
    <2> QED  BY <2>1, <2>2, <2>3, <2>4
  <1>2. ToolOK(zd')
    <2>1. CASE Key
      BY <2>1
      DEF Key, DbgInv, ToolTypes, ToolOK, PortOK, ToolFields, PortFields, Reading
    <2>2. CASE Edit \/ Poke
      BY <2>2
      DEF Edit, Poke, DbgInv, ToolTypes, ToolOK, PortOK, ToolFields, PortFields, Reading
    <2>3. CASE Asks \/ Fails
      <3>1. \E n \in {zd.errcount + 1, 0} : zd' = [zd EXCEPT !.errcount = n] \/ zd' = [zd EXCEPT !.at = "refresh", !.errcount = 0]
                                          \/ zd' = [zd EXCEPT !.at = "exit", !.failed = TRUE]
        BY <2>3 DEF Asks, Fails
      <3> QED  BY <2>3, <3>1
        DEF Asks, Fails, DbgInv, ToolTypes, ToolOK, PortOK, ToolFields, PortFields,
            Reading
    <2> QED  BY <2>1, <2>2, <2>3
  <1>3. /\ zd'.shown = zd.shown /\ zd'.at \in {"refresh", "exit", "ewait", "asks"}
        /\ zd'.at = "ewait" => zc'.addr = EditedAt(zd'.cursor)
    <2>1. CASE Edit
      BY <2>1
      DEF Edit, WriteCtrl, DbgInv, ToolTypes, ToolOK, PortOK, ToolFields, PortFields
    <2>2. CASE Key
      BY <2>2 DEF Key, DbgInv, ToolTypes, ToolOK, ToolFields
    <2>3. CASE Poke \/ Asks \/ Fails
      BY <2>3 DEF Poke, Asks, Fails, DbgInv, ToolTypes, ToolOK, ToolFields
    <2> QED  BY <2>1, <2>2, <2>3
  <1>4. ToolTypes' /\ SelectedNow'
    BY <1>1, <1>2, <1>3 DEF ToolTypes, SelectedNow, Reading
  <1>5. OneMoment' /\ MomentLasts'
    BY <1>3, ScreenKept DEF DbgInv, Reading
  <1> QED  BY <1>4, <1>5 DEF DbgInv

(* What the tool and the processor may do to each other, in one invariant: while a
   register is on a screen that is being filled or looked at, the processor is held
   where it was when the register was read.                                   *)
THEOREM DebuggerInvariant == ZipDbgSpec => []DbgInv
  <1>1. DbgInv /\ [ZipDbgNext]_zd_vars => DbgInv'
    <2> SUFFICES ASSUME DbgInv, [ZipDbgNext]_zd_vars PROVE DbgInv'
      OBVIOUS
    <2>1. CASE UNCHANGED zd_vars
      BY <2>1
      DEF zd_vars, DbgInv, ToolTypes, ToolOK, PortOK, ToolFields, PortFields,
          OneMoment, MomentLasts, SelectedNow, Shown, Held, DValue
    <2>2. CASE ZipDbgNext
      BY <2>2, CpuSteps, SelectStep, WaitStep, FetchStep, WipeSteps, UserSteps
      DEF ZipDbgNext, ToolStep
    <2> QED  BY <2>1, <2>2
  <1> QED  BY <1>1, DbgInvInit, PTL DEF ZipDbgSpec

(* zipdbg shows one state of the processor, and what is typed over a value of it
   changes that value: cmd_read(), read_state(), get_value() for any registers and
   any patience of the tool.                                                  *)
THEOREM DebuggerTellsTheTruth == ZipDbgSpec => []DebuggerRight
  <1>1. DbgInv => DebuggerRight
    <2> SUFFICES ASSUME DbgInv PROVE DebuggerRight
      OBVIOUS
    <2>1. ShowsOneState
      <3>1. \A i \in 1 .. Len(DRegs) : DRegs[i] \in Frame
        BY DebuggerAssumption, RegOnScreen
      <3> QED  BY <3>1 DEF ShowsOneState, DbgInv, OneMoment, MomentLasts, Shown
    <2>2. EditsWhatIsShown
      BY
      DEF EditsWhatIsShown, DbgInv, ToolTypes, ToolOK, PortOK, ToolFields, PortFields,
          SelectedNow, EditedAt, ShownAt
    <2> QED  BY <2>1, <2>2 DEF DebuggerRight
  <1> QED  BY <1>1, DebuggerInvariant, PTL

-----------------------------------------------------------------------------
(* The proxy.  Induction, with the statement as the set of those for which it holds.      *)
LEMMA SmallerThan == \A y, x : <<y, x>> \in OpToRel(<, Nat) <=> (y \in Nat /\ x \in Nat /\ y < x)
  BY Zenon DEF OpToRel

LEMMA AllNumbers ==
    ASSUME NEW T \in SUBSET Nat, 0 \in T, \A n \in T : n + 1 \in T
    PROVE  T = Nat
  <1> SUFFICES ASSUME Nat \ T # {} PROVE FALSE
    OBVIOUS
  <1>1. PICK x \in Nat \ T : \A y \in Nat \ T : ~(<<y, x>> \in OpToRel(<, Nat))
    BY NatLessThanWellFounded, WFMin
  <1>2. \A y \in Nat \ T : ~(y < x)
    BY <1>1, SmallerThan, Zenon
  <1>3. x # 0 /\ x \in Nat
    BY <1>1
  <1>4. x - 1 \in Nat /\ x - 1 < x /\ x - 1 + 1 = x
    BY <1>3
  <1>5. x - 1 \in T
    BY <1>2, <1>4
  <1> QED  BY <1>1, <1>4, <1>5

LEMMA AllSequences ==
    ASSUME NEW A, NEW T \in SUBSET Seq(A), <<>> \in T,
           \A s \in T : \A x \in A : Append(s, x) \in T
    PROVE  T = Seq(A)
  <1> SUFFICES ASSUME NEW s \in Seq(A) PROVE s \in T
    OBVIOUS
  <1>1. PICK n \in Nat : n = Len(s)
    BY LenProperties
  <1> DEFINE N == {k \in Nat : k <= n => SubSeq(s, 1, k) \in T}
  <1>2. 0 \in N
    <2>1. SubSeq(s, 1, 0) = <<>>
      BY SubSeqEmpty
    <2> QED  BY <2>1
  <1>3. ASSUME NEW k \in N PROVE k + 1 \in N
    <2>1. CASE k + 1 > n
      BY <2>1
    <2>2. CASE k + 1 <= n
      <3>1. k \in Nat /\ k <= n /\ SubSeq(s, 1, k) \in T /\ k + 1 \in 1 .. n
        BY <2>2
      <3>2. SubSeq(s, 1, k + 1) = SubSeq(s, 1, k) \o <<s[k + 1]>>
        <4>1. PICK j \in 1 .. Len(s) : j = k + 1
          BY <1>1, <3>1
        <4>2. 1 \in 1 .. Len(s) /\ j \in 1 .. Len(s) /\ j - 1 = k
          BY <1>1, <3>1, <4>1
        <4>3. SubSeq(s, 1, j) = SubSeq(s, 1, j - 1) \o <<s[j]>>
          BY <4>2, SubSeqRecursiveSecond
        <4> QED  BY <4>1, <4>2, <4>3
      <3>3. s[k + 1] \in A /\ SubSeq(s, 1, k) \in Seq(A)
        BY <1>1, <3>1, ElementOfSeq
      <3>4. Append(SubSeq(s, 1, k), s[k + 1]) = SubSeq(s, 1, k) \o <<s[k + 1]>>
        BY <3>3, AppendIsConcat
      <3>5. Append(SubSeq(s, 1, k), s[k + 1]) \in T
        <4>1. PICK u, y : u = SubSeq(s, 1, k) /\ y = s[k + 1]
          OBVIOUS
        <4>2. u \in T /\ y \in A
          BY <3>1, <3>3, <4>1
        <4>3. Append(u, y) \in T
          BY <4>2, Zenon
        <4> QED  BY <4>1, <4>3
      <3>6. SubSeq(s, 1, k + 1) \in T
        BY <3>2, <3>4, <3>5, Zenon
      <3> QED  BY <3>1, <3>6
    <2> QED  BY <1>1, <2>1, <2>2
  <1>4. N = Nat
    <2> HIDE DEF N
    <2>1. N \in SUBSET Nat
      BY DEF N
    <2> QED  BY <2>1, <1>2, <1>3, AllNumbers
  <1>5. SubSeq(s, 1, n) \in T
    <2>1. n \in N
      BY <1>4, Zenon
    <2> QED  BY <2>1
  <1> QED  BY <1>1, <1>5, SubSeqFull

LEMMA ConcatAppend ==
    ASSUME NEW A, NEW s \in Seq(A), NEW t \in Seq(A), NEW x \in A
    PROVE  s \o Append(t, x) = Append(s \o t, x)
  <1>1. PICK e \in Seq(A) : e = <<x>>
    <2>1. <<x>> \in Seq(A)
      OBVIOUS
    <2> QED  BY <2>1, Zenon
  <1>2. s \o t \in Seq(A)
    BY ConcatProperties
  <1>3. Append(t, x) = t \o e /\ Append(s \o t, x) = (s \o t) \o e
    BY <1>1, <1>2, AppendIsConcat
  <1>4. (s \o t) \o e = s \o (t \o e)
    BY ConcatAssociative, SMTT(60)
  <1> QED  BY <1>3, <1>4

-----------------------------------------------------------------------------
(* The characters of a channel, in a line to which one more comes.            *)
Chars == 0 .. 2 * NTop - 1
Clean == 0 .. NTop - 1

LEMMA NextPlace ==
    ASSUME NEW s \in Seq(Chars), NEW x \in Chars, NEW c
    PROVE  /\ IsFiniteSet(Places(s, c)) /\ Places(s, c) \subseteq 1 .. Len(s) /\ Len(s) \in Nat
           /\ Places(Append(s, x), c) = IF InChan(x, c) THEN Places(s, c) \cup {Len(s) + 1} ELSE Places(s, c)
           /\ \A i \in Places(s, c) : Append(s, x)[i] = s[i]
           /\ Append(s, x)[Len(s) + 1] = x
  <1>1. PICK n \in Nat : n = Len(s)
    BY LenProperties
  <1>2. PICK w \in Seq(Chars) : w = Append(s, x)
    BY AppendProperties
  <1>3. Len(w) = n + 1 /\ w[n + 1] = x /\ \A i \in 1 .. n : w[i] = s[i]
    BY <1>1, <1>2, AppendProperties
  <1>4. Places(s, c) \subseteq 1 .. n /\ IsFiniteSet(Places(s, c))
    <2>1. Places(s, c) \in SUBSET (1 .. n)
      BY <1>1 DEF Places
    <2>2. IsFiniteSet(1 .. n)
      BY FS_Interval
    <2> QED  BY <2>1, <2>2, FS_Subset
  <1>5. \A i \in 1 .. n : i \in Places(w, c) <=> i \in Places(s, c)
    BY <1>1, <1>3 DEF Places
  <1>6. Places(w, c) \subseteq 1 .. n + 1 /\ (n + 1 \in Places(w, c) <=> InChan(x, c))
    BY <1>3 DEF Places
  <1>7. \A i \in 1 .. n + 1 : i \in 1 .. n \/ i = n + 1
    OBVIOUS
  <1>8. Places(w, c) = IF InChan(x, c) THEN Places(s, c) \cup {n + 1} ELSE Places(s, c)
    <2>1. CASE InChan(x, c)
      <3>1. \A i : i \in Places(w, c) <=> i \in Places(s, c) \cup {n + 1}
        BY <1>4, <1>5, <1>6, <1>7, <2>1, Zenon
      <3> QED  BY <2>1, <3>1, Zenon
    <2>2. CASE ~InChan(x, c)
      <3>1. \A i : i \in Places(w, c) <=> i \in Places(s, c)
        BY <1>4, <1>5, <1>6, <1>7, <2>2, Zenon
      <3> QED  BY <2>2, <3>1, Zenon
    <2> QED  BY <2>1, <2>2
  <1> QED  BY <1>1, <1>2, <1>3, <1>4, <1>8

(* How many of the channel's places are up to i.                              *)
Rank(P, i) == Cardinality({j \in P : j <= i})

LEMMA NextRank ==
    ASSUME NEW n \in Nat, NEW P \in SUBSET (1 .. n)
    PROVE  /\ IsFiniteSet(P) /\ Cardinality(P) \in Nat
           /\ Cardinality(P \cup {n + 1}) = Cardinality(P) + 1
           /\ \A i \in P : Rank(P \cup {n + 1}, i) = Rank(P, i) /\ Rank(P, i) <= Cardinality(P)
           /\ Rank(P \cup {n + 1}, n + 1) = Cardinality(P) + 1
  <1>1. IsFiniteSet(P)
    <2>1. IsFiniteSet(1 .. n)
      BY FS_Interval
    <2> QED  BY <2>1, FS_Subset
  <1>2. Cardinality(P) \in Nat
    BY <1>1, FS_CardinalityType
  <1>3. n + 1 \notin P
    OBVIOUS
  <1>4. Cardinality(P \cup {n + 1}) = Cardinality(P) + 1
    BY <1>1, <1>3, FS_AddElement
  <1>5. ASSUME NEW i \in P
        PROVE  Rank(P \cup {n + 1}, i) = Rank(P, i) /\ Rank(P, i) <= Cardinality(P)
    <2>1. {j \in P \cup {n + 1} : j <= i} = {j \in P : j <= i}
      OBVIOUS
    <2>2. PICK S : S = {j \in P : j <= i}
      OBVIOUS
    <2>3. S \in SUBSET P
      BY <2>2
    <2>4. Cardinality(S) <= Cardinality(P)
      BY <1>1, <2>3, FS_Subset
    <2> QED  BY <2>1, <2>2, <2>4 DEF Rank
  <1>6. {j \in P \cup {n + 1} : j <= n + 1} = P \cup {n + 1}
    <2>1. \A j \in P \cup {n + 1} : j <= n + 1
      OBVIOUS
    <2> QED  BY <2>1, Zenon
  <1> QED  BY <1>1, <1>2, <1>4, <1>5, <1>6 DEF Rank

(* The lines in which the k-th of a channel's characters is where k of them are. *)
Ranked(c) ==
    {s \in Seq(Chars) : \A k \in 1 .. Cardinality(Places(s, c)) : \E i \in Places(s, c) : Rank(Places(s, c), i) = k}

LEMMA RankedAppend ==
    ASSUME NEW c, NEW s \in Ranked(c), NEW x \in Chars
    PROVE  Append(s, x) \in Ranked(c)
  <1>1. s \in Seq(Chars)
    BY DEF Ranked
  <1>2. PICK n \in Nat : n = Len(s)
    BY <1>1, LenProperties
  <1>3. PICK P : P = Places(s, c)
    OBVIOUS
  <1>4. P \in SUBSET (1 .. n)
    BY <1>2, <1>3 DEF Places
  <1>5. \A k \in 1 .. Cardinality(P) : \E i \in P : Rank(P, i) = k
    BY <1>3 DEF Ranked
  <1>6. Append(s, x) \in Seq(Chars)
    BY <1>1, AppendProperties
  <1>7. PICK Q : Q = Places(Append(s, x), c)
    OBVIOUS
  <1>8. Q = IF InChan(x, c) THEN P \cup {n + 1} ELSE P
    BY <1>1, <1>2, <1>3, <1>7, NextPlace
  <1>9. \A k \in 1 .. Cardinality(Q) : \E i \in Q : Rank(Q, i) = k
    <2>1. CASE ~InChan(x, c)
      BY <1>5, <1>8, <2>1
    <2>2. CASE InChan(x, c)
      <3>1. Q = P \cup {n + 1}
        BY <1>8, <2>2
      <3>2. Cardinality(P) \in Nat /\ Cardinality(Q) = Cardinality(P) + 1
        BY <1>4, <3>1, NextRank
      <3>3. \A i \in P : Rank(Q, i) = Rank(P, i)
        BY <1>4, <3>1, NextRank
      <3>4. Rank(Q, n + 1) = Cardinality(Q) /\ n + 1 \in Q
        BY <1>4, <3>1, <3>2, NextRank
      <3> SUFFICES ASSUME NEW k \in 1 .. Cardinality(Q) PROVE \E i \in Q : Rank(Q, i) = k
        OBVIOUS
      <3>5. CASE k = Cardinality(Q)
        BY <3>4, <3>5
      <3>6. CASE k # Cardinality(Q)
        <4>1. k \in 1 .. Cardinality(P)
          BY <3>2, <3>6
        <4>2. PICK i \in P : Rank(P, i) = k
          BY <4>1, <1>5
        <4> QED  BY <4>2, <3>1, <3>3
      <3> QED  BY <3>5, <3>6
    <2> QED  BY <2>1, <2>2
  <1> QED  BY <1>6, <1>7, <1>9 DEF Ranked

LEMMA AllRanked == ASSUME NEW c PROVE Ranked(c) = Seq(Chars)
  <1>1. <<>> \in Ranked(c)
    <2>1. Places(<<>>, c) = {}
      BY DEF Places
    <2>2. Cardinality({}) = 0
      BY FS_EmptySet
    <2>3. <<>> \in Seq(Chars)
      OBVIOUS
    <2>4. \A k : k \notin 1 .. 0
      OBVIOUS
    <2>5. \A k \in 1 .. Cardinality(Places(<<>>, c)) : \E i \in Places(<<>>, c) : Rank(Places(<<>>, c), i) = k
      BY <2>1, <2>2, <2>4
    <2> QED  BY <2>3, <2>5 DEF Ranked
  <1>2. PICK T : T = Ranked(c)
    OBVIOUS
  <1>3. T \in SUBSET Seq(Chars)
    BY <1>2 DEF Ranked
  <1>4. \A s \in T : \A x \in Chars : Append(s, x) \in T
    BY <1>2, RankedAppend
  <1>5. <<>> \in T
    BY <1>1, <1>2
  <1>6. T = Seq(Chars)
    BY <1>3, <1>4, <1>5, AllSequences, Zenon
  <1> QED  BY <1>2, <1>6

LEMMA PlaceFound ==
    ASSUME NEW s \in Seq(Chars), NEW c, NEW k \in 1 .. Cardinality(Places(s, c))
    PROVE  PlaceOf(Places(s, c), k) \in Places(s, c) /\ Rank(Places(s, c), PlaceOf(Places(s, c), k)) = k
  <1>1. \E i \in Places(s, c) : Rank(Places(s, c), i) = k
    BY AllRanked DEF Ranked
  <1> QED  BY <1>1 DEF PlaceOf, Rank

LEMMA OfChanType ==
    ASSUME NEW s \in Seq(Chars), NEW c
    PROVE  OfChan(s, c) \in Seq(Chars)
  <1>1. PICK n \in Nat : n = Len(s)
    BY LenProperties
  <1>2. PICK P : P = Places(s, c)
    OBVIOUS
  <1>3. P \in SUBSET (1 .. n)
    BY <1>1, <1>2 DEF Places
  <1>4. PICK m \in Nat : m = Cardinality(P)
    BY <1>3, NextRank
  <1>5. \A k \in 1 .. m : PlaceOf(P, k) \in P
    BY <1>2, <1>4, PlaceFound
  <1>6. \A k \in 1 .. m : s[PlaceOf(P, k)] \in Chars
    BY <1>1, <1>3, <1>5, ElementOfSeq
  <1>7. [k \in 1 .. m |-> s[PlaceOf(P, k)]] \in Seq(Chars)
    BY <1>6
  <1> QED  BY <1>2, <1>4, <1>7 DEF OfChan

LEMMA OfChanAppend ==
    ASSUME NEW s \in Seq(Chars), NEW x \in Chars, NEW c
    PROVE  OfChan(Append(s, x), c) = IF InChan(x, c) THEN Append(OfChan(s, c), x) ELSE OfChan(s, c)
  <1>1. PICK n \in Nat : n = Len(s)
    BY LenProperties
  <1>2. PICK P : P = Places(s, c)
    OBVIOUS
  <1>3. P \in SUBSET (1 .. n)
    BY <1>1, <1>2 DEF Places
  <1>4. PICK m \in Nat : m = Cardinality(P)
    BY <1>3, NextRank
  <1>5. PICK w \in Seq(Chars) : w = Append(s, x)
    BY AppendProperties
  <1>6. PICK Q : Q = Places(w, c)
    OBVIOUS
  <1>7. Q = IF InChan(x, c) THEN P \cup {n + 1} ELSE P
    BY <1>1, <1>2, <1>5, <1>6, NextPlace
  <1>8. (\A i \in P : w[i] = s[i]) /\ w[n + 1] = x
    BY <1>1, <1>2, <1>5, NextPlace
  <1>9. \A k \in 1 .. m : PlaceOf(P, k) \in P /\ Rank(P, PlaceOf(P, k)) = k
    BY <1>2, <1>4, PlaceFound
  <1>10. OfChan(s, c) = [k \in 1 .. m |-> s[PlaceOf(P, k)]]
    BY <1>2, <1>4 DEF OfChan
  <1>11. OfChan(w, c) = [k \in 1 .. Cardinality(Q) |-> w[PlaceOf(Q, k)]]
    BY <1>6 DEF OfChan
  <1>12. CASE ~InChan(x, c)
    <2>1. Q = P
      BY <1>7, <1>12
    <2>2. OfChan(w, c) = [k \in 1 .. m |-> w[PlaceOf(P, k)]]
      BY <1>11, <1>4, <2>1
    <2>3. \A k \in 1 .. m : w[PlaceOf(P, k)] = s[PlaceOf(P, k)]
      BY <1>8, <1>9
    <2>4. OfChan(w, c) = OfChan(s, c)
      BY <2>2, <2>3, <1>10
    <2> QED  BY <2>4, <1>5, <1>12
  <1>13. CASE InChan(x, c)
    <2>1. Q = P \cup {n + 1}
      BY <1>7, <1>13
    <2>2. Cardinality(Q) = m + 1
      BY <1>3, <1>4, <2>1, NextRank
    <2>3. \A i \in P : Rank(Q, i) = Rank(P, i) /\ Rank(P, i) <= m
      BY <1>3, <1>4, <2>1, NextRank
    <2>4. Rank(Q, n + 1) = m + 1
      BY <1>3, <1>4, <2>1, NextRank
    <2>5. \A k \in 1 .. m + 1 : PlaceOf(Q, k) \in Q /\ Rank(Q, PlaceOf(Q, k)) = k
      BY <1>6, <2>2, PlaceFound
    <2>6. \A k \in 1 .. m : \A i : i \in Q /\ Rank(Q, i) = k <=> i \in P /\ Rank(P, i) = k
      <3>1. \A k \in 1 .. m : k # m + 1
        OBVIOUS
      <3> QED  BY <2>1, <2>3, <2>4, <3>1, Zenon
    <2>7. \A k \in 1 .. m : PlaceOf(Q, k) = PlaceOf(P, k)
      <3> SUFFICES ASSUME NEW k \in 1 .. m PROVE PlaceOf(Q, k) = PlaceOf(P, k)
        OBVIOUS
      <3>1. PlaceOf(Q, k) = CHOOSE i : i \in Q /\ Rank(Q, i) = k
        BY DEF PlaceOf, Rank
      <3>2. PlaceOf(P, k) = CHOOSE i : i \in P /\ Rank(P, i) = k
        BY DEF PlaceOf, Rank
      <3> QED  BY <3>1, <3>2, <2>6
    <2>8. PlaceOf(Q, m + 1) = n + 1
      <3>1. PlaceOf(Q, m + 1) \in Q /\ Rank(Q, PlaceOf(Q, m + 1)) = m + 1
        <4>1. m + 1 \in 1 .. m + 1
          OBVIOUS
        <4> QED  BY <2>5, <4>1
      <3>2. \A i \in P : Rank(Q, i) # m + 1
        <4>1. \A i \in P : Rank(P, i) <= m => Rank(P, i) # m + 1
          OBVIOUS
        <4> QED  BY <2>3, <4>1
      <3> QED  BY <3>1, <3>2, <2>1, Zenon
    <2>9. PICK o \in Seq(Chars) : o = OfChan(s, c)
      BY OfChanType
    <2>10. PICK v \in Seq(Chars) : v = OfChan(w, c)
      BY OfChanType
    <2>11. Len(o) = m /\ \A k \in 1 .. m : o[k] = s[PlaceOf(P, k)]
      BY <1>10, <2>9
    <2>12. Len(v) = m + 1 /\ \A k \in 1 .. m + 1 : v[k] = w[PlaceOf(Q, k)]
      BY <1>11, <2>2, <2>10
    <2>13. \A k \in 1 .. m : v[k] = o[k]
      <3> SUFFICES ASSUME NEW k \in 1 .. m PROVE v[k] = o[k]
        OBVIOUS
      <3>1. v[k] = w[PlaceOf(P, k)]
        BY <2>12, <2>7
      <3> QED  BY <3>1, <2>11, <1>8, <1>9
    <2>14. v[m + 1] = x
      BY <2>12, <2>8, <1>8
    <2>15. PICK a \in Seq(Chars) : a = Append(o, x)
      BY AppendProperties
    <2>16. Len(a) = m + 1 /\ a[m + 1] = x /\ \A k \in 1 .. m : a[k] = o[k]
      BY <2>11, <2>15, AppendProperties
    <2>17. \A k \in 1 .. Len(v) : v[k] = a[k]
      <3>1. \A k \in 1 .. m + 1 : k \in 1 .. m \/ k = m + 1
        OBVIOUS
      <3> QED  BY <3>1, <2>12, <2>13, <2>14, <2>16
    <2>18. v = a
      BY <2>12, <2>16, <2>17, SeqEqual
    <2> QED  BY <2>18, <2>10, <2>15, <2>9, <1>5, <1>13
  <1> QED  BY <1>12, <1>13

-----------------------------------------------------------------------------
(* Lines put together, and cut.                                              *)
LEMMA OfChanEmpty == ASSUME NEW c PROVE OfChan(<<>>, c) = <<>>
  <1>1. Places(<<>>, c) = {}
    BY DEF Places
  <1>2. Cardinality({}) = 0
    BY FS_EmptySet
  <1>3. PICK o \in Seq(Chars) : o = OfChan(<<>>, c)
    <2>1. <<>> \in Seq(Chars)
      OBVIOUS
    <2> QED  BY <2>1, OfChanType
  <1>4. OfChan(<<>>, c) = [k \in 1 .. 0 |-> <<>>[PlaceOf({}, k)]]
    BY <1>1, <1>2 DEF OfChan
  <1>5. Len(o) = 0
    BY <1>3, <1>4
  <1> QED  BY <1>3, <1>5, EmptySeq

LEMMA OfChanConcat ==
    ASSUME NEW s \in Seq(Chars), NEW t \in Seq(Chars), NEW c
    PROVE  OfChan(s \o t, c) = OfChan(s, c) \o OfChan(t, c)
  <1>1. PICK T : T = {u \in Seq(Chars) : OfChan(s \o u, c) = OfChan(s, c) \o OfChan(u, c)}
    OBVIOUS
  <1>2. T \in SUBSET Seq(Chars)
    BY <1>1
  <1>3. <<>> \in T
    <2>1. s \o <<>> = s /\ <<>> \in Seq(Chars)
      BY ConcatEmptySeq, EmptySeq
    <2>2. OfChan(s, c) \o <<>> = OfChan(s, c)
      BY OfChanType, ConcatEmptySeq
    <2> QED  BY <1>1, <2>1, <2>2, OfChanEmpty
  <1>4. ASSUME NEW u \in T, NEW x \in Chars PROVE Append(u, x) \in T
    <2>1. u \in Seq(Chars) /\ OfChan(s \o u, c) = OfChan(s, c) \o OfChan(u, c)
      BY <1>1
    <2>2. PICK a \in Seq(Chars) : a = OfChan(s, c)
      BY OfChanType
    <2>3. PICK b \in Seq(Chars) : b = OfChan(u, c)
      BY <2>1, OfChanType
    <2>4. PICK v \in Seq(Chars) : v = s \o u
      BY <2>1, ConcatProperties
    <2>5. s \o Append(u, x) = Append(v, x)
      BY <2>1, <2>4, ConcatAppend, SMTT(60)
    <2>6. OfChan(Append(v, x), c) = IF InChan(x, c) THEN Append(a \o b, x) ELSE a \o b
      BY <2>1, <2>2, <2>3, <2>4, OfChanAppend, ZenonT(60)
    <2>7. OfChan(Append(u, x), c) = IF InChan(x, c) THEN Append(b, x) ELSE b
      BY <2>1, <2>3, OfChanAppend
    <2>8. Append(a \o b, x) = a \o Append(b, x)
      <3>1. a \in Seq(Chars) /\ b \in Seq(Chars)
        BY <2>2, <2>3
      <3>2. \A q, w \in Seq(Chars) : \A y \in Chars : q \o Append(w, y) = Append(q \o w, y)
        BY ConcatAppend
      <3> QED  BY <3>1, <3>2, Zenon
    <2>9. OfChan(s \o Append(u, x), c) = OfChan(s, c) \o OfChan(Append(u, x), c)
      BY <2>2, <2>5, <2>6, <2>7, <2>8
    <2>10. Append(u, x) \in Seq(Chars)
      BY <2>1, AppendProperties
    <2> QED  BY <1>1, <2>9, <2>10
  <1>5. T = Seq(Chars)
    BY <1>2, <1>3, <1>4, AllSequences, Zenon
  <1> QED  BY <1>1, <1>5

(* A line of one channel only.                                               *)
AllIn(s, c) == \A i \in 1 .. Len(s) : InChan(s[i], c)
NoneIn(s, c) == \A i \in 1 .. Len(s) : ~InChan(s[i], c)

LEMMA OfChanOne ==
    ASSUME NEW s \in Seq(Chars), NEW c
    PROVE  /\ AllIn(s, c) => OfChan(s, c) = s
           /\ NoneIn(s, c) => OfChan(s, c) = <<>>
  <1>1. PICK T : T = {u \in Seq(Chars) : /\ AllIn(u, c) => OfChan(u, c) = u
                                         /\ NoneIn(u, c) => OfChan(u, c) = <<>>}
    OBVIOUS
  <1>2. T \in SUBSET Seq(Chars)
    BY <1>1
  <1>3. <<>> \in T
    BY <1>1, EmptySeq, OfChanEmpty
  <1>4. ASSUME NEW u \in T, NEW x \in Chars PROVE Append(u, x) \in T
    <2>1. /\ u \in Seq(Chars)
          /\ AllIn(u, c) => OfChan(u, c) = u
          /\ NoneIn(u, c) => OfChan(u, c) = <<>>
      BY <1>1
    <2>2. PICK v \in Seq(Chars) : v = Append(u, x)
      BY <2>1, AppendProperties
    <2>3. PICK n \in Nat : n = Len(u)
      BY <2>1, LenProperties
    <2>4. Len(v) = n + 1 /\ v[n + 1] = x /\ \A i \in 1 .. n : v[i] = u[i]
      BY <2>1, <2>2, <2>3, AppendProperties
    <2>5. \A i \in 1 .. n : i \in 1 .. n + 1
      OBVIOUS
    <2>6. n + 1 \in 1 .. n + 1
      OBVIOUS
    <2>7. AllIn(v, c) => AllIn(u, c) /\ InChan(x, c)
      BY <2>3, <2>4, <2>5, <2>6 DEF AllIn
    <2>8. NoneIn(v, c) => NoneIn(u, c) /\ ~InChan(x, c)
      BY <2>3, <2>4, <2>5, <2>6 DEF NoneIn
    <2>9. OfChan(v, c) = IF InChan(x, c) THEN Append(OfChan(u, c), x) ELSE OfChan(u, c)
      BY <2>1, <2>2, OfChanAppend
    <2>10. AllIn(v, c) => OfChan(v, c) = v
      BY <2>1, <2>2, <2>7, <2>9
    <2>11. NoneIn(v, c) => OfChan(v, c) = <<>>
      BY <2>1, <2>8, <2>9
    <2> QED  BY <1>1, <2>2, <2>10, <2>11
  <1>5. T = Seq(Chars)
    BY <1>2, <1>3, <1>4, AllSequences, Zenon
  <1> QED  BY <1>1, <1>5

(* The top bit taken off and put on.                                         *)
LEMMA TopBit ==
    /\ NTop \in Nat \ {0}
    /\ \A x \in Chars : x % NTop \in Clean
    /\ \A x \in Clean : /\ x \in Chars /\ x + NTop \in Chars /\ x < NTop
                        /\ x % NTop = x /\ (x + NTop) % NTop = x
  BY NetUartAssumption DEF Chars, Clean

LEMMA UnmarkFacts ==
    ASSUME NEW s \in Seq(Chars)
    PROVE  /\ Unmark(s) \in Seq(Clean) /\ Len(Unmark(s)) = Len(s)
           /\ \A i \in 1 .. Len(s) : Unmark(s)[i] = s[i] % NTop
  <1>1. PICK n \in Nat : n = Len(s)
    BY LenProperties
  <1>2. \A i \in 1 .. n : s[i] % NTop \in Clean
    BY <1>1, TopBit, ElementOfSeq
  <1>3. [i \in 1 .. n |-> s[i] % NTop] \in Seq(Clean)
    BY <1>2
  <1>4. Unmark(s) = [i \in 1 .. n |-> s[i] % NTop]
    BY <1>1 DEF Unmark
  <1> QED  BY <1>1, <1>3, <1>4

LEMMA UnmarkConcat ==
    ASSUME NEW s \in Seq(Chars), NEW t \in Seq(Chars)
    PROVE  Unmark(s \o t) = Unmark(s) \o Unmark(t)
  <1>1. PICK m \in Nat, n \in Nat : m = Len(s) /\ n = Len(t)
    BY LenProperties
  <1>2. PICK w \in Seq(Chars) : w = s \o t
    BY ConcatProperties
  <1>3. PICK a \in Seq(Clean), b \in Seq(Clean), d \in Seq(Clean) :
            a = Unmark(s) /\ b = Unmark(t) /\ d = Unmark(w)
    BY UnmarkFacts
  <1>4. PICK e \in Seq(Clean) : e = a \o b
    BY ConcatProperties
  <1>5. Len(w) = m + n /\ \A i \in 1 .. m + n : w[i] = IF i <= m THEN s[i] ELSE t[i - m]
    BY <1>1, <1>2, ConcatProperties
  <1>6. Len(a) = m /\ \A i \in 1 .. m : a[i] = s[i] % NTop
    BY <1>1, <1>3, UnmarkFacts
  <1>7. Len(b) = n /\ \A i \in 1 .. n : b[i] = t[i] % NTop
    BY <1>1, <1>3, UnmarkFacts
  <1>8. Len(d) = m + n /\ \A i \in 1 .. m + n : d[i] = w[i] % NTop
    BY <1>3, <1>5, UnmarkFacts
  <1>9. Len(e) = m + n /\ \A i \in 1 .. m + n : e[i] = IF i <= m THEN a[i] ELSE b[i - m]
    BY <1>4, <1>6, <1>7, ConcatProperties, ZenonT(60)
  <1>10. \A i \in 1 .. m + n : d[i] = e[i]
    <2> SUFFICES ASSUME NEW i \in 1 .. m + n PROVE d[i] = e[i]
      OBVIOUS
    <2>1. CASE i <= m
      <3>1. i \in 1 .. m
        BY <2>1
      <3> QED  BY <2>1, <3>1, <1>5, <1>6, <1>8, <1>9
    <2>2. CASE ~(i <= m)
      <3>1. PICK k \in 1 .. n : k = i - m
        BY <2>2
      <3> QED  BY <2>2, <3>1, <1>5, <1>7, <1>8, <1>9
    <2> QED  BY <2>1, <2>2
  <1>11. d = e
    BY <1>8, <1>9, <1>10, SeqEqual
  <1> QED  BY <1>11, <1>2, <1>3, <1>4

LEMMA MarkFacts ==
    ASSUME NEW s \in Seq(Clean), NEW c \in NChans
    PROVE  Mark(s, c) \in Seq(Chars) /\ AllIn(Mark(s, c), c) /\ Unmark(Mark(s, c)) = s
  <1>1. PICK n \in Nat : n = Len(s)
    BY LenProperties
  <1>2. \A i \in 1 .. n : s[i] \in Clean
    BY <1>1, ElementOfSeq
  <1>3. ASSUME NEW f, \A x \in Clean : f[x] \in Chars /\ InChan(f[x], c) /\ f[x] % NTop = x,
               Mark(s, c) = [i \in 1 .. n |-> f[s[i]]]
        PROVE  Mark(s, c) \in Seq(Chars) /\ AllIn(Mark(s, c), c) /\ Unmark(Mark(s, c)) = s
    <2>1. PICK m : m = Mark(s, c)
      OBVIOUS
    <2>2. m \in Seq(Chars) /\ Len(m) = n /\ \A i \in 1 .. n : m[i] = f[s[i]]
      BY <1>2, <1>3, <2>1
    <2>3. AllIn(m, c)
      BY <1>2, <1>3, <2>2 DEF AllIn
    <2>4. PICK u \in Seq(Clean) : u = Unmark(m)
      BY <2>2, UnmarkFacts
    <2>5. Len(u) = n /\ \A i \in 1 .. n : u[i] = m[i] % NTop
      BY <2>2, <2>4, UnmarkFacts
    <2>6. \A i \in 1 .. n : u[i] = s[i]
      BY <1>2, <1>3, <2>2, <2>5
    <2>7. u = s
      BY <1>1, <2>5, <2>6, SeqEqual
    <2> QED  BY <2>1, <2>2, <2>3, <2>4, <2>7
  <1>4. CASE c = "cmd"
    <2>1. PICK f : f = [x \in Clean |-> x + NTop]
      OBVIOUS
    <2>2. \A x \in Clean : f[x] = x + NTop
      BY <2>1
    <2>3. \A x \in Clean : InChan(x + NTop, c)
      BY <1>4, TopBit DEF InChan, Clean
    <2>4. \A x \in Clean : f[x] \in Chars /\ InChan(f[x], c) /\ f[x] % NTop = x
      BY <2>2, <2>3, TopBit
    <2>5. \A i \in 1 .. n : (IF s[i] < NTop THEN s[i] + NTop ELSE s[i]) = f[s[i]]
      BY <1>2, <2>2, TopBit
    <2>6. Mark(s, c) = [i \in 1 .. n |-> f[s[i]]]
      BY <1>1, <1>4, <2>5 DEF Mark
    <2> QED  BY <1>3, <2>4, <2>6
  <1>5. CASE c = "con"
    <2>1. PICK f : f = [x \in Clean |-> x]
      OBVIOUS
    <2>2. \A x \in Clean : f[x] = x
      BY <2>1
    <2>3. \A x \in Clean : InChan(x, c)
      BY <1>5, TopBit DEF InChan, Clean
    <2>4. \A x \in Clean : f[x] \in Chars /\ InChan(f[x], c) /\ f[x] % NTop = x
      BY <2>2, <2>3, TopBit
    <2>5. s = [i \in 1 .. n |-> f[s[i]]]
      <3>1. s = [i \in 1 .. n |-> s[i]]
        BY <1>1, LenProperties
      <3> QED  BY <3>1, <1>2, <2>2
    <2>6. Mark(s, c) = [i \in 1 .. n |-> f[s[i]]]
      BY <1>5, <2>5 DEF Mark
    <2> QED  BY <1>3, <2>4, <2>6
  <1> QED  BY <1>4, <1>5 DEF NChans

LEMMA CutFacts ==
    ASSUME NEW A, NEW s \in Seq(A), NEW n \in Nat
    PROVE  /\ Take(s, n) \in Seq(A) /\ Drop(s, n) \in Seq(A) /\ Take(s, n) \o Drop(s, n) = s
           /\ n > 0 => (Take(s, n) = <<>> <=> s = <<>>)
           /\ Len(Take(s, n)) = NMin(n, Len(s)) /\ NMin(n, Len(s)) \in 0 .. Len(s)
           /\ Len(Drop(s, n)) = Len(s) - NMin(n, Len(s))
           /\ \A i \in 1 .. NMin(n, Len(s)) : Take(s, n)[i] = s[i]
           /\ \A i \in 1 .. Len(s) - NMin(n, Len(s)) : Drop(s, n)[i] = s[i + NMin(n, Len(s))]
  <1>1. PICK l \in Nat : l = Len(s)
    BY LenProperties
  <1>2. PICK k \in 0 .. l : k = NMin(n, Len(s))
    BY <1>1 DEF NMin
  <1>3. \A i \in 1 .. l : s[i] \in A
    BY <1>1, ElementOfSeq
  <1>4. Take(s, n) = SubSeq(s, 1, k) /\ Drop(s, n) = SubSeq(s, k + 1, l)
    BY <1>1, <1>2 DEF Take, Drop
  <1>5. SubSeq(s, 1, k) \in Seq(A) /\ Len(SubSeq(s, 1, k)) = k /\ \A i \in 1 .. k : SubSeq(s, 1, k)[i] = s[i]
    <2>1. \A i \in 1 .. k : s[i] \in A
      BY <1>3
    <2>2. /\ SubSeq(s, 1, k) \in Seq(A)
          /\ Len(SubSeq(s, 1, k)) = IF 1 <= k THEN k - 1 + 1 ELSE 0
          /\ \A i \in 1 .. k - 1 + 1 : SubSeq(s, 1, k)[i] = s[1 + i - 1]
      BY <2>1, SubSeqProperties
    <2> QED  BY <2>2
  <1>6. /\ SubSeq(s, k + 1, l) \in Seq(A) /\ Len(SubSeq(s, k + 1, l)) = l - k
        /\ \A i \in 1 .. l - k : SubSeq(s, k + 1, l)[i] = s[i + k]
    <2>1. PICK m \in 1 .. l + 1 : m = k + 1
      OBVIOUS
    <2>2. \A i \in m .. l : s[i] \in A
      BY <1>3, <2>1
    <2>3. /\ SubSeq(s, m, l) \in Seq(A)
          /\ Len(SubSeq(s, m, l)) = IF m <= l THEN l - m + 1 ELSE 0
          /\ \A i \in 1 .. l - m + 1 : SubSeq(s, m, l)[i] = s[m + i - 1]
      BY <2>2, SubSeqProperties
    <2>4. \A i \in 1 .. l - k : i \in 1 .. l - m + 1 /\ m + i - 1 = i + k
      BY <2>1
    <2> QED  BY <2>1, <2>3, <2>4
  <1>7. SubSeq(s, 1, k) \o SubSeq(s, k + 1, l) = s
    <2>1. SubSeq(s, 1, k) \o SubSeq(s, k + 1, l) = SubSeq(s, 1, l)
      <3>1. 1 \in 1 .. Len(s) + 1 /\ k \in 1 - 1 .. Len(s) /\ l \in k .. Len(s)
        BY <1>1, <1>2
      <3> QED  BY <3>1, ConcatAdjacentSubSeq
    <2> QED  BY <1>1, <2>1, SubSeqFull
  <1>8. n > 0 => (k = 0 <=> l = 0)
    BY <1>1, <1>2 DEF NMin
  <1>9. n > 0 => (SubSeq(s, 1, k) = <<>> <=> s = <<>>)
    <2>1. SubSeq(s, 1, k) = <<>> <=> k = 0
      BY <1>5, EmptySeq
    <2>2. s = <<>> <=> l = 0
      BY <1>1, EmptySeq
    <2> QED  BY <1>8, <2>1, <2>2
  <1>10. Len(s) - NMin(n, Len(s)) = l - k /\ NMin(n, Len(s)) \in 0 .. Len(s)
    BY <1>1, <1>2
  <1>11. /\ Take(s, n) \in Seq(A) /\ Drop(s, n) \in Seq(A) /\ Take(s, n) \o Drop(s, n) = s
         /\ n > 0 => (Take(s, n) = <<>> <=> s = <<>>)
    BY <1>4, <1>5, <1>6, <1>7, <1>9
  <1>12. Len(Take(s, n)) = k /\ \A i \in 1 .. k : Take(s, n)[i] = s[i]
    BY <1>4, <1>5
  <1>13. Len(Drop(s, n)) = l - k /\ \A i \in 1 .. l - k : Drop(s, n)[i] = s[i + k]
    BY <1>4, <1>6
  <1> QED  BY <1>2, <1>10, <1>11, <1>12, <1>13

LEMMA ConcatParts ==
    ASSUME NEW A, NEW s \in Seq(A), NEW t \in Seq(A)
    PROVE  /\ t \in Abstract!Suffixes(s \o t) /\ t \in Abstract!Suffixes(t)
           /\ s \in Abstract!Prefixes(s \o t) /\ s \in Abstract!Prefixes(s)
           /\ s # <<>> => s \o t # <<>> /\ Tail(s \o t) = Tail(s) \o t
  <1>1. PICK m \in Nat, n \in Nat : m = Len(s) /\ n = Len(t)
    BY LenProperties
  <1>2. PICK w \in Seq(A) : w = s \o t
    BY ConcatProperties
  <1>3. Len(w) = m + n /\ \A i \in 1 .. m + n : w[i] = IF i <= m THEN s[i] ELSE t[i - m]
    BY <1>1, <1>2, ConcatProperties
  <1>4. \A i \in 1 .. m + n : w[i] \in A
    BY <1>3, ElementOfSeq
  <1>5. t = SubSeq(w, m + 1, m + n)
    <2>1. PICK j \in 1 .. m + n + 1, l \in Nat : j = m + 1 /\ l = m + n
      OBVIOUS
    <2>2. \A i \in j .. l : w[i] \in A
      BY <1>4, <2>1
    <2>3. /\ SubSeq(w, j, l) \in Seq(A)
          /\ Len(SubSeq(w, j, l)) = IF j <= l THEN l - j + 1 ELSE 0
          /\ \A i \in 1 .. l - j + 1 : SubSeq(w, j, l)[i] = w[j + i - 1]
      BY <2>2, SubSeqProperties
    <2>4. PICK u \in Seq(A) : u = SubSeq(w, j, l)
      BY <2>3
    <2>5. Len(u) = n /\ \A i \in 1 .. n : u[i] = w[m + i]
      BY <2>1, <2>3, <2>4
    <2>6. \A i \in 1 .. n : w[m + i] = t[i]
      BY <1>3
    <2>7. u = t
      BY <1>1, <2>5, <2>6, SeqEqual
    <2> QED  BY <2>1, <2>4, <2>7
  <1>6. s = SubSeq(w, 1, m)
    <2>1. \A i \in 1 .. m : w[i] \in A
      BY <1>4
    <2>2. /\ SubSeq(w, 1, m) \in Seq(A)
          /\ Len(SubSeq(w, 1, m)) = IF 1 <= m THEN m - 1 + 1 ELSE 0
          /\ \A i \in 1 .. m - 1 + 1 : SubSeq(w, 1, m)[i] = w[1 + i - 1]
      BY <2>1, SubSeqProperties
    <2>3. PICK u \in Seq(A) : u = SubSeq(w, 1, m)
      BY <2>2
    <2>4. Len(u) = m /\ \A i \in 1 .. m : u[i] = w[i]
      BY <2>2, <2>3
    <2>5. \A i \in 1 .. m : w[i] = s[i]
      BY <1>3
    <2>6. u = s
      BY <1>1, <2>4, <2>5, SeqEqual
    <2> QED  BY <2>3, <2>6
  <1>7. t \in Abstract!Suffixes(w) /\ s \in Abstract!Prefixes(w)
    <2>1. m + 1 \in 1 .. Len(w) + 1 /\ m \in 0 .. Len(w)
      BY <1>3
    <2> QED  BY <1>3, <1>5, <1>6, <2>1 DEF Abstract!Suffixes, Abstract!Prefixes
  <1>8. t \in Abstract!Suffixes(t) /\ s \in Abstract!Prefixes(s)
    <2>1. t = SubSeq(t, 1, Len(t)) /\ s = SubSeq(s, 1, Len(s))
      BY SubSeqFull
    <2>2. 1 \in 1 .. Len(t) + 1 /\ Len(s) \in 0 .. Len(s)
      BY <1>1
    <2> QED  BY <2>1, <2>2 DEF Abstract!Suffixes, Abstract!Prefixes
  <1>9. ASSUME s # <<>> PROVE w # <<>> /\ Tail(w) = Tail(s) \o t
    <2>1. m > 0
      BY <1>1, <1>9, EmptySeq
    <2>2. w # <<>>
      BY <1>3, <2>1, EmptySeq
    <2>3. PICK r \in Seq(A) : r = Tail(w)
      BY <2>2, HeadTailProperties
    <2>4. Len(r) = m + n - 1 /\ \A i \in 1 .. m + n - 1 : r[i] = w[i + 1]
      BY <1>3, <2>2, <2>3, HeadTailProperties
    <2>5. PICK q \in Seq(A) : q = Tail(s)
      BY <1>9, HeadTailProperties
    <2>6. Len(q) = m - 1 /\ \A i \in 1 .. m - 1 : q[i] = s[i + 1]
      BY <1>1, <1>9, <2>5, HeadTailProperties
    <2>7. PICK v \in Seq(A) : v = q \o t
      BY ConcatProperties
    <2>8. Len(v) = m - 1 + n /\ \A i \in 1 .. m - 1 + n : v[i] = IF i <= m - 1 THEN q[i] ELSE t[i - (m - 1)]
      <3>1. q \in Seq(A)
        BY <2>5
      <3>2. /\ Len(q \o t) = Len(q) + Len(t)
            /\ \A i \in 1 .. Len(q) + Len(t) : (q \o t)[i] = IF i <= Len(q) THEN q[i] ELSE t[i - Len(q)]
        BY <3>1, ConcatProperties
      <3> QED  BY <1>1, <2>6, <2>7, <3>2
    <2>9. \A i \in 1 .. Len(r) : r[i] = v[i]
      <3> SUFFICES ASSUME NEW i \in 1 .. m + n - 1 PROVE r[i] = v[i]
        BY <2>4
      <3>1. i + 1 \in 1 .. m + n
        OBVIOUS
      <3>2. r[i] = IF i + 1 <= m THEN s[i + 1] ELSE t[i + 1 - m]
        BY <1>3, <2>4, <3>1
      <3>3. CASE i <= m - 1
        <4>1. i \in 1 .. m - 1 /\ i + 1 <= m /\ i \in 1 .. m - 1 + n
          BY <3>3
        <4> QED  BY <3>2, <3>3, <4>1, <2>6, <2>8
      <3>4. CASE ~(i <= m - 1)
        <4>1. i + 1 - m = i - (m - 1) /\ ~(i + 1 <= m) /\ i \in 1 .. m - 1 + n
          BY <3>4
        <4> QED  BY <3>2, <3>4, <4>1, <2>8
      <3> QED  BY <3>3, <3>4
    <2>10. Len(r) = Len(v)
      BY <2>4, <2>8
    <2>11. r = v
      BY <2>9, <2>10, SeqEqual
    <2> QED  BY <2>2, <2>3, <2>5, <2>7, <2>11
  <1> QED  BY <1>2, <1>7, <1>8, <1>9

LEMMA Changed ==
    ASSUME NEW T, NEW f \in [NChans -> T], NEW c \in NChans, NEW v \in T
    PROVE  /\ [f EXCEPT ![c] = v] \in [NChans -> T] /\ [f EXCEPT ![c] = v][c] = v
           /\ \A d \in NChans \ {c} : [f EXCEPT ![c] = v][d] = f[d]
  OBVIOUS

LEMMA EmptyAround ==
    ASSUME NEW A, NEW s \in Seq(A)
    PROVE  <<>> \o s = s /\ s \o <<>> = s /\ <<>> \in Seq(A)
  BY ConcatEmptySeq, EmptySeq

-----------------------------------------------------------------------------
(* Where characters may be, and what poll() has seen that is still so.        *)
NuFields == {"at", "ev", "fd", "buf", "tbuf", "nul"}
NtFields == {"in", "out", "calling", "gone", "left", "text", "cuts", "rx", "tx", "bleft", "bgot"}
NuTypes ==
    /\ DOMAIN nu = NuFields /\ DOMAIN nt = NtFields
    /\ nu.ev \in [NChans -> {"none", "client", "listener"}] /\ nu.fd \in [NChans -> BOOLEAN]
    /\ nu.buf \in [NChans -> Seq(Clean)] /\ nu.tbuf \in Seq(Chars)
    /\ nt.in \in [NChans -> Seq(Clean)] /\ nt.out \in [NChans -> Seq(Clean)]
    /\ nt.left \in [NChans -> Seq(Clean)] /\ nt.gone \in [NChans -> BOOLEAN]
    /\ nt.tx \in Seq(Chars) /\ nt.rx \in Seq(Chars) /\ nt.bleft \in Seq(Chars)
BufsUsed ==
    /\ nu.buf["cmd"] # <<>> => nu.at = "wcmd"
    /\ nu.buf["con"] # <<>> => nu.at \in {"wcmd", "wcon"}
    /\ nu.at = "tcmd" => AllIn(nu.tbuf, "cmd")
    /\ nu.at = "tcon" => AllIn(nu.tbuf, "con")
StillSo(c) ==
    /\ nu.buf[c] # <<>> => nu.fd[c]
    /\ nt.gone[c] => nu.fd[c]
    /\ nu.ev[c] = "listener" => ~nu.fd[c]
    /\ nu.ev[c] = "client" /\ nu.fd[c] => nt.in[c] # <<>> \/ nt.gone[c]
NuInv == NuTypes /\ BufsUsed /\ \A c \in NChans : StillSo(c)

(* The parts that a channel's queues are put together from.                   *)
Part(s, c) == Unmark(OfChan(s, c))
Unread(c) == IF Connected(c) THEN nt.out[c] ELSE <<>>
UpOf(c) == (Part(nt.tx, c) \o Writing(c)) \o nt.in[c]
DownOf(c) == (Unread(c) \o nu.buf[c]) \o Part(nt.rx, c)

LEMMA PartFacts ==
    ASSUME NEW s \in Seq(Chars), NEW c
    PROVE  /\ Part(s, c) \in Seq(Clean)
           /\ \A x \in Chars :
                 Part(Append(s, x), c) = IF InChan(x, c) THEN Append(Part(s, c), x % NTop) ELSE Part(s, c)
           /\ \A t \in Seq(Chars) : Part(s \o t, c) = Part(s, c) \o Part(t, c)
           /\ AllIn(s, c) => Part(s, c) = Unmark(s)
           /\ NoneIn(s, c) => Part(s, c) = <<>>
  <1>1. PICK o \in Seq(Chars) : o = OfChan(s, c)
    BY OfChanType
  <1>2. Unmark(o) \in Seq(Clean)
    BY UnmarkFacts
  <1>3. Unmark(<<>>) = <<>>
    <2>1. <<>> \in Seq(Chars) /\ Len(<<>>) = 0
      BY EmptySeq
    <2>2. Unmark(<<>>) \in Seq(Clean) /\ Len(Unmark(<<>>)) = 0
      BY <2>1, UnmarkFacts
    <2> QED  BY <2>2, EmptySeq
  <1>4. ASSUME NEW t \in Seq(Chars) PROVE Part(s \o t, c) = Part(s, c) \o Part(t, c)
    <2>1. PICK u \in Seq(Chars) : u = OfChan(t, c)
      BY OfChanType
    <2>2. OfChan(s \o t, c) = o \o u
      <3>1. OfChan(s \o t, c) = OfChan(s, c) \o OfChan(t, c)
        BY OfChanConcat, SMTT(60)
      <3> QED  BY <1>1, <2>1, <3>1, Zenon
    <2>3. Unmark(o \o u) = Unmark(o) \o Unmark(u)
      BY UnmarkConcat
    <2> QED  BY <1>1, <2>1, <2>2, <2>3 DEF Part
  <1>5. ASSUME NEW x \in Chars
        PROVE  Part(Append(s, x), c) = IF InChan(x, c) THEN Append(Part(s, c), x % NTop) ELSE Part(s, c)
    <2>1. OfChan(Append(s, x), c) = IF InChan(x, c) THEN Append(o, x) ELSE o
      BY <1>1, OfChanAppend
    <2>2. Unmark(Append(o, x)) = Append(Unmark(o), x % NTop)
      <3>1. PICK e \in Seq(Chars) : e = <<x>>
        <4>1. <<x>> \in Seq(Chars)
          OBVIOUS
        <4> QED  BY <4>1, Zenon
      <3>2. Append(o, x) = o \o e
        BY <3>1, AppendIsConcat
      <3>3. Unmark(o \o e) = Unmark(o) \o Unmark(e)
        BY UnmarkConcat
      <3>4. Unmark(e) = <<x % NTop>>
        <4>1. PICK u \in Seq(Clean) : u = Unmark(e)
          BY UnmarkFacts
        <4>2. Len(e) = 1 /\ e[1] = x
          BY <3>1
        <4>3. Len(u) = 1 /\ u[1] = x % NTop
          BY <4>1, <4>2, UnmarkFacts
        <4>4. u = <<u[1]>>
          BY <4>3
        <4> QED  BY <4>1, <4>3, <4>4
      <3>5. x % NTop \in Clean
        BY TopBit
      <3>6. Append(Unmark(o), x % NTop) = Unmark(o) \o <<x % NTop>>
        BY <1>2, <3>5, AppendIsConcat
      <3> QED  BY <3>2, <3>3, <3>4, <3>6
    <2> QED  BY <1>1, <2>1, <2>2 DEF Part
  <1>6. (AllIn(s, c) => Part(s, c) = Unmark(s)) /\ (NoneIn(s, c) => Part(s, c) = <<>>)
    BY <1>3, OfChanOne DEF Part
  <1> QED  BY <1>1, <1>2, <1>4, <1>5, <1>6 DEF Part

LEMMA PartTypes ==
    ASSUME NuTypes, NEW c \in NChans
    PROVE  /\ Part(nt.tx, c) \in Seq(Clean) /\ Writing(c) \in Seq(Clean) /\ nt.in[c] \in Seq(Clean)
           /\ Unread(c) \in Seq(Clean) /\ nu.buf[c] \in Seq(Clean) /\ Part(nt.rx, c) \in Seq(Clean)
           /\ nt.out[c] \in Seq(Clean) /\ nt.left[c] \in Seq(Clean)
  <1>1. Part(nt.tx, c) \in Seq(Clean) /\ Part(nt.rx, c) \in Seq(Clean)
    BY PartFacts DEF NuTypes
  <1>2. Unmark(nu.tbuf) \in Seq(Clean)
    BY UnmarkFacts DEF NuTypes
  <1>3. <<>> \in Seq(Clean)
    BY EmptySeq
  <1>4. /\ nt.in[c] \in Seq(Clean) /\ nt.out[c] \in Seq(Clean) /\ nu.buf[c] \in Seq(Clean)
        /\ nt.left[c] \in Seq(Clean)
    BY DEF NuTypes
  <1>5. Writing(c) \in Seq(Clean)
    BY <1>2, <1>3, Zenon DEF Writing
  <1>6. Unread(c) \in Seq(Clean)
    BY <1>3, <1>4, Zenon DEF Unread
  <1> QED  BY <1>1, <1>4, <1>5, <1>6

(* What a step of the two channels is, channel by channel.                    *)
Opened(c) == Connected(c)' = Connected(c)
ChanKept(c) == UpOf(c)' = UpOf(c) /\ DownOf(c)' = DownOf(c) /\ Opened(c)
Implemented == [Abstract!Next]_(Abstract!cvars)

LEMMA Views ==
    /\ Up = [c \in NChans |-> UpOf(c)] /\ Up' = [c \in NChans |-> UpOf(c)']
    /\ Down = [c \in NChans |-> DownOf(c)] /\ Down' = [c \in NChans |-> DownOf(c)']
  BY DEF Up, Down, UpOf, DownOf, Part, Unread

LEMMA Stutters == (\A c \in NChans : ChanKept(c)) => Implemented
  <1> SUFFICES ASSUME \A c \in NChans : ChanKept(c) PROVE UNCHANGED Abstract!cvars
    BY DEF Implemented
  <1>1. Up' = Up /\ Down' = Down
    BY Views, Zenon DEF ChanKept
  <1>2. [c \in NChans |-> Connected(c)]' = [c \in NChans |-> Connected(c)]
    BY DEF ChanKept, Opened
  <1> QED  BY <1>1, <1>2 DEF Abstract!cvars

LEMMA ImplementsClientSends ==
    ASSUME NEW c \in NChans, NEW x \in Clean, Connected(c), UpOf(c)' = Append(UpOf(c), x), DownOf(c)' = DownOf(c),
           Opened(c), \A d \in NChans \ {c} : ChanKept(d)
    PROVE  Implemented
  <1>1. Up' = [Up EXCEPT ![c] = Append(Up[c], x)] /\ Down' = Down
    BY Views, Zenon DEF ChanKept
  <1>2. [d \in NChans |-> Connected(d)]' = [d \in NChans |-> Connected(d)]
    BY DEF ChanKept, Opened
  <1> QED  BY <1>1, <1>2 DEF Implemented, Abstract!Next, Abstract!ClientSends, Clean

LEMMA ImplementsBoardSends ==
    ASSUME NEW c \in NChans, NEW x \in Clean, DownOf(c)' = Append(DownOf(c), x), UpOf(c)' = UpOf(c),
           Opened(c), \A d \in NChans \ {c} : ChanKept(d)
    PROVE  Implemented
  <1>1. Down' = [Down EXCEPT ![c] = Append(Down[c], x)] /\ Up' = Up
    BY Views, Zenon DEF ChanKept
  <1>2. [d \in NChans |-> Connected(d)]' = [d \in NChans |-> Connected(d)]
    BY DEF ChanKept, Opened
  <1> QED  BY <1>1, <1>2 DEF Implemented, Abstract!Next, Abstract!BoardSends, Clean

LEMMA ImplementsBoardTakes ==
    ASSUME NEW c \in NChans, UpOf(c) # <<>>, UpOf(c)' = Tail(UpOf(c)), DownOf(c)' = DownOf(c),
           Opened(c), \A d \in NChans \ {c} : ChanKept(d)
    PROVE  Implemented
  <1>1. Up' = [Up EXCEPT ![c] = Tail(Up[c])] /\ Down' = Down /\ Up[c] # <<>>
    BY Views, Zenon DEF ChanKept
  <1>2. [d \in NChans |-> Connected(d)]' = [d \in NChans |-> Connected(d)]
    BY DEF ChanKept, Opened
  <1> QED  BY <1>1, <1>2 DEF Implemented, Abstract!Next, Abstract!BoardTakes

LEMMA ImplementsClientTakes ==
    ASSUME NEW c \in NChans, Connected(c), DownOf(c) # <<>>, DownOf(c)' = Tail(DownOf(c)), UpOf(c)' = UpOf(c),
           Opened(c), \A d \in NChans \ {c} : ChanKept(d)
    PROVE  Implemented
  <1>1. Down' = [Down EXCEPT ![c] = Tail(Down[c])] /\ Up' = Up /\ Down[c] # <<>>
    BY Views, Zenon DEF ChanKept
  <1>2. [d \in NChans |-> Connected(d)]' = [d \in NChans |-> Connected(d)]
    BY DEF ChanKept, Opened
  <1> QED  BY <1>1, <1>2 DEF Implemented, Abstract!Next, Abstract!ClientTakes

LEMMA ImplementsOpens ==
    ASSUME NEW c \in NChans, ~Connected(c), Connected(c)', DownOf(c)' = DownOf(c), UpOf(c)' = UpOf(c),
           \A d \in NChans \ {c} : ChanKept(d)
    PROVE  Implemented
  <1>1. Down' = Down /\ Up' = Up
    BY Views, Zenon DEF ChanKept
  <1>2. [d \in NChans |-> Connected(d)]' = [[d \in NChans |-> Connected(d)] EXCEPT ![c] = TRUE]
    BY DEF ChanKept, Opened
  <1> QED  BY <1>1, <1>2 DEF Implemented, Abstract!Next, Abstract!Opens

LEMMA ImplementsCloses ==
    ASSUME NEW c \in NChans, Connected(c), ~Connected(c)', DownOf(c)' \in Abstract!Suffixes(DownOf(c)),
           UpOf(c)' = UpOf(c), \A d \in NChans \ {c} : ChanKept(d)
    PROVE  Implemented
  <1>1. Up' = Up
    BY Views, Zenon DEF ChanKept
  <1>2. PICK s \in Abstract!Suffixes(Down[c]) : s = DownOf(c)'
    BY Views
  <1>3. Down' = [Down EXCEPT ![c] = s]
    BY <1>2, Views, Zenon DEF ChanKept
  <1>4. [d \in NChans |-> Connected(d)]' = [[d \in NChans |-> Connected(d)] EXCEPT ![c] = FALSE]
    <2>1. Connected(c)' = FALSE
      BY DEF Connected
    <2>2. \A d \in NChans \ {c} : Connected(d)' = Connected(d)
      BY DEF ChanKept, Opened
    <2> QED  BY <2>1, <2>2
  <1> QED  BY <1>1, <1>2, <1>3, <1>4 DEF Implemented, Abstract!Next, Abstract!Closes

ChanLoses(c) ==
    /\ DownOf(c)' \in Abstract!Suffixes(DownOf(c)) /\ UpOf(c)' \in Abstract!Prefixes(UpOf(c))
    /\ Connected(c) => DownOf(c)' = DownOf(c) /\ UpOf(c)' = UpOf(c)
    /\ Opened(c)
LEMMA ImplementsLoses == (\A c \in NChans : ChanLoses(c)) => Implemented
  <1> SUFFICES ASSUME \A c \in NChans : ChanLoses(c) PROVE Abstract!Loses
    BY DEF Implemented, Abstract!Next
  <1>1. [d \in NChans |-> Connected(d)]' = [d \in NChans |-> Connected(d)]
    BY DEF ChanLoses, Opened
  <1>2. DOMAIN Down' = NChans /\ DOMAIN Up' = NChans
    BY Views
  <1>3. \A c \in NChans : /\ Down'[c] \in Abstract!Suffixes(Down[c]) /\ Up'[c] \in Abstract!Prefixes(Up[c])
                          /\ Connected(c) => Down'[c] = Down[c] /\ Up'[c] = Up[c]
    BY Views DEF ChanLoses
  <1> QED  BY <1>1, <1>2, <1>3 DEF Abstract!Loses

LEMMA Regroup == \A a, b, d \in Seq(Clean) : (a \o b) \o d = a \o (b \o d)
  BY ConcatAssociative

(* A channel whose parts a step leaves alone, and one that only loses nothing. *)
PartsKept(c) ==
    /\ Part(nt.tx, c)' = Part(nt.tx, c) /\ Writing(c)' = Writing(c) /\ nt'.in[c] = nt.in[c]
    /\ Unread(c)' = Unread(c) /\ nu'.buf[c] = nu.buf[c] /\ Part(nt.rx, c)' = Part(nt.rx, c)
    /\ Opened(c)
LEMMA PartsKeep == ASSUME NEW c \in NChans, PartsKept(c) PROVE ChanKept(c)
  BY DEF PartsKept, ChanKept, UpOf, DownOf

LEMMA KeptLoses == ASSUME NuTypes, NEW c \in NChans, ChanKept(c) PROVE ChanLoses(c)
  <1>1. PICK u \in Seq(Clean) : u = UpOf(c)
    BY PartTypes, ConcatProperties DEF UpOf
  <1>2. PICK d \in Seq(Clean) : d = DownOf(c)
    BY PartTypes, ConcatProperties DEF DownOf
  <1>3. d \in Abstract!Suffixes(d) /\ u \in Abstract!Prefixes(u)
    BY ConcatParts
  <1> QED  BY <1>1, <1>2, <1>3 DEF ChanKept, ChanLoses

-----------------------------------------------------------------------------
(* The steps of the proxy and of what is around it.                          *)
LEMMA PollStep == ASSUME NuInv, PollTty PROVE NuInv' /\ Implemented
  <1>1. /\ nu.at = "poll" /\ nu'.at \in {"tty", "cmd"} /\ nt' = nt
        /\ nu'.ev = [c \in NChans |-> IF ~Ready(c) THEN "none" ELSE IF nu.fd[c] THEN "client" ELSE "listener"]
        /\ nu'.fd = nu.fd /\ nu'.buf = nu.buf /\ nu'.tbuf = nu.tbuf /\ DOMAIN nu' = NuFields
    BY DEF PollTty, NuInv, NuTypes, NuFields
  <1>2. NuTypes'
    <2>1. nu'.ev \in [NChans -> {"none", "client", "listener"}]
      BY <1>1
    <2> QED  BY <1>1, <2>1 DEF NuInv, NuTypes
  <1>3. BufsUsed'
    BY <1>1 DEF NuInv, BufsUsed, AllIn
  <1>4. ASSUME NEW c \in NChans PROVE StillSo(c)' /\ PartsKept(c)
    <2>1. StillSo(c)
      BY DEF NuInv
    <2>2. /\ nu'.ev[c] = "listener" => ~nu.fd[c]
          /\ nu'.ev[c] = "client" /\ nu.fd[c] => nt.in[c] # <<>> \/ nt.gone[c]
      BY <1>1 DEF Ready
    <2>3. Writing(c)' = Writing(c)
      BY <1>1 DEF Writing
    <2> QED  BY <1>1, <2>1, <2>2, <2>3 DEF StillSo, PartsKept, Unread, Connected, Opened
  <1> QED  BY <1>2, <1>3, <1>4, PartsKeep, Stutters DEF NuInv

LEMMA CallStep == ASSUME NuInv, NEW c \in NChans, NCalls(c) PROVE NuInv' /\ Implemented
  <1>1. /\ nu' = nu /\ nt'.in = nt.in /\ nt'.out = nt.out /\ nt'.gone = nt.gone /\ nt'.left = nt.left
        /\ nt'.rx = nt.rx /\ nt'.tx = nt.tx /\ nt'.bleft = nt.bleft /\ DOMAIN nt' = NtFields
    BY DEF NCalls, NuInv, NuTypes, NtFields
  <1>2. NuTypes' /\ BufsUsed'
    BY <1>1 DEF NuInv, NuTypes, BufsUsed, AllIn
  <1>3. ASSUME NEW d \in NChans PROVE StillSo(d)' /\ PartsKept(d)
    <2>1. StillSo(d)
      BY DEF NuInv
    <2>2. Writing(d)' = Writing(d)
      BY <1>1 DEF Writing
    <2> QED  BY <1>1, <2>1, <2>2 DEF StillSo, PartsKept, Unread, Connected, Opened
  <1> QED  BY <1>2, <1>3, PartsKeep, Stutters DEF NuInv

LEMMA NWritesStep == ASSUME NuInv, NEW c \in NChans, NWrites(c) PROVE NuInv' /\ Implemented
  <1>1. PICK l \in Seq(Clean), i \in Seq(Clean) : l = nt.left[c] /\ i = nt.in[c]
    BY PartTypes DEF NuInv
  <1>2. l # <<>>
    BY <1>1 DEF NWrites
  <1>3. PICK x \in Clean : x = Head(l)
    BY <1>2, HeadTailProperties
  <1>4. Append(i, x) \in Seq(Clean) /\ Append(i, x) # <<>> /\ Tail(l) \in Seq(Clean)
    BY <1>2, AppendProperties, HeadTailProperties
  <1>5. /\ nu' = nu /\ nt'.in = [nt.in EXCEPT ![c] = Append(i, x)] /\ nt'.left = [nt.left EXCEPT ![c] = Tail(l)]
        /\ nt'.out = nt.out /\ nt'.gone = nt.gone /\ nt'.rx = nt.rx /\ nt'.tx = nt.tx
        /\ nt'.bleft = nt.bleft /\ DOMAIN nt' = NtFields
    BY <1>1, <1>3 DEF NWrites, NuInv, NuTypes, NtFields
  <1>6. /\ nt'.in[c] = Append(i, x) /\ \A d \in NChans \ {c} : nt'.in[d] = nt.in[d]
    BY <1>5 DEF NuInv, NuTypes
  <1>7. NuTypes' /\ BufsUsed'
    <2>1. nt'.in \in [NChans -> Seq(Clean)] /\ nt'.left \in [NChans -> Seq(Clean)]
      BY <1>4, <1>5 DEF NuInv, NuTypes
    <2> QED  BY <1>5, <2>1 DEF NuInv, NuTypes, BufsUsed, AllIn
  <1>8. ASSUME NEW d \in NChans
        PROVE  /\ StillSo(d)' /\ Part(nt.tx, d)' = Part(nt.tx, d) /\ Writing(d)' = Writing(d)
               /\ Unread(d)' = Unread(d) /\ nu'.buf[d] = nu.buf[d] /\ Part(nt.rx, d)' = Part(nt.rx, d) /\ Opened(d)
    <2>1. StillSo(d)
      BY DEF NuInv
    <2>2. Writing(d)' = Writing(d) /\ Opened(d) /\ Unread(d)' = Unread(d)
      BY <1>5 DEF Writing, Opened, Connected, Unread
    <2>3. StillSo(d)'
      BY <1>4, <1>5, <1>6, <2>1 DEF StillSo
    <2> QED  BY <1>5, <2>2, <2>3
  <1>9. \A d \in NChans \ {c} : ChanKept(d)
    BY <1>6, <1>8, PartsKeep DEF PartsKept
  <1>10. UpOf(c)' = Append(UpOf(c), x)
    <2>1. PICK p \in Seq(Clean) : p = Part(nt.tx, c) \o Writing(c)
      BY PartTypes, ConcatProperties DEF NuInv
    <2>2. p \o Append(i, x) = Append(p \o i, x)
      BY ConcatAppend
    <2>3. UpOf(c)' = p \o Append(i, x)
      BY <1>6, <1>8, <2>1 DEF UpOf
    <2>4. UpOf(c) = p \o i
      BY <1>1, <2>1 DEF UpOf
    <2> QED  BY <2>2, <2>3, <2>4
  <1>11. DownOf(c)' = DownOf(c) /\ Opened(c)
    BY <1>8 DEF DownOf
  <1>12. Connected(c)
    BY DEF NWrites
  <1>13. Implemented
    BY <1>9, <1>10, <1>11, <1>12, ImplementsClientSends
  <1> QED  BY <1>7, <1>8, <1>13 DEF NuInv

LEMMA NReadsStep == ASSUME NuInv, NEW c \in NChans, NReads(c) PROVE NuInv' /\ Implemented
  <1>1. PICK o \in Seq(Clean) : o = nt.out[c]
    BY PartTypes DEF NuInv
  <1>2. o # <<>> /\ Connected(c)
    BY <1>1 DEF NReads
  <1>3. Tail(o) \in Seq(Clean)
    BY <1>2, HeadTailProperties
  <1>4. /\ nu' = nu /\ nt'.out = [nt.out EXCEPT ![c] = Tail(o)] /\ nt'.in = nt.in /\ nt'.gone = nt.gone
        /\ nt'.rx = nt.rx /\ nt'.tx = nt.tx /\ nt'.left = nt.left /\ nt'.bleft = nt.bleft /\ DOMAIN nt' = NtFields
    BY <1>1 DEF NReads, NuInv, NuTypes, NtFields
  <1>5. nt'.out[c] = Tail(o) /\ \A d \in NChans \ {c} : nt'.out[d] = nt.out[d]
    BY <1>4 DEF NuInv, NuTypes
  <1>6. NuTypes' /\ BufsUsed'
    <2>1. nt'.out \in [NChans -> Seq(Clean)]
      BY <1>3, <1>4 DEF NuInv, NuTypes
    <2> QED  BY <1>4, <2>1 DEF NuInv, NuTypes, BufsUsed, AllIn
  <1>7. ASSUME NEW d \in NChans
        PROVE  /\ StillSo(d)' /\ Part(nt.tx, d)' = Part(nt.tx, d) /\ Writing(d)' = Writing(d)
               /\ nt'.in[d] = nt.in[d]
               /\ nu'.buf[d] = nu.buf[d] /\ Part(nt.rx, d)' = Part(nt.rx, d) /\ Opened(d)
    <2>1. StillSo(d)
      BY DEF NuInv
    <2>2. Writing(d)' = Writing(d) /\ Opened(d)
      BY <1>4 DEF Writing, Opened, Connected
    <2> QED  BY <1>4, <2>1, <2>2 DEF StillSo
  <1>8. \A d \in NChans \ {c} : ChanKept(d)
    <2>1. \A d \in NChans \ {c} : Unread(d)' = Unread(d)
      BY <1>5, <1>7 DEF Unread, Opened
    <2> QED  BY <2>1, <1>7, PartsKeep DEF PartsKept
  <1>9. UpOf(c)' = UpOf(c) /\ Opened(c)
    BY <1>7 DEF UpOf
  <1>10. DownOf(c) # <<>> /\ DownOf(c)' = Tail(DownOf(c))
    <2>1. PICK b \in Seq(Clean), r \in Seq(Clean) : b = nu.buf[c] /\ r = Part(nt.rx, c)
      BY PartTypes DEF NuInv
    <2>2. PICK z \in Seq(Clean) : z = b \o r
      BY ConcatProperties
    <2>3. PICK q \in Seq(Clean) : q = Tail(o)
      BY <1>3
    <2>4. (o \o b) \o r = o \o z /\ (q \o b) \o r = q \o z
      <3>1. o \in Seq(Clean) /\ q \in Seq(Clean) /\ b \in Seq(Clean) /\ r \in Seq(Clean)
        BY <1>1, <2>1, <2>3
      <3>2. (o \o b) \o r = o \o (b \o r)
        BY <3>1, ConcatAssociative, SMTT(60)
      <3>3. (q \o b) \o r = q \o (b \o r)
        BY <3>1, ConcatAssociative, SMTT(60)
      <3> QED  BY <2>2, <3>2, <3>3
    <2>5. o \o z # <<>> /\ Tail(o \o z) = q \o z
      BY <1>2, <2>3, ConcatParts, SMTT(60)
    <2>6. Unread(c) = o /\ Unread(c)' = q
      BY <1>1, <1>2, <1>5, <1>7, <2>3 DEF Unread, Opened
    <2>7. DownOf(c) = (o \o b) \o r /\ DownOf(c)' = (q \o b) \o r
      BY <1>7, <2>1, <2>6 DEF DownOf
    <2> QED  BY <2>4, <2>5, <2>7
  <1>11. Implemented
    BY <1>2, <1>8, <1>9, <1>10, ImplementsClientTakes
  <1> QED  BY <1>6, <1>7, <1>11 DEF NuInv

LEMMA HangUpStep == ASSUME NuInv, NEW c \in NChans, NHangsUp(c) PROVE NuInv' /\ Implemented
  <1>1. /\ nu' = nu /\ nt'.gone = [nt.gone EXCEPT ![c] = TRUE] /\ nt'.in = nt.in /\ nt'.out = nt.out
        /\ nt'.rx = nt.rx /\ nt'.tx = nt.tx /\ nt'.left = nt.left /\ nt'.bleft = nt.bleft /\ DOMAIN nt' = NtFields
    BY DEF NHangsUp, NuInv, NuTypes, NtFields
  <1>2. nt'.gone[c] = TRUE /\ \A d \in NChans \ {c} : nt'.gone[d] = nt.gone[d]
    BY <1>1 DEF NuInv, NuTypes
  <1>3. NuTypes' /\ BufsUsed'
    <2>1. nt'.gone \in [NChans -> BOOLEAN]
      BY <1>1 DEF NuInv, NuTypes
    <2> QED  BY <1>1, <2>1 DEF NuInv, NuTypes, BufsUsed, AllIn
  <1>4. Connected(c) /\ nu.fd[c] /\ ~Connected(c)'
    BY <1>2 DEF NHangsUp, Connected
  <1>5. ASSUME NEW d \in NChans
        PROVE  /\ StillSo(d)' /\ Part(nt.tx, d)' = Part(nt.tx, d) /\ Writing(d)' = Writing(d)
               /\ nt'.in[d] = nt.in[d]
               /\ nu'.buf[d] = nu.buf[d] /\ Part(nt.rx, d)' = Part(nt.rx, d)
    <2>1. StillSo(d)
      BY DEF NuInv
    <2>2. Writing(d)' = Writing(d)
      BY <1>1 DEF Writing
    <2>3. StillSo(d)'
      BY <1>1, <1>2, <1>4, <2>1 DEF StillSo
    <2> QED  BY <1>1, <2>2, <2>3
  <1>6. \A d \in NChans \ {c} : ChanKept(d)
    <2>1. \A d \in NChans \ {c} : Opened(d) /\ Unread(d)' = Unread(d)
      BY <1>1, <1>2 DEF Unread, Opened, Connected
    <2> QED  BY <2>1, <1>5, PartsKeep DEF PartsKept
  <1>7. UpOf(c)' = UpOf(c)
    BY <1>5 DEF UpOf
  <1>8. DownOf(c)' \in Abstract!Suffixes(DownOf(c))
    <2>1. PICK b \in Seq(Clean), r \in Seq(Clean), h \in Seq(Clean) : b = nu.buf[c] /\ r = Part(nt.rx, c) /\ h = Unread(c)
      BY PartTypes DEF NuInv
    <2>2. PICK z \in Seq(Clean) : z = b \o r
      BY ConcatProperties
    <2>3. (h \o b) \o r = h \o z
      BY <2>2, ConcatAssociative
    <2>4. z \in Abstract!Suffixes(h \o z)
      BY ConcatParts
    <2>5. Unread(c)' = <<>>
      BY <1>4 DEF Unread
    <2>6. <<>> \o b = b
      BY EmptyAround
    <2>7. DownOf(c)' = z /\ DownOf(c) = h \o z
      BY <1>5, <2>1, <2>2, <2>3, <2>5, <2>6 DEF DownOf
    <2> QED  BY <2>4, <2>7
  <1>9. Implemented
    BY <1>4, <1>6, <1>7, <1>8, ImplementsCloses
  <1> QED  BY <1>3, <1>5, <1>9 DEF NuInv

(* Each character is of one channel.                                         *)
LEMMA OneChannel ==
    ASSUME NEW x \in Chars
    PROVE  \E c \in NChans : InChan(x, c) /\ \A d \in NChans \ {c} : ~InChan(x, d)
  <1>1. CASE x >= NTop
    <2>1. InChan(x, "cmd") /\ ~InChan(x, "con")
      BY <1>1 DEF InChan
    <2> QED  BY <2>1 DEF NChans
  <1>2. CASE ~(x >= NTop)
    <2>1. InChan(x, "con") /\ ~InChan(x, "cmd")
      BY <1>2 DEF InChan
    <2> QED  BY <2>1 DEF NChans
  <1> QED  BY <1>1, <1>2

LEMMA BoardSendsStep == ASSUME NuInv, NBoardSends PROVE NuInv' /\ Implemented
  <1>1. PICK l \in Seq(Chars), r \in Seq(Chars) : l = nt.bleft /\ r = nt.rx
    BY DEF NuInv, NuTypes
  <1>2. l # <<>>
    BY <1>1 DEF NBoardSends
  <1>3. PICK x \in Chars : x = Head(l)
    BY <1>2, HeadTailProperties
  <1>4. Append(r, x) \in Seq(Chars) /\ Tail(l) \in Seq(Chars)
    BY <1>2, AppendProperties, HeadTailProperties
  <1>5. /\ nu' = nu /\ nt'.rx = Append(r, x) /\ nt'.bleft = Tail(l) /\ nt'.in = nt.in /\ nt'.out = nt.out
        /\ nt'.gone = nt.gone /\ nt'.tx = nt.tx /\ nt'.left = nt.left /\ DOMAIN nt' = NtFields
    BY <1>1, <1>3 DEF NBoardSends, NuInv, NuTypes, NtFields
  <1>6. NuTypes' /\ BufsUsed'
    BY <1>4, <1>5 DEF NuInv, NuTypes, BufsUsed, AllIn
  <1>7. ASSUME NEW d \in NChans
        PROVE  /\ StillSo(d)' /\ Part(nt.tx, d)' = Part(nt.tx, d) /\ Writing(d)' = Writing(d)
               /\ nt'.in[d] = nt.in[d] /\ Unread(d)' = Unread(d)
               /\ nu'.buf[d] = nu.buf[d] /\ Opened(d)
    <2>1. StillSo(d)
      BY DEF NuInv
    <2>2. Writing(d)' = Writing(d) /\ Opened(d) /\ Unread(d)' = Unread(d)
      BY <1>5 DEF Writing, Opened, Connected, Unread
    <2> QED  BY <1>5, <2>1, <2>2 DEF StillSo
  <1>8. PICK c \in NChans : InChan(x, c) /\ \A d \in NChans \ {c} : ~InChan(x, d)
    BY OneChannel
  <1>9. \A d \in NChans : Part(nt.rx, d)' = IF InChan(x, d) THEN Append(Part(nt.rx, d), x % NTop) ELSE Part(nt.rx, d)
    <2>1. \A d \in NChans : Part(Append(r, x), d) = IF InChan(x, d) THEN Append(Part(r, d), x % NTop) ELSE Part(r, d)
      BY PartFacts
    <2>2. \A d \in NChans : Part(nt.rx, d)' = Part(Append(r, x), d) /\ Part(nt.rx, d) = Part(r, d)
      BY <1>1, <1>5
    <2> QED  BY <2>1, <2>2
  <1>10. \A d \in NChans \ {c} : ChanKept(d)
    BY <1>7, <1>8, <1>9, PartsKeep DEF PartsKept
  <1>11. DownOf(c)' = Append(DownOf(c), x % NTop)
    <2>1. PICK p \in Seq(Clean), q \in Seq(Clean) : p = Unread(c) \o nu.buf[c] /\ q = Part(nt.rx, c)
      BY PartTypes, ConcatProperties DEF NuInv
    <2>2. PICK y \in Clean : y = x % NTop
      BY TopBit
    <2>3. p \o Append(q, y) = Append(p \o q, y)
      <3>1. p \in Seq(Clean) /\ q \in Seq(Clean) /\ y \in Clean
        BY <2>1, <2>2
      <3> QED  BY <3>1, ConcatAppend
    <2>4. Part(nt.rx, c)' = Append(q, y)
      BY <1>8, <1>9, <2>1, <2>2
    <2>5. DownOf(c)' = p \o Append(q, y) /\ DownOf(c) = p \o q
      BY <1>7, <2>1, <2>4 DEF DownOf
    <2> QED  BY <2>2, <2>3, <2>5
  <1>12. UpOf(c)' = UpOf(c) /\ Opened(c) /\ x % NTop \in Clean
    BY <1>7, TopBit DEF UpOf
  <1>13. Implemented
    BY <1>10, <1>11, <1>12, ImplementsBoardSends
  <1> QED  BY <1>6, <1>7, <1>13 DEF NuInv

LEMMA BoardTakesStep == ASSUME NuInv, NBoardTakes PROVE NuInv' /\ Implemented
  <1>1. PICK t \in Seq(Chars) : t = nt.tx
    BY DEF NuInv, NuTypes
  <1>2. t # <<>>
    BY <1>1 DEF NBoardTakes
  <1>3. PICK x \in Chars, q \in Seq(Chars) : x = Head(t) /\ q = Tail(t)
    BY <1>2, HeadTailProperties
  <1>4. PICK e \in Seq(Chars) : e = <<x>>
    <2>1. <<x>> \in Seq(Chars)
      OBVIOUS
    <2> QED  BY <2>1, Zenon
  <1>5. t = e \o q
    <2>1. 1 \in 1 .. Len(t) /\ Len(t) \in 1 .. Len(t) /\ Len(t) \in Nat
      BY <1>2, EmptySeq
    <2>2. SubSeq(t, 1, Len(t)) = <<t[1]>> \o SubSeq(t, 1 + 1, Len(t))
      BY <2>1, SubSeqRecursiveFirst
    <2>3. SubSeq(t, 1, Len(t)) = t /\ Tail(t) = SubSeq(t, 2, Len(t)) /\ 1 + 1 = 2
      BY <1>2, SubSeqFull, TailIsSubSeq
    <2>4. Head(t) = t[1]
      BY <1>2
    <2> QED  BY <1>3, <1>4, <2>2, <2>3, <2>4
  <1>6. /\ nu' = nu /\ nt'.tx = q /\ nt'.rx = nt.rx /\ nt'.bleft = nt.bleft /\ nt'.in = nt.in
        /\ nt'.out = nt.out /\ nt'.gone = nt.gone /\ nt'.left = nt.left /\ DOMAIN nt' = NtFields
    BY <1>1, <1>3 DEF NBoardTakes, NuInv, NuTypes, NtFields
  <1>7. NuTypes' /\ BufsUsed'
    BY <1>3, <1>6 DEF NuInv, NuTypes, BufsUsed, AllIn
  <1>8. ASSUME NEW d \in NChans
        PROVE  /\ StillSo(d)' /\ Part(nt.rx, d)' = Part(nt.rx, d) /\ Writing(d)' = Writing(d)
               /\ nt'.in[d] = nt.in[d] /\ Unread(d)' = Unread(d)
               /\ nu'.buf[d] = nu.buf[d] /\ Opened(d)
    <2>1. StillSo(d)
      BY DEF NuInv
    <2>2. Writing(d)' = Writing(d) /\ Opened(d) /\ Unread(d)' = Unread(d)
      BY <1>6 DEF Writing, Opened, Connected, Unread
    <2> QED  BY <1>6, <2>1, <2>2 DEF StillSo
  <1>9. PICK c \in NChans : InChan(x, c) /\ \A d \in NChans \ {c} : ~InChan(x, d)
    BY OneChannel
  <1>10. \A d \in NChans : Part(nt.tx, d) = Part(e, d) \o Part(q, d) /\ Part(nt.tx, d)' = Part(q, d)
    <2>1. \A d \in NChans : Part(e \o q, d) = Part(e, d) \o Part(q, d)
      BY PartFacts
    <2> QED  BY <1>1, <1>5, <1>6, <2>1
  <1>11. Len(e) = 1 /\ e[1] = x
    BY <1>4
  <1>12. \A d \in NChans \ {c} : ChanKept(d)
    <2>1. \A d \in NChans \ {c} : NoneIn(e, d)
      BY <1>9, <1>11 DEF NoneIn
    <2>2. \A d \in NChans \ {c} : Part(e, d) = <<>>
      BY <2>1, PartFacts
    <2>3. \A d \in NChans : Part(q, d) \in Seq(Clean)
      BY PartFacts
    <2>4. \A d \in NChans : <<>> \o Part(q, d) = Part(q, d)
      BY <2>3, EmptyAround
    <2>5. \A d \in NChans \ {c} : Part(nt.tx, d)' = Part(nt.tx, d)
      BY <1>10, <2>2, <2>4
    <2> QED  BY <1>8, <2>5, PartsKeep DEF PartsKept
  <1>13. UpOf(c) # <<>> /\ UpOf(c)' = Tail(UpOf(c))
    <2>1. PICK w \in Seq(Clean), i \in Seq(Clean) : w = Writing(c) /\ i = nt.in[c]
      BY PartTypes DEF NuInv
    <2>2. PICK m \in Seq(Clean), k \in Seq(Clean) : m = Part(e, c) /\ k = Part(q, c)
      BY PartFacts
    <2>3. PICK z \in Seq(Clean) : z = k \o w
      BY ConcatProperties
    <2>4. PICK y \in Seq(Clean) : y = z \o i
      BY ConcatProperties
    <2>5. ((m \o k) \o w) \o i = m \o y
      <3>1. m \in Seq(Clean) /\ k \in Seq(Clean) /\ w \in Seq(Clean) /\ i \in Seq(Clean) /\ z \in Seq(Clean)
        BY <2>1, <2>2, <2>3
      <3>2. (m \o k) \o w = m \o (k \o w)
        BY <3>1, Regroup, ZenonT(60)
      <3>3. (m \o z) \o i = m \o (z \o i)
        BY <3>1, Regroup, ZenonT(60)
      <3> QED  BY <2>3, <2>4, <3>2, <3>3
    <2>6. Len(m) = 1
      <3>1. AllIn(e, c)
        BY <1>9, <1>11 DEF AllIn
      <3>2. m = Unmark(e)
        BY <2>2, <3>1, PartFacts
      <3> QED  BY <1>11, <3>2, UnmarkFacts
    <2>7. m # <<>> /\ Tail(m) = <<>>
      <3>1. m # <<>>
        <4>1. m = <<>> => Len(m) = 0
          OBVIOUS
        <4> QED  BY <2>6, <4>1
      <3>2. Tail(m) \in Seq(Clean) /\ Len(Tail(m)) = 0
        BY <2>6, <3>1, HeadTailProperties
      <3> QED  BY <3>1, <3>2, EmptySeq
    <2>8. m \o y # <<>> /\ Tail(m \o y) = Tail(m) \o y
      BY <2>7, ConcatParts, ZenonT(60)
    <2>9. <<>> \o y = y
      BY EmptyAround
    <2>10. UpOf(c) = m \o y
      BY <1>10, <2>1, <2>2, <2>5 DEF UpOf
    <2>11. UpOf(c)' = y
      BY <1>8, <1>10, <2>1, <2>2, <2>3, <2>4 DEF UpOf
    <2> QED  BY <2>7, <2>8, <2>9, <2>10, <2>11
  <1>14. DownOf(c)' = DownOf(c) /\ Opened(c)
    BY <1>8 DEF DownOf
  <1>15. Implemented
    BY <1>12, <1>13, <1>14, ImplementsBoardTakes
  <1> QED  BY <1>7, <1>8, <1>15 DEF NuInv

LEMMA ReadTtyStep == ASSUME NuInv, ReadTty PROVE NuInv' /\ Implemented
  <1>1. PICK r \in Seq(Chars) : r = nt.rx
    BY DEF NuInv, NuTypes
  <1>2. NBufLen \in Nat /\ NBufLen > 0
    BY NetUartAssumption
  <1>3. PICK raw \in Seq(Chars), rest \in Seq(Chars) : raw = Take(r, NBufLen) /\ rest = Drop(r, NBufLen)
    BY <1>2, CutFacts
  <1>4. raw \o rest = r /\ (raw = <<>> => r = <<>>)
    BY <1>2, <1>3, CutFacts
  <1>5. /\ nu.at = "tty" /\ nt'.rx = rest /\ nt'.in = nt.in /\ nt'.out = nt.out /\ nt'.gone = nt.gone
        /\ nt'.tx = nt.tx /\ nt'.left = nt.left /\ nt'.bleft = nt.bleft /\ DOMAIN nt' = NtFields
    BY <1>1, <1>3 DEF ReadTty, NuInv, NuTypes, NtFields
  <1>6. /\ nu'.ev = nu.ev /\ nu'.fd = nu.fd /\ nu'.tbuf = nu.tbuf /\ DOMAIN nu' = NuFields
        /\ nu'.at \in {"cmd", "wcmd"}
    BY <1>1, <1>3 DEF ReadTty, NuInv, NuTypes, NuFields
  <1>7. /\ raw = <<>> => nu'.at = "cmd" /\ nu'.buf = nu.buf
        /\ raw # <<>> => /\ nu'.at = "wcmd"
                         /\ nu'.buf = [c \in NChans |-> IF nu.fd[c] THEN Part(raw, c) ELSE <<>>]
    BY <1>1, <1>3 DEF ReadTty, NuInv, NuTypes, NuFields, Sorted, Part
  <1>8. \A c \in NChans : nu.buf[c] = <<>>
    BY <1>5 DEF NuInv, BufsUsed, NChans
  <1>9. \A c \in NChans : Writing(c)' = Writing(c) /\ Opened(c) /\ Unread(c)' = Unread(c)
    BY <1>5, <1>6 DEF Writing, Opened, Connected, Unread
  <1>10. \A c \in NChans : UpOf(c)' = UpOf(c)
    BY <1>5, <1>9 DEF UpOf
  <1>11. CASE raw = <<>>
    <2>1. rest = r
      BY <1>4, <1>11, EmptyAround
    <2>2. NuTypes' /\ BufsUsed' /\ \A c \in NChans : StillSo(c)'
      BY <1>1, <1>5, <1>6, <1>7, <1>8, <1>11
      DEF NuInv, NuTypes, BufsUsed, StillSo, NChans
    <2>3. \A c \in NChans : ChanKept(c)
      BY <1>1, <1>5, <1>7, <1>9, <1>11, <2>1, PartsKeep DEF PartsKept
    <2> QED  BY <2>2, <2>3, Stutters DEF NuInv
  <1>12. CASE raw # <<>>
    <2>1. \A c \in NChans : Part(raw, c) \in Seq(Clean) /\ Part(rest, c) \in Seq(Clean)
      BY PartFacts
    <2>2. \A c \in NChans : Part(nt.rx, c) = Part(raw, c) \o Part(rest, c) /\ Part(nt.rx, c)' = Part(rest, c)
      <3>1. \A c \in NChans : Part(raw \o rest, c) = Part(raw, c) \o Part(rest, c)
        BY PartFacts
      <3> QED  BY <1>1, <1>4, <1>5, <3>1
    <2>3. \A c \in NChans : nu'.buf[c] = IF nu.fd[c] THEN Part(raw, c) ELSE <<>>
      BY <1>7, <1>12
    <2>4. NuTypes'
      <3>1. \A c \in NChans : nu'.buf[c] \in Seq(Clean)
        BY <2>1, <2>3, EmptySeq
      <3>2. nu'.buf \in [NChans -> Seq(Clean)]
        BY <1>7, <1>12, <3>1
      <3>3. nt'.rx \in Seq(Chars)
        BY <1>3, <1>5
      <3> QED  BY <1>5, <1>6, <3>2, <3>3 DEF NuInv, NuTypes
    <2>5. BufsUsed' /\ \A c \in NChans : StillSo(c)'
      BY <1>5, <1>6, <1>7, <1>12, <2>3 DEF NuInv, BufsUsed, StillSo
    <2>6. ASSUME NEW c \in NChans PROVE ChanLoses(c)
      <3>1. PICK a \in Seq(Clean), b \in Seq(Clean), h \in Seq(Clean) : a = Part(raw, c) /\ b = Part(rest, c) /\ h = Unread(c)
        BY <2>1, PartTypes DEF NuInv
      <3>2. h \o <<>> = h /\ <<>> \o a = a /\ <<>> \o b = b
        BY EmptyAround
      <3>3. DownOf(c) = h \o (a \o b)
        BY <1>8, <2>2, <3>1, <3>2 DEF DownOf
      <3>4. CASE nu.fd[c]
        <4>1. DownOf(c)' = (h \o a) \o b
          BY <1>9, <2>2, <2>3, <3>1, <3>4 DEF DownOf
        <4>2. (h \o a) \o b = h \o (a \o b)
          BY <3>1, Regroup, Zenon
        <4>3. ChanKept(c)
          BY <1>9, <1>10, <3>3, <4>1, <4>2 DEF ChanKept
        <4> QED  BY <4>3, KeptLoses DEF NuInv
      <3>5. CASE ~nu.fd[c]
        <4>1. ~Connected(c)
          BY <3>5 DEF Connected
        <4>2. h = <<>>
          BY <3>1, <4>1 DEF Unread
        <4>3. PICK ab \in Seq(Clean) : ab = a \o b
          BY ConcatProperties
        <4>4. <<>> \o ab = ab
          BY EmptyAround
        <4>5. DownOf(c) = a \o b
          BY <3>3, <4>2, <4>3, <4>4
        <4>6. DownOf(c)' = b
          BY <1>9, <2>2, <2>3, <3>1, <3>2, <3>5, <4>2 DEF DownOf
        <4>7. b \in Abstract!Suffixes(a \o b)
          BY ConcatParts
        <4>8. UpOf(c)' \in Abstract!Prefixes(UpOf(c))
          <5>1. PICK u \in Seq(Clean) : u = UpOf(c)
            BY PartTypes, ConcatProperties DEF UpOf, NuInv
          <5> QED  BY <1>10, <5>1, ConcatParts
        <4> QED  BY <1>9, <4>1, <4>5, <4>6, <4>7, <4>8 DEF ChanLoses
      <3> QED  BY <3>4, <3>5
    <2> QED  BY <2>4, <2>5, <2>6, ImplementsLoses DEF NuInv
  <1> QED  BY <1>11, <1>12

LEMMA WriterMoves ==
    ASSUME NuInv, NEW c \in NChans, nu.at = (IF c = "cmd" THEN "wcmd" ELSE "wcon"),
           \A d \in NChans \ {c} : nu'.buf[d] = nu.buf[d], nu'.tbuf = nu.tbuf,
           nu'.at = nu.at \/ (nu'.at = After(nu.at) /\ nu'.buf[c] = <<>>)
    PROVE  BufsUsed' /\ \A d \in NChans : Writing(d)' = <<>> /\ Writing(d) = <<>>
  <1>1. nu'.at \in {"wcmd", "wcon", "tty"} /\ nu.at \in {"wcmd", "wcon"}
    BY DEF After
  <1>2. \A d \in NChans : Writing(d)' = <<>> /\ Writing(d) = <<>>
    BY <1>1 DEF Writing
  <1>3. CASE c = "cmd"
    <2>1. nu.at = "wcmd" /\ nu'.buf["con"] = nu.buf["con"] /\ nu'.at \in {"wcmd", "wcon"}
      BY <1>3 DEF After, NChans
    <2>2. nu'.buf["cmd"] # <<>> => nu'.at = "wcmd"
      BY <1>3, <2>1
    <2> QED  BY <1>2, <2>1, <2>2 DEF BufsUsed
  <1>4. CASE c = "con"
    <2>1. nu.at = "wcon" /\ nu'.buf["cmd"] = nu.buf["cmd"] /\ nu'.at \in {"wcon", "tty"}
      BY <1>4 DEF After, NChans
    <2>2. nu'.buf["con"] # <<>> => nu'.at = "wcon"
      BY <1>4, <2>1
    <2>3. nu.buf["cmd"] = <<>>
      BY <2>1 DEF NuInv, BufsUsed
    <2> QED  BY <1>2, <2>1, <2>2, <2>3 DEF BufsUsed
  <1> QED  BY <1>3, <1>4 DEF NChans

LEMMA WritesNothing ==
    ASSUME NuInv, NEW c \in NChans, nu.at = (IF c = "cmd" THEN "wcmd" ELSE "wcon"),
           nu.buf[c] = <<>>, nu' = [nu EXCEPT !.at = After(nu.at)], nt' = nt
    PROVE  NuInv' /\ Implemented
  <1>1. /\ nu'.at = After(nu.at) /\ nu'.ev = nu.ev /\ nu'.fd = nu.fd /\ nu'.buf = nu.buf /\ nu'.tbuf = nu.tbuf
        /\ DOMAIN nu' = NuFields
    BY DEF NuInv, NuTypes, NuFields
  <1>2. BufsUsed' /\ \A d \in NChans : Writing(d)' = Writing(d)
    BY <1>1, WriterMoves
  <1>3. NuTypes' /\ \A d \in NChans : StillSo(d)'
    BY <1>1 DEF NuInv, NuTypes, StillSo
  <1>4. \A d \in NChans : ChanKept(d)
    BY <1>1, <1>2, PartsKeep DEF PartsKept, Unread, Connected, Opened
  <1> QED  BY <1>2, <1>3, <1>4, Stutters DEF NuInv

LEMMA WritesSome ==
    ASSUME NuInv, NEW c \in NChans, nu.at = (IF c = "cmd" THEN "wcmd" ELSE "wcon"), NEW room \in Nat,
           nu.buf[c] # <<>>, ~nt.gone[c],
           nu' = [nu EXCEPT !.buf[c] = Drop(nu.buf[c], room),
                            !.at = IF Drop(nu.buf[c], room) = <<>> THEN After(@) ELSE @],
           nt' = [nt EXCEPT !.out[c] = @ \o Take(nu.buf[c], room)]
    PROVE  NuInv' /\ Implemented
  <1>1. PICK b \in Seq(Clean), o \in Seq(Clean) : b = nu.buf[c] /\ o = nt.out[c]
    BY PartTypes DEF NuInv
  <1>2. PICK k \in Seq(Clean), r \in Seq(Clean) : k = Take(b, room) /\ r = Drop(b, room)
    BY CutFacts
  <1>3. k \o r = b
    BY <1>2, CutFacts, ZenonT(60)
  <1>4. PICK p \in Seq(Clean) : p = o \o k
    BY ConcatProperties
  <1>5. /\ nu'.buf = [nu.buf EXCEPT ![c] = r] /\ nu'.at = (IF r = <<>> THEN After(nu.at) ELSE nu.at)
        /\ nu'.ev = nu.ev /\ nu'.fd = nu.fd /\ nu'.tbuf = nu.tbuf /\ DOMAIN nu' = NuFields
    BY <1>1, <1>2 DEF NuInv, NuTypes, NuFields
  <1>6. /\ nt'.out = [nt.out EXCEPT ![c] = p] /\ nt'.in = nt.in /\ nt'.gone = nt.gone /\ nt'.rx = nt.rx
        /\ nt'.tx = nt.tx /\ nt'.left = nt.left /\ nt'.bleft = nt.bleft /\ DOMAIN nt' = NtFields
    BY <1>1, <1>2, <1>4 DEF NuInv, NuTypes, NtFields
  <1>7. /\ nu'.buf[c] = r /\ nt'.out[c] = p
        /\ nu'.buf \in [NChans -> Seq(Clean)] /\ nt'.out \in [NChans -> Seq(Clean)]
        /\ \A d \in NChans \ {c} : nu'.buf[d] = nu.buf[d] /\ nt'.out[d] = nt.out[d]
    <2>1. r \in Seq(Clean) /\ p \in Seq(Clean)
      BY <1>2, <1>4
    <2>2. nu.buf \in [NChans -> Seq(Clean)] /\ nt.out \in [NChans -> Seq(Clean)]
      BY DEF NuInv, NuTypes
    <2>3. /\ nu'.buf \in [NChans -> Seq(Clean)] /\ nu'.buf[c] = r
          /\ \A d \in NChans \ {c} : nu'.buf[d] = nu.buf[d]
      BY <1>5, <2>1, <2>2, Changed
    <2>4. /\ nt'.out \in [NChans -> Seq(Clean)] /\ nt'.out[c] = p
          /\ \A d \in NChans \ {c} : nt'.out[d] = nt.out[d]
      <3>1. p \in Seq(Clean) /\ nt.out \in [NChans -> Seq(Clean)] /\ nt'.out = [nt.out EXCEPT ![c] = p]
        BY <1>6, <2>1, <2>2
      <3>2. PICK f \in [NChans -> Seq(Clean)] : f = nt.out
        BY <3>1
      <3>3. /\ [f EXCEPT ![c] = p] \in [NChans -> Seq(Clean)] /\ [f EXCEPT ![c] = p][c] = p
            /\ \A d \in NChans \ {c} : [f EXCEPT ![c] = p][d] = f[d]
        BY <3>1, Changed
      <3> QED  BY <3>1, <3>2, <3>3
    <2> QED  BY <2>3, <2>4
  <1>8. BufsUsed' /\ \A d \in NChans : Writing(d)' = Writing(d)
    BY <1>5, <1>7, WriterMoves
  <1>9. nu.fd[c] /\ Connected(c) /\ \A d \in NChans : Opened(d)
    BY <1>5, <1>6 DEF NuInv, StillSo, Connected, Opened
  <1>10. NuTypes' /\ \A d \in NChans : StillSo(d)'
    <2>2. ASSUME NEW d \in NChans PROVE StillSo(d)'
      <3>1. StillSo(d)
        BY DEF NuInv
      <3> QED  BY <1>5, <1>6, <1>7, <1>9, <3>1 DEF StillSo
    <2> QED  BY <1>5, <1>6, <1>7, <2>2 DEF NuInv, NuTypes
  <1>11. \A d \in NChans \ {c} : ChanKept(d)
    <2>1. \A d \in NChans \ {c} : Unread(d)' = Unread(d)
      BY <1>7, <1>9 DEF Unread, Opened
    <2> QED  BY <1>6, <1>7, <1>8, <1>9, <2>1, PartsKeep DEF PartsKept
  <1>12. ChanKept(c)
    <2>1. Unread(c) = o /\ Unread(c)' = p
      BY <1>1, <1>7, <1>9 DEF Unread, Opened
    <2>2. (o \o k) \o r = o \o (k \o r)
      <3>1. o \in Seq(Clean) /\ k \in Seq(Clean) /\ r \in Seq(Clean)
        BY <1>1, <1>2
      <3> QED  BY <3>1, Regroup, ZenonT(60)
    <2>3. p \o r = o \o b
      BY <1>3, <1>4, <2>2
    <2>4. DownOf(c)' = DownOf(c)
      BY <1>1, <1>6, <1>7, <2>1, <2>3 DEF DownOf
    <2>5. UpOf(c)' = UpOf(c)
      BY <1>6, <1>8 DEF UpOf
    <2> QED  BY <1>9, <2>4, <2>5 DEF ChanKept
  <1> QED  BY <1>8, <1>10, <1>11, <1>12, Stutters DEF NuInv

(* To a client that is gone: close() or not, what was to be written is lost.   *)
LEMMA WritesLost ==
    ASSUME NuInv, NEW c \in NChans, nu.at = (IF c = "cmd" THEN "wcmd" ELSE "wcon"), nt.gone[c],
           \/ /\ nu' = [nu EXCEPT !.buf[c] = <<>>, !.fd[c] = FALSE, !.at = After(@)]
              /\ nt' = [nt EXCEPT !.gone[c] = FALSE, !.in[c] = <<>>]
           \/ nu' = [nu EXCEPT !.buf[c] = <<>>, !.at = After(@)] /\ nt' = nt
    PROVE  NuInv' /\ Implemented
  <1>1. /\ nu'.buf = [nu.buf EXCEPT ![c] = <<>>] /\ nu'.at = After(nu.at) /\ nu'.ev = nu.ev
        /\ nu'.tbuf = nu.tbuf /\ DOMAIN nu' = NuFields
        /\ nt'.out = nt.out /\ nt'.rx = nt.rx /\ nt'.tx = nt.tx /\ nt'.left = nt.left
        /\ nt'.bleft = nt.bleft /\ DOMAIN nt' = NtFields
    BY ZenonT(60) DEF NuInv, NuTypes, NuFields, NtFields
  <1>2. \/ /\ nu'.fd = [nu.fd EXCEPT ![c] = FALSE] /\ nt'.gone = [nt.gone EXCEPT ![c] = FALSE]
           /\ nt'.in = [nt.in EXCEPT ![c] = <<>>]
        \/ nu'.fd = nu.fd /\ nt'.gone = nt.gone /\ nt'.in = nt.in
    BY DEF NuInv, NuTypes, NuFields, NtFields
  <1>3. nu'.buf[c] = <<>> /\ \A d \in NChans \ {c} : nu'.buf[d] = nu.buf[d]
    BY <1>1 DEF NuInv, NuTypes
  <1>4. /\ nt'.in[c] = <<>> \/ nt'.in[c] = nt.in[c]
        /\ nt'.gone[c] => nu'.fd[c] /\ nt'.in[c] = nt.in[c]
        /\ nu'.fd[c] => nu.fd[c] /\ nt'.gone[c]
        /\ \A d \in NChans \ {c} : nu'.fd[d] = nu.fd[d] /\ nt'.gone[d] = nt.gone[d] /\ nt'.in[d] = nt.in[d]
    BY <1>2 DEF NuInv, NuTypes, StillSo
  <1>5. BufsUsed' /\ \A d \in NChans : Writing(d)' = <<>> /\ Writing(d) = <<>>
    BY <1>1, <1>3, WriterMoves
  <1>6. NuTypes'
    <2>1. <<>> \in Seq(Clean)
      BY EmptySeq
    <2>2. nu'.buf \in [NChans -> Seq(Clean)]
      <3>1. nu.buf \in [NChans -> Seq(Clean)]
        BY DEF NuInv, NuTypes
      <3> QED  BY <1>1, <2>1, <3>1, Changed
    <2>3. nt'.in \in [NChans -> Seq(Clean)]
      <3>1. nt.in \in [NChans -> Seq(Clean)]
        BY DEF NuInv, NuTypes
      <3>2. [nt.in EXCEPT ![c] = <<>>] \in [NChans -> Seq(Clean)]
        BY <2>1, <3>1, Changed
      <3> QED  BY <1>2, <3>1, <3>2, Zenon
    <2>4. nt'.gone \in [NChans -> BOOLEAN] /\ nu'.fd \in [NChans -> BOOLEAN]
      <3>1. nt.gone \in [NChans -> BOOLEAN] /\ nu.fd \in [NChans -> BOOLEAN]
        BY DEF NuInv, NuTypes
      <3>2. FALSE \in BOOLEAN
        OBVIOUS
      <3>3. [nt.gone EXCEPT ![c] = FALSE] \in [NChans -> BOOLEAN]
        BY <3>1, <3>2, Changed
      <3>4. [nu.fd EXCEPT ![c] = FALSE] \in [NChans -> BOOLEAN]
        BY <3>1, <3>2, Changed
      <3> QED  BY <1>2, <3>1, <3>3, <3>4, Zenon
    <2> QED  BY <1>1, <2>2, <2>3, <2>4 DEF NuInv, NuTypes
  <1>7. ASSUME NEW d \in NChans PROVE StillSo(d)'
    <2>1. StillSo(d)
      BY DEF NuInv
    <2>2. CASE d = c
      BY <1>1, <1>3, <1>4, <2>1, <2>2 DEF StillSo
    <2>3. CASE d # c
      <3>1. nu'.buf[d] = nu.buf[d] /\ nu'.fd[d] = nu.fd[d] /\ nt'.gone[d] = nt.gone[d] /\ nt'.in[d] = nt.in[d]
        BY <1>3, <1>4, <2>3
      <3> QED  BY <1>1, <2>1, <3>1 DEF StillSo
    <2> QED  BY <2>2, <2>3
  <1>8. \A d \in NChans \ {c} : ChanKept(d)
    <2>1. \A d \in NChans \ {c} : Opened(d) /\ Unread(d)' = Unread(d)
      BY <1>1, <1>4 DEF Unread, Opened, Connected
    <2> QED  BY <1>1, <1>3, <1>4, <1>5, <2>1, PartsKeep DEF PartsKept
  <1>9. \A d \in NChans \ {c} : ChanLoses(d)
    BY <1>8, KeptLoses DEF NuInv
  <1>10. ChanLoses(c)
    <2>1. ~Connected(c) /\ Connected(c)' = Connected(c)
      BY <1>4 DEF Connected
    <2>2. Unread(c) = <<>> /\ Unread(c)' = <<>>
      BY <2>1 DEF Unread
    <2>3. PICK b \in Seq(Clean), r \in Seq(Clean), t \in Seq(Clean), i \in Seq(Clean) :
              b = nu.buf[c] /\ r = Part(nt.rx, c) /\ t = Part(nt.tx, c) /\ i = nt.in[c]
      BY PartTypes DEF NuInv
    <2>4. <<>> \o b = b /\ <<>> \o r = r /\ t \o <<>> = t /\ <<>> \o <<>> = <<>>
      BY EmptyAround
    <2>5. DownOf(c) = b \o r /\ DownOf(c)' = r
      BY <1>1, <1>3, <2>2, <2>3, <2>4 DEF DownOf
    <2>6. UpOf(c) = t \o i
      BY <1>5, <2>3, <2>4 DEF UpOf
    <2>7. UpOf(c)' = t \o nt'.in[c]
      BY <1>1, <1>5, <2>3, <2>4 DEF UpOf
    <2>8. r \in Abstract!Suffixes(b \o r) /\ t \in Abstract!Prefixes(t \o i)
      BY ConcatParts
    <2>9. t \o i \in Abstract!Prefixes(t \o i)
      <3>1. PICK u \in Seq(Clean) : u = t \o i
        BY ConcatProperties
      <3> QED  BY <3>1, ConcatParts
    <2>10. UpOf(c)' = t \/ UpOf(c)' = t \o i
      BY <1>4, <2>3, <2>4, <2>7
    <2> QED  BY <2>1, <2>5, <2>6, <2>8, <2>9, <2>10 DEF ChanLoses, Opened
  <1> QED  BY <1>5, <1>6, <1>7, <1>9, <1>10, ImplementsLoses DEF NuInv

LEMMA WriteClientStep == ASSUME NuInv, NEW c \in NChans, WriteClient(c) PROVE NuInv' /\ Implemented
  <1>1. PICK room : room = NSockLen - Len(nt.out[c])
    OBVIOUS
  <1>2. room > 0 => room \in Nat
    <2>1. Len(nt.out[c]) \in Nat
      BY PartTypes, LenProperties DEF NuInv
    <2> QED  BY <1>1, <2>1, NetUartAssumption
  <1>3. nu.at = (IF c = "cmd" THEN "wcmd" ELSE "wcon")
    BY DEF WriteClient
  <1>4. \/ nu.buf[c] = <<>> /\ nu' = [nu EXCEPT !.at = After(nu.at)] /\ nt' = nt
        \/ /\ nu.buf[c] # <<>> /\ ~nt.gone[c] /\ room > 0
           /\ nu' = [nu EXCEPT !.buf[c] = Drop(nu.buf[c], room),
                               !.at = IF Drop(nu.buf[c], room) = <<>> THEN After(@) ELSE @]
           /\ nt' = [nt EXCEPT !.out[c] = @ \o Take(nu.buf[c], room)]
        \/ /\ nt.gone[c]
           /\ \/ /\ nu' = [nu EXCEPT !.buf[c] = <<>>, !.fd[c] = FALSE, !.at = After(@)]
                 /\ nt' = [nt EXCEPT !.gone[c] = FALSE, !.in[c] = <<>>]
              \/ nu' = [nu EXCEPT !.buf[c] = <<>>, !.at = After(@)] /\ nt' = nt
    BY <1>1, Zenon DEF WriteClient
  <1> QED  BY <1>2, <1>3, <1>4, WritesNothing, WritesSome, WritesLost

LEMMA ServeFacts ==
    ASSUME NuInv, NEW c \in NChans, nu.at = c
    PROVE  /\ \A d \in NChans : nu.buf[d] = <<>> /\ Writing(d) = <<>>
           /\ After(nu.at) \in {"con", "poll"}
  BY DEF NuInv, BufsUsed, NChans, Writing, After

LEMMA EvDone ==
    ASSUME NuInv, NEW c \in NChans, nu'.ev = [nu.ev EXCEPT ![c] = "none"]
    PROVE  /\ nu'.ev \in [NChans -> {"none", "client", "listener"}] /\ nu'.ev[c] = "none"
           /\ \A d \in NChans \ {c} : nu'.ev[d] = nu.ev[d]
  <1>1. PICK T : T = {"none", "client", "listener"}
    OBVIOUS
  <1>2. PICK f \in [NChans -> T] : f = nu.ev
    BY <1>1 DEF NuInv, NuTypes
  <1>3. "none" \in T
    BY <1>1
  <1>4. /\ [f EXCEPT ![c] = "none"] \in [NChans -> T] /\ [f EXCEPT ![c] = "none"][c] = "none"
        /\ \A d \in NChans \ {c} : [f EXCEPT ![c] = "none"][d] = f[d]
    BY <1>3, Changed
  <1> QED  BY <1>1, <1>2, <1>4, Zenon

LEMMA FdDone ==
    ASSUME NuInv, NEW c \in NChans, NEW v \in BOOLEAN, nu'.fd = [nu.fd EXCEPT ![c] = v]
    PROVE  /\ nu'.fd \in [NChans -> BOOLEAN] /\ nu'.fd[c] = v
           /\ \A d \in NChans \ {c} : nu'.fd[d] = nu.fd[d]
  <1>1. PICK f \in [NChans -> BOOLEAN] : f = nu.fd
    BY DEF NuInv, NuTypes
  <1>2. /\ [f EXCEPT ![c] = v] \in [NChans -> BOOLEAN] /\ [f EXCEPT ![c] = v][c] = v
        /\ \A d \in NChans \ {c} : [f EXCEPT ![c] = v][d] = f[d]
    BY Changed
  <1> QED  BY <1>1, <1>2, Zenon

LEMMA ServesNothing ==
    ASSUME NuInv, NEW c \in NChans, nu.at = c, nu' = [Seen(c) EXCEPT !.at = After(@)], nt' = nt
    PROVE  NuInv' /\ Implemented
  <1>1. /\ nu'.ev = [nu.ev EXCEPT ![c] = "none"] /\ nu'.at = After(nu.at) /\ nu'.fd = nu.fd
        /\ nu'.buf = nu.buf /\ nu'.tbuf = nu.tbuf /\ DOMAIN nu' = NuFields
    BY DEF Seen, NuInv, NuTypes, NuFields
  <1>2. /\ nu'.ev \in [NChans -> {"none", "client", "listener"}] /\ nu'.ev[c] = "none"
        /\ \A d \in NChans \ {c} : nu'.ev[d] = nu.ev[d]
    BY <1>1, EvDone
  <1>3. BufsUsed' /\ \A d \in NChans : Writing(d)' = Writing(d)
    BY <1>1, ServeFacts DEF BufsUsed, Writing, NChans
  <1>4. ASSUME NEW d \in NChans PROVE StillSo(d)'
    <2>1. StillSo(d)
      BY DEF NuInv
    <2> QED  BY <1>1, <1>2, <2>1 DEF StillSo
  <1>5. NuTypes'
    BY <1>1, <1>2 DEF NuInv, NuTypes
  <1>6. \A d \in NChans : ChanKept(d)
    BY <1>1, <1>3, PartsKeep DEF PartsKept, Unread, Connected, Opened
  <1> QED  BY <1>3, <1>4, <1>5, <1>6, Stutters DEF NuInv

LEMMA Accepts ==
    ASSUME NuInv, NEW c \in NChans, nu.at = c, nu.ev[c] = "listener",
           nu' = [Seen(c) EXCEPT !.fd[c] = TRUE, !.at = After(@)],
           nt' = [nt EXCEPT !.calling[c] = FALSE, !.out[c] = <<>>]
    PROVE  NuInv' /\ Implemented
  <1>1. /\ nu'.ev = [nu.ev EXCEPT ![c] = "none"] /\ nu'.at = After(nu.at)
        /\ nu'.fd = [nu.fd EXCEPT ![c] = TRUE]
        /\ nu'.buf = nu.buf /\ nu'.tbuf = nu.tbuf /\ DOMAIN nu' = NuFields
    BY DEF Seen, NuInv, NuTypes, NuFields
  <1>2. /\ nt'.out = [nt.out EXCEPT ![c] = <<>>] /\ nt'.in = nt.in /\ nt'.gone = nt.gone /\ nt'.rx = nt.rx
        /\ nt'.tx = nt.tx /\ nt'.left = nt.left /\ nt'.bleft = nt.bleft /\ DOMAIN nt' = NtFields
    BY DEF NuInv, NuTypes, NtFields
  <1>3. /\ nu'.ev \in [NChans -> {"none", "client", "listener"}] /\ nu'.ev[c] = "none"
        /\ nu'.fd \in [NChans -> BOOLEAN] /\ nu'.fd[c] = TRUE
        /\ \A d \in NChans \ {c} : nu'.ev[d] = nu.ev[d] /\ nu'.fd[d] = nu.fd[d]
    <2>1. /\ nu'.ev \in [NChans -> {"none", "client", "listener"}] /\ nu'.ev[c] = "none"
          /\ \A d \in NChans \ {c} : nu'.ev[d] = nu.ev[d]
      BY <1>1, EvDone
    <2>2. /\ nu'.fd \in [NChans -> BOOLEAN] /\ nu'.fd[c] = TRUE
          /\ \A d \in NChans \ {c} : nu'.fd[d] = nu.fd[d]
      BY <1>1, FdDone
    <2> QED  BY <2>1, <2>2
  <1>4. /\ nt'.out \in [NChans -> Seq(Clean)] /\ nt'.out[c] = <<>>
        /\ \A d \in NChans \ {c} : nt'.out[d] = nt.out[d]
    <2>1. <<>> \in Seq(Clean) /\ nt.out \in [NChans -> Seq(Clean)] /\ nt'.out = [nt.out EXCEPT ![c] = <<>>]
      BY <1>2, EmptySeq DEF NuInv, NuTypes
    <2> QED  BY <2>1, Changed
  <1>5. BufsUsed' /\ \A d \in NChans : Writing(d)' = Writing(d)
    BY <1>1, ServeFacts DEF BufsUsed, Writing, NChans
  <1>6. ~nu.fd[c] /\ ~nt.gone[c]
    BY DEF NuInv, StillSo
  <1>7. ASSUME NEW d \in NChans PROVE StillSo(d)'
    <2>1. StillSo(d)
      BY DEF NuInv
    <2> QED  BY <1>1, <1>2, <1>3, <2>1 DEF StillSo
  <1>8. NuTypes'
    BY <1>1, <1>2, <1>3, <1>4 DEF NuInv, NuTypes
  <1>9. \A d \in NChans \ {c} : ChanKept(d)
    <2>1. \A d \in NChans \ {c} : Opened(d) /\ Unread(d)' = Unread(d)
      BY <1>2, <1>3, <1>4 DEF Unread, Opened, Connected
    <2> QED  BY <1>1, <1>2, <1>5, <2>1, PartsKeep DEF PartsKept
  <1>10. ~Connected(c) /\ Connected(c)'
    BY <1>2, <1>3, <1>6 DEF Connected
  <1>11. Unread(c)' = Unread(c)
    BY <1>4, <1>10 DEF Unread
  <1>12. UpOf(c)' = UpOf(c) /\ DownOf(c)' = DownOf(c)
    BY <1>1, <1>2, <1>5, <1>11 DEF UpOf, DownOf
  <1> QED  BY <1>5, <1>7, <1>8, <1>9, <1>10, <1>12, ImplementsOpens DEF NuInv

LEMMA SeesTheEnd ==
    ASSUME NuInv, NEW c \in NChans, nu.at = c, nu.ev[c] = "client", nu.fd[c], nt.in[c] = <<>>,
           nu' = [Seen(c) EXCEPT !.fd[c] = FALSE, !.at = After(@)],
           nt' = [nt EXCEPT !.gone[c] = FALSE]
    PROVE  NuInv' /\ Implemented
  <1>1. /\ nu'.ev = [nu.ev EXCEPT ![c] = "none"] /\ nu'.at = After(nu.at)
        /\ nu'.fd = [nu.fd EXCEPT ![c] = FALSE]
        /\ nu'.buf = nu.buf /\ nu'.tbuf = nu.tbuf /\ DOMAIN nu' = NuFields
    BY DEF Seen, NuInv, NuTypes, NuFields
  <1>2. /\ nt'.gone = [nt.gone EXCEPT ![c] = FALSE] /\ nt'.in = nt.in /\ nt'.out = nt.out /\ nt'.rx = nt.rx
        /\ nt'.tx = nt.tx /\ nt'.left = nt.left /\ nt'.bleft = nt.bleft /\ DOMAIN nt' = NtFields
    BY DEF NuInv, NuTypes, NtFields
  <1>3. /\ nu'.ev \in [NChans -> {"none", "client", "listener"}] /\ nu'.ev[c] = "none"
        /\ nu'.fd \in [NChans -> BOOLEAN] /\ nu'.fd[c] = FALSE
        /\ \A d \in NChans \ {c} : nu'.ev[d] = nu.ev[d] /\ nu'.fd[d] = nu.fd[d]
    <2>1. /\ nu'.ev \in [NChans -> {"none", "client", "listener"}] /\ nu'.ev[c] = "none"
          /\ \A d \in NChans \ {c} : nu'.ev[d] = nu.ev[d]
      BY <1>1, EvDone
    <2>2. /\ nu'.fd \in [NChans -> BOOLEAN] /\ nu'.fd[c] = FALSE
          /\ \A d \in NChans \ {c} : nu'.fd[d] = nu.fd[d]
      BY <1>1, FdDone
    <2> QED  BY <2>1, <2>2
  <1>4. /\ nt'.gone \in [NChans -> BOOLEAN] /\ nt'.gone[c] = FALSE
        /\ \A d \in NChans \ {c} : nt'.gone[d] = nt.gone[d]
    BY <1>2 DEF NuInv, NuTypes
  <1>5. BufsUsed' /\ \A d \in NChans : Writing(d)' = Writing(d)
    BY <1>1, ServeFacts DEF BufsUsed, Writing, NChans
  <1>6. nt.gone[c] /\ nu.buf[c] = <<>>
    BY ServeFacts DEF NuInv, StillSo
  <1>7. ASSUME NEW d \in NChans PROVE StillSo(d)'
    <2>1. StillSo(d)
      BY DEF NuInv
    <2> QED  BY <1>1, <1>2, <1>3, <1>4, <1>6, <2>1 DEF StillSo
  <1>8. NuTypes'
    BY <1>1, <1>2, <1>3, <1>4 DEF NuInv, NuTypes
  <1>9. ASSUME NEW d \in NChans PROVE ChanKept(d)
    <2>1. Connected(d)' = Connected(d)
      BY <1>3, <1>4, <1>6 DEF Connected
    <2>2. Unread(d)' = Unread(d)
      BY <1>2, <2>1 DEF Unread
    <2> QED  BY <1>1, <1>2, <1>5, <2>1, <2>2, PartsKeep DEF PartsKept, Opened
  <1> QED  BY <1>5, <1>7, <1>8, <1>9, Stutters DEF NuInv

LEMMA TakesFromClient ==
    ASSUME NuInv, NEW c \in NChans, nu.at = c,
           nu' = [Seen(c) EXCEPT !.at = IF c = "cmd" THEN "tcmd" ELSE "tcon", !.tbuf = Mark(Take(nt.in[c], NBufLen), c)],
           nt' = [nt EXCEPT !.in[c] = Drop(@, NBufLen)]
    PROVE  NuInv' /\ Implemented
  <1>1. PICK i \in Seq(Clean) : i = nt.in[c]
    BY PartTypes DEF NuInv
  <1>2. NBufLen \in Nat
    BY NetUartAssumption
  <1>3. PICK k \in Seq(Clean), r \in Seq(Clean) : k = Take(i, NBufLen) /\ r = Drop(i, NBufLen)
    BY <1>2, CutFacts
  <1>4. k \o r = i
    BY <1>2, <1>3, CutFacts
  <1>5. PICK m \in Seq(Chars) : m = Mark(k, c)
    BY MarkFacts
  <1>6. AllIn(m, c) /\ Unmark(m) = k
    BY <1>5, MarkFacts
  <1>7. /\ nu'.ev = [nu.ev EXCEPT ![c] = "none"] /\ nu'.at = (IF c = "cmd" THEN "tcmd" ELSE "tcon")
        /\ nu'.fd = nu.fd /\ nu'.buf = nu.buf /\ nu'.tbuf = m /\ DOMAIN nu' = NuFields
    BY <1>1, <1>3, <1>5 DEF Seen, NuInv, NuTypes, NuFields
  <1>8. /\ nt'.in = [nt.in EXCEPT ![c] = r] /\ nt'.out = nt.out /\ nt'.gone = nt.gone /\ nt'.rx = nt.rx
        /\ nt'.tx = nt.tx /\ nt'.left = nt.left /\ nt'.bleft = nt.bleft /\ DOMAIN nt' = NtFields
    BY <1>1, <1>3 DEF NuInv, NuTypes, NtFields
  <1>9. /\ nu'.ev \in [NChans -> {"none", "client", "listener"}] /\ nu'.ev[c] = "none"
        /\ \A d \in NChans \ {c} : nu'.ev[d] = nu.ev[d]
    BY <1>7, EvDone
  <1>10. /\ nt'.in \in [NChans -> Seq(Clean)] /\ nt'.in[c] = r
         /\ \A d \in NChans \ {c} : nt'.in[d] = nt.in[d]
    <2>1. PICK f \in [NChans -> Seq(Clean)] : f = nt.in
      BY DEF NuInv, NuTypes
    <2>2. r \in Seq(Clean)
      BY <1>3
    <2>3. /\ [f EXCEPT ![c] = r] \in [NChans -> Seq(Clean)] /\ [f EXCEPT ![c] = r][c] = r
          /\ \A d \in NChans \ {c} : [f EXCEPT ![c] = r][d] = f[d]
      BY <2>2, Changed
    <2>4. PICK g : g = nt'.in
      OBVIOUS
    <2>5. g = [f EXCEPT ![c] = r]
      BY <1>8, <2>1, <2>4
    <2>6. /\ g \in [NChans -> Seq(Clean)] /\ g[c] = r
          /\ \A d \in NChans \ {c} : g[d] = f[d]
      BY <2>3, <2>5
    <2> QED  BY <2>1, <2>4, <2>6
  <1>11. BufsUsed'
    BY <1>6, <1>7, ServeFacts DEF BufsUsed, NChans
  <1>12. ASSUME NEW d \in NChans PROVE StillSo(d)'
    <2>1. StillSo(d)
      BY DEF NuInv
    <2> QED  BY <1>7, <1>8, <1>9, <1>10, <2>1 DEF StillSo
  <1>13. NuTypes'
    BY <1>5, <1>7, <1>8, <1>9, <1>10 DEF NuInv, NuTypes
  <1>14. \A d \in NChans : Opened(d) /\ Unread(d)' = Unread(d) /\ Writing(d) = <<>>
    BY <1>7, <1>8, ServeFacts DEF Opened, Connected, Unread
  <1>15. \A d \in NChans \ {c} : ChanKept(d)
    <2>1. \A d \in NChans \ {c} : Writing(d)' = <<>>
      BY <1>7 DEF Writing, NChans
    <2> QED  BY <1>7, <1>8, <1>10, <1>14, <2>1, PartsKeep DEF PartsKept
  <1>16. ChanKept(c)
    <2>1. Writing(c)' = k
      BY <1>6, <1>7 DEF Writing
    <2>2. PICK t \in Seq(Clean) : t = Part(nt.tx, c)
      BY PartTypes DEF NuInv
    <2>3. t \o <<>> = t
      BY EmptyAround
    <2>4. UpOf(c) = t \o i
      BY <1>1, <1>14, <2>2, <2>3 DEF UpOf
    <2>5. UpOf(c)' = (t \o k) \o r
      BY <1>8, <1>10, <2>1, <2>2 DEF UpOf
    <2>6. (t \o k) \o r = t \o (k \o r)
      <3>1. t \in Seq(Clean) /\ k \in Seq(Clean) /\ r \in Seq(Clean)
        BY <1>3, <2>2
      <3> QED  BY <3>1, Regroup, Zenon
    <2>7. DownOf(c)' = DownOf(c)
      BY <1>7, <1>8, <1>14 DEF DownOf
    <2> QED  BY <1>4, <1>14, <2>4, <2>5, <2>6, <2>7 DEF ChanKept
  <1> QED  BY <1>11, <1>12, <1>13, <1>15, <1>16, Stutters DEF NuInv

LEMMA ServeStep == ASSUME NuInv, NEW c \in NChans, Serve(c) PROVE NuInv' /\ Implemented
  <1>1. nu.at = c
    BY DEF Serve
  <1>2. CASE nu' = [Seen(c) EXCEPT !.at = After(@)] /\ nt' = nt
    BY <1>1, <1>2, ServesNothing
  <1>3. CASE /\ nu.ev[c] = "listener" /\ nu' = [Seen(c) EXCEPT !.fd[c] = TRUE, !.at = After(@)]
             /\ nt' = [nt EXCEPT !.calling[c] = FALSE, !.out[c] = <<>>]
    BY <1>1, <1>3, Accepts
  <1>4. CASE /\ nu.ev[c] = "client" /\ nu.fd[c] /\ nt.in[c] = <<>>
             /\ nu' = [Seen(c) EXCEPT !.fd[c] = FALSE, !.at = After(@)]
             /\ nt' = [nt EXCEPT !.gone[c] = FALSE]
    BY <1>1, <1>4, SeesTheEnd
  <1>5. CASE /\ nu' = [Seen(c) EXCEPT !.at = IF c = "cmd" THEN "tcmd" ELSE "tcon",
                                      !.tbuf = Mark(Take(nt.in[c], NBufLen), c)]
             /\ nt' = [nt EXCEPT !.in[c] = Drop(@, NBufLen)]
    BY <1>1, <1>5, TakesFromClient
  <1> QED  BY <1>2, <1>3, <1>4, <1>5, Zenon DEF Serve

LEMMA WriteTtyStep == ASSUME NuInv, NEW c \in NChans, WriteTty(c) PROVE NuInv' /\ Implemented
  <1>1. PICK t \in Seq(Chars), x \in Seq(Chars) : t = nu.tbuf /\ x = nt.tx
    BY DEF NuInv, NuTypes
  <1>2. PICK room \in Nat : room = NSockLen - Len(nt.tx)
    <2>1. Len(x) \in Nat
      BY LenProperties
    <2>2. NSockLen - Len(nt.tx) > 0
      BY DEF WriteTty
    <2>3. NSockLen - Len(nt.tx) \in Nat
      BY <1>1, <2>1, <2>2, NetUartAssumption
    <2> QED  BY <2>3
  <1>3. PICK k \in Seq(Chars), r \in Seq(Chars) : k = Take(t, room) /\ r = Drop(t, room)
    BY CutFacts
  <1>4. PICK n \in 0 .. Len(t) : n = NMin(room, Len(t))
    BY CutFacts
  <1>5. /\ k \o r = t /\ Len(k) = n /\ Len(r) = Len(t) - n /\ Len(t) \in Nat
        /\ \A i \in 1 .. n : k[i] = t[i]
        /\ \A i \in 1 .. Len(t) - n : r[i] = t[i + n]
    BY <1>3, <1>4, CutFacts, LenProperties, ZenonT(60)
  <1>6. /\ nu.at = (IF c = "cmd" THEN "tcmd" ELSE "tcon")
        /\ (nu'.at = nu.at /\ r # <<>>) \/ (nu'.at \in {"assert", After(c)} /\ r = <<>>)
        /\ nu'.ev = nu.ev /\ nu'.fd = nu.fd /\ nu'.buf = nu.buf /\ nu'.tbuf = r /\ DOMAIN nu' = NuFields
    <2>1. nu.at = (IF c = "cmd" THEN "tcmd" ELSE "tcon")
      BY DEF WriteTty
    <2>2. r = Rest(nu.tbuf, NSockLen - Len(nt.tx))
      BY <1>1, <1>2, <1>3 DEF Rest
    <2>3. PICK z, a :
             /\ a = IF r # <<>> THEN nu.at
                    ELSE IF nu.nul \/ \E i \in 1 .. Len(nu.tbuf) : nu.tbuf[i] = 0 THEN "assert"
                    ELSE After(c)
             /\ nu' = [nu EXCEPT !.tbuf = r, !.nul = z, !.at = a]
      BY <2>2 DEF WriteTty
    <2>4. (a = nu.at /\ r # <<>>) \/ (a \in {"assert", After(c)} /\ r = <<>>)
      BY <2>3
    <2>5. /\ nu'.at = a /\ nu'.ev = nu.ev /\ nu'.fd = nu.fd /\ nu'.buf = nu.buf /\ nu'.tbuf = r
          /\ DOMAIN nu' = NuFields
      BY <2>3 DEF NuInv, NuTypes, NuFields
    <2> QED  BY <2>1, <2>4, <2>5
  <1>7. /\ nt'.tx = x \o k /\ nt'.in = nt.in /\ nt'.out = nt.out /\ nt'.gone = nt.gone /\ nt'.rx = nt.rx
        /\ nt'.left = nt.left /\ nt'.bleft = nt.bleft /\ DOMAIN nt' = NtFields
    BY <1>1, <1>2, <1>3 DEF WriteTty, NuInv, NuTypes, NtFields
  <1>8. AllIn(t, c) /\ \A d \in NChans : nu.buf[d] = <<>>
    BY <1>1, <1>6 DEF NuInv, BufsUsed, NChans
  <1>9. AllIn(k, c) /\ AllIn(r, c)
    <2>1. \A i \in 1 .. n : i \in 1 .. Len(t)
      BY <1>5
    <2>2. \A i \in 1 .. Len(t) - n : i + n \in 1 .. Len(t)
      BY <1>5
    <2> QED  BY <1>5, <1>8, <2>1, <2>2 DEF AllIn
  <1>10. \A d \in NChans \ {c} : NoneIn(k, d)
    <2>1. \A y : InChan(y, c) => \A d \in NChans \ {c} : ~InChan(y, d)
      BY DEF InChan, NChans
    <2> QED  BY <1>9, <2>1 DEF AllIn, NoneIn
  <1>11. After(c) \in {"con", "poll"}
    BY DEF After, NChans
  <1>12. BufsUsed'
    BY <1>6, <1>8, <1>9, <1>11 DEF BufsUsed, NChans
  <1>13. NuTypes' /\ \A d \in NChans : StillSo(d)'
    <2>1. nt'.tx \in Seq(Chars)
      BY <1>7, ConcatProperties
    <2>2. ASSUME NEW d \in NChans PROVE StillSo(d)'
      <3>1. StillSo(d)
        BY DEF NuInv
      <3> QED  BY <1>6, <1>7, <3>1 DEF StillSo
    <2> QED  BY <1>3, <1>6, <1>7, <2>1, <2>2 DEF NuInv, NuTypes
  <1>14. \A d \in NChans : Opened(d) /\ Unread(d)' = Unread(d)
    BY <1>6, <1>7 DEF Opened, Connected, Unread
  <1>15. \A d \in NChans : Part(nt.tx, d)' = Part(x, d) \o Part(k, d) /\ Part(nt.tx, d) = Part(x, d)
    <2>1. \A d \in NChans : Part(x \o k, d) = Part(x, d) \o Part(k, d)
      BY PartFacts
    <2> QED  BY <1>1, <1>7, <2>1
  <1>16. \A d \in NChans \ {c} : ChanKept(d)
    <2>1. \A d \in NChans \ {c} : Writing(d)' = Writing(d)
      BY <1>6, <1>11 DEF Writing, NChans
    <2>2. \A d \in NChans \ {c} : Part(k, d) = <<>>
      BY <1>10, PartFacts
    <2>3. \A d \in NChans : Part(x, d) \in Seq(Clean)
      BY PartFacts
    <2>4. \A d \in NChans : Part(x, d) \o <<>> = Part(x, d)
      BY <2>3, EmptyAround
    <2>5. \A d \in NChans \ {c} : Part(nt.tx, d)' = Part(nt.tx, d)
      BY <1>15, <2>2, <2>4
    <2> QED  BY <1>6, <1>7, <1>14, <2>1, <2>5, PartsKeep DEF PartsKept
  <1>17. ChanKept(c)
    <2>1. PICK p \in Seq(Clean), a \in Seq(Clean), b \in Seq(Clean), i \in Seq(Clean) :
              p = Part(x, c) /\ a = Unmark(k) /\ b = Unmark(r) /\ i = nt.in[c]
      BY PartFacts, UnmarkFacts, PartTypes DEF NuInv
    <2>2. Unmark(t) = a \o b
      BY <1>5, <2>1, UnmarkConcat
    <2>3. Writing(c) = a \o b
      BY <1>1, <1>6, <2>2 DEF Writing
    <2>4. Writing(c)' = b
      <3>1. CASE r # <<>>
        BY <1>6, <2>1, <3>1 DEF Writing
      <3>2. CASE r = <<>>
        <4>1. Writing(c)' = <<>>
          BY <1>6, <1>11, <3>2 DEF Writing
        <4>2. Len(r) = 0
          BY <3>2
        <4>3. Len(b) = 0
          BY <2>1, <4>2, UnmarkFacts
        <4>4. b = <<>>
          BY <4>3, EmptySeq
        <4> QED  BY <4>1, <4>4
      <3> QED  BY <3>1, <3>2
    <2>5. Part(k, c) = a
      BY <1>9, <2>1, PartFacts
    <2>6. UpOf(c)' = ((p \o a) \o b) \o i
      BY <1>7, <1>15, <2>1, <2>4, <2>5 DEF UpOf
    <2>7. UpOf(c) = (p \o (a \o b)) \o i
      BY <1>15, <2>1, <2>3 DEF UpOf
    <2>8. (p \o a) \o b = p \o (a \o b)
      <3>1. p \in Seq(Clean) /\ a \in Seq(Clean) /\ b \in Seq(Clean)
        BY <2>1
      <3> QED  BY <3>1, Regroup, ZenonT(60)
    <2>9. DownOf(c)' = DownOf(c)
      BY <1>6, <1>7, <1>14 DEF DownOf
    <2> QED  BY <1>14, <2>6, <2>7, <2>8, <2>9 DEF ChanKept
  <1> QED  BY <1>12, <1>13, <1>16, <1>17, Stutters DEF NuInv

LEMMA NuStep == NuInv /\ [NetUartNext]_nu_vars => NuInv' /\ Implemented
  <1> SUFFICES ASSUME NuInv, [NetUartNext]_nu_vars PROVE NuInv' /\ Implemented
    OBVIOUS
  <1>1. CASE UNCHANGED nu_vars
    <2>1. nu' = nu /\ nt' = nt
      BY <1>1 DEF nu_vars
    <2>2. NuInv'
      BY <2>1 DEF NuInv, NuTypes, BufsUsed, StillSo
    <2>3. \A c \in NChans : ChanKept(c)
      BY <2>1 DEF ChanKept, Opened, UpOf, DownOf, Part, Unread, Writing, Connected
    <2> QED  BY <2>2, <2>3, Stutters
  <1>2. CASE PollTty
    BY <1>2, PollStep
  <1>3. CASE ReadTty
    BY <1>3, ReadTtyStep
  <1>4. CASE NBoardSends
    BY <1>4, BoardSendsStep
  <1>5. CASE NBoardTakes
    BY <1>5, BoardTakesStep
  <1>6. ASSUME NEW c \in NChans, WriteClient(c) PROVE NuInv' /\ Implemented
    BY <1>6, WriteClientStep
  <1>7. ASSUME NEW c \in NChans, Serve(c) PROVE NuInv' /\ Implemented
    BY <1>7, ServeStep
  <1>8. ASSUME NEW c \in NChans, WriteTty(c) PROVE NuInv' /\ Implemented
    BY <1>8, WriteTtyStep
  <1>9. ASSUME NEW c \in NChans, NCalls(c) PROVE NuInv' /\ Implemented
    BY <1>9, CallStep
  <1>10. ASSUME NEW c \in NChans, NWrites(c) PROVE NuInv' /\ Implemented
    BY <1>10, NWritesStep
  <1>11. ASSUME NEW c \in NChans, NReads(c) PROVE NuInv' /\ Implemented
    BY <1>11, NReadsStep
  <1>12. ASSUME NEW c \in NChans, NHangsUp(c) PROVE NuInv' /\ Implemented
    BY <1>12, HangUpStep
  <1> QED  BY <1>1, <1>2, <1>3, <1>4, <1>5, <1>6, <1>7, <1>8, <1>9, <1>10, <1>11, <1>12
           DEF NetUartNext, ProxyStep

LEMMA NuStart == NetUartInit => NuInv /\ Abstract!Init
  <1> SUFFICES ASSUME NetUartInit PROVE NuInv /\ Abstract!Init
    OBVIOUS
  <1>1. nu = [at |-> "poll", ev |-> [c \in NChans |-> "none"], fd |-> [c \in NChans |-> FALSE],
              buf |-> Nothing, tbuf |-> <<>>, nul |-> FALSE]
    BY DEF NetUartInit
  <1>2. PICK t \in NTexts :
          nt = [in |-> Nothing, out |-> Nothing, calling |-> [c \in NChans |-> FALSE],
                gone |-> [c \in NChans |-> FALSE], left |-> t, text |-> t, cuts |-> 0,
                rx |-> <<>>, tx |-> <<>>, bleft |-> NBoard, bgot |-> <<>>]
    BY DEF NetUartInit
  <1>3. <<>> \in Seq(Clean) /\ <<>> \in Seq(Chars) /\ NBoard \in Seq(Chars) /\ t \in [NChans -> Seq(Clean)]
    BY NetUartAssumption, EmptySeq DEF Chars, Clean
  <1>4. Nothing \in [NChans -> Seq(Clean)]
    BY <1>3 DEF Nothing
  <1>5. /\ DOMAIN nu = NuFields /\ nu.at = "poll" /\ nu.ev \in [NChans -> {"none", "client", "listener"}]
        /\ nu.fd \in [NChans -> BOOLEAN] /\ nu.buf = Nothing /\ nu.tbuf = <<>>
        /\ \A c \in NChans : nu.ev[c] = "none" /\ nu.fd[c] = FALSE /\ nu.buf[c] = <<>>
    BY <1>1 DEF NuFields, Nothing
  <1>6. /\ DOMAIN nt = NtFields /\ nt.in = Nothing /\ nt.out = Nothing /\ nt.gone \in [NChans -> BOOLEAN]
        /\ nt.left = t /\ nt.rx = <<>> /\ nt.tx = <<>> /\ nt.bleft = NBoard
        /\ \A c \in NChans : nt.in[c] = <<>> /\ nt.out[c] = <<>> /\ nt.gone[c] = FALSE
    BY <1>2 DEF NtFields, Nothing
  <1>7. NuTypes
    BY <1>3, <1>4, <1>5, <1>6 DEF NuTypes
  <1>8. BufsUsed /\ \A c \in NChans : StillSo(c)
    BY <1>5, <1>6 DEF BufsUsed, StillSo, NChans
  <1>9. \A c \in NChans : UpOf(c) = <<>> /\ DownOf(c) = <<>> /\ Connected(c) = FALSE
    <2>1. ASSUME NEW c \in NChans PROVE UpOf(c) = <<>> /\ DownOf(c) = <<>> /\ Connected(c) = FALSE
      <3>1. Part(<<>>, c) = <<>>
        BY OfChanEmpty DEF Part, Unmark
      <3>2. Writing(c) = <<>> /\ Unread(c) = <<>> /\ Connected(c) = FALSE
        BY <1>5, <1>6 DEF Writing, Unread, Connected, NChans
      <3>3. UpOf(c) = (<<>> \o <<>>) \o <<>> /\ DownOf(c) = (<<>> \o <<>>) \o <<>>
        BY <1>5, <1>6, <3>1, <3>2 DEF UpOf, DownOf
      <3> QED  BY <1>3, <3>2, <3>3, EmptyAround
    <2> QED  BY <2>1
  <1>10. Up = [c \in NChans |-> <<>>] /\ Down = [c \in NChans |-> <<>>]
         /\ [c \in NChans |-> Connected(c)] = [c \in NChans |-> FALSE]
    BY <1>9, Views
  <1> QED  BY <1>7, <1>8, <1>10 DEF NuInv, Abstract!Init

(* The buffers of the proxy hold something only where its loop is busy with them,
   and what poll() has said of a channel is still so when that channel is served.
   main(): the loop around poll(), the sorting, the LINBUFS writes.           *)
THEOREM ProxyInvariant == NetUartSpec => []NuInv
  <1>1. NetUartInit => NuInv
    BY NuStart
  <1>2. NuInv /\ [NetUartNext]_nu_vars => NuInv'
    BY NuStep
  <1> QED  BY <1>1, <1>2, PTL DEF NetUartSpec

(* netuart implements the two channels of Channels, for every choice of texts,
   buffer and socket lengths and hang-ups: nothing of a connected client is lost,
   doubled, changed, overtaken, or given to the other channel.                *)
THEOREM NetUartKeepsChannels == NetUartSpec => ChannelsKept
  <1>1. NetUartInit => NuInv /\ Abstract!Init
    BY NuStart
  <1>2. NuInv /\ [NetUartNext]_nu_vars => NuInv' /\ [Abstract!Next]_(Abstract!cvars)
    BY NuStep DEF Implemented
  <1> QED  BY <1>1, <1>2, PTL DEF NetUartSpec, ChannelsKept, Abstract!Spec

-----------------------------------------------------------------------------
(* The loader.  What it asks of a program: the headers that have nothing in the
   file come last, no two of the others overlap, and each is in one memory, in
   RAM from its first octet on.                                               *)
Headers(p) == 1 .. Len(p)
Loads(p, h) == p[h].filesz # 0
Section(p, h) == [h |-> h, start |-> p[h].paddr, len |-> p[h].filesz]
EmptyLast(p) == \A h, g \in Headers(p) : h < g /\ Loads(p, g) => Loads(p, h)
NoOverlap(p) ==
    \A h, g \in Headers(p) : Loads(p, h) /\ Loads(p, g) /\ h # g =>
        p[h].paddr + p[h].filesz <= p[g].paddr \/ p[g].paddr + p[g].filesz <= p[h].paddr
InOneMemory(p) ==
    \A h \in Headers(p) : Loads(p, h) =>
        \E r \in ZMemories : Within(Section(p, h), r)
FromTheBase(p) ==
    \A h \in Headers(p) : Loads(p, h) =>
        \E r \in ZMemories : Within(Section(p, h), r) /\ (r = FLASH \/ p[h].paddr = r.base)
Loadable == \A p \in ZPROGRAMS : EmptyLast(p) /\ NoOverlap(p) /\ InOneMemory(p)
Simulable == \A p \in ZPROGRAMS : FromTheBase(p)

LEMMA HeaderFacts ==
    ASSUME NEW p \in ZPROGRAMS
    PROVE  /\ Len(p) \in Nat /\ Len(p) >= 1
           /\ \A h \in Headers(p) : p[h].paddr \in Nat /\ p[h].filesz \in Nat /\ p[h].paddr % ZW = 0
  <1>1. p \in Seq([paddr : Nat, filesz : Nat, memsz : Nat]) /\ p # <<>>
        /\ \A h \in 1 .. Len(p) : p[h].paddr % ZW = 0
    BY ZipLoadAssumption
  <1>2. Len(p) \in Nat /\ Len(p) >= 1 /\ \A h \in 1 .. Len(p) : p[h] \in [paddr : Nat, filesz : Nat, memsz : Nat]
    <2>1. PICK S : S = [paddr : Nat, filesz : Nat, memsz : Nat] /\ p \in Seq(S) /\ p # <<>>
      BY <1>1
    <2>2. Len(p) \in Nat /\ Len(p) >= 1 /\ \A h \in 1 .. Len(p) : p[h] \in S
      <3>1. Len(p) \in Nat /\ \A h \in 1 .. Len(p) : p[h] \in S
        BY <2>1, LenProperties, ElementOfSeq, Zenon
      <3>2. Len(p) # 0
        BY <2>1, EmptySeq, Zenon
      <3> QED  BY <3>1, <3>2
    <2> QED  BY <2>1, <2>2
  <1> QED  BY <1>1, <1>2 DEF Headers

(* Then the headers that are loaded are the first n.                          *)
LEMMA FirstLoaded ==
    ASSUME NEW p \in ZPROGRAMS, EmptyLast(p)
    PROVE  \E n \in 0 .. Len(p) : \A h \in Headers(p) : Loads(p, h) <=> h <= n
  <1>1. Len(p) \in Nat
    BY HeaderFacts
  <1>2. PICK T : T = {h \in 1 .. Len(p) + 1 : h = Len(p) + 1 \/ ~Loads(p, h)}
    OBVIOUS
  <1>3. T \in SUBSET Nat /\ T # {}
    BY <1>1, <1>2
  <1>4. PICK m \in T : \A y \in T : ~(<<y, m>> \in OpToRel(<, Nat))
    BY <1>3, NatLessThanWellFounded, WFMin
  <1>5. \A y \in T : ~(y < m)
    BY <1>3, <1>4, SmallerThan
  <1>6. m \in 1 .. Len(p) + 1 /\ (m = Len(p) + 1 \/ ~Loads(p, m))
    BY <1>2, <1>4
  <1>7. \A h \in Headers(p) : Loads(p, h) <=> h <= m - 1
    <2> SUFFICES ASSUME NEW h \in Headers(p) PROVE Loads(p, h) <=> h <= m - 1
      OBVIOUS
    <2>1. h \in 1 .. Len(p)
      BY DEF Headers
    <2>2. ASSUME h <= m - 1 PROVE Loads(p, h)
      <3>1. h \notin T
        BY <1>5, <1>6, <2>1, <2>2
      <3> QED  BY <1>1, <1>2, <2>1, <3>1
    <2>3. ASSUME h > m - 1 PROVE ~Loads(p, h)
      <3>1. m \in Headers(p) /\ ~Loads(p, m)
        BY <1>1, <1>6, <2>1, <2>3 DEF Headers
      <3>2. m < h \/ m = h
        BY <1>6, <2>1, <2>3
      <3> QED  BY <3>1, <3>2 DEF EmptyLast
    <2> QED  BY <1>6, <2>1, <2>2, <2>3
  <1>8. m - 1 \in 0 .. Len(p)
    BY <1>1, <1>6
  <1> QED  BY <1>7, <1>8

Least(i, j) == IF i <= j THEN i ELSE j

LEMMA Counted ==
    ASSUME NEW p \in ZPROGRAMS, NEW n \in 0 .. Len(p), \A h \in Headers(p) : Loads(p, h) <=> h <= n,
           NEW i \in 0 .. Len(p)
    PROVE  NonEmpty(p, i) = Least(i, n)
  <1>1. Len(p) \in Nat
    BY HeaderFacts
  <1>2. {h \in 1 .. i : p[h].filesz # 0} = 1 .. Least(i, n)
    BY <1>1 DEF Headers, Loads, Least
  <1>3. Least(i, n) \in Int /\ Least(i, n) >= 0
    BY <1>1 DEF Least
  <1>4. Cardinality(1 .. Least(i, n)) = Least(i, n)
    BY <1>3, FS_Interval
  <1> QED  BY <1>2, <1>4 DEF NonEmpty

(* elfread() gives the loader those headers, one by one.                      *)
LEMMA SectionsAre ==
    ASSUME NEW p \in ZPROGRAMS, EmptyLast(p)
    PROVE  \E n \in 0 .. Len(p) : /\ \A h \in Headers(p) : Loads(p, h) <=> h <= n
                                  /\ Sections(p) = [i \in 1 .. n |-> Section(p, i)]
  <1>1. PICK n \in 0 .. Len(p) : \A h \in Headers(p) : Loads(p, h) <=> h <= n
    BY FirstLoaded
  <1>2. Len(p) \in Nat /\ Len(p) >= 1 /\ n \in Nat /\ n <= Len(p)
    BY HeaderFacts
  <1>3. \A i \in 0 .. Len(p) : NonEmpty(p, i) = Least(i, n)
    BY <1>1, Counted
  <1>4. PICK R, K, s : R = ElfPointers(p) /\ K = ElfStructs(p) /\ s = ElfSections(p)
    OBVIOUS
  <1>5. NonEmpty(p, Len(p)) = n
    BY <1>2, <1>3 DEF Least
  <1>6. R = [i \in 1 .. Len(p) + 1 |-> Least(i - 1, n) + 1]
    <2>1. \A i \in 1 .. Len(p) + 1 : NonEmpty(p, i - 1) = Least(i - 1, n)
      BY <1>2, <1>3
    <2> QED  BY <1>4, <2>1 DEF ElfPointers
  <1>7. \A k \in 1 .. n : K[k] = Section(p, k)
    <2> SUFFICES ASSUME NEW k \in 1 .. n PROVE K[k] = Section(p, k)
      OBVIOUS
    <2>1. \A h \in 1 .. Len(p) : p[h].filesz # 0 /\ NonEmpty(p, h) = k <=> h = k
      <3> SUFFICES ASSUME NEW h \in 1 .. Len(p) PROVE p[h].filesz # 0 /\ NonEmpty(p, h) = k <=> h = k
        OBVIOUS
      <3>1. p[h].filesz # 0 <=> h <= n
        BY <1>1 DEF Headers, Loads
      <3>2. NonEmpty(p, h) = Least(h, n)
        BY <1>2, <1>3
      <3> QED  BY <1>2, <3>1, <3>2 DEF Least
    <2>2. (CHOOSE h \in 1 .. Len(p) : p[h].filesz # 0 /\ NonEmpty(p, h) = k) = k
      BY <1>2, <2>1
    <2>3. k \in 1 .. NonEmpty(p, Len(p)) + 1 /\ ~(k > NonEmpty(p, Len(p)))
      BY <1>2, <1>5
    <2> QED  BY <1>4, <2>2, <2>3 DEF ElfStructs, Section
  <1>8. K[n + 1] = [h |-> 0, start |-> 0, len |-> 0] /\ DOMAIN K = 1 .. n + 1
    <2>1. n + 1 \in 1 .. n + 1 /\ n + 1 > n
      BY <1>2
    <2> QED  BY <1>4, <1>5, <2>1 DEF ElfStructs
  <1>9. R[n + 1] = n + 1
    BY <1>2, <1>6 DEF Least
  <1>10. s = [i \in 1 .. Len(p) + 1 |-> [K EXCEPT ![n + 1] = [@ EXCEPT !.start = 0, !.len = 0]][R[i]]]
    <2>1. Len(R) = Len(p) + 1
      BY <1>2, <1>6
    <2> QED  BY <1>4, <1>5, <1>9, <2>1 DEF ElfSections
  <1>11. /\ Len(s) = Len(p) + 1
         /\ \A i \in 1 .. n : s[i] = Section(p, i)
         /\ s[n + 1].len = 0
    <2>1. \A i \in 1 .. n : R[i] = i /\ i \in DOMAIN K /\ i # n + 1 /\ i \in 1 .. Len(p) + 1
      BY <1>2, <1>6, <1>8 DEF Least
    <2>2. n + 1 \in DOMAIN K /\ n + 1 \in 1 .. Len(p) + 1
      BY <1>2, <1>8
    <2>3. \A i \in 1 .. n : s[i] = K[i]
      BY <1>10, <2>1
    <2>4. s[n + 1] = [K[n + 1] EXCEPT !.start = 0, !.len = 0]
      BY <1>9, <1>10, <2>2
    <2>5. s[n + 1].len = 0
      BY <1>8, <2>4
    <2>6. Len(s) = Len(p) + 1
      BY <1>2, <1>10
    <2> QED  BY <1>7, <2>3, <2>5, <2>6
  <1>12. \A i \in 1 .. n : s[i].len # 0
    <2> SUFFICES ASSUME NEW i \in 1 .. n PROVE s[i].len # 0
      OBVIOUS
    <2>1. Loads(p, i)
      BY <1>1, <1>2 DEF Headers
    <2>2. s[i] = Section(p, i)
      BY <1>11
    <2> QED  BY <2>1, <2>2 DEF Section, Loads
  <1>13. (CHOOSE k \in 1 .. Len(s) : s[k].len = 0 /\ \A m \in 1 .. k - 1 : s[m].len # 0) = n + 1
    <2>1. n + 1 \in 1 .. Len(s) /\ s[n + 1].len = 0 /\ \A m \in 1 .. (n + 1) - 1 : s[m].len # 0
      BY <1>2, <1>11, <1>12
    <2>2. \A k \in 1 .. Len(s) : s[k].len = 0 /\ (\A m \in 1 .. k - 1 : s[m].len # 0) => k = n + 1
      <3> SUFFICES ASSUME NEW k \in 1 .. Len(s), s[k].len = 0, \A m \in 1 .. k - 1 : s[m].len # 0 PROVE k = n + 1
        OBVIOUS
      <3>1. ~(k < n + 1)
        BY <1>2, <1>12
      <3>2. ~(n + 1 < k)
        BY <1>2, <1>11
      <3> QED  BY <1>2, <1>11, <3>1, <3>2
    <2> QED  BY <2>1, <2>2
  <1>14. Sections(p) = SubSeq(s, 1, n)
    <2>1. Sections(p) = SubSeq(s, 1, (n + 1) - 1)
      BY <1>4, <1>13, Zenon DEF Sections
    <2> QED  BY <1>2, <2>1
  <1>15. SubSeq(s, 1, n) = [i \in 1 .. n |-> Section(p, i)]
    <2>1. SubSeq(s, 1, n) = [i \in 1 .. n |-> s[i]]
      <3>1. PICK S : S = {s[i] : i \in 1 .. Len(p) + 1}
        OBVIOUS
      <3>2. s \in Seq(S)
        <4>1. s \in [1 .. Len(p) + 1 -> S]
          BY <1>10, <3>1
        <4> QED  BY <1>2, <4>1
      <3>3. /\ SubSeq(s, 1, n) \in Seq(S) /\ Len(SubSeq(s, 1, n)) = n
            /\ \A i \in 1 .. n : SubSeq(s, 1, n)[i] = s[i]
        BY <1>2, <1>11, <3>2, SubSeqProperties
      <3> QED  BY <3>3
    <2> QED  BY <1>11, <2>1
  <1> QED  BY <1>1, <1>14, <1>15

(* Memory with all of a header in it, and what a section that is stored does to
   it: the section is there, and the others stay, although its length is rounded
   up to whole words.                                                         *)
HasAll(m, p, h) == \A i \in 0 .. p[h].filesz - 1 : m[p[h].paddr + i] = <<h, i>>

LEMMA MemoryFacts ==
    /\ \A r \in ZMemories : r.base \in Nat /\ r.len \in Nat
    /\ ZApart(BKRAM, FLASH) /\ ZApart(BKRAM, SDRAM) /\ ZApart(FLASH, SDRAM)
    /\ RESET_ADDRESS \in Nat /\ FLASH.base <= RESET_ADDRESS
    /\ FLASH \in ZMemories /\ BKRAM \in ZMemories /\ SDRAM \in ZMemories
  BY ZipLoadAssumption DEF ZMemories

LEMMA SectionFacts ==
    ASSUME NEW p, NEW h
    PROVE  Section(p, h).h = h /\ Section(p, h).start = p[h].paddr /\ Section(p, h).len = p[h].filesz
  BY DEF Section

LEMMA OctetsOf ==
    ASSUME NEW p \in ZPROGRAMS, InOneMemory(p), NEW h \in Headers(p), Loads(p, h)
    PROVE  \A i \in 0 .. p[h].filesz - 1 : p[h].paddr + i \in Octets
  <1>1. PICK r \in ZMemories : Within(Section(p, h), r)
    BY Zenon DEF InOneMemory
  <1>2. p[h].paddr >= r.base /\ p[h].paddr + p[h].filesz <= r.base + r.len
    BY <1>1, SectionFacts DEF Within
  <1>3. p[h].paddr \in Nat /\ p[h].filesz \in Nat /\ r.base \in Nat /\ r.len \in Nat
    BY HeaderFacts, MemoryFacts
  <1>4. \A i \in 0 .. p[h].filesz - 1 : p[h].paddr + i \in r.base .. r.base + r.len - 1
    BY <1>2, <1>3
  <1> QED  BY <1>4 DEF Octets

LEMMA Rounded ==
    ASSUME NEW n \in Nat
    PROVE  RoundUp(n) \in Nat /\ n <= RoundUp(n) /\ \A m \in Nat : n <= ZW * m => RoundUp(n) <= ZW * m
  <1>1. ZW \in Nat \ {0}
    BY ZipLoadAssumption
  <1>2. PICK w \in Nat \ {0} : w = ZW
    BY <1>1
  <1>3. PICK q \in Nat : q = (n + w - 1) \div w /\ w * q <= n + w - 1 /\ n + w - 1 < w * q + w
    <2>1. PICK x \in Nat : x = n + w - 1
      OBVIOUS
    <2>2. PICK q \in Nat : q = x \div w
      OBVIOUS
    <2>3. w * q <= x /\ x < w * q + w
      BY <2>2
    <2> QED  BY <2>1, <2>2, <2>3
  <1>4. RoundUp(n) = w * q /\ w * q \in Nat
    BY <1>2, <1>3 DEF RoundUp
  <1>5. n <= w * q
    BY <1>3, <1>4
  <1>6. ASSUME NEW m \in Nat, n <= w * m PROVE w * q <= w * m
    <2>1. w * m \in Nat /\ w * (m + 1) = w * m + w
      OBVIOUS
    <2>2. w * q < w * (m + 1)
      BY <1>3, <1>4, <1>6, <2>1
    <2>3. q < m + 1
      BY <2>2, SMTT(30)
    <2>4. q <= m
      BY <2>3
    <2> QED  BY <2>4, SMTT(30)
  <1> QED  BY <1>2, <1>4, <1>5, <1>6

LEMMA Neighbour ==
    ASSUME NEW p \in ZPROGRAMS, NoOverlap(p), NEW h \in Headers(p), Loads(p, h), NEW g \in Headers(p), Loads(p, g),
           g # h, NEW i \in 0 .. p[g].filesz - 1
    PROVE  p[g].paddr + i < p[h].paddr \/ p[g].paddr + i >= p[h].paddr + RoundUp(p[h].filesz)
  <1>1. PICK a \in Nat, b \in Nat, l \in Nat, k \in Nat :
          a = p[h].paddr /\ b = p[g].paddr /\ l = p[h].filesz /\ k = p[g].filesz /\ a % ZW = 0 /\ b % ZW = 0
    BY HeaderFacts
  <1>2. a + l <= b \/ b + k <= a
    BY <1>1 DEF NoOverlap
  <1>3. CASE b + k <= a
    BY <1>1, <1>3
  <1>4. CASE a + l <= b
    <2>1. PICK w \in Nat \ {0} : w = ZW
      BY ZipLoadAssumption
    <2>2. a = w * (a \div w) /\ b = w * (b \div w) /\ a \div w \in Nat /\ b \div w \in Nat
      BY <1>1, <2>1
    <2>3. PICK s \in Nat, t \in Nat : a = w * s /\ b = w * t
      BY <2>2
    <2>4. l <= b - a /\ b - a \in Nat
      BY <1>4
    <2>5. b - a = w * (t - s) /\ t - s \in Nat
      <3>1. w * t - w * s = w * (t - s)
        OBVIOUS
      <3>2. s <= t
        <4>1. w * s <= w * t
          BY <2>3, <2>4
        <4> QED  BY <4>1, SMTT(30)
      <3> QED  BY <2>3, <3>1, <3>2
    <2>6. PICK m \in Nat : b - a = w * m
      BY <2>5
    <2>7. RoundUp(l) <= b - a /\ RoundUp(l) \in Nat
      BY <2>1, <2>4, <2>6, Rounded
    <2> QED  BY <1>1, <2>7
  <1> QED  BY <1>2, <1>3, <1>4

LEMMA SectionStored ==
    ASSUME NEW p \in ZPROGRAMS, NoOverlap(p), InOneMemory(p), NEW h \in Headers(p), Loads(p, h), NEW m,
           NEW n \in Int, p[h].filesz <= n, n <= RoundUp(p[h].filesz)
    PROVE  /\ HasAll(Stored(m, Section(p, h), n), p, h)
           /\ \A g \in Headers(p) : Loads(p, g) /\ g # h /\ HasAll(m, p, g) => HasAll(Stored(m, Section(p, h), n), p, g)
  <1>1. PICK s : s = Section(p, h) /\ s.h = h /\ s.start = p[h].paddr /\ s.len = p[h].filesz
    BY SectionFacts
  <1>2. p[h].paddr \in Nat /\ p[h].filesz \in Nat /\ RoundUp(p[h].filesz) \in Nat
    BY HeaderFacts, Rounded
  <1>3. \A a \in Octets : Stored(m, s, n)[a] = IF a \in s.start .. s.start + n - 1 THEN Octet(s, a - s.start) ELSE m[a]
    BY DEF Stored
  <1>4. ASSUME NEW i \in 0 .. p[h].filesz - 1 PROVE Stored(m, s, n)[p[h].paddr + i] = <<h, i>>
    <2>1. p[h].paddr + i \in Octets
      BY OctetsOf
    <2>2. p[h].paddr + i \in s.start .. s.start + n - 1 /\ (p[h].paddr + i) - s.start = i
      BY <1>1, <1>2
    <2>3. Octet(s, i) = <<h, i>>
      BY <1>1, <1>2 DEF Octet
    <2> QED  BY <1>3, <2>1, <2>2, <2>3
  <1>5. ASSUME NEW g \in Headers(p), Loads(p, g), g # h, NEW i \in 0 .. p[g].filesz - 1
        PROVE  Stored(m, s, n)[p[g].paddr + i] = m[p[g].paddr + i]
    <2>1. p[g].paddr + i \in Octets /\ p[g].paddr \in Nat
      BY <1>5, OctetsOf, HeaderFacts
    <2>2. p[g].paddr + i < p[h].paddr \/ p[g].paddr + i >= p[h].paddr + RoundUp(p[h].filesz)
      BY <1>5, Neighbour
    <2>3. ~(p[g].paddr + i \in s.start .. s.start + n - 1)
      BY <1>1, <1>2, <2>1, <2>2
    <2> QED  BY <1>3, <2>1, <2>3
  <1>6. HasAll(Stored(m, s, n), p, h)
    BY <1>4 DEF HasAll
  <1>7. ASSUME NEW g \in Headers(p), Loads(p, g), g # h, HasAll(m, p, g) PROVE HasAll(Stored(m, s, n), p, g)
    BY <1>5, <1>7 DEF HasAll
  <1> QED  BY <1>1, <1>6, <1>7

(* The same of the simulation, whose memories take a section as it is.        *)
LEMMA SectionSimulated ==
    ASSUME NEW p \in ZPROGRAMS, NoOverlap(p), InOneMemory(p), FromTheBase(p), NEW h \in Headers(p), Loads(p, h), NEW m
    PROVE  /\ HasAll(SimStored(m, Section(p, h)), p, h)
           /\ \A g \in Headers(p) : Loads(p, g) /\ g # h /\ HasAll(m, p, g) => HasAll(SimStored(m, Section(p, h)), p, g)
  <1>1. PICK s : s = Section(p, h) /\ s.h = h /\ s.start = p[h].paddr /\ s.len = p[h].filesz
    BY SectionFacts
  <1>2. p[h].paddr \in Nat /\ p[h].filesz \in Nat /\ p[h].filesz > 0
    BY HeaderFacts DEF Loads
  <1>3. PICK r \in ZMemories : Within(s, r) /\ (r = FLASH \/ p[h].paddr = r.base)
    BY <1>1, Zenon DEF FromTheBase
  <1>4. r.base \in Nat /\ r.len \in Nat /\ s.start >= r.base /\ s.start + s.len <= r.base + r.len
    BY <1>3, MemoryFacts DEF Within
  <1>5. ASSUME NEW a \in Nat, a >= r.base, a < r.base + r.len, NEW t \in Region(a)
        PROVE  t.base = r.base /\ t.len = r.len /\ (t = FLASH <=> r = FLASH)
    <2>1. t \in ZMemories /\ a >= t.base /\ a < t.base + t.len /\ t.base \in Nat /\ t.len \in Nat
      BY <1>5, MemoryFacts DEF Region
    <2>2. ~ZApart(t, r) /\ ~ZApart(r, t)
      BY <1>4, <1>5, <2>1 DEF ZApart
    <2>3. t = r
      BY <1>3, <2>1, <2>2, MemoryFacts DEF ZMemories
    <2> QED  BY <2>3
  <1>6. \A i \in 0 .. s.len - 1 : s.start + i \in Nat /\ s.start + i >= r.base /\ s.start + i < r.base + r.len
    BY <1>1, <1>2, <1>4
  <1>7. \A i \in 0 .. s.len - 1 : r \in Region(s.start + i)
    BY <1>3, <1>4, <1>6 DEF Region
  <1>8. \A i \in 0 .. s.len - 1, t \in Region(s.start) : SimPlace(t, s.start - t.base, i) = s.start + i
    <2> SUFFICES ASSUME NEW i \in 0 .. s.len - 1, NEW t \in Region(s.start)
                 PROVE  SimPlace(t, s.start - t.base, i) = s.start + i
      OBVIOUS
    <2>1. s.start \in Nat /\ s.start >= r.base /\ s.start < r.base + r.len
      BY <1>1, <1>2, <1>4
    <2>2. t.base = r.base /\ (t = FLASH <=> r = FLASH)
      BY <1>5, <2>1
    <2>3. CASE r = FLASH
      BY <1>4, <2>1, <2>2, <2>3 DEF SimPlace
    <2>4. CASE r # FLASH
      <3>1. s.start - t.base = 0 /\ s.start = r.base
        BY <1>1, <1>3, <1>4, <2>2, <2>4
      <3>2. ZW * 0 = 0
        BY ZipLoadAssumption
      <3> QED  BY <1>4, <2>2, <2>4, <3>1, <3>2 DEF SimPlace
    <2> QED  BY <2>3, <2>4
  <1>9. \A a \in Octets : SimStored(m, s)[a] =
             LET hit == {i \in 0 .. s.len - 1 :
                           \E t \in Region(s.start) : /\ s.start + i < t.base + t.len
                                                      /\ a = SimPlace(t, s.start - t.base, i) /\ t \in Region(a)}
             IN  IF hit = {} THEN m[a] ELSE <<s.h, CHOOSE i \in hit : TRUE>>
    BY DEF SimStored
  <1>10. ASSUME NEW i \in 0 .. p[h].filesz - 1 PROVE SimStored(m, s)[p[h].paddr + i] = <<h, i>>
    <2>1. PICK a : a = p[h].paddr + i /\ a \in Octets /\ a = s.start + i
      BY <1>1, OctetsOf
    <2>2. PICK H : H = {j \in 0 .. s.len - 1 : \E t \in Region(s.start) :
                          /\ s.start + j < t.base + t.len
                          /\ a = SimPlace(t, s.start - t.base, j) /\ t \in Region(a)}
      OBVIOUS
    <2>3. \A j \in H : j = i
      BY <1>1, <1>2, <1>8, <2>1, <2>2
    <2>4. i \in H
      <3>1. i \in 0 .. s.len - 1 /\ 0 \in 0 .. s.len - 1 /\ s.start + 0 = s.start
        BY <1>1, <1>2
      <3>2. r \in Region(s.start) /\ r \in Region(a)
        BY <1>7, <2>1, <3>1
      <3>3. s.start + i < r.base + r.len /\ a = SimPlace(r, s.start - r.base, i)
        BY <1>6, <1>8, <2>1, <3>1, <3>2
      <3> QED  BY <2>2, <3>1, <3>2, <3>3
    <2>5. (CHOOSE j \in H : TRUE) = i /\ H # {}
      BY <2>3, <2>4
    <2>6. SimStored(m, s)[a] = IF H = {} THEN m[a] ELSE <<s.h, CHOOSE j \in H : TRUE>>
      BY <1>9, <2>1, <2>2, Zenon
    <2> QED  BY <1>1, <2>1, <2>5, <2>6
  <1>11. ASSUME NEW g \in Headers(p), Loads(p, g), g # h, NEW i \in 0 .. p[g].filesz - 1
         PROVE  SimStored(m, s)[p[g].paddr + i] = m[p[g].paddr + i]
    <2>1. PICK a \in Nat : a = p[g].paddr + i /\ a \in Octets
      BY <1>11, OctetsOf, HeaderFacts
    <2>2. a < p[h].paddr \/ a >= p[h].paddr + RoundUp(p[h].filesz)
      BY <1>11, <2>1, Neighbour
    <2>3. RoundUp(p[h].filesz) \in Nat /\ p[h].filesz <= RoundUp(p[h].filesz)
      BY <1>2, Rounded
    <2>4. PICK H : H = {j \in 0 .. s.len - 1 : \E t \in Region(s.start) :
                          /\ s.start + j < t.base + t.len
                          /\ a = SimPlace(t, s.start - t.base, j) /\ t \in Region(a)}
      OBVIOUS
    <2>5. \A j \in 0 .. s.len - 1 : a # s.start + j
      BY <1>1, <1>2, <2>2, <2>3
    <2>6. H = {}
      BY <1>8, <2>4, <2>5
    <2>7. SimStored(m, s)[a] = IF H = {} THEN m[a] ELSE <<s.h, CHOOSE j \in H : TRUE>>
      BY <1>9, <2>1, <2>4, Zenon
    <2> QED  BY <2>1, <2>6, <2>7
  <1>12. HasAll(SimStored(m, s), p, h)
    BY <1>10 DEF HasAll
  <1>13. ASSUME NEW g \in Headers(p), Loads(p, g), g # h, HasAll(m, p, g) PROVE HasAll(SimStored(m, s), p, g)
    BY <1>11, <1>13 DEF HasAll
  <1> QED  BY <1>1, <1>12, <1>13

(* A header that the loader has dealt with: in RAM it is in memory; for the flash
   it is in the buffer, within what is to be written.                         *)
InRam(p, h) == Within(Section(p, h), SDRAM) \/ Within(Section(p, h), BKRAM)
InBuffer(f, c, p, h) == /\ HasAll(f, p, h) /\ RESET_ADDRESS <= p[h].paddr
                        /\ p[h].paddr + p[h].filesz <= RESET_ADDRESS + c
Placed(m, f, c, p, h) == IF InRam(p, h) THEN HasAll(m, p, h) ELSE InBuffer(f, c, p, h)
AllThere(m, p) == \A h \in Headers(p) : Loads(p, h) => HasAll(m, p, h)

(* The loop of zipload: of the n headers that are loaded it has dealt with k.  *)
FirstAre(p, n) == n \in 0 .. Len(p) /\ \A h \in Headers(p) : Loads(p, h) <=> h <= n
Untouched(p, n, k) == [i \in 1 .. n - k |-> Section(p, k + i)]
FitsFlash(c) == c \in Nat /\ (c = 0 \/ RESET_ADDRESS + c <= FLASH.base + FLASH.len)
Underway(p, td, m, f, c, n, k) ==
    /\ FirstAre(p, n) /\ k \in 0 .. n /\ td = Untouched(p, n, k)
    /\ \A h \in 1 .. n : ValidSection(Section(p, h))
    /\ \A h \in 1 .. k : Placed(m, f, c, p, h)
    /\ FitsFlash(c)
Written(p, td, m, f, c) == \E n, k : Underway(p, td, m, f, c, n, k)

(* The loop of main_tb, before its section j.                                 *)
SimWritten(m, p, j) == j \in Nat \ {0} /\ \A h \in Headers(p) : Loads(p, h) /\ h < j => HasAll(m, p, h)

(* The types; and what holds where.                                           *)
ZStates == {"none", "version", "halt", "elf", "write", "flash", "recheck", "regs", "start", "sim", "simstart", "exit"}
ZlFields == {"at", "status", "prog", "go", "held", "n", "todo", "fbuf", "entry", "startaddr", "codelen"}
ZmFields == {"mem", "halted", "cached", "regs"}
ToldOf(l) == DOMAIN l = ZlFields /\ l.prog \in ZPROGRAMS
LoaderOK(l) == l.at \in ZStates /\ (l.at # "none" => ToldOf(l))
MachineOK(m) == DOMAIN m = ZmFields /\ DOMAIN m.regs = ZREGS
LoadTypes == LoaderOK(zl) /\ MachineOK(zm)
Start(e) == [r \in ZREGS |-> IF r = "sPC" THEN e ELSE 0]
Stopped == {"elf", "write", "flash", "recheck", "regs", "start", "sim", "simstart"}
LoadStages ==
    /\ zl.at \in {"version", "halt"} => zl.held = FALSE
    /\ zl.at \in Stopped => zm.halted = TRUE
    /\ zl.at \in {"write", "flash"} => /\ Written(zl.prog, zl.todo, zm.mem, zl.fbuf, zl.codelen)
                                       /\ zl.startaddr = RESET_ADDRESS
    /\ zl.at = "flash" => zl.todo = <<>>
    /\ zl.at \in {"recheck", "regs", "start", "simstart"} => AllThere(zm.mem, zl.prog)
    /\ zl.at = "start" => zm.cached = FALSE /\ zm.regs = Start(zl.entry)
    /\ zl.at \in {"sim", "simstart"} => zm.cached = FALSE /\ zm.regs = [r \in ZREGS |-> 0]
    /\ zl.at = "sim" => SimWritten(zm.mem, zl.prog, zl.n)
LoadInv == LoadTypes /\ LoadStages /\ LoaderRight

LEMMA AllThereIs ==
    ASSUME NEW p \in ZPROGRAMS, NEW m
    PROVE  AllThere(m, p) <=> \A h \in Wanted(p) : \A i \in 0 .. p[h].filesz - 1 : m[p[h].paddr + i] = <<h, i>>
  <1>1. \A h \in Headers(p) : Loads(p, h) <=> h \in Wanted(p)
    <2>1. \A h \in Headers(p) : p[h].filesz \in Nat
      BY HeaderFacts
    <2> QED  BY <2>1 DEF Loads, Wanted, Headers
  <1>2. \A h \in Wanted(p) : h \in Headers(p)
    BY DEF Wanted, Headers
  <1> QED  BY <1>1, <1>2 DEF AllThere, HasAll

(* A section that the file has, in one memory and valid, is in RAM or in the part
   of the flash that the loader may write.                                    *)
LEMMA WhereItGoes ==
    ASSUME NEW p \in ZPROGRAMS, InOneMemory(p), NEW h \in Headers(p), Loads(p, h)
    PROVE  /\ ~InRam(p, h) => Within(Section(p, h), FLASH)
           /\ InRam(p, h) => \A i \in 0 .. p[h].filesz - 1 :
                                p[h].paddr + i < FLASH.base \/ p[h].paddr + i >= FLASH.base + FLASH.len
  <1>1. ~InRam(p, h) => Within(Section(p, h), FLASH)
    BY Zenon DEF InOneMemory, ZMemories, InRam
  <1>2. ASSUME InRam(p, h), NEW i \in 0 .. p[h].filesz - 1
        PROVE  p[h].paddr + i < FLASH.base \/ p[h].paddr + i >= FLASH.base + FLASH.len
    <2>1. PICK r \in {SDRAM, BKRAM} : Within(Section(p, h), r)
      BY <1>2 DEF InRam
    <2>2. /\ r.base \in Nat /\ r.len \in Nat /\ FLASH.base \in Nat /\ FLASH.len \in Nat
          /\ r.base + r.len <= FLASH.base \/ FLASH.base + FLASH.len <= r.base
      BY <2>1, MemoryFacts DEF ZApart
    <2>3. p[h].paddr \in Nat /\ p[h].filesz \in Nat
      BY HeaderFacts
    <2>4. p[h].paddr >= r.base /\ p[h].paddr + p[h].filesz <= r.base + r.len
      BY <2>1, SectionFacts DEF Within
    <2> QED  BY <1>2, <2>2, <2>3, <2>4
  <1> QED  BY <1>1, <1>2

LEMMA LoadStart == ZipLoadInit => LoadInv
  <1> SUFFICES ASSUME ZipLoadInit PROVE LoadInv
    OBVIOUS
  <1>1. zl.at = "none" /\ DOMAIN zm = ZmFields /\ DOMAIN zm.regs = ZREGS
    BY DEF ZipLoadInit, ZmFields
  <1>2. LoadTypes
    BY <1>1 DEF LoadTypes, LoaderOK, MachineOK, ZStates
  <1>3. LoadStages
    BY <1>1 DEF LoadStages, Stopped
  <1> QED  BY <1>1, <1>2, <1>3
    DEF LoadInv, LoaderRight, LoadedIsComplete, RunsOnlyComplete

(* Whoever leaves with a failure leaves the processor as it is: halted, if it had
   been halted.                                                               *)
LEMMA LeaveStep ==
    ASSUME LoadInv, zl.at \notin {"none", "exit"}, zl' = ZExit("failed"),
           DOMAIN zm' = DOMAIN zm, DOMAIN zm'.regs = DOMAIN zm.regs, zm'.halted = zm.halted
    PROVE  LoadInv'
  <1>1. /\ zl.at \in ZStates /\ DOMAIN zl = ZlFields /\ zl.prog \in ZPROGRAMS
        /\ DOMAIN zm = ZmFields /\ DOMAIN zm.regs = ZREGS
    BY DEF LoadInv, LoadTypes, LoaderOK, ToldOf, MachineOK
  <1>2. /\ zl'.at = "exit" /\ zl'.status = "failed" /\ DOMAIN zl' = ZlFields
        /\ zl'.prog = zl.prog /\ zl'.held = zl.held
    BY <1>1 DEF ZExit, ZlFields
  <1>3. zl.held = FALSE \/ zm.halted = TRUE
    BY <1>1 DEF LoadInv, LoadStages, Stopped, ZStates
  <1>4. LoadTypes'
    BY <1>1, <1>2 DEF LoadTypes, LoaderOK, MachineOK, ToldOf, ZStates
  <1>5. LoadStages'
    BY <1>2 DEF LoadStages, Stopped
  <1>6. LoaderRight'
    BY <1>2, <1>3 DEF LoaderRight, LoadedIsComplete, RunsOnlyComplete
  <1> QED  BY <1>4, <1>5, <1>6 DEF LoadInv

(* The same, of a step that is named by what it does to the two records.      *)
LEMMA ToldFacts ==
    ASSUME LoadInv, zl.at # "none"
    PROVE  /\ zl.at \in ZStates /\ DOMAIN zl = ZlFields /\ zl.prog \in ZPROGRAMS
           /\ DOMAIN zm = ZmFields /\ DOMAIN zm.regs = ZREGS
  BY DEF LoadInv, LoadTypes, LoaderOK, ToldOf, MachineOK

LEMMA BusErrorStep == ASSUME LoadInv, BusError PROVE LoadInv'
  <1>1. zl.at \notin {"none", "exit"} /\ zl' = ZExit("failed") /\ zm' = zm
    BY DEF BusError
  <1> QED  BY <1>1, LeaveStep

LEMMA KillStep == ASSUME LoadInv, ZKill PROVE LoadInv'
  <1>1. zl.at \notin {"none", "exit"} /\ zl' = ZExit("failed") /\ zm' = zm
    BY DEF ZKill
  <1> QED  BY <1>1, LeaveStep

LEMMA BeginStep == ASSUME LoadInv, ZBegin PROVE LoadInv'
  <1>1. PICK p \in ZPROGRAMS, go \in BOOLEAN, sim \in BOOLEAN :
         /\ zl' = [at |-> IF sim THEN "sim" ELSE "version", status |-> "", prog |-> p, go |-> go,
                   held |-> sim, n |-> 1, todo |-> <<>>, fbuf |-> <<>>, entry |-> p[1].paddr,
                   startaddr |-> 0, codelen |-> 0]
         /\ zm' = IF sim THEN [zm EXCEPT !.halted = TRUE, !.cached = FALSE,
                                         !.regs = [r \in ZREGS |-> 0]]
                  ELSE zm
    BY DEF ZBegin
  <1>2. DOMAIN zm = ZmFields /\ DOMAIN zm.regs = ZREGS
    BY DEF LoadInv, LoadTypes, MachineOK
  <1>3. zl'.status = "" /\ zl'.prog = p /\ zl'.n = 1 /\ DOMAIN zl' = ZlFields
    BY <1>1 DEF ZlFields
  <1>4. CASE sim = TRUE
    <2>1. /\ zl'.at = "sim" /\ zm'.halted = TRUE /\ zm'.cached = FALSE
          /\ zm'.regs = [r \in ZREGS |-> 0] /\ DOMAIN zm' = ZmFields
      BY <1>1, <1>2, <1>4 DEF ZmFields
    <2>2. SimWritten(zm'.mem, zl'.prog, zl'.n)
      <3>1. \A h \in Headers(p) : ~(h < 1)
        BY HeaderFacts DEF Headers
      <3>2. \A m : SimWritten(m, p, 1)
        BY <3>1 DEF SimWritten
      <3> QED  BY <1>3, <3>2
    <2>3. LoadTypes'
      BY <1>3, <2>1 DEF LoadTypes, LoaderOK, MachineOK, ToldOf, ZStates
    <2>4. LoadStages'
      BY <2>1, <2>2 DEF LoadStages, Stopped
    <2>5. LoaderRight'
      BY <2>1 DEF LoaderRight, LoadedIsComplete, RunsOnlyComplete
    <2> QED  BY <2>3, <2>4, <2>5 DEF LoadInv
  <1>5. CASE sim = FALSE
    <2>1. zl'.at = "version" /\ zm' = zm /\ zl'.held = FALSE
      BY <1>1, <1>5
    <2>2. LoadTypes'
      BY <1>2, <1>3, <2>1 DEF LoadTypes, LoaderOK, MachineOK, ToldOf, ZStates
    <2>3. LoadStages'
      BY <2>1 DEF LoadStages, Stopped
    <2>4. LoaderRight'
      BY <2>1 DEF LoaderRight, LoadedIsComplete, RunsOnlyComplete
    <2> QED  BY <2>2, <2>3, <2>4 DEF LoadInv
  <1> QED  BY <1>4, <1>5

LEMMA VersionStep == ASSUME LoadInv, Version PROVE LoadInv'
  <1>1. zl.at = "version" /\ zl' = [zl EXCEPT !.at = "halt"] /\ zm' = zm
    BY DEF Version
  <1>2. zl.held = FALSE /\ zl.at # "none"
    BY <1>1 DEF LoadInv, LoadStages
  <1>3. zl'.at = "halt" /\ zl'.held = FALSE /\ zl'.prog = zl.prog /\ DOMAIN zl' = ZlFields
    BY <1>1, <1>2, ToldFacts DEF ZlFields
  <1>4. LoadTypes'
    BY <1>1, <1>2, <1>3, ToldFacts DEF LoadTypes, LoaderOK, MachineOK, ToldOf, ZStates
  <1>5. LoadStages'
    BY <1>3 DEF LoadStages, Stopped
  <1>6. LoaderRight'
    BY <1>3 DEF LoaderRight, LoadedIsComplete, RunsOnlyComplete
  <1> QED  BY <1>4, <1>5, <1>6 DEF LoadInv

LEMMA HaltStep == ASSUME LoadInv, HaltCPU PROVE LoadInv'
  <1>1. /\ zl.at = "halt" /\ zl' = [zl EXCEPT !.at = "elf", !.held = TRUE]
        /\ zm' = [zm EXCEPT !.halted = TRUE, !.regs["sPC"] = RESET_ADDRESS]
    BY DEF HaltCPU
  <1>2. zl'.at = "elf" /\ zl'.prog = zl.prog /\ DOMAIN zl' = ZlFields
    BY <1>1, ToldFacts DEF ZlFields
  <1>3. zm'.halted = TRUE /\ DOMAIN zm' = ZmFields
    BY <1>1, ToldFacts DEF ZmFields
  <1>4. DOMAIN zm'.regs = ZREGS
    <2>1. zm'.regs = [zm.regs EXCEPT !["sPC"] = RESET_ADDRESS]
      BY <1>1, ToldFacts DEF ZmFields
    <2> QED  BY <1>1, <2>1, ToldFacts
  <1>5. LoadTypes'
    BY <1>1, <1>2, <1>3, <1>4, ToldFacts
    DEF LoadTypes, LoaderOK, MachineOK, ToldOf, ZStates
  <1>6. LoadStages'
    BY <1>2, <1>3 DEF LoadStages, Stopped
  <1>7. LoaderRight'
    BY <1>2, <1>3 DEF LoaderRight, LoadedIsComplete, RunsOnlyComplete
  <1> QED  BY <1>5, <1>6, <1>7 DEF LoadInv

LEMMA ReadElfStep == ASSUME LoadInv, ReadElf, Loadable PROVE LoadInv'
  <1>1. PICK ss : /\ zl.at = "elf" /\ zm' = zm /\ ss = Sections(zl.prog)
                  /\ zl' = IF \A i \in 1 .. Len(ss) : ValidSection(ss[i])
                           THEN [zl EXCEPT !.at = "write", !.todo = ss,
                                 !.fbuf = [a \in Octets |-> Blank],
                                 !.startaddr = RESET_ADDRESS, !.codelen = 0]
                           ELSE ZExit("failed")
    BY DEF ReadElf
  <1>2. PICK p : p = zl.prog /\ p \in ZPROGRAMS /\ EmptyLast(p)
    BY <1>1, ToldFacts DEF Loadable
  <1>3. PICK n \in 0 .. Len(p) : /\ \A h \in Headers(p) : Loads(p, h) <=> h <= n
                                 /\ ss = [i \in 1 .. n |-> Section(p, i)]
    BY <1>1, <1>2, SectionsAre
  <1>4. CASE ~(\A i \in 1 .. Len(ss) : ValidSection(ss[i]))
    <2>1. zl' = ZExit("failed") /\ zl.at \notin {"none", "exit"}
      BY <1>1, <1>4
    <2> QED  BY <1>1, <2>1, LeaveStep
  <1>5. CASE \A i \in 1 .. Len(ss) : ValidSection(ss[i])
    <2>1. zl' = [zl EXCEPT !.at = "write", !.todo = ss, !.fbuf = [a \in Octets |-> Blank],
                           !.startaddr = RESET_ADDRESS, !.codelen = 0]
      BY <1>1, <1>5
    <2>2. /\ zl'.at = "write" /\ zl'.prog = p /\ zl'.todo = ss /\ zl'.startaddr = RESET_ADDRESS
          /\ zl'.codelen = 0 /\ DOMAIN zl' = ZlFields
      BY <1>1, <1>2, <2>1, ToldFacts DEF ZlFields
    <2>3. zm.halted = TRUE
      BY <1>1 DEF LoadInv, LoadStages, Stopped
    <2>4. Len(p) \in Nat /\ Len(ss) = n
      BY <1>2, <1>3, HeaderFacts
    <2>5. Underway(p, ss, zm.mem, zl'.fbuf, 0, n, 0)
      <3>1. FirstAre(p, n)
        BY <1>3 DEF FirstAre
      <3>2. ss = Untouched(p, n, 0) /\ 0 \in 0 .. n
        BY <1>3, <2>4 DEF Untouched
      <3>3. \A h \in 1 .. n : ValidSection(Section(p, h))
        <4>1. \A h \in 1 .. n : ss[h] = Section(p, h)
          BY <1>3
        <4> QED  BY <1>5, <2>4, <4>1, Zenon
      <3>4. FitsFlash(0)
        BY DEF FitsFlash
      <3>5. \A h \in 1 .. 0 : Placed(zm.mem, zl'.fbuf, 0, p, h)
        OBVIOUS
      <3> QED  BY <3>1, <3>2, <3>3, <3>4, <3>5, Zenon DEF Underway
    <2>6. Written(zl'.prog, zl'.todo, zm'.mem, zl'.fbuf, zl'.codelen)
      <3>1. Written(p, ss, zm.mem, zl'.fbuf, 0)
        BY <2>5, Zenon DEF Written
      <3> QED  BY <1>1, <2>2, <3>1
    <2>7. LoadTypes'
      BY <1>1, <1>2, <2>2, ToldFacts DEF LoadTypes, LoaderOK, MachineOK, ToldOf, ZStates
    <2>8. LoadStages'
      BY <1>1, <2>2, <2>3, <2>6 DEF LoadStages, Stopped
    <2>9. LoaderRight'
      BY <1>1, <2>2, <2>3 DEF LoaderRight, LoadedIsComplete, RunsOnlyComplete
    <2> QED  BY <2>7, <2>8, <2>9 DEF LoadInv
  <1> QED  BY <1>4, <1>5

(* A section goes to RAM, or joins the others for the flash.                  *)
LEMMA WriteSectionStep == ASSUME LoadInv, WriteSection, Loadable PROVE LoadInv'
  <1>1. zl.at = "write" /\ zl.todo # <<>>
    BY DEF WriteSection
  <1>2. PICK p : p = zl.prog /\ p \in ZPROGRAMS /\ NoOverlap(p) /\ InOneMemory(p)
    BY <1>1, ToldFacts DEF Loadable
  <1>3. PICK n, k : Underway(p, zl.todo, zm.mem, zl.fbuf, zl.codelen, n, k)
    BY <1>1, <1>2, Zenon DEF LoadInv, LoadStages, Written
  <1>4. zl.startaddr = RESET_ADDRESS /\ zm.halted = TRUE
    BY <1>1 DEF LoadInv, LoadStages, Stopped
  <1>5. /\ Len(p) \in Nat /\ n \in 0 .. Len(p) /\ k \in 0 .. n
        /\ \A h \in Headers(p) : Loads(p, h) <=> h <= n
        /\ zl.todo = Untouched(p, n, k)
        /\ \A h \in 1 .. n : ValidSection(Section(p, h))
        /\ \A h \in 1 .. k : Placed(zm.mem, zl.fbuf, zl.codelen, p, h)
        /\ FitsFlash(zl.codelen)
    BY <1>2, <1>3, HeaderFacts DEF Underway, FirstAre
  <1>6. k < n
    <2>1. ASSUME k = n PROVE FALSE
      <3>1. zl.todo = [i \in 1 .. 0 |-> Section(p, k + i)]
        BY <1>5, <2>1 DEF Untouched
      <3> QED  BY <1>1, <3>1
    <2> QED  BY <1>5, <2>1
  <1>7. PICK h \in Headers(p) : h = k + 1 /\ h \in 1 .. n /\ Loads(p, h)
    BY <1>5, <1>6 DEF Headers
  <1>8. PICK s : s = Section(p, h) /\ s.h = h /\ s.start = p[h].paddr /\ s.len = p[h].filesz
    BY SectionFacts
  <1>9. Head(zl.todo) = s /\ Tail(zl.todo) = Untouched(p, n, k + 1) /\ k + 1 \in 0 .. n
    <2>1. Len(zl.todo) = n - k /\ zl.todo = [i \in 1 .. n - k |-> Section(p, k + i)] /\ n - k \in Nat \ {0}
      BY <1>5, <1>6 DEF Untouched
    <2>2. Head(zl.todo) = Section(p, k + 1)
      BY <2>1
    <2>3. Tail(zl.todo) = [i \in 1 .. (n - k) - 1 |-> zl.todo[i + 1]]
      BY <2>1
    <2>4. Untouched(p, n, k + 1) = [i \in 1 .. n - (k + 1) |-> Section(p, (k + 1) + i)]
      BY DEF Untouched
    <2>5. n - (k + 1) = (n - k) - 1
      BY <1>5
    <2>6. ASSUME NEW i \in 1 .. (n - k) - 1 PROVE zl.todo[i + 1] = Section(p, (k + 1) + i)
      <3>1. i + 1 \in 1 .. n - k /\ k + (i + 1) = (k + 1) + i
        BY <1>5
      <3> QED  BY <2>1, <3>1
    <2>7. Tail(zl.todo) = Untouched(p, n, k + 1)
      BY <2>3, <2>4, <2>5, <2>6
    <2> QED  BY <1>5, <1>6, <1>7, <1>8, <2>2, <2>7
  <1>10. /\ p[h].paddr \in Nat /\ p[h].filesz \in Nat /\ RoundUp(s.len) \in Nat
         /\ p[h].filesz <= RoundUp(s.len)
    BY <1>2, <1>8, HeaderFacts, Rounded
  <1>11. \A g \in 1 .. k : g \in Headers(p) /\ Loads(p, g) /\ g # h
    BY <1>5, <1>7 DEF Headers
  <1>12. ValidSection(s)
    BY <1>5, <1>7, <1>8
  <1>13. \A g \in 1 .. k + 1 : g \in 1 .. k \/ g = h
    BY <1>5, <1>7
  <1>14. CASE InRam(p, h)
    <2>1. PICK z \in 0 .. RoundUp(s.len) :
            /\ zm' = [zm EXCEPT !.mem = Stored(@, s, z), !.cached = TRUE]
            /\ zl' = IF z = RoundUp(s.len) THEN [zl EXCEPT !.todo = Tail(@)]
                     ELSE ZExit("failed")
      <3>1. Within(s, SDRAM) \/ Within(s, BKRAM)
        BY <1>8, <1>14 DEF InRam
      <3> QED  BY <1>9, <3>1, Zenon DEF WriteSection
    <2>2. /\ DOMAIN zm' = ZmFields /\ zm'.regs = zm.regs /\ zm'.halted = zm.halted
          /\ zm'.mem = Stored(zm.mem, s, z)
      BY <1>1, <2>1, ToldFacts DEF ZmFields
    <2>3. CASE z # RoundUp(s.len)
      <3>1. zl' = ZExit("failed") /\ zl.at \notin {"none", "exit"}
        BY <1>1, <2>1, <2>3
      <3> QED  BY <1>1, <2>2, <3>1, LeaveStep, ToldFacts
    <2>4. CASE z = RoundUp(s.len)
      <3>1. zl' = [zl EXCEPT !.todo = Tail(@)]
        BY <2>1, <2>4
      <3>2. /\ zl'.at = "write" /\ zl'.prog = p /\ zl'.todo = Tail(zl.todo) /\ zl'.startaddr = RESET_ADDRESS
            /\ zl'.codelen = zl.codelen /\ zl'.fbuf = zl.fbuf /\ DOMAIN zl' = ZlFields
        BY <1>1, <1>2, <1>4, <3>1, ToldFacts DEF ZlFields
      <3>3. PICK m : m = zm'.mem /\ m = Stored(zm.mem, s, z)
        BY <2>2
      <3>4. /\ HasAll(m, p, h)
            /\ \A g \in Headers(p) : Loads(p, g) /\ g # h /\ HasAll(zm.mem, p, g) => HasAll(m, p, g)
        <4>1. z \in Int /\ p[h].filesz <= z /\ z <= RoundUp(p[h].filesz)
          BY <1>8, <1>10, <2>4
        <4> QED  BY <1>2, <1>7, <1>8, <3>3, <4>1, SectionStored
      <3>5. \A g \in 1 .. k + 1 : Placed(m, zl.fbuf, zl.codelen, p, g)
        <4>1. Placed(m, zl.fbuf, zl.codelen, p, h)
          BY <1>14, <3>4 DEF Placed
        <4>2. \A g \in 1 .. k : Placed(m, zl.fbuf, zl.codelen, p, g)
          BY <1>5, <1>11, <3>4, Zenon DEF Placed
        <4> QED  BY <1>13, <4>1, <4>2
      <3>6. Underway(p, zl'.todo, m, zl.fbuf, zl.codelen, n, k + 1)
        <4>1. FirstAre(p, n)
          BY <1>3 DEF Underway
        <4> QED  BY <1>5, <1>9, <3>2, <3>5, <4>1, Zenon DEF Underway
      <3>7. Written(zl'.prog, zl'.todo, zm'.mem, zl'.fbuf, zl'.codelen)
        <4>1. Written(p, zl'.todo, m, zl.fbuf, zl.codelen)
          BY <3>6, Zenon DEF Written
        <4> QED  BY <3>2, <3>3, <4>1
      <3>8. LoadTypes'
        BY <1>1, <1>2, <2>2, <3>2, ToldFacts
        DEF LoadTypes, LoaderOK, MachineOK, ToldOf, ZStates
      <3>9. zm'.halted = TRUE
        BY <1>4, <2>2
      <3>10. LoadStages'
        BY <3>2, <3>7, <3>9 DEF LoadStages, Stopped
      <3>11. LoaderRight'
        BY <3>2, <3>9 DEF LoaderRight, LoadedIsComplete, RunsOnlyComplete
      <3> QED  BY <3>8, <3>10, <3>11 DEF LoadInv
    <2> QED  BY <2>3, <2>4
  <1>15. CASE ~InRam(p, h)
    <2>1. Within(s, FLASH)
      BY <1>2, <1>7, <1>8, <1>15, WhereItGoes
    <2>2. RESET_ADDRESS <= s.start /\ s.start + s.len <= FLASH.base + FLASH.len /\ s.start \in Nat /\ s.len \in Nat
      BY <1>8, <1>10, <1>12, <1>15 DEF ValidSection, InRam
    <2>3. RESET_ADDRESS \in Nat /\ zl.codelen \in Nat
      BY <1>5, MemoryFacts DEF FitsFlash
    <2>4. PICK c \in Nat :
            /\ c = IF s.start + s.len > RESET_ADDRESS + zl.codelen THEN s.start + s.len - RESET_ADDRESS ELSE zl.codelen
      BY <2>2, <2>3
    <2>5. /\ zl' = [zl EXCEPT !.todo = Tail(@), !.startaddr = RESET_ADDRESS, !.codelen = c,
                              !.fbuf = Stored(@, s, s.len)]
          /\ zm' = zm
      <3>1. ~(Within(s, SDRAM) \/ Within(s, BKRAM))
        BY <1>8, <1>15 DEF InRam
      <3>2. ~(s.start < zl.startaddr)
        BY <1>4, <2>2, <2>3
      <3> QED  BY <1>4, <1>9, <2>4, <3>1, <3>2 DEF WriteSection
    <2>6. /\ zl'.at = "write" /\ zl'.prog = p /\ zl'.todo = Tail(zl.todo) /\ zl'.startaddr = RESET_ADDRESS
          /\ zl'.codelen = c /\ zl'.fbuf = Stored(zl.fbuf, s, s.len) /\ DOMAIN zl' = ZlFields
      BY <1>1, <1>2, <2>5, ToldFacts DEF ZlFields
    <2>7. PICK f : f = zl'.fbuf /\ f = Stored(zl.fbuf, s, s.len)
      BY <2>6
    <2>8. /\ HasAll(f, p, h)
          /\ \A g \in Headers(p) : Loads(p, g) /\ g # h /\ HasAll(zl.fbuf, p, g) => HasAll(f, p, g)
      <3>1. s.len \in Int /\ p[h].filesz <= s.len /\ s.len <= RoundUp(p[h].filesz)
        BY <1>8, <1>10
      <3> QED  BY <1>2, <1>7, <1>8, <2>7, <3>1, SectionStored
    <2>9. FitsFlash(c) /\ s.start + s.len <= RESET_ADDRESS + c /\ zl.codelen <= c
      <3>1. PICK e \in Nat, x \in Nat, y \in Nat, d \in Nat :
              e = FLASH.base + FLASH.len /\ x = RESET_ADDRESS /\ y = s.start + s.len /\ d = zl.codelen
        <4>1. FLASH.base \in Nat /\ FLASH.len \in Nat
          BY MemoryFacts
        <4>2. FLASH.base + FLASH.len \in Nat /\ s.start + s.len \in Nat
          BY <2>2, <4>1
        <4> QED  BY <2>3, <4>2
      <3>2. d = 0 \/ x + d <= e
        <4>1. FitsFlash(d)
          BY <1>5, <3>1
        <4> QED  BY <3>1, <4>1 DEF FitsFlash
      <3>3. x <= y /\ y <= e
        <4>1. PICK v \in Nat, l \in Nat : v = s.start /\ l = s.len /\ x <= v /\ v + l <= e
          BY <2>2, <3>1
        <4>2. x <= v + l
          BY <4>1
        <4> QED  BY <3>1, <4>1, <4>2
      <3>4. c = IF y > x + d THEN y - x ELSE d
        <4>1. CASE y > x + d
          <5>1. s.start + s.len > RESET_ADDRESS + zl.codelen
            BY <3>1, <4>1, Zenon
          <5>2. c = s.start + s.len - RESET_ADDRESS
            BY <2>4, <5>1, Zenon
          <5>3. s.start + s.len - RESET_ADDRESS = y - x
            BY <3>1, <2>2, <2>3
          <5> QED  BY <4>1, <5>2, <5>3, Zenon
        <4>2. CASE ~(y > x + d)
          <5>1. ~(s.start + s.len > RESET_ADDRESS + zl.codelen)
            BY <3>1, <4>2, Zenon
          <5>2. c = zl.codelen
            BY <2>4, <5>1, Zenon
          <5> QED  BY <3>1, <4>2, <5>2, Zenon
        <4> QED  BY <4>1, <4>2
      <3>5. (c = 0 \/ x + c <= e) /\ y <= x + c /\ d <= c
        BY <3>2, <3>3, <3>4
      <3> QED  BY <3>1, <3>5 DEF FitsFlash
    <2>10. \A g \in 1 .. k + 1 : Placed(zm.mem, f, c, p, g)
      <3>1. Placed(zm.mem, f, c, p, h)
        BY <1>8, <1>15, <2>2, <2>8, <2>9 DEF Placed, InBuffer
      <3>2. ASSUME NEW g \in 1 .. k PROVE Placed(zm.mem, f, c, p, g)
        <4>1. Placed(zm.mem, zl.fbuf, zl.codelen, p, g) /\ g \in Headers(p) /\ Loads(p, g) /\ g # h
          BY <1>5, <1>11
        <4>2. CASE InRam(p, g)
          BY <4>1, <4>2 DEF Placed
        <4>3. CASE ~InRam(p, g)
          <5>1. /\ HasAll(zl.fbuf, p, g) /\ RESET_ADDRESS <= p[g].paddr
                /\ p[g].paddr + p[g].filesz <= RESET_ADDRESS + zl.codelen
            BY <4>1, <4>3 DEF Placed, InBuffer
          <5>2. HasAll(f, p, g)
            BY <2>8, <4>1, <5>1
          <5>3. p[g].paddr + p[g].filesz <= RESET_ADDRESS + c
            <6>1. p[g].paddr + p[g].filesz \in Nat
              BY <1>2, <4>1, HeaderFacts
            <6> QED  BY <2>3, <2>9, <5>1, <6>1
          <5> QED  BY <4>3, <5>1, <5>2, <5>3 DEF Placed, InBuffer
        <4> QED  BY <4>2, <4>3
      <3> QED  BY <1>13, <3>1, <3>2
    <2>11. Underway(p, zl'.todo, zm.mem, f, c, n, k + 1)
      <3>1. FirstAre(p, n)
        BY <1>3 DEF Underway
      <3> QED  BY <1>5, <1>9, <2>6, <2>9, <2>10, <3>1, Zenon DEF Underway
    <2>12. Written(zl'.prog, zl'.todo, zm'.mem, zl'.fbuf, zl'.codelen)
      <3>1. Written(p, zl'.todo, zm.mem, f, c)
        BY <2>11, Zenon DEF Written
      <3> QED  BY <2>5, <2>6, <2>7, <3>1
    <2>13. LoadTypes'
      BY <1>1, <1>2, <2>5, <2>6, ToldFacts
      DEF LoadTypes, LoaderOK, MachineOK, ToldOf, ZStates
    <2>14. LoadStages'
      BY <1>4, <2>5, <2>6, <2>12 DEF LoadStages, Stopped
    <2>15. LoaderRight'
      BY <1>4, <2>5, <2>6 DEF LoaderRight, LoadedIsComplete, RunsOnlyComplete
    <2> QED  BY <2>13, <2>14, <2>15 DEF LoadInv
  <1> QED  BY <1>14, <1>15

(* The checks of the bus before and after the flash.                          *)
LEMMA CheckBusStep == ASSUME LoadInv, CheckBus PROVE LoadInv'
  <1>1. zl.at \in {"write", "recheck"} /\ zm' = zm
    BY DEF CheckBus
  <1>2. zm.halted = TRUE
    BY <1>1 DEF LoadInv, LoadStages, Stopped
  <1>3. CASE zl.at = "write"
    <2>1. zl.todo = <<>> /\ zl' = [zl EXCEPT !.at = "flash"]
      BY <1>3 DEF CheckBus
    <2>2. /\ zl'.at = "flash" /\ zl'.prog = zl.prog /\ zl'.todo = zl.todo /\ zl'.startaddr = zl.startaddr
          /\ zl'.codelen = zl.codelen /\ zl'.fbuf = zl.fbuf /\ DOMAIN zl' = ZlFields
      BY <1>3, <2>1, ToldFacts DEF ZlFields
    <2>3. Written(zl'.prog, zl'.todo, zm'.mem, zl'.fbuf, zl'.codelen) /\ zl'.startaddr = RESET_ADDRESS
      <3>1. Written(zl.prog, zl.todo, zm.mem, zl.fbuf, zl.codelen) /\ zl.startaddr = RESET_ADDRESS
        BY <1>3 DEF LoadInv, LoadStages
      <3> QED  BY <1>1, <2>2, <3>1
    <2>4. LoadTypes'
      BY <1>1, <1>3, <2>2, ToldFacts DEF LoadTypes, LoaderOK, MachineOK, ToldOf, ZStates
    <2>5. LoadStages'
      BY <1>1, <1>2, <2>1, <2>2, <2>3 DEF LoadStages, Stopped
    <2>6. LoaderRight'
      BY <1>1, <1>2, <2>2 DEF LoaderRight, LoadedIsComplete, RunsOnlyComplete
    <2> QED  BY <2>4, <2>5, <2>6 DEF LoadInv
  <1>4. CASE zl.at = "recheck"
    <2>1. zl' = [zl EXCEPT !.at = "regs"]
      BY <1>4 DEF CheckBus
    <2>2. zl'.at = "regs" /\ zl'.prog = zl.prog /\ DOMAIN zl' = ZlFields
      BY <1>4, <2>1, ToldFacts DEF ZlFields
    <2>3. AllThere(zm'.mem, zl'.prog)
      BY <1>1, <1>4, <2>2 DEF LoadInv, LoadStages
    <2>4. LoadTypes'
      BY <1>1, <1>4, <2>2, ToldFacts DEF LoadTypes, LoaderOK, MachineOK, ToldOf, ZStates
    <2>5. LoadStages'
      BY <1>1, <1>2, <2>2, <2>3 DEF LoadStages, Stopped
    <2>6. LoaderRight'
      BY <1>1, <1>2, <2>2 DEF LoaderRight, LoadedIsComplete, RunsOnlyComplete
    <2> QED  BY <2>4, <2>5, <2>6 DEF LoadInv
  <1> QED  BY <1>1, <1>3, <1>4

(* Once every header has been dealt with, the flash takes the buffer, and with it
   the program is all there: what is in RAM is not in the flash.              *)
LEMMA FlashTakes ==
    ASSUME NEW p \in ZPROGRAMS, InOneMemory(p), NEW m, NEW f, NEW c, NEW n, NEW k, NEW td,
           Underway(p, td, m, f, c, n, k), td = <<>>, NEW d,
           d = [a \in Octets |-> IF a \in RESET_ADDRESS .. RESET_ADDRESS + c - 1 THEN f[a] ELSE m[a]]
    PROVE  AllThere(d, p)
  <1>1. /\ Len(p) \in Nat /\ n \in 0 .. Len(p) /\ k \in 0 .. n /\ td = Untouched(p, n, k)
        /\ \A h \in Headers(p) : Loads(p, h) <=> h <= n
        /\ \A h \in 1 .. k : Placed(m, f, c, p, h)
        /\ FitsFlash(c)
    BY HeaderFacts DEF Underway, FirstAre
  <1>2. k = n
    <2>1. Len(Untouched(p, n, k)) = n - k
      BY <1>1 DEF Untouched
    <2>2. Len(td) = 0
      OBVIOUS
    <2> QED  BY <1>1, <2>1, <2>2
  <1>3. /\ RESET_ADDRESS \in Nat /\ FLASH.base \in Nat /\ FLASH.len \in Nat /\ FLASH.base <= RESET_ADDRESS
        /\ c \in Nat
    BY <1>1, MemoryFacts DEF FitsFlash
  <1>4. ASSUME NEW h \in Headers(p), Loads(p, h), NEW i \in 0 .. p[h].filesz - 1
        PROVE  d[p[h].paddr + i] = <<h, i>>
    <2>1. h \in 1 .. k /\ Placed(m, f, c, p, h)
      BY <1>1, <1>2, <1>4 DEF Headers
    <2>2. PICK a \in Nat : a = p[h].paddr + i /\ a \in Octets
      BY <1>4, OctetsOf, HeaderFacts
    <2>3. p[h].paddr \in Nat /\ p[h].filesz \in Nat
      BY HeaderFacts
    <2>4. d[a] = IF a \in RESET_ADDRESS .. RESET_ADDRESS + c - 1 THEN f[a] ELSE m[a]
      BY <2>2
    <2>5. CASE InRam(p, h)
      <3>1. a < FLASH.base \/ a >= FLASH.base + FLASH.len
        BY <1>4, <2>2, <2>5, WhereItGoes
      <3>2. ~(a \in RESET_ADDRESS .. RESET_ADDRESS + c - 1)
        <4>1. PICK r \in Nat, b \in Nat, l \in Nat :
                r = RESET_ADDRESS /\ b = FLASH.base /\ l = FLASH.len /\ b <= r
          BY <1>3
        <4>2. (c = 0 \/ r + c <= b + l) /\ (a < b \/ a >= b + l)
          BY <1>1, <3>1, <4>1 DEF FitsFlash
        <4>3. a < r \/ a >= r + c
          BY <1>3, <4>1, <4>2
        <4> QED  BY <4>1, <4>3, <1>3
      <3>3. m[a] = <<h, i>>
        BY <1>4, <2>1, <2>2, <2>5 DEF Placed, HasAll
      <3> QED  BY <2>2, <2>4, <3>2, <3>3
    <2>6. CASE ~InRam(p, h)
      <3>1. HasAll(f, p, h) /\ RESET_ADDRESS <= p[h].paddr /\ p[h].paddr + p[h].filesz <= RESET_ADDRESS + c
        BY <2>1, <2>6 DEF Placed, InBuffer
      <3>2. a \in RESET_ADDRESS .. RESET_ADDRESS + c - 1
        <4>1. PICK r \in Nat, x \in Nat, l \in Nat :
                r = RESET_ADDRESS /\ x = p[h].paddr /\ l = p[h].filesz /\ r <= x /\ x + l <= r + c
          BY <1>3, <2>3, <3>1
        <4>2. a = x + i /\ i \in 0 .. l - 1
          BY <1>4, <2>2, <4>1
        <4>3. i \in Nat /\ i < l /\ c \in Nat
          BY <1>3, <4>1, <4>2
        <4>4. x + i < r + c /\ x + i >= r
          BY <4>1, <4>3
        <4>5. a >= r /\ a <= r + c - 1
          BY <4>1, <4>2, <4>3, <4>4
        <4> QED  BY <4>1, <4>5, <1>3
      <3>3. f[a] = <<h, i>>
        BY <1>4, <2>2, <3>1 DEF HasAll
      <3> QED  BY <2>2, <2>4, <3>2, <3>3
    <2> QED  BY <2>5, <2>6
  <1> QED  BY <1>4 DEF AllThere, HasAll

LEMMA WriteFlashStep == ASSUME LoadInv, WriteFlash, Loadable PROVE LoadInv'
  <1>1. zl.at = "flash"
    BY DEF WriteFlash
  <1>2. PICK p : p = zl.prog /\ p \in ZPROGRAMS /\ InOneMemory(p)
    BY <1>1, ToldFacts DEF Loadable
  <1>3. PICK n, k : Underway(p, zl.todo, zm.mem, zl.fbuf, zl.codelen, n, k)
    BY <1>1, <1>2, Zenon DEF LoadInv, LoadStages, Written
  <1>4. zl.startaddr = RESET_ADDRESS /\ zl.todo = <<>> /\ zm.halted = TRUE
    BY <1>1 DEF LoadInv, LoadStages, Stopped
  <1>5. ASSUME zl' = [zl EXCEPT !.at = "recheck"], DOMAIN zm' = ZmFields, zm'.regs = zm.regs, zm'.halted = zm.halted,
               AllThere(zm'.mem, p)
        PROVE  LoadInv'
    <2>1. zl'.at = "recheck" /\ zl'.prog = p /\ DOMAIN zl' = ZlFields
      BY <1>1, <1>2, <1>5, ToldFacts DEF ZlFields
    <2>2. LoadTypes'
      BY <1>1, <1>2, <1>5, <2>1, ToldFacts
      DEF LoadTypes, LoaderOK, MachineOK, ToldOf, ZStates
    <2>3. LoadStages'
      BY <1>4, <1>5, <2>1 DEF LoadStages, Stopped
    <2>4. LoaderRight'
      BY <1>4, <1>5, <2>1 DEF LoaderRight, LoadedIsComplete, RunsOnlyComplete
    <2> QED  BY <2>2, <2>3, <2>4 DEF LoadInv
  <1>6. CASE zl.codelen = 0
    <2>1. zl' = [zl EXCEPT !.at = "recheck"] /\ zm' = zm
      BY <1>6 DEF WriteFlash
    <2>2. PICK d : d = [a \in Octets |-> IF a \in RESET_ADDRESS .. RESET_ADDRESS + zl.codelen - 1
                                         THEN zl.fbuf[a] ELSE zm.mem[a]]
      OBVIOUS
    <2>3. AllThere(d, p)
      BY <1>2, <1>3, <1>4, <2>2, FlashTakes
    <2>4. ASSUME NEW h \in Headers(p), Loads(p, h), NEW i \in 0 .. p[h].filesz - 1
          PROVE  zm.mem[p[h].paddr + i] = <<h, i>>
      <3>1. PICK a : a = p[h].paddr + i /\ a \in Octets
        BY <1>2, <2>4, OctetsOf
      <3>2. ~(a \in RESET_ADDRESS .. RESET_ADDRESS + zl.codelen - 1)
        BY <1>6, MemoryFacts
      <3>3. d[a] = zm.mem[a]
        BY <2>2, <3>1, <3>2
      <3> QED  BY <2>3, <2>4, <3>1, <3>3 DEF AllThere, HasAll
    <2>5. AllThere(zm.mem, p)
      BY <2>4 DEF AllThere, HasAll
    <2> QED  BY <1>1, <1>5, <2>1, <2>5, ToldFacts
  <1>7. CASE zl.codelen # 0
    <2>1. PICK z \in 0 .. zl.codelen :
            /\ zm' = [zm EXCEPT !.cached = TRUE,
                       !.mem = [a \in Octets |-> IF a \in zl.startaddr .. zl.startaddr + z - 1
                                                 THEN zl.fbuf[a] ELSE @[a]]]
            /\ zl' = IF z = zl.codelen THEN [zl EXCEPT !.at = "recheck"] ELSE ZExit("failed")
      BY <1>7, Zenon DEF WriteFlash
    <2>2. /\ DOMAIN zm' = ZmFields /\ zm'.regs = zm.regs /\ zm'.halted = zm.halted
          /\ zm'.mem = [a \in Octets |-> IF a \in zl.startaddr .. zl.startaddr + z - 1
                                         THEN zl.fbuf[a] ELSE zm.mem[a]]
      BY <1>1, <2>1, ToldFacts DEF ZmFields
    <2>3. CASE z # zl.codelen
      <3>1. zl' = ZExit("failed") /\ zl.at \notin {"none", "exit"}
        BY <1>1, <2>1, <2>3
      <3> QED  BY <1>1, <2>2, <3>1, LeaveStep, ToldFacts
    <2>4. CASE z = zl.codelen
      <3>1. zl' = [zl EXCEPT !.at = "recheck"]
        BY <2>1, <2>4
      <3>2. PICK d : d = zm'.mem /\ d = [a \in Octets |-> IF a \in RESET_ADDRESS .. RESET_ADDRESS + zl.codelen - 1
                                                        THEN zl.fbuf[a] ELSE zm.mem[a]]
        BY <1>4, <2>2, <2>4
      <3>3. AllThere(d, p)
        BY <1>2, <1>3, <1>4, <3>2, FlashTakes
      <3> QED  BY <1>5, <2>2, <3>1, <3>2, <3>3
    <2> QED  BY <2>3, <2>4
  <1> QED  BY <1>6, <1>7

(* The registers and the cache, and then the processor may go.                *)
LEMMA SetRegistersStep == ASSUME LoadInv, SetRegisters PROVE LoadInv'
  <1>1. /\ zl.at = "regs" /\ zl' = [zl EXCEPT !.at = "start"]
        /\ zm' = [zm EXCEPT !.regs = [r \in ZREGS |-> IF r = "sPC" THEN zl.entry ELSE 0], !.cached = FALSE]
    BY DEF SetRegisters
  <1>2. zl'.at = "start" /\ zl'.prog = zl.prog /\ zl'.entry = zl.entry /\ DOMAIN zl' = ZlFields
    BY <1>1, ToldFacts DEF ZlFields
  <1>3. /\ DOMAIN zm' = ZmFields /\ zm'.mem = zm.mem /\ zm'.halted = zm.halted
        /\ zm'.regs = Start(zl.entry) /\ zm'.cached = FALSE
    BY <1>1, ToldFacts DEF ZmFields, Start
  <1>4. zm.halted = TRUE /\ AllThere(zm.mem, zl.prog)
    BY <1>1 DEF LoadInv, LoadStages, Stopped
  <1>5. DOMAIN zm'.regs = ZREGS
    BY <1>3 DEF Start
  <1>6. LoadTypes'
    BY <1>1, <1>2, <1>3, <1>5, ToldFacts
    DEF LoadTypes, LoaderOK, MachineOK, ToldOf, ZStates
  <1>7. LoadStages'
    <2>1. AllThere(zm'.mem, zl'.prog) /\ zm'.halted = TRUE /\ zm'.regs = Start(zl'.entry)
      BY <1>2, <1>3, <1>4
    <2> QED  BY <1>2, <1>3, <2>1 DEF LoadStages, Stopped
  <1>8. LoaderRight'
    BY <1>2, <1>3, <1>4 DEF LoaderRight, LoadedIsComplete, RunsOnlyComplete
  <1> QED  BY <1>6, <1>7, <1>8 DEF LoadInv

LEMMA StartStep == ASSUME LoadInv, StartCPU PROVE LoadInv'
  <1>1. zl.at = "start" /\ zl' = ZExit("loaded") /\ zm' = [zm EXCEPT !.halted = ~zl.go]
    BY DEF StartCPU
  <1>2. zl'.at = "exit" /\ zl'.prog = zl.prog /\ zl'.entry = zl.entry /\ DOMAIN zl' = ZlFields
    BY <1>1, ToldFacts DEF ZExit, ZlFields
  <1>3. /\ DOMAIN zm' = ZmFields /\ zm'.mem = zm.mem /\ zm'.regs = zm.regs /\ zm'.cached = zm.cached
    BY <1>1, ToldFacts DEF ZmFields
  <1>4. AllThere(zm.mem, zl.prog) /\ zm.cached = FALSE /\ zm.regs = Start(zl.entry)
    BY <1>1 DEF LoadInv, LoadStages
  <1>5. LoadTypes'
    BY <1>1, <1>2, <1>3, ToldFacts DEF LoadTypes, LoaderOK, MachineOK, ToldOf, ZStates
  <1>6. LoadStages'
    BY <1>2 DEF LoadStages, Stopped
  <1>7. Complete'
    <2>1. PICK p, m : /\ p = zl.prog /\ p \in ZPROGRAMS /\ m = zm.mem /\ zl'.prog = p /\ zm'.mem = m
                      /\ AllThere(m, p)
      BY <1>1, <1>2, <1>3, <1>4, ToldFacts
    <2>2. \A h \in Wanted(p) : \A i \in 0 .. p[h].filesz - 1 : m[p[h].paddr + i] = <<h, i>>
      BY <2>1, AllThereIs
    <2> QED  BY <2>1, <2>2 DEF Complete
  <1>8. zm'.cached = FALSE /\ \A r \in ZREGS : zm'.regs[r] = IF r = "sPC" THEN zl'.entry ELSE 0
    BY <1>2, <1>3, <1>4 DEF Start
  <1>9. LoaderRight'
    BY <1>7, <1>8 DEF LoaderRight, LoadedIsComplete, RunsOnlyComplete
  <1> QED  BY <1>5, <1>6, <1>9 DEF LoadInv

(* The simulation: section by section, and then the reset is released.        *)
LEMMA SimLoadStep == ASSUME LoadInv, SimLoadElf, Loadable, Simulable PROVE LoadInv'
  <1>1. PICK ss : /\ zl.at = "sim" /\ ss = Sections(zl.prog)
                  /\ IF zl.n > Len(ss) THEN zl' = [zl EXCEPT !.at = "simstart"] /\ zm' = zm
                     ELSE /\ zm' = [zm EXCEPT !.mem = SimStored(@, ss[zl.n])]
                          /\ zl' = [zl EXCEPT !.n = @ + 1]
    BY DEF SimLoadElf
  <1>2. PICK p : p = zl.prog /\ p \in ZPROGRAMS /\ EmptyLast(p) /\ NoOverlap(p) /\ InOneMemory(p) /\ FromTheBase(p)
    BY <1>1, ToldFacts DEF Loadable, Simulable
  <1>3. PICK n \in 0 .. Len(p) : /\ \A h \in Headers(p) : Loads(p, h) <=> h <= n
                                 /\ ss = [i \in 1 .. n |-> Section(p, i)]
    BY <1>1, <1>2, SectionsAre
  <1>4. Len(p) \in Nat /\ Len(ss) = n /\ n \in Nat
    BY <1>2, <1>3, HeaderFacts
  <1>5. /\ SimWritten(zm.mem, p, zl.n) /\ zm.halted = TRUE /\ zm.cached = FALSE
        /\ zm.regs = [r \in ZREGS |-> 0]
    BY <1>1, <1>2 DEF LoadInv, LoadStages, Stopped
  <1>6. PICK j \in Nat \ {0} : j = zl.n /\ \A h \in Headers(p) : Loads(p, h) /\ h < j => HasAll(zm.mem, p, h)
    BY <1>5 DEF SimWritten
  <1>7. CASE zl.n > Len(ss)
    <2>1. zl' = [zl EXCEPT !.at = "simstart"] /\ zm' = zm
      BY <1>1, <1>7
    <2>2. zl'.at = "simstart" /\ zl'.prog = p /\ DOMAIN zl' = ZlFields
      BY <1>1, <1>2, <2>1, ToldFacts DEF ZlFields
    <2>3. AllThere(zm.mem, p)
      <3>1. \A h \in Headers(p) : Loads(p, h) => h < j
        BY <1>3, <1>4, <1>6, <1>7 DEF Headers
      <3> QED  BY <1>6, <3>1 DEF AllThere
    <2>4. LoadTypes'
      BY <1>1, <1>2, <2>1, <2>2, ToldFacts
      DEF LoadTypes, LoaderOK, MachineOK, ToldOf, ZStates
    <2>5. LoadStages'
      BY <1>5, <2>1, <2>2, <2>3 DEF LoadStages, Stopped
    <2>6. LoaderRight'
      BY <1>5, <2>1, <2>2 DEF LoaderRight, LoadedIsComplete, RunsOnlyComplete
    <2> QED  BY <2>4, <2>5, <2>6 DEF LoadInv
  <1>8. CASE ~(zl.n > Len(ss))
    <2>1. zm' = [zm EXCEPT !.mem = SimStored(@, ss[zl.n])] /\ zl' = [zl EXCEPT !.n = @ + 1]
      BY <1>1, <1>8
    <2>2. zl'.at = "sim" /\ zl'.prog = p /\ zl'.n = j + 1 /\ DOMAIN zl' = ZlFields
      BY <1>1, <1>2, <1>6, <2>1, ToldFacts DEF ZlFields
    <2>3. j \in 1 .. n /\ j \in Headers(p) /\ Loads(p, j) /\ ss[j] = Section(p, j)
      BY <1>3, <1>4, <1>6, <1>8 DEF Headers
    <2>4. /\ DOMAIN zm' = ZmFields /\ zm'.regs = zm.regs /\ zm'.cached = zm.cached /\ zm'.halted = zm.halted
          /\ zm'.mem = SimStored(zm.mem, Section(p, j))
      BY <1>1, <1>6, <2>1, <2>3, ToldFacts DEF ZmFields
    <2>5. PICK m : m = zm'.mem /\ m = SimStored(zm.mem, Section(p, j))
      BY <2>4
    <2>6. /\ HasAll(m, p, j)
          /\ \A g \in Headers(p) : Loads(p, g) /\ g # j /\ HasAll(zm.mem, p, g) => HasAll(m, p, g)
      BY <1>2, <2>3, <2>5, SectionSimulated
    <2>7. SimWritten(m, p, j + 1)
      <3>1. ASSUME NEW h \in Headers(p), Loads(p, h), h < j + 1 PROVE HasAll(m, p, h)
        <4>1. h = j \/ h < j
          BY <1>6, <3>1 DEF Headers
        <4>2. ASSUME h < j PROVE HasAll(m, p, h)
          <5>1. HasAll(zm.mem, p, h) /\ h # j
            BY <1>6, <3>1, <4>2
          <5> QED  BY <2>6, <3>1, <5>1
        <4> QED  BY <2>6, <4>1, <4>2
      <3>2. j + 1 \in Nat \ {0}
        BY <1>6
      <3> QED  BY <3>1, <3>2 DEF SimWritten
    <2>8. LoadTypes'
      BY <1>1, <1>2, <2>2, <2>4, ToldFacts
      DEF LoadTypes, LoaderOK, MachineOK, ToldOf, ZStates
    <2>9. LoadStages'
      <3>1. SimWritten(zm'.mem, zl'.prog, zl'.n)
        BY <2>2, <2>5, <2>7
      <3> QED  BY <1>5, <2>2, <2>4, <3>1 DEF LoadStages, Stopped
    <2>10. LoaderRight'
      BY <1>5, <2>2, <2>4 DEF LoaderRight, LoadedIsComplete, RunsOnlyComplete
    <2> QED  BY <2>8, <2>9, <2>10 DEF LoadInv
  <1> QED  BY <1>7, <1>8

LEMMA SimStartStep == ASSUME LoadInv, SimStart PROVE LoadInv'
  <1>1. /\ zl.at = "simstart" /\ zl' = ZExit("loaded")
        /\ zm' = [zm EXCEPT !.halted = FALSE, !.regs["sPC"] = zl.entry]
    BY DEF SimStart
  <1>2. zl'.at = "exit" /\ zl'.prog = zl.prog /\ zl'.entry = zl.entry /\ DOMAIN zl' = ZlFields
    BY <1>1, ToldFacts DEF ZExit, ZlFields
  <1>3. /\ DOMAIN zm' = ZmFields /\ zm'.mem = zm.mem /\ zm'.cached = zm.cached
        /\ zm'.regs = [zm.regs EXCEPT !["sPC"] = zl.entry]
    BY <1>1, ToldFacts DEF ZmFields
  <1>4. AllThere(zm.mem, zl.prog) /\ zm.cached = FALSE /\ zm.regs = [r \in ZREGS |-> 0]
    BY <1>1 DEF LoadInv, LoadStages
  <1>5. DOMAIN zm'.regs = ZREGS
    BY <1>1, <1>3, ToldFacts
  <1>6. LoadTypes'
    BY <1>1, <1>2, <1>3, <1>5, ToldFacts
    DEF LoadTypes, LoaderOK, MachineOK, ToldOf, ZStates
  <1>7. LoadStages'
    BY <1>2 DEF LoadStages, Stopped
  <1>8. Complete'
    <2>1. PICK p, m : /\ p = zl.prog /\ p \in ZPROGRAMS /\ m = zm.mem /\ zl'.prog = p /\ zm'.mem = m
                      /\ AllThere(m, p)
      BY <1>1, <1>2, <1>3, <1>4, ToldFacts
    <2>2. \A h \in Wanted(p) : \A i \in 0 .. p[h].filesz - 1 : m[p[h].paddr + i] = <<h, i>>
      BY <2>1, AllThereIs
    <2> QED  BY <2>1, <2>2 DEF Complete
  <1>9. zm'.cached = FALSE /\ \A r \in ZREGS : zm'.regs[r] = IF r = "sPC" THEN zl'.entry ELSE 0
    BY <1>2, <1>3, <1>4
  <1>10. LoaderRight'
    BY <1>8, <1>9 DEF LoaderRight, LoadedIsComplete, RunsOnlyComplete
  <1> QED  BY <1>6, <1>7, <1>10 DEF LoadInv

LEMMA LoadStep ==
    ASSUME LoadInv, [ZipLoadNext]_zl_vars, Loadable, Simulable \/ zl.at # "sim"
    PROVE  LoadInv'
  <1>1. CASE UNCHANGED zl_vars
    <2>1. zl' = zl /\ zm' = zm
      BY <1>1 DEF zl_vars
    <2>2. LoadTypes'
      BY <2>1 DEF LoadInv, LoadTypes
    <2>3. LoadStages'
      BY <2>1 DEF LoadInv, LoadStages
    <2>4. LoaderRight'
      BY <2>1 DEF LoadInv, LoaderRight, LoadedIsComplete, RunsOnlyComplete, Complete
    <2> QED  BY <2>2, <2>3, <2>4 DEF LoadInv
  <1>2. CASE ZipLoadNext
    <2>1. ASSUME SimLoadElf PROVE LoadInv'
      <3>1. Simulable
        BY <2>1 DEF SimLoadElf
      <3> QED  BY <2>1, <3>1, SimLoadStep
    <2> QED  BY <1>2, <2>1, BeginStep, VersionStep, HaltStep, ReadElfStep, WriteSectionStep, CheckBusStep,
                WriteFlashStep, SetRegistersStep, StartStep, BusErrorStep, SimStartStep, KillStep
             DEF ZipLoadNext
  <1> QED  BY <1>1, <1>2

(* The loader where it is run for a board, and never for the simulation.       *)
ZipLoadOnBoard == ZipLoadInit /\ [][ZipLoadNext /\ zl'.at # "sim"]_zl_vars

(* Wherever the loader fails, meets a bus error or is killed, it leaves no
   processor running a program that is not all there, and when it says that the
   program is loaded it is: on the board, of every file whose headers with nothing
   in them come last and whose sections do not overlap and are in one memory each.
   zipload.cpp main(), elfread().                                             *)
THEOREM BoardLoaderIsRight == Loadable => (ZipLoadOnBoard => []LoaderRight)
  <1> SUFFICES ASSUME Loadable PROVE ZipLoadOnBoard => []LoaderRight
    OBVIOUS
  <1> DEFINE Inv == LoadInv /\ zl.at # "sim"
  <1>1. ZipLoadInit => Inv
    BY LoadStart DEF ZipLoadInit
  <1>2. Inv /\ [ZipLoadNext /\ zl'.at # "sim"]_zl_vars => Inv'
    <2> SUFFICES ASSUME Inv, [ZipLoadNext /\ zl'.at # "sim"]_zl_vars PROVE Inv'
      OBVIOUS
    <2>1. [ZipLoadNext]_zl_vars /\ zl'.at # "sim"
      BY DEF zl_vars
    <2> QED  BY <2>1, LoadStep
  <1>3. Inv => LoaderRight
    BY DEF LoadInv
  <1> QED  BY <1>1, <1>2, <1>3, PTL DEF ZipLoadOnBoard

(* And so it is in the simulation too, if a section for RAM begins where that
   memory does: the simulated memories count words where their caller counts
   octets.  MAINTB::load(), automaster_tb.cpp.                                *)
THEOREM LoaderIsRight == Loadable /\ Simulable => (ZipLoadSpec => []LoaderRight)
  <1> SUFFICES ASSUME Loadable, Simulable PROVE ZipLoadSpec => []LoaderRight
    OBVIOUS
  <1>1. ZipLoadInit => LoadInv
    BY LoadStart
  <1>2. LoadInv /\ [ZipLoadNext]_zl_vars => LoadInv'
    BY LoadStep
  <1>3. LoadInv => LoaderRight
    BY DEF LoadInv
  <1> QED  BY <1>1, <1>2, <1>3, PTL DEF ZipLoadSpec
=============================================================================
