------------------------------- MODULE MCSim -------------------------------
(***************************************************************************)
(* The simulated peripherals of sim/verilated, each with the one that      *)
(* drives it: the DDR3 memory, the clocks and delay lines of MAINTB, the   *)
(* SD card, the serial port, the display and the MDIO port of the PHY.     *)
(* They share no state, so a behaviour is of one of them, part, and the    *)
(* others stay as they are built.                                          *)
(***************************************************************************)
EXTENDS DdrSdramSim, MainTb, SdSpiSim, UartSim, OledSim, EnetCtrl

VARIABLE part
sim_vars == <<part, dd_vars, tb_vars, sd_vars, un_vars, ol_vars, ec_vars>>

(* Half periods in the proportions of the board's clocks.                    *)
HalfPeriods == [c \in Clocks |-> CASE c = "clk" -> 6 [] c = "crystal" -> 4 [] OTHER -> 8]

(* The two ways the test benches set the port up: 8N1 and one with parity.   *)
Setups == {[baud |-> 3, nstop |-> 1, nparity |-> 0, fixdp |-> FALSE, evenp |-> 0],
           [baud |-> 2, nstop |-> 2, nparity |-> 1, fixdp |-> FALSE, evenp |-> 1]}
CmdText == <<1, 3>>
ConText == <<2, 0>>

SimInit == /\ part \in {"ddr", "tb", "sd", "uart", "oled", "enet"}
           /\ DdrInit /\ MainTbInit /\ UartInit /\ OledInit /\ EnetInit
           /\ SdInit /\ (part # "sd" => sm.disk = <<>>)

SimNext ==
    \/ part = "ddr"  /\ DdrNext    /\ UNCHANGED <<part, tb_vars, sd_vars, un_vars, ol_vars, ec_vars>>
    \/ part = "tb"   /\ MainTbNext /\ UNCHANGED <<part, dd_vars, sd_vars, un_vars, ol_vars, ec_vars>>
    \/ part = "sd"   /\ SdNext     /\ UNCHANGED <<part, dd_vars, tb_vars, un_vars, ol_vars, ec_vars>>
    \/ part = "uart" /\ UartNext   /\ UNCHANGED <<part, dd_vars, tb_vars, sd_vars, ol_vars, ec_vars>>
    \/ part = "oled" /\ OledNext   /\ UNCHANGED <<part, dd_vars, tb_vars, sd_vars, un_vars, ec_vars>>
    \/ part = "enet" /\ EnetNext   /\ UNCHANGED <<part, dd_vars, tb_vars, sd_vars, un_vars, ol_vars>>

(* The master of the card goes on with what it does and the card powers up; the
   port is clocked, and a client that wants to call or to write does so; the
   display's program goes on, and its port sends what it was given.          *)
SimFairness ==
    /\ WF_sd_vars(part = "sd" /\ (SdBringUp \/ SdPoll \/ SdRead \/ SdCheck \/ SdWrite))
    /\ WF_sd_vars(part = "sd" /\ SdPowerUp)
    /\ WF_un_vars(part = "uart" /\ UBuild) /\ WF_un_vars(part = "uart" /\ UartTick)
    /\ \A c \in Chans : /\ WF_un_vars(part = "uart" /\ un.kind # "none" /\ UCalls(c))
                        /\ WF_un_vars(part = "uart" /\ un.kind # "none" /\ UWrites(c))
    /\ WF_ol_vars(part = "oled" /\ (OWrite \/ OPowerStep \/ OWaitStep))
    /\ WF_ol_vars(part = "oled" /\ OSend)

SimSpec == SimInit /\ [][SimNext]_sim_vars /\ SimFairness

(* Nobody waits for ever: the SD card comes up, unless the master starts over; all
   that clients of the serial port send comes back to them, unless one hangs up;
   and the loop of oledtest.c shows its images again and again.              *)
SimGoesOn == /\ SdComesUp
             /\ UartDelivers
             /\ part = "oled" => OledKeepsShowing
=============================================================================
