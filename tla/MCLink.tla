------------------------------- MODULE MCLink -------------------------------
(***************************************************************************)
(* Two kinds of program on the debug link: one that only reads, and one    *)
(* that also writes (mix), whose calls keep to addresses that answer and   *)
(* have one or two words.                                                  *)
(***************************************************************************)
EXTENDS TtyBus

VARIABLE mix
link_vars == <<vars, mix>>

LinkInit == /\ Init /\ mix \in BOOLEAN
            /\ mix => \A a \in ErrAddrs \cup {NADDR - 1} : mem[a] = mem[0]   \* not used

InBounds == IF mix THEN call.n <= 2 /\ (call.n > 0 => call.inc = 1 /\ \A i \in 0 .. call.n - 1 : call.a + i \notin ErrAddrs)
                   ELSE pc # "writing"
LinkNext == Next /\ UNCHANGED mix /\ InBounds'
LinkSpec == LinkInit /\ [][LinkNext]_link_vars

(* devbus.h's promise for readio, readi and readz, kept for a program that does
   not write: a call that returns has the words that the bus holds at the
   addresses it named, whatever has been read before, by this program or by one
   that ended in an error, and however the line compressed them.             *)
ReadersReadRight == ~mix => ReadsRight
=============================================================================
