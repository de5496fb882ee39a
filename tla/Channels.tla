------------------------------ MODULE Channels ------------------------------
(* What the host's clients are promised of the one serial line that they share:
   channels of their own, each a queue to the board (up) and a queue from it
   (down).  A character is lost only on a channel without a client.          *)
EXTENDS Sequences, Naturals
CONSTANTS Chan, Char
VARIABLES up, down, open

cvars == <<up, down, open>>

Suffixes(s) == {SubSeq(s, i, Len(s)) : i \in 1 .. Len(s) + 1}
Prefixes(s) == {SubSeq(s, 1, i) : i \in 0 .. Len(s)}

ClientSends(c) == /\ open[c]
                  /\ \E x \in Char : up' = [up EXCEPT ![c] = Append(@, x)]
                  /\ UNCHANGED <<down, open>>
BoardTakes(c) == /\ up[c] # <<>>
                 /\ up' = [up EXCEPT ![c] = Tail(@)]
                 /\ UNCHANGED <<down, open>>
BoardSends(c) == /\ \E x \in Char : down' = [down EXCEPT ![c] = Append(@, x)]
                 /\ UNCHANGED <<up, open>>
ClientTakes(c) == /\ open[c] /\ down[c] # <<>>
                  /\ down' = [down EXCEPT ![c] = Tail(@)]
                  /\ UNCHANGED <<up, open>>
Opens(c) == /\ ~open[c]
            /\ open' = [open EXCEPT ![c] = TRUE]
            /\ UNCHANGED <<up, down>>
Closes(c) == /\ open[c]
             /\ open' = [open EXCEPT ![c] = FALSE]
             /\ \E s \in Suffixes(down[c]) : down' = [down EXCEPT ![c] = s]     \* unread
             /\ UNCHANGED up
(* Without a client: what the board has sent is thrown away from the front, what
   a client left behind from the back.                                       *)
Loses == /\ \A c \in Chan : /\ down'[c] \in Suffixes(down[c]) /\ up'[c] \in Prefixes(up[c])
                            /\ open[c] => down'[c] = down[c] /\ up'[c] = up[c]
         /\ DOMAIN down' = Chan /\ DOMAIN up' = Chan
         /\ UNCHANGED open

Init == up = [c \in Chan |-> <<>>] /\ down = [c \in Chan |-> <<>>] /\ open = [c \in Chan |-> FALSE]
Next == \/ \E c \in Chan : \/ ClientSends(c) \/ BoardTakes(c) \/ BoardSends(c) \/ ClientTakes(c)
                           \/ Opens(c) \/ Closes(c)
        \/ Loses
Spec == Init /\ [][Next]_cvars
=============================================================================
