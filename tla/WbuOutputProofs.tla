-------------------------- MODULE WbuOutputProofs --------------------------
(* For every longest word, line length and idle time: the answers leave
   wbuoutput.v digit by digit in their order, and no line is too long.       *)
EXTENDS WbuOutput, SequenceTheorems, TLAPS

Words == {"answer", "int", "busy", "idle"}

(* A character that a stage may hold: a digit of a word, a newline, or none.   *)
Char(c) == \/ c \in {Newline, None}
           \/ /\ c \in [w : Words, k : Nat, l : Nat] /\ c.k > 0 /\ c.l \in 1 .. LONG

(* wbudeword.v: r_len is what is left of the word that dw is a digit of.       *)
TypeInv ==
    /\ cw \in Words \cup {NoWord} /\ aword \in Words \cup {NoWord} /\ cp \in Words \cup {NoWord}
    /\ Char(dw) /\ Char(ln) /\ Char(ch) /\ ln_busy = (ln # None)
    /\ r_len = dw.l /\ linelen \in Nat /\ full_line \in {0, 1} /\ pos \in Nat

-----------------------------------------------------------------------------
(* How long the line gets when everything up to the end of the word in dw is on
   it: a newline in ln makes that begin again.                               *)
OnLine == linelen + (IF ln.l > 0 THEN 1 ELSE 0)
LineInv ==
    /\ full_line = 0 => linelen <= MAX_LINE_LENGTH - LONG
    /\ linelen <= MAX_LINE_LENGTH
    /\ ln # Newline /\ dw.l > 0 => OnLine + dw.l <= MAX_LINE_LENGTH
    /\ ln # Newline /\ dw = Newline => OnLine <= MAX_LINE_LENGTH
    /\ ln # Newline /\ dw = None => OnLine <= MAX_LINE_LENGTH - LONG

-----------------------------------------------------------------------------
(* Where the next digit stands in its word when p digits of it went before; and
   what a stage may hold behind one that holds c.                            *)
After(p, c) == IF c.l = 0 THEN p ELSE IF c.l = 1 THEN 0 ELSE p + 1
InPlace(p, c) == (c = Newline => p = 0) /\ (c.l > 0 => c.k = p + 1)
Follows(c, d) == c.l > 1 => d.w = c.w /\ d.l = c.l - 1

PlaceInv ==
    /\ InPlace(pos, ch) /\ InPlace(After(pos, ch), ln) /\ InPlace(After(After(pos, ch), ln), dw)
    /\ dw = None => After(After(pos, ch), ln) = 0
    /\ ln # None => Follows(ch, ln)
    /\ ln = None => Follows(ch, dw)
    /\ Follows(ln, dw)

(* The words under way, from the one whose last digit is about to leave to the one
   that wbucompress took last.                                               *)
Ends(c) == IF c.l = 1 THEN <<c.w>> ELSE <<>>
Rest(c) == IF c.l > 0 THEN <<c.w>> ELSE <<>>
One(w)  == IF w # NoWord THEN <<w>> ELSE <<>>
DueInv == due = Ends(ch) \o (Ends(ln) \o (Rest(dw) \o (One(cp) \o One(aword))))

IInv == TypeInv /\ LineInv /\ PlaceInv /\ DueInv

-----------------------------------------------------------------------------
LEMMA CharFacts ==
    /\ Char(None) /\ Char(Newline) /\ None # Newline /\ None.l = 0 /\ Newline.l = 0
    /\ \A c : Char(c) => /\ c.l \in 0 .. LONG /\ (c.l = 0 <=> c \in {Newline, None})
                         /\ (c.l > 0 => c.w \in Words /\ c.k \in Nat)
    /\ \A w \in Words : \A k \in Nat \ {0} : \A l \in 1 .. LONG :
          /\ Char(Digit(w, k, l))
          /\ Digit(w, k, l).w = w /\ Digit(w, k, l).k = k /\ Digit(w, k, l).l = l
    /\ NoWord \notin Words
  <1>1. /\ Char(None) /\ Char(Newline) /\ None # Newline /\ None.l = 0 /\ Newline.l = 0
    BY DEF Char, None, Newline, Digit
  <1>2. ASSUME NEW c, Char(c)
        PROVE  /\ c.l \in 0 .. LONG /\ (c.l = 0 <=> c \in {Newline, None})
               /\ (c.l > 0 => c.w \in Words /\ c.k \in Nat)
    <2>1. CASE c \in {Newline, None}
      BY <1>1, <2>1, OutputAssumption
    <2>2. CASE c \notin {Newline, None}
      BY <1>2, <2>2, OutputAssumption DEF Char
    <2> QED
      BY <2>1, <2>2
  <1>3. ASSUME NEW w \in Words, NEW k \in Nat \ {0}, NEW l \in 1 .. LONG
        PROVE  /\ Char(Digit(w, k, l))
               /\ Digit(w, k, l).w = w /\ Digit(w, k, l).k = k /\ Digit(w, k, l).l = l
    BY <1>3, OutputAssumption DEF Char, Digit
  <1>4. NoWord \notin Words
    BY DEF NoWord, Words
  <1> QED
    BY <1>1, <1>2, <1>3, <1>4

(* What dw, ln and ch become: the next character, or what they hold.         *)
LEMMA DewordStep ==
    ASSUME TypeInv, Deword
    PROVE  /\ Char(dw') /\ r_len' = dw'.l
           /\ cp # NoWord /\ ~dw_busy => dw'.w = cp /\ dw'.k = 1 /\ dw'.l \in 1 .. LONG
           /\ ~(cp # NoWord /\ ~dw_busy) /\ ln_busy => dw' = dw
           /\ ~(cp # NoWord /\ ~dw_busy) /\ ~ln_busy =>
                 /\ dw.l > 1 => dw'.w = dw.w /\ dw'.k = dw.k + 1 /\ dw'.l = dw.l - 1
                 /\ dw.l = 1 => dw' = Newline
                 /\ dw.l = 0 => dw' = None
  <1> USE CharFacts
  <1>0. /\ Char(dw) /\ r_len = dw.l /\ dw.l \in 0 .. LONG /\ (dw.l > 0 => dw.w \in Words /\ dw.k \in Nat)
    BY DEF TypeInv
  <1>1. CASE cp # NoWord /\ ~dw_busy
    <2>1. PICK n \in w_len(cp) : dw' = Digit(cp, 1, n) /\ r_len' = n
      BY <1>1 DEF Deword
    <2>2. n \in 1 .. LONG /\ cp \in Words
      BY <1>1, OutputAssumption DEF w_len, TypeInv
    <2> QED
      BY <1>1, <2>1, <2>2
  <1>2. CASE ~(cp # NoWord /\ ~dw_busy) /\ ln_busy
    BY <1>0, <1>2 DEF Deword
  <1>3. CASE ~(cp # NoWord /\ ~dw_busy) /\ ~ln_busy
    <2>1. /\ dw' = IF r_len = 0 THEN None
                   ELSE IF r_len = 1 THEN Newline
                   ELSE Digit(dw.w, dw.k + 1, r_len - 1)
          /\ r_len' = IF r_len > 0 THEN r_len - 1 ELSE 0
      BY <1>3 DEF Deword
    <2>2. CASE dw.l > 1
      <3>1. dw.w \in Words /\ dw.k + 1 \in Nat \ {0} /\ dw.l - 1 \in 1 .. LONG
        BY <1>0, <2>2, OutputAssumption
      <3> QED
        BY <1>0, <1>3, <2>1, <2>2, <3>1
    <2>3. CASE dw.l = 1
      BY <1>0, <1>3, <2>1, <2>3
    <2>4. CASE dw.l = 0
      BY <1>0, <1>3, <2>1, <2>4
    <2> QED
      BY <1>0, <2>2, <2>3, <2>4
  <1> QED
    BY <1>1, <1>2, <1>3

LEMMA LineStep ==
    ASSUME TypeInv, NEW in, CompactLines(in)
    PROVE  /\ Char(ln') /\ ln_busy' = (ln' # None)
           /\ ln # None /\ byte_busy => ln' = ln /\ UNCHANGED <<linelen, full_line>>
           /\ ln # None /\ ~byte_busy =>
                 /\ ln' = None
                 /\ linelen' = (IF ln = Newline THEN 0 ELSE linelen + 1)
                 /\ full_line' = (IF ln = Newline THEN 0 ELSE NextFullLine)
           /\ ln = None => /\ UNCHANGED <<linelen, full_line>>
                           /\ dw # None => ln' = IF dw = Newline /\ full_line = 0 THEN None ELSE dw
                           /\ dw = None => ln' \in {Newline, None}
  <1>1. ln_busy = (ln # None) /\ Char(ln) /\ Char(dw)
    BY DEF TypeInv
  <1>2. /\ ln' = IF ln_busy THEN (IF byte_busy THEN ln ELSE None)
                 ELSE IF dw_busy THEN (IF dw = Newline /\ full_line = 0 THEN None ELSE dw)
                 ELSE IF /\ ~byte_busy /\ Quiet(in)
                         /\ last_out_nl = 0 /\ last_in_nl = 1 THEN Newline
                 ELSE None
        /\ r_busy' = Bit(ln # None /\ byte_busy)
    BY DEF CompactLines
  <1>3. IF byte_busy \/ ln = None THEN UNCHANGED <<linelen, full_line>>
        ELSE /\ linelen' = (IF ln = Newline THEN 0 ELSE linelen + 1)
             /\ full_line' = (IF ln = Newline THEN 0 ELSE NextFullLine)
    BY DEF CompactLines
  <1>4. CASE ln # None
    BY <1>1, <1>2, <1>3, <1>4, CharFacts DEF ln_busy, Bit
  <1>5. CASE ln = None
    <2>1. r_busy' = 0
      BY <1>2, <1>5 DEF Bit
    <2>2. ln_busy' = (ln' # None)
      BY <2>1 DEF ln_busy
    <2> QED
      BY <1>1, <1>2, <1>3, <1>5, <2>2, CharFacts DEF dw_busy
  <1> QED
    BY <1>4, <1>5

LEMMA NextParts ==
    ASSUME TypeInv, Next
    PROVE  /\ \E in : CompactLines(in) /\ Observe(in) /\ Idleint(in)
           /\ Compress /\ Deword /\ SixChar
  BY DEF Next

LEMMA TypeStep == TypeInv /\ Next => TypeInv'
  <1> SUFFICES ASSUME TypeInv, Next PROVE TypeInv'
    OBVIOUS
  <1>1. PICK in : CompactLines(in) /\ Observe(in) /\ Idleint(in)
    BY NextParts
  <1>2. cw' \in Words \cup {NoWord} /\ aword' \in Words \cup {NoWord} /\ cp' \in Words \cup {NoWord}
    BY <1>1, NextParts DEF TypeInv, Idleint, Compress, NextAword, Words
  <1>3. Char(dw') /\ r_len' = dw'.l
    BY NextParts, DewordStep
  <1>4. Char(ln') /\ ln_busy' = (ln' # None)
    BY <1>1, LineStep
  <1>5. Char(ch')
    BY NextParts, CharFacts DEF TypeInv, SixChar
  <1>6. linelen' \in Nat /\ full_line' \in {0, 1}
    BY <1>1, LineStep DEF TypeInv, NextFullLine, Bit
  <1>7. pos' \in Nat
    BY <1>1 DEF Observe, TypeInv
  <1> QED
    BY <1>2, <1>3, <1>4, <1>5, <1>6, <1>7 DEF TypeInv

-----------------------------------------------------------------------------
(* The five stages as one step sees them: who hands what to whom.            *)
LEMMA Moves ==
    ASSUME TypeInv, Next
    PROVE  /\ \A c \in {ch, ln, dw, ch', ln', dw'} : Char(c)
           /\ pos' = IF Leaves THEN After(pos, ch) ELSE pos
           /\ ch # None => ch' = IF Leaves THEN None ELSE ch
           /\ ch = None => ch' = ln /\ ~Leaves
           /\ ln # None => ln' = IF ch = None THEN None ELSE ln
           /\ ln = None => \/ ln' = dw
                           \/ ln' = None /\ dw \in {Newline, None}
                           \/ ln' = Newline /\ dw = None
           /\ dw # None /\ ln # None => dw' = dw
           /\ dw # None /\ ln = None =>
                 /\ dw.l > 1 => dw'.w = dw.w /\ dw'.k = dw.k + 1 /\ dw'.l = dw.l - 1
                 /\ dw.l = 1 => dw' = Newline
                 /\ dw.l = 0 => dw' = None
           /\ dw = None => IF cp # NoWord THEN dw'.w = cp /\ dw'.k = 1 /\ dw'.l > 0 ELSE dw' = None
  <1>1. PICK in : CompactLines(in) /\ Observe(in)
    BY NextParts
  <1>2. /\ Char(dw) /\ Char(ln) /\ Char(ch) /\ Char(dw') /\ Char(ln') /\ Char(ch')
    BY TypeStep DEF TypeInv
  <1>3. /\ pos' = IF Leaves THEN After(pos, ch) ELSE pos
    BY <1>1, <1>2, CharFacts DEF Observe, After, Leaves
  <1>4. /\ ch # None => ch' = IF Leaves THEN None ELSE ch
        /\ ch = None => ch' = ln /\ ~Leaves
    BY NextParts DEF SixChar, byte_busy, Leaves
  <1>5. /\ ln # None => ln' = IF ch = None THEN None ELSE ln
        /\ ln = None => \/ ln' = dw
                        \/ ln' = None /\ dw \in {Newline, None}
                        \/ ln' = Newline /\ dw = None
    BY <1>1, LineStep DEF byte_busy
  <1>6. ln_busy <=> ln # None
    BY DEF TypeInv
  <1>7. CASE dw # None
    <2>1. ~(cp # NoWord /\ ~dw_busy)
      BY <1>7 DEF dw_busy
    <2> QED
      BY <1>2, <1>3, <1>4, <1>5, <1>6, <1>7, <2>1, NextParts, DewordStep
  <1>8. CASE dw = None
    <2>1. ~dw_busy
      BY <1>8 DEF dw_busy
    <2>2. dw.l = 0
      BY <1>8, CharFacts
    <2>3. CASE cp # NoWord
      BY <1>2, <1>3, <1>4, <1>5, <1>8, <2>1, <2>3, NextParts, DewordStep, OutputAssumption
    <2>4. CASE cp = NoWord
      BY <1>2, <1>3, <1>4, <1>5, <1>8, <2>2, <2>4, NextParts, DewordStep
    <2> QED
      BY <2>3, <2>4
  <1> QED
    BY <1>7, <1>8

-----------------------------------------------------------------------------
LEMMA LineInvStep == TypeInv /\ LineInv /\ Next => LineInv'
  <1> SUFFICES ASSUME TypeInv, LineInv, Next PROVE LineInv'
    OBVIOUS
  <1> USE OutputAssumption, CharFacts
  <1>1. PICK in : CompactLines(in)
    BY NextParts
  <1>2. /\ Char(dw) /\ Char(ln) /\ linelen \in Nat /\ full_line \in {0, 1} /\ TypeInv'
        /\ ln_busy = (ln # None) /\ dw_busy = (dw # None) /\ Char(dw') /\ Char(ln')
    BY TypeStep DEF TypeInv, dw_busy
  <1>3. (full_line' = 0 => linelen' <= MAX_LINE_LENGTH - LONG) /\ linelen' <= MAX_LINE_LENGTH
    BY <1>1, <1>2, LineStep DEF LineInv, NextFullLine, Bit, OnLine
  (* The newline behind a word may be left out only when a whole word still fits. *)
  <1>4. ln # None => dw' = dw \/ (dw = None /\ dw'.l \in 1 .. LONG)
    BY <1>2, NextParts, DewordStep
  <1>5. /\ dw.l \in 0 .. LONG /\ ln.l \in 0 .. LONG /\ dw'.l \in 0 .. LONG /\ ln'.l \in 0 .. LONG
        /\ (dw'.l > 0 => dw' # None /\ dw' # Newline) /\ (ln.l = 0 <=> ln \in {Newline, None})
        /\ None.l = 0 /\ Newline.l = 0 /\ None # Newline
    BY <1>2
  <1>6. CASE ln # None /\ byte_busy
    <2>1. ln' = ln /\ linelen' = linelen
      BY <1>1, <1>6, LineStep
    <2> QED
      BY <1>2, <1>3, <1>4, <1>5, <1>6, <2>1 DEF LineInv, OnLine
  <1>7. CASE ln # None /\ ~byte_busy
    <2>1. ln' = None /\ linelen' = (IF ln = Newline THEN 0 ELSE linelen + 1)
      BY <1>1, <1>7, LineStep
    <2>2. CASE ln = Newline
      BY <1>2, <1>3, <1>4, <1>5, <1>7, <2>1, <2>2 DEF LineInv, OnLine
    <2>3. CASE ln # Newline
      BY <1>2, <1>3, <1>4, <1>5, <1>7, <2>1, <2>3 DEF LineInv, OnLine
    <2> QED
      BY <2>2, <2>3
  <1>8. CASE ln = None
    <2>1. /\ linelen' = linelen
          /\ dw # None => ln' = IF dw = Newline /\ full_line = 0 THEN None ELSE dw
          /\ dw = None => ln' \in {Newline, None}
      BY <1>1, <1>8, LineStep
    <2>2. CASE dw = None
      BY <1>2, <1>3, <1>8, <2>1, <2>2, NextParts, DewordStep DEF LineInv, OnLine
    <2>3. CASE dw = Newline
      BY <1>2, <1>3, <1>8, <2>1, <2>3, NextParts, DewordStep DEF LineInv, OnLine
    <2>4. CASE dw.l > 0
      <3>1. ln' = dw /\ dw # Newline
        BY <1>2, <2>1, <2>4
      <3>2. (dw.l > 1 => dw'.l = dw.l - 1) /\ (dw.l = 1 => dw' = Newline)
        BY <1>5, <1>8, <2>4, Moves
      <3> QED
        BY <1>2, <1>3, <1>5, <1>8, <2>1, <2>4, <3>1, <3>2 DEF LineInv, OnLine
    <2> QED
      BY <1>2, <2>2, <2>3, <2>4
  <1> QED
    BY <1>6, <1>7, <1>8

LEMMA PlaceStep == TypeInv /\ PlaceInv /\ Next => PlaceInv'
  <1> SUFFICES ASSUME TypeInv, PlaceInv, Next PROVE PlaceInv'
    OBVIOUS
  <1> DEFINE q == After(pos, ch)
             q2 == After(pos', ch')
  <1>1. /\ None.l = 0 /\ Newline.l = 0 /\ None # Newline /\ pos \in Nat /\ pos' \in Nat
        /\ \A c \in {ch, ln, dw, ch', ln', dw'} :
              /\ c.l \in Nat /\ (c.l = 0 <=> c \in {Newline, None})
              /\ c.l > 0 => c.k \in Nat
    BY Moves, CharFacts, TypeStep, OutputAssumption DEF TypeInv
  <1>2. CASE ch # None
    <2>1. q2 = q /\ InPlace(pos', ch') /\ (Follows(ch', ln) \/ ln = None) /\ (Follows(ch', dw) \/ ln # None)
      <3>1. CASE Leaves
        <4>1. ch' = None /\ pos' = q
          BY <1>2, <3>1, Moves
        <4>2. q2 = q
          BY <1>1, <4>1 DEF After
        <4> HIDE DEF q
        <4> QED
          BY <1>1, <4>1, <4>2 DEF InPlace, Follows
      <3>2. CASE ~Leaves
        <4>1. ch' = ch /\ pos' = pos
          BY <1>2, <3>2, Moves
        <4> QED
          BY <4>1 DEF PlaceInv
      <3> QED
        BY <3>1, <3>2
    <2> HIDE DEF q2
    <2>2. CASE ln # None
      <3>1. ln' = ln /\ (dw # None => dw' = dw) /\ (dw = None => dw' = None \/ (dw'.k = 1 /\ dw'.l > 0))
        BY <1>2, <2>2, Moves
      <3>2. CASE dw # None
        BY <2>1, <2>2, <3>1, <3>2 DEF PlaceInv, q2
      <3>3. CASE dw = None
        <4>1. After(q, ln) = 0 /\ ln.l <= 1 /\ InPlace(q, ln) /\ Follows(ch', ln)
          BY <1>1, <2>1, <2>2, <3>3 DEF PlaceInv, Follows
        <4>2. InPlace(0, dw')
          BY <1>1, <3>1, <3>3 DEF InPlace
        <4> QED
          BY <1>1, <2>1, <2>2, <3>1, <4>1, <4>2 DEF PlaceInv, Follows, q2
      <3> QED
        BY <3>2, <3>3
    <2>3. CASE ln = None
      <3>1. After(q, ln) = q /\ q \in Nat
        BY <1>1, <2>3 DEF After
      <3>2. CASE dw = None
        <4>1. ln' \in {Newline, None} /\ (dw' = None \/ (dw'.k = 1 /\ dw'.l > 0)) /\ q = 0
          BY <2>3, <3>1, <3>2, Moves DEF PlaceInv
        <4>2. ch'.l <= 1
          BY <1>1, <2>1, <2>3, <3>2 DEF Follows
        <4>3. /\ After(0, ln') = 0 /\ InPlace(0, ln') /\ InPlace(0, dw')
              /\ Follows(ch', ln') /\ Follows(ch', dw') /\ Follows(ln', dw')
          BY <1>1, <4>1, <4>2 DEF After, InPlace, Follows
        <4> HIDE DEF q
        <4> QED
          BY <2>1, <4>1, <4>3 DEF PlaceInv, q2
      <3>3. CASE dw = Newline
        <4>1. ln' \in {Newline, None} /\ dw' = None /\ q = 0
          BY <1>1, <2>3, <3>1, <3>3, Moves DEF PlaceInv, InPlace
        <4>2. ch'.l <= 1
          BY <1>1, <2>1, <2>3, <3>3 DEF Follows
        <4>3. /\ After(0, ln') = 0 /\ InPlace(0, ln') /\ InPlace(0, dw')
              /\ Follows(ch', ln') /\ Follows(ch', dw') /\ Follows(ln', dw')
          BY <1>1, <4>1, <4>2 DEF After, InPlace, Follows
        <4> HIDE DEF q
        <4> QED
          BY <2>1, <4>1, <4>3 DEF PlaceInv, q2
      <3>4. CASE dw.l > 0
        <4>1. /\ ln' = dw /\ dw # None /\ dw # Newline
              /\ dw.l > 1 => dw'.w = dw.w /\ dw'.k = dw.k + 1 /\ dw'.l = dw.l - 1
              /\ dw.l = 1 => dw' = Newline
          BY <1>1, <2>3, <3>4, Moves
        <4>2. InPlace(q, dw) /\ Follows(ch', dw)
          BY <2>1, <2>3, <3>1 DEF PlaceInv
        <4> HIDE DEF q
        <4>3. InPlace(After(q, dw), dw') /\ Follows(dw, dw')
          BY <1>1, <3>1, <3>4, <4>1, <4>2 DEF After, InPlace, Follows
        <4>4. dw' # None
          BY <1>1, <3>4, <4>1
        <4> QED
          BY <1>1, <2>1, <4>1, <4>2, <4>3, <4>4 DEF PlaceInv, q2
      <3> QED
        BY <1>1, <3>2, <3>3, <3>4
    <2> QED
      BY <2>2, <2>3
  <1>3. CASE ch = None
    <2>1. pos' = pos /\ ch' = ln
      BY <1>3, Moves
    <2>2. CASE ln # None
      BY <1>1, <1>3, <2>1, <2>2, Moves DEF PlaceInv, After, InPlace, Follows
    <2>3. CASE ln = None
      BY <1>1, <1>3, <2>1, <2>3, Moves DEF PlaceInv, After, InPlace, Follows
    <2> QED
      BY <2>2, <2>3
  <1> QED
    BY <1>2, <1>3

-----------------------------------------------------------------------------
(* The words under way: a stage that hands a word on takes it off its own end of
   the list and puts it on the other's.                                      *)
Cat(s, t) == s \o t

LEMMA Assoc ==
    ASSUME NEW x \in Seq(Words), NEW y \in Seq(Words), NEW z \in Seq(Words)
    PROVE  Cat(Cat(x, y), z) = Cat(x, Cat(y, z)) /\ Cat(x, y) \in Seq(Words)
  BY DEF Cat

(* One stage: what it had, with what it gets behind it, is what it gives away
   with what it has then behind that.                                        *)
Handed(x, s, i, g, s2, p, x2) ==
    Cat(s, i) = Cat(g, s2) /\ Cat(x, g) = Cat(p, x2) => Cat(Cat(x, s), i) = Cat(p, Cat(x2, s2))

LEMMA OneStage ==
    ASSUME NEW x \in Seq(Words), NEW s \in Seq(Words), NEW i \in Seq(Words),
           NEW g \in Seq(Words), NEW s2 \in Seq(Words), NEW p \in Seq(Words), NEW x2 \in Seq(Words)
    PROVE  Handed(x, s, i, g, s2, p, x2)
  <1>1. Cat(Cat(x, s), i) = Cat(x, Cat(s, i))
    BY Assoc
  <1>2. Cat(Cat(x, g), s2) = Cat(x, Cat(g, s2))
    BY Assoc
  <1>3. Cat(Cat(p, x2), s2) = Cat(p, Cat(x2, s2))
    BY Assoc
  <1> QED
    BY <1>1, <1>2, <1>3 DEF Handed

Regrouped(a, b, c, d, a2, b2, c2, d2, m, n, o, p, i) ==
    /\ Cat(d, i) = Cat(m, d2) /\ Cat(c, m) = Cat(n, c2) /\ Cat(b, n) = Cat(o, b2) /\ Cat(a, o) = Cat(p, a2)
    => Cat(Cat(a, Cat(b, Cat(c, d))), i) = Cat(p, Cat(a2, Cat(b2, Cat(c2, d2))))

LEMMA Regroup ==
    ASSUME NEW a \in Seq(Words), NEW b \in Seq(Words), NEW c \in Seq(Words), NEW d \in Seq(Words),
           NEW a2 \in Seq(Words), NEW b2 \in Seq(Words), NEW c2 \in Seq(Words), NEW d2 \in Seq(Words),
           NEW m \in Seq(Words), NEW n \in Seq(Words), NEW o \in Seq(Words), NEW p \in Seq(Words),
           NEW i \in Seq(Words)
    PROVE  Regrouped(a, b, c, d, a2, b2, c2, d2, m, n, o, p, i)
  <1> SUFFICES ASSUME Cat(d, i) = Cat(m, d2), Cat(c, m) = Cat(n, c2), Cat(b, n) = Cat(o, b2),
                      Cat(a, o) = Cat(p, a2)
               PROVE  Cat(Cat(a, Cat(b, Cat(c, d))), i) = Cat(p, Cat(a2, Cat(b2, Cat(c2, d2))))
    BY DEF Regrouped
  <1> DEFINE s1 == Cat(c, d)
             s2 == Cat(c2, d2)
             t1 == Cat(b, s1)
             t2 == Cat(b2, s2)
  <1>1. s1 \in Seq(Words) /\ s2 \in Seq(Words)
    BY Assoc
  <1>2. Handed(c, d, i, m, d2, n, c2)
    BY OneStage
  <1>3. Cat(s1, i) = Cat(n, s2)
    BY <1>2 DEF Handed
  <1> HIDE DEF s1, s2
  <1>4. t1 \in Seq(Words) /\ t2 \in Seq(Words)
    BY <1>1, Assoc
  <1>5. Handed(b, s1, i, n, s2, o, b2)
    BY <1>1, OneStage
  <1>6. Cat(t1, i) = Cat(o, t2)
    BY <1>3, <1>5 DEF Handed
  <1> HIDE DEF t1, t2
  <1>7. Handed(a, t1, i, o, t2, p, a2)
    BY <1>4, OneStage
  <1>8. Cat(Cat(a, t1), i) = Cat(p, Cat(a2, t2))
    BY <1>6, <1>7 DEF Handed
  <1> QED
    BY <1>8 DEF t1, t2, s1, s2

LEMMA CatEmpty ==
    /\ <<>> \in Seq(Words) /\ \A w \in Words : <<w>> \in Seq(Words)
    /\ \A x \in Seq(Words) : Cat(x, <<>>) = x /\ Cat(<<>>, x) = x
  BY DEF Cat

LEMMA HeadTailOfCat ==
    ASSUME NEW w \in Words, NEW s \in Seq(Words)
    PROVE  Cat(<<w>>, s) # <<>> /\ Head(Cat(<<w>>, s)) = w /\ Tail(Cat(<<w>>, s)) = s
  BY DEF Cat

LEMMA DueStep == TypeInv /\ DueInv /\ Next => DueInv'
  <1> SUFFICES ASSUME TypeInv, DueInv, Next PROVE DueInv'
    OBVIOUS
  <1> DEFINE Q == Cat(Ends(ch), Cat(Ends(ln), Cat(Rest(dw), Cat(One(cp), One(aword)))))
             i == IF cw_busy /\ ~cp_busy THEN <<cw>> ELSE <<>>
             m == IF cp # NoWord /\ dw = None THEN <<cp>> ELSE <<>>
             n == IF ln = None /\ dw.l = 1 THEN <<dw.w>> ELSE <<>>
             o == IF ch = None /\ ln.l = 1 THEN <<ln.w>> ELSE <<>>
             p == IF Leaves /\ ch.l = 1 THEN <<ch.w>> ELSE <<>>
  <1>0. /\ None.l = 0 /\ Newline.l = 0 /\ None # Newline
        /\ \A c \in {ch, ln, dw, ch', ln', dw'} :
              c.l \in Nat /\ (c.l > 0 => c.w \in Words) /\ (c.l = 0 <=> c \in {Newline, None})
        /\ cw \in Words \cup {NoWord} /\ aword \in Words \cup {NoWord} /\ cp \in Words \cup {NoWord}
        /\ aword' \in Words \cup {NoWord} /\ cp' \in Words \cup {NoWord}
    BY Moves, CharFacts, TypeStep, OutputAssumption DEF TypeInv
  <1>1. /\ \A c \in {ch, ln, dw, ch', ln', dw'} : Ends(c) \in Seq(Words) /\ Rest(c) \in Seq(Words)
        /\ \A w \in {cw, aword, cp, aword', cp'} : One(w) \in Seq(Words)
        /\ i \in Seq(Words) /\ m \in Seq(Words) /\ n \in Seq(Words) /\ o \in Seq(Words) /\ p \in Seq(Words)
    BY <1>0, CatEmpty DEF Ends, Rest, One, cw_busy
  <1>2. Cat(Cat(One(cp), One(aword)), i) = Cat(m, Cat(One(cp'), One(aword')))
    <2>1. aword' = (IF cp_busy THEN aword ELSE cw) /\ cp' = IF tbl_busy THEN cp ELSE aword
      BY NextParts DEF Compress, NextAword
    <2>2. ~cp_busy => i = One(cw)
      BY DEF One, cw_busy
    <2>3. CASE tbl_busy
      <3>1. m = <<>> /\ cp' = cp
        BY <2>1, <2>3 DEF tbl_busy, dw_busy
      <3>2. CASE cp_busy
        <4>1. i = <<>> /\ aword' = aword
          BY <2>1, <3>2
        <4> HIDE DEF i, m
        <4>2. Cat(One(cp), One(aword)) \in Seq(Words)
          BY <1>1, Assoc
        <4> QED
          BY <3>1, <4>1, <4>2, CatEmpty
      <3>3. CASE ~cp_busy
        <4>1. One(aword) = <<>> /\ aword' = cw /\ i = One(cw)
          BY <2>1, <2>2, <2>3, <3>3 DEF cp_busy, One
        <4> HIDE DEF i, m
        <4>2. Cat(One(cp), One(cw)) \in Seq(Words)
          BY <1>1, Assoc
        <4> QED
          BY <1>1, <3>1, <4>1, <4>2, CatEmpty
      <3> QED
        BY <3>2, <3>3
    <2>4. CASE ~tbl_busy
      <3>1. m = One(cp) /\ cp' = aword /\ aword' = cw /\ i = One(cw)
        BY <2>1, <2>2, <2>4 DEF tbl_busy, cp_busy, dw_busy, One
      <3> HIDE DEF i, m
      <3> QED
        BY <1>1, <3>1, Assoc
    <2> QED
      BY <2>3, <2>4
  <1>3. Cat(Rest(dw), m) = Cat(n, Rest(dw'))
    <2>1. CASE dw = None
      <3>1. Rest(dw) = <<>> /\ n = <<>> /\ Rest(dw') = m
        BY <1>0, <2>1, Moves DEF Rest
      <3> HIDE DEF n, m
      <3> QED
        BY <1>1, <3>1, CatEmpty
    <2>2. CASE dw # None
      <3>1. m = <<>> /\ ((n = <<>> /\ Rest(dw') = Rest(dw)) \/ (n = Rest(dw) /\ Rest(dw') = <<>>))
        BY <1>0, <2>2, Moves DEF Rest
      <3> HIDE DEF n, m
      <3> QED
        BY <1>1, <3>1, CatEmpty
    <2> QED
      BY <2>1, <2>2
  <1>4. Cat(Ends(ln), n) = Cat(o, Ends(ln'))
    <2>1. \/ n = <<>> /\ o = <<>> /\ Ends(ln') = Ends(ln)
          \/ n = <<>> /\ o = Ends(ln) /\ Ends(ln') = <<>>
          \/ Ends(ln) = <<>> /\ o = <<>> /\ Ends(ln') = n
      BY <1>0, Moves DEF Ends
    <2> HIDE DEF n, o
    <2> QED
      BY <1>1, <2>1, CatEmpty, SMTT(40)
  <1>5. Cat(Ends(ch), o) = Cat(p, Ends(ch'))
    <2>1. \/ o = <<>> /\ p = <<>> /\ Ends(ch') = Ends(ch)
          \/ o = <<>> /\ p = Ends(ch) /\ Ends(ch') = <<>>
          \/ Ends(ch) = <<>> /\ p = <<>> /\ Ends(ch') = o
      BY <1>0, Moves DEF Ends
    <2> HIDE DEF p, o
    <2> QED
      BY <1>1, <2>1, CatEmpty
  <1>6. due = Q /\ (DueInv' <=> due' = Q') /\ Q \in Seq(Words) /\ Q' \in Seq(Words)
    <2>1. Q \in Seq(Words) /\ Q' \in Seq(Words)
      BY <1>1, Assoc
    <2> QED
      BY <2>1 DEF DueInv, Cat
  <1>7. due' = Cat(IF Leaves /\ ch.l = 1 THEN Tail(due) ELSE due, i)
    BY NextParts DEF Observe, Cat
  <1>8. Cat(Q, i) = Cat(p, Q')
    <2> HIDE DEF i, m, n, o, p
    <2>1. Cat(One(cp), One(aword)) \in Seq(Words) /\ Cat(One(cp'), One(aword')) \in Seq(Words)
      BY <1>1, Assoc
    <2>2. Regrouped(Ends(ch), Ends(ln), Rest(dw), Cat(One(cp), One(aword)),
                    Ends(ch'), Ends(ln'), Rest(dw'), Cat(One(cp'), One(aword')), m, n, o, p, i)
      BY <1>1, <2>1, Regroup
    <2> QED
      BY <1>2, <1>3, <1>4, <1>5, <2>2 DEF Regrouped
  <1> HIDE DEF Q, i, m, n, o
  <1>9. CASE Leaves /\ ch.l = 1
    (* The first word goes: what is left of the list, with what came, is Q'.   *)
    <2>1. p = <<ch.w>> /\ ch.w \in Words
      BY <1>0, <1>9
    <2>2. \E t \in Seq(Words) : Q = Cat(<<ch.w>>, t)
      <3>1. Ends(ch) = <<ch.w>>
        BY <1>9 DEF Ends
      <3> DEFINE t == Cat(Ends(ln), Cat(Rest(dw), Cat(One(cp), One(aword))))
      <3>2. t \in Seq(Words)
        BY <1>1, Assoc
      <3>3. Q = Cat(<<ch.w>>, t)
        BY <3>1 DEF Q
      <3> QED
        BY <3>2, <3>3
    <2>3. PICK t \in Seq(Words) : Q = Cat(<<ch.w>>, t)
      BY <2>2
    <2>4. Tail(Q) = t
      BY <2>1, <2>3, HeadTailOfCat
    <2>5. Cat(Q, i) = Cat(<<ch.w>>, Cat(t, i)) /\ Cat(t, i) \in Seq(Words)
      <3> HIDE DEF p
      <3>1. Q = Cat(p, t)
        BY <2>1, <2>3
      <3>2. Cat(Cat(p, t), i) = Cat(p, Cat(t, i)) /\ Cat(t, i) \in Seq(Words)
        <4>1. p \in Seq(Words) /\ i \in Seq(Words) /\ t \in Seq(Words)
          BY <1>1, <2>3
        <4> QED
          BY <4>1, Assoc
      <3> QED
        BY <2>1, <3>1, <3>2
    <2>6. Cat(t, i) = Q'
      BY <1>6, <1>8, <2>1, <2>5, HeadTailOfCat, ZenonT(60)
    <2> QED
      BY <1>6, <1>7, <1>9, <2>4, <2>6
  <1>10. CASE ~(Leaves /\ ch.l = 1)
    <2>1. p = <<>>
      BY <1>10
    <2> QED
      BY <1>6, <1>7, <1>8, <1>10, <2>1, CatEmpty
  <1> QED
    BY <1>9, <1>10

-----------------------------------------------------------------------------
LEMMA InitInv == Init => IInv
  <1> SUFFICES ASSUME Init PROVE IInv
    OBVIOUS
  <1> USE CharFacts, OutputAssumption
  <1>1. TypeInv
    BY DEF Init, TypeInv, ln_busy
  <1>2. LineInv
    BY DEF Init, LineInv, OnLine
  <1>3. PlaceInv
    BY DEF Init, PlaceInv, InPlace, After, Follows
  <1>4. DueInv
    BY DEF Init, DueInv, Ends, Rest, One
  <1> QED
    BY <1>1, <1>2, <1>3, <1>4 DEF IInv

LEMMA NextInv == IInv /\ [Next]_vars => IInv'
  <1> SUFFICES ASSUME IInv, [Next]_vars PROVE IInv'
    OBVIOUS
  <1>1. CASE Next
    BY <1>1, TypeStep, LineInvStep, PlaceStep, DueStep DEF IInv
  <1>2. CASE UNCHANGED vars
    BY <1>2 DEF vars, idleint, lines, IInv, TypeInv, LineInv, PlaceInv, DueInv, ln_busy, OnLine
  <1> QED
    BY <1>1, <1>2

(* wbucompactlines.v: for every longest word and every MAX_LINE_LENGTH above it,
   no line of the output gets longer than that.                              *)
THEOREM LineLengths == Spec => []LinesFit
  <1>1. IInv => LinesFit
    BY DEF IInv, LineInv, LinesFit
  <1> QED
    BY <1>1, InitInv, NextInv, PTL DEF Spec

(* wbuoutput.v: through all its stages, whichever is busy when, the character that
   the serial port is offered is the next digit of the oldest word under way, or a
   newline between two words.                                                *)
THEOREM WordsLeaveInOrder == Spec => []DigitsInOrder
  <1>1. IInv => DigitsInOrder
    <2> SUFFICES ASSUME IInv PROVE DigitsInOrder
      OBVIOUS
    <2>1. (ch = Newline => pos = 0) /\ (ch.l > 0 => ch.k = pos + 1)
      BY DEF IInv, PlaceInv, InPlace
    <2>2. ASSUME ch.l > 0 PROVE due # <<>> /\ ch.w = Head(due)
      <3> DEFINE t1 == Cat(One(cp), One(aword))
                 t2 == Cat(Rest(dw), t1)
                 t3 == Cat(Ends(ln), t2)
      <3>0. /\ None.l = 0 /\ Newline.l = 0 /\ None # Newline
            /\ \A c \in {ch, ln, dw} :
                  c.l \in Nat /\ (c.l > 0 => c.w \in Words) /\ (c.l = 0 <=> c \in {Newline, None})
            /\ aword \in Words \cup {NoWord} /\ cp \in Words \cup {NoWord}
        BY CharFacts, OutputAssumption DEF IInv, TypeInv
      <3>1. /\ Ends(ch) \in Seq(Words) /\ Ends(ln) \in Seq(Words) /\ Rest(dw) \in Seq(Words)
            /\ One(cp) \in Seq(Words) /\ One(aword) \in Seq(Words)
        BY <3>0, CatEmpty DEF Ends, Rest, One
      <3>2. t1 \in Seq(Words) /\ t2 \in Seq(Words) /\ t3 \in Seq(Words)
        BY <3>1, Assoc
      <3>3. due = Cat(Ends(ch), t3)
        BY DEF IInv, DueInv, Cat
      <3> HIDE DEF t1
      <3>4. CASE ch.l = 1
        <4>1. due = Cat(<<ch.w>>, t3) /\ ch.w \in Words
          BY <3>0, <3>3, <3>4 DEF Ends
        <4> QED
          BY <3>2, <4>1, HeadTailOfCat
      <3>5. CASE ch.l > 1
        <4>1. Ends(ch) = <<>>
          BY <3>0, <3>5 DEF Ends
        <4>2. due = t3
          BY <3>2, <3>3, <4>1, CatEmpty
        <4>3. CASE ln.l = 1
          <5>1. Ends(ln) = <<ch.w>> /\ ch.w \in Words
            BY <3>0, <3>5, <4>3 DEF Ends, IInv, PlaceInv, Follows
          <5> HIDE DEF t2
          <5> QED
            BY <3>2, <4>2, <5>1, HeadTailOfCat
        <4>4. CASE ln.l # 1
          <5>1. Ends(ln) = <<>> /\ Rest(dw) = <<ch.w>> /\ ch.w \in Words
            BY <3>0, <3>5, <4>4 DEF Ends, Rest, IInv, PlaceInv, Follows, InPlace, After
          <5>2. due = t2
            BY <3>2, <4>2, <5>1, CatEmpty
          <5> QED
            BY <3>2, <5>1, <5>2, HeadTailOfCat
        <4> QED
          BY <4>3, <4>4
      <3> QED
        BY <2>2, <3>0, <3>4, <3>5
    <2> QED
      BY <2>1, <2>2 DEF DigitsInOrder
  <1> QED
    BY <1>1, InitInv, NextInv, PTL DEF Spec
=============================================================================
